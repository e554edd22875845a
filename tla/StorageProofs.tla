--------------------------- MODULE StorageProofs ----------------------------
(***************************************************************************)
(* Proofs about Storage: the driver's commands keep step with the card's   *)
(* states, for any number of slots, any cards and any number of rounds.    *)
(* Cards of one slot are independent of the other slots, which only stop   *)
(* the kernel.  The lists of disks and partitions are what the slots       *)
(* share: the second part is about them, for cards inserted one by one.    *)
(*                                                                         *)
(* The third part is about Fat, the files on what has been mounted: the    *)
(* position is the place that the offset in the file means.                *)
(***************************************************************************)
EXTENDS Storage, Fat, ListLemmas, FiniteSetTheorems

(* The steps of sd_init_thread, by the state that the card is in then.     *)
Identifying == {"condition", "opcond", "acmd41"}
Transferring ==
  {"scr55", "scr", "width55", "width", "hostwidth", "name", "count", "adddisk",
   "mbrready", "mbr", "mount", "bpbready", "bpb", "addpart", "list", "done"}

CardState(step) ==
  CASE step = "empty" -> "none"
    [] step = "idle" \/ step \in Identifying -> "idle"
    [] step = "cid" -> "ready"
    [] step = "rca" -> "ident"
    [] step \in {"csd", "select"} -> "stby"
    [] step \in Transferring -> "tran"

Steps ==
  {"empty", "idle", "cid", "rca", "csd", "select"} \union Identifying \union Transferring

Card == [kind : Cards, state : {"none", "idle", "ready", "ident", "stby", "tran"},
         rca : {0, 1}, app : BOOLEAN, width : {1, 4}]
Controller == [version : {1, 2}, addr : {0, 1}, sdhc : BOOLEAN, bus4 : BOOLEAN,
               width : {1, 4}]

TypeCards ==
  /\ card \in [Slots -> Card]
  /\ sd \in [Slots -> Controller]
  /\ pc \in [Slots -> Steps \union {"panic", "fault"}]
  /\ tries \in [Slots -> Nat]

(* What holds of a slot whose thread goes on, of its card c, its           *)
(* controller h and the thread's step: the card is in the state that the   *)
(* next command needs, it is addressed by the address it has published,    *)
(* CMD55 has come before an application command, both ends of the bus have *)
(* one width, and a card that knows CMD8 is one of version 2.              *)
OnStep(c, h, step) ==
  /\ c.state = CardState(step)
  /\ c.rca = h.addr
  /\ step \in {"empty", "idle"} => h.addr = 0
  /\ step \in {"acmd41", "scr", "width"} => c.app
  /\ step = "hostwidth" => c.width = 4
  /\ step # "hostwidth" => c.width = h.width
  /\ step \notin {"empty", "idle", "condition"} => c.kind.version = 2 /\ h.version = 2
  /\ step \in {"rca", "cid", "csd", "select"} \union Transferring => h.sdhc = c.kind.hc

Unsupported(c, t) == c.kind.version = 1 \/ t = 0 \/ c.state = "none"

StorageInv ==
  /\ TypeCards
  /\ \A s \in Slots :
       /\ pc[s] \in Steps => OnStep(card[s], sd[s], pc[s]) /\ tries[s] > 0
       /\ pc[s] = "panic" => Unsupported(card[s], tries[s])

-----------------------------------------------------------------------------
(* A step of slot s leaves the other slots alone, so that only what it     *)
(* makes of its own card, controller and step has to be looked at.         *)
LEMMA SlotStep ==
  ASSUME StorageInv, NEW s \in Slots, TypeCards',
         \A r \in Slots \ {s} : /\ card'[r] = card[r] /\ sd'[r] = sd[r]
                                /\ pc'[r] = pc[r] /\ tries'[r] = tries[r],
         pc'[s] \in Steps => OnStep(card'[s], sd'[s], pc'[s]) /\ tries'[s] > 0,
         pc'[s] = "panic" => Unsupported(card'[s], tries'[s])
  PROVE  StorageInv'
<1>1. ASSUME NEW r \in Slots
      PROVE  /\ pc'[r] \in Steps => OnStep(card'[r], sd'[r], pc'[r]) /\ tries'[r] > 0
             /\ pc'[r] = "panic" => Unsupported(card'[r], tries'[r])
  BY DEF StorageInv
<1> QED
  BY <1>1 DEF StorageInv, OnStep, Unsupported

(* What a command that is taken makes of a card c: the card d. *)
Effect(c, d, cmd, hcs) ==
  /\ d \in Card
  /\ d.kind = c.kind /\ d.width = c.width
  /\ cmd = "CMD55" => d.app
  /\ d.rca = IF cmd = "CMD0" THEN 0 ELSE IF cmd = "CMD3" THEN 1 ELSE c.rca
  /\ d.state = CASE cmd = "CMD0" -> "idle"
                 [] cmd = "ACMD41" -> IF hcs THEN "ready" ELSE c.state
                 [] cmd = "CMD2" -> "ident"
                 [] cmd = "CMD3" -> "stby"
                 [] cmd = "CMD7" -> "tran"
                 [] OTHER -> c.state

LEMMA AfterEffect ==
  ASSUME NEW c \in Card, NEW cmd, NEW hcs \in BOOLEAN
  PROVE  Effect(c, After(c, cmd, hcs), cmd, hcs)
<1> DEFINE prefix == cmd = "CMD55"
<1> DEFINE d == [c EXCEPT !.app = prefix]
<1>1. prefix \in BOOLEAN /\ (prefix <=> cmd = "CMD55")
  OBVIOUS
<1>3. After(c, cmd, hcs) =
        CASE cmd = "CMD0" -> [d EXCEPT !.state = "idle", !.rca = 0]
          [] cmd = "ACMD41" /\ hcs -> [d EXCEPT !.state = "ready"]
          [] cmd = "CMD2" -> [d EXCEPT !.state = "ident"]
          [] cmd = "CMD3" -> [d EXCEPT !.state = "stby", !.rca = 1]
          [] cmd = "CMD7" -> [d EXCEPT !.state = "tran"]
          [] OTHER -> d
  BY DEF After
<1> HIDE DEF prefix
<1>2. d = [kind |-> c.kind, state |-> c.state, rca |-> c.rca, app |-> prefix,
           width |-> c.width]
  BY DEF Card
<1> HIDE DEF d
<1> DEFINE with(state, rca) ==
             [kind |-> c.kind, state |-> state, rca |-> rca, app |-> prefix,
              width |-> c.width]
<1>4. ASSUME NEW state \in {"none", "idle", "ready", "ident", "stby", "tran"},
             NEW rca \in {0, 1}
      PROVE  /\ with(state, rca) \in Card /\ with(state, rca).app = prefix
             /\ with(state, rca).kind = c.kind /\ with(state, rca).width = c.width
             /\ with(state, rca).state = state /\ with(state, rca).rca = rca
  BY <1>1 DEF Card
<1>5. /\ [d EXCEPT !.state = "idle", !.rca = 0] = with("idle", 0)
      /\ [d EXCEPT !.state = "ready"] = with("ready", c.rca)
      /\ [d EXCEPT !.state = "ident"] = with("ident", c.rca)
      /\ [d EXCEPT !.state = "stby", !.rca = 1] = with("stby", 1)
      /\ [d EXCEPT !.state = "tran"] = with("tran", c.rca)
      /\ d = with(c.state, c.rca)
  <2>1. [d EXCEPT !.state = "idle", !.rca = 0] = with("idle", 0)
    <3>1. [d EXCEPT !.state = "idle", !.rca = 0] =
            [[d EXCEPT !.state = "idle"] EXCEPT !.rca = 0]
      OBVIOUS
    <3>2. [d EXCEPT !.state = "idle"] = with("idle", c.rca)
      BY <1>2
    <3>3. [with("idle", c.rca) EXCEPT !.rca = 0] = with("idle", 0)
      OBVIOUS
    <3> QED
      BY <3>1, <3>2, <3>3
  <2>2. [d EXCEPT !.state = "stby", !.rca = 1] = with("stby", 1)
    <3>1. [d EXCEPT !.state = "stby", !.rca = 1] =
            [[d EXCEPT !.state = "stby"] EXCEPT !.rca = 1]
      OBVIOUS
    <3>2. [d EXCEPT !.state = "stby"] = with("stby", c.rca)
      BY <1>2
    <3>3. [with("stby", c.rca) EXCEPT !.rca = 1] = with("stby", 1)
      OBVIOUS
    <3> QED
      BY <3>1, <3>2, <3>3
  <2>3. [d EXCEPT !.state = "ready"] = with("ready", c.rca)
    BY <1>2
  <2>4. [d EXCEPT !.state = "ident"] = with("ident", c.rca)
    BY <1>2
  <2>5. [d EXCEPT !.state = "tran"] = with("tran", c.rca)
    BY <1>2
  <2>6. d = with(c.state, c.rca)
    BY <1>2
  <2> QED
    BY <2>1, <2>2, <2>3, <2>4, <2>5, <2>6
<1>6. c.state \in {"none", "idle", "ready", "ident", "stby", "tran"} /\ c.rca \in {0, 1}
  BY DEF Card
<1> HIDE DEF with
<1>7. CASE cmd = "CMD0"
  <2>1. After(c, cmd, hcs) = with("idle", 0)
    BY <1>3, <1>5, <1>7
  <2> QED
    BY <1>1, <1>4, <1>6, <1>7, <2>1 DEF Effect
<1>8. CASE cmd = "ACMD41" /\ hcs
  <2> DEFINE e == with("ready", c.rca)
  <2>1. After(c, cmd, hcs) = e
    BY <1>3, <1>5, <1>8
  <2>2. /\ e \in Card /\ e.app = prefix /\ e.kind = c.kind /\ e.width = c.width
        /\ e.state = "ready" /\ e.rca = c.rca
    BY <1>4, <1>6
  <2> HIDE DEF e
  <2> QED
    BY <1>1, <1>8, <2>1, <2>2 DEF Effect
<1>9. CASE cmd = "CMD2"
  <2>1. After(c, cmd, hcs) = with("ident", c.rca)
    BY <1>3, <1>5, <1>9
  <2> QED
    BY <1>1, <1>4, <1>6, <1>9, <2>1 DEF Effect
<1>10. CASE cmd = "CMD3"
  <2>1. After(c, cmd, hcs) = with("stby", 1)
    BY <1>3, <1>5, <1>10
  <2> QED
    BY <1>1, <1>4, <1>6, <1>10, <2>1 DEF Effect
<1>11. CASE cmd = "CMD7"
  <2>1. After(c, cmd, hcs) = with("tran", c.rca)
    BY <1>3, <1>5, <1>11
  <2> QED
    BY <1>1, <1>4, <1>6, <1>11, <2>1 DEF Effect
<1>12. CASE cmd \notin {"CMD0", "CMD2", "CMD3", "CMD7"} /\ ~(cmd = "ACMD41" /\ hcs)
  <2>1. After(c, cmd, hcs) = with(c.state, c.rca)
    BY <1>3, <1>5, <1>12
  <2> QED
    BY <1>1, <1>4, <1>6, <1>12, <2>1 DEF Effect
<1> QED
  BY <1>7, <1>8, <1>9, <1>10, <1>11, <1>12

-----------------------------------------------------------------------------
(* A command that the card takes, sent by a thread at a step of the table, *)
(* takes it to the next line of the table: then is what After makes of the *)
(* card, and h the controller after the step.                              *)
LEMMA CommandStep ==
  ASSUME StorageInv, NEW s \in Slots, pc[s] \in Steps,
         NEW cmd, NEW hcs \in BOOLEAN, NEW h \in Controller, NEW step \in Steps,
         card' = [card EXCEPT ![s] = After(card[s], cmd, hcs)],
         sd' = [sd EXCEPT ![s] = h],
         pc' = [pc EXCEPT ![s] = step], tries' = tries,
         OnStep(After(card[s], cmd, hcs), h, step)
  PROVE  StorageInv'
<1>1. /\ card \in [Slots -> Card] /\ sd \in [Slots -> Controller]
      /\ pc \in [Slots -> Steps \union {"panic", "fault"}] /\ tries \in [Slots -> Nat]
      /\ tries[s] > 0
  BY DEF StorageInv, TypeCards
<1>2. After(card[s], cmd, hcs) \in Card
  <2>1. card[s] \in Card
    BY <1>1
  <2> QED
    BY <2>1, AfterEffect DEF Effect
<1>3. TypeCards'
  BY <1>1, <1>2 DEF TypeCards
<1>4. /\ card'[s] = After(card[s], cmd, hcs) /\ sd'[s] = h /\ pc'[s] = step
      /\ tries'[s] > 0 /\ step # "panic"
  BY <1>1 DEF Steps, Identifying, Transferring
<1>5. \A r \in Slots \ {s} : /\ card'[r] = card[r] /\ sd'[r] = sd[r]
                             /\ pc'[r] = pc[r] /\ tries'[r] = tries[r]
  BY <1>1
<1> QED
  BY <1>3, <1>4, <1>5, SlotStep

(* A step that goes on without touching the card, or panics for a reason.  *)
LEMMA QuietStep ==
  ASSUME StorageInv, NEW s \in Slots, pc[s] \in Steps,
         NEW step \in Steps \union {"fault", "panic"},
         UNCHANGED <<card, sd, tries>>, pc' = [pc EXCEPT ![s] = step],
         step \in Steps => OnStep(card[s], sd[s], step),
         step = "panic" => Unsupported(card[s], tries[s])
  PROVE  StorageInv'
<1>1. tries[s] > 0 /\ TypeCards
  BY DEF StorageInv
<1>2. TypeCards' /\ pc'[s] = step
  BY <1>1 DEF TypeCards
<1>3. \A r \in Slots \ {s} : /\ card'[r] = card[r] /\ sd'[r] = sd[r]
                             /\ pc'[r] = pc[r] /\ tries'[r] = tries[r]
  BY <1>1 DEF TypeCards
<1> QED
  BY <1>1, <1>2, <1>3, SlotStep

(* What the table says of a running thread's slot, field by field.         *)
LEMMA SlotFacts ==
  ASSUME StorageInv, NEW s \in Slots, pc[s] \in Steps
  PROVE  /\ card[s] \in Card /\ sd[s] \in Controller /\ tries[s] \in Nat /\ tries[s] > 0
         /\ OnStep(card[s], sd[s], pc[s])
         /\ card[s].kind.version \in {1, 2} /\ card[s].kind.hc \in BOOLEAN
         /\ card[s].kind.bus4 \in BOOLEAN
<1>1. card[s] \in Card /\ card[s].kind \in Cards
  BY DEF StorageInv, TypeCards, Card
<1>2. card[s].kind \in [version : {1, 2}, hc : BOOLEAN, bus4 : BOOLEAN, mbr : BOOLEAN,
                        entry : [1 .. 4 -> Entry]]
  BY <1>1, StorageAssumption DEF StorageAssumption
<1> QED
  BY <1>1, <1>2 DEF StorageInv, TypeCards

-----------------------------------------------------------------------------
(* Commands that only move the card: CMD0, CMD2, CMD9, CMD7, the CMD55     *)
(* before ACMD51 and ACMD6, CMD13.                                         *)
SentAt(here, cmd, then) ==
  <<here, cmd, then>> \in
    {<<"idle", "CMD0", "condition">>, <<"cid", "CMD2", "rca">>,
     <<"csd", "CMD9", "select">>, <<"select", "CMD7", "scr55">>,
     <<"scr55", "CMD55", "scr">>, <<"width55", "CMD55", "width">>,
     <<"mbrready", "CMD13", "mbr">>, <<"bpbready", "CMD13", "bpb">>}

LEMMA SendStep ==
  ASSUME StorageInv, NEW s \in Slots, NEW here, NEW cmd, NEW then,
         SentAt(here, cmd, then), Send(s, here, cmd, then)
  PROVE  StorageInv'
<1>1. /\ pc[s] = here /\ Issue(s, cmd, then) /\ UNCHANGED <<sd, tries>>
      /\ pc[s] \in Steps /\ then \in Steps
  BY DEF Send, At, SentAt, Steps, Identifying, Transferring
<1>2. /\ card[s] \in Card /\ sd[s] \in Controller /\ OnStep(card[s], sd[s], here)
      /\ sd' = [sd EXCEPT ![s] = sd[s]]
  BY <1>1, SlotFacts DEF StorageInv, TypeCards
<1>3. Takes(card[s], cmd, sd[s].addr)
  BY <1>2 DEF Takes, SentAt, OnStep, CardState, Identifying, Transferring
<1>4. /\ card' = [card EXCEPT ![s] = After(card[s], cmd, TRUE)]
      /\ pc' = [pc EXCEPT ![s] = then]
  BY <1>1, <1>3 DEF Issue, GoTo
<1>5. OnStep(After(card[s], cmd, TRUE), sd[s], then)
  <2> DEFINE c == After(card[s], cmd, TRUE)
  <2>1. Effect(card[s], c, cmd, TRUE)
    BY <1>2, AfterEffect
  <2> HIDE DEF c
  <2> SUFFICES OnStep(c, sd[s], then)
    BY DEF c
  <2> QED
    BY <1>2, <2>1 DEF Effect, SentAt, OnStep, CardState, Identifying, Transferring
<1> QED
  BY <1>1, <1>2, <1>4, <1>5, CommandStep

-----------------------------------------------------------------------------
(* The steps of the enumeration that look at the card or set something.    *)
LEMMA CardInsertStep ==
  ASSUME StorageInv, NEW s \in Slots, CardInsert(s)
  PROVE  StorageInv'
<1>1. pc[s] = "empty" /\ pc[s] \in Steps /\ UNCHANGED <<sd, tries>>
  BY DEF CardInsert, At, Steps
<1>2. /\ card[s] \in Card /\ OnStep(card[s], sd[s], "empty") /\ tries[s] > 0 /\ TypeCards
  BY <1>1, SlotFacts DEF StorageInv
<1>3. CASE /\ card' = [card EXCEPT ![s].state = "idle"]
           /\ pc' = [pc EXCEPT ![s] = "idle"]
  <2> DEFINE c == [card[s] EXCEPT !.state = "idle"]
  <2>1. card' = [card EXCEPT ![s] = c]
    BY <1>2, <1>3 DEF TypeCards, Card
  <2>2. /\ c \in Card /\ c.state = "idle" /\ c.rca = card[s].rca
        /\ c.width = card[s].width /\ c.kind = card[s].kind
    BY <1>2 DEF Card
  <2> HIDE DEF c
  <2>3. OnStep(c, sd[s], "idle")
    BY <1>2, <2>2 DEF OnStep, CardState, Identifying, Transferring
  <2>4. card'[s] = c /\ pc'[s] = "idle" /\ sd'[s] = sd[s] /\ tries'[s] = tries[s]
    BY <1>1, <1>2, <1>3, <2>1 DEF TypeCards
  <2>5. TypeCards'
    BY <1>1, <1>2, <1>3, <2>1, <2>2 DEF TypeCards, Steps
  <2>6. \A r \in Slots \ {s} : /\ card'[r] = card[r] /\ sd'[r] = sd[r]
                               /\ pc'[r] = pc[r] /\ tries'[r] = tries[r]
    BY <1>1, <1>2, <1>3, <2>1 DEF TypeCards
  <2> QED
    BY <1>2, <2>3, <2>4, <2>5, <2>6, SlotStep
<1>4. CASE card' = card /\ pc' = [pc EXCEPT ![s] = "panic"]
  <2>1. card[s].state = "none" /\ "panic" \notin Steps
    BY <1>2 DEF OnStep, CardState, Steps, Identifying, Transferring
  <2> QED
    BY <1>1, <1>4, <2>1, QuietStep DEF Unsupported
<1> QED
  BY <1>3, <1>4 DEF CardInsert, GoTo

LEMMA CardRemoveStep ==
  ASSUME StorageInv, NEW s \in Slots, CardRemove(s)
  PROVE  StorageInv'
<1>1. UNCHANGED <<sd, tries>> /\ pc' = [pc EXCEPT ![s] = "panic"]
  BY DEF CardRemove, GoTo
<1>2. card[s] \in Card /\ TypeCards
  BY DEF StorageInv, TypeCards
<1> DEFINE c == [card[s] EXCEPT !.state = "none"]
<1>3. card' = [card EXCEPT ![s] = c]
  BY <1>2 DEF CardRemove, TypeCards, Card
<1>4. c \in Card /\ c.state = "none"
  BY <1>2 DEF Card
<1> HIDE DEF c
<1>5. card'[s] = c /\ pc'[s] = "panic" /\ "panic" \notin Steps
  BY <1>1, <1>2, <1>3 DEF TypeCards, Steps, Identifying, Transferring
<1>6. TypeCards'
  BY <1>1, <1>2, <1>3, <1>4 DEF TypeCards
<1>7. \A r \in Slots \ {s} : /\ card'[r] = card[r] /\ sd'[r] = sd[r]
                             /\ pc'[r] = pc[r] /\ tries'[r] = tries[r]
  BY <1>1, <1>2, <1>3 DEF TypeCards
<1> QED
  BY <1>4, <1>5, <1>6, <1>7, SlotStep DEF Unsupported

LEMMA InterfaceConditionStep ==
  ASSUME StorageInv, NEW s \in Slots, InterfaceCondition(s)
  PROVE  StorageInv'
<1>1. pc[s] = "condition" /\ pc[s] \in Steps /\ UNCHANGED tries /\ "opcond" \in Steps
  BY DEF InterfaceCondition, At, Steps, Identifying
<1>2. /\ card[s] \in Card /\ sd[s] \in Controller /\ OnStep(card[s], sd[s], "condition")
      /\ card[s].kind.version \in {1, 2} /\ TypeCards /\ sd \in [Slots -> Controller]
  BY <1>1, SlotFacts DEF StorageInv, TypeCards
<1>3. /\ card[s].kind.version = 2 => \A a : Takes(card[s], "CMD8", a)
      /\ card[s].kind.version = 1 => \A a : ~Takes(card[s], "CMD8", a)
  <2>1. card[s].state = "idle"
    BY <1>2 DEF OnStep, CardState, Identifying, Transferring
  <2>2. card[s].kind.version = 2 => \A a : Takes(card[s], "CMD8", a)
    BY <2>1 DEF Takes
  <2>3. card[s].kind.version = 1 => \A a : ~Takes(card[s], "CMD8", a)
    BY <2>1 DEF Takes
  <2> QED
    BY <2>2, <2>3
<1>4. CASE card[s].kind.version = 2
  <2> DEFINE h == [sd[s] EXCEPT !.version = 2]
             c == After(card[s], "CMD8", TRUE)
  <2>1. /\ card' = [card EXCEPT ![s] = c] /\ pc' = [pc EXCEPT ![s] = "opcond"]
        /\ sd' = [sd EXCEPT ![s] = h]
    BY <1>2, <1>3, <1>4 DEF InterfaceCondition, Issue, GoTo
  <2>2. /\ h \in Controller /\ h.version = 2 /\ h.addr = sd[s].addr /\ h.width = sd[s].width
    BY <1>2 DEF Controller
  <2>3. Effect(card[s], c, "CMD8", TRUE)
    BY <1>2, AfterEffect
  <2>4. OnStep(c, h, "opcond")
    <3> HIDE DEF c, h
    <3> QED
      BY <1>2, <1>4, <2>2, <2>3
         DEF Effect, OnStep, CardState, Identifying, Transferring
  <2> HIDE DEF h
  <2> QED
    BY <1>1, <2>1, <2>2, <2>4, CommandStep
<1>5. CASE card[s].kind.version = 1
  <2>1. UNCHANGED <<card, sd, tries>> /\ pc' = [pc EXCEPT ![s] = "panic"]
    <3>1. ~Takes(card[s], "CMD8", sd[s].addr) /\ ~Takes(card[s], "CMD8", 0)
      BY <1>3, <1>5
    <3> QED
      BY <1>1, <3>1 DEF InterfaceCondition, Issue, GoTo
  <2>2. "panic" \notin Steps
    BY DEF Steps, Identifying, Transferring
  <2> QED
    BY <1>1, <1>5, <2>1, <2>2, QuietStep DEF Unsupported
<1> QED
  BY <1>2, <1>4, <1>5

LEMMA OpCondPrefixStep ==
  ASSUME StorageInv, NEW s \in Slots, OpCondPrefix(s)
  PROVE  StorageInv'
<1>1. /\ pc[s] = "opcond" /\ pc[s] \in Steps /\ UNCHANGED <<sd, tries>>
      /\ "acmd41" \in Steps
  BY DEF OpCondPrefix, At, Steps, Identifying
<1>2. /\ card[s] \in Card /\ sd[s] \in Controller /\ OnStep(card[s], sd[s], "opcond")
      /\ sd' = [sd EXCEPT ![s] = sd[s]]
  BY <1>1, SlotFacts DEF StorageInv, TypeCards
<1>3. Takes(card[s], "CMD55", sd[s].addr)
  BY <1>2 DEF Takes, OnStep, CardState, Identifying, Transferring
<1> DEFINE c == After(card[s], "CMD55", TRUE)
<1>4. card' = [card EXCEPT ![s] = c] /\ pc' = [pc EXCEPT ![s] = "acmd41"]
  BY <1>3 DEF OpCondPrefix, Issue, GoTo
<1>5. Effect(card[s], c, "CMD55", TRUE)
  BY <1>2, AfterEffect
<1>6. OnStep(c, sd[s], "acmd41")
  <2> HIDE DEF c
  <2> QED
    BY <1>2, <1>5 DEF Effect, OnStep, CardState, Identifying, Transferring
<1> QED
  BY <1>1, <1>2, <1>4, <1>6, CommandStep

LEMMA OpCondStep ==
  ASSUME StorageInv, NEW s \in Slots, OpCond(s)
  PROVE  StorageInv'
<1>1. /\ pc[s] = "acmd41" /\ pc[s] \in Steps /\ {"cid", "opcond"} \subseteq Steps
      /\ "panic" \notin Steps
  BY DEF OpCond, At, Steps, Identifying, Transferring
<1>2. /\ card[s] \in Card /\ sd[s] \in Controller /\ OnStep(card[s], sd[s], "acmd41")
      /\ tries[s] \in Nat /\ tries[s] > 0 /\ card[s].kind.hc \in BOOLEAN
      /\ sd' = [sd EXCEPT ![s] = sd'[s]] /\ TypeCards
      /\ sd \in [Slots -> Controller] /\ tries \in [Slots -> Nat]
  BY <1>1, SlotFacts DEF StorageInv, TypeCards, OpCond
<1>3. CASE /\ card' = [card EXCEPT ![s] = After(card[s], "ACMD41", TRUE)]
           /\ sd' = [sd EXCEPT ![s].sdhc = card[s].kind.hc]
           /\ GoTo(s, "cid")
           /\ UNCHANGED tries
  <2> DEFINE h == [sd[s] EXCEPT !.sdhc = card[s].kind.hc]
             c == After(card[s], "ACMD41", TRUE)
  <2>1. /\ h \in Controller /\ h.version = sd[s].version /\ h.addr = sd[s].addr
        /\ h.width = sd[s].width /\ h.sdhc = card[s].kind.hc
    BY <1>2 DEF Controller
  <2>2. Effect(card[s], c, "ACMD41", TRUE)
    BY <1>2, AfterEffect
  <2>3. OnStep(c, h, "cid")
    <3> HIDE DEF c, h
    <3> QED
      BY <1>2, <2>1, <2>2 DEF Effect, OnStep, CardState, Identifying, Transferring
  <2>4. card' = [card EXCEPT ![s] = c] /\ pc' = [pc EXCEPT ![s] = "cid"] /\ tries' = tries
    BY <1>3 DEF GoTo
  <2>5. sd' = [sd EXCEPT ![s] = h]
    BY <1>2, <1>3
  <2> HIDE DEF h
  <2> QED
    BY <1>1, <2>1, <2>3, <2>4, <2>5, CommandStep
<1>4. CASE /\ card' = [card EXCEPT ![s] = After(card[s], "ACMD41", FALSE)]
           /\ tries' = [tries EXCEPT ![s] = @ - 1]
           /\ GoTo(s, IF tries[s] = 1 THEN "panic" ELSE "opcond")
           /\ UNCHANGED sd
  <2> DEFINE c == After(card[s], "ACMD41", FALSE)
  <2>1. Effect(card[s], c, "ACMD41", FALSE)
    BY <1>2, AfterEffect
  <2>2. card' = [card EXCEPT ![s] = c]
    BY <1>4
  <2> HIDE DEF c
  <2>3. OnStep(c, sd[s], "opcond") /\ c \in Card
    BY <1>2, <2>1 DEF Effect, OnStep, CardState, Identifying, Transferring
  <2>4. tries' = [tries EXCEPT ![s] = tries[s] - 1] /\ tries[s] - 1 \in Nat
    BY <1>2, <1>4
  <2>5. pc' = [pc EXCEPT ![s] = IF tries[s] = 1 THEN "panic" ELSE "opcond"]
    BY <1>4 DEF GoTo
  <2>6. /\ card'[s] = c /\ sd'[s] = sd[s] /\ tries'[s] = tries[s] - 1
        /\ pc'[s] = IF tries[s] = 1 THEN "panic" ELSE "opcond"
    BY <1>2, <1>4, <2>2, <2>4, <2>5 DEF TypeCards
  <2>7. TypeCards'
    <3>1. card' \in [Slots -> Card] /\ sd' \in [Slots -> Controller]
      BY <1>2, <1>4, <2>2, <2>3 DEF TypeCards
    <3>2. tries' \in [Slots -> Nat]
      BY <1>2, <2>4
    <3>3. pc' \in [Slots -> Steps \union {"panic", "fault"}]
      <4>1. (IF tries[s] = 1 THEN "panic" ELSE "opcond") \in Steps \union {"panic", "fault"}
        BY <1>1
      <4>2. pc \in [Slots -> Steps \union {"panic", "fault"}]
        BY <1>2 DEF TypeCards
      <4> QED
        BY <2>5, <4>1, <4>2
    <3> QED
      BY <3>1, <3>2, <3>3 DEF TypeCards
  <2>8. \A r \in Slots \ {s} : /\ card'[r] = card[r] /\ sd'[r] = sd[r]
                               /\ pc'[r] = pc[r] /\ tries'[r] = tries[r]
    BY <1>2, <1>4, <2>2, <2>4, <2>5 DEF TypeCards
  <2>9. CASE tries[s] = 1
    BY <1>1, <1>2, <2>6, <2>7, <2>8, <2>9, SlotStep DEF Unsupported
  <2>10. CASE tries[s] # 1
    BY <1>2, <2>3, <2>6, <2>7, <2>8, <2>10, SlotStep
  <2> QED
    BY <2>9, <2>10
<1> QED
  BY <1>3, <1>4 DEF OpCond

LEMMA RelativeAddrStep ==
  ASSUME StorageInv, NEW s \in Slots, RelativeAddr(s)
  PROVE  StorageInv'
<1>1. /\ pc[s] = "rca" /\ pc[s] \in Steps /\ UNCHANGED tries /\ "csd" \in Steps
  BY DEF RelativeAddr, At, Steps
<1>2. /\ card[s] \in Card /\ sd[s] \in Controller /\ OnStep(card[s], sd[s], "rca")
      /\ card \in [Slots -> Card] /\ sd \in [Slots -> Controller]
  BY <1>1, SlotFacts DEF StorageInv, TypeCards
<1>3. Takes(card[s], "CMD3", sd[s].addr)
  BY <1>2 DEF Takes, OnStep, CardState, Identifying, Transferring
<1> DEFINE c == After(card[s], "CMD3", TRUE)
           h == [sd[s] EXCEPT !.addr = 1]
<1>4. card' = [card EXCEPT ![s] = c] /\ pc' = [pc EXCEPT ![s] = "csd"]
  BY <1>3 DEF RelativeAddr, Issue, GoTo
<1>5. Effect(card[s], c, "CMD3", TRUE)
  BY <1>2, AfterEffect
<1>6. /\ h \in Controller /\ h.version = sd[s].version /\ h.addr = 1
      /\ h.width = sd[s].width /\ h.sdhc = sd[s].sdhc
  BY <1>2 DEF Controller
<1>7. card'[s].rca = 1
  <2> HIDE DEF c
  <2> QED
    BY <1>2, <1>4, <1>5 DEF Effect
<1>8. sd' = [sd EXCEPT ![s] = h]
  BY <1>2, <1>7 DEF RelativeAddr
<1>9. OnStep(c, h, "csd")
  <2> HIDE DEF c, h
  <2> QED
    BY <1>2, <1>5, <1>6 DEF Effect, OnStep, CardState, Identifying, Transferring
<1> HIDE DEF h
<1> QED
  BY <1>1, <1>4, <1>6, <1>8, <1>9, CommandStep

LEMMA GetScrStep ==
  ASSUME StorageInv, NEW s \in Slots, GetScr(s)
  PROVE  StorageInv'
<1>1. /\ pc[s] = "scr" /\ pc[s] \in Steps /\ UNCHANGED tries
      /\ {"width55", "name"} \subseteq Steps
  BY DEF GetScr, At, Steps, Transferring
<1>2. /\ card[s] \in Card /\ sd[s] \in Controller /\ OnStep(card[s], sd[s], "scr")
      /\ sd \in [Slots -> Controller] /\ card[s].kind.bus4 \in BOOLEAN
  BY <1>1, SlotFacts DEF StorageInv, TypeCards
<1>3. Takes(card[s], "ACMD51", sd[s].addr)
  BY <1>2 DEF Takes, OnStep, CardState, Identifying, Transferring
<1> DEFINE c == After(card[s], "ACMD51", TRUE)
           h == [sd[s] EXCEPT !.bus4 = card[s].kind.bus4]
           step == IF card[s].kind.bus4 THEN "width55" ELSE "name"
<1>4. /\ card' = [card EXCEPT ![s] = c] /\ pc' = [pc EXCEPT ![s] = step]
      /\ sd' = [sd EXCEPT ![s] = h]
  BY <1>2, <1>3 DEF GetScr, Issue, GoTo
<1>5. Effect(card[s], c, "ACMD51", TRUE)
  BY <1>2, AfterEffect
<1>6. /\ h \in Controller /\ h.version = sd[s].version /\ h.addr = sd[s].addr
      /\ h.width = sd[s].width /\ h.sdhc = sd[s].sdhc
  BY <1>2 DEF Controller
<1>7. step \in {"width55", "name"}
  OBVIOUS
<1>8. OnStep(c, h, step)
  <2> HIDE DEF c, h, step
  <2> QED
    BY <1>2, <1>5, <1>6, <1>7 DEF Effect, OnStep, CardState, Identifying, Transferring
<1> HIDE DEF h, step
<1> QED
  BY <1>1, <1>4, <1>6, <1>7, <1>8, CommandStep

LEMMA CardWidthStep ==
  ASSUME StorageInv, NEW s \in Slots, CardWidth(s)
  PROVE  StorageInv'
<1>1. /\ pc[s] = "width" /\ pc[s] \in Steps /\ UNCHANGED <<sd, tries>>
      /\ "hostwidth" \in Steps
  BY DEF CardWidth, At, Steps, Transferring
<1>2. /\ card[s] \in Card /\ sd[s] \in Controller /\ OnStep(card[s], sd[s], "width")
      /\ tries[s] > 0 /\ TypeCards
  BY <1>1, SlotFacts DEF StorageInv
<1>3. Takes(card[s], "ACMD6", sd[s].addr)
  BY <1>2 DEF Takes, OnStep, CardState, Identifying, Transferring
<1> DEFINE d == After(card[s], "ACMD6", TRUE)
<1>4. Effect(card[s], d, "ACMD6", TRUE)
  BY <1>2, AfterEffect
<1> HIDE DEF d
<1> DEFINE c == [d EXCEPT !.width = 4]
<1>5. /\ card' = [card EXCEPT ![s] = c] /\ pc' = [pc EXCEPT ![s] = "hostwidth"]
  BY <1>3 DEF CardWidth, GoTo, d
<1>6. /\ c \in Card /\ c.state = d.state /\ c.rca = d.rca /\ c.width = 4 /\ c.kind = d.kind
  BY <1>4 DEF Card, Effect
<1> HIDE DEF c
<1>7. OnStep(c, sd[s], "hostwidth")
  BY <1>2, <1>4, <1>6 DEF Effect, OnStep, CardState, Identifying, Transferring
<1>8. /\ card'[s] = c /\ sd'[s] = sd[s] /\ pc'[s] = "hostwidth" /\ tries'[s] = tries[s]
  BY <1>1, <1>2, <1>5 DEF TypeCards
<1>9. TypeCards'
  BY <1>1, <1>2, <1>5, <1>6 DEF TypeCards
<1>10. \A r \in Slots \ {s} : /\ card'[r] = card[r] /\ sd'[r] = sd[r]
                              /\ pc'[r] = pc[r] /\ tries'[r] = tries[r]
  BY <1>1, <1>2, <1>5 DEF TypeCards
<1> QED
  BY <1>2, <1>7, <1>8, <1>9, <1>10, SlotStep

LEMMA HostWidthStep ==
  ASSUME StorageInv, NEW s \in Slots, HostWidth(s)
  PROVE  StorageInv'
<1>1. /\ pc[s] = "hostwidth" /\ pc[s] \in Steps /\ UNCHANGED <<card, tries>>
      /\ "name" \in Steps
  BY DEF HostWidth, At, Steps, Transferring
<1>2. /\ card[s] \in Card /\ sd[s] \in Controller /\ OnStep(card[s], sd[s], "hostwidth")
      /\ tries[s] > 0 /\ TypeCards
  BY <1>1, SlotFacts DEF StorageInv
<1> DEFINE h == [sd[s] EXCEPT !.width = 4]
<1>3. /\ sd' = [sd EXCEPT ![s] = h] /\ pc' = [pc EXCEPT ![s] = "name"]
  BY <1>2 DEF HostWidth, GoTo
<1>4. /\ h \in Controller /\ h.version = sd[s].version /\ h.addr = sd[s].addr
      /\ h.width = 4 /\ h.sdhc = sd[s].sdhc
  BY <1>2 DEF Controller
<1> HIDE DEF h
<1>5. OnStep(card[s], h, "name")
  BY <1>2, <1>4 DEF OnStep, CardState, Identifying, Transferring
<1>6. /\ card'[s] = card[s] /\ sd'[s] = h /\ pc'[s] = "name" /\ tries'[s] = tries[s]
  BY <1>1, <1>2, <1>3 DEF TypeCards
<1>7. TypeCards'
  BY <1>1, <1>2, <1>3, <1>4 DEF TypeCards
<1>8. \A r \in Slots \ {s} : /\ card'[r] = card[r] /\ sd'[r] = sd[r]
                             /\ pc'[r] = pc[r] /\ tries'[r] = tries[r]
  BY <1>1, <1>2, <1>3 DEF TypeCards
<1> QED
  BY <1>2, <1>5, <1>6, <1>7, <1>8, SlotStep

-----------------------------------------------------------------------------
(* A card that is enumerated answers the reads, so that naming, the        *)
(* partition table and the mounts never stop for its sake.                 *)
Mounting == Transferring \ {"scr55", "scr", "width55", "width", "hostwidth"}

LEMMA CardTransfers ==
  ASSUME StorageInv, NEW s \in Slots, pc[s] \in Mounting
  PROVE  Transferred(s) /\ \A step \in Mounting : OnStep(card[s], sd[s], step)
<1>1. pc[s] \in Steps
  BY DEF Mounting, Steps
<1>2. OnStep(card[s], sd[s], pc[s])
  BY <1>1, SlotFacts
<1>3. card[s].state = "tran" /\ card[s].width = sd[s].width
  BY <1>2 DEF OnStep, CardState, Mounting, Identifying, Transferring
<1>4. Transferred(s)
  BY <1>3 DEF Transferred, Takes
<1>5. ASSUME NEW step \in Mounting PROVE OnStep(card[s], sd[s], step)
  BY <1>2, <1>5 DEF OnStep, CardState, Mounting, Identifying, Transferring
<1> QED
  BY <1>4, <1>5

LEMMA MountStep ==
  ASSUME StorageInv, NEW s \in Slots,
         \/ SetName(s) \/ CountDisk(s) \/ AddDisk(s) \/ FindPartitions(s)
         \/ NextPartition(s) \/ MountPartition(s) \/ AddPartition(s) \/ ListPartition(s)
  PROVE  StorageInv'
<1>1. pc[s] \in Mounting /\ UNCHANGED <<card, sd, tries>>
  BY DEF SetName, CountDisk, AddDisk, FindPartitions, NextPartition, MountPartition,
     AddPartition, ListPartition, At, Mounting, Transferring
<1>2. Transferred(s) /\ \A step \in Mounting : OnStep(card[s], sd[s], step)
  BY <1>1, CardTransfers
<1>3. pc \in [Slots -> Steps \union {"panic", "fault"}]
  BY DEF StorageInv, TypeCards
<1>4. \E step \in Mounting \union {"fault"} : pc' = [pc EXCEPT ![s] = step]
  <2>1. CASE SetName(s)
    BY <2>1 DEF SetName, StartWalk, GoTo, Mounting, Transferring
  <2>2. CASE AddDisk(s)
    BY <2>2 DEF AddDisk, GoTo, Mounting, Transferring
  <2>3. CASE FindPartitions(s)
    BY <1>2, <2>3 DEF FindPartitions, GoTo, Mounting, Transferring
  <2>4. CASE NextPartition(s)
    <3>1. pc' = pc => pc' = [pc EXCEPT ![s] = pc[s]]
      BY <1>3
    <3> QED
      BY <1>1, <2>4, <3>1 DEF NextPartition, StartWalk, GoTo, Mounting, Transferring
  <2>5. CASE MountPartition(s)
    BY <1>2, <2>5 DEF MountPartition, GoTo, Mounting, Transferring
  <2>6. CASE AddPartition(s)
    <3>1. pc' = pc => pc' = [pc EXCEPT ![s] = pc[s]]
      BY <1>3
    <3> QED
      BY <1>1, <2>6, <3>1 DEF AddPartition, GoTo, Mounting, Transferring
  <2>7. CASE CountDisk(s) \/ ListPartition(s)
    <3>1. pc' = pc => pc' = [pc EXCEPT ![s] = pc[s]]
      BY <1>3
    <3>2. \E head : WalkOn(s, head, "adddisk") \/ WalkOn(s, head, "done")
      BY <2>7 DEF CountDisk, ListPartition
    <3> QED
      BY <1>1, <3>1, <3>2 DEF WalkOn, GoTo, Mounting, Transferring
  <2> QED
    BY <2>1, <2>2, <2>3, <2>4, <2>5, <2>6, <2>7
<1>5. PICK step \in Mounting \union {"fault"} : pc' = [pc EXCEPT ![s] = step]
  BY <1>4
<1>6. /\ step \in Steps \union {"fault", "panic"} /\ step # "panic" /\ pc[s] \in Steps
      /\ step \in Steps => step \in Mounting
  BY <1>1, <1>5 DEF Mounting, Steps, Identifying, Transferring
<1> QED
  BY <1>1, <1>2, <1>5, <1>6, QuietStep

-----------------------------------------------------------------------------
LEMMA InitStorage == Init => StorageInv
<1> SUFFICES ASSUME Init PROVE StorageInv
  OBVIOUS
<1>1. Tries \in Nat /\ Tries > 0
  BY StorageAssumption DEF StorageAssumption
<1>2. TypeCards
  BY <1>1 DEF Init, TypeCards, Card, Controller, Steps
<1>3. ASSUME NEW s \in Slots
      PROVE  OnStep(card[s], sd[s], pc[s]) /\ tries[s] > 0 /\ pc[s] # "panic"
  BY <1>1 DEF Init, OnStep, CardState, Identifying, Transferring
<1> QED
  BY <1>2, <1>3 DEF StorageInv

LEMMA NextStorage ==
  ASSUME StorageInv, [Next]_vars
  PROVE  StorageInv'
<1>1. CASE UNCHANGED vars
  BY <1>1 DEF vars, StorageInv, TypeCards, OnStep
<1>2. ASSUME NEW s \in Slots, CardInsert(s) \/ CardRemove(s) PROVE StorageInv'
  BY <1>2, CardInsertStep, CardRemoveStep
<1>3. ASSUME NEW s \in Slots, InitThread(s) PROVE StorageInv'
  <2>1. CASE GoToIdle(s) \/ AllCid(s) \/ GetCsd(s) \/ Select(s) \/ ScrPrefix(s)
             \/ WidthPrefix(s) \/ MbrReady(s) \/ BpbReady(s)
    <3>1. \E here, cmd, then : SentAt(here, cmd, then) /\ Send(s, here, cmd, then)
      BY <2>1 DEF SentAt, GoToIdle, AllCid, GetCsd, Select, ScrPrefix, WidthPrefix,
           MbrReady, BpbReady
    <3> QED
      BY <3>1, SendStep
  <2>2. CASE InterfaceCondition(s) \/ OpCondPrefix(s) \/ OpCond(s) \/ RelativeAddr(s)
    BY <2>2, InterfaceConditionStep, OpCondPrefixStep, OpCondStep, RelativeAddrStep
  <2>3. CASE GetScr(s) \/ CardWidth(s) \/ HostWidth(s)
    BY <2>3, GetScrStep, CardWidthStep, HostWidthStep
  <2>4. CASE SetName(s) \/ CountDisk(s) \/ AddDisk(s) \/ FindPartitions(s)
             \/ NextPartition(s) \/ MountPartition(s) \/ AddPartition(s) \/ ListPartition(s)
    BY <2>4, MountStep
  <2> QED
    BY <1>3, <2>1, <2>2, <2>3, <2>4 DEF InitThread
<1> QED
  BY <1>1, <1>2, <1>3 DEF Next, AllDone

(* Every step of sd_init_thread finds the card in the state its command    *)
(* needs, whatever the other slot's thread does.                           *)
THEOREM StorageInvariant == Spec => []StorageInv
<1>1. Init => StorageInv
  BY InitStorage
<1>2. StorageInv /\ [Next]_vars => StorageInv'
  BY NextStorage
<1> QED
  BY <1>1, <1>2, PTL DEF Spec

(* The order of the commands is one that every card of version 2 takes,    *)
(* and the width of both ends agrees in every read: only a card without    *)
(* CMD8, one that stays busy, or one that is taken out, stops the kernel.  *)
THEOREM SupportedNeverPanics == Spec => []PanicOnlyIfUnsupported
<1>1. StorageInv => PanicOnlyIfUnsupported
  BY DEF StorageInv, PanicOnlyIfUnsupported, Unsupported
<1> QED
  BY <1>1, StorageInvariant, PTL

(* A card that is read is addressed in its own unit: sdhc is bit 30 of the *)
(* card's answer, and HCS was set, so that a card of high capacity gave    *)
(* it.                                                                     *)
AddressedInItsUnit ==
  \A s \in Slots : pc[s] \in {"mbr", "bpb"} => sd[s].sdhc = card[s].kind.hc

THEOREM CardsAddressedRight == Spec => []AddressedInItsUnit
<1>1. StorageInv => AddressedInItsUnit
  BY DEF StorageInv, AddressedInItsUnit, OnStep, Steps, Transferring
<1> QED
  BY <1>1, StorageInvariant, PTL

-----------------------------------------------------------------------------
(* The lists of disks and of mounted partitions, for cards that are        *)
(* inserted one by one.                                                    *)

(* The node at a place of a list, whose head comes before and after it.    *)
Place(d, head, i) == IF i \in 1 .. Len(d) THEN d[i] ELSE head
Tip(d, head) == Place(d, head, Len(d))

(* The nodes d hang together behind the head, and the last one leads to z. *)
Links(nx, d, head, z) ==
  \A i \in 0 .. Len(d) : nx[Place(d, head, i)] = Place(d, z, i + 1)

Whole(nx, pv, d, head) == Links(nx, d, head, head) /\ pv[head] = Tip(d, head)

(* list_add_last is at work: l is what it read, and k - 1 of its stores    *)
(* are done, or none and it has not read.                                  *)
Adding(nx, pv, d, head, node, k, l) ==
  /\ Links(nx, d, head, IF k >= 2 THEN node ELSE head)
  /\ pv[head] = IF k >= 3 THEN node ELSE Tip(d, head)
  /\ nx[node] = IF k >= 4 THEN head ELSE Null
  /\ k >= 1 => l = Tip(d, head)

Places(S, d, head) ==
  /\ Len(d) \in Nat
  /\ Place(d, head, 0) = head /\ Place(d, head, Len(d) + 1) = head
  /\ \A i \in 1 .. Len(d) : Place(d, head, i) = d[i] /\ d[i] \in Range(d) /\ d[i] \in S
  /\ \A i : Place(d, head, i) \in {head} \union Range(d)
  /\ \A x \in Range(d) : \E i \in 1 .. Len(d) : d[i] = x

LEMMA PlaceFacts ==
  ASSUME NEW S, NEW d \in Seq(S), NEW head
  PROVE  Places(S, d, head)
<1>1. /\ Len(d) \in Nat
      /\ \A x : x \in Range(d) <=> \E i \in 1 .. Len(d) : d[i] = x
      /\ Range(d) \subseteq S
  BY RangeFacts
<1>2. Place(d, head, 0) = head /\ Place(d, head, Len(d) + 1) = head
  BY <1>1 DEF Place
<1>3. \A i \in 1 .. Len(d) : Place(d, head, i) = d[i] /\ d[i] \in Range(d) /\ d[i] \in S
  BY <1>1 DEF Place
<1>4. \A i : Place(d, head, i) \in {head} \union Range(d)
  <2>1. ASSUME NEW i PROVE Place(d, head, i) \in {head} \union Range(d)
    <3>1. CASE i \in 1 .. Len(d)
      BY <1>3, <3>1
    <3>2. CASE i \notin 1 .. Len(d)
      BY <3>2 DEF Place
    <3> QED
      BY <3>1, <3>2
  <2> QED
    BY <2>1
<1> QED
  BY <1>1, <1>2, <1>3, <1>4 DEF Places

(* The links of a list do not change with those of other nodes. *)
LEMMA LinksFrame ==
  ASSUME NEW S, NEW d \in Seq(S), NEW head, NEW z, NEW nx, NEW nx2,
         Links(nx, d, head, z), \A x \in Range(d) \union {head} : nx2[x] = nx[x]
  PROVE  Links(nx2, d, head, z)
<1>1. \A i : Place(d, head, i) \in {head} \union Range(d)
  BY PlaceFacts DEF Places
<1> QED
  BY <1>1 DEF Links

(* The first store of _list_add: the last node leads to the new one. *)
LEMMA TipStore ==
  ASSUME NEW S, NEW d \in Seq(S), IsInjective(d), NEW head, head \notin Range(d), NEW node,
         NEW nx, NEW nx2, Links(nx, d, head, head), nx2[Tip(d, head)] = node,
         \A x \in (Range(d) \union {head}) \ {Tip(d, head)} : nx2[x] = nx[x]
  PROVE  Links(nx2, d, head, node)
<1>1. Places(S, d, head) /\ Places(S, d, node)
  BY PlaceFacts
<1>2. \A i, j \in 1 .. Len(d) : d[i] = d[j] => i = j
  BY RangeFacts
<1>3. ASSUME NEW i \in 0 .. Len(d)
      PROVE  nx2[Place(d, head, i)] = Place(d, node, i + 1)
  <2>1. CASE i = Len(d)
    <3>1. Place(d, node, i + 1) = node
      BY <1>1, <2>1 DEF Places
    <3> QED
      BY <2>1, <3>1 DEF Tip
  <2>2. CASE i # Len(d)
    <3>1. /\ Len(d) \in 1 .. Len(d) /\ i + 1 \in 1 .. Len(d)
          /\ i # 0 => i \in 1 .. Len(d)
      BY <1>1, <2>2 DEF Places
    <3>2. Tip(d, head) = d[Len(d)] /\ Tip(d, head) \in Range(d)
      BY <1>1, <3>1 DEF Places, Tip
    <3>3. Place(d, head, i) # Tip(d, head)
      <4>1. CASE i = 0
        BY <1>1, <3>2, <4>1 DEF Places
      <4>2. CASE i # 0
        BY <1>1, <1>2, <2>2, <3>1, <3>2, <4>2 DEF Places
      <4> QED
        BY <4>1, <4>2
    <3>4. Place(d, head, i) \in Range(d) \union {head}
      BY <1>1 DEF Places
    <3>5. nx2[Place(d, head, i)] = nx[Place(d, head, i)]
      BY <3>3, <3>4
    <3>6. nx[Place(d, head, i)] = Place(d, head, i + 1)
      BY DEF Links
    <3>7. Place(d, head, i + 1) = d[i + 1] /\ Place(d, node, i + 1) = d[i + 1]
      BY <1>1, <3>1 DEF Places
    <3> QED
      BY <3>5, <3>6, <3>7
  <2> QED
    BY <2>1, <2>2
<1> QED
  BY <1>3 DEF Links

(* A list whose last node leads to a new one has that one, too. *)
LEMMA LongerLinks ==
  ASSUME NEW S, NEW d \in Seq(S), NEW head, NEW node \in S, NEW z, NEW nx,
         Links(nx, d, head, node), nx[node] = z
  PROVE  Links(nx, Append(d, node), head, z) /\ Tip(Append(d, node), head) = node
<1> DEFINE e == Append(d, node)
<1>1. /\ e \in Seq(S) /\ Len(e) = Len(d) + 1 /\ Len(d) \in Nat
      /\ \A i \in 1 .. Len(d) : e[i] = d[i]
      /\ e[Len(d) + 1] = node
  BY AppendProperties, LenProperties
<1> HIDE DEF e
<1>2. Places(S, d, head) /\ Places(S, d, node) /\ Places(S, e, head) /\ Places(S, e, z)
  BY <1>1, PlaceFacts
<1>3. ASSUME NEW i \in 0 .. Len(e)
      PROVE  nx[Place(e, head, i)] = Place(e, z, i + 1)
  <2>1. CASE i = Len(e)
    <3>1. i \in 1 .. Len(e) /\ i = Len(d) + 1
      BY <1>1, <2>1
    <3>2. Place(e, head, i) = node /\ Place(e, z, i + 1) = z
      BY <1>1, <1>2, <2>1, <3>1 DEF Places
    <3> QED
      BY <3>2
  <2>2. CASE i # Len(e)
    <3>1. i \in 0 .. Len(d) /\ i + 1 \in 1 .. Len(e)
      BY <1>1, <2>2
    <3>2. Place(e, head, i) = Place(d, head, i)
      <4>1. CASE i = 0
        BY <1>2, <4>1 DEF Places
      <4>2. CASE i # 0
        <5>1. i \in 1 .. Len(d) /\ i \in 1 .. Len(e)
          BY <1>1, <3>1, <4>2
        <5> QED
          BY <1>1, <1>2, <5>1 DEF Places
      <4> QED
        BY <4>1, <4>2
    <3>3. Place(e, z, i + 1) = Place(d, node, i + 1)
      <4>1. Place(e, z, i + 1) = e[i + 1]
        BY <1>2, <3>1 DEF Places
      <4>2. CASE i = Len(d)
        BY <1>1, <1>2, <4>1, <4>2 DEF Places
      <4>3. CASE i # Len(d)
        <5>1. i + 1 \in 1 .. Len(d)
          BY <1>1, <3>1, <4>3
        <5> QED
          BY <1>1, <1>2, <4>1, <5>1 DEF Places
      <4> QED
        BY <4>2, <4>3
    <3> QED
      BY <3>1, <3>2, <3>3 DEF Links
  <2> QED
    BY <2>1, <2>2
<1>4. Tip(e, head) = node
  <2>1. Len(e) \in 1 .. Len(e)
    BY <1>1
  <2> QED
    BY <1>1, <1>2, <2>1 DEF Places, Tip
<1> QED
  BY <1>3, <1>4 DEF Links, e

-----------------------------------------------------------------------------
(* A walk meets the nodes of a list, and what the last of them leads to. *)
LEMMA NodesFinite == IsFiniteSet(Node) /\ Cardinality(Node) \in Nat
<1>1. IsFiniteSet(Slots) /\ IsFiniteSet(0 .. 4)
  <2>1. 0 \in Int /\ 4 \in Int
    OBVIOUS
  <2> QED
    BY <2>1, StorageAssumption, FS_Interval DEF StorageAssumption
<1>2. IsFiniteSet(Slots \X (0 .. 4))
  BY <1>1, FS_Product
<1>3. IsFiniteSet((Slots \X (0 .. 4)) \union {Disks})
  BY <1>2, FS_AddElement
<1>4. IsFiniteSet(((Slots \X (0 .. 4)) \union {Disks}) \union {Partitions})
  BY <1>3, FS_AddElement
<1>5. IsFiniteSet((((Slots \X (0 .. 4)) \union {Disks}) \union {Partitions}) \union {Null})
  BY <1>4, FS_AddElement
<1>6. Node = (((Slots \X (0 .. 4)) \union {Disks}) \union {Partitions}) \union {Null}
  BY DEF Node
<1> QED
  BY <1>5, <1>6, FS_CardinalityType

LEMMA InjectiveLen ==
  ASSUME NEW d \in Seq(Node), IsInjective(d)
  PROVE  Len(d) <= Cardinality(Node)
<1>1. Len(d) \in Nat /\ d \in [1 .. Len(d) -> Node]
  BY LenProperties
<1>2. d \in Injection(1 .. Len(d), Node)
  BY <1>1 DEF IsInjective, Injection
<1>3. Cardinality(1 .. Len(d)) = Len(d)
  <2>1. Cardinality(1 .. Len(d)) = IF 1 > Len(d) THEN 0 ELSE Len(d) - 1 + 1
    BY <1>1, FS_Interval
  <2> QED
    BY <1>1, <2>1
<1>4. Cardinality(1 .. Len(d)) <= Cardinality(Node)
  BY <1>2, NodesFinite, FS_Injection
<1> QED
  BY <1>3, <1>4

LEMMA WalkIs ==
  ASSUME NEW d \in Seq(Node), IsInjective(d), NEW head, head \notin Range(d), NEW z,
         Links(next, d, head, z), z = head \/ next[z] = z
  PROVE  Walk(head) = Range(d) \union {z}
<1> DEFINE C == Cardinality(Node)
           Go(n) == IF n = head THEN head ELSE next[n]
           Turn(g, k) == IF k = 0 THEN next[head] ELSE Go(g[k - 1])
           at == CHOOSE g : g = [k \in 0 .. C |-> Turn(g, k)]
           a == [k \in 0 .. C |-> Place(d, z, k + 1)]
<1>1. Len(d) \in Nat /\ C \in Nat /\ Len(d) <= C
  BY NodesFinite, InjectiveLen, LenProperties
<1>2. Walk(head) = {at[k] : k \in DOMAIN at}
  BY DEF Walk, at, Turn, Go, C
<1>3. Places(Node, d, head) /\ Places(Node, d, z)
  BY PlaceFacts
<1> HIDE DEF C
<1>4. ASSUME NEW k \in 0 .. C, k # 0
      PROVE  Go(Place(d, z, k)) = Place(d, z, k + 1)
  <2>1. CASE k \in 1 .. Len(d)
    <3>1. Place(d, z, k) = d[k] /\ Place(d, head, k) = d[k] /\ d[k] # head
      BY <1>3, <2>1 DEF Places
    <3>2. k \in 0 .. Len(d)
      BY <1>1, <2>1
    <3>3. next[d[k]] = Place(d, z, k + 1)
      BY <3>1, <3>2 DEF Links
    <3> QED
      BY <3>1, <3>3
  <2>2. CASE k \notin 1 .. Len(d)
    <3>1. k + 1 \notin 1 .. Len(d)
      BY <1>1, <1>4, <2>2
    <3>2. Place(d, z, k) = z /\ Place(d, z, k + 1) = z
      BY <2>2, <3>1 DEF Place
    <3> QED
      BY <3>2
  <2> QED
    BY <2>1, <2>2
<1>5. next[head] = Place(d, z, 1)
  <2>1. 0 \in 0 .. Len(d) /\ 0 + 1 = 1 /\ Place(d, head, 0) = head
    BY <1>1, <1>3 DEF Places
  <2>2. next[Place(d, head, 0)] = Place(d, z, 0 + 1)
    BY <2>1 DEF Links
  <2> QED
    BY <2>1, <2>2
<1> HIDE DEF Go
<1>6. ASSUME NEW k \in 0 .. C
      PROVE  a[k] = Turn(a, k)
  <2>1. CASE k = 0
    BY <1>5, <2>1
  <2>2. CASE k # 0
    <3>1. k - 1 \in 0 .. C /\ (k - 1) + 1 = k
      BY <1>1, <2>2
    <3>2. a[k - 1] = Place(d, z, k)
      BY <3>1
    <3> QED
      BY <1>4, <2>2, <3>2
  <2> QED
    BY <2>1, <2>2
<1>7. a = [k \in 0 .. C |-> a[k]] /\ DOMAIN a = 0 .. C
      /\ \A k \in 0 .. C : a[k] = Place(d, z, k + 1)
  OBVIOUS
<1> HIDE DEF a
<1>8. a = [k \in 0 .. C |-> Turn(a, k)]
  <2> HIDE DEF Turn
  <2> QED
    BY <1>6, <1>7
<1>9. at = [k \in 0 .. C |-> Turn(at, k)]
  <2> HIDE DEF Turn
  <2> QED
    BY <1>8
<1> HIDE DEF at
<1>10. at = a
  <2> DEFINE Bad == {k \in 0 .. C : at[k] # a[k]}
  <2>1. Bad = {}
    <3> SUFFICES ASSUME Bad # {} PROVE FALSE
      OBVIOUS
    <3>1. Bad \subseteq Nat
      BY <1>1
    <3>2. PICK k \in Bad : \A j \in Bad : k <= j
      BY <3>1, LeastElement
    <3>3. k \in 0 .. C /\ at[k] # a[k]
      BY <3>2
    <3>4. at[k] = Turn(at, k) /\ a[k] = Turn(a, k)
      <4>1. at[k] = Turn(at, k)
        <5> HIDE DEF Turn
        <5> QED
          BY <1>9, <3>3
      <4> QED
        BY <1>6, <3>3, <4>1
    <3>5. k # 0
      BY <3>3, <3>4
    <3>6. k - 1 \in 0 .. C /\ ~(k <= k - 1)
      BY <1>1, <3>3, <3>5
    <3>7. at[k - 1] = a[k - 1]
      BY <3>2, <3>6
    <3> QED
      BY <3>3, <3>4, <3>5, <3>7
  <2>2. \A k \in 0 .. C : at[k] = a[k]
    BY <2>1
  <2>3. at = [k \in 0 .. C |-> at[k]]
    <3> HIDE DEF Turn
    <3> QED
      BY <1>9
  <2> HIDE DEF Bad
  <2> QED
    BY <1>7, <2>2, <2>3
<1>11. Walk(head) = {Place(d, z, k + 1) : k \in 0 .. C}
  BY <1>2, <1>7, <1>10
<1>12. ASSUME NEW x \in Walk(head)
       PROVE  x \in Range(d) \union {z}
  <2>1. PICK k \in 0 .. C : x = Place(d, z, k + 1)
    BY <1>11, <1>12
  <2> QED
    BY <1>3, <2>1 DEF Places
<1>13. ASSUME NEW x \in Range(d)
       PROVE  x \in Walk(head)
  <2>1. PICK i \in 1 .. Len(d) : d[i] = x
    BY <1>3 DEF Places
  <2>2. i - 1 \in 0 .. C /\ (i - 1) + 1 = i
    BY <1>1, <2>1
  <2>3. Place(d, z, (i - 1) + 1) = x
    BY <1>3, <2>1, <2>2 DEF Places
  <2> QED
    BY <1>11, <2>2, <2>3
<1>14. z \in Walk(head)
  <2>1. Len(d) \in 0 .. C
    BY <1>1
  <2>2. Place(d, z, Len(d) + 1) = z
    BY <1>3 DEF Places
  <2> QED
    BY <1>11, <2>1, <2>2
<1> QED
  BY <1>12, <1>13, <1>14

-----------------------------------------------------------------------------
(* What list_iterate lists, and what list_add_last does.                   *)
Cells == Slots \X (0 .. 4)

LEMMA Heads ==
  /\ Disks \notin Cells /\ Partitions \notin Cells /\ Null \notin Cells
  /\ Disks # Partitions /\ Disks # Null /\ Partitions # Null
  /\ Disks \in Node /\ Partitions \in Node /\ Null \in Node
  /\ Cells \subseteq Node
BY NodeAssumption DEF NodeAssumption, Disks, Partitions, Null, Node, Cells

(* Disks and partitions of slots, each once, behind a head.                *)
ListOf(d, head) ==
  d \in Seq(Cells) /\ IsInjective(d) /\ head \in {Disks, Partitions}

LEMMA ListOfFacts ==
  ASSUME NEW d, NEW head, ListOf(d, head)
  PROVE  /\ d \in Seq(Cells) /\ d \in Seq(Node) /\ IsInjective(d)
         /\ Range(d) \subseteq Cells /\ Range(d) \subseteq Node
         /\ head \notin Range(d) /\ Null \notin Range(d)
         /\ head \in Node /\ head # Null /\ head \notin Cells
         /\ Tip(d, head) \in Range(d) \union {head}
         /\ Tip(d, head) \in Node /\ Tip(d, head) # Null
<1>1. d \in Seq(Cells) /\ IsInjective(d) /\ Range(d) \subseteq Cells
  BY RangeFacts DEF ListOf
<1>2. /\ head \in Node /\ head # Null /\ head \notin Cells /\ Null \notin Cells
      /\ Cells \subseteq Node
  BY Heads DEF ListOf
<1>3. d \in Seq(Node)
  BY <1>1, <1>2, SeqDef
<1>4. Tip(d, head) \in Range(d) \union {head}
  BY <1>1, PlaceFacts DEF Places, Tip
<1> QED
  BY <1>1, <1>2, <1>3, <1>4

LEMMA WholeListed ==
  ASSUME NEW d, NEW head, ListOf(d, head), Whole(next, prev, d, head)
  PROVE  Listed(head) = Range(d)
<1>1. /\ d \in Seq(Node) /\ IsInjective(d) /\ head \notin Range(d) /\ Null \notin Range(d)
  BY ListOfFacts
<1>2. Walk(head) = Range(d) \union {head}
  BY <1>1, WalkIs DEF Whole
<1> QED
  BY <1>1, <1>2 DEF Listed

LEMMA AddingListed ==
  ASSUME NEW d, NEW head, ListOf(d, head), NEW node \in Cells, node \notin Range(d),
         NEW k \in 0 .. 4, NEW l, Adding(next, prev, d, head, node, k, l),
         next[Null] = Null
  PROVE  Range(d) \subseteq Listed(head) /\ Listed(head) \subseteq Range(d) \union {node}
<1>1. /\ d \in Seq(Node) /\ IsInjective(d) /\ head \notin Range(d) /\ Null \notin Range(d)
      /\ head # Null /\ head \notin Cells
  BY ListOfFacts
<1>2. CASE ~(k >= 2)
  <2>1. Links(next, d, head, head)
    BY <1>2 DEF Adding
  <2>2. Walk(head) = Range(d) \union {head}
    BY <1>1, <2>1, WalkIs
  <2> QED
    BY <1>1, <2>2 DEF Listed
<1>3. CASE k >= 2
  <2> DEFINE e == Append(d, node)
             z == IF k >= 4 THEN head ELSE Null
  <2>1. node \in Node /\ node # head /\ node # Null
    BY <1>1, Heads
  <2>2. Links(next, d, head, node) /\ next[node] = z
    BY <1>3 DEF Adding
  <2>3. e \in Seq(Node) /\ IsInjective(e) /\ Range(e) = Range(d) \union {node}
    BY <1>1, <2>1, AppendFacts
  <2> HIDE DEF z
  <2>4. Links(next, e, head, z)
    BY <1>1, <2>1, <2>2, LongerLinks
  <2> HIDE DEF e
  <2>5. z \in {head, Null}
    BY DEF z
  <2>6. z = head \/ next[z] = z
    BY <2>5
  <2>7. head \notin Range(e)
    BY <1>1, <2>1, <2>3
  <2>8. Walk(head) = Range(e) \union {z}
    BY <2>3, <2>4, <2>6, <2>7, WalkIs
  <2> QED
    BY <1>1, <2>1, <2>3, <2>5, <2>8 DEF Listed
<1> QED
  BY <1>2, <1>3

(* Before list_add_last has read anything. *)
LEMMA AddingStarts ==
  ASSUME NEW nx, NEW pv, NEW d, NEW head, NEW node, NEW l,
         Whole(nx, pv, d, head), nx[node] = Null
  PROVE  Adding(nx, pv, d, head, node, 0, l)
<1>1. ~(0 >= 2) /\ ~(0 >= 3) /\ ~(0 >= 4) /\ ~(0 >= 1)
  OBVIOUS
<1> QED
  BY <1>1 DEF Adding, Whole

LinkTypes ==
  /\ next \in [Node -> Node] /\ prev \in [Node -> Node]
  /\ store \in [Slots -> 0 .. 4] /\ last \in [Slots -> Node]

(* One step of list_add_last. *)
LEMMA AddLastTypes ==
  ASSUME LinkTypes, NEW s \in Slots, NEW node \in Node, NEW head \in Node,
         AddLast(s, node, head)
  PROVE  LinkTypes'
<1>1. store[s] \in 0 .. 4
  BY DEF LinkTypes
<1>2. (store[s] + 1) % 5 \in 0 .. 4
  BY <1>1
<1>3. store' \in [Slots -> 0 .. 4]
  BY <1>2 DEF LinkTypes, AddLast
<1>4. last' \in [Slots -> Node]
  BY DEF LinkTypes, AddLast
<1>5. next' \in [Node -> Node]
  <2>1. \/ next' = next \/ next' = [next EXCEPT ![last[s]] = node]
        \/ next' = [next EXCEPT ![node] = head]
    BY DEF AddLast
  <2> QED
    BY <2>1 DEF LinkTypes
<1>6. prev' \in [Node -> Node]
  <2>1. \/ prev' = prev \/ prev' = [prev EXCEPT ![head] = node]
        \/ prev' = [prev EXCEPT ![node] = last[s]]
    BY DEF AddLast
  <2>2. last[s] \in Node
    BY DEF LinkTypes
  <2> QED
    BY <2>1, <2>2 DEF LinkTypes
<1> QED
  BY <1>3, <1>4, <1>5, <1>6 DEF LinkTypes

(* What it leaves alone: the links of all nodes but the last one, the new  *)
(* one and the head, and the other slots.                                  *)
Elsewheres(s, d, head, node) ==
  /\ \A x \in Node \ {Tip(d, head), node} : next'[x] = next[x]
  /\ \A x \in Node \ {head, node} : prev'[x] = prev[x]
  /\ \A r \in Slots \ {s} : store'[r] = store[r]

LEMMA AddLastFrame ==
  ASSUME LinkTypes, NEW s \in Slots, NEW node \in Cells, NEW d, NEW head, ListOf(d, head),
         Adding(next, prev, d, head, node, store[s], last[s]), AddLast(s, node, head)
  PROVE  Elsewheres(s, d, head, node)
<1>1. /\ next \in [Node -> Node] /\ prev \in [Node -> Node]
      /\ store \in [Slots -> 0 .. 4]
  BY DEF LinkTypes
<1>2. \A x \in Node \ {Tip(d, head), node} : next'[x] = next[x]
  <2>1. CASE store[s] = 1
    <3>1. last[s] = Tip(d, head)
      BY <2>1 DEF Adding
    <3>2. next' = [next EXCEPT ![last[s]] = node]
      BY <2>1 DEF AddLast
    <3> QED
      BY <1>1, <3>1, <3>2
  <2>2. CASE store[s] # 1
    <3>1. next' = next \/ next' = [next EXCEPT ![node] = head]
      BY <2>2 DEF AddLast
    <3> QED
      BY <1>1, <3>1
  <2> QED
    BY <2>1, <2>2
<1>3. \A x \in Node \ {head, node} : prev'[x] = prev[x]
  <2>1. \/ prev' = prev \/ prev' = [prev EXCEPT ![head] = node]
        \/ prev' = [prev EXCEPT ![node] = last[s]]
    BY DEF AddLast
  <2> QED
    BY <1>1, <2>1
<1>4. \A r \in Slots \ {s} : store'[r] = store[r]
  BY <1>1 DEF AddLast
<1> QED
  BY <1>2, <1>3, <1>4 DEF Elsewheres

LEMMA AddLastGoesOn ==
  ASSUME LinkTypes, NEW s \in Slots, NEW node \in Cells, NEW d, NEW head, ListOf(d, head),
         node \notin Range(d),
         Adding(next, prev, d, head, node, store[s], last[s]), AddLast(s, node, head),
         store[s] # 4
  PROVE  Adding(next', prev', d, head, node, store'[s], last'[s])
<1>1. /\ next \in [Node -> Node] /\ prev \in [Node -> Node]
      /\ store \in [Slots -> 0 .. 4] /\ last \in [Slots -> Node]
      /\ store[s] \in 0 .. 4
  BY DEF LinkTypes
<1>2. /\ d \in Seq(Node) /\ IsInjective(d) /\ head \notin Range(d)
      /\ head \in Node /\ head \notin Cells
      /\ Tip(d, head) \in Range(d) \union {head} /\ Tip(d, head) \in Node
      /\ Range(d) \subseteq Node
  BY ListOfFacts
<1>3. node \in Node /\ node # head /\ node # Tip(d, head)
  BY <1>2, Heads
<1> DEFINE k == store[s]
<1>4. /\ Links(next, d, head, IF k >= 2 THEN node ELSE head)
      /\ prev[head] = IF k >= 3 THEN node ELSE Tip(d, head)
      /\ next[node] = IF k >= 4 THEN head ELSE Null
      /\ k >= 1 => last[s] = Tip(d, head)
  BY DEF Adding
<1>5. CASE k = 0
  <2>1. /\ next' = next /\ prev' = prev /\ store'[s] = 1
        /\ last'[s] = prev[head]
    BY <1>1, <1>5 DEF AddLast
  <2>2. prev[head] = Tip(d, head) /\ Links(next, d, head, head) /\ next[node] = Null
    BY <1>4, <1>5
  <2>3. ~(1 >= 2) /\ ~(1 >= 3) /\ ~(1 >= 4)
    OBVIOUS
  <2> QED
    BY <2>1, <2>2, <2>3 DEF Adding
<1>6. CASE k = 1
  <2>1. /\ next' = [next EXCEPT ![last[s]] = node] /\ prev' = prev /\ store'[s] = 2
        /\ last' = last
    BY <1>1, <1>6 DEF AddLast
  <2>2. /\ prev[head] = Tip(d, head) /\ Links(next, d, head, head) /\ next[node] = Null
        /\ last[s] = Tip(d, head)
    BY <1>4, <1>6
  <2>3. /\ next'[Tip(d, head)] = node
        /\ \A x \in Node \ {Tip(d, head)} : next'[x] = next[x]
    BY <1>1, <1>2, <2>1, <2>2
  <2>4. Links(next', d, head, node)
    <3>1. \A x \in (Range(d) \union {head}) \ {Tip(d, head)} : next'[x] = next[x]
      BY <1>2, <2>3
    <3> QED
      BY <1>2, <2>2, <2>3, <3>1, TipStore
  <2>5. 2 >= 2 /\ ~(2 >= 3) /\ ~(2 >= 4)
    OBVIOUS
  <2> QED
    BY <1>3, <2>1, <2>2, <2>3, <2>4, <2>5 DEF Adding
<1>7. CASE k = 2
  <2>1. /\ next' = next /\ prev' = [prev EXCEPT ![head] = node] /\ store'[s] = 3
        /\ last' = last
    BY <1>1, <1>7 DEF AddLast
  <2>2. /\ Links(next, d, head, node) /\ next[node] = Null /\ last[s] = Tip(d, head)
    BY <1>4, <1>7
  <2>3. prev'[head] = node
    BY <1>1, <1>2, <2>1
  <2>4. 3 >= 2 /\ 3 >= 3 /\ ~(3 >= 4)
    OBVIOUS
  <2> QED
    BY <2>1, <2>2, <2>3, <2>4 DEF Adding
<1>8. CASE k = 3
  <2>1. /\ next' = [next EXCEPT ![node] = head] /\ prev' = prev /\ store'[s] = 4
        /\ last' = last
    BY <1>1, <1>8 DEF AddLast
  <2>2. /\ Links(next, d, head, node) /\ prev[head] = node /\ last[s] = Tip(d, head)
    BY <1>4, <1>8
  <2>3. next'[node] = head /\ \A x \in Node \ {node} : next'[x] = next[x]
    BY <1>1, <1>3, <2>1
  <2>4. Links(next', d, head, node)
    <3>1. \A x \in Range(d) \union {head} : next'[x] = next[x]
      BY <1>2, <1>3, <2>3
    <3> QED
      BY <1>2, <2>2, <3>1, LinksFrame
  <2>5. 4 >= 2 /\ 4 >= 3 /\ 4 >= 4
    OBVIOUS
  <2> QED
    BY <2>1, <2>2, <2>3, <2>4, <2>5 DEF Adding
<1>9. k = 0 \/ k = 1 \/ k = 2 \/ k = 3
  BY <1>1
<1> QED
  BY <1>5, <1>6, <1>7, <1>8, <1>9

LEMMA AddLastEnds ==
  ASSUME LinkTypes, NEW s \in Slots, NEW node \in Cells, NEW d, NEW head, ListOf(d, head),
         node \notin Range(d),
         Adding(next, prev, d, head, node, store[s], last[s]), AddLast(s, node, head),
         store[s] = 4
  PROVE  /\ Whole(next', prev', Append(d, node), head) /\ store'[s] = 0
         /\ ListOf(Append(d, node), head)
         /\ Range(Append(d, node)) = Range(d) \union {node}
<1>1. prev \in [Node -> Node] /\ store \in [Slots -> 0 .. 4]
  BY DEF LinkTypes
<1>2. /\ d \in Seq(Node) /\ d \in Seq(Cells) /\ IsInjective(d)
      /\ head \in Node /\ head \notin Cells
  BY ListOfFacts
<1>3. node \in Node /\ node # head
  BY <1>2, Heads
<1>4. 4 >= 2 /\ 4 >= 3 /\ 4 >= 4
  OBVIOUS
<1>5. Links(next, d, head, node) /\ prev[head] = node /\ next[node] = head
  BY <1>4 DEF Adding
<1>6. next' = next /\ prev' = [prev EXCEPT ![node] = last[s]] /\ store'[s] = 0
  BY <1>1 DEF AddLast
<1>7. prev'[head] = node
  BY <1>1, <1>2, <1>3, <1>5, <1>6
<1>8. Links(next, Append(d, node), head, head) /\ Tip(Append(d, node), head) = node
  BY <1>2, <1>3, <1>5, LongerLinks
<1>9. /\ Append(d, node) \in Seq(Cells) /\ IsInjective(Append(d, node))
      /\ Range(Append(d, node)) = Range(d) \union {node}
  BY <1>2, AppendFacts
<1>10. ListOf(Append(d, node), head)
  BY <1>9 DEF ListOf
<1> QED
  BY <1>6, <1>7, <1>8, <1>9, <1>10 DEF Whole

-----------------------------------------------------------------------------
(* The invariant of the cards that are inserted one by one.                *)
Late == {"mbrready", "mbr", "mount", "bpbready", "bpb", "addpart", "list", "done"}
Early == Steps \ Late
Counted == {"mount", "bpbready", "bpb", "addpart", "list", "done"}

Fat32(s, i) == card[s].kind.mbr /\ card[s].kind.entry[i] = "fat32"

MountTypes ==
  /\ LinkTypes
  /\ letter \in [Slots -> Nat] /\ index \in [Slots -> 1 .. 5]
  /\ part \in [Slots -> [1 .. 4 -> Nat]]

(* Only one thread is at work, and it runs into no node without links.     *)
Alone ==
  /\ \A s \in Slots : pc[s] # "fault"
  /\ \A r, s \in Slots : {pc[r], pc[s]} \intersect {"empty", "done"} = {} => r = s

(* A slot, its step and what is listed of its disk: D are the disks.       *)
SlotOk(D, s) ==
  /\ pc[s] \in Early => <<s, 0>> \notin Range(D)
  /\ pc[s] \in Late => <<s, 0>> \in Range(D)
  /\ pc[s] \in Early \union {"mbrready", "mbr"} => index[s] = 1
  /\ pc[s] \in {"list", "done"} => index[s] = 5
  /\ pc[s] \in {"bpbready", "bpb", "addpart"} => index[s] <= 4 /\ part[s][index[s]] # 0
  /\ pc[s] = "addpart" => Fat32(s, index[s])
  /\ pc[s] \in Counted =>
       \A i \in 1 .. 4 :
         part[s][i] # 0 <=> card[s].kind.mbr /\ ValidEntry(card[s].kind, i)
  /\ \A i, j \in 1 .. 4 : part[s][i] = part[s][j] /\ part[s][i] # 0 => i = j
  /\ pc[s] \notin {"adddisk", "addpart"} => store[s] = 0

LettersOk(D) ==
  /\ \A k \in 1 .. Len(D) : D[k] \in Slots \X {0} /\ letter[D[k][1]] = k
  /\ \A s \in Slots : pc[s] = "adddisk" => letter[s] = Len(D) + 1

(* The partitions P: those before the entry that is mounted next.          *)
MountedOk(P) ==
  \A s \in Slots :
    /\ <<s, 0>> \notin Range(P)
    /\ \A i \in 1 .. 4 : <<s, i>> \in Range(P) <=> i < index[s] /\ Fat32(s, i)

DisksOk(D) ==
  /\ (\A s \in Slots : pc[s] # "adddisk") => Whole(next, prev, D, Disks)
  /\ \A s \in Slots : pc[s] = "adddisk" =>
       Adding(next, prev, D, Disks, <<s, 0>>, store[s], last[s])

PartitionsOk(P) ==
  /\ (\A s \in Slots : pc[s] # "addpart") => Whole(next, prev, P, Partitions)
  /\ \A s \in Slots : pc[s] = "addpart" =>
       Adding(next, prev, P, Partitions, <<s, index[s]>>, store[s], last[s])

Unlinked(D, P) ==
  /\ next[Null] = Null
  /\ \A s \in Slots : \A i \in 0 .. 4 :
       \/ next[<<s, i>>] = Null \/ <<s, i>> \in Range(D) \union Range(P)
       \/ pc[s] = "adddisk" /\ i = 0
       \/ pc[s] = "addpart" /\ i = index[s]

(* The walks: the letter counts the disks up to the node, and both walks   *)
(* are at nodes of their lists.                                            *)
WalksOk(D, P) ==
  \A s \in Slots :
    /\ pc[s] = "count" =>
         letter[s] \in 1 .. Len(D) + 1 /\ last[s] = Place(D, Disks, letter[s])
    /\ pc[s] = "list" => last[s] \in Range(P) \union {Partitions}

MountOk(D, P) ==
  /\ ListOf(D, Disks) /\ ListOf(P, Partitions)
  /\ \A s \in Slots : SlotOk(D, s)
  /\ LettersOk(D) /\ MountedOk(P)
  /\ DisksOk(D) /\ PartitionsOk(P) /\ Unlinked(D, P) /\ WalksOk(D, P)

OneByOneInv == MountTypes /\ Alone /\ \E D, P : MountOk(D, P)

(* All of this until the kernel stops, in the middle of a list or not.     *)
MountInv ==
  /\ StorageInv /\ oneByOne \in BOOLEAN
  /\ oneByOne => (\A s \in Slots : pc[s] # "fault") /\ (Running => OneByOneInv)

-----------------------------------------------------------------------------
(* The steps.                                                              *)
LEMMA NobodyElse ==
  ASSUME Alone, NEW s \in Slots, pc[s] \notin {"empty", "done"},
         NEW r \in Slots \ {s}
  PROVE  pc[r] \in {"empty", "done"}
BY DEF Alone

LEMMA AloneNext ==
  ASSUME Alone, NEW s \in Slots, NEW t, t # "fault",
         pc \in [Slots -> Steps \union {"panic", "fault"}], pc' = [pc EXCEPT ![s] = t],
         \/ pc[s] \notin {"empty", "done"}
         \/ \A r \in Slots : pc[r] \in {"empty", "done"}
  PROVE  Alone'
<1>1. pc'[s] = t /\ \A r \in Slots \ {s} : pc'[r] = pc[r]
  OBVIOUS
<1>2. \A r \in Slots : pc'[r] # "fault"
  BY <1>1 DEF Alone
<1>3. \A r \in Slots \ {s} : pc'[r] \in {"empty", "done"}
  BY <1>1, NobodyElse
<1> QED
  BY <1>2, <1>3 DEF Alone

(* The other slots are as they were. *)
LEMMA OtherSlots ==
  ASSUME NEW D, NEW E, NEW s \in Slots, \A r \in Slots : SlotOk(D, r),
         \A r \in Slots \ {s} :
           /\ card'[r].kind = card[r].kind /\ pc'[r] = pc[r] /\ index'[r] = index[r]
           /\ part'[r] = part[r] /\ store'[r] = store[r]
           /\ <<r, 0>> \in Range(E) <=> <<r, 0>> \in Range(D),
         SlotOk(E, s)'
  PROVE  \A r \in Slots : SlotOk(E, r)'
<1>1. ASSUME NEW r \in Slots \ {s} PROVE SlotOk(E, r)'
  <2>1. SlotOk(D, r)
    OBVIOUS
  <2>2. /\ card'[r].kind = card[r].kind /\ pc'[r] = pc[r] /\ index'[r] = index[r]
        /\ part'[r] = part[r] /\ store'[r] = store[r]
        /\ <<r, 0>> \in Range(E) <=> <<r, 0>> \in Range(D)
    OBVIOUS
  <2>3. \A i : Fat32(r, i)' <=> Fat32(r, i)
    BY <2>2 DEF Fat32
  <2>4. /\ pc'[r] \in Early => <<r, 0>> \notin Range(E)
        /\ pc'[r] \in Late => <<r, 0>> \in Range(E)
        /\ pc'[r] \in Early \union {"mbrready", "mbr"} => index'[r] = 1
        /\ pc'[r] \in {"list", "done"} => index'[r] = 5
    BY <2>1, <2>2 DEF SlotOk
  <2>5. /\ pc'[r] \in {"bpbready", "bpb", "addpart"} =>
             index'[r] <= 4 /\ part'[r][index'[r]] # 0
        /\ pc'[r] = "addpart" => Fat32(r, index[r])'
    <3>1. Fat32(r, index[r])' <=> Fat32(r, index[r])
      BY <2>2 DEF Fat32
    <3>2. /\ pc[r] \in {"bpbready", "bpb", "addpart"} =>
               index[r] <= 4 /\ part[r][index[r]] # 0
          /\ pc[r] = "addpart" => Fat32(r, index[r])
      BY <2>1 DEF SlotOk
    <3> QED
      BY <2>2, <3>1, <3>2
  <2>6. /\ pc'[r] \in Counted =>
             \A i \in 1 .. 4 :
               part'[r][i] # 0 <=> card'[r].kind.mbr /\ ValidEntry(card'[r].kind, i)
        /\ \A i, j \in 1 .. 4 : part'[r][i] = part'[r][j] /\ part'[r][i] # 0 => i = j
        /\ pc'[r] \notin {"adddisk", "addpart"} => store'[r] = 0
    <3>1. /\ pc[r] \in Counted =>
               \A i \in 1 .. 4 :
                 part[r][i] # 0 <=> card[r].kind.mbr /\ ValidEntry(card[r].kind, i)
          /\ \A i, j \in 1 .. 4 : part[r][i] = part[r][j] /\ part[r][i] # 0 => i = j
          /\ pc[r] \notin {"adddisk", "addpart"} => store[r] = 0
      BY <2>1 DEF SlotOk
    <3> QED
      BY <2>2, <3>1
  <2> QED
    BY <2>4, <2>5, <2>6 DEF SlotOk
<1> QED
  BY <1>1

(* The parts of the invariant. *)
LEMMA MountParts ==
  ASSUME NEW D, NEW P, MountOk(D, P)
  PROVE  /\ ListOf(D, Disks) /\ ListOf(P, Partitions)
         /\ \A s \in Slots : SlotOk(D, s)
         /\ LettersOk(D) /\ MountedOk(P)
         /\ DisksOk(D) /\ PartitionsOk(P) /\ Unlinked(D, P) /\ WalksOk(D, P)
BY DEF MountOk

(* A step that does not touch the lists. *)
LEMMA QuietMount ==
  ASSUME NEW D, NEW P, MountOk(D, P), NEW s \in Slots, NEW t,
         UNCHANGED <<next, prev, store, letter>>, \A r \in Slots \ {s} : last'[r] = last[r],
         pc \in [Slots -> Steps \union {"panic", "fault"}], pc' = [pc EXCEPT ![s] = t],
         {pc[s], t} \intersect {"adddisk", "addpart"} = {}, t # "count",
         t = "list" => last'[s] \in Range(P) \union {Partitions},
         \A r \in Slots : card'[r].kind = card[r].kind,
         \A r \in Slots \ {s} : index'[r] = index[r] /\ part'[r] = part[r],
         SlotOk(D, s)',
         \A i \in 1 .. 4 : <<s, i>> \in Range(P) <=> i < index'[s] /\ Fat32(s, i)
  PROVE  MountOk(D, P)'
<1>1. /\ ListOf(D, Disks) /\ ListOf(P, Partitions)
      /\ \A r \in Slots : SlotOk(D, r)
      /\ LettersOk(D) /\ MountedOk(P)
      /\ DisksOk(D) /\ PartitionsOk(P) /\ Unlinked(D, P) /\ WalksOk(D, P)
  BY MountParts
<1>2. pc'[s] = t /\ \A r \in Slots \ {s} : pc'[r] = pc[r]
  OBVIOUS
<1>3. \A r \in Slots : SlotOk(D, r)'
  BY <1>1, <1>2, OtherSlots
<1>4. \A r \in Slots : /\ pc'[r] = "adddisk" <=> pc[r] = "adddisk"
                       /\ pc'[r] = "addpart" <=> pc[r] = "addpart"
  BY <1>2
<1>5. LettersOk(D)'
  BY <1>1, <1>4 DEF LettersOk
<1>6. MountedOk(P)'
  <2>1. \A r \in Slots, i \in 1 .. 4 : Fat32(r, i)' <=> Fat32(r, i)
    BY DEF Fat32
  <2>2. ASSUME NEW r \in Slots
        PROVE  /\ <<r, 0>> \notin Range(P)
               /\ \A i \in 1 .. 4 : <<r, i>> \in Range(P) <=> i < index'[r] /\ Fat32(r, i)'
    <3>1. CASE r = s
      BY <1>1, <2>1, <3>1 DEF MountedOk
    <3>2. CASE r # s
      BY <1>1, <2>1, <3>2 DEF MountedOk
    <3> QED
      BY <3>1, <3>2
  <2> QED
    BY <2>2 DEF MountedOk
<1>7. DisksOk(D)'
  <2>1. \A r \in Slots : pc[r] = "adddisk" => last'[r] = last[r]
    OBVIOUS
  <2> QED
    BY <1>1, <1>4, <2>1 DEF DisksOk
<1>8. \A r \in Slots : pc[r] = "addpart" => index'[r] = index[r] /\ last'[r] = last[r]
  OBVIOUS
<1>9. PartitionsOk(P)'
  BY <1>1, <1>4, <1>8 DEF PartitionsOk
<1>10. Unlinked(D, P)'
  <2>1. next' = next /\ next[Null] = Null
    BY <1>1 DEF Unlinked
  <2>2. ASSUME NEW r \in Slots, NEW i \in 0 .. 4
        PROVE  \/ next'[<<r, i>>] = Null \/ <<r, i>> \in Range(D) \union Range(P)
               \/ pc'[r] = "adddisk" /\ i = 0
               \/ pc'[r] = "addpart" /\ i = index'[r]
    <3>1. \/ next[<<r, i>>] = Null \/ <<r, i>> \in Range(D) \union Range(P)
          \/ pc[r] = "adddisk" /\ i = 0
          \/ pc[r] = "addpart" /\ i = index[r]
      BY <1>1 DEF Unlinked
    <3>2. CASE pc[r] = "addpart" /\ i = index[r]
      BY <1>4, <1>8, <3>2
    <3>3. CASE pc[r] = "adddisk" /\ i = 0
      BY <1>4, <3>3
    <3> QED
      BY <2>1, <3>1, <3>2, <3>3
  <2> QED
    BY <2>1, <2>2 DEF Unlinked
<1>11. WalksOk(D, P)'
  <2>1. ASSUME NEW r \in Slots
        PROVE  /\ pc'[r] = "count" =>
                    letter'[r] \in 1 .. Len(D) + 1 /\ last'[r] = Place(D, Disks, letter'[r])
               /\ pc'[r] = "list" => last'[r] \in Range(P) \union {Partitions}
    <3>1. CASE r = s
      BY <1>2, <3>1
    <3>2. CASE r # s
      BY <1>1, <1>2, <3>2 DEF WalksOk
    <3> QED
      BY <3>1, <3>2
  <2> QED
    BY <2>1 DEF WalksOk
<1> QED
  BY <1>1, <1>3, <1>5, <1>6, <1>7, <1>9, <1>10, <1>11 DEF MountOk

(* While no list is walked. *)
LEMMA NoWalk ==
  ASSUME NEW D, NEW P, \A s \in Slots : pc'[s] \notin {"count", "list"}
  PROVE  WalksOk(D, P)'
BY DEF WalksOk

(* A command: the card may change its state but not its kind. *)
Onwards(old, new) ==
  \/ old \in Early \ {"count", "adddisk"} /\ new \in Early \ {"count", "adddisk"}
  \/ old = "mbrready" /\ new = "mbr"
  \/ old = "bpbready" /\ new = "bpb"
  \/ old \in Steps \ {"count", "adddisk", "addpart", "list"} /\ new = "panic"

Command(s, t) ==
  /\ Onwards(pc[s], t) /\ pc' = [pc EXCEPT ![s] = t]
  /\ UNCHANGED <<next, prev, store, last, letter, part, index>>
  /\ \A r \in Slots : card'[r].kind = card[r].kind
  /\ \/ pc[s] \notin {"empty", "done"}
     \/ oneByOne => \A r \in Slots : pc[r] \in {"empty", "done"}

LEMMA CommandKeeps ==
  ASSUME OneByOneInv, oneByOne, NEW s \in Slots, NEW t, Command(s, t),
         pc \in [Slots -> Steps \union {"panic", "fault"}]
  PROVE  OneByOneInv'
<1>1. MountTypes /\ Alone
  BY DEF OneByOneInv
<1>2. PICK D, P : MountOk(D, P)
  BY DEF OneByOneInv
<1>3. /\ Onwards(pc[s], t) /\ pc' = [pc EXCEPT ![s] = t] /\ pc'[s] = t
      /\ UNCHANGED <<next, prev, store, last, letter, part, index>>
      /\ \A r \in Slots : card'[r].kind = card[r].kind
      /\ \/ pc[s] \notin {"empty", "done"}
         \/ \A r \in Slots : pc[r] \in {"empty", "done"}
  BY DEF Command
<1>4. /\ t # "fault" /\ {pc[s], t} \intersect {"adddisk", "addpart"} = {}
      /\ t \notin {"count", "list"}
  BY <1>3 DEF Onwards, Early, Late, Steps, Identifying, Transferring
<1>5. MountTypes'
  BY <1>1, <1>3 DEF MountTypes, LinkTypes
<1>6. Alone'
  BY <1>1, <1>3, <1>4, AloneNext
<1>7. SlotOk(D, s) /\ MountedOk(P)
  BY <1>2, MountParts
<1>8. SlotOk(D, s)'
  <2>1. \A i : Fat32(s, i)' <=> Fat32(s, i)
    BY <1>3 DEF Fat32
  <2>2. /\ t \in Early => pc[s] \in Early
        /\ t \in Late => pc[s] \in Late
        /\ t \in Early \union {"mbrready", "mbr"} => pc[s] \in Early \union {"mbrready", "mbr"}
        /\ t # "done" /\ t # "list" /\ t # "addpart"
        /\ t \in {"bpbready", "bpb"} => pc[s] = "bpbready"
        /\ t \in Counted => pc[s] = "bpbready"
        /\ pc[s] \notin {"adddisk", "addpart"}
    BY <1>3 DEF Onwards, Early, Late, Counted, Steps, Identifying, Transferring
  <2>3. "bpbready" \in Counted
    BY DEF Counted
  <2> QED
    BY <1>3, <1>7, <2>1, <2>2, <2>3 DEF SlotOk
<1>9. MountOk(D, P)'
  <2>1. \A i \in 1 .. 4 : <<s, i>> \in Range(P) <=> i < index'[s] /\ Fat32(s, i)
    BY <1>3, <1>7 DEF MountedOk
  <2> QED
    BY <1>2, <1>3, <1>4, <1>8, <2>1, QuietMount
<1> QED
  BY <1>5, <1>6, <1>9 DEF OneByOneInv

(* Every step of the enumeration is such a command. *)
LEMMA IssuedCommand ==
  ASSUME StorageInv, NEW s \in Slots, NEW cmd, NEW then, Issue(s, cmd, then),
         Onwards(pc[s], then), pc[s] \notin {"empty", "done"},
         UNCHANGED <<next, prev, store, last, letter, part, index>>
  PROVE  \E t : Command(s, t)
<1>1. card \in [Slots -> Card]
  BY DEF StorageInv, TypeCards
<1>2. CASE Takes(card[s], cmd, sd[s].addr)
  <2>1. card' = [card EXCEPT ![s] = After(card[s], cmd, TRUE)] /\ pc' = [pc EXCEPT ![s] = then]
    BY <1>2 DEF Issue, GoTo
  <2>2. card[s] \in Card /\ TRUE \in BOOLEAN
    BY <1>1
  <2>3. After(card[s], cmd, TRUE).kind = card[s].kind
    <3>1. Effect(card[s], After(card[s], cmd, TRUE), cmd, TRUE)
      BY <2>2, AfterEffect
    <3> QED
      BY <3>1 DEF Effect
  <2>4. \A r \in Slots : card'[r].kind = card[r].kind
    BY <1>1, <2>1, <2>3
  <2>5. Command(s, then)
    BY <2>1, <2>4 DEF Command
  <2> QED
    BY <2>5
<1>3. CASE ~Takes(card[s], cmd, sd[s].addr)
  <2>1. card' = card /\ pc' = [pc EXCEPT ![s] = "panic"]
    BY <1>3 DEF Issue, GoTo
  <2>2. Onwards(pc[s], "panic")
    BY DEF Onwards, Early, Late, Steps, Identifying, Transferring
  <2>3. Command(s, "panic")
    BY <2>1, <2>2 DEF Command
  <2> QED
    BY <2>3
<1> QED
  BY <1>2, <1>3

Enumerating(s) ==
  \/ CardInsert(s) \/ GoToIdle(s) \/ InterfaceCondition(s) \/ OpCondPrefix(s) \/ OpCond(s)
  \/ AllCid(s) \/ RelativeAddr(s) \/ GetCsd(s) \/ Select(s)
  \/ ScrPrefix(s) \/ GetScr(s) \/ WidthPrefix(s) \/ CardWidth(s) \/ HostWidth(s)
  \/ MbrReady(s) \/ BpbReady(s)

LEMMA CommandShape ==
  ASSUME StorageInv, NEW s \in Slots, Enumerating(s)
  PROVE  \E t : Command(s, t)
<1>1. card \in [Slots -> Card] /\ card[s] \in Card
  BY DEF StorageInv, TypeCards
<1>2. CASE CardInsert(s)
  <2>1. /\ pc[s] = "empty"
        /\ oneByOne => \A r \in Slots : pc[r] \in {"empty", "done"}
        /\ UNCHANGED <<next, prev, store, last, letter, part, index>>
    BY <1>2 DEF CardInsert, At, listVars, diskVars
  <2>2. [card[s] EXCEPT !.state = "idle"].kind = card[s].kind
    BY <1>1 DEF Card
  <2>3. CASE /\ card' = [card EXCEPT ![s].state = "idle"]
             /\ pc' = [pc EXCEPT ![s] = "idle"]
    <3>1. card' = [card EXCEPT ![s] = [card[s] EXCEPT !.state = "idle"]]
      BY <2>3
    <3>2. \A r \in Slots : card'[r].kind = card[r].kind
      BY <1>1, <2>2, <3>1
    <3>3. Onwards("empty", "idle")
      BY DEF Onwards, Early, Late, Steps
    <3>4. Command(s, "idle")
      BY <2>1, <2>3, <3>2, <3>3 DEF Command
    <3> QED
      BY <3>4
  <2>4. CASE card' = card /\ pc' = [pc EXCEPT ![s] = "panic"]
    <3>1. Onwards("empty", "panic")
      BY DEF Onwards, Steps
    <3>2. Command(s, "panic")
      BY <2>1, <2>4, <3>1 DEF Command
    <3> QED
      BY <3>2
  <2> QED
    BY <1>2, <2>3, <2>4 DEF CardInsert, GoTo
<1>3. CASE GoToIdle(s) \/ AllCid(s) \/ GetCsd(s) \/ Select(s) \/ ScrPrefix(s)
             \/ WidthPrefix(s) \/ MbrReady(s) \/ BpbReady(s)
  <2>1. PICK here, cmd, then : SentAt(here, cmd, then) /\ Send(s, here, cmd, then)
    BY <1>3 DEF SentAt, GoToIdle, AllCid, GetCsd, Select, ScrPrefix, WidthPrefix,
         MbrReady, BpbReady
  <2>2. /\ pc[s] = here /\ Issue(s, cmd, then)
        /\ UNCHANGED <<next, prev, store, last, letter, part, index>>
    BY <2>1 DEF Send, At, listVars, diskVars
  <2>3. Onwards(here, then) /\ here \notin {"empty", "done"}
    BY <2>1 DEF SentAt, Onwards, Early, Late, Steps, Identifying, Transferring
  <2> QED
    BY <2>2, <2>3, IssuedCommand
<1>4. CASE InterfaceCondition(s) \/ OpCondPrefix(s) \/ RelativeAddr(s) \/ GetScr(s)
  <2>1. \E here, cmd, then :
          /\ <<here, cmd, then>> \in
               {<<"condition", "CMD8", "opcond">>, <<"opcond", "CMD55", "acmd41">>,
                <<"rca", "CMD3", "csd">>, <<"scr", "ACMD51", "width55">>,
                <<"scr", "ACMD51", "name">>}
          /\ pc[s] = here /\ Issue(s, cmd, then)
    BY <1>4 DEF InterfaceCondition, OpCondPrefix, RelativeAddr, GetScr, At
  <2>2. PICK here, cmd, then :
          /\ <<here, cmd, then>> \in
               {<<"condition", "CMD8", "opcond">>, <<"opcond", "CMD55", "acmd41">>,
                <<"rca", "CMD3", "csd">>, <<"scr", "ACMD51", "width55">>,
                <<"scr", "ACMD51", "name">>}
          /\ pc[s] = here /\ Issue(s, cmd, then)
    BY <2>1
  <2>3. Onwards(here, then) /\ here \notin {"empty", "done"}
    BY <2>2 DEF Onwards, Early, Late, Steps, Identifying, Transferring
  <2>4. UNCHANGED <<next, prev, store, last, letter, part, index>>
    BY <1>4 DEF InterfaceCondition, OpCondPrefix, RelativeAddr, GetScr, listVars, diskVars
  <2> QED
    BY <2>2, <2>3, <2>4, IssuedCommand
<1>5. CASE OpCond(s)
  <2>1. /\ pc[s] = "acmd41"
        /\ UNCHANGED <<next, prev, store, last, letter, part, index>>
    BY <1>5 DEF OpCond, At, listVars, diskVars
  <2>2. PICK hcs \in BOOLEAN, t \in {"cid", "opcond", "panic"} :
          /\ card' = [card EXCEPT ![s] = After(card[s], "ACMD41", hcs)]
          /\ pc' = [pc EXCEPT ![s] = t]
    <3>1. \/ /\ card' = [card EXCEPT ![s] = After(card[s], "ACMD41", TRUE)]
             /\ pc' = [pc EXCEPT ![s] = "cid"]
          \/ /\ card' = [card EXCEPT ![s] = After(card[s], "ACMD41", FALSE)]
             /\ pc' = [pc EXCEPT ![s] = IF tries[s] = 1 THEN "panic" ELSE "opcond"]
      BY <1>5 DEF OpCond, GoTo
    <3>2. (IF tries[s] = 1 THEN "panic" ELSE "opcond") \in {"cid", "opcond", "panic"}
      OBVIOUS
    <3> QED
      BY <3>1, <3>2
  <2>3. After(card[s], "ACMD41", hcs).kind = card[s].kind
    BY <1>1, AfterEffect DEF Effect
  <2>4. \A r \in Slots : card'[r].kind = card[r].kind
    BY <1>1, <2>2, <2>3
  <2>5. Onwards("acmd41", t)
    BY DEF Onwards, Early, Late, Steps, Identifying, Transferring
  <2>6. Command(s, t)
    BY <2>1, <2>2, <2>4, <2>5 DEF Command
  <2> QED
    BY <2>6
<1>6. CASE CardWidth(s)
  <2>1. /\ pc[s] = "width"
        /\ UNCHANGED <<next, prev, store, last, letter, part, index>>
    BY <1>6 DEF CardWidth, At, listVars, diskVars
  <2>2. Onwards("width", "hostwidth") /\ Onwards("width", "panic")
    BY DEF Onwards, Early, Late, Steps, Identifying, Transferring
  <2>3. CASE Takes(card[s], "ACMD6", sd[s].addr)
    <3> DEFINE c == After(card[s], "ACMD6", TRUE)
    <3>1. c \in Card /\ c.kind = card[s].kind
      <4>1. Effect(card[s], c, "ACMD6", TRUE)
        BY <1>1, AfterEffect
      <4> QED
        BY <4>1 DEF Effect
    <3>2. card' = [card EXCEPT ![s] = [c EXCEPT !.width = 4]]
          /\ pc' = [pc EXCEPT ![s] = "hostwidth"]
      BY <1>6, <2>3 DEF CardWidth, GoTo
    <3> HIDE DEF c
    <3>3. [c EXCEPT !.width = 4].kind = c.kind
      BY <3>1 DEF Card
    <3>4. \A r \in Slots : card'[r].kind = card[r].kind
      BY <1>1, <3>1, <3>2, <3>3
    <3>5. Command(s, "hostwidth")
      BY <2>1, <2>2, <3>2, <3>4 DEF Command
    <3> QED
      BY <3>5
  <2>4. CASE ~Takes(card[s], "ACMD6", sd[s].addr)
    <3>1. card' = card /\ pc' = [pc EXCEPT ![s] = "panic"]
      BY <1>6, <2>4 DEF CardWidth, GoTo
    <3>2. Command(s, "panic")
      BY <2>1, <2>2, <3>1 DEF Command
    <3> QED
      BY <3>2
  <2> QED
    BY <2>3, <2>4
<1>7. CASE HostWidth(s)
  <2>1. /\ pc[s] = "hostwidth" /\ pc' = [pc EXCEPT ![s] = "name"] /\ card' = card
        /\ UNCHANGED <<next, prev, store, last, letter, part, index>>
    BY <1>7 DEF HostWidth, At, GoTo, listVars, diskVars
  <2>2. Onwards("hostwidth", "name")
    BY DEF Onwards, Early, Late, Steps, Identifying, Transferring
  <2>3. Command(s, "name")
    BY <2>1, <2>2 DEF Command
  <2> QED
    BY <2>3
<1> QED
  BY <1>2, <1>3, <1>4, <1>5, <1>6, <1>7 DEF Enumerating

-----------------------------------------------------------------------------
(* The steps on the lists.                                                 *)
LEMMA ListSize ==
  ASSUME NEW d, NEW head, ListOf(d, head)
  PROVE  Cardinality(Range(d)) = Len(d)
<1>1. d \in Seq(Cells) /\ IsInjective(d)
  BY ListOfFacts
<1>2. /\ Len(d) \in Nat /\ d \in [1 .. Len(d) -> Cells]
      /\ \A x : x \in Range(d) <=> \E i \in 1 .. Len(d) : d[i] = x
  BY <1>1, RangeFacts, LenProperties
<1>3. d \in [1 .. Len(d) -> Range(d)]
  BY <1>2
<1>4. d \in Bijection(1 .. Len(d), Range(d))
  BY <1>1, <1>2, <1>3 DEF Bijection, Injection, Surjection, IsInjective
<1>5. ExistsBijection(1 .. Len(d), Range(d))
  BY <1>4 DEF ExistsBijection
<1>6. IsFiniteSet(1 .. Len(d)) /\ Cardinality(1 .. Len(d)) = Len(d)
  <2>1. 1 \in Int /\ Len(d) \in Int
    BY <1>2
  <2>2. /\ IsFiniteSet(1 .. Len(d))
        /\ Cardinality(1 .. Len(d)) = IF 1 > Len(d) THEN 0 ELSE Len(d) - 1 + 1
    BY <2>1, FS_Interval
  <2> QED
    BY <1>2, <2>2
<1> QED
  BY <1>5, <1>6, FS_Bijection

(* A node is in one of the lists. *)
LEMMA Apart ==
  ASSUME NEW D, NEW P, MountOk(D, P)
  PROVE  /\ Range(D) \subseteq Slots \X {0}
         /\ Range(P) \subseteq Slots \X (1 .. 4)
         /\ Range(D) \intersect Range(P) = {}
<1>1. ListOf(D, Disks) /\ ListOf(P, Partitions) /\ LettersOk(D) /\ MountedOk(P)
  BY MountParts
<1>2. Range(P) \subseteq Cells /\ D \in Seq(Cells)
  BY <1>1, ListOfFacts
<1>3. ASSUME NEW x \in Range(D) PROVE x \in Slots \X {0}
  <2>1. PICK k \in 1 .. Len(D) : D[k] = x
    BY <1>2, RangeFacts
  <2> QED
    BY <1>1, <2>1 DEF LettersOk
<1>4. ASSUME NEW x \in Range(P) PROVE x \in Slots \X (1 .. 4)
  <2>1. PICK r \in Slots, i \in 0 .. 4 : x = <<r, i>>
    BY <1>2 DEF Cells
  <2>2. i # 0
    BY <1>1, <2>1 DEF MountedOk
  <2> QED
    BY <2>1, <2>2
<1>5. (Slots \X {0}) \intersect (Slots \X (1 .. 4)) = {}
  OBVIOUS
<1> QED
  BY <1>3, <1>4, <1>5

(* The list that list_add_last does not work on. *)
LEMMA WholeKept ==
  ASSUME NEW s, NEW d, NEW head, ListOf(d, head), Whole(next, prev, d, head),
         NEW e, NEW other, ListOf(e, other), other # head,
         NEW node \in Cells, node \notin Range(d), Range(d) \intersect Range(e) = {},
         Elsewheres(s, e, other, node)
  PROVE  Whole(next', prev', d, head)
<1>1. /\ d \in Seq(Node) /\ Range(d) \subseteq Cells /\ head \in Node /\ head \notin Cells
      /\ Range(d) \subseteq Node
  BY ListOfFacts
<1>2. /\ Tip(e, other) \in Range(e) \union {other} /\ other \notin Cells
      /\ Range(e) \subseteq Cells
  BY ListOfFacts
<1>3. \A x \in Range(d) \union {head} : x \in Node \ {Tip(e, other), node}
  BY <1>1, <1>2
<1>4. \A x \in Range(d) \union {head} : next'[x] = next[x]
  BY <1>3 DEF Elsewheres
<1>5. prev'[head] = prev[head]
  BY <1>1 DEF Elsewheres
<1>6. Links(next', d, head, head)
  BY <1>1, <1>4, LinksFrame DEF Whole
<1> QED
  BY <1>5, <1>6 DEF Whole

(* The nodes that are not linked. *)
LEMMA UnlinkedKept ==
  ASSUME NEW D, NEW P, Unlinked(D, P), NEW s, NEW d, NEW head, ListOf(d, head),
         Range(d) \subseteq Range(D) \union Range(P), NEW node \in Cells,
         Elsewheres(s, d, head, node),
         \A r \in Slots, i \in 0 .. 4 :
           (pc[r] = "adddisk" /\ i = 0) \/ (pc[r] = "addpart" /\ i = index[r])
             => <<r, i>> = node
  PROVE  /\ next'[Null] = Null
         /\ \A r \in Slots : \A i \in 0 .. 4 :
              \/ next'[<<r, i>>] = Null \/ <<r, i>> \in Range(D) \union Range(P)
              \/ <<r, i>> = node
<1>1. /\ Tip(d, head) \in Range(d) \union {head} /\ head \notin Cells /\ Tip(d, head) # Null
  BY ListOfFacts
<1>2. Null \in Node /\ Null \notin Cells /\ Cells \subseteq Node
  BY Heads
<1>3. next'[Null] = Null
  <2>1. next'[Null] = next[Null]
    BY <1>1, <1>2 DEF Elsewheres
  <2> QED
    BY <2>1 DEF Unlinked
<1>4. ASSUME NEW r \in Slots, NEW i \in 0 .. 4
      PROVE  \/ next'[<<r, i>>] = Null \/ <<r, i>> \in Range(D) \union Range(P)
             \/ <<r, i>> = node
  <2>1. <<r, i>> \in Cells
    BY DEF Cells
  <2>2. CASE <<r, i>> = Tip(d, head)
    BY <1>1, <2>1, <2>2
  <2>3. CASE <<r, i>> # Tip(d, head) /\ <<r, i>> # node
    <3>1. next'[<<r, i>>] = next[<<r, i>>]
      BY <1>2, <2>1, <2>3 DEF Elsewheres
    <3>2. next[<<r, i>>] = Null \/ <<r, i>> \in Range(D) \union Range(P)
      BY <2>3 DEF Unlinked
    <3> QED
      BY <3>1, <3>2
  <2> QED
    BY <2>2, <2>3
<1> QED
  BY <1>3, <1>4

(* The node behind the head, and a node and the one behind it. *)
LEMMA FirstOfList ==
  ASSUME NEW d, NEW head, ListOf(d, head), Whole(next, prev, d, head)
  PROVE  /\ next[head] = Place(d, head, 1)
         /\ next[head] \in Range(d) \union {head}
<1>1. Places(Cells, d, head) /\ Links(next, d, head, head)
  BY ListOfFacts, PlaceFacts DEF Whole
<1>2. 0 \in 0 .. Len(d) /\ 0 + 1 = 1
  BY <1>1 DEF Places
<1>3. next[Place(d, head, 0)] = Place(d, head, 1)
  BY <1>1, <1>2 DEF Links
<1> QED
  BY <1>1, <1>3 DEF Places

LEMMA NextOfList ==
  ASSUME NEW d, NEW head, ListOf(d, head), Whole(next, prev, d, head),
         NEW i \in 1 .. Len(d)
  PROVE  /\ Place(d, head, i) = d[i] /\ d[i] \in Range(d) /\ d[i] \notin {head, Null}
         /\ next[d[i]] = Place(d, head, i + 1)
         /\ next[d[i]] \in Range(d) \union {head}
<1>1. /\ Places(Cells, d, head) /\ Links(next, d, head, head)
      /\ head \notin Range(d) /\ Null \notin Range(d)
  BY ListOfFacts, PlaceFacts DEF Whole
<1>2. Place(d, head, i) = d[i] /\ d[i] \in Range(d)
  BY <1>1 DEF Places
<1>3. i \in 0 .. Len(d)
  BY <1>1 DEF Places
<1>4. next[d[i]] = Place(d, head, i + 1)
  BY <1>1, <1>2, <1>3 DEF Links
<1> QED
  BY <1>1, <1>2, <1>4 DEF Places

(* A step of the walk over the disks, alone: nothing of the lists moves.   *)
CountOk(D, s) == letter[s] \in 1 .. Len(D) + 1 /\ last[s] = Place(D, Disks, letter[s])

LEMMA CountingKeeps ==
  ASSUME MountTypes', Alone', NEW D, NEW P, MountOk(D, P), NEW s \in Slots,
         pc[s] \in {"name", "count"}, pc'[s] = "count", CountOk(D, s)',
         UNCHANGED <<card, next, prev, store, part, index>>,
         \A r \in Slots \ {s} : /\ pc[r] \in {"empty", "done"} /\ pc'[r] = pc[r]
                                /\ letter'[r] = letter[r] /\ last'[r] = last[r]
  PROVE  OneByOneInv'
<1>1. /\ ListOf(D, Disks) /\ ListOf(P, Partitions)
      /\ \A r \in Slots : SlotOk(D, r)
      /\ LettersOk(D) /\ MountedOk(P)
      /\ DisksOk(D) /\ PartitionsOk(P) /\ Unlinked(D, P)
  BY MountParts
<1>2. \A r \in Slots : pc[r] \notin {"adddisk", "addpart"} /\ pc'[r] \notin {"adddisk", "addpart"}
  OBVIOUS
<1>3. "name" \in Early /\ "count" \in Early
  BY DEF Early, Late, Steps, Transferring
<1>4. SlotOk(D, s) /\ <<s, 0>> \notin Range(D)
  BY <1>1, <1>3 DEF SlotOk
<1>5. SlotOk(D, s)'
  <2>1. "count" \notin Late /\ "count" \notin Counted
    BY DEF Late, Counted
  <2>2. index[s] = 1 /\ store[s] = 0
    BY <1>3, <1>4 DEF SlotOk
  <2>3. \A i, j \in 1 .. 4 : part[s][i] = part[s][j] /\ part[s][i] # 0 => i = j
    BY <1>4 DEF SlotOk
  <2> QED
    BY <1>4, <2>1, <2>2, <2>3 DEF SlotOk
<1>6. \A r \in Slots : SlotOk(D, r)'
  BY <1>1, <1>5, OtherSlots
<1>7. LettersOk(D)'
  <2>1. ASSUME NEW k \in 1 .. Len(D) PROVE D[k] \in Slots \X {0} /\ letter'[D[k][1]] = k
    <3>1. D \in Seq(Cells)
      BY <1>1, ListOfFacts
    <3>2. D[k] \in Slots \X {0} /\ letter[D[k][1]] = k /\ D[k] \in Range(D)
      BY <1>1, <3>1, RangeFacts DEF LettersOk
    <3>3. D[k] # <<s, 0>>
      BY <1>4, <3>2
    <3>4. D[k][1] \in Slots \ {s}
      BY <3>2, <3>3
    <3> QED
      BY <3>2, <3>4
  <2> QED
    BY <1>2, <2>1 DEF LettersOk
<1>8. MountedOk(P)'
  BY <1>1 DEF MountedOk, Fat32
<1>9. DisksOk(D)' /\ PartitionsOk(P)'
  BY <1>1, <1>2 DEF DisksOk, PartitionsOk
<1>10. Unlinked(D, P)'
  BY <1>1, <1>2 DEF Unlinked
<1>11. WalksOk(D, P)'
  <2>1. ASSUME NEW r \in Slots
        PROVE  /\ pc'[r] = "count" =>
                    letter'[r] \in 1 .. Len(D) + 1 /\ last'[r] = Place(D, Disks, letter'[r])
               /\ pc'[r] # "list"
    <3>1. CASE r = s
      BY <3>1 DEF CountOk
    <3>2. CASE r # s
      BY <3>2
    <3> QED
      BY <3>1, <3>2
  <2> QED
    BY <2>1 DEF WalksOk
<1>12. MountOk(D, P)'
  BY <1>1, <1>6, <1>7, <1>8, <1>9, <1>10, <1>11 DEF MountOk
<1> QED
  BY <1>12 DEF OneByOneInv

(* disk_set_name begins to count. *)
LEMMA SetNameKeeps ==
  ASSUME StorageInv, OneByOneInv, NEW s \in Slots, SetName(s)
  PROVE  OneByOneInv'
<1>1. MountTypes /\ Alone /\ pc \in [Slots -> Steps \union {"panic", "fault"}]
  BY DEF OneByOneInv, StorageInv, TypeCards
<1>2. PICK D, P : MountOk(D, P)
  BY DEF OneByOneInv
<1>3. /\ ListOf(D, Disks) /\ ListOf(P, Partitions)
      /\ \A r \in Slots : SlotOk(D, r)
      /\ LettersOk(D) /\ MountedOk(P)
      /\ DisksOk(D) /\ PartitionsOk(P) /\ Unlinked(D, P)
  BY <1>2, MountParts
<1>4. /\ pc[s] = "name" /\ UNCHANGED <<card, next, prev, store, part, index>>
      /\ pc' = [pc EXCEPT ![s] = "count"]
      /\ letter' = [letter EXCEPT ![s] = 1]
      /\ last' = [last EXCEPT ![s] = next[Disks]]
  BY DEF SetName, StartWalk, GoTo, At
<1>5. \A r \in Slots \ {s} : pc[r] \in {"empty", "done"}
  BY <1>1, <1>4, NobodyElse
<1>6. Whole(next, prev, D, Disks)
  BY <1>3, <1>4, <1>5 DEF DisksOk
<1>7. next[Disks] = Place(D, Disks, 1)
  BY <1>3, <1>6, FirstOfList
<1>8. pc'[s] = "count" /\ \A r \in Slots \ {s} : pc'[r] = pc[r]
  BY <1>1, <1>4
<1>9. /\ letter' \in [Slots -> Nat] /\ letter'[s] = 1
      /\ \A r \in Slots \ {s} : letter'[r] = letter[r]
      /\ last' \in [Slots -> Node] /\ last'[s] = Place(D, Disks, 1)
  <2>1. letter \in [Slots -> Nat] /\ last \in [Slots -> Node] /\ next[Disks] \in Node
    BY <1>1, Heads DEF MountTypes, LinkTypes
  <2> QED
    BY <1>4, <1>7, <2>1
<1>10. MountTypes'
  BY <1>1, <1>4, <1>9 DEF MountTypes, LinkTypes
<1>11. Alone'
  BY <1>1, <1>4, AloneNext
<1>12. Len(D) \in Nat /\ D \in Seq(Cells)
  BY <1>3, ListOfFacts, LenProperties
<1>13. CountOk(D, s)'
  <2>1. 1 \in 1 .. Len(D) + 1
    BY <1>12
  <2> QED
    BY <1>9, <2>1 DEF CountOk
<1> QED
  BY <1>1, <1>2, <1>4, <1>5, <1>8, <1>9, <1>10, <1>11, <1>13, CountingKeeps

(* disk_set_name goes on to the next disk, or has counted them all. *)
LEMMA CountDiskKeeps ==
  ASSUME StorageInv, OneByOneInv, NEW s \in Slots, CountDisk(s)
  PROVE  OneByOneInv'
<1>1. MountTypes /\ Alone /\ pc \in [Slots -> Steps \union {"panic", "fault"}]
  BY DEF OneByOneInv, StorageInv, TypeCards
<1>2. PICK D, P : MountOk(D, P)
  BY DEF OneByOneInv
<1>3. /\ ListOf(D, Disks) /\ ListOf(P, Partitions)
      /\ \A r \in Slots : SlotOk(D, r)
      /\ LettersOk(D) /\ MountedOk(P)
      /\ DisksOk(D) /\ PartitionsOk(P) /\ Unlinked(D, P)
  BY <1>2, MountParts
<1>4. /\ pc[s] = "count" /\ WalkOn(s, Disks, "adddisk")
      /\ UNCHANGED <<card, next, prev, store, part, index>>
      /\ letter' = [letter EXCEPT ![s] =
                      IF last[s] \in {Disks, Null} THEN letter[s] ELSE letter[s] + 1]
  BY DEF CountDisk, At
<1>5. \A r \in Slots \ {s} : pc[r] \in {"empty", "done"}
  BY <1>1, <1>4, NobodyElse
<1>6. Whole(next, prev, D, Disks)
  BY <1>3, <1>4, <1>5 DEF DisksOk
<1>7. /\ letter \in [Slots -> Nat] /\ last \in [Slots -> Node]
      /\ Len(D) \in Nat /\ D \in Seq(Cells)
  BY <1>1, <1>3, ListOfFacts, LenProperties DEF MountTypes, LinkTypes
<1>8. letter[s] \in 1 .. Len(D) + 1 /\ last[s] = Place(D, Disks, letter[s])
  BY <1>2, <1>4 DEF MountOk, WalksOk
<1>9. CASE letter[s] \in 1 .. Len(D)
  <2> DEFINE i == letter[s]
  <2>1. /\ last[s] = D[i] /\ D[i] \notin {Disks, Null}
        /\ next[D[i]] = Place(D, Disks, i + 1)
    BY <1>3, <1>6, <1>8, <1>9, NextOfList
  <2>2. /\ last' = [last EXCEPT ![s] = next[D[i]]] /\ pc' = pc
        /\ letter' = [letter EXCEPT ![s] = i + 1]
    BY <1>4, <2>1 DEF WalkOn
  <2>3. next[D[i]] \in Node
    <3>1. next \in [Node -> Node] /\ last[s] \in Node
      BY <1>1, <1>7 DEF MountTypes, LinkTypes
    <3> QED
      BY <2>1, <3>1
  <2>4. i + 1 \in 1 .. Len(D) + 1 /\ i + 1 \in Nat
    BY <1>7, <1>9
  <2> HIDE DEF i
  <2>5. /\ letter' \in [Slots -> Nat] /\ letter'[s] = i + 1
        /\ last' \in [Slots -> Node] /\ last'[s] = next[D[i]]
        /\ \A r \in Slots \ {s} : letter'[r] = letter[r] /\ last'[r] = last[r]
    BY <1>7, <2>2, <2>3, <2>4
  <2>6. MountTypes'
    BY <1>1, <1>4, <2>5 DEF MountTypes, LinkTypes
  <2>7. Alone'
    BY <1>1, <2>2 DEF Alone
  <2>8. CountOk(D, s)'
    BY <2>1, <2>4, <2>5 DEF CountOk
  <2>9. \A r \in Slots \ {s} : /\ pc[r] \in {"empty", "done"} /\ pc'[r] = pc[r]
                               /\ letter'[r] = letter[r] /\ last'[r] = last[r]
    BY <1>5, <2>2, <2>5
  <2>10. pc'[s] = "count"
    BY <1>4, <2>2
  <2> QED
    BY <1>2, <1>4, <2>6, <2>7, <2>8, <2>9, <2>10, CountingKeeps
<1>10. CASE letter[s] \notin 1 .. Len(D)
  <2>1. letter[s] = Len(D) + 1
    BY <1>7, <1>8, <1>10
  <2>2. last[s] = Disks /\ Disks # Null
    BY <1>8, <1>10, Heads DEF Place
  <2>3. pc' = [pc EXCEPT ![s] = "adddisk"] /\ last' = last
    BY <1>4, <2>2 DEF WalkOn, GoTo
  <2>4. letter' = letter
    <3>1. letter' = [letter EXCEPT ![s] = letter[s]]
      BY <1>4, <2>2
    <3> QED
      BY <1>7, <3>1
  <2>5. pc'[s] = "adddisk" /\ \A r \in Slots \ {s} : pc'[r] = pc[r]
    BY <1>1, <2>3
  <2>6. MountTypes'
    BY <1>1, <1>4, <2>3, <2>4 DEF MountTypes, LinkTypes
  <2>7. Alone'
    BY <1>1, <1>4, <2>3, AloneNext
  <2>8. "count" \in Early /\ "adddisk" \in Early
    BY DEF Early, Late, Steps, Transferring
  <2>9. /\ SlotOk(D, s) /\ <<s, 0>> \notin Range(D) /\ store[s] = 0
    BY <1>3, <1>4, <2>8 DEF SlotOk
  <2>10. SlotOk(D, s)'
    <3>1. "adddisk" \notin Late /\ "adddisk" \notin Counted
      BY DEF Late, Counted
    <3> QED
      BY <1>4, <2>5, <2>8, <2>9, <3>1 DEF SlotOk
  <2>11. \A r \in Slots : SlotOk(D, r)'
    BY <1>3, <1>4, <2>5, <2>10, OtherSlots
  <2>12. LettersOk(D)'
    <3>1. \A r \in Slots : pc'[r] = "adddisk" => letter[r] = Len(D) + 1
      BY <1>5, <2>1, <2>5
    <3> QED
      BY <1>3, <2>4, <3>1 DEF LettersOk
  <2>13. MountedOk(P)'
    BY <1>3, <1>4 DEF MountedOk, Fat32
  <2>14. DisksOk(D)'
    <3>1. <<s, 0>> \notin Range(P)
      BY <1>3 DEF MountedOk
    <3>2. next[<<s, 0>>] = Null
      <4>1. \A r \in Slots : \A i \in 0 .. 4 :
              \/ next[<<r, i>>] = Null \/ <<r, i>> \in Range(D) \union Range(P)
              \/ pc[r] = "adddisk" /\ i = 0
              \/ pc[r] = "addpart" /\ i = index[r]
        BY <1>3 DEF Unlinked
      <4>2. 0 \in 0 .. 4
        OBVIOUS
      <4> QED
        BY <1>4, <2>9, <3>1, <4>1, <4>2
    <3>3. Adding(next', prev', D, Disks, <<s, 0>>, store'[s], last'[s])
      BY <1>4, <1>6, <2>9, <3>2, AddingStarts
    <3> QED
      BY <1>5, <2>5, <3>3 DEF DisksOk
  <2>15. PartitionsOk(P)'
    <3>1. \A r \in Slots : pc'[r] = "addpart" <=> pc[r] = "addpart"
      BY <1>4, <2>5
    <3> QED
      BY <1>3, <1>4, <2>3, <3>1 DEF PartitionsOk
  <2>16. Unlinked(D, P)'
    <3>1. \A r \in Slots : /\ pc[r] = "adddisk" => pc'[r] = "adddisk"
                           /\ pc[r] = "addpart" => pc'[r] = "addpart"
      BY <1>4, <2>5
    <3> QED
      BY <1>3, <1>4, <3>1 DEF Unlinked
  <2>17. WalksOk(D, P)'
    BY <1>5, <2>5, NoWalk
  <2>18. MountOk(D, P)'
    BY <1>3, <2>11, <2>12, <2>13, <2>14, <2>15, <2>16, <2>17 DEF MountOk
  <2> QED
    BY <2>6, <2>7, <2>18 DEF OneByOneInv
<1> QED
  BY <1>9, <1>10

(* list_add_last of a disk. *)
LEMMA AddDiskKeeps ==
  ASSUME StorageInv, OneByOneInv, NEW s \in Slots, AddDisk(s)
  PROVE  OneByOneInv'
<1> DEFINE node == <<s, 0>>
<1>1. /\ MountTypes /\ LinkTypes /\ Alone
      /\ pc \in [Slots -> Steps \union {"panic", "fault"}]
  BY DEF OneByOneInv, StorageInv, TypeCards, MountTypes
<1>2. PICK D, P : MountOk(D, P)
  BY DEF OneByOneInv
<1>3. /\ ListOf(D, Disks) /\ ListOf(P, Partitions)
      /\ \A r \in Slots : SlotOk(D, r)
      /\ LettersOk(D) /\ MountedOk(P)
      /\ DisksOk(D) /\ PartitionsOk(P) /\ Unlinked(D, P) /\ WalksOk(D, P)
  BY <1>2, MountParts
<1>4. /\ pc[s] = "adddisk" /\ AddLast(s, node, Disks)
      /\ pc' = [pc EXCEPT ![s] = IF store[s] = 4 THEN "mbrready" ELSE "adddisk"]
      /\ UNCHANGED <<card, letter, part, index>>
  BY DEF AddDisk, At, GoTo, diskVars
<1>5. \A r \in Slots \ {s} : pc[r] \in {"empty", "done"}
  BY <1>1, <1>4, NobodyElse
<1>6. /\ node \in Cells /\ node \in Node /\ Disks \in Node
      /\ node[1] = s /\ Disks # Partitions
  BY Heads DEF Cells
<1>7. SlotOk(D, s) /\ node \notin Range(D) /\ index[s] = 1
  <2>1. "adddisk" \in Early
    BY DEF Early, Late, Steps, Transferring
  <2> QED
    BY <1>3, <1>4, <2>1 DEF SlotOk
<1>8. Adding(next, prev, D, Disks, node, store[s], last[s])
  BY <1>3, <1>4 DEF DisksOk
<1>9. Whole(next, prev, P, Partitions)
  BY <1>3, <1>4, <1>5 DEF PartitionsOk
<1>10. /\ Range(D) \intersect Range(P) = {} /\ Range(P) \subseteq Slots \X (1 .. 4)
  BY <1>2, Apart
<1>11. node \notin Range(P)
  BY <1>3 DEF MountedOk
<1> HIDE DEF node
<1>12. LinkTypes' /\ MountTypes'
  <2>1. LinkTypes'
    BY <1>1, <1>4, <1>6, AddLastTypes
  <2> QED
    BY <1>1, <1>4, <2>1 DEF MountTypes
<1>13. Elsewheres(s, D, Disks, node)
  BY <1>1, <1>3, <1>4, <1>6, <1>8, AddLastFrame
<1>14. \A r \in Slots \ {s} : store'[r] = store[r]
  BY <1>13 DEF Elsewheres
<1>15. Whole(next', prev', P, Partitions)
  BY <1>3, <1>6, <1>9, <1>10, <1>11, <1>13, WholeKept
<1>16. /\ next'[Null] = Null
       /\ \A r \in Slots : \A i \in 0 .. 4 :
            \/ next'[<<r, i>>] = Null \/ <<r, i>> \in Range(D) \union Range(P)
            \/ <<r, i>> = node
  <2>1. \A r \in Slots, i \in 0 .. 4 :
          (pc[r] = "adddisk" /\ i = 0) \/ (pc[r] = "addpart" /\ i = index[r])
            => <<r, i>> = node
    BY <1>4, <1>5 DEF node
  <2>2. Range(D) \subseteq Range(D) \union Range(P)
    OBVIOUS
  <2> QED
    BY <1>3, <1>6, <1>13, <2>1, <2>2, UnlinkedKept
<1>17. MountedOk(P)'
  BY <1>3, <1>4 DEF MountedOk, Fat32
<1>18. CASE store[s] # 4
  <2>1. pc' = pc
    BY <1>1, <1>4, <1>18
  <2>2. Alone'
    BY <1>1, <2>1 DEF Alone
  <2>3. SlotOk(D, s)'
    <3>1. \A i : Fat32(s, i)' <=> Fat32(s, i)
      BY <1>4 DEF Fat32
    <3> QED
      BY <1>4, <1>7, <2>1, <3>1 DEF SlotOk
  <2>4. \A r \in Slots : SlotOk(D, r)'
    BY <1>3, <1>4, <1>14, <2>1, <2>3, OtherSlots
  <2>5. LettersOk(D)'
    BY <1>3, <1>4, <2>1 DEF LettersOk
  <2>6. DisksOk(D)'
    <3>1. Adding(next', prev', D, Disks, node, store'[s], last'[s])
      BY <1>1, <1>3, <1>4, <1>6, <1>7, <1>8, <1>18, AddLastGoesOn
    <3> QED
      BY <1>4, <1>5, <2>1, <3>1 DEF DisksOk, node
  <2>7. PartitionsOk(P)'
    BY <1>4, <1>5, <1>15, <2>1 DEF PartitionsOk
  <2>8. Unlinked(D, P)'
    BY <1>4, <1>16, <2>1 DEF Unlinked, node
  <2>9. WalksOk(D, P)'
    BY <1>4, <1>5, <2>1, NoWalk
  <2>10. MountOk(D, P)'
    BY <1>3, <1>17, <2>4, <2>5, <2>6, <2>7, <2>8, <2>9 DEF MountOk
  <2> QED
    BY <1>12, <2>2, <2>10 DEF OneByOneInv
<1>19. CASE store[s] = 4
  <2> DEFINE E == Append(D, node)
  <2>1. pc' = [pc EXCEPT ![s] = "mbrready"]
    BY <1>4, <1>19
  <2>2. pc'[s] = "mbrready" /\ \A r \in Slots \ {s} : pc'[r] = pc[r]
    BY <1>1, <2>1
  <2>3. Alone'
    BY <1>1, <1>4, <2>1, AloneNext
  <2>4. /\ Whole(next', prev', E, Disks) /\ store'[s] = 0 /\ ListOf(E, Disks)
        /\ Range(E) = Range(D) \union {node}
    BY <1>1, <1>3, <1>4, <1>6, <1>7, <1>8, <1>19, AddLastEnds
  <2>5. D \in Seq(Cells) /\ Len(D) \in Nat
    BY <1>3, ListOfFacts, LenProperties
  <2>6. /\ Len(E) = Len(D) + 1 /\ E[Len(D) + 1] = node
        /\ \A k \in 1 .. Len(D) : E[k] = D[k]
    BY <1>6, <2>5, AppendProperties
  <2> HIDE DEF E
  <2>7. SlotOk(E, s)'
    <3>1. <<s, 0>> \in Range(E)
      BY <2>4 DEF node
    <3>2. "mbrready" \notin Early /\ "mbrready" \notin Counted
      BY DEF Early, Late, Counted
    <3> QED
      BY <1>4, <1>7, <2>2, <2>4, <3>1, <3>2 DEF SlotOk
  <2>8. \A r \in Slots : SlotOk(E, r)'
    <3>1. \A r \in Slots \ {s} : <<r, 0>> \in Range(E) <=> <<r, 0>> \in Range(D)
      BY <2>4 DEF node
    <3> QED
      BY <1>3, <1>4, <1>14, <2>2, <2>7, <3>1, OtherSlots
  <2>9. LettersOk(E)'
    <3>1. ASSUME NEW k \in 1 .. Len(E) PROVE E[k] \in Slots \X {0} /\ letter'[E[k][1]] = k
      <4>1. CASE k = Len(D) + 1
        <5>1. E[k] = node /\ letter[s] = k
          BY <1>3, <1>4, <2>6, <4>1 DEF LettersOk
        <5> QED
          BY <1>4, <5>1 DEF node
      <4>2. CASE k # Len(D) + 1
        <5>1. k \in 1 .. Len(D)
          BY <2>5, <2>6, <4>2
        <5> QED
          BY <1>3, <1>4, <2>6, <5>1 DEF LettersOk
      <4> QED
        BY <4>1, <4>2
    <3>2. \A r \in Slots : pc'[r] # "adddisk"
      BY <1>5, <2>2
    <3> QED
      BY <3>1, <3>2 DEF LettersOk
  <2>10. DisksOk(E)'
    <3>1. \A r \in Slots : pc'[r] # "adddisk"
      BY <1>5, <2>2
    <3> QED
      BY <2>4, <3>1 DEF DisksOk
  <2>11. PartitionsOk(P)'
    <3>1. \A r \in Slots : pc'[r] # "addpart"
      BY <1>5, <2>2
    <3> QED
      BY <1>15, <3>1 DEF PartitionsOk
  <2>12. Unlinked(E, P)'
    BY <1>16, <2>4 DEF Unlinked
  <2>13. WalksOk(E, P)'
    BY <1>5, <2>2, NoWalk
  <2>14. MountOk(E, P)'
    BY <1>3, <1>17, <2>4, <2>8, <2>9, <2>10, <2>11, <2>12, <2>13 DEF MountOk
  <2> QED
    BY <1>12, <2>3, <2>14 DEF OneByOneInv
<1> QED
  BY <1>18, <1>19

(* list_add_last of a partition. *)
LEMMA AddPartitionKeeps ==
  ASSUME StorageInv, OneByOneInv, NEW s \in Slots, AddPartition(s)
  PROVE  OneByOneInv'
<1> DEFINE node == <<s, index[s]>>
<1>1. /\ MountTypes /\ LinkTypes /\ Alone /\ index \in [Slots -> 1 .. 5]
      /\ pc \in [Slots -> Steps \union {"panic", "fault"}]
  BY DEF OneByOneInv, StorageInv, TypeCards, MountTypes
<1>2. PICK D, P : MountOk(D, P)
  BY DEF OneByOneInv
<1>3. /\ ListOf(D, Disks) /\ ListOf(P, Partitions)
      /\ \A r \in Slots : SlotOk(D, r)
      /\ LettersOk(D) /\ MountedOk(P)
      /\ DisksOk(D) /\ PartitionsOk(P) /\ Unlinked(D, P) /\ WalksOk(D, P)
  BY <1>2, MountParts
<1>4. /\ pc[s] = "addpart" /\ AddLast(s, node, Partitions)
      /\ IF store[s] = 4
         THEN /\ pc' = [pc EXCEPT ![s] = "mount"]
              /\ index' = [index EXCEPT ![s] = index[s] + 1]
         ELSE UNCHANGED <<pc, index>>
      /\ UNCHANGED <<card, letter, part>>
  BY DEF AddPartition, At, GoTo
<1>5. \A r \in Slots \ {s} : pc[r] \in {"empty", "done"}
  BY <1>1, <1>4, NobodyElse
<1>6. /\ SlotOk(D, s) /\ index[s] <= 4 /\ index[s] \in 1 .. 4 /\ Fat32(s, index[s])
      /\ <<s, 0>> \in Range(D)
  <2>1. "addpart" \in Late
    BY DEF Late
  <2>2. SlotOk(D, s) /\ index[s] <= 4 /\ Fat32(s, index[s]) /\ <<s, 0>> \in Range(D)
    BY <1>3, <1>4, <2>1 DEF SlotOk
  <2>3. index[s] \in 1 .. 5
    BY <1>1
  <2> QED
    BY <2>2, <2>3
<1>7. /\ node \in Cells /\ node \in Node /\ Partitions \in Node /\ Disks # Partitions
  BY <1>6, Heads DEF Cells
<1>8. node \notin Range(P)
  <2>1. ~(index[s] < index[s])
    BY <1>6
  <2> QED
    BY <1>3, <1>6, <2>1 DEF MountedOk
<1>9. Adding(next, prev, P, Partitions, node, store[s], last[s])
  BY <1>3, <1>4 DEF PartitionsOk
<1>10. Whole(next, prev, D, Disks)
  BY <1>3, <1>4, <1>5 DEF DisksOk
<1>11. /\ Range(D) \intersect Range(P) = {} /\ Range(D) \subseteq Slots \X {0}
  BY <1>2, Apart
<1>12. node \notin Range(D)
  BY <1>6, <1>11
<1> HIDE DEF node
<1>13. LinkTypes'
  BY <1>1, <1>4, <1>7, AddLastTypes
<1>14. Elsewheres(s, P, Partitions, node)
  BY <1>1, <1>3, <1>4, <1>7, <1>9, AddLastFrame
<1>15. \A r \in Slots \ {s} : store'[r] = store[r]
  BY <1>14 DEF Elsewheres
<1>16. Whole(next', prev', D, Disks)
  BY <1>3, <1>7, <1>10, <1>11, <1>12, <1>14, WholeKept
<1>17. /\ next'[Null] = Null
       /\ \A r \in Slots : \A i \in 0 .. 4 :
            \/ next'[<<r, i>>] = Null \/ <<r, i>> \in Range(D) \union Range(P)
            \/ <<r, i>> = node
  <2>1. \A r \in Slots, i \in 0 .. 4 :
          (pc[r] = "adddisk" /\ i = 0) \/ (pc[r] = "addpart" /\ i = index[r])
            => <<r, i>> = node
    BY <1>4, <1>5 DEF node
  <2>2. Range(P) \subseteq Range(D) \union Range(P)
    OBVIOUS
  <2> QED
    BY <1>3, <1>7, <1>14, <2>1, <2>2, UnlinkedKept
<1>18. \A r \in Slots : pc[r] # "adddisk"
  BY <1>4, <1>5
<1>19. CASE store[s] # 4
  <2>1. pc' = pc /\ index' = index
    BY <1>4, <1>19
  <2>2. MountTypes'
    BY <1>1, <1>4, <1>13, <2>1 DEF MountTypes
  <2>3. Alone'
    BY <1>1, <2>1 DEF Alone
  <2>4. SlotOk(D, s)'
    <3>1. \A i : Fat32(s, i)' <=> Fat32(s, i)
      BY <1>4 DEF Fat32
    <3> QED
      BY <1>4, <1>6, <2>1, <3>1 DEF SlotOk
  <2>5. \A r \in Slots : SlotOk(D, r)'
    BY <1>3, <1>4, <1>15, <2>1, <2>4, OtherSlots
  <2>6. LettersOk(D)'
    BY <1>3, <1>4, <2>1 DEF LettersOk
  <2>7. MountedOk(P)'
    BY <1>3, <1>4, <2>1 DEF MountedOk, Fat32
  <2>8. DisksOk(D)'
    BY <1>16, <1>18, <2>1 DEF DisksOk
  <2>9. PartitionsOk(P)'
    <3>1. Adding(next', prev', P, Partitions, node, store'[s], last'[s])
      BY <1>1, <1>3, <1>4, <1>7, <1>8, <1>9, <1>19, AddLastGoesOn
    <3> QED
      BY <1>4, <1>5, <2>1, <3>1 DEF PartitionsOk, node
  <2>10. Unlinked(D, P)'
    BY <1>4, <1>17, <2>1 DEF Unlinked, node
  <2>11. WalksOk(D, P)'
    BY <1>4, <1>5, <2>1, NoWalk
  <2>12. MountOk(D, P)'
    BY <1>3, <2>5, <2>6, <2>7, <2>8, <2>9, <2>10, <2>11 DEF MountOk
  <2> QED
    BY <2>2, <2>3, <2>12 DEF OneByOneInv
<1>20. CASE store[s] = 4
  <2>0. PICK Q : Q = Append(P, node)
    OBVIOUS
  <2>1. /\ pc' = [pc EXCEPT ![s] = "mount"]
        /\ index' = [index EXCEPT ![s] = index[s] + 1]
    BY <1>4, <1>20
  <2>2. /\ pc'[s] = "mount" /\ \A r \in Slots \ {s} : pc'[r] = pc[r]
        /\ index'[s] = index[s] + 1 /\ \A r \in Slots \ {s} : index'[r] = index[r]
    BY <1>1, <2>1
  <2>3. MountTypes'
    <3>1. index[s] + 1 \in 1 .. 5
      BY <1>6
    <3>2. index' \in [Slots -> 1 .. 5]
      BY <1>1, <2>1, <3>1
    <3> QED
      BY <1>1, <1>4, <1>13, <3>2 DEF MountTypes
  <2>4. Alone'
    BY <1>1, <1>4, <2>1, AloneNext
  <2>5. /\ Whole(next', prev', Q, Partitions) /\ store'[s] = 0 /\ ListOf(Q, Partitions)
        /\ Range(Q) = Range(P) \union {node}
    BY <2>0, <1>1, <1>3, <1>4, <1>7, <1>8, <1>9, <1>20, AddLastEnds
  <2>6. SlotOk(D, s)'
    <3>1. "mount" \notin Early /\ "mount" \in Counted /\ "mount" \in Late
          /\ "addpart" \in Counted
      BY DEF Early, Late, Counted
    <3> QED
      BY <1>4, <1>6, <2>2, <2>5, <3>1 DEF SlotOk
  <2>7. \A r \in Slots : SlotOk(D, r)'
    BY <1>3, <1>4, <1>15, <2>2, <2>6, OtherSlots
  <2>8. \A r \in Slots : pc'[r] # "adddisk" /\ pc'[r] # "addpart"
    BY <1>5, <2>2
  <2>9. LettersOk(D)'
    BY <1>3, <1>4, <2>8 DEF LettersOk
  <2>10. MountedOk(Q)'
    <3>1. \A r \in Slots, i \in 1 .. 4 : Fat32(r, i)' <=> Fat32(r, i)
      BY <1>4 DEF Fat32
    <3>2. ASSUME NEW r \in Slots
          PROVE  /\ <<r, 0>> \notin Range(Q)
                 /\ \A i \in 1 .. 4 : <<r, i>> \in Range(Q) <=> i < index'[r] /\ Fat32(r, i)'
      <4>1. /\ <<r, 0>> \notin Range(P)
            /\ \A i \in 1 .. 4 : <<r, i>> \in Range(P) <=> i < index[r] /\ Fat32(r, i)
        BY <1>3 DEF MountedOk
      <4>2. <<r, 0>> # node
        BY <1>6 DEF node
      <4>3. CASE r # s
        <5>1. \A i : <<r, i>> # node
          BY <4>3 DEF node
        <5> QED
          BY <2>2, <2>5, <3>1, <4>1, <4>3, <5>1
      <4>4. CASE r = s
        <5>1. ASSUME NEW i \in 1 .. 4
              PROVE  <<s, i>> \in Range(Q) <=> i < index[s] + 1 /\ Fat32(s, i)
          <6>1. <<s, i>> = node <=> i = index[s]
            BY DEF node
          <6>2. i < index[s] + 1 <=> i < index[s] \/ i = index[s]
            BY <1>6
          <6> QED
            BY <1>6, <2>5, <4>1, <4>4, <6>1, <6>2
        <5> QED
          BY <2>2, <2>5, <3>1, <4>1, <4>2, <4>4, <5>1
      <4> QED
        BY <4>3, <4>4
    <3> QED
      BY <3>2 DEF MountedOk
  <2>11. DisksOk(D)'
    BY <1>16, <2>8 DEF DisksOk
  <2>12. PartitionsOk(Q)'
    BY <2>5, <2>8 DEF PartitionsOk
  <2>13. Unlinked(D, Q)'
    BY <1>17, <2>5 DEF Unlinked
  <2>14. WalksOk(D, Q)'
    BY <1>5, <2>2, NoWalk
  <2>15. MountOk(D, Q)'
    BY <1>3, <2>5, <2>7, <2>9, <2>10, <2>11, <2>12, <2>13, <2>14 DEF MountOk
  <2> QED
    BY <2>3, <2>4, <2>15 DEF OneByOneInv
<1> QED
  BY <1>19, <1>20

-----------------------------------------------------------------------------
(* The steps on the partition table.  The entries that                     *)
(* disk_find_partitions takes are numbered apart.                          *)
DigitOf(k, i) == Cardinality({j \in 1 .. i : ValidEntry(k, j)})

LEMMA DigitFacts ==
  ASSUME NEW k
  PROVE  /\ \A i \in 1 .. 4 : DigitOf(k, i) \in Nat
         /\ \A i \in 1 .. 4 : ValidEntry(k, i) => DigitOf(k, i) # 0
         /\ \A i, j \in 1 .. 4 :
              ValidEntry(k, i) /\ ValidEntry(k, j) /\ DigitOf(k, i) = DigitOf(k, j) => i = j
<1> DEFINE V(i) == {j \in 1 .. i : ValidEntry(k, j)}
<1>1. \A i \in 1 .. 4 : /\ ValidEntry(k, i) => i \in V(i)
                        /\ \A j \in V(i) : j <= i
                        /\ V(i) \subseteq 1 .. i
  OBVIOUS
<1>2. \A i, j \in 1 .. 4 : i <= j => V(i) \subseteq V(j)
  OBVIOUS
<1>3. \A i : DigitOf(k, i) = Cardinality(V(i))
  BY DEF DigitOf
<1> HIDE DEF V
<1>4. ASSUME NEW i \in 1 .. 4 PROVE IsFiniteSet(V(i)) /\ Cardinality(V(i)) \in Nat
  <2>1. IsFiniteSet(1 .. i)
    <3>1. 1 \in Int /\ i \in Int
      OBVIOUS
    <3> QED
      BY <3>1, FS_Interval
  <2>2. V(i) \in SUBSET (1 .. i)
    BY <1>1
  <2>3. IsFiniteSet(V(i))
    BY <2>1, <2>2, FS_Subset
  <2> QED
    BY <2>3, FS_CardinalityType
<1>5. ASSUME NEW i \in 1 .. 4, ValidEntry(k, i) PROVE Cardinality(V(i)) # 0
  <2>1. IsFiniteSet(V(i)) /\ V(i) # {}
    BY <1>1, <1>4, <1>5
  <2> QED
    BY <2>1, FS_EmptySet
<1>6. ASSUME NEW i \in 1 .. 4, NEW j \in 1 .. 4, i <= j, ValidEntry(k, j),
             Cardinality(V(i)) = Cardinality(V(j))
      PROVE  i = j
  <2>1. V(i) \in SUBSET V(j) /\ IsFiniteSet(V(j))
    BY <1>2, <1>4, <1>6
  <2>2. V(j) = V(i)
    BY <1>6, <2>1, FS_Subset
  <2>3. j \in V(i)
    BY <1>1, <1>6, <2>2
  <2>4. j <= i
    BY <1>1, <2>3
  <2> QED
    BY <1>6, <2>4
<1>7. ASSUME NEW i \in 1 .. 4, NEW j \in 1 .. 4, ValidEntry(k, i), ValidEntry(k, j),
             Cardinality(V(i)) = Cardinality(V(j))
      PROVE  i = j
  <2>1. i <= j \/ j <= i
    OBVIOUS
  <2> QED
    BY <1>6, <1>7, <2>1
<1> QED
  BY <1>3, <1>4, <1>5, <1>7

LEMMA FindPartitionsKeeps ==
  ASSUME StorageInv, OneByOneInv, NEW s \in Slots, FindPartitions(s)
  PROVE  OneByOneInv'
<1> DEFINE k == card[s].kind
           Table == [i \in 1 .. 4 |-> IF k.mbr /\ ValidEntry(k, i) THEN DigitOf(k, i) ELSE 0]
<1>1. /\ MountTypes /\ Alone /\ part \in [Slots -> [1 .. 4 -> Nat]]
      /\ pc \in [Slots -> Steps \union {"panic", "fault"}]
  BY DEF OneByOneInv, StorageInv, TypeCards, MountTypes
<1>2. PICK D, P : MountOk(D, P)
  BY DEF OneByOneInv
<1>3. SlotOk(D, s) /\ MountedOk(P)
  BY <1>2, MountParts
<1>4. pc[s] = "mbr" /\ UNCHANGED <<card, next, prev, store, last, letter, index>>
  BY DEF FindPartitions, At, listVars
<1>5. Transferred(s)
  <2>1. pc[s] \in Mounting
    BY <1>4 DEF Mounting, Transferring
  <2> QED
    BY <2>1, CardTransfers
<1>6. part' = [part EXCEPT ![s] = Table] /\ pc' = [pc EXCEPT ![s] = "mount"]
  BY <1>5 DEF FindPartitions, GoTo, DigitOf
<1> DEFINE Taken(i) == k.mbr /\ ValidEntry(k, i)
<1>7. /\ \A i \in 1 .. 4 : Table[i] # 0 <=> Taken(i)
      /\ \A i \in 1 .. 4 : Table[i] # 0 => Table[i] = DigitOf(k, i)
      /\ \A i \in 1 .. 4 : Table[i] \in Nat
      /\ Table = [i \in 1 .. 4 |-> Table[i]]
  <2>1. /\ \A i \in 1 .. 4 : DigitOf(k, i) \in Nat
        /\ \A i \in 1 .. 4 : ValidEntry(k, i) => DigitOf(k, i) # 0
    BY DigitFacts
  <2> HIDE DEF k
  <2>2. \A i \in 1 .. 4 : Table[i] = IF Taken(i) THEN DigitOf(k, i) ELSE 0
    OBVIOUS
  <2>3. Table = [i \in 1 .. 4 |-> Table[i]]
    OBVIOUS
  <2> HIDE DEF Table
  <2>4. \A i \in 1 .. 4 : Taken(i) => Table[i] = DigitOf(k, i) /\ Table[i] # 0
    BY <2>1, <2>2
  <2>5. \A i \in 1 .. 4 : ~Taken(i) => Table[i] = 0
    BY <2>2
  <2> QED
    BY <2>1, <2>3, <2>4, <2>5
<1>8. \A i, j \in 1 .. 4 : Table[i] = Table[j] /\ Table[i] # 0 => i = j
  <2> HIDE DEF Table, k
  <2>1. \A i, j \in 1 .. 4 :
          ValidEntry(k, i) /\ ValidEntry(k, j) /\ DigitOf(k, i) = DigitOf(k, j) => i = j
    BY DigitFacts
  <2>2. \A i \in 1 .. 4 : Table[i] # 0 => ValidEntry(k, i) /\ Table[i] = DigitOf(k, i)
    BY <1>7
  <2> QED
    BY <2>1, <2>2
<1> HIDE DEF Table
<1>9. Table \in [1 .. 4 -> Nat]
  BY <1>7
<1>10. /\ part' \in [Slots -> [1 .. 4 -> Nat]] /\ part'[s] = Table
       /\ \A r \in Slots \ {s} : part'[r] = part[r]
  BY <1>1, <1>6, <1>9
<1>11. MountTypes'
  BY <1>1, <1>4, <1>10 DEF MountTypes, LinkTypes
<1>12. Alone'
  BY <1>1, <1>4, <1>6, AloneNext
<1>13. pc'[s] = "mount"
  BY <1>1, <1>6
<1>14. SlotOk(D, s)'
  <2>1. /\ "mount" \notin Early /\ "mount" \in Late /\ "mbr" \in Late
    BY DEF Early, Late
  <2>2. \A i \in 1 .. 4 : part'[s][i] # 0 <=> card[s].kind.mbr /\ ValidEntry(card[s].kind, i)
    BY <1>7, <1>10
  <2>3. \A i, j \in 1 .. 4 : part'[s][i] = part'[s][j] /\ part'[s][i] # 0 => i = j
    BY <1>8, <1>10
  <2> HIDE DEF k
  <2> QED
    BY <1>3, <1>4, <1>13, <2>1, <2>2, <2>3 DEF SlotOk
<1>15. MountOk(D, P)'
  <2>1. \A i \in 1 .. 4 : <<s, i>> \in Range(P) <=> i < index'[s] /\ Fat32(s, i)
    BY <1>3, <1>4 DEF MountedOk
  <2>2. {pc[s], "mount"} \intersect {"adddisk", "addpart"} = {}
    BY <1>4
  <2>3. /\ \A r \in Slots : card'[r].kind = card[r].kind
        /\ \A r \in Slots \ {s} : index'[r] = index[r] /\ part'[r] = part[r]
        /\ UNCHANGED <<next, prev, store, last, letter>>
    BY <1>4, <1>10
  <2> QED
    BY <1>1, <1>2, <1>6, <1>14, <2>1, <2>2, <2>3, QuietMount
<1> QED
  BY <1>11, <1>12, <1>15 DEF OneByOneInv

(* An entry is left behind that is not mounted. *)
LEMMA Skipped ==
  ASSUME MountTypes, NEW P, MountedOk(P), NEW s \in Slots, index[s] <= 4,
         ~Fat32(s, index[s]), index' = [index EXCEPT ![s] = index[s] + 1]
  PROVE  /\ index' \in [Slots -> 1 .. 5] /\ index'[s] = index[s] + 1
         /\ \A r \in Slots \ {s} : index'[r] = index[r]
         /\ \A i \in 1 .. 4 : <<s, i>> \in Range(P) <=> i < index'[s] /\ Fat32(s, i)
<1>1. index \in [Slots -> 1 .. 5]
  BY DEF MountTypes
<1>2. index[s] \in 1 .. 4 /\ index[s] + 1 \in 1 .. 5
  BY <1>1
<1>3. /\ index' \in [Slots -> 1 .. 5] /\ index'[s] = index[s] + 1
      /\ \A r \in Slots \ {s} : index'[r] = index[r]
  BY <1>1, <1>2
<1>4. \A i \in 1 .. 4 : i < index[s] + 1 <=> i < index[s] \/ i = index[s]
  BY <1>2
<1>5. \A i \in 1 .. 4 : <<s, i>> \in Range(P) <=> i < index[s] /\ Fat32(s, i)
  BY DEF MountedOk
<1> QED
  BY <1>3, <1>4, <1>5

LEMMA NextPartitionKeeps ==
  ASSUME StorageInv, OneByOneInv, NEW s \in Slots, NextPartition(s)
  PROVE  OneByOneInv'
<1>1. /\ MountTypes /\ Alone /\ index \in [Slots -> 1 .. 5]
      /\ pc \in [Slots -> Steps \union {"panic", "fault"}]
  BY DEF OneByOneInv, StorageInv, TypeCards, MountTypes
<1>2. PICK D, P : MountOk(D, P)
  BY DEF OneByOneInv
<1>3. SlotOk(D, s) /\ MountedOk(P) /\ PartitionsOk(P) /\ ListOf(P, Partitions)
  BY <1>2, MountParts
<1>4. /\ pc[s] = "mount"
      /\ UNCHANGED <<card, next, prev, store, letter, part>>
  BY DEF NextPartition, At
<1>5. /\ "mount" \in Late /\ "mount" \in Counted /\ "bpbready" \in Late
      /\ "bpbready" \in Counted /\ "list" \in Late /\ "list" \in Counted
      /\ {"mount", "bpbready", "list"} \intersect Early = {}
  BY DEF Early, Late, Counted
<1>6. \A i \in 1 .. 4 : <<s, i>> \in Range(P) <=> i < index[s] /\ Fat32(s, i)
  BY <1>3 DEF MountedOk
<1>7. /\ \A r \in Slots : card'[r].kind = card[r].kind
      /\ \A r \in Slots \ {s} : part'[r] = part[r]
      /\ UNCHANGED <<next, prev, store, letter>>
      /\ \A i : Fat32(s, i)' <=> Fat32(s, i)
  BY <1>4 DEF Fat32
<1>8. CASE index[s] <= 4 /\ part[s][index[s]] # 0
  <2>1. pc' = [pc EXCEPT ![s] = "bpbready"] /\ index' = index /\ last' = last
    <3>1. ~(index[s] > 4)
      BY <1>1, <1>8
    <3> QED
      BY <1>8, <3>1 DEF NextPartition, GoTo
  <2>2. pc'[s] = "bpbready"
    BY <1>1, <2>1
  <2>3. MountTypes'
    BY <1>1, <1>4, <2>1 DEF MountTypes, LinkTypes
  <2>4. Alone'
    BY <1>1, <1>4, <2>1, AloneNext
  <2>5. SlotOk(D, s)'
    BY <1>3, <1>4, <1>5, <1>7, <1>8, <2>1, <2>2 DEF SlotOk
  <2>6. MountOk(D, P)'
    <3>1. \A i \in 1 .. 4 : <<s, i>> \in Range(P) <=> i < index'[s] /\ Fat32(s, i)
      BY <1>6, <2>1
    <3>2. {pc[s], "bpbready"} \intersect {"adddisk", "addpart"} = {}
      BY <1>4
    <3>3. \A r \in Slots \ {s} : index'[r] = index[r] /\ part'[r] = part[r]
      BY <1>7, <2>1
    <3> QED
      BY <1>1, <1>2, <1>7, <2>1, <2>5, <3>1, <3>2, <3>3, QuietMount
  <2> QED
    BY <2>3, <2>4, <2>6 DEF OneByOneInv
<1>9. CASE index[s] <= 4 /\ part[s][index[s]] = 0
  <2>1. pc' = pc /\ index' = [index EXCEPT ![s] = index[s] + 1] /\ last' = last
    <3>1. ~(index[s] > 4)
      BY <1>1, <1>9
    <3> QED
      BY <1>9, <3>1 DEF NextPartition
  <2>2. ~Fat32(s, index[s])
    <3>1. index[s] \in 1 .. 4
      BY <1>1, <1>9
    <3>2. ~(card[s].kind.mbr /\ ValidEntry(card[s].kind, index[s]))
      BY <1>3, <1>4, <1>5, <1>9, <3>1 DEF SlotOk
    <3> QED
      BY <3>2 DEF Fat32, ValidEntry
  <2>3. /\ index' \in [Slots -> 1 .. 5] /\ index'[s] = index[s] + 1
        /\ \A r \in Slots \ {s} : index'[r] = index[r]
        /\ \A i \in 1 .. 4 : <<s, i>> \in Range(P) <=> i < index'[s] /\ Fat32(s, i)
    BY <1>1, <1>3, <1>9, <2>1, <2>2, Skipped
  <2>4. MountTypes'
    BY <1>1, <1>4, <2>1, <2>3 DEF MountTypes, LinkTypes
  <2>5. Alone'
    BY <1>1, <2>1 DEF Alone
  <2>6. SlotOk(D, s)'
    BY <1>3, <1>4, <1>5, <1>7, <2>1 DEF SlotOk
  <2>7. MountOk(D, P)'
    <3>1. pc' = [pc EXCEPT ![s] = "mount"]
      BY <1>1, <1>4, <2>1
    <3>2. {pc[s], "mount"} \intersect {"adddisk", "addpart"} = {}
      BY <1>4
    <3>3. \A r \in Slots \ {s} : index'[r] = index[r] /\ part'[r] = part[r]
      BY <1>7, <2>3
    <3> QED
      BY <1>1, <1>2, <1>7, <2>1, <2>3, <2>6, <3>1, <3>2, <3>3, QuietMount
  <2> QED
    BY <2>4, <2>5, <2>7 DEF OneByOneInv
<1>10. CASE index[s] > 4
  <2>1. next[Partitions] \in Range(P) \union {Partitions}
    <3>1. \A r \in Slots : pc[r] # "addpart"
      BY <1>1, <1>4, NobodyElse
    <3>2. Whole(next, prev, P, Partitions)
      BY <1>3, <3>1 DEF PartitionsOk
    <3> QED
      BY <1>3, <3>2, FirstOfList
  <2>2. /\ pc' = [pc EXCEPT ![s] = "list"] /\ index' = index /\ index[s] = 5
        /\ last' = [last EXCEPT ![s] = next[Partitions]]
    <3>1. ~(index[s] <= 4) /\ index[s] = 5
      BY <1>1, <1>10
    <3> QED
      BY <3>1 DEF NextPartition, StartWalk, GoTo
  <2>3. pc'[s] = "list"
    BY <1>1, <2>2
  <2>4. /\ last' \in [Slots -> Node] /\ last'[s] = next[Partitions]
        /\ \A r \in Slots \ {s} : last'[r] = last[r]
    <3>1. next[Partitions] \in Node /\ last \in [Slots -> Node]
      BY <1>1, Heads DEF MountTypes, LinkTypes
    <3> QED
      BY <2>2, <3>1
  <2>5. MountTypes'
    BY <1>1, <1>4, <2>2, <2>4 DEF MountTypes, LinkTypes
  <2>6. Alone'
    BY <1>1, <1>4, <2>2, AloneNext
  <2>7. SlotOk(D, s)'
    BY <1>3, <1>4, <1>5, <1>7, <2>2, <2>3 DEF SlotOk
  <2>8. MountOk(D, P)'
    <3>1. \A i \in 1 .. 4 : <<s, i>> \in Range(P) <=> i < index'[s] /\ Fat32(s, i)
      BY <1>6, <2>2
    <3>2. {pc[s], "list"} \intersect {"adddisk", "addpart"} = {}
      BY <1>4
    <3>3. \A r \in Slots \ {s} : index'[r] = index[r] /\ part'[r] = part[r]
      BY <1>7, <2>2
    <3> QED
      BY <1>1, <1>2, <1>7, <2>1, <2>2, <2>4, <2>7, <3>1, <3>2, <3>3, QuietMount
  <2> QED
    BY <2>5, <2>6, <2>8 DEF OneByOneInv
<1> QED
  BY <1>8, <1>9, <1>10 DEF NextPartition

(* list_partitions goes on to the next partition, or has shown them all. *)
LEMMA ListPartitionKeeps ==
  ASSUME StorageInv, OneByOneInv, NEW s \in Slots, ListPartition(s)
  PROVE  OneByOneInv'
<1>1. /\ MountTypes /\ Alone
      /\ pc \in [Slots -> Steps \union {"panic", "fault"}]
  BY DEF OneByOneInv, StorageInv, TypeCards
<1>2. PICK D, P : MountOk(D, P)
  BY DEF OneByOneInv
<1>3. /\ SlotOk(D, s) /\ MountedOk(P) /\ PartitionsOk(P) /\ ListOf(P, Partitions)
  BY <1>2, MountParts
<1>4. /\ pc[s] = "list" /\ WalkOn(s, Partitions, "done")
      /\ UNCHANGED <<card, next, prev, store, letter, part, index>>
  BY DEF ListPartition, At, diskVars
<1>5. /\ "list" \in Late /\ "list" \in Counted /\ "done" \in Late /\ "done" \in Counted
      /\ {"list", "done"} \intersect Early = {}
  BY DEF Early, Late, Counted
<1>6. Whole(next, prev, P, Partitions)
  <2>1. \A r \in Slots : pc[r] # "addpart"
    BY <1>1, <1>4, NobodyElse
  <2> QED
    BY <1>3, <2>1 DEF PartitionsOk
<1>7. last[s] \in Range(P) \union {Partitions}
  BY <1>2, <1>4 DEF MountOk, WalksOk
<1>8. PICK t \in {"list", "done"} :
        /\ pc' = [pc EXCEPT ![s] = t] /\ last' \in [Slots -> Node]
        /\ t = "list" => last'[s] \in Range(P) \union {Partitions}
        /\ \A r \in Slots \ {s} : last'[r] = last[r]
  <2>1. last \in [Slots -> Node] /\ next \in [Node -> Node]
    BY <1>1 DEF MountTypes, LinkTypes
  <2>2. CASE last[s] = Partitions
    <3>1. Partitions # Null
      BY Heads
    <3>2. pc' = [pc EXCEPT ![s] = "done"] /\ last' = last
      BY <1>4, <2>2, <3>1 DEF WalkOn, GoTo
    <3> QED
      BY <2>1, <3>2
  <2>3. CASE last[s] # Partitions
    <3>1. P \in Seq(Cells)
      BY <1>3, ListOfFacts
    <3>2. PICK i \in 1 .. Len(P) : last[s] = P[i]
      BY <1>7, <2>3, <3>1, RangeFacts
    <3>3. last[s] \notin {Partitions, Null} /\ next[last[s]] \in Range(P) \union {Partitions}
      BY <1>3, <1>6, <3>2, NextOfList
    <3>4. pc' = pc /\ last' = [last EXCEPT ![s] = next[last[s]]]
      BY <1>4, <3>3 DEF WalkOn
    <3>5. next[last[s]] \in Node /\ pc' = [pc EXCEPT ![s] = "list"]
      BY <1>1, <1>4, <2>1, <3>4
    <3> QED
      BY <2>1, <3>3, <3>4, <3>5
  <2> QED
    BY <2>2, <2>3
<1>9. pc'[s] = t
  BY <1>1, <1>8
<1>10. MountTypes'
  BY <1>1, <1>4, <1>8 DEF MountTypes, LinkTypes
<1>11. Alone'
  BY <1>1, <1>4, <1>8, AloneNext
<1>12. \A i : Fat32(s, i)' <=> Fat32(s, i)
  BY <1>4 DEF Fat32
<1>13. SlotOk(D, s)'
  BY <1>3, <1>4, <1>5, <1>9, <1>12 DEF SlotOk
<1>14. MountOk(D, P)'
  <2>1. \A i \in 1 .. 4 : <<s, i>> \in Range(P) <=> i < index'[s] /\ Fat32(s, i)
    BY <1>3, <1>4 DEF MountedOk
  <2>2. {pc[s], t} \intersect {"adddisk", "addpart"} = {} /\ t # "count"
    BY <1>4
  <2>3. /\ \A r \in Slots : card'[r].kind = card[r].kind
        /\ \A r \in Slots \ {s} : index'[r] = index[r] /\ part'[r] = part[r]
        /\ UNCHANGED <<next, prev, store, letter>>
    BY <1>4
  <2> QED
    BY <1>1, <1>2, <1>8, <1>13, <2>1, <2>2, <2>3, QuietMount
<1> QED
  BY <1>10, <1>11, <1>14 DEF OneByOneInv

LEMMA MountPartitionKeeps ==
  ASSUME StorageInv, OneByOneInv, NEW s \in Slots, MountPartition(s)
  PROVE  OneByOneInv'
<1>1. /\ MountTypes /\ Alone /\ index \in [Slots -> 1 .. 5]
      /\ pc \in [Slots -> Steps \union {"panic", "fault"}]
  BY DEF OneByOneInv, StorageInv, TypeCards, MountTypes
<1>2. PICK D, P : MountOk(D, P)
  BY DEF OneByOneInv
<1>3. /\ ListOf(D, Disks) /\ ListOf(P, Partitions)
      /\ \A r \in Slots : SlotOk(D, r)
      /\ LettersOk(D) /\ MountedOk(P)
      /\ DisksOk(D) /\ PartitionsOk(P) /\ Unlinked(D, P) /\ WalksOk(D, P)
  BY <1>2, MountParts
<1>4. /\ pc[s] = "bpb"
      /\ UNCHANGED <<card, next, prev, store, last, letter, part>>
  BY DEF MountPartition, At, listVars
<1>5. Transferred(s) /\ sd[s].sdhc = card[s].kind.hc
  <2>1. pc[s] \in Mounting /\ pc[s] \in Transferring
    BY <1>4 DEF Mounting, Transferring
  <2>2. Transferred(s) /\ OnStep(card[s], sd[s], pc[s])
    BY <2>1, CardTransfers
  <2> QED
    BY <2>1, <2>2 DEF OnStep
<1>6. /\ {"mount", "bpb", "addpart"} \intersect Early = {}
      /\ {"mount", "bpb", "addpart"} \subseteq Late
      /\ {"mount", "bpb", "addpart"} \subseteq Counted
  BY DEF Early, Late, Counted
<1>7. /\ index[s] <= 4 /\ part[s][index[s]] # 0 /\ store[s] = 0 /\ <<s, 0>> \in Range(D)
      /\ card[s].kind.mbr
  <2>1. /\ index[s] <= 4 /\ part[s][index[s]] # 0 /\ store[s] = 0 /\ <<s, 0>> \in Range(D)
        /\ \A i \in 1 .. 4 :
             part[s][i] # 0 <=> card[s].kind.mbr /\ ValidEntry(card[s].kind, i)
    BY <1>3, <1>4, <1>6 DEF SlotOk
  <2>2. index[s] \in 1 .. 4
    BY <1>1, <2>1
  <2> QED
    BY <2>1, <2>2
<1>8. /\ \A r \in Slots : card'[r].kind = card[r].kind
      /\ \A r \in Slots \ {s} : part'[r] = part[r]
      /\ UNCHANGED <<next, prev, store, last, letter>>
      /\ \A i : Fat32(s, i)' <=> Fat32(s, i)
  BY <1>4 DEF Fat32
<1>9. \A r \in Slots \ {s} : pc[r] \in {"empty", "done"}
  BY <1>1, <1>4, NobodyElse
<1>10. CASE card[s].kind.entry[index[s]] = "fat32"
  <2>1. pc' = [pc EXCEPT ![s] = "addpart"] /\ index' = index
    BY <1>5, <1>10 DEF MountPartition, GoTo
  <2>2. pc'[s] = "addpart" /\ \A r \in Slots \ {s} : pc'[r] = pc[r]
    BY <1>1, <2>1
  <2>3. MountTypes'
    BY <1>1, <1>4, <2>1 DEF MountTypes, LinkTypes
  <2>4. Alone'
    BY <1>1, <1>4, <2>1, AloneNext
  <2>5. Fat32(s, index[s])
    BY <1>7, <1>10 DEF Fat32
  <2>6. SlotOk(D, s)'
    <3>1. /\ pc'[s] \notin Early /\ pc'[s] \in Late /\ pc'[s] \in Counted
          /\ pc[s] \in Counted
      BY <1>4, <1>6, <2>2
    <3>2. /\ \A i \in 1 .. 4 :
               part[s][i] # 0 <=> card[s].kind.mbr /\ ValidEntry(card[s].kind, i)
          /\ \A i, j \in 1 .. 4 : part[s][i] = part[s][j] /\ part[s][i] # 0 => i = j
      BY <1>3, <3>1 DEF SlotOk
    <3>3. /\ index'[s] <= 4 /\ part'[s][index'[s]] # 0
          /\ Fat32(s, index[s])' /\ part'[s] = part[s] /\ card' = card
      BY <1>4, <1>7, <1>8, <2>1, <2>5
    <3> QED
      BY <1>7, <2>2, <3>1, <3>2, <3>3 DEF SlotOk
  <2>7. \A r \in Slots : SlotOk(D, r)'
    BY <1>3, <1>4, <2>1, <2>2, <2>6, OtherSlots
  <2>8. \A r \in Slots : pc'[r] # "adddisk" /\ pc[r] # "adddisk" /\ pc[r] # "addpart"
    BY <1>4, <1>9, <2>2
  <2>9. LettersOk(D)'
    BY <1>3, <1>4, <2>8 DEF LettersOk
  <2>10. MountedOk(P)'
    BY <1>3, <1>4, <2>1 DEF MountedOk, Fat32
  <2>11. DisksOk(D)'
    BY <1>3, <1>4, <2>8 DEF DisksOk
  <2>12. PartitionsOk(P)'
    <3>1. Whole(next, prev, P, Partitions)
      BY <1>3, <2>8 DEF PartitionsOk
    <3>2. index[s] \in 1 .. 4 /\ index[s] \in 0 .. 4 /\ ~(index[s] < index[s])
      BY <1>1, <1>7
    <3>3. <<s, index[s]>> \notin Range(P)
      BY <1>3, <3>2 DEF MountedOk
    <3>4. <<s, index[s]>> \notin Range(D)
      <4>1. Range(D) \subseteq Slots \X {0}
        BY <1>2, Apart
      <4>2. <<s, index[s]>> \notin Slots \X {0}
        BY <3>2
      <4> QED
        BY <4>1, <4>2
    <3>5. next[<<s, index[s]>>] = Null
      <4>1. \A r \in Slots : \A i \in 0 .. 4 :
              next[<<r, i>>] = Null \/ <<r, i>> \in Range(D) \union Range(P)
        BY <1>3, <2>8 DEF Unlinked
      <4> QED
        BY <3>2, <3>3, <3>4, <4>1
    <3>6. Adding(next, prev, P, Partitions, <<s, index[s]>>, 0, last[s])
      BY <3>1, <3>5, AddingStarts
    <3>7. Adding(next', prev', P, Partitions, <<s, index'[s]>>, store'[s], last'[s])
      BY <1>4, <1>7, <2>1, <3>6
    <3> QED
      BY <1>9, <2>2, <3>7 DEF PartitionsOk
  <2>13. Unlinked(D, P)'
    <3>1. \A r \in Slots : \A i \in 0 .. 4 :
            next[<<r, i>>] = Null \/ <<r, i>> \in Range(D) \union Range(P)
      BY <1>3, <2>8 DEF Unlinked
    <3>2. next[Null] = Null
      BY <1>3 DEF Unlinked
    <3> QED
      BY <1>4, <3>1, <3>2 DEF Unlinked
  <2>14. WalksOk(D, P)'
    BY <1>9, <2>2, NoWalk
  <2>15. MountOk(D, P)'
    BY <1>3, <2>7, <2>9, <2>10, <2>11, <2>12, <2>13, <2>14 DEF MountOk
  <2> QED
    BY <2>3, <2>4, <2>15 DEF OneByOneInv
<1>11. CASE card[s].kind.entry[index[s]] # "fat32"
  <2>1. /\ pc' = [pc EXCEPT ![s] = "mount"]
        /\ index' = [index EXCEPT ![s] = index[s] + 1]
    BY <1>5, <1>11 DEF MountPartition, GoTo
  <2>2. ~Fat32(s, index[s])
    BY <1>11 DEF Fat32
  <2>3. /\ index' \in [Slots -> 1 .. 5] /\ index'[s] = index[s] + 1
        /\ \A r \in Slots \ {s} : index'[r] = index[r]
        /\ \A i \in 1 .. 4 : <<s, i>> \in Range(P) <=> i < index'[s] /\ Fat32(s, i)
    BY <1>1, <1>3, <1>7, <2>1, <2>2, Skipped
  <2>4. MountTypes'
    BY <1>1, <1>4, <2>3 DEF MountTypes, LinkTypes
  <2>5. Alone'
    BY <1>1, <1>4, <2>1, AloneNext
  <2>6. pc'[s] = "mount"
    BY <1>1, <2>1
  <2>7. SlotOk(D, s)'
    BY <1>3, <1>4, <1>6, <1>7, <1>8, <2>6 DEF SlotOk
  <2>8. MountOk(D, P)'
    <3>1. {pc[s], "mount"} \intersect {"adddisk", "addpart"} = {}
      BY <1>4
    <3>2. \A r \in Slots \ {s} : index'[r] = index[r] /\ part'[r] = part[r]
      BY <1>8, <2>3
    <3> QED
      BY <1>1, <1>2, <1>8, <2>1, <2>3, <2>7, <3>1, <3>2, QuietMount
  <2> QED
    BY <2>4, <2>5, <2>8 DEF OneByOneInv
<1> QED
  BY <1>10, <1>11

-----------------------------------------------------------------------------
LEMMA InitMount == Init => OneByOneInv
<1> SUFFICES ASSUME Init PROVE OneByOneInv
  OBVIOUS
<1> DEFINE E == <<>>
<1>1. /\ E \in Seq(Cells) /\ IsInjective(E) /\ Len(E) = 0 /\ Range(E) = {}
  BY RangeFacts DEF IsInjective, Range
<1> HIDE DEF E
<1>2. /\ next \in [Node -> Node] /\ next[Disks] = Disks /\ next[Partitions] = Partitions
      /\ prev = next /\ \A c \in Cells : next[c] = Null
      /\ next[Null] = Null
  BY Heads DEF Init
<1>3. /\ store \in [Slots -> 0 .. 4] /\ last \in [Slots -> Node]
      /\ letter \in [Slots -> Nat] /\ index \in [Slots -> 1 .. 5]
      /\ part \in [Slots -> [1 .. 4 -> Nat]]
      /\ \A s \in Slots : pc[s] = "empty" /\ store[s] = 0 /\ index[s] = 1
      /\ \A s \in Slots : \A i \in 1 .. 4 : part[s][i] = 0
  BY Heads DEF Init
<1>4. MountTypes
  BY <1>2, <1>3 DEF MountTypes, LinkTypes
<1>5. Alone
  BY <1>3 DEF Alone
<1>6. ListOf(E, Disks) /\ ListOf(E, Partitions)
  BY <1>1 DEF ListOf
<1>7. ASSUME NEW s \in Slots PROVE SlotOk(E, s)
  <2>1. "empty" \notin Late /\ "empty" \notin Counted
    BY DEF Late, Counted
  <2> QED
    BY <1>1, <1>3, <2>1 DEF SlotOk
<1>8. LettersOk(E)
  BY <1>1, <1>3 DEF LettersOk
<1>9. MountedOk(E)
  BY <1>1, <1>3 DEF MountedOk
<1>10. ASSUME NEW head \in {Disks, Partitions} PROVE Whole(next, prev, E, head)
  <2>1. \A i : Place(E, head, i) = head
    BY <1>1 DEF Place
  <2> QED
    BY <1>2, <2>1 DEF Whole, Links, Tip
<1>11. DisksOk(E) /\ PartitionsOk(E)
  BY <1>3, <1>10 DEF DisksOk, PartitionsOk
<1>12. Unlinked(E, E)
  BY <1>2 DEF Unlinked, Cells
<1>13. WalksOk(E, E)
  BY <1>3 DEF WalksOk
<1>14. MountOk(E, E)
  BY <1>6, <1>7, <1>8, <1>9, <1>11, <1>12, <1>13 DEF MountOk
<1> QED
  BY <1>4, <1>5, <1>14 DEF OneByOneInv

LEMMA NextMount ==
  ASSUME MountInv, [Next]_vars
  PROVE  MountInv'
<1>1. /\ StorageInv /\ oneByOne \in BOOLEAN
      /\ oneByOne => (\A s \in Slots : pc[s] # "fault") /\ (Running => OneByOneInv)
  BY DEF MountInv
<1>2. StorageInv'
  BY <1>1, NextStorage
<1>3. CASE UNCHANGED vars
  <2>1. /\ UNCHANGED <<card, pc, next, prev, store, last, letter, part, index>>
        /\ oneByOne' = oneByOne
    BY <1>3 DEF vars, listVars, diskVars
  <2>2. ASSUME NEW D, NEW P PROVE MountOk(D, P)' <=> MountOk(D, P)
    BY <2>1 DEF MountOk, SlotOk, Fat32, LettersOk, MountedOk, DisksOk, PartitionsOk, Unlinked,
       WalksOk
  <2>3. OneByOneInv => OneByOneInv'
    BY <2>1, <2>2 DEF OneByOneInv, MountTypes, LinkTypes, Alone
  <2>4. Running' <=> Running
    BY <2>1 DEF Running
  <2>5. oneByOne => (\A s \in Slots : pc'[s] # "fault") /\ (Running' => OneByOneInv')
    BY <1>1, <2>1, <2>3, <2>4
  <2> QED
    BY <1>1, <1>2, <2>1, <2>5 DEF MountInv
<1>4. ASSUME Running, oneByOne' = oneByOne, oneByOne => OneByOneInv' PROVE MountInv'
  <2>1. oneByOne => \A s \in Slots : pc'[s] # "fault"
    BY <1>4 DEF OneByOneInv, Alone
  <2> QED
    BY <1>1, <1>2, <1>4, <2>1 DEF MountInv
<1>5. ASSUME NEW s \in Slots, Enumerating(s) PROVE MountInv'
  <2>1. oneByOne' = oneByOne /\ Running
    BY <1>5 DEF Enumerating, CardInsert, GoToIdle, InterfaceCondition, OpCondPrefix, OpCond,
       AllCid, RelativeAddr, GetCsd, Select, ScrPrefix, GetScr, WidthPrefix, CardWidth,
       HostWidth, MbrReady, BpbReady, Send, At, diskVars
  <2>2. PICK t : Command(s, t)
    BY <1>1, <1>5, CommandShape
  <2>3. pc \in [Slots -> Steps \union {"panic", "fault"}]
    BY <1>1 DEF StorageInv, TypeCards
  <2>4. oneByOne => OneByOneInv'
    BY <1>1, <2>1, <2>2, <2>3, CommandKeeps
  <2> QED
    BY <1>4, <2>1, <2>4
<1>6. ASSUME NEW s \in Slots,
             \/ SetName(s) \/ CountDisk(s) \/ AddDisk(s) \/ FindPartitions(s)
             \/ NextPartition(s) \/ MountPartition(s) \/ AddPartition(s) \/ ListPartition(s)
      PROVE  MountInv'
  <2>1. oneByOne' = oneByOne /\ Running
    BY <1>6 DEF SetName, CountDisk, AddDisk, FindPartitions, NextPartition, MountPartition,
       AddPartition, ListPartition, At, diskVars
  <2>2. oneByOne => OneByOneInv'
    BY <1>1, <1>6, <2>1, SetNameKeeps, CountDiskKeeps, AddDiskKeeps, FindPartitionsKeeps,
       NextPartitionKeeps, MountPartitionKeeps, AddPartitionKeeps, ListPartitionKeeps
  <2> QED
    BY <1>4, <2>1, <2>2
<1>7. ASSUME NEW s \in Slots, CardRemove(s) PROVE MountInv'
  <2>1. Running /\ oneByOne' = oneByOne /\ pc' = [pc EXCEPT ![s] = "panic"]
    BY <1>7 DEF CardRemove, GoTo, diskVars
  <2>2. pc \in [Slots -> Steps \union {"panic", "fault"}]
    BY <1>1 DEF StorageInv, TypeCards
  <2>3. ~Running' /\ \A r \in Slots : pc'[r] # "fault"
    BY <2>1, <2>2 DEF Running
  <2> QED
    BY <1>1, <1>2, <2>1, <2>3 DEF MountInv
<1>8. ASSUME NEW s \in Slots, CardInsert(s) \/ CardRemove(s) \/ InitThread(s) PROVE MountInv'
  <2>1. \/ Enumerating(s) \/ CardRemove(s)
        \/ SetName(s) \/ CountDisk(s) \/ AddDisk(s) \/ FindPartitions(s)
        \/ NextPartition(s) \/ MountPartition(s) \/ AddPartition(s) \/ ListPartition(s)
    BY <1>8 DEF InitThread, Enumerating
  <2> QED
    BY <1>5, <1>6, <1>7, <2>1
<1> QED
  BY <1>3, <1>8 DEF Next, AllDone

(* What the invariant says of a card that is mounted. *)
LEMMA MountedCards == MountInv => CardIsMounted
<1> SUFFICES ASSUME MountInv, oneByOne, NEW s \in Slots
             PROVE  /\ pc[s] # "fault"
                    /\ Running /\ pc[s] = "done" =>
                         /\ <<s, 0>> \in Listed(Disks)
                         /\ Listed(Partitions) \intersect ({s} \X (1 .. 4)) = Mounted(s)
                         /\ \A i, j \in 1 .. 4 :
                              part[s][i] = part[s][j] /\ part[s][i] # 0 => i = j
                         /\ \A r \in Slots \ {s} : pc[r] = "done" => letter[r] # letter[s]
  BY DEF CardIsMounted
<1>1. pc[s] # "fault" /\ (Running => OneByOneInv)
  BY DEF MountInv
<1>2. ASSUME Running, pc[s] = "done"
      PROVE  /\ <<s, 0>> \in Listed(Disks)
             /\ Listed(Partitions) \intersect ({s} \X (1 .. 4)) = Mounted(s)
             /\ \A i, j \in 1 .. 4 : part[s][i] = part[s][j] /\ part[s][i] # 0 => i = j
             /\ \A r \in Slots \ {s} : pc[r] = "done" => letter[r] # letter[s]
  <2>1. OneByOneInv /\ Alone /\ LinkTypes
    BY <1>1, <1>2 DEF OneByOneInv, MountTypes
  <2>2. PICK D, P : MountOk(D, P)
    BY <2>1 DEF OneByOneInv
  <2>3. /\ ListOf(D, Disks) /\ ListOf(P, Partitions)
        /\ \A r \in Slots : SlotOk(D, r)
        /\ LettersOk(D) /\ MountedOk(P)
        /\ DisksOk(D) /\ PartitionsOk(P) /\ Unlinked(D, P) /\ WalksOk(D, P)
    BY <2>2, MountParts
  <2>4. /\ <<s, 0>> \in Range(D) /\ index[s] = 5
        /\ \A i, j \in 1 .. 4 : part[s][i] = part[s][j] /\ part[s][i] # 0 => i = j
    <3>1. "done" \in Late
      BY DEF Late
    <3> QED
      BY <2>3, <1>2, <3>1 DEF SlotOk
  <2>5. next[Null] = Null
    BY <2>3 DEF Unlinked
  <2>6. Range(D) \subseteq Listed(Disks)
    <3>1. CASE \A r \in Slots : pc[r] # "adddisk"
      BY <2>3, <3>1, WholeListed DEF DisksOk
    <3>2. ASSUME NEW r \in Slots, pc[r] = "adddisk" PROVE Range(D) \subseteq Listed(Disks)
      <4>1. Adding(next, prev, D, Disks, <<r, 0>>, store[r], last[r])
        BY <2>3, <3>2 DEF DisksOk
      <4>2. store[r] \in 0 .. 4 /\ <<r, 0>> \in Cells
        BY <2>1 DEF LinkTypes, Cells
      <4>3. <<r, 0>> \notin Range(D)
        <5>1. "adddisk" \in Early
          BY DEF Early, Late, Steps, Transferring
        <5> QED
          BY <2>3, <3>2, <5>1 DEF SlotOk
      <4> QED
        BY <2>3, <2>5, <4>1, <4>2, <4>3, AddingListed
    <3> QED
      BY <3>1, <3>2
  <2>7. /\ Range(P) \subseteq Listed(Partitions)
        /\ \A x \in Listed(Partitions) :
             x \in Range(P) \/ \E r \in Slots \ {s} : \E i : x = <<r, i>>
    <3>1. CASE \A r \in Slots : pc[r] # "addpart"
      <4>1. Whole(next, prev, P, Partitions)
        BY <2>3, <3>1 DEF PartitionsOk
      <4>2. Listed(Partitions) = Range(P)
        BY <2>3, <4>1, WholeListed
      <4> QED
        BY <4>2
    <3>2. ASSUME NEW r \in Slots, pc[r] = "addpart"
          PROVE  /\ Range(P) \subseteq Listed(Partitions)
                 /\ \A x \in Listed(Partitions) :
                      x \in Range(P) \/ \E q \in Slots \ {s} : \E i : x = <<q, i>>
      <4>1. Adding(next, prev, P, Partitions, <<r, index[r]>>, store[r], last[r])
        BY <2>3, <3>2 DEF PartitionsOk
      <4>2. index[r] \in 1 .. 4 /\ index[r] \in 0 .. 4 /\ ~(index[r] < index[r])
        <5>1. index[r] <= 4
          BY <2>3, <3>2 DEF SlotOk
        <5>2. index[r] \in 1 .. 5
          BY <2>1 DEF OneByOneInv, MountTypes
        <5> QED
          BY <5>1, <5>2
      <4>3. store[r] \in 0 .. 4 /\ <<r, index[r]>> \in Cells
        BY <2>1, <4>2 DEF LinkTypes, Cells
      <4>4. <<r, index[r]>> \notin Range(P)
        BY <2>3, <4>2 DEF MountedOk
      <4>5. /\ Range(P) \subseteq Listed(Partitions)
            /\ Listed(Partitions) \subseteq Range(P) \union {<<r, index[r]>>}
        BY <2>3, <2>5, <4>1, <4>3, <4>4, AddingListed
      <4>6. r \in Slots \ {s}
        BY <1>2, <3>2
      <4> QED
        BY <4>5, <4>6
    <3> QED
      BY <3>1, <3>2
  <2>8. Listed(Partitions) \intersect ({s} \X (1 .. 4)) = Mounted(s)
    <3>1. \A i \in 1 .. 4 : <<s, i>> \in Range(P) <=> Fat32(s, i)
      <4>1. \A i \in 1 .. 4 : <<s, i>> \in Range(P) <=> i < index[s] /\ Fat32(s, i)
        BY <2>3 DEF MountedOk
      <4>2. \A i \in 1 .. 4 : i < 5
        OBVIOUS
      <4> QED
        BY <2>4, <4>1, <4>2
    <3>2. \A i \in 1 .. 4 : <<s, i>> \in Listed(Partitions) <=> <<s, i>> \in Range(P)
      BY <2>7
    <3>3. \A i \in 1 .. 4 : <<s, i>> \in Listed(Partitions) <=> Fat32(s, i)
      BY <3>1, <3>2
    <3>4. Mounted(s) = {<<s, i>> : i \in {j \in 1 .. 4 : Fat32(s, j)}}
      BY DEF Mounted, Fat32
    <3> QED
      BY <3>3, <3>4
  <2>9. ASSUME NEW r \in Slots \ {s}, pc[r] = "done" PROVE letter[r] # letter[s]
    <3>1. <<r, 0>> \in Range(D)
      <4>1. "done" \in Late
        BY DEF Late
      <4> QED
        BY <2>3, <2>9, <4>1 DEF SlotOk
    <3>2. D \in Seq(Cells)
      BY <2>3, ListOfFacts
    <3>3. PICK k \in 1 .. Len(D), l \in 1 .. Len(D) : D[k] = <<r, 0>> /\ D[l] = <<s, 0>>
      BY <2>4, <3>1, <3>2, RangeFacts
    <3>4. letter[r] = k /\ letter[s] = l
      BY <2>3, <3>3 DEF LettersOk
    <3>5. r # s
      OBVIOUS
    <3> QED
      BY <3>3, <3>4, <3>5
  <2> QED
    BY <2>4, <2>6, <2>8, <2>9
<1> QED
  BY <1>1, <1>2

(* Cards that are inserted one by one: only one thread works on the lists  *)
(* at a time, and what it has stored of a list is the list that was there  *)
(* before, with the new node behind the last one or not.                   *)
THEOREM MountInvariant == Spec => []MountInv
<1>1. Init => MountInv
  <2>1. Init => oneByOne \in BOOLEAN
    BY DEF Init
  <2> QED
    BY <2>1, InitStorage, InitMount DEF MountInv, OneByOneInv, Alone
<1>2. MountInv /\ [Next]_vars => MountInv'
  BY NextMount
<1> QED
  BY <1>1, <1>2, PTL DEF Spec

(* A card that is inserted when the ones before are mounted ends with its  *)
(* disk and exactly its FAT32 partitions listed, whose numbers differ, and *)
(* with a letter that no other mounted disk has; no walk of the lists runs *)
(* into a node without links.                                              *)
THEOREM CardsAreMounted == Spec => []CardIsMounted
<1>1. MountInv => CardIsMounted
  BY MountedCards
<1> QED
  BY <1>1, MountInvariant, PTL

-----------------------------------------------------------------------------
(* Going on c cells from place n: the pages passed are those that the      *)
(* offset in the page and c make together.                                 *)
LEMMA MovedQuotient ==
  ASSUME NEW s \in Nat, s > 0, NEW n \in Nat, NEW c \in Nat
  PROVE  /\ (n + c) \div s = (n \div s) + ((n % s) + c) \div s
         /\ (n + c) % s = ((n % s) + c) % s
<1> DEFINE q == n \div s
           r == n % s
<1>1. q \in Nat /\ r \in Nat /\ r < s /\ n = s * q + r
  BY Division
<1> HIDE DEF q, r
<1> DEFINE m == r + c
<1>2. m \in Nat /\ m = r + c
  BY <1>1
<1> HIDE DEF m
<1> DEFINE d == m \div s
           e == m % s
<1>3. d \in Nat /\ e \in Nat /\ e < s /\ m = s * d + e
  BY <1>2, Division
<1> HIDE DEF d, e
<1>4. n + c = s * (q + d) + e
  <2>1. s * (q + d) = s * q + s * d
    BY <1>1, <1>3
  <2>2. s * q \in Nat /\ s * d \in Nat
    BY <1>1, <1>3
  <2> QED
    BY <1>1, <1>2, <1>3, <2>1, <2>2
<1>5. q + d \in Nat
  BY <1>1, <1>3
<1>6. (s * (q + d) + e) \div s = q + d /\ (s * (q + d) + e) % s = e
  BY <1>3, <1>5, Quotient
<1> QED
  BY <1>4, <1>6 DEF q, r, m, d, e

(* The pages of a place in its cluster, counted at once or page by page.   *)
LEMMA NestedQuotient ==
  ASSUME NEW s \in Nat, s > 0, NEW b \in Nat, b > 0, NEW n \in Nat
  PROVE  /\ n \div (s * b) = (n \div s) \div b
         /\ (n % (s * b)) \div s = (n \div s) % b
<1> DEFINE q == n \div s
           r == n % s
<1>1. q \in Nat /\ r \in Nat /\ r < s /\ n = s * q + r
  BY Division
<1> HIDE DEF q, r
<1> DEFINE h == q \div b
           k == q % b
<1>2. h \in Nat /\ k \in Nat /\ k < b /\ q = b * h + k
  BY <1>1, Division
<1> HIDE DEF h, k
<1> DEFINE t == s * b
           m == s * k + r
<1>3. t \in Nat /\ t > 0 /\ m \in Nat /\ m < t /\ n = t * h + m
  <2>1. b - k \in Nat /\ b - k >= 1 /\ b = k + (b - k)
    BY <1>2
  <2> DEFINE d == b - k
  <2>2. d \in Nat /\ d >= 1 /\ b = k + d
    BY <2>1
  <2> HIDE DEF d
  <2>3. s * b = s * k + s * d
    BY <1>2, <2>2
  <2>4. s * d >= s /\ s * k \in Nat /\ s * d \in Nat
    <3>1. d = (d - 1) + 1 /\ d - 1 \in Nat
      BY <2>2
    <3>2. s * d = s * (d - 1) + s /\ s * (d - 1) \in Nat
      BY <3>1
    <3> QED
      BY <1>2, <3>2
  <2>5. n = s * (b * h + k) + r
    BY <1>1, <1>2
  <2>6. s * (b * h + k) = (s * b) * h + s * k
    <3>1. \A x, y, z \in Nat : x * (y + z) = x * y + x * z
      OBVIOUS
    <3>2. b * h \in Nat
      BY <1>2
    <3>3. s * (b * h + k) = s * (b * h) + s * k
      BY <1>2, <3>1, <3>2
    <3>4. s * (b * h) = (s * b) * h
      BY <1>2
    <3> QED
      BY <3>3, <3>4
  <2>7. s * b \in Nat /\ s * b > 0
    BY <1>1, <2>3, <2>4
  <2>8. m \in Nat /\ m < t /\ t \in Nat /\ t > 0
    BY <1>1, <2>3, <2>4, <2>7
  <2>9. n = t * h + m
    <3>1. t * h \in Nat
      BY <1>2, <2>7
    <3> QED
      BY <1>1, <2>4, <2>5, <2>6, <3>1
  <2> QED
    BY <2>8, <2>9
<1> HIDE DEF t
<1>4. n \div t = h /\ n % t = m
  <2> HIDE DEF m
  <2> QED
    BY <1>2, <1>3, Quotient
<1>5. m \div s = k
  BY <1>1, <1>2, Quotient
<1> QED
  BY <1>4, <1>5 DEF q, r, h, k, t

(* A larger number has no smaller quotient. *)
LEMMA QuotientGrows ==
  ASSUME NEW s \in Nat, s > 0, NEW n \in Nat, NEW m \in Nat, n <= m
  PROVE  n \div s <= m \div s
<1> DEFINE q == n \div s
           r == n % s
           d == m - n
<1>1. q \in Nat /\ r \in Nat
  BY Division
<1>2. d \in Nat /\ m = n + d
  OBVIOUS
<1> HIDE DEF q, r, d
<1>3. (n + d) \div s = (n \div s) + ((n % s) + d) \div s
  BY <1>2, MovedQuotient
<1>4. (r + d) \div s \in Nat
  BY <1>1, <1>2, Division
<1> QED
  BY <1>1, <1>2, <1>3, <1>4 DEF q, r

(* g is F applied again and again, from a on, n times. *)
IsIterate(g, S, F, a, n) ==
  /\ g \in [0 .. n -> S]
  /\ g[0] = a
  /\ \A i \in 1 .. n : g[i] = F[g[i - 1]]

(* There is such a function, if F stays in S. *)
LEMMA IterateExists ==
  ASSUME NEW S, NEW F \in [S -> S], NEW a \in S
  PROVE  \A n \in Nat : \E g : IsIterate(g, S, F, a, n)
<1> DEFINE Upto(n) == \E g : IsIterate(g, S, F, a, n)
           Bad == {n \in Nat : ~ Upto(n)}
<1>1. Upto(0)
  <2>1. IsIterate([i \in 0 .. 0 |-> a], S, F, a, 0)
    BY DEF IsIterate
  <2> QED
    BY <2>1
<1>2. ASSUME NEW n \in Nat, Upto(n) PROVE Upto(n + 1)
  <2>1. PICK g : IsIterate(g, S, F, a, n)
    BY <1>2
  <2> DEFINE h == [i \in 0 .. n + 1 |-> IF i = n + 1 THEN F[g[n]] ELSE g[i]]
  <2>2. g \in [0 .. n -> S] /\ g[0] = a /\ \A i \in 1 .. n : g[i] = F[g[i - 1]]
    BY <2>1 DEF IsIterate
  <2>3. F[g[n]] \in S
    <3>1. g[n] \in S
      BY <2>2
    <3> QED
      BY <3>1
  <2>4. ASSUME NEW i \in 0 .. n + 1 PROVE h[i] \in S
    <3>1. CASE i = n + 1
      BY <2>3, <3>1
    <3>2. CASE i # n + 1
      <4>1. i \in 0 .. n
        BY <3>2
      <4> QED
        BY <2>2, <3>2, <4>1
    <3> QED
      BY <3>1, <3>2
  <2>5. h[0] = a
    BY <2>2
  <2>6. ASSUME NEW i \in 1 .. n + 1 PROVE h[i] = F[h[i - 1]]
    <3>1. i - 1 \in 0 .. n /\ i - 1 # n + 1 /\ i - 1 \in 0 .. n + 1
      OBVIOUS
    <3>2. h[i - 1] = g[i - 1]
      BY <3>1
    <3>3. h[i] = F[g[i - 1]]
      <4>1. CASE i = n + 1
        BY <4>1
      <4>2. CASE i # n + 1
        <5>1. i \in 1 .. n /\ i \in 0 .. n + 1
          BY <4>2
        <5>2. h[i] = g[i]
          BY <4>2, <5>1
        <5> QED
          BY <2>2, <5>1, <5>2
      <4> QED
        BY <4>1, <4>2
    <3> QED
      BY <3>2, <3>3
  <2>7. h \in [0 .. n + 1 -> S]
    BY <2>4
  <2> HIDE DEF h
  <2>8. IsIterate(h, S, F, a, n + 1)
    BY <2>5, <2>6, <2>7 DEF IsIterate
  <2> QED
    BY <2>8
<1>3. Bad = {}
  <2> SUFFICES ASSUME Bad # {} PROVE FALSE
    OBVIOUS
  <2>1. PICK n \in Bad : \A k \in Bad : n <= k
    BY LeastElement
  <2>2. n # 0
    BY <1>1, <2>1
  <2>3. n - 1 \in Nat /\ n - 1 \notin Bad
    BY <2>1, <2>2
  <2>4. Upto(n - 1)
    BY <2>3
  <2>5. Upto(n - 1 + 1)
    BY <1>2, <2>3, <2>4
  <2> QED
    BY <2>1, <2>5
<1> QED
  BY <1>3

(* And only one, as far as two of them go. *)
LEMMA IterateUnique ==
  ASSUME NEW S, NEW F, NEW a, NEW n \in Nat, NEW m \in Nat, NEW g, NEW h,
         IsIterate(g, S, F, a, n), IsIterate(h, S, F, a, m)
  PROVE  \A k \in Nat : k <= n /\ k <= m => g[k] = h[k]
<1> DEFINE Bad == {k \in Nat : k <= n /\ k <= m /\ g[k] # h[k]}
<1>1. /\ g[0] = a /\ \A i \in 1 .. n : g[i] = F[g[i - 1]]
      /\ h[0] = a /\ \A i \in 1 .. m : h[i] = F[h[i - 1]]
  BY DEF IsIterate
<1>2. Bad = {}
  <2> SUFFICES ASSUME Bad # {} PROVE FALSE
    OBVIOUS
  <2>1. PICK k \in Bad : \A i \in Bad : k <= i
    BY LeastElement
  <2>2. k # 0
    BY <1>1, <2>1
  <2>3. k \in 1 .. n /\ k \in 1 .. m /\ k - 1 \in Nat /\ ~ (k <= k - 1)
        /\ k - 1 <= n /\ k - 1 <= m
    BY <2>1, <2>2
  <2>4. g[k - 1] = h[k - 1]
    BY <2>1, <2>3
  <2>5. g[k] = h[k]
    BY <1>1, <2>3, <2>4
  <2> QED
    BY <2>1, <2>5
<1> QED
  BY <1>2

-----------------------------------------------------------------------------
ClustPages == 2 ^ ClustOrder

(* The clusters a chain goes through: those in use, and its end. *)
Clusts(v) == Used(v) \union {Eoc}

Onward(v, c) == IF c = Eoc THEN Eoc ELSE v.fat[c]

(* ClusterAt of a given volume. *)
LinkOf(v, c, n) ==
  LET link[i \in 0 .. n] == IF i = 0 THEN c ELSE Onward(v, link[i - 1])
  IN  link[n]

(* The page of the q-th page of what begins at cluster c. *)
PageOf(v, c, q) ==
  DataStart + (LinkOf(v, c, q \div ClustPages) - RootClust) * ClustPages
    + (q % ClustPages)

(* The chain of c has k more clusters, which the code finds. *)
RightTo(v, c, k) ==
  /\ c \in Used(v)
  /\ \A i \in 0 .. k : LinkOf(v, c, i) # Eoc
  /\ MaskIsOrder \/ \A i \in 0 .. k : LinkOf(v, c, i) = c + i

(* Sound, in pages. *)
RightAt(v, c, n) == RightTo(v, c, (n \div PageCells) \div ClustPages)

FileRec == [fileOffset : Nat, offset : Nat, page : Nat, size : Nat,
            cachePage : Nat, fatPage : Nat, err : {"none"}]

(* A file object f has its page in the cache and its offset in the page;   *)
(* the page is the one in what begins at c as far as the code can be right. *)
Placed(v, c, f) ==
  /\ f \in FileRec
  /\ f.offset = f.fileOffset % PageCells
  /\ f.page >= DataStart
  /\ f.cachePage = f.page
  /\ f.page \in DOMAIN v.cell
  /\ RightAt(v, c, f.fileOffset) => f.page = PageOf(v, c, f.fileOffset \div PageCells)

(* Where a move ends: at a place, or with an error beyond where the code   *)
(* can be right.                                                           *)
Beyond(v, c, f) == f.fileOffset \in Nat /\ ~RightAt(v, c, f.fileOffset)

Arrived(v, c, f) ==
  IF f.err = "none" THEN Placed(v, c, f)
  ELSE f.err \in {"panic", "disk"} /\ Beyond(v, c, f)

(* A call that goes on has its position, and so has the one that a         *)
(* directory is to return to; what was found is a short entry.             *)
FatInv ==
  /\ vol \in Volumes
  /\ ret \in {"opened", "compare"}
  /\ Live => Placed(vol, start, file)
  /\ call \in {"panic", "lost"} => Beyond(vol, start, file)
  /\ call \in {"name", "nameDone"} => Placed(vol, start, saved)
  /\ call = "found" => Here(file).kind = "sfn"

(* Numbers of cells and pages. *)
LEMMA FatNumbers ==
  /\ PageCells \in Nat /\ PageCells > 0
  /\ 2 ^ EntOrder \in Nat /\ 2 ^ EntOrder > 0
  /\ ClustPages \in Nat /\ ClustPages > 0
  /\ 2 ^ ClustMask \in Nat /\ 2 ^ ClustMask > 0
  /\ MaskIsOrder => ClustPages \in {1, 2} /\ 2 ^ ClustMask = ClustPages
  /\ {RootClust, FatStart, DataStart} \subseteq Nat
  /\ SeqMask \in Nat /\ SeqMask >= 5
<1>1. 2 ^ 0 = 1 /\ 2 ^ 1 = 2 /\ 1 - 1 = 0 /\ 2 - 1 = 1
  OBVIOUS
<1>2. ASSUME MaskIsOrder PROVE ClustPages \in {1, 2} /\ 2 ^ ClustMask = ClustPages
  <2>1. CASE ClustOrder = 0
    BY <1>1, <2>1 DEF ClustPages, ClustMask
  <2>2. CASE ClustOrder = 1
    BY <1>1, <2>2 DEF ClustPages, ClustMask
  <2> QED
    BY <1>2, <2>1, <2>2 DEF MaskIsOrder
<1>3. /\ {PageCells, 2 ^ EntOrder, 2 ^ ClustOrder, 2 ^ ClustMask} \subseteq Nat \ {0}
      /\ {RootClust, FatStart, DataStart} \subseteq Nat
      /\ SeqMask \in Nat /\ SeqMask >= 5
  BY FatAssumption
<1> QED
  BY <1>2, <1>3 DEF ClustPages

LEMMA VolumeFacts ==
  ASSUME NEW v \in Volumes
  PROVE  /\ RootClust \in Used(v)
         /\ Clusts(v) \subseteq Nat
         /\ \A c \in Clusts(v) : Onward(v, c) \in Clusts(v)
         /\ \A c \in Used(v) : /\ c \in Nat /\ c >= RootClust
                               /\ c \in DOMAIN v.fat
                               /\ v.fat[c] = Onward(v, c) /\ v.fat[c] >= 2
         /\ \A c \in DOMAIN v.fat : Word(v.fat[c])
         /\ v.stray = -1 \/ Word(v.stray)
         /\ DOMAIN v.cell \subseteq Nat
<1>1. /\ DOMAIN v.fat \subseteq Nat \ {Eoc} /\ RootClust \in Used(v)
      /\ \A c \in DOMAIN v.fat : Word(v.fat[c])
      /\ \A c \in Used(v) : v.fat[c] \in Used(v) \union {Eoc}
      /\ v.stray = -1 \/ Word(v.stray)
      /\ DOMAIN v.cell \subseteq Nat
      /\ Eoc \in Nat
  BY VolumeAssumption DEF Word
<1>2. \A c \in Used(v) : c \in DOMAIN v.fat /\ c >= RootClust /\ v.fat[c] >= 2
  BY DEF Used
<1>3. \A c \in Used(v) : c \in Nat /\ c # Eoc
  BY <1>1, <1>2
<1>4. \A c \in Used(v) : v.fat[c] = Onward(v, c)
  BY <1>3 DEF Onward
<1>5. ASSUME NEW c \in Clusts(v) PROVE c \in Nat /\ Onward(v, c) \in Clusts(v)
  <2>1. CASE c = Eoc
    BY <1>1, <2>1 DEF Clusts, Onward
  <2>2. CASE c # Eoc
    <3>1. c \in Used(v)
      BY <2>2 DEF Clusts
    <3> QED
      BY <1>1, <1>3, <2>2, <3>1 DEF Clusts, Onward
  <2> QED
    BY <2>1, <2>2
<1> QED
  BY <1>1, <1>2, <1>3, <1>4, <1>5

(* The cluster at a number is the last of a chain of so many links. *)
LEMMA LinkIsIterate ==
  ASSUME NEW v \in Volumes, NEW c \in Used(v), NEW n \in Nat
  PROVE  \E g : /\ IsIterate(g, Clusts(v), [x \in Clusts(v) |-> Onward(v, x)], c, n)
                /\ LinkOf(v, c, n) = g[n]
<1> DEFINE S == Clusts(v)
           F == [x \in S |-> Onward(v, x)]
<1>1. F \in [S -> S] /\ c \in S
  BY VolumeFacts DEF Clusts
<1>2. \A x \in S : F[x] = Onward(v, x)
  OBVIOUS
<1> HIDE DEF F, S
<1>3. PICK g : IsIterate(g, S, F, c, n)
  BY <1>1, IterateExists
<1>4. g \in [0 .. n -> S] /\ g[0] = c /\ \A i \in 1 .. n : g[i] = F[g[i - 1]]
  BY <1>3 DEF IsIterate
<1>5. ASSUME NEW i \in 0 .. n
      PROVE  g[i] = IF i = 0 THEN c ELSE Onward(v, g[i - 1])
  <2>1. CASE i = 0
    BY <1>4, <2>1
  <2>2. CASE i # 0
    <3>1. i \in 1 .. n /\ i - 1 \in 0 .. n
      BY <2>2
    <3>2. g[i] = F[g[i - 1]] /\ g[i - 1] \in S
      BY <1>4, <3>1
    <3> QED
      BY <1>2, <2>2, <3>2
  <2> QED
    BY <2>1, <2>2
<1>6. g = [i \in 0 .. n |-> g[i]]
  BY <1>4
<1>7. g = [i \in 0 .. n |-> IF i = 0 THEN c ELSE Onward(v, g[i - 1])]
  <2> HIDE DEF Onward
  <2> QED
    BY <1>5, <1>6
<1> DEFINE link == CHOOSE h : h = [i \in 0 .. n |-> IF i = 0 THEN c ELSE Onward(v, h[i - 1])]
<1>8. link = [i \in 0 .. n |-> IF i = 0 THEN c ELSE Onward(v, link[i - 1])]
  BY <1>7
<1>9. LinkOf(v, c, n) = link[n]
  BY DEF LinkOf
<1> HIDE DEF link
<1>10. link[0] = c /\ \A i \in 1 .. n : link[i] = Onward(v, link[i - 1])
  BY <1>8
<1> DEFINE Bad == {k \in Nat : k <= n /\ link[k] # g[k]}
<1>11. Bad = {}
  <2> SUFFICES ASSUME Bad # {} PROVE FALSE
    OBVIOUS
  <2>1. PICK k \in Bad : \A i \in Bad : k <= i
    BY LeastElement
  <2>2. k # 0
    BY <1>4, <1>10, <2>1
  <2>3. k \in 1 .. n /\ k - 1 \in Nat /\ ~ (k <= k - 1) /\ k - 1 <= n /\ k \in 0 .. n
    BY <2>1, <2>2
  <2>4. link[k - 1] = g[k - 1]
    BY <2>1, <2>3
  <2>5. link[k] = g[k]
    BY <1>5, <1>10, <2>2, <2>3, <2>4
  <2> QED
    BY <2>1, <2>5
<1>12. link[n] = g[n]
  BY <1>11
<1> QED
  BY <1>3, <1>9, <1>12 DEF F, S

LEMMA ChainOfClusters ==
  ASSUME NEW v \in Volumes, NEW c \in Used(v)
  PROVE  /\ LinkOf(v, c, 0) = c
         /\ \A n \in Nat : LinkOf(v, c, n) \in Clusts(v)
         /\ \A n \in Nat : LinkOf(v, c, n + 1) = Onward(v, LinkOf(v, c, n))
<1> DEFINE S == Clusts(v)
           F == [x \in S |-> Onward(v, x)]
<1>1. \A x \in S : F[x] = Onward(v, x)
  OBVIOUS
<1>2. ASSUME NEW n \in Nat
      PROVE  \E g : IsIterate(g, S, F, c, n) /\ LinkOf(v, c, n) = g[n]
  BY LinkIsIterate
<1> HIDE DEF F, S
<1>3. LinkOf(v, c, 0) = c
  BY <1>2 DEF IsIterate
<1>4. ASSUME NEW n \in Nat PROVE LinkOf(v, c, n) \in S
  <2>1. PICK g : IsIterate(g, S, F, c, n) /\ LinkOf(v, c, n) = g[n]
    BY <1>2
  <2> QED
    BY <2>1 DEF IsIterate
<1>5. ASSUME NEW n \in Nat PROVE LinkOf(v, c, n + 1) = Onward(v, LinkOf(v, c, n))
  <2>1. PICK g : IsIterate(g, S, F, c, n) /\ LinkOf(v, c, n) = g[n]
    BY <1>2
  <2>2. n + 1 \in Nat
    OBVIOUS
  <2>3. PICK h : IsIterate(h, S, F, c, n + 1) /\ LinkOf(v, c, n + 1) = h[n + 1]
    BY <1>2, <2>2
  <2>4. n <= n /\ n <= n + 1
    OBVIOUS
  <2>5. g[n] = h[n]
    BY <2>1, <2>2, <2>3, <2>4, IterateUnique
  <2>6. h[n + 1] = F[h[n]]
    <3>1. n + 1 \in 1 .. n + 1 /\ (n + 1) - 1 = n
      OBVIOUS
    <3> QED
      BY <2>3, <3>1 DEF IsIterate
  <2>7. h[n] \in S
    BY <1>4, <2>1, <2>5
  <2> QED
    BY <1>1, <2>1, <2>3, <2>5, <2>6, <2>7
<1> QED
  BY <1>3, <1>4, <1>5 DEF S

LEMMA ClusterIsLink ==
  ASSUME NEW c, NEW n
  PROVE  ClusterAt(c, n) = LinkOf(vol, c, n)
BY DEF ClusterAt, LinkOf, Onward

(* The links up to a place are clusters in use. *)
LEMMA RightLinks ==
  ASSUME NEW v \in Volumes, NEW c, NEW k \in Nat, RightTo(v, c, k)
  PROVE  \A i \in 0 .. k : LinkOf(v, c, i) \in Used(v) /\ RightTo(v, c, i)
<1>1. c \in Used(v) /\ \A i \in 0 .. k : LinkOf(v, c, i) # Eoc
  BY DEF RightTo
<1> TAKE i \in 0 .. k
<1>2. i \in Nat /\ i \in 0 .. k /\ 0 .. i \subseteq 0 .. k
  OBVIOUS
<1>3. LinkOf(v, c, i) \in Clusts(v)
  BY <1>1, <1>2, ChainOfClusters
<1> QED
  BY <1>1, <1>2, <1>3 DEF Clusts, RightTo

-----------------------------------------------------------------------------
(* What follow_cluster_chain carries from round to round. *)
Progress ==
  {p \in [clust : Nat, fatPage : Nat, err : {"none", "panic", "disk"}] :
     p.err = "none" => p.clust >= RootClust}

(* The entry of a cluster in use is no error, and leads on. *)
LEMMA FollowOnceStep ==
  ASSUME vol \in Volumes, NEW p \in Progress
  PROVE  /\ FollowOnce(p) \in Progress
         /\ p.err = "none" /\ p.clust \in Used(vol) =>
              FollowOnce(p).err = "none" /\ FollowOnce(p).clust = Onward(vol, p.clust)
<1> DEFINE page == FatStart + p.clust \div 2 ^ EntOrder
           idx == p.clust % 2 ^ EntOrder
           ent == FatEntry(page, idx)
           res == FollowOnce(p)
<1>0. res = IF p.err # "none" THEN p
            ELSE IF ent = -1 THEN [p EXCEPT !.err = "panic"]
            ELSE IF ent < 2 THEN [p EXCEPT !.fatPage = page, !.err = "disk"]
            ELSE [clust |-> ent, fatPage |-> page, err |-> "none"]
  BY DEF FollowOnce
<1>1. /\ p \in [clust : Nat, fatPage : Nat, err : {"none", "panic", "disk"}]
      /\ p.err = "none" => p.clust >= RootClust
  BY DEF Progress
<1>2. /\ p.clust \div 2 ^ EntOrder \in Nat /\ idx \in Nat
      /\ p.clust = 2 ^ EntOrder * (p.clust \div 2 ^ EntOrder) + idx
  <2>1. p.clust \in Nat /\ 2 ^ EntOrder \in Nat /\ 2 ^ EntOrder > 0
    BY <1>1, FatNumbers
  <2> QED
    BY <2>1, Division
<1>3. page \in Nat
  BY <1>2, FatNumbers
<1>4. ent = IF p.clust \in DOMAIN vol.fat THEN vol.fat[p.clust] ELSE vol.stray
  <2> DEFINE e == 2 ^ EntOrder
             q == p.clust \div e
             at == (page - FatStart) * e + idx
  <2>1. q \in Nat /\ idx \in Nat /\ p.clust = e * q + idx /\ e \in Nat /\ FatStart \in Nat
    BY <1>2, FatNumbers
  <2>2. page = FatStart + q
    OBVIOUS
  <2>3. ent = IF at \in DOMAIN vol.fat THEN vol.fat[at] ELSE vol.stray
    BY DEF FatEntry
  <2> HIDE DEF page, q, idx, ent, e
  <2>4. (page - FatStart) * e = e * q
    BY <2>1, <2>2
  <2>5. at = p.clust
    BY <2>1, <2>4
  <2> HIDE DEF at
  <2> QED
    BY <2>3, <2>5
<1>5. ent = -1 \/ (ent \in Nat /\ (ent < 2 \/ ent >= RootClust))
  BY <1>4, VolumeFacts DEF Word
<1> HIDE DEF page, idx, ent, res
<1>6. CASE p.err # "none"
  <2>1. res = p
    BY <1>0, <1>6, Zenon
  <2> QED
    BY <1>6, <2>1 DEF res
<1>7. CASE p.err = "none" /\ ent = -1
  <2>1. res = [p EXCEPT !.err = "panic"]
    BY <1>0, <1>7, Zenon
  <2>2. /\ res \in [clust : Nat, fatPage : Nat, err : {"none", "panic", "disk"}]
        /\ res.err = "panic"
    BY <1>1, <2>1
  <2>3. p.clust \notin Used(vol)
    <3> SUFFICES ASSUME p.clust \in Used(vol) PROVE FALSE
      OBVIOUS
    <3>1. vol.fat[p.clust] >= 2 /\ p.clust \in DOMAIN vol.fat
      BY VolumeFacts
    <3> QED
      BY <1>4, <1>7, <3>1
  <2> QED
    BY <2>2, <2>3 DEF res, Progress
<1>8. CASE p.err = "none" /\ ent # -1 /\ ent < 2
  <2>1. res = [p EXCEPT !.fatPage = page, !.err = "disk"]
    BY <1>0, <1>8
  <2>2. /\ res \in [clust : Nat, fatPage : Nat, err : {"none", "panic", "disk"}]
        /\ res.err = "disk"
    BY <1>1, <1>3, <2>1
  <2>3. p.clust \notin Used(vol)
    <3> SUFFICES ASSUME p.clust \in Used(vol) PROVE FALSE
      OBVIOUS
    <3>1. vol.fat[p.clust] >= 2 /\ p.clust \in DOMAIN vol.fat
      BY VolumeFacts
    <3> QED
      BY <1>4, <1>5, <1>8, <3>1
  <2> QED
    BY <2>2, <2>3 DEF res, Progress
<1>9. CASE p.err = "none" /\ ent # -1 /\ ~ (ent < 2)
  <2>1. res = [clust |-> ent, fatPage |-> page, err |-> "none"]
    BY <1>0, <1>9
  <2>2. ent \in Nat /\ ent >= RootClust
    BY <1>5, <1>9
  <2>3. /\ res \in [clust : Nat, fatPage : Nat, err : {"none", "panic", "disk"}]
        /\ res.err = "none" /\ res.clust = ent
    BY <1>3, <2>1, <2>2
  <2>4. p.clust \in Used(vol) => ent = Onward(vol, p.clust)
    BY <1>4, VolumeFacts
  <2> QED
    BY <2>2, <2>3, <2>4 DEF res, Progress
<1> QED
  BY <1>6, <1>7, <1>8, <1>9

(* The rounds of follow_cluster_chain. *)
Rounds(step, f, clust, count) ==
  /\ step[0] = [clust |-> clust, fatPage |-> f.fatPage, err |-> "none"]
  /\ \A i \in 1 .. count : step[i] = FollowOnce(step[i - 1])
  /\ \A i \in 0 .. count : step[i] \in Progress
  /\ FollowChain(f, clust, count) = step[count]

LEMMA FollowChainRounds ==
  ASSUME vol \in Volumes, NEW clust \in Nat, clust >= RootClust,
         NEW count \in Nat, NEW f, f.fatPage \in Nat
  PROVE  \E step : Rounds(step, f, clust, count)
<1> DEFINE S == Progress
           F == [p \in S |-> FollowOnce(p)]
           a == [clust |-> clust, fatPage |-> f.fatPage, err |-> "none"]
<1>1. a \in S
  BY DEF Progress
<1>2. F \in [S -> S] /\ \A p \in S : F[p] = FollowOnce(p)
  BY FollowOnceStep
<1> DEFINE step == CHOOSE h : h = [i \in 0 .. count |-> IF i = 0 THEN a
                                                        ELSE FollowOnce(h[i - 1])]
<1>3. FollowChain(f, clust, count) = step[count]
  BY DEF FollowChain
<1>a. a = [clust |-> clust, fatPage |-> f.fatPage, err |-> "none"]
  OBVIOUS
<1> HIDE DEF F, S, a
<1>4. PICK g : IsIterate(g, S, F, a, count)
  BY <1>1, <1>2, IterateExists
<1>5. g \in [0 .. count -> S] /\ g[0] = a /\ \A i \in 1 .. count : g[i] = F[g[i - 1]]
  BY <1>4 DEF IsIterate
<1>6. ASSUME NEW i \in 0 .. count
      PROVE  g[i] = IF i = 0 THEN a ELSE FollowOnce(g[i - 1])
  <2>1. CASE i = 0
    BY <1>5, <2>1
  <2>2. CASE i # 0
    <3>1. i \in 1 .. count /\ i - 1 \in 0 .. count
      BY <2>2
    <3>2. g[i] = F[g[i - 1]] /\ g[i - 1] \in S
      BY <1>5, <3>1
    <3> QED
      BY <1>2, <2>2, <3>2
  <2> QED
    BY <2>1, <2>2
<1>7. g = [i \in 0 .. count |-> IF i = 0 THEN a ELSE FollowOnce(g[i - 1])]
  <2>1. g = [i \in 0 .. count |-> g[i]]
    BY <1>5
  <2> QED
    BY <1>6, <2>1
<1>8. step = [i \in 0 .. count |-> IF i = 0 THEN a ELSE FollowOnce(step[i - 1])]
  BY <1>7
<1> HIDE DEF step
<1>9. step[0] = a /\ \A i \in 1 .. count : step[i] = FollowOnce(step[i - 1])
  BY <1>8
<1> DEFINE Bad == {i \in Nat : i <= count /\ step[i] \notin S}
<1>10. Bad = {}
  <2> SUFFICES ASSUME Bad # {} PROVE FALSE
    OBVIOUS
  <2>1. PICK n \in Bad : \A i \in Bad : n <= i
    BY LeastElement
  <2>2. n # 0
    BY <1>1, <1>9, <2>1
  <2>3. n \in 1 .. count /\ n - 1 \in Nat /\ ~ (n <= n - 1) /\ n - 1 <= count
    BY <2>1, <2>2
  <2>4. step[n - 1] \in S
    BY <2>1, <2>3
  <2>5. step[n] = FollowOnce(step[n - 1])
    BY <1>9, <2>3
  <2>6. FollowOnce(step[n - 1]) \in S
    BY <2>4, FollowOnceStep DEF S
  <2> QED
    BY <2>1, <2>5, <2>6
<1>11. \A i \in 0 .. count : step[i] \in Progress
  BY <1>10 DEF S
<1> QED
  BY <1>3, <1>9, <1>11, <1>a DEF Rounds

(* follow_cluster_chain goes along the chain where that leads on. *)
LEMMA FollowChainLinks ==
  ASSUME vol \in Volumes, NEW clust \in Nat, clust >= RootClust,
         NEW count \in Nat, NEW f, f.fatPage \in Nat
  PROVE  /\ FollowChain(f, clust, count) \in Progress
         /\ \A c, k : k \in Nat /\ RightTo(vol, c, k + count) /\ clust = LinkOf(vol, c, k) =>
              /\ FollowChain(f, clust, count).err = "none"
              /\ FollowChain(f, clust, count).clust = LinkOf(vol, c, k + count)
<1>1. PICK step : Rounds(step, f, clust, count)
  BY FollowChainRounds
<1>2. /\ step[0] = [clust |-> clust, fatPage |-> f.fatPage, err |-> "none"]
      /\ \A i \in 1 .. count : step[i] = FollowOnce(step[i - 1])
      /\ \A i \in 0 .. count : step[i] \in Progress
      /\ FollowChain(f, clust, count) = step[count]
  BY <1>1 DEF Rounds
<1>3. FollowChain(f, clust, count) \in Progress
  BY <1>2
<1>4. ASSUME NEW c, NEW k \in Nat, RightTo(vol, c, k + count), clust = LinkOf(vol, c, k)
      PROVE  step[count].err = "none" /\ step[count].clust = LinkOf(vol, c, k + count)
  <2> DEFINE Good(i) == step[i].err = "none" /\ step[i].clust = LinkOf(vol, c, k + i)
             Bad == {i \in Nat : i <= count /\ ~ Good(i)}
  <2>1. Bad = {}
    <3> SUFFICES ASSUME Bad # {} PROVE FALSE
      OBVIOUS
    <3>1. PICK n \in Bad : \A i \in Bad : n <= i
      BY LeastElement
    <3>2. n # 0
      <4>1. k + 0 = k
        OBVIOUS
      <4>2. Good(0)
        BY <1>2, <1>4, <4>1
      <4> HIDE DEF Good
      <4> QED
        BY <3>1, <4>2
    <3>3. n \in 1 .. count /\ n - 1 \in Nat /\ ~ (n <= n - 1) /\ n - 1 <= count
          /\ n - 1 \in 0 .. count
      BY <3>1, <3>2
    <3>4. Good(n - 1)
      BY <3>1, <3>3
    <3>5. step[n] = FollowOnce(step[n - 1]) /\ step[n - 1] \in Progress
      BY <1>2, <3>3
    <3> DEFINE j == k + (n - 1)
    <3>6. j \in Nat /\ j + 1 = k + n /\ j \in 0 .. k + count /\ k + count \in Nat
      BY <3>3
    <3> HIDE DEF j
    <3>7. LinkOf(vol, c, j) \in Used(vol) /\ c \in Used(vol)
      <4>1. c \in Used(vol)
        BY <1>4 DEF RightTo
      <4> QED
        BY <1>4, <3>6, <4>1, RightLinks
    <3>8. step[n - 1].err = "none" /\ step[n - 1].clust = LinkOf(vol, c, j)
      BY <3>4 DEF j
    <3>9. step[n].err = "none" /\ step[n].clust = Onward(vol, LinkOf(vol, c, j))
      BY <3>5, <3>7, <3>8, FollowOnceStep
    <3>10. LinkOf(vol, c, j + 1) = Onward(vol, LinkOf(vol, c, j))
      BY <3>6, <3>7, ChainOfClusters
    <3>11. Good(n)
      BY <3>6, <3>9, <3>10
    <3> QED
      BY <3>1, <3>11
  <2>2. Good(count)
    <3> HIDE DEF Good
    <3> QED
      BY <2>1
  <2> QED
    BY <2>2
<1>5. ASSUME NEW c, NEW k, k \in Nat, RightTo(vol, c, k + count), clust = LinkOf(vol, c, k)
      PROVE  step[count].err = "none" /\ step[count].clust = LinkOf(vol, c, k + count)
  BY <1>4, <1>5
<1> QED
  BY <1>2, <1>3, <1>5

(* A page of a cluster in use is on the disk. *)
LEMMA PageOnDisk ==
  ASSUME NEW v \in Volumes, NEW c, NEW q \in Nat, RightTo(v, c, q \div ClustPages)
  PROVE  PageOf(v, c, q) \in DOMAIN v.cell
<1> DEFINE k == q \div ClustPages
           r == q % ClustPages
<1>1. k \in Nat /\ r \in Nat /\ r < ClustPages /\ ClustPages \in Nat
  BY FatNumbers, Division
<1>2. LinkOf(v, c, k) \in Used(v)
  <2> HIDE DEF k
  <2>1. RightTo(v, c, k)
    BY DEF k
  <2>2. k \in 0 .. k
    BY <1>1
  <2> QED
    BY <1>1, <2>1, <2>2, RightLinks
<1>3. r \in 0 .. ClustMask
  BY <1>1 DEF ClustMask, ClustPages
<1>4. DataStart + (LinkOf(v, c, k) - RootClust) * 2 ^ ClustOrder + r \in DOMAIN v.cell
  <2> HIDE DEF k, r
  <2> QED
    BY <1>2, <1>3, VolumeAssumption
<1> QED
  BY <1>4 DEF PageOf, ClustPages

(* A file object that is at its offset, but for the page in the cache. *)
Aimed(v, c, f) ==
  /\ f \in FileRec
  /\ f.offset = f.fileOffset % PageCells
  /\ f.page >= DataStart
  /\ RightAt(v, c, f.fileOffset) => f.page = PageOf(v, c, f.fileOffset \div PageCells)

LEMMA CachedArrives ==
  ASSUME vol \in Volumes, NEW c, NEW f, Aimed(vol, c, f)
  PROVE  Arrived(vol, c, Cached(f))
<1>1. f \in FileRec
  BY DEF Aimed
<1>2. CASE f.page \in DOMAIN vol.cell
  <2>1. Cached(f) = [f EXCEPT !.cachePage = f.page]
    BY <1>2 DEF Cached
  <2>2. Cached(f) \in FileRec /\ Cached(f).cachePage = f.page
        /\ Cached(f).page = f.page /\ Cached(f).offset = f.offset
        /\ Cached(f).fileOffset = f.fileOffset /\ Cached(f).err = "none"
    BY <1>1, <2>1 DEF FileRec
  <2> QED
    BY <1>2, <2>2 DEF Aimed, Placed, Arrived
<1>3. CASE f.page \notin DOMAIN vol.cell
  <2>1. Cached(f) = [f EXCEPT !.err = "panic"]
    BY <1>3 DEF Cached
  <2>2. /\ Cached(f).err = "panic" /\ Cached(f).fileOffset = f.fileOffset
        /\ f.fileOffset \in Nat
    BY <1>1, <2>1 DEF FileRec
  <2>3. ~ RightAt(vol, c, f.fileOffset)
    <3> SUFFICES ASSUME RightAt(vol, c, f.fileOffset) PROVE FALSE
      OBVIOUS
    <3>1. f.fileOffset \div PageCells \in Nat
      <4>1. f.fileOffset \in Nat
        BY <1>1 DEF FileRec
      <4> QED
        BY <4>1, FatNumbers, Division
    <3>2. PageOf(vol, c, f.fileOffset \div PageCells) \in DOMAIN vol.cell
      BY <3>1, PageOnDisk DEF RightAt
    <3> QED
      BY <1>3, <3>2 DEF Aimed
  <2> QED
    BY <2>2, <2>3 DEF Arrived, Beyond
<1> QED
  BY <1>2, <1>3

(* The cluster and the page a move comes to, from page q of what begins at *)
(* cluster c over inc pages: the numbers the code computes from the page.  *)
LEMMA PagesMoved ==
  ASSUME MaskIsOrder, NEW v \in Volumes, NEW c \in Used(v), NEW q \in Nat, NEW inc \in Nat,
         NEW rel, rel = PageOf(v, c, q) - DataStart,
         NEW cnt, cnt = ((rel % 2 ^ ClustOrder) + inc) \div 2 ^ ClustMask,
         LinkOf(v, c, q \div ClustPages) \in Used(v)
  PROVE  /\ rel \div 2 ^ ClustMask + RootClust = LinkOf(v, c, q \div ClustPages)
         /\ cnt \in Nat
         /\ (q + inc) \div ClustPages = q \div ClustPages + cnt
         /\ (rel + inc) % 2 ^ ClustOrder = (q + inc) % ClustPages
         /\ cnt = 0 => PageOf(v, c, q + inc) = PageOf(v, c, q) + inc
<1>1. /\ ClustPages \in {1, 2} /\ RootClust \in Nat /\ DataStart \in Nat
      /\ 2 ^ ClustMask = ClustPages /\ 2 ^ ClustOrder = ClustPages
  BY FatNumbers DEF ClustPages
<1> DEFINE b == ClustPages
           h == q \div b
           r == q % b
           k == LinkOf(v, c, h)
<1>2. h \in Nat /\ r \in Nat /\ r < b /\ q = b * h + r
  <2>1. b \in Nat /\ b > 0
    BY <1>1
  <2> QED
    BY <2>1, Division
<1>3. k \in Nat /\ k >= RootClust
  BY VolumeFacts
<1>4. rel = (k - RootClust) * b + r
  <2>1. PageOf(v, c, q) = DataStart + (k - RootClust) * b + r
    BY DEF PageOf
  <2>2. (k - RootClust) * b \in Nat
    <3> HIDE DEF k, b
    <3>1. b \in Nat
      BY <1>1 DEF b
    <3> QED
      BY <1>1, <1>3, <3>1
  <2> HIDE DEF k, b, r
  <2> QED
    BY <1>1, <1>2, <2>1, <2>2
<1>5. cnt = ((rel % b) + inc) \div b
  BY <1>1
<1>6. b \in {1, 2}
  BY <1>1
<1>p. ASSUME NEW j \in Nat
      PROVE  PageOf(v, c, j) = DataStart + (LinkOf(v, c, j \div b) - RootClust) * b + (j % b)
  BY DEF PageOf
<1>k. k = LinkOf(v, c, h)
  OBVIOUS
<1> HIDE DEF b, h, r, k
<1>7. rel \in Nat /\ rel \div b + RootClust = k /\ rel % b = r
  <2>1. k - RootClust \in Nat /\ b \in Nat /\ b > 0
    BY <1>1, <1>3, <1>6
  <2>2. b * (k - RootClust) = (k - RootClust) * b /\ b * (k - RootClust) \in Nat
    BY <2>1
  <2>3. rel = b * (k - RootClust) + r
    BY <1>4, <2>2
  <2>4. (b * (k - RootClust) + r) \div b = k - RootClust
        /\ (b * (k - RootClust) + r) % b = r
    BY <1>2, <2>1, Quotient
  <2> QED
    BY <1>1, <1>2, <1>3, <2>2, <2>3, <2>4
<1>8. cnt = (r + inc) \div b /\ cnt \in Nat
  <2>1. cnt = (r + inc) \div b
    BY <1>5, <1>7
  <2>2. r + inc \in Nat /\ b \in Nat /\ b > 0
    BY <1>2, <1>6
  <2> QED
    BY <2>1, <2>2, Division
<1>9. (q + inc) \div b = h + cnt /\ (q + inc) % b = (r + inc) % b
  <2>1. b \in Nat /\ b > 0
    BY <1>6
  <2>2. /\ (q + inc) \div b = (q \div b) + ((q % b) + inc) \div b
        /\ (q + inc) % b = ((q % b) + inc) % b
    BY <2>1, MovedQuotient
  <2> QED
    BY <1>8, <2>2 DEF h, r
<1>10. (rel + inc) % b = (r + inc) % b
  <2>1. b \in Nat /\ b > 0
    BY <1>6
  <2>2. (rel + inc) % b = ((rel % b) + inc) % b
    BY <1>7, <2>1, MovedQuotient
  <2> QED
    BY <1>7, <2>2
<1>11. ASSUME cnt = 0 PROVE PageOf(v, c, q + inc) = PageOf(v, c, q) + inc
  <2>1. r + inc < b /\ (r + inc) % b = r + inc
    <3>1. r + inc \in Nat /\ b \in Nat /\ b > 0
      BY <1>2, <1>6
    <3>2. r + inc = b * ((r + inc) \div b) + ((r + inc) % b) /\ (r + inc) % b < b
          /\ (r + inc) % b \in Nat
      BY <3>1, Division
    <3>3. b * ((r + inc) \div b) = 0
      BY <1>8, <1>11, <3>1
    <3> QED
      BY <3>1, <3>2, <3>3
  <2>2. q \div b = h /\ q % b = r
    BY DEF h, r
  <2>3. PageOf(v, c, q) = DataStart + (k - RootClust) * b + r
    BY <1>p, <1>k, <2>2
  <2>4. (q + inc) \div b = h /\ (q + inc) % b = r + inc
    BY <1>2, <1>9, <1>11, <2>1
  <2>5. PageOf(v, c, q + inc) = DataStart + (k - RootClust) * b + (r + inc)
    <3>1. q + inc \in Nat
      OBVIOUS
    <3> QED
      BY <1>p, <1>k, <2>4, <3>1
  <2>6. (k - RootClust) * b \in Nat
    BY <1>1, <1>3, <1>6
  <2> QED
    BY <1>1, <1>2, <2>3, <2>5, <2>6
<1> QED
  BY <1>1, <1>7, <1>8, <1>9, <1>10, <1>11 DEF b, h, k

(* Over larger clusters, a move does not come to what the code takes for   *)
(* the end of a cluster.                                                   *)
LEMMA NoClusterEnds ==
  ASSUME ~MaskIsOrder, NEW rel \in Nat, NEW o \in Nat, o < PageCells,
         NEW cells \in 0 .. SeqMask
  PROVE  ((rel % 2 ^ ClustOrder) + (o + cells) \div PageCells) \div 2 ^ ClustMask = 0
<1> DEFINE P == PageCells
           b == 2 ^ ClustOrder
           m == 2 ^ ClustMask
           r == rel % b
           i == (o + cells) \div P
           most == (P - 1 + SeqMask) \div P
<1>1. P \in Nat /\ P > 0 /\ b \in Nat /\ b > 0 /\ m \in Nat /\ m > 0 /\ SeqMask \in Nat
  BY FatNumbers DEF ClustPages
<1>2. ClustMask + (PageMask + SeqMask) \div PageCells < 2 ^ ClustMask
  BY FatAssumption
<1>3. ClustMask = b - 1 /\ PageMask = P - 1
  BY DEF ClustMask, PageMask
<1>4. r \in Nat /\ r <= b - 1
  <2>1. r \in Nat /\ r < b
    BY <1>1, Division
  <2> HIDE DEF r, b
  <2> QED
    BY <1>1, <2>1
<1>5. i \in Nat /\ most \in Nat /\ i <= most
  <2> HIDE DEF P
  <2>1. o + cells \in Nat /\ P - 1 + SeqMask \in Nat /\ o + cells <= P - 1 + SeqMask
    BY <1>1 DEF P
  <2> QED
    BY <1>1, <2>1, Division, QuotientGrows
<1>6. b - 1 + most < m
  BY <1>2, <1>3
<1> HIDE DEF P, b, m, r, i, most
<1>7. r + i \in Nat /\ r + i < m
  BY <1>1, <1>4, <1>5, <1>6
<1>8. (m * 0 + (r + i)) \div m = 0
  BY <1>1, <1>7, Quotient
<1>9. m * 0 + (r + i) = r + i
  BY <1>1, <1>7
<1>10. (r + i) \div m = 0
  BY <1>8, <1>9
<1> QED
  BY <1>10 DEF P, b, m, r, i

(* Clusters in a row have their pages in a row. *)
LEMMA RowOfPages ==
  ASSUME NEW v \in Volumes, NEW c \in Used(v), NEW q \in Nat,
         LinkOf(v, c, q \div ClustPages) = c + q \div ClustPages
  PROVE  PageOf(v, c, q) = DataStart + (c - RootClust) * ClustPages + q
<1> DEFINE b == ClustPages
           k == q \div b
           r == q % b
<1>1. b \in Nat /\ b > 0 /\ RootClust \in Nat /\ DataStart \in Nat
  BY FatNumbers
<1>2. k \in Nat /\ r \in Nat /\ q = b * k + r
  BY <1>1, Division
<1>3. c \in Nat /\ c >= RootClust
  BY VolumeFacts
<1>4. PageOf(v, c, q) = DataStart + ((c + k) - RootClust) * b + r
  BY DEF PageOf
<1> HIDE DEF b, k, r
<1> DEFINE d == c - RootClust
<1>5. d \in Nat /\ (c + k) - RootClust = d + k
  BY <1>1, <1>2, <1>3
<1> HIDE DEF d
<1>6. (d + k) * b = d * b + b * k /\ d * b \in Nat /\ b * k \in Nat
  BY <1>1, <1>2, <1>5
<1>7. PageOf(v, c, q) = DataStart + d * b + q
  BY <1>1, <1>2, <1>4, <1>5, <1>6
<1> QED
  BY <1>7 DEF b, d

(* The page and the cluster of a move that the code makes right.           *)
LEMMA RightMove ==
  ASSUME vol \in Volumes, NEW c, NEW f, Placed(vol, c, f), NEW cells \in 0 .. SeqMask,
         RightAt(vol, c, f.fileOffset + cells),
         NEW inc, inc = (f.offset + cells) \div PageCells,
         NEW rel, rel = f.page - DataStart,
         NEW cnt, cnt = ((rel % 2 ^ ClustOrder) + inc) \div 2 ^ ClustMask,
         NEW chain, chain = FollowChain(f, rel \div 2 ^ ClustMask + RootClust, cnt)
  PROVE  /\ RightAt(vol, c, f.fileOffset)
         /\ cnt > 0 => chain.err = "none"
         /\ PageOf(vol, c, (f.fileOffset + cells) \div PageCells) =
              IF cnt = 0 THEN f.page + inc
              ELSE DataStart + (chain.clust - RootClust) * 2 ^ ClustMask
                     + ((rel + inc) % 2 ^ ClustOrder)
<1> DEFINE n == f.fileOffset
           q == n \div PageCells
           b == ClustPages
           k == q \div b
           k2 == (q + inc) \div b
<1>1. /\ PageCells \in Nat /\ PageCells > 0 /\ DataStart \in Nat /\ RootClust \in Nat
      /\ b \in Nat /\ b > 0 /\ b = 2 ^ ClustOrder /\ 2 ^ ClustMask \in Nat /\ 2 ^ ClustMask > 0
      /\ cells \in Nat
  BY FatNumbers DEF ClustPages
<1>2. /\ n \in Nat /\ f.offset \in Nat /\ f.page \in Nat /\ f.fatPage \in Nat
      /\ f.offset = n % PageCells /\ f.page >= DataStart
      /\ RightAt(vol, c, n) => f.page = PageOf(vol, c, q)
  BY DEF Placed, FileRec
<1>3. q \in Nat /\ f.offset < PageCells
  BY <1>1, <1>2, Division
<1>4. (n + cells) \div PageCells = q + inc /\ inc \in Nat
  <2>1. (n + cells) \div PageCells = (n \div PageCells) + ((n % PageCells) + cells) \div PageCells
    BY <1>1, <1>2, MovedQuotient
  <2>2. f.offset + cells \in Nat
    BY <1>1, <1>2
  <2> QED
    BY <1>1, <1>2, <2>1, <2>2, Division
<1>5. c \in Used(vol) /\ RightTo(vol, c, k2)
  <2>1. RightTo(vol, c, ((n + cells) \div PageCells) \div ClustPages)
    BY DEF RightAt
  <2>2. c \in Used(vol)
    BY <2>1 DEF RightTo
  <2> QED
    BY <1>4, <2>1, <2>2
<1>n. RightAt(vol, c, n) <=> RightTo(vol, c, k)
  BY DEF RightAt
<1> HIDE DEF n, q
<1>q. n + cells \in Nat /\ q + inc \in Nat /\ q <= q + inc
  BY <1>1, <1>2, <1>3, <1>4
<1>6. k \in Nat /\ k2 \in Nat /\ k <= k2
  <2> HIDE DEF b
  <2> QED
    BY <1>1, <1>3, <1>q, Division, QuotientGrows
<1>7. RightTo(vol, c, k)
  <2> HIDE DEF k, k2
  <2>1. k \in 0 .. k2
    BY <1>6
  <2> QED
    BY <1>5, <1>6, <2>1, RightLinks
<1>8. f.page = PageOf(vol, c, q)
  BY <1>2, <1>7, <1>n
<1>9. rel \in Nat
  BY <1>1, <1>2
<1>10. CASE MaskIsOrder
  <2>1. /\ rel \div 2 ^ ClustMask + RootClust = LinkOf(vol, c, q \div ClustPages)
        /\ cnt \in Nat
        /\ (q + inc) \div ClustPages = q \div ClustPages + cnt
        /\ (rel + inc) % 2 ^ ClustOrder = (q + inc) % ClustPages
        /\ cnt = 0 => PageOf(vol, c, q + inc) = PageOf(vol, c, q) + inc
    <3>1. rel = PageOf(vol, c, q) - DataStart
      BY <1>8
    <3>2. LinkOf(vol, c, q \div ClustPages) \in Used(vol)
      <4> HIDE DEF k
      <4>1. k \in 0 .. k
        BY <1>6
      <4>2. LinkOf(vol, c, k) \in Used(vol)
        BY <1>6, <1>7, <4>1, RightLinks
      <4> QED
        BY <4>2 DEF k
    <3>3. c \in Used(vol) /\ q \in Nat /\ inc \in Nat
      BY <1>3, <1>4, <1>5
    <3> QED
      BY <1>10, <3>1, <3>2, <3>3, PagesMoved
  <2>2. k2 = k + cnt /\ LinkOf(vol, c, k) = rel \div 2 ^ ClustMask + RootClust
    BY <2>1
  <2>3. chain.err = "none" /\ chain.clust = LinkOf(vol, c, k2)
    <3> DEFINE cl == rel \div 2 ^ ClustMask + RootClust
    <3>1. cl \in Nat /\ cl >= RootClust
      <4>1. rel \div 2 ^ ClustMask \in Nat
        BY <1>1, <1>9, Division
      <4> HIDE DEF b
      <4> QED
        BY <1>1, <4>1
    <3>2. cl = LinkOf(vol, c, k) /\ RightTo(vol, c, k + cnt) /\ chain = FollowChain(f, cl, cnt)
      BY <1>5, <2>2
    <3> HIDE DEF cl, k, k2
    <3>3. cnt \in Nat /\ f.fatPage \in Nat /\ k \in Nat
      BY <1>2, <1>6, <2>1
    <3>4. chain.err = "none" /\ chain.clust = LinkOf(vol, c, k + cnt)
      BY <3>1, <3>2, <3>3, FollowChainLinks
    <3> QED
      BY <2>2, <3>4
  <2>4. CASE cnt = 0
    BY <1>4, <1>7, <1>8, <1>n, <2>1, <2>3, <2>4 DEF n
  <2>5. CASE cnt # 0
    <3>1. 2 ^ ClustMask = ClustPages
      BY <1>10, FatNumbers
    <3>2. PageOf(vol, c, q + inc) =
            DataStart + (LinkOf(vol, c, k2) - RootClust) * ClustPages
              + ((q + inc) % ClustPages)
      BY DEF PageOf
    <3>3. PageOf(vol, c, q + inc) =
            DataStart + (chain.clust - RootClust) * 2 ^ ClustMask
              + ((rel + inc) % 2 ^ ClustOrder)
      BY <2>1, <2>3, <3>1, <3>2
    <3> QED
      BY <1>4, <1>7, <1>n, <2>3, <2>5, <3>3 DEF n
  <2> QED
    BY <2>4, <2>5
<1>11. CASE ~MaskIsOrder
  <2>1. cnt = 0
    BY <1>2, <1>3, <1>9, <1>11, NoClusterEnds
  <2>2. LinkOf(vol, c, k) = c + k /\ LinkOf(vol, c, k2) = c + k2
    <3> HIDE DEF k, k2
    <3>1. k \in 0 .. k /\ k2 \in 0 .. k2
      BY <1>6
    <3> QED
      BY <1>5, <1>7, <1>11, <3>1 DEF RightTo
  <2>3. /\ PageOf(vol, c, q) = DataStart + (c - RootClust) * ClustPages + q
        /\ PageOf(vol, c, q + inc) = DataStart + (c - RootClust) * ClustPages + (q + inc)
    BY <1>3, <1>5, <1>q, <2>2, RowOfPages
  <2>4. (c - RootClust) * ClustPages \in Nat
    <3>1. c - RootClust \in Nat /\ ClustPages \in Nat
      BY <1>1, <1>5, VolumeFacts
    <3> QED
      BY <3>1
  <2>5. PageOf(vol, c, q + inc) = f.page + inc
    BY <1>1, <1>3, <1>4, <1>8, <2>3, <2>4
  <2> QED
    BY <1>4, <1>7, <1>n, <2>1, <2>5 DEF n
<1> QED
  BY <1>10, <1>11

(* fat_inc_file_ptr keeps the position, over the end of a page and of a    *)
(* cluster, or fails where it cannot be right.                             *)
LEMMA AdvanceArrives ==
  ASSUME vol \in Volumes, NEW c, NEW f, Placed(vol, c, f), NEW cells \in 0 .. SeqMask
  PROVE  Arrived(vol, c, Advance(f, cells))
<1> DEFINE n == f.fileOffset
           moved == [f EXCEPT !.fileOffset = @ + cells, !.offset = @ + cells]
           inc == moved.offset \div PageCells
           rel == f.page - DataStart
           clust == rel \div 2 ^ ClustMask + RootClust
           cnt == ((rel % 2 ^ ClustOrder) + inc) \div 2 ^ ClustMask
           chain == FollowChain(f, clust, cnt)
           newPage == IF cnt = 0 THEN f.page + inc
                      ELSE DataStart + (chain.clust - RootClust) * 2 ^ ClustMask
                             + ((rel + inc) % 2 ^ ClustOrder)
           there == [moved EXCEPT !.page = newPage, !.offset = @ % PageCells,
                                  !.fatPage = chain.fatPage]
<1>1. Advance(f, cells) =
        IF moved.offset < PageCells THEN moved
        ELSE IF cnt > 0 /\ chain.err # "none"
        THEN [moved EXCEPT !.fatPage = chain.fatPage, !.err = chain.err]
        ELSE Cached(there)
  BY DEF Advance
<1>2. /\ f \in FileRec
      /\ f.offset = n % PageCells
      /\ f.cachePage = f.page /\ f.page \in DOMAIN vol.cell /\ f.page >= DataStart
  BY DEF Placed
<1>3. /\ PageCells \in Nat /\ PageCells > 0 /\ DataStart \in Nat /\ RootClust \in Nat
      /\ 2 ^ ClustMask \in Nat /\ 2 ^ ClustMask > 0
      /\ 2 ^ ClustOrder \in Nat /\ 2 ^ ClustOrder > 0 /\ cells \in Nat
  BY FatNumbers DEF ClustPages
<1>4. /\ n \in Nat /\ f.page \in Nat /\ f.fatPage \in Nat /\ f.err = "none"
      /\ f.offset \in Nat
  BY <1>2 DEF FileRec
<1>5. /\ moved \in FileRec /\ moved.fileOffset = n + cells
      /\ moved.offset = f.offset + cells /\ moved.page = f.page
      /\ moved.cachePage = f.cachePage
  <2> DEFINE a == n + cells
             o == f.offset + cells
  <2>1. moved = [f EXCEPT !.fileOffset = a, !.offset = o]
    OBVIOUS
  <2>2. a \in Nat /\ o \in Nat /\ a = n + cells /\ o = f.offset + cells
    BY <1>3, <1>4
  <2>3. f \in FileRec
    BY <1>2
  <2> HIDE DEF a, o, moved
  <2>4. moved \in FileRec /\ moved.fileOffset = a /\ moved.offset = o
    BY <2>1, <2>2, <2>3 DEF FileRec
  <2>5. moved.page = f.page /\ moved.cachePage = f.cachePage
    BY <2>1, <2>3 DEF FileRec
  <2> QED
    BY <2>2, <2>4, <2>5
<1>6. /\ (n + cells) % PageCells = moved.offset % PageCells
      /\ moved.offset \in Nat /\ inc \in Nat /\ moved.offset % PageCells \in Nat
  <2>1. (n + cells) % PageCells = ((n % PageCells) + cells) % PageCells
    <3>1. n \in Nat /\ cells \in Nat /\ PageCells \in Nat /\ PageCells > 0
      BY <1>3, <1>4
    <3> HIDE DEF n
    <3> QED
      BY <3>1, MovedQuotient
  <2>2. moved.offset \in Nat
    BY <1>3, <1>4, <1>5
  <2>3. moved.offset \div PageCells \in Nat /\ moved.offset % PageCells \in Nat
    BY <1>3, <2>2, Division
  <2> QED
    BY <1>2, <1>5, <2>1, <2>2, <2>3
<1>7. rel \in Nat /\ clust \in Nat /\ clust >= RootClust /\ cnt \in Nat
  <2>1. rel \in Nat
    BY <1>2, <1>3, <1>4
  <2>2. rel \div 2 ^ ClustMask \in Nat /\ rel % 2 ^ ClustOrder \in Nat
    BY <1>3, <2>1, Division
  <2>3. (rel % 2 ^ ClustOrder) + inc \in Nat
    BY <1>6, <2>2
  <2>4. ((rel % 2 ^ ClustOrder) + inc) \div 2 ^ ClustMask \in Nat
    BY <1>3, <2>3, Division
  <2> QED
    BY <1>3, <2>1, <2>2, <2>4
<1>8. chain \in Progress
  <2> HIDE DEF clust, cnt
  <2> QED
    BY <1>4, <1>7, FollowChainLinks
<1>9. /\ chain.err \in {"none", "panic", "disk"} /\ chain.fatPage \in Nat
      /\ chain.clust \in Nat /\ (chain.err = "none" => chain.clust >= RootClust)
  BY <1>8 DEF Progress
<1>10. ASSUME RightAt(vol, c, n + cells)
       PROVE  /\ RightAt(vol, c, n)
              /\ cnt > 0 => chain.err = "none"
              /\ PageOf(vol, c, (n + cells) \div PageCells) = newPage
  <2>1. inc = (f.offset + cells) \div PageCells
    BY <1>5
  <2> HIDE DEF inc
  <2> QED
    BY <1>10, <2>1, RightMove
<1>t. there = [moved EXCEPT !.page = newPage, !.offset = @ % PageCells,
                            !.fatPage = chain.fatPage]
  OBVIOUS
<1>i. inc = moved.offset \div PageCells
  OBVIOUS
<1>w. newPage = IF cnt = 0 THEN f.page + inc
                ELSE DataStart + (chain.clust - RootClust) * 2 ^ ClustMask
                       + ((rel + inc) % 2 ^ ClustOrder)
  OBVIOUS
<1> HIDE DEF n, moved, inc, clust, cnt, chain, newPage, there, rel
<1>11. CASE moved.offset < PageCells
  <2>1. Advance(f, cells) = moved
    BY <1>1, <1>11
  <2>2. moved.offset % PageCells = moved.offset /\ inc = 0
    <3>1. (PageCells * 0 + moved.offset) \div PageCells = 0
          /\ (PageCells * 0 + moved.offset) % PageCells = moved.offset
      BY <1>3, <1>6, <1>11, Quotient
    <3>2. PageCells * 0 + moved.offset = moved.offset
      BY <1>3, <1>6
    <3> QED
      BY <1>i, <3>1, <3>2
  <2>3. (n + cells) % PageCells = moved.offset
    BY <1>6, <2>2
  <2>4. (n + cells) \div PageCells = n \div PageCells
    <3>1. (n + cells) \div PageCells = (n \div PageCells) + ((n % PageCells) + cells) \div PageCells
      BY <1>3, <1>4, MovedQuotient
    <3>2. (n % PageCells) + cells = moved.offset
      BY <1>2, <1>5
    <3>3. n \div PageCells \in Nat
      BY <1>3, <1>4, Division
    <3> QED
      BY <1>i, <2>2, <3>1, <3>2, <3>3
  <2>5. RightAt(vol, c, n + cells) => RightAt(vol, c, n)
    BY <1>10
  <2>6. RightAt(vol, c, n) => f.page = PageOf(vol, c, n \div PageCells)
    BY DEF Placed, n
  <2>7. Placed(vol, c, moved)
    BY <1>2, <1>5, <2>3, <2>4, <2>5, <2>6 DEF Placed
  <2>8. moved.err = "none"
    BY <1>5 DEF FileRec
  <2> QED
    BY <2>1, <2>7, <2>8 DEF Arrived
<1>12. CASE ~ (moved.offset < PageCells)
  <2>1. CASE cnt > 0 /\ chain.err # "none"
    <3>1. Advance(f, cells) = [moved EXCEPT !.fatPage = chain.fatPage, !.err = chain.err]
      BY <1>1, <1>12, <2>1
    <3>2. Advance(f, cells).err \in {"panic", "disk"}
          /\ Advance(f, cells).fileOffset = n + cells
      BY <1>5, <1>9, <2>1, <3>1 DEF FileRec
    <3>3. ~ RightAt(vol, c, n + cells) /\ n + cells \in Nat
      BY <1>3, <1>4, <1>10, <2>1
    <3> QED
      BY <3>2, <3>3 DEF Arrived, Beyond
  <2>2. CASE ~ (cnt > 0 /\ chain.err # "none")
    <3>1. Advance(f, cells) = Cached(there)
      BY <1>1, <1>12, <2>2
    <3>2. newPage \in Nat /\ newPage >= DataStart
      <4>1. CASE cnt = 0
        BY <1>2, <1>3, <1>4, <1>6, <1>w, <4>1
      <4>2. CASE cnt # 0
        <5>1. chain.err = "none"
          BY <1>7, <2>2, <4>2
        <5>2. chain.clust - RootClust \in Nat
          BY <1>3, <1>9, <5>1
        <5>3. (chain.clust - RootClust) * 2 ^ ClustMask \in Nat
          <6>1. \A x, y \in Nat : x * y \in Nat
            OBVIOUS
          <6> QED
            BY <1>3, <5>2, <6>1
        <5>4. rel + inc \in Nat
          BY <1>6, <1>7
        <5>5. (rel + inc) % 2 ^ ClustOrder \in Nat
          BY <1>3, <5>4, Division
        <5>6. newPage = DataStart + (chain.clust - RootClust) * 2 ^ ClustMask
                          + ((rel + inc) % 2 ^ ClustOrder)
          BY <1>w, <4>2
        <5> QED
          BY <1>3, <5>3, <5>5, <5>6
      <4> QED
        BY <4>1, <4>2
    <3>3. /\ there \in FileRec /\ there.page = newPage
          /\ there.offset = moved.offset % PageCells
          /\ there.fileOffset = n + cells
      BY <1>5, <1>6, <1>9, <1>t, <3>2 DEF FileRec
    <3>4. Aimed(vol, c, there)
      BY <1>6, <1>10, <3>2, <3>3 DEF Aimed
    <3> QED
      BY <3>1, <3>4, CachedArrives
  <2> QED
    BY <2>1, <2>2
<1> QED
  BY <1>11, <1>12

(* set_cluster and dir_set_root: what begins at a cluster begins there. *)
LEMMA SetArrives ==
  ASSUME vol \in Volumes, NEW c \in Nat, c >= RootClust, NEW f \in FileRec,
         f.fileOffset = 0
  PROVE  /\ Arrived(vol, c, SetCluster(f, c))
         /\ Arrived(vol, RootClust, SetRoot(f))
<1>1. /\ PageCells \in Nat /\ PageCells > 0 /\ DataStart \in Nat /\ RootClust \in Nat
      /\ ClustPages \in Nat /\ ClustPages > 0
  BY FatNumbers
<1>2. ASSUME NEW s \in Nat, s > 0 PROVE 0 \div s = 0 /\ 0 % s = 0
  <2>1. 0 = s * 0 + 0
    BY <1>2
  <2>2. (s * 0 + 0) \div s = 0 /\ (s * 0 + 0) % s = 0
    BY <1>2, Quotient
  <2> QED
    BY <2>1, <2>2
<1>3. ASSUME NEW d \in Nat, d >= RootClust
      PROVE  /\ (d - RootClust) * ClustPages + DataStart \in Nat
             /\ (d - RootClust) * ClustPages + DataStart >= DataStart
             /\ RightAt(vol, d, 0) =>
                  PageOf(vol, d, 0 \div PageCells) = (d - RootClust) * ClustPages + DataStart
  <2>1. (d - RootClust) * ClustPages \in Nat
    <3>1. d - RootClust \in Nat
      BY <1>1, <1>3
    <3>2. \A x, y \in Nat : x * y \in Nat
      OBVIOUS
    <3> QED
      BY <1>1, <3>1, <3>2
  <2>2. ASSUME d \in Used(vol)
        PROVE  PageOf(vol, d, 0) = (d - RootClust) * ClustPages + DataStart
    <3>1. LinkOf(vol, d, 0) = d
      BY <2>2, ChainOfClusters
    <3>2. 0 \div ClustPages = 0 /\ 0 % ClustPages = 0
      BY <1>1, <1>2
    <3>3. PageOf(vol, d, 0) = DataStart + (d - RootClust) * ClustPages + 0
      BY <3>1, <3>2 DEF PageOf
    <3> QED
      BY <1>1, <2>1, <3>3
  <2>3. 0 \div PageCells = 0
    BY <1>1, <1>2
  <2>4. RightAt(vol, d, 0) => d \in Used(vol)
    BY DEF RightAt, RightTo
  <2> QED
    BY <1>1, <2>1, <2>2, <2>3, <2>4
<1>4. 0 % PageCells = 0
  BY <1>1, <1>2
<1>5. Arrived(vol, c, SetCluster(f, c))
  <2> DEFINE g == [f EXCEPT !.page = (c - RootClust) * 2 ^ ClustOrder + DataStart,
                            !.offset = 0]
             page == (c - RootClust) * ClustPages + DataStart
  <2>1. SetCluster(f, c) = Cached(g)
    BY <1>1 DEF SetCluster
  <2>2. g = [f EXCEPT !.page = page, !.offset = 0]
    BY DEF ClustPages
  <2>3. /\ page \in Nat /\ page >= DataStart
        /\ RightAt(vol, c, 0) => PageOf(vol, c, 0 \div PageCells) = page
    BY <1>3
  <2> HIDE DEF g, page
  <2>4. g \in FileRec /\ g.page = page /\ g.offset = 0 /\ g.fileOffset = 0
    BY <2>2, <2>3 DEF FileRec
  <2>5. Aimed(vol, c, g)
    BY <1>4, <2>3, <2>4 DEF Aimed
  <2> QED
    BY <2>1, <2>5, CachedArrives
<1>6. Arrived(vol, RootClust, SetRoot(f))
  <2> DEFINE g == [f EXCEPT !.fileOffset = 0, !.offset = 0, !.page = DataStart]
  <2>1. SetRoot(f) = Cached(g)
    BY DEF SetRoot
  <2>2. RightAt(vol, RootClust, 0) => PageOf(vol, RootClust, 0 \div PageCells) = DataStart
    <3>1. (RootClust - RootClust) * ClustPages = 0 /\ RootClust >= RootClust
      BY <1>1
    <3>2. (RootClust - RootClust) * ClustPages + DataStart = DataStart
      BY <1>1, <3>1
    <3>3. RightAt(vol, RootClust, 0) =>
            PageOf(vol, RootClust, 0 \div PageCells)
              = (RootClust - RootClust) * ClustPages + DataStart
      BY <1>1, <1>3, <3>1
    <3> QED
      BY <3>2, <3>3
  <2>3. g \in FileRec /\ g.page = DataStart /\ g.offset = 0 /\ g.fileOffset = 0
    BY <1>1 DEF FileRec
  <2>5. DataStart >= DataStart
    BY <1>1
  <2> HIDE DEF g
  <2>4. Aimed(vol, RootClust, g)
    BY <1>4, <2>2, <2>3, <2>5 DEF Aimed
  <2> QED
    BY <2>1, <2>4, CachedArrives
<1> QED
  BY <1>5, <1>6

-----------------------------------------------------------------------------
LEMMA CellInOrder ==
  ASSUME vol \in Volumes, NEW c, NEW f, Placed(vol, c, f)
  PROVE  /\ InOrder(Here(f))
         /\ SeqNumber(Here(f)) \in 0 .. SeqMask
<1>1. f.page \in DOMAIN vol.cell /\ f.cachePage = f.page /\ f.offset = f.fileOffset % PageCells
      /\ f.fileOffset \in Nat
  BY DEF Placed, FileRec
<1>2. f.offset \in 0 .. PageMask
  <2>1. PageCells \in Nat /\ PageCells > 0
    BY FatNumbers
  <2>2. f.offset \in Nat /\ f.offset < PageCells
    BY <1>1, <2>1, Division
  <2> QED
    BY <2>1, <2>2 DEF PageMask
<1>3. InOrder(vol.cell[f.cachePage][f.offset])
  BY <1>1, <1>2, VolumeAssumption
<1> DEFINE e == Here(f)
<1>4. InOrder(e)
  BY <1>3 DEF Here
<1> HIDE DEF e
<1>5. SeqNumber(e) \in 0 .. SeqMask
  <2>1. CASE e.kind = "deleted"
    BY <2>1, FatNumbers DEF SeqNumber
  <2>2. CASE e.kind # "deleted"
    <3>1. e.seq \in 0 .. SeqMask
      BY <1>4, <2>2 DEF InOrder
    <3> QED
      BY <2>2, <3>1 DEF SeqNumber
  <2> QED
    BY <2>1, <2>2
<1> QED
  BY <1>4, <1>5 DEF e

(* A call goes on where its move has arrived, or ends with its error. *)
LEMMA MoveArrives ==
  ASSUME NEW c, NEW f, NEW to, Arrived(vol, c, f), MoveTo(f, to)
  PROVE  /\ file' = f
         /\ \/ call' \in {"panic", "lost"} /\ Beyond(vol, c, f)
            \/ call' = to /\ Placed(vol, c, f)
<1>1. file' = f
  BY DEF MoveTo
<1>2. CASE f.err = "none"
  BY <1>1, <1>2 DEF MoveTo, Arrived
<1>3. CASE f.err # "none"
  <2>1. f.err \in {"panic", "disk"} /\ Beyond(vol, c, f)
    BY <1>3 DEF Arrived
  <2> QED
    BY <1>1, <2>1 DEF MoveTo
<1> QED
  BY <1>2, <1>3

LEMMA InitFatHolds ==
  ASSUME InitFat
  PROVE  FatInv
BY DEF InitFat, NothingOpen, FatInv, Live

(* What is left to show of a step: where the call is, and its positions. *)
LEMMA FatKept ==
  ASSUME FatInv, vol' = vol, ret' \in {"opened", "compare"},
         call' \notin {"closed", "panic", "lost", "assertion"} => Placed(vol, start', file'),
         call' \in {"panic", "lost"} => Beyond(vol, start', file'),
         call' \in {"name", "nameDone"} => Placed(vol, start', saved'),
         call' = "found" => vol.cell[file'.cachePage][file'.offset].kind = "sfn"
  PROVE  FatInv'
BY DEF FatInv, Here, Live

(* A step that moves the position to f, and goes on at one of the calls    *)
(* that read nothing but it.                                               *)
LEMMA FatMoved ==
  ASSUME FatInv, vol' = vol, ret' \in {"opened", "compare"}, NEW to, NEW f,
         Arrived(vol, start', f), MoveTo(f, to),
         to \notin {"found", "panic", "lost"},
         to \in {"name", "nameDone"} => Placed(vol, start', saved')
  PROVE  FatInv'
<1>1. /\ file' = f
      /\ \/ call' \in {"panic", "lost"} /\ Beyond(vol, start', f)
         \/ call' = to /\ Placed(vol, start', f)
  BY MoveArrives
<1>2. CASE call' \in {"panic", "lost"} /\ Beyond(vol, start', f)
  BY <1>1, <1>2, FatKept
<1>3. CASE call' = to /\ Placed(vol, start', f)
  BY <1>1, <1>3, FatKept
<1> QED
  BY <1>1, <1>2, <1>3

LEMMA OpenKeeps ==
  ASSUME FatInv, NEW m, NEW p, Open(m, p)
  PROVE  FatInv'
<1>1. /\ MoveTo(SetRoot(NewFile), "frag") /\ start' = RootClust
      /\ vol' = vol /\ ret' = ret /\ vol \in Volumes /\ ret \in {"opened", "compare"}
  BY DEF Open, FatInv
<1>2. NewFile \in FileRec /\ NewFile.fileOffset = 0
  BY DEF NewFile, FileRec
<1>3. RootClust \in Nat /\ RootClust >= RootClust
  BY FatNumbers
<1>4. Arrived(vol, RootClust, SetRoot(NewFile))
  BY <1>1, <1>2, <1>3, SetArrives
<1> QED
  BY <1>1, <1>4, FatMoved

(* Steps that leave the position alone. *)
LEMMA StayKeeps ==
  ASSUME FatInv,
         NextFrag \/ PathDone \/ CompareShort \/ CompareLong \/ CompareChecksum
           \/ (\E n \in Requests : FileRead(n)) \/ DirReadShort \/ DirReadLong
  PROVE  FatInv'
<1>1. vol \in Volumes /\ ret \in {"opened", "compare"}
  BY DEF FatInv
<1>2. CASE NextFrag \/ PathDone \/ \E n \in Requests : FileRead(n)
  <2>1. /\ vol' = vol /\ ret' = ret /\ file' = file /\ start' = start
        /\ call \notin {"closed", "panic", "lost", "assertion"}
        /\ call' \in {"compare", "closed", "opened", "read"}
    BY <1>2 DEF NextFrag, PathDone, FileRead, Fail, history
  <2>2. Placed(vol, start', file')
    BY <2>1 DEF FatInv, Live
  <2> QED
    BY <1>1, <2>1, <2>2, FatKept
<1>3. CASE CompareShort
  <2>1. /\ vol' = vol /\ ret' = "compare" /\ file' = file /\ start' = start
        /\ call = "compare"
        /\ call' = "next" \/ (call' = "found" /\ Here(file).kind = "sfn")
    BY <1>3 DEF CompareShort, history
  <2>2. Placed(vol, start', file')
    BY <2>1 DEF FatInv, Live
  <2> QED
    BY <1>1, <2>1, <2>2, FatKept DEF Here
<1>4. CASE CompareLong
  <2>1. /\ vol' = vol /\ ret' = ret /\ file' = file /\ start' = start
        /\ call = "compare" /\ call' \in {"fragment", "assertion"}
    BY <1>4 DEF CompareLong, history
  <2>2. Placed(vol, start', file')
    BY <2>1 DEF FatInv, Live
  <2> QED
    BY <1>1, <2>1, <2>2, FatKept
<1>5. CASE CompareChecksum
  <2>1. /\ vol' = vol /\ ret' = ret /\ file' = file /\ start' = start
        /\ call = "checksum"
        /\ call' = "closed" \/ (call' = "found" /\ Here(file).kind = "sfn")
    BY <1>5 DEF CompareChecksum, Checks, Fail, history
  <2>2. Placed(vol, start', file')
    BY <2>1 DEF FatInv, Live
  <2> QED
    BY <1>1, <2>1, <2>2, FatKept DEF Here
<1>6. CASE DirReadShort
  <2>1. /\ vol' = vol /\ ret' = ret /\ file' = file /\ start' = start
        /\ call = "opened" /\ call' = call
    BY <1>6 DEF DirReadShort, callVars
  <2>2. Placed(vol, start', file')
    BY <2>1 DEF FatInv, Live
  <2> QED
    BY <1>1, <2>1, <2>2, FatKept
<1>7. CASE DirReadLong
  <2>1. /\ vol' = vol /\ ret' = ret /\ file' = file /\ start' = start
        /\ call = "opened" /\ call' = "name" /\ saved' = file
    BY <1>7 DEF DirReadLong, history
  <2>2. Placed(vol, start', file')
    BY <2>1 DEF FatInv, Live
  <2> QED
    BY <1>1, <2>1, <2>2, FatKept
<1> QED
  BY <1>2, <1>3, <1>4, <1>5, <1>6, <1>7

(* Steps that move the position on in what is open. *)
LEMMA MoveKeeps ==
  ASSUME FatInv,
         CompareFragment \/ NextEntry \/ NextUsed \/ ReadByte \/ ReadFragment
  PROVE  FatInv'
<1>1. vol \in Volumes /\ ret \in {"opened", "compare"}
  BY DEF FatInv
<1>2. 1 \in 0 .. SeqMask
  BY FatNumbers
<1>3. CASE CompareFragment
  <2> DEFINE seq == SeqNumber(Here(file))
  <2>1. /\ call = "fragment" /\ vol' = vol /\ ret' = "compare" /\ start' = start
        /\ \/ MoveTo(Advance(file, 1), IF seq = 1 THEN "checksum" ELSE "fragment")
           \/ MoveTo(Advance(file, seq), "next")
    BY <1>3 DEF CompareFragment, history
  <2>2. Placed(vol, start, file)
    BY <2>1 DEF FatInv, Live
  <2>3. seq \in 0 .. SeqMask
    BY <1>1, <2>2, CellInOrder
  <2> HIDE DEF seq
  <2>4. Arrived(vol, start, Advance(file, 1)) /\ Arrived(vol, start, Advance(file, seq))
    BY <1>1, <1>2, <2>2, <2>3, AdvanceArrives
  <2>5. CASE MoveTo(Advance(file, 1), IF seq = 1 THEN "checksum" ELSE "fragment")
    <3>1. \E to \in {"checksum", "fragment"} : MoveTo(Advance(file, 1), to)
      BY <2>5
    <3> QED
      BY <2>1, <2>4, <3>1, FatMoved
  <2>6. CASE MoveTo(Advance(file, seq), "next")
    BY <2>1, <2>4, <2>6, FatMoved
  <2> QED
    BY <2>1, <2>5, <2>6
<1>4. CASE NextEntry
  <2> DEFINE seq == SeqNumber(Here(file))
             entry == IF IsLong(Here(file)) THEN Advance(file, seq) ELSE file
  <2>1. /\ call \in {"next", "opened"} /\ vol' = vol /\ start' = start
        /\ ret' \in {"opened", "compare"}
        /\ IF entry.err = "none" THEN MoveTo(Advance(entry, 1), "used")
           ELSE MoveTo(entry, "used")
    BY <1>1, <1>4 DEF NextEntry
  <2>2. Placed(vol, start, file)
    BY <2>1 DEF FatInv, Live
  <2>3. seq \in 0 .. SeqMask
    BY <1>1, <2>2, CellInOrder
  <2>4. Arrived(vol, start, entry)
    <3> HIDE DEF seq
    <3>1. Arrived(vol, start, Advance(file, seq))
      BY <1>1, <2>2, <2>3, AdvanceArrives
    <3>2. file.err = "none"
      BY <2>2 DEF Placed, FileRec
    <3> QED
      BY <2>2, <3>1, <3>2 DEF Arrived
  <2> HIDE DEF seq, entry
  <2>5. CASE entry.err = "none"
    <3>1. Placed(vol, start, entry)
      BY <2>4, <2>5 DEF Arrived
    <3>2. Arrived(vol, start, Advance(entry, 1))
      BY <1>1, <1>2, <3>1, AdvanceArrives
    <3>3. MoveTo(Advance(entry, 1), "used")
      BY <2>1, <2>5
    <3> QED
      BY <2>1, <3>2, <3>3, FatMoved
  <2>6. CASE entry.err # "none"
    <3>1. MoveTo(entry, "used")
      BY <2>1, <2>6
    <3> QED
      BY <2>1, <2>4, <3>1, FatMoved
  <2> QED
    BY <2>5, <2>6
<1>5. CASE NextUsed
  <2>1. /\ call = "used" /\ vol' = vol /\ ret' = ret /\ start' = start
        /\ \/ MoveTo(Advance(file, 1), "used")
           \/ call' = "closed"
           \/ call' = ret /\ file' = file
    BY <1>5 DEF NextUsed, Fail, history
  <2>2. Placed(vol, start, file)
    BY <2>1 DEF FatInv, Live
  <2>3. CASE MoveTo(Advance(file, 1), "used")
    <3>1. Arrived(vol, start, Advance(file, 1))
      BY <1>1, <1>2, <2>2, AdvanceArrives
    <3> QED
      BY <1>1, <2>1, <2>3, <3>1, FatMoved
  <2>4. CASE call' = "closed"
    BY <1>1, <2>1, <2>4, FatKept
  <2>5. CASE call' = ret /\ file' = file
    BY <1>1, <2>1, <2>2, <2>5, FatKept
  <2> QED
    BY <2>1, <2>3, <2>4, <2>5
<1>6. CASE ReadByte
  <2>1. /\ call = "read" /\ vol' = vol /\ ret' = ret /\ start' = start
        /\ \E to \in {"opened", "read"} : MoveTo(Advance(file, 1), to)
    BY <1>6 DEF ReadByte
  <2>2. Placed(vol, start, file)
    BY <2>1 DEF FatInv, Live
  <2>3. Arrived(vol, start, Advance(file, 1))
    BY <1>1, <1>2, <2>2, AdvanceArrives
  <2> QED
    BY <1>1, <2>1, <2>3, FatMoved
<1>7. CASE ReadFragment
  <2>1. /\ call = "name" /\ vol' = vol /\ ret' = ret /\ start' = start /\ saved' = saved
        /\ \E to \in {"nameDone", "name"} : MoveTo(Advance(file, 1), to)
    BY <1>7 DEF ReadFragment, history
  <2>2. Placed(vol, start, file) /\ Placed(vol, start, saved)
    BY <2>1 DEF FatInv, Live
  <2>3. Arrived(vol, start, Advance(file, 1))
    BY <1>1, <1>2, <2>2, AdvanceArrives
  <2> QED
    BY <1>1, <2>1, <2>2, <2>3, FatMoved
<1> QED
  BY <1>3, <1>4, <1>5, <1>6, <1>7

(* What was found is opened: its first cluster, or the root's for "..". *)
LEMMA FoundKeeps ==
  ASSUME FatInv, Found
  PROVE  FatInv'
<1> DEFINE e == Here(file)
           toRoot == e.sfn[1] = "." /\ e.sfn[2] = "." /\ e.clust = 0
           f == [file EXCEPT !.fileOffset = 0, !.size = e.size]
           g == IF toRoot THEN SetRoot(f) ELSE SetCluster(f, e.clust)
           first == IF toRoot THEN RootClust ELSE e.clust
<1>1. /\ call = "found" /\ vol \in Volumes /\ ret \in {"opened", "compare"}
      /\ vol' = vol /\ ret' = ret
      /\ start' = first
      /\ IF g.err = "disk" THEN call' = "closed" ELSE MoveTo(g, "frag")
  BY DEF Found, FatInv, Fail
<1>2. Placed(vol, start, file) /\ e.kind = "sfn"
  BY <1>1 DEF FatInv, Live
<1>3. InOrder(e)
  BY <1>1, <1>2, CellInOrder
<1>4. e.size \in Nat /\ e.clust \in Nat
  BY <1>2, <1>3 DEF InOrder
<1>f. f = [file EXCEPT !.fileOffset = 0, !.size = e.size]
  OBVIOUS
<1> HIDE DEF e, f
<1>5. f \in FileRec /\ f.fileOffset = 0
  <2>1. file \in FileRec
    BY <1>2 DEF Placed
  <2> QED
    BY <1>4, <1>f, <2>1 DEF FileRec
<1>6. RootClust \in Nat /\ RootClust >= RootClust
  BY FatNumbers
<1>7. CASE g.err = "disk"
  <2>1. call' = "closed"
    BY <1>1, <1>7
  <2> HIDE DEF g, first, toRoot
  <2> QED
    BY <1>1, <2>1, FatKept
<1>8. CASE g.err # "disk"
  <2>1. MoveTo(g, "frag")
    BY <1>1, <1>8
  <2>2. Arrived(vol, first, g)
    <3>1. CASE toRoot
      <4>1. first = RootClust /\ g = SetRoot(f)
        BY <3>1
      <4>2. Arrived(vol, RootClust, SetRoot(f))
        BY <1>1, <1>5, <1>6, SetArrives
      <4> HIDE DEF first, g
      <4> QED
        BY <4>1, <4>2
    <3>2. CASE ~ toRoot
      <4>1. first = e.clust /\ g = SetCluster(f, e.clust)
        BY <3>2
      <4> HIDE DEF first, g, toRoot
      <4>2. e.clust >= RootClust
        <5> SUFFICES ASSUME e.clust < RootClust PROVE FALSE
          BY <1>4, <1>6
        <5>1. SetCluster(f, e.clust) = [f EXCEPT !.err = "disk"]
          BY DEF SetCluster
        <5>2. g.err = "disk"
          BY <1>5, <4>1, <5>1 DEF FileRec
        <5> QED
          BY <1>8, <5>2
      <4>3. Arrived(vol, e.clust, SetCluster(f, e.clust))
        BY <1>1, <1>4, <1>5, <4>2, SetArrives
      <4> QED
        BY <4>1, <4>3
    <3> HIDE DEF toRoot
    <3> QED
      BY <3>1, <3>2
  <2> HIDE DEF g, first, toRoot
  <2> QED
    BY <1>1, <2>1, <2>2, FatMoved
<1> HIDE DEF g
<1> QED
  BY <1>7, <1>8

(* A name that has been read: back to where it begins. *)
LEMMA ReadNameKeeps ==
  ASSUME FatInv, ReadName
  PROVE  FatInv'
<1> DEFINE f == [file EXCEPT !.page = saved.page, !.offset = saved.offset,
                             !.fileOffset = saved.fileOffset]
<1>1. /\ call = "nameDone" /\ vol \in Volumes /\ ret \in {"opened", "compare"}
      /\ vol' = vol /\ ret' = ret /\ start' = start
      /\ MoveTo(Cached(f), "opened") \/ (call' = "opened" /\ file' = file)
  BY DEF ReadName, FatInv
<1>2. Placed(vol, start, file) /\ Placed(vol, start, saved)
  BY <1>1 DEF FatInv, Live
<1>3. Aimed(vol, start, f)
  <2>1. file \in FileRec /\ saved \in FileRec
    BY <1>2 DEF Placed
  <2>2. /\ f \in FileRec /\ f.page = saved.page /\ f.offset = saved.offset
        /\ f.fileOffset = saved.fileOffset
    BY <2>1 DEF FileRec
  <2> HIDE DEF f
  <2> QED
    BY <1>2, <2>2 DEF Placed, Aimed
<1> HIDE DEF f
<1>4. Arrived(vol, start, Cached(f))
  BY <1>1, <1>3, CachedArrives
<1>5. CASE MoveTo(Cached(f), "opened")
  BY <1>1, <1>4, <1>5, FatMoved
<1>6. CASE call' = "opened" /\ file' = file
  BY <1>1, <1>2, <1>6, FatKept
<1> QED
  BY <1>1, <1>5, <1>6

LEMMA FatStep ==
  ASSUME FatInv, [NextFat]_fatVars
  PROVE  FatInv'
<1>1. CASE UNCHANGED fatVars
  BY <1>1 DEF fatVars, callVars, history, FatInv, Here, Live
<1>2. CASE NextFat
  BY <1>2, OpenKeeps, StayKeeps, MoveKeeps, FoundKeeps, ReadNameKeeps DEF NextFat
<1> QED
  BY <1>1, <1>2

(* Whatever a thread does with its file, on clusters of any size, what the *)
(* cache holds is the page of the position, the position is in order where *)
(* the code can make it right, and a move fails nowhere else.              *)
THEOREM FatInvariant == SpecFat => []FatInv
<1>1. InitFat => FatInv
  BY InitFatHolds
<1>2. FatInv /\ [NextFat]_fatVars => FatInv'
  BY FatStep
<1> QED
  BY <1>1, <1>2, PTL DEF SpecFat

(* The clusters and pages of a place. *)
LEMMA ClustersOfPlace ==
  ASSUME NEW n \in Nat
  PROVE  /\ n \div ClustCells = (n \div PageCells) \div ClustPages
         /\ (n % ClustCells) \div PageCells = (n \div PageCells) % ClustPages
<1>1. PageCells \in Nat /\ PageCells > 0 /\ ClustPages \in Nat /\ ClustPages > 0
  BY FatNumbers
<1>2. ClustCells = PageCells * ClustPages
  BY DEF ClustCells, ClustPages
<1> QED
  BY <1>1, <1>2, NestedQuotient

LEMMA SoundIsRight ==
  ASSUME NEW c, NEW n \in Nat
  PROVE  Sound(c, n) <=> RightAt(vol, c, n)
BY ClusterIsLink, ClustersOfPlace DEF Sound, InChain, InRow, RightAt, RightTo

(* The code's page, offset and cached page are those of the cell that the  *)
(* offset in the file means, as the chain of its clusters says.            *)
LEMMA PlacedIsPlace ==
  ASSUME vol \in Volumes, NEW c, NEW f, Placed(vol, c, f), Sound(c, f.fileOffset)
  PROVE  [page |-> f.page, offset |-> f.offset] = PlaceOf(c, f.fileOffset)
<1> DEFINE n == f.fileOffset
           q == n \div PageCells
<1>1. n \in Nat /\ f.offset = n % PageCells
  BY DEF Placed, FileRec
<1>2. f.page = PageOf(vol, c, q)
  BY <1>1, SoundIsRight DEF Placed
<1>3. /\ n \div ClustCells = q \div ClustPages
      /\ (n % ClustCells) \div PageCells = q % ClustPages
  BY <1>1, ClustersOfPlace
<1>4. PlaceOf(c, n) =
        [page |-> DataStart + (LinkOf(vol, c, n \div ClustCells) - RootClust) * ClustPages
                    + ((n % ClustCells) \div PageCells),
         offset |-> n % PageCells]
  BY ClusterIsLink DEF PlaceOf, ClustPages
<1>5. PageOf(vol, c, q) =
        DataStart + (LinkOf(vol, c, q \div ClustPages) - RootClust) * ClustPages
          + (q % ClustPages)
  BY DEF PageOf
<1> HIDE DEF n, q
<1>6. PlaceOf(c, n) = [page |-> f.page, offset |-> f.offset]
  BY <1>1, <1>2, <1>3, <1>4, <1>5
<1> QED
  BY <1>6 DEF n

(* PositionIsOffset, for every size of clusters: over all moves, the       *)
(* position is one place.                                                  *)
THEOREM PositionsAgree == SpecFat => []PositionIsOffset
<1>1. FatInv => PositionIsOffset
  <2> SUFFICES ASSUME FatInv, Live
               PROVE  /\ Sound(start, file.fileOffset) => AtPlace
                      /\ file.cachePage = file.page
    BY DEF PositionIsOffset
  <2>1. vol \in Volumes /\ Placed(vol, start, file)
    BY DEF FatInv
  <2>2. file.cachePage = file.page
    BY <2>1 DEF Placed
  <2>3. Sound(start, file.fileOffset) => AtPlace
    BY <2>1, PlacedIsPlace DEF AtPlace
  <2> QED
    BY <2>2, <2>3
<1> QED
  BY <1>1, FatInvariant, PTL

(* StopsAtChainEndOnly: the clusters in use and the pages of a well-formed *)
(* volume are never asked for in vain, whatever lies behind the FAT.       *)
THEOREM MovesFailAtEnds == SpecFat => []StopsAtChainEndOnly
<1>0. ASSUME FatInv, call \in {"panic", "lost"} PROVE ~Sound(start, file.fileOffset)
  <2>1. file.fileOffset \in Nat /\ ~RightAt(vol, start, file.fileOffset)
    BY <1>0 DEF FatInv, Beyond
  <2> QED
    BY <2>1, SoundIsRight
<1>1. FatInv => StopsAtChainEndOnly
  BY <1>0 DEF StopsAtChainEndOnly
<1> QED
  BY <1>1, FatInvariant, PTL
=============================================================================
