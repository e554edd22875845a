------------------------------ MODULE Storage ------------------------------
(***************************************************************************)
(* From the insertion of an SD card to the list of mounted partitions:     *)
(* drivers/mmc.c (interrupt, commands), drivers/sd.c (enumeration, reads), *)
(* fs/disk.c (names, partition table) and the mount of fs/fat.c.           *)
(*                                                                         *)
(* Every slot has a real-time thread of its own that runs sd_init_thread;  *)
(* the threads preempt each other between any two steps.  A card answers   *)
(* as the SD specification says, which is the order the driver relies on:  *)
(* a command that a card does not take in its state is not answered, and   *)
(* the driver panics when it times out.                                    *)
(***************************************************************************)
EXTENDS Integers, FiniteSets

CONSTANTS
  Slots,     (* MMC0 and MMC1.                                             *)
  Cards,     (* The kinds of cards: [version, hc, bus4, mbr, entry].       *)
  Tries      (* Rounds of ACMD41 before the driver gives up (1000).        *)

(* What the four entries of a partition table can hold: nothing, an entry  *)
(* with a bad status, and partitions that fat_mount_partition finds to be  *)
(* FAT32, another FAT, or without the signature.                           *)
Entry == {"none", "badstatus", "fat32", "fat16", "nosignature"}

ASSUME StorageAssumption ==
  /\ IsFiniteSet(Slots)
  /\ Cards \subseteq [version : {1, 2}, hc : BOOLEAN, bus4 : BOOLEAN, mbr : BOOLEAN,
                     entry : [1 .. 4 -> Entry]]
  /\ Tries \in Nat \ {0}

(* The nodes of the lists: the two heads of sys_disk, <<s, 0>> for the disk *)
(* of slot s and <<s, i>> for the partition of its entry i.                *)
Disks == <<"disks", 0>>
Partitions == <<"partitions", 0>>
Null == <<"null", 0>>
Node == (Slots \X (0 .. 4)) \union {Disks, Partitions, Null}

(* The heads are fields of sys_disk, and no disk or partition is a head.   *)
ASSUME NodeAssumption == {"disks", "partitions", "null"} \intersect Slots = {}

VARIABLES
  card,        (* The card in each slot: its kind, state, address (RCA),   *)
               (* whether CMD55 came last, bus width.                      *)
  sd,          (* struct sd_card: version, addr, sdhc, bus4; and the       *)
               (* controller's width.                                      *)
  pc,          (* The step of each slot's thread.                          *)
  tries,       (* The rounds of sd_send_op_cond that are left.             *)
  next, prev,  (* The links of the nodes; a disk is allocated as zeroes.   *)
  store,       (* The stores of list_add_last that a thread has done.      *)
  last,        (* The node it read last, as the tail or in a walk.         *)
  letter,      (* The letter disk_set_name gives each slot's disk.         *)
  part,        (* struct disk's partitions, entry -> digit of its name;    *)
               (* 0 where there is none.                                   *)
  index,       (* The entry that disk_add mounts next.                     *)
  oneByOne     (* Each card is inserted when the one before is mounted.    *)

listVars == <<next, prev, store, last>>
diskVars == <<letter, part, index, oneByOne>>
vars == <<card, sd, pc, tries, listVars, diskVars>>

Init ==
  /\ card \in [Slots -> [kind : Cards, state : {"none"}, rca : {0},
                         app : {FALSE}, width : {1}]]
  /\ sd = [s \in Slots |-> [version |-> 1, addr |-> 0, sdhc |-> FALSE,
                            bus4 |-> FALSE, width |-> 1]]
  /\ pc = [s \in Slots |-> "empty"]
  /\ tries = [s \in Slots |-> Tries]
  /\ next = [n \in Node |-> IF n \in {Disks, Partitions} THEN n ELSE Null]
  /\ prev = next
  /\ store = [s \in Slots |-> 0]
  /\ last = [s \in Slots |-> Null]
  /\ letter = [s \in Slots |-> 0]
  /\ part = [s \in Slots |-> [i \in 1 .. 4 |-> 0]]
  /\ index = [s \in Slots |-> 1]
  /\ oneByOne \in BOOLEAN

-----------------------------------------------------------------------------
(* The card.  Takes(c, cmd, addr) says that it answers; CMD55 announces an *)
(* application command, ACMDs are the ones that need it.                   *)
Takes(c, cmd, addr) ==
  CASE cmd = "CMD0" -> c.state # "none"
    [] cmd = "CMD8" -> c.state = "idle" /\ c.kind.version = 2
    [] cmd = "CMD55" -> c.state # "none" /\ addr = c.rca
    [] cmd = "ACMD41" -> c.state = "idle" /\ c.app
    [] cmd = "CMD2" -> c.state = "ready"
    [] cmd = "CMD3" -> c.state = "ident"
    [] cmd = "CMD9" -> c.state = "stby" /\ addr = c.rca
    [] cmd = "CMD7" -> c.state = "stby" /\ addr = c.rca
    [] cmd = "ACMD51" -> c.state = "tran" /\ c.app
    [] cmd = "ACMD6" -> c.state = "tran" /\ c.app
    [] cmd = "CMD13" -> c.state \in {"stby", "tran"} /\ addr = c.rca
    [] cmd = "CMD17" -> c.state = "tran"

(* What a command that is taken does to the card.  A card of high capacity *)
(* leaves the idle state only for a host that says it supports them (HCS). *)
After(c, cmd, hcs) ==
  LET d == [c EXCEPT !.app = (cmd = "CMD55")]
  IN  CASE cmd = "CMD0" -> [d EXCEPT !.state = "idle", !.rca = 0]
        [] cmd = "ACMD41" /\ hcs -> [d EXCEPT !.state = "ready"]
        [] cmd = "CMD2" -> [d EXCEPT !.state = "ident"]
        [] cmd = "CMD3" -> [d EXCEPT !.state = "stby", !.rca = 1]
        [] cmd = "CMD7" -> [d EXCEPT !.state = "tran"]
        [] OTHER -> d

(* A kernel that has panicked, or faulted, does nothing more.             *)
Running == \A s \in Slots : pc[s] \notin {"panic", "fault"}

At(s, step) == Running /\ pc[s] = step
GoTo(s, step) == pc' = [pc EXCEPT ![s] = step]

(* mmc_send_command: sends cmd and goes on at step, or times out. *)
Issue(s, cmd, step) ==
  IF Takes(card[s], cmd, sd[s].addr)
  THEN /\ card' = [card EXCEPT ![s] = After(@, cmd, TRUE)]
       /\ GoTo(s, step)
  ELSE GoTo(s, "panic") /\ UNCHANGED card

(* A step of the enumeration that sends one command. *)
Send(s, here, cmd, then) ==
  /\ At(s, here)
  /\ Issue(s, cmd, then)
  /\ UNCHANGED <<sd, tries, listVars, diskVars>>

-----------------------------------------------------------------------------
(* The card-detect interrupt and mmc_card_insert: the bus is powered, and  *)
(* a thread created; sd_init_thread sets the address and the width.  A     *)
(* card that has bounced out again fails the assertion.                    *)
CardInsert(s) ==
  /\ At(s, "empty")
  /\ oneByOne => \A r \in Slots : pc[r] \in {"empty", "done"}
  /\ \/ card' = [card EXCEPT ![s].state = "idle"] /\ GoTo(s, "idle")
     \/ UNCHANGED card /\ GoTo(s, "panic")
  /\ UNCHANGED <<sd, tries, listVars, diskVars>>

(* The interrupt when a card is taken out, which comes before the slot's   *)
(* thread goes on.  A second insertion of a slot comes after a removal, or *)
(* with it in one interrupt, and stops the kernel with it.                 *)
CardRemove(s) ==
  /\ Running /\ pc[s] # "empty"
  /\ card' = [card EXCEPT ![s].state = "none"]
  /\ GoTo(s, "panic")
  /\ UNCHANGED <<sd, tries, listVars, diskVars>>

GoToIdle(s) == Send(s, "idle", "CMD0", "condition")

(* sd_send_interface_condition. *)
InterfaceCondition(s) ==
  /\ At(s, "condition")
  /\ Issue(s, "CMD8", "opcond")
  /\ sd' = IF Takes(card[s], "CMD8", 0) THEN [sd EXCEPT ![s].version = 2] ELSE sd
  /\ UNCHANGED <<tries, listVars, diskVars>>

(* sd_send_op_cond: CMD55 and ACMD41 until the card is ready. *)
OpCondPrefix(s) ==
  /\ At(s, "opcond")
  /\ Issue(s, "CMD55", "acmd41")
  /\ UNCHANGED <<sd, tries, listVars, diskVars>>

OpCond(s) ==
  /\ At(s, "acmd41")
  /\ LET c == card[s]
         hcs == sd[s].version = 2
     IN  \/ (* Ready; bit 30 of the answer says if it is of high capacity. *)
            /\ Takes(c, "ACMD41", sd[s].addr)
            /\ c.kind.hc => hcs
            /\ card' = [card EXCEPT ![s] = After(@, "ACMD41", TRUE)]
            /\ sd' = [sd EXCEPT ![s].sdhc = c.kind.hc]
            /\ GoTo(s, "cid")
            /\ UNCHANGED tries
         \/ (* Busy: once more, or a timeout.                              *)
            /\ Takes(c, "ACMD41", sd[s].addr)
            /\ card' = [card EXCEPT ![s] = After(@, "ACMD41", FALSE)]
            /\ tries' = [tries EXCEPT ![s] = @ - 1]
            /\ GoTo(s, IF tries[s] = 1 THEN "panic" ELSE "opcond")
            /\ UNCHANGED sd
  /\ UNCHANGED <<listVars, diskVars>>

AllCid(s) == Send(s, "cid", "CMD2", "rca")

(* Variant: the address that the card publishes is not kept. *)
RelativeAddrDropped(s) ==
  /\ At(s, "rca")
  /\ Issue(s, "CMD3", "csd")
  /\ UNCHANGED <<sd, tries, listVars, diskVars>>

(* sd_send_relative_addr. *)
RelativeAddr(s) ==
  /\ At(s, "rca")
  /\ Issue(s, "CMD3", "csd")
  /\ sd' = [sd EXCEPT ![s].addr = card'[s].rca]
  /\ UNCHANGED <<tries, listVars, diskVars>>

GetCsd(s) == Send(s, "csd", "CMD9", "select")
Select(s) == Send(s, "select", "CMD7", "scr55")

(* sd_get_scr: the register says whether the card has four data lines. *)
ScrPrefix(s) == Send(s, "scr55", "CMD55", "scr")

GetScr(s) ==
  /\ At(s, "scr")
  /\ Issue(s, "ACMD51", IF card[s].kind.bus4 THEN "width55" ELSE "name")
  /\ sd' = [sd EXCEPT ![s].bus4 = card[s].kind.bus4]
  /\ UNCHANGED <<tries, listVars, diskVars>>

(* sd_set_bus_width of the card, mmc_set_bus_width of the controller. *)
WidthPrefix(s) == Send(s, "width55", "CMD55", "width")

CardWidth(s) ==
  /\ At(s, "width")
  /\ IF Takes(card[s], "ACMD6", sd[s].addr)
     THEN /\ card' = [card EXCEPT ![s] = [After(@, "ACMD6", TRUE) EXCEPT !.width = 4]]
          /\ GoTo(s, "hostwidth")
     ELSE GoTo(s, "panic") /\ UNCHANGED card
  /\ UNCHANGED <<sd, tries, listVars, diskVars>>

HostWidth(s) ==
  /\ At(s, "hostwidth")
  /\ sd' = [sd EXCEPT ![s].width = 4]
  /\ GoTo(s, "name")
  /\ UNCHANGED <<card, tries, listVars, diskVars>>

-----------------------------------------------------------------------------
(* list_iterate goes from node to node, one at a step, and the other       *)
(* slot's thread may link its nodes in between.  A walk that comes to a    *)
(* node without links reads through address 0.                             *)
StartWalk(s, head, step) ==
  last' = [last EXCEPT ![s] = next[head]] /\ GoTo(s, step)

WalkOn(s, head, then) ==
  \/ last[s] = head /\ GoTo(s, then) /\ UNCHANGED last
  \/ last[s] = Null /\ GoTo(s, "fault") /\ UNCHANGED last
  \/ /\ last[s] \notin {head, Null}
     /\ last' = [last EXCEPT ![s] = next[last[s]]]
     /\ UNCHANGED pc

(* disk_set_name: the letter counts the disks that are listed; all of them *)
(* are SD disks.                                                           *)
SetName(s) ==
  /\ At(s, "name")
  /\ letter' = [letter EXCEPT ![s] = 1]
  /\ StartWalk(s, Disks, "count")
  /\ UNCHANGED <<card, sd, tries, next, prev, store, part, index, oneByOne>>

CountDisk(s) ==
  /\ At(s, "count")
  /\ WalkOn(s, Disks, "adddisk")
  /\ letter' = [letter EXCEPT ![s] = IF last[s] \in {Disks, Null} THEN @ ELSE @ + 1]
  /\ UNCHANGED <<card, sd, tries, next, prev, store, part, index, oneByOne>>

(* list_add_last: reads the last node, then the stores of _list_add.       *)
AddLast(s, node, head) ==
  /\ store' = [store EXCEPT ![s] = (@ + 1) % 5]
  /\ last' = IF store[s] = 0 THEN [last EXCEPT ![s] = prev[head]] ELSE last
  /\ next' = CASE store[s] = 1 -> [next EXCEPT ![last[s]] = node]
               [] store[s] = 3 -> [next EXCEPT ![node] = head]
               [] OTHER -> next
  /\ prev' = CASE store[s] = 2 -> [prev EXCEPT ![head] = node]
               [] store[s] = 4 -> [prev EXCEPT ![node] = last[s]]
               [] OTHER -> prev

AddDisk(s) ==
  /\ At(s, "adddisk")
  /\ AddLast(s, <<s, 0>>, Disks)
  /\ GoTo(s, IF store[s] = 4 THEN "mbrready" ELSE "adddisk")
  /\ UNCHANGED <<card, sd, tries, diskVars>>

(* sd_read asks for the status of the card and then for the sector; a      *)
(* transfer with another width on the bus fails, and mmc_read_raw panics.  *)
MbrReady(s) == Send(s, "mbrready", "CMD13", "mbr")
BpbReady(s) == Send(s, "bpbready", "CMD13", "bpb")

Transferred(s) ==
  Takes(card[s], "CMD17", sd[s].addr) /\ card[s].width = sd[s].width

(* disk_find_partitions: entries with a bad status are skipped and the     *)
(* others are numbered as they come.                                       *)
ValidEntry(k, i) == k.entry[i] \notin {"none", "badstatus"}

FindPartitions(s) ==
  /\ At(s, "mbr")
  /\ LET k == card[s].kind
         Digit(i) == Cardinality({j \in 1 .. i : ValidEntry(k, j)})
     IN  IF Transferred(s)
         THEN /\ part' = [part EXCEPT ![s] = [i \in 1 .. 4 |->
                            IF k.mbr /\ ValidEntry(k, i) THEN Digit(i) ELSE 0]]
              /\ GoTo(s, "mount")
         ELSE GoTo(s, "panic") /\ UNCHANGED part
  /\ UNCHANGED <<card, sd, tries, listVars, letter, index, oneByOne>>

(* disk_add's loop over the entries of the table, then list_partitions. *)
NextPartition(s) ==
  /\ At(s, "mount")
  /\ \/ /\ index[s] <= 4
        /\ part[s][index[s]] # 0
        /\ GoTo(s, "bpbready")
        /\ UNCHANGED <<index, last>>
     \/ /\ index[s] <= 4
        /\ part[s][index[s]] = 0
        /\ index' = [index EXCEPT ![s] = @ + 1]
        /\ UNCHANGED <<pc, last>>
     \/ /\ index[s] > 4
        /\ StartWalk(s, Partitions, "list")
        /\ UNCHANGED index
  /\ UNCHANGED <<card, sd, tries, next, prev, store, letter, part, oneByOne>>

ListPartition(s) ==
  /\ At(s, "list")
  /\ WalkOn(s, Partitions, "done")
  /\ UNCHANGED <<card, sd, tries, next, prev, store, diskVars>>

(* Variant: a partition that cannot be mounted is added all the same.      *)
MountAnyPartition(s) ==
  /\ At(s, "bpb")
  /\ GoTo(s, IF Transferred(s) THEN "addpart" ELSE "panic")
  /\ UNCHANGED <<card, sd, tries, listVars, diskVars>>

(* fat_mount_partition; a card that counts in bytes and is addressed in    *)
(* sectors, or the other way round, answers with another sector.           *)
MountPartition(s) ==
  /\ At(s, "bpb")
  /\ LET k == card[s].kind
     IN  IF ~Transferred(s)
         THEN GoTo(s, "panic") /\ UNCHANGED index
         ELSE IF k.entry[index[s]] = "fat32" /\ sd[s].sdhc = k.hc
         THEN GoTo(s, "addpart") /\ UNCHANGED index
         ELSE GoTo(s, "mount") /\ index' = [index EXCEPT ![s] = @ + 1]
  /\ UNCHANGED <<card, sd, tries, listVars, letter, part, oneByOne>>

AddPartition(s) ==
  /\ At(s, "addpart")
  /\ AddLast(s, <<s, index[s]>>, Partitions)
  /\ IF store[s] = 4
     THEN GoTo(s, "mount") /\ index' = [index EXCEPT ![s] = @ + 1]
     ELSE UNCHANGED <<pc, index>>
  /\ UNCHANGED <<card, sd, tries, letter, part, oneByOne>>

InitThread(s) ==
  \/ GoToIdle(s) \/ InterfaceCondition(s) \/ OpCondPrefix(s) \/ OpCond(s)
  \/ AllCid(s) \/ RelativeAddr(s) \/ GetCsd(s) \/ Select(s)
  \/ ScrPrefix(s) \/ GetScr(s) \/ WidthPrefix(s) \/ CardWidth(s) \/ HostWidth(s)
  \/ SetName(s) \/ CountDisk(s) \/ AddDisk(s) \/ MbrReady(s) \/ FindPartitions(s)
  \/ NextPartition(s) \/ BpbReady(s) \/ MountPartition(s) \/ AddPartition(s)
  \/ ListPartition(s)

(* Nothing is left to do: every card is mounted, or the kernel stopped.    *)
AllDone ==
  /\ ~Running \/ \A s \in Slots : pc[s] = "done"
  /\ UNCHANGED vars

Next ==
  \/ \E s \in Slots : CardInsert(s) \/ CardRemove(s) \/ InitThread(s)
  \/ AllDone

Spec == Init /\ [][Next]_vars

-----------------------------------------------------------------------------
(* The driver stops the kernel only for a card that does not answer CMD8   *)
(* (a version 1 card), that stays busy for all the rounds of ACMD41, or    *)
(* that is not in its slot any more.  Any other card is enumerated by the  *)
(* right commands in the right order, and is read with the width it was    *)
(* set to.                                                                 *)
PanicOnlyIfUnsupported ==
  \A s \in Slots :
    pc[s] = "panic" =>
      card[s].kind.version = 1 \/ tries[s] = 0 \/ card[s].state = "none"

(* The nodes of a list that a walk from its head on comes to.              *)
Walk(head) ==
  LET Step(n) == IF n = head THEN head ELSE next[n]
      at[k \in 0 .. Cardinality(Node)] ==
        IF k = 0 THEN next[head] ELSE Step(at[k - 1])
  IN  {at[k] : k \in DOMAIN at}

Listed(head) == Walk(head) \ {head, Null}

(* Once a card that had the lists for itself is mounted, its disk is       *)
(* listed, its FAT32 partitions are listed and no other entries of it, no  *)
(* other disk has its letter, and no walk ran into a half-linked node.     *)
Mounted(s) == {<<s, i>> : i \in {j \in 1 .. 4 : card[s].kind.mbr
                                          /\ card[s].kind.entry[j] = "fat32"}}
CardIsMounted ==
  oneByOne =>
    \A s \in Slots :
      /\ pc[s] # "fault"
      /\ Running /\ pc[s] = "done" =>
           /\ <<s, 0>> \in Listed(Disks)
           /\ Listed(Partitions) \intersect ({s} \X (1 .. 4)) = Mounted(s)
           /\ \A i, j \in 1 .. 4 : part[s][i] = part[s][j] /\ part[s][i] # 0 => i = j
           /\ \A r \in Slots \ {s} : pc[r] = "done" => letter[r] # letter[s]
=============================================================================
