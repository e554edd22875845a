----------------------------- MODULE MCStorage -----------------------------
(* Storage with cards of every kind the driver tells apart, and Fat with   *)
(* the volumes of MCFat.  The two share no variable: either the cards move *)
(* and no volume is there yet, or the slots are empty.                     *)
EXTENDS Storage, MCFat

MCCards == {
  [version |-> 2, hc |-> TRUE, bus4 |-> TRUE, mbr |-> TRUE,
   entry |-> <<"fat32", "badstatus", "none", "fat32">>],
  [version |-> 2, hc |-> FALSE, bus4 |-> FALSE, mbr |-> TRUE,
   entry |-> <<"none", "fat16", "fat32", "nosignature">>],
  [version |-> 2, hc |-> FALSE, bus4 |-> TRUE, mbr |-> FALSE,
   entry |-> <<"fat32", "none", "none", "none">>],
  [version |-> 1, hc |-> FALSE, bus4 |-> FALSE, mbr |-> TRUE,
   entry |-> <<"fat32", "none", "none", "none">>] }

NoVolume == <<>>

NoCards == Init /\ oneByOne /\ \A s \in Slots : card[s].kind = CHOOSE k \in Cards : TRUE

InitBoth == \/ Init /\ vol = NoVolume /\ NothingOpen
            \/ NoCards /\ InitFat

NextBoth ==
  \/ vol = NoVolume /\ Next /\ UNCHANGED fatVars
  \/ vol # NoVolume /\ NextFat /\ UNCHANGED vars

SpecBoth == InitBoth /\ [][NextBoth]_<<vars, fatVars>>
=============================================================================
