------------------------------ MODULE FileCopy ------------------------------
(* What a download promises: the file's blocks come one by one, in order,  *)
(* and the copy is complete when it is the file.  A stranger's packet ends *)
(* the promise.                                                            *)
EXTENDS Integers, Sequences

CONSTANT Blocks
VARIABLES file, copy, complete, disturbed

Init ==
  /\ file \in Seq(Blocks)
  /\ copy = <<>>
  /\ complete = FALSE
  /\ disturbed = FALSE

NextBlock ==
  /\ ~disturbed /\ ~complete
  /\ Len(copy) < Len(file)
  /\ copy' = Append(copy, file[Len(copy) + 1])
  /\ complete' \in {FALSE, copy' = file}
  /\ UNCHANGED <<file, disturbed>>

Disturbed == disturbed' = TRUE /\ UNCHANGED file

Next == NextBlock \/ Disturbed
Spec == Init /\ [][Next]_<<file, copy, complete, disturbed>>
=============================================================================
