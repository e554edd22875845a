----------------------------- MODULE MCLoader -----------------------------
(* Two files: one ends with a tail, and its segment takes in its headers;  *)
(* the other ends after two whole pages, so that it is ended by an empty   *)
(* packet, and its segment is the second.                                  *)
EXTENDS Loader

MCFrames == 0 .. 23
MCSize == [o \in 0 .. Widest |-> 2 ^ o]
MCPages == [f \in Files |-> IF f \in HasTail THEN 1 ELSE 2]
MCOffset == [f \in Files |-> IF f \in HasTail THEN 0 ELSE 1]
MCSegPages == [f \in Files |-> IF f \in HasTail THEN 2 ELSE 1]
MCMemPages == [f \in Files |-> IF f \in HasTail THEN 3 ELSE 2]
MCVAddr == [f \in Files |-> IF f \in HasTail THEN 6 ELSE 4]
=============================================================================
