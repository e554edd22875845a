-------------------------------- MODULE Pid ---------------------------------
(***************************************************************************)
(* The PID allocator: a tree of two levels of words of Width bits (32 in   *)
(* the code), in which a set bit of a leaf is a free PID and a set bit of  *)
(* the root a leaf that has one.  A word is the set of its set bits.       *)
(***************************************************************************)
EXTENDS Naturals, Sequences

CONSTANTS
  Width,      (* Bits of a word.                                           *)
  Kthreads    (* Bound on the kernel threads that are created.             *)

ASSUME WidthAssumption == Width \in Nat /\ Width > 1

VARIABLES
  root,       (* pid_table[0].                                             *)
  leaf,       (* The words after it, numbered from 0.                      *)
  pids        (* The PIDs given to the kernel threads, in order.           *)

pidVars == <<root, leaf, pids>>

Bits == 0 .. Width - 1

(* pid_init: every PID is free. *)
PidInit == root = Bits /\ leaf = [i \in Bits |-> Bits] /\ pids = << >>

(* __builtin_ctz of a word that is not zero. *)
Lowest(word) == CHOOSE b \in word : \A c \in word : b <= c

(* Variant: the comparison misses the last bit. *)
ParentGoesLate(bit) == bit = Width

(* Taking the last PID of a leaf takes the leaf's bit in the root. *)
ParentGoes(bit) == bit = Width - 1

(* alloc_pid, for a new kernel thread: the lowest free PID. *)
AllocPid ==
  /\ root # {}
  /\ LET i == Lowest(root)
         b == IF leaf[i] = {} THEN Width ELSE Lowest(leaf[i])
     IN /\ leaf' = [leaf EXCEPT ![i] = @ \ {b}]
        /\ root' = IF ParentGoes(b) THEN root \ {i} ELSE root
        /\ pids' = Append(pids, Width * i + b)

(* create_kthread, with its early return when no PID is left.  The PID is  *)
(* searched with the count of the trailing zeros of a zero word: it is not *)
(* defined, and here is what the instruction gives.                        *)
CreateKthread ==
  /\ Len(pids) < Kthreads
  /\ \/ AllocPid
     \/ root = {} /\ UNCHANGED pidVars
=============================================================================
