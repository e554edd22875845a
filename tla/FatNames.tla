------------------------------ MODULE FatNames ------------------------------
(***************************************************************************)
(* How fs/fat.c compares a name of a path with a directory entry: the      *)
(* short (8.3) name of an entry, and the fragments of a long name.  Names  *)
(* are sequences of characters; a short name always has BaseLen characters *)
(* and ExtLen of the extension, padded with spaces.                        *)
(***************************************************************************)
EXTENDS Integers, Sequences

CONSTANTS
  BaseLen,   (* 8  *)
  ExtLen,    (* 3  *)
  FragLen,   (* The characters of a long name in one entry: 13.            *)
  Upper,     (* The characters and their upper case, a function.           *)
  Lower,     (* The characters and their lower case, a function.           *)
  Illegal    (* The characters a short name may not have, "." among them.  *)

ASSUME NamesAssumption ==
  /\ {BaseLen, ExtLen, FragLen} \subseteq Nat \ {0}
  /\ {".", " "} \subseteq DOMAIN Upper
  /\ DOMAIN Lower = DOMAIN Upper
  /\ "." \in Illegal

UpperName(s) == [i \in 1 .. Len(s) |-> Upper[s[i]]]

IsPrefixOf(s, t) == Len(s) <= Len(t) /\ \A i \in 1 .. Len(s) : s[i] = t[i]

Blank(sfn, i, j) == \A k \in i .. j : sfn[k] = " "

(* A character of a short name against one of a path. *)
CharMatches(sfnChar, fileChar) ==
  /\ sfnChar \notin Illegal \union {" "}
  /\ Upper[fileChar] = Upper[sfnChar]

(* fat_sfn_compare_uni.  The base of the name ends at a dot, at the end of *)
(* the name or when BaseLen characters are compared, whichever is first.   *)
(* A name that ends there is not compared with the extension; one whose    *)
(* BaseLen characters are all compared must have something behind.         *)
SfnMatches(sfn, name) ==
  LET len == Len(name)
      Ends(i) == i = BaseLen \/ i >= len \/ name[i + 1] = "."
      stop == CHOOSE i \in 0 .. BaseLen : Ends(i) /\ \A j \in 0 .. i - 1 : ~Ends(j)
      ext == IF stop = BaseLen - 1 THEN stop + 2 ELSE stop + 1
      compared == IF len - ext < ExtLen THEN len - ext ELSE ExtLen
  IN  /\ \A i \in 1 .. stop : CharMatches(sfn[i], name[i])
      /\ Blank(sfn, stop + 1, BaseLen)
      /\ \/ stop < BaseLen /\ stop >= len
         \/ /\ ~(stop < BaseLen /\ stop >= len)
            /\ stop + 1 < len
            /\ stop = BaseLen - 1 => name[stop + 2] = "."
            /\ \A k \in 1 .. compared :
                 CharMatches(sfn[BaseLen + k], name[ext + k])
            /\ Blank(sfn, BaseLen + compared + 1, BaseLen + ExtLen)

(* fat_lfn_cmp_frag: is the fragment in the name, from offset on; a        *)
(* negative one is a large unsigned number.                                *)
FragMatches(name, frag, offset) ==
  /\ offset \in 0 .. Len(name) - 1
  /\ IsPrefixOf(frag, SubSeq(name, offset + 1, Len(name)))

(* fat_sfn_to_file_name: the characters of the base and of the extension   *)
(* up to the first space, with a dot between if there is an extension.     *)
UpToSpace(s) ==
  LET stop == CHOOSE i \in 0 .. Len(s) :
                /\ i = Len(s) \/ s[i + 1] = " "
                /\ \A j \in 1 .. i : s[j] # " "
  IN  [i \in 1 .. stop |-> Lower[s[i]]]

FileName(sfn) ==
  LET ext == UpToSpace(SubSeq(sfn, BaseLen + 1, BaseLen + ExtLen))
  IN  UpToSpace(SubSeq(sfn, 1, BaseLen)) \o IF ext = <<>> THEN <<>> ELSE <<".">> \o ext

-----------------------------------------------------------------------------
(* What the functions are for, to compare them with: the short name that   *)
(* the FAT specification gives a name, if it can have one.                 *)
DotAt(name) ==
  IF \E i \in 1 .. Len(name) : name[i] = "."
  THEN CHOOSE i \in 1 .. Len(name) :
         name[i] = "." /\ \A j \in i + 1 .. Len(name) : name[j] # "."
  ELSE Len(name) + 1

Base(name) == SubSeq(name, 1, DotAt(name) - 1)
Ext(name) == SubSeq(name, DotAt(name) + 1, Len(name))

(* The directory itself and its parent, which are entries like any other.  *)
IsDots(name) == name \in {<<".">>, <<".", ".">>}

HasShortName(name) ==
  \/ IsDots(name)
  \/ /\ Len(Base(name)) \in 1 .. BaseLen
     /\ Len(Ext(name)) <= ExtLen
     /\ \A i \in 1 .. Len(name) : i = DotAt(name) \/ name[i] \notin Illegal \union {" "}

Padded(s, n) == [i \in 1 .. n |-> IF i <= Len(s) THEN Upper[s[i]] ELSE " "]

ShortName(name) ==
  IF IsDots(name) THEN Padded(name, BaseLen + ExtLen)
  ELSE Padded(Base(name), BaseLen) \o Padded(Ext(name), ExtLen)
=============================================================================
