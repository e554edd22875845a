------------------------------- MODULE MCFat -------------------------------
(* Small volumes for Fat: a root directory of 16 cells, a directory in it  *)
(* and the bytes of a file, in clusters of one, two or four pages.         *)
EXTENDS Fat, TLC

Pad(s) == s \o [i \in 1 .. BaseLen + ExtLen - Len(s) |-> " "]
MCUpper == [c \in {"a", "b", "A", "B", ".", " "} |->
              IF c = "a" THEN "A" ELSE IF c = "b" THEN "B" ELSE c]
MCLower == [c \in DOMAIN MCUpper |->
              IF c = "A" THEN "a" ELSE IF c = "B" THEN "b" ELSE c]

End == [kind |-> "end", seq |-> 0, frag |-> <<>>]
Sfn(s, d, c, n) == [kind |-> "sfn", sfn |-> s, dir |-> d, clust |-> c, size |-> n,
                    seq |-> IF s[1] = "A" THEN 1 ELSE 2, frag |-> <<>>]
Lfn(k, l, f, s) == [kind |-> "lfn", seq |-> k, last |-> l, frag |-> f, crc |-> s]
Gone == [kind |-> "deleted", long |-> FALSE, frag |-> <<>>]
GoneLong == [kind |-> "deleted", long |-> TRUE, last |-> TRUE,
             frag |-> <<"a">>, crc |-> <<>>]
Byte(i) == [kind |-> "data", at |-> i, dir |-> FALSE, seq |-> i % 6, frag |-> <<>>]

(* Short names: a base of three characters, an extension of two. *)
AB == <<"A", "B", " ", " ", " ">>
ABB == <<"A", "B", "B", " ", " ">>
ADotB == <<"A", " ", " ", "B", " ">>
BB == <<"B", "B", " ", " ", " ">>

(* The cells of what begins at a cluster, and the chain of its clusters. *)
Laid(chain, cells) ==
  [page \in {DataStart + (chain[i] - RootClust) * 2 ^ ClustOrder + k :
               i \in 1 .. Len(chain), k \in 0 .. 2 ^ ClustOrder - 1} |->
     LET i == CHOOSE j \in 1 .. Len(chain) :
                page - DataStart - (chain[j] - RootClust) * 2 ^ ClustOrder
                  \in 0 .. 2 ^ ClustOrder - 1
         k == page - DataStart - (chain[i] - RootClust) * 2 ^ ClustOrder
         first == (i - 1) * ClustCells + k * PageCells
     IN  [o \in 0 .. PageCells - 1 |->
            IF first + o < Len(cells) THEN cells[first + o + 1] ELSE End]]

Link(chain) == [c \in {chain[i] : i \in 1 .. Len(chain)} |->
                  LET i == CHOOSE j \in 1 .. Len(chain) : chain[j] = c
                  IN  IF i = Len(chain) THEN Eoc ELSE chain[i + 1]]

(* How many clusters so many cells take. *)
ClustersOf(n) == (n + ClustCells - 1) \div ClustCells
RootLen == ClustersOf(16)
SubLen == ClustersOf(7)

(* Chains in a row, and chains of which each has every other cluster. *)
Chain(first, step, n) == [i \in 1 .. n |-> first + step * (i - 1)]
InRows == [root |-> Chain(RootClust, 1, RootLen),
           body |-> Chain(RootClust + RootLen, 1, 3),
           sub |-> Chain(RootClust + RootLen + 3, 1, SubLen)]
Spread == [root |-> Chain(RootClust, 2, RootLen),
           body |-> Chain(RootClust + 1, 2, 3),
           sub |-> Chain(RootClust + 2 * RootLen, 1, SubLen)]

FatSize == 2 ^ EntOrder * (DataStart - FatStart)

Volume(chains, stray, root, sub) ==
  [fat |-> (Link(chains.root) @@ Link(chains.sub) @@ Link(chains.body))
             @@ [c \in 0 .. FatSize - 1 |-> 0],
   cell |-> Laid(chains.root, root) @@ Laid(chains.sub, sub)
              @@ Laid(chains.body, [i \in 1 .. 3 * ClustCells |-> Byte(i)]),
   stray |-> stray]

LongABAB(s) == <<Lfn(3, TRUE, <<"b">>, s), Lfn(2, FALSE, <<"b", "a">>, s),
                 Lfn(1, FALSE, <<"a", "b">>, s)>>

VolumesOf(chains, stray) ==
  LET part == ClustCells + 2
      File(s, n) == Sfn(s, FALSE, chains.body[1], n)
      Dir(s) == Sfn(s, TRUE, chains.sub[1], 0)
      SubDir == <<Dir(Pad(<<".">>)), Sfn(Pad(<<".", ".">>), TRUE, 0, 0)>>
  IN {
  (* Long names over the end of a page and of a cluster, an empty file.    *)
  Volume(chains, stray,
         <<File(ABB, part), Gone, Dir(BB), GoneLong, Gone>> \o LongABAB(AB)
           \o <<File(AB, part), Sfn(ADotB, FALSE, 0, 0)>>,
         SubDir \o LongABAB(ADotB) \o <<File(ADotB, 2 * ClustCells - 1)>>),
  (* A deleted fragment in front, an orphaned long name, a directory       *)
  (* without an end, with a fragment in its last cell.                     *)
  Volume(chains, stray,
         <<GoneLong, Gone, File(AB, 3 * ClustCells), Dir(BB)>>
           \o LongABAB(BB) \o <<File(ADotB, ClustCells)>>
           \o [i \in 1 .. RootLen * ClustCells - 9 |-> Gone]
           \o <<Lfn(3, TRUE, <<"a">>, AB)>>,
         SubDir),
  (* An orphaned long name between others, an end behind.                  *)
  Volume(chains, stray,
         <<Dir(BB)>> \o LongABAB(BB) \o <<File(ADotB, part)>> \o LongABAB(AB)
           \o <<File(AB, part), Gone, File(ABB, 1)>>,
         SubDir \o <<File(ADotB, ClustCells)>>),
  (* A deleted fragment in front of entries that are passed over.          *)
  Volume(chains, stray,
         <<GoneLong, Gone, Dir(BB), Gone, Gone, File(ABB, part)>> \o LongABAB(AB)
           \o <<File(AB, part), Dir(ADotB)>>,
         LongABAB(BB) \o SubDir) }

MCVolumesStray == UNION {VolumesOf(Spread, w) : w \in {-1, 0, Spread.sub[1]}}
MCVolumesLarge == VolumesOf(Spread, -1) \union VolumesOf(InRows, -1)

MCPaths ==
  LET ab == <<"a", "b">>
      abab == <<"a", "b", "b", "a", "b">>
      names == {ab, <<"A", "b", "b">>, <<"a", ".", "b">>, abab, abab \o <<".">>,
                <<"a", "a">>, <<".", ".">>}
  IN  {<<>>, << <<"b", "b">> >>} \union {<<n>> : n \in names}
        \union {<< <<"b", "b">>, n>> : n \in names}
        \union {<<ab, <<>>, ab>>}
=============================================================================
