-------------------------------- MODULE Fat --------------------------------
(***************************************************************************)
(* Files and directories of a mounted FAT32 volume, fs/fat.c and fs/fs.c:  *)
(* opening a path, iterating over a directory, reading a file.             *)
(*                                                                         *)
(* A file object is used by one thread, so that nothing interleaves.  What *)
(* is hard is the position: the offset in the file, the page on the disk   *)
(* and the offset in the page are moved on separately, over the ends of    *)
(* pages and clusters, and the page in the cache must be the one meant.    *)
(*                                                                         *)
(* A cell is what a position moves over: a directory entry of 32 bytes, or *)
(* a byte of a file.  A page has 2^PageOrder cells.                        *)
(***************************************************************************)
EXTENDS FatNames

CONSTANTS
  PageOrder,   (* fat->page_order, in cells.                               *)
  ClustOrder,  (* fat->clust_order: a cluster has 2^ClustOrder pages.      *)
  EntOrder,    (* fat->fat_ent_order: FAT entries in a page.               *)
  RootClust,   (* fat->root_clust_num *)
  FatStart,    (* fat->fat_start, in pages.                                *)
  DataStart,   (* fat->data_start, in pages.                               *)
  Eoc,         (* The FAT entry of the last cluster of a chain.            *)
  SeqMask,     (* LFN_SEQ_MSK, the largest sequence number of a fragment.  *)
  Volumes,     (* The volumes: [fat, cell, stray], see Here and FatEntry.  *)
  Paths,       (* The paths callers open, as sequences of names.           *)
  Requests     (* The numbers of bytes callers read.                       *)

PageCells == 2 ^ PageOrder
PageMask == PageCells - 1
ClustMask == 2 ^ ClustOrder - 1
ClustCells == PageCells * 2 ^ ClustOrder

(* The number of pages by which fat_inc_file_ptr shifts, clust_mask, is    *)
(* the one it means, clust_order, for clusters of one or two pages only.   *)
MaskIsOrder == ClustOrder \in {0, 1}

(* Over larger clusters no move comes to the end of what the code takes    *)
(* for a cluster: clusters of 4 pages are taken for 8, and 3 + 2 < 8.      *)
ASSUME FatAssumption ==
  /\ {PageOrder, ClustOrder, EntOrder, RootClust, FatStart, DataStart} \subseteq Nat
  /\ {PageCells, 2 ^ EntOrder, 2 ^ ClustOrder, 2 ^ ClustMask} \subseteq Nat \ {0}
  /\ SeqMask \in Nat /\ SeqMask >= 5
  /\ MaskIsOrder \/ ClustMask + (PageMask + SeqMask) \div PageCells < 2 ^ ClustMask
  /\ Requests \subseteq Nat \ {0}

(* The clusters that a volume uses: their entries lead on. *)
Used(v) == {c \in DOMAIN v.fat : c >= RootClust /\ v.fat[c] >= 2}

(* What of a cell of a volume has to be in order: the fields are numbers.  *)
InOrder(c) ==
  /\ c.kind # "deleted" => c.seq \in 0 .. SeqMask
  /\ c.kind = "sfn" => c.size \in Nat /\ c.clust \in Nat

(* A word of the FAT: free, reserved or bad, or the number of a cluster.   *)
Word(w) == w \in Nat /\ (w < 2 \/ w >= RootClust)

(* A volume in order: chains lead from cluster to cluster until Eoc, and   *)
(* their pages are on the disk.  The number Eoc is in no FAT; what a disk  *)
(* holds where its entry and its page would be is not said.                *)
ASSUME VolumeAssumption ==
  /\ Word(Eoc)
  /\ \A v \in Volumes :
       /\ DOMAIN v.fat \subseteq Nat \ {Eoc} /\ RootClust \in Used(v)
       /\ \A c \in DOMAIN v.fat : Word(v.fat[c])
       /\ \A c \in Used(v) : v.fat[c] \in Used(v) \union {Eoc}
       /\ v.stray = -1 \/ Word(v.stray)
       /\ DOMAIN v.cell \subseteq Nat
       /\ \A c \in Used(v), k \in 0 .. ClustMask :
            DataStart + (c - RootClust) * 2 ^ ClustOrder + k \in DOMAIN v.cell
       /\ \A p \in DOMAIN v.cell, o \in 0 .. PageMask : InOrder(v.cell[p][o])

VARIABLES
  vol,     (* The volume that is mounted; never changes.                   *)
  file,    (* struct file: fileOffset, offset, page, size, cachePage,      *)
           (* fatPage (fat_cache_page); err: what the last move met.       *)
  call,    (* How far the call is that runs on the file.                   *)
  mode,    (* The file was opened by "dir" (dir_open) or "file".           *)
  path,    (* The fragments of the path that are left to follow.           *)
  ret,     (* Where get_next_valid_entry returns to.                       *)
  crc,     (* The checksum of the long name that is compared or read.      *)
  name,    (* The buffer of fat_get_entry_name.                            *)
  saved,   (* struct file_ptr of fat_dir_read.                             *)
  left,    (* The bytes fat_file_read has still to read.                   *)
  result,  (* What the last call returned: "ok", "nofile", "disk".         *)
  start,   (* History: the first cluster of what the position is in.       *)
  sought,  (* History: the name the last search was for.                   *)
  from,    (* History: where get_next_valid_entry started, in cells.       *)
  listed   (* History: the last name read, with the place of its entry.    *)

callVars == <<mode, path, ret, crc, name, saved, left, result>>
history == <<start, sought, from, listed>>
fatVars == <<vol, file, call, callVars, history>>

(* The word where the entry of a cluster is looked for.  Behind the FAT    *)
(* that is whatever the disk holds, or -1 if the disk has ended.           *)
FatEntry(page, index) ==
  LET clust == (page - FatStart) * 2 ^ EntOrder + index
  IN  IF clust \in DOMAIN vol.fat THEN vol.fat[clust] ELSE vol.stray

(* The cell the position is at, in the cache. *)
Here(f) == vol.cell[f.cachePage][f.offset]

-----------------------------------------------------------------------------
(* A round of follow_cluster_chain, with cache_fat_page: the entry of a    *)
(* cluster.  Reading beyond the disk panics, in the driver.  Entries 0 and *)
(* 1 are no clusters.                                                      *)
FollowOnceCached(p) ==
  LET page == IF p.fatPage = 0 THEN FatStart + p.clust \div 2 ^ EntOrder ELSE p.fatPage
  IN  [clust |-> FatEntry(page, p.clust % 2 ^ EntOrder), fatPage |-> page, err |-> "none"]

FollowOnce(p) ==
  LET page == FatStart + p.clust \div 2 ^ EntOrder
      ent == FatEntry(page, p.clust % 2 ^ EntOrder)
  IN  IF p.err # "none" THEN p
      ELSE IF ent = -1 THEN [p EXCEPT !.err = "panic"]
      ELSE IF ent < 2 THEN [p EXCEPT !.fatPage = page, !.err = "disk"]
      ELSE [clust |-> ent, fatPage |-> page, err |-> "none"]

(* follow_cluster_chain.  The status of the last entry of a chain is EEOF, *)
(* the loop waits for EEOCC: it goes on and takes the end for a cluster.   *)
FollowChain(f, clust, count) ==
  LET step[i \in 0 .. count] ==
        IF i = 0 THEN [clust |-> clust, fatPage |-> f.fatPage, err |-> "none"]
        ELSE FollowOnce(step[i - 1])
  IN  step[count]

(* fat_cache. *)
Cached(f) ==
  IF f.page \in DOMAIN vol.cell THEN [f EXCEPT !.cachePage = f.page]
  ELSE [f EXCEPT !.err = "panic"]

(* fat_inc_file_ptr.  The shifts of pages to clusters and back are by      *)
(* clust_mask, and not by clust_order.                                     *)
Advance(f, cells) ==
  LET moved == [f EXCEPT !.fileOffset = @ + cells, !.offset = @ + cells]
      pageInc == moved.offset \div PageCells
      relPage == f.page - DataStart
      currClust == relPage \div 2 ^ ClustMask + RootClust
      clustCnt == ((relPage % 2 ^ ClustOrder) + pageInc) \div 2 ^ ClustMask
      next == FollowChain(f, currClust, clustCnt)
      newPage == IF clustCnt = 0 THEN f.page + pageInc
                 ELSE DataStart + (next.clust - RootClust) * 2 ^ ClustMask
                        + ((relPage + pageInc) % 2 ^ ClustOrder)
  IN  IF moved.offset < PageCells THEN moved
      ELSE IF clustCnt > 0 /\ next.err # "none"
      THEN [moved EXCEPT !.fatPage = next.fatPage, !.err = next.err]
      ELSE Cached([moved EXCEPT !.page = newPage, !.offset = @ % PageCells,
                                !.fatPage = next.fatPage])

(* dir_set_root and set_cluster. *)
SetRoot(f) == Cached([f EXCEPT !.fileOffset = 0, !.offset = 0, !.page = DataStart])

SetClusterKeepsOffset(f, clust) ==
  Cached([f EXCEPT !.page = (clust - RootClust) * 2 ^ ClustOrder + DataStart])

SetCluster(f, clust) ==
  IF clust < RootClust THEN [f EXCEPT !.err = "disk"]
  ELSE Cached([f EXCEPT !.page = (clust - RootClust) * 2 ^ ClustOrder + DataStart,
                        !.offset = 0])

(* The file object after kzmalloc. *)
NewFile == [fileOffset |-> 0, offset |-> 0, page |-> 0, size |-> 0,
            cachePage |-> 0, fatPage |-> 0, err |-> "none"]

NothingOpen ==
  /\ file = NewFile
  /\ call = "closed"
  /\ mode = "file"
  /\ path = <<>>
  /\ ret = "opened"
  /\ crc = <<>>
  /\ name = <<>>
  /\ saved = NewFile
  /\ left = 0
  /\ start = RootClust
  /\ result = "ok"
  /\ sought = <<>>
  /\ from = 0
  /\ listed = [at |-> -1, name |-> <<>>]

InitFat == vol \in Volumes /\ NothingOpen

(* Moves the position and goes on at next.  fat_inc_file_ptr returns its   *)
(* error as an unsigned byte that no caller takes for one: after a disk    *)
(* error the offset lies behind the cache ("lost").                        *)
MoveTo(f, next) ==
  /\ file' = f
  /\ call' = CASE f.err = "none" -> next
             [] f.err = "panic" -> "panic"
             [] OTHER -> "lost"

(* The call returns; a file that could not be opened is freed. *)
Fail(status) ==
  /\ call' = "closed"
  /\ result' = status

-----------------------------------------------------------------------------
(* The kinds of cells: "sfn" (a short entry), "lfn" (a fragment of a long  *)
(* name), "deleted" (first byte 0xE5), "end" (first byte 0), "data".       *)
(* Deleting leaves the attributes, so that a deleted fragment is still one *)
(* of a long name, with 5 (of 0xE5) for its sequence number.  A cell that  *)
(* is no fragment can still be read as one, with what its bytes make.      *)
IsLong(c) == c.kind = "lfn" \/ (c.kind = "deleted" /\ c.long)
SeqNumber(c) == IF c.kind = "deleted" THEN 5 ELSE c.seq
IsDir(c) == c.kind \in {"sfn", "data"} /\ c.dir

(* fat_get_sfn_crc: only a short name has its checksum, which stands for   *)
(* the name.                                                               *)
Checks(c, sum) == c.kind = "sfn" /\ c.sfn = sum

(* dir_open and file_open, up to the root directory. *)
Open(m, p) ==
  /\ call \in {"closed", "opened"}
  /\ MoveTo(SetRoot(NewFile), "frag")
  /\ mode' = m
  /\ path' = p
  /\ start' = RootClust
  /\ listed' = [at |-> -1, name |-> <<>>]
  /\ UNCHANGED <<vol, ret, crc, name, saved, left, result, sought, from>>

(* get_next_path_frag finds another fragment. *)
FragLeft == path # <<>> /\ Head(path) # <<>>

(* The loop of fat_follow_path; an empty fragment ends the path.           *)
NextFrag ==
  /\ call = "frag"
  /\ FragLeft
  /\ sought' = Head(path)
  /\ path' = Tail(path)
  /\ call' = "compare"
  /\ UNCHANGED <<vol, file, mode, ret, crc, name, saved, left, result, start,
                 from, listed>>

(* The end of fat_file_open; fat_dir_open looks at the attributes of the   *)
(* first cell of what it has opened.                                       *)
PathDone ==
  /\ call = "frag"
  /\ ~FragLeft
  /\ IF mode = "dir" /\ ~IsDir(Here(file)) /\ file.page # DataStart
     THEN Fail("nofile")
     ELSE call' = "opened" /\ result' = "ok"
  /\ UNCHANGED <<vol, file, mode, path, ret, crc, name, saved, left, history>>

(* fat_compare_entry, a short entry.  A deleted or empty one has a         *)
(* character in front that no name has.                                    *)
CompareShort ==
  /\ call = "compare"
  /\ LET c == Here(file)
     IN  /\ ~IsLong(c)
         /\ call' = IF c.kind = "sfn" /\ SfnMatches(c.sfn, sought)
                  THEN "found" ELSE "next"
  /\ ret' = "compare"
  /\ UNCHANGED <<vol, file, mode, path, crc, name, saved, left, result, history>>

(* fat_compare_entry, before the loop over a long name: the assertion that *)
(* the first entry of it is marked as the last fragment ("assertion").     *)
CompareLong ==
  /\ call = "compare"
  /\ LET c == Here(file)
     IN  /\ IsLong(c)
         /\ call' = IF c.last THEN "fragment" ELSE "assertion"
         /\ crc' = c.crc
  /\ UNCHANGED <<vol, file, mode, path, ret, name, saved, left, result, history>>

(* fat_compare_entry, one fragment of a long name. *)
CompareFragment ==
  /\ call = "fragment"
  /\ LET c == Here(file)
         seq == SeqNumber(c)
     IN  IF FragMatches(sought, c.frag, FragLen * (seq - 1))
         THEN MoveTo(Advance(file, 1), IF seq = 1 THEN "checksum" ELSE "fragment")
         ELSE MoveTo(Advance(file, seq), "next")
  /\ ret' = "compare"
  /\ UNCHANGED <<vol, mode, path, crc, name, saved, left, result, history>>

(* fat_compare_entry, the checksum of the short name. *)
CompareChecksum ==
  /\ call = "checksum"
  /\ IF Checks(Here(file), crc) THEN call' = "found" /\ UNCHANGED result
     ELSE Fail("disk")
  /\ UNCHANGED <<vol, file, mode, path, ret, crc, name, saved, left, history>>

NextEntryFar ==
  /\ \/ call = "next" /\ UNCHANGED ret
     \/ call = "opened" /\ mode = "dir" /\ Here(file).kind # "end" /\ ret' = "opened"
  /\ LET c == Here(file)
         entry == IF IsLong(c) THEN Advance(file, SeqNumber(c) + 1) ELSE file
     IN  IF entry.err = "none" THEN MoveTo(Advance(entry, 1), "used")
         ELSE MoveTo(entry, "used")
  /\ from' = file.fileOffset
  /\ UNCHANGED <<vol, mode, path, crc, name, saved, left, result, start, sought,
                 listed>>

(* get_next_valid_entry, called by a search (ret is "compare") or by the   *)
(* user of a directory: over the rest of a long name, and one on.          *)
NextEntry ==
  /\ \/ call = "next" /\ UNCHANGED ret
     \/ call = "opened" /\ mode = "dir" /\ Here(file).kind # "end" /\ ret' = "opened"
  /\ LET c == Here(file)
         entry == IF IsLong(c) THEN Advance(file, SeqNumber(c)) ELSE file
     IN  IF entry.err = "none" THEN MoveTo(Advance(entry, 1), "used")
         ELSE MoveTo(entry, "used")
  /\ from' = file.fileOffset
  /\ UNCHANGED <<vol, mode, path, crc, name, saved, left, result, start, sought,
                 listed>>

NextUsedStops ==
  /\ call = "used"
  /\ LET c == Here(file)
     IN  IF c.kind \in {"deleted", "end"} /\ ret = "compare" THEN Fail("nofile")
         ELSE call' = ret /\ UNCHANGED result
  /\ UNCHANGED <<vol, file, mode, path, ret, crc, name, saved, left, history>>

(* The end of a round of its loop: the end of the directory, a deleted     *)
(* entry, or the one that is returned.  A search fails at the end.         *)
NextUsed ==
  /\ call = "used"
  /\ LET c == Here(file)
     IN  CASE c.kind = "deleted" -> MoveTo(Advance(file, 1), "used") /\ UNCHANGED result
           [] c.kind = "end" /\ ret = "compare" -> Fail("nofile") /\ UNCHANGED file
           [] OTHER -> call' = ret /\ UNCHANGED <<file, result>>
  /\ UNCHANGED <<vol, mode, path, ret, crc, name, saved, left, history>>

(* The rest of a round of fat_follow_path, at the entry that was found.    *)
(* The first cluster of an empty file is 0, which cannot be set.           *)
Found ==
  /\ call = "found"
  /\ LET c == Here(file)
         toRoot == c.sfn[1] = "." /\ c.sfn[2] = "." /\ c.clust = 0
         f == [file EXCEPT !.fileOffset = 0, !.size = c.size]
         g == IF toRoot THEN SetRoot(f) ELSE SetCluster(f, c.clust)
     IN  /\ start' = IF toRoot THEN RootClust ELSE c.clust
         /\ IF g.err = "disk" THEN Fail("disk") /\ UNCHANGED file
            ELSE MoveTo(g, "frag") /\ UNCHANGED result
  /\ UNCHANGED <<vol, mode, path, ret, crc, name, saved, left, sought, from,
                 listed>>

-----------------------------------------------------------------------------
(* fat_file_read: refuses a file of size 0. *)
FileRead(reqCnt) ==
  /\ call = "opened" /\ mode = "file"
  /\ file.size # 0
  /\ left' = reqCnt
  /\ call' = "read"
  /\ UNCHANGED <<vol, file, mode, path, ret, crc, name, saved, result, history>>

(* A round of its loop.  The size is compared after the byte is taken.     *)
ReadByte ==
  /\ call = "read"
  /\ LET f == Advance(file, 1)
     IN  MoveTo(f, IF f.fileOffset >= file.size \/ left = 1 THEN "opened" ELSE "read")
  /\ left' = left - 1
  /\ UNCHANGED <<vol, mode, path, ret, crc, name, saved, result, start, sought,
                 from, listed>>

(* fat_dir_read, of a short entry. *)
DirReadShort ==
  /\ call = "opened" /\ mode = "dir"
  /\ Here(file).kind = "sfn"
  /\ listed' = [at |-> file.fileOffset, name |-> FileName(Here(file).sfn)]
  /\ UNCHANGED <<vol, file, call, callVars, start, sought, from>>

(* fat_dir_read and get_lfn_full_name, before the loop. *)
DirReadLong ==
  /\ call = "opened" /\ mode = "dir"
  /\ Here(file).kind = "lfn" /\ Here(file).last
  /\ saved' = file
  /\ crc' = Here(file).crc
  /\ name' = <<>>
  /\ call' = "name"
  /\ UNCHANGED <<vol, file, mode, path, ret, left, result, history>>

(* get_lfn_full_name, one fragment; the fragments come from the last one   *)
(* to the first.                                                           *)
ReadFragment ==
  /\ call = "name"
  /\ LET c == Here(file)
     IN  /\ name' = c.frag \o name
         /\ MoveTo(Advance(file, 1), IF SeqNumber(c) = 1 THEN "nameDone" ELSE "name")
  /\ UNCHANGED <<vol, mode, path, ret, crc, saved, left, result, history>>

(* The checksum, and fat_file_restore; an orphaned long name is an error,  *)
(* after which the position stays at the short entry.                      *)
ReadName ==
  /\ call = "nameDone"
  /\ IF Checks(Here(file), crc)
     THEN /\ MoveTo(Cached([file EXCEPT !.page = saved.page, !.offset = saved.offset,
                                        !.fileOffset = saved.fileOffset]), "opened")
          /\ listed' = [at |-> saved.fileOffset, name |-> name]
          /\ UNCHANGED result
     ELSE /\ call' = "opened"
          /\ result' = "disk"
          /\ UNCHANGED <<file, listed>>
  /\ UNCHANGED <<vol, mode, path, ret, crc, name, saved, left, start, sought, from>>

NextFat ==
  \/ \E m \in {"dir", "file"}, p \in Paths : Open(m, p)
  \/ NextFrag \/ PathDone
  \/ CompareShort \/ CompareLong \/ CompareFragment \/ CompareChecksum
  \/ NextEntry \/ NextUsed \/ Found
  \/ \E n \in Requests : FileRead(n)
  \/ ReadByte
  \/ DirReadShort \/ DirReadLong \/ ReadFragment \/ ReadName

SpecFat == InitFat /\ [][NextFat]_fatVars

-----------------------------------------------------------------------------
(* What a volume holds, said without the code: the chain of a cluster, the *)
(* place of the n-th cell of what begins there, and its entries.           *)
ClusterAt(c, n) ==
  LET link[i \in 0 .. n] ==
        IF i = 0 THEN c
        ELSE IF link[i - 1] = Eoc THEN Eoc ELSE vol.fat[link[i - 1]]
  IN  link[n]

Clusters(c) == CHOOSE n \in DOMAIN vol.fat :
                 ClusterAt(c, n) = Eoc /\ (n > 0 => ClusterAt(c, n - 1) # Eoc)

ChainCells(c) == Clusters(c) * ClustCells

PlaceOf(c, n) ==
  [page |-> DataStart + (ClusterAt(c, n \div ClustCells) - RootClust) * 2 ^ ClustOrder
              + ((n % ClustCells) \div PageCells),
   offset |-> n % PageCells]

(* The n-th cell is in the chain that begins at c, and all the clusters    *)
(* up to it follow each other on the disk.                                 *)
InChain(c, n) ==
  c \in Used(vol) /\ \A i \in 0 .. n \div ClustCells : ClusterAt(c, i) # Eoc

InRow(c, n) == \A i \in 0 .. n \div ClustCells : ClusterAt(c, i) = c + i

CellAt(c, n) == LET p == PlaceOf(c, n) IN vol.cell[p.page][p.offset]

(* The places of the short entries of a directory before its end. *)
Entries(c) == {n \in 0 .. ChainCells(c) - 1 :
                 CellAt(c, n).kind = "sfn" /\ \A m \in 0 .. n - 1 : CellAt(c, m).kind # "end"}

(* The fragments of the long name that belong to the short entry at n. *)
Fragments(c, n) ==
  CHOOSE k \in 0 .. n :
    /\ \A i \in 1 .. k : /\ CellAt(c, n - i).kind = "lfn"
                         /\ CellAt(c, n - i).seq = i
                         /\ CellAt(c, n - i).crc = CellAt(c, n).sfn
    /\ k > 0 => CellAt(c, n - k).last
    /\ k = 0 => n = 0 \/ CellAt(c, n - 1).kind # "lfn" \/ CellAt(c, n - 1).crc # CellAt(c, n).sfn

LongName(c, n) ==
  LET joined[k \in 0 .. Fragments(c, n)] ==
        IF k = 0 THEN <<>> ELSE joined[k - 1] \o CellAt(c, n - k).frag
  IN  joined[Fragments(c, n)]

IsNamed(c, n, nm) ==
  IF Fragments(c, n) > 0 THEN LongName(c, n) = nm
  ELSE HasShortName(nm) /\ ShortName(nm) = CellAt(c, n).sfn

(* Names that fat_sfn_compare_uni never accepts: "." and "..", a base of   *)
(* all BaseLen characters without an extension, or of one less with one.   *)
NeverAccepted(nm) ==
  \/ IsDots(nm)
  \/ Len(Base(nm)) = BaseLen /\ Len(nm) <= BaseLen + 1
  \/ Len(Base(nm)) = BaseLen - 1 /\ Len(nm) > BaseLen

(* Entries that are passed over: the code jumps from a deleted fragment at *)
(* the beginning of a directory by five cells, and from a long name whose  *)
(* short entry is gone to the entry behind, which it takes for that one.   *)
(* The entry begins at place n, and the position comes from place at.      *)
Hidden(c, at, n) ==
  \/ at = 0 /\ n <= 5 /\ CellAt(c, 0).kind = "deleted" /\ CellAt(c, 0).long
  \/ n > 0 /\ CellAt(c, n - 1).kind = "lfn"

-----------------------------------------------------------------------------
(* The moves that fat_inc_file_ptr can make right: up to the end of the    *)
(* chain, and in clusters of four pages and more only where these follow   *)
(* each other on the disk.                                                 *)
Sound(c, n) == InChain(c, n) /\ (MaskIsOrder \/ InRow(c, n))

Live == call \notin {"closed", "panic", "lost", "assertion"}

AtPlace == [page |-> file.page, offset |-> file.offset] = PlaceOf(start, file.fileOffset)

(* The position is one place, whatever calls moved it over the ends of     *)
(* pages and clusters: page and offset are those of the cell number        *)
(* file_offset of what was opened, and that page is the one in the cache.  *)
PositionIsOffset ==
  Live => /\ Sound(start, file.fileOffset) => AtPlace
          /\ file.cachePage = file.page

(* The same for every cluster size and every chain, as the comments of     *)
(* fat_inc_file_ptr and build_fat_struct have it.                          *)
PositionFollowsChain == Live /\ InChain(start, file.fileOffset) => AtPlace

(* Reading panics, or loses the position to a disk error that no caller    *)
(* sees, only where a move cannot be made right: inside of a chain, no     *)
(* page is asked for that is not on the disk.                              *)
StopsAtChainEndOnly == call \in {"panic", "lost"} => ~Sound(start, file.fileOffset)

(* What a search finds is an entry of the directory with the long name     *)
(* that was sought, or a beginning of it, or with the base of its short    *)
(* name.                                                                   *)
SearchSound ==
  call = "found" =>
    LET n == file.fileOffset
        stem == Padded(Base(sought), BaseLen)
    IN  /\ n \in Entries(start)
        /\ IF Fragments(start, n) > 0 THEN IsPrefixOf(LongName(start, n), sought)
           ELSE SubSeq(CellAt(start, n).sfn, 1, BaseLen) = stem

(* A name that is not found is in no entry, but for names that are never   *)
(* accepted and entries that are passed over.                              *)
SearchComplete ==
  call = "closed" /\ result = "nofile" /\ mode = "file" =>
    \A n \in Entries(start) :
      IsNamed(start, n, sought) =>
        \/ Fragments(start, n) = 0 /\ NeverAccepted(sought)
        \/ Hidden(start, 0, n - Fragments(start, n))

(* A search finds the name that was sought, if it is there, and never      *)
(* meets a fragment in the middle of a long name.                          *)
SearchAgrees == SearchSound /\ SearchComplete /\ call # "assertion"

(* The places where entries begin, with the long name if there is one. *)
EntryStarts(c) == {n - Fragments(c, n) : n \in Entries(c)}

(* The user of a directory comes from an entry, with a long name or not,   *)
(* to the next one that is in use, over deleted ones, and leaves none out  *)
(* but those that are passed over.                                         *)
NextIsNext ==
  call = "opened" /\ mode = "dir" =>
    \A n \in EntryStarts(start) :
      from < n /\ n < file.fileOffset => Hidden(start, from, n)

(* The name that is returned is the long name of the entry at that place,  *)
(* or one whose short name is the entry's.                                 *)
ListedIsName ==
  listed.at >= 0 =>
    LET n == CHOOSE m \in Entries(start) : m - Fragments(start, m) = listed.at
        sfn == CellAt(start, n).sfn
    IN  IF Fragments(start, n) > 0 THEN listed.name = LongName(start, n)
        ELSE HasShortName(listed.name) /\ ShortName(listed.name) = sfn

(* Iterating over a directory comes by every entry, with its name. *)
ListingAgrees == NextIsNext /\ ListedIsName

=============================================================================
