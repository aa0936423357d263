----------------------------- MODULE DiskProofs -----------------------------
(***************************************************************************)
(* What is written into the file never takes anything from what the file   *)
(* leads to, for any documents, any sizes of loaves and blocks, and any    *)
(* number of blocks, edits, processes and crashes; and a process that is   *)
(* not killed ends only when it is told to, with all it had in the file.   *)
(***************************************************************************)
EXTENDS Disk, TLAPS

-----------------------------------------------------------------------------
(* What the file holds, whatever it was read from. *)

LoafSize == 1..(BlockSize - Header)

Loaves == [at : Header..BlockSize, size : LoafSize, whole : BOOLEAN, kind : {"sons", "apex", "gran"},
           refcount : Nat, holds : Pointer \union [Doc -> Pointer] \union (Doc \X Nat)]

SoundLoaves ==
    {l \in Loaves :
        /\ l.at + l.size <= BlockSize
        /\ l.kind = "apex" => l.refcount > 0 /\ l.holds \in Pointer
        /\ l.kind = "gran" => l.holds \in [Doc -> Pointer]
        /\ l.kind = "sons" => l.holds \in Doc \X Nat}

Files == [Block -> Seq(SoundLoaves)]

Headers == [allocated : SUBSET Block, free : [Block -> -1..BlockSize], hasenftops : BOOLEAN]

Documents == [contents : Nat, size : LoafSize, sonorigin : Pointer, orgl : Pointer,
              modified : {"no", "apex", "sons"}]

\* A loaf of this kind is at p, in a block that is allocated.
In(file, p, kind, allocated) ==
    /\ p \in Block \X Nat
    /\ p[1] \in allocated /\ p[2] \in DOMAIN file[p[1]]
    /\ file[p[1]][p[2]].kind = kind

\* The loaf of a document with these contents.
SonsIn(file, p, d, c, allocated) ==
    In(file, p, "sons", allocated) /\ file[p[1]][p[2]].holds = <<d, c>>

\* An apex that leads to it.
ApexIn(file, p, d, c, allocated) ==
    In(file, p, "apex", allocated) /\ SonsIn(file, file[p[1]][p[2]].holds, d, c, allocated)

\* A loaf of the granfilade that leads to all documents with these contents.
GranIn(file, p, contents, allocated) ==
    /\ In(file, p, "gran", allocated)
    /\ \A d \in Doc : ApexIn(file, file[p[1]][p[2]].holds[d], d, contents[d], allocated)

-----------------------------------------------------------------------------
(* The invariant. *)

Types ==
    /\ disk \in Files
    /\ root \in [sonorigin : Pointer, whole : BOOLEAN, written : Nat]
    /\ header \in Headers /\ core \in Headers
    /\ docs \in [Doc -> Documents]
    /\ gran \in [size : LoafSize, sonorigin : Pointer, modified : BOOLEAN]
    /\ pc \in {"up", "flush", "exit", "table", "header", "left", "killed", "aborted"}
    /\ edits \in Nat /\ saved \in [Doc -> Nat] /\ ahead \in BOOLEAN /\ stale \in BOOLEAN

\* A document in memory that is not modified is in the file, one of which the
\* sons have been written has these in the file, and the apex that is going to
\* be superseded is one.
DocInFile(d) ==
    /\ docs[d].orgl # NULL => In(disk, docs[d].orgl, "apex", core.allocated)
    /\ docs[d].modified = "apex" => SonsIn(disk, docs[d].sonorigin, d, docs[d].contents, core.allocated)
    /\ docs[d].modified = "no" => ApexIn(disk, docs[d].orgl, d, docs[d].contents, core.allocated)

\* The granfilade is modified whenever a document is, and is in the file when
\* it is not.
GranInFile ==
    ~gran.modified =>
       /\ Modified = {}
       /\ In(disk, gran.sonorigin, "gran", core.allocated)
       /\ \A d \in Doc : Loaf(gran.sonorigin).holds[d] = docs[d].orgl

\* The root leads to what was saved, in blocks that this process allots, and
\* until it is written in blocks that the last process did.
RootInFile ==
    (header.hasenftops \/ ahead) /\ ~stale => GranIn(disk, root.sonorigin, saved, core.allocated)

LeftInFile ==
    header.hasenftops /\ ~ahead /\ ~stale => GranIn(disk, root.sonorigin, saved, header.allocated)

Running ==
    /\ header.allocated \subseteq core.allocated
    /\ RootInFile
    /\ \A d \in Doc : DocInFile(d)
    /\ GranInFile

DiskInv ==
    /\ Types
    /\ header.hasenftops \/ ahead => root.written > 0
    /\ Ended /\ ahead => stale
    /\ pc \in {"table", "header"} => ahead
    /\ LeftInFile
    /\ ~Ended => Running

\* No loaf has lost its last bytes, as happens to the root when it has been
\* written too often and to a loaf in the last bytes of a block (disk.c:281).
LoavesWhole == \A b \in Block : \A i \in DOMAIN disk[b] : disk[b][i].whole

NothingCut == LoavesWhole /\ (root.written > 0 => root.whole)

-----------------------------------------------------------------------------
(* Writing a loaf keeps those that were there. *)

\* Every loaf in a block that is allocated stays what it is.
Keeps(file, later, allocated) ==
    \A p \in Block \X Nat :
       p[1] \in allocated /\ p[2] \in DOMAIN file[p[1]] =>
          /\ p[2] \in DOMAIN later[p[1]]
          /\ later[p[1]][p[2]].kind = file[p[1]][p[2]].kind
          /\ later[p[1]][p[2]].holds = file[p[1]][p[2]].holds

LEMMA KeptIn ==
    ASSUME NEW file, NEW later, NEW allocated, NEW more,
           Keeps(file, later, allocated), allocated \subseteq more,
           NEW p, NEW kind, In(file, p, kind, allocated)
    PROVE  In(later, p, kind, more) /\ later[p[1]][p[2]].holds = file[p[1]][p[2]].holds
BY DEF Keeps, In

LEMMA KeptSons ==
    ASSUME NEW file, NEW later, NEW allocated, NEW more,
           Keeps(file, later, allocated), allocated \subseteq more,
           NEW p, NEW d, NEW c, SonsIn(file, p, d, c, allocated)
    PROVE  SonsIn(later, p, d, c, more)
BY KeptIn DEF SonsIn

LEMMA KeptApex ==
    ASSUME NEW file, NEW later, NEW allocated, NEW more,
           Keeps(file, later, allocated), allocated \subseteq more,
           NEW p, NEW d, NEW c, ApexIn(file, p, d, c, allocated)
    PROVE  ApexIn(later, p, d, c, more)
<1>1. In(file, p, "apex", allocated) /\ SonsIn(file, file[p[1]][p[2]].holds, d, c, allocated)
  BY DEF ApexIn
<1>2. In(later, p, "apex", more) /\ later[p[1]][p[2]].holds = file[p[1]][p[2]].holds
  BY <1>1, KeptIn
<1>3. SonsIn(later, file[p[1]][p[2]].holds, d, c, more)
  BY <1>1, KeptSons
<1> QED  BY <1>2, <1>3 DEF ApexIn

LEMMA KeptGran ==
    ASSUME NEW file, NEW later, NEW allocated, NEW more,
           Keeps(file, later, allocated), allocated \subseteq more,
           NEW p, NEW contents, GranIn(file, p, contents, allocated)
    PROVE  GranIn(later, p, contents, more)
<1>1. In(file, p, "gran", allocated)
  BY DEF GranIn
<1>2. In(later, p, "gran", more) /\ later[p[1]][p[2]].holds = file[p[1]][p[2]].holds
  BY <1>1, KeptIn
<1>3. ASSUME NEW d \in Doc
      PROVE  ApexIn(later, later[p[1]][p[2]].holds[d], d, contents[d], more)
  <2>1. ApexIn(file, file[p[1]][p[2]].holds[d], d, contents[d], allocated)
    BY DEF GranIn
  <2>2. ApexIn(later, file[p[1]][p[2]].holds[d], d, contents[d], more)
    BY <2>1, KeptApex
  <2> QED  BY <1>2, <2>2
<1> QED  BY <1>2, <1>3 DEF GranIn

LEMMA KeptBoth ==
    ASSUME NEW file, NEW later, NEW last, NEW allocated,
           Keeps(file, later, allocated), Keeps(later, last, allocated)
    PROVE  Keeps(file, last, allocated)
BY DEF Keeps

LEMMA SizesAre ==
    /\ Header \in Nat /\ BlockSize \in Nat /\ ApexSize \in LoafSize
    /\ Sizes \subseteq LoafSize /\ GranSizes \subseteq LoafSize
BY DiskAssumption DEF LoafSize

\* A bucket above that of a size has room for it.
LEMMA BucketsOrder ==
    ASSUME NEW free \in Int, NEW size \in Nat, free \div Bucket > size \div Bucket
    PROVE  free > size
<1> DEFINE p == free \div Bucket
           q == size \div Bucket
<1>1. Bucket \in Nat /\ Bucket > 0
  BY DiskAssumption
<1>2. ASSUME NEW a \in Int
      PROVE  /\ a \div Bucket \in Int
             /\ Bucket * (a \div Bucket) <= a /\ a < Bucket * (a \div Bucket) + Bucket
  BY <1>1
<1>3. p \in Int /\ q \in Int /\ p >= q + 1
  BY <1>2
<1>4. Bucket * p <= free /\ size < Bucket * q + Bucket
  BY <1>2
<1> HIDE DEF p, q
<1>5. Bucket * p >= Bucket * (q + 1)
  BY <1>1, <1>3
<1>6. Bucket * (q + 1) = Bucket * q + Bucket
  BY <1>1, <1>3
<1> QED  BY <1>1, <1>3, <1>4, <1>5, <1>6

LEMMA PlaceIs ==
    ASSUME Types, NEW size \in LoafSize, NEW place \in Places(size)
    PROVE  /\ place.block \in Block /\ place.newloaf \in BOOLEAN
           /\ place.newloaf => place.block \notin core.allocated
           /\ ~place.newloaf => core.free[place.block] > size
<1>1. CASE Fitting(size) # {}
  <2>1. PICK b \in BestFit(size) : place = [block |-> b, newloaf |-> FALSE]
    BY <1>1 DEF Places
  <2>2. b \in Block /\ core.free[b] \div Bucket > size \div Bucket
    BY <2>1 DEF BestFit, Fitting
  <2>3. core.free[b] \in Int /\ size \in Nat
    BY <2>2, SizesAre DEF Types, Headers, LoafSize
  <2>4. core.free[b] > size
    BY <2>2, <2>3, BucketsOrder
  <2> QED  BY <2>1, <2>2, <2>4
<1>2. CASE ~(Fitting(size) # {})
  <2> DEFINE first == {u \in Unallocated : \A v \in Unallocated : u <= v}
  <2>1. Places(size) = {[block |-> b, newloaf |-> TRUE] : b \in first}
    BY <1>2 DEF Places
  <2>2. first \subseteq Unallocated
    OBVIOUS
  <2> HIDE DEF first
  <2>3. PICK b \in first : place = [block |-> b, newloaf |-> TRUE]
    BY <2>1
  <2>4. b \in Block /\ b \notin core.allocated
    BY <2>2, <2>3 DEF Unallocated
  <2> QED  BY <2>3, <2>4
<1> QED  BY <1>1, <1>2

\* Where the loaves of a block end is in the block.
LEMMA EndIs ==
    ASSUME Types, NEW b \in Block
    PROVE  EndOf(b) \in Header..BlockSize \/ (disk[b] = << >> /\ EndOf(b) = Header)
<1>1. CASE disk[b] = << >>
  BY <1>1 DEF EndOf
<1>2. CASE disk[b] # << >>
  <2>1. disk[b] \in Seq(SoundLoaves) /\ Len(disk[b]) \in 1..Len(disk[b])
    BY <1>2 DEF Types, Files
  <2>2. disk[b][Len(disk[b])] \in SoundLoaves
    BY <2>1
  <2>3. EndOf(b) = disk[b][Len(disk[b])].at + disk[b][Len(disk[b])].size
    BY <1>2 DEF EndOf
  <2> QED  BY <2>2, <2>3, SizesAre DEF SoundLoaves, Loaves, LoafSize
<1> QED  BY <1>1, <1>2

LEMMA AllocatedIs ==
    ASSUME Types, NEW size \in LoafSize, NEW place \in Places(size)
    PROVE  /\ Allocated(place, size) \in Headers
           /\ Allocated(place, size).allocated = core.allocated \union {place.block}
           /\ Allocated(place, size).hasenftops = core.hasenftops
<1> DEFINE b == place.block
           left == IF place.newloaf THEN BlockSize - size - Header ELSE core.free[b] - size
<1>1. /\ b \in Block /\ place.newloaf \in BOOLEAN
      /\ ~place.newloaf => core.free[b] > size
  BY PlaceIs
<1>2. core \in Headers /\ core.free[b] \in -1..BlockSize
  BY <1>1 DEF Types, Headers
<1>3. size \in Nat /\ size > 0 /\ size <= BlockSize - Header /\ Header \in Nat /\ BlockSize \in Nat
  BY SizesAre DEF LoafSize
<1>4. left \in -1..BlockSize
  BY <1>1, <1>2, <1>3
<1>5. Allocated(place, size) =
         [core EXCEPT !.allocated = core.allocated \union {b}, !.free[b] = left]
  BY DEF Allocated
<1> DEFINE all == core.allocated \union {b}
           free == [core.free EXCEPT ![b] = left]
<1> HIDE DEF left
<1>6. core.allocated \subseteq Block /\ core.free \in [Block -> -1..BlockSize] /\ core.hasenftops \in BOOLEAN
  BY <1>2 DEF Headers
<1>7. all \in SUBSET Block /\ free \in [Block -> -1..BlockSize]
  BY <1>1, <1>4, <1>6
<1> HIDE DEF b
<1>8. /\ DOMAIN core = {"allocated", "free", "hasenftops"}
      /\ Allocated(place, size) = [allocated |-> all, free |-> free, hasenftops |-> core.hasenftops]
  BY <1>2, <1>5 DEF Headers
<1> HIDE DEF all, free
<1>9. Allocated(place, size) \in Headers
  BY <1>6, <1>7, <1>8 DEF Headers
<1> QED  BY <1>8, <1>9 DEF all, b

\* What loaves of each kind carry.
Carries(kind, refcount, holds) ==
    /\ kind \in {"sons", "apex", "gran"} /\ refcount \in Nat
    /\ holds \in Pointer \union [Doc -> Pointer] \union (Doc \X Nat)
    /\ kind = "apex" => refcount > 0 /\ holds \in Pointer
    /\ kind = "gran" => holds \in [Doc -> Pointer]
    /\ kind = "sons" => holds \in Doc \X Nat

\* What writeloaf puts into the file: a sound loaf where At says, and nothing
\* else is different.
LEMMA WrittenIs ==
    ASSUME Types, NEW size \in LoafSize, NEW place \in Places(size), HasRoom(place, size),
           NEW kind, NEW refcount, NEW holds, Carries(kind, refcount, holds)
    PROVE  /\ Written(place, size, kind, holds, refcount) \in Files
           /\ Keeps(disk, Written(place, size, kind, holds, refcount), core.allocated)
           /\ \A p \in Block \X Nat :
                 p[1] \in core.allocated /\ p[2] \in DOMAIN disk[p[1]] =>
                    Written(place, size, kind, holds, refcount)[p[1]][p[2]] = Loaf(p)
           /\ In(Written(place, size, kind, holds, refcount), At(place), kind,
                 core.allocated \union {place.block})
           /\ Written(place, size, kind, holds, refcount)[At(place)[1]][At(place)[2]].holds = holds
<1> DEFINE b == place.block
           at == IF place.newloaf THEN Header ELSE EndOf(b)
           copied == IF place.newloaf THEN BlockSize - Header ELSE BlockSize - at - Header
           loaf == [at |-> at, size |-> size, whole |-> size <= copied,
                    kind |-> kind, refcount |-> refcount, holds |-> holds]
           row == IF place.newloaf THEN <<loaf>> ELSE Append(disk[b], loaf)
           file == Written(place, size, kind, holds, refcount)
           last == IF place.newloaf THEN 1 ELSE Len(disk[b]) + 1
<1>1. /\ b \in Block /\ place.newloaf \in BOOLEAN
      /\ place.newloaf => b \notin core.allocated
  BY PlaceIs
<1>2. disk \in Files /\ disk[b] \in Seq(SoundLoaves)
  BY <1>1 DEF Types, Files
<1>3. Header \in Nat /\ BlockSize \in Nat /\ size \in Nat /\ size > 0 /\ size <= BlockSize - Header
  BY SizesAre DEF LoafSize
<1>4. at \in Header..BlockSize /\ at + size <= BlockSize
  <2>1. CASE place.newloaf
    BY <2>1, <1>3
  <2>2. CASE ~place.newloaf
    <3>1. EndOf(b) \in Header..BlockSize
      BY <1>1, <1>3, EndIs
    <3>2. EndOf(b) + size <= BlockSize
      BY <2>2 DEF HasRoom
    <3> QED  BY <2>2, <3>1, <3>2
  <2> QED  BY <2>1, <2>2
<1>5. (size <= copied) \in BOOLEAN
  OBVIOUS
<1>6. loaf \in SoundLoaves
  <2>1. loaf \in Loaves
    BY <1>4, <1>5 DEF Loaves, Carries
  <2> QED  BY <2>1, <1>4 DEF SoundLoaves, Carries
<1>7. file = [disk EXCEPT ![b] = row]
  BY <1>1 DEF Written
<1>8. loaf.kind = kind /\ loaf.holds = holds
  OBVIOUS
<1>9. At(place) = <<b, last>>
  BY DEF At
<1> HIDE DEF b, at, copied, loaf, file
<1>10. /\ row \in Seq(SoundLoaves) /\ last \in Nat /\ last \in DOMAIN row /\ row[last] = loaf
       /\ ~place.newloaf => \A i \in DOMAIN disk[b] : i \in DOMAIN row /\ row[i] = disk[b][i]
  <2>1. CASE place.newloaf
    BY <2>1, <1>6
  <2>2. CASE ~place.newloaf
    BY <2>2, <1>2, <1>6
  <2> QED  BY <2>1, <2>2
<1> HIDE DEF row, last
<1>11. file \in Files /\ file[b] = row
  BY <1>1, <1>2, <1>7, <1>10 DEF Files
<1>12. ASSUME NEW p \in Block \X Nat, p[1] \in core.allocated, p[2] \in DOMAIN disk[p[1]]
       PROVE  p[2] \in DOMAIN file[p[1]] /\ file[p[1]][p[2]] = disk[p[1]][p[2]]
  <2> DEFINE c == p[1]
             i == p[2]
  <2>1. c \in Block /\ c \in core.allocated /\ i \in DOMAIN disk[c]
    BY <1>12
  <2> HIDE DEF c, i
  <2>2. CASE c = b
    <3>1. i \in DOMAIN row /\ row[i] = disk[c][i]
      BY <2>1, <2>2, <1>1, <1>10
    <3>2. file[c] = row
      BY <2>2, <1>11
    <3>3. i \in DOMAIN file[c] /\ file[c][i] = disk[c][i]
      BY <3>1, <3>2
    <3> QED  BY <3>3 DEF c, i
  <2>3. CASE c # b
    <3>1. file[c] = disk[c]
      BY <2>1, <2>3, <1>2, <1>7 DEF Files
    <3>2. i \in DOMAIN file[c] /\ file[c][i] = disk[c][i]
      BY <2>1, <3>1
    <3> QED  BY <3>2 DEF c, i
  <2> QED  BY <2>2, <2>3
<1>13. At(place) \in Block \X Nat /\ At(place)[1] = b /\ At(place)[2] = last
  BY <1>1, <1>9, <1>10
<1>14. In(file, At(place), kind, core.allocated \union {b}) /\ file[At(place)[1]][At(place)[2]].holds = holds
  BY <1>8, <1>10, <1>11, <1>13 DEF In
<1>15. Keeps(disk, file, core.allocated)
  BY <1>12 DEF Keeps
<1> QED  BY <1>11, <1>12, <1>14, <1>15 DEF file, b, Loaf

\* Taking one from the count of an apex that is superseded.
LEMMA DecrementedIs ==
    ASSUME NEW p \in Pointer, NEW file \in Files, NEW allocated,
           p # NULL => In(file, p, "apex", allocated) /\ file[p[1]][p[2]] = Loaf(p)
    PROVE  Decremented(file, p) \in Files /\ Keeps(file, Decremented(file, p), Block)
<1>1. CASE p = NULL \/ Frees(p)
  <2>1. Decremented(file, p) = file
    BY <1>1 DEF Decremented
  <2> QED  BY <2>1 DEF Keeps
<1>2. CASE p # NULL /\ ~Frees(p)
  <2> DEFINE b == p[1]
             i == p[2]
             loaf == file[b][i]
             less == [loaf EXCEPT !.refcount = @ - 1]
             row == [file[b] EXCEPT ![i] = less]
  <2>1. b \in Block /\ i \in DOMAIN file[b] /\ loaf.kind = "apex"
    BY <1>2 DEF In
  <2>2. file[b] \in Seq(SoundLoaves) /\ loaf \in SoundLoaves
    BY <2>1 DEF Files
  <2>3. loaf.refcount # 1
    BY <1>2 DEF Frees, Loaf
  <2>4. loaf \in Loaves /\ loaf.refcount \in Nat /\ loaf.refcount > 0
    BY <2>1, <2>2 DEF SoundLoaves, Loaves
  <2>5. less \in SoundLoaves /\ less.kind = loaf.kind /\ less.holds = loaf.holds
    <3> HIDE DEF loaf
    <3>1. loaf.refcount - 1 \in Nat /\ loaf.refcount - 1 > 0
      BY <2>3, <2>4
    <3>2. /\ less \in Loaves /\ less.refcount = loaf.refcount - 1
          /\ less.at = loaf.at /\ less.size = loaf.size /\ less.kind = loaf.kind /\ less.holds = loaf.holds
      BY <2>4, <3>1 DEF Loaves
    <3> HIDE DEF less
    <3> QED  BY <2>2, <3>1, <3>2 DEF SoundLoaves
  <2>6. Decremented(file, p) = [file EXCEPT ![b] = row]
    <3>1. Decremented(file, p) = [file EXCEPT ![p[1]][p[2]].refcount = @ - 1]
      BY <1>2 DEF Decremented
    <3> QED  BY <3>1
  <2> HIDE DEF b, i, loaf, less
  <2>7. /\ row \in Seq(SoundLoaves) /\ DOMAIN row = DOMAIN file[b] /\ row[i] = less
        /\ \A j \in DOMAIN file[b] : j # i => row[j] = file[b][j]
    BY <2>1, <2>2, <2>5
  <2> HIDE DEF row
  <2>8. Decremented(file, p) \in Files
    BY <2>1, <2>6, <2>7 DEF Files
  <2>9. Keeps(file, Decremented(file, p), Block)
    <3> SUFFICES ASSUME NEW q \in Block \X Nat, q[2] \in DOMAIN file[q[1]]
                 PROVE  /\ q[2] \in DOMAIN Decremented(file, p)[q[1]]
                        /\ Decremented(file, p)[q[1]][q[2]].kind = file[q[1]][q[2]].kind
                        /\ Decremented(file, p)[q[1]][q[2]].holds = file[q[1]][q[2]].holds
      BY DEF Keeps
    <3>1. CASE q[1] = b /\ q[2] = i
      BY <3>1, <2>1, <2>5, <2>6, <2>7 DEF Files, loaf
    <3>2. CASE q[1] = b /\ q[2] # i
      BY <3>2, <2>1, <2>6, <2>7 DEF Files
    <3>3. CASE q[1] # b
      BY <3>3, <2>6 DEF Files
    <3> QED  BY <3>1, <3>2, <3>3
  <2> QED  BY <2>8, <2>9
<1> QED  BY <1>1, <1>2

-----------------------------------------------------------------------------
(* Reading the file. *)

LEMMA PointerIs ==
    ASSUME NEW p \in Pointer, NEW allocated \in SUBSET Block, p[1] \in allocated
    PROVE  p \in Block \X Nat
BY DEF Pointer, NULL, Block

LEMMA LoafIs ==
    ASSUME disk \in Files, NEW p \in Block \X Nat, p[2] \in DOMAIN disk[p[1]]
    PROVE  Loaf(p) \in SoundLoaves
<1> DEFINE b == p[1]
           i == p[2]
<1>1. disk[b] \in Seq(SoundLoaves) /\ i \in DOMAIN disk[b]
  BY DEF Files
<1> HIDE DEF b, i
<1>2. disk[b][i] \in SoundLoaves
  BY <1>1
<1> QED  BY <1>2 DEF Loaf, b, i

\* What readloaf takes for a loaf of this kind is one.
LEMMA ReadableIs ==
    ASSUME disk \in Files, NEW allocated \in SUBSET Block, NEW p \in Pointer,
           Readable(p, allocated)
    PROVE  In(disk, p, Loaf(p).kind, allocated) /\ Loaf(p) \in SoundLoaves
<1>1. p[1] \in allocated /\ p[2] \in DOMAIN disk[p[1]]
  BY DEF Readable
<1>2. p \in Block \X Nat
  BY <1>1, PointerIs
<1>3. Loaf(p) \in SoundLoaves
  BY <1>1, <1>2, LoafIs
<1> QED  BY <1>1, <1>2, <1>3 DEF In, Loaf

\* What a process that starts, or goes on after diskflush, has in memory is in
\* the file.
LEMMA ReadFileIs ==
    ASSUME disk \in Files, NEW allocated \in SUBSET Block, NEW apex, apex.sonorigin \in Pointer,
           ReadableFile(apex, allocated)
    PROVE  /\ In(disk, apex.sonorigin, "gran", allocated)
           /\ Loaf(apex.sonorigin) \in SoundLoaves
           /\ \A d \in Doc :
                 LET p == Loaf(apex.sonorigin).holds[d]
                 IN  /\ p \in Pointer /\ DocOf(p) \in Documents
                     /\ ApexIn(disk, p, d, DocOf(p).contents, allocated)
<1> DEFINE o == apex.sonorigin
<1>1. Readable(o, allocated) /\ Loaf(o).kind = "gran"
  BY DEF ReadableFile
<1>2. In(disk, o, "gran", allocated) /\ Loaf(o) \in SoundLoaves
  BY <1>1, ReadableIs
<1>3. ASSUME NEW d \in Doc
      PROVE  LET p == Loaf(o).holds[d]
             IN  p \in Pointer /\ DocOf(p) \in Documents /\ ApexIn(disk, p, d, DocOf(p).contents, allocated)
  <2> DEFINE p == Loaf(o).holds[d]
             q == Loaf(p).holds
  <2>1. p \in Pointer
    BY <1>1, <1>2 DEF SoundLoaves
  <2>2. ReadableDoc(d, p, allocated)
    BY DEF ReadableFile
  <2> HIDE DEF p
  <2>3. Readable(p, allocated) /\ Loaf(p).kind = "apex"
    BY <2>2 DEF ReadableDoc
  <2>4. In(disk, p, "apex", allocated) /\ q \in Pointer
    BY <2>1, <2>3, ReadableIs DEF SoundLoaves
  <2>5. Readable(q, allocated) /\ Loaf(q).kind = "sons" /\ Loaf(q).holds[1] = d
    BY <2>2 DEF ReadableDoc
  <2> HIDE DEF q
  <2>6. In(disk, q, "sons", allocated) /\ Loaf(q) \in SoundLoaves
    BY <2>4, <2>5, ReadableIs
  <2>7. Loaf(q).holds \in Doc \X Nat /\ Loaf(q).size \in LoafSize
    BY <2>5, <2>6 DEF SoundLoaves, Loaves
  <2>8. Loaf(q).holds = <<d, Loaf(q).holds[2]>> /\ Loaf(q).holds[2] \in Nat
    BY <2>5, <2>7
  <2>9. DocOf(p) = [contents |-> Loaf(q).holds[2], size |-> Loaf(q).size, sonorigin |-> q,
                    orgl |-> p, modified |-> "no"]
    BY DEF DocOf, q
  <2>10. DocOf(p) \in Documents /\ DocOf(p).contents = Loaf(q).holds[2]
    BY <2>1, <2>4, <2>7, <2>8, <2>9 DEF Documents, q
  <2>11. ApexIn(disk, p, d, DocOf(p).contents, allocated)
    BY <2>4, <2>6, <2>8, <2>10 DEF ApexIn, SonsIn, Loaf, q
  <2> QED  BY <2>1, <2>10, <2>11 DEF p
<1> QED  BY <1>2, <1>3

\* The documents that an apex of the granfilade leads to have these contents.
Shows(apex, contents) == \A d \in Doc : DocOf(Loaf(apex.sonorigin).holds[d]).contents = contents[d]

\* What an apex of the granfilade leads to can be read if nothing is cut.
LEMMA WholeIsReadable ==
    ASSUME disk \in Files, LoavesWhole, NEW apex, apex.whole,
           NEW allocated, NEW more, allocated \subseteq more,
           NEW contents, GranIn(disk, apex.sonorigin, contents, allocated)
    PROVE  ReadableFile(apex, more) /\ Shows(apex, contents)
<1>1. ASSUME NEW p, NEW kind, In(disk, p, kind, allocated)
      PROVE  Readable(p, more) /\ Loaf(p).kind = kind
  BY <1>1 DEF In, Readable, Loaf, LoavesWhole
<1>2. Readable(apex.sonorigin, more) /\ Loaf(apex.sonorigin).kind = "gran"
  BY <1>1 DEF GranIn
<1>3. ASSUME NEW d \in Doc
      PROVE  LET p == Loaf(apex.sonorigin).holds[d]
             IN  ReadableDoc(d, p, more) /\ DocOf(p).contents = contents[d]
  <2> DEFINE p == Loaf(apex.sonorigin).holds[d]
             q == Loaf(p).holds
  <2>1. ApexIn(disk, p, d, contents[d], allocated)
    BY DEF GranIn, Loaf
  <2> HIDE DEF p
  <2>2. In(disk, p, "apex", allocated) /\ SonsIn(disk, q, d, contents[d], allocated)
    BY <2>1 DEF ApexIn, Loaf
  <2> HIDE DEF q
  <2>3. In(disk, q, "sons", allocated) /\ Loaf(q).holds = <<d, contents[d]>>
    BY <2>2 DEF SonsIn, Loaf
  <2>4. /\ Readable(p, more) /\ Loaf(p).kind = "apex"
        /\ Readable(q, more) /\ Loaf(q).kind = "sons"
    BY <1>1, <2>2, <2>3
  <2>5. ReadableDoc(d, p, more)
    BY <2>3, <2>4 DEF ReadableDoc, q
  <2>6. DocOf(p).contents = contents[d]
    BY <2>3 DEF DocOf, q
  <2> QED  BY <2>5, <2>6 DEF p
<1> QED  BY <1>2, <1>3 DEF ReadableFile, Shows

-----------------------------------------------------------------------------
(* Every step keeps the invariant. *)

LEMMA DocKept ==
    ASSUME Keeps(disk, disk', core.allocated), core.allocated \subseteq core'.allocated,
           NEW d \in Doc, docs'[d] = docs[d], DocInFile(d)
    PROVE  DocInFile(d)'
BY KeptIn, KeptSons, KeptApex DEF DocInFile

LEMMA FileKept ==
    ASSUME Keeps(disk, disk', core.allocated), core.allocated \subseteq core'.allocated,
           header.allocated \subseteq core.allocated, RootInFile, LeftInFile,
           UNCHANGED <<root, header, saved, ahead>>, stale => stale'
    PROVE  RootInFile' /\ LeftInFile'
<1>1. ASSUME RootInFile
      PROVE  RootInFile'
  BY KeptGran DEF RootInFile
<1>2. Keeps(disk, disk', header.allocated)
  BY DEF Keeps
<1>3. ASSUME LeftInFile
      PROVE  LeftInFile'
  <2>1. header.allocated \subseteq header'.allocated
    OBVIOUS
  <2> QED  BY <1>2, <2>1, KeptGran DEF LeftInFile
<1> QED  BY <1>1, <1>3

LEMMA SameKept ==
    ASSUME NEW allocated
    PROVE  Keeps(disk, disk, allocated)
BY DEF Keeps

\* A process that ends leaves the file as it is.
LEMMA EndedKeeps ==
    ASSUME DiskInv, ~Ended, UNCHANGED <<disk, root, header, edits, saved, ahead>>,
           core' \in Headers, docs' = docs, gran' \in [size : LoafSize, sonorigin : Pointer, modified : BOOLEAN],
           pc' \in {"killed", "aborted"}, stale' = (stale \/ ahead)
    PROVE  DiskInv'
<1>1. Types'
  BY DEF DiskInv, Types
<1>2. LeftInFile'
  BY DEF DiskInv, LeftInFile
<1> QED  BY <1>1, <1>2 DEF DiskInv, Ended

LEMMA EditKeeps ==
    ASSUME DiskInv, NEW d \in Doc, Edit(d)
    PROVE  DiskInv'
<1>1. PICK s \in Sizes : docs' = [docs EXCEPT ![d].contents = edits + 1, ![d].size = s, ![d].modified = "sons"]
  BY DEF Edit
<1>2. PICK g \in GranSizes : gran' = [gran EXCEPT !.size = g, !.modified = TRUE]
  BY DEF Edit
<1>3. /\ pc = "up" /\ edits' = edits + 1
      /\ UNCHANGED <<disk, root, header, core, pc, saved, ahead, stale>>
  BY DEF Edit
<1>4. Types /\ Running /\ LeftInFile /\ (header.hasenftops \/ ahead => root.written > 0)
  BY <1>3 DEF DiskInv, Ended
<1>5. /\ docs' \in [Doc -> Documents]
      /\ docs'[d].orgl = docs[d].orgl /\ docs'[d].modified = "sons"
      /\ \A e \in Doc : e # d => docs'[e] = docs[e]
  <2>1. docs \in [Doc -> Documents] /\ edits + 1 \in Nat /\ s \in LoafSize
    BY <1>4, SizesAre DEF Types
  <2> QED  BY <1>1, <2>1 DEF Documents
<1>6. gran' \in [size : LoafSize, sonorigin : Pointer, modified : BOOLEAN] /\ gran'.modified
  BY <1>2, <1>4, SizesAre DEF Types
<1>7. Types'
  BY <1>3, <1>4, <1>5, <1>6 DEF Types
<1>8. Keeps(disk, disk', core.allocated)
  BY <1>3, SameKept
<1>9. RootInFile' /\ LeftInFile'
  BY <1>3, <1>4, <1>8, FileKept DEF Running
<1>10. ASSUME NEW e \in Doc
       PROVE  DocInFile(e)'
  <2>1. CASE e = d
    BY <2>1, <1>3, <1>4, <1>5 DEF Running, DocInFile
  <2>2. CASE e # d
    BY <2>2, <1>3, <1>4, <1>5, <1>8, DocKept DEF Running
  <2> QED  BY <2>1, <2>2
<1>11. GranInFile'
  BY <1>6 DEF GranInFile
<1>12. Running'
  BY <1>3, <1>4, <1>9, <1>10, <1>11 DEF Running
<1> QED  BY <1>3, <1>4, <1>7, <1>9, <1>12 DEF DiskInv, Ended

LEMMA WriteSonsKeeps ==
    ASSUME DiskInv, NEW d \in Doc, WriteSons(d)
    PROVE  DiskInv'
<1>1. /\ pc \in {"flush", "exit"} /\ d \in Modified /\ docs[d].modified = "sons"
      /\ UNCHANGED <<root, header, gran, edits, saved, ahead>>
  BY DEF WriteSons, Writing, Turn
<1>2. ~Ended
  BY <1>1 DEF Ended
<1>3. Types /\ Running /\ LeftInFile /\ (header.hasenftops \/ ahead => root.written > 0)
  BY <1>2 DEF DiskInv
<1>4. docs[d] \in Documents /\ docs[d].size \in LoafSize /\ docs[d].contents \in Nat
  BY <1>3 DEF Types, Documents
<1>5. PICK place \in Places(docs[d].size) :
         IF HasRoom(place, docs[d].size)
         THEN /\ disk' = Written(place, docs[d].size, "sons", <<d, docs[d].contents>>, 0)
              /\ core' = Allocated(place, docs[d].size)
              /\ docs' = [docs EXCEPT ![d].sonorigin = At(place), ![d].modified = "apex"]
              /\ UNCHANGED <<pc, stale>>
         ELSE Aborts /\ UNCHANGED <<disk, core, docs>>
  BY DEF WriteSons
<1>6. CASE ~HasRoom(place, docs[d].size)
  <2>1. /\ pc' = "aborted" /\ stale' = (stale \/ ahead)
        /\ UNCHANGED <<disk, core, docs>>
    BY <1>5, <1>6 DEF Aborts
  <2>2. core' \in Headers /\ gran' \in [size : LoafSize, sonorigin : Pointer, modified : BOOLEAN]
    BY <1>1, <1>3, <2>1 DEF Types
  <2> QED  BY <1>1, <1>2, <2>1, <2>2, EndedKeeps
<1>7. CASE HasRoom(place, docs[d].size)
  <2>1. /\ disk' = Written(place, docs[d].size, "sons", <<d, docs[d].contents>>, 0)
        /\ core' = Allocated(place, docs[d].size)
        /\ docs' = [docs EXCEPT ![d].sonorigin = At(place), ![d].modified = "apex"]
        /\ UNCHANGED <<pc, stale>>
    BY <1>5, <1>7
  <2>2. core' \in Headers /\ core'.allocated = core.allocated \union {place.block}
    BY <1>3, <1>4, <2>1, AllocatedIs
  <2>3. /\ disk' \in Files /\ Keeps(disk, disk', core.allocated)
        /\ In(disk', At(place), "sons", core'.allocated)
        /\ disk'[At(place)[1]][At(place)[2]].holds = <<d, docs[d].contents>>
    <3> DEFINE size == docs[d].size
               holds == <<d, docs[d].contents>>
               file == Written(place, size, "sons", holds, 0)
    <3>1. Carries("sons", 0, holds) /\ size \in LoafSize /\ HasRoom(place, size) /\ place \in Places(size)
      BY <1>4, <1>7 DEF Carries
    <3> HIDE DEF size, holds
    <3>2. /\ file \in Files /\ Keeps(disk, file, core.allocated)
          /\ In(file, At(place), "sons", core.allocated \union {place.block})
          /\ file[At(place)[1]][At(place)[2]].holds = holds
      BY <1>3, <3>1, WrittenIs
    <3> QED  BY <2>1, <2>2, <3>2 DEF size, holds
  <2>4. At(place) \in Pointer
    BY <2>3 DEF In, Pointer
  <2>5. /\ docs' \in [Doc -> Documents]
        /\ docs'[d].orgl = docs[d].orgl /\ docs'[d].modified = "apex"
        /\ docs'[d].sonorigin = At(place) /\ docs'[d].contents = docs[d].contents
        /\ \A e \in Doc : e # d => docs'[e] = docs[e]
    <3>1. docs \in [Doc -> Documents]
      BY <1>3 DEF Types
    <3> HIDE DEF At, Pointer
    <3> QED  BY <2>1, <2>4, <3>1 DEF Documents
  <2>6. Types'
    BY <1>1, <1>3, <2>1, <2>2, <2>3, <2>5 DEF Types
  <2>7. RootInFile' /\ LeftInFile'
    BY <1>1, <1>3, <2>1, <2>2, <2>3, FileKept DEF Running
  <2>8. ASSUME NEW e \in Doc
        PROVE  DocInFile(e)'
    <3>1. CASE e = d
      <4>1. docs'[d].orgl # NULL => In(disk', docs'[d].orgl, "apex", core'.allocated)
        BY <1>3, <2>2, <2>3, <2>5, KeptIn DEF Running, DocInFile
      <4>2. SonsIn(disk', docs'[d].sonorigin, d, docs'[d].contents, core'.allocated)
        BY <2>3, <2>5 DEF SonsIn
      <4> QED  BY <3>1, <2>5, <4>1, <4>2 DEF DocInFile
    <3>2. CASE e # d
      BY <3>2, <1>3, <2>2, <2>3, <2>5, DocKept DEF Running
    <3> QED  BY <3>1, <3>2
  <2>9. GranInFile'
    <3>1. gran.modified
      BY <1>1, <1>3 DEF Running, GranInFile
    <3> QED  BY <1>1, <3>1 DEF GranInFile
  <2>10. Running'
    BY <1>1, <1>3, <2>2, <2>7, <2>8, <2>9 DEF Running
  <2> QED  BY <1>1, <1>3, <2>1, <2>6, <2>7, <2>10 DEF DiskInv, Ended
<1> QED  BY <1>6, <1>7

LEMMA WriteApexKeeps ==
    ASSUME DiskInv, NEW d \in Doc, WriteApex(d)
    PROVE  DiskInv'
<1> DEFINE p == docs[d].orgl
<1>1. /\ pc \in {"flush", "exit"} /\ d \in Modified /\ docs[d].modified = "apex"
      /\ UNCHANGED <<root, header, gran, edits, saved, ahead>>
  BY DEF WriteApex, Writing, Turn
<1>2. ~Ended
  BY <1>1 DEF Ended
<1>3. Types /\ Running /\ LeftInFile /\ (header.hasenftops \/ ahead => root.written > 0)
  BY <1>2 DEF DiskInv
<1>4. p \in Pointer /\ docs[d].sonorigin \in Pointer
  BY <1>3 DEF Types, Documents
<1>5. PICK place \in Places(ApexSize) :
         IF HasRoom(place, ApexSize)
         THEN /\ disk' = Decremented(Written(place, ApexSize, "apex", docs[d].sonorigin, NewCount), p)
              /\ core' = Allocated(place, ApexSize)
              /\ IF Frees(p) THEN Aborts /\ UNCHANGED docs
                 ELSE /\ docs' = [docs EXCEPT ![d].orgl = At(place), ![d].modified = "no"]
                      /\ UNCHANGED <<pc, stale>>
         ELSE Aborts /\ UNCHANGED <<disk, core, docs>>
  BY DEF WriteApex
<1> HIDE DEF p
<1>6. CASE ~HasRoom(place, ApexSize)
  <2>1. /\ pc' = "aborted" /\ stale' = (stale \/ ahead)
        /\ UNCHANGED <<disk, core, docs>>
    BY <1>5, <1>6 DEF Aborts
  <2>2. core' \in Headers /\ gran' \in [size : LoafSize, sonorigin : Pointer, modified : BOOLEAN]
    BY <1>1, <1>3, <2>1 DEF Types
  <2> QED  BY <1>1, <1>2, <2>1, <2>2, EndedKeeps
<1>7. CASE HasRoom(place, ApexSize)
  <2> DEFINE sons == docs[d].sonorigin
             file == Written(place, ApexSize, "apex", sons, NewCount)
  <2>1. /\ disk' = Decremented(file, p) /\ core' = Allocated(place, ApexSize)
        /\ Frees(p) => pc' = "aborted" /\ stale' = (stale \/ ahead) /\ UNCHANGED docs
        /\ ~Frees(p) => /\ docs' = [docs EXCEPT ![d].orgl = At(place), ![d].modified = "no"]
                        /\ UNCHANGED <<pc, stale>>
    BY <1>5, <1>7 DEF Aborts
  <2>2. core' \in Headers /\ core'.allocated = core.allocated \union {place.block}
    BY <1>3, <2>1, SizesAre, AllocatedIs
  <2>3. /\ file \in Files /\ Keeps(disk, file, core.allocated)
        /\ \A q \in Block \X Nat :
              q[1] \in core.allocated /\ q[2] \in DOMAIN disk[q[1]] => file[q[1]][q[2]] = Loaf(q)
        /\ In(file, At(place), "apex", core'.allocated)
        /\ file[At(place)[1]][At(place)[2]].holds = sons
    <3>1. Carries("apex", NewCount, sons)
      BY <1>4 DEF Carries, NewCount
    <3> HIDE DEF sons
    <3> QED  BY <1>3, <1>7, <2>2, <3>1, SizesAre, WrittenIs
  <2>4. p # NULL => In(disk, p, "apex", core.allocated)
    BY <1>3 DEF Running, DocInFile, p
  <2> HIDE DEF file
  <2>5. /\ disk' \in Files /\ Keeps(file, disk', Block)
    <3>1. p # NULL => In(file, p, "apex", core.allocated) /\ file[p[1]][p[2]] = Loaf(p)
      <4> SUFFICES ASSUME p # NULL
                   PROVE  In(file, p, "apex", core.allocated) /\ file[p[1]][p[2]] = Loaf(p)
        OBVIOUS
      <4>1. In(file, p, "apex", core.allocated)
        BY <2>3, <2>4, KeptIn
      <4> QED  BY <2>3, <2>4, <4>1 DEF In
    <3> QED  BY <1>4, <2>1, <2>3, <3>1, DecrementedIs
  <2>6. core.allocated \subseteq Block /\ core'.allocated \subseteq Block /\ core.allocated \subseteq core'.allocated
    BY <1>3, <2>2 DEF Types, Headers
  <2>7. Keeps(disk, disk', core.allocated)
    BY <2>3, <2>5, <2>6 DEF Keeps
  <2>8. /\ In(disk', At(place), "apex", core'.allocated)
        /\ disk'[At(place)[1]][At(place)[2]].holds = sons
    <3>1. Keeps(file, disk', core'.allocated)
      BY <2>5, <2>6 DEF Keeps
    <3> HIDE DEF sons
    <3> QED  BY <2>3, <3>1, KeptIn
  <2>9. (stale => stale') /\ RootInFile' /\ LeftInFile'
    <3>1. stale => stale'
      BY <2>1
    <3> QED  BY <1>1, <1>3, <2>6, <2>7, <3>1, FileKept DEF Running
  <2>10. CASE Frees(p)
    <3>1. Types'
      BY <1>1, <1>3, <2>1, <2>2, <2>5, <2>10 DEF Types
    <3> QED  BY <1>1, <1>3, <2>1, <2>9, <2>10, <3>1 DEF DiskInv, Ended
  <2>11. CASE ~Frees(p)
    <3>1. At(place) \in Pointer
      BY <2>3 DEF In, Pointer
    <3>2. /\ docs' \in [Doc -> Documents]
          /\ docs'[d].orgl = At(place) /\ docs'[d].modified = "no"
          /\ docs'[d].contents = docs[d].contents
          /\ \A e \in Doc : e # d => docs'[e] = docs[e]
      <4>1. docs \in [Doc -> Documents]
        BY <1>3 DEF Types
      <4> HIDE DEF At, Pointer
      <4> QED  BY <2>1, <2>11, <3>1, <4>1 DEF Documents
    <3>3. Types'
      BY <1>1, <1>3, <2>1, <2>2, <2>5, <2>11, <3>2 DEF Types
    <3>4. ASSUME NEW e \in Doc
          PROVE  DocInFile(e)'
      <4>1. CASE e = d
        <5>1. SonsIn(disk, sons, d, docs[d].contents, core.allocated)
          BY <1>1, <1>3 DEF Running, DocInFile
        <5>2. SonsIn(disk', sons, d, docs[d].contents, core'.allocated)
          BY <2>6, <2>7, <5>1, KeptSons
        <5>3. ApexIn(disk', docs'[d].orgl, d, docs'[d].contents, core'.allocated)
          BY <2>8, <3>2, <5>2 DEF ApexIn
        <5> QED  BY <4>1, <2>8, <3>2, <5>3 DEF DocInFile
      <4>2. CASE e # d
        BY <4>2, <1>3, <2>6, <2>7, <3>2, DocKept DEF Running
      <4> QED  BY <4>1, <4>2
    <3>5. GranInFile'
      <4>1. gran.modified
        BY <1>1, <1>3 DEF Running, GranInFile
      <4> QED  BY <1>1, <4>1 DEF GranInFile
    <3>6. Running'
      BY <1>1, <1>3, <2>6, <2>9, <3>4, <3>5 DEF Running
    <3> QED  BY <1>1, <1>3, <2>1, <2>9, <2>11, <3>3, <3>6 DEF DiskInv, Ended
  <2> QED  BY <2>10, <2>11
<1> QED  BY <1>6, <1>7

LEMMA WriteGranKeeps ==
    ASSUME DiskInv, WriteGran
    PROVE  DiskInv'
<1> DEFINE size == gran.size
           holds == [d \in Doc |-> docs[d].orgl]
<1>1. /\ pc \in {"flush", "exit"} /\ Modified = {}
      /\ UNCHANGED <<root, header, docs, edits, saved, ahead>>
  BY DEF WriteGran, Writing
<1>2. ~Ended
  BY <1>1 DEF Ended
<1>3. Types /\ Running /\ LeftInFile /\ (header.hasenftops \/ ahead => root.written > 0)
  BY <1>2 DEF DiskInv
<1>4. size \in LoafSize /\ holds \in [Doc -> Pointer]
  BY <1>3 DEF Types, Documents
<1>5. PICK place \in Places(size) :
         IF HasRoom(place, size)
         THEN /\ disk' = Written(place, size, "gran", holds, 0)
              /\ core' = Allocated(place, size)
              /\ gran' = [gran EXCEPT !.sonorigin = At(place), !.modified = FALSE]
              /\ UNCHANGED <<pc, stale>>
         ELSE Aborts /\ UNCHANGED <<disk, core, gran>>
  BY DEF WriteGran
<1> HIDE DEF size, holds
<1>6. CASE ~HasRoom(place, size)
  <2>1. /\ pc' = "aborted" /\ stale' = (stale \/ ahead)
        /\ UNCHANGED <<disk, core, gran>>
    BY <1>5, <1>6 DEF Aborts
  <2>2. core' \in Headers /\ gran' \in [size : LoafSize, sonorigin : Pointer, modified : BOOLEAN]
    BY <1>1, <1>3, <2>1 DEF Types
  <2> QED  BY <1>1, <1>2, <2>1, <2>2, EndedKeeps
<1>7. CASE HasRoom(place, size)
  <2>1. /\ disk' = Written(place, size, "gran", holds, 0) /\ core' = Allocated(place, size)
        /\ gran' = [gran EXCEPT !.sonorigin = At(place), !.modified = FALSE]
        /\ UNCHANGED <<pc, stale>>
    BY <1>5, <1>7
  <2>2. /\ core' \in Headers /\ core'.allocated = core.allocated \union {place.block}
        /\ core.allocated \subseteq core'.allocated
    BY <1>3, <1>4, <2>1, AllocatedIs
  <2>3. /\ disk' \in Files /\ Keeps(disk, disk', core.allocated)
        /\ In(disk', At(place), "gran", core'.allocated)
        /\ disk'[At(place)[1]][At(place)[2]].holds = holds
    <3>1. Carries("gran", 0, holds)
      BY <1>4 DEF Carries
    <3> QED  BY <1>3, <1>4, <1>7, <2>1, <2>2, <3>1, WrittenIs
  <2>4. /\ gran' \in [size : LoafSize, sonorigin : Pointer, modified : BOOLEAN]
        /\ gran'.sonorigin = At(place)
    <3>1. gran \in [size : LoafSize, sonorigin : Pointer, modified : BOOLEAN]
      BY <1>3 DEF Types
    <3>2. At(place) \in Pointer
      BY <2>3 DEF In, Pointer
    <3> HIDE DEF At, Pointer, LoafSize
    <3> QED  BY <2>1, <3>1, <3>2
  <2>5. Types'
    BY <1>1, <1>3, <2>1, <2>2, <2>3, <2>4 DEF Types
  <2>6. RootInFile' /\ LeftInFile'
    BY <1>1, <1>3, <2>1, <2>2, <2>3, FileKept DEF Running
  <2>7. ASSUME NEW e \in Doc
        PROVE  DocInFile(e)'
    BY <1>1, <1>3, <2>2, <2>3, DocKept DEF Running
  <2>8. GranInFile'
    <3>1. Modified' = {}
      BY <1>1 DEF Modified
    <3>2. ASSUME NEW e \in Doc
          PROVE  disk'[gran'.sonorigin[1]][gran'.sonorigin[2]].holds[e] = docs'[e].orgl
      <4>1. disk'[gran'.sonorigin[1]][gran'.sonorigin[2]].holds = holds
        BY <2>3, <2>4
      <4>2. holds[e] = docs[e].orgl
        BY DEF holds
      <4> QED  BY <1>1, <4>1, <4>2
    <3>3. In(disk', gran'.sonorigin, "gran", core'.allocated)
      BY <2>3, <2>4
    <3> QED  BY <3>1, <3>2, <3>3 DEF GranInFile, Loaf
  <2>9. Running'
    BY <1>1, <1>3, <2>2, <2>6, <2>7, <2>8 DEF Running
  <2> QED  BY <1>1, <1>3, <2>1, <2>5, <2>6, <2>9 DEF DiskInv, Ended
<1> QED  BY <1>6, <1>7

\* The root is written when the granfilade is in the file, so that it leads to
\* the documents as they are.
LEMMA NewRootLeads ==
    ASSUME Types, Running, Modified = {}, ~gran.modified
    PROVE  GranIn(disk, gran.sonorigin, [d \in Doc |-> docs[d].contents], core.allocated)
<1> DEFINE contents == [d \in Doc |-> docs[d].contents]
           o == gran.sonorigin
<1>1. In(disk, o, "gran", core.allocated) /\ \A d \in Doc : Loaf(o).holds[d] = docs[d].orgl
  BY DEF Running, GranInFile
<1>2. ASSUME NEW d \in Doc
      PROVE  ApexIn(disk, disk[o[1]][o[2]].holds[d], d, contents[d], core.allocated)
  <2>1. docs[d].modified = "no"
    BY DEF Types, Documents, Modified
  <2>2. ApexIn(disk, docs[d].orgl, d, docs[d].contents, core.allocated)
    BY <2>1 DEF Running, DocInFile
  <2>3. disk[o[1]][o[2]].holds[d] = docs[d].orgl /\ contents[d] = docs[d].contents
    BY <1>1 DEF Loaf
  <2> QED  BY <2>2, <2>3
<1> QED  BY <1>1, <1>2 DEF GranIn

\* A process that has just read the file has in memory what is in it.
LEMMA ReadKeeps ==
    ASSUME Types, NEW apex, apex.sonorigin \in Pointer, ReadableFile(apex, core'.allocated),
           core' \in Headers, UNCHANGED disk, docs' = DocsOf(apex), gran' = GranOf(apex)
    PROVE  /\ docs' \in [Doc -> Documents]
           /\ gran' \in [size : LoafSize, sonorigin : Pointer, modified : BOOLEAN]
           /\ \A d \in Doc : DocInFile(d)'
           /\ GranInFile'
<1> DEFINE o == apex.sonorigin
           al == core'.allocated
<1>1. disk \in Files /\ al \in SUBSET Block
  BY DEF Types, Headers
<1>2. /\ In(disk, o, "gran", al) /\ Loaf(o) \in SoundLoaves
      /\ \A d \in Doc :
            LET p == Loaf(apex.sonorigin).holds[d]
            IN  /\ p \in Pointer /\ DocOf(p) \in Documents
                /\ ApexIn(disk, p, d, DocOf(p).contents, al)
  BY <1>1, ReadFileIs
<1>3. ASSUME NEW d \in Doc
      PROVE  /\ docs'[d] = DocOf(Loaf(o).holds[d]) /\ docs'[d] \in Documents
             /\ docs'[d].orgl = Loaf(o).holds[d] /\ docs'[d].modified = "no"
             /\ ApexIn(disk', docs'[d].orgl, d, docs'[d].contents, al)
  <2> DEFINE p == Loaf(o).holds[d]
  <2>1. p \in Pointer /\ DocOf(p) \in Documents /\ ApexIn(disk, p, d, DocOf(p).contents, al)
    BY <1>2
  <2>2. docs'[d] = DocOf(p)
    BY DEF DocsOf
  <2> HIDE DEF p, al
  <2>3. docs'[d].orgl = p /\ docs'[d].modified = "no"
    BY <2>2 DEF DocOf
  <2> QED  BY <2>1, <2>2, <2>3 DEF p
<1>4. docs' \in [Doc -> Documents]
  BY <1>3 DEF DocsOf
<1>5. /\ gran' \in [size : LoafSize, sonorigin : Pointer, modified : BOOLEAN]
      /\ gran'.sonorigin = o
  <2>1. Loaf(o).size \in LoafSize
    BY <1>2 DEF SoundLoaves, Loaves
  <2>2. gran' = [size |-> Loaf(o).size, sonorigin |-> o, modified |-> FALSE]
    BY DEF GranOf
  <2> QED  BY <2>1, <2>2
<1>6. ASSUME NEW d \in Doc
      PROVE  DocInFile(d)'
  <2>1. docs'[d].modified = "no" /\ ApexIn(disk', docs'[d].orgl, d, docs'[d].contents, al)
    BY <1>3
  <2>2. In(disk', docs'[d].orgl, "apex", al)
    BY <2>1 DEF ApexIn
  <2> QED  BY <2>1, <2>2 DEF DocInFile
<1>7. GranInFile'
  <2>1. Modified' = {}
    BY <1>3 DEF Modified
  <2>2. In(disk', gran'.sonorigin, "gran", al)
    BY <1>2, <1>5
  <2>3. ASSUME NEW d \in Doc
        PROVE  disk'[gran'.sonorigin[1]][gran'.sonorigin[2]].holds[d] = docs'[d].orgl
    BY <1>3, <1>5 DEF Loaf
  <2> QED  BY <2>1, <2>2, <2>3 DEF GranInFile, Loaf
<1> QED  BY <1>4, <1>5, <1>6, <1>7

LEMMA WriteRootKeeps ==
    ASSUME DiskInv, WriteRoot
    PROVE  DiskInv'
<1>1. /\ pc \in {"flush", "exit"} /\ Modified = {} /\ ~gran.modified
      /\ UNCHANGED <<disk, header, core, edits>>
  BY DEF WriteRoot, RootIsDue, Writing
<1>2. ~Ended
  BY <1>1 DEF Ended
<1>3. Types /\ Running /\ LeftInFile /\ (header.hasenftops \/ ahead => root.written > 0)
  BY <1>2 DEF DiskInv
<1>4. CASE Overruns
  <2>1. /\ pc' = "aborted" /\ stale' = (stale \/ ahead)
        /\ UNCHANGED <<root, docs, gran, saved, ahead>>
    BY <1>4 DEF WriteRoot, Aborts
  <2>2. core' \in Headers /\ gran' \in [size : LoafSize, sonorigin : Pointer, modified : BOOLEAN]
    BY <1>1, <1>3, <2>1 DEF Types
  <2> QED  BY <1>1, <1>2, <2>1, <2>2, EndedKeeps
<1>5. CASE ~Overruns
  <2> DEFINE contents == [d \in Doc |-> docs[d].contents]
  <2>1. /\ root' = NewRoot /\ saved' = contents /\ ahead' = TRUE
        /\ IF pc = "exit" THEN pc' = "table" /\ UNCHANGED <<docs, gran, stale>>
           ELSE IF ReadableFile(NewRoot, core.allocated)
           THEN pc' = "up" /\ docs' = DocsOf(NewRoot) /\ gran' = GranOf(NewRoot) /\ UNCHANGED stale
           ELSE pc' = "aborted" /\ stale' = TRUE /\ UNCHANGED <<docs, gran>>
    BY <1>5 DEF WriteRoot
  <2>2. contents \in [Doc -> Nat]
    BY <1>3 DEF Types, Documents
  <2>3. GranIn(disk, gran.sonorigin, contents, core.allocated)
    BY <1>1, <1>3, NewRootLeads
  <2> HIDE DEF contents
  <2>4. /\ root' \in [sonorigin : Pointer, whole : BOOLEAN, written : Nat]
        /\ root'.sonorigin = gran.sonorigin /\ root'.written > 0
    <3>1. /\ gran.sonorigin \in Pointer /\ root.written \in Nat /\ root.whole \in BOOLEAN
      BY <1>3 DEF Types
    <3>2. CASE ~core.hasenftops
      <4>1. root' = [sonorigin |-> gran.sonorigin, whole |-> TRUE, written |-> 1]
        BY <2>1, <3>2 DEF NewRoot
      <4> QED  BY <3>1, <4>1
    <3>3. CASE core.hasenftops
      <4> DEFINE whole == ApexSize <= RootRoom \/ (root.whole /\ gran.sonorigin = root.sonorigin)
      <4>1. root' = [sonorigin |-> gran.sonorigin, written |-> root.written + 1, whole |-> whole]
        BY <2>1, <3>3 DEF NewRoot
      <4>2. whole \in BOOLEAN
        OBVIOUS
      <4> HIDE DEF whole
      <4> QED  BY <3>1, <4>1, <4>2
    <3> QED  BY <3>2, <3>3
  <2>5. GranIn(disk', root'.sonorigin, saved', core'.allocated)
    BY <1>1, <2>1, <2>3, <2>4
  <2>6. RootInFile' /\ LeftInFile'
    BY <2>1, <2>5 DEF RootInFile, LeftInFile
  <2>7. CASE pc = "exit"
    <3>1. pc' = "table" /\ UNCHANGED <<docs, gran, stale>>
      BY <2>1, <2>7
    <3>2. Types'
      BY <1>1, <1>3, <2>1, <2>2, <2>4, <3>1 DEF Types
    <3>3. (\A d \in Doc : DocInFile(d)') /\ GranInFile'
      <4>1. Keeps(disk, disk', core.allocated)
        BY <1>1, SameKept
      <4>2. \A d \in Doc : DocInFile(d)'
        BY <1>1, <1>3, <3>1, <4>1, DocKept DEF Running
      <4>3. GranInFile'
        BY <1>1, <1>3, <3>1 DEF Running, GranInFile, Modified, Loaf
      <4> QED  BY <4>2, <4>3
    <3>4. Running'
      BY <1>1, <1>3, <2>6, <3>3 DEF Running
    <3> QED  BY <2>1, <2>4, <2>6, <3>1, <3>2, <3>4 DEF DiskInv, Ended
  <2>8. CASE pc # "exit" /\ ReadableFile(NewRoot, core.allocated)
    <3>1. /\ pc' = "up" /\ docs' = DocsOf(NewRoot) /\ gran' = GranOf(NewRoot) /\ UNCHANGED stale
      BY <2>1, <2>8
    <3>2. core' \in Headers /\ NewRoot.sonorigin \in Pointer
      BY <1>1, <1>3, <2>1, <2>4 DEF Types
    <3>3. ReadableFile(NewRoot, core'.allocated)
      BY <1>1, <2>8
    <3>4. /\ docs' \in [Doc -> Documents]
          /\ gran' \in [size : LoafSize, sonorigin : Pointer, modified : BOOLEAN]
          /\ \A d \in Doc : DocInFile(d)'
          /\ GranInFile'
      BY <1>1, <1>3, <3>1, <3>2, <3>3, ReadKeeps
    <3>5. Types'
      BY <1>1, <1>3, <2>1, <2>2, <2>4, <3>1, <3>4 DEF Types
    <3>6. Running'
      BY <1>1, <1>3, <2>6, <3>4 DEF Running
    <3> QED  BY <2>1, <2>4, <2>6, <3>1, <3>5, <3>6 DEF DiskInv, Ended
  <2>9. CASE pc # "exit" /\ ~ReadableFile(NewRoot, core.allocated)
    <3>1. pc' = "aborted" /\ stale' = TRUE /\ UNCHANGED <<docs, gran>>
      BY <2>1, <2>9
    <3>2. Types'
      BY <1>1, <1>3, <2>1, <2>2, <2>4, <3>1 DEF Types
    <3> QED  BY <2>1, <2>4, <2>6, <3>1, <3>2 DEF DiskInv, Ended
  <2> QED  BY <2>7, <2>8, <2>9
<1> QED  BY <1>4, <1>5

\* A step that leaves the file and what is in memory as they are.
LEMMA IdleKeeps ==
    ASSUME DiskInv, UNCHANGED <<disk, root, header, core, docs, gran, edits, saved, ahead, stale>>,
           pc' \in {"up", "flush", "exit", "table", "header", "left", "killed", "aborted"},
           Ended' <=> Ended, pc' \in {"table", "header"} => ahead
    PROVE  DiskInv'
<1>1. Types'
  BY DEF DiskInv, Types
<1>2. LeftInFile'
  BY DEF DiskInv, LeftInFile
<1>3. ASSUME ~Ended
      PROVE  Running'
  <2>1. Running
    BY <1>3 DEF DiskInv
  <2>2. RootInFile' /\ GranInFile'
    BY <2>1 DEF Running, RootInFile, GranInFile, Modified, Loaf
  <2>3. \A d \in Doc : DocInFile(d)'
    BY <2>1 DEF Running, DocInFile
  <2> QED  BY <2>1, <2>2, <2>3 DEF Running
<1> QED  BY <1>1, <1>2, <1>3 DEF DiskInv

LEMMA BeginKeeps ==
    ASSUME DiskInv, Begin
    PROVE  DiskInv'
BY IdleKeeps DEF Begin, Ended

LEMMA WriteTableKeeps ==
    ASSUME DiskInv, WriteTable
    PROVE  DiskInv'
<1>1. /\ pc = "table" /\ header' = [header EXCEPT !.free = core.free] /\ pc' = "header"
      /\ UNCHANGED <<disk, root, core, docs, gran, edits, saved, ahead, stale>>
  BY DEF WriteTable
<1>2. Types /\ Running /\ LeftInFile /\ ahead /\ root.written > 0
  BY <1>1 DEF DiskInv, Ended
<1>3. header \in Headers /\ core \in Headers
  BY <1>2 DEF Types
<1>4. header' \in Headers /\ header'.allocated = header.allocated /\ header'.hasenftops = header.hasenftops
  BY <1>1, <1>3 DEF Headers
<1>5. Types'
  BY <1>1, <1>2, <1>4 DEF Types
<1>6. RootInFile' /\ LeftInFile' /\ GranInFile' /\ \A d \in Doc : DocInFile(d)'
  <2>1. RootInFile' /\ LeftInFile'
    BY <1>1, <1>2, <1>4 DEF Running, RootInFile, LeftInFile
  <2>2. GranInFile'
    BY <1>1, <1>2 DEF Running, GranInFile, Modified, Loaf
  <2>3. \A d \in Doc : DocInFile(d)'
    BY <1>1, <1>2 DEF Running, DocInFile
  <2> QED  BY <2>1, <2>2, <2>3
<1>7. Running'
  BY <1>1, <1>2, <1>4, <1>6 DEF Running
<1> QED  BY <1>1, <1>2, <1>5, <1>6, <1>7 DEF DiskInv, Ended

\* The header now allots all blocks that the process did.
LEMMA WriteHeaderKeeps ==
    ASSUME DiskInv, WriteHeader
    PROVE  DiskInv'
<1>1. /\ pc = "header" /\ pc' = "left" /\ ahead' = FALSE
      /\ header' = [header EXCEPT !.allocated = core.allocated, !.hasenftops = TRUE]
      /\ UNCHANGED <<disk, root, core, docs, gran, edits, saved, stale>>
  BY DEF WriteHeader
<1>2. Types /\ Running /\ LeftInFile /\ ahead /\ root.written > 0
  BY <1>1 DEF DiskInv, Ended
<1>3. header \in Headers /\ core \in Headers
  BY <1>2 DEF Types
<1>4. header' \in Headers /\ header'.allocated = core.allocated
  BY <1>1, <1>3 DEF Headers
<1>5. Types'
  BY <1>1, <1>2, <1>4 DEF Types
<1>6. LeftInFile'
  BY <1>1, <1>2, <1>4 DEF Running, RootInFile, LeftInFile
<1> QED  BY <1>1, <1>2, <1>5, <1>6 DEF DiskInv, Ended

LEMMA KilledKeeps ==
    ASSUME DiskInv, Killed
    PROVE  DiskInv'
<1>1. /\ ~Ended /\ pc' = "killed" /\ stale' = (stale \/ ahead)
      /\ UNCHANGED <<disk, root, header, core, docs, gran, edits, saved, ahead>>
  BY DEF Killed
<1>2. core' \in Headers /\ gran' \in [size : LoafSize, sonorigin : Pointer, modified : BOOLEAN]
  BY <1>1 DEF DiskInv, Types
<1> QED  BY <1>1, <1>2, EndedKeeps

LEMMA NewIs ==
    /\ NewHeader \in Headers /\ NewHeader.allocated = {} /\ ~NewHeader.hasenftops
    /\ NewDoc \in Documents /\ NewDoc.orgl = NULL /\ NewDoc.modified = "sons"
    /\ NewGran \in [size : LoafSize, sonorigin : Pointer, modified : BOOLEAN] /\ NewGran.modified
<1>1. NULL \in Pointer
  BY DEF Pointer
<1>2. NewHeader \in Headers
  BY SizesAre DEF NewHeader, Headers
<1>3. NewDoc \in Documents
  BY <1>1, SizesAre DEF NewDoc, Documents
<1> QED  BY <1>1, <1>2, <1>3, SizesAre DEF NewHeader, NewDoc, NewGran

LEMMA StartKeeps ==
    ASSUME DiskInv, Start
    PROVE  DiskInv'
<1>1. Ended /\ UNCHANGED <<disk, root, edits, saved>>
  BY DEF Start
<1>2. Types /\ LeftInFile /\ (ahead => stale) /\ (header.hasenftops \/ ahead => root.written > 0)
  BY <1>1 DEF DiskInv
<1>3. CASE ~header.hasenftops
  <2>1. /\ header' = NewHeader /\ core' = NewHeader
        /\ docs' = [d \in Doc |-> NewDoc] /\ gran' = NewGran
        /\ pc' = "up" /\ stale' = FALSE /\ ahead' = FALSE
    BY <1>3 DEF Start
  <2>2. Types'
    BY <1>1, <1>2, <2>1, NewIs DEF Types
  <2>3. /\ RootInFile' /\ LeftInFile' /\ GranInFile' /\ \A d \in Doc : DocInFile(d)'
    BY <2>1, NewIs DEF RootInFile, LeftInFile, GranInFile, DocInFile
  <2>4. Running'
    BY <2>1, <2>3 DEF Running
  <2> QED  BY <2>1, <2>2, <2>3, <2>4, NewIs DEF DiskInv, Ended
<1>4. CASE header.hasenftops
  <2>1. /\ core' = header /\ UNCHANGED <<header, stale, ahead>>
        /\ IF ReadableFile(root, header.allocated)
           THEN pc' = "up" /\ docs' = DocsOf(root) /\ gran' = GranOf(root)
           ELSE pc' = "aborted" /\ UNCHANGED <<docs, gran>>
    BY <1>4 DEF Start
  <2>2. LeftInFile'
    BY <1>1, <1>2, <2>1 DEF LeftInFile
  <2>3. CASE ReadableFile(root, header.allocated)
    <3>1. pc' = "up" /\ docs' = DocsOf(root) /\ gran' = GranOf(root)
      BY <2>1, <2>3
    <3>2. core' \in Headers /\ root.sonorigin \in Pointer /\ ReadableFile(root, core'.allocated)
      BY <1>2, <2>1, <2>3 DEF Types
    <3>3. /\ docs' \in [Doc -> Documents]
          /\ gran' \in [size : LoafSize, sonorigin : Pointer, modified : BOOLEAN]
          /\ \A d \in Doc : DocInFile(d)'
          /\ GranInFile'
      BY <1>1, <1>2, <3>1, <3>2, ReadKeeps
    <3>4. Types'
      BY <1>1, <1>2, <2>1, <3>1, <3>3 DEF Types
    <3>5. RootInFile'
      BY <1>1, <1>2, <1>4, <2>1 DEF LeftInFile, RootInFile
    <3>6. Running'
      BY <2>1, <3>3, <3>5 DEF Running
    <3> QED  BY <1>1, <1>2, <2>1, <2>2, <3>1, <3>4, <3>6 DEF DiskInv, Ended
  <2>4. CASE ~ReadableFile(root, header.allocated)
    <3>1. pc' = "aborted" /\ UNCHANGED <<docs, gran>>
      BY <2>1, <2>4
    <3>2. Types'
      BY <1>1, <1>2, <2>1, <3>1 DEF Types
    <3> QED  BY <1>1, <1>2, <2>1, <2>2, <3>1, <3>2 DEF DiskInv, Ended
  <2> QED  BY <2>3, <2>4
<1> QED  BY <1>3, <1>4

LEMMA DiskInvStart ==
    ASSUME Init
    PROVE  DiskInv
<1>1. Types
  <2>1. disk \in Files
    <3>1. << >> \in Seq(SoundLoaves)
      OBVIOUS
    <3> QED  BY <3>1 DEF Init, Files
  <2>2. root \in [sonorigin : Pointer, whole : BOOLEAN, written : Nat]
    BY DEF Init, Pointer
  <2> QED  BY <2>1, <2>2, NewIs DEF Init, Types
<1>2. Running /\ LeftInFile
  BY NewIs DEF Init, Running, LeftInFile, RootInFile, GranInFile, DocInFile
<1> QED  BY <1>1, <1>2, NewIs DEF Init, DiskInv, Ended

LEMMA DiskInvStep ==
    ASSUME DiskInv, [Next]_vars
    PROVE  DiskInv'
<1>1. ASSUME NEW d \in Doc, Edit(d)
      PROVE  DiskInv'
  BY <1>1, EditKeeps
<1>2. ASSUME NEW d \in Doc, WriteSons(d)
      PROVE  DiskInv'
  BY <1>2, WriteSonsKeeps
<1>3. ASSUME NEW d \in Doc, WriteApex(d)
      PROVE  DiskInv'
  BY <1>3, WriteApexKeeps
<1>4. CASE Begin
  BY <1>4, BeginKeeps
<1>5. CASE WriteGran
  BY <1>5, WriteGranKeeps
<1>6. CASE WriteRoot
  BY <1>6, WriteRootKeeps
<1>7. CASE WriteTable
  BY <1>7, WriteTableKeeps
<1>8. CASE WriteHeader
  BY <1>8, WriteHeaderKeeps
<1>9. CASE Killed
  BY <1>9, KilledKeeps
<1>10. CASE Start
  BY <1>10, StartKeeps
<1>11. CASE UNCHANGED vars
  <2>1. /\ UNCHANGED <<disk, root, header, core, docs, gran, edits, saved, ahead, stale>>
        /\ pc' = pc
    BY <1>11 DEF vars
  <2>2. pc' \in {"up", "flush", "exit", "table", "header", "left", "killed", "aborted"}
    BY <2>1 DEF DiskInv, Types
  <2>3. (Ended' <=> Ended) /\ (pc' \in {"table", "header"} => ahead)
    BY <2>1 DEF Ended, DiskInv
  <2> QED  BY <2>1, <2>2, <2>3, IdleKeeps
<1> QED  BY <1>1, <1>2, <1>3, <1>4, <1>5, <1>6, <1>7, <1>8, <1>9, <1>10, <1>11 DEF Next

LEMMA DiskInvHolds == Spec => []DiskInv
BY DiskInvStart, DiskInvStep, PTL DEF Spec

-----------------------------------------------------------------------------
(* Theorems. *)

\* Every loaf lies in its block behind the header, no count of references
\* falls below zero, and what the table has free in a block stays between -1
\* and the block's size, for all sizes of loaves and buckets (partialdiskalloc,
\* writeloaf, changerefcount).
THEOREM TypeCorrect == Spec => []TypeOK
<1>1. ASSUME DiskInv
      PROVE  TypeOK
  <2>1. Types
    BY <1>1 DEF DiskInv
  <2>2. ASSUME NEW b \in Block, NEW i \in DOMAIN disk[b]
        PROVE  /\ disk[b][i].at \in Header..BlockSize /\ disk[b][i].refcount \in Nat
               /\ disk[b][i].at + disk[b][i].size <= BlockSize
    <3>1. disk[b] \in Seq(SoundLoaves)
      BY <2>1 DEF Types, Files
    <3>2. disk[b][i] \in SoundLoaves
      BY <3>1
    <3> QED  BY <3>2 DEF SoundLoaves, Loaves
  <2>3. DOMAIN disk = Block /\ root.sonorigin \in Pointer /\ root.written \in Nat
    BY <2>1 DEF Types, Files
  <2>4. \A h \in {header, core} :
           h.allocated \subseteq Block /\ \A b \in Block : h.free[b] \in -1..BlockSize
    BY <2>1 DEF Types, Headers
  <2>5. \A d \in Doc : docs[d].orgl \in Pointer /\ docs[d].modified \in {"no", "apex", "sons"}
    BY <2>1 DEF Types, Documents
  <2> QED  BY <2>1, <2>2, <2>3, <2>4, <2>5 DEF TypeOK, Types
<1> QED  BY <1>1, DiskInvHolds, PTL

\* At every moment, in the middle of writing too, the root in the file leads
\* to all documents as they were when it was written, as long as writeloaf has
\* cut nothing off: no block that it leads to is given away, written over or
\* freed (corediskout.c:457 and what partialdiskalloc and changerefcount do).
THEOREM IntactHolds == Spec => [](NothingCut => Intact)
<1>1. ASSUME DiskInv, NothingCut
      PROVE  Intact
  <2> SUFFICES ASSUME header.hasenftops \/ ahead, ~stale
               PROVE  /\ ReadableFile(root, Block)
                      /\ \A d \in Doc : DocOf(Loaf(root.sonorigin).holds[d]).contents = saved[d]
    BY DEF Intact
  <2>1. /\ disk \in Files /\ root.whole /\ LoavesWhole
        /\ header.allocated \subseteq Block /\ core.allocated \subseteq Block
    BY <1>1 DEF DiskInv, Types, Headers, NothingCut
  <2>2. CASE Ended
    <3>1. GranIn(disk, root.sonorigin, saved, header.allocated)
      BY <1>1, <2>2 DEF DiskInv, LeftInFile
    <3>2. ReadableFile(root, Block) /\ Shows(root, saved)
      BY <2>1, <3>1, WholeIsReadable
    <3> QED  BY <3>2 DEF Shows
  <2>3. CASE ~Ended
    <3>1. GranIn(disk, root.sonorigin, saved, core.allocated)
      BY <1>1, <2>3 DEF DiskInv, Running, RootInFile
    <3>2. ReadableFile(root, Block) /\ Shows(root, saved)
      BY <2>1, <3>1, WholeIsReadable
    <3> QED  BY <3>2 DEF Shows
  <2> QED  BY <2>2, <2>3
<1> QED  BY <1>1, DiskInvHolds, PTL

\* Until the next root is written, whoever starts finds the file as the last
\* process left it, in blocks that the header allots (initmagicktricks,
\* entexit.c).
THEOREM RestartableHolds == Spec => [](NothingCut => Restartable)
<1>1. ASSUME DiskInv, NothingCut
      PROVE  Restartable
  <2> SUFFICES ASSUME header.hasenftops, ~ahead, ~stale
               PROVE  ReadableFile(root, header.allocated)
    BY DEF Restartable
  <2>1. disk \in Files /\ root.whole /\ LoavesWhole
    BY <1>1 DEF DiskInv, Types, NothingCut
  <2>2. GranIn(disk, root.sonorigin, saved, header.allocated)
    BY <1>1 DEF DiskInv, LeftInFile
  <2> QED  BY <1>1, <2>1, <2>2, WholeIsReadable
<1> QED  BY <1>1, DiskInvHolds, PTL

\* The first of the two things that NothingCut asks: until it has been written
\* this often, nothing of the root is cut off (disk.c:281 takes it to hold one
\* loaf more each time).
Writes == BlockSize - 2 * (Header + ApexSize) + 3

THEOREM RootStaysWhole ==
    ASSUME 2 * (Header + ApexSize) <= BlockSize
    PROVE  Spec => [](root.written \in 1..Writes => root.whole)
<1> DEFINE Whole == root.written \in 1..Writes => root.whole
<1>1. Init => Whole
  BY DEF Init
<1>2. ASSUME DiskInv, Whole, [Next]_vars
      PROVE  Whole'
  <2>1. CASE root' = root
    BY <1>2, <2>1
  <2>2. CASE root' = NewRoot /\ core.hasenftops
    <3> SUFFICES ASSUME root'.written \in 1..Writes
                 PROVE  root'.whole
      OBVIOUS
    <3>1. root.written \in Nat /\ Header \in Nat /\ ApexSize \in Nat /\ BlockSize \in Nat
      BY <1>2, SizesAre DEF DiskInv, Types, LoafSize
    <3>2. /\ root'.written = root.written + 1
          /\ root'.whole <=> ApexSize <= RootRoom \/ (root.whole /\ gran.sonorigin = root.sonorigin)
      BY <2>2 DEF NewRoot
    <3>3. root.written - 2 <= BlockSize - 2 * (Header + ApexSize)
      BY <3>1, <3>2 DEF Writes
    <3>4. ApexSize <= RootRoom
      BY <3>1, <3>3 DEF RootRoom
    <3> QED  BY <3>2, <3>4
  <2>3. CASE root' = NewRoot /\ ~core.hasenftops
    BY <2>3 DEF NewRoot
  <2>4. root' = root \/ root' = NewRoot
    BY <1>2 DEF Next, vars, Edit, WriteSons, WriteApex, Begin, WriteGran, WriteRoot, WriteTable,
                WriteHeader, Killed, Start
  <2> QED  BY <2>1, <2>2, <2>3, <2>4
<1>3. DiskInv /\ Whole /\ [Next]_vars => Whole'
  BY <1>2
<1> QED  BY <1>1, <1>3, DiskInvHolds, PTL DEF Spec

-----------------------------------------------------------------------------
(* An exit that nothing goes wrong with. *)

\* Where the loaves of a block end in a file.
EndIn(file, b) ==
    IF file[b] = << >> THEN Header
    ELSE file[b][Len(file[b])].at + file[b][Len(file[b])].size

\* The table of free space says what there is, of a block that is not
\* allocated nothing.
TableOf(table, file) ==
    \A b \in Block : table.free[b] = IF b \in table.allocated THEN BlockSize - EndIn(file, b) ELSE -1

\* The apex of every document is its own, and is counted twice, so that it is
\* still there when it has been superseded.
Counted(file, documents) ==
    /\ \A d \in Doc :
          LET p == documents[d].orgl
          IN  p # NULL => file[p[1]][p[2]].refcount = 2
    /\ \A d, e \in Doc : documents[d].orgl = documents[e].orgl /\ documents[d].orgl # NULL => d = e

\* From the write of the root to the next start the root leads to what is in
\* memory.
Closed ==
    pc \in {"table", "header", "left"} =>
       \A d \in Doc : saved[d] = docs[d].contents /\ Loaf(root.sonorigin).holds[d] = docs[d].orgl

\* What becomes of the process and its file when nothing goes wrong.
Orderly ==
    /\ pc \notin {"aborted", "killed"} /\ ~stale
    /\ TableOf(core, disk)
    /\ Counted(disk, docs)
    /\ Closed
    /\ pc \in {"header", "left"} => header.free = core.free
    /\ pc = "left" => header.allocated = core.allocated /\ header.hasenftops

\* A block with room has it.
LEMMA RoomIsThere ==
    ASSUME Types, TableOf(core, disk), NEW size \in LoafSize, NEW place \in Places(size)
    PROVE  /\ HasRoom(place, size)
           /\ ~place.newloaf => place.block \in core.allocated /\ core.free[place.block] = BlockSize - EndOf(place.block)
<1> DEFINE b == place.block
<1>1. /\ b \in Block /\ place.newloaf \in BOOLEAN
      /\ ~place.newloaf => core.free[b] > size
  BY PlaceIs
<1>2. Header \in Nat /\ BlockSize \in Nat /\ size \in Nat
  BY SizesAre DEF LoafSize
<1>3. EndOf(b) = EndIn(disk, b)
  BY DEF EndOf, EndIn
<1>4. EndOf(b) \in Int
  BY <1>1, <1>2, EndIs
<1>5. core.free[b] = IF b \in core.allocated THEN BlockSize - EndIn(disk, b) ELSE -1
  BY <1>1 DEF TableOf
<1> HIDE DEF b
<1>6. ASSUME ~place.newloaf
      PROVE  b \in core.allocated /\ core.free[b] = BlockSize - EndOf(b) /\ EndOf(b) + size <= BlockSize
  BY <1>1, <1>2, <1>3, <1>4, <1>5, <1>6
<1> QED  BY <1>1, <1>6 DEF HasRoom, b

\* The loaf that is written, and how the rows of the file change.
WrittenLoaf(place, size, kind, holds, refcount) ==
    LET at == IF place.newloaf THEN Header ELSE EndOf(place.block)
        copied == IF place.newloaf THEN BlockSize - Header ELSE BlockSize - at - Header
    IN  [at |-> at, size |-> size, whole |-> size <= copied,
         kind |-> kind, refcount |-> refcount, holds |-> holds]

Rows(file, later, place, loaf) ==
    /\ \A b \in Block : b # place.block => later[b] = file[b]
    /\ later[place.block] = IF place.newloaf THEN <<loaf>> ELSE Append(file[place.block], loaf)

LEMMA WrittenRows ==
    ASSUME Types, NEW size \in LoafSize, NEW place \in Places(size),
           NEW kind, NEW holds, NEW refcount
    PROVE  Rows(disk, Written(place, size, kind, holds, refcount), place,
                WrittenLoaf(place, size, kind, holds, refcount))
<1> DEFINE b == place.block
           loaf == WrittenLoaf(place, size, kind, holds, refcount)
           row == IF place.newloaf THEN <<loaf>> ELSE Append(disk[b], loaf)
<1>1. b \in Block /\ DOMAIN disk = Block
  BY PlaceIs DEF Types, Files
<1>2. Written(place, size, kind, holds, refcount) = [disk EXCEPT ![b] = row]
  BY DEF Written, WrittenLoaf
<1> HIDE DEF loaf, row, b
<1>3. /\ Written(place, size, kind, holds, refcount)[b] = row
      /\ \A c \in Block : c # b => Written(place, size, kind, holds, refcount)[c] = disk[c]
  BY <1>1, <1>2
<1> QED  BY <1>3 DEF Rows, row, b, loaf

\* The table is kept with the file.
LEMMA TableIsKept ==
    ASSUME Types, TableOf(core, disk), NEW size \in LoafSize, NEW place \in Places(size),
           NEW kind, NEW holds, NEW refcount
    PROVE  TableOf(Allocated(place, size), Written(place, size, kind, holds, refcount))
<1> DEFINE b == place.block
           loaf == WrittenLoaf(place, size, kind, holds, refcount)
           later == Written(place, size, kind, holds, refcount)
           table == Allocated(place, size)
           at == IF place.newloaf THEN Header ELSE EndOf(b)
<1>1. /\ b \in Block /\ place.newloaf \in BOOLEAN
      /\ place.newloaf => b \notin core.allocated
  BY PlaceIs
<1>2. Header \in Nat /\ BlockSize \in Nat /\ size \in Nat
  BY SizesAre DEF LoafSize
<1>3. Rows(disk, later, place, loaf)
  BY WrittenRows
<1>4. loaf.at = at /\ loaf.size = size
  BY DEF WrittenLoaf
<1>5. table.allocated = core.allocated \union {b}
  BY AllocatedIs
<1>6. /\ table.free[b] = IF place.newloaf THEN BlockSize - size - Header ELSE core.free[b] - size
      /\ \A c \in Block : c # b => table.free[c] = core.free[c]
  <2>1. core \in Headers
    BY DEF Types
  <2>2. core.free \in [Block -> -1..BlockSize] /\ DOMAIN core = {"allocated", "free", "hasenftops"}
    BY <2>1 DEF Headers
  <2> QED  BY <1>1, <2>2 DEF Allocated
<1>7. ~place.newloaf => b \in core.allocated /\ core.free[b] = BlockSize - EndOf(b)
  BY RoomIsThere
<1>8. EndOf(b) \in Int
  BY <1>1, <1>2, EndIs
<1>9. EndIn(later, b) = at + size
  <2>1. disk[b] \in Seq(SoundLoaves)
    BY <1>1 DEF Types, Files
  <2>2. later[b] = IF place.newloaf THEN <<loaf>> ELSE Append(disk[b], loaf)
    BY <1>3 DEF Rows
  <2> HIDE DEF loaf, later
  <2>3. later[b] # << >> /\ later[b][Len(later[b])] = loaf
    <3>1. CASE place.newloaf
      BY <2>2, <3>1
    <3>2. CASE ~place.newloaf
      <4>1. Len(disk[b]) \in Nat
        BY <2>1
      <4>2. Len(later[b]) = Len(disk[b]) + 1 /\ later[b][Len(disk[b]) + 1] = loaf
        BY <2>1, <2>2, <3>2, <4>1
      <4> QED  BY <4>1, <4>2
    <3> QED  BY <3>1, <3>2
  <2> QED  BY <1>4, <2>3 DEF EndIn
<1>10. \A c \in Block : c # b => later[c] = disk[c]
  BY <1>3 DEF Rows
<1> HIDE DEF later, table, loaf, b
<1>11. table.free[b] = BlockSize - EndIn(later, b)
  BY <1>1, <1>2, <1>6, <1>7, <1>8, <1>9
<1>12. ASSUME NEW c \in Block
       PROVE  table.free[c] = IF c \in table.allocated THEN BlockSize - EndIn(later, c) ELSE -1
  <2>1. CASE c = b
    BY <2>1, <1>5, <1>11
  <2>2. CASE c # b
    <3>1. EndIn(later, c) = EndIn(disk, c)
      BY <2>2, <1>10 DEF EndIn
    <3>2. core.free[c] = IF c \in core.allocated THEN BlockSize - EndIn(disk, c) ELSE -1
      BY DEF TableOf
    <3> QED  BY <2>2, <1>5, <1>6, <3>1, <3>2
  <2> QED  BY <2>1, <2>2
<1>13. TableOf(table, later)
  BY <1>12 DEF TableOf
<1> QED  BY <1>13 DEF table, later

\* A count that is lowered is all that is different.
Lowered(file, later, p) ==
    \A b \in Block :
       /\ DOMAIN later[b] = DOMAIN file[b] /\ Len(later[b]) = Len(file[b])
       /\ later[b] = << >> <=> file[b] = << >>
       /\ \A i \in DOMAIN file[b] :
             /\ later[b][i].at = file[b][i].at /\ later[b][i].size = file[b][i].size
             /\ later[b][i].whole = file[b][i].whole
             /\ p # <<b, i>> => later[b][i].refcount = file[b][i].refcount

LEMMA DecrementedLowers ==
    ASSUME NEW p \in Pointer, NEW file \in Files, NEW allocated,
           p # NULL => In(file, p, "apex", allocated)
    PROVE  Lowered(file, Decremented(file, p), p)
<1>1. CASE p = NULL \/ Frees(p)
  <2>1. Decremented(file, p) = file
    BY <1>1 DEF Decremented
  <2> QED  BY <2>1 DEF Lowered
<1>2. CASE p # NULL /\ ~Frees(p)
  <2> DEFINE b == p[1]
             i == p[2]
             loaf == file[b][i]
             less == [loaf EXCEPT !.refcount = @ - 1]
             row == [file[b] EXCEPT ![i] = less]
             later == Decremented(file, p)
  <2>1. b \in Block /\ i \in DOMAIN file[b] /\ p = <<b, i>>
    BY <1>2 DEF In
  <2>2. file[b] \in Seq(SoundLoaves) /\ loaf \in SoundLoaves /\ DOMAIN file = Block
    BY <2>1 DEF Files
  <2>3. less.at = loaf.at /\ less.size = loaf.size /\ less.whole = loaf.whole
    <3>1. loaf \in Loaves
      BY <2>2 DEF SoundLoaves
    <3> HIDE DEF loaf
    <3> QED  BY <3>1 DEF Loaves
  <2>4. later = [file EXCEPT ![b] = row]
    <3>1. Decremented(file, p) = [file EXCEPT ![p[1]][p[2]].refcount = @ - 1]
      BY <1>2 DEF Decremented
    <3> QED  BY <3>1
  <2> HIDE DEF b, i, loaf, less, later
  <2>5. /\ DOMAIN row = DOMAIN file[b] /\ row[i] = less
        /\ \A j \in DOMAIN file[b] : j # i => row[j] = file[b][j]
        /\ Len(row) = Len(file[b])
        /\ row = << >> <=> file[b] = << >>
    <3>1. /\ DOMAIN row = DOMAIN file[b] /\ row[i] = less
          /\ \A j \in DOMAIN file[b] : j # i => row[j] = file[b][j]
      BY <2>1, <2>2
    <3>2. file[b] # << >> /\ DOMAIN file[b] # {}
      BY <2>1, <2>2
    <3>3. Len(row) = Len(file[b])
      BY <2>1, <2>2
    <3>4. row # << >>
      <4>1. DOMAIN << >> = {}
        OBVIOUS
      <4> QED  BY <3>1, <3>2, <4>1
    <3> QED  BY <3>1, <3>2, <3>3, <3>4
  <2> HIDE DEF row
  <2>6. later[b] = row /\ \A c \in Block : c # b => later[c] = file[c]
    BY <2>1, <2>2, <2>4
  <2>7. ASSUME NEW c \in Block
        PROVE  /\ DOMAIN later[c] = DOMAIN file[c] /\ Len(later[c]) = Len(file[c])
               /\ later[c] = << >> <=> file[c] = << >>
               /\ \A j \in DOMAIN file[c] :
                     /\ later[c][j].at = file[c][j].at /\ later[c][j].size = file[c][j].size
                     /\ later[c][j].whole = file[c][j].whole
                     /\ p # <<c, j>> => later[c][j].refcount = file[c][j].refcount
    <3>1. CASE c = b
      <4>1. ASSUME NEW j \in DOMAIN file[b]
            PROVE  /\ row[j].at = file[b][j].at /\ row[j].size = file[b][j].size
                   /\ row[j].whole = file[b][j].whole
                   /\ p # <<b, j>> => row[j].refcount = file[b][j].refcount
        <5>1. CASE j = i
          BY <5>1, <2>1, <2>3, <2>5 DEF loaf
        <5>2. CASE j # i
          BY <5>2, <2>5
        <5> QED  BY <5>1, <5>2
      <4> QED  BY <3>1, <2>5, <2>6, <4>1
    <3>2. CASE c # b
      BY <3>2, <2>6
    <3> QED  BY <3>1, <3>2
  <2> QED  BY <2>7 DEF Lowered, later
<1> QED  BY <1>1, <1>2

LEMMA TableIsLowered ==
    ASSUME NEW file \in Files, NEW later, NEW p, NEW table, TableOf(table, file), Lowered(file, later, p)
    PROVE  TableOf(table, later)
<1>1. ASSUME NEW b \in Block
      PROVE  EndIn(later, b) = EndIn(file, b)
  <2>1. CASE file[b] = << >>
    BY <2>1 DEF Lowered, EndIn
  <2>2. CASE file[b] # << >>
    <3>1. file[b] \in Seq(SoundLoaves)
      BY DEF Files
    <3>2. Len(file[b]) \in DOMAIN file[b]
      BY <2>2, <3>1
    <3> DEFINE n == Len(file[b])
    <3>3. Len(later[b]) = n /\ later[b][n].at = file[b][n].at /\ later[b][n].size = file[b][n].size /\ later[b] # << >>
      BY <2>2, <3>2 DEF Lowered
    <3> QED  BY <2>2, <3>3 DEF EndIn
  <2> QED  BY <2>1, <2>2
<1> QED  BY <1>1 DEF TableOf

\* Loaves in blocks that are allocated stay whole and counted as they are.
Stays(file, later, allocated) ==
    \A p \in Block \X Nat :
       p[1] \in allocated /\ p[2] \in DOMAIN file[p[1]] => later[p[1]][p[2]] = file[p[1]][p[2]]

LEMMA WrittenStays ==
    ASSUME Types, NEW size \in LoafSize, NEW place \in Places(size),
           NEW kind, NEW holds, NEW refcount
    PROVE  Stays(disk, Written(place, size, kind, holds, refcount), core.allocated)
<1> DEFINE b == place.block
           loaf == WrittenLoaf(place, size, kind, holds, refcount)
           later == Written(place, size, kind, holds, refcount)
<1>1. /\ b \in Block /\ place.newloaf \in BOOLEAN
      /\ place.newloaf => b \notin core.allocated
  BY PlaceIs
<1>2. Rows(disk, later, place, loaf)
  BY WrittenRows
<1>3. disk[b] \in Seq(SoundLoaves)
  BY <1>1 DEF Types, Files
<1>4. later[b] = IF place.newloaf THEN <<loaf>> ELSE Append(disk[b], loaf)
  BY <1>2 DEF Rows
<1>5. \A c \in Block : c # b => later[c] = disk[c]
  BY <1>2 DEF Rows
<1> HIDE DEF later, loaf, b
<1>6. ASSUME NEW p \in Block \X Nat, p[1] \in core.allocated, p[2] \in DOMAIN disk[p[1]]
      PROVE  later[p[1]][p[2]] = disk[p[1]][p[2]]
  <2>1. CASE p[1] = b
    <3>1. ~place.newloaf /\ later[b] = Append(disk[b], loaf)
      BY <1>1, <1>4, <1>6, <2>1
    <3>2. p[2] \in 1..Len(disk[b])
      BY <1>3, <1>6, <2>1
    <3>3. later[b][p[2]] = disk[b][p[2]]
      BY <1>3, <3>1, <3>2
    <3> QED  BY <2>1, <3>3
  <2>2. CASE p[1] # b
    BY <1>5, <2>2
  <2> QED  BY <2>1, <2>2
<1> QED  BY <1>6 DEF Stays, later

LEMMA CountIsKept ==
    ASSUME \A d \in Doc : DocInFile(d), Counted(disk, docs), NEW later,
           Stays(disk, later, core.allocated), NEW documents,
           \A d \in Doc : documents[d].orgl = docs[d].orgl
    PROVE  Counted(later, documents)
<1>1. ASSUME NEW d \in Doc, documents[d].orgl # NULL
      PROVE  later[documents[d].orgl[1]][documents[d].orgl[2]].refcount = 2
  <2> DEFINE p == docs[d].orgl
  <2>1. p # NULL /\ documents[d].orgl = p
    BY <1>1
  <2>2. In(disk, p, "apex", core.allocated) /\ disk[p[1]][p[2]].refcount = 2
    BY <2>1 DEF DocInFile, Counted
  <2> HIDE DEF p
  <2>3. later[p[1]][p[2]] = disk[p[1]][p[2]]
    BY <2>2 DEF In, Stays
  <2> QED  BY <2>1, <2>2, <2>3
<1>2. ASSUME NEW d \in Doc, NEW e \in Doc, documents[d].orgl = documents[e].orgl, documents[d].orgl # NULL
      PROVE  d = e
  BY <1>2 DEF Counted
<1> QED  BY <1>1, <1>2 DEF Counted

\* Where a loaf is written none has been that a document has as its apex.
LEMMA PlaceIsNew ==
    ASSUME Types, NEW size \in LoafSize, NEW place \in Places(size), NEW p, NEW kind,
           In(disk, p, kind, core.allocated)
    PROVE  At(place) # p
<1> DEFINE b == place.block
<1>1. /\ b \in Block /\ place.newloaf \in BOOLEAN
      /\ place.newloaf => b \notin core.allocated
  BY PlaceIs
<1>2. p[1] \in core.allocated /\ p[2] \in DOMAIN disk[p[1]] /\ p \in Block \X Nat
  BY DEF In
<1>3. CASE place.newloaf
  <2>1. At(place)[1] = b
    BY DEF At
  <2> QED  BY <1>1, <1>2, <1>3, <2>1
<1>4. CASE ~place.newloaf
  <2>1. At(place) = <<b, Len(disk[b]) + 1>>
    BY <1>4 DEF At
  <2>2. disk[b] \in Seq(SoundLoaves)
    BY <1>1 DEF Types, Files
  <2>3. Len(disk[b]) \in Nat /\ DOMAIN disk[b] = 1..Len(disk[b])
    BY <2>2
  <2>4. ASSUME At(place) = p
        PROVE  FALSE
    <3>1. p[1] = b /\ p[2] = Len(disk[b]) + 1
      BY <2>1, <2>4
    <3>2. Len(disk[b]) + 1 \in DOMAIN disk[b]
      BY <1>2, <3>1
    <3> QED  BY <2>3, <3>2
  <2> QED  BY <2>4
<1> QED  BY <1>1, <1>3, <1>4

\* As the process goes on, so goes the table.
LEMMA BusyIsOrderly ==
    ASSUME Orderly, pc \in {"flush", "exit"}, pc' = pc, stale' = stale, TableOf(core', disk'), Counted(disk', docs')
    PROVE  Orderly'
BY DEF Orderly, Closed

LEMMA EditIsOrderly ==
    ASSUME DiskInv, Orderly, NEW d \in Doc, Edit(d)
    PROVE  Orderly'
<1>1. PICK s \in Sizes : docs' = [docs EXCEPT ![d].contents = edits + 1, ![d].size = s, ![d].modified = "sons"]
  BY DEF Edit
<1>2. pc = "up" /\ UNCHANGED <<disk, core, pc, stale>>
  BY DEF Edit
<1>3. Types /\ Running
  BY <1>2 DEF DiskInv, Ended
<1>4. ASSUME NEW e \in Doc
      PROVE  docs'[e].orgl = docs[e].orgl
  <2>1. docs \in [Doc -> Documents]
    BY <1>3 DEF Types
  <2>2. CASE e = d
    BY <1>1, <2>1, <2>2 DEF Documents
  <2>3. CASE e # d
    BY <1>1, <2>1, <2>3
  <2> QED  BY <2>2, <2>3
<1>5. Stays(disk, disk', core.allocated)
  BY <1>2 DEF Stays
<1>6. Counted(disk', docs')
  BY <1>3, <1>4, <1>5, CountIsKept DEF Running, Orderly
<1> QED  BY <1>2, <1>6 DEF Orderly, Closed

LEMMA WriteSonsIsOrderly ==
    ASSUME DiskInv, Orderly, NEW d \in Doc, WriteSons(d)
    PROVE  Orderly'
<1>1. pc \in {"flush", "exit"}
  BY DEF WriteSons, Writing
<1>2. Types /\ Running
  BY <1>1 DEF DiskInv, Ended
<1> DEFINE size == docs[d].size
           holds == <<d, docs[d].contents>>
<1>3. size \in LoafSize /\ Carries("sons", 0, holds)
  BY <1>2 DEF Types, Documents, Carries
<1>4. PICK place \in Places(size) :
         IF HasRoom(place, size)
         THEN /\ disk' = Written(place, size, "sons", holds, 0)
              /\ core' = Allocated(place, size)
              /\ docs' = [docs EXCEPT ![d].sonorigin = At(place), ![d].modified = "apex"]
              /\ UNCHANGED <<pc, stale>>
         ELSE Aborts /\ UNCHANGED <<disk, core, docs>>
  BY DEF WriteSons
<1>5. TableOf(core, disk) /\ Counted(disk, docs)
  BY DEF Orderly
<1> HIDE DEF size, holds
<1>6. HasRoom(place, size)
  BY <1>2, <1>3, <1>5, RoomIsThere
<1>7. /\ disk' = Written(place, size, "sons", holds, 0) /\ core' = Allocated(place, size)
      /\ docs' = [docs EXCEPT ![d].sonorigin = At(place), ![d].modified = "apex"]
      /\ UNCHANGED <<pc, stale>>
  BY <1>4, <1>6
<1>8. TableOf(core', disk')
  BY <1>2, <1>3, <1>5, <1>7, TableIsKept
<1>9. Stays(disk, disk', core.allocated)
  BY <1>2, <1>3, <1>7, WrittenStays
<1>10. ASSUME NEW e \in Doc
       PROVE  docs'[e].orgl = docs[e].orgl
  <2>1. docs \in [Doc -> Documents]
    BY <1>2 DEF Types
  <2> HIDE DEF At
  <2>2. CASE e = d
    BY <1>7, <2>1, <2>2 DEF Documents
  <2>3. CASE e # d
    BY <1>7, <2>1, <2>3
  <2> QED  BY <2>2, <2>3
<1>11. Counted(disk', docs')
  BY <1>2, <1>5, <1>9, <1>10, CountIsKept DEF Running
<1> QED  BY <1>1, <1>7, <1>8, <1>11, BusyIsOrderly

LEMMA WriteGranIsOrderly ==
    ASSUME DiskInv, Orderly, WriteGran
    PROVE  Orderly'
<1>1. pc \in {"flush", "exit"} /\ docs' = docs
  BY DEF WriteGran, Writing
<1>2. Types /\ Running
  BY <1>1 DEF DiskInv, Ended
<1> DEFINE size == gran.size
           holds == [d \in Doc |-> docs[d].orgl]
<1>3. size \in LoafSize /\ Carries("gran", 0, holds)
  BY <1>2 DEF Types, Documents, Carries
<1>4. PICK place \in Places(size) :
         IF HasRoom(place, size)
         THEN /\ disk' = Written(place, size, "gran", holds, 0)
              /\ core' = Allocated(place, size)
              /\ gran' = [gran EXCEPT !.sonorigin = At(place), !.modified = FALSE]
              /\ UNCHANGED <<pc, stale>>
         ELSE Aborts /\ UNCHANGED <<disk, core, gran>>
  BY DEF WriteGran
<1>5. TableOf(core, disk) /\ Counted(disk, docs)
  BY DEF Orderly
<1> HIDE DEF size, holds
<1>6. HasRoom(place, size)
  BY <1>2, <1>3, <1>5, RoomIsThere
<1>7. disk' = Written(place, size, "gran", holds, 0) /\ core' = Allocated(place, size) /\ UNCHANGED <<pc, stale>>
  BY <1>4, <1>6
<1>8. TableOf(core', disk')
  BY <1>2, <1>3, <1>5, <1>7, TableIsKept
<1>9. Stays(disk, disk', core.allocated)
  BY <1>2, <1>3, <1>7, WrittenStays
<1>10. Counted(disk', docs')
  BY <1>1, <1>2, <1>5, <1>9, CountIsKept DEF Running
<1> QED  BY <1>1, <1>7, <1>8, <1>10, BusyIsOrderly

LEMMA WriteApexIsOrderly ==
    ASSUME DiskInv, Orderly, NEW d \in Doc, WriteApex(d)
    PROVE  Orderly'
<1> DEFINE p == docs[d].orgl
           sons == docs[d].sonorigin
<1>1. pc \in {"flush", "exit"}
  BY DEF WriteApex, Writing
<1>2. Types /\ Running
  BY <1>1 DEF DiskInv, Ended
<1>3. p \in Pointer /\ Carries("apex", NewCount, sons) /\ ApexSize \in LoafSize
  BY <1>2, SizesAre DEF Types, Documents, Carries, NewCount
<1>4. PICK place \in Places(ApexSize) :
         IF HasRoom(place, ApexSize)
         THEN /\ disk' = Decremented(Written(place, ApexSize, "apex", sons, NewCount), p)
              /\ core' = Allocated(place, ApexSize)
              /\ IF Frees(p) THEN Aborts /\ UNCHANGED docs
                 ELSE /\ docs' = [docs EXCEPT ![d].orgl = At(place), ![d].modified = "no"]
                      /\ UNCHANGED <<pc, stale>>
         ELSE Aborts /\ UNCHANGED <<disk, core, docs>>
  BY DEF WriteApex
<1>5. TableOf(core, disk) /\ Counted(disk, docs)
  BY DEF Orderly
<1>6. HasRoom(place, ApexSize)
  BY <1>2, <1>3, <1>5, RoomIsThere
<1>7. ~Frees(p)
  BY <1>5 DEF Frees, Counted, Loaf
<1> DEFINE file == Written(place, ApexSize, "apex", sons, NewCount)
<1>8. /\ disk' = Decremented(file, p) /\ core' = Allocated(place, ApexSize)
      /\ docs' = [docs EXCEPT ![d].orgl = At(place), ![d].modified = "no"]
      /\ UNCHANGED <<pc, stale>>
  BY <1>4, <1>6, <1>7
<1>9. \A e \in Doc : docs[e].orgl # NULL => In(disk, docs[e].orgl, "apex", core.allocated)
  BY <1>2 DEF Running, DocInFile
<1> HIDE DEF sons
<1>10. /\ file \in Files /\ Keeps(disk, file, core.allocated)
       /\ \A q \in Block \X Nat :
             q[1] \in core.allocated /\ q[2] \in DOMAIN disk[q[1]] => file[q[1]][q[2]] = Loaf(q)
       /\ In(file, At(place), "apex", core.allocated \union {place.block})
  BY <1>2, <1>3, <1>6, WrittenIs
<1>11. Rows(disk, file, place, WrittenLoaf(place, ApexSize, "apex", sons, NewCount))
  BY <1>2, <1>3, WrittenRows
<1>12. TableOf(core', file)
  BY <1>2, <1>3, <1>5, <1>8, TableIsKept
<1>13. file[At(place)[1]][At(place)[2]].refcount = 2
  <2> DEFINE loaf == WrittenLoaf(place, ApexSize, "apex", sons, NewCount)
             b == place.block
  <2>1. loaf.refcount = 2
    BY DEF WrittenLoaf, NewCount
  <2>2. b \in Block /\ place.newloaf \in BOOLEAN
    BY <1>2, <1>3, PlaceIs
  <2>3. disk[b] \in Seq(SoundLoaves)
    BY <1>2, <2>2 DEF Types, Files
  <2>4. file[b] = IF place.newloaf THEN <<loaf>> ELSE Append(disk[b], loaf)
    BY <1>11 DEF Rows
  <2>5. At(place) = <<b, IF place.newloaf THEN 1 ELSE Len(disk[b]) + 1>>
    BY DEF At
  <2> HIDE DEF loaf, b, file
  <2>6. file[At(place)[1]][At(place)[2]] = loaf
    <3>1. CASE place.newloaf
      BY <2>4, <2>5, <3>1
    <3>2. CASE ~place.newloaf
      <4>1. At(place)[1] = b /\ At(place)[2] = Len(disk[b]) + 1
        BY <2>5, <3>2
      <4>2. Append(disk[b], loaf)[Len(disk[b]) + 1] = loaf
        BY <2>3
      <4> QED  BY <2>4, <3>2, <4>1, <4>2
    <3> QED  BY <3>1, <3>2
  <2> QED  BY <2>1, <2>6
<1> HIDE DEF file, p
<1>14. p # NULL => In(file, p, "apex", core.allocated)
  BY <1>9, <1>10, KeptIn DEF p
<1>15. Lowered(file, disk', p)
  BY <1>3, <1>8, <1>10, <1>14, DecrementedLowers
<1>16. TableOf(core', disk')
  BY <1>10, <1>12, <1>15, TableIsLowered
<1>17. /\ docs'[d].orgl = At(place)
       /\ \A e \in Doc : e # d => docs'[e].orgl = docs[e].orgl
  <2>1. docs \in [Doc -> Documents]
    BY <1>2 DEF Types
  <2> HIDE DEF At
  <2> QED  BY <1>8, <2>1 DEF Documents
<1>18. \A e \in Doc : docs[e].orgl # NULL => At(place) # docs[e].orgl
  BY <1>2, <1>3, <1>9, PlaceIsNew
<1>19. ASSUME NEW e \in Doc, docs'[e].orgl # NULL
       PROVE  disk'[docs'[e].orgl[1]][docs'[e].orgl[2]].refcount = 2
  <2> DEFINE q == docs'[e].orgl
  <2>1. /\ q \in Block \X Nat /\ q[2] \in DOMAIN file[q[1]]
        /\ file[q[1]][q[2]].refcount = 2 /\ q # p
    <3>1. CASE e = d
      <4>1. q = At(place)
        BY <1>17, <3>1
      <4>2. At(place) # p
        <5>1. p = docs[d].orgl
          BY DEF p
        <5>2. At(place) \in Block \X Nat
          BY <1>10 DEF In
        <5>3. NULL \notin Block \X Nat
          BY DEF NULL, Block
        <5> QED  BY <1>18, <5>1, <5>2, <5>3
      <4>3. At(place) \in Block \X Nat /\ At(place)[2] \in DOMAIN file[At(place)[1]]
        BY <1>10 DEF In
      <4> QED  BY <1>13, <4>1, <4>2, <4>3
    <3>2. CASE e # d
      <4>1. q = docs[e].orgl /\ q # NULL
        BY <1>17, <1>19, <3>2
      <4> HIDE DEF q
      <4>2. In(disk, q, "apex", core.allocated)
        BY <1>9, <4>1
      <4>3. q \in Block \X Nat /\ q[1] \in core.allocated /\ q[2] \in DOMAIN disk[q[1]]
        BY <4>2 DEF In
      <4>4. file[q[1]][q[2]] = disk[q[1]][q[2]]
        BY <1>10, <4>3 DEF Loaf
      <4>5. disk[q[1]][q[2]].refcount = 2
        BY <1>5, <4>1 DEF Counted
      <4>6. q[2] \in DOMAIN file[q[1]]
        BY <1>10, <4>3 DEF Keeps
      <4>7. q # p
        BY <1>5, <3>2, <4>1 DEF Counted, p
      <4> QED  BY <4>3, <4>4, <4>5, <4>6, <4>7
    <3> QED  BY <3>1, <3>2
  <2> HIDE DEF q
  <2>2. q = <<q[1], q[2]>> /\ q[1] \in Block
    BY <2>1
  <2>3. disk'[q[1]][q[2]].refcount = file[q[1]][q[2]].refcount
    BY <1>15, <2>1, <2>2 DEF Lowered
  <2>4. disk'[q[1]][q[2]].refcount = 2
    BY <2>1, <2>3
  <2> QED  BY <2>4 DEF q
<1>20. ASSUME NEW e \in Doc, NEW f \in Doc, docs'[e].orgl = docs'[f].orgl, docs'[e].orgl # NULL
       PROVE  e = f
  <2>1. CASE e = d /\ f # d
    BY <1>17, <1>18, <1>20, <2>1
  <2>2. CASE f = d /\ e # d
    BY <1>17, <1>18, <1>20, <2>2
  <2>3. CASE e # d /\ f # d
    BY <1>5, <1>17, <1>20, <2>3 DEF Counted
  <2> QED  BY <2>1, <2>2, <2>3
<1>21. Counted(disk', docs')
  BY <1>19, <1>20 DEF Counted
<1> QED  BY <1>1, <1>8, <1>16, <1>21, BusyIsOrderly

LEMMA WriteRootIsOrderly ==
    ASSUME DiskInv, Orderly, WriteRoot, ~Overruns, LoavesWhole, root'.whole
    PROVE  Orderly'
<1>1. /\ pc \in {"flush", "exit"} /\ Modified = {} /\ ~gran.modified
      /\ UNCHANGED <<disk, header, core>>
  BY DEF WriteRoot, RootIsDue, Writing
<1>2. Types /\ Running
  BY <1>1 DEF DiskInv, Ended
<1> DEFINE contents == [d \in Doc |-> docs[d].contents]
<1>3. /\ root' = NewRoot /\ saved' = contents
      /\ IF pc = "exit" THEN pc' = "table" /\ UNCHANGED <<docs, gran, stale>>
         ELSE IF ReadableFile(NewRoot, core.allocated)
         THEN pc' = "up" /\ docs' = DocsOf(NewRoot) /\ gran' = GranOf(NewRoot) /\ UNCHANGED stale
         ELSE pc' = "aborted" /\ stale' = TRUE /\ UNCHANGED <<docs, gran>>
  BY DEF WriteRoot
<1>4. root'.sonorigin = gran.sonorigin
  BY <1>3 DEF NewRoot
<1>5. \A d \in Doc : Loaf(gran.sonorigin).holds[d] = docs[d].orgl
  BY <1>1, <1>2 DEF Running, GranInFile
<1>6. TableOf(core', disk')
  BY <1>1 DEF Orderly
<1>7. CASE pc = "exit"
  <2>1. pc' = "table" /\ docs' = docs /\ stale' = stale
    BY <1>3, <1>7
  <2>2. Counted(disk', docs')
    BY <1>1, <2>1 DEF Orderly
  <2>3. ASSUME NEW d \in Doc
        PROVE  saved'[d] = docs'[d].contents /\ disk'[root'.sonorigin[1]][root'.sonorigin[2]].holds[d] = docs'[d].orgl
    BY <1>1, <1>3, <1>4, <1>5, <2>1 DEF Loaf
  <2>4. Closed'
    BY <2>3 DEF Closed, Loaf
  <2> QED  BY <1>6, <2>1, <2>2, <2>4 DEF Orderly
<1>8. CASE pc # "exit"
  <2>1. GranIn(disk, NewRoot.sonorigin, contents, core.allocated)
    BY <1>1, <1>2, <1>3, <1>4, NewRootLeads
  <2>2. NewRoot.whole /\ disk \in Files
    BY <1>2, <1>3 DEF Types
  <2> HIDE DEF contents
  <2>3. ReadableFile(NewRoot, core.allocated)
    BY <2>1, <2>2, WholeIsReadable
  <2>4. pc' = "up" /\ docs' = DocsOf(NewRoot) /\ stale' = stale
    BY <1>3, <1>8, <2>3
  <2>5. \A d \in Doc : docs'[d].orgl = docs[d].orgl
    BY <1>3, <1>4, <1>5, <2>4 DEF DocsOf, DocOf
  <2>6. Stays(disk, disk', core.allocated)
    BY <1>1 DEF Stays
  <2>7. Counted(disk', docs')
    BY <1>2, <2>5, <2>6, CountIsKept DEF Running, Orderly
  <2> QED  BY <1>6, <2>4, <2>7 DEF Orderly, Closed
<1> QED  BY <1>7, <1>8

LEMMA WriteTableIsOrderly ==
    ASSUME DiskInv, Orderly, WriteTable
    PROVE  Orderly'
<1>1. /\ pc = "table" /\ header' = [header EXCEPT !.free = core.free] /\ pc' = "header"
      /\ UNCHANGED <<disk, root, core, docs, saved, stale>>
  BY DEF WriteTable
<1>2. header \in Headers
  BY DEF DiskInv, Types
<1>3. header'.free = core.free
  BY <1>1, <1>2 DEF Headers
<1>4. TableOf(core', disk') /\ Counted(disk', docs')
  BY <1>1 DEF Orderly
<1>5. Closed'
  BY <1>1 DEF Orderly, Closed, Loaf
<1> QED  BY <1>1, <1>3, <1>4, <1>5 DEF Orderly

LEMMA WriteHeaderIsOrderly ==
    ASSUME DiskInv, Orderly, WriteHeader
    PROVE  Orderly'
<1>1. /\ pc = "header" /\ pc' = "left"
      /\ header' = [header EXCEPT !.allocated = core.allocated, !.hasenftops = TRUE]
      /\ UNCHANGED <<disk, root, core, docs, saved, stale>>
  BY DEF WriteHeader
<1>2. header \in Headers
  BY DEF DiskInv, Types
<1>3. header'.free = header.free /\ header'.allocated = core.allocated /\ header'.hasenftops
  BY <1>1, <1>2 DEF Headers
<1>4. TableOf(core', disk') /\ Counted(disk', docs')
  BY <1>1 DEF Orderly
<1>5. Closed'
  BY <1>1 DEF Orderly, Closed, Loaf
<1> QED  BY <1>1, <1>3, <1>4, <1>5 DEF Orderly

\* What was left in order is what the next process begins with.
LEMMA LeftIsReadable ==
    ASSUME DiskInv, Orderly, NothingCut, pc = "left"
    PROVE  ReadableFile(root, header.allocated) /\ Shows(root, saved)
<1>1. header.hasenftops /\ ~stale /\ ~ahead
  BY DEF Orderly, DiskInv, Ended
<1>2. GranIn(disk, root.sonorigin, saved, header.allocated)
  BY <1>1 DEF DiskInv, LeftInFile
<1>3. disk \in Files /\ LoavesWhole /\ root.whole
  BY <1>1 DEF DiskInv, Types, NothingCut
<1> QED  BY <1>2, <1>3, WholeIsReadable

LEMMA StartIsOrderly ==
    ASSUME DiskInv, Orderly, NothingCut, Start
    PROVE  Orderly'
<1>1. pc = "left" /\ header.hasenftops
  BY DEF Start, Ended, Orderly
<1>2. ReadableFile(root, header.allocated)
  BY <1>1, LeftIsReadable
<1>3. /\ core' = header /\ pc' = "up" /\ docs' = DocsOf(root)
      /\ UNCHANGED <<disk, stale>>
  BY <1>1, <1>2 DEF Start
<1>4. header.free = core.free /\ header.allocated = core.allocated
  BY <1>1 DEF Orderly
<1>5. TableOf(core', disk')
  BY <1>3, <1>4 DEF Orderly, TableOf
<1>6. ASSUME NEW d \in Doc
      PROVE  docs'[d].orgl = docs[d].orgl
  BY <1>1, <1>3 DEF DocsOf, DocOf, Orderly, Closed
<1>7. Counted(disk', docs')
  BY <1>3, <1>6 DEF Orderly, Counted
<1> QED  BY <1>3, <1>5, <1>7 DEF Orderly, Closed

LEMMA InOrderAtFirst ==
    ASSUME Init
    PROVE  Orderly /\ LoavesWhole
<1>1. disk = [b \in Block |-> << >>] /\ core = NewHeader /\ docs = [d \in Doc |-> NewDoc] /\ pc = "up" /\ stale = FALSE
  BY DEF Init
<1>2. TableOf(core, disk)
  BY <1>1 DEF TableOf, NewHeader
<1>3. Counted(disk, docs)
  BY <1>1, NewIs DEF Counted
<1>4. LoavesWhole
  BY <1>1 DEF LoavesWhole
<1> QED  BY <1>1, <1>2, <1>3, <1>4 DEF Orderly, Closed

\* Nothing goes wrong in a step unless the process is killed, a loaf is cut off
\* or the root written beyond the end of its block.
LEMMA OrderlyStep ==
    ASSUME DiskInv, Orderly, NothingCut, NothingCut', ~Overruns, [Next]_vars, ~Killed
    PROVE  Orderly'
<1>1. ASSUME NEW d \in Doc, Edit(d)
      PROVE  Orderly'
  BY <1>1, EditIsOrderly
<1>2. ASSUME NEW d \in Doc, WriteSons(d)
      PROVE  Orderly'
  BY <1>2, WriteSonsIsOrderly
<1>3. ASSUME NEW d \in Doc, WriteApex(d)
      PROVE  Orderly'
  BY <1>3, WriteApexIsOrderly
<1>4. CASE Begin
  <2>1. pc' \in {"flush", "exit"} /\ UNCHANGED <<disk, core, docs, stale>>
    BY <1>4 DEF Begin
  <2> QED  BY <2>1 DEF Orderly, Closed
<1>5. CASE WriteGran
  BY <1>5, WriteGranIsOrderly
<1>6. CASE WriteRoot
  <2>1. root'.whole
    <3>1. root'.written > 0
      <4>1. root' = NewRoot
        BY <1>6 DEF WriteRoot
      <4>2. root.written \in Nat
        BY DEF DiskInv, Types
      <4> QED  BY <4>1, <4>2 DEF NewRoot
    <3> QED  BY <3>1 DEF NothingCut
  <2> QED  BY <1>6, <2>1, WriteRootIsOrderly DEF NothingCut
<1>7. CASE WriteTable
  BY <1>7, WriteTableIsOrderly
<1>8. CASE WriteHeader
  BY <1>8, WriteHeaderIsOrderly
<1>9. CASE Start
  BY <1>9, StartIsOrderly
<1>10. CASE UNCHANGED vars
  <2>1. UNCHANGED <<disk, root, header, core, docs, pc, saved, stale>>
    BY <1>10 DEF vars
  <2> QED  BY <2>1 DEF Orderly, Closed, Loaf
<1> QED  BY <1>1, <1>2, <1>3, <1>4, <1>5, <1>6, <1>7, <1>8, <1>9, <1>10 DEF Next

LEMMA OrderlyIsUpToDate ==
    ASSUME DiskInv, Orderly, NothingCut
    PROVE  UpToDate
<1>1. ASSUME pc = "left"
      PROVE  /\ ReadableFile(root, header.allocated)
             /\ \A d \in Doc : DocOf(Loaf(root.sonorigin).holds[d]).contents = docs[d].contents
  BY <1>1, LeftIsReadable DEF Shows, Orderly, Closed
<1> QED  BY <1>1 DEF UpToDate, Orderly

OrderlyUnlessKilled == crashes \in Nat /\ (crashes = 0 => Orderly)

LEMMA KilledIsCounted ==
    ASSUME crashes \in Nat, [Next]_vars
    PROVE  /\ crashes' \in Nat
           /\ crashes' = 0 => crashes = 0 /\ ~Killed
<1>1. CASE Killed
  <2>1. crashes' = crashes + 1
    BY <1>1 DEF Killed
  <2> QED  BY <2>1
<1>2. CASE ~Killed
  <2>1. crashes' = crashes
    BY <1>2 DEF Next, vars, Edit, WriteSons, WriteApex, Begin, WriteGran, WriteRoot, WriteTable,
                WriteHeader, Start
  <2> QED  BY <1>2, <2>1
<1> QED  BY <1>1, <1>2

\* corediskout.c:36: no process ends of its own that was not killed, and what
\* it leaves is what it had in memory, whatever the sizes of the loaves and
\* however often it is flushed and left, as long as writeloaf cuts nothing off.
THEOREM UpToDateHolds == Spec /\ [](NothingCut /\ ~Overruns) => []UpToDate
<1> DEFINE Sound == NothingCut /\ ~Overruns
<1>1. ASSUME Init
      PROVE  OrderlyUnlessKilled
  <2>1. crashes = 0
    BY <1>1 DEF Init
  <2> QED  BY <1>1, <2>1, InOrderAtFirst DEF OrderlyUnlessKilled
<1>2. DiskInv /\ OrderlyUnlessKilled /\ Sound /\ Sound' /\ [Next]_vars => OrderlyUnlessKilled'
  BY OrderlyStep, KilledIsCounted DEF OrderlyUnlessKilled
<1>3. DiskInv /\ OrderlyUnlessKilled /\ Sound => UpToDate
  <2>1. crashes # 0 => UpToDate
    BY DEF UpToDate
  <2> QED  BY <2>1, OrderlyIsUpToDate DEF OrderlyUnlessKilled
<1> QED  BY <1>1, <1>2, <1>3, DiskInvHolds, PTL DEF Spec

-----------------------------------------------------------------------------
(* Which loaves writeloaf cuts off. *)

\* A loaf of the file after a write is an old one or the new.
LEMMA WrittenAre ==
    ASSUME Types, NEW size \in LoafSize, NEW place \in Places(size),
           NEW kind, NEW holds, NEW refcount,
           NEW b \in Block, NEW i \in DOMAIN Written(place, size, kind, holds, refcount)[b]
    PROVE  \/ i \in DOMAIN disk[b] /\ Written(place, size, kind, holds, refcount)[b][i] = disk[b][i]
           \/ /\ b = place.block
              /\ Written(place, size, kind, holds, refcount)[b][i] = WrittenLoaf(place, size, kind, holds, refcount)
<1> DEFINE c == place.block
           loaf == WrittenLoaf(place, size, kind, holds, refcount)
           later == Written(place, size, kind, holds, refcount)
<1>1. c \in Block /\ disk[c] \in Seq(SoundLoaves)
  BY PlaceIs DEF Types, Files
<1>2. Rows(disk, later, place, loaf)
  BY WrittenRows
<1>3. later[c] = IF place.newloaf THEN <<loaf>> ELSE Append(disk[c], loaf)
  BY <1>2 DEF Rows
<1>4. b # c => later[b] = disk[b]
  BY <1>2 DEF Rows
<1>5. i \in DOMAIN later[b]
  OBVIOUS
<1> HIDE DEF later, loaf, c
<1>6. CASE b # c
  BY <1>4, <1>5, <1>6 DEF later
<1>7. CASE b = c /\ place.newloaf
  <2>1. later[b] = <<loaf>>
    BY <1>3, <1>7
  <2>2. later[b][i] = loaf
    BY <1>5, <2>1
  <2> QED  BY <1>7, <2>2 DEF later, loaf, c
<1>8. CASE b = c /\ ~place.newloaf
  <2>1. later[b] = Append(disk[c], loaf)
    BY <1>3, <1>8
  <2>2. (i \in DOMAIN disk[c] /\ later[b][i] = disk[c][i]) \/ later[b][i] = loaf
    BY <1>1, <1>5, <2>1
  <2> QED  BY <1>8, <2>2 DEF later, loaf, c
<1> QED  BY <1>6, <1>7, <1>8

LEMMA BucketsLeaveRoom ==
    ASSUME NEW free \in Int, NEW size \in Nat, free \div Bucket > size \div Bucket,
           size % Bucket <= Bucket - Header
    PROVE  free >= size + Header
<1> DEFINE p == free \div Bucket
           q == size \div Bucket
           r == size % Bucket
<1>1. Bucket \in Nat /\ Bucket > 0 /\ Header \in Nat
  BY DiskAssumption
<1>2. ASSUME NEW a \in Int
      PROVE  a \div Bucket \in Int /\ Bucket * (a \div Bucket) <= a
  BY <1>1
<1>3. p \in Int /\ q \in Int /\ p >= q + 1
  BY <1>2
<1>4. Bucket * p <= free
  BY <1>2
<1>5. r = size - Bucket * q
  BY <1>1
<1>6. r <= Bucket - Header
  OBVIOUS
<1> HIDE DEF p, q, r
<1>7. Bucket * p >= Bucket * (q + 1)
  BY <1>1, <1>3
<1>8. Bucket * (q + 1) = Bucket * q + Bucket
  BY <1>1, <1>3
<1>9. Bucket * q \in Int /\ Bucket * p \in Int
  BY <1>1, <1>3
<1> QED  BY <1>1, <1>4, <1>5, <1>6, <1>7, <1>8, <1>9

LEMMA PlaceFits ==
    ASSUME NEW size, NEW place \in Places(size), ~place.newloaf
    PROVE  core.free[place.block] \div Bucket > size \div Bucket
<1>1. CASE Fitting(size) # {}
  <2>1. PICK b \in BestFit(size) : place = [block |-> b, newloaf |-> FALSE]
    BY <1>1 DEF Places
  <2> QED  BY <2>1 DEF BestFit, Fitting
<1>2. CASE ~(Fitting(size) # {})
  <2> DEFINE first == {u \in Unallocated : \A v \in Unallocated : u <= v}
  <2>1. Places(size) = {[block |-> b, newloaf |-> TRUE] : b \in first}
    BY <1>2 DEF Places
  <2> HIDE DEF first
  <2>2. place.newloaf
    BY <2>1
  <2> QED  BY <2>2
<1> QED  BY <1>1, <1>2

\* Where the table does not have a block emptier than it is, a loaf that ends a
\* header's length before the next bucket is written whole.
LEMMA WrittenIsWhole ==
    ASSUME Types, NEW size \in LoafSize, NEW place \in Places(size),
           core.free[place.block] <= BlockSize - EndOf(place.block),
           size % Bucket <= Bucket - Header, NEW kind, NEW holds, NEW refcount
    PROVE  WrittenLoaf(place, size, kind, holds, refcount).whole
<1> DEFINE b == place.block
<1>1. Header \in Nat /\ BlockSize \in Nat /\ size \in Nat /\ size <= BlockSize - Header
  BY SizesAre DEF LoafSize
<1>2. b \in Block /\ place.newloaf \in BOOLEAN
  BY PlaceIs
<1>3. CASE place.newloaf
  BY <1>1, <1>3 DEF WrittenLoaf
<1>4. CASE ~place.newloaf
  <2>1. EndOf(b) \in Int /\ core.free[b] \in Int
    BY <1>1, <1>2, EndIs DEF Types, Headers
  <2>2. core.free[b] \div Bucket > size \div Bucket
    BY <1>4, PlaceFits
  <2>3. core.free[b] >= size + Header
    BY <1>1, <2>1, <2>2, BucketsLeaveRoom
  <2>4. size <= BlockSize - EndOf(b) - Header
    BY <1>1, <2>1, <2>3
  <2> QED  BY <1>4, <2>4 DEF WrittenLoaf
<1> QED  BY <1>2, <1>3, <1>4

\* What the three writes do to the file, in the terms that follow.
LEMMA WriteStep ==
    ASSUME DiskInv, [Next]_vars
    PROVE  \/ disk' = disk
           \/ \E size \in LoafSize : \E place \in Places(size), kind \in {"sons", "gran", "apex"} :
              \E holds, refcount :
                 \/ disk' = Written(place, size, kind, holds, refcount)
                 \/ \E p : Lowered(Written(place, size, kind, holds, refcount), disk', p)
<1> DEFINE Step(size, place, kind, holds, refcount) ==
              \/ disk' = Written(place, size, kind, holds, refcount)
              \/ \E p : Lowered(Written(place, size, kind, holds, refcount), disk', p)
<1> SUFFICES ASSUME disk' # disk
             PROVE  \E size \in LoafSize : \E place \in Places(size), kind \in {"sons", "gran", "apex"} :
                    \E holds, refcount : Step(size, place, kind, holds, refcount)
  OBVIOUS
<1>1. ASSUME NEW size \in LoafSize, NEW place \in Places(size), NEW kind \in {"sons", "gran", "apex"},
             NEW holds, NEW refcount, Step(size, place, kind, holds, refcount)
      PROVE  \E s \in LoafSize : \E q \in Places(s), k \in {"sons", "gran", "apex"} :
             \E h, r : Step(s, q, k, h, r)
  <2> HIDE DEF Step
  <2> QED  BY <1>1
<1> HIDE DEF Step
<1>2. ASSUME NEW d \in Doc, WriteSons(d)
      PROVE  \E size \in LoafSize : \E place \in Places(size), kind \in {"sons", "gran", "apex"} :
             \E holds, refcount : Step(size, place, kind, holds, refcount)
  <2>1. Types
    BY DEF DiskInv
  <2> DEFINE size == docs[d].size
             holds == <<d, docs[d].contents>>
  <2>2. size \in LoafSize
    BY <2>1 DEF Types, Documents
  <2>3. PICK place \in Places(size) : disk' = Written(place, size, "sons", holds, 0)
    BY <1>2 DEF WriteSons
  <2> HIDE DEF holds
  <2>4. Step(size, place, "sons", holds, 0)
    BY <2>3 DEF Step
  <2> HIDE DEF size
  <2> QED  BY <1>1, <2>2, <2>4
<1>3. CASE WriteGran
  <2>1. Types
    BY DEF DiskInv
  <2> DEFINE size == gran.size
             holds == [d \in Doc |-> docs[d].orgl]
  <2>2. size \in LoafSize
    BY <2>1 DEF Types
  <2>3. PICK place \in Places(size) : disk' = Written(place, size, "gran", holds, 0)
    BY <1>3 DEF WriteGran
  <2> HIDE DEF holds
  <2>4. Step(size, place, "gran", holds, 0)
    BY <2>3 DEF Step
  <2> HIDE DEF size
  <2> QED  BY <1>1, <2>2, <2>4
<1>4. ASSUME NEW d \in Doc, WriteApex(d)
      PROVE  \E size \in LoafSize : \E place \in Places(size), kind \in {"sons", "gran", "apex"} :
             \E holds, refcount : Step(size, place, kind, holds, refcount)
  <2> DEFINE p == docs[d].orgl
             sons == docs[d].sonorigin
  <2>1. Types /\ Running
    BY <1>4 DEF DiskInv, WriteApex, Writing, Ended
  <2>2. p \in Pointer /\ Carries("apex", NewCount, sons)
    BY <2>1 DEF Types, Documents, Carries, NewCount
  <2>3. p # NULL => In(disk, p, "apex", core.allocated)
    BY <2>1 DEF Running, DocInFile
  <2>4. PICK place \in Places(ApexSize) :
           /\ HasRoom(place, ApexSize)
           /\ disk' = Decremented(Written(place, ApexSize, "apex", sons, NewCount), p)
    BY <1>4 DEF WriteApex
  <2> HIDE DEF p, sons
  <2> DEFINE file == Written(place, ApexSize, "apex", sons, NewCount)
  <2>5. /\ file \in Files /\ Keeps(disk, file, core.allocated)
        /\ \A q \in Block \X Nat :
              q[1] \in core.allocated /\ q[2] \in DOMAIN disk[q[1]] => file[q[1]][q[2]] = Loaf(q)
        /\ In(file, At(place), "apex", core.allocated \union {place.block})
    <3>1. ApexSize \in LoafSize
      BY SizesAre
    <3> QED  BY <2>1, <2>2, <2>4, <3>1, WrittenIs
  <2> HIDE DEF file
  <2>6. p # NULL => In(file, p, "apex", core.allocated)
    BY <2>3, <2>5, KeptIn
  <2>7. Lowered(file, disk', p)
    BY <2>2, <2>4, <2>5, <2>6, DecrementedLowers DEF file
  <2>8. Step(ApexSize, place, "apex", sons, NewCount)
    BY <2>7 DEF Step, file
  <2> QED  BY <1>1, <2>8, SizesAre
<1>5. ~(\E d \in Doc : WriteSons(d) \/ WriteApex(d)) /\ ~WriteGran => disk' = disk
  BY DEF Next, vars, Edit, Begin, WriteRoot, WriteTable, WriteHeader, Killed, Start
<1> QED  BY <1>2, <1>3, <1>4, <1>5

\* A loaf that a step has put into the file without its last bytes.
NewlyCut(b, i) ==
    /\ i \in DOMAIN disk'[b] /\ ~disk'[b][i].whole
    /\ ~(i \in DOMAIN disk[b] /\ ~disk[b][i].whole)

CutStep(b, i) ==
    NewlyCut(b, i) =>
       \/ disk'[b][i].size % Bucket > Bucket - Header
       \/ core.free[b] > BlockSize - EndOf(b)

\* Taking one from a count changes neither what is there nor what is whole.
LEMMA OnlyTheNewIsCut ==
    ASSUME Types, NEW size \in LoafSize, NEW place \in Places(size),
           NEW kind, NEW holds, NEW refcount,
           \/ disk' = Written(place, size, kind, holds, refcount)
           \/ \E p : Lowered(Written(place, size, kind, holds, refcount), disk', p),
           NEW b \in Block, NEW i, NewlyCut(b, i)
    PROVE  /\ b = place.block
           /\ ~WrittenLoaf(place, size, kind, holds, refcount).whole
           /\ disk'[b][i].size = size
<1> DEFINE later == Written(place, size, kind, holds, refcount)
           loaf == WrittenLoaf(place, size, kind, holds, refcount)
<1>1. loaf.size = size
  BY DEF WrittenLoaf
<1>2. ASSUME NEW j \in DOMAIN later[b]
      PROVE  \/ j \in DOMAIN disk[b] /\ later[b][j] = disk[b][j]
             \/ b = place.block /\ later[b][j] = loaf
  BY WrittenAre
<1>3. disk' = later \/ \E p : Lowered(later, disk', p)
  OBVIOUS
<1> HIDE DEF later, loaf
<1>4. /\ i \in DOMAIN later[b]
      /\ disk'[b][i].size = later[b][i].size /\ disk'[b][i].whole = later[b][i].whole
  BY <1>3 DEF Lowered, NewlyCut
<1>5. later[b][i] = loaf /\ b = place.block
  BY <1>2, <1>4 DEF NewlyCut
<1> QED  BY <1>1, <1>4, <1>5 DEF NewlyCut, loaf

LEMMA CutsStep ==
    ASSUME DiskInv, [Next]_vars, NEW b \in Block, NEW i \in DOMAIN disk'[b]
    PROVE  CutStep(b, i)
<1> SUFFICES ASSUME NewlyCut(b, i)
             PROVE  \/ disk'[b][i].size % Bucket > Bucket - Header
                    \/ core.free[b] > BlockSize - EndOf(b)
  BY DEF CutStep
<1>1. Types
  BY DEF DiskInv
<1>2. disk' # disk
  BY DEF NewlyCut
<1>3. PICK size \in LoafSize : \E place \in Places(size), kind \in {"sons", "gran", "apex"} :
         \E holds, refcount :
            \/ disk' = Written(place, size, kind, holds, refcount)
            \/ \E p : Lowered(Written(place, size, kind, holds, refcount), disk', p)
  BY <1>2, WriteStep
<1>4. PICK place \in Places(size), kind \in {"sons", "gran", "apex"} :
         \E holds, refcount :
            \/ disk' = Written(place, size, kind, holds, refcount)
            \/ \E p : Lowered(Written(place, size, kind, holds, refcount), disk', p)
  BY <1>3
<1>5. PICK holds, refcount :
         \/ disk' = Written(place, size, kind, holds, refcount)
         \/ \E p : Lowered(Written(place, size, kind, holds, refcount), disk', p)
  BY <1>4
<1>6. /\ b = place.block /\ disk'[b][i].size = size
      /\ ~WrittenLoaf(place, size, kind, holds, refcount).whole
  BY <1>1, <1>5, OnlyTheNewIsCut
<1>7. ~(core.free[b] <= BlockSize - EndOf(b)) \/ ~(size % Bucket <= Bucket - Header)
  BY <1>1, <1>6, WrittenIsWhole
<1>8. /\ core.free[b] \in Int /\ EndOf(b) \in Int /\ BlockSize \in Int /\ Header \in Int
      /\ size % Bucket \in Int /\ Bucket \in Int
  BY <1>1, EndIs, SizesAre, DiskAssumption DEF Types, Headers, LoafSize
<1> QED  BY <1>6, <1>7, <1>8

\* Of whatever sizes the loaves are, and whatever was killed before, writeloaf
\* leaves out the end of a loaf (disk.c:281) only if its size is within a
\* header's length of the next bucket, where findfreeenoughloafinbucket begins,
\* or if the table of free space has the block emptier than it is.
THEOREM CutsAreNearlyFull ==
    Spec => [][\A b \in Block : \A i \in DOMAIN disk'[b] : CutStep(b, i)]_vars
<1>1. ASSUME DiskInv, [Next]_vars
      PROVE  [\A b \in Block : \A i \in DOMAIN disk'[b] : CutStep(b, i)]_vars
  BY <1>1, CutsStep
<1> QED  BY <1>1, DiskInvHolds, PTL DEF Spec
=============================================================================
