-------------------------------- MODULE Disk --------------------------------
(***************************************************************************)
(* The file behind the enfilades (disk.c, diskalloc.c, multiloaf.c,        *)
(* corediskin.c, corediskout.c, entexit.c): what a back end keeps in it    *)
(* from one process to the next, when it is left in order and when the     *)
(* process is killed.                                                      *)
(*                                                                         *)
(* The file has a header, which says which of its blocks are allocated,    *)
(* how much is free in those that are partly used, and whether there is    *)
(* anything yet (hasenftops).  A loaf, packed from the sons of a crum, is  *)
(* written into a new block or behind the loaves of a block with room.     *)
(* Each document has an apex loaf that leads to the loaf of its contents;  *)
(* the granfilade has a loaf that leads to the apexes, and its own apex,   *)
(* here root, is written over in a block of its own.  The spanfilade, of   *)
(* the same build without documents, is left out.                          *)
(***************************************************************************)
EXTENDS Integers, Sequences

CONSTANTS
    Doc,            \* the documents: numbers, in the order of their addresses
    Sizes,          \* sizes of the loaf of a document's contents
    GranSizes,      \* sizes of the granfilade's loaf
    ApexSize,       \* the size of an apex
    BlockSize,      \* NUMBYTESINLOAF
    Header,         \* SIZEOFUBERDISKHEADER
    Bucket,         \* SIZEOFFREEDISKBUCKET
    MaxBlock,       \* bound: blocks of the file
    MaxEdits,       \* bound: edits of documents
    MaxWritten,     \* bound: how often the root is written, but for exits
    MaxStarts,      \* bound: processes that are started
    MaxCrashes      \* bound: processes that are killed

ASSUME DiskAssumption ==
    /\ Doc \subseteq Nat \ {0}
    /\ \A s \in Sizes \union GranSizes \union {ApexSize} : s \in 1..(BlockSize - Header)
    /\ BlockSize \in Nat /\ Header \in Nat /\ Bucket \in Nat \ {0}
    /\ MaxBlock \in Nat /\ MaxEdits \in Nat /\ MaxWritten \in Nat
    /\ MaxStarts \in Nat /\ MaxCrashes \in Nat

VARIABLES
    disk,       \* the file: of each block, the loaves in it
    root,       \* the apex of the granfilade in the file, and how often it was written
    header,     \* the header in the file
    core,       \* the header in memory (diskheader and the tables of free space)
    docs,       \* the documents in memory
    gran,       \* the granfilade in memory
    pc,         \* what the process is doing
    starts,     \* how many processes there have been
    edits,      \* how many edits
    crashes,    \* how many of the processes were killed
    saved,      \* history: the contents of the documents when root was last written
    ahead,      \* history: root has been written and the header not yet
    stale       \* history: a process was killed when it was so

vars == <<disk, root, header, core, docs, gran, pc, starts, edits, crashes, saved, ahead, stale>>

Block == 1..MaxBlock

NULL == <<0, 0>>        \* DISKPTRNULL

NewHeader == [allocated |-> {}, free |-> [b \in Block |-> -1], hasenftops |-> FALSE]

NewDoc == [contents |-> 0, size |-> ApexSize, sonorigin |-> NULL, orgl |-> NULL, modified |-> "sons"]

NewGran == [size |-> ApexSize, sonorigin |-> NULL, modified |-> TRUE]

Pointer == {NULL} \union (Block \X Nat)

TypeOK ==
    /\ DOMAIN disk = Block
    /\ \A b \in Block : \A i \in DOMAIN disk[b] :
          /\ disk[b][i].at \in Header..BlockSize /\ disk[b][i].refcount \in Nat
          /\ disk[b][i].at + disk[b][i].size <= BlockSize
    /\ root.sonorigin \in Pointer /\ root.written \in Nat
    /\ \A h \in {header, core} :
          h.allocated \subseteq Block /\ \A b \in Block : h.free[b] \in -1..BlockSize
    /\ \A d \in Doc : docs[d].orgl \in Pointer /\ docs[d].modified \in {"no", "apex", "sons"}
    /\ pc \in {"up", "flush", "exit", "table", "header", "left", "killed", "aborted"}

Init ==
    /\ disk = [b \in Block |-> << >>]
    /\ root = [sonorigin |-> NULL, whole |-> FALSE, written |-> 0]
    /\ header = NewHeader /\ core = NewHeader
    /\ docs = [d \in Doc |-> NewDoc] /\ gran = NewGran
    /\ pc = "up" /\ starts = 1 /\ edits = 0 /\ crashes = 0
    /\ saved = [d \in Doc |-> 0] /\ ahead = FALSE /\ stale = FALSE

-----------------------------------------------------------------------------
(* Room for a loaf. *)

\* findinsideloaf: where the loaves of a block end.
EndOf(b) ==
    IF disk[b] = << >> THEN Header
    ELSE LET last == disk[b][Len(disk[b])] IN last.at + last.size

\* findfreeenoughloafinbucket begins one bucket above the loaf's own.
Fitting(size) == {b \in Block : core.free[b] \div Bucket > size \div Bucket}

BestFit(size) ==
    {b \in Fitting(size) : \A c \in Fitting(size) : core.free[b] \div Bucket <= core.free[c] \div Bucket}

Unallocated == Block \ core.allocated

\* Slip: a new block is not marked.
AllocatedUnmarked(place, size) ==
    [core EXCEPT !.free[place.block] = IF place.newloaf THEN BlockSize - size - Header ELSE @ - size]

\* partialdiskalloc: a block with room, or else the first that is not allocated.
Places(size) ==
    IF Fitting(size) # {} THEN {[block |-> b, newloaf |-> FALSE] : b \in BestFit(size)}
    ELSE {[block |-> b, newloaf |-> TRUE] : b \in {u \in Unallocated : \A v \in Unallocated : u <= v}}

\* Slip: the table is trusted.
HasRoomInTable(place, size) == place.newloaf \/ core.free[place.block] >= size

\* findandallocateinsidediskblocknumber ends the process if the block turns out
\* to be fuller than the table has it.
HasRoom(place, size) == place.newloaf \/ EndOf(place.block) + size <= BlockSize

\* writeloaf: of a loaf behind others as much is copied as the block has room
\* for, less the size of the header, which has been taken off already.
Written(place, size, kind, holds, refcount) ==
    LET b == place.block
        at == IF place.newloaf THEN Header ELSE EndOf(b)
        copied == IF place.newloaf THEN BlockSize - Header ELSE BlockSize - at - Header
        loaf == [at |-> at, size |-> size, whole |-> size <= copied,
                 kind |-> kind, refcount |-> refcount, holds |-> holds]
    IN  [disk EXCEPT ![b] = IF place.newloaf THEN <<loaf>> ELSE Append(@, loaf)]

\* Where it has been written.
At(place) == <<place.block, IF place.newloaf THEN 1 ELSE Len(disk[place.block]) + 1>>

Allocated(place, size) ==
    [core EXCEPT !.allocated = @ \union {place.block},
                 !.free[place.block] = IF place.newloaf THEN BlockSize - size - Header ELSE @ - size]

Loaf(p) == disk[p[1]][p[2]]

\* Slip: the apex is packed with a count of 0.
NewCountFromZero == 0 + 1

\* An apex is packed with a count of 1, and changerefcount adds one.
NewCount == 1 + 1

\* changerefcount with -1 for the apex before.  At 0 the block is freed, with
\* all that is in it, and deletewithgarbageddescendents, which goes on to the
\* descendents, reads it again, which ends the process.
Frees(p) == p # NULL /\ Loaf(p).refcount = 1

Decremented(file, p) ==
    IF p = NULL \/ Frees(p) THEN file ELSE [file EXCEPT ![p[1]][p[2]].refcount = @ - 1]

-----------------------------------------------------------------------------
(* What the file holds. *)

\* readloaf: the block is allocated, and the loaf is there and whole.  Of a
\* loaf that is not, varunpackloaf reads pointers to block 0, which end the
\* process.
Readable(p, allocated) == p[1] \in allocated /\ p[2] \in DOMAIN disk[p[1]] /\ Loaf(p).whole

ReadableDoc(d, p, allocated) ==
    /\ Readable(p, allocated) /\ Loaf(p).kind = "apex"
    /\ LET sons == Loaf(p).holds
       IN  Readable(sons, allocated) /\ Loaf(sons).kind = "sons" /\ Loaf(sons).holds[1] = d

ReadableFile(apex, allocated) ==
    /\ apex.whole /\ Readable(apex.sonorigin, allocated) /\ Loaf(apex.sonorigin).kind = "gran"
    /\ \A d \in Doc : ReadableDoc(d, Loaf(apex.sonorigin).holds[d], allocated)

DocOf(p) ==
    LET sons == Loaf(Loaf(p).holds)
    IN  [contents |-> sons.holds[2], size |-> sons.size, sonorigin |-> Loaf(p).holds,
         orgl |-> p, modified |-> "no"]

DocsOf(apex) == [d \in Doc |-> DocOf(Loaf(apex.sonorigin).holds[d])]

GranOf(apex) == [size |-> Loaf(apex.sonorigin).size, sonorigin |-> apex.sonorigin, modified |-> FALSE]

-----------------------------------------------------------------------------
(* The process. *)

Edit(d) ==
    /\ pc = "up" /\ edits < MaxEdits
    /\ edits' = edits + 1
    /\ \E s \in Sizes : docs' = [docs EXCEPT ![d].contents = edits + 1, ![d].size = s, ![d].modified = "sons"]
    /\ \E s \in GranSizes : gran' = [gran EXCEPT !.size = s, !.modified = TRUE]
    /\ UNCHANGED <<disk, root, header, core, pc, starts, crashes, saved, ahead, stale>>

\* diskflush, when the last front end has gone, or diskexit.
Begin ==
    /\ pc = "up"
    /\ \/ pc' = "flush" /\ root.written < MaxWritten
       \/ pc' = "exit"
    /\ UNCHANGED <<disk, root, header, core, docs, gran, starts, edits, crashes, saved, ahead, stale>>

Writing == pc \in {"flush", "exit"}

Aborts ==
    /\ pc' = "aborted"
    /\ stale' = (stale \/ ahead)

\* orglwritepart2 is called for the documents in their order.
Modified == {d \in Doc : docs[d].modified # "no"}

Turn(d) == d \in Modified /\ \A e \in Modified : d <= e

\* uniqueoutloaf of the apex of a document.
WriteSons(d) ==
    /\ Writing /\ Turn(d) /\ docs[d].modified = "sons"
    /\ \E place \in Places(docs[d].size) :
          IF HasRoom(place, docs[d].size)
          THEN /\ disk' = Written(place, docs[d].size, "sons", <<d, docs[d].contents>>, 0)
               /\ core' = Allocated(place, docs[d].size)
               /\ docs' = [docs EXCEPT ![d].sonorigin = At(place), ![d].modified = "apex"]
               /\ UNCHANGED <<pc, stale>>
          ELSE Aborts /\ UNCHANGED <<disk, core, docs>>
    /\ UNCHANGED <<root, header, gran, starts, edits, crashes, saved, ahead>>

\* orglwritepart2: the apex, its count, and the count of the apex before.
WriteApex(d) ==
    /\ Writing /\ Turn(d) /\ docs[d].modified = "apex"
    /\ \E place \in Places(ApexSize) :
          IF HasRoom(place, ApexSize)
          THEN /\ disk' = Decremented(Written(place, ApexSize, "apex", docs[d].sonorigin, NewCount), docs[d].orgl)
               /\ core' = Allocated(place, ApexSize)
               /\ IF Frees(docs[d].orgl) THEN Aborts /\ UNCHANGED docs
                  ELSE /\ docs' = [docs EXCEPT ![d].orgl = At(place), ![d].modified = "no"]
                       /\ UNCHANGED <<pc, stale>>
          ELSE Aborts /\ UNCHANGED <<disk, core, docs>>
    /\ UNCHANGED <<root, header, gran, starts, edits, crashes, saved, ahead>>

\* uniqueoutloaf of the granfilade.
WriteGran ==
    /\ Writing /\ Modified = {} /\ gran.modified
    /\ \E place \in Places(gran.size) :
          IF HasRoom(place, gran.size)
          THEN /\ disk' = Written(place, gran.size, "gran", [d \in Doc |-> docs[d].orgl], 0)
               /\ core' = Allocated(place, gran.size)
               /\ gran' = [gran EXCEPT !.sonorigin = At(place), !.modified = FALSE]
               /\ UNCHANGED <<pc, stale>>
          ELSE Aborts /\ UNCHANGED <<disk, core, gran>>
    /\ UNCHANGED <<root, header, docs, starts, edits, crashes, saved, ahead>>

\* What writeloaf copies into the block of the root, which it takes to hold
\* one loaf more each time: behind the first they are bytes of zero.
RootRoom ==
    LET zeros == IF root.written = 1 THEN 0 ELSE root.written - 2
    IN  BlockSize - (Header + ApexSize + zeros) - Header

\* The root as it is left.  What is not copied stays as it was.
NewRoot ==
    IF ~core.hasenftops THEN [sonorigin |-> gran.sonorigin, whole |-> TRUE, written |-> 1]
    ELSE [sonorigin |-> gran.sonorigin, written |-> root.written + 1,
          whole |-> ApexSize <= RootRoom \/ (root.whole /\ gran.sonorigin = root.sonorigin)]

Overruns == core.hasenftops /\ RootRoom < 0

\* Slip: the root is written while the granfilade is not.
RootIsDueEarly == Writing /\ Modified = {}

RootIsDue == Writing /\ Modified = {} /\ ~gran.modified

\* writeenfilades ends with the root, whether or not anything was modified.
\* diskflush goes on with what is in the file.
WriteRoot ==
    /\ RootIsDue
    /\ IF Overruns THEN Aborts /\ UNCHANGED <<root, docs, gran, saved, ahead>>
       ELSE /\ root' = NewRoot
            /\ saved' = [d \in Doc |-> docs[d].contents]
            /\ ahead' = TRUE
            /\ IF pc = "exit" THEN pc' = "table" /\ UNCHANGED <<docs, gran, stale>>
               ELSE IF ReadableFile(NewRoot, core.allocated)
               THEN pc' = "up" /\ docs' = DocsOf(NewRoot) /\ gran' = GranOf(NewRoot) /\ UNCHANGED stale
               ELSE pc' = "aborted" /\ stale' = TRUE /\ UNCHANGED <<docs, gran>>
    /\ UNCHANGED <<disk, header, core, starts, edits, crashes>>

\* savepartialdiskalloctabletodisk.
WriteTable ==
    /\ pc = "table"
    /\ header' = [header EXCEPT !.free = core.free]
    /\ pc' = "header"
    /\ UNCHANGED <<disk, root, core, docs, gran, starts, edits, crashes, saved, ahead, stale>>

\* writeallocinfo.
WriteHeader ==
    /\ pc = "header"
    /\ header' = [header EXCEPT !.allocated = core.allocated, !.hasenftops = TRUE]
    /\ pc' = "left" /\ ahead' = FALSE
    /\ UNCHANGED <<disk, root, core, docs, gran, starts, edits, crashes, saved, stale>>

Ended == pc \in {"left", "killed", "aborted"}

\* A signal, the power, or a fault of the program elsewhere.
Killed ==
    /\ ~Ended /\ crashes < MaxCrashes
    /\ pc' = "killed" /\ crashes' = crashes + 1
    /\ stale' = (stale \/ ahead)
    /\ UNCHANGED <<disk, root, header, core, docs, gran, starts, edits, saved, ahead>>

\* initmagicktricks.  A file that no process has left in order is begun anew.
Start ==
    /\ Ended /\ starts < MaxStarts
    /\ starts' = starts + 1
    /\ IF ~header.hasenftops
       THEN /\ header' = NewHeader /\ core' = NewHeader
            /\ docs' = [d \in Doc |-> NewDoc] /\ gran' = NewGran
            /\ pc' = "up" /\ stale' = FALSE /\ ahead' = FALSE
       ELSE /\ core' = header
            /\ IF ReadableFile(root, header.allocated)
               THEN pc' = "up" /\ docs' = DocsOf(root) /\ gran' = GranOf(root)
               ELSE pc' = "aborted" /\ UNCHANGED <<docs, gran>>
            /\ UNCHANGED <<header, stale, ahead>>
    /\ UNCHANGED <<disk, root, edits, crashes, saved>>

Next ==
    \/ \E d \in Doc : Edit(d) \/ WriteSons(d) \/ WriteApex(d)
    \/ Begin \/ WriteGran \/ WriteRoot \/ WriteTable \/ WriteHeader \/ Killed \/ Start

Spec == Init /\ [][Next]_vars

-----------------------------------------------------------------------------
(* Properties. *)

\* corediskout.c:457: "in order to guarantee integrity of disk, it's important
\* to write out or increment sons before father".  At every moment, also in the
\* middle of writing, the root in the file leads to all documents as they were
\* when it was written: no block that it leads to is given away or written
\* over, however loaves share blocks and whichever are superseded.
Intact ==
    (header.hasenftops \/ ahead) /\ ~stale =>
       /\ ReadableFile(root, Block)
       /\ \A d \in Doc : DocOf(Loaf(root.sonorigin).holds[d]).contents = saved[d]

\* If the process is killed before it has written the root, the next one finds
\* the file as the last one left it: the header allots all blocks in use.
Restartable == header.hasenftops /\ ~ahead /\ ~stale => ReadableFile(root, header.allocated)

\* corediskout.c:36: "make sure file is up to date when exitting program".  As
\* long as no process is killed, none ends of its own, and one that is left
\* leaves what it had in memory where the next can read it.
UpToDate ==
    crashes = 0 =>
       /\ pc # "aborted"
       /\ pc = "left" => /\ ReadableFile(root, header.allocated)
                         /\ \A d \in Doc : DocOf(Loaf(root.sonorigin).holds[d]).contents = docs[d].contents
=============================================================================
