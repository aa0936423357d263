# A model of Udanax Green and its test harness

Udanax Green (`src/backend`, about 17,600 lines of C) is a server for
hypertext: documents, their characters and the links between them have
permanent addresses, and what a front end sees as a document is a map into
that address space. Around it the repository has a client and a harness
(`src/febe`, Python) that runs scenarios against the server, records what it
answers and compares two servers. This directory holds TLA+ modules of these
parts, the configurations with which TLC checks them on small instances, and
theorems that TLAPS proves for all instances. Where this file names a C
function without a path it is in `src/backend`, a Python one in `src/febe`.

## 1. The system

Two programs are built from the same C files. `backend` (`be.c`) serves one
front end on its standard input. `backenddaemon` (`bed.c`, `socketbe.c`)
serves several over sockets, from one process, one request at a time: there
is no parallelism inside a request, and requests of different sessions
interleave only as whole requests. All state is in memory, is written to one
file (`enf.enf`) at certain moments, and is read back in pieces.

| Part | State | Operations | Talks to |
|---|---|---|---|
| Daemon sessions (`bed.c`, `socketbe.c`) | `player[]`, `n_players`, `fdtoplayer[]`, the select set `inputfds`, `user`, `quitafteruser` | accept, metaprotocol, select, serve, `frontenddied`, `leave`, flush, SIGINT | front ends; the request handlers through `user` |
| BERT table (`bert.c`) | hash table of open documents: connection, document, type, count, created, modified | `checkforopen`, `addtoopen`, `incrementopen`, `removefromopen`, `exitbert`, `logbertmodified` | called by OPEN, CLOSE, every edit (`findorgl`), QUIT |
| Tumblers (`tumble.c`) | none | comparison, addition, subtraction, increment, truncation, account prefix | everything |
| Granfilade (`granf1.c`, `granf2.c`, `insert.c`, `retrie.c`) | sequential enfilade: text and documents at I-addresses | allocation of addresses, insertion, look-up, collection of spans | tumblers; disk |
| POOM (`orglinks.c`, `insertnd.c`, `edit.c`, `ndcuts.c`, `makeroom.c`) | per document a two-dimensional enfilade from V- to I-addresses | insert, append, copy, delete, pivot, swap, retrieve | tumblers; granfilade; BERT before every edit |
| Spanfilade and links (`spanf1.c`, `spanf2.c`, `sporgl.c`, `correspond.c`) | which document shows which I-address; link ends | index insertion, search, intersection of spans | POOM, granfilade |
| Requests (`fns.c`, `do1.c`, `do2.c`) | none of their own | what each FEBE request does to all of these, and what it answers | all |
| Enfilade trees (`split.c`, `recombine.c`, `makeroom.c`, `genf.c`, `wisp.c`) | fathers, sons, widths and displacements | split, recombine, level push and pull, recomputation of widths upwards | all three enfilades |
| Crum cache (`credel.c`), memory (`alloc.c`) | ring of crums, ages, reservations; free list | reap, reserve, free | disk |
| Disk (`disk.c`, `diskalloc.c`, `multiloaf.c`, `corediskin.c`, `corediskout.c`, `entexit.c`) | blocks, loaves and reference counts, the header with the bitmap of blocks, tables of free space | allocate, write out, read in, flush, exit, start | the enfilades |
| Client (`client.py`) | a connection, the current account | one method per request; parsing of answers and failures | a process of `backend` |
| Scenarios (`scenarios/`) | the addresses and answers they hold in variables | sequences of requests | the client |
| Golden files (`generate_golden.py`, `generate_multisession_golden.py`, `compare_golden.py`) | a process per scenario, the operations recorded, one file per scenario, counts of differences | start, run, record, write, stop; classify, exit code | scenarios, the file system |

**What is hard here.** Sessions leave in any order while the table of players
is an array that closes up. Opens are counted per connection, and a
connection is an array index that the next session inherits. Addresses are
never stored as such: every crum holds a width or a displacement, an address
is a sum over a path, and tumbler addition is not commutative. A new I-address
is *searched* rather than counted. An edit of a document is a cut through a
tree followed by additions that must suit each section. The ends of a link are
kept in two places, and searched in one and followed in the other. The file is
written son before father, in blocks that old and new loaves share, and its
header last of all. A failure answer has no end, and edits are answered before
they are carried out.

**What makes each part correct.** Daemon: each socket leads to its own
session, each request is answered under the account its front end named, and
all is written when the last one has left. BERT: one writer, opens last until
they are closed, and nobody opens under somebody else's writer. Tumblers: an
order, and an addition that gives back what was subtracted and can be grouped.
Granfilade: addresses are fresh, lie under their parent, and keep their
content. POOM: the document reads as the sequence of its edits. Links and
index: what a place shows is found from there, wherever it came from, and
nobody's work shows in the answers to somebody else. Disk: the root in the file
leads to what it led to when it was written, at every moment, and an exit loses
nothing. Golden files: what is recorded is what was answered to that request,
and a difference is reported only where there is one. `PROJECT.json`
(`hazards`) says where in the code each can go wrong.

## 2. The modules

| Module | Models | Uses |
|---|---|---|
| `Bert`, `BertProofs` | the BERT table and the requests that use it; its theorems | |
| `Daemon`, `DaemonProofs` | the main loop, its tables and the front ends; its theorems | |
| `Tumble`, `TumbleProofs` | tumbler arithmetic, operators only; lemmas about them | |
| `TumbleLaws` | what the enfilades rely on, for any three tumblers; the laws, and the lemmas of the other proofs, are theorems of `TumbleProofs` | `Tumble` |
| `Granf`, `GranfProofs` | address allocation and text storage; its theorems | `Tumble` |
| `Document` | abstract: what a front end is promised of a document | |
| `Poom`, `PoomProofs` | the POOM and its editing, an implementation of `Document`; its theorems | `Tumble`, `DOC == INSTANCE Document` |
| `Febe` | every request as an operator on documents, links, index and open table | |
| `Requests` | the methods of `XuSession`, with which scenarios are written | |
| `ScenariosText`, `ScenariosLinks`, `ScenariosPlaces`, `ScenariosVersions`, `ScenariosDiscovery`, `ScenariosSessions` | 243 scenarios, request by request | `Requests` |
| `Harness`, `HarnessProofs` | a scenario on a back end of its own and on one it shares; its theorems | `FEBE == INSTANCE Febe`, `Requests` |
| `Golden`, `GoldenProofs` | generation and comparison of golden files; its theorems | |
| `Disk`, `DiskProofs` | the file, from process to process; its theorems | |
| `MC*` | instances for TLC | |

An operator whose comment begins with "Slip:" is a variant of a definition
that follows, with a plausible mistake in it. No specification uses
it; `PROJECT.json` (`mutants`) pairs each slip with the property that
notices the mistake.

### Bert

`bert` maps each bucket to its chain, newest cell first. Each handler is an
action: `OpenAdd`, `OpenIncrement` and `OpenNewVersion` are the outcomes of
`doopen` that change the table, `Close` is `doclose`, `Edit` is any request
that goes through `findorgl` with `WRITEBERT` and ends in `logbertmodified`,
`CreateDocument` the two requests that make documents, `XAccount`, and
`Exit` is `dobertexit`. `exitbert` returns at the first cell it finds, and its
`oldptr` is not reset between buckets: `ExitCrash` is the case in which the
program gives a null pointer to `efree` and aborts, and `Restart` what
follows. `opens` is a history: what each session was granted and has not
closed. Documents are model values; the hash and the prefix test of accounts
are constants.

### Daemon

`pc` is the point of the main loop (`Top`, serving the ready sockets of
`todo` in order, `leave`, `new_players`). `player`, `n_players`, `fdtoplayer`
and `inputfds` are the C variables. The moved record of `leave`, the stale
`fdtoplayer`, the exclusive or on `inputfds`, the account a new record
inherits, and descriptors that are reused at once by `accept` are as in the
code. Simplifications: a front end has one request under way, as the FEBE
clients do; the metaprotocol completes or fails as soon as the connection is
accepted; a stream whose descriptor was closed and reopened reads from the
new socket; writing to a front end that is gone may or may not raise SIGPIPE
(`ServeBroken` is a choice), and a request is abstracted to *changes memory*,
*names an account* or *quits*. `Orderly` restricts the front ends, not the
daemon: one leaves at a time, the newest first, and none arrives meanwhile. It
holds in the run `daemon_orderly` alone; `daemon` and the theorems about all
behaviours have departures in any order, and `MovesAnother` is the step in
which `leave` moves the record of another player.

### Tumble and TumbleLaws

The operators carry the names of the C functions and follow their cases, loop
for loop where digits are concerned. `NPLACES` is the size of the array.
`TumbleLaws` has three operands that change places, so that every law is an
invariant over all triples of `Operand`.

### Granf

The state is the row of bottom crums of the granfilade, with addresses in the
place of widths: `WidthReaches` and `WidthsGroup` of `TumbleLaws` are what
makes the two equivalent. The searches (`FindCrum`, `findpreviousisagr`) are
those of `retrie.c` and `granf2.c` on that row, the allocation that of
`findisatoinsertmolecule` and `findisatoinsertnonmolecule`. `InsertText` fills
the crum an address falls in and puts the rest behind it, even when the rest is
empty. `given` is a history of all addresses front ends were given, also by
requests that then fail (text is stored before the document is found to be
closed). `ForeignSpec` adds versions of other people's documents.

### Poom and Document

`orgl` is the V-displacement of the document's apex and the set of its bottom
crums, each with its displacement from the apex, its I-address and its length.
All V-arithmetic is that of `Tumble`. `insertnd` makes a gap with two knives
(`makegappm`), makes room to the left of the apex, and extends a crum or adds
one; whether a crum that could be extended is found depends on the tree, so
both may happen. `deletend` and `rearrangend` cut, classify and displace.
`text` and `links` are what the crums say after each step (`Becomes`), kept in
variables so that `Document` can be instantiated with them; its specification
is the property `EditsTheDocument`. `Document` keeps a sequence of characters
and a map of links and knows nothing of crums. One oddity is part of the
promise because the program does it: deleting a link leaves a hole when there
is text, and closes up when there is none, since the exponent of a link's
displacement depends on where the apex is.

`Spec` has front ends that edit within the document. What the program does
with other requests was tried out and is not specified: text before the start
of a document that begins behind 1.1 lies on what is there; cuts beyond the end
leave holes; copying a span of no width from inside a crum ends the program.
`AnySwapSpec` adds swaps of regions of different length.

### Febe, Requests and the scenarios, Harness

`Febe` stands one level above `Poom`, `Granf` and `Bert` and takes over what
they establish: a document is the sequence of what stands at its positions, a
fresh I-address is a number below its document, the open table has one entry of
a connection for a document. On that level it has every request of `XuSession`:
what `doopen` grants, refuses or copies, what `docopy` puts into the document
and into the index, how the ends of a new link are cut into runs and stored
both in the link and in the index (`insertendsetsinorgl`,
`insertendsetsinspanf`), what the searches find and the order in which places
are answered, and that an edit is answered before it fails. Each operator takes
a store and gives the new store and the answer.

`Requests` has one operator per method of `XuSession`, so that a scenario in
TLA+ reads as its Python: a sequence of calls with the addresses it keeps in
variables. The scenarios of `multisession.py` have two sessions. `Harness`
takes one scenario at a time and runs it on two back ends side by side: one of
its own, as the generators start it, and one on which a neighbour, a front end
under another account, comes by between two requests, to read, branch, quote
or link what the scenario has just changed. The two answers are compared after
each request (`Undisturbed`); three other properties say at the end of each
scenario that index, links and documents agree. `Fits` says of the scenarios
themselves that each request is about what exists by then and edits within the
text: an open that fails or a text that does not arrive shows in what follows.

The model of the requests was compared with the program: the 243 scenarios
were run on `backend`, and those with two sessions on `backenddaemon`, and
each of the 4,402 answers is the one that `Febe` gives. What was learned that way
is in `Febe`: among others that a search through the index ignores where in an
endset a place lies, that `follow_link` leads through the document of the
first sporgl only, and that links are shown as content of a document that has
no text. In `multisession.py:519` a comment says of two edits in two sessions
"Both changes should be reflected"; the second session has got a version of
its own, and the document ends as `XXXX____BBBB`, in the program and in the
model.

Left out of the scenarios are those that use a request the model does not have
or edits across the bounds of a document's text or into its other subspace:
the three of `retrieve_vspan`, `link_retrieval_via_endsets`, that of
`dump_state`, `internal_transclusion_with_link`,
`pivot_cross_subspace_boundary`, three `pivot_v3_*`, two `create_node`,
`node_then_documents`, `node_creation_cross_session`,
`link_zero_width_endpoints`, `copy_duplicate_iaddresses`,
`delete_then_recopy`, `delete_all_with_links`,
`insert_text_does_not_affect_links_in_same_document` and its counterpart for
deletion, `isanextensionnd_checks_left_or_right`, `type_c_multiple_crums`,
`insert_link_insert_iaddress_gap`, `all_operations_interleaved`,
`pivot_single_char_regions`, `orphaned_link_discovery_by_link_id`,
`copy_link_to_text_subspace`, `insert_text_at_link_subspace`,
`endsets_compare_link_ends`. The scenarios `delete_`, `rearrange_` and
`copy_without_write_token` call methods that `XuSession` does not have; the
`AttributeError` is what they record as the refusal they look for.

### Golden

One step is one read or write of the session (`XuSession`, `XuConn`,
`PipeStream`) or one request that the process serves. A process may answer,
refuse with the single `?`, or die before or in the middle of an answer; what
it did is kept in `did`. A request is plain, guarded by a `try` of the scenario,
or `follow_link`, which takes every `XuError` for a missing end. `Stops`
writes the file, or none if the scenario raised, `Compares` classifies as
`compare_golden.py` does. Addresses are told apart or not; how they are spelled
is left out.

### Disk

`disk` is the file as blocks with the loaves in them, `root` the apex of the
granfilade, which is written over in place, `header` what the file says of
blocks, `core` the same in memory. A flush or an exit writes document by
document the loaf of the contents and then the apex, whose new count is raised
and whose predecessor's is lowered, then the granfilade's loaf, then the root;
an exit goes on with the table of free space and the header, a flush reads
everything back. Each write is a step, and a process may be killed before any
of them (`Killed`); `Start` reads the file as the next process does. The sizes
are those of the code (1024, 6 and 50 bytes). A count that comes to 0 frees the
block and then reads it, which ends the process; so does reading a loaf that is
not there. The overrun of the root, and what happens to a document whose save
was interrupted, were reproduced with the program.

## 3. The runs

| Run | Instance | Shows | States |
|---|---|---|---|
| `bert` | 2 connections, 2 accounts, 3 addresses, 2 buckets, chains of 2, counts to 2 | `TypeOK`, `NoLostOpen`, `FirstMatchIsOnly`, `SingleWriter`, `WriteOpenNeedsOwnership`, `NoOpenUnderForeignWriter` | 71,050 |
| `daemon` | 3 front ends, table of 2, 3 descriptors, 2 accounts, any order | `TypeOK`, `SocketsInUse`, `DisorderedByMovesOnly` | 1.35 million |
| `daemon_orderly` | 3 front ends, table of 2, 2 descriptors, orderly | `ServedAsNamed`, `Answered`, `LetOut`, `WrittenWhenAlone` | 181,246 |
| `tumble` | 4 places, digits to 2, exponents to -2 | five laws | 389,017 |
| `granf` | 2 accounts, crums of 2 characters, 4 characters, 3 documents or links | `TypeOK`, `InOrder`, `WellPlaced`, `Permanent`, `NeverTwice` | 15,177 |
| `granf_foreign` | the same with versions of others' documents | **violated**: `NeverTwice` | |
| `poom` | 4 places of text, 3 characters, 2 links | `TypeOK`, `OneAtATime`, `EditsTheDocument` | 2,294 |
| `poom_swap` | the same with any swap | **violated**: `EditsTheDocument` | |
| `harness` | 243 scenarios, one visit of the neighbour | `Undisturbed`, `LinksFound`, `FoundIsFollowed`, `DocsFound`, `Fits` | 116,533 |
| `golden` | 2 scenarios of 2 and 3 requests, five things a back end may do | `TypeOK`, `InStep`, `RecordsItsOwn`, `NoFalseAlarm`, `Finishes` | 1.02 million |
| `disk` | 2 documents, 3 edits, 3 writes of the root besides exits, 3 processes, one of them killed | `TypeOK`, `Intact`, `Restartable`, `UpToDate` | 311,870 |
| `disk_exits` | 1 document, no edits, 1,000 writes | **violated**: `UpToDate` | |

**Why these bounds.** BERT cells interact only within a document (several
connections), a connection (several documents) and a chain (several
documents): two of each give every pair, a third address gives a new version
both places it can go to, and two buckets give both cases of `exitbert`;
`MaxCount`, which lets one document be opened twice by one connection, and
`MaxChain` cap the counters. In the daemon a place is freed and filled by
the last player, which takes two players, and a third front end finds the
table full or takes over a record and a descriptor that others had; with two
descriptors `accept` fails. Tumblers
of four places and three exponents meet every relation of exponents and every
position at which digits can differ, cancel or be cut off. In the granfilade a
crum of two characters is filled exactly, overfilled, and followed by another;
three documents, versions, nodes or links give every order of kinds before and
after a text. In a document four places allow four crums of one character,
every cut of a crum at its borders and inside, and swaps with and without a
middle; text that was copied makes crums that cannot be merged; two links show
that an edit moves one, both, or none. The scenarios bring their own bounds,
and one visit of the neighbour, at any of their steps and of any kind, shows
everything that depends on a pair of requests of different sessions. Two golden
scenarios give one process after another, with a request of every kind after a
request of every kind. On the disk two documents
share blocks; contents of 200 and 500 bytes and a granfilade of 600 fit into a
block together or not; the third process reads what the second
wrote over what the first did. `MaxBlock` is never reached.

**Deadlock** is not checked where the bounds or the end of the process stop
the system (`daemon*`, `granf*`, `poom*`, `harness`, `golden`, `disk*`).

**Fairness.** `FairSpec` of `Daemon` assumes weak fairness of
`MainLoop` as a whole. The daemon is one thread that blocks in `select` (with
a timeout) or in `accept`; in the model each is a state in which no step of
the loop is enabled unless a front end is waiting. So the process runs when it
can, and no choice among its steps is assumed to be fair. Front ends and the
interrupt have no fairness. `FairSpec` of `Golden` assumes that the back end
serves a request it was sent (or dies), and that the program that drives it
goes on; neither says what is answered. The handshake is taken to complete:
`client.py:634` turns for ever at the end of a file.

**What the violations show.** Each disagrees with a comment or a document of
the repository, quoted in `PROJECT.json` (`findings`): a version of somebody
else's document is placed among the original's own text and links, and an
address is given twice; the swap of regions of unequal length lays characters
on each other; a file that is opened and left often enough, even unchanged,
makes the process fault when it is left the 979th time, since the root's block
is taken to hold one loaf more each time.

Other behaviour that a reader of the code may not expect is listed with the
hazards. A document that is being read can be opened for writing (`bert.c:85`).
A session that ends gives up one of its opens (`bert.c:220`). Once players have
left out of order, `fdtoplayer` is stale: with two front ends a departure may
go unnoticed and the flush at the end never happen, and with a table of three a
request is executed under an account its front end has replaced, which was
reproduced with the daemon; hence `Orderly` in `daemon_orderly`.
`DisorderedByMovesOnly`, in `daemon`, says that nothing but this move takes a
socket or an account out of its place. A scenario
that fails, or exists in one directory only, does not change the exit code of
`compare_golden.py` (line 344). A loaf that leaves less than six bytes of its
block free is written without its last bytes (`disk.c:281`), though nobody was
killed: with `Sizes = {98, 199}` and `GranSizes = {468}` in place of those of
`disk`, `Intact` is false after 23 steps. A process killed between the root and the
header leaves a file whose root leads to blocks that are not allotted
(`stale` in `Disk`).

## 4. The theorems

`BertProofs` proves, for any sets of connections, documents, accounts and
buckets and any ownership and hash function, that `Spec` implies the
invariants `TypeOK` (`TypeCorrect`), `FirstMatchIsOnly` (`OpenIsUnique`),
`SingleWriter` (`WriterIsSingle`) and `NoLostOpen` (`OpensLast`), and the action
properties `NoOpenUnderForeignWriter` (`NobodyUnderWriter`) and
`WriteOpenNeedsOwnership` (`WritersOwn`): everything the run `bert` checks.
The argument: `Inv` is inductive. `SingleWriter` alone is not, because the
scan of one chain says nothing of cells in another (hence `Placed`), and
because a new version enters the table without a scan at all: that its address
has no cell yet is `OpenDocsExist`, which needs clients that open documents
that exist. All but the first theorem therefore assume `PoliteClients`; the code
does not check it (a cell for an address that is not yet allocated is the
hazard at `bert.c:282`). `DownIsEmpty` carries the invariant over a restart. One
lemma per operation on a chain (adding, marking, counting, unlinking) says
what it preserves; each action cites one of them.

`DaemonProofs` proves, for any number of front ends, descriptors and places of
the table, `TypeOK` (`TypeCorrect`), `SocketsInUse` (`SocketsAgree`) and
`DisorderedByMovesOnly` (`OnlyMovesDisorder`), whoever leaves when. `SocketsInUse`
needs more to be inductive: that a descriptor which `accept` gives was in
nobody's use, and that no two descriptors have the same front end
(`Connections`), or a departure could close the other one's; together they are
`Safe`. The table is in order (`InOrder`) when each socket leads to its own
record (`Routed`) and the record has the account its front end named
(`AccountsKept`). Given `Safe`, and that only sockets of players are served
(`Ready`), every step keeps it, except that `leave` moves the last player into a
place that is not the last. Such a move always disorders it
(`MovesAlwaysDisorder`): the socket of the one that was moved then leads past
the end of the table, which is the hazard at `socketbe.c:142`. A request is
therefore executed under the account that its front end named until the first
move, in any order of arrivals, failures and departures
(`ServedAsNamedUntilMoved`). No theorem assumes anything of the front ends;
`MoveDisorders` and `NextKeepsOrder` are the lemmas that carry this. That a
request is answered and that everything is written in the end is only
model-checked, for orderly front ends.

`GoldenProofs` proves, for any scenarios and any set of things a back end may
do, `TypeOK` (`TypeCorrect`), `InStep` (`StaysInStep`), `RecordsItsOwn`
(`FilesAreTrue`) and `NoFalseAlarm` (`AlarmIsTrue`), all from one inductive
invariant (`Invariance`): it says at each point of a session what the pipe may
hold, by what was done to the request under way, and ties each record to a
deed. That the alarm is true follows because two records that differ by more
than an address stand for different deeds.

`TumbleProofs` proves the five laws of `TumbleLaws` for any number of
places, any digits and any exponents, and before them what they rest on:
what a normal tumbler is, that each operator returns one, and that the digits
of two tumblers, laid over each other by their exponents, are compared at the
first position where they differ (`tumblercmp`, `abscmp`), added there and cut
off behind it. That position is the least of a set of natural numbers, which
exists because `<` is well founded, so no induction over digits is needed.
`PlacesAssumption` is all that is assumed; each law names the operands it
holds for. The proofs about the granfilade and the POOM extend this module for
its lemmas; the operands play no part in them.

`GranfProofs` proves, for any accounts, any size of the crums and any number of
places, all that the run `granf` checks: `TypeOK` (`TypeCorrect`), `InOrder`
(`InOrderHolds`), `WellPlaced` (`WellPlacedHolds`), `Permanent`
(`PermanentHolds`) and `NeverTwice` (`NeverTwiceHolds`). The argument runs over
`GranfInv`. Its first part, `Crums`, says that the row is in the order of its
addresses and that a text ends before the next crum: without the order
`FindCrum` and `findpreviousisagr` may stop anywhere. Its second part ties every
address that was given out to the row (`Holds`), which is more than
`Permanent` says, since it must survive an insertion that fills the crum an
address is in. An address that a request finds free is then one that
was never given (`Fresh`). The third part says at which zeros an address has
its fields, so that what is allocated under a document is neither the document
nor under another one. Its lemmas say what this needs of addresses (what is
under an address comes between it and its successor; a level is the number of
zero fields) and of the row (where a search stops, what an insertion
keeps). `AddressAssumption` says that front ends name accounts and documents by
well-formed addresses: the program takes any tumbler and checks none.
The theorems are about `Spec`; under `ForeignSpec`, where a document is
versioned under another account, `NeverTwice` is false, as `granf_foreign` shows.

`DiskProofs` proves, for any documents, any sizes of loaves, blocks and
buckets, any number of blocks, processes and crashes, `TypeOK` (`TypeCorrect`),
`Intact` (`IntactHolds`), `Restartable` (`RestartableHolds`) and `UpToDate`
(`UpToDateHolds`). The second and the third
hold as long as `NothingCut`: no loaf, nor the root, has lost its last bytes to
`writeloaf`, which copies a header's length too few into a block that is
nearly full and takes the root's block to hold one loaf more each time
(`disk.c:281`). It is not an assumption about the constants, since after a crash the
table of free space may be out of date; it holds in every state of the run
`disk`, and `RootStaysWhole` says how often the root can be written before it
fails for the root. The argument: in `DiskInv` the root leads to loaves
in blocks that the process in memory has allotted (`RootInFile`) and, until
the next root is written, in blocks that the header allots (`LeftInFile`).
`Intact` alone is not inductive, because what the next root will lead to
must be in the file before it is written: `DocInFile` and `GranInFile` say what
of a document is in the file by how far it has been saved, and that the
granfilade is modified whenever a document is. Writing a loaf keeps every
other one (`WrittenIs`), and taking one from a count keeps what the loaf says
(`DecrementedIs`): a loaf whose count comes to 0 ends the process before
anything is written over it.

`UpToDate` says that no process ends of its own, so it asks for more: that there
is room wherever the table of free space says so, that no count comes to 0, and
that what was written can be read back. The invariant is `Orderly`, for which
no process may have been killed: the table of free space says for each block
exactly where its loaves end (`TableOf`); each apex that is in use has a count
of 2 and belongs to one document (`Counted`); from the write of the root to the
next start the root leads to what is in memory (`Closed`), and the header in the
file agrees with the one in memory when the process has been left. After a crash
the first two may be false, as the hazards say. `UpToDateHolds` needs that
nothing is cut off and that the root's block is not overrun, in every state.

`CutsAreNearlyFull` says when a loaf can lose its end, for all sizes and all
behaviours: a step leaves out the end of a loaf only if the loaf's size is within
a header's length of the next bucket, or if the table of free space has
its block emptier than it is. Otherwise the block that
`findfreeenoughloafinbucket` chose by its bucket has a header's length to
spare (`WrittenIsWhole`), and a loaf that is already in the file is never cut
(`OnlyTheNewIsCut`). Neither condition can be left out: with the sizes named in
section 3 TLC finds a cut under each one alone, under the second after a process
was killed with loaves in the file that the header does not count. The program
guards against neither. How
long the block of the root lasts is said by `RootStaysWhole`.

`PoomProofs` proves, for documents of any length, any number of links and any
number of places of a tumbler, `TypeOK` (`TypeCorrect`), `OneAtATime`
(`OneAtATimeHolds`) and that `Poom` implements `Document`
(`Implements`: `Spec => EditsTheDocument`). The argument: what
matters of a tree are the space, the place and the first number of each crum
(`Fine`), and these say a text and links, each atom once (`Says`). For each
operation there is what it makes of the crums (a cut takes one apart into two
that say the same; a gap moves those behind it; a rearrangement moves them by a
permutation of places that is a shift on each section) and then what
these say. Two facts of the arithmetic are what it rests on:
the displacement of a link behind text does not change when the text does,
because the exponent of the displacement is coarser than that of the width, and
in a document without text it does. The invariant is `PoomInv`: some
set of crums fits the tree and says what the document reads (`Held`), and
nothing in it has not been made (`Counted`). The properties are not inductive,
since they do not say where the apex is nor that crums do not overlap in a way
that a cut would bring to light. At the end the sequences are shown to be the
concatenations of `Document`. `PoomAssumption` asks for a second place in a
tumbler, as an address in a document has two digits (the program has 16 places).
The theorems are about `Spec`; under `AnySwapSpec` `EditsTheDocument` is false,
as `poom_swap` shows. What `insertpm` makes of several spans (a copy of crumbled
text) is shown by the least number of spans for which it would fail, which
stands in for the induction that the prover does not have; hence `insertpm` and
`makecutsnd` are written as functions on that number and not as folds.

`HarnessProofs` proves `Undisturbed` (`UndisturbedHolds`), `LinksFound`
(`LinksFoundHolds`), `FoundIsFollowed` (`FoundIsFollowedHolds`) and `DocsFound`
(`DocsFoundHolds`) for any scenarios and any number of visits, as long as the
scenario fits: each theorem has the form `Spec /\ []Fits => []...`. `Fits` is a
statement about the scenarios, and the run `harness` checks it for the 243
of the repository; a request outside the text it edits is one of which `Febe`
does not say what the program does. The argument: `Undisturbed` compares two
answers and says nothing of what led to them. The invariant is that the store of
the back end that the scenario has for itself is part of the other (`StoresAgree`):
what is left when the neighbour's documents, their links, what is indexed for
them and his opens are taken away (`Part`). For each request of the
scenario one lemma says that it does to the part what it does to the whole, with
the same answer (`Agree...`), and for each of the neighbour's one that it
leaves the part as it was (`Theirs...`). Both need that the whole is in order
(`Sound`), which every request keeps (`Sound...`): the addresses of documents are
numbered without gaps (`Numbered`), so that the next one does not depend on
who else has documents, and a new one is new; no link has a number that its
document has not given out (`LinksNumbered`); the first place of an endset is
not in a document of the neighbour (`EndsKnown`), or following a link would depend
on him; he has the scenario's documents open for reading only (`OnlyReads`); the
index has each place at which a document shows something, and of links just
what their endsets say (`IndexRight`). From the last the other three theorems
follow for any store in order. That positions are given out in order, that
specifications are taken apart into what single spans show and that sequences
are joined is read off the recursive functions of `Febe` and of the library
directly: the places before a first failure have none
(`LeastIs`), which stands in for induction here, too.

Only model-checked: the liveness properties (`Answered`, `LetOut` and
`WrittenWhenAlone` of `Daemon`, `Finishes` of `Golden`), and `Fits`. Beyond the
prover here: liveness under fairness and what ENABLED says; what a fold or a
recursive definition computes for every input; the 243 scenarios of `Harness`,
each a test of its own.

## 5. Not modelled

* The trees between apex and leaves (splitting, recombination, the search for a
  father, loss of displacement in peeled crums): `Granf`, `Poom` and `Febe`
  have the leaves, and the laws of `TumbleLaws` are what a tree of widths and
  displacements relies on to say the same.
* What the reaper writes between two flushes, and the crum cache and the
  allocator themselves: a process short of memory is needed to get there.
* The cache of blocks, whose calls are commented out (`disk.c:305`), and the
  block queues, which only their initialisation names.
* The bytes of humbers, tumblers and loaves, parsing and printing of FEBE
  requests, options, the interactive front end, debugging code.
* On the disk: the spanfilade (of the same build as the granfilade, without
  documents), trees of more than one level, a second block of the table of free
  space, and a file that is full.
* Requests: `retrieve_vspan`, `create_node`, `dump_state`, and edits that reach
  beyond a document's text or into its other subspace; comparison of versions
  whose content occurs more than once (`correspond.c:290`).
* The collaborative and debugging variants of the client's stream, its
  spelling of addresses, the unit tests, and the knowledge base and its
  scripts, which were read for what they say of the program.
* The width of digits (32 bits): no address comes near it.
