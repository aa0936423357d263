-------------------------------- MODULE Bert --------------------------------
(***************************************************************************)
(* The BERT table of the back end (bert.c): which connection has which     *)
(* document open, for reading or for writing, with its requests OPEN,      *)
(* CLOSE, XACCOUNT, QUIT and the document-creating and editing requests    *)
(* that consult it (fns.c, do1.c, granf1.c).  A connection is the index of *)
(* a player (`user' in the code).  Requests are executed one at a time, so *)
(* each action is one whole handler.                                       *)
(*                                                                         *)
(* Tumblers are abstracted to the members of Doc; the hash of a tumbler to *)
(* HashOf; the prefix comparison of a document with an account             *)
(* (tumbleraccounteq, tumble.c) to the relation Owns.                      *)
(***************************************************************************)
EXTENDS Integers, Sequences

CONSTANTS
    Conn,           \* player indices that clients are served under
    Doc,            \* document addresses
    InitDocs,       \* those that are on disk when the back end starts
    Account,        \* account addresses
    Owns,           \* set of <<account, document>> with the document under it
    Bucket,         \* indices of berttable, in the order exitbert scans them
    HashOf,         \* hashoftumbler
    MaxCount,       \* bound: opens a connection holds on each document
    MaxChain,       \* bound: cells in one chain
    PoliteClients   \* TRUE: clients only open documents that exist

READBERT == 1
WRITEBERT == 2
OpenType == {READBERT, WRITEBERT}
OpenMode == {"COPYIF", "ONLY", "COPY"}

ASSUME BertAssumption ==
    /\ InitDocs \subseteq Doc
    /\ Owns \subseteq Account \X Doc
    /\ Bucket \subseteq Nat
    /\ HashOf \in [Doc -> Bucket]
    /\ MaxCount \in [Doc -> Nat \ {0}]
    /\ MaxChain \in Nat
    /\ PoliteClients \in BOOLEAN

VARIABLES
    bert,       \* berttable: the chain of each bucket, its head first
    account,    \* player[c].account
    docs,       \* documents in the granfilade
    opens,      \* history: opens granted to the session at c, less its closes
    up          \* FALSE between the death of the process and its restart

vars == <<bert, account, docs, opens, up>>

Entry == [conn : Conn, doc : Doc, created : BOOLEAN, modified : BOOLEAN,
          type : OpenType, count : Nat \ {0}]

NoOpens == [c \in Conn |-> [d \in Doc |-> 0]]

TypeOK ==
    /\ bert \in [Bucket -> Seq(Entry)]
    /\ account \in [Conn -> Account]
    /\ docs \in SUBSET Doc
    /\ opens \in [Conn -> [Doc -> Nat]]
    /\ up \in BOOLEAN

Init ==
    /\ bert = [b \in Bucket |-> << >>]
    /\ account \in [Conn -> Account]
    /\ docs = InitDocs
    /\ opens = NoOpens
    /\ up = TRUE

-----------------------------------------------------------------------------
(* The table. *)

Chain(d) == bert[HashOf[d]]

Matches(e, d, c) == e.doc = d /\ e.conn = c

\* The first match of a scan of the chain from its head.
IsFirst(chain, i, d, c) ==
    /\ i \in DOMAIN chain
    /\ Matches(chain[i], d, c)
    /\ \A j \in DOMAIN chain : j < i => ~Matches(chain[j], d, c)

HasEntry(d, c) == \E i \in DOMAIN Chain(d) : Matches(Chain(d)[i], d, c)

ForeignNonRead(d, c) ==
    \E i \in DOMAIN Chain(d) : /\ Chain(d)[i].doc = d
                               /\ Chain(d)[i].conn # c
                               /\ Chain(d)[i].type # READBERT

OwnsDoc(c, d) == <<account[c], d>> \in Owns

\* Slip: a connection that reads a document and asks to write it is told to
\* open it, as if it were somebody else's read.
CheckForOpenUpgrades(d, type, c) ==
    IF HasEntry(d, c) /\ \E i \in DOMAIN Chain(d) :
          Matches(Chain(d)[i], d, c) /\ Chain(d)[i].type >= type
    THEN LET i == CHOOSE k \in DOMAIN Chain(d) : IsFirst(Chain(d), k, d, c)
         IN  Chain(d)[i].type
    ELSE IF ~ForeignNonRead(d, c) /\ (type = READBERT \/ OwnsDoc(c, d))
         THEN 0 ELSE -1

\* Slip: the opens of other connections are not looked for.
CheckForOpenOwnOnly(d, type, c) ==
    IF HasEntry(d, c)
    THEN LET i == CHOOSE k \in DOMAIN Chain(d) : IsFirst(Chain(d), k, d, c)
         IN  IF Chain(d)[i].type = WRITEBERT THEN WRITEBERT
             ELSE IF type = READBERT THEN READBERT ELSE -1
    ELSE IF type = READBERT \/ OwnsDoc(c, d) THEN 0 ELSE -1

\* Slip: && and || grouped the other way in the last test.
CheckForOpenMisgrouped(d, type, c) ==
    IF HasEntry(d, c)
    THEN LET i == CHOOSE k \in DOMAIN Chain(d) : IsFirst(Chain(d), k, d, c)
         IN  IF Chain(d)[i].type = WRITEBERT THEN WRITEBERT
             ELSE IF type = READBERT THEN READBERT ELSE -1
    ELSE IF type = READBERT \/ (~ForeignNonRead(d, c) /\ OwnsDoc(c, d))
         THEN 0 ELSE -1

\* Whether connection c has d open: the type of its open, 0 when it has to
\* open it first, -1 when a new version should be made.
CheckForOpen(d, type, c) ==
    IF HasEntry(d, c)
    THEN LET i == CHOOSE k \in DOMAIN Chain(d) : IsFirst(Chain(d), k, d, c)
         IN  IF Chain(d)[i].type = WRITEBERT THEN WRITEBERT
             ELSE IF type = READBERT THEN READBERT ELSE -1
    ELSE IF ~ForeignNonRead(d, c) /\ (type = READBERT \/ OwnsDoc(c, d))
         THEN 0 ELSE -1

NewEntry(d, c, created, type) ==
    [conn |-> c, doc |-> d, created |-> created, modified |-> FALSE,
     type |-> type, count |-> 1]

\* A new cell at the head of the chain.
AddToOpen(d, c, created, type) ==
    [bert EXCEPT ![HashOf[d]] = <<NewEntry(d, c, created, type)>> \o @]

Counted(e, n) == [e EXCEPT !.count = n]

Marked(e) == [e EXCEPT !.modified = TRUE]

\* incrementopen visits every matching cell.
IncrementOpen(d, c) ==
    LET chain == Chain(d)
    IN  [bert EXCEPT ![HashOf[d]] =
            [i \in DOMAIN chain |-> IF Matches(chain[i], d, c)
                                    THEN Counted(chain[i], chain[i].count + 1)
                                    ELSE chain[i]]]

\* logbertmodified marks the first matching cell, if there is one.
LogBertModified(d, c) ==
    LET chain == Chain(d)
    IN  [bert EXCEPT ![HashOf[d]] =
            [i \in DOMAIN chain |-> IF IsFirst(chain, i, d, c)
                                    THEN Marked(chain[i])
                                    ELSE chain[i]]]

\* Cell i unlinked from a chain.
Unlink(chain, i) ==
    [j \in 1..(Len(chain) - 1) |-> IF j < i THEN chain[j] ELSE chain[j + 1]]

\* Slips: the cell goes with the first close, or stays with a count of 0.
RemoveFromOpenAtOnce(d, i) == [bert EXCEPT ![HashOf[d]] = Unlink(@, i)]

RemoveFromOpenNever(d, i) ==
    [bert EXCEPT ![HashOf[d]][i] = Counted(@, @.count - 1)]

\* removefromopen at the first matching cell i: one open fewer, and the cell
\* goes with the last one.  (deleteversion, which it calls for a document that
\* was created and not modified, has an empty body.)
RemoveFromOpen(d, i) ==
    LET chain == Chain(d)
    IN  [bert EXCEPT ![HashOf[d]] =
            IF chain[i].count > 1
            THEN [chain EXCEPT ![i] = Counted(@, chain[i].count - 1)]
            ELSE Unlink(chain, i)]

-----------------------------------------------------------------------------
(* OPEN. *)

\* The addresses a new document can get under an account, and those a new
\* version of d can get: below d, hence in every account d is in.
FreshIn(a) == {e \in Doc \ docs : <<a, e>> \in Owns}

FreshBelow(d) ==
    {e \in Doc \ docs : \A a \in Account : <<a, d>> \in Owns => <<a, e>> \in Owns}

\* Slip: the version is always put below the document, as CREATENEWVERSION does.
VersionAddressBelow(c, d) == FreshBelow(d)

\* docreatenewversion as doopen calls it, with the client's account as the
\* place for the version of a document of somebody else.
VersionAddress(c, d) ==
    IF OwnsDoc(c, d) THEN FreshBelow(d) ELSE FreshIn(account[c])

MayName(d) == PoliteClients => d \in docs

Granted(c, d) == opens' = [opens EXCEPT ![c][d] = @ + 1]

\* Not open yet, and nothing in the way.
OpenAdd(c, d, type, mode) ==
    /\ up /\ MayName(d)
    /\ mode # "COPY"
    /\ CheckForOpen(d, type, c) = 0
    /\ Len(Chain(d)) < MaxChain
    /\ bert' = AddToOpen(d, c, FALSE, type)
    /\ Granted(c, d)
    /\ UNCHANGED <<account, docs, up>>

\* Open for reading by this connection already.  (MaxCount bounds the count.)
OpenIncrement(c, d, type, mode) ==
    /\ up /\ MayName(d)
    /\ mode # "COPY"
    /\ type = READBERT
    /\ CheckForOpen(d, type, c) = READBERT
    /\ \A i \in DOMAIN Chain(d) :
          Matches(Chain(d)[i], d, c) => Chain(d)[i].count < MaxCount[d]
    /\ bert' = IncrementOpen(d, c)
    /\ Granted(c, d)
    /\ UNCHANGED <<account, docs, up>>

\* A new version is opened in the document's place: always with mode COPY,
\* with COPYIF when the document itself cannot be had.  With mode ONLY doopen
\* fails there and nothing changes.
OpenNewVersion(c, d, type, mode) ==
    /\ up /\ MayName(d)
    /\ \/ mode = "COPY"
       \/ /\ mode = "COPYIF"
          /\ CheckForOpen(d, type, c) # 0
          /\ ~(type = READBERT /\ CheckForOpen(d, type, c) = READBERT)
    /\ \E e \in VersionAddress(c, d) :
          /\ Len(Chain(e)) < MaxChain
          /\ docs' = docs \union {e}
          /\ bert' = AddToOpen(e, c, TRUE, type)
          /\ Granted(c, e)
    /\ UNCHANGED <<account, up>>

-----------------------------------------------------------------------------
(* CLOSE, editing, creation, XACCOUNT. *)

\* doclose answers with success whether or not the document was open.
Close(c, d) ==
    /\ up
    /\ \E i \in DOMAIN Chain(d) :
          /\ IsFirst(Chain(d), i, d, c)
          /\ bert' = RemoveFromOpen(d, i)
    /\ opens' = [opens EXCEPT ![c][d] = IF @ = 0 THEN 0 ELSE @ - 1]
    /\ UNCHANGED <<account, docs, up>>

\* COPY, INSERT, REARRANGE, DELETEVSPAN: findorgl asks for WRITEBERT, and the
\* edit of the document ends in logbertmodified.
Edit(c, d) ==
    /\ up
    /\ d \in docs
    /\ CheckForOpen(d, WRITEBERT, c) > 0
    /\ bert' = LogBertModified(d, c)
    /\ UNCHANGED <<account, docs, opens, up>>

\* CREATENEWDOCUMENT under the client's account, or CREATENEWVERSION of d,
\* which puts the version below d whoever owns d.  The version is opened for
\* writing, filled and closed again inside the request: the table is as before.
CreateDocument(c) ==
    /\ up
    /\ \E e \in FreshIn(account[c])
               \union UNION {FreshBelow(d) : d \in {f \in Doc : MayName(f)}} :
          docs' = docs \union {e}
    /\ UNCHANGED <<bert, account, opens, up>>

XAccount(c) ==
    /\ up
    /\ \E a \in Account : account' = [account EXCEPT ![c] = a]
    /\ UNCHANGED <<bert, docs, opens, up>>

-----------------------------------------------------------------------------
(* QUIT, or the end of the client's input: dobertexit. *)

NoneIn(chain, c) == \A j \in DOMAIN chain : chain[j].conn # c

\* exitbert returns at the first cell of the connection it meets.
FirstOfConn(c, b, i) ==
    /\ \A a \in Bucket : a < b => NoneIn(bert[a], c)
    /\ i \in DOMAIN bert[b]
    /\ bert[b][i].conn = c
    /\ \A j \in DOMAIN bert[b] : j < i => bert[b][j].conn # c

\* oldptr is not reset between buckets: a cell at the head of its chain, met
\* after a chain that is not empty, is taken for the successor of that chain's
\* last cell, and efree gets its null successor.
BadUnlink(b, i) == i = 1 /\ \E a \in Bucket : a < b /\ bert[a] # << >>

SessionEnds(c) == opens' = [opens EXCEPT ![c] = [d \in Doc |-> 0]]

ExitNothing(c) ==
    /\ up
    /\ \A b \in Bucket : NoneIn(bert[b], c)
    /\ SessionEnds(c)
    /\ UNCHANGED <<bert, account, docs, up>>

ExitOne(c) ==
    /\ up
    /\ \E b \in Bucket : \E i \in DOMAIN bert[b] :
          /\ FirstOfConn(c, b, i)
          /\ ~BadUnlink(b, i)
          /\ bert' = [bert EXCEPT ![b] = Unlink(@, i)]
    /\ SessionEnds(c)
    /\ UNCHANGED <<account, docs, up>>

\* The whole process dies: every session, and the table, is gone.
Die ==
    /\ up' = FALSE
    /\ bert' = [b \in Bucket |-> << >>]
    /\ opens' = NoOpens

ExitCrash(c) ==
    /\ up
    /\ \E b \in Bucket : \E i \in DOMAIN bert[b] :
          FirstOfConn(c, b, i) /\ BadUnlink(b, i)
    /\ Die
    /\ UNCHANGED <<account, docs>>

Exit(c) == ExitNothing(c) \/ ExitOne(c) \/ ExitCrash(c)

\* A new process: accounts are to be named again, and of the documents created
\* since the file was opened only those that reached the disk are there.
Restart ==
    /\ ~up
    /\ up' = TRUE
    /\ account' \in [Conn -> Account]
    /\ docs' \in {D \in SUBSET docs : InitDocs \subseteq D}
    /\ UNCHANGED <<bert, opens>>

Open(c) ==
    \E d \in Doc, type \in OpenType, mode \in OpenMode :
       \/ OpenAdd(c, d, type, mode)
       \/ OpenIncrement(c, d, type, mode)
       \/ OpenNewVersion(c, d, type, mode)

Next ==
    \/ \E c \in Conn :
          \/ Open(c)
          \/ \E d \in Doc : Close(c, d) \/ Edit(c, d)
          \/ CreateDocument(c)
          \/ XAccount(c)
          \/ Exit(c)
    \/ Restart

Spec == Init /\ [][Next]_vars

-----------------------------------------------------------------------------
(* What the table promises. *)

Entries == UNION {{bert[b][i] : i \in DOMAIN bert[b]} : b \in Bucket}

\* Every cell is in the chain its document hashes to.
Placed == \A b \in Bucket : \A i \in DOMAIN bert[b] : HashOf[bert[b][i].doc] = b

\* A connection has at most one cell for a document.
UniqueOpen ==
    \A b \in Bucket : \A i, j \in DOMAIN bert[b] :
       /\ bert[b][i].doc = bert[b][j].doc
       /\ bert[b][i].conn = bert[b][j].conn
       => i = j

\* The scan of one chain sees all opens of a document, and the first match that
\* checkforopen, logbertmodified and removefromopen stop at is the only one,
\* through closes, leaked cells, exits and crashes.
FirstMatchIsOnly == Placed /\ UniqueOpen

\* Only one connection can have a document open for writing, through closes,
\* leaked cells, changes of account and versions (findings/0014).
SingleWriter ==
    \A b \in Bucket : \A i, j \in DOMAIN bert[b] :
       /\ bert[b][i].doc = bert[b][j].doc
       /\ bert[b][i].type = WRITEBERT
       /\ bert[b][j].type = WRITEBERT
       => bert[b][i].conn = bert[b][j].conn

\* An open that was granted to a session stays in force until the session
\* closes it as often as it was granted: no other session's close or exit, and
\* none of its own on another document, takes it away.
NoLostOpen ==
    \A c \in Conn, d \in Doc : opens[c][d] > 0 =>
       \E e \in Entries : Matches(e, d, c) /\ e.count >= opens[c][d]

\* With clients that keep to existing documents, no cell is for an address
\* that is still to be given out.
OpenDocsExist == \A b \in Bucket : \A i \in DOMAIN bert[b] : bert[b][i].doc \in docs

\* A process that is down has no table.
DownIsEmpty == ~up => \A b \in Bucket : bert[b] = << >>

\* What every step preserves, and the invariants follow from.
Inv ==
    /\ TypeOK
    /\ Placed
    /\ UniqueOpen
    /\ SingleWriter
    /\ OpenDocsExist
    /\ DownIsEmpty

\* A document is opened for writing only by a connection whose account it is
\* under at that moment: cells for writing enter the table no other way
\* (isthisusersdocument, bert.c:85, and the place of a new version, do1.c:268).
WriteOpenNeedsOwnership ==
    [][\A c \in Conn, d \in Doc :
          opens'[c][d] > opens[c][d] /\ (\E e \in Entries' : Matches(e, d, c)
                                            /\ e.type = WRITEBERT)
          => OwnsDoc(c, d)]_vars

\* A connection that does not have a document open never gets it, for reading
\* or writing, while somebody else writes it: it gets a new version or nothing
\* (table above doopen, columns WRITE, conn!=).
NoOpenUnderForeignWriter ==
    [][\A c \in Conn, d \in Doc :
          ~HasEntry(d, c) /\ HasEntry(d, c)' => ~ForeignNonRead(d, c)]_vars
=============================================================================
