----------------------------- MODULE BertProofs -----------------------------
(***************************************************************************)
(* Theorems about the BERT table, for any number of connections, documents *)
(* and buckets.  With clients that only open documents that exist, every   *)
(* reachable table satisfies Inv, and with it UniqueOpen and SingleWriter, *)
(* every step NoOpenUnderForeignWriter and WriteOpenNeedsOwnership; and    *)
(* OpensKept, which is inductive together with Inv, gives NoLostOpen.      *)
(***************************************************************************)
EXTENDS Bert, TLAPS

\* f leads from the cells of bucket b's new chain to different cells of its old
\* one, for the same document, connection and type.
SameOpen(e, f) == e.doc = f.doc /\ e.conn = f.conn /\ e.type = f.type

Embeds(b, f) ==
    /\ f \in [DOMAIN bert'[b] -> DOMAIN bert[b]]
    /\ \A i, j \in DOMAIN bert'[b] : f[i] = f[j] => i = j
    /\ \A i \in DOMAIN bert'[b] : SameOpen(bert'[b][i], bert[b][f[i]])

Shrinks == \A b \in Bucket : \E f : Embeds(b, f)

\* A step that only takes cells away, or changes their counts and marks, keeps
\* the table in order.
LEMMA ShrinkKeepsInv ==
    ASSUME Inv, TypeOK', Shrinks, docs \subseteq docs', up' = TRUE
    PROVE  Inv'
<1>1. Placed'
  BY DEF Inv, Placed, Shrinks, Embeds, SameOpen
<1>2. UniqueOpen'
  BY DEF Inv, UniqueOpen, Shrinks, Embeds, SameOpen
<1>3. SingleWriter'
  BY DEF Inv, SingleWriter, Shrinks, Embeds, SameOpen
<1>4. OpenDocsExist'
  BY DEF Inv, OpenDocsExist, Shrinks, Embeds, SameOpen
<1> QED  BY <1>1, <1>2, <1>3, <1>4 DEF Inv, DownIsEmpty

\* Unlinking one cell leaves a chain of the others, in their order.
LEMMA UnlinkChain ==
    ASSUME NEW chain \in Seq(Entry), NEW i \in DOMAIN chain
    PROVE  /\ Unlink(chain, i) \in Seq(Entry)
           /\ DOMAIN Unlink(chain, i) = 1..(Len(chain) - 1)
           /\ \A j \in 1..(Len(chain) - 1) :
                 Unlink(chain, i)[j] = IF j < i THEN chain[j] ELSE chain[j + 1]
<1> DEFINE n == Len(chain) - 1
<1>1. n \in Nat /\ Len(chain) = n + 1
  BY DEF Unlink
<1>2. \A j \in 1..n : Unlink(chain, i)[j] \in Entry
  BY <1>1 DEF Unlink
<1> QED  BY <1>1, <1>2 DEF Unlink

\* The same for the whole table.
LEMMA UnlinkShrinks ==
    ASSUME TypeOK, NEW b \in Bucket, NEW i \in DOMAIN bert[b],
           bert' = [bert EXCEPT ![b] = Unlink(@, i)]
    PROVE  bert' \in [Bucket -> Seq(Entry)] /\ Shrinks
<1>1. bert[b] \in Seq(Entry)
  BY DEF TypeOK
<1>2. bert'[b] = Unlink(bert[b], i)
  BY DEF TypeOK
<1>3. /\ bert'[b] \in Seq(Entry)
      /\ DOMAIN bert'[b] = 1..(Len(bert[b]) - 1)
      /\ \A j \in 1..(Len(bert[b]) - 1) :
            bert'[b][j] = IF j < i THEN bert[b][j] ELSE bert[b][j + 1]
  BY <1>1, <1>2, UnlinkChain
<1>4. bert' \in [Bucket -> Seq(Entry)]
  BY <1>2, <1>3 DEF TypeOK
<1>5. \A a \in Bucket : a # b => bert'[a] = bert[a]
  BY DEF TypeOK
<1>6. ASSUME NEW a \in Bucket PROVE \E f : Embeds(a, f)
  <2>1. CASE a # b
    <3> DEFINE f == [k \in DOMAIN bert'[a] |-> k]
    <3>1. f \in [DOMAIN bert'[a] -> DOMAIN bert[a]]
      BY <2>1, <1>5
    <3>2. \A k \in DOMAIN bert'[a] : f[k] = k
      OBVIOUS
    <3> HIDE DEF f
    <3> QED  BY <2>1, <1>5, <3>1, <3>2 DEF Embeds, SameOpen
  <2>2. CASE a = b
    <3> DEFINE f == [k \in 1..(Len(bert[b]) - 1) |-> IF k < i THEN k ELSE k + 1]
    <3>1. f \in [DOMAIN bert'[b] -> DOMAIN bert[b]]
      BY <1>1, <1>3
    <3>2. \A k, j \in DOMAIN bert'[b] : f[k] = f[j] => k = j
      BY <1>1, <1>3
    <3>3. \A k \in DOMAIN bert'[b] : bert'[b][k] = bert[b][f[k]]
      BY <1>1, <1>3
    <3> HIDE DEF f
    <3> QED  BY <2>2, <3>1, <3>2, <3>3 DEF Embeds, SameOpen
  <2> QED  BY <2>1, <2>2
<1> QED  BY <1>4, <1>6 DEF Shrinks

\* A chain whose cells are changed in place, but for counts and marks.
LEMMA RewriteShrinks ==
    ASSUME TypeOK, NEW h \in Bucket, NEW g \in [DOMAIN bert[h] -> Entry],
           bert' = [bert EXCEPT ![h] = g],
           \A i \in DOMAIN bert[h] : SameOpen(g[i], bert[h][i])
    PROVE  bert' \in [Bucket -> Seq(Entry)] /\ Shrinks
<1>1. bert[h] \in Seq(Entry) /\ bert'[h] = g
  BY DEF TypeOK
<1>2. g \in Seq(Entry)
  BY <1>1
<1>3. bert' \in [Bucket -> Seq(Entry)]
  BY <1>2 DEF TypeOK
<1>4. \A a \in Bucket : a # h => bert'[a] = bert[a]
  BY DEF TypeOK
<1>5. ASSUME NEW a \in Bucket PROVE \E f : Embeds(a, f)
  <2> DEFINE f == [k \in DOMAIN bert'[a] |-> k]
  <2>1. DOMAIN bert'[a] = DOMAIN bert[a]
    BY <1>1, <1>4
  <2>2. f \in [DOMAIN bert'[a] -> DOMAIN bert[a]]
    BY <2>1
  <2>3. \A k \in DOMAIN bert'[a] : f[k] = k
    OBVIOUS
  <2> HIDE DEF f
  <2> QED  BY <1>1, <1>4, <2>1, <2>2, <2>3 DEF Embeds, SameOpen
<1> QED  BY <1>3, <1>5 DEF Shrinks

\* A new cell at the head of its chain keeps the table in order when the
\* connection has no cell for the document and nobody else writes it.
LEMMA AddKeepsInv ==
    ASSUME Inv, NEW c \in Conn, NEW d \in Doc, NEW created \in BOOLEAN,
           NEW type \in OpenType,
           bert' = AddToOpen(d, c, created, type),
           ~HasEntry(d, c), ~ForeignNonRead(d, c),
           TypeOK', docs \subseteq docs', d \in docs', up' = TRUE
    PROVE  Inv'
<1> DEFINE h == HashOf[d]
           new == NewEntry(d, c, created, type)
<1>1. h \in Bucket /\ bert[h] \in Seq(Entry)
  BY BertAssumption DEF Inv, TypeOK
<1>2. new.doc = d /\ new.conn = c /\ new.type = type
  BY DEF NewEntry
<1>3. bert'[h] = <<new>> \o bert[h]
  BY <1>1 DEF AddToOpen, Inv, TypeOK, Chain
<1> HIDE DEF h, new
<1>4. /\ DOMAIN bert'[h] = 1..(Len(bert[h]) + 1)
      /\ bert'[h][1] = new
      /\ \A i \in DOMAIN bert'[h] :
            i # 1 => i - 1 \in DOMAIN bert[h] /\ bert'[h][i] = bert[h][i - 1]
  BY <1>1, <1>3
<1>5. \A a \in Bucket : a # h => bert'[a] = bert[a]
  BY DEF AddToOpen, Inv, TypeOK, h
<1>6. \A i \in DOMAIN bert[h] : bert[h][i].doc = d =>
         bert[h][i].conn # c /\ bert[h][i].type = READBERT
  BY DEF HasEntry, ForeignNonRead, Chain, Matches, h
<1>7. Placed'
  BY <1>2, <1>4, <1>5 DEF Placed, Inv, h
<1>8. UniqueOpen'
  <2> SUFFICES ASSUME NEW a \in Bucket, NEW i \in DOMAIN bert'[a],
                      NEW j \in DOMAIN bert'[a],
                      bert'[a][i].doc = bert'[a][j].doc,
                      bert'[a][i].conn = bert'[a][j].conn
               PROVE  i = j
    BY DEF UniqueOpen
  <2>1. CASE a # h
    BY <2>1, <1>5 DEF UniqueOpen, Inv
  <2>2. CASE a = h /\ i # 1 /\ j # 1
    <3> DEFINE k == i - 1
               l == j - 1
    <3>1. /\ k \in DOMAIN bert[h] /\ bert'[h][i] = bert[h][k]
          /\ l \in DOMAIN bert[h] /\ bert'[h][j] = bert[h][l]
      BY <2>2, <1>4
    <3>2. i \in Nat /\ j \in Nat
      BY <2>2, <1>1, <1>4
    <3> HIDE DEF k, l
    <3>3. k = l
      BY <2>2, <1>1, <3>1 DEF UniqueOpen, Inv
    <3> QED  BY <3>2, <3>3 DEF k, l
  <2>3. CASE a = h /\ i = 1
    BY <2>3, <1>2, <1>4, <1>6
  <2>4. CASE a = h /\ j = 1
    BY <2>4, <1>2, <1>4, <1>6
  <2> QED  BY <2>1, <2>2, <2>3, <2>4
<1>9. SingleWriter'
  <2> SUFFICES ASSUME NEW a \in Bucket, NEW i \in DOMAIN bert'[a],
                      NEW j \in DOMAIN bert'[a],
                      bert'[a][i].doc = bert'[a][j].doc,
                      bert'[a][i].type = WRITEBERT,
                      bert'[a][j].type = WRITEBERT
               PROVE  bert'[a][i].conn = bert'[a][j].conn
    BY DEF SingleWriter
  <2>1. CASE a # h
    BY <2>1, <1>5 DEF SingleWriter, Inv
  <2>2. CASE a = h /\ i # 1 /\ j # 1
    BY <2>2, <1>4 DEF SingleWriter, Inv
  <2>3. CASE a = h /\ i = 1
    BY <2>3, <1>2, <1>4, <1>6 DEF READBERT, WRITEBERT
  <2>4. CASE a = h /\ j = 1
    BY <2>4, <1>2, <1>4, <1>6 DEF READBERT, WRITEBERT
  <2> QED  BY <2>1, <2>2, <2>3, <2>4
<1>10. OpenDocsExist'
  BY <1>2, <1>4, <1>5 DEF OpenDocsExist, Inv
<1> QED  BY <1>7, <1>8, <1>9, <1>10 DEF Inv, DownIsEmpty

LEMMA AddType ==
    ASSUME TypeOK, NEW c \in Conn, NEW d \in Doc, NEW created \in BOOLEAN,
           NEW type \in OpenType
    PROVE  AddToOpen(d, c, created, type) \in [Bucket -> Seq(Entry)]
<1>1. NewEntry(d, c, created, type) \in Entry
  BY DEF NewEntry, Entry
<1>2. bert[HashOf[d]] \in Seq(Entry)
  BY BertAssumption DEF TypeOK
<1>3. <<NewEntry(d, c, created, type)>> \o bert[HashOf[d]] \in Seq(Entry)
  BY <1>1, <1>2
<1> QED  BY <1>3, BertAssumption DEF AddToOpen, TypeOK

LEMMA GrantedType ==
    ASSUME TypeOK, NEW c \in Conn, NEW d \in Doc, Granted(c, d)
    PROVE  opens' \in [Conn -> [Doc -> Nat]]
<1>1. opens[c] \in [Doc -> Nat]
  BY DEF TypeOK
<1>2. [opens[c] EXCEPT ![d] = @ + 1] \in [Doc -> Nat]
  BY <1>1
<1> QED  BY <1>1, <1>2 DEF Granted, TypeOK

LEMMA IncrementType ==
    ASSUME TypeOK, NEW c \in Conn, NEW d \in Doc, bert' = IncrementOpen(d, c)
    PROVE  bert' \in [Bucket -> Seq(Entry)] /\ Shrinks
<1> DEFINE h == HashOf[d]
           g == [i \in DOMAIN bert[h] |-> IF Matches(bert[h][i], d, c)
                                          THEN Counted(bert[h][i], bert[h][i].count + 1)
                                          ELSE bert[h][i]]
<1>1. h \in Bucket /\ bert[h] \in Seq(Entry)
  BY BertAssumption DEF TypeOK
<1>2. ASSUME NEW i \in DOMAIN bert[h]
      PROVE  g[i] \in Entry /\ SameOpen(g[i], bert[h][i])
  <2>1. bert[h][i] \in Entry
    BY <1>1
  <2> QED  BY <2>1 DEF Entry, Counted, Marked, SameOpen
<1>3. g \in [DOMAIN bert[h] -> Entry]
  BY <1>2
<1>4. bert' = [bert EXCEPT ![h] = g]
  BY DEF IncrementOpen, Chain
<1>5. \A i \in DOMAIN bert[h] : SameOpen(g[i], bert[h][i])
  BY <1>2
<1>6. h \in Bucket
  BY <1>1
<1> HIDE DEF g, h
<1> QED  BY <1>3, <1>4, <1>5, <1>6, RewriteShrinks

LEMMA LogModifiedType ==
    ASSUME TypeOK, NEW c \in Conn, NEW d \in Doc, bert' = LogBertModified(d, c)
    PROVE  bert' \in [Bucket -> Seq(Entry)] /\ Shrinks
<1> DEFINE h == HashOf[d]
           g == [i \in DOMAIN bert[h] |-> IF IsFirst(bert[h], i, d, c)
                                          THEN Marked(bert[h][i])
                                          ELSE bert[h][i]]
<1>1. h \in Bucket /\ bert[h] \in Seq(Entry)
  BY BertAssumption DEF TypeOK
<1>2. ASSUME NEW i \in DOMAIN bert[h]
      PROVE  g[i] \in Entry /\ SameOpen(g[i], bert[h][i])
  <2>1. bert[h][i] \in Entry
    BY <1>1
  <2> QED  BY <2>1 DEF Entry, Counted, Marked, SameOpen
<1>3. g \in [DOMAIN bert[h] -> Entry]
  BY <1>2
<1>4. bert' = [bert EXCEPT ![h] = g]
  BY DEF LogBertModified, Chain
<1>5. \A i \in DOMAIN bert[h] : SameOpen(g[i], bert[h][i])
  BY <1>2
<1>6. h \in Bucket
  BY <1>1
<1> HIDE DEF g, h
<1> QED  BY <1>3, <1>4, <1>5, <1>6, RewriteShrinks

LEMMA RemoveType ==
    ASSUME TypeOK, NEW d \in Doc, NEW i \in DOMAIN Chain(d),
           bert' = RemoveFromOpen(d, i)
    PROVE  bert' \in [Bucket -> Seq(Entry)] /\ Shrinks
<1> DEFINE h == HashOf[d]
<1>1. h \in Bucket /\ bert[h] \in Seq(Entry) /\ i \in DOMAIN bert[h]
  BY BertAssumption DEF TypeOK, Chain
<1>2. CASE bert[h][i].count > 1
  <2> DEFINE e == Counted(bert[h][i], bert[h][i].count - 1)
             g == [bert[h] EXCEPT ![i] = e]
  <2>1. bert[h][i] \in Entry
    BY <1>1
  <2>2. e \in Entry /\ SameOpen(e, bert[h][i])
    BY <1>2, <2>1 DEF Entry, Counted, SameOpen
  <2>3. ASSUME NEW k \in DOMAIN bert[h]
        PROVE  g[k] \in Entry /\ SameOpen(g[k], bert[h][k])
    <3> HIDE DEF e, h
    <3> QED  BY <1>1, <2>2 DEF SameOpen
  <2>4. g \in [DOMAIN bert[h] -> Entry]
    BY <1>1, <2>3
  <2>5. bert' = [bert EXCEPT ![h] = g]
    BY <1>2 DEF RemoveFromOpen, Chain
  <2>6. \A k \in DOMAIN bert[h] : SameOpen(g[k], bert[h][k])
    BY <2>3
  <2>7. h \in Bucket
    BY <1>1
  <2> HIDE DEF g, e, h
  <2> QED  BY <2>4, <2>5, <2>6, <2>7, RewriteShrinks
<1>3. CASE ~(bert[h][i].count > 1)
  <2>1. bert' = [bert EXCEPT ![h] = Unlink(@, i)]
    BY <1>3 DEF RemoveFromOpen, Chain
  <2> HIDE DEF h
  <2> QED  BY <1>1, <2>1, UnlinkShrinks
<1> QED  BY <1>2, <1>3

-----------------------------------------------------------------------------
\* Type correctness, with any clients.
LEMMA TypeStep == TypeOK /\ [Next]_vars => TypeOK'
<1> SUFFICES ASSUME TypeOK, Next PROVE TypeOK'
  BY DEF TypeOK, vars
<1>1. ASSUME NEW c \in Conn, NEW d \in Doc, NEW type \in OpenType,
             NEW mode \in OpenMode, OpenAdd(c, d, type, mode)
      PROVE  TypeOK'
  BY <1>1, AddType, GrantedType DEF OpenAdd, TypeOK
<1>2. ASSUME NEW c \in Conn, NEW d \in Doc, NEW type \in OpenType,
             NEW mode \in OpenMode, OpenIncrement(c, d, type, mode)
      PROVE  TypeOK'
  BY <1>2, IncrementType, GrantedType DEF OpenIncrement, TypeOK
<1>3. ASSUME NEW c \in Conn, NEW d \in Doc, NEW type \in OpenType,
             NEW mode \in OpenMode, OpenNewVersion(c, d, type, mode)
      PROVE  TypeOK'
  <2>1. PICK e \in VersionAddress(c, d) :
           /\ docs' = docs \union {e}
           /\ bert' = AddToOpen(e, c, TRUE, type)
           /\ Granted(c, e)
    BY <1>3 DEF OpenNewVersion
  <2>2. e \in Doc
    BY <2>1 DEF VersionAddress, FreshBelow, FreshIn
  <2> QED  BY <1>3, <2>1, <2>2, AddType, GrantedType DEF OpenNewVersion, TypeOK
<1>4. ASSUME NEW c \in Conn, NEW d \in Doc, Close(c, d)
      PROVE  TypeOK'
  <2>1. bert' \in [Bucket -> Seq(Entry)]
    BY <1>4, RemoveType DEF Close, IsFirst
  <2>2. opens[c] \in [Doc -> Nat]
    BY DEF TypeOK
  <2>3. [opens[c] EXCEPT ![d] = IF @ = 0 THEN 0 ELSE @ - 1] \in [Doc -> Nat]
    BY <2>2
  <2>4. opens' \in [Conn -> [Doc -> Nat]]
    BY <1>4, <2>3 DEF Close, TypeOK
  <2> QED  BY <1>4, <2>1, <2>4 DEF Close, TypeOK
<1>5. ASSUME NEW c \in Conn, NEW d \in Doc, Edit(c, d)
      PROVE  TypeOK'
  BY <1>5, LogModifiedType DEF Edit, TypeOK
<1>6. ASSUME NEW c \in Conn, CreateDocument(c) \/ XAccount(c)
      PROVE  TypeOK'
  <2>1. CASE XAccount(c)
    BY <2>1 DEF XAccount, TypeOK
  <2>2. CASE CreateDocument(c)
    <3>1. PICK e \in FreshIn(account[c])
                \union UNION {FreshBelow(d) : d \in {f \in Doc : MayName(f)}} :
             docs' = docs \union {e}
      BY <2>2 DEF CreateDocument
    <3>2. e \in Doc
      BY <3>1 DEF FreshBelow, FreshIn
    <3> QED  BY <2>2, <3>1, <3>2 DEF CreateDocument, TypeOK
  <2> QED  BY <1>6, <2>1, <2>2
<1>7. ASSUME NEW c \in Conn, Exit(c)
      PROVE  TypeOK'
  <2>1. CASE ExitNothing(c)
    BY <2>1 DEF ExitNothing, SessionEnds, TypeOK
  <2>2. CASE ExitOne(c)
    <3>1. bert' \in [Bucket -> Seq(Entry)]
      BY <2>2, UnlinkShrinks DEF ExitOne
    <3> QED  BY <2>2, <3>1 DEF ExitOne, SessionEnds, TypeOK
  <2>3. CASE ExitCrash(c)
    <3>1. [b \in Bucket |-> << >>] \in [Bucket -> Seq(Entry)]
      OBVIOUS
    <3>2. NoOpens \in [Conn -> [Doc -> Nat]]
      BY DEF NoOpens
    <3> QED  BY <2>3, <3>1, <3>2 DEF ExitCrash, Die, TypeOK
  <2> QED  BY <1>7, <2>1, <2>2, <2>3 DEF Exit
<1>8. CASE Restart
  BY <1>8 DEF Restart, TypeOK
<1> QED  BY <1>1, <1>2, <1>3, <1>4, <1>5, <1>6, <1>7, <1>8 DEF Next, Open

LEMMA TypeInit == Init => TypeOK
<1>1. [b \in Bucket |-> << >>] \in [Bucket -> Seq(Entry)]
  OBVIOUS
<1>2. NoOpens \in [Conn -> [Doc -> Nat]]
  BY DEF NoOpens
<1> QED  BY <1>1, <1>2, BertAssumption DEF Init, TypeOK

\* The variables keep their types, whatever clients do: in particular no cell
\* stays in the table with a count of 0.
THEOREM TypeCorrect == Spec => []TypeOK
<1> QED  BY TypeInit, TypeStep, PTL DEF Spec

-----------------------------------------------------------------------------
\* With polite clients, every step keeps the table in order.
LEMMA InvInit == Init => Inv
  BY TypeInit, BertAssumption DEF Init, Inv, Placed, UniqueOpen, SingleWriter,
                                  OpenDocsExist, DownIsEmpty

\* checkforopen answers 0 only when the connection has no cell for the
\* document and nobody else writes it.
LEMMA CheckIsZero ==
    ASSUME TypeOK, NEW c \in Conn, NEW d \in Doc, NEW type \in OpenType,
           CheckForOpen(d, type, c) = 0
    PROVE  ~HasEntry(d, c) /\ ~ForeignNonRead(d, c)
<1>1. ~HasEntry(d, c)
  <2> SUFFICES ASSUME HasEntry(d, c) PROVE FALSE
    OBVIOUS
  <2> QED  BY DEF CheckForOpen, READBERT, WRITEBERT
<1> QED  BY <1>1 DEF CheckForOpen

\* An address that is still free is in no cell.
LEMMA FreshIsClosed ==
    ASSUME Inv, NEW c \in Conn, NEW d \in Doc, d \notin docs
    PROVE  ~HasEntry(d, c) /\ ~ForeignNonRead(d, c)
<1>1. HashOf[d] \in Bucket
  BY BertAssumption
<1> QED  BY <1>1 DEF Inv, OpenDocsExist, HasEntry, ForeignNonRead, Chain, Matches

LEMMA InvStep == PoliteClients /\ Inv /\ [Next]_vars => Inv'
<1> SUFFICES ASSUME PoliteClients, Inv, Next, TypeOK' PROVE Inv'
  <2>1. Inv => TypeOK
    BY DEF Inv
  <2>2. CASE Next
    BY <2>1, <2>2, TypeStep
  <2>3. CASE UNCHANGED vars
    BY <2>3 DEF vars, Inv, TypeOK, Placed, UniqueOpen, SingleWriter,
                OpenDocsExist, DownIsEmpty
  <2> QED  BY <2>2, <2>3
<1> TypeOK
  BY DEF Inv
<1>1. ASSUME NEW c \in Conn, NEW d \in Doc, NEW type \in OpenType,
             NEW mode \in OpenMode, OpenAdd(c, d, type, mode)
      PROVE  Inv'
  <2>1. ~HasEntry(d, c) /\ ~ForeignNonRead(d, c)
    BY <1>1, CheckIsZero DEF OpenAdd
  <2>2. d \in docs
    BY <1>1 DEF OpenAdd, MayName
  <2> QED  BY <1>1, <2>1, <2>2, AddKeepsInv DEF OpenAdd
<1>2. ASSUME NEW c \in Conn, NEW d \in Doc, NEW type \in OpenType,
             NEW mode \in OpenMode, OpenIncrement(c, d, type, mode)
      PROVE  Inv'
  BY <1>2, IncrementType, ShrinkKeepsInv DEF OpenIncrement
<1>3. ASSUME NEW c \in Conn, NEW d \in Doc, NEW type \in OpenType,
             NEW mode \in OpenMode, OpenNewVersion(c, d, type, mode)
      PROVE  Inv'
  <2>1. PICK e \in VersionAddress(c, d) :
           /\ docs' = docs \union {e}
           /\ bert' = AddToOpen(e, c, TRUE, type)
    BY <1>3 DEF OpenNewVersion
  <2>2. e \in Doc /\ e \notin docs
    BY <2>1 DEF VersionAddress, FreshBelow, FreshIn
  <2>3. ~HasEntry(e, c) /\ ~ForeignNonRead(e, c)
    BY <2>2, FreshIsClosed
  <2> QED  BY <1>3, <2>1, <2>2, <2>3, AddKeepsInv DEF OpenNewVersion
<1>4. ASSUME NEW c \in Conn, NEW d \in Doc, Close(c, d)
      PROVE  Inv'
  BY <1>4, RemoveType, ShrinkKeepsInv DEF Close, IsFirst
<1>5. ASSUME NEW c \in Conn, NEW d \in Doc, Edit(c, d)
      PROVE  Inv'
  BY <1>5, LogModifiedType, ShrinkKeepsInv DEF Edit
<1>6. ASSUME NEW c \in Conn, CreateDocument(c) \/ XAccount(c)
      PROVE  Inv'
  BY <1>6 DEF CreateDocument, XAccount, Inv, Placed, UniqueOpen, SingleWriter,
              OpenDocsExist, DownIsEmpty
<1>7. ASSUME NEW c \in Conn, Exit(c)
      PROVE  Inv'
  <2>1. CASE ExitNothing(c)
    BY <2>1 DEF ExitNothing, Inv, Placed, UniqueOpen, SingleWriter,
                OpenDocsExist, DownIsEmpty
  <2>2. CASE ExitOne(c)
    BY <2>2, UnlinkShrinks, ShrinkKeepsInv DEF ExitOne
  <2>3. CASE ExitCrash(c)
    BY <2>3 DEF ExitCrash, Die, Inv, Placed, UniqueOpen, SingleWriter,
                OpenDocsExist, DownIsEmpty
  <2> QED  BY <1>7, <2>1, <2>2, <2>3 DEF Exit
<1>8. CASE Restart
  BY <1>8 DEF Restart, Inv, Placed, UniqueOpen, SingleWriter, OpenDocsExist,
              DownIsEmpty
<1> QED  BY <1>1, <1>2, <1>3, <1>4, <1>5, <1>6, <1>7, <1>8 DEF Next, Open

LEMMA InvAlways ==
    ASSUME PoliteClients
    PROVE  Spec => []Inv
<1>1. Inv /\ [Next]_vars => Inv'
  BY InvStep
<1> QED  BY InvInit, <1>1, PTL DEF Spec

\* A scan that stops at the first match finds the only one: a connection has
\* one cell for a document at most, in the chain the document hashes to.
THEOREM OpenIsUnique ==
    ASSUME PoliteClients
    PROVE  Spec => []FirstMatchIsOnly
<1>1. Inv => FirstMatchIsOnly
  BY DEF Inv, FirstMatchIsOnly
<1> QED  BY InvAlways, <1>1, PTL

\* Two connections never have the same document open for writing.
THEOREM WriterIsSingle ==
    ASSUME PoliteClients
    PROVE  Spec => []SingleWriter
<1>1. Inv => SingleWriter
  BY DEF Inv
<1> QED  BY InvAlways, <1>1, PTL
-----------------------------------------------------------------------------
(* What a step may never do. *)

\* In a table that only shrinks, who has a cell had it before.
LEMMA ShrinkOpensNothing ==
    ASSUME TypeOK, Shrinks, NEW c \in Conn, NEW d \in Doc, HasEntry(d, c)'
    PROVE  HasEntry(d, c)
<1>1. HashOf[d] \in Bucket
  BY BertAssumption
<1>2. PICK f : Embeds(HashOf[d], f)
  BY <1>1 DEF Shrinks
<1>3. PICK i \in DOMAIN bert'[HashOf[d]] : Matches(bert'[HashOf[d]][i], d, c)
  BY DEF HasEntry, Chain
<1>4. f[i] \in DOMAIN bert[HashOf[d]] /\ SameOpen(bert'[HashOf[d]][i], bert[HashOf[d]][f[i]])
  BY <1>2, <1>3 DEF Embeds
<1>5. Matches(bert[HashOf[d]][f[i]], d, c)
  BY <1>3, <1>4 DEF Matches, SameOpen
<1> QED  BY <1>4, <1>5 DEF HasEntry, Chain

\* A new cell is one more for its own document and connection.
LEMMA AddOpensOne ==
    ASSUME TypeOK, NEW c \in Conn, NEW d \in Doc, NEW created \in BOOLEAN, NEW type \in OpenType,
           bert' = AddToOpen(d, c, created, type),
           NEW c1 \in Conn, NEW d1 \in Doc, HasEntry(d1, c1)'
    PROVE  HasEntry(d1, c1) \/ (c1 = c /\ d1 = d)
<1> DEFINE h == HashOf[d]
           new == NewEntry(d, c, created, type)
<1>1. h \in Bucket /\ bert[h] \in Seq(Entry) /\ HashOf[d1] \in Bucket
  BY BertAssumption DEF TypeOK
<1>2. new.doc = d /\ new.conn = c
  BY DEF NewEntry
<1>3. bert'[h] = <<new>> \o bert[h]
  BY <1>1 DEF AddToOpen, TypeOK, Chain
<1>4. \A a \in Bucket : a # h => bert'[a] = bert[a]
  BY DEF AddToOpen, TypeOK
<1> HIDE DEF new, h
<1>5. PICK i \in DOMAIN bert'[HashOf[d1]] : Matches(bert'[HashOf[d1]][i], d1, c1)
  BY DEF HasEntry, Chain
<1>6. CASE HashOf[d1] # h
  BY <1>1, <1>4, <1>5, <1>6 DEF HasEntry, Chain
<1>7. CASE HashOf[d1] = h /\ i = 1
  BY <1>1, <1>2, <1>3, <1>5, <1>7 DEF Matches
<1>8. CASE HashOf[d1] = h /\ i # 1
  <2>1. i - 1 \in DOMAIN bert[h] /\ bert'[h][i] = bert[h][i - 1]
    BY <1>1, <1>3, <1>5, <1>8
  <2> QED  BY <1>5, <1>8, <2>1 DEF HasEntry, Chain
<1> QED  BY <1>6, <1>7, <1>8

\* A step that gives a connection a cell it had not is an open that checkforopen
\* let through, or the open of a fresh address: nobody writes the document.
LEMMA OpensUnderNobody ==
    ASSUME PoliteClients, Inv, [Next]_vars, NEW c \in Conn, NEW d \in Doc,
           ~HasEntry(d, c), HasEntry(d, c)'
    PROVE  ~ForeignNonRead(d, c)
<1> TypeOK
  BY DEF Inv
<1>1. ~(UNCHANGED bert)
  BY DEF HasEntry, Chain
<1>2. ~Shrinks
  BY ShrinkOpensNothing
<1>3. ASSUME NEW k \in Conn, NEW e \in Doc, NEW type \in OpenType,
             NEW mode \in OpenMode, OpenAdd(k, e, type, mode)
      PROVE  ~ForeignNonRead(d, c)
  <2>1. c = k /\ d = e
    BY <1>3, AddOpensOne DEF OpenAdd
  <2> QED  BY <1>3, <2>1, CheckIsZero DEF OpenAdd
<1>4. ASSUME NEW k \in Conn, NEW e \in Doc, NEW type \in OpenType,
             NEW mode \in OpenMode, OpenIncrement(k, e, type, mode)
      PROVE  FALSE
  BY <1>2, <1>4, IncrementType DEF OpenIncrement
<1>5. ASSUME NEW k \in Conn, NEW e \in Doc, NEW type \in OpenType,
             NEW mode \in OpenMode, OpenNewVersion(k, e, type, mode)
      PROVE  ~ForeignNonRead(d, c)
  <2>1. PICK v \in VersionAddress(k, e) : bert' = AddToOpen(v, k, TRUE, type)
    BY <1>5 DEF OpenNewVersion
  <2>2. v \in Doc /\ v \notin docs
    BY <2>1 DEF VersionAddress, FreshBelow, FreshIn
  <2>3. c = k /\ d = v
    BY <2>1, <2>2, AddOpensOne
  <2> QED  BY <2>2, <2>3, FreshIsClosed
<1>6. ASSUME NEW k \in Conn, NEW e \in Doc, Close(k, e)
      PROVE  FALSE
  BY <1>2, <1>6, RemoveType DEF Close, IsFirst
<1>7. ASSUME NEW k \in Conn, NEW e \in Doc, Edit(k, e)
      PROVE  FALSE
  BY <1>2, <1>7, LogModifiedType DEF Edit
<1>8. ASSUME NEW k \in Conn, Exit(k)
      PROVE  FALSE
  <2>1. CASE ExitNothing(k)
    BY <1>1, <2>1 DEF ExitNothing
  <2>2. CASE ExitOne(k)
    BY <1>2, <2>2, UnlinkShrinks DEF ExitOne
  <2>3. CASE ExitCrash(k)
    <3>1. bert' = [b \in Bucket |-> << >>]
      BY <2>3 DEF ExitCrash, Die
    <3> QED  BY <3>1, BertAssumption DEF HasEntry, Chain
  <2> QED  BY <1>8, <2>1, <2>2, <2>3 DEF Exit
<1> QED  BY <1>1, <1>3, <1>4, <1>5, <1>6, <1>7, <1>8
         DEF Next, Open, CreateDocument, XAccount, Restart, vars

\* Nobody gets a document that he has not got while somebody else writes it.
THEOREM NobodyUnderWriter ==
    ASSUME PoliteClients
    PROVE  Spec => NoOpenUnderForeignWriter
<1>1. Inv /\ [Next]_vars => [\A c \in Conn, d \in Doc :
          ~HasEntry(d, c) /\ HasEntry(d, c)' => ~ForeignNonRead(d, c)]_vars
  BY OpensUnderNobody
<1> QED  BY InvAlways, <1>1, PTL DEF Spec, NoOpenUnderForeignWriter

\* An open is granted to one connection and for one document.
LEMMA GrantedToOne ==
    ASSUME TypeOK, NEW k \in Conn, NEW e \in Doc, Granted(k, e), NEW c \in Conn, NEW d \in Doc
    PROVE  opens'[c][d] = IF c = k /\ d = e THEN opens[c][d] + 1 ELSE opens[c][d]
<1>1. opens[k] \in [Doc -> Nat]
  BY DEF TypeOK
<1>2. CASE c = k
  BY <1>1, <1>2 DEF Granted, TypeOK
<1>3. CASE c # k
  BY <1>3 DEF Granted, TypeOK
<1> QED  BY <1>2, <1>3

\* A connection has READBERT of checkforopen only if its cell is for reading.
LEMMA CheckIsRead ==
    ASSUME Inv, NEW c \in Conn, NEW d \in Doc, CheckForOpen(d, READBERT, c) = READBERT
    PROVE  /\ HasEntry(d, c)
           /\ \A i \in DOMAIN Chain(d) : Matches(Chain(d)[i], d, c) => Chain(d)[i].type # WRITEBERT
<1>1. HasEntry(d, c)
  BY DEF CheckForOpen, READBERT
<1>2. HashOf[d] \in Bucket /\ Chain(d) \in Seq(Entry)
  BY BertAssumption DEF Inv, TypeOK, Chain
<1>3. PICK i \in DOMAIN Chain(d) : Matches(Chain(d)[i], d, c)
  BY <1>1 DEF HasEntry
<1>4. \A j \in DOMAIN Chain(d) : Matches(Chain(d)[j], d, c) => j = i
  BY <1>2, <1>3 DEF Inv, UniqueOpen, Chain, Matches
<1>5. IsFirst(Chain(d), i, d, c)
  BY <1>2, <1>3, <1>4 DEF IsFirst
<1>6. (CHOOSE k \in DOMAIN Chain(d) : IsFirst(Chain(d), k, d, c)) = i
  BY <1>4, <1>5 DEF IsFirst
<1>7. Chain(d)[i].type # WRITEBERT
  <2> SUFFICES ASSUME Chain(d)[i].type = WRITEBERT PROVE FALSE
    OBVIOUS
  <2>1. CheckForOpen(d, READBERT, c) = WRITEBERT
    BY <1>1, <1>6, Zenon DEF CheckForOpen
  <2> QED  BY <2>1 DEF READBERT, WRITEBERT
<1> QED  BY <1>1, <1>4, <1>7

\* A step that grants an open after which the connection's cell is for writing
\* is the open of a document that it owns, or of a version under its account.
LEMMA WritesItsOwn ==
    ASSUME Inv, Inv', [Next]_vars, NEW c \in Conn, NEW d \in Doc,
           opens'[c][d] > opens[c][d],
           NEW b \in Bucket, NEW n \in DOMAIN bert'[b],
           Matches(bert'[b][n], d, c), bert'[b][n].type = WRITEBERT
    PROVE  OwnsDoc(c, d)
<1> TypeOK
  BY DEF Inv
<1>1. HashOf[d] = b /\ Chain(d) = bert[b] /\ bert[b] \in Seq(Entry) /\ bert'[b] \in Seq(Entry)
  BY DEF Inv, Placed, Matches, Chain, TypeOK
<1>2. opens \in [Conn -> [Doc -> Nat]] /\ opens[c][d] \in Nat
  BY DEF TypeOK
<1>3. ASSUME NEW k \in Conn, NEW e \in Doc, NEW type \in OpenType,
             NEW mode \in OpenMode, OpenAdd(k, e, type, mode)
      PROVE  OwnsDoc(c, d)
  <2>1. k = c /\ e = d
    BY <1>2, <1>3, GrantedToOne DEF OpenAdd
  <2>2. type = READBERT \/ OwnsDoc(c, d)
    <3>1. ~HasEntry(d, c)
      BY <1>3, <2>1, CheckIsZero DEF OpenAdd
    <3> QED  BY <1>3, <2>1, <3>1 DEF OpenAdd, CheckForOpen
  <2>3. CASE type = READBERT
    <3> DEFINE new == NewEntry(d, c, FALSE, type)
    <3>1. new.doc = d /\ new.conn = c /\ new.type = READBERT
      BY <2>3 DEF NewEntry
    <3>2. bert'[b] = <<new>> \o bert[b]
      BY <1>1, <1>3, <2>1 DEF OpenAdd, AddToOpen, TypeOK
    <3> HIDE DEF new
    <3>3. 1 \in DOMAIN bert'[b] /\ bert'[b][1] = new
      BY <1>1, <3>2
    <3>4. n = 1
      BY <3>1, <3>3 DEF Inv, UniqueOpen, Matches
    <3> QED  BY <3>1, <3>3, <3>4 DEF READBERT, WRITEBERT
  <2> QED  BY <2>2, <2>3
<1>4. ASSUME NEW k \in Conn, NEW e \in Doc, NEW type \in OpenType,
             NEW mode \in OpenMode, OpenIncrement(k, e, type, mode)
      PROVE  FALSE
  <2>1. k = c /\ e = d /\ type = READBERT
    BY <1>2, <1>4, GrantedToOne DEF OpenIncrement
  <2>2. bert' = [bert EXCEPT ![b] = [i \in DOMAIN bert[b] |->
                    IF Matches(bert[b][i], d, c) THEN Counted(bert[b][i], bert[b][i].count + 1)
                    ELSE bert[b][i]]]
    BY <1>1, <1>4, <2>1 DEF OpenIncrement, IncrementOpen
  <2>3. n \in DOMAIN bert[b]
        /\ bert'[b][n] = IF Matches(bert[b][n], d, c)
                         THEN Counted(bert[b][n], bert[b][n].count + 1) ELSE bert[b][n]
    BY <2>2 DEF TypeOK
  <2>4. bert[b][n] \in Entry
    BY <1>1, <2>3
  <2>5. Matches(bert[b][n], d, c) /\ bert[b][n].type = WRITEBERT
    BY <2>3, <2>4 DEF Matches, Counted, Entry
  <2> QED  BY <1>1, <1>4, <2>1, <2>3, <2>5, CheckIsRead DEF OpenIncrement
<1>5. ASSUME NEW k \in Conn, NEW e \in Doc, NEW type \in OpenType,
             NEW mode \in OpenMode, OpenNewVersion(k, e, type, mode)
      PROVE  OwnsDoc(c, d)
  <2>1. PICK v \in VersionAddress(k, e) : Granted(k, v)
    BY <1>5 DEF OpenNewVersion
  <2>2. v \in Doc
    BY <2>1 DEF VersionAddress, FreshBelow, FreshIn
  <2>3. k = c /\ v = d
    BY <1>2, <2>1, <2>2, GrantedToOne
  <2>4. account[c] \in Account
    BY DEF TypeOK
  <2> QED  BY <2>1, <2>3, <2>4 DEF VersionAddress, FreshBelow, FreshIn, OwnsDoc
<1>6. ASSUME NEW k \in Conn, NEW e \in Doc, Close(k, e)
      PROVE  FALSE
  <2>1. opens'[c][d] \in {opens[c][d], 0, opens[c][d] - 1}
    <3> DEFINE f == [opens[k] EXCEPT ![e] = IF @ = 0 THEN 0 ELSE @ - 1]
    <3>1. opens' = [opens EXCEPT ![k] = f]
      BY <1>6 DEF Close
    <3>2. f[d] \in {opens[k][d], 0, opens[k][d] - 1}
      BY <1>2
    <3> HIDE DEF f
    <3> QED  BY <1>2, <3>1, <3>2
  <2> QED  BY <1>2, <2>1
<1>7. ASSUME NEW k \in Conn, Exit(k)
      PROVE  FALSE
  <2>1. opens' = [opens EXCEPT ![k] = [x \in Doc |-> 0]] \/ opens' = NoOpens
    BY <1>7 DEF Exit, ExitNothing, ExitOne, ExitCrash, SessionEnds, Die
  <2>2. opens'[c][d] = opens[c][d] \/ opens'[c][d] = 0
    BY <1>2, <2>1 DEF NoOpens
  <2> QED  BY <1>2, <2>2
<1>8. ~(UNCHANGED opens)
  BY <1>2
<1> QED  BY <1>3, <1>4, <1>5, <1>6, <1>7, <1>8
         DEF Next, Open, Edit, CreateDocument, XAccount, Restart, vars

\* A document is opened for writing only under the account that owns it.
THEOREM WritersOwn ==
    ASSUME PoliteClients
    PROVE  Spec => WriteOpenNeedsOwnership
<1>1. Inv /\ Inv' /\ [Next]_vars => [\A c \in Conn, d \in Doc :
          opens'[c][d] > opens[c][d] /\ (\E e \in Entries' : Matches(e, d, c)
                                            /\ e.type = WRITEBERT)
          => OwnsDoc(c, d)]_vars
  BY WritesItsOwn DEF Entries
<1> QED  BY InvAlways, <1>1, PTL DEF Spec, WriteOpenNeedsOwnership

-----------------------------------------------------------------------------
(* An open that was granted lasts until it is closed. *)

\* Connection c has a cell for d that counts n opens or more.
Holds(d, c, n) ==
    \E i \in DOMAIN Chain(d) : Matches(Chain(d)[i], d, c) /\ Chain(d)[i].count >= n

\* The same after a step, for a number known before it.
HeldAfter(d, c, n) ==
    \E i \in DOMAIN Chain(d)' : Matches(Chain(d)'[i], d, c) /\ Chain(d)'[i].count >= n

\* NoLostOpen, with the chain the cell is in.
OpensKept ==
    \A c \in Conn, d \in Doc : opens[c][d] > 0 => Holds(d, c, opens[c][d])

\* Unlinking a cell takes nothing from the others.
LEMMA UnlinkHolds ==
    ASSUME TypeOK, NEW b \in Bucket, NEW i \in DOMAIN bert[b],
           bert' = [bert EXCEPT ![b] = Unlink(@, i)],
           NEW c \in Conn, NEW d \in Doc, NEW n, Holds(d, c, n),
           ~Matches(bert[b][i], d, c)
    PROVE  HeldAfter(d, c, n)
<1> DEFINE h == HashOf[d]
<1>1. h \in Bucket /\ bert[b] \in Seq(Entry)
  BY BertAssumption DEF TypeOK
<1>2. \A a \in Bucket : a # b => bert'[a] = bert[a]
  BY DEF TypeOK
<1>3. bert'[b] = Unlink(bert[b], i)
  BY DEF TypeOK
<1>4. /\ DOMAIN bert'[b] = 1..(Len(bert[b]) - 1)
      /\ \A j \in 1..(Len(bert[b]) - 1) :
            bert'[b][j] = IF j < i THEN bert[b][j] ELSE bert[b][j + 1]
  BY <1>1, <1>3, UnlinkChain
<1>5. PICK k \in DOMAIN bert[h] : Matches(bert[h][k], d, c) /\ bert[h][k].count >= n
  BY DEF Holds, Chain
<1>6. SUFFICES \E j \in DOMAIN bert'[h] : bert'[h][j] = bert[h][k]
  BY <1>5 DEF Holds, HeldAfter, Chain
<1> HIDE DEF h
<1>7. CASE h # b
  BY <1>1, <1>2, <1>7
<1>8. CASE h = b /\ k < i
  <2>1. k \in 1..(Len(bert[b]) - 1)
    BY <1>1, <1>8
  <2> QED  BY <1>4, <1>8, <2>1
<1>9. CASE h = b /\ ~(k < i)
  <2>1. k # i
    BY <1>5, <1>9
  <2>2. k - 1 \in 1..(Len(bert[b]) - 1) /\ ~(k - 1 < i) /\ (k - 1) + 1 = k
    BY <1>1, <1>9, <2>1
  <2> QED  BY <1>4, <1>9, <2>2
<1> QED  BY <1>7, <1>8, <1>9

\* Nor does changing the cells of a chain in place, but for their counts.
LEMMA RewriteHolds ==
    ASSUME TypeOK, NEW h \in Bucket, NEW g \in [DOMAIN bert[h] -> Entry],
           bert' = [bert EXCEPT ![h] = g],
           NEW c \in Conn, NEW d \in Doc, NEW n \in Nat, NEW m \in Nat, Holds(d, c, n),
           HashOf[d] # h => m = n,
           \A i \in DOMAIN bert[h] : SameOpen(g[i], bert[h][i]),
           \A i \in DOMAIN bert[h] : Matches(bert[h][i], d, c) /\ bert[h][i].count >= n
                                        => g[i].count >= m
    PROVE  HeldAfter(d, c, m)
<1>1. bert'[h] = g /\ \A a \in Bucket : a # h => bert'[a] = bert[a]
  BY DEF TypeOK
<1>2. HashOf[d] \in Bucket
  BY BertAssumption
<1>3. CASE HashOf[d] # h
  BY <1>1, <1>2, <1>3 DEF Holds, HeldAfter, Chain
<1>4. CASE HashOf[d] = h
  <2>1. PICK i \in DOMAIN bert[h] : Matches(bert[h][i], d, c) /\ bert[h][i].count >= n
    BY <1>4 DEF Holds, Chain
  <2>2. i \in DOMAIN bert'[h] /\ Matches(bert'[h][i], d, c) /\ bert'[h][i].count >= m
    BY <1>1, <2>1 DEF Matches, SameOpen
  <2> QED  BY <1>4, <2>2 DEF Holds, HeldAfter, Chain
<1> QED  BY <1>3, <1>4

\* A new cell moves the others back by one, and counts one open itself.
LEMMA AddHolds ==
    ASSUME TypeOK, NEW k \in Conn, NEW e \in Doc, NEW created \in BOOLEAN,
           NEW type \in OpenType, bert' = AddToOpen(e, k, created, type),
           NEW c \in Conn, NEW d \in Doc, NEW n
    PROVE  /\ Holds(d, c, n) => HeldAfter(d, c, n)
           /\ HeldAfter(e, k, 1)
<1> DEFINE h == HashOf[e]
           new == NewEntry(e, k, created, type)
<1>1. h \in Bucket /\ HashOf[d] \in Bucket /\ bert[h] \in Seq(Entry)
  BY BertAssumption DEF TypeOK
<1>2. new.doc = e /\ new.conn = k /\ new.count = 1
  BY DEF NewEntry
<1>3. bert'[h] = <<new>> \o bert[h]
  BY <1>1 DEF AddToOpen, TypeOK, Chain
<1>4. \A a \in Bucket : a # h => bert'[a] = bert[a]
  BY DEF AddToOpen, TypeOK
<1> HIDE DEF new
<1>5. 1 \in DOMAIN bert'[h] /\ bert'[h][1] = new
  BY <1>1, <1>3
<1>6. HeldAfter(e, k, 1)
  BY <1>2, <1>5 DEF HeldAfter, Chain, Matches
<1>7. ASSUME Holds(d, c, n) PROVE HeldAfter(d, c, n)
  <2>1. PICK i \in DOMAIN bert[HashOf[d]] :
           Matches(bert[HashOf[d]][i], d, c) /\ bert[HashOf[d]][i].count >= n
    BY <1>7 DEF Holds, Chain
  <2>2. CASE HashOf[d] # h
    BY <1>1, <1>4, <2>1, <2>2 DEF Holds, HeldAfter, Chain
  <2>3. CASE HashOf[d] = h
    <3>1. i + 1 \in DOMAIN bert'[h] /\ bert'[h][i + 1] = bert[h][i]
      BY <1>1, <1>3, <2>1, <2>3
    <3> QED  BY <2>1, <2>3, <3>1 DEF Holds, HeldAfter, Chain
  <2> QED  BY <2>2, <2>3
<1> QED  BY <1>6, <1>7

\* The open of a document that the connection has not open is counted.
LEMMA AddKeepsOpens ==
    ASSUME TypeOK, OpensKept, NEW k \in Conn, NEW e \in Doc, NEW created \in BOOLEAN,
           NEW type \in OpenType, bert' = AddToOpen(e, k, created, type),
           Granted(k, e), ~HasEntry(e, k)
    PROVE  OpensKept'
<1> SUFFICES ASSUME NEW c \in Conn, NEW d \in Doc, opens'[c][d] > 0
             PROVE  HeldAfter(d, c, opens'[c][d])
  BY DEF OpensKept, Holds, HeldAfter
<1>1. opens[c][d] \in Nat /\ opens[k][e] \in Nat
  BY DEF TypeOK
<1>2. CASE c = k /\ d = e
  <2>1. ~(opens[k][e] > 0)
    BY DEF OpensKept, Holds, HasEntry
  <2>2. opens'[c][d] = 1
    BY <1>1, <1>2, <2>1, GrantedToOne
  <2>3. HeldAfter(e, k, 1)
    BY AddHolds
  <2> QED  BY <1>2, <2>2, <2>3
<1>3. CASE ~(c = k /\ d = e)
  <2>1. opens'[c][d] = opens[c][d]
    BY <1>3, GrantedToOne
  <2>2. Holds(d, c, opens[c][d])
    BY <2>1 DEF OpensKept
  <2>3. HeldAfter(d, c, opens[c][d])
    BY <2>2, AddHolds
  <2> QED  BY <2>1, <2>3
<1> QED  BY <1>2, <1>3

\* incrementopen counts one open more in the connection's cell.
LEMMA IncrementKeepsOpens ==
    ASSUME TypeOK, OpensKept, NEW k \in Conn, NEW e \in Doc,
           bert' = IncrementOpen(e, k), Granted(k, e), HasEntry(e, k)
    PROVE  OpensKept'
<1> DEFINE h == HashOf[e]
           g == [i \in DOMAIN bert[h] |-> IF Matches(bert[h][i], e, k)
                                          THEN Counted(bert[h][i], bert[h][i].count + 1)
                                          ELSE bert[h][i]]
<1>1. h \in Bucket /\ bert[h] \in Seq(Entry)
  BY BertAssumption DEF TypeOK
<1>2. ASSUME NEW i \in DOMAIN bert[h]
      PROVE  /\ g[i] \in Entry /\ SameOpen(g[i], bert[h][i])
             /\ bert[h][i].count \in Nat \ {0}
             /\ g[i].count = IF Matches(bert[h][i], e, k)
                             THEN bert[h][i].count + 1 ELSE bert[h][i].count
  <2>1. bert[h][i] \in Entry
    BY <1>1
  <2> QED  BY <2>1 DEF Entry, Counted, SameOpen
<1>3. g \in [DOMAIN bert[h] -> Entry]
  BY <1>2
<1>4. bert' = [bert EXCEPT ![h] = g]
  BY DEF IncrementOpen, Chain
<1>5. SUFFICES ASSUME NEW c \in Conn, NEW d \in Doc, opens'[c][d] > 0
               PROVE  HeldAfter(d, c, opens'[c][d])
  BY DEF OpensKept, Holds, HeldAfter
<1>6. opens[c][d] \in Nat
  BY DEF TypeOK
<1>7. Holds(d, c, opens[c][d])
  <2>1. CASE opens[c][d] > 0
    BY <2>1 DEF OpensKept
  <2>2. CASE opens[c][d] = 0
    <3>1. c = k /\ d = e
      BY <1>5, <2>2, GrantedToOne
    <3>2. PICK i \in DOMAIN bert[h] : Matches(bert[h][i], e, k)
      BY DEF HasEntry, Chain
    <3>3. bert[h][i].count \in Nat \ {0}
      BY <1>2
    <3> QED  BY <2>2, <3>1, <3>2, <3>3 DEF Holds, Chain
  <2> QED  BY <1>6, <2>1, <2>2
<1>8. \A i \in DOMAIN bert[h] : SameOpen(g[i], bert[h][i])
  BY <1>2
<1>9. \A i \in DOMAIN bert[h] : bert[h][i].count \in Nat /\
         g[i].count = IF Matches(bert[h][i], e, k)
                      THEN bert[h][i].count + 1 ELSE bert[h][i].count
  BY <1>2
<1>10. h \in Bucket
  BY <1>1
<1>11. h = HashOf[e]
  OBVIOUS
<1> HIDE DEF g, h
<1>12. ASSUME NEW n \in Nat, NEW m \in Nat, Holds(d, c, n),
              m = IF c = k /\ d = e THEN n + 1 ELSE n
       PROVE  HeldAfter(d, c, m)
  <2>1. \A i \in DOMAIN bert[h] : Matches(bert[h][i], d, c) /\ bert[h][i].count >= n
                                     => g[i].count >= m
    BY <1>9, <1>12
  <2>2. HashOf[d] # h => m = n
    BY <1>11, <1>12
  <2>3. Holds(d, c, n)
    BY <1>12
  <2> QED  BY <1>3, <1>4, <1>8, <1>10, <2>1, <2>2, <2>3, RewriteHolds
<1>13. opens'[c][d] = IF c = k /\ d = e THEN opens[c][d] + 1 ELSE opens[c][d]
  BY GrantedToOne
<1>14. opens'[c][d] \in Nat
  BY <1>6, <1>13
<1> QED  BY <1>6, <1>7, <1>12, <1>13, <1>14

\* logbertmodified leaves the counts alone.
LEMMA LogKeepsOpens ==
    ASSUME TypeOK, OpensKept, NEW k \in Conn, NEW e \in Doc,
           bert' = LogBertModified(e, k), opens' = opens
    PROVE  OpensKept'
<1> DEFINE h == HashOf[e]
           g == [i \in DOMAIN bert[h] |-> IF IsFirst(bert[h], i, e, k)
                                          THEN Marked(bert[h][i])
                                          ELSE bert[h][i]]
<1>1. h \in Bucket /\ bert[h] \in Seq(Entry)
  BY BertAssumption DEF TypeOK
<1>2. ASSUME NEW i \in DOMAIN bert[h]
      PROVE  /\ g[i] \in Entry /\ SameOpen(g[i], bert[h][i])
             /\ g[i].count = bert[h][i].count
  <2>1. bert[h][i] \in Entry
    BY <1>1
  <2> QED  BY <2>1 DEF Entry, Marked, SameOpen
<1>3. g \in [DOMAIN bert[h] -> Entry]
  BY <1>2
<1>4. bert' = [bert EXCEPT ![h] = g]
  BY DEF LogBertModified, Chain
<1>5. SUFFICES ASSUME NEW c \in Conn, NEW d \in Doc, opens[c][d] > 0
               PROVE  HeldAfter(d, c, opens[c][d])
  BY DEF OpensKept, Holds, HeldAfter
<1>6. opens[c][d] \in Nat /\ Holds(d, c, opens[c][d])
  BY <1>5 DEF TypeOK, OpensKept
<1>7. \A i \in DOMAIN bert[h] : SameOpen(g[i], bert[h][i]) /\ g[i].count = bert[h][i].count
  BY <1>2
<1>8. h \in Bucket
  BY <1>1
<1> HIDE DEF g, h
<1>9. \A i \in DOMAIN bert[h] : SameOpen(g[i], bert[h][i])
  BY <1>7
<1>10. ASSUME NEW n \in Nat, Holds(d, c, n), NEW m \in Nat, m = n
       PROVE  HeldAfter(d, c, m)
  <2>1. \A i \in DOMAIN bert[h] : Matches(bert[h][i], d, c) /\ bert[h][i].count >= n
                                     => g[i].count >= m
    BY <1>7, <1>10
  <2>2. Holds(d, c, n) /\ (HashOf[d] # h => m = n)
    BY <1>10
  <2> QED  BY <1>3, <1>4, <1>8, <1>9, <2>1, <2>2, RewriteHolds
<1> QED  BY <1>6, <1>10

\* removefromopen takes one open of the connection that closes, and the cell
\* only when that was the last.
LEMMA RemoveKeepsOpens ==
    ASSUME Inv, OpensKept, NEW k \in Conn, NEW e \in Doc, Close(k, e)
    PROVE  OpensKept'
<1> TypeOK
  BY DEF Inv
<1> DEFINE h == HashOf[e]
<1>1. h \in Bucket /\ bert[h] \in Seq(Entry) /\ Chain(e) = bert[h]
  BY BertAssumption DEF TypeOK, Chain
<1>2. PICK i \in DOMAIN bert[h] : IsFirst(bert[h], i, e, k) /\ bert' = RemoveFromOpen(e, i)
  BY <1>1 DEF Close
<1>3. bert[h][i] \in Entry /\ Matches(bert[h][i], e, k)
  BY <1>1, <1>2 DEF IsFirst
<1>4. bert[h][i].count \in Nat \ {0}
  BY <1>3 DEF Entry
<1>5. opens[k] \in [Doc -> Nat]
  BY DEF TypeOK
<1>6. \A c \in Conn, d \in Doc : opens[c][d] \in Nat
  BY DEF TypeOK
<1>7. ASSUME NEW c \in Conn, NEW d \in Doc
      PROVE  opens'[c][d] = IF c = k /\ d = e
                            THEN IF opens[c][d] = 0 THEN 0 ELSE opens[c][d] - 1
                            ELSE opens[c][d]
  <2>1. CASE c = k
    BY <1>5, <2>1 DEF Close, TypeOK
  <2>2. CASE c # k
    BY <2>2 DEF Close, TypeOK
  <2> QED  BY <2>1, <2>2
<1>8. SUFFICES ASSUME NEW c \in Conn, NEW d \in Doc, opens'[c][d] > 0
               PROVE  HeldAfter(d, c, opens'[c][d])
  BY DEF OpensKept, Holds, HeldAfter
<1>9. opens[c][d] > 0 /\ Holds(d, c, opens[c][d])
  BY <1>6, <1>7, <1>8 DEF OpensKept
<1>10. \A j \in DOMAIN bert[h] : Matches(bert[h][j], e, k) => j = i
  BY <1>1, <1>3 DEF Inv, UniqueOpen, Matches
<1>11. Matches(bert[h][i], d, c) <=> (c = k /\ d = e)
  BY <1>3 DEF Matches
<1>12. CASE bert[h][i].count > 1
  <2> DEFINE x == Counted(bert[h][i], bert[h][i].count - 1)
             g == [bert[h] EXCEPT ![i] = x]
  <2>1. x \in Entry /\ SameOpen(x, bert[h][i]) /\ x.count = bert[h][i].count - 1
    BY <1>3, <1>12 DEF Entry, Counted, SameOpen
  <2>2. bert' = [bert EXCEPT ![h] = g]
    BY <1>2, <1>12 DEF RemoveFromOpen, Chain
  <2>3. h = HashOf[e]
    OBVIOUS
  <2> HIDE DEF x, h
  <2>4. ASSUME NEW j \in DOMAIN bert[h]
        PROVE  /\ g[j] \in Entry /\ SameOpen(g[j], bert[h][j])
               /\ g[j].count = IF j = i THEN bert[h][j].count - 1 ELSE bert[h][j].count
    BY <1>1, <2>1 DEF SameOpen
  <2>5. g \in [DOMAIN bert[h] -> Entry]
    BY <1>1, <2>4
  <2>6. \A j \in DOMAIN bert[h] :
           g[j].count = IF j = i THEN bert[h][j].count - 1 ELSE bert[h][j].count
    BY <2>4
  <2>7. \A j \in DOMAIN bert[h] : SameOpen(g[j], bert[h][j])
    BY <2>4
  <2>8. \A j \in DOMAIN bert[h] : bert[h][j].count \in Nat
    <3>1. \A j \in DOMAIN bert[h] : bert[h][j] \in Entry
      BY <1>1
    <3> QED  BY <3>1 DEF Entry
  <2> HIDE DEF g
  <2>9. ASSUME NEW n \in Nat, n > 0, Holds(d, c, n), NEW m \in Nat,
               m = IF c = k /\ d = e THEN n - 1 ELSE n
        PROVE  HeldAfter(d, c, m)
    <3>1. \A j \in DOMAIN bert[h] : Matches(bert[h][j], d, c) /\ bert[h][j].count >= n
                                       => g[j].count >= m
      BY <1>10, <1>11, <2>6, <2>8, <2>9
    <3>2. Holds(d, c, n) /\ (HashOf[d] # h => m = n)
      BY <2>3, <2>9
    <3> QED  BY <1>1, <2>2, <2>5, <2>7, <3>1, <3>2, RewriteHolds
  <2>10. opens'[c][d] = IF c = k /\ d = e THEN opens[c][d] - 1 ELSE opens[c][d]
    BY <1>6, <1>7, <1>9
  <2>11. opens'[c][d] \in Nat
    BY <1>6, <1>9, <2>10
  <2> QED  BY <1>6, <1>9, <2>9, <2>10, <2>11
<1>13. CASE ~(bert[h][i].count > 1)
  <2>1. bert[h][i].count = 1
    BY <1>4, <1>13
  <2>2. ~(c = k /\ d = e)
    <3> SUFFICES ASSUME c = k, d = e PROVE FALSE
      OBVIOUS
    <3>1. PICK j \in DOMAIN bert[h] : Matches(bert[h][j], e, k)
                                        /\ bert[h][j].count >= opens[c][d]
      BY <1>1, <1>9 DEF Holds
    <3>2. opens[c][d] = 1
      BY <1>6, <1>9, <1>10, <2>1, <3>1
    <3> QED  BY <1>7, <1>8, <3>2
  <2>3. bert' = [bert EXCEPT ![h] = Unlink(@, i)]
    BY <1>2, <1>13 DEF RemoveFromOpen, Chain
  <2> HIDE DEF h
  <2>4. HeldAfter(d, c, opens[c][d])
    BY <1>1, <1>9, <1>11, <2>2, <2>3, UnlinkHolds
  <2> QED  BY <1>7, <2>2, <2>4
<1> QED  BY <1>12, <1>13

\* With the table in order, every step keeps the opens that were granted.
LEMMA OpensStep ==
    ASSUME Inv, OpensKept, [Next]_vars
    PROVE  OpensKept'
<1> TypeOK
  BY DEF Inv
<1>1. ASSUME UNCHANGED <<bert, opens>>
      PROVE  OpensKept'
  BY <1>1 DEF OpensKept, Holds, Chain
<1>2. ASSUME NEW c \in Conn, NEW d \in Doc, NEW type \in OpenType,
             NEW mode \in OpenMode, OpenAdd(c, d, type, mode)
      PROVE  OpensKept'
  BY <1>2, CheckIsZero, AddKeepsOpens DEF OpenAdd
<1>3. ASSUME NEW c \in Conn, NEW d \in Doc, NEW type \in OpenType,
             NEW mode \in OpenMode, OpenIncrement(c, d, type, mode)
      PROVE  OpensKept'
  <2>1. HasEntry(d, c)
    BY <1>3, CheckIsRead DEF OpenIncrement
  <2> QED  BY <1>3, <2>1, IncrementKeepsOpens DEF OpenIncrement
<1>4. ASSUME NEW c \in Conn, NEW d \in Doc, NEW type \in OpenType,
             NEW mode \in OpenMode, OpenNewVersion(c, d, type, mode)
      PROVE  OpensKept'
  <2>1. PICK e \in VersionAddress(c, d) :
           bert' = AddToOpen(e, c, TRUE, type) /\ Granted(c, e)
    BY <1>4 DEF OpenNewVersion
  <2>2. e \in Doc /\ e \notin docs
    BY <2>1 DEF VersionAddress, FreshBelow, FreshIn
  <2>3. ~HasEntry(e, c)
    BY <2>2, FreshIsClosed
  <2> QED  BY <2>1, <2>2, <2>3, AddKeepsOpens
<1>5. ASSUME NEW c \in Conn, NEW d \in Doc, Close(c, d)
      PROVE  OpensKept'
  BY <1>5, RemoveKeepsOpens
<1>6. ASSUME NEW c \in Conn, NEW d \in Doc, Edit(c, d)
      PROVE  OpensKept'
  BY <1>6, LogKeepsOpens DEF Edit
<1>7. ASSUME NEW k \in Conn, Exit(k)
      PROVE  OpensKept'
  <2>1. CASE ExitCrash(k)
    BY <2>1 DEF ExitCrash, Die, NoOpens, OpensKept
  <2>2. CASE ExitNothing(k) \/ ExitOne(k)
    <3>1. \A c \in Conn, d \in Doc : opens'[c][d] = IF c = k THEN 0 ELSE opens[c][d]
      BY <2>2 DEF ExitNothing, ExitOne, SessionEnds, TypeOK
    <3>2. SUFFICES ASSUME NEW c \in Conn, NEW d \in Doc, opens'[c][d] > 0
                   PROVE  HeldAfter(d, c, opens[c][d]) /\ c # k
      BY <3>1 DEF OpensKept, Holds, HeldAfter
    <3>3. c # k /\ Holds(d, c, opens[c][d])
      BY <3>1, <3>2 DEF OpensKept
    <3>4. CASE ExitNothing(k)
      BY <3>3, <3>4 DEF ExitNothing, Holds, HeldAfter, Chain
    <3>5. CASE ExitOne(k)
      <4>1. PICK b \in Bucket : \E i \in DOMAIN bert[b] :
               bert[b][i].conn = k /\ bert' = [bert EXCEPT ![b] = Unlink(@, i)]
        BY <3>5 DEF ExitOne, FirstOfConn
      <4>2. PICK i \in DOMAIN bert[b] :
               bert[b][i].conn = k /\ bert' = [bert EXCEPT ![b] = Unlink(@, i)]
        BY <4>1
      <4>3. ~Matches(bert[b][i], d, c)
        BY <3>3, <4>2 DEF Matches
      <4> QED  BY <3>3, <4>2, <4>3, UnlinkHolds
    <3> QED  BY <2>2, <3>4, <3>5
  <2> QED  BY <1>7, <2>1, <2>2 DEF Exit
<1> QED  BY <1>1, <1>2, <1>3, <1>4, <1>5, <1>6, <1>7
         DEF Next, Open, CreateDocument, XAccount, Restart, vars

\* What a session has opened stays open for it until it has closed it as often,
\* whatever other sessions open, close, abandon or leave behind.
THEOREM OpensLast ==
    ASSUME PoliteClients
    PROVE  Spec => []NoLostOpen
<1>1. Init => OpensKept
  BY DEF Init, NoOpens, OpensKept
<1>2. Inv /\ OpensKept /\ [Next]_vars => OpensKept'
  BY OpensStep
<1>3. Inv /\ OpensKept => NoLostOpen
  <2> SUFFICES ASSUME OpensKept, NEW c \in Conn, NEW d \in Doc, opens[c][d] > 0
               PROVE  \E e \in Entries : Matches(e, d, c) /\ e.count >= opens[c][d]
    BY DEF NoLostOpen
  <2>1. PICK i \in DOMAIN bert[HashOf[d]] :
           Matches(bert[HashOf[d]][i], d, c) /\ bert[HashOf[d]][i].count >= opens[c][d]
    BY DEF OpensKept, Holds, Chain
  <2>2. HashOf[d] \in Bucket
    BY BertAssumption
  <2>3. bert[HashOf[d]][i] \in {bert[HashOf[d]][j] : j \in DOMAIN bert[HashOf[d]]}
    BY <2>1
  <2>4. bert[HashOf[d]][i] \in Entries
    BY <2>2, <2>3 DEF Entries
  <2> QED  BY <2>1, <2>4
<1> QED  BY InvAlways, <1>1, <1>2, <1>3, PTL DEF Spec

=============================================================================
