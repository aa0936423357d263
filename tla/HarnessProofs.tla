---------------------------- MODULE HarnessProofs ----------------------------
(***************************************************************************)
(* Two back ends give a scenario the same answers: the store of the one it *)
(* has for itself is always the part of the other that is not the          *)
(* neighbour's (Part).  Each request of the scenario does to the part what *)
(* it does to the whole (the lemmas Agree...), each of the neighbour's     *)
(* leaves the part alone (Theirs...), and both keep the store sound        *)
(* (Sound...): addresses are numbered without gaps, whatever a document    *)
(* shows is indexed for it, the index of links says what the links'        *)
(* endsets say, and the neighbour only reads.  What is found where follows *)
(* from soundness.  The theorems are about scenarios that ask and edit     *)
(* within what exists (Fits), which every scenario of the repository does. *)
(***************************************************************************)
EXTENDS Harness, FiniteSetTheorems, WellFoundedInduction, TLAPS

-----------------------------------------------------------------------------
(* Numbers and sequences. *)

LEMMA LeastIs ==
    ASSUME NEW S \in SUBSET Nat, S # {}
    PROVE  \E m \in S : \A k \in S : m <= k
<1> DEFINE R == {ij \in Nat \X Nat : ij[1] < ij[2]}
<1>1. IsWellFoundedOn(R, Nat)
  BY NatLessThanWellFounded DEF OpToRel
<1>2. PICK m \in S : \A k \in S : ~(<<k, m>> \in R)
  <2> HIDE DEF R
  <2> QED  BY <1>1, WFMin
<1>3. ASSUME NEW k \in S PROVE m <= k
  <2>1. m \in Nat /\ k \in Nat
    BY <1>2
  <2>2. <<k, m>> \in Nat \X Nat /\ <<k, m>>[1] = k /\ <<k, m>>[2] = m
    BY <2>1
  <2>3. ~(k < m)
    BY <1>2, <2>2
  <2> QED  BY <2>1, <2>3
<1> QED  BY <1>2, <1>3

\* A set of places that ends somewhere has a last one.
LEMMA LastIs ==
    ASSUME NEW S, NEW n \in Nat, S \subseteq 1..n
    PROVE  LET m == FEBE!Max({0} \union S)
           IN  m \in Nat /\ m \in {0} \union S /\ \A k \in S : k <= m
<1> DEFINE T == {j \in Nat : \A k \in {0} \union S : k <= j}
<1>1. n \in T
  OBVIOUS
<1>2. PICK m \in T : \A j \in T : m <= j
  <2> HIDE DEF T
  <2>1. T \in SUBSET Nat /\ T # {}
    BY <1>1 DEF T
  <2> QED  BY <2>1, LeastIs
<1>3. m \in {0} \union S
  <2>1. CASE m = 0
    BY <2>1
  <2>2. CASE m # 0
    <3>1. m - 1 \in Nat /\ ~(m <= m - 1)
      BY <1>2, <2>2
    <3>2. m - 1 \notin T
      BY <1>2, <3>1
    <3>3. PICK k \in {0} \union S : ~(k <= m - 1)
      BY <3>1, <3>2
    <3>4. k <= m /\ k \in Nat
      BY <1>2, <3>3
    <3>5. k = m
      BY <1>2, <3>1, <3>3, <3>4
    <3> QED  BY <3>3, <3>5
  <2> QED  BY <2>1, <2>2
<1>4. \A k \in {0} \union S : k <= m
  BY <1>2
<1>5. \A x \in {0} \union S : (\A k \in {0} \union S : x >= k) => x = m
  <2> SUFFICES ASSUME NEW x \in {0} \union S, \A k \in {0} \union S : x >= k PROVE x = m
    OBVIOUS
  <2>1. x \in Nat /\ m \in Nat /\ x >= m /\ x <= m
    BY <1>2, <1>3, <1>4
  <2> QED  BY <2>1
<1>6. \A k \in {0} \union S : m >= k
  <2> SUFFICES ASSUME NEW k \in {0} \union S PROVE m >= k
    OBVIOUS
  <2>1. k \in Nat /\ m \in Nat /\ k <= m
    BY <1>2, <1>4
  <2> QED  BY <2>1
<1>7. FEBE!Max({0} \union S) = m
  BY <1>3, <1>5, <1>6 DEF FEBE!Max
<1> QED  BY <1>2, <1>3, <1>4, <1>7

LEMMA SeqGrows ==
    ASSUME NEW X, NEW Y, X \subseteq Y, NEW s \in Seq(X)
    PROVE  s \in Seq(Y)
OBVIOUS

\* The places of a set in their order.
UpToExpr(f, S, n) ==
    f = [k \in 0..n |->
            IF k = 0 THEN << >> ELSE IF k \in S THEN Append(f[k - 1], k) ELSE f[k - 1]]

LEMMA UpToExists ==
    ASSUME NEW S, NEW n \in Nat
    PROVE  \E f : UpToExpr(f, S, n)
<1> DEFINE T == {m \in Nat : ~\E f : UpToExpr(f, S, m)}
<1>1. ASSUME T # {} PROVE FALSE
  <2>1. PICK m \in T : \A k \in T : m <= k
    <3> HIDE DEF T
    <3>1. T \in SUBSET Nat
      BY DEF T
    <3> QED  BY <1>1, <3>1, LeastIs
  <2>2. m # 0
    <3>1. UpToExpr([k \in 0..0 |-> << >>], S, 0)
      BY DEF UpToExpr
    <3> QED  BY <2>1, <3>1
  <2>3. m - 1 \in Nat /\ m - 1 \notin T
    BY <2>1, <2>2
  <2>4. PICK f : UpToExpr(f, S, m - 1)
    BY <2>3
  <2> DEFINE h == [k \in 0..m |->
                      IF k < m THEN f[k] ELSE IF m \in S THEN Append(f[m - 1], m) ELSE f[m - 1]]
  <2>5. UpToExpr(h, S, m)
    <3> DEFINE E(g, k) == IF k = 0 THEN << >>
                          ELSE IF k \in S THEN Append(g[k - 1], k) ELSE g[k - 1]
    <3>1. ASSUME NEW k \in 0..m PROVE h[k] = E(h, k)
      <4>1. CASE k < m
        <5>1. k \in 0..(m - 1) /\ h[k] = f[k]
          BY <2>1, <2>3, <4>1
        <5>2. f[k] = E(f, k)
          BY <2>4, <5>1 DEF UpToExpr
        <5>3. k # 0 => h[k - 1] = f[k - 1]
          BY <2>1, <4>1
        <5> QED  BY <5>1, <5>2, <5>3
      <4>2. CASE ~(k < m)
        <5>1. k = m /\ h[m - 1] = f[m - 1]
          BY <2>1, <2>2, <2>3, <4>2
        <5> QED  BY <2>1, <2>2, <5>1
      <4> QED  BY <4>1, <4>2
    <3>2. h = [k \in 0..m |-> h[k]]
      OBVIOUS
    <3> HIDE DEF h
    <3> QED  BY <3>1, <3>2 DEF UpToExpr
  <2> QED  BY <2>1, <2>5
<1> QED  BY <1>1

UpTo(S, n) == CHOOSE f : UpToExpr(f, S, n)

LEMMA OrderedIsUpTo ==
    ASSUME NEW S, NEW n \in Nat
    PROVE  /\ FEBE!Ordered(S, n) = UpTo(S, n)[n]
           /\ UpToExpr(UpTo(S, n), S, n)
<1>1. UpToExpr(UpTo(S, n), S, n)
  BY UpToExists DEF UpTo
<1> DEFINE g == CHOOSE f : f = [k \in 0..n |->
                IF k = 0 THEN << >> ELSE IF k \in S THEN Append(f[k - 1], k) ELSE f[k - 1]]
<1>2. FEBE!Ordered(S, n) = g[n]
  BY DEF FEBE!Ordered
<1>3. g = UpTo(S, n)
  BY DEF UpTo, UpToExpr
<1> HIDE DEF g
<1> QED  BY <1>1, <1>2, <1>3

\* A sequence of just these elements.
Lists(s, S) == s \in Seq(S) /\ \A k \in S : \E i \in 1..Len(s) : s[i] = k

LEMMA ListsMore ==
    ASSUME NEW S, NEW x, NEW s, Lists(s, S)
    PROVE  Lists(Append(s, x), S \union {x})
<1>1. s \in Seq(S \union {x}) /\ x \in S \union {x}
  BY SeqGrows DEF Lists
<1> DEFINE t == Append(s, x)
<1>2. /\ t \in Seq(S \union {x}) /\ Len(t) = Len(s) + 1 /\ Len(s) \in Nat
      /\ \A i \in 1..Len(s) : t[i] = s[i]
      /\ t[Len(s) + 1] = x
  BY <1>1
<1>3. ASSUME NEW k \in S \union {x} PROVE \E i \in 1..Len(t) : t[i] = k
  <2>1. CASE k = x
    BY <1>2, <2>1
  <2>2. CASE k \in S
    <3>1. PICK i \in 1..Len(s) : s[i] = k
      BY <2>2 DEF Lists
    <3>2. i \in 1..Len(t) /\ t[i] = k
      BY <1>2, <3>1
    <3> QED  BY <3>2
  <2> QED  BY <2>1, <2>2
<1> QED  BY <1>2, <1>3 DEF Lists

\* Ordered gives the places of the set, up to n.
LEMMA OrderedLists ==
    ASSUME NEW S, NEW n \in Nat
    PROVE  Lists(FEBE!Ordered(S, n), S \intersect (1..n))
<1> DEFINE f == UpTo(S, n)
           T == {k \in 0..n : ~Lists(f[k], S \intersect (1..k))}
<1>1. UpToExpr(f, S, n) /\ FEBE!Ordered(S, n) = f[n]
  BY OrderedIsUpTo
<1> HIDE DEF f
<1>2. ASSUME T # {} PROVE FALSE
  <2>1. PICK k \in T : \A j \in T : k <= j
    <3> HIDE DEF T
    <3>1. T \in SUBSET Nat
      BY DEF T
    <3> QED  BY <1>2, <3>1, LeastIs
  <2>2. k # 0
    <3>1. f[0] = << >> /\ S \intersect (1..0) = {}
      BY <1>1 DEF UpToExpr
    <3>2. Lists(<< >>, {})
      BY DEF Lists
    <3> QED  BY <2>1, <3>1, <3>2
  <2>3. k - 1 \in 0..n /\ k - 1 \notin T
    BY <2>1, <2>2
  <2>4. Lists(f[k - 1], S \intersect (1..(k - 1)))
    BY <2>3
  <2>5. f[k] = IF k \in S THEN Append(f[k - 1], k) ELSE f[k - 1]
    BY <1>1, <2>1, <2>2 DEF UpToExpr
  <2>6. CASE k \in S
    <3>1. S \intersect (1..k) = (S \intersect (1..(k - 1))) \union {k}
      BY <2>1, <2>2, <2>6
    <3>2. Lists(Append(f[k - 1], k), (S \intersect (1..(k - 1))) \union {k})
      BY <2>4, ListsMore
    <3> QED  BY <2>1, <2>5, <2>6, <3>1, <3>2
  <2>7. CASE k \notin S
    <3>1. S \intersect (1..k) = S \intersect (1..(k - 1))
      BY <2>1, <2>2, <2>7
    <3> QED  BY <2>1, <2>4, <2>5, <2>7, <3>1
  <2> QED  BY <2>6, <2>7
<1>3. n \in 0..n
  OBVIOUS
<1> QED  BY <1>1, <1>2, <1>3

\* Sequences behind one another.
FlatExpr(f, s, n) == f = [i \in 1..n |-> IF i = 1 THEN s[i] ELSE f[i - 1] \o s[i]]

LEMMA FlatExists ==
    ASSUME NEW s, NEW n \in Nat
    PROVE  \E f : FlatExpr(f, s, n)
<1> DEFINE T == {m \in Nat : ~\E f : FlatExpr(f, s, m)}
<1>1. ASSUME T # {} PROVE FALSE
  <2>1. PICK m \in T : \A k \in T : m <= k
    <3> HIDE DEF T
    <3>1. T \in SUBSET Nat
      BY DEF T
    <3> QED  BY <1>1, <3>1, LeastIs
  <2>2. m # 0
    <3> DEFINE f == [i \in 1..0 |-> s]
    <3>1. FlatExpr(f, s, 0)
      BY DEF FlatExpr
    <3> QED  BY <2>1, <3>1
  <2>3. m - 1 \in Nat /\ m - 1 \notin T
    BY <2>1, <2>2
  <2>4. PICK f : FlatExpr(f, s, m - 1)
    BY <2>3
  <2> DEFINE E(g, k) == IF k = 1 THEN s[k] ELSE g[k - 1] \o s[k]
             h == [k \in 1..m |-> IF k < m THEN f[k] ELSE E(f, k)]
  <2>5. FlatExpr(h, s, m)
    <3>1. ASSUME NEW k \in 1..m PROVE h[k] = E(h, k)
      <4>1. k # 1 => h[k - 1] = f[k - 1]
        BY <2>1
      <4>2. CASE k < m
        <5>1. k \in 1..(m - 1) /\ h[k] = f[k]
          BY <2>1, <2>3, <4>2
        <5>2. f[k] = E(f, k)
          BY <2>4, <5>1 DEF FlatExpr
        <5> QED  BY <4>1, <5>1, <5>2
      <4>3. CASE ~(k < m)
        <5>1. h[k] = E(f, k)
          BY <4>3
        <5> HIDE DEF h
        <5> QED  BY <4>1, <5>1
      <4> QED  BY <4>2, <4>3
    <3>2. h = [k \in 1..m |-> h[k]]
      OBVIOUS
    <3> HIDE DEF h
    <3> QED  BY <3>1, <3>2 DEF FlatExpr
  <2> QED  BY <2>1, <2>5
<1> QED  BY <1>1

Flat(s) == CHOOSE f : FlatExpr(f, s, Len(s))

LEMMA FlattenIsFlat ==
    ASSUME NEW s, Len(s) \in Nat
    PROVE  /\ FlatExpr(Flat(s), s, Len(s))
           /\ FlattenSeq(s) = IF Len(s) = 0 THEN s ELSE Flat(s)[Len(s)]
           /\ FEBE!FlattenSeq(s) = FlattenSeq(s)
<1>1. FlatExpr(Flat(s), s, Len(s))
  BY FlatExists DEF Flat
<1> DEFINE g == CHOOSE f : f = [i \in 1..Len(s) |-> IF i = 1 THEN s[i] ELSE f[i - 1] \o s[i]]
<1>2. FlattenSeq(s) = IF Len(s) = 0 THEN s ELSE g[Len(s)]
  BY DEF FlattenSeq
<1>3. g = Flat(s)
  BY DEF Flat, FlatExpr
<1>4. FEBE!FlattenSeq(s) = FlattenSeq(s)
  BY DEF FEBE!FlattenSeq, FlattenSeq
<1> HIDE DEF g
<1> QED  BY <1>1, <1>2, <1>3, <1>4

\* The whole has the elements of its parts, and no other.
LEMMA FlattenIs ==
    ASSUME NEW X, NEW s \in Seq(Seq(X))
    PROVE  FlattenSeq(s) \in Seq(X)
<1> DEFINE f == Flat(s)
           T == {k \in 1..Len(s) : f[k] \notin Seq(X)}
<1>1. /\ Len(s) \in Nat /\ \A k \in 1..Len(s) : s[k] \in Seq(X)
      /\ f = [i \in 1..Len(s) |-> IF i = 1 THEN s[i] ELSE f[i - 1] \o s[i]]
      /\ FlattenSeq(s) = IF Len(s) = 0 THEN s ELSE f[Len(s)]
  <2>1. Len(s) \in Nat /\ \A k \in 1..Len(s) : s[k] \in Seq(X)
    OBVIOUS
  <2>2. /\ FlatExpr(Flat(s), s, Len(s))
        /\ FlattenSeq(s) = IF Len(s) = 0 THEN s ELSE Flat(s)[Len(s)]
    BY <2>1, FlattenIsFlat
  <2> QED  BY <2>1, <2>2 DEF FlatExpr
<1> HIDE DEF f
<1>2. ASSUME T # {} PROVE FALSE
  <2>1. PICK k \in T : \A j \in T : k <= j
    <3> HIDE DEF T
    <3>1. T \in SUBSET Nat
      BY DEF T
    <3> QED  BY <1>2, <3>1, LeastIs
  <2>2. f[k] = IF k = 1 THEN s[k] ELSE f[k - 1] \o s[k]
    BY <1>1, <2>1
  <2>3. k # 1
    BY <1>1, <2>1, <2>2
  <2>4. k - 1 \in 1..Len(s) /\ k - 1 \notin T
    BY <2>1, <2>3
  <2>5. f[k - 1] \in Seq(X) /\ s[k] \in Seq(X)
    BY <1>1, <2>1, <2>4
  <2>6. f[k - 1] \o s[k] \in Seq(X)
    BY <2>5
  <2> QED  BY <2>1, <2>2, <2>3, <2>6
<1>3. CASE Len(s) = 0
  BY <1>1, <1>3
<1>4. CASE Len(s) # 0
  <2>1. Len(s) \in 1..Len(s)
    BY <1>1, <1>4
  <2> QED  BY <1>1, <1>2, <1>4, <2>1
<1> QED  BY <1>3, <1>4

LEMMA FlattenOne ==
    ASSUME NEW s
    PROVE  FlattenSeq(<<s>>) = s
<1> DEFINE t == <<s>>
<1>1. Len(t) = 1 /\ t[1] = s
  OBVIOUS
<1> HIDE DEF t
<1>2. Len(t) \in Nat
  BY <1>1
<1>3. /\ FlattenSeq(t) = IF Len(t) = 0 THEN t ELSE Flat(t)[Len(t)]
      /\ FlatExpr(Flat(t), t, Len(t))
  BY <1>2, FlattenIsFlat
<1>4. 1 \in 1..1
  OBVIOUS
<1>5. Flat(t)[1] = t[1]
  BY <1>1, <1>3, <1>4 DEF FlatExpr
<1>6. FlattenSeq(t) = s
  BY <1>1, <1>3, <1>5
<1> QED  BY <1>6 DEF t

-----------------------------------------------------------------------------
(* What a request does to a store: it changes what one document shows, and *)
(* indexes it; it adds a link; or it changes the open table.               *)

Orgl(text, links, chars, made) ==
    [text |-> text, links |-> links, chars |-> chars, made |-> made]

Store(docs, ends, spanf, links, open) ==
    [docs |-> docs, ends |-> ends, spanf |-> [docs |-> spanf, links |-> links], open |-> open]

Shape(st) ==
    /\ st = Store(st.docs, st.ends, st.spanf.docs, st.spanf.links, st.open)
    /\ st.docs = [x \in DOMAIN st.docs |-> st.docs[x]]
    /\ \A x \in DOMAIN st.docs :
          st.docs[x] = Orgl(st.docs[x].text, st.docs[x].links, st.docs[x].chars, st.docs[x].made)

Changed(st, x, doc, items) ==
    Store(FEBE!With(st.docs, x, doc), st.ends,
          st.spanf.docs \union {<<y, x>> : y \in items}, st.spanf.links, st.open)

Entries(link, sporgls) ==
    UNION {{[end |-> e, link |-> link, sporgl |-> y] : y \in FEBE!ToSet(sporgls[e])} :
              e \in FEBE!Ends}

Linked(st, link, sporgls) ==
    Store(st.docs, FEBE!With(st.ends, link, sporgls), st.spanf.docs,
          st.spanf.links \union Entries(link, sporgls), st.open)

Reopened(st, open) == Store(st.docs, st.ends, st.spanf.docs, st.spanf.links, open)

LEMMA ChangedDoc ==
    ASSUME NEW st, Shape(st), NEW x \in DOMAIN st.docs, NEW doc
    PROVE  [st EXCEPT !.docs[x] = doc] = Changed(st, x, doc, {})
<1>1. [st.docs EXCEPT ![x] = doc] = FEBE!With(st.docs, x, doc)
  BY DEF FEBE!With, Shape
<1>2. [st EXCEPT !.docs[x] = doc]
          = Store([st.docs EXCEPT ![x] = doc], st.ends, st.spanf.docs, st.spanf.links, st.open)
  BY DEF Shape, Store
<1> QED  BY <1>1, <1>2 DEF Changed

LEMMA ChangedIs ==
    ASSUME NEW st, NEW x, NEW doc, NEW I
    PROVE  LET new == Changed(st, x, doc, I)
           IN  /\ new.docs = FEBE!With(st.docs, x, doc)
               /\ DOMAIN new.docs = DOMAIN st.docs \union {x}
               /\ new.docs = [y \in DOMAIN new.docs |-> new.docs[y]]
               /\ new.docs[x] = doc
               /\ \A y \in DOMAIN st.docs : y # x => new.docs[y] = st.docs[y]
               /\ new.ends = st.ends /\ new.open = st.open
               /\ new.spanf.docs = st.spanf.docs \union {<<y, x>> : y \in I}
               /\ new.spanf.links = st.spanf.links
               /\ new = Store(new.docs, new.ends, new.spanf.docs, new.spanf.links, new.open)
<1> DEFINE new == Changed(st, x, doc, I)
<1>1. /\ new.docs = FEBE!With(st.docs, x, doc)
      /\ new.ends = st.ends /\ new.open = st.open
      /\ new.spanf.docs = st.spanf.docs \union {<<y, x>> : y \in I}
      /\ new.spanf.links = st.spanf.links
      /\ new = Store(new.docs, new.ends, new.spanf.docs, new.spanf.links, new.open)
  BY DEF Changed, Store
<1> HIDE DEF new
<1>2. /\ DOMAIN new.docs = DOMAIN st.docs \union {x}
      /\ new.docs[x] = doc
      /\ \A y \in DOMAIN st.docs : y # x => new.docs[y] = st.docs[y]
  <2> DEFINE docs == FEBE!With(st.docs, x, doc)
  <2>1. /\ DOMAIN docs = DOMAIN st.docs \union {x} /\ docs[x] = doc
        /\ \A y \in DOMAIN st.docs : y # x => docs[y] = st.docs[y]
    BY DEF FEBE!With
  <2>2. new.docs = docs
    BY <1>1
  <2> HIDE DEF docs
  <2> QED  BY <2>1, <2>2
<1>3. new.docs = [y \in DOMAIN new.docs |-> new.docs[y]]
  BY <1>1 DEF FEBE!With
<1>4. DOMAIN new.docs = DOMAIN st.docs \union {x} /\ new.docs[x] = doc
  BY <1>2
<1> QED  BY <1>1, <1>2, <1>3 DEF new

LEMMA IndexIs ==
    ASSUME NEW st, NEW x, NEW doc, NEW I, NEW items
    PROVE  FEBE!Index(Changed(st, x, doc, I), x, items)
               = Changed(st, x, doc, I \union FEBE!ToSet(items))
<1>1. {<<y, x>> : y \in I} \union {<<y, x>> : y \in FEBE!ToSet(items)}
          = {<<y, x>> : y \in I \union FEBE!ToSet(items)}
  OBVIOUS
<1> DEFINE X == {<<y, x>> : y \in I}
           Y == {<<y, x>> : y \in FEBE!ToSet(items)}
           old == Changed(st, x, doc, I)
<1>2. /\ old = Store(FEBE!With(st.docs, x, doc), st.ends, st.spanf.docs \union X,
                     st.spanf.links, st.open)
      /\ FEBE!Index(old, x, items) = [old EXCEPT !.spanf.docs = @ \union Y]
  BY DEF FEBE!Index, Changed
<1> HIDE DEF X, Y, old
<1> DEFINE docs == FEBE!With(st.docs, x, doc)
           D == st.spanf.docs \union X
<1>3. [Store(docs, st.ends, D, st.spanf.links, st.open) EXCEPT !.spanf.docs = @ \union Y]
          = Store(docs, st.ends, D \union Y, st.spanf.links, st.open)
  <2> HIDE DEF docs, D
  <2> QED  BY DEF Store
<1>4. FEBE!Index(old, x, items)
          = Store(FEBE!With(st.docs, x, doc), st.ends, (st.spanf.docs \union X) \union Y,
                  st.spanf.links, st.open)
  BY <1>2, <1>3
<1>5. (st.spanf.docs \union X) \union Y
          = st.spanf.docs \union {<<y, x>> : y \in I \union FEBE!ToSet(items)}
  BY <1>1 DEF X, Y
<1> QED  BY <1>4, <1>5 DEF Changed, old

-----------------------------------------------------------------------------
(* The part of a store that is not the neighbour's.                        *)

Ours(x) == ~FEBE!Owns(NEIGHBOURS_ACCOUNT, x)

Part(st) ==
    Store([x \in {y \in DOMAIN st.docs : Ours(y)} |-> st.docs[x]],
          [l \in {k \in DOMAIN st.ends : Ours(k.home)} |-> st.ends[l]],
          {y \in st.spanf.docs : Ours(y[2])},
          {y \in st.spanf.links : Ours(y.link.home)},
          [e \in {f \in DOMAIN st.open : f[1] # NEIGHBOUR} |-> st.open[e]])

LEMMA PartIs ==
    ASSUME NEW st
    PROVE  /\ DOMAIN Part(st).docs = {y \in DOMAIN st.docs : Ours(y)}
           /\ \A x \in DOMAIN Part(st).docs : Part(st).docs[x] = st.docs[x]
           /\ DOMAIN Part(st).ends = {k \in DOMAIN st.ends : Ours(k.home)}
           /\ \A l \in DOMAIN Part(st).ends : Part(st).ends[l] = st.ends[l]
           /\ Part(st).spanf.docs = {y \in st.spanf.docs : Ours(y[2])}
           /\ Part(st).spanf.links = {y \in st.spanf.links : Ours(y.link.home)}
           /\ DOMAIN Part(st).open = {f \in DOMAIN st.open : f[1] # NEIGHBOUR}
           /\ \A e \in DOMAIN Part(st).open : Part(st).open[e] = st.open[e]
BY DEF Part, Store

LEMMA PartShape ==
    ASSUME NEW st, Shape(st)
    PROVE  Shape(Part(st))
<1> DEFINE P == Part(st)
<1>1. P = Store(P.docs, P.ends, P.spanf.docs, P.spanf.links, P.open)
  BY DEF Part, Store
<1>2. P.docs = [x \in DOMAIN P.docs |-> P.docs[x]]
  BY DEF Part, Store
<1>3. \A x \in DOMAIN P.docs : x \in DOMAIN st.docs /\ P.docs[x] = st.docs[x]
  BY PartIs
<1> HIDE DEF P
<1>4. \A x \in DOMAIN P.docs :
          P.docs[x] = Orgl(P.docs[x].text, P.docs[x].links, P.docs[x].chars, P.docs[x].made)
  BY <1>3 DEF Shape
<1> QED  BY <1>1, <1>2, <1>4 DEF Shape, P

\* What is done to a document of the scenario's is done in its part.
LEMMA PartChanged ==
    ASSUME NEW st, NEW x, NEW doc, NEW I, Ours(x)
    PROVE  Part(Changed(st, x, doc, I)) = Changed(Part(st), x, doc, I)
<1> DEFINE new == Changed(st, x, doc, I)
           P == Part(st)
           Q == Part(new)
<1>1. /\ new.docs = FEBE!With(st.docs, x, doc) /\ new.ends = st.ends /\ new.open = st.open
      /\ new.spanf.docs = st.spanf.docs \union {<<y, x>> : y \in I}
      /\ new.spanf.links = st.spanf.links
  BY DEF Changed, Store
<1> HIDE DEF new
<1>2. [y \in {z \in DOMAIN new.docs : Ours(z)} |-> new.docs[y]] = FEBE!With(P.docs, x, doc)
  <2>1. /\ DOMAIN new.docs = DOMAIN st.docs \union {x} /\ new.docs[x] = doc
        /\ \A y \in DOMAIN st.docs : y # x => new.docs[y] = st.docs[y]
    BY <1>1 DEF FEBE!With
  <2>2. {z \in DOMAIN new.docs : Ours(z)} = DOMAIN P.docs \union {x}
    BY <2>1, PartIs
  <2>3. \A y \in DOMAIN P.docs : y # x => new.docs[y] = P.docs[y]
    BY <2>1, PartIs
  <2> HIDE DEF P
  <2> QED  BY <2>1, <2>2, <2>3 DEF FEBE!With
<1>3. {y \in new.spanf.docs : Ours(y[2])} = P.spanf.docs \union {<<y, x>> : y \in I}
  <2>1. \A y \in {<<z, x>> : z \in I} : Ours(y[2])
    OBVIOUS
  <2>2. P.spanf.docs = {y \in st.spanf.docs : Ours(y[2])}
    BY PartIs
  <2> HIDE DEF P
  <2> QED  BY <1>1, <2>1, <2>2
<1>4. /\ Q = Store([y \in {z \in DOMAIN new.docs : Ours(z)} |-> new.docs[y]],
                   P.ends, {y \in new.spanf.docs : Ours(y[2])}, P.spanf.links, P.open)
  BY <1>1 DEF Part, Store
<1>5. Q = Changed(P, x, doc, I)
  BY <1>2, <1>3, <1>4 DEF Changed
<1> QED  BY <1>5 DEF new

\* What is done to a document of the neighbour's is not.
LEMMA PartTheirs ==
    ASSUME NEW st, NEW x, NEW doc, NEW I, ~Ours(x)
    PROVE  Part(Changed(st, x, doc, I)) = Part(st)
<1> DEFINE new == Changed(st, x, doc, I)
           P == Part(st)
<1>1. /\ new.docs = FEBE!With(st.docs, x, doc) /\ new.ends = st.ends /\ new.open = st.open
      /\ new.spanf.docs = st.spanf.docs \union {<<y, x>> : y \in I}
      /\ new.spanf.links = st.spanf.links
  BY DEF Changed, Store
<1> HIDE DEF new
<1>2. [y \in {z \in DOMAIN new.docs : Ours(z)} |-> new.docs[y]]
          = [y \in {z \in DOMAIN st.docs : Ours(z)} |-> st.docs[y]]
  <2>1. /\ DOMAIN new.docs = DOMAIN st.docs \union {x}
        /\ \A y \in DOMAIN st.docs : y # x => new.docs[y] = st.docs[y]
    BY <1>1 DEF FEBE!With
  <2>2. {z \in DOMAIN new.docs : Ours(z)} = {z \in DOMAIN st.docs : Ours(z)}
    BY <2>1
  <2>3. \A y \in {z \in DOMAIN st.docs : Ours(z)} : new.docs[y] = st.docs[y]
    BY <2>1
  <2> QED  BY <2>2, <2>3
<1>3. {y \in new.spanf.docs : Ours(y[2])} = {y \in st.spanf.docs : Ours(y[2])}
  <2>1. \A y \in {<<z, x>> : z \in I} : ~Ours(y[2])
    OBVIOUS
  <2> QED  BY <1>1, <2>1
<1> HIDE DEF Ours
<1> QED  BY <1>1, <1>2, <1>3 DEF Part, new

LEMMA PartLinked ==
    ASSUME NEW st, NEW link, NEW sporgls, Ours(link.home)
    PROVE  Part(Linked(st, link, sporgls)) = Linked(Part(st), link, sporgls)
<1> DEFINE new == Linked(st, link, sporgls)
           P == Part(st)
           Q == Part(new)
           E == Entries(link, sporgls)
<1>1. /\ new.ends = FEBE!With(st.ends, link, sporgls) /\ new.docs = st.docs /\ new.open = st.open
      /\ new.spanf.links = st.spanf.links \union E
      /\ new.spanf.docs = st.spanf.docs
  BY DEF Linked, Store
<1>2. \A y \in E : y.link = link
  BY DEF Entries
<1> HIDE DEF new, E
<1>3. [k \in {l \in DOMAIN new.ends : Ours(l.home)} |-> new.ends[k]] = FEBE!With(P.ends, link, sporgls)
  <2>1. /\ DOMAIN new.ends = DOMAIN st.ends \union {link} /\ new.ends[link] = sporgls
        /\ \A y \in DOMAIN st.ends : y # link => new.ends[y] = st.ends[y]
    BY <1>1 DEF FEBE!With
  <2>2. {l \in DOMAIN new.ends : Ours(l.home)} = DOMAIN P.ends \union {link}
    BY <2>1, PartIs
  <2>3. \A y \in DOMAIN P.ends : y # link => new.ends[y] = P.ends[y]
    BY <2>1, PartIs
  <2> HIDE DEF P
  <2> QED  BY <2>1, <2>2, <2>3 DEF FEBE!With
<1>4. {y \in new.spanf.links : Ours(y.link.home)} = P.spanf.links \union E
  <2>1. \A y \in E : Ours(y.link.home)
    BY <1>2
  <2>2. P.spanf.links = {y \in st.spanf.links : Ours(y.link.home)}
    BY PartIs
  <2> HIDE DEF P
  <2> QED  BY <1>1, <2>1, <2>2
<1>5. Q = Store(P.docs, [k \in {l \in DOMAIN new.ends : Ours(l.home)} |-> new.ends[k]],
                P.spanf.docs, {y \in new.spanf.links : Ours(y.link.home)}, P.open)
  BY <1>1 DEF Part, Store
<1>6. Q = Linked(P, link, sporgls)
  BY <1>3, <1>4, <1>5 DEF Linked, E
<1> QED  BY <1>6 DEF new

LEMMA PartTheirLink ==
    ASSUME NEW st, NEW link, NEW sporgls, ~Ours(link.home)
    PROVE  Part(Linked(st, link, sporgls)) = Part(st)
<1> DEFINE new == Linked(st, link, sporgls)
           E == Entries(link, sporgls)
<1>1. /\ new.ends = FEBE!With(st.ends, link, sporgls) /\ new.docs = st.docs /\ new.open = st.open
      /\ new.spanf.links = st.spanf.links \union E
      /\ new.spanf.docs = st.spanf.docs
  BY DEF Linked, Store
<1>2. \A y \in E : y.link = link
  BY DEF Entries
<1> HIDE DEF new, E
<1>3. [k \in {l \in DOMAIN new.ends : Ours(l.home)} |-> new.ends[k]]
          = [k \in {l \in DOMAIN st.ends : Ours(l.home)} |-> st.ends[k]]
  <2>1. /\ DOMAIN new.ends = DOMAIN st.ends \union {link}
        /\ \A y \in DOMAIN st.ends : y # link => new.ends[y] = st.ends[y]
    BY <1>1 DEF FEBE!With
  <2>2. {l \in DOMAIN new.ends : Ours(l.home)} = {l \in DOMAIN st.ends : Ours(l.home)}
    BY <2>1
  <2>3. \A y \in {l \in DOMAIN st.ends : Ours(l.home)} : new.ends[y] = st.ends[y]
    BY <2>1
  <2> QED  BY <2>2, <2>3
<1>4. {y \in new.spanf.links : Ours(y.link.home)} = {y \in st.spanf.links : Ours(y.link.home)}
  <2>1. \A y \in E : ~Ours(y.link.home)
    BY <1>2
  <2> QED  BY <1>1, <2>1
<1> HIDE DEF Ours
<1> QED  BY <1>1, <1>3, <1>4 DEF Part, new

LEMMA PartReopened ==
    ASSUME NEW st, NEW open
    PROVE  Part(Reopened(st, open))
               = Reopened(Part(st), [e \in {f \in DOMAIN open : f[1] # NEIGHBOUR} |-> open[e]])
BY DEF Part, Reopened, Store

-----------------------------------------------------------------------------
(* The requests in these terms. *)

LEMMA ChangedShape ==
    ASSUME NEW st, Shape(st), NEW x, NEW text, NEW links, NEW chars, NEW made, NEW I
    PROVE  Shape(Changed(st, x, Orgl(text, links, chars, made), I))
<1> DEFINE doc == Orgl(text, links, chars, made)
           new == Changed(st, x, doc, I)
<1>1. /\ new.docs = FEBE!With(st.docs, x, doc)
      /\ DOMAIN new.docs = DOMAIN st.docs \union {x}
      /\ new.docs = [y \in DOMAIN new.docs |-> new.docs[y]]
      /\ new.docs[x] = doc
      /\ \A y \in DOMAIN st.docs : y # x => new.docs[y] = st.docs[y]
      /\ new = Store(new.docs, new.ends, new.spanf.docs, new.spanf.links, new.open)
  <2> HIDE DEF doc
  <2> QED  BY ChangedIs
<1>2. doc = Orgl(doc.text, doc.links, doc.chars, doc.made)
  BY DEF Orgl
<1> HIDE DEF new, doc
<1>3. ASSUME NEW y \in DOMAIN new.docs
      PROVE  new.docs[y] = Orgl(new.docs[y].text, new.docs[y].links, new.docs[y].chars, new.docs[y].made)
  <2>1. CASE y = x
    BY <1>1, <1>2, <2>1
  <2>2. CASE y # x
    BY <1>1, <2>2 DEF Shape
  <2> QED  BY <2>1, <2>2
<1> QED  BY <1>1, <1>3 DEF Shape, new, doc

LEMMA TextIs ==
    ASSUME NEW st, Shape(st), NEW x \in DOMAIN st.docs, NEW text
    PROVE  LET doc == st.docs[x]
           IN  [st EXCEPT !.docs[x].text = text]
                   = Changed(st, x, Orgl(text, doc.links, doc.chars, doc.made), {})
<1> DEFINE doc == st.docs[x]
           new == Orgl(text, doc.links, doc.chars, doc.made)
<1>1. doc = Orgl(doc.text, doc.links, doc.chars, doc.made)
  BY DEF Shape
<1>2. [doc EXCEPT !.text = text] = new
  <2> HIDE DEF doc
  <2> QED  BY <1>1 DEF Orgl
<1>3. [st EXCEPT !.docs[x].text = text] = [st EXCEPT !.docs[x] = [doc EXCEPT !.text = text]]
  OBVIOUS
<1> HIDE DEF new, doc
<1>4. [st EXCEPT !.docs[x].text = text] = Changed(st, x, new, {})
  BY <1>2, <1>3, ChangedDoc
<1> QED  BY <1>4 DEF new, doc

LEMMA PutTextIs ==
    ASSUME NEW st, Shape(st), NEW x \in DOMAIN st.docs, NEW p, NEW items
    PROVE  LET doc == st.docs[x]
           IN  FEBE!PutText(st, x, p, items)
                   = Changed(st, x, Orgl(FEBE!Put(doc.text, p, items), doc.links, doc.chars, doc.made),
                             FEBE!ToSet(items))
<1> DEFINE doc == st.docs[x]
           text == FEBE!Put(doc.text, p, items)
           new == Orgl(text, doc.links, doc.chars, doc.made)
<1>1. [st EXCEPT !.docs[x].text = text] = Changed(st, x, new, {})
  <2> HIDE DEF text
  <2> QED  BY TextIs
<1>2. FEBE!PutText(st, x, p, items) = FEBE!Index([st EXCEPT !.docs[x].text = text], x, items)
  BY DEF FEBE!PutText
<1>3. FEBE!Index(Changed(st, x, new, {}), x, items)
          = Changed(st, x, new, {} \union FEBE!ToSet(items))
  BY IndexIs
<1>4. {} \union FEBE!ToSet(items) = FEBE!ToSet(items)
  OBVIOUS
<1> HIDE DEF new, text
<1>5. FEBE!PutText(st, x, p, items) = Changed(st, x, new, FEBE!ToSet(items))
  BY <1>1, <1>2, <1>3, <1>4
<1> QED  BY <1>5 DEF new, text

LEMMA CharsIs ==
    ASSUME NEW st, Shape(st), NEW x \in DOMAIN st.docs, NEW n
    PROVE  LET doc == st.docs[x]
           IN  [st EXCEPT !.docs[x].chars = @ + n]
                   = Changed(st, x, Orgl(doc.text, doc.links, doc.chars + n, doc.made), {})
<1> DEFINE doc == st.docs[x]
           chars == doc.chars + n
           new == Orgl(doc.text, doc.links, chars, doc.made)
<1>1. doc = Orgl(doc.text, doc.links, doc.chars, doc.made)
  BY DEF Shape
<1>2. [doc EXCEPT !.chars = chars] = new
  <2> HIDE DEF doc, chars
  <2> QED  BY <1>1 DEF Orgl
<1>3. [st EXCEPT !.docs[x].chars = @ + n] = [st EXCEPT !.docs[x] = [doc EXCEPT !.chars = chars]]
  OBVIOUS
<1> HIDE DEF doc, chars, new
<1>4. [st EXCEPT !.docs[x].chars = @ + n] = Changed(st, x, new, {})
  BY <1>2, <1>3, ChangedDoc
<1> QED  BY <1>4 DEF new, chars, doc

LEMMA MadeIs ==
    ASSUME NEW st, Shape(st), NEW x \in DOMAIN st.docs
    PROVE  LET doc == st.docs[x]
           IN  [st EXCEPT !.docs[x].made = @ + 1]
                   = Changed(st, x, Orgl(doc.text, doc.links, doc.chars, doc.made + 1), {})
<1> DEFINE doc == st.docs[x]
           made == doc.made + 1
           new == Orgl(doc.text, doc.links, doc.chars, made)
<1>1. doc = Orgl(doc.text, doc.links, doc.chars, doc.made)
  BY DEF Shape
<1>2. [doc EXCEPT !.made = made] = new
  <2> HIDE DEF doc, made
  <2> QED  BY <1>1 DEF Orgl
<1>3. [st EXCEPT !.docs[x].made = @ + 1] = [st EXCEPT !.docs[x] = [doc EXCEPT !.made = made]]
  OBVIOUS
<1> HIDE DEF doc, made, new
<1>4. [st EXCEPT !.docs[x].made = @ + 1] = Changed(st, x, new, {})
  BY <1>2, <1>3, ChangedDoc
<1> QED  BY <1>4 DEF new, made, doc

LEMMA LinkPutIs ==
    ASSUME NEW st, Shape(st), NEW x \in DOMAIN st.docs, NEW at, NEW link
    PROVE  LET doc == st.docs[x]
           IN  FEBE!Index([st EXCEPT !.docs[x].links = FEBE!With(@, at, link)], x, <<link>>)
                   = Changed(st, x, Orgl(doc.text, FEBE!With(doc.links, at, link), doc.chars, doc.made),
                             {link})
<1> DEFINE doc == st.docs[x]
           links == FEBE!With(doc.links, at, link)
           new == Orgl(doc.text, links, doc.chars, doc.made)
<1>1. doc = Orgl(doc.text, doc.links, doc.chars, doc.made)
  BY DEF Shape
<1>2. [doc EXCEPT !.links = links] = new
  <2> HIDE DEF doc, links
  <2> QED  BY <1>1 DEF Orgl
<1>3. [st EXCEPT !.docs[x].links = FEBE!With(@, at, link)]
          = [st EXCEPT !.docs[x] = [doc EXCEPT !.links = links]]
  OBVIOUS
<1> HIDE DEF doc, links, new
<1>4. [st EXCEPT !.docs[x].links = FEBE!With(@, at, link)] = Changed(st, x, new, {})
  BY <1>2, <1>3, ChangedDoc
<1>5. FEBE!Index(Changed(st, x, new, {}), x, <<link>>)
          = Changed(st, x, new, {} \union FEBE!ToSet(<<link>>))
  BY IndexIs
<1>6. {} \union FEBE!ToSet(<<link>>) = {link}
  BY DEF FEBE!ToSet
<1>7. FEBE!Index([st EXCEPT !.docs[x].links = FEBE!With(@, at, link)], x, <<link>>)
          = Changed(st, x, new, {link})
  BY <1>4, <1>5, <1>6
<1> QED  BY <1>7 DEF new, links, doc

LEMMA LinkedIs ==
    ASSUME NEW st, Shape(st), NEW link, NEW sporgls
    PROVE  FEBE!IndexEnds([st EXCEPT !.ends = FEBE!With(@, link, sporgls)], link, sporgls)
               = Linked(st, link, sporgls)
<1> DEFINE E == Entries(link, sporgls)
           ends == FEBE!With(st.ends, link, sporgls)
           mid == [st EXCEPT !.ends = ends]
<1>1. mid = Store(st.docs, ends, st.spanf.docs, st.spanf.links, st.open)
  <2> HIDE DEF ends
  <2> QED  BY DEF Shape, Store
<1>2. FEBE!IndexEnds(mid, link, sporgls) = [mid EXCEPT !.spanf.links = @ \union E]
  BY DEF FEBE!IndexEnds, Entries
<1> HIDE DEF mid, E
<1>3. [Store(st.docs, ends, st.spanf.docs, st.spanf.links, st.open) EXCEPT !.spanf.links = @ \union E]
          = Store(st.docs, ends, st.spanf.docs, st.spanf.links \union E, st.open)
  <2> HIDE DEF ends
  <2> QED  BY DEF Store
<1>4. FEBE!IndexEnds(mid, link, sporgls)
          = Store(st.docs, ends, st.spanf.docs, st.spanf.links \union E, st.open)
  BY <1>1, <1>2, <1>3
<1> QED  BY <1>4 DEF Linked, mid, E

LEMMA VersionIs ==
    ASSUME NEW st, Shape(st), NEW x \in DOMAIN st.docs, NEW v
    PROVE  LET doc == st.docs[x]
           IN  FEBE!WithVersion(st, x, v)
                   = Changed(st, v, FEBE!VersionOf(doc), FEBE!ToSet(doc.text \o FEBE!LinksOf(doc)))
<1> DEFINE doc == st.docs[x]
           new == FEBE!VersionOf(doc)
           items == doc.text \o FEBE!LinksOf(doc)
           mid == [st EXCEPT !.docs = FEBE!With(@, v, new)]
<1>1. FEBE!WithVersion(st, x, v) = FEBE!Index(mid, v, items)
  BY DEF FEBE!WithVersion
<1>2. mid = Changed(st, v, new, {})
  <2> DEFINE docs == FEBE!With(st.docs, v, new)
  <2>1. [st EXCEPT !.docs = docs] = Store(docs, st.ends, st.spanf.docs, st.spanf.links, st.open)
    <3> HIDE DEF docs
    <3> QED  BY DEF Shape, Store
  <2>2. st.spanf.docs \union {<<y, v>> : y \in {}} = st.spanf.docs
    OBVIOUS
  <2> HIDE DEF new
  <2> QED  BY <2>1, <2>2 DEF Changed
<1> HIDE DEF new, items, mid
<1>3. FEBE!Index(Changed(st, v, new, {}), v, items) = Changed(st, v, new, {} \union FEBE!ToSet(items))
  BY IndexIs
<1>4. {} \union FEBE!ToSet(items) = FEBE!ToSet(items)
  OBVIOUS
<1>5. FEBE!WithVersion(st, x, v) = Changed(st, v, new, FEBE!ToSet(items))
  BY <1>1, <1>2, <1>3, <1>4
<1> QED  BY <1>5 DEF new, items

LEMMA NewDocIs ==
    ASSUME NEW st, Shape(st), NEW v
    PROVE  [st EXCEPT !.docs = FEBE!With(@, v, FEBE!Blank)] = Changed(st, v, FEBE!Blank, {})
<1> DEFINE docs == FEBE!With(st.docs, v, FEBE!Blank)
<1>1. [st EXCEPT !.docs = docs] = Store(docs, st.ends, st.spanf.docs, st.spanf.links, st.open)
  <2> HIDE DEF docs
  <2> QED  BY DEF Shape, Store
<1>2. st.spanf.docs \union {<<y, v>> : y \in {}} = st.spanf.docs
  OBVIOUS
<1> QED  BY <1>1, <1>2 DEF Changed

LEMMA ReopenedIs ==
    ASSUME NEW st, Shape(st), NEW open
    PROVE  [st EXCEPT !.open = open] = Reopened(st, open)
BY DEF Shape, Store, Reopened

-----------------------------------------------------------------------------
(* What the part says, the whole says.                                     *)

AccountName == STRING \union {DEFAULT_ACCOUNT, NEIGHBOURS_ACCOUNT}
Address == Seq(AccountName \union Nat)

Parts == {"text", "links", "whole", "type"}

\* Spans of these documents.
IsSpans(spec, D) ==
    /\ spec \in Seq(FEBE!ToSet(spec))
    /\ \A k \in DOMAIN spec :
          spec[k].part \in Parts /\ (spec[k].part # "type" => spec[k].doc \in D)

\* The neighbour only reads the scenario's documents.
OnlyReads(st) ==
    \A e \in DOMAIN st.open : e[1] = NEIGHBOUR /\ Ours(e[2]) => st.open[e] \in [type : {READ_ONLY}, count : Nat]

LEMMA PartChecks ==
    ASSUME NEW st, OnlyReads(st), NEW c, c # NEIGHBOUR, NEW a, NEW x, Ours(x), NEW type
    PROVE  FEBE!CheckForOpen(Part(st), c, a, x, type) = FEBE!CheckForOpen(st, c, a, x, type)
<1> DEFINE P == Part(st)
<1>1. /\ DOMAIN P.open = {f \in DOMAIN st.open : f[1] # NEIGHBOUR}
      /\ \A e \in DOMAIN P.open : P.open[e] = st.open[e]
  BY PartIs
<1> HIDE DEF P
<1>2. FEBE!Opened(P, c, x) = FEBE!Opened(st, c, x)
  <2>1. <<c, x>>[1] = c
    OBVIOUS
  <2>2. <<c, x>> \in DOMAIN P.open <=> <<c, x>> \in DOMAIN st.open
    BY <1>1, <2>1
  <2> QED  BY <1>1, <2>2 DEF FEBE!Opened
<1>3. FEBE!HeldByWriter(P, c, x) <=> FEBE!HeldByWriter(st, c, x)
  BY <1>1 DEF OnlyReads, FEBE!HeldByWriter, READ_ONLY, FEBE!READ_ONLY
<1>4. FEBE!CheckForOpen(P, c, a, x, type) = FEBE!CheckForOpen(st, c, a, x, type)
  BY <1>2, <1>3 DEF FEBE!CheckForOpen
<1> QED  BY <1>4 DEF P

LEMMA PartMay ==
    ASSUME NEW st, OnlyReads(st), NEW c, c # NEIGHBOUR, NEW a, NEW x, Ours(x)
    PROVE  /\ FEBE!MayRead(Part(st), c, a, x) <=> FEBE!MayRead(st, c, a, x)
           /\ FEBE!MayWrite(Part(st), c, a, x) <=> FEBE!MayWrite(st, c, a, x)
BY PartChecks DEF FEBE!MayRead, FEBE!MayWrite

LEMMA PartItemsOf ==
    ASSUME NEW st, NEW span, span.part \in Parts,
           span.part # "type" => span.doc \in DOMAIN Part(st).docs
    PROVE  FEBE!ItemsOf(Part(st), span) = FEBE!ItemsOf(st, span)
<1> DEFINE P == Part(st)
<1>1. span.part # "type" => P.docs[span.doc] = st.docs[span.doc]
  BY PartIs
<1> HIDE DEF P
<1>2. FEBE!ItemsOf(P, span) = FEBE!ItemsOf(st, span)
  <2>1. CASE span.part = "type"
    BY <2>1 DEF FEBE!ItemsOf
  <2>2. CASE span.part # "type"
    BY <1>1, <2>2 DEF FEBE!ItemsOf
  <2> QED  BY <2>1, <2>2
<1> QED  BY <1>2 DEF P

LEMMA PartItems ==
    ASSUME NEW st, NEW spec, IsSpans(spec, DOMAIN Part(st).docs)
    PROVE  /\ FEBE!Items(Part(st), spec) = FEBE!Items(st, spec)
           /\ FEBE!Content(Part(st), spec) = FEBE!Content(st, spec)
           /\ FEBE!Sporgls(Part(st), spec) = FEBE!Sporgls(st, spec)
<1> DEFINE P == Part(st)
<1>1. \A k \in DOMAIN spec : FEBE!ItemsOf(P, spec[k]) = FEBE!ItemsOf(st, spec[k])
  BY PartItemsOf DEF IsSpans
<1> HIDE DEF P
<1>2. [k \in DOMAIN spec |-> FEBE!ItemsOf(P, spec[k])] = [k \in DOMAIN spec |-> FEBE!ItemsOf(st, spec[k])]
  BY <1>1
<1>3. FEBE!Items(P, spec) = FEBE!Items(st, spec)
  BY <1>2 DEF FEBE!Items
<1> DEFINE G(items, x) == LET runs == FEBE!Runs(items)
                          IN  [j \in DOMAIN runs |-> [doc |-> x, items |-> FEBE!ToSet(runs[j])]]
<1>4. /\ FEBE!Sporgls(P, spec)
             = FEBE!FlattenSeq([k \in DOMAIN spec |-> G(FEBE!ItemsOf(P, spec[k]), spec[k].doc)])
      /\ FEBE!Sporgls(st, spec)
             = FEBE!FlattenSeq([k \in DOMAIN spec |-> G(FEBE!ItemsOf(st, spec[k]), spec[k].doc)])
  BY DEF FEBE!Sporgls
<1> HIDE DEF G
<1>5. [k \in DOMAIN spec |-> G(FEBE!ItemsOf(P, spec[k]), spec[k].doc)]
          = [k \in DOMAIN spec |-> G(FEBE!ItemsOf(st, spec[k]), spec[k].doc)]
  BY <1>1
<1>6. FEBE!Sporgls(P, spec) = FEBE!Sporgls(st, spec)
  BY <1>4, <1>5
<1> QED  BY <1>3, <1>6 DEF P, FEBE!Content

LEMMA PartReadable ==
    ASSUME NEW st, OnlyReads(st), NEW c, c # NEIGHBOUR, NEW a, NEW spec,
           IsSpans(spec, DOMAIN Part(st).docs)
    PROVE  FEBE!Readable(Part(st), c, a, spec) <=> FEBE!Readable(st, c, a, spec)
<1>1. ASSUME NEW k \in DOMAIN spec, spec[k].part # "type"
      PROVE  FEBE!MayRead(Part(st), c, a, spec[k].doc) <=> FEBE!MayRead(st, c, a, spec[k].doc)
  <2>1. Ours(spec[k].doc)
    BY <1>1, PartIs DEF IsSpans
  <2> QED  BY <2>1, PartMay
<1> QED  BY <1>1 DEF FEBE!Readable

\* The siblings of an address.
Siblings(D, p) == {e \in D : Len(e) = Len(p) + 1 /\ SubSeq(e, 1, Len(p)) = p}

LEMMA PartSiblings ==
    ASSUME NEW st, DOMAIN st.docs \subseteq Address, NEW p \in Address, Len(p) > 0, Ours(p)
    PROVE  Siblings(DOMAIN Part(st).docs, p) = Siblings(DOMAIN st.docs, p)
<1>1. ASSUME NEW e \in DOMAIN st.docs, Len(e) = Len(p) + 1, SubSeq(e, 1, Len(p)) = p
      PROVE  Ours(e)
  <2>1. e \in Address /\ Len(p) \in Nat /\ 1 \in 1..Len(p)
    BY DEF Address
  <2>2. SubSeq(e, 1, Len(p))[1] = e[1]
    BY <1>1, <2>1 DEF Address
  <2>3. p[1] = e[1]
    BY <1>1, <2>2
  <2> QED  BY <2>3 DEF Ours, FEBE!Owns
<1>2. DOMAIN Part(st).docs = {y \in DOMAIN st.docs : Ours(y)}
  BY PartIs
<1> QED  BY <1>1, <1>2 DEF Siblings

LEMMA SameCardinality ==
    ASSUME NEW S
    PROVE  FEBE!Cardinality(S) = Cardinality(S)
BY DEF FEBE!Cardinality, Cardinality

LEMMA OneIs ==
    ASSUME NEW X, NEW s \in Seq(X), Len(s) = 1
    PROVE  s = <<s[1]>>
OBVIOUS

LEMMA NewAddresses ==
    ASSUME NEW st, DOMAIN st.docs \subseteq Address, NEW a \in AccountName, NEW x
    PROVE  /\ FEBE!NewVersion(st, x) = Append(x, 1 + Cardinality(Siblings(DOMAIN st.docs, x)))
           /\ FEBE!NewDocument(st, a)
                  = Append(<<a>>, 1 + Cardinality(Siblings(DOMAIN st.docs, <<a>>)))
<1>1. FEBE!NewVersion(st, x) = Append(x, 1 + Cardinality(Siblings(DOMAIN st.docs, x)))
  BY SameCardinality DEF FEBE!NewVersion, Siblings
<1>2. {e \in DOMAIN st.docs : Len(e) = 2 /\ FEBE!Owns(a, e)} = Siblings(DOMAIN st.docs, <<a>>)
  <2>1. ASSUME NEW e \in DOMAIN st.docs, Len(e) = 2
        PROVE  SubSeq(e, 1, 1) = <<a>> <=> e[1] = a
    <3>1. e \in Address
      OBVIOUS
    <3>2. SubSeq(e, 1, 1) = <<e[1]>>
      <4> DEFINE t == SubSeq(e, 1, 1)
      <4>1. t \in Address /\ Len(t) = 1 /\ t[1] = e[1]
        BY <2>1, <3>1 DEF Address
      <4> HIDE DEF t
      <4>2. t = <<t[1]>>
        BY <4>1, OneIs DEF Address
      <4> QED  BY <4>1, <4>2 DEF t
    <3> QED  BY <3>2
  <2>2. Len(<<a>>) = 1 /\ Len(<<a>>) + 1 = 2
    OBVIOUS
  <2> QED  BY <2>1, <2>2 DEF Siblings, FEBE!Owns
<1>3. \A n : <<a, n>> = Append(<<a>>, n)
  OBVIOUS
<1> DEFINE S == {e \in DOMAIN st.docs : Len(e) = 2 /\ FEBE!Owns(a, e)}
<1>4. FEBE!NewDocument(st, a) = <<a, 1 + Cardinality(S)>>
  BY SameCardinality DEF FEBE!NewDocument
<1> HIDE DEF S
<1>5. FEBE!NewDocument(st, a) = Append(<<a>>, 1 + Cardinality(S))
  BY <1>3, <1>4
<1>6. S = Siblings(DOMAIN st.docs, <<a>>)
  BY <1>2 DEF S
<1> QED  BY <1>1, <1>5, <1>6

-----------------------------------------------------------------------------
(* A request does to the part what it does to the whole.                   *)

Agrees(one, two) == one.store = Part(two.store) /\ one.answer = two.answer

LEMMA PartDoc ==
    ASSUME NEW st, NEW x \in DOMAIN Part(st).docs
    PROVE  x \in DOMAIN st.docs /\ Part(st).docs[x] = st.docs[x] /\ Ours(x)
BY PartIs

LEMMA PartPutText ==
    ASSUME NEW st, Shape(st), NEW x \in DOMAIN Part(st).docs, NEW p, NEW items
    PROVE  FEBE!PutText(Part(st), x, p, items) = Part(FEBE!PutText(st, x, p, items))
<1> DEFINE P == Part(st)
           doc == st.docs[x]
           new == Orgl(FEBE!Put(doc.text, p, items), doc.links, doc.chars, doc.made)
           I == FEBE!ToSet(items)
<1>1. x \in DOMAIN st.docs /\ P.docs[x] = doc /\ Ours(x) /\ Shape(P)
  BY PartDoc, PartShape
<1>2. FEBE!PutText(st, x, p, items) = Changed(st, x, new, I)
  BY <1>1, PutTextIs
<1> HIDE DEF P
<1>3. FEBE!PutText(P, x, p, items) = Changed(P, x, new, I)
  <2>1. x \in DOMAIN P.docs
    BY DEF P
  <2>2. FEBE!PutText(P, x, p, items)
            = Changed(P, x, Orgl(FEBE!Put(P.docs[x].text, p, items), P.docs[x].links,
                                P.docs[x].chars, P.docs[x].made), I)
    BY <1>1, <2>1, PutTextIs
  <2> QED  BY <1>1, <2>2
<1> HIDE DEF new, I
<1>4. Part(Changed(st, x, new, I)) = Changed(P, x, new, I)
  BY <1>1, PartChanged DEF P
<1> QED  BY <1>2, <1>3, <1>4 DEF P

LEMMA PartChars ==
    ASSUME NEW st, Shape(st), NEW x \in DOMAIN Part(st).docs, NEW n
    PROVE  [Part(st) EXCEPT !.docs[x].chars = @ + n] = Part([st EXCEPT !.docs[x].chars = @ + n])
<1> DEFINE P == Part(st)
           doc == st.docs[x]
           new == Orgl(doc.text, doc.links, doc.chars + n, doc.made)
<1>1. x \in DOMAIN st.docs /\ P.docs[x] = doc /\ Ours(x) /\ Shape(P) /\ x \in DOMAIN P.docs
  BY PartDoc, PartShape
<1>2. [st EXCEPT !.docs[x].chars = @ + n] = Changed(st, x, new, {})
  BY <1>1, CharsIs
<1>4. Part(Changed(st, x, new, {})) = Changed(P, x, new, {})
  BY <1>1, PartChanged
<1> HIDE DEF P
<1>3. [P EXCEPT !.docs[x].chars = @ + n] = Changed(P, x, new, {})
  <2>1. [P EXCEPT !.docs[x].chars = @ + n]
            = Changed(P, x, Orgl(P.docs[x].text, P.docs[x].links, P.docs[x].chars + n, P.docs[x].made), {})
    BY <1>1, CharsIs
  <2> QED  BY <1>1, <2>1
<1>5. [P EXCEPT !.docs[x].chars = @ + n] = Part([st EXCEPT !.docs[x].chars = @ + n])
  BY <1>2, <1>3, <1>4
<1> QED  BY <1>5 DEF P

LEMMA AgreeInsert ==
    ASSUME NEW st, Shape(st), OnlyReads(st), NEW c, c # NEIGHBOUR, NEW a,
           NEW x \in DOMAIN Part(st).docs, NEW p, NEW n
    PROVE  Agrees(FEBE!Insert(Part(st), c, a, x, p, n), FEBE!Insert(st, c, a, x, p, n))
<1> DEFINE P == Part(st)
           items == [k \in 1..n |-> FEBE!Char(x, st.docs[x].chars + k)]
           st2 == [st EXCEPT !.docs[x].chars = @ + n]
           P2 == [P EXCEPT !.docs[x].chars = @ + n]
<1>1. P2 = Part(st2)
  BY PartChars
<1>2. P.docs[x] = st.docs[x] /\ Ours(x) /\ x \in DOMAIN st.docs
  BY PartDoc
<1>3. FEBE!MayWrite(P, c, a, x) <=> FEBE!MayWrite(st, c, a, x)
  BY <1>2, PartMay
<1>4. Shape(st2) /\ x \in DOMAIN Part(st2).docs
  <2> DEFINE doc == st.docs[x]
             new == Orgl(doc.text, doc.links, doc.chars + n, doc.made)
  <2>1. st2 = Changed(st, x, new, {})
    BY <1>2, CharsIs
  <2>2. Shape(Changed(st, x, new, {}))
    BY ChangedShape
  <2>3. x \in DOMAIN Changed(st, x, new, {}).docs
    BY DEF Changed, Store, FEBE!With
  <2> HIDE DEF st2, new
  <2>4. x \in DOMAIN st2.docs
    BY <2>1, <2>3
  <2> QED  BY <1>2, <2>1, <2>2, <2>4, PartIs
<1>5. FEBE!Insert(st, c, a, x, p, n)
          = FEBE!Given(IF FEBE!MayWrite(st, c, a, x) THEN FEBE!PutText(st2, x, p, items) ELSE st2, FEBE!Done)
  BY DEF FEBE!Insert
<1>6. FEBE!Insert(P, c, a, x, p, n)
          = FEBE!Given(IF FEBE!MayWrite(P, c, a, x) THEN FEBE!PutText(P2, x, p, items) ELSE P2, FEBE!Done)
  <2> HIDE DEF P
  <2> QED  BY <1>2 DEF FEBE!Insert
<1> HIDE DEF P, items, st2, P2
<1>7. FEBE!PutText(P2, x, p, items) = Part(FEBE!PutText(st2, x, p, items))
  BY <1>1, <1>4, PartPutText
<1>8. Agrees(FEBE!Insert(P, c, a, x, p, n), FEBE!Insert(st, c, a, x, p, n))
  BY <1>1, <1>3, <1>5, <1>6, <1>7 DEF Agrees, FEBE!Given
<1> QED  BY <1>8 DEF P

LEMMA AgreeCopy ==
    ASSUME NEW st, Shape(st), OnlyReads(st), NEW c, c # NEIGHBOUR, NEW a,
           NEW x \in DOMAIN Part(st).docs, NEW p, NEW spec, IsSpans(spec, DOMAIN Part(st).docs)
    PROVE  Agrees(FEBE!Copy(Part(st), c, a, x, p, spec), FEBE!Copy(st, c, a, x, p, spec))
<1>1. FEBE!MayWrite(Part(st), c, a, x) <=> FEBE!MayWrite(st, c, a, x)
  BY PartDoc, PartMay
<1>2. FEBE!Items(Part(st), spec) = FEBE!Items(st, spec)
  BY PartItems
<1> DEFINE items == FEBE!Items(st, spec)
<1>3. FEBE!PutText(Part(st), x, p, items) = Part(FEBE!PutText(st, x, p, items))
  <2> HIDE DEF items
  <2> QED  BY PartPutText
<1> QED  BY <1>1, <1>2, <1>3 DEF Agrees, FEBE!Given, FEBE!Copy

LEMMA AgreeDelete ==
    ASSUME NEW st, Shape(st), OnlyReads(st), NEW c, c # NEIGHBOUR, NEW a,
           NEW x \in DOMAIN Part(st).docs, NEW part, NEW p, NEW n
    PROVE  Agrees(FEBE!DeleteVspan(Part(st), c, a, x, part, p, n),
                  FEBE!DeleteVspan(st, c, a, x, part, p, n))
<1> DEFINE P == Part(st)
           new == FEBE!Without(st.docs[x], part, p, n)
<1>1. P.docs[x] = st.docs[x] /\ Ours(x) /\ x \in DOMAIN st.docs /\ Shape(P) /\ x \in DOMAIN P.docs
  BY PartDoc, PartShape
<1>2. FEBE!MayWrite(P, c, a, x) <=> FEBE!MayWrite(st, c, a, x)
  BY <1>1, PartMay
<1>3. /\ FEBE!DeleteVspan(st, c, a, x, part, p, n)
             = FEBE!Given(IF FEBE!MayWrite(st, c, a, x) THEN [st EXCEPT !.docs[x] = new] ELSE st, FEBE!Done)
  BY DEF FEBE!DeleteVspan
<1>5. Part(Changed(st, x, new, {})) = Changed(P, x, new, {})
  <2> HIDE DEF new
  <2> QED  BY <1>1, PartChanged
<1> HIDE DEF P
<1>4. FEBE!DeleteVspan(P, c, a, x, part, p, n)
          = FEBE!Given(IF FEBE!MayWrite(P, c, a, x) THEN [P EXCEPT !.docs[x] = new] ELSE P, FEBE!Done)
  BY <1>1 DEF FEBE!DeleteVspan
<1> HIDE DEF new
<1>6. [P EXCEPT !.docs[x] = new] = Part([st EXCEPT !.docs[x] = new])
  BY <1>1, <1>5, ChangedDoc
<1> QED  BY <1>2, <1>3, <1>4, <1>6 DEF Agrees, FEBE!Given, P

LEMMA AgreeRearrange ==
    ASSUME NEW st, Shape(st), OnlyReads(st), NEW c, c # NEIGHBOUR, NEW a,
           NEW x \in DOMAIN Part(st).docs, NEW cut
    PROVE  Agrees(FEBE!Rearrange(Part(st), c, a, x, cut), FEBE!Rearrange(st, c, a, x, cut))
<1> DEFINE P == Part(st)
           doc == st.docs[x]
           text == FEBE!Rearranged(doc.text, cut[1], cut[2], cut[Len(cut) - 1], cut[Len(cut)])
           new == Orgl(text, doc.links, doc.chars, doc.made)
<1>1. P.docs[x] = doc /\ Ours(x) /\ x \in DOMAIN st.docs /\ Shape(P) /\ x \in DOMAIN P.docs
  BY PartDoc, PartShape
<1>2. FEBE!MayWrite(P, c, a, x) <=> FEBE!MayWrite(st, c, a, x)
  BY <1>1, PartMay
<1>3. FEBE!Rearrange(st, c, a, x, cut)
          = FEBE!Given(IF FEBE!MayWrite(st, c, a, x) THEN [st EXCEPT !.docs[x].text = text] ELSE st, FEBE!Done)
  BY DEF FEBE!Rearrange
<1>5. Part(Changed(st, x, new, {})) = Changed(P, x, new, {})
  <2> HIDE DEF new
  <2> QED  BY <1>1, PartChanged
<1> HIDE DEF P
<1>4. FEBE!Rearrange(P, c, a, x, cut)
          = FEBE!Given(IF FEBE!MayWrite(P, c, a, x) THEN [P EXCEPT !.docs[x].text = text] ELSE P, FEBE!Done)
  BY <1>1 DEF FEBE!Rearrange
<1> HIDE DEF text
<1>6. [P EXCEPT !.docs[x].text = text] = Part([st EXCEPT !.docs[x].text = text])
  <2>1. [st EXCEPT !.docs[x].text = text] = Changed(st, x, new, {})
    BY <1>1, TextIs
  <2>2. [P EXCEPT !.docs[x].text = text]
            = Changed(P, x, Orgl(text, P.docs[x].links, P.docs[x].chars, P.docs[x].made), {})
    BY <1>1, TextIs
  <2>3. [P EXCEPT !.docs[x].text = text] = Changed(P, x, new, {})
    BY <1>1, <2>2
  <2> QED  BY <1>5, <2>1, <2>3
<1> QED  BY <1>2, <1>3, <1>4, <1>6 DEF Agrees, FEBE!Given, P

Made(st, x) == [st EXCEPT !.docs[x].made = @ + 1]

LinkPut(st, x, at, link) ==
    FEBE!Index([st EXCEPT !.docs[x].links = FEBE!With(@, at, link)], x, <<link>>)

LEMMA PartMade ==
    ASSUME NEW st, Shape(st), NEW x \in DOMAIN Part(st).docs
    PROVE  /\ Made(Part(st), x) = Part(Made(st, x))
           /\ Shape(Made(st, x)) /\ DOMAIN Part(Made(st, x)).docs = DOMAIN Part(st).docs
<1> DEFINE P == Part(st)
           doc == st.docs[x]
           new == Orgl(doc.text, doc.links, doc.chars, doc.made + 1)
<1>1. x \in DOMAIN st.docs /\ P.docs[x] = doc /\ Ours(x) /\ Shape(P) /\ x \in DOMAIN P.docs
  BY PartDoc, PartShape
<1>2. Made(st, x) = Changed(st, x, new, {})
  BY <1>1, MadeIs DEF Made
<1>3. Part(Changed(st, x, new, {})) = Changed(P, x, new, {})
  BY <1>1, PartChanged
<1> HIDE DEF P
<1>4. Made(P, x) = Changed(P, x, new, {})
  <2>1. Made(P, x)
            = Changed(P, x, Orgl(P.docs[x].text, P.docs[x].links, P.docs[x].chars, P.docs[x].made + 1), {})
    BY <1>1, MadeIs DEF Made
  <2> QED  BY <1>1, <2>1
<1>5. Shape(Changed(st, x, new, {}))
  BY ChangedShape
<1>6. DOMAIN Changed(P, x, new, {}).docs = DOMAIN P.docs
  BY <1>1 DEF Changed, Store, FEBE!With
<1> HIDE DEF new
<1> QED  BY <1>2, <1>3, <1>4, <1>5, <1>6 DEF P

LEMMA PartLinkPut ==
    ASSUME NEW st, Shape(st), NEW x \in DOMAIN Part(st).docs, NEW at, NEW link
    PROVE  /\ LinkPut(Part(st), x, at, link) = Part(LinkPut(st, x, at, link))
           /\ Shape(LinkPut(st, x, at, link))
           /\ DOMAIN Part(LinkPut(st, x, at, link)).docs = DOMAIN Part(st).docs
<1> DEFINE P == Part(st)
           doc == st.docs[x]
           new == Orgl(doc.text, FEBE!With(doc.links, at, link), doc.chars, doc.made)
<1>1. x \in DOMAIN st.docs /\ P.docs[x] = doc /\ Ours(x) /\ Shape(P) /\ x \in DOMAIN P.docs
  BY PartDoc, PartShape
<1>2. LinkPut(st, x, at, link) = Changed(st, x, new, {link})
  BY <1>1, LinkPutIs DEF LinkPut
<1>3. Part(Changed(st, x, new, {link})) = Changed(P, x, new, {link})
  BY <1>1, PartChanged
<1> HIDE DEF P
<1>4. LinkPut(P, x, at, link) = Changed(P, x, new, {link})
  <2>1. LinkPut(P, x, at, link)
            = Changed(P, x, Orgl(P.docs[x].text, FEBE!With(P.docs[x].links, at, link),
                                P.docs[x].chars, P.docs[x].made), {link})
    BY <1>1, LinkPutIs DEF LinkPut
  <2> QED  BY <1>1, <2>1
<1>5. Shape(Changed(st, x, new, {link}))
  BY ChangedShape
<1>6. DOMAIN Changed(P, x, new, {link}).docs = DOMAIN P.docs
  BY <1>1 DEF Changed, Store, FEBE!With
<1> HIDE DEF new
<1> QED  BY <1>2, <1>3, <1>4, <1>5, <1>6 DEF P

\* The next address for a link, and the next place.
NextLink(st, x) == FEBE!Link(x, st.docs[x].made + 1)
NextAt(st, x) == FEBE!Max({0} \union DOMAIN st.docs[x].links) + 1

Standing(st, x) == LinkPut(Made(st, x), x, NextAt(st, x), NextLink(st, x))
EndsOf(st, specs) == [e \in FEBE!Ends |-> FEBE!Sporgls(st, specs[e])]

LEMMA CreateLinkIs ==
    ASSUME NEW st, NEW c, NEW a, NEW x, NEW specs, Shape(Standing(st, x))
    PROVE  FEBE!CreateLink(st, c, a, x, specs)
               = IF FEBE!MayWrite(st, c, a, x)
                 THEN FEBE!Given(Linked(Standing(st, x), NextLink(st, x), EndsOf(Standing(st, x), specs)),
                                 NextLink(st, x))
                 ELSE FEBE!Given(Made(st, x), FEBE!Failed)
<1> DEFINE st2 == Standing(st, x)
           link == NextLink(st, x)
           ends == EndsOf(st2, specs)
<1>1. FEBE!CreateLink(st, c, a, x, specs)
          = IF FEBE!MayWrite(st, c, a, x)
            THEN FEBE!Given(FEBE!IndexEnds([st2 EXCEPT !.ends = FEBE!With(@, link, ends)], link, ends), link)
            ELSE FEBE!Given(Made(st, x), FEBE!Failed)
  BY DEF FEBE!CreateLink, Standing, LinkPut, Made, NextAt, NextLink, EndsOf
<1> HIDE DEF st2, link, ends
<1>2. FEBE!IndexEnds([st2 EXCEPT !.ends = FEBE!With(@, link, ends)], link, ends) = Linked(st2, link, ends)
  BY LinkedIs DEF st2
<1> QED  BY <1>1, <1>2 DEF st2, link, ends

LEMMA AgreeCreateLink ==
    ASSUME NEW st, Shape(st), OnlyReads(st), NEW c, c # NEIGHBOUR, NEW a,
           NEW x \in DOMAIN Part(st).docs, NEW specs,
           \A e \in FEBE!Ends : IsSpans(specs[e], DOMAIN Part(st).docs)
    PROVE  Agrees(FEBE!CreateLink(Part(st), c, a, x, specs), FEBE!CreateLink(st, c, a, x, specs))
<1> DEFINE P == Part(st)
           st1 == Made(st, x)
           at == NextAt(st, x)
           link == NextLink(st, x)
           st2 == LinkPut(st1, x, at, link)
           ends == EndsOf(st2, specs)
<1>1. P.docs[x] = st.docs[x] /\ Ours(x) /\ x \in DOMAIN st.docs /\ Shape(P) /\ x \in DOMAIN P.docs
  BY PartDoc, PartShape
<1>2. FEBE!MayWrite(P, c, a, x) <=> FEBE!MayWrite(st, c, a, x)
  BY <1>1, PartMay
<1>3. NextAt(P, x) = at /\ NextLink(P, x) = link
  BY <1>1 DEF NextAt, NextLink
<1>4. Made(P, x) = Part(st1) /\ Shape(st1) /\ DOMAIN Part(st1).docs = DOMAIN P.docs
  BY PartMade
<1> HIDE DEF at, link, st1
<1>5. LinkPut(Part(st1), x, at, link) = Part(st2) /\ Shape(st2) /\ DOMAIN Part(st2).docs = DOMAIN Part(st1).docs
  BY <1>1, <1>4, PartLinkPut
<1>6. Standing(P, x) = Part(st2) /\ Standing(st, x) = st2
  BY <1>3, <1>4, <1>5 DEF Standing, st1, at, link
<1> HIDE DEF st2
<1>7. EndsOf(Part(st2), specs) = ends
  <2>1. ASSUME NEW e \in FEBE!Ends
        PROVE  FEBE!Sporgls(Part(st2), specs[e]) = FEBE!Sporgls(st2, specs[e])
    <3>1. IsSpans(specs[e], DOMAIN Part(st2).docs)
      BY <1>4, <1>5
    <3> QED  BY <3>1, PartItems
  <2> QED  BY <2>1 DEF EndsOf
<1> HIDE DEF ends
<1>8. Part(Linked(st2, link, ends)) = Linked(Part(st2), link, ends)
  <2>1. Ours(link.home)
    BY <1>1 DEF link, NextLink, FEBE!Link
  <2> QED  BY <2>1, PartLinked
<1>9. Shape(Part(st2))
  BY <1>5, PartShape
<1>10. FEBE!CreateLink(st, c, a, x, specs)
          = IF FEBE!MayWrite(st, c, a, x) THEN FEBE!Given(Linked(st2, link, ends), link)
            ELSE FEBE!Given(st1, FEBE!Failed)
  BY <1>5, <1>6, CreateLinkIs DEF st1, link, ends
<1> HIDE DEF P
<1>11. FEBE!CreateLink(P, c, a, x, specs)
          = IF FEBE!MayWrite(P, c, a, x) THEN FEBE!Given(Linked(Part(st2), link, ends), link)
            ELSE FEBE!Given(Part(st1), FEBE!Failed)
  <2>1. FEBE!CreateLink(P, c, a, x, specs)
            = IF FEBE!MayWrite(P, c, a, x)
              THEN FEBE!Given(Linked(Standing(P, x), NextLink(P, x), EndsOf(Standing(P, x), specs)),
                              NextLink(P, x))
              ELSE FEBE!Given(Made(P, x), FEBE!Failed)
    BY <1>6, <1>9, CreateLinkIs
  <2> QED  BY <1>3, <1>4, <1>6, <1>7, <2>1
<1> QED  BY <1>2, <1>8, <1>10, <1>11 DEF Agrees, FEBE!Given, P

\* Addresses are allocated without regard to the neighbour's documents.
LEMMA PartAddresses ==
    ASSUME NEW st, DOMAIN st.docs \subseteq Address, NEW a \in AccountName, a # NEIGHBOURS_ACCOUNT
    PROVE  /\ FEBE!NewDocument(Part(st), a) = FEBE!NewDocument(st, a)
           /\ Ours(FEBE!NewDocument(st, a))
           /\ \A x \in DOMAIN Part(st).docs :
                 Len(x) > 0 => /\ FEBE!NewVersion(Part(st), x) = FEBE!NewVersion(st, x)
                               /\ Ours(FEBE!NewVersion(st, x))
<1> DEFINE D == DOMAIN st.docs
           E == DOMAIN Part(st).docs
<1>1. E \subseteq D /\ E \subseteq Address
  BY PartIs
<1>2. <<a>> \in Address /\ Len(<<a>>) > 0 /\ Ours(<<a>>)
  BY DEF Address, Ours, FEBE!Owns
<1>3. Siblings(E, <<a>>) = Siblings(D, <<a>>)
  BY <1>2, PartSiblings
<1>4. FEBE!NewDocument(Part(st), a) = FEBE!NewDocument(st, a)
  <2> HIDE DEF D, E
  <2>1. FEBE!NewDocument(Part(st), a) = Append(<<a>>, 1 + Cardinality(Siblings(E, <<a>>)))
    BY <1>1, NewAddresses DEF E
  <2>2. FEBE!NewDocument(st, a) = Append(<<a>>, 1 + Cardinality(Siblings(D, <<a>>)))
    BY NewAddresses DEF D
  <2> QED  BY <1>3, <2>1, <2>2
<1>5. Ours(FEBE!NewDocument(st, a))
  BY DEF FEBE!NewDocument, Ours, FEBE!Owns
<1>6. ASSUME NEW x \in E, Len(x) > 0
      PROVE  FEBE!NewVersion(Part(st), x) = FEBE!NewVersion(st, x) /\ Ours(FEBE!NewVersion(st, x))
  <2>1. x \in Address /\ Ours(x)
    BY <1>1, PartIs
  <2>2. Siblings(E, x) = Siblings(D, x)
    BY <1>6, <2>1, PartSiblings
  <2> HIDE DEF D, E
  <2>3. FEBE!NewVersion(Part(st), x) = Append(x, 1 + Cardinality(Siblings(E, x)))
    BY <1>1, NewAddresses DEF E
  <2>4. FEBE!NewVersion(st, x) = Append(x, 1 + Cardinality(Siblings(D, x)))
    BY NewAddresses DEF D
  <2>5. \A n : Append(x, n)[1] = x[1]
    BY <1>6, <2>1 DEF Address
  <2> QED  BY <2>1, <2>2, <2>3, <2>4, <2>5 DEF Ours, FEBE!Owns
<1> QED  BY <1>4, <1>5, <1>6

LEMMA PartVersion ==
    ASSUME NEW st, Shape(st), NEW x \in DOMAIN Part(st).docs, NEW v, Ours(v)
    PROVE  FEBE!WithVersion(Part(st), x, v) = Part(FEBE!WithVersion(st, x, v))
<1> DEFINE P == Part(st)
           doc == st.docs[x]
           new == FEBE!VersionOf(doc)
           I == FEBE!ToSet(doc.text \o FEBE!LinksOf(doc))
<1>1. x \in DOMAIN st.docs /\ P.docs[x] = doc /\ Shape(P) /\ x \in DOMAIN P.docs
  BY PartDoc, PartShape
<1>2. FEBE!WithVersion(st, x, v) = Changed(st, v, new, I)
  BY <1>1, VersionIs
<1>3. Part(Changed(st, v, new, I)) = Changed(P, v, new, I)
  <2> HIDE DEF new, I
  <2> QED  BY PartChanged
<1> HIDE DEF P
<1>4. FEBE!WithVersion(P, x, v)
          = Changed(P, v, FEBE!VersionOf(P.docs[x]),
                    FEBE!ToSet(P.docs[x].text \o FEBE!LinksOf(P.docs[x])))
  BY <1>1, VersionIs
<1>5. FEBE!WithVersion(P, x, v) = Changed(P, v, new, I)
  BY <1>1, <1>4
<1> HIDE DEF new, I
<1> QED  BY <1>2, <1>3, <1>5 DEF P

LEMMA AgreeCreateDocument ==
    ASSUME NEW st, Shape(st), DOMAIN st.docs \subseteq Address,
           NEW a \in AccountName, a # NEIGHBOURS_ACCOUNT
    PROVE  Agrees(FEBE!CreateDocument(Part(st), a), FEBE!CreateDocument(st, a))
<1> DEFINE P == Part(st)
           v == FEBE!NewDocument(st, a)
<1>1. FEBE!NewDocument(P, a) = v /\ Ours(v) /\ Shape(P)
  BY PartAddresses, PartShape
<1>2. FEBE!CreateDocument(st, a) = FEBE!Given([st EXCEPT !.docs = FEBE!With(@, v, FEBE!Blank)], v)
  BY DEF FEBE!CreateDocument
<1> HIDE DEF v, P
<1>3. FEBE!CreateDocument(P, a) = FEBE!Given([P EXCEPT !.docs = FEBE!With(@, v, FEBE!Blank)], v)
  BY <1>1 DEF FEBE!CreateDocument
<1>4. [st EXCEPT !.docs = FEBE!With(@, v, FEBE!Blank)] = Changed(st, v, FEBE!Blank, {})
  BY NewDocIs
<1>5. [P EXCEPT !.docs = FEBE!With(@, v, FEBE!Blank)] = Changed(P, v, FEBE!Blank, {})
  BY <1>1, NewDocIs
<1>6. Part(Changed(st, v, FEBE!Blank, {})) = Changed(P, v, FEBE!Blank, {})
  BY <1>1, PartChanged DEF P
<1> QED  BY <1>2, <1>3, <1>4, <1>5, <1>6 DEF Agrees, FEBE!Given, P

LEMMA AgreeCreateVersion ==
    ASSUME NEW st, Shape(st), DOMAIN st.docs \subseteq Address,
           NEW x \in DOMAIN Part(st).docs, Len(x) > 0
    PROVE  Agrees(FEBE!CreateVersion(Part(st), x), FEBE!CreateVersion(st, x))
<1> DEFINE v == FEBE!NewVersion(st, x)
<1>1. DEFAULT_ACCOUNT \in AccountName /\ DEFAULT_ACCOUNT # NEIGHBOURS_ACCOUNT
  BY DEF AccountName, DEFAULT_ACCOUNT, NEIGHBOURS_ACCOUNT
<1>2. FEBE!NewVersion(Part(st), x) = v /\ Ours(v)
  BY <1>1, PartAddresses
<1>3. FEBE!CreateVersion(st, x) = FEBE!Given(FEBE!WithVersion(st, x, v), v)
  BY DEF FEBE!CreateVersion
<1> HIDE DEF v
<1>4. FEBE!CreateVersion(Part(st), x) = FEBE!Given(FEBE!WithVersion(Part(st), x, v), v)
  BY <1>2 DEF FEBE!CreateVersion
<1>5. FEBE!WithVersion(Part(st), x, v) = Part(FEBE!WithVersion(st, x, v))
  BY <1>2, PartVersion
<1> QED  BY <1>3, <1>4, <1>5 DEF Agrees, FEBE!Given

\* Opening, by its cases.
OpenedTwice(st, c, x) == [st EXCEPT !.open[<<c, x>>].count = @ + 1]

OpenedVersion(st, c, a, x, type) ==
    LET v == FEBE!VersionAddress(st, a, x)
    IN  FEBE!Given(FEBE!AddToOpen(FEBE!WithVersion(st, x, v), c, v, type), v)

LEMMA OpenDocumentIs ==
    ASSUME NEW st, NEW c, NEW a, NEW x,
           NEW type \in {READ_ONLY, READ_WRITE},
           NEW mode \in {CONFLICT_FAIL, CONFLICT_COPY, ALWAYS_COPY}
    PROVE  FEBE!OpenDocument(st, c, a, x, type, mode)
               = LET state == FEBE!CheckForOpen(st, c, a, x, type)
                 IN  IF mode # ALWAYS_COPY /\ state = 0 THEN FEBE!Given(FEBE!AddToOpen(st, c, x, type), x)
                     ELSE IF mode # ALWAYS_COPY /\ state = READ_ONLY
                     THEN FEBE!Given(OpenedTwice(st, c, x), x)
                     ELSE IF mode = CONFLICT_FAIL THEN FEBE!Given(st, FEBE!Failed)
                     ELSE OpenedVersion(st, c, a, x, type)
<1> DEFINE state == FEBE!CheckForOpen(st, c, a, x, type)
           one == FEBE!Given(FEBE!AddToOpen(st, c, x, type), x)
           two == FEBE!Given(OpenedTwice(st, c, x), x)
           three == FEBE!Given(st, FEBE!Failed)
           four == OpenedVersion(st, c, a, x, type)
<1>1. /\ state \in {-1, 0, 1, 2}
      /\ state = 1 => type = 1
  BY DEF FEBE!CheckForOpen, READ_ONLY, READ_WRITE, FEBE!READ_ONLY, FEBE!READ_WRITE
<1>2. FEBE!OpenDocument(st, c, a, x, type, mode)
          = CASE mode # 3 /\ state = 0 -> one
              [] mode # 3 /\ type = 1 /\ state = 1 -> two
              [] mode = 1 /\ state \in {-1, 2} -> three
              [] mode = 3 \/ (mode = 2 /\ state \in {-1, 2}) -> four
  BY DEF FEBE!OpenDocument, OpenedTwice, OpenedVersion, FEBE!READ_ONLY, FEBE!READ_WRITE,
         FEBE!CONFLICT_FAIL, FEBE!CONFLICT_COPY, FEBE!ALWAYS_COPY
<1> HIDE DEF state, one, two, three, four
<1>3. FEBE!OpenDocument(st, c, a, x, type, mode)
          = IF mode # 3 /\ state = 0 THEN one ELSE IF mode # 3 /\ state = 1 THEN two
            ELSE IF mode = 1 THEN three ELSE four
  BY <1>1, <1>2 DEF CONFLICT_FAIL, CONFLICT_COPY, ALWAYS_COPY
<1> QED  BY <1>3 DEF state, one, two, three, four, READ_ONLY, CONFLICT_FAIL, ALWAYS_COPY

\* The entries of the connections of the scenario.
Kept(open) == [e \in {f \in DOMAIN open : f[1] # NEIGHBOUR} |-> open[e]]

LEMMA PartAddToOpen ==
    ASSUME NEW st, Shape(st), NEW c, NEW x, NEW type
    PROVE  LET new == FEBE!AddToOpen(st, c, x, type)
           IN  /\ c # NEIGHBOUR => Part(new) = FEBE!AddToOpen(Part(st), c, x, type)
               /\ c = NEIGHBOUR => Part(new) = Part(st)
<1> DEFINE entry == [type |-> type, count |-> 1]
           open == FEBE!With(st.open, <<c, x>>, entry)
           new == FEBE!AddToOpen(st, c, x, type)
<1>1. new = Reopened(st, open)
  BY ReopenedIs DEF FEBE!AddToOpen
<1>2. Part(Reopened(st, open)) = Reopened(Part(st), Kept(open))
  BY PartReopened DEF Kept
<1>3. Part(st).open = Kept(st.open)
  BY DEF Part, Store, Kept
<1>4. /\ DOMAIN open = DOMAIN st.open \union {<<c, x>>} /\ open[<<c, x>>] = entry
      /\ \A e \in DOMAIN st.open : e # <<c, x>> => open[e] = st.open[e]
  BY DEF FEBE!With
<1>5. <<c, x>>[1] = c
  OBVIOUS
<1> HIDE DEF open, entry, new
<1>6. CASE c # NEIGHBOUR
  <2>1. Kept(open) = FEBE!With(Kept(st.open), <<c, x>>, entry)
    BY <1>4, <1>5, <1>6 DEF Kept, FEBE!With
  <2>2. FEBE!AddToOpen(Part(st), c, x, type) = Reopened(Part(st), FEBE!With(Kept(st.open), <<c, x>>, entry))
    <3>1. Shape(Part(st))
      BY PartShape
    <3>2. [Part(st) EXCEPT !.open = FEBE!With(Kept(st.open), <<c, x>>, entry)]
              = Reopened(Part(st), FEBE!With(Kept(st.open), <<c, x>>, entry))
      BY <3>1, ReopenedIs
    <3> QED  BY <1>3, <3>2 DEF FEBE!AddToOpen, entry
  <2> QED  BY <1>1, <1>2, <1>6, <2>1, <2>2 DEF new
<1>7. CASE c = NEIGHBOUR
  <2>1. Kept(open) = Kept(st.open)
    BY <1>4, <1>5, <1>7 DEF Kept
  <2>2. Reopened(Part(st), Kept(st.open)) = Part(st)
    BY DEF Reopened, Part, Store, Kept
  <2> QED  BY <1>1, <1>2, <1>7, <2>1, <2>2 DEF new
<1> QED  BY <1>6, <1>7 DEF new

LEMMA PartOpenedTwice ==
    ASSUME NEW st, Shape(st), NEW c, NEW x
    PROVE  /\ c # NEIGHBOUR => Part(OpenedTwice(st, c, x)) = OpenedTwice(Part(st), c, x)
           /\ c = NEIGHBOUR => Part(OpenedTwice(st, c, x)) = Part(st)
<1> DEFINE open == [st.open EXCEPT ![<<c, x>>].count = @ + 1]
<1>1. OpenedTwice(st, c, x) = Reopened(st, open)
  BY ReopenedIs DEF OpenedTwice
<1>2. Part(Reopened(st, open)) = Reopened(Part(st), Kept(open))
  BY PartReopened DEF Kept
<1>3. Part(st).open = Kept(st.open)
  BY DEF Part, Store, Kept
<1>4. <<c, x>>[1] = c
  OBVIOUS
<1>5. DOMAIN open = DOMAIN st.open /\ \A e \in DOMAIN st.open : e # <<c, x>> => open[e] = st.open[e]
  OBVIOUS
<1>6. ASSUME c # NEIGHBOUR PROVE Kept(open) = [Kept(st.open) EXCEPT ![<<c, x>>].count = @ + 1]
  BY <1>4, <1>6 DEF Kept
<1> HIDE DEF open
<1>7. CASE c # NEIGHBOUR
  <2>1. OpenedTwice(Part(st), c, x) = Reopened(Part(st), [Kept(st.open) EXCEPT ![<<c, x>>].count = @ + 1])
    <3>1. Shape(Part(st))
      BY PartShape
    <3>2. [Part(st) EXCEPT !.open = [Kept(st.open) EXCEPT ![<<c, x>>].count = @ + 1]]
              = Reopened(Part(st), [Kept(st.open) EXCEPT ![<<c, x>>].count = @ + 1])
      BY <3>1, ReopenedIs
    <3> QED  BY <1>3, <3>2 DEF OpenedTwice
  <2> QED  BY <1>1, <1>2, <1>6, <1>7, <2>1
<1>8. CASE c = NEIGHBOUR
  <2>1. Kept(open) = Kept(st.open)
    BY <1>4, <1>5, <1>8 DEF Kept
  <2>2. Reopened(Part(st), Kept(st.open)) = Part(st)
    BY DEF Reopened, Part, Store, Kept
  <2> QED  BY <1>1, <1>2, <1>8, <2>1, <2>2
<1> QED  BY <1>7, <1>8

\* The documents and links of a version are laid out like those of any document.
LEMMA VersionShape ==
    ASSUME NEW st, Shape(st), NEW x \in DOMAIN st.docs, NEW v
    PROVE  Shape(FEBE!WithVersion(st, x, v))
<1> DEFINE doc == st.docs[x]
           new == FEBE!VersionOf(doc)
           I == FEBE!ToSet(doc.text \o FEBE!LinksOf(doc))
<1>1. FEBE!WithVersion(st, x, v) = Changed(st, v, new, I)
  BY VersionIs
<1>2. \E text, links, chars, made : new = Orgl(text, links, chars, made)
  <2>1. \A text, links : /\ [FEBE!Blank EXCEPT !.links = links] = Orgl(<< >>, links, 0, 0)
                         /\ [FEBE!Blank EXCEPT !.text = text] = Orgl(text, FEBE!Nothing, 0, 0)
    BY DEF FEBE!Blank, Orgl
  <2>2. \/ \E links : new = [FEBE!Blank EXCEPT !.links = links]
        \/ \E text : new = [FEBE!Blank EXCEPT !.text = text]
    BY DEF FEBE!VersionOf
  <2> HIDE DEF new
  <2>3. CASE \E links : new = [FEBE!Blank EXCEPT !.links = links]
    <3>1. PICK links : new = [FEBE!Blank EXCEPT !.links = links]
      BY <2>3
    <3>2. new = Orgl(<< >>, links, 0, 0)
      BY <2>1, <3>1
    <3> QED  BY <3>2
  <2>4. CASE \E text : new = [FEBE!Blank EXCEPT !.text = text]
    <3>1. PICK text : new = [FEBE!Blank EXCEPT !.text = text]
      BY <2>4
    <3>2. new = Orgl(text, FEBE!Nothing, 0, 0)
      BY <2>1, <3>1
    <3> QED  BY <3>2
  <2> QED  BY <2>2, <2>3, <2>4
<1> HIDE DEF new, I
<1>3. PICK text, links, chars, made : new = Orgl(text, links, chars, made)
  BY <1>2
<1>4. Shape(Changed(st, v, Orgl(text, links, chars, made), I))
  BY ChangedShape
<1> QED  BY <1>1, <1>3, <1>4

LEMMA AgreeOpenDocument ==
    ASSUME NEW st, Shape(st), OnlyReads(st), DOMAIN st.docs \subseteq Address,
           NEW c, c # NEIGHBOUR, NEW a \in AccountName, a # NEIGHBOURS_ACCOUNT,
           NEW x \in DOMAIN Part(st).docs, Len(x) > 0,
           NEW type \in {READ_ONLY, READ_WRITE},
           NEW mode \in {CONFLICT_FAIL, CONFLICT_COPY, ALWAYS_COPY}
    PROVE  Agrees(FEBE!OpenDocument(Part(st), c, a, x, type, mode),
                  FEBE!OpenDocument(st, c, a, x, type, mode))
<1> DEFINE P == Part(st)
           state == FEBE!CheckForOpen(st, c, a, x, type)
           v == FEBE!VersionAddress(st, a, x)
           one == FEBE!OpenDocument(P, c, a, x, type, mode)
           two == FEBE!OpenDocument(st, c, a, x, type, mode)
<1>1. x \in DOMAIN st.docs /\ P.docs[x] = st.docs[x] /\ Ours(x) /\ Shape(P)
  BY PartDoc, PartShape
<1>2. FEBE!CheckForOpen(P, c, a, x, type) = state
  BY <1>1, PartChecks
<1>3. FEBE!VersionAddress(P, a, x) = v /\ Ours(v)
  BY PartAddresses DEF FEBE!VersionAddress
<1> HIDE DEF state, v
<1>4. two = IF mode # ALWAYS_COPY /\ state = 0 THEN FEBE!Given(FEBE!AddToOpen(st, c, x, type), x)
            ELSE IF mode # ALWAYS_COPY /\ state = READ_ONLY
            THEN FEBE!Given(OpenedTwice(st, c, x), x)
            ELSE IF mode = CONFLICT_FAIL THEN FEBE!Given(st, FEBE!Failed)
            ELSE FEBE!Given(FEBE!AddToOpen(FEBE!WithVersion(st, x, v), c, v, type), v)
  BY OpenDocumentIs DEF OpenedVersion, state, v
<1> HIDE DEF P
<1>5. one = IF mode # ALWAYS_COPY /\ state = 0 THEN FEBE!Given(FEBE!AddToOpen(P, c, x, type), x)
            ELSE IF mode # ALWAYS_COPY /\ state = READ_ONLY
            THEN FEBE!Given(OpenedTwice(P, c, x), x)
            ELSE IF mode = CONFLICT_FAIL THEN FEBE!Given(P, FEBE!Failed)
            ELSE FEBE!Given(FEBE!AddToOpen(FEBE!WithVersion(P, x, v), c, v, type), v)
  BY <1>2, <1>3, OpenDocumentIs DEF OpenedVersion
<1>6. Part(FEBE!AddToOpen(st, c, x, type)) = FEBE!AddToOpen(P, c, x, type)
  BY PartAddToOpen DEF P
<1>7. Part(OpenedTwice(st, c, x)) = OpenedTwice(P, c, x)
  BY PartOpenedTwice DEF P
<1>8. Part(FEBE!AddToOpen(FEBE!WithVersion(st, x, v), c, v, type))
          = FEBE!AddToOpen(FEBE!WithVersion(P, x, v), c, v, type)
  <2> DEFINE new == FEBE!WithVersion(st, x, v)
  <2>1. FEBE!WithVersion(P, x, v) = Part(new)
    BY <1>3, PartVersion DEF P
  <2>2. Shape(new)
    BY <1>1, VersionShape
  <2> HIDE DEF new
  <2>3. Part(FEBE!AddToOpen(new, c, v, type)) = FEBE!AddToOpen(Part(new), c, v, type)
    BY <2>2, PartAddToOpen
  <2> QED  BY <2>1, <2>3 DEF new
<1> HIDE DEF one, two
<1>9. \A store, reply : FEBE!Given(store, reply).store = store /\ FEBE!Given(store, reply).answer = reply
  BY DEF FEBE!Given
<1>10. Agrees(one, two)
  <2>1. CASE mode # ALWAYS_COPY /\ state = 0
    BY <1>4, <1>5, <1>6, <1>9, <2>1 DEF Agrees
  <2>2. CASE mode # ALWAYS_COPY /\ state = READ_ONLY
    <3>1. state # 0
      BY <2>2 DEF READ_ONLY
    <3> QED  BY <1>4, <1>5, <1>7, <1>9, <2>2, <3>1 DEF Agrees
  <2>3. CASE ~(mode # ALWAYS_COPY /\ (state = 0 \/ state = READ_ONLY)) /\ mode = CONFLICT_FAIL
    BY <1>4, <1>5, <1>9, <2>3 DEF Agrees, P
  <2>4. CASE ~(mode # ALWAYS_COPY /\ (state = 0 \/ state = READ_ONLY)) /\ mode # CONFLICT_FAIL
    BY <1>4, <1>5, <1>8, <1>9, <2>4 DEF Agrees
  <2> QED  BY <2>1, <2>2, <2>3, <2>4
<1> QED  BY <1>10 DEF one, two, P

ClosedOnce(st, c, x) == [st EXCEPT !.open[<<c, x>>].count = @ - 1]
Closed(st, c, x) == [st EXCEPT !.open = [e \in DOMAIN @ \ {<<c, x>>} |-> @[e]]]

LEMMA AgreeCloseDocument ==
    ASSUME NEW st, Shape(st), NEW c, c # NEIGHBOUR, NEW x
    PROVE  Agrees(FEBE!CloseDocument(Part(st), c, x), FEBE!CloseDocument(st, c, x))
<1> DEFINE P == Part(st)
           e0 == <<c, x>>
<1>1. Shape(P) /\ P.open = Kept(st.open)
  BY PartShape DEF Part, Store, Kept
<1>2. e0[1] = c
  OBVIOUS
<1> HIDE DEF P, e0
<1>3. /\ e0 \in DOMAIN P.open <=> e0 \in DOMAIN st.open
      /\ e0 \in DOMAIN st.open => P.open[e0] = st.open[e0]
  BY <1>1, <1>2 DEF Kept
<1>4. FEBE!Opened(P, c, x) = FEBE!Opened(st, c, x)
  BY <1>3 DEF FEBE!Opened, e0
<1>5. P.open[e0].count = st.open[e0].count \/ e0 \notin DOMAIN st.open
  BY <1>3
<1>6. Part(ClosedOnce(st, c, x)) = ClosedOnce(P, c, x)
  <2> DEFINE open == [st.open EXCEPT ![e0].count = @ - 1]
             kept == [P.open EXCEPT ![e0].count = @ - 1]
  <2>1. ClosedOnce(st, c, x) = Reopened(st, open)
    BY ReopenedIs DEF ClosedOnce, e0
  <2>2. ClosedOnce(P, c, x) = Reopened(P, kept)
    BY <1>1, ReopenedIs DEF ClosedOnce, e0
  <2>3. Kept(open) = kept
    BY <1>1, <1>2 DEF Kept
  <2> HIDE DEF open, kept
  <2> QED  BY <2>1, <2>2, <2>3, PartReopened DEF Kept, P
<1>7. Part(Closed(st, c, x)) = Closed(P, c, x)
  <2> DEFINE open == [e \in DOMAIN st.open \ {e0} |-> st.open[e]]
             kept == [e \in DOMAIN P.open \ {e0} |-> P.open[e]]
  <2>1. Closed(st, c, x) = Reopened(st, open)
    BY ReopenedIs DEF Closed, e0
  <2>2. Closed(P, c, x) = Reopened(P, kept)
    BY <1>1, ReopenedIs DEF Closed, e0
  <2>3. Kept(open) = kept
    BY <1>1, <1>2 DEF Kept
  <2> HIDE DEF open, kept
  <2> QED  BY <2>1, <2>2, <2>3, PartReopened DEF Kept, P
<1>8. \A s : FEBE!CloseDocument(s, c, x)
          = IF FEBE!Opened(s, c, x) = 0 THEN FEBE!Given(s, FEBE!Done)
            ELSE IF s.open[e0].count > 1 THEN FEBE!Given(ClosedOnce(s, c, x), FEBE!Done)
            ELSE FEBE!Given(Closed(s, c, x), FEBE!Done)
  BY DEF FEBE!CloseDocument, ClosedOnce, Closed, e0
<1>9. \A store, reply : FEBE!Given(store, reply).store = store /\ FEBE!Given(store, reply).answer = reply
  BY DEF FEBE!Given
<1> DEFINE one == FEBE!CloseDocument(P, c, x)
           two == FEBE!CloseDocument(st, c, x)
<1>10. /\ one = IF FEBE!Opened(st, c, x) = 0 THEN FEBE!Given(P, FEBE!Done)
                ELSE IF P.open[e0].count > 1 THEN FEBE!Given(ClosedOnce(P, c, x), FEBE!Done)
                ELSE FEBE!Given(Closed(P, c, x), FEBE!Done)
       /\ two = IF FEBE!Opened(st, c, x) = 0 THEN FEBE!Given(st, FEBE!Done)
                ELSE IF st.open[e0].count > 1 THEN FEBE!Given(ClosedOnce(st, c, x), FEBE!Done)
                ELSE FEBE!Given(Closed(st, c, x), FEBE!Done)
  BY <1>4, <1>8
<1> HIDE DEF one, two
<1>11. FEBE!Opened(st, c, x) # 0 => e0 \in DOMAIN st.open
  BY DEF FEBE!Opened, e0
<1>12. Part(st) = P
  BY DEF P
<1>13. Agrees(one, two)
  <2>1. CASE FEBE!Opened(st, c, x) = 0
    BY <1>9, <1>10, <1>12, <2>1 DEF Agrees
  <2>2. CASE FEBE!Opened(st, c, x) # 0 /\ st.open[e0].count > 1
    BY <1>5, <1>6, <1>9, <1>10, <1>11, <2>2 DEF Agrees
  <2>3. CASE FEBE!Opened(st, c, x) # 0 /\ ~(st.open[e0].count > 1)
    BY <1>5, <1>7, <1>9, <1>10, <1>11, <2>3 DEF Agrees
  <2> QED  BY <2>1, <2>2, <2>3
<1> QED  BY <1>13 DEF one, two, P

-----------------------------------------------------------------------------
(* The answers to those who only read.                                     *)

\* The index knows of documents and links that exist.
IndexedExist(st) ==
    /\ \A y \in st.spanf.docs : y[2] \in DOMAIN st.docs
    /\ \A y \in st.spanf.links : y.link \in DOMAIN st.ends

LEMMA AgreeFindLinks ==
    ASSUME NEW st, IndexedExist(st), NEW specs,
           \A e \in FEBE!Ends : IsSpans(specs[e], DOMAIN Part(st).docs)
    PROVE  FEBE!FindLinks(Part(st), specs) = FEBE!FindLinks(st, specs) \intersect DOMAIN Part(st).ends
<1> DEFINE P == Part(st)
           asked == {e \in FEBE!Ends : specs[e] # << >>}
           Hit(s, e) == {x.link : x \in FEBE!Touched(s, FEBE!Content(s, specs[e]), e)}
           Links(s) == IF asked = {} THEN {}
                       ELSE {l \in UNION {Hit(s, e) : e \in asked} : \A e \in asked : l \in Hit(s, e)}
<1>1. /\ P.spanf.links = {y \in st.spanf.links : Ours(y.link.home)}
      /\ DOMAIN P.ends = {k \in DOMAIN st.ends : Ours(k.home)}
  BY PartIs
<1>2. \A e \in FEBE!Ends : FEBE!Content(P, specs[e]) = FEBE!Content(st, specs[e])
  BY PartItems
<1> HIDE DEF P
<1>3. ASSUME NEW e \in FEBE!Ends
      PROVE  Hit(P, e) = Hit(st, e) \intersect DOMAIN P.ends
  <2> DEFINE items == FEBE!Content(st, specs[e])
  <2>1. FEBE!Touched(P, items, e) = {x \in FEBE!Touched(st, items, e) : Ours(x.link.home)}
    BY <1>1 DEF FEBE!Touched
  <2>2. \A x \in FEBE!Touched(st, items, e) : x.link \in DOMAIN st.ends
    BY DEF FEBE!Touched, IndexedExist
  <2>3. \A x \in FEBE!Touched(st, items, e) : Ours(x.link.home) <=> x.link \in DOMAIN P.ends
    BY <1>1, <2>2
  <2>4. /\ Hit(P, e) = {x.link : x \in FEBE!Touched(P, items, e)}
        /\ Hit(st, e) = {x.link : x \in FEBE!Touched(st, items, e)}
    BY <1>2
  <2> HIDE DEF items, Hit
  <2> QED  BY <2>1, <2>3, <2>4
<1>4. FEBE!FindLinks(P, specs) = Links(P) /\ FEBE!FindLinks(st, specs) = Links(st)
  BY DEF FEBE!FindLinks
<1> HIDE DEF Hit
<1>5. \A e \in asked : Hit(P, e) = Hit(st, e) \intersect DOMAIN P.ends
  BY <1>3
<1> HIDE DEF asked
<1>6. Links(P) = Links(st) \intersect DOMAIN P.ends
  <2>1. CASE asked = {}
    BY <2>1
  <2>2. CASE asked # {}
    <3>1. /\ Links(P) = {l \in UNION {Hit(P, e) : e \in asked} : \A e \in asked : l \in Hit(P, e)}
          /\ Links(st) = {l \in UNION {Hit(st, e) : e \in asked} : \A e \in asked : l \in Hit(st, e)}
      BY <2>2
    <3>2. \A l : l \in Links(P) <=> \A e \in asked : l \in Hit(P, e)
      BY <2>2, <3>1
    <3>3. \A l : l \in Links(st) <=> \A e \in asked : l \in Hit(st, e)
      BY <2>2, <3>1
    <3> HIDE DEF Links
    <3> QED  BY <1>5, <2>2, <3>2, <3>3
  <2> QED  BY <2>1, <2>2
<1> HIDE DEF Links
<1> QED  BY <1>4, <1>6 DEF P

LEMMA AgreePlaces ==
    ASSUME NEW st, NEW x \in DOMAIN Part(st).docs, NEW items
    PROVE  FEBE!PlacesOf(Part(st), x, items) = FEBE!PlacesOf(st, x, items)
<1>1. Part(st).docs[x] = st.docs[x]
  BY PartDoc
<1> QED  BY <1>1 DEF FEBE!PlacesOf

LEMMA AgreeFollowLink ==
    ASSUME NEW st, NEW link \in DOMAIN Part(st).ends, NEW e \in FEBE!Ends,
           st.ends[link][e] # << >> => Head(st.ends[link][e]).doc \in DOMAIN Part(st).docs
    PROVE  FEBE!FollowLink(Part(st), link, e) = FEBE!FollowLink(st, link, e)
<1> DEFINE P == Part(st)
           ends == st.ends[link][e]
           x == Head(ends).doc
           items == UNION {y.items : y \in FEBE!ToSet(ends)}
<1>1. link \in DOMAIN st.ends /\ P.ends[link] = st.ends[link]
  BY PartIs
<1>2. /\ FEBE!FollowLink(P, link, e)
             = IF link \notin DOMAIN P.ends \/ ends = << >> THEN FEBE!Failed
               ELSE FEBE!PlacesOf(P, x, items)
      /\ FEBE!FollowLink(st, link, e)
             = IF link \notin DOMAIN st.ends \/ ends = << >> THEN FEBE!Failed
               ELSE FEBE!PlacesOf(st, x, items)
  BY <1>1 DEF FEBE!FollowLink
<1>3. ends # << >> => FEBE!PlacesOf(P, x, items) = FEBE!PlacesOf(st, x, items)
  <2> SUFFICES ASSUME ends # << >> PROVE FEBE!PlacesOf(P, x, items) = FEBE!PlacesOf(st, x, items)
    OBVIOUS
  <2>1. x \in DOMAIN P.docs
    OBVIOUS
  <2> HIDE DEF x, items
  <2> QED  BY <2>1, AgreePlaces
<1> HIDE DEF x, items, ends
<1> QED  BY <1>1, <1>2, <1>3

LEMMA AgreeRetrieveEndsets ==
    ASSUME NEW st, NEW spec, IsSpans(spec, DOMAIN Part(st).docs),
           Head(spec).doc \in DOMAIN Part(st).docs, NEW e \in FEBE!Ends
    PROVE  LET alone == FEBE!RetrieveEndsets(Part(st), spec)
               shared == FEBE!RetrieveEndsets(st, spec)
           IN  \A k \in DOMAIN alone[e] : alone[e][k].at \subseteq shared[e][k].at
<1> DEFINE P == Part(st)
           x == Head(spec).doc
           shown == FEBE!Content(st, spec)
           one == UNION {y.sporgl.items : y \in FEBE!Touched(P, shown, e)}
           two == UNION {y.sporgl.items : y \in FEBE!Touched(st, shown, e)}
<1>1. P.docs[x] = st.docs[x]
  BY PartDoc
<1>2. FEBE!Content(P, spec) = shown
  BY PartItems
<1>3. /\ FEBE!RetrieveEndsets(P, spec)[e] = FEBE!PlacesOf(P, x, one)
      /\ FEBE!RetrieveEndsets(st, spec)[e] = FEBE!PlacesOf(st, x, two)
  BY <1>2 DEF FEBE!RetrieveEndsets
<1>4. one \subseteq two
  <2>1. P.spanf.links \subseteq st.spanf.links
    BY PartIs
  <2>2. FEBE!Touched(P, shown, e) \subseteq FEBE!Touched(st, shown, e)
    BY <2>1 DEF FEBE!Touched
  <2> QED  BY <2>2
<1> HIDE DEF P, x, one, two
<1> DEFINE alone == FEBE!PlacesOf(P, x, one)
           shared == FEBE!PlacesOf(st, x, two)
<1>5. /\ DOMAIN alone = 1..2
      /\ alone[1].at \subseteq shared[1].at
      /\ alone[2].at \subseteq shared[2].at
  BY <1>1, <1>4 DEF FEBE!PlacesOf
<1> HIDE DEF alone, shared
<1>6. \A k \in DOMAIN alone : alone[k].at \subseteq shared[k].at
  BY <1>5
<1> QED  BY <1>3, <1>6 DEF alone, shared, P

LEMMA AgreeFindDocuments ==
    ASSUME NEW st, IndexedExist(st), NEW spec, IsSpans(spec, DOMAIN Part(st).docs)
    PROVE  FEBE!FindDocuments(Part(st), spec)
               = FEBE!FindDocuments(st, spec) \intersect DOMAIN Part(st).docs
<1> DEFINE P == Part(st)
           shown == FEBE!Content(st, spec)
           one == {y \in P.spanf.docs : y[1] \in shown}
           two == {y \in st.spanf.docs : y[1] \in shown}
<1>1. /\ P.spanf.docs = {y \in st.spanf.docs : Ours(y[2])}
      /\ DOMAIN P.docs = {y \in DOMAIN st.docs : Ours(y)}
  BY PartIs
<1>2. FEBE!Content(P, spec) = shown
  BY PartItems
<1>3. FEBE!FindDocuments(P, spec) = {y[2] : y \in one} /\ FEBE!FindDocuments(st, spec) = {y[2] : y \in two}
  BY <1>2 DEF FEBE!FindDocuments
<1> HIDE DEF P, shown
<1>4. one = {y \in two : Ours(y[2])}
  BY <1>1
<1>5. \A y \in two : Ours(y[2]) <=> y[2] \in DOMAIN P.docs
  BY <1>1 DEF IndexedExist
<1> HIDE DEF one, two
<1>6. {y[2] : y \in one} = {y[2] : y \in two} \intersect DOMAIN P.docs
  BY <1>4, <1>5
<1> QED  BY <1>3, <1>6 DEF P

LEMMA AgreeReads ==
    ASSUME NEW st, OnlyReads(st), NEW c, c # NEIGHBOUR, NEW a
    PROVE  /\ \A spec : IsSpans(spec, DOMAIN Part(st).docs) =>
                 FEBE!RetrieveContents(Part(st), c, a, spec) = FEBE!RetrieveContents(st, c, a, spec)
           /\ \A x \in DOMAIN Part(st).docs :
                 FEBE!RetrieveVspanset(Part(st), c, a, x) = FEBE!RetrieveVspanset(st, c, a, x)
<1>1. ASSUME NEW spec, IsSpans(spec, DOMAIN Part(st).docs)
      PROVE  FEBE!RetrieveContents(Part(st), c, a, spec) = FEBE!RetrieveContents(st, c, a, spec)
  <2>1. FEBE!Readable(Part(st), c, a, spec) <=> FEBE!Readable(st, c, a, spec)
    BY <1>1, PartReadable
  <2>2. FEBE!Items(Part(st), spec) = FEBE!Items(st, spec)
    BY <1>1, PartItems
  <2> QED  BY <2>1, <2>2 DEF FEBE!RetrieveContents
<1>2. ASSUME NEW x \in DOMAIN Part(st).docs
      PROVE  FEBE!RetrieveVspanset(Part(st), c, a, x) = FEBE!RetrieveVspanset(st, c, a, x)
  <2>1. Part(st).docs[x] = st.docs[x] /\ Ours(x)
    BY PartDoc
  <2>2. FEBE!MayRead(Part(st), c, a, x) <=> FEBE!MayRead(st, c, a, x)
    BY <2>1, PartMay
  <2> QED  BY <2>1, <2>2 DEF FEBE!RetrieveVspanset
<1> QED  BY <1>1, <1>2

LEMMA AgreePositions ==
    ASSUME NEW st, NEW spec, IsSpans(spec, DOMAIN Part(st).docs)
    PROVE  /\ FEBE!Positions(Part(st), spec) = FEBE!Positions(st, spec)
           /\ \A pos \in FEBE!Positions(st, spec) : Part(st).docs[pos[1]] = st.docs[pos[1]]
<1> DEFINE P == Part(st)
           At1(s, k) == IF spec[k].part = "whole" THEN DOMAIN s.docs[spec[k].doc].text
                        ELSE IF spec[k].part = "text"
                        THEN spec[k].at \intersect DOMAIN s.docs[spec[k].doc].text ELSE {}
<1>1. \A s : FEBE!Positions(s, spec) = UNION {{<<spec[k].doc, p>> : p \in At1(s, k)} : k \in DOMAIN spec}
  BY DEF FEBE!Positions
<1>2. \A k \in DOMAIN spec : spec[k].part # "type" => P.docs[spec[k].doc] = st.docs[spec[k].doc]
  BY PartDoc DEF IsSpans
<1> HIDE DEF P
<1>3. \A k \in DOMAIN spec : At1(P, k) = At1(st, k)
  BY <1>2
<1>4. \A k \in DOMAIN spec : spec[k].part = "type" => At1(st, k) = {}
  OBVIOUS
<1> HIDE DEF At1
<1>5. FEBE!Positions(P, spec) = FEBE!Positions(st, spec)
  BY <1>1, <1>3
<1>6. ASSUME NEW pos \in FEBE!Positions(st, spec) PROVE P.docs[pos[1]] = st.docs[pos[1]]
  <2>1. PICK k \in DOMAIN spec : pos \in {<<spec[k].doc, p>> : p \in At1(st, k)}
    BY <1>1
  <2>2. pos[1] = spec[k].doc /\ spec[k].part # "type"
    BY <1>4, <2>1
  <2> QED  BY <1>2, <2>2
<1> QED  BY <1>5, <1>6 DEF P

LEMMA SeqOfItsOwn ==
    ASSUME NEW X, NEW s \in Seq(X)
    PROVE  s \in Seq(FEBE!ToSet(s))
<1>1. Len(s) \in Nat /\ s \in [1..Len(s) -> X]
  OBVIOUS
<1>2. \A i \in 1..Len(s) : s[i] \in FEBE!ToSet(s)
  BY <1>1 DEF FEBE!ToSet
<1>3. s \in [1..Len(s) -> FEBE!ToSet(s)]
  BY <1>1, <1>2
<1> QED  BY <1>1, <1>3

LEMMA SpansJoined ==
    ASSUME NEW D, NEW s1, NEW s2, IsSpans(s1, D), IsSpans(s2, D)
    PROVE  IsSpans(s1 \o s2, D)
<1> DEFINE X == FEBE!ToSet(s1) \union FEBE!ToSet(s2)
<1>1. s1 \in Seq(X) /\ s2 \in Seq(X)
  BY SeqGrows DEF IsSpans
<1> HIDE DEF X
<1>2. s1 \o s2 \in Seq(X)
  BY <1>1
<1>3. s1 \o s2 \in Seq(FEBE!ToSet(s1 \o s2))
  BY <1>2, SeqOfItsOwn
<1>4. ASSUME NEW k \in DOMAIN (s1 \o s2)
      PROVE  \/ \E j \in DOMAIN s1 : (s1 \o s2)[k] = s1[j]
             \/ \E j \in DOMAIN s2 : (s1 \o s2)[k] = s2[j]
  <2>1. k \in 1..(Len(s1) + Len(s2)) /\ Len(s1) \in Nat /\ Len(s2) \in Nat
    BY <1>1
  <2>2. CASE k <= Len(s1)
    BY <1>1, <2>1, <2>2
  <2>3. CASE k > Len(s1)
    <3>1. k - Len(s1) \in DOMAIN s2 /\ (s1 \o s2)[k] = s2[k - Len(s1)]
      BY <1>1, <2>1, <2>3
    <3> QED  BY <3>1
  <2> QED  BY <2>1, <2>2, <2>3
<1> QED  BY <1>3, <1>4 DEF IsSpans

LEMMA AgreeCompareVersions ==
    ASSUME NEW st, OnlyReads(st), NEW c, c # NEIGHBOUR, NEW a,
           NEW s1, NEW s2, IsSpans(s1, DOMAIN Part(st).docs), IsSpans(s2, DOMAIN Part(st).docs)
    PROVE  FEBE!CompareVersions(Part(st), c, a, s1, s2) = FEBE!CompareVersions(st, c, a, s1, s2)
<1> DEFINE P == Part(st)
           Same(s, pair) == LET x == s.docs[pair[1][1]].text[pair[1][2]]
                            IN  x.kind = "char" /\ x = s.docs[pair[2][1]].text[pair[2][2]]
           pairs == FEBE!Positions(st, s1) \X FEBE!Positions(st, s2)
<1>1. FEBE!Readable(P, c, a, s1 \o s2) <=> FEBE!Readable(st, c, a, s1 \o s2)
  <2>1. IsSpans(s1 \o s2, DOMAIN Part(st).docs)
    BY SpansJoined
  <2> QED  BY <2>1, PartReadable
<1>2. FEBE!Positions(P, s1) = FEBE!Positions(st, s1) /\ FEBE!Positions(P, s2) = FEBE!Positions(st, s2)
  BY AgreePositions
<1>3. \A pair \in pairs : P.docs[pair[1][1]] = st.docs[pair[1][1]] /\ P.docs[pair[2][1]] = st.docs[pair[2][1]]
  <2>1. ASSUME NEW pair \in pairs
        PROVE  pair[1] \in FEBE!Positions(st, s1) /\ pair[2] \in FEBE!Positions(st, s2)
    OBVIOUS
  <2> QED  BY <2>1, AgreePositions
<1>4. /\ FEBE!CompareVersions(P, c, a, s1, s2)
             = IF ~FEBE!Readable(P, c, a, s1 \o s2) THEN FEBE!Failed
               ELSE {pair \in FEBE!Positions(P, s1) \X FEBE!Positions(P, s2) : Same(P, pair)}
      /\ FEBE!CompareVersions(st, c, a, s1, s2)
             = IF ~FEBE!Readable(st, c, a, s1 \o s2) THEN FEBE!Failed
               ELSE {pair \in pairs : Same(st, pair)}
  BY DEF FEBE!CompareVersions
<1> HIDE DEF P
<1>5. \A pair \in pairs : Same(P, pair) <=> Same(st, pair)
  BY <1>3
<1> HIDE DEF Same
<1>6. {pair \in pairs : Same(P, pair)} = {pair \in pairs : Same(st, pair)}
  BY <1>5
<1> DEFINE A == {pair \in FEBE!Positions(P, s1) \X FEBE!Positions(P, s2) : Same(P, pair)}
           B == {pair \in pairs : Same(st, pair)}
<1>7. A = B
  BY <1>2, <1>6
<1>8. /\ FEBE!CompareVersions(P, c, a, s1, s2)
             = IF ~FEBE!Readable(P, c, a, s1 \o s2) THEN FEBE!Failed ELSE A
      /\ FEBE!CompareVersions(st, c, a, s1, s2)
             = IF ~FEBE!Readable(st, c, a, s1 \o s2) THEN FEBE!Failed ELSE B
  BY <1>4
<1> HIDE DEF A, B
<1>9. FEBE!CompareVersions(P, c, a, s1, s2) = FEBE!CompareVersions(st, c, a, s1, s2)
  BY <1>1, <1>7, <1>8
<1> QED  BY <1>9 DEF P

-----------------------------------------------------------------------------
(* Addresses are given out in order, and never twice.                      *)

Numbered(D) ==
    /\ IsFiniteSet(D)
    /\ \A x \in D : \E p \in Address, n \in Nat \ {0} :
          p # << >> /\ x = Append(p, n) /\ \A i \in 1..n : Append(p, i) \in D

LEMMA AppendIs ==
    ASSUME NEW p \in Address, NEW n \in AccountName \union Nat
    PROVE  /\ Append(p, n) \in Address /\ Len(Append(p, n)) = Len(p) + 1
           /\ Append(p, n)[Len(p) + 1] = n
           /\ SubSeq(Append(p, n), 1, Len(p)) = p
<1>1. /\ Append(p, n) \in Address /\ Len(Append(p, n)) = Len(p) + 1 /\ Len(p) \in Nat
      /\ Append(p, n)[Len(p) + 1] = n
      /\ \A i \in 1..Len(p) : Append(p, n)[i] = p[i]
  BY DEF Address
<1> DEFINE q == Append(p, n)
           r == SubSeq(q, 1, Len(p))
<1>2. r \in Address /\ Len(r) = Len(p) /\ \A i \in 1..Len(p) : r[i] = q[i]
  <2> HIDE DEF q
  <2> QED  BY <1>1 DEF Address, q
<1> HIDE DEF q, r
<1>3. r = p
  <2>1. \A i \in 1..Len(p) : r[i] = p[i]
    BY <1>1, <1>2 DEF q
  <2> QED  BY <1>2, <2>1 DEF Address
<1> QED  BY <1>1, <1>3 DEF q, r

LEMMA NumberedAre ==
    ASSUME NEW D, Numbered(D)
    PROVE  D \subseteq Address /\ \A x \in D : Len(x) > 1
<1>1. ASSUME NEW x \in D PROVE x \in Address /\ Len(x) > 1
  <2>1. PICK p \in Address, n \in Nat \ {0} : p # << >> /\ x = Append(p, n)
    BY DEF Numbered
  <2>2. Len(p) > 0 /\ Len(p) \in Nat
    BY <2>1 DEF Address
  <2>3. x \in Address /\ Len(x) = Len(p) + 1
    BY <2>1, AppendIs
  <2> QED  BY <2>2, <2>3
<1> QED  BY <1>1

\* The next sibling is new, and the addresses stay without gaps.
LEMMA NextIsNew ==
    ASSUME NEW D, Numbered(D), NEW p \in Address, p # << >>
    PROVE  LET x == Append(p, 1 + Cardinality(Siblings(D, p)))
           IN  x \notin D /\ Numbered(D \union {x})
<1> DEFINE S == Siblings(D, p)
           c == Cardinality(S)
           x == Append(p, 1 + c)
<1>1. IsFiniteSet(S) /\ c \in Nat
  <2>1. S \in SUBSET D /\ IsFiniteSet(D)
    BY DEF Siblings, Numbered
  <2>2. IsFiniteSet(S)
    BY <2>1, FS_Subset
  <2> QED  BY <2>2, FS_CardinalityType
<1> HIDE DEF c
\* The siblings are the numbers from 1 to the last of them.
<1>2. ASSUME NEW n \in Nat, Append(p, n) \in D
      PROVE  n # 0 /\ Append(p, n) \in S /\ \A i \in 1..n : Append(p, i) \in S
  <2>1. PICK q \in Address, m \in Nat \ {0} :
            Append(p, n) = Append(q, m) /\ \A i \in 1..m : Append(q, i) \in D
    BY <1>2 DEF Numbered
  <2>2. n \in AccountName \union Nat /\ m \in AccountName \union Nat
    OBVIOUS
  <2>3. /\ Len(Append(p, n)) = Len(p) + 1 /\ Append(p, n)[Len(p) + 1] = n
        /\ SubSeq(Append(p, n), 1, Len(p)) = p
    BY <2>2, AppendIs
  <2>4. /\ Len(Append(q, m)) = Len(q) + 1 /\ Append(q, m)[Len(q) + 1] = m
        /\ SubSeq(Append(q, m), 1, Len(q)) = q
    BY <2>2, AppendIs
  <2>5. Len(p) = Len(q)
    <3>1. Len(p) \in Nat /\ Len(q) \in Nat
      BY DEF Address
    <3>2. Len(p) + 1 = Len(q) + 1
      BY <2>1, <2>3, <2>4
    <3> QED  BY <3>1, <3>2
  <2>6. p = q /\ n = m
    BY <2>1, <2>3, <2>4, <2>5
  <2>7. ASSUME NEW i \in 1..n PROVE Append(p, i) \in S
    <3>1. i \in AccountName \union Nat /\ Append(p, i) \in D
      BY <2>1, <2>6, <2>7
    <3>2. Len(Append(p, i)) = Len(p) + 1 /\ SubSeq(Append(p, i), 1, Len(p)) = p
      BY <3>1, AppendIs
    <3> QED  BY <3>1, <3>2 DEF Siblings
  <2>8. Append(p, n) \in S
    BY <1>2, <2>3 DEF Siblings
  <2> QED  BY <2>6, <2>7, <2>8
<1>3. \A y \in S : \E n \in Nat \ {0} : y = Append(p, n)
  <2> SUFFICES ASSUME NEW y \in S PROVE \E n \in Nat \ {0} : y = Append(p, n)
    OBVIOUS
  <2>1. y \in D /\ Len(y) = Len(p) + 1 /\ SubSeq(y, 1, Len(p)) = p
    BY DEF Siblings
  <2>2. PICK q \in Address, m \in Nat \ {0} : y = Append(q, m)
    BY <2>1 DEF Numbered
  <2>3. m \in AccountName \union Nat
    OBVIOUS
  <2>4. Len(y) = Len(q) + 1 /\ SubSeq(y, 1, Len(q)) = q
    BY <2>2, <2>3, AppendIs
  <2>5. Len(p) = Len(q)
    <3>1. Len(p) \in Nat /\ Len(q) \in Nat
      BY DEF Address
    <3>2. Len(p) + 1 = Len(q) + 1
      BY <2>1, <2>4
    <3> QED  BY <3>1, <3>2
  <2>6. p = q
    BY <2>1, <2>4, <2>5
  <2> QED  BY <2>2, <2>6
<1> HIDE DEF S
<1> DEFINE number == [y \in S |-> y[Len(p) + 1]]
<1>4. \A y \in S : number[y] \in Nat \ {0} /\ y = Append(p, number[y])
  <2> SUFFICES ASSUME NEW y \in S PROVE number[y] \in Nat \ {0} /\ y = Append(p, number[y])
    OBVIOUS
  <2>1. PICK n \in Nat \ {0} : y = Append(p, n)
    BY <1>3
  <2>2. n \in AccountName \union Nat
    OBVIOUS
  <2>3. y[Len(p) + 1] = n
    BY <2>1, <2>2, AppendIs
  <2> QED  BY <2>1, <2>3
<1>5. ASSUME NEW m \in Nat, \A i \in 1..m : Append(p, i) \in S
      PROVE  m <= c
  <2> DEFINE f == [i \in 1..m |-> Append(p, i)]
  <2>1. f \in Injection(1..m, S)
    <3>1. f \in [1..m -> S]
      BY <1>5
    <3>2. ASSUME NEW i \in 1..m, NEW j \in 1..m, f[i] = f[j] PROVE i = j
      <4>1. Append(p, i) = Append(p, j) /\ i \in AccountName \union Nat /\ j \in AccountName \union Nat
        BY <3>2
      <4>2. Append(p, i)[Len(p) + 1] = i /\ Append(p, j)[Len(p) + 1] = j
        BY <4>1, AppendIs
      <4> QED  BY <4>1, <4>2
    <3> QED  BY <3>1, <3>2 DEF Injection, IsInjective
  <2> HIDE DEF f
  <2>2. Cardinality(1..m) <= Cardinality(S)
    BY <1>1, <2>1, FS_Injection
  <2>3. Cardinality(1..m) = m
    BY FS_Interval
  <2> QED  BY <2>2, <2>3 DEF c
<1>6. x \notin D
  <2> SUFFICES ASSUME x \in D PROVE FALSE
    OBVIOUS
  <2>1. 1 + c \in Nat
    BY <1>1
  <2>2. \A i \in 1..(1 + c) : Append(p, i) \in S
    BY <1>2, <2>1
  <2>3. 1 + c <= c
    BY <1>5, <2>1, <2>2
  <2> QED  BY <1>1, <2>3
<1>7. \A i \in 1..c : Append(p, i) \in D
  <2> SUFFICES ASSUME NEW i \in 1..c, Append(p, i) \notin D PROVE FALSE
    OBVIOUS
  <2>1. i \in Nat /\ i <= c /\ i - 1 \in Nat /\ i > 0
    OBVIOUS
  <2>2. \A y \in S : number[y] \in 1..(i - 1)
    <3> SUFFICES ASSUME NEW y \in S PROVE number[y] \in 1..(i - 1)
      OBVIOUS
    <3>1. number[y] \in Nat \ {0} /\ y = Append(p, number[y]) /\ y \in D
      BY <1>4 DEF S, Siblings
    <3> HIDE DEF number
    <3>2. \A k \in 1..number[y] : Append(p, k) \in S
      BY <1>2, <3>1
    <3>3. ~(i <= number[y])
      <4>1. S \subseteq D
        BY DEF S, Siblings
      <4> QED  BY <2>1, <3>1, <3>2, <4>1
    <3> QED  BY <2>1, <3>1, <3>3
  <2>3. number \in Injection(S, 1..(i - 1))
    <3>1. number \in [S -> 1..(i - 1)]
      BY <2>2
    <3>2. \A y, z \in S : number[y] = number[z] => y = z
      BY <1>4
    <3> HIDE DEF number
    <3> QED  BY <3>1, <3>2 DEF Injection, IsInjective
  <2> HIDE DEF number
  <2>4. IsFiniteSet(1..(i - 1)) /\ Cardinality(1..(i - 1)) = i - 1
    BY <2>1, FS_Interval
  <2>5. Cardinality(S) <= i - 1
    BY <2>3, <2>4, FS_Injection
  <2>6. c <= i - 1
    BY <2>5 DEF c
  <2> QED  BY <1>1, <2>1, <2>6
<1>8. Numbered(D \union {x})
  <2>1. IsFiniteSet(D \union {x})
    BY FS_AddElement DEF Numbered
  <2>2. 1 + c \in Nat \ {0}
    BY <1>1
  <2>3. ASSUME NEW i \in 1..(1 + c) PROVE Append(p, i) \in D \union {x}
    <3>1. i \in 1..c \/ i = 1 + c
      BY <1>1
    <3> QED  BY <1>7, <3>1
  <2> DEFINE From(y, q, n, E) ==
                 q # << >> /\ y = Append(q, n) /\ \A i \in 1..n : Append(q, i) \in E
  <2>4. From(x, p, 1 + c, D \union {x})
    BY <2>3
  <2>5. ASSUME NEW y \in D
        PROVE  \E q \in Address, n \in Nat \ {0} : From(y, q, n, D \union {x})
    <3>1. PICK q \in Address, n \in Nat \ {0} : From(y, q, n, D)
      BY DEF Numbered
    <3>2. From(y, q, n, D \union {x})
      BY <3>1
    <3> QED  BY <3>2
  <2> HIDE DEF x
  <2>6. \A y \in D \union {x} : \E q \in Address, n \in Nat \ {0} : From(y, q, n, D \union {x})
    BY <2>2, <2>4, <2>5
  <2> QED  BY <2>1, <2>6 DEF Numbered
<1> QED  BY <1>6, <1>8 DEF S, c, x

-----------------------------------------------------------------------------
(* A store in order: the index has every place at which a document shows   *)
(* something, and just what the endsets have; no link has the address of   *)
(* another.                                                                *)

ShownIn(st, x) == {y[1] : y \in {z \in st.spanf.docs : z[2] = x}}

IsLinks(links, X) == links \in [DOMAIN links -> X] /\ \E n \in Nat : DOMAIN links \subseteq 1..n

IsOrgl(doc, X) == doc.text \in Seq(X) /\ IsLinks(doc.links, X) /\ doc.made \in Nat

IndexRight(st) ==
    /\ \A x \in DOMAIN st.docs : IsOrgl(st.docs[x], ShownIn(st, x))
    /\ \A y \in st.spanf.docs : y[2] \in DOMAIN st.docs
    /\ st.spanf.links = UNION {Entries(l, st.ends[l]) : l \in DOMAIN st.ends}

LinksNumbered(st) ==
    \A l \in DOMAIN st.ends :
        l.home \in DOMAIN st.docs /\ l.n \in Nat /\ l.n <= st.docs[l.home].made

\* The end of a link of the scenario's is in a document of the scenario's.
EndsKnown(st) ==
    \A l \in DOMAIN st.ends, e \in FEBE!Ends :
        Ours(l.home) /\ st.ends[l][e] # << >> =>
            Head(st.ends[l][e]).doc \in {y \in DOMAIN st.docs : Ours(y)}

\* K are documents that are there.
Sound(st, K) ==
    /\ Shape(st) /\ Numbered(DOMAIN st.docs) /\ K \subseteq DOMAIN st.docs
    /\ IndexRight(st) /\ LinksNumbered(st) /\ EndsKnown(st) /\ OnlyReads(st)

LEMMA LinksGrow ==
    ASSUME NEW X, NEW Y, X \subseteq Y, NEW links, IsLinks(links, X)
    PROVE  IsLinks(links, Y)
BY DEF IsLinks

LEMMA SoundChanged ==
    ASSUME NEW st, NEW K, Sound(st, K), NEW x, NEW text, NEW links, NEW chars, NEW made \in Nat, NEW I,
           Numbered(DOMAIN st.docs \union {x}),
           text \in Seq(I \union ShownIn(st, x)), IsLinks(links, I \union ShownIn(st, x)),
           x \in DOMAIN st.docs => st.docs[x].made <= made
    PROVE  Sound(Changed(st, x, Orgl(text, links, chars, made), I), K \union {x})
<1> DEFINE doc == Orgl(text, links, chars, made)
           new == Changed(st, x, doc, I)
<1>1. Shape(new)
  BY ChangedShape DEF Sound
<1>2. doc.text = text /\ doc.links = links /\ doc.made = made
  BY DEF Orgl
<1> HIDE DEF doc
<1>3. /\ DOMAIN new.docs = DOMAIN st.docs \union {x}
      /\ new.docs[x] = doc
      /\ \A y \in DOMAIN st.docs : y # x => new.docs[y] = st.docs[y]
      /\ new.ends = st.ends /\ new.open = st.open
      /\ new.spanf.docs = st.spanf.docs \union {<<y, x>> : y \in I}
      /\ new.spanf.links = st.spanf.links
  <2>1. /\ new.docs = FEBE!With(st.docs, x, doc)
        /\ new.ends = st.ends /\ new.open = st.open
        /\ new.spanf.docs = st.spanf.docs \union {<<y, x>> : y \in I}
        /\ new.spanf.links = st.spanf.links
    BY DEF Changed, Store
  <2> HIDE DEF new
  <2> QED  BY <2>1 DEF FEBE!With
<1> HIDE DEF new
<1>4. ShownIn(new, x) = I \union ShownIn(st, x)
  <2>1. {z \in new.spanf.docs : z[2] = x} = {z \in st.spanf.docs : z[2] = x} \union {<<y, x>> : y \in I}
    BY <1>3
  <2>2. \A z \in I : <<z, x>>[1] = z
    OBVIOUS
  <2>3. {y[1] : y \in {<<z, x>> : z \in I}} = I
    BY <2>2, Zenon
  <2> QED  BY <2>1, <2>3 DEF ShownIn
<1>5. ASSUME NEW y \in DOMAIN st.docs, y # x PROVE ShownIn(new, y) = ShownIn(st, y)
  <2>1. {z \in new.spanf.docs : z[2] = y} = {z \in st.spanf.docs : z[2] = y}
    BY <1>3, <1>5
  <2> QED  BY <2>1 DEF ShownIn
<1>6. IndexRight(new)
  <2>1. ASSUME NEW y \in DOMAIN new.docs PROVE IsOrgl(new.docs[y], ShownIn(new, y))
    <3>1. CASE y = x
      BY <1>2, <1>3, <1>4, <3>1 DEF IsOrgl
    <3>2. CASE y # x
      BY <1>3, <1>5, <3>2 DEF Sound, IndexRight
    <3> QED  BY <3>1, <3>2
  <2>2. \A y \in new.spanf.docs : y[2] \in DOMAIN new.docs
    BY <1>3 DEF Sound, IndexRight
  <2>3. new.spanf.links = UNION {Entries(l, new.ends[l]) : l \in DOMAIN new.ends}
    BY <1>3 DEF Sound, IndexRight
  <2> QED  BY <2>1, <2>2, <2>3 DEF IndexRight
<1>7. LinksNumbered(new)
  <2> SUFFICES ASSUME NEW l \in DOMAIN st.ends
               PROVE  l.home \in DOMAIN new.docs /\ l.n \in Nat /\ l.n <= new.docs[l.home].made
    BY <1>3 DEF LinksNumbered
  <2>1. l.home \in DOMAIN st.docs /\ l.n \in Nat /\ l.n <= st.docs[l.home].made
    BY DEF Sound, LinksNumbered
  <2>2. CASE l.home = x
    <3>1. st.docs[x].made \in Nat /\ st.docs[x].made <= made
      BY <2>1, <2>2 DEF Sound, IndexRight, IsOrgl
    <3>2. l.n <= made
      BY <2>1, <2>2, <3>1
    <3> QED  BY <1>2, <1>3, <2>1, <2>2, <3>2
  <2>3. CASE l.home # x
    BY <1>3, <2>1, <2>3
  <2> QED  BY <2>2, <2>3
<1>8. EndsKnown(new)
  BY <1>3 DEF Sound, EndsKnown
<1>9. OnlyReads(new)
  BY <1>3 DEF Sound, OnlyReads
<1>10. Numbered(DOMAIN new.docs) /\ K \union {x} \subseteq DOMAIN new.docs
  BY <1>3 DEF Sound
<1>11. Sound(new, K \union {x})
  BY <1>1, <1>6, <1>7, <1>8, <1>9, <1>10 DEF Sound
<1> QED  BY <1>11 DEF new, doc

LEMMA SoundLinked ==
    ASSUME NEW st, NEW K, Sound(st, K), NEW link, NEW sporgls, link \notin DOMAIN st.ends,
           link.home \in DOMAIN st.docs, link.n \in Nat, link.n <= st.docs[link.home].made,
           \A e \in FEBE!Ends :
               Ours(link.home) /\ sporgls[e] # << >> =>
                   Head(sporgls[e]).doc \in {y \in DOMAIN st.docs : Ours(y)}
    PROVE  Sound(Linked(st, link, sporgls), K)
<1> DEFINE new == Linked(st, link, sporgls)
           E == Entries(link, sporgls)
<1>1. /\ new.ends = FEBE!With(st.ends, link, sporgls) /\ new.docs = st.docs /\ new.open = st.open
      /\ new.spanf.links = st.spanf.links \union E
      /\ new.spanf.docs = st.spanf.docs
      /\ new = Store(new.docs, new.ends, new.spanf.docs, new.spanf.links, new.open)
  BY DEF Linked, Store
<1> HIDE DEF new
<1>2. /\ DOMAIN new.ends = DOMAIN st.ends \union {link} /\ new.ends[link] = sporgls
      /\ \A l \in DOMAIN st.ends : new.ends[l] = st.ends[l]
  BY <1>1 DEF FEBE!With
<1>3. Shape(new)
  BY <1>1 DEF Sound, Shape
<1>4. IndexRight(new)
  <2>1. \A x \in DOMAIN new.docs : ShownIn(new, x) = ShownIn(st, x)
    BY <1>1 DEF ShownIn
  <2>2. \A l \in DOMAIN st.ends : Entries(l, new.ends[l]) = Entries(l, st.ends[l])
    BY <1>2
  <2>3. Entries(link, new.ends[link]) = E
    BY <1>2
  <2> HIDE DEF E
  <2>4. UNION {Entries(l, new.ends[l]) : l \in DOMAIN new.ends}
            = (UNION {Entries(l, st.ends[l]) : l \in DOMAIN st.ends}) \union E
    BY <1>2, <2>2, <2>3
  <2>5. new.spanf.links = UNION {Entries(l, new.ends[l]) : l \in DOMAIN new.ends}
    BY <1>1, <2>4 DEF Sound, IndexRight
  <2> QED  BY <1>1, <2>1, <2>5 DEF Sound, IndexRight
<1>5. LinksNumbered(new)
  BY <1>1, <1>2 DEF Sound, LinksNumbered
<1>6. EndsKnown(new)
  BY <1>1, <1>2 DEF Sound, EndsKnown
<1>7. OnlyReads(new)
  BY <1>1 DEF Sound, OnlyReads
<1> QED  BY <1>1, <1>3, <1>4, <1>5, <1>6, <1>7 DEF Sound, new

LEMMA SoundReopened ==
    ASSUME NEW st, NEW K, Sound(st, K), NEW open, OnlyReads(Reopened(st, open))
    PROVE  Sound(Reopened(st, open), K)
<1> DEFINE new == Reopened(st, open)
<1>1. /\ new.ends = st.ends /\ new.docs = st.docs /\ new.open = open
      /\ new.spanf.links = st.spanf.links
      /\ new.spanf.docs = st.spanf.docs
      /\ new = Store(new.docs, new.ends, new.spanf.docs, new.spanf.links, new.open)
  BY DEF Reopened, Store
<1> HIDE DEF new
<1>2. \A x : ShownIn(new, x) = ShownIn(st, x)
  BY <1>1 DEF ShownIn
<1>3. Shape(new)
  BY <1>1 DEF Sound, Shape
<1>4. IndexRight(new) /\ LinksNumbered(new) /\ EndsKnown(new)
  BY <1>1, <1>2 DEF Sound, IndexRight, LinksNumbered, EndsKnown
<1> QED  BY <1>1, <1>3, <1>4 DEF Sound, new

-----------------------------------------------------------------------------
(* What a specification denotes is a sequence of what documents show.      *)

LEMMA ElementIs ==
    ASSUME NEW X, NEW s \in Seq(X), NEW k \in 1..Len(s)
    PROVE  s[k] \in X
OBVIOUS

LEMMA PutTyped ==
    ASSUME NEW X, NEW text \in Seq(X), NEW items \in Seq(X), NEW p \in 1..(Len(text) + 1)
    PROVE  FEBE!Put(text, p, items) \in Seq(X)
<1>1. SubSeq(text, 1, p - 1) \in Seq(X)
  OBVIOUS
<1>2. SubSeq(text, p, Len(text)) \in Seq(X)
  OBVIOUS
<1> QED  BY <1>1, <1>2 DEF FEBE!Put

LEMMA CutTyped ==
    ASSUME NEW X, NEW text \in Seq(X), NEW p \in 1..(Len(text) + 1), NEW n \in Nat
    PROVE  SubSeq(text, 1, p - 1) \o SubSeq(text, p + n, Len(text)) \in Seq(X)
<1>1. SubSeq(text, 1, p - 1) \in Seq(X)
  OBVIOUS
<1>2. SubSeq(text, p + n, Len(text)) \in Seq(X)
  OBVIOUS
<1> QED  BY <1>1, <1>2

LEMMA RearrangedTyped ==
    ASSUME NEW X, NEW text \in Seq(X), NEW cut \in Seq(1..(Len(text) + 1)), Len(cut) = 4,
           \A k \in 1..3 : cut[k] <= cut[k + 1]
    PROVE  FEBE!Rearranged(text, cut[1], cut[2], cut[Len(cut) - 1], cut[Len(cut)]) \in Seq(X)
<1> DEFINE c1 == cut[1]
           c2 == cut[2]
           c3 == cut[3]
           c4 == cut[4]
<1>1. /\ c1 \in 1..(Len(text) + 1) /\ c2 \in 1..(Len(text) + 1)
      /\ c3 \in 1..(Len(text) + 1) /\ c4 \in 1..(Len(text) + 1)
      /\ c1 <= c2 /\ c2 <= c3 /\ c3 <= c4
  <2>1. \A k \in 1..4 : cut[k] \in 1..(Len(text) + 1)
    <3> SUFFICES ASSUME NEW k \in 1..4 PROVE cut[k] \in 1..(Len(text) + 1)
      OBVIOUS
    <3>1. k \in 1..Len(cut)
      OBVIOUS
    <3> QED  BY <3>1, ElementIs
  <2>2. cut[1] <= cut[1 + 1] /\ cut[2] <= cut[2 + 1] /\ cut[3] <= cut[3 + 1]
    OBVIOUS
  <2>3. 1 + 1 = 2 /\ 2 + 1 = 3 /\ 3 + 1 = 4
    OBVIOUS
  <2>4. c1 <= c2 /\ c2 <= c3 /\ c3 <= c4
    BY <2>2, <2>3
  <2> QED  BY <2>1, <2>4
<1>2. cut[Len(cut) - 1] = c3 /\ cut[Len(cut)] = c4
  OBVIOUS
<1> HIDE DEF c1, c2, c3, c4
<1>3. Len(text) \in Nat
  OBVIOUS
<1>4. \A i, j \in 1..(Len(text) + 1) : SubSeq(text, i, j - 1) \in Seq(X)
  BY <1>3
<1>5. SubSeq(text, 1, c1 - 1) \in Seq(X) /\ SubSeq(text, c3, c4 - 1) \in Seq(X)
  BY <1>1, <1>3, <1>4
<1>6. SubSeq(text, c2, c3 - 1) \in Seq(X) /\ SubSeq(text, c1, c2 - 1) \in Seq(X)
  BY <1>1, <1>4
<1>7. SubSeq(text, c4, Len(text)) \in Seq(X)
  BY <1>1, <1>3
<1>8. FEBE!Rearranged(text, c1, c2, c3, c4) \in Seq(X)
  <2>1. \A s, t \in Seq(X) : s \o t \in Seq(X)
    OBVIOUS
  <2> DEFINE s1 == SubSeq(text, 1, c1 - 1)
             s2 == SubSeq(text, c3, c4 - 1)
             s3 == SubSeq(text, c2, c3 - 1)
             s4 == SubSeq(text, c1, c2 - 1)
             s5 == SubSeq(text, c4, Len(text))
  <2>2. FEBE!Rearranged(text, c1, c2, c3, c4) = (((s1 \o s2) \o s3) \o s4) \o s5
    BY DEF FEBE!Rearranged
  <2> HIDE DEF s1, s2, s3, s4, s5
  <2>3. /\ s1 \in Seq(X) /\ s2 \in Seq(X) /\ s3 \in Seq(X) /\ s4 \in Seq(X) /\ s5 \in Seq(X)
    BY <1>5, <1>6, <1>7 DEF s1, s2, s3, s4, s5
  <2>4. (s1 \o s2) \o s3 \in Seq(X)
    BY <2>1, <2>3
  <2>5. (((s1 \o s2) \o s3) \o s4) \o s5 \in Seq(X)
    BY <2>1, <2>3, <2>4
  <2> QED  BY <2>2, <2>5
<1> QED  BY <1>2, <1>8 DEF c1, c2

\* What stands at the places of a list.
Standings(f, at) == [k \in DOMAIN at |-> f[at[k]]]
Into(f, X) == f \in [DOMAIN f -> X]
Values(f, S) == {f[k] : k \in S}

LEMMA Picked ==
    ASSUME NEW X, NEW f, Into(f, X), NEW S, S \subseteq DOMAIN f, NEW at, Lists(at, S)
    PROVE  /\ Standings(f, at) \in Seq(X) /\ Len(Standings(f, at)) = Len(at)
           /\ FEBE!ToSet(Standings(f, at)) = Values(f, S)
<1> DEFINE s == [k \in DOMAIN at |-> f[at[k]]]
<1>1. at \in Seq(S) /\ DOMAIN at = 1..Len(at) /\ Len(at) \in Nat
  BY DEF Lists
<1>2. \A k \in 1..Len(at) : at[k] \in S
  BY <1>1
<1>3. s \in [1..Len(at) -> X]
  BY <1>1, <1>2 DEF Into
<1>4. s \in Seq(X) /\ Len(s) = Len(at)
  BY <1>1, <1>3
<1>5. FEBE!ToSet(s) = {f[at[k]] : k \in 1..Len(at)}
  BY <1>1 DEF FEBE!ToSet
<1>6. {f[at[k]] : k \in 1..Len(at)} = Values(f, S)
  BY <1>2 DEF Lists, Values
<1> QED  BY <1>4, <1>5, <1>6 DEF Standings

\* The last of a set of places, with and without a place 0 before them.
LEMMA MaxIs ==
    ASSUME NEW S, NEW n \in Nat, S \subseteq 1..n
    PROVE  /\ S \intersect (1..FEBE!Max({0} \union S)) = S
           /\ FEBE!Max({0} \union S) \in Nat
           /\ S # {} => FEBE!Max(S) \in S
<1> DEFINE m == FEBE!Max({0} \union S)
<1>1. m \in Nat /\ m \in {0} \union S /\ \A k \in S : k <= m
  BY LastIs
<1> HIDE DEF m
<1>2. S \intersect (1..m) = S
  <2>1. \A k \in S : k \in 1..m
    BY <1>1
  <2> QED  BY <2>1
<1>3. ASSUME S # {} PROVE FEBE!Max(S) \in S
  <2>1. m \in S
    <3>1. PICK k \in S : k <= m
      BY <1>1, <1>3
    <3>2. k \in Nat \ {0}
      OBVIOUS
    <3>3. m # 0
      BY <1>1, <3>1, <3>2
    <3> QED  BY <1>1, <3>3
  <2>2. \A k \in S : m >= k
    BY <1>1
  <2> QED  BY <2>1, <2>2 DEF FEBE!Max
<1> QED  BY <1>1, <1>2, <1>3 DEF m

LEMMA LinkPlacesList ==
    ASSUME NEW X, NEW doc, IsLinks(doc.links, X)
    PROVE  Lists(FEBE!LinkPlaces(doc), DOMAIN doc.links)
<1> DEFINE S == DOMAIN doc.links
           m == FEBE!Max({0} \union S)
<1>1. PICK n \in Nat : S \subseteq 1..n
  BY DEF IsLinks
<1>2. S \intersect (1..m) = S /\ m \in Nat
  BY <1>1, MaxIs
<1>3. FEBE!LinkPlaces(doc) = FEBE!Ordered(S, m)
  BY DEF FEBE!LinkPlaces
<1> HIDE DEF S, m
<1>4. Lists(FEBE!Ordered(S, m), S \intersect (1..m))
  BY <1>2, OrderedLists
<1> QED  BY <1>2, <1>3, <1>4 DEF S

LEMMA LinksOfIs ==
    ASSUME NEW X, NEW doc, IsLinks(doc.links, X)
    PROVE  FEBE!LinksOf(doc) \in Seq(X) /\ Len(FEBE!LinksOf(doc)) = Len(FEBE!LinkPlaces(doc))
<1> DEFINE at == FEBE!LinkPlaces(doc)
           f == doc.links
<1>1. Lists(at, DOMAIN f)
  BY LinkPlacesList
<1>2. Into(f, X) /\ DOMAIN f \subseteq DOMAIN f
  BY DEF IsLinks, Into
<1>3. FEBE!LinksOf(doc) = Standings(f, at)
  BY DEF FEBE!LinksOf, Standings
<1> HIDE DEF at, f
<1>4. Standings(f, at) \in Seq(X) /\ Len(Standings(f, at)) = Len(at)
  BY <1>1, <1>2, Picked
<1> QED  BY <1>3, <1>4 DEF at

\* At places in the text, and at places of links.
LEMMA TextItems ==
    ASSUME NEW X, NEW text \in Seq(X), NEW S
    PROVE  LET s == Standings(text, FEBE!Ordered(S, Len(text)))
           IN  s \in Seq(X) /\ FEBE!ToSet(s) = Values(text, S \intersect DOMAIN text)
<1> DEFINE n == Len(text)
           at == FEBE!Ordered(S, n)
           T == S \intersect (1..n)
<1>1. n \in Nat /\ DOMAIN text = 1..n /\ Into(text, X)
  BY DEF Into
<1>2. Lists(at, T)
  BY <1>1, OrderedLists
<1> HIDE DEF at
<1>3. T \subseteq DOMAIN text /\ T = S \intersect DOMAIN text
  BY <1>1
<1> HIDE DEF T
<1>4. Standings(text, at) \in Seq(X) /\ FEBE!ToSet(Standings(text, at)) = Values(text, T)
  BY <1>1, <1>2, <1>3, Picked
<1> QED  BY <1>3, <1>4 DEF at

LEMMA LinkItems ==
    ASSUME NEW X, NEW links, IsLinks(links, X), NEW S
    PROVE  LET s == Standings(links, FEBE!Ordered(S \intersect DOMAIN links,
                                                  FEBE!Max({0} \union DOMAIN links)))
           IN  s \in Seq(X) /\ FEBE!ToSet(s) = Values(links, S \intersect DOMAIN links)
<1> DEFINE D == DOMAIN links
           m == FEBE!Max({0} \union D)
           T == S \intersect D
           at == FEBE!Ordered(T, m)
<1>1. PICK n \in Nat : D \subseteq 1..n
  BY DEF IsLinks
<1>2. D \intersect (1..m) = D /\ m \in Nat
  BY <1>1, MaxIs
<1>3. Lists(at, T \intersect (1..m))
  <2> HIDE DEF m, T
  <2> QED  BY <1>2, OrderedLists
<1>4. T \intersect (1..m) = T /\ T \subseteq DOMAIN links /\ Into(links, X)
  <2> HIDE DEF m
  <2> QED  BY <1>2 DEF IsLinks, Into
<1> HIDE DEF at, T, m
<1>5. Standings(links, at) \in Seq(X) /\ FEBE!ToSet(Standings(links, at)) = Values(links, T)
  BY <1>3, <1>4, Picked
<1> QED  BY <1>5 DEF at, T, m

\* All that is shown anywhere.
Everything(st) == {y[1] : y \in st.spanf.docs}

LEMMA ShownTyped ==
    ASSUME NEW st, NEW K, Sound(st, K), NEW x \in DOMAIN st.docs
    PROVE  IsOrgl(st.docs[x], Everything(st))
<1>1. ShownIn(st, x) \subseteq Everything(st)
  BY DEF ShownIn, Everything
<1>2. IsOrgl(st.docs[x], ShownIn(st, x))
  BY DEF Sound, IndexRight
<1>3. st.docs[x].text \in Seq(Everything(st))
  BY <1>1, <1>2, SeqGrows DEF IsOrgl
<1>4. IsLinks(st.docs[x].links, Everything(st))
  BY <1>1, <1>2, LinksGrow DEF IsOrgl
<1> QED  BY <1>2, <1>3, <1>4 DEF IsOrgl

LEMMA ItemsOfTyped ==
    ASSUME NEW st, NEW K, Sound(st, K), NEW span, span.part \in Parts,
           span.part # "type" => span.doc \in DOMAIN st.docs
    PROVE  FEBE!ItemsOf(st, span) \in Seq(Everything(st))
<1> DEFINE X == Everything(st)
           doc == st.docs[span.doc]
<1>1. CASE span.part = "type"
  BY <1>1 DEF FEBE!ItemsOf
<1>2. CASE span.part # "type"
  <2>1. IsOrgl(doc, X)
    BY <1>2, ShownTyped
  <2> HIDE DEF X
  <2>2. CASE span.part = "text"
    <3> DEFINE at == FEBE!Ordered(span.at, Len(doc.text))
               s == Standings(doc.text, at)
    <3>1. FEBE!ItemsOf(st, span) = s
      BY <2>2 DEF FEBE!ItemsOf, Standings
    <3>2. s \in Seq(X)
      <4> HIDE DEF doc
      <4> QED  BY <2>1, TextItems DEF IsOrgl
    <3> HIDE DEF s
    <3> QED  BY <3>1, <3>2 DEF X
  <2>3. CASE span.part = "links"
    <3> DEFINE at == FEBE!Ordered(span.at \intersect DOMAIN doc.links, FEBE!Max({0} \union DOMAIN doc.links))
               s == Standings(doc.links, at)
    <3>1. FEBE!ItemsOf(st, span) = s
      BY <2>3 DEF FEBE!ItemsOf, Standings
    <3>2. s \in Seq(X)
      <4> HIDE DEF doc
      <4> QED  BY <2>1, LinkItems DEF IsOrgl
    <3> HIDE DEF s
    <3> QED  BY <3>1, <3>2 DEF X
  <2>4. CASE span.part = "whole"
    <3>1. FEBE!ItemsOf(st, span) = FEBE!Shown(doc)
      BY <2>4 DEF FEBE!ItemsOf
    <3> HIDE DEF doc
    <3>2. doc.text \in Seq(X) /\ FEBE!LinksOf(doc) \in Seq(X)
      BY <2>1, LinksOfIs DEF IsOrgl
    <3> QED  BY <3>1, <3>2 DEF FEBE!Shown, X
  <2> QED  BY <1>2, <2>2, <2>3, <2>4 DEF Parts
<1> QED  BY <1>1, <1>2

LEMMA ItemsTyped ==
    ASSUME NEW st, NEW K, Sound(st, K), NEW spec, IsSpans(spec, DOMAIN st.docs)
    PROVE  FEBE!Items(st, spec) \in Seq(FEBE!Content(st, spec))
<1> DEFINE X == Everything(st)
           s == [k \in DOMAIN spec |-> FEBE!ItemsOf(st, spec[k])]
<1>1. \A k \in DOMAIN spec : FEBE!ItemsOf(st, spec[k]) \in Seq(X)
  BY ItemsOfTyped DEF IsSpans
<1>2. DOMAIN spec = 1..Len(spec) /\ Len(spec) \in Nat
  BY DEF IsSpans
<1>3. FEBE!Items(st, spec) = FEBE!FlattenSeq(s)
  BY DEF FEBE!Items
<1> HIDE DEF X
<1>4. s \in Seq(Seq(X)) /\ Len(s) \in Nat
  BY <1>1, <1>2
<1> HIDE DEF s
<1>5. FlattenSeq(s) \in Seq(X) /\ FEBE!FlattenSeq(s) = FlattenSeq(s)
  BY <1>4, FlattenIs, FlattenIsFlat
<1>6. FEBE!Items(st, spec) \in Seq(X)
  BY <1>3, <1>5
<1> QED  BY <1>6, SeqOfItsOwn DEF FEBE!Content

-----------------------------------------------------------------------------
(* A request leaves a store in order.                                      *)

LEMMA SoundLess ==
    ASSUME NEW st, NEW K, Sound(st, K), NEW L, L \subseteq K
    PROVE  Sound(st, L)
BY DEF Sound

LEMMA SoundDoc ==
    ASSUME NEW st, NEW K, Sound(st, K), NEW x \in DOMAIN st.docs,
           NEW text, NEW links, NEW chars, NEW made \in Nat, NEW I,
           text \in Seq(I \union ShownIn(st, x)), IsLinks(links, I \union ShownIn(st, x)),
           st.docs[x].made <= made
    PROVE  Sound(Changed(st, x, Orgl(text, links, chars, made), I), K)
<1>1. Numbered(DOMAIN st.docs \union {x})
  <2>1. DOMAIN st.docs \union {x} = DOMAIN st.docs
    OBVIOUS
  <2> QED  BY <2>1 DEF Sound
<1>2. Sound(Changed(st, x, Orgl(text, links, chars, made), I), K \union {x})
  BY <1>1, SoundChanged
<1> QED  BY <1>2, SoundLess

\* What a document has stays in order when more is indexed.
LEMMA DocGrows ==
    ASSUME NEW st, NEW K, Sound(st, K), NEW x \in DOMAIN st.docs, NEW I
    PROVE  /\ st.docs[x].text \in Seq(I \union ShownIn(st, x))
           /\ IsLinks(st.docs[x].links, I \union ShownIn(st, x))
           /\ st.docs[x].made \in Nat
<1>1. IsOrgl(st.docs[x], ShownIn(st, x)) /\ ShownIn(st, x) \subseteq I \union ShownIn(st, x)
  BY DEF Sound, IndexRight
<1> QED  BY <1>1, SeqGrows, LinksGrow DEF IsOrgl

LEMMA SoundPutText ==
    ASSUME NEW st, NEW K, Sound(st, K), NEW x \in DOMAIN st.docs,
           NEW p \in 1..(Len(st.docs[x].text) + 1), NEW items, items \in Seq(FEBE!ToSet(items))
    PROVE  Sound(FEBE!PutText(st, x, p, items), K)
<1> DEFINE doc == st.docs[x]
           I == FEBE!ToSet(items)
           X == I \union ShownIn(st, x)
           text == FEBE!Put(doc.text, p, items)
<1>1. doc.text \in Seq(X) /\ IsLinks(doc.links, X) /\ doc.made \in Nat
  BY DocGrows
<1>2. items \in Seq(X)
  <2> HIDE DEF I
  <2>1. I \subseteq X /\ items \in Seq(I)
    BY DEF I
  <2> QED  BY <2>1, SeqGrows
<1>3. text \in Seq(X)
  <2> HIDE DEF X
  <2> QED  BY <1>1, <1>2, PutTyped
<1>4. FEBE!PutText(st, x, p, items) = Changed(st, x, Orgl(text, doc.links, doc.chars, doc.made), I)
  BY PutTextIs DEF Sound
<1>5. doc.made <= doc.made
  BY <1>1
<1> HIDE DEF text, I
<1>6. Sound(Changed(st, x, Orgl(text, doc.links, doc.chars, doc.made), I), K)
  BY <1>1, <1>3, <1>5, SoundDoc
<1> QED  BY <1>4, <1>6

LEMMA SoundInsert ==
    ASSUME NEW st, NEW K, Sound(st, K), NEW c, NEW a, NEW x \in DOMAIN st.docs,
           NEW p \in 1..(Len(st.docs[x].text) + 1), NEW n \in Nat
    PROVE  Sound(FEBE!Insert(st, c, a, x, p, n).store, K)
<1> DEFINE doc == st.docs[x]
           items == [k \in 1..n |-> FEBE!Char(x, doc.chars + k)]
           st2 == [st EXCEPT !.docs[x].chars = @ + n]
           new == Orgl(doc.text, doc.links, doc.chars + n, doc.made)
<1>1. st2 = Changed(st, x, new, {})
  BY CharsIs DEF Sound
<1>2. Sound(Changed(st, x, new, {}), K)
  <2>1. /\ doc.text \in Seq({} \union ShownIn(st, x)) /\ IsLinks(doc.links, {} \union ShownIn(st, x))
        /\ doc.made \in Nat
    BY DocGrows
  <2>2. doc.made <= doc.made
    BY <2>1
  <2> DEFINE chars == doc.chars + n
  <2> HIDE DEF chars
  <2>3. Sound(Changed(st, x, Orgl(doc.text, doc.links, chars, doc.made), {}), K)
    BY <2>1, <2>2, SoundDoc
  <2> QED  BY <2>3 DEF chars
<1>3. x \in DOMAIN st2.docs /\ st2.docs[x].text = doc.text
  <2>1. x \in DOMAIN Changed(st, x, new, {}).docs /\ Changed(st, x, new, {}).docs[x] = new
    <3> HIDE DEF new
    <3> QED  BY DEF Changed, Store, FEBE!With
  <2>2. new.text = doc.text
    BY DEF Orgl
  <2> HIDE DEF new, st2
  <2> QED  BY <1>1, <2>1, <2>2
<1>4. items \in Seq(FEBE!ToSet(items))
  <2> DEFINE X == {FEBE!Char(x, doc.chars + k) : k \in 1..n}
  <2>1. items \in Seq(X)
    <3>1. \A k \in 1..n : FEBE!Char(x, doc.chars + k) \in X
      OBVIOUS
    <3> HIDE DEF X
    <3> QED  BY <3>1
  <2> HIDE DEF items, X
  <2> QED  BY <2>1, SeqOfItsOwn
<1>5. FEBE!Insert(st, c, a, x, p, n).store
          = IF FEBE!MayWrite(st, c, a, x) THEN FEBE!PutText(st2, x, p, items) ELSE st2
  BY DEF FEBE!Insert, FEBE!Given
<1> HIDE DEF items, st2, new
<1>6. Sound(st2, K)
  BY <1>1, <1>2
<1>7. Sound(FEBE!PutText(st2, x, p, items), K)
  BY <1>3, <1>4, <1>6, SoundPutText
<1> QED  BY <1>5, <1>6, <1>7

LEMMA SoundCopy ==
    ASSUME NEW st, NEW K, Sound(st, K), NEW c, NEW a, NEW x \in DOMAIN st.docs,
           NEW p \in 1..(Len(st.docs[x].text) + 1), NEW spec, IsSpans(spec, DOMAIN st.docs)
    PROVE  Sound(FEBE!Copy(st, c, a, x, p, spec).store, K)
<1> DEFINE items == FEBE!Items(st, spec)
<1>1. items \in Seq(FEBE!ToSet(items))
  BY ItemsTyped DEF FEBE!Content
<1>2. FEBE!Copy(st, c, a, x, p, spec).store
          = IF FEBE!MayWrite(st, c, a, x) THEN FEBE!PutText(st, x, p, items) ELSE st
  BY DEF FEBE!Copy, FEBE!Given
<1> HIDE DEF items
<1>3. Sound(FEBE!PutText(st, x, p, items), K)
  BY <1>1, SoundPutText
<1> QED  BY <1>2, <1>3

LEMMA WithoutLinksTyped ==
    ASSUME NEW X, NEW doc, IsLinks(doc.links, X), NEW p \in Nat, NEW n \in Nat
    PROVE  IsLinks(FEBE!WithoutLinks(doc, p, n), X)
<1> DEFINE D == DOMAIN doc.links
           kept == {k \in D : k < p \/ k >= p + n}
           After(k) == IF k >= p /\ doc.text = << >> THEN k + n ELSE k
           E == {j \in 1..FEBE!Max(D) : After(j) \in kept}
           new == [k \in E |-> doc.links[After(k)]]
<1>1. FEBE!WithoutLinks(doc, p, n) = new
  BY DEF FEBE!WithoutLinks
<1>2. PICK m \in Nat : D \subseteq 1..m
  BY DEF IsLinks
<1>3. \A k \in E : After(k) \in D
  OBVIOUS
<1>4. new \in [DOMAIN new -> X]
  BY <1>3 DEF IsLinks
<1>5. \E l \in Nat : E \subseteq 1..l
  <2>1. CASE D = {}
    <3>1. E \subseteq 1..0
      BY <2>1
    <3> QED  BY <3>1
  <2>2. CASE D # {}
    <3>1. FEBE!Max(D) \in D
      BY <1>2, <2>2, MaxIs
    <3>2. FEBE!Max(D) \in Nat
      BY <1>2, <3>1
    <3> QED  BY <3>2
  <2> QED  BY <2>1, <2>2
<1>6. DOMAIN new = E
  OBVIOUS
<1> HIDE DEF new, E
<1> QED  BY <1>1, <1>4, <1>5, <1>6 DEF IsLinks

LEMMA SoundDelete ==
    ASSUME NEW st, NEW K, Sound(st, K), NEW c, NEW a, NEW x \in DOMAIN st.docs,
           NEW part, NEW p \in Nat \ {0}, NEW n \in Nat,
           part = "text" => p <= Len(st.docs[x].text) + 1
    PROVE  Sound(FEBE!DeleteVspan(st, c, a, x, part, p, n).store, K)
<1> DEFINE doc == st.docs[x]
           X == {} \union ShownIn(st, x)
           new == FEBE!Without(doc, part, p, n)
<1>1. doc.text \in Seq(X) /\ IsLinks(doc.links, X) /\ doc.made \in Nat
  BY DocGrows
<1>2. doc = Orgl(doc.text, doc.links, doc.chars, doc.made)
  BY DEF Sound, Shape
<1>3. FEBE!DeleteVspan(st, c, a, x, part, p, n).store
          = IF FEBE!MayWrite(st, c, a, x) THEN [st EXCEPT !.docs[x] = new] ELSE st
  BY DEF FEBE!DeleteVspan, FEBE!Given
<1>4. \E text \in Seq(X) : \E links : IsLinks(links, X) /\ new = Orgl(text, links, doc.chars, doc.made)
  <2>1. CASE part = "text"
    <3> DEFINE text == SubSeq(doc.text, 1, p - 1) \o SubSeq(doc.text, p + n, Len(doc.text))
    <3>1. text \in Seq(X)
      <4>1. p \in 1..(Len(doc.text) + 1)
        BY <1>1, <2>1
      <4> HIDE DEF X
      <4> QED  BY <1>1, <4>1, CutTyped
    <3>2. new = [doc EXCEPT !.text = text]
      BY <2>1 DEF FEBE!Without
    <3> HIDE DEF text, doc
    <3>3. [doc EXCEPT !.text = text] = Orgl(text, doc.links, doc.chars, doc.made)
      BY <1>2 DEF Orgl
    <3> HIDE DEF new, X
    <3> QED  BY <1>1, <3>1, <3>2, <3>3
  <2>2. CASE part # "text" /\ doc.links = FEBE!Nothing
    <3>1. new = doc
      BY <2>2 DEF FEBE!Without
    <3> HIDE DEF new, X, doc
    <3> QED  BY <1>1, <1>2, <3>1
  <2>3. CASE part # "text" /\ doc.links # FEBE!Nothing
    <3> DEFINE links == FEBE!WithoutLinks(doc, p, n)
    <3>1. IsLinks(links, X)
      <4> HIDE DEF X, doc
      <4> QED  BY <1>1, WithoutLinksTyped
    <3>2. new = [doc EXCEPT !.links = links]
      BY <2>3 DEF FEBE!Without
    <3> HIDE DEF links, doc
    <3>3. [doc EXCEPT !.links = links] = Orgl(doc.text, links, doc.chars, doc.made)
      BY <1>2 DEF Orgl
    <3> HIDE DEF new, X
    <3> QED  BY <1>1, <3>1, <3>2, <3>3
  <2> QED  BY <2>1, <2>2, <2>3
<1> HIDE DEF new
<1>5. PICK text \in Seq(X) : \E links : IsLinks(links, X) /\ new = Orgl(text, links, doc.chars, doc.made)
  BY <1>4
<1>6. PICK links : IsLinks(links, X) /\ new = Orgl(text, links, doc.chars, doc.made)
  BY <1>5
<1>7. [st EXCEPT !.docs[x] = new] = Changed(st, x, new, {})
  BY ChangedDoc DEF Sound
<1>8. doc.made <= doc.made
  BY <1>1
<1>9. Sound(Changed(st, x, Orgl(text, links, doc.chars, doc.made), {}), K)
  BY <1>1, <1>6, <1>8, SoundDoc
<1> QED  BY <1>3, <1>6, <1>7, <1>9

LEMMA SoundRearrange ==
    ASSUME NEW st, NEW K, Sound(st, K), NEW c, NEW a, NEW x \in DOMAIN st.docs,
           NEW cut \in Seq(1..(Len(st.docs[x].text) + 1)), Len(cut) = 4,
           \A k \in 1..3 : cut[k] <= cut[k + 1]
    PROVE  Sound(FEBE!Rearrange(st, c, a, x, cut).store, K)
<1> DEFINE doc == st.docs[x]
           X == {} \union ShownIn(st, x)
           text == FEBE!Rearranged(doc.text, cut[1], cut[2], cut[Len(cut) - 1], cut[Len(cut)])
<1>1. doc.text \in Seq(X) /\ IsLinks(doc.links, X) /\ doc.made \in Nat
  BY DocGrows
<1>2. text \in Seq(X)
  <2> HIDE DEF X
  <2> QED  BY <1>1, RearrangedTyped
<1>3. FEBE!Rearrange(st, c, a, x, cut).store
          = IF FEBE!MayWrite(st, c, a, x) THEN [st EXCEPT !.docs[x].text = text] ELSE st
  BY DEF FEBE!Rearrange, FEBE!Given
<1> HIDE DEF text
<1>4. [st EXCEPT !.docs[x].text = text] = Changed(st, x, Orgl(text, doc.links, doc.chars, doc.made), {})
  BY TextIs DEF Sound
<1>5. doc.made <= doc.made
  BY <1>1
<1>6. Sound(Changed(st, x, Orgl(text, doc.links, doc.chars, doc.made), {}), K)
  BY <1>1, <1>2, <1>5, SoundDoc
<1> QED  BY <1>3, <1>4, <1>6

LEMMA FreshAddresses ==
    ASSUME NEW st, NEW K, Sound(st, K), NEW a \in AccountName
    PROVE  /\ FEBE!NewDocument(st, a) \notin DOMAIN st.docs
           /\ Numbered(DOMAIN st.docs \union {FEBE!NewDocument(st, a)})
           /\ FEBE!NewDocument(st, a)[1] = a
           /\ \A x \in DOMAIN st.docs :
                 /\ FEBE!NewVersion(st, x) \notin DOMAIN st.docs
                 /\ Numbered(DOMAIN st.docs \union {FEBE!NewVersion(st, x)})
                 /\ FEBE!NewVersion(st, x)[1] = x[1]
<1> DEFINE D == DOMAIN st.docs
<1>1. Numbered(D)
  BY DEF Sound
<1>2. D \subseteq Address /\ \A x \in D : Len(x) > 1
  BY <1>1, NumberedAre
<1>3. <<a>> \in Address /\ <<a>> # << >>
  BY DEF Address
<1>4. FEBE!NewDocument(st, a) = Append(<<a>>, 1 + Cardinality(Siblings(D, <<a>>)))
  BY <1>2, NewAddresses
<1>5. FEBE!NewDocument(st, a)[1] = a
  BY DEF FEBE!NewDocument
<1>6. ASSUME NEW x \in D
      PROVE  /\ FEBE!NewVersion(st, x) \notin D
             /\ Numbered(D \union {FEBE!NewVersion(st, x)})
             /\ FEBE!NewVersion(st, x)[1] = x[1]
  <2>1. FEBE!NewVersion(st, x) = Append(x, 1 + Cardinality(Siblings(D, x)))
    BY <1>2, NewAddresses
  <2>2. x \in Address /\ x # << >> /\ Len(x) > 1
    BY <1>2
  <2>3. \A n : Append(x, n)[1] = x[1]
    BY <2>2 DEF Address
  <2> HIDE DEF D
  <2> QED  BY <1>1, <2>1, <2>2, <2>3, NextIsNew
<1> HIDE DEF D
<1>7. FEBE!NewDocument(st, a) \notin D /\ Numbered(D \union {FEBE!NewDocument(st, a)})
  BY <1>1, <1>3, <1>4, NextIsNew
<1> QED  BY <1>5, <1>6, <1>7 DEF D

LEMMA VersionTyped ==
    ASSUME NEW X, NEW doc, doc.text \in Seq(X), IsLinks(doc.links, X)
    PROVE  LET I == FEBE!ToSet(doc.text \o FEBE!LinksOf(doc))
           IN  \E text \in Seq(I) : \E links : IsLinks(links, I) /\ FEBE!VersionOf(doc) = Orgl(text, links, 0, 0)
<1> DEFINE at == FEBE!LinkPlaces(doc)
           items == doc.text \o FEBE!LinksOf(doc)
           I == FEBE!ToSet(items)
<1>1. FEBE!LinksOf(doc) \in Seq(X) /\ Len(FEBE!LinksOf(doc)) = Len(at)
  BY LinksOfIs
<1>2. items \in Seq(X)
  BY <1>1
<1>3. items \in Seq(I)
  <2> HIDE DEF items
  <2> QED  BY <1>2, SeqOfItsOwn
<1>4. CASE doc.text = << >> /\ DOMAIN doc.links # {}
  <2> DEFINE h == Head(at)
             links == [k \in h..(h + Len(at) - 1) |-> doc.links[at[k - h + 1]]]
  <2>1. Lists(at, DOMAIN doc.links)
    BY LinkPlacesList
  <2>2. PICK n \in Nat : DOMAIN doc.links \subseteq 1..n
    BY DEF IsLinks
  <2>3. at \in Seq(1..n) /\ Len(at) \in Nat /\ Len(at) > 0
    <3>1. at \in Seq(1..n)
      BY <2>1, <2>2, SeqGrows DEF Lists
    <3>2. \E i \in 1..Len(at) : TRUE
      BY <1>4, <2>1 DEF Lists
    <3> QED  BY <3>1, <3>2
  <2>4. h \in Nat \ {0}
    <3>1. h \in 1..n
      <4> HIDE DEF at
      <4> QED  BY <2>3
    <3> QED  BY <3>1
  <2>5. items = FEBE!LinksOf(doc)
    BY <1>1, <1>4
  <2>6. \A j \in 1..Len(at) : doc.links[at[j]] \in I
    <3>1. DOMAIN at = 1..Len(at)
      BY <2>3
    <3>2. \A j \in 1..Len(at) : FEBE!LinksOf(doc)[j] = doc.links[at[j]]
      BY <3>1 DEF FEBE!LinksOf
    <3>3. DOMAIN FEBE!LinksOf(doc) = 1..Len(at)
      BY <1>1
    <3> HIDE DEF at, items
    <3> QED  BY <2>5, <3>2, <3>3 DEF FEBE!ToSet
  <2> HIDE DEF h
  <2>7. \A k \in h..(h + Len(at) - 1) : doc.links[at[k - h + 1]] \in I
    <3> SUFFICES ASSUME NEW k \in h..(h + Len(at) - 1) PROVE doc.links[at[k - h + 1]] \in I
      OBVIOUS
    <3>1. k - h + 1 \in 1..Len(at)
      BY <2>3, <2>4
    <3> HIDE DEF I, at
    <3> QED  BY <2>6, <3>1
  <2>8. IsLinks(links, I)
    <3>1. links \in [DOMAIN links -> I]
      <4> HIDE DEF I, at
      <4> QED  BY <2>7
    <3>2. DOMAIN links = h..(h + Len(at) - 1)
      OBVIOUS
    <3>3. h + Len(at) - 1 \in Nat /\ DOMAIN links \subseteq 1..(h + Len(at) - 1)
      BY <2>3, <2>4, <3>2
    <3> HIDE DEF links
    <3> QED  BY <3>1, <3>3 DEF IsLinks
  <2>9. FEBE!VersionOf(doc) = [FEBE!Blank EXCEPT !.links = links]
    BY <1>4 DEF FEBE!VersionOf, h
  <2> HIDE DEF links, I
  <2>10. [FEBE!Blank EXCEPT !.links = links] = Orgl(<< >>, links, 0, 0)
    BY DEF FEBE!Blank, Orgl
  <2>11. << >> \in Seq(I)
    OBVIOUS
  <2> QED  BY <2>8, <2>9, <2>10, <2>11 DEF I
<1>5. CASE ~(doc.text = << >> /\ DOMAIN doc.links # {})
  <2>1. FEBE!VersionOf(doc) = [FEBE!Blank EXCEPT !.text = items]
    BY <1>5 DEF FEBE!VersionOf
  <2>2. [FEBE!Blank EXCEPT !.text = items] = Orgl(items, FEBE!Nothing, 0, 0)
    <3> HIDE DEF items
    <3> QED  BY DEF FEBE!Blank, Orgl
  <2>3. IsLinks(FEBE!Nothing, I)
    <3> HIDE DEF I
    <3>1. DOMAIN FEBE!Nothing = {} /\ FEBE!Nothing \in [DOMAIN FEBE!Nothing -> I]
      BY DEF FEBE!Nothing
    <3>2. {} \subseteq 1..0
      OBVIOUS
    <3> QED  BY <3>1, <3>2 DEF IsLinks
  <2> HIDE DEF items
  <2> QED  BY <1>3, <2>1, <2>2, <2>3 DEF items
<1> QED  BY <1>4, <1>5

LEMMA SoundVersion ==
    ASSUME NEW st, NEW K, Sound(st, K), NEW x \in DOMAIN st.docs, NEW v, v \notin DOMAIN st.docs,
           Numbered(DOMAIN st.docs \union {v})
    PROVE  Sound(FEBE!WithVersion(st, x, v), K \union {v})
<1> DEFINE doc == st.docs[x]
           I == FEBE!ToSet(doc.text \o FEBE!LinksOf(doc))
           X == I \union ShownIn(st, v)
<1>1. IsOrgl(doc, ShownIn(st, x))
  BY DEF Sound, IndexRight
<1>2. PICK text \in Seq(I) : \E links : IsLinks(links, I) /\ FEBE!VersionOf(doc) = Orgl(text, links, 0, 0)
  <2> HIDE DEF doc
  <2> QED  BY <1>1, VersionTyped DEF IsOrgl
<1>3. PICK links : IsLinks(links, I) /\ FEBE!VersionOf(doc) = Orgl(text, links, 0, 0)
  BY <1>2
<1>4. FEBE!WithVersion(st, x, v) = Changed(st, v, FEBE!VersionOf(doc), I)
  BY VersionIs DEF Sound
<1> HIDE DEF I, doc
<1>5. text \in Seq(X) /\ IsLinks(links, X)
  <2>1. I \subseteq X
    OBVIOUS
  <2> HIDE DEF X
  <2> QED  BY <1>3, <2>1, SeqGrows, LinksGrow
<1>6. 0 \in Nat
  OBVIOUS
<1>7. Sound(Changed(st, v, Orgl(text, links, 0, 0), I), K \union {v})
  BY <1>5, <1>6, SoundChanged
<1> QED  BY <1>3, <1>4, <1>7

LEMMA SoundCreateDocument ==
    ASSUME NEW st, NEW K, Sound(st, K), NEW a \in AccountName
    PROVE  Sound(FEBE!CreateDocument(st, a).store, K \union {FEBE!CreateDocument(st, a).answer})
<1> DEFINE v == FEBE!NewDocument(st, a)
           X == {} \union ShownIn(st, v)
<1>1. v \notin DOMAIN st.docs /\ Numbered(DOMAIN st.docs \union {v})
  BY FreshAddresses
<1>2. /\ FEBE!CreateDocument(st, a).store = [st EXCEPT !.docs = FEBE!With(@, v, FEBE!Blank)]
      /\ FEBE!CreateDocument(st, a).answer = v
  BY DEF FEBE!CreateDocument, FEBE!Given
<1> HIDE DEF v
<1>3. [st EXCEPT !.docs = FEBE!With(@, v, FEBE!Blank)] = Changed(st, v, FEBE!Blank, {})
  BY NewDocIs DEF Sound
<1>4. FEBE!Blank = Orgl(<< >>, FEBE!Nothing, 0, 0)
  BY DEF FEBE!Blank, Orgl
<1>5. << >> \in Seq(X) /\ IsLinks(FEBE!Nothing, X) /\ 0 \in Nat
  <2> HIDE DEF X
  <2>1. DOMAIN FEBE!Nothing = {} /\ FEBE!Nothing \in [DOMAIN FEBE!Nothing -> X]
    BY DEF FEBE!Nothing
  <2>2. {} \subseteq 1..0
    OBVIOUS
  <2> QED  BY <2>1, <2>2 DEF IsLinks
<1>6. Sound(Changed(st, v, Orgl(<< >>, FEBE!Nothing, 0, 0), {}), K \union {v})
  BY <1>1, <1>5, SoundChanged
<1> QED  BY <1>2, <1>3, <1>4, <1>6

LEMMA SoundCreateVersion ==
    ASSUME NEW st, NEW K, Sound(st, K), NEW x \in DOMAIN st.docs
    PROVE  Sound(FEBE!CreateVersion(st, x).store, K)
<1> DEFINE v == FEBE!NewVersion(st, x)
<1>1. v \notin DOMAIN st.docs /\ Numbered(DOMAIN st.docs \union {v})
  <2>1. DEFAULT_ACCOUNT \in AccountName
    BY DEF AccountName
  <2> QED  BY <2>1, FreshAddresses
<1>2. FEBE!CreateVersion(st, x).store = FEBE!WithVersion(st, x, v)
  BY DEF FEBE!CreateVersion, FEBE!Given
<1> HIDE DEF v
<1>3. Sound(FEBE!WithVersion(st, x, v), K \union {v})
  BY <1>1, SoundVersion
<1> QED  BY <1>2, <1>3, SoundLess

LEMMA SoundAddToOpen ==
    ASSUME NEW st, NEW K, Sound(st, K), NEW c, NEW x, NEW type,
           c = NEIGHBOUR /\ Ours(x) => type = READ_ONLY
    PROVE  Sound(FEBE!AddToOpen(st, c, x, type), K)
<1> DEFINE entry == [type |-> type, count |-> 1]
           open == FEBE!With(st.open, <<c, x>>, entry)
<1>1. FEBE!AddToOpen(st, c, x, type) = Reopened(st, open)
  BY ReopenedIs DEF FEBE!AddToOpen, Sound
<1>2. /\ DOMAIN open = DOMAIN st.open \union {<<c, x>>} /\ open[<<c, x>>] = entry
      /\ \A e \in DOMAIN st.open : e # <<c, x>> => open[e] = st.open[e]
  BY DEF FEBE!With
<1>3. Reopened(st, open).open = open
  BY DEF Reopened, Store
<1>4. type = READ_ONLY => entry \in [type : {READ_ONLY}, count : Nat]
  OBVIOUS
<1>5. <<c, x>>[1] = c /\ <<c, x>>[2] = x
  OBVIOUS
<1> HIDE DEF open, entry
<1>6. OnlyReads(Reopened(st, open))
  BY <1>2, <1>3, <1>4, <1>5 DEF OnlyReads, Sound
<1> QED  BY <1>1, <1>6, SoundReopened

LEMMA SoundOpenedTwice ==
    ASSUME NEW st, NEW K, Sound(st, K), NEW c, NEW x
    PROVE  Sound(OpenedTwice(st, c, x), K)
<1> DEFINE open == [st.open EXCEPT ![<<c, x>>].count = @ + 1]
<1>1. OpenedTwice(st, c, x) = Reopened(st, open)
  BY ReopenedIs DEF OpenedTwice, Sound
<1>2. Reopened(st, open).open = open
  BY DEF Reopened, Store
<1>3. OnlyReads(Reopened(st, open))
  <2> SUFFICES ASSUME NEW e \in DOMAIN open, e[1] = NEIGHBOUR, Ours(e[2])
               PROVE  open[e] \in [type : {READ_ONLY}, count : Nat]
    BY <1>2 DEF OnlyReads
  <2>1. st.open[e] \in [type : {READ_ONLY}, count : Nat]
    BY DEF OnlyReads, Sound
  <2>2. [st.open[e] EXCEPT !.count = @ + 1] \in [type : {READ_ONLY}, count : Nat]
    BY <2>1
  <2>3. open[e] = st.open[e] \/ open[e] = [st.open[e] EXCEPT !.count = @ + 1]
    OBVIOUS
  <2> QED  BY <2>1, <2>2, <2>3
<1> QED  BY <1>1, <1>3, SoundReopened

LEMMA SoundOpenDocument ==
    ASSUME NEW st, NEW K, Sound(st, K), NEW c, NEW a \in AccountName,
           c = NEIGHBOUR => a = NEIGHBOURS_ACCOUNT, NEW x \in DOMAIN st.docs,
           NEW type \in {READ_ONLY, READ_WRITE},
           NEW mode \in {CONFLICT_FAIL, CONFLICT_COPY, ALWAYS_COPY}
    PROVE  Sound(FEBE!OpenDocument(st, c, a, x, type, mode).store, K)
<1> DEFINE state == FEBE!CheckForOpen(st, c, a, x, type)
           v == FEBE!VersionAddress(st, a, x)
           new == FEBE!OpenDocument(st, c, a, x, type, mode)
<1>1. new = IF mode # ALWAYS_COPY /\ state = 0 THEN FEBE!Given(FEBE!AddToOpen(st, c, x, type), x)
            ELSE IF mode # ALWAYS_COPY /\ state = READ_ONLY
            THEN FEBE!Given(OpenedTwice(st, c, x), x)
            ELSE IF mode = CONFLICT_FAIL THEN FEBE!Given(st, FEBE!Failed)
            ELSE FEBE!Given(FEBE!AddToOpen(FEBE!WithVersion(st, x, v), c, v, type), v)
  BY OpenDocumentIs DEF OpenedVersion
<1>2. v \notin DOMAIN st.docs /\ Numbered(DOMAIN st.docs \union {v})
  BY FreshAddresses DEF FEBE!VersionAddress
<1>3. c = NEIGHBOUR => ~Ours(v)
  <2>1. FEBE!NewDocument(st, a)[1] = a /\ FEBE!NewVersion(st, x)[1] = x[1]
    BY FreshAddresses
  <2>2. v = IF FEBE!Owns(a, x) THEN FEBE!NewVersion(st, x) ELSE FEBE!NewDocument(st, a)
    BY DEF FEBE!VersionAddress
  <2> QED  BY <2>1, <2>2 DEF Ours, FEBE!Owns
<1>4. state = 0 /\ c = NEIGHBOUR /\ Ours(x) => type = READ_ONLY
  BY DEF FEBE!CheckForOpen, Ours, FEBE!READ_ONLY, FEBE!READ_WRITE, READ_ONLY
<1> HIDE DEF new, v
<1>5. state = 0 => Sound(FEBE!AddToOpen(st, c, x, type), K)
  <2> HIDE DEF state
  <2> QED  BY <1>4, SoundAddToOpen
<1> HIDE DEF state
<1>6. Sound(OpenedTwice(st, c, x), K)
  BY SoundOpenedTwice
<1>7. Sound(FEBE!AddToOpen(FEBE!WithVersion(st, x, v), c, v, type), K)
  <2> DEFINE mid == FEBE!WithVersion(st, x, v)
  <2>1. Sound(mid, K \union {v})
    BY <1>2, SoundVersion
  <2> HIDE DEF mid
  <2>2. Sound(mid, K)
    BY <2>1, SoundLess
  <2>3. Sound(FEBE!AddToOpen(mid, c, v, type), K)
    BY <1>3, <2>2, SoundAddToOpen
  <2> QED  BY <2>3 DEF mid
<1>8. \A store, reply : FEBE!Given(store, reply).store = store
  BY DEF FEBE!Given
<1>9. Sound(new.store, K)
  <2>1. CASE mode # ALWAYS_COPY /\ state = 0
    BY <1>1, <1>5, <1>8, <2>1
  <2>2. CASE mode # ALWAYS_COPY /\ state # 0 /\ state = READ_ONLY
    BY <1>1, <1>6, <1>8, <2>2
  <2>3. CASE ~(mode # ALWAYS_COPY /\ (state = 0 \/ state = READ_ONLY)) /\ mode = CONFLICT_FAIL
    BY <1>1, <1>8, <2>3
  <2>4. CASE ~(mode # ALWAYS_COPY /\ (state = 0 \/ state = READ_ONLY)) /\ mode # CONFLICT_FAIL
    BY <1>1, <1>7, <1>8, <2>4
  <2> QED  BY <2>1, <2>2, <2>3, <2>4
<1> QED  BY <1>9 DEF new

LEMMA SoundCloseDocument ==
    ASSUME NEW st, NEW K, Sound(st, K), NEW c, c # NEIGHBOUR, NEW x
    PROVE  Sound(FEBE!CloseDocument(st, c, x).store, K)
<1> DEFINE e0 == <<c, x>>
           less == [st.open EXCEPT ![e0].count = @ - 1]
           rest == [e \in DOMAIN st.open \ {e0} |-> st.open[e]]
<1>1. e0[1] # NEIGHBOUR
  OBVIOUS
<1>2. /\ ClosedOnce(st, c, x) = Reopened(st, less)
      /\ Closed(st, c, x) = Reopened(st, rest)
  BY ReopenedIs DEF ClosedOnce, Closed, Sound
<1>3. FEBE!CloseDocument(st, c, x).store
          = IF FEBE!Opened(st, c, x) = 0 THEN st
            ELSE IF st.open[e0].count > 1 THEN ClosedOnce(st, c, x) ELSE Closed(st, c, x)
  BY DEF FEBE!CloseDocument, ClosedOnce, Closed, FEBE!Given
<1>4. Reopened(st, less).open = less /\ Reopened(st, rest).open = rest
  BY DEF Reopened, Store
<1> HIDE DEF e0
<1>5. /\ DOMAIN less = DOMAIN st.open /\ \A e \in DOMAIN st.open : e # e0 => less[e] = st.open[e]
      /\ DOMAIN rest \subseteq DOMAIN st.open /\ \A e \in DOMAIN rest : rest[e] = st.open[e]
  OBVIOUS
<1> HIDE DEF less, rest
<1>6. OnlyReads(Reopened(st, less)) /\ OnlyReads(Reopened(st, rest))
  BY <1>1, <1>4, <1>5 DEF OnlyReads, Sound
<1>7. Sound(Reopened(st, less), K) /\ Sound(Reopened(st, rest), K)
  BY <1>6, SoundReopened
<1> QED  BY <1>2, <1>3, <1>7

\* A sporgl is of a document that the specification names.
LEMMA SporglsTyped ==
    ASSUME NEW st, NEW K, Sound(st, K), NEW D, D \subseteq DOMAIN st.docs, NEW spec, IsSpans(spec, D)
    PROVE  FEBE!Sporgls(st, spec) # << >> => Head(FEBE!Sporgls(st, spec)).doc \in D
<1> DEFINE Part1(k) == LET runs == FEBE!Runs(FEBE!ItemsOf(st, spec[k]))
                       IN  [j \in DOMAIN runs |-> [doc |-> spec[k].doc, items |-> FEBE!ToSet(runs[j])]]
           s == [k \in DOMAIN spec |-> Part1(k)]
           X == UNION {FEBE!ToSet(Part1(k)) : k \in DOMAIN spec}
<1>1. FEBE!Sporgls(st, spec) = FEBE!FlattenSeq(s)
  BY DEF FEBE!Sporgls
<1>2. ASSUME NEW k \in DOMAIN spec
      PROVE  \E n \in Nat : /\ DOMAIN Part1(k) = 1..n /\ Part1(k) = [j \in 1..n |-> Part1(k)[j]]
                            /\ \A j \in 1..n : Part1(k)[j].doc \in D
  <2> DEFINE items == FEBE!ItemsOf(st, spec[k])
             runs == FEBE!Runs(items)
             S == {i \in DOMAIN items : i = 1 \/ ~FEBE!Follows(items[i - 1], items[i])}
             first == FEBE!Ordered(S, Len(items))
  <2>1. spec[k].part \in Parts /\ (spec[k].part # "type" => spec[k].doc \in D)
    BY DEF IsSpans
  <2>2. items \in Seq(Everything(st))
    BY <2>1, ItemsOfTyped
  <2>3. Lists(first, S \intersect (1..Len(items)))
    <3> HIDE DEF S, items
    <3>1. Len(items) \in Nat
      BY <2>2
    <3> QED  BY <3>1, OrderedLists
  <2>4. DOMAIN runs = DOMAIN first
    BY DEF FEBE!Runs
  <2>5. DOMAIN first = 1..Len(first) /\ Len(first) \in Nat
    BY <2>3 DEF Lists
  <2>6. spec[k].part = "type" => Len(first) = 0
    <3> SUFFICES ASSUME spec[k].part = "type" PROVE Len(first) = 0
      OBVIOUS
    <3>1. items = << >>
      BY DEF FEBE!ItemsOf
    <3>2. S \intersect (1..Len(items)) = {}
      BY <3>1
    <3> HIDE DEF first
    <3>3. first \in Seq({})
      BY <2>3, <3>2 DEF Lists
    <3> QED  BY <3>3
  <2> DEFINE n == Len(first)
  <2>7. Part1(k) = [j \in 1..n |-> [doc |-> spec[k].doc, items |-> FEBE!ToSet(runs[j])]]
    BY <2>4, <2>5
  <2> HIDE DEF first, runs, items, Part1
  <2>8. \A j \in 1..n : Part1(k)[j].doc = spec[k].doc /\ spec[k].doc \in D
    BY <2>1, <2>5, <2>6, <2>7
  <2> QED  BY <2>5, <2>7, <2>8
<1>3. DOMAIN spec = 1..Len(spec) /\ Len(spec) \in Nat
  BY DEF IsSpans
<1> HIDE DEF Part1
<1>4. \A r \in X : r.doc \in D
  <2> SUFFICES ASSUME NEW k \in DOMAIN spec, NEW r \in FEBE!ToSet(Part1(k)) PROVE r.doc \in D
    OBVIOUS
  <2> QED  BY <1>2 DEF FEBE!ToSet
<1>5. \A k \in DOMAIN spec : Part1(k) \in Seq(X)
  <2> SUFFICES ASSUME NEW k \in DOMAIN spec PROVE Part1(k) \in Seq(X)
    OBVIOUS
  <2>1. PICK n \in Nat : DOMAIN Part1(k) = 1..n /\ Part1(k) = [j \in 1..n |-> Part1(k)[j]]
    BY <1>2
  <2>2. \A j \in 1..n : Part1(k)[j] \in X
    BY <2>1 DEF FEBE!ToSet
  <2> HIDE DEF X
  <2> QED  BY <2>1, <2>2
<1> HIDE DEF X
<1>6. s \in Seq(Seq(X)) /\ Len(s) \in Nat
  BY <1>3, <1>5
<1> HIDE DEF s
<1>7. FlattenSeq(s) \in Seq(X) /\ FEBE!FlattenSeq(s) = FlattenSeq(s)
  BY <1>6, FlattenIs, FlattenIsFlat
<1> DEFINE t == FEBE!Sporgls(st, spec)
<1>8. t \in Seq(X)
  BY <1>1, <1>7
<1> HIDE DEF t
<1>9. t # << >> => Head(t) \in X
  BY <1>8
<1> QED  BY <1>4, <1>9 DEF t

LEMMA SoundMade ==
    ASSUME NEW st, NEW K, Sound(st, K), NEW x \in DOMAIN st.docs
    PROVE  /\ Sound(Made(st, x), K)
           /\ DOMAIN Made(st, x).docs = DOMAIN st.docs /\ Made(st, x).ends = st.ends
           /\ Made(st, x).docs[x].links = st.docs[x].links
           /\ Made(st, x).docs[x].made = st.docs[x].made + 1
<1> DEFINE doc == st.docs[x]
           new == Orgl(doc.text, doc.links, doc.chars, doc.made + 1)
<1>1. Made(st, x) = Changed(st, x, new, {})
  BY MadeIs DEF Made, Sound
<1>2. /\ doc.text \in Seq({} \union ShownIn(st, x)) /\ IsLinks(doc.links, {} \union ShownIn(st, x))
      /\ doc.made \in Nat
  BY DocGrows
<1>3. doc.made + 1 \in Nat /\ doc.made <= doc.made + 1
  BY <1>2
<1>4. Sound(Changed(st, x, new, {}), K)
  BY <1>2, <1>3, SoundDoc
<1>5. new.links = doc.links /\ new.made = doc.made + 1
  BY DEF Orgl
<1> HIDE DEF new
<1>6. /\ DOMAIN Changed(st, x, new, {}).docs = DOMAIN st.docs
      /\ Changed(st, x, new, {}).docs[x] = new /\ Changed(st, x, new, {}).ends = st.ends
  BY DEF Changed, Store, FEBE!With
<1> QED  BY <1>1, <1>4, <1>5, <1>6

LEMMA SoundLinkPut ==
    ASSUME NEW st, NEW K, Sound(st, K), NEW x \in DOMAIN st.docs, NEW at \in Nat \ {0}, NEW link
    PROVE  /\ Sound(LinkPut(st, x, at, link), K)
           /\ DOMAIN LinkPut(st, x, at, link).docs = DOMAIN st.docs
           /\ LinkPut(st, x, at, link).ends = st.ends
           /\ LinkPut(st, x, at, link).docs[x].made = st.docs[x].made
<1> DEFINE doc == st.docs[x]
           links == FEBE!With(doc.links, at, link)
           new == Orgl(doc.text, links, doc.chars, doc.made)
           X == {link} \union ShownIn(st, x)
<1>1. LinkPut(st, x, at, link) = Changed(st, x, new, {link})
  BY LinkPutIs DEF LinkPut, Sound
<1>2. /\ doc.text \in Seq(X) /\ IsLinks(doc.links, X) /\ doc.made \in Nat
  BY DocGrows
<1>3. IsLinks(links, X)
  <2>1. link \in X
    OBVIOUS
  <2> HIDE DEF X
  <2>2. /\ DOMAIN links = DOMAIN doc.links \union {at}
        /\ links \in [DOMAIN links -> X]
    BY <1>2, <2>1 DEF IsLinks, FEBE!With
  <2>3. PICK n \in Nat : DOMAIN doc.links \subseteq 1..n
    BY <1>2 DEF IsLinks
  <2>4. n + at \in Nat /\ DOMAIN links \subseteq 1..(n + at)
    BY <2>2, <2>3
  <2> HIDE DEF links
  <2> QED  BY <2>2, <2>4 DEF IsLinks
<1>4. doc.made <= doc.made
  BY <1>2
<1>5. new.made = doc.made
  BY DEF Orgl
<1> HIDE DEF links
<1>6. Sound(Changed(st, x, new, {link}), K)
  BY <1>2, <1>3, <1>4, SoundDoc
<1> HIDE DEF new
<1>7. /\ DOMAIN Changed(st, x, new, {link}).docs = DOMAIN st.docs
      /\ Changed(st, x, new, {link}).docs[x] = new /\ Changed(st, x, new, {link}).ends = st.ends
  BY DEF Changed, Store, FEBE!With
<1> QED  BY <1>1, <1>5, <1>6, <1>7

\* The link is a new one: nothing that was deleted gives its number back.
LEMMA SoundCreateLink ==
    ASSUME NEW st, NEW K, Sound(st, K), NEW c, NEW a, NEW x \in DOMAIN st.docs, NEW specs,
           Ours(x) => \A e \in FEBE!Ends : IsSpans(specs[e], {y \in DOMAIN st.docs : Ours(y)})
    PROVE  Sound(FEBE!CreateLink(st, c, a, x, specs).store, K)
<1> DEFINE st1 == Made(st, x)
           at == NextAt(st, x)
           link == NextLink(st, x)
           st2 == LinkPut(st1, x, at, link)
           ends == EndsOf(st2, specs)
<1>1. /\ Sound(st1, K) /\ DOMAIN st1.docs = DOMAIN st.docs /\ st1.ends = st.ends
      /\ st1.docs[x].made = st.docs[x].made + 1
  BY SoundMade
<1>2. at \in Nat \ {0}
  <2>1. IsLinks(st.docs[x].links, ShownIn(st, x))
    BY DEF Sound, IndexRight, IsOrgl
  <2>2. PICK n \in Nat : DOMAIN st.docs[x].links \subseteq 1..n
    BY <2>1 DEF IsLinks
  <2>3. FEBE!Max({0} \union DOMAIN st.docs[x].links) \in Nat
    BY <2>2, MaxIs
  <2> QED  BY <2>3 DEF NextAt
<1>3. st.docs[x].made \in Nat
  BY DocGrows
<1>4. link.home = x /\ link.n = st.docs[x].made + 1
  BY DEF NextLink, FEBE!Link
<1>5. link \notin DOMAIN st.ends
  <2> SUFFICES ASSUME link \in DOMAIN st.ends PROVE FALSE
    OBVIOUS
  <2>1. link.n <= st.docs[link.home].made
    BY DEF Sound, LinksNumbered
  <2> QED  BY <1>3, <1>4, <2>1
<1> HIDE DEF st1, at, link
<1>6. /\ Sound(st2, K) /\ DOMAIN st2.docs = DOMAIN st.docs /\ st2.ends = st.ends
      /\ st2.docs[x].made = st.docs[x].made + 1
  BY <1>1, <1>2, SoundLinkPut
<1>7. Standing(st, x) = st2
  BY DEF Standing, st1, at, link
<1> HIDE DEF st2
<1>8. \A e \in FEBE!Ends : Ours(x) /\ ends[e] # << >> =>
          Head(ends[e]).doc \in {y \in DOMAIN st2.docs : Ours(y)}
  <2> SUFFICES ASSUME NEW e \in FEBE!Ends, Ours(x), ends[e] # << >>
               PROVE  Head(ends[e]).doc \in {y \in DOMAIN st2.docs : Ours(y)}
    OBVIOUS
  <2> DEFINE D == {y \in DOMAIN st2.docs : Ours(y)}
  <2>1. D \subseteq DOMAIN st2.docs /\ IsSpans(specs[e], D)
    BY <1>6
  <2>2. ends[e] = FEBE!Sporgls(st2, specs[e])
    BY DEF EndsOf
  <2> HIDE DEF D, ends
  <2>3. Head(ends[e]).doc \in D
    BY <1>6, <2>1, <2>2, SporglsTyped
  <2> QED  BY <2>3 DEF D
<1> HIDE DEF ends
<1>9. Sound(Linked(st2, link, ends), K)
  <2>1. link \notin DOMAIN st2.ends /\ link.home \in DOMAIN st2.docs /\ link.n \in Nat
        /\ link.n <= st2.docs[link.home].made
    BY <1>3, <1>4, <1>5, <1>6
  <2> QED  BY <1>4, <1>6, <1>8, <2>1, SoundLinked
<1>10. FEBE!CreateLink(st, c, a, x, specs)
           = IF FEBE!MayWrite(st, c, a, x) THEN FEBE!Given(Linked(st2, link, ends), link)
             ELSE FEBE!Given(st1, FEBE!Failed)
  <2>1. Shape(Standing(st, x))
    BY <1>6, <1>7 DEF Sound
  <2> QED  BY <1>7, <2>1, CreateLinkIs DEF st1, link, ends
<1> QED  BY <1>1, <1>9, <1>10 DEF FEBE!Given

-----------------------------------------------------------------------------
(* What the neighbour does does not touch the part of the others.          *)

LEMMA TheirsPutText ==
    ASSUME NEW st, Shape(st), NEW x \in DOMAIN st.docs, ~Ours(x), NEW p, NEW items
    PROVE  Part(FEBE!PutText(st, x, p, items)) = Part(st)
<1> DEFINE doc == st.docs[x]
           new == Orgl(FEBE!Put(doc.text, p, items), doc.links, doc.chars, doc.made)
           I == FEBE!ToSet(items)
<1>1. FEBE!PutText(st, x, p, items) = Changed(st, x, new, I)
  BY PutTextIs
<1> HIDE DEF new, I
<1> QED  BY <1>1, PartTheirs

LEMMA TheirsCopy ==
    ASSUME NEW st, Shape(st), NEW x \in DOMAIN st.docs, ~Ours(x), NEW c, NEW a, NEW p, NEW spec
    PROVE  Part(FEBE!Copy(st, c, a, x, p, spec).store) = Part(st)
<1> DEFINE items == FEBE!Items(st, spec)
<1>1. FEBE!Copy(st, c, a, x, p, spec).store
          = IF FEBE!MayWrite(st, c, a, x) THEN FEBE!PutText(st, x, p, items) ELSE st
  BY DEF FEBE!Copy, FEBE!Given
<1> HIDE DEF items
<1> QED  BY <1>1, TheirsPutText

LEMMA TheirsInsert ==
    ASSUME NEW st, NEW K, Sound(st, K), NEW x \in DOMAIN st.docs, ~Ours(x), NEW c, NEW a, NEW p, NEW n
    PROVE  Part(FEBE!Insert(st, c, a, x, p, n).store) = Part(st)
<1> DEFINE doc == st.docs[x]
           items == [k \in 1..n |-> FEBE!Char(x, doc.chars + k)]
           st2 == [st EXCEPT !.docs[x].chars = @ + n]
           new == Orgl(doc.text, doc.links, doc.chars + n, doc.made)
<1>1. st2 = Changed(st, x, new, {})
  BY CharsIs DEF Sound
<1>2. Shape(Changed(st, x, new, {}))
  BY ChangedShape DEF Sound
<1>3. FEBE!Insert(st, c, a, x, p, n).store
          = IF FEBE!MayWrite(st, c, a, x) THEN FEBE!PutText(st2, x, p, items) ELSE st2
  BY DEF FEBE!Insert, FEBE!Given
<1> HIDE DEF items, st2, new
<1>4. Part(st2) = Part(st)
  BY <1>1, PartTheirs
<1>5. Shape(st2) /\ x \in DOMAIN st2.docs
  <2>1. x \in DOMAIN Changed(st, x, new, {}).docs
    BY DEF Changed, Store, FEBE!With
  <2> QED  BY <1>1, <1>2, <2>1
<1>6. Part(FEBE!PutText(st2, x, p, items)) = Part(st2)
  BY <1>5, TheirsPutText
<1> QED  BY <1>3, <1>4, <1>6

LEMMA TheirsCreateLink ==
    ASSUME NEW st, NEW K, Sound(st, K), NEW x \in DOMAIN st.docs, ~Ours(x), NEW c, NEW a, NEW specs
    PROVE  Part(FEBE!CreateLink(st, c, a, x, specs).store) = Part(st)
<1> DEFINE doc == st.docs[x]
           st1 == Made(st, x)
           at == NextAt(st, x)
           link == NextLink(st, x)
           st2 == LinkPut(st1, x, at, link)
           ends == EndsOf(st2, specs)
           new == Orgl(doc.text, doc.links, doc.chars, doc.made + 1)
<1>1. Part(st1) = Part(st)
  <2>1. st1 = Changed(st, x, new, {})
    BY MadeIs DEF Made, Sound
  <2> HIDE DEF st1, new
  <2> QED  BY <2>1, PartTheirs
<1>2. Shape(st1) /\ DOMAIN st1.docs = DOMAIN st.docs
  BY SoundMade DEF Sound
<1>3. link.home = x
  BY DEF NextLink, FEBE!Link
<1> HIDE DEF st1, at, link
<1>4. Part(st2) = Part(st1) /\ Shape(st2)
  <2> DEFINE d1 == st1.docs[x]
             put == Orgl(d1.text, FEBE!With(d1.links, at, link), d1.chars, d1.made)
  <2>1. st2 = Changed(st1, x, put, {link})
    BY <1>2, LinkPutIs DEF LinkPut
  <2>2. Shape(Changed(st1, x, put, {link}))
    BY <1>2, ChangedShape
  <2> HIDE DEF st2, put
  <2> QED  BY <2>1, <2>2, PartTheirs
<1>5. Standing(st, x) = st2
  BY DEF Standing, st1, at, link
<1> HIDE DEF st2
<1>6. FEBE!CreateLink(st, c, a, x, specs)
          = IF FEBE!MayWrite(st, c, a, x) THEN FEBE!Given(Linked(st2, link, ends), link)
            ELSE FEBE!Given(st1, FEBE!Failed)
  <2>1. Shape(Standing(st, x))
    BY <1>4, <1>5
  <2> QED  BY <1>5, <2>1, CreateLinkIs DEF st1, link, ends
<1> HIDE DEF ends
<1>7. Part(Linked(st2, link, ends)) = Part(st2)
  BY <1>3, PartTheirLink
<1> QED  BY <1>1, <1>4, <1>6, <1>7 DEF FEBE!Given

LEMMA TheirsCreateDocument ==
    ASSUME NEW st, Shape(st)
    PROVE  /\ Part(FEBE!CreateDocument(st, NEIGHBOURS_ACCOUNT).store) = Part(st)
           /\ ~Ours(FEBE!CreateDocument(st, NEIGHBOURS_ACCOUNT).answer)
<1> DEFINE v == FEBE!NewDocument(st, NEIGHBOURS_ACCOUNT)
<1>1. /\ FEBE!CreateDocument(st, NEIGHBOURS_ACCOUNT).store = [st EXCEPT !.docs = FEBE!With(@, v, FEBE!Blank)]
      /\ FEBE!CreateDocument(st, NEIGHBOURS_ACCOUNT).answer = v
  BY DEF FEBE!CreateDocument, FEBE!Given
<1>2. ~Ours(v)
  BY DEF FEBE!NewDocument, Ours, FEBE!Owns
<1> HIDE DEF v
<1>3. [st EXCEPT !.docs = FEBE!With(@, v, FEBE!Blank)] = Changed(st, v, FEBE!Blank, {})
  BY NewDocIs
<1> QED  BY <1>1, <1>2, <1>3, PartTheirs

LEMMA TheirsOpenDocument ==
    ASSUME NEW st, NEW K, Sound(st, K), NEW x \in DOMAIN st.docs,
           NEW type \in {READ_ONLY, READ_WRITE},
           NEW mode \in {CONFLICT_FAIL, CONFLICT_COPY, ALWAYS_COPY}
    PROVE  Part(FEBE!OpenDocument(st, NEIGHBOUR, NEIGHBOURS_ACCOUNT, x, type, mode).store) = Part(st)
<1> DEFINE c == NEIGHBOUR
           a == NEIGHBOURS_ACCOUNT
           state == FEBE!CheckForOpen(st, c, a, x, type)
           v == FEBE!VersionAddress(st, a, x)
           new == FEBE!OpenDocument(st, c, a, x, type, mode)
<1>1. new = IF mode # ALWAYS_COPY /\ state = 0 THEN FEBE!Given(FEBE!AddToOpen(st, c, x, type), x)
            ELSE IF mode # ALWAYS_COPY /\ state = READ_ONLY
            THEN FEBE!Given(OpenedTwice(st, c, x), x)
            ELSE IF mode = CONFLICT_FAIL THEN FEBE!Given(st, FEBE!Failed)
            ELSE FEBE!Given(FEBE!AddToOpen(FEBE!WithVersion(st, x, v), c, v, type), v)
  BY OpenDocumentIs DEF OpenedVersion
<1>2. ~Ours(v)
  <2>1. a \in AccountName
    BY DEF AccountName
  <2>2. FEBE!NewDocument(st, a)[1] = a /\ FEBE!NewVersion(st, x)[1] = x[1]
    BY <2>1, FreshAddresses
  <2>3. v = IF FEBE!Owns(a, x) THEN FEBE!NewVersion(st, x) ELSE FEBE!NewDocument(st, a)
    BY DEF FEBE!VersionAddress
  <2> QED  BY <2>2, <2>3 DEF Ours, FEBE!Owns
<1>3. Part(FEBE!AddToOpen(st, c, x, type)) = Part(st) /\ Part(OpenedTwice(st, c, x)) = Part(st)
  BY PartAddToOpen, PartOpenedTwice DEF Sound
<1> HIDE DEF new, v, state
<1>4. Part(FEBE!AddToOpen(FEBE!WithVersion(st, x, v), c, v, type)) = Part(st)
  <2> DEFINE doc == st.docs[x]
             put == FEBE!VersionOf(doc)
             I == FEBE!ToSet(doc.text \o FEBE!LinksOf(doc))
             mid == FEBE!WithVersion(st, x, v)
  <2>1. mid = Changed(st, v, put, I)
    BY VersionIs DEF Sound
  <2>2. Shape(mid)
    BY VersionShape DEF Sound
  <2> HIDE DEF mid, put, I
  <2>3. Part(mid) = Part(st)
    BY <1>2, <2>1, PartTheirs
  <2>4. Part(FEBE!AddToOpen(mid, c, v, type)) = Part(mid)
    BY <2>2, PartAddToOpen
  <2> QED  BY <2>3, <2>4 DEF mid
<1>5. \A store, reply : FEBE!Given(store, reply).store = store
  BY DEF FEBE!Given
<1> HIDE DEF c, a
<1>6. Part(new.store) = Part(st)
  <2>1. CASE mode # ALWAYS_COPY /\ state = 0
    BY <1>1, <1>3, <1>5, <2>1
  <2>2. CASE mode # ALWAYS_COPY /\ state # 0 /\ state = READ_ONLY
    BY <1>1, <1>3, <1>5, <2>2
  <2>3. CASE ~(mode # ALWAYS_COPY /\ (state = 0 \/ state = READ_ONLY)) /\ mode = CONFLICT_FAIL
    BY <1>1, <1>5, <2>3
  <2>4. CASE ~(mode # ALWAYS_COPY /\ (state = 0 \/ state = READ_ONLY)) /\ mode # CONFLICT_FAIL
    BY <1>1, <1>4, <1>5, <2>4
  <2> QED  BY <2>1, <2>2, <2>3, <2>4
<1> QED  BY <1>6 DEF new, c, a

\* The stores that the two back ends start with.
LEMMA SoundEmpty == Sound(FEBE!EmptyStore, {}) /\ Part(FEBE!EmptyStore) = FEBE!EmptyStore
<1> DEFINE st == FEBE!EmptyStore
<1>1. /\ DOMAIN st.docs = {} /\ DOMAIN st.ends = {} /\ DOMAIN st.open = {}
      /\ st.spanf.docs = {} /\ st.spanf.links = {}
      /\ st = Store(st.docs, st.ends, st.spanf.docs, st.spanf.links, st.open)
      /\ st.docs = [x \in DOMAIN st.docs |-> st.docs[x]]
  BY DEF FEBE!EmptyStore, FEBE!Nothing, Store
<1>2. Part(st) = st
  BY DEF FEBE!EmptyStore, FEBE!Nothing, Part, Store
<1> HIDE DEF st
<1>3. Shape(st)
  BY <1>1 DEF Shape
<1>4. Numbered(DOMAIN st.docs)
  BY <1>1, FS_EmptySet DEF Numbered
<1>5. IndexRight(st) /\ LinksNumbered(st) /\ EndsKnown(st) /\ OnlyReads(st)
  BY <1>1 DEF IndexRight, LinksNumbered, EndsKnown, OnlyReads
<1> QED  BY <1>1, <1>2, <1>3, <1>4, <1>5 DEF Sound, st

LEMMA NeighboursStoreIs ==
    /\ Sound(NeighboursStore, {NeighboursDoc}) /\ Part(NeighboursStore) = FEBE!EmptyStore
    /\ ~Ours(NeighboursDoc)
<1> DEFINE st == FEBE!EmptyStore
           a == NEIGHBOURS_ACCOUNT
           created == FEBE!CreateDocument(st, a).store
           opened == FEBE!OpenDocument(created, NEIGHBOUR, a, NeighboursDoc, READ_WRITE, CONFLICT_FAIL).store
<1>1. NeighboursStore = FEBE!Insert(opened, NEIGHBOUR, a, NeighboursDoc, 1, 1).store
  BY DEF NeighboursStore
<1>2. Sound(created, {NeighboursDoc}) /\ Part(created) = st /\ ~Ours(NeighboursDoc)
  <2>1. a \in AccountName
    BY DEF AccountName
  <2>2. Sound(created, {} \union {NeighboursDoc})
    BY <2>1, SoundEmpty, SoundCreateDocument DEF NeighboursDoc
  <2>3. {} \union {NeighboursDoc} = {NeighboursDoc}
    OBVIOUS
  <2>4. Part(created) = st /\ ~Ours(NeighboursDoc)
    BY SoundEmpty, TheirsCreateDocument DEF NeighboursDoc, Sound
  <2> HIDE DEF created, st
  <2> QED  BY <2>2, <2>3, <2>4
<1> HIDE DEF created
<1>3. Sound(opened, {NeighboursDoc}) /\ Part(opened) = st
  <2>1. NeighboursDoc \in DOMAIN created.docs
    BY <1>2 DEF Sound
  <2>2. a \in AccountName
    BY DEF AccountName
  <2>3. READ_WRITE \in {READ_ONLY, READ_WRITE} /\ CONFLICT_FAIL \in {CONFLICT_FAIL, CONFLICT_COPY, ALWAYS_COPY}
    OBVIOUS
  <2>4. Sound(opened, {NeighboursDoc})
    BY <1>2, <2>1, <2>2, <2>3, SoundOpenDocument
  <2>5. Part(opened) = Part(created)
    BY <1>2, <2>1, <2>3, TheirsOpenDocument
  <2> QED  BY <1>2, <2>4, <2>5
<1> HIDE DEF opened, st
<1>4. NeighboursDoc \in DOMAIN opened.docs /\ 1 \in 1..(Len(opened.docs[NeighboursDoc].text) + 1)
  <2>1. NeighboursDoc \in DOMAIN opened.docs
    BY <1>3 DEF Sound
  <2>2. Len(opened.docs[NeighboursDoc].text) \in Nat
    BY <1>3, <2>1, DocGrows
  <2> QED  BY <2>1, <2>2
<1>5. Sound(NeighboursStore, {NeighboursDoc})
  <2>1. 1 \in Nat
    OBVIOUS
  <2> QED  BY <1>1, <1>3, <1>4, <2>1, SoundInsert
<1>6. Part(NeighboursStore) = st
  BY <1>1, <1>2, <1>3, <1>4, TheirsInsert
<1> QED  BY <1>2, <1>5, <1>6 DEF st

-----------------------------------------------------------------------------
(* The inductive invariant: the back end that the scenario has for itself  *)
(* is the part of the other that is not the neighbour's.                   *)

StoresAgree ==
    /\ back = [alone |-> Part(back.shared), shared |-> back.shared]
    /\ Sound(back.shared, {NeighboursDoc})

AccountsOurs == account \in [Sessions -> AccountName \ {NEIGHBOURS_ACCOUNT}]

FollowedAlike ==
    /\ followed.shared = followed.alone
    /\ followed.alone \in Seq(FEBE!ToSet(followed.alone))
    /\ \A k \in DOMAIN followed.alone : followed.alone[k].part \in Parts

Inv == StoresAgree /\ AccountsOurs /\ FollowedAlike /\ Undisturbed

\* What the scenario asks about, it asks of both back ends alike.
LEMMA ResolvedIs ==
    ASSUME FollowedAlike, NEW spec, IsSpec(spec)
    PROVE  /\ IsSpans(Resolved("alone", spec), Documents)
           /\ Resolved("shared", spec) = Resolved("alone", spec)
<1> DEFINE Span(k) == CASE spec[k].part = "answer" -> followed["alone"]
                        [] spec[k].part = "type" -> <<spec[k]>>
                        [] OTHER -> <<[spec[k] EXCEPT !.doc = names[@]]>>
           s == [k \in DOMAIN spec |-> Span(k)]
           X == UNION {FEBE!ToSet(Span(k)) : k \in DOMAIN spec}
           spans == Resolved("alone", spec)
<1>1. spans = FlattenSeq(s)
  BY DEF Resolved
<1>2. Resolved("shared", spec) = spans
  BY DEF Resolved, FollowedAlike
<1>3. DOMAIN spec = 1..Len(spec) /\ Len(spec) \in Nat
  BY DEF IsSpec
<1>4. ASSUME NEW k \in DOMAIN spec
      PROVE  /\ Span(k) \in Seq(FEBE!ToSet(Span(k)))
             /\ \A j \in DOMAIN Span(k) : Span(k)[j].part \in Parts
  <2>1. /\ spec[k].part \in {"text", "links", "whole", "type", "answer"}
        /\ [spec[k] EXCEPT !.doc = names[@]].part = spec[k].part
    <3> DEFINE R == [doc : STRING, part : {"text", "links", "whole", "type", "answer"},
                     at : SUBSET Nat]
    <3>1. spec \in Seq(R) /\ k \in 1..Len(spec)
      BY <1>3 DEF IsSpec
    <3> HIDE DEF R
    <3>2. spec[k] \in R
      BY <3>1, ElementIs
    <3> USE DEF R
    <3>3. spec[k].part \in {"text", "links", "whole", "type", "answer"}
      BY <3>2
    <3>4. [spec[k] EXCEPT !.doc = names[@]].part = spec[k].part
      BY <3>2
    <3> QED  BY <3>3, <3>4
  <2>2. ASSUME NEW r, r.part \in Parts
        PROVE  <<r>> \in Seq(FEBE!ToSet(<<r>>)) /\ \A j \in DOMAIN <<r>> : <<r>>[j].part \in Parts
    <3>1. <<r>> \in Seq({r})
      OBVIOUS
    <3>2. <<r>> \in Seq(FEBE!ToSet(<<r>>))
      BY <3>1, SeqOfItsOwn
    <3> QED  BY <2>2, <3>2
  <2>3. CASE spec[k].part = "answer"
    BY <2>3 DEF FollowedAlike
  <2>4. CASE spec[k].part = "type"
    <3>1. Span(k) = <<spec[k]>> /\ spec[k].part \in Parts
      BY <2>4 DEF Parts
    <3> HIDE DEF Span
    <3> QED  BY <2>2, <3>1
  <2>5. CASE spec[k].part # "answer" /\ spec[k].part # "type"
    <3> DEFINE r == [spec[k] EXCEPT !.doc = names[@]]
    <3>1. Span(k) = <<r>>
      BY <2>5
    <3>2. r.part \in Parts
      BY <2>1, <2>5 DEF Parts
    <3> HIDE DEF Span, r
    <3> QED  BY <2>2, <3>1, <3>2
  <2> QED  BY <2>3, <2>4, <2>5
<1> HIDE DEF Span
<1>5. \A r \in X : r.part \in Parts
  <2> SUFFICES ASSUME NEW k \in DOMAIN spec, NEW r \in FEBE!ToSet(Span(k)) PROVE r.part \in Parts
    OBVIOUS
  <2> QED  BY <1>4 DEF FEBE!ToSet
<1>6. \A k \in DOMAIN spec : Span(k) \in Seq(X)
  <2> SUFFICES ASSUME NEW k \in DOMAIN spec PROVE Span(k) \in Seq(X)
    OBVIOUS
  <2>1. FEBE!ToSet(Span(k)) \subseteq X
    OBVIOUS
  <2> HIDE DEF X
  <2> QED  BY <1>4, <2>1, SeqGrows
<1> HIDE DEF X
<1>7. s \in Seq(Seq(X))
  BY <1>3, <1>6
<1> HIDE DEF s
<1>8. spans \in Seq(X)
  BY <1>1, <1>7, FlattenIs
<1>9. \A k \in DOMAIN spans : spans[k].part # "type" => spans[k].doc \in Documents
  BY DEF IsSpec
<1> HIDE DEF spans
<1>10. spans \in Seq(FEBE!ToSet(spans)) /\ \A k \in DOMAIN spans : spans[k].part \in Parts
  <2>1. \A k \in DOMAIN spans : spans[k] \in X
    BY <1>8
  <2> QED  BY <1>5, <1>8, <2>1, SeqOfItsOwn
<1> QED  BY <1>2, <1>9, <1>10 DEF IsSpans, spans

LEMMA ResolvedEndsIs ==
    ASSUME FollowedAlike, IsEnds(Request.ends)
    PROVE  /\ \A e \in FEBE!Ends : IsSpans(ResolvedEnds("alone")[e], Documents)
           /\ ResolvedEnds("shared") = ResolvedEnds("alone")
<1>1. DOMAIN Request.ends = FEBE!Ends /\ \A e \in FEBE!Ends : IsSpec(Request.ends[e])
  BY DEF IsEnds
<1>2. \A e \in FEBE!Ends : /\ IsSpans(Resolved("alone", Request.ends[e]), Documents)
                           /\ Resolved("shared", Request.ends[e]) = Resolved("alone", Request.ends[e])
  BY <1>1, ResolvedIs
<1>3. ResolvedEnds("shared") = ResolvedEnds("alone")
  BY <1>1, <1>2 DEF ResolvedEnds
<1>4. \A e \in FEBE!Ends : ResolvedEnds("alone")[e] = Resolved("alone", Request.ends[e])
  BY <1>1 DEF ResolvedEnds
<1> QED  BY <1>2, <1>3, <1>4

LEMMA StandsAlone ==
    ASSUME StoresAgree
    PROVE  LET st == back.shared
           IN  /\ back.alone = Part(st) /\ back["alone"] = Part(st) /\ back["shared"] = st
               /\ Sound(st, {NeighboursDoc}) /\ Shape(st) /\ OnlyReads(st) /\ IndexedExist(st)
               /\ DOMAIN st.docs \subseteq Address /\ \A x \in DOMAIN st.docs : Len(x) > 0
               /\ Documents = DOMAIN Part(st).docs
               /\ \A x \in Documents : x \in DOMAIN st.docs /\ Part(st).docs[x] = st.docs[x] /\ Ours(x)
<1> DEFINE st == back.shared
<1>1. back = [alone |-> Part(st), shared |-> st] /\ Sound(st, {NeighboursDoc})
  BY DEF StoresAgree
<1>2. back.alone = Part(st) /\ back["alone"] = Part(st) /\ back["shared"] = st
  BY <1>1
<1>3. Shape(st) /\ OnlyReads(st)
  BY <1>1 DEF Sound
<1>4. DOMAIN st.docs \subseteq Address /\ \A x \in DOMAIN st.docs : Len(x) > 0
  <2>1. DOMAIN st.docs \subseteq Address /\ \A x \in DOMAIN st.docs : Len(x) > 1
    BY <1>1, NumberedAre DEF Sound
  <2>2. \A x \in DOMAIN st.docs : Len(x) \in Nat
    BY <2>1 DEF Address
  <2> QED  BY <2>1, <2>2
<1>5. IndexedExist(st)
  <2>1. \A y \in st.spanf.docs : y[2] \in DOMAIN st.docs
    BY <1>1 DEF Sound, IndexRight
  <2>2. ASSUME NEW y \in st.spanf.links PROVE y.link \in DOMAIN st.ends
    <3>1. PICK l \in DOMAIN st.ends : y \in Entries(l, st.ends[l])
      BY <1>1 DEF Sound, IndexRight
    <3>2. y.link = l
      BY <3>1 DEF Entries
    <3> QED  BY <3>2
  <2> QED  BY <2>1, <2>2 DEF IndexedExist
<1>6. Documents = DOMAIN Part(st).docs
  BY <1>2 DEF Documents
<1>7. \A x \in Documents : x \in DOMAIN st.docs /\ Part(st).docs[x] = st.docs[x] /\ Ours(x)
  BY <1>6, PartDoc
<1> QED  BY <1>1, <1>2, <1>3, <1>4, <1>5, <1>6, <1>7

-----------------------------------------------------------------------------
(* The scenario's requests preserve it. *)

\* What the two back ends make of the request.
Replies(one, two) ==
    /\ back' = [alone |-> one.store, shared |-> two.store]
    /\ answer' = [alone |-> one.answer, shared |-> two.answer]
    /\ last' = Request

LEMMA Served ==
    ASSUME NEW STATE one, NEW STATE two, Agrees(one, two), Sound(two.store, {NeighboursDoc}),
           Replies(one, two)
    PROVE  /\ StoresAgree'
           /\ Request.op \notin {"find_links", "find_documents", "retrieve_endsets"} => Undisturbed'
<1>1. back' = [alone |-> Part(two.store), shared |-> two.store]
  BY DEF Agrees, Replies
<1>2. back'.shared = two.store
  BY <1>1
<1>3. StoresAgree'
  BY <1>1, <1>2 DEF StoresAgree
<1>4. answer'.alone = answer'.shared /\ last' = Request
  BY DEF Agrees, Replies
<1>5. Request.op \notin {"find_links", "find_documents", "retrieve_endsets"} => Undisturbed'
  BY <1>4 DEF Undisturbed
<1> QED  BY <1>3, <1>5

LEMMA AskerIs ==
    ASSUME AccountsOurs, AboutDocuments, todo # << >>
    PROVE  /\ Session # NEIGHBOUR /\ Session \in Sessions
           /\ CurrentAccount \in AccountName /\ CurrentAccount # NEIGHBOURS_ACCOUNT
<1>1. Session \in Sessions
  BY DEF Session, AboutDocuments, Sessions, SESSION
<1>2. Session # NEIGHBOUR
  BY <1>1 DEF Sessions, SESSION, NEIGHBOUR
<1> QED  BY <1>1, <1>2 DEF AccountsOurs, CurrentAccount

LEMMA RestKept ==
    ASSUME Inv, UNCHANGED <<account, followed>>
    PROVE  AccountsOurs' /\ FollowedAlike'
BY DEF Inv, AccountsOurs, FollowedAlike

LEMMA CreatesDocumentKeeps ==
    ASSUME Inv, Fits, CreatesDocument
    PROVE  Inv'
<1> DEFINE st == back.shared
           a == CurrentAccount
           one == FEBE!CreateDocument(Part(st), a)
           two == FEBE!CreateDocument(st, a)
<1>1. todo # << >> /\ Request.op = "create_document" /\ UNCHANGED <<account, followed>>
  BY DEF CreatesDocument, Calls
<1>2. Replies(one, two)
  BY StandsAlone DEF CreatesDocument, Serve, Replies, Inv
<1>3. a \in AccountName /\ a # NEIGHBOURS_ACCOUNT
  BY <1>1, AskerIs DEF Inv, Fits
<1>4. Sound(st, {NeighboursDoc}) /\ Shape(st) /\ DOMAIN st.docs \subseteq Address
  BY StandsAlone DEF Inv
<1> HIDE DEF st, a
<1>5. Agrees(one, two)
  BY <1>3, <1>4, AgreeCreateDocument
<1>6. Sound(two.store, {NeighboursDoc} \union {two.answer})
  BY <1>3, <1>4, SoundCreateDocument
<1> HIDE DEF one, two
<1>7. {NeighboursDoc} \subseteq {NeighboursDoc} \union {two.answer}
  OBVIOUS
<1>8. Sound(two.store, {NeighboursDoc})
  BY <1>6, <1>7, SoundLess
<1> HIDE DEF one, two
<1> QED  BY <1>1, <1>2, <1>5, <1>8, Served, RestKept DEF Inv

LEMMA CreatesVersionKeeps ==
    ASSUME Inv, Fits, CreatesVersion
    PROVE  Inv'
<1> DEFINE st == back.shared
           one == FEBE!CreateVersion(Part(st), d)
           two == FEBE!CreateVersion(st, d)
<1>1. todo # << >> /\ Request.op = "create_version" /\ UNCHANGED <<account, followed>>
  BY DEF CreatesVersion, Calls
<1>2. Replies(one, two)
  BY StandsAlone DEF CreatesVersion, Serve, Replies, Inv
<1>3. d \in Documents
  BY <1>1 DEF Fits, AboutDocuments, OfDocument
<1>4. /\ Sound(st, {NeighboursDoc}) /\ Shape(st) /\ DOMAIN st.docs \subseteq Address
      /\ d \in DOMAIN st.docs /\ d \in DOMAIN Part(st).docs /\ Len(d) > 0
  BY <1>3, StandsAlone DEF Inv
<1> HIDE DEF st
<1>5. Agrees(one, two)
  BY <1>4, AgreeCreateVersion
<1>6. Sound(two.store, {NeighboursDoc})
  BY <1>4, SoundCreateVersion
<1> HIDE DEF one, two
<1> QED  BY <1>1, <1>2, <1>5, <1>6, Served, RestKept DEF Inv

LEMMA OpensDocumentKeeps ==
    ASSUME Inv, Fits, OpensDocument
    PROVE  Inv'
<1> DEFINE st == back.shared
           a == CurrentAccount
           type == Request.access
           mode == Request.copy
           one == FEBE!OpenDocument(Part(st), Session, a, d, type, mode)
           two == FEBE!OpenDocument(st, Session, a, d, type, mode)
<1>1. todo # << >> /\ Request.op = "open_document" /\ UNCHANGED <<account, followed>>
  BY DEF OpensDocument, Calls
<1>2. Replies(one, two)
  BY StandsAlone DEF OpensDocument, Serve, Replies, Inv
<1>3. /\ d \in Documents /\ type \in {READ_ONLY, READ_WRITE}
      /\ mode \in {CONFLICT_FAIL, CONFLICT_COPY, ALWAYS_COPY}
  BY <1>1 DEF Fits, AboutDocuments, OfDocument, Calls
<1>4. /\ Sound(st, {NeighboursDoc}) /\ Shape(st) /\ OnlyReads(st) /\ DOMAIN st.docs \subseteq Address
      /\ d \in DOMAIN st.docs /\ d \in DOMAIN Part(st).docs /\ Len(d) > 0
  BY <1>3, StandsAlone DEF Inv
<1>5. /\ Session # NEIGHBOUR /\ a \in AccountName /\ a # NEIGHBOURS_ACCOUNT
  BY <1>1, AskerIs DEF Inv, Fits
<1> HIDE DEF st, a, type, mode
<1>6. Agrees(one, two)
  BY <1>3, <1>4, <1>5, AgreeOpenDocument
<1>7. Sound(two.store, {NeighboursDoc})
  BY <1>3, <1>4, <1>5, SoundOpenDocument
<1> HIDE DEF one, two
<1> QED  BY <1>1, <1>2, <1>6, <1>7, Served, RestKept DEF Inv

LEMMA ClosesDocumentKeeps ==
    ASSUME Inv, Fits, ClosesDocument
    PROVE  Inv'
<1> DEFINE st == back.shared
           one == FEBE!CloseDocument(Part(st), Session, d)
           two == FEBE!CloseDocument(st, Session, d)
<1>1. todo # << >> /\ Request.op = "close_document" /\ UNCHANGED <<account, followed>>
  BY DEF ClosesDocument, Calls
<1>2. Replies(one, two)
  BY StandsAlone DEF ClosesDocument, Serve, Replies, Inv
<1>3. Sound(st, {NeighboursDoc}) /\ Shape(st)
  BY StandsAlone DEF Inv
<1>4. Session # NEIGHBOUR
  BY <1>1, AskerIs DEF Inv, Fits
<1> HIDE DEF st
<1>5. Agrees(one, two)
  BY <1>3, <1>4, AgreeCloseDocument
<1>6. Sound(two.store, {NeighboursDoc})
  BY <1>3, <1>4, SoundCloseDocument
<1> HIDE DEF one, two
<1> QED  BY <1>1, <1>2, <1>5, <1>6, Served, RestKept DEF Inv

\* The document that a request edits, and who asks for it.
LEMMA EditedIs ==
    ASSUME Inv, Fits, todo # << >>, Request.op \in OfDocument
    PROVE  LET st == back.shared
           IN  /\ Sound(st, {NeighboursDoc}) /\ Shape(st) /\ OnlyReads(st)
               /\ d \in DOMAIN st.docs /\ d \in DOMAIN Part(st).docs
               /\ Session # NEIGHBOUR /\ TextLength = Len(st.docs[d].text)
<1> DEFINE st == back.shared
<1>1. d \in Documents
  BY DEF Fits, AboutDocuments
<1>2. Session # NEIGHBOUR
  BY AskerIs DEF Inv, Fits
<1>3. /\ Sound(st, {NeighboursDoc}) /\ Shape(st) /\ OnlyReads(st)
      /\ d \in DOMAIN st.docs /\ d \in DOMAIN Part(st).docs
      /\ back.alone = Part(st) /\ Part(st).docs[d] = st.docs[d]
  BY <1>1, StandsAlone DEF Inv
<1>4. TextLength = Len(st.docs[d].text)
  BY <1>3 DEF TextLength
<1> QED  BY <1>2, <1>3, <1>4

LEMMA InsertsKeeps ==
    ASSUME Inv, Fits, Inserts
    PROVE  Inv'
<1> DEFINE st == back.shared
           p == Request.at
           n == Request.n
           one == FEBE!Insert(Part(st), Session, CurrentAccount, d, p, n)
           two == FEBE!Insert(st, Session, CurrentAccount, d, p, n)
<1>1. todo # << >> /\ Request.op = "insert" /\ UNCHANGED <<account, followed>>
  BY DEF Inserts, Calls
<1>2. Replies(one, two)
  BY StandsAlone DEF Inserts, Serve, Replies, Inv
<1>3. p \in 1..(TextLength + 1) /\ n \in Nat
  BY <1>1 DEF Fits, WithinText, Calls
<1>4. Request.op \in OfDocument
  BY <1>1 DEF OfDocument
<1>5. /\ Sound(st, {NeighboursDoc}) /\ Shape(st) /\ OnlyReads(st)
      /\ d \in DOMAIN st.docs /\ d \in DOMAIN Part(st).docs
      /\ Session # NEIGHBOUR /\ TextLength = Len(st.docs[d].text)
  BY <1>1, <1>4, EditedIs
<1>6. p \in 1..(Len(st.docs[d].text) + 1)
  BY <1>3, <1>5
<1> HIDE DEF st, p, n
<1>7. Agrees(one, two)
  BY <1>5, AgreeInsert
<1>8. Sound(two.store, {NeighboursDoc})
  BY <1>3, <1>5, <1>6, SoundInsert
<1> HIDE DEF one, two
<1> QED  BY <1>1, <1>2, <1>7, <1>8, Served, RestKept DEF Inv

LEMMA RemovesKeeps ==
    ASSUME Inv, Fits, Removes
    PROVE  Inv'
<1> DEFINE st == back.shared
           part == Request.part
           p == Request.at
           n == Request.n
           one == FEBE!DeleteVspan(Part(st), Session, CurrentAccount, d, part, p, n)
           two == FEBE!DeleteVspan(st, Session, CurrentAccount, d, part, p, n)
<1>1. todo # << >> /\ Request.op = "remove" /\ UNCHANGED <<account, followed>>
  BY DEF Removes, Calls
<1>2. Replies(one, two)
  BY StandsAlone DEF Removes, Serve, Replies, Inv
<1>3. p \in Nat \ {0} /\ n \in Nat /\ (part = "text" => p <= TextLength + 1)
  BY <1>1 DEF Fits, WithinText, Calls
<1>4. Request.op \in OfDocument
  BY <1>1 DEF OfDocument
<1>5. /\ Sound(st, {NeighboursDoc}) /\ Shape(st) /\ OnlyReads(st)
      /\ d \in DOMAIN st.docs /\ d \in DOMAIN Part(st).docs
      /\ Session # NEIGHBOUR /\ TextLength = Len(st.docs[d].text)
  BY <1>1, <1>4, EditedIs
<1>6. part = "text" => p <= Len(st.docs[d].text) + 1
  BY <1>3, <1>5
<1> HIDE DEF st, part, p, n
<1>7. Agrees(one, two)
  BY <1>5, AgreeDelete
<1>8. Sound(two.store, {NeighboursDoc})
  BY <1>3, <1>5, <1>6, SoundDelete
<1> HIDE DEF one, two
<1> QED  BY <1>1, <1>2, <1>7, <1>8, Served, RestKept DEF Inv

LEMMA RearrangesKeeps ==
    ASSUME Inv, Fits, Rearranges
    PROVE  Inv'
<1> DEFINE st == back.shared
           cut == Request.cuts
           one == FEBE!Rearrange(Part(st), Session, CurrentAccount, d, cut)
           two == FEBE!Rearrange(st, Session, CurrentAccount, d, cut)
<1>1. todo # << >> /\ Request.op = "rearrange" /\ UNCHANGED <<account, followed>>
  BY DEF Rearranges, Calls
<1>2. Replies(one, two)
  BY StandsAlone DEF Rearranges, Serve, Replies, Inv
<1>3. /\ cut \in Seq(1..(TextLength + 1)) /\ Len(cut) = 4
      /\ \A k \in 1..3 : cut[k] <= cut[k + 1]
  BY <1>1 DEF Fits, WithinText, Calls
<1>4. Request.op \in OfDocument
  BY <1>1 DEF OfDocument
<1>5. /\ Sound(st, {NeighboursDoc}) /\ Shape(st) /\ OnlyReads(st)
      /\ d \in DOMAIN st.docs /\ d \in DOMAIN Part(st).docs
      /\ Session # NEIGHBOUR /\ TextLength = Len(st.docs[d].text)
  BY <1>1, <1>4, EditedIs
<1>6. cut \in Seq(1..(Len(st.docs[d].text) + 1))
  BY <1>3, <1>5
<1> HIDE DEF st, cut
<1>7. Agrees(one, two)
  BY <1>5, AgreeRearrange
<1>8. Sound(two.store, {NeighboursDoc})
  BY <1>3, <1>5, <1>6, SoundRearrange
<1> HIDE DEF one, two
<1> QED  BY <1>1, <1>2, <1>7, <1>8, Served, RestKept DEF Inv

LEMMA SpansMore ==
    ASSUME NEW D, NEW E, D \subseteq E, NEW spec, IsSpans(spec, D)
    PROVE  IsSpans(spec, E)
BY DEF IsSpans

LEMMA VcopiesKeeps ==
    ASSUME Inv, Fits, Vcopies
    PROVE  Inv'
<1> DEFINE st == back.shared
           p == Request.at
           spec == Resolved("alone", Request.spec)
           one == FEBE!Copy(Part(st), Session, CurrentAccount, d, p, spec)
           two == FEBE!Copy(st, Session, CurrentAccount, d, p, spec)
<1>1. todo # << >> /\ Request.op = "vcopy" /\ UNCHANGED <<account, followed>>
  BY DEF Vcopies, Calls
<1>2. Request.op \in OfDocument /\ IsSpec(Request.spec) /\ p \in 1..(TextLength + 1)
  BY <1>1 DEF Fits, WithinText, AboutDocuments, Calls, OfDocument, OfSpec
<1>3. IsSpans(spec, Documents) /\ Resolved("shared", Request.spec) = spec
  BY <1>2, ResolvedIs DEF Inv
<1>4. Replies(one, two)
  <2>1. back["alone"] = Part(st) /\ back["shared"] = st
    BY StandsAlone DEF Inv
  <2> HIDE DEF st
  <2> QED  BY <1>3, <2>1 DEF Vcopies, Serve, Replies
<1>5. /\ Sound(st, {NeighboursDoc}) /\ Shape(st) /\ OnlyReads(st)
      /\ d \in DOMAIN st.docs /\ d \in DOMAIN Part(st).docs
      /\ Session # NEIGHBOUR /\ TextLength = Len(st.docs[d].text)
  BY <1>1, <1>2, EditedIs
<1>6. p \in 1..(Len(st.docs[d].text) + 1)
  BY <1>2, <1>5
<1>7. Documents = DOMAIN Part(st).docs /\ Documents \subseteq DOMAIN st.docs
  BY StandsAlone DEF Inv
<1> HIDE DEF st, p, spec
<1>8. IsSpans(spec, DOMAIN Part(st).docs) /\ IsSpans(spec, DOMAIN st.docs)
  BY <1>3, <1>7, SpansMore
<1>9. Agrees(one, two)
  BY <1>5, <1>8, AgreeCopy
<1>10. Sound(two.store, {NeighboursDoc})
  BY <1>5, <1>6, <1>8, SoundCopy
<1> HIDE DEF one, two
<1> QED  BY <1>1, <1>4, <1>9, <1>10, Served, RestKept DEF Inv

LEMMA CreatesLinkKeeps ==
    ASSUME Inv, Fits, CreatesLink
    PROVE  Inv'
<1> DEFINE st == back.shared
           specs == ResolvedEnds("alone")
           one == FEBE!CreateLink(Part(st), Session, CurrentAccount, d, specs)
           two == FEBE!CreateLink(st, Session, CurrentAccount, d, specs)
<1>1. todo # << >> /\ Request.op = "create_link" /\ UNCHANGED <<account, followed>>
  BY DEF CreatesLink, Calls
<1>2. Request.op \in OfDocument /\ IsEnds(Request.ends)
  BY <1>1 DEF Fits, AboutDocuments, OfDocument, OfEnds
<1>3. (\A e \in FEBE!Ends : IsSpans(specs[e], Documents)) /\ ResolvedEnds("shared") = specs
  BY <1>2, ResolvedEndsIs DEF Inv
<1>4. Replies(one, two)
  <2>1. back["alone"] = Part(st) /\ back["shared"] = st
    BY StandsAlone DEF Inv
  <2> HIDE DEF st
  <2> QED  BY <1>3, <2>1 DEF CreatesLink, Serve, Replies
<1>5. /\ Sound(st, {NeighboursDoc}) /\ Shape(st) /\ OnlyReads(st)
      /\ d \in DOMAIN st.docs /\ d \in DOMAIN Part(st).docs
      /\ Session # NEIGHBOUR
  BY <1>1, <1>2, EditedIs
<1>6. Documents = DOMAIN Part(st).docs
  BY StandsAlone DEF Inv
<1>7. DOMAIN Part(st).docs = {y \in DOMAIN st.docs : Ours(y)}
  BY DEF Part, Store
<1> HIDE DEF st, specs
<1>8. \A e \in FEBE!Ends : IsSpans(specs[e], DOMAIN Part(st).docs)
  BY <1>3, <1>6
<1>9. \A e \in FEBE!Ends : IsSpans(specs[e], {y \in DOMAIN st.docs : Ours(y)})
  BY <1>7, <1>8
<1>10. Agrees(one, two)
  BY <1>5, <1>8, AgreeCreateLink
<1>11. Sound(two.store, {NeighboursDoc})
  BY <1>5, <1>9, SoundCreateLink
<1> HIDE DEF one, two
<1> QED  BY <1>1, <1>4, <1>10, <1>11, Served, RestKept DEF Inv

-----------------------------------------------------------------------------
(* Requests that read. *)

\* Of a request that reads, the answers decide.
LEMMA AnswersDecide ==
    ASSUME Inv, NEW STATE x, NEW STATE y, x = y,
           Replies(FEBE!Given(back["alone"], x), FEBE!Given(back["shared"], y)),
           Request.op \notin {"find_links", "find_documents", "retrieve_endsets"}
    PROVE  StoresAgree' /\ Undisturbed'
<1> DEFINE one == FEBE!Given(back["alone"], x)
           two == FEBE!Given(back["shared"], y)
<1>1. back["alone"] = Part(back["shared"]) /\ Sound(back["shared"], {NeighboursDoc})
  BY StandsAlone DEF Inv
<1>2. one.store = back["alone"] /\ two.store = back["shared"] /\ one.answer = two.answer
  BY DEF FEBE!Given
<1> HIDE DEF one, two
<1>3. Agrees(one, two) /\ Sound(two.store, {NeighboursDoc})
  BY <1>1, <1>2 DEF Agrees
<1>4. Replies(one, two)
  BY DEF one, two
<1> QED  BY <1>3, <1>4, Served

\* Where the answers differ, the stores are still those of before.
LEMMA StoresKept ==
    ASSUME Inv, NEW STATE x, NEW STATE y,
           Replies(FEBE!Given(back["alone"], x), FEBE!Given(back["shared"], y))
    PROVE  StoresAgree' /\ back' = back /\ answer'.alone = x /\ answer'.shared = y /\ last' = Request
<1>1. back = [alone |-> back["alone"], shared |-> back["shared"]]
  BY StandsAlone DEF Inv, StoresAgree
<1>2. back' = back
  BY <1>1 DEF Replies, FEBE!Given
<1>3. answer'.alone = x /\ answer'.shared = y /\ last' = Request
  BY DEF Replies, FEBE!Given
<1> QED  BY <1>2, <1>3 DEF Inv, StoresAgree

LEMMA SetsAccountKeeps ==
    ASSUME Inv, Fits, SetsAccount
    PROVE  Inv'
<1>1. todo # << >> /\ Request.op = "account"
  BY DEF SetsAccount, Calls
<1>2. Replies(FEBE!Given(back["alone"], FEBE!Done), FEBE!Given(back["shared"], FEBE!Done))
  BY DEF SetsAccount, Serve, Replies
<1>3. StoresAgree' /\ Undisturbed'
  BY <1>1, <1>2, AnswersDecide
<1>4. Request.account \in AccountName \ {NEIGHBOURS_ACCOUNT}
  BY <1>1 DEF Fits, AboutDocuments, Calls, AccountName
<1>5. account' = [account EXCEPT ![Session] = Request.account] /\ UNCHANGED followed
  BY DEF SetsAccount
<1>6. AccountsOurs'
  BY <1>4, <1>5 DEF Inv, AccountsOurs
<1>7. FollowedAlike'
  BY <1>5 DEF Inv, FollowedAlike
<1> QED  BY <1>3, <1>6, <1>7 DEF Inv

LEMMA FindsLinksKeeps ==
    ASSUME Inv, Fits, FindsLinks
    PROVE  Inv'
<1> DEFINE st == back.shared
           specs == ResolvedEnds("alone")
           x == FEBE!FindLinks(Part(st), specs)
           y == FEBE!FindLinks(st, specs)
<1>1. todo # << >> /\ Request.op = "find_links" /\ UNCHANGED <<account, followed>>
  BY DEF FindsLinks, Ask, Calls
<1>2. IsEnds(Request.ends)
  BY <1>1 DEF Fits, AboutDocuments, OfEnds
<1>3. (\A e \in FEBE!Ends : IsSpans(specs[e], Documents)) /\ ResolvedEnds("shared") = specs
  BY <1>2, ResolvedEndsIs DEF Inv
<1>4. /\ back["alone"] = Part(st) /\ back.alone = Part(st) /\ back["shared"] = st
      /\ IndexedExist(st) /\ Documents = DOMAIN Part(st).docs
  BY StandsAlone DEF Inv
<1>5. Replies(FEBE!Given(back["alone"], x), FEBE!Given(back["shared"], y))
  <2> HIDE DEF st
  <2> QED  BY <1>3, <1>4 DEF FindsLinks, Ask, Serve, Replies
<1>6. x = y \intersect DOMAIN back.alone.ends
  <2> HIDE DEF st, specs
  <2> QED  BY <1>3, <1>4, AgreeFindLinks
<1> HIDE DEF x, y, st
<1>7. StoresAgree' /\ back' = back /\ answer'.alone = x /\ answer'.shared = y /\ last' = Request
  BY <1>5, StoresKept
<1>8. Undisturbed'
  BY <1>1, <1>6, <1>7 DEF Undisturbed
<1> QED  BY <1>1, <1>7, <1>8, RestKept DEF Inv

LEMMA FindsDocumentsKeeps ==
    ASSUME Inv, Fits, FindsDocuments
    PROVE  Inv'
<1> DEFINE st == back.shared
           spec == Resolved("alone", Request.spec)
           x == FEBE!FindDocuments(Part(st), spec)
           y == FEBE!FindDocuments(st, spec)
<1>1. todo # << >> /\ Request.op = "find_documents" /\ UNCHANGED <<account, followed>>
  BY DEF FindsDocuments, Ask, Calls
<1>2. IsSpec(Request.spec)
  BY <1>1 DEF Fits, AboutDocuments, OfSpec
<1>3. IsSpans(spec, Documents) /\ Resolved("shared", Request.spec) = spec
  BY <1>2, ResolvedIs DEF Inv
<1>4. /\ back["alone"] = Part(st) /\ back.alone = Part(st) /\ back["shared"] = st
      /\ IndexedExist(st) /\ Documents = DOMAIN Part(st).docs
  BY StandsAlone DEF Inv
<1>5. Replies(FEBE!Given(back["alone"], x), FEBE!Given(back["shared"], y))
  <2> HIDE DEF st
  <2> QED  BY <1>3, <1>4 DEF FindsDocuments, Ask, Serve, Replies
<1>6. x = y \intersect DOMAIN back.alone.docs
  <2> HIDE DEF st, spec
  <2> QED  BY <1>3, <1>4, AgreeFindDocuments
<1> HIDE DEF x, y, st
<1>7. StoresAgree' /\ back' = back /\ answer'.alone = x /\ answer'.shared = y /\ last' = Request
  BY <1>5, StoresKept
<1>8. Undisturbed'
  BY <1>1, <1>6, <1>7 DEF Undisturbed
<1> QED  BY <1>1, <1>7, <1>8, RestKept DEF Inv

LEMMA RetrievesEndsetsKeeps ==
    ASSUME Inv, Fits, RetrievesEndsets
    PROVE  Inv'
<1> DEFINE st == back.shared
           spec == Resolved("alone", Request.spec)
           x == FEBE!RetrieveEndsets(Part(st), spec)
           y == FEBE!RetrieveEndsets(st, spec)
<1>1. todo # << >> /\ Request.op = "retrieve_endsets" /\ UNCHANGED <<account, followed>>
  BY DEF RetrievesEndsets, Ask, Calls
<1>2. IsSpec(Request.spec) /\ Head(spec).doc \in Documents
  BY <1>1 DEF Fits, AboutDocuments, OfSpec, Calls
<1>3. IsSpans(spec, Documents) /\ Resolved("shared", Request.spec) = spec
  BY <1>2, ResolvedIs DEF Inv
<1>4. /\ back["alone"] = Part(st) /\ back["shared"] = st /\ Documents = DOMAIN Part(st).docs
  BY StandsAlone DEF Inv
<1>5. Replies(FEBE!Given(back["alone"], x), FEBE!Given(back["shared"], y))
  <2> HIDE DEF st
  <2> QED  BY <1>3, <1>4 DEF RetrievesEndsets, Ask, Serve, Replies
<1>6. \A e \in FEBE!Ends : \A k \in DOMAIN x[e] : x[e][k].at \subseteq y[e][k].at
  <2> HIDE DEF st, spec
  <2> QED  BY <1>2, <1>3, <1>4, AgreeRetrieveEndsets
<1> HIDE DEF x, y, st
<1>7. StoresAgree' /\ back' = back /\ answer'.alone = x /\ answer'.shared = y /\ last' = Request
  BY <1>5, StoresKept
<1>8. Undisturbed'
  BY <1>1, <1>6, <1>7 DEF Undisturbed
<1> QED  BY <1>1, <1>7, <1>8, RestKept DEF Inv

LEMMA RetrievesContentsKeeps ==
    ASSUME Inv, Fits, RetrievesContents
    PROVE  Inv'
<1> DEFINE st == back.shared
           spec == Resolved("alone", Request.spec)
           x == FEBE!RetrieveContents(Part(st), Session, CurrentAccount, spec)
           y == FEBE!RetrieveContents(st, Session, CurrentAccount, spec)
<1>1. todo # << >> /\ Request.op = "retrieve_contents" /\ UNCHANGED <<account, followed>>
  BY DEF RetrievesContents, Ask, Calls
<1>2. IsSpec(Request.spec)
  BY <1>1 DEF Fits, AboutDocuments, OfSpec
<1>3. IsSpans(spec, Documents) /\ Resolved("shared", Request.spec) = spec
  BY <1>2, ResolvedIs DEF Inv
<1>4. /\ back["alone"] = Part(st) /\ back["shared"] = st
      /\ OnlyReads(st) /\ Documents = DOMAIN Part(st).docs
  BY StandsAlone DEF Inv
<1>5. Replies(FEBE!Given(back["alone"], x), FEBE!Given(back["shared"], y))
  <2> HIDE DEF st
  <2> QED  BY <1>3, <1>4 DEF RetrievesContents, Ask, Serve, Replies
<1>6. Session # NEIGHBOUR
  BY <1>1, AskerIs DEF Inv, Fits
<1>7. x = y
  <2> HIDE DEF st, spec
  <2> QED  BY <1>3, <1>4, <1>6, AgreeReads
<1> HIDE DEF x, y, st
<1>8. StoresAgree' /\ Undisturbed'
  BY <1>1, <1>5, <1>7, AnswersDecide
<1> QED  BY <1>1, <1>8, RestKept DEF Inv

LEMMA RetrievesVspansetKeeps ==
    ASSUME Inv, Fits, RetrievesVspanset
    PROVE  Inv'
<1> DEFINE st == back.shared
           x == FEBE!RetrieveVspanset(Part(st), Session, CurrentAccount, d)
           y == FEBE!RetrieveVspanset(st, Session, CurrentAccount, d)
<1>1. todo # << >> /\ Request.op = "retrieve_vspanset" /\ UNCHANGED <<account, followed>>
  BY DEF RetrievesVspanset, Ask, Calls
<1>2. d \in Documents
  BY <1>1 DEF Fits, AboutDocuments, OfDocument
<1>3. /\ back["alone"] = Part(st) /\ back["shared"] = st
      /\ OnlyReads(st) /\ Documents = DOMAIN Part(st).docs
  BY StandsAlone DEF Inv
<1>4. Replies(FEBE!Given(back["alone"], x), FEBE!Given(back["shared"], y))
  <2> HIDE DEF st
  <2> QED  BY <1>3 DEF RetrievesVspanset, Ask, Serve, Replies
<1>5. Session # NEIGHBOUR
  BY <1>1, AskerIs DEF Inv, Fits
<1>6. x = y
  <2> HIDE DEF st
  <2> QED  BY <1>2, <1>3, <1>5, AgreeReads
<1> HIDE DEF x, y, st
<1>7. StoresAgree' /\ Undisturbed'
  BY <1>1, <1>4, <1>6, AnswersDecide
<1> QED  BY <1>1, <1>7, RestKept DEF Inv

LEMMA ComparesVersionsKeeps ==
    ASSUME Inv, Fits, ComparesVersions
    PROVE  Inv'
<1> DEFINE st == back.shared
           s1 == Resolved("alone", Request.specs[1])
           s2 == Resolved("alone", Request.specs[2])
           x == FEBE!CompareVersions(Part(st), Session, CurrentAccount, s1, s2)
           y == FEBE!CompareVersions(st, Session, CurrentAccount, s1, s2)
<1>1. todo # << >> /\ Request.op = "compare_versions" /\ UNCHANGED <<account, followed>>
  BY DEF ComparesVersions, Ask, Calls
<1>2. IsSpec(Request.specs[1]) /\ IsSpec(Request.specs[2])
  BY <1>1 DEF Fits, AboutDocuments, Calls
<1>3. /\ IsSpans(s1, Documents) /\ Resolved("shared", Request.specs[1]) = s1
      /\ IsSpans(s2, Documents) /\ Resolved("shared", Request.specs[2]) = s2
  BY <1>2, ResolvedIs DEF Inv
<1>4. /\ back["alone"] = Part(st) /\ back["shared"] = st
      /\ OnlyReads(st) /\ Documents = DOMAIN Part(st).docs
  BY StandsAlone DEF Inv
<1>5. Replies(FEBE!Given(back["alone"], x), FEBE!Given(back["shared"], y))
  <2> HIDE DEF st
  <2> QED  BY <1>3, <1>4 DEF ComparesVersions, Ask, Serve, Replies
<1>6. Session # NEIGHBOUR
  BY <1>1, AskerIs DEF Inv, Fits
<1>7. x = y
  <2> HIDE DEF st, s1, s2
  <2> QED  BY <1>3, <1>4, <1>6, AgreeCompareVersions
<1> HIDE DEF x, y, st
<1>8. StoresAgree' /\ Undisturbed'
  BY <1>1, <1>5, <1>7, AnswersDecide
<1> QED  BY <1>1, <1>8, RestKept DEF Inv

\* What follow_link says can be asked about.
LEMMA PlacesTyped ==
    ASSUME NEW st, NEW x, NEW items
    PROVE  LET places == FEBE!PlacesOf(st, x, items)
           IN  /\ places \in Seq(FEBE!ToSet(places))
               /\ \A k \in DOMAIN places : places[k].part \in Parts
<1> DEFINE r == [doc |-> x, part |-> "text", at |-> {k \in DOMAIN st.docs[x].text : st.docs[x].text[k] \in items}]
           s == [doc |-> x, part |-> "links", at |-> {k \in DOMAIN st.docs[x].links : st.docs[x].links[k] \in items}]
<1>1. FEBE!PlacesOf(st, x, items) = <<r, s>>
  BY DEF FEBE!PlacesOf
<1>2. r.part \in Parts /\ s.part \in Parts
  BY DEF Parts
<1> HIDE DEF r, s
<1>3. <<r, s>> \in Seq({r, s})
  OBVIOUS
<1>4. <<r, s>> \in Seq(FEBE!ToSet(<<r, s>>))
  BY <1>3, SeqOfItsOwn
<1>5. \A k \in DOMAIN <<r, s>> : <<r, s>>[k].part \in Parts
  BY <1>2
<1> QED  BY <1>1, <1>4, <1>5

LEMMA FollowLinkIs ==
    ASSUME NEW st, NEW link, NEW e
    PROVE  FEBE!FollowLink(st, link, e)
               = IF link \notin DOMAIN st.ends \/ st.ends[link][e] = << >> THEN FEBE!Failed
                 ELSE FEBE!PlacesOf(st, Head(st.ends[link][e]).doc,
                                    UNION {x.items : x \in FEBE!ToSet(st.ends[link][e])})
BY DEF FEBE!FollowLink

LEMMA FollowsLinkKeeps ==
    ASSUME Inv, Fits, FollowsLink
    PROVE  Inv'
<1> DEFINE st == back.shared
           link == names[Request.link]
           e == Request.end
           Told(places) == IF places = FEBE!Failed THEN NOSPECS ELSE places
           x == Told(FEBE!FollowLink(Part(st), link, e))
           y == Told(FEBE!FollowLink(st, link, e))
<1>1. todo # << >> /\ Request.op = "follow_link" /\ UNCHANGED account /\ followed' = answer'
  BY DEF FollowsLink, Ask, Calls
<1>2. link \in DOMAIN back.alone.ends /\ e \in FEBE!Ends
  BY <1>1 DEF Fits, AboutDocuments, Calls
<1>3. /\ back["alone"] = Part(st) /\ back.alone = Part(st) /\ back["shared"] = st
      /\ Sound(st, {NeighboursDoc})
  BY StandsAlone DEF Inv
<1>4. Replies(FEBE!Given(back["alone"], x), FEBE!Given(back["shared"], y))
  <2> HIDE DEF st
  <2> QED  BY <1>3 DEF FollowsLink, Ask, Serve, Replies
<1>5. link \in DOMAIN Part(st).ends
  BY <1>2, <1>3
<1> HIDE DEF st, link, e
<1>6. st.ends[link][e] # << >> => Head(st.ends[link][e]).doc \in DOMAIN Part(st).docs
  <2>1. link \in DOMAIN st.ends /\ Ours(link.home)
    BY <1>5 DEF Part, Store
  <2>2. DOMAIN Part(st).docs = {z \in DOMAIN st.docs : Ours(z)}
    BY DEF Part, Store
  <2> QED  BY <1>2, <1>3, <2>1, <2>2 DEF Sound, EndsKnown
<1>7. FEBE!FollowLink(Part(st), link, e) = FEBE!FollowLink(st, link, e)
  BY <1>2, <1>5, <1>6, AgreeFollowLink
<1>8. x = y
  BY <1>7
<1>9. x \in Seq(FEBE!ToSet(x)) /\ \A k \in DOMAIN x : x[k].part \in Parts
  <2>1. NOSPECS \in Seq(FEBE!ToSet(NOSPECS)) /\ \A k \in DOMAIN NOSPECS : NOSPECS[k].part \in Parts
    BY DEF NOSPECS
  <2> DEFINE places == FEBE!FollowLink(Part(st), link, e)
             P == FEBE!PlacesOf(Part(st), Head(Part(st).ends[link][e]).doc,
                                UNION {z.items : z \in FEBE!ToSet(Part(st).ends[link][e])})
  <2>2. places = FEBE!Failed \/ places = P
    <3>1. \A store : FEBE!FollowLink(store, link, e) = FEBE!Failed
                        \/ FEBE!FollowLink(store, link, e)
                             = FEBE!PlacesOf(store, Head(store.ends[link][e]).doc,
                                             UNION {z.items : z \in FEBE!ToSet(store.ends[link][e])})
      BY FollowLinkIs
    <3> QED  BY <3>1
  <2>3. P \in Seq(FEBE!ToSet(P)) /\ \A k \in DOMAIN P : P[k].part \in Parts
    BY PlacesTyped
  <2> HIDE DEF P, places
  <2>4. x = NOSPECS \/ x = P
    BY <2>2 DEF places
  <2> HIDE DEF x
  <2> QED  BY <2>1, <2>3, <2>4
<1> HIDE DEF x, y
<1>10. StoresAgree' /\ Undisturbed'
  BY <1>1, <1>4, <1>8, AnswersDecide
<1>11. answer'.alone = x /\ answer'.shared = x
  BY <1>4, <1>8, StoresKept
<1>12. FollowedAlike'
  BY <1>1, <1>9, <1>11 DEF FollowedAlike
<1>13. AccountsOurs'
  BY <1>1 DEF Inv, AccountsOurs
<1> QED  BY <1>10, <1>12, <1>13 DEF Inv

-----------------------------------------------------------------------------
(* So do the neighbour's. *)

\* What the neighbour changes of the store is not the scenario's.
LEMMA VisitKeeps ==
    ASSUME Inv, NEW STATE given, Visit(given),
           Part(given.store) = Part(back.shared), Sound(given.store, {NeighboursDoc})
    PROVE  Inv'
<1>1. back = [alone |-> Part(back.shared), shared |-> back.shared]
  BY DEF Inv, StoresAgree
<1>2. back' = [alone |-> Part(given.store), shared |-> given.store]
  <2>1. back' = [back EXCEPT !["shared"] = given.store]
    BY DEF Visit
  <2>2. ASSUME NEW p, NEW q, NEW r
        PROVE  [[alone |-> p, shared |-> q] EXCEPT !["shared"] = r] = [alone |-> p, shared |-> r]
    OBVIOUS
  <2>3. [[alone |-> Part(back.shared), shared |-> back.shared] EXCEPT !["shared"] = given.store]
            = [alone |-> Part(back.shared), shared |-> given.store]
    BY <2>2
  <2>4. back' = [alone |-> Part(back.shared), shared |-> given.store]
    BY <1>1, <2>1, <2>3
  <2> QED  BY <2>4
<1>3. back'.shared = given.store /\ back'.alone = back.alone
  BY <1>1, <1>2
<1>4. StoresAgree'
  BY <1>2, <1>3 DEF StoresAgree
<1>5. AccountsOurs' /\ FollowedAlike'
  BY RestKept DEF Visit
<1>6. Undisturbed'
  <2>1. answer' = answer /\ last' = last
    BY DEF Visit
  <2> QED  BY <1>3, <2>1 DEF Inv, Undisturbed
<1> QED  BY <1>4, <1>5, <1>6 DEF Inv

LEMMA NeighboursDocIs ==
    ASSUME Inv
    PROVE  LET st == back.shared
           IN  /\ Sound(st, {NeighboursDoc}) /\ Shape(st) /\ NeighboursDoc \in DOMAIN st.docs
               /\ ~Ours(NeighboursDoc) /\ back["shared"] = st
<1> DEFINE st == back.shared
<1>1. Sound(st, {NeighboursDoc}) /\ Shape(st) /\ back["shared"] = st
  BY StandsAlone DEF Inv
<1>2. NeighboursDoc \in DOMAIN st.docs
  BY <1>1 DEF Sound
<1> QED  BY <1>1, <1>2, NeighboursStoreIs

LEMMA VisitedExists ==
    ASSUME Inv, Fits, Comes
    PROVE  Visited \in DOMAIN back.shared.docs
<1>1. Visited \in Documents
  BY DEF Fits, AboutDocuments
<1> QED  BY <1>1, StandsAlone DEF Inv

\* The whole text of a document.
LEMMA TextIsSpans ==
    ASSUME NEW D, NEW x \in D
    PROVE  IsSpans(Text(x), D)
<1> DEFINE r == [doc |-> x, part |-> "text", at |-> 1..9999]
<1>1. Text(x) = <<r>>
  BY DEF Text, At, Spans
<1>2. r.part \in Parts /\ r.doc \in D
  BY DEF Parts
<1> HIDE DEF r
<1>3. <<r>> \in Seq({r})
  OBVIOUS
<1>4. <<r>> \in Seq(FEBE!ToSet(<<r>>))
  BY <1>3, SeqOfItsOwn
<1>5. \A k \in DOMAIN <<r>> : <<r>>[k].part \in Parts /\ <<r>>[k].doc \in D
  BY <1>2
<1> QED  BY <1>1, <1>4, <1>5 DEF IsSpans

LEMMA NeighbourOpensKeeps ==
    ASSUME Inv, Fits, NEW type \in {READ_ONLY, READ_WRITE}, NeighbourOpens(type)
    PROVE  Inv'
<1> DEFINE st == back.shared
           given == FEBE!OpenDocument(st, NEIGHBOUR, NEIGHBOURS_ACCOUNT, Visited, type, CONFLICT_COPY)
<1>1. Visited \in DOMAIN st.docs
  BY VisitedExists DEF NeighbourOpens
<1>2. Sound(st, {NeighboursDoc}) /\ back["shared"] = st
  BY NeighboursDocIs
<1>3. Visit(given)
  BY <1>2 DEF NeighbourOpens
<1>4. NEIGHBOURS_ACCOUNT \in AccountName /\ CONFLICT_COPY \in {CONFLICT_FAIL, CONFLICT_COPY, ALWAYS_COPY}
  BY DEF AccountName
<1> HIDE DEF st
<1>5. Part(given.store) = Part(st)
  BY <1>1, <1>2, <1>4, TheirsOpenDocument
<1>6. Sound(given.store, {NeighboursDoc})
  BY <1>1, <1>2, <1>4, SoundOpenDocument
<1> HIDE DEF given
<1> QED  BY <1>3, <1>5, <1>6, VisitKeeps DEF st

LEMMA NeighbourQuotesKeeps ==
    ASSUME Inv, Fits, NeighbourQuotes
    PROVE  Inv'
<1> DEFINE st == back.shared
           x == NeighboursDoc
           given == FEBE!Copy(st, NEIGHBOUR, NEIGHBOURS_ACCOUNT, x, 1, Text(Visited))
<1>1. Visited \in DOMAIN st.docs
  BY VisitedExists DEF NeighbourQuotes
<1>2. /\ Sound(st, {x}) /\ Shape(st) /\ x \in DOMAIN st.docs
      /\ ~Ours(x) /\ back["shared"] = st
  BY NeighboursDocIs
<1>3. Visit(given)
  BY <1>2 DEF NeighbourQuotes
<1> HIDE DEF st, x
<1>4. 1 \in 1..(Len(st.docs[x].text) + 1)
  <2>1. st.docs[x].text \in Seq(ShownIn(st, x))
    BY <1>2 DEF Sound, IndexRight, IsOrgl
  <2>2. Len(st.docs[x].text) \in Nat
    BY <2>1
  <2> QED  BY <2>2
<1>5. IsSpans(Text(Visited), DOMAIN st.docs)
  BY <1>1, TextIsSpans
<1>6. Part(given.store) = Part(st)
  BY <1>2, TheirsCopy
<1>7. Sound(given.store, {x})
  BY <1>2, <1>4, <1>5, SoundCopy
<1> HIDE DEF given
<1> QED  BY <1>3, <1>6, <1>7, VisitKeeps DEF st, x

LEMMA NeighbourLinksKeeps ==
    ASSUME Inv, Fits, NeighbourLinks
    PROVE  Inv'
<1> DEFINE st == back.shared
           x == NeighboursDoc
           specs == <<Text(Visited), Text(x), NOSPECS>>
           given == FEBE!CreateLink(st, NEIGHBOUR, NEIGHBOURS_ACCOUNT, x, specs)
<1>1. /\ Sound(st, {x}) /\ Shape(st) /\ x \in DOMAIN st.docs
      /\ ~Ours(x) /\ back["shared"] = st
  BY NeighboursDocIs
<1>2. Visit(given)
  BY <1>1 DEF NeighbourLinks
<1> HIDE DEF st, x, specs
<1>3. Part(given.store) = Part(st)
  BY <1>1, TheirsCreateLink
<1>4. Sound(given.store, {x})
  BY <1>1, SoundCreateLink
<1> HIDE DEF given
<1> QED  BY <1>2, <1>3, <1>4, VisitKeeps DEF st, x

-----------------------------------------------------------------------------
(* The scenario leaves Inv to hold from its beginning to its end. *)

LEMMA InitInv ==
    ASSUME Init
    PROVE  Inv
<1>1. back = [alone |-> FEBE!EmptyStore, shared |-> NeighboursStore]
  BY DEF Init
<1>2. StoresAgree
  BY <1>1, NeighboursStoreIs DEF StoresAgree
<1>3. AccountsOurs
  <2>1. account = [s \in Sessions |-> DEFAULT_ACCOUNT]
    BY DEF Init
  <2>2. DEFAULT_ACCOUNT \in AccountName \ {NEIGHBOURS_ACCOUNT}
    BY DEF AccountName, DEFAULT_ACCOUNT, NEIGHBOURS_ACCOUNT
  <2> QED  BY <2>1, <2>2 DEF AccountsOurs
<1>4. FollowedAlike
  <2>1. followed = [w \in Worlds |-> NOSPECS]
    BY DEF Init
  <2>2. followed.shared = << >> /\ followed.alone = << >>
    BY <2>1 DEF Worlds, NOSPECS
  <2>3. << >> \in Seq(FEBE!ToSet(<< >>)) /\ DOMAIN << >> = {}
    OBVIOUS
  <2> QED  BY <2>2, <2>3 DEF FollowedAlike
<1>5. Undisturbed
  <2>1. answer = [w \in Worlds |-> FEBE!Done] /\ last.op = "start"
    BY DEF Init
  <2>2. answer.alone = answer.shared
    BY <2>1 DEF Worlds
  <2> QED  BY <2>1, <2>2 DEF Undisturbed
<1> QED  BY <1>2, <1>3, <1>4, <1>5 DEF Inv

LEMMA NextInv ==
    ASSUME Inv, Fits, [Next]_vars
    PROVE  Inv'
<1>1. CASE Next
  <2>1. CASE SetsAccount  BY <2>1, SetsAccountKeeps
  <2>2. CASE CreatesDocument  BY <2>2, CreatesDocumentKeeps
  <2>3. CASE CreatesVersion  BY <2>3, CreatesVersionKeeps
  <2>4. CASE OpensDocument  BY <2>4, OpensDocumentKeeps
  <2>5. CASE ClosesDocument  BY <2>5, ClosesDocumentKeeps
  <2>6. CASE Inserts  BY <2>6, InsertsKeeps
  <2>7. CASE Vcopies  BY <2>7, VcopiesKeeps
  <2>8. CASE Removes  BY <2>8, RemovesKeeps
  <2>9. CASE Rearranges  BY <2>9, RearrangesKeeps
  <2>10. CASE CreatesLink  BY <2>10, CreatesLinkKeeps
  <2>11. CASE FindsLinks  BY <2>11, FindsLinksKeeps
  <2>12. CASE FollowsLink  BY <2>12, FollowsLinkKeeps
  <2>13. CASE RetrievesEndsets  BY <2>13, RetrievesEndsetsKeeps
  <2>14. CASE FindsDocuments  BY <2>14, FindsDocumentsKeeps
  <2>15. CASE RetrievesContents  BY <2>15, RetrievesContentsKeeps
  <2>16. CASE RetrievesVspanset  BY <2>16, RetrievesVspansetKeeps
  <2>17. CASE ComparesVersions  BY <2>17, ComparesVersionsKeeps
  <2>18. CASE NeighbourReads  BY <2>18, NeighbourOpensKeeps DEF NeighbourReads
  <2>19. CASE NeighbourBranches  BY <2>19, NeighbourOpensKeeps DEF NeighbourBranches
  <2>20. CASE NeighbourQuotes  BY <2>20, NeighbourQuotesKeeps
  <2>21. CASE NeighbourLinks  BY <2>21, NeighbourLinksKeeps
  <2> QED
    BY <1>1, <2>1, <2>2, <2>3, <2>4, <2>5, <2>6, <2>7, <2>8, <2>9, <2>10, <2>11, <2>12,
       <2>13, <2>14, <2>15, <2>16, <2>17, <2>18, <2>19, <2>20, <2>21 DEF Next
<1>2. CASE UNCHANGED vars
  <2>1. UNCHANGED <<last, account, back, answer, followed>>
    BY <1>2 DEF vars
  <2> QED  BY <2>1 DEF Inv, StoresAgree, AccountsOurs, FollowedAlike, Undisturbed
<1> QED  BY <1>1, <1>2

-----------------------------------------------------------------------------
(* What a back end finds at a place where a document shows something. *)

\* What stands there, and where that is.
Stands(st, place, x, y) ==
    /\ x \in DOMAIN st.docs /\ y \in ShownIn(st, x)
    /\ place # << >> /\ place[1].doc = x /\ FEBE!Content(st, place) = {y}
    /\ \/ /\ place[1].part = "text"
          /\ \E p \in DOMAIN st.docs[x].text : place[1].at = {p} /\ st.docs[x].text[p] = y
       \/ /\ place[1].part = "links"
          /\ \E p \in DOMAIN st.docs[x].links : place[1].at = {p} /\ st.docs[x].links[p] = y

LEMMA ContentOfOne ==
    ASSUME NEW st, NEW span, NEW X, FEBE!ItemsOf(st, span) \in Seq(X)
    PROVE  FEBE!Content(st, <<span>>) = FEBE!ToSet(FEBE!ItemsOf(st, span))
<1> DEFINE s == FEBE!ItemsOf(st, span)
           t == [k \in DOMAIN <<span>> |-> FEBE!ItemsOf(st, <<span>>[k])]
<1>1. t = <<s>>
  OBVIOUS
<1>2. FEBE!Items(st, <<span>>) = FlattenSeq(t)
  BY DEF FEBE!Items, FEBE!FlattenSeq, FlattenSeq
<1> HIDE DEF s, t
<1>3. FlattenSeq(<<s>>) = s
  BY FlattenOne DEF s
<1> QED  BY <1>1, <1>2, <1>3 DEF FEBE!Content, s

LEMMA PlaceStands ==
    ASSUME NEW st, NEW K, Sound(st, K), NEW place \in Places(st)
    PROVE  \E x : \E y : Stands(st, place, x, y)
<1>1. ASSUME NEW p \in Nat PROVE p..(p + 1 - 1) = {p}
  BY <1>1
<1>2. ASSUME NEW x \in DOMAIN st.docs, NEW p \in DOMAIN st.docs[x].text, place = At(x, p, 1)
      PROVE  \E y : Stands(st, place, x, y)
  <2> DEFINE text == st.docs[x].text
             y == text[p]
             span == [doc |-> x, part |-> "text", at |-> p..(p + 1 - 1)]
             s == Standings(text, FEBE!Ordered({p}, Len(text)))
  <2>1. text \in Seq(ShownIn(st, x))
    BY DEF Sound, IndexRight, IsOrgl
  <2>2. p \in Nat /\ y \in ShownIn(st, x)
    BY <2>1
  <2>3. place = <<span>> /\ span.at = {p}
    BY <1>1, <1>2, <2>2 DEF At, Spans
  <2>4. FEBE!ItemsOf(st, span) = s
    <3>1. span.part = "text" /\ span.doc = x
      OBVIOUS
    <3> HIDE DEF span
    <3> QED  BY <2>3, <3>1 DEF FEBE!ItemsOf, Standings
  <2> HIDE DEF s
  <2>5. s \in Seq(ShownIn(st, x)) /\ FEBE!ToSet(s) = Values(text, {p} \intersect DOMAIN text)
    <3> HIDE DEF text
    <3> QED  BY <2>1, TextItems DEF s
  <2>6. FEBE!ToSet(s) = {y}
    BY <2>5, <1>2 DEF Values
  <2>7. place # << >> /\ place[1] = span
    BY <2>3
  <2>8. place[1].doc = x /\ place[1].part = "text" /\ place[1].at = {p}
    BY <2>3, <2>7
  <2> HIDE DEF span
  <2>9. FEBE!Content(st, place) = {y}
    BY <2>3, <2>4, <2>5, <2>6, ContentOfOne
  <2>10. Stands(st, place, x, y)
    BY <2>2, <2>7, <2>8, <2>9 DEF Stands
  <2> QED  BY <2>10
<1>3. ASSUME NEW x \in DOMAIN st.docs, NEW p \in DOMAIN st.docs[x].links, place = LinksAt(x, p, 1)
      PROVE  \E y : Stands(st, place, x, y)
  <2> DEFINE links == st.docs[x].links
             y == links[p]
             span == [doc |-> x, part |-> "links", at |-> p..(p + 1 - 1)]
             s == Standings(links, FEBE!Ordered({p} \intersect DOMAIN links,
                                                FEBE!Max({0} \union DOMAIN links)))
  <2>1. IsLinks(links, ShownIn(st, x))
    BY DEF Sound, IndexRight, IsOrgl
  <2>2. p \in Nat /\ y \in ShownIn(st, x)
    BY <2>1 DEF IsLinks
  <2>3. place = <<span>> /\ span.at = {p}
    BY <1>1, <1>3, <2>2 DEF LinksAt, Spans
  <2>4. FEBE!ItemsOf(st, span) = s
    <3>1. span.part = "links" /\ span.doc = x
      OBVIOUS
    <3> HIDE DEF span
    <3> QED  BY <2>3, <3>1 DEF FEBE!ItemsOf, Standings
  <2> HIDE DEF s
  <2>5. s \in Seq(ShownIn(st, x)) /\ FEBE!ToSet(s) = Values(links, {p} \intersect DOMAIN links)
    <3> HIDE DEF links
    <3> QED  BY <2>1, LinkItems DEF s
  <2>6. FEBE!ToSet(s) = {y}
    BY <2>5, <1>3 DEF Values
  <2>7. place # << >> /\ place[1] = span
    BY <2>3
  <2>8. place[1].doc = x /\ place[1].part = "links" /\ place[1].at = {p}
    BY <2>3, <2>7
  <2> HIDE DEF span
  <2>9. FEBE!Content(st, place) = {y}
    BY <2>3, <2>4, <2>5, <2>6, ContentOfOne
  <2>10. Stands(st, place, x, y)
    BY <2>2, <2>7, <2>8, <2>9 DEF Stands
  <2> QED  BY <2>10
<1>4. \/ \E x \in DOMAIN st.docs : \E p \in DOMAIN st.docs[x].text : place = At(x, p, 1)
      \/ \E x \in DOMAIN st.docs : \E p \in DOMAIN st.docs[x].links : place = LinksAt(x, p, 1)
  BY DEF Places
<1> QED  BY <1>2, <1>3, <1>4

\* The links that have y in an end.
LinksWith(st, e, y) == {l \in DOMAIN st.ends : \E z \in FEBE!ToSet(st.ends[l][e]) : y \in z.items}

\* The index says the same as the orgls of the links.
LEMMA FoundAt ==
    ASSUME NEW st, NEW K, Sound(st, K), NEW e \in FEBE!Ends, NEW place, place # << >>,
           NEW y, FEBE!Content(st, place) = {y}
    PROVE  FEBE!FindLinks(st, AskedAt(e, place)) = LinksWith(st, e, y)
<1> DEFINE specs == AskedAt(e, place)
           asked == {f \in FEBE!Ends : specs[f] # << >>}
           found(f) == {z.link : z \in FEBE!Touched(st, FEBE!Content(st, specs[f]), f)}
           L == LinksWith(st, e, y)
<1>1. specs[e] = place /\ asked = {e}
  BY DEF AskedAt, NOSPECS
<1>2. FEBE!FindLinks(st, specs)
        = IF asked = {} THEN {}
          ELSE {l \in UNION {found(f) : f \in asked} : \A f \in asked : l \in found(f)}
  BY DEF FEBE!FindLinks
<1> HIDE DEF asked, found
<1>3. FEBE!FindLinks(st, specs) = found(e)
  BY <1>1, <1>2
<1>4. found(e) = {z.link : z \in FEBE!Touched(st, {y}, e)}
  BY <1>1 DEF found
<1>5. FEBE!Touched(st, {y}, e) = {z \in st.spanf.links : z.end = e /\ y \in z.sporgl.items}
  BY DEF FEBE!Touched
<1>6. st.spanf.links = UNION {Entries(l, st.ends[l]) : l \in DOMAIN st.ends}
  BY DEF Sound, IndexRight
<1>7. ASSUME NEW l \in found(e) PROVE l \in L
  <2>1. PICK z \in st.spanf.links : z.end = e /\ y \in z.sporgl.items /\ z.link = l
    BY <1>4, <1>5
  <2>2. PICK k \in DOMAIN st.ends : z \in Entries(k, st.ends[k])
    BY <1>6, <2>1
  <2>3. PICK f \in FEBE!Ends : \E w \in FEBE!ToSet(st.ends[k][f]) : z = [end |-> f, link |-> k, sporgl |-> w]
    BY <2>2 DEF Entries
  <2>4. PICK w \in FEBE!ToSet(st.ends[k][f]) : z = [end |-> f, link |-> k, sporgl |-> w]
    BY <2>3
  <2>5. f = e /\ k = l /\ y \in w.items
    BY <2>1, <2>4
  <2> QED  BY <2>2, <2>4, <2>5 DEF LinksWith
<1>8. ASSUME NEW l \in L PROVE l \in found(e)
  <2>1. l \in DOMAIN st.ends
    BY DEF LinksWith
  <2>2. PICK w \in FEBE!ToSet(st.ends[l][e]) : y \in w.items
    BY DEF LinksWith
  <2> DEFINE z == [end |-> e, link |-> l, sporgl |-> w]
             Z == {[end |-> e, link |-> l, sporgl |-> v] : v \in FEBE!ToSet(st.ends[l][e])}
  <2>3. z \in Z
    OBVIOUS
  <2>4. Z \subseteq Entries(l, st.ends[l])
    BY DEF Entries
  <2>5. z.end = e /\ z.link = l /\ y \in z.sporgl.items
    BY <2>2
  <2> HIDE DEF z, Z
  <2>6. z \in st.spanf.links
    BY <1>6, <2>1, <2>3, <2>4
  <2> QED  BY <1>4, <1>5, <2>5, <2>6
<1> HIDE DEF L
<1>9. found(e) = L
  BY <1>7, <1>8
<1> QED  BY <1>3, <1>9 DEF L

LEMMA InvLinksFound ==
    ASSUME Inv
    PROVE  LinksFound
<1> DEFINE st == back.shared
           EndsetOf(link, e) == UNION {x.items : x \in ToSet(st.ends[link][e])}
<1>1. Sound(st, {NeighboursDoc})
  BY DEF Inv, StoresAgree
<1> SUFFICES ASSUME NEW place \in Places(st), NEW e \in FEBE!Ends
             PROVE  FEBE!FindLinks(st, AskedAt(e, place))
                        = {link \in DOMAIN st.ends : FEBE!Content(st, place) \subseteq EndsetOf(link, e)}
  BY DEF LinksFound
<1> HIDE DEF st
<1>2. PICK x : \E y : Stands(st, place, x, y)
  BY <1>1, PlaceStands
<1>3. PICK y : Stands(st, place, x, y)
  BY <1>2
<1>4. place # << >> /\ FEBE!Content(st, place) = {y}
  BY <1>3 DEF Stands
<1>5. FEBE!FindLinks(st, AskedAt(e, place)) = LinksWith(st, e, y)
  BY <1>1, <1>4, FoundAt
<1>6. \A l : (\E z \in FEBE!ToSet(st.ends[l][e]) : y \in z.items) <=> y \in EndsetOf(l, e)
  BY DEF ToSet, FEBE!ToSet
<1> HIDE DEF EndsetOf
<1> QED  BY <1>4, <1>5, <1>6 DEF LinksWith

LEMMA InvFoundIsFollowed ==
    ASSUME Inv
    PROVE  FoundIsFollowed
<1> DEFINE st == back.shared
<1>1. Sound(st, {NeighboursDoc})
  BY DEF Inv, StoresAgree
<1> SUFFICES ASSUME NEW link \in DOMAIN st.ends, NEW e \in FEBE!Ends, st.ends[link][e] # << >>,
                    NEW place \in Places(st), place[1].doc = Head(st.ends[link][e]).doc,
                    link \in FEBE!FindLinks(st, AskedAt(e, place))
             PROVE  Covers(FEBE!FollowLink(st, link, e), place)
  BY DEF FoundIsFollowed
<1> HIDE DEF st
<1>2. PICK x : \E y : Stands(st, place, x, y)
  BY <1>1, PlaceStands
<1>3. PICK y : Stands(st, place, x, y)
  BY <1>2
<1>4. place # << >> /\ FEBE!Content(st, place) = {y} /\ place[1].doc = x
  BY <1>3 DEF Stands
<1>5. PICK z \in FEBE!ToSet(st.ends[link][e]) : y \in z.items
  <2>1. FEBE!FindLinks(st, AskedAt(e, place)) = LinksWith(st, e, y)
    BY <1>1, <1>4, FoundAt
  <2> QED  BY <2>1 DEF LinksWith
<1> DEFINE items == UNION {w.items : w \in FEBE!ToSet(st.ends[link][e])}
           places == FEBE!FollowLink(st, link, e)
<1>6. y \in items
  BY <1>5
<1>7. places = FEBE!PlacesOf(st, x, items)
  BY <1>4, FollowLinkIs
<1> HIDE DEF items, places
<1> DEFINE r == [doc |-> x, part |-> "text", at |-> {k \in DOMAIN st.docs[x].text : st.docs[x].text[k] \in items}]
           s == [doc |-> x, part |-> "links", at |-> {k \in DOMAIN st.docs[x].links : st.docs[x].links[k] \in items}]
<1>8. places = <<r, s>>
  BY <1>7 DEF FEBE!PlacesOf
<1>9. 1 \in DOMAIN places /\ 2 \in DOMAIN places /\ places[1] = r /\ places[2] = s
  BY <1>8
<1>10. CASE /\ place[1].part = "text"
            /\ \E p \in DOMAIN st.docs[x].text : place[1].at = {p} /\ st.docs[x].text[p] = y
  <2>1. place[1].at \subseteq r.at /\ r.doc = x /\ r.part = "text"
    BY <1>6, <1>10
  <2> HIDE DEF r, s
  <2> QED  BY <1>4, <1>9, <1>10, <2>1 DEF Covers, places
<1>11. CASE /\ place[1].part = "links"
            /\ \E p \in DOMAIN st.docs[x].links : place[1].at = {p} /\ st.docs[x].links[p] = y
  <2>1. place[1].at \subseteq s.at /\ s.doc = x /\ s.part = "links"
    BY <1>6, <1>11
  <2> HIDE DEF r, s
  <2> QED  BY <1>4, <1>9, <1>11, <2>1 DEF Covers, places
<1> QED  BY <1>3, <1>10, <1>11 DEF Stands

LEMMA InvDocsFound ==
    ASSUME Inv
    PROVE  DocsFound
<1> DEFINE st == back.shared
<1>1. Sound(st, {NeighboursDoc})
  BY DEF Inv, StoresAgree
<1> SUFFICES ASSUME NEW place \in Places(st)
             PROVE  place[1].doc \in FEBE!FindDocuments(st, place)
  BY DEF DocsFound
<1> HIDE DEF st
<1>2. PICK x : \E y : Stands(st, place, x, y)
  BY <1>1, PlaceStands
<1>3. PICK y : Stands(st, place, x, y)
  BY <1>2
<1>4. y \in ShownIn(st, x) /\ FEBE!Content(st, place) = {y} /\ place[1].doc = x
  BY <1>3 DEF Stands
<1>5. PICK z \in st.spanf.docs : z[2] = x /\ z[1] = y
  BY <1>4 DEF ShownIn
<1>6. z \in {w \in st.spanf.docs : w[1] \in FEBE!Content(st, place)}
  BY <1>4, <1>5
<1> QED  BY <1>4, <1>5, <1>6 DEF FEBE!FindDocuments

-----------------------------------------------------------------------------
(* The theorems. *)

\* The back end of the scenario alone is part of the shared one.
THEOREM InvHolds == Spec /\ []Fits => []Inv
<1>1. Init => Inv
  BY InitInv
<1>2. Inv /\ Fits /\ [Next]_vars => Inv'
  BY NextInv
<1> QED  BY <1>1, <1>2, PTL DEF Spec

\* The answers to a scenario are those of a back end of its own, whoever else
\* opens, branches, quotes and links its documents (checkforopen, doopen,
\* docopy, docreatelink).
THEOREM UndisturbedHolds == Spec /\ []Fits => []Undisturbed
<1>1. Inv => Undisturbed
  BY DEF Inv
<1> QED  BY <1>1, InvHolds, PTL

\* A link is found at exactly the places that show something of its endset
\* (insertendsetsinspanf, findlinksfromtothreesp, insertendsetsinorgl).
THEOREM LinksFoundHolds == Spec /\ []Fits => []LinksFound
<1>1. Inv => LinksFound
  BY InvLinksFound
<1> QED  BY <1>1, InvHolds, PTL

\* A link that is found at a place of the document in which its end was made
\* leads back to it (dofollowlink, linksporglset2specset).
THEOREM FoundIsFollowedHolds == Spec /\ []Fits => []FoundIsFollowed
<1>1. Inv => FoundIsFollowed
  BY InvFoundIsFollowed
<1> QED  BY <1>1, InvHolds, PTL

\* A document is found by whatever it shows (insertspanf, finddocscontaining).
THEOREM DocsFoundHolds == Spec /\ []Fits => []DocsFound
<1>1. Inv => DocsFound
  BY InvDocsFound
<1> QED  BY <1>1, InvHolds, PTL
=============================================================================
