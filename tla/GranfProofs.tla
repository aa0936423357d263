---------------------------- MODULE GranfProofs ----------------------------
(***************************************************************************)
(* The granfilade gives out every address once and keeps what is at it,    *)
(* for any accounts, any size of its crums and any number of places.       *)
(***************************************************************************)
EXTENDS Granf, TumbleProofs, FiniteSetTheorems

Address == {a \in Number : ~iszerotumbler(a)}

-----------------------------------------------------------------------------
(* Fields. *)

Level(a) == Cardinality(Zeros(a))

\* A character (atom 1) or a link (atom 2) of a document: document.0.atom.n.
Element(a, atom) ==
    /\ Level(a) = 3
    /\ nstories(a) > 3
    /\ a.mantissa[nstories(a) - 3] = 0
    /\ a.mantissa[nstories(a) - 2] = atom

LEMMA ZerosFinite ==
    ASSUME NEW a \in Address
    PROVE  IsFiniteSet(Zeros(a)) /\ Level(a) \in Nat
<1>1. IsFiniteSet(0..(NPLACES - 1))
  BY FS_Interval, PlacesAssumption
<1>2. Zeros(a) \subseteq 0..(NPLACES - 1)
  BY DEF Zeros, Place
<1>3. IsFiniteSet(Zeros(a))
  BY <1>1, <1>2, FS_Subset
<1> QED  BY <1>3, FS_CardinalityType DEF Level

LEMMA AddressIs ==
    ASSUME NEW a \in Address
    PROVE  /\ a \in Number /\ a \in tumbler /\ ~iszerotumbler(a) /\ a.exp \in Int
           /\ nstories(a) \in 1..NPLACES /\ nstories(a) \in Nat /\ nstories(a) - 1 \in Place
           /\ a.mantissa[nstories(a) - 1] # 0
           /\ \A p \in Place : a.mantissa[p] \in Nat /\ p \in Nat
           /\ \A p \in Place : p >= nstories(a) => a.mantissa[p] = 0
<1>1. a \in Number /\ ~iszerotumbler(a)
  BY DEF Address
<1>2. a \in tumbler /\ a.exp \in Int /\ \A p \in Place : a.mantissa[p] \in Nat /\ p \in Nat
  BY <1>1, NumberType, PlaceIs
<1> QED  BY <1>1, <1>2, StoriesIs

LEMMA ZerosUnder ==
    ASSUME NEW a \in Address, NEW b \in Address, Under(a, b)
    PROVE  /\ nstories(a) <= nstories(b)
           /\ Zeros(a) \subseteq Zeros(b)
           /\ Level(a) <= Level(b)
           /\ Level(a) = Level(b) => Zeros(a) = Zeros(b)
<1> DEFINE m == nstories(a)
           n == nstories(b)
<1>1. /\ m \in Nat /\ n \in Nat /\ m > 0 /\ m - 1 \in Place /\ a.mantissa[m - 1] # 0
      /\ \A p \in Place : p >= n => b.mantissa[p] = 0
      /\ \A p \in Place : p \in Nat
  BY AddressIs
<1>2. \A p \in Place : p < m => b.mantissa[p] = a.mantissa[p]
  BY DEF Under
<1>3. m <= n
  <2>1. b.mantissa[m - 1] # 0
    BY <1>1, <1>2
  <2>2. ~(m - 1 >= n)
    BY <1>1, <2>1
  <2> QED  BY <1>1, <2>2
<1>4. Zeros(a) \subseteq Zeros(b)
  BY <1>1, <1>2, <1>3 DEF Zeros
<1>5. IsFiniteSet(Zeros(b))
  BY ZerosFinite
<1> QED  BY <1>3, <1>4, <1>5, FS_Subset DEF Level

\* The last zero of an element stands before its kind.
LEMMA ElementZeros ==
    ASSUME NEW a \in Address, NEW t \in Nat \ {0}, Element(a, t)
    PROVE  /\ nstories(a) - 3 \in Zeros(a)
           /\ nstories(a) - 2 \in Place
           /\ \A p \in Zeros(a) : p <= nstories(a) - 3
<1> DEFINE m == nstories(a)
<1>1. /\ m \in 1..NPLACES /\ m \in Nat /\ m > 3 /\ a.mantissa[m - 1] # 0 /\ a.mantissa[m - 2] # 0
      /\ a.mantissa[m - 3] = 0
      /\ \A p \in Place : p \in Nat
  BY AddressIs DEF Element
<1> HIDE DEF m
<1>2. m - 3 \in Place /\ m - 2 \in Place
  BY <1>1, PlacesAssumption DEF Place
<1>3. \A p \in Place : p < m /\ p # m - 1 /\ p # m - 2 => p <= m - 3
  BY <1>1
<1>4. m - 3 \in Zeros(a)
  BY <1>1, <1>2 DEF Zeros, m
<1>5. \A p \in Zeros(a) : p <= m - 3
  <2> SUFFICES ASSUME NEW p \in Zeros(a) PROVE p <= m - 3
    OBVIOUS
  <2>1. p \in Place /\ p < m /\ a.mantissa[p] = 0
    BY DEF Zeros, m
  <2> QED  BY <1>1, <1>3, <2>1
<1> QED  BY <1>2, <1>4, <1>5 DEF m

\* What is in the row of a character and has no more fields has the same
\* zeros, and the same kind after the last one.
LEMMA RowIs ==
    ASSUME NEW a \in Address, NEW t \in Nat \ {0}, Element(a, t), NEW b \in Address,
           InRow(a, b), Level(b) <= 3
    PROVE  /\ Level(b) = 3
           /\ nstories(a) - 3 \in Zeros(b)
           /\ \A p \in Zeros(b) : p <= nstories(a) - 3
           /\ b.mantissa[nstories(a) - 2] = t
<1> DEFINE m == nstories(a)
           n == nstories(b)
<1>1. /\ m \in Nat /\ n \in Nat /\ m > 3 /\ m - 2 \in Place /\ a.mantissa[m - 2] = t
      /\ \A p \in Place : p >= n => b.mantissa[p] = 0
      /\ \A p \in Place : p \in Nat
  BY AddressIs, ElementZeros DEF Element
<1>2. \A p \in Place : p < m - 1 => b.mantissa[p] = a.mantissa[p]
  BY DEF InRow
<1>3. m - 3 \in Zeros(a) /\ \A p \in Zeros(a) : p <= m - 3
  BY ElementZeros
<1>4. b.mantissa[m - 2] = t
  BY <1>1, <1>2
<1>5. m - 2 < n
  BY <1>1, <1>4
<1> HIDE DEF m, n
<1>6. Zeros(a) \subseteq Zeros(b)
  <2> SUFFICES ASSUME NEW p \in Zeros(a) PROVE p \in Zeros(b)
    OBVIOUS
  <2>1. p \in Place /\ a.mantissa[p] = 0 /\ p <= m - 3 /\ p \in Nat
    BY <1>1, <1>3 DEF Zeros
  <2>2. p < m - 1 /\ p < n
    BY <1>1, <1>5, <2>1
  <2> QED  BY <1>2, <2>1, <2>2 DEF Zeros, n
<1>7. IsFiniteSet(Zeros(b)) /\ Level(b) \in Nat
  BY ZerosFinite
<1>8. Cardinality(Zeros(a)) <= Cardinality(Zeros(b))
      /\ (Cardinality(Zeros(a)) = Cardinality(Zeros(b)) => Zeros(a) = Zeros(b))
  BY <1>6, <1>7, FS_Subset
<1>9. Cardinality(Zeros(a)) = 3
  BY DEF Element, Level
<1>10. Level(b) = 3 /\ Zeros(a) = Zeros(b)
  BY <1>7, <1>8, <1>9 DEF Level
<1> QED  BY <1>3, <1>4, <1>10 DEF m

\* So a document, an account or a link is never in the row of a character.
LEMMA OutsideRows ==
    ASSUME NEW a \in Address, Element(a, TEXTATOM), NEW b \in Address,
           Level(b) <= 2 \/ Element(b, LINKATOM)
    PROVE  ~InRow(a, b)
<1> SUFFICES ASSUME InRow(a, b) PROVE FALSE
  OBVIOUS
<1>1. Level(b) \in Nat /\ Level(b) <= 3
  BY ZerosFinite DEF Element
<1>2. /\ Level(b) = 3
      /\ nstories(a) - 3 \in Zeros(b)
      /\ \A p \in Zeros(b) : p <= nstories(a) - 3
      /\ b.mantissa[nstories(a) - 2] = TEXTATOM
  BY <1>1, RowIs DEF TEXTATOM
<1>3. Element(b, LINKATOM)
  BY <1>1, <1>2
<1>4. /\ nstories(b) - 3 \in Zeros(b)
      /\ \A p \in Zeros(b) : p <= nstories(b) - 3
      /\ b.mantissa[nstories(b) - 2] = LINKATOM
  BY <1>3, ElementZeros DEF LINKATOM, Element
<1>5. nstories(a) \in Nat /\ nstories(b) \in Nat
  BY AddressIs
<1>6. nstories(a) - 3 <= nstories(b) - 3 /\ nstories(b) - 3 <= nstories(a) - 3
  BY <1>2, <1>4
<1>7. nstories(a) = nstories(b)
  BY <1>5, <1>6
<1> QED  BY <1>2, <1>4, <1>7 DEF TEXTATOM, LINKATOM

\* Nor below one.
LEMMA UnderRow ==
    ASSUME NEW a \in Address, NEW b \in Address, Under(a, b)
    PROVE  InRow(a, b)
<1>1. \A p \in Place : p < nstories(a) - 1 => p < nstories(a)
  BY AddressIs
<1> QED  BY <1>1 DEF Under, InRow

LEMMA StepAddress ==
    ASSUME NEW a \in Address, NEW k, Stays(a, k)
    PROVE  /\ Step(a, k) \in Address
           /\ Step(a, k).exp = a.exp
           /\ nstories(Step(a, k)) = nstories(a)
           /\ Zeros(Step(a, k)) = Zeros(a)
           /\ Level(Step(a, k)) = Level(a)
           /\ \A p \in Place : p < nstories(a) - 1 => Step(a, k).mantissa[p] = a.mantissa[p]
           /\ Step(a, k).mantissa[nstories(a) - 1] = a.mantissa[nstories(a) - 1] + k
<1> DEFINE c == Step(a, k)
<1>1. /\ c \in Number /\ ~iszerotumbler(c) /\ c.exp = a.exp /\ nstories(c) = nstories(a)
      /\ \A p \in Place : c.mantissa[p] =
            IF p = nstories(a) - 1 THEN a.mantissa[p] + k ELSE a.mantissa[p]
  BY AddressIs, StepIs
<1>2. /\ nstories(a) \in Nat /\ nstories(a) - 1 \in Place /\ a.mantissa[nstories(a) - 1] # 0
      /\ \A p \in Place : p \in Nat
      /\ a.mantissa[nstories(a) - 1] + k # 0
  BY AddressIs DEF Stays
<1> HIDE DEF c
<1>3. Zeros(c) = Zeros(a)
  BY <1>1, <1>2 DEF Zeros
<1>4. c \in Address
  BY <1>1 DEF Address
<1>5. \A p \in Place : p < nstories(a) - 1 => p # nstories(a) - 1
  BY <1>2
<1> QED  BY <1>1, <1>2, <1>3, <1>4, <1>5 DEF Level, c

\* The n-th thing below a: one place further, or behind a zero.
LEMMA ChildIs ==
    ASSUME NEW a \in Address, NEW s \in {1, 2}, NEW n \in Nat \ {0}, Increments(a, s)
    PROVE  /\ tumblerincrement(a, s, n) \in Address
           /\ tumblerincrement(a, s, n).exp = a.exp
           /\ nstories(a) - 1 + s \in Place
           /\ nstories(tumblerincrement(a, s, n)) = nstories(a) + s
           /\ \A p \in Place : tumblerincrement(a, s, n).mantissa[p] =
                 IF p < nstories(a) THEN a.mantissa[p]
                 ELSE IF p = nstories(a) - 1 + s THEN n ELSE 0
           /\ Under(a, tumblerincrement(a, s, n))
           /\ Before(a, tumblerincrement(a, s, n))
           /\ Zeros(tumblerincrement(a, s, n)) =
                 IF s = 2 THEN Zeros(a) \union {nstories(a)} ELSE Zeros(a)
           /\ Level(tumblerincrement(a, s, n)) = Level(a) + s - 1
<1> DEFINE c == tumblerincrement(a, s, n)
           m == nstories(a)
           i == nstories(a) - 1 + s
<1>1. /\ i \in Place /\ c \in Number /\ ~iszerotumbler(c) /\ c.exp = a.exp
      /\ nstories(c) = m + s
      /\ \A p \in Place : c.mantissa[p] = IF p = i THEN a.mantissa[p] + n ELSE a.mantissa[p]
  BY AddressIs, IncrementIs
<1>2. /\ m \in Nat /\ i = m - 1 + s
      /\ \A p \in Place : p \in Nat /\ a.mantissa[p] \in Nat
      /\ \A p \in Place : p >= m => a.mantissa[p] = 0
      /\ i >= m
  BY AddressIs
<1>3. Under(a, c) /\ Before(a, c)
  BY AddressIs, IncrementUnder
<1> HIDE DEF c, m, i
<1>4. c \in Address
  BY <1>1 DEF Address
<1>5. \A p \in Place : c.mantissa[p] = IF p < m THEN a.mantissa[p] ELSE IF p = i THEN n ELSE 0
  <2> SUFFICES ASSUME NEW p \in Place
               PROVE  c.mantissa[p] = IF p < m THEN a.mantissa[p] ELSE IF p = i THEN n ELSE 0
    OBVIOUS
  <2>1. c.mantissa[p] = IF p = i THEN a.mantissa[p] + n ELSE a.mantissa[p]
    BY <1>1
  <2>2. p < m => p # i
    BY <1>2
  <2>3. ~(p < m) => a.mantissa[p] = 0
    BY <1>2
  <2> QED  BY <2>1, <2>2, <2>3
<1>6. IsFiniteSet(Zeros(a)) /\ Level(a) \in Nat /\ m \notin Zeros(a)
  BY <1>2, ZerosFinite DEF Zeros, m
<1>7. Zeros(c) = {p \in Place : p < m + s /\ c.mantissa[p] = 0}
      /\ Zeros(a) = {p \in Place : p < m /\ a.mantissa[p] = 0}
  BY <1>1 DEF Zeros, m
<1>8. CASE s = 1
  <2>1. i = m
    BY <1>2, <1>8
  <2>2. Zeros(c) = Zeros(a)
    BY <1>2, <1>5, <1>7, <1>8, <2>1
  <2> QED  BY <1>1, <1>3, <1>4, <1>5, <1>6, <1>8, <2>2 DEF Level, c, m, i
<1>9. CASE s = 2
  <2>1. i = m + 1 /\ m \in Place
    BY <1>1, <1>2, <1>9, PlacesAssumption DEF Place
  <2>2. Zeros(c) = Zeros(a) \union {m}
    <3>1. ASSUME NEW p \in Place PROVE p \in Zeros(c) <=> p \in Zeros(a) \/ p = m
      <4>1. p \in Nat
        BY <1>2
      <4>2. CASE p < m
        BY <1>2, <1>5, <1>7, <1>9, <4>1, <4>2
      <4>3. CASE p = m
        BY <1>2, <1>5, <1>7, <1>9, <2>1, <4>3
      <4>4. CASE p = i
        BY <1>2, <1>5, <1>7, <2>1, <4>4
      <4>5. CASE p > i
        BY <1>2, <1>7, <1>9, <2>1, <4>5
      <4> QED  BY <1>2, <2>1, <4>1, <4>2, <4>3, <4>4, <4>5
    <3> QED  BY <1>7, <2>1, <3>1
  <2>3. Cardinality(Zeros(a) \union {m}) = Cardinality(Zeros(a)) + 1
    BY <1>6, FS_AddElement
  <2>4. Level(c) = Level(a) + s - 1
    BY <1>6, <1>9, <2>2, <2>3 DEF Level
  <2> QED  BY <1>1, <1>3, <1>4, <1>5, <1>9, <2>2, <2>4 DEF c, m, i
<1> QED  BY <1>8, <1>9

-----------------------------------------------------------------------------
(* Documents, nodes and versions. *)

\* The address findisatoinsertnonmolecule makes of what it finds.
ChildAfter(hint, depth, lowerbound) ==
    LET child == tumblertruncate(lowerbound, tumblerlength(hint) + depth)
    IN  IF \/ iszerotumbler(lowerbound)
           \/ tumblertruncate(lowerbound, tumblerlength(hint)) # hint
        THEN tumblerincrement(hint, depth, 1)
        ELSE tumblerincrement(child, IF tumblerlength(child) = tumblerlength(hint)
                                     THEN depth ELSE 0, 1)

\* It is one below hint, after all that was there.
LEMMA ChildAfterIs ==
    ASSUME NEW hint \in Address, NEW depth \in {1, 2}, Increments(hint, depth),
           NEW lowerbound \in Number,
           Before(lowerbound, tumblerincrement(hint, depth - 1, 1))
    PROVE  /\ \E v \in Nat \ {0} :
                 ChildAfter(hint, depth, lowerbound) = tumblerincrement(hint, depth, v)
           /\ Before(lowerbound, ChildAfter(hint, depth, lowerbound))
           /\ Before(ChildAfter(hint, depth, lowerbound),
                     tumblerincrement(hint, depth - 1, 1))
<1> DEFINE n == nstories(hint)
           i == nstories(hint) - 1 + depth
           u == tumblerincrement(hint, depth - 1, 1)
           isa == ChildAfter(hint, depth, lowerbound)
<1>1. /\ hint \in Number /\ hint \in tumbler /\ ~iszerotumbler(hint) /\ hint.exp \in Int
      /\ n \in Nat /\ n > 0 /\ n - 1 \in Place /\ n \in 1..NPLACES
      /\ hint.mantissa[n - 1] \in Nat
      /\ \A p \in Place : hint.mantissa[p] \in Nat /\ p \in Nat
      /\ \A p \in Place : p >= n => hint.mantissa[p] = 0
  BY AddressIs
<1>2. i \in Place /\ i \in Nat /\ i = n - 1 + depth
  BY <1>1, PlaceIs DEF Increments
<1>3. /\ u \in Number /\ ~iszerotumbler(u) /\ u.exp = hint.exp
      /\ depth = 1 => \A p \in Place : u.mantissa[p] =
            IF p = n - 1 THEN hint.mantissa[p] + 1 ELSE hint.mantissa[p]
      /\ depth = 2 => \A p \in Place : u.mantissa[p] =
            IF p < n THEN hint.mantissa[p] ELSE IF p = n THEN 1 ELSE 0
  <2>1. CASE depth = 1
    <3>1. u = Step(hint, 1)
      BY <2>1 DEF Step
    <3> QED  BY <1>1, <2>1, <3>1, StaysIs, StepIs
  <2>2. CASE depth = 2
    <3>1. n \in Place
      BY <1>1, <1>2, <2>2, PlacesAssumption DEF Place
    <3>2. Increments(hint, 1)
      BY <1>1, <3>1 DEF Increments
    <3>3. u = tumblerincrement(hint, 1, 1)
      BY <2>2
    <3>4. /\ u \in Address /\ u.exp = hint.exp
          /\ \A p \in Place : u.mantissa[p] =
               IF p < n THEN hint.mantissa[p] ELSE IF p = n - 1 + 1 THEN 1 ELSE 0
      BY <3>2, <3>3, ChildIs
    <3>5. n - 1 + 1 = n
      BY <1>1
    <3> QED  BY <2>2, <3>4, <3>5 DEF Address
  <2> QED  BY <2>1, <2>2
<1> HIDE DEF n, i, u, isa
<1>4. Before(lowerbound, u)
  BY DEF u
<1>5. ASSUME NEW v \in Nat \ {0}, isa = tumblerincrement(hint, depth, v)
      PROVE  /\ isa \in Number /\ Before(hint, isa) /\ Before(isa, u)
             /\ isa.exp = hint.exp
             /\ \A p \in Place : isa.mantissa[p] =
                   IF p < n THEN hint.mantissa[p] ELSE IF p = i THEN v ELSE 0
  <2>1. /\ isa \in Address /\ isa.exp = hint.exp /\ Before(hint, isa)
        /\ \A p \in Place : isa.mantissa[p] =
              IF p < n THEN hint.mantissa[p] ELSE IF p = i THEN v ELSE 0
    BY <1>5, ChildIs DEF n, i
  <2>2. CASE depth = 1
    <3>1. isa.mantissa[n - 1] < u.mantissa[n - 1]
      BY <1>1, <1>3, <2>1, <2>2
    <3>2. \A q \in Place : q < n - 1 => isa.mantissa[q] = u.mantissa[q]
      BY <1>1, <1>3, <2>1, <2>2
    <3>3. FirstBelow(isa, u, n - 1)
      BY <3>1, <3>2 DEF FirstBelow
    <3> QED  BY <1>1, <1>3, <2>1, <3>3 DEF Before, Address
  <2>3. CASE depth = 2
    <3>1. n \in Place /\ n # i
      BY <1>1, <1>2, <2>3, PlacesAssumption DEF Place
    <3>2. isa.mantissa[n] = 0 /\ u.mantissa[n] = 1
      BY <1>1, <1>3, <2>1, <2>3, <3>1
    <3>3. \A q \in Place : q < n => isa.mantissa[q] = u.mantissa[q]
      BY <1>3, <2>1, <2>3
    <3>4. FirstBelow(isa, u, n)
      BY <3>2, <3>3 DEF FirstBelow
    <3> QED  BY <1>1, <1>3, <2>1, <3>1, <3>4 DEF Before, Address
  <2> QED  BY <2>1, <2>2, <2>3 DEF Address
<1>6. CASE iszerotumbler(lowerbound) \/ ~Under(hint, lowerbound)
  <2>1. iszerotumbler(lowerbound) \/ tumblertruncate(lowerbound, tumblerlength(hint)) # hint
    BY <1>1, <1>6, UnderIs
  <2>2. isa = tumblerincrement(hint, depth, 1)
    BY <2>1 DEF ChildAfter, isa
  <2>3. isa \in Number /\ Before(hint, isa) /\ Before(isa, u)
    BY <1>5, <2>2
  <2>4. ~Before(hint, lowerbound)
    <3> SUFFICES ASSUME Before(hint, lowerbound) PROVE FALSE
      OBVIOUS
    <3>1. ~Under(hint, lowerbound)
      BY <1>6 DEF Before
    <3>2. CASE depth = 1
      <4>1. u = Step(hint, 1)
        BY <3>2 DEF Step, u
      <4>2. NotAfter(u, lowerbound)
        BY <1>1, <3>1, <4>1, NextInRow
      <4> QED  BY <1>3, <1>4, <4>2, NotAfterIs
    <3>3. CASE depth = 2
      <4>1. Under(hint, u)
        BY <1>1, <1>3, <3>3 DEF Under, n
      <4>2. Before(u, lowerbound)
        BY <1>1, <1>3, <3>1, <4>1, AfterUnder
      <4> QED  BY <1>3, <1>4, <4>2, BeforeTransitive, BeforeIrreflexive
    <3> QED  BY <3>2, <3>3
  <2>5. Before(lowerbound, isa)
    BY <1>1, <2>3, <2>4, NotAfterIs, NotAfterBefore
  <2> QED  BY <2>2, <2>3, <2>5 DEF isa, u
<1>7. CASE ~iszerotumbler(lowerbound) /\ Under(hint, lowerbound)
  <2> DEFINE m == lowerbound.mantissa[i]
             c == tumblertruncate(lowerbound, tumblerlength(hint) + depth)
  <2>1. /\ lowerbound.exp = hint.exp
        /\ \A p \in Place : p < n => lowerbound.mantissa[p] = hint.mantissa[p]
        /\ \A p \in Place : lowerbound.mantissa[p] \in Nat
        /\ m \in Nat
    BY <1>2, <1>7, NumberType DEF Under, n
  <2>2. ASSUME depth = 2 PROVE lowerbound.mantissa[n] = 0
    <3>1. PICK p \in Place : FirstBelow(lowerbound, u, p)
      BY <1>1, <1>3, <1>4, <1>7, <2>1 DEF Before
    <3>2. ~(p < n)
      BY <1>1, <1>3, <2>1, <2>2, <3>1 DEF FirstBelow
    <3>3. ~(p > n)
      BY <1>1, <1>3, <2>1, <2>2, <3>1 DEF FirstBelow
    <3>4. p = n
      BY <1>1, <3>2, <3>3
    <3>5. lowerbound.mantissa[n] < 1 /\ lowerbound.mantissa[n] \in Nat
      BY <1>1, <1>3, <2>1, <2>2, <3>1, <3>4 DEF FirstBelow
    <3> QED  BY <3>5
  <2>3. tumblerlength(hint) + depth \in Int
        /\ (tumblerlength(hint) + depth) + lowerbound.exp = i + 1
        /\ i + 1 > 0
    BY <1>1, <1>2, <2>1 DEF tumblerlength, n
  <2>4. /\ c \in Number /\ ~iszerotumbler(c) /\ c.exp = hint.exp
        /\ \A p \in Place : c.mantissa[p] = IF p < i + 1 THEN lowerbound.mantissa[p] ELSE 0
    BY <1>7, <2>1, <2>3, TruncateIs
  <2> HIDE DEF c, m
  <2>5. \A p \in Place : c.mantissa[p] =
           IF p < n THEN hint.mantissa[p] ELSE IF p = i THEN m ELSE 0
    <3> SUFFICES ASSUME NEW p \in Place
                 PROVE  c.mantissa[p] = IF p < n THEN hint.mantissa[p]
                                        ELSE IF p = i THEN m ELSE 0
      OBVIOUS
    <3>1. CASE p < n
      <4>0. p \in Nat /\ i \in Nat /\ n \in Nat /\ n <= i + 1
        BY <1>1, <1>2, PlaceIs
      <4>1. p < i + 1
        BY <3>1, <4>0
      <4> QED  BY <2>1, <2>4, <3>1, <4>1
    <3>2. CASE p = i
      <4>1. p < i + 1 /\ ~(p < n)
        BY <1>1, <1>2, <3>2
      <4> QED  BY <2>4, <3>2, <4>1 DEF m
    <3>3. CASE p > i
      <4>1. ~(p < i + 1) /\ ~(p < n) /\ p # i
        BY <1>1, <1>2, <3>3
      <4> QED  BY <2>4, <4>1
    <3>4. CASE ~(p < n) /\ p < i
      <4>1. depth = 2 /\ p = n
        BY <1>1, <1>2, <3>4
      <4>2. p < i + 1 /\ p # i
        BY <1>1, <1>2, <3>4
      <4> QED  BY <2>2, <2>4, <3>4, <4>1, <4>2
    <3> QED  BY <1>1, <1>2, <3>1, <3>2, <3>3, <3>4
  <2>6. isa = tumblerincrement(c, IF tumblerlength(c) = tumblerlength(hint) THEN depth ELSE 0, 1)
    <3>1. ~(iszerotumbler(lowerbound)
            \/ tumblertruncate(lowerbound, tumblerlength(hint)) # hint)
      BY <1>1, <1>7, UnderIs
    <3> QED  BY <3>1 DEF ChildAfter, isa, c
  <2>7. isa = tumblerincrement(hint, depth, m + 1)
    <3>1. CASE m = 0
      <4>1. \A p \in Place : c.mantissa[p] = hint.mantissa[p]
        BY <1>1, <2>5, <3>1
      <4>2. c = hint
        BY <1>1, <2>4, <4>1, SameNumber
      <4> QED  BY <2>6, <3>1, <4>2
    <3>2. CASE m # 0
      <4>1. c.mantissa[i] # 0 /\ \A q \in Place : q > i => c.mantissa[q] = 0
        <5>1. ~(i < n) /\ \A q \in Place : q > i => ~(q < n) /\ q # i
          BY <1>1, <1>2
        <5> QED  BY <1>2, <2>5, <3>2, <5>1
      <4>2. nstories(c) = i + 1
        BY <1>2, <2>4, <4>1, StoriesAre, NumberType
      <4>3. tumblerlength(c) # tumblerlength(hint)
        BY <1>1, <1>2, <2>4, <4>2 DEF tumblerlength, n
      <4>4. isa = Step(c, 1)
        BY <2>6, <4>3 DEF Step
      <4>5. nstories(c) - 1 = i
        BY <1>2, <4>2
      <4>6. /\ isa \in Number /\ isa.exp = c.exp
            /\ \A p \in Place : isa.mantissa[p] =
                  IF p = i THEN c.mantissa[p] + 1 ELSE c.mantissa[p]
        BY <2>4, <4>4, <4>5, StaysIs, StepIs
      <4> DEFINE d == tumblerincrement(hint, depth, m + 1)
      <4>7. /\ d \in Address /\ d.exp = hint.exp
            /\ \A p \in Place : d.mantissa[p] =
                  IF p < n THEN hint.mantissa[p] ELSE IF p = i THEN m + 1 ELSE 0
        BY <2>1, ChildIs DEF n, i
      <4> HIDE DEF d
      <4>8. ~(i < n)
        BY <1>1, <1>2
      <4>9. \A p \in Place : isa.mantissa[p] = d.mantissa[p]
        BY <2>5, <4>6, <4>7, <4>8
      <4>10. isa = d
        BY <2>4, <4>6, <4>7, <4>9, SameNumber DEF Address
      <4> QED  BY <4>10 DEF d
    <3> QED  BY <3>1, <3>2
  <2>8. /\ isa \in Number /\ Before(isa, u) /\ isa.exp = hint.exp /\ Before(hint, isa)
        /\ \A p \in Place : isa.mantissa[p] =
              IF p < n THEN hint.mantissa[p] ELSE IF p = i THEN m + 1 ELSE 0
    BY <1>5, <2>1, <2>7
  <2>9. FirstBelow(lowerbound, isa, i)
    <3>1. isa.mantissa[i] = m + 1 /\ lowerbound.mantissa[i] = m
      BY <1>1, <1>2, <2>8 DEF m
    <3>2. \A q \in Place : q < i => lowerbound.mantissa[q] = c.mantissa[q]
      <4>1. \A q \in Place : q < i => q < i + 1
        BY <1>1, <1>2
      <4> QED  BY <2>4, <4>1
    <3>3. \A q \in Place : q < i => c.mantissa[q] = isa.mantissa[q]
      <4>1. \A q \in Place : q < i => q # i
        BY <1>1, <1>2
      <4> QED  BY <2>5, <2>8, <4>1
    <3> QED  BY <2>1, <3>1, <3>2, <3>3 DEF FirstBelow
  <2>10. Before(lowerbound, isa)
    BY <1>2, <2>1, <2>8, <2>9 DEF Before
  <2>11. m + 1 \in Nat \ {0}
    BY <2>1
  <2> QED  BY <2>7, <2>8, <2>10, <2>11 DEF isa, u
<1> QED  BY <1>6, <1>7

-----------------------------------------------------------------------------
(* The row of crums. *)

Text(c) == c.infotype = "GRANTEXT"

\* Where the text of a crum ends: the address its next character would have.
End(c) == Step(c.isa, Len(c.text))

\* Documents, accounts and links have orgls, characters are in texts.  An
\* empty text is behind a full one, so it never begins at the first character.
Shape(c) ==
    /\ c.isa \in Address
    /\ \/ c.infotype = "GRANORGL" /\ (Level(c.isa) <= 2 \/ Element(c.isa, LINKATOM))
       \/ /\ Text(c)
          /\ Element(c.isa, TEXTATOM)
          /\ Stays(c.isa, Len(c.text) - 1)

\* InOrder of any two crums.
Sorted(g) ==
    \A i, j \in DOMAIN g : i < j =>
        /\ Before(g[i].isa, g[j].isa)
        /\ Text(g[i]) => NotAfter(End(g[i]), g[j].isa)

Crums(g) ==
    /\ g \in Seq(Crum) /\ Len(g) > 0
    /\ g[1].isa = ZEROTUMBLER /\ g[1].infotype = "GRANNULL" /\ g[1].text = <<>>
    /\ \A i \in DOMAIN g : i > 1 => Shape(g[i])
    /\ \A i \in DOMAIN g : Len(g[i].text) <= GRANTEXTLENGTH
    /\ Sorted(g)

LEMMA IntervalIs ==
    ASSUME NEW l \in Number, NEW r \in Number, NEW a \in Number, Before(l, r)
    PROVE  /\ intervalcmp(l, r, a) \in {TOMYLEFT, ONMYLEFTBORDER, THRUME, ONMYRIGHTBORDER, TOMYRIGHT}
           /\ intervalcmp(l, r, a) = TOMYLEFT <=> Before(a, l)
           /\ intervalcmp(l, r, a) = ONMYLEFTBORDER <=> a = l
           /\ intervalcmp(l, r, a) = THRUME <=> Before(l, a) /\ Before(a, r)
           /\ intervalcmp(l, r, a) = ONMYRIGHTBORDER <=> a = r
           /\ intervalcmp(l, r, a) = TOMYRIGHT <=> Before(r, a)
<1>1. /\ tumblercmp(a, l) = LESS <=> Before(a, l)
      /\ tumblercmp(a, l) = EQUAL <=> a = l
      /\ tumblercmp(a, l) = GREATER <=> Before(l, a)
      /\ tumblercmp(a, l) \in {LESS, EQUAL, GREATER}
      /\ tumblercmp(a, r) = LESS <=> Before(a, r)
      /\ tumblercmp(a, r) = EQUAL <=> a = r
      /\ tumblercmp(a, r) = GREATER <=> Before(r, a)
      /\ tumblercmp(a, r) \in {LESS, EQUAL, GREATER}
  BY CmpIs
<1>2. ~(LESS = EQUAL) /\ ~(LESS = GREATER) /\ ~(EQUAL = GREATER)
  BY DEF LESS, EQUAL, GREATER
<1>3. Before(a, l) => Before(a, r) /\ a # r /\ ~Before(r, a)
  BY BeforeTransitive, BeforeIrreflexive
<1>4. a = r => Before(l, a) /\ a # l
  BY BeforeIrreflexive
<1>5. Before(r, a) => Before(l, a)
  BY BeforeTransitive
<1>6. /\ TOMYLEFT # ONMYLEFTBORDER /\ TOMYLEFT # THRUME /\ TOMYLEFT # ONMYRIGHTBORDER
      /\ TOMYLEFT # TOMYRIGHT /\ ONMYLEFTBORDER # THRUME /\ ONMYLEFTBORDER # ONMYRIGHTBORDER
      /\ ONMYLEFTBORDER # TOMYRIGHT /\ THRUME # ONMYRIGHTBORDER /\ THRUME # TOMYRIGHT
      /\ ONMYRIGHTBORDER # TOMYRIGHT
  BY DEF TOMYLEFT, ONMYLEFTBORDER, THRUME, ONMYRIGHTBORDER, TOMYRIGHT
<1>7. CASE tumblercmp(a, l) = LESS
  <2>1. intervalcmp(l, r, a) = TOMYLEFT
    BY <1>2, <1>7 DEF intervalcmp
  <2>2. Before(a, l) /\ a # l /\ ~Before(l, a)
    BY <1>1, <1>2, <1>7
  <2>3. a # r /\ ~Before(r, a)
    BY <1>3, <2>2
  <2> QED  BY <1>6, <2>1, <2>2, <2>3
<1>8. CASE tumblercmp(a, l) = EQUAL
  <2>1. intervalcmp(l, r, a) = ONMYLEFTBORDER
    BY <1>2, <1>8 DEF intervalcmp
  <2> QED  BY <1>1, <1>2, <1>4, <1>5, <1>8, <2>1, <1>6
<1>9. CASE tumblercmp(a, l) = GREATER
  <2>1. intervalcmp(l, r, a) = CASE tumblercmp(a, r) = LESS -> THRUME
                                 [] tumblercmp(a, r) = EQUAL -> ONMYRIGHTBORDER
                                 [] OTHER -> TOMYRIGHT
    BY <1>2, <1>9 DEF intervalcmp
  <2>2. CASE tumblercmp(a, r) = LESS
    <3>1. intervalcmp(l, r, a) = THRUME
      BY <1>2, <2>1, <2>2
    <3>2. Before(l, a) /\ a # l /\ ~Before(a, l)
      BY <1>1, <1>2, <1>9
    <3>3. Before(a, r) /\ a # r /\ ~Before(r, a)
      BY <1>1, <1>2, <2>2
    <3> QED  BY <1>6, <3>1, <3>2, <3>3
  <2>3. CASE tumblercmp(a, r) = EQUAL
    <3>1. intervalcmp(l, r, a) = ONMYRIGHTBORDER
      BY <1>2, <2>1, <2>3
    <3> QED  BY <1>1, <1>2, <1>9, <2>3, <3>1, <1>6
  <2>4. CASE tumblercmp(a, r) = GREATER
    <3>1. intervalcmp(l, r, a) = TOMYRIGHT
      BY <1>2, <2>1, <2>4
    <3> QED  BY <1>1, <1>2, <1>9, <2>4, <3>1, <1>6
  <2> QED  BY <1>1, <2>2, <2>3, <2>4
<1> QED  BY <1>1, <1>7, <1>8, <1>9

LEMMA CrumsAre ==
    ASSUME NEW g, Crums(g)
    PROVE  /\ g \in Seq(Crum) /\ Len(g) \in Nat \ {0}
           /\ DOMAIN g = 1..Len(g) /\ 1 \in DOMAIN g
           /\ DOMAIN g \in SUBSET Nat
           /\ \A i \in DOMAIN g : g[i].isa \in Number /\ i \in Nat
           /\ \A i \in DOMAIN g : i > 1 => g[i].isa \in Address /\ Shape(g[i])
           /\ g[1].isa = ZEROTUMBLER
<1>1. g \in Seq(Crum) /\ Len(g) > 0
  BY DEF Crums
<1>2. Len(g) \in Nat \ {0} /\ DOMAIN g = 1..Len(g)
  BY <1>1
<1>3. 1 \in DOMAIN g /\ DOMAIN g \in SUBSET Nat
  BY <1>2
<1>4. \A i \in DOMAIN g : i > 1 => g[i].isa \in Address /\ Shape(g[i])
  BY DEF Crums, Shape
<1>5. g[1].isa = ZEROTUMBLER
  BY DEF Crums
<1>6. \A i \in DOMAIN g : i = 1 \/ i > 1
  BY <1>2
<1>7. \A i \in DOMAIN g : g[i].isa \in Number
  BY <1>4, <1>5, <1>6, ZeroIsNumber DEF Address
<1> QED  BY <1>1, <1>2, <1>3, <1>4, <1>5, <1>7

\* What a search finds is the last crum that is not after the address.
LEMMA FindIs ==
    ASSUME Crums(granf), NEW a \in Number
    PROVE  /\ FindCrum(a) \in DOMAIN granf
           /\ NotAfter(granf[FindCrum(a)].isa, a)
           /\ \A j \in DOMAIN granf : j > FindCrum(a) => Before(a, granf[j].isa)
<1> DEFINE S == {i \in DOMAIN granf : Last(i) \/ WhereOnCrum(i, a) <= THRUME}
           f == FindCrum(a)
<1>1. /\ Len(granf) \in Nat \ {0} /\ DOMAIN granf = 1..Len(granf) /\ 1 \in DOMAIN granf
      /\ \A i \in DOMAIN granf : granf[i].isa \in Number /\ i \in Nat
      /\ granf[1].isa = ZEROTUMBLER
  BY CrumsAre
<1>2. \A i, j \in DOMAIN granf : i < j => Before(granf[i].isa, granf[j].isa)
  BY DEF Crums, Sorted
<1>3. ASSUME NEW i \in DOMAIN granf, ~Last(i)
      PROVE  /\ i + 1 \in DOMAIN granf
             /\ WhereOnCrum(i, a) <= THRUME <=> Before(a, granf[i + 1].isa)
  <2>1. i + 1 \in DOMAIN granf /\ i < i + 1
    BY <1>1, <1>3 DEF Last
  <2>2. Before(granf[i].isa, granf[i + 1].isa)
    BY <1>2, <2>1
  <2> DEFINE l == granf[i].isa
             r == granf[i + 1].isa
             w == WhereOnCrum(i, a)
  <2>3. l \in Number /\ r \in Number /\ Before(l, r) /\ w = intervalcmp(l, r, a)
    BY <1>1, <2>1, <2>2 DEF WhereOnCrum
  <2>4. Before(a, l) \/ a = l \/ Before(l, a)
    BY <2>3, BeforeTotal
  <2>5. Before(a, l) => Before(a, r)
    BY <2>3, BeforeTransitive
  <2>6. a = r \/ Before(r, a) => ~Before(a, r)
    BY <2>3, BeforeTransitive, BeforeIrreflexive
  <2> HIDE DEF l, r, w
  <2>7. /\ w \in {TOMYLEFT, ONMYLEFTBORDER, THRUME, ONMYRIGHTBORDER, TOMYRIGHT}
        /\ w = TOMYLEFT <=> Before(a, l)
        /\ w = ONMYLEFTBORDER <=> a = l
        /\ w = THRUME <=> Before(l, a) /\ Before(a, r)
        /\ w = ONMYRIGHTBORDER <=> a = r
        /\ w = TOMYRIGHT <=> Before(r, a)
    BY <2>3, IntervalIs
  <2>8. w <= THRUME <=> w \in {TOMYLEFT, ONMYLEFTBORDER, THRUME}
    BY <2>7 DEF TOMYLEFT, ONMYLEFTBORDER, THRUME, ONMYRIGHTBORDER, TOMYRIGHT
  <2>9. w <= THRUME <=> Before(a, r)
    BY <2>3, <2>4, <2>5, <2>6, <2>7, <2>8
  <2> QED  BY <2>1, <2>9 DEF r, w
<1>4. Len(granf) \in S /\ S \in SUBSET Nat
  BY <1>1 DEF Last
<1>5. f \in S /\ \A k \in S : f <= k
  <2>1. f = Min(S)
    BY DEF FindCrum
  <2> HIDE DEF S, f
  <2> QED  BY <1>4, <2>1, MinIs
<1>6. f \in DOMAIN granf /\ f \in Nat
  BY <1>1, <1>5
<1> HIDE DEF f
<1>7. NotAfter(granf[f].isa, a)
  <2>1. CASE f = 1
    <3>1. iszerotumbler(ZEROTUMBLER) /\ (iszerotumbler(a) <=> a = ZEROTUMBLER)
      BY ZeroIsNumber, NumberType
    <3> QED  BY <1>1, <2>1, <3>1 DEF NotAfter, Before
  <2>2. CASE f # 1
    <3>1. f - 1 \in DOMAIN granf /\ f - 1 < f /\ f - 1 # Len(granf) /\ (f - 1) + 1 = f
      BY <1>1, <1>6, <2>2
    <3>2. ~(f - 1 \in S)
      BY <1>5, <1>6, <3>1
    <3>3. ~Last(f - 1)
      BY <3>1 DEF Last
    <3>4. ~(WhereOnCrum(f - 1, a) <= THRUME)
      BY <3>1, <3>2
    <3>5. ~Before(a, granf[f].isa)
      BY <1>3, <3>1, <3>3, <3>4
    <3> QED  BY <1>1, <1>6, <3>5, NotAfterIs
  <2> QED  BY <2>1, <2>2
<1>8. ASSUME NEW j \in DOMAIN granf, j > f PROVE Before(a, granf[j].isa)
  <2>1. ~Last(f) /\ j >= f + 1
    BY <1>1, <1>6, <1>8 DEF Last
  <2>2. f + 1 \in DOMAIN granf /\ Before(a, granf[f + 1].isa)
    BY <1>3, <1>5, <1>6, <2>1
  <2>3. CASE j = f + 1
    BY <2>2, <2>3
  <2>4. CASE j > f + 1
    <3>1. Before(granf[f + 1].isa, granf[j].isa)
      BY <1>2, <1>8, <2>2, <2>4
    <3> QED  BY <1>1, <1>8, <2>2, <3>1, BeforeTransitive
  <2> QED  BY <1>1, <1>6, <2>1, <2>3, <2>4
<1> QED  BY <1>6, <1>7, <1>8 DEF f

LEMMA FoundIs ==
    ASSUME Crums(granf), NEW a \in Number, NEW i \in DOMAIN granf,
           NotAfter(granf[i].isa, a),
           \A j \in DOMAIN granf : j > i => Before(a, granf[j].isa)
    PROVE  FindCrum(a) = i
<1> DEFINE f == FindCrum(a)
<1>1. /\ f \in DOMAIN granf /\ NotAfter(granf[f].isa, a)
      /\ \A j \in DOMAIN granf : j > f => Before(a, granf[j].isa)
  BY FindIs
<1>2. f \in Nat /\ i \in Nat /\ granf[f].isa \in Number /\ granf[i].isa \in Number
  BY <1>1, CrumsAre
<1> HIDE DEF f
<1>3. ~(f < i)
  BY <1>1, <1>2, NotAfterIs
<1>4. ~(i < f)
  BY <1>1, <1>2, NotAfterIs
<1> QED  BY <1>2, <1>3, <1>4 DEF f

\* The last address in use in a crum.
LastIn(c) == IF Text(c) THEN Step(c.isa, Len(c.text) - 1) ELSE c.isa

\* What stands last before an upper bound that is in no row of characters.
LEMMA PreviousIs ==
    ASSUME Crums(granf), NEW u \in Address,
           \A i \in DOMAIN granf : Text(granf[i]) => ~InRow(granf[i].isa, u)
    PROVE  \E i \in DOMAIN granf :
              /\ Before(granf[i].isa, u)
              /\ \A j \in DOMAIN granf : j > i => NotAfter(u, granf[j].isa)
              /\ findpreviousisagr(u) = LastIn(granf[i])
              /\ LastIn(granf[i]) \in Number
              /\ Before(LastIn(granf[i]), u)
<1> DEFINE S == {i \in DOMAIN granf :
                    Last(i) \/ WhereOnCrum(i, u) \in {THRUME, ONMYRIGHTBORDER}}
           T == {i \in DOMAIN granf : Before(granf[i].isa, u)}
<1>1. /\ Len(granf) \in Nat \ {0} /\ DOMAIN granf = 1..Len(granf) /\ 1 \in DOMAIN granf
      /\ \A i \in DOMAIN granf : granf[i].isa \in Number /\ i \in Nat
      /\ \A i \in DOMAIN granf : i > 1 => granf[i].isa \in Address /\ Shape(granf[i])
      /\ granf[1].isa = ZEROTUMBLER
  BY CrumsAre
<1>2. u \in Number /\ ~iszerotumbler(u)
  BY AddressIs
<1>3. \A i, j \in DOMAIN granf : i < j => Before(granf[i].isa, granf[j].isa)
  BY DEF Crums, Sorted
<1>4. ASSUME NEW i \in DOMAIN granf, ~Last(i)
      PROVE  /\ i + 1 \in DOMAIN granf
             /\ WhereOnCrum(i, u) \in {THRUME, ONMYRIGHTBORDER}
                <=> Before(granf[i].isa, u) /\ NotAfter(u, granf[i + 1].isa)
  <2>1. i + 1 \in DOMAIN granf /\ i < i + 1
    BY <1>1, <1>4 DEF Last
  <2>2. Before(granf[i].isa, granf[i + 1].isa)
    BY <1>3, <2>1
  <2> DEFINE l == granf[i].isa
             r == granf[i + 1].isa
             w == WhereOnCrum(i, u)
  <2>3. l \in Number /\ r \in Number /\ Before(l, r) /\ w = intervalcmp(l, r, u)
    BY <1>1, <2>1, <2>2 DEF WhereOnCrum
  <2> HIDE DEF l, r, w
  <2>4. /\ w = THRUME <=> Before(l, u) /\ Before(u, r)
        /\ w = ONMYRIGHTBORDER <=> u = r
    BY <1>2, <2>3, IntervalIs
  <2>5. w \in {THRUME, ONMYRIGHTBORDER} <=> Before(l, u) /\ NotAfter(u, r)
    BY <2>3, <2>4 DEF NotAfter
  <2> QED  BY <2>1, <2>5 DEF l, r, w
<1>5. Len(granf) \in S /\ S \in SUBSET Nat
  BY <1>1 DEF Last
<1> DEFINE f == Min(S)
<1>6. f \in S /\ \A k \in S : f <= k
  <2> HIDE DEF S
  <2> QED  BY <1>5, MinIs
<1>7. f \in DOMAIN granf /\ f \in Nat
  BY <1>1, <1>6
<1>8. findpreviousisagr(u) = LastIn(granf[f])
  BY DEF findpreviousisagr, LastIn, Text, Step
<1> HIDE DEF f
<1>9. Before(granf[f].isa, u) /\ \A j \in DOMAIN granf : j > f => NotAfter(u, granf[j].isa)
  <2>1. CASE Last(f)
    <3>1. 1 \in T
      BY <1>1, <1>2, ZeroIsNumber DEF Before
    <3>2. T \in SUBSET (0..Len(granf)) /\ T # {}
      BY <1>1, <3>1
    <3> DEFINE b == Max(T)
    <3>3. b \in T /\ \A k \in T : k <= b
      <4> HIDE DEF T
      <4> QED  BY <1>1, <3>2, MaxIs
    <3> HIDE DEF b
    <3>4. b \in DOMAIN granf /\ b \in Nat /\ Before(granf[b].isa, u)
      BY <1>1, <3>3
    <3>5. f = Len(granf)
      BY <2>1 DEF Last
    <3>6. b = f
      <4> SUFFICES ASSUME b # f PROVE FALSE
        OBVIOUS
      <4>1. ~Last(b) /\ ~(f <= b)
        BY <1>1, <3>4, <3>5 DEF Last
      <4>2. b + 1 \in DOMAIN granf /\ ~(b + 1 <= b)
        BY <1>4, <3>4, <4>1
      <4>3. ~Before(granf[b + 1].isa, u)
        BY <3>3, <4>2
      <4>4. NotAfter(u, granf[b + 1].isa)
        BY <1>1, <1>2, <4>2, <4>3, NotAfterIs
      <4>5. b \in S
        BY <1>4, <3>4, <4>1, <4>4
      <4> QED  BY <1>6, <4>1, <4>5
    <3>7. \A j \in DOMAIN granf : ~(j > f)
      BY <1>1, <3>5
    <3> QED  BY <3>4, <3>6, <3>7
  <2>2. CASE ~Last(f)
    <3>1. WhereOnCrum(f, u) \in {THRUME, ONMYRIGHTBORDER}
      BY <1>6, <2>2
    <3>2. f + 1 \in DOMAIN granf /\ Before(granf[f].isa, u) /\ NotAfter(u, granf[f + 1].isa)
      BY <1>4, <1>7, <2>2, <3>1
    <3>3. ASSUME NEW j \in DOMAIN granf, j > f PROVE NotAfter(u, granf[j].isa)
      <4>1. CASE j = f + 1
        BY <3>2, <4>1
      <4>2. CASE j > f + 1
        <5>1. Before(granf[f + 1].isa, granf[j].isa)
          BY <1>3, <3>2, <3>3, <4>2
        <5>2. Before(u, granf[j].isa)
          BY <1>1, <1>2, <3>2, <3>3, <5>1, NotAfterBefore
        <5> QED  BY <5>2 DEF NotAfter
      <4> QED  BY <1>1, <1>7, <3>3, <4>1, <4>2
    <3> QED  BY <3>2, <3>3
  <2> QED  BY <2>1, <2>2
<1>10. LastIn(granf[f]) \in Number /\ Before(LastIn(granf[f]), u)
  <2>1. CASE ~Text(granf[f])
    BY <1>1, <1>7, <1>9, <2>1 DEF LastIn
  <2>2. CASE Text(granf[f])
    <3>1. f > 1
      <4>1. ~(granf[1].infotype = "GRANTEXT")
        BY DEF Crums
      <4> QED  BY <1>1, <1>7, <2>2, <4>1 DEF Text
    <3>2. granf[f].isa \in Address /\ Stays(granf[f].isa, Len(granf[f].text) - 1)
      BY <1>1, <1>7, <2>2, <3>1 DEF Shape, Text
    <3>3. LastIn(granf[f]) = Step(granf[f].isa, Len(granf[f].text) - 1)
      BY <2>2 DEF LastIn
    <3>4. granf[f].isa \in Number /\ ~iszerotumbler(granf[f].isa)
      BY <3>2 DEF Address
    <3>5. ~InRow(granf[f].isa, u)
      BY <1>7, <2>2
    <3> QED  BY <1>2, <1>9, <3>2, <3>3, <3>4, <3>5, StepIs, StepOutside
  <2> QED  BY <2>1, <2>2
<1> QED  BY <1>7, <1>8, <1>9, <1>10

LEMMA AfterIs ==
    ASSUME NEW g \in Seq(Crum), NEW i \in 1..Len(g), NEW c \in Crum
    PROVE  /\ After(g, i, c) \in Seq(Crum)
           /\ Len(After(g, i, c)) = Len(g) + 1
           /\ DOMAIN After(g, i, c) = 1..(Len(g) + 1)
           /\ \A k \in 1..(Len(g) + 1) :
                 After(g, i, c)[k] = IF k <= i THEN g[k] ELSE IF k = i + 1 THEN c ELSE g[k - 1]
<1> DEFINE n == Len(g)
           l == SubSeq(g, 1, i)
           r == SubSeq(g, i + 1, n)
           lc == l \o <<c>>
           a == lc \o r
<1>1. n \in Nat /\ i \in Nat /\ i >= 1 /\ i <= n /\ \A k \in 1..n : g[k] \in Crum
  OBVIOUS
<1>2. l \in Seq(Crum) /\ Len(l) = i /\ \A k \in 1..i : l[k] = g[k]
  BY <1>1
<1>3. r \in Seq(Crum) /\ Len(r) = n - i /\ \A k \in 1..(n - i) : r[k] = g[i + k]
  BY <1>1
<1>4. <<c>> \in Seq(Crum) /\ Len(<<c>>) = 1 /\ <<c>>[1] = c
  OBVIOUS
<1> HIDE DEF l, r
<1>5. lc \in Seq(Crum) /\ Len(lc) = i + 1
      /\ \A k \in 1..(i + 1) : lc[k] = IF k <= i THEN g[k] ELSE c
  <2>1. lc \in Seq(Crum) /\ Len(lc) = i + 1
    BY <1>1, <1>2, <1>4
  <2>2. \A k \in 1..(i + 1) : lc[k] = IF k <= i THEN l[k] ELSE <<c>>[k - i]
    BY <1>1, <1>2, <1>4
  <2>3. \A k \in 1..(i + 1) : k <= i \/ k - i = 1
    BY <1>1
  <2> QED  BY <1>1, <1>2, <1>4, <2>1, <2>2, <2>3
<1> HIDE DEF lc
<1>6. a \in Seq(Crum) /\ Len(a) = n + 1 /\ DOMAIN a = 1..(n + 1)
  <2>1. lc \in Seq(Crum) /\ r \in Seq(Crum)
    BY <1>3, <1>5
  <2>2. a \in Seq(Crum) /\ Len(a) = Len(lc) + Len(r)
    BY <2>1
  <2>3. Len(a) = n + 1
    BY <1>1, <1>3, <1>5, <2>2
  <2> HIDE DEF a
  <2> QED  BY <2>2, <2>3
<1>7. \A k \in 1..(n + 1) : a[k] = IF k <= i + 1 THEN lc[k] ELSE r[k - (i + 1)]
  <2>1. lc \in Seq(Crum) /\ r \in Seq(Crum) /\ Len(lc) = i + 1 /\ Len(r) = n - i
    BY <1>3, <1>5
  <2>2. \A k \in 1..(Len(lc) + Len(r)) : a[k] = IF k <= Len(lc) THEN lc[k] ELSE r[k - Len(lc)]
    BY <2>1
  <2>3. Len(lc) + Len(r) = n + 1
    BY <1>1, <2>1
  <2> QED  BY <2>1, <2>2, <2>3
<1>8. \A k \in 1..(n + 1) : a[k] = IF k <= i THEN g[k] ELSE IF k = i + 1 THEN c ELSE g[k - 1]
  <2> SUFFICES ASSUME NEW k \in 1..(n + 1)
               PROVE  a[k] = IF k <= i THEN g[k] ELSE IF k = i + 1 THEN c ELSE g[k - 1]
    OBVIOUS
  <2>1. CASE k <= i + 1
    <3>1. k \in 1..(i + 1) /\ (k <= i \/ k = i + 1)
      BY <1>1, <2>1
    <3> QED  BY <1>1, <1>5, <1>7, <2>1, <3>1
  <2>2. CASE ~(k <= i + 1)
    <3>1. k - (i + 1) \in 1..(n - i) /\ i + (k - (i + 1)) = k - 1 /\ ~(k <= i) /\ k # i + 1
      BY <1>1, <2>2
    <3> QED  BY <1>3, <1>7, <2>2, <3>1
  <2> QED  BY <2>1, <2>2
<1>9. After(g, i, c) = a
  BY DEF After, a, lc, l, r
<1> HIDE DEF a
<1> QED  BY <1>6, <1>8, <1>9

LEMMA EndIs ==
    ASSUME NEW c \in Crum, Shape(c), Text(c), NEW k \in Nat
    PROVE  /\ Stays(c.isa, k) /\ Step(c.isa, k) \in Address
           /\ End(c) = Step(c.isa, Len(c.text)) /\ End(c) \in Address
           /\ Len(c.text) \in Nat
           /\ NotAfter(c.isa, Step(c.isa, k))
<1>1. c.isa \in Number /\ ~iszerotumbler(c.isa) /\ c.isa \in Address /\ Len(c.text) \in Nat
  BY DEF Shape, Address, Crum
<1>2. Stays(c.isa, k) /\ Stays(c.isa, Len(c.text)) /\ Stays(c.isa, 0) /\ Step(c.isa, 0) = c.isa
  BY <1>1, StaysIs
<1>3. Step(c.isa, k) \in Address /\ Step(c.isa, Len(c.text)) \in Address
  BY <1>1, <1>2, StepAddress
<1>4. NotAfter(c.isa, Step(c.isa, k))
  <2>1. CASE k = 0
    BY <1>2, <2>1 DEF NotAfter
  <2>2. CASE k # 0
    <3>1. Before(Step(c.isa, 0), Step(c.isa, k))
      BY <1>1, <1>2, <2>2, StepBefore
    <3> QED  BY <1>2, <3>1 DEF NotAfter
  <2> QED  BY <2>1, <2>2
<1> QED  BY <1>1, <1>2, <1>3, <1>4 DEF End

\* A crum put behind what is before it keeps the row.
LEMMA AfterKeeps ==
    ASSUME NEW g, Crums(g), NEW i \in DOMAIN g,
           NEW c \in Crum, Shape(c), Len(c.text) <= GRANTEXTLENGTH,
           Before(g[i].isa, c.isa), Text(g[i]) => NotAfter(End(g[i]), c.isa),
           \A j \in DOMAIN g : j > i =>
              /\ Before(c.isa, g[j].isa)
              /\ Text(c) => NotAfter(End(c), g[j].isa)
    PROVE  Crums(After(g, i, c))
<1> DEFINE h == After(g, i, c)
           n == Len(g)
<1>1. /\ g \in Seq(Crum) /\ n \in Nat \ {0} /\ DOMAIN g = 1..n
      /\ \A k \in DOMAIN g : g[k].isa \in Number /\ k \in Nat
      /\ \A k \in DOMAIN g : k > 1 => g[k].isa \in Address /\ Shape(g[k])
  BY CrumsAre
<1>2. /\ h \in Seq(Crum) /\ Len(h) = n + 1 /\ DOMAIN h = 1..(n + 1)
      /\ \A k \in 1..(n + 1) : h[k] = IF k <= i THEN g[k] ELSE IF k = i + 1 THEN c ELSE g[k - 1]
  <2>1. i \in 1..Len(g)
    BY <1>1
  <2> HIDE DEF h
  <2> QED  BY <1>1, <2>1, AfterIs DEF h
<1>3. i \in Nat /\ i >= 1 /\ i <= n
  BY <1>1
<1>4. /\ g[1].isa = ZEROTUMBLER /\ g[1].infotype = "GRANNULL" /\ g[1].text = <<>>
      /\ \A k \in DOMAIN g : Len(g[k].text) <= GRANTEXTLENGTH
      /\ \A k \in DOMAIN g : g[k] \in Crum
      /\ \A a, b \in DOMAIN g : a < b =>
            /\ Before(g[a].isa, g[b].isa)
            /\ Text(g[a]) => NotAfter(End(g[a]), g[b].isa)
  BY <1>1 DEF Crums, Sorted
<1>5. c.isa \in Number
  BY DEF Shape, Address
<1> HIDE DEF h, n
<1>6. ASSUME NEW k \in 1..(n + 1)
      PROVE  \/ k = i + 1 /\ h[k] = c
             \/ k <= i /\ k \in DOMAIN g /\ h[k] = g[k]
             \/ k > i + 1 /\ k - 1 \in DOMAIN g /\ k - 1 > i /\ h[k] = g[k - 1]
  <2>1. k \in Nat /\ k >= 1 /\ k <= n + 1
    BY <1>1
  <2>2. CASE k <= i
    <3>1. k \in DOMAIN g
      BY <1>1, <1>3, <2>1, <2>2
    <3> QED  BY <1>2, <2>2, <3>1
  <2>3. CASE k = i + 1
    <3>1. ~(k <= i)
      BY <1>3, <2>3
    <3> QED  BY <1>2, <2>3, <3>1
  <2>4. CASE k > i + 1
    <3>1. ~(k <= i) /\ k # i + 1 /\ k - 1 \in DOMAIN g /\ k - 1 > i
      BY <1>1, <1>3, <2>1, <2>4
    <3> QED  BY <1>2, <2>4, <3>1
  <2> QED  BY <1>3, <2>1, <2>2, <2>3, <2>4
<1>7. h[1].isa = ZEROTUMBLER /\ h[1].infotype = "GRANNULL" /\ h[1].text = <<>>
  <2>1. h[1] = g[1]
    BY <1>1, <1>2, <1>3
  <2> QED  BY <1>4, <2>1
<1>8. ASSUME NEW k \in DOMAIN h, k > 1 PROVE Shape(h[k])
  <2>1. k \in 1..(n + 1) /\ k \in Nat
    BY <1>1, <1>2
  <2>2. CASE k = i + 1 /\ h[k] = c
    BY <2>2
  <2>3. CASE k <= i /\ k \in DOMAIN g /\ h[k] = g[k]
    BY <1>1, <1>8, <2>3
  <2>4. CASE k > i + 1 /\ k - 1 \in DOMAIN g /\ k - 1 > i /\ h[k] = g[k - 1]
    <3>1. k - 1 > 1
      BY <1>3, <2>1, <2>4
    <3> QED  BY <1>1, <2>4, <3>1
  <2> QED  BY <1>6, <2>1, <2>2, <2>3, <2>4
<1>9. ASSUME NEW k \in DOMAIN h PROVE Len(h[k].text) <= GRANTEXTLENGTH
  <2>1. k \in 1..(n + 1)
    BY <1>2
  <2> QED  BY <1>4, <1>6, <2>1
<1>10. \A a \in DOMAIN g : a < i =>
         /\ Before(g[a].isa, c.isa)
         /\ Text(g[a]) => NotAfter(End(g[a]), c.isa)
  <2> SUFFICES ASSUME NEW a \in DOMAIN g, a < i
               PROVE  /\ Before(g[a].isa, c.isa)
                      /\ Text(g[a]) => NotAfter(End(g[a]), c.isa)
    OBVIOUS
  <2>1. /\ Before(g[a].isa, g[i].isa)
        /\ Text(g[a]) => NotAfter(End(g[a]), g[i].isa)
    BY <1>4
  <2>2. Before(g[a].isa, c.isa)
    BY <1>1, <1>5, <2>1, BeforeTransitive
  <2>3. ASSUME Text(g[a]) PROVE NotAfter(End(g[a]), c.isa)
    <3>1. a > 1
      <4>1. ~Text(g[1])
        BY <1>4 DEF Text
      <4> QED  BY <1>1, <2>3, <4>1
    <3>2. End(g[a]) \in Number
      BY <1>1, <1>4, <2>3, <3>1, EndIs, AddressIs
    <3>3. Before(End(g[a]), c.isa)
      BY <1>1, <1>5, <2>1, <2>3, <3>2, NotAfterBefore
    <3> QED  BY <3>3 DEF NotAfter
  <2> QED  BY <2>2, <2>3
<1>11. ASSUME NEW a \in DOMAIN h, NEW b \in DOMAIN h, a < b
       PROVE  /\ Before(h[a].isa, h[b].isa)
              /\ Text(h[a]) => NotAfter(End(h[a]), h[b].isa)
  <2>1. a \in 1..(n + 1) /\ b \in 1..(n + 1) /\ a \in Nat /\ b \in Nat
    BY <1>1, <1>2
  <2>2. \/ a = i + 1 /\ h[a] = c
        \/ a <= i /\ a \in DOMAIN g /\ h[a] = g[a]
        \/ a > i + 1 /\ a - 1 \in DOMAIN g /\ a - 1 > i /\ h[a] = g[a - 1]
    BY <1>6, <2>1
  <2>3. \/ b = i + 1 /\ h[b] = c
        \/ b <= i /\ b \in DOMAIN g /\ h[b] = g[b]
        \/ b > i + 1 /\ b - 1 \in DOMAIN g /\ b - 1 > i /\ h[b] = g[b - 1]
    BY <1>6, <2>1
  <2>4. CASE a = i + 1 /\ h[a] = c
    <3>1. b > i + 1
      BY <1>3, <1>11, <2>1, <2>4
    <3>2. b - 1 \in DOMAIN g /\ b - 1 > i /\ h[b] = g[b - 1]
      BY <1>3, <2>1, <2>3, <3>1
    <3> QED  BY <2>4, <3>2
  <2>5. CASE a <= i /\ a \in DOMAIN g /\ h[a] = g[a]
    <3>1. CASE b = i + 1 /\ h[b] = c
      <4>1. a < i \/ a = i
        BY <1>3, <2>1, <2>5
      <4> QED  BY <1>10, <2>5, <3>1, <4>1
    <3>2. CASE b <= i /\ b \in DOMAIN g /\ h[b] = g[b]
      BY <1>4, <1>11, <2>5, <3>2
    <3>3. CASE b > i + 1 /\ b - 1 \in DOMAIN g /\ b - 1 > i /\ h[b] = g[b - 1]
      <4>1. a < b - 1
        BY <1>3, <2>1, <2>5, <3>3
      <4> QED  BY <1>4, <2>5, <3>3, <4>1
    <3> QED  BY <2>3, <3>1, <3>2, <3>3
  <2>6. CASE a > i + 1 /\ a - 1 \in DOMAIN g /\ a - 1 > i /\ h[a] = g[a - 1]
    <3>1. b > i + 1 /\ a - 1 < b - 1
      BY <1>3, <1>11, <2>1, <2>6
    <3>2. b - 1 \in DOMAIN g /\ h[b] = g[b - 1]
      BY <1>3, <2>1, <2>3, <3>1
    <3> QED  BY <1>4, <2>6, <3>1, <3>2
  <2> QED  BY <2>2, <2>4, <2>5, <2>6
<1>12. Sorted(h)
  BY <1>11 DEF Sorted
<1>13. Len(h) > 0
  BY <1>1, <1>2
<1>14. Crums(h)
  BY <1>2, <1>7, <1>8, <1>9, <1>12, <1>13 DEF Crums
<1> QED  BY <1>14 DEF h

LEMMA TextUpdate ==
    ASSUME NEW x \in Crum, NEW s
    PROVE  [x EXCEPT !.text = s] = [isa |-> x.isa, infotype |-> x.infotype, text |-> s]
  BY DEF Crum

\* So does a text that grows up to what is behind it.
LEMMA AppendKeeps ==
    ASSUME NEW g, Crums(g), NEW i \in DOMAIN g, Text(g[i]), NEW t \in Seq(Char),
           Len(g[i].text) + Len(t) <= GRANTEXTLENGTH,
           \A j \in DOMAIN g : j > i =>
              NotAfter(Step(g[i].isa, Len(g[i].text) + Len(t)), g[j].isa)
    PROVE  /\ Crums([g EXCEPT ![i].text = @ \o t])
           /\ DOMAIN [g EXCEPT ![i].text = @ \o t] = DOMAIN g
           /\ \A k \in DOMAIN g : [g EXCEPT ![i].text = @ \o t][k] =
                 IF k = i THEN [isa |-> g[i].isa, infotype |-> g[i].infotype,
                                text |-> g[i].text \o t]
                 ELSE g[k]
<1> DEFINE h == [g EXCEPT ![i].text = @ \o t]
           n == Len(g)
           c == [isa |-> g[i].isa, infotype |-> g[i].infotype, text |-> g[i].text \o t]
<1>1. /\ g \in Seq(Crum) /\ n \in Nat \ {0} /\ DOMAIN g = 1..n
      /\ \A k \in DOMAIN g : g[k].isa \in Number /\ k \in Nat
      /\ \A k \in DOMAIN g : k > 1 => g[k].isa \in Address /\ Shape(g[k])
  BY CrumsAre
<1>2. /\ g[1].isa = ZEROTUMBLER /\ g[1].infotype = "GRANNULL" /\ g[1].text = <<>>
      /\ \A k \in DOMAIN g : Len(g[k].text) <= GRANTEXTLENGTH
      /\ \A k \in DOMAIN g : g[k] \in Crum
      /\ \A a, b \in DOMAIN g : a < b =>
            /\ Before(g[a].isa, g[b].isa)
            /\ Text(g[a]) => NotAfter(End(g[a]), g[b].isa)
  BY <1>1 DEF Crums, Sorted
<1>3. g[i] \in Crum /\ i \in Nat /\ g[i].text \in Seq(Char)
  BY <1>1, <1>2 DEF Crum
<1>4. i > 1
  <2>1. ~Text(g[1])
    BY <1>2 DEF Text
  <2> QED  BY <1>1, <2>1
<1>5. /\ g[i].text \o t \in Seq(Char) /\ Len(g[i].text \o t) = Len(g[i].text) + Len(t)
      /\ Len(t) \in Nat /\ Len(g[i].text) \in Nat
  BY <1>3
<1>6. c \in Crum
  <2>1. g[i].isa \in tumbler /\ g[i].infotype \in {"GRANNULL", "GRANORGL", "GRANTEXT"}
    BY <1>3 DEF Crum
  <2> QED  BY <1>5, <2>1 DEF Crum
<1>7. [g[i] EXCEPT !.text = g[i].text \o t] = c
  <2> HIDE DEF h
  <2> QED  BY <1>3, TextUpdate
<1>8. h = [g EXCEPT ![i] = c]
  BY <1>7
<1>9. /\ h \in Seq(Crum) /\ Len(h) = n /\ DOMAIN h = DOMAIN g
      /\ \A k \in DOMAIN g : h[k] = IF k = i THEN c ELSE g[k]
  <2> HIDE DEF c, h
  <2> QED  BY <1>1, <1>6, <1>8
<1>10. Shape(c) /\ Text(c) /\ End(c) = Step(g[i].isa, Len(g[i].text) + Len(t))
  <2>1. Shape(g[i]) /\ c.isa = g[i].isa /\ c.infotype = g[i].infotype
    BY <1>1, <1>4
  <2>2. Stays(c.isa, Len(c.text) - 1)
    <3>1. Stays(g[i].isa, Len(g[i].text) - 1)
      BY <2>1 DEF Shape, Text
    <3>2. Len(c.text) - 1 = (Len(g[i].text) - 1) + Len(t)
      BY <1>5
    <3>3. g[i].isa.mantissa[nstories(g[i].isa) - 1] \in Nat
      BY <2>1, AddressIs DEF Shape
    <3> QED  BY <1>5, <2>1, <3>1, <3>2, <3>3 DEF Stays
  <2>3. Text(c)
    BY DEF Text
  <2>4. Shape(c)
    BY <2>1, <2>2, <2>3 DEF Shape, Text
  <2>5. End(c) = Step(g[i].isa, Len(g[i].text) + Len(t))
    BY <1>5 DEF End
  <2> QED  BY <2>3, <2>4, <2>5
<1>11. c.isa = g[i].isa /\ Len(c.text) <= GRANTEXTLENGTH
  BY <1>5
<1> HIDE DEF h, n, c
<1>12. h[1] = g[1]
  BY <1>1, <1>4, <1>9
<1>13. ASSUME NEW a \in DOMAIN h, NEW b \in DOMAIN h, a < b
       PROVE  /\ Before(h[a].isa, h[b].isa)
              /\ Text(h[a]) => NotAfter(End(h[a]), h[b].isa)
  <2>1. a \in DOMAIN g /\ b \in DOMAIN g
    BY <1>9
  <2>2. h[a].isa = g[a].isa /\ h[b].isa = g[b].isa
    BY <1>9, <1>11, <2>1
  <2>3. /\ Before(g[a].isa, g[b].isa)
        /\ Text(g[a]) => NotAfter(End(g[a]), g[b].isa)
    BY <1>2, <1>13, <2>1
  <2>4. CASE a = i
    <3>1. NotAfter(Step(g[i].isa, Len(g[i].text) + Len(t)), g[b].isa)
      BY <1>13, <2>1, <2>4
    <3>2. h[a] = c
      BY <1>9, <2>1, <2>4
    <3> QED  BY <1>10, <2>2, <2>3, <3>1, <3>2
  <2>5. CASE a # i
    <3>1. h[a] = g[a]
      BY <1>9, <2>1, <2>5
    <3> QED  BY <2>2, <2>3, <3>1
  <2> QED  BY <2>4, <2>5
<1>14. \A k \in DOMAIN h : k > 1 => Shape(h[k])
  BY <1>1, <1>9, <1>10
<1>15. \A k \in DOMAIN h : Len(h[k].text) <= GRANTEXTLENGTH
  BY <1>2, <1>9, <1>11
<1>16. Len(h) > 0
  BY <1>1, <1>9
<1>17. Sorted(h)
  BY <1>13 DEF Sorted
<1>18. Crums(h)
  BY <1>2, <1>9, <1>12, <1>14, <1>15, <1>16, <1>17 DEF Crums
<1> QED  BY <1>9, <1>18 DEF h, c

-----------------------------------------------------------------------------
(* Where a new address fits. *)

\* z fits behind crum i of the row.
Fits(i, z) ==
    /\ i \in DOMAIN granf
    /\ Before(granf[i].isa, z)
    /\ Text(granf[i]) => NotAfter(End(granf[i]), z)
    /\ \A j \in DOMAIN granf : j > i => Before(z, granf[j].isa)

\* Crum i is the last one before the upper bound u.
LastBefore(i, u) ==
    /\ i \in DOMAIN granf
    /\ Before(granf[i].isa, u)
    /\ \A j \in DOMAIN granf : j > i => NotAfter(u, granf[j].isa)
    /\ findpreviousisagr(u) = LastIn(granf[i])
    /\ LastIn(granf[i]) \in Number
    /\ Before(LastIn(granf[i]), u)

\* The address of an orgl between what is last and the bound fits, although it
\* was derived from one character of a text and stands behind all of it.
LEMMA OrglFits ==
    ASSUME Crums(granf), NEW u \in Number, NEW i, LastBefore(i, u), NEW z \in Address,
           Level(z) <= 2 \/ Element(z, LINKATOM),
           Before(LastIn(granf[i]), z), Before(z, u)
    PROVE  Fits(i, z)
<1>1. /\ i \in DOMAIN granf /\ granf[i].isa \in Number /\ granf[i] \in Crum
      /\ i > 1 => granf[i].isa \in Address /\ Shape(granf[i])
      /\ i = 1 \/ i > 1
      /\ \A j \in DOMAIN granf : granf[j].isa \in Number
      /\ ~Text(granf[1])
  BY CrumsAre DEF LastBefore, Crums, Text
<1>2. z \in Number /\ ~iszerotumbler(z)
  BY AddressIs
<1>3. ASSUME NEW j \in DOMAIN granf, j > i PROVE Before(z, granf[j].isa)
  <2>1. NotAfter(u, granf[j].isa)
    BY <1>3 DEF LastBefore
  <2> QED  BY <1>1, <1>2, <2>1, BeforeNotAfter
<1>4. CASE ~Text(granf[i])
  BY <1>1, <1>3, <1>4 DEF LastIn, Fits
<1>5. CASE Text(granf[i])
  <2> DEFINE c == granf[i]
             a == c.isa
             n == Len(c.text)
             l == Step(a, n - 1)
  <2>1. /\ c \in Crum /\ Shape(c) /\ Text(c) /\ a \in Address /\ Element(a, TEXTATOM)
        /\ Stays(a, n - 1)
    BY <1>1, <1>5 DEF Shape, Text
  <2>2. /\ Stays(a, n) /\ Step(a, n) \in Address /\ End(c) = Step(a, n)
        /\ n \in Nat /\ NotAfter(a, Step(a, n))
    <3>1. n \in Nat
      BY <2>1 DEF Crum
    <3> HIDE DEF n, a, c
    <3>2. End(c) = Step(a, n)
      BY DEF End, n, a
    <3> QED  BY <2>1, <3>1, <3>2, EndIs DEF a
  <2>3. LastIn(c) = l
    BY <1>5 DEF LastIn
  <2> HIDE DEF c, a, n
  <2>4. /\ l \in Address /\ nstories(l) = nstories(a) /\ l.exp = a.exp
        /\ \A p \in Place : p < nstories(a) - 1 => l.mantissa[p] = a.mantissa[p]
    BY <2>1, StepAddress
  <2>5. ~InRow(a, z)
    BY <2>1, OutsideRows
  <2>6. ~Under(l, z)
    <3> SUFFICES ASSUME Under(l, z) PROVE FALSE
      OBVIOUS
    <3>1. InRow(l, z)
      BY <2>4, UnderRow
    <3> QED  BY <2>4, <2>5, <3>1 DEF InRow
  <2>7. Before(l, z)
    BY <2>3 DEF c
  <2>8. NotAfter(Step(l, 1), z)
    BY <1>2, <2>4, <2>6, <2>7, NextInRow, AddressIs
  <2>9. Step(l, 1) = Step(a, n)
    <3>1. (n - 1) + 1 = n /\ n - 1 \in Int
      BY <2>2
    <3>2. a \in Number /\ ~iszerotumbler(a)
      BY <2>1, AddressIs
    <3>3. Step(Step(a, n - 1), 1) = Step(a, (n - 1) + 1)
      BY <2>1, <2>2, <3>1, <3>2, StepStep
    <3> QED  BY <3>1, <3>3
  <2>10. NotAfter(End(c), z)
    BY <2>2, <2>8, <2>9
  <2>11. Before(a, z)
    <3>1. a # z
      BY <2>5 DEF InRow
    <3>2. a \in Number /\ Step(a, n) \in Number
      BY <2>1, <2>2, AddressIs
    <3>3. a = z \/ Before(a, z)
      BY <1>2, <2>2, <2>10, <3>2, BeforeTransitive DEF NotAfter
    <3> QED  BY <3>1, <3>3
  <2> QED  BY <1>1, <1>3, <2>10, <2>11 DEF Fits, c, a
<1> QED  BY <1>4, <1>5

\* The row with the orgl in it.
LEMMA OrglKeeps ==
    ASSUME Crums(granf), NEW i, NEW z \in Address, Fits(i, z),
           Level(z) <= 2 \/ Element(z, LINKATOM)
    PROVE  /\ InsertOrgl(z) = After(granf, i, [isa |-> z, infotype |-> "GRANORGL", text |-> <<>>])
           /\ Crums(InsertOrgl(z))
<1> DEFINE c == [isa |-> z, infotype |-> "GRANORGL", text |-> <<>>]
<1>1. z \in Number /\ z \in tumbler
  BY AddressIs
<1>2. FindCrum(z) = i
  BY <1>1, FoundIs DEF Fits, NotAfter
<1>3. InsertOrgl(z) = After(granf, i, c)
  BY <1>2 DEF InsertOrgl
<1>4. c \in Crum /\ ~Text(c) /\ Len(c.text) = 0 /\ Shape(c) /\ c.isa = z
  <2>1. <<>> \in Seq(Char) /\ Len(<<>>) = 0
    OBVIOUS
  <2>2. c \in Crum
    BY <1>1, <2>1 DEF Crum
  <2>3. c.isa = z /\ c.infotype = "GRANORGL" /\ c.text = <<>>
    OBVIOUS
  <2> HIDE DEF c
  <2> QED  BY <2>1, <2>2, <2>3 DEF Shape, Text
<1> HIDE DEF c
<1>5. 0 <= GRANTEXTLENGTH
  BY GranfAssumption
<1>6. Crums(After(granf, i, c))
  BY <1>4, <1>5, AfterKeeps DEF Fits
<1> QED  BY <1>3, <1>6 DEF c

\* A new document, node or version is below its parent, and fits.
LEMMA NonMoleculeFits ==
    ASSUME Crums(granf), NEW hint \in Address, NEW depth \in {1, 2}, Increments(hint, depth),
           Level(hint) + depth <= 3
    PROVE  /\ findisatoinsertnonmolecule(hint, depth) \in Address
           /\ Level(findisatoinsertnonmolecule(hint, depth)) = Level(hint) + depth - 1
           /\ Under(hint, findisatoinsertnonmolecule(hint, depth))
           /\ findisatoinsertnonmolecule(hint, depth).exp = hint.exp
           /\ nstories(findisatoinsertnonmolecule(hint, depth)) = nstories(hint) + depth
           /\ \E i \in DOMAIN granf : Fits(i, findisatoinsertnonmolecule(hint, depth))
<1> DEFINE u == tumblerincrement(hint, depth - 1, 1)
           z == findisatoinsertnonmolecule(hint, depth)
<1>1. Level(hint) \in Nat /\ Level(hint) <= 2
  BY ZerosFinite
<1>2. u \in Address /\ Level(u) <= 2
  <2>1. CASE depth = 1
    <3>1. u = Step(hint, 1)
      BY <2>1 DEF Step
    <3>2. Stays(hint, 1)
      BY AddressIs, StaysIs
    <3> QED  BY <1>1, <3>1, <3>2, StepAddress
  <2>2. CASE depth = 2
    <3>1. u = tumblerincrement(hint, 1, 1)
      BY <2>2
    <3>2. Increments(hint, 1)
      <4>1. nstories(hint) \in Nat /\ nstories(hint) > 0 /\ ~iszerotumbler(hint)
        BY AddressIs
      <4> QED  BY <2>2, <4>1, PlacesAssumption DEF Increments, Place
    <3>3. u \in Address /\ Level(u) = Level(hint) + 1 - 1
      BY <3>1, <3>2, ChildIs
    <3> QED  BY <1>1, <3>3
  <2> QED  BY <2>1, <2>2
<1> HIDE DEF u
<1>3. ASSUME NEW i \in DOMAIN granf, Text(granf[i]) PROVE ~InRow(granf[i].isa, u)
  <2>1. i > 1
    BY <1>3, CrumsAre DEF Crums, Text
  <2>2. granf[i].isa \in Address /\ Element(granf[i].isa, TEXTATOM)
    BY <1>3, <2>1 DEF Crums, Shape, Text
  <2> QED  BY <1>2, <2>2, OutsideRows
<1>4. PICK i \in DOMAIN granf : LastBefore(i, u)
  BY <1>2, <1>3, PreviousIs DEF LastBefore
<1> DEFINE l == LastIn(granf[i])
<1>5. findpreviousisagr(u) = l /\ l \in Number /\ Before(l, u)
  BY <1>4 DEF LastBefore
<1>6. z = ChildAfter(hint, depth, l)
  BY <1>5 DEF findisatoinsertnonmolecule, ChildAfter, u
<1> HIDE DEF l, z
<1>7. /\ \E v \in Nat \ {0} : z = tumblerincrement(hint, depth, v)
      /\ Before(l, z) /\ Before(z, u)
  BY <1>5, <1>6, ChildAfterIs DEF u
<1>8. /\ z \in Address /\ z.exp = hint.exp /\ Under(hint, z)
      /\ nstories(z) = nstories(hint) + depth
      /\ Level(z) = Level(hint) + depth - 1
  BY <1>7, ChildIs
<1>9. Level(z) <= 2
  BY <1>1, <1>8
<1>10. Fits(i, z)
  BY <1>2, <1>4, <1>7, <1>8, <1>9, OrglFits, AddressIs DEF l
<1> QED  BY <1>8, <1>10 DEF z

-----------------------------------------------------------------------------
(* Characters and links. *)

\* The address that the characters (1) or links (2) of a document are under.
LEMMA AtomIs ==
    ASSUME NEW doc \in Address, Level(doc) = 2, Increments(doc, 3), NEW v \in Nat \ {0}
    PROVE  /\ nstories(doc) \in Place /\ nstories(doc) + 1 \in Place /\ nstories(doc) + 2 \in Place
           /\ tumblerincrement(doc, 2, v) \in Address
           /\ tumblerincrement(doc, 2, v).exp = doc.exp
           /\ nstories(tumblerincrement(doc, 2, v)) = nstories(doc) + 2
           /\ \A p \in Place : tumblerincrement(doc, 2, v).mantissa[p] =
                 IF p < nstories(doc) THEN doc.mantissa[p]
                 ELSE IF p = nstories(doc) + 1 THEN v ELSE 0
           /\ Under(doc, tumblerincrement(doc, 2, v))
           /\ Before(doc, tumblerincrement(doc, 2, v))
           /\ Level(tumblerincrement(doc, 2, v)) = 3
           /\ Zeros(tumblerincrement(doc, 2, v)) = Zeros(doc) \union {nstories(doc)}
           /\ Increments(tumblerincrement(doc, 2, v), 1)
<1> DEFINE n == nstories(doc)
           c == tumblerincrement(doc, 2, v)
<1>1. n \in Nat /\ n > 0 /\ ~iszerotumbler(doc)
  BY AddressIs
<1>2. n + 2 \in Place
  <2>1. n - 1 + 3 \in Place
    BY <1>1 DEF Increments
  <2>2. n - 1 + 3 = n + 2
    BY <1>1
  <2> QED  BY <2>1, <2>2
<1>3. n \in Place /\ n + 1 \in Place
  BY <1>1, <1>2, PlacesAssumption DEF Place
<1>4. Increments(doc, 2)
  <2>1. n - 1 + 2 = n + 1
    BY <1>1
  <2> QED  BY <1>3, <2>1 DEF Increments
<1>5. /\ c \in Address /\ c.exp = doc.exp /\ nstories(c) = n + 2
      /\ \A p \in Place : c.mantissa[p] =
            IF p < n THEN doc.mantissa[p] ELSE IF p = n - 1 + 2 THEN v ELSE 0
      /\ Under(doc, c) /\ Before(doc, c)
      /\ Zeros(c) = Zeros(doc) \union {n}
      /\ Level(c) = Level(doc) + 2 - 1
  BY <1>4, ChildIs
<1>6. n - 1 + 2 = n + 1
  BY <1>1
<1> HIDE DEF n, c
<1>7. Level(c) = 3
  BY <1>5
<1>8. Increments(c, 1)
  <2>1. nstories(c) - 1 + 1 = n + 2
    BY <1>1, <1>5
  <2> QED  BY <1>2, <2>1 DEF Increments
<1> QED  BY <1>2, <1>3, <1>5, <1>6, <1>7, <1>8 DEF n, c

\* What is under the first of two of these comes before the second.
LEMMA AtomsBefore ==
    ASSUME NEW doc \in Address, Level(doc) = 2, Increments(doc, 3),
           NEW v \in Nat \ {0}, NEW w \in Nat \ {0}, v < w,
           NEW z \in Number, Under(tumblerincrement(doc, 2, v), z)
    PROVE  Before(z, tumblerincrement(doc, 2, w))
<1> DEFINE n == nstories(doc)
           c == tumblerincrement(doc, 2, v)
           d == tumblerincrement(doc, 2, w)
<1>1. /\ n + 1 \in Place /\ c.exp = doc.exp /\ nstories(c) = n + 2
      /\ \A p \in Place : c.mantissa[p] =
            IF p < n THEN doc.mantissa[p] ELSE IF p = n + 1 THEN v ELSE 0
  BY AtomIs
<1>2. /\ d \in Address /\ d.exp = doc.exp
      /\ \A p \in Place : d.mantissa[p] =
            IF p < n THEN doc.mantissa[p] ELSE IF p = n + 1 THEN w ELSE 0
  BY AtomIs
<1>3. z.exp = c.exp /\ \A p \in Place : p < n + 2 => z.mantissa[p] = c.mantissa[p]
  BY <1>1 DEF Under
<1>4. n \in Nat /\ \A p \in Place : p \in Nat
  BY AddressIs
<1> HIDE DEF n, c, d
<1>5. z.mantissa[n + 1] = v /\ d.mantissa[n + 1] = w
  BY <1>1, <1>2, <1>3, <1>4
<1>6. \A q \in Place : q < n + 1 => z.mantissa[q] = d.mantissa[q]
  <2>1. \A q \in Place : q < n + 1 => q < n + 2 /\ q # n + 1
    BY <1>4
  <2> QED  BY <1>1, <1>2, <1>3, <2>1
<1>7. FirstBelow(z, d, n + 1)
  BY <1>5, <1>6 DEF FirstBelow
<1>8. ~iszerotumbler(d)
  BY <1>2, AddressIs
<1> QED  BY <1>1, <1>2, <1>3, <1>7, <1>8 DEF Before, d

\* The n-th character or link of a document.
LEMMA ElementIs ==
    ASSUME NEW doc \in Address, Level(doc) = 2, Increments(doc, 3), NEW atom \in Nat \ {0},
           NEW z \in Address, Under(tumblerincrement(doc, 2, atom), z),
           nstories(z) = nstories(doc) + 3, Level(z) <= 3
    PROVE  Element(z, atom)
<1> DEFINE n == nstories(doc)
           c == tumblerincrement(doc, 2, atom)
<1>1. /\ n \in Place /\ n + 1 \in Place /\ nstories(c) = n + 2 /\ c \in Address /\ Level(c) = 3
      /\ \A p \in Place : c.mantissa[p] =
            IF p < n THEN doc.mantissa[p] ELSE IF p = n + 1 THEN atom ELSE 0
  BY AtomIs
<1>2. n \in Nat /\ n > 0
  BY AddressIs
<1>3. Level(c) <= Level(z) /\ Level(z) \in Nat
  BY <1>1, ZerosUnder, ZerosFinite
<1>4. \A p \in Place : p < n + 2 => z.mantissa[p] = c.mantissa[p]
  BY <1>1 DEF Under
<1> HIDE DEF n, c
<1>5. z.mantissa[n] = 0 /\ z.mantissa[n + 1] = atom
  BY <1>1, <1>2, <1>4
<1>6. nstories(z) - 3 = n /\ nstories(z) - 2 = n + 1 /\ nstories(z) > 3
  <2>1. nstories(z) = n + 3
    BY DEF n
  <2> QED  BY <1>2, <2>1
<1>7. Level(z) = 3
  BY <1>1, <1>3
<1> QED  BY <1>5, <1>6, <1>7 DEF Element

\* The address one further on in the row of one of these is one of these.
LEMMA StepElement ==
    ASSUME NEW a \in Address, NEW t \in Nat \ {0}, Element(a, t), NEW k, Stays(a, k)
    PROVE  Element(Step(a, k), t)
<1>1. /\ nstories(Step(a, k)) = nstories(a) /\ Level(Step(a, k)) = Level(a)
      /\ \A p \in Place : p < nstories(a) - 1 => Step(a, k).mantissa[p] = a.mantissa[p]
  BY StepAddress
<1>2. nstories(a) \in Nat /\ nstories(a) - 3 \in Place /\ nstories(a) - 2 \in Place
  BY AddressIs, ElementZeros DEF Zeros
<1>3. nstories(a) - 3 < nstories(a) - 1 /\ nstories(a) - 2 < nstories(a) - 1
  BY <1>2
<1> QED  BY <1>1, <1>2, <1>3 DEF Element

LEMMA StepUnder ==
    ASSUME NEW a \in Address, NEW b \in Address, nstories(a) < nstories(b), Under(a, b),
           NEW k, Stays(b, k)
    PROVE  Under(a, Step(b, k))
<1>1. /\ Step(b, k).exp = b.exp
      /\ \A p \in Place : p < nstories(b) - 1 => Step(b, k).mantissa[p] = b.mantissa[p]
  BY StepAddress
<1>2. \A p \in Place : p < nstories(a) => p < nstories(b) - 1
  BY AddressIs
<1> QED  BY <1>1, <1>2 DEF Under

\* What stands last before the next kind of element of a document: its own
\* orgl, or an element of it.
LEMMA MoleculeWhere ==
    ASSUME Crums(granf), NEW doc \in Address, Level(doc) = 2, Increments(doc, 3),
           isaexistsgr(doc), NEW t \in {TEXTATOM, LINKATOM}
    PROVE  \E i \in DOMAIN granf :
              /\ LastBefore(i, tumblerincrement(doc, 2, t + 1))
              /\ \/ granf[i].isa = doc /\ ~Text(granf[i])
                 \/ \E atom \in {TEXTATOM, LINKATOM} :
                       /\ atom <= t /\ (Text(granf[i]) <=> atom = TEXTATOM)
                       /\ granf[i].isa \in Address /\ Element(granf[i].isa, atom)
                       /\ nstories(granf[i].isa) = nstories(doc) + 3
                       /\ Under(tumblerincrement(doc, 2, atom), granf[i].isa)
<1> DEFINE n == nstories(doc)
           u == tumblerincrement(doc, 2, t + 1)
<1>1. t \in Nat /\ t + 1 \in Nat \ {0} /\ t + 1 > 1 /\ t >= 1
  BY DEF TEXTATOM, LINKATOM
<1>2. /\ n \in Place /\ n + 1 \in Place /\ u \in Address /\ u.exp = doc.exp
      /\ \A p \in Place : u.mantissa[p] =
            IF p < n THEN doc.mantissa[p] ELSE IF p = n + 1 THEN t + 1 ELSE 0
      /\ Under(doc, u) /\ Before(doc, u) /\ Level(u) = 3
      /\ Zeros(u) = Zeros(doc) \union {n} /\ nstories(u) = n + 2
  BY <1>1, AtomIs
<1>3. /\ n \in Nat /\ n > 0 /\ doc \in Number /\ ~iszerotumbler(doc) /\ u \in Number
      /\ \A p \in Place : p \in Nat
      /\ \A p \in Place : p >= n => doc.mantissa[p] = 0
  BY <1>2, AddressIs
<1> HIDE DEF n, u
<1>4. /\ \A j \in DOMAIN granf : granf[j].isa \in Number /\ j \in Nat /\ (j = 1 \/ j > 1)
      /\ \A j \in DOMAIN granf : j > 1 => granf[j].isa \in Address /\ Shape(granf[j])
      /\ granf[1].isa = ZEROTUMBLER /\ ~Text(granf[1])
  BY CrumsAre DEF Crums, Text
\* The bound is in no row of characters.
<1>5. ASSUME NEW j \in DOMAIN granf, Text(granf[j]) PROVE ~InRow(granf[j].isa, u)
  <2> DEFINE a == granf[j].isa
  <2>1. j > 1
    BY <1>4, <1>5
  <2>2. a \in Address /\ Element(a, TEXTATOM)
    BY <1>4, <1>5, <2>1 DEF Shape, Text
  <2> HIDE DEF a
  <2> SUFFICES ASSUME InRow(a, u) PROVE FALSE
    BY DEF a
  <2>3. TEXTATOM \in Nat \ {0} /\ Level(u) <= 3
    BY <1>2 DEF TEXTATOM
  <2>4. /\ nstories(a) - 3 \in Zeros(u)
        /\ \A p \in Zeros(u) : p <= nstories(a) - 3
        /\ u.mantissa[nstories(a) - 2] = TEXTATOM
    BY <1>2, <2>2, <2>3, RowIs
  <2>5. n <= nstories(a) - 3 /\ nstories(a) \in Nat
    BY <1>2, <2>2, <2>4, AddressIs
  <2>6. nstories(a) - 3 <= n
    <3>1. ASSUME NEW p \in Zeros(doc) PROVE p <= n
      BY <1>3 DEF Zeros, n
    <3>2. n <= n
      BY <1>3
    <3> QED  BY <1>2, <2>4, <3>1, <3>2
  <2>7. nstories(a) - 2 = n + 1
    BY <1>3, <2>5, <2>6
  <2>8. u.mantissa[n + 1] = t + 1
    BY <1>2, <1>3
  <2> QED  BY <1>1, <2>4, <2>7, <2>8 DEF TEXTATOM
<1>6. PICK i \in DOMAIN granf : LastBefore(i, u)
  BY <1>2, <1>5, PreviousIs DEF LastBefore
<1> DEFINE a == granf[i].isa
<1>7. a \in Number /\ Before(a, u) /\ ~iszerotumbler(u)
  BY <1>2, <1>4, <1>6, AddressIs DEF LastBefore
<1>8. a = doc \/ Before(doc, a)
  <2> DEFINE f == FindCrum(doc)
  <2>1. f \in DOMAIN granf /\ granf[f].isa = doc
    BY <1>3, FindIs DEF isaexistsgr
  <2> HIDE DEF f
  <2>2. ~(f > i)
    <3> SUFFICES ASSUME f > i PROVE FALSE
      OBVIOUS
    <3>1. NotAfter(u, doc)
      BY <1>6, <2>1 DEF LastBefore
    <3> QED  BY <1>2, <1>3, <3>1, NotAfterIs
  <2>3. f = i \/ f < i
    BY <1>4, <2>1, <2>2
  <2>4. f < i => Before(doc, a)
    BY <2>1 DEF Crums, Sorted
  <2> QED  BY <2>1, <2>3, <2>4
<1>9. a # ZEROTUMBLER
  BY <1>3, <1>7, <1>8, NumberType DEF Before
<1>10. i > 1 /\ a \in Address /\ Shape(granf[i])
  BY <1>4, <1>9
<1>11. CASE a = doc
  <2>1. ~Text(granf[i])
    <3> SUFFICES ASSUME Text(granf[i]) PROVE FALSE
      OBVIOUS
    <3>1. Level(a) = 3
      BY <1>10 DEF Shape, Text, Element
    <3> QED  BY <1>11, <3>1
  <2> QED  BY <1>6, <1>11, <2>1 DEF u
<1>12. CASE a # doc /\ Before(doc, a)
  <2> DEFINE m == nstories(a)
  <2>1. Under(doc, a)
    <3> SUFFICES ASSUME ~Under(doc, a) PROVE FALSE
      OBVIOUS
    <3>1. Before(u, a)
      BY <1>2, <1>3, <1>7, <1>12, AfterUnder
    <3> QED  BY <1>3, <1>7, <3>1, BeforeTransitive, BeforeIrreflexive
  <2> HIDE DEF a
  <2>2. /\ a.exp = doc.exp /\ \A p \in Place : p < n => a.mantissa[p] = doc.mantissa[p]
        /\ \A p \in Place : a.mantissa[p] \in Nat
        /\ m \in Nat /\ ~iszerotumbler(a)
        /\ \A p \in Place : p >= m => a.mantissa[p] = 0
    BY <1>10, <2>1, AddressIs DEF Under, n
  <2> HIDE DEF m
  <2>3. PICK p \in Place : FirstBelow(a, u, p)
    <3>1. a.exp = u.exp /\ u.exp \in Int
      BY <1>2, <2>2, AddressIs
    <3>2. ~(a.exp < u.exp)
      BY <3>1
    <3> QED  BY <1>7, <2>2, <3>2 DEF Before
  <2>4. p = n + 1
    <3>1. a.mantissa[p] < u.mantissa[p] /\ p \in Nat /\ a.mantissa[p] \in Nat
      BY <1>3, <2>2, <2>3 DEF FirstBelow
    <3>2. ~(p < n)
      BY <1>2, <2>2, <3>1
    <3> QED  BY <1>2, <3>1, <3>2
  <2>5. a.mantissa[n] = 0 /\ a.mantissa[n + 1] < t + 1 /\ a.mantissa[n + 1] \in Nat
    <3>1. n < n + 1 /\ ~(n < n) /\ n # n + 1 /\ ~(n + 1 < n)
      BY <1>3
    <3>2. u.mantissa[n] = 0 /\ u.mantissa[n + 1] = t + 1
      BY <1>2, <3>1
    <3> QED  BY <1>2, <2>2, <2>3, <2>4, <3>1, <3>2 DEF FirstBelow
  <2>6. n < m
    <3> SUFFICES ASSUME ~(n < m) PROVE FALSE
      OBVIOUS
    <3>1. \A q \in Place : q >= n => a.mantissa[q] = 0
      BY <1>3, <2>2
    <3>2. \A q \in Place : q < n \/ q >= n
      BY <1>3
    <3>3. \A q \in Place : a.mantissa[q] = doc.mantissa[q]
      BY <1>3, <2>2, <3>1, <3>2
    <3>4. a = doc
      BY <1>3, <1>7, <2>2, <3>3, SameNumber DEF a
    <3> QED  BY <1>12, <3>4
  <2>7. n \in Zeros(a) /\ Zeros(doc) \subseteq Zeros(a)
    <3>1. n \in Zeros(a)
      BY <1>2, <2>5, <2>6 DEF Zeros, m
    <3> QED  BY <1>10, <2>1, <3>1, ZerosUnder
  <2>8. Zeros(doc) \union {n} \subseteq Zeros(a) /\ Cardinality(Zeros(doc) \union {n}) = 3
    BY <1>2, <2>7 DEF Level
  <2>9. IsFiniteSet(Zeros(a)) /\ Level(a) \in Nat
    BY <1>10, ZerosFinite
  <2>10. Level(a) >= 3 /\ (Level(a) = 3 => Zeros(a) = Zeros(doc) \union {n})
    BY <2>8, <2>9, FS_Subset DEF Level
  <2>11. ~(Level(a) <= 2)
    BY <2>9, <2>10
  <2>12. PICK atom \in {TEXTATOM, LINKATOM} :
            Element(a, atom) /\ (Text(granf[i]) <=> atom = TEXTATOM)
    <3>1. CASE Text(granf[i])
      BY <1>10, <3>1 DEF Shape, Text, a
    <3>2. CASE ~Text(granf[i])
      <4>1. Element(a, LINKATOM)
        BY <1>10, <2>11, <3>2 DEF Shape, a
      <4>2. LINKATOM # TEXTATOM
        BY DEF LINKATOM, TEXTATOM
      <4> QED  BY <3>2, <4>1, <4>2
    <3> QED  BY <3>1, <3>2
  <2>13. atom \in Nat \ {0}
    BY DEF TEXTATOM, LINKATOM
  <2>14. Zeros(a) = Zeros(doc) \union {n}
    BY <2>10, <2>12 DEF Element
  <2>15. m - 3 \in Zeros(a) /\ \A q \in Zeros(a) : q <= m - 3
    BY <1>10, <2>12, <2>13, ElementZeros DEF m
  <2>16. m = n + 3
    <3>1. n <= m - 3
      BY <2>7, <2>15
    <3>2. m - 3 <= n
      <4>1. ASSUME NEW q \in Zeros(doc) PROVE q <= n
        BY <1>3 DEF Zeros, n
      <4>2. n <= n
        BY <1>3
      <4> QED  BY <2>14, <2>15, <4>1, <4>2
    <3> QED  BY <1>3, <2>2, <3>1, <3>2
  <2>17. a.mantissa[n + 1] = atom
    <3>1. a.mantissa[m - 2] = atom
      BY <2>12 DEF Element, m
    <3>2. m - 2 = n + 1
      BY <1>3, <2>16
    <3> QED  BY <3>1, <3>2
  <2>18. atom <= t
    BY <1>1, <2>5, <2>13, <2>17
  <2>19. Under(tumblerincrement(doc, 2, atom), a)
    <3> DEFINE c == tumblerincrement(doc, 2, atom)
    <3>1. /\ c.exp = doc.exp /\ nstories(c) = n + 2
          /\ \A q \in Place : c.mantissa[q] =
                IF q < n THEN doc.mantissa[q] ELSE IF q = n + 1 THEN atom ELSE 0
      BY <2>13, AtomIs DEF n
    <3> HIDE DEF c
    <3>2. ASSUME NEW q \in Place, q < n + 2 PROVE a.mantissa[q] = c.mantissa[q]
      <4>1. q < n \/ q = n \/ q = n + 1
        BY <1>3, <3>2
      <4>2. ~(n < n) /\ ~(n + 1 < n) /\ n # n + 1
        BY <1>3
      <4> QED  BY <2>2, <2>5, <2>17, <3>1, <4>1, <4>2
    <3> QED  BY <2>2, <3>1, <3>2 DEF Under, c
  <2> QED  BY <1>6, <1>10, <2>12, <2>16, <2>18, <2>19 DEF a, m, n, u
<1> QED  BY <1>8, <1>11, <1>12

\* The first character or link of a document.
LEMMA FirstElement ==
    ASSUME NEW doc \in Address, Level(doc) = 2, Increments(doc, 3),
           NEW atom \in {TEXTATOM, LINKATOM}
    PROVE  LET c == tumblerincrement(doc, 2, atom)
               z == tumblerincrement(c, 1, 1)
           IN  /\ z \in Address /\ Element(z, atom) /\ Under(c, z)
               /\ nstories(z) = nstories(doc) + 3
               /\ Before(doc, z) /\ Before(c, z)
<1> DEFINE c == tumblerincrement(doc, 2, atom)
           z == tumblerincrement(c, 1, 1)
<1>1. atom \in Nat \ {0} /\ 1 \in Nat \ {0} /\ 1 \in {1, 2}
  BY DEF TEXTATOM, LINKATOM
<1>2. /\ c \in Address /\ Before(doc, c) /\ nstories(c) = nstories(doc) + 2
      /\ Level(c) = 3 /\ Increments(c, 1)
  BY <1>1, AtomIs
<1> HIDE DEF c
<1>3. /\ z \in Address /\ Under(c, z) /\ Before(c, z) /\ nstories(z) = nstories(c) + 1
      /\ Level(z) = Level(c) + 1 - 1
  BY <1>1, <1>2, ChildIs
<1> HIDE DEF z
<1>4. nstories(z) = nstories(doc) + 3 /\ Level(z) <= 3
  BY <1>2, <1>3, AddressIs
<1>5. Element(z, atom)
  BY <1>1, <1>3, <1>4, ElementIs DEF c
<1>6. Before(doc, z)
  BY <1>2, <1>3, BeforeTransitive, AddressIs
<1> QED  BY <1>3, <1>4, <1>5, <1>6 DEF c, z

LEMMA UnderNotBefore ==
    ASSUME NEW a \in Address, NEW b \in Address, Under(a, b)
    PROVE  ~Before(b, a)
<1> SUFFICES ASSUME Before(b, a) PROVE FALSE
  OBVIOUS
<1>1. /\ b.exp = a.exp /\ \A p \in Place : p < nstories(a) => b.mantissa[p] = a.mantissa[p]
      /\ a.exp \in Int /\ ~iszerotumbler(b) /\ nstories(a) \in Nat
      /\ \A p \in Place : p >= nstories(a) => a.mantissa[p] = 0
      /\ \A p \in Place : p \in Nat /\ b.mantissa[p] \in Nat
  BY AddressIs DEF Under
<1>2. PICK p \in Place : FirstBelow(b, a, p)
  <2>1. ~(b.exp < a.exp)
    BY <1>1
  <2> QED  BY <1>1, <2>1 DEF Before
<1>3. b.mantissa[p] < a.mantissa[p]
  BY <1>2 DEF FirstBelow
<1>4. CASE p < nstories(a)
  BY <1>1, <1>3, <1>4
<1>5. CASE p >= nstories(a)
  BY <1>1, <1>3, <1>5
<1> QED  BY <1>1, <1>4, <1>5

\* The next link of a document is one of its links, and fits.
LEMMA LinkFits ==
    ASSUME Crums(granf), NEW doc \in Address, Level(doc) = 2, Increments(doc, 3),
           isaexistsgr(doc)
    PROVE  LET z == findisatoinsertmolecule(doc, LINKATOM)
           IN  /\ z \in Address /\ Element(z, LINKATOM)
               /\ Under(tumblerincrement(doc, 2, 2), z)
               /\ nstories(z) = nstories(doc) + 3
               /\ \E i \in DOMAIN granf : Fits(i, z)
<1> DEFINE n == nstories(doc)
           u == tumblerincrement(doc, 2, LINKATOM + 1)
           first == tumblerincrement(doc, 2, 2)
           z == findisatoinsertmolecule(doc, LINKATOM)
<1>1. LINKATOM = 2 /\ TEXTATOM = 1 /\ LINKATOM \in {TEXTATOM, LINKATOM}
  BY DEF LINKATOM, TEXTATOM
<1>2. PICK i \in DOMAIN granf :
        /\ LastBefore(i, u)
        /\ \/ granf[i].isa = doc /\ ~Text(granf[i])
           \/ \E atom \in {TEXTATOM, LINKATOM} :
                 /\ atom <= LINKATOM /\ (Text(granf[i]) <=> atom = TEXTATOM)
                 /\ granf[i].isa \in Address /\ Element(granf[i].isa, atom)
                 /\ nstories(granf[i].isa) = n + 3
                 /\ Under(tumblerincrement(doc, 2, atom), granf[i].isa)
  BY <1>1, MoleculeWhere
<1> DEFINE a == granf[i].isa
           l == LastIn(granf[i])
<1>3. findpreviousisagr(u) = l /\ l \in Number /\ Before(l, u)
  BY <1>2 DEF LastBefore
<1>4. /\ u \in Address /\ u \in Number
      /\ first \in Address /\ first \in Number /\ nstories(first) = n + 2 /\ first.exp = doc.exp
      /\ doc \in Number /\ n \in Nat /\ doc.exp \in Int
  BY <1>1, AtomIs, AddressIs
<1>5. z = IF tumblerlength(doc) = tumblerlength(l)
          THEN tumblerincrement(tumblerincrement(l, 2, LINKATOM), 1, 1)
          ELSE IF LINKATOM = TEXTATOM THEN tumblerincrement(l, 0, 1)
          ELSE IF tumblercmp(l, first) = LESS THEN tumblerincrement(first, 1, 1)
          ELSE tumblerincrement(l, 0, 1)
  BY <1>3 DEF findisatoinsertmolecule
<1>6. /\ tumblerincrement(first, 1, 1) \in Address
      /\ Element(tumblerincrement(first, 1, 1), LINKATOM)
      /\ Under(first, tumblerincrement(first, 1, 1))
      /\ nstories(tumblerincrement(first, 1, 1)) = n + 3
      /\ Before(doc, tumblerincrement(first, 1, 1))
      /\ Before(first, tumblerincrement(first, 1, 1))
  BY <1>1, FirstElement
<1> HIDE DEF n, z
<1>7. z \in Address /\ Element(z, LINKATOM) /\ Under(first, z) /\ nstories(z) = n + 3 /\ Before(l, z)
  <2>1. CASE a = doc /\ ~Text(granf[i])
    <3>1. l = doc
      BY <2>1 DEF LastIn
    <3>2. z = tumblerincrement(first, 1, 1)
      BY <1>1, <1>5, <3>1
    <3> QED  BY <1>6, <3>1, <3>2
  <2>2. CASE /\ Text(granf[i]) /\ a \in Address /\ Element(a, TEXTATOM)
             /\ nstories(a) = n + 3
             /\ Under(tumblerincrement(doc, 2, TEXTATOM), a)
    <3> DEFINE k == Len(granf[i].text) - 1
               c == tumblerincrement(doc, 2, TEXTATOM)
    <3>1. l = Step(a, k)
      BY <2>2 DEF LastIn
    <3>2. Stays(a, k)
      <4>1. i > 1
        BY <2>2, CrumsAre DEF Crums, Text
      <4> QED  BY <2>2, <4>1 DEF Crums, Shape, Text
    <3>3. c \in Address /\ nstories(c) = n + 2 /\ c.exp = doc.exp
      BY <1>1, AtomIs DEF n
    <3> HIDE DEF a, k, c, first, l
    <3>4. l \in Address /\ nstories(l) = n + 3 /\ l.exp = a.exp
      BY <2>2, <3>1, <3>2, StepAddress
    <3>5. a.exp = doc.exp /\ Under(c, l)
      <4>1. Under(c, a) /\ nstories(c) < nstories(a)
        BY <1>4, <2>2, <3>3 DEF c
      <4> QED  BY <2>2, <3>1, <3>2, <3>3, <4>1, StepUnder DEF Under
    <3>6. tumblerlength(doc) # tumblerlength(l)
      BY <1>4, <3>4, <3>5 DEF tumblerlength, n
    <3>7. Before(l, first)
      <4>1. 1 \in Nat \ {0} /\ 2 \in Nat \ {0} /\ 1 < 2
        OBVIOUS
      <4> QED  BY <1>1, <1>3, <3>5, <4>1, AtomsBefore DEF c, first
    <3>8. tumblercmp(l, first) = LESS
      BY <1>3, <1>4, <3>7, CmpIs
    <3>9. z = tumblerincrement(first, 1, 1)
      BY <1>1, <1>5, <3>6, <3>8
    <3> QED  BY <1>3, <1>4, <1>6, <3>7, <3>9, BeforeTransitive, AddressIs
  <2>3. CASE /\ ~Text(granf[i]) /\ a \in Address /\ Element(a, LINKATOM)
             /\ nstories(a) = n + 3
             /\ Under(tumblerincrement(doc, 2, LINKATOM), a)
    <3>1. l = a
      BY <2>3 DEF LastIn
    <3>2. Under(first, a) /\ nstories(first) < nstories(a)
      BY <1>1, <1>4, <2>3
    <3> HIDE DEF a, l, first
    <3>3. tumblerlength(doc) # tumblerlength(l)
      BY <1>4, <2>3, <3>1, <3>2 DEF tumblerlength, n, Under
    <3>4. tumblercmp(l, first) # LESS
      BY <1>3, <1>4, <2>3, <3>1, <3>2, UnderNotBefore, CmpIs
    <3>5. z = Step(a, 1)
      BY <1>1, <1>5, <3>1, <3>3, <3>4 DEF Step
    <3>6. Stays(a, 1) /\ Stays(a, 0) /\ Step(a, 0) = a /\ a \in Number /\ ~iszerotumbler(a)
      BY <2>3, AddressIs, StaysIs
    <3>7. Before(a, z)
      BY <3>5, <3>6, StepBefore
    <3>8. LINKATOM \in Nat \ {0}
      BY <1>1
    <3>9. z \in Address /\ nstories(z) = n + 3
      BY <2>3, <3>5, <3>6, StepAddress
    <3>10. Element(z, LINKATOM)
      BY <2>3, <3>5, <3>6, <3>8, StepElement
    <3>11. Under(first, z)
      BY <1>4, <2>3, <3>2, <3>5, <3>6, StepUnder
    <3> QED  BY <3>1, <3>7, <3>9, <3>10, <3>11
  <2> QED  BY <1>2, <2>1, <2>2, <2>3
<1>8. Before(z, u)
  <2>1. 2 \in Nat \ {0} /\ 3 \in Nat \ {0} /\ 2 < 3 /\ LINKATOM + 1 = 3
    BY <1>1
  <2> QED  BY <1>7, <2>1, AtomsBefore, AddressIs
<1>9. Fits(i, z)
  BY <1>2, <1>3, <1>4, <1>7, <1>8, OrglFits
<1> QED  BY <1>7, <1>9 DEF n, z

\* Text at z goes behind crum i, and if that is a text continues it; however
\* long it is, it does not reach what is behind.
TextPlace(i, z) ==
    /\ i \in DOMAIN granf
    /\ z \in Address /\ Element(z, TEXTATOM)
    /\ Text(granf[i]) => z = End(granf[i])
    /\ ~Text(granf[i]) => Before(granf[i].isa, z)
    /\ \A j \in DOMAIN granf : j > i =>
          \A k \in Nat : Before(Step(z, k), granf[j].isa)

\* The next character of a document is one of its characters, and fits.
LEMMA TextFits ==
    ASSUME Crums(granf), NEW doc \in Address, Level(doc) = 2, Increments(doc, 3),
           isaexistsgr(doc)
    PROVE  LET z == findisatoinsertmolecule(doc, TEXTATOM)
           IN  /\ Under(tumblerincrement(doc, 2, 1), z)
               /\ nstories(z) = nstories(doc) + 3
               /\ \E i \in DOMAIN granf : TextPlace(i, z)
<1> DEFINE n == nstories(doc)
           u == tumblerincrement(doc, 2, TEXTATOM + 1)
           c == tumblerincrement(doc, 2, 1)
           z == findisatoinsertmolecule(doc, TEXTATOM)
<1>1. LINKATOM = 2 /\ TEXTATOM = 1 /\ TEXTATOM \in {TEXTATOM, LINKATOM}
  BY DEF LINKATOM, TEXTATOM
<1>2. PICK i \in DOMAIN granf :
        /\ LastBefore(i, u)
        /\ \/ granf[i].isa = doc /\ ~Text(granf[i])
           \/ \E atom \in {TEXTATOM, LINKATOM} :
                 /\ atom <= TEXTATOM /\ (Text(granf[i]) <=> atom = TEXTATOM)
                 /\ granf[i].isa \in Address /\ Element(granf[i].isa, atom)
                 /\ nstories(granf[i].isa) = n + 3
                 /\ Under(tumblerincrement(doc, 2, atom), granf[i].isa)
  BY <1>1, MoleculeWhere
<1> DEFINE a == granf[i].isa
           l == LastIn(granf[i])
<1>3. findpreviousisagr(u) = l /\ l \in Number /\ Before(l, u)
  BY <1>2 DEF LastBefore
<1>4. /\ u \in Address /\ u \in Number
      /\ c \in Address /\ nstories(c) = n + 2 /\ c.exp = doc.exp
      /\ doc \in Number /\ n \in Nat /\ doc.exp \in Int
  BY <1>1, AtomIs, AddressIs
<1>5. z = IF tumblerlength(doc) = tumblerlength(l)
          THEN tumblerincrement(tumblerincrement(l, 2, TEXTATOM), 1, 1)
          ELSE tumblerincrement(l, 0, 1)
  BY <1>3 DEF findisatoinsertmolecule
<1> HIDE DEF n, z
<1>6. /\ z \in Address /\ Element(z, TEXTATOM) /\ Under(c, z) /\ nstories(z) = n + 3
      /\ Text(granf[i]) => z = End(granf[i])
      /\ ~Text(granf[i]) => Before(a, z)
  <2>1. CASE a = doc /\ ~Text(granf[i])
    <3>1. l = doc
      BY <2>1 DEF LastIn
    <3>2. z = tumblerincrement(c, 1, 1)
      BY <1>1, <1>5, <3>1
    <3>3. /\ tumblerincrement(c, 1, 1) \in Address
          /\ Element(tumblerincrement(c, 1, 1), TEXTATOM)
          /\ Under(c, tumblerincrement(c, 1, 1))
          /\ nstories(tumblerincrement(c, 1, 1)) = n + 3
          /\ Before(doc, tumblerincrement(c, 1, 1))
      BY <1>1, FirstElement DEF n
    <3> QED  BY <2>1, <3>2, <3>3
  <2>2. CASE /\ Text(granf[i]) /\ a \in Address /\ Element(a, TEXTATOM)
             /\ nstories(a) = n + 3
             /\ Under(tumblerincrement(doc, 2, TEXTATOM), a)
    <3> DEFINE k == Len(granf[i].text)
    <3>1. l = Step(a, k - 1) /\ End(granf[i]) = Step(a, k)
      BY <2>2 DEF LastIn, End
    <3>2. Stays(a, k - 1) /\ k \in Nat
      <4>1. i > 1 /\ granf[i] \in Crum
        BY <2>2, CrumsAre DEF Crums, Text
      <4>2. Stays(a, k - 1)
        BY <2>2, <4>1 DEF Crums, Shape, Text
      <4>3. granf[i].text \in Seq(Char)
        BY <4>1 DEF Crum
      <4> QED  BY <4>2, <4>3
    <3>3. Under(c, a) /\ nstories(c) < nstories(a)
      BY <1>1, <1>4, <2>2
    <3> HIDE DEF a, k, c, l
    <3>4. a \in Number /\ ~iszerotumbler(a)
      BY <2>2, AddressIs
    <3>5. l \in Address /\ nstories(l) = n + 3 /\ l.exp = a.exp
      BY <2>2, <3>1, <3>2, StepAddress
    <3>6. a.exp = doc.exp
      BY <1>4, <3>3 DEF Under
    <3>7. tumblerlength(doc) # tumblerlength(l)
      BY <1>4, <3>5, <3>6 DEF tumblerlength, n
    <3>8. z = Step(l, 1)
      BY <1>5, <3>7 DEF Step
    <3>9. Stays(a, k)
      BY <3>2, <3>4, StaysIs
    <3>10. z = Step(a, k)
      <4>1. (k - 1) + 1 = k
        BY <3>2
      <4>2. Step(Step(a, k - 1), 1) = Step(a, (k - 1) + 1)
        BY <3>2, <3>4, <3>9, <4>1, StepStep
      <4> QED  BY <3>1, <3>8, <4>1, <4>2
    <3>11. TEXTATOM \in Nat \ {0}
      BY <1>1
    <3>12. z \in Address /\ nstories(z) = n + 3
      BY <2>2, <3>9, <3>10, StepAddress
    <3>13. Element(z, TEXTATOM)
      BY <2>2, <3>9, <3>10, <3>11, StepElement
    <3>14. Under(c, z)
      BY <1>4, <2>2, <3>3, <3>9, <3>10, StepUnder
    <3> QED  BY <2>2, <3>1, <3>10, <3>12, <3>13, <3>14
  <2>3. ASSUME NEW atom \in {TEXTATOM, LINKATOM}, atom <= TEXTATOM
        PROVE  atom = TEXTATOM
    BY <1>1, <2>3
  <2> QED  BY <1>2, <2>1, <2>2, <2>3
<1>7. ASSUME NEW j \in DOMAIN granf, j > i, NEW k \in Nat
      PROVE  Before(Step(z, k), granf[j].isa)
  <2>1. Stays(z, k) /\ nstories(c) < nstories(z)
    BY <1>4, <1>6, StaysIs, AddressIs
  <2>2. Step(z, k) \in Number /\ Under(c, Step(z, k))
    BY <1>4, <1>6, <2>1, StepAddress, StepUnder, AddressIs
  <2>3. 1 \in Nat \ {0} /\ 2 \in Nat \ {0} /\ 1 < 2 /\ TEXTATOM + 1 = 2
    BY <1>1
  <2>4. Before(Step(z, k), u)
    BY <2>2, <2>3, AtomsBefore
  <2>5. NotAfter(u, granf[j].isa) /\ granf[j].isa \in Number
    BY <1>2, <1>7, CrumsAre DEF LastBefore
  <2> QED  BY <1>4, <2>2, <2>4, <2>5, BeforeNotAfter
<1>8. TextPlace(i, z)
  BY <1>2, <1>6, <1>7 DEF TextPlace
<1> QED  BY <1>6, <1>8 DEF n, z

-----------------------------------------------------------------------------
(* What was given, and what is free. *)

\* What was given an address is there.
Holds(g, x) ==
    IF x.kind = "char"
    THEN \E m \in DOMAIN g :
            /\ Text(g[m])
            /\ \E k \in DOMAIN g[m].text :
                  g[m].text[k] = x.char /\ Step(g[m].isa, k - 1) = x.isa
    ELSE \E m \in DOMAIN g : g[m].infotype = "GRANORGL" /\ g[m].isa = x.isa

\* Every crum of one row is in the other, perhaps with more text.
Extends(g, h) ==
    \A m \in DOMAIN g : \E q \in DOMAIN h :
        /\ h[q].isa = g[m].isa /\ h[q].infotype = g[m].infotype
        /\ \A k \in DOMAIN g[m].text :
              k \in DOMAIN h[q].text /\ h[q].text[k] = g[m].text[k]

LEMMA HoldsExtends ==
    ASSUME NEW g, NEW h, Extends(g, h), NEW x, Holds(g, x)
    PROVE  Holds(h, x)
<1>1. CASE x.kind = "char"
  <2>1. PICK m \in DOMAIN g :
           /\ Text(g[m])
           /\ \E k \in DOMAIN g[m].text :
                 g[m].text[k] = x.char /\ Step(g[m].isa, k - 1) = x.isa
    BY <1>1 DEF Holds
  <2>2. PICK k \in DOMAIN g[m].text : g[m].text[k] = x.char /\ Step(g[m].isa, k - 1) = x.isa
    BY <2>1
  <2>3. PICK q \in DOMAIN h :
           /\ h[q].isa = g[m].isa /\ h[q].infotype = g[m].infotype
           /\ \A p \in DOMAIN g[m].text :
                 p \in DOMAIN h[q].text /\ h[q].text[p] = g[m].text[p]
    BY DEF Extends
  <2>4. Text(h[q])
    BY <2>1, <2>3 DEF Text
  <2>5. k \in DOMAIN h[q].text /\ h[q].text[k] = x.char /\ Step(h[q].isa, k - 1) = x.isa
    BY <2>2, <2>3
  <2> QED  BY <1>1, <2>4, <2>5 DEF Holds
<1>2. CASE x.kind # "char"
  <2>1. PICK m \in DOMAIN g : g[m].infotype = "GRANORGL" /\ g[m].isa = x.isa
    BY <1>2 DEF Holds
  <2>2. PICK q \in DOMAIN h : h[q].isa = g[m].isa /\ h[q].infotype = g[m].infotype
    BY DEF Extends
  <2> QED  BY <1>2, <2>1, <2>2 DEF Holds
<1> QED  BY <1>1, <1>2

LEMMA ExtendsTransitive ==
    ASSUME NEW f, NEW g, NEW h, Extends(f, g), Extends(g, h)
    PROVE  Extends(f, h)
<1> SUFFICES ASSUME NEW m \in DOMAIN f
             PROVE  \E q \in DOMAIN h :
                       /\ h[q].isa = f[m].isa /\ h[q].infotype = f[m].infotype
                       /\ \A k \in DOMAIN f[m].text :
                             k \in DOMAIN h[q].text /\ h[q].text[k] = f[m].text[k]
  BY DEF Extends
<1>1. PICK p \in DOMAIN g :
         /\ g[p].isa = f[m].isa /\ g[p].infotype = f[m].infotype
         /\ \A k \in DOMAIN f[m].text :
               k \in DOMAIN g[p].text /\ g[p].text[k] = f[m].text[k]
  BY DEF Extends
<1>2. PICK q \in DOMAIN h :
         /\ h[q].isa = g[p].isa /\ h[q].infotype = g[p].infotype
         /\ \A k \in DOMAIN g[p].text :
               k \in DOMAIN h[q].text /\ h[q].text[k] = g[p].text[k]
  BY DEF Extends
<1> QED  BY <1>1, <1>2

LEMMA AfterExtends ==
    ASSUME NEW g \in Seq(Crum), NEW i \in 1..Len(g), NEW c \in Crum
    PROVE  /\ Extends(g, After(g, i, c))
           /\ \E q \in DOMAIN After(g, i, c) : After(g, i, c)[q] = c
<1> DEFINE h == After(g, i, c)
           n == Len(g)
<1>1. /\ DOMAIN h = 1..(n + 1)
      /\ \A k \in 1..(n + 1) : h[k] = IF k <= i THEN g[k] ELSE IF k = i + 1 THEN c ELSE g[k - 1]
  BY AfterIs
<1>2. n \in Nat /\ DOMAIN g = 1..n /\ i \in 1..n
  OBVIOUS
<1> HIDE DEF h, n
<1>3. ASSUME NEW m \in DOMAIN g PROVE \E q \in DOMAIN h : h[q] = g[m]
  <2>1. CASE m <= i
    <3>1. m \in 1..(n + 1)
      BY <1>2
    <3> QED  BY <1>1, <2>1, <3>1
  <2>2. CASE m > i
    <3>1. m + 1 \in 1..(n + 1) /\ ~(m + 1 <= i) /\ m + 1 # i + 1 /\ (m + 1) - 1 = m
      BY <1>2, <2>2
    <3>2. h[m + 1] = g[m]
      BY <1>1, <3>1
    <3> QED  BY <1>1, <3>1, <3>2
  <2> QED  BY <1>2, <2>1, <2>2
<1>4. Extends(g, h)
  BY <1>3 DEF Extends
<1>5. h[i + 1] = c /\ i + 1 \in DOMAIN h
  <2>1. i + 1 \in 1..(n + 1) /\ ~(i + 1 <= i)
    BY <1>2
  <2> QED  BY <1>1, <2>1
<1> QED  BY <1>4, <1>5 DEF h

\* z is behind crum i, and its text, and before all that is behind that.
Free(i, z) ==
    /\ i \in DOMAIN granf
    /\ Text(granf[i]) => NotAfter(End(granf[i]), z)
    /\ ~Text(granf[i]) => Before(granf[i].isa, z)
    /\ \A j \in DOMAIN granf : j > i => Before(z, granf[j].isa)

\* What is free was never given.
LEMMA Fresh ==
    ASSUME Crums(granf), NEW z \in Number, NEW i, Free(i, z), NEW x, Holds(granf, x)
    PROVE  x.isa # z
<1>1. /\ \A j \in DOMAIN granf : granf[j].isa \in Number /\ j \in Nat
      /\ \A j \in DOMAIN granf : granf[j] \in Crum
      /\ \A j \in DOMAIN granf : Text(granf[j]) => Shape(granf[j])
      /\ i \in DOMAIN granf
      /\ \A a, b \in DOMAIN granf : a < b =>
            /\ Before(granf[a].isa, granf[b].isa)
            /\ Text(granf[a]) => NotAfter(End(granf[a]), granf[b].isa)
  <2>1. \A j \in DOMAIN granf : Text(granf[j]) => j > 1
    BY CrumsAre DEF Crums, Text
  <2>2. \A j \in DOMAIN granf : granf[j] \in Crum
    BY CrumsAre
  <2> QED  BY <2>1, <2>2, CrumsAre DEF Crums, Sorted, Free
<1>2. ASSUME NEW m \in DOMAIN granf, Text(granf[m]), NEW k \in DOMAIN granf[m].text
      PROVE  Step(granf[m].isa, k - 1) # z
  <2> DEFINE c == granf[m]
             a == c.isa
             n == Len(c.text)
             y == Step(a, k - 1)
  <2>1. c \in Crum /\ Shape(c) /\ Text(c) /\ c.text \in Seq(Char)
    BY <1>1, <1>2 DEF Crum
  <2>2. n \in Nat /\ k \in 1..n /\ k - 1 \in Nat /\ k - 1 < n
    BY <2>1
  <2>3. /\ Stays(a, k - 1) /\ y \in Address /\ NotAfter(a, y)
        /\ End(c) = Step(a, n) /\ Stays(a, n) /\ End(c) \in Address
    <3> HIDE DEF c, n
    <3> QED  BY <2>1, <2>2, EndIs DEF n
  <2>4. a \in Address /\ a \in Number /\ ~iszerotumbler(a)
    BY <2>1, AddressIs DEF Shape
  <2> HIDE DEF n
  <2>5. Before(y, End(c))
    BY <2>2, <2>3, <2>4, StepBefore
  <2>6. y \in Number /\ End(c) \in Number
    BY <2>3, AddressIs
  <2> HIDE DEF c, a, y
  <2>7. CASE m > i
    <3>1. Before(z, a)
      BY <2>7 DEF Free, a, c
    <3>2. Before(z, y)
      BY <2>3, <2>4, <2>6, <3>1, BeforeNotAfter
    <3> QED  BY <3>2, BeforeIrreflexive DEF y, a, c
  <2>8. CASE m = i
    <3>1. NotAfter(End(c), z)
      BY <1>2, <2>8 DEF Free, c
    <3>2. Before(y, z)
      BY <2>5, <2>6, <3>1, BeforeNotAfter
    <3> QED  BY <3>2, BeforeIrreflexive DEF y, a, c
  <2>9. CASE m < i
    <3>1. NotAfter(End(c), granf[i].isa)
      BY <1>1, <1>2, <2>9 DEF c
    <3>2. granf[i].isa \in Number /\ NotAfter(granf[i].isa, z)
      <4>1. CASE Text(granf[i])
        <5>1. NotAfter(End(granf[i]), z)
          BY <4>1 DEF Free
        <5>2. granf[i] \in Crum /\ Shape(granf[i]) /\ granf[i].isa \in Number
          BY <1>1, <4>1
        <5>3. Len(granf[i].text) \in Nat
          <6>1. granf[i].text \in Seq(Char)
            BY <5>2 DEF Crum
          <6> QED  BY <6>1
        <5>4. NotAfter(granf[i].isa, End(granf[i])) /\ End(granf[i]) \in Number
          BY <4>1, <5>2, <5>3, EndIs, AddressIs
        <5> QED  BY <5>1, <5>2, <5>4, BeforeTransitive DEF NotAfter
      <4>2. CASE ~Text(granf[i])
        BY <1>1, <4>2 DEF Free, NotAfter
      <4> QED  BY <4>1, <4>2
    <3>3. Before(y, granf[i].isa)
      BY <2>5, <2>6, <3>1, <3>2, BeforeNotAfter
    <3>4. Before(y, z)
      BY <2>6, <3>2, <3>3, BeforeNotAfter
    <3> QED  BY <3>4, BeforeIrreflexive DEF y, a, c
  <2> QED  BY <1>1, <2>7, <2>8, <2>9
<1>3. ASSUME NEW m \in DOMAIN granf, ~Text(granf[m]) PROVE granf[m].isa # z
  <2>1. CASE m > i
    BY <1>1, <2>1, BeforeIrreflexive DEF Free
  <2>2. CASE m = i
    BY <1>1, <1>3, <2>2, BeforeIrreflexive DEF Free
  <2>3. CASE m < i
    <3>1. Before(granf[m].isa, granf[i].isa)
      BY <1>1, <2>3
    <3>2. CASE ~Text(granf[i])
      <4>1. Before(granf[m].isa, z)
        BY <1>1, <3>1, <3>2, BeforeTransitive DEF Free
      <4> QED  BY <4>1, BeforeIrreflexive
    <3>3. CASE Text(granf[i])
      <4>1. NotAfter(End(granf[i]), z) /\ granf[i] \in Crum /\ Shape(granf[i])
        BY <1>1, <3>3 DEF Free
      <4>2. Len(granf[i].text) \in Nat
        <5>1. granf[i].text \in Seq(Char)
          BY <4>1 DEF Crum
        <5> QED  BY <5>1
      <4>3. NotAfter(granf[i].isa, End(granf[i])) /\ End(granf[i]) \in Number
        BY <3>3, <4>1, <4>2, EndIs, AddressIs
      <4>4. Before(granf[m].isa, End(granf[i]))
        BY <1>1, <3>1, <4>3, BeforeNotAfter
      <4>5. Before(granf[m].isa, z)
        BY <1>1, <4>1, <4>3, <4>4, BeforeNotAfter
      <4> QED  BY <4>5, BeforeIrreflexive
    <3> QED  BY <3>2, <3>3
  <2> QED  BY <1>1, <2>1, <2>2, <2>3
<1>4. CASE x.kind = "char"
  <2>1. PICK m \in DOMAIN granf :
           /\ Text(granf[m])
           /\ \E k \in DOMAIN granf[m].text :
                 granf[m].text[k] = x.char /\ Step(granf[m].isa, k - 1) = x.isa
    BY <1>4 DEF Holds
  <2> QED  BY <1>2, <2>1
<1>5. CASE x.kind # "char"
  <2>1. PICK m \in DOMAIN granf : granf[m].infotype = "GRANORGL" /\ granf[m].isa = x.isa
    BY <1>5 DEF Holds
  <2>2. ~Text(granf[m])
    BY <2>1 DEF Text
  <2> QED  BY <1>3, <2>1, <2>2
<1> QED  BY <1>4, <1>5

-----------------------------------------------------------------------------
(* Inserting text. *)

\* Every character of text from z on is in the row.
Stored(h, z, text) ==
    \A k \in DOMAIN text : \E m \in DOMAIN h :
        /\ Text(h[m])
        /\ \E p \in DOMAIN h[m].text :
              h[m].text[p] = text[k] /\ Step(h[m].isa, p - 1) = Step(z, k - 1)

TextCrum(z, text) == [isa |-> z, infotype |-> "GRANTEXT", text |-> text]

LEMMA TextCrumIs ==
    ASSUME NEW z \in Address, Element(z, TEXTATOM), NEW text \in Seq(Char),
           Len(text) <= GRANTEXTLENGTH, Stays(z, Len(text) - 1)
    PROVE  /\ TextCrum(z, text) \in Crum /\ Shape(TextCrum(z, text)) /\ Text(TextCrum(z, text))
           /\ TextCrum(z, text).isa = z /\ TextCrum(z, text).text = text
           /\ Len(TextCrum(z, text).text) <= GRANTEXTLENGTH
           /\ End(TextCrum(z, text)) = Step(z, Len(text))
<1> DEFINE c == TextCrum(z, text)
<1>1. c.isa = z /\ c.infotype = "GRANTEXT" /\ c.text = text
  BY DEF TextCrum
<1>2. c \in Crum
  BY AddressIs DEF TextCrum, Crum
<1> HIDE DEF c
<1>3. Text(c) /\ Shape(c) /\ End(c) = Step(z, Len(text))
  BY <1>1 DEF Text, Shape, End
<1> QED  BY <1>1, <1>2, <1>3 DEF c

LEMMA AppendExtends ==
    ASSUME NEW g, Crums(g), NEW i \in DOMAIN g, Text(g[i]), NEW t \in Seq(Char),
           Len(g[i].text) + Len(t) <= GRANTEXTLENGTH,
           \A j \in DOMAIN g : j > i =>
              NotAfter(Step(g[i].isa, Len(g[i].text) + Len(t)), g[j].isa)
    PROVE  LET h == [g EXCEPT ![i].text = @ \o t]
           IN  /\ Extends(g, h)
               /\ i \in DOMAIN h /\ Text(h[i]) /\ h[i].isa = g[i].isa
               /\ Len(h[i].text) = Len(g[i].text) + Len(t)
               /\ End(h[i]) = Step(g[i].isa, Len(g[i].text) + Len(t))
               /\ Stored(h, End(g[i]), t)
<1> DEFINE h == [g EXCEPT ![i].text = @ \o t]
           n == Len(g[i].text)
<1>1. /\ DOMAIN h = DOMAIN g
      /\ \A k \in DOMAIN g : h[k] =
            IF k = i THEN [isa |-> g[i].isa, infotype |-> g[i].infotype, text |-> g[i].text \o t]
            ELSE g[k]
  BY AppendKeeps
<1> HIDE DEF h
<1>2. h[i].isa = g[i].isa /\ h[i].infotype = g[i].infotype /\ h[i].text = g[i].text \o t
  BY <1>1
<1>3. g[i] \in Crum /\ g[i].text \in Seq(Char) /\ g[i].isa \in Address /\ Shape(g[i])
  <2>1. i > 1 /\ g[i] \in Crum
    BY CrumsAre DEF Crums, Text
  <2> QED  BY <2>1, CrumsAre DEF Crum
<1>4. /\ n \in Nat /\ Len(t) \in Nat /\ DOMAIN t = 1..Len(t) /\ DOMAIN g[i].text = 1..n
      /\ Len(h[i].text) = n + Len(t) /\ DOMAIN h[i].text = 1..(n + Len(t))
      /\ \A k \in 1..n : h[i].text[k] = g[i].text[k]
      /\ \A k \in 1..Len(t) : h[i].text[n + k] = t[k]
  BY <1>2, <1>3
<1>5. Text(h[i]) /\ End(h[i]) = Step(g[i].isa, n + Len(t))
  BY <1>2, <1>4 DEF Text, End
<1>6. End(g[i]) = Step(g[i].isa, n)
  BY DEF End
<1> HIDE DEF n
<1>7. Extends(g, h)
  <2> SUFFICES ASSUME NEW m \in DOMAIN g
               PROVE  \E q \in DOMAIN h :
                         /\ h[q].isa = g[m].isa /\ h[q].infotype = g[m].infotype
                         /\ \A k \in DOMAIN g[m].text :
                               k \in DOMAIN h[q].text /\ h[q].text[k] = g[m].text[k]
    BY DEF Extends
  <2>1. CASE m = i
    <3>1. \A k \in DOMAIN g[i].text : k \in DOMAIN h[i].text /\ h[i].text[k] = g[i].text[k]
      BY <1>4
    <3> QED  BY <1>1, <1>2, <2>1, <3>1
  <2>2. CASE m # i
    BY <1>1, <2>2
  <2> QED  BY <2>1, <2>2
<1>8. Stored(h, End(g[i]), t)
  <2> SUFFICES ASSUME NEW k \in 1..Len(t)
               PROVE  \E p \in DOMAIN h[i].text :
                         h[i].text[p] = t[k] /\ Step(h[i].isa, p - 1) = Step(End(g[i]), k - 1)
    BY <1>1, <1>4, <1>5 DEF Stored
  <2>1. n + k \in DOMAIN h[i].text /\ h[i].text[n + k] = t[k]
    BY <1>4
  <2>2. n + (k - 1) = (n + k) - 1 /\ n + (k - 1) \in Nat /\ k - 1 \in Int
    BY <1>4
  <2>3. g[i].isa \in Number /\ ~iszerotumbler(g[i].isa)
    BY <1>3, AddressIs
  <2>4. Stays(g[i].isa, n) /\ Stays(g[i].isa, n + (k - 1))
    BY <1>4, <2>2, <2>3, StaysIs
  <2>5. Step(Step(g[i].isa, n), k - 1) = Step(g[i].isa, n + (k - 1))
    BY <2>2, <2>3, <2>4, StepStep
  <2>6. Step(h[i].isa, (n + k) - 1) = Step(End(g[i]), k - 1)
    BY <1>2, <1>6, <2>2, <2>5
  <2> QED  BY <2>1, <2>6
<1> QED  BY <1>1, <1>2, <1>4, <1>5, <1>7, <1>8 DEF h, n

LEMMA StoredExtends ==
    ASSUME NEW g, NEW h, Extends(g, h), NEW z, NEW text, Stored(g, z, text)
    PROVE  Stored(h, z, text)
<1> SUFFICES ASSUME NEW k \in DOMAIN text
             PROVE  \E m \in DOMAIN h :
                       /\ Text(h[m])
                       /\ \E p \in DOMAIN h[m].text :
                             h[m].text[p] = text[k] /\ Step(h[m].isa, p - 1) = Step(z, k - 1)
  BY DEF Stored
<1>1. PICK m \in DOMAIN g :
         /\ Text(g[m])
         /\ \E p \in DOMAIN g[m].text :
               g[m].text[p] = text[k] /\ Step(g[m].isa, p - 1) = Step(z, k - 1)
  BY DEF Stored
<1>2. PICK p \in DOMAIN g[m].text :
         g[m].text[p] = text[k] /\ Step(g[m].isa, p - 1) = Step(z, k - 1)
  BY <1>1
<1>3. PICK q \in DOMAIN h :
         /\ h[q].isa = g[m].isa /\ h[q].infotype = g[m].infotype
         /\ \A r \in DOMAIN g[m].text : r \in DOMAIN h[q].text /\ h[q].text[r] = g[m].text[r]
  BY DEF Extends
<1>4. Text(h[q])
  BY <1>1, <1>3 DEF Text
<1>5. p \in DOMAIN h[q].text /\ h[q].text[p] = text[k] /\ Step(h[q].isa, p - 1) = Step(z, k - 1)
  BY <1>2, <1>3
<1> QED  BY <1>4, <1>5

\* Text put in a crum of its own behind crum i.
LEMMA NewTextKeeps ==
    ASSUME NEW g, Crums(g), NEW i \in DOMAIN g, NEW z \in Address, Element(z, TEXTATOM),
           NEW text \in Seq(Char), Len(text) <= GRANTEXTLENGTH, Stays(z, Len(text) - 1),
           Before(g[i].isa, z), Text(g[i]) => NotAfter(End(g[i]), z),
           \A j \in DOMAIN g : j > i =>
              Before(z, g[j].isa) /\ Before(Step(z, Len(text)), g[j].isa)
    PROVE  LET h == After(g, i, TextCrum(z, text))
           IN  Crums(h) /\ Extends(g, h) /\ Stored(h, z, text)
<1> DEFINE c == TextCrum(z, text)
           h == After(g, i, c)
<1>1. /\ c \in Crum /\ Shape(c) /\ Text(c) /\ c.isa = z /\ c.text = text
      /\ Len(c.text) <= GRANTEXTLENGTH /\ End(c) = Step(z, Len(text))
  BY TextCrumIs
<1> HIDE DEF c
<1>2. Crums(h)
  <2>1. \A j \in DOMAIN g : j > i =>
           /\ Before(c.isa, g[j].isa)
           /\ Text(c) => NotAfter(End(c), g[j].isa)
    BY <1>1 DEF NotAfter
  <2> QED  BY <1>1, <2>1, AfterKeeps
<1>3. Extends(g, h) /\ \E q \in DOMAIN h : h[q] = c
  <2>1. g \in Seq(Crum) /\ i \in 1..Len(g)
    BY CrumsAre
  <2> QED  BY <1>1, <2>1, AfterExtends
<1> HIDE DEF h
<1>4. Stored(h, z, text)
  BY <1>1, <1>3 DEF Stored
<1> QED  BY <1>2, <1>3, <1>4 DEF h, c

LEMMA InsertTextKeeps ==
    ASSUME Crums(granf), NEW i, NEW z, TextPlace(i, z), NEW text \in Seq(Char),
           Len(text) \in 1..GRANTEXTLENGTH
    PROVE  /\ Crums(InsertText(z, text))
           /\ Extends(granf, InsertText(z, text))
           /\ Stored(InsertText(z, text), z, text)
<1> DEFINE room == GRANTEXTLENGTH - Len(granf[i].text)
           n == Len(granf[i].text)
           s == Len(text)
           a == granf[i].isa
<1>1. /\ i \in DOMAIN granf /\ z \in Address /\ Element(z, TEXTATOM)
      /\ z \in Number /\ ~iszerotumbler(z)
      /\ GRANTEXTLENGTH \in Nat /\ s \in Nat /\ s >= 1 /\ s <= GRANTEXTLENGTH
  BY GranfAssumption, AddressIs DEF TextPlace
<1>2. /\ \A k \in Nat : Stays(z, k)
      /\ Step(z, 0) = z
  BY <1>1, StaysIs
<1>3. /\ granf[i] \in Crum /\ granf[i].isa \in Number
      /\ n \in Nat /\ n <= GRANTEXTLENGTH /\ room \in Nat
      /\ \A j \in DOMAIN granf : granf[j].isa \in Number
      /\ Text(granf[i]) => Shape(granf[i]) /\ a \in Address
  <2>1. granf[i] \in Crum
    BY <1>1, CrumsAre
  <2>2. n \in Nat
    <3>1. granf[i].text \in Seq(Char)
      BY <2>1 DEF Crum
    <3> QED  BY <3>1
  <2>3. n <= GRANTEXTLENGTH
    BY <1>1 DEF Crums
  <2>4. Text(granf[i]) => Shape(granf[i]) /\ a \in Address
    <3>1. Text(granf[i]) => i > 1
      BY <1>1, CrumsAre DEF Crums, Text
    <3> QED  BY <1>1, <3>1, CrumsAre
  <2> QED  BY <1>1, <2>1, <2>2, <2>3, <2>4, CrumsAre
<1>4. ASSUME NEW j \in DOMAIN granf, j > i
      PROVE  Before(z, granf[j].isa) /\ \A k \in Nat : Before(Step(z, k), granf[j].isa)
  BY <1>2, <1>4 DEF TextPlace
<1>5. ASSUME Text(granf[i])
      PROVE  /\ z = Step(a, n) /\ End(granf[i]) = z /\ NotAfter(a, z)
             /\ a \in Number /\ ~iszerotumbler(a)
             /\ \A k \in Nat : Stays(a, k) /\ Step(a, n + k) = Step(z, k)
  <2>1. End(granf[i]) = z /\ End(granf[i]) = Step(a, n)
    BY <1>5 DEF TextPlace, End
  <2>2. a \in Number /\ ~iszerotumbler(a)
    BY <1>3, <1>5, AddressIs
  <2>3. NotAfter(a, Step(a, n))
    BY <1>3, <1>5, EndIs
  <2>4. \A k \in Nat : Stays(a, k)
    BY <2>2, StaysIs
  <2>5. ASSUME NEW k \in Nat PROVE Step(a, n + k) = Step(z, k)
    <3>1. Stays(a, n) /\ Stays(a, n + k) /\ k \in Int
      BY <1>3, <2>4
    <3>2. Step(Step(a, n), k) = Step(a, n + k)
      BY <1>3, <2>2, <3>1, StepStep
    <3> QED  BY <2>1, <3>2
  <2> QED  BY <2>1, <2>2, <2>3, <2>4, <2>5
<1>6. FindCrum(z) = i
  <2>1. NotAfter(a, z)
    BY <1>5 DEF TextPlace, NotAfter
  <2> QED  BY <1>1, <1>4, <2>1, FoundIs
<1>7. InsertText(z, text) =
        IF granf[i].infotype # "GRANTEXT" \/ room <= 0
        THEN After(granf, i, TextCrum(z, text))
        ELSE IF room > s
        THEN [granf EXCEPT ![i].text = @ \o text]
        ELSE After([granf EXCEPT ![i].text = @ \o SubSeq(text, 1, room)], i,
                   TextCrum(Step(z, room), SubSeq(text, room + 1, s)))
  BY <1>6 DEF InsertText, TextCrum, Step
<1>8. Stays(z, s - 1)
  <2>1. s - 1 \in Nat
    BY <1>1
  <2> QED  BY <1>2, <2>1
<1>9. CASE granf[i].infotype # "GRANTEXT" \/ room <= 0
  <2>1. Before(a, z) /\ (Text(granf[i]) => NotAfter(End(granf[i]), z))
    <3>1. CASE ~Text(granf[i])
      BY <3>1 DEF TextPlace
    <3>2. CASE Text(granf[i])
      <4>1. n > 0
        BY <1>1, <1>3, <1>9, <3>2 DEF Text
      <4>2. Stays(a, 0) /\ Stays(a, n) /\ Step(a, 0) = a
        BY <1>3, <1>5, <3>2, StaysIs
      <4>3. Before(Step(a, 0), Step(a, n))
        BY <1>3, <1>5, <3>2, <4>1, <4>2, StepBefore
      <4> QED  BY <1>5, <3>2, <4>2, <4>3 DEF NotAfter
    <3> QED  BY <3>1, <3>2
  <2>2. InsertText(z, text) = After(granf, i, TextCrum(z, text))
    BY <1>7, <1>9
  <2>3. \A j \in DOMAIN granf : j > i =>
           Before(z, granf[j].isa) /\ Before(Step(z, s), granf[j].isa)
    BY <1>1, <1>4
  <2> HIDE DEF room, n, a
  <2>4. LET h == After(granf, i, TextCrum(z, text))
        IN  Crums(h) /\ Extends(granf, h) /\ Stored(h, z, text)
    BY <1>1, <1>8, <2>1, <2>3, NewTextKeeps DEF a
  <2> QED  BY <2>2, <2>4
<1>10. CASE Text(granf[i]) /\ room > s
  <2>1. InsertText(z, text) = [granf EXCEPT ![i].text = @ \o text]
    BY <1>1, <1>3, <1>7, <1>10 DEF Text
  <2>2. n + s <= GRANTEXTLENGTH
    BY <1>1, <1>3, <1>10
  <2>3. \A j \in DOMAIN granf : j > i => NotAfter(Step(a, n + s), granf[j].isa)
    BY <1>1, <1>4, <1>5, <1>10 DEF NotAfter
  <2>4. Crums([granf EXCEPT ![i].text = @ \o text])
    BY <1>1, <1>10, <2>2, <2>3, AppendKeeps
  <2>5. LET h == [granf EXCEPT ![i].text = @ \o text]
        IN  Extends(granf, h) /\ Stored(h, End(granf[i]), text)
    BY <1>1, <1>10, <2>2, <2>3, AppendExtends
  <2> QED  BY <1>5, <1>10, <2>1, <2>4, <2>5
<1>11. CASE Text(granf[i]) /\ room > 0 /\ room <= s
  <2> DEFINE t == SubSeq(text, 1, room)
             r == SubSeq(text, room + 1, s)
             g == [granf EXCEPT ![i].text = @ \o t]
             y == Step(z, room)
             h == After(g, i, TextCrum(y, r))
  <2>1. /\ t \in Seq(Char) /\ Len(t) = room /\ \A k \in 1..room : t[k] = text[k]
        /\ r \in Seq(Char) /\ Len(r) = s - room /\ \A k \in 1..(s - room) : r[k] = text[room + k]
    <3> HIDE DEF room
    <3> QED  BY <1>1, <1>3, <1>11
  <2>2. InsertText(z, text) = h
    BY <1>1, <1>3, <1>7, <1>11 DEF Text
  <2> HIDE DEF t, r
  <2>3. n + room = GRANTEXTLENGTH
    BY <1>1, <1>3
  <2>4. n + Len(t) <= GRANTEXTLENGTH
    BY <1>1, <2>1, <2>3
  <2>5. Step(a, n + Len(t)) = y
    BY <1>3, <1>5, <1>11, <2>1
  <2>6. \A j \in DOMAIN granf : j > i => NotAfter(Step(a, n + Len(t)), granf[j].isa)
    BY <1>3, <1>4, <2>5 DEF NotAfter
  <2>7. /\ Crums(g) /\ DOMAIN g = DOMAIN granf
        /\ \A k \in DOMAIN granf : k # i => g[k] = granf[k]
    BY <1>1, <1>11, <2>1, <2>4, <2>6, AppendKeeps
  <2>8. /\ Extends(granf, g) /\ Text(g[i]) /\ g[i].isa = a
        /\ End(g[i]) = Step(a, n + Len(t)) /\ Stored(g, End(granf[i]), t)
    <3>1. LET f == [granf EXCEPT ![i].text = @ \o t]
          IN  /\ Extends(granf, f)
              /\ i \in DOMAIN f /\ Text(f[i]) /\ f[i].isa = granf[i].isa
              /\ Len(f[i].text) = Len(granf[i].text) + Len(t)
              /\ End(f[i]) = Step(granf[i].isa, Len(granf[i].text) + Len(t))
              /\ Stored(f, End(granf[i]), t)
      BY <1>1, <1>11, <2>1, <2>4, <2>6, AppendExtends
    <3> QED  BY <3>1
  <2> HIDE DEF g, room, n, a, s
  <2>9. y \in Address /\ Element(y, TEXTATOM)
    <3>1. TEXTATOM \in Nat \ {0}
      BY DEF TEXTATOM
    <3> QED  BY <1>1, <1>2, <1>3, <3>1, StepAddress, StepElement
  <2>10. Stays(y, Len(r) - 1) /\ Stays(y, Len(r)) /\ Step(y, Len(r)) = Step(z, s)
    <3>1. room + (Len(r) - 1) = s - 1 /\ room + Len(r) = s /\ Len(r) \in Int /\ Len(r) - 1 \in Int
      BY <1>1, <1>3, <2>1
    <3>2. Stays(z, room) /\ Stays(z, s - 1) /\ Stays(z, s)
      BY <1>1, <1>2, <1>3, <1>8
    <3>3. Stays(Step(z, room), Len(r) - 1)
      BY <1>1, <3>1, <3>2, StepStep
    <3>4. Stays(Step(z, room), Len(r)) /\ Step(Step(z, room), Len(r)) = Step(z, s)
      BY <1>1, <3>1, <3>2, StepStep
    <3> QED  BY <3>3, <3>4
  <2>11. Before(a, y)
    <3>1. Stays(a, 0) /\ Step(a, 0) = a /\ Stays(a, n + room) /\ 0 < n + room /\ n + room \in Nat
      BY <1>3, <1>5, <1>11, StaysIs
    <3>2. y = Step(a, n + room)
      BY <2>1, <2>5
    <3> QED  BY <1>5, <1>11, <3>1, <3>2, StepBefore
  <2>12. NotAfter(End(g[i]), y)
    BY <2>5, <2>8 DEF NotAfter
  <2>13. \A j \in DOMAIN g : j > i =>
            Before(y, g[j].isa) /\ Before(Step(y, Len(r)), g[j].isa)
    <3> SUFFICES ASSUME NEW j \in DOMAIN g, j > i
                 PROVE  Before(y, g[j].isa) /\ Before(Step(y, Len(r)), g[j].isa)
      OBVIOUS
    <3>1. j \in DOMAIN granf /\ j # i
      BY <1>1, <2>7, CrumsAre
    <3>2. g[j] = granf[j]
      BY <2>7, <3>1
    <3>3. Before(Step(z, room), granf[j].isa) /\ Before(Step(z, s), granf[j].isa)
      BY <1>1, <1>3, <1>4, <3>1
    <3> QED  BY <2>10, <3>2, <3>3
  <2>14. Len(r) <= GRANTEXTLENGTH
    BY <1>1, <1>3, <1>11, <2>1
  <2> HIDE DEF y
  <2>15. Crums(h) /\ Extends(g, h) /\ Stored(h, y, r)
    <3>1. LET q == After(g, i, TextCrum(y, r))
          IN  Crums(q) /\ Extends(g, q) /\ Stored(q, y, r)
      BY <1>1, <2>1, <2>7, <2>8, <2>9, <2>10, <2>11, <2>12, <2>13, <2>14, NewTextKeeps
    <3> QED  BY <3>1
  <2> HIDE DEF h
  <2>16. Extends(granf, h) /\ Stored(h, z, t)
    <3>1. Stored(g, z, t)
      BY <1>5, <1>11, <2>8
    <3> QED  BY <2>8, <2>15, <3>1, ExtendsTransitive, StoredExtends
  <2>17. Stored(h, z, text)
    <3> SUFFICES ASSUME NEW k \in 1..s
                 PROVE  \E m \in DOMAIN h :
                           /\ Text(h[m])
                           /\ \E p \in DOMAIN h[m].text :
                                 /\ h[m].text[p] = text[k]
                                 /\ Step(h[m].isa, p - 1) = Step(z, k - 1)
      BY DEF Stored, s
    <3>1. CASE k <= room
      <4>1. k \in DOMAIN t /\ t[k] = text[k]
        BY <1>3, <2>1, <3>1
      <4> QED  BY <2>16, <4>1 DEF Stored
    <3>2. CASE k > room
      <4>1. k - room \in 1..(s - room) /\ room + (k - room) = k
        BY <1>1, <1>3, <3>2
      <4>2. k - room \in DOMAIN r /\ r[k - room] = text[k]
        BY <2>1, <4>1
      <4>3. Step(y, (k - room) - 1) = Step(z, k - 1)
        <5>1. room + ((k - room) - 1) = k - 1 /\ (k - room) - 1 \in Int /\ k - 1 \in Nat
          BY <1>1, <1>3, <3>2
        <5>2. Stays(z, room) /\ Stays(z, k - 1)
          BY <1>2, <1>3, <5>1
        <5>3. Step(Step(z, room), (k - room) - 1) = Step(z, k - 1)
          BY <1>1, <5>1, <5>2, StepStep
        <5> QED  BY <5>3 DEF y
      <4> QED  BY <2>15, <4>2, <4>3 DEF Stored
    <3> QED  BY <1>1, <1>3, <3>1, <3>2
  <2> QED  BY <2>2, <2>15, <2>16, <2>17
<1>12. CASE ~(granf[i].infotype # "GRANTEXT" \/ room <= 0)
  <2>1. Text(granf[i]) /\ room > 0 /\ (room > s \/ room <= s)
    BY <1>1, <1>3, <1>12 DEF Text
  <2> QED  BY <1>10, <1>11, <2>1
<1> QED  BY <1>9, <1>12

-----------------------------------------------------------------------------
(* The invariant. *)

\* WellPlaced of one gift.
Placed(x) ==
    LET parent == CASE x.kind = "char" -> tumblerincrement(x.hint, 2, 1)
                    [] x.kind = "link" -> tumblerincrement(x.hint, 2, 2)
                    [] OTHER -> x.hint
        depth == IF x.kind = "document" THEN 2 ELSE 1
    IN  /\ tumblertruncate(x.isa, tumblerlength(parent)) = parent
        /\ tumblerlength(x.isa) = tumblerlength(parent) + depth

\* The fields of a node or document, from which others are made.
Fielded(x) ==
    /\ x.kind = "node" => x.isa \in Address /\ Level(x.isa) = 1
    /\ x.kind \in {"document", "version"} => x.isa \in Address /\ Level(x.isa) = 2

GranfInv ==
    /\ Crums(granf)
    /\ given \in SUBSET Gift /\ IsFiniteSet(given) /\ latest \subseteq given
    /\ running \in BOOLEAN
    /\ \A x \in given : Holds(granf, x) /\ Placed(x) /\ Fielded(x)

\* NeverTwice of one step.
NoneTwice == \A new \in latest', old \in given : new \notin given => new.isa # old.isa

LEMMA InputsAre ==
    ASSUME GranfInv
    PROVE  /\ \A a \in AccountOrNode : a \in Address /\ Level(a) = 1
           /\ \A d \in Document \union Named : d \in Address /\ Level(d) = 2
<1>1. \A a \in Account \union Named : a \in Address
  <2> SUFFICES ASSUME NEW a \in Account \union Named PROVE a \in Address
    OBVIOUS
  <2>1. a \in tumbler
    BY GranfAssumption
  <2>2. a.sign = 0 /\ tumblercheck(a) /\ ~iszerotumbler(a)
    BY AddressAssumption
  <2> QED  BY <2>1, <2>2 DEF Address, Number
<1>2. (\A a \in Account : Level(a) = 1) /\ (\A a \in Named : Level(a) = 2)
  BY AddressAssumption DEF Level
<1>3. \A x \in given : Fielded(x)
  BY DEF GranfInv
<1>4. ASSUME NEW a \in AccountOrNode PROVE a \in Address /\ Level(a) = 1
  <2>1. CASE a \in Account
    BY <1>1, <1>2, <2>1
  <2>2. CASE a \notin Account
    <3>1. PICK x \in given : x.kind = "node" /\ x.isa = a
      BY <2>2 DEF AccountOrNode
    <3> QED  BY <1>3, <3>1 DEF Fielded
  <2> QED  BY <2>1, <2>2
<1>5. ASSUME NEW d \in Document \union Named PROVE d \in Address /\ Level(d) = 2
  <2>1. CASE d \in Named
    BY <1>1, <1>2, <2>1
  <2>2. CASE d \in Document
    <3>1. PICK x \in given : x.kind \in {"document", "version"} /\ x.isa = d
      BY <2>2 DEF Document
    <3> QED  BY <1>3, <3>1 DEF Fielded
  <2> QED  BY <2>1, <2>2
<1> QED  BY <1>4, <1>5

LEMMA PlacedIs ==
    ASSUME NEW a \in Address, NEW z \in Address, Under(a, z), NEW depth \in {1, 2},
           nstories(z) = nstories(a) + depth
    PROVE  /\ tumblertruncate(z, tumblerlength(a)) = a
           /\ tumblerlength(z) = tumblerlength(a) + depth
<1>1. tumblertruncate(z, tumblerlength(a)) = a
  BY UnderIs, AddressIs
<1>2. z.exp = a.exp /\ a.exp \in Int /\ nstories(a) \in Nat
  BY AddressIs DEF Under
<1> QED  BY <1>1, <1>2 DEF tumblerlength

LEMMA GranfInvInit == Init => GranfInv
<1> SUFFICES ASSUME Init PROVE GranfInv
  OBVIOUS
<1> DEFINE c == [isa |-> ZEROTUMBLER, infotype |-> "GRANNULL", text |-> <<>>]
<1>1. granf = <<c>> /\ given = {} /\ latest = {} /\ running = TRUE
  BY DEF Init
<1>2. c \in Crum /\ Len(c.text) = 0
  <2>1. <<>> \in Seq(Char) /\ Len(<<>>) = 0
    OBVIOUS
  <2>2. ZEROTUMBLER \in tumbler
    BY ZeroIsNumber, NumberType
  <2> QED  BY <2>1, <2>2 DEF Crum
<1>3. c.isa = ZEROTUMBLER /\ c.infotype = "GRANNULL" /\ c.text = <<>>
  OBVIOUS
<1> HIDE DEF c
<1>4. granf \in Seq(Crum) /\ Len(granf) = 1 /\ DOMAIN granf = {1} /\ granf[1] = c
  BY <1>1, <1>2
<1>5. 0 <= GRANTEXTLENGTH
  BY GranfAssumption
<1>6. Crums(granf)
  BY <1>2, <1>3, <1>4, <1>5 DEF Crums, Sorted
<1>7. IsFiniteSet(given)
  BY <1>1, FS_EmptySet
<1> QED  BY <1>1, <1>6, <1>7 DEF GranfInv

\* What is created keeps the invariant, and is new.
LEMMA CreateStep ==
    ASSUME GranfInv, NEW z \in Address, NEW kind \in {"document", "version", "node", "link"},
           NEW hint \in Address, NEW i, Fits(i, z),
           Level(z) <= 2 \/ Element(z, LINKATOM),
           Placed([isa |-> z, kind |-> kind, char |-> 0, hint |-> hint]),
           Fielded([isa |-> z, kind |-> kind, char |-> 0, hint |-> hint]),
           Create(z, kind, hint)
    PROVE  GranfInv' /\ NoneTwice
<1> DEFINE x == [isa |-> z, kind |-> kind, char |-> 0, hint |-> hint]
           c == [isa |-> z, infotype |-> "GRANORGL", text |-> <<>>]
<1>1. /\ Crums(granf) /\ given \in SUBSET Gift /\ IsFiniteSet(given)
      /\ \A y \in given : Holds(granf, y) /\ Placed(y) /\ Fielded(y)
  BY DEF GranfInv
<1>2. /\ granf' = InsertOrgl(z) /\ latest' = {x} /\ given' = given \union {x}
      /\ running = TRUE /\ running' = running
  BY DEF Create, Give, GranfInv
<1>3. x \in Gift /\ x.isa = z /\ x.kind = kind
  <2>1. z \in tumbler /\ hint \in tumbler
    BY AddressIs
  <2> QED  BY <2>1 DEF Gift, Kind
<1> HIDE DEF x
<1>4. Crums(granf') /\ granf' = After(granf, i, c)
  BY <1>1, <1>2, OrglKeeps
<1>5. Extends(granf, granf') /\ \E q \in DOMAIN granf' : granf'[q] = c
  <2>1. granf \in Seq(Crum) /\ i \in 1..Len(granf)
    BY <1>1, CrumsAre DEF Fits
  <2>2. c \in Crum
    <3>1. <<>> \in Seq(Char)
      OBVIOUS
    <3>2. z \in tumbler
      BY AddressIs
    <3> QED  BY <3>1, <3>2 DEF Crum
  <2> HIDE DEF c
  <2> QED  BY <1>4, <2>1, <2>2, AfterExtends
<1>6. Holds(granf', x)
  <2>1. PICK q \in DOMAIN granf' : granf'[q] = c
    BY <1>5
  <2>2. granf'[q].isa = z /\ granf'[q].infotype = "GRANORGL"
    BY <2>1
  <2>3. x.kind # "char"
    BY <1>3
  <2> QED  BY <1>3, <2>2, <2>3 DEF Holds
<1>7. \A y \in given' : Holds(granf', y) /\ Placed(y) /\ Fielded(y)
  <2>1. Placed(x) /\ Fielded(x)
    BY DEF x
  <2>2. \A y \in given : Holds(granf', y)
    BY <1>1, <1>5, HoldsExtends
  <2> QED  BY <1>1, <1>2, <1>6, <2>1, <2>2
<1>8. IsFiniteSet(given')
  BY <1>1, <1>2, FS_AddElement
<1>9. GranfInv'
  BY <1>1, <1>2, <1>3, <1>4, <1>7, <1>8 DEF GranfInv
<1>10. NoneTwice
  <2>1. z \in Number
    BY AddressIs
  <2>2. Free(i, z)
    BY DEF Free, Fits
  <2>3. \A y \in given : y.isa # z
    BY <1>1, <2>1, <2>2, Fresh
  <2> QED  BY <1>2, <1>3, <2>3 DEF NoneTwice
<1> QED  BY <1>9, <1>10

LEMMA NonMoleculeStep ==
    ASSUME GranfInv, NEW hint \in Address, NEW depth \in {1, 2}, Increments(hint, depth),
           NEW kind \in {"document", "version", "node"}, kind = "document" <=> depth = 2,
           Level(hint) + depth = (IF kind = "node" THEN 2 ELSE 3),
           Create(findisatoinsertnonmolecule(hint, depth), kind, hint)
    PROVE  GranfInv' /\ NoneTwice
<1> DEFINE z == findisatoinsertnonmolecule(hint, depth)
           x == [isa |-> z, kind |-> kind, char |-> 0, hint |-> hint]
<1>1. Crums(granf) /\ Level(hint) \in Nat
  BY ZerosFinite DEF GranfInv
<1>2. /\ z \in Address /\ Level(z) = Level(hint) + depth - 1 /\ Under(hint, z)
      /\ nstories(z) = nstories(hint) + depth
      /\ \E i \in DOMAIN granf : Fits(i, z)
  <2>1. Level(hint) + depth <= 3
    OBVIOUS
  <2> QED  BY <1>1, <2>1, NonMoleculeFits
<1> HIDE DEF z
<1>3. x.isa = z /\ x.kind = kind /\ x.hint = hint
  OBVIOUS
<1>4. Level(z) = (IF kind = "node" THEN 1 ELSE 2)
  BY <1>1, <1>2
<1>5. Fielded(x)
  BY <1>2, <1>3, <1>4 DEF Fielded
<1>6. Placed(x)
  <2>1. /\ tumblertruncate(z, tumblerlength(hint)) = hint
        /\ tumblerlength(z) = tumblerlength(hint) + depth
    BY <1>2, PlacedIs
  <2>2. kind # "char" /\ kind # "link" /\ depth = (IF kind = "document" THEN 2 ELSE 1)
    OBVIOUS
  <2> HIDE DEF x
  <2> QED  BY <1>3, <2>1, <2>2 DEF Placed
<1>7. Level(z) <= 2
  BY <1>4
<1>8. PICK i : Fits(i, z)
  BY <1>2
<1> QED  BY <1>2, <1>5, <1>6, <1>7, <1>8, CreateStep DEF z

LEMMA LinkStep ==
    ASSUME GranfInv, NEW doc \in Address, Level(doc) = 2, CreateLink(doc)
    PROVE  GranfInv' /\ NoneTwice
<1> DEFINE z == findisatoinsertmolecule(doc, LINKATOM)
           x == [isa |-> z, kind |-> "link", char |-> 0, hint |-> doc]
           c == tumblerincrement(doc, 2, 2)
<1>1. /\ Crums(granf) /\ isaexistsgr(doc) /\ Increments(doc, 3)
      /\ Create(z, "link", doc)
  BY DEF GranfInv, CreateLink
<1>2. /\ z \in Address /\ Element(z, LINKATOM) /\ Under(c, z)
      /\ nstories(z) = nstories(doc) + 3
      /\ \E i \in DOMAIN granf : Fits(i, z)
  BY <1>1, LinkFits
<1>3. c \in Address /\ nstories(c) = nstories(doc) + 2
  BY <1>1, AtomIs
<1> HIDE DEF z
<1>4. x.isa = z /\ x.kind = "link" /\ x.hint = doc
  OBVIOUS
<1>5. Fielded(x)
  BY <1>4 DEF Fielded
<1>6. Placed(x)
  <2>1. nstories(z) = nstories(c) + 1
    BY <1>2, <1>3, AddressIs
  <2>2. /\ tumblertruncate(z, tumblerlength(c)) = c
        /\ tumblerlength(z) = tumblerlength(c) + 1
    BY <1>2, <1>3, <2>1, PlacedIs
  <2> HIDE DEF x
  <2> QED  BY <1>4, <2>2 DEF Placed
<1>7. PICK i : Fits(i, z)
  BY <1>2
<1> QED  BY <1>1, <1>2, <1>5, <1>6, <1>7, CreateStep

\* What is inserted keeps the invariant, and is new.
LEMMA InsertStep ==
    ASSUME GranfInv, NEW doc \in Address, Level(doc) = 2, NEW n \in 1..GRANTEXTLENGTH,
           Insert(doc, n)
    PROVE  GranfInv' /\ NoneTwice
<1> DEFINE z == findisatoinsertmolecule(doc, TEXTATOM)
           chars == {g \in given : g.kind = "char"}
           text == [k \in 1..n |-> Chars + k]
           gift(k) == [isa |-> Step(z, k - 1), kind |-> "char", char |-> Chars + k, hint |-> doc]
           gifts == {gift(k) : k \in 1..n}
           c == tumblerincrement(doc, 2, 1)
<1>1. /\ Crums(granf) /\ given \in SUBSET Gift /\ IsFiniteSet(given)
      /\ \A y \in given : Holds(granf, y) /\ Placed(y) /\ Fielded(y)
      /\ isaexistsgr(doc) /\ Increments(doc, 3) /\ Chars + n <= MaxChars
      /\ running \in BOOLEAN
  BY DEF GranfInv, Insert
<1>2. n \in Nat /\ n >= 1 /\ n <= GRANTEXTLENGTH /\ MaxChars \in Nat
  BY GranfAssumption
<1>3. Chars \in Nat
  <2>1. IsFiniteSet(chars)
    <3>1. chars \in SUBSET given
      OBVIOUS
    <3> QED  BY <1>1, <3>1, FS_Subset
  <2> QED  BY <2>1, FS_CardinalityType DEF Chars
<1>4. text \in Seq(Char) /\ Len(text) = n /\ DOMAIN text = 1..n
      /\ \A k \in 1..n : text[k] = Chars + k /\ Chars + k \in Char
  <2>1. \A k \in 1..n : Chars + k \in 1..MaxChars
    BY <1>1, <1>2, <1>3
  <2> HIDE DEF Chars
  <2>2. text \in [1..n -> Char]
    BY <2>1 DEF Char
  <2>3. text \in Seq(Char) /\ Len(text) = n
    BY <1>2, <2>2
  <2> QED  BY <2>1, <2>2, <2>3 DEF Char
<1>5. granf' = InsertText(z, text) /\ latest' = gifts /\ given' = given \union gifts
      /\ running' = running
  BY DEF Insert, Give, Step
<1>6. /\ Under(c, z) /\ nstories(z) = nstories(doc) + 3
      /\ \E i \in DOMAIN granf : TextPlace(i, z)
  BY <1>1, TextFits
<1>7. PICK i \in DOMAIN granf : TextPlace(i, z)
  BY <1>6
<1> HIDE DEF z, text, Chars
<1>8. /\ Crums(granf') /\ Extends(granf, granf') /\ Stored(granf', z, text)
  BY <1>1, <1>2, <1>4, <1>5, <1>7, InsertTextKeeps
<1>9. /\ z \in Address /\ z \in Number /\ ~iszerotumbler(z)
      /\ \A k \in 1..n : k - 1 \in Nat
      /\ \A k \in Nat : Stays(z, k)
      /\ Step(z, 0) = z
  BY <1>2, <1>7, StaysIs, AddressIs DEF TextPlace
<1>10. c \in Address /\ nstories(c) = nstories(doc) + 2 /\ nstories(doc) \in Nat
  BY <1>1, AtomIs, AddressIs
<1>11. ASSUME NEW k \in 1..n
       PROVE  /\ Step(z, k - 1) \in Address
              /\ Under(c, Step(z, k - 1))
              /\ nstories(Step(z, k - 1)) = nstories(c) + 1
              /\ Free(i, Step(z, k - 1))
  <2>1. k - 1 \in Nat /\ Stays(z, k - 1)
    BY <1>9
  <2>2. Step(z, k - 1) \in Address /\ nstories(Step(z, k - 1)) = nstories(z)
    BY <1>9, <2>1, StepAddress
  <2>3. nstories(c) < nstories(z) /\ nstories(z) = nstories(c) + 1
    BY <1>6, <1>10
  <2>4. Under(c, Step(z, k - 1))
    BY <1>6, <1>9, <1>10, <2>1, <2>3, StepUnder
  <2>5. NotAfter(z, Step(z, k - 1))
    <3>1. CASE k - 1 = 0
      BY <1>9, <3>1 DEF NotAfter
    <3>2. CASE k - 1 # 0
      <4>1. 0 < k - 1 /\ Stays(z, 0)
        BY <1>9, <2>1, <3>2
      <4>2. Before(Step(z, 0), Step(z, k - 1))
        BY <1>9, <2>1, <4>1, StepBefore
      <4> QED  BY <1>9, <4>2 DEF NotAfter
    <3> QED  BY <3>1, <3>2
  <2>6. Text(granf[i]) => NotAfter(End(granf[i]), Step(z, k - 1))
    BY <1>7, <2>5 DEF TextPlace
  <2>7. ~Text(granf[i]) => Before(granf[i].isa, Step(z, k - 1))
    <3>1. granf[i].isa \in Number /\ Step(z, k - 1) \in Number
      BY <1>1, <2>2, CrumsAre, AddressIs
    <3>2. ~Text(granf[i]) => Before(granf[i].isa, z)
      BY <1>7 DEF TextPlace
    <3> QED  BY <1>9, <2>5, <3>1, <3>2, BeforeNotAfter
  <2>8. \A j \in DOMAIN granf : j > i => Before(Step(z, k - 1), granf[j].isa)
    BY <1>7, <2>1 DEF TextPlace
  <2> QED  BY <2>2, <2>3, <2>4, <2>6, <2>7, <2>8 DEF Free
<1>12. ASSUME NEW k \in 1..n
       PROVE  /\ gift(k) \in Gift /\ gift(k).isa = Step(z, k - 1)
              /\ Holds(granf', gift(k)) /\ Placed(gift(k)) /\ Fielded(gift(k))
  <2> DEFINE x == gift(k)
  <2>1. x.isa = Step(z, k - 1) /\ x.kind = "char" /\ x.char = Chars + k /\ x.hint = doc
    OBVIOUS
  <2>2. x \in Gift
    <3>1. Step(z, k - 1) \in tumbler /\ doc \in tumbler /\ Chars + k \in Char
      BY <1>4, <1>11, AddressIs
    <3> QED  BY <3>1 DEF Gift, Kind
  <2> HIDE DEF x
  <2>3. Holds(granf', x)
    <3>1. \E m \in DOMAIN granf' :
             /\ Text(granf'[m])
             /\ \E p \in DOMAIN granf'[m].text :
                   granf'[m].text[p] = text[k] /\ Step(granf'[m].isa, p - 1) = Step(z, k - 1)
      BY <1>4, <1>8 DEF Stored
    <3>2. text[k] = x.char
      BY <1>4, <2>1
    <3> QED  BY <2>1, <3>1, <3>2 DEF Holds
  <2>4. Placed(x)
    <3>1. /\ tumblertruncate(x.isa, tumblerlength(c)) = c
          /\ tumblerlength(x.isa) = tumblerlength(c) + 1
      BY <1>10, <1>11, <2>1, PlacedIs
    <3> QED  BY <2>1, <3>1 DEF Placed
  <2>5. Fielded(x)
    BY <2>1 DEF Fielded
  <2> QED  BY <2>1, <2>2, <2>3, <2>4, <2>5 DEF x
<1>13. \A y \in gifts : \E k \in 1..n : y = gift(k)
  OBVIOUS
<1>14. IsFiniteSet(given')
  <2>1. IsFiniteSet(1..n)
    BY <1>2, FS_Interval
  <2> DEFINE f == [k \in 1..n |-> gift(k)]
  <2>2. f \in Surjection(1..n, gifts)
    BY DEF Surjection
  <2>3. IsFiniteSet(gifts)
    <3> HIDE DEF f, gifts
    <3> QED  BY <2>1, <2>2, FS_Surjection
  <2> QED  BY <1>1, <1>5, <2>3, FS_Union
<1> HIDE DEF gift, gifts
<1>15. \A y \in gifts : y \in Gift /\ Holds(granf', y) /\ Placed(y) /\ Fielded(y)
  BY <1>12, <1>13
<1>16. \A y \in given : Holds(granf', y)
  BY <1>1, <1>8, HoldsExtends
<1>17. GranfInv'
  BY <1>1, <1>5, <1>8, <1>14, <1>15, <1>16 DEF GranfInv
<1>18. NoneTwice
  <2> SUFFICES ASSUME NEW k \in 1..n, NEW old \in given PROVE gift(k).isa # old.isa
    BY <1>5, <1>13 DEF NoneTwice
  <2>1. Step(z, k - 1) \in Number /\ Free(i, Step(z, k - 1))
    BY <1>11, AddressIs
  <2>2. old.isa # Step(z, k - 1)
    BY <1>1, <2>1, Fresh
  <2> QED  BY <1>12, <2>2
<1> QED  BY <1>17, <1>18

LEMMA GranfInvStep ==
    ASSUME GranfInv, [Next]_vars
    PROVE  GranfInv' /\ (UNCHANGED vars \/ NoneTwice)
<1>1. /\ \A a \in AccountOrNode : a \in Address /\ Level(a) = 1
      /\ \A d \in Document \union Named : d \in Address /\ Level(d) = 2
      /\ 1 \in {1, 2} /\ 2 \in {1, 2}
  BY InputsAre
<1>2. ASSUME NEW a \in AccountOrNode, CreateNewDocument(a) PROVE GranfInv' /\ NoneTwice
  <2>1. Increments(a, 2) /\ Create(findisatoinsertnonmolecule(a, 2), "document", a)
    BY <1>2 DEF CreateNewDocument
  <2>2. a \in Address /\ Level(a) + 2 = 3
    BY <1>1
  <2> QED  BY <1>1, <2>1, <2>2, NonMoleculeStep
<1>3. ASSUME NEW a \in AccountOrNode, CreateNode(a) PROVE GranfInv' /\ NoneTwice
  <2>1. Increments(a, 1) /\ Create(findisatoinsertnonmolecule(a, 1), "node", a)
    BY <1>3 DEF CreateNode
  <2>2. a \in Address /\ Level(a) + 1 = 2
    BY <1>1
  <2> QED  BY <1>1, <2>1, <2>2, NonMoleculeStep
<1>4. ASSUME NEW d \in Document \union Named, CreateNewVersion(d) PROVE GranfInv' /\ NoneTwice
  <2>1. Increments(d, 1) /\ Create(findisatoinsertnonmolecule(d, 1), "version", d)
    BY <1>4 DEF CreateNewVersion
  <2>2. d \in Address /\ Level(d) + 1 = 3
    BY <1>1
  <2> QED  BY <1>1, <2>1, <2>2, NonMoleculeStep
<1>5. ASSUME NEW d \in Document, CreateLink(d) PROVE GranfInv' /\ NoneTwice
  BY <1>1, <1>5, LinkStep
<1>6. ASSUME NEW d \in Document, NEW n \in 1..GRANTEXTLENGTH, Insert(d, n)
      PROVE  GranfInv' /\ NoneTwice
  BY <1>1, <1>6, InsertStep
<1>7. ASSUME NEW hint, NEW digits, Overflow(hint, digits) PROVE GranfInv' /\ NoneTwice
  BY <1>7 DEF Overflow, GranfInv, NoneTwice
<1>8. CASE UNCHANGED vars
  BY <1>8 DEF vars, GranfInv
<1> QED  BY <1>2, <1>3, <1>4, <1>5, <1>6, <1>7, <1>8 DEF Next

-----------------------------------------------------------------------------
(* The properties. *)

LEMMA InOrderIs == GranfInv => InOrder
<1> SUFFICES ASSUME GranfInv, NEW i \in 1..(Len(granf) - 1)
             PROVE  /\ tumblercmp(granf[i].isa, granf[i + 1].isa) = LESS
                    /\ granf[i].infotype = "GRANTEXT" =>
                         tumblercmp(Step(granf[i].isa, Len(granf[i].text)),
                                    granf[i + 1].isa) # GREATER
  BY DEF InOrder, Step
<1>1. Crums(granf)
  BY DEF GranfInv
<1>2. i \in DOMAIN granf /\ i + 1 \in DOMAIN granf /\ i < i + 1
  BY <1>1, CrumsAre
<1>3. granf[i].isa \in Number /\ granf[i + 1].isa \in Number
  BY <1>1, <1>2, CrumsAre
<1>4. /\ Before(granf[i].isa, granf[i + 1].isa)
      /\ Text(granf[i]) => NotAfter(End(granf[i]), granf[i + 1].isa)
  BY <1>1, <1>2 DEF Crums, Sorted
<1>5. tumblercmp(granf[i].isa, granf[i + 1].isa) = LESS
  BY <1>3, <1>4, CmpIs
<1>6. ASSUME granf[i].infotype = "GRANTEXT"
      PROVE  tumblercmp(Step(granf[i].isa, Len(granf[i].text)), granf[i + 1].isa) # GREATER
  <2>1. Text(granf[i]) /\ NotAfter(End(granf[i]), granf[i + 1].isa)
    BY <1>4, <1>6 DEF Text
  <2>2. granf[i] \in Crum /\ Shape(granf[i])
    <3>1. i > 1
      BY <1>1, <1>2, <2>1, CrumsAre DEF Crums, Text
    <3> QED  BY <1>1, <1>2, <3>1, CrumsAre
  <2>3. Len(granf[i].text) \in Nat
    <3>1. granf[i].text \in Seq(Char)
      BY <2>2 DEF Crum
    <3> QED  BY <3>1
  <2>4. End(granf[i]) \in Number
    BY <2>1, <2>2, <2>3, EndIs, AddressIs
  <2> QED  BY <1>3, <2>1, <2>4, NotGreaterIs DEF NotAfter, End
<1> QED  BY <1>5, <1>6

LEMMA WellPlacedIs == GranfInv => WellPlaced
  BY DEF GranfInv, WellPlaced, Placed

LEMMA TypeOKIs == GranfInv => TypeOK
<1> SUFFICES ASSUME GranfInv PROVE TypeOK
  OBVIOUS
<1>1. granf \in Seq(Crum) /\ \A i \in DOMAIN granf : Len(granf[i].text) <= GRANTEXTLENGTH
  BY DEF GranfInv, Crums
<1>2. given \in SUBSET Gift /\ latest \in SUBSET Gift /\ running \in BOOLEAN
  BY DEF GranfInv
<1> QED  BY <1>1, <1>2 DEF TypeOK

\* What retrieves one character finds the crum it is in, and no other.
LEMMA CollectedIs ==
    ASSUME Crums(granf), NEW m \in DOMAIN granf, Text(granf[m]),
           NEW k \in DOMAIN granf[m].text
    PROVE  Collected(Step(granf[m].isa, k - 1)) = {m}
<1> DEFINE c == granf[m]
           a == granf[m].isa
           n == Len(granf[m].text)
           y == Step(a, k - 1)
           end == Step(y, 1)
<1>1. /\ \A j \in DOMAIN granf : granf[j].isa \in Number /\ j \in Nat
      /\ \A i, j \in DOMAIN granf : i < j => Before(granf[i].isa, granf[j].isa)
      /\ \A j \in DOMAIN granf : m < j => NotAfter(End(granf[m]), granf[j].isa)
      /\ DOMAIN granf = 1..Len(granf) /\ Len(granf) \in Nat
  BY CrumsAre DEF Crums, Sorted
<1>2. c \in Crum /\ Shape(c) /\ a \in Address
  <2>1. m > 1
    BY CrumsAre DEF Crums, Text
  <2> QED  BY <2>1, CrumsAre
<1>3. n \in Nat /\ k \in 1..n
  <2>1. granf[m].text \in Seq(Char)
    BY <1>2 DEF Crum
  <2> QED  BY <2>1
<1>4. k - 1 \in Nat /\ k \in Nat /\ (k - 1) + 1 = k /\ k - 1 < k /\ k <= n
  BY <1>3
<1>5. /\ a \in Number /\ ~iszerotumbler(a)
      /\ \A j \in Nat : Stays(a, j) /\ Step(a, j) \in Number
      /\ Step(a, 0) = a
      /\ End(c) = Step(a, n)
  <2>1. a \in Number /\ ~iszerotumbler(a)
    BY <1>2, AddressIs
  <2> HIDE DEF a
  <2>2. \A j \in Nat : Stays(a, j) /\ Step(a, j) \in Number
    BY <2>1, StaysIs, StepIs
  <2>3. Step(a, 0) = a
    BY <2>1, StaysIs
  <2> QED  BY <2>1, <2>2, <2>3 DEF End, a
<1> HIDE DEF a, n, c
<1>6. end = Step(a, k)
  <2>1. Step(Step(a, k - 1), 1) = Step(a, (k - 1) + 1)
    BY <1>4, <1>5, StepStep
  <2> QED  BY <1>4, <2>1
<1>7. /\ y \in Number /\ end \in Number /\ End(c) \in Number
      /\ Before(y, end) /\ NotAfter(end, End(c)) /\ NotAfter(a, y)
  <2>1. y \in Number /\ end \in Number /\ End(c) \in Number
    BY <1>3, <1>4, <1>5, <1>6
  <2>2. Before(Step(a, k - 1), Step(a, k))
    BY <1>4, <1>5, StepBefore
  <2>3. NotAfter(end, End(c))
    <3>1. CASE k = n
      BY <1>5, <1>6, <3>1 DEF NotAfter
    <3>2. CASE k < n
      BY <1>3, <1>4, <1>5, <1>6, <3>2, StepBefore DEF NotAfter
    <3> QED  BY <1>3, <3>1, <3>2
  <2>4. NotAfter(a, y)
    <3>1. CASE k - 1 = 0
      BY <1>5, <3>1 DEF NotAfter
    <3>2. CASE k - 1 # 0
      <4>1. 0 < k - 1 /\ 0 \in Nat
        BY <1>4, <3>2
      <4>2. Before(Step(a, 0), Step(a, k - 1))
        BY <1>4, <1>5, <4>1, StepBefore
      <4> QED  BY <1>5, <4>2 DEF NotAfter
    <3> QED  BY <3>1, <3>2
  <2> QED  BY <1>6, <2>1, <2>2, <2>3, <2>4
<1>8. Before(a, end)
  BY <1>5, <1>7, NotAfterBefore
<1> HIDE DEF y, end
<1> DEFINE In(i) == IF Last(i) THEN tumblercmp(end, granf[i].isa) = GREATER
                    ELSE /\ WhereOnCrum(i, y) < ONMYRIGHTBORDER
                         /\ WhereOnCrum(i, end) > ONMYLEFTBORDER
\* In terms of the order: it begins before end and, unless it is last, y is
\* before the next one.
<1>9. ASSUME NEW i \in DOMAIN granf
      PROVE  In(i) <=> /\ Before(granf[i].isa, end)
                       /\ ~Last(i) => Before(y, granf[i + 1].isa)
  <2>1. CASE Last(i)
    <3>1. tumblercmp(end, granf[i].isa) = GREATER <=> Before(granf[i].isa, end)
      BY <1>1, <1>7, CmpIs
    <3> QED  BY <2>1, <3>1
  <2>2. CASE ~Last(i)
    <3> DEFINE l == granf[i].isa
               r == granf[i + 1].isa
               v == intervalcmp(l, r, y)
               w == intervalcmp(l, r, end)
    <3>1. i + 1 \in DOMAIN granf /\ i < i + 1
      BY <1>1, <2>2 DEF Last
    <3>2. l \in Number /\ r \in Number /\ Before(l, r)
      BY <1>1, <3>1
    <3>3. v = WhereOnCrum(i, y) /\ w = WhereOnCrum(i, end)
      BY DEF WhereOnCrum
    <3> HIDE DEF l, r, v, w
    <3>4. /\ v \in {TOMYLEFT, ONMYLEFTBORDER, THRUME, ONMYRIGHTBORDER, TOMYRIGHT}
          /\ v = ONMYRIGHTBORDER <=> y = r
          /\ v = TOMYRIGHT <=> Before(r, y)
      BY <1>7, <3>2, IntervalIs DEF v
    <3>5. /\ w \in {TOMYLEFT, ONMYLEFTBORDER, THRUME, ONMYRIGHTBORDER, TOMYRIGHT}
          /\ w = TOMYLEFT <=> Before(end, l)
          /\ w = ONMYLEFTBORDER <=> end = l
      BY <1>7, <3>2, IntervalIs DEF w
    <3>6. v < ONMYRIGHTBORDER <=> ~(v = ONMYRIGHTBORDER) /\ ~(v = TOMYRIGHT)
      BY <3>4 DEF TOMYLEFT, ONMYLEFTBORDER, THRUME, ONMYRIGHTBORDER, TOMYRIGHT
    <3>7. w > ONMYLEFTBORDER <=> ~(w = TOMYLEFT) /\ ~(w = ONMYLEFTBORDER)
      BY <3>5 DEF TOMYLEFT, ONMYLEFTBORDER, THRUME, ONMYRIGHTBORDER, TOMYRIGHT
    <3>8. v < ONMYRIGHTBORDER <=> ~NotAfter(r, y)
      BY <3>4, <3>6 DEF NotAfter
    <3>9. w > ONMYLEFTBORDER <=> ~NotAfter(end, l)
      BY <3>5, <3>7 DEF NotAfter
    <3>10. (v < ONMYRIGHTBORDER <=> Before(y, r)) /\ (w > ONMYLEFTBORDER <=> Before(l, end))
      BY <1>7, <3>2, <3>8, <3>9, NotAfterIs
    <3> QED  BY <2>2, <3>3, <3>10 DEF l, r
  <2> QED  BY <2>1, <2>2
<1>10. In(m)
  <2>1. ASSUME ~Last(m) PROVE Before(y, granf[m + 1].isa)
    <3>1. m + 1 \in DOMAIN granf /\ m < m + 1
      BY <1>1, <2>1 DEF Last
    <3>2. NotAfter(End(c), granf[m + 1].isa) /\ granf[m + 1].isa \in Number
      BY <1>1, <3>1 DEF c
    <3>3. Before(y, End(c))
      BY <1>7, BeforeNotAfter
    <3> QED  BY <1>7, <3>2, <3>3, BeforeNotAfter
  <2> QED  BY <1>8, <1>9, <2>1 DEF a
<1>11. ASSUME NEW i \in DOMAIN granf, i > m PROVE ~In(i)
  <2>1. NotAfter(End(c), granf[i].isa) /\ granf[i].isa \in Number
    BY <1>1, <1>11 DEF c
  <2>2. NotAfter(end, granf[i].isa)
    BY <1>7, <2>1, BeforeTransitive DEF NotAfter
  <2>3. ~Before(granf[i].isa, end)
    BY <1>7, <2>1, <2>2, NotAfterIs
  <2> QED  BY <1>9, <2>3
<1>12. ASSUME NEW i \in DOMAIN granf, i < m PROVE ~In(i)
  <2>1. ~Last(i) /\ i + 1 \in DOMAIN granf /\ (i + 1 = m \/ i + 1 < m)
    BY <1>1, <1>12 DEF Last
  <2>2. granf[i + 1].isa \in Number /\ NotAfter(granf[i + 1].isa, a)
    BY <1>1, <2>1 DEF NotAfter, a
  <2>3. NotAfter(granf[i + 1].isa, y)
    BY <1>5, <1>7, <2>2, BeforeTransitive DEF NotAfter
  <2>4. ~Before(y, granf[i + 1].isa)
    BY <1>7, <2>2, <2>3, NotAfterIs
  <2> QED  BY <1>9, <2>1, <2>4
<1>13. Collected(y) = {i \in DOMAIN granf : In(i)}
  BY DEF Collected, Step, end
<1> HIDE DEF In
<1>14. \A i \in DOMAIN granf : i = m \/ i > m \/ i < m
  BY <1>1
<1>15. Collected(y) = {m}
  BY <1>10, <1>11, <1>12, <1>13, <1>14
<1> QED  BY <1>15 DEF y, a

LEMMA PermanentIs == GranfInv => Permanent
<1> SUFFICES ASSUME GranfInv, NEW g \in given
             PROVE  IF g.kind = "char"
                    THEN \E i \in DOMAIN granf :
                            /\ Collected(g.isa) = {i}
                            /\ granf[i].infotype = "GRANTEXT"
                            /\ \E k \in DOMAIN granf[i].text :
                                  /\ granf[i].text[k] = g.char
                                  /\ Step(granf[i].isa, k - 1) = g.isa
                    ELSE /\ isaexistsgr(g.isa)
                         /\ granf[FindCrum(g.isa)].infotype = "GRANORGL"
  BY DEF Permanent, Step
<1>1. Crums(granf) /\ Holds(granf, g)
  BY DEF GranfInv
<1>2. CASE g.kind = "char"
  <2>1. PICK m \in DOMAIN granf :
           /\ Text(granf[m])
           /\ \E k \in DOMAIN granf[m].text :
                 granf[m].text[k] = g.char /\ Step(granf[m].isa, k - 1) = g.isa
    BY <1>1, <1>2 DEF Holds
  <2>2. Collected(g.isa) = {m}
    BY <1>1, <2>1, CollectedIs
  <2> QED  BY <1>2, <2>1, <2>2 DEF Text
<1>3. CASE g.kind # "char"
  <2>1. PICK m \in DOMAIN granf : granf[m].infotype = "GRANORGL" /\ granf[m].isa = g.isa
    BY <1>1, <1>3 DEF Holds
  <2>2. g.isa \in Number /\ NotAfter(granf[m].isa, g.isa)
    BY <1>1, <2>1, CrumsAre DEF NotAfter
  <2>3. \A j \in DOMAIN granf : j > m => Before(g.isa, granf[j].isa)
    BY <1>1, <2>1 DEF Crums, Sorted
  <2>4. FindCrum(g.isa) = m
    BY <1>1, <2>2, <2>3, FoundIs
  <2> QED  BY <1>3, <2>1, <2>4 DEF isaexistsgr
<1> QED  BY <1>2, <1>3

LEMMA GranfInvAlways == Spec => []GranfInv
<1>1. GranfInv /\ [Next]_vars => GranfInv'
  BY GranfInvStep
<1> QED  BY <1>1, GranfInvInit, PTL DEF Spec

\* The state stays well-formed, and no text outgrows the GRANTEXTLENGTH
\* characters of its crum (insert.c:86), whatever front ends ask for.
THEOREM TypeCorrect == Spec => []TypeOK
  BY GranfInvAlways, TypeOKIs, PTL

\* The crums stay in the order of their addresses and no text reaches into the
\* next crum, for any accounts and documents and any size of the crums.
THEOREM InOrderHolds == Spec => []InOrder
  BY GranfInvAlways, InOrderIs, PTL

\* Every address is under what it was asked for, at the depth of its kind.
THEOREM WellPlacedHolds == Spec => []WellPlaced
  BY GranfInvAlways, WellPlacedIs, PTL

\* What was given an address stays at it: a search for a character comes to the
\* one crum that has it, a search for a document or link to its orgl.
THEOREM PermanentHolds == Spec => []Permanent
  BY GranfInvAlways, PermanentIs, PTL

\* No step gives out an address that was given out before: a new document,
\* version, node or link, and every character inserted, is at a place that is
\* free in the row.
THEOREM NeverTwiceHolds == Spec => NeverTwice
<1>1. GranfInv /\ [Next]_vars =>
        [\A new \in latest', old \in given : new \notin given => new.isa # old.isa]_vars
  BY GranfInvStep DEF NoneTwice
<1> QED  BY <1>1, GranfInvAlways, PTL DEF Spec, NeverTwice
=============================================================================
