----------------------------- MODULE PoomProofs -----------------------------
(***************************************************************************)
(* The crums of a document, whatever editing has made of them, say at each *)
(* V-address what Document says, for any number of places of a tumbler and *)
(* any length of the document.                                             *)
(*                                                                         *)
(* A tree is read as a set of crums C, each with its space, place and      *)
(* first number (Fine); of C is said which text and links it holds (Says). *)
(* For every operation of Poom a lemma says what becomes of the crums, and *)
(* one named ...Text what they then say: With, Inlaid, Without, Turned,    *)
(* Swapped, Linking, Unlinked and MovedUp are the sequences and functions  *)
(* for that.  PoomInv says that the crums hold what the document reads,    *)
(* and nothing that was not made.  In the end these sequences are shown to *)
(* be those of Document.                                                   *)
(***************************************************************************)
EXTENDS Poom, TumbleProofs, FiniteSetTheorems

-----------------------------------------------------------------------------
(* Addresses in a document, and displacements in its tree. *)

Digit == Nat \ {0}

\* A tumbler with at most two digits.
Two(e, x, y) ==
    [sign |-> 0, exp |-> e,
     mantissa |-> [q \in Place |-> IF q = 0 THEN x ELSE IF q = 1 THEN y ELSE 0]]

\* A displacement of k places.
Off(k) == IF k = 0 THEN ZEROTUMBLER ELSE Width(k)

LEMMA TwoPlaces == 0 \in Place /\ 1 \in Place /\ NPLACES \in Nat /\ NPLACES > 1
BY PlacesAssumption, PoomAssumption DEF Place

LEMMA PlaceCases ==
    ASSUME NEW q \in Place
    PROVE  q \in Nat /\ (q = 0 \/ q = 1 \/ q > 1)
BY PlaceIs

LEMMA TwoIs ==
    ASSUME NEW e \in Int, e <= 0, NEW x \in Digit, NEW y \in Nat
    PROVE  /\ Two(e, x, y) \in Number /\ Two(e, x, y) \in tumbler
           /\ ~iszerotumbler(Two(e, x, y))
           /\ Two(e, x, y).exp = e /\ Two(e, x, y).sign = 0
           /\ Two(e, x, y).mantissa[0] = x /\ Two(e, x, y).mantissa[1] = y
           /\ \A q \in Place : q > 1 => Two(e, x, y).mantissa[q] = 0
<1> DEFINE m == [q \in Place |-> IF q = 0 THEN x ELSE IF q = 1 THEN y ELSE 0]
           a == Two(e, x, y)
<1>1. a = [sign |-> 0, exp |-> e, mantissa |-> m]
  BY DEF Two
<1>2. m[0] = x /\ m[1] = y /\ \A q \in Place : q > 1 => m[q] = 0
  BY TwoPlaces
<1>3. m \in [Place -> Int] /\ \A q \in Place : m[q] >= 0
  BY DEF Digit
<1> HIDE DEF m, a
<1>4. a.sign = 0 /\ a.exp = e /\ a.mantissa = m
  BY <1>1
<1>5. a \in tumbler
  BY <1>1, <1>3 DEF tumbler
<1>6. x # 0
  BY DEF Digit
<1>7. tumblercheck(a)
  BY <1>2, <1>3, <1>4, <1>6 DEF tumblercheck
<1>8. ~iszerotumbler(a)
  BY <1>2, <1>4, <1>6 DEF iszerotumbler
<1>9. a \in Number
  BY <1>4, <1>5, <1>7 DEF Number
<1> QED  BY <1>2, <1>4, <1>5, <1>8, <1>9 DEF a

\* A number is told by its digits.
LEMMA TwoOnly ==
    ASSUME NEW a \in Number, NEW e \in Int, e <= 0, NEW x \in Digit, NEW y \in Nat,
           a.exp = e, a.mantissa[0] = x, a.mantissa[1] = y,
           \A q \in Place : q > 1 => a.mantissa[q] = 0
    PROVE  a = Two(e, x, y)
<1> DEFINE b == Two(e, x, y)
<1>1. /\ b \in Number /\ b.exp = e /\ b.mantissa[0] = x /\ b.mantissa[1] = y
      /\ \A q \in Place : q > 1 => b.mantissa[q] = 0
  BY TwoIs
<1> HIDE DEF b
<1>2. ASSUME NEW q \in Place
      PROVE  a.mantissa[q] = b.mantissa[q]
  BY <1>1, PlaceCases
<1>3. a = b
  BY <1>1, <1>2, SameNumber
<1> QED  BY <1>3 DEF b

LEMMA WidthIs ==
    ASSUME NEW k \in Digit
    PROVE  Width(k) = Two(-1, k, 0)
<1> DEFINE m == [p \in Place |-> 0]
<1>1. Width(k) = [ZEROTUMBLER EXCEPT !.exp = -1, !.mantissa[0] = k]
  BY ZeroIsNumber DEF Width, tumblerincrement
<1>2. ZEROTUMBLER = [sign |-> 0, exp |-> 0, mantissa |-> m]
  BY DEF ZEROTUMBLER
<1> DEFINE n == [m EXCEPT ![0] = k]
<1>3. n = [q \in Place |-> IF q = 0 THEN k ELSE IF q = 1 THEN 0 ELSE 0]
  BY TwoPlaces
<1> HIDE DEF m
<1>4. Width(k) = [sign |-> 0, exp |-> -1, mantissa |-> n]
  BY <1>1, <1>2
<1> QED  BY <1>3, <1>4 DEF Two

LEMMA SpaceIs ==
    ASSUME NEW t \in Digit, NEW z \in Int, z = 0
    PROVE  tumblerincrement(ZEROTUMBLER, z, t) = Two(0, t, 0)
<1> DEFINE m == [p \in Place |-> 0]
           a == tumblerincrement(ZEROTUMBLER, z, t)
<1>1. a = [ZEROTUMBLER EXCEPT !.exp = 0, !.mantissa[0] = t]
  <2>1. \A i \in Int : -i = 0 - i
    OBVIOUS
  <2>2. 0 - z = 0
    OBVIOUS
  <2>3. -z = 0
    BY <2>1, <2>2
  <2> QED  BY <2>3, ZeroIsNumber DEF tumblerincrement
<1>2. ZEROTUMBLER = [sign |-> 0, exp |-> 0, mantissa |-> m]
  BY DEF ZEROTUMBLER
<1> DEFINE n == [m EXCEPT ![0] = t]
<1>3. n = [q \in Place |-> IF q = 0 THEN t ELSE IF q = 1 THEN 0 ELSE 0]
  BY TwoPlaces
<1> HIDE DEF m, a
<1>4. a = [sign |-> 0, exp |-> 0, mantissa |-> n]
  BY <1>1, <1>2
<1> QED  BY <1>3, <1>4 DEF Two, a

LEMMA StoriesTwo ==
    ASSUME NEW x \in Digit, NEW y \in Nat
    PROVE  nstories(Two(0, x, y)) = IF y = 0 THEN 1 ELSE 2
<1> DEFINE a == Two(0, x, y)
<1>1. /\ a \in tumbler /\ ~iszerotumbler(a) /\ a.mantissa[0] = x /\ a.mantissa[1] = y
      /\ \A q \in Place : q > 1 => a.mantissa[q] = 0
  BY TwoIs
<1> HIDE DEF a
<1>2. CASE y = 0
  <2>1. \A q \in Place : q > 0 => a.mantissa[q] = 0
    BY <1>1, <1>2, PlaceCases
  <2>2. a.mantissa[0] # 0
    BY <1>1 DEF Digit
  <2>3. nstories(a) = 0 + 1
    BY <1>1, <2>1, <2>2, TwoPlaces, StoriesAre
  <2> QED  BY <1>2, <2>3 DEF a
<1>3. CASE y # 0
  <2>3. nstories(a) = 1 + 1
    BY <1>1, <1>3, TwoPlaces, StoriesAre
  <2> QED  BY <1>3, <2>3 DEF a
<1> QED  BY <1>2, <1>3

\* Adding to the last digit, or to the one behind it.
LEMMA IncrementTwo ==
    ASSUME NEW x \in Digit, NEW y \in Nat, NEW s \in Nat, NEW n \in Nat,
           IF y = 0 THEN s = 1 ELSE s = 0
    PROVE  tumblerincrement(Two(0, x, y), s, n) = Two(0, x, y + n)
<1> DEFINE a == Two(0, x, y)
           b == tumblerincrement(a, s, n)
<1>1. /\ a \in Number /\ ~iszerotumbler(a) /\ a.exp = 0 /\ a.mantissa[0] = x /\ a.mantissa[1] = y
      /\ \A q \in Place : q > 1 => a.mantissa[q] = 0
  <2>1. 0 \in Int /\ 0 <= 0
    OBVIOUS
  <2>2. Two(0, x, y) \in Number /\ ~iszerotumbler(Two(0, x, y)) /\ Two(0, x, y).exp = 0
    BY <2>1, TwoIs
  <2>3. Two(0, x, y).mantissa[0] = x /\ Two(0, x, y).mantissa[1] = y
    BY <2>1, TwoIs
  <2>4. \A q \in Place : q > 1 => Two(0, x, y).mantissa[q] = 0
    BY <2>1, TwoIs
  <2> QED  BY <2>2, <2>3, <2>4
<1>2. nstories(a) - 1 + s = 1
  BY StoriesTwo
<1> HIDE DEF a
<1>3. Increments(a, s)
  BY <1>2, TwoPlaces DEF Increments
<1>4. /\ b \in Number /\ b.exp = a.exp
      /\ \A p \in Place : b.mantissa[p] =
            IF p = nstories(a) - 1 + s THEN a.mantissa[p] + n ELSE a.mantissa[p]
  BY <1>1, <1>3, IncrementIs
<1> HIDE DEF b
<1>5. b.mantissa[0] = x /\ b.mantissa[1] = y + n /\ \A q \in Place : q > 1 => b.mantissa[q] = 0
  BY <1>1, <1>2, <1>4, TwoPlaces
<1>6. b = Two(0, x, y + n)
  BY <1>1, <1>4, <1>5, TwoOnly
<1> QED  BY <1>6 DEF a, b

LEMMA AtIs ==
    ASSUME NEW t \in Digit, NEW p \in Digit
    PROVE  At(t, p) = Two(0, t, p)
<1>1. tumblerincrement(Two(0, t, 0), 1, p) = Two(0, t, 0 + p)
  BY IncrementTwo DEF Digit
<1>2. tumblerincrement(ZEROTUMBLER, 0, t) = Two(0, t, 0)
  BY SpaceIs
<1> QED  BY <1>1, <1>2 DEF At, Digit

LEMMA OffIs ==
    ASSUME NEW k \in Nat
    PROVE  /\ Off(k) \in Number
           /\ Off(k) = IF k = 0 THEN ZEROTUMBLER ELSE Two(-1, k, 0)
<1>1. k # 0 => Width(k) = Two(-1, k, 0) /\ Two(-1, k, 0) \in Number
  <2>1. ASSUME k # 0 PROVE k \in Digit
    BY <2>1 DEF Digit
  <2> QED  BY <2>1, WidthIs, TwoIs
<1> QED  BY <1>1, ZeroIsNumber DEF Off

LEMMA WidthOff ==
    ASSUME NEW k \in Digit
    PROVE  /\ Width(k) = Off(k) /\ Width(k) = Two(-1, k, 0) /\ Width(k) \in Number
           /\ ~iszerotumbler(Width(k))
<1>1. k # 0 /\ k \in Nat
  BY DEF Digit
<1>2. Two(-1, k, 0) \in Number /\ ~iszerotumbler(Two(-1, k, 0))
  BY TwoIs
<1> QED  BY <1>1, <1>2, WidthIs DEF Off

LEMMA AtNumber ==
    ASSUME NEW t \in Digit, NEW p \in Digit
    PROVE  /\ At(t, p) \in Number /\ At(t, p) \in tumbler
           /\ ~iszerotumbler(At(t, p)) /\ At(t, p).exp = 0
           /\ At(t, p).mantissa[0] = t /\ At(t, p).mantissa[1] = p
           /\ \A q \in Place : q > 1 => At(t, p).mantissa[q] = 0
<1>1. p \in Nat
  BY DEF Digit
<1> QED  BY <1>1, TwoIs, AtIs

\* Addresses are in the order of their spaces and places.
LEMMA AtBefore ==
    ASSUME NEW t \in Digit, NEW p \in Digit, NEW u \in Digit, NEW q \in Digit
    PROVE  /\ At(t, p) = At(u, q) <=> t = u /\ p = q
           /\ Before(At(t, p), At(u, q)) <=> t < u \/ (t = u /\ p < q)
<1> DEFINE a == At(t, p)
           b == At(u, q)
<1>1. /\ a \in Number /\ ~iszerotumbler(a) /\ a.exp = 0
      /\ a.mantissa[0] = t /\ a.mantissa[1] = p /\ \A i \in Place : i > 1 => a.mantissa[i] = 0
  BY AtNumber
<1>2. /\ b \in Number /\ ~iszerotumbler(b) /\ b.exp = 0
      /\ b.mantissa[0] = u /\ b.mantissa[1] = q /\ \A i \in Place : i > 1 => b.mantissa[i] = 0
  BY AtNumber
<1>3. a = b <=> t = u /\ p = q
  <2>1. ASSUME t = u, p = q
        PROVE  a = b
    BY <2>1
  <2> HIDE DEF a, b
  <2> QED  BY <1>1, <1>2, <2>1
<1> HIDE DEF a, b
<1>4. \A i \in Place : i = 0 \/ i = 1 \/ i > 1
  BY PlaceIs
<1>5. FirstBelow(a, b, 0) <=> t < u
  BY <1>1, <1>2, PlaceIs DEF FirstBelow
<1>6. FirstBelow(a, b, 1) <=> t = u /\ p < q
  BY <1>1, <1>2, <1>4, PlaceIs, TwoPlaces DEF FirstBelow
<1>7. ASSUME NEW i \in Place, i > 1
      PROVE  ~FirstBelow(a, b, i)
  BY <1>1, <1>2, <1>7 DEF FirstBelow
<1>8. (\E i \in Place : FirstBelow(a, b, i)) <=> t < u \/ (t = u /\ p < q)
  BY <1>4, <1>5, <1>6, <1>7, TwoPlaces
<1>9. Before(a, b) <=> t < u \/ (t = u /\ p < q)
  BY <1>1, <1>2, <1>8 DEF Before
<1> QED  BY <1>3, <1>9 DEF a, b

\* A width added to an address, to another, and an address to an address.
LEMMA AddTwo ==
    ASSUME NEW e \in {0, -1}, NEW x \in Digit, NEW y \in Nat,
           NEW f \in {0, -1}, NEW u \in Digit, NEW v \in Nat,
           f <= e
    PROVE  /\ e = f => tumbleradd(Two(e, x, y), Two(f, u, v)) = Two(e, x + u, v)
           /\ e # f /\ v = 0 => tumbleradd(Two(e, x, y), Two(f, u, v)) = Two(e, x, y + u)
<1> DEFINE a == Two(e, x, y)
           b == Two(f, u, v)
           c == tumbleradd(a, b)
<1>0. e \in Int /\ e <= 0 /\ f \in Int /\ f <= 0
  OBVIOUS
<1>1. /\ a \in Number /\ ~iszerotumbler(a) /\ a.exp = e
      /\ a.mantissa[0] = x /\ a.mantissa[1] = y /\ \A i \in Place : i > 1 => a.mantissa[i] = 0
  BY <1>0, TwoIs
<1>2. /\ b \in Number /\ ~iszerotumbler(b) /\ b.exp = f
      /\ b.mantissa[0] = u /\ b.mantissa[1] = v /\ \A i \in Place : i > 1 => b.mantissa[i] = 0
  BY <1>0, TwoIs
<1> HIDE DEF a, b
<1>3. /\ c \in Number /\ c.exp = e
      /\ \A p \in Place : c.mantissa[p] =
                       IF p < e - f THEN a.mantissa[p]
                       ELSE IF p = e - f THEN a.mantissa[p] + b.mantissa[0]
                       ELSE b.mantissa[p - (e - f)]
  <2>1. c = absadd(a, b)
    BY <1>1, <1>2, AddIs
  <2>2. a.exp >= b.exp
    BY <1>1, <1>2
  <2> HIDE DEF c
  <2> QED  BY <1>1, <1>2, <2>1, <2>2, AbsaddIs
<1> HIDE DEF c
<1>4. ASSUME e = f
      PROVE  c = Two(e, x + u, v)
  <2>1. c.mantissa[0] = x + u /\ c.mantissa[1] = v
    BY <1>1, <1>2, <1>3, <1>4, TwoPlaces
  <2>2. ASSUME NEW p \in Place, p > 1
        PROVE  c.mantissa[p] = 0
    BY <1>2, <1>3, <1>4, <2>2, PlaceIs
  <2>3. x + u \in Digit
    BY DEF Digit
  <2> QED  BY <1>0, <1>3, <2>1, <2>2, <2>3, TwoOnly
<1>5. ASSUME e # f, v = 0
      PROVE  c = Two(e, x, y + u)
  <2>0. e - f = 1
    BY <1>5
  <2>1. c.mantissa[0] = x /\ c.mantissa[1] = y + u
    BY <1>1, <1>2, <1>3, <2>0, TwoPlaces
  <2>2. ASSUME NEW p \in Place, p > 1
        PROVE  c.mantissa[p] = 0
    <3>1. p \in Int /\ p - 1 \in Place /\ p - 1 > 0
      BY <2>2, TwoPlaces DEF Place
    <3>2. c.mantissa[p] = b.mantissa[p - 1]
      BY <1>3, <2>0, <2>2, <3>1
    <3>3. p - 1 = 1 \/ p - 1 > 1
      BY <3>1
    <3> QED  BY <1>2, <1>5, <3>1, <3>2, <3>3
  <2>3. y + u \in Nat
    BY DEF Digit
  <2> QED  BY <1>0, <1>3, <2>1, <2>2, <2>3, TwoOnly
<1> QED  BY <1>4, <1>5 DEF a, b, c

\* What is taken off a greater number, by subtracting or by adding the negated.
LEMMA SubIsStrong ==
    ASSUME NEW a \in Number, NEW b \in Number, ~iszerotumbler(a), Before(a, b)
    PROVE  /\ strongsub(b, negated(a)) \in Number
           /\ tumblersub(b, a) = strongsub(b, negated(a))
           /\ tumbleradd(b, negated(a)) = strongsub(b, negated(a))
<1> DEFINE w == strongsub(b, negated(a))
<1>1. b \in tumbler /\ a.sign = 0 /\ b.sign = 0 /\ ~iszerotumbler(b) /\ a # b
  BY NumberType, BeforeIrreflexive DEF Before
<1>2. w \in Number /\ ~iszerotumbler(w)
  BY StrongsubIs
<1>3. ~iszerotumbler(negated(a)) /\ negated(a).sign = 1 /\ negated(a) \in tumbler
      /\ negated(a).exp = a.exp /\ negated(a).mantissa = a.mantissa
  BY <1>1, NumberType DEF negated, iszerotumbler, tumbler
<1>4. abscmp(b, negated(a)) = GREATER
  <2>1. a.exp < b.exp \/ (a.exp = b.exp /\ \E p \in Place : FirstBelow(a, b, p))
    BY <1>1 DEF Before
  <2>2. \A p \in Place : FirstBelow(a, b, p) <=> FirstBelow(negated(a), b, p)
    BY <1>3 DEF FirstBelow
  <2> QED  BY <1>1, <1>3, <2>1, <2>2, AbscmpIs
<1> HIDE DEF w
<1>5. [w EXCEPT !.sign = 0] = w
  BY <1>2, NumberType
<1>6. tumblerjustify(w) = w /\ justifiedIfZero(w) = w
  BY <1>2, NumberType, JustifyKeeps DEF iszerotumbler, justifiedIfZero
<1>7. tumbleradd(b, negated(a)) = justifiedIfZero([w EXCEPT !.sign = 0])
  BY <1>1, <1>3, <1>4 DEF tumbleradd, w
<1>8. tumblersub(b, a) = tumblerjustify(tumbleradd(b, negated(a)))
  BY <1>1 DEF tumblersub, tumblereq
<1> QED  BY <1>2, <1>5, <1>6, <1>7, <1>8 DEF w

\* The digit at which they differ goes to the front.
LEMMA StrongTwo ==
    ASSUME NEW a \in Number, NEW b \in Number, NEW k \in {0, 1}, a.exp = b.exp,
           \A p \in Place : p < k => b.mantissa[p] = a.mantissa[p],
           a.mantissa[k] < b.mantissa[k],
           \A p \in Place : p > 1 => b.mantissa[p] = 0
    PROVE  LET w == strongsub(b, negated(a))
           IN  /\ w.exp = b.exp - k
               /\ w.mantissa[0] = b.mantissa[k] - a.mantissa[k]
               /\ w.mantissa[1] = IF k = 0 THEN b.mantissa[1] ELSE 0
               /\ \A p \in Place : p > 1 => w.mantissa[p] = 0
<1> DEFINE n == negated(a)
           w == strongsub(b, n)
<1>1. /\ a.exp \in Int /\ b.exp \in Int
      /\ \A p \in Place : a.mantissa[p] \in Nat /\ b.mantissa[p] \in Nat /\ p \in Nat
      /\ a.mantissa \in [Place -> Int] /\ b.mantissa \in [Place -> Int]
      /\ b \in tumbler
  BY NumberType, PlaceIs
<1>2. n \in tumbler /\ n.exp = a.exp /\ n.mantissa = a.mantissa
  BY NumberType DEF negated, tumbler
<1>3. k \in Place /\ k \in Nat
  BY TwoPlaces
<1> HIDE DEF n
<1>4. b.mantissa # n.mantissa
  BY <1>1, <1>2, <1>3
<1>5. FirstDifference(b, n) = k
  <2> DEFINE d == FirstDifference(b, n)
  <2>1. /\ d \in Place /\ b.mantissa[d] # a.mantissa[d]
        /\ \A j \in Place : j < d => b.mantissa[j] = a.mantissa[j]
    BY <1>1, <1>2, <1>4, FirstDifferenceIs
  <2> HIDE DEF d
  <2>2. d < k \/ d = k \/ k < d
    BY <1>1, <1>3, <2>1
  <2>3. ~(d < k)
    BY <2>1
  <2>4. ~(k < d)
    BY <1>1, <1>3, <2>1
  <2>5. d = k
    BY <2>2, <2>3, <2>4
  <2> QED  BY <2>5 DEF d
<1> DEFINE f == From(b.mantissa, k)
           m == [f EXCEPT ![0] = b.mantissa[k] - a.mantissa[k]]
<1>6. w = [sign |-> 0, exp |-> b.exp - k, mantissa |-> m]
  BY <1>1, <1>2, <1>4, <1>5 DEF strongsub
<1>7. \A p \in Place : f[p] = IF p + k \in Place THEN b.mantissa[p + k] ELSE 0
  BY DEF From
<1>8. f = [p \in Place |-> f[p]]
  BY DEF From
<1> HIDE DEF f
<1>9. m[0] = b.mantissa[k] - a.mantissa[k] /\ \A p \in Place : p # 0 => m[p] = f[p]
  BY <1>8, TwoPlaces
<1> HIDE DEF m
<1>10. w.exp = b.exp - k /\ w.mantissa = m
  BY <1>6
<1> HIDE DEF w
<1>11. f[1] = IF k = 0 THEN b.mantissa[1] ELSE 0
  <2>1. CASE k = 0
    BY <1>7, <2>1, TwoPlaces
  <2>2. CASE k = 1
    <3>1. 2 \in Place => b.mantissa[2] = 0
      OBVIOUS
    <3>2. f[1] = IF 1 + 1 \in Place THEN b.mantissa[1 + 1] ELSE 0
      BY <1>7, <2>2, TwoPlaces
    <3> QED  BY <2>2, <3>1, <3>2
  <2> QED  BY <2>1, <2>2
<1>12. ASSUME NEW p \in Place, p > 1
       PROVE  f[p] = 0
  <2>1. p \in Nat /\ p + k > 1
    BY <1>1, <1>3, <1>12
  <2> QED  BY <1>7, <1>12, <2>1
<1>13. \A p \in Place : p > 1 => p # 0 /\ p \in Nat
  BY <1>1
<1> QED  BY <1>9, <1>10, <1>11, <1>12, <1>13, TwoPlaces DEF w, n

\* The lower of two numbers taken off.
Takes(b, a, c) == tumblersub(b, a) = c /\ tumbleradd(b, negated(a)) = c

LEMMA SubTwo ==
    ASSUME NEW e \in {0, -1}, NEW x \in Digit, NEW y \in Nat, NEW u \in Digit, NEW v \in Nat
    PROVE  /\ u < x => Takes(Two(e, x, y), Two(e, u, v), Two(e, x - u, y))
           /\ u = x /\ v < y => Takes(Two(e, x, y), Two(e, u, v), Two(e - 1, y - v, 0))
<1> DEFINE b == Two(e, x, y)
           a == Two(e, u, v)
           w == strongsub(b, negated(a))
<1>0. e \in Int /\ e <= 0 /\ e - 1 \in Int /\ e - 1 <= 0 /\ x \in Nat /\ u \in Nat
  BY DEF Digit
<1>1. /\ b \in Number /\ ~iszerotumbler(b) /\ b.exp = e
      /\ b.mantissa[0] = x /\ b.mantissa[1] = y /\ \A i \in Place : i > 1 => b.mantissa[i] = 0
  BY <1>0, TwoIs
<1>2. /\ a \in Number /\ ~iszerotumbler(a) /\ a.exp = e
      /\ a.mantissa[0] = u /\ a.mantissa[1] = v /\ \A i \in Place : i > 1 => a.mantissa[i] = 0
  BY <1>0, TwoIs
<1>3. Takes(b, a, Two(e, x - u, y)) <=> Takes(Two(e, x, y), Two(e, u, v), Two(e, x - u, y))
  OBVIOUS
<1>4. Takes(b, a, Two(e - 1, y - v, 0)) <=>
          Takes(Two(e, x, y), Two(e, u, v), Two(e - 1, y - v, 0))
  OBVIOUS
<1> HIDE DEF a, b
<1>5. 0 \in Place /\ 1 \in Place /\ \A p \in Place : p < 1 => p = 0
  BY TwoPlaces, PlaceIs
<1>6. \A p \in Place : ~(p < 0)
  BY PlaceIs
<1>7. ASSUME u < x
      PROVE  Takes(b, a, Two(e, x - u, y))
  <2>1. a.mantissa[0] < b.mantissa[0]
    BY <1>1, <1>2, <1>7
  <2>2. Before(a, b)
    BY <1>1, <1>2, <1>5, <1>6, <2>1 DEF Before, FirstBelow
  <2>3. /\ w.exp = b.exp - 0
        /\ w.mantissa[0] = b.mantissa[0] - a.mantissa[0]
        /\ w.mantissa[1] = IF 0 = 0 THEN b.mantissa[1] ELSE 0
        /\ \A p \in Place : p > 1 => w.mantissa[p] = 0
    BY <1>1, <1>2, <1>6, <2>1, StrongTwo
  <2>4. w \in Number /\ tumblersub(b, a) = w /\ tumbleradd(b, negated(a)) = w
    BY <1>1, <1>2, <2>2, SubIsStrong
  <2> HIDE DEF w
  <2>5. x - u \in Digit /\ w.exp = e
    BY <1>0, <1>1, <1>7, <2>3 DEF Digit
  <2>6. w = Two(e, x - u, y)
    BY <1>0, <1>1, <1>2, <2>3, <2>4, <2>5, TwoOnly
  <2> QED  BY <2>4, <2>6 DEF Takes
<1>8. ASSUME u = x, v < y
      PROVE  Takes(b, a, Two(e - 1, y - v, 0))
  <2>1. a.mantissa[1] < b.mantissa[1] /\ a.mantissa[0] = b.mantissa[0]
    BY <1>1, <1>2, <1>8
  <2>2. Before(a, b)
    BY <1>1, <1>2, <1>5, <2>1 DEF Before, FirstBelow
  <2>a. \A p \in Place : p < 1 => b.mantissa[p] = a.mantissa[p]
    BY <1>5, <2>1
  <2>3. /\ w.exp = b.exp - 1
        /\ w.mantissa[0] = b.mantissa[1] - a.mantissa[1]
        /\ w.mantissa[1] = IF 1 = 0 THEN b.mantissa[1] ELSE 0
        /\ \A p \in Place : p > 1 => w.mantissa[p] = 0
    BY <1>1, <1>2, <2>1, <2>a, StrongTwo
  <2>4. w \in Number /\ tumblersub(b, a) = w /\ tumbleradd(b, negated(a)) = w
    BY <1>1, <1>2, <2>2, SubIsStrong
  <2> HIDE DEF w
  <2>5. y - v \in Digit /\ w.exp = e - 1
    BY <1>0, <1>1, <1>8, <2>3 DEF Digit
  <2>6. w = Two(e - 1, y - v, 0)
    BY <1>0, <1>1, <1>2, <2>3, <2>4, <2>5, TwoOnly
  <2> QED  BY <2>4, <2>6 DEF Takes
<1> QED  BY <1>3, <1>4, <1>7, <1>8

\* A width is too fine to be taken off an address.
LEMMA SubFine ==
    ASSUME NEW t \in Digit, NEW p \in Digit, NEW k \in Digit
    PROVE  Takes(At(t, p), Width(k), At(t, p))
<1> DEFINE a == Width(k)
           b == At(t, p)
<1>1. a \in Number /\ ~iszerotumbler(a) /\ a.exp = -1
  <2>1. Two(-1, k, 0).exp = -1
    BY TwoIs
  <2> QED  BY <2>1, WidthOff
<1>2. b \in Number /\ ~iszerotumbler(b) /\ b.exp = 0
  BY AtNumber
<1> HIDE DEF a, b
<1>3. Before(a, b)
  BY <1>1, <1>2 DEF Before
<1>4. strongsub(b, negated(a)) = b
  BY <1>1, <1>2 DEF strongsub, negated
<1>5. tumblersub(b, a) = b /\ tumbleradd(b, negated(a)) = b
  BY <1>1, <1>2, <1>3, <1>4, SubIsStrong
<1>6. Takes(b, a, b)
  BY <1>5 DEF Takes
<1> QED  BY <1>6 DEF a, b

\* What a number takes off itself.
LEMMA SubSelf ==
    ASSUME NEW a \in Number
    PROVE  tumblersub(a, a) = ZEROTUMBLER
<1>1. CASE iszerotumbler(a)
  BY <1>1, NumberType, JustifyZero DEF tumblersub
<1>2. CASE ~iszerotumbler(a)
  BY <1>2, JustifyZero DEF tumblersub, tumblereq
<1> QED  BY <1>1, <1>2

LEMMA SubZero ==
    ASSUME NEW a \in Number
    PROVE  tumblersub(a, ZEROTUMBLER) = a /\ tumbleradd(a, ZEROTUMBLER) = a
<1>1. tumblerjustify(a) = a
  <2>1. CASE iszerotumbler(a)
    BY <2>1, NumberType, JustifyZero
  <2>2. CASE ~iszerotumbler(a)
    BY <2>2, NumberType, JustifyKeeps DEF iszerotumbler
  <2> QED  BY <2>1, <2>2
<1> QED  BY <1>1, ZeroIsNumber, AddIs DEF tumblersub

LEMMA AddSelfNegated ==
    ASSUME NEW k \in Digit
    PROVE  tumbleradd(Width(k), negated(Width(k))) = ZEROTUMBLER
<1> DEFINE a == Width(k)
           n == negated(a)
<1>1. a = Two(-1, k, 0) /\ a \in Number /\ ~iszerotumbler(a)
  BY WidthOff
<1>2. a.exp = -1 /\ a.mantissa[0] = k /\ a.mantissa[1] = 0
      /\ \A p \in Place : p > 1 => a.mantissa[p] = 0
  BY <1>1, TwoIs
<1> HIDE DEF a
<1>3. a \in tumbler /\ a.sign = 0
  BY <1>1, NumberType
<1>4. n \in tumbler /\ n.exp = -1 /\ n.mantissa = a.mantissa /\ n.sign = 1
      /\ ~iszerotumbler(n)
  BY <1>1, <1>2, <1>3 DEF negated, tumbler, iszerotumbler
<1> HIDE DEF n
<1>5. abscmp(a, n) = EQUAL
  BY <1>2, <1>3, <1>4, AbscmpIs
<1> DEFINE w == weaksub(n, a)
           z == [w EXCEPT !.sign = 1]
           m == [p \in Place |-> IF p < 0 THEN n.mantissa[p]
                                       ELSE IF p = 0 THEN n.mantissa[p] - a.mantissa[0]
                                       ELSE 0]
<1>6. w = [sign |-> 0, exp |-> -1, mantissa |-> m]
  <2>1. n.exp - a.exp = 0
    BY <1>2, <1>4
  <2> QED  BY <1>2, <1>4, <2>1 DEF weaksub
<1>7. m = [p \in Place |-> 0]
  <2>1. n.mantissa[0] - a.mantissa[0] = 0
    BY <1>2, <1>4 DEF Digit
  <2>2. \A p \in Place : ~(p < 0)
    BY PlaceIs
  <2>3. \A p \in Place : p = 0 => n.mantissa[p] - a.mantissa[0] = 0
    BY <2>1
  <2> QED  BY <2>2, <2>3
<1> HIDE DEF m, w
<1> DEFINE zeros == [p \in Place |-> 0]
<1>a. m = zeros
  BY <1>7
<1>b. ZEROTUMBLER = [sign |-> 0, exp |-> 0, mantissa |-> zeros]
  BY DEF ZEROTUMBLER
<1>c. zeros[0] = 0 /\ {p \in Place : zeros[p] # 0} = {}
  BY TwoPlaces
<1> HIDE DEF zeros
<1>8. z = [sign |-> 1, exp |-> -1, mantissa |-> zeros]
  BY <1>6, <1>a
<1> HIDE DEF z
<1>9. tumbleradd(a, n) = justifiedIfZero(z)
  BY <1>1, <1>3, <1>4, <1>5 DEF tumbleradd, z, w, EQUAL, GREATER
<1>10. z.mantissa = zeros
  BY <1>8
<1>11. justifiedIfZero(z) = tumblerjustify(z)
  BY <1>10, <1>c DEF justifiedIfZero
<1>12. {p \in Place : z.mantissa[p] # 0} = {}
  BY <1>10, <1>c
<1>13. tumblerjustify(z) = [z EXCEPT !.exp = 0, !.sign = 0]
  BY <1>12 DEF tumblerjustify
<1>14. [z EXCEPT !.exp = 0, !.sign = 0] = ZEROTUMBLER
  <2> DEFINE z1 == [z EXCEPT !.exp = 0]
  <2>1. z1 = [sign |-> 1, exp |-> 0, mantissa |-> zeros]
    BY <1>8
  <2> HIDE DEF z1
  <2>2. [z1 EXCEPT !.sign = 0] = ZEROTUMBLER
    BY <1>b, <2>1
  <2> QED  BY <2>2 DEF z1
<1> QED  BY <1>9, <1>11, <1>13, <1>14 DEF a, n

\* The displacement of t.p from an apex at s.m.
Disp(s, m, t, p) == IF t = s THEN Off(p - m) ELSE At(1, p)

\* The places of a document: characters in space 1 and links in space 2.
Space == {1, 2}

\* t.p is at s.m or behind.
Behind(s, m, t, p) == s < t \/ (s = t /\ m <= p)

LEMMA SpaceDigit == Space \subseteq Digit /\ 1 \in Digit /\ 2 \in Digit
BY DEF Space, Digit

LEMMA AtAddWidth ==
    ASSUME NEW t \in Digit, NEW p \in Digit, NEW k \in Digit
    PROVE  tumbleradd(At(t, p), Width(k)) = At(t, p + k)
<1>1. p \in Nat /\ k \in Digit /\ 0 \in Nat /\ p + k \in Digit
  BY DEF Digit
<1>2. tumbleradd(Two(0, t, p), Two(-1, k, 0)) = Two(0, t, p + k)
  BY <1>1, AddTwo
<1> QED  BY <1>1, <1>2, AtIs, WidthIs

LEMMA AtAddOff ==
    ASSUME NEW t \in Digit, NEW p \in Digit, NEW k \in Nat
    PROVE  tumbleradd(At(t, p), Off(k)) = At(t, p + k)
<1>1. CASE k = 0
  BY <1>1, AtNumber, SubZero DEF Off, Digit
<1>2. CASE k # 0
  BY <1>2, AtAddWidth DEF Off, Digit
<1> QED  BY <1>1, <1>2

LEMMA OffAddOff ==
    ASSUME NEW j \in Nat, NEW k \in Nat
    PROVE  tumbleradd(Off(j), Off(k)) = Off(j + k)
<1>1. CASE k = 0
  BY <1>1, OffIs, SubZero DEF Off
<1>2. CASE j = 0
  <2>1. tumbleradd(Off(j), Off(k)) = Off(k)
    BY <1>2, OffIs, ZeroIsNumber, AddIs
  <2> QED  BY <1>2, <2>1
<1>3. CASE j # 0 /\ k # 0
  <2>1. j \in Digit /\ k \in Digit /\ j + k \in Digit /\ j + k # 0
    BY <1>3 DEF Digit
  <2>2. tumbleradd(Two(-1, j, 0), Two(-1, k, 0)) = Two(-1, j + k, 0)
    BY <2>1, AddTwo
  <2> QED  BY <1>3, <2>1, <2>2, OffIs
<1> QED  BY <1>1, <1>2, <1>3

LEMMA OffSubOff ==
    ASSUME NEW j \in Nat, NEW k \in Nat, k <= j
    PROVE  /\ tumblersub(Off(j), Off(k)) = Off(j - k)
           /\ k # 0 => tumbleradd(Off(j), negated(Width(k))) = Off(j - k)
<1>1. CASE k = 0
  BY <1>1, OffIs, SubZero DEF Off
<1>2. CASE k # 0 /\ j = k
  <2>1. k \in Digit /\ Off(k) = Width(k) /\ Off(j - k) = ZEROTUMBLER
    BY <1>2 DEF Digit, Off
  <2> QED  BY <1>2, <2>1, SubSelf, AddSelfNegated, WidthOff
<1>3. CASE k # 0 /\ k < j
  <2>1. j \in Digit /\ k \in Digit /\ j - k \in Nat /\ j - k # 0 /\ j # 0
    BY <1>3 DEF Digit
  <2>2. Takes(Two(-1, j, 0), Two(-1, k, 0), Two(-1, j - k, 0))
    BY <1>3, <2>1, SubTwo
  <2>3. Off(j) = Two(-1, j, 0) /\ Off(k) = Two(-1, k, 0) /\ Off(j - k) = Two(-1, j - k, 0)
        /\ Width(k) = Two(-1, k, 0)
    BY <1>3, <2>1, OffIs, WidthIs
  <2> QED  BY <2>2, <2>3 DEF Takes
<1> QED  BY <1>1, <1>2, <1>3

LEMMA AtSubAt ==
    ASSUME NEW t \in Digit, NEW p \in Digit, NEW m \in Digit, m <= p
    PROVE  tumblersub(At(t, p), At(t, m)) = Off(p - m)
<1>1. CASE p = m
  <2>1. Off(p - m) = ZEROTUMBLER
    BY <1>1 DEF Off, Digit
  <2> QED  BY <1>1, <2>1, AtNumber, SubSelf
<1>2. CASE m < p
  <2>1. p \in Nat /\ m \in Nat /\ p - m \in Nat /\ p - m # 0 /\ 0 - 1 = -1
    BY <1>2 DEF Digit
  <2>2. Takes(Two(0, t, p), Two(0, t, m), Two(0 - 1, p - m, 0))
    BY <1>2, <2>1, SubTwo
  <2> QED  BY <2>1, <2>2, AtIs, OffIs DEF Takes
<1> QED  BY <1>1, <1>2 DEF Digit

LEMMA LinkSubText ==
    ASSUME NEW p \in Digit, NEW m \in Digit
    PROVE  tumblersub(At(2, p), At(1, m)) = At(1, p)
<1>1. p \in Nat /\ m \in Nat /\ 1 \in Digit /\ 2 \in Digit /\ 1 < 2 /\ 2 - 1 = 1
  BY DEF Digit
<1>2. Takes(Two(0, 2, p), Two(0, 1, m), Two(0, 2 - 1, p))
  BY <1>1, SubTwo
<1> QED  BY <1>1, <1>2, AtIs DEF Takes

LEMMA TextAddLink ==
    ASSUME NEW p \in Digit, NEW m \in Digit
    PROVE  tumbleradd(At(1, m), At(1, p)) = At(2, p)
<1>1. p \in Nat /\ m \in Nat /\ 1 \in Digit /\ 2 \in Digit /\ 1 + 1 = 2
  BY DEF Digit
<1>2. tumbleradd(Two(0, 1, m), Two(0, 1, p)) = Two(0, 1 + 1, p)
  BY <1>1, AddTwo
<1> QED  BY <1>1, <1>2, AtIs

LEMMA OffAddAt ==
    ASSUME NEW p \in Digit, NEW k \in Nat
    PROVE  /\ tumbleradd(Off(k), At(1, p)) = At(1, p)
           /\ tumblersub(At(1, p), Off(k)) = At(1, p)
<1>0. 1 \in Digit
  BY DEF Digit
<1>1. CASE k = 0
  BY <1>0, <1>1, OffIs, AtNumber, SubZero, ZeroIsNumber, AddIs
<1>2. CASE k # 0
  <2>1. k \in Digit /\ Off(k) = Width(k)
    BY <1>2 DEF Digit, Off
  <2>2. Width(k) \in Number /\ ~iszerotumbler(Width(k)) /\ Width(k) = Two(-1, k, 0)
    BY <2>1, WidthOff
  <2>3. Two(-1, k, 0).exp = -1
    BY <2>1, TwoIs
  <2>4. At(1, p) \in Number /\ ~iszerotumbler(At(1, p)) /\ At(1, p).exp = 0
    BY <1>0, AtNumber
  <2>5. tumbleradd(Width(k), At(1, p)) = At(1, p)
    BY <2>2, <2>3, <2>4, AddIs, AbsaddIs
  <2> QED  BY <1>0, <2>1, <2>5, SubFine DEF Takes
<1> QED  BY <1>1, <1>2

LEMMA DispNumber ==
    ASSUME NEW s \in Space, NEW m \in Digit, NEW t \in Space, NEW p \in Digit, Behind(s, m, t, p)
    PROVE  /\ Disp(s, m, t, p) \in Number
           /\ t = s => p - m \in Nat
           /\ t # s => s = 1 /\ t = 2
<1>1. t = s => p - m \in Nat
  BY DEF Behind, Digit, Space
<1>2. t # s => s = 1 /\ t = 2
  BY DEF Behind, Space
<1> QED  BY <1>1, <1>2, OffIs, AtNumber, SpaceDigit DEF Disp

LEMMA DispAdd ==
    ASSUME NEW s \in Space, NEW m \in Digit, NEW t \in Space, NEW p \in Digit, Behind(s, m, t, p)
    PROVE  /\ tumbleradd(At(s, m), Disp(s, m, t, p)) = At(t, p)
           /\ tumblersub(At(t, p), At(s, m)) = Disp(s, m, t, p)
<1>1. CASE t = s
  <2>1. p - m \in Nat /\ m + (p - m) = p /\ m <= p
    BY <1>1, DispNumber DEF Digit
  <2> QED  BY <1>1, <2>1, AtAddOff, AtSubAt, SpaceDigit DEF Disp
<1>2. CASE t # s
  BY <1>2, DispNumber, TextAddLink, LinkSubText DEF Disp
<1> QED  BY <1>1, <1>2

LEMMA DispSub ==
    ASSUME NEW s \in Space, NEW m \in Digit, NEW u \in Space, NEW q \in Digit,
           NEW t \in Space, NEW p \in Digit, Behind(s, m, u, q), Behind(u, q, t, p)
    PROVE  /\ Behind(s, m, t, p)
           /\ tumblersub(Disp(s, m, t, p), Disp(s, m, u, q)) = Disp(u, q, t, p)
           /\ tumbleradd(Disp(s, m, u, q), Disp(u, q, t, p)) = Disp(s, m, t, p)
<1>0. m \in Nat /\ q \in Nat /\ p \in Nat /\ s \in Nat /\ t \in Nat /\ u \in Nat
  BY DEF Digit, Space
<1>1. Behind(s, m, t, p)
  BY <1>0 DEF Behind
<1>2. CASE t = s
  <2>1. u = s /\ u = t /\ m <= q /\ q <= p
    BY <1>0, <1>2 DEF Behind
  <2>2. p - m \in Nat /\ q - m \in Nat /\ p - q \in Nat /\ q - m <= p - m
        /\ (p - m) - (q - m) = p - q /\ (q - m) + (p - q) = p - m
    BY <1>0, <2>1
  <2> QED  BY <1>1, <1>2, <2>1, <2>2, OffSubOff, OffAddOff DEF Disp
<1>3. CASE t # s /\ u = s
  <2>1. q - m \in Nat /\ t # u
    BY <1>3, DispNumber
  <2> QED  BY <1>1, <1>3, <2>1, OffAddAt DEF Disp
<1>4. CASE t # s /\ u # s
  <2>1. s = 1 /\ u = 2 /\ t = 2 /\ q <= p
    BY <1>4, <1>1, DispNumber DEF Behind, Space
  <2>2. p - q \in Nat /\ q + (p - q) = p
    BY <1>0, <2>1
  <2>3. tumblersub(At(1, p), At(1, q)) = Off(p - q)
    BY <2>1, AtSubAt, SpaceDigit
  <2>4. tumbleradd(At(1, q), Off(p - q)) = At(1, p)
    BY <2>2, AtAddOff, SpaceDigit
  <2> QED  BY <1>1, <2>1, <2>3, <2>4 DEF Disp
<1> QED  BY <1>2, <1>3, <1>4

\* Further on in a space, and back.
LEMMA DispMore ==
    ASSUME NEW s \in Space, NEW m \in Digit, NEW t \in Space, NEW p \in Digit,
           Behind(s, m, t, p), NEW k \in Digit
    PROVE  /\ tumbleradd(Disp(s, m, t, p), Width(k)) = Disp(s, m, t, p + k)
           /\ Behind(s, m, t, p + k) /\ p + k \in Digit
<1>0. m \in Nat /\ p \in Nat /\ k \in Nat /\ p + k \in Digit /\ k # 0 /\ s \in Nat /\ t \in Nat
  BY DEF Digit, Space
<1>1. Behind(s, m, t, p + k)
  BY <1>0 DEF Behind
<1>2. CASE t = s
  <2>1. p - m \in Nat /\ (p - m) + k = (p + k) - m
    BY <1>0, <1>2, DispNumber
  <2>2. tumbleradd(Off(p - m), Off(k)) = Off((p + k) - m)
    BY <1>0, <2>1, OffAddOff
  <2> QED  BY <1>0, <1>1, <1>2, <2>2, WidthOff DEF Disp
<1>3. CASE t # s
  BY <1>0, <1>1, <1>3, AtAddWidth, SpaceDigit DEF Disp
<1> QED  BY <1>2, <1>3

LEMMA DispLess ==
    ASSUME NEW s \in Space, NEW m \in Digit, NEW t \in Space, NEW p \in Digit,
           Behind(s, m, t, p), NEW k \in Digit
    PROVE  /\ t = s /\ m <= p - k =>
                 /\ tumblersub(Disp(s, m, t, p), Width(k)) = Disp(s, m, t, p - k)
                 /\ tumbleradd(Disp(s, m, t, p), negated(Width(k))) = Disp(s, m, t, p - k)
           /\ t # s => tumblersub(Disp(s, m, t, p), Width(k)) = Disp(s, m, t, p)
<1>0. m \in Nat /\ p \in Nat /\ k \in Nat /\ k # 0
  BY DEF Digit
<1>1. ASSUME t = s, m <= p - k
      PROVE  /\ tumblersub(Disp(s, m, t, p), Width(k)) = Disp(s, m, t, p - k)
             /\ tumbleradd(Disp(s, m, t, p), negated(Width(k))) = Disp(s, m, t, p - k)
  <2>1. p - m \in Nat /\ k <= p - m /\ (p - m) - k = (p - k) - m
    BY <1>0, <1>1
  <2> QED  BY <1>0, <1>1, <2>1, OffSubOff, WidthOff DEF Disp
<1>2. ASSUME t # s
      PROVE  tumblersub(Disp(s, m, t, p), Width(k)) = Disp(s, m, t, p)
  BY <1>2, SubFine, SpaceDigit DEF Disp, Takes
<1> QED  BY <1>1, <1>2

\* Displacements are in the order of what they lead to.
LEMMA DispOrder ==
    ASSUME NEW s \in Space, NEW m \in Digit, NEW t \in Space, NEW p \in Digit,
           NEW u \in Space, NEW q \in Digit, Behind(s, m, t, p), Behind(s, m, u, q)
    PROVE  /\ Disp(s, m, t, p) = Disp(s, m, u, q) <=> t = u /\ p = q
           /\ tumblercmp(Disp(s, m, t, p), Disp(s, m, u, q)) # GREATER <=> Behind(t, p, u, q)
<1>0. m \in Nat /\ p \in Nat /\ q \in Nat /\ s \in Nat /\ t \in Nat /\ u \in Nat
  BY DEF Digit, Space
<1> DEFINE a == Disp(s, m, t, p)
           b == Disp(s, m, u, q)
<1>1. a \in Number /\ b \in Number
  BY DispNumber
<1>2. tumbleradd(At(s, m), a) = At(t, p) /\ tumbleradd(At(s, m), b) = At(u, q)
  BY DispAdd
<1>3. a = b <=> t = u /\ p = q
  <2> HIDE DEF a, b
  <2>1. a = b => At(t, p) = At(u, q)
    BY <1>2
  <2>2. a = b => t = u /\ p = q
    BY <2>1, AtBefore, SpaceDigit
  <2>3. t = u /\ p = q => a = b
    BY DEF a, b
  <2> QED  BY <2>2, <2>3
<1>4. At(s, m) \in Number /\ At(t, p) \in Number /\ At(u, q) \in Number
  BY AtNumber, SpaceDigit
<1> HIDE DEF a, b
<1>5. (t < u \/ (t = u /\ p < q)) <=> Before(At(t, p), At(u, q))
  BY AtBefore, SpaceDigit
<1>6. (u < t \/ (u = t /\ q < p)) <=> Before(At(u, q), At(t, p))
  BY AtBefore, SpaceDigit
<1>7. Before(a, b) => t < u \/ (t = u /\ p < q)
  <2>1. ASSUME Before(a, b)
        PROVE  At(t, p) = At(u, q) \/ Before(At(t, p), At(u, q))
    BY <1>1, <1>2, <1>4, <2>1, AddMonotonic
  <2>2. At(t, p) = At(u, q) <=> t = u /\ p = q
    BY AtBefore, SpaceDigit
  <2> QED  BY <1>1, <1>3, <1>5, <2>1, <2>2, BeforeIrreflexive
<1>8. Before(b, a) => u < t \/ (u = t /\ q < p)
  <2>1. ASSUME Before(b, a)
        PROVE  At(t, p) = At(u, q) \/ Before(At(u, q), At(t, p))
    BY <1>1, <1>2, <1>4, <2>1, AddMonotonic
  <2>2. At(t, p) = At(u, q) <=> t = u /\ p = q
    BY AtBefore, SpaceDigit
  <2> QED  BY <1>1, <1>3, <1>6, <2>1, <2>2, BeforeIrreflexive
<1>9. tumblercmp(a, b) # GREATER <=> a = b \/ Before(a, b)
  BY <1>1, NotGreaterIs
<1>10. Before(a, b) \/ a = b \/ Before(b, a)
  BY <1>1, BeforeTotal
<1>11. tumblercmp(a, b) # GREATER <=> Behind(t, p, u, q)
  BY <1>0, <1>3, <1>7, <1>8, <1>9, <1>10 DEF Behind
<1> QED  BY <1>3, <1>11 DEF a, b

LEMMA CmpAt ==
    ASSUME NEW t \in Space, NEW p \in Digit, NEW u \in Space, NEW q \in Digit
    PROVE  LET c == tumblercmp(At(t, p), At(u, q))
           IN  /\ c = LESS <=> t < u \/ (t = u /\ p < q)
               /\ c = EQUAL <=> t = u /\ p = q
               /\ c = GREATER <=> u < t \/ (t = u /\ q < p)
<1>1. t \in Digit /\ u \in Digit
  BY SpaceDigit
<1>2. At(t, p) \in Number /\ At(u, q) \in Number
  BY <1>1, AtNumber
<1>3. At(t, p) = At(u, q) <=> t = u /\ p = q
  BY <1>1, AtBefore
<1>4. Before(At(t, p), At(u, q)) <=> t < u \/ (t = u /\ p < q)
  BY <1>1, AtBefore
<1>5. Before(At(u, q), At(t, p)) <=> u < t \/ (u = t /\ q < p)
  BY <1>1, AtBefore
<1> QED  BY <1>2, <1>3, <1>4, <1>5, CmpIs

\* Where t.p is on a crum of n places from u.q on.
LEMMA WhereIs ==
    ASSUME NEW t \in Space, NEW p \in Digit, NEW n \in Digit, NEW u \in Space, NEW q \in Digit
    PROVE  LET w == intervalcmp(At(t, p), At(t, p + n), At(u, q))
           IN  /\ w = THRUME <=> u = t /\ p < q /\ q < p + n
               /\ w <= ONMYLEFTBORDER <=> Behind(u, q, t, p)
               /\ w > ONMYLEFTBORDER <=> ~Behind(u, q, t, p)
               /\ w <= THRUME <=> u < t \/ (u = t /\ q < p + n)
<1> DEFINE b == tumblercmp(At(u, q), At(t, p))
           e == tumblercmp(At(u, q), At(t, p + n))
           w == intervalcmp(At(t, p), At(t, p + n), At(u, q))
<1>0. p + n \in Digit /\ p \in Nat /\ n \in Nat /\ q \in Nat /\ n > 0 /\ t \in Nat /\ u \in Nat
  BY DEF Digit, Space
<1>1. /\ b = LESS <=> u < t \/ (u = t /\ q < p)
      /\ b = EQUAL <=> u = t /\ q = p
  BY CmpAt
<1>2. /\ e = LESS <=> u < t \/ (u = t /\ q < p + n)
      /\ e = EQUAL <=> u = t /\ q = p + n
  BY <1>0, CmpAt
<1>3. w = CASE b = LESS -> -2
            [] b = EQUAL -> -1
            [] OTHER -> CASE e = LESS -> 0
                          [] e = EQUAL -> 1
                          [] OTHER -> 2
  BY DEF intervalcmp, TOMYLEFT, ONMYLEFTBORDER, THRUME, ONMYRIGHTBORDER, TOMYRIGHT
<1> HIDE DEF b, e, w
<1>4. CASE u < t \/ (u = t /\ q < p)
  <2>1. w = -2
    BY <1>0, <1>1, <1>3, <1>4 DEF LESS, EQUAL
  <2>2. Behind(u, q, t, p)
    BY <1>0, <1>4 DEF Behind
  <2>3. w # 0 /\ w <= -1 /\ ~(w > -1) /\ w <= 0
    BY <2>1
  <2>4. ~(u = t /\ p < q /\ q < p + n) /\ (u < t \/ (u = t /\ q < p + n))
    BY <1>0, <1>4
  <2> QED  BY <2>2, <2>3, <2>4 DEF w, THRUME, ONMYLEFTBORDER
<1>5. CASE u = t /\ q = p
  <2>1. w = -1
    BY <1>0, <1>1, <1>3, <1>5 DEF LESS, EQUAL
  <2>2. Behind(u, q, t, p)
    BY <1>0, <1>5 DEF Behind
  <2>3. w # 0 /\ w <= -1 /\ ~(w > -1) /\ w <= 0
    BY <2>1
  <2>4. ~(u = t /\ p < q /\ q < p + n) /\ (u < t \/ (u = t /\ q < p + n))
    BY <1>0, <1>5
  <2> QED  BY <2>2, <2>3, <2>4 DEF w, THRUME, ONMYLEFTBORDER
<1>6. CASE u = t /\ p < q /\ q < p + n
  <2>1. w = 0
    BY <1>0, <1>1, <1>2, <1>3, <1>6
  <2>2. ~Behind(u, q, t, p)
    BY <1>0, <1>6 DEF Behind
  <2>3. w = 0 /\ ~(w <= -1) /\ w > -1 /\ w <= 0
    BY <2>1
  <2> QED  BY <1>6, <2>2, <2>3 DEF w, THRUME, ONMYLEFTBORDER
<1>7. CASE t < u \/ (u = t /\ p + n <= q)
  <2>0. ~(u < t \/ (u = t /\ q < p)) /\ ~(u = t /\ q = p) /\ ~(u < t \/ (u = t /\ q < p + n))
    BY <1>0, <1>7
  <2>1. w \in {1, 2}
    BY <1>1, <1>2, <1>3, <2>0
  <2>2. ~Behind(u, q, t, p)
    BY <1>0, <1>7 DEF Behind
  <2>3. w # 0 /\ ~(w <= -1) /\ w > -1 /\ ~(w <= 0)
    BY <2>1
  <2> QED  BY <2>0, <2>2, <2>3 DEF w, THRUME, ONMYLEFTBORDER
<1>8. \/ u < t \/ (u = t /\ q < p) 
      \/ u = t /\ q = p
      \/ u = t /\ p < q /\ q < p + n
      \/ t < u \/ (u = t /\ p + n <= q)
  BY <1>0
<1> QED  BY <1>4, <1>5, <1>6, <1>7, <1>8

LEMMA IsaMore ==
    ASSUME NEW y \in Digit, NEW n \in Digit, NEW k \in Nat
    PROVE  tumblerincrement(At(y, n), 0, k) = At(y, n + k)
<1>1. n \in Nat /\ n # 0 /\ n + k \in Digit
  BY DEF Digit
<1>2. tumblerincrement(Two(0, y, n), 0, k) = Two(0, y, n + k)
  BY <1>1, IncrementTwo
<1> QED  BY <1>1, <1>2, AtIs

LEMMA DiffAt ==
    ASSUME NEW t \in Digit, NEW p \in Digit, NEW q \in Digit, p < q
    PROVE  /\ tumblersub(At(t, q), At(t, p)).mantissa[0] = q - p
           /\ tumblerintdiff(At(t, q), At(t, p)) = q - p
<1>1. q - p \in Digit /\ q - p \in Nat /\ q - p # 0 /\ p <= q
  BY DEF Digit
<1>2. tumblersub(At(t, q), At(t, p)) = Two(-1, q - p, 0)
  BY <1>1, AtSubAt, OffIs
<1>3. Two(-1, q - p, 0).mantissa[0] = q - p
  BY <1>1, TwoIs
<1> QED  BY <1>2, <1>3 DEF tumblerintdiff

LEMMA LastDigitAt ==
    ASSUME NEW t \in Digit, NEW p \in Digit
    PROVE  lastdigitintumbler(At(t, p)) = p
<1>1. p \in Nat /\ p # 0
  BY DEF Digit
<1>2. nstories(At(t, p)) = 2
  BY <1>1, AtIs, StoriesTwo
<1> QED  BY <1>2, AtNumber DEF lastdigitintumbler

\* The linkspace.
LEMMA CmpLinkspace ==
    ASSUME NEW t \in Space, NEW p \in Digit, NEW z \in Int, z = 0
    PROVE  LET c == tumblercmp(At(t, p), tumblerincrement(ZEROTUMBLER, z, 2))
           IN  /\ c = LESS <=> t = 1
               /\ c = GREATER <=> t = 2
<1> DEFINE a == At(t, p)
           b == Two(0, 2, 0)
<1>0. 2 \in Digit /\ t \in Digit /\ p \in Nat /\ p > 0 /\ t \in Nat
  BY SpaceDigit DEF Digit
<1>1. tumblerincrement(ZEROTUMBLER, z, 2) = b
  BY <1>0, SpaceIs
<1>2. a \in Number /\ ~iszerotumbler(a) /\ a.exp = 0 /\ a.mantissa[0] = t /\ a.mantissa[1] = p
  BY <1>0, AtNumber
<1>3. b \in Number /\ ~iszerotumbler(b) /\ b.exp = 0 /\ b.mantissa[0] = 2 /\ b.mantissa[1] = 0
  BY <1>0, TwoIs
<1> HIDE DEF a, b
<1>4. 0 \in Place /\ 1 \in Place /\ \A q \in Place : q \in Nat
  BY TwoPlaces, PlaceIs
<1>5. t = 1 => Before(a, b)
  <2>1. ASSUME t = 1
        PROVE  FirstBelow(a, b, 0)
    BY <1>2, <1>3, <1>4, <2>1 DEF FirstBelow
  <2> QED  BY <1>2, <1>3, <1>4, <2>1 DEF Before
<1>6. t = 2 => Before(b, a)
  <2>1. ASSUME t = 2
        PROVE  FirstBelow(b, a, 1)
    BY <1>0, <1>2, <1>3, <1>4, <2>1 DEF FirstBelow
  <2> QED  BY <1>2, <1>3, <1>4, <2>1 DEF Before
<1>7. t = 1 \/ t = 2
  BY DEF Space
<1>8. ~(Before(a, b) /\ Before(b, a))
  BY <1>2, <1>3, BeforeTransitive, BeforeIrreflexive
<1>9. /\ tumblercmp(a, b) = LESS <=> Before(a, b)
      /\ tumblercmp(a, b) = GREATER <=> Before(b, a)
  BY <1>2, <1>3, CmpIs
<1> QED  BY <1>1, <1>5, <1>6, <1>7, <1>8, <1>9 DEF a, b

\* The second cut for an insertion into the text.
LEMMA SecondCutIs ==
    ASSUME NEW p \in Digit
    PROVE  findaddressofsecondcutforinsert(At(1, p)) = At(2, 1)
<1> DEFINE a == At(1, p)
           m == a.mantissa
           next == tumblerincrement(a, -1, 1)
<1>0. 1 \in Digit /\ 2 \in Digit /\ p \in Nat /\ p # 0
  BY DEF Digit
<1>1. /\ a = Two(0, 1, p) /\ a \in Number /\ a \in tumbler /\ ~iszerotumbler(a) /\ a.exp = 0
      /\ m[0] = 1 /\ m[1] = p /\ \A q \in Place : q > 1 => m[q] = 0
  BY <1>0, AtNumber, AtIs
<1>2. nstories(a) = 2
  BY <1>0, <1>1, StoriesTwo
<1>3. m \in [Place -> Int] /\ a.sign = 0
  BY <1>1, NumberType
<1>a. a = [sign |-> 0, exp |-> 0, mantissa |-> m]
  BY <1>1, NumberType
<1> HIDE DEF a, m
<1>b. a.mantissa = m
  BY <1>a
<1> DEFINE e == [sign |-> 0, exp |-> 0, mantissa |-> [m EXCEPT ![0] = 2]]
<1>4. next = Two(0, 2, p)
  <2>1. nstories(a) - 1 + (-1) = 0
    BY <1>2
  <2>2. next = tumblerjustify([a EXCEPT !.mantissa[0] = @ + 1])
    BY <1>1, <2>1 DEF tumblerincrement
  <2>3. m[0] + 1 = 2
    BY <1>1
  <2>4. [a EXCEPT !.mantissa[0] = @ + 1] = e
    BY <1>a, <1>b, <2>3
  <2>5. [m EXCEPT ![0] = 2] = [q \in Place |-> IF q = 0 THEN 2 ELSE IF q = 1 THEN p ELSE 0]
    <3>1. \A q \in Place : q # 0 /\ q # 1 => m[q] = 0
      BY <1>1, PlaceCases
    <3>2. [m EXCEPT ![0] = 2] = [q \in Place |-> IF q = 0 THEN 2 ELSE m[q]]
      BY <1>3, TwoPlaces
    <3> QED  BY <1>1, <3>1, <3>2
  <2>6. e = Two(0, 2, p)
    BY <2>5 DEF Two
  <2> HIDE DEF e
  <2>7. e \in tumbler /\ e.mantissa[0] # 0
    BY <1>0, <2>6, TwoIs
  <2>8. tumblerjustify(e) = e
    BY <2>7, JustifyKeeps
  <2> QED  BY <2>2, <2>4, <2>6, <2>8
<1> DEFINE r == [sign |-> 0, exp |-> 1, mantissa |-> [m EXCEPT ![0] = 0]]
           n == [m EXCEPT ![0] = 0]
<1>5. beheadtumbler(a) = Two(0, p, 0)
  <2>1. beheadtumbler(a) = tumblerjustify(r)
    <3>1. [a EXCEPT !.exp = 1] = [sign |-> 0, exp |-> 1, mantissa |-> m]
      BY <1>a
    <3> DEFINE z == [a EXCEPT !.exp = 1]
    <3>2. z = [sign |-> 0, exp |-> 1, mantissa |-> m] /\ z.mantissa = m
      BY <3>1
    <3> HIDE DEF z
    <3>3. [z EXCEPT !.mantissa[0] = 0] = r
      BY <3>2
    <3>4. beheadtumbler(a) = tumblerjustify([z EXCEPT !.mantissa[0] = 0])
      <4>1. a.exp + 1 = 1
        BY <1>1
      <4> QED  BY <1>1, <4>1 DEF beheadtumbler, z
    <3> QED  BY <3>3, <3>4
  <2>2. n[0] = 0 /\ n[1] = p /\ \A q \in Place : q > 1 => n[q] = 0
    BY <1>1, <1>3, TwoPlaces
  <2>3. r = [sign |-> 0, exp |-> 1, mantissa |-> n]
    OBVIOUS
  <2> DEFINE used == {q \in Place : n[q] # 0}
  <2> HIDE DEF n, r
  <2>4. used = {1}
    BY <1>0, <2>2, TwoPlaces, PlaceCases
  <2>5. Min(used) = 1
    <3>1. used \in SUBSET Nat /\ used # {}
      BY <2>4
    <3> HIDE DEF used
    <3> QED  BY <2>4, <3>1, MinIs
  <2>6. r.mantissa = n /\ r.exp = 1
    BY <2>3
  <2>7. tumblerjustify(r) = [r EXCEPT !.exp = 1 - 1, !.mantissa = From(n, 1)]
    BY <2>4, <2>5, <2>6 DEF tumblerjustify
  <2>8. From(n, 1) = [q \in Place |-> IF q = 0 THEN p ELSE IF q = 1 THEN 0 ELSE 0]
    <3>1. ASSUME NEW q \in Place
          PROVE  (IF q + 1 \in Place THEN n[q + 1] ELSE 0) =
                     IF q = 0 THEN p ELSE IF q = 1 THEN 0 ELSE 0
      <4>1. CASE q = 0
        BY <2>2, <4>1, TwoPlaces
      <4>2. CASE q > 0
        <5>1. q + 1 > 1
          BY <4>2, PlaceIs
        <5>2. q + 1 \in Place => n[q + 1] = 0
          BY <2>2, <5>1
        <5> QED  BY <4>2, <5>2
      <4> QED  BY <4>1, <4>2, PlaceIs
    <3> QED  BY <3>1 DEF From
  <2>9. [r EXCEPT !.exp = 1 - 1, !.mantissa = From(n, 1)] =
            [sign |-> 0, exp |-> 0, mantissa |-> From(n, 1)]
    <3> DEFINE z == [r EXCEPT !.exp = 1 - 1]
               f == From(n, 1)
    <3>1. z = [sign |-> 0, exp |-> 0, mantissa |-> n]
      BY <2>3
    <3> HIDE DEF z, f
    <3>2. [z EXCEPT !.mantissa = f] = [sign |-> 0, exp |-> 0, mantissa |-> f]
      BY <3>1
    <3> QED  BY <3>2 DEF z, f
  <2> QED  BY <2>1, <2>7, <2>8, <2>9 DEF Two
<1>6. tumblerintdiff(beheadtumbler(a), ZEROTUMBLER) = p
  <2>1. Two(0, p, 0) \in Number /\ Two(0, p, 0).mantissa[0] = p
    BY TwoIs
  <2> QED  BY <1>5, <2>1, SubZero DEF tumblerintdiff
<1> DEFINE b == Two(0, 2, p)
           c == Two(0, 2, 0)
<1>7. tumblerincrement(b, 0, -p) = c
  <2>1. /\ b \in Number /\ ~iszerotumbler(b) /\ b.exp = 0
        /\ b.mantissa[0] = 2 /\ b.mantissa[1] = p /\ \A q \in Place : q > 1 => b.mantissa[q] = 0
        /\ nstories(b) = 2
    BY <1>0, TwoIs, StoriesTwo
  <2> DEFINE k == b.mantissa
             d == [k EXCEPT ![1] = 0]
  <2>2. k \in [Place -> Int] /\ b = [sign |-> 0, exp |-> 0, mantissa |-> k]
    BY <2>1, NumberType
  <2>a. k[0] = 2 /\ k[1] = p /\ \A q \in Place : q > 1 => k[q] = 0
    BY <2>1
  <2> HIDE DEF b, k
  <2>3. k[1] + (-p) = 0
    BY <1>0, <2>a
  <2>4. nstories(b) - 1 + 0 = 1
    BY <2>1
  <2>5. tumblerincrement(b, 0, -p) = tumblerjustify([b EXCEPT !.mantissa[1] = @ + (-p)])
    BY <2>1, <2>4 DEF tumblerincrement
  <2>6. [b EXCEPT !.mantissa[1] = @ + (-p)] = [sign |-> 0, exp |-> 0, mantissa |-> d]
    BY <2>2, <2>3
  <2>7. d = [q \in Place |-> IF q = 0 THEN 2 ELSE IF q = 1 THEN 0 ELSE 0]
    BY <2>2, <2>a, TwoPlaces, PlaceCases
  <2> HIDE DEF d
  <2>8. [sign |-> 0, exp |-> 0, mantissa |-> d] = c
    BY <2>7 DEF Two
  <2> HIDE DEF c
  <2>9. c \in tumbler /\ c.mantissa[0] # 0
    BY <1>0, TwoIs DEF c
  <2> QED  BY <2>5, <2>6, <2>8, <2>9, JustifyKeeps
<1>8. tumblerincrement(c, 1, 1) = At(2, 1)
  <2>1. tumblerincrement(Two(0, 2, 0), 1, 1) = Two(0, 2, 0 + 1)
    BY <1>0, IncrementTwo
  <2> QED  BY <1>0, <2>1, AtIs
<1> QED  BY <1>4, <1>6, <1>7, <1>8 DEF findaddressofsecondcutforinsert, a

-----------------------------------------------------------------------------
(* The tree as a set of crums. *)

\* A crum as it is to be read: len atoms from number first on, which stand in a
\* space from a place on.
Crum == [space : Space, place : Digit, type : Digit, first : Digit, len : Digit]

\* The record of a crum under an apex at s.m.
SonOf(s, m, c) ==
    [dsp |-> Disp(s, m, c.space, c.place), isa |-> At(c.type, c.first), len |-> c.len]

Tree(s, m, C) == [apex |-> At(s, m), sons |-> {SonOf(s, m, c) : c \in C}]

Rooted(s, m, C) ==
    /\ s \in Space /\ m \in Digit /\ C \in SUBSET Crum
    /\ \A c \in C : Behind(s, m, c.space, c.place)

EMPTY == [apex |-> ZEROTUMBLER, sons |-> {}]

\* The apex of o is at its first crum.
Fine(o, C) ==
    \/ C = {} /\ o = EMPTY
    \/ \E s \in Space, m \in Digit :
          /\ Rooted(s, m, C) /\ o = Tree(s, m, C)
          /\ \E c \in C : c.space = s /\ c.place = m

LEMMA CrumType ==
    ASSUME NEW c \in Crum
    PROVE  /\ c.space \in Space /\ c.space \in Digit /\ c.place \in Digit /\ c.type \in Digit
           /\ c.first \in Digit /\ c.len \in Digit
           /\ c.space \in Nat /\ c.place \in Nat /\ c.first \in Nat /\ c.len \in Nat
           /\ c.len > 0 /\ c.place > 0 /\ c.first > 0
           /\ c.place + c.len \in Digit
           /\ c = [space |-> c.space, place |-> c.place, type |-> c.type,
                   first |-> c.first, len |-> c.len]
BY DEF Crum, Digit, Space

LEMMA CrumIs ==
    ASSUME NEW t \in Space, NEW p \in Digit, NEW y \in Digit, NEW f \in Digit, NEW n \in Digit
    PROVE  LET c == [space |-> t, place |-> p, type |-> y, first |-> f, len |-> n]
           IN  c \in Crum /\ c.space = t /\ c.place = p /\ c.type = y /\ c.first = f /\ c.len = n
BY DEF Crum

LEMMA SonFields ==
    ASSUME NEW s, NEW m, NEW c
    PROVE  /\ SonOf(s, m, c).dsp = Disp(s, m, c.space, c.place)
           /\ SonOf(s, m, c).isa = At(c.type, c.first)
           /\ SonOf(s, m, c).len = c.len
BY DEF SonOf

LEMMA SonIs ==
    ASSUME NEW o, NEW s \in Space, NEW m \in Digit, NEW c \in Crum, o.apex = At(s, m),
           Behind(s, m, c.space, c.place)
    PROVE  /\ Grasp(o, SonOf(s, m, c)) = At(c.space, c.place)
           /\ Reach(o, SonOf(s, m, c)) = At(c.space, c.place + c.len)
<1> DEFINE son == SonOf(s, m, c)
<1>1. son.dsp = Disp(s, m, c.space, c.place) /\ son.len = c.len
  BY SonFields
<1>2. c.space \in Space /\ c.space \in Digit /\ c.place \in Digit /\ c.len \in Digit
  BY CrumType
<1> HIDE DEF son
<1>3. Grasp(o, son) = At(c.space, c.place)
  BY <1>1, <1>2, DispAdd DEF Grasp
<1>4. Reach(o, son) = At(c.space, c.place + c.len)
  BY <1>1, <1>2, <1>3, AtAddWidth DEF Reach
<1> QED  BY <1>3, <1>4 DEF son

\* Where an address is on a crum.
LEMMA SonWhere ==
    ASSUME NEW o, NEW s \in Space, NEW m \in Digit, NEW c \in Crum, o.apex = At(s, m),
           Behind(s, m, c.space, c.place), NEW u \in Space, NEW q \in Digit
    PROVE  LET w == WhereOnCrum(o, SonOf(s, m, c), At(u, q))
           IN  /\ w = THRUME <=> u = c.space /\ c.place < q /\ q < c.place + c.len
               /\ w <= ONMYLEFTBORDER <=> Behind(u, q, c.space, c.place)
               /\ w > ONMYLEFTBORDER <=> ~Behind(u, q, c.space, c.place)
               /\ w <= THRUME <=> u < c.space \/ (u = c.space /\ q < c.place + c.len)
<1>1. /\ Grasp(o, SonOf(s, m, c)) = At(c.space, c.place)
      /\ Reach(o, SonOf(s, m, c)) = At(c.space, c.place + c.len)
  BY SonIs
<1>2. c.space \in Space /\ c.place \in Digit /\ c.len \in Digit
  BY CrumType
<1>3. WhereOnCrum(o, SonOf(s, m, c), At(u, q)) =
          intervalcmp(At(c.space, c.place), At(c.space, c.place + c.len), At(u, q))
  BY <1>1 DEF WhereOnCrum
<1>4. LET w == intervalcmp(At(c.space, c.place), At(c.space, c.place + c.len), At(u, q))
      IN  /\ w = THRUME <=> u = c.space /\ c.place < q /\ q < c.place + c.len
          /\ w <= ONMYLEFTBORDER <=> Behind(u, q, c.space, c.place)
          /\ w > ONMYLEFTBORDER <=> ~Behind(u, q, c.space, c.place)
          /\ w <= THRUME <=> u < c.space \/ (u = c.space /\ q < c.place + c.len)
  BY <1>2, WhereIs
<1> QED  BY <1>3, <1>4

LEMMA SonOnly ==
    ASSUME NEW s \in Space, NEW m \in Digit, NEW c \in Crum, NEW d \in Crum,
           Behind(s, m, c.space, c.place), Behind(s, m, d.space, d.place),
           SonOf(s, m, c) = SonOf(s, m, d)
    PROVE  c = d
<1>1. /\ Disp(s, m, c.space, c.place) = Disp(s, m, d.space, d.place)
      /\ At(c.type, c.first) = At(d.type, d.first)
      /\ c.len = d.len
  BY SonFields
<1>2. c.space = d.space /\ c.place = d.place
  BY <1>1, CrumType, DispOrder
<1>3. c.type = d.type /\ c.first = d.first
  BY <1>1, CrumType, AtBefore
<1> QED  BY <1>1, <1>2, <1>3, CrumType

-----------------------------------------------------------------------------
(* Cuts. *)

Slice(c, q) ==
    {[space |-> c.space, place |-> c.place, type |-> c.type, first |-> c.first,
      len |-> q - c.place],
     [space |-> c.space, place |-> q, type |-> c.type, first |-> c.first + (q - c.place),
      len |-> c.len - (q - c.place)]}

Through(c, u, q) == u = c.space /\ c.place < q /\ q < c.place + c.len

Cut(C, u, q) == UNION {IF Through(c, u, q) THEN Slice(c, q) ELSE {c} : c \in C}

LEMMA SliceIs ==
    ASSUME NEW c \in Crum, NEW u \in Space, NEW q \in Digit, Through(c, u, q),
           NEW d \in Slice(c, q)
    PROVE  /\ d \in Crum /\ d.space = c.space /\ d.type = c.type
           /\ c.place <= d.place /\ d.place + d.len <= c.place + c.len
           /\ d.first - d.place = c.first - c.place
           /\ d.place + d.len <= q \/ q <= d.place
<1>1. /\ c.space \in Space /\ c.place \in Digit /\ c.type \in Digit /\ c.first \in Digit
      /\ c.place \in Nat /\ c.first \in Nat /\ c.len \in Nat /\ q \in Nat
      /\ c.place < q /\ q < c.place + c.len
  BY CrumType DEF Through, Digit
<1>2. q - c.place \in Digit /\ c.first + (q - c.place) \in Digit /\ c.len - (q - c.place) \in Digit
  BY <1>1 DEF Digit
<1>3. CASE d = [space |-> c.space, place |-> c.place, type |-> c.type, first |-> c.first,
                len |-> q - c.place]
  <2>1. d \in Crum /\ d.space = c.space /\ d.place = c.place /\ d.type = c.type
        /\ d.first = c.first /\ d.len = q - c.place
    BY <1>1, <1>2, <1>3, CrumIs
  <2> QED  BY <1>1, <2>1
<1>4. CASE d = [space |-> c.space, place |-> q, type |-> c.type,
                first |-> c.first + (q - c.place), len |-> c.len - (q - c.place)]
  <2>1. d \in Crum /\ d.space = c.space /\ d.place = q /\ d.type = c.type
        /\ d.first = c.first + (q - c.place) /\ d.len = c.len - (q - c.place)
    BY <1>1, <1>2, <1>4, CrumIs
  <2> QED  BY <1>1, <2>1
<1> QED  BY <1>3, <1>4 DEF Slice

LEMMA SliceSons ==
    ASSUME NEW o, NEW s \in Space, NEW m \in Digit, NEW c \in Crum, o.apex = At(s, m),
           Behind(s, m, c.space, c.place), NEW u \in Space, NEW q \in Digit, Through(c, u, q)
    PROVE  slicecbcpm(o, SonOf(s, m, c), At(u, q)) = {SonOf(s, m, d) : d \in Slice(c, q)}
<1> DEFINE son == SonOf(s, m, c)
           k == q - c.place
           first == [space |-> c.space, place |-> c.place, type |-> c.type, first |-> c.first,
                     len |-> k]
           second == [space |-> c.space, place |-> q, type |-> c.type,
                      first |-> c.first + k, len |-> c.len - k]
<1>1. /\ c.space \in Space /\ c.place \in Digit /\ c.type \in Digit /\ c.first \in Digit
      /\ c.place \in Nat /\ c.first \in Nat /\ c.len \in Nat /\ q \in Nat
      /\ c.space \in Digit /\ c.space = u /\ c.place < q /\ q < c.place + c.len
  BY CrumType DEF Through, Digit
<1>2. k \in Digit /\ k \in Nat /\ c.place + k = q
  BY <1>1 DEF Digit
<1>3. son = [dsp |-> Disp(s, m, c.space, c.place), isa |-> At(c.type, c.first), len |-> c.len]
  BY DEF SonOf
<1>4. tumblersub(At(u, q), Grasp(o, son)).mantissa[0] = k
  <2>1. Grasp(o, son) = At(c.space, c.place)
    BY SonIs
  <2>2. tumblersub(At(c.space, q), At(c.space, c.place)).mantissa[0] = q - c.place
    BY <1>1, DiffAt, ZenonT(60)
  <2> QED  BY <1>1, <2>1, <2>2
<1>5. tumbleradd(Disp(s, m, c.space, c.place), Width(k)) = Disp(s, m, c.space, q)
  BY <1>1, <1>2, DispMore
<1>6. tumblerincrement(At(c.type, c.first), 0, k) = At(c.type, c.first + k)
  BY <1>1, <1>2, IsaMore, ZenonT(60)
<1> HIDE DEF k
<1>7. SonOf(s, m, first) = [dsp |-> Disp(s, m, c.space, c.place), isa |-> At(c.type, c.first),
                            len |-> k]
  BY DEF SonOf
<1>8. SonOf(s, m, second) = [dsp |-> Disp(s, m, c.space, q), isa |-> At(c.type, c.first + k),
                             len |-> c.len - k]
  BY DEF SonOf
<1>9. {SonOf(s, m, d) : d \in Slice(c, q)} = {SonOf(s, m, first), SonOf(s, m, second)}
  BY DEF Slice, k
<1> HIDE DEF son, first, second
<1>10. slicecbcpm(o, son, At(u, q)) =
         {[son EXCEPT !.len = k],
          [dsp |-> tumbleradd(son.dsp, Width(k)),
           isa |-> tumblerincrement(son.isa, 0, k),
           len |-> son.len - k]}
  BY <1>4 DEF slicecbcpm
<1>11. [son EXCEPT !.len = k] = SonOf(s, m, first)
  BY <1>3, <1>7
<1>12. [dsp |-> tumbleradd(son.dsp, Width(k)), isa |-> tumblerincrement(son.isa, 0, k),
        len |-> son.len - k] = SonOf(s, m, second)
  BY <1>3, <1>5, <1>6, <1>8
<1> QED  BY <1>9, <1>10, <1>11, <1>12 DEF son

LEMMA CutTree ==
    ASSUME NEW s, NEW m, NEW C, Rooted(s, m, C), NEW u \in Space, NEW q \in Digit
    PROVE  /\ makecut(Tree(s, m, C), At(u, q)) = Tree(s, m, Cut(C, u, q))
           /\ Rooted(s, m, Cut(C, u, q))
<1> DEFINE o == Tree(s, m, C)
           f(son) == IF WhereOnCrum(o, son, At(u, q)) = THRUME
                     THEN slicecbcpm(o, son, At(u, q)) ELSE {son}
<1>1. /\ s \in Space /\ m \in Digit /\ C \in SUBSET Crum
      /\ \A c \in C : c \in Crum /\ Behind(s, m, c.space, c.place)
  BY DEF Rooted
<1>2. o.apex = At(s, m) /\ o.sons = {SonOf(s, m, c) : c \in C}
      /\ o = [apex |-> At(s, m), sons |-> o.sons]
  BY DEF Tree
<1> HIDE DEF o
<1>3. ASSUME NEW c \in C
      PROVE  f(SonOf(s, m, c)) =
                {SonOf(s, m, d) : d \in IF Through(c, u, q) THEN Slice(c, q) ELSE {c}}
  <2>1. WhereOnCrum(o, SonOf(s, m, c), At(u, q)) = THRUME <=> Through(c, u, q)
    BY <1>1, <1>2, SonWhere DEF Through
  <2>2. CASE Through(c, u, q)
    BY <1>1, <1>2, <2>1, <2>2, SliceSons
  <2>3. CASE ~Through(c, u, q)
    BY <2>1, <2>3
  <2> QED  BY <2>2, <2>3
<1>4. makecut(o, At(u, q)) = [apex |-> At(s, m), sons |-> UNION {f(son) : son \in o.sons}]
  <2>1. makecut(o, At(u, q)) = [o EXCEPT !.sons = UNION {f(son) : son \in o.sons}]
    BY DEF makecut
  <2> HIDE DEF f
  <2> QED  BY <1>2, <2>1
<1>5. UNION {f(son) : son \in o.sons} = {SonOf(s, m, d) : d \in Cut(C, u, q)}
  <2> HIDE DEF f
  <2> DEFINE g(c) == IF Through(c, u, q) THEN Slice(c, q) ELSE {c}
  <2>1. Cut(C, u, q) = UNION {g(c) : c \in C}
    BY DEF Cut
  <2>2. \A c \in C : f(SonOf(s, m, c)) = {SonOf(s, m, d) : d \in g(c)}
    BY <1>3
  <2> HIDE DEF g
  <2>3. ASSUME NEW x
        PROVE  x \in UNION {f(son) : son \in o.sons} <=> \E c \in C : x \in f(SonOf(s, m, c))
    BY <1>2
  <2>4. ASSUME NEW x
        PROVE  x \in {SonOf(s, m, d) : d \in Cut(C, u, q)} <=>
                  \E c \in C : \E d \in g(c) : x = SonOf(s, m, d)
    BY <2>1
  <2>5. ASSUME NEW x, NEW c \in C
        PROVE  x \in f(SonOf(s, m, c)) <=> \E d \in g(c) : x = SonOf(s, m, d)
    BY <2>2
  <2> QED  BY <2>3, <2>4, <2>5
<1>6. Rooted(s, m, Cut(C, u, q))
  <2>1. ASSUME NEW d \in Cut(C, u, q)
        PROVE  d \in Crum /\ Behind(s, m, d.space, d.place)
    <3>1. PICK c \in C : d \in IF Through(c, u, q) THEN Slice(c, q) ELSE {c}
      BY <2>1 DEF Cut
    <3>2. CASE Through(c, u, q)
      <4>1. d \in Crum /\ d.space = c.space /\ c.place <= d.place
        BY <1>1, <3>1, <3>2, SliceIs
      <4>2. Behind(s, m, c.space, c.place) /\ m \in Nat /\ c.place \in Nat /\ d.place \in Nat
        BY <1>1, <4>1, CrumType DEF Digit
      <4> QED  BY <4>1, <4>2 DEF Behind
    <3>3. CASE ~Through(c, u, q)
      BY <1>1, <3>1, <3>3
    <3> QED  BY <3>2, <3>3
  <2> QED  BY <1>1, <2>1 DEF Rooted
<1> QED  BY <1>4, <1>5, <1>6 DEF o, Tree

\* Knife after knife: the function by which makecutsnd is defined.
LEMMA CutsExist ==
    ASSUME NEW o, NEW knives, Len(knives) \in Nat
    PROVE  \E f : f = [i \in 0..Len(knives) |-> IF i = 0 THEN o ELSE makecut(f[i - 1], knives[i])]
<1> DEFINE n == Len(knives)
           Good(f, k) == f = [i \in 0..k |-> IF i = 0 THEN o ELSE makecut(f[i - 1], knives[i])]
           S == {k \in 0..n : ~\E f : Good(f, k)}
<1>1. ASSUME S # {} PROVE FALSE
  <2>1. S \in SUBSET Nat
    OBVIOUS
  <2> DEFINE k == Min(S)
  <2>2. k \in S /\ \A j \in S : k <= j
    BY <1>1, <2>1, MinIs
  <2> HIDE DEF k
  <2>3. k \in 0..n /\ ~\E f : Good(f, k)
    BY <2>2
  <2>4. k # 0
    <3>1. ASSUME k = 0 PROVE FALSE
      <4> DEFINE f == [i \in 0..0 |-> o]
      <4>1. Good(f, 0)
        OBVIOUS
      <4> QED  BY <2>3, <3>1, <4>1
    <3> QED  BY <3>1
  <2>5. k - 1 \in 0..n /\ k - 1 \notin S
    <3>1. k - 1 \in 0..n /\ ~(k <= k - 1)
      BY <2>3, <2>4
    <3> QED  BY <2>2, <3>1
  <2>6. PICK f : Good(f, k - 1)
    BY <2>5
  <2> DEFINE h == [i \in 0..k |-> IF i = k THEN makecut(f[k - 1], knives[k]) ELSE f[i]]
  <2>7. Good(h, k)
    <3>1. \A i \in 0..(k - 1) : f[i] = IF i = 0 THEN o ELSE makecut(f[i - 1], knives[i])
      BY <2>6
    <3>2. ASSUME NEW i \in 0..k
          PROVE  h[i] = IF i = 0 THEN o ELSE makecut(h[i - 1], knives[i])
      <4>1. CASE i = k
        <5>1. h[i] = makecut(f[k - 1], knives[k]) /\ h[k - 1] = f[k - 1]
          BY <2>3, <2>4, <4>1
        <5> QED  BY <2>4, <4>1, <5>1
      <4>2. CASE i # k
        <5>1. i \in 0..(k - 1) /\ h[i] = f[i]
          BY <2>3, <4>2
        <5>2. i # 0 => i - 1 \in 0..k /\ i - 1 # k /\ h[i - 1] = f[i - 1]
          BY <2>3, <5>1
        <5> HIDE DEF h
        <5> QED  BY <3>1, <5>1, <5>2
      <4> QED  BY <4>1, <4>2
    <3>3. h = [i \in 0..k |-> h[i]]
      OBVIOUS
    <3> HIDE DEF h
    <3> QED  BY <3>2, <3>3
  <2> QED  BY <2>3, <2>7
<1> QED  BY <1>1

LEMMA CutsAre ==
    ASSUME NEW o, NEW knives, Len(knives) \in Nat
    PROVE  \E f : /\ f = [i \in 0..Len(knives) |-> IF i = 0 THEN o ELSE makecut(f[i - 1], knives[i])]
                  /\ makecutsnd(o, knives) = f[Len(knives)]
<1> DEFINE g == CHOOSE f : f = [i \in 0..Len(knives) |-> IF i = 0 THEN o ELSE makecut(f[i - 1], knives[i])]
<1>1. g = [i \in 0..Len(knives) |-> IF i = 0 THEN o ELSE makecut(g[i - 1], knives[i])]
  BY CutsExist
<1>2. makecutsnd(o, knives) = g[Len(knives)]
  BY DEF makecutsnd
<1> HIDE DEF g
<1> QED  BY <1>1, <1>2

\* An atom is on a crum, and a crum has the atom of a number at a place.
On(c, t, q) == c.space = t /\ c.place <= q /\ q < c.place + c.len

Has(C, t, q, n) == \E c \in C : On(c, t, q) /\ n = c.first + (q - c.place)

Disjoint(C) == \A c, d \in C : \A t \in Space, q \in Digit : On(c, t, q) /\ On(d, t, q) => c = d

\* D is C after more cuts.
Finer(D, C) ==
    /\ D \in SUBSET Crum
    /\ \A t \in Space, q \in Digit, n \in Digit : Has(D, t, q, n) <=> Has(C, t, q, n)
    /\ Disjoint(C) => Disjoint(D)
    /\ \A d \in D, u \in Space, v \in Digit : Through(d, u, v) => \E c \in C : Through(c, u, v)

LEMMA FinerSelf ==
    ASSUME NEW C \in SUBSET Crum
    PROVE  Finer(C, C)
BY DEF Finer

LEMMA FinerTransitive ==
    ASSUME NEW C, NEW D, NEW E, Finer(D, C), Finer(E, D)
    PROVE  Finer(E, C)
<1>1. \A t \in Space, q \in Digit, n \in Digit : Has(E, t, q, n) <=> Has(C, t, q, n)
  BY DEF Finer
<1>2. \A d \in E, u \in Space, v \in Digit : Through(d, u, v) => \E c \in C : Through(c, u, v)
  BY DEF Finer
<1> QED  BY <1>1, <1>2 DEF Finer

\* A crum of the cut, and the one it was cut from.
LEMMA CutParts ==
    ASSUME NEW C \in SUBSET Crum, NEW u \in Space, NEW v \in Digit, NEW d \in Cut(C, u, v)
    PROVE  /\ d \in Crum /\ ~Through(d, u, v)
           /\ \E c \in C : /\ d.space = c.space /\ c.place <= d.place
                           /\ d.place + d.len <= c.place + c.len
                           /\ d.first - d.place = c.first - c.place
                           /\ d = c \/ (d \in Slice(c, v) /\ Through(c, u, v))
<1>1. PICK c \in C : d \in IF Through(c, u, v) THEN Slice(c, v) ELSE {c}
  BY DEF Cut
<1>2. CASE Through(c, u, v)
  <2>1. /\ d \in Crum /\ d.space = c.space /\ c.place <= d.place
        /\ d.place + d.len <= c.place + c.len
        /\ d.first - d.place = c.first - c.place
        /\ d.place + d.len <= v \/ v <= d.place
    BY <1>1, <1>2, SliceIs
  <2>2. d.place \in Nat /\ d.len \in Nat /\ v \in Nat
    BY <2>1, CrumType DEF Digit
  <2>3. ~Through(d, u, v)
    BY <2>1, <2>2 DEF Through
  <2> QED  BY <1>1, <1>2, <2>1, <2>3
<1>3. CASE ~Through(c, u, v)
  <2>1. d = c
    BY <1>1, <1>3
  <2>2. c.place \in Nat /\ c.len \in Nat
    BY CrumType
  <2> QED  BY <1>3, <2>1, <2>2
<1> QED  BY <1>2, <1>3

LEMMA SliceHas ==
    ASSUME NEW c \in Crum, NEW u \in Space, NEW v \in Digit, Through(c, u, v),
           NEW t \in Space, NEW q \in Digit, On(c, t, q)
    PROVE  \E d \in Slice(c, v) : On(d, t, q) /\ d.first - d.place = c.first - c.place
<1>1. /\ c.place \in Nat /\ c.first \in Nat /\ c.len \in Nat /\ v \in Nat /\ q \in Nat
      /\ c.place < v /\ v < c.place + c.len /\ c.space = t
      /\ c.place <= q /\ q < c.place + c.len
  BY CrumType DEF Through, Digit, On
<1> DEFINE a == [space |-> c.space, place |-> c.place, type |-> c.type, first |-> c.first,
                 len |-> v - c.place]
           b == [space |-> c.space, place |-> v, type |-> c.type,
                 first |-> c.first + (v - c.place), len |-> c.len - (v - c.place)]
<1>2. a \in Slice(c, v) /\ b \in Slice(c, v)
  BY DEF Slice
<1>3. a.space = c.space /\ a.place = c.place /\ a.len = v - c.place /\ a.first = c.first
  OBVIOUS
<1>4. b.space = c.space /\ b.place = v /\ b.len = c.len - (v - c.place)
      /\ b.first = c.first + (v - c.place)
  OBVIOUS
<1> HIDE DEF a, b
<1>5. CASE q < v
  <2>1. On(a, t, q) /\ a.first - a.place = c.first - c.place
    BY <1>1, <1>3, <1>5 DEF On
  <2> QED  BY <1>2, <2>1
<1>6. CASE ~(q < v)
  <2>1. On(b, t, q) /\ b.first - b.place = c.first - c.place
    BY <1>1, <1>4, <1>6 DEF On
  <2> QED  BY <1>2, <2>1
<1> QED  BY <1>5, <1>6

\* The two halves of a slice have no place in common.
LEMMA SliceDisjoint ==
    ASSUME NEW c \in Crum, NEW u \in Space, NEW v \in Digit, Through(c, u, v),
           NEW d \in Slice(c, v), NEW e \in Slice(c, v), NEW t, NEW q \in Digit,
           On(d, t, q), On(e, t, q)
    PROVE  d = e
<1>1. /\ c.place \in Nat /\ c.first \in Nat /\ c.len \in Nat /\ v \in Nat /\ q \in Nat
      /\ c.place < v /\ v < c.place + c.len
  BY CrumType DEF Through, Digit
<1> DEFINE a == [space |-> c.space, place |-> c.place, type |-> c.type, first |-> c.first,
                 len |-> v - c.place]
           b == [space |-> c.space, place |-> v, type |-> c.type,
                 first |-> c.first + (v - c.place), len |-> c.len - (v - c.place)]
<1>2. Slice(c, v) = {a, b}
  BY DEF Slice
<1>3. a.place = c.place /\ a.len = v - c.place
  OBVIOUS
<1>4. b.place = v
  OBVIOUS
<1> HIDE DEF a, b
<1>5. ~(On(a, t, q) /\ On(b, t, q))
  BY <1>1, <1>3, <1>4 DEF On
<1> QED  BY <1>2, <1>5

LEMMA CutFiner ==
    ASSUME NEW C \in SUBSET Crum, NEW u \in Space, NEW v \in Digit
    PROVE  /\ Finer(Cut(C, u, v), C)
           /\ \A d \in Cut(C, u, v) : ~Through(d, u, v)
<1> DEFINE D == Cut(C, u, v)
<1>1. D \in SUBSET Crum /\ \A d \in D : ~Through(d, u, v)
  BY CutParts
<1>2. ASSUME NEW t \in Space, NEW q \in Digit, NEW n \in Digit, Has(D, t, q, n)
      PROVE  Has(C, t, q, n)
  <2>1. PICK d \in D : On(d, t, q) /\ n = d.first + (q - d.place)
    BY <1>2 DEF Has
  <2>2. PICK c \in C : /\ d.space = c.space /\ c.place <= d.place
                       /\ d.place + d.len <= c.place + c.len
                       /\ d.first - d.place = c.first - c.place
    BY CutParts
  <2>3. c \in Crum /\ d \in Crum /\ q \in Nat
    BY <1>1 DEF Digit
  <2>4. /\ c.place \in Nat /\ c.first \in Nat /\ c.len \in Nat
        /\ d.place \in Nat /\ d.first \in Nat /\ d.len \in Nat
    BY <2>3, CrumType
  <2>5. On(c, t, q)
    BY <2>1, <2>2, <2>3, <2>4 DEF On
  <2>6. n = c.first + (q - c.place)
    BY <2>1, <2>2, <2>3, <2>4
  <2> QED  BY <2>5, <2>6 DEF Has
<1>3. ASSUME NEW t \in Space, NEW q \in Digit, NEW n \in Digit, Has(C, t, q, n)
      PROVE  Has(D, t, q, n)
  <2>1. PICK c \in C : On(c, t, q) /\ n = c.first + (q - c.place)
    BY <1>3 DEF Has
  <2>2. CASE Through(c, u, v)
    <3>1. PICK d \in Slice(c, v) : On(d, t, q) /\ d.first - d.place = c.first - c.place
      BY <2>1, <2>2, SliceHas
    <3>2. d \in D
      BY <2>2 DEF Cut
    <3>3. c \in Crum /\ d \in Crum /\ q \in Nat
      BY <1>1, <3>2 DEF Digit
    <3>4. /\ c.place \in Nat /\ c.first \in Nat /\ d.place \in Nat /\ d.first \in Nat
      BY <3>3, CrumType
    <3>5. n = d.first + (q - d.place)
      BY <2>1, <3>1, <3>3, <3>4
    <3> QED  BY <3>1, <3>2, <3>5 DEF Has
  <2>3. CASE ~Through(c, u, v)
    <3>1. c \in D
      BY <2>3 DEF Cut
    <3> QED  BY <2>1, <3>1 DEF Has
  <2> QED  BY <2>2, <2>3
<1>4. ASSUME Disjoint(C), NEW d \in D, NEW e \in D, NEW t \in Space, NEW q \in Digit,
             On(d, t, q), On(e, t, q)
      PROVE  d = e
  <2>1. PICK b \in C : /\ d.space = b.space /\ b.place <= d.place
                       /\ d.place + d.len <= b.place + b.len
                       /\ d = b \/ (d \in Slice(b, v) /\ Through(b, u, v))
    BY CutParts
  <2>2. PICK c \in C : /\ e.space = c.space /\ c.place <= e.place
                       /\ e.place + e.len <= c.place + c.len
                       /\ e = c \/ (e \in Slice(c, v) /\ Through(c, u, v))
    BY CutParts
  <2>3. b \in Crum /\ c \in Crum /\ d \in Crum /\ e \in Crum /\ q \in Nat
    BY <1>1 DEF Digit
  <2>4. /\ b.place \in Nat /\ b.len \in Nat /\ c.place \in Nat /\ c.len \in Nat
        /\ d.place \in Nat /\ d.len \in Nat /\ e.place \in Nat /\ e.len \in Nat
    BY <2>3, CrumType
  <2>5. On(b, t, q) /\ On(c, t, q)
    BY <1>4, <2>1, <2>2, <2>3, <2>4 DEF On
  <2>6. b = c
    BY <1>4, <2>5 DEF Disjoint
  <2>7. CASE Through(b, u, v)
    <3>1. ~Through(d, u, v) /\ ~Through(e, u, v)
      BY <1>1
    <3>2. d \in Slice(b, v) /\ e \in Slice(b, v)
      BY <2>1, <2>2, <2>6, <2>7, <3>1
    <3> QED  BY <1>4, <2>3, <2>7, <3>2, SliceDisjoint
  <2>8. CASE ~Through(b, u, v)
    BY <2>1, <2>2, <2>6, <2>8
  <2> QED  BY <2>7, <2>8
<1>5. ASSUME NEW d \in D, NEW w \in Space, NEW x \in Digit, Through(d, w, x)
      PROVE  \E c \in C : Through(c, w, x)
  <2>1. PICK c \in C : /\ d.space = c.space /\ c.place <= d.place
                       /\ d.place + d.len <= c.place + c.len
    BY CutParts
  <2>2. c \in Crum /\ d \in Crum /\ x \in Nat
    BY <1>1 DEF Digit
  <2>3. c.place \in Nat /\ c.len \in Nat /\ d.place \in Nat /\ d.len \in Nat
    BY <2>2, CrumType
  <2> QED  BY <1>5, <2>1, <2>2, <2>3 DEF Through
<1> HIDE DEF D
<1>6. Disjoint(C) => Disjoint(D)
  BY <1>4 DEF Disjoint
<1>7. Finer(D, C)
  BY <1>1, <1>2, <1>3, <1>5, <1>6 DEF Finer
<1> QED  BY <1>1, <1>7 DEF D

\* The knives are at the addresses U[i].Q[i].
Knives(knives, U, Q) ==
    /\ Len(knives) \in Nat /\ DOMAIN knives = 1..Len(knives)
    /\ U \in [1..Len(knives) -> Space] /\ Q \in [1..Len(knives) -> Digit]
    /\ \A i \in 1..Len(knives) : knives[i] = At(U[i], Q[i])

LEMMA CutsTree ==
    ASSUME NEW s, NEW m, NEW C, Rooted(s, m, C), NEW knives, NEW U, NEW Q, Knives(knives, U, Q)
    PROVE  \E D : /\ makecutsnd(Tree(s, m, C), knives) = Tree(s, m, D)
                  /\ Rooted(s, m, D) /\ Finer(D, C)
                  /\ \A i \in 1..Len(knives) : \A d \in D : ~Through(d, U[i], Q[i])
<1> DEFINE n == Len(knives)
           o == Tree(s, m, C)
<1>1. /\ n \in Nat /\ U \in [1..n -> Space] /\ Q \in [1..n -> Digit]
      /\ \A i \in 1..n : knives[i] = At(U[i], Q[i])
  BY DEF Knives
<1>2. PICK f : /\ f = [i \in 0..n |-> IF i = 0 THEN o ELSE makecut(f[i - 1], knives[i])]
               /\ makecutsnd(o, knives) = f[n]
  BY <1>1, CutsAre
<1> HIDE DEF n, o
<1>3. f[0] = o /\ \A i \in 1..n : f[i] = makecut(f[i - 1], knives[i])
  <2>1. 0 \in 0..n /\ \A i \in 1..n : i \in 0..n /\ i # 0
    BY <1>1
  <2> QED  BY <1>2, <2>1
<1> DEFINE Good(D, k) == /\ f[k] = Tree(s, m, D) /\ Rooted(s, m, D) /\ Finer(D, C)
                         /\ \A i \in 1..k : \A d \in D : ~Through(d, U[i], Q[i])
           S == {k \in 0..n : ~\E D : Good(D, k)}
<1>4. ASSUME S # {} PROVE FALSE
  <2>1. S \in SUBSET Nat
    BY <1>1
  <2> DEFINE k == Min(S)
  <2>2. k \in S /\ \A j \in S : k <= j
    BY <1>4, <2>1, MinIs
  <2> HIDE DEF k
  <2>3. k \in 0..n /\ ~\E D : Good(D, k)
    BY <2>2
  <2>4. k # 0
    <3>1. ASSUME k = 0 PROVE FALSE
      <4>1. C \in SUBSET Crum
        BY DEF Rooted
      <4>2. Good(C, 0)
        BY <1>3, <4>1, FinerSelf DEF o
      <4> QED  BY <2>3, <3>1, <4>2
    <3> QED  BY <3>1
  <2>5. k - 1 \in 0..n /\ k - 1 \notin S /\ k \in 1..n
    <3>1. k - 1 \in 0..n /\ ~(k <= k - 1) /\ k \in 1..n
      BY <1>1, <2>3, <2>4
    <3> QED  BY <2>2, <3>1
  <2>6. PICK D : Good(D, k - 1)
    BY <2>5
  <2> DEFINE E == Cut(D, U[k], Q[k])
  <2>7. U[k] \in Space /\ Q[k] \in Digit /\ knives[k] = At(U[k], Q[k])
    BY <1>1, <2>5
  <2>8. makecut(Tree(s, m, D), At(U[k], Q[k])) = Tree(s, m, E) /\ Rooted(s, m, E)
    BY <2>6, <2>7, CutTree
  <2>9. D \in SUBSET Crum
    BY <2>6 DEF Rooted
  <2>10. Finer(E, D) /\ \A d \in E : ~Through(d, U[k], Q[k])
    BY <2>7, <2>9, CutFiner
  <2> HIDE DEF E
  <2>11. f[k] = Tree(s, m, E)
    BY <1>3, <2>5, <2>6, <2>7, <2>8
  <2>12. Finer(E, C)
    BY <2>6, <2>10, FinerTransitive
  <2>13. ASSUME NEW i \in 1..k, NEW d \in E
         PROVE  ~Through(d, U[i], Q[i])
    <3>1. CASE i = k
      BY <2>10, <3>1
    <3>2. CASE i # k
      <4>1. i \in 1..(k - 1) /\ i \in 1..n
        BY <1>1, <2>5, <3>2
      <4>2. \A c \in D : ~Through(c, U[i], Q[i])
        BY <2>6, <4>1
      <4>3. U[i] \in Space /\ Q[i] \in Digit
        BY <1>1, <4>1
      <4> QED  BY <2>10, <4>2, <4>3 DEF Finer
    <3> QED  BY <3>1, <3>2
  <2>14. Good(E, k)
    BY <2>8, <2>11, <2>12, <2>13
  <2> QED  BY <2>3, <2>14
<1>5. \E D : Good(D, n)
  <2>1. n \in 0..n
    BY <1>1
  <2> QED  BY <1>4, <2>1
<1> QED  BY <1>2, <1>5 DEF o, n

\* The last of the knives before which a crum does not start.
LEMMA SectionIs ==
    ASSUME NEW o, NEW s \in Space, NEW m \in Digit, NEW c \in Crum, o.apex = At(s, m),
           Behind(s, m, c.space, c.place),
           NEW knives, NEW U, NEW Q, Knives(knives, U, Q)
    PROVE  LET k == CutSection(o, SonOf(s, m, c), knives)
           IN  /\ k \in 0..Len(knives)
               /\ k # 0 => Behind(U[k], Q[k], c.space, c.place)
               /\ \A i \in 1..Len(knives) : Behind(U[i], Q[i], c.space, c.place) => i <= k
<1> DEFINE n == Len(knives)
           T == {i \in 1..n : Behind(U[i], Q[i], c.space, c.place)}
           S == {0} \union T
<1>1. /\ n \in Nat /\ U \in [1..n -> Space] /\ Q \in [1..n -> Digit] /\ DOMAIN knives = 1..n
      /\ \A i \in 1..n : knives[i] = At(U[i], Q[i])
  BY DEF Knives
<1> HIDE DEF n
<1>2. ASSUME NEW i \in 1..n
      PROVE  WhereOnCrum(o, SonOf(s, m, c), knives[i]) <= ONMYLEFTBORDER <=>
                 Behind(U[i], Q[i], c.space, c.place)
  <2>1. U[i] \in Space /\ Q[i] \in Digit
    BY <1>1
  <2>2. WhereOnCrum(o, SonOf(s, m, c), At(U[i], Q[i])) <= ONMYLEFTBORDER <=>
                 Behind(U[i], Q[i], c.space, c.place)
    BY <2>1, SonWhere
  <2> QED  BY <1>1, <2>2
<1>3. CutSection(o, SonOf(s, m, c), knives) = Max(S)
  <2>1. {i \in DOMAIN knives : WhereOnCrum(o, SonOf(s, m, c), knives[i]) <= ONMYLEFTBORDER} = T
    BY <1>1, <1>2
  <2> QED  BY <2>1 DEF CutSection
<1>4. Max(S) \in S /\ \A k \in S : k <= Max(S)
  <2>1. S \in SUBSET (0..n) /\ S # {}
    BY <1>1
  <2> HIDE DEF S
  <2> QED  BY <1>1, <2>1, MaxIs
<1>5. Max(S) \in 0..n /\ (Max(S) # 0 => Max(S) \in T) /\ \A i \in T : i <= Max(S)
  BY <1>1, <1>4
<1> QED  BY <1>3, <1>5 DEF n

-----------------------------------------------------------------------------
(* The apex and the ends. *)

LEMMA FirstCrum ==
    ASSUME NEW C \in SUBSET Crum, C # {}
    PROVE  \E c \in C : \A d \in C : Behind(c.space, c.place, d.space, d.place)
<1> DEFINE t == Min({c.space : c \in C})
           F == {c \in C : c.space = t}
           p == Min({c.place : c \in F})
<1>1. \A c \in C : c.space \in Nat /\ c.place \in Nat
  BY CrumType
<1>2. t \in {c.space : c \in C} /\ \A k \in {c.space : c \in C} : t <= k
  <2>1. {c.space : c \in C} \in SUBSET Nat /\ {c.space : c \in C} # {}
    BY <1>1
  <2> QED  BY <2>1, MinIs
<1> HIDE DEF t
<1>3. F # {} /\ F \subseteq C
  BY <1>2
<1>4. p \in {c.place : c \in F} /\ \A k \in {c.place : c \in F} : p <= k
  <2>1. {c.place : c \in F} \in SUBSET Nat /\ {c.place : c \in F} # {}
    BY <1>1, <1>3
  <2> QED  BY <2>1, MinIs
<1> HIDE DEF p
<1>5. PICK c \in C : c.space = t /\ c.place = p
  BY <1>4
<1>6. ASSUME NEW d \in C
      PROVE  Behind(c.space, c.place, d.space, d.place)
  <2>1. t <= d.space
    BY <1>2
  <2>2. d.space = t => p <= d.place
    BY <1>4
  <2>3. t \in Nat /\ d.space \in Nat
    BY <1>1, <1>5
  <2> QED  BY <1>5, <2>1, <2>2, <2>3 DEF Behind
<1> QED  BY <1>6

\* The apex goes to the first crum, and nothing else changes.
LEMMA SetwispIs ==
    ASSUME NEW s, NEW m, NEW C, Rooted(s, m, C)
    PROVE  Fine(setwispnd(Tree(s, m, C)), C)
<1> DEFINE o == Tree(s, m, C)
<1>1. /\ s \in Space /\ m \in Digit /\ C \in SUBSET Crum
      /\ \A c \in C : c \in Crum /\ Behind(s, m, c.space, c.place)
  BY DEF Rooted
<1>2. o = [apex |-> At(s, m), sons |-> o.sons] /\ o.apex = At(s, m)
      /\ o.sons = {SonOf(s, m, c) : c \in C}
  BY DEF Tree
<1> HIDE DEF o
<1>3. CASE C = {}
  <2>1. o.sons = {}
    BY <1>2, <1>3
  <2>2. setwispnd(o) = EMPTY
    BY <1>2, <2>1 DEF setwispnd, EMPTY
  <2> QED  BY <1>3, <2>2 DEF Fine, o
<1>4. CASE C # {}
  <2>1. PICK c \in C : \A d \in C : Behind(c.space, c.place, d.space, d.place)
    BY <1>1, <1>4, FirstCrum
  <2> DEFINE a == Disp(s, m, c.space, c.place)
             dsps == {son.dsp : son \in o.sons}
             t == c.space
             p == c.place
  <2>2. c \in Crum /\ t \in Space /\ p \in Digit /\ Behind(s, m, t, p)
    BY <1>1, CrumType
  <2>3. a \in dsps
    BY <1>2, SonFields
  <2>4. ASSUME NEW b \in dsps
        PROVE  \E d \in C : /\ d \in Crum /\ d.space \in Space /\ d.place \in Digit
                            /\ b = Disp(s, m, d.space, d.place)
                            /\ Behind(s, m, d.space, d.place)
    BY <1>1, <1>2, SonFields, CrumType
  <2>5. \A b \in dsps : tumblercmp(a, b) # GREATER
    <3>1. ASSUME NEW b \in dsps PROVE tumblercmp(a, b) # GREATER
      <4>1. PICK d \in C : /\ d \in Crum /\ d.space \in Space /\ d.place \in Digit
                           /\ b = Disp(s, m, d.space, d.place)
                           /\ Behind(s, m, d.space, d.place)
        BY <2>4
      <4> QED  BY <1>1, <2>1, <2>2, <4>1, DispOrder
    <3> QED  BY <3>1
  <2> DEFINE l == Least(dsps)
  <2>6. l \in dsps /\ \A b \in dsps : tumblercmp(l, b) # GREATER
    <3> HIDE DEF a, dsps
    <3> QED  BY <2>3, <2>5 DEF Least
  <2>7. l = a
    <3>1. PICK d \in C : /\ d \in Crum /\ d.space \in Space /\ d.place \in Digit
                           /\ l = Disp(s, m, d.space, d.place)
                           /\ Behind(s, m, d.space, d.place)
      BY <2>4, <2>6
    <3>2. tumblercmp(l, a) # GREATER
      BY <2>3, <2>6
    <3>3. Behind(d.space, d.place, t, p)
      BY <1>1, <2>2, <3>1, <3>2, DispOrder
    <3>4. Behind(t, p, d.space, d.place)
      BY <2>1
    <3>5. d.space = t /\ d.place = p
      <4>1. d.space \in Nat /\ d.place \in Nat /\ t \in Nat /\ p \in Nat
        BY <2>2, <3>1, CrumType
      <4> QED  BY <3>3, <3>4, <4>1 DEF Behind
    <3> QED  BY <3>1, <3>5
  <2>8. \A d \in C : tumblersub(SonOf(s, m, d).dsp, a) = Disp(t, p, d.space, d.place)
    <3>1. ASSUME NEW d \in C
          PROVE  tumblersub(SonOf(s, m, d).dsp, a) = Disp(t, p, d.space, d.place)
      <4>1. d \in Crum /\ d.space \in Space /\ d.place \in Digit /\ Behind(t, p, d.space, d.place)
        BY <1>1, <2>1, CrumType
      <4>2. SonOf(s, m, d).dsp = Disp(s, m, d.space, d.place)
        BY SonFields
      <4> QED  BY <1>1, <2>2, <4>1, <4>2, DispSub
    <3> QED  BY <3>1
  <2>9. \A d \in C : [SonOf(s, m, d) EXCEPT !.dsp = tumblersub(@, a)] = SonOf(t, p, d)
    <3>1. ASSUME NEW d \in C
          PROVE  [SonOf(s, m, d) EXCEPT !.dsp = tumblersub(@, a)] = SonOf(t, p, d)
      <4>1. SonOf(s, m, d).dsp = Disp(s, m, d.space, d.place)
        BY SonFields
      <4>2. tumblersub(Disp(s, m, d.space, d.place), a) = Disp(t, p, d.space, d.place)
        BY <2>8, <4>1
      <4> HIDE DEF a, t, p
      <4> QED  BY <4>2 DEF SonOf
    <3> QED  BY <3>1
  <2>10. o.sons # {}
    BY <1>2, <1>4
  <2>11. setwispnd(o) = [apex |-> tumbleradd(o.apex, a),
                         sons |-> {[son EXCEPT !.dsp = tumblersub(@, a)] : son \in o.sons}]
    <3>1. setwispnd(o) = [apex |-> tumbleradd(o.apex, l),
                         sons |-> {[son EXCEPT !.dsp = tumblersub(@, l)] : son \in o.sons}]
      BY <2>10 DEF setwispnd
    <3> QED  BY <2>7, <3>1
  <2>12. tumbleradd(o.apex, a) = At(t, p)
    BY <1>1, <1>2, <2>2, DispAdd
  <2>13. {[son EXCEPT !.dsp = tumblersub(@, a)] : son \in o.sons} = {SonOf(t, p, d) : d \in C}
    <3> HIDE DEF a, t, p
    <3> QED  BY <1>2, <2>9
  <2>14. setwispnd(o) = Tree(t, p, C)
    BY <2>11, <2>12, <2>13 DEF Tree
  <2>15. Rooted(t, p, C)
    BY <1>1, <2>1, <2>2 DEF Rooted
  <2> QED  BY <2>2, <2>14, <2>15 DEF Fine, o
<1> QED  BY <1>3, <1>4

Bounded(C) == \E n \in Nat : \A c \in C : c.place + c.len <= n

LEMMA LastCrum ==
    ASSUME NEW C \in SUBSET Crum, C # {}, Bounded(C)
    PROVE  \E c \in C : \A d \in C :
              Behind(d.space, d.place + d.len, c.space, c.place + c.len)
<1> DEFINE t == Max({c.space : c \in C})
           F == {c \in C : c.space = t}
           p == Max({c.place + c.len : c \in F})
<1>1. \A c \in C : /\ c.space \in Nat /\ c.space \in 0..2
                   /\ c.place \in Nat /\ c.len \in Nat /\ c.place + c.len \in Nat
  BY CrumType DEF Space
<1>2. PICK n \in Nat : \A c \in C : c.place + c.len <= n
  BY DEF Bounded
<1>3. t \in {c.space : c \in C} /\ \A k \in {c.space : c \in C} : k <= t
  <2> DEFINE S == {c.space : c \in C}
  <2>1. S \in SUBSET (0..2) /\ S # {}
    BY <1>1
  <2> HIDE DEF S
  <2> QED  BY <2>1, MaxIs DEF S
<1> HIDE DEF t
<1>4. F # {} /\ F \subseteq C
  BY <1>3
<1>5. p \in {c.place + c.len : c \in F} /\ \A k \in {c.place + c.len : c \in F} : k <= p
  <2> DEFINE S == {c.place + c.len : c \in F}
  <2>1. S \in SUBSET (0..n) /\ S # {}
    BY <1>1, <1>2, <1>4
  <2> HIDE DEF S
  <2> QED  BY <2>1, MaxIs DEF S
<1> HIDE DEF p
<1>6. PICK c \in C : c.space = t /\ c.place + c.len = p
  BY <1>5
<1>7. ASSUME NEW d \in C
      PROVE  Behind(d.space, d.place + d.len, c.space, c.place + c.len)
  <2>1. d.space <= t
    BY <1>3
  <2>2. d.space = t => d.place + d.len <= p
    BY <1>5
  <2>3. t \in Nat /\ d.space \in Nat
    BY <1>1, <1>6
  <2> QED  BY <1>6, <2>1, <2>2, <2>3 DEF Behind
<1> QED  BY <1>7

\* The farthest end of some crums, among addresses of which none is farther.
LEMMA GreatestIs ==
    ASSUME NEW t \in Space, NEW p \in Digit, NEW S, At(t, p) \in S,
           \A a \in S : \/ a = ZEROTUMBLER
                        \/ \E u \in Space, q \in Digit : a = At(u, q) /\ Behind(u, q, t, p)
    PROVE  Greatest(S) = At(t, p)
<1> DEFINE b == At(t, p)
           g == Greatest(S)
<1>0. p \in Nat /\ t \in Nat /\ t \in Digit
  BY SpaceDigit DEF Digit
<1>1. ASSUME NEW a \in S
      PROVE  tumblercmp(b, a) # LESS
  <2>1. CASE a = ZEROTUMBLER
    <3>1. b \in Number /\ a \in Number /\ iszerotumbler(a)
      BY <1>0, <2>1, AtNumber, ZeroIsNumber
    <3>2. ~Before(b, a)
      BY <3>1 DEF Before
    <3> QED  BY <3>1, <3>2, CmpIs
  <2>2. ASSUME NEW u \in Space, NEW q \in Digit, a = At(u, q), Behind(u, q, t, p)
        PROVE  tumblercmp(b, a) # LESS
    <3>1. q \in Nat /\ u \in Nat
      BY DEF Digit, Space
    <3>2. ~(t < u \/ (t = u /\ p < q))
      BY <1>0, <2>2, <3>1 DEF Behind
    <3> QED  BY <2>2, <3>2, CmpAt
  <2> QED  BY <2>1, <2>2
<1>2. g \in S /\ \A a \in S : tumblercmp(g, a) # LESS
  <2>1. b \in S /\ \A a \in S : tumblercmp(b, a) # LESS
    BY <1>1
  <2> HIDE DEF b
  <2> QED  BY <2>1 DEF Greatest
<1>3. g # ZEROTUMBLER
  <2>1. b \in Number /\ ~iszerotumbler(b) /\ ZEROTUMBLER \in Number /\ iszerotumbler(ZEROTUMBLER)
    BY <1>0, AtNumber, ZeroIsNumber
  <2>2. Before(ZEROTUMBLER, b)
    BY <2>1 DEF Before
  <2>3. tumblercmp(ZEROTUMBLER, b) = LESS
    BY <2>1, <2>2, CmpIs
  <2> QED  BY <1>2, <2>3
<1>4. PICK u \in Space, q \in Digit : g = At(u, q) /\ Behind(u, q, t, p)
  BY <1>2, <1>3
<1>5. ~(u < t \/ (u = t /\ q < p))
  <2>1. tumblercmp(At(u, q), At(t, p)) # LESS
    BY <1>2, <1>4
  <2> QED  BY <2>1, CmpAt
<1>6. u = t /\ q = p
  <2>1. q \in Nat /\ u \in Nat
    BY DEF Digit, Space
  <2> QED  BY <1>0, <1>4, <1>5, <2>1 DEF Behind
<1> QED  BY <1>4, <1>6

LEMMA DocReachIs ==
    ASSUME NEW s, NEW m, NEW C, Rooted(s, m, C), NEW c \in C,
           \A d \in C : Behind(d.space, d.place + d.len, c.space, c.place + c.len)
    PROVE  DocReach(Tree(s, m, C)) = At(c.space, c.place + c.len)
<1> DEFINE o == Tree(s, m, C)
           S == {ZEROTUMBLER} \union {Reach(o, son) : son \in o.sons}
<1>1. /\ s \in Space /\ m \in Digit
      /\ \A d \in C : d \in Crum /\ Behind(s, m, d.space, d.place)
  BY DEF Rooted
<1>2. o.apex = At(s, m) /\ o.sons = {SonOf(s, m, d) : d \in C}
  BY DEF Tree
<1> HIDE DEF o
<1>3. \A d \in C : /\ d.space \in Space /\ d.place + d.len \in Digit
                   /\ Reach(o, SonOf(s, m, d)) = At(d.space, d.place + d.len)
  BY <1>1, <1>2, SonIs, CrumType
<1>4. At(c.space, c.place + c.len) \in S
  BY <1>2, <1>3
<1>5. ASSUME NEW a \in S
      PROVE  \/ a = ZEROTUMBLER
             \/ \E u \in Space, q \in Digit :
                   a = At(u, q) /\ Behind(u, q, c.space, c.place + c.len)
  <2>1. a = ZEROTUMBLER \/ \E d \in C : a = Reach(o, SonOf(s, m, d))
    BY <1>2
  <2> QED  BY <1>3, <2>1
<1>6. c.space \in Space /\ c.place + c.len \in Digit
  BY <1>3
<1>7. DocReach(o) = Greatest(S)
  BY DEF DocReach
<1> HIDE DEF S
<1> QED  BY <1>4, <1>5, <1>6, <1>7, GreatestIs DEF o

-----------------------------------------------------------------------------
(* Insertion. *)

Room(o, a) == IF o.sons = {} THEN [o EXCEPT !.apex = a] ELSE makeroomonleftnd(o, a)

LEMMA RoomIs ==
    ASSUME NEW o, NEW C, Fine(o, C), NEW u \in Space, NEW p \in Digit
    PROVE  \E s \in Space, m \in Digit :
              Rooted(s, m, C) /\ Behind(s, m, u, p) /\ Room(o, At(u, p)) = Tree(s, m, C)
<1> DEFINE room == Room(o, At(u, p))
<1>0. p \in Nat /\ u \in Nat
  BY DEF Digit, Space
<1>1. CASE C = {} /\ o = EMPTY
  <2>1. room = [apex |-> At(u, p), sons |-> {}]
    BY <1>1 DEF EMPTY, Room
  <2>2. Tree(u, p, C) = [apex |-> At(u, p), sons |-> {}]
    BY <1>1 DEF Tree
  <2>3. Rooted(u, p, C) /\ Behind(u, p, u, p)
    BY <1>0, <1>1 DEF Rooted, Behind
  <2> QED  BY <2>1, <2>2, <2>3
<1>2. ASSUME NEW s \in Space, NEW m \in Digit, Rooted(s, m, C), o = Tree(s, m, C),
             \E c \in C : c.space = s /\ c.place = m
      PROVE  \E t \in Space, n \in Digit :
                Rooted(t, n, C) /\ Behind(t, n, u, p) /\ room = Tree(t, n, C)
  <2>1. \A c \in C : c \in Crum /\ Behind(s, m, c.space, c.place)
    BY <1>2 DEF Rooted
  <2>2. o = [apex |-> At(s, m), sons |-> o.sons] /\ o.apex = At(s, m)
      /\ o.sons = {SonOf(s, m, c) : c \in C} /\ o.sons # {}
    BY <1>2 DEF Tree
  <2>3. m \in Nat /\ s \in Nat
    BY DEF Digit, Space
  <2>4. room = makeroomonleftnd(o, At(u, p))
    BY <2>2 DEF Room
  <2> HIDE DEF room
  <2>5. tumblercmp(At(u, p), o.apex) = LESS <=> u < s \/ (u = s /\ p < m)
    BY <2>2, CmpAt
  <2>6. CASE ~(u < s \/ (u = s /\ p < m))
    <3>1. Behind(s, m, u, p)
      BY <1>0, <2>3, <2>6 DEF Behind
    <3>2. room = o
      BY <2>4, <2>5, <2>6 DEF makeroomonleftnd
    <3> QED  BY <1>2, <3>1, <3>2
  <2>7. CASE u < s \/ (u = s /\ p < m)
    <3>1. Behind(u, p, s, m) /\ Behind(u, p, u, p)
      BY <1>0, <2>3, <2>7 DEF Behind
    <3> DEFINE w == tumblersub(At(s, m), At(u, p))
    <3>2. w = Disp(u, p, s, m)
      BY <3>1, DispAdd
    <3> HIDE DEF w
    <3>3. room = [apex |-> At(u, p),
                  sons |-> {[son EXCEPT !.dsp = tumbleradd(w, @)] : son \in o.sons}]
      BY <2>2, <2>4, <2>5, <2>7 DEF makeroomonleftnd, w
    <3>4. ASSUME NEW c \in C
          PROVE  /\ [SonOf(s, m, c) EXCEPT !.dsp = tumbleradd(w, @)] = SonOf(u, p, c)
                 /\ Behind(u, p, c.space, c.place)
      <4>1. c.space \in Space /\ c.place \in Digit /\ Behind(s, m, c.space, c.place)
        BY <2>1, CrumType
      <4>2. /\ tumbleradd(w, Disp(s, m, c.space, c.place)) = Disp(u, p, c.space, c.place)
            /\ Behind(u, p, c.space, c.place)
        BY <3>1, <3>2, <4>1, DispSub
      <4> QED  BY <4>2 DEF SonOf
    <3>5. room = Tree(u, p, C)
      <4>1. {[son EXCEPT !.dsp = tumbleradd(w, @)] : son \in o.sons} = {SonOf(u, p, c) : c \in C}
        BY <2>2, <3>4
      <4> QED  BY <3>3, <4>1 DEF Tree
    <3>6. Rooted(u, p, C)
      BY <1>2, <3>4 DEF Rooted
    <3> QED  BY <3>1, <3>5, <3>6
  <2> QED  BY <2>6, <2>7
<1> HIDE DEF room
<1>3. \E s \in Space, m \in Digit :
              Rooted(s, m, C) /\ Behind(s, m, u, p) /\ room = Tree(s, m, C)
  BY <1>1, <1>2 DEF Fine, room
<1> QED  BY <1>3 DEF room

NewCrum(u, p, y, f, n) == [space |-> u, place |-> p, type |-> y, first |-> f, len |-> n]

\* The crum c with n more places.
Longer(c, n) == NewCrum(c.space, c.place, c.type, c.first, c.len + n)

\* D is C and n atoms more, from number f on, at u.p and behind.
Added(D, C, u, p, f, n) ==
    /\ D \in SUBSET Crum /\ Disjoint(D)
    /\ \A t \in Space, q \in Digit, i \in Digit :
          Has(D, t, q, i) <=> \/ Has(C, t, q, i)
                              \/ t = u /\ p <= q /\ q < p + n /\ i = f + (q - p)

Free(C, u, p, n) == \A c \in C : \A q \in Digit : p <= q /\ q < p + n => ~On(c, u, q)

LEMMA NewCrumIs ==
    ASSUME NEW u \in Space, NEW p \in Digit, NEW y \in Digit, NEW f \in Digit, NEW n \in Digit
    PROVE  LET c == NewCrum(u, p, y, f, n)
           IN  c \in Crum /\ c.space = u /\ c.place = p /\ c.type = y /\ c.first = f /\ c.len = n
BY CrumIs DEF NewCrum

LEMMA LongerIs ==
    ASSUME NEW c \in Crum, NEW n \in Digit
    PROVE  LET e == Longer(c, n)
           IN  e \in Crum /\ e.space = c.space /\ e.place = c.place /\ e.type = c.type
               /\ e.first = c.first /\ e.len = c.len + n
<1>1. c.len + n \in Digit
  BY CrumType DEF Digit
<1> QED  BY <1>1, CrumType DEF Longer, NewCrum, Crum

LEMMA SameAt ==
    ASSUME NEW t \in Digit, NEW p \in Digit, NEW u \in Digit, NEW q \in Digit, At(t, p) = At(u, q)
    PROVE  t = u /\ p = q
BY AtBefore

LEMMA AddedNew ==
    ASSUME NEW C \in SUBSET Crum, Disjoint(C), NEW u \in Space, NEW p \in Digit, NEW y \in Digit,
           NEW f \in Digit, NEW n \in Digit, Free(C, u, p, n)
    PROVE  Added(C \union {NewCrum(u, p, y, f, n)}, C, u, p, f, n)
<1> DEFINE e == NewCrum(u, p, y, f, n)
           D == C \union {e}
<1>1. e \in Crum /\ e.space = u /\ e.place = p /\ e.first = f /\ e.len = n
  BY NewCrumIs
<1> HIDE DEF e
<1>2. D \in SUBSET Crum
  BY <1>1
<1>3. \A t, q : On(e, t, q) <=> t = u /\ p <= q /\ q < p + n
  BY <1>1 DEF On
<1>4. ASSUME NEW t \in Space, NEW q \in Digit, NEW i \in Digit
      PROVE  Has(D, t, q, i) <=> \/ Has(C, t, q, i)
                                 \/ t = u /\ p <= q /\ q < p + n /\ i = f + (q - p)
  <2>1. Has(D, t, q, i) <=> Has(C, t, q, i) \/ (On(e, t, q) /\ i = e.first + (q - e.place))
    BY DEF Has
  <2> QED  BY <1>1, <1>3, <2>1
<1>5. ASSUME NEW c \in D, NEW d \in D, NEW t \in Space, NEW q \in Digit, On(c, t, q), On(d, t, q)
      PROVE  c = d
  <2>1. CASE c \in C /\ d \in C
    BY <1>5, <2>1 DEF Disjoint
  <2>2. c \in C => ~(d = e)
    BY <1>3, <1>5 DEF Free
  <2>3. d \in C => ~(c = e)
    BY <1>3, <1>5 DEF Free
  <2> QED  BY <2>1, <2>2, <2>3
<1> HIDE DEF D
<1>6. Disjoint(D)
  BY <1>5 DEF Disjoint
<1> QED  BY <1>2, <1>4, <1>6 DEF Added, D, e

LEMMA AddedLonger ==
    ASSUME NEW C \in SUBSET Crum, Disjoint(C), NEW u \in Space, NEW p \in Digit,
           NEW f \in Digit, NEW n \in Digit, Free(C, u, p, n),
           NEW c \in C, c.space = u, c.place + c.len = p, c.first + c.len = f
    PROVE  Added((C \ {c}) \union {Longer(c, n)}, C, u, p, f, n)
<1> DEFINE e == Longer(c, n)
           D == (C \ {c}) \union {e}
<1>0. /\ c \in Crum /\ c.place \in Nat /\ c.len \in Nat /\ c.first \in Nat /\ n \in Nat /\ p \in Nat
      /\ c.len > 0 /\ c.space \in Space /\ c.place \in Digit /\ c.type \in Digit
      /\ c.first \in Digit /\ c.len + n \in Digit /\ f \in Nat
  BY CrumType DEF Digit
<1>1. e \in Crum /\ e.space = u /\ e.place = c.place /\ e.first = c.first /\ e.len = c.len + n
  BY LongerIs
<1> HIDE DEF e
<1>2. D \in SUBSET Crum
  BY <1>1
<1>3. ASSUME NEW t, NEW q \in Digit
      PROVE  On(e, t, q) <=> On(c, t, q) \/ (t = u /\ p <= q /\ q < p + n)
  <2>1. q \in Nat
    BY DEF Digit
  <2> QED  BY <1>0, <1>1, <2>1 DEF On
<1>4. ASSUME NEW t \in Space, NEW q \in Digit, NEW i \in Digit
      PROVE  Has(D, t, q, i) <=> \/ Has(C, t, q, i)
                                 \/ t = u /\ p <= q /\ q < p + n /\ i = f + (q - p)
  <2>1. Has(D, t, q, i) <=> \/ \E d \in C \ {c} : On(d, t, q) /\ i = d.first + (q - d.place)
                            \/ On(e, t, q) /\ i = e.first + (q - e.place)
    BY DEF Has
  <2>2. Has(C, t, q, i) <=> \/ \E d \in C \ {c} : On(d, t, q) /\ i = d.first + (q - d.place)
                            \/ On(c, t, q) /\ i = c.first + (q - c.place)
    BY DEF Has
  <2>3. q \in Nat
    BY DEF Digit
  <2>4. c.first + (q - c.place) = f + (q - p)
    BY <1>0, <2>3
  <2> QED  BY <1>1, <1>3, <2>1, <2>2, <2>4
<1>5. ASSUME NEW d \in C \ {c}, NEW t \in Space, NEW q \in Digit, On(d, t, q)
      PROVE  ~On(e, t, q)
  <2>1. ~On(c, t, q)
    BY <1>5 DEF Disjoint
  <2>2. ~(t = u /\ p <= q /\ q < p + n)
    BY <1>5 DEF Free
  <2> QED  BY <1>3, <2>1, <2>2
<1>6. ASSUME NEW b \in D, NEW d \in D, NEW t \in Space, NEW q \in Digit, On(b, t, q), On(d, t, q)
      PROVE  b = d
  <2>1. CASE b \in C \ {c} /\ d \in C \ {c}
    BY <1>6, <2>1 DEF Disjoint
  <2>2. CASE b \in C \ {c} /\ d = e
    BY <1>5, <1>6, <2>2
  <2>3. CASE b = e /\ d \in C \ {c}
    BY <1>5, <1>6, <2>3
  <2>4. CASE b = e /\ d = e
    BY <2>4
  <2> QED  BY <2>1, <2>2, <2>3, <2>4
<1> HIDE DEF D
<1>7. Disjoint(D)
  BY <1>6 DEF Disjoint
<1> QED  BY <1>2, <1>4, <1>7 DEF Added, D, e

\* What doinsertnd makes of a tree in which the place is free.
LEMMA InsertIs ==
    ASSUME NEW o, NEW C, Fine(o, C), Disjoint(C), NEW u \in Space, NEW p \in Digit,
           NEW y \in Digit, NEW f \in Digit, NEW n \in Digit, Free(C, u, p, n),
           NEW r \in doinsertnd(o, At(u, p), At(y, f), n)
    PROVE  \E D : Fine(r, D) /\ Added(D, C, u, p, f, n)
<1> DEFINE room == Room(o, At(u, p))
           new == [dsp |-> tumblersub(At(u, p), room.apex), isa |-> At(y, f), len |-> n]
           first == setwispnd([room EXCEPT !.sons = @ \union {new}])
           second(son) ==
             setwispnd([room EXCEPT !.sons = (@ \ {son}) \union {[son EXCEPT !.len = @ + n]}])
<1>1. \/ r = first
      \/ \E son \in room.sons : isanextensionnd(room, son, At(u, p), At(y, f)) /\ r = second(son)
  BY DEF doinsertnd, Room
<1>2. PICK s \in Space, m \in Digit : Rooted(s, m, C) /\ Behind(s, m, u, p) /\ room = Tree(s, m, C)
  BY RoomIs
<1> HIDE DEF room
<1>3. C \in SUBSET Crum /\ \A c \in C : c \in Crum /\ Behind(s, m, c.space, c.place)
  BY <1>2 DEF Rooted
<1>4. /\ room = [apex |-> At(s, m), sons |-> room.sons] /\ room.apex = At(s, m)
      /\ room.sons = {SonOf(s, m, c) : c \in C}
  BY <1>2 DEF Tree
<1>5. CASE r = first
  <2> DEFINE e == NewCrum(u, p, y, f, n)
             D == C \union {e}
  <2>1. e \in Crum /\ e.space = u /\ e.place = p /\ e.type = y /\ e.first = f /\ e.len = n
    BY NewCrumIs
  <2> HIDE DEF e
  <2>2. new = SonOf(s, m, e)
    <3>1. tumblersub(At(u, p), room.apex) = Disp(s, m, u, p)
      BY <1>2, <1>4, DispAdd
    <3> QED  BY <2>1, <3>1 DEF SonOf
  <2> HIDE DEF new
  <2>3. [room EXCEPT !.sons = @ \union {new}] = Tree(s, m, D)
    <3>1. room.sons \union {new} = {SonOf(s, m, c) : c \in D}
      BY <1>4, <2>2
    <3>2. [room EXCEPT !.sons = @ \union {new}] =
             [apex |-> At(s, m), sons |-> room.sons \union {new}]
      BY <1>4
    <3> QED  BY <3>1, <3>2 DEF Tree
  <2>4. Rooted(s, m, D)
    BY <1>2, <1>3, <2>1 DEF Rooted
  <2>5. Fine(r, D)
    BY <1>5, <2>3, <2>4, SetwispIs
  <2>6. Added(D, C, u, p, f, n)
    BY <1>3, AddedNew DEF e
  <2> QED  BY <2>5, <2>6
<1>6. ASSUME NEW son \in room.sons, isanextensionnd(room, son, At(u, p), At(y, f)),
             r = second(son)
      PROVE  \E D : Fine(r, D) /\ Added(D, C, u, p, f, n)
  <2>1. PICK c \in C : son = SonOf(s, m, c)
    BY <1>4, <1>6
  <2>2. /\ c \in Crum /\ Behind(s, m, c.space, c.place)
        /\ c.space \in Space /\ c.space \in Digit /\ c.place \in Digit /\ c.type \in Digit
        /\ c.first \in Digit /\ c.len \in Digit /\ c.len \in Nat /\ c.place + c.len \in Digit
    BY <1>3, CrumType
  <2>3. c.space = u /\ c.place + c.len = p
    <3>1. Reach(room, son) = At(u, p)
      BY <1>6 DEF isanextensionnd
    <3>2. Reach(room, son) = At(c.space, c.place + c.len)
      BY <1>2, <1>4, <2>1, <2>2, SonIs
    <3>3. u \in Digit
      BY SpaceDigit
    <3>4. At(c.space, c.place + c.len) = At(u, p)
      BY <3>1, <3>2
    <3> QED  BY <2>2, <3>3, <3>4, SameAt
  <2>4. c.first + c.len = f
    <3>1. tumblerincrement(son.isa, 0, son.len) = At(y, f)
      BY <1>6 DEF isanextensionnd
    <3>2. son.isa = At(c.type, c.first) /\ son.len = c.len
      BY <2>1, SonFields
    <3>3. At(c.type, c.first + c.len) = At(y, f)
      BY <2>2, <3>1, <3>2, IsaMore
    <3>4. c.first + c.len \in Digit
      BY <2>2 DEF Digit
    <3> QED  BY <2>2, <3>3, <3>4, SameAt
  <2> DEFINE e == Longer(c, n)
             D == (C \ {c}) \union {e}
  <2>5. e \in Crum /\ e.space = c.space /\ e.place = c.place /\ e.type = c.type
        /\ e.first = c.first /\ e.len = c.len + n
    BY <2>2, LongerIs
  <2> HIDE DEF e
  <2>6. [son EXCEPT !.len = @ + n] = SonOf(s, m, e)
    BY <2>1, <2>5 DEF SonOf
  <2>7. room.sons \ {son} = {SonOf(s, m, d) : d \in C \ {c}}
    <3>1. \A d \in C : SonOf(s, m, d) = son => d = c
      BY <1>2, <1>3, <2>1, <2>2, SonOnly
    <3> QED  BY <1>4, <2>1, <3>1
  <2>8. [room EXCEPT !.sons = (@ \ {son}) \union {[son EXCEPT !.len = @ + n]}] = Tree(s, m, D)
    <3> DEFINE l == [son EXCEPT !.len = @ + n]
    <3>1. (room.sons \ {son}) \union {l} = {SonOf(s, m, d) : d \in D}
      BY <2>6, <2>7
    <3> HIDE DEF l
    <3>2. [room EXCEPT !.sons = (@ \ {son}) \union {l}] =
             [apex |-> At(s, m), sons |-> (room.sons \ {son}) \union {l}]
      BY <1>4
    <3>3. [room EXCEPT !.sons = (@ \ {son}) \union {l}] = Tree(s, m, D)
      BY <3>1, <3>2 DEF Tree
    <3> QED  BY <3>3 DEF l
  <2>9. Rooted(s, m, D)
    BY <1>2, <1>3, <2>2, <2>5 DEF Rooted
  <2>10. Fine(r, D)
    BY <1>6, <2>8, <2>9, SetwispIs
  <2>11. Added(D, C, u, p, f, n)
    BY <1>3, <2>3, <2>4, AddedLonger DEF e
  <2> QED  BY <2>10, <2>11
<1> QED  BY <1>1, <1>5, <1>6

-----------------------------------------------------------------------------
(* What the crums say. *)

\* The links stand at places of their own, up to a last one.
Linked(L) == \E n \in Nat : DOMAIN L \subseteq 1..n /\ L \in [DOMAIN L -> Digit]

\* The crums say the text T and the links L, each atom once.
Says(C, T, L) ==
    /\ C \in SUBSET Crum /\ Disjoint(C)
    /\ T \in Seq(Digit) /\ Linked(L)
    /\ \A q \in Digit, i \in Digit : Has(C, 1, q, i) <=> q \in 1..Len(T) /\ i = T[q]
    /\ \A q \in Digit, i \in Digit : Has(C, 2, q, i) <=> q \in DOMAIN L /\ i = L[q]

LEMMA OnNumber ==
    ASSUME NEW c \in Crum, NEW t \in Space, NEW q \in Digit, On(c, t, q)
    PROVE  c.first + (q - c.place) \in Digit
<1>1. c.first \in Nat /\ c.first > 0 /\ c.place \in Nat /\ q \in Nat /\ c.place <= q
  BY CrumType DEF Digit, On
<1> QED  BY <1>1 DEF Digit

LEMMA SaysOn ==
    ASSUME NEW C, NEW T, NEW L, Says(C, T, L), NEW c \in C, NEW q \in Digit
    PROVE  /\ On(c, 1, q) => q \in 1..Len(T) /\ T[q] = c.first + (q - c.place)
           /\ On(c, 2, q) => q \in DOMAIN L /\ L[q] = c.first + (q - c.place)
<1>1. c \in Crum
  BY DEF Says
<1>2. ASSUME NEW t \in Space, On(c, t, q)
      PROVE  /\ c.first + (q - c.place) \in Digit
             /\ Has(C, t, q, c.first + (q - c.place))
  BY <1>1, <1>2, OnNumber DEF Has
<1> QED  BY <1>2 DEF Says, Space

LEMMA SaysText ==
    ASSUME NEW C, NEW T, NEW L, Says(C, T, L), NEW q \in 1..Len(T)
    PROVE  \E c \in C : On(c, 1, q) /\ T[q] = c.first + (q - c.place)
<1>1. Len(T) \in Nat /\ T[q] \in Digit /\ q \in Digit
  BY DEF Says, Digit
<1>2. Has(C, 1, q, T[q])
  BY <1>1 DEF Says
<1> QED  BY <1>2 DEF Has

LEMMA SaysLinks ==
    ASSUME NEW C, NEW T, NEW L, Says(C, T, L), NEW q \in DOMAIN L
    PROVE  q \in Digit /\ \E c \in C : On(c, 2, q) /\ L[q] = c.first + (q - c.place)
<1>1. L[q] \in Digit /\ q \in Digit
  BY DEF Says, Linked, Digit
<1>2. Has(C, 2, q, L[q])
  BY <1>1 DEF Says
<1> QED  BY <1>1, <1>2 DEF Has

\* The end of a crum.
LEMMA SaysEnd ==
    ASSUME NEW C, NEW T, NEW L, Says(C, T, L), NEW c \in C
    PROVE  /\ c.space = 1 => c.place + c.len <= Len(T) + 1
           /\ \A n \in Nat : c.space = 2 /\ DOMAIN L \subseteq 1..n => c.place + c.len <= n + 1
           /\ c.space = 1 \/ c.space = 2
<1>1. c \in Crum /\ Len(T) \in Nat
  BY DEF Says
<1>2. /\ c.place \in Nat /\ c.len \in Nat /\ c.len > 0 /\ c.place > 0 /\ c.space \in Space
  BY <1>1, CrumType
<1> DEFINE q == c.place + c.len - 1
<1>3. q \in Digit /\ q \in Nat /\ c.place <= q /\ q < c.place + c.len /\ c.place + c.len = q + 1
  BY <1>2 DEF Digit
<1> HIDE DEF q
<1>4. On(c, c.space, q)
  BY <1>3 DEF On
<1>5. /\ c.space = 1 => q \in 1..Len(T)
      /\ c.space = 2 => q \in DOMAIN L
  BY <1>3, <1>4, SaysOn
<1> QED  BY <1>1, <1>2, <1>3, <1>5 DEF Space

LEMMA SaysBounded ==
    ASSUME NEW C, NEW T, NEW L, Says(C, T, L)
    PROVE  Bounded(C)
<1>1. PICK n \in Nat : DOMAIN L \subseteq 1..n
  BY DEF Says, Linked
<1>2. Len(T) \in Nat
  BY DEF Says
<1>3. ASSUME NEW c \in C
      PROVE  c.place + c.len <= n + Len(T) + 1
  <2>1. c.place \in Nat /\ c.len \in Nat
    BY CrumType DEF Says
  <2>2. /\ c.space = 1 => c.place + c.len <= Len(T) + 1
        /\ c.space = 2 => c.place + c.len <= n + 1
        /\ c.space = 1 \/ c.space = 2
    BY <1>1, SaysEnd
  <2> HIDE DEF Says
  <2> QED  BY <1>2, <2>1, <2>2
<1>4. n + Len(T) + 1 \in Nat
  BY <1>2
<1> QED  BY <1>3, <1>4 DEF Bounded

\* The apex of a document with a text is at 1.1.
LEMMA SaysApex ==
    ASSUME NEW C, NEW T, NEW L, Says(C, T, L), NEW o, Fine(o, C), Len(T) # 0
    PROVE  Rooted(1, 1, C) /\ o = Tree(1, 1, C)
<1>1. Len(T) \in Nat /\ 1 \in 1..Len(T)
  BY DEF Says
<1>2. PICK c \in C : On(c, 1, 1)
  BY <1>1, SaysText
<1>3. c \in Crum
  BY DEF Says
<1>4. c.space = 1 /\ c.place = 1
  BY <1>2, <1>3, CrumType DEF On
<1>5. PICK s \in Space, m \in Digit :
          Rooted(s, m, C) /\ o = Tree(s, m, C) /\ \E d \in C : d.space = s /\ d.place = m
  BY <1>2 DEF Fine
<1>6. Behind(s, m, 1, 1)
  BY <1>4, <1>5 DEF Rooted
<1>7. s = 1 /\ m = 1
  BY <1>6 DEF Behind, Space, Digit
<1> QED  BY <1>5, <1>7

-----------------------------------------------------------------------------
(* Crums at new places. *)

Moved(c, p) == NewCrum(c.space, p, c.type, c.first, c.len)

Relaid(K, to) == {Moved(c, to[c]) : c \in K}

LEMMA MovedIs ==
    ASSUME NEW c \in Crum, NEW p \in Digit
    PROVE  LET d == Moved(c, p)
           IN  d \in Crum /\ d.space = c.space /\ d.place = p /\ d.type = c.type
               /\ d.first = c.first /\ d.len = c.len
BY CrumType DEF Moved, NewCrum, Crum

LEMMA RelaidIs ==
    ASSUME NEW K \in SUBSET Crum, NEW to \in [K -> Digit]
    PROVE  /\ Relaid(K, to) \in SUBSET Crum
           /\ \A t, q, i : Has(Relaid(K, to), t, q, i) <=>
                 \E c \in K : /\ c.space = t /\ to[c] <= q /\ q < to[c] + c.len
                              /\ i = c.first + (q - to[c])
           /\ (\A c, d \in K : \A q \in Digit :
                 c.space = d.space /\ to[c] <= q /\ q < to[c] + c.len
                                   /\ to[d] <= q /\ q < to[d] + d.len => c = d)
                 => Disjoint(Relaid(K, to))
<1> DEFINE E == Relaid(K, to)
<1>1. ASSUME NEW c \in K
      PROVE  LET d == Moved(c, to[c])
             IN  d \in Crum /\ d.space = c.space /\ d.place = to[c] /\ d.type = c.type
                 /\ d.first = c.first /\ d.len = c.len
  <2>1. c \in Crum /\ to[c] \in Digit
    OBVIOUS
  <2> QED  BY <2>1, MovedIs
<1>2. E \in SUBSET Crum
  BY <1>1 DEF Relaid
<1>3. ASSUME NEW t, NEW q, NEW i
      PROVE  Has(E, t, q, i) <=>
                 \E c \in K : /\ c.space = t /\ to[c] <= q /\ q < to[c] + c.len
                              /\ i = c.first + (q - to[c])
  <2>1. Has(E, t, q, i) <=>
            \E c \in K : LET d == Moved(c, to[c])
                         IN  On(d, t, q) /\ i = d.first + (q - d.place)
    BY DEF Has, Relaid
  <2>2. ASSUME NEW c \in K
        PROVE  LET d == Moved(c, to[c])
               IN  On(d, t, q) /\ i = d.first + (q - d.place) <=>
                      /\ c.space = t /\ to[c] <= q /\ q < to[c] + c.len
                      /\ i = c.first + (q - to[c])
    BY <1>1 DEF On
  <2> QED  BY <2>1, <2>2
<1>4. ASSUME \A c, d \in K : \A q \in Digit :
                 c.space = d.space /\ to[c] <= q /\ q < to[c] + c.len
                                   /\ to[d] <= q /\ q < to[d] + d.len => c = d,
             NEW a \in E, NEW b \in E, NEW t \in Space, NEW q \in Digit, On(a, t, q), On(b, t, q)
      PROVE  a = b
  <2>1. PICK c \in K : a = Moved(c, to[c])
    BY DEF Relaid
  <2>2. PICK d \in K : b = Moved(d, to[d])
    BY DEF Relaid
  <2>3. a.space = c.space /\ a.place = to[c] /\ a.len = c.len
    BY <1>1, <2>1
  <2>4. b.space = d.space /\ b.place = to[d] /\ b.len = d.len
    BY <1>1, <2>2
  <2>5. c = d
    BY <1>4, <2>3, <2>4 DEF On
  <2> QED  BY <2>1, <2>2, <2>5
<1> HIDE DEF E
<1>5. (\A c, d \in K : \A q \in Digit :
                 c.space = d.space /\ to[c] <= q /\ q < to[c] + c.len
                                   /\ to[d] <= q /\ q < to[d] + d.len => c = d)
                 => Disjoint(E)
  BY <1>4 DEF Disjoint
<1> QED  BY <1>2, <1>3, <1>5 DEF E

\* What a finer set has at a place.
LEMMA FinerHas ==
    ASSUME NEW D, NEW C, Finer(D, C), NEW t \in Space, NEW q \in Digit
    PROVE  /\ \A c \in D : On(c, t, q) =>
                 c.first + (q - c.place) \in Digit /\ Has(C, t, q, c.first + (q - c.place))
           /\ \A i \in Digit : Has(C, t, q, i) =>
                 \E c \in D : On(c, t, q) /\ i = c.first + (q - c.place)
<1>1. D \in SUBSET Crum
  BY DEF Finer
<1>2. ASSUME NEW c \in D, On(c, t, q)
      PROVE  c.first + (q - c.place) \in Digit /\ Has(C, t, q, c.first + (q - c.place))
  <2>1. c.first + (q - c.place) \in Digit
    BY <1>1, <1>2, OnNumber
  <2>2. Has(D, t, q, c.first + (q - c.place))
    BY <1>2 DEF Has
  <2> QED  BY <2>1, <2>2 DEF Finer
<1>3. ASSUME NEW i \in Digit, Has(C, t, q, i)
      PROVE  \E c \in D : On(c, t, q) /\ i = c.first + (q - c.place)
  BY <1>3 DEF Finer, Has
<1> QED  BY <1>2, <1>3

\* D is C with the text behind p moved n places.
Gapped(D, C, p, n) ==
    /\ D \in SUBSET Crum /\ Disjoint(D)
    /\ \A q \in Digit, i \in Digit :
          /\ q < p => (Has(D, 1, q, i) <=> Has(C, 1, q, i))
          /\ p <= q => (Has(D, 1, q, i) <=> p + n <= q /\ Has(C, 1, q - n, i))
          /\ Has(D, 2, q, i) <=> Has(C, 2, q, i)

\* Where nothing is behind, there is nothing to move.
LEMMA GapNothing ==
    ASSUME NEW C \in SUBSET Crum, Disjoint(C), NEW p \in Digit, NEW n \in Digit,
           \A c \in C : \A q \in Digit : p <= q => ~On(c, 1, q)
    PROVE  Gapped(C, C, p, n)
<1>1. \A q \in Digit, i \in Digit : p <= q => ~Has(C, 1, q, i)
  BY DEF Has
<1>2. \A q \in Digit : p + n <= q => q - n \in Digit /\ p <= q - n
  BY DEF Digit
<1> QED  BY <1>1, <1>2 DEF Gapped

\* The crums that start at p or behind, moved.
GapTo(D, p, n) ==
    [c \in D |-> IF c.space = 1 /\ p <= c.place THEN c.place + n ELSE c.place]

LEMMA GapRelaid ==
    ASSUME NEW C, NEW D, Finer(D, C), Disjoint(C), NEW p \in Digit, NEW n \in Digit,
           \A c \in D : ~Through(c, 1, p)
    PROVE  /\ GapTo(D, p, n) \in [D -> Digit]
           /\ Gapped(Relaid(D, GapTo(D, p, n)), C, p, n)
<1> DEFINE to == GapTo(D, p, n)
           E == Relaid(D, to)
<1>1. D \in SUBSET Crum /\ Disjoint(D)
  BY DEF Finer
<1>2. p \in Nat /\ n \in Nat /\ n > 0 /\ p > 0
  BY DEF Digit
<1>3. \A c \in D : /\ c.place \in Nat /\ c.len \in Nat /\ c.first \in Nat /\ c.place \in Digit
                   /\ c.space \in Space
                   /\ c.place + n \in Digit
  BY <1>1, CrumType DEF Digit
<1>4. to \in [D -> Digit] /\ \A c \in D :
         to[c] = IF c.space = 1 /\ p <= c.place THEN c.place + n ELSE c.place
  BY <1>3 DEF GapTo
<1> HIDE DEF to
<1>5. /\ E \in SUBSET Crum
      /\ \A t, q, i : Has(E, t, q, i) <=>
                 \E c \in D : /\ c.space = t /\ to[c] <= q /\ q < to[c] + c.len
                              /\ i = c.first + (q - to[c])
      /\ (\A c, d \in D : \A q \in Digit :
                 c.space = d.space /\ to[c] <= q /\ q < to[c] + c.len
                                   /\ to[d] <= q /\ q < to[d] + d.len => c = d)
                 => Disjoint(E)
  BY <1>1, <1>4, RelaidIs
<1> HIDE DEF E
\* Where a crum is that is to be found at q.
<1>6. ASSUME NEW c \in D, NEW q \in Digit
      PROVE  /\ c.space = 1 /\ q < p =>
                   (to[c] <= q /\ q < to[c] + c.len <=> On(c, 1, q))
             /\ c.space = 1 /\ q < p /\ On(c, 1, q) => to[c] = c.place
             /\ c.space = 1 /\ p <= q =>
                   (to[c] <= q /\ q < to[c] + c.len <=> p + n <= q /\ On(c, 1, q - n))
             /\ c.space = 1 /\ p + n <= q /\ On(c, 1, q - n) => to[c] = c.place + n
             /\ c.space = 2 => to[c] = c.place
  <2>1. q \in Nat
    BY DEF Digit
  <2>2. ~(c.space = 1 /\ c.place < p /\ p < c.place + c.len)
    BY DEF Through
  <2>3. CASE c.space = 1 /\ p <= c.place
    BY <1>2, <1>3, <1>4, <2>1, <2>3 DEF On
  <2>4. CASE c.space = 1 /\ ~(p <= c.place)
    <3>1. to[c] = c.place /\ c.place < p /\ c.place + c.len <= p
      BY <1>2, <1>3, <1>4, <2>2, <2>4
    <3> QED  BY <1>2, <1>3, <2>1, <2>4, <3>1 DEF On
  <2>5. CASE c.space # 1
    BY <1>4, <2>5
  <2> QED  BY <2>3, <2>4, <2>5
<1>7. ASSUME NEW q \in Digit, NEW i \in Digit
      PROVE  /\ q < p => (Has(E, 1, q, i) <=> Has(C, 1, q, i))
             /\ p <= q => (Has(E, 1, q, i) <=> p + n <= q /\ Has(C, 1, q - n, i))
             /\ Has(E, 2, q, i) <=> Has(C, 2, q, i)
  <2>0. q \in Nat /\ 1 \in Space /\ 2 \in Space /\ \A t, d : On(d, t, q) => d.space = t
    BY DEF Digit, Space, On
  <2>1. ASSUME q < p
        PROVE  Has(E, 1, q, i) <=> Has(C, 1, q, i)
    <3>1. ASSUME NEW c \in D
          PROVE  (/\ c.space = 1 /\ to[c] <= q /\ q < to[c] + c.len /\ i = c.first + (q - to[c]))
                    <=> On(c, 1, q) /\ i = c.first + (q - c.place)
      BY <1>6, <2>0, <2>1
    <3>2. Has(E, 1, q, i) <=> Has(D, 1, q, i)
      BY <1>5, <3>1, SMTT(30) DEF Has
    <3> QED  BY <2>0, <3>2 DEF Finer
  <2>2. ASSUME p <= q
        PROVE  Has(E, 1, q, i) <=> p + n <= q /\ Has(C, 1, q - n, i)
    <3>1. ASSUME NEW c \in D
          PROVE  (/\ c.space = 1 /\ to[c] <= q /\ q < to[c] + c.len /\ i = c.first + (q - to[c]))
                    <=> p + n <= q /\ On(c, 1, q - n) /\ i = c.first + ((q - n) - c.place)
      <4>1. On(c, 1, q - n) => c.space = 1
        BY DEF On
      <4>2. q - (c.place + n) = (q - n) - c.place
        BY <1>2, <1>3, <2>0
      <4>3. CASE c.space = 1 /\ p + n <= q /\ On(c, 1, q - n)
        BY <1>6, <2>2, <4>2, <4>3
      <4>4. CASE ~(c.space = 1 /\ p + n <= q /\ On(c, 1, q - n))
        BY <1>6, <2>2, <4>1, <4>4
      <4> QED  BY <4>3, <4>4
    <3>2. Has(E, 1, q, i) <=> p + n <= q /\ Has(D, 1, q - n, i)
      <4>1. Has(E, 1, q, i) <=>
               \E c \in D : /\ c.space = 1 /\ to[c] <= q /\ q < to[c] + c.len
                           /\ i = c.first + (q - to[c])
        BY <1>5
      <4>2. Has(E, 1, q, i) <=>
               \E c \in D : p + n <= q /\ On(c, 1, q - n) /\ i = c.first + ((q - n) - c.place)
        BY <3>1, <4>1
      <4> QED  BY <4>2 DEF Has
    <3>3. p + n <= q => q - n \in Digit
      BY <1>2, <2>0 DEF Digit
    <3> QED  BY <2>0, <3>2, <3>3 DEF Finer
  <2>3. Has(E, 2, q, i) <=> Has(C, 2, q, i)
    <3>1. ASSUME NEW c \in D
          PROVE  (/\ c.space = 2 /\ to[c] <= q /\ q < to[c] + c.len /\ i = c.first + (q - to[c]))
                    <=> On(c, 2, q) /\ i = c.first + (q - c.place)
      BY <1>6, <2>0 DEF On
    <3>2. Has(E, 2, q, i) <=> Has(D, 2, q, i)
      BY <1>5, <3>1, SMTT(30) DEF Has
    <3> QED  BY <2>0, <3>2 DEF Finer
  <2> QED  BY <2>1, <2>2, <2>3
<1>8. ASSUME NEW c \in D, NEW d \in D, NEW q \in Digit, c.space = d.space,
             to[c] <= q, q < to[c] + c.len, to[d] <= q, q < to[d] + d.len
      PROVE  c = d
  <2>0. q \in Nat /\ 1 \in Space /\ 2 \in Space /\ (p + n <= q => q - n \in Digit)
        /\ (q < p \/ p <= q)
    BY <1>2 DEF Digit, Space
  <2>1. CASE c.space = 1 /\ q < p
    BY <1>1, <1>6, <1>8, <2>0, <2>1, ZenonT(60) DEF Disjoint
  <2>2. CASE c.space = 1 /\ p <= q
    BY <1>1, <1>6, <1>8, <2>0, <2>2, ZenonT(60) DEF Disjoint
  <2>3. CASE c.space = 2
    <3>1. On(c, 2, q) /\ On(d, 2, q)
      BY <1>6, <1>8, <2>3 DEF On
    <3> QED  BY <1>1, <2>0, <3>1 DEF Disjoint
  <2>4. c.space = 1 \/ c.space = 2
    BY <1>3 DEF Space
  <2> QED  BY <2>0, <2>1, <2>2, <2>3, <2>4
<1>9. Disjoint(E)
  BY <1>5, <1>8
<1>10. Gapped(E, C, p, n)
  BY <1>5, <1>7, <1>9 DEF Gapped
<1> QED  BY <1>4, <1>10 DEF E, to

LEMMA GapIs ==
    ASSUME NEW o, NEW C, NEW T, NEW L, Fine(o, C), Says(C, T, L),
           NEW p \in 1..(Len(T) + 1), NEW n \in Digit
    PROVE  \E D : Fine(makegappm(o, At(1, p), Width(n)), D) /\ Gapped(D, C, p, n)
<1>0. Len(T) \in Nat /\ C \in SUBSET Crum /\ Disjoint(C)
  BY DEF Says
<1>1. p \in Digit /\ p \in Nat /\ p > 0 /\ 1 \in Space /\ 2 \in Space /\ 1 \in Digit /\ n \in Nat /\ n > 0
  BY <1>0 DEF Digit, Space
<1>2. ASSUME makegappm(o, At(1, p), Width(n)) = o,
             \A c \in C : \A q \in Digit : p <= q => ~On(c, 1, q)
      PROVE  \E D : Fine(makegappm(o, At(1, p), Width(n)), D) /\ Gapped(D, C, p, n)
  BY <1>0, <1>1, <1>2, GapNothing
<1>3. CASE o.sons = {}
  <2>1. C = {}
    <3>1. ASSUME NEW s, NEW m, o = Tree(s, m, C), NEW c \in C
          PROVE  FALSE
      <4>1. SonOf(s, m, c) \in o.sons
        BY <3>1 DEF Tree
      <4> QED  BY <1>3, <4>1
    <3> QED  BY <3>1 DEF Fine
  <2>2. makegappm(o, At(1, p), Width(n)) = o
    BY <1>3 DEF makegappm
  <2> QED  BY <1>2, <2>1, <2>2
<1>4. ASSUME NEW s \in Space, NEW m \in Digit, Rooted(s, m, C), o = Tree(s, m, C),
             NEW c \in C, c.space = s, c.place = m
      PROVE  \E D : Fine(makegappm(o, At(1, p), Width(n)), D) /\ Gapped(D, C, p, n)
  <2>1. o.apex = At(s, m) /\ o.sons # {}
    BY <1>4 DEF Tree
  <2>2. CASE tumblercmp(At(1, p), o.apex) = LESS
    <3>1. makegappm(o, At(1, p), Width(n)) = o
      BY <2>2 DEF makegappm
    <3>2. Len(T) = 0
      <4>1. ASSUME Len(T) # 0 PROVE FALSE
        <5>1. o = Tree(1, 1, C)
          BY <4>1, SaysApex
        <5>2. o.apex = At(1, 1)
          BY <5>1 DEF Tree
        <5>3. 1 < 1 \/ (1 = 1 /\ p < 1)
          BY <1>1, <2>2, <5>2, CmpAt
        <5> QED  BY <1>1, <5>3
      <4> QED  BY <4>1
    <3>3. \A d \in C : \A q \in Digit : ~On(d, 1, q)
      BY <3>2, SaysOn
    <3> QED  BY <1>2, <3>1, <3>3
  <2>3. CASE tumblercmp(At(1, p), DocReach(o)) # LESS
    <3>1. makegappm(o, At(1, p), Width(n)) = o
      BY <2>3 DEF makegappm
    <3>2. PICK e \in C : \A d \in C : Behind(d.space, d.place + d.len, e.space, e.place + e.len)
      BY <1>0, <1>4, SaysBounded, LastCrum
    <3>3. DocReach(o) = At(e.space, e.place + e.len)
      BY <1>4, <3>2, DocReachIs
    <3>4. e.space \in Space /\ e.place + e.len \in Digit /\ e.space \in Nat /\ e.place + e.len \in Nat
      BY <1>0, CrumType DEF Digit
    <3>5. ~(1 < e.space \/ (1 = e.space /\ p < e.place + e.len))
      BY <1>1, <2>3, <3>3, <3>4, CmpAt
    <3>6. ASSUME NEW d \in C, NEW q \in Digit, p <= q
          PROVE  ~On(d, 1, q)
      <4>1. d.space \in Nat /\ d.place \in Nat /\ d.len \in Nat /\ q \in Nat
        BY <1>0, CrumType DEF Digit
      <4>2. Behind(d.space, d.place + d.len, e.space, e.place + e.len)
        BY <3>2
      <4> QED  BY <1>1, <3>4, <3>5, <3>6, <4>1, <4>2 DEF Behind, On
    <3> QED  BY <1>2, <3>1, <3>6
  <2>4. CASE ~(tumblercmp(At(1, p), o.apex) = LESS) /\ ~(tumblercmp(At(1, p), DocReach(o)) # LESS)
    <3> DEFINE knives == <<At(1, p), At(2, 1)>>
               cut == makecutsnd(o, knives)
               U == [i \in 1..2 |-> i]
               Q == [i \in 1..2 |-> IF i = 1 THEN p ELSE 1]
               w == Width(n)
    <3>1. Knives(knives, U, Q) /\ Len(knives) = 2 /\ U[1] = 1 /\ Q[1] = p /\ U[2] = 2 /\ Q[2] = 1
      <4>1. Len(knives) = 2 /\ DOMAIN knives = 1..2
        OBVIOUS
      <4>2. U \in [1..2 -> Space] /\ Q \in [1..2 -> Digit]
        BY <1>1 DEF Space
      <4>3. U[1] = 1 /\ Q[1] = p /\ U[2] = 2 /\ Q[2] = 1
        OBVIOUS
      <4>4. \A i \in 1..2 : knives[i] = At(U[i], Q[i])
        <5>1. knives[1] = At(U[1], Q[1]) /\ knives[2] = At(U[2], Q[2])
          BY <4>3
        <5>2. \A i \in 1..2 : i = 1 \/ i = 2
          OBVIOUS
        <5> HIDE DEF knives, U, Q
        <5> QED  BY <5>1, <5>2
      <4> HIDE DEF knives, U, Q
      <4> QED  BY <4>1, <4>2, <4>3, <4>4 DEF Knives
    <3>2. findaddressofsecondcutforinsert(At(1, p)) = At(2, 1)
      BY <1>1, SecondCutIs
    <3>3. makegappm(o, At(1, p), w) =
             setwispnd([cut EXCEPT !.sons =
                {IF CutSection(cut, son, knives) = 1
                 THEN [son EXCEPT !.dsp = tumbleradd(@, w)] ELSE son : son \in @}])
      BY <2>1, <2>4, <3>2 DEF makegappm
    <3> HIDE DEF knives, U, Q
    <3>4. PICK D : /\ cut = Tree(s, m, D) /\ Rooted(s, m, D) /\ Finer(D, C)
                   /\ \A i \in 1..2 : \A d \in D : ~Through(d, U[i], Q[i])
      <4>1. \E D : /\ makecutsnd(Tree(s, m, C), knives) = Tree(s, m, D)
                   /\ Rooted(s, m, D) /\ Finer(D, C)
                   /\ \A i \in 1..Len(knives) : \A d \in D : ~Through(d, U[i], Q[i])
        BY <1>4, <3>1, CutsTree
      <4> QED  BY <1>4, <3>1, <4>1
    <3> HIDE DEF cut
    <3>5. \A d \in D : ~Through(d, 1, p)
      <4>1. 1 \in 1..2
        OBVIOUS
      <4> QED  BY <3>1, <3>4, <4>1
    <3> DEFINE to == GapTo(D, p, n)
               E == Relaid(D, to)
    <3>6. to \in [D -> Digit] /\ Gapped(E, C, p, n)
      BY <1>0, <1>1, <3>4, <3>5, GapRelaid
    <3>7. /\ cut.apex = At(s, m) /\ cut.sons = {SonOf(s, m, d) : d \in D}
          /\ cut = [apex |-> At(s, m), sons |-> cut.sons]
          /\ D \in SUBSET Crum /\ \A d \in D : Behind(s, m, d.space, d.place)
      BY <3>4 DEF Tree, Rooted
    <3>8. ASSUME NEW d \in D
          PROVE  CutSection(cut, SonOf(s, m, d), knives) = 1 <=> d.space = 1 /\ p <= d.place
      <4> DEFINE k == CutSection(cut, SonOf(s, m, d), knives)
      <4>0. d \in Crum /\ Behind(s, m, d.space, d.place)
        BY <3>7
      <4>1. /\ k \in 0..2
            /\ k # 0 => Behind(U[k], Q[k], d.space, d.place)
            /\ \A i \in 1..2 : Behind(U[i], Q[i], d.space, d.place) => i <= k
        BY <3>1, <3>7, <4>0, SectionIs
      <4> HIDE DEF k
      <4>2. d.space \in Space /\ d.place \in Nat /\ d.place > 0
        BY <4>0, CrumType
      <4>3. /\ k = 1 => Behind(1, p, d.space, d.place)
            /\ k = 2 => Behind(2, 1, d.space, d.place)
            /\ Behind(1, p, d.space, d.place) => 1 <= k
            /\ Behind(2, 1, d.space, d.place) => 2 <= k
        BY <3>1, <4>1
      <4>4. d.space = 1 => (Behind(1, p, d.space, d.place) <=> p <= d.place)
        BY DEF Behind
      <4>5. d.space = 1 => ~Behind(2, 1, d.space, d.place)
        BY DEF Behind
      <4>6. d.space = 2 => Behind(2, 1, d.space, d.place)
        BY <4>2 DEF Behind
      <4>7. k = 1 <=> d.space = 1 /\ p <= d.place
        BY <4>1, <4>2, <4>3, <4>4, <4>5, <4>6 DEF Space
      <4> QED  BY <4>7 DEF k
    <3>9. ASSUME NEW d \in D
          PROVE  /\ (IF CutSection(cut, SonOf(s, m, d), knives) = 1
                     THEN [SonOf(s, m, d) EXCEPT !.dsp = tumbleradd(@, w)] ELSE SonOf(s, m, d))
                       = SonOf(s, m, Moved(d, to[d]))
                 /\ Moved(d, to[d]) \in Crum
                 /\ Behind(s, m, Moved(d, to[d]).space, Moved(d, to[d]).place)
      <4>1. /\ d \in Crum /\ d.space \in Space /\ d.place \in Digit /\ Behind(s, m, d.space, d.place)
            /\ to[d] \in Digit
        BY <3>6, <3>7, CrumType
      <4>2. to[d] = IF d.space = 1 /\ p <= d.place THEN d.place + n ELSE d.place
        BY DEF GapTo
      <4> HIDE DEF to
      <4> DEFINE e == Moved(d, to[d])
      <4>3. /\ e \in Crum /\ e.space = d.space /\ e.place = to[d] /\ e.type = d.type
            /\ e.first = d.first /\ e.len = d.len
        BY <4>1, MovedIs
      <4> HIDE DEF e
      <4>4. CASE d.space = 1 /\ p <= d.place
        <5>1. /\ tumbleradd(Disp(s, m, d.space, d.place), w) = Disp(s, m, d.space, d.place + n)
              /\ Behind(s, m, d.space, d.place + n)
          BY <1>4, <4>1, DispMore
        <5>2. [SonOf(s, m, d) EXCEPT !.dsp = tumbleradd(@, w)] = SonOf(s, m, e)
          BY <4>2, <4>3, <4>4, <5>1 DEF SonOf
        <5> QED  BY <3>8, <4>2, <4>3, <4>4, <5>1, <5>2 DEF e
      <4>5. CASE ~(d.space = 1 /\ p <= d.place)
        <5>1. SonOf(s, m, d) = SonOf(s, m, e)
          BY <4>2, <4>3, <4>5 DEF SonOf
        <5> QED  BY <3>8, <4>1, <4>2, <4>3, <4>5, <5>1 DEF e
      <4> QED  BY <4>4, <4>5
    <3> DEFINE f(son) == IF CutSection(cut, son, knives) = 1
                         THEN [son EXCEPT !.dsp = tumbleradd(@, w)] ELSE son
    <3>10. {f(son) : son \in cut.sons} = {SonOf(s, m, e) : e \in E}
      <4>1. \A d \in D : f(SonOf(s, m, d)) = SonOf(s, m, Moved(d, to[d]))
        BY <3>9
      <4> HIDE DEF f, to
      <4>2. {f(son) : son \in cut.sons} = {f(SonOf(s, m, d)) : d \in D}
        BY <3>7
      <4>3. {f(SonOf(s, m, d)) : d \in D} = {SonOf(s, m, Moved(d, to[d])) : d \in D}
        BY <4>1
      <4> QED  BY <4>2, <4>3 DEF Relaid
    <3>11. [cut EXCEPT !.sons = {f(son) : son \in @}] = Tree(s, m, E)
      <4> HIDE DEF f, E
      <4>1. [cut EXCEPT !.sons = {f(son) : son \in @}] =
               [apex |-> At(s, m), sons |-> {f(son) : son \in cut.sons}]
        BY <3>7
      <4> QED  BY <3>10, <4>1 DEF Tree
    <3>12. Rooted(s, m, E)
      <4>1. \A e \in E : e \in Crum /\ Behind(s, m, e.space, e.place)
        BY <3>9 DEF Relaid
      <4> QED  BY <1>4, <4>1 DEF Rooted
    <3>13. Fine(makegappm(o, At(1, p), w), E)
      <4>1. makegappm(o, At(1, p), w) = setwispnd([cut EXCEPT !.sons = {f(son) : son \in @}])
        BY <3>3
      <4> HIDE DEF E, f, w
      <4>2. makegappm(o, At(1, p), w) = setwispnd(Tree(s, m, E))
        BY <3>11, <4>1
      <4> QED  BY <3>12, <4>2, SetwispIs
    <3> QED  BY <3>6, <3>13
  <2> QED  BY <2>2, <2>3, <2>4
<1>5. \/ C = {} /\ o = EMPTY
      \/ \E s \in Space, m \in Digit :
            Rooted(s, m, C) /\ o = Tree(s, m, C) /\ \E c \in C : c.space = s /\ c.place = m
  BY DEF Fine
<1>6. EMPTY.sons = {}
  BY DEF EMPTY
<1> QED  BY <1>3, <1>4, <1>5, <1>6

-----------------------------------------------------------------------------
(* The insertion of one span. *)

\* T with n characters more, from number f on, before its place p.
With(T, p, f, n) ==
    [q \in 1..(Len(T) + n) |-> IF q < p THEN T[q] ELSE IF q < p + n THEN f + (q - p) ELSE T[q - n]]

LEMMA WithIs ==
    ASSUME NEW T \in Seq(Digit), NEW p \in 1..(Len(T) + 1), NEW f \in Digit, NEW n \in Digit
    PROVE  /\ With(T, p, f, n) \in Seq(Digit) /\ Len(With(T, p, f, n)) = Len(T) + n
           /\ \A q \in 1..(Len(T) + n) :
                 /\ q < p => q \in 1..Len(T) /\ With(T, p, f, n)[q] = T[q]
                 /\ p <= q /\ q < p + n => With(T, p, f, n)[q] = f + (q - p)
                 /\ p + n <= q => q - n \in 1..Len(T) /\ With(T, p, f, n)[q] = T[q - n]
<1> DEFINE W == With(T, p, f, n)
<1>1. Len(T) \in Nat /\ n \in Nat /\ n > 0 /\ f \in Nat /\ f > 0 /\ p \in Nat /\ p > 0 /\ p <= Len(T) + 1
  BY DEF Digit
<1>2. ASSUME NEW q \in 1..(Len(T) + n)
      PROVE  /\ q \in Nat /\ q > 0 /\ q <= Len(T) + n
             /\ q < p => q \in 1..Len(T)
             /\ p <= q => f + (q - p) \in Digit
             /\ p + n <= q => q - n \in 1..Len(T)
  BY <1>1 DEF Digit
<1>3. ASSUME NEW q \in 1..(Len(T) + n)
      PROVE  (IF q < p THEN T[q] ELSE IF q < p + n THEN f + (q - p) ELSE T[q - n]) \in Digit
  <2>1. \A k \in 1..Len(T) : T[k] \in Digit
    OBVIOUS
  <2>2. q < p \/ p <= q
    BY <1>1, <1>2
  <2>3. q < p + n \/ p + n <= q
    BY <1>1, <1>2
  <2> QED  BY <1>2, <2>1, <2>2, <2>3
<1>4. Len(T) + n \in Nat
  BY <1>1
<1>5. W \in [1..(Len(T) + n) -> Digit]
  BY <1>3 DEF With
<1>6. W \in Seq(Digit) /\ Len(W) = Len(T) + n
  BY <1>4, <1>5
<1>7. \A q \in 1..(Len(T) + n) :
          W[q] = IF q < p THEN T[q] ELSE IF q < p + n THEN f + (q - p) ELSE T[q - n]
  BY DEF With
<1> HIDE DEF W
<1>8. ASSUME NEW q \in 1..(Len(T) + n)
      PROVE  /\ q < p => W[q] = T[q]
             /\ p <= q /\ q < p + n => W[q] = f + (q - p)
             /\ p + n <= q => W[q] = T[q - n]
  <2>1. p <= q => ~(q < p)
    BY <1>1, <1>2
  <2>2. p + n <= q => ~(q < p) /\ ~(q < p + n)
    BY <1>1, <1>2
  <2> QED  BY <1>7, <2>1, <2>2
<1> QED  BY <1>2, <1>6, <1>8 DEF W

LEMMA GapFree ==
    ASSUME NEW G, NEW C, NEW p \in Digit, NEW n \in Digit, Gapped(G, C, p, n)
    PROVE  Free(G, 1, p, n)
<1> SUFFICES ASSUME NEW c \in G, NEW q \in Digit, p <= q, q < p + n, On(c, 1, q)
             PROVE  FALSE
  BY DEF Free
<1>1. c \in Crum /\ 1 \in Space
  BY DEF Gapped, Space
<1>2. c.first + (q - c.place) \in Digit
  BY <1>1, OnNumber
<1>3. Has(G, 1, q, c.first + (q - c.place))
  BY DEF Has
<1>4. p + n <= q
  BY <1>2, <1>3 DEF Gapped
<1>5. p \in Nat /\ n \in Nat /\ q \in Nat
  BY DEF Digit
<1> QED  BY <1>4, <1>5

LEMMA GapSays ==
    ASSUME NEW C, NEW T, NEW L, Says(C, T, L), NEW p \in 1..(Len(T) + 1),
           NEW f \in Digit, NEW n \in Digit,
           NEW G, Gapped(G, C, p, n), NEW D, Added(D, G, 1, p, f, n)
    PROVE  Says(D, With(T, p, f, n), L)
<1> DEFINE W == With(T, p, f, n)
<1>1. /\ T \in Seq(Digit) /\ Linked(L)
      /\ \A q \in Digit, i \in Digit : Has(C, 1, q, i) <=> q \in 1..Len(T) /\ i = T[q]
      /\ \A q \in Digit, i \in Digit : Has(C, 2, q, i) <=> q \in DOMAIN L /\ i = L[q]
  BY DEF Says
<1>2. Len(T) \in Nat /\ n \in Nat /\ n > 0 /\ f \in Nat /\ f > 0 /\ p \in Nat /\ p > 0 /\ p <= Len(T) + 1
      /\ p \in Digit
  BY <1>1 DEF Digit
<1>3. /\ W \in Seq(Digit) /\ Len(W) = Len(T) + n
      /\ \A q \in 1..(Len(T) + n) :
            /\ q < p => q \in 1..Len(T) /\ W[q] = T[q]
            /\ p <= q /\ q < p + n => W[q] = f + (q - p)
            /\ p + n <= q => q - n \in 1..Len(T) /\ W[q] = T[q - n]
  BY <1>1, WithIs
<1> HIDE DEF W
<1>4. /\ D \in SUBSET Crum /\ Disjoint(D)
      /\ \A t \in Space, q \in Digit, i \in Digit :
            Has(D, t, q, i) <=> \/ Has(G, t, q, i)
                                \/ t = 1 /\ p <= q /\ q < p + n /\ i = f + (q - p)
  BY DEF Added
<1>5. \A q \in Digit, i \in Digit :
          /\ q < p => (Has(G, 1, q, i) <=> Has(C, 1, q, i))
          /\ p <= q => (Has(G, 1, q, i) <=> p + n <= q /\ Has(C, 1, q - n, i))
          /\ Has(G, 2, q, i) <=> Has(C, 2, q, i)
  BY DEF Gapped
<1>6. ASSUME NEW q \in Digit, NEW i \in Digit
      PROVE  Has(D, 1, q, i) <=> q \in 1..Len(W) /\ i = W[q]
  <2>0. q \in Nat /\ q > 0 /\ 1 \in Space /\ (q < p \/ p <= q) /\ (q < p + n \/ p + n <= q)
    BY <1>2 DEF Digit, Space
  <2>1. CASE q < p
    <3>1. Has(D, 1, q, i) <=> Has(C, 1, q, i)
      <4>1. ~(p <= q)
        BY <1>2, <2>0, <2>1
      <4> QED  BY <1>4, <1>5, <2>0, <2>1, <4>1
    <3>2. q \in 1..Len(T) /\ q \in 1..(Len(T) + n)
      BY <1>2, <2>0, <2>1
    <3> QED  BY <1>1, <1>3, <2>1, <3>1, <3>2
  <2>2. CASE p <= q /\ q < p + n
    <3>1. Has(D, 1, q, i) <=> i = f + (q - p)
      <4>1. ~(p + n <= q)
        BY <1>2, <2>0, <2>2
      <4> QED  BY <1>4, <1>5, <2>0, <2>2, <4>1
    <3>2. q \in 1..(Len(T) + n)
      BY <1>2, <2>0, <2>2
    <3> QED  BY <1>3, <2>2, <3>1, <3>2
  <2>3. CASE p + n <= q
    <3>0. p <= q /\ ~(q < p + n) /\ q - n \in Digit
      BY <1>2, <2>0, <2>3 DEF Digit
    <3>1. Has(D, 1, q, i) <=> Has(C, 1, q - n, i)
      BY <1>4, <1>5, <2>0, <2>3, <3>0
    <3>2. q \in 1..(Len(T) + n) <=> q - n \in 1..Len(T)
      BY <1>2, <2>0, <2>3
    <3>3. Has(C, 1, q - n, i) <=> q - n \in 1..Len(T) /\ i = T[q - n]
      BY <1>1, <3>0
    <3> QED  BY <1>3, <2>3, <3>1, <3>2, <3>3
  <2> QED  BY <2>0, <2>1, <2>2, <2>3
<1>7. ASSUME NEW q \in Digit, NEW i \in Digit
      PROVE  Has(D, 2, q, i) <=> q \in DOMAIN L /\ i = L[q]
  <2>1. 2 \in Space /\ 2 # 1
    BY DEF Space
  <2>2. Has(D, 2, q, i) <=> Has(C, 2, q, i)
    BY <1>4, <1>5, <2>1
  <2> QED  BY <1>1, <2>2
<1>8. Says(D, W, L)
  BY <1>1, <1>3, <1>4, <1>6, <1>7 DEF Says
<1> QED  BY <1>8 DEF W

\* What an insertion into the text makes of a document.
LEMMA InsertText ==
    ASSUME NEW o, NEW C, NEW T, NEW L, Fine(o, C), Says(C, T, L),
           NEW p \in 1..(Len(T) + 1), NEW y \in Digit, NEW f \in Digit, NEW n \in Digit,
           NEW r \in insertnd(o, At(1, p), At(y, f), n)
    PROVE  \E D : Fine(r, D) /\ Says(D, With(T, p, f, n), L)
<1>1. p \in Digit /\ 1 \in Space
  <2>1. Len(T) \in Nat
    BY DEF Says
  <2> QED  BY <2>1 DEF Digit, Space
<1>2. PICK G : Fine(makegappm(o, At(1, p), Width(n)), G) /\ Gapped(G, C, p, n)
  BY GapIs
<1>3. Free(G, 1, p, n) /\ Disjoint(G)
  BY <1>1, <1>2, GapFree DEF Gapped
<1>4. r \in doinsertnd(makegappm(o, At(1, p), Width(n)), At(1, p), At(y, f), n)
  BY DEF insertnd
<1>5. PICK D : Fine(r, D) /\ Added(D, G, 1, p, f, n)
  BY <1>1, <1>2, <1>3, <1>4, InsertIs
<1>6. Says(D, With(T, p, f, n), L)
  BY <1>2, <1>5, GapSays
<1> QED  BY <1>5, <1>6

-----------------------------------------------------------------------------
(* The ends of the text and of the links. *)

Top(L) == Max({0} \union DOMAIN L)

LEMMA TopIs ==
    ASSUME NEW L, Linked(L)
    PROVE  /\ Top(L) \in Nat /\ \A q \in DOMAIN L : q <= Top(L)
           /\ DOMAIN L \subseteq 1..Top(L)
           /\ Top(L) # 0 <=> DOMAIN L # {}
           /\ Top(L) # 0 => Top(L) \in DOMAIN L
<1> DEFINE S == {0} \union DOMAIN L
<1>1. PICK n \in Nat : DOMAIN L \subseteq 1..n
  BY DEF Linked
<1>2. S \in SUBSET (0..n) /\ S # {}
  BY <1>1
<1>3. Max(S) \in S /\ \A k \in S : k <= Max(S)
  <2> HIDE DEF S
  <2> QED  BY <1>1, <1>2, MaxIs
<1>4. Top(L) \in S /\ \A k \in S : k <= Top(L)
  BY <1>3 DEF Top
<1> HIDE DEF Linked
<1>5. Top(L) \in Nat /\ \A q \in DOMAIN L : q <= Top(L) /\ q \in 1..n
  BY <1>1, <1>2, <1>4
<1>6. \A q \in DOMAIN L : q \in 1..Top(L)
  BY <1>5
<1>7. Top(L) # 0 => Top(L) \in DOMAIN L
  BY <1>4
<1>8. Top(L) # 0 <=> DOMAIN L # {}
  BY <1>5, <1>6, <1>7
<1> QED  BY <1>5, <1>6, <1>7, <1>8

\* The last crum with links, and the last with text.
LEMMA LastLink ==
    ASSUME NEW C, NEW T, NEW L, Says(C, T, L), DOMAIN L # {}
    PROVE  \E c \in C : /\ c.space = 2 /\ c.place + c.len = Top(L) + 1
                        /\ \A d \in C : Behind(d.space, d.place + d.len, c.space, c.place + c.len)
<1>1. Linked(L) /\ C \in SUBSET Crum
  BY DEF Says
<1>2. Top(L) \in Nat /\ DOMAIN L \subseteq 1..Top(L) /\ Top(L) \in DOMAIN L
  BY <1>1, TopIs
<1>3. PICK c \in C : On(c, 2, Top(L))
  BY <1>2, SaysLinks
<1>4. c.space = 2 /\ Top(L) < c.place + c.len /\ c.place \in Nat /\ c.len \in Nat
  BY <1>1, <1>3, CrumType DEF On
<1>5. c.place + c.len <= Top(L) + 1
  BY <1>2, <1>4, SaysEnd
<1>6. c.place + c.len = Top(L) + 1
  BY <1>2, <1>4, <1>5
<1>7. ASSUME NEW d \in C
      PROVE  Behind(d.space, d.place + d.len, c.space, c.place + c.len)
  <2>1. /\ d.space = 1 \/ d.space = 2
        /\ d.space = 2 => d.place + d.len <= Top(L) + 1
    BY <1>2, SaysEnd
  <2>2. d.space = 1 => d.space < c.space
    BY <1>4
  <2> QED  BY <1>4, <1>6, <2>1, <2>2 DEF Behind
<1> QED  BY <1>4, <1>6, <1>7

LEMMA LastText ==
    ASSUME NEW C, NEW T, NEW L, Says(C, T, L), Len(T) # 0
    PROVE  \E c \in C : /\ c.space = 1 /\ c.place + c.len = Len(T) + 1
                        /\ \A d \in C : d.space = 1 => d.place + d.len <= Len(T) + 1
<1>1. C \in SUBSET Crum /\ Len(T) \in Nat /\ Len(T) \in 1..Len(T)
  BY DEF Says
<1>2. PICK c \in C : On(c, 1, Len(T))
  BY <1>1, SaysText
<1>3. c.space = 1 /\ Len(T) < c.place + c.len /\ c.place \in Nat /\ c.len \in Nat
  BY <1>1, <1>2, CrumType DEF On
<1>4. c.place + c.len <= Len(T) + 1
  BY <1>3, SaysEnd
<1>5. c.place + c.len = Len(T) + 1
  BY <1>1, <1>3, <1>4
<1>6. \A d \in C : d.space = 1 => d.place + d.len <= Len(T) + 1
  BY SaysEnd
<1> QED  BY <1>3, <1>5, <1>6

\* There are no crums in a space in which nothing is.
LEMMA NoCrums ==
    ASSUME NEW C, NEW T, NEW L, Says(C, T, L), NEW c \in C
    PROVE  /\ Len(T) = 0 => c.space = 2
           /\ DOMAIN L = {} => c.space = 1
<1>1. c \in Crum /\ Len(T) \in Nat
  BY DEF Says
<1>2. c.space \in Space /\ c.place \in Digit /\ c.len \in Nat /\ c.len > 0 /\ c.place \in Nat
  BY <1>1, CrumType
<1>3. On(c, c.space, c.place)
  BY <1>2 DEF On
<1>4. /\ c.space = 1 => c.place \in 1..Len(T)
      /\ c.space = 2 => c.place \in DOMAIN L
  BY <1>2, <1>3, SaysOn
<1> QED  BY <1>1, <1>2, <1>4 DEF Space

LEMMA EmptyReach ==
    ASSUME NEW o, o.sons = {}
    PROVE  DocReach(o) = ZEROTUMBLER
<1>1. {ZEROTUMBLER} \union {Reach(o, son) : son \in o.sons} = {ZEROTUMBLER}
  OBVIOUS
<1>2. DocReach(o) = Greatest({ZEROTUMBLER})
  BY <1>1 DEF DocReach
<1>3. tumblercmp(ZEROTUMBLER, ZEROTUMBLER) # LESS
  BY ZeroIsNumber, CmpIs, BeforeIrreflexive
<1> QED  BY <1>2, <1>3 DEF Greatest

LEMMA FineSons ==
    ASSUME NEW o, NEW C, Fine(o, C)
    PROVE  /\ o.sons = {} <=> C = {}
           /\ C # {} => \E s \in Space, m \in Digit :
                           /\ Rooted(s, m, C) /\ o = Tree(s, m, C) /\ o.apex = At(s, m)
                           /\ o.sons = {SonOf(s, m, c) : c \in C}
                           /\ \E c \in C : c.space = s /\ c.place = m
<1>1. C = {} => o = EMPTY
  BY DEF Fine
<1>2. C = {} => o.sons = {}
  BY <1>1 DEF EMPTY
<1>3. C # {} => \E s \in Space, m \in Digit :
                           /\ Rooted(s, m, C) /\ o = Tree(s, m, C)
                           /\ \E c \in C : c.space = s /\ c.place = m
  BY DEF Fine
<1>4. \A s, m : o = Tree(s, m, C) => o.apex = At(s, m) /\ o.sons = {SonOf(s, m, c) : c \in C}
  BY DEF Tree
<1>5. C # {} => o.sons # {}
  <2>1. ASSUME NEW s, NEW m, NEW c \in C, o.sons = {SonOf(s, m, d) : d \in C}
        PROVE  o.sons # {}
    <3>1. SonOf(s, m, c) \in o.sons
      BY <2>1
    <3> QED  BY <3>1
  <2> QED  BY <1>3, <1>4, <2>1
<1> QED  BY <1>2, <1>3, <1>4, <1>5

LEMMA DocReachAt ==
    ASSUME NEW o, NEW C, NEW T, NEW L, Fine(o, C), Says(C, T, L)
    PROVE  /\ DOMAIN L # {} => DocReach(o) = At(2, Top(L) + 1) /\ C # {}
           /\ DOMAIN L = {} /\ Len(T) # 0 => DocReach(o) = At(1, Len(T) + 1) /\ C # {}
           /\ DOMAIN L = {} /\ Len(T) = 0 => DocReach(o) = ZEROTUMBLER /\ C = {}
<1>1. C \in SUBSET Crum /\ Len(T) \in Nat
  BY DEF Says
<1>2. ASSUME DOMAIN L # {}
      PROVE  DocReach(o) = At(2, Top(L) + 1) /\ C # {}
  <2>1. PICK c \in C : /\ c.space = 2 /\ c.place + c.len = Top(L) + 1
                       /\ \A d \in C : Behind(d.space, d.place + d.len, c.space, c.place + c.len)
    BY <1>2, LastLink
  <2>2. PICK s \in Space, m \in Digit : Rooted(s, m, C) /\ o = Tree(s, m, C)
    BY <2>1, FineSons
  <2>3. DocReach(o) = At(c.space, c.place + c.len)
    BY <2>1, <2>2, DocReachIs
  <2> QED  BY <2>1, <2>3
<1>3. ASSUME DOMAIN L = {}, Len(T) # 0
      PROVE  DocReach(o) = At(1, Len(T) + 1) /\ C # {}
  <2>1. PICK c \in C : /\ c.space = 1 /\ c.place + c.len = Len(T) + 1
                       /\ \A d \in C : d.space = 1 => d.place + d.len <= Len(T) + 1
    BY <1>3, LastText
  <2>2. PICK s \in Space, m \in Digit : Rooted(s, m, C) /\ o = Tree(s, m, C)
    BY <2>1, FineSons
  <2>3. \A d \in C : d.space = 1
    BY <1>3, NoCrums
  <2>4. \A d \in C : Behind(d.space, d.place + d.len, c.space, c.place + c.len)
    BY <2>1, <2>3 DEF Behind
  <2>5. DocReach(o) = At(c.space, c.place + c.len)
    BY <2>2, <2>4, DocReachIs
  <2> QED  BY <2>1, <2>5
<1>4. ASSUME DOMAIN L = {}, Len(T) = 0
      PROVE  DocReach(o) = ZEROTUMBLER /\ C = {}
  <2>1. C = {}
    BY <1>4, NoCrums
  <2> QED  BY <2>1, FineSons, EmptyReach
<1> QED  BY <1>2, <1>3, <1>4

\* A new link goes behind the others.
LEMMA NextLinkIs ==
    ASSUME NEW o, NEW C, NEW T, NEW L, Fine(o, C), Says(C, T, L)
    PROVE  findnextlinkvsa(o) = At(2, Top(L) + 1)
<1>1. Linked(L) /\ Len(T) \in Nat
  BY DEF Says
<1>2. /\ Top(L) \in Nat /\ Top(L) + 1 \in Digit /\ 1 \in Digit /\ 1 \in Space /\ 2 \in Space
      /\ 1 \in Digit /\ 2 \in Digit /\ Len(T) + 1 \in Digit
      /\ Top(L) # 0 <=> DOMAIN L # {}
  BY <1>1, TopIs DEF Digit, Space
<1>3. findnextlinkvsa(o) =
         IF tumblercmp(DocReach(o), At(2, 1)) = LESS THEN At(2, 1) ELSE DocReach(o)
  BY DEF findnextlinkvsa, LINK
<1>4. CASE DOMAIN L # {}
  <2>1. DocReach(o) = At(2, Top(L) + 1)
    BY <1>4, DocReachAt
  <2>2. tumblercmp(At(2, Top(L) + 1), At(2, 1)) # LESS
    BY <1>2, CmpAt
  <2> QED  BY <1>3, <2>1, <2>2
<1>5. CASE DOMAIN L = {}
  <2>1. tumblercmp(DocReach(o), At(2, 1)) = LESS
    <3>1. CASE Len(T) # 0
      <4>1. DocReach(o) = At(1, Len(T) + 1)
        BY <1>5, <3>1, DocReachAt
      <4>2. 1 < 2
        OBVIOUS
      <4>3. tumblercmp(At(1, Len(T) + 1), At(2, 1)) = LESS
        BY <1>2, <4>2, CmpAt
      <4> QED  BY <4>1, <4>3
    <3>2. CASE Len(T) = 0
      <4>1. DocReach(o) = ZEROTUMBLER
        BY <1>5, <3>2, DocReachAt
      <4>2. At(2, 1) \in Number /\ ~iszerotumbler(At(2, 1)) /\ ZEROTUMBLER \in Number
            /\ iszerotumbler(ZEROTUMBLER)
        BY <1>2, AtNumber, ZeroIsNumber
      <4>3. Before(ZEROTUMBLER, At(2, 1))
        BY <4>2 DEF Before
      <4> QED  BY <4>1, <4>2, <4>3, CmpIs
    <3> QED  BY <3>1, <3>2
  <2>2. Top(L) + 1 = 1
    BY <1>2, <1>5
  <2> QED  BY <1>3, <2>1, <2>2
<1> QED  BY <1>4, <1>5

\* An append goes behind the text.
LEMMA AppendIs ==
    ASSUME NEW o, NEW C, NEW T, NEW L, Fine(o, C), Says(C, T, L)
    PROVE  findvsatoappend(o) = At(1, Len(T) + 1)
<1> DEFINE z == 0
           linkspace == tumblerincrement(ZEROTUMBLER, z, 2)
           S == {Reach(o, son) : son \in
                    {son \in o.sons : tumblercmp(Grasp(o, son), linkspace) # GREATER}}
<1>0. /\ Len(T) \in Nat /\ Len(T) + 1 \in Digit /\ z \in Int /\ z = 0
      /\ 1 \in Space /\ 2 \in Space /\ C \in SUBSET Crum
  BY DEF Says, Digit, Space
<1>1. findvsatoappend(o) =
         IF o.sons = {} \/ tumblercmp(o.apex, linkspace) # LESS THEN At(1, 1)
         ELSE IF tumblercmp(DocReach(o), linkspace) = LESS THEN DocReach(o)
         ELSE Greatest(S)
  BY DEF findvsatoappend, TEXT
<1>2. ASSUME NEW t \in Space, NEW p \in Digit
      PROVE  /\ tumblercmp(At(t, p), linkspace) = LESS <=> t = 1
             /\ tumblercmp(At(t, p), linkspace) = GREATER <=> t = 2
  <2> HIDE DEF z
  <2> QED  BY <1>0, CmpLinkspace
<1> HIDE DEF linkspace, z
<1>3. CASE Len(T) = 0
  <2>1. CASE C = {}
    BY <1>1, <1>3, <2>1, FineSons
  <2>2. CASE C # {}
    <3>1. PICK s \in Space, m \in Digit :
             /\ Rooted(s, m, C) /\ o.apex = At(s, m) /\ \E c \in C : c.space = s /\ c.place = m
      BY <2>2, FineSons
    <3>2. s = 2
      BY <1>3, <3>1, NoCrums
    <3>3. tumblercmp(o.apex, linkspace) # LESS
      BY <1>2, <3>1, <3>2
    <3> QED  BY <1>1, <1>3, <3>3
  <2> QED  BY <2>1, <2>2
<1>4. CASE Len(T) # 0
  <2>1. PICK c \in C : /\ c.space = 1 /\ c.place + c.len = Len(T) + 1
                       /\ \A d \in C : d.space = 1 => d.place + d.len <= Len(T) + 1
    BY <1>4, LastText
  <2>2. Rooted(1, 1, C) /\ o = Tree(1, 1, C)
    BY <1>4, SaysApex
  <2>3. /\ o.apex = At(1, 1) /\ o.sons = {SonOf(1, 1, d) : d \in C}
        /\ \A d \in C : d \in Crum /\ Behind(1, 1, d.space, d.place)
    BY <2>2 DEF Tree, Rooted
  <2>4. 1 \in Digit /\ o.sons # {}
    BY <2>1, <2>3 DEF Digit
  <2>5. tumblercmp(o.apex, linkspace) = LESS
    BY <1>0, <1>2, <2>3, <2>4
  <2>6. CASE DOMAIN L = {}
    <3>1. DocReach(o) = At(1, Len(T) + 1)
      BY <1>4, <2>6, DocReachAt
    <3>2. tumblercmp(At(1, Len(T) + 1), linkspace) = LESS
      BY <1>0, <1>2
    <3> QED  BY <1>1, <2>4, <2>5, <3>1, <3>2
  <2>7. CASE DOMAIN L # {}
    <3>1. DocReach(o) = At(2, Top(L) + 1)
      BY <2>7, DocReachAt
    <3>2. Top(L) + 1 \in Digit
      BY TopIs DEF Says, Digit
    <3>3. tumblercmp(At(2, Top(L) + 1), linkspace) # LESS
      BY <1>0, <1>2, <3>2
    <3>4. findvsatoappend(o) = Greatest(S)
      BY <1>1, <2>4, <2>5, <3>1, <3>3
    <3>5. ASSUME NEW d \in C
          PROVE  /\ Grasp(o, SonOf(1, 1, d)) = At(d.space, d.place)
                 /\ Reach(o, SonOf(1, 1, d)) = At(d.space, d.place + d.len)
                 /\ d.space \in Space /\ d.place \in Digit /\ d.place + d.len \in Digit
                 /\ tumblercmp(Grasp(o, SonOf(1, 1, d)), linkspace) # GREATER <=> d.space = 1
      <4>1. d \in Crum /\ Behind(1, 1, d.space, d.place)
        BY <2>3
      <4>2. /\ Grasp(o, SonOf(1, 1, d)) = At(d.space, d.place)
            /\ Reach(o, SonOf(1, 1, d)) = At(d.space, d.place + d.len)
        BY <1>0, <2>3, <2>4, <4>1, SonIs
      <4>3. d.space \in Space /\ d.place \in Digit /\ d.place + d.len \in Digit
        BY <4>1, CrumType
      <4>4. tumblercmp(At(d.space, d.place), linkspace) = GREATER <=> d.space = 2
        BY <1>2, <4>3
      <4> QED  BY <4>2, <4>3, <4>4 DEF Space
    <3>6. At(1, Len(T) + 1) \in S
      <4>1. SonOf(1, 1, c) \in o.sons
        BY <2>3
      <4> QED  BY <2>1, <3>5, <4>1
    <3>7. ASSUME NEW a \in S
          PROVE  \E u \in Space, q \in Digit : a = At(u, q) /\ Behind(u, q, 1, Len(T) + 1)
      <4>1. PICK son \in o.sons : /\ tumblercmp(Grasp(o, son), linkspace) # GREATER
                                  /\ a = Reach(o, son)
        OBVIOUS
      <4>2. PICK d \in C : son = SonOf(1, 1, d)
        BY <2>3
      <4>3. d.space = 1 /\ a = At(1, d.place + d.len) /\ d.place + d.len \in Digit
        BY <3>5, <4>1, <4>2
      <4>4. Behind(1, d.place + d.len, 1, Len(T) + 1)
        BY <2>1, <4>3 DEF Behind
      <4> QED  BY <1>0, <4>3, <4>4
    <3> HIDE DEF S
    <3>8. Greatest(S) = At(1, Len(T) + 1)
      BY <1>0, <3>6, <3>7, GreatestIs
    <3> QED  BY <3>4, <3>8
  <2> QED  BY <2>6, <2>7
<1> QED  BY <1>3, <1>4

\* The links of L and one more.
Linking(L, p, n) == [q \in DOMAIN L \union {p} |-> IF q = p THEN n ELSE L[q]]

LEMMA LinkSays ==
    ASSUME NEW C, NEW T, NEW L, Says(C, T, L), NEW p \in Digit, p > Top(L),
           NEW f \in Digit, NEW D, Added(D, C, 2, p, f, 1)
    PROVE  Says(D, T, Linking(L, p, f))
<1> DEFINE K == Linking(L, p, f)
<1>1. /\ T \in Seq(Digit) /\ Linked(L)
      /\ \A q \in Digit, i \in Digit : Has(C, 1, q, i) <=> q \in 1..Len(T) /\ i = T[q]
      /\ \A q \in Digit, i \in Digit : Has(C, 2, q, i) <=> q \in DOMAIN L /\ i = L[q]
  BY DEF Says
<1>2. /\ Top(L) \in Nat /\ DOMAIN L \subseteq 1..Top(L) /\ \A q \in DOMAIN L : q <= Top(L)
  BY <1>1, TopIs
<1>3. p \in Nat /\ p > 0 /\ f \in Nat
  BY DEF Digit
<1>4. DOMAIN K = DOMAIN L \union {p} /\ \A q \in DOMAIN K : K[q] = IF q = p THEN f ELSE L[q]
  BY DEF Linking
<1>5. Linked(K)
  <2>1. DOMAIN K \subseteq 1..p
    BY <1>2, <1>3, <1>4
  <2>2. \A q \in DOMAIN L : L[q] \in Digit
    BY <1>1 DEF Linked
  <2>3. K \in [DOMAIN K -> Digit]
    BY <1>4, <2>2 DEF Linking
  <2> HIDE DEF K
  <2> QED  BY <1>3, <2>1, <2>3 DEF Linked
<1> HIDE DEF K
<1>6. /\ D \in SUBSET Crum /\ Disjoint(D)
      /\ \A t \in Space, q \in Digit, i \in Digit :
            Has(D, t, q, i) <=> \/ Has(C, t, q, i)
                                \/ t = 2 /\ p <= q /\ q < p + 1 /\ i = f + (q - p)
  BY DEF Added
<1>7. ASSUME NEW q \in Digit, NEW i \in Digit
      PROVE  /\ Has(D, 1, q, i) <=> q \in 1..Len(T) /\ i = T[q]
             /\ Has(D, 2, q, i) <=> q \in DOMAIN K /\ i = K[q]
  <2>1. 1 \in Space /\ 2 \in Space /\ 1 # 2
    BY DEF Space
  <2>2. Has(D, 1, q, i) <=> q \in 1..Len(T) /\ i = T[q]
    BY <1>1, <1>6, <2>1
  <2>3. p <= q /\ q < p + 1 /\ i = f + (q - p) <=> q = p /\ i = f
    BY <1>3 DEF Digit
  <2>4. Has(D, 2, q, i) <=> (q \in DOMAIN L /\ i = L[q]) \/ (q = p /\ i = f)
    BY <1>1, <1>6, <2>1, <2>3
  <2>5. p \notin DOMAIN L
    BY <1>2, <1>3
  <2> QED  BY <1>4, <2>2, <2>4, <2>5
<1>8. Says(D, T, K)
  BY <1>1, <1>5, <1>6, <1>7 DEF Says
<1> QED  BY <1>8 DEF K

LEMMA InsertLink ==
    ASSUME NEW o, NEW C, NEW T, NEW L, Fine(o, C), Says(C, T, L),
           NEW y \in Digit, NEW f \in Digit,
           NEW r \in insertnd(o, At(2, Top(L) + 1), At(y, f), 1)
    PROVE  \E D : Fine(r, D) /\ Says(D, T, Linking(L, Top(L) + 1, f))
<1> DEFINE p == Top(L) + 1
<1>0. /\ Top(L) \in Nat /\ p \in Digit /\ 2 \in Space /\ 1 \in Space /\ p > Top(L) /\ 1 \in Digit
      /\ DOMAIN L \subseteq 1..Top(L) /\ Len(T) \in Nat /\ Len(T) + 1 \in Digit
      /\ C \in SUBSET Crum /\ Disjoint(C)
  BY TopIs DEF Says, Digit, Space
<1> HIDE DEF p
<1>1. makegappm(o, At(2, p), Width(1)) = o
  <2>1. CASE C = {}
    BY <2>1, FineSons DEF makegappm
  <2>2. CASE DOMAIN L # {}
    <3>1. DocReach(o) = At(2, p)
      BY <2>2, DocReachAt DEF p
    <3>2. tumblercmp(At(2, p), DocReach(o)) # LESS
      BY <1>0, <3>1, CmpAt DEF Digit
    <3> QED  BY <3>2 DEF makegappm
  <2>3. CASE C # {} /\ DOMAIN L = {}
    <3>1. DocReach(o) = At(1, Len(T) + 1)
      BY <2>3, DocReachAt
    <3>2. ~(2 < 1) /\ 2 # 1
      OBVIOUS
    <3>3. tumblercmp(At(2, p), DocReach(o)) # LESS
      BY <1>0, <3>1, <3>2, CmpAt
    <3> QED  BY <3>3 DEF makegappm
  <2> QED  BY <2>1, <2>2, <2>3
<1>2. r \in doinsertnd(o, At(2, p), At(y, f), 1)
  BY <1>1 DEF insertnd, p
<1>3. Free(C, 2, p, 1)
  <2> SUFFICES ASSUME NEW c \in C, NEW q \in Digit, p <= q, On(c, 2, q)
               PROVE  FALSE
    BY DEF Free
  <2>1. q \in DOMAIN L
    BY SaysOn
  <2> QED  BY <1>0, <2>1 DEF Digit
<1>4. PICK D : Fine(r, D) /\ Added(D, C, 2, p, f, 1)
  BY <1>0, <1>2, <1>3, InsertIs
<1>5. Says(D, T, Linking(L, p, f))
  BY <1>0, <1>4, LinkSays
<1> QED  BY <1>4, <1>5 DEF p

-----------------------------------------------------------------------------
(* The insertion of several spans, each behind the one before. *)

Further(p, span) ==
    [at |-> tumbleradd(p.at, Width(span.len)),
     orgls |-> UNION {insertnd(q, p.at, span.isa, span.len) : q \in p.orgls}]

DoneExpr(f, o, vsa, spans, k) ==
    f = [i \in 0..k |-> IF i = 0 THEN [at |-> vsa, orgls |-> {o}] ELSE Further(f[i - 1], spans[i])]

LEMMA DoneExist ==
    ASSUME NEW o, NEW vsa, NEW spans, Len(spans) \in Nat
    PROVE  \E f : DoneExpr(f, o, vsa, spans, Len(spans))
<1> DEFINE n == Len(spans)
           a == [at |-> vsa, orgls |-> {o}]
           Good(f, k) == f = [i \in 0..k |-> IF i = 0 THEN a ELSE Further(f[i - 1], spans[i])]
           S == {k \in 0..n : ~\E f : Good(f, k)}
<1> HIDE DEF a
<1>1. ASSUME S # {} PROVE FALSE
  <2>1. S \in SUBSET Nat
    OBVIOUS
  <2> DEFINE k == Min(S)
  <2>2. k \in S /\ \A j \in S : k <= j
    BY <1>1, <2>1, MinIs
  <2> HIDE DEF k
  <2>3. k \in 0..n /\ ~\E f : Good(f, k)
    BY <2>2
  <2>4. k # 0
    <3>1. ASSUME k = 0 PROVE FALSE
      <4> DEFINE f == [i \in 0..0 |-> a]
      <4>1. Good(f, 0)
        OBVIOUS
      <4> QED  BY <2>3, <3>1, <4>1
    <3> QED  BY <3>1
  <2>5. k - 1 \in 0..n /\ k - 1 \notin S
    <3>1. k - 1 \in 0..n /\ ~(k <= k - 1)
      BY <2>3, <2>4
    <3> QED  BY <2>2, <3>1
  <2>6. PICK f : Good(f, k - 1)
    BY <2>5
  <2> DEFINE h == [i \in 0..k |-> IF i = k THEN Further(f[k - 1], spans[k]) ELSE f[i]]
  <2>7. Good(h, k)
    <3>1. \A i \in 0..(k - 1) : f[i] = IF i = 0 THEN a ELSE Further(f[i - 1], spans[i])
      BY <2>6
    <3>2. ASSUME NEW i \in 0..k
          PROVE  h[i] = IF i = 0 THEN a ELSE Further(h[i - 1], spans[i])
      <4>1. CASE i = k
        <5>1. h[i] = Further(f[k - 1], spans[k]) /\ h[k - 1] = f[k - 1]
          BY <2>3, <2>4, <4>1
        <5> QED  BY <2>4, <4>1, <5>1
      <4>2. CASE i # k
        <5>1. i \in 0..(k - 1) /\ h[i] = f[i]
          BY <2>3, <4>2
        <5>2. i # 0 => i - 1 \in 0..k /\ i - 1 # k /\ h[i - 1] = f[i - 1]
          BY <2>3, <5>1
        <5> HIDE DEF h
        <5> QED  BY <3>1, <5>1, <5>2
      <4> QED  BY <4>1, <4>2
    <3>3. h = [i \in 0..k |-> h[i]]
      OBVIOUS
    <3> HIDE DEF h
    <3> QED  BY <3>2, <3>3
  <2> QED  BY <2>3, <2>7
<1>2. n \in 0..n
  OBVIOUS
<1>3. \E f : Good(f, n)
  BY <1>1, <1>2
<1> QED  BY <1>3 DEF DoneExpr, a

DoneBy(f, o, vsa, spans) ==
    /\ f[0] = [at |-> vsa, orgls |-> {o}]
    /\ \A i \in 1..Len(spans) : f[i] = Further(f[i - 1], spans[i])
    /\ insertpm(o, vsa, spans) = f[Len(spans)].orgls

LEMMA DoneAre ==
    ASSUME NEW o, NEW vsa, NEW spans, Len(spans) \in Nat
    PROVE  \E f : DoneBy(f, o, vsa, spans)
<1> DEFINE g == CHOOSE f : DoneExpr(f, o, vsa, spans, Len(spans))
           h == CHOOSE f : f = [i \in 0..Len(spans) |->
                    IF i = 0 THEN [at |-> vsa, orgls |-> {o}]
                    ELSE [at |-> tumbleradd(f[i - 1].at, Width(spans[i].len)),
                          orgls |-> UNION {insertnd(q, f[i - 1].at, spans[i].isa, spans[i].len) :
                                              q \in f[i - 1].orgls}]]
<1>1. DoneExpr(g, o, vsa, spans, Len(spans))
  BY DoneExist
<1>2. insertpm(o, vsa, spans) = h[Len(spans)].orgls
  BY DEF insertpm
<1>3. g = h
  BY DEF DoneExpr, Further
<1> HIDE DEF g, h
<1>4. g[0] = [at |-> vsa, orgls |-> {o}]
  <2>1. 0 \in 0..Len(spans)
    OBVIOUS
  <2> QED  BY <1>1, <2>1 DEF DoneExpr
<1>5. ASSUME NEW i \in 1..Len(spans)
      PROVE  g[i] = Further(g[i - 1], spans[i])
  <2>1. i \in 0..Len(spans) /\ i # 0
    OBVIOUS
  <2> QED  BY <1>1, <2>1 DEF DoneExpr
<1>6. DoneBy(g, o, vsa, spans)
  BY <1>2, <1>3, <1>4, <1>5 DEF DoneBy
<1> QED  BY <1>6

LEMMA InsertpmOne ==
    ASSUME NEW o, NEW vsa, NEW isa, NEW n
    PROVE  insertpm(o, vsa, <<[isa |-> isa, len |-> n]>>) = insertnd(o, vsa, isa, n)
<1> DEFINE span == [isa |-> isa, len |-> n]
           spans == <<span>>
<1>1. Len(spans) = 1 /\ spans[1] = span
  OBVIOUS
<1>2. span.isa = isa /\ span.len = n
  OBVIOUS
<1> HIDE DEF span, spans
<1>3. PICK f : /\ f[0] = [at |-> vsa, orgls |-> {o}]
               /\ \A i \in 1..1 : f[i] = Further(f[i - 1], spans[i])
               /\ insertpm(o, vsa, spans) = f[1].orgls
  <2>1. Len(spans) \in Nat
    BY <1>1
  <2>2. \E f : DoneBy(f, o, vsa, spans)
    BY <2>1, DoneAre
  <2> QED  BY <1>1, <2>2 DEF DoneBy
<1>4. f[1] = Further(f[0], span)
  <2>1. f[1] = Further(f[1 - 1], spans[1])
    BY <1>3
  <2> QED  BY <1>1, <2>1
<1>5. f[0].at = vsa /\ f[0].orgls = {o}
  BY <1>3
<1>6. f[1].orgls = UNION {insertnd(q, vsa, isa, n) : q \in {o}}
  BY <1>2, <1>4, <1>5 DEF Further
<1>7. UNION {insertnd(q, vsa, isa, n) : q \in {o}} = insertnd(o, vsa, isa, n)
  OBVIOUS
<1> QED  BY <1>3, <1>6, <1>7 DEF span, spans

-----------------------------------------------------------------------------
(* Several spans, one after the other. *)

LEMMA SameSeq ==
    ASSUME NEW A \in Seq(Digit), NEW B \in Seq(Digit), Len(A) = Len(B),
           \A q \in 1..Len(B) : A[q] = B[q]
    PROVE  A = B
OBVIOUS

\* T with the first k of the characters V before its place p.
Inlaid(T, p, V, k) ==
    [q \in 1..(Len(T) + k) |-> IF q < p THEN T[q] ELSE IF q < p + k THEN V[q - p + 1] ELSE T[q - k]]

LEMMA InlaidIs ==
    ASSUME NEW T \in Seq(Digit), NEW p \in 1..(Len(T) + 1), NEW V \in Seq(Digit), NEW k \in 0..Len(V)
    PROVE  /\ Inlaid(T, p, V, k) \in Seq(Digit) /\ Len(Inlaid(T, p, V, k)) = Len(T) + k
           /\ \A q \in 1..(Len(T) + k) :
                 /\ q < p => q \in 1..Len(T) /\ Inlaid(T, p, V, k)[q] = T[q]
                 /\ p <= q /\ q < p + k => /\ q - p + 1 \in 1..k
                                           /\ Inlaid(T, p, V, k)[q] = V[q - p + 1]
                 /\ p + k <= q => q - k \in 1..Len(T) /\ Inlaid(T, p, V, k)[q] = T[q - k]
<1> DEFINE W == Inlaid(T, p, V, k)
<1>1. /\ Len(T) \in Nat /\ Len(V) \in Nat /\ k \in Nat /\ p \in Nat /\ p > 0 /\ p <= Len(T) + 1
      /\ k <= Len(V)
  OBVIOUS
<1>2. ASSUME NEW q \in 1..(Len(T) + k)
      PROVE  /\ q \in Nat /\ q > 0 /\ q <= Len(T) + k
             /\ q < p => q \in 1..Len(T)
             /\ p <= q /\ q < p + k => q - p + 1 \in 1..k /\ q - p + 1 \in 1..Len(V)
             /\ p + k <= q => q - k \in 1..Len(T)
             /\ q < p \/ p <= q
             /\ q < p + k \/ p + k <= q
             /\ p <= q => ~(q < p)
             /\ p + k <= q => ~(q < p) /\ ~(q < p + k)
  BY <1>1
<1>3. ASSUME NEW q \in 1..(Len(T) + k)
      PROVE  (IF q < p THEN T[q] ELSE IF q < p + k THEN V[q - p + 1] ELSE T[q - k]) \in Digit
  <2>1. (\A j \in 1..Len(T) : T[j] \in Digit) /\ (\A j \in 1..Len(V) : V[j] \in Digit)
    OBVIOUS
  <2> QED  BY <1>2, <2>1
<1>4. Len(T) + k \in Nat
  BY <1>1
<1>5. W \in [1..(Len(T) + k) -> Digit]
  BY <1>3 DEF Inlaid
<1>6. W \in Seq(Digit) /\ Len(W) = Len(T) + k
  BY <1>4, <1>5, SMTT(30)
<1>7. \A q \in 1..(Len(T) + k) :
          W[q] = IF q < p THEN T[q] ELSE IF q < p + k THEN V[q - p + 1] ELSE T[q - k]
  BY DEF Inlaid
<1> HIDE DEF W
<1>8. ASSUME NEW q \in 1..(Len(T) + k)
      PROVE  /\ q < p => W[q] = T[q]
             /\ p <= q /\ q < p + k => W[q] = V[q - p + 1]
             /\ p + k <= q => W[q] = T[q - k]
  BY <1>2, <1>7
<1> QED  BY <1>2, <1>6, <1>8 DEF W

LEMMA InlaidNone ==
    ASSUME NEW T \in Seq(Digit), NEW p \in 1..(Len(T) + 1), NEW V \in Seq(Digit)
    PROVE  Inlaid(T, p, V, 0) = T
<1> DEFINE z == 0
           W == Inlaid(T, p, V, z)
<1>1. Len(T) \in Nat /\ Len(V) \in Nat /\ z \in 0..Len(V) /\ z = 0
  OBVIOUS
<1> HIDE DEF z
<1>2. /\ W \in Seq(Digit) /\ Len(W) = Len(T) + z
      /\ \A q \in 1..(Len(T) + z) :
            /\ q < p => q \in 1..Len(T) /\ W[q] = T[q]
            /\ p + z <= q => q - z \in 1..Len(T) /\ W[q] = T[q - z]
  <2>1. z \in 0..Len(V)
    BY <1>1
  <2>2. /\ Inlaid(T, p, V, z) \in Seq(Digit) /\ Len(Inlaid(T, p, V, z)) = Len(T) + z
        /\ \A q \in 1..(Len(T) + z) :
              /\ q < p => q \in 1..Len(T) /\ Inlaid(T, p, V, z)[q] = T[q]
              /\ p <= q /\ q < p + z => /\ q - p + 1 \in 1..z
                                        /\ Inlaid(T, p, V, z)[q] = V[q - p + 1]
              /\ p + z <= q => q - z \in 1..Len(T) /\ Inlaid(T, p, V, z)[q] = T[q - z]
    BY <2>1, InlaidIs
  <2> HIDE DEF W
  <2>3. /\ W \in Seq(Digit) /\ Len(W) = Len(T) + z
        /\ \A q \in 1..(Len(T) + z) :
              /\ q < p => q \in 1..Len(T) /\ W[q] = T[q]
              /\ p <= q /\ q < p + z => /\ q - p + 1 \in 1..z /\ W[q] = V[q - p + 1]
              /\ p + z <= q => q - z \in 1..Len(T) /\ W[q] = T[q - z]
    BY <2>2 DEF W
  <2> QED  BY <2>3
<1> HIDE DEF W
<1>3. Len(W) = Len(T)
  BY <1>1, <1>2
<1>4. ASSUME NEW q \in 1..Len(T)
      PROVE  W[q] = T[q]
  <2>1. q \in 1..(Len(T) + z) /\ q - z = q /\ p + z = p /\ (q < p \/ p <= q)
    BY <1>1
  <2> QED  BY <1>2, <2>1
<1>5. W = T
  BY <1>2, <1>3, <1>4, SameSeq
<1> QED  BY <1>5 DEF W, z

LEMMA InlaidStep ==
    ASSUME NEW T \in Seq(Digit), NEW p \in 1..(Len(T) + 1), NEW V \in Seq(Digit),
           NEW k \in 0..Len(V), NEW n \in Digit, k + n <= Len(V), NEW f \in Digit,
           \A j \in 1..n : V[k + j] = f + (j - 1)
    PROVE  With(Inlaid(T, p, V, k), p + k, f, n) = Inlaid(T, p, V, k + n)
<1> DEFINE A == Inlaid(T, p, V, k)
           B == With(A, p + k, f, n)
           E == Inlaid(T, p, V, k + n)
<1>1. /\ Len(T) \in Nat /\ Len(V) \in Nat /\ k \in Nat /\ p \in Nat /\ p > 0 /\ p <= Len(T) + 1
      /\ n \in Nat /\ n > 0 /\ f \in Nat /\ k + n \in 0..Len(V)
  BY DEF Digit
<1>2. /\ A \in Seq(Digit) /\ Len(A) = Len(T) + k
      /\ \A q \in 1..(Len(T) + k) :
                 /\ q < p => A[q] = T[q]
                 /\ p <= q /\ q < p + k => A[q] = V[q - p + 1]
                 /\ p + k <= q => A[q] = T[q - k]
  BY InlaidIs
<1>3. /\ E \in Seq(Digit) /\ Len(E) = Len(T) + (k + n)
      /\ \A q \in 1..(Len(T) + (k + n)) :
                 /\ q < p => E[q] = T[q]
                 /\ p <= q /\ q < p + (k + n) => E[q] = V[q - p + 1]
                 /\ p + (k + n) <= q => E[q] = T[q - (k + n)]
  BY <1>1, InlaidIs, SMTT(30)
<1> HIDE DEF A, E
<1>4. p + k \in 1..(Len(A) + 1)
  BY <1>1, <1>2
<1>5. /\ B \in Seq(Digit) /\ Len(B) = Len(A) + n
      /\ \A q \in 1..(Len(A) + n) :
            /\ q < p + k => q \in 1..Len(A) /\ B[q] = A[q]
            /\ p + k <= q /\ q < p + k + n => B[q] = f + (q - (p + k))
            /\ p + k + n <= q => q - n \in 1..Len(A) /\ B[q] = A[q - n]
  BY <1>2, <1>4, WithIs, ZenonT(60)
<1> HIDE DEF B
<1>6. Len(B) = Len(E) /\ Len(B) \in Nat
  BY <1>1, <1>2, <1>3, <1>5
<1>7. ASSUME NEW q \in 1..Len(E)
      PROVE  B[q] = E[q]
  <2>1. q \in 1..(Len(T) + (k + n)) /\ q \in 1..(Len(A) + n) /\ q \in Nat /\ q > 0
    BY <1>3, <1>5, <1>6
  <2>2. CASE q < p
    <3>1. q < p + k /\ q \in 1..(Len(T) + k)
      BY <1>1, <2>1, <2>2
    <3> QED  BY <1>2, <1>3, <1>5, <2>1, <2>2, <3>1
  <2>3. CASE p <= q /\ q < p + k
    <3>1. q \in 1..(Len(T) + k) /\ q < p + (k + n)
      BY <1>1, <2>1, <2>3
    <3> QED  BY <1>2, <1>3, <1>5, <2>1, <2>3, <3>1
  <2>4. CASE p + k <= q /\ q < p + k + n
    <3>1. q < p + (k + n) /\ p <= q
      BY <1>1, <2>1, <2>4
    <3> DEFINE j == q - (p + k) + 1
    <3>2. j \in 1..n /\ k + j = q - p + 1 /\ j - 1 = q - (p + k)
      BY <1>1, <2>1, <2>4
    <3> HIDE DEF j
    <3>3. V[q - p + 1] = f + (q - (p + k))
      BY <3>2
    <3> QED  BY <1>3, <1>5, <2>1, <2>4, <3>1, <3>3
  <2>5. CASE p + k + n <= q
    <3>1. p + (k + n) <= q /\ p + k <= q - n /\ q - n \in 1..(Len(T) + k) /\ (q - n) - k = q - (k + n)
      BY <1>1, <2>1, <2>5
    <3>2. B[q] = A[q - n]
      BY <1>5, <2>1, <2>5
    <3>3. A[q - n] = T[(q - n) - k]
      BY <1>2, <3>1
    <3>4. E[q] = T[q - (k + n)]
      BY <1>3, <2>1, <3>1
    <3> QED  BY <3>1, <3>2, <3>3, <3>4
  <2>6. q < p \/ (p <= q /\ q < p + k) \/ (p + k <= q /\ q < p + k + n) \/ p + k + n <= q
    BY <1>1, <2>1
  <2> QED  BY <2>2, <2>3, <2>4, <2>5, <2>6
<1>8. B = E
  BY <1>3, <1>5, <1>6, <1>7, SameSeq
<1> QED  BY <1>8 DEF A, B, E

\* The spans of the characters V: the i-th has those behind place w[i - 1] of V,
\* up to w[i], and its I-address is of type Y[i], from number F[i] on.
Laid(spans, V, w, Y, F) ==
    /\ Len(spans) \in Nat /\ V \in Seq(Digit)
    /\ w \in [0..Len(spans) -> 0..Len(V)] /\ w[0] = 0 /\ w[Len(spans)] = Len(V)
    /\ Y \in [1..Len(spans) -> Digit] /\ F \in [1..Len(spans) -> Digit]
    /\ \A i \in 1..Len(spans) :
          /\ spans[i].isa = At(Y[i], F[i]) /\ spans[i].len \in Digit
          /\ w[i] = w[i - 1] + spans[i].len
          /\ \A j \in 1..spans[i].len : V[w[i - 1] + j] = F[i] + (j - 1)

LEMMA InsertpmText ==
    ASSUME NEW o, NEW C, NEW T, NEW L, Fine(o, C), Says(C, T, L),
           NEW p \in 1..(Len(T) + 1), NEW spans, NEW V, NEW w, NEW Y, NEW F,
           Laid(spans, V, w, Y, F), NEW r \in insertpm(o, At(1, p), spans)
    PROVE  \E D : Fine(r, D) /\ Says(D, Inlaid(T, p, V, Len(V)), L)
<1> DEFINE n == Len(spans)
           Good(x, i) == /\ x.at = At(1, p + w[i])
                         /\ \A q \in x.orgls :
                               \E D : Fine(q, D) /\ Says(D, Inlaid(T, p, V, w[i]), L)
<1>1. /\ n \in Nat /\ V \in Seq(Digit) /\ T \in Seq(Digit) /\ Len(T) \in Nat /\ Len(V) \in Nat
      /\ w \in [0..n -> 0..Len(V)] /\ w[0] = 0 /\ w[n] = Len(V)
      /\ Y \in [1..n -> Digit] /\ F \in [1..n -> Digit]
      /\ \A i \in 1..n :
          /\ spans[i].isa = At(Y[i], F[i]) /\ spans[i].len \in Digit
          /\ w[i] = w[i - 1] + spans[i].len
          /\ \A j \in 1..spans[i].len : V[w[i - 1] + j] = F[i] + (j - 1)
  <2>1. T \in Seq(Digit) /\ Len(T) \in Nat
    BY DEF Says
  <2>2. V \in Seq(Digit)
    BY DEF Laid
  <2>3. Len(V) \in Nat
    BY <2>2
  <2> QED  BY <2>1, <2>2, <2>3 DEF Laid
<1>2. PICK f : DoneBy(f, o, At(1, p), spans)
  BY <1>1, DoneAre
<1>3. /\ f[0] = [at |-> At(1, p), orgls |-> {o}]
      /\ \A i \in 1..n : f[i] = Further(f[i - 1], spans[i])
      /\ insertpm(o, At(1, p), spans) = f[n].orgls
  BY <1>2 DEF DoneBy
<1> HIDE DEF n
<1>4. Good(f[0], 0)
  <2>1. p + w[0] = p
    BY <1>1
  <2>2. f[0].at = At(1, p) /\ f[0].orgls = {o}
    BY <1>3
  <2>3. Inlaid(T, p, V, w[0]) = T
    BY <1>1, InlaidNone
  <2> QED  BY <2>1, <2>2, <2>3
<1>5. ASSUME NEW i \in 1..n, Good(f[i - 1], i - 1)
      PROVE  Good(f[i], i)
  <2> DEFINE x == f[i - 1]
             k == w[i - 1]
             l == spans[i].len
             A == Inlaid(T, p, V, k)
  <2>1. /\ f[i] = Further(x, spans[i]) /\ spans[i].isa = At(Y[i], F[i]) /\ l \in Digit
        /\ w[i] = k + l /\ \A j \in 1..l : V[k + j] = F[i] + (j - 1)
        /\ Y[i] \in Digit /\ F[i] \in Digit
    BY <1>1, <1>3
  <2>2. k \in 0..Len(V) /\ w[i] \in 0..Len(V)
    <3>1. i \in 0..n /\ i - 1 \in 0..n
      BY <1>1
    <3> QED  BY <1>1, <3>1
  <2>3. x.at = At(1, p + k) /\ \A q \in x.orgls : \E D : Fine(q, D) /\ Says(D, A, L)
    BY <1>5
  <2> HIDE DEF x, k, l, A
  <2>4. k + l <= Len(V) /\ k \in Nat /\ l \in Nat /\ l > 0 /\ p \in Nat /\ p > 0 /\ p <= Len(T) + 1
        /\ p + k \in Digit /\ 1 \in Digit
    BY <1>1, <2>1, <2>2 DEF Digit
  <2>5. A \in Seq(Digit) /\ Len(A) = Len(T) + k
    BY <1>1, <2>2, InlaidIs, ZenonT(60) DEF A
  <2>6. p + k \in 1..(Len(A) + 1)
    BY <1>1, <2>4, <2>5
  <2>7. f[i].at = At(1, p + w[i])
    <3>1. tumbleradd(At(1, p + k), Width(l)) = At(1, (p + k) + l)
      BY <2>1, <2>4, AtAddWidth
    <3>2. (p + k) + l = p + w[i]
      BY <2>1, <2>4
    <3>3. f[i].at = tumbleradd(x.at, Width(l))
      BY <2>1 DEF Further, l
    <3> QED  BY <2>3, <3>1, <3>2, <3>3
  <2>8. With(A, p + k, F[i], l) = Inlaid(T, p, V, w[i])
    <3>1. With(Inlaid(T, p, V, k), p + k, F[i], l) = Inlaid(T, p, V, k + l)
      <4>1. T \in Seq(Digit) /\ V \in Seq(Digit)
        BY <1>1
      <4>2. k + l <= Len(V)
        BY <2>4
      <4>3. l \in Digit /\ F[i] \in Digit /\ \A j \in 1..l : V[k + j] = F[i] + (j - 1)
        BY <2>1
      <4> QED  BY <2>2, <4>1, <4>2, <4>3, InlaidStep
    <3> QED  BY <2>1, <3>1 DEF A
  <2>9. ASSUME NEW s \in f[i].orgls
        PROVE  \E D : Fine(s, D) /\ Says(D, Inlaid(T, p, V, w[i]), L)
    <3>1. f[i].orgls = UNION {insertnd(q, x.at, At(Y[i], F[i]), l) : q \in x.orgls}
      BY <2>1 DEF Further, l
    <3>2. PICK q \in x.orgls : s \in insertnd(q, At(1, p + k), At(Y[i], F[i]), l)
      BY <2>3, <3>1
    <3>3. PICK E : Fine(q, E) /\ Says(E, A, L)
      BY <2>3
    <3>4. \E D : Fine(s, D) /\ Says(D, With(A, p + k, F[i], l), L)
      BY <2>1, <2>6, <3>2, <3>3, InsertText
    <3> QED  BY <2>8, <3>4
  <2> QED  BY <2>7, <2>9
<1> DEFINE S == {i \in 0..n : ~Good(f[i], i)}
<1>6. ASSUME S # {} PROVE FALSE
  <2>1. S \in SUBSET Nat
    BY <1>1
  <2> DEFINE k == Min(S)
  <2>2. k \in S /\ \A j \in S : k <= j
    BY <1>6, <2>1, MinIs
  <2> HIDE DEF k
  <2>3. k \in 0..n /\ ~Good(f[k], k)
    BY <2>2
  <2>4. k # 0
    BY <1>4, <2>3
  <2>5. k \in 1..n /\ k - 1 \in 0..n /\ ~(k <= k - 1)
    BY <1>1, <2>3, <2>4
  <2>6. Good(f[k - 1], k - 1)
    BY <2>2, <2>5
  <2> HIDE DEF Good
  <2> QED  BY <1>5, <2>3, <2>5, <2>6
<1>7. Good(f[n], n)
  <2>1. n \in 0..n
    BY <1>1
  <2> HIDE DEF Good
  <2> QED  BY <1>6, <2>1
<1> QED  BY <1>1, <1>3, <1>7 DEF n

-----------------------------------------------------------------------------
(* Deletion. *)

\* What is left of some crums when n places from t.a on go.
Kept(D, t, a, n) == {c \in D : ~(c.space = t /\ a <= c.place /\ c.place < a + n)}

\* What was behind them closes up.
CloseTo(K, t, a, n) ==
    [c \in K |-> IF c.space = t /\ a + n <= c.place THEN c.place - n ELSE c.place]

Closed(E, C, t, a, n) ==
    /\ E \in SUBSET Crum /\ Disjoint(E)
    /\ \A u \in Space, q \in Digit, i \in Digit :
          /\ u # t => (Has(E, u, q, i) <=> Has(C, u, q, i))
          /\ q < a => (Has(E, t, q, i) <=> Has(C, t, q, i))
          /\ a <= q => (Has(E, t, q, i) <=> Has(C, t, q + n, i))

\* Or does not.
Emptied(E, C, t, a, n) ==
    /\ E \in SUBSET Crum /\ Disjoint(E)
    /\ \A u \in Space, q \in Digit, i \in Digit :
          Has(E, u, q, i) <=> Has(C, u, q, i) /\ ~(u = t /\ a <= q /\ q < a + n)

LEMMA CloseRelaid ==
    ASSUME NEW C, NEW D, Finer(D, C), Disjoint(C), NEW t \in Space, NEW a \in Digit, NEW n \in Digit,
           \A c \in D : ~Through(c, t, a) /\ ~Through(c, t, a + n)
    PROVE  LET K == Kept(D, t, a, n)
           IN  /\ CloseTo(K, t, a, n) \in [K -> Digit]
               /\ Closed(Relaid(K, CloseTo(K, t, a, n)), C, t, a, n)
               /\ Emptied(K, C, t, a, n)
<1> DEFINE K == Kept(D, t, a, n)
           to == CloseTo(K, t, a, n)
           E == Relaid(K, to)
<1>1. D \in SUBSET Crum /\ Disjoint(D)
  BY DEF Finer
<1>2. a \in Nat /\ n \in Nat /\ n > 0 /\ a > 0 /\ a + n \in Digit
  BY DEF Digit
<1>3. K \subseteq D /\ \A c \in D : c \in K <=> ~(c.space = t /\ a <= c.place /\ c.place < a + n)
  BY DEF Kept
<1> HIDE DEF K
<1>4. \A c \in D : /\ c.place \in Nat /\ c.len \in Nat /\ c.len > 0 /\ c.first \in Nat /\ c.place \in Digit
                   /\ c.space \in Space
                   /\ a + n <= c.place => c.place - n \in Digit
  BY <1>1, <1>2, CrumType DEF Digit
<1>5. to \in [K -> Digit] /\ \A c \in K :
         to[c] = IF c.space = t /\ a + n <= c.place THEN c.place - n ELSE c.place
  BY <1>3, <1>4 DEF CloseTo
<1> HIDE DEF to
<1>6. /\ E \in SUBSET Crum
      /\ \A u, q, i : Has(E, u, q, i) <=>
                 \E c \in K : /\ c.space = u /\ to[c] <= q /\ q < to[c] + c.len
                              /\ i = c.first + (q - to[c])
      /\ (\A c, d \in K : \A q \in Digit :
                 c.space = d.space /\ to[c] <= q /\ q < to[c] + c.len
                                   /\ to[d] <= q /\ q < to[d] + d.len => c = d)
                 => Disjoint(E)
  <2>1. K \in SUBSET Crum
    BY <1>1, <1>3
  <2> QED  BY <1>5, <2>1, RelaidIs
<1> HIDE DEF E
\* A crum of K is before the places that go, or behind.
<1>7. ASSUME NEW c \in D, NEW q \in Digit, c.space = t
      PROVE  /\ c \in K => c.place + c.len <= a \/ a + n <= c.place
             /\ c \in K /\ c.place + c.len <= a => to[c] = c.place
             /\ c \in K /\ a + n <= c.place => to[c] = c.place - n
             /\ c \in K => ~(On(c, t, q) /\ a <= q /\ q < a + n)
             /\ On(c, t, q) /\ (q < a \/ a + n <= q) => c \in K
  <2>1. q \in Nat /\ c.place \in Nat /\ c.len \in Nat /\ c.len > 0
    BY <1>4 DEF Digit
  <2>2. ~(c.place < a /\ a < c.place + c.len) /\ ~(c.place < a + n /\ a + n < c.place + c.len)
    BY <1>7 DEF Through
  <2>3. c \in K <=> ~(a <= c.place /\ c.place < a + n)
    BY <1>3, <1>7
  <2>4. c \in K => c.place + c.len <= a \/ a + n <= c.place
    BY <1>2, <2>1, <2>2, <2>3
  <2>5. c \in K /\ c.place + c.len <= a => to[c] = c.place
    <3>1. c.place + c.len <= a => ~(a + n <= c.place)
      BY <1>2, <2>1
    <3> QED  BY <1>5, <3>1
  <2>6. c \in K /\ a + n <= c.place => to[c] = c.place - n
    BY <1>5, <1>7
  <2>7. c \in K => ~(On(c, t, q) /\ a <= q /\ q < a + n)
    BY <1>2, <2>1, <2>4 DEF On
  <2>8. On(c, t, q) /\ (q < a \/ a + n <= q) => c \in K
    BY <1>2, <2>1, <2>2, <2>3 DEF On
  <2> QED  BY <2>4, <2>5, <2>6, <2>7, <2>8
\* Where a crum is that is to be found at q.
<1>8. ASSUME NEW c \in K, NEW q \in Digit
      PROVE  /\ c.space = t /\ q < a =>
                   (to[c] <= q /\ q < to[c] + c.len <=> On(c, t, q))
             /\ c.space = t /\ q < a /\ On(c, t, q) => to[c] = c.place
             /\ c.space = t /\ a <= q =>
                   (to[c] <= q /\ q < to[c] + c.len <=> On(c, t, q + n))
             /\ c.space = t /\ a <= q /\ On(c, t, q + n) => to[c] = c.place - n
             /\ c.space # t => to[c] = c.place
  <2>1. q \in Nat /\ c \in D /\ c.place \in Nat /\ c.len \in Nat /\ c.len > 0
    BY <1>3, <1>4 DEF Digit
  <2>2. CASE c.space = t /\ c.place + c.len <= a
    <3>1. to[c] = c.place
      BY <1>7, <2>1, <2>2
    <3> QED  BY <1>2, <2>1, <2>2, <3>1 DEF On
  <2>3. CASE c.space = t /\ a + n <= c.place
    <3>1. to[c] = c.place - n
      BY <1>7, <2>1, <2>3
    <3> QED  BY <1>2, <2>1, <2>3, <3>1 DEF On
  <2>4. CASE c.space # t
    BY <1>5, <2>4
  <2>5. c.space = t => c.place + c.len <= a \/ a + n <= c.place
    BY <1>7, <2>1
  <2> QED  BY <2>2, <2>3, <2>4, <2>5
<1>9. ASSUME NEW q \in Digit
      PROVE  q \in Nat /\ (q < a \/ a <= q) /\ q + n \in Digit /\ q + n \in Nat /\ (a <= q => a + n <= q + n)
             /\ \A c, u : On(c, u, q) => c.space = u
  BY <1>2 DEF Digit, On
<1>10. ASSUME NEW u \in Space, NEW q \in Digit, NEW i \in Digit
       PROVE  /\ u # t => (Has(E, u, q, i) <=> Has(C, u, q, i))
              /\ q < a => (Has(E, t, q, i) <=> Has(C, t, q, i))
              /\ a <= q => (Has(E, t, q, i) <=> Has(C, t, q + n, i))
  <2>1. ASSUME u # t
        PROVE  Has(E, u, q, i) <=> Has(C, u, q, i)
    <3>1. ASSUME NEW c \in K
          PROVE  (/\ c.space = u /\ to[c] <= q /\ q < to[c] + c.len /\ i = c.first + (q - to[c]))
                    <=> On(c, u, q) /\ i = c.first + (q - c.place)
      BY <1>8, <2>1 DEF On
    <3>2. \A c \in D : c.space = u => c \in K
      BY <1>3, <2>1
    <3>3. Has(E, u, q, i) <=> \E c \in K : On(c, u, q) /\ i = c.first + (q - c.place)
      BY <1>6, <3>1
    <3>4. Has(E, u, q, i) <=> Has(D, u, q, i)
      BY <1>3, <1>9, <3>2, <3>3 DEF Has
    <3> QED  BY <3>4 DEF Finer
  <2>2. ASSUME q < a
        PROVE  Has(E, t, q, i) <=> Has(C, t, q, i)
    <3>1. ASSUME NEW c \in K
          PROVE  (/\ c.space = t /\ to[c] <= q /\ q < to[c] + c.len /\ i = c.first + (q - to[c]))
                    <=> On(c, t, q) /\ i = c.first + (q - c.place)
      BY <1>8, <1>9, <2>2
    <3>2. Has(E, t, q, i) <=> \E c \in K : On(c, t, q) /\ i = c.first + (q - c.place)
      BY <1>6, <3>1
    <3>3. \A c \in D : On(c, t, q) => c \in K
      BY <1>7, <1>9, <2>2
    <3>4. Has(E, t, q, i) <=> Has(D, t, q, i)
      BY <1>3, <3>2, <3>3 DEF Has
    <3> QED  BY <3>4 DEF Finer
  <2>3. ASSUME a <= q
        PROVE  Has(E, t, q, i) <=> Has(C, t, q + n, i)
    <3>1. ASSUME NEW c \in K
          PROVE  (/\ c.space = t /\ to[c] <= q /\ q < to[c] + c.len /\ i = c.first + (q - to[c]))
                    <=> On(c, t, q + n) /\ i = c.first + ((q + n) - c.place)
      <4>1. On(c, t, q + n) => c.space = t
        BY DEF On
      <4>2. q - (c.place - n) = (q + n) - c.place
        BY <1>2, <1>3, <1>4, <1>9
      <4>3. CASE On(c, t, q + n)
        BY <1>8, <2>3, <4>1, <4>2, <4>3
      <4>4. CASE ~On(c, t, q + n)
        BY <1>8, <2>3, <4>4
      <4> QED  BY <4>3, <4>4
    <3>2. Has(E, t, q, i) <=> \E c \in K : On(c, t, q + n) /\ i = c.first + ((q + n) - c.place)
      BY <1>6, <3>1
    <3>3. \A c \in D : On(c, t, q + n) => c \in K
      <4> SUFFICES ASSUME NEW c \in D, On(c, t, q + n) PROVE c \in K
        OBVIOUS
      <4>1. q + n \in Digit /\ a + n <= q + n /\ c.space = t
        BY <1>9, <2>3 DEF On
      <4> QED  BY <1>7, <4>1
    <3>4. Has(E, t, q, i) <=> Has(D, t, q + n, i)
      BY <1>3, <3>2, <3>3 DEF Has
    <3> QED  BY <1>9, <3>4 DEF Finer
  <2> QED  BY <2>1, <2>2, <2>3
<1>11. ASSUME NEW c \in K, NEW d \in K, NEW q \in Digit, c.space = d.space,
              to[c] <= q, q < to[c] + c.len, to[d] <= q, q < to[d] + d.len
       PROVE  c = d
  <2>1. c \in D /\ d \in D /\ c.space \in Space
    BY <1>3, <1>4
  <2>2. CASE c.space = t /\ q < a
    <3>1. On(c, t, q) /\ On(d, t, q)
      BY <1>8, <1>11, <2>2
    <3> QED  BY <1>1, <2>1, <3>1 DEF Disjoint
  <2>3. CASE c.space = t /\ a <= q
    <3>1. On(c, t, q + n) /\ On(d, t, q + n)
      BY <1>8, <1>11, <2>3
    <3> QED  BY <1>1, <1>9, <2>1, <3>1 DEF Disjoint
  <2>4. CASE c.space # t
    <3>1. On(c, c.space, q) /\ On(d, c.space, q)
      BY <1>8, <1>11, <2>4 DEF On
    <3> QED  BY <1>1, <2>1, <3>1 DEF Disjoint
  <2> QED  BY <1>9, <2>2, <2>3, <2>4
<1>12. Disjoint(E)
  BY <1>6, <1>11
<1>13. Closed(E, C, t, a, n)
  BY <1>6, <1>10, <1>12 DEF Closed
<1>14. Emptied(K, C, t, a, n)
  <2>1. ASSUME NEW u \in Space, NEW q \in Digit, NEW i \in Digit
        PROVE  Has(K, u, q, i) <=> Has(C, u, q, i) /\ ~(u = t /\ a <= q /\ q < a + n)
    <3>1. ASSUME NEW c \in D, On(c, u, q)
          PROVE  c \in K <=> ~(u = t /\ a <= q /\ q < a + n)
      <4>1. c.space = u
        BY <3>1 DEF On
      <4>2. CASE u = t
        <5>1. q < a \/ (a <= q /\ q < a + n) \/ a + n <= q
          BY <1>2, <1>9
        <5> QED  BY <1>7, <3>1, <4>1, <4>2, <5>1
      <4>3. CASE u # t
        BY <1>3, <4>1, <4>3
      <4> QED  BY <4>2, <4>3
    <3>2. Has(K, u, q, i) <=> Has(D, u, q, i) /\ ~(u = t /\ a <= q /\ q < a + n)
      BY <1>3, <3>1 DEF Has
    <3> QED  BY <3>2 DEF Finer
  <2>2. K \in SUBSET Crum /\ Disjoint(K)
    BY <1>1, <1>3 DEF Disjoint
  <2> QED  BY <2>1, <2>2 DEF Emptied
<1> QED  BY <1>5, <1>13, <1>14 DEF E, to, K

LEMMA TwoKnives ==
    ASSUME NEW t \in Space, NEW a \in Digit, NEW u \in Space, NEW b \in Digit
    PROVE  LET knives == <<At(t, a), At(u, b)>>
               U == [i \in 1..2 |-> IF i = 1 THEN t ELSE u]
               Q == [i \in 1..2 |-> IF i = 1 THEN a ELSE b]
           IN  /\ Knives(knives, U, Q) /\ Len(knives) = 2
               /\ U[1] = t /\ Q[1] = a /\ U[2] = u /\ Q[2] = b
<1> DEFINE knives == <<At(t, a), At(u, b)>>
           U == [i \in 1..2 |-> IF i = 1 THEN t ELSE u]
           Q == [i \in 1..2 |-> IF i = 1 THEN a ELSE b]
<1>1. Len(knives) = 2 /\ DOMAIN knives = 1..2 /\ knives[1] = At(t, a) /\ knives[2] = At(u, b)
  OBVIOUS
<1>2. U \in [1..2 -> Space] /\ Q \in [1..2 -> Digit]
  OBVIOUS
<1>3. U[1] = t /\ Q[1] = a /\ U[2] = u /\ Q[2] = b
  OBVIOUS
<1> HIDE DEF knives, U, Q
<1>4. \A i \in 1..2 : knives[i] = At(U[i], Q[i])
  <2>1. \A i \in 1..2 : i = 1 \/ i = 2
    OBVIOUS
  <2> QED  BY <1>1, <1>3, <2>1
<1>5. Knives(knives, U, Q)
  BY <1>1, <1>2, <1>4 DEF Knives
<1> QED  BY <1>1, <1>3, <1>5 DEF knives, U, Q

LEMMA DeleteIs ==
    ASSUME NEW s, NEW m, NEW C, Rooted(s, m, C), Disjoint(C),
           NEW t \in Space, NEW a \in Digit, NEW n \in Digit,
           (t = s /\ m <= a) \/ (t = 2 /\ s = 1)
    PROVE  \E E : /\ Fine(deletend(Tree(s, m, C), At(t, a), Width(n)), E)
                  /\ t = s => Closed(E, C, t, a, n)
                  /\ t # s => Emptied(E, C, t, a, n)
<1> DEFINE o == Tree(s, m, C)
           knives == <<At(t, a), At(t, a + n)>>
           cut == makecutsnd(o, knives)
           U == [i \in 1..2 |-> IF i = 1 THEN t ELSE t]
           Q == [i \in 1..2 |-> IF i = 1 THEN a ELSE a + n]
           w == Width(n)
           section(son) == CutSection(cut, son, knives)
           shut(son) == IF section(son) = 2 THEN [son EXCEPT !.dsp = tumblersub(@, w)] ELSE son
<1>1. /\ a \in Nat /\ n \in Nat /\ a > 0 /\ n > 0 /\ a + n \in Digit /\ t \in Digit /\ t \in Nat
      /\ s \in Space /\ m \in Digit /\ m \in Nat /\ t \in {1, 2} /\ s \in {1, 2}
  BY SpaceDigit DEF Digit, Space, Rooted
<1>2. Knives(knives, U, Q) /\ Len(knives) = 2 /\ U[1] = t /\ Q[1] = a /\ U[2] = t /\ Q[2] = a + n
  BY <1>1, TwoKnives
<1>3. tumbleradd(At(t, a), Width(n)) = At(t, a + n)
  BY <1>1, AtAddWidth
<1>4. deletend(o, At(t, a), w) =
         setwispnd([cut EXCEPT !.sons =
            {IF CutSection(cut, son, knives) = 2 THEN [son EXCEPT !.dsp = tumblersub(@, w)] ELSE son :
                son \in {son \in @ : CutSection(cut, son, knives) # 1}}])
  BY <1>3 DEF deletend
<1> HIDE DEF knives, U, Q, w
<1>5. PICK D : /\ cut = Tree(s, m, D) /\ Rooted(s, m, D) /\ Finer(D, C)
               /\ \A i \in 1..2 : \A d \in D : ~Through(d, U[i], Q[i])
  <2>1. \E D : /\ makecutsnd(Tree(s, m, C), knives) = Tree(s, m, D)
               /\ Rooted(s, m, D) /\ Finer(D, C)
               /\ \A i \in 1..Len(knives) : \A d \in D : ~Through(d, U[i], Q[i])
    BY <1>2, CutsTree
  <2> QED  BY <1>2, <2>1
<1>6. deletend(o, At(t, a), w) =
         setwispnd([cut EXCEPT !.sons = {shut(son) : son \in {son \in @ : section(son) # 1}}])
  BY <1>4
<1> HIDE DEF cut, o
<1>7. \A d \in D : ~Through(d, t, a) /\ ~Through(d, t, a + n)
  <2>1. 1 \in 1..2 /\ 2 \in 1..2
    OBVIOUS
  <2> QED  BY <1>2, <1>5, <2>1
<1> DEFINE K == Kept(D, t, a, n)
           to == CloseTo(K, t, a, n)
           E == IF t = s THEN Relaid(K, to) ELSE K
           F(d) == IF t = s THEN Moved(d, to[d]) ELSE d
<1>8. /\ to \in [K -> Digit] /\ Closed(Relaid(K, to), C, t, a, n) /\ Emptied(K, C, t, a, n)
  BY <1>1, <1>5, <1>7, CloseRelaid
<1>9. /\ cut.apex = At(s, m) /\ cut.sons = {SonOf(s, m, d) : d \in D}
      /\ cut = [apex |-> At(s, m), sons |-> cut.sons]
      /\ D \in SUBSET Crum /\ \A d \in D : Behind(s, m, d.space, d.place)
  BY <1>5 DEF Tree, Rooted
<1>10. /\ K \subseteq D
       /\ \A d \in D : d \in K <=> ~(d.space = t /\ a <= d.place /\ d.place < a + n)
       /\ \A d \in K : to[d] = IF d.space = t /\ a + n <= d.place THEN d.place - n ELSE d.place
  BY DEF Kept, CloseTo
<1> HIDE DEF K, to, section
<1>11. ASSUME NEW d \in D
       PROVE  /\ d \in Crum /\ d.space \in Space /\ d.place \in Digit /\ d.place \in Nat
              /\ Behind(s, m, d.space, d.place)
              /\ section(SonOf(s, m, d)) = 1 <=> d \notin K
              /\ section(SonOf(s, m, d)) = 2 <=>
                     t < d.space \/ (d.space = t /\ a + n <= d.place)
  <2> DEFINE k == section(SonOf(s, m, d))
  <2>0. d \in Crum /\ Behind(s, m, d.space, d.place)
    BY <1>9
  <2>1. /\ k \in 0..2
        /\ k # 0 => Behind(U[k], Q[k], d.space, d.place)
        /\ \A i \in 1..2 : Behind(U[i], Q[i], d.space, d.place) => i <= k
    BY <1>1, <1>2, <1>9, <2>0, SectionIs, ZenonT(60) DEF section
  <2> HIDE DEF k
  <2>2. d.space \in Space /\ d.place \in Nat /\ d.place > 0 /\ d.space \in Nat /\ d.place \in Digit
    BY <2>0, CrumType
  <2>3. /\ k = 1 => Behind(t, a, d.space, d.place)
        /\ k = 2 => Behind(t, a + n, d.space, d.place)
        /\ Behind(t, a, d.space, d.place) => 1 <= k
        /\ Behind(t, a + n, d.space, d.place) => 2 <= k
    BY <1>2, <2>1
  <2>4. Behind(t, a, d.space, d.place) <=> t < d.space \/ (t = d.space /\ a <= d.place)
    BY DEF Behind
  <2>5. Behind(t, a + n, d.space, d.place) <=> t < d.space \/ (t = d.space /\ a + n <= d.place)
    BY DEF Behind
  <2>6. k = 2 <=> t < d.space \/ (t = d.space /\ a + n <= d.place)
    BY <2>1, <2>3, <2>5
  <2>7. k = 1 <=> d.space = t /\ a <= d.place /\ d.place < a + n
    <3>1. t < d.space => d.space # t
      BY <1>1, <2>2
    <3> QED  BY <1>1, <2>1, <2>2, <2>3, <2>4, <2>5, <3>1
  <2> QED  BY <1>10, <2>0, <2>2, <2>6, <2>7 DEF k
<1>12. ASSUME NEW d \in K
       PROVE  /\ shut(SonOf(s, m, d)) = SonOf(s, m, F(d))
              /\ F(d) \in Crum /\ Behind(s, m, F(d).space, F(d).place)
  <2> DEFINE e == Moved(d, to[d])
  <2>1. /\ d \in D /\ d \in Crum /\ d.space \in Space /\ d.place \in Digit /\ d.place \in Nat
        /\ Behind(s, m, d.space, d.place) /\ to[d] \in Digit
        /\ to[d] = IF d.space = t /\ a + n <= d.place THEN d.place - n ELSE d.place
    BY <1>8, <1>10, <1>11
  <2>2. section(SonOf(s, m, d)) = 2 <=> t < d.space \/ (d.space = t /\ a + n <= d.place)
    BY <1>11, <2>1
  <2>3. /\ e \in Crum /\ e.space = d.space /\ e.place = to[d] /\ e.type = d.type
        /\ e.first = d.first /\ e.len = d.len
    BY <2>1, MovedIs
  <2> HIDE DEF e
  <2>4. /\ d.space = s /\ m <= d.place - n =>
              tumblersub(Disp(s, m, d.space, d.place), w) = Disp(s, m, d.space, d.place - n)
        /\ d.space # s => tumblersub(Disp(s, m, d.space, d.place), w) = Disp(s, m, d.space, d.place)
    <3>1. ASSUME NEW x \in Space, NEW y \in Digit, Behind(s, m, x, y)
          PROVE  /\ x = s /\ m <= y - n => tumblersub(Disp(s, m, x, y), w) = Disp(s, m, x, y - n)
                 /\ x # s => tumblersub(Disp(s, m, x, y), w) = Disp(s, m, x, y)
      BY <1>1, <3>1, DispLess DEF w
    <3> QED  BY <2>1, <3>1
  <2>5. CASE d.space = t /\ a + n <= d.place /\ t = s
    <3>1. m <= d.place - n
      BY <1>1, <2>1, <2>5
    <3>2. [SonOf(s, m, d) EXCEPT !.dsp = tumblersub(@, w)] = SonOf(s, m, e)
      BY <2>1, <2>3, <2>4, <2>5, <3>1 DEF SonOf
    <3>3. Behind(s, m, e.space, e.place)
      BY <2>1, <2>3, <2>5, <3>1 DEF Behind
    <3> QED  BY <2>2, <2>3, <2>5, <3>2, <3>3 DEF e
  <2>6. CASE d.space = t /\ a + n <= d.place /\ t # s
    <3>1. [SonOf(s, m, d) EXCEPT !.dsp = tumblersub(@, w)] = SonOf(s, m, d)
      BY <2>4, <2>6 DEF SonOf
    <3> QED  BY <2>1, <2>2, <2>6, <3>1
  <2>7. CASE t < d.space
    <3>1. d.space # t /\ d.space # s
      BY <1>1, <2>1, <2>7 DEF Space
    <3>2. [SonOf(s, m, d) EXCEPT !.dsp = tumblersub(@, w)] = SonOf(s, m, d)
      BY <2>4, <3>1 DEF SonOf
    <3>3. SonOf(s, m, d) = SonOf(s, m, e)
      BY <2>1, <2>3, <3>1 DEF SonOf
    <3>4. Behind(s, m, e.space, e.place)
      BY <2>1, <2>3, <3>1
    <3> QED  BY <2>1, <2>2, <2>3, <2>7, <3>2, <3>3, <3>4 DEF e
  <2>8. CASE ~(t < d.space) /\ ~(d.space = t /\ a + n <= d.place)
    <3>1. SonOf(s, m, d) = SonOf(s, m, e)
      BY <2>1, <2>3, <2>8 DEF SonOf
    <3>2. Behind(s, m, e.space, e.place)
      BY <2>1, <2>3, <2>8
    <3> QED  BY <2>1, <2>2, <2>3, <2>8, <3>1, <3>2 DEF e
  <2> QED  BY <2>5, <2>6, <2>7, <2>8
<1>13. E = {F(d) : d \in K}
  BY DEF Relaid
<1>14. {shut(son) : son \in {son \in cut.sons : section(son) # 1}} = {SonOf(s, m, e) : e \in E}
  <2> HIDE DEF shut, F, E
  <2>1. {son \in cut.sons : section(son) # 1} = {SonOf(s, m, d) : d \in K}
    BY <1>9, <1>10, <1>11
  <2>2. {shut(son) : son \in {son \in cut.sons : section(son) # 1}} = {shut(SonOf(s, m, d)) : d \in K}
    BY <2>1
  <2>3. {SonOf(s, m, e) : e \in E} = {SonOf(s, m, F(d)) : d \in K}
    BY <1>13
  <2>4. \A d \in K : shut(SonOf(s, m, d)) = SonOf(s, m, F(d))
    BY <1>12
  <2> QED  BY <2>2, <2>3, <2>4
<1>15. Rooted(s, m, E)
  <2>1. \A e \in E : e \in Crum /\ Behind(s, m, e.space, e.place)
    <3> HIDE DEF F, E
    <3> QED  BY <1>12, <1>13
  <2> HIDE DEF E
  <2> QED  BY <1>1, <2>1 DEF Rooted
<1>16. Fine(deletend(o, At(t, a), w), E)
  <2> HIDE DEF shut, E
  <2>1. [cut EXCEPT !.sons = {shut(son) : son \in {son \in @ : section(son) # 1}}] =
            [apex |-> At(s, m), sons |-> {shut(son) : son \in {son \in cut.sons : section(son) # 1}}]
    <3> DEFINE X == {shut(son) : son \in {son \in cut.sons : section(son) # 1}}
    <3>1. [cut EXCEPT !.sons = {shut(son) : son \in {son \in @ : section(son) # 1}}] =
              [cut EXCEPT !.sons = X]
      OBVIOUS
    <3> HIDE DEF X
    <3>2. [cut EXCEPT !.sons = X] = [apex |-> At(s, m), sons |-> X]
      BY <1>9
    <3> QED  BY <3>1, <3>2 DEF X
  <2>2. deletend(o, At(t, a), w) = setwispnd(Tree(s, m, E))
    BY <1>6, <1>14, <2>1 DEF Tree
  <2> QED  BY <1>15, <2>2, SetwispIs
<1> QED  BY <1>8, <1>16 DEF o, w

\* T without n characters from place a on.
Without(T, a, n) == [q \in 1..(Len(T) - n) |-> IF q < a THEN T[q] ELSE T[q + n]]

LEMMA WithoutIs ==
    ASSUME NEW T \in Seq(Digit), NEW a \in Digit, NEW n \in Digit, a + n <= Len(T) + 1
    PROVE  /\ Without(T, a, n) \in Seq(Digit) /\ Len(Without(T, a, n)) = Len(T) - n
           /\ Len(T) - n \in Nat
           /\ \A q \in 1..(Len(T) - n) :
                 /\ q < a => q \in 1..Len(T) /\ Without(T, a, n)[q] = T[q]
                 /\ a <= q => q + n \in 1..Len(T) /\ Without(T, a, n)[q] = T[q + n]
<1> DEFINE W == Without(T, a, n)
<1>1. Len(T) \in Nat /\ n \in Nat /\ n > 0 /\ a \in Nat /\ a > 0 /\ Len(T) - n \in Nat
  BY DEF Digit
<1>2. ASSUME NEW q \in 1..(Len(T) - n)
      PROVE  /\ q \in Nat /\ q > 0 /\ q \in 1..Len(T) /\ q + n \in 1..Len(T)
             /\ a <= q <=> ~(q < a)
  BY <1>1
<1>3. \A k \in 1..Len(T) : T[k] \in Digit
  OBVIOUS
<1>4. W \in [1..(Len(T) - n) -> Digit]
  BY <1>2, <1>3 DEF Without
<1>5. W \in Seq(Digit) /\ Len(W) = Len(T) - n
  BY <1>1, <1>4
<1>6. \A q \in 1..(Len(T) - n) : W[q] = IF q < a THEN T[q] ELSE T[q + n]
  BY DEF Without
<1> HIDE DEF W
<1> QED  BY <1>1, <1>2, <1>5, <1>6 DEF W

LEMMA DeleteText ==
    ASSUME NEW o, NEW C, NEW T, NEW L, Fine(o, C), Says(C, T, L),
           NEW a \in Digit, NEW n \in Digit, a + n <= Len(T) + 1
    PROVE  \E E : Fine(deletend(o, At(1, a), Width(n)), E) /\ Says(E, Without(T, a, n), L)
<1> DEFINE W == Without(T, a, n)
<1>1. /\ T \in Seq(Digit) /\ Linked(L) /\ Disjoint(C)
      /\ \A q \in Digit, i \in Digit : Has(C, 1, q, i) <=> q \in 1..Len(T) /\ i = T[q]
      /\ \A q \in Digit, i \in Digit : Has(C, 2, q, i) <=> q \in DOMAIN L /\ i = L[q]
  BY DEF Says
<1>2. /\ Len(T) \in Nat /\ n \in Nat /\ n > 0 /\ a \in Nat /\ a > 0 /\ Len(T) # 0
      /\ 1 \in Space /\ 2 \in Space /\ 2 # 1
  BY <1>1 DEF Digit, Space
<1>3. Rooted(1, 1, C) /\ o = Tree(1, 1, C)
  BY <1>2, SaysApex
<1>4. PICK E : Fine(deletend(o, At(1, a), Width(n)), E) /\ Closed(E, C, 1, a, n)
  BY <1>1, <1>2, <1>3, DeleteIs
<1>5. /\ W \in Seq(Digit) /\ Len(W) = Len(T) - n /\ Len(T) - n \in Nat
      /\ \A q \in 1..(Len(T) - n) :
            /\ q < a => W[q] = T[q]
            /\ a <= q => W[q] = T[q + n]
  BY <1>1, WithoutIs
<1> HIDE DEF W
<1>6. /\ E \in SUBSET Crum /\ Disjoint(E)
      /\ \A q \in Digit, i \in Digit :
          /\ Has(E, 2, q, i) <=> Has(C, 2, q, i)
          /\ q < a => (Has(E, 1, q, i) <=> Has(C, 1, q, i))
          /\ a <= q => (Has(E, 1, q, i) <=> Has(C, 1, q + n, i))
  BY <1>2, <1>4 DEF Closed
<1>7. ASSUME NEW q \in Digit, NEW i \in Digit
      PROVE  Has(E, 1, q, i) <=> q \in 1..Len(W) /\ i = W[q]
  <2>1. q \in Nat /\ q > 0 /\ (q < a \/ a <= q) /\ q + n \in Digit
    BY <1>2 DEF Digit
  <2>2. CASE q < a
    <3>1. q \in 1..Len(T) /\ q \in 1..(Len(T) - n)
      BY <1>2, <2>1, <2>2
    <3> QED  BY <1>1, <1>5, <1>6, <2>2, <3>1
  <2>3. CASE a <= q
    <3>1. q + n \in 1..Len(T) <=> q \in 1..(Len(T) - n)
      BY <1>2, <2>1, <2>3
    <3>2. Has(E, 1, q, i) <=> q + n \in 1..Len(T) /\ i = T[q + n]
      BY <1>1, <1>6, <2>1, <2>3
    <3> QED  BY <1>5, <2>3, <3>1, <3>2
  <2> QED  BY <2>1, <2>2, <2>3
<1>8. Says(E, W, L)
  BY <1>1, <1>5, <1>6, <1>7 DEF Says
<1> QED  BY <1>4, <1>8 DEF W

\* L without the links at n places from a on: what is behind them stays, or moves up.
Unlinked(L, a, n) == [q \in {k \in DOMAIN L : k < a \/ a + n <= k} |-> L[q]]

MovedUp(L, a, n) ==
    [q \in {k \in DOMAIN L : k < a} \union {k - n : k \in {k \in DOMAIN L : a + n <= k}} |->
        IF q < a THEN L[q] ELSE L[q + n]]

Shrunk(L, a, n) ==
    /\ Linked(Unlinked(L, a, n)) /\ Linked(MovedUp(L, a, n))
    /\ \A q \in Digit :
          /\ q \in DOMAIN Unlinked(L, a, n) <=> q \in DOMAIN L /\ (q < a \/ a + n <= q)
          /\ q \in DOMAIN L /\ (q < a \/ a + n <= q) => Unlinked(L, a, n)[q] = L[q]
          /\ q < a => (q \in DOMAIN MovedUp(L, a, n) <=> q \in DOMAIN L)
          /\ q < a /\ q \in DOMAIN L => MovedUp(L, a, n)[q] = L[q]
          /\ a <= q => (q \in DOMAIN MovedUp(L, a, n) <=> q + n \in DOMAIN L)
          /\ a <= q /\ q + n \in DOMAIN L => MovedUp(L, a, n)[q] = L[q + n]

LEMMA UnlinkedIs ==
    ASSUME NEW L, Linked(L), NEW a \in Digit, NEW n \in Digit
    PROVE  Shrunk(L, a, n)
<1> DEFINE A == Unlinked(L, a, n)
           B == MovedUp(L, a, n)
<1>1. PICK z \in Nat : DOMAIN L \subseteq 1..z /\ L \in [DOMAIN L -> Digit]
  BY DEF Linked
<1>2. a \in Nat /\ n \in Nat /\ a > 0 /\ n > 0
  BY DEF Digit
<1>3. \A k \in DOMAIN L : k \in 1..z /\ L[k] \in Digit
  BY <1>1
<1>4. DOMAIN A = {k \in DOMAIN L : k < a \/ a + n <= k} /\ \A k \in DOMAIN A : A[k] = L[k]
  BY DEF Unlinked
<1>5. /\ DOMAIN B = {k \in DOMAIN L : k < a} \union {k - n : k \in {k \in DOMAIN L : a + n <= k}}
      /\ \A k \in DOMAIN B : B[k] = IF k < a THEN L[k] ELSE L[k + n]
  BY DEF MovedUp
<1>6. Linked(A)
  <2>1. A \in [DOMAIN A -> Digit]
    BY <1>3 DEF Unlinked
  <2>2. DOMAIN A \subseteq 1..z
    BY <1>3, <1>4
  <2> HIDE DEF A
  <2> QED  BY <2>1, <2>2 DEF Linked
<1>7. \A k \in DOMAIN B : k \in 1..z /\ (k < a => k \in DOMAIN L) /\ (~(k < a) => k + n \in DOMAIN L)
  <2> SUFFICES ASSUME NEW k \in DOMAIN B
               PROVE  k \in 1..z /\ (k < a => k \in DOMAIN L) /\ (~(k < a) => k + n \in DOMAIN L)
    OBVIOUS
  <2> HIDE DEF B
  <2>1. CASE k \in DOMAIN L /\ k < a
    BY <1>3, <2>1
  <2>2. ASSUME NEW j \in DOMAIN L, a + n <= j, k = j - n
        PROVE  k \in 1..z /\ ~(k < a) /\ k + n \in DOMAIN L
    BY <1>2, <1>3, <2>2
  <2> QED  BY <1>5, <2>1, <2>2
<1>8. Linked(B)
  <2>1. \A k \in DOMAIN B : B[k] \in Digit
    <3> HIDE DEF B
    <3> QED  BY <1>3, <1>5, <1>7
  <2>2. B = [k \in DOMAIN B |-> B[k]]
    BY DEF MovedUp
  <2> HIDE DEF B
  <2>3. B \in [DOMAIN B -> Digit]
    BY <2>1, <2>2
  <2>4. DOMAIN B \subseteq 1..z
    BY <1>7
  <2> QED  BY <2>3, <2>4 DEF Linked
<1> HIDE DEF A, B
<1>9. ASSUME NEW q \in Digit
      PROVE  /\ q < a => (q \in DOMAIN B <=> q \in DOMAIN L)
             /\ a <= q => (q \in DOMAIN B <=> q + n \in DOMAIN L)
  <2>1. q \in Nat /\ q > 0 /\ (a <= q => ~(q < a))
    BY <1>2 DEF Digit
  <2>2. q < a /\ q \in DOMAIN L => q \in DOMAIN B
    BY <1>5
  <2>3. ASSUME a <= q, q + n \in DOMAIN L PROVE q \in DOMAIN B
    <3>1. a + n <= q + n /\ q = (q + n) - n
      BY <1>2, <2>1, <2>3
    <3> QED  BY <1>5, <2>3, <3>1
  <2> QED  BY <1>7, <2>1, <2>2, <2>3
<1>10. ASSUME NEW q \in Digit
       PROVE  /\ q < a /\ q \in DOMAIN L => B[q] = L[q]
              /\ a <= q /\ q + n \in DOMAIN L => B[q] = L[q + n]
  <2>1. q \in Nat /\ (a <= q => ~(q < a))
    BY <1>2 DEF Digit
  <2> QED  BY <1>5, <1>9, <2>1
<1> QED  BY <1>4, <1>6, <1>8, <1>9, <1>10 DEF Shrunk, A, B

LEMMA DeleteLinks ==
    ASSUME NEW o, NEW C, NEW T, NEW L, Fine(o, C), Says(C, T, L),
           NEW a \in DOMAIN L, NEW n \in Digit
    PROVE  \E E : /\ Fine(deletend(o, At(2, a), Width(n)), E)
                  /\ Says(E, T, IF Len(T) = 0 THEN MovedUp(L, a, n) ELSE Unlinked(L, a, n))
<1>1. /\ T \in Seq(Digit) /\ Linked(L) /\ Disjoint(C) /\ C \in SUBSET Crum /\ Len(T) \in Nat
      /\ \A q \in Digit, i \in Digit : Has(C, 1, q, i) <=> q \in 1..Len(T) /\ i = T[q]
      /\ \A q \in Digit, i \in Digit : Has(C, 2, q, i) <=> q \in DOMAIN L /\ i = L[q]
  BY DEF Says
<1>2. PICK c \in C : a \in Digit /\ On(c, 2, a)
  BY SaysLinks
<1>3. /\ c.space = 2 /\ c.place <= a /\ a \in Nat /\ n \in Nat /\ n > 0 /\ c.place \in Nat /\ a + n \in Nat
      /\ 1 \in Space /\ 2 \in Space /\ 2 # 1
  BY <1>1, <1>2, CrumType DEF On, Digit, Space
<1>4. /\ Linked(Unlinked(L, a, n)) /\ Linked(MovedUp(L, a, n))
      /\ \A q \in Digit :
                 /\ q \in DOMAIN Unlinked(L, a, n) <=> q \in DOMAIN L /\ (q < a \/ a + n <= q)
                 /\ q \in DOMAIN L /\ (q < a \/ a + n <= q) => Unlinked(L, a, n)[q] = L[q]
                 /\ q < a => (q \in DOMAIN MovedUp(L, a, n) <=> q \in DOMAIN L)
                 /\ q < a /\ q \in DOMAIN L => MovedUp(L, a, n)[q] = L[q]
                 /\ a <= q => (q \in DOMAIN MovedUp(L, a, n) <=> q + n \in DOMAIN L)
                 /\ a <= q /\ q + n \in DOMAIN L => MovedUp(L, a, n)[q] = L[q + n]
  <2>1. Linked(L) /\ a \in Digit
    BY <1>1, <1>2
  <2>2. Shrunk(L, a, n)
    BY <2>1, UnlinkedIs
  <2> QED  BY <2>2 DEF Shrunk
<1>5. CASE Len(T) = 0
  <2>1. PICK s \in Space, m \in Digit :
           Rooted(s, m, C) /\ o = Tree(s, m, C) /\ \E d \in C : d.space = s /\ d.place = m
    BY FineSons
  <2>2. s = 2
    BY <1>5, <2>1, NoCrums
  <2>3. m <= a
    <3>1. Behind(2, m, c.space, c.place)
      BY <2>1, <2>2 DEF Rooted
    <3> QED  BY <1>3, <3>1 DEF Behind, Digit
  <2>4. PICK E : Fine(deletend(o, At(2, a), Width(n)), E) /\ Closed(E, C, 2, a, n)
    BY <1>1, <1>2, <1>3, <2>1, <2>2, <2>3, DeleteIs
  <2>5. /\ E \in SUBSET Crum /\ Disjoint(E)
        /\ \A q \in Digit, i \in Digit :
            /\ Has(E, 1, q, i) <=> Has(C, 1, q, i)
            /\ q < a => (Has(E, 2, q, i) <=> Has(C, 2, q, i))
            /\ a <= q => (Has(E, 2, q, i) <=> Has(C, 2, q + n, i))
    BY <1>3, <2>4 DEF Closed
  <2> DEFINE K == MovedUp(L, a, n)
  <2>6. ASSUME NEW q \in Digit, NEW i \in Digit
        PROVE  Has(E, 2, q, i) <=> q \in DOMAIN K /\ i = K[q]
    <3>1. q \in Nat /\ (q < a \/ a <= q) /\ q + n \in Digit
      BY <1>3 DEF Digit
    <3>2. CASE q < a
      BY <1>1, <1>4, <2>5, <3>2
    <3>3. CASE a <= q
      <4>1. Has(E, 2, q, i) <=> q + n \in DOMAIN L /\ i = L[q + n]
        BY <1>1, <2>5, <3>1, <3>3
      <4> QED  BY <1>4, <3>3, <4>1
    <3> QED  BY <3>1, <3>2, <3>3
  <2> HIDE DEF K
  <2>7. Linked(K)
    BY <1>4 DEF K
  <2>8. Says(E, T, K)
    BY <1>1, <2>5, <2>6, <2>7 DEF Says
  <2> QED  BY <1>5, <2>4, <2>8 DEF K
<1>6. CASE Len(T) # 0
  <2>1. Rooted(1, 1, C) /\ o = Tree(1, 1, C)
    BY <1>6, SaysApex
  <2>2. PICK E : Fine(deletend(o, At(2, a), Width(n)), E) /\ Emptied(E, C, 2, a, n)
    BY <1>1, <1>2, <1>3, <2>1, DeleteIs
  <2>3. /\ E \in SUBSET Crum /\ Disjoint(E)
        /\ \A q \in Digit, i \in Digit :
            /\ Has(E, 1, q, i) <=> Has(C, 1, q, i)
            /\ Has(E, 2, q, i) <=> Has(C, 2, q, i) /\ ~(a <= q /\ q < a + n)
    BY <1>3, <2>2 DEF Emptied
  <2> DEFINE K == Unlinked(L, a, n)
  <2>4. ASSUME NEW q \in Digit, NEW i \in Digit
        PROVE  Has(E, 2, q, i) <=> q \in DOMAIN K /\ i = K[q]
    <3>1. q \in Nat /\ (~(a <= q /\ q < a + n) <=> q < a \/ a + n <= q)
      BY <1>3 DEF Digit
    <3> QED  BY <1>1, <1>4, <2>3, <3>1
  <2> HIDE DEF K
  <2>5. Linked(K)
    BY <1>4 DEF K
  <2>6. Says(E, T, K)
    BY <1>1, <2>3, <2>4, <2>5 DEF Says
  <2> QED  BY <1>6, <2>2, <2>6 DEF K
<1> QED  BY <1>1, <1>5, <1>6

-----------------------------------------------------------------------------
(* Rearrangement. *)

Inverses(mv, back) ==
    /\ mv \in [Digit -> Digit] /\ back \in [Digit -> Digit]
    /\ \A q \in Digit : back[mv[q]] = q /\ mv[back[q]] = q

\* E is C with each atom of the text at another place.
Permuted(E, C, back) ==
    /\ E \in SUBSET Crum /\ Disjoint(E)
    /\ \A q \in Digit, i \in Digit :
          /\ Has(E, 1, q, i) <=> Has(C, 1, back[q], i)
          /\ Has(E, 2, q, i) <=> Has(C, 2, q, i)

\* A crum that is moved as a whole, its first place as mv says.
WholeTo(D, mv) == [c \in D |-> IF c.space = 1 THEN mv[c.place] ELSE c.place]

Whole(c, mv) == \A q \in Digit : On(c, 1, q) => mv[q] = mv[c.place] + (q - c.place)

LEMMA WholeRelaid ==
    ASSUME NEW C, NEW D, Finer(D, C), Disjoint(C), NEW mv, NEW back, Inverses(mv, back),
           \A c \in D : Whole(c, mv)
    PROVE  /\ WholeTo(D, mv) \in [D -> Digit]
           /\ Permuted(Relaid(D, WholeTo(D, mv)), C, back)
<1> DEFINE to == WholeTo(D, mv)
           E == Relaid(D, to)
<1>1. D \in SUBSET Crum /\ Disjoint(D)
  BY DEF Finer
<1>2. \A c \in D : /\ c.place \in Nat /\ c.len \in Nat /\ c.len > 0 /\ c.first \in Nat /\ c.place \in Digit
                   /\ c.place > 0 /\ (c.space = 1 \/ c.space = 2)
  BY <1>1, CrumType DEF Space
<1>3. /\ mv \in [Digit -> Digit] /\ back \in [Digit -> Digit]
      /\ \A q \in Digit : back[mv[q]] = q /\ mv[back[q]] = q
  BY DEF Inverses
<1>4. to \in [D -> Digit] /\ \A c \in D : to[c] = IF c.space = 1 THEN mv[c.place] ELSE c.place
  BY <1>2, <1>3 DEF WholeTo
<1> HIDE DEF to
<1>5. /\ E \in SUBSET Crum
      /\ \A u, q, i : Has(E, u, q, i) <=>
                 \E c \in D : /\ c.space = u /\ to[c] <= q /\ q < to[c] + c.len
                              /\ i = c.first + (q - to[c])
      /\ (\A c, d \in D : \A q \in Digit :
                 c.space = d.space /\ to[c] <= q /\ q < to[c] + c.len
                                   /\ to[d] <= q /\ q < to[d] + d.len => c = d)
                 => Disjoint(E)
  BY <1>1, <1>4, RelaidIs
<1> HIDE DEF E
<1>6. ASSUME NEW c \in D, NEW r \in Digit, c.space = 1
      PROVE  /\ to[c] <= r /\ r < to[c] + c.len <=> On(c, 1, back[r])
             /\ On(c, 1, back[r]) => r - to[c] = back[r] - c.place
  <2>1. to[c] = mv[c.place] /\ to[c] \in Nat /\ to[c] > 0 /\ r \in Nat /\ back[r] \in Digit /\ back[r] \in Nat
    BY <1>2, <1>3, <1>4, <1>6 DEF Digit
  <2>2. \A q \in Digit : On(c, 1, q) => mv[q] = to[c] + (q - c.place)
    BY <2>1 DEF Whole
  <2>3. ASSUME to[c] <= r, r < to[c] + c.len
        PROVE  On(c, 1, back[r])
    <3> DEFINE q == c.place + (r - to[c])
    <3>1. q \in Nat /\ c.place <= q /\ q < c.place + c.len /\ q \in Digit /\ q - c.place = r - to[c]
      BY <1>2, <2>1, <2>3 DEF Digit
    <3> HIDE DEF q
    <3>2. On(c, 1, q)
      BY <1>6, <3>1 DEF On
    <3>3. mv[q] = r
      BY <2>1, <2>2, <3>1, <3>2
    <3>4. back[r] = q
      BY <1>3, <3>1, <3>3
    <3> QED  BY <3>2, <3>4
  <2>4. ASSUME On(c, 1, back[r])
        PROVE  to[c] <= r /\ r < to[c] + c.len /\ r - to[c] = back[r] - c.place
    <3>1. r = to[c] + (back[r] - c.place)
      BY <1>3, <2>1, <2>2, <2>4
    <3>2. c.place <= back[r] /\ back[r] < c.place + c.len
      BY <2>4 DEF On
    <3> QED  BY <1>2, <2>1, <3>1, <3>2
  <2> QED  BY <2>3, <2>4
<1>7. ASSUME NEW c \in D, NEW r \in Digit, c.space = 2
      PROVE  to[c] = c.place /\ (to[c] <= r /\ r < to[c] + c.len <=> On(c, 2, r))
  BY <1>4, <1>7 DEF On
<1>8. ASSUME NEW q \in Digit, NEW i \in Digit
      PROVE  /\ Has(E, 1, q, i) <=> Has(C, 1, back[q], i)
             /\ Has(E, 2, q, i) <=> Has(C, 2, q, i)
  <2>0. back[q] \in Digit /\ 1 \in Space /\ 2 \in Space /\ \A c, u, r : On(c, u, r) => c.space = u
    BY <1>3 DEF Space, On
  <2>1. ASSUME NEW c \in D
        PROVE  (/\ c.space = 1 /\ to[c] <= q /\ q < to[c] + c.len /\ i = c.first + (q - to[c]))
                  <=> On(c, 1, back[q]) /\ i = c.first + (back[q] - c.place)
    BY <1>6, <2>0
  <2>2. Has(E, 1, q, i) <=> \E c \in D : On(c, 1, back[q]) /\ i = c.first + (back[q] - c.place)
    BY <1>5, <2>1
  <2>3. Has(E, 1, q, i) <=> Has(D, 1, back[q], i)
    BY <2>2 DEF Has
  <2>4. ASSUME NEW c \in D
        PROVE  (/\ c.space = 2 /\ to[c] <= q /\ q < to[c] + c.len /\ i = c.first + (q - to[c]))
                  <=> On(c, 2, q) /\ i = c.first + (q - c.place)
    BY <1>7, <2>0
  <2>5. Has(E, 2, q, i) <=> \E c \in D : On(c, 2, q) /\ i = c.first + (q - c.place)
    BY <1>5, <2>4
  <2>6. Has(E, 2, q, i) <=> Has(D, 2, q, i)
    BY <2>5 DEF Has
  <2> QED  BY <2>0, <2>3, <2>6 DEF Finer
<1>9. ASSUME NEW c \in D, NEW d \in D, NEW q \in Digit, c.space = d.space,
             to[c] <= q, q < to[c] + c.len, to[d] <= q, q < to[d] + d.len
      PROVE  c = d
  <2>0. back[q] \in Digit /\ 1 \in Space /\ 2 \in Space
    BY <1>3 DEF Space
  <2>1. CASE c.space = 1
    <3>1. On(c, 1, back[q]) /\ On(d, 1, back[q])
      BY <1>6, <1>9, <2>1
    <3> QED  BY <1>1, <2>0, <3>1 DEF Disjoint
  <2>2. CASE c.space = 2
    <3>1. On(c, 2, q) /\ On(d, 2, q)
      BY <1>7, <1>9, <2>2
    <3> QED  BY <1>1, <2>0, <3>1 DEF Disjoint
  <2> QED  BY <1>2, <2>1, <2>2
<1>10. Disjoint(E)
  BY <1>5, <1>9
<1>11. Permuted(E, C, back)
  BY <1>5, <1>8, <1>10 DEF Permuted
<1> QED  BY <1>4, <1>11 DEF E, to

LEMMA PermutedSays ==
    ASSUME NEW C, NEW T, NEW L, Says(C, T, L), NEW back \in [Digit -> Digit],
           \A q \in Digit : back[q] \in 1..Len(T) <=> q \in 1..Len(T),
           NEW E, Permuted(E, C, back)
    PROVE  Says(E, [q \in 1..Len(T) |-> T[back[q]]], L)
<1> DEFINE W == [q \in 1..Len(T) |-> T[back[q]]]
<1>1. /\ T \in Seq(Digit) /\ Linked(L) /\ Len(T) \in Nat
      /\ \A q \in Digit, i \in Digit : Has(C, 1, q, i) <=> q \in 1..Len(T) /\ i = T[q]
      /\ \A q \in Digit, i \in Digit : Has(C, 2, q, i) <=> q \in DOMAIN L /\ i = L[q]
  BY DEF Says
<1>2. \A q \in 1..Len(T) : q \in Digit /\ T[q] \in Digit
  BY <1>1 DEF Digit
<1>3. W \in [1..Len(T) -> Digit]
  BY <1>2
<1>4. W \in Seq(Digit) /\ Len(W) = Len(T) /\ \A q \in 1..Len(T) : W[q] = T[back[q]]
  BY <1>1, <1>3
<1> HIDE DEF W
<1>5. ASSUME NEW q \in Digit, NEW i \in Digit
      PROVE  /\ Has(E, 1, q, i) <=> q \in 1..Len(W) /\ i = W[q]
             /\ Has(E, 2, q, i) <=> q \in DOMAIN L /\ i = L[q]
  <2>1. Has(E, 1, q, i) <=> back[q] \in 1..Len(T) /\ i = T[back[q]]
    BY <1>1 DEF Permuted
  <2>2. Has(E, 2, q, i) <=> q \in DOMAIN L /\ i = L[q]
    BY <1>1 DEF Permuted
  <2> QED  BY <1>4, <2>1, <2>2
<1>6. E \in SUBSET Crum /\ Disjoint(E)
  BY DEF Permuted
<1>7. Says(E, W, L)
  BY <1>1, <1>4, <1>5, <1>6 DEF Says
<1> QED  BY <1>7 DEF W

\* The section between cuts of the text in which a crum starts.
InSection(c, k, n, Q) ==
    /\ c.space = 1 => (k # 0 => Q[k] <= c.place) /\ \A i \in 1..n : Q[i] <= c.place => i <= k
    /\ c.space = 2 => k = n

\* The offsets of the sections move the places as mv says.
Offsets(diff, n, Q, mv) ==
    \A c \in Crum, k \in 0..n :
        InSection(c, k, n, Q) =>
            LET p == IF c.space = 1 THEN mv[c.place] ELSE c.place
            IN  /\ k \in 1..3 => tumbleradd(Disp(1, 1, c.space, c.place), diff[k]) = Disp(1, 1, c.space, p)
                /\ k \notin 1..3 => p = c.place

LEMMA RearrangeTree ==
    ASSUME NEW C, Rooted(1, 1, C), Disjoint(C), NEW knives, NEW U, NEW Q, Knives(knives, U, Q),
           \A i \in 1..Len(knives) : U[i] = 1,
           NEW mv, NEW back, Inverses(mv, back),
           Offsets(makeoffsetsfor3or4cuts(knives), Len(knives), Q, mv),
           \A c \in Crum : (\A i \in 1..Len(knives) : ~Through(c, 1, Q[i])) => Whole(c, mv)
    PROVE  \E E : Fine(rearrangend(Tree(1, 1, C), knives), E) /\ Permuted(E, C, back)
<1> DEFINE o == Tree(1, 1, C)
           n == Len(knives)
           cut == makecutsnd(o, knives)
           diff == makeoffsetsfor3or4cuts(knives)
           section(son) == CutSection(cut, son, knives)
           moved(son) == IF section(son) \in 1..3 THEN [son EXCEPT !.dsp = tumbleradd(@, diff[section(son)])]
                         ELSE son
<1>1. rearrangend(o, knives) = setwispnd([cut EXCEPT !.sons = {moved(son) : son \in @}])
  BY DEF rearrangend
<1>2. PICK D : /\ cut = Tree(1, 1, D) /\ Rooted(1, 1, D) /\ Finer(D, C)
               /\ \A i \in 1..n : \A d \in D : ~Through(d, U[i], Q[i])
  BY CutsTree
<1> HIDE DEF cut, o, diff
<1>3. 1 \in Space /\ 1 \in Digit /\ n \in Nat
  BY DEF Space, Digit, Knives
<1> HIDE DEF n
<1>4. /\ cut.apex = At(1, 1) /\ cut.sons = {SonOf(1, 1, d) : d \in D}
      /\ cut = [apex |-> At(1, 1), sons |-> cut.sons]
      /\ D \in SUBSET Crum /\ \A d \in D : Behind(1, 1, d.space, d.place)
  BY <1>2 DEF Tree, Rooted
<1> DEFINE to == WholeTo(D, mv)
           E == Relaid(D, to)
<1>5. \A d \in D : Whole(d, mv)
  <2>1. \A d \in D : \A i \in 1..n : ~Through(d, 1, Q[i])
    BY <1>2 DEF n
  <2> QED  BY <1>4, <2>1 DEF n
<1>6. to \in [D -> Digit] /\ Permuted(E, C, back)
  BY <1>2, <1>5, WholeRelaid
<1>7. \A d \in D : to[d] = IF d.space = 1 THEN mv[d.place] ELSE d.place
  BY DEF WholeTo
<1> HIDE DEF to, section
<1>8. ASSUME NEW d \in D
      PROVE  /\ moved(SonOf(1, 1, d)) = SonOf(1, 1, Moved(d, to[d]))
             /\ Moved(d, to[d]) \in Crum
             /\ Behind(1, 1, Moved(d, to[d]).space, Moved(d, to[d]).place)
  <2> DEFINE k == section(SonOf(1, 1, d))
             e == Moved(d, to[d])
  <2>0. d \in Crum /\ Behind(1, 1, d.space, d.place) /\ to[d] \in Digit /\ to[d] \in Nat /\ to[d] > 0
    BY <1>4, <1>6 DEF Digit
  <2>1. /\ k \in 0..n
        /\ k # 0 => Behind(U[k], Q[k], d.space, d.place)
        /\ \A i \in 1..n : Behind(U[i], Q[i], d.space, d.place) => i <= k
    BY <1>3, <1>4, <2>0, SectionIs DEF section, n
  <2> HIDE DEF k
  <2>2. d.space \in Nat /\ d.place \in Nat /\ d.place > 0 /\ (d.space = 1 \/ d.space = 2)
    BY <2>0, CrumType DEF Space
  <2>3. \A i \in 1..n : U[i] = 1 /\ (Behind(U[i], Q[i], d.space, d.place) <=>
                                        d.space = 2 \/ (d.space = 1 /\ Q[i] <= d.place))
    <3>1. ASSUME NEW i \in 1..n
          PROVE  U[i] = 1 /\ (Behind(U[i], Q[i], d.space, d.place) <=>
                                        d.space = 2 \/ (d.space = 1 /\ Q[i] <= d.place))
      <4>1. U[i] = 1
        BY DEF n
      <4>2. Behind(1, Q[i], d.space, d.place) <=> d.space = 2 \/ (d.space = 1 /\ Q[i] <= d.place)
        BY <2>2 DEF Behind
      <4> QED  BY <4>1, <4>2
    <3> QED  BY <3>1
  <2>4. InSection(d, k, n, Q)
    <3>1. k # 0 => k \in 1..n
      BY <1>3, <2>1
    <3>2. d.space = 2 => k = n
      <4>1. n # 0 => n \in 1..n
        BY <1>3
      <4> QED  BY <1>3, <2>1, <2>3, <4>1
    <3>3. d.space = 1 => (k # 0 => Q[k] <= d.place) /\ \A i \in 1..n : Q[i] <= d.place => i <= k
      BY <2>1, <2>3, <3>1
    <3> QED  BY <3>2, <3>3 DEF InSection
  <2>5. /\ k \in 1..3 => tumbleradd(Disp(1, 1, d.space, d.place), diff[k]) = Disp(1, 1, d.space, to[d])
        /\ k \notin 1..3 => to[d] = d.place
    <3>1. Offsets(diff, n, Q, mv)
      BY DEF diff, n
    <3> QED  BY <1>7, <2>0, <2>1, <2>4, <3>1 DEF Offsets
  <2>6. /\ e \in Crum /\ e.space = d.space /\ e.place = to[d] /\ e.type = d.type
        /\ e.first = d.first /\ e.len = d.len
    BY <2>0, MovedIs
  <2> HIDE DEF e
  <2>7. Behind(1, 1, e.space, e.place)
    BY <2>0, <2>2, <2>6 DEF Behind
  <2>8. CASE k \in 1..3
    <3>1. [SonOf(1, 1, d) EXCEPT !.dsp = tumbleradd(@, diff[k])] = SonOf(1, 1, e)
      BY <2>5, <2>6, <2>8 DEF SonOf
    <3> QED  BY <2>6, <2>7, <2>8, <3>1 DEF e, k
  <2>9. CASE k \notin 1..3
    <3>1. SonOf(1, 1, d) = SonOf(1, 1, e)
      BY <2>5, <2>6, <2>9 DEF SonOf
    <3> QED  BY <2>6, <2>7, <2>9, <3>1 DEF e, k
  <2> QED  BY <2>8, <2>9
<1>9. {moved(son) : son \in cut.sons} = {SonOf(1, 1, e) : e \in E}
  <2>1. \A d \in D : moved(SonOf(1, 1, d)) = SonOf(1, 1, Moved(d, to[d]))
    BY <1>8
  <2> HIDE DEF moved
  <2>2. {moved(son) : son \in cut.sons} = {moved(SonOf(1, 1, d)) : d \in D}
    BY <1>4
  <2>3. {moved(SonOf(1, 1, d)) : d \in D} = {SonOf(1, 1, Moved(d, to[d])) : d \in D}
    BY <2>1
  <2> QED  BY <2>2, <2>3 DEF Relaid
<1>10. [cut EXCEPT !.sons = {moved(son) : son \in @}] = Tree(1, 1, E)
  <2> HIDE DEF moved, E
  <2>1. [cut EXCEPT !.sons = {moved(son) : son \in @}] =
            [apex |-> At(1, 1), sons |-> {moved(son) : son \in cut.sons}]
    <3> DEFINE X == {moved(son) : son \in cut.sons}
    <3>1. [cut EXCEPT !.sons = {moved(son) : son \in @}] = [cut EXCEPT !.sons = X]
      OBVIOUS
    <3> HIDE DEF X
    <3>2. [cut EXCEPT !.sons = X] = [apex |-> At(1, 1), sons |-> X]
      BY <1>4
    <3> QED  BY <3>1, <3>2 DEF X
  <2> QED  BY <1>9, <2>1 DEF Tree
<1>11. Rooted(1, 1, E)
  <2>1. \A e \in E : e \in Crum /\ Behind(1, 1, e.space, e.place)
    BY <1>8 DEF Relaid
  <2> HIDE DEF E
  <2> QED  BY <1>3, <2>1 DEF Rooted
<1>12. Fine(rearrangend(o, knives), E)
  <2> HIDE DEF moved, E
  <2>1. rearrangend(o, knives) = setwispnd(Tree(1, 1, E))
    BY <1>1, <1>10
  <2> QED  BY <1>11, <2>1, SetwispIs
<1> QED  BY <1>6, <1>12 DEF o

\* The places of a pivot, and those of a swap of regions of the same length.
Turn(c1, c2, c3) ==
    [q \in Digit |-> IF c1 <= q /\ q < c2 THEN q + (c3 - c2)
                     ELSE IF c2 <= q /\ q < c3 THEN q - (c2 - c1) ELSE q]

Exchange(c1, c2, c3, c4) ==
    [q \in Digit |-> IF c1 <= q /\ q < c2 THEN q + (c3 - c1)
                     ELSE IF c3 <= q /\ q < c4 THEN q - (c3 - c1) ELSE q]

LEMMA TurnIs ==
    ASSUME NEW c1 \in Digit, NEW c2 \in Digit, NEW c3 \in Digit, c1 <= c2, c2 <= c3
    PROVE  /\ Turn(c1, c2, c3) \in [Digit -> Digit]
           /\ \A q \in Digit :
                 /\ q < c1 \/ c3 <= q => Turn(c1, c2, c3)[q] = q
                 /\ c1 <= q /\ q < c2 => Turn(c1, c2, c3)[q] = q + (c3 - c2)
                 /\ c2 <= q /\ q < c3 => Turn(c1, c2, c3)[q] = q - (c2 - c1)
<1>1. c1 \in Nat /\ c2 \in Nat /\ c3 \in Nat /\ c1 > 0 /\ \A q \in Digit : q \in Nat /\ q > 0
  BY DEF Digit
<1>2. ASSUME NEW q \in Digit
      PROVE  /\ c1 <= q /\ q < c2 => q + (c3 - c2) \in Digit
             /\ c2 <= q /\ q < c3 => q - (c2 - c1) \in Digit
             /\ q < c1 \/ c3 <= q => ~(c1 <= q /\ q < c2) /\ ~(c2 <= q /\ q < c3)
             /\ c2 <= q => ~(c1 <= q /\ q < c2)
  BY <1>1 DEF Digit
<1> QED  BY <1>2 DEF Turn

LEMMA TurnBack ==
    ASSUME NEW c1 \in Digit, NEW c2 \in Digit, NEW c3 \in Digit, c1 < c2, c2 <= c3
    PROVE  /\ c1 + (c3 - c2) \in Digit /\ c1 <= c1 + (c3 - c2) /\ c1 + (c3 - c2) <= c3
           /\ Inverses(Turn(c1, c2, c3), Turn(c1, c1 + (c3 - c2), c3))
<1> DEFINE b == c1 + (c3 - c2)
           mv == Turn(c1, c2, c3)
           back == Turn(c1, b, c3)
<1>1. c1 \in Nat /\ c2 \in Nat /\ c3 \in Nat /\ c1 > 0 /\ c1 <= c2
  BY DEF Digit
<1>2. b \in Nat /\ c1 <= b /\ b <= c3 /\ b \in Digit /\ c3 - b = c2 - c1 /\ b - c1 = c3 - c2
  BY <1>1 DEF Digit
<1> HIDE DEF b
<1>3. /\ mv \in [Digit -> Digit]
      /\ \A q \in Digit :
                 /\ q < c1 \/ c3 <= q => mv[q] = q
                 /\ c1 <= q /\ q < c2 => mv[q] = q + (c3 - c2)
                 /\ c2 <= q /\ q < c3 => mv[q] = q - (c2 - c1)
  BY <1>1, TurnIs
<1>4. /\ back \in [Digit -> Digit]
      /\ \A q \in Digit :
                 /\ q < c1 \/ c3 <= q => back[q] = q
                 /\ c1 <= q /\ q < b => back[q] = q + (c3 - b)
                 /\ b <= q /\ q < c3 => back[q] = q - (b - c1)
  BY <1>2, TurnIs
<1> HIDE DEF mv, back
<1>5. ASSUME NEW q \in Digit
      PROVE  back[mv[q]] = q /\ mv[back[q]] = q
  <2>1. q \in Nat /\ q > 0 /\ mv[q] \in Digit /\ back[q] \in Digit
    BY <1>3, <1>4 DEF Digit
  <2>2. back[mv[q]] = q
    <3>1. CASE q < c1 \/ c3 <= q
      BY <1>3, <1>4, <3>1
    <3>2. CASE c1 <= q /\ q < c2
      <4>1. mv[q] = q + (c3 - c2)
        BY <1>3, <3>2
      <4>2. b <= mv[q] /\ mv[q] < c3
        BY <1>1, <1>2, <2>1, <3>2, <4>1
      <4>3. back[mv[q]] = mv[q] - (b - c1)
        BY <1>4, <2>1, <4>2
      <4> QED  BY <1>1, <1>2, <2>1, <4>1, <4>3
    <3>3. CASE c2 <= q /\ q < c3
      <4>1. mv[q] = q - (c2 - c1)
        BY <1>3, <3>3
      <4>2. c1 <= mv[q] /\ mv[q] < b
        BY <1>1, <1>2, <2>1, <3>3, <4>1
      <4>3. back[mv[q]] = mv[q] + (c3 - b)
        BY <1>4, <2>1, <4>2
      <4> QED  BY <1>1, <1>2, <2>1, <4>1, <4>3
    <3>4. (q < c1 \/ c3 <= q) \/ (c1 <= q /\ q < c2) \/ (c2 <= q /\ q < c3)
      BY <1>1, <2>1
    <3> QED  BY <3>1, <3>2, <3>3, <3>4
  <2>3. mv[back[q]] = q
    <3>1. CASE q < c1 \/ c3 <= q
      BY <1>3, <1>4, <3>1
    <3>2. CASE c1 <= q /\ q < b
      <4>1. back[q] = q + (c3 - b)
        BY <1>4, <3>2
      <4>2. c2 <= back[q] /\ back[q] < c3
        BY <1>1, <1>2, <2>1, <3>2, <4>1
      <4>3. mv[back[q]] = back[q] - (c2 - c1)
        BY <1>3, <2>1, <4>2
      <4> QED  BY <1>1, <1>2, <2>1, <4>1, <4>3
    <3>3. CASE b <= q /\ q < c3
      <4>1. back[q] = q - (b - c1)
        BY <1>4, <3>3
      <4>2. c1 <= back[q] /\ back[q] < c2
        BY <1>1, <1>2, <2>1, <3>3, <4>1
      <4>3. mv[back[q]] = back[q] + (c3 - c2)
        BY <1>3, <2>1, <4>2
      <4> QED  BY <1>1, <1>2, <2>1, <4>1, <4>3
    <3>4. (q < c1 \/ c3 <= q) \/ (c1 <= q /\ q < b) \/ (b <= q /\ q < c3)
      BY <1>1, <1>2, <2>1
    <3> QED  BY <3>1, <3>2, <3>3, <3>4
  <2> QED  BY <2>2, <2>3
<1>6. Inverses(mv, back)
  BY <1>3, <1>4, <1>5 DEF Inverses
<1> QED  BY <1>1, <1>2, <1>6 DEF mv, back, b

LEMMA ExchangeIs ==
    ASSUME NEW c1 \in Digit, NEW c2 \in Digit, NEW c3 \in Digit, NEW c4 \in Digit,
           c1 < c2, c2 <= c3, c4 - c3 = c2 - c1
    PROVE  /\ Exchange(c1, c2, c3, c4) \in [Digit -> Digit]
           /\ \A q \in Digit :
                 /\ q < c1 \/ (c2 <= q /\ q < c3) \/ c4 <= q => Exchange(c1, c2, c3, c4)[q] = q
                 /\ c1 <= q /\ q < c2 => Exchange(c1, c2, c3, c4)[q] = q + (c3 - c1)
                 /\ c3 <= q /\ q < c4 => Exchange(c1, c2, c3, c4)[q] = q - (c3 - c1)
           /\ Inverses(Exchange(c1, c2, c3, c4), Exchange(c1, c2, c3, c4))
<1> DEFINE mv == Exchange(c1, c2, c3, c4)
<1>1. /\ c1 \in Nat /\ c2 \in Nat /\ c3 \in Nat /\ c4 \in Nat /\ c1 > 0
      /\ \A q \in Digit : q \in Nat /\ q > 0
  BY DEF Digit
<1>2. c3 < c4 /\ c4 = c3 + (c2 - c1)
  BY <1>1
<1>3. ASSUME NEW q \in Digit
      PROVE  /\ c1 <= q /\ q < c2 => q + (c3 - c1) \in Digit
             /\ c3 <= q /\ q < c4 => q - (c3 - c1) \in Digit /\ ~(c1 <= q /\ q < c2)
             /\ q < c1 \/ (c2 <= q /\ q < c3) \/ c4 <= q =>
                   ~(c1 <= q /\ q < c2) /\ ~(c3 <= q /\ q < c4)
  BY <1>1, <1>2 DEF Digit
<1>4. /\ mv \in [Digit -> Digit]
      /\ \A q \in Digit :
                 /\ q < c1 \/ (c2 <= q /\ q < c3) \/ c4 <= q => mv[q] = q
                 /\ c1 <= q /\ q < c2 => mv[q] = q + (c3 - c1)
                 /\ c3 <= q /\ q < c4 => mv[q] = q - (c3 - c1)
  BY <1>3 DEF Exchange
<1> HIDE DEF mv
<1>5. ASSUME NEW q \in Digit
      PROVE  mv[mv[q]] = q
  <2>1. q \in Nat /\ q > 0 /\ mv[q] \in Digit
    BY <1>1, <1>4
  <2>2. CASE q < c1 \/ (c2 <= q /\ q < c3) \/ c4 <= q
    BY <1>4, <2>2
  <2>3. CASE c1 <= q /\ q < c2
    <3>1. mv[q] = q + (c3 - c1)
      BY <1>4, <2>3
    <3>2. c3 <= mv[q] /\ mv[q] < c4
      BY <1>1, <1>2, <2>1, <2>3, <3>1
    <3>3. mv[mv[q]] = mv[q] - (c3 - c1)
      BY <1>4, <2>1, <3>2
    <3> QED  BY <1>1, <2>1, <3>1, <3>3
  <2>4. CASE c3 <= q /\ q < c4
    <3>1. mv[q] = q - (c3 - c1)
      BY <1>4, <2>4
    <3>2. c1 <= mv[q] /\ mv[q] < c2
      BY <1>1, <1>2, <2>1, <2>4, <3>1
    <3>3. mv[mv[q]] = mv[q] + (c3 - c1)
      BY <1>4, <2>1, <3>2
    <3> QED  BY <1>1, <2>1, <3>1, <3>3
  <2>5. (q < c1 \/ (c2 <= q /\ q < c3) \/ c4 <= q) \/ (c1 <= q /\ q < c2) \/ (c3 <= q /\ q < c4)
    BY <1>1, <2>1
  <2> QED  BY <2>2, <2>3, <2>4, <2>5
<1>6. Inverses(mv, mv)
  BY <1>4, <1>5 DEF Inverses
<1> QED  BY <1>4, <1>6 DEF mv

\* Cuts of the text.
Cuts(knives, Q, n) ==
    Knives(knives, [i \in 1..n |-> 1], Q) /\ Len(knives) = n /\ DOMAIN Q = 1..n

LEMMA ThreeCuts ==
    ASSUME NEW c1 \in Digit, NEW c2 \in Digit, NEW c3 \in Digit
    PROVE  Cuts(<<At(1, c1), At(1, c2), At(1, c3)>>, <<c1, c2, c3>>, 3)
<1> DEFINE knives == <<At(1, c1), At(1, c2), At(1, c3)>>
           U == [i \in 1..3 |-> 1]
           Q == <<c1, c2, c3>>
<1>1. /\ Len(knives) = 3 /\ DOMAIN knives = 1..3 /\ DOMAIN Q = 1..3
      /\ knives[1] = At(1, c1) /\ knives[2] = At(1, c2) /\ knives[3] = At(1, c3)
      /\ Q[1] = c1 /\ Q[2] = c2 /\ Q[3] = c3
  OBVIOUS
<1>2. U \in [1..3 -> Space] /\ \A i \in 1..3 : U[i] = 1
  BY DEF Space
<1>3. Q \in [1..3 -> Digit]
  OBVIOUS
<1> HIDE DEF knives, U, Q
<1>4. \A i \in 1..3 : knives[i] = At(U[i], Q[i])
  <2>1. \A i \in 1..3 : i = 1 \/ i = 2 \/ i = 3
    OBVIOUS
  <2> QED  BY <1>1, <1>2, <2>1
<1>5. Knives(knives, U, Q)
  BY <1>1, <1>2, <1>3, <1>4 DEF Knives
<1> QED  BY <1>1, <1>5 DEF knives, U, Q, Cuts

LEMMA FourCuts ==
    ASSUME NEW c1 \in Digit, NEW c2 \in Digit, NEW c3 \in Digit, NEW c4 \in Digit
    PROVE  Cuts(<<At(1, c1), At(1, c2), At(1, c3), At(1, c4)>>, <<c1, c2, c3, c4>>, 4)
<1> DEFINE knives == <<At(1, c1), At(1, c2), At(1, c3), At(1, c4)>>
           U == [i \in 1..4 |-> 1]
           Q == <<c1, c2, c3, c4>>
<1>1. /\ Len(knives) = 4 /\ DOMAIN knives = 1..4 /\ DOMAIN Q = 1..4
      /\ knives[1] = At(1, c1) /\ knives[2] = At(1, c2) /\ knives[3] = At(1, c3)
      /\ knives[4] = At(1, c4)
      /\ Q[1] = c1 /\ Q[2] = c2 /\ Q[3] = c3 /\ Q[4] = c4
  OBVIOUS
<1>2. U \in [1..4 -> Space] /\ \A i \in 1..4 : U[i] = 1
  BY DEF Space
<1>3. Q \in [1..4 -> Digit]
  OBVIOUS
<1> HIDE DEF knives, U, Q
<1>4. \A i \in 1..4 : knives[i] = At(U[i], Q[i])
  <2>1. \A i \in 1..4 : i = 1 \/ i = 2 \/ i = 3 \/ i = 4
    OBVIOUS
  <2> QED  BY <1>1, <1>2, <2>1
<1>5. Knives(knives, U, Q)
  BY <1>1, <1>2, <1>3, <1>4 DEF Knives
<1> QED  BY <1>1, <1>5 DEF knives, U, Q, Cuts

LEMMA PivotOffsets ==
    ASSUME NEW c1 \in Digit, NEW c2 \in Digit, NEW c3 \in Digit, c1 < c2, c2 <= c3
    PROVE  Offsets(makeoffsetsfor3or4cuts(<<At(1, c1), At(1, c2), At(1, c3)>>), 3,
                   <<c1, c2, c3>>, Turn(c1, c2, c3))
<1> DEFINE knives == <<At(1, c1), At(1, c2), At(1, c3)>>
           Q == <<c1, c2, c3>>
           mv == Turn(c1, c2, c3)
           diff == makeoffsetsfor3or4cuts(knives)
<1>1. /\ c1 \in Nat /\ c2 \in Nat /\ c3 \in Nat /\ c1 > 0 /\ c1 <= c2 /\ 1 \in Digit /\ 1 \in Space
      /\ c3 - c2 \in Nat /\ c2 - c1 \in Nat /\ c2 - c1 \in Digit /\ c2 - c1 # 0
  BY DEF Digit, Space
<1>2. Len(knives) = 3 /\ knives[1] = At(1, c1) /\ knives[2] = At(1, c2) /\ knives[3] = At(1, c3)
  OBVIOUS
<1>3. Q[1] = c1 /\ Q[2] = c2 /\ Q[3] = c3
  OBVIOUS
<1> HIDE DEF knives, Q
<1>4. tumblersub(At(1, c3), At(1, c2)) = Off(c3 - c2) /\ tumblersub(At(1, c2), At(1, c1)) = Width(c2 - c1)
  <2>1. tumblersub(At(1, c2), At(1, c1)) = Off(c2 - c1)
    BY <1>1, AtSubAt
  <2>2. Off(c2 - c1) = Width(c2 - c1)
    BY <1>1 DEF Off
  <2> QED  BY <1>1, <2>1, <2>2, AtSubAt
<1>5. diff = <<Off(c3 - c2), negated(Width(c2 - c1)), ZEROTUMBLER>>
  BY <1>2, <1>4 DEF makeoffsetsfor3or4cuts
<1>6. diff[1] = Off(c3 - c2) /\ diff[2] = negated(Width(c2 - c1)) /\ diff[3] = ZEROTUMBLER
  BY <1>5
<1>7. /\ mv \in [Digit -> Digit]
      /\ \A q \in Digit :
                 /\ q < c1 \/ c3 <= q => mv[q] = q
                 /\ c1 <= q /\ q < c2 => mv[q] = q + (c3 - c2)
                 /\ c2 <= q /\ q < c3 => mv[q] = q - (c2 - c1)
  BY <1>1, TurnIs
<1> HIDE DEF mv, diff
<1>8. ASSUME NEW c \in Crum, NEW k \in 0..3, InSection(c, k, 3, Q)
      PROVE  LET p == IF c.space = 1 THEN mv[c.place] ELSE c.place
             IN  /\ k \in 1..3 => tumbleradd(Disp(1, 1, c.space, c.place), diff[k]) = Disp(1, 1, c.space, p)
                 /\ k \notin 1..3 => p = c.place
  <2> DEFINE q == c.place
             p == IF c.space = 1 THEN mv[q] ELSE q
             D == Disp(1, 1, c.space, q)
  <2>1. q \in Digit /\ q \in Nat /\ q > 0 /\ c.space \in Space /\ (c.space = 1 \/ c.space = 2)
    BY CrumType DEF Space
  <2>2. Behind(1, 1, c.space, q)
    BY <2>1 DEF Behind
  <2>3. D \in Number
    BY <1>1, <2>1, <2>2, DispNumber
  <2>4. tumbleradd(D, ZEROTUMBLER) = D
    BY <2>3, SubZero
  <2>5. k = 0 \/ k = 1 \/ k = 2 \/ k = 3
    OBVIOUS
  <2> HIDE DEF q
  <2>6. CASE c.space = 2
    <3>1. k = 3 /\ p = q
      BY <1>8, <2>6 DEF InSection
    <3> QED  BY <1>6, <2>4, <3>1 DEF q
  <2>7. CASE c.space = 1
    <3>0. (k # 0 => Q[k] <= q) /\ \A i \in 1..3 : Q[i] <= q => i <= k
      BY <1>8, <2>7 DEF InSection, q
    <3>1. p = mv[q] /\ D = Off(q - 1)
      BY <2>7 DEF Disp
    <3>2. CASE k = 0
      <4>1. ~(Q[1] <= q)
        BY <3>0, <3>2
      <4>2. p = q
        BY <1>1, <1>3, <1>7, <2>1, <3>1, <4>1
      <4> QED  BY <3>2, <4>2 DEF q
    <3>3. CASE k = 1
      <4>1. Q[1] <= q /\ ~(Q[2] <= q)
        BY <3>0, <3>3
      <4>2. p = q + (c3 - c2)
        BY <1>1, <1>3, <1>7, <2>1, <3>1, <4>1
      <4>3. q - 1 \in Nat /\ q - 1 + (c3 - c2) = p - 1
        BY <1>1, <2>1, <4>2
      <4>4. tumbleradd(Off(q - 1), Off(c3 - c2)) = Off(p - 1)
        BY <1>1, <4>3, OffAddOff
      <4>5. Disp(1, 1, c.space, p) = Off(p - 1)
        BY <2>7 DEF Disp
      <4>6. tumbleradd(D, diff[k]) = Disp(1, 1, c.space, p)
        BY <1>6, <3>1, <3>3, <4>4, <4>5
      <4> QED  BY <3>3, <4>6 DEF q
    <3>4. CASE k = 2
      <4>1. Q[2] <= q /\ ~(Q[3] <= q)
        BY <3>0, <3>4
      <4>2. p = q - (c2 - c1)
        BY <1>1, <1>3, <1>7, <2>1, <3>1, <4>1
      <4>3. 1 <= q - (c2 - c1)
        BY <1>1, <1>3, <2>1, <4>1
      <4>4. tumbleradd(Disp(1, 1, c.space, q), negated(Width(c2 - c1))) = Disp(1, 1, c.space, q - (c2 - c1))
        BY <1>1, <2>1, <2>2, <2>7, <4>3, DispLess
      <4>5. tumbleradd(D, diff[k]) = Disp(1, 1, c.space, p)
        BY <1>6, <3>4, <4>2, <4>4
      <4> QED  BY <3>4, <4>5 DEF q
    <3>5. CASE k = 3
      <4>1. Q[3] <= q
        BY <3>0, <3>5
      <4>2. p = q
        BY <1>1, <1>3, <1>7, <2>1, <3>1, <4>1
      <4> QED  BY <1>6, <2>4, <3>5, <4>2 DEF q
    <3> QED  BY <2>5, <3>2, <3>3, <3>4, <3>5
  <2> QED  BY <2>1, <2>6, <2>7
<1>9. Offsets(diff, 3, Q, mv)
  BY <1>8 DEF Offsets
<1> QED  BY <1>9 DEF diff, Q, mv, knives

LEMMA SwapOffsets ==
    ASSUME NEW c1 \in Digit, NEW c2 \in Digit, NEW c3 \in Digit, NEW c4 \in Digit,
           c1 < c2, c2 <= c3, c4 - c3 = c2 - c1
    PROVE  Offsets(makeoffsetsfor3or4cuts(<<At(1, c1), At(1, c2), At(1, c3), At(1, c4)>>), 4,
                   <<c1, c2, c3, c4>>, Exchange(c1, c2, c3, c4))
<1> DEFINE knives == <<At(1, c1), At(1, c2), At(1, c3), At(1, c4)>>
           Q == <<c1, c2, c3, c4>>
           mv == Exchange(c1, c2, c3, c4)
           diff == makeoffsetsfor3or4cuts(knives)
           w == Width(c3 - c1)
<1>1. /\ c1 \in Nat /\ c2 \in Nat /\ c3 \in Nat /\ c4 \in Nat /\ c1 > 0 /\ c1 <= c2 /\ c1 <= c3 /\ c3 <= c4
      /\ 1 \in Digit /\ 1 \in Space
      /\ c3 - c1 \in Nat /\ c3 - c1 \in Digit /\ c3 - c1 # 0 /\ c2 - c1 \in Nat /\ c4 - c3 \in Nat
  BY DEF Digit, Space
<1>2. /\ Len(knives) = 4 /\ knives[1] = At(1, c1) /\ knives[2] = At(1, c2) /\ knives[3] = At(1, c3)
      /\ knives[4] = At(1, c4)
  OBVIOUS
<1>3. Q[1] = c1 /\ Q[2] = c2 /\ Q[3] = c3 /\ Q[4] = c4
  OBVIOUS
<1> HIDE DEF knives, Q, w
<1>4. tumblersub(At(1, c3), At(1, c1)) = w
  <2>1. tumblersub(At(1, c3), At(1, c1)) = Off(c3 - c1)
    BY <1>1, AtSubAt
  <2>2. Off(c3 - c1) = w
    BY <1>1 DEF Off, w
  <2> QED  BY <2>1, <2>2
<1>5. tumblersub(tumblersub(At(1, c4), At(1, c3)), tumblersub(At(1, c2), At(1, c1))) = ZEROTUMBLER
  <2>1. tumblersub(At(1, c4), At(1, c3)) = Off(c4 - c3)
    BY <1>1, AtSubAt
  <2>2. tumblersub(At(1, c2), At(1, c1)) = Off(c2 - c1)
    BY <1>1, AtSubAt
  <2>3. Off(c2 - c1) \in Number
    BY <1>1, OffIs
  <2>4. tumblersub(Off(c2 - c1), Off(c2 - c1)) = ZEROTUMBLER
    BY <2>3, SubSelf
  <2> QED  BY <2>1, <2>2, <2>4
<1>6. diff = <<w, ZEROTUMBLER, negated(w)>>
  BY <1>2, <1>4, <1>5 DEF makeoffsetsfor3or4cuts
<1>7. diff[1] = w /\ diff[2] = ZEROTUMBLER /\ diff[3] = negated(w)
  BY <1>6
<1>8. /\ mv \in [Digit -> Digit]
      /\ \A q \in Digit :
                 /\ q < c1 \/ (c2 <= q /\ q < c3) \/ c4 <= q => mv[q] = q
                 /\ c1 <= q /\ q < c2 => mv[q] = q + (c3 - c1)
                 /\ c3 <= q /\ q < c4 => mv[q] = q - (c3 - c1)
  BY ExchangeIs
<1> HIDE DEF mv, diff
<1>9. ASSUME NEW c \in Crum, NEW k \in 0..4, InSection(c, k, 4, Q)
      PROVE  LET p == IF c.space = 1 THEN mv[c.place] ELSE c.place
             IN  /\ k \in 1..3 => tumbleradd(Disp(1, 1, c.space, c.place), diff[k]) = Disp(1, 1, c.space, p)
                 /\ k \notin 1..3 => p = c.place
  <2> DEFINE q == c.place
             p == IF c.space = 1 THEN mv[q] ELSE q
             D == Disp(1, 1, c.space, q)
  <2>1. q \in Digit /\ q \in Nat /\ q > 0 /\ c.space \in Space /\ (c.space = 1 \/ c.space = 2)
    BY CrumType DEF Space
  <2>2. Behind(1, 1, c.space, q)
    BY <2>1 DEF Behind
  <2>3. D \in Number
    BY <1>1, <2>1, <2>2, DispNumber
  <2>4. tumbleradd(D, ZEROTUMBLER) = D
    BY <2>3, SubZero
  <2>5. k = 0 \/ k = 1 \/ k = 2 \/ k = 3 \/ k = 4
    OBVIOUS
  <2> HIDE DEF q
  <2>6. CASE c.space = 2
    <3>1. k = 4 /\ p = q
      BY <1>9, <2>6 DEF InSection
    <3> QED  BY <3>1 DEF q
  <2>7. CASE c.space = 1
    <3>0. (k # 0 => Q[k] <= q) /\ \A i \in 1..4 : Q[i] <= q => i <= k
      BY <1>9, <2>7 DEF InSection, q
    <3>1. p = mv[q] /\ D = Off(q - 1)
      BY <2>7 DEF Disp
    <3>2. CASE k = 0
      <4>1. ~(Q[1] <= q)
        BY <3>0, <3>2
      <4>2. p = q
        BY <1>1, <1>3, <1>8, <2>1, <3>1, <4>1
      <4> QED  BY <3>2, <4>2 DEF q
    <3>3. CASE k = 1
      <4>1. Q[1] <= q /\ ~(Q[2] <= q)
        BY <3>0, <3>3
      <4>2. p = q + (c3 - c1)
        BY <1>1, <1>3, <1>8, <2>1, <3>1, <4>1
      <4>4. tumbleradd(Disp(1, 1, c.space, q), Width(c3 - c1)) = Disp(1, 1, c.space, q + (c3 - c1))
        BY <1>1, <2>1, <2>2, DispMore
      <4>5. tumbleradd(D, diff[k]) = Disp(1, 1, c.space, p)
        BY <1>7, <3>3, <4>2, <4>4 DEF w
      <4> QED  BY <3>3, <4>5 DEF q
    <3>4. CASE k = 2
      <4>1. Q[2] <= q /\ ~(Q[3] <= q)
        BY <3>0, <3>4
      <4>2. p = q
        BY <1>1, <1>3, <1>8, <2>1, <3>1, <4>1
      <4> QED  BY <1>7, <2>4, <3>4, <4>2 DEF q
    <3>5. CASE k = 3
      <4>1. Q[3] <= q /\ ~(Q[4] <= q)
        BY <3>0, <3>5
      <4>2. p = q - (c3 - c1)
        BY <1>1, <1>3, <1>8, <2>1, <3>1, <4>1
      <4>3. 1 <= q - (c3 - c1)
        BY <1>1, <1>3, <2>1, <4>1
      <4>4. tumbleradd(Disp(1, 1, c.space, q), negated(Width(c3 - c1))) = Disp(1, 1, c.space, q - (c3 - c1))
        BY <1>1, <2>1, <2>2, <2>7, <4>3, DispLess
      <4>5. tumbleradd(D, diff[k]) = Disp(1, 1, c.space, p)
        BY <1>7, <3>5, <4>2, <4>4 DEF w
      <4> QED  BY <3>5, <4>5 DEF q
    <3>6. CASE k = 4
      <4>1. Q[4] <= q
        BY <3>0, <3>6
      <4>2. p = q
        BY <1>1, <1>3, <1>8, <2>1, <3>1, <4>1
      <4> QED  BY <3>6, <4>2 DEF q
    <3> QED  BY <2>5, <3>2, <3>3, <3>4, <3>5, <3>6
  <2> QED  BY <2>1, <2>6, <2>7
<1>10. Offsets(diff, 4, Q, mv)
  BY <1>9 DEF Offsets
<1> QED  BY <1>10 DEF diff, Q, mv, knives

LEMMA TurnWhole ==
    ASSUME NEW c1 \in Digit, NEW c2 \in Digit, NEW c3 \in Digit, c1 < c2, c2 <= c3,
           NEW c \in Crum, ~Through(c, 1, c1), ~Through(c, 1, c2), ~Through(c, 1, c3)
    PROVE  Whole(c, Turn(c1, c2, c3))
<1> DEFINE mv == Turn(c1, c2, c3)
<1>1. /\ c1 \in Nat /\ c2 \in Nat /\ c3 \in Nat /\ c1 <= c2
      /\ c.place \in Nat /\ c.place > 0 /\ c.len \in Nat /\ c.len > 0 /\ c.place \in Digit
  BY CrumType DEF Digit
<1>2. \A q \in Digit :
                 /\ q < c1 \/ c3 <= q => mv[q] = q
                 /\ c1 <= q /\ q < c2 => mv[q] = q + (c3 - c2)
                 /\ c2 <= q /\ q < c3 => mv[q] = q - (c2 - c1)
  BY <1>1, TurnIs
<1> HIDE DEF mv
<1>3. ASSUME NEW q \in Digit, On(c, 1, q)
      PROVE  mv[q] = mv[c.place] + (q - c.place)
  <2> DEFINE p == c.place
             r == c.place + c.len
  <2>1. q \in Nat /\ p \in Nat /\ r \in Nat /\ p <= q /\ q < r /\ p \in Digit
    BY <1>1, <1>3 DEF On, Digit
  <2>2. (c1 <= p \/ r <= c1) /\ (c2 <= p \/ r <= c2) /\ (c3 <= p \/ r <= c3)
    BY <1>1, <1>3 DEF On, Through
  <2> HIDE DEF p, r
  <2>3. CASE r <= c1 \/ c3 <= p
    <3>1. mv[p] = p
      BY <1>1, <1>2, <2>1, <2>3
    <3>2. mv[q] = q
      BY <1>1, <1>2, <2>1, <2>3
    <3> QED  BY <2>1, <3>1, <3>2 DEF p
  <2>4. CASE c1 <= p /\ r <= c2
    <3>1. mv[p] = p + (c3 - c2)
      BY <1>1, <1>2, <2>1, <2>4
    <3>2. mv[q] = q + (c3 - c2)
      BY <1>1, <1>2, <2>1, <2>4
    <3> QED  BY <1>1, <2>1, <3>1, <3>2 DEF p
  <2>5. CASE c2 <= p /\ r <= c3
    <3>1. mv[p] = p - (c2 - c1)
      BY <1>1, <1>2, <2>1, <2>5
    <3>2. mv[q] = q - (c2 - c1)
      BY <1>1, <1>2, <2>1, <2>5
    <3> QED  BY <1>1, <2>1, <3>1, <3>2 DEF p
  <2> QED  BY <1>1, <2>1, <2>2, <2>3, <2>4, <2>5
<1> QED  BY <1>3 DEF Whole, mv

LEMMA ExchangeWhole ==
    ASSUME NEW c1 \in Digit, NEW c2 \in Digit, NEW c3 \in Digit, NEW c4 \in Digit,
           c1 < c2, c2 <= c3, c4 - c3 = c2 - c1, NEW c \in Crum,
           ~Through(c, 1, c1), ~Through(c, 1, c2), ~Through(c, 1, c3), ~Through(c, 1, c4)
    PROVE  Whole(c, Exchange(c1, c2, c3, c4))
<1> DEFINE mv == Exchange(c1, c2, c3, c4)
<1>1. /\ c1 \in Nat /\ c2 \in Nat /\ c3 \in Nat /\ c4 \in Nat /\ c3 < c4
      /\ c.place \in Nat /\ c.place > 0 /\ c.len \in Nat /\ c.len > 0 /\ c.place \in Digit
  BY CrumType DEF Digit
<1>2. \A q \in Digit :
                 /\ q < c1 \/ (c2 <= q /\ q < c3) \/ c4 <= q => mv[q] = q
                 /\ c1 <= q /\ q < c2 => mv[q] = q + (c3 - c1)
                 /\ c3 <= q /\ q < c4 => mv[q] = q - (c3 - c1)
  BY ExchangeIs
<1> HIDE DEF mv
<1>3. ASSUME NEW q \in Digit, On(c, 1, q)
      PROVE  mv[q] = mv[c.place] + (q - c.place)
  <2> DEFINE p == c.place
             r == c.place + c.len
  <2>1. q \in Nat /\ p \in Nat /\ r \in Nat /\ p <= q /\ q < r /\ p \in Digit
    BY <1>1, <1>3 DEF On, Digit
  <2>2. (c1 <= p \/ r <= c1) /\ (c2 <= p \/ r <= c2) /\ (c3 <= p \/ r <= c3) /\ (c4 <= p \/ r <= c4)
    BY <1>1, <1>3 DEF On, Through
  <2> HIDE DEF p, r
  <2>3. CASE r <= c1 \/ (c2 <= p /\ r <= c3) \/ c4 <= p
    <3>1. mv[p] = p
      BY <1>1, <1>2, <2>1, <2>3
    <3>2. mv[q] = q
      BY <1>1, <1>2, <2>1, <2>3
    <3> QED  BY <2>1, <3>1, <3>2 DEF p
  <2>4. CASE c1 <= p /\ r <= c2
    <3>1. mv[p] = p + (c3 - c1)
      BY <1>1, <1>2, <2>1, <2>4
    <3>2. mv[q] = q + (c3 - c1)
      BY <1>1, <1>2, <2>1, <2>4
    <3> QED  BY <1>1, <2>1, <3>1, <3>2 DEF p
  <2>5. CASE c3 <= p /\ r <= c4
    <3>1. mv[p] = p - (c3 - c1)
      BY <1>1, <1>2, <2>1, <2>5
    <3>2. mv[q] = q - (c3 - c1)
      BY <1>1, <1>2, <2>1, <2>5
    <3> QED  BY <1>1, <2>1, <3>1, <3>2 DEF p
  <2> QED  BY <1>1, <2>1, <2>2, <2>3, <2>4, <2>5
<1> QED  BY <1>3 DEF Whole, mv

LEMMA RearrangeCuts ==
    ASSUME NEW o, NEW C, NEW T, NEW L, Fine(o, C), Says(C, T, L), Len(T) # 0,
           NEW knives, NEW Q, NEW n \in Nat, Cuts(knives, Q, n),
           NEW mv, NEW back, Inverses(mv, back),
           Offsets(makeoffsetsfor3or4cuts(knives), n, Q, mv),
           \A c \in Crum : (\A i \in 1..n : ~Through(c, 1, Q[i])) => Whole(c, mv),
           \A q \in Digit : back[q] \in 1..Len(T) <=> q \in 1..Len(T)
    PROVE  \E E : /\ Fine(rearrangend(o, knives), E)
                  /\ Says(E, [q \in 1..Len(T) |-> T[back[q]]], L)
<1> DEFINE U == [i \in 1..n |-> 1]
<1>1. Rooted(1, 1, C) /\ o = Tree(1, 1, C)
  BY SaysApex
<1>2. Disjoint(C)
  BY DEF Says
<1>3. Knives(knives, U, Q) /\ Len(knives) = n /\ \A i \in 1..n : U[i] = 1
  BY DEF Cuts
<1> HIDE DEF U
<1>4. \E E : Fine(rearrangend(Tree(1, 1, C), knives), E) /\ Permuted(E, C, back)
  BY <1>1, <1>2, <1>3, RearrangeTree
<1>5. PICK E : Fine(rearrangend(o, knives), E) /\ Permuted(E, C, back)
  BY <1>1, <1>4
<1>6. back \in [Digit -> Digit]
  BY DEF Inverses
<1>7. Says(E, [q \in 1..Len(T) |-> T[back[q]]], L)
  BY <1>5, <1>6, PermutedSays
<1> QED  BY <1>5, <1>7

Turned(T, c1, c2, c3) == [q \in 1..Len(T) |-> T[Turn(c1, c1 + (c3 - c2), c3)[q]]]

Swapped(T, c1, c2, c3, c4) == [q \in 1..Len(T) |-> T[Exchange(c1, c2, c3, c4)[q]]]

LEMMA PivotText ==
    ASSUME NEW o, NEW C, NEW T, NEW L, Fine(o, C), Says(C, T, L),
           NEW c1 \in Digit, NEW c2 \in Digit, NEW c3 \in Digit, c1 < c2, c2 <= c3, c3 <= Len(T) + 1
    PROVE  \E E : /\ Fine(rearrangend(o, <<At(1, c1), At(1, c2), At(1, c3)>>), E)
                  /\ Says(E, Turned(T, c1, c2, c3), L)
<1> DEFINE knives == <<At(1, c1), At(1, c2), At(1, c3)>>
           Q == <<c1, c2, c3>>
           b == c1 + (c3 - c2)
           mv == Turn(c1, c2, c3)
           back == Turn(c1, b, c3)
<1>1. /\ c1 \in Nat /\ c2 \in Nat /\ c3 \in Nat /\ c1 > 0 /\ T \in Seq(Digit) /\ Len(T) \in Nat /\ Len(T) # 0
  <2>1. T \in Seq(Digit)
    BY DEF Says
  <2>2. Len(T) \in Nat
    BY <2>1
  <2> QED  BY <2>1, <2>2 DEF Digit
<1>2. Cuts(knives, Q, 3) /\ 3 \in Nat
  BY ThreeCuts
<1>3. Offsets(makeoffsetsfor3or4cuts(knives), 3, Q, mv)
  BY PivotOffsets
<1>4. b \in Digit /\ b \in Nat /\ c1 <= b /\ b <= c3 /\ Inverses(mv, back)
  BY <1>1, TurnBack
<1>5. Q[1] = c1 /\ Q[2] = c2 /\ Q[3] = c3 /\ 1 \in 1..3 /\ 2 \in 1..3 /\ 3 \in 1..3
  OBVIOUS
<1> HIDE DEF knives, Q, mv
<1>6. \A c \in Crum : (\A i \in 1..3 : ~Through(c, 1, Q[i])) => Whole(c, mv)
  <2>1. ASSUME NEW c \in Crum, \A i \in 1..3 : ~Through(c, 1, Q[i])
        PROVE  Whole(c, mv)
    <3>1. ~Through(c, 1, c1) /\ ~Through(c, 1, c2) /\ ~Through(c, 1, c3)
      BY <1>5, <2>1
    <3> QED  BY <3>1, TurnWhole DEF mv
  <2> QED  BY <2>1
<1> HIDE DEF b
<1>7. /\ back \in [Digit -> Digit]
      /\ \A q \in Digit :
                 /\ q < c1 \/ c3 <= q => back[q] = q
                 /\ c1 <= q /\ q < b => back[q] = q + (c3 - b)
                 /\ b <= q /\ q < c3 => back[q] = q - (b - c1)
  BY <1>4, TurnIs
<1> HIDE DEF back
<1>8. \A q \in Digit : back[q] \in 1..Len(T) <=> q \in 1..Len(T)
  <2>1. ASSUME NEW q \in Digit
        PROVE  back[q] \in 1..Len(T) <=> q \in 1..Len(T)
    <3>1. q \in Nat /\ q > 0 /\ back[q] \in Nat /\ back[q] > 0
      BY <1>7 DEF Digit
    <3>2. CASE q < c1 \/ c3 <= q
      BY <1>7, <3>2
    <3>3. CASE c1 <= q /\ q < b
      BY <1>1, <1>4, <1>7, <3>1, <3>3
    <3>4. CASE b <= q /\ q < c3
      BY <1>1, <1>4, <1>7, <3>1, <3>4
    <3> QED  BY <1>1, <1>4, <3>1, <3>2, <3>3, <3>4
  <2> QED  BY <2>1
<1>9. \E E : /\ Fine(rearrangend(o, knives), E)
             /\ Says(E, [q \in 1..Len(T) |-> T[back[q]]], L)
  BY <1>1, <1>2, <1>3, <1>4, <1>6, <1>8, RearrangeCuts
<1> QED  BY <1>9 DEF Turned, knives, back, b

LEMMA SwapText ==
    ASSUME NEW o, NEW C, NEW T, NEW L, Fine(o, C), Says(C, T, L),
           NEW c1 \in Digit, NEW c2 \in Digit, NEW c3 \in Digit, NEW c4 \in Digit,
           c1 < c2, c2 <= c3, c4 - c3 = c2 - c1, c4 <= Len(T) + 1
    PROVE  \E E : /\ Fine(rearrangend(o, <<At(1, c1), At(1, c2), At(1, c3), At(1, c4)>>), E)
                  /\ Says(E, Swapped(T, c1, c2, c3, c4), L)
<1> DEFINE knives == <<At(1, c1), At(1, c2), At(1, c3), At(1, c4)>>
           Q == <<c1, c2, c3, c4>>
           mv == Exchange(c1, c2, c3, c4)
<1>0. T \in Seq(Digit)
  BY DEF Says
<1>1. /\ c1 \in Nat /\ c2 \in Nat /\ c3 \in Nat /\ c4 \in Nat /\ c1 > 0 /\ c3 < c4
      /\ Len(T) \in Nat /\ Len(T) # 0
  <2>2. Len(T) \in Nat
    BY <1>0
  <2> QED  BY <2>2 DEF Digit
<1>2. Cuts(knives, Q, 4) /\ 4 \in Nat
  BY FourCuts
<1>3. Offsets(makeoffsetsfor3or4cuts(knives), 4, Q, mv)
  BY SwapOffsets
<1>5. /\ Q[1] = c1 /\ Q[2] = c2 /\ Q[3] = c3 /\ Q[4] = c4
      /\ 1 \in 1..4 /\ 2 \in 1..4 /\ 3 \in 1..4 /\ 4 \in 1..4
  OBVIOUS
<1> HIDE DEF knives, Q, mv
<1>6. \A c \in Crum : (\A i \in 1..4 : ~Through(c, 1, Q[i])) => Whole(c, mv)
  <2>1. ASSUME NEW c \in Crum, \A i \in 1..4 : ~Through(c, 1, Q[i])
        PROVE  Whole(c, mv)
    <3>1. ~Through(c, 1, c1) /\ ~Through(c, 1, c2) /\ ~Through(c, 1, c3) /\ ~Through(c, 1, c4)
      BY <1>5, <2>1
    <3> QED  BY <3>1, ExchangeWhole DEF mv
  <2> QED  BY <2>1
<1>7. /\ mv \in [Digit -> Digit]
      /\ \A q \in Digit :
                 /\ q < c1 \/ (c2 <= q /\ q < c3) \/ c4 <= q => mv[q] = q
                 /\ c1 <= q /\ q < c2 => mv[q] = q + (c3 - c1)
                 /\ c3 <= q /\ q < c4 => mv[q] = q - (c3 - c1)
      /\ Inverses(mv, mv)
  BY ExchangeIs DEF mv
<1>8. \A q \in Digit : mv[q] \in 1..Len(T) <=> q \in 1..Len(T)
  <2>1. ASSUME NEW q \in Digit
        PROVE  mv[q] \in 1..Len(T) <=> q \in 1..Len(T)
    <3>1. q \in Nat /\ q > 0 /\ mv[q] \in Nat /\ mv[q] > 0
      BY <1>7 DEF Digit
    <3>2. CASE q < c1 \/ (c2 <= q /\ q < c3) \/ c4 <= q
      BY <1>7, <3>2
    <3>3. CASE c1 <= q /\ q < c2
      BY <1>1, <1>7, <3>1, <3>3
    <3>4. CASE c3 <= q /\ q < c4
      BY <1>1, <1>7, <3>1, <3>4
    <3> QED  BY <1>1, <3>1, <3>2, <3>3, <3>4
  <2> QED  BY <2>1
<1>9. \E E : /\ Fine(rearrangend(o, knives), E)
             /\ Says(E, [q \in 1..Len(T) |-> T[mv[q]]], L)
  <2> DEFINE n == 4
  <2>1. /\ Cuts(knives, Q, n) /\ n \in Nat /\ Offsets(makeoffsetsfor3or4cuts(knives), n, Q, mv)
        /\ \A c \in Crum : (\A i \in 1..n : ~Through(c, 1, Q[i])) => Whole(c, mv)
    BY <1>2, <1>3, <1>6
  <2>2. Len(T) # 0 /\ Inverses(mv, mv)
    BY <1>1, <1>7
  <2> HIDE DEF n
  <2> QED  BY <1>8, <2>1, <2>2, RearrangeCuts
<1> QED  BY <1>9 DEF Swapped, knives, mv

-----------------------------------------------------------------------------
(* What vspanset2ispanset finds of a span of the text. *)

\* The crums of the text from place from to before place upto.
Hit(C, from, upto) ==
    {c \in C : c.space = 1 /\ c.place < upto /\ from < c.place + c.len}

Begin(c, from) == IF c.place < from THEN from ELSE c.place

Finish(c, upto) == IF upto < c.place + c.len THEN upto ELSE c.place + c.len

HitSons(H) == {SonOf(1, 1, d) : d \in H}

SonsBefore(H, c) == HitSons({d \in H : d.place < c.place})

Found(o, lower, upper) == {son \in o.sons : crumqualifies2d(o, son, lower, upper)}

FoundBefore(o, found, son) == {a \in found : tumblercmp(Grasp(o, a), Grasp(o, son)) = LESS}

LEMMA FoundAre ==
    ASSUME NEW C, Rooted(1, 1, C), NEW from \in Digit, NEW upto \in Digit
    PROVE  LET o == Tree(1, 1, C)
               H == Hit(C, from, upto)
           IN  /\ Found(o, At(1, from), At(1, upto)) = HitSons(H)
               /\ \A c \in H : FoundBefore(o, HitSons(H), SonOf(1, 1, c)) = SonsBefore(H, c)
<1> DEFINE o == Tree(1, 1, C)
           H == Hit(C, from, upto)
<1>1. /\ o.apex = At(1, 1) /\ o.sons = {SonOf(1, 1, c) : c \in C} /\ C \in SUBSET Crum
      /\ 1 \in Space /\ 1 \in Digit
  BY DEF Tree, Rooted, Space, Digit
<1> HIDE DEF o
<1>2. ASSUME NEW c \in C
      PROVE  /\ c \in Crum /\ Behind(1, 1, c.space, c.place)
             /\ c.space \in Space /\ c.place \in Digit /\ c.len \in Nat /\ c.place \in Nat
             /\ crumqualifies2d(o, SonOf(1, 1, c), At(1, from), At(1, upto)) <=> c \in H
             /\ Grasp(o, SonOf(1, 1, c)) = At(c.space, c.place)
  <2>1. c \in Crum /\ Behind(1, 1, c.space, c.place)
    BY <1>1 DEF Rooted
  <2>2. c.space \in Space /\ c.place \in Digit /\ c.len \in Nat /\ c.place \in Nat /\ (c.space = 1 \/ c.space = 2)
    BY <2>1, CrumType DEF Space
  <2>3. LET w == WhereOnCrum(o, SonOf(1, 1, c), At(1, upto))
        IN  w > ONMYLEFTBORDER <=> ~Behind(1, upto, c.space, c.place)
    BY <1>1, <2>1, SonWhere
  <2>4. LET w == WhereOnCrum(o, SonOf(1, 1, c), At(1, from))
        IN  w <= THRUME <=> 1 < c.space \/ (1 = c.space /\ from < c.place + c.len)
    BY <1>1, <2>1, SonWhere
  <2>5. ~Behind(1, upto, c.space, c.place) <=> c.space = 1 /\ c.place < upto
    BY <2>2 DEF Behind, Digit
  <2>6. crumqualifies2d(o, SonOf(1, 1, c), At(1, from), At(1, upto)) <=> c \in H
    BY <2>2, <2>3, <2>4, <2>5 DEF crumqualifies2d, Hit
  <2>7. Grasp(o, SonOf(1, 1, c)) = At(c.space, c.place)
    BY <1>1, <2>1, SonIs
  <2> QED  BY <2>1, <2>2, <2>6, <2>7
<1>3. H \subseteq C /\ \A c \in H : c.space = 1
  BY DEF Hit
<1> HIDE DEF H
<1>4. Found(o, At(1, from), At(1, upto)) = HitSons(H)
  <2>1. \A son : son \in Found(o, At(1, from), At(1, upto)) <=>
            \E c \in C : son = SonOf(1, 1, c) /\ crumqualifies2d(o, SonOf(1, 1, c), At(1, from), At(1, upto))
    BY <1>1 DEF Found
  <2>2. \A son : son \in HitSons(H) <=> \E c \in C : son = SonOf(1, 1, c) /\ c \in H
    BY <1>3 DEF HitSons
  <2>3. \A son : son \in Found(o, At(1, from), At(1, upto)) <=> son \in HitSons(H)
    BY <1>2, <2>1, <2>2
  <2> QED  BY <2>3
<1>5. ASSUME NEW c \in H
      PROVE  FoundBefore(o, HitSons(H), SonOf(1, 1, c)) = SonsBefore(H, c)
  <2>1. ASSUME NEW d \in H
        PROVE  tumblercmp(Grasp(o, SonOf(1, 1, d)), Grasp(o, SonOf(1, 1, c))) = LESS <=> d.place < c.place
    <3>1. Grasp(o, SonOf(1, 1, d)) = At(1, d.place) /\ Grasp(o, SonOf(1, 1, c)) = At(1, c.place)
      BY <1>2, <1>3
    <3>2. d.place \in Digit /\ c.place \in Digit
      BY <1>2, <1>3
    <3> DEFINE x == d.place
               y == c.place
    <3> HIDE DEF x, y
    <3>3. ASSUME x \in Digit, y \in Digit PROVE tumblercmp(At(1, x), At(1, y)) = LESS <=> x < y
      <4>1. LET r == tumblercmp(At(1, x), At(1, y)) IN r = LESS <=> 1 < 1 \/ (1 = 1 /\ x < y)
        BY <1>1, <3>3, CmpAt
      <4> QED  BY <4>1
    <3> QED  BY <3>1, <3>2, <3>3 DEF x, y
  <2>2. \A a : a \in FoundBefore(o, HitSons(H), SonOf(1, 1, c)) <=>
            \E d \in H : a = SonOf(1, 1, d) /\ tumblercmp(Grasp(o, SonOf(1, 1, d)), Grasp(o, SonOf(1, 1, c))) = LESS
    BY DEF FoundBefore, HitSons
  <2>3. \A a : a \in SonsBefore(H, c) <=> \E d \in H : a = SonOf(1, 1, d) /\ d.place < c.place
    BY DEF SonsBefore, HitSons
  <2>4. \A a : a \in FoundBefore(o, HitSons(H), SonOf(1, 1, c)) <=> a \in SonsBefore(H, c)
    BY <2>1, <2>2, <2>3
  <2> QED  BY <2>4
<1> QED  BY <1>4, <1>5 DEF o, H

\* What is known of the crums found.
LEMMA HitIs ==
    ASSUME NEW C, NEW T, NEW L, Says(C, T, L), NEW from \in Digit, NEW upto \in Digit, from < upto,
           upto <= Len(T) + 1, NEW c \in Hit(C, from, upto)
    PROVE  /\ c \in C /\ c \in Crum /\ c.space = 1 /\ Behind(1, 1, c.space, c.place)
           /\ c.place \in Nat /\ c.place > 0 /\ c.len \in Nat /\ c.len > 0 /\ c.first \in Nat /\ c.first > 0
           /\ c.place < upto /\ from < c.place + c.len /\ c.place \in 1..Len(T)
           /\ Begin(c, from) \in Nat /\ Finish(c, upto) \in Nat
           /\ c.place <= Begin(c, from) /\ from <= Begin(c, from) /\ Begin(c, from) < Finish(c, upto)
           /\ Finish(c, upto) <= c.place + c.len /\ Finish(c, upto) <= upto
           /\ \A q \in Digit : On(c, 1, q) <=> c.place <= q /\ q < c.place + c.len
<1>1. c \in C /\ c \in Crum /\ c.space = 1 /\ c.place < upto /\ from < c.place + c.len
  BY DEF Hit, Says
<1>2. /\ c.place \in Nat /\ c.place > 0 /\ c.len \in Nat /\ c.len > 0 /\ c.first \in Nat /\ c.first > 0
  BY <1>1, CrumType
<1>3. from \in Nat /\ from > 0 /\ upto \in Nat
  BY DEF Digit
<1>4. T \in Seq(Digit)
  BY DEF Says
<1>5. Len(T) \in Nat
  BY <1>4
<1>6. c.place \in 1..Len(T)
  BY <1>1, <1>2, <1>3, <1>5
<1>7. Behind(1, 1, c.space, c.place)
  BY <1>1, <1>2 DEF Behind
<1>8. \A q \in Digit : On(c, 1, q) <=> c.place <= q /\ q < c.place + c.len
  BY <1>1 DEF On
<1>9. /\ Begin(c, from) \in Nat /\ Finish(c, upto) \in Nat
      /\ c.place <= Begin(c, from) /\ from <= Begin(c, from) /\ Begin(c, from) < Finish(c, upto)
      /\ Finish(c, upto) <= c.place + c.len /\ Finish(c, upto) <= upto
  BY <1>1, <1>2, <1>3 DEF Begin, Finish
<1> QED  BY <1>1, <1>2, <1>6, <1>7, <1>8, <1>9

\* No two share a place.
LEMMA HitApart ==
    ASSUME NEW C, NEW T, NEW L, Says(C, T, L), NEW from \in Digit, NEW upto \in Digit, from < upto,
           upto <= Len(T) + 1, NEW c \in Hit(C, from, upto), NEW d \in Hit(C, from, upto)
    PROVE  /\ c.place < d.place => c.place + c.len <= d.place
           /\ c.place = d.place => c = d
           /\ SonOf(1, 1, c) = SonOf(1, 1, d) => c = d
<1>1. /\ c \in C /\ c \in Crum /\ c.place \in Nat /\ c.len \in Nat /\ c.len > 0 /\ c.place > 0
      /\ Behind(1, 1, c.space, c.place)
      /\ \A q \in Digit : On(c, 1, q) <=> c.place <= q /\ q < c.place + c.len
  BY HitIs
<1>2. /\ d \in C /\ d \in Crum /\ d.place \in Nat /\ d.len \in Nat /\ d.len > 0 /\ d.place > 0
      /\ Behind(1, 1, d.space, d.place)
      /\ \A q \in Digit : On(d, 1, q) <=> d.place <= q /\ q < d.place + d.len
  BY HitIs
<1>3. \A q \in Digit : On(c, 1, q) /\ On(d, 1, q) => c = d
  BY <1>1, <1>2 DEF Says, Disjoint, Space
<1>4. d.place \in Digit /\ On(d, 1, d.place)
  BY <1>2 DEF Digit
<1>5. c.place = d.place => c = d
  BY <1>1, <1>3, <1>4
<1>6. c.place < d.place => c.place + c.len <= d.place
  <2>1. SUFFICES ASSUME c.place < d.place, d.place < c.place + c.len PROVE FALSE
    BY <1>1, <1>2
  <2>2. c.place <= d.place /\ d.place < c.place + c.len
    BY <1>1, <1>2, <2>1
  <2>3. On(c, 1, d.place)
    BY <1>1, <1>4, <2>2
  <2>4. c = d
    BY <1>3, <1>4, <2>3
  <2> QED  BY <1>1, <2>1, <2>4
<1>7. SonOf(1, 1, c) = SonOf(1, 1, d) => c = d
  BY <1>1, <1>2, SonOnly DEF Space, Digit
<1> QED  BY <1>5, <1>6, <1>7

LEMMA HitFinite ==
    ASSUME NEW C, NEW T, NEW L, Says(C, T, L), NEW from \in Digit, NEW upto \in Digit, from < upto,
           upto <= Len(T) + 1
    PROVE  LET H == Hit(C, from, upto)
           IN  /\ IsFiniteSet(HitSons(H)) /\ Cardinality(HitSons(H)) \in Nat
               /\ \A c \in H : /\ IsFiniteSet(SonsBefore(H, c)) /\ Cardinality(SonsBefore(H, c)) \in Nat
                               /\ SonsBefore(H, c) \subseteq HitSons(H)
                               /\ SonOf(1, 1, c) \in HitSons(H) /\ SonOf(1, 1, c) \notin SonsBefore(H, c)
<1> DEFINE H == Hit(C, from, upto)
           S == HitSons(H)
           f == [son \in S |-> (CHOOSE c \in H : son = SonOf(1, 1, c)).place]
<1>1. \A c \in H : c.place \in 1..Len(T) /\ c.place \in Nat
  BY HitIs
<1>2. \A c, d \in H : (c.place = d.place => c = d) /\ (SonOf(1, 1, c) = SonOf(1, 1, d) => c = d)
  BY HitApart
<1> HIDE DEF H
<1>3. T \in Seq(Digit)
  BY DEF Says
<1>4. Len(T) \in Nat
  BY <1>3
<1>5. \A son \in S : \E c \in H : son = SonOf(1, 1, c)
  BY DEF HitSons
<1> DEFINE crum(son) == CHOOSE c \in H : son = SonOf(1, 1, c)
<1>6. \A son \in S : crum(son) \in H /\ son = SonOf(1, 1, crum(son)) /\ f[son] = crum(son).place
  BY <1>5
<1> HIDE DEF crum
<1>7. f \in [S -> 1..Len(T)]
  <2>1. \A son \in S : f[son] \in 1..Len(T)
    BY <1>1, <1>6
  <2>2. f = [son \in S |-> f[son]]
    OBVIOUS
  <2> HIDE DEF f
  <2> QED  BY <2>1, <2>2
<1> HIDE DEF f
<1>8. \A a, b \in S : f[a] = f[b] => a = b
  BY <1>2, <1>6
<1>9. f \in Injection(S, 1..Len(T))
  BY <1>7, <1>8 DEF Injection, IsInjective
<1>10. IsFiniteSet(1..Len(T))
  BY <1>4, FS_Interval
<1>11. IsFiniteSet(S)
  BY <1>9, <1>10, FS_Injection
<1>12. Cardinality(S) \in Nat
  BY <1>11, FS_CardinalityType
<1>13. ASSUME NEW c \in H
       PROVE  /\ IsFiniteSet(SonsBefore(H, c)) /\ Cardinality(SonsBefore(H, c)) \in Nat
              /\ SonsBefore(H, c) \subseteq S
              /\ SonOf(1, 1, c) \in S /\ SonOf(1, 1, c) \notin SonsBefore(H, c)
  <2>1. SonsBefore(H, c) \subseteq S /\ SonOf(1, 1, c) \in S
    BY DEF SonsBefore, HitSons
  <2>2. IsFiniteSet(SonsBefore(H, c))
    BY <1>11, <2>1, FS_Subset
  <2>3. Cardinality(SonsBefore(H, c)) \in Nat
    BY <2>2, FS_CardinalityType
  <2>4. SonOf(1, 1, c) \notin SonsBefore(H, c)
    <3>1. SUFFICES ASSUME NEW d \in H, d.place < c.place, SonOf(1, 1, c) = SonOf(1, 1, d) PROVE FALSE
      BY DEF SonsBefore, HitSons
    <3>2. c = d
      BY <1>2, <3>1
    <3> QED  BY <1>1, <3>1, <3>2
  <2> QED  BY <2>1, <2>2, <2>3, <2>4
<1> QED  BY <1>11, <1>12, <1>13 DEF H

\* The crum that has the first place comes first.
LEMMA HitFirst ==
    ASSUME NEW C, NEW T, NEW L, Says(C, T, L), NEW from \in Digit, NEW upto \in Digit, from < upto,
           upto <= Len(T) + 1
    PROVE  LET H == Hit(C, from, upto)
           IN  \E c \in H : Begin(c, from) = from /\ SonsBefore(H, c) = {}
<1> DEFINE H == Hit(C, from, upto)
<1>1. T \in Seq(Digit)
  BY DEF Says
<1>2. Len(T) \in Nat /\ from \in Nat /\ from > 0 /\ upto \in Nat
  BY <1>1 DEF Digit
<1>3. from \in 1..Len(T)
  BY <1>2
<1>4. PICK c \in C : On(c, 1, from)
  BY <1>3, SaysText
<1>5. c.space = 1 /\ c.place <= from /\ from < c.place + c.len
  BY <1>4 DEF On
<1>6. c \in Crum
  BY DEF Says
<1>7. c.place \in Nat /\ c.len \in Nat
  BY <1>6, CrumType
<1>8. c.place < upto
  BY <1>2, <1>5, <1>7
<1>9. c \in H
  BY <1>5, <1>8 DEF Hit
<1>10. ASSUME NEW d \in H, d.place < c.place PROVE FALSE
  <2>1. d.place + d.len <= c.place
    BY <1>9, <1>10, HitApart
  <2>2. from < d.place + d.len /\ d.place \in Nat /\ d.len \in Nat
    BY HitIs
  <2> QED  BY <1>2, <1>5, <1>7, <2>1, <2>2
<1> HIDE DEF H
<1>11. SonsBefore(H, c) = {}
  BY <1>10 DEF SonsBefore, HitSons
<1>12. Begin(c, from) = from
  BY <1>2, <1>5, <1>7 DEF Begin
<1> QED  BY <1>9, <1>11, <1>12 DEF H

\* Behind one there is another, unless it reaches the end.
LEMMA HitNext ==
    ASSUME NEW C, NEW T, NEW L, Says(C, T, L), NEW from \in Digit, NEW upto \in Digit, from < upto,
           upto <= Len(T) + 1, NEW c \in Hit(C, from, upto)
    PROVE  LET H == Hit(C, from, upto)
           IN  \/ /\ Finish(c, upto) = upto
                  /\ HitSons(H) = SonsBefore(H, c) \union {SonOf(1, 1, c)}
               \/ \E d \in H : /\ Begin(d, from) = Finish(c, upto)
                               /\ SonsBefore(H, d) = SonsBefore(H, c) \union {SonOf(1, 1, c)}
<1> DEFINE H == Hit(C, from, upto)
           e == c.place + c.len
<1>1. T \in Seq(Digit)
  BY DEF Says
<1>2. Len(T) \in Nat /\ from \in Nat /\ from > 0 /\ upto \in Nat
  BY <1>1 DEF Digit
<1>3. /\ c.place \in Nat /\ c.place > 0 /\ c.len \in Nat /\ c.len > 0
      /\ c.place < upto /\ from < e /\ e \in Nat /\ c.place < e /\ c \in C /\ c.space = 1
  BY HitIs
<1>4. \A d \in H : /\ d.place \in Nat /\ d.place < upto
                   /\ c.place < d.place => e <= d.place
                   /\ c.place = d.place => c = d
                   /\ d.place < c.place => d.place + d.len <= c.place
                   /\ d.len \in Nat /\ d.len > 0
  BY HitIs, HitApart
<1>5. \A S : (S = {SonOf(1, 1, d) : d \in {d \in H : d.place < c.place}} \union {SonOf(1, 1, c)}) <=>
             S = SonsBefore(H, c) \union {SonOf(1, 1, c)}
  BY DEF SonsBefore, HitSons
<1>6. CASE upto <= e
  <2>1. Finish(c, upto) = upto
    BY <1>2, <1>3, <1>6 DEF Finish
  <2>2. \A d \in H : d = c \/ d.place < c.place
    BY <1>2, <1>3, <1>4, <1>6
  <2> HIDE DEF H
  <2>3. c \in H
    BY DEF H
  <2>4. HitSons(H) = SonsBefore(H, c) \union {SonOf(1, 1, c)}
    BY <2>2, <2>3 DEF SonsBefore, HitSons
  <2> QED  BY <2>1, <2>4 DEF H
<1>7. CASE e < upto
  <2>1. Finish(c, upto) = e
    BY <1>2, <1>3, <1>7 DEF Finish
  <2>2. e \in 1..Len(T) /\ e \in Digit
    BY <1>2, <1>3, <1>7 DEF Digit
  <2> HIDE DEF e
  <2>3. PICK d \in C : On(d, 1, e)
    BY <2>2, SaysText
  <2>4. d.space = 1 /\ d.place <= e /\ e < d.place + d.len
    BY <2>3 DEF On
  <2>5. d \in Crum
    BY DEF Says
  <2>6. d.place \in Nat /\ d.len \in Nat
    BY <2>5, CrumType
  <2>7. d \in H
    BY <1>2, <1>3, <1>7, <2>4, <2>6 DEF Hit
  <2>8. d.place = e
    <3>1. e <= d.place
      <4>1. c.place # d.place
        BY <1>4, <2>4, <2>7 DEF e
      <4>2. ~(d.place < c.place)
        BY <1>3, <1>4, <2>4, <2>6, <2>7
      <4> QED  BY <1>3, <1>4, <2>6, <2>7, <4>1, <4>2
    <3> QED  BY <1>3, <2>4, <2>6, <3>1
  <2>9. Begin(d, from) = e
    BY <1>2, <1>3, <2>8 DEF Begin
  <2>10. \A b \in H : b.place < d.place <=> b = c \/ b.place < c.place
    <3>1. ASSUME NEW b \in H PROVE b.place < d.place <=> b = c \/ b.place < c.place
      <4>1. b.place \in Nat /\ (c.place < b.place => e <= b.place) /\ (c.place = b.place => c = b)
        BY <1>4
      <4> QED  BY <1>3, <2>8, <4>1
    <3> QED  BY <3>1
  <2>11. c \in H
    OBVIOUS
  <2> HIDE DEF H
  <2>12. SonsBefore(H, d) = SonsBefore(H, c) \union {SonOf(1, 1, c)}
    BY <2>10, <2>11 DEF SonsBefore, HitSons
  <2> QED  BY <2>1, <2>7, <2>9, <2>12 DEF H
<1> QED  BY <1>2, <1>3, <1>6, <1>7

LEMMA SameRank ==
    ASSUME NEW C, NEW T, NEW L, Says(C, T, L), NEW from \in Digit, NEW upto \in Digit, from < upto,
           upto <= Len(T) + 1, NEW c \in Hit(C, from, upto), NEW d \in Hit(C, from, upto),
           Cardinality(SonsBefore(Hit(C, from, upto), c)) = Cardinality(SonsBefore(Hit(C, from, upto), d))
    PROVE  c = d
<1> DEFINE H == Hit(C, from, upto)
<1>1. \A a \in H : /\ IsFiniteSet(SonsBefore(H, a)) /\ Cardinality(SonsBefore(H, a)) \in Nat
                   /\ SonOf(1, 1, a) \notin SonsBefore(H, a)
  BY HitFinite
<1>2. \A a \in H : a.place \in Nat
  BY HitIs
<1>3. \A a, b \in H : a.place = b.place => a = b
  BY HitApart
<1>4. c \in H /\ d \in H /\ Cardinality(SonsBefore(H, c)) = Cardinality(SonsBefore(H, d))
  OBVIOUS
<1> HIDE DEF H
<1>5. ASSUME NEW a \in H, NEW b \in H, a.place < b.place
      PROVE  Cardinality(SonsBefore(H, a)) # Cardinality(SonsBefore(H, b))
  <2>1. SonsBefore(H, a) \subseteq SonsBefore(H, b)
    <3>1. \A x \in H : x.place < a.place => x.place < b.place
      BY <1>2, <1>5
    <3> QED  BY <3>1 DEF SonsBefore, HitSons
  <2>2. SonOf(1, 1, a) \in SonsBefore(H, b)
    BY <1>5 DEF SonsBefore, HitSons
  <2>3. SonsBefore(H, a) # SonsBefore(H, b)
    BY <1>1, <2>2
  <2> QED  BY <1>1, <2>1, <2>3, FS_Subset
<1>6. ~(c.place < d.place) /\ ~(d.place < c.place)
  BY <1>4, <1>5
<1>7. c.place = d.place
  BY <1>2, <1>4, <1>6
<1> QED  BY <1>3, <1>4, <1>7

LEMMA SpanIs ==
    ASSUME NEW C, NEW T, NEW L, Says(C, T, L), Rooted(1, 1, C),
           NEW from \in Digit, NEW upto \in Digit, from < upto,
           upto <= Len(T) + 1, NEW c \in Hit(C, from, upto)
    PROVE  LET span == context2span(Tree(1, 1, C), SonOf(1, 1, c), At(1, from), At(1, upto))
           IN  /\ span.isa = At(c.type, c.first + (Begin(c, from) - c.place))
               /\ span.len = Finish(c, upto) - Begin(c, from)
<1> DEFINE o == Tree(1, 1, C)
           son == SonOf(1, 1, c)
           p == c.place
           e == c.place + c.len
<1>1. /\ c \in Crum /\ c.space = 1 /\ p \in Nat /\ p > 0 /\ c.len \in Nat /\ c.len > 0
      /\ c.first \in Nat /\ c.first > 0 /\ Behind(1, 1, c.space, c.place)
      /\ p < upto /\ from < e
  BY HitIs
<1>2. /\ o.apex = At(1, 1) /\ 1 \in Space /\ 1 \in Digit /\ from \in Nat /\ from > 0 /\ upto \in Nat
      /\ p \in Digit /\ e \in Digit /\ e \in Nat /\ c.first \in Digit /\ c.len \in Digit /\ c.type \in Digit
      /\ son.isa = At(c.type, c.first) /\ son.len = c.len
  <2>1. c.type \in Digit
    BY <1>1, CrumType
  <2> QED  BY <1>1, <2>1 DEF Tree, Space, Digit, SonOf
<1> HIDE DEF o
<1>3. Grasp(o, son) = At(1, p) /\ Reach(o, son) = At(1, e)
  BY <1>1, <1>2, SonIs
<1> HIDE DEF son, p, e
<1>4. /\ tumblercmp(At(1, p), At(1, from)) = LESS <=> p < from
      /\ tumblercmp(At(1, e), At(1, upto)) = GREATER <=> upto < e
  <2>1. LET r == tumblercmp(At(1, p), At(1, from)) IN r = LESS <=> 1 < 1 \/ (1 = 1 /\ p < from)
    BY <1>2, CmpAt
  <2>2. LET r == tumblercmp(At(1, e), At(1, upto)) IN r = GREATER <=> 1 < 1 \/ (1 = 1 /\ upto < e)
    BY <1>2, CmpAt
  <2> QED  BY <2>1, <2>2
<1> DEFINE skipped == IF tumblercmp(Grasp(o, son), At(1, from)) = LESS
                      THEN tumblerintdiff(At(1, from), Grasp(o, son)) ELSE 0
           beyond == IF tumblercmp(Reach(o, son), At(1, upto)) = GREATER
                     THEN tumblerintdiff(Reach(o, son), At(1, upto)) ELSE 0
<1>5. context2span(o, son, At(1, from), At(1, upto)) =
          [isa |-> tumblerincrement(son.isa, 0, skipped), len |-> son.len - beyond - skipped]
  BY DEF context2span
<1>6. skipped = IF p < from THEN from - p ELSE 0
  <2>1. p < from => tumblerintdiff(At(1, from), At(1, p)) = from - p
    BY <1>2, DiffAt
  <2> QED  BY <1>3, <1>4, <2>1
<1>7. beyond = IF upto < e THEN e - upto ELSE 0
  <2>1. upto < e => tumblerintdiff(At(1, e), At(1, upto)) = e - upto
    BY <1>2, DiffAt
  <2> QED  BY <1>3, <1>4, <2>1
<1> HIDE DEF skipped, beyond
<1>8. skipped \in Nat /\ skipped = Begin(c, from) - p
  BY <1>1, <1>2, <1>6 DEF Begin, p
<1>9. tumblerincrement(son.isa, 0, skipped) = At(c.type, c.first + skipped)
  <2>1. ASSUME NEW y \in Digit, NEW f \in Digit
        PROVE  tumblerincrement(At(y, f), 0, skipped) = At(y, f + skipped)
    BY <1>8, IsaMore
  <2>2. tumblerincrement(At(c.type, c.first), 0, skipped) = At(c.type, c.first + skipped)
    BY <1>2, <2>1
  <2> QED  BY <1>2, <2>2
<1>10. son.len - beyond - skipped = Finish(c, upto) - Begin(c, from)
  <2>1. Finish(c, upto) = e - beyond /\ beyond \in Nat
    BY <1>2, <1>7 DEF Finish, e
  <2>2. Begin(c, from) = p + skipped
    BY <1>1, <1>2, <1>6 DEF Begin, p
  <2>3. e = p + c.len
    BY DEF e, p
  <2> DEFINE l == c.len
  <2>4. son.len = l /\ l \in Nat /\ e = p + l
    BY <1>1, <1>2, <2>3
  <2> HIDE DEF l
  <2>5. l - beyond - skipped = (e - beyond) - (p + skipped)
    BY <1>1, <1>8, <2>1, <2>4
  <2> QED  BY <2>1, <2>2, <2>4, <2>5
<1>11. /\ context2span(o, son, At(1, from), At(1, upto)).isa = At(c.type, c.first + (Begin(c, from) - c.place))
       /\ context2span(o, son, At(1, from), At(1, upto)).len = Finish(c, upto) - Begin(c, from)
  <2> DEFINE a == tumblerincrement(son.isa, 0, skipped)
             l == son.len - beyond - skipped
  <2>1. a = At(c.type, c.first + (Begin(c, from) - c.place)) /\ l = Finish(c, upto) - Begin(c, from)
    BY <1>8, <1>9, <1>10 DEF p
  <2>2. context2span(o, son, At(1, from), At(1, upto)) = [isa |-> a, len |-> l]
    BY <1>5
  <2> HIDE DEF a, l
  <2> QED  BY <2>1, <2>2
<1> QED  BY <1>11 DEF o, son

\* The crums found, in their order.
Ranked(g, H, from, upto) ==
    LET n == Cardinality(HitSons(H))
    IN  /\ n \in Nat /\ n > 0 /\ g \in [1..n -> H]
        /\ \A i \in 1..n : \A c \in H : Cardinality(SonsBefore(H, c)) = i - 1 <=> c = g[i]
        /\ Begin(g[1], from) = from
        /\ \A i \in 2..n : Begin(g[i], from) = Finish(g[i - 1], upto)
        /\ Finish(g[n], upto) = upto

LEMMA RankedExist ==
    ASSUME NEW C, NEW T, NEW L, Says(C, T, L), NEW from \in Digit, NEW upto \in Digit, from < upto,
           upto <= Len(T) + 1
    PROVE  \E g : Ranked(g, Hit(C, from, upto), from, upto)
<1> DEFINE H == Hit(C, from, upto)
           n == Cardinality(HitSons(H))
           rank(c) == Cardinality(SonsBefore(H, c))
           Is(c, i) == c \in H /\ rank(c) = i - 1
<1>1. /\ IsFiniteSet(HitSons(H)) /\ n \in Nat
      /\ \A c \in H : /\ IsFiniteSet(SonsBefore(H, c)) /\ rank(c) \in Nat
                      /\ SonsBefore(H, c) \subseteq HitSons(H)
                      /\ SonOf(1, 1, c) \in HitSons(H) /\ SonOf(1, 1, c) \notin SonsBefore(H, c)
  BY HitFinite
<1>2. \A c, d \in H : rank(c) = rank(d) => c = d
  BY SameRank
<1>3. PICK c1 \in H : Begin(c1, from) = from /\ SonsBefore(H, c1) = {}
  BY HitFirst
<1>4. \A c \in H : \/ /\ Finish(c, upto) = upto
                      /\ HitSons(H) = SonsBefore(H, c) \union {SonOf(1, 1, c)}
                   \/ \E d \in H : /\ Begin(d, from) = Finish(c, upto)
                                   /\ SonsBefore(H, d) = SonsBefore(H, c) \union {SonOf(1, 1, c)}
  BY HitNext
<1> HIDE DEF H, n, rank
<1>5. ASSUME NEW c \in H
      PROVE  Cardinality(SonsBefore(H, c) \union {SonOf(1, 1, c)}) = rank(c) + 1
  BY <1>1, FS_AddElement DEF rank
<1>6. ASSUME NEW c \in H
      PROVE  rank(c) < n
  <2>1. SonsBefore(H, c) \union {SonOf(1, 1, c)} \subseteq HitSons(H)
    BY <1>1
  <2>2. Cardinality(SonsBefore(H, c) \union {SonOf(1, 1, c)}) <= n
    BY <1>1, <2>1, FS_Subset DEF n
  <2> QED  BY <1>1, <1>5, <2>2
<1>7. ASSUME NEW c \in H
      PROVE  \/ Finish(c, upto) = upto /\ n = rank(c) + 1
             \/ \E d \in H : Begin(d, from) = Finish(c, upto) /\ rank(d) = rank(c) + 1
  BY <1>4, <1>5 DEF n, rank
<1>8. rank(c1) = 0
  BY <1>3, FS_EmptySet DEF rank
<1>9. n > 0
  BY <1>1, <1>3, <1>6, <1>8
<1>10. \A i \in 1..n : \E c \in H : rank(c) = i - 1
  <2> DEFINE X == {i \in 1..n : ~\E c \in H : rank(c) = i - 1}
  <2>1. SUFFICES ASSUME X # {} PROVE FALSE
    OBVIOUS
  <2>2. X \in SUBSET Nat
    BY <1>1
  <2> DEFINE i == Min(X)
  <2>3. i \in X /\ \A j \in X : i <= j
    BY <2>1, <2>2, MinIs
  <2> HIDE DEF i
  <2>4. i \in Nat /\ i >= 1 /\ i <= n /\ ~\E c \in H : rank(c) = i - 1
    BY <1>1, <2>3
  <2>5. i # 1
    <3>1. rank(c1) = 1 - 1
      BY <1>8
    <3> QED  BY <1>3, <2>4, <3>1
  <2>6. i - 1 \in 1..n /\ i - 1 \notin X
    <3>1. i - 1 \in 1..n /\ ~(i <= i - 1)
      BY <1>1, <2>4, <2>5
    <3> QED  BY <2>3, <3>1
  <2>7. PICK c \in H : rank(c) = (i - 1) - 1
    BY <2>6
  <2>8. rank(c) + 1 = i - 1 /\ rank(c) + 1 # n
    BY <1>1, <2>4, <2>7
  <2>9. \E d \in H : rank(d) = rank(c) + 1
    BY <1>7, <2>8
  <2> QED  BY <2>4, <2>8, <2>9
<1> DEFINE g == [i \in 1..n |-> CHOOSE c \in H : rank(c) = i - 1]
<1>11. \A i \in 1..n : g[i] \in H /\ rank(g[i]) = i - 1
  BY <1>10
<1>12. g \in [1..n -> H]
  BY <1>11
<1> HIDE DEF g
<1>13. \A i \in 1..n : \A c \in H : rank(c) = i - 1 <=> c = g[i]
  BY <1>2, <1>11
<1>14. Begin(g[1], from) = from
  <2>1. 1 \in 1..n /\ rank(c1) = 1 - 1
    BY <1>1, <1>8, <1>9
  <2>2. c1 = g[1]
    BY <1>3, <1>13, <2>1
  <2> QED  BY <1>3, <2>2
<1>15. ASSUME NEW i \in 2..n
       PROVE  Begin(g[i], from) = Finish(g[i - 1], upto)
  <2>1. i - 1 \in 1..n /\ i \in 1..n /\ i \in Nat /\ i <= n
    BY <1>1
  <2>2. g[i - 1] \in H /\ rank(g[i - 1]) = (i - 1) - 1
    BY <1>11, <2>1
  <2>3. rank(g[i - 1]) + 1 = i - 1 /\ rank(g[i - 1]) + 1 # n
    BY <1>1, <2>1, <2>2
  <2>4. PICK d \in H : Begin(d, from) = Finish(g[i - 1], upto) /\ rank(d) = rank(g[i - 1]) + 1
    BY <1>7, <2>2, <2>3
  <2>5. d = g[i]
    BY <1>13, <2>1, <2>3, <2>4
  <2> QED  BY <2>4, <2>5
<1>16. Finish(g[n], upto) = upto
  <2>1. n \in 1..n
    BY <1>1, <1>9
  <2>2. g[n] \in H /\ rank(g[n]) = n - 1
    BY <1>11, <2>1
  <2>3. ~\E d \in H : rank(d) = rank(g[n]) + 1
    <3>1. SUFFICES ASSUME NEW d \in H, rank(d) = rank(g[n]) + 1 PROVE FALSE
      OBVIOUS
    <3>2. rank(d) < n /\ rank(d) = n
      BY <1>1, <1>6, <2>2, <3>1
    <3> QED  BY <1>1, <3>2
  <2> QED  BY <1>7, <2>2, <2>3
<1>17. Ranked(g, H, from, upto)
  BY <1>1, <1>9, <1>12, <1>13, <1>14, <1>15, <1>16 DEF Ranked, n, rank
<1> QED  BY <1>17 DEF H

LEMMA FoundSpans ==
    ASSUME NEW C, NEW T, NEW L, Says(C, T, L), Rooted(1, 1, C),
           NEW from \in Digit, NEW upto \in Digit, from < upto, upto <= Len(T) + 1,
           NEW g, Ranked(g, Hit(C, from, upto), from, upto)
    PROVE  LET spans == vspanset2ispanset(Tree(1, 1, C), At(1, from), At(1, upto))
               n == Cardinality(HitSons(Hit(C, from, upto)))
           IN  /\ DOMAIN spans = 1..n /\ Len(spans) = n
               /\ \A i \in 1..n :
                     /\ spans[i].isa = At(g[i].type, g[i].first + (Begin(g[i], from) - g[i].place))
                     /\ spans[i].len = Finish(g[i], upto) - Begin(g[i], from)
<1> DEFINE o == Tree(1, 1, C)
           H == Hit(C, from, upto)
           S == HitSons(H)
           n == Cardinality(S)
           lower == At(1, from)
           upper == At(1, upto)
           spans == vspanset2ispanset(o, lower, upper)
           context(i) == CHOOSE son \in Found(o, lower, upper) :
                             Cardinality(FoundBefore(o, Found(o, lower, upper), son)) = i - 1
<1>1. Found(o, lower, upper) = S /\ \A c \in H : FoundBefore(o, S, SonOf(1, 1, c)) = SonsBefore(H, c)
  BY FoundAre
<1>2. /\ n \in Nat /\ n > 0 /\ g \in [1..n -> H]
      /\ \A i \in 1..n : \A c \in H : Cardinality(SonsBefore(H, c)) = i - 1 <=> c = g[i]
  BY DEF Ranked
<1>3. spans = [i \in 1..Cardinality(Found(o, lower, upper)) |-> context2span(o, context(i), lower, upper)]
  BY DEF vspanset2ispanset, Found, FoundBefore
<1>4. \A i \in 1..n : /\ context2span(o, SonOf(1, 1, g[i]), lower, upper).isa =
                              At(g[i].type, g[i].first + (Begin(g[i], from) - g[i].place))
                      /\ context2span(o, SonOf(1, 1, g[i]), lower, upper).len =
                              Finish(g[i], upto) - Begin(g[i], from)
  BY <1>2, SpanIs
<1> HIDE DEF o, H, lower, upper, spans
<1>5. ASSUME NEW i \in 1..n
      PROVE  context(i) = SonOf(1, 1, g[i])
  <2> DEFINE P(son) == Cardinality(FoundBefore(o, S, son)) = i - 1
  <2>1. \A c \in H : P(SonOf(1, 1, c)) <=> c = g[i]
    BY <1>1, <1>2
  <2>2. context(i) = CHOOSE son \in S : P(son)
    BY <1>1
  <2>3. g[i] \in H /\ SonOf(1, 1, g[i]) \in S /\ \A son \in S : \E c \in H : son = SonOf(1, 1, c)
    BY <1>2 DEF HitSons
  <2> HIDE DEF P, S
  <2>4. \E son \in S : P(son)
    BY <2>1, <2>3
  <2>5. (CHOOSE son \in S : P(son)) \in S /\ P(CHOOSE son \in S : P(son))
    BY <2>4
  <2> DEFINE x == CHOOSE son \in S : P(son)
  <2> HIDE DEF x
  <2>6. x \in S /\ P(x)
    BY <2>5 DEF x
  <2>7. x = SonOf(1, 1, g[i])
    BY <2>1, <2>3, <2>6
  <2> QED  BY <2>2, <2>7 DEF x
<1> HIDE DEF context
<1>6. spans = [i \in 1..n |-> context2span(o, context(i), lower, upper)]
  BY <1>1, <1>3
<1> HIDE DEF S, n
<1>7. DOMAIN spans = 1..n /\ \A i \in 1..n : spans[i] = context2span(o, SonOf(1, 1, g[i]), lower, upper)
  BY <1>5, <1>6
<1>8. spans \in Seq({spans[i] : i \in 1..n})
  <2>1. spans = [i \in 1..n |-> spans[i]]
    BY <1>6
  <2> QED  BY <1>2, <2>1
<1>9. Len(spans) = n
  BY <1>2, <1>7, <1>8
<1> QED  BY <1>4, <1>7, <1>9 DEF o, H, S, n, lower, upper, spans

\* What is copied.
Copied(T, from, upto) == [j \in 1..(upto - from) |-> T[(from - 1) + j]]

LEMMA CopiedIs ==
    ASSUME NEW T \in Seq(Digit), NEW from \in Digit, NEW upto \in Digit, from < upto,
           upto <= Len(T) + 1
    PROVE  /\ Copied(T, from, upto) \in Seq(Digit) /\ Len(Copied(T, from, upto)) = upto - from
           /\ \A j \in 1..(upto - from) : Copied(T, from, upto)[j] = T[(from - 1) + j]
<1> DEFINE V == Copied(T, from, upto)
           k == upto - from
<1>1. from \in Nat /\ from > 0 /\ upto \in Nat /\ k \in Nat /\ Len(T) \in Nat
  BY DEF Digit
<1>2. V = [j \in 1..k |-> T[(from - 1) + j]]
  BY DEF Copied
<1>3. \A j \in 1..k : T[(from - 1) + j] \in Digit
  <2>1. ASSUME NEW j \in 1..k PROVE T[(from - 1) + j] \in Digit
    <3>1. (from - 1) + j \in 1..Len(T)
      BY <1>1
    <3> QED  BY <3>1
  <2> QED  BY <2>1
<1> HIDE DEF V
<1>4. V \in [1..k -> Digit]
  BY <1>2, <1>3
<1> HIDE DEF k
<1>5. V \in Seq(Digit) /\ Len(V) = k
  BY <1>1, <1>4
<1> QED  BY <1>2, <1>5 DEF V, k

LEMMA CopyLaid ==
    ASSUME NEW C, NEW T, NEW L, Says(C, T, L), Rooted(1, 1, C),
           NEW from \in Digit, NEW upto \in Digit, from < upto, upto <= Len(T) + 1
    PROVE  \E w, Y, F : Laid(vspanset2ispanset(Tree(1, 1, C), At(1, from), At(1, upto)),
                             Copied(T, from, upto), w, Y, F)
<1> DEFINE H == Hit(C, from, upto)
           n == Cardinality(HitSons(H))
           spans == vspanset2ispanset(Tree(1, 1, C), At(1, from), At(1, upto))
           V == Copied(T, from, upto)
<1>1. T \in Seq(Digit) /\ Len(T) \in Nat
  <2>1. T \in Seq(Digit)
    BY DEF Says
  <2> QED  BY <2>1
<1>2. from \in Nat /\ from > 0 /\ upto \in Nat
  BY DEF Digit
<1>3. PICK g : Ranked(g, H, from, upto)
  BY RankedExist
<1>4. /\ DOMAIN spans = 1..n /\ Len(spans) = n
      /\ \A i \in 1..n :
                     /\ spans[i].isa = At(g[i].type, g[i].first + (Begin(g[i], from) - g[i].place))
                     /\ spans[i].len = Finish(g[i], upto) - Begin(g[i], from)
  BY <1>3, FoundSpans
<1>5. /\ n \in Nat /\ n > 0 /\ g \in [1..n -> H]
      /\ Begin(g[1], from) = from
      /\ \A i \in 2..n : Begin(g[i], from) = Finish(g[i - 1], upto)
      /\ Finish(g[n], upto) = upto
  BY <1>3 DEF Ranked
<1>6. V \in Seq(Digit) /\ Len(V) = upto - from
      /\ \A j \in 1..(upto - from) : V[j] = T[(from - 1) + j]
  BY <1>1, CopiedIs
<1> HIDE DEF V, spans
<1> DEFINE b(i) == Begin(g[i], from)
           e(i) == Finish(g[i], upto)
           w == [i \in 0..n |-> IF i = 0 THEN 0 ELSE e(i) - from]
           Y == [i \in 1..n |-> g[i].type]
           F == [i \in 1..n |-> g[i].first + (b(i) - g[i].place)]
<1>7. ASSUME NEW i \in 1..n
      PROVE  /\ g[i] \in C /\ g[i].space = 1 /\ g[i].type \in Digit
             /\ g[i].place \in Nat /\ g[i].first \in Nat /\ g[i].first > 0 /\ g[i].place > 0 /\ g[i].len \in Nat
             /\ b(i) \in Nat /\ e(i) \in Nat /\ g[i].place <= b(i) /\ from <= b(i) /\ b(i) < e(i)
             /\ e(i) <= g[i].place + g[i].len /\ e(i) <= upto
             /\ \A q \in Digit : On(g[i], 1, q) <=> g[i].place <= q /\ q < g[i].place + g[i].len
  <2>1. g[i] \in H
    BY <1>5
  <2> DEFINE c == g[i]
  <2> HIDE DEF c
  <2>2. c \in H
    BY <2>1 DEF c
  <2>3. /\ c \in C /\ c \in Crum /\ c.space = 1
        /\ c.place \in Nat /\ c.place > 0 /\ c.len \in Nat /\ c.len > 0 /\ c.first \in Nat /\ c.first > 0
        /\ Begin(c, from) \in Nat /\ Finish(c, upto) \in Nat
        /\ c.place <= Begin(c, from) /\ from <= Begin(c, from) /\ Begin(c, from) < Finish(c, upto)
        /\ Finish(c, upto) <= c.place + c.len /\ Finish(c, upto) <= upto
        /\ \A q \in Digit : On(c, 1, q) <=> c.place <= q /\ q < c.place + c.len
    BY <2>2, HitIs
  <2>4. c.type \in Digit
    BY <2>3, CrumType
  <2> QED  BY <2>3, <2>4 DEF c
<1> HIDE DEF H, n
<1>8. /\ w[0] = 0 /\ \A i \in 1..n : w[i] = e(i) - from /\ w[i] \in Nat /\ w[i] \in 0..(upto - from)
  <2>1. w[0] = 0
    BY <1>5
  <2>2. \A i \in 1..n : w[i] = e(i) - from
    BY <1>5
  <2> HIDE DEF w
  <2>3. ASSUME NEW i \in 1..n PROVE w[i] \in Nat /\ w[i] \in 0..(upto - from)
    <3>1. b(i) \in Nat /\ e(i) \in Nat /\ from <= b(i) /\ b(i) < e(i) /\ e(i) <= upto
      BY <1>7
    <3> HIDE DEF b, e
    <3> QED  BY <1>2, <2>2, <3>1
  <2> QED  BY <2>1, <2>2, <2>3
<1>9. w \in [0..n -> 0..Len(V)]
  <2>2. w = [i \in 0..n |-> w[i]]
    OBVIOUS
  <2> HIDE DEF w
  <2>1. ASSUME NEW i \in 0..n PROVE w[i] \in 0..Len(V)
    <3>1. i = 0 \/ i \in 1..n
      BY <1>5
    <3>2. 0 \in 0..(upto - from)
      BY <1>2
    <3>3. w[i] \in 0..(upto - from)
      BY <1>8, <3>1, <3>2
    <3> QED  BY <1>6, <3>3
  <2> QED  BY <2>1, <2>2
<1>10. w[n] = Len(V)
  <2>1. n \in 1..n
    BY <1>5
  <2> HIDE DEF w
  <2> QED  BY <1>5, <1>6, <1>8, <2>1
<1>11. \A i \in 1..n : Y[i] = g[i].type /\ F[i] = g[i].first + (b(i) - g[i].place)
  OBVIOUS
<1> HIDE DEF w
<1>12. ASSUME NEW i \in 1..n
       PROVE  w[i - 1] = b(i) - from
  <2>1. CASE i = 1
    <3>1. w[i - 1] = 0
      BY <1>8, <2>1
    <3> QED  BY <1>2, <1>5, <2>1, <3>1
  <2>2. CASE i # 1
    <3>1. i \in 2..n /\ i - 1 \in 1..n
      BY <1>5, <2>2
    <3>2. w[i - 1] = e(i - 1) - from
      BY <1>8, <3>1
    <3> QED  BY <1>5, <3>1, <3>2
  <2> QED  BY <2>1, <2>2
<1>13. ASSUME NEW i \in 1..n
       PROVE  /\ Y[i] \in Digit /\ F[i] \in Digit
              /\ spans[i].isa = At(Y[i], F[i]) /\ spans[i].len \in Digit
              /\ w[i] = w[i - 1] + spans[i].len
              /\ \A j \in 1..spans[i].len : V[w[i - 1] + j] = F[i] + (j - 1)
  <2> DEFINE c == g[i]
             s == b(i)
             t == e(i)
             l == spans[i].len
  <2>1. /\ c \in C /\ c.space = 1 /\ c.type \in Digit
        /\ c.place \in Nat /\ c.first \in Nat /\ c.first > 0 /\ c.place > 0 /\ c.len \in Nat
        /\ s \in Nat /\ t \in Nat /\ c.place <= s /\ from <= s /\ s < t
        /\ t <= c.place + c.len /\ t <= upto
        /\ \A q \in Digit : On(c, 1, q) <=> c.place <= q /\ q < c.place + c.len
    BY <1>7
  <2>2. Y[i] = c.type /\ F[i] = c.first + (s - c.place) /\ spans[i].isa = At(Y[i], F[i]) /\ l = t - s
    BY <1>4
  <2>3. w[i] = t - from /\ w[i - 1] = s - from
    BY <1>8, <1>12
  <2> HIDE DEF c, s, t, l, Y, F
  <2>4. F[i] \in Digit /\ Y[i] \in Digit /\ l \in Digit /\ l \in Nat
    BY <2>1, <2>2, SMTT(30) DEF Digit
  <2>5. w[i] = w[i - 1] + l
    BY <1>2, <2>1, <2>2, <2>3
  <2>6. ASSUME NEW j \in 1..l
        PROVE  V[w[i - 1] + j] = F[i] + (j - 1)
    <3> DEFINE k == w[i - 1]
               q == s + (j - 1)
               x == k + j
               a == c.place
               b1 == c.len
               f == c.first
    <3>0. /\ a \in Nat /\ b1 \in Nat /\ f \in Nat /\ a <= s /\ t <= a + b1 /\ k = s - from
          /\ F[i] = f + (s - a) /\ a > 0
      BY <2>1, <2>2, <2>3
    <3> HIDE DEF k, a, b1, f
    <3>5. j \in Nat /\ 1 <= j /\ j <= t - s
      BY <2>2, <2>4
    <3>6. q \in Nat /\ q > 0 /\ a <= q /\ q < a + b1
      BY <2>1, <3>0, <3>5
    <3>7. x \in 1..(upto - from) /\ (from - 1) + x = q
      BY <1>2, <2>1, <3>0, <3>5
    <3>1. /\ q \in Nat /\ q > 0 /\ q \in Digit /\ c.place <= q /\ q < c.place + c.len
          /\ x \in 1..(upto - from) /\ (from - 1) + x = q /\ j \in Nat
      BY <3>5, <3>6, <3>7 DEF Digit, a, b1
    <3>8. f + (q - a) = F[i] + (j - 1)
      BY <2>1, <3>0, <3>5
    <3> HIDE DEF q, x
    <3>2. T[q] = c.first + (q - c.place)
      BY <2>1, <3>1, SaysOn
    <3>3. V[x] = T[q]
      BY <1>6, <3>1
    <3>4. c.first + (q - c.place) = F[i] + (j - 1)
      BY <3>8 DEF f, a, q
    <3> QED  BY <3>2, <3>3, <3>4 DEF x, k
  <2> QED  BY <2>2, <2>4, <2>5, <2>6 DEF l
<1>14. Y \in [1..n -> Digit] /\ F \in [1..n -> Digit]
  <2>1. Y = [i \in 1..n |-> Y[i]] /\ F = [i \in 1..n |-> F[i]]
    OBVIOUS
  <2> HIDE DEF Y, F
  <2> QED  BY <1>13, <2>1
<1> HIDE DEF Y, F
<1>15. Laid(spans, V, w, Y, F)
  BY <1>4, <1>5, <1>6, <1>8, <1>9, <1>10, <1>13, <1>14 DEF Laid
<1> QED  BY <1>15 DEF spans, V

LEMMA CopyText ==
    ASSUME NEW o, NEW C, NEW T, NEW L, Fine(o, C), Says(C, T, L), NEW p \in 1..(Len(T) + 1),
           NEW from \in Digit, NEW upto \in Digit, from < upto, upto <= Len(T) + 1,
           NEW r \in insertpm(o, At(1, p), vspanset2ispanset(o, At(1, from), At(1, upto)))
    PROVE  \E D : Fine(r, D) /\ Says(D, Inlaid(T, p, Copied(T, from, upto), upto - from), L)
<1> DEFINE spans == vspanset2ispanset(o, At(1, from), At(1, upto))
           V == Copied(T, from, upto)
<1>1. T \in Seq(Digit)
  BY DEF Says
<1>2. Len(T) \in Nat /\ Len(T) # 0
  BY <1>1 DEF Digit
<1>3. Rooted(1, 1, C) /\ o = Tree(1, 1, C)
  BY <1>2, SaysApex
<1>4. PICK w, Y, F : Laid(spans, V, w, Y, F)
  BY <1>3, CopyLaid
<1>5. r \in insertpm(o, At(1, p), spans)
  OBVIOUS
<1>6. Len(V) = upto - from
  BY <1>1, CopiedIs
<1> HIDE DEF spans, V
<1>7. \E D : Fine(r, D) /\ Says(D, Inlaid(T, p, V, Len(V)), L)
  BY <1>4, <1>5, InsertpmText
<1> QED  BY <1>6, <1>7 DEF V

-----------------------------------------------------------------------------
(* What a document reads. *)

LEMMA TreeAtoms ==
    ASSUME NEW s, NEW m, NEW C, Rooted(s, m, C), NEW a
    PROVE  a \in Atoms(Tree(s, m, C)) <=>
               \E c \in C : \E k \in 0..(c.len - 1) :
                  a = [space |-> c.space, place |-> c.place + k, number |-> c.first + k]
<1> DEFINE o == Tree(s, m, C)
           of(son) == {[space |-> Grasp(o, son).mantissa[0],
                        place |-> lastdigitintumbler(Grasp(o, son)) + k,
                        number |-> lastdigitintumbler(son.isa) + k] : k \in 0..(son.len - 1)}
<1>1. Atoms(o) = UNION {of(son) : son \in o.sons}
  BY DEF Atoms
<1>2. o.apex = At(s, m) /\ o.sons = {SonOf(s, m, c) : c \in C} /\ s \in Space /\ m \in Digit
  BY DEF Tree, Rooted
<1> HIDE DEF o
<1>3. ASSUME NEW c \in C
      PROVE  a \in of(SonOf(s, m, c)) <=>
                 \E k \in 0..(c.len - 1) :
                    a = [space |-> c.space, place |-> c.place + k, number |-> c.first + k]
  <2>1. c \in Crum /\ Behind(s, m, c.space, c.place)
    BY DEF Rooted
  <2>2. Grasp(o, SonOf(s, m, c)) = At(c.space, c.place)
    BY <1>2, <2>1, SonIs
  <2>3. /\ SonOf(s, m, c).isa = At(c.type, c.first) /\ SonOf(s, m, c).len = c.len
    BY SonFields
  <2>4. c.space \in Digit /\ c.place \in Digit /\ c.type \in Digit /\ c.first \in Digit
    BY <2>1, CrumType
  <2>5. ASSUME NEW t \in Digit, NEW p \in Digit
        PROVE  At(t, p).mantissa[0] = t /\ lastdigitintumbler(At(t, p)) = p
    BY AtNumber, LastDigitAt
  <2>6. /\ Grasp(o, SonOf(s, m, c)).mantissa[0] = c.space
        /\ lastdigitintumbler(Grasp(o, SonOf(s, m, c))) = c.place
        /\ lastdigitintumbler(SonOf(s, m, c).isa) = c.first
    BY <2>2, <2>3, <2>4, <2>5
  <2>7. of(SonOf(s, m, c)) = {[space |-> c.space, place |-> c.place + k, number |-> c.first + k] :
                                  k \in 0..(c.len - 1)}
    BY <2>3, <2>6
  <2> HIDE DEF of
  <2> QED  BY <2>7
<1> HIDE DEF of
<1>4. a \in Atoms(o) <=> \E c \in C : a \in of(SonOf(s, m, c))
  BY <1>1, <1>2
<1>5. a \in Atoms(o) <=> \E c \in C : \E k \in 0..(c.len - 1) :
                  a = [space |-> c.space, place |-> c.place + k, number |-> c.first + k]
  BY <1>3, <1>4
<1> QED  BY <1>5 DEF o

LEMMA AtomsAre ==
    ASSUME NEW o, NEW C \in SUBSET Crum, Fine(o, C), NEW a
    PROVE  a \in Atoms(o) <=>
               \E u \in Space, q \in Digit, i \in Digit :
                  Has(C, u, q, i) /\ a = [space |-> u, place |-> q, number |-> i]
<1>1. a \in Atoms(o) <=>
               \E c \in C : \E k \in 0..(c.len - 1) :
                  a = [space |-> c.space, place |-> c.place + k, number |-> c.first + k]
  <2>1. CASE C = {} /\ o = EMPTY
    <3>1. Atoms(o) = {}
      BY <2>1 DEF Atoms, EMPTY
    <3> QED  BY <2>1, <3>1
  <2>2. CASE ~(C = {} /\ o = EMPTY)
    <3>1. PICK s \in Space, m \in Digit : Rooted(s, m, C) /\ o = Tree(s, m, C)
      BY <2>2 DEF Fine
    <3> QED  BY <3>1, TreeAtoms
  <2> QED  BY <2>1, <2>2
<1>2. \A c \in C : /\ c.space \in Space /\ c.place \in Nat /\ c.place > 0 /\ c.first \in Nat /\ c.first > 0
                   /\ c.len \in Nat /\ c.len > 0
  <2>1. ASSUME NEW c \in C
        PROVE  /\ c.space \in Space /\ c.place \in Nat /\ c.place > 0 /\ c.first \in Nat /\ c.first > 0
               /\ c.len \in Nat /\ c.len > 0
    <3>1. c \in Crum
      OBVIOUS
    <3> QED  BY <3>1, CrumType
  <2> QED  BY <2>1
<1>3. ASSUME NEW c \in C, NEW k \in 0..(c.len - 1),
             a = [space |-> c.space, place |-> c.place + k, number |-> c.first + k]
      PROVE  \E u \in Space, q \in Digit, i \in Digit :
                  Has(C, u, q, i) /\ a = [space |-> u, place |-> q, number |-> i]
  <2> DEFINE u == c.space
             q == c.place + k
             i == c.first + k
  <2>1. u \in Space /\ q \in Digit /\ i \in Digit /\ On(c, u, q) /\ i = c.first + (q - c.place)
    BY <1>2 DEF On, Digit
  <2>2. a = [space |-> u, place |-> q, number |-> i]
    BY <1>3
  <2> HIDE DEF u, q, i
  <2>3. Has(C, u, q, i)
    BY <2>1 DEF Has
  <2> QED  BY <2>1, <2>2, <2>3
<1>4. ASSUME NEW u \in Space, NEW q \in Digit, NEW i \in Digit, Has(C, u, q, i),
             a = [space |-> u, place |-> q, number |-> i]
      PROVE  \E c \in C : \E k \in 0..(c.len - 1) :
                  a = [space |-> c.space, place |-> c.place + k, number |-> c.first + k]
  <2>1. PICK c \in C : On(c, u, q) /\ i = c.first + (q - c.place)
    BY <1>4 DEF Has
  <2> DEFINE k == q - c.place
  <2>2. k \in 0..(c.len - 1) /\ u = c.space /\ q = c.place + k /\ i = c.first + k
    BY <1>2, <2>1 DEF On, Digit
  <2> HIDE DEF k
  <2>3. a = [space |-> c.space, place |-> c.place + k, number |-> c.first + k]
    BY <1>4, <2>2
  <2> QED  BY <2>2, <2>3
<1> QED  BY <1>1, <1>3, <1>4

LEMMA ReadsAre ==
    ASSUME NEW o, NEW C, NEW T, NEW L, Fine(o, C), Says(C, T, L)
    PROVE  /\ Reads(Atoms(o), 1) = T /\ Reads(Atoms(o), 2) = L
           /\ \A a, b \in Atoms(o) : a.space = b.space /\ a.place = b.place => a = b
<1>1. /\ C \in SUBSET Crum /\ T \in Seq(Digit) /\ Linked(L) /\ Len(T) \in Nat
      /\ \A q \in Digit, i \in Digit : Has(C, 1, q, i) <=> q \in 1..Len(T) /\ i = T[q]
      /\ \A q \in Digit, i \in Digit : Has(C, 2, q, i) <=> q \in DOMAIN L /\ i = L[q]
  BY DEF Says
<1>2. DOMAIN L \subseteq Digit /\ L \in [DOMAIN L -> Digit]
  BY <1>1 DEF Linked, Digit
<1>3. \A a : a \in Atoms(o) <=>
               \E u \in Space, q \in Digit, i \in Digit :
                  Has(C, u, q, i) /\ a = [space |-> u, place |-> q, number |-> i]
  BY <1>1, AtomsAre
<1> DEFINE A == Atoms(o)
           X == [u \in Space |-> IF u = 1 THEN T ELSE L]
<1>4. X[1] = T /\ X[2] = L /\ 1 \in Space /\ 2 \in Space /\ \A u \in Space : u = 1 \/ u = 2
  BY DEF Space
<1>5. 1..Len(T) \subseteq Digit /\ DOMAIN T = 1..Len(T) /\ \A q \in 1..Len(T) : T[q] \in Digit
  BY <1>1 DEF Digit
<1> HIDE DEF A, X
<1>6. \A u \in Space : \A q \in Digit, i \in Digit : Has(C, u, q, i) <=> q \in DOMAIN X[u] /\ i = X[u][q]
  BY <1>1, <1>4, <1>5
<1>7. \A u \in Space : DOMAIN X[u] \subseteq Digit /\ \A q \in DOMAIN X[u] : X[u][q] \in Digit
  BY <1>2, <1>4, <1>5
<1>8. \A a : a \in A <=> \E u \in Space : \E q \in DOMAIN X[u] :
                            a = [space |-> u, place |-> q, number |-> X[u][q]]
  <2>1. ASSUME NEW a \in A
        PROVE  \E u \in Space : \E q \in DOMAIN X[u] : a = [space |-> u, place |-> q, number |-> X[u][q]]
    <3>1. PICK u \in Space, q \in Digit, i \in Digit :
                  Has(C, u, q, i) /\ a = [space |-> u, place |-> q, number |-> i]
      BY <1>3 DEF A
    <3>2. q \in DOMAIN X[u] /\ i = X[u][q]
      BY <1>6, <3>1
    <3> QED  BY <3>1, <3>2
  <2>2. ASSUME NEW u \in Space, NEW q \in DOMAIN X[u], NEW a, a = [space |-> u, place |-> q, number |-> X[u][q]]
        PROVE  a \in A
    <3>1. q \in Digit /\ X[u][q] \in Digit
      BY <1>7
    <3>2. Has(C, u, q, X[u][q])
      BY <1>6, <3>1
    <3> QED  BY <1>3, <2>2, <3>1, <3>2 DEF A
  <2> QED  BY <2>1, <2>2
<1>9. \A a \in A : a.space \in Space /\ a.place \in DOMAIN X[a.space]
                   /\ a = [space |-> a.space, place |-> a.place, number |-> X[a.space][a.place]]
                   /\ a.number = X[a.space][a.place]
  BY <1>8
<1>10. \A a, b \in A : a.space = b.space /\ a.place = b.place => a = b
  BY <1>9
<1>11. ASSUME NEW u \in Space
       PROVE  Reads(A, u) = [q \in DOMAIN X[u] |-> X[u][q]]
  <2> DEFINE there == {a \in A : a.space = u}
             D == {a.place : a \in there}
             R == [p \in D |-> (CHOOSE a \in there : a.place = p).number]
  <2>1. Reads(A, u) = R
    BY DEF Reads
  <2>2. ASSUME NEW q \in DOMAIN X[u]
        PROVE  [space |-> u, place |-> q, number |-> X[u][q]] \in there
    BY <1>8
  <2>3. D = DOMAIN X[u]
    <3>1. \A q \in D : q \in DOMAIN X[u]
      BY <1>9
    <3>2. \A q \in DOMAIN X[u] : q \in D
      <4>1. ASSUME NEW q \in DOMAIN X[u]
            PROVE  q \in D
        <5> DEFINE a == [space |-> u, place |-> q, number |-> X[u][q]]
        <5>1. a \in there /\ a.place = q
          BY <2>2
        <5> HIDE DEF a, there
        <5> QED  BY <5>1
      <4> QED  BY <4>1
    <3> QED  BY <3>1, <3>2
  <2>4. ASSUME NEW q \in DOMAIN X[u]
        PROVE  (CHOOSE a \in there : a.place = q).number = X[u][q]
    <3> DEFINE x == CHOOSE a \in there : a.place = q
    <3>1. \E a \in there : a.place = q
      <4> DEFINE a == [space |-> u, place |-> q, number |-> X[u][q]]
      <4>1. a \in there /\ a.place = q
        BY <2>2
      <4> QED  BY <4>1
    <3>2. x \in there /\ x.place = q
      BY <3>1
    <3> HIDE DEF x
    <3>3. x \in A /\ x.space = u
      BY <3>2
    <3>4. x.number = X[u][q]
      BY <1>9, <3>2, <3>3
    <3> QED  BY <3>4 DEF x
  <2> HIDE DEF D, there
  <2>5. R = [q \in DOMAIN X[u] |-> X[u][q]]
    BY <2>3, <2>4
  <2> QED  BY <2>1, <2>5
<1>12. T = [q \in DOMAIN T |-> T[q]]
  BY <1>1, <1>5
<1>13. L = [q \in DOMAIN L |-> L[q]]
  BY <1>2
<1>14. Reads(A, 1) = T /\ Reads(A, 2) = L
  <2>1. Reads(A, 1) = [q \in DOMAIN X[1] |-> X[1][q]] /\ Reads(A, 2) = [q \in DOMAIN X[2] |-> X[2][q]]
    BY <1>4, <1>11
  <2> QED  BY <1>4, <1>12, <1>13, <2>1
<1> QED  BY <1>10, <1>14 DEF A

-----------------------------------------------------------------------------
(* What each request makes of the document. *)

\* Its crums say what it reads.
Held == \E C : Fine(orgl, C) /\ Says(C, text, links)

LEMMA BecomesIs ==
    ASSUME NEW S, NEW T, NEW L, Becomes(S), \A r \in S : \E D : Fine(r, D) /\ Says(D, T, L)
    PROVE  text' = T /\ links' = L /\ Held'
<1>1. PICK o \in S : orgl' = o /\ text' = Reads(Atoms(o), 1) /\ links' = Reads(Atoms(o), 2)
  BY DEF Becomes, TEXT, LINK
<1>2. PICK D : Fine(o, D) /\ Says(D, T, L)
  OBVIOUS
<1>3. text' = T /\ links' = L
  BY <1>1, <1>2, ReadsAre
<1>4. Held'
  BY <1>1, <1>2, <1>3 DEF Held
<1> QED  BY <1>3, <1>4

LEMMA HeldIs ==
    ASSUME Held
    PROVE  text \in Seq(Digit) /\ Linked(links) /\ Len(text) \in Nat
<1>1. text \in Seq(Digit) /\ Linked(links)
  BY DEF Held, Says
<1> QED  BY <1>1

LEMMA InsertStep ==
    ASSUME Held, made.char \in Nat, NEW p \in 1..(Len(text) + 1), NEW n \in Digit,
           Insert(At(1, p), n)
    PROVE  /\ text' = With(text, p, made.char + 1, n) /\ links' = links /\ Held'
           /\ made' = [made EXCEPT !.char = @ + n]
           /\ made.char + n <= MaxChars /\ Len(text) + n <= MaxText
<1> DEFINE f == made.char + 1
<1>1. PICK C : Fine(orgl, C) /\ Says(C, text, links)
  BY DEF Held
<1>2. 1 \in Digit /\ f \in Digit
  BY DEF Digit
<1>3. /\ Becomes(insertpm(orgl, At(1, p), <<[isa |-> At(1, f), len |-> n]>>))
      /\ made' = [made EXCEPT !.char = @ + n]
      /\ made.char + n <= MaxChars /\ Len(text) + n <= MaxText
  BY DEF Insert, AtomIsa, TEXT
<1> HIDE DEF f
<1> DEFINE S == insertnd(orgl, At(1, p), At(1, f), n)
<1>4. Becomes(S)
  BY <1>3, InsertpmOne
<1>5. \A r \in S : \E D : Fine(r, D) /\ Says(D, With(text, p, f, n), links)
  BY <1>1, <1>2, InsertText
<1> HIDE DEF S
<1>6. text' = With(text, p, f, n) /\ links' = links /\ Held'
  BY <1>4, <1>5, BecomesIs
<1> QED  BY <1>3, <1>6 DEF f

LEMMA AppendedStep ==
    ASSUME Held, NEW n, Appended(n)
    PROVE  Insert(At(1, Len(text) + 1), n) /\ Len(text) + 1 \in 1..(Len(text) + 1)
<1>1. PICK C : Fine(orgl, C) /\ Says(C, text, links)
  BY DEF Held
<1>2. findvsatoappend(orgl) = At(1, Len(text) + 1)
  BY <1>1, AppendIs
<1>3. Insert(At(1, Len(text) + 1), n)
  BY <1>2 DEF Appended
<1>4. Len(text) \in Nat
  BY HeldIs
<1> QED  BY <1>3, <1>4

LEMMA CopyStep ==
    ASSUME Held, NEW p \in 1..(Len(text) + 1), NEW from \in Digit, NEW upto \in 1..(Len(text) + 1),
           Copy(At(1, p), from, upto)
    PROVE  /\ from < upto /\ Len(text) + (upto - from) <= MaxText
           /\ text' = Inlaid(text, p, Copied(text, from, upto), upto - from)
           /\ links' = links /\ Held' /\ made' = made
<1> DEFINE S == insertpm(orgl, At(1, p), vspanset2ispanset(orgl, At(1, from), At(1, upto)))
           T == Inlaid(text, p, Copied(text, from, upto), upto - from)
<1>1. PICK C : Fine(orgl, C) /\ Says(C, text, links)
  BY DEF Held
<1>2. from < upto /\ Len(text) + (upto - from) <= MaxText /\ Becomes(S) /\ made' = made
  BY DEF Copy, TEXT
<1>3. upto \in Digit /\ upto <= Len(text) + 1
  BY HeldIs DEF Digit
<1>4. \A r \in S : \E D : Fine(r, D) /\ Says(D, T, links)
  BY <1>1, <1>2, <1>3, CopyText
<1> HIDE DEF S, T
<1>5. text' = T /\ links' = links /\ Held'
  BY <1>2, <1>4, BecomesIs
<1> QED  BY <1>2, <1>5 DEF T

LEMMA CreateLinkStep ==
    ASSUME Held, made.link \in Nat, CreateLink
    PROVE  /\ text' = text /\ links' = Linking(links, Top(links) + 1, made.link + 1) /\ Held'
           /\ made' = [made EXCEPT !.link = @ + 1] /\ made.link < MaxLinks
<1> DEFINE f == made.link + 1
           q == Top(links) + 1
<1>1. PICK C : Fine(orgl, C) /\ Says(C, text, links)
  BY DEF Held
<1>2. 2 \in Digit /\ f \in Digit
  BY DEF Digit
<1>3. findnextlinkvsa(orgl) = At(2, q)
  BY <1>1, NextLinkIs
<1>4. /\ Becomes(insertpm(orgl, At(2, q), <<[isa |-> At(2, f), len |-> 1]>>))
      /\ made' = [made EXCEPT !.link = @ + 1] /\ made.link < MaxLinks
  BY <1>3 DEF CreateLink, AtomIsa, LINK
<1> HIDE DEF f
<1> DEFINE S == insertnd(orgl, At(2, q), At(2, f), 1)
<1>5. Becomes(S)
  BY <1>4, InsertpmOne
<1>6. \A r \in S : \E D : Fine(r, D) /\ Says(D, text, Linking(links, q, f))
  BY <1>1, <1>2, InsertLink
<1> HIDE DEF S
<1>7. text' = text /\ links' = Linking(links, q, f) /\ Held'
  BY <1>5, <1>6, BecomesIs
<1> QED  BY <1>4, <1>7 DEF f

LEMMA DeleteTextStep ==
    ASSUME Held, NEW from \in Digit, NEW upto \in 1..(Len(text) + 1), Delete(1, from, upto)
    PROVE  /\ from < upto /\ text' = Without(text, from, upto - from)
           /\ links' = links /\ Held' /\ made' = made
<1> DEFINE n == upto - from
           d == deletend(orgl, At(1, from), Width(n))
           T == Without(text, from, n)
<1>1. PICK C : Fine(orgl, C) /\ Says(C, text, links)
  BY DEF Held
<1>2. from < upto /\ Becomes({d}) /\ made' = made
  BY DEF Delete
<1>3. n \in Digit /\ from + n <= Len(text) + 1
  BY <1>2, HeldIs DEF Digit
<1> HIDE DEF n
<1>4. \E E : Fine(d, E) /\ Says(E, T, links)
  BY <1>1, <1>3, DeleteText
<1> HIDE DEF d, T
<1>5. \A r \in {d} : \E E : Fine(r, E) /\ Says(E, T, links)
  BY <1>4
<1>6. text' = T /\ links' = links /\ Held'
  BY <1>2, <1>5, BecomesIs
<1> QED  BY <1>2, <1>6 DEF T, n

LEMMA DeleteLinksStep ==
    ASSUME Held, NEW from \in DOMAIN links, NEW upto \in Nat, Delete(2, from, upto)
    PROVE  /\ from < upto /\ text' = text /\ Held' /\ made' = made
           /\ links' = IF Len(text) = 0 THEN MovedUp(links, from, upto - from)
                       ELSE Unlinked(links, from, upto - from)
<1> DEFINE n == upto - from
           d == deletend(orgl, At(2, from), Width(n))
           L == IF Len(text) = 0 THEN MovedUp(links, from, n) ELSE Unlinked(links, from, n)
<1>1. PICK C : Fine(orgl, C) /\ Says(C, text, links)
  BY DEF Held
<1>2. from < upto /\ Becomes({d}) /\ made' = made
  BY DEF Delete
<1>3. n \in Digit
  <2>1. from \in Nat
    BY HeldIs DEF Linked
  <2> QED  BY <1>2, <2>1 DEF Digit
<1> HIDE DEF n
<1>4. \E E : Fine(d, E) /\ Says(E, text, L)
  BY <1>1, <1>3, DeleteLinks
<1> HIDE DEF d, L
<1>5. \A r \in {d} : \E E : Fine(r, E) /\ Says(E, text, L)
  BY <1>4
<1>6. text' = text /\ links' = L /\ Held'
  BY <1>2, <1>5, BecomesIs
<1> QED  BY <1>2, <1>6 DEF L, n

LEMMA PivotStep ==
    ASSUME Held, NEW c1 \in Digit, NEW c2 \in Digit, NEW c3 \in Digit,
           c1 < c2, c2 <= c3, c3 <= Len(text) + 1,
           Rearrange(<<At(TEXT, c1), At(TEXT, c2), At(TEXT, c3)>>)
    PROVE  /\ text' = Turned(text, c1, c2, c3) /\ links' = links /\ Held' /\ made' = made
<1> DEFINE d == rearrangend(orgl, <<At(1, c1), At(1, c2), At(1, c3)>>)
           T == Turned(text, c1, c2, c3)
<1>1. PICK C : Fine(orgl, C) /\ Says(C, text, links)
  BY DEF Held
<1>2. Becomes({d}) /\ made' = made
  BY DEF Rearrange, TEXT
<1>3. \E E : Fine(d, E) /\ Says(E, T, links)
  BY <1>1, PivotText
<1> HIDE DEF d, T
<1>4. \A r \in {d} : \E E : Fine(r, E) /\ Says(E, T, links)
  BY <1>3
<1>5. text' = T /\ links' = links /\ Held'
  BY <1>2, <1>4, BecomesIs
<1> QED  BY <1>2, <1>5 DEF T

LEMMA SwapStep ==
    ASSUME Held, NEW c1 \in Digit, NEW c2 \in Digit, NEW c3 \in Digit, NEW c4 \in Digit,
           c1 < c2, c2 <= c3, c4 - c3 = c2 - c1, c4 <= Len(text) + 1,
           Rearrange(<<At(TEXT, c1), At(TEXT, c2), At(TEXT, c3), At(TEXT, c4)>>)
    PROVE  /\ text' = Swapped(text, c1, c2, c3, c4) /\ links' = links /\ Held' /\ made' = made
<1> DEFINE d == rearrangend(orgl, <<At(1, c1), At(1, c2), At(1, c3), At(1, c4)>>)
           T == Swapped(text, c1, c2, c3, c4)
<1>1. PICK C : Fine(orgl, C) /\ Says(C, text, links)
  BY DEF Held
<1>2. Becomes({d}) /\ made' = made
  BY DEF Rearrange, TEXT
<1>3. \E E : Fine(d, E) /\ Says(E, T, links)
  BY <1>1, SwapText
<1> HIDE DEF d, T
<1>4. \A r \in {d} : \E E : Fine(r, E) /\ Says(E, T, links)
  BY <1>3
<1>5. text' = T /\ links' = links /\ Held'
  BY <1>2, <1>4, BecomesIs
<1> QED  BY <1>2, <1>5 DEF T

-----------------------------------------------------------------------------
(* What a step makes of the document. *)

DidInsert ==
    \E p \in 1..(Len(text) + 1), n \in Digit :
        /\ text' = With(text, p, made.char + 1, n) /\ links' = links
        /\ made' = [made EXCEPT !.char = @ + n]
        /\ made.char + n <= MaxChars /\ Len(text) + n <= MaxText

DidCopy ==
    \E p, upto \in 1..(Len(text) + 1), from \in Digit :
        /\ from < upto /\ Len(text) + (upto - from) <= MaxText
        /\ text' = Inlaid(text, p, Copied(text, from, upto), upto - from)
        /\ links' = links /\ made' = made

DidLink ==
    /\ text' = text /\ links' = Linking(links, Top(links) + 1, made.link + 1)
    /\ made' = [made EXCEPT !.link = @ + 1] /\ made.link < MaxLinks

DidDelete ==
    \E from \in Digit, upto \in 1..(Len(text) + 1) :
        /\ from < upto /\ text' = Without(text, from, upto - from)
        /\ links' = links /\ made' = made

DidUnlink ==
    \E from \in DOMAIN links, upto \in Nat :
        /\ from < upto /\ text' = text /\ made' = made
        /\ links' = IF Len(text) = 0 THEN MovedUp(links, from, upto - from)
                    ELSE Unlinked(links, from, upto - from)

DidPivot ==
    \E c1, c2, c3 \in Digit :
        /\ c1 < c2 /\ c2 <= c3 /\ c3 <= Len(text) + 1
        /\ text' = Turned(text, c1, c2, c3) /\ links' = links /\ made' = made

DidSwap ==
    \E c1, c2, c3, c4 \in Digit :
        /\ c1 < c2 /\ c2 <= c3 /\ c4 - c3 = c2 - c1 /\ c4 <= Len(text) + 1
        /\ text' = Swapped(text, c1, c2, c3, c4) /\ links' = links /\ made' = made

LEMMA EditIs ==
    ASSUME Held, made.char \in Nat, made.link \in Nat, Next
    PROVE  /\ Held'
           /\ DidInsert \/ DidCopy \/ DidLink \/ DidDelete \/ DidUnlink \/ DidPivot \/ DidSwap
<1>0. /\ Len(text) \in Nat /\ MaxLinks \in Nat /\ \A n \in 1..MaxChars : n \in Digit
      /\ End = Len(text) + 1 /\ TEXT = 1 /\ LINK = 2
  BY HeldIs, PoomAssumption DEF Digit, End, TEXT, LINK
<1>1. ASSUME NEW p \in 1..End, NEW n \in 1..MaxChars, Insert(At(TEXT, p), n)
      PROVE  Held' /\ DidInsert
  <2>1. p \in 1..(Len(text) + 1) /\ n \in Digit /\ Insert(At(1, p), n)
    BY <1>0, <1>1
  <2> QED  BY <2>1, InsertStep DEF DidInsert
<1>2. ASSUME NEW p \in 1..End, NEW upto \in 1..End, NEW from \in 1..upto, Copy(At(TEXT, p), from, upto)
      PROVE  Held' /\ DidCopy
  <2>1. p \in 1..(Len(text) + 1) /\ upto \in 1..(Len(text) + 1) /\ from \in Digit /\ Copy(At(1, p), from, upto)
    BY <1>0, <1>2 DEF Digit
  <2> QED  BY <2>1, CopyStep DEF DidCopy
<1>3. ASSUME NEW n \in 1..MaxChars, Appended(n)
      PROVE  Held' /\ DidInsert
  <2>1. n \in Digit /\ Insert(At(1, Len(text) + 1), n) /\ Len(text) + 1 \in 1..(Len(text) + 1)
    BY <1>0, <1>3, AppendedStep
  <2> QED  BY <2>1, InsertStep DEF DidInsert
<1>4. ASSUME CreateLink PROVE Held' /\ DidLink
  BY <1>4, CreateLinkStep DEF DidLink
<1>5. ASSUME NEW from \in 1..End, NEW upto \in 1..End, Delete(TEXT, from, upto)
      PROVE  Held' /\ DidDelete
  <2>1. upto \in 1..(Len(text) + 1) /\ from \in Digit /\ Delete(1, from, upto)
    BY <1>0, <1>5 DEF Digit
  <2> QED  BY <2>1, DeleteTextStep DEF DidDelete
<1>6. ASSUME NEW from \in DOMAIN links, NEW upto \in 1..(MaxLinks + 1), Delete(LINK, from, upto)
      PROVE  Held' /\ DidUnlink
  <2>1. upto \in Nat /\ Delete(2, from, upto)
    BY <1>0, <1>6
  <2> QED  BY <2>1, DeleteLinksStep DEF DidUnlink
<1>7. ASSUME NEW c3 \in 1..End, NEW c2 \in 1..c3, NEW c1 \in 1..(c2 - 1),
             Rearrange(<<At(TEXT, c1), At(TEXT, c2), At(TEXT, c3)>>)
      PROVE  Held' /\ DidPivot
  <2>1. /\ c1 \in Digit /\ c2 \in Digit /\ c3 \in Digit /\ c1 < c2 /\ c2 <= c3 /\ c3 <= Len(text) + 1
    BY <1>0 DEF Digit
  <2>2. text' = Turned(text, c1, c2, c3) /\ links' = links /\ Held' /\ made' = made
    BY <1>7, <2>1, PivotStep
  <2> QED  BY <2>1, <2>2 DEF DidPivot
<1>8. ASSUME NEW c4 \in 1..End, NEW c3 \in 1..c4, NEW c2 \in 1..c3, NEW c1 \in 1..c2,
             c2 - c1 = c4 - c3, c2 - c1 > 0,
             Rearrange(<<At(TEXT, c1), At(TEXT, c2), At(TEXT, c3), At(TEXT, c4)>>)
      PROVE  Held' /\ DidSwap
  <2>1. /\ c1 \in Digit /\ c2 \in Digit /\ c3 \in Digit /\ c4 \in Digit
        /\ c1 < c2 /\ c2 <= c3 /\ c4 - c3 = c2 - c1 /\ c4 <= Len(text) + 1
    BY <1>0, <1>8 DEF Digit
  <2>2. text' = Swapped(text, c1, c2, c3, c4) /\ links' = links /\ Held' /\ made' = made
    BY <1>8, <2>1, SwapStep
  <2> QED  BY <2>1, <2>2 DEF DidSwap
<1>9. Next => \/ \E p \in 1..End : \/ \E n \in 1..MaxChars : Insert(At(TEXT, p), n)
                                   \/ \E upto \in 1..End : \E from \in 1..upto : Copy(At(TEXT, p), from, upto)
              \/ \E n \in 1..MaxChars : Appended(n)
              \/ CreateLink
              \/ \E from, upto \in 1..End : Delete(TEXT, from, upto)
              \/ \E from \in DOMAIN links, upto \in 1..(MaxLinks + 1) : Delete(LINK, from, upto)
              \/ Pivot
              \/ \E c4 \in 1..End : \E c3 \in 1..c4 : \E c2 \in 1..c3 : \E c1 \in 1..c2 :
                    /\ c2 - c1 = c4 - c3 /\ c2 - c1 > 0
                    /\ Rearrange(<<At(TEXT, c1), At(TEXT, c2), At(TEXT, c3), At(TEXT, c4)>>)
  BY DEF Next, Swap
<1>10. Pivot => \E c3 \in 1..End : \E c2 \in 1..c3 : \E c1 \in 1..(c2 - 1) :
                    Rearrange(<<At(TEXT, c1), At(TEXT, c2), At(TEXT, c3)>>)
  BY DEF Pivot
<1> QED  BY <1>1, <1>2, <1>3, <1>4, <1>5, <1>6, <1>7, <1>8, <1>9, <1>10

\* There are no more characters and links than have been made.
Counted ==
    /\ made \in [char : 0..MaxChars, link : 0..MaxLinks]
    /\ Len(text) <= MaxText
    /\ \A q \in 1..Len(text) : text[q] <= made.char
    /\ DOMAIN links \subseteq 1..made.link
    /\ \A q \in DOMAIN links : links[q] <= made.link

PoomInv == Held /\ Counted

LEMMA CountedIs ==
    ASSUME PoomInv
    PROVE  /\ made = [char |-> made.char, link |-> made.link]
           /\ made.char \in Nat /\ made.char <= MaxChars /\ made.link \in Nat /\ made.link <= MaxLinks
           /\ text \in Seq(Digit) /\ Linked(links) /\ Len(text) \in Nat
           /\ MaxText \in Nat /\ MaxChars \in Nat /\ MaxLinks \in Nat
           /\ \A q \in 1..Len(text) : text[q] \in Nat /\ text[q] <= made.char
           /\ DOMAIN links \subseteq Digit /\ \A q \in DOMAIN links : links[q] \in Nat
<1>1. MaxText \in Nat /\ MaxChars \in Nat /\ MaxLinks \in Nat
  BY PoomAssumption
<1>2. made \in [char : 0..MaxChars, link : 0..MaxLinks] /\ \A q \in 1..Len(text) : text[q] <= made.char
  BY DEF PoomInv, Counted
<1>3. text \in Seq(Digit) /\ Linked(links) /\ Len(text) \in Nat
  BY HeldIs DEF PoomInv
<1>4. \A q \in 1..Len(text) : text[q] \in Digit
  BY <1>3
<1>5. made = [char |-> made.char, link |-> made.link] /\ made.char \in 0..MaxChars /\ made.link \in 0..MaxLinks
  BY <1>2
<1>6. DOMAIN links \subseteq Digit /\ \A q \in DOMAIN links : links[q] \in Nat
  BY <1>3 DEF Linked, Digit
<1> QED  BY <1>1, <1>2, <1>3, <1>4, <1>5, <1>6 DEF Digit

\* The text is made of no other characters.
SameLetters(W, T) == W \in Seq(Digit) /\ \A q \in 1..Len(W) : \E j \in 1..Len(T) : W[q] = T[j]

LEMMA LettersCounted ==
    ASSUME PoomInv, NEW W, SameLetters(W, text), Len(W) <= MaxText,
           text' = W, links' = links, made' = made
    PROVE  Counted'
<1>1. \A q \in 1..Len(W) : W[q] <= made.char
  BY DEF SameLetters, PoomInv, Counted
<1> QED  BY <1>1 DEF PoomInv, Counted

LEMMA TurnedIs ==
    ASSUME NEW T \in Seq(Digit), NEW c1 \in Digit, NEW c2 \in Digit, NEW c3 \in Digit,
           c1 < c2, c2 <= c3, c3 <= Len(T) + 1
    PROVE  /\ Turned(T, c1, c2, c3) \in Seq(Digit) /\ Len(Turned(T, c1, c2, c3)) = Len(T)
           /\ \A q \in 1..Len(T) :
                 /\ q < c1 \/ c3 <= q => Turned(T, c1, c2, c3)[q] = T[q]
                 /\ c1 <= q /\ q < c1 + (c3 - c2) =>
                       /\ Turned(T, c1, c2, c3)[q] = T[q + (c2 - c1)] /\ q + (c2 - c1) \in 1..Len(T)
                 /\ c1 + (c3 - c2) <= q /\ q < c3 =>
                       /\ Turned(T, c1, c2, c3)[q] = T[q - (c3 - c2)] /\ q - (c3 - c2) \in 1..Len(T)
<1> DEFINE b == c1 + (c3 - c2)
           back == Turn(c1, b, c3)
           W == Turned(T, c1, c2, c3)
<1>1. c1 \in Nat /\ c2 \in Nat /\ c3 \in Nat /\ c1 > 0 /\ Len(T) \in Nat
  BY DEF Digit
<1>2. b \in Nat /\ c1 <= b /\ b <= c3 /\ b \in Digit /\ c3 - b = c2 - c1 /\ b - c1 = c3 - c2
  BY <1>1 DEF Digit
<1>3. W = [q \in 1..Len(T) |-> T[back[q]]]
  BY DEF Turned
<1> HIDE DEF b, W
<1>4. \A q \in Digit :
                 /\ q < c1 \/ c3 <= q => back[q] = q
                 /\ c1 <= q /\ q < b => back[q] = q + (c3 - b)
                 /\ b <= q /\ q < c3 => back[q] = q - (b - c1)
  BY <1>2, TurnIs
<1> HIDE DEF back
<1>5. ASSUME NEW q \in 1..Len(T)
      PROVE  /\ q < c1 \/ c3 <= q => W[q] = T[q]
             /\ c1 <= q /\ q < b => W[q] = T[q + (c2 - c1)] /\ q + (c2 - c1) \in 1..Len(T)
             /\ b <= q /\ q < c3 => W[q] = T[q - (c3 - c2)] /\ q - (c3 - c2) \in 1..Len(T)
             /\ W[q] \in Digit
  <2>1. q \in Digit /\ q \in Nat /\ q > 0 /\ W[q] = T[back[q]]
    BY <1>3 DEF Digit
  <2>2. CASE q < c1 \/ c3 <= q
    <3>1. W[q] = T[q]
      BY <1>4, <2>1, <2>2
    <3> QED  BY <1>1, <1>2, <2>1, <2>2, <3>1
  <2>3. CASE c1 <= q /\ q < b
    <3>1. W[q] = T[q + (c2 - c1)]
      BY <1>2, <1>4, <2>1, <2>3
    <3>2. q + (c2 - c1) \in 1..Len(T)
      BY <1>1, <1>2, <2>1, <2>3
    <3>3. T[q + (c2 - c1)] \in Digit
      BY <3>2
    <3>4. ~(q < c1 \/ c3 <= q) /\ ~(b <= q /\ q < c3)
      BY <1>1, <1>2, <2>1, <2>3
    <3> QED  BY <3>1, <3>2, <3>3, <3>4
  <2>4. CASE b <= q /\ q < c3
    <3>1. W[q] = T[q - (c3 - c2)]
      BY <1>2, <1>4, <2>1, <2>4
    <3>2. q - (c3 - c2) \in 1..Len(T)
      BY <1>1, <1>2, <2>1, <2>4, SMTT(30)
    <3>3. T[q - (c3 - c2)] \in Digit
      BY <3>2
    <3>4. ~(q < c1 \/ c3 <= q) /\ ~(c1 <= q /\ q < b)
      BY <1>1, <1>2, <2>1, <2>4
    <3> QED  BY <3>1, <3>2, <3>3, <3>4
  <2> QED  BY <1>1, <1>2, <2>1, <2>2, <2>3, <2>4
<1>6. W \in [1..Len(T) -> Digit]
  BY <1>3, <1>5
<1>7. W \in Seq(Digit) /\ Len(W) = Len(T)
  BY <1>1, <1>6
<1> QED  BY <1>5, <1>7 DEF W, b

LEMMA SwappedIs ==
    ASSUME NEW T \in Seq(Digit), NEW c1 \in Digit, NEW c2 \in Digit, NEW c3 \in Digit, NEW c4 \in Digit,
           c1 < c2, c2 <= c3, c4 - c3 = c2 - c1, c4 <= Len(T) + 1
    PROVE  LET W == Swapped(T, c1, c2, c3, c4)
           IN  /\ W \in Seq(Digit) /\ Len(W) = Len(T)
               /\ \A q \in 1..Len(T) :
                     /\ q < c1 \/ (c2 <= q /\ q < c3) \/ c4 <= q => W[q] = T[q]
                     /\ c1 <= q /\ q < c2 => W[q] = T[q + (c3 - c1)] /\ q + (c3 - c1) \in 1..Len(T)
                     /\ c3 <= q /\ q < c4 => W[q] = T[q - (c3 - c1)] /\ q - (c3 - c1) \in 1..Len(T)
<1> DEFINE mv == Exchange(c1, c2, c3, c4)
           W == Swapped(T, c1, c2, c3, c4)
<1>1. c1 \in Nat /\ c2 \in Nat /\ c3 \in Nat /\ c4 \in Nat /\ c1 > 0 /\ Len(T) \in Nat /\ c3 < c4
  BY DEF Digit
<1>3. W = [q \in 1..Len(T) |-> T[mv[q]]]
  BY DEF Swapped
<1> HIDE DEF W
<1>4. \A q \in Digit :
                 /\ q < c1 \/ (c2 <= q /\ q < c3) \/ c4 <= q => mv[q] = q
                 /\ c1 <= q /\ q < c2 => mv[q] = q + (c3 - c1)
                 /\ c3 <= q /\ q < c4 => mv[q] = q - (c3 - c1)
  BY ExchangeIs
<1> HIDE DEF mv
<1>5. ASSUME NEW q \in 1..Len(T)
      PROVE  /\ q < c1 \/ (c2 <= q /\ q < c3) \/ c4 <= q => W[q] = T[q]
             /\ c1 <= q /\ q < c2 => W[q] = T[q + (c3 - c1)] /\ q + (c3 - c1) \in 1..Len(T)
             /\ c3 <= q /\ q < c4 => W[q] = T[q - (c3 - c1)] /\ q - (c3 - c1) \in 1..Len(T)
             /\ W[q] \in Digit
  <2>1. q \in Digit /\ q \in Nat /\ q > 0 /\ W[q] = T[mv[q]]
    BY <1>3 DEF Digit
  <2>2. CASE q < c1 \/ (c2 <= q /\ q < c3) \/ c4 <= q
    <3>1. W[q] = T[q]
      BY <1>4, <2>1, <2>2
    <3> QED  BY <1>1, <2>1, <2>2, <3>1
  <2>3. CASE c1 <= q /\ q < c2
    <3>1. W[q] = T[q + (c3 - c1)]
      BY <1>4, <2>1, <2>3
    <3>2. q + (c3 - c1) \in 1..Len(T)
      BY <1>1, <2>1, <2>3
    <3>3. T[q + (c3 - c1)] \in Digit
      BY <3>2
    <3>4. ~(q < c1 \/ (c2 <= q /\ q < c3) \/ c4 <= q) /\ ~(c3 <= q /\ q < c4)
      BY <1>1, <2>1, <2>3
    <3> QED  BY <3>1, <3>2, <3>3, <3>4
  <2>4. CASE c3 <= q /\ q < c4
    <3>1. W[q] = T[q - (c3 - c1)]
      BY <1>4, <2>1, <2>4
    <3>2. q - (c3 - c1) \in 1..Len(T)
      BY <1>1, <2>1, <2>4
    <3>3. T[q - (c3 - c1)] \in Digit
      BY <3>2
    <3>4. ~(q < c1 \/ (c2 <= q /\ q < c3) \/ c4 <= q) /\ ~(c1 <= q /\ q < c2)
      BY <1>1, <2>1, <2>4
    <3> QED  BY <3>1, <3>2, <3>3, <3>4
  <2> QED  BY <1>1, <2>1, <2>2, <2>3, <2>4
<1>6. W \in [1..Len(T) -> Digit]
  BY <1>3, <1>5
<1>7. W \in Seq(Digit) /\ Len(W) = Len(T)
  BY <1>1, <1>6
<1> QED  BY <1>5, <1>7 DEF W

-----------------------------------------------------------------------------
(* The invariant. *)

LEMMA InitInv ==
    ASSUME Init
    PROVE  PoomInv
<1>1. /\ orgl = EMPTY /\ text = <<>> /\ links = <<>> /\ made = [char |-> 0, link |-> 0]
      /\ MaxText \in Nat /\ MaxChars \in Nat /\ MaxLinks \in Nat
  BY PoomAssumption DEF Init, EMPTY
<1> DEFINE N == <<>>
<1>2. Len(N) = 0 /\ DOMAIN N = {} /\ N \in Seq(Digit) /\ N \in [{} -> Digit]
  OBVIOUS
<1>3. text = N /\ links = N
  BY <1>1
<1> HIDE DEF N
<1>4. Linked(N)
  <2>1. 0 \in Nat
    OBVIOUS
  <2> QED  BY <1>2, <2>1 DEF Linked
<1>5. \A u, q, i : ~Has({}, u, q, i)
  BY DEF Has
<1>6. ~\E q : q \in 1..Len(N)
  BY <1>2
<1>7. Disjoint({}) /\ {} \in SUBSET Crum
  BY DEF Disjoint
<1>8. Says({}, N, N)
  BY <1>2, <1>4, <1>5, <1>6, <1>7 DEF Says
<1>9. Fine(orgl, {})
  BY <1>1 DEF Fine
<1>10. Held
  BY <1>3, <1>8, <1>9 DEF Held
<1>11. Counted
  <2>1. made \in [char : 0..MaxChars, link : 0..MaxLinks]
    BY <1>1
  <2>2. Len(text) <= MaxText
    BY <1>1, <1>2, <1>3
  <2> QED  BY <1>2, <1>3, <1>6, <2>1, <2>2 DEF Counted
<1> QED  BY <1>10, <1>11 DEF PoomInv

LEMMA CountedStep ==
    ASSUME PoomInv,
           DidInsert \/ DidCopy \/ DidLink \/ DidDelete \/ DidUnlink \/ DidPivot \/ DidSwap
    PROVE  Counted'
<1> DEFINE T == text
<1>1. /\ made = [char |-> made.char, link |-> made.link]
      /\ made.char \in Nat /\ made.char <= MaxChars /\ made.link \in Nat /\ made.link <= MaxLinks
      /\ T \in Seq(Digit) /\ Linked(links) /\ Len(T) \in Nat
      /\ MaxText \in Nat /\ MaxChars \in Nat /\ MaxLinks \in Nat
      /\ \A q \in 1..Len(T) : T[q] \in Nat /\ T[q] <= made.char
      /\ DOMAIN links \subseteq Digit /\ \A q \in DOMAIN links : links[q] \in Nat
  BY CountedIs
<1>2. /\ made \in [char : 0..MaxChars, link : 0..MaxLinks]
      /\ Len(T) <= MaxText
      /\ \A q \in 1..Len(T) : T[q] <= made.char
      /\ DOMAIN links \subseteq 1..made.link
      /\ \A q \in DOMAIN links : links[q] <= made.link
  BY DEF PoomInv, Counted
<1>3. CASE DidInsert
  <2>1. PICK p \in 1..(Len(T) + 1), n \in Digit :
        /\ text' = With(T, p, made.char + 1, n) /\ links' = links
        /\ made' = [made EXCEPT !.char = @ + n]
        /\ made.char + n <= MaxChars /\ Len(T) + n <= MaxText
    BY <1>3 DEF DidInsert
  <2> DEFINE m == made.char
             W == With(T, p, m + 1, n)
  <2> HIDE DEF T
  <2>2. m \in Nat /\ m + 1 \in Digit /\ n \in Nat /\ p \in Nat
    BY <1>1, <2>1 DEF Digit
  <2>3. made' = [char |-> m + n, link |-> made.link]
    BY <1>1, <2>1
  <2>4. /\ W \in Seq(Digit) /\ Len(W) = Len(T) + n
        /\ \A q \in 1..(Len(T) + n) :
                 /\ q < p => q \in 1..Len(T) /\ W[q] = T[q]
                 /\ p <= q /\ q < p + n => W[q] = (m + 1) + (q - p)
                 /\ p + n <= q => q - n \in 1..Len(T) /\ W[q] = T[q - n]
    BY <1>1, <2>2, WithIs, ZenonT(60)
  <2> HIDE DEF W, m
  <2>5. ASSUME NEW q \in 1..Len(W) PROVE W[q] <= m + n
    <3>1. q \in Nat /\ q \in 1..(Len(T) + n)
      BY <1>1, <2>2, <2>4, SMTT(30)
    <3>2. CASE q < p
      <4>1. W[q] = T[q] /\ T[q] \in Nat /\ T[q] <= m
        BY <1>1, <2>4, <3>1, <3>2 DEF m
      <4> QED  BY <2>2, <4>1
    <3>3. CASE p <= q /\ q < p + n
      <4>1. W[q] = (m + 1) + (q - p)
        BY <2>4, <3>1, <3>3
      <4> QED  BY <2>2, <3>1, <3>3, <4>1
    <3>4. CASE p + n <= q
      <4>1. W[q] = T[q - n] /\ T[q - n] \in Nat /\ T[q - n] <= m
        BY <1>1, <2>4, <3>1, <3>4 DEF m
      <4> QED  BY <2>2, <4>1
    <3> QED  BY <2>2, <3>1, <3>2, <3>3, <3>4
  <2>6. /\ text' = W /\ Len(W) <= MaxText /\ made'.char = m + n /\ made'.link = made.link
        /\ m + n \in 0..MaxChars /\ made.link \in 0..MaxLinks
    BY <1>1, <2>1, <2>2, <2>3, <2>4 DEF W, m
  <2>7. made' \in [char : 0..MaxChars, link : 0..MaxLinks]
    BY <2>3, <2>6
  <2>8. DOMAIN links' \subseteq 1..made'.link /\ \A q \in DOMAIN links' : links'[q] <= made'.link
    BY <1>2, <2>1, <2>6
  <2>9. Len(text') <= MaxText /\ \A q \in 1..Len(text') : text'[q] <= made'.char
    BY <2>5, <2>6
  <2> QED  BY <2>7, <2>8, <2>9 DEF Counted
<1>4. CASE DidCopy
  <2>1. PICK p \in 1..(Len(T) + 1), upto \in 1..(Len(T) + 1), from \in Digit :
        /\ from < upto /\ Len(T) + (upto - from) <= MaxText
        /\ text' = Inlaid(T, p, Copied(T, from, upto), upto - from)
        /\ links' = links /\ made' = made
    BY <1>4 DEF DidCopy
  <2> DEFINE V == Copied(T, from, upto)
             n == upto - from
             W == Inlaid(T, p, V, n)
  <2>2. upto \in Digit /\ upto <= Len(T) + 1 /\ n \in Nat /\ n > 0 /\ from \in Nat /\ from > 0
        /\ p \in Nat /\ upto \in Nat
    BY <1>1, <2>1, SMTT(30) DEF Digit
  <2>3. V \in Seq(Digit) /\ Len(V) = n /\ \A j \in 1..n : V[j] = T[(from - 1) + j]
    BY <1>1, <2>1, <2>2, CopiedIs
  <2> HIDE DEF V
  <2>4. n \in 0..Len(V)
    BY <2>2, <2>3
  <2>5. /\ W \in Seq(Digit) /\ Len(W) = Len(T) + n
        /\ \A q \in 1..(Len(T) + n) :
                 /\ q < p => q \in 1..Len(T) /\ W[q] = T[q]
                 /\ p <= q /\ q < p + n => q - p + 1 \in 1..n /\ W[q] = V[q - p + 1]
                 /\ p + n <= q => q - n \in 1..Len(T) /\ W[q] = T[q - n]
    BY <1>1, <2>3, <2>4, InlaidIs, ZenonT(60)
  <2> HIDE DEF W, n
  <2>6. ASSUME NEW q \in 1..Len(W) PROVE \E j \in 1..Len(T) : W[q] = T[j]
    <3>1. q \in Nat /\ q \in 1..(Len(T) + n)
      BY <1>1, <2>2, <2>5, SMTT(30)
    <3>2. CASE q < p
      BY <2>5, <3>1, <3>2
    <3>3. CASE p <= q /\ q < p + n
      <4> DEFINE k == q - p + 1
      <4>1. k \in 1..n /\ W[q] = V[k]
        BY <2>5, <3>1, <3>3
      <4> HIDE DEF k
      <4>2. V[k] = T[(from - 1) + k]
        BY <2>3, <4>1
      <4>3. (from - 1) + k \in 1..Len(T)
        <5>1. Len(T) \in Nat
          BY <1>1
        <5>2. k \in Nat /\ 1 <= k /\ k <= upto - from
          BY <2>2, <4>1 DEF n
        <5>3. 1 <= (from - 1) + k /\ (from - 1) + k <= upto - 1 /\ (from - 1) + k \in Nat
          BY <2>2, <5>2
        <5> QED  BY <2>2, <5>1, <5>3
      <4> QED  BY <4>1, <4>2, <4>3
    <3>4. CASE p + n <= q
      BY <2>5, <3>1, <3>4
    <3> QED  BY <2>2, <3>1, <3>2, <3>3, <3>4
  <2>7. SameLetters(W, T) /\ Len(W) <= MaxText
    BY <2>1, <2>5, <2>6 DEF SameLetters, n
  <2>8. text' = W /\ links' = links /\ made' = made
    BY <2>1 DEF W, V, n
  <2> QED  BY <2>7, <2>8, LettersCounted
<1>5. CASE DidLink
  <2> DEFINE m == made.link
             t == Top(links) + 1
  <2>1. /\ text' = text /\ links' = Linking(links, t, m + 1)
        /\ made' = [made EXCEPT !.link = @ + 1] /\ m < MaxLinks
    BY <1>5 DEF DidLink
  <2>2. made' = [char |-> made.char, link |-> m + 1]
    BY <1>1, <2>1
  <2>3. t \in 1..(m + 1) /\ m \in Nat
    <3>1. Top(links) \in Nat /\ (Top(links) # 0 => Top(links) \in DOMAIN links)
      BY <1>1, TopIs
    <3>2. Top(links) # 0 => Top(links) \in 1..m
      BY <1>2, <3>1
    <3> QED  BY <1>1, <3>1, <3>2
  <2> HIDE DEF m, t
  <2>4. DOMAIN links' = DOMAIN links \union {t}
    BY <2>1 DEF Linking
  <2>5. \A q \in DOMAIN links' : links'[q] = IF q = t THEN m + 1 ELSE links[q]
    BY <2>1 DEF Linking
  <2>6. made'.char = made.char /\ made'.link = m + 1 /\ made.char \in 0..MaxChars /\ m + 1 \in 0..MaxLinks
    BY <1>1, <2>1, <2>2, <2>3
  <2>7. made' \in [char : 0..MaxChars, link : 0..MaxLinks]
    BY <2>2, <2>6
  <2>8. DOMAIN links' \subseteq 1..(m + 1)
    <3>1. \A q \in DOMAIN links : q \in 1..(m + 1)
      <4>1. \A q \in DOMAIN links : q \in 1..m
        BY <1>2 DEF m
      <4> QED  BY <2>3, <4>1
    <3> QED  BY <2>3, <2>4, <3>1
  <2>9. ASSUME NEW q \in DOMAIN links' PROVE links'[q] <= m + 1
    <3>1. CASE q = t
      <4>1. links'[q] = m + 1
        BY <2>5, <3>1
      <4> QED  BY <2>3, <4>1
    <3>2. CASE q # t
      <4>1. q \in DOMAIN links /\ links'[q] = links[q]
        BY <2>4, <2>5, <3>2
      <4>2. links[q] \in Nat /\ links[q] <= m
        BY <1>1, <1>2, <4>1 DEF m
      <4> QED  BY <2>3, <4>1, <4>2
    <3> QED  BY <3>1, <3>2
  <2>10. Len(text') <= MaxText /\ \A q \in 1..Len(text') : text'[q] <= made'.char
    BY <1>2, <2>1, <2>6
  <2> QED  BY <2>6, <2>7, <2>8, <2>9, <2>10 DEF Counted
<1>6. CASE DidDelete
  <2>1. PICK from \in Digit, upto \in 1..(Len(T) + 1) :
        /\ from < upto /\ text' = Without(T, from, upto - from)
        /\ links' = links /\ made' = made
    BY <1>6 DEF DidDelete
  <2> DEFINE n == upto - from
             W == Without(T, from, n)
  <2>2. n \in Digit /\ n \in Nat /\ n > 0 /\ from + n <= Len(T) + 1 /\ from \in Nat
    BY <1>1, <2>1 DEF Digit
  <2>3. /\ W \in Seq(Digit) /\ Len(W) = Len(T) - n
        /\ \A q \in 1..(Len(T) - n) :
                 /\ q < from => q \in 1..Len(T) /\ W[q] = T[q]
                 /\ from <= q => q + n \in 1..Len(T) /\ W[q] = T[q + n]
    BY <1>1, <2>2, WithoutIs
  <2>4. text' = W /\ links' = links /\ made' = made
    BY <2>1
  <2> HIDE DEF W, n
  <2>5. ASSUME NEW q \in 1..Len(W) PROVE \E j \in 1..Len(T) : W[q] = T[j]
    <3>1. q \in Nat /\ q \in 1..(Len(T) - n)
      BY <1>1, <2>2, <2>3
    <3>2. CASE q < from
      BY <2>3, <3>1, <3>2
    <3>3. CASE from <= q
      BY <2>3, <3>1, <3>3
    <3> QED  BY <2>2, <3>1, <3>2, <3>3
  <2>6. SameLetters(W, T) /\ Len(W) <= MaxText
    BY <1>1, <1>2, <2>2, <2>3, <2>5 DEF SameLetters
  <2> QED  BY <2>4, <2>6, LettersCounted
<1>7. CASE DidUnlink
  <2>1. PICK from \in DOMAIN links, upto \in Nat :
        /\ from < upto /\ text' = text /\ made' = made
        /\ links' = IF Len(T) = 0 THEN MovedUp(links, from, upto - from)
                    ELSE Unlinked(links, from, upto - from)
    BY <1>7 DEF DidUnlink
  <2> DEFINE n == upto - from
  <2>2. from \in Digit /\ from \in Nat /\ n \in Digit /\ n \in Nat /\ n > 0
    BY <1>1, <2>1 DEF Digit
  <2>3. Shrunk(links, from, n)
    BY <1>1, <2>2, UnlinkedIs
  <2>4. links' = Unlinked(links, from, n) \/ links' = MovedUp(links, from, n)
    BY <2>1
  <2> HIDE DEF n
  <2>5. Linked(links')
    BY <2>3, <2>4 DEF Shrunk
  <2>6. DOMAIN links' \subseteq Digit
    BY <2>5 DEF Linked, Digit
  <2>7. ASSUME NEW q \in DOMAIN links'
        PROVE  \E j \in DOMAIN links : links'[q] = links[j] /\ q <= j
    <3>1. q \in Digit /\ q \in Nat
      BY <2>6 DEF Digit
    <3>2. CASE links' = Unlinked(links, from, n)
      <4>1. q \in DOMAIN links /\ links'[q] = links[q]
        BY <2>3, <3>1, <3>2 DEF Shrunk
      <4> QED  BY <3>1, <4>1
    <3>3. CASE links' = MovedUp(links, from, n) /\ q < from
      <4>1. q \in DOMAIN links /\ links'[q] = links[q]
        BY <2>3, <3>1, <3>3 DEF Shrunk
      <4> QED  BY <3>1, <4>1
    <3>4. CASE links' = MovedUp(links, from, n) /\ from <= q
      <4>1. q + n \in DOMAIN links /\ links'[q] = links[q + n]
        BY <2>3, <3>1, <3>4 DEF Shrunk
      <4>2. q <= q + n
        BY <2>2, <3>1
      <4> QED  BY <4>1, <4>2
    <3> QED  BY <2>2, <2>4, <3>1, <3>2, <3>3, <3>4
  <2>8. ASSUME NEW q \in DOMAIN links'
        PROVE  q \in 1..made.link /\ links'[q] <= made.link
    <3>1. PICK j \in DOMAIN links : links'[q] = links[j] /\ q <= j
      BY <2>7
    <3>2. j \in 1..made.link /\ links[j] <= made.link
      BY <1>2
    <3>3. q \in Nat /\ q > 0
      BY <2>6 DEF Digit
    <3> QED  BY <1>1, <3>1, <3>2, <3>3
  <2> QED  BY <1>2, <2>1, <2>8 DEF Counted
<1>8. CASE DidPivot
  <2>1. PICK c1 \in Digit, c2 \in Digit, c3 \in Digit :
        /\ c1 < c2 /\ c2 <= c3 /\ c3 <= Len(T) + 1
        /\ text' = Turned(T, c1, c2, c3) /\ links' = links /\ made' = made
    BY <1>8 DEF DidPivot
  <2> DEFINE W == Turned(T, c1, c2, c3)
  <2>2. /\ W \in Seq(Digit) /\ Len(W) = Len(T)
        /\ \A q \in 1..Len(T) :
                 /\ q < c1 \/ c3 <= q => W[q] = T[q]
                 /\ c1 <= q /\ q < c1 + (c3 - c2) => W[q] = T[q + (c2 - c1)] /\ q + (c2 - c1) \in 1..Len(T)
                 /\ c1 + (c3 - c2) <= q /\ q < c3 => W[q] = T[q - (c3 - c2)] /\ q - (c3 - c2) \in 1..Len(T)
    BY <1>1, <2>1, TurnedIs
  <2>3. text' = W
    BY <2>1
  <2> HIDE DEF W
  <2>4. ASSUME NEW q \in 1..Len(W) PROVE \E j \in 1..Len(T) : W[q] = T[j]
    <3>1. q \in 1..Len(T) /\ q \in Nat /\ c1 \in Nat /\ c2 \in Nat /\ c3 \in Nat
      BY <1>1, <2>2 DEF Digit
    <3>2. (q < c1 \/ c3 <= q) \/ (c1 <= q /\ q < c1 + (c3 - c2)) \/ (c1 + (c3 - c2) <= q /\ q < c3)
      BY <3>1
    <3> QED  BY <2>2, <3>1, <3>2
  <2>5. SameLetters(W, T) /\ Len(W) <= MaxText
    BY <1>2, <2>2, <2>4 DEF SameLetters
  <2> QED  BY <2>1, <2>3, <2>5, LettersCounted
<1>9. CASE DidSwap
  <2>1. PICK c1 \in Digit, c2 \in Digit, c3 \in Digit, c4 \in Digit :
        /\ c1 < c2 /\ c2 <= c3 /\ c4 - c3 = c2 - c1 /\ c4 <= Len(T) + 1
        /\ text' = Swapped(T, c1, c2, c3, c4) /\ links' = links /\ made' = made
    BY <1>9 DEF DidSwap
  <2> DEFINE W == Swapped(T, c1, c2, c3, c4)
  <2>2. /\ W \in Seq(Digit) /\ Len(W) = Len(T)
        /\ \A q \in 1..Len(T) :
                     /\ q < c1 \/ (c2 <= q /\ q < c3) \/ c4 <= q => W[q] = T[q]
                     /\ c1 <= q /\ q < c2 => W[q] = T[q + (c3 - c1)] /\ q + (c3 - c1) \in 1..Len(T)
                     /\ c3 <= q /\ q < c4 => W[q] = T[q - (c3 - c1)] /\ q - (c3 - c1) \in 1..Len(T)
    BY <1>1, <2>1, SwappedIs
  <2>3. text' = W
    BY <2>1
  <2> HIDE DEF W
  <2>4. ASSUME NEW q \in 1..Len(W) PROVE \E j \in 1..Len(T) : W[q] = T[j]
    <3>1. q \in 1..Len(T) /\ q \in Nat /\ c1 \in Nat /\ c2 \in Nat /\ c3 \in Nat /\ c4 \in Nat
      BY <1>1, <2>2 DEF Digit
    <3>2. (q < c1 \/ (c2 <= q /\ q < c3) \/ c4 <= q) \/ (c1 <= q /\ q < c2) \/ (c3 <= q /\ q < c4)
      BY <3>1
    <3> QED  BY <2>2, <3>1, <3>2
  <2>5. SameLetters(W, T) /\ Len(W) <= MaxText
    BY <1>2, <2>2, <2>4 DEF SameLetters
  <2> QED  BY <2>1, <2>3, <2>5, LettersCounted
<1> QED  BY <1>3, <1>4, <1>5, <1>6, <1>7, <1>8, <1>9

LEMMA StepInv ==
    ASSUME PoomInv, [Next]_vars
    PROVE  PoomInv'
<1>1. CASE Next
  <2>1. Held /\ made.char \in Nat /\ made.link \in Nat
    BY CountedIs DEF PoomInv
  <2>2. /\ Held'
        /\ DidInsert \/ DidCopy \/ DidLink \/ DidDelete \/ DidUnlink \/ DidPivot \/ DidSwap
    BY <1>1, <2>1, EditIs
  <2> QED  BY <2>2, CountedStep DEF PoomInv
<1>2. CASE UNCHANGED vars
  BY <1>2 DEF vars, PoomInv, Held, Counted
<1> QED  BY <1>1, <1>2

-----------------------------------------------------------------------------
(* The theorems. *)

LEMMA TypesHold ==
    ASSUME PoomInv
    PROVE  TypeOK
<1>1. /\ made \in [char : 0..MaxChars, link : 0..MaxLinks] /\ Len(text) <= MaxText
      /\ text \in Seq(Digit) /\ Linked(links) /\ Len(text) \in Nat
      /\ MaxText \in Nat /\ MaxChars \in Nat /\ MaxLinks \in Nat
      /\ made.char \in Nat /\ made.char <= MaxChars /\ made.link \in Nat /\ made.link <= MaxLinks
  BY CountedIs DEF PoomInv, Counted
<1>2. text \in Seq(1..MaxChars)
  <2>1. ASSUME NEW q \in 1..Len(text) PROVE text[q] \in 1..MaxChars
    <3>1. text[q] \in Digit /\ text[q] <= made.char
      BY <1>1 DEF PoomInv, Counted
    <3> QED  BY <1>1, <3>1 DEF Digit
  <2> QED  BY <1>1, <2>1, SMTT(30)
<1>3. DOMAIN links \subseteq 1..MaxLinks /\ links \in [DOMAIN links -> 1..MaxLinks]
  <2>1. DOMAIN links \subseteq 1..made.link /\ \A q \in DOMAIN links : links[q] <= made.link
    BY DEF PoomInv, Counted
  <2>2. links \in [DOMAIN links -> Digit]
    BY <1>1 DEF Linked
  <2>3. ASSUME NEW q \in DOMAIN links PROVE links[q] \in 1..MaxLinks /\ q \in 1..MaxLinks
    <3>1. links[q] \in Digit /\ links[q] <= made.link /\ q \in 1..made.link
      BY <2>1, <2>2
    <3> QED  BY <1>1, <3>1 DEF Digit
  <2> QED  BY <2>2, <2>3
<1>4. orgl.apex \in tumbler /\ orgl.sons \subseteq Son
  <2>1. PICK C : Fine(orgl, C)
    BY DEF PoomInv, Held
  <2>2. CASE C = {} /\ orgl = EMPTY
    <3>1. ZEROTUMBLER \in tumbler
      BY DEF ZEROTUMBLER, tumbler
    <3> QED  BY <2>2, <3>1 DEF EMPTY
  <2>3. ASSUME NEW s \in Space, NEW m \in Digit, Rooted(s, m, C), orgl = Tree(s, m, C)
        PROVE  orgl.apex \in tumbler /\ orgl.sons \subseteq Son
    <3>1. orgl.apex = At(s, m) /\ orgl.sons = {SonOf(s, m, c) : c \in C}
      BY <2>3 DEF Tree
    <3>2. C \in SUBSET Crum /\ \A c \in C : Behind(s, m, c.space, c.place)
      BY <2>3 DEF Rooted
    <3>3. ASSUME NEW c \in C PROVE SonOf(s, m, c) \in Son
      <4>1. c \in Crum /\ Behind(s, m, c.space, c.place)
        BY <3>2
      <4>2. c.space \in Space /\ c.place \in Digit /\ c.type \in Digit /\ c.first \in Digit /\ c.len \in Digit
        BY <4>1, CrumType
      <4>3. Disp(s, m, c.space, c.place) \in tumbler
        BY <4>1, <4>2, DispNumber DEF Number
      <4>4. At(c.type, c.first) \in tumbler
        BY <4>2, AtNumber
      <4>5. c.len \in Nat \ {0}
        BY <4>2 DEF Digit
      <4> QED  BY <4>3, <4>4, <4>5 DEF SonOf, Son
    <3>4. At(s, m) \in tumbler
      BY SpaceDigit, AtNumber
    <3> QED  BY <3>1, <3>3, <3>4
  <2> QED  BY <2>1, <2>2, <2>3 DEF Fine
<1> QED  BY <1>1, <1>2, <1>3, <1>4 DEF TypeOK

LEMMA Invariant == Spec => []PoomInv
<1>1. Init => PoomInv
  BY InitInv
<1>2. PoomInv /\ [Next]_vars => PoomInv'
  BY StepInv
<1> QED  BY <1>1, <1>2, PTL DEF Spec

\* Editing leaves tumblers in the apex and the crums, no crum without a width,
\* and a text and links of what has been made (insertnd.c, edit.c).
THEOREM TypeCorrect == Spec => []TypeOK
<1>1. PoomInv => TypeOK
  BY TypesHold
<1> QED  BY <1>1, Invariant, PTL

\* No two crums of a document say what is at the same V-address, in a document
\* of any length and after any number of edits (edit.c makes no check).
THEOREM OneAtATimeHolds == Spec => []OneAtATime
<1>1. ASSUME PoomInv PROVE OneAtATime
  <2>1. PICK C : Fine(orgl, C) /\ Says(C, text, links)
    BY <1>1 DEF PoomInv, Held
  <2> QED  BY <2>1, ReadsAre DEF OneAtATime
<1>2. PoomInv => OneAtATime
  BY <1>1
<1> QED  BY <1>2, Invariant, PTL

-----------------------------------------------------------------------------
(* The document as Document puts it together. *)

LEMMA PieceIs ==
    ASSUME NEW T \in Seq(Digit), NEW a \in Digit, NEW b \in Digit, a <= b, b <= Len(T) + 1
    PROVE  /\ SubSeq(T, a, b - 1) \in Seq(Digit) /\ Len(SubSeq(T, a, b - 1)) = b - a /\ b - a \in Nat
           /\ \A q \in 1..(b - a) : SubSeq(T, a, b - 1)[q] = T[q + (a - 1)]
<1>1. a \in Nat /\ b \in Nat /\ a > 0 /\ b - 1 \in Nat /\ b - a \in Nat /\ b - 1 <= Len(T) /\ Len(T) \in Nat
  BY DEF Digit
<1> DEFINE z == b - 1
<1>2. z \in Nat /\ z <= Len(T) /\ a <= z + 1 /\ b - a = (z - a) + 1
  BY <1>1
<1> HIDE DEF z
<1>3. SubSeq(T, a, z) = [q \in 1..((z - a) + 1) |-> T[(q + a) - 1]]
  BY <1>1, <1>2
<1>4. \A q \in 1..((z - a) + 1) : T[(q + a) - 1] \in Digit
  <2>1. ASSUME NEW q \in 1..((z - a) + 1) PROVE (q + a) - 1 \in 1..Len(T)
    BY <1>1, <1>2
  <2> QED  BY <2>1
<1>5. (z - a) + 1 \in Nat
  BY <1>1, <1>2
<1>6. /\ SubSeq(T, a, z) \in Seq(Digit) /\ Len(SubSeq(T, a, z)) = (z - a) + 1
      /\ \A q \in 1..((z - a) + 1) : SubSeq(T, a, z)[q] = T[(q + a) - 1]
  <2> DEFINE n == (z - a) + 1
             W == [q \in 1..n |-> T[(q + a) - 1]]
  <2>1. n \in Nat /\ W \in [1..n -> Digit]
    BY <1>4, <1>5
  <2>2. W \in Seq(Digit) /\ Len(W) = n
    <3> HIDE DEF n, W
    <3> QED  BY <2>1
  <2>3. SubSeq(T, a, z) = W
    BY <1>3
  <2> QED  BY <2>2, <2>3
<1>7. \A q \in 1..(b - a) : (q + a) - 1 = q + (a - 1)
  BY <1>1
<1> QED  BY <1>1, <1>2, <1>6, <1>7 DEF z

\* W is A, and B behind it.
OfTwo(W, A, B) ==
    /\ W \in Seq(Digit) /\ Len(W) = Len(A) + Len(B)
    /\ \A q \in 1..Len(A) : W[q] = A[q]
    /\ \A q \in 1..Len(B) : W[Len(A) + q] = B[q]

OfThree(W, A, B, C) ==
    /\ W \in Seq(Digit) /\ Len(W) = (Len(A) + Len(B)) + Len(C)
    /\ \A q \in 1..Len(A) : W[q] = A[q]
    /\ \A q \in 1..Len(B) : W[Len(A) + q] = B[q]
    /\ \A q \in 1..Len(C) : W[(Len(A) + Len(B)) + q] = C[q]

OfFive(W, A, B, C, D, E) ==
    /\ W \in Seq(Digit) /\ Len(W) = (((Len(A) + Len(B)) + Len(C)) + Len(D)) + Len(E)
    /\ \A q \in 1..Len(A) : W[q] = A[q]
    /\ \A q \in 1..Len(B) : W[Len(A) + q] = B[q]
    /\ \A q \in 1..Len(C) : W[(Len(A) + Len(B)) + q] = C[q]
    /\ \A q \in 1..Len(D) : W[((Len(A) + Len(B)) + Len(C)) + q] = D[q]
    /\ \A q \in 1..Len(E) : W[(((Len(A) + Len(B)) + Len(C)) + Len(D)) + q] = E[q]

LEMMA JoinIs ==
    ASSUME NEW A \in Seq(Digit), NEW B \in Seq(Digit)
    PROVE  OfTwo(A \o B, A, B)
<1>1. A \o B \in Seq(Digit) /\ Len(A \o B) = Len(A) + Len(B)
  OBVIOUS
<1>2. \A q \in 1..Len(A) : (A \o B)[q] = A[q]
  OBVIOUS
<1>3. \A q \in 1..Len(B) : (A \o B)[Len(A) + q] = B[q]
  OBVIOUS
<1> QED  BY <1>1, <1>2, <1>3 DEF OfTwo

\* A place of three parts is in one of them.
LEMMA PartsCover ==
    ASSUME NEW a \in Nat, NEW b \in Nat, NEW c \in Nat, NEW q \in 1..((a + b) + c)
    PROVE  \/ q \in 1..a
           \/ \E k \in 1..b : q = a + k
           \/ \E k \in 1..c : q = (a + b) + k
<1>1. q \in Nat /\ q > 0
  OBVIOUS
<1>2. CASE a < q /\ q <= a + b
  <2>1. q - a \in 1..b /\ q = a + (q - a)
    BY <1>1, <1>2
  <2> QED  BY <2>1
<1>3. CASE a + b < q
  <2>1. q - (a + b) \in 1..c /\ q = (a + b) + (q - (a + b))
    BY <1>1, <1>3
  <2> QED  BY <2>1
<1> QED  BY <1>1, <1>2, <1>3

LEMMA ThreeOfTwo ==
    ASSUME NEW A \in Seq(Digit), NEW B \in Seq(Digit), NEW C \in Seq(Digit), NEW X, NEW W,
           OfTwo(X, A, B), OfTwo(W, X, C)
    PROVE  OfThree(W, A, B, C)
<1>1. PICK a \in Nat, b \in Nat, c \in Nat : a = Len(A) /\ b = Len(B) /\ c = Len(C)
  OBVIOUS
<1>2. /\ X \in Seq(Digit) /\ Len(X) = a + b
      /\ \A q \in 1..a : X[q] = A[q]
      /\ \A q \in 1..b : X[a + q] = B[q]
  BY <1>1 DEF OfTwo
<1>3. PICK m \in Nat : m = a + b
  OBVIOUS
<1>4. /\ W \in Seq(Digit) /\ Len(W) = m + c
      /\ \A q \in 1..m : W[q] = X[q]
      /\ \A q \in 1..c : W[m + q] = C[q]
  BY <1>1, <1>2, <1>3 DEF OfTwo
<1>5. ASSUME NEW q \in 1..a PROVE W[q] = A[q]
  <2>1. q \in 1..m
    BY <1>3
  <2> QED  BY <1>2, <1>4, <2>1
<1>6. ASSUME NEW q \in 1..b PROVE W[a + q] = B[q]
  <2>1. a + q \in 1..m
    BY <1>3
  <2> QED  BY <1>2, <1>4, <2>1
<1> QED  BY <1>1, <1>3, <1>4, <1>5, <1>6 DEF OfThree

LEMMA ThreeJoin ==
    ASSUME NEW A \in Seq(Digit), NEW B \in Seq(Digit), NEW C \in Seq(Digit), NEW W,
           OfThree(W, A, B, C)
    PROVE  W = (A \o B) \o C
<1> DEFINE X == A \o B
           Y == X \o C
<1>1. OfTwo(X, A, B)
  BY JoinIs
<1>2. X \in Seq(Digit)
  OBVIOUS
<1> HIDE DEF X
<1>3. OfTwo(Y, X, C)
  BY <1>2, JoinIs
<1> HIDE DEF Y
<1>4. OfThree(Y, A, B, C)
  BY <1>1, <1>3, ThreeOfTwo
<1>5. PICK a \in Nat, b \in Nat, c \in Nat : a = Len(A) /\ b = Len(B) /\ c = Len(C)
  OBVIOUS
<1>6. PICK m \in Nat : m = a + b
  OBVIOUS
<1>7. /\ W \in Seq(Digit) /\ Len(W) = m + c
      /\ \A q \in 1..a : W[q] = A[q]
      /\ \A q \in 1..b : W[a + q] = B[q]
      /\ \A q \in 1..c : W[m + q] = C[q]
  BY <1>5, <1>6 DEF OfThree
<1>8. /\ Y \in Seq(Digit) /\ Len(Y) = m + c
      /\ \A q \in 1..a : Y[q] = A[q]
      /\ \A q \in 1..b : Y[a + q] = B[q]
      /\ \A q \in 1..c : Y[m + q] = C[q]
  BY <1>4, <1>5, <1>6 DEF OfThree
<1>9. ASSUME NEW q \in 1..Len(Y) PROVE W[q] = Y[q]
  <2>1. q \in 1..((a + b) + c)
    BY <1>6, <1>8
  <2>2. \/ q \in 1..a
        \/ \E k \in 1..b : q = a + k
        \/ \E k \in 1..c : q = (a + b) + k
    BY <2>1, PartsCover
  <2>3. CASE q \in 1..a
    BY <1>7, <1>8, <2>3
  <2>4. ASSUME NEW k \in 1..b, q = a + k PROVE W[q] = Y[q]
    BY <1>7, <1>8, <2>4
  <2>5. ASSUME NEW k \in 1..c, q = (a + b) + k PROVE W[q] = Y[q]
    <3>1. q = m + k
      BY <1>6, <2>5
    <3> QED  BY <1>7, <1>8, <3>1
  <2> QED  BY <2>2, <2>3, <2>4, <2>5
<1>10. W = Y
  BY <1>7, <1>8, <1>9, SameSeq
<1> QED  BY <1>10 DEF X, Y

LEMMA FiveJoin ==
    ASSUME NEW A \in Seq(Digit), NEW B \in Seq(Digit), NEW C \in Seq(Digit), NEW D \in Seq(Digit),
           NEW E \in Seq(Digit), NEW W, OfFive(W, A, B, C, D, E)
    PROVE  W = (((A \o B) \o C) \o D) \o E
<1> DEFINE X == A \o B
           Y == X \o C
<1>1. OfTwo(X, A, B)
  BY JoinIs
<1>2. X \in Seq(Digit)
  OBVIOUS
<1> HIDE DEF X
<1>3. OfTwo(Y, X, C) /\ Y \in Seq(Digit)
  BY <1>2, JoinIs
<1> HIDE DEF Y
<1>4. OfThree(Y, A, B, C)
  BY <1>1, <1>3, ThreeOfTwo
<1>5. PICK a \in Nat, b \in Nat, c \in Nat : a = Len(A) /\ b = Len(B) /\ c = Len(C)
  OBVIOUS
<1>6. PICK d \in Nat, e \in Nat : d = Len(D) /\ e = Len(E)
  OBVIOUS
<1>7. PICK x \in Nat : x = (a + b) + c
  OBVIOUS
<1>8. /\ Len(Y) = x
      /\ \A q \in 1..a : Y[q] = A[q]
      /\ \A q \in 1..b : Y[a + q] = B[q]
      /\ \A q \in 1..c : Y[(a + b) + q] = C[q]
  BY <1>4, <1>5, <1>7 DEF OfThree
<1>9. /\ \A q \in 1..a : W[q] = A[q]
      /\ \A q \in 1..b : W[a + q] = B[q]
      /\ \A q \in 1..c : W[(a + b) + q] = C[q]
  BY <1>5 DEF OfFive
<1>10. /\ W \in Seq(Digit) /\ Len(W) = (x + d) + e
       /\ \A q \in 1..d : W[x + q] = D[q]
       /\ \A q \in 1..e : W[(x + d) + q] = E[q]
  BY <1>5, <1>6, <1>7 DEF OfFive
<1>11. ASSUME NEW q \in 1..x PROVE W[q] = Y[q]
  <2>1. q \in 1..((a + b) + c)
    BY <1>7
  <2>2. \/ q \in 1..a
        \/ \E k \in 1..b : q = a + k
        \/ \E k \in 1..c : q = (a + b) + k
    BY <2>1, PartsCover
  <2>3. CASE q \in 1..a
    BY <1>8, <1>9, <2>3
  <2>4. ASSUME NEW k \in 1..b, q = a + k PROVE W[q] = Y[q]
    BY <1>8, <1>9, <2>4
  <2>5. ASSUME NEW k \in 1..c, q = (a + b) + k PROVE W[q] = Y[q]
    BY <1>8, <1>9, <2>5
  <2> QED  BY <2>2, <2>3, <2>4, <2>5
<1>12. OfThree(W, Y, D, E)
  BY <1>6, <1>8, <1>10, <1>11 DEF OfThree
<1>13. W = (Y \o D) \o E
  BY <1>3, <1>12, ThreeJoin
<1> QED  BY <1>13 DEF X, Y

LEMMA SplicedIs ==
    ASSUME NEW T \in Seq(Digit), NEW p \in 1..(Len(T) + 1), NEW V \in Seq(Digit)
    PROVE  Inlaid(T, p, V, Len(V)) = SubSeq(T, 1, p - 1) \o V \o SubSeq(T, p, (Len(T) + 1) - 1)
<1> DEFINE n == Len(V)
           e == Len(T) + 1
           A == SubSeq(T, 1, p - 1)
           B == SubSeq(T, p, e - 1)
           W == Inlaid(T, p, V, n)
           a == p - 1
           b == e - p
<1>1. Len(T) \in Nat /\ n \in Nat /\ p \in Digit /\ p \in Nat /\ e \in Digit /\ e \in Nat /\ 1 \in Digit
      /\ p > 0 /\ 1 <= p /\ p <= e /\ n \in 0..Len(V)
  BY DEF Digit
<1>2. A \in Seq(Digit) /\ Len(A) = p - 1 /\ \A q \in 1..(p - 1) : A[q] = T[q + (1 - 1)]
  BY <1>1, PieceIs
<1>3. B \in Seq(Digit) /\ Len(B) = e - p /\ \A q \in 1..(e - p) : B[q] = T[q + (p - 1)]
  BY <1>1, PieceIs
<1>4. /\ W \in Seq(Digit) /\ Len(W) = Len(T) + n
      /\ \A q \in 1..(Len(T) + n) :
            /\ q < p => W[q] = T[q]
            /\ p <= q /\ q < p + n => W[q] = V[q - p + 1]
            /\ p + n <= q => W[q] = T[q - n]
  BY <1>1, InlaidIs
<1> HIDE DEF W, A, B
<1>5. Len(W) = (a + n) + b
  BY <1>1, <1>4
<1>6. ASSUME NEW q \in 1..a PROVE W[q] = A[q]
  <2>1. q \in 1..(Len(T) + n) /\ q < p /\ q + (1 - 1) = q
    BY <1>1
  <2> QED  BY <1>2, <1>4, <2>1
<1>7. ASSUME NEW q \in 1..n PROVE W[a + q] = V[q]
  <2>1. a + q \in 1..(Len(T) + n) /\ p <= a + q /\ a + q < p + n /\ (a + q) - p + 1 = q
    BY <1>1
  <2> QED  BY <1>4, <2>1
<1>8. ASSUME NEW q \in 1..b PROVE W[(a + n) + q] = B[q]
  <2>1. (a + n) + q \in 1..(Len(T) + n) /\ p + n <= (a + n) + q /\ ((a + n) + q) - n = q + (p - 1)
    BY <1>1
  <2> QED  BY <1>3, <1>4, <2>1
<1>9. OfThree(W, A, V, B)
  <2>1. Len(A) = a /\ Len(B) = b /\ Len(V) = n
    BY <1>2, <1>3
  <2> HIDE DEF a, b, n
  <2> QED  BY <1>4, <1>5, <1>6, <1>7, <1>8, <2>1 DEF OfThree
<1>10. W = (A \o V) \o B
  BY <1>2, <1>3, <1>9, ThreeJoin
<1> QED  BY <1>10 DEF W, A, B

LEMMA WithInlaid ==
    ASSUME NEW T \in Seq(Digit), NEW p \in 1..(Len(T) + 1), NEW m \in Nat, NEW n \in Digit
    PROVE  LET V == [k \in 1..n |-> m + k]
           IN  With(T, p, m + 1, n) = (SubSeq(T, 1, p - 1) \o V) \o SubSeq(T, p, (Len(T) + 1) - 1)
<1> DEFINE V == [k \in 1..n |-> m + k]
           W == With(T, p, m + 1, n)
           I == Inlaid(T, p, V, n)
<1>1. n \in Nat /\ n > 0 /\ m + 1 \in Digit /\ Len(T) \in Nat /\ p \in Nat
  BY DEF Digit
<1>2. V \in [1..n -> Digit]
  BY <1>1 DEF Digit
<1>3. V \in Seq(Digit) /\ Len(V) = n
  <2> HIDE DEF V
  <2> QED  BY <1>1, <1>2
<1>4. \A k \in 1..n : V[k] = m + k
  OBVIOUS
<1> HIDE DEF V
<1>5. /\ W \in Seq(Digit) /\ Len(W) = Len(T) + n
      /\ \A q \in 1..(Len(T) + n) :
            /\ q < p => W[q] = T[q]
            /\ p <= q /\ q < p + n => W[q] = (m + 1) + (q - p)
            /\ p + n <= q => W[q] = T[q - n]
  <2> HIDE DEF W
  <2> DEFINE f == m + 1
  <2>1. f \in Digit
    BY <1>1
  <2> HIDE DEF f
  <2>2. /\ With(T, p, f, n) \in Seq(Digit) /\ Len(With(T, p, f, n)) = Len(T) + n
        /\ \A q \in 1..(Len(T) + n) :
              /\ q < p => q \in 1..Len(T) /\ With(T, p, f, n)[q] = T[q]
              /\ p <= q /\ q < p + n => With(T, p, f, n)[q] = f + (q - p)
              /\ p + n <= q => q - n \in 1..Len(T) /\ With(T, p, f, n)[q] = T[q - n]
    BY <2>1, WithIs
  <2> QED  BY <2>2 DEF W, f
<1>6. /\ I \in Seq(Digit) /\ Len(I) = Len(T) + n
      /\ \A q \in 1..(Len(T) + n) :
            /\ q < p => I[q] = T[q]
            /\ p <= q /\ q < p + n => I[q] = V[q - p + 1] /\ q - p + 1 \in 1..n
            /\ p + n <= q => I[q] = T[q - n]
  <2>1. n \in 0..Len(V)
    BY <1>1, <1>3
  <2> HIDE DEF I
  <2> QED  BY <1>3, <2>1, InlaidIs DEF I
<1> HIDE DEF W, I
<1>7. ASSUME NEW q \in 1..Len(I) PROVE W[q] = I[q]
  <2>1. q \in 1..(Len(T) + n) /\ q \in Nat
    BY <1>1, <1>6
  <2>2. CASE p <= q /\ q < p + n
    <3>1. I[q] = m + (q - p + 1)
      BY <1>4, <1>6, <2>1, <2>2
    <3>2. W[q] = (m + 1) + (q - p)
      BY <1>5, <2>1, <2>2
    <3>3. m + (q - p + 1) = (m + 1) + (q - p)
      BY <1>1, <2>1
    <3> QED  BY <3>1, <3>2, <3>3
  <2>3. CASE q < p
    BY <1>5, <1>6, <2>1, <2>3
  <2>4. CASE p + n <= q
    BY <1>5, <1>6, <2>1, <2>4
  <2> QED  BY <1>1, <2>1, <2>2, <2>3, <2>4
<1>8. W = I
  BY <1>5, <1>6, <1>7, SameSeq
<1>9. Inlaid(T, p, V, Len(V)) = (SubSeq(T, 1, p - 1) \o V) \o SubSeq(T, p, (Len(T) + 1) - 1)
  BY <1>3, SplicedIs
<1>10. W = (SubSeq(T, 1, p - 1) \o V) \o SubSeq(T, p, (Len(T) + 1) - 1)
  BY <1>3, <1>8, <1>9 DEF I
<1> QED  BY <1>10 DEF W, V

LEMMA CopiedIsPiece ==
    ASSUME NEW T \in Seq(Digit), NEW a \in Digit, NEW b \in Digit, a < b, b <= Len(T) + 1
    PROVE  Copied(T, a, b) = SubSeq(T, a, b - 1) /\ Copied(T, a, b) \in Seq(Digit)
           /\ Len(Copied(T, a, b)) = b - a
<1> DEFINE V == Copied(T, a, b)
           P == SubSeq(T, a, b - 1)
<1>1. a \in Nat /\ b \in Nat /\ a <= b
  BY DEF Digit
<1>2. P \in Seq(Digit) /\ Len(P) = b - a /\ \A q \in 1..(b - a) : P[q] = T[q + (a - 1)]
  BY <1>1, PieceIs
<1>3. V \in Seq(Digit) /\ Len(V) = b - a /\ \A q \in 1..(b - a) : V[q] = T[(a - 1) + q]
  BY CopiedIs
<1> HIDE DEF V, P
<1>4. ASSUME NEW q \in 1..Len(P) PROVE V[q] = P[q]
  <2>1. q \in 1..(b - a) /\ q + (a - 1) = (a - 1) + q
    BY <1>1, <1>2
  <2> QED  BY <1>2, <1>3, <2>1
<1>5. V = P
  BY <1>2, <1>3, <1>4, SameSeq
<1> QED  BY <1>3, <1>5 DEF V, P

LEMMA WithoutJoined ==
    ASSUME NEW T \in Seq(Digit), NEW a \in Digit, NEW b \in Digit, a < b, b <= Len(T) + 1
    PROVE  Without(T, a, b - a) = SubSeq(T, 1, a - 1) \o SubSeq(T, b, (Len(T) + 1) - 1)
<1> DEFINE e == Len(T) + 1
           n == b - a
           W == Without(T, a, n)
           A == SubSeq(T, 1, a - 1)
           B == SubSeq(T, b, e - 1)
           X == A \o B
           x == a - 1
           y == e - b
<1>1. a \in Nat /\ b \in Nat /\ a > 0 /\ 1 \in Digit /\ 1 <= a /\ a <= e /\ e \in Digit /\ e \in Nat
      /\ Len(T) \in Nat /\ n \in Digit /\ n \in Nat /\ a + n <= Len(T) + 1 /\ a + n = b
  BY DEF Digit
<1>2. A \in Seq(Digit) /\ Len(A) = x /\ x \in Nat /\ \A q \in 1..x : A[q] = T[q + (1 - 1)]
  BY <1>1, PieceIs
<1>3. B \in Seq(Digit) /\ Len(B) = y /\ y \in Nat /\ \A q \in 1..y : B[q] = T[q + (b - 1)]
  BY <1>1, PieceIs
<1>4. /\ W \in Seq(Digit) /\ Len(W) = Len(T) - n
      /\ \A q \in 1..(Len(T) - n) :
            /\ q < a => q \in 1..Len(T) /\ W[q] = T[q]
            /\ a <= q => q + n \in 1..Len(T) /\ W[q] = T[q + n]
  <2> HIDE DEF n
  <2>1. /\ Without(T, a, n) \in Seq(Digit) /\ Len(Without(T, a, n)) = Len(T) - n
        /\ Len(T) - n \in Nat
        /\ \A q \in 1..(Len(T) - n) :
              /\ q < a => q \in 1..Len(T) /\ Without(T, a, n)[q] = T[q]
              /\ a <= q => q + n \in 1..Len(T) /\ Without(T, a, n)[q] = T[q + n]
    BY <1>1, WithoutIs, SMTT(30)
  <2> QED  BY <2>1
<1> HIDE DEF W, A, B
<1>5. OfTwo(X, A, B)
  BY <1>2, <1>3, JoinIs
<1> HIDE DEF X
<1>6. /\ X \in Seq(Digit) /\ Len(X) = x + y
      /\ \A q \in 1..x : X[q] = A[q]
      /\ \A q \in 1..y : X[x + q] = B[q]
  BY <1>2, <1>3, <1>5 DEF OfTwo
<1>7. x + y = Len(T) - n
  BY <1>1
<1>8. ASSUME NEW q \in 1..Len(X) PROVE W[q] = X[q]
  <2>1. q \in 1..(x + y) /\ q \in Nat /\ q \in 1..(Len(T) - n)
    BY <1>2, <1>3, <1>6, <1>7
  <2>2. CASE q < a
    <3>1. q \in 1..x /\ q + (1 - 1) = q
      BY <1>1, <2>1, <2>2
    <3> QED  BY <1>2, <1>4, <1>6, <2>1, <2>2, <3>1
  <2>3. CASE a <= q
    <3>1. PICK k \in Nat : k = q - x
      BY <1>1, <2>1, <2>3
    <3>2. k \in 1..y /\ q = x + k /\ k + (b - 1) = q + n
      BY <1>1, <2>1, <2>3, <3>1
    <3>3. X[q] = B[k] /\ B[k] = T[k + (b - 1)]
      BY <1>3, <1>6, <3>2
    <3>4. W[q] = T[q + n]
      BY <1>4, <2>1, <2>3
    <3> QED  BY <3>2, <3>3, <3>4
  <2> QED  BY <1>1, <2>1, <2>2, <2>3
<1>9. W = X
  BY <1>4, <1>6, <1>7, <1>8, SameSeq
<1> QED  BY <1>9 DEF W, X, A, B, n, e

\* The regions from c0 to c1 and from c2 to c3 change places.
Rearranged(W, T, c0, c1, c2, c3) ==
    /\ W \in Seq(Digit) /\ Len(W) = Len(T)
    /\ \A q \in 1..(c0 - 1) : W[q] = T[q]
    /\ \A q \in 1..(c3 - c2) : W[(c0 - 1) + q] = T[q + (c2 - 1)]
    /\ \A q \in 1..(c2 - c1) : W[((c0 - 1) + (c3 - c2)) + q] = T[q + (c1 - 1)]
    /\ \A q \in 1..(c1 - c0) : W[(((c0 - 1) + (c3 - c2)) + (c2 - c1)) + q] = T[q + (c0 - 1)]
    /\ \A q \in 1..((Len(T) + 1) - c3) :
          W[((((c0 - 1) + (c3 - c2)) + (c2 - c1)) + (c1 - c0)) + q] = T[q + (c3 - 1)]

Pieces(T, c0, c1, c2, c3) ==
    (((SubSeq(T, 1, c0 - 1) \o SubSeq(T, c2, c3 - 1)) \o SubSeq(T, c1, c2 - 1))
         \o SubSeq(T, c0, c1 - 1)) \o SubSeq(T, c3, (Len(T) + 1) - 1)

LEMMA RearrangedJoined ==
    ASSUME NEW T \in Seq(Digit), NEW W,
           NEW c0 \in Digit, NEW c1 \in Digit, NEW c2 \in Digit, NEW c3 \in Digit,
           c0 <= c1, c1 <= c2, c2 <= c3, c3 <= Len(T) + 1, Rearranged(W, T, c0, c1, c2, c3)
    PROVE  W = Pieces(T, c0, c1, c2, c3)
<1> DEFINE z == Len(T) + 1
           A == SubSeq(T, 1, c0 - 1)
           B == SubSeq(T, c2, c3 - 1)
           C == SubSeq(T, c1, c2 - 1)
           D == SubSeq(T, c0, c1 - 1)
           E == SubSeq(T, c3, z - 1)
           a == c0 - 1
           b == c3 - c2
           c == c2 - c1
           d == c1 - c0
           e == z - c3
<1>1. /\ c0 \in Nat /\ c1 \in Nat /\ c2 \in Nat /\ c3 \in Nat /\ c0 > 0 /\ z \in Nat /\ z \in Digit
      /\ 1 \in Digit /\ 1 <= c0 /\ c0 <= z /\ c1 <= z /\ c2 <= z /\ c3 <= z /\ z <= Len(T) + 1
      /\ Len(T) \in Nat
  BY DEF Digit
<1>2. A \in Seq(Digit) /\ Len(A) = a /\ \A q \in 1..a : A[q] = T[q + (1 - 1)]
  BY <1>1, PieceIs
<1>3. B \in Seq(Digit) /\ Len(B) = b /\ \A q \in 1..b : B[q] = T[q + (c2 - 1)]
  BY <1>1, PieceIs
<1>4. C \in Seq(Digit) /\ Len(C) = c /\ \A q \in 1..c : C[q] = T[q + (c1 - 1)]
  BY <1>1, PieceIs
<1>5. D \in Seq(Digit) /\ Len(D) = d /\ \A q \in 1..d : D[q] = T[q + (c0 - 1)]
  BY <1>1, PieceIs
<1>6. E \in Seq(Digit) /\ Len(E) = e /\ \A q \in 1..e : E[q] = T[q + (c3 - 1)]
  BY <1>1, PieceIs
<1> HIDE DEF A, B, C, D, E
<1>7. Len(W) = (((a + b) + c) + d) + e
  BY <1>1 DEF Rearranged
<1>8. ASSUME NEW q \in 1..a PROVE W[q] = A[q]
  <2>1. q + (1 - 1) = q
    BY <1>1
  <2> QED  BY <1>2, <2>1 DEF Rearranged
<1>9. W \in Seq(Digit) /\ \A q \in 1..b : W[a + q] = B[q]
  BY <1>3 DEF Rearranged
<1>10. \A q \in 1..c : W[(a + b) + q] = C[q]
  BY <1>4 DEF Rearranged
<1>11. \A q \in 1..d : W[((a + b) + c) + q] = D[q]
  BY <1>5 DEF Rearranged
<1>12. \A q \in 1..e : W[(((a + b) + c) + d) + q] = E[q]
  BY <1>6 DEF Rearranged
<1>13. OfFive(W, A, B, C, D, E)
  <2> HIDE DEF a, b, c, d, e
  <2> QED  BY <1>2, <1>3, <1>4, <1>5, <1>6, <1>7, <1>8, <1>9, <1>10, <1>11, <1>12 DEF OfFive
<1>14. W = (((A \o B) \o C) \o D) \o E
  BY <1>2, <1>3, <1>4, <1>5, <1>6, <1>13, FiveJoin
<1> QED  BY <1>14 DEF A, B, C, D, E, z, Pieces

LEMMA TurnedRearranged ==
    ASSUME NEW T \in Seq(Digit), NEW c1 \in Digit, NEW c2 \in Digit, NEW c3 \in Digit,
           c1 < c2, c2 <= c3, c3 <= Len(T) + 1
    PROVE  Rearranged(Turned(T, c1, c2, c3), T, c1, c2, c2, c3)
<1> DEFINE W == Turned(T, c1, c2, c3)
           b == c1 + (c3 - c2)
<1>1. /\ W \in Seq(Digit) /\ Len(W) = Len(T)
      /\ \A q \in 1..Len(T) :
            /\ q < c1 \/ c3 <= q => W[q] = T[q]
            /\ c1 <= q /\ q < b => W[q] = T[q + (c2 - c1)] /\ q + (c2 - c1) \in 1..Len(T)
            /\ b <= q /\ q < c3 => W[q] = T[q - (c3 - c2)] /\ q - (c3 - c2) \in 1..Len(T)
  BY TurnedIs
<1>2. c1 \in Nat /\ c2 \in Nat /\ c3 \in Nat /\ c1 > 0 /\ Len(T) \in Nat /\ b \in Nat
  BY DEF Digit
<1> HIDE DEF W
<1>3. ASSUME NEW q \in 1..(c1 - 1) PROVE W[q] = T[q]
  <2>1. q \in 1..Len(T) /\ q < c1
    BY <1>2
  <2> QED  BY <1>1, <2>1
<1>4. ASSUME NEW q \in 1..(c3 - c2) PROVE W[(c1 - 1) + q] = T[q + (c2 - 1)]
  <2> DEFINE r == (c1 - 1) + q
  <2>1. r \in 1..Len(T) /\ c1 <= r /\ r < b /\ r + (c2 - c1) = q + (c2 - 1)
    BY <1>2
  <2> HIDE DEF r
  <2>2. W[r] = T[r + (c2 - c1)]
    BY <1>1, <2>1
  <2> QED  BY <2>1, <2>2 DEF r
<1>5. ASSUME NEW q \in 1..(c2 - c1)
      PROVE  W[(((c1 - 1) + (c3 - c2)) + (c2 - c2)) + q] = T[q + (c1 - 1)]
  <2> DEFINE r == (((c1 - 1) + (c3 - c2)) + (c2 - c2)) + q
  <2>1. r \in 1..Len(T) /\ b <= r /\ r < c3 /\ r - (c3 - c2) = q + (c1 - 1)
    BY <1>2
  <2> HIDE DEF r
  <2>2. W[r] = T[r - (c3 - c2)]
    BY <1>1, <2>1
  <2> QED  BY <2>1, <2>2 DEF r
<1>6. ASSUME NEW q \in 1..((Len(T) + 1) - c3)
      PROVE  W[((((c1 - 1) + (c3 - c2)) + (c2 - c2)) + (c2 - c1)) + q] = T[q + (c3 - 1)]
  <2> DEFINE r == ((((c1 - 1) + (c3 - c2)) + (c2 - c2)) + (c2 - c1)) + q
  <2>1. r \in 1..Len(T) /\ c3 <= r /\ r = q + (c3 - 1)
    BY <1>2
  <2> HIDE DEF r
  <2>2. W[r] = T[r]
    BY <1>1, <2>1
  <2> QED  BY <2>1, <2>2 DEF r
<1>7. 1..(c2 - c2) = {}
  BY <1>2
<1> QED  BY <1>1, <1>3, <1>4, <1>5, <1>6, <1>7 DEF Rearranged, W

LEMMA SwappedRearranged ==
    ASSUME NEW T \in Seq(Digit), NEW c1 \in Digit, NEW c2 \in Digit, NEW c3 \in Digit, NEW c4 \in Digit,
           c1 < c2, c2 <= c3, c4 - c3 = c2 - c1, c4 <= Len(T) + 1
    PROVE  Rearranged(Swapped(T, c1, c2, c3, c4), T, c1, c2, c3, c4)
<1> DEFINE W == Swapped(T, c1, c2, c3, c4)
<1>1. /\ W \in Seq(Digit) /\ Len(W) = Len(T)
      /\ \A q \in 1..Len(T) :
            /\ q < c1 \/ (c2 <= q /\ q < c3) \/ c4 <= q => W[q] = T[q]
            /\ c1 <= q /\ q < c2 => W[q] = T[q + (c3 - c1)] /\ q + (c3 - c1) \in 1..Len(T)
            /\ c3 <= q /\ q < c4 => W[q] = T[q - (c3 - c1)] /\ q - (c3 - c1) \in 1..Len(T)
  BY SwappedIs
<1>2. c1 \in Nat /\ c2 \in Nat /\ c3 \in Nat /\ c4 \in Nat /\ c1 > 0 /\ Len(T) \in Nat
  BY DEF Digit
<1> HIDE DEF W
<1>3. ASSUME NEW q \in 1..(c1 - 1) PROVE W[q] = T[q]
  <2>1. q \in 1..Len(T) /\ q < c1
    BY <1>2
  <2> QED  BY <1>1, <2>1
<1>4. ASSUME NEW q \in 1..(c4 - c3) PROVE W[(c1 - 1) + q] = T[q + (c3 - 1)]
  <2> DEFINE r == (c1 - 1) + q
  <2>1. r \in 1..Len(T) /\ c1 <= r /\ r < c2 /\ r + (c3 - c1) = q + (c3 - 1)
    BY <1>2
  <2> HIDE DEF r
  <2>2. W[r] = T[r + (c3 - c1)]
    BY <1>1, <2>1
  <2> QED  BY <2>1, <2>2 DEF r
<1>5. ASSUME NEW q \in 1..(c3 - c2) PROVE W[((c1 - 1) + (c4 - c3)) + q] = T[q + (c2 - 1)]
  <2> DEFINE r == ((c1 - 1) + (c4 - c3)) + q
  <2>1. r \in 1..Len(T) /\ c2 <= r /\ r < c3 /\ r = q + (c2 - 1)
    BY <1>2
  <2> HIDE DEF r
  <2>2. W[r] = T[r]
    BY <1>1, <2>1
  <2> QED  BY <2>1, <2>2 DEF r
<1>6. ASSUME NEW q \in 1..(c2 - c1)
      PROVE  W[(((c1 - 1) + (c4 - c3)) + (c3 - c2)) + q] = T[q + (c1 - 1)]
  <2> DEFINE r == (((c1 - 1) + (c4 - c3)) + (c3 - c2)) + q
  <2>1. r \in 1..Len(T) /\ c3 <= r /\ r < c4 /\ r - (c3 - c1) = q + (c1 - 1)
    BY <1>2
  <2> HIDE DEF r
  <2>2. W[r] = T[r - (c3 - c1)]
    BY <1>1, <2>1
  <2> QED  BY <2>1, <2>2 DEF r
<1>7. ASSUME NEW q \in 1..((Len(T) + 1) - c4)
      PROVE  W[((((c1 - 1) + (c4 - c3)) + (c3 - c2)) + (c2 - c1)) + q] = T[q + (c4 - 1)]
  <2> DEFINE r == ((((c1 - 1) + (c4 - c3)) + (c3 - c2)) + (c2 - c1)) + q
  <2>1. r \in 1..Len(T) /\ c4 <= r /\ r = q + (c4 - 1)
    BY <1>2
  <2> HIDE DEF r
  <2>2. W[r] = T[r]
    BY <1>1, <2>1
  <2> QED  BY <2>1, <2>2 DEF r
<1> QED  BY <1>1, <1>3, <1>4, <1>5, <1>6, <1>7 DEF Rearranged, W

\* Where the link at k goes when those from a to b are deleted, e if there is no text.
Going(e, a, b, k) == IF e /\ k >= b THEN k - (b - a) ELSE k

LEMMA UnlinkedGoing ==
    ASSUME NEW L, Linked(L), NEW a \in Nat, NEW b \in Nat, a < b, NEW e \in BOOLEAN
    PROVE  LET left == DOMAIN L \ (a..(b - 1))
           IN  [j \in {Going(e, a, b, k) : k \in left} |->
                    L[CHOOSE k \in left : Going(e, a, b, k) = j]]
                 = IF e THEN MovedUp(L, a, b - a) ELSE Unlinked(L, a, b - a)
<1> DEFINE left == DOMAIN L \ (a..(b - 1))
           n == b - a
           D == {Going(e, a, b, k) : k \in left}
           G == [j \in D |-> L[CHOOSE k \in left : Going(e, a, b, k) = j]]
<1>1. \A k \in DOMAIN L : k \in Nat
  BY DEF Linked
<1>2. n \in Nat /\ n > 0 /\ a + n = b
  OBVIOUS
<1>3. \A k : k \in left <=> k \in DOMAIN L /\ (k < a \/ a + n <= k)
  <2>1. ASSUME NEW k \in DOMAIN L PROVE k \in a..(b - 1) <=> ~(k < a \/ a + n <= k)
    BY <1>1, <1>2, <2>1
  <2> QED  BY <2>1
<1> HIDE DEF left
<1>4. \A k \in left : k \in Nat /\ k \in DOMAIN L
  BY <1>1, <1>3
<1>5. CASE ~e
  <2>1. \A k \in left : Going(e, a, b, k) = k
    BY <1>5 DEF Going
  <2>2. D = left
    BY <2>1
  <2>3. \A j \in left : (CHOOSE k \in left : Going(e, a, b, k) = j) = j
    BY <2>1
  <2>4. G = [j \in left |-> L[j]]
    BY <2>2, <2>3
  <2>5. left = {k \in DOMAIN L : k < a \/ a + n <= k}
    BY <1>3
  <2> HIDE DEF n
  <2>6. Unlinked(L, a, n) = [j \in left |-> L[j]]
    BY <2>5 DEF Unlinked
  <2> QED  BY <1>5, <2>4, <2>6 DEF n, left
<1>6. CASE e
  <2>1. \A k \in left : k < a => Going(e, a, b, k) = k
    BY <1>4 DEF Going
  <2>2. \A k \in left : a + n <= k => Going(e, a, b, k) = k - n
    BY <1>2, <1>4, <1>6 DEF Going
  <2> DEFINE H == {k \in DOMAIN L : k < a} \union {k - n : k \in {k \in DOMAIN L : a + n <= k}}
  <2>3. ASSUME NEW j PROVE j \in D <=> j \in H
    <3>1. ASSUME NEW k \in left, j = Going(e, a, b, k) PROVE j \in H
      <4>1. k \in DOMAIN L /\ (k < a \/ a + n <= k)
        BY <1>3
      <4> QED  BY <2>1, <2>2, <3>1, <4>1
    <3>2. ASSUME NEW k \in DOMAIN L, k < a, j = k PROVE j \in D
      <4>1. k \in left /\ Going(e, a, b, k) = j
        BY <1>3, <2>1, <3>2
      <4> QED  BY <4>1
    <3>3. ASSUME NEW k \in DOMAIN L, a + n <= k, j = k - n PROVE j \in D
      <4>1. k \in left /\ Going(e, a, b, k) = j
        BY <1>3, <2>2, <3>3
      <4> QED  BY <4>1
    <3> QED  BY <3>1, <3>2, <3>3
  <2>4. D = H
    BY <2>3
  <2> DEFINE Chosen(j) == CHOOSE k \in left : Going(e, a, b, k) = j
  <2>5. ASSUME NEW j \in D PROVE Chosen(j) = IF j < a THEN j ELSE j + n
    <3> DEFINE c == CHOOSE k \in left : Going(e, a, b, k) = j
    <3>1. c \in left /\ Going(e, a, b, c) = j
      OBVIOUS
    <3> HIDE DEF c
    <3>2. c \in Nat /\ (c < a \/ a + n <= c)
      BY <1>3, <1>4, <3>1
    <3>3. CASE c < a
      <4>1. c = j /\ j < a
        BY <2>1, <3>1, <3>3
      <4> QED  BY <4>1 DEF c
    <3>4. CASE a + n <= c
      <4>1. j = c - n
        BY <2>2, <3>1, <3>4
      <4>2. c = j + n /\ ~(j < a)
        BY <1>2, <3>2, <3>4, <4>1
      <4> QED  BY <4>2 DEF c
    <3> QED  BY <3>2, <3>3, <3>4
  <2>6. G = [j \in D |-> IF j < a THEN L[j] ELSE L[j + n]]
    <3> DEFINE K(j) == L[Chosen(j)]
               R(j) == IF j < a THEN L[j] ELSE L[j + n]
    <3>2. G = [j \in D |-> K(j)]
      OBVIOUS
    <3> HIDE DEF Chosen, D, n
    <3>1. ASSUME NEW j \in D PROVE K(j) = R(j)
      <4>1. Chosen(j) = IF j < a THEN j ELSE j + n
        BY <2>5
      <4> QED  BY <4>1
    <3>3. [j \in D |-> K(j)] = [j \in D |-> R(j)]
      <4> HIDE DEF K, R, D
      <4> QED  BY <3>1
    <3> HIDE DEF K, G
    <3> QED  BY <3>2, <3>3
  <2> HIDE DEF n, D
  <2>7. MovedUp(L, a, n) = [j \in D |-> IF j < a THEN L[j] ELSE L[j + n]]
    BY <2>4 DEF MovedUp
  <2> QED  BY <1>6, <2>6, <2>7 DEF n, left, D
<1> QED  BY <1>5, <1>6

-----------------------------------------------------------------------------
(* Every edit is one of Document. *)

LEMMA InsertImplements ==
    ASSUME PoomInv, DidInsert
    PROVE  DOC!Next
<1> DEFINE T == text
           m == made.char
           e == Len(T) + 1
<1>1. m \in Nat /\ T \in Seq(Digit) /\ Len(T) \in Nat /\ e = DOC!End
  BY CountedIs DEF DOC!End
<1>2. PICK p \in 1..e, n \in Digit :
        /\ text' = With(T, p, m + 1, n) /\ links' = links
        /\ made' = [made EXCEPT !.char = @ + n]
  BY DEF DidInsert
<1> DEFINE V == [k \in 1..n |-> m + k]
<1>3. text' = (SubSeq(T, 1, p - 1) \o V) \o SubSeq(T, p, e - 1)
  BY <1>1, <1>2, WithInlaid
<1>4. DOC!Insert(p, n)
  BY <1>1, <1>2, <1>3 DEF DOC!Insert, DOC!Spliced, DOC!Region
<1>5. n \in 1..(made'.char - m)
  <2>1. made = [char |-> made.char, link |-> made.link] /\ n \in Nat /\ n > 0
    BY CountedIs DEF Digit
  <2>2. made'.char = m + n
    BY <1>2, <2>1
  <2> QED  BY <1>1, <2>1, <2>2
<1> QED  BY <1>1, <1>4, <1>5 DEF DOC!Next

LEMMA CopyImplements ==
    ASSUME PoomInv, DidCopy
    PROVE  DOC!Next
<1> DEFINE T == text
           e == Len(T) + 1
<1>1. T \in Seq(Digit) /\ Len(T) \in Nat /\ e = DOC!End
  BY CountedIs DEF DOC!End
<1>2. PICK p \in 1..e, upto \in 1..e, from \in Digit :
        /\ from < upto
        /\ text' = Inlaid(T, p, Copied(T, from, upto), upto - from)
        /\ links' = links /\ made' = made
  BY DEF DidCopy
<1>3. upto \in Digit /\ upto <= Len(T) + 1 /\ from \in 1..upto
  BY <1>1, <1>2 DEF Digit
<1>4. Copied(T, from, upto) = SubSeq(T, from, upto - 1) /\ Copied(T, from, upto) \in Seq(Digit)
      /\ Len(Copied(T, from, upto)) = upto - from
  BY <1>1, <1>2, <1>3, CopiedIsPiece
<1> DEFINE V == Copied(T, from, upto)
<1>5. text' = Inlaid(T, p, V, Len(V))
  BY <1>2, <1>4
<1>6. text' = (SubSeq(T, 1, p - 1) \o V) \o SubSeq(T, p, e - 1)
  <2> HIDE DEF V
  <2>1. V \in Seq(Digit)
    BY <1>4 DEF V
  <2> QED  BY <1>1, <1>5, <2>1, SplicedIs
<1>7. DOC!Copy(p, from, upto)
  BY <1>1, <1>2, <1>4, <1>6 DEF DOC!Copy, DOC!Spliced, DOC!Region
<1> QED  BY <1>1, <1>3, <1>7 DEF DOC!Next

LEMMA DeleteImplements ==
    ASSUME PoomInv, DidDelete
    PROVE  DOC!Next
<1> DEFINE T == text
           e == Len(T) + 1
<1>1. T \in Seq(Digit) /\ Len(T) \in Nat /\ e = DOC!End
  BY CountedIs DEF DOC!End
<1>2. PICK from \in Digit, upto \in 1..e :
        /\ from < upto /\ text' = Without(T, from, upto - from)
        /\ links' = links /\ made' = made
  BY DEF DidDelete
<1>3. upto \in Digit /\ upto <= Len(T) + 1 /\ from \in 1..upto /\ upto \in 1..upto
  BY <1>1, <1>2 DEF Digit
<1>4. text' = SubSeq(T, 1, from - 1) \o SubSeq(T, upto, e - 1)
  BY <1>1, <1>2, <1>3, WithoutJoined
<1>5. DOC!Delete(from, upto)
  BY <1>1, <1>2, <1>4 DEF DOC!Delete, DOC!Region
<1> QED  BY <1>1, <1>3, <1>5 DEF DOC!Next

LEMMA RearrangeImplements ==
    ASSUME PoomInv, NEW c0 \in Digit, NEW c1 \in Digit, NEW c2 \in Digit, NEW c3 \in Digit,
           c0 <= c1, c1 <= c2, c2 <= c3, c3 <= Len(text) + 1,
           Rearranged(text', text, c0, c1, c2, c3), links' = links, made' = made
    PROVE  DOC!Next
<1> DEFINE T == text
           e == Len(T) + 1
<1>1. T \in Seq(Digit) /\ Len(T) \in Nat /\ e = DOC!End
  BY CountedIs DEF DOC!End
<1>2. c3 \in 1..e /\ c2 \in 1..c3 /\ c1 \in 1..c2 /\ c0 \in 1..c1
  BY <1>1 DEF Digit
<1>3. text' = (((SubSeq(T, 1, c0 - 1) \o SubSeq(T, c2, c3 - 1)) \o SubSeq(T, c1, c2 - 1))
                   \o SubSeq(T, c0, c1 - 1)) \o SubSeq(T, c3, e - 1)
  <2> DEFINE W == text'
  <2>1. T \in Seq(Digit) /\ c3 <= Len(T) + 1 /\ Rearranged(W, T, c0, c1, c2, c3)
    BY <1>1
  <2> HIDE DEF T, W
  <2>2. W = Pieces(T, c0, c1, c2, c3)
    BY <2>1, RearrangedJoined, SMTT(30)
  <2> QED  BY <2>2 DEF W, Pieces
<1>4. DOC!Rearrange(c0, c1, c2, c3)
  BY <1>1, <1>3, ZenonT(60) DEF DOC!Rearrange, DOC!Region
<1> QED  BY <1>1, <1>2, <1>4 DEF DOC!Next

LEMMA LinkImplements ==
    ASSUME PoomInv, DidLink
    PROVE  DOC!Next
<1>1. links' = Linking(links, Top(links) + 1, made.link + 1) /\ text' = text
      /\ made' = [made EXCEPT !.link = @ + 1]
  BY DEF DidLink
<1>2. Top(links) = DOC!Max({0} \union DOMAIN links) /\ Top(links) \in Nat
  BY CountedIs, TopIs DEF Top, Max, DOC!Max
<1> DEFINE t == 1 + DOC!Max({0} \union DOMAIN links)
<1>3. t = Top(links) + 1
  BY <1>2
<1> HIDE DEF t
<1>4. links' = [k \in DOMAIN links \union {t} |-> IF k = t THEN made.link + 1 ELSE links[k]]
  BY <1>1, <1>3 DEF Linking
<1>5. DOC!CreateLink
  BY <1>1, <1>4 DEF DOC!CreateLink, t
<1> QED  BY <1>5 DEF DOC!Next

LEMMA UnlinkImplements ==
    ASSUME PoomInv, DidUnlink
    PROVE  DOC!Next
<1> DEFINE L == links
           z == Top(L) + 1
           e == text = <<>>
<1>1. Linked(L) /\ text \in Seq(Digit) /\ DOMAIN L \subseteq Digit
  BY CountedIs
<1>2. /\ Top(L) \in Nat /\ z \in Nat /\ z = DOC!Max({0} \union DOMAIN L) + 1
      /\ \A q \in DOMAIN L : q \in Nat /\ q > 0 /\ q < z
  <2>1. Top(L) \in Nat /\ DOMAIN L \subseteq 1..Top(L)
    BY <1>1, TopIs
  <2>2. Top(L) = DOC!Max({0} \union DOMAIN L)
    BY DEF Top, Max, DOC!Max
  <2>3. \A q \in DOMAIN L : q \in 1..Top(L)
    BY <2>1
  <2> QED  BY <2>1, <2>2, <2>3
<1>3. PICK from \in DOMAIN L, upto \in Nat :
        /\ from < upto /\ text' = text /\ made' = made
        /\ links' = IF Len(text) = 0 THEN MovedUp(L, from, upto - from)
                    ELSE Unlinked(L, from, upto - from)
  BY DEF DidUnlink
<1>4. e <=> Len(text) = 0
  BY <1>1
<1> HIDE DEF z
<1> DEFINE u == IF upto <= z THEN upto ELSE z
<1>5. u \in Nat /\ from < u /\ u \in 1..z /\ from \in Nat /\ from \in Digit
      /\ (u = upto \/ (u = z /\ z <= upto))
  <2>1. from \in Nat /\ from > 0 /\ from < z /\ from \in Digit /\ upto \in Nat /\ from < upto
    BY <1>1, <1>2, <1>3
  <2>2. CASE upto <= z
    <3>1. u = upto
      BY <2>2
    <3> HIDE DEF u
    <3> QED  BY <1>2, <2>1, <2>2, <3>1
  <2>3. CASE ~(upto <= z)
    <3>1. u = z
      BY <2>3
    <3> HIDE DEF u
    <3> QED  BY <1>2, <2>1, <2>3, <3>1
  <2> QED  BY <2>2, <2>3
<1> HIDE DEF u
<1>6. ASSUME u = z, z <= upto
      PROVE  /\ Unlinked(L, from, upto - from) = Unlinked(L, from, u - from)
             /\ MovedUp(L, from, upto - from) = MovedUp(L, from, u - from)
  <2>1. ASSUME NEW k \in DOMAIN L
        PROVE  ~(from + (upto - from) <= k) /\ ~(from + (u - from) <= k)
    <3>1. k \in Nat /\ k < z
      BY <1>2
    <3>2. from + (upto - from) = upto /\ from + (u - from) = u
      BY <1>3, <1>5
    <3> QED  BY <1>2, <1>6, <3>1, <3>2
  <2> DEFINE n == upto - from
             r == u - from
             low == {k \in DOMAIN L : k < from}
  <2>2. \A k \in DOMAIN L : ~(from + n <= k) /\ ~(from + r <= k)
    BY <2>1
  <2> HIDE DEF n, r
  <2>3. {k \in DOMAIN L : k < from \/ from + n <= k} = low /\ {k \in DOMAIN L : k < from \/ from + r <= k} = low
    BY <2>2
  <2>4. Unlinked(L, from, n) = [q \in low |-> L[q]] /\ Unlinked(L, from, r) = [q \in low |-> L[q]]
    BY <2>3 DEF Unlinked
  <2>5. {k \in DOMAIN L : from + n <= k} = {} /\ {k \in DOMAIN L : from + r <= k} = {}
    BY <2>2
  <2>6. /\ low \union {k - n : k \in {k \in DOMAIN L : from + n <= k}} = low
        /\ low \union {k - r : k \in {k \in DOMAIN L : from + r <= k}} = low
    BY <2>5
  <2>7. /\ MovedUp(L, from, n) = [q \in low |-> IF q < from THEN L[q] ELSE L[q + n]]
        /\ MovedUp(L, from, r) = [q \in low |-> IF q < from THEN L[q] ELSE L[q + r]]
    BY <2>6 DEF MovedUp
  <2>8. MovedUp(L, from, n) = [q \in low |-> L[q]] /\ MovedUp(L, from, r) = [q \in low |-> L[q]]
    BY <2>7
  <2> QED  BY <2>4, <2>8 DEF n, r
<1>7. links' = IF e THEN MovedUp(L, from, u - from) ELSE Unlinked(L, from, u - from)
  BY <1>3, <1>4, <1>5, <1>6
<1> DEFINE left == DOMAIN L \ (from..(u - 1))
<1>8. links' = [j \in {Going(e, from, u, k) : k \in left} |->
                    L[CHOOSE k \in left : Going(e, from, u, k) = j]]
  <2>1. e \in BOOLEAN
    OBVIOUS
  <2> HIDE DEF e
  <2> QED  BY <1>1, <1>5, <1>7, <2>1, UnlinkedGoing
<1>9. DOC!DeleteLinks(from, u)
  BY <1>3, <1>8, Zenon DEF DOC!DeleteLinks, Going
<1> QED  BY <1>2, <1>5, <1>9 DEF DOC!Next, z

LEMMA StepImplements ==
    ASSUME PoomInv, [Next]_vars
    PROVE  [DOC!Next]_(DOC!vars)
<1>1. CASE UNCHANGED vars
  BY <1>1 DEF vars, DOC!vars
<1>2. CASE Next
  <2>1. Held /\ made.char \in Nat /\ made.link \in Nat /\ text \in Seq(Digit)
    BY CountedIs DEF PoomInv
  <2>2. DidInsert \/ DidCopy \/ DidLink \/ DidDelete \/ DidUnlink \/ DidPivot \/ DidSwap
    BY <1>2, <2>1, EditIs
  <2>3. CASE DidPivot
    <3>1. PICK c1 \in Digit, c2 \in Digit, c3 \in Digit :
            /\ c1 < c2 /\ c2 <= c3 /\ c3 <= Len(text) + 1
            /\ text' = Turned(text, c1, c2, c3) /\ links' = links /\ made' = made
      BY <2>3 DEF DidPivot
    <3>2. Rearranged(text', text, c1, c2, c2, c3)
      BY <2>1, <3>1, TurnedRearranged
    <3>3. c1 <= c2 /\ c2 <= c2
      BY <3>1 DEF Digit
    <3> QED  BY <3>1, <3>2, <3>3, RearrangeImplements
  <2>4. CASE DidSwap
    <3>1. PICK c1 \in Digit, c2 \in Digit, c3 \in Digit, c4 \in Digit :
            /\ c1 < c2 /\ c2 <= c3 /\ c4 - c3 = c2 - c1 /\ c4 <= Len(text) + 1
            /\ text' = Swapped(text, c1, c2, c3, c4) /\ links' = links /\ made' = made
      BY <2>4 DEF DidSwap
    <3>2. Rearranged(text', text, c1, c2, c3, c4)
      BY <2>1, <3>1, SwappedRearranged
    <3>3. c1 <= c2 /\ c3 <= c4
      BY <3>1 DEF Digit
    <3> QED  BY <3>1, <3>2, <3>3, RearrangeImplements
  <2> QED  BY <2>2, <2>3, <2>4, InsertImplements, CopyImplements, LinkImplements,
              DeleteImplements, UnlinkImplements
<1> QED  BY <1>1, <1>2

\* Whatever crums the editing before has left, each request within the
\* document's bounds makes of it what Document says: no character or link is lost, doubled
\* or moved otherwise, for documents of any length (orglinks.c, insertnd.c,
\* edit.c).
THEOREM Implements == Spec => EditsTheDocument
<1>1. Init => DOC!Init
  BY DEF Init, DOC!Init
<1>2. PoomInv /\ [Next]_vars => [DOC!Next]_(DOC!vars)
  BY StepImplements
<1> QED  BY <1>1, <1>2, Invariant, PTL DEF Spec, EditsTheDocument, DOC!Spec
=============================================================================
