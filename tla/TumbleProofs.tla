---------------------------- MODULE TumbleProofs ----------------------------
(***************************************************************************)
(* Tumblers of any number of places: the lemmas that the proofs about the  *)
(* granfilade and the POOM rest on, and the laws of tumbler arithmetic for *)
(* any operands.                                                           *)
(***************************************************************************)
EXTENDS TumbleLaws, WellFoundedInduction, TLAPS

-----------------------------------------------------------------------------
(* Least and greatest numbers. *)

LEMMA MinIs ==
    ASSUME NEW S \in SUBSET Nat, S # {}
    PROVE  Min(S) \in S /\ \A k \in S : Min(S) <= k
<1> DEFINE R == {ij \in Nat \X Nat : ij[1] < ij[2]}
<1>1. IsWellFoundedOn(R, Nat)
  BY NatLessThanWellFounded DEF OpToRel
<1>2. PICK m \in S : \A k \in S : ~(<<k, m>> \in R)
  <2> HIDE DEF R
  <2> QED  BY <1>1, WFMin
<1>3. \A k \in S : m <= k
  <2> SUFFICES ASSUME NEW k \in S PROVE m <= k
    OBVIOUS
  <2>1. m \in Nat /\ k \in Nat
    BY <1>2
  <2>2. <<k, m>> \in Nat \X Nat /\ <<k, m>>[1] = k /\ <<k, m>>[2] = m
    BY <2>1
  <2>3. ~(k < m)
    BY <1>2, <2>2
  <2> QED  BY <2>1, <2>3
<1> QED  BY <1>2, <1>3 DEF Min

LEMMA MaxIs ==
    ASSUME NEW n \in Nat, NEW S \in SUBSET (0..n), S # {}
    PROVE  Max(S) \in S /\ \A k \in S : k <= Max(S)
<1> DEFINE T == {n - k : k \in S}
<1>1. T \in SUBSET Nat /\ T # {}
  <2>1. \A k \in S : n - k \in Nat
    OBVIOUS
  <2>2. T \subseteq Nat
    BY <2>1
  <2>3. PICK k \in S : TRUE
    OBVIOUS
  <2>4. n - k \in T
    OBVIOUS
  <2> QED  BY <2>2, <2>4
<1>2. PICK t \in T : \A k \in T : t <= k
  BY <1>1, MinIs
<1>3. PICK m \in S : t = n - m
  BY <1>2
<1>4. \A k \in S : k <= m
  BY <1>2, <1>3
<1> QED  BY <1>3, <1>4 DEF Max

-----------------------------------------------------------------------------
(* The order. *)

\* The tumblers of the document space: what the program's checks call valid,
\* and not negative.
Number == {a \in tumbler : a.sign = 0 /\ tumblercheck(a)}

\* a is the lower of two that differ: by its exponent, or else at the first
\* place at which they do.
FirstBelow(a, b, p) ==
    a.mantissa[p] < b.mantissa[p] /\ \A q \in Place : q < p => a.mantissa[q] = b.mantissa[q]

Before(a, b) ==
    /\ ~iszerotumbler(b)
    /\ ~iszerotumbler(a) =>
          \/ a.exp < b.exp
          \/ a.exp = b.exp /\ \E p \in Place : FirstBelow(a, b, p)

LEMMA NumberType ==
    ASSUME NEW a \in Number
    PROVE  /\ a \in tumbler /\ a.sign = 0 /\ a.exp \in Int /\ a.exp <= 0
           /\ a.mantissa \in [Place -> Int]
           /\ \A p \in Place : a.mantissa[p] \in Nat
           /\ a = [sign |-> 0, exp |-> a.exp, mantissa |-> a.mantissa]
           /\ iszerotumbler(a) <=> a = ZEROTUMBLER
  BY PlacesAssumption DEF Number, tumbler, tumblercheck, iszerotumbler, ZEROTUMBLER, Place

LEMMA PlaceIs == 0 \in Place /\ Place \subseteq Nat
  BY PlacesAssumption DEF Place

LEMMA FirstDifferenceIs ==
    ASSUME NEW a \in tumbler, NEW b \in tumbler, a.mantissa # b.mantissa
    PROVE  /\ FirstDifference(a, b) \in Place
           /\ a.mantissa[FirstDifference(a, b)] # b.mantissa[FirstDifference(a, b)]
           /\ \A q \in Place : q < FirstDifference(a, b) => a.mantissa[q] = b.mantissa[q]
<1> DEFINE S == {p \in Place : a.mantissa[p] # b.mantissa[p]}
<1>1. a.mantissa \in [Place -> Int] /\ b.mantissa \in [Place -> Int]
  BY DEF tumbler
<1>2. S # {}
  BY <1>1
<1>3. S \in SUBSET Nat
  BY PlaceIs
<1>4. Min(S) \in S /\ \A k \in S : Min(S) <= k
  BY <1>2, <1>3, MinIs
<1>5. FirstDifference(a, b) = Min(S)
  BY DEF FirstDifference
<1>6. ASSUME NEW q \in Place, q < Min(S), q \in S PROVE FALSE
  <2>1. Min(S) <= q /\ Min(S) \in Nat /\ q \in Nat
    BY <1>3, <1>4, <1>6
  <2> QED  BY <1>6, <2>1
<1> QED  BY <1>4, <1>5, <1>6

\* abscmp compares the first digits that differ.
LEMMA AbscmpIs ==
    ASSUME NEW a \in tumbler, NEW b \in tumbler
    PROVE  /\ abscmp(a, b) = EQUAL <=> a.exp = b.exp /\ a.mantissa = b.mantissa
           /\ abscmp(a, b) = LESS <=>
                 \/ a.exp < b.exp
                 \/ a.exp = b.exp /\ \E p \in Place : FirstBelow(a, b, p)
           /\ abscmp(a, b) = GREATER <=>
                 \/ b.exp < a.exp
                 \/ b.exp = a.exp /\ \E p \in Place : FirstBelow(b, a, p)
           /\ abscmp(a, b) \in {LESS, EQUAL, GREATER}
<1>1. a.exp \in Int /\ b.exp \in Int
  BY DEF tumbler
<1>2. a.mantissa \in [Place -> Int] /\ b.mantissa \in [Place -> Int]
  BY DEF tumbler
<1>3. CASE a.exp # b.exp
  <2>1. abscmp(a, b) = IF a.exp < b.exp THEN LESS ELSE GREATER
    BY <1>3 DEF abscmp
  <2>2. a.exp < b.exp \/ b.exp < a.exp
    BY <1>1, <1>3
  <2>3. ~(a.exp < b.exp /\ b.exp < a.exp)
    BY <1>1
  <2> QED  BY <1>3, <2>1, <2>2, <2>3 DEF LESS, EQUAL, GREATER
<1>4. CASE a.exp = b.exp /\ a.mantissa = b.mantissa
  BY <1>1, <1>2, <1>4 DEF abscmp, LESS, EQUAL, GREATER, FirstBelow
<1>5. CASE a.exp = b.exp /\ a.mantissa # b.mantissa
  <2> DEFINE f == FirstDifference(a, b)
  <2>1. f \in Place /\ a.mantissa[f] # b.mantissa[f]
        /\ \A q \in Place : q < f => a.mantissa[q] = b.mantissa[q]
    BY <1>5, FirstDifferenceIs
  <2>2. abscmp(a, b) = IF a.mantissa[f] < b.mantissa[f] THEN LESS ELSE GREATER
    BY <1>5 DEF abscmp
  <2> HIDE DEF f
  <2>3. a.mantissa[f] \in Int /\ b.mantissa[f] \in Int
    BY <1>2, <2>1
  <2>4. CASE a.mantissa[f] < b.mantissa[f]
    <3>1. FirstBelow(a, b, f)
      BY <2>1, <2>4 DEF FirstBelow
    <3>2. ASSUME NEW p \in Place, FirstBelow(b, a, p) PROVE FALSE
      <4>1. b.mantissa[p] < a.mantissa[p] /\ a.mantissa[p] \in Int /\ b.mantissa[p] \in Int
        BY <1>2, <3>2 DEF FirstBelow
      <4>2. p \in Nat /\ f \in Nat
        BY <2>1, PlaceIs
      <4>3. p < f \/ p = f \/ f < p
        BY <4>2
      <4> QED  BY <2>1, <2>3, <2>4, <3>2, <4>1, <4>3 DEF FirstBelow
    <3> QED  BY <1>1, <1>5, <2>1, <2>2, <2>4, <3>1, <3>2 DEF LESS, EQUAL, GREATER
  <2>5. CASE b.mantissa[f] < a.mantissa[f]
    <3>1. FirstBelow(b, a, f)
      BY <2>1, <2>5 DEF FirstBelow
    <3>2. ASSUME NEW p \in Place, FirstBelow(a, b, p) PROVE FALSE
      <4>1. a.mantissa[p] < b.mantissa[p] /\ a.mantissa[p] \in Int /\ b.mantissa[p] \in Int
        BY <1>2, <3>2 DEF FirstBelow
      <4>2. p \in Nat /\ f \in Nat
        BY <2>1, PlaceIs
      <4>3. p < f \/ p = f \/ f < p
        BY <4>2
      <4> QED  BY <2>1, <2>3, <2>5, <3>2, <4>1, <4>3 DEF FirstBelow
    <3>3. ~(a.mantissa[f] < b.mantissa[f])
      BY <2>3, <2>5
    <3> QED  BY <1>1, <1>5, <2>1, <2>2, <3>3, <3>1, <3>2 DEF LESS, EQUAL, GREATER
  <2> QED  BY <2>1, <2>3, <2>4, <2>5
<1> QED  BY <1>3, <1>4, <1>5

\* Of numbers, tumblercmp is the order Before, and equality.
LEMMA CmpIs ==
    ASSUME NEW a \in Number, NEW b \in Number
    PROVE  /\ tumblercmp(a, b) = LESS <=> Before(a, b)
           /\ tumblercmp(a, b) = EQUAL <=> a = b
           /\ tumblercmp(a, b) = GREATER <=> Before(b, a)
           /\ tumblercmp(a, b) \in {LESS, EQUAL, GREATER}
<1>1. /\ a = [sign |-> 0, exp |-> a.exp, mantissa |-> a.mantissa] /\ a \in tumbler
      /\ b = [sign |-> 0, exp |-> b.exp, mantissa |-> b.mantissa] /\ b \in tumbler
      /\ a.sign = 0 /\ b.sign = 0
      /\ iszerotumbler(a) <=> a = ZEROTUMBLER
      /\ iszerotumbler(b) <=> b = ZEROTUMBLER
  BY NumberType
<1>2. a = b <=> a.exp = b.exp /\ a.mantissa = b.mantissa
  BY <1>1
<1>3. CASE iszerotumbler(a) \/ iszerotumbler(b)
  BY <1>1, <1>3 DEF tumblercmp, Before, LESS, EQUAL, GREATER
<1>4. CASE ~iszerotumbler(a) /\ ~iszerotumbler(b)
  <2>1. tumblercmp(a, b) = abscmp(a, b)
    BY <1>1, <1>4 DEF tumblercmp
  <2> QED  BY <1>1, <1>2, <1>4, <2>1, AbscmpIs DEF Before
<1> QED  BY <1>3, <1>4

LEMMA BeforeIrreflexive ==
    ASSUME NEW a \in Number
    PROVE  ~Before(a, a)
  BY NumberType DEF Before, FirstBelow

LEMMA BeforeTransitive ==
    ASSUME NEW a \in Number, NEW b \in Number, NEW c \in Number,
           Before(a, b), Before(b, c)
    PROVE  Before(a, c)
<1>1. a.exp \in Int /\ b.exp \in Int /\ c.exp \in Int
  BY NumberType
<1>2. \A p \in Place : /\ a.mantissa[p] \in Nat /\ b.mantissa[p] \in Nat
                       /\ c.mantissa[p] \in Nat /\ p \in Nat
  BY NumberType, PlaceIs
<1>3. CASE ~iszerotumbler(a) /\ a.exp = b.exp /\ b.exp = c.exp
  <2>1. PICK p \in Place : FirstBelow(a, b, p)
    BY <1>1, <1>3 DEF Before
  <2>2. PICK q \in Place : FirstBelow(b, c, q)
    BY <1>1, <1>3 DEF Before
  <2>3. FirstBelow(a, c, p) \/ FirstBelow(a, c, q)
    <3>1. CASE p < q
      BY <1>2, <2>1, <2>2, <3>1 DEF FirstBelow
    <3>2. CASE q < p
      BY <1>2, <2>1, <2>2, <3>2 DEF FirstBelow
    <3>3. CASE p = q
      BY <1>2, <2>1, <2>2, <3>3 DEF FirstBelow
    <3> QED  BY <1>2, <3>1, <3>2, <3>3
  <2> QED  BY <1>3, <2>3 DEF Before
<1>4. CASE ~(~iszerotumbler(a) /\ a.exp = b.exp /\ b.exp = c.exp)
  BY <1>1, <1>4 DEF Before
<1> QED  BY <1>3, <1>4

LEMMA BeforeTotal ==
    ASSUME NEW a \in Number, NEW b \in Number
    PROVE  Before(a, b) \/ a = b \/ Before(b, a)
  BY CmpIs

\* What the comparisons of the program mean by not after.
LEMMA NotGreaterIs ==
    ASSUME NEW a \in Number, NEW b \in Number
    PROVE  tumblercmp(a, b) # GREATER <=> a = b \/ Before(a, b)
  BY CmpIs DEF LESS, EQUAL, GREATER

-----------------------------------------------------------------------------
(* Arithmetic. *)

LEMMA JustifyKeeps ==
    ASSUME NEW a \in tumbler, a.mantissa[0] # 0
    PROVE  tumblerjustify(a) = a
<1> DEFINE used == {p \in Place : a.mantissa[p] # 0}
<1>1. 0 \in used /\ used \in SUBSET Nat
  BY PlaceIs
<1>2. Min(used) = 0
  <2>1. Min(used) \in used /\ \A k \in used : Min(used) <= k
    BY <1>1, MinIs
  <2> HIDE DEF used
  <2>2. Min(used) \in Nat /\ Min(used) <= 0
    BY <1>1, <2>1
  <2> QED  BY <2>2
<1>3. a.mantissa \in [Place -> Int] /\ a.exp \in Int
      /\ a = [sign |-> a.sign, exp |-> a.exp, mantissa |-> a.mantissa]
  BY DEF tumbler
<1>4. From(a.mantissa, 0) = a.mantissa
  BY <1>3, PlaceIs DEF From
<1>5. tumblerjustify(a) = [a EXCEPT !.exp = a.exp - Min(used), !.mantissa = From(a.mantissa, Min(used))]
  BY <1>1 DEF tumblerjustify
<1>6. tumblerjustify(a) = [a EXCEPT !.exp = a.exp - 0, !.mantissa = From(a.mantissa, 0)]
  BY <1>2, <1>5
<1>7. a.exp - 0 = a.exp
  BY <1>3
<1>8. tumblerjustify(a) = [a EXCEPT !.exp = a.exp, !.mantissa = a.mantissa]
  BY <1>4, <1>6, <1>7
<1> QED  BY <1>3, <1>8

LEMMA JustifyZero == tumblerjustify(ZEROTUMBLER) = ZEROTUMBLER
  BY DEF tumblerjustify, ZEROTUMBLER

LEMMA ZeroIsNumber == ZEROTUMBLER \in Number /\ iszerotumbler(ZEROTUMBLER)
  BY PlaceIs DEF ZEROTUMBLER, Number, tumbler, tumblercheck, iszerotumbler

\* The sum of two that are not zero.
LEMMA AbsaddIs ==
    ASSUME NEW a \in Number, NEW b \in Number, ~iszerotumbler(a), ~iszerotumbler(b)
    PROVE  /\ absadd(a, b) \in Number
           /\ ~iszerotumbler(absadd(a, b))
           /\ a.exp < b.exp => absadd(a, b) = b
           /\ a.exp >= b.exp =>
                 /\ absadd(a, b).exp = a.exp
                 /\ \A p \in Place : absadd(a, b).mantissa[p] =
                       IF p < a.exp - b.exp THEN a.mantissa[p]
                       ELSE IF p = a.exp - b.exp THEN a.mantissa[p] + b.mantissa[0]
                       ELSE b.mantissa[p - (a.exp - b.exp)]
<1>1. /\ a.exp \in Int /\ b.exp \in Int /\ a.exp <= 0 /\ b.exp <= 0
      /\ \A p \in Place : a.mantissa[p] \in Nat /\ b.mantissa[p] \in Nat
      /\ a.mantissa \in [Place -> Int] /\ b.mantissa \in [Place -> Int]
      /\ b = [sign |-> 0, exp |-> b.exp, mantissa |-> b.mantissa]
  BY NumberType
<1>2. a.mantissa[0] # 0 /\ b.mantissa[0] # 0
  BY DEF iszerotumbler
<1>3. CASE a.exp < b.exp
  <2>1. absadd(a, b) = b
    BY <1>1, <1>3 DEF absadd
  <2> QED  BY <1>1, <1>3, <2>1
<1>4. CASE ~(a.exp < b.exp)
  <2> DEFINE d == a.exp - b.exp
             m == [p \in Place |-> IF p < d THEN a.mantissa[p]
                                   ELSE IF p = d THEN a.mantissa[p] + b.mantissa[0]
                                   ELSE b.mantissa[p - d]]
  <2>1. d \in Nat /\ ~(d < 0) /\ a.exp >= b.exp
    BY <1>1, <1>4
  <2>2. absadd(a, b) = [sign |-> 0, exp |-> a.exp, mantissa |-> m]
    BY <2>1 DEF absadd
  <2>3. \A p \in Place : m[p] \in Nat
    <3> SUFFICES ASSUME NEW p \in Place PROVE m[p] \in Nat
      OBVIOUS
    <3>1. p \in Nat /\ (p > d => p - d \in Place)
      BY <2>1, PlacesAssumption DEF Place
    <3> HIDE DEF d
    <3> QED  BY <1>1, <2>1, <3>1, PlaceIs
  <2>4. m[0] # 0
    BY <1>1, <1>2, <2>1, PlaceIs
  <2>5. m \in [Place -> Int]
    BY <2>3
  <2> HIDE DEF m, d
  <2>6. absadd(a, b) \in Number
    BY <1>1, <2>2, <2>3, <2>4, <2>5 DEF Number, tumbler, tumblercheck
  <2> QED  BY <1>1, <1>4, <2>1, <2>2, <2>4, <2>6 DEF iszerotumbler, m, d
<1> QED  BY <1>3, <1>4

LEMMA AddIs ==
    ASSUME NEW a \in Number, NEW b \in Number
    PROVE  /\ tumbleradd(a, b) \in Number
           /\ iszerotumbler(b) => tumbleradd(a, b) = a
           /\ iszerotumbler(a) => tumbleradd(a, b) = b
           /\ ~iszerotumbler(a) /\ ~iszerotumbler(b) => tumbleradd(a, b) = absadd(a, b)
           /\ iszerotumbler(tumbleradd(a, b)) => iszerotumbler(a) /\ iszerotumbler(b)
<1>1. CASE iszerotumbler(b)
  <2>1. tumbleradd(a, b) = a
    BY <1>1 DEF tumbleradd
  <2> QED  BY <1>1, <2>1, NumberType
<1>2. CASE ~iszerotumbler(b) /\ iszerotumbler(a)
  <2>1. tumbleradd(a, b) = b
    BY <1>2 DEF tumbleradd
  <2> QED  BY <1>2, <2>1
<1>3. CASE ~iszerotumbler(b) /\ ~iszerotumbler(a)
  <2>1. a.sign = 0 /\ b.sign = 0
    BY NumberType
  <2>2. tumbleradd(a, b) = [absadd(a, b) EXCEPT !.sign = 0]
    BY <1>3, <2>1 DEF tumbleradd
  <2>3. absadd(a, b) \in Number
    BY <1>3, AbsaddIs
  <2>4. [absadd(a, b) EXCEPT !.sign = 0] = absadd(a, b)
    BY <2>3, NumberType
  <2> QED  BY <1>3, <2>2, <2>3, <2>4, AbsaddIs
<1> QED  BY <1>1, <1>2, <1>3

LEMMA SameNumber ==
    ASSUME NEW a \in Number, NEW b \in Number, a.exp = b.exp,
           \A p \in Place : a.mantissa[p] = b.mantissa[p]
    PROVE  a = b
<1>1. a.mantissa \in [Place -> Int] /\ b.mantissa \in [Place -> Int]
  BY NumberType
<1>2. a.mantissa = b.mantissa
  BY <1>1
<1>3. /\ a = [sign |-> 0, exp |-> a.exp, mantissa |-> a.mantissa]
      /\ b = [sign |-> 0, exp |-> b.exp, mantissa |-> b.mantissa]
  BY NumberType
<1> QED  BY <1>2, <1>3

LEMMA AbsaddAssociative ==
    ASSUME NEW a \in Number, NEW b \in Number, NEW c \in Number,
           ~iszerotumbler(a), ~iszerotumbler(b), ~iszerotumbler(c)
    PROVE  absadd(absadd(a, b), c) = absadd(a, absadd(b, c))
<1> DEFINE s == absadd(a, b)
           t == absadd(b, c)
           l == absadd(s, c)
           r == absadd(a, t)
<1>1. /\ s \in Number /\ ~iszerotumbler(s)
      /\ a.exp < b.exp => s = b
      /\ a.exp >= b.exp =>
           /\ s.exp = a.exp
           /\ \A p \in Place : s.mantissa[p] =
                 IF p < a.exp - b.exp THEN a.mantissa[p]
                 ELSE IF p = a.exp - b.exp THEN a.mantissa[p] + b.mantissa[0]
                 ELSE b.mantissa[p - (a.exp - b.exp)]
  BY AbsaddIs
<1>2. /\ t \in Number /\ ~iszerotumbler(t)
      /\ b.exp < c.exp => t = c
      /\ b.exp >= c.exp =>
           /\ t.exp = b.exp
           /\ \A p \in Place : t.mantissa[p] =
                 IF p < b.exp - c.exp THEN b.mantissa[p]
                 ELSE IF p = b.exp - c.exp THEN b.mantissa[p] + c.mantissa[0]
                 ELSE c.mantissa[p - (b.exp - c.exp)]
  BY AbsaddIs
<1> HIDE DEF s, t
<1>3. /\ l \in Number
      /\ s.exp < c.exp => l = c
      /\ s.exp >= c.exp =>
           /\ l.exp = s.exp
           /\ \A p \in Place : l.mantissa[p] =
                 IF p < s.exp - c.exp THEN s.mantissa[p]
                 ELSE IF p = s.exp - c.exp THEN s.mantissa[p] + c.mantissa[0]
                 ELSE c.mantissa[p - (s.exp - c.exp)]
  BY <1>1, AbsaddIs
<1>4. /\ r \in Number
      /\ a.exp < t.exp => r = t
      /\ a.exp >= t.exp =>
           /\ r.exp = a.exp
           /\ \A p \in Place : r.mantissa[p] =
                 IF p < a.exp - t.exp THEN a.mantissa[p]
                 ELSE IF p = a.exp - t.exp THEN a.mantissa[p] + t.mantissa[0]
                 ELSE t.mantissa[p - (a.exp - t.exp)]
  BY <1>2, AbsaddIs
<1>5. /\ a.exp \in Int /\ b.exp \in Int /\ c.exp \in Int
      /\ \A p \in Place : /\ a.mantissa[p] \in Nat /\ b.mantissa[p] \in Nat
                          /\ c.mantissa[p] \in Nat /\ p \in Nat
  BY NumberType, PlaceIs
<1>6. CASE a.exp < b.exp
  <2>1. s = b /\ l = t
    BY <1>1, <1>6 DEF t
  <2>2. a.exp < t.exp
    BY <1>2, <1>5, <1>6
  <2> QED  BY <1>4, <2>1, <2>2 DEF s, t
<1>7. CASE a.exp >= b.exp /\ b.exp < c.exp
  <2>1. t = c /\ s.exp = a.exp
    BY <1>1, <1>2, <1>7
  <2>2. CASE a.exp < c.exp
    BY <1>3, <1>4, <2>1, <2>2 DEF s, t
  <2>3. CASE a.exp >= c.exp
    <3>1. l.exp = r.exp
      BY <1>3, <1>4, <2>1, <2>3
    <3>2. ASSUME NEW p \in Place PROVE l.mantissa[p] = r.mantissa[p]
      <4>1. a.exp - c.exp < a.exp - b.exp
        BY <1>5, <1>7
      <4>2. p <= a.exp - c.exp => s.mantissa[p] = a.mantissa[p]
        BY <1>1, <1>5, <1>7, <4>1
      <4> QED  BY <1>3, <1>4, <1>5, <2>1, <2>3, <4>2
    <3>3. l = r
      BY <1>3, <1>4, <3>1, <3>2, SameNumber
    <3> QED  BY <3>3 DEF s, t
  <2> QED  BY <1>5, <2>2, <2>3
<1>8. CASE a.exp >= b.exp /\ b.exp >= c.exp
  <2> DEFINE d == a.exp - b.exp
             e == b.exp - c.exp
  <2>1. /\ d \in Nat /\ e \in Nat /\ s.exp = a.exp /\ t.exp = b.exp
        /\ s.exp - c.exp = d + e /\ s.exp >= c.exp
    BY <1>1, <1>2, <1>5, <1>8
  <2>2. \A p \in Place : s.mantissa[p] =
           IF p < d THEN a.mantissa[p]
           ELSE IF p = d THEN a.mantissa[p] + b.mantissa[0]
           ELSE b.mantissa[p - d]
    BY <1>1, <1>8
  <2>3. \A p \in Place : t.mantissa[p] =
           IF p < e THEN b.mantissa[p]
           ELSE IF p = e THEN b.mantissa[p] + c.mantissa[0]
           ELSE c.mantissa[p - e]
    BY <1>2, <1>8
  <2>4. /\ l.exp = a.exp
        /\ \A p \in Place : l.mantissa[p] =
              IF p < d + e THEN s.mantissa[p]
              ELSE IF p = d + e THEN s.mantissa[p] + c.mantissa[0]
              ELSE c.mantissa[p - (d + e)]
    BY <1>3, <2>1
  <2>5. /\ r.exp = a.exp
        /\ \A p \in Place : r.mantissa[p] =
              IF p < d THEN a.mantissa[p]
              ELSE IF p = d THEN a.mantissa[p] + t.mantissa[0]
              ELSE t.mantissa[p - d]
    BY <1>4, <1>8, <2>1
  <2>6. d \in Nat /\ e \in Nat
    BY <2>1
  <2> HIDE DEF d, e, l, r
  <2>7. ASSUME NEW p \in Place PROVE l.mantissa[p] = r.mantissa[p]
    <3>1. p \in Nat
      BY PlaceIs
    <3>2. CASE p < d
      BY <2>2, <2>4, <2>5, <2>6, <3>1, <3>2
    <3>3. CASE p = d /\ e = 0
      <4>1. s.mantissa[p] = a.mantissa[p] + b.mantissa[0]
        BY <2>2, <2>6, <3>1, <3>3
      <4>2. t.mantissa[0] = b.mantissa[0] + c.mantissa[0]
        BY <2>3, <3>3, PlaceIs
      <4>3. l.mantissa[p] = (a.mantissa[p] + b.mantissa[0]) + c.mantissa[0]
        BY <2>4, <2>6, <3>1, <3>3, <4>1
      <4>4. r.mantissa[p] = a.mantissa[p] + (b.mantissa[0] + c.mantissa[0])
        BY <2>5, <2>6, <3>1, <3>3, <4>2
      <4> QED  BY <1>5, <4>3, <4>4, PlaceIs
    <3>4. CASE p = d /\ e > 0
      <4>1. s.mantissa[p] = a.mantissa[p] + b.mantissa[0]
        BY <2>2, <2>6, <3>1, <3>4
      <4>2. t.mantissa[0] = b.mantissa[0]
        BY <2>3, <2>6, <3>4, PlaceIs
      <4>3. l.mantissa[p] = s.mantissa[p]
        BY <2>4, <2>6, <3>1, <3>4
      <4> QED  BY <2>5, <2>6, <3>1, <3>4, <4>1, <4>2, <4>3
    <3>5. CASE p > d
      <4>1. p - d \in Place
        BY <2>6, <3>5, PlacesAssumption DEF Place
      <4>2. s.mantissa[p] = b.mantissa[p - d] /\ r.mantissa[p] = t.mantissa[p - d]
        BY <2>2, <2>5, <2>6, <3>1, <3>5
      <4>3. t.mantissa[p - d] = IF p - d < e THEN b.mantissa[p - d]
                                ELSE IF p - d = e THEN b.mantissa[p - d] + c.mantissa[0]
                                ELSE c.mantissa[(p - d) - e]
        BY <2>3, <4>1
      <4>4. /\ p - d < e <=> p < d + e
            /\ p - d = e <=> p = d + e
            /\ (p - d) - e = p - (d + e)
        BY <2>6, <3>1
      <4>5. l.mantissa[p] = IF p < d + e THEN b.mantissa[p - d]
                            ELSE IF p = d + e THEN b.mantissa[p - d] + c.mantissa[0]
                            ELSE c.mantissa[p - (d + e)]
        BY <2>4, <4>2
      <4> QED  BY <4>2, <4>3, <4>4, <4>5
    <3> QED  BY <2>6, <3>1, <3>2, <3>3, <3>4, <3>5
  <2>8. l = r
    BY <1>3, <1>4, <2>4, <2>5, <2>7, SameNumber DEF l, r
  <2> QED  BY <2>8 DEF l, r, s, t
<1> QED  BY <1>5, <1>6, <1>7, <1>8

\* Sums may be grouped at will.
LEMMA AddAssociative ==
    ASSUME NEW a \in Number, NEW b \in Number, NEW c \in Number
    PROVE  tumbleradd(tumbleradd(a, b), c) = tumbleradd(a, tumbleradd(b, c))
<1>1. tumbleradd(a, b) \in Number /\ tumbleradd(b, c) \in Number
  BY AddIs
<1>2. CASE iszerotumbler(c)
  BY <1>1, <1>2, AddIs
<1>3. CASE iszerotumbler(b)
  BY <1>1, <1>3, AddIs
<1>4. CASE iszerotumbler(a)
  BY <1>1, <1>4, AddIs
<1>5. CASE ~iszerotumbler(a) /\ ~iszerotumbler(b) /\ ~iszerotumbler(c)
  <2>1. tumbleradd(a, b) = absadd(a, b) /\ tumbleradd(b, c) = absadd(b, c)
    BY <1>5, AddIs
  <2>2. ~iszerotumbler(absadd(a, b)) /\ ~iszerotumbler(absadd(b, c))
    BY <1>5, AbsaddIs
  <2>3. /\ tumbleradd(tumbleradd(a, b), c) = absadd(absadd(a, b), c)
        /\ tumbleradd(a, tumbleradd(b, c)) = absadd(a, absadd(b, c))
    BY <1>1, <1>5, <2>1, <2>2, AddIs
  <2> QED  BY <1>5, <2>3, AbsaddAssociative
<1> QED  BY <1>2, <1>3, <1>4, <1>5

\* The difference of two that are not zero, the second the greater.
LEMMA StrongsubIs ==
    ASSUME NEW a \in Number, NEW b \in Number, ~iszerotumbler(a), Before(a, b)
    PROVE  /\ strongsub(b, negated(a)) \in Number
           /\ ~iszerotumbler(strongsub(b, negated(a)))
           /\ absadd(a, strongsub(b, negated(a))) = b
<1> DEFINE n == negated(a)
           w == strongsub(b, n)
<1>1. /\ a.exp \in Int /\ b.exp \in Int /\ a.exp <= 0 /\ b.exp <= 0
      /\ \A p \in Place : a.mantissa[p] \in Nat /\ b.mantissa[p] \in Nat /\ p \in Nat
      /\ a.mantissa \in [Place -> Int] /\ b.mantissa \in [Place -> Int]
  BY NumberType, PlaceIs
<1>2. ~iszerotumbler(b)
  BY DEF Before
<1>3. n \in tumbler /\ n.exp = a.exp /\ n.mantissa = a.mantissa
  BY NumberType DEF negated, tumbler
<1> HIDE DEF n
<1>4. CASE a.exp < b.exp
  <2>1. w = b
    BY <1>3, <1>4 DEF strongsub
  <2> QED  BY <1>2, <1>4, <2>1, AbsaddIs DEF n
<1>5. CASE ~(a.exp < b.exp)
  <2>1. a.exp = b.exp
    BY <1>5 DEF Before
  <2>2. PICK q \in Place : FirstBelow(a, b, q)
    BY <1>5 DEF Before
  <2>3. b.mantissa # n.mantissa
    BY <1>1, <1>3, <2>2 DEF FirstBelow
  <2> DEFINE k == FirstDifference(b, n)
  <2>4. /\ k \in Place /\ b.mantissa[k] # a.mantissa[k]
        /\ \A j \in Place : j < k => b.mantissa[j] = a.mantissa[j]
    <3>1. b \in tumbler
      BY NumberType
    <3> QED  BY <1>3, <2>3, <3>1, FirstDifferenceIs
  <2> DEFINE m == [From(b.mantissa, k) EXCEPT ![0] = b.mantissa[k] - n.mantissa[k]]
  <2>5. w = [sign |-> 0, exp |-> b.exp - k, mantissa |-> m]
    BY <1>1, <1>3, <2>1, <2>3 DEF strongsub
  <2> HIDE DEF k
  <2>6. a.mantissa[k] < b.mantissa[k]
    <3>1. k < q \/ k = q \/ q < k
      BY <1>1, <2>4
    <3> QED  BY <1>1, <2>2, <2>4, <3>1 DEF FirstBelow
  <2>7. \A p \in Place : m[p] = IF p = 0 THEN b.mantissa[k] - a.mantissa[k]
                                ELSE IF p + k \in Place THEN b.mantissa[p + k] ELSE 0
    BY <1>3, PlaceIs DEF From
  <2>8. m \in [Place -> Int] /\ \A p \in Place : m[p] \in Nat
    <3>1. b.mantissa[k] - a.mantissa[k] \in Nat
      BY <1>1, <2>4, <2>6
    <3>2. \A p \in Place : m[p] \in Nat
      BY <1>1, <2>7, <3>1
    <3>3. m = [p \in Place |-> m[p]]
      BY DEF From
    <3> HIDE DEF m
    <3> QED  BY <3>2, <3>3
  <2>9. m[0] # 0
    BY <1>1, <2>4, <2>6, <2>7, PlaceIs
  <2>10. b.exp - k \in Int /\ b.exp - k <= 0
    BY <1>1, <2>4
  <2> HIDE DEF m
  <2>11. w \in Number /\ ~iszerotumbler(w)
    <3> HIDE DEF w
    <3> QED  BY <2>5, <2>8, <2>9, <2>10 DEF Number, tumbler, tumblercheck, iszerotumbler
  <2>12. w.exp = b.exp - k /\ w.mantissa = m
    BY <2>5
  <2> HIDE DEF w
  <2>13. a.exp >= w.exp /\ a.exp - w.exp = k
    BY <1>1, <2>1, <2>4, <2>12
  <2> DEFINE s == absadd(a, w)
  <2>14. /\ s \in Number /\ s.exp = a.exp
         /\ \A p \in Place : s.mantissa[p] =
               IF p < k THEN a.mantissa[p]
               ELSE IF p = k THEN a.mantissa[p] + m[0]
               ELSE m[p - k]
    BY <2>11, <2>12, <2>13, AbsaddIs
  <2> HIDE DEF s
  <2>15. ASSUME NEW p \in Place PROVE s.mantissa[p] = b.mantissa[p]
    <3>1. CASE p < k
      BY <2>4, <2>14, <3>1
    <3>2. CASE p = k
      <4>1. s.mantissa[p] = a.mantissa[k] + (b.mantissa[k] - a.mantissa[k])
        BY <1>1, <2>7, <2>14, <3>2, PlaceIs
      <4> QED  BY <1>1, <2>4, <3>2, <4>1
    <3>3. CASE p > k
      <4>1. p - k \in Place /\ p - k # 0 /\ (p - k) + k = p
        BY <1>1, <2>4, <3>3, PlacesAssumption DEF Place
      <4>2. m[p - k] = b.mantissa[p]
        BY <2>7, <4>1
      <4> QED  BY <1>1, <2>4, <2>14, <3>3, <4>2
    <3> QED  BY <1>1, <2>4, <3>1, <3>2, <3>3
  <2>16. s = b
    BY <2>1, <2>14, <2>15, SameNumber
  <2> QED  BY <2>11, <2>16 DEF s, w, n
<1> QED  BY <1>4, <1>5

\* A width added to where it starts is where it ends.
LEMMA SubIs ==
    ASSUME NEW a \in Number, NEW b \in Number, a = b \/ Before(a, b)
    PROVE  /\ tumblersub(b, a) \in Number
           /\ tumbleradd(a, tumblersub(b, a)) = b
<1>1. b \in tumbler /\ a.sign = 0 /\ b.sign = 0
      /\ (iszerotumbler(a) <=> a = ZEROTUMBLER) /\ (iszerotumbler(b) <=> b = ZEROTUMBLER)
  BY NumberType
<1>2. tumblerjustify(b) = b
  <2>1. CASE iszerotumbler(b)
    BY <1>1, <2>1, JustifyZero
  <2>2. CASE ~iszerotumbler(b)
    BY <1>1, <2>2, JustifyKeeps DEF iszerotumbler
  <2> QED  BY <2>1, <2>2
<1>3. CASE iszerotumbler(a)
  <2>1. tumblersub(b, a) = b
    BY <1>2, <1>3 DEF tumblersub
  <2> QED  BY <1>3, <2>1, AddIs
<1>4. CASE ~iszerotumbler(a) /\ a = b
  <2>1. tumblersub(b, a) = ZEROTUMBLER
    BY <1>4, JustifyZero DEF tumblersub, tumblereq
  <2> QED  BY <1>4, <2>1, ZeroIsNumber, AddIs
<1>5. CASE ~iszerotumbler(a) /\ a # b
  <2> DEFINE w == strongsub(b, negated(a))
  <2>1. Before(a, b) /\ ~iszerotumbler(b)
    BY <1>5 DEF Before
  <2>2. w \in Number /\ ~iszerotumbler(w) /\ absadd(a, w) = b
    BY <1>5, <2>1, StrongsubIs
  <2>3. ~iszerotumbler(negated(a)) /\ negated(a).sign = 1 /\ negated(a) \in tumbler
        /\ negated(a).exp = a.exp /\ negated(a).mantissa = a.mantissa
    BY <1>1, <1>5, NumberType DEF negated, iszerotumbler, tumbler
  <2>4. abscmp(b, negated(a)) = GREATER
    <3>1. a.exp < b.exp \/ (a.exp = b.exp /\ \E p \in Place : FirstBelow(a, b, p))
      BY <1>5, <2>1 DEF Before
    <3>2. \A p \in Place : FirstBelow(a, b, p) <=> FirstBelow(negated(a), b, p)
      BY <2>3 DEF FirstBelow
    <3> QED  BY <1>1, <2>3, <3>1, <3>2, AbscmpIs
  <2> HIDE DEF w
  <2>5. [w EXCEPT !.sign = 0] = w
    BY <2>2, NumberType
  <2>6. tumblerjustify(w) = w /\ justifiedIfZero(w) = w
    BY <2>2, NumberType, JustifyKeeps DEF iszerotumbler, justifiedIfZero
  <2>7. tumbleradd(b, negated(a)) = justifiedIfZero([w EXCEPT !.sign = 0])
    BY <1>1, <2>1, <2>3, <2>4 DEF tumbleradd, w
  <2>8. tumblersub(b, a) = tumblerjustify(tumbleradd(b, negated(a)))
    BY <1>5, <2>1 DEF tumblersub, tumblereq
  <2>9. tumblersub(b, a) = w
    BY <2>5, <2>6, <2>7, <2>8
  <2> QED  BY <1>5, <2>2, <2>9, AddIs
<1> QED  BY <1>3, <1>4, <1>5

\* a sum does not come before its first part.
LEMMA AddGrows ==
    ASSUME NEW a \in Number, NEW b \in Number
    PROVE  a = tumbleradd(a, b) \/ Before(a, tumbleradd(a, b))
<1>1. CASE iszerotumbler(b)
  BY <1>1, AddIs
<1>2. CASE ~iszerotumbler(b) /\ iszerotumbler(a)
  BY <1>2, AddIs DEF Before
<1>3. CASE ~iszerotumbler(b) /\ ~iszerotumbler(a)
  <2> DEFINE s == absadd(a, b)
  <2>1. tumbleradd(a, b) = s
    BY <1>3, AddIs
  <2>2. /\ a.exp \in Int /\ b.exp \in Int
        /\ \A p \in Place : a.mantissa[p] \in Nat /\ b.mantissa[p] \in Nat /\ p \in Nat
    BY NumberType, PlaceIs
  <2>3. /\ s \in Number /\ ~iszerotumbler(s)
        /\ a.exp < b.exp => s = b
        /\ a.exp >= b.exp =>
              /\ s.exp = a.exp
              /\ \A p \in Place : s.mantissa[p] =
                    IF p < a.exp - b.exp THEN a.mantissa[p]
                    ELSE IF p = a.exp - b.exp THEN a.mantissa[p] + b.mantissa[0]
                    ELSE b.mantissa[p - (a.exp - b.exp)]
    BY <1>3, AbsaddIs
  <2> HIDE DEF s
  <2>4. CASE a.exp < b.exp
    BY <1>3, <2>1, <2>3, <2>4 DEF Before
  <2>5. CASE a.exp >= b.exp /\ a.exp - b.exp \in Place
    <3> DEFINE d == a.exp - b.exp
    <3>1. FirstBelow(a, s, d)
      <4>1. s.mantissa[d] = a.mantissa[d] + b.mantissa[0]
        BY <2>2, <2>3, <2>5
      <4>2. \A q \in Place : q < d => s.mantissa[q] = a.mantissa[q]
        BY <2>3, <2>5
      <4>3. b.mantissa[0] \in Nat /\ b.mantissa[0] # 0 /\ a.mantissa[d] \in Nat
        BY <1>3, <2>2, <2>5, PlaceIs DEF iszerotumbler
      <4>4. a.mantissa[d] < s.mantissa[d]
        BY <4>1, <4>3
      <4> QED  BY <4>2, <4>4 DEF FirstBelow
    <3> QED  BY <1>3, <2>1, <2>3, <2>5, <3>1 DEF Before
  <2>6. CASE a.exp >= b.exp /\ ~(a.exp - b.exp \in Place)
    <3>1. \A p \in Place : p < a.exp - b.exp
      BY <2>2, <2>6, PlacesAssumption DEF Place
    <3>2. \A p \in Place : s.mantissa[p] = a.mantissa[p]
      BY <2>3, <2>6, <3>1
    <3>3. s = a
      BY <2>3, <2>6, <3>2, SameNumber
    <3> QED  BY <2>1, <3>3
  <2> QED  BY <2>2, <2>4, <2>5, <2>6
<1> QED  BY <1>1, <1>2, <1>3

\* Sums are in the order of their second parts, or equal.
LEMMA AddMonotonic ==
    ASSUME NEW a \in Number, NEW b \in Number, NEW c \in Number, Before(b, c)
    PROVE  tumbleradd(a, b) = tumbleradd(a, c) \/ Before(tumbleradd(a, b), tumbleradd(a, c))
<1>1. ~iszerotumbler(c)
  BY DEF Before
<1>2. CASE iszerotumbler(a)
  BY <1>2, AddIs
<1>3. CASE iszerotumbler(b)
  BY <1>3, AddIs, AddGrows
<1>4. CASE ~iszerotumbler(a) /\ ~iszerotumbler(b)
  <2> DEFINE s == absadd(a, b)
             t == absadd(a, c)
  <2>1. tumbleradd(a, b) = s /\ tumbleradd(a, c) = t
    BY <1>1, <1>4, AddIs
  <2>2. /\ a.exp \in Int /\ b.exp \in Int /\ c.exp \in Int
        /\ \A p \in Place : /\ a.mantissa[p] \in Nat /\ b.mantissa[p] \in Nat
                            /\ c.mantissa[p] \in Nat /\ p \in Nat
    BY NumberType, PlaceIs
  <2>3. /\ s \in Number /\ ~iszerotumbler(s)
        /\ a.exp < b.exp => s = b
        /\ a.exp >= b.exp =>
              /\ s.exp = a.exp
              /\ \A p \in Place : s.mantissa[p] =
                    IF p < a.exp - b.exp THEN a.mantissa[p]
                    ELSE IF p = a.exp - b.exp THEN a.mantissa[p] + b.mantissa[0]
                    ELSE b.mantissa[p - (a.exp - b.exp)]
    BY <1>4, AbsaddIs
  <2>4. /\ t \in Number /\ ~iszerotumbler(t)
        /\ a.exp < c.exp => t = c
        /\ a.exp >= c.exp =>
              /\ t.exp = a.exp
              /\ \A p \in Place : t.mantissa[p] =
                    IF p < a.exp - c.exp THEN a.mantissa[p]
                    ELSE IF p = a.exp - c.exp THEN a.mantissa[p] + c.mantissa[0]
                    ELSE c.mantissa[p - (a.exp - c.exp)]
    BY <1>1, <1>4, AbsaddIs
  <2>5. 0 \in Place /\ c.mantissa[0] # 0
    BY <1>1, PlaceIs DEF iszerotumbler
  <2> HIDE DEF s, t
  <2>6. CASE b.exp < c.exp
    <3>1. CASE a.exp < b.exp
      <4>1. s = b /\ t = c
        BY <2>2, <2>3, <2>4, <2>6, <3>1
      <4> QED  BY <2>1, <4>1
    <3>2. CASE b.exp <= a.exp /\ a.exp < c.exp
      <4>1. s.exp = a.exp /\ t = c
        BY <2>2, <2>3, <2>4, <3>2
      <4> QED  BY <1>1, <2>1, <3>2, <4>1 DEF Before
    <3>3. CASE a.exp >= c.exp
      <4> DEFINE d == a.exp - c.exp
      <4>1. d \in Nat /\ d < a.exp - b.exp /\ s.exp = a.exp /\ t.exp = a.exp /\ a.exp >= b.exp
        BY <2>2, <2>3, <2>4, <2>6, <3>3
      <4>2. \A p \in Place : p <= d => s.mantissa[p] = a.mantissa[p]
        BY <2>2, <2>3, <4>1
      <4>3. \A p \in Place : p < d => t.mantissa[p] = a.mantissa[p]
        BY <2>4, <3>3
      <4>4. CASE d \in Place
        <5>1. t.mantissa[d] = a.mantissa[d] + c.mantissa[0] /\ s.mantissa[d] = a.mantissa[d]
          BY <2>4, <3>3, <4>1, <4>2, <4>4
        <5>2. a.mantissa[d] \in Nat /\ c.mantissa[0] \in Nat
          BY <2>2, <2>5, <4>4
        <5>3. s.mantissa[d] < t.mantissa[d]
          BY <2>5, <5>1, <5>2
        <5> HIDE DEF d
        <5>4. \A p \in Place : p < d => p <= d
          BY <2>2, <4>1
        <5>5. FirstBelow(s, t, d)
          BY <4>2, <4>3, <5>3, <5>4 DEF FirstBelow
        <5> QED  BY <2>1, <2>4, <4>1, <4>4, <5>5 DEF Before
      <4>5. CASE ~(d \in Place)
        <5>1. \A p \in Place : p < d /\ p <= d
          BY <4>1, <4>5, PlacesAssumption DEF Place
        <5>2. \A p \in Place : s.mantissa[p] = t.mantissa[p]
          BY <4>2, <4>3, <5>1
        <5>3. s = t
          BY <2>3, <2>4, <4>1, <5>2, SameNumber
        <5> QED  BY <2>1, <5>3
      <4> QED  BY <4>4, <4>5
    <3> QED  BY <2>2, <3>1, <3>2, <3>3
  <2>7. CASE ~(b.exp < c.exp)
    <3>1. b.exp = c.exp
      BY <1>4, <2>7 DEF Before
    <3>2. PICK p \in Place : FirstBelow(b, c, p)
      BY <1>4, <2>7 DEF Before
    <3>3. p \in Nat /\ b.mantissa[p] < c.mantissa[p]
          /\ \A q \in Place : q < p => b.mantissa[q] = c.mantissa[q]
      BY <2>2, <3>2 DEF FirstBelow
    <3>4. CASE a.exp < b.exp
      <4>1. s = b /\ t = c
        BY <2>3, <2>4, <3>1, <3>4
      <4> QED  BY <2>1, <4>1
    <3>5. CASE a.exp >= b.exp
      <4> DEFINE d == a.exp - b.exp
      <4>1. d \in Nat
        BY <2>2, <3>5
      <4>2. /\ s.exp = a.exp
            /\ \A q \in Place : s.mantissa[q] =
                  IF q < d THEN a.mantissa[q]
                  ELSE IF q = d THEN a.mantissa[q] + b.mantissa[0]
                  ELSE b.mantissa[q - d]
        BY <2>3, <3>5
      <4>3. /\ t.exp = a.exp
            /\ \A q \in Place : t.mantissa[q] =
                  IF q < d THEN a.mantissa[q]
                  ELSE IF q = d THEN a.mantissa[q] + c.mantissa[0]
                  ELSE c.mantissa[q - d]
        BY <2>4, <3>1, <3>5
      <4> HIDE DEF d
      <4>4. ASSUME NEW q \in Place, q < p + d PROVE s.mantissa[q] = t.mantissa[q]
        <5>1. q \in Nat
          BY PlaceIs
        <5>2. CASE q < d
          BY <4>2, <4>3, <5>2
        <5>3. CASE q = d
          <6>1. 0 < p
            BY <3>3, <4>1, <4>4, <5>3
          <6>2. b.mantissa[0] = c.mantissa[0]
            BY <2>5, <3>3, <6>1
          <6> QED  BY <4>1, <4>2, <4>3, <5>3, <6>2
        <5>4. CASE q > d
          <6>1. q - d \in Place /\ q - d < p
            BY <3>3, <4>1, <4>4, <5>4, PlacesAssumption DEF Place
          <6>2. s.mantissa[q] = b.mantissa[q - d] /\ t.mantissa[q] = c.mantissa[q - d]
            BY <4>1, <4>2, <4>3, <5>1, <5>4
          <6> QED  BY <3>3, <6>1, <6>2
        <5> QED  BY <4>1, <5>1, <5>2, <5>3, <5>4
      <4>5. CASE p + d \in Place
        <5>1. s.mantissa[p + d] < t.mantissa[p + d]
          <6>1. CASE p = 0
            <7>1. /\ s.mantissa[p + d] = a.mantissa[p + d] + b.mantissa[0]
                  /\ t.mantissa[p + d] = a.mantissa[p + d] + c.mantissa[0]
              BY <3>3, <4>1, <4>2, <4>3, <4>5, <6>1
            <7>2. /\ a.mantissa[p + d] \in Nat /\ b.mantissa[0] \in Nat
                  /\ c.mantissa[0] \in Nat /\ b.mantissa[0] < c.mantissa[0]
              BY <2>2, <2>5, <3>3, <4>5, <6>1
            <7> QED  BY <7>1, <7>2
          <6>2. CASE p # 0
            <7>1. p + d > d /\ (p + d) - d = p
              BY <3>3, <4>1, <6>2
            <7>2. s.mantissa[p + d] = b.mantissa[p] /\ t.mantissa[p + d] = c.mantissa[p]
              BY <2>2, <4>1, <4>2, <4>3, <4>5, <7>1
            <7> QED  BY <3>3, <7>2
          <6> QED  BY <6>1, <6>2
        <5>2. FirstBelow(s, t, p + d)
          BY <4>4, <5>1 DEF FirstBelow
        <5> QED  BY <2>1, <2>4, <4>2, <4>3, <4>5, <5>2 DEF Before
      <4>6. CASE ~(p + d \in Place)
        <5>1. \A q \in Place : q < p + d
          BY <3>3, <4>1, <4>6, PlacesAssumption DEF Place
        <5>2. s = t
          BY <2>3, <2>4, <4>2, <4>3, <4>4, <5>1, SameNumber
        <5> QED  BY <2>1, <5>2
      <4> QED  BY <4>5, <4>6
    <3> QED  BY <2>2, <3>4, <3>5
  <2> QED  BY <2>6, <2>7
<1> QED  BY <1>2, <1>3, <1>4

-----------------------------------------------------------------------------
(* Addresses below addresses. *)

LEMMA StoriesIs ==
    ASSUME NEW a \in tumbler, ~iszerotumbler(a)
    PROVE  /\ nstories(a) \in 1..NPLACES
           /\ nstories(a) - 1 \in Place
           /\ a.mantissa[nstories(a) - 1] # 0
           /\ \A p \in Place : p >= nstories(a) => a.mantissa[p] = 0
<1> DEFINE used == {p \in Place : a.mantissa[p] # 0}
           S == {0} \union used
<1>1. 0 \in used
  BY PlaceIs DEF iszerotumbler
<1>2. S = used /\ S # {} /\ S \in SUBSET (0..(NPLACES - 1)) /\ NPLACES - 1 \in Nat
  BY <1>1, PlacesAssumption DEF Place
<1>3. Max(S) \in S /\ \A k \in S : k <= Max(S)
  <2> HIDE DEF S
  <2> QED  BY <1>2, MaxIs
<1>4. nstories(a) = 1 + Max(S)
  BY DEF nstories
<1> DEFINE m == Max(S)
<1>5. m \in Place /\ a.mantissa[m] # 0 /\ \A p \in Place : a.mantissa[p] # 0 => p <= m
  BY <1>2, <1>3
<1>6. nstories(a) = 1 + m
  BY <1>4
<1> HIDE DEF m
<1>7. m \in Nat /\ m < NPLACES /\ nstories(a) - 1 = m
  BY <1>5, <1>6, PlacesAssumption DEF Place
<1>8. \A p \in Place : p >= nstories(a) => a.mantissa[p] = 0
  BY <1>5, <1>6, <1>7, PlaceIs
<1>9. nstories(a) \in 1..NPLACES
  BY <1>6, <1>7, PlacesAssumption
<1> QED  BY <1>5, <1>7, <1>8, <1>9

LEMMA StoriesAre ==
    ASSUME NEW a \in tumbler, NEW p \in Place, ~iszerotumbler(a),
           a.mantissa[p] # 0, \A q \in Place : q > p => a.mantissa[q] = 0
    PROVE  nstories(a) = p + 1
<1>1. /\ nstories(a) \in 1..NPLACES
      /\ nstories(a) - 1 \in Place
      /\ a.mantissa[nstories(a) - 1] # 0
      /\ \A q \in Place : q >= nstories(a) => a.mantissa[q] = 0
  BY StoriesIs
<1>2. nstories(a) \in Nat /\ p \in Nat
  BY <1>1, PlaceIs
<1>3. ~(nstories(a) - 1 > p)
  BY <1>1
<1>4. ~(p >= nstories(a))
  BY <1>1
<1> QED  BY <1>2, <1>3, <1>4

\* The last digit of a sum of digits behind an address is where they say.
LEMMA IncrementIs ==
    ASSUME NEW a \in Number, ~iszerotumbler(a), NEW s \in Nat, NEW n \in Nat,
           Increments(a, s)
    PROVE  /\ nstories(a) - 1 + s \in Place
           /\ tumblerincrement(a, s, n) \in Number
           /\ ~iszerotumbler(tumblerincrement(a, s, n))
           /\ tumblerincrement(a, s, n).exp = a.exp
           /\ \A p \in Place : tumblerincrement(a, s, n).mantissa[p] =
                 IF p = nstories(a) - 1 + s THEN a.mantissa[p] + n ELSE a.mantissa[p]
           /\ n > 0 \/ s = 0 => nstories(tumblerincrement(a, s, n)) = nstories(a) + s
<1> DEFINE i == nstories(a) - 1 + s
           c == tumblerincrement(a, s, n)
           e == [a EXCEPT !.mantissa[i] = @ + n]
<1>1. i \in Place
  BY DEF Increments
<1>2. /\ a \in tumbler /\ a.sign = 0 /\ a.exp \in Int /\ a.exp <= 0
      /\ a.mantissa \in [Place -> Int]
      /\ \A p \in Place : a.mantissa[p] \in Nat /\ p \in Nat
      /\ a = [sign |-> 0, exp |-> a.exp, mantissa |-> a.mantissa]
  BY NumberType, PlaceIs
<1>3. /\ nstories(a) \in 1..NPLACES
      /\ a.mantissa[nstories(a) - 1] # 0
      /\ \A p \in Place : p >= nstories(a) => a.mantissa[p] = 0
  BY <1>2, StoriesIs
<1>4. c = tumblerjustify(e)
  BY DEF tumblerincrement
<1>5. nstories(a) \in Nat /\ i \in Nat /\ i = nstories(a) - 1 + s /\ i >= nstories(a) - 1
  BY <1>1, <1>3, PlaceIs
<1> HIDE DEF c, i
<1>6. /\ e.sign = 0 /\ e.exp = a.exp
      /\ e.mantissa = [a.mantissa EXCEPT ![i] = @ + n]
  BY <1>2
<1>7. \A p \in Place : e.mantissa[p] = IF p = i THEN a.mantissa[p] + n ELSE a.mantissa[p]
  BY <1>1, <1>2, <1>6
<1>8. \A p \in Place : e.mantissa[p] \in Nat
  BY <1>2, <1>7
<1>9. e.mantissa \in [Place -> Int]
  BY <1>1, <1>2, <1>6
<1>10. e = [sign |-> 0, exp |-> a.exp, mantissa |-> e.mantissa]
  BY <1>2, <1>6
<1> HIDE DEF e
<1>11. e.mantissa[0] # 0
  BY <1>2, <1>7, PlaceIs DEF iszerotumbler
<1>12. e \in tumbler
  <2>1. [sign |-> 0, exp |-> a.exp, mantissa |-> e.mantissa] \in tumbler
    BY <1>2, <1>9 DEF tumbler
  <2> QED  BY <1>10, <2>1
<1>13. e \in Number
  <2>1. e.exp <= 0 /\ e.sign = 0
    BY <1>2, <1>6
  <2>2. \A p \in Place : e.mantissa[p] >= 0
    BY <1>8
  <2> QED  BY <1>11, <1>12, <2>1, <2>2 DEF Number, tumblercheck
<1>14. c = e
  BY <1>4, <1>11, <1>12, JustifyKeeps
<1>15. n > 0 \/ s = 0 => nstories(c) = nstories(a) + s
  <2> SUFFICES ASSUME n > 0 \/ s = 0 PROVE nstories(e) = nstories(a) + s
    BY <1>14
  <2>1. e.mantissa[i] # 0
    <3>1. e.mantissa[i] = a.mantissa[i] + n /\ a.mantissa[i] \in Nat
      BY <1>1, <1>2, <1>7
    <3>2. s = 0 => a.mantissa[i] # 0
      BY <1>3, <1>5
    <3> QED  BY <3>1, <3>2
  <2>2. \A q \in Place : q > i => e.mantissa[q] = 0
    <3>1. \A q \in Place : q > i => q >= nstories(a) /\ q # i
      BY <1>2, <1>5
    <3> QED  BY <1>3, <1>7, <3>1
  <2>3. nstories(e) = i + 1
    BY <1>1, <1>11, <1>12, <2>1, <2>2, StoriesAre DEF iszerotumbler
  <2> QED  BY <1>5, <2>3
<1>16. /\ c \in Number /\ ~iszerotumbler(c) /\ c.exp = a.exp
       /\ \A p \in Place : c.mantissa[p] = IF p = i THEN a.mantissa[p] + n ELSE a.mantissa[p]
  BY <1>6, <1>7, <1>11, <1>13, <1>14 DEF iszerotumbler
<1> QED  BY <1>1, <1>15, <1>16 DEF c, i

LEMMA TruncateIs ==
    ASSUME NEW a \in Number, ~iszerotumbler(a), NEW n \in Int, n + a.exp > 0
    PROVE  /\ tumblertruncate(a, n) \in Number
           /\ ~iszerotumbler(tumblertruncate(a, n))
           /\ tumblertruncate(a, n).exp = a.exp
           /\ \A p \in Place : tumblertruncate(a, n).mantissa[p] =
                 IF p < n + a.exp THEN a.mantissa[p] ELSE 0
<1> DEFINE m == [p \in Place |-> IF p < n + a.exp THEN a.mantissa[p] ELSE 0]
           e == [a EXCEPT !.mantissa = m]
<1>1. /\ a.sign = 0 /\ a.exp \in Int /\ a.exp <= 0
      /\ \A p \in Place : a.mantissa[p] \in Nat /\ p \in Nat
      /\ a = [sign |-> 0, exp |-> a.exp, mantissa |-> a.mantissa]
  BY NumberType, PlaceIs
<1>2. tumblertruncate(a, n) = tumblerjustify(e)
  BY <1>1 DEF tumblertruncate
<1>3. \A p \in Place : m[p] \in Nat
  BY <1>1
<1>4. m \in [Place -> Int]
  BY <1>3
<1>5. m[0] # 0
  BY <1>1, PlaceIs DEF iszerotumbler
<1>6. \A p \in Place : m[p] = IF p < n + a.exp THEN a.mantissa[p] ELSE 0
  OBVIOUS
<1> HIDE DEF m
<1>7. e = [sign |-> 0, exp |-> a.exp, mantissa |-> m]
  BY <1>1
<1> HIDE DEF e
<1>8. e \in tumbler /\ e.mantissa[0] # 0
  BY <1>1, <1>4, <1>5, <1>7 DEF tumbler
<1>9. e \in Number /\ ~iszerotumbler(e)
  BY <1>1, <1>3, <1>5, <1>7, <1>8 DEF Number, tumblercheck, iszerotumbler
<1>10. tumblertruncate(a, n) = e
  BY <1>2, <1>8, JustifyKeeps
<1> QED  BY <1>6, <1>7, <1>9, <1>10

\* b begins with the digits of a.
Under(a, b) ==
    b.exp = a.exp /\ \A p \in Place : p < nstories(a) => b.mantissa[p] = a.mantissa[p]

\* What the program asks to know whether b is a, or below a.
LEMMA UnderIs ==
    ASSUME NEW a \in Number, NEW b \in Number, ~iszerotumbler(a), ~iszerotumbler(b)
    PROVE  tumblertruncate(b, tumblerlength(a)) = a <=> Under(a, b)
<1> DEFINE n == tumblerlength(a)
           t == tumblertruncate(b, n)
<1>1. /\ a \in tumbler /\ a.exp \in Int /\ b.exp \in Int
      /\ \A p \in Place : p \in Nat
  BY NumberType, PlaceIs
<1>2. /\ nstories(a) \in Nat /\ nstories(a) > 0
      /\ \A p \in Place : p >= nstories(a) => a.mantissa[p] = 0
  BY <1>1, StoriesIs, PlacesAssumption
<1>3. n \in Int /\ n + a.exp = nstories(a)
  BY <1>1, <1>2 DEF tumblerlength
<1> HIDE DEF n
<1>4. CASE n + b.exp <= 0
  <2>1. t = ZEROTUMBLER
    BY <1>4 DEF tumblertruncate
  <2>2. b.exp # a.exp
    BY <1>1, <1>2, <1>3, <1>4
  <2> QED  BY <2>1, <2>2, ZeroIsNumber DEF Under, n
<1>5. CASE n + b.exp > 0
  <2>1. /\ t \in Number /\ t.exp = b.exp
        /\ \A p \in Place : t.mantissa[p] = IF p < n + b.exp THEN b.mantissa[p] ELSE 0
    BY <1>3, <1>5, TruncateIs
  <2> HIDE DEF t
  <2>2. ASSUME t = a PROVE Under(a, b)
    BY <1>1, <1>2, <1>3, <2>1, <2>2 DEF Under
  <2>3. ASSUME Under(a, b) PROVE t = a
    <3>1. n + b.exp = nstories(a)
      BY <1>3, <2>3 DEF Under
    <3>2. \A p \in Place : t.mantissa[p] = a.mantissa[p]
      BY <1>1, <1>2, <2>1, <2>3, <3>1 DEF Under
    <3> QED  BY <2>1, <2>3, <3>2, SameNumber DEF Under
  <2> QED  BY <2>2, <2>3 DEF t, n
<1> QED  BY <1>1, <1>3, <1>4, <1>5

\* What is after a and not below it is after all that begins with a.
LEMMA AfterUnder ==
    ASSUME NEW a \in Number, NEW b \in Number, NEW c \in Number, ~iszerotumbler(a),
           Under(a, c), Before(a, b), ~Under(a, b)
    PROVE  Before(c, b)
<1>1. /\ a \in tumbler /\ a.exp \in Int /\ b.exp \in Int /\ c.exp = a.exp
      /\ \A p \in Place : p \in Nat
      /\ ~iszerotumbler(b)
      /\ nstories(a) \in Nat
  BY NumberType, PlaceIs, StoriesIs, PlacesAssumption DEF Under, Before
<1>2. CASE a.exp < b.exp
  BY <1>1, <1>2 DEF Before
<1>3. CASE ~(a.exp < b.exp)
  <2>1. a.exp = b.exp
    BY <1>3 DEF Before
  <2>2. PICK p \in Place : FirstBelow(a, b, p)
    BY <1>3 DEF Before
  <2>3. p < nstories(a)
    <3> SUFFICES ASSUME ~(p < nstories(a)) PROVE FALSE
      OBVIOUS
    <3>1. \A q \in Place : q < nstories(a) => q < p
      BY <1>1
    <3>2. Under(a, b)
      BY <2>1, <2>2, <3>1 DEF FirstBelow, Under
    <3> QED  BY <3>2
  <2>4. \A q \in Place : q < p => q < nstories(a)
    BY <1>1, <2>3
  <2>5. FirstBelow(c, b, p)
    BY <2>2, <2>3, <2>4 DEF FirstBelow, Under
  <2> QED  BY <1>1, <2>1, <2>5 DEF Before
<1> QED  BY <1>2, <1>3

\* An address made below a begins with a and comes after it.
LEMMA IncrementUnder ==
    ASSUME NEW a \in Number, ~iszerotumbler(a), NEW s \in Nat \ {0}, NEW n \in Nat \ {0},
           Increments(a, s)
    PROVE  /\ Under(a, tumblerincrement(a, s, n))
           /\ Before(a, tumblerincrement(a, s, n))
<1> DEFINE c == tumblerincrement(a, s, n)
           i == nstories(a) - 1 + s
<1>1. /\ i \in Place /\ c \in Number /\ ~iszerotumbler(c) /\ c.exp = a.exp
      /\ \A p \in Place : c.mantissa[p] = IF p = i THEN a.mantissa[p] + n ELSE a.mantissa[p]
  BY IncrementIs
<1>2. /\ a \in tumbler /\ nstories(a) \in Nat
      /\ \A p \in Place : p \in Nat /\ a.mantissa[p] \in Nat
  BY NumberType, StoriesIs, PlaceIs, PlacesAssumption
<1> HIDE DEF c
<1>3. i >= nstories(a)
  BY <1>2
<1>4. Under(a, c)
  BY <1>1, <1>2, <1>3 DEF Under
<1> HIDE DEF i
<1>5. a.mantissa[i] < c.mantissa[i]
  BY <1>1, <1>2
<1>6. FirstBelow(a, c, i)
  BY <1>1, <1>2, <1>5 DEF FirstBelow
<1>7. Before(a, c)
  BY <1>1, <1>6 DEF Before
<1> QED  BY <1>4, <1>7 DEF c

-----------------------------------------------------------------------------
(* Rows of addresses that differ in their last digit only. *)

NotAfter(a, b) == a = b \/ Before(a, b)

LEMMA NotAfterIs ==
    ASSUME NEW a \in Number, NEW b \in Number
    PROVE  NotAfter(a, b) <=> ~Before(b, a)
  BY BeforeTotal, BeforeIrreflexive, BeforeTransitive DEF NotAfter

LEMMA NotAfterBefore ==
    ASSUME NEW a \in Number, NEW b \in Number, NEW c \in Number,
           NotAfter(a, b), Before(b, c)
    PROVE  Before(a, c)
  BY BeforeTransitive DEF NotAfter

LEMMA BeforeNotAfter ==
    ASSUME NEW a \in Number, NEW b \in Number, NEW c \in Number,
           Before(a, b), NotAfter(b, c)
    PROVE  Before(a, c)
  BY BeforeTransitive DEF NotAfter

\* The address k further on (or back) in the row of a.
Step(a, k) == tumblerincrement(a, 0, k)

Stays(a, k) == k \in Int /\ a.mantissa[nstories(a) - 1] + k > 0

LEMMA StepIs ==
    ASSUME NEW a \in Number, ~iszerotumbler(a), NEW k, Stays(a, k)
    PROVE  /\ Step(a, k) \in Number
           /\ ~iszerotumbler(Step(a, k))
           /\ Step(a, k).exp = a.exp
           /\ \A p \in Place : Step(a, k).mantissa[p] =
                 IF p = nstories(a) - 1 THEN a.mantissa[p] + k ELSE a.mantissa[p]
           /\ nstories(Step(a, k)) = nstories(a)
<1> DEFINE i == nstories(a) - 1
           e == [a EXCEPT !.mantissa[i] = @ + k]
<1>1. /\ a \in tumbler /\ a.sign = 0 /\ a.exp \in Int /\ a.exp <= 0
      /\ a.mantissa \in [Place -> Int]
      /\ \A p \in Place : a.mantissa[p] \in Nat /\ p \in Nat
      /\ a = [sign |-> 0, exp |-> a.exp, mantissa |-> a.mantissa]
  BY NumberType, PlaceIs
<1>2. /\ nstories(a) \in 1..NPLACES /\ i \in Place
      /\ \A p \in Place : p >= nstories(a) => a.mantissa[p] = 0
  BY <1>1, StoriesIs
<1>3. k \in Int /\ a.mantissa[i] + k > 0 /\ a.mantissa[i] \in Nat /\ i \in Nat
  BY <1>1, <1>2 DEF Stays
<1>4. nstories(a) - 1 + 0 = i /\ nstories(a) = i + 1
  BY <1>2
<1>5. Step(a, k) = tumblerjustify(e)
  BY <1>4 DEF Step, tumblerincrement
<1> HIDE DEF i
<1>6. /\ e.sign = 0 /\ e.exp = a.exp
      /\ e.mantissa = [a.mantissa EXCEPT ![i] = @ + k]
  BY <1>1
<1>7. \A p \in Place : e.mantissa[p] = IF p = i THEN a.mantissa[p] + k ELSE a.mantissa[p]
  BY <1>1, <1>2, <1>6
<1>8. \A p \in Place : e.mantissa[p] \in Nat
  BY <1>1, <1>3, <1>7
<1>9. e.mantissa \in [Place -> Int]
  BY <1>1, <1>2, <1>3, <1>6
<1>10. e = [sign |-> 0, exp |-> a.exp, mantissa |-> e.mantissa]
  BY <1>1, <1>6
<1> HIDE DEF e
<1>11. e.mantissa[0] # 0
  <2>1. a.mantissa[0] # 0 /\ 0 \in Place
    BY PlaceIs DEF iszerotumbler
  <2> QED  BY <1>3, <1>7, <2>1
<1>12. e \in tumbler
  <2>1. [sign |-> 0, exp |-> a.exp, mantissa |-> e.mantissa] \in tumbler
    BY <1>1, <1>9 DEF tumbler
  <2> QED  BY <1>10, <2>1
<1>13. e \in Number
  <2>1. e.exp <= 0 /\ e.sign = 0
    BY <1>1, <1>6
  <2>2. \A p \in Place : e.mantissa[p] >= 0
    BY <1>8
  <2> QED  BY <1>11, <1>12, <2>1, <2>2 DEF Number, tumblercheck
<1>14. Step(a, k) = e
  BY <1>5, <1>11, <1>12, JustifyKeeps
<1>15. nstories(e) = i + 1
  <2>1. e.mantissa[i] # 0
    BY <1>2, <1>3, <1>7
  <2>2. \A q \in Place : q > i => e.mantissa[q] = 0
    <3>1. \A q \in Place : q > i => q >= nstories(a) /\ q # i
      BY <1>1, <1>3, <1>4
    <3> QED  BY <1>2, <1>7, <3>1
  <2> QED  BY <1>2, <1>11, <1>12, <2>1, <2>2, StoriesAre DEF iszerotumbler
<1> QED  BY <1>4, <1>6, <1>7, <1>11, <1>13, <1>14, <1>15 DEF iszerotumbler, i

LEMMA StaysIs ==
    ASSUME NEW a \in Number, ~iszerotumbler(a)
    PROVE  /\ \A k \in Nat : Stays(a, k)
           /\ Step(a, 0) = a
<1> DEFINE i == nstories(a) - 1
<1>1. i \in Place /\ a.mantissa[i] # 0 /\ a.mantissa[i] \in Nat
  BY StoriesIs, NumberType
<1>2. a.mantissa[i] > 0
  BY <1>1
<1>3. \A k \in Nat : Stays(a, k)
  BY <1>1, <1>2 DEF Stays
<1>4. \A p \in Place : Step(a, 0).mantissa[p] = a.mantissa[p]
  BY <1>3, StepIs, NumberType
<1>5. Step(a, 0) = a
  BY <1>3, <1>4, StepIs, SameNumber
<1> QED  BY <1>3, <1>5

LEMMA StepStep ==
    ASSUME NEW a \in Number, ~iszerotumbler(a), NEW j, NEW k, Stays(a, j), Stays(a, j + k),
           k \in Int
    PROVE  Stays(Step(a, j), k) /\ Step(Step(a, j), k) = Step(a, j + k)
<1> DEFINE i == nstories(a) - 1
           b == Step(a, j)
           c == Step(a, j + k)
<1>1. /\ b \in Number /\ ~iszerotumbler(b) /\ b.exp = a.exp /\ nstories(b) = nstories(a)
      /\ \A p \in Place : b.mantissa[p] = IF p = i THEN a.mantissa[p] + j ELSE a.mantissa[p]
  BY StepIs
<1>2. /\ c \in Number /\ c.exp = a.exp
      /\ \A p \in Place : c.mantissa[p] = IF p = i THEN a.mantissa[p] + (j + k) ELSE a.mantissa[p]
  BY StepIs
<1>3. i \in Place /\ j \in Int /\ a.mantissa[i] + (j + k) > 0
      /\ \A p \in Place : a.mantissa[p] \in Nat
  BY StoriesIs, NumberType DEF Stays
<1> HIDE DEF i, b, c
<1>4. b.mantissa[i] + k > 0
  BY <1>1, <1>3
<1>5. Stays(b, k)
  BY <1>1, <1>4 DEF Stays, i
<1>6. /\ Step(b, k) \in Number /\ Step(b, k).exp = b.exp
      /\ \A p \in Place : Step(b, k).mantissa[p] =
            IF p = i THEN b.mantissa[p] + k ELSE b.mantissa[p]
  BY <1>1, <1>5, StepIs DEF i
<1>7. \A p \in Place : Step(b, k).mantissa[p] = c.mantissa[p]
  BY <1>1, <1>2, <1>3, <1>6
<1>8. Step(b, k) = c
  BY <1>1, <1>2, <1>6, <1>7, SameNumber
<1> QED  BY <1>5, <1>8 DEF b, c

LEMMA StepBefore ==
    ASSUME NEW a \in Number, ~iszerotumbler(a), NEW j, NEW k, Stays(a, j), Stays(a, k), j < k
    PROVE  Before(Step(a, j), Step(a, k))
<1> DEFINE i == nstories(a) - 1
<1>1. /\ ~iszerotumbler(Step(a, k)) /\ Step(a, k).exp = a.exp /\ Step(a, j).exp = a.exp
      /\ \A p \in Place : /\ Step(a, j).mantissa[p] =
                                 IF p = i THEN a.mantissa[p] + j ELSE a.mantissa[p]
                          /\ Step(a, k).mantissa[p] =
                                 IF p = i THEN a.mantissa[p] + k ELSE a.mantissa[p]
  BY StepIs
<1>2. i \in Place /\ a.mantissa[i] \in Nat /\ j \in Int /\ k \in Int /\ i \in Nat
  BY StoriesIs, NumberType, PlaceIs DEF Stays
<1> HIDE DEF i
<1>3. Step(a, j).mantissa[i] < Step(a, k).mantissa[i]
  BY <1>1, <1>2
<1>4. \A q \in Place : q < i => Step(a, j).mantissa[q] = Step(a, k).mantissa[q]
  <2>1. \A q \in Place : q < i => q # i
    BY <1>2, PlaceIs
  <2> QED  BY <1>1, <2>1
<1>5. FirstBelow(Step(a, j), Step(a, k), i)
  BY <1>3, <1>4 DEF FirstBelow
<1> QED  BY <1>1, <1>2, <1>5 DEF Before

\* b has the digits of a up to its last one.
InRow(a, b) ==
    b.exp = a.exp /\ \A p \in Place : p < nstories(a) - 1 => b.mantissa[p] = a.mantissa[p]

\* What is outside a row is on the same side of all of it.
LEMMA StepOutside ==
    ASSUME NEW a \in Number, NEW b \in Number, ~iszerotumbler(a), NEW k, Stays(a, k),
           ~InRow(a, b)
    PROVE  /\ Before(a, b) => Before(Step(a, k), b)
           /\ Before(b, a) => Before(b, Step(a, k))
<1> DEFINE i == nstories(a) - 1
           c == Step(a, k)
<1>1. /\ ~iszerotumbler(c) /\ c.exp = a.exp
      /\ \A p \in Place : c.mantissa[p] = IF p = i THEN a.mantissa[p] + k ELSE a.mantissa[p]
  BY StepIs
<1>2. /\ i \in Nat /\ a.exp \in Int /\ b.exp \in Int
      /\ \A p \in Place : a.mantissa[p] \in Nat /\ b.mantissa[p] \in Nat /\ p \in Nat
  BY StoriesIs, NumberType, PlaceIs
<1> HIDE DEF c
<1>3. \A p \in Place : p < i => c.mantissa[p] = a.mantissa[p]
  BY <1>1, <1>2
<1>4. ASSUME a.exp = b.exp PROVE \E p \in Place : p < i /\ b.mantissa[p] # a.mantissa[p]
  BY <1>4 DEF InRow
<1>5. ASSUME Before(a, b) PROVE Before(c, b)
  <2>1. CASE a.exp < b.exp
    BY <1>1, <1>5, <2>1 DEF Before
  <2>2. CASE ~(a.exp < b.exp)
    <3>1. a.exp = b.exp
      BY <1>5, <2>2 DEF Before
    <3>2. PICK p \in Place : FirstBelow(a, b, p)
      BY <1>5, <2>2 DEF Before
    <3>3. PICK q \in Place : q < i /\ b.mantissa[q] # a.mantissa[q]
      BY <1>4, <3>1
    <3>4. ~(q < p)
      BY <3>2, <3>3 DEF FirstBelow
    <3>5. p < i
      BY <1>2, <3>3, <3>4
    <3>6. FirstBelow(c, b, p)
      BY <1>2, <1>3, <3>2, <3>5 DEF FirstBelow
    <3> QED  BY <1>1, <1>5, <3>1, <3>6 DEF Before
  <2> QED  BY <2>1, <2>2
<1>6. ASSUME Before(b, a) PROVE Before(b, c)
  <2>1. CASE iszerotumbler(b) \/ b.exp < a.exp
    BY <1>1, <1>6, <2>1 DEF Before
  <2>2. CASE ~(iszerotumbler(b) \/ b.exp < a.exp)
    <3>1. a.exp = b.exp
      BY <1>6, <2>2 DEF Before
    <3>2. PICK p \in Place : FirstBelow(b, a, p)
      BY <1>6, <2>2 DEF Before
    <3>3. PICK q \in Place : q < i /\ b.mantissa[q] # a.mantissa[q]
      BY <1>4, <3>1
    <3>4. ~(q < p)
      BY <3>2, <3>3 DEF FirstBelow
    <3>5. p < i
      BY <1>2, <3>3, <3>4
    <3>6. FirstBelow(b, c, p)
      BY <1>2, <1>3, <3>2, <3>5 DEF FirstBelow
    <3> QED  BY <1>1, <3>1, <3>6 DEF Before
  <2> QED  BY <2>1, <2>2
<1> QED  BY <1>5, <1>6 DEF c

\* Between an address and the next of its row there is only what is below it.
LEMMA NextInRow ==
    ASSUME NEW a \in Number, NEW b \in Number, ~iszerotumbler(a), Before(a, b), ~Under(a, b)
    PROVE  NotAfter(Step(a, 1), b)
<1> DEFINE i == nstories(a) - 1
           c == Step(a, 1)
<1>1. /\ c \in Number /\ ~iszerotumbler(c) /\ c.exp = a.exp
      /\ \A p \in Place : c.mantissa[p] = IF p = i THEN a.mantissa[p] + 1 ELSE a.mantissa[p]
  BY StepIs, StaysIs
<1>2. /\ i \in Place /\ i \in Nat /\ nstories(a) = i + 1 /\ a.exp \in Int /\ b.exp \in Int
      /\ \A p \in Place : p > i => a.mantissa[p] = 0
      /\ \A p \in Place : a.mantissa[p] \in Nat /\ b.mantissa[p] \in Nat /\ p \in Nat
  BY StoriesIs, NumberType, PlaceIs
<1> HIDE DEF i, c
<1>3. ~iszerotumbler(b)
  BY DEF Before
<1>4. ASSUME Before(b, c) PROVE FALSE
  <2>1. a.exp = b.exp
    BY <1>1, <1>2, <1>3, <1>4 DEF Before
  <2>2. PICK p \in Place : FirstBelow(a, b, p)
    BY <1>2, <2>1 DEF Before
  <2>3. PICK q \in Place : FirstBelow(b, c, q)
    BY <1>1, <1>2, <1>3, <1>4, <2>1 DEF Before
  <2>4. p <= i
    <3> SUFFICES ASSUME ~(p <= i) PROVE FALSE
      OBVIOUS
    <3>1. \A r \in Place : r < nstories(a) => r < p
      BY <1>2
    <3> QED  BY <2>1, <2>2, <3>1 DEF Under, FirstBelow
  <2>5. q <= i
    <3> SUFFICES ASSUME q > i PROVE FALSE
      BY <1>2
    <3>1. a.mantissa[q] = 0 /\ q # i
      BY <1>2
    <3>2. c.mantissa[q] = 0
      BY <1>1, <3>1
    <3> QED  BY <1>2, <2>3, <3>2 DEF FirstBelow
  <2>6. CASE p < q
    <3>1. p # i
      BY <1>2, <2>5, <2>6
    <3>2. c.mantissa[p] = a.mantissa[p]
      BY <1>1, <3>1
    <3> QED  BY <1>2, <2>2, <2>3, <2>6, <3>2 DEF FirstBelow
  <2>7. CASE p = q
    <3>1. c.mantissa[p] <= a.mantissa[p] + 1
      <4>1. c.mantissa[p] = IF p = i THEN a.mantissa[p] + 1 ELSE a.mantissa[p]
        BY <1>1
      <4>2. a.mantissa[p] \in Nat
        BY <1>2
      <4> HIDE DEF i
      <4> QED  BY <4>1, <4>2
    <3>2. /\ a.mantissa[p] < b.mantissa[p] /\ b.mantissa[p] < c.mantissa[p]
          /\ a.mantissa[p] \in Nat /\ b.mantissa[p] \in Nat
      BY <1>2, <2>2, <2>3, <2>7 DEF FirstBelow
    <3>3. c.mantissa[p] \in Nat
      BY <1>1, NumberType
    <3> QED  BY <3>1, <3>2, <3>3
  <2>8. CASE q < p
    <3>1. q # i
      BY <1>2, <2>4, <2>8
    <3>2. c.mantissa[q] = a.mantissa[q]
      BY <1>1, <3>1
    <3> QED  BY <1>2, <2>2, <2>3, <2>8, <3>2 DEF FirstBelow
  <2> QED  BY <1>2, <2>6, <2>7, <2>8
<1>5. NotAfter(c, b)
  BY <1>1, <1>4, NotAfterIs
<1> QED  BY <1>5 DEF c

-----------------------------------------------------------------------------
(* The laws. *)

AreOperands == operands \in Operand \X Operand \X Operand

\* The steps only trade the operands.
LEMMA OperandsStay == LawsSpec => []AreOperands
<1>1. LawsInit => AreOperands
  BY DEF LawsInit, AreOperands
<1>2. AreOperands /\ [LawsNext]_operands => AreOperands'
  BY DEF AreOperands, LawsNext
<1> QED  BY <1>1, <1>2, PTL DEF LawsSpec

LEMMA PositiveIsNumber ==
    ASSUME NEW a \in Operand, Positive(a)
    PROVE  a \in Number
  BY OperandAssumption DEF Positive, Number

\* What is not before a number is one.
LEMMA AboveIsNumber ==
    ASSUME NEW a \in Number, NEW b \in Operand, AtMost(a, b)
    PROVE  b \in Number
<1>1. a.sign = 0 /\ b \in tumbler /\ tumblercheck(b) /\ b.sign \in {0, 1}
  BY OperandAssumption DEF Number, tumbler
<1>2. CASE b.sign = 1
  <2>1. ~iszerotumbler(b)
    BY <1>1, <1>2 DEF tumblercheck, ZEROTUMBLER, iszerotumbler
  <2>2. tumblercmp(a, b) = GREATER
    BY <1>1, <1>2, <2>1 DEF tumblercmp
  <2> QED  BY <2>2 DEF AtMost
<1>3. CASE b.sign = 0
  BY <1>1, <1>3 DEF Number
<1> QED  BY <1>1, <1>2, <1>3

-----------------------------------------------------------------------------
(* The order is that of the positions. *)

LEMMA DigitAtIs ==
    ASSUME NEW a \in Number, NEW k \in Nat
    PROVE  /\ DigitAt(a, k) \in Nat
           /\ k < -a.exp => DigitAt(a, k) = 0
           /\ iszerotumbler(a) => DigitAt(a, k) = 0
<1>1. a.exp \in Int /\ \A p \in Place : a.mantissa[p] \in Nat
  BY NumberType
<1>2. k < -a.exp => k + a.exp < 0
  BY <1>1
<1>3. k + a.exp < 0 => ~(k + a.exp \in Place)
  BY <1>1, PlacesAssumption DEF Place
<1>4. iszerotumbler(a) => \A p \in Place : a.mantissa[p] = 0
  BY NumberType DEF ZEROTUMBLER
<1>5. k + a.exp \in Place => DigitAt(a, k) = a.mantissa[k + a.exp]
  BY DEF DigitAt
<1>6. ~(k + a.exp \in Place) => DigitAt(a, k) = 0
  BY DEF DigitAt
<1>7. DigitAt(a, k) \in Nat
  BY <1>1, <1>5, <1>6
<1>8. k < -a.exp => DigitAt(a, k) = 0
  BY <1>2, <1>3, <1>6
<1>9. iszerotumbler(a) => DigitAt(a, k) = 0
  BY <1>4, <1>5, <1>6
<1> QED  BY <1>7, <1>8, <1>9

LEMMA DigitAtPlace ==
    ASSUME NEW a \in Number, NEW p \in Place
    PROVE  p - a.exp \in Nat /\ DigitAt(a, p - a.exp) = a.mantissa[p]
<1>1. a.exp \in Int /\ a.exp <= 0 /\ p \in Nat
  BY NumberType, PlaceIs
<1>2. (p - a.exp) + a.exp = p /\ p - a.exp \in Nat
  BY <1>1
<1> QED  BY <1>2 DEF DigitAt

LEMMA PositionsAre ==
    ASSUME NEW a \in Number, NEW b \in Number
    PROVE  /\ Positions(a, b) \subseteq Nat
           /\ Positions(a, b) = Positions(b, a)
           /\ \A p \in Place : p - a.exp \in Positions(a, b)
<1>1. a.exp \in Int /\ a.exp <= 0 /\ b.exp \in Int /\ b.exp <= 0
  BY NumberType
<1>2. NPLACES - a.exp - b.exp = NPLACES - b.exp - a.exp
  BY <1>1, PlacesAssumption
<1>3. \A p \in Place : p - a.exp \in 0..(NPLACES - a.exp - b.exp)
  BY <1>1, PlacesAssumption DEF Place
<1>4. 0..(NPLACES - a.exp - b.exp) \subseteq Nat
  BY <1>1, PlacesAssumption
<1> QED  BY <1>2, <1>3, <1>4 DEF Positions

LEMMA BeforePrecedes ==
    ASSUME NEW a \in Number, NEW b \in Number, Before(a, b)
    PROVE  Precedes(a, b)
<1>1. a.exp \in Int /\ a.exp <= 0 /\ b.exp \in Int /\ b.exp <= 0
      /\ \A p \in Place : a.mantissa[p] \in Nat /\ b.mantissa[p] \in Nat
  BY NumberType
<1>2. ~iszerotumbler(b) /\ b.mantissa[0] # 0
  BY DEF Before, iszerotumbler
<1>3. Positions(a, b) \subseteq Nat /\ \A p \in Place : p - b.exp \in Positions(a, b)
  BY PositionsAre
<1>4. CASE iszerotumbler(a) \/ a.exp < b.exp
  <2> DEFINE k == 0 - b.exp
  <2>1. k \in Positions(a, b) /\ k \in Nat /\ k = -b.exp
    BY <1>1, <1>3, PlaceIs
  <2>2. DigitAt(b, k) = b.mantissa[0]
    BY DigitAtPlace, PlaceIs
  <2>3. \A j \in Nat : j <= k => DigitAt(a, j) = 0
    <3> SUFFICES ASSUME NEW j \in Nat, j <= k PROVE DigitAt(a, j) = 0
      OBVIOUS
    <3>1. a.exp < b.exp => j < -a.exp
      BY <1>1
    <3> QED  BY <1>4, <3>1, DigitAtIs
  <2>4. \A j \in Nat : j < k => DigitAt(b, j) = 0
    <3> SUFFICES ASSUME NEW j \in Nat, j < k PROVE DigitAt(b, j) = 0
      OBVIOUS
    <3>1. j < -b.exp
      BY <2>1
    <3> QED  BY <3>1, DigitAtIs
  <2> HIDE DEF k
  <2>5. DigitAt(a, k) < DigitAt(b, k)
    BY <1>1, <1>2, <2>1, <2>2, <2>3, PlaceIs
  <2>6. \A j \in Positions(a, b) : j < k => DigitAt(a, j) = DigitAt(b, j)
    BY <1>3, <2>1, <2>3, <2>4
  <2> QED  BY <2>1, <2>5, <2>6 DEF Precedes
<1>5. CASE ~iszerotumbler(a) /\ ~(a.exp < b.exp)
  <2>1. PICK p \in Place : FirstBelow(a, b, p)
    BY <1>5 DEF Before
  <2>2. a.exp = b.exp
    BY <1>5 DEF Before
  <2>3. p - b.exp \in Positions(a, b) /\ p \in Nat
    BY <1>3, PlaceIs
  <2>4. DigitAt(a, p - b.exp) < DigitAt(b, p - b.exp)
    <3>1. DigitAt(a, p - a.exp) = a.mantissa[p] /\ DigitAt(b, p - b.exp) = b.mantissa[p]
      BY DigitAtPlace
    <3> QED  BY <2>1, <2>2, <3>1 DEF FirstBelow
  <2>5. ASSUME NEW j \in Positions(a, b), j < p - b.exp
        PROVE  DigitAt(a, j) = DigitAt(b, j)
    <3>1. j \in Nat /\ j + b.exp < p
      BY <1>1, <1>3, <2>3, <2>5
    <3>2. j + b.exp \in Place => a.mantissa[j + b.exp] = b.mantissa[j + b.exp]
      BY <2>1, <3>1 DEF FirstBelow
    <3> QED  BY <2>2, <3>2 DEF DigitAt
  <2> QED  BY <2>3, <2>4, <2>5 DEF Precedes
<1> QED  BY <1>4, <1>5

LEMMA PrecedesIsBefore ==
    ASSUME NEW a \in Number, NEW b \in Number
    PROVE  /\ Precedes(a, b) <=> Before(a, b)
           /\ SamePlace(a, b) <=> a = b
<1>1. Positions(a, b) = Positions(b, a) /\ Positions(a, b) \subseteq Nat
  BY PositionsAre
<1>2. \A j \in Positions(a, b) : DigitAt(a, j) \in Nat /\ DigitAt(b, j) \in Nat /\ j \in Nat
  BY <1>1, DigitAtIs
<1>3. ~(Precedes(a, b) /\ Precedes(b, a))
  <2> SUFFICES ASSUME Precedes(a, b), Precedes(b, a) PROVE FALSE
    OBVIOUS
  <2>1. PICK k \in Positions(a, b) :
            /\ DigitAt(a, k) < DigitAt(b, k)
            /\ \A j \in Positions(a, b) : j < k => DigitAt(a, j) = DigitAt(b, j)
    BY DEF Precedes
  <2>2. PICK l \in Positions(a, b) :
            /\ DigitAt(b, l) < DigitAt(a, l)
            /\ \A j \in Positions(a, b) : j < l => DigitAt(b, j) = DigitAt(a, j)
    BY <1>1 DEF Precedes
  <2>3. k < l \/ k = l \/ l < k
    BY <1>2
  <2> QED  BY <1>2, <2>1, <2>2, <2>3
<1>4. a = b => SamePlace(a, b)
  BY DEF SamePlace
<1>5. SamePlace(a, b) => ~Precedes(a, b) /\ ~Precedes(b, a)
  BY <1>1, <1>2 DEF SamePlace, Precedes
<1>6. (Before(a, b) => Precedes(a, b)) /\ (Before(b, a) => Precedes(b, a))
  BY BeforePrecedes
<1>7. Before(a, b) \/ a = b \/ Before(b, a)
  BY BeforeTotal
<1> QED  BY <1>3, <1>4, <1>5, <1>6, <1>7

\* tumblercmp is the lexicographic order of the positions, whatever exponent
\* and mantissa the digits are kept with.
THEOREM OrderIsPositionalHolds == LawsSpec => []OrderIsPositional
<1>1. ASSUME AreOperands
      PROVE  OrderIsPositional
  <2> DEFINE x == operands[1]
             y == operands[2]
  <2>0. x \in Operand /\ y \in Operand
    BY <1>1 DEF AreOperands
  <2> SUFFICES ASSUME Positive(x), Positive(y)
               PROVE  /\ tumblercmp(x, y) = LESS <=> Precedes(x, y)
                      /\ tumblercmp(x, y) = EQUAL <=> SamePlace(x, y)
                      /\ tumblercmp(x, y) = LESS <=> tumblercmp(y, x) = GREATER
    BY DEF OrderIsPositional
  <2>1. x \in Number /\ y \in Number
    BY <2>0, PositiveIsNumber
  <2> QED  BY <2>1, CmpIs, PrecedesIsBefore
<1> QED  BY <1>1, OperandsStay, PTL

-----------------------------------------------------------------------------
(* Widths. *)

\* A width, added to where it starts, gives where it ends.
THEOREM WidthReachesHolds == LawsSpec => []WidthReaches
<1>1. ASSUME AreOperands
      PROVE  WidthReaches
  <2> DEFINE x == operands[1]
             y == operands[2]
  <2>0. x \in Operand /\ y \in Operand
    BY <1>1 DEF AreOperands
  <2> SUFFICES ASSUME Positive(x), AtMost(x, y)
               PROVE  tumbleradd(x, tumblersub(y, x)) = y
    BY DEF WidthReaches
  <2>1. x \in Number /\ y \in Number
    BY <2>0, PositiveIsNumber, AboveIsNumber
  <2>2. x = y \/ Before(x, y)
    BY <2>1, NotGreaterIs DEF AtMost
  <2> QED  BY <2>1, <2>2, SubIs
<1> QED  BY <1>1, OperandsStay, PTL

\* However the crums of a row are grouped, their widths add up to the same,
\* with any number of digits lost behind the last place.
THEOREM WidthsGroupHolds == LawsSpec => []WidthsGroup
<1>1. ASSUME AreOperands
      PROVE  WidthsGroup
  <2> DEFINE x == operands[1]
             y == operands[2]
             z == operands[3]
  <2>1. x \in Operand /\ y \in Operand /\ z \in Operand
    BY <1>1 DEF AreOperands
  <2>2. ASSUME Positive(x), Positive(y), Positive(z)
        PROVE  tumbleradd(tumbleradd(x, y), z) = tumbleradd(x, tumbleradd(y, z))
    BY <2>1, <2>2, PositiveIsNumber, AddAssociative
  <2> QED  BY <2>2 DEF WidthsGroup
<1> QED  BY <1>1, OperandsStay, PTL

\* Of two crums at one start the wider does not end first.
THEOREM WiderEndsLaterHolds == LawsSpec => []WiderEndsLater
<1>1. ASSUME AreOperands
      PROVE  WiderEndsLater
  <2> DEFINE x == operands[1]
             y == operands[2]
             z == operands[3]
  <2>0. x \in Operand /\ y \in Operand /\ z \in Operand
    BY <1>1 DEF AreOperands
  <2> SUFFICES ASSUME Positive(x), Positive(y), AtMost(y, z)
               PROVE  AtMost(tumbleradd(x, y), tumbleradd(x, z))
    BY DEF WiderEndsLater
  <2>1. x \in Number /\ y \in Number /\ z \in Number
    BY <2>0, PositiveIsNumber, AboveIsNumber
  <2>2. y = z \/ Before(y, z)
    BY <2>1, NotGreaterIs DEF AtMost
  <2>3. tumbleradd(x, y) \in Number /\ tumbleradd(x, z) \in Number
    BY <2>1, AddIs
  <2>4. \/ tumbleradd(x, y) = tumbleradd(x, z)
        \/ Before(tumbleradd(x, y), tumbleradd(x, z))
    BY <2>1, <2>2, AddMonotonic
  <2> QED  BY <2>3, <2>4, NotGreaterIs DEF AtMost
<1> QED  BY <1>1, OperandsStay, PTL

-----------------------------------------------------------------------------
(* Addresses. *)

\* Whatever is made below an address, at whatever depth, stands before every
\* address that is after it and not below it.
THEOREM ChildFollowsHolds == LawsSpec => []ChildFollows
<1>1. ASSUME AreOperands
      PROVE  ChildFollows
  <2> DEFINE x == operands[1]
             y == operands[2]
  <2>0. x \in Operand /\ y \in Operand
    BY <1>1 DEF AreOperands
  <2> SUFFICES ASSUME Positive(x), Positive(y), ~iszerotumbler(x),
                      NEW s \in Shift \ {0}, NEW d \in Addend, Increments(x, s)
               PROVE  LET child == tumblerincrement(x, s, d)
                      IN  /\ tumblercmp(x, child) = LESS
                          /\ tumblertruncate(child, tumblerlength(x)) = x
                          /\ /\ tumblercmp(x, y) = LESS
                             /\ tumblertruncate(y, tumblerlength(x)) # x
                             => tumblercmp(child, y) = LESS
    BY DEF ChildFollows
  <2> DEFINE child == tumblerincrement(x, s, d)
  <2>1. x \in Number /\ y \in Number /\ s \in Nat \ {0} /\ d \in Nat \ {0}
    BY <2>0, PositiveIsNumber, OperandAssumption
  <2>2. child \in Number /\ ~iszerotumbler(child)
    BY <2>1, IncrementIs
  <2>3. Under(x, child) /\ Before(x, child)
    BY <2>1, IncrementUnder
  <2> HIDE DEF child
  <2>4. tumblercmp(x, child) = LESS /\ tumblertruncate(child, tumblerlength(x)) = x
    BY <2>1, <2>2, <2>3, CmpIs, UnderIs
  <2>5. ASSUME tumblercmp(x, y) = LESS, tumblertruncate(y, tumblerlength(x)) # x
        PROVE  tumblercmp(child, y) = LESS
    <3>1. Before(x, y)
      BY <2>1, <2>5, CmpIs
    <3>2. ~iszerotumbler(y)
      BY <3>1 DEF Before
    <3>3. ~Under(x, y)
      BY <2>1, <2>5, <3>2, UnderIs
    <3>4. Before(child, y)
      BY <2>1, <2>2, <2>3, <3>1, <3>3, AfterUnder
    <3> QED  BY <2>1, <2>2, <3>4, CmpIs
  <2> QED  BY <2>4, <2>5 DEF child
<1> QED  BY <1>1, OperandsStay, PTL
=============================================================================
