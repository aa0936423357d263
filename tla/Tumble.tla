------------------------------- MODULE Tumble -------------------------------
(***************************************************************************)
(* Tumbler arithmetic (tumble.c).  A tumbler is a number of many digits    *)
(* after an exponent that is never positive: the digits stand at the       *)
(* positions -exp, -exp + 1, ...  Only NPLACES digits are kept.  The       *)
(* operators keep the names and the cases of the C functions; what the C   *)
(* functions write through their last pointer is the operator's value.     *)
(* Digits are natural numbers: the C type is 32 bits wide, and no address  *)
(* comes near that.  weaksub alone can make a digit negative.              *)
(***************************************************************************)
EXTENDS Integers, FiniteSetsExt

CONSTANT NPLACES            \* 16 in common.h

ASSUME PlacesAssumption == NPLACES \in Nat \ {0}

Place == 0..(NPLACES - 1)

tumbler == [sign : {0, 1}, exp : Int, mantissa : [Place -> Int]]

ZEROTUMBLER == [sign |-> 0, exp |-> 0, mantissa |-> [p \in Place |-> 0]]

LESS == -1
EQUAL == 0
GREATER == 1

iszerotumbler(a) == a.mantissa[0] = 0

\* What the checks of the program call a valid tumbler.
tumblercheck(a) ==
    /\ a.exp <= 0
    /\ a.mantissa[0] = 0 => a = ZEROTUMBLER
    /\ \A p \in Place : a.mantissa[p] >= 0

tumblereq(a, b) == a = b

\* The first place where two mantissas differ.
FirstDifference(a, b) == Min({p \in Place : a.mantissa[p] # b.mantissa[p]})

\* Slip: the mantissas are compared whatever the exponents.
abscmpFlat(a, b) ==
    IF a.mantissa = b.mantissa THEN EQUAL
    ELSE LET p == FirstDifference(a, b)
         IN  IF a.mantissa[p] < b.mantissa[p] THEN LESS ELSE GREATER

abscmp(a, b) ==
    IF a.exp # b.exp THEN IF a.exp < b.exp THEN LESS ELSE GREATER
    ELSE IF a.mantissa = b.mantissa THEN EQUAL
    ELSE LET p == FirstDifference(a, b)
         IN  IF a.mantissa[p] < b.mantissa[p] THEN LESS ELSE GREATER

tumblercmp(a, b) ==
    CASE iszerotumbler(a) /\ iszerotumbler(b) -> EQUAL
      [] iszerotumbler(a) /\ ~iszerotumbler(b) -> IF b.sign = 1 THEN GREATER ELSE LESS
      [] ~iszerotumbler(a) /\ iszerotumbler(b) -> IF a.sign = 1 THEN LESS ELSE GREATER
      [] OTHER -> IF a.sign # b.sign THEN IF a.sign = 1 THEN LESS ELSE GREATER
                  ELSE IF a.sign = 1 THEN abscmp(b, a) ELSE abscmp(a, b)

\* Places in use; a zero tumbler uses one.
nstories(a) == 1 + Max({0} \union {p \in Place : a.mantissa[p] # 0})

tumblerlength(a) == nstories(a) - a.exp

lastdigitintumbler(a) == a.mantissa[nstories(a) - 1]

\* The mantissa from place k on, moved to the front.
From(m, k) == [p \in Place |-> IF p + k \in Place THEN m[p + k] ELSE 0]

tumblerjustify(a) ==
    LET used == {p \in Place : a.mantissa[p] # 0}
    IN  IF used = {} THEN [a EXCEPT !.exp = 0, !.sign = 0]
        ELSE [a EXCEPT !.exp = a.exp - Min(used), !.mantissa = From(a.mantissa, Min(used))]

\* Slip: digits of a below the first one of b stay.
absaddTail(a, b) ==
    [sign |-> 0,
     exp |-> IF a.exp >= b.exp THEN a.exp ELSE b.exp,
     mantissa |->
        LET d == a.exp - b.exp
        IN  IF d < 0 THEN b.mantissa
            ELSE [p \in Place |-> IF p < d THEN a.mantissa[p]
                                  ELSE a.mantissa[p] + b.mantissa[p - d]]]

\* Slip: the result is always as fine as a.
absaddExp(a, b) ==
    [sign |-> 0,
     exp |-> a.exp,
     mantissa |->
        LET d == a.exp - b.exp
        IN  IF d < 0 THEN b.mantissa
            ELSE [p \in Place |-> IF p < d THEN a.mantissa[p]
                                  ELSE IF p = d THEN a.mantissa[p] + b.mantissa[0]
                                  ELSE b.mantissa[p - d]]]

\* The digits of a before the first one of b, then b.  (The C code would
\* write beyond its array if the exponents differed by NPLACES or more.)
absadd(a, b) ==
    [sign |-> 0,
     exp |-> IF a.exp >= b.exp THEN a.exp ELSE b.exp,
     mantissa |->
        LET d == a.exp - b.exp
        IN  IF d < 0 THEN b.mantissa
            ELSE [p \in Place |-> IF p < d THEN a.mantissa[p]
                                  ELSE IF p = d THEN a.mantissa[p] + b.mantissa[0]
                                  ELSE b.mantissa[p - d]]]

\* Slip: the exponent does not follow the digits that cancel.
strongsubHigh(a, b) ==
    IF b.exp < a.exp THEN a
    ELSE IF a.mantissa = b.mantissa THEN ZEROTUMBLER
    ELSE LET k == FirstDifference(a, b)
         IN  [sign |-> 0, exp |-> a.exp,
              mantissa |-> [From(a.mantissa, k) EXCEPT ![0] = a.mantissa[k] - b.mantissa[k]]]

\* a - b for a the greater, so that adding the result to b gives a.
strongsub(a, b) ==
    IF b.exp < a.exp THEN a
    ELSE IF a.mantissa = b.mantissa THEN ZEROTUMBLER
    ELSE LET k == FirstDifference(a, b)
         IN  [sign |-> 0, exp |-> a.exp - k,
              mantissa |-> [From(a.mantissa, k) EXCEPT ![0] = a.mantissa[k] - b.mantissa[k]]]

\* The digits of a down to the first one of b, which is taken off.
weaksub(a, b) ==
    LET d == a.exp - b.exp
    IN  [sign |-> 0, exp |-> a.exp,
         mantissa |-> [p \in Place |-> IF p < d THEN a.mantissa[p]
                                       ELSE IF p = d THEN a.mantissa[p] - b.mantissa[0]
                                       ELSE 0]]

justifiedIfZero(a) == IF a.mantissa[0] = 0 THEN tumblerjustify(a) ELSE a

tumbleradd(a, b) ==
    CASE iszerotumbler(b) -> a
      [] ~iszerotumbler(b) /\ iszerotumbler(a) -> b
      [] OTHER ->
           IF a.sign = b.sign THEN [absadd(a, b) EXCEPT !.sign = a.sign]
           ELSE IF abscmp(a, b) = GREATER
                THEN justifiedIfZero([strongsub(a, b) EXCEPT !.sign = a.sign])
                ELSE justifiedIfZero([weaksub(b, a) EXCEPT !.sign = b.sign])

negated(a) == [a EXCEPT !.sign = 1 - a.sign]

tumblersub(a, b) ==
    tumblerjustify(CASE iszerotumbler(b) -> a
                     [] ~iszerotumbler(b) /\ tumblereq(a, b) -> ZEROTUMBLER
                     [] ~iszerotumbler(b) /\ iszerotumbler(a) -> negated(b)
                     [] OTHER -> tumbleradd(a, negated(b)))

tumblerintdiff(a, b) == tumblersub(a, b).mantissa[0]

\* Slip: the digit goes one place to the left of where it should.
tumblerincrementLeft(a, rightshift, n) ==
    IF iszerotumbler(a)
    THEN [ZEROTUMBLER EXCEPT !.exp = -rightshift, !.mantissa[0] = n]
    ELSE LET p == nstories(a) - 1 + rightshift
         IN  tumblerjustify([a EXCEPT !.mantissa[IF p = 0 THEN 0 ELSE p - 1] = @ + n])

\* n is added rightshift places after the last digit.  (gerror, which ends the
\* program, when that is beyond the last place.)
Increments(a, rightshift) == iszerotumbler(a) \/ nstories(a) - 1 + rightshift \in Place

tumblerincrement(a, rightshift, n) ==
    IF iszerotumbler(a)
    THEN [ZEROTUMBLER EXCEPT !.exp = -rightshift, !.mantissa[0] = n]
    ELSE tumblerjustify([a EXCEPT !.mantissa[nstories(a) - 1 + rightshift] = @ + n])

\* The first n positions.
tumblertruncate(a, n) ==
    LET kept == n + a.exp
    IN  IF kept <= 0 THEN ZEROTUMBLER
        ELSE tumblerjustify([a EXCEPT !.mantissa =
                 [p \in Place |-> IF p < kept THEN a.mantissa[p] ELSE 0]])

beheadtumbler(a) ==
    tumblerjustify([a EXCEPT !.exp = @ + 1,
                             !.mantissa[0] = IF a.exp = 0 THEN 0 ELSE @])

TOMYLEFT == -2
ONMYLEFTBORDER == -1
THRUME == 0
ONMYRIGHTBORDER == 1
TOMYRIGHT == 2

intervalcmp(left, right, address) ==
    CASE tumblercmp(address, left) = LESS -> TOMYLEFT
      [] tumblercmp(address, left) = EQUAL -> ONMYLEFTBORDER
      [] OTHER -> CASE tumblercmp(address, right) = LESS -> THRUME
                    [] tumblercmp(address, right) = EQUAL -> ONMYRIGHTBORDER
                    [] OTHER -> TOMYRIGHT
=============================================================================
