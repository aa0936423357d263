----------------------------- MODULE TumbleLaws -----------------------------
(***************************************************************************)
(* What the enfilades rely on when they compute with tumblers: stated      *)
(* against the positional meaning of a tumbler, and checked for all        *)
(* triples of the operands of an instance.                                 *)
(***************************************************************************)
EXTENDS Tumble

CONSTANTS
    Operand,        \* tumblers
    Shift,          \* right shifts of tumblerincrement
    Addend          \* what it adds

ASSUME OperandAssumption ==
    /\ Operand \subseteq tumbler
    /\ \A a \in Operand : tumblercheck(a)
    /\ Shift \subseteq Nat
    /\ Addend \subseteq Nat \ {0}

VARIABLE operands

\* Any three operands, which trade places.
LawsInit == operands \in Operand \X Operand \X Operand

LawsNext == operands' = <<operands[2], operands[3], operands[1]>>

LawsSpec == LawsInit /\ [][LawsNext]_operands

-----------------------------------------------------------------------------
(* The meaning of a tumbler: a digit at every position. *)

\* The positions from the first to the last digit that a or b may have.
Positions(a, b) == 0..(NPLACES - a.exp - b.exp)

DigitAt(a, k) == IF k + a.exp \in Place THEN a.mantissa[k + a.exp] ELSE 0

\* Lexicographic order of the digits, first position first.
Precedes(a, b) ==
    \E k \in Positions(a, b) :
        /\ DigitAt(a, k) < DigitAt(b, k)
        /\ \A j \in Positions(a, b) : j < k => DigitAt(a, j) = DigitAt(b, j)

SamePlace(a, b) == \A k \in Positions(a, b) : DigitAt(a, k) = DigitAt(b, k)

Positive(a) == a.sign = 0

AtMost(a, b) == tumblercmp(a, b) # GREATER

\* tumblercmp is the order of the document space, and tells apart what differs.
OrderIsPositional ==
    LET x == operands[1]
        y == operands[2]
    IN  Positive(x) /\ Positive(y) =>
            /\ tumblercmp(x, y) = LESS <=> Precedes(x, y)
            /\ tumblercmp(x, y) = EQUAL <=> SamePlace(x, y)
            /\ tumblercmp(x, y) = LESS <=> tumblercmp(y, x) = GREATER

\* The width between two addresses, added to the first, gives the second:
\* insertseq stores widths, and every search adds them up again (insert.c:53).
WidthReaches ==
    LET x == operands[1]
        y == operands[2]
    IN  Positive(x) /\ AtMost(x, y) => tumbleradd(x, tumblersub(y, x)) = y

\* A row of crums is as wide as its parts, however they are grouped under
\* upper crums (setwispupwards), and whatever digits are lost at the end.
WidthsGroup ==
    LET x == operands[1]
        y == operands[2]
        z == operands[3]
    IN  Positive(x) /\ Positive(y) /\ Positive(z)
        => tumbleradd(tumbleradd(x, y), z) = tumbleradd(x, tumbleradd(y, z))

\* A wider crum does not end before a narrower one at the same start, so that
\* the searches, which stop at the first crum that holds an address, agree.
WiderEndsLater ==
    LET x == operands[1]
        y == operands[2]
        z == operands[3]
    IN  Positive(x) /\ Positive(y) /\ AtMost(y, z)
        => AtMost(tumbleradd(x, y), tumbleradd(x, z))

\* An address made below x lies after x and before every address that is above
\* x and not below it: children stand directly behind their parent.
ChildFollows ==
    LET x == operands[1]
        y == operands[2]
    IN  Positive(x) /\ Positive(y) /\ ~iszerotumbler(x) =>
        \A s \in Shift \ {0}, d \in Addend :
            Increments(x, s) =>
            LET child == tumblerincrement(x, s, d)
            IN  /\ tumblercmp(x, child) = LESS
                /\ tumblertruncate(child, tumblerlength(x)) = x
                /\ tumblercmp(x, y) = LESS /\ tumblertruncate(y, tumblerlength(x)) # x
                   => tumblercmp(child, y) = LESS
=============================================================================
