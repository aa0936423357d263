------------------------------ MODULE MCGranf ------------------------------
(***************************************************************************)
(* Accounts of node 1, which makes addresses short, and crums of two       *)
(* characters, so that a second insertion fills one up.                    *)
(***************************************************************************)
EXTENDS Granf

MCNPLACES == 10

Tumbler(digits) ==
    [sign |-> 0, exp |-> 0,
     mantissa |-> [p \in 0..9 |-> IF p < Len(digits) THEN digits[p + 1] ELSE 0]]

MCAccount == {Tumbler(<<1, 0, 1>>), Tumbler(<<1, 0, 2>>)}

\* A document nobody has made.
MCNamed == {Tumbler(<<1, 0, 1, 0, 2>>)}
=============================================================================
