------------------------------ MODULE MCTumble ------------------------------
(***************************************************************************)
(* Tumblers of four places with digits up to 2 and exponents down to -2.   *)
(***************************************************************************)
EXTENDS TumbleLaws

MCNPLACES == 4

MCOperand ==
    LET place == 0..3
        digits == {m \in [place -> 0..2] : /\ m[0] # 0
                                           /\ m[2] < 2 /\ m[3] < 2}
    IN  {ZEROTUMBLER} \union
        {[sign |-> 0, exp |-> e, mantissa |-> m] : m \in digits, e \in -2..0}
=============================================================================
