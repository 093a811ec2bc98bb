---------------------------- MODULE MCNumberPlan ----------------------------
(* NumberPlan for TLC: the one number that users type in is as wide as those *)
(* of a company of three.                                                    *)
EXTENDS NumberPlan

MCTyped == {<<0, 2>>}

=============================================================================
