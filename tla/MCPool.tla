------------------------------- MODULE MCPool -------------------------------
(***************************************************************************)
(* MeasurePool on a light unit and a heavy one, two threads a check: the   *)
(* light one may be over the limit unlisted, or refused by Yosys.          *)
(***************************************************************************)
EXTENDS MeasurePool

CONSTANTS a, h

PoolUnits == <<a, h>>
PoolLoads == {<<{h, a}, {}>>, <<{h}, {}>>, <<{}, {a}>>}
PoolSlow  == [x \in {a} |-> 5]
=============================================================================
