------------------------------ MODULE MCHoldTx ------------------------------
(* Values for model checking HoldTx: three requests over an hour that an    *)
(* expired hold occupies: t1 and t2 overlap, t1 and t3 start together.      *)
EXTENDS HoldTx

CONSTANTS t1, t2, t3

MCStaggered == [t \in {t1, t2, t3} |->
    CASE t = t1 -> [start |-> 1, end |-> 3]
      [] t = t2 -> [start |-> 2, end |-> 4]
      [] t = t3 -> [start |-> 1, end |-> 2]]
MCOldEarly  == [start |-> 1, end |-> 2]
=============================================================================
