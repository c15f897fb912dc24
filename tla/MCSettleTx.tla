----------------------------- MODULE MCSettleTx -----------------------------
(* Values for model checking SettleTx: two gateway payments of one booking, *)
(* with three callbacks that saw the money, two of them for the same        *)
(* payment, and one for that payment that came before the money did.        *)
EXTENDS SettleTx

CONSTANTS o1, o2, s1, s2, s3, d1

MCPaymentOf  == [s \in {s1, s2, s3, d1} |-> IF s = s3 THEN o2 ELSE o1]
MCPaymentOf1 == [s \in {s1} |-> o1]
=============================================================================
