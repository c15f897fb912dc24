----------------------------- MODULE MCSessions -----------------------------
(* Values for model checking Sessions: one account, two tabs of a browser.   *)
EXTENDS Sessions, TLC

MCSymmetry == Permutations(Tokens) \cup Permutations(Links) \cup Permutations(Clients)
                \cup Permutations(Passwords)
=============================================================================
