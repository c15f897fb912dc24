------------------------------ MODULE Calendar ------------------------------
(***************************************************************************)
(* What taking and giving up hours promises, whatever the transactions it  *)
(* is made of: each attempt takes its hour at one instant, against the     *)
(* rows of that instant, and gives up in the same instant only holds that  *)
(* stand in its way.  A booked hour never yields to another attempt, and a *)
(* row given up never comes back.                                          *)
(***************************************************************************)
EXTENDS Integers

CONSTANTS Rows,     \* the bookings there may be
          Places    \* courts and hours, [court, start, end]

VARIABLES status, place

vars == <<status, place>>

Held(r)   == status[r] = "held"
Booked(r) == status[r] = "booked"
Takes(r)  == Held(r) \/ Booked(r)

Clash(p, q) == p.court = q.court /\ p.start < q.end /\ q.start < p.end

Init ==
    /\ status \in [Rows -> {"none", "held"}]
    /\ \A r, s \in Rows : r # s /\ Takes(r) /\ Takes(s) => ~Clash(place[r], place[s])

(* Row r takes p, in place of the holds in Out.                            *)
Take(r, p, Out) ==
    /\ status[r] = "none"
    /\ \A s \in Out : Held(s) /\ Clash(place[s], p)
    /\ \A s \in Rows \ Out : Takes(s) => ~Clash(place[s], p)
    /\ status' = [s \in Rows |-> IF s = r THEN "held" ELSE IF s \in Out THEN "gone" ELSE status[s]]
    /\ place' = [place EXCEPT ![r] = p]

Book(r) ==
    /\ Held(r)
    /\ status' = [status EXCEPT ![r] = "booked"]
    /\ UNCHANGED place

GiveUp(Out) ==
    /\ \A s \in Out : Takes(s)
    /\ status' = [s \in Rows |-> IF s \in Out THEN "gone" ELSE status[s]]
    /\ UNCHANGED place

(* Attempts alone, and attempts among people who change their minds.       *)
Contend ==
    \/ \E r \in Rows, p \in Places, Out \in SUBSET Rows : Take(r, p, Out)
    \/ \E r \in Rows : Book(r)
Next == Contend \/ \E Out \in SUBSET Rows : GiveUp(Out)

ContendSpec == Init /\ [][Contend]_vars
Spec == Init /\ [][Next]_vars
=============================================================================
