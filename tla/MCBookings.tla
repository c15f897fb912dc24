----------------------------- MODULE MCBookings -----------------------------
(* Values for model checking Bookings. *)
EXTENDS Bookings, TLC

(* Two slots that overlap without starting together. *)
MCOverlapping == {[start |-> 1, end |-> 3], [start |-> 2, end |-> 4]}
MCOneSlot     == {[start |-> 2, end |-> 3]}
MCLegacySlot  == {[start |-> 3, end |-> 4]}
MCNoLegacy    == {}

(* Two cash requests the venue has not answered yet, from before BookCash.  *)
CONSTANTS b1, b2, p1, p2, u1, c1, c2
MCLegacy == {[booking |-> t[1], payment |-> t[2], court |-> t[3], user |-> u1,
              slot |-> [start |-> 3, end |-> 4]] : t \in {<<b1, p1, c1>>, <<b2, p2, c2>>}}

(* One penalty away from a ban, two away, or serving one.                   *)
MCClose == {[score |-> 20, banUntil |-> Null]}
MCMixed == {[score |-> 20, banUntil |-> Null], [score |-> 40, banUntil |-> Null],
            [score |-> 0, banUntil |-> 3]}

(* A month from tick 0 ends after a month from tick 1, as a month from      *)
(* 30 January, 12:00, ends after one from 31 January, 11:00.               *)
MCMonths == [t \in 0..MaxNow |-> IF t = 0 THEN 4 ELSE t + 2]

MCSymmetry == Permutations(Bookings) \cup Permutations(Payments)

(* The two old requests, with their payments and courts, change places.     *)
MCSwap == {[x \in {b1, b2, p1, p2, c1, c2} |->
               CASE x = b1 -> b2 [] x = b2 -> b1 [] x = p1 -> p2 [] x = p2 -> p1
                 [] x = c1 -> c2 [] x = c2 -> c1]}
=============================================================================
