------------------------------ MODULE MCVenue ------------------------------
EXTENDS Accounts

(* Ticks of half an hour and a day of three hours; the clock starts half an *)
(* hour into day 0, a Sunday, and runs into the Monday.  The last opening     *)
(* hours are refused.                                                       *)
MCOpeningHours == {<<3, 6>>, <<1, 5>>, <<4, 4>>}
MCRules == {[days |-> {0, 1}, start |-> 0, end |-> 3, price |-> 5, priority |-> 1],
            [days |-> {0}, start |-> 1, end |-> 3, price |-> 3, priority |-> 1],
            [days |-> {0}, start |-> 0, end |-> 2, price |-> 2, priority |-> 1]}

(* Two whole hours of day 0, ninety minutes across them, two hours up to    *)
(* midnight, and an hour of day 1.                                          *)
MCAskedSlots == {Slot(0, 2), Slot(2, 4), Slot(1, 4), Slot(1, 5), Slot(8, 10)}

(* Three stories that meet only in the arena and are explored one at a      *)
(* time: its merchant accounts, its second court, and its bookings.         *)
MCOneStory ==
    LET Listed == {c \in Courts : courts[c] # Null}
        Quiet == taken = {} /\ hold = Null /\ now = 0
        NoMoney == checkout = Null /\ payment = Null /\ \A p \in Providers : account[p] = Null
    IN  /\ NoMoney \/ (Listed = {} /\ Quiet)
        /\ Cardinality(Listed) < 2 \/ Quiet

MCSymmetry == Permutations(Courts) \cup Permutations(Merchants)
=============================================================================
