-------------------------------- MODULE Hour --------------------------------
(***************************************************************************)
(* What the transactions of SettleTx promise about one booking: each takes *)
(* effect at one instant, on the state of that instant.  A verified        *)
(* payment is kept by an hour that can take it and owed back otherwise; a  *)
(* hold is released only while nobody has paid for it, and giving an hour  *)
(* up, whoever does it, closes what was initiated on it.  Only booking an  *)
(* hour for cash looks further back: at the hold when the call began.      *)
(***************************************************************************)
CONSTANTS Online, Cash, CashBookers

VARIABLES
    live,     \* the hold has not expired
    inTime,   \* the cash bookings that began before it did
    booking, payment

vars == <<live, inTime, booking, payment>>

Payments == Online \cup {Cash}
Verified == {"kept", "owed"}

Init ==
    /\ live \in BOOLEAN
    /\ inTime = {}
    /\ \/ booking = "pending" /\ payment = [p \in Payments |->
              IF p = Cash THEN "none" ELSE "initiated"]
       \/ booking = "confirmed" /\ payment = [p \in Payments |-> "initiated"]

Lapse == live /\ live' = FALSE /\ UNCHANGED <<inTime, booking, payment>>

Start(c) == /\ live
            /\ inTime' = inTime \cup {c}
            /\ UNCHANGED <<live, booking, payment>>

CanTake(p) == /\ booking # "cancelled"
              /\ \A q \in Payments \ {p} : payment[q] # "kept"

(* The money of online payment p is recorded; a booked hour's cash debt    *)
(* goes with it.                                                           *)
Settle(p) ==
    /\ payment[p] \notin Verified
    /\ IF CanTake(p)
       THEN /\ booking' = "confirmed"
            /\ payment' = [q \in Payments |->
                  IF q = p THEN "kept"
                  ELSE IF q = Cash /\ booking = "confirmed" /\ payment[q] = "initiated"
                       THEN "failed" ELSE payment[q]]
       ELSE /\ payment' = [payment EXCEPT ![p] = "owed"]
            /\ UNCHANGED booking
    /\ UNCHANGED <<live, inTime>>

(* An answer that no money moved fails a payment that has none yet, and    *)
(* undoes nothing.                                                         *)
Deny(p) == /\ payment[p] = "initiated"
           /\ payment' = [payment EXCEPT ![p] = "failed"]
           /\ UNCHANGED <<live, inTime, booking>>

FailInitiated == [p \in Payments |->
    IF payment[p] = "initiated" THEN "failed" ELSE payment[p]]

(* Cancel checks for an online payment, but in the snapshot its statement  *)
(* began with: at the instant it takes effect one may have been verified,  *)
(* so the check is no part of what Cancel promises.                        *)
Cancel == /\ booking \in {"pending", "confirmed"}
          /\ booking' = "cancelled"
          /\ payment' = FailInitiated
          /\ UNCHANGED <<live, inTime>>

(* The janitor closes the intents of a hold it releases, a rebooking does not. *)
Release == /\ booking = "pending" /\ ~live
           /\ \A p \in Payments : payment[p] \notin Verified
           /\ booking' = "cancelled"
           /\ payment' \in {FailInitiated, payment}
           /\ UNCHANGED <<live, inTime>>

BookCash == /\ booking = "pending" /\ inTime # {}
            /\ booking' = "confirmed"
            /\ payment' = [payment EXCEPT ![Cash] = "initiated"]
            /\ UNCHANGED <<live, inTime>>

Collect == /\ payment[Cash] = "initiated" /\ booking = "confirmed"
           /\ \A q \in Online : payment[q] # "kept"
           /\ payment' = [payment EXCEPT ![Cash] = "kept"]
           /\ UNCHANGED <<live, inTime, booking>>

Next == \/ Lapse \/ Cancel \/ Release \/ BookCash \/ Collect
        \/ \E c \in CashBookers : Start(c)
        \/ \E p \in Online : Settle(p) \/ Deny(p)

Spec == Init /\ [][Next]_vars
=============================================================================
