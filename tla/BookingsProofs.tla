--------------------------- MODULE BookingsProofs ---------------------------
(***************************************************************************)
(* What Bookings keeps for every set of players, courts and slots and any  *)
(* number of bookings and payments.  Type correctness comes first; then    *)
(* StepCases, BookingStep and PaymentStep say what one step can do to a    *)
(* row, and each property follows from those.  IInv joins the invariants   *)
(* that need each other: RowsAreWhole carries what the tables and the      *)
(* gateway's answers in flight know of one another.                        *)
(***************************************************************************)
EXTENDS Bookings, TLAPS

(* The initial state, requests of before BookCash included, is well     *)
(* typed.                                                               *)
LEMMA InitType == Init => TypeOK
<1> SUFFICES ASSUME Init PROVE TypeOK
    OBVIOUS
<1> USE DEF Init, Null, Time, TimeOrNull, UserScoreStart, BookingBanFloor
<1>1. now \in 0..MaxNow
    BY BoundsAssumption
<1>2. bookings \in [Bookings -> Booking]
  <2> SUFFICES ASSUME NEW b \in Bookings PROVE bookings[b] \in Booking
      OBVIOUS
  <2>1. CASE \E l \in Legacy : l.booking = b
    <3> DEFINE l == CHOOSE l \in Legacy : l.booking = b
    <3>1. l \in LegacyRequest
        BY <2>1, LegacyAssumption
    <3>2. l.slot.start \in Nat
        BY <3>1, SlotsAssumption DEF LegacyRequest
    <3> QED
        BY <2>1, <3>1, <3>2
        DEF NewHold, NoBooking, Booking, BookingStatus, LegacyRequest, LateCancelPenalty
  <2>2. CASE ~\E l \in Legacy : l.booking = b
      BY <2>2 DEF NoBooking, Booking, BookingStatus
  <2> QED
      BY <2>1, <2>2
<1>3. payments \in [Payments -> Payment]
  <2> SUFFICES ASSUME NEW p \in Payments PROVE payments[p] \in Payment
      OBVIOUS
  <2>1. CASE \E l \in Legacy : l.payment = p
    <3> DEFINE l == CHOOSE l \in Legacy : l.payment = p
    <3>1. l \in LegacyRequest
        BY <2>1, LegacyAssumption
    <3> QED
        BY <2>1, <3>1
        DEF NewPaymentIntent, NoPayment, Payment, PaymentStatus, Provider, LegacyRequest
  <2>2. CASE ~\E l \in Legacy : l.payment = p
      BY <2>2 DEF NoPayment, Payment, PaymentStatus, Provider
  <2> QED
      BY <2>1, <2>2
<1>4. users \in [Users -> User]
  <2> SUFFICES ASSUME NEW u \in Users PROVE users[u] \in User
      BY Zenon
  <2>1. users[u] \in InitialStandings
      OBVIOUS
  <2> HIDE DEF Init, UserScoreStart, BookingBanFloor
  <2> QED
      BY <2>1, StandingsAssumption DEF User
<1>5. /\ posts \in [Bookings -> Post]
      /\ gateway \in [Payments -> BOOLEAN]
      /\ requests \subseteq Request
    BY DEF Post
<1> QED
    BY <1>1, <1>2, <1>3, <1>4, <1>5 DEF TypeOK

-----------------------------------------------------------------------------
(* A release of any set of holds leaves rows of bookings.              *)
LEMMA ReleaseType ==
    ASSUME TypeOK, NEW B PROVE Release(B) \in [Bookings -> Booking]
<1> SUFFICES ASSUME NEW b \in Bookings PROVE Release(B)[b] \in Booking
    BY DEF TypeOK, Release
<1>1. bookings[b] \in Booking
    BY DEF TypeOK
<1>2. Release(B)[b] = IF b \in B
                      THEN [bookings[b] EXCEPT !.status = "cancelled", !.holdExpires = Null]
                      ELSE bookings[b]
    BY DEF TypeOK, Release
<1> QED
    BY <1>1, <1>2 DEF Booking, BookingStatus, TimeOrNull

(* So does a confirmation.                                              *)
LEMMA ConfirmedType ==
    ASSUME TypeOK, NEW b PROVE Confirmed(b) \in [Bookings -> Booking]
<1> SUFFICES ASSUME NEW c \in Bookings PROVE Confirmed(b)[c] \in Booking
    BY DEF TypeOK, Confirmed
<1>1. bookings[c] \in Booking
    BY DEF TypeOK
<1>2. Confirmed(b)[c] = IF c = b
                        THEN [bookings[c] EXCEPT !.status = "confirmed", !.holdExpires = Null]
                        ELSE bookings[c]
    BY DEF TypeOK, Confirmed
<1> QED
    BY <1>1, <1>2 DEF Booking, BookingStatus, TimeOrNull

(* Failing the open intents of any bookings leaves rows of payments.   *)
LEMMA FailInitiatedType ==
    ASSUME TypeOK, NEW B PROVE FailInitiated(B) \in [Payments -> Payment]
  BY DEF TypeOK, FailInitiated, Payment, PaymentStatus

(* Closing posts leaves posts.                                          *)
LEMMA ClosePostsType ==
    ASSUME TypeOK, NEW B PROVE ClosePosts(B) \in [Bookings -> Post]
  BY DEF TypeOK, ClosePosts, Post

(* A score stays between zero and its start, whatever is taken off.     *)
LEMMA ScoreType ==
    ASSUME NEW r \in StandingRequest
    PROVE  /\ EffectiveUserScore(r.standing, r.at) \in 0..UserScoreStart
           /\ ScoreAfterPenalty(r) \in 0..UserScoreStart
<1>1. r.standing.score \in 0..UserScoreStart
    BY DEF StandingRequest, User
<1> QED
    BY <1>1 DEF EffectiveUserScore, ScoreAfterPenalty, AtLeast,
                UserScoreStart, UserScoreAfterBan, LateCancelPenalty

(* A month after any instant is an instant.                             *)
LEMMA MonthType ==
    ASSUME NEW r \in StandingRequest
    PROVE  MonthAfter[r.at] \in Nat /\ r.at \in Nat /\ MonthAfter[r.at] > r.at + RequestTimeout
  BY MonthAssumption, BoundsAssumption DEF StandingRequest

(* A penalty leaves a player's row in type.                             *)
LEMMA PenalisedType ==
    ASSUME TypeOK, NEW r \in StandingRequest PROVE Penalised(r) \in [Users -> User]
  BY MonthType, ScoreType DEF TypeOK, Penalised, User, TimeOrNull, Time

(* What CreateHold inserts is a booking.                                *)
LEMMA NewHoldType ==
    ASSUME NEW r \in HoldRequest
    PROVE  NewHold(r.user, r.court, r.slot, r.expires) \in Booking
  BY DEF NewHold, NoBooking, Booking, BookingStatus, HoldRequest, TimeOrNull, Time,
         LateCancelPenalty

(* What Checkout and BookCash insert is a payment.                      *)
LEMMA NewPaymentIntentType ==
    ASSUME NEW b \in Bookings, NEW provider \in Provider
    PROVE  NewPaymentIntent(b, provider) \in Payment
  BY DEF NewPaymentIntent, NoPayment, Payment, PaymentStatus

(* A request in flight is of the kind its label says.                   *)
LEMMA RequestKinds ==
    ASSUME NEW r \in Request
    PROVE  /\ r.kind = "hold" => r \in HoldRequest
           /\ r.kind \in {"intent", "cash"} => r \in IntentRequest
           /\ r.kind = "settle" => r \in SettleRequest
           /\ r.kind = "post" => r \in PostRequest
           /\ r.kind \in {"cancel", "restore"} => r \in StandingRequest
  BY DEF Request, HoldRequest, IntentRequest, SettleRequest, PostRequest, StandingRequest

(* Starting and answering a request keeps the set of them in type.      *)
LEMMA SubmitDoneType ==
    /\ \A r \in Request : requests \subseteq Request /\ Submit(r) => requests' \subseteq Request
    /\ \A r : requests \subseteq Request /\ Done(r) => requests' \subseteq Request
  BY DEF Submit, Done

(* Rows are whole and refer to rows: the foreign keys, and that only a      *)
(* verified gateway payment is ever flagged for a refund.                  *)
RowsAreWhole ==
    /\ \A b \in Bookings : bookings[b].status # "none" =>
          bookings[b].user \in Users /\ bookings[b].court \in Courts /\ bookings[b].slot \in Slots
    /\ \A p \in Payments :
          /\ payments[p].status # "none" => payments[p].booking \in Bookings
          /\ payments[p].refundDue => payments[p].status = "verified" /\ payments[p].provider = "online"
    /\ \A r \in requests :
          /\ r.kind = "settle" =>
                payments[r.payment].status # "none" /\ payments[r.payment].provider = "online"
          /\ r.kind \in {"cancel", "restore"} => bookings[r.booking].status # "none"

(* What a cancellation or a restoration reads is a users row.           *)
LEMMA StandingCallType ==
    ASSUME TypeOK, RowsAreWhole, NEW kind \in {"cancel", "restore"}, NEW b \in Bookings,
           bookings[b].status # "none"
    PROVE  StandingCall(kind, b) \in Request
  BY DEF TypeOK, RowsAreWhole, StandingCall, Request, StandingRequest

(* Every step keeps every table in type.                                *)
LEMMA StepType == TypeOK /\ RowsAreWhole /\ [Next]_vars => TypeOK'
<1> SUFFICES ASSUME TypeOK, RowsAreWhole, [Next]_vars PROVE TypeOK'
    OBVIOUS
<1>1. CASE Tick
    BY <1>1, BoundsAssumption DEF Tick, TypeOK
<1>2. ASSUME NEW u \in Users, NEW c \in Courts, NEW s \in Slots, BeginCreate(u, c, s)
      PROVE  TypeOK'
  <2>1. now + HoldWindow \in Time
      BY WindowsAssumption DEF TypeOK, Time
  <2>2. [kind |-> "hold", user |-> u, court |-> c, slot |-> s, expires |-> now + HoldWindow] \in Request
      BY <2>1 DEF Request, HoldRequest
  <2> QED
      BY <1>2, <2>2, SubmitDoneType DEF BeginCreate, TypeOK
<1>3. ASSUME NEW b \in Bookings, NEW kind \in {"intent", "cash"}, BeginCheckout(b, kind)
      PROVE  TypeOK'
  <2>1. [kind |-> kind, booking |-> b] \in Request
      BY DEF Request, IntentRequest
  <2> QED
      BY <1>3, <2>1, SubmitDoneType DEF BeginCheckout, TypeOK
<1>4. ASSUME NEW b \in Bookings, BeginCancel(b) \/ BeginRestore(b) PROVE TypeOK'
  <2>1. PICK kind \in {"cancel", "restore"} : Submit(StandingCall(kind, b))
      BY <1>4 DEF BeginCancel, BeginRestore
  <2>2. bookings[b].status # "none"
      BY <1>4 DEF BeginCancel, BeginRestore, CanRestore
  <2> QED
      BY <1>4, <2>1, <2>2, StandingCallType, SubmitDoneType DEF BeginCancel, BeginRestore, TypeOK
<1>5. ASSUME NEW b \in Bookings, BeginPost(b) PROVE TypeOK'
  <2>1. [kind |-> "post", booking |-> b] \in Request
      BY DEF Request, PostRequest
  <2> QED
      BY <1>5, <2>1, SubmitDoneType DEF BeginPost, TypeOK
<1>6. ASSUME NEW p \in Payments, PayAtGateway(p) PROVE TypeOK'
    BY <1>6 DEF PayAtGateway, TypeOK
<1>7. ASSUME NEW p \in Payments, ApproveCash(p) PROVE TypeOK'
    BY <1>7, ConfirmedType DEF ApproveCash, ConfirmCashBooking, TypeOK
<1>8. ASSUME NEW p \in Payments, DeclineCash(p) PROVE TypeOK'
    BY <1>8, ReleaseType, ClosePostsType DEF DeclineCash, TypeOK, Payment, PaymentStatus
<1>9. ASSUME NEW p \in Payments, MarkCashReceived(p) PROVE TypeOK'
    BY <1>9, ConfirmedType DEF MarkCashReceived, ConfirmCashBooking, TypeOK, Payment, PaymentStatus
<1>10. ASSUME NEW p \in Payments, MarkRefunded(p) PROVE TypeOK'
    BY <1>10 DEF MarkRefunded, TypeOK, Payment
<1>11. ASSUME NEW r \in requests, ReadStanding(r) PROVE TypeOK'
  <2>1. r \in StandingRequest /\ r.booking \in Bookings
      BY <1>11, RequestKinds DEF ReadStanding, TypeOK, StandingRequest
  <2>2. users[bookings[r.booking].user] \in User
      BY <1>11, <2>1 DEF ReadStanding, TypeOK, RowsAreWhole
  <2>3. [r EXCEPT !.standing = users[bookings[r.booking].user]] \in Request
      BY <2>1, <2>2 DEF StandingRequest, Request
  <2> QED
      BY <1>11, <2>3 DEF ReadStanding, TypeOK
<1>12. ASSUME NEW p \in Payments, BeginSettle(p) PROVE TypeOK'
  <2>1. [kind |-> "settle", payment |-> p, verified |-> gateway[p]] \in Request
      BY DEF TypeOK, Request, SettleRequest
  <2> QED
      BY <1>12, <2>1, SubmitDoneType DEF BeginSettle, TypeOK
<1>13. ASSUME NEW r \in requests, NEW b \in Bookings, CreateHold(r, b) PROVE TypeOK'
  <2>1. NewHold(r.user, r.court, r.slot, r.expires) \in Booking
      BY <1>13, RequestKinds, NewHoldType DEF CreateHold, TypeOK
  <2> QED
      BY <1>13, <2>1, ReleaseType, SubmitDoneType DEF CreateHold, TypeOK
<1>14. ASSUME NEW r \in requests, RefuseHold(r) PROVE TypeOK'
    BY <1>14, SubmitDoneType DEF RefuseHold, TypeOK
<1>15. ASSUME NEW r \in requests, NEW p \in Payments, CreateIntent(r, p) PROVE TypeOK'
  <2>1. r.booking \in Bookings
      BY <1>15, RequestKinds DEF CreateIntent, TypeOK, IntentRequest
  <2>2. NewPaymentIntent(r.booking, "online") \in Payment
      BY <2>1, NewPaymentIntentType DEF Provider
  <2> QED
      BY <1>15, <2>2, SubmitDoneType DEF CreateIntent, TypeOK
<1>16. ASSUME NEW r \in requests, BookCash(r) PROVE TypeOK'
  <2>1. r.booking \in Bookings
      BY <1>16, RequestKinds DEF BookCash, TypeOK, IntentRequest
  <2>2. NewPaymentIntent(r.booking, "cash") \in Payment
      BY <2>1, NewPaymentIntentType DEF Provider
  <2>3. \/ UNCHANGED payments
        \/ \E p \in Payments : payments' = [payments EXCEPT ![p] = NewPaymentIntent(r.booking, "cash")]
      BY <1>16 DEF BookCash
  <2>4. payments' \in [Payments -> Payment]
      BY <2>2, <2>3 DEF TypeOK
  <2> QED
      BY <1>16, <2>4, ConfirmedType, SubmitDoneType DEF BookCash, TypeOK
<1>17. ASSUME NEW r \in requests, RefuseCash(r) PROVE TypeOK'
    BY <1>17, SubmitDoneType DEF RefuseCash, TypeOK
<1>18. ASSUME NEW r \in requests, SettleUnpaid(r) PROVE TypeOK'
  <2>1. payments' \in [Payments -> Payment]
    <3>1. payments' = payments \/ payments' = [payments EXCEPT ![r.payment].status = "failed"]
        BY <1>18 DEF SettleUnpaid
    <3> QED
        BY <3>1 DEF TypeOK, Payment, PaymentStatus
  <2> QED
      BY <1>18, <2>1, SubmitDoneType DEF SettleUnpaid, TypeOK
<1>19. ASSUME NEW r \in requests, SettleKept(r) PROVE TypeOK'
  <2> DEFINE p == r.payment
  <2>1. ASSUME NEW q \in Payments PROVE payments'[q] \in Payment
    <3>1. \/ payments'[q] = [payments[p] EXCEPT !.status = "verified"] /\ q = p
          \/ payments'[q] = [payments[q] EXCEPT !.status = "failed"]
          \/ payments'[q] = payments[q]
        BY <1>19 DEF SettleKept
    <3> QED
        BY <3>1 DEF TypeOK, Payment, PaymentStatus
  <2>4. payments' \in [Payments -> Payment]
      BY <1>19, <2>1 DEF SettleKept
  <2>2. bookings' \in [Bookings -> Booking]
      BY <1>19, ConfirmedType DEF SettleKept, TypeOK
  <2> QED
      BY <1>19, <2>2, <2>4, SubmitDoneType DEF SettleKept, TypeOK
<1>20. ASSUME NEW r \in requests, SettleOwedBack(r) PROVE TypeOK'
  <2>1. payments' \in [Payments -> Payment]
    <3> SUFFICES ASSUME NEW q \in Payments PROVE payments'[q] \in Payment
        BY <1>20 DEF SettleOwedBack, TypeOK
    <3>1. payments'[q] = IF q = r.payment
              THEN [payments[q] EXCEPT !.status = "verified", !.refundDue = TRUE]
              ELSE payments[q]
        BY <1>20 DEF SettleOwedBack, TypeOK
    <3> QED
        BY <3>1 DEF TypeOK, Payment, PaymentStatus
  <2> QED
      BY <1>20, <2>1, SubmitDoneType DEF SettleOwedBack, TypeOK
<1>21. ASSUME NEW r \in requests, CreatePost(r) PROVE TypeOK'
    BY <1>21, SubmitDoneType DEF CreatePost, TypeOK, Post
<1>22. ASSUME NEW r \in requests, Cancel(r) PROVE TypeOK'
  <2> DEFINE b == r.booking
  <2>1. r \in StandingRequest
      BY <1>22, RequestKinds DEF Cancel, TypeOK
  <2>2. bookings' \in [Bookings -> Booking]
    <3> SUFFICES ASSUME NEW c \in Bookings PROVE bookings'[c] \in Booking
        BY <1>22 DEF Cancel, TypeOK
    <3> DEFINE pen == IF IsLate(r) THEN LateCancelPenalty ELSE 0
    <3>1. bookings'[c] = IF c = b
              THEN [bookings[c] EXCEPT !.status = "cancelled", !.holdExpires = Null, !.penalty = pen]
              ELSE bookings[c]
        BY <1>22 DEF Cancel, TypeOK
    <3>2. pen \in {0, LateCancelPenalty}
        OBVIOUS
    <3> HIDE DEF pen
    <3> QED
        BY <3>1, <3>2 DEF TypeOK, Booking, BookingStatus, TimeOrNull
  <2>3. payments' \in [Payments -> Payment] /\ posts' \in [Bookings -> Post]
      BY <1>22, FailInitiatedType, ClosePostsType DEF Cancel
  <2>4. users' \in [Users -> User]
      BY <1>22, <2>1, PenalisedType DEF Cancel, TypeOK
  <2> QED
      BY <1>22, <2>2, <2>3, <2>4, SubmitDoneType DEF Cancel, TypeOK
<1>23. ASSUME NEW r \in requests, RestorePenalty(r) PROVE TypeOK'
  <2>1. r \in StandingRequest /\ r.booking \in Bookings
      BY <1>23, RequestKinds DEF RestorePenalty, TypeOK, StandingRequest
  <2>2. bookings' \in [Bookings -> Booking]
      BY <1>23 DEF RestorePenalty, TypeOK, Booking
  <2>3. [score |-> ScoreAfterRestore(r),
         banUntil |-> IF ScoreAfterRestore(r) > BookingBanFloor THEN Null
                      ELSE ActiveBookingBan(r.standing, r.at)] \in User
    <3>1. bookings[r.booking].penalty \in {0, LateCancelPenalty}
        BY <2>1 DEF TypeOK, Booking
    <3>2. ScoreAfterRestore(r) \in 0..UserScoreStart
        BY <2>1, <3>1, ScoreType DEF ScoreAfterRestore, AtMost, UserScoreStart, LateCancelPenalty
    <3>3. ActiveBookingBan(r.standing, r.at) \in TimeOrNull
        BY <2>1 DEF ActiveBookingBan, StandingRequest, User, TimeOrNull
    <3> QED
        BY <3>2, <3>3 DEF User, TimeOrNull
  <2>4. users' \in [Users -> User]
      BY <1>23, <2>3 DEF RestorePenalty, TypeOK
  <2> QED
      BY <1>23, <2>2, <2>4, SubmitDoneType DEF RestorePenalty, TypeOK
<1>24. ASSUME NEW r \in requests, RefuseCancel(r) \/ RefuseRestore(r) PROVE TypeOK'
    BY <1>24, SubmitDoneType DEF RefuseCancel, RefuseRestore, TypeOK
<1>25. CASE ReleaseStaleHolds
    BY <1>25, ReleaseType, FailInitiatedType, ClosePostsType DEF ReleaseStaleHolds, TypeOK
<1>26. CASE MarkPlayed
    BY <1>26 DEF MarkPlayed, TypeOK, Booking, BookingStatus
<1>27. CASE UNCHANGED vars
    BY <1>27 DEF vars, TypeOK
<1> QED
    BY <1>1, <1>2, <1>3, <1>4, <1>5, <1>6, <1>7, <1>8, <1>9, <1>10, <1>11, <1>12,
       <1>13, <1>14, <1>15, <1>16, <1>17, <1>18, <1>19, <1>20, <1>21, <1>22, <1>23, <1>24,
       <1>25, <1>26, <1>27
    DEF Next, PlayerStep, VenueStep, Write, Callback, Janitor

-----------------------------------------------------------------------------
(* What the safety invariants rest on. *)

Booked(b) == bookings[b].status \in {"confirmed", "completed"}

(* p is what the venue has been paid, or has yet to collect, for its hour. *)
Covers(p) == \/ Kept(p)
             \/ payments[p].status = "initiated" /\ payments[p].provider = "cash"

(* A release changes the status of pending rows, and nothing of a slot. *)
LEMMA ReleaseEffect ==
    ASSUME TypeOK, NEW B, NEW b \in Bookings
    PROVE  /\ Release(B)[b].status = IF b \in B THEN "cancelled" ELSE bookings[b].status
           /\ Release(B)[b].user = bookings[b].user
           /\ Release(B)[b].court = bookings[b].court
           /\ Release(B)[b].slot = bookings[b].slot
  BY DEF Release, TypeOK, Booking

(* A confirmation changes the status of one row.                        *)
LEMMA ConfirmedEffect ==
    ASSUME TypeOK, NEW c, NEW b \in Bookings
    PROVE  /\ Confirmed(c)[b].status = IF b = c THEN "confirmed" ELSE bookings[b].status
           /\ Confirmed(c)[b].user = bookings[b].user
           /\ Confirmed(c)[b].court = bookings[b].court
           /\ Confirmed(c)[b].slot = bookings[b].slot
  BY DEF Confirmed, TypeOK, Booking

(* Failing intents touches initiated rows of the given bookings only.   *)
LEMMA FailInitiatedEffect ==
    ASSUME TypeOK, NEW B, NEW p \in Payments
    PROVE  /\ FailInitiated(B)[p].status =
                 IF payments[p].booking \in B /\ payments[p].status = "initiated"
                 THEN "failed" ELSE payments[p].status
           /\ FailInitiated(B)[p].booking = payments[p].booking
           /\ FailInitiated(B)[p].provider = payments[p].provider
           /\ FailInitiated(B)[p].refundDue = payments[p].refundDue
  BY DEF FailInitiated, TypeOK, Payment

(* The fields of a new hold.                                            *)
LEMMA NewHoldFields ==
    ASSUME NEW u, NEW c, NEW s, NEW e
    PROVE  /\ NewHold(u, c, s, e).status = "pending" /\ NewHold(u, c, s, e).user = u
           /\ NewHold(u, c, s, e).court = c /\ NewHold(u, c, s, e).slot = s
  BY DEF NewHold, NoBooking

(* The fields of a new payment.                                         *)
LEMMA NewPaymentIntentFields ==
    ASSUME NEW b, NEW provider
    PROVE  /\ NewPaymentIntent(b, provider).status = "initiated"
           /\ NewPaymentIntent(b, provider).booking = b
           /\ NewPaymentIntent(b, provider).provider = provider
           /\ NewPaymentIntent(b, provider).refundDue = FALSE
  BY DEF NewPaymentIntent, NoPayment

(* The steps that change bookings or payments; every other one leaves both *)
(* tables as they are.                                                     *)
LEMMA StepCases ==
    ASSUME [Next]_vars
    PROVE  \/ UNCHANGED <<bookings, payments>>
           \/ \E p \in Payments : ApproveCash(p) \/ DeclineCash(p)
                                   \/ MarkCashReceived(p) \/ MarkRefunded(p)
           \/ \E r \in requests :
                 \/ \E b \in Bookings : CreateHold(r, b)
                 \/ \E p \in Payments : CreateIntent(r, p)
                 \/ BookCash(r)
                 \/ SettleUnpaid(r) \/ SettleKept(r) \/ SettleOwedBack(r)
                 \/ Cancel(r) \/ RestorePenalty(r)
           \/ ReleaseStaleHolds \/ MarkPlayed
<1>1. Tick \/ Callback \/ PlayerStep => UNCHANGED <<bookings, payments>>
    BY DEF Tick, Callback, BeginSettle, PlayerStep, BeginCreate, BeginCheckout, BeginCancel,
           BeginPost, PayAtGateway
<1>2. \A r : \/ RefuseHold(r) \/ RefuseCash(r) \/ CreatePost(r) \/ RefuseCancel(r)
             \/ RefuseRestore(r) \/ ReadStanding(r) \/ BeginRestore(r)
             => UNCHANGED <<bookings, payments>>
    BY DEF RefuseHold, RefuseCash, CreatePost, RefuseCancel, RefuseRestore, ReadStanding,
           BeginRestore
<1>3. UNCHANGED vars => UNCHANGED <<bookings, payments>>
    BY DEF vars
<1> QED
    BY <1>1, <1>2, <1>3 DEF Next, VenueStep, Write, Janitor

-----------------------------------------------------------------------------
(* What one step may do to a booking, and who does it. *)

SameHour(b) ==
    /\ bookings'[b].user = bookings[b].user
    /\ bookings'[b].court = bookings[b].court
    /\ bookings'[b].slot = bookings[b].slot

(* The three ways a hold becomes a booked hour. *)
Confirms(b) ==
    \/ \E r \in requests : SettleKept(r) /\ payments[r.payment].booking = b
    \/ \E r \in requests : BookCash(r) /\ r.booking = b
    \/ \E p \in Payments : /\ ApproveCash(p) \/ MarkCashReceived(p)
                          /\ payments[p].booking = b

Cancels(b) == \E r \in requests : Cancel(r) /\ r.booking = b

(* The three ways a hold is given up. *)
GivesUp(b) ==
    \/ Cancels(b)
    \/ \E p \in Payments : DeclineCash(p) /\ payments[p].booking = b
    \/ HoldExpired(b)

BookingMoves(b) ==
    \/ bookings[b].status = "none" /\ \E r \in requests : CreateHold(r, b)
    \/ /\ SameHour(b)
       /\ \/ bookings'[b].status = bookings[b].status
          \/ /\ bookings[b].status = "pending" /\ bookings'[b].status = "confirmed"
             /\ Confirms(b)
          \/ /\ bookings[b].status = "pending" /\ bookings'[b].status = "cancelled"
             /\ GivesUp(b)
          \/ bookings[b].status = "confirmed" /\ bookings'[b].status = "completed"
          \/ /\ bookings[b].status = "confirmed" /\ bookings'[b].status = "cancelled"
             /\ Cancels(b)

(* What a step can do to one booking.                                   *)
LEMMA BookingStep ==
    ASSUME TypeOK, [Next]_vars, NEW b \in Bookings PROVE BookingMoves(b)
<1>1. ASSUME NEW r \in requests, Cancel(r) PROVE BookingMoves(b)
  <2>1. b = r.booking => Cancels(b) /\ GivesUp(b)
      BY <1>1 DEF Cancels, GivesUp
  <2> QED
      BY <1>1, <2>1 DEF Cancel, TypeOK, Booking, BookingMoves, SameHour
<1>2. ASSUME NEW r \in requests, RestorePenalty(r) PROVE BookingMoves(b)
    BY <1>2 DEF RestorePenalty, TypeOK, Booking, BookingMoves, SameHour
<1>3. ASSUME NEW c, bookings[c].status = "pending", bookings' = Confirmed(c), b = c => Confirms(b)
      PROVE  BookingMoves(b)
    BY <1>3, ConfirmedEffect DEF BookingMoves, SameHour
<1>4. ASSUME NEW B, \A c \in B : bookings[c].status = "pending", bookings' = Release(B),
             b \in B => GivesUp(b)
      PROVE  BookingMoves(b)
    BY <1>4, ReleaseEffect DEF BookingMoves, SameHour
<1>5. MarkPlayed => BookingMoves(b)
    BY DEF MarkPlayed, Played, TypeOK, Booking, BookingMoves, SameHour
<1>6. ASSUME NEW r \in requests, NEW c \in Bookings, CreateHold(r, c) PROVE BookingMoves(b)
  <2>1. CASE b = c
      BY <1>6, <2>1 DEF CreateHold, BookingMoves
  <2>2. CASE b # c
    <3>1. bookings'[b] = Release(Releasable(r))[b]
        BY <1>6, <2>2, ReleaseType DEF CreateHold
    <3> QED
        BY <3>1, ReleaseEffect DEF Releasable, HoldExpired, BookingMoves, SameHour, GivesUp
  <2> QED
      BY <2>1, <2>2
<1>7. UNCHANGED bookings => BookingMoves(b)
    BY DEF BookingMoves, SameHour
<1>8. ASSUME NEW p \in Payments, ApproveCash(p) \/ MarkCashReceived(p) PROVE BookingMoves(b)
  <2>1. \/ UNCHANGED bookings
        \/ /\ bookings[payments[p].booking].status = "pending"
           /\ bookings' = Confirmed(payments[p].booking)
      BY <1>8 DEF ApproveCash, MarkCashReceived, ConfirmCashBooking, LiveHold
  <2>2. payments[p].booking = b => Confirms(b)
      BY <1>8 DEF Confirms
  <2> QED
      BY <1>3, <1>7, <2>1, <2>2
<1>9. ASSUME NEW p \in Payments, DeclineCash(p) \/ MarkRefunded(p) PROVE BookingMoves(b)
  <2>1. DeclineCash(p) /\ payments[p].booking = b => GivesUp(b)
      BY DEF GivesUp
  <2> QED
      BY <1>4, <1>7, <1>9, <2>1 DEF DeclineCash, MarkRefunded
<1>10. ASSUME NEW r \in requests, SettleKept(r) PROVE BookingMoves(b)
  <2>1. payments[r.payment].booking = b => Confirms(b)
      BY <1>10 DEF Confirms
  <2> QED
      BY <1>3, <1>7, <1>10, <2>1 DEF SettleKept
<1>11. ASSUME NEW r \in requests, BookCash(r) PROVE BookingMoves(b)
  <2>1. r.booking = b => Confirms(b)
      BY <1>11 DEF Confirms
  <2> QED
      BY <1>3, <1>11, <2>1 DEF BookCash, LiveHold
<1>12. \A r, p : SettleUnpaid(r) \/ SettleOwedBack(r) \/ CreateIntent(r, p) => BookingMoves(b)
    BY <1>7 DEF SettleUnpaid, SettleOwedBack, CreateIntent
<1>13. ReleaseStaleHolds => BookingMoves(b)
  <2>1. b \in StaleHolds => GivesUp(b)
      BY DEF StaleHolds, GivesUp
  <2> QED
      BY <1>4, <2>1 DEF ReleaseStaleHolds, StaleHolds, HoldExpired
<1> QED
    BY <1>1, <1>2, <1>5, <1>6, <1>7, <1>8, <1>9, <1>10, <1>11, <1>12, <1>13, StepCases

(* A row that becomes a hold meets no booking of its court.             *)
LEMMA NewHoldRow ==
    ASSUME TypeOK, NEW r \in requests, NEW b \in Bookings, CreateHold(r, b)
    PROVE  /\ bookings'[b].status = "pending"
           /\ bookings'[b].user = r.user /\ r.user \in Users
           /\ bookings'[b].court = r.court /\ r.court \in Courts
           /\ bookings'[b].slot = r.slot /\ r.slot \in Slots
<1>1. r \in HoldRequest
    BY RequestKinds DEF CreateHold, TypeOK
<1>2. bookings'[b] = NewHold(r.user, r.court, r.slot, r.expires)
    BY ReleaseType DEF CreateHold
<1> QED
    BY <1>1, <1>2, NewHoldFields DEF HoldRequest

SettleVerified(r) == SettleKept(r) \/ SettleOwedBack(r)

SamePayment(p) ==
    /\ payments'[p].status = payments[p].status
    /\ payments'[p].booking = payments[p].booking
    /\ payments'[p].provider = payments[p].provider
    /\ payments'[p].refundDue = payments[p].refundDue

(* A cash request is made by BookCash, and is closed with its hour or by a *)
(* payment that takes its place.                                           *)
Requested(b) == \E r \in requests : BookCash(r) /\ r.booking = b
Superseded(b) ==
    \/ bookings'[b].status = "cancelled"
    \/ \E r \in requests : SettleKept(r) /\ payments[r.payment].booking = b

PaymentMoves(p) ==
    \/ SamePayment(p)
    \/ /\ payments[p].status = "none"
       /\ payments'[p].status = "initiated"
       /\ payments'[p].booking \in Bookings
       /\ payments'[p].refundDue = FALSE
       /\ payments'[p].provider = "cash" => Requested(payments'[p].booking)
    \/ /\ payments'[p].booking = payments[p].booking
       /\ payments'[p].provider = payments[p].provider
       /\ \/ /\ payments[p].status = "initiated" /\ payments'[p].status = "failed"
             /\ payments'[p].refundDue = payments[p].refundDue
             /\ payments[p].provider = "cash" => Superseded(payments[p].booking)
          \/ /\ payments[p].status = "initiated" /\ payments[p].provider = "cash"
             /\ payments'[p].status = "verified" /\ MarkCashReceived(p)
             /\ payments'[p].refundDue = payments[p].refundDue
          \/ /\ payments[p].status \notin {"none", "verified"}
             /\ payments[p].provider = "online"
             /\ payments'[p].status = "verified"
             /\ \E r \in requests : r.payment = p /\ SettleVerified(r)

(* What a step can do to one payment.                                   *)
LEMMA PaymentStep ==
    ASSUME TypeOK, RowsAreWhole, [Next]_vars, NEW p \in Payments PROVE PaymentMoves(p)
<1>1. ASSUME NEW B, payments' = FailInitiated(B), \A b \in B : bookings'[b].status = "cancelled"
      PROVE  PaymentMoves(p)
    BY <1>1, FailInitiatedEffect DEF PaymentMoves, SamePayment, Superseded
<1>2. UNCHANGED payments => PaymentMoves(p)
    BY DEF PaymentMoves, SamePayment
<1>3. ASSUME NEW q \in Payments, DeclineCash(q) PROVE PaymentMoves(p)
  <2>1. p = q => Superseded(payments[p].booking)
    <3>1. payments[q].booking \in Bookings
        BY <1>3 DEF DeclineCash, RowsAreWhole
    <3> QED
        BY <1>3, <3>1, ReleaseEffect DEF DeclineCash, Superseded
  <2> QED
      BY <1>3, <2>1 DEF DeclineCash, TypeOK, Payment, PaymentMoves, SamePayment
<1>4. ASSUME NEW q \in Payments, MarkCashReceived(q) PROVE PaymentMoves(p)
    BY <1>4 DEF MarkCashReceived, TypeOK, Payment, PaymentMoves, SamePayment
<1>5. ASSUME NEW q \in Payments, MarkRefunded(q) PROVE PaymentMoves(p)
    BY <1>5 DEF MarkRefunded, TypeOK, Payment, PaymentMoves, SamePayment
<1>6. ASSUME NEW q \in Payments, NEW b \in Bookings, NEW provider, payments[q].status = "none",
             payments' = [payments EXCEPT ![q] = NewPaymentIntent(b, provider)],
             provider = "cash" => Requested(b)
      PROVE  PaymentMoves(p)
  <2>1. CASE p = q
    <3>1. payments'[p] = NewPaymentIntent(b, provider)
        BY <1>6, <2>1 DEF TypeOK
    <3>2. payments[p].status = "none"
        BY <1>6, <2>1
    <3>3. provider = "cash" => Requested(b)
        BY <1>6
    <3>4. /\ payments'[p].status = "initiated" /\ payments'[p].booking = b
          /\ payments'[p].refundDue = FALSE /\ payments'[p].provider = provider
        BY <3>1 DEF NewPaymentIntent, NoPayment
    <3> QED
        BY <3>2, <3>3, <3>4 DEF PaymentMoves
  <2>2. CASE p # q
      BY <1>6, <2>2 DEF TypeOK, PaymentMoves, SamePayment
  <2> QED
      BY <2>1, <2>2
<1>7. ASSUME NEW r \in requests, NEW q \in Payments, CreateIntent(r, q) PROVE PaymentMoves(p)
  <2>1. r.booking \in Bookings
      BY <1>7, RequestKinds DEF CreateIntent, TypeOK, IntentRequest
  <2>2. payments[q].status = "none" /\ payments' = [payments EXCEPT ![q] = NewPaymentIntent(r.booking, "online")]
      BY <1>7 DEF CreateIntent
  <2>3. "online" = "cash" => Requested(r.booking)
      OBVIOUS
  <2> QED
      BY <1>6, <2>1, <2>2, <2>3
<1>8. ASSUME NEW r \in requests, BookCash(r) PROVE PaymentMoves(p)
  <2>1. r.booking \in Bookings
      BY <1>8, RequestKinds DEF BookCash, TypeOK, IntentRequest
  <2>2. \/ UNCHANGED payments
        \/ \E q \in Payments :
              /\ payments[q].status = "none"
              /\ payments' = [payments EXCEPT ![q] = NewPaymentIntent(r.booking, "cash")]
      BY <1>8 DEF BookCash
  <2>3. Requested(r.booking)
      BY <1>8 DEF Requested
  <2> QED
      BY <1>2, <1>6, <2>1, <2>2, <2>3
<1>9. ASSUME NEW r \in requests, SettleUnpaid(r) PROVE PaymentMoves(p)
  <2>1. payments[r.payment].provider = "online"
      BY <1>9 DEF SettleUnpaid, RowsAreWhole
  <2> QED
      BY <1>9, <2>1 DEF SettleUnpaid, TypeOK, Payment, PaymentMoves, SamePayment
<1>10. ASSUME NEW r \in requests, SettleKept(r) PROVE PaymentMoves(p)
  <2>1. payments[r.payment].status \notin {"none", "verified"} /\ payments[r.payment].provider = "online"
      BY <1>10 DEF SettleKept, RowsAreWhole
  <2>2. CASE p = r.payment
    <3>1. payments'[p] = [payments[p] EXCEPT !.status = "verified"]
        BY <1>10, <2>2 DEF SettleKept
    <3> QED
        BY <1>10, <2>1, <2>2, <3>1 DEF TypeOK, Payment, PaymentMoves, SettleVerified
  <2>3. CASE p # r.payment
    <3>1. \/ payments'[p] = payments[p]
          \/ /\ payments'[p] = [payments[p] EXCEPT !.status = "failed"]
             /\ payments[p].status = "initiated"
             /\ payments[r.payment].booking = payments[p].booking
        BY <1>10, <2>3 DEF SettleKept, CashWaiting, PaymentsOf
    <3>2. payments[r.payment].booking = payments[p].booking => Superseded(payments[p].booking)
        BY <1>10 DEF Superseded
    <3> QED
        BY <3>1, <3>2 DEF TypeOK, Payment, PaymentMoves, SamePayment
  <2> QED
      BY <2>2, <2>3
<1>11. ASSUME NEW r \in requests, SettleOwedBack(r) PROVE PaymentMoves(p)
  <2>1. payments[r.payment].status # "none" /\ payments[r.payment].provider = "online"
      BY <1>11 DEF SettleOwedBack, RowsAreWhole
  <2> QED
      BY <1>11, <2>1 DEF SettleOwedBack, TypeOK, Payment, PaymentMoves, SamePayment, SettleVerified
<1>12. ASSUME NEW r \in requests, Cancel(r) \/ RestorePenalty(r) PROVE PaymentMoves(p)
  <2>1. CASE Cancel(r)
    <3>1. r.booking \in Bookings
        BY <2>1, RequestKinds DEF Cancel, TypeOK, StandingRequest
    <3>2. bookings'[r.booking].status = "cancelled"
        BY <2>1, <3>1 DEF Cancel, TypeOK, Booking
    <3>3. \A b \in {r.booking} : bookings'[b].status = "cancelled"
        BY <3>2
    <3>4. payments' = FailInitiated({r.booking})
        BY <2>1 DEF Cancel
    <3> QED
        BY <1>1, <3>3, <3>4
  <2>2. CASE RestorePenalty(r)
      BY <1>2, <2>2 DEF RestorePenalty
  <2> QED
      BY <1>12, <2>1, <2>2
<1>13. \A q : ApproveCash(q) => PaymentMoves(p)
    BY <1>2 DEF ApproveCash
<1>14. \A r, b : CreateHold(r, b) => PaymentMoves(p)
    BY <1>2 DEF CreateHold
<1>15. ReleaseStaleHolds => PaymentMoves(p)
  <2>1. ReleaseStaleHolds => \A b \in StaleHolds : bookings'[b].status = "cancelled"
      BY ReleaseEffect DEF ReleaseStaleHolds, StaleHolds
  <2> QED
      BY <1>1, <2>1 DEF ReleaseStaleHolds
<1>16. MarkPlayed => PaymentMoves(p)
    BY <1>2 DEF MarkPlayed
<1> QED
    BY <1>2, <1>3, <1>4, <1>5, <1>7, <1>8, <1>9, <1>10, <1>11, <1>12, <1>13, <1>14, <1>15,
       <1>16, StepCases

(* The standing that r carries has just been read.                      *)
JustRead(r) ==
    /\ r \in StandingRequest /\ r.kind \in {"cancel", "restore"}
    /\ bookings[r.booking].status # "none"
    /\ r.standing = users[bookings[r.booking].user]
    /\ \/ r.at = now
       \/ \E q \in requests : q.kind = r.kind /\ q.at = r.at /\ q.booking = r.booking

(* Where a request in flight comes from.                                *)
LEMMA RequestStep ==
    ASSUME TypeOK, RowsAreWhole, [Next]_vars, NEW r \in requests', r \notin requests
    PROVE  \/ r.kind \in {"hold", "post"}
           \/ \E b \in Bookings, kind \in {"intent", "cash"} :
                 BeginCheckout(b, kind) /\ r.kind = kind /\ r.booking = b
           \/ \E p \in Payments : BeginSettle(p) /\ r.kind = "settle" /\ r.payment = p
           \/ JustRead(r)
<1> DEFINE Goal == \/ r.kind \in {"hold", "post"}
                   \/ \E b \in Bookings, kind \in {"intent", "cash"} :
                         BeginCheckout(b, kind) /\ r.kind = kind /\ r.booking = b
                   \/ \E p \in Payments : BeginSettle(p) /\ r.kind = "settle" /\ r.payment = p
                   \/ JustRead(r)
<1>1. \A u, c, s : BeginCreate(u, c, s) => Goal
    BY DEF BeginCreate, Submit
<1>2. \A b \in Bookings, kind \in {"intent", "cash"} : BeginCheckout(b, kind) => Goal
    BY DEF BeginCheckout, Submit
<1>3. \A b : BeginPost(b) => Goal
    BY DEF BeginPost, Submit
<1>4. \A p \in Payments : BeginSettle(p) => Goal
    BY DEF BeginSettle, Submit
<1>5. ASSUME NEW b \in Bookings, BeginCancel(b) \/ BeginRestore(b) PROVE Goal
  <2>1. PICK kind \in {"cancel", "restore"} : Submit(StandingCall(kind, b))
      BY <1>5 DEF BeginCancel, BeginRestore
  <2>2. r = StandingCall(kind, b)
      BY <2>1 DEF Submit
  <2>3. bookings[b].status # "none"
      BY <1>5 DEF BeginCancel, BeginRestore, CanRestore
  <2>4. JustRead(r)
      BY <2>2, <2>3 DEF StandingCall, JustRead, StandingRequest, TypeOK, RowsAreWhole
  <2> QED
      BY <2>4
<1>6. ASSUME NEW q \in requests, ReadStanding(q) PROVE Goal
  <2>1. q \in StandingRequest /\ q.kind \in {"cancel", "restore"}
      BY <1>6, RequestKinds DEF ReadStanding, TypeOK
  <2>2. r = [q EXCEPT !.standing = users[bookings[q.booking].user]]
      BY <1>6 DEF ReadStanding
  <2>3. /\ r.kind = q.kind /\ r.at = q.at /\ r.booking = q.booking
        /\ r.standing = users[bookings[q.booking].user]
        /\ q.booking \in Bookings
      BY <2>1, <2>2 DEF StandingRequest
  <2>4. bookings[q.booking].status # "none"
      BY <2>1 DEF RowsAreWhole
  <2>5. users[bookings[q.booking].user] \in User
      BY <2>3, <2>4 DEF RowsAreWhole, TypeOK
  <2>6. r \in StandingRequest
      BY <2>1, <2>2, <2>5 DEF StandingRequest
  <2>7. JustRead(r)
      BY <2>1, <2>3, <2>4, <2>6 DEF JustRead
  <2> QED
      BY <2>7
<1>7. \A p : PayAtGateway(p) \/ ApproveCash(p) \/ DeclineCash(p) \/ MarkCashReceived(p)
            \/ MarkRefunded(p) => Goal
    BY DEF PayAtGateway, ApproveCash, DeclineCash, MarkCashReceived, MarkRefunded
<1>8. Tick \/ Janitor \/ UNCHANGED vars => Goal
    BY DEF Tick, Janitor, ReleaseStaleHolds, MarkPlayed, vars
<1>9. Write => Goal
  <2>1. \A q : Done(q) => r \in requests
      BY DEF Done
  <2> QED
      BY <2>1 DEF Write, CreateHold, RefuseHold, CreateIntent, BookCash, RefuseCash,
                  SettleUnpaid, SettleKept, SettleOwedBack, CreatePost, Cancel, RefuseCancel,
                  RestorePenalty, RefuseRestore
<1> QED
    BY <1>1, <1>2, <1>3, <1>4, <1>5, <1>6, <1>7, <1>8, <1>9
    DEF Next, PlayerStep, VenueStep, Callback

(* A callback in flight is about a payment that exists and is online.   *)
LEMMA SettleRequestStep ==
    ASSUME TypeOK, RowsAreWhole, [Next]_vars, NEW r \in requests', r.kind = "settle"
    PROVE  /\ r.payment \in Payments
           /\ payments[r.payment].status # "none"
           /\ payments[r.payment].provider = "online"
<1>1. CASE r \in requests
    BY <1>1, RequestKinds DEF RowsAreWhole, TypeOK, SettleRequest
<1>2. CASE r \notin requests
  <2>1. PICK p \in Payments : BeginSettle(p) /\ r.payment = p
      BY <1>2, RequestStep DEF JustRead
  <2> QED
      BY <2>1 DEF BeginSettle
<1> QED
    BY <1>1, <1>2

(* A cancellation or a restoration in flight is about a booking that exists. *)
LEMMA StandingRequestStep ==
    ASSUME TypeOK, RowsAreWhole, [Next]_vars, NEW r \in requests', r.kind \in {"cancel", "restore"}
    PROVE  r \in StandingRequest /\ bookings'[r.booking].status # "none"
<1>1. r \in StandingRequest
    BY StepType, RequestKinds DEF TypeOK
<1>2. bookings[r.booking].status # "none"
    BY RequestStep DEF RowsAreWhole, JustRead, BeginSettle
<1>3. BookingMoves(r.booking)
    BY <1>1, BookingStep DEF StandingRequest
<1> QED
    BY <1>1, <1>2, <1>3 DEF BookingMoves

(* Rows stay whole.                                                     *)
LEMMA RowsStep == TypeOK /\ RowsAreWhole /\ [Next]_vars => RowsAreWhole'
<1> SUFFICES ASSUME TypeOK, RowsAreWhole, [Next]_vars PROVE RowsAreWhole'
    OBVIOUS
<1>1. ASSUME NEW p \in Payments
      PROVE  /\ payments'[p].status # "none" => payments'[p].booking \in Bookings
             /\ payments'[p].refundDue =>
                   payments'[p].status = "verified" /\ payments'[p].provider = "online"
    BY PaymentStep DEF PaymentMoves, SamePayment, RowsAreWhole
<1>2. ASSUME NEW r \in requests', r.kind = "settle"
      PROVE  payments'[r.payment].status # "none" /\ payments'[r.payment].provider = "online"
  <2>1. /\ r.payment \in Payments
        /\ payments[r.payment].status # "none" /\ payments[r.payment].provider = "online"
      BY <1>2, SettleRequestStep
  <2>2. PaymentMoves(r.payment)
      BY <2>1, PaymentStep
  <2> QED
      BY <2>1, <2>2 DEF PaymentMoves, SamePayment
<1>3. ASSUME NEW b \in Bookings, bookings'[b].status # "none"
      PROVE  /\ bookings'[b].user \in Users
             /\ bookings'[b].court \in Courts
             /\ bookings'[b].slot \in Slots
  <2>1. CASE \E r \in requests : CreateHold(r, b)
      BY <2>1, NewHoldRow
  <2>2. CASE ~\E r \in requests : CreateHold(r, b)
    <3>1. BookingMoves(b)
        BY BookingStep
    <3> QED
        BY <1>3, <2>2, <3>1 DEF BookingMoves, SameHour, RowsAreWhole
  <2> QED
      BY <2>1, <2>2
<1>4. \A r \in requests' : r.kind \in {"cancel", "restore"} => bookings'[r.booking].status # "none"
    BY StandingRequestStep
<1> QED
    BY <1>1, <1>2, <1>3, <1>4 DEF RowsAreWhole

-----------------------------------------------------------------------------
(* No instant of a court is sold twice. *)

(* A new hold is checked against its court; no other step adds a booking *)
(* that blocks, or moves one.                                           *)
LEMMA NoDoubleStep ==
    TypeOK /\ RowsAreWhole /\ NoDoubleBooking /\ [Next]_vars => NoDoubleBooking'
<1> SUFFICES ASSUME TypeOK, RowsAreWhole, NoDoubleBooking, [Next]_vars PROVE NoDoubleBooking'
    OBVIOUS
<1>1. CASE \E r \in requests, b \in Bookings : CreateHold(r, b)
  <2>1. PICK r \in requests, b \in Bookings : CreateHold(r, b)
      BY <1>1
  <2> DEFINE R == Releasable(r)
  <2>2. ASSUME NEW c \in Bookings, c # b, Occupies(c)'
        PROVE  /\ Occupies(c) /\ c \notin R
               /\ bookings'[c].court = bookings[c].court
               /\ bookings'[c].slot = bookings[c].slot
    <3>1. bookings'[c] = Release(R)[c]
        BY <2>1, <2>2, ReleaseType DEF CreateHold
    <3> QED
        BY <2>2, <3>1, ReleaseEffect DEF Occupies
  <2>3. ASSUME NEW c \in Bookings, c # b, Occupies(c)', bookings'[c].court = r.court
        PROVE  bookings'[c].slot.end <= r.slot.start \/ r.slot.end <= bookings'[c].slot.start
    <3>1. /\ Occupies(c) /\ c \notin R
          /\ bookings[c].court = r.court /\ bookings'[c].slot = bookings[c].slot
        BY <2>2, <2>3
    <3>2. bookings[c].slot \in Slots /\ r.slot \in Slots
        BY <2>1, <3>1, NewHoldRow DEF RowsAreWhole, Occupies
    <3>3. ~Overlaps(bookings[c].slot, r.slot)
        BY <2>1, <3>1 DEF CreateHold, SlotExcluded, OnSlot, Occupies
    <3> QED
        BY <3>1, <3>2, <3>3, SlotsAssumption DEF Overlaps
  <2> QED
      BY <2>1, <2>2, <2>3, NewHoldRow DEF NoDoubleBooking
<1>2. CASE ~\E r \in requests, b \in Bookings : CreateHold(r, b)
  <2>1. ASSUME NEW b \in Bookings, Occupies(b)'
        PROVE  /\ Occupies(b)
               /\ bookings'[b].court = bookings[b].court
               /\ bookings'[b].slot = bookings[b].slot
    <3>1. BookingMoves(b)
        BY BookingStep
    <3> QED
        BY <1>2, <2>1, <3>1 DEF BookingMoves, SameHour, Occupies
  <2> QED
      BY <2>1 DEF NoDoubleBooking
<1> QED
    BY <1>1, <1>2

-----------------------------------------------------------------------------
(* Online money and the hour it bought. *)

(* A payment is kept from the moment its hour is booked.                *)
KeptIsBooked ==
    \A p \in Payments : Kept(p) => bookings[payments[p].booking].status \notin {"none", "pending"}

(* A payment becomes a kept one with its hour on the books.             *)
LEMMA BecomesKept ==
    ASSUME TypeOK, RowsAreWhole, [Next]_vars,
           NEW p \in Payments, Kept(p)', ~SamePayment(p)
    PROVE  HasItsHour(p)'
<1> DEFINE b == payments[p].booking
<1>1. PaymentMoves(p)
    BY PaymentStep
<1>2. payments'[p].status = "verified" /\ ~payments'[p].refundDue
    BY DEF Kept
<1>3. /\ payments'[p].booking = b /\ b \in Bookings
    BY <1>1, <1>2 DEF PaymentMoves, RowsAreWhole
<1>4. ASSUME NEW r \in requests, r.payment = p, SettleVerified(r) PROVE HasItsHour(p)'
  <2>1. SettleOwedBack(r) => payments'[p].refundDue = TRUE
      BY <1>4 DEF SettleOwedBack, TypeOK, Payment
  <2>2. SettleKept(r)
      BY <1>2, <1>4, <2>1 DEF SettleVerified
  <2>3. CASE bookings[b].status = "pending"
    <3>1. bookings' = Confirmed(b)
        BY <1>4, <2>2, <2>3 DEF SettleKept
    <3> QED
        BY <1>3, <3>1, ConfirmedEffect DEF HasItsHour
  <2>4. CASE bookings[b].status # "pending"
    <3>1. bookings' = bookings /\ bookings[b].status \in {"confirmed", "completed"}
        BY <1>4, <2>2, <2>4 DEF SettleKept, CanTake
    <3> QED
        BY <1>3, <3>1 DEF HasItsHour
  <2> QED
      BY <2>3, <2>4
<1>5. CASE MarkCashReceived(p)
  <2>1. \/ bookings[b].status = "pending" /\ bookings' = Confirmed(b)
        \/ bookings[b].status \in {"confirmed", "completed"} /\ bookings' = bookings
      BY <1>5 DEF MarkCashReceived, ConfirmCashBooking, LiveHold
  <2> QED
      BY <1>3, <2>1, ConfirmedEffect DEF HasItsHour
<1> QED
    BY <1>1, <1>2, <1>4, <1>5 DEF PaymentMoves

(* So no kept payment is on a hold.                                     *)
LEMMA KeptStep == TypeOK /\ RowsAreWhole /\ KeptIsBooked /\ [Next]_vars => KeptIsBooked'
<1> SUFFICES ASSUME TypeOK, RowsAreWhole, KeptIsBooked, [Next]_vars, NEW p \in Payments, Kept(p)'
             PROVE  bookings'[payments'[p].booking].status \notin {"none", "pending"}
    BY DEF KeptIsBooked
<1>1. CASE SamePayment(p)
  <2>1. Kept(p) /\ payments'[p].booking = payments[p].booking
      BY <1>1 DEF SamePayment, Kept
  <2>2. /\ payments[p].booking \in Bookings
        /\ bookings[payments[p].booking].status \notin {"none", "pending"}
      BY <2>1 DEF KeptIsBooked, RowsAreWhole, Kept
  <2> QED
      BY <2>1, <2>2, BookingStep DEF BookingMoves
<1>2. CASE ~SamePayment(p)
    BY <1>2, BecomesKept DEF HasItsHour
<1> QED
    BY <1>1, <1>2

(* A request whose write runs is in flight no longer.                   *)
LEMMA CancelsIsCancelling == \A b : Cancels(b) => Cancelling(b)
  BY DEF Cancels, Cancelling, Cancel, Done

(* A kept online payment parts from its hour by a cancellation only.    *)
LEMMA PaidOnlineStep ==
    ASSUME TypeOK, RowsAreWhole, [Next]_vars,
           NEW p \in Payments, KeptOnline(p)', ~HasItsHour(p)'
    PROVE  KeptOnline(p) /\ (HasItsHour(p) => Cancelling(payments[p].booking))
<1>1. SamePayment(p)
    BY BecomesKept DEF KeptOnline
<1>2. KeptOnline(p) /\ payments'[p].booking = payments[p].booking
    BY <1>1 DEF SamePayment, KeptOnline, Kept
<1>3. payments[p].booking \in Bookings
    BY <1>2 DEF RowsAreWhole, KeptOnline, Kept
<1>4. ASSUME HasItsHour(p) PROVE Cancelling(payments[p].booking)
  <2>1. BookingMoves(payments[p].booking)
      BY <1>3, BookingStep
  <2>2. Cancels(payments[p].booking)
      BY <1>2, <1>4, <2>1 DEF BookingMoves, HasItsHour
  <2> QED
      BY <2>2, CancelsIsCancelling
<1> QED
    BY <1>2, <1>4

-----------------------------------------------------------------------------
(* A booked hour always has its payment. *)

(* A settlement that keeps the money leaves the hour paid for.          *)
LEMMA SettleKeptCovers ==
    ASSUME TypeOK, RowsAreWhole, NEW r \in requests, SettleKept(r)
    PROVE  /\ r.payment \in Payments
           /\ payments'[r.payment].booking = payments[r.payment].booking
           /\ Covers(r.payment)'
<1>1. r.payment \in Payments
    BY RequestKinds DEF SettleKept, TypeOK, SettleRequest
<1>2. payments'[r.payment] = [payments[r.payment] EXCEPT !.status = "verified"]
    BY <1>1 DEF SettleKept
<1>3. ~payments[r.payment].refundDue
    BY <1>1 DEF SettleKept, RowsAreWhole
<1> QED
    BY <1>1, <1>2, <1>3 DEF TypeOK, Payment, Covers, Kept

(* A booked hour keeps a payment that covers it, step by step.          *)
LEMMA BookedStep ==
    TypeOK /\ RowsAreWhole /\ BookedHourHasItsPayment /\ [Next]_vars => BookedHourHasItsPayment'
<1> SUFFICES ASSUME TypeOK, RowsAreWhole, BookedHourHasItsPayment, [Next]_vars,
                    NEW b \in Bookings, bookings'[b].status \in {"confirmed", "completed"}
             PROVE  \E p \in Payments : payments'[p].booking = b /\ Covers(p)'
    BY DEF BookedHourHasItsPayment, PaymentsOf, Covers
<1>1. ASSUME NEW r \in requests, SettleKept(r), payments[r.payment].booking = b
      PROVE  \E p \in Payments : payments'[p].booking = b /\ Covers(p)'
    BY <1>1, SettleKeptCovers
(* A payment that covered the hour still does, or gave way to an online one. *)
<1>2. ASSUME NEW p \in Payments, payments[p].booking = b, Covers(p)
      PROVE  \E q \in Payments : payments'[q].booking = b /\ Covers(q)'
  <2>1. PaymentMoves(p)
      BY PaymentStep
  <2>2. CASE SamePayment(p)
      BY <1>2, <2>2 DEF SamePayment, Covers, Kept
  <2>3. CASE payments[p].status = "initiated" /\ payments'[p].status = "verified"
             /\ payments[p].provider = "cash"
    <3>1. payments'[p].booking = b /\ ~payments'[p].refundDue
        BY <1>2, <2>1, <2>3 DEF PaymentMoves, SamePayment, RowsAreWhole
    <3> QED
        BY <2>3, <3>1 DEF Covers, Kept
  <2>4. CASE Superseded(payments[p].booking)
    <3>1. PICK r \in requests : SettleKept(r) /\ payments[r.payment].booking = b
        BY <1>2, <2>4 DEF Superseded
    <3> QED
        BY <1>1, <3>1
  <2> QED
      BY <1>2, <2>1, <2>2, <2>3, <2>4 DEF PaymentMoves, Covers, Kept
<1>3. CASE bookings[b].status \in {"confirmed", "completed"}
  <2>1. PICK p \in Payments : payments[p].booking = b /\ Covers(p)
      BY <1>3 DEF BookedHourHasItsPayment, PaymentsOf, Covers
  <2> QED
      BY <1>2, <2>1
<1>4. CASE Confirms(b)
  <2>1. CASE \E r \in requests : SettleKept(r) /\ payments[r.payment].booking = b
      BY <1>1, <2>1
  <2>2. CASE \E r \in requests : BookCash(r) /\ r.booking = b
    <3>1. PICK r \in requests : BookCash(r) /\ r.booking = b
        BY <2>2
    <3>2. CASE CashWaiting(b) # {}
      <4>1. PICK p \in CashWaiting(b) : TRUE
          BY <3>2
      <4> QED
          BY <1>2, <4>1 DEF CashWaiting, PaymentsOf, Covers
    <3>3. CASE CashWaiting(b) = {}
      <4>1. PICK p \in Payments : payments' = [payments EXCEPT ![p] = NewPaymentIntent(b, "cash")]
          BY <3>1, <3>3 DEF BookCash
      <4>2. payments'[p] = NewPaymentIntent(b, "cash")
          BY <4>1 DEF TypeOK
      <4>3. /\ payments'[p].status = "initiated" /\ payments'[p].provider = "cash"
            /\ payments'[p].booking = b
          BY <4>2 DEF NewPaymentIntent, NoPayment
      <4> QED
          BY <4>3 DEF Covers
    <3> QED
        BY <3>2, <3>3
  <2>3. CASE \E p \in Payments : /\ ApproveCash(p) \/ MarkCashReceived(p)
                               /\ payments[p].booking = b
    <3>1. PICK p \in Payments : /\ ApproveCash(p) \/ MarkCashReceived(p)
                             /\ payments[p].booking = b
        BY <2>3
    <3>2. Covers(p)
        BY <3>1 DEF ApproveCash, MarkCashReceived, RowsAreWhole, Covers, Kept
    <3> QED
        BY <1>2, <3>1, <3>2
  <2> QED
      BY <1>4, <2>1, <2>2, <2>3 DEF Confirms
<1>5. bookings[b].status \in {"confirmed", "completed"} \/ Confirms(b)
  <2>1. \A r \in requests : CreateHold(r, b) => bookings'[b].status = "pending"
      BY NewHoldRow
  <2>2. BookingMoves(b)
      BY BookingStep
  <2> QED
      BY <2>1, <2>2 DEF BookingMoves
<1> QED
    BY <1>3, <1>4, <1>5

-----------------------------------------------------------------------------
(* Cash requests, once BookCash is the only way one is made. *)

(* A cash request ends with its hour.                                   *)
LEMMA CashWaitsStep ==
    TypeOK /\ RowsAreWhole /\ CashWaitsOnlyOnBookedHours /\ [Next]_vars
        => CashWaitsOnlyOnBookedHours'
<1> SUFFICES ASSUME TypeOK, RowsAreWhole, CashWaitsOnlyOnBookedHours, [Next]_vars,
                    NEW p \in Payments,
                    payments'[p].provider = "cash", payments'[p].status = "initiated"
             PROVE  bookings'[payments'[p].booking].status \in {"confirmed", "completed"}
    BY DEF CashWaitsOnlyOnBookedHours
<1> DEFINE b == payments[p].booking
<1>1. PaymentMoves(p)
    BY PaymentStep
<1>2. CASE SamePayment(p)
  <2>1. /\ payments[p].provider = "cash" /\ payments[p].status = "initiated"
        /\ payments'[p].booking = b
      BY <1>2 DEF SamePayment
  <2>2. bookings[b].status \in {"confirmed", "completed"} /\ b \in Bookings
      BY <2>1 DEF CashWaitsOnlyOnBookedHours, RowsAreWhole
  <2>3. ~Cancels(b)
    <3>1. Cancels(b) => payments' = FailInitiated({b})
        BY DEF Cancels, Cancel
    <3> QED
        BY <2>1, <3>1, FailInitiatedEffect
  <2> QED
      BY <2>1, <2>2, <2>3, BookingStep DEF BookingMoves
<1>3. CASE payments[p].status = "none" /\ Requested(payments'[p].booking)
             /\ payments'[p].booking \in Bookings
    BY <1>3, ConfirmedEffect DEF Requested, BookCash
<1> QED
    BY <1>1, <1>2, <1>3 DEF PaymentMoves

(* Money from a gateway closes the cash request of its hour.            *)
LEMMA VenueCollectsStep ==
    /\ TypeOK /\ RowsAreWhole /\ KeptIsBooked /\ CashWaitsOnlyOnBookedHours
    /\ VenueNeverCollectsTwice /\ [Next]_vars
    => VenueNeverCollectsTwice'
<1> SUFFICES ASSUME TypeOK, RowsAreWhole, KeptIsBooked, CashWaitsOnlyOnBookedHours,
                    VenueNeverCollectsTwice, [Next]_vars,
                    NEW p \in Payments, NEW q \in Payments,
                    Kept(p)', payments'[p].provider = "online",
                    payments'[q].status = "initiated", payments'[q].provider = "cash",
                    payments'[p].booking = payments'[q].booking
             PROVE  FALSE
    BY DEF VenueNeverCollectsTwice
<1> DEFINE b == payments'[q].booking
<1>1. PaymentMoves(p) /\ PaymentMoves(q)
    BY PaymentStep
<1>2. payments'[p].status = "verified"
    BY DEF Kept
<1>3. \/ SamePayment(p)
      \/ /\ payments'[p].booking = payments[p].booking
         /\ payments[p].status # "verified"
         /\ \E r \in requests : r.payment = p /\ SettleVerified(r)
    BY <1>1, <1>2 DEF PaymentMoves
<1>4. \/ SamePayment(q)
      \/ payments[q].status = "none" /\ Requested(b)
    BY <1>1 DEF PaymentMoves
<1>5. CASE SamePayment(p) /\ SamePayment(q)
    BY <1>5 DEF SamePayment, Kept, VenueNeverCollectsTwice
<1>6. ASSUME SamePayment(q), NEW r \in requests, r.payment = p, SettleVerified(r),
             payments'[p].booking = payments[p].booking
      PROVE  FALSE
  <2>1. /\ payments[q].status = "initiated" /\ payments[q].provider = "cash"
        /\ payments[q].booking = b /\ payments[p].booking = b /\ p # q
      BY <1>6 DEF SamePayment
  <2>2. SettleKept(r)
    <3>1. SettleOwedBack(r) => payments'[p].refundDue = TRUE
        BY <1>6 DEF SettleOwedBack, TypeOK, Payment
    <3> QED
        BY <1>6, <3>1 DEF SettleVerified, Kept
  <2>3. bookings[b].status \in {"confirmed", "completed"}
      BY <2>1 DEF CashWaitsOnlyOnBookedHours
  <2>4. q \in CashWaiting(b)
      BY <2>1 DEF CashWaiting, PaymentsOf
  <2>5. payments'[q] = [payments[q] EXCEPT !.status = "failed"]
      BY <1>6, <2>1, <2>2, <2>3, <2>4 DEF SettleKept
  <2> QED
      BY <2>5 DEF TypeOK, Payment
<1>7. ASSUME NEW r \in requests, BookCash(r), r.booking = b, payments[q].status = "none"
      PROVE  FALSE
  <2>1. bookings[b].status = "pending"
      BY <1>7 DEF BookCash, LiveHold
  <2>2. p # q
      OBVIOUS
  <2>3. payments'[p] = payments[p] \/ payments'[p] = NewPaymentIntent(b, "cash")
      BY <1>7 DEF BookCash, TypeOK
  <2>4. payments'[p] = payments[p]
      BY <1>2, <2>3 DEF NewPaymentIntent, NoPayment
  <2>5. Kept(p) /\ payments[p].provider = "online" /\ payments[p].booking = b
      BY <2>4 DEF Kept
  <2> QED
      BY <2>1, <2>5 DEF KeptIsBooked
<1> QED
    BY <1>3, <1>4, <1>5, <1>6, <1>7 DEF Requested

-----------------------------------------------------------------------------
(* Standing. *)

(* Score and ban agree on a users row. *)
Agree(user) == user.banUntil # Null <=> user.score <= BookingBanFloor

(* What a cancellation or a restoration read agreed, and it was not long   *)
(* ago.                                                                    *)
StandingsAgree ==
    \A r \in requests : r.kind \in {"cancel", "restore"} =>
        Agree(r.standing) /\ r.at <= now /\ now <= r.at + RequestTimeout

(* The ways a player's standing changes.                                *)
LEMMA UsersCases ==
    ASSUME [Next]_vars
    PROVE  \/ UNCHANGED users
           \/ \E r \in requests : Cancel(r) /\ users' = Penalised(r)
           \/ \E r \in requests : RestorePenalty(r)
<1>1. Tick \/ Callback \/ Janitor \/ PlayerStep \/ VenueStep \/ UNCHANGED vars => UNCHANGED users
    BY DEF Tick, Callback, BeginSettle, Janitor, ReleaseStaleHolds, MarkPlayed, vars,
           PlayerStep, BeginCreate, BeginCheckout, BeginCancel, BeginPost, PayAtGateway,
           VenueStep, ApproveCash, DeclineCash, MarkCashReceived, MarkRefunded, BeginRestore
<1>2. \A r : ReadStanding(r) => UNCHANGED users
    BY DEF ReadStanding
<1>3. \A r : Cancel(r) => UNCHANGED users \/ users' = Penalised(r)
    BY DEF Cancel
<1>4. Write => \/ UNCHANGED users
               \/ \E r \in requests : Cancel(r) \/ RestorePenalty(r)
    BY DEF Write, CreateHold, RefuseHold, CreateIntent, BookCash, RefuseCash, SettleUnpaid,
           SettleKept, SettleOwedBack, CreatePost, RefuseCancel, RefuseRestore
<1> QED
    BY <1>1, <1>2, <1>3, <1>4 DEF Next

(* Points that go back lift whoever has them above the floor.           *)
LEMMA RestoreLifts ==
    ASSUME TypeOK, NEW r \in requests, RestorePenalty(r)
    PROVE  /\ r \in StandingRequest
           /\ ScoreAfterRestore(r) \in Int /\ ScoreAfterRestore(r) > BookingBanFloor
           /\ users' = [users EXCEPT ![bookings[r.booking].user] =
                          [score |-> ScoreAfterRestore(r), banUntil |-> Null]]
<1>1. r \in StandingRequest /\ r.booking \in Bookings
    BY RequestKinds DEF RestorePenalty, TypeOK, StandingRequest
<1>2. bookings[r.booking].penalty = LateCancelPenalty
    BY <1>1 DEF RestorePenalty, CanRestore, TypeOK, Booking
<1>3. ScoreAfterRestore(r) \in Int /\ ScoreAfterRestore(r) > BookingBanFloor
    BY <1>1, <1>2, ScoreType DEF ScoreAfterRestore, AtMost, UserScoreStart, LateCancelPenalty,
                                 BookingBanFloor
<1> QED
    BY <1>1, <1>3 DEF RestorePenalty

(* Penalty, restoration and lapse of a ban move score and ban together. *)
LEMMA BanStep == TypeOK /\ BannedExactlyAtTheFloor /\ [Next]_vars => BannedExactlyAtTheFloor'
<1> SUFFICES ASSUME TypeOK, BannedExactlyAtTheFloor, [Next]_vars, NEW v \in Users
             PROVE  users'[v].banUntil # Null <=> users'[v].score <= BookingBanFloor
    BY DEF BannedExactlyAtTheFloor
<1>1. CASE users'[v] = users[v]
    BY <1>1 DEF BannedExactlyAtTheFloor
<1>2. ASSUME NEW r \in requests, Cancel(r), users' = Penalised(r), users'[v] # users[v]
      PROVE  users'[v].banUntil # Null <=> users'[v].score <= BookingBanFloor
  <2>1. r \in StandingRequest
      BY <1>2, RequestKinds DEF Cancel, TypeOK
  <2>2. users'[v] = [score |-> ScoreAfterPenalty(r),
                     banUntil |-> IF ScoreAfterPenalty(r) <= BookingBanFloor
                                  THEN MonthAfter[r.at] ELSE Null]
      BY <1>2 DEF Penalised, TypeOK
  <2>3. MonthAfter[r.at] # Null
      BY <2>1, MonthType DEF Null
  <2> QED
      BY <2>2, <2>3
<1>3. ASSUME NEW r \in requests, RestorePenalty(r), users'[v] # users[v]
      PROVE  users'[v].banUntil # Null <=> users'[v].score <= BookingBanFloor
  <2>1. users'[v] = [score |-> ScoreAfterRestore(r), banUntil |-> Null]
      BY <1>3, RestoreLifts DEF TypeOK
  <2>2. ScoreAfterRestore(r) \in Int /\ ScoreAfterRestore(r) > BookingBanFloor
      BY <1>3, RestoreLifts
  <2> QED
      BY <2>1, <2>2 DEF BookingBanFloor
<1> QED
    BY <1>1, <1>2, <1>3, UsersCases

(* A call reads rows that agree, and is cut off when it has run too long. *)
LEMMA StandingsStep ==
    /\ TypeOK /\ RowsAreWhole /\ BannedExactlyAtTheFloor /\ StandingsAgree /\ [Next]_vars
    => StandingsAgree'
<1> SUFFICES ASSUME TypeOK, RowsAreWhole, BannedExactlyAtTheFloor, StandingsAgree, [Next]_vars,
                    NEW r \in requests', r.kind \in {"cancel", "restore"}
             PROVE  Agree(r.standing) /\ r.at <= now' /\ now' <= r.at + RequestTimeout
    BY DEF StandingsAgree
<1>1. r \in StandingRequest
    BY StandingRequestStep
<1>2. r.at \in Nat /\ now \in Nat /\ RequestTimeout \in Nat
    BY <1>1, MonthType, BoundsAssumption, WindowsAssumption DEF TypeOK
<1>3. CASE Tick
  <2>1. r \in requests /\ r \notin TimedOut /\ now' = now + 1
      BY <1>3 DEF Tick
  <2>2. ~(r.at + RequestTimeout <= now)
      BY <2>1 DEF TimedOut, InFlight
  <2> QED
      BY <1>2, <2>1, <2>2 DEF StandingsAgree
<1>4. CASE ~Tick
  <2>1. now' = now
      BY <1>4 DEF Next, PlayerStep, VenueStep, Callback, Write, Janitor, vars, BeginCreate,
             BeginCheckout, BeginCancel, BeginPost, PayAtGateway, ApproveCash, DeclineCash,
             MarkCashReceived, MarkRefunded, BeginRestore, BeginSettle, CreateHold, RefuseHold,
             CreateIntent, BookCash, RefuseCash, SettleUnpaid, SettleKept, SettleOwedBack,
             CreatePost, Cancel, RefuseCancel, RestorePenalty, RefuseRestore, ReleaseStaleHolds,
             MarkPlayed, ReadStanding
  <2>2. CASE r \in requests
      BY <2>1, <2>2 DEF StandingsAgree
  <2>3. CASE r \notin requests
    <3>1. JustRead(r)
        BY <2>3, RequestStep
    <3>2. Agree(r.standing)
        BY <1>1, <3>1 DEF JustRead, RowsAreWhole, BannedExactlyAtTheFloor, Agree, StandingRequest
    <3>3. r.at <= now /\ now <= r.at + RequestTimeout
        BY <1>2, <3>1 DEF JustRead, StandingsAgree
    <3> QED
        BY <2>1, <3>2, <3>3
  <2> QED
      BY <2>2, <2>3
<1> QED
    BY <1>3, <1>4

-----------------------------------------------------------------------------
(* The initial state. *)

(* What a booking can be at the start.                                  *)
LEMMA InitBooking ==
    ASSUME Init, NEW b \in Bookings
    PROVE  \/ bookings[b].status = "none"
           \/ /\ bookings[b].status = "pending"
              /\ \E l \in Legacy : /\ l.booking = b
                                  /\ bookings[b].user = l.user
                                  /\ bookings[b].court = l.court
                                  /\ bookings[b].slot = l.slot
<1>1. CASE \E l \in Legacy : l.booking = b
  <2> DEFINE l == CHOOSE l \in Legacy : l.booking = b
  <2>1. l \in Legacy /\ l.booking = b
      BY <1>1
  <2>2. bookings[b] = NewHold(l.user, l.court, l.slot, l.slot.start)
      BY <1>1 DEF Init
  <2> HIDE DEF l
  <2>3. /\ bookings[b].status = "pending" /\ bookings[b].user = l.user
        /\ bookings[b].court = l.court /\ bookings[b].slot = l.slot
      BY <2>2 DEF NewHold, NoBooking
  <2> QED
      BY <2>1, <2>3
<1>2. CASE ~\E l \in Legacy : l.booking = b
  <2>1. bookings[b] = NoBooking
      BY <1>2 DEF Init
  <2> QED
      BY <2>1 DEF NoBooking
<1> QED
    BY <1>1, <1>2

(* What a payment can be at the start.                                  *)
LEMMA InitPayment ==
    ASSUME Init, NEW p \in Payments
    PROVE  /\ payments[p].refundDue = FALSE
           /\ \/ payments[p].status = "none"
              \/ /\ payments[p].status = "initiated"
                 /\ \E l \in Legacy : payments[p].booking = l.booking
<1>1. CASE \E l \in Legacy : l.payment = p
  <2> DEFINE l == CHOOSE l \in Legacy : l.payment = p
  <2>1. l \in Legacy
      BY <1>1
  <2>2. payments[p] = NewPaymentIntent(l.booking, "cash")
      BY <1>1 DEF Init
  <2> HIDE DEF l
  <2>3. /\ payments[p].status = "initiated" /\ payments[p].booking = l.booking
        /\ payments[p].refundDue = FALSE
      BY <2>2 DEF NewPaymentIntent, NoPayment
  <2> QED
      BY <2>1, <2>3
<1>2. CASE ~\E l \in Legacy : l.payment = p
  <2>1. payments[p] = NoPayment
      BY <1>2 DEF Init
  <2> QED
      BY <2>1 DEF NoPayment
<1> QED
    BY <1>1, <1>2

(* The properties hold of the tables the migration found.               *)
LEMMA InitSafe ==
    ASSUME Init
    PROVE  /\ RowsAreWhole /\ NoDoubleBooking /\ KeptIsBooked
           /\ BookedHourHasItsPayment /\ BannedExactlyAtTheFloor /\ StandingsAgree
           /\ Legacy = {} => CashWaitsOnlyOnBookedHours /\ VenueNeverCollectsTwice
<1>1. \A b \in Bookings : bookings[b].status \in {"none", "pending"}
    BY InitBooking
<1>2. \A p \in Payments : payments[p].status \in {"none", "initiated"} /\ payments[p].refundDue = FALSE
    BY InitPayment
<1>3. ASSUME NEW b \in Bookings, bookings[b].status # "none"
      PROVE  \E l \in Legacy : /\ l.booking = b
                             /\ bookings[b].user = l.user
                             /\ bookings[b].court = l.court
                             /\ bookings[b].slot = l.slot
    BY <1>3, InitBooking
<1>4. RowsAreWhole
  <2>1. \A b \in Bookings : bookings[b].status # "none" =>
            bookings[b].user \in Users /\ bookings[b].court \in Courts /\ bookings[b].slot \in Slots
      BY <1>3, LegacyAssumption DEF LegacyRequest
  <2>2. ASSUME NEW p \in Payments, payments[p].status # "none"
        PROVE  payments[p].booking \in Bookings
      BY <2>2, InitPayment, LegacyAssumption DEF LegacyRequest
  <2>3. requests = {}
      BY DEF Init
  <2> QED
      BY <1>2, <2>1, <2>2, <2>3 DEF RowsAreWhole
<1>5. NoDoubleBooking
  <2> SUFFICES ASSUME NEW b \in Bookings, NEW c \in Bookings, Occupies(b), Occupies(c),
                      bookings[b].court = bookings[c].court
               PROVE  b = c
      BY DEF NoDoubleBooking
  <2>1. PICK l \in Legacy : l.booking = b /\ bookings[b].court = l.court
      BY <1>3 DEF Occupies
  <2>2. PICK m \in Legacy : m.booking = c /\ bookings[c].court = m.court
      BY <1>3 DEF Occupies
  <2> QED
      BY <2>1, <2>2, LegacyAssumption
<1>6. KeptIsBooked /\ BookedHourHasItsPayment
    BY <1>1, <1>2 DEF KeptIsBooked, BookedHourHasItsPayment, Kept
<1>7. BannedExactlyAtTheFloor /\ StandingsAgree
  <2>1. requests = {} /\ \A u \in Users : users[u] \in InitialStandings
      BY DEF Init
  <2> QED
      BY <2>1, StandingsAssumption DEF BannedExactlyAtTheFloor, StandingsAgree
<1>8. Legacy = {} => CashWaitsOnlyOnBookedHours /\ VenueNeverCollectsTwice
    BY InitPayment DEF CashWaitsOnlyOnBookedHours, VenueNeverCollectsTwice
<1> QED
    BY <1>4, <1>5, <1>6, <1>7, <1>8

-----------------------------------------------------------------------------
(* The theorems. *)

IInv == /\ TypeOK /\ RowsAreWhole
        /\ NoDoubleBooking /\ KeptIsBooked /\ BookedHourHasItsPayment
        /\ BannedExactlyAtTheFloor /\ StandingsAgree

(* Every reachable state satisfies the inductive invariant.             *)
LEMMA Inductive == Spec => []IInv
<1>1. Init => IInv
    BY InitType, InitSafe DEF IInv
<1>2. IInv /\ [Next]_vars => IInv'
    BY StepType, RowsStep, NoDoubleStep, KeptStep, BookedStep, BanStep, StandingsStep DEF IInv
<1> QED
    BY <1>1, <1>2, PTL DEF Spec

(* Every operation on bookings, payments and players writes rows that   *)
(* the tables can hold: a score never leaves its range, a ban is a time. *)
THEOREM TypeCorrect == Spec => []TypeOK
BY Inductive, PTL DEF IInv

(* CreateHold, every confirmation and the sweeps between them never give   *)
(* an instant of a court to two bookings, whatever players ask for.        *)
THEOREM NoInstantIsSoldTwice == Spec => []NoDoubleBooking
BY Inductive, PTL DEF IInv

(* Settle against the sweep, the venue and other players' attempts: a      *)
(* gateway payment the venue keeps has its hour when it is recorded, and   *)
(* parts from it only by a cancellation that was answered too early.       *)
THEOREM OnlineMoneyKeepsItsHour == Spec => PaidOnlineLosesItsHourOnlyToCancel
<1>1. IInv /\ [Next]_vars =>
        [\A p \in Payments :
            KeptOnline(p)' /\ ~HasItsHour(p)' =>
                /\ KeptOnline(p)
                /\ HasItsHour(p) => Cancelling(payments[p].booking)]_vars
    BY PaidOnlineStep DEF IInv
<1> QED
    BY <1>1, Inductive, PTL DEF Spec, PaidOnlineLosesItsHourOnlyToCancel

(* BookCash, Settle and the venue's buttons: no hour is booked with nothing *)
(* paid and nothing to collect.                                            *)
THEOREM EveryBookedHourHasItsPayment == Spec => []BookedHourHasItsPayment
BY Inductive, PTL DEF IInv

(* Cancel and RestorePenalty keep score and ban in step.                   *)
THEOREM BanAndScoreAgree == Spec => []BannedExactlyAtTheFloor
BY Inductive, PTL DEF IInv

(* With no cash request from before BookCash, none waits on a hold, and no *)
(* venue is told to collect for an hour that was paid online.              *)
THEOREM NobodyPaysTwice ==
    ASSUME Legacy = {}
    PROVE  Spec => [](CashWaitsOnlyOnBookedHours /\ VenueNeverCollectsTwice)
<1> DEFINE Inv == IInv /\ CashWaitsOnlyOnBookedHours /\ VenueNeverCollectsTwice
<1>1. Init => Inv
    BY InitType, InitSafe DEF IInv
<1>2. Inv /\ [Next]_vars => Inv'
    BY StepType, RowsStep, NoDoubleStep, KeptStep, BookedStep, BanStep, StandingsStep,
       CashWaitsStep, VenueCollectsStep DEF IInv
<1> QED
    BY <1>1, <1>2, PTL DEF Spec

(* Settle, Cancel, the sweeps and MarkRefunded: a verified payment stays   *)
(* verified, and stays kept or owed back.                                  *)
THEOREM VerifiedStays == Spec => VerifiedIsForever
<1>1. IInv /\ [Next]_vars =>
        [\A p \in Payments : payments[p].status = "verified" =>
            /\ payments'[p].status = "verified"
            /\ payments'[p].refundDue = payments[p].refundDue]_vars
    BY PaymentStep DEF IInv, PaymentMoves, SamePayment
<1> QED
    BY <1>1, Inductive, PTL DEF Spec, VerifiedIsForever

(* Settle, BookCash and the venue's buttons never bring back a booking     *)
(* that was given up, nor undo one that was played.                        *)
THEOREM GivenUpStays == Spec => GivenUpIsForever
<1>1. IInv /\ [Next]_vars =>
        [\A b \in Bookings : bookings[b].status \in {"cancelled", "completed"} =>
            bookings'[b].status = bookings[b].status]_vars
    BY BookingStep DEF IInv, BookingMoves
<1> QED
    BY <1>1, Inductive, PTL DEF Spec, GivenUpIsForever

(* The janitor's sweep and another player's CreateHold release only holds  *)
(* that have lapsed.                                                       *)
THEOREM LiveHoursStay == Spec => LiveHoursAreNotTaken
<1>1. IInv /\ [Next]_vars =>
        [\A b \in Bookings :
            Blocks(b) /\ bookings'[b].status = "cancelled" =>
                /\ Cancelling(b) \/ \E p \in PaymentsOf(b) : DeclineCash(p)
                /\ ~ReleaseStaleHolds]_vars
  <2> SUFFICES ASSUME IInv, [Next]_vars, NEW b \in Bookings,
                      Blocks(b), bookings'[b].status = "cancelled"
               PROVE  /\ Cancelling(b) \/ \E p \in PaymentsOf(b) : DeclineCash(p)
                      /\ ~ReleaseStaleHolds
      OBVIOUS
  <2>1. ~HoldExpired(b)
      BY DEF IInv, Blocks, HoldExpired, TypeOK, Booking, TimeOrNull, Time, Null
  <2>2. BookingMoves(b)
      BY BookingStep DEF IInv
  <2>3. Cancels(b) \/ GivesUp(b) => Cancelling(b) \/ \E p \in PaymentsOf(b) : DeclineCash(p)
      BY <2>1, CancelsIsCancelling DEF GivesUp, PaymentsOf
  <2>4. ~ReleaseStaleHolds
    <3>1. b \notin StaleHolds /\ bookings[b].status # "cancelled"
        BY <2>1 DEF StaleHolds, Blocks
    <3> QED
        BY <3>1 DEF ReleaseStaleHolds, Release
  <2> QED
      BY <2>2, <2>3, <2>4 DEF BookingMoves, Blocks
<1> QED
    BY <1>1, Inductive, PTL DEF Spec, LiveHoursAreNotTaken

(* BookCash, ApproveCash and MarkCashReceived cannot confirm a hold that   *)
(* has lapsed: only Settle can, with the gateway's word for the money.     *)
THEOREM LapsedHoldsNeedMoney == Spec => LapsedHoldsAreRevivedOnlyByMoney
<1>1. IInv /\ [Next]_vars =>
        [\A b \in Bookings :
            HoldExpired(b) /\ bookings'[b].status = "confirmed" =>
                \E p \in Payments : /\ payments'[p].booking = b
                                    /\ payments'[p].provider = "online"
                                    /\ payments'[p].status = "verified"]_vars
  <2> SUFFICES ASSUME IInv, [Next]_vars, NEW b \in Bookings,
                      HoldExpired(b), bookings'[b].status = "confirmed"
               PROVE  \E p \in Payments : /\ payments'[p].booking = b
                                          /\ payments'[p].provider = "online"
                                          /\ payments'[p].status = "verified"
      OBVIOUS
  <2>1. ~LiveHold(b) /\ bookings[b].status = "pending"
      BY DEF IInv, LiveHold, HoldExpired, TypeOK, Booking, TimeOrNull, Time, Null
  <2>2. Confirms(b)
      BY <2>1, BookingStep DEF IInv, BookingMoves
  <2>3. PICK r \in requests : SettleKept(r) /\ payments[r.payment].booking = b
      BY <2>1, <2>2 DEF Confirms, BookCash, ApproveCash, MarkCashReceived, ConfirmCashBooking
  <2>4. /\ r.payment \in Payments
        /\ payments'[r.payment] = [payments[r.payment] EXCEPT !.status = "verified"]
        /\ payments[r.payment].provider = "online"
    <3>1. r.payment \in Payments
        BY <2>3, RequestKinds DEF IInv, SettleKept, TypeOK, SettleRequest
    <3> QED
        BY <2>3, <3>1 DEF IInv, SettleKept, RowsAreWhole
  <2> QED
      BY <2>3, <2>4 DEF IInv, TypeOK, Payment
<1> QED
    BY <1>1, Inductive, PTL DEF Spec, LapsedHoldsAreRevivedOnlyByMoney
=============================================================================
