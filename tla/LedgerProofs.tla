---------------------------- MODULE LedgerProofs ----------------------------
(***************************************************************************)
(* What more Bookings keeps, from a stronger invariant than that of        *)
(* BookingsProofs: payments point at bookings that were made, an unpaid    *)
(* hold has no verified payment, an hour has one cash debt; and that every *)
(* step changes hands of hours as Calendar promises.                       *)
(***************************************************************************)
EXTENDS BookingsProofs

(* Payments and the calls that make them are for bookings that were made. *)
Linked ==
    /\ \A p \in Payments : payments[p].status # "none" =>
          bookings[payments[p].booking].status # "none"
    /\ \A r \in requests : r.kind \in {"intent", "cash"} => bookings[r.booking].status # "none"

(* Verifying a payment and confirming its hold are one write. *)
PendingIsUnpaid ==
    \A p \in Payments : payments[p].status = "verified" =>
        bookings[payments[p].booking].status # "pending"

LInv == IInv /\ Linked /\ PendingIsUnpaid /\ OneCashDebtPerHour

-----------------------------------------------------------------------------
(* A booking that was made stays on file. *)
LEMMA NeverUnmade ==
    ASSUME TypeOK, [Next]_vars, NEW b \in Bookings, bookings[b].status # "none"
    PROVE  bookings'[b].status # "none"
  BY BookingStep DEF BookingMoves

(* A new payment is the one a checkout asked for. *)
LEMMA NewPaymentIsAskedFor ==
    ASSUME TypeOK, RowsAreWhole, [Next]_vars, NEW p \in Payments,
           payments[p].status = "none", payments'[p].status # "none"
    PROVE  \E r \in requests : r.kind \in {"intent", "cash"} /\ payments'[p].booking = r.booking
<1>1. ASSUME NEW r \in requests, NEW q \in Payments, NEW provider,
             payments' = [payments EXCEPT ![q] = NewPaymentIntent(r.booking, provider)]
      PROVE  payments'[p].booking = r.booking
  <2>1. p = q
      BY <1>1 DEF TypeOK
  <2>2. payments'[p] = NewPaymentIntent(r.booking, provider)
      BY <1>1, <2>1 DEF TypeOK
  <2> QED
      BY <2>2 DEF NewPaymentIntent, NoPayment
<1>2. ASSUME NEW r \in requests, NEW q \in Payments, CreateIntent(r, q)
      PROVE  r.kind = "intent" /\ payments'[p].booking = r.booking
    BY <1>1, <1>2 DEF CreateIntent
<1>3. ASSUME NEW r \in requests, BookCash(r)
      PROVE  r.kind = "cash" /\ payments'[p].booking = r.booking
  <2>1. PICK q \in Payments :
            payments' = [payments EXCEPT ![q] = NewPaymentIntent(r.booking, "cash")]
      BY <1>3 DEF BookCash
  <2> QED
      BY <1>1, <1>3, <2>1 DEF BookCash
<1>4. UNCHANGED payments => FALSE
    OBVIOUS
<1>5. \A BB : payments' = FailInitiated(BB) => FALSE
    BY FailInitiatedEffect
<1>6. ASSUME NEW q \in Payments, DeclineCash(q) \/ MarkCashReceived(q) \/ MarkRefunded(q) PROVE FALSE
  <2>1. payments[q].status # "none"
      BY <1>6 DEF DeclineCash, MarkCashReceived, MarkRefunded, RowsAreWhole
  <2>2. payments'[p] = payments[p]
      BY <1>6, <2>1 DEF DeclineCash, MarkCashReceived, MarkRefunded, TypeOK
  <2> QED
      BY <2>2
<1>7. ASSUME NEW r \in requests, SettleUnpaid(r) \/ SettleKept(r) \/ SettleOwedBack(r) PROVE FALSE
  <2>1. p # r.payment
      BY <1>7 DEF SettleUnpaid, SettleKept, SettleOwedBack, RowsAreWhole
  <2>2. CASE SettleKept(r)
    <3>1. payments'[p].status = payments[p].status
        BY <2>1, <2>2 DEF SettleKept, CashWaiting
    <3> QED
        BY <3>1
  <2>3. CASE ~SettleKept(r)
      BY <1>7, <2>1, <2>3 DEF SettleUnpaid, SettleOwedBack, TypeOK
  <2> QED
      BY <2>2, <2>3
<1>8. /\ \A q : ~ApproveCash(q)
      /\ \A r : ~Cancel(r) /\ ~RestorePenalty(r)
      /\ ~ReleaseStaleHolds /\ ~MarkPlayed
      /\ \A r, b : ~CreateHold(r, b)
    BY <1>4, <1>5 DEF ApproveCash, Cancel, RestorePenalty, ReleaseStaleHolds, MarkPlayed, CreateHold
<1> QED
    BY <1>2, <1>3, <1>4, <1>6, <1>7, <1>8, StepCases

(* A checkout in flight has read a booking. *)
LEMMA CheckoutHasRead ==
    ASSUME TypeOK, RowsAreWhole, [Next]_vars, NEW r \in requests', r \notin requests,
           r.kind \in {"intent", "cash"}
    PROVE  r.booking \in Bookings /\ bookings[r.booking].status # "none"
  BY RequestStep DEF JustRead, BeginCheckout

LEMMA LinkedStep == ASSUME TypeOK, RowsAreWhole, Linked, [Next]_vars PROVE Linked'
<1>1. ASSUME NEW r \in requests', r.kind \in {"intent", "cash"}
      PROVE  bookings'[r.booking].status # "none"
  <2>1. r.booking \in Bookings /\ bookings[r.booking].status # "none"
    <3>1. CASE r \in requests
        BY <1>1, <3>1, RequestKinds DEF Linked, TypeOK, IntentRequest
    <3> QED
        BY <1>1, <3>1, CheckoutHasRead
  <2> QED
      BY <2>1, NeverUnmade
<1>2. ASSUME NEW p \in Payments, payments'[p].status # "none"
      PROVE  bookings'[payments'[p].booking].status # "none"
  <2>1. payments'[p].booking \in Bookings /\ bookings[payments'[p].booking].status # "none"
    <3>1. CASE payments[p].status = "none"
      <4>1. PICK r \in requests : r.kind \in {"intent", "cash"} /\ payments'[p].booking = r.booking
          BY <1>2, <3>1, NewPaymentIsAskedFor
      <4> QED
          BY <4>1, RequestKinds DEF Linked, TypeOK, IntentRequest
    <3>2. CASE payments[p].status # "none"
        BY <3>2, PaymentStep DEF PaymentMoves, SamePayment, Linked, RowsAreWhole
    <3> QED
        BY <3>1, <3>2
  <2> QED
      BY <2>1, NeverUnmade
<1> QED
    BY <1>1, <1>2 DEF Linked

(* Whoever verifies a payment leaves its booking confirmed, or found it     *)
(* paid or given up.                                                        *)
LEMMA VerifyingConfirms ==
    ASSUME TypeOK, RowsAreWhole, PendingIsUnpaid, [Next]_vars, NEW p \in Payments,
           payments[p].status # "verified", payments'[p].status = "verified"
    PROVE  bookings'[payments[p].booking].status # "pending"
<1>1. payments[p].status # "none" /\ payments[p].booking \in Bookings
    BY PaymentStep DEF PaymentMoves, SamePayment, RowsAreWhole
<1>2. ASSUME NEW r \in requests, SettleKept(r) \/ SettleOwedBack(r), r.payment = p
      PROVE  bookings'[payments[p].booking].status # "pending"
  <2>1. CASE SettleKept(r)
    <3>1. CASE bookings[payments[p].booking].status = "pending"
        BY <1>1, <1>2, <2>1, <3>1, ConfirmedEffect DEF SettleKept
    <3>2. CASE bookings[payments[p].booking].status # "pending"
        BY <1>2, <2>1, <3>2 DEF SettleKept
    <3> QED
        BY <3>1, <3>2
  <2>2. CASE SettleOwedBack(r)
    <3>1. ~CanTake(p) /\ bookings' = bookings
        BY <1>2, <2>2 DEF SettleOwedBack
    <3>2. AlreadyPaid(p) => bookings[payments[p].booking].status # "pending"
        BY DEF AlreadyPaid, PaymentsOf, Kept, PendingIsUnpaid
    <3> QED
        BY <3>1, <3>2 DEF CanTake
  <2> QED
      BY <1>2, <2>1, <2>2
<1>3. ASSUME NEW q \in Payments, MarkCashReceived(q) PROVE bookings'[payments[p].booking].status # "pending"
  <2>1. p = q
      BY <1>3 DEF MarkCashReceived, TypeOK
  <2> QED
      BY <1>1, <1>3, <2>1, ConfirmedEffect DEF MarkCashReceived, ConfirmCashBooking
<1>4. (\E r \in requests : r.payment = p /\ (SettleKept(r) \/ SettleOwedBack(r)))
        \/ \E q \in Payments : MarkCashReceived(q)
  <2>1. \A BB : payments' = FailInitiated(BB) => FALSE
      BY FailInitiatedEffect
  <2>2. UNCHANGED payments => FALSE
      OBVIOUS
  <2>3. ASSUME NEW q \in Payments, DeclineCash(q) \/ MarkRefunded(q) PROVE FALSE
      BY <2>3 DEF DeclineCash, MarkRefunded, TypeOK, Payment
  <2>4. ASSUME NEW r \in requests, SettleUnpaid(r) PROVE FALSE
      BY <2>4 DEF SettleUnpaid, TypeOK, Payment
  <2>5. ASSUME NEW r \in requests, NEW q \in Payments, NEW provider,
               payments' = [payments EXCEPT ![q] = NewPaymentIntent(r.booking, provider)] PROVE FALSE
    <3>1. CASE p = q
      <4>1. payments'[p] = NewPaymentIntent(r.booking, provider)
          BY <2>5, <3>1 DEF TypeOK
      <4> QED
          BY <4>1 DEF NewPaymentIntent, NoPayment
    <3>2. CASE p # q
        BY <2>5, <3>2 DEF TypeOK
    <3> QED
        BY <3>1, <3>2
  <2>6. ASSUME NEW r \in requests, SettleKept(r) \/ SettleOwedBack(r), r.payment # p PROVE FALSE
    <3>1. CASE SettleKept(r)
      <4>1. payments'[p] = payments[p] \/ payments'[p] = [payments[p] EXCEPT !.status = "failed"]
          BY <2>6, <3>1 DEF SettleKept
      <4> QED
          BY <4>1 DEF TypeOK, Payment
    <3>2. CASE SettleOwedBack(r)
        BY <2>6, <3>2 DEF SettleOwedBack, TypeOK
    <3> QED
        BY <2>6, <3>1, <3>2
  <2>7. /\ \A q : ~ApproveCash(q)
        /\ \A r : ~Cancel(r) /\ ~RestorePenalty(r)
        /\ ~ReleaseStaleHolds /\ ~MarkPlayed
        /\ \A r, b : ~CreateHold(r, b)
      BY <2>1, <2>2 DEF ApproveCash, Cancel, RestorePenalty, ReleaseStaleHolds, MarkPlayed, CreateHold
  <2>8. \A r \in requests : ~BookCash(r) /\ \A q \in Payments : ~CreateIntent(r, q)
      BY <2>2, <2>5 DEF BookCash, CreateIntent
  <2> QED
      BY <2>2, <2>3, <2>4, <2>6, <2>7, <2>8, StepCases
<1> QED
    BY <1>2, <1>3, <1>4

LEMMA PendingStep ==
    ASSUME TypeOK, RowsAreWhole, Linked, PendingIsUnpaid, [Next]_vars
    PROVE  PendingIsUnpaid'
<1> SUFFICES ASSUME NEW p \in Payments, payments'[p].status = "verified"
             PROVE  bookings'[payments'[p].booking].status # "pending"
    BY DEF PendingIsUnpaid
<1>1. /\ payments[p].status # "none" /\ payments'[p].booking = payments[p].booking
      /\ payments[p].booking \in Bookings
    BY PaymentStep DEF PaymentMoves, SamePayment, RowsAreWhole
<1>2. CASE payments[p].status = "verified"
  <2>1. bookings[payments[p].booking].status \notin {"none", "pending"}
      BY <1>1, <1>2 DEF Linked, PendingIsUnpaid
  <2> QED
      BY <1>1, <2>1, BookingStep DEF BookingMoves
<1>3. CASE payments[p].status # "verified"
    BY <1>1, <1>3, VerifyingConfirms
<1> QED
    BY <1>2, <1>3

(* Asking for cash twice records one debt: BookCash looks first. *)
LEMMA OneCashStep ==
    ASSUME TypeOK, RowsAreWhole, OneCashDebtPerHour, [Next]_vars PROVE OneCashDebtPerHour'
<1> DEFINE Open(p) == payments[p].status = "initiated" /\ payments[p].provider = "cash"
<1> DEFINE OpenNext(p) == payments'[p].status = "initiated" /\ payments'[p].provider = "cash"
<1>1. ASSUME NEW p \in Payments, OpenNext(p)
      PROVE  \/ Open(p) /\ payments'[p].booking = payments[p].booking
             \/ payments[p].status = "none" /\ Requested(payments'[p].booking)
    BY <1>1, PaymentStep DEF PaymentMoves, SamePayment
<1>2. ASSUME NEW p \in Payments, NEW q \in Payments, OpenNext(p), OpenNext(q),
             payments'[p].booking = payments'[q].booking, payments[p].status = "none"
      PROVE  p = q
  <2>1. PICK r \in requests : BookCash(r) /\ r.booking = payments'[p].booking
      BY <1>1, <1>2 DEF Requested
  <2>2. PICK x \in Payments :
            /\ CashWaiting(r.booking) = {}
            /\ payments' = [payments EXCEPT ![x] = NewPaymentIntent(r.booking, "cash")]
      BY <1>2, <2>1 DEF BookCash
  <2>3. p = x
      BY <1>2, <2>2 DEF TypeOK
  <2>4. q # x => q \in CashWaiting(r.booking)
      BY <1>2, <2>1, <2>2 DEF TypeOK, CashWaiting, PaymentsOf
  <2> QED
      BY <2>2, <2>3, <2>4
<1>3. ASSUME NEW p \in Payments, NEW q \in Payments, OpenNext(p), OpenNext(q),
             payments'[p].booking = payments'[q].booking
      PROVE  p = q
  <2>1. CASE payments[p].status = "none" \/ payments[q].status = "none"
      BY <1>2, <1>3, <2>1
  <2>2. CASE payments[p].status # "none" /\ payments[q].status # "none"
      BY <1>1, <1>3, <2>2 DEF OneCashDebtPerHour
  <2> QED
      BY <2>1, <2>2
<1> QED
    BY <1>3 DEF OneCashDebtPerHour

LEMMA InitLInv == Init => LInv
<1> SUFFICES ASSUME Init PROVE LInv
    OBVIOUS
<1>1. IInv
    BY InitType, InitSafe DEF IInv
<1>2. \A p \in Payments :
          payments[p] = IF \E l \in Legacy : l.payment = p
                        THEN LET l == CHOOSE l \in Legacy : l.payment = p
                             IN  NewPaymentIntent(l.booking, "cash")
                        ELSE NoPayment
    BY DEF Init
<1>3. ASSUME NEW p \in Payments, payments[p].status # "none"
      PROVE  /\ payments[p].status = "initiated"
             /\ \E l \in Legacy : l.payment = p /\ payments[p].booking = l.booking
  <2>1. \E l \in Legacy : l.payment = p
      BY <1>2, <1>3 DEF NoPayment
  <2>2. PICK l \in Legacy : l.payment = p /\ payments[p] = NewPaymentIntent(l.booking, "cash")
      BY <1>2, <2>1
  <2> QED
      BY <2>2 DEF NewPaymentIntent, NoPayment
<1>4. ASSUME NEW l \in Legacy PROVE bookings[l.booking].status # "none"
  <2>1. l.booking \in Bookings
      BY LegacyAssumption DEF LegacyRequest
  <2>2. \E m \in Legacy : bookings[l.booking] = NewHold(m.user, m.court, m.slot, m.slot.start)
      BY <2>1 DEF Init
  <2> QED
      BY <2>2 DEF NewHold, NoBooking
<1>5. Linked
  <2>1. requests = {}
      BY DEF Init
  <2>2. ASSUME NEW p \in Payments, payments[p].status # "none"
        PROVE  bookings[payments[p].booking].status # "none"
    <3>1. PICK l \in Legacy : payments[p].booking = l.booking
        BY <1>3, <2>2
    <3> QED
        BY <1>4, <3>1
  <2> QED
      BY <2>1, <2>2 DEF Linked
<1>6. PendingIsUnpaid
    BY <1>3 DEF PendingIsUnpaid
<1>7. OneCashDebtPerHour
    BY <1>3, LegacyAssumption DEF OneCashDebtPerHour
<1> QED
    BY <1>1, <1>5, <1>6, <1>7 DEF LInv

-----------------------------------------------------------------------------
(* The theorems. *)

LEMMA InductiveLInv == Spec => []LInv
<1>1. LInv /\ [Next]_vars => LInv'
    BY StepType, RowsStep, NoDoubleStep, KeptStep, BookedStep, BanStep, StandingsStep,
       LinkedStep, PendingStep, OneCashStep DEF LInv, IInv
<1> QED
    BY <1>1, InitLInv, PTL DEF Spec

(* BookCash looks for a cash request before it records one, and nothing     *)
(* else records one: an hour never has two cash debts.                      *)
THEOREM OneDebtPerHour == Spec => []OneCashDebtPerHour
<1>1. LInv => OneCashDebtPerHour
    BY DEF LInv
<1> QED
    BY <1>1, InductiveLInv, PTL

(* With no cash request from before BookCash, none waits on an hour that is *)
(* not booked: BookCash confirms the hour with it.                          *)
THEOREM CashIsForBookedHours ==
    ASSUME Legacy = {}
    PROVE  Spec => []CashWaitsOnlyOnBookedHours
BY NobodyPaysTwice, PTL

(* On the rows of one state CreateHold releases whatever its pre-check      *)
(* would let through, and leaves nothing for the EXCLUDE constraint.        *)
THEOREM PreCheckDecides == Spec => []PreCheckMeansConstraint
<1>1. ASSUME LInv, NEW r \in requests, NEW b \in Bookings \ Releasable(r),
             OnSlot(b, r.court, r.slot), Occupies(b)
      PROVE  Blocks(b)
  <2>1. SUFFICES ASSUME ~Blocks(b) PROVE FALSE
      OBVIOUS
  <2>2. bookings[b].status = "pending" /\ HoldExpired(b)
      BY <1>1, <2>1 DEF Blocks, Occupies, HoldExpired, LInv, IInv, TypeOK, Booking, TimeOrNull, Time, Null
  <2>3. HasVerified(b)
      BY <1>1, <2>2 DEF Releasable
  <2> QED
      BY <1>1, <2>2, <2>3 DEF HasVerified, PaymentsOf, LInv, PendingIsUnpaid
<1>2. LInv => PreCheckMeansConstraint
    BY <1>1 DEF PreCheckMeansConstraint, InFlight, SlotTaken, SlotExcluded
<1> QED
    BY <1>2, InductiveLInv, PTL

(* Cancel on top of a ban that it has read puts another in its place: a     *)
(* running ban is lifted by the venue, giving points back, by time, or by a *)
(* cancellation that read the standing from before the ban.                 *)
THEOREM BansServed == Spec => BansAreNotCancelledAway
<1>1. ASSUME LInv, [Next]_vars, NEW u \in Users, Banned(u), ~(users'[u].banUntil > now)
      PROVE  \E r \in requests \ requests' :
                /\ bookings[r.booking].user = u
                /\ r.kind = "cancel" => r.standing # users[u]
  <2>0. TypeOK /\ BannedExactlyAtTheFloor /\ StandingsAgree
      BY <1>1 DEF LInv, IInv
  <2>1. /\ now \in Nat /\ users[u].banUntil \in Int /\ users[u].banUntil > now
        /\ users[u].score \in Int
      BY <1>1, <2>0, BoundsAssumption
      DEF TypeOK, Time, User, TimeOrNull, Null, Banned, UserScoreStart
  <2>2. users'[u] # users[u]
      BY <1>1, <2>1
  <2>3. ASSUME NEW r \in requests, Cancel(r), users' = Penalised(r), r.standing = users[u] PROVE FALSE
    <3>1. r \in StandingRequest
        BY <2>0, <2>3, RequestKinds DEF Cancel, TypeOK
    <3>2. /\ r.at \in Nat /\ RequestTimeout \in Nat /\ MonthAfter[r.at] \in Nat
          /\ MonthAfter[r.at] > r.at + RequestTimeout
        BY <3>1, MonthType, WindowsAssumption
    <3>3. r.at <= now /\ now <= r.at + RequestTimeout
        BY <2>0, <2>3 DEF Cancel, StandingsAgree
    <3>4. users[u].score <= BookingBanFloor
        BY <2>0, <2>1 DEF BannedExactlyAtTheFloor, Null
    <3>5. ScoreAfterPenalty(r) <= BookingBanFloor
        BY <2>1, <2>3, <3>2, <3>3, <3>4
        DEF ScoreAfterPenalty, EffectiveUserScore, AtLeast, LateCancelPenalty, BookingBanFloor
    <3>6. users'[u].banUntil = MonthAfter[r.at]
        BY <2>0, <2>2, <2>3, <3>5 DEF Penalised, TypeOK
    <3> QED
        BY <1>1, <2>1, <3>2, <3>3, <3>6
  <2>4. ASSUME NEW r \in requests, Cancel(r), users' = Penalised(r)
        PROVE  r \notin requests' /\ bookings[r.booking].user = u
      BY <2>0, <2>2, <2>4 DEF Cancel, Done, Penalised, TypeOK
  <2>5. ASSUME NEW r \in requests, RestorePenalty(r)
        PROVE  r \notin requests' /\ r.kind = "restore" /\ bookings[r.booking].user = u
      BY <2>0, <2>2, <2>5 DEF RestorePenalty, Done, TypeOK
  <2> QED
      BY <1>1, <2>2, <2>3, <2>4, <2>5, UsersCases
<1>2. LInv /\ [Next]_vars =>
        [\A u \in Users :
            Banned(u) /\ ~(users'[u].banUntil > now) =>
                \E r \in requests \ requests' :
                    /\ bookings[r.booking].user = u
                    /\ r.kind = "cancel" => r.standing # users[u]]_vars
    BY <1>1
<1> QED
    BY <1>2, InductiveLInv, PTL DEF Spec, BansAreNotCancelledAway

(* PaymentRepo.Settle drops no answer: a settlement that saw the money      *)
(* leaves the payment verified, whatever ran since it asked the gateway.    *)
THEOREM SettlementsAreWritten == Spec => VerifiedSettlementIsWritten
<1>1. ASSUME LInv, [Next]_vars, NEW r \in requests \ requests', r.kind = "settle", r.verified
      PROVE  payments'[r.payment].status = "verified"
  <2>1. r.payment \in Payments
      BY <1>1, RequestKinds DEF LInv, IInv, TypeOK, SettleRequest
  <2>2. SettleUnpaid(r) \/ SettleKept(r) \/ SettleOwedBack(r)
    <3>1. \A q : Submit(q) => r \in requests'
        BY <1>1 DEF Submit
    <3>2. Tick \/ Callback \/ PlayerStep \/ VenueStep \/ Janitor \/ UNCHANGED vars => r \in requests'
        BY <1>1, <3>1 DEF Tick, TimedOut, InFlight, Callback, BeginSettle, PlayerStep, BeginCreate,
           BeginCheckout, BeginCancel, BeginPost, PayAtGateway, VenueStep, ApproveCash, DeclineCash,
           MarkCashReceived, MarkRefunded, BeginRestore, Janitor, ReleaseStaleHolds, MarkPlayed, vars
    <3>7. \A q \in requests : ReadStanding(q) => r \in requests'
        BY <1>1 DEF ReadStanding
    <3>3. \A q : Done(q) => q = r
        BY <1>1 DEF Done
    <3>4. Write
        BY <1>1, <3>2, <3>7 DEF Next
    <3>5. PICK q \in requests :
              \/ \E b \in Bookings : CreateHold(q, b)
              \/ RefuseHold(q) \/ \E p \in Payments : CreateIntent(q, p)
              \/ BookCash(q) \/ RefuseCash(q) \/ CreatePost(q)
              \/ SettleUnpaid(q) \/ SettleKept(q) \/ SettleOwedBack(q)
              \/ Cancel(q) \/ RefuseCancel(q) \/ RestorePenalty(q) \/ RefuseRestore(q)
        BY <3>4 DEF Write
    <3>6. q = r
        BY <3>3, <3>5 DEF CreateHold, RefuseHold, CreateIntent, BookCash, RefuseCash,
           SettleUnpaid, SettleKept, SettleOwedBack, CreatePost, Cancel, RefuseCancel,
           RestorePenalty, RefuseRestore
    <3> QED
        BY <1>1, <3>5, <3>6 DEF CreateHold, RefuseHold, CreateIntent, BookCash, RefuseCash, CreatePost,
           Cancel, RefuseCancel, RestorePenalty, RefuseRestore
  <2>3. CASE SettleUnpaid(r)
      BY <1>1, <2>3 DEF SettleUnpaid
  <2>4. CASE SettleKept(r)
    <3>1. payments'[r.payment] = [payments[r.payment] EXCEPT !.status = "verified"]
        BY <2>1, <2>4 DEF SettleKept
    <3> QED
        BY <2>1, <3>1 DEF LInv, IInv, TypeOK, Payment
  <2>5. CASE SettleOwedBack(r)
    <3>1. payments'[r.payment].status = [payments[r.payment] EXCEPT !.status = "verified"].status
        BY <1>1, <2>1, <2>5 DEF SettleOwedBack, LInv, IInv, TypeOK, Payment
    <3> QED
        BY <1>1, <2>1, <3>1 DEF LInv, IInv, TypeOK, Payment
  <2> QED
      BY <2>2, <2>3, <2>4, <2>5
<1>2. LInv /\ [Next]_vars =>
        [\A r \in requests \ requests' : r.kind = "settle" /\ r.verified =>
            payments'[r.payment].status = "verified"]_vars
    BY <1>1
<1> QED
    BY <1>2, InductiveLInv, PTL DEF Spec, VerifiedSettlementIsWritten
-----------------------------------------------------------------------------
(* Bookings implements the calendar, one lemma per kind of step. *)

CalendarStep == [OneByOne!Next]_(OneByOne!vars)

LEMMA RowStatus ==
    ASSUME TypeOK, NEW b \in Bookings
    PROVE  /\ OneByOne!Held(b) <=> bookings[b].status = "pending"
           /\ OneByOne!Booked(b) <=> bookings[b].status \in {"confirmed", "completed"}
           /\ OneByOne!Takes(b) <=> Occupies(b)
           /\ calendarStatus[b] = "none" <=> bookings[b].status = "none"
<1>1. bookings[b].status \in BookingStatus
    BY DEF TypeOK, Booking
<1> QED
    BY <1>1 DEF BookingStatus, Occupies, calendarStatus, OneByOne!Takes, OneByOne!Held, OneByOne!Booked

LEMMA PlaceKept ==
    ASSUME \A b \in Bookings : /\ bookings'[b].status = "none" <=> bookings[b].status = "none"
                               /\ SameHour(b)
    PROVE  calendarPlace' = calendarPlace
  BY DEF calendarPlace, SameHour

LEMMA QuietCalendar ==
    ASSUME \A b \in Bookings :
               /\ SameHour(b)
               /\ \/ bookings'[b].status = bookings[b].status
                  \/ bookings[b].status = "confirmed" /\ bookings'[b].status = "completed"
    PROVE  CalendarStep
<1>1. calendarPlace' = calendarPlace
    BY PlaceKept
<1>2. calendarStatus' = calendarStatus
    BY DEF calendarStatus
<1> QED
    BY <1>1, <1>2 DEF CalendarStep, OneByOne!vars

LEMMA ConfirmingBooks ==
    ASSUME TypeOK, NEW c \in Bookings, bookings[c].status = "pending", bookings' = Confirmed(c)
    PROVE  CalendarStep
<1>1. \A b \in Bookings : /\ SameHour(b)
                          /\ bookings'[b].status = IF b = c THEN "confirmed" ELSE bookings[b].status
    BY ConfirmedEffect DEF SameHour
<1>2. calendarPlace' = calendarPlace
    BY <1>1, PlaceKept
<1>3. calendarStatus' = [calendarStatus EXCEPT ![c] = "booked"]
    BY <1>1 DEF calendarStatus
<1>4. OneByOne!Book(c)
    BY <1>2, <1>3, RowStatus DEF OneByOne!Book
<1> QED
    BY <1>4 DEF CalendarStep, OneByOne!Next, OneByOne!Contend

LEMMA GivingUp ==
    ASSUME TypeOK, NEW B \in SUBSET Bookings,
           \A b \in B : Occupies(b),
           \A b \in Bookings : /\ SameHour(b)
                               /\ bookings'[b].status = IF b \in B THEN "cancelled" ELSE bookings[b].status
    PROVE  CalendarStep
<1>1. calendarPlace' = calendarPlace
    BY PlaceKept DEF Occupies
<1>2. calendarStatus' = [b \in Bookings |-> IF b \in B THEN "gone" ELSE calendarStatus[b]]
    BY DEF calendarStatus
<1>3. OneByOne!GiveUp(B)
    BY <1>1, <1>2, RowStatus DEF OneByOne!GiveUp
<1> QED
    BY <1>3 DEF CalendarStep, OneByOne!Next

LEMMA ReleasingGivesUp ==
    ASSUME TypeOK, NEW B \in SUBSET Bookings,
           \A b \in B : bookings[b].status = "pending", bookings' = Release(B)
    PROVE  CalendarStep
  BY ReleaseEffect, GivingUp DEF SameHour, Occupies

LEMMA CancellingGivesUp ==
    ASSUME TypeOK, NEW r \in requests, Cancel(r)
    PROVE  CalendarStep
<1>1. r.booking \in Bookings
    BY RequestKinds DEF Cancel, TypeOK, StandingRequest
<1>2. \A b \in Bookings :
          /\ SameHour(b)
          /\ bookings'[b].status = IF b \in {r.booking} THEN "cancelled" ELSE bookings[b].status
    BY DEF Cancel, TypeOK, Booking, SameHour
<1>3. \A b \in {r.booking} : Occupies(b)
    BY DEF Cancel, Occupies
<1> QED
    BY <1>1, <1>2, <1>3, GivingUp

(* What is in the way of a hold, and stays, does not clash with it; what    *)
(* does not stay was a lapsed hold.                                         *)
LEMMA HoldingTakes ==
    ASSUME TypeOK, RowsAreWhole, NEW r \in requests, NEW b \in Bookings, CreateHold(r, b)
    PROVE  CalendarStep
<1>r. PICK R : R = Releasable(r)
    OBVIOUS
<1>p. PICK p : p = [court |-> r.court, start |-> r.slot.start, end |-> r.slot.end]
    OBVIOUS
<1>1. /\ bookings[b].status = "none" /\ ~SlotExcluded(r)
      /\ r.court \in Courts /\ r.slot \in Slots
      /\ bookings'[b].status = "pending"
      /\ bookings'[b].court = r.court /\ bookings'[b].slot = r.slot
    BY NewHoldRow DEF CreateHold
<1>2. ASSUME NEW c \in Bookings, c # b
      PROVE  /\ SameHour(c)
             /\ bookings'[c].status = IF c \in R THEN "cancelled" ELSE bookings[c].status
  <2>1. bookings'[c] = Release(R)[c]
      BY <1>r, <1>2, ReleaseType DEF CreateHold
  <2> QED
      BY <2>1, ReleaseEffect DEF SameHour
<1>3. R \in SUBSET Bookings /\ \A c \in R : bookings[c].status = "pending" /\ OnSlot(c, r.court, r.slot)
    BY <1>r DEF Releasable, HoldExpired
<1>4. ASSUME NEW c \in Bookings, bookings[c].status # "none"
      PROVE  OneByOne!Clash(calendarPlace[c], p) <=> OnSlot(c, r.court, r.slot)
    BY <1>p, <1>4 DEF OneByOne!Clash, calendarPlace, OnSlot, Overlaps
<1>5. \A c \in R : OneByOne!Held(c) /\ OneByOne!Clash(calendarPlace[c], p)
    BY <1>3, <1>4, RowStatus
<1>6. \A c \in Bookings \ R : OneByOne!Takes(c) => ~OneByOne!Clash(calendarPlace[c], p)
    BY <1>r, <1>1, <1>4, RowStatus DEF SlotExcluded, Occupies
<1>7. calendarStatus' = [c \in Bookings |->
          IF c = b THEN "held" ELSE IF c \in R THEN "gone" ELSE calendarStatus[c]]
    BY <1>1, <1>2 DEF calendarStatus
<1>8. calendarPlace' = [calendarPlace EXCEPT ![b] = p]
    BY <1>p, <1>1, <1>2, <1>3 DEF calendarPlace, SameHour
<1>9. calendarStatus[b] = "none"
    BY <1>1, RowStatus
<1>10. OneByOne!Take(b, p, R)
    BY <1>5, <1>6, <1>7, <1>8, <1>9 DEF OneByOne!Take
<1>11. p \in {[court |-> c, start |-> s.start, end |-> s.end] : c \in Courts, s \in Slots}
    BY <1>p, <1>1
<1>12. OneByOne!Next
    BY <1>3, <1>10, <1>11 DEF OneByOne!Next, OneByOne!Contend
<1> QED
    BY <1>12 DEF CalendarStep

LEMMA StepsOnCalendar == ASSUME TypeOK, RowsAreWhole, [Next]_vars PROVE CalendarStep
<1>1. CASE UNCHANGED bookings
    BY <1>1, QuietCalendar DEF SameHour
<1>2. ASSUME NEW r \in requests, RestorePenalty(r) PROVE CalendarStep
  <2>1. \A c \in Bookings : SameHour(c) /\ bookings'[c].status = bookings[c].status
      BY <1>2 DEF RestorePenalty, TypeOK, Booking, SameHour
  <2> QED
      BY <2>1, QuietCalendar
<1>3. CASE MarkPlayed
  <2>1. \A c \in Bookings :
            /\ SameHour(c)
            /\ \/ bookings'[c].status = bookings[c].status
               \/ bookings[c].status = "confirmed" /\ bookings'[c].status = "completed"
      BY <1>3 DEF MarkPlayed, Played, TypeOK, Booking, SameHour
  <2> QED
      BY <2>1, QuietCalendar
<1>4. CASE ReleaseStaleHolds
    BY <1>4, ReleasingGivesUp DEF ReleaseStaleHolds, StaleHolds, HoldExpired
<1>5. ASSUME NEW p \in Payments, payments[p].status # "none" PROVE payments[p].booking \in Bookings
    BY <1>5 DEF RowsAreWhole
<1>6. ASSUME NEW p \in Payments, ApproveCash(p) \/ MarkCashReceived(p) PROVE CalendarStep
  <2>1. \/ UNCHANGED bookings
        \/ /\ bookings[payments[p].booking].status = "pending"
           /\ bookings' = Confirmed(payments[p].booking)
      BY <1>6 DEF ApproveCash, MarkCashReceived, ConfirmCashBooking, LiveHold
  <2>2. payments[p].booking \in Bookings
      BY <1>5, <1>6 DEF ApproveCash, MarkCashReceived
  <2> QED
      BY <1>1, <2>1, <2>2, ConfirmingBooks
<1>7. ASSUME NEW p \in Payments, DeclineCash(p) PROVE CalendarStep
  <2>1. payments[p].booking \in Bookings
      BY <1>5, <1>7 DEF DeclineCash
  <2> QED
      BY <1>7, <2>1, ReleasingGivesUp DEF DeclineCash
<1>8. ASSUME NEW r \in requests, BookCash(r) PROVE CalendarStep
  <2>1. r.booking \in Bookings
      BY <1>8, RequestKinds DEF TypeOK, BookCash, IntentRequest
  <2> QED
      BY <1>8, <2>1, ConfirmingBooks DEF BookCash, LiveHold
<1>9. ASSUME NEW r \in requests, SettleKept(r) PROVE CalendarStep
  <2>1. r.payment \in Payments
      BY <1>9, RequestKinds DEF TypeOK, SettleKept, SettleRequest
  <2>2. payments[r.payment].booking \in Bookings
      BY <1>9, <2>1 DEF SettleKept, RowsAreWhole
  <2> QED
      BY <1>1, <1>9, <2>2, ConfirmingBooks DEF SettleKept
<1>10. \A r, p : SettleUnpaid(r) \/ SettleOwedBack(r) \/ CreateIntent(r, p) \/ MarkRefunded(p)
                     => UNCHANGED bookings
    BY DEF SettleUnpaid, SettleOwedBack, CreateIntent, MarkRefunded
<1> QED
    BY <1>1, <1>2, <1>3, <1>4, <1>6, <1>7, <1>8, <1>9, <1>10,
       CancellingGivesUp, HoldingTakes, StepCases

(* Every way an hour changes hands in the tables is one the calendar has:   *)
(* CreateHold takes an hour no booked one clashes with and releases only    *)
(* holds, in that instant; confirmations and releases move nothing else.    *)
THEOREM SoldOneByOne == Spec => HoursAreSoldOneByOne
<1>1. Init => OneByOne!Init
  <2> SUFFICES ASSUME Init PROVE OneByOne!Init
      OBVIOUS
  <2>1. TypeOK /\ NoDoubleBooking /\ RowsAreWhole
      BY InitType, InitSafe
  <2>2. calendarStatus \in [Bookings -> {"none", "held"}]
      BY InitBooking DEF calendarStatus
  <2>3. ASSUME NEW b \in Bookings, NEW c \in Bookings, b # c, OneByOne!Takes(b), OneByOne!Takes(c)
        PROVE  ~OneByOne!Clash(calendarPlace[b], calendarPlace[c])
    <3>1. Occupies(b) /\ Occupies(c)
        BY <2>1, <2>3, RowStatus
    <3>2. bookings[b].slot \in Slots /\ bookings[c].slot \in Slots
        BY <2>1, <3>1 DEF RowsAreWhole, Occupies
    <3> QED
        BY <2>1, <2>3, <3>1, <3>2, SlotsAssumption
        DEF NoDoubleBooking, OneByOne!Clash, calendarPlace, Occupies
  <2> QED
      BY <2>2, <2>3 DEF OneByOne!Init
<1>2. IInv /\ [Next]_vars => CalendarStep
    BY StepsOnCalendar DEF IInv
<1> QED
    BY <1>1, <1>2, Inductive, PTL DEF Spec, HoursAreSoldOneByOne, OneByOne!Spec, CalendarStep
=============================================================================
