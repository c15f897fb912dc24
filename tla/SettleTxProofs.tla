--------------------------- MODULE SettleTxProofs ---------------------------
(***************************************************************************)
(* SettleTx implements Hour for any number of payments and of transactions *)
(* of each kind: whatever the order in which their statements take the     *)
(* locks, each takes effect at its commit.  What Hour keeps about a booking*)
(* and its payments then holds of the committed rows.                      *)
(***************************************************************************)
EXTENDS SettleTx, TLAPS

Ended == {"done", "index", "victim"}

Typed ==
    /\ TypeOK
    /\ committed \in [Rows -> BookingStatus \cup PaymentStatus]
    /\ dirty \in [Rows -> BookingStatus \cup PaymentStatus]

(* What the rows say of the hour at every commit. *)
Money ==
    /\ committed[B] = "pending" =>
          committed[Cash] = "none" /\ \A p \in Payments : committed[p] \notin Verified
    /\ committed[Cash] = "initiated" => \A p \in Payments : committed[p] # "kept"
    /\ BookedHourHasItsPayment /\ CashRequestsEndWithTheHour

(* The rows transaction t has locked are those of S. *)
Locked(t, S) == \A r \in Rows : owner[r] = t <=> r \in S

(* Settle: the payment first, not verified yet; then the booking.  What it  *)
(* has read under the booking's lock stays so until it commits.             *)
Settling(t) ==
    LET p == PaymentOf[t] IN
    /\ pc[t] \in {"begin", "booking", "decide", "closecash", "verify"} \cup Ended
    /\ pc[t] \in {"booking", "decide", "closecash", "verify"} => committed[p] \notin Verified
    /\ pc[t] = "booking" => Locked(t, {p})
    /\ pc[t] = "decide" => Locked(t, {p, B}) /\ dirty[B] = committed[B]
    /\ pc[t] = "closecash" =>
          /\ Locked(t, {p, B} \cup {q \in {Cash} : owner[q] = t})
          /\ owner[Cash] = t => committed[Cash] = "initiated" /\ dirty[Cash] = "failed"
          /\ dirty[B] = "confirmed" /\ committed[B] = "confirmed" /\ ~OtherKept(p)
    /\ pc[t] = "verify" =>
          /\ Locked(t, {p, B} \cup {q \in {Cash} : committed[q] = "initiated"})
          /\ committed[Cash] = "initiated" => dirty[Cash] = "failed"
          /\ dirty[B] = "confirmed" /\ committed[B] # "cancelled" /\ ~OtherKept(p)

(* Giving up: the booking, still to be given up, then what is initiated. *)
GivingUp(t) ==
    /\ pc[t] \in {"begin", "booking", "fail"} \cup Ended
    /\ t \in Releasers /\ pc[t] \in {"booking", "fail"} => ~live
    /\ pc[t] = "booking" => Locked(t, {})
    /\ pc[t] = "fail" =>
          /\ t \notin Rebookers /\ owner[B] = t /\ StillMatches(t)
          /\ \A p \in Payments : owner[p] = t => committed[p] = "initiated" /\ dirty[p] = "failed"

Collecting(t) == pc[t] = "booking" => Locked(t, {Cash}) /\ dirty[Cash] = committed[Cash]

(* What a transaction holds and has read, by its label. *)
Where(t) ==
    /\ pc[t] \in {"start", "begin"} \cup Ended => Locked(t, {})
    /\ pc[t] # "index"
    /\ t \in Deniers \cup CashBookers => pc[t] \in {"start", "begin"} \cup Ended
    /\ t \in Settlers => Settling(t)
    /\ t \in Cancellers \cup Releasers => GivingUp(t)
    /\ t \in Collectors => Collecting(t)

IInv == Typed /\ Money /\ \A t \in Txs : Where(t)

-----------------------------------------------------------------------------
(* Kinds and rows. *)

LEMMA TxKinds ==
    /\ NoTx \notin Txs
    /\ \A t \in Settlers : t \in Txs /\ PaymentOf[t] \in Online
                           /\ t \notin Deniers \cup Cancellers \cup Releasers \cup CashBookers \cup Collectors
    /\ \A t \in Deniers : t \in Txs /\ PaymentOf[t] \in Online
                           /\ t \notin Settlers \cup Cancellers \cup Releasers \cup CashBookers \cup Collectors
    /\ \A t \in Cancellers \cup Releasers : t \in Txs /\ t \notin Settlers \cup Deniers \cup CashBookers \cup Collectors
    /\ \A t \in Cancellers : t \notin Releasers
    /\ \A t \in CashBookers : t \in Txs /\ t \notin Settlers \cup Deniers \cup Cancellers \cup Releasers \cup Collectors
    /\ \A t \in Collectors : t \in Txs /\ t \notin Settlers \cup Deniers \cup Cancellers \cup Releasers \cup CashBookers
  BY RowsAssumption, KindsAssumption DEF Txs

LEMMA RowKinds ==
    /\ Cash \in Payments /\ Cash \in Rows /\ B \in Rows /\ B \notin Payments
    /\ Cash # B /\ Cash \notin Online
    /\ \A p \in Online : p \in Payments /\ p \in Rows /\ p # B /\ p # Cash
    /\ \A p \in Payments : p \in Rows /\ p # B
    /\ \A r \in Rows : r # B => r \in Payments
  BY RowsAssumption DEF Rows, Payments

LEMMA InitIInv == Init => IInv
<1> SUFFICES ASSUME Init PROVE IInv
    OBVIOUS
<1>1. committed \in [Rows -> BookingStatus \cup PaymentStatus] /\ dirty = committed
    BY DEF Init, BookingStatus, PaymentStatus
<1>2. /\ committed[B] = "pending" \/ committed[B] = "confirmed"
      /\ committed[B] = "pending" => committed[Cash] = "none"
      /\ committed[B] = "confirmed" => committed[Cash] = "initiated"
      /\ \A p \in Online : committed[p] = "initiated"
    BY RowKinds DEF Init
<1>3. \A p \in Payments : p \in Online \/ p = Cash
    BY DEF Payments
<1>4. /\ owner = [r \in Rows |-> NoTx] /\ live \in BOOLEAN /\ inTime = {}
      /\ pc = [t \in Txs |-> IF t \in CashBookers \cup Collectors THEN "start" ELSE "begin"]
    BY Zenon DEF Init
<1>5. \A r \in Rows : owner[r] = NoTx
    BY <1>4
<1>6. Typed
    BY <1>1, <1>2, <1>3, <1>4, <1>5, TxKinds DEF Typed, TypeOK, BookingStatus, PaymentStatus, Label, Held
<1>7. Money
    BY <1>2, <1>3, RowKinds DEF Money, Verified, BookedHourHasItsPayment, CashRequestsEndWithTheHour
<1>8. ASSUME NEW t \in Txs PROVE Where(t)
  <2>1. pc[t] = IF t \in CashBookers \cup Collectors THEN "start" ELSE "begin"
      BY <1>4
  <2> QED
      BY <1>5, <2>1, TxKinds DEF Where, Locked, Settling, GivingUp, Collecting, Ended
<1> QED
    BY <1>6, <1>7, <1>8 DEF IInv

-----------------------------------------------------------------------------
(* What a step of one transaction leaves to the others. *)

(* All that changes is that payments with no answer are refused. *)
OnlyDenied == \A r \in Rows :
    \/ committed'[r] = committed[r]
    \/ r \in Online /\ committed[r] = "initiated" /\ committed'[r] = "failed"

(* Its rows, its locks and its label; and under the booking's lock nobody   *)
(* commits anything but a refusal.                                          *)
Untouched(u) ==
    /\ pc'[u] = pc[u] /\ (live' => live)
    /\ \A r \in Rows : /\ owner'[r] = u <=> owner[r] = u
                       /\ owner[r] = u => committed'[r] = committed[r] /\ dirty'[r] = dirty[r]
    /\ owner[B] = u => OnlyDenied

LEMMA OthersStay ==
    ASSUME NEW u \in Txs, Where(u), Untouched(u)
    PROVE  Where(u)'
<1>1. \A S : Locked(u, S)' <=> Locked(u, S)
    BY DEF Untouched, Locked
<1>2. ASSUME u \in Settlers PROVE Settling(u)'
  <2> DEFINE p == PaymentOf[u]
  <2>1. p \in Payments /\ p \in Rows
      BY <1>2, TxKinds, RowKinds
  <2>2. Settling(u)
      BY <1>2 DEF Where
  <2>3. owner[B] = u => (OtherKept(p)' <=> OtherKept(p)) /\ committed'[Cash] = committed[Cash]
                        /\ committed'[B] = committed[B] /\ dirty'[B] = dirty[B]
      BY RowKinds DEF Untouched, OtherKept, OnlyDenied
  <2>4. pc[u] \in {"decide", "closecash", "verify"} => owner[B] = u
      BY <2>2, RowKinds DEF Settling, Locked
  <2>5. pc[u] \in {"booking", "decide", "closecash", "verify"} => committed'[p] = committed[p]
      BY <2>1, <2>2 DEF Settling, Locked, Untouched
  <2>6. owner[Cash] = u => dirty'[Cash] = dirty[Cash]
      BY <2>2, RowKinds DEF Settling, Locked, Untouched
  <2>7. pc'[u] = pc[u] /\ (owner'[Cash] = u <=> owner[Cash] = u)
      BY RowKinds DEF Untouched
  <2>8. pc[u] = "verify" /\ committed[Cash] = "initiated" => owner[Cash] = u
      BY <2>2, RowKinds DEF Settling, Locked
  <2> QED
      BY <1>1, <2>2, <2>3, <2>4, <2>5, <2>6, <2>7, <2>8, RowKinds DEF Settling
<1>3. ASSUME u \in Cancellers \cup Releasers PROVE GivingUp(u)'
    BY <1>1, <1>3, RowKinds DEF Where, GivingUp, StillMatches, Untouched
<1>4. ASSUME u \in Collectors PROVE Collecting(u)'
    BY <1>1, <1>4, RowKinds DEF Where, Collecting, Untouched, Locked
<1> QED
    BY <1>1, <1>2, <1>3, <1>4 DEF Where, Untouched

LEMMA GotoStep ==
    ASSUME Typed, NEW t \in Txs, NEW next \in Label, Goto(t, next),
           next \in Ended => Locked(t, {})
    PROVE  Typed' /\ pc'[t] = next /\ \A u \in Txs \ {t} : Untouched(u)
<1>1. pc' \in [Txs -> Label] /\ \A u \in Txs : pc'[u] = IF u = t THEN next ELSE pc[u]
    BY DEF Typed, TypeOK, Goto
<1>2. Typed'
    BY <1>1 DEF Typed, TypeOK, Goto, Held, Locked, Ended
<1> QED
    BY <1>1, <1>2 DEF Untouched, OnlyDenied, Goto

LEMMA LockStep ==
    ASSUME Typed, NEW t \in Txs, NEW r \in Rows, NEW v, NEW next \in Label \ Ended,
           v \in IF r = B THEN BookingStatus ELSE PaymentStatus,
           LockAndWrite(t, r, v, next)
    PROVE  /\ Typed' /\ pc'[t] = next /\ (\A u \in Txs \ {t} : Untouched(u))
           /\ \A q \in Rows : /\ owner'[q] = t <=> owner[q] = t \/ q = r
                              /\ committed'[q] = committed[q]
                              /\ dirty'[q] = IF q = r THEN v ELSE dirty[q]
           /\ live' = live /\ inTime' = inTime
<1>1. pc' \in [Txs -> Label] /\ \A u \in Txs : pc'[u] = IF u = t THEN next ELSE pc[u]
    BY DEF Typed, TypeOK, LockAndWrite
<1>2. /\ owner' \in [Rows -> Txs \cup {NoTx}]
      /\ \A q \in Rows : owner'[q] = IF q = r THEN t ELSE owner[q]
    BY DEF Typed, TypeOK, LockAndWrite
<1>3. /\ dirty' \in [Rows -> BookingStatus \cup PaymentStatus]
      /\ \A q \in Rows : dirty'[q] = IF q = r THEN v ELSE dirty[q]
    BY DEF Typed, LockAndWrite
<1>4. committed' = committed /\ live' = live /\ inTime' = inTime /\ owner[r] \in {NoTx, t}
    BY DEF LockAndWrite, Free
<1>5. Typed'
  <2>1. /\ \A p \in Payments : {committed[p], dirty[p]} \subseteq PaymentStatus
        /\ committed[B] \in BookingStatus /\ dirty[B] \in BookingStatus
        /\ \A q \in Rows : owner[q] = NoTx => dirty[q] = committed[q]
        /\ \A u \in Txs : pc[u] \in Ended => Held(u) = {}
        /\ live \in BOOLEAN /\ inTime \subseteq Txs
      BY DEF Typed, TypeOK, Ended
  <2>2. dirty'[B] \in BookingStatus /\ \A p \in Payments : dirty'[p] \in PaymentStatus
      BY <1>3, <2>1, RowKinds
  <2>3. \A q \in Rows : owner'[q] = NoTx => dirty'[q] = committed'[q]
      BY <1>2, <1>3, <1>4, <2>1, TxKinds
  <2>4. ASSUME NEW u \in Txs, pc'[u] \in Ended PROVE Held(u)' = {}
    <3>1. u # t /\ Held(u) = {}
        BY <1>1, <2>1, <2>4
    <3> QED
        BY <1>2, <3>1 DEF Held
  <2> QED
      BY <1>1, <1>2, <1>3, <1>4, <2>1, <2>2, <2>3, <2>4 DEF Typed, TypeOK, Ended
<1> QED
    BY <1>1, <1>2, <1>3, <1>4, <1>5, TxKinds DEF Untouched, OnlyDenied

LEMMA RollBackStep ==
    ASSUME Typed, NEW t \in Txs, NEW end \in Ended, RollBack(t, end)
    PROVE  /\ Typed' /\ pc'[t] = end /\ (\A u \in Txs \ {t} : Untouched(u))
           /\ Locked(t, {})' /\ committed' = committed /\ live' = live /\ inTime' = inTime
<1>1. pc' \in [Txs -> Label] /\ \A u \in Txs : pc'[u] = IF u = t THEN end ELSE pc[u]
    BY DEF Typed, TypeOK, RollBack, Ended, Label
<1>2. /\ owner' \in [Rows -> Txs \cup {NoTx}]
      /\ \A q \in Rows : owner'[q] = IF owner[q] = t THEN NoTx ELSE owner[q]
    BY DEF Typed, TypeOK, RollBack, Held
<1>3. /\ dirty' \in [Rows -> BookingStatus \cup PaymentStatus]
      /\ \A q \in Rows : dirty'[q] = IF owner[q] = t THEN committed[q] ELSE dirty[q]
    BY DEF Typed, RollBack, Held
<1>4. committed' = committed /\ live' = live /\ inTime' = inTime
    BY DEF RollBack
<1>5. Typed'
  <2>1. /\ \A p \in Payments : {committed[p], dirty[p]} \subseteq PaymentStatus
        /\ committed[B] \in BookingStatus /\ dirty[B] \in BookingStatus
        /\ \A q \in Rows : owner[q] = NoTx => dirty[q] = committed[q]
        /\ \A u \in Txs : pc[u] \in Ended => Held(u) = {}
        /\ live \in BOOLEAN /\ inTime \subseteq Txs
      BY DEF Typed, TypeOK, Ended
  <2>2. dirty'[B] \in BookingStatus /\ \A p \in Payments : dirty'[p] \in PaymentStatus
      BY <1>3, <2>1, RowKinds
  <2>3. \A q \in Rows : owner'[q] = NoTx => dirty'[q] = committed'[q]
      BY <1>2, <1>3, <1>4, <2>1
  <2>4. ASSUME NEW u \in Txs, pc'[u] \in Ended PROVE Held(u)' = {}
    <3>1. CASE u = t
        BY <1>2, <3>1, TxKinds DEF Held
    <3>2. CASE u # t
      <4>1. Held(u) = {}
          BY <1>1, <2>1, <2>4, <3>2
      <4> QED
          BY <1>2, <4>1, TxKinds DEF Held
    <3> QED
        BY <3>1, <3>2
  <2> QED
      BY <1>1, <1>2, <1>3, <1>4, <2>1, <2>2, <2>3, <2>4 DEF Typed, TypeOK, Ended
<1> QED
    BY <1>1, <1>2, <1>3, <1>4, <1>5, TxKinds DEF Untouched, OnlyDenied, Locked

LEMMA CommitStep ==
    ASSUME Typed, NEW t \in Txs, NEW w, CommitWith(t, w), DOMAIN w \subseteq Rows, Free(t, B) \/ OnlyDenied,
           \A r \in DOMAIN w : w[r] \in IF r = B THEN BookingStatus ELSE PaymentStatus
    PROVE  /\ Typed' /\ pc'[t] = "done" /\ (\A u \in Txs \ {t} : Untouched(u))
           /\ Locked(t, {})' /\ live' = live /\ inTime' = inTime
           /\ \A r \in Rows : committed'[r] = IF r \in DOMAIN w THEN w[r]
                                              ELSE IF owner[r] = t THEN dirty[r]
                                              ELSE committed[r]
<1>1. pc' \in [Txs -> Label] /\ \A u \in Txs : pc'[u] = IF u = t THEN "done" ELSE pc[u]
    BY DEF Typed, TypeOK, CommitWith, Label
<1>2. /\ owner' \in [Rows -> Txs \cup {NoTx}]
      /\ \A q \in Rows : owner'[q] = IF owner[q] = t THEN NoTx ELSE owner[q]
    BY DEF Typed, TypeOK, CommitWith, Held
<1>3. \A q \in Rows : dirty'[q] = IF q \in DOMAIN w THEN w[q] ELSE dirty[q]
    BY DEF CommitWith
<1>4. \A r \in Rows : committed'[r] = IF r \in DOMAIN w THEN w[r]
                                      ELSE IF owner[r] = t THEN dirty[r]
                                      ELSE committed[r]
    BY DEF CommitWith, Held
<1>5. live' = live /\ inTime' = inTime /\ \A r \in DOMAIN w : owner[r] \in {NoTx, t}
    BY DEF CommitWith, Free
<1>6. /\ \A p \in Payments : {committed[p], dirty[p]} \subseteq PaymentStatus
      /\ committed[B] \in BookingStatus /\ dirty[B] \in BookingStatus
      /\ \A q \in Rows : owner[q] = NoTx => dirty[q] = committed[q]
      /\ \A u \in Txs : pc[u] \in Ended => Held(u) = {}
      /\ live \in BOOLEAN /\ inTime \subseteq Txs
    BY DEF Typed, TypeOK, Ended
<1>7. /\ dirty'[B] \in BookingStatus /\ committed'[B] \in BookingStatus
      /\ \A p \in Payments : {committed'[p], dirty'[p]} \subseteq PaymentStatus
    BY <1>3, <1>4, <1>6, RowKinds
<1>8. /\ committed' \in [Rows -> BookingStatus \cup PaymentStatus]
      /\ dirty' \in [Rows -> BookingStatus \cup PaymentStatus]
  <2>1. committed' = [r \in Rows |-> committed'[r]] /\ dirty' = [r \in Rows |-> dirty'[r]]
      BY Zenon DEF CommitWith
  <2>2. \A r \in Rows : {committed'[r], dirty'[r]} \subseteq BookingStatus \cup PaymentStatus
      BY <1>7, RowKinds
  <2> QED
      BY <2>1, <2>2
<1>9. \A q \in Rows : owner'[q] = NoTx => dirty'[q] = committed'[q]
    BY <1>2, <1>3, <1>4, <1>6
<1>10. ASSUME NEW u \in Txs, pc'[u] \in Ended PROVE Held(u)' = {}
  <2>1. CASE u = t
      BY <1>2, <2>1, TxKinds DEF Held
  <2>2. CASE u # t
    <3>1. Held(u) = {}
        BY <1>1, <1>6, <1>10, <2>2
    <3> QED
        BY <1>2, <3>1, TxKinds DEF Held
  <2> QED
      BY <2>1, <2>2
<1>11. Typed'
    BY <1>1, <1>2, <1>5, <1>6, <1>7, <1>8, <1>9, <1>10 DEF Typed, TypeOK, Ended
<1>12. ASSUME NEW u \in Txs \ {t} PROVE Untouched(u)
    BY <1>1, <1>2, <1>3, <1>4, <1>5, TxKinds, RowKinds DEF Untouched, Free
<1> QED
    BY <1>1, <1>2, <1>4, <1>5, <1>11, <1>12, TxKinds DEF Locked

-----------------------------------------------------------------------------
(* Steps of Hour, read on the committed rows. *)

HourStep == [Atomic!Next]_(Atomic!vars)

LEMMA Quiet == committed' = committed /\ live' = live /\ inTime' = inTime => HourStep
  BY DEF HourStep, Atomic!vars

LEMMA HourRows ==
    Atomic!Payments = Payments /\ Atomic!Verified = Verified
  BY DEF Atomic!Payments, Payments, Atomic!Verified, Verified

(* Whatever Hour allows leaves the money right. *)
LEMMA MoneyStep ==
    ASSUME Typed, Money, HourStep
    PROVE  Money'
<1> DEFINE pay == [p \in Payments |-> committed[p]]
<1>1. /\ \A p \in Payments : pay[p] = committed[p] /\ pay'[p] = committed'[p]
      /\ committed[B] \in BookingStatus
    BY DEF Typed, TypeOK
<1>2. /\ committed[B] = "pending" =>
            committed[Cash] = "none" /\ \A p \in Payments : committed[p] \notin Verified
      /\ committed[Cash] = "initiated" => \A p \in Payments : committed[p] # "kept"
      /\ committed[B] = "confirmed" =>
            committed[Cash] = "initiated" \/ \E p \in Payments : committed[p] = "kept"
      /\ committed[B] = "cancelled" => committed[Cash] # "initiated"
    BY DEF Money, BookedHourHasItsPayment, CashRequestsEndWithTheHour
<1> SUFFICES
      /\ committed'[B] = "pending" =>
            committed'[Cash] = "none" /\ \A p \in Payments : committed'[p] \notin Verified
      /\ committed'[Cash] = "initiated" => \A p \in Payments : committed'[p] # "kept"
      /\ committed'[B] = "confirmed" =>
            committed'[Cash] = "initiated" \/ \E p \in Payments : committed'[p] = "kept"
      /\ committed'[B] = "cancelled" => committed'[Cash] # "initiated"
    BY DEF Money, BookedHourHasItsPayment, CashRequestsEndWithTheHour
<1>3. CASE UNCHANGED Atomic!vars
  <2>1. committed'[B] = committed[B] /\ pay' = pay
      BY <1>3 DEF Atomic!vars
  <2>2. \A p \in Payments : committed'[p] = committed[p]
      BY <1>1, <2>1
  <2> QED
      BY <1>2, <2>1, <2>2, RowKinds
<1>4. CASE Atomic!Lapse \/ \E c \in CashBookers : Atomic!Start(c)
  <2>1. committed'[B] = committed[B] /\ pay' = pay
      BY <1>4 DEF Atomic!Lapse, Atomic!Start
  <2>2. \A p \in Payments : committed'[p] = committed[p]
      BY <1>1, <2>1
  <2> QED
      BY <1>2, <2>1, <2>2, RowKinds
<1>5. CASE Atomic!Cancel
  <2>1. committed'[B] = "cancelled" /\ pay' = [p \in Payments |-> IF pay[p] = "initiated" THEN "failed" ELSE pay[p]]
      BY <1>5, HourRows DEF Atomic!Cancel, Atomic!FailInitiated
  <2>2. \A p \in Payments : committed'[p] = IF committed[p] = "initiated" THEN "failed" ELSE committed[p]
      BY <1>1, <2>1
  <2> QED
      BY <2>1, <2>2, RowKinds
<1>6. CASE Atomic!Release
  <2>1. /\ committed[B] = "pending" /\ committed'[B] = "cancelled"
        /\ \/ pay' = pay
           \/ pay' = [p \in Payments |-> IF pay[p] = "initiated" THEN "failed" ELSE pay[p]]
      BY <1>6, HourRows DEF Atomic!Release, Atomic!FailInitiated
  <2>2. committed'[Cash] # "initiated"
      BY <1>1, <1>2, <2>1, RowKinds
  <2> QED
      BY <2>1, <2>2
<1>7. CASE Atomic!BookCash
  <2>1. committed[B] = "pending" /\ committed'[B] = "confirmed" /\ pay' = [pay EXCEPT ![Cash] = "initiated"]
      BY <1>7 DEF Atomic!BookCash
  <2>2. \A p \in Payments : committed'[p] = IF p = Cash THEN "initiated" ELSE committed[p]
      BY <1>1, <2>1
  <2> QED
      BY <1>2, <2>1, <2>2, RowKinds DEF Verified
<1>8. CASE Atomic!Collect
  <2>1. committed[B] = "confirmed" /\ committed'[B] = "confirmed" /\ pay' = [pay EXCEPT ![Cash] = "kept"]
      BY <1>8 DEF Atomic!Collect
  <2>2. \A p \in Payments : committed'[p] = IF p = Cash THEN "kept" ELSE committed[p]
      BY <1>1, <2>1
  <2> QED
      BY <1>2, <2>1, <2>2, RowKinds
<1>9. ASSUME NEW p \in Online, Atomic!Settle(p)
      PROVE  /\ committed'[B] = "pending" =>
                   committed'[Cash] = "none" /\ \A q \in Payments : committed'[q] \notin Verified
             /\ committed'[Cash] = "initiated" => \A q \in Payments : committed'[q] # "kept"
             /\ committed'[B] = "confirmed" =>
                   committed'[Cash] = "initiated" \/ \E q \in Payments : committed'[q] = "kept"
             /\ committed'[B] = "cancelled" => committed'[Cash] # "initiated"
  <2>1. Atomic!CanTake(p) <=> committed[B] # "cancelled" /\ ~OtherKept(p)
      BY <1>1, HourRows DEF Atomic!CanTake, OtherKept
  <2>2. committed[p] \notin Verified
      BY <1>1, <1>9, HourRows, RowKinds DEF Atomic!Settle
  <2>3. CASE Atomic!CanTake(p)
    <3>1. /\ committed'[B] = "confirmed"
          /\ pay' = [q \in Payments |-> IF q = p THEN "kept"
                        ELSE IF q = Cash /\ committed[B] = "confirmed" /\ pay[q] = "initiated"
                             THEN "failed" ELSE pay[q]]
        BY <1>9, <2>3, HourRows DEF Atomic!Settle
    <3>2. /\ committed'[p] = "kept"
          /\ committed'[Cash] = IF committed[B] = "confirmed" /\ committed[Cash] = "initiated"
                                THEN "failed" ELSE committed[Cash]
        BY <1>1, <3>1, RowKinds
    <3>3. committed'[Cash] # "initiated"
        BY <1>1, <1>2, <2>1, <2>3, <3>2 DEF BookingStatus
    <3> QED
        BY <3>1, <3>2, <3>3, RowKinds
  <2>4. CASE ~Atomic!CanTake(p)
    <3>1. pay' = [pay EXCEPT ![p] = "owed"] /\ committed'[B] = committed[B]
        BY <1>9, <2>4 DEF Atomic!Settle
    <3>2. \A q \in Payments : committed'[q] = IF q = p THEN "owed" ELSE committed[q]
        BY <1>1, <3>1
    <3>3. committed[B] # "pending"
        BY <1>2, <2>1, <2>4 DEF OtherKept, Verified
    <3> QED
        BY <1>2, <2>2, <3>1, <3>2, <3>3, RowKinds DEF Verified
  <2> QED
      BY <2>3, <2>4
<1>10. ASSUME NEW p \in Online, Atomic!Deny(p)
      PROVE  /\ committed'[B] = "pending" =>
                   committed'[Cash] = "none" /\ \A q \in Payments : committed'[q] \notin Verified
             /\ committed'[Cash] = "initiated" => \A q \in Payments : committed'[q] # "kept"
             /\ committed'[B] = "confirmed" =>
                   committed'[Cash] = "initiated" \/ \E q \in Payments : committed'[q] = "kept"
             /\ committed'[B] = "cancelled" => committed'[Cash] # "initiated"
  <2>1. committed'[B] = committed[B] /\ pay[p] = "initiated" /\ pay' = [pay EXCEPT ![p] = "failed"]
      BY <1>10 DEF Atomic!Deny
  <2>2. /\ committed[p] = "initiated"
        /\ \A q \in Payments : committed'[q] = IF q = p THEN "failed" ELSE committed[q]
      BY <1>1, <2>1, RowKinds
  <2> QED
      BY <1>2, <2>1, <2>2, RowKinds DEF Verified
<1> QED
    BY <1>3, <1>4, <1>5, <1>6, <1>7, <1>8, <1>9, <1>10 DEF HourStep, Atomic!Next

-----------------------------------------------------------------------------
(* One lemma per action: the transaction knows where it is afterwards, the  *)
(* others are left alone, and the committed rows take a step of Hour.       *)
StepsWell(t) == /\ Typed' /\ Where(t)' /\ HourStep
                /\ \A u \in Txs \ {t} : Untouched(u)

LEMMA RolledBack ==
    ASSUME IInv, NEW t \in Txs, NEW end \in {"done", "victim"}, RollBack(t, end)
    PROVE  StepsWell(t)
<1>1. /\ Typed' /\ pc'[t] = end /\ (\A u \in Txs \ {t} : Untouched(u))
      /\ Locked(t, {})' /\ committed' = committed /\ live' = live /\ inTime' = inTime
    BY RollBackStep DEF IInv, Ended
<1>2. Where(t)'
    BY <1>1 DEF Where, Settling, GivingUp, Collecting, Ended
<1> QED
    BY <1>1, <1>2, Quiet DEF StepsWell

LEMMA WentOn ==
    ASSUME IInv, NEW t \in Txs, Goto(t, "done"), Locked(t, {})
    PROVE  StepsWell(t)
<1>1. Typed' /\ pc'[t] = "done" /\ \A u \in Txs \ {t} : Untouched(u)
    BY GotoStep DEF IInv, Label
<1>2. committed' = committed /\ live' = live /\ inTime' = inTime /\ Locked(t, {})'
    BY DEF Goto, Locked
<1>3. Where(t)'
    BY <1>1, <1>2 DEF Where, Settling, GivingUp, Collecting, Ended
<1> QED
    BY <1>1, <1>2, <1>3, Quiet DEF StepsWell

(* After a commit nothing is held, and the label asks for nothing else. *)
LEMMA CommittedWhere ==
    ASSUME NEW t, pc'[t] = "done", Locked(t, {})'
    PROVE  Where(t)'
  BY DEF Where, Settling, GivingUp, Collecting, Ended

LEMMA SettleLockStep == ASSUME IInv, NEW t \in Settlers, SettleLock(t) PROVE StepsWell(t)
<1> DEFINE p == PaymentOf[t]
<1>1. t \in Txs /\ p \in Online /\ p \in Rows /\ p # B /\ p \in Payments
    BY TxKinds, RowKinds
<1>2. Where(t) /\ Locked(t, {}) /\ pc[t] = "begin"
    BY <1>1 DEF IInv, Where, SettleLock
<1>3. CASE committed[p] \in Verified
    BY <1>1, <1>2, <1>3, WentOn DEF SettleLock
<1>4. CASE committed[p] \notin Verified
  <2>1. LockAndWrite(t, p, committed[p], "booking")
      BY <1>4 DEF SettleLock, Lock
  <2>2. committed[p] \in PaymentStatus
      BY <1>1 DEF IInv, Typed, TypeOK
  <2>3. /\ Typed' /\ pc'[t] = "booking" /\ (\A u \in Txs \ {t} : Untouched(u))
        /\ \A q \in Rows : /\ owner'[q] = t <=> owner[q] = t \/ q = p
                           /\ committed'[q] = committed[q]
      BY <1>1, <2>1, <2>2, LockStep DEF IInv, Label, Ended
  <2>4. committed' = committed /\ live' = live /\ inTime' = inTime
      BY <2>1 DEF LockAndWrite
  <2>5. Settling(t)'
      BY <1>1, <1>2, <1>4, <2>3, <2>4 DEF Settling, Locked
  <2>6. Where(t)'
      BY <1>1, <2>3, <2>5, TxKinds DEF Where, Ended
  <2> QED
      BY <2>3, <2>4, <2>6, Quiet DEF StepsWell
<1> QED
    BY <1>3, <1>4

LEMMA SettleLockBookingStep ==
    ASSUME IInv, NEW t \in Settlers, SettleLockBooking(t) PROVE StepsWell(t)
<1> DEFINE p == PaymentOf[t]
<1>1. t \in Txs /\ p \in Online /\ p \in Rows /\ p # B /\ p \in Payments
    BY TxKinds, RowKinds
<1>2. Locked(t, {p}) /\ committed[p] \notin Verified
    BY <1>1 DEF IInv, Where, Settling, SettleLockBooking
<1>3. LockAndWrite(t, B, committed[B], "decide") /\ committed[B] \in BookingStatus
    BY DEF SettleLockBooking, Lock, IInv, Typed, TypeOK
<1>4. /\ Typed' /\ pc'[t] = "decide" /\ (\A u \in Txs \ {t} : Untouched(u))
      /\ \A q \in Rows : /\ owner'[q] = t <=> owner[q] = t \/ q = B
                         /\ committed'[q] = committed[q]
                         /\ dirty'[q] = IF q = B THEN committed[B] ELSE dirty[q]
    BY <1>1, <1>3, LockStep, RowKinds DEF IInv, Label, Ended
<1>5. committed' = committed /\ live' = live /\ inTime' = inTime
    BY <1>3 DEF LockAndWrite
<1>6. Settling(t)'
    BY <1>1, <1>2, <1>4, <1>5, RowKinds DEF Settling, Locked
<1>7. Where(t)'
    BY <1>1, <1>4, <1>6, TxKinds DEF Where, Ended
<1> QED
    BY <1>4, <1>5, <1>7, Quiet DEF StepsWell

LEMMA SettleDecideStep == ASSUME IInv, NEW t \in Settlers, SettleDecide(t) PROVE StepsWell(t)
<1> DEFINE p == PaymentOf[t]
<1>1. t \in Txs /\ p \in Online /\ p \in Rows /\ p # B /\ p \in Payments
    BY TxKinds, RowKinds
<1>2. /\ pc[t] = "decide" /\ Locked(t, {p, B}) /\ committed[p] \notin Verified
      /\ dirty[B] = committed[B] /\ owner[B] = t
    BY <1>1, RowKinds DEF IInv, Where, Settling, SettleDecide, Locked
<1>3. CASE /\ OtherKept(p) \/ committed[B] = "cancelled"
           /\ CommitWith(t, [r \in {p} |-> "owed"])
  <2>1. /\ Typed' /\ pc'[t] = "done" /\ (\A u \in Txs \ {t} : Untouched(u))
        /\ Locked(t, {})' /\ live' = live /\ inTime' = inTime
        /\ \A r \in Rows : committed'[r] = IF r \in {p} THEN "owed"
                                           ELSE IF owner[r] = t THEN dirty[r]
                                           ELSE committed[r]
      BY <1>1, <1>2, <1>3, CommitStep DEF IInv, Free, PaymentStatus
  <2>2. committed'[B] = committed[B] /\ \A q \in Payments : committed'[q] = IF q = p THEN "owed" ELSE committed[q]
      BY <1>1, <1>2, <2>1, RowKinds DEF Locked
  <2>3. ~Atomic!CanTake(p)
      BY <1>1, <1>3, HourRows DEF Atomic!CanTake, OtherKept
  <2>4. Atomic!Settle(p)
      BY <1>1, <1>2, <2>1, <2>2, <2>3, HourRows DEF Atomic!Settle
  <2> QED
      BY <1>1, <2>1, <2>4, CommittedWhere DEF StepsWell, HourStep, Atomic!Next
<1>4. CASE ~OtherKept(p) /\ committed[B] = "pending" /\ LockAndWrite(t, B, "confirmed", "verify")
  <2>1. /\ Typed' /\ pc'[t] = "verify" /\ (\A u \in Txs \ {t} : Untouched(u))
        /\ \A q \in Rows : /\ owner'[q] = t <=> owner[q] = t \/ q = B
                           /\ committed'[q] = committed[q]
                           /\ dirty'[q] = IF q = B THEN "confirmed" ELSE dirty[q]
      BY <1>1, <1>4, LockStep, RowKinds DEF IInv, Label, Ended, BookingStatus
  <2>2. committed' = committed /\ live' = live /\ inTime' = inTime
      BY <1>4 DEF LockAndWrite
  <2>3. committed[Cash] = "none"
      BY <1>4 DEF IInv, Money
  <2>4. Locked(t, {p, B} \cup {q \in {Cash} : committed[q] = "initiated"})'
      BY <1>2, <2>1, <2>2, <2>3 DEF Locked
  <2>5. Settling(t)'
      BY <1>2, <1>4, <2>1, <2>2, <2>3, <2>4, RowKinds DEF Settling, OtherKept
  <2>6. Where(t)'
      BY <1>1, <2>1, <2>5, TxKinds DEF Where, Ended
  <2> QED
      BY <2>1, <2>2, <2>6, Quiet DEF StepsWell
<1>5. CASE ~OtherKept(p) /\ committed[B] = "confirmed" /\ Goto(t, "closecash")
  <2>1. Typed' /\ pc'[t] = "closecash" /\ \A u \in Txs \ {t} : Untouched(u)
      BY <1>1, <1>5, GotoStep DEF IInv, Label, Ended
  <2>2. committed' = committed /\ live' = live /\ inTime' = inTime /\ owner' = owner /\ dirty' = dirty
      BY <1>5 DEF Goto
  <2>3. Settling(t)'
    <3>1. owner[Cash] # t
        BY <1>1, <1>2, RowKinds DEF Locked
    <3>2. Locked(t, {p, B} \cup {q \in {Cash} : owner[q] = t})'
        BY <1>2, <2>2, <3>1 DEF Locked
    <3> QED
        BY <1>2, <1>5, <2>1, <2>2, <3>1, <3>2 DEF Settling, OtherKept
  <2>4. Where(t)'
      BY <1>1, <2>1, <2>3, TxKinds DEF Where, Ended
  <2> QED
      BY <2>1, <2>2, <2>4, Quiet DEF StepsWell
<1> QED
    BY <1>3, <1>4, <1>5 DEF SettleDecide

LEMMA SettleCloseCashStep ==
    ASSUME IInv, NEW t \in Settlers, SettleCloseCash(t) PROVE StepsWell(t)
<1> DEFINE p == PaymentOf[t]
<1>1. t \in Txs /\ p \in Online /\ p \in Rows /\ p # B /\ p # Cash
    BY TxKinds, RowKinds
<1>2. /\ pc[t] = "closecash" /\ Locked(t, {p, B} \cup {q \in {Cash} : owner[q] = t})
      /\ committed[p] \notin Verified
      /\ owner[Cash] = t => committed[Cash] = "initiated" /\ dirty[Cash] = "failed"
      /\ dirty[B] = "confirmed" /\ committed[B] = "confirmed" /\ ~OtherKept(p)
    BY <1>1 DEF IInv, Where, Settling, SettleCloseCash
<1>3. CASE \E q \in ToClose(t) : LockAndWrite(t, q, "failed", "closecash")
  <2>1. LockAndWrite(t, Cash, "failed", "closecash") /\ committed[Cash] = "initiated"
      BY <1>3 DEF ToClose
  <2>2. /\ Typed' /\ pc'[t] = "closecash" /\ (\A u \in Txs \ {t} : Untouched(u))
        /\ \A q \in Rows : /\ owner'[q] = t <=> owner[q] = t \/ q = Cash
                           /\ committed'[q] = committed[q]
                           /\ dirty'[q] = IF q = Cash THEN "failed" ELSE dirty[q]
      BY <1>1, <2>1, LockStep, RowKinds DEF IInv, Label, Ended, PaymentStatus
  <2>3. committed' = committed /\ live' = live /\ inTime' = inTime
      BY <2>1 DEF LockAndWrite
  <2>4. owner'[Cash] = t /\ dirty'[Cash] = "failed" /\ dirty'[B] = "confirmed"
      BY <1>2, <2>2, RowKinds
  <2>5. Locked(t, {p, B} \cup {q \in {Cash} : owner[q] = t})'
      BY <1>2, <2>2, <2>4 DEF Locked
  <2>6. Settling(t)'
      BY <1>2, <2>1, <2>2, <2>3, <2>4, <2>5 DEF Settling, OtherKept
  <2>7. Where(t)'
      BY <1>1, <2>2, <2>6, TxKinds DEF Where, Ended
  <2> QED
      BY <2>2, <2>3, <2>7, Quiet DEF StepsWell
<1>4. CASE ToClose(t) = {} /\ Goto(t, "verify")
  <2>1. committed[Cash] = "initiated" <=> owner[Cash] = t
      BY <1>2, <1>4 DEF ToClose
  <2>2. Typed' /\ pc'[t] = "verify" /\ \A u \in Txs \ {t} : Untouched(u)
      BY <1>1, <1>4, GotoStep DEF IInv, Label, Ended
  <2>3. /\ committed' = committed /\ live' = live /\ inTime' = inTime
        /\ owner' = owner /\ dirty' = dirty
      BY <1>4 DEF Goto
  <2>4. Locked(t, {p, B} \cup {q \in {Cash} : committed[q] = "initiated"})'
      BY <1>2, <2>1, <2>3 DEF Locked
  <2>5. Settling(t)'
      BY <1>2, <2>1, <2>2, <2>3, <2>4 DEF Settling, OtherKept
  <2>6. Where(t)'
      BY <1>1, <2>2, <2>5, TxKinds DEF Where, Ended
  <2> QED
      BY <2>2, <2>3, <2>6, Quiet DEF StepsWell
<1> QED
    BY <1>3, <1>4 DEF SettleCloseCash

LEMMA SettleVerifyStep == ASSUME IInv, NEW t \in Settlers, SettleVerify(t) PROVE StepsWell(t)
<1> DEFINE p == PaymentOf[t]
<1>1. t \in Txs /\ p \in Online /\ p \in Rows /\ p # B /\ p # Cash /\ p \in Payments
    BY TxKinds, RowKinds
<1>2. /\ Locked(t, {p, B} \cup {q \in {Cash} : committed[q] = "initiated"})
      /\ committed[Cash] = "initiated" => dirty[Cash] = "failed"
      /\ dirty[B] = "confirmed" /\ committed[B] # "cancelled" /\ ~OtherKept(p)
      /\ committed[p] \notin Verified
    BY <1>1 DEF IInv, Where, Settling, SettleVerify
<1>3. CommitWith(t, [r \in {p} |-> "kept"]) /\ owner[B] = t
    BY <1>2, RowKinds DEF SettleVerify, Locked
<1>4. /\ Typed' /\ pc'[t] = "done" /\ (\A u \in Txs \ {t} : Untouched(u))
      /\ Locked(t, {})' /\ live' = live /\ inTime' = inTime
      /\ \A r \in Rows : committed'[r] = IF r \in {p} THEN "kept"
                                         ELSE IF owner[r] = t THEN dirty[r]
                                         ELSE committed[r]
    BY <1>1, <1>3, CommitStep DEF IInv, Free, PaymentStatus
<1>5. committed'[B] = "confirmed"
    BY <1>1, <1>2, <1>3, <1>4, RowKinds
<1>6. ASSUME NEW q \in Payments
      PROVE  committed'[q] = IF q = p THEN "kept"
                  ELSE IF q = Cash /\ committed[B] = "confirmed" /\ committed[q] = "initiated"
                       THEN "failed" ELSE committed[q]
  <2>1. committed[Cash] = "initiated" => committed[B] = "confirmed"
      BY <1>2 DEF IInv, Money, Typed, TypeOK, BookingStatus
  <2>2. owner[q] = t <=> q = p \/ (q = Cash /\ committed[q] = "initiated")
      BY <1>2, RowKinds DEF Locked
  <2> QED
      BY <1>2, <1>4, <2>1, <2>2, RowKinds
<1>7. Atomic!CanTake(p)
    BY <1>1, <1>2, HourRows DEF Atomic!CanTake, OtherKept
<1>8. Atomic!Settle(p)
    BY <1>1, <1>2, <1>4, <1>5, <1>6, <1>7, HourRows DEF Atomic!Settle
<1> QED
    BY <1>1, <1>4, <1>8, CommittedWhere DEF StepsWell, HourStep, Atomic!Next

LEMMA GiveUpBeginStep ==
    ASSUME IInv, NEW t \in Cancellers \cup Releasers, GiveUpBegin(t) PROVE StepsWell(t)
<1>1. t \in Txs /\ Where(t) /\ Locked(t, {})
    BY TxKinds DEF IInv, Where, GiveUpBegin
<1>2. Goto(t, "booking")
    BY DEF GiveUpBegin
<1>3. Typed' /\ pc'[t] = "booking" /\ \A u \in Txs \ {t} : Untouched(u)
    BY <1>1, <1>2, GotoStep DEF IInv, Label, Ended
<1>4. committed' = committed /\ live' = live /\ inTime' = inTime /\ owner' = owner
    BY <1>2 DEF Goto
<1>5. GivingUp(t)'
    BY <1>1, <1>3, <1>4 DEF GiveUpBegin, ReleaseMayBegin, GivingUp, Locked
<1>6. Where(t)'
    BY <1>1, <1>3, <1>5, TxKinds DEF Where, Ended
<1> QED
    BY <1>3, <1>4, <1>6, Quiet DEF StepsWell

LEMMA GiveUpBookingStep ==
    ASSUME IInv, NEW t \in Cancellers \cup Releasers, GiveUpBooking(t) PROVE StepsWell(t)
<1>1. /\ t \in Txs /\ Where(t) /\ pc[t] = "booking" /\ Locked(t, {})
      /\ t \in Releasers => ~live
      /\ Free(t, B)
    BY TxKinds DEF IInv, Where, GiveUpBooking, GivingUp
<1>2. CASE ~StillMatches(t)
    BY <1>1, <1>2, WentOn DEF GiveUpBooking
<1>3. CASE StillMatches(t) /\ t \in Rebookers
  <2>1. CommitWith(t, [r \in {B} |-> "cancelled"])
      BY <1>3 DEF GiveUpBooking
  <2>2. /\ Typed' /\ pc'[t] = "done" /\ (\A u \in Txs \ {t} : Untouched(u))
        /\ Locked(t, {})' /\ live' = live /\ inTime' = inTime
        /\ \A r \in Rows : committed'[r] = IF r \in {B} THEN "cancelled"
                                           ELSE IF owner[r] = t THEN dirty[r]
                                           ELSE committed[r]
      BY <1>1, <2>1, CommitStep, RowKinds DEF IInv, BookingStatus
  <2>3. committed'[B] = "cancelled" /\ \A p \in Payments : committed'[p] = committed[p]
      BY <1>1, <2>2, RowKinds DEF Locked
  <2>4. t \in Releasers /\ t \notin Cancellers
      BY <1>3, TxKinds DEF Releasers
  <2>5. committed[B] = "pending" /\ ~live /\ \A p \in Payments : committed[p] \notin Verified
      BY <1>1, <1>3, <2>4 DEF StillMatches, IInv, Money
  <2>6. Atomic!Release
      BY <2>2, <2>3, <2>5, HourRows DEF Atomic!Release
  <2> QED
      BY <1>1, <2>2, <2>6, CommittedWhere DEF StepsWell, HourStep, Atomic!Next
<1>4. CASE StillMatches(t) /\ t \notin Rebookers
  <2>1. LockAndWrite(t, B, "cancelled", "fail")
      BY <1>4 DEF GiveUpBooking
  <2>2. /\ Typed' /\ pc'[t] = "fail" /\ (\A u \in Txs \ {t} : Untouched(u))
        /\ \A q \in Rows : /\ owner'[q] = t <=> owner[q] = t \/ q = B
                           /\ committed'[q] = committed[q]
      BY <1>1, <2>1, LockStep, RowKinds DEF IInv, Label, Ended, BookingStatus
  <2>3. committed' = committed /\ live' = live /\ inTime' = inTime
      BY <2>1 DEF LockAndWrite
  <2>4. GivingUp(t)'
      BY <1>1, <1>4, <2>2, <2>3, RowKinds DEF GivingUp, StillMatches, Locked
  <2>5. Where(t)'
      BY <1>1, <2>2, <2>4, TxKinds DEF Where, Ended
  <2> QED
      BY <2>2, <2>3, <2>5, Quiet DEF StepsWell
<1> QED
    BY <1>2, <1>3, <1>4

LEMMA GiveUpFailStep ==
    ASSUME IInv, NEW t \in Cancellers \cup Releasers, GiveUpFail(t) PROVE StepsWell(t)
<1>1. /\ t \in Txs /\ pc[t] = "fail" /\ owner[B] = t /\ StillMatches(t) /\ t \notin Rebookers
      /\ t \in Releasers => ~live
      /\ \A p \in Payments : owner[p] = t => committed[p] = "initiated" /\ dirty[p] = "failed"
    BY TxKinds DEF IInv, Where, GiveUpFail, GivingUp
<1>2. ASSUME NEW p \in ToFail(t), LockAndWrite(t, p, "failed", "fail") PROVE StepsWell(t)
  <2>1. p \in Payments /\ p \in Rows /\ p # B /\ committed[p] = "initiated"
      BY RowKinds DEF ToFail
  <2>2. /\ Typed' /\ pc'[t] = "fail" /\ (\A u \in Txs \ {t} : Untouched(u))
        /\ \A q \in Rows : /\ owner'[q] = t <=> owner[q] = t \/ q = p
                           /\ committed'[q] = committed[q]
                           /\ dirty'[q] = IF q = p THEN "failed" ELSE dirty[q]
      BY <1>1, <1>2, <2>1, LockStep, RowKinds DEF IInv, Label, Ended, PaymentStatus
  <2>3. committed' = committed /\ live' = live /\ inTime' = inTime
      BY <1>2 DEF LockAndWrite
  <2>4. GivingUp(t)'
      BY <1>1, <2>1, <2>2, <2>3, RowKinds DEF GivingUp, StillMatches
  <2>5. Where(t)'
      BY <1>1, <2>2, <2>4, TxKinds DEF Where, Ended
  <2> QED
      BY <2>2, <2>3, <2>5, Quiet DEF StepsWell
<1>3. CASE ToFail(t) = {} /\ CommitWith(t, [r \in {B} |-> "cancelled"])
  <2>1. /\ Typed' /\ pc'[t] = "done" /\ (\A u \in Txs \ {t} : Untouched(u))
        /\ Locked(t, {})' /\ live' = live /\ inTime' = inTime
        /\ \A r \in Rows : committed'[r] = IF r \in {B} THEN "cancelled"
                                           ELSE IF owner[r] = t THEN dirty[r]
                                           ELSE committed[r]
      BY <1>1, <1>3, CommitStep, RowKinds DEF IInv, BookingStatus, Free
  <2>2. /\ committed'[B] = "cancelled"
        /\ \A p \in Payments : committed'[p] = IF committed[p] = "initiated" THEN "failed" ELSE committed[p]
    <3>1. \A p \in Payments : committed[p] = "initiated" => owner[p] = t
        BY <1>3 DEF ToFail
    <3> QED
        BY <1>1, <2>1, <3>1, RowKinds
  <2>3. CASE t \in Cancellers
    <3>1. Atomic!Cancel
        BY <1>1, <2>1, <2>2, HourRows DEF Atomic!Cancel, Atomic!FailInitiated, StillMatches
    <3> QED
        BY <1>1, <2>1, <3>1, CommittedWhere DEF StepsWell, HourStep, Atomic!Next
  <2>4. CASE t \notin Cancellers
    <3>1. committed[B] = "pending" /\ ~live /\ \A p \in Payments : committed[p] \notin Verified
        BY <1>1, <2>4 DEF StillMatches, IInv, Money
    <3>2. Atomic!Release
        BY <2>1, <2>2, <3>1, HourRows DEF Atomic!Release, Atomic!FailInitiated
    <3> QED
        BY <1>1, <2>1, <3>2, CommittedWhere DEF StepsWell, HourStep, Atomic!Next
  <2> QED
      BY <2>3, <2>4
<1> QED
    BY <1>2, <1>3 DEF GiveUpFail

LEMMA BookCashStep == ASSUME IInv, NEW t \in CashBookers, BookCash(t) PROVE StepsWell(t)
<1>1. t \in Txs /\ Where(t) /\ Locked(t, {}) /\ Free(t, B)
    BY TxKinds DEF IInv, Where, BookCash
<1>2. CASE ~(committed[B] = "pending" /\ t \in inTime)
    BY <1>1, <1>2, WentOn DEF BookCash
<1>3. CASE committed[B] = "pending" /\ t \in inTime
  <2> DEFINE w == [r \in {B, Cash} |-> IF r = B THEN "confirmed" ELSE "initiated"]
  <2>1. CommitWith(t, w)
      BY <1>3 DEF BookCash
  <2>2. /\ DOMAIN w = {B, Cash} /\ w[B] = "confirmed" /\ w[Cash] = "initiated"
      BY RowKinds
  <2> HIDE DEF w
  <2>3. /\ Typed' /\ pc'[t] = "done" /\ (\A u \in Txs \ {t} : Untouched(u))
        /\ Locked(t, {})' /\ live' = live /\ inTime' = inTime
        /\ \A r \in Rows : committed'[r] = IF r \in DOMAIN w THEN w[r]
                                           ELSE IF owner[r] = t THEN dirty[r]
                                           ELSE committed[r]
      BY <1>1, <2>1, <2>2, CommitStep, RowKinds DEF IInv, BookingStatus, PaymentStatus
  <2>4. /\ committed'[B] = "confirmed"
        /\ \A p \in Payments : committed'[p] = IF p = Cash THEN "initiated" ELSE committed[p]
      BY <1>1, <2>2, <2>3, RowKinds DEF Locked
  <2>5. Atomic!BookCash
      BY <1>3, <2>3, <2>4, HourRows, RowKinds DEF Atomic!BookCash
  <2> QED
      BY <1>1, <2>3, <2>5, CommittedWhere DEF StepsWell, HourStep, Atomic!Next
<1> QED
    BY <1>2, <1>3

LEMMA CollectLockStep == ASSUME IInv, NEW t \in Collectors, CollectLock(t) PROVE StepsWell(t)
<1>1. t \in Txs /\ Where(t) /\ Locked(t, {}) /\ committed[Cash] \in PaymentStatus
    BY TxKinds, RowKinds DEF IInv, Where, CollectLock, Typed, TypeOK
<1>2. LockAndWrite(t, Cash, committed[Cash], "booking")
    BY DEF CollectLock, Lock
<1>3. /\ Typed' /\ pc'[t] = "booking" /\ (\A u \in Txs \ {t} : Untouched(u))
      /\ \A q \in Rows : /\ owner'[q] = t <=> owner[q] = t \/ q = Cash
                         /\ committed'[q] = committed[q]
                         /\ dirty'[q] = IF q = Cash THEN committed[Cash] ELSE dirty[q]
    BY <1>1, <1>2, LockStep, RowKinds DEF IInv, Label, Ended
<1>4. committed' = committed /\ live' = live /\ inTime' = inTime
    BY <1>2 DEF LockAndWrite
<1>5. Collecting(t)'
    BY <1>1, <1>3, <1>4, RowKinds DEF Collecting, Locked
<1>6. Where(t)'
    BY <1>1, <1>3, <1>5, TxKinds DEF Where, Ended
<1> QED
    BY <1>3, <1>4, <1>6, Quiet DEF StepsWell

LEMMA CollectVerifyStep == ASSUME IInv, NEW t \in Collectors, CollectVerify(t) PROVE StepsWell(t)
<1>1. /\ t \in Txs /\ Locked(t, {Cash}) /\ dirty[Cash] = committed[Cash] /\ Free(t, B)
    BY TxKinds DEF IInv, Where, Collecting, CollectVerify
<1>2. CASE ~Collectable(t)
    BY <1>1, <1>2, RolledBack DEF CollectVerify
<1>3. CASE Collectable(t)
  <2> DEFINE w == [r \in {B, Cash} |-> IF r = B THEN "confirmed" ELSE "kept"]
  <2>1. /\ committed[Cash] = "initiated" /\ committed[B] = "confirmed"
        /\ \A p \in Payments : committed[p] # "kept"
      BY <1>3 DEF Collectable, IInv, Money
  <2>2. CommitWith(t, w)
      BY <1>3, <2>1 DEF CollectVerify, OtherKept
  <2>3. DOMAIN w = {B, Cash} /\ w[B] = "confirmed" /\ w[Cash] = "kept"
      BY RowKinds
  <2> HIDE DEF w
  <2>4. /\ Typed' /\ pc'[t] = "done" /\ (\A u \in Txs \ {t} : Untouched(u))
        /\ Locked(t, {})' /\ live' = live /\ inTime' = inTime
        /\ \A r \in Rows : committed'[r] = IF r \in DOMAIN w THEN w[r]
                                           ELSE IF owner[r] = t THEN dirty[r]
                                           ELSE committed[r]
      BY <1>1, <2>2, <2>3, CommitStep, RowKinds DEF IInv, BookingStatus, PaymentStatus
  <2>5. /\ committed'[B] = committed[B]
        /\ \A p \in Payments : committed'[p] = IF p = Cash THEN "kept" ELSE committed[p]
      BY <1>1, <2>1, <2>3, <2>4, RowKinds DEF Locked
  <2>6. Atomic!Collect
      BY <2>1, <2>4, <2>5, HourRows, RowKinds DEF Atomic!Collect
  <2> QED
      BY <1>1, <2>4, <2>6, CommittedWhere DEF StepsWell, HourStep, Atomic!Next
<1> QED
    BY <1>2, <1>3

(* BEGIN: the transactions that are in time, seen among the cash bookings. *)
LEMMA StartStep ==
    ASSUME IInv, NEW t \in CashBookers \cup Collectors, Start(t) PROVE StepsWell(t)
<1>1. t \in Txs /\ Where(t) /\ Locked(t, {})
    BY TxKinds DEF IInv, Where, Start
<1>2. pc' \in [Txs -> Label] /\ \A u \in Txs : pc'[u] = IF u = t THEN "begin" ELSE pc[u]
    BY DEF IInv, Typed, TypeOK, Start, Label
<1>3. /\ live' = live /\ committed' = committed /\ dirty' = dirty /\ owner' = owner
      /\ inTime' = IF live THEN inTime \cup {t} ELSE inTime
    BY DEF Start
<1>4. Typed'
    BY <1>1, <1>2, <1>3 DEF IInv, Typed, TypeOK, Held
<1>5. \A u \in Txs \ {t} : Untouched(u)
    BY <1>2, <1>3 DEF Untouched, OnlyDenied
<1>6. Where(t)'
    BY <1>1, <1>2, <1>3, TxKinds DEF Where, Settling, GivingUp, Collecting, Locked, Ended
<1>7. HourStep
  <2>1. CASE live /\ t \in CashBookers
    <3>1. (inTime \cap CashBookers)' = (inTime \cap CashBookers) \cup {t}
        BY <1>3, <2>1
    <3>2. Atomic!Start(t)
        BY <1>3, <2>1, <3>1 DEF Atomic!Start
    <3> QED
        BY <2>1, <3>2 DEF HourStep, Atomic!Next
  <2>2. CASE ~(live /\ t \in CashBookers)
    <3>1. (inTime \cap CashBookers)' = inTime \cap CashBookers
        BY <1>3, <2>2
    <3> QED
        BY <1>3, <3>1 DEF HourStep, Atomic!vars
  <2> QED
      BY <2>1, <2>2
<1> QED
    BY <1>4, <1>5, <1>6, <1>7 DEF StepsWell

(* A refusal touches no row but its payment's, and no other transaction.   *)
LEMMA SettleDeniedStep == ASSUME IInv, NEW t \in Deniers, SettleDenied(t) PROVE StepsWell(t)
<1> DEFINE p == PaymentOf[t]
<1>1. t \in Txs /\ p \in Online /\ p \in Rows /\ p # B /\ p \in Payments
    BY TxKinds, RowKinds
<1>2. Where(t) /\ Locked(t, {})
    BY <1>1 DEF IInv, Where, SettleDenied
<1>3. CASE committed[p] # "initiated"
    BY <1>1, <1>2, <1>3, WentOn DEF SettleDenied
<1>4. CASE committed[p] = "initiated"
  <2>1. CommitWith(t, [r \in {p} |-> "failed"])
      BY <1>4 DEF SettleDenied
  <2>2. \A r \in Rows : committed'[r] = IF r = p THEN "failed" ELSE committed[r]
      BY <1>2, <2>1 DEF CommitWith, Locked, Held
  <2>3. OnlyDenied
      BY <1>1, <1>4, <2>2 DEF OnlyDenied
  <2>4. /\ Typed' /\ pc'[t] = "done" /\ (\A u \in Txs \ {t} : Untouched(u))
        /\ Locked(t, {})' /\ live' = live /\ inTime' = inTime
      BY <1>1, <2>1, <2>3, CommitStep DEF IInv, PaymentStatus
  <2>5. Atomic!Deny(p)
      BY <1>1, <1>4, <2>2, <2>4, HourRows, RowKinds DEF Atomic!Deny
  <2> QED
      BY <1>1, <2>4, <2>5, CommittedWhere DEF StepsWell, HourStep, Atomic!Next
<1> QED
    BY <1>3, <1>4

LEMMA TxStep ==
    ASSUME IInv, NEW t \in Txs, Step(t) \/ DeadlockVictim(t)
    PROVE  StepsWell(t)
<1>1. CASE t \in Settlers /\ Settle(t)
    BY <1>1, SettleLockStep, SettleLockBookingStep, SettleDecideStep, SettleCloseCashStep,
       SettleVerifyStep DEF Settle
<1>2. CASE t \in Cancellers \cup Releasers /\ GiveUp(t)
    BY <1>2, GiveUpBeginStep, GiveUpBookingStep, GiveUpFailStep DEF GiveUp
<1>3. CASE t \in CashBookers /\ BookCash(t)
    BY <1>3, BookCashStep
<1>4. CASE t \in Collectors /\ Collect(t)
    BY <1>4, CollectLockStep, CollectVerifyStep DEF Collect
<1>5. CASE DeadlockVictim(t)
    BY <1>5, RolledBack DEF DeadlockVictim
<1>6. CASE t \in CashBookers \cup Collectors /\ Start(t)
    BY <1>6, StartStep
<1>7. CASE t \in Deniers /\ SettleDenied(t)
    BY <1>7, SettleDeniedStep
<1> QED
    BY <1>1, <1>2, <1>3, <1>4, <1>5, <1>6, <1>7 DEF Step

LEMMA StepIInv == IInv /\ [Next]_vars => IInv' /\ HourStep
<1> SUFFICES ASSUME IInv, [Next]_vars PROVE IInv' /\ HourStep
    OBVIOUS
<1>1. CASE UNCHANGED vars
  <2>1. Typed' /\ Money' /\ \A t \in Txs : Where(t)'
      BY <1>1 DEF IInv, vars, Typed, TypeOK, Held, Money, BookedHourHasItsPayment,
         CashRequestsEndWithTheHour, Where, Locked, Settling, OtherKept, GivingUp,
         StillMatches, Collecting
  <2> QED
      BY <1>1, <2>1, Quiet DEF IInv, vars
<1>2. CASE Lapse
  <2>1. Typed' /\ \A u \in Txs : Untouched(u)
      BY <1>2 DEF Lapse, IInv, Typed, TypeOK, Held, Untouched, OnlyDenied
  <2>2. Atomic!Lapse
      BY <1>2 DEF Lapse, Atomic!Lapse
  <2>3. HourStep
      BY <2>2 DEF HourStep, Atomic!Next
  <2>4. \A u \in Txs : Where(u)'
      BY <2>1, OthersStay DEF IInv
  <2> QED
      BY <2>1, <2>3, <2>4, MoneyStep DEF IInv
<1>3. ASSUME NEW t \in Txs, Step(t) \/ DeadlockVictim(t) PROVE IInv' /\ HourStep
  <2>1. StepsWell(t)
      BY <1>3, TxStep
  <2>2. ASSUME NEW u \in Txs PROVE Where(u)'
      BY <2>1, OthersStay DEF IInv, StepsWell
  <2> QED
      BY <2>1, <2>2, MoneyStep DEF IInv, StepsWell
<1> QED
    BY <1>1, <1>2, <1>3 DEF Next

-----------------------------------------------------------------------------
(* Every reachable state satisfies the inductive invariant: rows and locks  *)
(* are typed, each transaction holds what its label says, and nobody can    *)
(* commit under the lock of the booking.                                    *)
THEOREM LocksSuffice == Spec => []IInv
<1> QED
    BY InitIInv, StepIInv, PTL DEF Spec

(* Each transaction of the code takes effect at its commit as if nothing    *)
(* else ran, in whatever order Settle, Cancel, the releases, BookCash and   *)
(* MarkCashReceived take their locks.                                       *)
THEOREM TakesEffectAtOnce == Spec => ActsAtomically
<1>1. Init => Atomic!Init
  <2> SUFFICES ASSUME Init PROVE Atomic!Init
      OBVIOUS
  <2>1. PICK booked \in BOOLEAN :
          committed = [r \in Rows |->
              CASE r = B -> IF booked THEN "confirmed" ELSE "pending"
                [] r = Cash -> IF booked THEN "initiated" ELSE "none"
                [] OTHER -> "initiated"]
      BY Zenon DEF Init
  <2>2. /\ committed[B] = IF booked THEN "confirmed" ELSE "pending"
        /\ \A p \in Payments : committed[p] =
              IF p = Cash THEN IF booked THEN "initiated" ELSE "none" ELSE "initiated"
      BY <2>1, RowKinds
  <2>3. live \in BOOLEAN /\ inTime \cap CashBookers = {}
      BY DEF Init
  <2> QED
      BY <2>2, <2>3, HourRows DEF Atomic!Init
<1>2. IInv /\ [Next]_vars => [Atomic!Next]_(Atomic!vars)
    BY StepIInv DEF HourStep
<1> QED
    BY <1>1, <1>2, LocksSuffice, PTL DEF Spec, ActsAtomically, Atomic!Spec

(* The unique index on kept payments is never what refuses a settlement or  *)
(* a collection: the check under the booking's lock comes first.            *)
THEOREM ChecksComeFirst == Spec => []IndexNeverRefuses
<1>1. IInv => IndexNeverRefuses
    BY DEF IInv, Where, IndexNeverRefuses
<1> QED
    BY <1>1, LocksSuffice, PTL

(* No cash request stays open on an hour that was given up, whoever gave it *)
(* up and whatever was being settled or collected meanwhile.                *)
THEOREM RequestsEndWithTheHour == Spec => []CashRequestsEndWithTheHour
<1>1. IInv => CashRequestsEndWithTheHour
    BY DEF IInv, Money
<1> QED
    BY <1>1, LocksSuffice, PTL

(* A booked hour has a kept payment or an open cash request at every commit. *)
THEOREM BookedIsPaidOrOwed == Spec => []BookedHourHasItsPayment
<1>1. IInv => BookedHourHasItsPayment
    BY DEF IInv, Money
<1> QED
    BY <1>1, LocksSuffice, PTL

(* Where settlements, refusals, cash bookings and rebookings hold and wait: *)
(* only a settlement does, for the booking or, with the booking, for the    *)
(* cash request.                                                            *)
LEMMA HoldAndWait ==
    ASSUME IInv, NEW t \in Settlers \cup Deniers \cup CashBookers \cup Rebookers,
           Blocked(t), NEW r \in Rows, owner[r] = t
    PROVE  \/ Wants(t) = {B} /\ r \in Online
           \/ Wants(t) = {Cash} /\ owner[B] = t /\ owner[Cash] # t
<1>1. t \in Txs /\ Where(t)
    BY TxKinds DEF IInv, Releasers
<1>2. pc[t] \notin {"start", "begin"} \cup Ended
    BY <1>1 DEF Where, Locked
<1>3. t \in Settlers
  <2>1. t \notin Deniers \cup CashBookers
      BY <1>1, <1>2 DEF Where
  <2>2. ASSUME t \in Rebookers PROVE FALSE
    <3>1. GivingUp(t)
        BY <1>1, <2>2 DEF Where, Releasers
    <3> QED
        BY <1>2, <2>2, <3>1 DEF GivingUp, Locked
  <2> QED
      BY <2>1, <2>2
<1>4. Settling(t) /\ PaymentOf[t] \in Online
    BY <1>1, <1>3, TxKinds DEF Where
<1>5. pc[t] \in {"booking", "closecash"}
    BY <1>2, <1>4 DEF Settling, Blocked, Wants
<1>6. CASE pc[t] = "booking"
    BY <1>4, <1>6 DEF Settling, Locked, Wants
<1>7. CASE pc[t] = "closecash"
  <2>1. Wants(t) = ToClose(t) /\ ToClose(t) # {}
      BY <1>7 DEF Wants, Blocked
  <2>2. ToClose(t) = {Cash} /\ owner[Cash] # t
      BY <2>1 DEF ToClose
  <2>3. owner[B] = t
      BY <1>4, <1>7, RowKinds DEF Settling, Locked
  <2> QED
      BY <2>1, <2>2, <2>3
<1> QED
    BY <1>5, <1>6, <1>7

(* Settlements, refusals, cash bookings and rebookings take their locks in  *)
(* one order: however many of them meet on a booking, no ring of waits is   *)
(* made of them alone, and none is failed as a deadlock's victim for it.    *)
THEOREM PaymentsTakeTurns == Spec => []PaymentsNeverDeadlockAlone
<1> DEFINE ordered == Settlers \cup Deniers \cup CashBookers \cup Rebookers
<1>1. ASSUME IInv, NEW S \in SUBSET {t \in ordered : Blocked(t)}, NEW s \in S, Deadlocked(S)
      PROVE  FALSE
  <2>1. ASSUME NEW t \in S PROVE Wants(t) = {Cash} /\ owner[B] = t /\ owner[Cash] # t
    <3>1. t \in ordered /\ Blocked(t)
        OBVIOUS
    <3>2. PICK u \in S : Blocked(u) /\ \E r \in Wants(u) : owner[r] = t
        BY <1>1 DEF Deadlocked, WaitsFor
    <3>3. PICK r \in Wants(u) : owner[r] = t
        BY <3>2
    <3>4. u \in ordered /\ \E w \in S : WaitsFor(w, u)
        BY <1>1 DEF Deadlocked
    <3>5. PICK w \in S : \E q \in Wants(w) : owner[q] = u
        BY <3>4 DEF WaitsFor
    <3>6. ASSUME NEW v \in ordered PROVE Wants(v) \subseteq Rows
      <4>1. v \in Settlers \cup Deniers => PaymentOf[v] \in Rows
          BY TxKinds, RowKinds
      <4> QED
          BY <4>1, RowKinds DEF Wants, ToClose, ToFail
    <3>7. PICK q \in Rows : owner[q] = u
        BY <3>5, <3>6
    <3>8. Wants(u) \in {{B}, {Cash}}
        BY <1>1, <3>2, <3>4, <3>7, HoldAndWait
    <3>9. r \in {B, Cash}
        BY <3>3, <3>8
    <3> QED
        BY <1>1, <3>1, <3>3, <3>9, HoldAndWait, RowKinds
  <2>2. PICK u \in S : \E r \in Wants(s) : owner[r] = u
      BY <1>1 DEF Deadlocked, WaitsFor
  <2>3. owner[Cash] = u /\ owner[B] = u /\ owner[Cash] # s /\ owner[B] = s
      BY <2>1, <2>2
  <2> QED
      BY <2>3
<1>2. IInv => PaymentsNeverDeadlockAlone
    BY <1>1 DEF PaymentsNeverDeadlockAlone
<1> QED
    BY <1>2, LocksSuffice, PTL
=============================================================================
