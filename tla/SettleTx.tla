------------------------------ MODULE SettleTx ------------------------------
(***************************************************************************)
(* One booking and its payments, one SQL statement per action.             *)
(*                                                                         *)
(* The transactions that touch a booking and its payments take their row   *)
(* locks in different orders, and run at READ COMMITTED: each statement    *)
(* sees what was committed when it began, waits for the rows it locks, and *)
(* looks again at the row it waited for -- but at no other table.  The     *)
(* module follows each transaction from lock to lock; statements that only *)
(* touch rows the transaction already holds are one action.                *)
(***************************************************************************)
EXTENDS Naturals, FiniteSets

CONSTANTS
    Online,       \* gateway payments started on the booking
    Cash,         \* the cash payment BookCash records
    Settlers,     \* callbacks being settled, each having seen the money move
    Deniers,      \* callbacks being settled, each told that no money moved
    PaymentOf,    \* the payment each of the two is about
    Cancellers,   \* Cancel calls of the player
    Sweepers,     \* ReleaseStaleHolds of the janitor
    Rebookers,    \* step 2 of another player's CreateHold
    CashBookers,  \* BookCash calls of the player
    Collectors,   \* MarkCashReceived calls of the venue
    B,            \* the booking row
    NoTx

Payments == Online \cup {Cash}
Rows == Payments \cup {B}
Releasers == Sweepers \cup Rebookers
Txs == Settlers \cup Deniers \cup Cancellers \cup Releasers \cup CashBookers
           \cup Collectors

ASSUME RowsAssumption == /\ Cash \notin Online /\ B \notin Payments
                         /\ PaymentOf \in [Settlers \cup Deniers -> Online]
                         /\ NoTx \notin Txs

(* A transaction is of one kind. *)
ASSUME KindsAssumption ==
    /\ Settlers \cap (Deniers \cup Cancellers \cup Releasers \cup CashBookers \cup Collectors) = {}
    /\ Deniers \cap (Cancellers \cup Releasers \cup CashBookers \cup Collectors) = {}
    /\ Cancellers \cap (Releasers \cup CashBookers \cup Collectors) = {}
    /\ Sweepers \cap Rebookers = {}
    /\ Releasers \cap (CashBookers \cup Collectors) = {}
    /\ CashBookers \cap Collectors = {}

VARIABLES
    live,       \* the hold has not expired
    inTime,     \* the transactions that began before it did
    committed,  \* the committed version of every row
    dirty,      \* the version the row's lock holder sees
    owner,      \* who holds each row's lock
    pc          \* where each transaction is

vars == <<live, inTime, committed, dirty, owner, pc>>

BookingStatus == {"pending", "confirmed", "cancelled"}
PaymentStatus == {"none", "initiated", "failed", "kept", "owed"}
Label == {"start", "begin", "booking", "decide", "closecash", "verify", "fail",
          "done", "index", "victim"}

(* `kept` is verified without, and `owed` verified with, a refund due. *)
Verified == {"kept", "owed"}

(* An unpaid hold, or an hour booked to be paid in cash; either way the    *)
(* player also has online payments under way.                              *)
Init ==
    /\ live \in BOOLEAN
    /\ \E booked \in BOOLEAN :
          committed = [r \in Rows |->
              CASE r = B -> IF booked THEN "confirmed" ELSE "pending"
                [] r = Cash -> IF booked THEN "initiated" ELSE "none"
                [] OTHER -> "initiated"]
    /\ dirty = committed
    /\ owner = [r \in Rows |-> NoTx]
    /\ inTime = {}
    /\ pc = [t \in Txs |-> IF t \in CashBookers \cup Collectors THEN "start" ELSE "begin"]

-----------------------------------------------------------------------------
(* Locks, commit and rollback. *)

Free(t, r) == owner[r] \in {NoTx, t}
Held(t) == {r \in Rows : owner[r] = t}

(* Lock r and write v to it, in one statement, and go on to label next. *)
LockAndWrite(t, r, v, next) ==
    /\ Free(t, r)
    /\ owner' = [owner EXCEPT ![r] = t]
    /\ dirty' = [dirty EXCEPT ![r] = v]
    /\ pc' = [pc EXCEPT ![t] = next]
    /\ UNCHANGED <<live, inTime, committed>>
Lock(t, r, next) == LockAndWrite(t, r, committed[r], next)

Goto(t, next) ==
    /\ pc' = [pc EXCEPT ![t] = next]
    /\ UNCHANGED <<live, inTime, committed, dirty, owner>>

(* Commit with a last write to the rows in DOMAIN w; all must be held or free. *)
CommitWith(t, w) ==
    /\ \A r \in DOMAIN w : Free(t, r)
    /\ committed' = [r \in Rows |-> IF r \in DOMAIN w THEN w[r]
                                    ELSE IF r \in Held(t) THEN dirty[r]
                                    ELSE committed[r]]
    /\ dirty' = [r \in Rows |-> IF r \in DOMAIN w THEN w[r] ELSE dirty[r]]
    /\ owner' = [r \in Rows |-> IF r \in Held(t) THEN NoTx ELSE owner[r]]
    /\ pc' = [pc EXCEPT ![t] = "done"]
    /\ UNCHANGED <<live, inTime>>

RollBack(t, end) ==
    /\ dirty' = [r \in Rows |-> IF r \in Held(t) THEN committed[r] ELSE dirty[r]]
    /\ owner' = [r \in Rows |-> IF r \in Held(t) THEN NoTx ELSE owner[r]]
    /\ pc' = [pc EXCEPT ![t] = end]
    /\ UNCHANGED <<live, inTime, committed>>

Lapse == /\ live
         /\ live' = FALSE
         /\ UNCHANGED <<inTime, committed, dirty, owner, pc>>

(* BEGIN of a transaction that asks whether the hold is live: now() is the *)
(* instant at which it began, however long it then waits for its rows.     *)
Start(t) == /\ pc[t] = "start"
            /\ inTime' = IF live THEN inTime \cup {t} ELSE inTime
            /\ pc' = [pc EXCEPT ![t] = "begin"]
            /\ UNCHANGED <<live, committed, dirty, owner>>

-----------------------------------------------------------------------------
(* PaymentRepo.Settle.  A definition named Bug... is a later one with a    *)
(* plausible fault in it.  Nothing uses them: they record what each        *)
(* property is able to catch.                                              *)

OtherKept(p) == \E q \in Payments \ {p} : committed[q] = "kept"

SettleLock(t) ==
    LET p == PaymentOf[t] IN
        /\ pc[t] = "begin"
        /\ IF committed[p] \in Verified
           THEN Free(t, p) /\ Goto(t, "done")
           ELSE Lock(t, p, "booking")

SettleLockBooking(t) == pc[t] = "booking" /\ Lock(t, B, "decide")

BugSettleDecide(t) ==
    LET p == PaymentOf[t] IN
        /\ pc[t] = "decide"
        /\ \/ /\ committed[B] = "cancelled"
              /\ CommitWith(t, [r \in {p} |-> "owed"])
           \/ /\ committed[B] = "pending"
              /\ LockAndWrite(t, B, "confirmed", "verify")
           \/ /\ committed[B] = "confirmed"
              /\ Goto(t, "closecash")

(* applyToBooking once it holds the booking: already paid or given up, the *)
(* money is owed back; a hold is confirmed; a booked hour's cash debt goes.*)
SettleDecide(t) ==
    LET p == PaymentOf[t] IN
        /\ pc[t] = "decide"
        /\ \/ /\ OtherKept(p) \/ committed[B] = "cancelled"
              /\ CommitWith(t, [r \in {p} |-> "owed"])
           \/ /\ ~OtherKept(p) /\ committed[B] = "pending"
              /\ LockAndWrite(t, B, "confirmed", "verify")
           \/ /\ ~OtherKept(p) /\ committed[B] = "confirmed"
              /\ Goto(t, "closecash")

BugToClose(t) == {p \in Payments : committed[p] = "initiated" /\ owner[p] # t}

(* The rows closeCashSQL has yet to lock. *)
ToClose(t) == {p \in {Cash} : committed[p] = "initiated" /\ owner[p] # t}

SettleCloseCash(t) ==
    /\ pc[t] = "closecash"
    /\ \/ \E p \in ToClose(t) : LockAndWrite(t, p, "failed", "closecash")
       \/ ToClose(t) = {} /\ Goto(t, "verify")

(* The unique index refuses a second kept payment: the whole is undone. *)
SettleVerify(t) ==
    /\ pc[t] = "verify"
    /\ IF OtherKept(PaymentOf[t]) THEN RollBack(t, "index")
       ELSE CommitWith(t, [r \in {PaymentOf[t]} |-> "kept"])

Settle(t) == \/ SettleLock(t) \/ SettleLockBooking(t) \/ SettleDecide(t)
             \/ SettleCloseCash(t) \/ SettleVerify(t)

(* The answer that no money moved: the first one is recorded, and one that *)
(* comes after another answer, good or bad, changes nothing.               *)
SettleDenied(t) ==
    LET p == PaymentOf[t] IN
        /\ pc[t] = "begin"
        /\ Free(t, p)
        /\ IF committed[p] = "initiated" THEN CommitWith(t, [r \in {p} |-> "failed"])
           ELSE Goto(t, "done")

-----------------------------------------------------------------------------
(* Cancel, ReleaseStaleHolds and CreateHold's release: one UPDATE whose    *)
(* `not exists (... payments ...)` is answered from the snapshot the       *)
(* statement began with, then the wait for the booking row, whose own      *)
(* status is looked at again; then the payments left initiated.            *)

(* Cancel is refused only by a verified online payment. *)
CancelMayBegin == /\ committed[B] \in {"pending", "confirmed"}
                  /\ \A p \in Online : committed[p] \notin Verified

ReleaseMayBegin == /\ committed[B] = "pending" /\ ~live
                   /\ \A p \in Payments : committed[p] \notin Verified

GiveUpBegin(t) ==
    /\ pc[t] = "begin"
    /\ t \in Cancellers => CancelMayBegin
    /\ t \in Releasers => ReleaseMayBegin
    /\ Goto(t, "booking")

BugStillMatches(t) == committed[B] # "cancelled"

(* Looked at again once the row is free. *)
StillMatches(t) == \/ committed[B] = "pending"
                   \/ committed[B] = "confirmed" /\ t \in Cancellers

GiveUpBooking(t) ==
    /\ pc[t] = "booking"
    /\ Free(t, B)
    /\ IF ~StillMatches(t) THEN Goto(t, "done")
       ELSE IF t \in Rebookers THEN CommitWith(t, [r \in {B} |-> "cancelled"])
       ELSE LockAndWrite(t, B, "cancelled", "fail")

ToFail(t) == {p \in Payments : committed[p] = "initiated" /\ owner[p] # t}

GiveUpFail(t) ==
    /\ pc[t] = "fail"
    /\ \/ \E p \in ToFail(t) : LockAndWrite(t, p, "failed", "fail")
       \/ ToFail(t) = {} /\ CommitWith(t, [r \in {B} |-> "cancelled"])

GiveUp(t) == GiveUpBegin(t) \/ GiveUpBooking(t) \/ GiveUpFail(t)

-----------------------------------------------------------------------------
(* BookCash: the booking row is the only lock it waits for. *)
BookCash(t) ==
    /\ pc[t] = "begin"
    /\ Free(t, B)
    /\ IF committed[B] = "pending" /\ t \in inTime
       THEN CommitWith(t, [r \in {B, Cash} |->
                              IF r = B THEN "confirmed" ELSE "initiated"])
       ELSE Goto(t, "done")

(* MarkCashReceived: `for update of p, b`, then the rest. *)
CollectLock(t) ==
    /\ pc[t] = "begin"
    /\ committed[Cash] # "none"
    /\ Lock(t, Cash, "booking")

Collectable(t) == /\ committed[Cash] = "initiated"
                  /\ \/ committed[B] = "confirmed"
                     \/ committed[B] = "pending" /\ t \in inTime

CollectVerify(t) ==
    /\ pc[t] = "booking"
    /\ Free(t, B)
    /\ \/ ~Collectable(t) /\ RollBack(t, "done")
       \/ Collectable(t) /\ OtherKept(Cash) /\ RollBack(t, "index")
       \/ /\ Collectable(t) /\ ~OtherKept(Cash)
          /\ CommitWith(t, [r \in {B, Cash} |->
                               IF r = B THEN "confirmed" ELSE "kept"])

Collect(t) == CollectLock(t) \/ CollectVerify(t)

-----------------------------------------------------------------------------
(* External: Postgres ends a deadlock by failing one transaction in it.    *)
(* Nothing in src/ retries one (IsRetryable has no caller).                *)

Wants(t) ==
    CASE pc[t] = "begin" /\ t \in Settlers \cup Deniers -> {PaymentOf[t]}
      [] pc[t] = "begin" /\ t \in Collectors -> {Cash}
      [] pc[t] = "begin" /\ t \in CashBookers -> {B}
      [] pc[t] = "booking" -> {B}
      [] pc[t] = "closecash" -> ToClose(t)
      [] pc[t] = "fail" -> ToFail(t)
      [] OTHER -> {}

Blocked(t) == Wants(t) # {} /\ \A r \in Wants(t) : ~Free(t, r)
WaitsFor(t, u) == Blocked(t) /\ \E r \in Wants(t) : owner[r] = u

(* A ring: each waits for one of them, each is waited for by one of them. *)
Deadlocked(S) == \A t \in S : /\ \E u \in S : WaitsFor(t, u)
                             /\ \E u \in S : WaitsFor(u, t)

DeadlockVictim(t) ==
    /\ Blocked(t)
    /\ \E S \in SUBSET {u \in Txs : Held(u) # {} /\ Blocked(u)} :
          t \in S /\ Deadlocked(S)
    /\ RollBack(t, "victim")

-----------------------------------------------------------------------------
Step(t) ==
    \/ t \in CashBookers \cup Collectors /\ Start(t)
    \/ t \in Settlers /\ Settle(t)
    \/ t \in Deniers /\ SettleDenied(t)
    \/ t \in Cancellers \cup Releasers /\ GiveUp(t)
    \/ t \in CashBookers /\ BookCash(t)
    \/ t \in Collectors /\ Collect(t)

Next == Lapse \/ \E t \in Txs : Step(t) \/ DeadlockVictim(t)

Spec == Init /\ [][Next]_vars

-----------------------------------------------------------------------------
(* Rows and locks have their types, only a lock's holder has changed a row,*)
(* and a transaction that ended holds nothing.                             *)
TypeOK ==
    /\ live \in BOOLEAN /\ inTime \subseteq Txs
    /\ committed[B] \in BookingStatus /\ dirty[B] \in BookingStatus
    /\ \A p \in Payments : {committed[p], dirty[p]} \subseteq PaymentStatus
    /\ owner \in [Rows -> Txs \cup {NoTx}]
    /\ pc \in [Txs -> Label]
    /\ \A r \in Rows : owner[r] = NoTx => dirty[r] = committed[r]
    /\ \A t \in Txs : pc[t] \in {"done", "index", "victim"} => Held(t) = {}

(* Each transaction takes effect at its commit as if nothing else ran: the *)
(* locks of Settle, BookCash, MarkCashReceived and both releases suffice.  *)
Atomic == INSTANCE Hour WITH
    inTime <- inTime \cap CashBookers,
    booking <- committed[B], payment <- [p \in Payments |-> committed[p]]
ActsAtomically == Atomic!Spec

(* The unique index on kept payments is never what refuses a payment:      *)
(* applyToBooking's own check, under the booking's lock, comes first.      *)
IndexNeverRefuses == \A t \in Txs : pc[t] # "index"

(* Settlements, early answers, cash bookings and rebookings take their     *)
(* locks in one order, and never wait for one another in a ring: a         *)
(* deadlock, whose victim nothing runs again, takes a cancellation, the    *)
(* sweep or a collection, which come at the rows from the other end.       *)
PaymentsNeverDeadlockAlone ==
    LET ordered == Settlers \cup Deniers \cup CashBookers \cup Rebookers IN
        \A S \in SUBSET {t \in ordered : Blocked(t)} : S # {} => ~Deadlocked(S)

(* A booked hour has a kept payment or a cash debt on file at every commit.*)
BookedHourHasItsPayment ==
    committed[B] = "confirmed" =>
        committed[Cash] = "initiated" \/ \E p \in Payments : committed[p] = "kept"

(* Giving up an hour, whoever does it, leaves no cash request waiting on   *)
(* it: the venue is never asked to collect for a game that is off.         *)
CashRequestsEndWithTheHour ==
    committed[B] = "cancelled" => committed[Cash] # "initiated"

(* A booking paid online is refused by Cancel, with no window for it to    *)
(* change in between.  (Said of Cancel; its snapshot is that window.)      *)
PaidOnlineIsNotCancelled ==
    committed[B] = "cancelled" => \A p \in Online : committed[p] # "kept"

=============================================================================
