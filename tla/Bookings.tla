------------------------------ MODULE Bookings ------------------------------
(***************************************************************************)
(* Bookings, payments and the booking ban of khel-arena, at the grain of   *)
(* one database transaction per action.                                    *)
(*                                                                         *)
(* A service method that reads, decides and then writes in a separate      *)
(* transaction is two actions: Begin... does the read and the decision and *)
(* leaves a record in `requests', and a later action runs the write on     *)
(* what was read, however stale it has become.  A request that is never    *)
(* taken up again is a client that went away or a server that crashed      *)
(* between the two.  Cancel and RestorePenalty are two actions as well,    *)
(* for they write what they computed from a snapshot that other commits    *)
(* may have overtaken.  Operations that are one transaction and decide on  *)
(* rows they have locked (the venue's other buttons, the janitor's sweeps) *)
(* are one action; that their locks suffice is the subject of SettleTx and *)
(* HoldTx.                                                                 *)
(***************************************************************************)
EXTENDS Integers, FiniteSets

CONSTANTS
    Bookings,          \* ids the bookings table may hand out
    Payments,          \* ids the payments table may hand out
    Users,             \* players
    Courts,
    Slots,             \* the slots players ask for: [start, end) in ticks
    HoldWindow,        \* config: how long an unpaid hold blocks its slot
    PastSlotGrace,     \* domain.PastSlotGrace, in ticks
    LateCancelWindow,  \* domain.LateCancelWindow, in ticks
    MonthAfter,        \* domain.BookingBanLength: a calendar month after a tick
    RequestTimeout,    \* api: how many ticks a request may run (withTimeout)
    InitialStandings,  \* users rows the players may start from
    Legacy,            \* cash requests still waiting from before BookCash
    None,              \* SQL null for a reference
    MaxNow,            \* bound: the clock stops here
    MaxInFlight        \* bound: requests between their read and their write

VARIABLES
    now,        \* the clock (application's and database's alike)
    bookings,   \* table bookings
    payments,   \* table payments
    users,      \* users.user_score and users.booking_banned_until
    posts,      \* matchmaking_posts.status of the post on a booking
    gateway,    \* external: has the player paid this transaction in full
    requests    \* calls between their read and their write

vars == <<now, bookings, payments, users, posts, gateway, requests>>

-----------------------------------------------------------------------------
(* Types.  Null is SQL null for an instant.                                *)

Null == -1
Time == Nat
TimeOrNull == Time \cup {Null}

UserScoreStart    == 100
LateCancelPenalty == 20
BookingBanFloor   == 10
UserScoreAfterBan == 50

BookingStatus == {"none", "pending", "confirmed", "completed", "cancelled"}
PaymentStatus == {"none", "initiated", "verified", "failed"}
Provider      == {"online", "cash"}

Booking == [status: BookingStatus, user: Users \cup {None},
            court: Courts \cup {None}, slot: Slots \cup {None},
            holdExpires: TimeOrNull, penalty: {0, LateCancelPenalty},
            restored: BOOLEAN]
Payment == [status: PaymentStatus, booking: Bookings \cup {None},
            provider: Provider, refundDue: BOOLEAN, refunded: BOOLEAN]
User    == [score: 0..UserScoreStart, banUntil: TimeOrNull]
Post    == {"none", "open", "cancelled"}

HoldRequest   == [kind: {"hold"}, user: Users, court: Courts, slot: Slots,
                  expires: Time]
IntentRequest == [kind: {"intent", "cash"}, booking: Bookings]
SettleRequest == [kind: {"settle"}, payment: Payments, verified: BOOLEAN]
PostRequest   == [kind: {"post"}, booking: Bookings]
StandingRequest == [kind: {"cancel", "restore"}, booking: Bookings,
                    at: 0..MaxNow, standing: User]
Request == HoldRequest \cup IntentRequest \cup SettleRequest \cup PostRequest
           \cup StandingRequest

LegacyRequest == [booking: Bookings, payment: Payments, user: Users,
                  court: Courts, slot: Slots]

ASSUME SlotsAssumption ==
    Slots \subseteq {s \in [start: Nat, end: Nat] : s.start < s.end}
ASSUME WindowsAssumption ==
    /\ HoldWindow \in Nat \ {0}
    /\ PastSlotGrace \in Nat
    /\ LateCancelWindow \in Nat
    /\ RequestTimeout \in Nat
(* Months differ in length: a month from the later of two instants may end *)
(* first.                                                                  *)
ASSUME MonthAssumption ==
    /\ MonthAfter \in [0..MaxNow -> Nat]
    /\ \A t \in 0..MaxNow : MonthAfter[t] > t + RequestTimeout
ASSUME StandingsAssumption ==
    InitialStandings \subseteq
        {u \in [score: 0..UserScoreStart, banUntil: {Null} \cup (0..MaxNow)] :
            u.banUntil # Null <=> u.score <= BookingBanFloor}
ASSUME LegacyAssumption ==
    /\ Legacy \subseteq LegacyRequest
    /\ \A l, m \in Legacy :
          (l.booking = m.booking \/ l.payment = m.payment \/ l.court = m.court)
              => l = m
ASSUME NoneAssumption ==
    None \notin Bookings \cup Users \cup Courts \cup Slots
ASSUME BoundsAssumption ==
    MaxNow \in Nat /\ MaxInFlight \in Nat

-----------------------------------------------------------------------------
(* Rows as they are inserted, and the predicates of the schema.            *)
(*                                                                         *)
(* Here and below a definition named Bug... is the definition that follows *)
(* it with a plausible fault in it.  Nothing uses them: they record what   *)
(* each property is able to catch.                                         *)

NoBooking == [status |-> "none", user |-> None, court |-> None,
              slot |-> None, holdExpires |-> Null, penalty |-> 0,
              restored |-> FALSE]
NewHold(u, c, s, expires) ==
    [NoBooking EXCEPT !.status = "pending", !.user = u, !.court = c,
                      !.slot = s, !.holdExpires = expires]

NoPayment == [status |-> "none", booking |-> None, provider |-> "online",
              refundDue |-> FALSE, refunded |-> FALSE]
NewPaymentIntent(b, provider) ==
    [NoPayment EXCEPT !.status = "initiated", !.booking = b,
                      !.provider = provider]

BugOverlaps(s, t) == s.start <= t.start /\ t.start < s.end

Overlaps(s, t) == s.start < t.end /\ t.start < s.end

(* The rows the EXCLUDE constraint no_double_booking ranges over. *)
Occupies(b) == bookings[b].status \in {"pending", "confirmed", "completed"}

(* booking_blocks_slot: an expired hold stops blocking. *)
Blocks(b) ==
    \/ bookings[b].status \in {"confirmed", "completed"}
    \/ bookings[b].status = "pending" /\ bookings[b].holdExpires > now

OnSlot(b, c, s) ==
    /\ bookings[b].status # "none"
    /\ bookings[b].court = c
    /\ Overlaps(bookings[b].slot, s)

PaymentsOf(b) == {p \in Payments : payments[p].booking = b}
BugHasVerified(b) == \E p \in PaymentsOf(b) : payments[p].status # "failed"

HasVerified(b) == \E p \in PaymentsOf(b) : payments[p].status = "verified"

PaidOnline(b) == \E p \in PaymentsOf(b) :
    payments[p].status = "verified" /\ payments[p].provider = "online"
BugCashWaiting(b) == {p \in PaymentsOf(b) :
    payments[p].status = "failed" /\ payments[p].provider = "cash"}

CashWaiting(b) == {p \in PaymentsOf(b) :
    payments[p].status = "initiated" /\ payments[p].provider = "cash"}

(* A payment the booking keeps: verified and not flagged for a refund. *)
Kept(p) == payments[p].status = "verified" /\ ~payments[p].refundDue
BugAlreadyPaid(p) == FALSE

AlreadyPaid(p) == \E q \in PaymentsOf(payments[p].booking) \ {p} : Kept(q)

(* The unique index payments_one_verified_per_booking, should p be kept:   *)
(* a write it refuses is rolled back whole.                                *)
IndexAllows(p) == \A q \in PaymentsOf(payments[p].booking) \ {p} : ~Kept(q)

BugHoldExpired(b) == bookings[b].status = "pending" /\ bookings[b].holdExpires < now

HoldExpired(b) == bookings[b].status = "pending" /\ bookings[b].holdExpires <= now

BugEffectiveUserScore(user, t) ==
    IF user.banUntil # Null THEN UserScoreAfterBan ELSE user.score

(* Standing as every query reads it off a users row at time t: an expired  *)
(* ban is lifted, and the score is then 50.                                *)
EffectiveUserScore(user, t) ==
    IF user.banUntil # Null /\ user.banUntil <= t
    THEN UserScoreAfterBan ELSE user.score
ActiveBookingBan(user, t) == IF user.banUntil > t THEN user.banUntil ELSE Null
Banned(u) == users[u].banUntil > now

-----------------------------------------------------------------------------
(* Effects shared by several operations. *)

Release(B) ==
    [b \in Bookings |-> IF b \in B
        THEN [bookings[b] EXCEPT !.status = "cancelled", !.holdExpires = Null]
        ELSE bookings[b]]
Confirmed(b) ==
    [bookings EXCEPT ![b].status = "confirmed", ![b].holdExpires = Null]
BugFailInitiated(B) ==
    [p \in Payments |->
        IF payments[p].booking \in B /\ payments[p].provider = "online"
                                     /\ payments[p].status = "initiated"
        THEN [payments[p] EXCEPT !.status = "failed"] ELSE payments[p]]
BugFailAll(B) ==
    [p \in Payments |-> IF payments[p].booking \in B
        THEN [payments[p] EXCEPT !.status = "failed"] ELSE payments[p]]

FailInitiated(B) ==
    [p \in Payments |->
        IF payments[p].booking \in B /\ payments[p].status = "initiated"
        THEN [payments[p] EXCEPT !.status = "failed"] ELSE payments[p]]
ClosePosts(B) ==
    [b \in Bookings |-> IF b \in B /\ posts[b] # "none" THEN "cancelled"
                        ELSE posts[b]]

InFlight(kinds) == {r \in requests : r.kind \in kinds}

Submit(r) == /\ Cardinality(requests) < MaxInFlight
             /\ requests' = requests \cup {r}
Done(r) == requests' = requests \ {r}

(* Bounds: every row a request in flight may insert has an id set aside.   *)
BookingsLeft == Cardinality({b \in Bookings : bookings[b].status = "none"})
                    > Cardinality(InFlight({"hold"}))
PaymentsLeft == Cardinality({p \in Payments : payments[p].status = "none"})
                    > Cardinality(InFlight({"intent", "cash"}))

Init ==
    /\ now = 0
    /\ bookings = [b \in Bookings |->
          IF \E l \in Legacy : l.booking = b
          THEN LET l == CHOOSE l \in Legacy : l.booking = b
               IN  NewHold(l.user, l.court, l.slot, l.slot.start)
          ELSE NoBooking]
    /\ payments = [p \in Payments |->
          IF \E l \in Legacy : l.payment = p
          THEN LET l == CHOOSE l \in Legacy : l.payment = p
               IN  NewPaymentIntent(l.booking, "cash")
          ELSE NoPayment]
    /\ users \in [Users -> InitialStandings]
    /\ posts = [b \in Bookings |-> "none"]
    /\ gateway = [p \in Payments |-> FALSE]
    /\ requests = {}

(* withTimeout: a transaction that has run for too long is cut off, and    *)
(* InTx rolls it back.                                                     *)
TimedOut == {r \in InFlight({"cancel", "restore"}) : r.at + RequestTimeout <= now}

Tick == /\ now < MaxNow
        /\ now' = now + 1
        /\ requests' = requests \ TimedOut
        /\ UNCHANGED <<bookings, payments, users, posts, gateway>>

-----------------------------------------------------------------------------
(* Taking a hold. *)

(* BookingService.Create up to the repository call: the slot has not       *)
(* started, give or take the grace, and the player is not banned.          *)
BeginCreate(u, c, s) ==
    /\ s.start + PastSlotGrace >= now
    /\ ~Banned(u)
    /\ BookingsLeft
    /\ Submit([kind |-> "hold", user |-> u, court |-> c, slot |-> s,
               expires |-> now + HoldWindow])
    /\ UNCHANGED <<now, bookings, payments, users, posts, gateway>>

(* Step 2 of CreateHold: the expired, unpaid holds in the way. *)
Releasable(r) == {b \in Bookings :
    /\ OnSlot(b, r.court, r.slot)
    /\ HoldExpired(b)
    /\ ~HasVerified(b)}

(* Step 3, the pre-check, and step 4, the constraint, both after step 2. *)
SlotTaken(r) == \E b \in Bookings \ Releasable(r) :
    OnSlot(b, r.court, r.slot) /\ Blocks(b)
SlotExcluded(r) == \E b \in Bookings \ Releasable(r) :
    OnSlot(b, r.court, r.slot) /\ Occupies(b)

CreateHold(r, b) ==
    /\ r.kind = "hold"
    /\ ~SlotTaken(r) /\ ~SlotExcluded(r)
    /\ bookings[b].status = "none"
    /\ bookings' = [Release(Releasable(r)) EXCEPT
                      ![b] = NewHold(r.user, r.court, r.slot, r.expires)]
    /\ Done(r)
    /\ UNCHANGED <<now, payments, users, posts, gateway>>

(* Conflict: the transaction rolls back, what step 2 released with it. *)
RefuseHold(r) ==
    /\ r.kind = "hold"
    /\ SlotTaken(r) \/ SlotExcluded(r)
    /\ Done(r)
    /\ UNCHANGED <<now, bookings, payments, users, posts, gateway>>

-----------------------------------------------------------------------------
(* Paying. *)

(* PaymentService.Checkout reads the booking and builds the intent. *)
BeginCheckout(b, kind) ==
    /\ bookings[b].status \in {"pending", "confirmed"}
    /\ PaymentsLeft
    /\ Submit([kind |-> kind, booking |-> b])
    /\ UNCHANGED <<now, bookings, payments, users, posts, gateway>>

(* PaymentRepo.Create: one insert, whatever the booking is by now. *)
CreateIntent(r, p) ==
    /\ r.kind = "intent"
    /\ payments[p].status = "none"
    /\ payments' = [payments EXCEPT ![p] = NewPaymentIntent(r.booking, "online")]
    /\ Done(r)
    /\ UNCHANGED <<now, bookings, users, posts, gateway>>

BugLiveHold(b) == bookings[b].status = "pending"

(* PaymentRepo.BookCash: confirm the hour and record the debt together. *)
LiveHold(b) == bookings[b].status = "pending" /\ bookings[b].holdExpires > now

BookCash(r) ==
    /\ r.kind = "cash"
    /\ LiveHold(r.booking)
    /\ IF CashWaiting(r.booking) # {} THEN UNCHANGED payments
       ELSE \E p \in Payments :
              /\ payments[p].status = "none"
              /\ payments' = [payments EXCEPT
                                ![p] = NewPaymentIntent(r.booking, "cash")]
    /\ bookings' = Confirmed(r.booking)
    /\ Done(r)
    /\ UNCHANGED <<now, users, posts, gateway>>

(* A double tap on a booked hour, or a hold that lapsed: nothing written. *)
RefuseCash(r) ==
    /\ r.kind = "cash"
    /\ ~LiveHold(r.booking)
    /\ Done(r)
    /\ UNCHANGED <<now, bookings, payments, users, posts, gateway>>

(* External: the player pays in full on the gateway's own page.  Nothing   *)
(* stops that after the hold has lapsed or the intent was marked failed.   *)
PayAtGateway(p) ==
    /\ payments[p].status # "none" /\ payments[p].provider = "online"
    /\ ~gateway[p]
    /\ gateway' = [gateway EXCEPT ![p] = TRUE]
    /\ UNCHANGED <<now, bookings, payments, users, posts, requests>>

BugBeginSettle(p) ==
    /\ payments[p].status = "initiated"
    /\ Submit([kind |-> "settle", payment |-> p, verified |-> gateway[p]])
    /\ UNCHANGED <<now, bookings, payments, users, posts, gateway>>

(* PaymentService.Settle: read the payment, ask the gateway, decide.  An   *)
(* underpayment is decided as "not verified", like no payment at all.      *)
BeginSettle(p) ==
    /\ payments[p].status \in {"initiated", "failed"}
    /\ payments[p].provider = "online"
    /\ payments[p].status = "failed" => gateway[p]
    /\ Submit([kind |-> "settle", payment |-> p, verified |-> gateway[p]])
    /\ UNCHANGED <<now, bookings, payments, users, posts, gateway>>

BugSettleUnpaid(r) ==
    /\ r.kind = "settle"
    /\ payments[r.payment].status \in {"verified", "failed"} \/ ~r.verified
    /\ payments' = IF payments[r.payment].status = "initiated"
                   THEN [payments EXCEPT ![r.payment].status = "failed"]
                   ELSE payments
    /\ Done(r)
    /\ UNCHANGED <<now, bookings, users, posts, gateway>>

(* PaymentRepo.Settle, no money moved: only the first answer is recorded,  *)
(* and a payment already final or failed keeps its status.                 *)
SettleUnpaid(r) ==
    /\ r.kind = "settle"
    /\ payments[r.payment].status = "verified" \/ ~r.verified
    /\ payments' = IF payments[r.payment].status = "initiated"
                   THEN [payments EXCEPT ![r.payment].status = "failed"]
                   ELSE payments
    /\ Done(r)
    /\ UNCHANGED <<now, bookings, users, posts, gateway>>

BugCanTake(p) == ~AlreadyPaid(p)

(* Verified, and the booking takes it: pending is confirmed whether or not *)
(* its hold has expired; a booking to be paid in cash drops that debt.     *)
CanTake(p) ==
    /\ ~AlreadyPaid(p)
    /\ bookings[payments[p].booking].status \in {"pending", "confirmed", "completed"}

SettleKept(r) ==
    LET p == r.payment
        b == payments[p].booking
        hold == bookings[b].status = "pending"
    IN  /\ r.kind = "settle" /\ r.verified
        /\ payments[p].status # "verified"
        /\ CanTake(p) /\ IndexAllows(p)
        /\ bookings' = IF hold THEN Confirmed(b) ELSE bookings
        /\ payments' = [q \in Payments |->
              CASE q = p -> [payments[p] EXCEPT !.status = "verified"]
                [] q # p /\ ~hold /\ q \in CashWaiting(b)
                     -> [payments[q] EXCEPT !.status = "failed"]
                [] OTHER -> payments[q]]
        /\ Done(r)
        /\ UNCHANGED <<now, users, posts, gateway>>

(* Verified, but the booking is gone or already paid: owed back. *)
SettleOwedBack(r) ==
    LET p == r.payment IN
        /\ r.kind = "settle" /\ r.verified
        /\ payments[p].status # "verified"
        /\ ~CanTake(p)
        /\ payments' = [payments EXCEPT ![p].status = "verified",
                                        ![p].refundDue = TRUE]
        /\ Done(r)
        /\ UNCHANGED <<now, bookings, users, posts, gateway>>

-----------------------------------------------------------------------------
(* The venue's buttons. *)

(* confirmCashBooking: a live hold is confirmed, a booked or played hour   *)
(* is left as it is, anything else is a conflict.                          *)
ConfirmCashBooking(b) ==
    \/ LiveHold(b) /\ bookings' = Confirmed(b)
    \/ bookings[b].status \in {"confirmed", "completed"} /\ UNCHANGED bookings

ApproveCash(p) ==
    /\ payments[p].provider = "cash"
    /\ payments[p].status \in {"initiated", "verified"}
    /\ ConfirmCashBooking(payments[p].booking)
    /\ UNCHANGED <<now, payments, users, posts, gateway, requests>>

DeclineCash(p) ==
    /\ payments[p].provider = "cash"
    /\ payments[p].status = "initiated"
    /\ bookings[payments[p].booking].status = "pending"
    /\ bookings' = Release({payments[p].booking})
    /\ payments' = [payments EXCEPT ![p].status = "failed"]
    /\ posts' = ClosePosts({payments[p].booking})
    /\ UNCHANGED <<now, users, gateway, requests>>

MarkCashReceived(p) ==
    /\ payments[p].provider = "cash"
    /\ payments[p].status = "initiated"
    /\ ConfirmCashBooking(payments[p].booking)
    /\ IndexAllows(p)
    /\ payments' = [payments EXCEPT ![p].status = "verified"]
    /\ UNCHANGED <<now, users, posts, gateway, requests>>

MarkRefunded(p) ==
    /\ payments[p].refundDue /\ ~payments[p].refunded
    /\ payments' = [payments EXCEPT ![p].refunded = TRUE]
    /\ UNCHANGED <<now, bookings, users, posts, gateway, requests>>

-----------------------------------------------------------------------------
(* Cancelling, and what it does to the player's standing.                  *)
(*                                                                         *)
(* now() is the start of the transaction.  The UPDATE of Cancel answers    *)
(* `not exists (... payments ...)' from the snapshot it began with and     *)
(* looks again, once it has the booking's row, at the booking alone.  The  *)
(* new standing is computed by a later statement, from the snapshot that   *)
(* one begins with: ReadStanding may fall anywhere before the write.       *)

StandingCall(kind, b) ==
    [kind |-> kind, booking |-> b, at |-> now, standing |-> users[bookings[b].user]]

BeginCancel(b) ==
    /\ bookings[b].status \in {"pending", "confirmed"}
    /\ ~PaidOnline(b)
    /\ Submit(StandingCall("cancel", b))
    /\ UNCHANGED <<now, bookings, payments, users, posts, gateway>>

ReadStanding(r) ==
    /\ r.kind \in {"cancel", "restore"}
    /\ requests' = (requests \ {r})
          \cup {[r EXCEPT !.standing = users[bookings[r.booking].user]]}
    /\ UNCHANGED <<now, bookings, payments, users, posts, gateway>>

AtLeast(x, y) == IF x >= y THEN x ELSE y
AtMost(x, y)  == IF x <= y THEN x ELSE y

IsLate(r) == /\ bookings[r.booking].status = "confirmed"
             /\ bookings[r.booking].slot.start - r.at < LateCancelWindow

BugScoreAfterPenalty(r) == EffectiveUserScore(r.standing, r.at) - LateCancelPenalty

ScoreAfterPenalty(r) ==
    AtLeast(EffectiveUserScore(r.standing, r.at) - LateCancelPenalty, 0)

BugPenalised(r) ==
    [users EXCEPT ![bookings[r.booking].user] =
        [score |-> ScoreAfterPenalty(r),
         banUntil |-> IF ScoreAfterPenalty(r) <= BookingBanFloor
                      THEN MonthAfter[r.at] ELSE r.standing.banUntil]]

Penalised(r) ==
    [users EXCEPT ![bookings[r.booking].user] =
        [score |-> ScoreAfterPenalty(r),
         banUntil |-> IF ScoreAfterPenalty(r) <= BookingBanFloor
                      THEN MonthAfter[r.at] ELSE Null]]

Cancel(r) ==
    LET b == r.booking IN
        /\ r.kind = "cancel"
        /\ bookings[b].status \in {"pending", "confirmed"}
        /\ bookings' = [bookings EXCEPT
              ![b].status = "cancelled", ![b].holdExpires = Null,
              ![b].penalty = IF IsLate(r) THEN LateCancelPenalty ELSE 0]
        /\ posts' = ClosePosts({b})
        /\ payments' = FailInitiated({b})
        /\ users' = IF IsLate(r) THEN Penalised(r) ELSE users
        /\ Done(r)
        /\ UNCHANGED <<now, gateway>>

(* whyNotCancelled: given up or played since the snapshot. *)
RefuseCancel(r) ==
    /\ r.kind = "cancel"
    /\ bookings[r.booking].status \notin {"pending", "confirmed"}
    /\ Done(r)
    /\ UNCHANGED <<now, bookings, payments, users, posts, gateway>>

CanRestore(b) ==
    /\ bookings[b].status = "cancelled"
    /\ bookings[b].penalty > 0 /\ ~bookings[b].restored

BeginRestore(b) ==
    /\ CanRestore(b)
    /\ Submit(StandingCall("restore", b))
    /\ UNCHANGED <<now, bookings, payments, users, posts, gateway>>

ScoreAfterRestore(r) ==
    AtMost(EffectiveUserScore(r.standing, r.at) + bookings[r.booking].penalty,
           UserScoreStart)

RestorePenalty(r) ==
    LET b == r.booking IN
        /\ r.kind = "restore"
        /\ CanRestore(b)
        /\ bookings' = [bookings EXCEPT ![b].restored = TRUE]
        /\ users' = [users EXCEPT ![bookings[b].user] =
              [score |-> ScoreAfterRestore(r),
               banUntil |-> IF ScoreAfterRestore(r) > BookingBanFloor THEN Null
                            ELSE ActiveBookingBan(r.standing, r.at)]]
        /\ Done(r)
        /\ UNCHANGED <<now, payments, posts, gateway>>

(* whyNotRestored: the points went back already. *)
RefuseRestore(r) ==
    /\ r.kind = "restore"
    /\ ~CanRestore(r.booking)
    /\ Done(r)
    /\ UNCHANGED <<now, bookings, payments, users, posts, gateway>>

-----------------------------------------------------------------------------
(* Posting a game for a booking: matchmaking's read, then its insert. *)

(* Posting is for a booking that is confirmed and has not started. *)
BeginPost(b) ==
    /\ bookings[b].status = "confirmed"
    /\ bookings[b].slot.start > now
    /\ Submit([kind |-> "post", booking |-> b])
    /\ UNCHANGED <<now, bookings, payments, users, posts, gateway>>

CreatePost(r) ==
    /\ r.kind = "post"
    /\ posts' = IF posts[r.booking] = "none"
                THEN [posts EXCEPT ![r.booking] = "open"] ELSE posts
    /\ Done(r)
    /\ UNCHANGED <<now, bookings, payments, users, gateway>>

-----------------------------------------------------------------------------
(* The janitor. *)

StaleHolds == {b \in Bookings : HoldExpired(b) /\ ~HasVerified(b)}

ReleaseStaleHolds ==
    /\ StaleHolds # {}
    /\ bookings' = Release(StaleHolds)
    /\ payments' = FailInitiated(StaleHolds)
    /\ posts' = ClosePosts(StaleHolds)
    /\ UNCHANGED <<now, users, gateway, requests>>

BugPlayed == {b \in Bookings : /\ bookings[b].status = "confirmed"
                              /\ bookings[b].slot.end <= now
                              /\ HasVerified(b)}

Played == {b \in Bookings :
    bookings[b].status = "confirmed" /\ bookings[b].slot.end <= now}

MarkPlayed ==
    /\ Played # {}
    /\ bookings' = [b \in Bookings |-> IF b \in Played
          THEN [bookings[b] EXCEPT !.status = "completed"] ELSE bookings[b]]
    /\ UNCHANGED <<now, payments, users, posts, gateway, requests>>

-----------------------------------------------------------------------------
PlayerStep ==
    \/ \E u \in Users, c \in Courts, s \in Slots : BeginCreate(u, c, s)
    \/ \E b \in Bookings, kind \in {"intent", "cash"} : BeginCheckout(b, kind)
    \/ \E b \in Bookings : BeginCancel(b) \/ BeginPost(b)
    \/ \E p \in Payments : PayAtGateway(p)

VenueStep ==
    \/ \E p \in Payments : \/ ApproveCash(p) \/ DeclineCash(p)
                           \/ MarkCashReceived(p) \/ MarkRefunded(p)
    \/ \E b \in Bookings : BeginRestore(b)

(* The second half of a call, run on what its first half read. *)
Write ==
    \E r \in requests :
        \/ \E b \in Bookings : CreateHold(r, b)
        \/ RefuseHold(r)
        \/ \E p \in Payments : CreateIntent(r, p)
        \/ BookCash(r) \/ RefuseCash(r)
        \/ SettleUnpaid(r) \/ SettleKept(r) \/ SettleOwedBack(r)
        \/ CreatePost(r)
        \/ Cancel(r) \/ RefuseCancel(r)
        \/ RestorePenalty(r) \/ RefuseRestore(r)

Callback == \E p \in Payments : BeginSettle(p)

Janitor == ReleaseStaleHolds \/ MarkPlayed

Next == \/ Tick \/ PlayerStep \/ VenueStep \/ Callback \/ Write \/ Janitor
        \/ \E r \in requests : ReadStanding(r)

Spec == Init /\ [][Next]_vars

(* The janitor runs on a ticker for as long as the process lives, the      *)
(* clock advances, a call that has read goes on to write, and a gateway    *)
(* that has taken money keeps calling back until the payment is final.     *)
Fairness ==
    /\ WF_vars(Tick)
    /\ WF_vars(ReleaseStaleHolds) /\ WF_vars(MarkPlayed)
    /\ WF_vars(Write)
    /\ \A p \in Payments :
          /\ SF_vars(gateway[p] /\ BeginSettle(p))
          /\ WF_vars(\E r \in requests : /\ r.kind = "settle" /\ r.payment = p
                                         /\ \/ SettleUnpaid(r) \/ SettleKept(r)
                                            \/ SettleOwedBack(r))

FairSpec == Spec /\ Fairness

-----------------------------------------------------------------------------
(* Invariants. *)

(* Every table holds rows of its type and every request is well formed.    *)
TypeOK ==
    /\ now \in 0..MaxNow
    /\ bookings \in [Bookings -> Booking]
    /\ payments \in [Payments -> Payment]
    /\ users \in [Users -> User]
    /\ posts \in [Bookings -> Post]
    /\ gateway \in [Payments -> BOOLEAN]
    /\ requests \subseteq Request

(* No instant on a court belongs to two bookings that have not been given  *)
(* up: what CreateHold, the late confirmations of Settle and the janitor   *)
(* must not break between them.                                            *)
NoDoubleBooking ==
    \A b, c \in Bookings :
        b # c /\ Occupies(b) /\ Occupies(c) /\ bookings[b].court = bookings[c].court
            => bookings[b].slot.end <= bookings[c].slot.start
               \/ bookings[c].slot.end <= bookings[b].slot.start

(* On the rows of one state, the pre-check of CreateHold (a function of the *)
(* clock) and the EXCLUDE constraint (blind to it) agree once the expired  *)
(* unpaid holds are out of the way: no row stands in an attempt's way that *)
(* its grid shows as free.  A rival who commits between the two statements *)
(* is another matter, and does reach the constraint: see HoldTx.           *)
PreCheckMeansConstraint ==
    \A r \in InFlight({"hold"}) : ~SlotTaken(r) => ~SlotExcluded(r)

(* BookCash: there is never a booked hour with neither a kept payment nor  *)
(* a cash debt on file for the venue to collect.                           *)
BookedHourHasItsPayment ==
    \A b \in Bookings : bookings[b].status \in {"confirmed", "completed"} =>
        \E p \in PaymentsOf(b) :
            \/ Kept(p)
            \/ payments[p].status = "initiated" /\ payments[p].provider = "cash"

(* An hour paid for online is not also waiting for cash at the venue.      *)
VenueNeverCollectsTwice ==
    \A p, q \in Payments :
        /\ Kept(p) /\ payments[p].provider = "online"
        /\ payments[q].status = "initiated" /\ payments[q].provider = "cash"
        => payments[p].booking # payments[q].booking

(* BookCash: asking twice never records a second debt for the same hour.   *)
OneCashDebtPerHour ==
    \A p, q \in Payments :
        /\ payments[p].status = "initiated" /\ payments[p].provider = "cash"
        /\ payments[q].status = "initiated" /\ payments[q].provider = "cash"
        /\ payments[p].booking = payments[q].booking
        => p = q

(* A cash request never waits on a hold that lapsed or was given up.       *)
CashWaitsOnlyOnBookedHours ==
    \A p \in Payments :
        payments[p].provider = "cash" /\ payments[p].status = "initiated"
            => bookings[payments[p].booking].status \in {"confirmed", "completed"}

(* A ban is on record exactly when the stored score is at the floor, so    *)
(* lifting the one never leaves the other behind.                          *)
BannedExactlyAtTheFloor ==
    \A u \in Users : users[u].banUntil # Null <=> users[u].score <= BookingBanFloor

-----------------------------------------------------------------------------
(* Action properties. *)

(* What a gateway confirmed stays confirmed, and stays kept or owed back   *)
(* as it was first decided, whatever callbacks, cancellations and sweeps   *)
(* come after.                                                             *)
VerifiedIsForever ==
    [][\A p \in Payments : payments[p].status = "verified" =>
          /\ payments'[p].status = "verified"
          /\ payments'[p].refundDue = payments[p].refundDue]_vars

(* Money kept for a booking made online has its hour, and keeps it.  The   *)
(* one thing that can part them is a cancellation by the player that was   *)
(* answered before the payment was: not a sweep, another player's attempt, *)
(* the venue or a settlement that comes too late for the hour.             *)
HasItsHour(p) == bookings[payments[p].booking].status \in {"confirmed", "completed"}
KeptOnline(p) == Kept(p) /\ payments[p].provider = "online"
Cancelling(b) == \E r \in requests \ requests' : r.kind = "cancel" /\ r.booking = b

PaidOnlineLosesItsHourOnlyToCancel ==
    [][\A p \in Payments :
          KeptOnline(p)' /\ ~HasItsHour(p)' =>
              /\ KeptOnline(p)
              /\ HasItsHour(p) => Cancelling(payments[p].booking)]_vars

(* A booking given up or played is never brought back: a payment that      *)
(* arrives late does not revive an hour that may have been sold again.     *)
GivenUpIsForever ==
    [][\A b \in Bookings : bookings[b].status \in {"cancelled", "completed"} =>
          bookings'[b].status = bookings[b].status]_vars

(* An hour that blocks its slot is taken away by its player or by the      *)
(* venue declining it, never by the janitor, the clock or another player's *)
(* attempt to book it.                                                     *)
LiveHoursAreNotTaken ==
    [][\A b \in Bookings :
          Blocks(b) /\ bookings'[b].status = "cancelled" =>
              /\ Cancelling(b) \/ \E p \in PaymentsOf(b) : DeclineCash(p)
              /\ ~ReleaseStaleHolds]_vars

(* A hold that has lapsed is booked after all only when a gateway says the *)
(* money moved: never by a cash request, nor by the venue answering one.   *)
LapsedHoldsAreRevivedOnlyByMoney ==
    [][\A b \in Bookings :
          HoldExpired(b) /\ bookings'[b].status = "confirmed" =>
              \E p \in Payments : /\ payments'[p].booking = b
                                  /\ payments'[p].provider = "online"
                                  /\ payments'[p].status = "verified"]_vars

(* A ban that is running is lifted by the venue or by time.  Cancelling    *)
(* again may bring its end forward, to a month from the new cancellation,  *)
(* but lifts it only if the standing was read before the ban was written.  *)
BansAreNotCancelledAway ==
    [][\A u \in Users :
          Banned(u) /\ ~(users'[u].banUntil > now) =>
              \E r \in requests \ requests' :
                  /\ bookings[r.booking].user = u
                  /\ r.kind = "cancel" => r.standing # users[u]]_vars

(* A settlement that saw the money leaves the payment verified: kept or    *)
(* flagged for a refund, never dropped, even if the sweep had failed it.   *)
VerifiedSettlementIsWritten ==
    [][\A r \in requests \ requests' :
          r.kind = "settle" /\ r.verified =>
              payments'[r.payment].status = "verified"]_vars

(* The hours and who has them. *)
calendarStatus == [b \in Bookings |->
    CASE bookings[b].status = "pending" -> "held"
      [] bookings[b].status \in {"confirmed", "completed"} -> "booked"
      [] bookings[b].status = "cancelled" -> "gone"
      [] OTHER -> "none"]
calendarPlace == [b \in Bookings |->
    IF bookings[b].status = "none" THEN None
    ELSE [court |-> bookings[b].court, start |-> bookings[b].slot.start, end |-> bookings[b].slot.end]]
OneByOne == INSTANCE Calendar WITH
    Rows <- Bookings,
    Places <- {[court |-> c, start |-> s.start, end |-> s.end] : c \in Courts, s \in Slots},
    status <- calendarStatus, place <- calendarPlace

(* Hours change hands as the calendar promises, one attempt at a time: a   *)
(* booked hour never yields to somebody's attempt, and an attempt releases *)
(* other holds only in the instant in which it takes their place.          *)
HoursAreSoldOneByOne == OneByOne!Spec

-----------------------------------------------------------------------------
(* Liveness, under FairSpec. *)

(* A hold nobody paid for leaves the player's list once it has expired.    *)
LapsedHoldsAreReleased ==
    \A b \in Bookings : HoldExpired(b) ~> bookings[b].status # "pending"

(* A booked hour ends up played or cancelled.                              *)
BookedHoursEnd ==
    \A b \in Bookings :
        bookings[b].status = "confirmed" ~>
            bookings[b].status \in {"completed", "cancelled"}

(* Money a gateway took is recorded in the end, although the payment may   *)
(* have been failed by an early answer, a lapse or a cancellation.         *)
PaidIsRecorded ==
    \A p \in Payments : gateway[p] ~> payments[p].status = "verified"

=============================================================================
