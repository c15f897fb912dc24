# khel-arena: specifications, model checking and proofs

khel-arena lets players book futsal courts in Nepal, pay for them online
(eSewa, Khalti) or in cash at the venue, find people to play with, and run
teams, results and tournaments. The backend is a Go service over PostgreSQL;
several copies of it may run against one database. This directory holds TLA+
modules translated from that service, the TLC configurations that check them on
small instances, and proofs, checked by TLAPS, of what matters most for
instances of any size.

Everything here is about what happens when things happen at the same time or
in an order nobody asked for: two players after one hour, money that arrives
after the hour was given up, a sweep in the middle of a payment, a refresh
token presented twice, a captain who hands over the armband while his request
is being served. Paths below are relative to `src/internal/` unless they say
otherwise.

## 1. The system

### Components, their state and their operations

| Component | State | Operations | Modelled in |
|---|---|---|---|
| Booking holds (`service/booking.go`, `postgres/booking.go`, `domain/booking.go`, migration 0004) | `bookings`: status, hold expiry, slot, penalty; an EXCLUDE constraint on court and slot | `Create`/`CreateHold`, `Cancel`, `MarkPlayed`, `ReleaseStaleHolds` | `Bookings`, `HoldTx`, `Venue` |
| Payments and settlement (`service/payment.go`, `postgres/payment.go`, `api/payments.go`, migration 0015) | `payments`: initiated, verified, failed; refund due or refunded; one kept payment per booking | `Checkout`, `Settle`, `BookCash`, `MarkRefunded` | `Bookings`, `SettleTx`, `Accounts` |
| Cash at the venue (`service/owner.go`, `postgres/payment.go`) | the cash rows of `payments` | `ApproveCash`, `DeclineCash`, `MarkCashReceived` | `Bookings`, `SettleTx` |
| User score and ban (`postgres/booking.go`, migrations 0013, 0014) | `users.user_score`, `users.booking_banned_until` | the penalty inside `Cancel`, `RestorePenalty` | `Bookings` |
| Janitor (`service/janitor.go`) | none | a ticker: stale holds, played games, tokens, calls | the module of each sweep |
| Transactions (`postgres/db.go`) | PostgreSQL locks and snapshots | `InTx` | `SettleTx`, `HoldTx`, `Board`, `Sessions` |
| Matchmaking (`service/matchmaking.go`, `postgres/matchmaking.go`, migration 0007) | calls with open places, responses, a trigger that counts | create, update, cancel, delete, respond, accept, withdraw, expire | `Board` |
| Accounts and sessions (`service/auth.go`, `postgres/session.go`, `postgres/user.go`, `api/auth.go`) | users, refresh-token chains, one-use reset links, cookies | register, login with rehash, refresh, logout, password change and reset | `Sessions` |
| Teams (`service/team.go`, `postgres/team.go`, `domain/team.go`) | teams, members, captain | create, join, add, remove, hand over, disband | `Squads` |
| Match results (`service/match.go`, `postgres/match.go`) | results reported, agreed | report, confirm, dispute, withdraw | `Results` |
| Tournaments (`service/tournament.go`, `postgres/tournament.go`, migration 0006) | status, entries, a counting trigger | create, register, pull out, mark paid, set status | `Brackets` |
| Reviews, ratings, photos, highlights (`postgres/review.go`, `api/reviews.go`, migrations 0008, 0012) | reviews; the arena's rating, kept by a trigger; gallery and files | post, delete, upload | `Reviews` |
| Arenas and owner administration (`postgres/arena.go`, `postgres/arena_admin.go`, `service/owner.go`, `api/owner.go`) | arenas, courts, pricing rules | edits scoped by owner | `Venue` |
| Pricing and availability (`domain/slot.go`, `domain/pricing.go`, `domain/availability.go`) | none (pure) | resolve a price, lay out the grid of hours | `Slots`, `Venue` |
| Payment accounts and gateways (`postgres/paymentaccount.go`, `platform/payment`) | a venue's gateway credentials | set, switch off, delete, resolve, look up | `Accounts` |
| HTTP API (`api/`) | rate-limiter buckets | routes, encoding, authentication, limiter | its handlers are the actions above |
| Migration runner, process, platform services, web client, scripts | see section 6 | | not modelled |

Bookings, payments, cash and score are the core: it is there that several
actors write the same few rows and that a mistake costs somebody an hour or
money. Components call one another in the process; they share nothing but the
database, and their only asynchronous parties are the janitor's ticker, the
gateway, which answers through the player's browser, and the browser's tabs.

### What makes it hard, and what makes it correct

* **Holds.** An unpaid hold expires by the clock, not by a write. `CreateHold`,
  the availability grid and the constraint must agree on that instant; two
  attempts must not both get the hour, and contenders must not all lose it.
* **Settlement.** The gateway's answer may come late, twice, after another
  payment won, or after the venue changed its account. Money that moved is
  written down, kept by a booking or owed back, and never kept for an hour that
  was given up.
* **Cash.** A booked hour is paid or has a debt on file; the venue does not
  collect twice.
* **Standing.** Score and ban agree through penalties, lapsed bans and points
  given back.
* **Locks.** Transactions take the same rows in different orders, at READ
  COMMITTED, where a statement that waited re-checks only the row it waited for.
* **Sessions.** A refresh token is good once; a lost reply makes an honest
  client present it twice; a new password ends what went before.
* **Counters kept by triggers.** `filled`, `team_count` and the arena's rating
  are columns that must follow rows written by several transactions.
* **Reads before writes.** Nearly every service method reads and decides in one
  statement and writes in another that does not ask again.

`PROJECT.json` lists each hazard at the line where it bites, with the
properties that cover it or the reason none does.

## 2. The modules

| Module | What it is |
|---|---|
| `Bookings` | holds, payments, cash, score: one database transaction per action |
| `SettleTx` | one booking and its payments, one SQL statement per action |
| `Hour` | the abstract specification `SettleTx` implements |
| `HoldTx` | `CreateHold` on one court, one SQL statement per action |
| `Calendar` | the abstract specification of who has which hour, which both `Bookings` and `HoldTx` implement |
| `Sessions` | accounts, refresh tokens, reset links, the tabs of one browser |
| `Board` | one call for players, its responses, trigger, locks and expiry |
| `Game` | the abstract specification `Board` implements: a game and who plays in it |
| `Squads`, `Results`, `Brackets`, composed by `Club` | teams; results; a tournament |
| `Slots`, `Venue`, `Accounts` (each extends the one before) | pure rules of time and price; one arena and its players; its merchant accounts and a payment |
| `Reviews` | reviews and the rating trigger, photos, highlights |
| `MC...` | values for TLC |
| `...Proofs` | theorems and proofs |

A definition named `Bug...` is the next definition with a plausible fault in
it. Nothing in a specification uses one; each records what a property catches.

### Bookings

State: the tables (`bookings`, `payments`, `users`, `posts`), the clock
(`now`: the application's and the database's are taken to be one), what each
player has really paid at the gateway (`gateway`, external), and `requests`.

`requests` is how a stale read is modelled. A service method that reads,
decides and then writes in a later transaction is two actions; in between, the
request holds what was decided:

| Code | First half | Second half |
|---|---|---|
| `BookingService.Create` | `BeginCreate` | `CreateHold`, `RefuseHold` |
| `PaymentService.Checkout` | `BeginCheckout` | `CreateIntent`; `BookCash`, `RefuseCash` |
| `PaymentService.Settle` | `BeginSettle` | `SettleUnpaid`, `SettleKept`, `SettleOwedBack` |
| `MatchmakingService.Create` | `BeginPost` | `CreatePost` |
| `BookingRepo.Cancel` | `BeginCancel`, then `ReadStanding` | `Cancel`, `RefuseCancel` |
| `BookingRepo.RestorePenaltyOwnerScoped` | `BeginRestore`, then `ReadStanding` | `RestorePenalty`, `RefuseRestore` |

A request that is never taken up is a client that left or a server that
crashed between the two. Each of the others is one transaction and one action:
`ApproveCash`, `DeclineCash`, `MarkCashReceived`, `MarkRefunded`,
`ReleaseStaleHolds`, `MarkPlayed`. `Tick` is the clock and `PayAtGateway` the
player on the gateway's page.

`Cancel` and `RestorePenalty` are single transactions, and two actions all the
same, because they write on what their snapshots said before they waited for a
row. `BeginCancel` is the snapshot in which `not exists (... payments ...)` is
answered; `Cancel` looks again at the booking's status and at nothing else. The
new score and ban are computed by a CTE that reads the users row in the snapshot of
its own statement (`standing`, refreshed by `ReadStanding` at any moment before
the write), while `now()` is the start of the transaction (`at`). `Tick` drops
those that `withTimeout` cuts off (`RequestTimeout`). A ban lasts a calendar month:
`MonthAfter` is any function of the instant, monotone or not, that ends later than
the request.

A lapse is judged in `Bookings` at the action, which is the transaction's own clock;
`SettleTx` tells the start of a transaction from the moment it gets its rows.

Abstracted: an amount is "paid in full" or not (an underpayment settles as not
verified, as in the code); eSewa and Khalti are one provider; who may press a
button (ownership in the WHERE clauses) is left out; the price, note, team and
reason of a booking, opening hours and whether a court is active are left to
`Venue` (`CreateHold` is reached only if they pass). A booking that costs
nothing, which `NewPaymentIntent` refuses, is not modelled.
`Legacy` is the set of cash requests still waiting on an unpaid hold: today's
code confirms the hour at once (`BookCash`), but `ApproveCash`, `DeclineCash`
and the closing of such requests exist for rows older than it
(`postgres/payment.go:422-424`).

### SettleTx and Hour

PostgreSQL's part is external and modelled from how `InTx`'s callers use it: row
locks held to the end of the transaction, a committed and an uncommitted
version of each row, statements that answer `not exists (... payments ...)`
from the snapshot they began with and re-check only the row they waited for,
and a detector that fails a transaction of a deadlock. Each of `Settle`,
`Cancel`, `ReleaseStaleHolds`, `CreateHold`'s release, `BookCash` and
`MarkCashReceived` goes from lock to lock by its label `pc[t]`, and so does a
settlement that was told no money moved (`Deniers`). Statements that touch only rows the
transaction already holds are one action. `now()` is the start of a transaction:
`BookCash` and `MarkCashReceived` begin with `Start`, and `inTime` has those that began
before the hold lapsed, however long they then wait.

`Hour` says what they promise: each takes effect at one instant, on the state of
that instant. `SettleTx!ActsAtomically` is `Hour!Spec` under the mapping that
reads the committed versions. Two exceptions are written into `Hour`: its
`Cancel` promises nothing about payments, because the code's check of them is
answered from an old snapshot (section 5, 1), and its `BookCash` books a hold that
was live when some call in `inTime` began, not at the instant it takes effect.

### HoldTx

The advisory lock on court and start, the release of an expired hold in the
way, the pre-check, the insert, and the constraint's check against committed
and running rivals, with deadlocks among the waiters. The expired hold may be
paid for meanwhile (`SettleOld`).

### Calendar

A row of the calendar is none, held, booked or gone, and takes its court and
hours while it is held or booked. `Take` gives a row its hour and gives up, in the
same step, holds that clash with it and nothing else; it is possible only if no
other row that takes its hour clashes. `Book` and `GiveUp` move status alone, and
what is gone stays gone. Under `HoldTx` an attempt is a row, held from its commit
on, and the old hold is row `Nobody`; under `Bookings` the rows are the bookings.
`CreatesAtomically` says that `CreateHold`, with its advisory lock, pre-check
and constraint, decides against the rows of one instant, and that the old hold is
given up in a `Take` or not at all (`ContendSpec`, without `GiveUp`);
`HoursAreSoldOneByOne` that nothing else in the service hands an hour on.
That no two holds overlap, and that an old hold yields only to a hold, follow, and
are theorems of `HoldTxProofs`.

### Sessions

Each client is a tab with an access token of its own; all share the browser's
cookie `jar`. A request is a chain of actions, as in the code: credentials are
read (`handleLogin`), the session is stored (`StoreSession`); a new hash is
computed from what was read (`hashing`), then `UpdatePassword` takes the users
row and the token rows its UPDATE saw (`updating`); a refresh is sent with the
cookie as it was (`refreshing`), locks its row (`rotating`), exchanges it or
refuses it, and answers (`replying`); any reply may be lost. The two
transactions that contend for token rows are split where they wait for a lock.
`from` and `was` in a token row are history: the token it was exchanged for, and
what a password written since has found: `ended`, the session was there before that
`UpdatePassword` began (`before`, in the request); `raced`, its row was stored while
the password was being written, or later by a login that had checked the password
before (`raced`, in the request). An exchange passes `was` on. Digests never
return, which `minted` says. The single-flight refresh in the web client is not
assumed: it covers one tab, and there are two.

### Board

One call. A handler's service-level check and its transaction are two actions
(`handleRespondToCall`, then `Proceed`); Accept locks the call and then the
response, Withdraw the response and then, in the trigger, the call, Delete the
call and then every response, and each is split where it waits for its second
lock. `BreakDeadlock` is PostgreSQL's detector, `Abort` a request cut off by
`withTimeout` or a client that left, `CloseWithBooking` the booking cancelled
under the call, `ExpireStale` the janitor's sweep. `edited` is history: the
author changed the number of places.

### Game

The call as its players see it: open, full or over, how many may play, who asks,
who plays. `Take` needs an open game with a place and somebody who asks; the game
is full with its last place and open again when a player leaves, unless it is
over. `Resize` neither opens nor closes it, as `Update` in the code does not.
`PlayedAsPromised` maps `filled` away: what the trigger and `StillTaking` do with
it must come to the same as counting the team. `End` is possible at any time
(cancelled by the author or with the booking, or expired), so `Game` promises
nothing about when.

### Squads, Results, Brackets, Club

A request is let through by what its service method read (`Admit`) and kept in
`req[w]` until its statement runs (`Finish`), with the fields it carries;
`Club` composes the three over one set of workers and teams. Disbanding a team
is one action of `Club` because the foreign keys do it all in one statement:
roster, results and entries go with the row, and the trigger on entries
recounts. Names, codes, fees and formats decide nothing here and are left out.

### Slots, Venue, Accounts

`Slots` has the pure operators of `domain/`: intervals, opening hours in a zone
east of UTC, validity and choice of a rate, and the grid of a day. `Venue` runs
them: the owner's statements, each with the ownership in its WHERE clause; what
the public pages read; and a booking request as the code makes it, the court
read, then its rules (two statements of one batch without a transaction), then
the insert. `Accounts` adds a venue's merchant accounts and one payment: the
gateway is resolved from the enabled accounts at checkout and again, enabled or
not, at settlement; `moved` is history, the account was replaced or removed
in between.

### Reviews

A statement on `reviews` fires the trigger, whose UPDATE of the arena aggregates
over its snapshot and then waits for the arena's row; the two halves are two
actions. Photos and their files, links and highlights are there for their
ownership checks and for the two-step upload (file, then row).

## 3. The runs

Every run explores its state space completely. `CHECK_DEADLOCK FALSE`
everywhere: the clock, the ids and the requests of a small instance run out, and
the model then stops. Symmetry is used only in runs whose properties are
invariants and action properties.

| Run | Checks | Bounds |
|---|---|---|
| `MCBookings` (1.1 M states) | no double booking; pre-check and constraint agree on a state; online money loses its hour only to a cancellation answered before it; a booked hour has its payment; nobody pays twice; cash waits only on booked hours; what is verified stays so; a verified settlement is written; refinement of `Calendar` | two overlapping slots of different starts on one court, two bookings, three payments, clock to 3, two calls in flight |
| `MCStanding` (3.4 M) | types; score and ban agree; bans are not cancelled away; one cash debt per hour; lapsed holds are revived only by money | two courts with an old cash request each, three payments; scores 20 and 40, so that one or two penalties reach the floor, or a ban being served; two calls in flight, so that two penalties, or a penalty and a restoration, race; a month from tick 0 ends later than one from tick 1; requests of up to one tick; clock to 4 |
| `MCLive` (8 k) | lapsed holds are released; booked hours end; paid money is recorded | one booking, two payments, clock to 3 |
| `MCSettleTx` (319 k) | refinement of `Hour`; the index never refuses; payments never deadlock alone | three callbacks for two payments, an early answer that no money moved, a cancellation, the sweep, a rebooking, a cash booking and the venue collecting |
| `MCHoldTx` (218) | refinement of `Calendar`: no double hold, and an old hold yields only to a hold; contenders do not all lose; attempts end | three attempts over an expired hold: two overlap, two start together |
| `MCSessions` (2.3 M) | chains of refresh tokens do not fork; the sweep never meets the foreign key; only a session stored in a race with the password outlives it | one account, two tabs, three tokens, two passwords, one link, all lives 1, clock to 2 |
| `MCBoard` (332 k) | `filled` counts the accepted; the CHECK is only a backstop; only deletions deadlock; full games are closed and open ones listed; started calls are closed in the end; refinement of `Game` | two players, an author, three requests at a time, up to two places, clock to 2 |
| `MCClub` (243 k) | one armband, one captain; the squad's overrun is bounded; agreed results stand; the team count is honest | two users, two teams, squads of two, one fixture with two scores, a tournament of one team, two requests at a time; a third user, for rosters of one team, with whom a squad of two is overrun |
| `MCVenue` (61 k) | a free cell of any grid books; grids hide no hour; the price shown is the price charged; a payment is found at an account that was kept | a day of three hours in ticks of half an hour, an offset of half an hour, three sets of opening hours, of which one is empty and refused, rate cards of up to two of three rules, one blocking booking, two days; two merchants |
| `MCSettleTxCancel`, `MCSessionsReuse`, `MCReviews` | each refutes one statement of the repository, section 5 | one callback against one cancellation and cash; as `MCSessions`; two players, two reviews |

Why the bounds are enough to be interesting. An hour can be fought over only by
overlapping bookings of one court, and two suffice for every pairwise property;
two intents and a cash request is the largest set of payments whose members
each meet a different branch of `applyToBooking`; two calls in flight give each
stale read a rival write; the clock passes the expiry of early holds, the start
of both slots and the end of the first. `MCHoldTx` is small because each attempt
has only five statements. Three tokens make a chain of two exchanges, or a
chain beside a second sign-in; two tabs of one account are the smallest set of
clients that share a cookie. Three workers on one call are one more than any
circle of two locks needs. A squad of two and a bracket of one put every count
at its limit with two teams. Half-hour ticks against whole-hour cells give slots
that straddle cells, and the offset makes the local and the UTC day differ.

Bounds are `MaxNow`, `MaxInFlight`, `MaxRules`, `MaxBooked` and the sizes of the
sets; `BookingsLeft` and `PaymentsLeft` in `Bookings` keep an id for every row a
call in flight may insert, so that running out of ids never looks like a refusal.

Two runs have a CONSTRAINT, `MCOneStory`, that explores one story at a time and
not their product. In `MCClub` results and the bracket share only the teams: no
action on one reads or writes the other, except disbanding, which treats both
in the same way as alone. A bracket asks who captains a team and never for its roster,
so no player is added or removed while there is one. The third user is met only with
one team and no result or bracket: a third member is all he adds. In `MCVenue` the merchant accounts, the second court
and the bookings share only the arena's row. Every property of these runs
speaks of one story, so a behaviour that violates it can be cut down to one that
stays within it. The theorems of `ClubProofs` and `AccountsProofs` do not use the
constraint.

### Fairness

`MCLive`: the clock ticks; the janitor's two sweeps are weakly fair, for
`Janitor.Run` is a ticker loop that runs as long as the process; a call that has
read goes on to write (`WF(Write)`, and per payment for the settlement's own
write, so that other calls cannot starve it). For payments the player has paid,
`BeginSettle` is strongly fair. That is an assumption on the environment:
"Gateways retry and players refresh" (`service/payment.go:154`). The code does
not poll a gateway, so if the player's browser never comes back
(`api/payments.go:71`) the money stays unrecorded, and `PaidIsRecorded` says
nothing.

`HoldTx`: an attempt that can take its next statement does, and PostgreSQL's
deadlock detector runs.

`Board`: only the transactions that hold the call are made to end. An acceptance
waits for no other row while it holds it (weak fairness; `OnlyDeletionsDeadlock`
says why), a deletion gets the response rows it is queued for when they come free
again and again (strong, as PostgreSQL hands a released lock to the queue); the
detector runs; the clock ticks; and the janitor's sweep, which wants the call's row,
gets it in the same way (`SF` on `ExpireStale`). Requests in any other state may stop
for good, and nobody is assumed to ask for anything.

## 4. What is proved

TLAPS checks the theorems below for any values of the constants the modules'
named assumptions allow; TLC evaluates the same assumptions in the runs. They
are weak: slots end after they start, windows and lives are natural numbers,
a month is longer than a request may run, players start with a score and a ban that
agree, old cash requests are for distinct bookings;
`Null`, `None` and `NoTx` are none of the things they stand apart from; users,
teams, players and workers are finite where something is counted; the sets of
transactions in `SettleTx` are disjoint; somebody contends in `HoldTx`. `Slots` and
`Venue` ask that a day is whole hours and that an hour, the cell of the grid, is a
duration a booking may have: 60 minutes between the 30 and 240 of
`domain/slot.go`. Without that the grid would offer what every booking is refused.

`BookingsProofs`. `TypeOK` is inductive alone (`TypeCorrect`); its interesting
part is that a score stays in 0..100 and a penalty is 0 or 20. The safety
properties are not inductive alone and are proved together from

    IInv == TypeOK /\ RowsAreWhole /\ NoDoubleBooking /\ KeptIsBooked
            /\ BookedHourHasItsPayment /\ BannedExactlyAtTheFloor /\ StandingsAgree

`RowsAreWhole`, `KeptIsBooked` and `StandingsAgree` are the strengthening: foreign
keys hold, only a verified online payment is flagged for a refund, and a settlement,
cancellation or restoration in flight is for a row that exists; a payment is kept from
the moment its hour is booked; and what a cancellation or restoration has read of the
player's standing agreed, and is no older than a request may be. The argument:

* `NoInstantIsSoldTwice`: only `CreateHold` makes a booking occupy a slot, after
  `SlotExcluded` was false; a release only frees; a late `Settle` confirms a
  booking that was pending and so occupied its slot already.
* `OnlineMoneyKeepsItsHour`: `Settle` keeps money only for a booking it finds
  pending, confirmed or completed, and confirms it in the same write; the sweeps
  and `DeclineCash` take pending bookings, for which nothing is kept
  (`KeptIsBooked`). What is left is `Cancel`, which the property names: the
  statement the code claims, that a kept online payment always has its hour, is
  false (section 5, 1).
* `EveryBookedHourHasItsPayment`: confirming and recording are one write; only
  `Settle` closes a cash debt, having kept its own payment.
* `BanAndScoreAgree`: the penalty and the restoration write both columns from
  one standing, which agreed when it was read (`StandingsAgree`); so two that race
  lose an update, but never leave score and ban apart. A lapsed ban is read as 50.
* `NobodyPaysTwice`: with no old cash requests, an open cash request is for a
  booked hour, so `Settle` always takes the branch that closes it. The
  hypothesis is needed (section 5).
* `VerifiedStays`, `GivenUpStays`, `LiveHoursStay`, `LapsedHoldsNeedMoney` are the
  action properties, each from the invariant, one lemma per action.

`LedgerProofs` strengthens the invariant for four more properties. `Linked`: a
payment, and a checkout on its way, is for a booking that was made, so
`CreateHold` never finds payments on a fresh row; `PendingIsUnpaid`: a pending
booking has no verified payment, because verifying and confirming are one write.
From these `PreCheckDecides`: on the rows of one state an expired hold in the way can
always be released, so the constraint ranges over no more than the pre-check does
(`HoldTx` has the two in different states). `BansServed`: a cancellation that has read a
running ban finds a score at the floor and starts another ban, which ends after the
request does, by whatever month; only one that read the standing from before lifts it.
`OneDebtPerHour` (and `CashIsForBookedHours`, without old
cash requests) and `SettlementsAreWritten` complete the module's safety.
`SoldOneByOne` is the refinement of `Calendar`, from the first invariant: every action
either leaves status, court and slot of all bookings alone, or books one pending
row, or gives rows up, or is `CreateHold`. For that one, the rows it releases are
pending and clash, and after `SlotExcluded` was false no other row that takes its
hour does.

`SettleTxProofs`. `LocksSuffice` is the inductive invariant

    IInv == Typed /\ Money /\ \A t \in Txs : Where(t)

where `Where(t)` fixes, by the label `pc[t]`, which rows the transaction holds
and what it has read that must still be so. The argument turns on one fact: every
commit but that of an early answer needs the lock of the booking's row, so while
another transaction holds it nobody commits anything but a refusal (`OnlyDenied`), and
what a settlement checked under that lock holds until its commit. What was read before that lock is either locked itself (the
payment) or checked again, except `Cancel`'s payments, which `Hour` leaves open.
`TakesEffectAtOnce` is the refinement, one lemma per action, each a step of `Hour`
or a stutter; `Money` is then what `Hour` keeps, proved on `Hour`'s actions:
`ChecksComeFirst`, `RequestsEndWithTheHour` and `BookedIsPaidOrOwed`. `PaymentsTakeTurns`:
of settlements, early answers, cash bookings and rebookings only a settlement waits while
it holds something: with its payment for the booking, or with the booking for the cash
request (`HoldAndWait`). A ring of them would need one that holds the cash request and
waits.

`HoldTxProofs`. `LocksAreHeldAndReturned` (types and lock discipline),
`NoDoubleHold`, `OldHoldYieldsOnlyToHolds`, and `ConstraintOnlyBetweenStarts`, whose
invariant says that what an attempt's pre-check saw of rivals with its own start
still holds when it inserts, because the advisory lock admits one of them at a
time, and that the old hold in its way is its own or gone. Its corollary
`OneStartNeedsNoConstraint`: attempts at one start never meet the constraint.
`HoldsAreAtomic` is the refinement of `Calendar`: only a commit is a step of it, and at
a commit the constraint has seen every committed rival, and the old hold is out of
the way or released by this very attempt (`Releasing`). `SomeoneAlwaysGetsIt` needs no
count of the contenders. If the attempts meet in one hour, then

    HourIsHad == somebody has the hour, or some attempt is still on its way

is inductive with the lock invariant: an attempt gives up only for a committed
rival, for the old booking, or as the victim of a deadlock, and a deadlock has
another attempt waiting in it.

`SessionsProofs`. `SessionsAreSound` is the inductive invariant

    IInv == TypeInv /\ Issued /\ ChainsDoNotFork /\ InOrder
            /\ OnlyARaceOutlivesThePassword /\ Foreseen

`RowLocks`, in `TypeInv`, says a token being exchanged is live and has one
exchanger; `Issued` that digests are never issued twice, so a new row has no
links pointing at it; `InOrder` that a row's expiry and revocation come no later
than its successor's, which is why the sweep (`SweepGoesThrough`) deletes a row
only with all that refer to it. `NoForks`: an exchange needs a live row and
revokes it. `PasswordsEndSessions`: a session from before the password began to be written
that still lives is among the rows the UPDATE has seen (`Foreseen`), and an exchange
that is under way takes the row's lock, so the UPDATE waits for it; what it misses are
rows that were stored since.

`BoardProofs`. `LocksAndCounts` is the invariant `TypeOK /\ Locks /\ Counts /\ Closed`.
`Locks` ties each lock to the label of its one holder, from which
`DeletionsDeadlock` follows: a transaction that accepts waits for nothing while
it holds the call, unless the response is being withdrawn, and that withdrawal
waits for the call only after it found the player accepted. `Counts` adds that an
acceptance in progress still has its place, which gives `CheckNeverRefuses` and
`FilledIsCounted`; `Closed` gives `FullIsClosed`. `GameIsPlayed` is the refinement of
`Game`, one lemma per act. It needs one more invariant, `Fresh`: what `Accept` looked at
when it locked the call (open, with a place) is so until it commits. It is not
implied by the lock alone but by every writer of the call asking for it:
`HeldCallKept` goes through them all.

`ClubProofs`. `TypesHold`; `ArmbandsAgree`; `AgreementsStand`: the statements
of `Results` carry `verified = false` in their WHERE clause; `TeamCountIsHonest`:
every write to entries runs the trigger, `Cardinality` of the entries changing by
one; `OverrunIsBounded`: a join is admitted only while the squad, as read, has
room, and each request holds at most one pending join, so a squad plus its
pending joins never exceeds the limit by the number of workers.

`AccountsProofs`. `AccountsSettle`: until it is `moved`, the account the player was
sent to is still the stored one, switched off or not. The rest is about `Venue`,
from one invariant, its type invariant `VenueTypeOK` (`VenueIsTyped`), whose part
that matters is that a listed arena opens before it closes, within one day.

* `QuotesAreKept`: `beats` orders rules up to ties, and rules that tie ask the same
  price (`BeatsIsAWeakOrder`); so the loop of `pickRule` ends with a rule that no
  covering rule beats, whatever the order of the rows (`PickedRuleWins`,
  `OrderSetsNoPrice`). The loop is a recursive function over the positions of the card; that it is what its equation says, and
  that its result wins, is shown by taking the least position at which it would not.
* `FreeHoursBook` and `EveryHourIsShown`: a cell of the grid, computed in whole hours
  of a local day, passes or fails the same checks as a booking, which computes
  with instants. The lemmas are those of a clock: division is unique
  (`DivisionIsUnique`), the time of day of an instant within a day (`TimeOfDay`), the
  end of an hour that ends at midnight (`HourWithinHours`), and that the window the
  page asks bookings for holds all that could clash with a cell
  (`WindowSuffices`).

Only model-checked: the liveness properties (`LapsedHoldsAreReleased`,
`BookedHoursEnd`, `PaidIsRecorded`, `AttemptsEnd`, `StartedCallsAreClosed`), since fairness and ENABLED are out of the prover's reach,
and the three properties the code breaks (section 5). Every other property of a
run is a theorem.

## 5. Where code and comments disagree

Each of the first three is a run that TLC answers with a shortest behaviour.

1. `MCSettleTxCancel`. `Cancel` waits for the booking's row while a settlement
   commits and then cancels the hour just paid: its `not exists` was answered from
   the earlier snapshot. The comment at `postgres/booking.go:184` says the
   conditions of the UPDATE refuse a booking paid online. `Bookings` has this window
   too, as the step from `BeginCancel` to `Cancel`, and
   `PaidOnlineLosesItsHourOnlyToCancel` says that there is no other. That one action
   per transaction is justified for the rest is what `ActsAtomically` checks.
2. `MCSessionsReuse`. A refresh token presented after its exchange is refused, and
   all sessions of the user are to end (`postgres/session.go:59`). The revocation
   runs in the transaction that then returns the refusal as an error, on which
   `InTx` rolls back: nothing is revoked.
3. `MCReviews`. Two reviews committed side by side leave an arena's rating counting
   one of them until the next review; migration 0012 says "it averages every
   review". The trigger's aggregate is read before it waits for the arena's row.

Met while modelling, and not given a run of their own:

*Payments and bookings.* A late cancellation is recorded as 20 points although
the score is clamped at 0, so giving it back gives more than was taken
(`postgres/booking.go:268` against `domain/booking.go:274`). A hold released by
another player's `CreateHold` keeps its intent "initiated" for good
(`service/booking.go:96` against `service/janitor.go:15`). `Checkout`'s intent may be
inserted on a booking its player has just cancelled (`service/payment.go:75`
considers only the janitor); money that follows is owed back. `Settle` and the
sweep lock payment and booking in opposite orders, and the victim of their
deadlock is not retried (`IsRetryable`, `postgres/db.go:163`, has no caller).
Overlapping holds with different starts do reach the constraint, which
`postgres/booking.go:145` says happens only if earlier steps are wrong. A cash
request older than `BookCash` stays open when its hold is paid online
(`postgres/payment.go:231`). A post inserted just after its booking was cancelled
stays on the board (`service/matchmaking.go:71`). Two penalties, or a penalty and a
restoration, at the same time leave a standing that counts one of them, although the
comments compute it from "the score as it stands" (`postgres/booking.go:260`, `:385`):
the CTE reads the users row in the statement's snapshot and the UPDATE waits for it
afterwards. A ban is a calendar month from the last penalty: a month from 31 January,
11:00, ends before one from 30 January, 12:00, so a second penalty can shorten a ban
(`postgres/booking.go:273`, `domain/booking.go:222`). `BookCash` and the venue's buttons
judge a hold by `now()`, which is the start of their transaction: one that lapsed while
they waited for its row is confirmed, where `postgres/payment.go:286-289` has no cash
payment "on a hold that lapsed". A replaced merchant account makes
eSewa answer "failed" for money paid to the old one. The comment at
`api/owner.go:485` still calls the venue's approval the only way a cash booking
becomes confirmed. A confirmed cash booking counts as played once its hour is
over, paid or not (`postgres/review.go:28`).

*Sessions.* "There is no window where the password is new but the old sessions still
work" (`postgres/user.go:147-150`) has two: an exchange that stores its successor while
`UpdatePassword` waits for the exchanged row, which its UPDATE saw and the successor's
it did not; and a login that has checked the old password and stores its session after
the new one is written. `OnlyARaceOutlivesThePassword` says there are no others. A login that rehashes a weak hash writes the password it verified,
which may have been changed meanwhile (`service/auth.go:114`). The loser of two
refreshes clears the winner's cookie (`api/auth.go:231`). A crash between consuming
a reset link and writing the password burns the link (`service/auth.go:238`).
`RevokeAllForUser` and `MarkEmailVerified` have no caller.

*Teams, results, tournaments.* "A squad is at most twenty people" (`postgres/team.go:21`,
`MaxSquadSize` in `domain/team.go:39`) is checked on a count read before the insert and
by nothing after it: joins at the same time overrun it, by fewer players than there are
requests at a time (`SquadOverrunIsBounded`). A captain can be removed on a read from before he
got the armband; a result can be confirmed or withdrawn on a stale read; one
person may report for one side, hand over, and confirm for the other
(`domain/team.go:163`); a team may enter after the organiser
closed the list (`service/tournament.go:104`); the organiser may set any status by
hand. Two disbandings may deadlock in the order their triggers lock tournaments.
Results without a booking have no uniqueness.

*Board, venue, media.* Editing a call's places recomputes neither `filled` nor
`open` (hence `edited`). A slot ending at midnight is checked against the closing
time only (`domain/slot.go:93`). Court and rates are two statements without a
transaction, so a price may be torn between an old base and new rules
(`postgres/availability.go:50`). In a zone west of UTC the grid's day is off by one.
Copying rates twice duplicates them. An upload whose client leaves after the
insert has its file deleted under the row (`api/reviews.go:230`), and a deleted
photo row leaves its file.

## 6. Not modelled

* **Rate limiter** (`api/`): buckets under one mutex; each call is one critical
  section, and no other state depends on the outcome.
* **Migration runner** (`postgres/migrate.go`): one session lock around a loop of one
  transaction per file; two processes run one after the other.
* **Process, configuration, mail, media storage, encryption**: input and output with no
  shared state. Profile fields of a user are written by that user alone.
* **Web client** (`src/web/src`): pages render what the API says. Its cookies and tabs
  are in `Sessions`; its single-flight refresh covers one tab and is not assumed.
* **Scripts and deployment**; encoding, routing, texts and layout of the API.
* Within modelled components: truncation of instants to the minute in
  `WithinOperatingHours` (`domain/slot.go:93`; slots are whole ticks), the refusal of a result
  whose reporter's account is gone (`domain/team.go`), e-mail verification (never called), renaming teams and
  new invite codes (read by nothing), standings (a query), results without a
  booking, texts and pictures of arenas, signatures and amounts at the gateways.
  The gateways and PostgreSQL are external and modelled from their use.

## 7. Running it

    tlc -workers 2 -config MCBookings.cfg MCBookings.tla
    tlc -workers 2 -config MCBoard.cfg Board.tla
    tlapm BookingsProofs.tla

`PROJECT.json` names the module of each configuration, the mutation that each
property catches, the source lines of each definition, and the theorems.
