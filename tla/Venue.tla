-------------------------------- MODULE Venue --------------------------------
(***************************************************************************)
(* One arena, its courts and their rate cards, kept by its owner while     *)
(* players look at the hours and book them.                                *)
(*                                                                         *)
(* Every write of the owner is one statement that carries the ownership in *)
(* its WHERE clause.  Taking a hold reads the court and then its rules (two*)
(* statements of one batch, without a transaction), prices the slot in     *)
(* memory, and inserts; the three steps are separate actions here.         *)
(* The life of a booking after that is module Bookings'.                   *)
(***************************************************************************)
EXTENDS Slots, TLC

CONSTANTS
    Owner, Stranger,     \* signed-in users; Null is a visitor
    Courts,
    OpeningHours,        \* <<opens, closes>> pairs an owner may set
    Bases, Rules,        \* hourly prices and rate windows an owner may set
    MaxRules,            \* bound on the length of a rate card
    Dates, AskedSlots,   \* the days players look at, the slots they ask for
    MaxBooked,           \* bound on the bookings that block an hour
    MaxNow               \* bound on the clock

ASSUME VenueAssumption ==
    /\ OpeningHours \subseteq Int \X Int /\ Bases \subseteq Int /\ Rules \subseteq RateRule
    /\ Dates \subseteq Int /\ AskedSlots \subseteq [start : Int, end : Int]

CourtRow == [active : BOOLEAN, base : Int, rules : Seq(RateRule)]
ASSUME NullIsNoCourt == Null \notin CourtRow

VARIABLES
    arena,      \* [owner, active, opens, closes], Null until it is listed
    courts,     \* [active, base, rules] of each court, Null until created
    taken,      \* [court, slot] of the bookings that block their slot
    hold,       \* the player's request being served, Null when there is none
    now

venueVars == <<arena, courts, taken, hold, now>>

Visitors == {Owner, Stranger, Null}

VenueInit ==
    /\ arena = Null
    /\ courts = [c \in Courts |-> Null]
    /\ taken = {}
    /\ hold = Null
    /\ now = 0

-----------------------------------------------------------------------------
(* Owner-scoped statements (postgres.ArenaRepo). *)

Owns(u) == arena # Null /\ arena.owner = u
OwnsCourt(u, c) == Owns(u) /\ courts[c] # Null

CreateArenaRow(u, h) ==
    /\ arena = Null
    /\ arena' = [owner |-> u, active |-> TRUE, opens |-> h[1], closes |-> h[2]]
    /\ UNCHANGED <<courts, taken, hold, now>>

UpdateArenaOwnerScoped(u, h) ==
    /\ Owns(u)
    /\ arena' = [arena EXCEPT !.opens = h[1], !.closes = h[2]]
    /\ UNCHANGED <<courts, taken, hold, now>>

SetArenaActiveOwnerScoped(u, active) ==
    /\ Owns(u)
    /\ arena' = [arena EXCEPT !.active = active]
    /\ UNCHANGED <<courts, taken, hold, now>>

WriteCourt(c, row) ==
    /\ courts' = [courts EXCEPT ![c] = row]
    /\ UNCHANGED <<arena, taken, hold, now>>

CreateCourtOwnerScoped(u, c, base) ==
    /\ Owns(u) /\ courts[c] = Null
    /\ WriteCourt(c, [active |-> TRUE, base |-> base, rules |-> <<>>])

UpdateCourtOwnerScoped(u, c, base) ==
    OwnsCourt(u, c) /\ WriteCourt(c, [courts[c] EXCEPT !.base = base])

SetCourtActiveOwnerScoped(u, c, active) ==
    OwnsCourt(u, c) /\ WriteCourt(c, [courts[c] EXCEPT !.active = active])

(* Days are stored as ISO numbers. *)
isoDays(r) == [r EXCEPT !.days = {ISOWeekday(d) : d \in r.days}]
scanPricingRule(row) == [row EXCEPT !.days = {WeekdayFromISO(i) : i \in row.days}]

CreatePricingRuleOwnerScoped(u, c, r) ==
    /\ OwnsCourt(u, c) /\ Len(courts[c].rules) < MaxRules
    /\ WriteCourt(c, [courts[c] EXCEPT !.rules = Append(@, isoDays(r))])

(* Appends, so that what was there is kept and may now be there twice.      *)
CopyPricingRulesOwnerScoped(u, from, to) ==
    /\ from # to /\ OwnsCourt(u, from) /\ OwnsCourt(u, to)
    /\ Len(courts[from].rules) + Len(courts[to].rules) <= MaxRules
    /\ WriteCourt(to, [courts[to] EXCEPT !.rules = @ \o courts[from].rules])

DeletePricingRuleOwnerScoped(u, c, i) ==
    /\ OwnsCourt(u, c) /\ i \in DOMAIN courts[c].rules
    /\ WriteCourt(c, [courts[c] EXCEPT !.rules = RemoveAt(@, i)])

-----------------------------------------------------------------------------
(* service.OwnerService.  An account that is not an owner's may not list a  *)
(* venue; everything else is left to the statement.                         *)

SignedIn(u) == u # Null
requireOwnerAccount(u) == SignedIn(u) /\ u = Owner
ArenaIsValid(h) == h[1] < h[2] /\ h[1] >= 0 /\ h[2] <= Day
CourtIsValid(base) == base > 0

CreateArena(u, h) == requireOwnerAccount(u) /\ ArenaIsValid(h) /\ CreateArenaRow(u, h)
UpdateArena(u, h) == SignedIn(u) /\ ArenaIsValid(h) /\ UpdateArenaOwnerScoped(u, h)
SetArenaActive(u, active) == SignedIn(u) /\ SetArenaActiveOwnerScoped(u, active)
CreateCourt(u, c, base) ==
    SignedIn(u) /\ CourtIsValid(base) /\ CreateCourtOwnerScoped(u, c, base)
UpdateCourt(u, c, base) ==
    SignedIn(u) /\ CourtIsValid(base) /\ UpdateCourtOwnerScoped(u, c, base)
SetCourtActive(u, c, active) == SignedIn(u) /\ SetCourtActiveOwnerScoped(u, c, active)
CreatePricingRule(u, c, r) ==
    SignedIn(u) /\ RuleIsValid(r) /\ CreatePricingRuleOwnerScoped(u, c, r)
CopyPricingRules(u, from, to) == SignedIn(u) /\ CopyPricingRulesOwnerScoped(u, from, to)
DeletePricingRule(u, c, i) == SignedIn(u) /\ DeletePricingRuleOwnerScoped(u, c, i)

handleCreateArena(u) == \E h \in OpeningHours : CreateArena(u, h)
handleUpdateArena(u) == \E h \in OpeningHours : UpdateArena(u, h)
handleSetArenaActive(u) == \E active \in BOOLEAN : SetArenaActive(u, active)
handleCreateCourt(u) == \E c \in Courts, base \in Bases : CreateCourt(u, c, base)
handleUpdateCourt(u) == \E c \in Courts, base \in Bases : UpdateCourt(u, c, base)
handleSetCourtActive(u) == \E c \in Courts, active \in BOOLEAN : SetCourtActive(u, c, active)
handleCreatePricingRule(u) == \E c \in Courts, r \in Rules : CreatePricingRule(u, c, r)
handleCopyPricingRules(u) == \E from, to \in Courts : CopyPricingRules(u, from, to)
handleDeletePricingRule(u) ==
    \E c \in Courts, i \in 1 .. MaxRules : DeletePricingRule(u, c, i)

-----------------------------------------------------------------------------
(* What the public pages read.                                              *)

IsBookable(c) == courts[c] # Null /\ courts[c].active /\ arena.active

List == arena # Null /\ arena.active
FromPrice == {courts[c].base : c \in {k \in Courts : courts[k] # Null /\ courts[k].active}}
ListAreas == arena # Null /\ arena.active /\ \E c \in Courts : courts[c] # Null /\ courts[c].active
LedgerCourts == {c \in Courts : arena # Null /\ IsBookable(c)}

(* The rows of a card come by descending priority, ties in any order.       *)
RowOrders(rows) ==
    {card \in {[i \in DOMAIN rows |-> scanPricingRule(rows[p[i]])] : p \in Bijection(DOMAIN rows, DOMAIN rows)} :
        \A i, j \in DOMAIN rows : i < j => card[i].priority >= card[j].priority}

BookedRanges(c, window) ==
    {b.slot : b \in {k \in taken : k.court = c /\ Overlaps(k.slot, window)}}
BookedRangesForCourts(cs, window) == [c \in cs |-> BookedRanges(c, window)]

GridOf(c, card, day, booked) ==
    BuildGrid(day, arena.opens, arena.closes, courts[c].base, card, booked, now)

(* Each grid the two reads may answer with, over the orders of the rows.    *)
Availability(c, day) ==
    {GridOf(c, card, day, BookedRanges(c, GridWindow(day))) : card \in RowOrders(courts[c].rules)}
CityLedger(day) ==
    LET booked == BookedRangesForCourts(LedgerCourts, GridWindow(day))
    IN  [c \in LedgerCourts |->
            {GridOf(c, card, day, booked[c]) : card \in RowOrders(courts[c].rules)}]

-----------------------------------------------------------------------------
(* service.BookingService.Create. *)

(* The checks made before the database is asked, and the first statement.   *)
(* What it reads of court and arena decides whether the slot is refused.    *)
LoadCourt(u, c, s) ==
    /\ hold = Null /\ SignedIn(u)
    /\ Validate(s) /\ ~IsPast(s, now)
    /\ IsBookable(c)
    /\ WithinOperatingHours(s, arena.opens, arena.closes)
    /\ hold' = [court |-> c, slot |-> s, base |-> courts[c].base, price |-> Null]
    /\ UNCHANGED <<arena, courts, taken, now>>

handleCreateBooking(u) == \E c \in Courts, s \in AskedSlots : LoadCourt(u, c, s)

(* The second statement reads the rules, and the slot is priced.            *)
LoadRules ==
    /\ hold # Null /\ hold.price = Null
    /\ \E card \in RowOrders(courts[hold.court].rules) :
           hold' = [hold EXCEPT !.price = ResolvePrice(hold.base, card, hold.slot)]
    /\ UNCHANGED <<arena, courts, taken, now>>

Booking(h) == [court |-> h.court, slot |-> h.slot]

(* The insert; a taken slot is refused.  The price is in the row for good,  *)
(* and of no more use to the venue.                                         *)
CreateHold ==
    /\ hold # Null /\ hold.price # Null
    /\ IF \E b \in taken : b.court = hold.court /\ Overlaps(b.slot, hold.slot)
       THEN UNCHANGED taken
       ELSE Cardinality(taken) < MaxBooked /\ taken' = taken \cup {Booking(hold)}
    /\ hold' = Null
    /\ UNCHANGED <<arena, courts, now>>

(* A booking is cancelled or lapses. *)
Release == \E b \in taken : taken' = taken \ {b} /\ UNCHANGED <<arena, courts, hold, now>>

Tick == now < MaxNow /\ now' = now + 1 /\ UNCHANGED <<arena, courts, taken, hold>>

OwnerStep(u) ==
    \/ handleCreateArena(u) \/ handleUpdateArena(u) \/ handleSetArenaActive(u)
    \/ handleCreateCourt(u) \/ handleUpdateCourt(u) \/ handleSetCourtActive(u)
    \/ handleCreatePricingRule(u) \/ handleCopyPricingRules(u) \/ handleDeletePricingRule(u)

VenueStep ==
    \/ \E u \in Visitors : OwnerStep(u) \/ handleCreateBooking(u)
    \/ LoadRules \/ CreateHold \/ Release \/ Tick

-----------------------------------------------------------------------------
(* Properties. *)

(* A listed arena opens before it closes, within one day, and what the      *)
(* courts, their cards and the rows that block an hour hold is what was     *)
(* asked for.                                                               *)
VenueTypeOK ==
    /\ arena # Null =>
           /\ arena \in [owner : Visitors, active : BOOLEAN, opens : Int, closes : Int]
           /\ 0 <= arena.opens /\ arena.opens < arena.closes /\ arena.closes <= Day
    /\ courts \in [Courts -> {Null} \cup CourtRow]
    /\ taken \subseteq [court : Courts, slot : AskedSlots]
    /\ hold # Null =>
           /\ hold \in [court : Courts, slot : AskedSlots, base : Int, price : {Null} \cup Int]
           /\ courts[hold.court] # Null
    /\ now \in Nat

(* What Create answers for a slot when nothing changes under it.            *)
WouldBook(c, s) ==
    /\ Validate(s) /\ ~IsPast(s, now) /\ IsBookable(c)
    /\ WithinOperatingHours(s, arena.opens, arena.closes)
    /\ \A b \in taken : b.court = c => ~Overlaps(b.slot, s)

(* The grids of a court that the court's page and the city's may show.      *)
GridsOf(day) == LET city == CityLedger(day) IN [c \in LedgerCourts |-> Availability(c, day) \cup city[c]]

(* An hour the grid of a court or of the city shows as free is one that     *)
(* will book if it is asked for at once (postgres/availability.go:115).     *)
FreeCellsCanBeBooked ==
    \A day \in Dates : LET grids == GridsOf(day) IN
        \A c \in LedgerCourts : \A cell \in UNION grids[c] :
            Available(cell) => WouldBook(c, cell.slot)

(* A grid hides no hour: whichever read made it, every whole hour of the    *)
(* day, counted from opening, that would book is on it and shown as free.   *)
GridsHideNothing ==
    \A day \in Dates : LET grids == GridsOf(day) IN
        \A c \in LedgerCourts : \A t \in {Midnight(day) + arena.opens + k * Hour : k \in 0 .. Day \div Hour} :
            LET s == Slot(t, t + Hour) IN
            /\ LocalDay(t) = day /\ t >= now /\ WouldBook(c, s)
            => \A grid \in grids[c] : \E cell \in grid : cell.slot = s /\ Available(cell)

(* The price a grid shows for an hour is the price the booking is charged,  *)
(* in whatever order either read met the rows of the rate card.             *)
QuotedPriceIsCharged ==
    \A day \in Dates : LET grids == GridsOf(day) IN
        \A c \in LedgerCourts : LET cards == RowOrders(courts[c].rules) IN
            \A cell \in UNION grids[c] : \A card \in cards :
                ResolvePrice(courts[c].base, card, cell.slot) = cell.price
=============================================================================
