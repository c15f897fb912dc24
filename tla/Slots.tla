-------------------------------- MODULE Slots --------------------------------
(***************************************************************************)
(* Intervals of time, opening hours, hourly rates and the grid of hours:   *)
(* the pure part of selling a court (domain/slot.go, pricing.go and        *)
(* availability.go).  Instants are integers; the zone is a fixed Offset.   *)
(***************************************************************************)
EXTENDS Integers, FiniteSets, SequencesExt

CONSTANTS
    Hour, Day,            \* their lengths in ticks of the model's clock
    Offset,               \* local time minus UTC
    MinBookingDuration, MaxBookingDuration, PastSlotGrace,
    Null

ASSUME SlotsAssumption ==
    /\ {Hour, Day, MinBookingDuration, MaxBookingDuration} \subseteq Nat \ {0}
    /\ Day % Hour = 0 /\ Offset \in 0 .. Day - 1 /\ PastSlotGrace \in Nat
    /\ Hour \in MinBookingDuration .. MaxBookingDuration

(* A definition named Bug... is a later one with a plausible fault in it.   *)
(* Nothing uses them: they record what each property is able to catch.      *)

LocalDay(t) == (t + Offset) \div Day
DayTimeOf(t) == (t + Offset) % Day
Midnight(day) == day * Day - Offset
LocalHour(t) == DayTimeOf(t) \div Hour
Weekday(t) == LocalDay(t) % 7          \* 0 is a Sunday

ISOWeekday(d) == IF d = 0 THEN 7 ELSE d
WeekdayFromISO(iso) == IF iso = 7 THEN 0 ELSE iso

-----------------------------------------------------------------------------
(* Slots are half-open. *)

Slot(start, end) == [start |-> start, end |-> end]
Validate(s) ==
    /\ s.end > s.start
    /\ s.end - s.start \in MinBookingDuration .. MaxBookingDuration
Hours(s) == (s.end - s.start + Hour - 1) \div Hour

Overlaps(s, other) == s.start < other.end /\ other.start < s.end
IsPast(s, now) == s.start < now - PastSlotGrace

(* A slot that ends at midnight is only checked against the closing time.   *)
WithinOperatingHours(s, opens, closes) ==
    IF LocalDay(s.start) = LocalDay(s.end)
    THEN DayTimeOf(s.start) >= opens /\ DayTimeOf(s.end) <= closes
    ELSE /\ DayTimeOf(s.end) = 0 /\ LocalDay(s.end) - 1 = LocalDay(s.start)
         /\ closes \in {Day, 0}

-----------------------------------------------------------------------------
(* Rates.  A rule is [days, start, end, price, priority]; a card is the     *)
(* sequence of a court's rules in the order the rows were read.             *)

RateRule == [days : SUBSET Int, start : Int, end : Int, price : Int, priority : Int]
ASSUME NullIsNoRule == Null \notin RateRule

RuleIsValid(r) ==
    /\ r.days # {} /\ r.days \subseteq 0 .. 6
    /\ r.start >= 0 /\ r.end > r.start /\ r.end * Hour <= Day
    /\ r.price > 0

Covers(r, t) == Weekday(t) \in r.days /\ LocalHour(t) \in r.start .. r.end - 1
span(r) == r.end - r.start

BugBeats(candidate, incumbent) ==
    IF candidate.priority # incumbent.priority
    THEN candidate.priority > incumbent.priority
    ELSE span(candidate) < span(incumbent)
beats(candidate, incumbent) ==
    \/ candidate.priority > incumbent.priority
    \/ /\ candidate.priority = incumbent.priority
       /\ \/ span(candidate) < span(incumbent)
          \/ span(candidate) = span(incumbent) /\ candidate.price > incumbent.price

pickRule(card, t) ==
    LET best[n \in 0 .. Len(card)] ==
            IF n = 0 THEN Null
            ELSE IF Covers(card[n], t) /\ (best[n - 1] = Null \/ beats(card[n], best[n - 1]))
                 THEN card[n]
                 ELSE best[n - 1]
    IN  best[Len(card)]

ResolvePrice(base, card, s) ==
    LET best == pickRule(card, s.start)
    IN  (IF best = Null THEN base ELSE best.price) * Hours(s)

-----------------------------------------------------------------------------
(* The grid of one date: whole hours from opening, the last ending by       *)
(* closing time.                                                            *)

BugOverlapsAny(s, taken) == \E t \in taken : s.start <= t.end /\ t.start <= s.end
overlapsAny(s, taken) == \E t \in taken : Overlaps(s, t)
Available(cell) == ~cell.booked /\ ~cell.past

BugCells(opens, closes) == {k \in 0 .. Day \div Hour : opens + k * Hour < closes}
Cells(opens, closes) == {k \in 0 .. Day \div Hour : opens + (k + 1) * Hour <= closes}

BuildGrid(day, opens, closes, base, card, taken, now) ==
    {LET start == Midnight(day) + opens + k * Hour
         slot == Slot(start, start + Hour)
     IN  [slot |-> slot, price |-> ResolvePrice(base, card, slot),
          booked |-> overlapsAny(slot, taken), past |-> start < now] :
        k \in Cells(opens, closes)}

(* The local day, in which the bookings of a grid are looked for.           *)
GridWindow(day) == Slot(Midnight(day), Midnight(day + 1))
=============================================================================
