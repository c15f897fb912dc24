------------------------------- MODULE HoldTx -------------------------------
(***************************************************************************)
(* CreateHold on one court, one SQL statement per action: the advisory     *)
(* lock on court and start, the release of an expired hold in the way, the *)
(* pre-check, and the insert under the EXCLUDE constraint.  The expired    *)
(* hold may still be paid for while players compete for its hour.          *)
(***************************************************************************)
EXTENDS Naturals

CONSTANTS
    Requests,   \* CreateHold transactions; each inserts a row of its own
    SlotOf,     \* the slot each asks for
    OldSlot,    \* the slot of the hold that has expired
    Nobody

Starts == {SlotOf[t].start : t \in Requests}

ASSUME SlotAssumption ==
    \A s \in {SlotOf[t] : t \in Requests} \cup {OldSlot} :
        s \in [start: Nat, end: Nat] /\ s.start < s.end
ASSUME RequestsAssumption == Requests # {}
ASSUME NobodyAssumption == Nobody \notin Requests

VARIABLES
    pc,         \* where each transaction is, or how it ended
    keyOwner,   \* holder of the advisory lock on each start
    old,        \* committed status of the expired hold
    oldOwner    \* the transaction that released it and has not ended

vars == <<pc, keyOwner, old, oldOwner>>

(* A request's row: visible to all once "held", to the constraint already  *)
(* while "inserted".                                                       *)
Running == {"begin", "release", "check", "insert", "inserted"}
Ended   == {"held", "taken", "excluded", "victim"}
OldStatus == {"pending", "confirmed", "cancelled"}

Init ==
    /\ pc = [t \in Requests |-> "begin"]
    /\ keyOwner = [k \in Starts |-> Nobody]
    /\ old = "pending"
    /\ oldOwner = Nobody

Overlap(s, t) == s.start < t.end /\ t.start < s.end

Rivals(t) == {u \in Requests \ {t} : Overlap(SlotOf[t], SlotOf[u])}
OldInTheWay(t) == Overlap(SlotOf[t], OldSlot)

(* A definition named Bug... is a later one with a plausible fault in it.   *)
(* Nothing uses them: they record what each property is able to catch.      *)
BugEndKeepsKey(t, outcome) ==
    /\ pc' = [pc EXCEPT ![t] = outcome]
    /\ oldOwner' = IF oldOwner = t THEN Nobody ELSE oldOwner
    /\ old' = IF oldOwner = t /\ outcome = "held" THEN "cancelled" ELSE old
    /\ UNCHANGED keyOwner

BugEndKeepsRelease(t, outcome) ==
    /\ pc' = [pc EXCEPT ![t] = outcome]
    /\ keyOwner' = [k \in Starts |-> IF keyOwner[k] = t THEN Nobody ELSE keyOwner[k]]
    /\ oldOwner' = IF oldOwner = t THEN Nobody ELSE oldOwner
    /\ old' = IF oldOwner = t THEN "cancelled" ELSE old

(* Commit or roll back: the advisory lock and the row lock go with it; the *)
(* release of the old hold becomes visible only with a hold that is kept.  *)
End(t, outcome) ==
    /\ pc' = [pc EXCEPT ![t] = outcome]
    /\ keyOwner' = [k \in Starts |-> IF keyOwner[k] = t THEN Nobody ELSE keyOwner[k]]
    /\ oldOwner' = IF oldOwner = t THEN Nobody ELSE oldOwner
    /\ old' = IF oldOwner = t /\ outcome = "held" THEN "cancelled" ELSE old

-----------------------------------------------------------------------------
AcquireKey(t) ==
    /\ pc[t] = "begin"
    /\ keyOwner[SlotOf[t].start] = Nobody
    /\ keyOwner' = [keyOwner EXCEPT ![SlotOf[t].start] = t]
    /\ pc' = [pc EXCEPT ![t] = "release"]
    /\ UNCHANGED <<old, oldOwner>>

BugReleaseExpired(t) ==
    /\ pc[t] = "release"
    /\ pc' = [pc EXCEPT ![t] = "check"]
    /\ UNCHANGED <<keyOwner, old, oldOwner>>

(* The UPDATE waits for the row if another transaction holds it, then      *)
(* looks at its status again.                                              *)
ReleaseExpired(t) ==
    /\ pc[t] = "release"
    /\ IF OldInTheWay(t) /\ old = "pending"
       THEN oldOwner = Nobody /\ oldOwner' = t
       ELSE UNCHANGED oldOwner
    /\ pc' = [pc EXCEPT ![t] = "check"]
    /\ UNCHANGED <<keyOwner, old>>

SlotTaken(t) == \/ \E u \in Rivals(t) : pc[u] = "held"
                \/ OldInTheWay(t) /\ old = "confirmed"

PreCheck(t) ==
    /\ pc[t] = "check"
    /\ IF SlotTaken(t) THEN End(t, "taken")
       ELSE pc' = [pc EXCEPT ![t] = "insert"] /\ UNCHANGED <<keyOwner, old, oldOwner>>

(* The row is in the index before the constraint is looked at. *)
Insert(t) ==
    /\ pc[t] = "insert"
    /\ pc' = [pc EXCEPT ![t] = "inserted"]
    /\ UNCHANGED <<keyOwner, old, oldOwner>>

(* Refused by a committed row; made to wait by a row whose transaction is  *)
(* still running; committed otherwise.                                     *)
Excluded(t) == \/ \E u \in Rivals(t) : pc[u] = "held"
               \/ OldInTheWay(t) /\ oldOwner # t /\ old # "cancelled"
WaitsFor(t, u) ==
    \/ pc[t] = "inserted" /\ u \in Rivals(t) /\ pc[u] = "inserted"
    \/ pc[t] = "begin" /\ keyOwner[SlotOf[t].start] = u
    \/ pc[t] = "release" /\ OldInTheWay(t) /\ old = "pending" /\ oldOwner = u

ExcludeCheck(t) ==
    /\ pc[t] = "inserted"
    /\ \/ Excluded(t) /\ End(t, "excluded")
       \/ /\ ~Excluded(t)
          /\ \A u \in Requests : ~WaitsFor(t, u)
          /\ End(t, "held")

(* External: Postgres fails one transaction of a ring of waiting ones. *)
Ring(S) == \A t \in S : /\ \E u \in S : WaitsFor(t, u)
                       /\ \E u \in S : WaitsFor(u, t)
DeadlockVictim(t) ==
    /\ pc[t] \in Running
    /\ \E S \in SUBSET Requests : t \in S /\ Ring(S)
    /\ End(t, "victim")

(* External to CreateHold: a gateway callback confirms the old hold, which *)
(* an expired hold still can be, if its row is free.                       *)
SettleOld ==
    /\ old = "pending" /\ oldOwner = Nobody
    /\ old' = "confirmed"
    /\ UNCHANGED <<pc, keyOwner, oldOwner>>

Step(t) == \/ AcquireKey(t) \/ ReleaseExpired(t) \/ PreCheck(t)
           \/ Insert(t) \/ ExcludeCheck(t)

Next == SettleOld \/ \E t \in Requests : Step(t) \/ DeadlockVictim(t)

Spec == Init /\ [][Next]_vars

(* A transaction that can go on does, and the deadlock detector runs. *)
FairSpec == Spec /\ \A t \in Requests : WF_vars(Step(t))
                 /\ WF_vars(\E v \in Requests : DeadlockVictim(v))

-----------------------------------------------------------------------------
(* Types; a transaction holds the lock on its start from the moment it has *)
(* it until it ends, and the old hold's row only after releasing it.       *)
TypeOK ==
    /\ pc \in [Requests -> Running \cup Ended]
    /\ keyOwner \in [Starts -> Requests \cup {Nobody}]
    /\ old \in OldStatus
    /\ oldOwner \in Requests \cup {Nobody}
    /\ \A t \in Requests, k \in Starts :
          keyOwner[k] = t <=> SlotOf[t].start = k /\ pc[t] \in Running \ {"begin"}
    /\ oldOwner # Nobody => pc[oldOwner] \in Running \ {"begin", "release"}

(* No two holds that overlap are ever both committed, nor one that         *)
(* overlaps the old booking while that is not given up, whichever way the  *)
(* transactions interleave.                                                *)
NoDoubleBooking ==
    \A t \in Requests : pc[t] = "held" =>
        /\ \A u \in Requests \ {t} : pc[u] = "held" =>
              \/ SlotOf[t].end <= SlotOf[u].start
              \/ SlotOf[u].end <= SlotOf[t].start
        /\ OldInTheWay(t) => old = "cancelled"

(* The slots and who has them, the old hold as row Nobody. *)
InCalendar(s) == [court |-> "court", start |-> s.start, end |-> s.end]
calendarStatus == [r \in Requests \cup {Nobody} |->
    IF r # Nobody THEN IF pc[r] = "held" THEN "held" ELSE "none"
    ELSE CASE old = "pending" -> "held" [] old = "confirmed" -> "booked" [] OTHER -> "gone"]
calendarPlace == [r \in Requests \cup {Nobody} |->
    InCalendar(IF r = Nobody THEN OldSlot ELSE SlotOf[r])]
OneByOne == INSTANCE Calendar WITH
    Rows <- Requests \cup {Nobody}, Places <- {InCalendar(SlotOf[t]) : t \in Requests},
    status <- calendarStatus, place <- calendarPlace

(* CreateHold takes effect at one instant: an attempt takes its slot when  *)
(* it commits, against the rows of that instant, and gives up the old hold *)
(* (row Nobody) with that or not at all.                                   *)
CreatesAtomically == OneByOne!ContendSpec

(* A refused attempt leaves the old hold as it was: it is given up only    *)
(* for a hold that has taken its place.                                    *)
OldHoldYieldsOnlyToAHold ==
    old = "cancelled" => \E t \in Requests : pc[t] = "held" /\ OldInTheWay(t)

(* Contenders never all lose: when every request for a slot in the same    *)
(* hour is over, the hour is somebody's.                                   *)
SomeoneGetsTheHour ==
    (\A t \in Requests : pc[t] \in Ended) =>
        old = "confirmed" \/ \E t \in Requests : pc[t] = "held"

(* Every attempt is answered. *)
AttemptsEnd == \A t \in Requests : <>(pc[t] \in Ended)

(* The advisory lock and the pre-check leave little to the constraint: it  *)
(* refuses an attempt only for a rival that starts at another time and     *)
(* committed after the attempt had looked, never for the old hold.         *)
ConstraintDecidesOnlyBetweenStarts ==
    \A t \in Requests : pc[t] = "excluded" =>
        \E u \in Rivals(t) : pc[u] = "held" /\ SlotOf[u].start # SlotOf[t].start

(* The constraint is reached only if steps 1 to 3 are wrong.  (Said of     *)
(* CreateHold; overlapping slots with different starts do reach it.)       *)
ConstraintIsNeverReached ==
    \A t \in Requests : pc[t] # "excluded"

=============================================================================
