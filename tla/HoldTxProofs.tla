---------------------------- MODULE HoldTxProofs ----------------------------
(***************************************************************************)
(* What HoldTx keeps for any number of contenders and any slots: the locks *)
(* are held and given back as they should be, no two overlapping holds are *)
(* both committed, and the advisory lock with the pre-check leaves to the  *)
(* constraint only rivals that start at different times.                   *)
(***************************************************************************)
EXTENDS HoldTx, TLAPS

(* A request's start is a start the lock table has. *)
LEMMA StartType == ASSUME NEW t \in Requests PROVE SlotOf[t].start \in Starts
  BY DEF Starts

(* The initial state is well typed. *)
LEMMA InitType == Init => TypeOK
  BY NobodyAssumption DEF Init, TypeOK, Running, Ended, OldStatus

(* Commit and roll back keep types and lock discipline. *)
LEMMA EndType ==
    ASSUME TypeOK, NEW t \in Requests, NEW outcome \in Ended, pc[t] \in Running, End(t, outcome)
    PROVE  TypeOK'
<1>1. /\ pc' \in [Requests -> Running \cup Ended]
      /\ keyOwner' \in [Starts -> Requests \cup {Nobody}]
      /\ old' \in OldStatus
      /\ oldOwner' \in Requests \cup {Nobody}
    BY DEF TypeOK, End, OldStatus
<1>2. ASSUME NEW u \in Requests, NEW k \in Starts
      PROVE  keyOwner'[k] = u <=> SlotOf[u].start = k /\ pc'[u] \in Running \ {"begin"}
  <2>1. keyOwner'[k] = IF keyOwner[k] = t THEN Nobody ELSE keyOwner[k]
      BY DEF End
  <2>2. pc'[u] = IF u = t THEN outcome ELSE pc[u]
      BY DEF End, TypeOK
  <2>3. outcome \notin Running
      BY DEF Running, Ended
  <2> QED
      BY <2>1, <2>2, <2>3, NobodyAssumption DEF TypeOK
<1>3. oldOwner' # Nobody => pc'[oldOwner'] \in Running \ {"begin", "release"}
    BY DEF TypeOK, End
<1> QED
    BY <1>1, <1>2, <1>3 DEF TypeOK

(* So does every step. *)
LEMMA StepType == TypeOK /\ [Next]_vars => TypeOK'
<1> SUFFICES ASSUME TypeOK, [Next]_vars PROVE TypeOK'
    OBVIOUS
<1>1. CASE SettleOld
    BY <1>1 DEF SettleOld, TypeOK, OldStatus
<1>2. ASSUME NEW t \in Requests, AcquireKey(t) PROVE TypeOK'
    BY <1>2, StartType, NobodyAssumption DEF AcquireKey, TypeOK, Running
<1>3. ASSUME NEW t \in Requests, ReleaseExpired(t) PROVE TypeOK'
    BY <1>3, NobodyAssumption DEF ReleaseExpired, TypeOK, Running
<1>4. ASSUME NEW t \in Requests, PreCheck(t) PROVE TypeOK'
  <2>1. CASE SlotTaken(t)
      BY <1>4, <2>1, EndType DEF PreCheck, Running, Ended
  <2>2. CASE ~SlotTaken(t)
      BY <1>4, <2>2, NobodyAssumption DEF PreCheck, TypeOK, Running
  <2> QED
      BY <2>1, <2>2
<1>5. ASSUME NEW t \in Requests, Insert(t) PROVE TypeOK'
    BY <1>5, NobodyAssumption DEF Insert, TypeOK, Running
<1>6. ASSUME NEW t \in Requests, ExcludeCheck(t) PROVE TypeOK'
    BY <1>6, EndType DEF ExcludeCheck, Running, Ended
<1>7. ASSUME NEW t \in Requests, DeadlockVictim(t) PROVE TypeOK'
    BY <1>7, EndType DEF DeadlockVictim, Ended
<1>8. CASE UNCHANGED vars
    BY <1>8 DEF vars, TypeOK
<1> QED
    BY <1>1, <1>2, <1>3, <1>4, <1>5, <1>6, <1>7, <1>8 DEF Next, Step

(* Every lock of CreateHold is taken once and given back at its end.       *)
THEOREM LocksAreHeldAndReturned == Spec => []TypeOK
<1>1. Init => TypeOK
    BY InitType
<1>2. TypeOK /\ [Next]_vars => TypeOK'
    BY StepType
<1> QED
    BY <1>1, <1>2, PTL DEF Spec

-----------------------------------------------------------------------------
(* What one step may do: keep who is held and the old hold, commit a hold  *)
(* the constraint lets through, or confirm the old hold.                   *)

Commits(t) ==
    /\ pc[t] = "inserted" /\ ~Excluded(t)
    /\ pc' = [pc EXCEPT ![t] = "held"]
    /\ old' = IF oldOwner = t THEN "cancelled" ELSE old

(* No other step commits a hold or touches the old one.                   *)
LEMMA StepEffect ==
    ASSUME TypeOK, [Next]_vars
    PROVE  \/ /\ \A u \in Requests : pc'[u] = "held" <=> pc[u] = "held"
              /\ old' = old \/ (old = "pending" /\ oldOwner = Nobody /\ old' = "confirmed")
           \/ \E t \in Requests : Commits(t)
<1> DEFINE Quiet == /\ \A u \in Requests : pc'[u] = "held" <=> pc[u] = "held"
                    /\ old' = old \/ (old = "pending" /\ oldOwner = Nobody /\ old' = "confirmed")
<1>1. ASSUME NEW t \in Requests, pc[t] \in Running, NEW outcome \in Ended, outcome # "held",
             End(t, outcome)
      PROVE  Quiet
    BY <1>1 DEF End, TypeOK, Running, Ended
<1>2. SettleOld \/ UNCHANGED vars => Quiet
    BY DEF SettleOld, vars
<1>3. \A t \in Requests : AcquireKey(t) \/ ReleaseExpired(t) \/ Insert(t) => Quiet
    BY DEF AcquireKey, ReleaseExpired, Insert, TypeOK
<1>4. ASSUME NEW t \in Requests, PreCheck(t) PROVE Quiet
  <2>1. CASE SlotTaken(t)
      BY <1>1, <1>4, <2>1 DEF PreCheck, Running, Ended
  <2>2. CASE ~SlotTaken(t)
      BY <1>4, <2>2 DEF PreCheck, TypeOK
  <2> QED
      BY <2>1, <2>2
<1>5. ASSUME NEW t \in Requests, ExcludeCheck(t) PROVE Quiet \/ Commits(t)
  <2>1. CASE Excluded(t)
      BY <1>1, <1>5, <2>1 DEF ExcludeCheck, Running, Ended
  <2>2. CASE ~Excluded(t)
      BY <1>5, <2>2 DEF ExcludeCheck, End, Commits
  <2> QED
      BY <2>1, <2>2
<1>6. ASSUME NEW t \in Requests, DeadlockVictim(t) PROVE Quiet
    BY <1>1, <1>6 DEF DeadlockVictim, Ended
<1> HIDE DEF Quiet
<1>7. Quiet \/ \E t \in Requests : Commits(t)
    BY <1>2, <1>3, <1>4, <1>5, <1>6 DEF Next, Step
<1> QED
    BY <1>7 DEF Quiet

(* Slots that are no rivals do not meet. *)
LEMMA Disjoint ==
    ASSUME NEW t \in Requests, NEW u \in Requests, t # u, u \notin Rivals(t)
    PROVE  SlotOf[t].end <= SlotOf[u].start \/ SlotOf[u].end <= SlotOf[t].start
  BY SlotAssumption DEF Rivals, Overlap

(* A commit the constraint lets through leaves no overlap. *)
LEMMA NoDoubleStep == TypeOK /\ NoDoubleBooking /\ [Next]_vars => NoDoubleBooking'
<1> SUFFICES ASSUME TypeOK, NoDoubleBooking, [Next]_vars PROVE NoDoubleBooking'
    OBVIOUS
<1>1. CASE /\ \A u \in Requests : pc'[u] = "held" <=> pc[u] = "held"
           /\ old' = old \/ (old = "pending" /\ oldOwner = Nobody /\ old' = "confirmed")
    BY <1>1 DEF NoDoubleBooking, OldInTheWay
<1>2. ASSUME NEW t \in Requests, Commits(t) PROVE NoDoubleBooking'
  <2>1. \A u \in Requests : pc'[u] = IF u = t THEN "held" ELSE pc[u]
      BY <1>2 DEF Commits, TypeOK
  <2>2. \A u \in Requests \ {t} : pc[u] = "held" =>
            \/ SlotOf[t].end <= SlotOf[u].start
            \/ SlotOf[u].end <= SlotOf[t].start
      BY <1>2, Disjoint DEF Commits, Excluded
  <2>3. OldInTheWay(t) => old' = "cancelled"
      BY <1>2 DEF Commits, Excluded
  <2>4. old = "cancelled" => old' = "cancelled"
      BY <1>2 DEF Commits
  <2> QED
      BY <2>1, <2>2, <2>3, <2>4 DEF NoDoubleBooking, OldInTheWay
<1> QED
    BY <1>1, <1>2, StepEffect

(* CreateHold and the EXCLUDE constraint, statement by statement: no two   *)
(* overlapping holds are both committed, whatever the interleaving.        *)
THEOREM NoDoubleHold == Spec => []NoDoubleBooking
<1>1. Init => TypeOK /\ NoDoubleBooking
    BY InitType DEF Init, NoDoubleBooking
<1>2. TypeOK /\ NoDoubleBooking /\ [Next]_vars => (TypeOK /\ NoDoubleBooking)'
    BY StepType, NoDoubleStep
<1> QED
    BY <1>1, <1>2, PTL DEF Spec

(* A hold being released is unpaid, and in the way of the one releasing it. *)
Releasing == oldOwner # Nobody => OldInTheWay(oldOwner) /\ old = "pending"

LEMMA ReleasingStep == TypeOK /\ Releasing /\ [Next]_vars => Releasing'
<1> SUFFICES ASSUME TypeOK, Releasing, [Next]_vars PROVE Releasing'
    OBVIOUS
<1>1. oldOwner' # Nobody => OldInTheWay(oldOwner')
    BY DEF Releasing, Next, Step, SettleOld, AcquireKey, ReleaseExpired, PreCheck, Insert,
           ExcludeCheck, DeadlockVictim, End, vars
<1>2. oldOwner' # Nobody => old' = "pending"
    BY DEF Releasing, Next, Step, SettleOld, AcquireKey, ReleaseExpired, PreCheck, Insert,
           ExcludeCheck, DeadlockVictim, End, vars, OldInTheWay
<1> QED
    BY <1>1, <1>2 DEF Releasing, OldInTheWay

(* A refused CreateHold rolls back its release of the expired hold.        *)
THEOREM OldHoldYieldsOnlyToHolds == Spec => []OldHoldYieldsOnlyToAHold
<1> DEFINE Inv == TypeOK /\ Releasing /\ OldHoldYieldsOnlyToAHold
<1>1. Init => Inv
    BY InitType DEF Init, Releasing, OldHoldYieldsOnlyToAHold
<1>2. Inv /\ [Next]_vars => Inv'
  <2> SUFFICES ASSUME Inv, [Next]_vars PROVE OldHoldYieldsOnlyToAHold'
      BY StepType, ReleasingStep
  <2>1. CASE /\ \A u \in Requests : pc'[u] = "held" <=> pc[u] = "held"
             /\ old' = old \/ (old = "pending" /\ oldOwner = Nobody /\ old' = "confirmed")
      BY <2>1 DEF OldHoldYieldsOnlyToAHold, OldInTheWay
  <2>2. ASSUME NEW t \in Requests, Commits(t) PROVE OldHoldYieldsOnlyToAHold'
    <3>1. \A u \in Requests : pc'[u] = IF u = t THEN "held" ELSE pc[u]
        BY <2>2 DEF Commits, TypeOK
    <3>2. oldOwner = t => OldInTheWay(t)
        BY NobodyAssumption DEF Releasing
    <3> QED
        BY <2>2, <3>1, <3>2 DEF Commits, OldHoldYieldsOnlyToAHold, OldInTheWay
  <2> QED
      BY <2>1, <2>2, StepEffect
<1> QED
    BY <1>1, <1>2, PTL DEF Spec

-----------------------------------------------------------------------------
(* CreateHold implements the calendar: what others see of an attempt is    *)
(* one step, its commit.                                                   *)

LEMMA CalendarInit == Init => OneByOne!Init
<1> SUFFICES ASSUME Init PROVE OneByOne!Init
    OBVIOUS
<1>1. \A r \in Requests \cup {Nobody} :
          calendarStatus[r] = IF r = Nobody THEN "held" ELSE "none"
    BY DEF Init, calendarStatus
<1>2. calendarStatus \in [Requests \cup {Nobody} -> {"none", "held"}]
    BY <1>1 DEF calendarStatus
<1> QED
    BY <1>1, <1>2 DEF OneByOne!Init, OneByOne!Takes, OneByOne!Held, OneByOne!Booked

(* A commit takes the slot, in place of the old hold if it released that.  *)
LEMMA CommitTakes ==
    ASSUME TypeOK, Releasing, NEW t \in Requests, Commits(t)
    PROVE  \E Out \in SUBSET (Requests \cup {Nobody}) :
               OneByOne!Take(t, InCalendar(SlotOf[t]), Out)
<1> DEFINE Rows == Requests \cup {Nobody}
           Out == IF oldOwner = t THEN {Nobody} ELSE {}
           p == InCalendar(SlotOf[t])
<1>1. /\ pc[t] = "inserted" /\ ~Excluded(t)
      /\ \A u \in Requests : pc'[u] = IF u = t THEN "held" ELSE pc[u]
      /\ old' = IF oldOwner = t THEN "cancelled" ELSE old
    BY DEF Commits, TypeOK
<1>2. /\ \A r \in Requests : calendarStatus[r] = IF pc[r] = "held" THEN "held" ELSE "none"
      /\ calendarStatus[Nobody] = CASE old = "pending" -> "held" [] old = "confirmed" -> "booked"
                                     [] OTHER -> "gone"
    BY NobodyAssumption DEF calendarStatus
<1>3. \A r \in Rows : OneByOne!Clash(calendarPlace[r], p) <=>
          Overlap(IF r = Nobody THEN OldSlot ELSE SlotOf[r], SlotOf[t])
    BY DEF OneByOne!Clash, calendarPlace, InCalendar, Overlap
<1>4. OneByOne!Clash(calendarPlace[Nobody], p) <=> OldInTheWay(t)
    BY <1>3 DEF OldInTheWay, Overlap
<1>5. calendarStatus[t] = "none"
    BY <1>1, <1>2
<1>6. \A s \in Out : OneByOne!Held(s) /\ OneByOne!Clash(calendarPlace[s], p)
    BY <1>2, <1>4, NobodyAssumption DEF Releasing, OneByOne!Held
<1>7. ASSUME NEW s \in Rows \ Out, OneByOne!Takes(s) PROVE ~OneByOne!Clash(calendarPlace[s], p)
  <2>1. CASE s = Nobody
      BY <1>1, <1>2, <1>4, <1>7, <2>1
      DEF Excluded, TypeOK, OldStatus, OneByOne!Takes, OneByOne!Held, OneByOne!Booked
  <2>2. CASE s # Nobody
    <3>1. s \in Requests \ {t} /\ pc[s] = "held"
        BY <1>1, <1>2, <1>7, <2>2 DEF OneByOne!Takes, OneByOne!Held, OneByOne!Booked
    <3>2. ~Overlap(SlotOf[t], SlotOf[s])
        BY <1>1, <3>1 DEF Excluded, Rivals
    <3> QED
        BY <1>3, <2>2, <3>2 DEF Overlap
  <2> QED
      BY <2>1, <2>2
<1>8. calendarStatus' = [s \in Rows |->
          IF s = t THEN "held" ELSE IF s \in Out THEN "gone" ELSE calendarStatus[s]]
    BY <1>1, <1>2, NobodyAssumption DEF calendarStatus
<1>9. calendarPlace' = [calendarPlace EXCEPT ![t] = p]
    BY NobodyAssumption DEF calendarPlace
<1>10. Out \in SUBSET Rows
    OBVIOUS
<1> QED
    BY <1>5, <1>6, <1>7, <1>8, <1>9, <1>10 DEF OneByOne!Take

LEMMA CalendarStep ==
    ASSUME TypeOK, Releasing, [Next]_vars
    PROVE  [OneByOne!Contend]_(OneByOne!vars)
<1>1. calendarPlace' = calendarPlace
    BY DEF calendarPlace
<1>2. CASE (\A u \in Requests : pc'[u] = "held" <=> pc[u] = "held") /\ old' = old
  <2>1. calendarStatus' = calendarStatus
      BY <1>2 DEF calendarStatus
  <2> QED
      BY <1>1, <2>1 DEF OneByOne!vars
<1>3. CASE /\ \A u \in Requests : pc'[u] = "held" <=> pc[u] = "held"
           /\ old = "pending" /\ old' = "confirmed"
  <2>1. calendarStatus' = [calendarStatus EXCEPT ![Nobody] = "booked"]
      BY <1>3 DEF calendarStatus
  <2>2. calendarStatus[Nobody] = "held"
      BY <1>3 DEF calendarStatus
  <2> QED
      BY <1>1, <2>1, <2>2 DEF OneByOne!Book, OneByOne!Held, OneByOne!Contend
<1>4. ASSUME NEW t \in Requests, Commits(t) PROVE OneByOne!Contend
    BY <1>4, CommitTakes DEF OneByOne!Contend
<1> QED
    BY <1>2, <1>3, <1>4, StepEffect

(* Statement by statement, and in any interleaving, attempts at a court     *)
(* act on it as if each were one step against the rows of that instant.     *)
THEOREM HoldsAreAtomic == Spec => CreatesAtomically
<1>1. Init => TypeOK /\ Releasing /\ OneByOne!Init
    BY InitType, CalendarInit DEF Init, Releasing
<1>2. TypeOK /\ Releasing /\ [Next]_vars => (TypeOK /\ Releasing)'
    BY StepType, ReleasingStep
<1>3. TypeOK /\ Releasing /\ [Next]_vars => [OneByOne!Contend]_(OneByOne!vars)
    BY CalendarStep
<1> QED
    BY <1>1, <1>2, <1>3, PTL DEF Spec, CreatesAtomically, OneByOne!ContendSpec

-----------------------------------------------------------------------------
(* Contenders of one start run one at a time behind the advisory lock, so  *)
(* what the pre-check saw of them still holds when the row is inserted.    *)

Inside(t) == pc[t] \in Running \ {"begin"}

SameStart(t, u) == SlotOf[t].start = SlotOf[u].start

ReleasedForIt(t) ==
    pc[t] = "check" /\ OldInTheWay(t) => oldOwner = t \/ old # "pending"

WayIsClear(t) ==
    pc[t] \in {"insert", "inserted"} =>
        /\ \A u \in Rivals(t) : pc[u] = "held" => ~SameStart(t, u)
        /\ OldInTheWay(t) => oldOwner = t \/ old = "cancelled"

LockInv == /\ TypeOK
           /\ ConstraintDecidesOnlyBetweenStarts
           /\ \A t \in Requests : ReleasedForIt(t) /\ WayIsClear(t)

(* The advisory lock admits one transaction of a start at a time.          *)
LEMMA OneInside ==
    ASSUME TypeOK, NEW t \in Requests, NEW u \in Requests, SameStart(t, u), Inside(t), Inside(u)
    PROVE  t = u
<1>1. keyOwner[SlotOf[t].start] = t /\ keyOwner[SlotOf[u].start] = u
    BY StartType DEF TypeOK, Inside
<1> QED
    BY <1>1 DEF SameStart

(* A step inside a transaction neither ends one nor touches the old hold   *)
(* of another: only the transaction's own part has to be shown.            *)
LEMMA InnerStep ==
    ASSUME LockInv, TypeOK', NEW t \in Requests, NEW label \in Running \ {"begin"},
           Inside(t) \/ pc[t] = "begin", pc' = [pc EXCEPT ![t] = label], old' = old,
           oldOwner' = oldOwner \/ (oldOwner = Nobody /\ oldOwner' = t),
           ReleasedForIt(t)', WayIsClear(t)'
    PROVE  LockInv'
<1>1. \A u \in Requests : pc'[u] = IF u = t THEN label ELSE pc[u]
    BY DEF LockInv, TypeOK
<1>2. label \notin {"held", "excluded"} /\ pc[t] \notin {"held", "excluded"}
    BY DEF Inside, Running
<1>3. ConstraintDecidesOnlyBetweenStarts'
    BY <1>1, <1>2 DEF LockInv, ConstraintDecidesOnlyBetweenStarts, Rivals
<1>4. ASSUME NEW u \in Requests \ {t} PROVE ReleasedForIt(u)' /\ WayIsClear(u)'
    BY <1>1, <1>2, NobodyAssumption
    DEF LockInv, ReleasedForIt, WayIsClear, OldInTheWay, Rivals
<1> QED
    BY <1>3, <1>4 DEF LockInv

(* Nor does a transaction that ends disturb those that go on: if it        *)
(* commits, they start at another time or are not yet past the lock.       *)
LEMMA EndStep ==
    ASSUME LockInv, TypeOK', NEW t \in Requests, NEW outcome \in Ended,
           pc[t] \in Running, outcome = "held" => Inside(t), End(t, outcome),
           outcome = "excluded" =>
               \E u \in Rivals(t) : pc[u] = "held" /\ ~SameStart(t, u)
    PROVE  LockInv'
<1>1. \A u \in Requests : pc'[u] = IF u = t THEN outcome ELSE pc[u]
    BY DEF End, LockInv, TypeOK
<1>2. pc[t] \notin {"held", "excluded"} /\ outcome \notin Running
    BY DEF Running, Ended
<1>3. ConstraintDecidesOnlyBetweenStarts'
    BY <1>1, <1>2 DEF LockInv, ConstraintDecidesOnlyBetweenStarts, Rivals, SameStart
<1>4. ReleasedForIt(t)' /\ WayIsClear(t)'
    BY <1>1, <1>2 DEF ReleasedForIt, WayIsClear, Running
<1>5. ASSUME NEW u \in Requests \ {t} PROVE ReleasedForIt(u)' /\ WayIsClear(u)'
  <2>1. pc'[u] = pc[u]
      BY <1>1
  <2>2. /\ oldOwner = u => oldOwner' = u
        /\ old # "pending" => old' # "pending"
        /\ old = "cancelled" => old' = "cancelled"
      BY DEF End
  <2>3. pc[u] \in {"insert", "inserted"} /\ SameStart(u, t) => ~Inside(t)
      BY OneInside DEF LockInv, SameStart, Inside, Running
  <2>4. ReleasedForIt(u)'
      BY <2>1, <2>2 DEF LockInv, ReleasedForIt, OldInTheWay
  <2>5. WayIsClear(u)'
      BY <1>1, <2>1, <2>2, <2>3 DEF LockInv, WayIsClear, OldInTheWay, Rivals
  <2> QED
      BY <2>4, <2>5
<1> QED
    BY <1>3, <1>4, <1>5 DEF LockInv

(* Every step keeps the locks' invariant.                                  *)
LEMMA LockStep ==
    ASSUME LockInv, [Next]_vars
    PROVE  LockInv'
<1>1. TypeOK /\ TypeOK'
    BY StepType DEF LockInv
<1>2. CASE SettleOld \/ UNCHANGED vars
    BY <1>1, <1>2, NobodyAssumption
    DEF LockInv, SettleOld, vars, ConstraintDecidesOnlyBetweenStarts, ReleasedForIt, WayIsClear,
        OldInTheWay, Rivals
<1>3. ASSUME NEW t \in Requests, AcquireKey(t) PROVE LockInv'
  <2>1. /\ pc[t] = "begin" /\ pc' = [pc EXCEPT ![t] = "release"]
        /\ old' = old /\ oldOwner' = oldOwner
      BY <1>3 DEF AcquireKey
  <2>2. ReleasedForIt(t)' /\ WayIsClear(t)'
      BY <1>1, <2>1 DEF TypeOK, ReleasedForIt, WayIsClear
  <2> QED
      BY <1>1, <2>1, <2>2, InnerStep DEF Running
<1>4. ASSUME NEW t \in Requests, ReleaseExpired(t) PROVE LockInv'
  <2>1. /\ pc[t] = "release" /\ pc' = [pc EXCEPT ![t] = "check"]
        /\ old' = old
        /\ oldOwner' = oldOwner \/ (oldOwner = Nobody /\ oldOwner' = t)
      BY <1>4 DEF ReleaseExpired
  <2>2. ReleasedForIt(t)' /\ WayIsClear(t)'
      BY <1>1, <1>4, <2>1 DEF TypeOK, ReleaseExpired, ReleasedForIt, WayIsClear, OldInTheWay
  <2> QED
      BY <1>1, <2>1, <2>2, InnerStep DEF Running, Inside
<1>5. ASSUME NEW t \in Requests, PreCheck(t) PROVE LockInv'
  <2>1. CASE SlotTaken(t)
      BY <1>1, <1>5, <2>1, EndStep DEF PreCheck, Running, Ended
  <2>2. CASE ~SlotTaken(t)
    <3>1. /\ pc[t] = "check" /\ pc' = [pc EXCEPT ![t] = "insert"]
          /\ old' = old /\ oldOwner' = oldOwner
        BY <1>5, <2>2 DEF PreCheck
    <3>2. ReleasedForIt(t)' /\ WayIsClear(t)'
        BY <1>1, <2>2, <3>1
        DEF LockInv, TypeOK, OldStatus, SlotTaken, ReleasedForIt, WayIsClear, Rivals, OldInTheWay
    <3> QED
        BY <1>1, <3>1, <3>2, InnerStep DEF Running, Inside
  <2> QED
      BY <2>1, <2>2
<1>6. ASSUME NEW t \in Requests, Insert(t) PROVE LockInv'
  <2>1. /\ pc[t] = "insert" /\ pc' = [pc EXCEPT ![t] = "inserted"]
        /\ old' = old /\ oldOwner' = oldOwner
      BY <1>6 DEF Insert
  <2>2. ReleasedForIt(t)' /\ WayIsClear(t)'
      BY <1>1, <2>1 DEF LockInv, TypeOK, ReleasedForIt, WayIsClear, Rivals, OldInTheWay
  <2> QED
      BY <1>1, <2>1, <2>2, InnerStep DEF Running, Inside
<1>7. ASSUME NEW t \in Requests, ExcludeCheck(t) PROVE LockInv'
  <2>1. pc[t] = "inserted" /\ WayIsClear(t)
      BY <1>7 DEF ExcludeCheck, LockInv
  <2>2. CASE Excluded(t) /\ End(t, "excluded")
    <3>1. \E u \in Rivals(t) : pc[u] = "held" /\ ~SameStart(t, u)
        BY <2>1, <2>2 DEF Excluded, WayIsClear
    <3> QED
        BY <1>1, <2>1, <2>2, <3>1, EndStep DEF Running, Ended
  <2>3. CASE End(t, "held")
      BY <1>1, <2>1, <2>3, EndStep DEF Running, Ended, Inside
  <2> QED
      BY <1>7, <2>2, <2>3 DEF ExcludeCheck
<1>8. ASSUME NEW t \in Requests, DeadlockVictim(t) PROVE LockInv'
    BY <1>1, <1>8, EndStep DEF DeadlockVictim, Ended
<1> QED
    BY <1>2, <1>3, <1>4, <1>5, <1>6, <1>7, <1>8 DEF Next, Step

(* Steps 1 to 3 of CreateHold leave to the constraint only rivals that     *)
(* start at another time and committed since the pre-check.                *)
THEOREM ConstraintOnlyBetweenStarts == Spec => []ConstraintDecidesOnlyBetweenStarts
<1>1. Init => LockInv
    BY InitType
    DEF Init, LockInv, ConstraintDecidesOnlyBetweenStarts, ReleasedForIt, WayIsClear
<1>2. LockInv /\ [Next]_vars => LockInv'
    BY LockStep
<1>3. LockInv => ConstraintDecidesOnlyBetweenStarts
    BY DEF LockInv
<1> QED
    BY <1>1, <1>2, <1>3, PTL DEF Spec

OneStart == \A t, u \in Requests : SlotOf[t].start = SlotOf[u].start

(* For holds that start together the advisory lock and the pre-check are   *)
(* enough: nobody is ever refused by the constraint.                       *)
THEOREM OneStartNeedsNoConstraint ==
    ASSUME OneStart
    PROVE  Spec => []ConstraintIsNeverReached
<1>1. ConstraintDecidesOnlyBetweenStarts => ConstraintIsNeverReached
  <2>1. \A t \in Requests : \A u \in Rivals(t) : SlotOf[t].start = SlotOf[u].start
      BY DEF OneStart, Rivals
  <2> QED
      BY <2>1 DEF ConstraintDecidesOnlyBetweenStarts, ConstraintIsNeverReached
<1> QED
    BY <1>1, ConstraintOnlyBetweenStarts, PTL

-----------------------------------------------------------------------------
(* Somebody is still trying, or the hour has been had.                     *)
HourIsHad ==
    \/ \E t \in Requests : pc[t] \notin Ended
    \/ old = "confirmed"
    \/ \E t \in Requests : pc[t] = "held"

(* An attempt waits only for one that has not ended, and never for itself. *)
LEMMA WaitsForAnother ==
    ASSUME TypeOK, NEW t \in Requests, NEW u \in Requests, WaitsFor(t, u)
    PROVE  u # t /\ pc[u] \notin Ended
<1>1. CASE pc[t] = "inserted" /\ u \in Rivals(t) /\ pc[u] = "inserted"
    BY <1>1 DEF Rivals, Ended
<1>2. CASE pc[t] = "begin" /\ keyOwner[SlotOf[t].start] = u
  <2>1. pc[u] \in Running \ {"begin"}
      BY <1>2, StartType DEF TypeOK
  <2> QED
      BY <1>2, <2>1 DEF Running, Ended
<1>3. CASE pc[t] = "release" /\ oldOwner = u
  <2>1. pc[u] \in Running \ {"begin", "release"}
      BY <1>3, NobodyAssumption DEF TypeOK
  <2> QED
      BY <1>3, <2>1 DEF Running, Ended
<1> QED
    BY <1>1, <1>2, <1>3 DEF WaitsFor

(* The last to end is refused for a hold that stands, or gets its own: it   *)
(* is no victim, for nobody is left to wait for, and the expired hold is    *)
(* not in its way, having been released.                                    *)
LEMMA LastOneStep == LockInv /\ Releasing /\ HourIsHad /\ [Next]_vars => HourIsHad'
<1> SUFFICES ASSUME LockInv, Releasing, HourIsHad, [Next]_vars PROVE HourIsHad'
    OBVIOUS
<1>1. TypeOK /\ TypeOK'
    BY StepType DEF LockInv
<1>2. old = "confirmed" => old' = "confirmed"
    BY <1>1, StepEffect, NobodyAssumption DEF Commits, Releasing
<1>3. \A u \in Requests : pc[u] = "held" => pc'[u] = "held"
    BY <1>1, StepEffect DEF Commits, TypeOK
<1>4. CASE old = "confirmed" \/ \E u \in Requests : pc[u] = "held"
    BY <1>2, <1>3, <1>4 DEF HourIsHad
<1>5. ASSUME old # "confirmed", \A u \in Requests : pc[u] # "held" PROVE HourIsHad'
  <2>1. PICK a \in Requests : pc[a] \notin Ended
      BY <1>5 DEF HourIsHad
  <2>2. ASSUME NEW t \in Requests, NEW label \in Running, pc' = [pc EXCEPT ![t] = label]
        PROVE  HourIsHad'
      BY <1>1, <2>2 DEF HourIsHad, TypeOK, Running, Ended
  <2>3. CASE pc' = pc
      BY <2>1, <2>3 DEF HourIsHad
  <2>4. ASSUME NEW t \in Requests, PreCheck(t) PROVE HourIsHad'
    <3>1. CASE SlotTaken(t)
        BY <1>5, <3>1 DEF SlotTaken, Rivals
    <3>2. CASE ~SlotTaken(t)
        BY <2>2, <2>4, <3>2 DEF PreCheck, Running
    <3> QED
        BY <3>1, <3>2
  <2>5. ASSUME NEW t \in Requests, ExcludeCheck(t) PROVE HourIsHad'
    <3>1. pc[t] = "inserted" /\ WayIsClear(t)
        BY <2>5 DEF ExcludeCheck, LockInv
    <3>2. ~Excluded(t)
        BY <1>5, <3>1 DEF Excluded, WayIsClear, Rivals
    <3> QED
        BY <1>1, <2>5, <3>2 DEF ExcludeCheck, End, HourIsHad, TypeOK
  <2>6. ASSUME NEW t \in Requests, DeadlockVictim(t) PROVE HourIsHad'
    <3>1. PICK S \in SUBSET Requests : t \in S /\ Ring(S)
        BY <2>6 DEF DeadlockVictim
    <3>2. PICK u \in S : WaitsFor(t, u)
        BY <3>1 DEF Ring
    <3>3. u \in Requests /\ u # t /\ pc[u] \notin Ended
        BY <1>1, <3>2, WaitsForAnother
    <3>4. pc'[u] = pc[u]
        BY <1>1, <2>6, <3>3 DEF DeadlockVictim, End, TypeOK
    <3> QED
        BY <3>3, <3>4 DEF HourIsHad
  <2>7. ASSUME NEW t \in Requests, AcquireKey(t) \/ ReleaseExpired(t) \/ Insert(t) PROVE HourIsHad'
      BY <2>2, <2>7 DEF AcquireKey, ReleaseExpired, Insert, Running
  <2> QED
      BY <2>3, <2>4, <2>5, <2>6, <2>7 DEF Next, Step, SettleOld, vars
<1> QED
    BY <1>4, <1>5

(* However many contend and however they deadlock, they never all lose:    *)
(* once every CreateHold has ended the hour is booked or held by somebody. *)
THEOREM SomeoneAlwaysGetsIt == Spec => []SomeoneGetsTheHour
<1>1. Init => LockInv /\ Releasing /\ HourIsHad
    BY InitType, RequestsAssumption
    DEF Init, Releasing, LockInv, ConstraintDecidesOnlyBetweenStarts, ReleasedForIt, WayIsClear, HourIsHad, Ended
<1>2. LockInv /\ Releasing /\ HourIsHad /\ [Next]_vars => (LockInv /\ Releasing /\ HourIsHad)'
    BY LockStep, ReleasingStep, LastOneStep DEF LockInv
<1>3. HourIsHad => SomeoneGetsTheHour
    BY DEF HourIsHad, SomeoneGetsTheHour
<1> QED
    BY <1>1, <1>2, <1>3, PTL DEF Spec
=============================================================================
