------------------------------ MODULE Brackets ------------------------------
(***************************************************************************)
(* A tournament: its status, its entries and the count a trigger keeps.    *)
(*                                                                         *)
(* Entering and pulling out are let through on what was read and write     *)
(* later, as in Squads.  The organiser never changes, so what only he may  *)
(* do is decided once and for all and happens in one step.  Fees, prizes   *)
(* and the format decide nothing about entries and are left out.           *)
(***************************************************************************)
EXTENDS Squads

CONSTANT MaxTeams

ASSUME BracketsAssumption == MaxTeams \in Nat \ {0}

VARIABLE cup        \* the tournament, Null until it is created

Status == {"open", "full", "ongoing", "completed", "cancelled"}
Entry == {"none", "unpaid", "paid"}

(* overdue: the day of RegisterBy is over. *)
Tournament == [organizer : Users, status : Status, teamCount : Int,
               entries : [Teams -> Entry], overdue : BOOLEAN]

BracketsInit == cup = Null

Announced == cup # Null
Entered == {t \in Teams : Announced /\ cup.entries[t] # "none"}

-----------------------------------------------------------------------------
(* domain.Tournament. *)

OrganizedBy(u) == Announced /\ cup.organizer = u

CanAcceptRegistration ==
    Announced /\ cup.status = "open" /\ ~cup.overdue /\ cup.teamCount < MaxTeams

-----------------------------------------------------------------------------
(* The trigger sync_tournament_team_count, and the CHECK within_capacity.  *)

Counted(c, delta) ==
    [c EXCEPT !.teamCount = @ + delta,
              !.status = IF c.status \notin {"open", "full"} THEN c.status
                         ELSE IF c.teamCount + delta >= MaxTeams THEN "full" ELSE "open"]

WithinCapacity(c) == c.teamCount <= MaxTeams

(* The bracket when the row of an entered team has been deleted. *)
WithoutEntry(c, t) == [Counted(c, -1) EXCEPT !.entries[t] = "none"]

-----------------------------------------------------------------------------
(* TournamentService: what lets a request through. *)

CreateTournament(u) ==
    /\ ~Announced
    /\ cup' = [organizer |-> u, status |-> "open", teamCount |-> 0,
               entries |-> [t \in Teams |-> "none"], overdue |-> FALSE]
    /\ UNCHANGED <<teams, req>>

(* The captain's right and the tournament's readiness are two reads; taken  *)
(* together here, since neither is looked at again anyway.                  *)
Register(w, t, actor) ==
    /\ IsCaptain(t, actor) /\ CanAcceptRegistration
    /\ Admit(w, [Idle EXCEPT !.op = "register", !.team = t])
    /\ UNCHANGED <<teams, cup>>

PullOut(w, t, actor) ==
    /\ Announced
    /\ OrganizedBy(actor) \/ IsCaptain(t, actor)
    /\ Admit(w, [Idle EXCEPT !.op = "pull", !.team = t])
    /\ UNCHANGED <<teams, cup>>

SetEntryPaid(t, actor, paid) ==
    /\ OrganizedBy(actor) /\ t \in Entered
    /\ cup' = [cup EXCEPT !.entries[t] = IF paid THEN "paid" ELSE "unpaid"]
    /\ UNCHANGED <<teams, req>>

(* Any status at all: also open and full, which the database maintains.     *)
SetStatus(actor, status) ==
    /\ OrganizedBy(actor)
    /\ cup' = [cup EXCEPT !.status = status]
    /\ UNCHANGED <<teams, req>>

-----------------------------------------------------------------------------
(* TournamentRepo: what is then written. *)

(* The primary key wants a team once, the foreign keys want it and the      *)
(* tournament, the trigger counts it and the CHECK has the last word.       *)
InsertEntry(w) ==
    LET t == req[w].team
        entered == [Counted(cup, 1) EXCEPT !.entries[t] = "unpaid"] IN
        /\ req[w].op = "register"
        /\ cup' = IF Announced /\ Founded(t) /\ t \notin Entered /\ WithinCapacity(entered)
                  THEN entered ELSE cup
        /\ Finish(w)
        /\ UNCHANGED teams

DeleteEntry(w) ==
    LET t == req[w].team IN
        /\ req[w].op = "pull"
        /\ cup' = IF t \in Entered THEN WithoutEntry(cup, t) ELSE cup
        /\ Finish(w)
        /\ UNCHANGED teams

DeadlinePasses ==
    /\ Announced /\ ~cup.overdue
    /\ cup' = [cup EXCEPT !.overdue = TRUE]
    /\ UNCHANGED <<teams, req>>

-----------------------------------------------------------------------------
(* The handlers. *)

handleCreateTournament == \E u \in Users : CreateTournament(u)
handleRegisterTeam(w) == \E t \in Teams, actor \in Users : Register(w, t, actor)
handleWithdrawTeam(w) == \E t \in Teams, actor \in Users : PullOut(w, t, actor)
handleSetEntryPaid ==
    \E t \in Teams, actor \in Users, paid \in BOOLEAN : SetEntryPaid(t, actor, paid)
handleSetTournamentStatus == \E actor \in Users, status \in Status : SetStatus(actor, status)

BracketStep ==
    \/ handleCreateTournament \/ handleSetEntryPaid \/ handleSetTournamentStatus
    \/ DeadlinePasses
    \/ \E w \in Workers : \/ handleRegisterTeam(w) \/ InsertEntry(w)
                          \/ handleWithdrawTeam(w) \/ DeleteEntry(w)
=============================================================================
