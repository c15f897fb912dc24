-------------------------------- MODULE Club --------------------------------
(***************************************************************************)
(* Teams with what hangs on them: results and tournament entries.          *)
(*                                                                         *)
(* Disbanding a team is one DELETE whose cascade reaches all three.  The   *)
(* trigger of each entry then counts its tournament down.                  *)
(***************************************************************************)
EXTENDS Results, Brackets

vars == <<teams, req, matches, cup>>

Init == SquadsInit /\ ResultsInit /\ BracketsInit

(* A request on its way to a row that has gone finds nothing.  It is given  *)
(* up here, for the team that next bears the name is another one.           *)
Concerns(r, t) == t \in {r.team, r.away} \/ \E f \in ResultsOf(t) : Addresses(r, f)

(* A definition named Bug... is a later one with a plausible fault in it.   *)
(* Nothing uses them: they record what each property is able to catch.      *)
BugDisbandTeam(w) ==
    LET t == req[w].team IN
        /\ DeleteTeam(w)
        /\ matches' = [f \in Fixtures |-> IF f \in ResultsOf(t) THEN Null ELSE matches[f]]
        /\ cup' = IF t \in Entered THEN [cup EXCEPT !.entries[t] = "none"] ELSE cup
        /\ req' = [v \in Workers |-> IF Concerns(req[v], t) THEN Idle ELSE req[v]]

DisbandTeam(w) ==
    LET t == req[w].team IN
        /\ DeleteTeam(w)
        /\ matches' = [f \in Fixtures |-> IF f \in ResultsOf(t) THEN Null ELSE matches[f]]
        /\ cup' = IF t \in Entered THEN WithoutEntry(cup, t) ELSE cup
        /\ req' = [v \in Workers |-> IF Concerns(req[v], t) THEN Idle ELSE req[v]]

(* The caller goes away, or his time is up, before the statement has run.   *)
Abort(w) == ~Ready(w) /\ Finish(w) /\ UNCHANGED <<teams, matches, cup>>

Next ==
    \/ handleCreateTeam /\ UNCHANGED <<matches, cup>>
    \/ \E w \in Workers :
          \/ RosterStep(w) /\ UNCHANGED <<matches, cup>>
          \/ ResultStep(w) /\ UNCHANGED cup
          \/ DisbandTeam(w) \/ Abort(w)
    \/ BracketStep /\ UNCHANGED matches

Spec == Init /\ [][Next]_vars

-----------------------------------------------------------------------------
(* Properties. *)

(* Types: rows and requests the code can build. *)
TypeOK ==
    /\ teams \in [Teams -> Squad \cup {Null}]
    /\ req \in [Workers -> Request]
    /\ matches \in [Fixtures -> Match \cup {Null}]
    /\ cup \in Tournament \cup {Null}

(* The armband and teams.captain_id are two copies of one fact, kept in     *)
(* step by TransferCaptaincy alone: whoever wears the armband is the        *)
(* captain the team row names.                                              *)
ArmbandIsTheCaptains ==
    \A t \in Teams : \A u \in Members(t) :
        teams[t].roster[u] = "captain" => IsCaptain(t, u)

(* "A squad is at most twenty people" (postgres/team.go) is not so: it is   *)
(* counted before the row is inserted, and nothing counts it again.  But it *)
(* is overrun by no more players than there are other requests on their way.*)
SquadOverrunIsBounded ==
    \A t \in Teams :
        MemberCount(t) + Cardinality({w \in Workers : req[w].op = "add" /\ req[w].team = t})
            < MaxSquadSize + Cardinality(Workers)

(* An agreed score is a record of what happened: while the row is there no  *)
(* counter, report or confirmation in flight changes it.                    *)
AgreedResultsStand ==
    [][\A f \in Fixtures :
          (Filed(f) /\ matches[f].verified /\ matches'[f] # Null) => matches'[f] = matches[f]]_vars

(* The trigger keeps team_count honest and the CHECK keeps it in bounds:    *)
(* through late entries, pulled teams and disbanded teams it is the number  *)
(* of entries.                                                              *)
TeamCountIsEntries ==
    Announced => cup.teamCount = Cardinality(Entered) /\ WithinCapacity(cup)
=============================================================================
