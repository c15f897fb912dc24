------------------------------ MODULE Results ------------------------------
(***************************************************************************)
(* Match results: one captain files a score, the other agrees or counters, *)
(* and only an agreed result counts in the standings.                      *)
(*                                                                         *)
(* As in Squads, a request is let through on what was read and writes      *)
(* later.  The booking of a result is unique among results: a fixture.     *)
(***************************************************************************)
EXTENDS Squads

VARIABLE matches    \* the result of each fixture, Null while there is none

Match == [home : Teams, away : Teams, score : Scores, verified : BOOLEAN,
          reportedBy : Users]

ResultsInit == matches = [f \in Fixtures |-> Null]

Filed(f) == matches[f] # Null

(* The first of the two teams the actor captains.  A team that is gone      *)
(* fails the whole request, and so do two strangers.                        *)
captainedTeam(actor, home, away) ==
    IF ~Founded(home) THEN Null
    ELSE IF IsCaptain(home, actor) THEN home
    ELSE IF Founded(away) /\ IsCaptain(away, actor) THEN away
    ELSE Null

CaptainedTeam(actor, m) == captainedTeam(actor, m.home, m.away)

-----------------------------------------------------------------------------
(* domain.Match.  CaptainedTeam only ever names one of its two teams. *)

CanBeConfirmedBy(m, actor) == ~m.verified /\ m.reportedBy # actor
CanBeDisputedBy(m, actor) == CanBeConfirmedBy(m, actor)
CanBeWithdrawnBy(m) == ~m.verified

-----------------------------------------------------------------------------
(* MatchService: what lets a request through. *)

Report(w, actor, f, home, away, score) ==
    /\ home # away
    /\ captainedTeam(actor, home, away) # Null
    /\ Admit(w, [Idle EXCEPT !.op = "report", !.actor = actor, !.fixture = f,
                             !.team = home, !.away = away, !.score = score])
    /\ UNCHANGED <<teams, matches>>

Confirm(w, actor, f) ==
    /\ Filed(f) /\ CaptainedTeam(actor, matches[f]) # Null
    /\ CanBeConfirmedBy(matches[f], actor)
    /\ Admit(w, [Idle EXCEPT !.op = "confirm", !.fixture = f])
    /\ UNCHANGED <<teams, matches>>

Dispute(w, actor, f, score) ==
    /\ Filed(f) /\ CaptainedTeam(actor, matches[f]) # Null
    /\ CanBeDisputedBy(matches[f], actor)
    /\ score # matches[f].score
    /\ Admit(w, [Idle EXCEPT !.op = "dispute", !.actor = actor, !.fixture = f,
                             !.score = score])
    /\ UNCHANGED <<teams, matches>>

Withdraw(w, actor, f) ==
    /\ Filed(f) /\ CaptainedTeam(actor, matches[f]) # Null
    /\ CanBeWithdrawnBy(matches[f])
    /\ Admit(w, [Idle EXCEPT !.op = "withdraw", !.fixture = f])
    /\ UNCHANGED <<teams, matches>>

-----------------------------------------------------------------------------
(* MatchRepo: what is then written.  Results are addressed by their row:   *)
(* a request for one that has been deleted finds nothing, even if another   *)
(* has been filed for the fixture since.                                    *)

Addresses(r, f) == r.op \in {"confirm", "dispute", "withdraw"} /\ r.fixture = f

(* The unique index wants one result per fixture, the foreign keys both teams. *)
InsertMatch(w) ==
    LET r == req[w] IN
        /\ r.op = "report"
        /\ matches' = IF ~Filed(r.fixture) /\ Founded(r.team) /\ Founded(r.away)
                      THEN [matches EXCEPT ![r.fixture] =
                               [home |-> r.team, away |-> r.away, score |-> r.score,
                                verified |-> FALSE, reportedBy |-> r.actor]]
                      ELSE matches
        /\ Finish(w)
        /\ UNCHANGED teams

SetVerified(w) ==
    LET f == req[w].fixture IN
        /\ req[w].op = "confirm"
        /\ matches' = IF Filed(f) /\ ~matches[f].verified
                      THEN [matches EXCEPT ![f].verified = TRUE]
                      ELSE matches
        /\ Finish(w)
        /\ UNCHANGED teams

BugRecount(w) ==
    LET r == req[w] IN
        /\ r.op = "dispute"
        /\ matches' = IF Filed(r.fixture)
                      THEN [matches EXCEPT ![r.fixture].score = r.score,
                                           ![r.fixture].reportedBy = r.actor]
                      ELSE matches
        /\ Finish(w)
        /\ UNCHANGED teams

Recount(w) ==
    LET r == req[w] IN
        /\ r.op = "dispute"
        /\ matches' = IF Filed(r.fixture) /\ ~matches[r.fixture].verified
                      THEN [matches EXCEPT ![r.fixture].score = r.score,
                                           ![r.fixture].reportedBy = r.actor]
                      ELSE matches
        /\ Finish(w)
        /\ UNCHANGED teams

(* The delete does not look at verified. *)
DeleteMatch(w) ==
    /\ req[w].op = "withdraw"
    /\ matches' = [matches EXCEPT ![req[w].fixture] = Null]
    /\ req' = [v \in Workers |-> IF Addresses(req[v], req[w].fixture) THEN Idle ELSE req[v]]
    /\ UNCHANGED teams

(* The results that go with a team. *)
ResultsOf(t) == {f \in Fixtures : Filed(f) /\ t \in {matches[f].home, matches[f].away}}

-----------------------------------------------------------------------------
(* The handlers. *)

handleReportMatch(w) ==
    \E actor \in Users, f \in Fixtures, home, away \in Teams, score \in Scores :
        Report(w, actor, f, home, away, score)
handleConfirmMatch(w) == \E actor \in Users, f \in Fixtures : Confirm(w, actor, f)
handleDisputeMatch(w) ==
    \E actor \in Users, f \in Fixtures, score \in Scores : Dispute(w, actor, f, score)
handleWithdrawMatch(w) == \E actor \in Users, f \in Fixtures : Withdraw(w, actor, f)

ResultStep(w) ==
    \/ handleReportMatch(w) \/ InsertMatch(w)
    \/ handleConfirmMatch(w) \/ SetVerified(w)
    \/ handleDisputeMatch(w) \/ Recount(w)
    \/ handleWithdrawMatch(w) \/ DeleteMatch(w)
=============================================================================
