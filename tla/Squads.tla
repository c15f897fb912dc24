------------------------------- MODULE Squads -------------------------------
(***************************************************************************)
(* Teams, their captains and their rosters.                                *)
(*                                                                         *)
(* A handler reads the team, asks the domain whether the caller may do     *)
(* what he asks, and then writes with a statement that does not ask again: *)
(* between the two, other requests run.  A request that was let through is *)
(* kept in req until its statement has run.  Names, tags, crests and       *)
(* invite codes decide nothing here and are left out: whoever has the code *)
(* of a team may join it.                                                  *)
(***************************************************************************)
EXTENDS Integers, FiniteSets

CONSTANTS
    Users, Teams,
    Fixtures,       \* booked hours a result may be filed for
    Scores,
    Workers,        \* requests served at the same time
    MaxSquadSize,
    Null

VARIABLES
    teams,          \* the teams row, with its team_members rows
    req             \* what each worker is about to write

Role == {"none", "player", "captain"}
Squad == [captain : Users, roster : [Users -> Role]]

ASSUME SquadsAssumption ==
    /\ MaxSquadSize \in Nat \ {0}
    /\ IsFiniteSet(Users) /\ IsFiniteSet(Teams)
    /\ IsFiniteSet(Workers) /\ Workers # {}
    /\ Null \notin Users \cup Teams \cup Fixtures \cup Scores \cup Squad

Op == {"idle", "add", "remove", "transfer", "disband",
       "report", "confirm", "dispute", "withdraw", "register", "pull"}
Request == [op : Op, actor : Users \cup {Null}, team : Teams \cup {Null},
            away : Teams \cup {Null}, user : Users \cup {Null},
            fixture : Fixtures \cup {Null}, score : Scores \cup {Null}]
Idle == [op |-> "idle", actor |-> Null, team |-> Null, away |-> Null,
         user |-> Null, fixture |-> Null, score |-> Null]

SquadsInit ==
    /\ teams = [t \in Teams |-> Null]
    /\ req = [w \in Workers |-> Idle]

Ready(w) == req[w].op = "idle"
Admit(w, r) == Ready(w) /\ req' = [req EXCEPT ![w] = r]
Finish(w) == req' = [req EXCEPT ![w] = Idle]

-----------------------------------------------------------------------------
(* domain.Team. *)

Founded(t) == teams[t] # Null
IsCaptain(t, u) == Founded(t) /\ teams[t].captain = u
Members(t) == {u \in Users : Founded(t) /\ teams[t].roster[u] # "none"}
MemberCount(t) == Cardinality(Members(t))

(* A definition named Bug... is a later one with a plausible fault in it.   *)
(* Nothing uses them: they record what each property is able to catch.      *)
BugCanAddMember(t, actor) == IsCaptain(t, actor)

CanAddMember(t, actor) == IsCaptain(t, actor) /\ MemberCount(t) < MaxSquadSize

CanRemoveMember(t, actor, target) ==
    /\ Founded(t) /\ ~IsCaptain(t, target)
    /\ actor = target \/ IsCaptain(t, actor)

CanTransferCaptaincy(t, actor, target) ==
    IsCaptain(t, actor) /\ ~IsCaptain(t, target)

-----------------------------------------------------------------------------
(* TeamService: what lets a request through. *)

Join(w, t, u) ==
    /\ Founded(t) /\ CanAddMember(t, teams[t].captain)
    /\ Admit(w, [Idle EXCEPT !.op = "add", !.team = t, !.user = u])
    /\ UNCHANGED teams

AddMember(w, t, actor, u) ==
    /\ CanAddMember(t, actor)
    /\ Admit(w, [Idle EXCEPT !.op = "add", !.team = t, !.user = u])
    /\ UNCHANGED teams

RemoveMember(w, t, actor, target) ==
    /\ CanRemoveMember(t, actor, target)
    /\ Admit(w, [Idle EXCEPT !.op = "remove", !.team = t, !.user = target])
    /\ UNCHANGED teams

TransferCaptaincy(w, t, actor, target) ==
    /\ CanTransferCaptaincy(t, actor, target) /\ target \in Members(t)
    /\ Admit(w, [Idle EXCEPT !.op = "transfer", !.team = t, !.actor = actor, !.user = target])
    /\ UNCHANGED teams

Disband(w, t, actor) ==
    /\ IsCaptain(t, actor)
    /\ Admit(w, [Idle EXCEPT !.op = "disband", !.team = t])
    /\ UNCHANGED teams

-----------------------------------------------------------------------------
(* TeamRepo: what is then written, if it still can be. *)

Create(t, u) ==
    /\ ~Founded(t)
    /\ teams' = [teams EXCEPT ![t] =
          [captain |-> u, roster |-> [v \in Users |-> IF v = u THEN "captain" ELSE "none"]]]
    /\ UNCHANGED req

(* The primary key allows one row per player, the foreign key none without  *)
(* the team.                                                                *)
InsertMember(w) ==
    LET t == req[w].team  u == req[w].user IN
        /\ req[w].op = "add"
        /\ teams' = IF Founded(t) /\ u \notin Members(t)
                    THEN [teams EXCEPT ![t].roster[u] = "player"] ELSE teams
        /\ Finish(w)

DeleteMember(w) ==
    LET t == req[w].team  u == req[w].user IN
        /\ req[w].op = "remove"
        /\ teams' = IF Founded(t) THEN [teams EXCEPT ![t].roster[u] = "none"] ELSE teams
        /\ Finish(w)

(* The roster once the outgoing captain is a player and the incoming one    *)
(* wears the armband.                                                       *)
HandedOver(roster, from, to) ==
    [u \in Users |-> IF u = to THEN "captain"
                     ELSE IF u = from /\ roster[u] # "none" THEN "player"
                     ELSE roster[u]]

(* The unique index team_members_one_captain_idx. *)
OneCaptain(roster) == Cardinality({u \in Users : roster[u] = "captain"}) <= 1

BugMoveArmband(w) ==
    LET t == req[w].team
        handed == HandedOver(teams[t].roster, req[w].actor, req[w].user) IN
        /\ req[w].op = "transfer"
        /\ teams' = IF Founded(t) /\ req[w].user \in Members(t)
                    THEN [teams EXCEPT ![t].roster = handed]
                    ELSE teams
        /\ Finish(w)

(* One transaction: a target who has left, or a second captain, undoes all. *)
MoveArmband(w) ==
    LET t == req[w].team
        handed == HandedOver(teams[t].roster, req[w].actor, req[w].user) IN
        /\ req[w].op = "transfer"
        /\ teams' = IF Founded(t) /\ req[w].user \in Members(t) /\ OneCaptain(handed)
                    THEN [teams EXCEPT ![t] = [captain |-> req[w].user, roster |-> handed]]
                    ELSE teams
        /\ Finish(w)

(* The row goes, and its members with it; what else goes is Club's to say. *)
DeleteTeam(w) ==
    /\ req[w].op = "disband"
    /\ teams' = [teams EXCEPT ![req[w].team] = Null]

-----------------------------------------------------------------------------
(* The handlers. *)

handleCreateTeam == \E t \in Teams, u \in Users : Create(t, u)
handleJoinTeam(w) == \E t \in Teams, u \in Users : Join(w, t, u)
handleAddTeamMember(w) == \E t \in Teams, actor, u \in Users : AddMember(w, t, actor, u)
handleRemoveTeamMember(w) == \E t \in Teams, actor, u \in Users : RemoveMember(w, t, actor, u)
handleTransferCaptaincy(w) == \E t \in Teams, actor, u \in Users : TransferCaptaincy(w, t, actor, u)
handleDisbandTeam(w) == \E t \in Teams, actor \in Users : Disband(w, t, actor)

(* What concerns the roster alone. *)
RosterStep(w) ==
    \/ handleJoinTeam(w) \/ handleAddTeamMember(w) \/ InsertMember(w)
    \/ handleRemoveTeamMember(w) \/ DeleteMember(w)
    \/ handleTransferCaptaincy(w) \/ MoveArmband(w)
    \/ handleDisbandTeam(w)
=============================================================================
