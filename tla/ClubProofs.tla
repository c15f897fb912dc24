----------------------------- MODULE ClubProofs -----------------------------
(***************************************************************************)
(* What Club keeps for any number of players, teams, fixtures and requests *)
(* served side by side: its types, one armband and one captain, a bounded  *)
(* overrun of the squad, an honest team count, and agreed results that     *)
(* stand.                                                                  *)
(***************************************************************************)
EXTENDS Club, FiniteSetTheorems, TLAPS

(* A request on its way carries what its statement will use. *)
Complete(r) ==
    /\ r.op \in {"add", "remove", "transfer"} => r.team \in Teams /\ r.user \in Users
    /\ r.op \in {"disband", "register", "pull", "report"} => r.team \in Teams
    /\ r.op \in {"transfer", "report", "dispute"} => r.actor \in Users
    /\ r.op = "report" => r.away \in Teams
    /\ r.op \in {"report", "dispute"} => r.score \in Scores
    /\ r.op \in {"report", "confirm", "dispute", "withdraw"} => r.fixture \in Fixtures

TypeInv == TypeOK /\ \A w \in Workers : Complete(req[w])

-----------------------------------------------------------------------------
(* Types. *)

(* Nothing has been asked of an idle worker. *)
LEMMA IdleIsComplete == Idle \in Request /\ Complete(Idle)
  BY DEF Idle, Request, Op, Complete

(* The request of a worker goes from idle to admitted, or back to idle. *)
LEMMA AdmitType ==
    ASSUME TypeInv, NEW w \in Workers, NEW r \in Request, Complete(r),
           req' = [req EXCEPT ![w] = r]
    PROVE  req' \in [Workers -> Request] /\ \A v \in Workers : Complete(req'[v])
  BY DEF TypeInv, TypeOK

LEMMA FinishType ==
    ASSUME TypeInv, NEW w \in Workers, Finish(w)
    PROVE  req' \in [Workers -> Request] /\ \A v \in Workers : Complete(req'[v])
  BY AdmitType, IdleIsComplete DEF Finish

(* A handler lets a complete request through, and a newcomer only into a     *)
(* squad that had room when it was counted.                                 *)
Admitted(w, r) ==
    /\ Admit(w, r) /\ Complete(r)
    /\ r.op = "add" => Founded(r.team) /\ MemberCount(r.team) < MaxSquadSize

LEMMA LetThrough ==
    ASSUME TypeInv, NEW w \in Workers,
           \/ handleJoinTeam(w) \/ handleAddTeamMember(w) \/ handleRemoveTeamMember(w)
           \/ handleTransferCaptaincy(w) \/ handleDisbandTeam(w)
           \/ handleReportMatch(w) \/ handleConfirmMatch(w) \/ handleDisputeMatch(w)
           \/ handleWithdrawMatch(w) \/ handleRegisterTeam(w) \/ handleWithdrawTeam(w)
    PROVE  \E r \in Request : Admitted(w, r)
<1>1. CASE handleJoinTeam(w)
  <2>1. PICK t \in Teams, u \in Users : Join(w, t, u)
      BY <1>1 DEF handleJoinTeam
  <2>2. Admit(w, [Idle EXCEPT !.op = "add", !.team = t, !.user = u])
      BY <2>1 DEF Join
  <2>3. [Idle EXCEPT !.op = "add", !.team = t, !.user = u] \in Request
      BY DEF Idle, Request, Op
  <2>4. Complete([Idle EXCEPT !.op = "add", !.team = t, !.user = u])
      BY DEF Idle, Complete
  <2>5. Founded(t) /\ MemberCount(t) < MaxSquadSize
      BY <2>1 DEF Join, CanAddMember, IsCaptain
  <2> QED
      BY <2>2, <2>3, <2>4, <2>5 DEF Admitted, Idle
<1>2. CASE handleAddTeamMember(w)
  <2>1. PICK t \in Teams, actor \in Users, u \in Users : AddMember(w, t, actor, u)
      BY <1>2 DEF handleAddTeamMember
  <2>2. Admit(w, [Idle EXCEPT !.op = "add", !.team = t, !.user = u])
      BY <2>1 DEF AddMember
  <2>3. [Idle EXCEPT !.op = "add", !.team = t, !.user = u] \in Request
      BY DEF Idle, Request, Op
  <2>4. Complete([Idle EXCEPT !.op = "add", !.team = t, !.user = u])
      BY DEF Idle, Complete
  <2>5. Founded(t) /\ MemberCount(t) < MaxSquadSize
      BY <2>1 DEF AddMember, CanAddMember, IsCaptain
  <2> QED
      BY <2>2, <2>3, <2>4, <2>5 DEF Admitted, Idle
<1>3. CASE handleRemoveTeamMember(w)
  <2>1. PICK t \in Teams, actor \in Users, u \in Users : RemoveMember(w, t, actor, u)
      BY <1>3 DEF handleRemoveTeamMember
  <2>2. Admit(w, [Idle EXCEPT !.op = "remove", !.team = t, !.user = u])
      BY <2>1 DEF RemoveMember
  <2>3. [Idle EXCEPT !.op = "remove", !.team = t, !.user = u] \in Request
      BY DEF Idle, Request, Op
  <2>4. Complete([Idle EXCEPT !.op = "remove", !.team = t, !.user = u])
      BY DEF Idle, Complete
  <2> QED
      BY <2>2, <2>3, <2>4 DEF Admitted, Idle
<1>4. CASE handleTransferCaptaincy(w)
  <2>1. PICK t \in Teams, actor \in Users, u \in Users : TransferCaptaincy(w, t, actor, u)
      BY <1>4 DEF handleTransferCaptaincy
  <2>2. Admit(w, [Idle EXCEPT !.op = "transfer", !.team = t, !.actor = actor, !.user = u])
      BY <2>1 DEF TransferCaptaincy
  <2>3. [Idle EXCEPT !.op = "transfer", !.team = t, !.actor = actor, !.user = u] \in Request
      BY DEF Idle, Request, Op
  <2>4. Complete([Idle EXCEPT !.op = "transfer", !.team = t, !.actor = actor, !.user = u])
      BY DEF Idle, Complete
  <2> QED
      BY <2>2, <2>3, <2>4 DEF Admitted, Idle
<1>5. CASE handleDisbandTeam(w)
  <2>1. PICK t \in Teams, actor \in Users : Disband(w, t, actor)
      BY <1>5 DEF handleDisbandTeam
  <2>2. Admit(w, [Idle EXCEPT !.op = "disband", !.team = t])
      BY <2>1 DEF Disband
  <2>3. [Idle EXCEPT !.op = "disband", !.team = t] \in Request
      BY DEF Idle, Request, Op
  <2>4. Complete([Idle EXCEPT !.op = "disband", !.team = t])
      BY DEF Idle, Complete
  <2> QED
      BY <2>2, <2>3, <2>4 DEF Admitted, Idle
<1>6. CASE handleReportMatch(w)
  <2>1. PICK actor \in Users, f \in Fixtures, home \in Teams, away \in Teams, score \in Scores : Report(w, actor, f, home, away, score)
      BY <1>6 DEF handleReportMatch
  <2>2. Admit(w, [Idle EXCEPT !.op = "report", !.actor = actor, !.fixture = f,
                                        !.team = home, !.away = away, !.score = score])
      BY <2>1 DEF Report
  <2>3. [Idle EXCEPT !.op = "report", !.actor = actor, !.fixture = f,
                                        !.team = home, !.away = away, !.score = score] \in Request
      BY DEF Idle, Request, Op
  <2>4. Complete([Idle EXCEPT !.op = "report", !.actor = actor, !.fixture = f,
                                        !.team = home, !.away = away, !.score = score])
      BY DEF Idle, Complete
  <2> QED
      BY <2>2, <2>3, <2>4 DEF Admitted, Idle
<1>7. CASE handleConfirmMatch(w)
  <2>1. PICK actor \in Users, f \in Fixtures : Confirm(w, actor, f)
      BY <1>7 DEF handleConfirmMatch
  <2>2. Admit(w, [Idle EXCEPT !.op = "confirm", !.fixture = f])
      BY <2>1 DEF Confirm
  <2>3. [Idle EXCEPT !.op = "confirm", !.fixture = f] \in Request
      BY DEF Idle, Request, Op
  <2>4. Complete([Idle EXCEPT !.op = "confirm", !.fixture = f])
      BY DEF Idle, Complete
  <2> QED
      BY <2>2, <2>3, <2>4 DEF Admitted, Idle
<1>8. CASE handleDisputeMatch(w)
  <2>1. PICK actor \in Users, f \in Fixtures, score \in Scores : Dispute(w, actor, f, score)
      BY <1>8 DEF handleDisputeMatch
  <2>2. Admit(w, [Idle EXCEPT !.op = "dispute", !.actor = actor, !.fixture = f,
                                        !.score = score])
      BY <2>1 DEF Dispute
  <2>3. [Idle EXCEPT !.op = "dispute", !.actor = actor, !.fixture = f,
                                        !.score = score] \in Request
      BY DEF Idle, Request, Op
  <2>4. Complete([Idle EXCEPT !.op = "dispute", !.actor = actor, !.fixture = f,
                                        !.score = score])
      BY DEF Idle, Complete
  <2> QED
      BY <2>2, <2>3, <2>4 DEF Admitted, Idle
<1>9. CASE handleWithdrawMatch(w)
  <2>1. PICK actor \in Users, f \in Fixtures : Withdraw(w, actor, f)
      BY <1>9 DEF handleWithdrawMatch
  <2>2. Admit(w, [Idle EXCEPT !.op = "withdraw", !.fixture = f])
      BY <2>1 DEF Withdraw
  <2>3. [Idle EXCEPT !.op = "withdraw", !.fixture = f] \in Request
      BY DEF Idle, Request, Op
  <2>4. Complete([Idle EXCEPT !.op = "withdraw", !.fixture = f])
      BY DEF Idle, Complete
  <2> QED
      BY <2>2, <2>3, <2>4 DEF Admitted, Idle
<1>10. CASE handleRegisterTeam(w)
  <2>1. PICK t \in Teams, actor \in Users : Register(w, t, actor)
      BY <1>10 DEF handleRegisterTeam
  <2>2. Admit(w, [Idle EXCEPT !.op = "register", !.team = t])
      BY <2>1 DEF Register
  <2>3. [Idle EXCEPT !.op = "register", !.team = t] \in Request
      BY DEF Idle, Request, Op
  <2>4. Complete([Idle EXCEPT !.op = "register", !.team = t])
      BY DEF Idle, Complete
  <2> QED
      BY <2>2, <2>3, <2>4 DEF Admitted, Idle
<1>11. CASE handleWithdrawTeam(w)
  <2>1. PICK t \in Teams, actor \in Users : PullOut(w, t, actor)
      BY <1>11 DEF handleWithdrawTeam
  <2>2. Admit(w, [Idle EXCEPT !.op = "pull", !.team = t])
      BY <2>1 DEF PullOut
  <2>3. [Idle EXCEPT !.op = "pull", !.team = t] \in Request
      BY DEF Idle, Request, Op
  <2>4. Complete([Idle EXCEPT !.op = "pull", !.team = t])
      BY DEF Idle, Complete
  <2> QED
      BY <2>2, <2>3, <2>4 DEF Admitted, Idle
<1> QED
    BY <1>1, <1>2, <1>3, <1>4, <1>5, <1>6, <1>7, <1>8, <1>9, <1>10, <1>11

(* A step lets a request through, writes for one, or is the organiser's. *)
LEMMA Steps ==
    ASSUME TypeInv, Next
    PROVE  \/ handleCreateTeam /\ UNCHANGED <<matches, cup>>
           \/ \E w \in Workers, r \in Request : Admitted(w, r) /\ UNCHANGED <<teams, matches, cup>>
           \/ \E w \in Workers :
                 \/ (InsertMember(w) \/ DeleteMember(w) \/ MoveArmband(w)) /\ UNCHANGED <<matches, cup>>
                 \/ (InsertMatch(w) \/ SetVerified(w) \/ Recount(w) \/ DeleteMatch(w))
                       /\ UNCHANGED <<teams, cup>>
                 \/ (InsertEntry(w) \/ DeleteEntry(w)) /\ UNCHANGED <<teams, matches>>
                 \/ DisbandTeam(w) \/ Abort(w)
           \/ (handleCreateTournament \/ handleSetEntryPaid \/ handleSetTournamentStatus \/ DeadlinePasses)
                 /\ UNCHANGED <<teams, req, matches>>
<1>1. ASSUME NEW w \in Workers, RosterStep(w), UNCHANGED <<matches, cup>>
      PROVE  \/ \E r \in Request : Admitted(w, r) /\ UNCHANGED <<teams, matches, cup>>
             \/ (InsertMember(w) \/ DeleteMember(w) \/ MoveArmband(w)) /\ UNCHANGED <<matches, cup>>
  <2>1. (\/ handleJoinTeam(w) \/ handleAddTeamMember(w) \/ handleRemoveTeamMember(w)
         \/ handleTransferCaptaincy(w) \/ handleDisbandTeam(w)) => UNCHANGED teams
      BY DEF handleJoinTeam, handleAddTeamMember, handleRemoveTeamMember, handleTransferCaptaincy,
             handleDisbandTeam, Join, AddMember, RemoveMember, TransferCaptaincy, Disband
  <2> QED
      BY <1>1, <2>1, LetThrough DEF RosterStep
<1>2. ASSUME NEW w \in Workers, ResultStep(w), UNCHANGED cup
      PROVE  \/ \E r \in Request : Admitted(w, r) /\ UNCHANGED <<teams, matches, cup>>
             \/ (InsertMatch(w) \/ SetVerified(w) \/ Recount(w) \/ DeleteMatch(w))
                    /\ UNCHANGED <<teams, cup>>
  <2>1. (\/ handleReportMatch(w) \/ handleConfirmMatch(w) \/ handleDisputeMatch(w)
         \/ handleWithdrawMatch(w)) => UNCHANGED <<teams, matches>>
      BY DEF handleReportMatch, handleConfirmMatch, handleDisputeMatch, handleWithdrawMatch,
             Report, Confirm, Dispute, Withdraw
  <2>2. (InsertMatch(w) \/ SetVerified(w) \/ Recount(w) \/ DeleteMatch(w)) => UNCHANGED teams
      BY DEF InsertMatch, SetVerified, Recount, DeleteMatch
  <2> QED
      BY <1>2, <2>1, <2>2, LetThrough DEF ResultStep
<1>3. ASSUME BracketStep, UNCHANGED matches
      PROVE  \/ \E w \in Workers, r \in Request : Admitted(w, r) /\ UNCHANGED <<teams, matches, cup>>
             \/ \E w \in Workers : (InsertEntry(w) \/ DeleteEntry(w)) /\ UNCHANGED <<teams, matches>>
             \/ (handleCreateTournament \/ handleSetEntryPaid \/ handleSetTournamentStatus \/ DeadlinePasses)
                   /\ UNCHANGED <<teams, req, matches>>
  <2>1. ASSUME NEW w \in Workers, handleRegisterTeam(w) \/ handleWithdrawTeam(w)
        PROVE  UNCHANGED <<teams, cup>>
      BY <2>1 DEF handleRegisterTeam, handleWithdrawTeam, Register, PullOut
  <2>2. ASSUME NEW w \in Workers, InsertEntry(w) \/ DeleteEntry(w) PROVE UNCHANGED teams
      BY <2>2 DEF InsertEntry, DeleteEntry
  <2>3. (handleCreateTournament \/ handleSetEntryPaid \/ handleSetTournamentStatus \/ DeadlinePasses)
          => UNCHANGED <<teams, req>>
      BY DEF handleCreateTournament, handleSetEntryPaid, handleSetTournamentStatus,
             CreateTournament, SetEntryPaid, SetStatus, DeadlinePasses
  <2> QED
      BY <1>3, <2>1, <2>2, <2>3, LetThrough DEF BracketStep
<1> QED
    BY <1>1, <1>2, <1>3, Zenon DEF Next

(* The trigger and the deletion of an entry keep the row a tournament. *)
LEMMA CountedType ==
    ASSUME NEW c \in Tournament, NEW delta \in Int
    PROVE  /\ Counted(c, delta) \in Tournament
           /\ Counted(c, delta).entries = c.entries
           /\ Counted(c, delta).teamCount = c.teamCount + delta
<1> DEFINE st == IF c.status \notin {"open", "full"} THEN c.status
                 ELSE IF c.teamCount + delta >= MaxTeams THEN "full" ELSE "open"
<1>1. Counted(c, delta) = [c EXCEPT !.teamCount = c.teamCount + delta, !.status = st]
    BY DEF Counted, Tournament
<1>2. st \in Status /\ c.teamCount + delta \in Int
    BY DEF Tournament, Status
<1> HIDE DEF st
<1> QED
    BY <1>1, <1>2 DEF Tournament

LEMMA WithoutEntryType ==
    ASSUME NEW c \in Tournament, NEW t \in Teams
    PROVE  /\ WithoutEntry(c, t) \in Tournament
           /\ WithoutEntry(c, t).entries = [c.entries EXCEPT ![t] = "none"]
           /\ WithoutEntry(c, t).teamCount = c.teamCount - 1
  BY CountedType DEF WithoutEntry, Tournament, Entry

(* Every step keeps the types. *)
LEMMA TypeStep == TypeInv /\ [Next]_vars => TypeInv'
<1> SUFFICES ASSUME TypeInv, [Next]_vars PROVE TypeInv'
    OBVIOUS
<1> DEFINE Kept(w) == /\ req' \in [Workers -> Request]
                      /\ \A v \in Workers : Complete(req'[v])
<1>1. ASSUME NEW w \in Workers, Finish(w) PROVE Kept(w)
    BY <1>1, FinishType
<1>2. CASE UNCHANGED vars
    BY <1>2 DEF vars, TypeInv, TypeOK, Complete
<1>3. CASE handleCreateTeam /\ UNCHANGED <<matches, cup>>
  <2>1. PICK t \in Teams, u \in Users : Create(t, u)
      BY <1>3 DEF handleCreateTeam
  <2>2. teams' \in [Teams -> Squad \cup {Null}]
      BY <2>1 DEF Create, TypeInv, TypeOK, Squad, Role
  <2> QED
      BY <1>3, <2>1, <2>2 DEF Create, TypeInv, TypeOK
<1>4. ASSUME NEW w \in Workers, NEW r \in Request, Admitted(w, r), UNCHANGED <<teams, matches, cup>>
      PROVE  TypeInv'
  <2>1. Kept(w)
      BY <1>4, AdmitType DEF Admitted, Admit
  <2> QED
      BY <1>4, <2>1 DEF TypeInv, TypeOK
<1>5. ASSUME NEW w \in Workers, InsertMember(w) \/ DeleteMember(w) \/ MoveArmband(w),
             UNCHANGED <<matches, cup>>
      PROVE  TypeInv'
  <2>1. Finish(w)
      BY <1>5 DEF InsertMember, DeleteMember, MoveArmband
  <2>2. req[w].team \in Teams /\ req[w].user \in Users
      BY <1>5 DEF InsertMember, DeleteMember, MoveArmband, TypeInv, Complete
  <2>3. CASE InsertMember(w)
    <3>1. teams' \in [Teams -> Squad \cup {Null}]
        BY <2>2, <2>3 DEF InsertMember, Founded, TypeInv, TypeOK, Squad, Role
    <3> QED
        BY <1>1, <1>5, <2>1, <3>1 DEF TypeInv, TypeOK
  <2>4. CASE DeleteMember(w)
    <3>1. teams' \in [Teams -> Squad \cup {Null}]
        BY <2>2, <2>4 DEF DeleteMember, Founded, TypeInv, TypeOK, Squad, Role
    <3> QED
        BY <1>1, <1>5, <2>1, <3>1 DEF TypeInv, TypeOK
  <2>5. CASE MoveArmband(w)
    <3>1. ASSUME Founded(req[w].team)
          PROVE  HandedOver(teams[req[w].team].roster, req[w].actor, req[w].user) \in [Users -> Role]
        BY <2>2, <3>1 DEF HandedOver, Founded, TypeInv, TypeOK, Squad, Role
    <3>2. teams' \in [Teams -> Squad \cup {Null}]
        BY <2>2, <2>5, <3>1 DEF MoveArmband, TypeInv, TypeOK, Squad
    <3> QED
        BY <1>1, <1>5, <2>1, <3>2 DEF TypeInv, TypeOK
  <2> QED
      BY <1>5, <2>3, <2>4, <2>5
<1>6. ASSUME NEW w \in Workers, InsertMatch(w) \/ SetVerified(w) \/ Recount(w),
             UNCHANGED <<teams, cup>>
      PROVE  TypeInv'
  <2>1. Finish(w)
      BY <1>6 DEF InsertMatch, SetVerified, Recount
  <2>2. req[w].fixture \in Fixtures
      BY <1>6 DEF InsertMatch, SetVerified, Recount, TypeInv, Complete
  <2>3. ASSUME InsertMatch(w) PROVE matches' \in [Fixtures -> Match \cup {Null}]
      BY <2>2, <2>3 DEF InsertMatch, TypeInv, TypeOK, Complete, Match
  <2>4. ASSUME SetVerified(w) PROVE matches' \in [Fixtures -> Match \cup {Null}]
      BY <2>2, <2>4 DEF SetVerified, Filed, TypeInv, TypeOK, Match
  <2>5. ASSUME Recount(w) PROVE matches' \in [Fixtures -> Match \cup {Null}]
      BY <2>2, <2>5 DEF Recount, Filed, TypeInv, TypeOK, Complete, Match
  <2> QED
      BY <1>1, <1>6, <2>1, <2>3, <2>4, <2>5 DEF TypeInv, TypeOK
<1>7. ASSUME NEW w \in Workers, DeleteMatch(w), UNCHANGED <<teams, cup>> PROVE TypeInv'
  <2>1. Kept(w)
      BY <1>7, IdleIsComplete DEF DeleteMatch, TypeInv, TypeOK
  <2>2. matches' \in [Fixtures -> Match \cup {Null}]
      BY <1>7 DEF DeleteMatch, TypeInv, TypeOK
  <2> QED
      BY <1>7, <2>1, <2>2 DEF TypeInv, TypeOK
<1>8. ASSUME NEW w \in Workers, InsertEntry(w) \/ DeleteEntry(w), UNCHANGED <<teams, matches>>
      PROVE  TypeInv'
  <2>1. Finish(w) /\ req[w].team \in Teams
      BY <1>8 DEF InsertEntry, DeleteEntry, TypeInv, Complete
  <2>2. ASSUME InsertEntry(w) PROVE cup' \in Tournament \cup {Null}
      BY <1>8, <2>1, <2>2, CountedType
      DEF InsertEntry, Announced, TypeInv, TypeOK, Tournament, Entry
  <2>3. ASSUME DeleteEntry(w) PROVE cup' \in Tournament \cup {Null}
      BY <1>8, <2>1, <2>3, WithoutEntryType DEF DeleteEntry, TypeInv, TypeOK, Entered, Announced
  <2>4. cup' \in Tournament \cup {Null}
      BY <1>8, <2>2, <2>3
  <2> QED
      BY <1>1, <1>8, <2>1, <2>4 DEF TypeInv, TypeOK
<1>9. ASSUME NEW w \in Workers, DisbandTeam(w) PROVE TypeInv'
  <2>1. req[w].team \in Teams
      BY <1>9 DEF DisbandTeam, DeleteTeam, TypeInv, Complete
  <2>2. Kept(w)
      BY <1>9, IdleIsComplete DEF DisbandTeam, TypeInv, TypeOK
  <2>3. teams' \in [Teams -> Squad \cup {Null}] /\ matches' \in [Fixtures -> Match \cup {Null}]
      BY <1>9 DEF DisbandTeam, DeleteTeam, TypeInv, TypeOK
  <2>4. cup' \in Tournament \cup {Null}
      BY <1>9, <2>1, WithoutEntryType DEF DisbandTeam, TypeInv, TypeOK, Entered, Announced
  <2> QED
      BY <2>2, <2>3, <2>4 DEF TypeInv, TypeOK
<1>10. ASSUME NEW w \in Workers, Abort(w) PROVE TypeInv'
    BY <1>1, <1>10 DEF Abort, TypeInv, TypeOK
<1>11. CASE /\ handleCreateTournament \/ handleSetEntryPaid \/ handleSetTournamentStatus \/ DeadlinePasses
            /\ UNCHANGED <<teams, req, matches>>
  <2>1. CASE handleCreateTournament
      BY <1>11, <2>1 DEF handleCreateTournament, CreateTournament, TypeInv, TypeOK, Tournament,
                         Status, Entry
  <2>2. CASE handleSetEntryPaid
      BY <1>11, <2>2 DEF handleSetEntryPaid, SetEntryPaid, OrganizedBy, Announced, TypeInv, TypeOK,
                         Tournament, Entry
  <2>3. CASE handleSetTournamentStatus
      BY <1>11, <2>3 DEF handleSetTournamentStatus, SetStatus, OrganizedBy, Announced, TypeInv,
                         TypeOK, Tournament
  <2>4. CASE DeadlinePasses
      BY <1>11, <2>4 DEF DeadlinePasses, Announced, TypeInv, TypeOK, Tournament
  <2> QED
      BY <1>11, <2>1, <2>2, <2>3, <2>4
<1> QED
    BY <1>2, <1>3, <1>4, <1>5, <1>6, <1>7, <1>8, <1>9, <1>10, <1>11, Steps

LEMMA InitTypeInv == Init => TypeInv
  BY IdleIsComplete DEF Init, SquadsInit, ResultsInit, BracketsInit, TypeInv, TypeOK

(* Type correctness: rows and requests stay what the code can build, and    *)
(* what is on its way carries what its statement uses.                      *)
THEOREM TypesHold == Spec => []TypeInv
  BY InitTypeInv, TypeStep, PTL DEF Spec

-----------------------------------------------------------------------------
(* What the writes do to the rosters. *)

(* The rosters are touched by the roster's own statements, by a new team    *)
(* and by a disbanded one.                                                  *)
LEMMA RosterSteps ==
    ASSUME TypeInv, [Next]_vars
    PROVE  \/ UNCHANGED teams
           \/ handleCreateTeam
           \/ \E w \in Workers : InsertMember(w) \/ DeleteMember(w) \/ MoveArmband(w) \/ DisbandTeam(w)
<1>1. ASSUME NEW w \in Workers, Abort(w) PROVE UNCHANGED teams
    BY <1>1 DEF Abort
<1>2. CASE UNCHANGED vars
    BY <1>2 DEF vars
<1> QED
    BY <1>1, <1>2, Steps

(* Two players cannot both wear the armband the unique index sees once. *)
LEMMA OneWearer ==
    ASSUME NEW roster \in [Users -> Role], OneCaptain(roster),
           NEW a \in Users, roster[a] = "captain", NEW b \in Users, roster[b] = "captain"
    PROVE  a = b
<1> DEFINE Wearers == {u \in Users : roster[u] = "captain"}
<1>1. SUFFICES ASSUME a # b PROVE FALSE
    OBVIOUS
<1>2. IsFiniteSet({a}) /\ Cardinality({a}) = 1
    BY FS_Singleton
<1>3. IsFiniteSet({a} \cup {b}) /\ Cardinality({a} \cup {b}) = 2
    BY <1>1, <1>2, FS_AddElement
<1>4. IsFiniteSet(Wearers)
    BY SquadsAssumption, FS_Subset
<1>5. Cardinality({a} \cup {b}) <= Cardinality(Wearers)
    BY <1>4, FS_Subset
<1>6. Cardinality(Wearers) <= 1
    BY DEF OneCaptain
<1>7. Cardinality(Wearers) \in Nat
    BY <1>4, FS_CardinalityType
<1> QED
    BY <1>3, <1>5, <1>6, <1>7

LEMMA ArmbandStep == TypeInv /\ ArmbandIsTheCaptains /\ [Next]_vars => ArmbandIsTheCaptains'
<1> SUFFICES ASSUME TypeInv, ArmbandIsTheCaptains, [Next]_vars,
                    NEW t \in Teams, NEW u \in Users,
                    Founded(t)', teams'[t].roster[u] = "captain"
             PROVE  teams'[t].captain = u
    BY DEF ArmbandIsTheCaptains, Members, IsCaptain
<1>0. ASSUME teams'[t] = teams[t] PROVE teams'[t].captain = u
    BY <1>0 DEF ArmbandIsTheCaptains, Members, IsCaptain, Founded
<1>1. CASE handleCreateTeam
    BY <1>0, <1>1 DEF handleCreateTeam, Create, TypeInv, TypeOK
<1>2. ASSUME NEW w \in Workers, InsertMember(w) PROVE teams'[t].captain = u
  <2>1. req[w].team \in Teams /\ req[w].user \in Users
      BY <1>2 DEF InsertMember, TypeInv, Complete
  <2>2. CASE req[w].team = t /\ Founded(t) /\ req[w].user \notin Members(t)
    <3>1. teams'[t] = [teams[t] EXCEPT !.roster[req[w].user] = "player"]
        BY <1>2, <2>1, <2>2 DEF InsertMember, TypeInv, TypeOK
    <3>2. teams[t].roster[u] = "captain" /\ teams'[t].captain = teams[t].captain
        BY <2>1, <2>2, <3>1 DEF TypeInv, TypeOK, Squad, Founded
    <3> QED
        BY <2>2, <3>2 DEF ArmbandIsTheCaptains, Members, IsCaptain
  <2> QED
      BY <1>0, <1>2, <2>1, <2>2 DEF InsertMember, TypeInv, TypeOK
<1>3. ASSUME NEW w \in Workers, DeleteMember(w) PROVE teams'[t].captain = u
  <2>1. req[w].team \in Teams /\ req[w].user \in Users
      BY <1>3 DEF DeleteMember, TypeInv, Complete
  <2>2. CASE req[w].team = t /\ Founded(t)
    <3>1. teams'[t] = [teams[t] EXCEPT !.roster[req[w].user] = "none"]
        BY <1>3, <2>1, <2>2 DEF DeleteMember, TypeInv, TypeOK
    <3>2. teams[t].roster[u] = "captain" /\ teams'[t].captain = teams[t].captain
        BY <2>1, <2>2, <3>1 DEF TypeInv, TypeOK, Squad, Founded
    <3> QED
        BY <2>2, <3>2 DEF ArmbandIsTheCaptains, Members, IsCaptain
  <2> QED
      BY <1>0, <1>3, <2>1, <2>2 DEF DeleteMember, TypeInv, TypeOK
<1>4. ASSUME NEW w \in Workers, MoveArmband(w) PROVE teams'[t].captain = u
  <2> DEFINE to == req[w].user
             handed == HandedOver(teams[t].roster, req[w].actor, to)
  <2>1. req[w].team \in Teams /\ to \in Users
      BY <1>4 DEF MoveArmband, TypeInv, Complete
  <2>2. CASE req[w].team = t /\ Founded(t) /\ to \in Members(t) /\ OneCaptain(handed)
    <3>1. teams'[t] = [captain |-> to, roster |-> handed]
        BY <1>4, <2>1, <2>2 DEF MoveArmband, TypeInv, TypeOK
    <3>2. handed \in [Users -> Role] /\ handed[to] = "captain"
        BY <2>1, <2>2 DEF HandedOver, Founded, TypeInv, TypeOK, Squad, Role
    <3>3. handed[u] = "captain"
        BY <3>1
    <3> HIDE DEF handed, to
    <3>4. u = to
        BY <2>1, <2>2, <3>2, <3>3, OneWearer
    <3> QED
        BY <3>1, <3>4
  <2> QED
      BY <1>0, <1>4, <2>1, <2>2 DEF MoveArmband, TypeInv, TypeOK
<1>5. ASSUME NEW w \in Workers, DisbandTeam(w) PROVE teams'[t].captain = u
    BY <1>0, <1>5 DEF DisbandTeam, DeleteTeam, Founded, TypeInv, TypeOK
<1> QED
    BY <1>0, <1>1, <1>2, <1>3, <1>4, <1>5, RosterSteps

(* Whoever wears the armband is the captain the team row names, whatever    *)
(* members leave and captains hand over side by side.                       *)
THEOREM ArmbandsAgree == Spec => []ArmbandIsTheCaptains
<1>1. Init => ArmbandIsTheCaptains
    BY DEF Init, SquadsInit, ArmbandIsTheCaptains, Members, Founded
<1> QED
    BY <1>1, TypesHold, ArmbandStep, PTL DEF Spec

-----------------------------------------------------------------------------
(* Agreed results. *)

LEMMA AgreedStep ==
    ASSUME TypeInv, [Next]_vars, NEW f \in Fixtures,
           Filed(f), matches[f].verified, matches'[f] # Null
    PROVE  matches'[f] = matches[f]
<1>1. CASE UNCHANGED matches
    BY <1>1
<1>2. ASSUME NEW w \in Workers, InsertMatch(w) PROVE matches'[f] = matches[f]
    BY <1>2 DEF InsertMatch, Filed, TypeInv, TypeOK
<1>3. ASSUME NEW w \in Workers, SetVerified(w) PROVE matches'[f] = matches[f]
    BY <1>3 DEF SetVerified, Filed, TypeInv, TypeOK
<1>4. ASSUME NEW w \in Workers, Recount(w) PROVE matches'[f] = matches[f]
    BY <1>4 DEF Recount, Filed, TypeInv, TypeOK
<1>5. ASSUME NEW w \in Workers, DeleteMatch(w) PROVE matches'[f] = matches[f]
    BY <1>5 DEF DeleteMatch, TypeInv, TypeOK
<1>6. ASSUME NEW w \in Workers, DisbandTeam(w) PROVE matches'[f] = matches[f]
    BY <1>6 DEF DisbandTeam, TypeInv, TypeOK
<1>7. \/ UNCHANGED matches
      \/ \E w \in Workers : \/ InsertMatch(w) \/ SetVerified(w) \/ Recount(w) \/ DeleteMatch(w)
                            \/ DisbandTeam(w)
    BY Steps DEF Abort, vars
<1> QED
    BY <1>1, <1>2, <1>3, <1>4, <1>5, <1>6, <1>7

(* An agreed score is never rewritten: counters, reports and confirmations  *)
(* that were let through before the agreement change nothing after it.      *)
THEOREM AgreementsStand == Spec => AgreedResultsStand
<1>1. TypeInv /\ [Next]_vars =>
          \A f \in Fixtures :
              (Filed(f) /\ matches[f].verified /\ matches'[f] # Null) => matches'[f] = matches[f]
    BY AgreedStep
<1> QED
    BY <1>1, TypesHold, PTL DEF Spec, AgreedResultsStand

-----------------------------------------------------------------------------
(* The entries of the tournament. *)

LEMMA EnteredIsFinite == IsFiniteSet(Entered)
  BY SquadsAssumption, FS_Subset DEF Entered

(* Taking an entry out keeps an honest count honest and within bounds. *)
LEMMA WithoutEntryCounts ==
    ASSUME TypeInv, TeamCountIsEntries, NEW t \in Entered, cup' = WithoutEntry(cup, t)
    PROVE  TeamCountIsEntries'
<1>1. cup \in Tournament /\ t \in Teams
    BY DEF Entered, Announced, TypeInv, TypeOK
<1>2. /\ cup' \in Tournament
      /\ cup'.entries = [cup.entries EXCEPT ![t] = "none"]
      /\ cup'.teamCount = cup.teamCount - 1
    BY <1>1, WithoutEntryType
<1>3. ASSUME Announced' PROVE Entered' = Entered \ {t}
    BY <1>1, <1>2, <1>3 DEF Entered, Announced, Tournament
<1>4. Cardinality(Entered \ {t}) = Cardinality(Entered) - 1
    BY EnteredIsFinite, FS_RemoveElement
<1>5. cup.teamCount = Cardinality(Entered) /\ cup.teamCount <= MaxTeams
    BY DEF TeamCountIsEntries, WithinCapacity, Entered
<1>6. Cardinality(Entered) \in Nat /\ MaxTeams \in Nat
    BY EnteredIsFinite, FS_CardinalityType, BracketsAssumption
<1>7. ASSUME Announced' PROVE cup'.teamCount = Cardinality(Entered')
    BY <1>2, <1>3, <1>4, <1>5, <1>7
<1>8. cup'.teamCount <= MaxTeams
    BY <1>2, <1>5, <1>6
<1> QED
    BY <1>7, <1>8 DEF TeamCountIsEntries, WithinCapacity

LEMMA TeamCountStep == TypeInv /\ TeamCountIsEntries /\ [Next]_vars => TeamCountIsEntries'
<1> SUFFICES ASSUME TypeInv, TeamCountIsEntries, [Next]_vars PROVE TeamCountIsEntries'
    OBVIOUS
<1>1. CASE UNCHANGED cup
    BY <1>1 DEF TeamCountIsEntries, Announced, Entered, WithinCapacity
<1>2. CASE handleCreateTournament
  <2>1. cup'.teamCount = 0 /\ cup'.entries = [t \in Teams |-> "none"]
      BY <1>2 DEF handleCreateTournament, CreateTournament
  <2>2. Entered' = {}
      BY <2>1 DEF Entered
  <2> QED
      BY <2>1, <2>2, FS_EmptySet, BracketsAssumption DEF TeamCountIsEntries, WithinCapacity
<1>3. CASE handleSetEntryPaid
  <2>1. PICK t \in Entered, paid \in BOOLEAN :
            cup' = [cup EXCEPT !.entries[t] = IF paid THEN "paid" ELSE "unpaid"]
      BY <1>3 DEF handleSetEntryPaid, SetEntryPaid
  <2>2. cup \in Tournament /\ t \in Teams /\ Announced
      BY DEF Entered, Announced, TypeInv, TypeOK
  <2>3. cup'.teamCount = cup.teamCount
      BY <2>1, <2>2 DEF Tournament
  <2>4. ASSUME Announced' PROVE Entered' = Entered
      BY <2>1, <2>2, <2>4 DEF Entered, Tournament
  <2> QED
      BY <2>2, <2>3, <2>4 DEF TeamCountIsEntries, WithinCapacity
<1>4. CASE handleSetTournamentStatus
  <2>1. PICK status \in Status : Announced /\ cup' = [cup EXCEPT !.status = status]
      BY <1>4 DEF handleSetTournamentStatus, SetStatus, OrganizedBy
  <2>2. cup'.teamCount = cup.teamCount /\ cup'.entries = cup.entries
      BY <2>1 DEF Announced, TypeInv, TypeOK, Tournament
  <2> QED
      BY <2>1, <2>2 DEF TeamCountIsEntries, WithinCapacity, Entered
<1>5. CASE DeadlinePasses
  <2>1. cup'.teamCount = cup.teamCount /\ cup'.entries = cup.entries /\ Announced
      BY <1>5 DEF DeadlinePasses, Announced, TypeInv, TypeOK, Tournament
  <2> QED
      BY <2>1 DEF TeamCountIsEntries, WithinCapacity, Entered
<1>6. ASSUME NEW w \in Workers, InsertEntry(w) PROVE TeamCountIsEntries'
  <2> DEFINE t == req[w].team
             entered == [Counted(cup, 1) EXCEPT !.entries[t] = "unpaid"]
  <2>1. CASE Announced /\ t \notin Entered /\ WithinCapacity(entered) /\ cup' = entered
    <3>1. cup \in Tournament /\ t \in Teams
        BY <1>6, <2>1 DEF Announced, InsertEntry, TypeInv, TypeOK, Complete
    <3>2. /\ Counted(cup, 1) \in Tournament
          /\ Counted(cup, 1).entries = cup.entries
          /\ Counted(cup, 1).teamCount = cup.teamCount + 1
        BY <3>1, CountedType
    <3>3. /\ cup'.entries = [cup.entries EXCEPT ![t] = "unpaid"]
          /\ cup'.teamCount = cup.teamCount + 1
        BY <2>1, <3>2 DEF Tournament
    <3>4. ASSUME Announced' PROVE Entered' = Entered \cup {t}
        BY <2>1, <3>1, <3>3, <3>4 DEF Entered, Tournament
    <3>5. Cardinality(Entered \cup {t}) = Cardinality(Entered) + 1
        BY <2>1, EnteredIsFinite, FS_AddElement
    <3> QED
        BY <2>1, <3>3, <3>4, <3>5 DEF TeamCountIsEntries, WithinCapacity
  <2> QED
      BY <1>1, <1>6, <2>1 DEF InsertEntry
<1>7. ASSUME NEW w \in Workers, DeleteEntry(w) PROVE TeamCountIsEntries'
    BY <1>1, <1>7, WithoutEntryCounts DEF DeleteEntry
<1>8. ASSUME NEW w \in Workers, DisbandTeam(w) PROVE TeamCountIsEntries'
    BY <1>1, <1>8, WithoutEntryCounts DEF DisbandTeam
<1>9. \/ UNCHANGED cup
      \/ handleCreateTournament \/ handleSetEntryPaid \/ handleSetTournamentStatus \/ DeadlinePasses
      \/ \E w \in Workers : InsertEntry(w) \/ DeleteEntry(w) \/ DisbandTeam(w)
    BY Steps DEF Abort, vars
<1> QED
    BY <1>1, <1>2, <1>3, <1>4, <1>5, <1>6, <1>7, <1>8, <1>9

(* team_count is the number of entries and never exceeds the bracket,       *)
(* through late entries, pulled teams and disbanded teams.                  *)
THEOREM TeamCountIsHonest == Spec => []TeamCountIsEntries
<1>1. Init => TeamCountIsEntries
    BY DEF Init, BracketsInit, TeamCountIsEntries, Announced
<1> QED
    BY <1>1, TypesHold, TeamCountStep, PTL DEF Spec

-----------------------------------------------------------------------------
(* The overrun of the squad. *)

Adding(t) == {w \in Workers : req[w].op = "add" /\ req[w].team = t}

(* Nobody is on his way into a team that is gone: its name may be used      *)
(* again, by a team with one member.                                        *)
OverrunInv ==
    /\ SquadOverrunIsBounded
    /\ \A w \in Workers : req[w].op = "add" => Founded(req[w].team)

LEMMA SquadSizes ==
    ASSUME NEW t \in Teams
    PROVE  /\ IsFiniteSet(Members(t)) /\ Cardinality(Members(t)) \in Nat
           /\ IsFiniteSet(Adding(t)) /\ Cardinality(Adding(t)) \in Nat
           /\ Cardinality(Adding(t)) <= Cardinality(Workers)
           /\ Cardinality(Workers) \in Nat \ {0}
           /\ MaxSquadSize \in Nat \ {0}
<1>1. IsFiniteSet(Members(t)) /\ IsFiniteSet(Adding(t))
          /\ Cardinality(Adding(t)) <= Cardinality(Workers)
    BY SquadsAssumption, FS_Subset DEF Members, Adding
<1>2. Cardinality(Workers) \in Nat /\ Cardinality(Workers) # 0
    BY SquadsAssumption, FS_CardinalityType, FS_EmptySet
<1> QED
    BY <1>1, <1>2, FS_CardinalityType, SquadsAssumption

(* Fewer members and fewer requests on their way overrun no squad. *)
LEMMA Shrinks ==
    ASSUME OverrunInv, NEW t \in Teams, Members(t)' \subseteq Members(t), Adding(t)' \subseteq Adding(t)
    PROVE  Cardinality(Members(t)') + Cardinality(Adding(t)') < MaxSquadSize + Cardinality(Workers)
<1>1. /\ IsFiniteSet(Members(t)') /\ Cardinality(Members(t)') <= Cardinality(Members(t))
      /\ IsFiniteSet(Adding(t)') /\ Cardinality(Adding(t)') <= Cardinality(Adding(t))
    BY SquadSizes, FS_Subset
<1>2. Cardinality(Members(t)') \in Nat /\ Cardinality(Adding(t)') \in Nat
    BY <1>1, FS_CardinalityType
<1>3. Cardinality(Members(t)) + Cardinality(Adding(t)) < MaxSquadSize + Cardinality(Workers)
    BY DEF OverrunInv, SquadOverrunIsBounded, MemberCount, Adding
<1> QED
    BY <1>1, <1>2, <1>3, SquadSizes

LEMMA OverrunGoal ==
    ASSUME \A t \in Teams :
               Cardinality(Members(t)') + Cardinality(Adding(t)') < MaxSquadSize + Cardinality(Workers),
           \A w \in Workers : req'[w].op = "add" => Founded(req[w].team)'
    PROVE  OverrunInv'
  BY DEF OverrunInv, SquadOverrunIsBounded, MemberCount, Adding

(* Most steps add no member and let nobody new through. *)
LEMMA QuietStep ==
    ASSUME TypeInv, OverrunInv,
           \A t \in Teams : Members(t)' \subseteq Members(t),
           \A w \in Workers : req'[w] = req[w] \/ req'[w] = Idle,
           \A w \in Workers : req'[w].op = "add" => Founded(req[w].team)'
    PROVE  OverrunInv'
<1>1. ASSUME NEW t \in Teams PROVE Adding(t)' \subseteq Adding(t)
    BY DEF Adding, Idle
<1> QED
    BY <1>1, Shrinks, OverrunGoal

LEMMA OverrunStep == TypeInv /\ OverrunInv /\ [Next]_vars => OverrunInv'
<1> SUFFICES ASSUME TypeInv, OverrunInv, [Next]_vars PROVE OverrunInv'
    OBVIOUS
<1> DEFINE Quiet == \A w \in Workers : req'[w] = req[w] \/ req'[w] = Idle
<1>1. ASSUME NEW w \in Workers, Finish(w) PROVE Quiet
    BY <1>1 DEF Finish, TypeInv, TypeOK
<1>2. ASSUME UNCHANGED teams, Quiet PROVE OverrunInv'
  <2>1. \A t \in Teams : Members(t)' \subseteq Members(t)
      BY <1>2 DEF Members, Founded
  <2>2. \A w \in Workers : req'[w].op = "add" => Founded(req[w].team)'
      BY <1>2 DEF OverrunInv, Founded, Idle
  <2> QED
      BY <1>2, <2>1, <2>2, QuietStep
<1>3. CASE handleCreateTeam
  <2>1. PICK t0 \in Teams, u \in Users : Create(t0, u)
      BY <1>3 DEF handleCreateTeam
  <2>2. UNCHANGED req /\ \A t \in Teams : Adding(t)' = Adding(t)
      BY <2>1 DEF Create, Adding
  <2>3. Members(t0)' \subseteq {u}
      BY <2>1 DEF Create, Members, TypeInv, TypeOK
  <2>4. Adding(t0) = {}
      BY <2>1 DEF Create, Adding, OverrunInv
  <2>5. Cardinality(Members(t0)') <= 1 /\ Cardinality(Members(t0)') \in Nat
    <3>1. IsFiniteSet({u}) /\ Cardinality({u}) = 1
        BY FS_Singleton
    <3>2. IsFiniteSet(Members(t0)') /\ Cardinality(Members(t0)') <= Cardinality({u})
        BY <2>3, <3>1, FS_Subset
    <3> QED
        BY <3>1, <3>2, FS_CardinalityType
  <2>6. Cardinality(Members(t0)') + Cardinality(Adding(t0)') < MaxSquadSize + Cardinality(Workers)
      BY <2>2, <2>4, <2>5, FS_EmptySet, SquadSizes
  <2>7. ASSUME NEW t \in Teams, t # t0
        PROVE  Cardinality(Members(t)') + Cardinality(Adding(t)') < MaxSquadSize + Cardinality(Workers)
    <3>1. Members(t)' = Members(t)
        BY <2>1, <2>7 DEF Create, Members, Founded, TypeInv, TypeOK
    <3> QED
        BY <2>2, <3>1, Shrinks
  <2>8. \A t \in Teams : Founded(t) => Founded(t)'
      BY <2>1, SquadsAssumption DEF Create, Founded, TypeInv, TypeOK
  <2>9. \A w \in Workers : req'[w].op = "add" => Founded(req[w].team)'
      BY <2>2, <2>8 DEF OverrunInv, TypeInv, Complete
  <2> QED
      BY <2>6, <2>7, <2>9, OverrunGoal
<1>4. ASSUME NEW w \in Workers, NEW r \in Request, Admitted(w, r), UNCHANGED teams PROVE OverrunInv'
  <2>1. req' = [req EXCEPT ![w] = r]
      BY <1>4 DEF Admitted, Admit
  <2>2. ASSUME NEW t \in Teams
        PROVE  Cardinality(Members(t)') + Cardinality(Adding(t)') < MaxSquadSize + Cardinality(Workers)
    <3>1. Members(t)' = Members(t)
        BY <1>4 DEF Members, Founded
    <3>2. CASE r.op = "add" /\ r.team = t
      <4>1. Cardinality(Members(t)) < MaxSquadSize
          BY <1>4, <3>2 DEF Admitted, MemberCount
      <4>2. Cardinality(Adding(t)') <= Cardinality(Workers) /\ Cardinality(Adding(t)') \in Nat
        <5>1. Adding(t)' \subseteq Workers
            BY DEF Adding
        <5> QED
            BY <5>1, SquadsAssumption, FS_Subset, FS_CardinalityType
      <4> QED
          BY <3>1, <4>1, <4>2, SquadSizes
    <3>3. CASE ~(r.op = "add" /\ r.team = t)
      <4>1. Adding(t)' \subseteq Adding(t)
          BY <2>1, <3>3 DEF Adding, TypeInv, TypeOK
      <4> QED
          BY <3>1, <4>1, Shrinks
    <3> QED
        BY <3>2, <3>3
  <2>3. \A v \in Workers : req'[v].op = "add" => Founded(req[v].team)'
      BY <1>4, <2>1 DEF Admitted, OverrunInv, Founded, TypeInv, TypeOK
  <2> QED
      BY <2>2, <2>3, OverrunGoal
<1>5. ASSUME NEW w \in Workers, InsertMember(w) PROVE OverrunInv'
  <2>1. PICK t0 \in Teams, u \in Users :
            /\ req[w].team = t0 /\ req[w].user = u /\ req[w].op = "add"
            /\ req' = [req EXCEPT ![w] = Idle]
            /\ teams' = IF Founded(t0) /\ u \notin Members(t0)
                        THEN [teams EXCEPT ![t0].roster[u] = "player"] ELSE teams
      BY <1>5 DEF InsertMember, Finish, TypeInv, Complete
  <2>2. ASSUME NEW t \in Teams, t # t0
        PROVE  Cardinality(Members(t)') + Cardinality(Adding(t)') < MaxSquadSize + Cardinality(Workers)
    <3>1. Members(t)' = Members(t)
        BY <2>1, <2>2 DEF Members, Founded, TypeInv, TypeOK
    <3>2. Adding(t)' \subseteq Adding(t)
        BY <2>1 DEF Adding, Idle, TypeInv, TypeOK
    <3> QED
        BY <3>1, <3>2, Shrinks
  <2>3. Cardinality(Members(t0)') + Cardinality(Adding(t0)') < MaxSquadSize + Cardinality(Workers)
    <3>1. Members(t0)' \subseteq Members(t0) \cup {u}
        BY <2>1 DEF Members, Founded, TypeInv, TypeOK, Squad, Role
    <3>2. Adding(t0)' = Adding(t0) \ {w} /\ w \in Adding(t0)
        BY <2>1 DEF Adding, Idle, TypeInv, TypeOK
    <3>3. /\ IsFiniteSet(Members(t0)) /\ Cardinality(Members(t0)) \in Nat
          /\ IsFiniteSet(Adding(t0))
        BY <2>1, SquadSizes
    <3>4. IsFiniteSet(Members(t0) \cup {u})
            /\ Cardinality(Members(t0) \cup {u}) <= Cardinality(Members(t0)) + 1
      <4>1. /\ IsFiniteSet(Members(t0) \cup {u})
            /\ Cardinality(Members(t0) \cup {u}) =
                  IF u \in Members(t0) THEN Cardinality(Members(t0)) ELSE Cardinality(Members(t0)) + 1
          BY <3>3, FS_AddElement, Zenon
      <4> QED
          BY <3>3, <4>1
    <3>5. IsFiniteSet(Members(t0)') /\ Cardinality(Members(t0)') <= Cardinality(Members(t0) \cup {u})
        BY <3>1, <3>4, FS_Subset
    <3>6. Cardinality(Adding(t0)') = Cardinality(Adding(t0)) - 1
        BY <3>2, <3>3, FS_RemoveElement
    <3>7. Cardinality(Members(t0)') \in Nat /\ Cardinality(Members(t0) \cup {u}) \in Nat
        BY <3>4, <3>5, FS_CardinalityType
    <3>8. Cardinality(Members(t0)) + Cardinality(Adding(t0)) < MaxSquadSize + Cardinality(Workers)
        BY <2>1 DEF OverrunInv, SquadOverrunIsBounded, MemberCount, Adding
    <3> QED
        BY <2>1, <3>4, <3>5, <3>6, <3>7, <3>8, SquadSizes
  <2>4. \A t \in Teams : Founded(t) => Founded(t)'
    <3>1. ASSUME Founded(t0) PROVE [teams[t0] EXCEPT !.roster[u] = "player"] \in Squad
        BY <2>1, <3>1 DEF Founded, TypeInv, TypeOK, Squad, Role
    <3> QED
        BY <2>1, <3>1, SquadsAssumption DEF Founded, TypeInv, TypeOK
  <2>5. \A v \in Workers : req'[v].op = "add" => Founded(req[v].team)'
      BY <2>1, <2>4 DEF OverrunInv, Idle, TypeInv, TypeOK, Complete
  <2> QED
      BY <2>2, <2>3, <2>5, OverrunGoal
<1>6. ASSUME NEW w \in Workers, DeleteMember(w) \/ MoveArmband(w) PROVE OverrunInv'
  <2>1. Finish(w) /\ req[w].team \in Teams /\ req[w].user \in Users
      BY <1>6 DEF DeleteMember, MoveArmband, TypeInv, Complete
  <2>2. \A t \in Teams : Members(t)' \subseteq Members(t)
    <3>1. CASE DeleteMember(w)
        BY <2>1, <3>1 DEF DeleteMember, Members, Founded, TypeInv, TypeOK, Squad, Role
    <3>2. CASE MoveArmband(w)
        BY <2>1, <3>2 DEF MoveArmband, HandedOver, Members, Founded, TypeInv, TypeOK, Squad, Role
    <3> QED
        BY <1>6, <3>1, <3>2
  <2>3. \A t \in Teams : Founded(t) => Founded(t)'
    <3>1. CASE DeleteMember(w)
      <4>1. ASSUME Founded(req[w].team)
            PROVE  [teams[req[w].team] EXCEPT !.roster[req[w].user] = "none"] \in Squad
          BY <2>1, <4>1 DEF Founded, TypeInv, TypeOK, Squad, Role
      <4> QED
          BY <2>1, <3>1, <4>1, SquadsAssumption DEF DeleteMember, Founded, TypeInv, TypeOK
    <3>2. CASE MoveArmband(w)
      <4> DEFINE handed == HandedOver(teams[req[w].team].roster, req[w].actor, req[w].user)
      <4>1. ASSUME Founded(req[w].team) PROVE [captain |-> req[w].user, roster |-> handed] \in Squad
          BY <2>1, <4>1 DEF HandedOver, Founded, TypeInv, TypeOK, Squad, Role
      <4> QED
          BY <2>1, <3>2, <4>1, SquadsAssumption DEF MoveArmband, Founded, TypeInv, TypeOK
    <3> QED
        BY <1>6, <3>1, <3>2
  <2>4. \A v \in Workers : req'[v].op = "add" => Founded(req[v].team)'
      BY <1>1, <2>1, <2>3 DEF OverrunInv, Idle, TypeInv, Complete
  <2> QED
      BY <1>1, <2>1, <2>2, <2>4, QuietStep
<1>7. ASSUME NEW w \in Workers, DisbandTeam(w) PROVE OverrunInv'
  <2>1. req[w].team \in Teams /\ Quiet
      BY <1>7 DEF DisbandTeam, DeleteTeam, TypeInv, Complete
  <2>2. \A t \in Teams : Members(t)' \subseteq Members(t)
      BY <1>7, <2>1 DEF DisbandTeam, DeleteTeam, Members, Founded, TypeInv, TypeOK
  <2>3. ASSUME NEW v \in Workers, req'[v].op = "add" PROVE Founded(req[v].team)'
    <3>1. req'[v] = req[v] /\ req[v].team # req[w].team
        BY <1>7, <2>3 DEF DisbandTeam, Concerns, Idle
    <3> QED
        BY <1>7, <2>1, <2>3, <3>1
        DEF DisbandTeam, DeleteTeam, Founded, OverrunInv, TypeInv, TypeOK, Complete
  <2> QED
      BY <2>1, <2>2, <2>3, QuietStep
<1>8. ASSUME NEW w \in Workers, InsertMatch(w) \/ SetVerified(w) \/ Recount(w) \/ DeleteMatch(w)
      PROVE  UNCHANGED teams /\ Quiet
    BY <1>1, <1>8 DEF InsertMatch, SetVerified, Recount, DeleteMatch
<1>9. ASSUME NEW w \in Workers, InsertEntry(w) \/ DeleteEntry(w) \/ Abort(w)
      PROVE  UNCHANGED teams /\ Quiet
    BY <1>1, <1>9 DEF InsertEntry, DeleteEntry, Abort
<1>10. CASE UNCHANGED <<teams, req>>
    BY <1>2, <1>10
<1>11. CASE UNCHANGED vars
    BY <1>2, <1>11 DEF vars
<1> QED
    BY <1>2, <1>3, <1>4, <1>5, <1>6, <1>7, <1>8, <1>9, <1>10, <1>11, Steps

(* The squad is counted before the member is inserted.  Still it is never   *)
(* overrun by more than the requests that were served at the same time.     *)
THEOREM OverrunIsBounded == Spec => []SquadOverrunIsBounded
<1>1. Init => OverrunInv
  <2> SUFFICES ASSUME Init PROVE OverrunInv
      OBVIOUS
  <2>1. \A w \in Workers : req[w].op = "idle"
      BY DEF Init, SquadsInit, Idle
  <2>2. ASSUME NEW t \in Teams PROVE Members(t) = {} /\ Adding(t) = {}
      BY <2>1 DEF Init, SquadsInit, Members, Founded, Adding
  <2>3. \A t \in Teams : Cardinality(Members(t)) + Cardinality(Adding(t))
                            < MaxSquadSize + Cardinality(Workers)
      BY <2>2, FS_EmptySet, SquadSizes
  <2> QED
      BY <2>1, <2>3 DEF OverrunInv, SquadOverrunIsBounded, MemberCount, Adding
<1>2. OverrunInv => SquadOverrunIsBounded
    BY DEF OverrunInv
<1> QED
    BY <1>1, <1>2, TypesHold, OverrunStep, PTL DEF Spec

=============================================================================
