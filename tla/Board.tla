-------------------------------- MODULE Board --------------------------------
(***************************************************************************)
(* One call on the find-a-player board, and the players who answer it.     *)
(*                                                                         *)
(* A handler reads the call, checks it in the service, and then runs one   *)
(* transaction; what it read may be old by then.  Transactions that lock   *)
(* two rows (the call and a response) are split where they wait for the    *)
(* second: Accept locks the call first, Withdraw the response, Delete the  *)
(* call and then every response.  The trigger on responses runs inside the *)
(* statement that fires it.                                                *)
(***************************************************************************)
EXTENDS Integers, FiniteSets

CONSTANTS
    Author, Players,   \* who posted the call, and who may answer
    Workers,           \* requests served at the same time
    MaxNeededPlayers,
    MaxNow,            \* bound on the clock; calls kick off at 1 .. MaxNow
    Null

VARIABLES
    post,       \* the committed call, Null when there is none
    responses,  \* the committed response of each player
    postLock,   \* the worker whose transaction holds the call's row
    respLock,   \* the worker whose transaction holds each response row
    req,        \* what each worker is doing
    edited,     \* history: the places of the call were changed by its author
    now

vars == <<post, responses, postLock, respLock, req, edited, now>>

Users == Players \cup {Author}
MatchmakingStatus == {"open", "filled", "cancelled", "expired"}
Call == [attached : BOOLEAN, needed : 1 .. MaxNeededPlayers,
         filled : Nat, startsAt : 1 .. MaxNow, status : MatchmakingStatus]

ASSUME BoardAssumption ==
    /\ MaxNeededPlayers \in Nat \ {0} /\ MaxNow \in Nat \ {0}
    /\ Author \notin Players /\ IsFiniteSet(Players)
    /\ Null \notin Workers \cup Call

Response == {"none", "pending", "accepted"}

(* respond, accept: the service has let the request through.                *)
(* accepting, deleting: the transaction holds the call.                     *)
(* freeing: an accepted response is deleted, its place not yet given back.  *)
Op == {"idle", "respond", "accept", "accepting", "freeing", "deleting"}
Request == [op : Op, user : Users \cup {Null}]
Idle == [op |-> "idle", user |-> Null]

NewCall(attached, n, at) ==
    [attached |-> attached, needed |-> n, filled |-> 0, startsAt |-> at, status |-> "open"]

(* Calls without a booking are older than the rule that wants one. *)
Init ==
    /\ \/ post = Null
       \/ \E n \in 1 .. MaxNeededPlayers, at \in 1 .. MaxNow : post = NewCall(FALSE, n, at)
    /\ responses = [u \in Players |-> "none"]
    /\ postLock = Null
    /\ respLock = [u \in Players |-> Null]
    /\ req = [w \in Workers |-> Idle]
    /\ edited = FALSE
    /\ now = 0

-----------------------------------------------------------------------------
(* domain.Call. *)

Exists == post # Null
SpotsRemaining(c) == IF c.needed > c.filled THEN c.needed - c.filled ELSE 0
AcceptsResponses(status) == status = "open"
Started(c) == c.startsAt <= now
(* A definition named Bug... is a later one with a plausible fault in it.   *)
(* Nothing uses them: they record what each property is able to catch.      *)
Validate(c) == c.needed \in 1 .. MaxNeededPlayers

CanBeJoinedBy(c, u) ==
    /\ u # Author
    /\ AcceptsResponses(c.status)
    /\ ~Started(c)
    /\ SpotsRemaining(c) # 0

CanAcceptResponse(c, u) ==
    /\ u = Author
    /\ c.status # "cancelled"
    /\ ~Started(c)
    /\ SpotsRemaining(c) # 0

CanBeManagedBy(u) == u = Author

(* The rows the feed shows. *)
Feed == {c \in {post} \ {Null} : c.status = "open" /\ ~Started(c) /\ c.filled < c.needed}

(* The requests an author is shown as waiting for an answer. *)
PendingRequests ==
    {u \in Players : Exists /\ post.status = "open" /\ ~Started(post) /\ responses[u] = "pending"}

-----------------------------------------------------------------------------
(* Locks, and the trigger sync_matchmaking_filled. *)

FreePost == postLock = Null
FreeResponse(u) == respLock[u] = Null
Ready(w) == req[w].op = "idle"
Goto(w, op, u) == req' = [req EXCEPT ![w] = [op |-> op, user |-> u]]
Finish(w) == req' = [req EXCEPT ![w] = Idle]

Synced(c, delta) ==
    LET filled == c.filled + delta IN
        [c EXCEPT !.filled = filled,
                  !.status = IF c.status \notin {"open", "filled"} THEN c.status
                             ELSE IF filled >= c.needed THEN "filled" ELSE "open"]

NotOverfilled(c) == c.filled <= c.needed

-----------------------------------------------------------------------------
(* MatchmakingService over MatchmakingRepo. *)

(* The booking is confirmed and not started; its hour is the kickoff.  A    *)
(* unique index allows one call per booking.                                *)
Create(u, n, at) ==
    /\ u = Author /\ ~Exists /\ at > now
    /\ post' = NewCall(TRUE, n, at)
    /\ Validate(post')
    /\ edited' = FALSE
    /\ UNCHANGED <<responses, postLock, respLock, req, now>>

(* Only the author's name is checked, which never changes; the edit is one  *)
(* statement.  The CHECK refuses fewer places than are filled.              *)
Update(u, n, at) ==
    /\ Exists /\ CanBeManagedBy(u) /\ FreePost
    /\ post.attached => at = post.startsAt
    /\ post' = [post EXCEPT !.needed = n, !.startsAt = at]
    /\ Validate(post') /\ NotOverfilled(post')
    /\ edited' = (edited \/ n # post.needed)
    /\ UNCHANGED <<responses, postLock, respLock, req, now>>

SetStatus(status) ==
    /\ Exists /\ FreePost
    /\ post' = [post EXCEPT !.status = status]
    /\ UNCHANGED <<responses, postLock, respLock, req, edited, now>>

Cancel(u) == CanBeManagedBy(u) /\ SetStatus("cancelled")

Respond(w, u) ==
    /\ Ready(w) /\ Exists /\ CanBeJoinedBy(post, u)
    /\ Goto(w, "respond", u)
    /\ UNCHANGED <<post, responses, postLock, respLock, edited, now>>

(* The insert.  Its foreign key waits for the call, and fails if it is gone; *)
(* the primary key waits for the player's own row, and allows one.           *)
InsertResponse(w) ==
    LET u == req[w].user IN
        /\ req[w].op = "respond" /\ FreePost /\ FreeResponse(u)
        /\ responses' = IF Exists /\ responses[u] = "none"
                        THEN [responses EXCEPT ![u] = "pending"] ELSE responses
        /\ Finish(w)
        /\ UNCHANGED <<post, postLock, respLock, edited, now>>

Accept(w, actor, u) ==
    /\ Ready(w) /\ Exists /\ CanAcceptResponse(post, actor)
    /\ Goto(w, "accept", u)
    /\ UNCHANGED <<post, responses, postLock, respLock, edited, now>>

(* What Accept looks at again once it holds the call. *)
BugStillTaking == Exists /\ post.filled < post.needed
StillTaking == Exists /\ post.status = "open" /\ post.filled < post.needed

BugAcceptLock(w) ==
    /\ req[w].op = "accept" /\ FreePost
    /\ IF Exists /\ post.status = "open"
       THEN postLock' = w /\ Goto(w, "accepting", req[w].user)
       ELSE UNCHANGED postLock /\ Finish(w)
    /\ UNCHANGED <<post, responses, respLock, edited, now>>

AcceptLock(w) ==
    /\ req[w].op = "accept" /\ FreePost
    /\ IF StillTaking
       THEN postLock' = w /\ Goto(w, "accepting", req[w].user)
       ELSE UNCHANGED postLock /\ Finish(w)
    /\ UNCHANGED <<post, responses, respLock, edited, now>>

BugAcceptCommit(w) ==
    LET u == req[w].user IN
        /\ req[w].op = "accepting"
        /\ responses[u] = "pending" => FreeResponse(u)
        /\ IF responses[u] = "pending" /\ NotOverfilled(Synced(post, 2))
           THEN /\ responses' = [responses EXCEPT ![u] = "accepted"]
                /\ post' = Synced(post, 2)
           ELSE UNCHANGED <<responses, post>>
        /\ postLock' = Null
        /\ Finish(w)
        /\ UNCHANGED <<respLock, edited, now>>

(* A row that is not accepted is waited for; one that is, or that is not    *)
(* there, is skipped.  The trigger counts the player, or the CHECK refuses. *)
AcceptCommit(w) ==
    LET u == req[w].user IN
        /\ req[w].op = "accepting"
        /\ responses[u] = "pending" => FreeResponse(u)
        /\ IF responses[u] = "pending" /\ NotOverfilled(Synced(post, 1))
           THEN /\ responses' = [responses EXCEPT ![u] = "accepted"]
                /\ post' = Synced(post, 1)
           ELSE UNCHANGED <<responses, post>>
        /\ postLock' = Null
        /\ Finish(w)
        /\ UNCHANGED <<respLock, edited, now>>

(* The delete.  A pending response moves no count and commits at once; for  *)
(* an accepted one the trigger goes on to the call.                         *)
Withdraw(w, u) ==
    /\ Ready(w) /\ responses[u] # "none" /\ FreeResponse(u)
    /\ IF responses[u] = "accepted"
       THEN /\ respLock' = [respLock EXCEPT ![u] = w]
            /\ Goto(w, "freeing", u)
            /\ UNCHANGED responses
       ELSE /\ responses' = [responses EXCEPT ![u] = "none"]
            /\ UNCHANGED <<respLock, req>>
    /\ UNCHANGED <<post, postLock, edited, now>>

BugWithdrawCommit(w) ==
    LET u == req[w].user IN
        /\ req[w].op = "freeing" /\ FreePost
        /\ responses' = [responses EXCEPT ![u] = "none"]
        /\ post' = [post EXCEPT !.filled = @ - 1]
        /\ respLock' = [respLock EXCEPT ![u] = Null]
        /\ Finish(w)
        /\ UNCHANGED <<postLock, edited, now>>

WithdrawCommit(w) ==
    LET u == req[w].user IN
        /\ req[w].op = "freeing" /\ FreePost
        /\ responses' = [responses EXCEPT ![u] = "none"]
        /\ post' = Synced(post, -1)
        /\ respLock' = [respLock EXCEPT ![u] = Null]
        /\ Finish(w)
        /\ UNCHANGED <<postLock, edited, now>>

Delete(w, u) ==
    /\ Ready(w) /\ Exists /\ CanBeManagedBy(u) /\ FreePost
    /\ postLock' = w
    /\ Goto(w, "deleting", Null)
    /\ UNCHANGED <<post, responses, respLock, edited, now>>

(* The cascade takes every response with the call. *)
DeleteCommit(w) ==
    /\ req[w].op = "deleting"
    /\ \A u \in Players : FreeResponse(u)
    /\ post' = Null
    /\ responses' = [u \in Players |-> "none"]
    /\ postLock' = Null
    /\ Finish(w)
    /\ UNCHANGED <<respLock, edited, now>>

(* A booking given up, declined or released takes its call down. *)
CloseWithBooking ==
    /\ Exists /\ post.attached /\ post.status # "cancelled"
    /\ SetStatus("cancelled")

BugExpireStale ==
    /\ Exists /\ FreePost /\ post.status = "open" /\ post.startsAt < now
    /\ post' = [post EXCEPT !.status = "expired"]
    /\ UNCHANGED <<responses, postLock, respLock, req, edited, now>>

ExpireStale ==
    /\ Exists /\ FreePost /\ post.status = "open" /\ Started(post)
    /\ post' = [post EXCEPT !.status = "expired"]
    /\ UNCHANGED <<responses, postLock, respLock, req, edited, now>>

-----------------------------------------------------------------------------
(* PostgreSQL's deadlock detector, the clock, and the handlers. *)

WaitsForPost(w) == req[w].op = "freeing" /\ postLock \notin {Null, w}
BugWaitsForResponse(w, u) ==
    /\ respLock[u] \notin {Null, w}
    /\ \/ req[w].op = "deleting"
       \/ req[w].op = "accepting" /\ req[w].user = u

WaitsForResponse(w, u) ==
    /\ respLock[u] \notin {Null, w}
    /\ \/ req[w].op = "deleting"
       \/ req[w].op = "accepting" /\ req[w].user = u /\ responses[u] = "pending"

Deadlocked(v, w) ==
    /\ WaitsForPost(v) /\ postLock = w
    /\ \E u \in Players : WaitsForResponse(w, u) /\ respLock[u] = v

RollBack(w) ==
    /\ postLock' = IF postLock = w THEN Null ELSE postLock
    /\ respLock' = [u \in Players |-> IF respLock[u] = w THEN Null ELSE respLock[u]]
    /\ Finish(w)
    /\ UNCHANGED <<post, responses, edited, now>>

BreakDeadlock ==
    \E v, w \in Workers : Deadlocked(v, w) /\ (RollBack(v) \/ RollBack(w))

Tick == /\ now < MaxNow
        /\ now' = now + 1
        /\ UNCHANGED <<post, responses, postLock, respLock, req, edited>>

(* A form may ask for any number of players. *)
Asked == 0 .. MaxNeededPlayers + 1

handleCreateCall == \E u \in Users, n \in Asked, at \in 1 .. MaxNow : Create(u, n, at)
handleUpdateCall == \E u \in Users, n \in Asked, at \in 1 .. MaxNow : Update(u, n, at)
handleCancelCall == \E u \in Users : Cancel(u)
handleDeleteCall(w) == \E u \in Users : Delete(w, u)
handleRespondToCall(w) == \E u \in Users : Respond(w, u)
handleWithdrawFromCall(w) == \E u \in Players : Withdraw(w, u)
handleAcceptResponse(w) == \E actor \in Users, u \in Players : Accept(w, actor, u)

(* A request that has begun goes on, or its connection is cut. *)
Proceed(w) ==
    \/ InsertResponse(w) \/ AcceptLock(w) \/ AcceptCommit(w)
    \/ WithdrawCommit(w) \/ DeleteCommit(w)

Abort(w) == ~Ready(w) /\ RollBack(w)

Next ==
    \/ handleCreateCall \/ handleUpdateCall \/ handleCancelCall
    \/ \E w \in Workers :
          \/ handleDeleteCall(w) \/ handleRespondToCall(w)
          \/ handleWithdrawFromCall(w) \/ handleAcceptResponse(w)
          \/ Proceed(w) \/ Abort(w)
    \/ CloseWithBooking \/ ExpireStale \/ BreakDeadlock \/ Tick

Spec == Init /\ [][Next]_vars

(* Whoever holds the call finishes: its last statement waits for nobody, or *)
(* gets the row locks it is queued for when they come free again and again. *)
(* The detector and the janitor keep running and time passes; no other      *)
(* request has to go on, and nobody has to ask for anything.                *)
Fairness ==
    /\ WF_vars(\E w \in Workers : AcceptCommit(w))
    /\ SF_vars(\E w \in Workers : DeleteCommit(w))
    /\ WF_vars(BreakDeadlock) /\ SF_vars(ExpireStale) /\ WF_vars(Tick)

FairSpec == Spec /\ Fairness

-----------------------------------------------------------------------------
(* Properties. *)

(* Types: rows and requests the code can build. *)
TypeOK ==
    /\ post \in Call \cup {Null}
    /\ responses \in [Players -> Response]
    /\ postLock \in Workers \cup {Null}
    /\ respLock \in [Players -> Workers \cup {Null}]
    /\ req \in [Workers -> Request]
    /\ edited \in BOOLEAN /\ now \in 0 .. MaxNow

(* filled_players is derived, never assigned (migration 0007): whatever is  *)
(* accepted, withdrawn, edited or rolled back side by side, it is the       *)
(* number of accepted responses.                                            *)
FilledCountsTheAccepted ==
    Exists => post.filled = Cardinality({u \in Players : responses[u] = "accepted"})

(* Locking the call first turns the race for the last place into an orderly *)
(* refusal (Accept): the CHECK never has to roll an acceptance back.        *)
CheckIsOnlyABackstop ==
    \A w \in Workers :
        req[w].op = "accepting" => Exists /\ NotOverfilled(Synced(post, 1))

(* Accept and Withdraw take the call and the response in opposite orders    *)
(* and still never wait for each other: a transaction caught in a circle is *)
(* a deletion of the call.                                                  *)
OnlyDeletionsDeadlock ==
    \A v, w \in Workers : Deadlocked(v, w) => req[w].op = "deleting"

(* A call whose places were never edited is filled exactly when it is full  *)
(* (the trigger: a full game closes itself, a withdrawal reopens it); until  *)
(* kickoff it is on the board as long as it is open, and its author can      *)
(* accept whoever he is shown as waiting.                                    *)
FullGamesAreClosed ==
    (Exists /\ ~edited /\ post.status \in {"open", "filled"}) =>
        /\ post.status = "filled" <=> post.filled = post.needed
        /\ ~Started(post) => (post.status = "open" <=> post \in Feed)
        /\ \A u \in PendingRequests : CanAcceptResponse(post, Author)

(* The call as its players see it. *)
Accepted == {u \in Players : responses[u] = "accepted"}
Waiting == {u \in Players : responses[u] = "pending"}
gameState ==
    IF ~Exists THEN "none"
    ELSE CASE post.status = "open" -> "open"
           [] post.status = "filled" -> "full"
           [] OTHER -> "over"
OneGame == INSTANCE Game WITH
    People <- Players, Sizes <- 1 .. MaxNeededPlayers,
    state <- gameState, places <- IF Exists THEN post.needed ELSE 0,
    asked <- Waiting, team <- Accepted

(* Whatever the transactions on a call have read before they write, and     *)
(* though its count is kept by a trigger: to its players it is a game whose *)
(* places are asked for, given, left and given again one act at a time.     *)
PlayedAsPromised == OneGame!Spec

(* An open call that has kicked off is closed by the janitor in the end,    *)
(* also one that a late withdrawal reopened.                                *)
StartedCallsAreClosed ==
    (Exists /\ post.status = "open" /\ Started(post)) ~> ~(Exists /\ post.status = "open" /\ Started(post))
=============================================================================
