---------------------------- MODULE BoardProofs ----------------------------
(***************************************************************************)
(* What Board keeps for any number of players and of requests served side  *)
(* by side: the row locks are held as they should be, filled_players is    *)
(* the number of accepted players and never exceeds the places, a call is  *)
(* closed exactly when it is full, and only a deletion is ever part of a   *)
(* circle of waiting transactions; and the call with its responses plays   *)
(* the abstract Game.                                                      *)
(***************************************************************************)
EXTENDS Board, FiniteSetTheorems, TLAPS

(* Who holds what: the call is held by the transaction that accepts or      *)
(* deletes, a response by the one that takes its accepted player out.       *)
Locks ==
    /\ \A w \in Workers :
          /\ req[w].op \in {"respond", "accept", "accepting", "freeing"} => req[w].user \in Players
          /\ postLock = w <=> req[w].op \in {"accepting", "deleting"}
          /\ req[w].op = "freeing" => responses[req[w].user] = "accepted"
    /\ \A w \in Workers, u \in Players :
          respLock[u] = w <=> req[w].op = "freeing" /\ req[w].user = u

Counts ==
    /\ ~Exists => \A u \in Players : responses[u] = "none"
    /\ Exists => post.filled = Cardinality(Accepted) /\ NotOverfilled(post)
    /\ \A w \in Workers : req[w].op = "accepting" => Exists /\ post.filled < post.needed

(* Until its places are edited, a call that can be joined or reopened is    *)
(* filled exactly when it is full.                                          *)
Closed ==
    (Exists /\ ~edited /\ post.status \in {"open", "filled"}) =>
        (post.status = "filled" <=> post.filled = post.needed)

IInv == TypeOK /\ Locks /\ Counts /\ Closed

-----------------------------------------------------------------------------
LEMMA AcceptedSize == IsFiniteSet(Accepted) /\ Cardinality(Accepted) \in Nat
  BY BoardAssumption, FS_Subset, FS_CardinalityType DEF Accepted

LEMMA InitIInv == Init => IInv
<1> SUFFICES ASSUME Init PROVE IInv
    OBVIOUS
<1>1. \A w \in Workers : req[w] = Idle
    BY DEF Init
<1>2. TypeOK
  <2>1. ASSUME NEW n \in 1 .. MaxNeededPlayers, NEW at \in 1 .. MaxNow
        PROVE  NewCall(FALSE, n, at) \in Call
      BY DEF NewCall, Call, MatchmakingStatus
  <2>2. post \in Call \cup {Null}
      BY <2>1 DEF Init
  <2>3. now \in 0 .. MaxNow
      BY BoardAssumption DEF Init
  <2>4. edited \in BOOLEAN
      BY Zenon DEF Init
  <2>5. req \in [Workers -> Request]
      BY DEF Init, Request, Op, Idle
  <2> QED
      BY <2>2, <2>3, <2>4, <2>5 DEF Init, TypeOK, Response
<1>3. Locks
    BY <1>1, BoardAssumption DEF Init, Locks, Idle
<1>4. Accepted = {}
    BY DEF Init, Accepted
<1>5. Exists => post.filled = 0 /\ post.needed \in 1 .. MaxNeededPlayers /\ post.status = "open"
    BY DEF Init, Exists, NewCall
<1>6. Counts
    BY <1>1, <1>4, <1>5, FS_EmptySet DEF Init, Counts, NotOverfilled, Idle
<1>7. Closed
    BY <1>5 DEF Closed
<1> QED
    BY <1>2, <1>3, <1>6, <1>7 DEF IInv

(* The trigger moves the count by delta and closes a call that gets full. *)
LEMMA SyncedIs ==
    ASSUME NEW c \in Call, NEW delta \in {1, -1}, c.filled + delta \in Nat
    PROVE  /\ Synced(c, delta) \in Call
           /\ Synced(c, delta).filled = c.filled + delta
           /\ Synced(c, delta).needed = c.needed
           /\ Synced(c, delta).status =
                 IF c.status \notin {"open", "filled"} THEN c.status
                 ELSE IF c.filled + delta >= c.needed THEN "filled" ELSE "open"
<1> DEFINE st == IF c.status \notin {"open", "filled"} THEN c.status
                 ELSE IF c.filled + delta >= c.needed THEN "filled" ELSE "open"
<1>1. Synced(c, delta) = [c EXCEPT !.filled = c.filled + delta, !.status = st]
    BY DEF Synced
<1>2. st \in MatchmakingStatus
    BY DEF Call, MatchmakingStatus
<1> HIDE DEF st
<1>3. /\ Synced(c, delta) \in Call
      /\ Synced(c, delta).filled = c.filled + delta
      /\ Synced(c, delta).needed = c.needed
      /\ Synced(c, delta).status = st
    BY <1>1, <1>2 DEF Call
<1> QED
    BY <1>3 DEF st

-----------------------------------------------------------------------------
(* What a step leaves alone. *)

(* Counts looks at the call, the responses and who is accepting. *)
LEMMA CountsKept ==
    ASSUME Counts, UNCHANGED responses,
           post' = post \/ (/\ Exists /\ Exists'
                            /\ post'.filled = post.filled /\ post'.needed = post.needed),
           \A w \in Workers : req'[w].op = "accepting" => req[w].op = "accepting"
    PROVE  Counts'
<1>1. Accepted' = Accepted
    BY DEF Accepted
<1> QED
    BY <1>1 DEF Counts, Exists, NotOverfilled

LEMMA ClosedKept == ASSUME Closed, UNCHANGED <<post, edited>> PROVE Closed'
  BY DEF Closed, Exists

(* A request that holds nothing begins or ends, without a lock. *)
LEMMA LockFreeStep ==
    ASSUME IInv, NEW w \in Workers, NEW r \in Request, req' = [req EXCEPT ![w] = r],
           req[w].op \in {"idle", "respond", "accept"}, r.op \in {"idle", "respond", "accept"},
           r.op # "idle" => r.user \in Players,
           UNCHANGED <<postLock, respLock>>,
           \A u \in Players : responses[u] = "accepted" => responses'[u] = "accepted"
    PROVE  /\ req' \in [Workers -> Request] /\ Locks'
           /\ \A v \in Workers : req'[v].op = "accepting" => req[v].op = "accepting"
<1>1. req' \in [Workers -> Request]
    BY DEF IInv, TypeOK
<1>2. \A v \in Workers : req'[v] = IF v = w THEN r ELSE req[v]
    BY DEF IInv, TypeOK
<1>3. Locks'
    BY <1>2 DEF IInv, Locks
<1> QED
    BY <1>1, <1>2, <1>3

(* Commit or roll back: the transaction's locks go with it. *)
LEMMA ReleaseStep ==
    ASSUME IInv, NEW w \in Workers, Finish(w),
           postLock' = IF postLock = w THEN Null ELSE postLock,
           respLock' = [u \in Players |-> IF respLock[u] = w THEN Null ELSE respLock[u]],
           \A v \in Workers : (v # w /\ req[v].op = "freeing") => responses'[req[v].user] = "accepted"
    PROVE  /\ req' \in [Workers -> Request] /\ Locks'
           /\ postLock' \in Workers \cup {Null} /\ respLock' \in [Players -> Workers \cup {Null}]
           /\ \A v \in Workers : req'[v].op = "accepting" => req[v].op = "accepting"
<1>1. req' \in [Workers -> Request]
    BY DEF IInv, TypeOK, Finish, Request, Op, Idle
<1>2. \A v \in Workers : req'[v] = IF v = w THEN Idle ELSE req[v]
    BY DEF IInv, TypeOK, Finish
<1>3. postLock' \in Workers \cup {Null} /\ respLock' \in [Players -> Workers \cup {Null}]
    BY DEF IInv, TypeOK
<1>4. \A v \in Workers :
          /\ req'[v].op \in {"respond", "accept", "accepting", "freeing"} => req'[v].user \in Players
          /\ postLock' = v <=> req'[v].op \in {"accepting", "deleting"}
          /\ req'[v].op = "freeing" => responses'[req'[v].user] = "accepted"
    BY <1>2, BoardAssumption DEF IInv, Locks, Idle
<1>5. ASSUME NEW v \in Workers, NEW u \in Players
      PROVE  respLock'[u] = v <=> req'[v].op = "freeing" /\ req'[v].user = u
    BY <1>2, BoardAssumption DEF IInv, Locks, Idle
<1>6. Locks'
    BY <1>4, <1>5 DEF Locks
<1> QED
    BY <1>1, <1>2, <1>3, <1>6 DEF Idle

(* Nobody accepts while the call is free. *)
LEMMA FreeMeansNoneAccepting ==
    ASSUME IInv, FreePost, NEW w \in Workers
    PROVE  req[w].op \notin {"accepting", "deleting"}
  BY BoardAssumption DEF IInv, Locks, FreePost

-----------------------------------------------------------------------------
(* One lemma per statement. *)

LEMMA CreateStep ==
    ASSUME IInv, NEW u \in Users, NEW n \in Asked, NEW at \in 1 .. MaxNow, Create(u, n, at)
    PROVE  IInv'
<1>1. post' = NewCall(TRUE, n, at) /\ n \in 1 .. MaxNeededPlayers /\ ~Exists
    BY DEF Create, Validate, NewCall
<1>2. /\ post' \in Call /\ post'.filled = 0 /\ post'.needed = n /\ post'.status = "open"
      /\ n \in Nat /\ n > 0
    BY <1>1, BoardAssumption DEF NewCall, Call, MatchmakingStatus
<1>3. TypeOK'
    BY <1>2 DEF Create, IInv, TypeOK
<1>4. Locks'
    BY DEF Create, IInv, Locks
<1>5. Counts'
  <2>1. Accepted' = {} /\ UNCHANGED req
      BY <1>1 DEF Create, IInv, Counts, Accepted
  <2>2. \A w \in Workers : req[w].op # "accepting"
      BY <1>1 DEF IInv, Counts
  <2>3. Exists'
      BY <1>2, BoardAssumption DEF Exists
  <2> QED
      BY <1>2, <2>1, <2>2, <2>3, FS_EmptySet DEF Counts, NotOverfilled
<1>6. Closed'
    BY <1>2 DEF Closed
<1> QED
    BY <1>3, <1>4, <1>5, <1>6 DEF IInv

LEMMA UpdateStep ==
    ASSUME IInv, NEW u \in Users, NEW n \in Asked, NEW at \in 1 .. MaxNow, Update(u, n, at)
    PROVE  IInv'
<1>1. /\ Exists /\ FreePost /\ post \in Call
      /\ post' = [post EXCEPT !.needed = n, !.startsAt = at]
      /\ post'.needed \in 1 .. MaxNeededPlayers /\ post'.filled <= post'.needed
    BY DEF Update, IInv, TypeOK, Exists, Validate, NotOverfilled
<1>2. /\ post' \in Call /\ post'.filled = post.filled /\ post'.status = post.status
      /\ post'.needed = n
    BY <1>1 DEF Call
<1>3. TypeOK'
  <2>1. edited' \in BOOLEAN
      BY DEF Update
  <2> QED
      BY <1>2, <2>1 DEF Update, IInv, TypeOK
<1>4. Locks'
    BY DEF Update, IInv, Locks
<1>5. Counts'
  <2>1. Accepted' = Accepted /\ UNCHANGED <<req, responses>>
      BY DEF Update, Accepted
  <2>2. Exists'
      BY <1>2, BoardAssumption DEF Exists
  <2>3. \A w \in Workers : req[w].op # "accepting"
      BY <1>1, FreeMeansNoneAccepting
  <2> QED
      BY <1>1, <1>2, <2>1, <2>2, <2>3 DEF IInv, Counts, NotOverfilled
<1>6. Closed'
  <2>1. ~edited' => ~edited /\ n = post.needed
      BY DEF Update
  <2> QED
      BY <1>1, <1>2, <2>1 DEF IInv, Closed
<1> QED
    BY <1>3, <1>4, <1>5, <1>6 DEF IInv

(* Taking a call off the board, by hand, with its booking or by the janitor. *)
LEMMA CloseStep ==
    ASSUME IInv, NEW st \in {"cancelled", "expired"}, Exists,
           post' = [post EXCEPT !.status = st],
           UNCHANGED <<responses, postLock, respLock, req, edited, now>>
    PROVE  IInv'
<1>1. /\ post' \in Call /\ post'.filled = post.filled /\ post'.needed = post.needed
      /\ post'.status = st
    BY DEF IInv, TypeOK, Exists, Call, MatchmakingStatus
<1>2. TypeOK'
    BY <1>1 DEF IInv, TypeOK
<1>3. Locks'
    BY DEF IInv, Locks
<1>4. Counts'
  <2>1. Exists'
      BY <1>1, BoardAssumption DEF Exists
  <2> QED
      BY <1>1, <2>1, CountsKept DEF IInv
<1>5. Closed'
    BY <1>1 DEF Closed
<1> QED
    BY <1>2, <1>3, <1>4, <1>5 DEF IInv

(* The service lets a request through. *)
LEMMA AdmitStep ==
    ASSUME IInv, NEW w \in Workers, NEW u \in Players, NEW op \in {"respond", "accept"},
           Ready(w), Goto(w, op, u), UNCHANGED <<post, responses, postLock, respLock, edited, now>>
    PROVE  IInv'
<1>1. [op |-> op, user |-> u] \in Request
    BY DEF Request, Op, Users
<1>2. /\ req' \in [Workers -> Request] /\ Locks'
      /\ \A v \in Workers : req'[v].op = "accepting" => req[v].op = "accepting"
    BY <1>1, LockFreeStep DEF Ready, Goto
<1> QED
    BY <1>2, CountsKept, ClosedKept DEF IInv, TypeOK

LEMMA InsertResponseStep ==
    ASSUME IInv, NEW w \in Workers, InsertResponse(w)
    PROVE  IInv'
<1>1. Idle \in Request
    BY DEF Request, Op, Idle
<1>2. PICK u \in Players :
          /\ req[w].user = u
          /\ responses' = IF Exists /\ responses[u] = "none"
                          THEN [responses EXCEPT ![u] = "pending"] ELSE responses
    BY DEF InsertResponse, IInv, Locks
<1>3. \A v \in Players : responses'[v] = "accepted" <=> responses[v] = "accepted"
    BY <1>2 DEF IInv, TypeOK
<1>4. /\ req' \in [Workers -> Request] /\ Locks'
      /\ \A v \in Workers : req'[v].op = "accepting" => req[v].op = "accepting"
    BY <1>1, <1>3, LockFreeStep DEF InsertResponse, Finish, Idle
<1>5. responses' \in [Players -> Response]
    BY <1>2 DEF IInv, TypeOK, Response
<1>6. Counts'
  <2>1. Accepted' = Accepted
      BY <1>3 DEF Accepted
  <2> QED
      BY <1>2, <1>4, <2>1 DEF InsertResponse, IInv, Counts, Exists, NotOverfilled
<1> QED
    BY <1>4, <1>5, <1>6, ClosedKept DEF InsertResponse, IInv, TypeOK

(* Taking the call's row. *)
LEMMA LockPostStep ==
    ASSUME IInv, NEW w \in Workers, NEW r \in Request, req' = [req EXCEPT ![w] = r],
           req[w].op \in {"idle", "accept"}, r.op \in {"accepting", "deleting"},
           r.op = "accepting" => r.user \in Players /\ StillTaking,
           FreePost, postLock' = w, UNCHANGED <<post, responses, respLock, edited, now>>
    PROVE  IInv'
<1>1. req' \in [Workers -> Request] /\ \A v \in Workers : req'[v] = IF v = w THEN r ELSE req[v]
    BY DEF IInv, TypeOK
<1>2. \A v \in Workers : req[v].op \notin {"accepting", "deleting"}
    BY FreeMeansNoneAccepting
<1>3. Locks'
    BY <1>1, <1>2 DEF IInv, Locks
<1>4. TypeOK'
    BY <1>1 DEF IInv, TypeOK
<1>5. Counts'
    BY <1>1 DEF IInv, Counts, Accepted, Exists, NotOverfilled, StillTaking
<1> QED
    BY <1>3, <1>4, <1>5, ClosedKept DEF IInv

LEMMA AcceptLockStep ==
    ASSUME IInv, NEW w \in Workers, AcceptLock(w)
    PROVE  IInv'
<1>1. req[w].op = "accept" /\ FreePost /\ req[w].user \in Players
    BY DEF AcceptLock, IInv, Locks
<1>2. CASE StillTaking
  <2>1. [op |-> "accepting", user |-> req[w].user] \in Request
      BY <1>1 DEF Request, Op, Users
  <2> QED
      BY <1>1, <1>2, <2>1, LockPostStep DEF AcceptLock, Goto
<1>3. CASE ~StillTaking
  <2>1. Idle \in Request
      BY DEF Request, Op, Idle
  <2>2. /\ req' \in [Workers -> Request] /\ Locks'
        /\ \A v \in Workers : req'[v].op = "accepting" => req[v].op = "accepting"
      BY <1>1, <1>3, <2>1, LockFreeStep DEF AcceptLock, Finish, Idle
  <2> QED
      BY <1>3, <2>2, CountsKept, ClosedKept DEF AcceptLock, IInv, TypeOK
<1> QED
    BY <1>2, <1>3

(* The accepted player is counted, or nothing is written. *)
LEMMA AcceptCommitStep ==
    ASSUME IInv, NEW w \in Workers, AcceptCommit(w)
    PROVE  IInv'
<1>1. PICK u \in Players :
          /\ req[w].user = u /\ req[w].op = "accepting"
          /\ responses[u] = "pending" => FreeResponse(u)
          /\ \/ /\ responses[u] = "pending" /\ NotOverfilled(Synced(post, 1))
                /\ responses' = [responses EXCEPT ![u] = "accepted"] /\ post' = Synced(post, 1)
             \/ UNCHANGED <<responses, post>>
    BY DEF AcceptCommit, IInv, Locks
<1>2. postLock = w /\ postLock' = Null /\ Finish(w) /\ UNCHANGED <<respLock, edited, now>>
    BY <1>1 DEF AcceptCommit, IInv, Locks
<1>3. respLock' = [v \in Players |-> IF respLock[v] = w THEN Null ELSE respLock[v]]
    BY <1>1, <1>2 DEF IInv, TypeOK, Locks
<1>4. \A v \in Players : responses[v] = "accepted" => responses'[v] = "accepted"
    BY <1>1 DEF IInv, TypeOK
<1>5. /\ req' \in [Workers -> Request] /\ Locks'
      /\ postLock' \in Workers \cup {Null} /\ respLock' \in [Players -> Workers \cup {Null}]
      /\ \A v \in Workers : req'[v].op = "accepting" => req[v].op = "accepting"
    BY <1>2, <1>3, <1>4, ReleaseStep DEF IInv, Locks
<1>6. CASE UNCHANGED <<responses, post>>
    BY <1>2, <1>5, <1>6, CountsKept, ClosedKept DEF IInv, TypeOK
<1>7. CASE /\ responses[u] = "pending" /\ NotOverfilled(Synced(post, 1))
           /\ responses' = [responses EXCEPT ![u] = "accepted"] /\ post' = Synced(post, 1)
  <2>1. Exists /\ post \in Call /\ post.filled \in Nat
      BY <1>1 DEF IInv, TypeOK, Counts, Exists, Call
  <2>2. /\ post' \in Call /\ post'.filled = post.filled + 1 /\ post'.needed = post.needed
        /\ post'.status = IF post.status \notin {"open", "filled"} THEN post.status
                          ELSE IF post.filled + 1 >= post.needed THEN "filled" ELSE "open"
      BY <1>7, <2>1, SyncedIs
  <2>3. responses' \in [Players -> Response] /\ Accepted' = Accepted \cup {u} /\ u \notin Accepted
      BY <1>7 DEF IInv, TypeOK, Response, Accepted
  <2>4. Cardinality(Accepted') = Cardinality(Accepted) + 1
      BY <2>3, AcceptedSize, FS_AddElement
  <2>5. Exists' /\ \A v \in Workers : req'[v].op # "accepting"
    <3>1. Exists'
        BY <2>2, BoardAssumption DEF Exists
    <3>2. \A v \in Workers : req'[v].op # "accepting"
        BY <1>2, <1>5, BoardAssumption DEF Locks
    <3> QED
        BY <3>1, <3>2
  <2>6. post.filled = Cardinality(Accepted) /\ post'.filled <= post'.needed
      BY <1>7, <2>1 DEF IInv, Counts, NotOverfilled
  <2>7. Counts'
      BY <2>2, <2>4, <2>5, <2>6 DEF Counts, NotOverfilled
  <2>8. Closed'
    <3>1. post.needed \in Nat
        BY <2>1, BoardAssumption DEF Call
    <3> QED
        BY <2>1, <2>2, <2>6, <3>1 DEF Closed
  <2> QED
      BY <1>2, <1>5, <2>2, <2>3, <2>7, <2>8 DEF IInv, TypeOK
<1> QED
    BY <1>1, <1>6, <1>7

(* A pending response is deleted at once, an accepted one is held.          *)
LEMMA WithdrawStep ==
    ASSUME IInv, NEW w \in Workers, NEW u \in Players, Withdraw(w, u)
    PROVE  IInv'
<1>1. CASE responses[u] = "accepted"
  <2>1. /\ req[w].op = "idle" /\ respLock[u] = Null
        /\ respLock' = [respLock EXCEPT ![u] = w]
        /\ req' = [req EXCEPT ![w] = [op |-> "freeing", user |-> u]]
        /\ UNCHANGED <<responses, post, postLock, edited, now>>
      BY <1>1 DEF Withdraw, Ready, FreeResponse, Goto
  <2>2. [op |-> "freeing", user |-> u] \in Request
      BY DEF Request, Op, Users
  <2>3. TypeOK'
      BY <2>1, <2>2 DEF IInv, TypeOK
  <2>4. \A v \in Workers : req'[v] = IF v = w THEN [op |-> "freeing", user |-> u] ELSE req[v]
      BY <2>1 DEF IInv, TypeOK
  <2>5. \A v \in Workers :
            /\ req'[v].op \in {"respond", "accept", "accepting", "freeing"} => req'[v].user \in Players
            /\ postLock' = v <=> req'[v].op \in {"accepting", "deleting"}
            /\ req'[v].op = "freeing" => responses'[req'[v].user] = "accepted"
      BY <1>1, <2>1, <2>4 DEF IInv, Locks
  <2>6. ASSUME NEW v \in Workers, NEW x \in Players
        PROVE  respLock'[x] = v <=> req'[v].op = "freeing" /\ req'[v].user = x
    <3>1. respLock'[x] = IF x = u THEN w ELSE respLock[x]
        BY <2>1 DEF IInv, TypeOK
    <3>2. respLock[x] = v <=> req[v].op = "freeing" /\ req[v].user = x
        BY DEF IInv, Locks
    <3> QED
        BY <2>1, <2>4, <3>1, <3>2, BoardAssumption
  <2>7. Counts' /\ Closed'
      BY <2>1, <2>4, CountsKept, ClosedKept DEF IInv
  <2> QED
      BY <2>3, <2>5, <2>6, <2>7 DEF IInv, Locks
<1>2. CASE responses[u] # "accepted"
  <2>1. /\ responses' = [responses EXCEPT ![u] = "none"]
        /\ UNCHANGED <<respLock, req, post, postLock, edited, now>>
      BY <1>2 DEF Withdraw
  <2>2. \A v \in Players : responses'[v] = "accepted" <=> responses[v] = "accepted"
      BY <1>2, <2>1 DEF IInv, TypeOK
  <2>3. TypeOK'
      BY <2>1 DEF IInv, TypeOK, Response
  <2>4. Locks'
      BY <2>1, <2>2 DEF IInv, Locks
  <2>5. Counts'
    <3>1. Accepted' = Accepted
        BY <2>2 DEF Accepted
    <3>2. \A v \in Players : responses'[v] = "none" \/ responses'[v] = responses[v]
        BY <2>1 DEF IInv, TypeOK
    <3> QED
        BY <2>1, <3>1, <3>2 DEF IInv, Counts, Exists, NotOverfilled
  <2> QED
      BY <2>1, <2>3, <2>4, <2>5, ClosedKept DEF IInv
<1> QED
    BY <1>1, <1>2

(* The accepted player leaves and his place is given back. *)
LEMMA WithdrawCommitStep ==
    ASSUME IInv, NEW w \in Workers, WithdrawCommit(w)
    PROVE  IInv'
<1>1. PICK u \in Players :
          /\ req[w].user = u /\ req[w].op = "freeing" /\ responses[u] = "accepted"
          /\ FreePost /\ Finish(w)
          /\ responses' = [responses EXCEPT ![u] = "none"]
          /\ post' = Synced(post, -1)
          /\ respLock' = [respLock EXCEPT ![u] = Null]
          /\ UNCHANGED <<postLock, edited, now>>
    BY DEF WithdrawCommit, IInv, Locks
<1>2. Exists /\ post \in Call /\ u \in Accepted
    BY <1>1 DEF IInv, TypeOK, Counts, Exists, Accepted
<1>3. post.filled = Cardinality(Accepted) /\ post.filled <= post.needed
    BY <1>2 DEF IInv, Counts, NotOverfilled
<1>4. responses' \in [Players -> Response] /\ Accepted' = Accepted \ {u}
    BY <1>1 DEF IInv, TypeOK, Response, Accepted
<1>5. Cardinality(Accepted') = Cardinality(Accepted) - 1 /\ Cardinality(Accepted') \in Nat
    BY <1>2, <1>4, AcceptedSize, FS_RemoveElement, FS_CardinalityType
<1>6. post.filled + (-1) \in Nat /\ post.needed \in Nat /\ post.filled \in Nat
    BY <1>2, <1>3, <1>5, AcceptedSize, BoardAssumption DEF Call
<1>7. /\ post' \in Call /\ post'.filled = post.filled + (-1) /\ post'.needed = post.needed
      /\ post'.status = IF post.status \notin {"open", "filled"} THEN post.status
                        ELSE IF post.filled + (-1) >= post.needed THEN "filled" ELSE "open"
    BY <1>1, <1>2, <1>6, SyncedIs
<1>8. respLock' = [v \in Players |-> IF respLock[v] = w THEN Null ELSE respLock[v]]
  <2>1. \A v \in Players : respLock[v] = w <=> v = u
      BY <1>1 DEF IInv, Locks
  <2> QED
      BY <1>1, <2>1 DEF IInv, TypeOK
<1>9. postLock' = IF postLock = w THEN Null ELSE postLock
    BY <1>1 DEF FreePost
<1>10. ASSUME NEW v \in Workers, v # w, req[v].op = "freeing"
       PROVE  responses'[req[v].user] = "accepted"
  <2>1. req[v].user \in Players /\ responses[req[v].user] = "accepted" /\ respLock[req[v].user] = v
      BY <1>10 DEF IInv, Locks
  <2>2. respLock[u] = w
      BY <1>1 DEF IInv, Locks
  <2> QED
      BY <1>1, <1>10, <2>1, <2>2 DEF IInv, TypeOK
<1>11. /\ req' \in [Workers -> Request] /\ Locks'
       /\ postLock' \in Workers \cup {Null} /\ respLock' \in [Players -> Workers \cup {Null}]
       /\ \A v \in Workers : req'[v].op = "accepting" => req[v].op = "accepting"
    BY <1>1, <1>8, <1>9, <1>10, ReleaseStep
<1>12. Counts'
  <2>1. Exists'
      BY <1>7, BoardAssumption DEF Exists
  <2>2. \A v \in Workers : req'[v].op # "accepting"
      BY <1>1, <1>11, FreeMeansNoneAccepting
  <2> QED
      BY <1>3, <1>5, <1>6, <1>7, <2>1, <2>2 DEF Counts, NotOverfilled
<1>13. Closed'
    BY <1>3, <1>6, <1>7 DEF Closed
<1> QED
    BY <1>1, <1>4, <1>7, <1>11, <1>12, <1>13 DEF IInv, TypeOK

LEMMA DeleteStep ==
    ASSUME IInv, NEW w \in Workers, NEW u \in Users, Delete(w, u)
    PROVE  IInv'
<1>1. [op |-> "deleting", user |-> Null] \in Request
    BY DEF Request, Op
<1> QED
    BY <1>1, LockPostStep DEF Delete, Ready, Goto

(* The call goes, and every response with it; none of them is held. *)
LEMMA DeleteCommitStep ==
    ASSUME IInv, NEW w \in Workers, DeleteCommit(w)
    PROVE  IInv'
<1>1. /\ req[w].op = "deleting" /\ postLock = w /\ postLock' = Null /\ Finish(w)
      /\ post' = Null /\ responses' = [u \in Players |-> "none"]
      /\ \A u \in Players : FreeResponse(u)
      /\ UNCHANGED <<respLock, edited, now>>
    BY DEF DeleteCommit, IInv, Locks
<1>2. respLock' = [v \in Players |-> IF respLock[v] = w THEN Null ELSE respLock[v]]
    BY <1>1 DEF IInv, TypeOK, FreeResponse
<1>3. \A v \in Workers : req[v].op # "freeing"
    BY <1>1, BoardAssumption DEF IInv, Locks, FreeResponse
<1>4. /\ req' \in [Workers -> Request] /\ Locks'
      /\ postLock' \in Workers \cup {Null} /\ respLock' \in [Players -> Workers \cup {Null}]
      /\ \A v \in Workers : req'[v].op = "accepting" => req[v].op = "accepting"
    BY <1>1, <1>2, <1>3, ReleaseStep
<1>5. \A v \in Workers : req'[v].op # "accepting"
    BY <1>1, <1>4, BoardAssumption DEF Locks
<1>6. Counts' /\ Closed'
    BY <1>1, <1>5 DEF Counts, Closed, Exists
<1> QED
    BY <1>1, <1>4, <1>6 DEF IInv, TypeOK, Response

LEMMA RollBackStep ==
    ASSUME IInv, NEW w \in Workers, RollBack(w)
    PROVE  IInv'
<1>1. /\ req' \in [Workers -> Request] /\ Locks'
      /\ postLock' \in Workers \cup {Null} /\ respLock' \in [Players -> Workers \cup {Null}]
      /\ \A v \in Workers : req'[v].op = "accepting" => req[v].op = "accepting"
    BY ReleaseStep DEF RollBack, IInv, Locks
<1> QED
    BY <1>1, CountsKept, ClosedKept DEF RollBack, IInv, TypeOK

LEMMA TickStep == ASSUME IInv, Tick PROVE IInv'
<1>1. TypeOK' /\ Locks'
    BY BoardAssumption DEF Tick, IInv, TypeOK, Locks
<1> QED
    BY <1>1, CountsKept, ClosedKept DEF Tick, IInv

-----------------------------------------------------------------------------
LEMMA IInvStep == IInv /\ [Next]_vars => IInv'
<1> SUFFICES ASSUME IInv, [Next]_vars PROVE IInv'
    OBVIOUS
<1>1. CASE handleCreateCall
    BY <1>1, CreateStep DEF handleCreateCall
<1>2. CASE handleUpdateCall
    BY <1>2, UpdateStep DEF handleUpdateCall
<1>3. CASE handleCancelCall
    BY <1>3, CloseStep DEF handleCancelCall, Cancel, SetStatus
<1>4. CASE CloseWithBooking
    BY <1>4, CloseStep DEF CloseWithBooking, SetStatus
<1>5. CASE ExpireStale
    BY <1>5, CloseStep DEF ExpireStale
<1>6. ASSUME NEW w \in Workers, handleDeleteCall(w) PROVE IInv'
    BY <1>6, DeleteStep DEF handleDeleteCall
<1>7. ASSUME NEW w \in Workers, handleRespondToCall(w) PROVE IInv'
    BY <1>7, AdmitStep DEF handleRespondToCall, Respond, CanBeJoinedBy, Users
<1>8. ASSUME NEW w \in Workers, handleWithdrawFromCall(w) PROVE IInv'
    BY <1>8, WithdrawStep DEF handleWithdrawFromCall
<1>9. ASSUME NEW w \in Workers, handleAcceptResponse(w) PROVE IInv'
    BY <1>9, AdmitStep DEF handleAcceptResponse, Accept
<1>10. ASSUME NEW w \in Workers, Proceed(w) PROVE IInv'
    BY <1>10, InsertResponseStep, AcceptLockStep, AcceptCommitStep, WithdrawCommitStep, DeleteCommitStep
    DEF Proceed
<1>11. ASSUME NEW w \in Workers, Abort(w) PROVE IInv'
    BY <1>11, RollBackStep DEF Abort
<1>12. CASE BreakDeadlock
    BY <1>12, RollBackStep DEF BreakDeadlock
<1>13. CASE Tick
    BY <1>13, TickStep
<1>14. CASE UNCHANGED vars
  <2>1. TypeOK' /\ Locks'
      BY <1>14 DEF vars, IInv, TypeOK, Locks
  <2> QED
      BY <1>14, <2>1, CountsKept, ClosedKept DEF vars, IInv
<1> QED
    BY <1>1, <1>2, <1>3, <1>4, <1>5, <1>6, <1>7, <1>8, <1>9, <1>10, <1>11, <1>12, <1>13, <1>14 DEF Next

(* Type correctness and the lock discipline, for any number of workers. *)
THEOREM LocksAndCounts == Spec => []IInv
  BY InitIInv, IInvStep, PTL DEF Spec

(* filled_players, moved by the trigger alone, is the number of accepted    *)
(* responses through acceptances, withdrawals, edits and roll backs.        *)
THEOREM FilledIsCounted == Spec => []FilledCountsTheAccepted
<1>1. IInv => FilledCountsTheAccepted
    BY DEF IInv, Counts, FilledCountsTheAccepted, Accepted
<1> QED
    BY <1>1, LocksAndCounts, PTL

(* An acceptance that holds the call always has a place to give: the CHECK  *)
(* that guards the count never undoes one.                                  *)
THEOREM CheckNeverRefuses == Spec => []CheckIsOnlyABackstop
<1>1. IInv => CheckIsOnlyABackstop
  <2> SUFFICES ASSUME IInv, NEW w \in Workers, req[w].op = "accepting"
               PROVE  Exists /\ NotOverfilled(Synced(post, 1))
      BY DEF CheckIsOnlyABackstop
  <2>1. Exists /\ post.filled < post.needed /\ post \in Call
      BY DEF IInv, Counts, TypeOK, Exists
  <2>2. post.filled \in Nat /\ post.needed \in Nat
      BY <2>1, BoardAssumption DEF Call
  <2>3. Synced(post, 1).filled = post.filled + 1 /\ Synced(post, 1).needed = post.needed
      BY <2>1, <2>2, SyncedIs
  <2> QED
      BY <2>1, <2>2, <2>3 DEF NotOverfilled
<1> QED
    BY <1>1, LocksAndCounts, PTL

(* Accept takes the call before the response and Withdraw the response      *)
(* before the call, and still they never wait for each other: Accept skips  *)
(* a response that is accepted.  Whatever is caught in a circle deletes.    *)
THEOREM DeletionsDeadlock == Spec => []OnlyDeletionsDeadlock
<1>1. IInv => OnlyDeletionsDeadlock
  <2> SUFFICES ASSUME IInv, NEW v \in Workers, NEW w \in Workers, Deadlocked(v, w)
               PROVE  req[w].op = "deleting"
      BY DEF OnlyDeletionsDeadlock
  <2>1. PICK u \in Players : WaitsForResponse(w, u) /\ respLock[u] = v
      BY DEF Deadlocked
  <2>2. responses[u] = "accepted"
      BY <2>1 DEF IInv, Locks
  <2> QED
      BY <2>1, <2>2 DEF WaitsForResponse
<1> QED
    BY <1>1, LocksAndCounts, PTL

(* A game that gets full closes itself and a withdrawal reopens it, also    *)
(* when both happen side by side; what is on the board can be joined, and   *)
(* whoever is shown as waiting can be accepted.                             *)
THEOREM FullIsClosed == Spec => []FullGamesAreClosed
<1>1. IInv => FullGamesAreClosed
  <2> SUFFICES ASSUME IInv, Exists, ~edited, post.status \in {"open", "filled"}
               PROVE  /\ post.status = "filled" <=> post.filled = post.needed
                      /\ ~Started(post) => (post.status = "open" <=> post \in Feed)
                      /\ \A u \in PendingRequests : CanAcceptResponse(post, Author)
      BY DEF FullGamesAreClosed
  <2>1. post \in Call /\ post.filled <= post.needed /\ post.filled \in Nat /\ post.needed \in Nat
      BY BoardAssumption DEF IInv, TypeOK, Counts, NotOverfilled, Exists, Call
  <2>2. post.status = "filled" <=> post.filled = post.needed
      BY DEF IInv, Closed
  <2>3. post.status = "open" => post.filled < post.needed
      BY <2>1, <2>2
  <2>4. post \in Feed <=> post.status = "open" /\ ~Started(post)
      BY <2>3 DEF Feed, Exists
  <2>5. ASSUME NEW u \in PendingRequests PROVE CanAcceptResponse(post, Author)
      BY <2>1, <2>3 DEF PendingRequests, CanAcceptResponse, SpotsRemaining
  <2> QED
      BY <2>2, <2>4, <2>5
<1> QED
    BY <1>1, LocksAndCounts, PTL

-----------------------------------------------------------------------------
(* Board implements Game: what an acceptance has looked at still holds when *)
(* it writes, because nothing else writes the call while it is locked.      *)

Fresh == \A w \in Workers : req[w].op = "accepting" => StillTaking

(* While one transaction holds the call for an acceptance, no other has it. *)
LEMMA OneAccepts ==
    ASSUME IInv, NEW v \in Workers, req[v].op = "accepting"
    PROVE  /\ ~FreePost
           /\ Exists
           /\ \A w \in Workers : req[w].op \in {"accepting", "deleting"} => w = v
  BY BoardAssumption DEF IInv, Locks, Counts, FreePost

LEMMA OthersKept ==
    ASSUME IInv, NEW w \in Workers, NEW r, req' = [req EXCEPT ![w] = r], NEW v \in Workers, v # w
    PROVE  req'[v] = req[v]
  BY DEF IInv, TypeOK

(* Who is accepting after a step was so before it or has just looked, and   *)
(* the call is the same.                                                    *)
LEMMA HeldCallKept ==
    ASSUME IInv, [Next]_vars, NEW v \in Workers, req'[v].op = "accepting"
    PROVE  /\ post' = post
           /\ req[v].op = "accepting" \/ StillTaking
<1>1. CASE /\ req' = req
           /\ post' = post \/ ~Exists \/ FreePost
    BY <1>1, OneAccepts
<1>2. ASSUME NEW w \in Workers, RollBack(w) PROVE post' = post /\ req[v].op = "accepting"
  <2>1. req'[w] = Idle /\ post' = post
      BY <1>2 DEF RollBack, Finish, IInv, TypeOK
  <2>2. v # w
      BY <2>1 DEF Idle
  <2> QED
      BY <1>2, <2>1, <2>2, OthersKept DEF RollBack, Finish
<1>3. ASSUME NEW w \in Workers, handleDeleteCall(w) \/ handleRespondToCall(w) \/ handleWithdrawFromCall(w) \/ handleAcceptResponse(w)
      PROVE  post' = post /\ req[v].op = "accepting"
  <2>1. /\ post' = post
        /\ req' = req \/ \E u \in Users \cup {Null}, op \in {"deleting", "respond", "freeing", "accept"} : Goto(w, op, u)
      BY <1>3 DEF handleDeleteCall, Delete, handleRespondToCall, Respond, handleWithdrawFromCall, Withdraw,
                  handleAcceptResponse, Accept, Users
  <2>2. CASE req' = req
      BY <2>1, <2>2
  <2>3. ASSUME NEW u \in Users \cup {Null}, NEW op \in {"deleting", "respond", "freeing", "accept"}, Goto(w, op, u)
        PROVE  req[v].op = "accepting"
    <3>1. req'[w].op = op
        BY <2>3 DEF Goto, IInv, TypeOK
    <3>2. v # w
        BY <3>1
    <3> QED
        BY <2>3, <3>2, OthersKept DEF Goto
  <2> QED
      BY <2>1, <2>2, <2>3
<1>4. ASSUME NEW w \in Workers, Proceed(w), Finish(w)
      PROVE  post' = post /\ req[v].op = "accepting"
  <2>1. req'[w] = Idle
      BY <1>4 DEF Finish, IInv, TypeOK
  <2>2. v # w
      BY <2>1 DEF Idle
  <2>3. req[v].op = "accepting"
      BY <1>4, <2>2, OthersKept DEF Finish
  <2>4. req[w].op \notin {"accepting", "deleting"} /\ ~FreePost
      BY <2>2, <2>3, OneAccepts
  <2>5. post' = post
      BY <1>4, <2>4 DEF Proceed, InsertResponse, AcceptLock, AcceptCommit, WithdrawCommit, DeleteCommit
  <2> QED
      BY <2>3, <2>5
<1>5. ASSUME NEW w \in Workers, AcceptLock(w), StillTaking
      PROVE  post' = post
    BY <1>5 DEF AcceptLock
<1>6. ASSUME NEW w \in Workers, Proceed(w)
      PROVE  Finish(w) \/ (AcceptLock(w) /\ StillTaking)
    BY <1>6 DEF Proceed, InsertResponse, AcceptLock, AcceptCommit, WithdrawCommit, DeleteCommit
<1>7. CASE handleCreateCall \/ handleUpdateCall \/ handleCancelCall \/ CloseWithBooking \/ ExpireStale \/ Tick \/ UNCHANGED vars
    BY <1>1, <1>7 DEF handleCreateCall, Create, handleUpdateCall, Update, handleCancelCall, Cancel, SetStatus,
                      CloseWithBooking, ExpireStale, Tick, vars
<1> QED
    BY <1>2, <1>3, <1>4, <1>5, <1>6, <1>7 DEF Next, Abort, BreakDeadlock

LEMMA FreshStep == IInv /\ Fresh /\ [Next]_vars => Fresh'
<1> SUFFICES ASSUME IInv, Fresh, [Next]_vars, NEW v \in Workers, req'[v].op = "accepting"
             PROVE  StillTaking'
    BY DEF Fresh
<1>1. post' = post /\ StillTaking
    BY HeldCallKept DEF Fresh
<1> QED
    BY <1>1 DEF StillTaking, Exists

GameStep == [OneGame!Next]_(OneGame!vars)

LEMMA QuietGame == ASSUME UNCHANGED <<post, responses>> PROVE GameStep
  BY DEF GameStep, OneGame!vars, gameState, Exists, Accepted, Waiting

(* Game counts as everybody does. *)
LEMMA SameCount == \A S : OneGame!Cardinality(S) = Cardinality(S)
  BY DEF OneGame!Cardinality, Cardinality

(* The state of the game in terms of the row.                               *)
RowState(c) == IF c.status \notin {"open", "filled"} THEN "over"
               ELSE IF c.status = "filled" THEN "full" ELSE "open"

LEMMA GameOf ==
    /\ post \in Call => Exists /\ gameState = RowState(post)
    /\ post' \in Call => Exists' /\ gameState' = RowState(post')
  BY BoardAssumption DEF Exists, gameState, RowState, Call, MatchmakingStatus

LEMMA NoGame ==
    /\ ~Exists => gameState = "none"
    /\ ~Exists' => gameState' = "none"
  BY DEF gameState

LEMMA AnnounceStep ==
    ASSUME IInv, NEW u \in Users, NEW n \in Asked, NEW at \in 1 .. MaxNow, Create(u, n, at)
    PROVE  GameStep
<1>1. /\ ~Exists /\ n \in 1 .. MaxNeededPlayers /\ UNCHANGED responses
      /\ post' \in Call /\ post'.needed = n /\ post'.status = "open"
    BY BoardAssumption DEF Create, Validate, NewCall, Call, MatchmakingStatus
<1>2. OneGame!Announce(n)
    BY <1>1, GameOf, NoGame DEF OneGame!Announce, RowState, Accepted, Waiting
<1> QED
    BY <1>1, <1>2 DEF GameStep, OneGame!Next

LEMMA ResizeStep ==
    ASSUME IInv, NEW u \in Users, NEW n \in Asked, NEW at \in 1 .. MaxNow, Update(u, n, at)
    PROVE  GameStep
<1>1. /\ post \in Call /\ post' \in Call /\ UNCHANGED responses
      /\ n \in 1 .. MaxNeededPlayers
      /\ post'.needed = n /\ post'.status = post.status /\ post.filled <= n
    BY DEF Update, IInv, TypeOK, Exists, Validate, NotOverfilled, Call
<1>2. post.filled = Cardinality(Accepted)
    BY <1>1, GameOf DEF IInv, Counts
<1>3. UNCHANGED <<gameState, Waiting, Accepted>>
    BY <1>1, GameOf DEF RowState, Accepted, Waiting
<1>4. gameState # "none" /\ Exists'
    BY <1>1, GameOf DEF RowState
<1>5. Cardinality(Accepted) <= n /\ (IF Exists THEN post.needed ELSE 0)' = n
    BY <1>1, <1>2, <1>4
<1>6. OneGame!Resize(n)
    BY <1>3, <1>4, <1>5, SameCount DEF OneGame!Resize
<1> QED
    BY <1>1, <1>6 DEF GameStep, OneGame!Next

LEMMA EndStep ==
    ASSUME IInv, NEW st \in {"cancelled", "expired"}, Exists,
           post' = [post EXCEPT !.status = st], UNCHANGED responses
    PROVE  GameStep
<1>1. /\ post \in Call /\ post' \in Call /\ post'.needed = post.needed /\ post'.status = st
    BY DEF IInv, TypeOK, Exists, Call, MatchmakingStatus
<1>2. OneGame!End
    BY <1>1, GameOf DEF OneGame!End, RowState, Accepted, Waiting
<1> QED
    BY <1>2 DEF GameStep, OneGame!Next

LEMMA AskStep ==
    ASSUME IInv, NEW w \in Workers, InsertResponse(w)
    PROVE  GameStep
<1>1. PICK u \in Players :
          responses' = IF Exists /\ responses[u] = "none" THEN [responses EXCEPT ![u] = "pending"] ELSE responses
    BY DEF InsertResponse, IInv, Locks
<1>2. UNCHANGED post
    BY DEF InsertResponse
<1>3. CASE Exists /\ responses[u] = "none"
  <2>1. post \in Call /\ post' \in Call
      BY <1>2, <1>3 DEF IInv, TypeOK, Exists
  <2>2. \A v \in Players : responses'[v] = IF v = u THEN "pending" ELSE responses[v]
      BY <1>1, <1>3 DEF IInv, TypeOK
  <2>3. OneGame!Ask(u)
      BY <1>2, <1>3, <2>1, <2>2, GameOf DEF OneGame!Ask, RowState, Accepted, Waiting
  <2> QED
      BY <2>3 DEF GameStep, OneGame!Next
<1> QED
    BY <1>1, <1>2, <1>3, QuietGame

(* The place is there and the game open, as it was when the row was locked. *)
LEMMA TakeStep ==
    ASSUME IInv, Fresh, NEW w \in Workers, AcceptCommit(w)
    PROVE  GameStep
<1>1. PICK u \in Players :
          /\ req[w].user = u /\ req[w].op = "accepting"
          /\ \/ /\ responses[u] = "pending"
                /\ responses' = [responses EXCEPT ![u] = "accepted"] /\ post' = Synced(post, 1)
             \/ UNCHANGED <<responses, post>>
    BY DEF AcceptCommit, IInv, Locks
<1>2. /\ post \in Call /\ post.filled \in Nat /\ post.needed \in Nat
      /\ post.status = "open" /\ post.filled < post.needed
      /\ post.filled = Cardinality(Accepted)
    BY <1>1, BoardAssumption DEF Fresh, StillTaking, IInv, TypeOK, Counts, Exists, Call
<1>3. CASE /\ responses[u] = "pending"
           /\ responses' = [responses EXCEPT ![u] = "accepted"] /\ post' = Synced(post, 1)
  <2>1. /\ post' \in Call /\ post'.needed = post.needed
        /\ post'.status = IF post.filled + 1 >= post.needed THEN "filled" ELSE "open"
      BY <1>2, <1>3, SyncedIs
  <2>2. \A v \in Players : responses'[v] = IF v = u THEN "accepted" ELSE responses[v]
      BY <1>3 DEF IInv, TypeOK
  <2>3. Waiting' = Waiting \ {u} /\ u \in Waiting /\ Accepted' = Accepted \cup {u} /\ u \notin Accepted
      BY <1>3, <2>2 DEF Waiting, Accepted
  <2>4. Cardinality(Accepted') = post.filled + 1
      BY <1>2, <2>3, AcceptedSize, FS_AddElement
  <2>5. gameState = "open" /\ gameState' = IF Cardinality(Accepted') >= post.needed THEN "full" ELSE "open"
      BY <1>2, <2>1, <2>4, GameOf DEF RowState
  <2>6. Exists /\ Exists'
      BY <1>2, <2>1, GameOf
  <2>7. /\ (IF Exists THEN post.needed ELSE 0) = post.needed
        /\ (IF Exists THEN post.needed ELSE 0)' = post.needed
      BY <2>1, <2>6
  <2>8. gameState # "over" /\ Cardinality(Accepted) < post.needed
      BY <1>2, <2>5
  <2>9. OneGame!Take(u)
      BY <2>3, <2>5, <2>7, <2>8, SameCount DEF OneGame!Take, OneGame!Seated
  <2> QED
      BY <2>9 DEF GameStep, OneGame!Next
<1> QED
    BY <1>1, <1>3, QuietGame

LEMMA UnaskStep ==
    ASSUME IInv, NEW w \in Workers, NEW u \in Players, Withdraw(w, u)
    PROVE  GameStep
<1>1. CASE responses[u] = "accepted"
    BY <1>1, QuietGame DEF Withdraw
<1>2. CASE responses[u] # "accepted"
  <2>1. responses[u] = "pending" /\ responses' = [responses EXCEPT ![u] = "none"] /\ UNCHANGED post
      BY <1>2 DEF Withdraw, IInv, TypeOK, Response
  <2>2. \A v \in Players : responses'[v] = IF v = u THEN "none" ELSE responses[v]
      BY <2>1 DEF IInv, TypeOK
  <2>3. UNCHANGED gameState /\ Exists' = Exists
      BY <2>1 DEF gameState, Exists
  <2>4. OneGame!Unask(u)
      BY <2>1, <2>2, <2>3 DEF OneGame!Unask, Accepted, Waiting
  <2> QED
      BY <2>4 DEF GameStep, OneGame!Next
<1> QED
    BY <1>1, <1>2

(* The place given back is that of a player of the team.                    *)
LEMMA LeaveStep ==
    ASSUME IInv, NEW w \in Workers, WithdrawCommit(w)
    PROVE  GameStep
<1>1. PICK u \in Players :
          /\ responses[u] = "accepted"
          /\ responses' = [responses EXCEPT ![u] = "none"] /\ post' = Synced(post, -1)
    BY DEF WithdrawCommit, IInv, Locks
<1>2. /\ post \in Call /\ post.filled \in Nat /\ post.needed \in Nat
      /\ post.filled = Cardinality(Accepted)
    BY <1>1, BoardAssumption DEF IInv, TypeOK, Counts, Exists, Call
<1>3. \A v \in Players : responses'[v] = IF v = u THEN "none" ELSE responses[v]
    BY <1>1 DEF IInv, TypeOK
<1>4. Waiting' = Waiting /\ Accepted' = Accepted \ {u} /\ u \in Accepted
    BY <1>1, <1>3 DEF Waiting, Accepted
<1>5. Cardinality(Accepted') = post.filled - 1 /\ Cardinality(Accepted') \in Nat
    BY <1>2, <1>4, AcceptedSize, FS_RemoveElement, FS_CardinalityType
<1>6. post.filled + (-1) \in Nat
    BY <1>2, <1>5
<1>7. /\ post' \in Call /\ post'.needed = post.needed
      /\ post'.status = IF post.status \notin {"open", "filled"} THEN post.status
                        ELSE IF post.filled + (-1) >= post.needed THEN "filled" ELSE "open"
    BY <1>1, <1>2, <1>6, SyncedIs
<1>8. gameState' = IF gameState = "over" THEN "over"
                   ELSE IF Cardinality(Accepted') >= post.needed THEN "full" ELSE "open"
    BY <1>2, <1>5, <1>7, GameOf DEF RowState
<1>9. Exists /\ Exists'
    BY <1>2, <1>7, GameOf
<1>10. /\ (IF Exists THEN post.needed ELSE 0) = post.needed
       /\ (IF Exists THEN post.needed ELSE 0)' = post.needed
    BY <1>7, <1>9
<1>11. OneGame!Leave(u)
    BY <1>4, <1>8, <1>10, SameCount DEF OneGame!Leave, OneGame!Seated
<1> QED
    BY <1>11 DEF GameStep, OneGame!Next

LEMMA DeletedStep ==
    ASSUME IInv, NEW w \in Workers, DeleteCommit(w)
    PROVE  GameStep
<1>1. ~Exists' /\ \A u \in Players : responses'[u] = "none"
    BY DEF DeleteCommit, Exists
<1>2. OneGame!Delete
    BY <1>1, NoGame DEF OneGame!Delete, Accepted, Waiting
<1> QED
    BY <1>2 DEF GameStep, OneGame!Next

LEMMA StepsOfTheGame == ASSUME IInv, Fresh, [Next]_vars PROVE GameStep
<1>1. CASE UNCHANGED <<post, responses>>
    BY <1>1, QuietGame
<1>2. CASE handleCreateCall
    BY <1>2, AnnounceStep DEF handleCreateCall
<1>3. CASE handleUpdateCall
    BY <1>3, ResizeStep DEF handleUpdateCall
<1>4. CASE handleCancelCall \/ CloseWithBooking \/ ExpireStale
    BY <1>4, EndStep DEF handleCancelCall, Cancel, CloseWithBooking, SetStatus, ExpireStale
<1>5. ASSUME NEW w \in Workers, handleDeleteCall(w) \/ handleRespondToCall(w) \/ handleAcceptResponse(w) \/ Abort(w)
      PROVE  GameStep
    BY <1>1, <1>5 DEF handleDeleteCall, Delete, handleRespondToCall, Respond, handleAcceptResponse, Accept, Abort, RollBack
<1>6. ASSUME NEW w \in Workers, handleWithdrawFromCall(w) PROVE GameStep
    BY <1>6, UnaskStep DEF handleWithdrawFromCall
<1>7. ASSUME NEW w \in Workers, Proceed(w) PROVE GameStep
    BY <1>1, <1>7, AskStep, TakeStep, LeaveStep, DeletedStep DEF Proceed, AcceptLock
<1>8. CASE BreakDeadlock \/ Tick \/ UNCHANGED vars
    BY <1>1, <1>8 DEF BreakDeadlock, RollBack, Tick, vars
<1> QED
    BY <1>2, <1>3, <1>4, <1>5, <1>6, <1>7, <1>8 DEF Next

LEMMA GameInit == Init => OneGame!Init /\ Fresh
<1> SUFFICES ASSUME Init PROVE OneGame!Init /\ Fresh
    OBVIOUS
<1>1. CASE post = Null
  <2>1. ~Exists /\ gameState = "none"
      BY <1>1, NoGame DEF Exists
  <2>2. Accepted = {} /\ Waiting = {}
      BY DEF Init, Accepted, Waiting
  <2>3. (IF Exists THEN post.needed ELSE 0) = 0
      BY <2>1
  <2>4. OneGame!Init
      BY <2>1, <2>2, <2>3 DEF OneGame!Init
  <2>5. Fresh
      BY DEF Init, Fresh, Idle
  <2> QED
      BY <2>4, <2>5
<1>2. ASSUME NEW n \in 1 .. MaxNeededPlayers, NEW at \in 1 .. MaxNow, post = NewCall(FALSE, n, at)
      PROVE  OneGame!Init
  <2>1. post \in Call /\ post.needed = n /\ post.status = "open"
      BY <1>2 DEF NewCall, Call, MatchmakingStatus
  <2> QED
      BY <2>1, GameOf DEF Init, OneGame!Init, RowState, Accepted, Waiting
<1>3. Fresh
    BY DEF Init, Fresh, Idle
<1> QED
    BY <1>1, <1>2, <1>3 DEF Init

(* The transactions on a call, however many and however interleaved, play   *)
(* the abstract Game: each place is asked for, given while the game is open *)
(* and given back at one instant.                                           *)
THEOREM GameIsPlayed == Spec => PlayedAsPromised
<1>1. IInv /\ Fresh /\ [Next]_vars => IInv' /\ Fresh' /\ [OneGame!Next]_(OneGame!vars)
    BY IInvStep, FreshStep, StepsOfTheGame DEF GameStep
<1> QED
    BY <1>1, InitIInv, GameInit, PTL DEF Spec, PlayedAsPromised, OneGame!Spec
=============================================================================
