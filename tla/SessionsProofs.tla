--------------------------- MODULE SessionsProofs ---------------------------
(***************************************************************************)
(* What Sessions keeps for any number of accounts, tabs, tokens and links  *)
(* and any lifetimes: types and row locks, chains of refresh tokens that   *)
(* do not fork, a janitor that the foreign key never stops, and sessions   *)
(* that end with the password unless they were stored in the race with it. *)
(***************************************************************************)
EXTENDS Sessions, TLAPS

(* What a request carries for the step it is at. *)
Complete(r) ==
    /\ r.op \in {"issuing", "hashing", "updating", "rotating"} => r.user \in Users
    /\ r.op \in {"hashing", "updating"} => r.password \in Passwords
    /\ r.op \in {"refreshing", "rotating"} => r.token \in Tokens
    /\ r.op = "replying" /\ r.token # Null => r.user \in Users

(* The row of a token that is being exchanged is locked: it stays live, and *)
(* nobody else exchanges it.                                                *)
RowLocks ==
    /\ \A c \in Clients : req[c].op = "rotating" => Live(req[c].token)
    /\ \A c, d \in Clients :
          req[c].op = "rotating" /\ req[d].op = "rotating" /\ req[c].token = req[d].token => c = d

TypeInv == TypeOK /\ (\A c \in Clients : Complete(req[c])) /\ RowLocks

(* Digests are never issued twice. *)
Issued ==
    \A t \in Tokens : Stored(t) =>
        t \in minted /\ {tokens[t].from, tokens[t].replacedBy} \subseteq minted \cup {Null}

(* A row never outlives the one it was exchanged for. *)
InOrder ==
    \A t \in Tokens : Stored(t) =>
        /\ tokens[t].expiresAt <= now + RefreshTTL
        /\ tokens[t].revokedAt # Null => tokens[t].revokedAt <= now
        /\ LET n == tokens[t].replacedBy IN
              n # Null /\ Stored(n) =>
                  /\ tokens[t].revokedAt # Null
                  /\ tokens[t].expiresAt <= tokens[n].expiresAt
                  /\ tokens[n].revokedAt # Null => tokens[t].revokedAt <= tokens[n].revokedAt

(* A password being written knows every session from before it that lives. *)
ForeseenBy(r) ==
    r.op = "updating" =>
        /\ r.before \subseteq minted
        /\ \A t \in r.before : Live(t) /\ tokens[t].user = r.user => t \in r.seen
Foreseen == \A c \in Clients : ForeseenBy(req[c])

IInv == TypeInv /\ Issued /\ ChainsDoNotFork /\ InOrder /\ OnlyARaceOutlivesThePassword /\ Foreseen

-----------------------------------------------------------------------------
(* Types of what steps put together. *)

LEMMA Clock == /\ RefreshTTL \in Nat /\ AccessTTL \in Nat /\ PasswordResetTTL \in Nat /\ MaxNow \in Nat
               /\ RetainRevoked \in Nat
               /\ \A n \in 0 .. MaxNow : /\ n \in Time /\ n \in Nat /\ n + RefreshTTL \in Time
                                         /\ n + AccessTTL \in Time /\ n + PasswordResetTTL \in Time
  BY TTLAssumption DEF Time

LEMMA IdleType == Idle \in Request /\ Complete(Idle) /\ Idle.op = "idle"
  BY DEF Idle, Request, Op, Complete

LEMMA RowType ==
    ASSUME TypeOK, NEW u \in Users, NEW parent \in Tokens \cup {Null}, NEW past \in Past
    PROVE  NewRow(u, parent, past) \in Token
  BY Clock DEF NewRow, Token, TypeOK

(* Sessions from before stay known while none is stored under their digest, *)
(* none revives, and the writes under way are the same.                     *)
LEMMA StillForeseen ==
    ASSUME Foreseen, minted \subseteq minted',
           \A t \in minted : Live(t)' => Live(t) /\ tokens'[t].user = tokens[t].user,
           \A d \in Clients : req'[d].op = "updating" =>
               /\ req[d].op = "updating" /\ req'[d].user = req[d].user
               /\ req'[d].before = req[d].before /\ req'[d].seen = req[d].seen
    PROVE  Foreseen'
  BY DEF Foreseen, ForeseenBy

(* A request moves on and takes no row lock. *)
LEMMA MoveOn ==
    ASSUME TypeInv, NEW c \in Clients, NEW r \in Request, Complete(r), r.op # "rotating", Goto(c, r),
           \A t \in Tokens : Live(t) /\ (\E d \in Clients \ {c} : req[d].op = "rotating" /\ req[d].token = t)
                                 => Live(t)'
    PROVE  /\ req' \in [Clients -> Request] /\ (\A d \in Clients : Complete(req'[d])) /\ RowLocks'
<1>1. \A d \in Clients : req'[d] = IF d = c THEN r ELSE req[d]
    BY DEF Goto, TypeInv, TypeOK
<1>2. req' \in [Clients -> Request] /\ \A d \in Clients : Complete(req'[d])
    BY DEF Goto, TypeInv, TypeOK
<1>3. ASSUME NEW d \in Clients, req'[d].op = "rotating" PROVE Live(req[d].token)'
  <2>1. d # c /\ req'[d] = req[d] /\ req[d].token \in Tokens /\ Live(req[d].token)
      BY <1>1, <1>3 DEF TypeInv, RowLocks, Complete
  <2> QED
      BY <1>1, <1>3, <2>1 DEF Live, Stored
<1>4. RowLocks'
    BY <1>1, <1>3 DEF TypeInv, RowLocks
<1> QED
    BY <1>2, <1>4

LEMMA InitInv == Init => IInv
<1> SUFFICES ASSUME Init PROVE IInv
    OBVIOUS
<1>1. users \in [Users -> User]
  <2>1. [registered : {TRUE}, password : Passwords, weak : BOOLEAN] \subseteq User
      BY DEF User
  <2>2. [registered |-> FALSE, password |-> Null, weak |-> FALSE] \in User
      BY DEF User
  <2> QED
      BY <2>1, <2>2 DEF Init
<1>2. TypeInv
    BY <1>1, Clock, IdleType DEF Init, TypeInv, TypeOK, RowLocks
<1> QED
    BY <1>2 DEF Init, IInv, Issued, ChainsDoNotFork, InOrder, OnlyARaceOutlivesThePassword, Live, Stored,
       Foreseen, ForeseenBy, Idle

-----------------------------------------------------------------------------
(* The steps that leave the token rows alone. *)

LEMMA TokensKept ==
    ASSUME IInv, UNCHANGED <<tokens, minted>>, now' = now \/ now' = now + 1
    PROVE  Issued' /\ ChainsDoNotFork' /\ InOrder' /\ OnlyARaceOutlivesThePassword'
<1>1. now \in Nat /\ RefreshTTL \in Nat
    BY Clock DEF IInv, TypeInv, TypeOK
<1>2. Issued' /\ ChainsDoNotFork' /\ OnlyARaceOutlivesThePassword'
    BY DEF IInv, Issued, ChainsDoNotFork, OnlyARaceOutlivesThePassword, Live, Stored
<1>3. \A t \in Tokens : Stored(t) =>
          /\ tokens[t].expiresAt \in Nat
          /\ tokens[t].revokedAt # Null => tokens[t].revokedAt \in Nat
  <2>1. Time \subseteq Nat
      BY TTLAssumption DEF Time
  <2> QED
      BY <2>1 DEF IInv, TypeInv, TypeOK, Token, Stored
<1>4. InOrder'
    BY <1>1, <1>3 DEF IInv, InOrder, Stored
<1> QED
    BY <1>2, <1>4

(* Nothing but the clock, the cookie, the accounts and the links moves. *)
LEMMA QuietStep ==
    ASSUME IInv, NEW c \in Clients, NEW r \in Request, Complete(r), Goto(c, r),
           r.op \notin {"rotating", "updating"}, UNCHANGED <<tokens, minted, now>>,
           users' \in [Users -> User], links' \in [Links -> Link \cup {Null}],
           jar' \in Tokens \cup {Null},
           access' \in [Clients -> [user : Users, expiresAt : Time] \cup {Null}]
    PROVE  IInv'
<1>1. \A t \in Tokens : Live(t) => Live(t)'
    BY DEF Live, Stored
<1>2. /\ req' \in [Clients -> Request] /\ (\A d \in Clients : Complete(req'[d])) /\ RowLocks'
    BY <1>1, MoveOn DEF IInv
<1>3. TypeInv'
    BY <1>2 DEF IInv, TypeInv, TypeOK
<1>4. Foreseen'
  <2>1. \A d \in Clients : req'[d] = IF d = c THEN r ELSE req[d]
      BY DEF Goto, IInv, TypeInv, TypeOK
  <2> QED
      BY <2>1, StillForeseen DEF IInv, Live, Stored
<1> QED
    BY <1>3, <1>4, TokensKept DEF IInv

LEMMA RegisterStep ==
    ASSUME IInv, NEW c \in Clients, handleRegister(c) PROVE IInv'
<1>1. PICK u \in Users, p \in Passwords : Register(c, u, p)
    BY DEF handleRegister
<1>2. [Idle EXCEPT !.op = "issuing", !.user = u] \in Request
        /\ Complete([Idle EXCEPT !.op = "issuing", !.user = u])
    BY DEF Idle, Request, Op, Complete
<1>3. users' \in [Users -> User]
    BY <1>1 DEF Register, HashPassword, User, IInv, TypeInv, TypeOK
<1> QED
    BY <1>1, <1>2, <1>3, QuietStep DEF Register, Idle, IInv, TypeInv, TypeOK

LEMMA LoginStep ==
    ASSUME IInv, NEW c \in Clients, handleLogin(c) PROVE IInv'
<1>1. PICK u \in Users, p \in Passwords : Login(c, u, p)
    BY DEF handleLogin
<1> DEFINE r1 == [Idle EXCEPT !.op = "hashing", !.user = u, !.password = p, !.then = "issuing"]
           r2 == [Idle EXCEPT !.op = "issuing", !.user = u]
<1>2. r1 \in Request /\ Complete(r1) /\ r1.op \notin {"rotating", "updating"}
    BY DEF Idle, Request, Op, Complete
<1>3. r2 \in Request /\ Complete(r2) /\ r2.op \notin {"rotating", "updating"}
    BY DEF Idle, Request, Op, Complete
<1>4. (Goto(c, r1) \/ Goto(c, r2)) /\ UNCHANGED <<users, tokens, minted, links, jar, access, now>>
    BY <1>1 DEF Login
<1> HIDE DEF r1, r2
<1> QED
    BY <1>2, <1>3, <1>4, QuietStep DEF IInv, TypeInv, TypeOK

LEMMA ResetStep ==
    ASSUME IInv, NEW c \in Clients, handlePasswordReset(c) PROVE IInv'
<1>1. PICK l \in Links, p \in Passwords : CompletePasswordReset(c, l, p)
    BY DEF handlePasswordReset
<1>2. links[l] \in Link /\ links' = [links EXCEPT ![l].consumed = TRUE]
    BY <1>1 DEF CompletePasswordReset, ConsumeVerificationToken, IInv, TypeInv, TypeOK
<1> DEFINE r == [Idle EXCEPT !.op = "hashing", !.user = links[l].user, !.password = p]
<1>3. r \in Request /\ Complete(r) /\ r.op \notin {"rotating", "updating"}
    BY <1>2 DEF Idle, Request, Op, Complete, Link
<1>4. links' \in [Links -> Link \cup {Null}]
    BY <1>2 DEF Link, IInv, TypeInv, TypeOK
<1>5. Goto(c, r) /\ UNCHANGED <<users, tokens, minted, jar, access, now>>
    BY <1>1 DEF CompletePasswordReset
<1> HIDE DEF r
<1> QED
    BY <1>3, <1>4, <1>5, QuietStep DEF IInv, TypeInv, TypeOK

LEMMA ChangeStep ==
    ASSUME IInv, NEW c \in Clients, handlePasswordChange(c) PROVE IInv'
<1>1. PICK current \in Passwords, p \in Passwords : ChangePassword(c, access[c].user, current, p)
    BY DEF handlePasswordChange
<1>2. access[c].user \in Users
    BY DEF handlePasswordChange, Authenticate, Verify, IInv, TypeInv, TypeOK
<1> DEFINE r == [Idle EXCEPT !.op = "hashing", !.user = access[c].user, !.password = p,
                             !.then = "replying"]
<1>3. r \in Request /\ Complete(r) /\ r.op \notin {"rotating", "updating"}
    BY <1>2 DEF Idle, Request, Op, Complete
<1>4. Goto(c, r) /\ UNCHANGED <<users, tokens, minted, links, jar, access, now>>
    BY <1>1 DEF ChangePassword
<1> HIDE DEF r
<1> QED
    BY <1>3, <1>4, QuietStep DEF IInv, TypeInv, TypeOK

LEMMA BeginUpdateStep ==
    ASSUME IInv, NEW c \in Clients, BeginUpdatePassword(c) PROVE IInv'
<1> DEFINE u == req[c].user
           r == [req[c] EXCEPT !.op = "updating", !.seen = SeenByUpdate(u), !.before = TokensOf(u)]
<1>1. req[c] \in Request /\ Complete(req[c]) /\ req[c].op = "hashing"
    BY DEF BeginUpdatePassword, IInv, TypeInv, TypeOK
<1>2. SeenByUpdate(u) \in SUBSET Tokens /\ TokensOf(u) \in SUBSET Tokens
    BY DEF SeenByUpdate, TokensOf
<1>3. /\ r \in Request /\ Complete(r) /\ r.op # "rotating"
      /\ r.user = u /\ r.seen = SeenByUpdate(u) /\ r.before = TokensOf(u)
    BY <1>1, <1>2 DEF Request, Op, Complete
<1>4. Goto(c, r) /\ UNCHANGED <<users, tokens, minted, links, jar, access, now>>
    BY DEF BeginUpdatePassword
<1> HIDE DEF r, u
<1>5. \A t \in Tokens : Live(t) <=> Live(t)'
    BY <1>4 DEF Live, Stored
<1>6. TypeInv'
    BY <1>3, <1>4, <1>5, MoveOn DEF IInv, TypeInv, TypeOK
<1>7. Foreseen'
  <2>1. PICK q : q = r
      OBVIOUS
  <2>2. \A d \in Clients : req'[d] = IF d = c THEN q ELSE req[d]
      BY <1>4, <2>1 DEF Goto, IInv, TypeInv, TypeOK
  <2>3. ForeseenBy(q)
      BY <1>3, <2>1 DEF ForeseenBy, SeenByUpdate, TokensOf, IInv, Issued
  <2>4. \A d \in Clients : ForeseenBy(req[d])
      BY DEF IInv, Foreseen
  <2>5. \A x : ForeseenBy(x) => ForeseenBy(x)'
      BY <1>4 DEF ForeseenBy, Live, Stored
  <2>6. ASSUME NEW d \in Clients PROVE ForeseenBy(req[d])'
    <3>1. PICK x : x = req'[d]
        OBVIOUS
    <3>2. ForeseenBy(x)'
        BY <2>2, <2>3, <2>4, <2>5, <3>1
    <3> QED
        BY <3>1, <3>2 DEF ForeseenBy
  <2> QED
      BY <2>6 DEF Foreseen
<1> QED
    BY <1>4, <1>6, <1>7, TokensKept DEF IInv

(* What follows UpdatePassword, done or failed. *)
LEMMA ContinueType ==
    ASSUME NEW r \in Request, Complete(r), r.op \in {"hashing", "updating"}
    PROVE  Continue(r) \in Request /\ Complete(Continue(r))
           /\ Continue(r).op \notin {"rotating", "updating"}
<1>1. CASE r.then = "idle"
    BY <1>1, IdleType DEF Continue
<1>2. CASE r.then # "idle"
  <2>1. /\ Continue(r) = [Idle EXCEPT !.op = r.then, !.user = r.user, !.raced = r.raced]
        /\ r.then \in {"issuing", "replying"}
      BY <1>2 DEF Continue, Request
  <2> QED
      BY <2>1 DEF Idle, Request, Op, Complete
<1> QED
    BY <1>1, <1>2

LEMMA RehashFailsStep ==
    ASSUME IInv, NEW c \in Clients, RehashFails(c) PROVE IInv'
<1>1. req[c] \in Request /\ Complete(req[c]) /\ req[c].op \in {"hashing", "updating"}
    BY DEF RehashFails, IInv, TypeInv, TypeOK
<1> QED
    BY <1>1, ContinueType, QuietStep DEF RehashFails, IInv, TypeInv, TypeOK

LEMMA RefreshStep ==
    ASSUME IInv, NEW c \in Clients, handleRefresh(c) PROVE IInv'
<1> DEFINE r == [Idle EXCEPT !.op = "refreshing", !.token = jar]
<1>1. jar \in Tokens
    BY DEF handleRefresh, readRefreshToken, IInv, TypeInv, TypeOK
<1>2. r \in Request /\ Complete(r) /\ r.op \notin {"rotating", "updating"}
    BY <1>1 DEF Idle, Request, Op, Complete
<1>3. Goto(c, r) /\ UNCHANGED <<users, tokens, minted, links, jar, access, now>>
    BY DEF handleRefresh, Refresh, readRefreshToken
<1> HIDE DEF r
<1> QED
    BY <1>2, <1>3, QuietStep DEF IInv, TypeInv, TypeOK

(* A refusal, a failure or a lost request. *)
LEMMA EndStep ==
    ASSUME IInv, NEW c \in Clients, RefuseRefresh(c) \/ FailRefresh(c) \/ withTimeout(c) PROVE IInv'
<1>1. /\ Goto(c, Idle) /\ jar' \in Tokens \cup {Null}
      /\ UNCHANGED <<users, tokens, minted, links, access, now>>
    BY DEF RefuseRefresh, FailRefresh, withTimeout, clearRefreshCookie, IInv, TypeInv, TypeOK
<1> QED
    BY <1>1, IdleType, QuietStep DEF IInv, TypeInv, TypeOK

LEMMA ReplyStep ==
    ASSUME IInv, NEW c \in Clients, writeSession(c) PROVE IInv'
<1>1. req[c] \in Request /\ Complete(req[c]) /\ req[c].op = "replying"
    BY DEF writeSession, IInv, TypeInv, TypeOK
<1>2. jar' \in Tokens \cup {Null}
    BY <1>1 DEF writeSession, Request
<1>3. req[c].token # Null => AccessToken(req[c].user) \in [user : Users, expiresAt : Time]
    BY <1>1, Clock DEF AccessToken, Complete, IInv, TypeInv, TypeOK
<1>4. access' \in [Clients -> [user : Users, expiresAt : Time] \cup {Null}]
    BY <1>3 DEF writeSession, IInv, TypeInv, TypeOK
<1> QED
    BY <1>2, <1>4, IdleType, QuietStep DEF writeSession, IInv, TypeInv, TypeOK

LEMMA ForgotStep == ASSUME IInv, handlePasswordForgot PROVE IInv'
<1>1. PICK u \in Users, l \in Links : BeginPasswordReset(u, l)
    BY DEF handlePasswordForgot
<1>2. [user |-> u, expiresAt |-> now + PasswordResetTTL, consumed |-> FALSE] \in Link
    BY Clock DEF Link, IInv, TypeInv, TypeOK
<1>3. \A k \in Links : links[k] # Null => [links[k] EXCEPT !.consumed = TRUE] \in Link
    BY DEF Link, IInv, TypeInv, TypeOK
<1>4. links' \in [Links -> Link \cup {Null}]
    BY <1>1, <1>2, <1>3 DEF BeginPasswordReset, StoreVerificationToken, IInv, TypeInv, TypeOK
<1>5. UNCHANGED <<users, tokens, minted, jar, access, req, now>>
    BY <1>1 DEF BeginPasswordReset
<1>6. TypeInv'
    BY <1>4, <1>5 DEF IInv, TypeInv, TypeOK, RowLocks, Live, Stored
<1>7. Foreseen'
    BY <1>5 DEF IInv, Foreseen, ForeseenBy, Live, Stored
<1> QED
    BY <1>5, <1>6, <1>7, TokensKept DEF IInv

LEMMA TickStep == ASSUME IInv, Tick PROVE IInv'
<1>1. now' \in 0 .. MaxNow
    BY Clock DEF Tick, IInv, TypeInv, TypeOK
<1>2. access' \in [Clients -> [user : Users, expiresAt : Time] \cup {Null}]
    BY DEF Tick, IInv, TypeInv, TypeOK
<1>3. TypeInv'
    BY <1>1, <1>2 DEF Tick, IInv, TypeInv, TypeOK, RowLocks, Live, Stored
<1>4. Foreseen'
    BY DEF Tick, IInv, Foreseen, ForeseenBy, Live, Stored
<1> QED
    BY <1>3, <1>4, TokensKept DEF Tick, IInv

(* The row is locked while nobody else has it. *)
LEMMA RotateLockStep ==
    ASSUME IInv, NEW c \in Clients, RotateLock(c) PROVE IInv'
<1> DEFINE t == req[c].token
           r == [req[c] EXCEPT !.op = "rotating", !.user = tokens[t].user]
<1>1. req[c] \in Request /\ Complete(req[c]) /\ req[c].op = "refreshing" /\ t \in Tokens /\ Live(t)
    BY DEF RotateLock, Rotatable, IInv, TypeInv, TypeOK, Complete
<1>2. tokens[t].user \in Users
    BY <1>1 DEF Live, Stored, Token, IInv, TypeInv, TypeOK
<1>3. r \in Request /\ Complete(r) /\ r.op = "rotating" /\ r.token = t
    BY <1>1, <1>2 DEF Request, Op, Complete
<1>4. /\ req' = [req EXCEPT ![c] = r]
      /\ UNCHANGED <<users, tokens, minted, links, jar, access, now>>
    BY DEF RotateLock, Goto
<1>5. \A d \in Clients : ~(req[d].op = "rotating" /\ req[d].token = t)
    BY DEF RotateLock, RowLocked
<1> HIDE DEF r
<1>6. \A d \in Clients : req'[d] = IF d = c THEN r ELSE req[d]
    BY <1>4 DEF IInv, TypeInv, TypeOK
<1>7. req' \in [Clients -> Request] /\ \A d \in Clients : Complete(req'[d])
    BY <1>3, <1>4 DEF IInv, TypeInv, TypeOK
<1>8. RowLocks'
    BY <1>1, <1>3, <1>4, <1>5, <1>6 DEF IInv, TypeInv, RowLocks, Live, Stored
<1>9. TypeInv'
    BY <1>4, <1>7, <1>8 DEF IInv, TypeInv, TypeOK
<1>10. Foreseen'
    BY <1>3, <1>4, <1>6, StillForeseen DEF IInv, Live, Stored
<1> QED
    BY <1>4, <1>9, <1>10, TokensKept DEF IInv

-----------------------------------------------------------------------------
(* The steps that write token rows. *)

(* Instants are numbers, and Null is no row. *)
LEMMA RowFacts ==
    ASSUME IInv
    PROVE  /\ now \in Nat /\ RefreshTTL \in Nat /\ now \in Time /\ now + RefreshTTL \in Time
           /\ now # Null /\ Null \notin Tokens /\ Null \notin Token
           /\ \A t \in Tokens : Stored(t) =>
                 /\ tokens[t] \in Token /\ tokens[t].user \in Users
                 /\ tokens[t].expiresAt \in Nat
                 /\ tokens[t].revokedAt # Null => tokens[t].revokedAt \in Nat
<1>1. Time \subseteq Nat
    BY TTLAssumption DEF Time
<1> QED
    BY <1>1, Clock, NullAssumption DEF IInv, TypeInv, TypeOK, Token, Stored

LEMMA IssueStep ==
    ASSUME IInv, NEW c \in Clients, issueSession(c) PROVE IInv'
<1> DEFINE past == IF req[c].raced THEN "raced" ELSE "current"
<1>1. PICK t \in NewRefreshToken :
          /\ StoreRefreshToken(t, req[c].user, past)
          /\ Goto(c, [Idle EXCEPT !.op = "replying", !.user = req[c].user, !.token = t])
    BY DEF issueSession
<1>2. t \in Tokens /\ t \notin minted /\ ~Stored(t)
    BY <1>1 DEF NewRefreshToken, IInv, Issued
<1>3. req[c].user \in Users /\ UNCHANGED <<users, links, jar, access, now>>
    BY DEF issueSession, IInv, TypeInv, Complete
<1> DEFINE row == NewRow(req[c].user, Null, past)
           r == [Idle EXCEPT !.op = "replying", !.user = req[c].user, !.token = t]
<1>4. row \in Token
    BY <1>3, RowType DEF IInv, TypeInv, Past
<1>5. /\ row.from = Null /\ row.replacedBy = Null /\ row.revokedAt = Null
      /\ row.expiresAt = now + RefreshTTL /\ row.was # "ended"
    BY DEF NewRow
<1>6. r \in Request /\ Complete(r) /\ r.op \notin {"rotating", "updating"} /\ Goto(c, r)
    BY <1>1, <1>2, <1>3 DEF Idle, Request, Op, Complete
<1>7. tokens' = [tokens EXCEPT ![t] = row] /\ minted' = minted \cup {t}
    BY <1>1 DEF StoreRefreshToken
<1> HIDE DEF row, r
<1>8. \A x \in Tokens : tokens'[x] = IF x = t THEN row ELSE tokens[x]
    BY <1>2, <1>7 DEF IInv, TypeInv, TypeOK
<1>9. /\ req' \in [Clients -> Request] /\ (\A d \in Clients : Complete(req'[d])) /\ RowLocks'
  <2>1. \A x \in Tokens : Live(x) => Live(x)'
      BY <1>2, <1>8 DEF Live, Stored
  <2> QED
      BY <1>6, <2>1, MoveOn DEF IInv
<1>10. TypeInv'
    BY <1>2, <1>3, <1>4, <1>7, <1>9 DEF IInv, TypeInv, TypeOK
<1>11. Issued' /\ ChainsDoNotFork'
    BY <1>2, <1>5, <1>7, <1>8, RowFacts DEF IInv, Issued, ChainsDoNotFork, Stored
<1>12. InOrder'
  <2>1. ASSUME NEW x \in Tokens, Stored(x)
        PROVE  tokens[x].replacedBy \in (Tokens \ {t}) \cup {Null}
      BY <1>2, <2>1, RowFacts DEF IInv, Issued, TypeInv, TypeOK
  <2> QED
      BY <1>2, <1>3, <1>5, <1>8, <2>1, RowFacts DEF IInv, InOrder, Stored
<1>13. OnlyARaceOutlivesThePassword'
    BY <1>5, <1>8 DEF IInv, OnlyARaceOutlivesThePassword, Live, Stored
<1>14. Foreseen'
  <2>1. \A d \in Clients : req'[d] = IF d = c THEN r ELSE req[d]
      BY <1>6 DEF Goto, IInv, TypeInv, TypeOK
  <2>2. \A x \in minted : tokens'[x] = tokens[x]
      BY <1>2, <1>8 DEF IInv, TypeInv, TypeOK
  <2> QED
      BY <1>6, <1>7, <2>1, <2>2, StillForeseen DEF IInv, Live, Stored
<1> QED
    BY <1>10, <1>11, <1>12, <1>13, <1>14 DEF IInv

(* The rows a step only revokes, at this instant, stay in order.            *)
LEMMA RevokeStep ==
    ASSUME IInv, tokens' \in [Tokens -> Token \cup {Null}], UNCHANGED <<minted, now>>,
           \A t \in Tokens :
              /\ Stored(t)' <=> Stored(t)
              /\ Stored(t) => /\ tokens'[t].user = tokens[t].user
                              /\ tokens'[t].from = tokens[t].from
                              /\ tokens'[t].replacedBy = tokens[t].replacedBy
                              /\ tokens'[t].expiresAt = tokens[t].expiresAt
                              /\ \/ tokens'[t].revokedAt = tokens[t].revokedAt
                                 \/ tokens[t].revokedAt = Null /\ tokens'[t].revokedAt = now
    PROVE  Issued' /\ ChainsDoNotFork' /\ InOrder'
<1>1. Issued' /\ ChainsDoNotFork'
    BY RowFacts DEF IInv, Issued, ChainsDoNotFork
<1>2. \A t \in Tokens : Stored(t) =>
          (tokens[t].replacedBy # Null => tokens[t].replacedBy \in Tokens)
    BY RowFacts DEF IInv, Token
<1>3. InOrder'
    BY <1>2, RowFacts DEF IInv, InOrder
<1> QED
    BY <1>1, <1>3

LEMMA LogoutStep ==
    ASSUME IInv, NEW c \in Clients, handleLogout(c) PROVE IInv'
<1>1. PICK t \in Tokens : /\ ~RowLocked(t) /\ RevokeRefreshToken(t) /\ jar' = Null
                          /\ UNCHANGED <<users, minted, links, access, req, now>>
    BY DEF handleLogout, readRefreshToken, clearRefreshCookie, IInv, TypeInv, TypeOK
<1>2. tokens' = [tokens EXCEPT ![t] = IF Live(t) THEN [tokens[t] EXCEPT !.revokedAt = now] ELSE tokens[t]]
    BY <1>1 DEF RevokeRefreshToken
<1>3. Live(t) => [tokens[t] EXCEPT !.revokedAt = now] \in Token
    BY RowFacts DEF Live, Token
<1>4. tokens' \in [Tokens -> Token \cup {Null}]
    BY <1>2, <1>3 DEF IInv, TypeInv, TypeOK
<1>5. \A x \in Tokens :
          /\ x # t \/ ~Live(t) => tokens'[x] = tokens[x]
          /\ x = t /\ Live(t) => tokens'[x] = [tokens[t] EXCEPT !.revokedAt = now]
    BY <1>2 DEF IInv, TypeInv, TypeOK
<1>6. \A x \in Tokens :
          /\ Stored(x)' <=> Stored(x)
          /\ Stored(x) => /\ tokens'[x].user = tokens[x].user
                          /\ tokens'[x].from = tokens[x].from
                          /\ tokens'[x].replacedBy = tokens[x].replacedBy
                          /\ tokens'[x].expiresAt = tokens[x].expiresAt
                          /\ tokens'[x].was = tokens[x].was
                          /\ \/ tokens'[x].revokedAt = tokens[x].revokedAt
                             \/ tokens[x].revokedAt = Null /\ tokens'[x].revokedAt = now
    BY <1>3, <1>5, RowFacts DEF Live, Stored, Token
<1>7. RowLocks'
    BY <1>1, <1>5 DEF IInv, TypeInv, RowLocks, RowLocked, Complete, Live, Stored
<1>8. TypeInv'
    BY <1>1, <1>4, <1>7 DEF IInv, TypeInv, TypeOK
<1>9. OnlyARaceOutlivesThePassword'
    BY <1>6, RowFacts DEF IInv, OnlyARaceOutlivesThePassword, Live
<1>10. Foreseen'
    BY <1>1, <1>6, RowFacts, StillForeseen DEF IInv, TypeInv, TypeOK, Live
<1> QED
    BY <1>1, <1>4, <1>6, <1>8, <1>9, <1>10, RevokeStep DEF IInv

(* UpdatePassword revokes what it saw, and marks what it ought to end. *)
LEMMA UpdateStep ==
    ASSUME IInv, NEW c \in Clients, UpdatePassword(c) PROVE IInv'
<1> DEFINE r == req[c]
           done == Continue([r EXCEPT !.raced = FALSE])
<1>1. /\ r \in Request /\ Complete(r) /\ r.op = "updating" /\ r.seen \subseteq Tokens
      /\ r.user \in Users /\ r.password \in Passwords
      /\ \A t \in r.seen : ~RowLocked(t)
      /\ users' = [users EXCEPT ![r.user] = HashPassword(r.password)]
      /\ tokens' = AfterUpdate(r)
      /\ req' = AfterCheck(c, r.user) /\ UNCHANGED <<minted, links, jar, access, now>>
    BY DEF UpdatePassword, IInv, TypeInv, TypeOK, Complete, Request
<1>2. done \in Request /\ Complete(done) /\ done.op \notin {"rotating", "updating"}
  <2> DEFINE q == [r EXCEPT !.raced = FALSE]
  <2>1. q \in Request /\ Complete(q) /\ q.op = "updating"
      BY <1>1 DEF Request, Complete
  <2> QED
      BY <2>1, ContinueType
<1>3. \A d \in Clients : req'[d] = IF d = c THEN done
                                 ELSE IF req[d].user = r.user /\ "issuing" \in {req[d].op, req[d].then}
                                      THEN [req[d] EXCEPT !.raced = TRUE] ELSE req[d]
    BY <1>1 DEF AfterCheck
<1>4. \A t \in r.before : Live(t) /\ tokens[t].user = r.user => t \in r.seen
    BY <1>1 DEF IInv, Foreseen, ForeseenBy
<1> HIDE DEF r, done
<1>5. \A t \in Tokens :
          /\ t \notin TokensOf(r.user) => tokens'[t] = tokens[t]
          /\ t \in TokensOf(r.user) =>
                 /\ Stored(t) /\ tokens'[t] \in Token
                 /\ tokens'[t].user = tokens[t].user
                 /\ tokens'[t].from = tokens[t].from
                 /\ tokens'[t].replacedBy = tokens[t].replacedBy
                 /\ tokens'[t].expiresAt = tokens[t].expiresAt
                 /\ tokens'[t].was = (IF t \in r.before THEN "ended" ELSE "raced")
                 /\ tokens'[t].revokedAt = IF t \in r.seen /\ tokens[t].revokedAt = Null
                                           THEN now ELSE tokens[t].revokedAt
  <2> SUFFICES ASSUME NEW t \in Tokens, t \in TokensOf(r.user)
               PROVE  /\ Stored(t) /\ tokens'[t] \in Token
                      /\ tokens'[t].user = tokens[t].user
                      /\ tokens'[t].from = tokens[t].from
                      /\ tokens'[t].replacedBy = tokens[t].replacedBy
                      /\ tokens'[t].expiresAt = tokens[t].expiresAt
                      /\ tokens'[t].was = (IF t \in r.before THEN "ended" ELSE "raced")
                      /\ tokens'[t].revokedAt = IF t \in r.seen /\ tokens[t].revokedAt = Null
                                                THEN now ELSE tokens[t].revokedAt
      BY <1>1 DEF AfterUpdate
  <2>1. Stored(t) /\ tokens[t] \in Token
      BY RowFacts DEF TokensOf
  <2> DEFINE past == IF t \in r.before THEN "ended" ELSE "raced"
             ended == IF t \in r.seen /\ tokens[t].revokedAt = Null THEN now ELSE tokens[t].revokedAt
  <2>2. past \in Past /\ ended \in Time \cup {Null}
      BY <2>1, RowFacts DEF Token, Past
  <2>3. tokens'[t] = [tokens[t] EXCEPT !.was = past, !.revokedAt = ended]
      BY <1>1, <2>1 DEF AfterUpdate, Token
  <2> HIDE DEF past, ended
  <2>4. /\ tokens'[t] \in Token
        /\ tokens'[t].user = tokens[t].user
        /\ tokens'[t].from = tokens[t].from
        /\ tokens'[t].replacedBy = tokens[t].replacedBy
        /\ tokens'[t].expiresAt = tokens[t].expiresAt
        /\ tokens'[t].was = past
        /\ tokens'[t].revokedAt = ended
      BY <2>1, <2>2, <2>3 DEF Token
  <2> QED
      BY <2>1, <2>4 DEF past, ended
<1>6. tokens' \in [Tokens -> Token \cup {Null}]
  <2>1. \A t \in Tokens : tokens'[t] \in Token \cup {Null}
      BY <1>5 DEF IInv, TypeInv, TypeOK
  <2>2. tokens' = [t \in Tokens |-> tokens'[t]]
      BY <1>1 DEF AfterUpdate
  <2> QED
      BY <2>1, <2>2
<1>7. \A t \in Tokens : Stored(t)' <=> Stored(t)
    BY <1>5, RowFacts DEF Stored
<1>8. Issued' /\ ChainsDoNotFork' /\ InOrder'
    BY <1>1, <1>5, <1>6, <1>7, RevokeStep
<1>9. /\ req' \in [Clients -> Request] /\ (\A d \in Clients : Complete(req'[d]))
      /\ \A d \in Clients : d # c => /\ req'[d].op = req[d].op /\ req'[d].token = req[d].token
                                    /\ req'[d].user = req[d].user /\ req'[d].seen = req[d].seen
                                    /\ req'[d].before = req[d].before
  <2>1. ASSUME NEW d \in Clients
        PROVE  /\ [req[d] EXCEPT !.raced = TRUE] \in Request
               /\ Complete([req[d] EXCEPT !.raced = TRUE])
    <3>1. req[d] \in Request /\ Complete(req[d])
        BY DEF IInv, TypeInv, TypeOK
    <3> QED
        BY <3>1 DEF Request, Complete
  <2>2. \A d \in Clients : req[d] \in Request /\ Complete(req[d])
      BY DEF IInv, TypeInv, TypeOK
  <2>3. \A d \in Clients : req'[d] \in Request /\ Complete(req'[d])
      BY <1>2, <1>3, <2>1, <2>2
  <2>4. req' = [d \in Clients |-> req'[d]]
      BY <1>1 DEF AfterCheck
  <2>5. \A d \in Clients : d # c => req'[d] \in {req[d], [req[d] EXCEPT !.raced = TRUE]}
      BY <1>3
  <2> QED
      BY <2>2, <2>3, <2>4, <2>5 DEF Request
<1>10. \A t \in Tokens : Live(t)' => Live(t)
    BY <1>5, <1>7, RowFacts DEF Live
<1>11. RowLocks'
  <2>1. ASSUME NEW d \in Clients, req'[d].op = "rotating" PROVE Live(req[d].token)'
    <3>1. /\ d # c /\ req[d].op = "rotating" /\ req[d].token \in Tokens /\ Live(req[d].token)
          /\ RowLocked(req[d].token)
        BY <1>2, <1>3, <1>9, <2>1 DEF IInv, TypeInv, RowLocks, Complete, RowLocked
    <3>2. PICK t \in Tokens : t = req[d].token /\ Live(t) /\ RowLocked(t) /\ t \notin r.seen
        BY <1>1, <3>1
    <3>3. Live(t)'
        BY <1>5, <1>7, <3>2 DEF Live
    <3> QED
        BY <1>9, <3>1, <3>2, <3>3 DEF Live, Stored
  <2>2. \A d \in Clients : req'[d].op = "rotating" =>
            d # c /\ req[d].op = "rotating" /\ req'[d].token = req[d].token
      BY <1>2, <1>3, <1>9
  <2> QED
      BY <2>1, <2>2 DEF IInv, TypeInv, RowLocks, Live, Stored
<1>12. TypeInv'
  <2>1. users' \in [Users -> User]
      BY <1>1 DEF HashPassword, User, IInv, TypeInv, TypeOK
  <2> QED
      BY <1>1, <1>6, <1>9, <1>11, <2>1 DEF IInv, TypeInv, TypeOK
<1>13. OnlyARaceOutlivesThePassword'
  <2> SUFFICES ASSUME NEW t \in Tokens, Live(t)', tokens'[t].was = "ended" PROVE FALSE
      BY DEF OnlyARaceOutlivesThePassword
  <2>1. Live(t)
      BY <1>10
  <2>2. CASE t \notin TokensOf(r.user)
      BY <1>5, <2>1, <2>2 DEF IInv, OnlyARaceOutlivesThePassword
  <2>3. CASE t \in TokensOf(r.user)
    <3>1. t \in r.before /\ tokens[t].user = r.user
        BY <1>5, <2>3 DEF TokensOf
    <3>2. t \in r.seen
        BY <1>4, <2>1, <3>1
    <3> QED
        BY <1>5, <2>1, <2>3, <3>2, RowFacts DEF Live
  <2> QED
      BY <2>2, <2>3
<1>14. Foreseen'
  <2>1. minted \subseteq Tokens /\ minted' = minted
      BY <1>1 DEF IInv, TypeInv, TypeOK
  <2>2. \A t \in Tokens : Live(t) => tokens'[t].user = tokens[t].user
      BY <1>5
  <2> QED
      BY <1>2, <1>3, <1>9, <1>10, <2>1, <2>2, StillForeseen DEF IInv
<1> QED
    BY <1>8, <1>12, <1>13, <1>14 DEF IInv

(* The exchange: the old row was live and locked, the new one is unheard of. *)
LEMMA RotateStep ==
    ASSUME IInv, NEW c \in Clients, RotateRefreshToken(c) PROVE IInv'
<1>1. PICK new \in NewRefreshToken :
          /\ Exchange(req[c].token, new)
          /\ Goto(c, [Idle EXCEPT !.op = "replying", !.user = req[c].user, !.token = new])
    BY DEF RotateRefreshToken
<1>2. new \in Tokens /\ new \notin minted /\ ~Stored(new)
    BY <1>1 DEF NewRefreshToken, IInv, Issued
<1>3. PICK old \in Tokens : old = req[c].token /\ Live(old) /\ Stored(old) /\ old # new
    BY <1>2 DEF RotateRefreshToken, IInv, TypeInv, Complete, RowLocks, Live
<1>4. req[c].op = "rotating" /\ req[c].user \in Users /\ UNCHANGED <<users, links, jar, access, now>>
    BY DEF RotateRefreshToken, IInv, TypeInv, Complete
<1> DEFINE row == NewRow(tokens[old].user, old, tokens[old].was)
           spent == [tokens[old] EXCEPT !.revokedAt = now, !.replacedBy = new]
           r == [Idle EXCEPT !.op = "replying", !.user = req[c].user, !.token = new]
<1>5. tokens[old] \in Token /\ tokens[old].user \in Users
    BY <1>3, RowFacts
<1>6. row \in Token
  <2>1. tokens[old].was \in Past
      BY <1>5 DEF Token
  <2> QED
      BY <1>5, <2>1, RowType DEF IInv, TypeInv
<1>7. /\ row.from = old /\ row.replacedBy = Null /\ row.revokedAt = Null
      /\ row.expiresAt = now + RefreshTTL /\ row.was = tokens[old].was
    BY DEF NewRow
<1>8. /\ spent \in Token /\ spent.from = tokens[old].from /\ spent.replacedBy = new
      /\ spent.revokedAt = now /\ spent.expiresAt = tokens[old].expiresAt
    BY <1>2, <1>5, RowFacts DEF Token
<1>9. r \in Request /\ Complete(r) /\ r.op \notin {"rotating", "updating"} /\ Goto(c, r)
    BY <1>1, <1>2, <1>4 DEF Idle, Request, Op, Complete
<1>10. tokens' = [tokens EXCEPT ![new] = row, ![old] = spent] /\ minted' = minted \cup {new}
    BY <1>1, <1>3 DEF Exchange, IInv, TypeInv, TypeOK
<1> HIDE DEF row, spent, r
<1>11. \A x \in Tokens : tokens'[x] = IF x = old THEN spent ELSE IF x = new THEN row ELSE tokens[x]
    BY <1>2, <1>3, <1>10 DEF IInv, TypeInv, TypeOK
<1>12. /\ req' \in [Clients -> Request] /\ (\A d \in Clients : Complete(req'[d])) /\ RowLocks'
  <2>1. \A x \in Tokens : Live(x) /\ (\E d \in Clients \ {c} : req[d].op = "rotating" /\ req[d].token = x)
                               => Live(x)'
    <3>1. \A d \in Clients \ {c} : ~(req[d].op = "rotating" /\ req[d].token = old)
        BY <1>3, <1>4 DEF IInv, TypeInv, RowLocks
    <3> QED
        BY <1>2, <1>11, <3>1 DEF Live, Stored
  <2> QED
      BY <1>9, <2>1, MoveOn DEF IInv
<1>13. TypeInv'
    BY <1>2, <1>4, <1>6, <1>8, <1>10, <1>12 DEF IInv, TypeInv, TypeOK
<1>14. ASSUME NEW x \in Tokens, Stored(x)
       PROVE  /\ x \in minted
              /\ tokens[x].from \in minted \cup {Null} /\ tokens[x].from # new
              /\ tokens[x].replacedBy \in minted \cup {Null} /\ tokens[x].replacedBy # new
              /\ tokens[x].replacedBy \in Tokens \cup {Null}
  <2>1. x \in minted /\ {tokens[x].from, tokens[x].replacedBy} \subseteq minted \cup {Null}
      BY <1>14 DEF IInv, Issued
  <2>2. tokens[x].from \in minted \cup {Null} /\ tokens[x].replacedBy \in minted \cup {Null}
      BY <2>1
  <2>3. minted \subseteq Tokens /\ new # Null
      BY <1>2, RowFacts DEF IInv, TypeInv, TypeOK
  <2> QED
      BY <1>2, <2>1, <2>2, <2>3
<1>15. Issued'
  <2> SUFFICES ASSUME NEW x \in Tokens, Stored(x)'
               PROVE  /\ x \in minted'
                      /\ tokens'[x].from \in minted' \cup {Null}
                      /\ tokens'[x].replacedBy \in minted' \cup {Null}
      BY DEF Issued
  <2>0. minted' = minted \cup {new} /\ old \in minted /\ tokens[old].from \in minted \cup {Null}
      BY <1>3, <1>10, <1>14
  <2>1. CASE x = new
    <3>1. tokens'[x] = row
        BY <1>2, <1>3, <1>11, <2>1
    <3> QED
        BY <1>7, <2>0, <2>1, <3>1
  <2>2. CASE x = old
    <3>1. tokens'[x] = spent
        BY <1>3, <1>11, <2>2
    <3> QED
        BY <1>8, <2>0, <2>2, <3>1
  <2>3. CASE x # new /\ x # old
    <3>1. Stored(x) /\ tokens'[x] = tokens[x]
        BY <1>11, <2>3 DEF Stored
    <3> QED
        BY <1>10, <1>14, <3>1
  <2> QED
      BY <2>1, <2>2, <2>3
<1>16. ChainsDoNotFork'
  <2> SUFFICES ASSUME NEW x \in Tokens, NEW y \in Tokens, Stored(x)', Stored(y)', tokens'[x].from = y
               PROVE  tokens'[y].revokedAt # Null /\ tokens'[y].replacedBy = x
      BY DEF ChainsDoNotFork
  <2>1. CASE x = new
      BY <1>3, <1>7, <1>8, <1>11, <2>1, RowFacts
  <2>2. CASE x # new
    <3>1. Stored(x) /\ tokens[x].from = y
        BY <1>3, <1>8, <1>11, <2>2 DEF Stored
    <3>2. y # new /\ Stored(y)
        BY <1>3, <1>11, <1>14, <3>1, RowFacts DEF Stored
    <3>3. tokens[y].revokedAt # Null /\ tokens[y].replacedBy = x
        BY <3>1, <3>2 DEF IInv, ChainsDoNotFork
    <3>4. y # old
        BY <1>3, <3>3 DEF Live
    <3> QED
        BY <1>11, <3>2, <3>3, <3>4
  <2> QED
      BY <2>1, <2>2
<1>17. InOrder'
  <2>1. tokens[old].expiresAt <= now + RefreshTTL /\ tokens[old].revokedAt = Null
      BY <1>3 DEF IInv, InOrder, Live
  <2>2. ASSUME NEW x \in Tokens, Stored(x)', x # new, x # old
        PROVE  (/\ tokens[x].expiresAt <= now + RefreshTTL
                /\ tokens[x].revokedAt # Null => tokens[x].revokedAt <= now
                /\ LET n == tokens[x].replacedBy IN
                      n # Null /\ Stored(n) =>
                          /\ tokens[x].revokedAt # Null
                          /\ tokens[x].expiresAt <= tokens[n].expiresAt
                          /\ tokens[n].revokedAt # Null => tokens[x].revokedAt <= tokens[n].revokedAt)'
    <3>1. Stored(x) /\ tokens'[x] = tokens[x] /\ now' = now
        BY <1>4, <1>11, <2>2 DEF Stored
    <3>2. /\ tokens[x].expiresAt <= now + RefreshTTL
          /\ tokens[x].revokedAt # Null => tokens[x].revokedAt <= now
        BY <3>1 DEF IInv, InOrder
    <3>3. ASSUME tokens[x].replacedBy # Null, tokens'[tokens[x].replacedBy] # Null
          PROVE  /\ tokens[x].revokedAt # Null
                 /\ tokens[x].expiresAt <= tokens'[tokens[x].replacedBy].expiresAt
                 /\ tokens'[tokens[x].replacedBy].revokedAt # Null
                       => tokens[x].revokedAt <= tokens'[tokens[x].replacedBy].revokedAt
      <4>1. PICK n \in Tokens : n = tokens[x].replacedBy /\ n # new
          BY <1>14, <3>1, <3>3
      <4>2. Stored(n)
          BY <1>3, <1>11, <3>3, <4>1 DEF Stored
      <4>3. /\ tokens[x].revokedAt # Null
            /\ tokens[x].expiresAt <= tokens[n].expiresAt
            /\ tokens[n].revokedAt # Null => tokens[x].revokedAt <= tokens[n].revokedAt
          BY <3>1, <3>3, <4>1, <4>2 DEF IInv, InOrder
      <4>4. tokens'[n].expiresAt = tokens[n].expiresAt
              /\ (tokens'[n].revokedAt = tokens[n].revokedAt \/ tokens'[n].revokedAt = now)
          BY <1>8, <1>11, <4>1
      <4> QED
          BY <3>2, <4>1, <4>3, <4>4
    <3> QED
        BY <3>1, <3>2, <3>3 DEF Stored
  <2>3. ASSUME NEW x \in Tokens, x = new
        PROVE  tokens'[x].expiresAt <= now' + RefreshTTL /\ tokens'[x].revokedAt = Null
                 /\ tokens'[x].replacedBy = Null
      BY <1>3, <1>4, <1>7, <1>11, <2>3, RowFacts
  <2>4. ASSUME NEW x \in Tokens, x = old
        PROVE  /\ tokens'[x].expiresAt <= now' + RefreshTTL /\ tokens'[x].revokedAt = now'
               /\ tokens'[x].replacedBy = new /\ tokens'[x].revokedAt # Null
               /\ tokens'[x].expiresAt <= tokens'[new].expiresAt /\ tokens'[new].revokedAt = Null
      BY <1>2, <1>3, <1>4, <1>7, <1>8, <1>11, <2>1, <2>4, RowFacts
  <2> QED
      BY <1>2, <1>3, <1>4, <2>2, <2>3, <2>4, RowFacts DEF InOrder
<1>18. OnlyARaceOutlivesThePassword'
    BY <1>2, <1>3, <1>7, <1>8, <1>11, RowFacts DEF IInv, OnlyARaceOutlivesThePassword, Live, Stored
<1>19. Foreseen'
  <2>1. \A d \in Clients : req'[d] = IF d = c THEN r ELSE req[d]
      BY <1>9 DEF Goto, IInv, TypeInv, TypeOK
  <2>2. \A x \in minted : Live(x)' => Live(x) /\ tokens'[x].user = tokens[x].user
      BY <1>2, <1>3, <1>8, <1>11, RowFacts DEF IInv, TypeInv, TypeOK, Live, Stored
  <2> QED
      BY <1>9, <1>10, <2>1, <2>2, StillForeseen DEF IInv
<1> QED
    BY <1>13, <1>15, <1>16, <1>17, <1>18, <1>19 DEF IInv

LEMMA SweepStep == ASSUME IInv, DeleteExpiredTokens PROVE IInv'
<1>1. PICK gone \in SUBSET Tokens :
          /\ \A t \in gone : ~RowLocked(t)
          /\ tokens' = [t \in Tokens |-> IF t \in gone THEN Null ELSE tokens[t]]
    BY DEF DeleteExpiredTokens
<1>2. UNCHANGED <<users, minted, links, jar, access, req, now>>
    BY DEF DeleteExpiredTokens
<1>3. \A t \in Tokens : Stored(t)' => Stored(t) /\ tokens'[t] = tokens[t]
    BY <1>1 DEF Stored
<1>4. RowLocks'
    BY <1>1, <1>2 DEF IInv, TypeInv, RowLocks, RowLocked, Complete, Live, Stored
<1>5. TypeInv'
    BY <1>1, <1>2, <1>4 DEF IInv, TypeInv, TypeOK
<1>6. Issued' /\ ChainsDoNotFork' /\ OnlyARaceOutlivesThePassword'
    BY <1>2, <1>3 DEF IInv, Issued, ChainsDoNotFork, OnlyARaceOutlivesThePassword, Live
<1>7. InOrder'
  <2>1. \A t \in Tokens : Stored(t) => tokens[t].replacedBy \in Tokens \cup {Null}
      BY RowFacts DEF Token
  <2> QED
      BY <1>2, <1>3, <2>1 DEF IInv, InOrder
<1>8. Foreseen'
    BY <1>2, <1>3, StillForeseen DEF IInv, TypeInv, TypeOK, Live
<1> QED
    BY <1>5, <1>6, <1>7, <1>8 DEF IInv

-----------------------------------------------------------------------------
LEMMA IInvStep == IInv /\ [Next]_vars => IInv'
<1> SUFFICES ASSUME IInv, [Next]_vars PROVE IInv'
    OBVIOUS
<1>1. ASSUME NEW c \in Clients, Step(c) PROVE IInv'
    BY <1>1, RegisterStep, LoginStep, IssueStep, RefreshStep, RotateLockStep, RotateStep, EndStep,
       LogoutStep, ResetStep, ChangeStep, BeginUpdateStep, UpdateStep, RehashFailsStep, ReplyStep
    DEF Step
<1>2. CASE UNCHANGED vars
  <2>1. TypeInv'
      BY <1>2 DEF vars, IInv, TypeInv, TypeOK, RowLocks, Live, Stored
  <2>2. Foreseen'
      BY <1>2 DEF vars, IInv, Foreseen, ForeseenBy, Live, Stored
  <2> QED
      BY <1>2, <2>1, <2>2, TokensKept DEF vars, IInv
<1> QED
    BY <1>1, <1>2, ForgotStep, SweepStep, TickStep DEF Next

(* Type correctness and the row locks, for any number of tabs. *)
THEOREM SessionsAreSound == Spec => []IInv
  BY InitInv, IInvStep, PTL DEF Spec

(* Rotation is single use: a refresh token is exchanged for one successor   *)
(* at most, however refreshes, retries and lost replies interleave.         *)
THEOREM NoForks == Spec => []ChainsDoNotFork
<1>1. IInv => ChainsDoNotFork
    BY DEF IInv
<1> QED
    BY <1>1, SessionsAreSound, PTL

(* The janitor is never stopped by the foreign key of replaced_by: a row is *)
(* spent no earlier than the row it was exchanged for, whatever the         *)
(* lifetimes and however long revoked rows are retained.                    *)
THEOREM SweepGoesThrough == Spec => []SweepIsNeverRefused
<1>1. IInv => SweepIsNeverRefused
  <2> SUFFICES ASSUME IInv, NEW t \in Tokens, Stored(t), ~Spent(t),
                      tokens[t].replacedBy \in Tokens, Spent(tokens[t].replacedBy)
               PROVE  FALSE
      BY DEF SweepIsNeverRefused, ForeignKeyHolds
  <2> DEFINE n == tokens[t].replacedBy
  <2>1. Stored(n) /\ n # Null
      BY RowFacts DEF Spent
  <2>2. /\ tokens[t].revokedAt # Null
        /\ tokens[t].expiresAt <= tokens[n].expiresAt
        /\ tokens[n].revokedAt # Null => tokens[t].revokedAt <= tokens[n].revokedAt
      BY <2>1 DEF IInv, InOrder
  <2>3. /\ tokens[t].expiresAt \in Nat /\ tokens[n].expiresAt \in Nat
        /\ tokens[t].revokedAt \in Nat /\ now \in Nat /\ RetainRevoked \in Nat
        /\ tokens[n].revokedAt # Null => tokens[n].revokedAt \in Nat
      BY <2>1, <2>2, RowFacts, Clock
  <2> HIDE DEF n
  <2>4. Spent(n)
      BY DEF n
  <2> QED
      BY <2>1, <2>2, <2>3, <2>4 DEF Spent
<1> QED
    BY <1>1, SessionsAreSound, PTL

(* A change of password ends every session there was when it began, and     *)
(* every exchange of one: what outlives it was stored while the password was*)
(* being written or by a login that had checked the one before, or goes back*)
(* to such a session.                                                       *)
THEOREM PasswordsEndSessions == Spec => []OnlyARaceOutlivesThePassword
<1>1. IInv => OnlyARaceOutlivesThePassword
    BY DEF IInv
<1> QED
    BY <1>1, SessionsAreSound, PTL

=============================================================================
