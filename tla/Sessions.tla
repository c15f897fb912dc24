------------------------------ MODULE Sessions ------------------------------
(***************************************************************************)
(* Accounts, refresh tokens and password resets.                           *)
(*                                                                         *)
(* The clients are tabs of one browser: they share its cookie jar, and     *)
(* each keeps an access token of its own.  Their requests run as the code  *)
(* does: credentials are read first, the password is hashed, transactions  *)
(* follow one by one, each of them a separate step.  The two transactions  *)
(* that contend for token rows, RotateRefreshToken and UpdatePassword, are *)
(* split where they wait for a row lock, because at READ COMMITTED an      *)
(* UPDATE only touches rows its snapshot saw.                              *)
(***************************************************************************)
EXTENDS Integers, FiniteSets

CONSTANTS
    Users, Clients, Passwords, Tokens, Links, Null,
    RefreshTTL,        \* life of a refresh token
    AccessTTL,         \* life of an access token
    PasswordResetTTL,  \* life of a reset link
    RetainRevoked,     \* how long a revoked row is kept
    MaxNow             \* bound on the clock

ASSUME TTLAssumption ==
    /\ {RefreshTTL, AccessTTL, PasswordResetTTL} \subseteq Nat \ {0}
    /\ RetainRevoked \in Nat /\ MaxNow \in Nat

VARIABLES
    users,   \* users: the hash, as the password that opens it and its strength
    tokens,  \* refresh_tokens
    minted,  \* every token ever issued; a deleted row's digest never returns
    links,   \* verification_tokens for password_reset
    jar,     \* the refresh cookie of the browser
    access,  \* the access token of each tab: whose, and until when
    req,     \* the request each tab is waiting for
    now

vars == <<users, tokens, minted, links, jar, access, req, now>>

Time == 0 .. MaxNow + RefreshTTL + AccessTTL + PasswordResetTTL

User == [registered : BOOLEAN, password : Passwords \cup {Null}, weak : BOOLEAN]

(* `from` and `was` are history.  `from` is the token this one was exchanged*)
(* for.  `was` says what a password written since has found: "ended", the   *)
(* session was there before that UpdatePassword began; "raced", its row was *)
(* stored while the password was being written, or later by a login that had*)
(* checked the password before; else "current".  An exchange passes it on.  *)
Past == {"current", "ended", "raced"}
Token == [user : Users, expiresAt : Time, revokedAt : Time \cup {Null},
          replacedBy : Tokens \cup {Null}, from : Tokens \cup {Null},
          was : Past]

ASSUME NullAssumption == Null \notin Tokens \cup Users \cup Passwords \cup Nat \cup Token

Link == [user : Users, expiresAt : Time, consumed : BOOLEAN]

(* issuing: the password matched, the session is not stored yet.            *)
(* hashing: a new hash is ready, UpdatePassword has not begun.              *)
(* updating: it holds the users row and waits for the tokens it has seen;   *)
(*           `before` is history, the rows there were when it began.        *)
(* refreshing: sent with the cookie `token`, not looked at yet.             *)
(* rotating: RotateRefreshToken holds the row of `token`.                   *)
(* replying: all is committed, the response is on its way.                  *)
(* `raced`, history too: the password it checked has been replaced.         *)
Op == {"idle", "issuing", "hashing", "updating", "refreshing", "rotating",
       "replying"}
Request == [op : Op, user : Users \cup {Null}, password : Passwords \cup {Null},
            token : Tokens \cup {Null}, seen : SUBSET Tokens,
            before : SUBSET Tokens, raced : BOOLEAN,
            then : {"idle", "issuing", "replying"}]

Idle == [op |-> "idle", user |-> Null, password |-> Null, token |-> Null,
         seen |-> {}, before |-> {}, raced |-> FALSE, then |-> "idle"]

(* A stored hash is weak when a release has raised the Argon2 parameters.  *)
Init ==
    /\ users \in [Users -> [registered : {TRUE}, password : Passwords, weak : BOOLEAN]
                           \cup {[registered |-> FALSE, password |-> Null, weak |-> FALSE]}]
    /\ tokens = [t \in Tokens |-> Null]
    /\ minted = {}
    /\ links = [l \in Links |-> Null]
    /\ jar = Null
    /\ access = [c \in Clients |-> Null]
    /\ req = [c \in Clients |-> Idle]
    /\ now = 0

-----------------------------------------------------------------------------
(* platform/token: hashes and the two kinds of token. *)

VerifyPassword(p, u) == users[u].password = p
NeedsRehash(u) == users[u].weak
HashPassword(p) == [registered |-> TRUE, password |-> p, weak |-> FALSE]
NewRefreshToken == Tokens \ minted
AccessToken(u) == [user |-> u, expiresAt |-> now + AccessTTL]
Verify(a) == a # Null /\ a.expiresAt > now

-----------------------------------------------------------------------------
(* SessionRepo and UserRepo. *)

Stored(t) == tokens[t] # Null
Live(t) == Stored(t) /\ tokens[t].revokedAt = Null
TokensOf(u) == {t \in Tokens : Stored(t) /\ tokens[t].user = u}

RowLocked(t) == \E c \in Clients : req[c].op = "rotating" /\ req[c].token = t
UserLocked(u) == \E c \in Clients : req[c].op = "updating" /\ req[c].user = u

(* The row StoreRefreshToken inserts. *)
NewRow(u, parent, past) ==
    [user |-> u, expiresAt |-> now + RefreshTTL, revokedAt |-> Null,
     replacedBy |-> Null, from |-> parent, was |-> past]

StoreRefreshToken(t, u, past) ==
    /\ tokens' = [tokens EXCEPT ![t] = NewRow(u, Null, past)]
    /\ minted' = minted \cup {t}

(* What RotateRefreshToken accepts once it has the row. *)
Rotatable(t) == Live(t) /\ tokens[t].expiresAt > now

(* The insert and the update of RotateRefreshToken. *)
Exchange(old, new) ==
    /\ tokens' = [tokens EXCEPT
          ![new] = NewRow(tokens[old].user, old, tokens[old].was),
          ![old].revokedAt = now,
          ![old].replacedBy = new]
    /\ minted' = minted \cup {new}

(* A definition named Bug... is a later one with a plausible fault in it.   *)
(* Nothing uses them: they record what each property is able to catch.      *)
RevokeRefreshToken(t) ==
    tokens' = [tokens EXCEPT ![t] = IF Live(t) THEN [@ EXCEPT !.revokedAt = now] ELSE @]

(* UpdatePassword: the users row is locked and written, then the UPDATE of  *)
(* refresh_tokens takes its snapshot ...                                    *)
SeenByUpdate(u) == {t \in TokensOf(u) : Live(t)}

(* ... and writes the rows it saw, each once no rotation holds it.          *)
BugAfterUpdate(r) ==
    [t \in Tokens |->
        IF t \notin TokensOf(r.user) THEN tokens[t]
        ELSE [tokens[t] EXCEPT !.was = IF t \in r.before THEN "ended" ELSE "raced"]]

AfterUpdate(r) ==
    [t \in Tokens |->
        IF t \notin TokensOf(r.user) THEN tokens[t]
        ELSE [tokens[t] EXCEPT !.was = IF t \in r.before THEN "ended" ELSE "raced",
                               !.revokedAt = IF t \in r.seen /\ @ = Null THEN now ELSE @]]

BugSpent(t) ==
    /\ Stored(t)
    /\ \/ tokens[t].expiresAt < now
       \/ /\ tokens[t].revokedAt # Null
          /\ \/ tokens[t].replacedBy = Null
             \/ tokens[t].revokedAt + RetainRevoked < now

Spent(t) ==
    /\ Stored(t)
    /\ \/ tokens[t].expiresAt < now
       \/ tokens[t].revokedAt # Null /\ tokens[t].revokedAt + RetainRevoked < now

(* replaced_by is a foreign key without an ON DELETE action: deleting a row *)
(* that a row left behind points to fails the whole statement.              *)
ForeignKeyHolds(deleted) ==
    \A t \in Tokens \ deleted : Stored(t) => tokens[t].replacedBy \notin deleted

DeleteExpiredTokens ==
    LET spent == {t \in Tokens : Spent(t)} IN
        /\ spent # {}
        /\ \A t \in spent : ~RowLocked(t)
        /\ ForeignKeyHolds(spent)
        /\ tokens' = [t \in Tokens |-> IF t \in spent THEN Null ELSE tokens[t]]
        /\ UNCHANGED <<users, minted, links, jar, access, req, now>>

StoreVerificationToken(l, u) ==
    links' = [k \in Links |->
        IF k = l THEN [user |-> u, expiresAt |-> now + PasswordResetTTL, consumed |-> FALSE]
        ELSE IF links[k] # Null /\ links[k].user = u
             THEN [links[k] EXCEPT !.consumed = TRUE]
        ELSE links[k]]

ConsumeVerificationToken(l) ==
    /\ links[l] # Null /\ ~links[l].consumed /\ links[l].expiresAt > now
    /\ links' = [links EXCEPT ![l].consumed = TRUE]

-----------------------------------------------------------------------------
(* AuthService.  A refusal that changes nothing is no step. *)

Ready(c) == req[c].op = "idle"
Goto(c, r) == req' = [req EXCEPT ![c] = r]

(* The account is committed before the session is stored. *)
Register(c, u, p) ==
    /\ ~users[u].registered
    /\ users' = [users EXCEPT ![u] = HashPassword(p)]
    /\ Goto(c, [Idle EXCEPT !.op = "issuing", !.user = u])
    /\ UNCHANGED <<tokens, minted, links, jar, access, now>>

(* The password is checked against the hash as it is now; a weak hash is    *)
(* replaced by a strong one of the password just typed, later.              *)
Login(c, u, p) ==
    /\ users[u].registered /\ VerifyPassword(p, u)
    /\ Goto(c, IF NeedsRehash(u)
               THEN [Idle EXCEPT !.op = "hashing", !.user = u, !.password = p,
                                 !.then = "issuing"]
               ELSE [Idle EXCEPT !.op = "issuing", !.user = u])
    /\ UNCHANGED <<users, tokens, minted, links, jar, access, now>>

issueSession(c) ==
    /\ req[c].op = "issuing"
    /\ \E t \in NewRefreshToken :
          /\ StoreRefreshToken(t, req[c].user, IF req[c].raced THEN "raced" ELSE "current")
          /\ Goto(c, [Idle EXCEPT !.op = "replying", !.user = req[c].user, !.token = t])
    /\ UNCHANGED <<users, links, jar, access, now>>

Authenticate(c) == Verify(access[c])

BeginPasswordReset(u, l) ==
    /\ users[u].registered /\ links[l] = Null
    /\ StoreVerificationToken(l, u)
    /\ UNCHANGED <<users, tokens, minted, jar, access, req, now>>

(* The link is burnt in a transaction of its own, before the hash is made.  *)
CompletePasswordReset(c, l, p) ==
    /\ ConsumeVerificationToken(l)
    /\ Goto(c, [Idle EXCEPT !.op = "hashing", !.user = links[l].user, !.password = p])
    /\ UNCHANGED <<users, tokens, minted, jar, access, now>>

ChangePassword(c, u, current, p) ==
    /\ VerifyPassword(current, u)
    /\ Goto(c, [Idle EXCEPT !.op = "hashing", !.user = u, !.password = p,
                            !.then = "replying"])
    /\ UNCHANGED <<users, tokens, minted, links, jar, access, now>>

BeginUpdatePassword(c) ==
    /\ req[c].op = "hashing"
    /\ ~UserLocked(req[c].user)
    /\ Goto(c, [req[c] EXCEPT !.op = "updating", !.seen = SeenByUpdate(req[c].user),
                               !.before = TokensOf(req[c].user)])
    /\ UNCHANGED <<users, tokens, minted, links, jar, access, now>>

(* What the request goes on to do once UpdatePassword is over. *)
Continue(r) == IF r.then = "idle" THEN Idle
               ELSE [Idle EXCEPT !.op = r.then, !.user = r.user, !.raced = r.raced]

(* The logins, and registrations, of u that have yet to store their session *)
(* rest on a password that is no more; not the one that wrote this password.*)
AfterCheck(c, u) ==
    [d \in Clients |->
        IF d = c THEN Continue([req[c] EXCEPT !.raced = FALSE])
        ELSE IF req[d].user = u /\ "issuing" \in {req[d].op, req[d].then}
             THEN [req[d] EXCEPT !.raced = TRUE]
        ELSE req[d]]

UpdatePassword(c) ==
    LET r == req[c] IN
        /\ r.op = "updating"
        /\ \A t \in r.seen : ~RowLocked(t)
        /\ users' = [users EXCEPT ![r.user] = HashPassword(r.password)]
        /\ tokens' = AfterUpdate(r)
        /\ req' = AfterCheck(c, r.user)
        /\ UNCHANGED <<minted, links, jar, access, now>>

(* Failing to upgrade a hash must not fail the login. *)
RehashFails(c) ==
    /\ req[c].op \in {"hashing", "updating"} /\ req[c].then = "issuing"
    /\ Goto(c, Continue(req[c]))
    /\ UNCHANGED <<users, tokens, minted, links, jar, access, now>>

Refresh(c, t) ==
    /\ Goto(c, [Idle EXCEPT !.op = "refreshing", !.token = t])
    /\ UNCHANGED <<users, tokens, minted, links, jar, access, now>>

BugRotateLock(c) ==
    LET t == req[c].token IN
        /\ req[c].op = "refreshing" /\ Rotatable(t)
        /\ Goto(c, [req[c] EXCEPT !.op = "rotating", !.user = tokens[t].user])
        /\ UNCHANGED <<users, tokens, minted, links, jar, access, now>>

(* SELECT ... FOR UPDATE of RotateRefreshToken, and the checks behind it.   *)
RotateLock(c) ==
    LET t == req[c].token IN
        /\ req[c].op = "refreshing" /\ ~RowLocked(t) /\ Rotatable(t)
        /\ Goto(c, [req[c] EXCEPT !.op = "rotating", !.user = tokens[t].user])
        /\ UNCHANGED <<users, tokens, minted, links, jar, access, now>>

RotateRefreshToken(c) ==
    /\ req[c].op = "rotating"
    /\ \E new \in NewRefreshToken :
          /\ Exchange(req[c].token, new)
          /\ Goto(c, [Idle EXCEPT !.op = "replying", !.user = req[c].user, !.token = new])
    /\ UNCHANGED <<users, links, jar, access, now>>

-----------------------------------------------------------------------------
(* The handlers, and what they do to the cookie. *)

readRefreshToken == jar
clearRefreshCookie == jar' = Null

handleRegister(c) == Ready(c) /\ \E u \in Users, p \in Passwords : Register(c, u, p)
handleLogin(c) == Ready(c) /\ \E u \in Users, p \in Passwords : Login(c, u, p)

handleRefresh(c) ==
    Ready(c) /\ readRefreshToken # Null /\ Refresh(c, readRefreshToken)

(* A token that is unknown, expired or already exchanged.  For one already  *)
(* exchanged the transaction revokes every session of the user, and then    *)
(* returns an error, on which InTx rolls it back: no row has changed.       *)
RefuseRefresh(c) ==
    /\ req[c].op = "refreshing"
    /\ ~RowLocked(req[c].token) /\ ~Rotatable(req[c].token)
    /\ clearRefreshCookie
    /\ Goto(c, Idle)
    /\ UNCHANGED <<users, tokens, minted, links, access, now>>

(* Any other error of the transaction is answered in the same way. *)
FailRefresh(c) ==
    /\ req[c].op = "rotating"
    /\ clearRefreshCookie
    /\ Goto(c, Idle)
    /\ UNCHANGED <<users, tokens, minted, links, access, now>>

handleLogout(c) ==
    /\ Ready(c) /\ readRefreshToken # Null /\ ~RowLocked(readRefreshToken)
    /\ RevokeRefreshToken(readRefreshToken)
    /\ clearRefreshCookie
    /\ UNCHANGED <<users, minted, links, access, req, now>>

handlePasswordForgot == \E u \in Users, l \in Links : BeginPasswordReset(u, l)

handlePasswordReset(c) ==
    Ready(c) /\ \E l \in Links, p \in Passwords : CompletePasswordReset(c, l, p)

handlePasswordChange(c) ==
    /\ Ready(c) /\ Authenticate(c)
    /\ \E current, p \in Passwords : ChangePassword(c, access[c].user, current, p)

(* A session, or for a password change the emptied cookie, is written back. *)
writeSession(c) ==
    /\ req[c].op = "replying"
    /\ jar' = req[c].token
    /\ access' = [access EXCEPT ![c] =
                     IF req[c].token = Null THEN @ ELSE AccessToken(req[c].user)]
    /\ Goto(c, Idle)
    /\ UNCHANGED <<users, tokens, minted, links, now>>

(* The request runs out of time, or its connection breaks: what is open is  *)
(* rolled back, what is committed stays, and the browser learns nothing.    *)
withTimeout(c) ==
    /\ ~Ready(c)
    /\ Goto(c, Idle)
    /\ UNCHANGED <<users, tokens, minted, links, jar, access, now>>

(* A request is short beside the lives of tokens, which are hours and days. *)
(* A lapsed access token is as good as none.                                *)
Tick ==
    /\ now < MaxNow
    /\ \A c \in Clients : Ready(c)
    /\ now' = now + 1
    /\ access' = [c \in Clients |->
          IF access[c] # Null /\ access[c].expiresAt <= now' THEN Null ELSE access[c]]
    /\ UNCHANGED <<users, tokens, minted, links, jar, req>>

Step(c) ==
    \/ handleRegister(c) \/ handleLogin(c) \/ issueSession(c)
    \/ handleRefresh(c) \/ RotateLock(c) \/ RotateRefreshToken(c)
    \/ RefuseRefresh(c) \/ FailRefresh(c)
    \/ handleLogout(c) \/ handlePasswordReset(c) \/ handlePasswordChange(c)
    \/ BeginUpdatePassword(c) \/ UpdatePassword(c) \/ RehashFails(c)
    \/ writeSession(c) \/ withTimeout(c)

Next ==
    \/ \E c \in Clients : Step(c)
    \/ handlePasswordForgot \/ DeleteExpiredTokens \/ Tick

Spec == Init /\ [][Next]_vars

-----------------------------------------------------------------------------
(* Properties. *)

(* Types: the rows, cookies and requests the code can build. *)
TypeOK ==
    /\ users \in [Users -> User]
    /\ tokens \in [Tokens -> Token \cup {Null}]
    /\ minted \in SUBSET Tokens
    /\ links \in [Links -> Link \cup {Null}]
    /\ jar \in Tokens \cup {Null}
    /\ access \in [Clients -> [user : Users, expiresAt : Time] \cup {Null}]
    /\ req \in [Clients -> Request]
    /\ now \in 0 .. MaxNow

(* Rotation is single use (RotateRefreshToken): however refreshes, retries  *)
(* and lost replies interleave, a token is exchanged for one successor at   *)
(* most, and while both rows exist the old one is revoked and names it.     *)
ChainsDoNotFork ==
    \A new, old \in Tokens :
        (Stored(new) /\ Stored(old) /\ tokens[new].from = old) =>
            /\ tokens[old].revokedAt # Null
            /\ tokens[old].replacedBy = new

(* The janitor's delete (DeleteExpiredTokens) never runs into the foreign   *)
(* key of replaced_by: by the time a row may go, so may the row it replaced. *)
SweepIsNeverRefused == ForeignKeyHolds({t \in Tokens : Spent(t)})

(* UpdatePassword ends the sessions of the account, with the exchanges they *)
(* were put to meanwhile: a session that outlives a change of password was  *)
(* stored while it was being written, or by a login that had checked the    *)
(* password before, or goes back to one that was.  (Said of UpdatePassword  *)
(* without the exception.)                                                  *)
OnlyARaceOutlivesThePassword ==
    \A t \in Tokens : Live(t) => tokens[t].was # "ended"

(* What the comment of RotateRefreshToken says: presenting a token that was *)
(* already exchanged revokes every session of the user.                     *)
ReuseEndsEverySession ==
    [][\A c \in Clients : LET old == req[c].token IN
          (RefuseRefresh(c) /\ Stored(old) /\ tokens[old].replacedBy # Null) =>
              \A t \in TokensOf(tokens[old].user) : tokens'[t].revokedAt # Null]_vars
=============================================================================
