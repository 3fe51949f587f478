------------------------------- MODULE SignIn -------------------------------
(***************************************************************************)
(* Signing in and out: the session rows of security/sessions.py, the login *)
(* transactions of the OIDC routes, the cookies of one browser and the     *)
(* client in its one open page (services/auth.ts, services/api.ts,         *)
(* router.ts).  A second page that shares the cookies is not modelled.     *)
(*                                                                         *)
(* A call is one HTTP request with the cookies it was sent with.  Between  *)
(* two commits other calls move, the server may break off, the client may  *)
(* give up, and responses arrive in any order; their cookies come into the *)
(* browser before the page acts on them.  The rate limiter answers         *)
(* anything here (RateLimiter has its rules), passwords are right or wrong,*)
(* and the identity provider is external: its codes are good once.         *)
(***************************************************************************)
EXTENDS Naturals, FiniteSets

CONSTANTS
  Users,        \* accounts of the tenant
  Tokens,       \* session tokens that may be issued
  Logins,       \* OIDC login transactions that may begin
  Calls,        \* requests in flight
  None,         \* no user, token or transaction
  Ttl,          \* session_ttl_seconds, in ticks
  LoginWindow,  \* the ten minutes of a login transaction, in ticks
  MaxTime       \* bound on the clock

ASSUME SignInAssumption ==
  /\ None \notin Users \cup Tokens \cup Logins
  /\ Ttl \in Nat \ {0}
  /\ LoginWindow \in Nat \ {0}
  /\ MaxTime \in Nat

VARIABLES
  provider,   \* settings.auth_provider
  now,        \* the clock
  active,     \* users that are active (is_active and account_status)
  sessions,   \* user_sessions rows by token
  audited,    \* sessions whose login has its audit event
  logins,     \* oidc_login_transactions rows
  codes,      \* what the identity provider knows of each login
  bearer,     \* the development token issued, if any
  jar,        \* cookies of the browser
  client,     \* state of the single-page client
  call        \* requests

server == <<sessions, audited, logins, codes, bearer>>
browser == <<jar, client>>
world == <<provider, now, active>>
vars == <<provider, now, active, sessions, audited, logins, codes, bearer, jar, client, call>>

-----------------------------------------------------------------------------
(* Values *)

NoUser == {None} \cup Users

\* A row of user_sessions; NoRow is a token that was not issued.
Row == [user : NoUser, expires : Nat, revoked : BOOLEAN]
NoRow == [user |-> None, expires |-> 0, revoked |-> FALSE]

\* A row of oidc_login_transactions.
LoginRow == [state : {"none", "open", "consumed"}, expires : Nat]

Code == [state : {"none", "issued", "used"}, user : NoUser]

BearerToken == [user : NoUser, expires : Nat]

Cookies == [session : {None} \cup Tokens, binding : {None} \cup Logins]

\* What auth.ts holds, and the page: "boot" before the first navigation is
\* decided, "away" while the browser is at the identity provider.  "late" is
\* history: the cookie of the sign-in was gone when the page came to show it.
ClientState ==
  [shown : NoUser, initialized : BOOLEAN, page : {"boot", "sign-in", "app", "away"},
   late : BOOLEAN]

\* A page that is loaded.
Booting == [shown |-> None, initialized |-> FALSE, page |-> "boot", late |-> FALSE]

Kind == {"login", "init", "api", "logout", "start", "callback", "bearer"}

Pc == {"idle", "auth", "issue", "audit", "verify", "seen", "revoke", "begin", "read",
       "consume", "exchange", "map", "reply", "taken"}

Outcome == {"none", "ok", "unauthorized", "forbidden", "limited", "failed"}

\* One request: "attached" while the client waits for it, "copy" the session
\* row it has read, "dead" and "replay" what was true when it was sent.
Request ==
  [kind : Kind, pc : Pc, user : NoUser, token : {None} \cup Tokens,
   login : {None} \cup Logins, binding : {None} \cup Logins, copy : Row,
   attached : BOOLEAN, dead : BOOLEAN, replay : BOOLEAN, outcome : Outcome]

NoCall ==
  [kind |-> "api", pc |-> "idle", user |-> None, token |-> None, login |-> None,
   binding |-> None, copy |-> NoRow, attached |-> FALSE, dead |-> FALSE, replay |-> FALSE,
   outcome |-> "none"]

-----------------------------------------------------------------------------
(* The database and the browser as the handlers see them *)

Expired(expires, time) == expires <= time

\* _expired, revoked_at and the account checks of verify.
Usable(row, time) ==
  /\ row.user # None
  /\ ~row.revoked
  /\ ~Expired(row.expires, time)
  /\ row.user \in active

\* Mutant of AfterSeen: the update writes all columns back.
RowAsRead(row, copy) == copy

\* The row after verify has stored last_seen_at: the update names that
\* column only, whatever was read before.
AfterSeen(row, copy) == row

\* Mutant of AfterConsume: consumed_at is set and not committed.
ConsumeUnsaved(row) == row

\* The transaction after the callback has stored consumed_at.
AfterConsume(row) == [row EXCEPT !.state = "consumed"]

Unissued == {t \in Tokens : sessions[t] = NoRow}

InFlight(kind) == {c \in Calls : call[c].kind = kind /\ call[c].pc # "idle"}

Goto(c, p) == call' = [call EXCEPT ![c] = [@ EXCEPT !.pc = p]]

\* The answer goes to the client that waits for it, or nowhere.
Reply(c, o) ==
  call' = [call EXCEPT ![c] =
             IF @.attached
             THEN [@ EXCEPT !.pc = "reply", !.outcome = o, !.copy = NoRow]
             ELSE NoCall]

\* Answered: "taken" when the browser has the cookies of the answer already.
Answered == {"reply", "taken"}

\* A request whose page is gone goes on alone; an answer on its way is lost.
Alone(req) ==
  IF req.pc \in {"idle"} \cup Answered THEN NoCall ELSE [req EXCEPT !.attached = FALSE]

Detached == [c \in Calls |-> Alone(call[c])]

TypeOK ==
  /\ provider \in {"local", "oidc"}
  /\ now \in 0 .. MaxTime
  /\ active \subseteq Users
  /\ sessions \in [Tokens -> Row]
  /\ audited \subseteq Tokens
  /\ logins \in [Logins -> LoginRow]
  /\ codes \in [Logins -> Code]
  /\ bearer \in BearerToken
  /\ jar \in Cookies
  /\ client \in ClientState
  /\ call \in [Calls -> Request]

Init ==
  /\ provider \in {"local", "oidc"}
  /\ now = 0
  /\ active = Users
  /\ sessions = [t \in Tokens |-> NoRow]
  /\ audited = {}
  /\ logins = [l \in Logins |-> [state |-> "none", expires |-> 0]]
  /\ codes = [l \in Logins |-> [state |-> "none", user |-> None]]
  /\ bearer = [user |-> None, expires |-> 0]
  /\ jar = [session |-> None, binding |-> None]
  /\ client = Booting
  /\ call = [c \in Calls |-> NoCall]

-----------------------------------------------------------------------------
(* The client sends *)

\* A free call starts as req, one step into its handler.
Send(c, req) ==
  /\ call[c].pc = "idle"
  /\ call' = [call EXCEPT ![c] = req]

New(kind, p) == [NoCall EXCEPT !.kind = kind, !.pc = p, !.attached = TRUE]

\* A request that carries the session cookie.
WithCookie(kind, p) ==
  LET t == jar.session
  IN [New(kind, p) EXCEPT !.token = t,
                          !.dead = (t = None \/ ~Usable(sessions[t], now))]

\* signIn: one submission at a time, from the sign-in page.
SendLogin(c, u) ==
  /\ provider = "local"
  /\ client.page = "sign-in"
  /\ client.shown = None
  /\ InFlight("login") = {}
  /\ Send(c, [New("login", "auth") EXCEPT !.user = u])
  /\ UNCHANGED <<world, server, browser>>

\* initializeSession: the one request every navigation waits for.
SendInit(c) ==
  /\ client.page = "boot"
  /\ ~client.initialized
  /\ ~\E d \in InFlight("init") : call[d].attached
  /\ Send(c, WithCookie("init", "verify"))
  /\ UNCHANGED <<world, server, browser>>

\* api: a request of a protected page.
SendApi(c) ==
  /\ client.page = "app"
  /\ Send(c, WithCookie("api", "verify"))
  /\ UNCHANGED <<world, server, browser>>

\* signOut: the button is in the shell, which shows with a session only.
SendLogout(c) ==
  /\ client.page = "app"
  /\ client.shown # None
  /\ ~\E d \in InFlight("logout") : call[d].attached
  /\ Send(c, WithCookie("logout", "revoke"))
  /\ UNCHANGED <<world, server, browser>>

\* The browser leaves for the enterprise sign-in.
SendStart(c) ==
  /\ provider = "oidc"
  /\ client.page = "sign-in"
  /\ call[c].pc = "idle"
  /\ call' = [Detached EXCEPT ![c] = New("start", "begin")]
  /\ client' = [client EXCEPT !.page = "away", !.shown = None, !.late = FALSE]
  /\ UNCHANGED <<world, server, jar>>

\* The identity provider redirects back, or the browser repeats the
\* callback: the state and the code come from the address, the binding from
\* its cookie.
SendCallback(c, l) ==
  /\ client.page = "away"
  /\ codes[l].state # "none"
  /\ call[c].pc = "idle"
  /\ call' = [Detached EXCEPT ![c] =
                [New("callback", "read") EXCEPT !.login = l, !.binding = jar.binding,
                                                !.replay = (codes[l].state = "used")]]
  /\ UNCHANGED <<world, server, browser>>

\* A development client asks with its bearer token and no cookie.
SendBearer(c) ==
  /\ bearer.user # None
  /\ Send(c, [New("bearer", "verify") EXCEPT
                !.user = bearer.user,
                !.dead = (Expired(bearer.expires, now) \/ bearer.user \notin active)])
  /\ UNCHANGED <<world, server, browser>>

-----------------------------------------------------------------------------
(* The server: local accounts *)

\* enforce_limit may refuse or be unavailable.  Then authenticate: the
\* password is wrong, the account disabled, or neither.  The account is read
\* here and not again before the session is stored.
Authenticate(c) ==
  /\ call[c].pc = "auth"
  /\ \/ \E o \in {"limited", "failed", "unauthorized"} : Reply(c, o)
     \/ call[c].user \notin active /\ Reply(c, "forbidden")
     \/ call[c].user \in active /\ Goto(c, "issue")
  /\ UNCHANGED <<world, server, browser>>

\* issue_for_user: a new row, with a token nobody had.
Issue(c, t) ==
  /\ call[c].pc = "issue"
  /\ t \in Unissued
  /\ sessions' = [sessions EXCEPT ![t] = [user |-> call[c].user, expires |-> now + Ttl,
                                          revoked |-> FALSE]]
  /\ call' = [call EXCEPT ![c] = [@ EXCEPT !.pc = "audit", !.token = t]]
  /\ UNCHANGED <<world, audited, logins, codes, bearer, browser>>

\* Mutant of Audit: the event is added and not committed.
AuditUnsaved(c) ==
  /\ call[c].pc = "audit"
  /\ audited' = audited
  /\ Reply(c, "ok")
  /\ UNCHANGED <<world, sessions, logins, codes, bearer, browser>>

\* The login event is a commit of its own, and comes before the cookie.
Audit(c) ==
  /\ call[c].pc = "audit"
  /\ audited' = audited \cup {call[c].token}
  /\ Reply(c, "ok")
  /\ UNCHANGED <<world, sessions, logins, codes, bearer, browser>>

\* current_actor with a cookie: verify reads the row and the account.
Verify(c) ==
  LET t == call[c].token IN
  /\ call[c].pc = "verify"
  /\ call[c].kind \in {"init", "api"}
  /\ IF t # None /\ Usable(sessions[t], now)
     THEN call' = [call EXCEPT ![c] = [@ EXCEPT !.pc = "seen", !.user = sessions[t].user,
                                                !.copy = sessions[t]]]
     ELSE Reply(c, "unauthorized")
  /\ UNCHANGED <<world, server, browser>>

\* The end of verify: last_seen_at is committed and the handler runs.
Seen(c) ==
  LET t == call[c].token IN
  /\ call[c].pc = "seen"
  /\ sessions' = [sessions EXCEPT ![t] = AfterSeen(sessions[t], call[c].copy)]
  /\ Reply(c, "ok")
  /\ UNCHANGED <<world, audited, logins, codes, bearer, browser>>

\* revoke: a row that is already revoked, and no cookie, are left alone.
Revoke(c) ==
  LET t == call[c].token IN
  /\ call[c].pc = "revoke"
  /\ sessions' = IF t = None THEN sessions
                 ELSE [sessions EXCEPT ![t].revoked = TRUE]
  /\ Reply(c, "ok")
  /\ UNCHANGED <<world, audited, logins, codes, bearer, browser>>

\* dev_session: a signed token, not a row; only time and the account end it.
IssueBearer(u) ==
  /\ provider = "local"
  /\ u \in active
  /\ bearer.user = None
  /\ bearer' = [user |-> u, expires |-> now + Ttl]
  /\ UNCHANGED <<world, sessions, audited, logins, codes, browser, call>>

\* current_actor with a bearer token: the signature, exp and the account.
VerifyBearer(c) ==
  /\ call[c].pc = "verify"
  /\ call[c].kind = "bearer"
  /\ IF ~Expired(bearer.expires, now) /\ bearer.user \in active
     THEN Reply(c, "ok")
     ELSE Reply(c, "unauthorized")
  /\ UNCHANGED <<world, server, browser>>

-----------------------------------------------------------------------------
(* The server: enterprise sign-in *)

\* oidc_start: the limiter refuses, or the transaction is stored and the
\* provider asked where to go, which may fail and leaves the row.
Begin(c) ==
  /\ call[c].pc = "begin"
  /\ \/ /\ \E o \in {"limited", "failed"} : Reply(c, o)
        /\ logins' = logins
     \/ \E l \in Logins, o \in {"ok", "unauthorized"} :
          /\ logins[l].state = "none"
          /\ logins' = [logins EXCEPT ![l] = [state |-> "open", expires |-> now + LoginWindow]]
          /\ call' = [call EXCEPT ![c] =
                        IF @.attached
                        THEN [@ EXCEPT !.pc = "reply", !.outcome = o, !.login = l]
                        ELSE NoCall]
  /\ UNCHANGED <<world, sessions, audited, codes, bearer, browser>>

\* oidc_callback: an open transaction of this browser that is not too old.
ReadLogin(c) ==
  LET l == call[c].login IN
  /\ call[c].pc = "read"
  /\ IF /\ logins[l].state = "open"
        /\ call[c].binding = l
        /\ ~Expired(logins[l].expires, now)
     THEN Goto(c, "consume")
     ELSE Reply(c, "unauthorized")
  /\ UNCHANGED <<world, server, browser>>

\* The transaction is consumed and committed before the code is exchanged,
\* whatever another callback has done to the row since it was read.
Consume(c) ==
  LET l == call[c].login IN
  /\ call[c].pc = "consume"
  /\ logins' = [logins EXCEPT ![l] = AfterConsume(@)]
  /\ Goto(c, "exchange")
  /\ UNCHANGED <<world, sessions, audited, codes, bearer, browser>>

\* exchange: the provider takes a code once; its answer, the token and the
\* nonce may also be refused.
Exchange(c) ==
  LET l == call[c].login IN
  /\ call[c].pc = "exchange"
  /\ codes' = [codes EXCEPT ![l].state = "used"]
  /\ \/ /\ codes[l].state = "issued"
        /\ call' = [call EXCEPT ![c] = [@ EXCEPT !.pc = "map", !.user = codes[l].user]]
     \/ Reply(c, "unauthorized")
  /\ UNCHANGED <<world, sessions, audited, logins, bearer, browser>>

\* get_by_subject: the external subject must be an active user.
MapUser(c) ==
  /\ call[c].pc = "map"
  /\ IF call[c].user \in active THEN Goto(c, "issue") ELSE Reply(c, "unauthorized")
  /\ UNCHANGED <<world, server, browser>>

\* A handler breaks off: the process ends or the database refuses.
Break(c) ==
  /\ call[c].pc \notin {"idle"} \cup Answered
  /\ Reply(c, "failed")
  /\ UNCHANGED <<world, server, browser>>

-----------------------------------------------------------------------------
(* The client receives *)

\* setSession and clearSession.
SetSession(u) == [client EXCEPT !.shown = u, !.initialized = TRUE, !.late = FALSE]

\* Mutant of ClearSession: the session stays on the screen.
ClearInitializedOnly == [client EXCEPT !.initialized = TRUE]

ClearSession == [client EXCEPT !.shown = None, !.initialized = TRUE, !.late = FALSE]

\* The answers that change the session cookie while the page stays.
ChangesCookie(req) == req.kind \in {"login", "logout"} /\ req.outcome = "ok"

\* The browser takes the cookie when the headers arrive; the page has the
\* answer later, and a login has to read its body first.
TakeCookie(c) ==
  /\ call[c].pc = "reply"
  /\ ChangesCookie(call[c])
  /\ jar' = [jar EXCEPT !.session = IF call[c].kind = "login" THEN call[c].token ELSE None]
  /\ Goto(c, "taken")
  /\ UNCHANGED <<world, server, client>>

\* The answer of a request the page still waits for.
Receives(c, kinds) ==
  /\ call[c].pc = IF ChangesCookie(call[c]) THEN "taken" ELSE "reply"
  /\ call[c].attached
  /\ call[c].kind \in kinds

Done(c) == call' = [call EXCEPT ![c] = NoCall]

\* signIn: the session is shown, the dashboard opened; a 401 clears the
\* session like every other.
ReceiveLogin(c) ==
  /\ Receives(c, {"login"})
  /\ \/ /\ call[c].outcome = "ok"
        /\ client' = [SetSession(call[c].user) EXCEPT !.page = "app",
                                                     !.late = (jar.session # call[c].token)]
     \/ /\ call[c].outcome = "unauthorized"
        /\ client' = ClearSession
     \/ /\ call[c].outcome \in {"forbidden", "limited", "failed"}
        /\ UNCHANGED client
  /\ Done(c)
  /\ UNCHANGED <<world, server, jar>>

\* initializeSession: the session is shown or not, and the guard sends the
\* user to the page that goes with it.
ReceiveInit(c) ==
  /\ Receives(c, {"init"})
  /\ client' = IF call[c].outcome = "ok"
               THEN [SetSession(call[c].user) EXCEPT !.page = "app"]
               ELSE [ClearSession EXCEPT !.page = "sign-in"]
  /\ Done(c)
  /\ UNCHANGED <<world, server, jar>>

\* api: any 401 clears the session the client shows, however late it comes.
ReceiveApi(c) ==
  /\ Receives(c, {"api"})
  /\ client' = IF call[c].outcome = "unauthorized" THEN ClearSession ELSE client
  /\ Done(c)
  /\ UNCHANGED <<world, server, jar>>

\* signOut waits for the answer, whichever it is; only a success has deleted
\* the cookie.
ReceiveLogout(c) ==
  /\ Receives(c, {"logout"})
  /\ client' = [ClearSession EXCEPT !.page = "sign-in"]
  /\ Done(c)
  /\ UNCHANGED <<world, server, jar>>

\* The redirect to the identity provider, with the binding cookie.
ReceiveStart(c) ==
  /\ Receives(c, {"start"})
  /\ jar' = IF call[c].outcome = "ok" THEN [jar EXCEPT !.binding = call[c].login] ELSE jar
  /\ Done(c)
  /\ UNCHANGED <<world, server, client>>

\* The redirect home with the session cookie, where the client boots.
ReceiveCallback(c) ==
  /\ Receives(c, {"callback"})
  /\ IF call[c].outcome = "ok"
     THEN /\ jar' = [session |-> call[c].token, binding |-> None]
          /\ client' = Booting
     ELSE UNCHANGED browser
  /\ Done(c)
  /\ UNCHANGED <<world, server>>

ReceiveBearer(c) ==
  /\ Receives(c, {"bearer"})
  /\ Done(c)
  /\ UNCHANGED <<world, server, browser>>

\* The connection fails while the client waits.  initializeSession and
\* signOut end in a finally block; signOut does not leave the page then.
GiveUp(c) ==
  /\ call[c].pc # "idle"
  /\ call[c].attached
  /\ call' = [call EXCEPT ![c] = Alone(@)]
  /\ client' = CASE call[c].kind = "init" -> [ClearSession EXCEPT !.page = "sign-in"]
                 [] call[c].kind = "logout" -> ClearSession
                 [] OTHER -> client
  /\ UNCHANGED <<world, server, jar>>

\* The router guard on the next navigation.
Navigate ==
  /\ client.page = IF client.shown = None THEN "app" ELSE "sign-in"
  /\ client' = [client EXCEPT !.page = IF client.shown = None THEN "sign-in" ELSE "app"]
  /\ UNCHANGED <<world, server, jar, call>>

\* The page is loaded again.
Reload ==
  /\ client.page # "boot"
  /\ client' = Booting
  /\ call' = Detached
  /\ UNCHANGED <<world, server, jar>>

-----------------------------------------------------------------------------
(* Around it *)

\* The user signs in at the identity provider.
Authorize(l, u) ==
  /\ client.page = "away"
  /\ jar.binding = l
  /\ codes[l].state = "none"
  /\ codes' = [codes EXCEPT ![l] = [state |-> "issued", user |-> u]]
  /\ UNCHANGED <<world, sessions, audited, logins, bearer, browser, call>>

\* An operator disables an account: is_active and account_status move
\* together, as in the seed.  verify reads both, the bearer path is_active.
Disable(u) ==
  /\ active' = active \ {u}
  /\ UNCHANGED <<provider, now, server, browser, call>>

\* Time passes, and the browser drops the cookies that are too old.
Tick ==
  /\ now < MaxTime
  /\ now' = now + 1
  /\ jar' = [session |-> IF jar.session # None /\ Expired(sessions[jar.session].expires, now + 1)
                         THEN None ELSE jar.session,
             binding |-> IF jar.binding # None /\ Expired(logins[jar.binding].expires, now + 1)
                         THEN None ELSE jar.binding]
  /\ UNCHANGED <<provider, active, server, client, call>>

Server(c) ==
  \/ Authenticate(c) \/ Audit(c) \/ Verify(c) \/ Seen(c) \/ Revoke(c)
  \/ \E t \in Tokens : Issue(c, t)
  \/ VerifyBearer(c)
  \/ Begin(c) \/ ReadLogin(c) \/ Consume(c) \/ Exchange(c) \/ MapUser(c)
  \/ Break(c)

Sends(c) ==
  \/ \E u \in Users : SendLogin(c, u)
  \/ SendInit(c) \/ SendApi(c) \/ SendLogout(c) \/ SendStart(c) \/ SendBearer(c)
  \/ \E l \in Logins : SendCallback(c, l)

Client(c) ==
  \/ TakeCookie(c) \/ ReceiveLogin(c) \/ ReceiveInit(c) \/ ReceiveApi(c) \/ ReceiveLogout(c)
  \/ ReceiveStart(c) \/ ReceiveCallback(c) \/ ReceiveBearer(c)
  \/ GiveUp(c)

Next ==
  \/ \E c \in Calls : Sends(c) \/ Server(c) \/ Client(c)
  \/ \E u \in Users : IssueBearer(u) \/ Disable(u)
  \/ \E l \in Logins, u \in Users : Authorize(l, u)
  \/ Navigate \/ Reload \/ Tick

Spec == Init /\ [][Next]_vars

-----------------------------------------------------------------------------
(* Properties *)

\* A request sent when its session was already revoked, expired or of a
\* disabled account is never served, whatever runs beside it.  The last_seen
\* commit of a request that verified just before a sign-out, and lands after
\* it, must not bring the session back.
DeadSessionsServeNothing ==
  \A c \in Calls :
    call[c].dead /\ call[c].kind # "logout" => call[c].pc # "seen" /\ call[c].outcome # "ok"

\* The browser never holds a session whose login left no audit event: the
\* two commits of a login may be torn apart, but not once it was answered.
HeldSessionsAreAudited ==
  jar.session # None => jar.session \in audited

\* Replays of a callback are blocked by consumption before exchange: one
\* that was sent after a code of its transaction had been presented does not
\* present one again, also when that exchange failed.
ReplayNeverExchanges ==
  \A c \in Calls : call[c].replay => call[c].pc # "exchange"

\* The sign-out has deleted the cookie, and the page is about to learn of it.
SigningOut == \E c \in Calls : call[c].kind = "logout" /\ call[c].pc = "taken"

\* The one open page never shows a user while the cookie is a session of
\* another.  It shows a user without a cookie only if a session of that user
\* has grown too old, while the page has yet to hear of a sign-out, or after
\* the answer to an earlier sign-out came in between the cookie of a sign-in
\* and its screen, and deleted the one before the other was shown.
ShownUserHoldsCookie ==
  client.shown # None =>
    \/ jar.session # None /\ sessions[jar.session].user = client.shown
    \/ /\ jar.session = None
       /\ \/ client.late \/ SigningOut
          \/ \E t \in Tokens : /\ sessions[t].user = client.shown
                               /\ Expired(sessions[t].expires, now)
=============================================================================
