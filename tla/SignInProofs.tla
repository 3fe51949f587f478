---------------------------- MODULE SignInProofs ----------------------------
(***************************************************************************)
(* Proofs about SignIn, for any accounts, tokens, login transactions and   *)
(* requests, and any times to live.                                        *)
(*                                                                         *)
(* The argument: rows only ever move one way (Stable), so that what a      *)
(* request has found out about them stays true while it waits (Sound).     *)
(* Every step then replaces one request, or detaches all of them, and the  *)
(* new request has to be sound in the new state.                           *)
(*                                                                         *)
(* What the browser shows needs more (ShownInv): which answers it still    *)
(* waits for on each page, the cookie its first request was sent with, and *)
(* that a sign-in whose cookie is taken before its screen is the only one, *)
(* with nobody shown.                                                      *)
(***************************************************************************)
EXTENDS SignIn, TLAPS

\* Two small sets of requests, expanded everywhere.
USE DEF Answered, ChangesCookie

Issued(t) == sessions[t].user # None

\* Which requests may be where.  An answer is there once the request was
\* replied to, and then the client still waits for it.
Stage(req) ==
  /\ req.pc = "auth" => req.kind = "login"
  /\ req.pc \in {"issue", "audit"} => req.kind \in {"login", "callback"} /\ req.user \in Users
  /\ req.pc = "verify" => req.kind \in {"init", "api", "bearer"}
  /\ req.pc = "seen" => req.kind \in {"init", "api"}
  /\ req.pc = "revoke" => req.kind = "logout"
  /\ req.pc = "begin" => req.kind = "start"
  /\ req.pc \in {"read", "consume", "exchange", "map"} => req.kind = "callback" /\ req.login \in Logins
  /\ req.outcome # "none" => req.pc \in Answered
  /\ req.pc \in Answered => req.attached
  /\ req.pc = "taken" => ChangesCookie(req)

\* The token of a request is of a session that was issued, for its user.
Bearing(req) ==
  /\ req.kind \in {"init", "api", "logout"} => req.token = None \/ Issued(req.token)
  /\ (req.pc = "audit" \/ req.outcome = "ok") /\ req.kind \in {"login", "callback"} =>
       req.token \in Tokens /\ Issued(req.token) /\ sessions[req.token].user = req.user
  /\ req.outcome = "ok" /\ req.kind \in {"login", "callback"} => req.token \in audited
  /\ (req.pc = "seen" \/ req.outcome = "ok") /\ req.kind \in {"init", "api"} =>
       req.token \in Tokens /\ Issued(req.token) /\ sessions[req.token].user = req.user

\* A request sent with a dead session has not been let in, and will not be.
Dying(req) ==
  req.dead =>
    /\ req.kind \in {"init", "api", "logout", "bearer"}
    /\ req.kind # "logout" => req.pc # "seen" /\ req.outcome # "ok"
    /\ req.pc = "verify" /\ req.kind \in {"init", "api"} /\ req.token # None =>
         ~Usable(sessions[req.token], now)
    /\ req.pc = "verify" /\ req.kind = "bearer" =>
         bearer.user # None /\ (Expired(bearer.expires, now) \/ bearer.user \notin active)

\* A replay finds its transaction consumed, as does whoever exchanges a code.
Replaying(req) ==
  /\ req.replay => req.kind = "callback" /\ req.pc \in {"read", "reply"}
  /\ req.replay /\ req.pc = "read" => logins[req.login].state = "consumed"
  /\ req.pc = "exchange" => logins[req.login].state = "consumed"

Sound(req) == Stage(req) /\ Bearing(req) /\ Dying(req) /\ Replaying(req)

AllSound == \A c \in Calls : Sound(call[c])

\* What holds of the rows and cookies beside the requests.
RowsAgree ==
  /\ jar.session # None => Issued(jar.session) /\ jar.session \in audited
  /\ \A l \in Logins : codes[l].state = "used" => logins[l].state = "consumed"

SignInInv == TypeOK /\ AllSound /\ RowsAgree

\* Rows only move one way.
Stable ==
  /\ now <= now'
  /\ active' \subseteq active
  /\ \A t \in Tokens :
       Issued(t) => /\ sessions'[t].user = sessions[t].user
                    /\ sessions'[t].expires = sessions[t].expires
                    /\ sessions[t].revoked => sessions'[t].revoked
  /\ audited \subseteq audited'
  /\ \A l \in Logins : logins[l].state = "consumed" => logins'[l].state = "consumed"
  /\ bearer.user # None => bearer' = bearer

-----------------------------------------------------------------------------
(* Requests *)

\* A row found unusable stays so.
LEMMA StaysUnusable ==
  ASSUME TypeOK, TypeOK', Stable, NEW t \in Tokens, Issued(t), ~Usable(sessions[t], now)
  PROVE  ~Usable(sessions[t], now)'
<1>1. /\ now \in Nat /\ now' \in Nat /\ now <= now' /\ sessions[t].expires \in Nat
      /\ sessions'[t].user = sessions[t].user /\ sessions'[t].expires = sessions[t].expires
      /\ sessions[t].revoked => sessions'[t].revoked
      /\ active' \subseteq active
  BY SignInAssumption DEF TypeOK, Stable, Row
<1> QED
  BY <1>1 DEF Usable, Expired, Issued

\* What a request has found out stays true while it waits.
LEMMA StaysSound ==
  ASSUME TypeOK, TypeOK', Stable, NEW r \in Request, Sound(r)
  PROVE  Sound(r)'
<1>0. r.token \in {None} \cup Tokens /\ r.login \in {None} \cup Logins
  BY DEF Request
<1>1. \A t \in Tokens : Issued(t) => Issued(t)' /\ sessions'[t].user = sessions[t].user
  BY DEF Stable, Issued
<1>2. Stage(r)'
  BY DEF Sound, Stage
<1>3. Bearing(r)'
  <2>1. r.token # None => r.token \in Tokens
    BY <1>0
  <2>2. audited \subseteq audited'
    BY DEF Stable
  <2>3. Bearing(r)
    BY DEF Sound
  <2>4. r.token = None \/ Issued(r.token) => r.token = None \/ Issued(r.token)'
    BY <1>1, <2>1
  <2> QED
    BY <1>1, <2>2, <2>3, <2>4 DEF Bearing
<1>4. Dying(r)'
  <2>1. /\ r.dead => r.kind \in {"init", "api", "logout", "bearer"}
        /\ r.dead /\ r.kind # "logout" => r.pc # "seen" /\ r.outcome # "ok"
    BY DEF Sound, Dying
  <2>2. ASSUME r.dead, r.pc = "verify", r.kind \in {"init", "api"}, r.token # None
        PROVE  ~Usable(sessions[r.token], now)'
    <3>1. r.token \in Tokens /\ Issued(r.token) /\ ~Usable(sessions[r.token], now)
      BY <1>0, <2>2 DEF Sound, Dying, Bearing
    <3> QED
      BY <3>1, StaysUnusable
  <2>3. ASSUME r.dead, r.pc = "verify", r.kind = "bearer"
        PROVE  bearer'.user # None /\ (Expired(bearer'.expires, now') \/ bearer'.user \notin active')
    <3>1. bearer.user # None /\ (Expired(bearer.expires, now) \/ bearer.user \notin active)
      BY <2>3 DEF Sound, Dying
    <3>2. /\ bearer' = bearer /\ now <= now' /\ active' \subseteq active
          /\ now \in Nat /\ now' \in Nat /\ bearer.expires \in Nat
      BY <3>1, SignInAssumption DEF Stable, TypeOK, BearerToken
    <3> QED
      BY <3>1, <3>2 DEF Expired
  <2>5. ASSUME r.dead, r.pc = "verify", r.kind = "bearer"
        PROVE  (Expired(bearer.expires, now) \/ bearer.user \notin active)' /\ (bearer.user # None)'
    BY <2>3, <2>5 DEF Expired
  <2> QED
    BY <2>1, <2>2, <2>5 DEF Dying
<1>5. Replaying(r)'
  <2>1. Replaying(r) /\ Stage(r)
    BY DEF Sound
  <2>2. \A l \in Logins : logins[l].state = "consumed" => logins'[l].state = "consumed"
    BY DEF Stable
  <2>3. r.pc \in {"read", "exchange"} => r.login \in Logins
    BY <2>1 DEF Stage
  <2> QED
    BY <2>1, <2>2, <2>3 DEF Replaying
<1> QED
  BY <1>2, <1>3, <1>4, <1>5 DEF Sound

LEMMA IdleIs == NoCall \in Request
BY SignInAssumption DEF NoCall, NoRow, Request, Kind, Pc, Outcome, NoUser, Row

LEMMA IdleIsSound == Sound(NoCall)
BY DEF Sound, Stage, Bearing, Dying, Replaying, NoCall

\* A request that goes on alone, or is dropped.
LEMMA AloneIs ==
  ASSUME NEW r \in Request
  PROVE  /\ Alone(r) \in Request
         /\ Sound(r) => Sound(Alone(r))
<1>1. CASE r.pc \in {"idle"} \cup Answered
  BY <1>1, IdleIs, IdleIsSound DEF Alone
<1>2. CASE r.pc \notin {"idle"} \cup Answered
  <2>1. Alone(r) = [r EXCEPT !.attached = FALSE]
    BY <1>2 DEF Alone
  <2>2. Alone(r) \in Request
    BY <2>1 DEF Request
  <2>3. /\ Alone(r).kind = r.kind /\ Alone(r).pc = r.pc /\ Alone(r).token = r.token
        /\ Alone(r).user = r.user /\ Alone(r).login = r.login /\ Alone(r).dead = r.dead
        /\ Alone(r).replay = r.replay /\ Alone(r).outcome = r.outcome
    BY <2>1 DEF Request
  <2> QED
    BY <1>2, <2>2, <2>3 DEF Sound, Stage, Bearing, Dying, Replaying
<1> QED
  BY <1>1, <1>2

\* The request a reply leaves: none, or one with the answer.
LEMMA ReplyIs ==
  ASSUME TypeOK, NEW c \in Calls, NEW o \in Outcome, Reply(c, o)
  PROVE  \E r \in Request :
           /\ call' = [call EXCEPT ![c] = r]
           /\ \/ r = NoCall
              \/ /\ r.kind = call[c].kind /\ r.pc = "reply" /\ r.outcome = o
                 /\ r.user = call[c].user /\ r.token = call[c].token /\ r.login = call[c].login
                 /\ r.dead = call[c].dead /\ r.replay = call[c].replay /\ call[c].attached
                 /\ r.attached = call[c].attached
<1>1. call \in [Calls -> Request] /\ call[c] \in Request
  BY DEF TypeOK
<1>2. CASE call[c].attached
  <2> DEFINE r == [call[c] EXCEPT !.pc = "reply", !.outcome = o, !.copy = NoRow]
  <2>1. call' = [call EXCEPT ![c] = r]
    BY <1>1, <1>2 DEF Reply
  <2>2. NoRow \in Row
    BY DEF NoRow, Row, NoUser
  <2>3. r \in Request
    BY <1>1, <2>2 DEF Request, Pc
  <2>4. /\ r.kind = call[c].kind /\ r.pc = "reply" /\ r.outcome = o
        /\ r.user = call[c].user /\ r.token = call[c].token /\ r.login = call[c].login
        /\ r.dead = call[c].dead /\ r.replay = call[c].replay
        /\ r.attached = call[c].attached
    BY <1>1 DEF Request
  <2> QED
    BY <1>2, <2>1, <2>3, <2>4
<1>3. CASE ~call[c].attached
  <2>1. call' = [call EXCEPT ![c] = NoCall]
    BY <1>1, <1>3 DEF Reply
  <2> QED
    BY <2>1, IdleIs
<1> QED
  BY <1>2, <1>3

\* The request that moves on.
LEMMA GotoIs ==
  ASSUME TypeOK, NEW c \in Calls, NEW p \in Pc, Goto(c, p)
  PROVE  \E r \in Request :
           /\ call' = [call EXCEPT ![c] = r]
           /\ r.kind = call[c].kind /\ r.pc = p /\ r.outcome = call[c].outcome
           /\ r.user = call[c].user /\ r.token = call[c].token /\ r.login = call[c].login
           /\ r.dead = call[c].dead /\ r.replay = call[c].replay /\ r.attached = call[c].attached
<1>1. call \in [Calls -> Request] /\ call[c] \in Request
  BY DEF TypeOK
<1> DEFINE r == [call[c] EXCEPT !.pc = p]
<1>2. call' = [call EXCEPT ![c] = r]
  BY <1>1 DEF Goto
<1>3. r \in Request
  BY <1>1 DEF Request
<1>4. /\ r.kind = call[c].kind /\ r.pc = p /\ r.outcome = call[c].outcome
      /\ r.user = call[c].user /\ r.token = call[c].token /\ r.login = call[c].login
      /\ r.dead = call[c].dead /\ r.replay = call[c].replay /\ r.attached = call[c].attached
  BY <1>1 DEF Request
<1> QED
  BY <1>2, <1>3, <1>4

\* A request as the client sends it.
LEMMA NewIs ==
  ASSUME NEW k \in Kind, NEW p \in Pc
  PROVE  LET r == New(k, p)
         IN /\ r \in Request
            /\ r.kind = k /\ r.pc = p /\ r.outcome = "none" /\ r.user = None /\ r.token = None
            /\ r.login = None /\ ~r.dead /\ ~r.replay /\ r.attached
<1>1. NoCall \in Request /\ NoCall.outcome = "none" /\ NoCall.user = None /\ NoCall.token = None
      /\ NoCall.login = None /\ NoCall.dead = FALSE /\ NoCall.replay = FALSE
  BY IdleIs DEF NoCall
<1> QED
  BY <1>1 DEF New, Request

LEMMA WithCookieIs ==
  ASSUME TypeOK, NEW k \in Kind, NEW p \in Pc
  PROVE  LET r == WithCookie(k, p)
         IN /\ r \in Request
            /\ r.kind = k /\ r.pc = p /\ r.outcome = "none" /\ r.token = jar.session
            /\ r.login = None /\ ~r.replay /\ r.attached
            /\ r.dead => jar.session = None \/ ~Usable(sessions[jar.session], now)
<1>1. PICK b \in BOOLEAN : b <=> (jar.session = None \/ ~Usable(sessions[jar.session], now))
  OBVIOUS
<1>2. WithCookie(k, p) = [New(k, p) EXCEPT !.token = jar.session, !.dead = b]
  BY <1>1, Zenon DEF WithCookie
<1>3. jar.session \in {None} \cup Tokens
  BY DEF TypeOK, Cookies
<1>4. /\ New(k, p) \in Request /\ New(k, p).kind = k /\ New(k, p).pc = p
      /\ New(k, p).outcome = "none" /\ New(k, p).login = None /\ New(k, p).replay = FALSE
      /\ New(k, p).attached = TRUE
  <2>1. New(k, p) \in Request
    BY NewIs
  <2> QED
    BY <2>1, NewIs DEF Request
<1> DEFINE r == [New(k, p) EXCEPT !.token = jar.session, !.dead = b]
<1>5. r \in Request
  BY <1>3, <1>4 DEF Request
<1>6. /\ r.kind = k /\ r.pc = p /\ r.outcome = "none" /\ r.token = jar.session
      /\ r.login = None /\ r.replay = FALSE /\ r.attached = TRUE /\ r.dead = b
  BY <1>4 DEF Request
<1> HIDE DEF r
<1>7. WithCookie(k, p) = r
  BY <1>2 DEF r
<1> QED
  BY <1>1, <1>5, <1>6, <1>7

-----------------------------------------------------------------------------
(* One request replaced, or all detached *)

\* The types of everything but the requests.
WorldTypes ==
  /\ provider \in {"local", "oidc"}
  /\ now \in 0 .. MaxTime
  /\ active \subseteq Users
  /\ sessions \in [Tokens -> Row]
  /\ audited \subseteq Tokens
  /\ logins \in [Logins -> LoginRow]
  /\ codes \in [Logins -> Code]
  /\ bearer \in BearerToken
  /\ jar \in Cookies
  /\ client \in ClientState

LEMMA TypesSplit == TypeOK <=> WorldTypes /\ call \in [Calls -> Request]
BY DEF TypeOK, WorldTypes

LEMMA OneCall ==
  ASSUME TypeOK, AllSound, WorldTypes', Stable, NEW c \in Calls, NEW r \in Request, Sound(r)',
         call' = [call EXCEPT ![c] = r]
  PROVE  TypeOK' /\ AllSound'
<1>1. call \in [Calls -> Request]
  BY DEF TypeOK
<1>2. TypeOK'
  <2>1. call' \in [Calls -> Request]
    BY <1>1
  <2> QED
    BY <2>1 DEF TypeOK, WorldTypes
<1>3. ASSUME NEW d \in Calls PROVE Sound(call[d])'
  <2>1. PICK s \in Request : s = call'[d]
    BY <1>2 DEF TypeOK
  <2>2. CASE d = c
    <3>1. s = r
      BY <1>1, <2>1, <2>2
    <3>2. Sound(s)'
      BY <3>1
    <3> QED
      BY <2>1, <3>2 DEF Sound, Stage, Bearing, Dying, Replaying, Issued
  <2>3. CASE d # c
    <3>1. s = call[d]
      BY <1>1, <2>1, <2>3
    <3>2. Sound(s)
      BY <3>1 DEF AllSound, Sound, Stage, Bearing, Dying, Replaying
    <3>3. Sound(s)'
      BY <1>2, <3>2, StaysSound
    <3> QED
      BY <2>1, <3>3 DEF Sound, Stage, Bearing, Dying, Replaying, Issued
  <2> QED
    BY <2>2, <2>3
<1> QED
  BY <1>2, <1>3 DEF AllSound

LEMMA AllDetached ==
  ASSUME TypeOK, AllSound, WorldTypes', Stable, NEW r \in Request, Sound(r)',
         call' = Detached \/ \E c \in Calls : call' = [Detached EXCEPT ![c] = r]
  PROVE  TypeOK' /\ AllSound'
<1>1. call \in [Calls -> Request] /\ Detached \in [Calls -> Request]
  <2>1. call \in [Calls -> Request]
    BY DEF TypeOK
  <2> QED
    BY <2>1, AloneIs DEF Detached
<1>2. TypeOK'
  <2>1. call' \in [Calls -> Request]
    BY <1>1
  <2> QED
    BY <2>1 DEF TypeOK, WorldTypes
<1>3. ASSUME NEW d \in Calls PROVE Sound(call[d])'
  <2>1. PICK s \in Request : s = call'[d]
    BY <1>2 DEF TypeOK
  <2>2. CASE s = r
    <3>1. Sound(s)'
      BY <2>2
    <3> QED
      BY <2>1, <3>1 DEF Sound, Stage, Bearing, Dying, Replaying, Issued
  <2>3. CASE s = Alone(call[d])
    <3>1. PICK q \in Request : q = call[d]
      BY <1>1
    <3>2. Sound(q)
      BY <3>1 DEF AllSound, Sound, Stage, Bearing, Dying, Replaying
    <3>3. Sound(Alone(q)) /\ s = Alone(q)
      BY <2>3, <3>1, <3>2, AloneIs
    <3>4. Sound(s)
      BY <3>3
    <3>5. Sound(s)'
      BY <1>2, <3>4, StaysSound
    <3> QED
      BY <2>1, <3>5 DEF Sound, Stage, Bearing, Dying, Replaying, Issued
  <2> QED
    BY <1>1, <2>1, <2>2, <2>3 DEF Detached
<1> QED
  BY <1>2, <1>3 DEF AllSound

LEMMA RowsUnchanged ==
  ASSUME TypeOK, UNCHANGED <<world, server>>
  PROVE  /\ Stable
         /\ UNCHANGED browser => WorldTypes'
         /\ RowsAgree /\ jar' = jar => RowsAgree'
<1> USE SignInAssumption
<1>1. now \in Nat
  BY DEF TypeOK
<1>2. Stable
  BY <1>1 DEF world, server, Stable
<1>3. UNCHANGED browser => WorldTypes'
  BY DEF world, server, browser, TypeOK, WorldTypes
<1>4. RowsAgree /\ jar' = jar => RowsAgree'
  BY DEF world, server, RowsAgree, Issued
<1> QED
  BY <1>2, <1>3, <1>4

\* A handler that answers anything but ok, in a world it leaves alone.
LEMMA RefusedIs ==
  ASSUME TypeOK, AllSound, WorldTypes', Stable, NEW c \in Calls,
         NEW o \in Outcome \ {"none", "ok"}, Reply(c, o)
  PROVE  TypeOK' /\ AllSound'
<1>1. PICK r \in Request :
        /\ call' = [call EXCEPT ![c] = r]
        /\ \/ r = NoCall
           \/ /\ r.kind = call[c].kind /\ r.pc = "reply" /\ r.outcome = o
              /\ r.user = call[c].user /\ r.token = call[c].token /\ r.login = call[c].login
              /\ r.dead = call[c].dead /\ r.replay = call[c].replay /\ r.attached
  BY ReplyIs
<1>2. PICK q \in Request : q = call[c]
  BY DEF TypeOK
<1>3. Sound(q)
  BY <1>2 DEF AllSound, Sound, Stage, Bearing, Dying, Replaying
<1>4. CASE r = NoCall
  <2>1. Sound(NoCall)'
    BY DEF Sound, Stage, Bearing, Dying, Replaying, NoCall
  <2> QED
    BY <1>1, <1>4, <2>1, OneCall
<1>5. CASE r # NoCall
  <2>1. /\ r.kind = q.kind /\ r.pc = "reply" /\ r.outcome = o
        /\ r.user = q.user /\ r.token = q.token /\ r.login = q.login
        /\ r.dead = q.dead /\ r.replay = q.replay /\ r.attached
    BY <1>1, <1>2, <1>5
  <2>2. Sound(r)
    BY <1>3, <2>1 DEF Sound, Stage, Bearing, Dying, Replaying
  <2>3. PICK w \in [Calls -> Request] : w = [call EXCEPT ![c] = r]
    BY DEF TypeOK
  <2>4. TypeOK'
    BY <1>1, <2>3 DEF TypeOK, WorldTypes
  <2>5. Sound(r)'
    BY <2>2, <2>4, StaysSound
  <2> QED
    BY <1>1, <2>5, OneCall
<1> QED
  BY <1>4, <1>5

\* The same, when nothing but the requests and the browser moves.
LEMMA OneCallOnly ==
  ASSUME SignInInv, UNCHANGED <<world, server>>, WorldTypes', RowsAgree',
         NEW c \in Calls, NEW r \in Request, Sound(r), call' = [call EXCEPT ![c] = r]
  PROVE  SignInInv'
<1>1. TypeOK /\ AllSound /\ Stable
  BY RowsUnchanged DEF SignInInv
<1>2. Sound(r)'
  BY DEF world, server, Sound, Stage, Bearing, Dying, Replaying, Issued, Usable, Expired
<1> QED
  BY <1>1, <1>2, OneCall DEF SignInInv

LEMMA DetachedOnly ==
  ASSUME SignInInv, UNCHANGED <<world, server>>, WorldTypes', RowsAgree',
         NEW r \in Request, Sound(r),
         call' = Detached \/ \E c \in Calls : call' = [Detached EXCEPT ![c] = r]
  PROVE  SignInInv'
<1>1. TypeOK /\ AllSound /\ Stable
  BY RowsUnchanged DEF SignInInv
<1>2. Sound(r)'
  BY DEF world, server, Sound, Stage, Bearing, Dying, Replaying, Issued, Usable, Expired
<1> QED
  BY <1>1, <1>2, AllDetached DEF SignInInv

LEMMA RefusedOnly ==
  ASSUME SignInInv, UNCHANGED <<world, server, browser>>,
         NEW c \in Calls, NEW o \in Outcome \ {"none", "ok"}, Reply(c, o)
  PROVE  SignInInv'
<1>1. TypeOK /\ AllSound /\ RowsAgree /\ UNCHANGED <<world, server>> /\ UNCHANGED browser
  BY DEF SignInInv
<1>2. jar' = jar
  BY <1>1 DEF browser
<1>3. Stable /\ WorldTypes' /\ RowsAgree'
  BY <1>1, <1>2, RowsUnchanged
<1> QED
  BY <1>1, <1>3, RefusedIs DEF SignInInv

-----------------------------------------------------------------------------
(* The client sends *)

\* What every step that leaves rows and browser alone gives.
LEMMA NothingElse ==
  ASSUME SignInInv, UNCHANGED <<world, server, browser>>
  PROVE  UNCHANGED <<world, server>> /\ WorldTypes' /\ RowsAgree'
<1>1. TypeOK /\ RowsAgree /\ UNCHANGED <<world, server>> /\ UNCHANGED browser
  BY DEF SignInInv
<1>2. jar' = jar
  BY <1>1 DEF browser
<1> QED
  BY <1>1, <1>2, RowsUnchanged

LEMMA SendLoginKeeps ==
  ASSUME SignInInv, NEW c \in Calls, NEW u \in Users, SendLogin(c, u)
  PROVE  SignInInv'
<1>1. PICK r \in Request : r = [New("login", "auth") EXCEPT !.user = u]
  <2>1. New("login", "auth") \in Request
    BY NewIs DEF Kind, Pc
  <2> QED
    BY <2>1 DEF Request, NoUser
<1>2. r.kind = "login" /\ r.pc = "auth" /\ r.outcome = "none" /\ ~r.dead /\ ~r.replay
  BY <1>1, NewIs DEF Kind, Pc, Request
<1>3. Sound(r)
  BY <1>2 DEF Sound, Stage, Bearing, Dying, Replaying
<1>4. call' = [call EXCEPT ![c] = r] /\ UNCHANGED <<world, server, browser>>
  BY <1>1 DEF SendLogin, Send
<1> QED
  BY <1>3, <1>4, NothingElse, OneCallOnly

\* Requests with the cookie: init, api and logout.
LEMMA CookieSent ==
  ASSUME SignInInv, NEW c \in Calls, NEW k \in {"init", "api", "logout"}, NEW p \in Pc,
         Send(c, WithCookie(k, p)), p = IF k = "logout" THEN "revoke" ELSE "verify",
         UNCHANGED <<world, server, browser>>
  PROVE  SignInInv'
<1>1. PICK r \in Request :
         /\ r = WithCookie(k, p)
         /\ r.kind = k /\ r.pc = p /\ r.outcome = "none" /\ r.token = jar.session /\ ~r.replay
         /\ r.dead => jar.session = None \/ ~Usable(sessions[jar.session], now)
  BY WithCookieIs DEF SignInInv, Kind
<1>2. jar.session = None \/ Issued(jar.session)
  BY DEF SignInInv, RowsAgree
<1>3. Sound(r)
  BY <1>1, <1>2 DEF Sound, Stage, Bearing, Dying, Replaying
<1>4. call' = [call EXCEPT ![c] = r]
  BY <1>1 DEF Send
<1> QED
  BY <1>3, <1>4, NothingElse, OneCallOnly

LEMMA SendCookieKeeps ==
  ASSUME SignInInv, NEW c \in Calls, SendInit(c) \/ SendApi(c) \/ SendLogout(c)
  PROVE  SignInInv'
<1>1. CASE SendInit(c)
  BY <1>1, CookieSent DEF SendInit, Pc
<1>2. CASE SendApi(c)
  BY <1>2, CookieSent DEF SendApi, Pc
<1>3. CASE SendLogout(c)
  BY <1>3, CookieSent DEF SendLogout, Pc
<1> QED
  BY <1>1, <1>2, <1>3

LEMMA SendStartKeeps ==
  ASSUME SignInInv, NEW c \in Calls, SendStart(c)
  PROVE  SignInInv'
<1>1. PICK r \in Request : r = New("start", "begin")
  BY NewIs DEF Kind, Pc
<1>2. r.kind = "start" /\ r.pc = "begin" /\ r.outcome = "none" /\ ~r.dead /\ ~r.replay
  BY <1>1, NewIs DEF Kind, Pc
<1>3. Sound(r)
  BY <1>2 DEF Sound, Stage, Bearing, Dying, Replaying
<1>4. /\ call' = [Detached EXCEPT ![c] = r] /\ UNCHANGED <<world, server>> /\ jar' = jar
      /\ client' = [client EXCEPT !.page = "away", !.shown = None, !.late = FALSE]
  BY <1>1 DEF SendStart
<1>5. WorldTypes' /\ RowsAgree'
  <2>1. client' \in ClientState
    BY <1>4 DEF SignInInv, TypeOK, ClientState, NoUser
  <2> QED
    BY <1>4, <2>1, RowsUnchanged DEF SignInInv, TypeOK, WorldTypes, world, server
<1> QED
  BY <1>3, <1>4, <1>5, DetachedOnly

LEMMA SendCallbackKeeps ==
  ASSUME SignInInv, NEW c \in Calls, NEW l \in Logins, SendCallback(c, l)
  PROVE  SignInInv'
<1>1. PICK b \in BOOLEAN : b <=> codes[l].state = "used"
  OBVIOUS
<1>2. jar.binding \in {None} \cup Logins /\ l \in {None} \cup Logins
  BY DEF SignInInv, TypeOK, Cookies
<1>3. New("callback", "read") \in Request
  BY NewIs DEF Kind, Pc
<1>4. PICK r \in Request :
         r = [New("callback", "read") EXCEPT !.login = l, !.binding = jar.binding, !.replay = b]
  BY <1>2, <1>3 DEF Request
<1>5. /\ r.kind = "callback" /\ r.pc = "read" /\ r.outcome = "none" /\ ~r.dead
      /\ r.replay = b /\ r.login = l
  BY <1>3, <1>4, NewIs DEF Kind, Pc, Request
<1>6. Sound(r)
  BY <1>1, <1>5 DEF Sound, Stage, Bearing, Dying, Replaying, SignInInv, RowsAgree
<1>7. call' = [Detached EXCEPT ![c] = r] /\ UNCHANGED <<world, server, browser>>
  BY <1>1, <1>4, Zenon DEF SendCallback
<1> QED
  BY <1>6, <1>7, NothingElse, DetachedOnly

LEMMA SendBearerKeeps ==
  ASSUME SignInInv, NEW c \in Calls, SendBearer(c)
  PROVE  SignInInv'
<1>1. PICK b \in BOOLEAN : b <=> (Expired(bearer.expires, now) \/ bearer.user \notin active)
  OBVIOUS
<1>2. bearer.user \in NoUser /\ bearer.user # None
  BY DEF SignInInv, TypeOK, BearerToken, SendBearer
<1>3. New("bearer", "verify") \in Request
  BY NewIs DEF Kind, Pc
<1>4. PICK r \in Request :
         r = [New("bearer", "verify") EXCEPT !.user = bearer.user, !.dead = b]
  BY <1>2, <1>3 DEF Request
<1>5. /\ r.kind = "bearer" /\ r.pc = "verify" /\ r.outcome = "none" /\ r.dead = b /\ ~r.replay
  BY <1>3, <1>4, NewIs DEF Kind, Pc, Request
<1>6. Sound(r)
  BY <1>1, <1>2, <1>5 DEF Sound, Stage, Bearing, Dying, Replaying
<1>7. call' = [call EXCEPT ![c] = r] /\ UNCHANGED <<world, server, browser>>
  BY <1>1, <1>4, Zenon DEF SendBearer, Send
<1> QED
  BY <1>6, <1>7, NothingElse, OneCallOnly

LEMMA SendsKeep ==
  ASSUME SignInInv, NEW c \in Calls, Sends(c)
  PROVE  SignInInv'
BY SendLoginKeeps, SendCookieKeeps, SendStartKeeps, SendCallbackKeeps, SendBearerKeeps DEF Sends

-----------------------------------------------------------------------------
(* The server *)

\* The request a handler works on.
LEMMA CallIs ==
  ASSUME SignInInv, NEW c \in Calls
  PROVE  \E q \in Request : q = call[c] /\ Sound(q)
<1>1. PICK q \in Request : q = call[c]
  BY DEF SignInInv, TypeOK
<1>2. Sound(q)
  BY <1>1 DEF SignInInv, AllSound, Sound, Stage, Bearing, Dying, Replaying
<1> QED
  BY <1>1, <1>2

\* A handler that moves on and leaves everything else alone.
LEMMA GotoKeeps ==
  ASSUME SignInInv, NEW c \in Calls, NEW p \in {"issue", "consume"}, Goto(c, p),
         UNCHANGED <<world, server, browser>>,
         p = "issue" => call[c].pc \in {"auth", "map"} /\ call[c].user \in active,
         p = "consume" => call[c].pc = "read" /\ logins[call[c].login].state = "open"
  PROVE  SignInInv'
<1>1. PICK q \in Request : q = call[c] /\ Sound(q)
  BY CallIs
<1>2. PICK r \in Request :
         /\ call' = [call EXCEPT ![c] = r]
         /\ r.kind = q.kind /\ r.pc = p /\ r.outcome = q.outcome
         /\ r.user = q.user /\ r.token = q.token /\ r.login = q.login
         /\ r.dead = q.dead /\ r.replay = q.replay
  BY <1>1, GotoIs DEF SignInInv, Pc
<1>3. active \subseteq Users
  BY DEF SignInInv, TypeOK
<1>4. Sound(r)
  BY <1>1, <1>2, <1>3 DEF Sound, Stage, Bearing, Dying, Replaying
<1> QED
  BY <1>2, <1>4, NothingElse, OneCallOnly

\* A handler that answers ok and leaves everything else alone.
LEMMA OkKeeps ==
  ASSUME SignInInv, NEW c \in Calls, Reply(c, "ok"), UNCHANGED <<world, server, browser>>,
         call[c].kind \in {"bearer", "start", "logout"}, ~call[c].dead
  PROVE  SignInInv'
<1>1. PICK q \in Request : q = call[c] /\ Sound(q)
  BY CallIs
<1>2. PICK r \in Request :
         /\ call' = [call EXCEPT ![c] = r]
         /\ \/ r = NoCall
            \/ /\ r.kind = q.kind /\ r.pc = "reply" /\ r.outcome = "ok"
               /\ r.user = q.user /\ r.token = q.token /\ r.login = q.login
               /\ r.dead = q.dead /\ r.replay = q.replay /\ r.attached
  BY <1>1, ReplyIs DEF SignInInv, Outcome
<1>3. Sound(r)
  <2>1. CASE r = NoCall
    BY <2>1, IdleIsSound
  <2>2. CASE r # NoCall
    BY <1>1, <1>2, <2>2 DEF Sound, Stage, Bearing, Dying, Replaying
  <2> QED
    BY <2>1, <2>2
<1> QED
  BY <1>2, <1>3, NothingElse, OneCallOnly

LEMMA AuthenticateKeeps ==
  ASSUME SignInInv, NEW c \in Calls, Authenticate(c)
  PROVE  SignInInv'
<1>1. call[c].pc = "auth" /\ UNCHANGED <<world, server, browser>>
  BY DEF Authenticate
<1>2. CASE \E o \in {"limited", "failed", "unauthorized"} : Reply(c, o)
  BY <1>1, <1>2, RefusedOnly DEF Outcome
<1>3. CASE Reply(c, "forbidden")
  BY <1>1, <1>3, RefusedOnly DEF Outcome
<1>4. CASE call[c].user \in active /\ Goto(c, "issue")
  BY <1>1, <1>4, GotoKeeps
<1> QED
  BY <1>2, <1>3, <1>4 DEF Authenticate

LEMMA VerifyKeeps ==
  ASSUME SignInInv, NEW c \in Calls, Verify(c)
  PROVE  SignInInv'
<1>1. call[c].pc = "verify" /\ call[c].kind \in {"init", "api"} /\ UNCHANGED <<world, server, browser>>
  BY DEF Verify
<1>2. CASE Reply(c, "unauthorized")
  BY <1>1, <1>2, RefusedOnly DEF Outcome
<1>3. CASE call[c].token # None /\ Usable(sessions[call[c].token], now) /\ ~Reply(c, "unauthorized")
  <2>1. PICK q \in Request : q = call[c] /\ Sound(q)
    BY CallIs
  <2>2. q.token \in Tokens /\ Usable(sessions[q.token], now) /\ Issued(q.token) /\ ~q.dead
    BY <1>1, <1>3, <2>1 DEF Request, Sound, Bearing, Dying
  <2>3. sessions[q.token] \in Row /\ sessions[q.token].user \in NoUser
    BY <2>2 DEF SignInInv, TypeOK, Row
  <2>4. PICK r \in Request : r = [q EXCEPT !.pc = "seen", !.user = sessions[q.token].user,
                                           !.copy = sessions[q.token]]
    BY <2>3 DEF Request, Pc
  <2>5. /\ r.kind = q.kind /\ r.pc = "seen" /\ r.outcome = q.outcome
        /\ r.user = sessions[q.token].user /\ r.token = q.token
        /\ r.dead = q.dead /\ r.replay = q.replay
    BY <2>4 DEF Request
  <2>6. Sound(r)
    BY <1>1, <2>1, <2>2, <2>5 DEF Sound, Stage, Bearing, Dying, Replaying
  <2>7. call' = [call EXCEPT ![c] = r]
    BY <1>3, <2>1, <2>4 DEF Verify, SignInInv, TypeOK
  <2> QED
    BY <1>1, <2>6, <2>7, NothingElse, OneCallOnly
<1> QED
  BY <1>2, <1>3 DEF Verify

LEMMA VerifyBearerKeeps ==
  ASSUME SignInInv, NEW c \in Calls, VerifyBearer(c)
  PROVE  SignInInv'
<1>1. call[c].pc = "verify" /\ call[c].kind = "bearer" /\ UNCHANGED <<world, server, browser>>
  BY DEF VerifyBearer
<1>2. CASE Reply(c, "unauthorized")
  BY <1>1, <1>2, RefusedOnly DEF Outcome
<1>3. CASE ~Expired(bearer.expires, now) /\ bearer.user \in active /\ Reply(c, "ok")
  <2>1. ~call[c].dead
    BY <1>1, <1>3 DEF SignInInv, AllSound, Sound, Dying
  <2> QED
    BY <1>1, <1>3, <2>1, OkKeeps
<1> QED
  BY <1>2, <1>3 DEF VerifyBearer

LEMMA ReadLoginKeeps ==
  ASSUME SignInInv, NEW c \in Calls, ReadLogin(c)
  PROVE  SignInInv'
<1>1. call[c].pc = "read" /\ UNCHANGED <<world, server, browser>>
  BY DEF ReadLogin
<1>2. CASE Reply(c, "unauthorized")
  BY <1>1, <1>2, RefusedOnly DEF Outcome
<1>3. CASE logins[call[c].login].state = "open" /\ Goto(c, "consume")
  BY <1>1, <1>3, GotoKeeps
<1> QED
  BY <1>2, <1>3 DEF ReadLogin

LEMMA MapUserKeeps ==
  ASSUME SignInInv, NEW c \in Calls, MapUser(c)
  PROVE  SignInInv'
<1>1. call[c].pc = "map" /\ UNCHANGED <<world, server, browser>>
  BY DEF MapUser
<1>2. CASE Reply(c, "unauthorized")
  BY <1>1, <1>2, RefusedOnly DEF Outcome
<1>3. CASE call[c].user \in active /\ Goto(c, "issue")
  BY <1>1, <1>3, GotoKeeps
<1> QED
  BY <1>2, <1>3 DEF MapUser

LEMMA BreakKeeps ==
  ASSUME SignInInv, NEW c \in Calls, Break(c)
  PROVE  SignInInv'
BY RefusedOnly DEF Break, Outcome

-----------------------------------------------------------------------------
(* The server, where it changes rows *)

\* A request replaced while the rows move.
LEMMA MovesOn ==
  ASSUME SignInInv, WorldTypes', Stable, RowsAgree', NEW c \in Calls, NEW r \in Request,
         Sound(r)', call' = [call EXCEPT ![c] = r]
  PROVE  SignInInv'
BY OneCall DEF SignInInv

\* The rows move and no request does.
LEMMA CallsAlone ==
  ASSUME SignInInv, WorldTypes', Stable, RowsAgree', call' = call
  PROVE  SignInInv'
<1>1. TypeOK'
  BY DEF SignInInv, TypeOK, WorldTypes
<1>2. ASSUME NEW d \in Calls PROVE Sound(call[d])'
  <2>1. PICK q \in Request : q = call[d] /\ Sound(q)
    BY CallIs
  <2>2. Sound(q)'
    BY <1>1, <2>1, StaysSound DEF SignInInv
  <2> QED
    BY <2>1, <2>2 DEF Sound, Stage, Bearing, Dying, Replaying, Issued
<1> QED
  BY <1>1, <1>2 DEF SignInInv, AllSound

\* Rows stay with the browser that holds one of them.
LEMMA CookieStays ==
  ASSUME SignInInv, Stable, jar' = jar,
         \A l \in Logins : codes'[l].state = "used" => logins'[l].state = "consumed"
  PROVE  RowsAgree'
<1>1. jar.session # None => jar.session \in Tokens /\ Issued(jar.session) /\ jar.session \in audited
  BY DEF SignInInv, RowsAgree, TypeOK, Cookies
<1> QED
  BY <1>1 DEF RowsAgree, Stable, Issued

\* A handler that answers ok.
LEMMA AnswerKeeps ==
  ASSUME SignInInv, WorldTypes', Stable, RowsAgree', NEW c \in Calls, Reply(c, "ok"),
         call[c].dead => call[c].kind = "logout",
         call[c].kind \in {"login", "callback", "init", "api"} =>
           /\ call[c].token \in Tokens /\ Issued(call[c].token)
           /\ sessions[call[c].token].user = call[c].user,
         call[c].kind \in {"login", "callback"} => call[c].token \in audited'
  PROVE  SignInInv'
<1>1. PICK q \in Request : q = call[c] /\ Sound(q)
  BY CallIs
<1>2. PICK r \in Request :
         /\ call' = [call EXCEPT ![c] = r]
         /\ \/ r = NoCall
            \/ /\ r.kind = q.kind /\ r.pc = "reply" /\ r.outcome = "ok"
               /\ r.user = q.user /\ r.token = q.token /\ r.login = q.login
               /\ r.dead = q.dead /\ r.replay = q.replay /\ r.attached
  BY <1>1, ReplyIs DEF SignInInv, Outcome
<1>3. CASE r = NoCall
  <2>1. Sound(NoCall)'
    BY DEF Sound, Stage, Bearing, Dying, Replaying, NoCall
  <2> QED
    BY <1>2, <1>3, <2>1, MovesOn
<1>4. CASE r # NoCall
  <2>1. \A t \in Tokens : Issued(t) => Issued(t)' /\ sessions'[t].user = sessions[t].user
    BY DEF Stable, Issued
  <2>2. r.kind = "logout" => r.token = None \/ (r.token \in Tokens /\ Issued(r.token))
    <3>1. r.kind = q.kind /\ r.token = q.token
      BY <1>2, <1>4
    <3>2. q.kind = "logout" => q.token = None \/ sessions[q.token].user # None
      BY <1>1 DEF Sound, Bearing, Issued
    <3>3. q.token \in {None} \cup Tokens
      BY DEF Request
    <3>4. q.kind = "logout" => q.token = None \/ (q.token \in Tokens /\ sessions[q.token].user # None)
      BY <3>2, <3>3
    <3> QED
      BY <3>1, <3>4 DEF Issued
  <2>3. Bearing(r)'
    BY <1>1, <1>2, <1>4, <2>1, <2>2 DEF Bearing
  <2>4. Stage(r)' /\ Dying(r)' /\ Replaying(r)'
    BY <1>1, <1>2, <1>4 DEF Sound, Stage, Dying, Replaying
  <2>5. Sound(r)'
    BY <2>3, <2>4 DEF Sound
  <2> QED
    BY <1>2, <2>5, MovesOn
<1> QED
  BY <1>3, <1>4

LEMMA IssueKeeps ==
  ASSUME SignInInv, NEW c \in Calls, NEW t \in Tokens, Issue(c, t)
  PROVE  SignInInv'
<1>1. PICK q \in Request : q = call[c] /\ Sound(q)
  BY CallIs
<1>2. /\ q.pc = "issue" /\ q.kind \in {"login", "callback"} /\ q.user \in Users
      /\ q.outcome = "none" /\ ~q.dead /\ ~q.replay
  BY <1>1 DEF Issue, Sound, Stage, Dying, Replaying
<1>3. now \in Nat /\ now + Ttl \in Nat
  BY SignInAssumption DEF SignInInv, TypeOK
<1> DEFINE row == [user |-> q.user, expires |-> now + Ttl, revoked |-> FALSE]
<1>4. row \in Row
  BY <1>2, <1>3 DEF Row, NoUser
<1>5. /\ sessions' = [sessions EXCEPT ![t] = row] /\ sessions \in [Tokens -> Row]
      /\ UNCHANGED <<world, audited, logins, codes, bearer, browser>>
  BY <1>1 DEF Issue, SignInInv, TypeOK
<1>6. ~Issued(t)
  BY DEF Issue, Unissued, Issued, NoRow
<1>7. WorldTypes'
  <2>1. sessions' \in [Tokens -> Row]
    BY <1>4, <1>5
  <2> QED
    BY <1>5, <2>1 DEF SignInInv, TypeOK, WorldTypes, world, browser
<1>8. Stable
  <2>1. \A v \in Tokens : Issued(v) => sessions'[v] = sessions[v]
    BY <1>5, <1>6
  <2> QED
    BY <1>3, <1>5, <2>1 DEF Stable, world
<1>9. RowsAgree'
  BY <1>5, <1>8, CookieStays DEF browser, SignInInv, RowsAgree
<1>10. PICK r \in Request : r = [q EXCEPT !.pc = "audit", !.token = t]
  BY DEF Request, Pc
<1>11. /\ r.kind = q.kind /\ r.pc = "audit" /\ r.outcome = q.outcome /\ r.user = q.user
       /\ r.token = t /\ r.dead = q.dead /\ r.replay = q.replay
  BY <1>10 DEF Request
<1>12. Issued(t)' /\ sessions'[t].user = q.user
  BY <1>2, <1>5, SignInAssumption DEF Issued
<1>13. Sound(r)'
  BY <1>2, <1>11, <1>12 DEF Sound, Stage, Bearing, Dying, Replaying
<1>14. call' = [call EXCEPT ![c] = r]
  BY <1>1, <1>10 DEF Issue, SignInInv, TypeOK
<1> QED
  BY <1>7, <1>8, <1>9, <1>13, <1>14, MovesOn

LEMMA AuditKeeps ==
  ASSUME SignInInv, NEW c \in Calls, Audit(c)
  PROVE  SignInInv'
<1>1. PICK q \in Request : q = call[c] /\ Sound(q)
  BY CallIs
<1>2. /\ q.kind \in {"login", "callback"} /\ ~q.dead /\ q.pc = "audit"
      /\ q.token \in Tokens /\ Issued(q.token) /\ sessions[q.token].user = q.user
  BY <1>1 DEF Audit, Sound, Stage, Bearing, Dying
<1>3. /\ audited' = audited \cup {q.token} /\ Reply(c, "ok")
      /\ UNCHANGED <<world, sessions, logins, codes, bearer, browser>>
  BY <1>1 DEF Audit
<1>4. WorldTypes'
  BY <1>2, <1>3 DEF SignInInv, TypeOK, WorldTypes, world, browser
<1>5. now \in Nat
  BY SignInAssumption DEF SignInInv, TypeOK
<1>6. Stable
  BY <1>3, <1>5 DEF Stable, world
<1>7. RowsAgree'
  BY <1>3, <1>6, CookieStays DEF browser, SignInInv, RowsAgree
<1> QED
  BY <1>1, <1>2, <1>3, <1>4, <1>6, <1>7, AnswerKeeps

LEMMA SeenKeeps ==
  ASSUME SignInInv, NEW c \in Calls, Seen(c)
  PROVE  SignInInv'
<1>1. PICK q \in Request : q = call[c] /\ Sound(q)
  BY CallIs
<1>2. /\ q.kind \in {"init", "api"} /\ ~q.dead
      /\ q.token \in Tokens /\ Issued(q.token) /\ sessions[q.token].user = q.user
  BY <1>1 DEF Seen, Sound, Stage, Bearing, Dying
<1>3. sessions' = sessions
  BY DEF Seen, AfterSeen, SignInInv, TypeOK
<1>4. UNCHANGED <<world, server, browser>> /\ Reply(c, "ok")
  BY <1>3 DEF Seen, server
<1>5. WorldTypes' /\ RowsAgree' /\ Stable
  BY <1>4, NothingElse, RowsUnchanged DEF SignInInv
<1> QED
  BY <1>1, <1>2, <1>4, <1>5, AnswerKeeps

LEMMA RevokeKeeps ==
  ASSUME SignInInv, NEW c \in Calls, Revoke(c)
  PROVE  SignInInv'
<1>1. PICK q \in Request : q = call[c] /\ Sound(q)
  BY CallIs
<1>2. q.kind = "logout" /\ (q.token = None \/ q.token \in Tokens)
  BY <1>1 DEF Revoke, Sound, Stage, Request
<1>3. /\ UNCHANGED <<world, audited, logins, codes, bearer, browser>> /\ Reply(c, "ok")
      /\ sessions' = IF q.token = None THEN sessions
                     ELSE [sessions EXCEPT ![q.token].revoked = TRUE]
  BY <1>1 DEF Revoke
<1>4. sessions \in [Tokens -> Row]
  BY DEF SignInInv, TypeOK
<1>5. /\ sessions' \in [Tokens -> Row]
      /\ \A t \in Tokens : /\ sessions'[t].user = sessions[t].user
                           /\ sessions'[t].expires = sessions[t].expires
                           /\ sessions[t].revoked => sessions'[t].revoked
  BY <1>2, <1>3, <1>4 DEF Row
<1>6. WorldTypes'
  BY <1>3, <1>5 DEF SignInInv, TypeOK, WorldTypes, world, browser
<1>7. now \in Nat
  BY SignInAssumption DEF SignInInv, TypeOK
<1>8. Stable
  BY <1>3, <1>5, <1>7 DEF Stable, world
<1>9. RowsAgree'
  BY <1>3, <1>8, CookieStays DEF browser, SignInInv, RowsAgree
<1> QED
  BY <1>1, <1>2, <1>3, <1>6, <1>8, <1>9, AnswerKeeps

LEMMA IssueBearerKeeps ==
  ASSUME SignInInv, NEW u \in Users, IssueBearer(u)
  PROVE  SignInInv'
<1>1. /\ bearer.user = None /\ bearer' = [user |-> u, expires |-> now + Ttl]
      /\ UNCHANGED <<world, sessions, audited, logins, codes, browser, call>>
  BY DEF IssueBearer
<1>2. now \in Nat /\ now + Ttl \in Nat
  BY SignInAssumption DEF SignInInv, TypeOK
<1>3. bearer' \in BearerToken
  BY <1>1, <1>2 DEF BearerToken, NoUser
<1>4. WorldTypes'
  BY <1>1, <1>3 DEF SignInInv, TypeOK, WorldTypes, world, browser
<1>5. Stable
  BY <1>1, <1>2 DEF Stable, world
<1>6. RowsAgree'
  BY <1>1, <1>5, CookieStays DEF browser, SignInInv, RowsAgree
<1> QED
  BY <1>1, <1>4, <1>5, <1>6, CallsAlone

\* A login transaction that was none of these before is opened.
LEMMA BeginKeeps ==
  ASSUME SignInInv, NEW c \in Calls, Begin(c)
  PROVE  SignInInv'
<1>1. PICK q \in Request : q = call[c] /\ Sound(q)
  BY CallIs
<1>2. q.kind = "start" /\ q.pc = "begin" /\ ~q.dead /\ ~q.replay
  BY <1>1 DEF Begin, Sound, Stage, Dying, Replaying
<1>3. UNCHANGED <<world, sessions, audited, codes, bearer, browser>>
  BY DEF Begin
<1>4. CASE logins' = logins /\ \E o \in {"limited", "failed"} : Reply(c, o)
  BY <1>3, <1>4, RefusedOnly DEF Outcome, server
<1>5. ASSUME NEW l \in Logins, NEW o \in {"ok", "unauthorized"},
             logins[l].state = "none",
             logins' = [logins EXCEPT ![l] = [state |-> "open", expires |-> now + LoginWindow]],
             call' = [call EXCEPT ![c] =
                        IF @.attached
                        THEN [@ EXCEPT !.pc = "reply", !.outcome = o, !.login = l]
                        ELSE NoCall]
      PROVE  SignInInv'
  <2>1. now \in Nat /\ now + LoginWindow \in Nat
    BY SignInAssumption DEF SignInInv, TypeOK
  <2>2. [state |-> "open", expires |-> now + LoginWindow] \in LoginRow
    BY <2>1 DEF LoginRow
  <2>3. logins \in [Logins -> LoginRow]
    BY DEF SignInInv, TypeOK
  <2>4. logins' \in [Logins -> LoginRow]
    BY <1>5, <2>2, <2>3
  <2>5. \A k \in Logins : logins[k].state = "consumed" => logins'[k].state = "consumed"
    BY <1>5, <2>3
  <2>6. WorldTypes'
    BY <1>3, <2>4 DEF SignInInv, TypeOK, WorldTypes, world, browser
  <2>7. Stable
    BY <1>3, <2>1, <2>5 DEF Stable, world
  <2>8. RowsAgree'
    BY <1>3, <2>5, <2>7, CookieStays DEF browser, SignInInv, RowsAgree
  <2>9. CASE ~q.attached
    <3>1. call' = [call EXCEPT ![c] = NoCall]
      BY <1>1, <1>5, <2>9
    <3>2. Sound(NoCall)'
      BY DEF Sound, Stage, Bearing, Dying, Replaying, NoCall
    <3> QED
      BY <2>6, <2>7, <2>8, <3>1, <3>2, IdleIs, MovesOn
  <2>10. CASE q.attached
    <3>1. PICK r \in Request : r = [q EXCEPT !.pc = "reply", !.outcome = o, !.login = l]
      BY DEF Request, Pc, Outcome
    <3>2. r.kind = "start" /\ r.pc = "reply" /\ ~r.dead /\ ~r.replay /\ r.attached
      BY <1>2, <2>10, <3>1 DEF Request
    <3>3. call' = [call EXCEPT ![c] = r]
      BY <1>1, <1>5, <2>10, <3>1
    <3>4. Sound(r)'
      BY <3>2 DEF Sound, Stage, Bearing, Dying, Replaying
    <3> QED
      BY <2>6, <2>7, <2>8, <3>3, <3>4, MovesOn
  <2> QED
    BY <2>9, <2>10
<1> QED
  BY <1>4, <1>5 DEF Begin

LEMMA ConsumeKeeps ==
  ASSUME SignInInv, NEW c \in Calls, Consume(c)
  PROVE  SignInInv'
<1>1. PICK q \in Request : q = call[c] /\ Sound(q)
  BY CallIs
<1>2. /\ q.pc = "consume" /\ q.kind = "callback" /\ q.login \in Logins /\ ~q.dead /\ ~q.replay
      /\ q.outcome = "none"
  BY <1>1 DEF Consume, Sound, Stage, Dying, Replaying
<1>3. /\ UNCHANGED <<world, sessions, audited, codes, bearer, browser>>
      /\ logins' = [logins EXCEPT ![q.login] = [@ EXCEPT !.state = "consumed"]]
      /\ Goto(c, "exchange")
  BY <1>1 DEF Consume, AfterConsume
<1>4. logins \in [Logins -> LoginRow]
  BY DEF SignInInv, TypeOK
<1>5. /\ logins' \in [Logins -> LoginRow]
      /\ logins'[q.login].state = "consumed"
      /\ \A k \in Logins : logins[k].state = "consumed" => logins'[k].state = "consumed"
  BY <1>2, <1>3, <1>4 DEF LoginRow
<1>6. now \in Nat
  BY SignInAssumption DEF SignInInv, TypeOK
<1>7. WorldTypes'
  BY <1>3, <1>5 DEF SignInInv, TypeOK, WorldTypes, world, browser
<1>8. Stable
  BY <1>3, <1>5, <1>6 DEF Stable, world
<1>9. RowsAgree'
  BY <1>3, <1>5, <1>8, CookieStays DEF browser, SignInInv, RowsAgree
<1>10. PICK r \in Request :
         /\ call' = [call EXCEPT ![c] = r]
         /\ r.kind = q.kind /\ r.pc = "exchange" /\ r.outcome = q.outcome
         /\ r.user = q.user /\ r.token = q.token /\ r.login = q.login
         /\ r.dead = q.dead /\ r.replay = q.replay
  BY <1>1, <1>3, GotoIs DEF SignInInv, Pc
<1>11. Sound(r)'
  BY <1>2, <1>5, <1>10 DEF Sound, Stage, Bearing, Dying, Replaying
<1> QED
  BY <1>7, <1>8, <1>9, <1>10, <1>11, MovesOn

\* Only a consumed transaction has its code used.
LEMMA ExchangeKeeps ==
  ASSUME SignInInv, NEW c \in Calls, Exchange(c)
  PROVE  SignInInv'
<1>1. PICK q \in Request : q = call[c] /\ Sound(q)
  BY CallIs
<1>2. /\ q.pc = "exchange" /\ q.kind = "callback" /\ q.login \in Logins /\ ~q.dead /\ ~q.replay
      /\ q.outcome = "none" /\ logins[q.login].state = "consumed"
  BY <1>1 DEF Exchange, Sound, Stage, Dying, Replaying
<1>3. /\ UNCHANGED <<world, sessions, audited, logins, bearer, browser>>
      /\ codes' = [codes EXCEPT ![q.login].state = "used"]
  BY <1>1 DEF Exchange
<1>4. codes \in [Logins -> Code]
  BY DEF SignInInv, TypeOK
<1>5. codes' \in [Logins -> Code]
  BY <1>2, <1>3, <1>4 DEF Code
<1>6. \A l \in Logins : codes'[l].state = "used" => logins'[l].state = "consumed"
  <2>1. \A l \in Logins : l # q.login => codes'[l] = codes[l]
    BY <1>3, <1>4
  <2> QED
    BY <1>2, <1>3, <2>1 DEF SignInInv, RowsAgree
<1>7. now \in Nat
  BY SignInAssumption DEF SignInInv, TypeOK
<1>8. WorldTypes'
  BY <1>3, <1>5 DEF SignInInv, TypeOK, WorldTypes, world, browser
<1>9. Stable
  BY <1>3, <1>7 DEF Stable, world
<1>10. RowsAgree'
  BY <1>3, <1>6, <1>9, CookieStays DEF browser
<1>11. CASE Reply(c, "unauthorized")
  BY <1>8, <1>9, <1>10, <1>11, RefusedIs DEF SignInInv, Outcome
<1>12. CASE /\ codes[q.login].state = "issued"
            /\ call' = [call EXCEPT ![c] = [@ EXCEPT !.pc = "map", !.user = codes[q.login].user]]
  <2>1. codes[q.login].user \in NoUser
    BY <1>2, <1>4 DEF Code
  <2>2. PICK r \in Request : r = [q EXCEPT !.pc = "map", !.user = codes[q.login].user]
    BY <2>1 DEF Request, Pc
  <2>3. /\ r.kind = "callback" /\ r.pc = "map" /\ r.outcome = "none" /\ r.login = q.login
        /\ ~r.dead /\ ~r.replay
    BY <1>2, <2>2 DEF Request
  <2>4. call' = [call EXCEPT ![c] = r]
    BY <1>1, <1>12, <2>2 DEF SignInInv, TypeOK
  <2>5. Sound(r)'
    BY <1>2, <2>3 DEF Sound, Stage, Bearing, Dying, Replaying
  <2> QED
    BY <1>8, <1>9, <1>10, <2>4, <2>5, MovesOn
<1> QED
  BY <1>1, <1>11, <1>12 DEF Exchange

LEMMA ServerKeeps ==
  ASSUME SignInInv, NEW c \in Calls, Server(c)
  PROVE  SignInInv'
BY AuthenticateKeeps, AuditKeeps, VerifyKeeps, SeenKeeps, RevokeKeeps, IssueKeeps,
   VerifyBearerKeeps, BeginKeeps, ReadLoginKeeps, ConsumeKeeps, ExchangeKeeps, MapUserKeeps,
   BreakKeeps
   DEF Server

-----------------------------------------------------------------------------
(* The client receives *)

\* What a step of the browser has to show.
LEMMA BrowserMoves ==
  ASSUME SignInInv, UNCHANGED <<world, server>>, jar' \in Cookies, client' \in ClientState,
         jar'.session # None => Issued(jar'.session) /\ jar'.session \in audited
  PROVE  WorldTypes' /\ RowsAgree' /\ Stable
<1>1. WorldTypes'
  BY DEF SignInInv, TypeOK, WorldTypes, world, server
<1>2. RowsAgree'
  BY DEF SignInInv, RowsAgree, world, server, Issued
<1> QED
  BY <1>1, <1>2, RowsUnchanged DEF SignInInv

\* The cookies stay as they are.
LEMMA SameCookies ==
  ASSUME SignInInv, jar' = jar
  PROVE  /\ jar' \in Cookies
         /\ jar'.session # None => Issued(jar'.session) /\ jar'.session \in audited
BY DEF SignInInv, RowsAgree, TypeOK, Issued

LEMMA ReceiveKeeps ==
  ASSUME SignInInv, NEW c \in Calls, Done(c), UNCHANGED <<world, server>>, jar' \in Cookies,
         client' \in ClientState,
         jar'.session # None => Issued(jar'.session) /\ jar'.session \in audited
  PROVE  SignInInv'
<1>1. WorldTypes' /\ RowsAgree'
  BY BrowserMoves
<1> QED
  BY <1>1, IdleIs, IdleIsSound, OneCallOnly DEF Done

\* The states the client can reach from where it is.
LEMMA ClientStates ==
  ASSUME SignInInv
  PROVE  /\ client \in ClientState /\ ClearSession \in ClientState
         /\ \A p \in {"boot", "sign-in", "app", "away"} :
              /\ [client EXCEPT !.page = p] \in ClientState
              /\ [ClearSession EXCEPT !.page = p] \in ClientState
              /\ \A u \in NoUser : [SetSession(u) EXCEPT !.page = p] \in ClientState
         /\ Booting \in ClientState
<1>1. client \in ClientState
  BY DEF SignInInv, TypeOK
<1> QED
  BY <1>1 DEF ClientState, ClearSession, SetSession, Booting, NoUser

\* An answer to a login carries a session that is stored and audited.
LEMMA AnsweredSession ==
  ASSUME SignInInv, NEW c \in Calls, call[c].outcome = "ok", call[c].kind \in {"login", "callback"}
  PROVE  /\ call[c].token \in Tokens /\ Issued(call[c].token) /\ call[c].token \in audited
BY CallIs DEF Sound, Bearing

\* The browser takes a session that is stored and audited, or drops one.
LEMMA TakeCookieKeeps ==
  ASSUME SignInInv, NEW c \in Calls, TakeCookie(c)
  PROVE  SignInInv'
<1>1. PICK q \in Request : q = call[c] /\ Sound(q)
  BY CallIs
<1>2. /\ q.pc = "reply" /\ ChangesCookie(q) /\ Goto(c, "taken")
      /\ UNCHANGED <<world, server>> /\ client' = client
      /\ jar' = [jar EXCEPT !.session = IF q.kind = "login" THEN q.token ELSE None]
  BY <1>1 DEF TakeCookie
<1>3. q.kind = "login" => q.token \in Tokens /\ Issued(q.token) /\ q.token \in audited
  BY <1>1, <1>2, AnsweredSession
<1>4. jar' \in Cookies /\ jar'.session = IF q.kind = "login" THEN q.token ELSE None
  BY <1>2, <1>3 DEF SignInInv, TypeOK, Cookies
<1>5. WorldTypes' /\ RowsAgree'
  <2>1. jar'.session # None => Issued(jar'.session) /\ jar'.session \in audited
    BY <1>3, <1>4 DEF Issued
  <2> QED
    BY <1>2, <1>4, <2>1, ClientStates, BrowserMoves
<1>6. PICK r \in Request :
         /\ call' = [call EXCEPT ![c] = r]
         /\ r.kind = q.kind /\ r.pc = "taken" /\ r.outcome = q.outcome
         /\ r.user = q.user /\ r.token = q.token /\ r.login = q.login
         /\ r.dead = q.dead /\ r.replay = q.replay /\ r.attached = q.attached
  BY <1>1, <1>2, GotoIs DEF SignInInv, Pc
<1>7. Sound(r)
  BY <1>1, <1>2, <1>6 DEF Sound, Stage, Bearing, Dying, Replaying
<1> QED
  BY <1>2, <1>5, <1>6, <1>7, OneCallOnly

LEMMA ReceiveLoginKeeps ==
  ASSUME SignInInv, NEW c \in Calls, ReceiveLogin(c)
  PROVE  SignInInv'
<1>1. Done(c) /\ UNCHANGED <<world, server>> /\ jar' = jar
  BY DEF ReceiveLogin
<1>2. call[c].user \in NoUser
  BY DEF SignInInv, TypeOK, Request
<1>3. PICK b \in BOOLEAN : b <=> jar.session # call[c].token
  OBVIOUS
<1>4. \/ client' = [SetSession(call[c].user) EXCEPT !.page = "app", !.late = b]
      \/ client' \in {client, ClearSession}
  BY <1>3, Zenon DEF ReceiveLogin
<1>5. client' \in ClientState
  <2>1. [SetSession(call[c].user) EXCEPT !.page = "app", !.late = b] \in ClientState
    BY <1>2 DEF SignInInv, TypeOK, ClientState, SetSession
  <2> QED
    BY <1>4, <2>1, ClientStates
<1> QED
  BY <1>1, <1>5, SameCookies, ReceiveKeeps

LEMMA ReceiveSessionKeeps ==
  ASSUME SignInInv, NEW c \in Calls, ReceiveInit(c) \/ ReceiveApi(c) \/ ReceiveBearer(c)
  PROVE  SignInInv'
<1>1. Done(c) /\ UNCHANGED <<world, server>> /\ jar' = jar
  BY DEF ReceiveInit, ReceiveApi, ReceiveBearer, browser
<1>2. call[c].user \in NoUser
  BY DEF SignInInv, TypeOK, Request
<1>3. client' \in ClientState
  BY <1>2, ClientStates DEF ReceiveInit, ReceiveApi, ReceiveBearer, browser
<1> QED
  BY <1>1, <1>3, SameCookies, ReceiveKeeps

LEMMA ReceiveLogoutKeeps ==
  ASSUME SignInInv, NEW c \in Calls, ReceiveLogout(c)
  PROVE  SignInInv'
<1>1. /\ Done(c) /\ UNCHANGED <<world, server>> /\ jar' = jar
      /\ client' = [ClearSession EXCEPT !.page = "sign-in"]
  BY DEF ReceiveLogout
<1>2. client' \in ClientState
  BY <1>1, ClientStates
<1> QED
  BY <1>1, <1>2, SameCookies, ReceiveKeeps

LEMMA ReceiveStartKeeps ==
  ASSUME SignInInv, NEW c \in Calls, ReceiveStart(c)
  PROVE  SignInInv'
<1>1. Done(c) /\ UNCHANGED <<world, server>> /\ client' = client
  BY DEF ReceiveStart
<1>2. client' \in ClientState
  BY <1>1, ClientStates
<1>3. call[c].login \in {None} \cup Logins
  BY DEF SignInInv, TypeOK, Request
<1>4. jar' \in Cookies /\ jar'.session = jar.session
  BY <1>3 DEF ReceiveStart, SignInInv, TypeOK, Cookies
<1>5. jar'.session # None => Issued(jar'.session) /\ jar'.session \in audited
  BY <1>4 DEF SignInInv, RowsAgree, Issued
<1> QED
  BY <1>1, <1>2, <1>4, <1>5, ReceiveKeeps

LEMMA ReceiveCallbackKeeps ==
  ASSUME SignInInv, NEW c \in Calls, ReceiveCallback(c)
  PROVE  SignInInv'
<1>1. call[c].kind = "callback" /\ Done(c) /\ UNCHANGED <<world, server>>
  BY DEF ReceiveCallback, Receives
<1>2. CASE /\ call[c].outcome = "ok"
           /\ jar' = [session |-> call[c].token, binding |-> None]
           /\ client' = Booting
  <2>1. call[c].token \in Tokens /\ Issued(call[c].token) /\ call[c].token \in audited
    BY <1>1, <1>2, AnsweredSession
  <2>2. jar' \in Cookies /\ jar'.session = call[c].token
    BY <1>2, <2>1 DEF Cookies
  <2>3. Issued(jar'.session) /\ jar'.session \in audited
    BY <2>1, <2>2 DEF Issued
  <2> QED
    BY <1>1, <1>2, <2>2, <2>3, ClientStates, ReceiveKeeps
<1>3. CASE UNCHANGED browser
  <2>1. client' = client /\ jar' = jar
    BY <1>3 DEF browser
  <2> QED
    BY <1>1, <2>1, ClientStates, SameCookies, ReceiveKeeps
<1> QED
  BY <1>2, <1>3 DEF ReceiveCallback

LEMMA GiveUpKeeps ==
  ASSUME SignInInv, NEW c \in Calls, GiveUp(c)
  PROVE  SignInInv'
<1>1. PICK q \in Request : q = call[c] /\ Sound(q)
  BY CallIs
<1>2. PICK r \in Request : r = Alone(q) /\ Sound(r)
  BY <1>1, AloneIs
<1>3. call' = [call EXCEPT ![c] = r] /\ UNCHANGED <<world, server>> /\ jar' = jar
  BY <1>1, <1>2 DEF GiveUp, SignInInv, TypeOK
<1>4. client' \in ClientState
  BY ClientStates DEF GiveUp
<1>5. WorldTypes' /\ RowsAgree'
  BY <1>3, <1>4, SameCookies, BrowserMoves
<1> QED
  BY <1>2, <1>3, <1>5, OneCallOnly

LEMMA ClientKeeps ==
  ASSUME SignInInv, NEW c \in Calls, Client(c)
  PROVE  SignInInv'
BY TakeCookieKeeps, ReceiveLoginKeeps, ReceiveSessionKeeps, ReceiveLogoutKeeps, ReceiveStartKeeps,
   ReceiveCallbackKeeps, GiveUpKeeps
   DEF Client

-----------------------------------------------------------------------------
(* Around it *)

LEMMA PageKeeps ==
  ASSUME SignInInv, Navigate \/ Reload
  PROVE  SignInInv'
<1>1. UNCHANGED <<world, server>> /\ jar' = jar
  BY DEF Navigate, Reload
<1>2. client' \in ClientState
  BY ClientStates DEF Navigate, Reload
<1>3. WorldTypes' /\ RowsAgree' /\ Stable
  BY <1>1, <1>2, SameCookies, BrowserMoves
<1>4. CASE call' = call
  BY <1>3, <1>4, CallsAlone
<1>5. CASE call' = Detached
  BY <1>1, <1>3, <1>5, IdleIs, IdleIsSound, DetachedOnly
<1> QED
  BY <1>4, <1>5 DEF Navigate, Reload

\* The provider's codes are not consumed by being handed out.
LEMMA AuthorizeKeeps ==
  ASSUME SignInInv, NEW l \in Logins, NEW u \in Users, Authorize(l, u)
  PROVE  SignInInv'
<1>1. /\ UNCHANGED <<world, sessions, audited, logins, bearer, browser, call>>
      /\ codes' = [codes EXCEPT ![l] = [state |-> "issued", user |-> u]]
  BY DEF Authorize
<1>2. codes \in [Logins -> Code]
  BY DEF SignInInv, TypeOK
<1>3. [state |-> "issued", user |-> u] \in Code
  BY DEF Code, NoUser
<1>4. /\ codes' \in [Logins -> Code]
      /\ \A k \in Logins : codes'[k].state = "used" => codes[k].state = "used"
  BY <1>1, <1>2, <1>3
<1>5. now \in Nat
  BY SignInAssumption DEF SignInInv, TypeOK
<1>6. WorldTypes'
  BY <1>1, <1>4 DEF SignInInv, TypeOK, WorldTypes, world, browser
<1>7. Stable
  BY <1>1, <1>5 DEF Stable, world
<1>8. RowsAgree'
  BY <1>1, <1>4, <1>7, CookieStays DEF browser, SignInInv, RowsAgree
<1> QED
  BY <1>1, <1>6, <1>7, <1>8, CallsAlone

LEMMA DisableKeeps ==
  ASSUME SignInInv, NEW u \in Users, Disable(u)
  PROVE  SignInInv'
<1>1. UNCHANGED <<provider, now, server, browser, call>> /\ active' = active \ {u}
  BY DEF Disable
<1>2. now \in Nat
  BY SignInAssumption DEF SignInInv, TypeOK
<1>3. WorldTypes'
  BY <1>1 DEF SignInInv, TypeOK, WorldTypes, server, browser
<1>4. Stable
  BY <1>1, <1>2 DEF Stable, server
<1>5. RowsAgree'
  BY <1>1, <1>4, CookieStays DEF server, browser, SignInInv, RowsAgree
<1> QED
  BY <1>1, <1>3, <1>4, <1>5, CallsAlone

\* Time drops cookies and never brings one.
LEMMA TickKeeps ==
  ASSUME SignInInv, Tick
  PROVE  SignInInv'
<1>1. /\ now < MaxTime /\ now' = now + 1
      /\ UNCHANGED <<provider, active, server, client, call>>
      /\ jar'.session \in {None, jar.session} /\ jar'.binding \in {None, jar.binding}
      /\ jar' = [session |-> jar'.session, binding |-> jar'.binding]
  BY DEF Tick
<1>2. now \in 0 .. MaxTime /\ MaxTime \in Nat
  BY SignInAssumption DEF SignInInv, TypeOK
<1>3. now' \in 0 .. MaxTime /\ now <= now'
  BY <1>1, <1>2
<1>4. jar' \in Cookies
  BY <1>1 DEF SignInInv, TypeOK, Cookies
<1>5. WorldTypes'
  BY <1>1, <1>3, <1>4 DEF SignInInv, TypeOK, WorldTypes, server
<1>6. Stable
  BY <1>1, <1>3 DEF Stable, server
<1>7. RowsAgree'
  BY <1>1 DEF server, SignInInv, RowsAgree, Issued
<1> QED
  BY <1>1, <1>5, <1>6, <1>7, CallsAlone

LEMMA SignInStep ==
  ASSUME SignInInv, [Next]_vars
  PROVE  SignInInv'
<1>1. CASE UNCHANGED vars
  BY <1>1 DEF vars, SignInInv, TypeOK, AllSound, RowsAgree, Sound, Stage, Bearing, Dying,
     Replaying, Issued, Usable, Expired
<1>2. CASE Next
  BY <1>2, SendsKeep, ServerKeeps, ClientKeeps, IssueBearerKeeps, DisableKeeps, AuthorizeKeeps,
     PageKeeps, TickKeeps
     DEF Next
<1> QED
  BY <1>1, <1>2

LEMMA SignInInit ==
  ASSUME Init
  PROVE  SignInInv
<1> USE SignInAssumption
<1>1. \A c \in Calls : Sound(call[c])
  BY IdleIsSound DEF Init, Sound, Stage, Bearing, Dying, Replaying, NoCall
<1>2. RowsAgree
  BY DEF Init, RowsAgree
<1>3. WorldTypes
  BY DEF Init, WorldTypes, Row, NoRow, LoginRow, Code, BearerToken, Cookies, ClientState, Booting,
     NoUser
<1>4. call \in [Calls -> Request]
  BY IdleIs DEF Init
<1> QED
  BY <1>1, <1>2, <1>3, <1>4, TypesSplit DEF SignInInv, AllSound

LEMMA SignInHolds == Spec => []SignInInv
<1>1. Init => SignInInv
  BY SignInInit
<1>2. SignInInv /\ [Next]_vars => SignInInv'
  BY SignInStep
<1> QED
  BY <1>1, <1>2, PTL DEF Spec

-----------------------------------------------------------------------------
(* What the browser shows *)

\* The pages on which the client waits for an answer of each kind.
Belongs(kind, page) ==
  /\ kind = "init" => page = "boot"
  /\ kind \in {"start", "callback"} => page = "away"
  /\ kind \in {"login", "api", "logout"} => page \in {"sign-in", "app"}

\* A client waits for requests that are under way, from the page it is on.
WaitsInPlace ==
  \A c \in Calls :
    call[c].attached => call[c].pc # "idle" /\ Belongs(call[c].kind, client.page)

\* Nothing else goes on beside a navigation.
Navigating(req) == req.attached /\ req.kind \in {"init", "start", "callback"}

OneNavigates == \A c, d \in Calls : Navigating(call[c]) /\ Navigating(call[d]) => c = d

\* The cookie t was dropped since, or there was none.
Dropped(t) == jar.session = None /\ (t = None \/ Expired(sessions[t].expires, now))

\* The first request of a page was sent with the cookie of the browser.
InitCarriesCookie ==
  \A c \in Calls :
    call[c].attached /\ call[c].kind = "init" =>
      call[c].token = jar.session \/ Dropped(call[c].token)

\* The client signs in once at a time, with nobody shown.  The cookie of the
\* sign-in may only be lost before its screen, never be exchanged for another.
SigningIn(req) == req.attached /\ req.kind = "login"

OneSignsIn ==
  /\ \A c, d \in Calls : SigningIn(call[c]) /\ SigningIn(call[d]) => c = d
  /\ \A c \in Calls :
       SigningIn(call[c]) =>
         /\ client.shown = None
         /\ call[c].pc = "taken" => jar.session \in {None, call[c].token}

ShownInv ==
  WaitsInPlace /\ OneNavigates /\ InitCarriesCookie /\ OneSignsIn /\ ShownUserHoldsCookie

Outlived(u) == \E t \in Tokens : sessions[t].user = u /\ Expired(sessions[t].expires, now)

HoldsCookie(u) ==
  \/ jar.session # None /\ sessions[jar.session].user = u
  \/ jar.session = None /\ (client.late \/ SigningOut \/ Outlived(u))

LEMMA ShownMeans == ShownUserHoldsCookie <=> (client.shown # None => HoldsCookie(client.shown))
BY DEF ShownUserHoldsCookie, HoldsCookie, Outlived

\* Who a row is of, and how long, does not change once it is issued.
RowsKeep ==
  /\ now' \in Nat /\ now <= now'
  /\ \A t \in Tokens :
       Issued(t) => /\ sessions'[t].user = sessions[t].user
                    /\ sessions'[t].expires = sessions[t].expires
                    /\ sessions[t].revoked => sessions'[t].revoked

LEMMA StepKeepsRows ==
  ASSUME SignInInv, [Next]_vars
  PROVE  RowsKeep
<1>1. now \in Nat /\ MaxTime \in Nat /\ sessions \in [Tokens -> Row]
  BY SignInAssumption DEF SignInInv, TypeOK
<1>2. CASE sessions' = sessions
  <2>1. now' \in Nat /\ now <= now'
    <3>1. now' = now \/ now' = now + 1
      BY DEF Next, vars, Sends, Server, Client, SendLogin, SendInit, SendApi, SendLogout, SendStart,
         SendCallback, SendBearer, Authenticate, Audit, Verify, Seen, Revoke, Issue, VerifyBearer,
         Begin, ReadLogin, Consume, Exchange, MapUser, Break, TakeCookie, ReceiveLogin, ReceiveInit,
         ReceiveApi, ReceiveLogout, ReceiveStart, ReceiveCallback, ReceiveBearer, GiveUp,
         IssueBearer, Disable, Authorize, Navigate, Reload, Tick, world
    <3> QED
      BY <1>1, <3>1
  <2> QED
    BY <1>2, <2>1 DEF RowsKeep
<1>3. CASE \E c \in Calls : Seen(c)
  <2>1. PICK c \in Calls : Seen(c)
    BY <1>3
  <2>2. now' = now /\ sessions' = [sessions EXCEPT ![call[c].token] = sessions[call[c].token]]
    BY <2>1 DEF Seen, AfterSeen, world
  <2> QED
    BY <1>1, <2>2 DEF RowsKeep
<1>4. CASE \E c \in Calls : Revoke(c)
  <2>1. PICK c \in Calls : Revoke(c)
    BY <1>4
  <2>2. /\ now' = now
        /\ sessions' = IF call[c].token = None THEN sessions
                       ELSE [sessions EXCEPT ![call[c].token].revoked = TRUE]
    BY <2>1 DEF Revoke, world
  <2> QED
    BY <1>1, <2>2 DEF RowsKeep, Row
<1>5. CASE \E c \in Calls, t \in Tokens : Issue(c, t)
  <2>1. PICK c \in Calls, t \in Tokens : Issue(c, t)
    BY <1>5
  <2>2. /\ now' = now /\ ~Issued(t)
        /\ sessions' = [sessions EXCEPT ![t] = [user |-> call[c].user, expires |-> now + Ttl,
                                                revoked |-> FALSE]]
    BY <2>1 DEF Issue, Unissued, Issued, NoRow, world
  <2>3. \A s \in Tokens : s # t => sessions'[s] = sessions[s]
    BY <1>1, <2>2
  <2> QED
    BY <1>1, <2>2, <2>3 DEF RowsKeep
<1> QED
  BY <1>2, <1>3, <1>4, <1>5
     DEF Next, vars, Sends, Server, Client, SendLogin, SendInit, SendApi, SendLogout, SendStart,
         SendCallback, SendBearer, Authenticate, Audit, Verify, VerifyBearer,
         Begin, ReadLogin, Consume, Exchange, MapUser, Break, TakeCookie, ReceiveLogin, ReceiveInit,
         ReceiveApi, ReceiveLogout, ReceiveStart, ReceiveCallback, ReceiveBearer, GiveUp,
         IssueBearer, Disable, Authorize, Navigate, Reload, Tick, server

\* While a user stays on the screen, so does what excuses a missing cookie.
ExcusesStay ==
  client'.shown # None => client'.late = client.late /\ (SigningOut => SigningOut')

\* A cookie that is left alone goes on being a session of its user.
LEMMA CookieStillHeld ==
  ASSUME SignInInv, RowsKeep, jar'.session = jar.session, ExcusesStay, client'.shown # None,
         NEW u \in Users, HoldsCookie(u)
  PROVE  HoldsCookie(u)'
<1>1. /\ now \in Nat /\ now' \in Nat /\ now <= now' /\ None \notin Users
      /\ \A t \in Tokens : sessions[t].expires \in Nat
      /\ jar.session \in {None} \cup Tokens
  BY SignInAssumption DEF SignInInv, TypeOK, Row, RowsKeep, Cookies
<1>2. \A t \in Tokens : sessions[t].user = u =>
        sessions'[t].user = u /\ sessions'[t].expires = sessions[t].expires
  BY <1>1 DEF RowsKeep, Issued
<1>3. CASE jar.session # None /\ sessions[jar.session].user = u
  BY <1>1, <1>2, <1>3 DEF HoldsCookie
<1>4. CASE jar.session = None /\ (client.late \/ SigningOut)
  BY <1>4, Zenon DEF HoldsCookie, ExcusesStay
<1>5. CASE jar.session = None /\ Outlived(u)
  <2>1. PICK t \in Tokens : sessions[t].user = u /\ sessions[t].expires <= now
    BY <1>5 DEF Outlived, Expired
  <2>2. sessions'[t].user = u /\ sessions'[t].expires <= now'
    BY <1>1, <1>2, <2>1
  <2> QED
    BY <1>5, <2>2 DEF HoldsCookie, Outlived, Expired
<1> QED
  BY <1>3, <1>4, <1>5 DEF HoldsCookie

LEMMA StaysDropped ==
  ASSUME SignInInv, RowsKeep, jar'.session = jar.session,
         NEW t \in {None} \cup Tokens, t = None \/ Issued(t), t = jar.session \/ Dropped(t)
  PROVE  t = jar'.session \/ Dropped(t)'
<1>1. CASE t # None /\ Dropped(t)
  <2>1. /\ now \in Nat /\ now' \in Nat /\ now <= now' /\ sessions[t].expires \in Nat
        /\ sessions'[t].expires = sessions[t].expires
    BY <1>1, SignInAssumption DEF SignInInv, TypeOK, Row, RowsKeep
  <2> QED
    BY <1>1, <2>1 DEF Dropped, Expired
<1> QED
  BY <1>1 DEF Dropped

\* Whoever waited before and still does waits for the same.
StillWaits(c) ==
  call'[c].attached =>
    /\ call[c].attached
    /\ call'[c].kind = call[c].kind /\ call'[c].pc # "idle"
    /\ call[c].kind = "init" => call'[c].token = call[c].token
    /\ call'[c].pc = "taken" => call[c].pc = "taken" /\ call'[c].token = call[c].token

\* What was asked with the cookie, and shown with it, while no cookie moves.
LEMMA InitStillCarries ==
  ASSUME SignInInv, ShownInv, RowsKeep, jar'.session = jar.session, NEW c \in Calls,
         StillWaits(c), call'[c].attached, call'[c].kind = "init"
  PROVE  call'[c].token = jar'.session \/ Dropped(call[c].token)'
<1>1. PICK q \in Request : q = call[c] /\ Sound(q)
  BY CallIs
<1>2. PICK t \in {None} \cup Tokens : t = q.token
  BY DEF Request
<1>3. q.attached /\ q.kind = "init" /\ call'[c].token = t
  BY <1>1, <1>2 DEF StillWaits
<1>4. t = None \/ Issued(t)
  BY <1>1, <1>2, <1>3 DEF Sound, Bearing
<1>5. t = jar.session \/ Dropped(t)
  BY <1>1, <1>2, <1>3 DEF ShownInv, InitCarriesCookie
<1>6. t = jar'.session \/ Dropped(t)'
  BY <1>4, <1>5, StaysDropped
<1> QED
  BY <1>3, <1>6 DEF Dropped

LEMMA ShownStillHolds ==
  ASSUME SignInInv, ShownInv, RowsKeep, jar'.session = jar.session,
         client'.shown \in {None, client.shown}, ExcusesStay
  PROVE  ShownUserHoldsCookie'
<1>1. CASE client'.shown = None
  BY <1>1 DEF ShownUserHoldsCookie
<1>2. CASE client'.shown # None
  <2>1. PICK u \in Users : u = client.shown /\ client'.shown = client.shown
    BY <1>2 DEF SignInInv, TypeOK, ClientState, NoUser
  <2>2. HoldsCookie(u)
    BY <2>1, SignInAssumption, ShownMeans DEF ShownInv
  <2>3. HoldsCookie(u)'
    BY <1>2, <2>2, CookieStillHeld
  <2> QED
    BY <2>1, <2>3 DEF HoldsCookie, Outlived, ShownUserHoldsCookie
<1> QED
  BY <1>1, <1>2

\* The sign-in that goes on is the one that did, and loses its cookie at most.
LEMMA SignInGoesOn ==
  ASSUME SignInInv, ShownInv, \A c \in Calls : StillWaits(c),
         jar'.session \in {None, jar.session}, client'.shown \in {None, client.shown}
  PROVE  OneSignsIn'
<1>1. ASSUME NEW c \in Calls, SigningIn(call'[c])
      PROVE  /\ SigningIn(call[c])
             /\ call'[c].pc = "taken" => call[c].pc = "taken" /\ call'[c].token = call[c].token
  BY <1>1 DEF StillWaits, SigningIn
<1>2. \A c, d \in Calls : SigningIn(call'[c]) /\ SigningIn(call'[d]) => c = d
  BY <1>1 DEF ShownInv, OneSignsIn
<1>3. ASSUME NEW c \in Calls, SigningIn(call'[c])
      PROVE  /\ client'.shown = None
             /\ call'[c].pc = "taken" => jar'.session \in {None, call'[c].token}
  BY <1>1, <1>3 DEF ShownInv, OneSignsIn
<1> QED
  BY <1>2, <1>3 DEF OneSignsIn, SigningIn

LEMMA NobodySignsIn ==
  ASSUME \A c \in Calls : call'[c].attached => call'[c].kind # "login"
  PROVE  OneSignsIn'
BY DEF OneSignsIn, SigningIn

\* A step on which no page turns and no cookie moves.
LEMMA QuietStep ==
  ASSUME SignInInv, ShownInv, RowsKeep, \A c \in Calls : StillWaits(c),
         jar'.session = jar.session, client'.page = client.page,
         client'.shown \in {None, client.shown}, ExcusesStay
  PROVE  ShownInv'
<1>1. WaitsInPlace'
  BY DEF ShownInv, WaitsInPlace, StillWaits, Belongs
<1>2. OneNavigates'
  BY DEF ShownInv, OneNavigates, StillWaits, Navigating
<1>3. InitCarriesCookie'
  BY InitStillCarries DEF InitCarriesCookie, Dropped
<1>4. ShownUserHoldsCookie'
  BY ShownStillHolds
<1>5. OneSignsIn'
  BY SignInGoesOn
<1> QED
  BY <1>1, <1>2, <1>3, <1>4, <1>5 DEF ShownInv

\* A page that turns, with nobody left who navigates.
LEMMA PageTurns ==
  ASSUME SignInInv, ShownInv, ShownUserHoldsCookie', OneSignsIn',
         \A c \in Calls :
           call'[c].attached =>
             /\ call'[c].pc # "idle" /\ Belongs(call'[c].kind, client'.page)
             /\ call'[c].kind \notin {"init", "start", "callback"}
  PROVE  ShownInv'
BY DEF ShownInv, WaitsInPlace, OneNavigates, Navigating, InitCarriesCookie, Belongs

\* The browser leaves: everything it waited for is let go.
LEMMA Departs ==
  ASSUME SignInInv, ShownInv, ShownUserHoldsCookie', NEW c \in Calls, NEW r \in Request,
         call' = [Detached EXCEPT ![c] = r], r.kind \in {"start", "callback"}, r.pc # "idle",
         client'.page = "away"
  PROVE  ShownInv'
<1>1. ASSUME NEW d \in Calls, d # c PROVE ~call'[d].attached
  <2>1. PICK q \in Request : q = call[d]
    BY CallIs
  <2>2. call'[d] = Alone(q)
    BY <1>1, <2>1 DEF Detached
  <2>3. ~Alone(q).attached
    BY DEF Alone, NoCall, Request
  <2> QED
    BY <2>2, <2>3
<1>2. call'[c] = r
  BY DEF Detached
<1>3. OneSignsIn'
  BY <1>1, <1>2, NobodySignsIn
<1> QED
  BY <1>1, <1>2, <1>3
     DEF ShownInv, WaitsInPlace, OneNavigates, Navigating, InitCarriesCookie, Belongs

\* A request is sent from the page it belongs on, and by no navigation.
LEMMA Joins ==
  ASSUME SignInInv, ShownInv, RowsKeep, UNCHANGED browser, NEW c \in Calls, NEW r \in Request,
         call[c].pc = "idle", call' = [call EXCEPT ![c] = r], r.pc \notin {"idle", "taken"},
         Belongs(r.kind, client.page), r.kind \notin {"start", "callback"},
         r.kind = "login" => client.shown = None /\ \A d \in Calls : ~SigningIn(call[d]),
         r.kind = "init" => /\ r.token = jar.session
                            /\ \A d \in Calls : ~Navigating(call[d])
  PROVE  ShownInv'
<1>1. /\ call'[c] = r
      /\ \A d \in Calls : d # c => call'[d] = call[d]
      /\ jar' = jar /\ client' = client
  BY DEF SignInInv, TypeOK, browser
<1>2. \A d \in Calls : d # c => StillWaits(d)
  BY <1>1 DEF StillWaits, ShownInv, WaitsInPlace
<1>3. WaitsInPlace'
  BY <1>1 DEF ShownInv, WaitsInPlace, Belongs
<1>4. OneNavigates'
  BY <1>1 DEF ShownInv, OneNavigates, Navigating
<1>5. InitCarriesCookie'
  <2>1. ASSUME NEW d \in Calls, call'[d].attached, call'[d].kind = "init", d # c
        PROVE  call'[d].token = jar'.session \/ Dropped(call[d].token)'
    BY <1>1, <1>2, <2>1, InitStillCarries
  <2>2. r.kind = "init" => call'[c].token = jar'.session
    BY <1>1
  <2> QED
    BY <1>1, <2>1, <2>2 DEF InitCarriesCookie, Dropped
<1>6. ShownUserHoldsCookie'
  <2>1. SigningOut => SigningOut'
    BY <1>1 DEF SigningOut
  <2>2. ExcusesStay
    BY <1>1, <2>1 DEF ExcusesStay
  <2> QED
    BY <1>1, <2>2, ShownStillHolds
<1>7. OneSignsIn'
  <2>1. \A d \in Calls : d # c /\ SigningIn(call'[d]) => SigningIn(call[d]) /\ r.kind # "login"
    BY <1>1
  <2>2. \A d, e \in Calls : SigningIn(call'[d]) /\ SigningIn(call'[e]) => d = e
    BY <1>1, <2>1 DEF ShownInv, OneSignsIn, SigningIn
  <2>3. ASSUME NEW d \in Calls, SigningIn(call'[d])
        PROVE  /\ client'.shown = None
               /\ call'[d].pc = "taken" => jar'.session \in {None, call'[d].token}
    BY <1>1, <2>3 DEF ShownInv, OneSignsIn, SigningIn
  <2> QED
    BY <2>2, <2>3 DEF OneSignsIn, SigningIn
<1> QED
  BY <1>3, <1>4, <1>5, <1>6, <1>7 DEF ShownInv

\* The request of a handler is replaced by one that still waits, or does not.
LEMMA Replaced ==
  ASSUME SignInInv, ShownInv, NEW c \in Calls, NEW r \in Request, call' = [call EXCEPT ![c] = r],
         r.attached => /\ call[c].attached /\ r.kind = call[c].kind
                       /\ r.pc \notin {"idle", "taken"}
                       /\ r.kind = "init" => r.token = call[c].token
  PROVE  \A d \in Calls : StillWaits(d)
<1>1. call \in [Calls -> Request]
  BY DEF SignInInv, TypeOK
<1>2. ASSUME NEW d \in Calls PROVE StillWaits(d)
  <2>1. CASE d = c
    BY <1>1, <2>1 DEF StillWaits
  <2>2. CASE d # c
    BY <1>1, <2>2 DEF StillWaits, ShownInv, WaitsInPlace
  <2> QED
    BY <2>1, <2>2
<1> QED
  BY <1>2

LEMMA RepliesWait ==
  ASSUME SignInInv, ShownInv, NEW c \in Calls, NEW o \in Outcome, Reply(c, o)
  PROVE  \A d \in Calls : StillWaits(d)
<1>1. TypeOK
  BY DEF SignInInv
<1>2. PICK r \in Request :
        /\ call' = [call EXCEPT ![c] = r]
        /\ \/ r = NoCall
           \/ /\ r.kind = call[c].kind /\ r.pc = "reply" /\ r.token = call[c].token
              /\ r.attached = call[c].attached
  BY <1>1, ReplyIs
<1>3. ~NoCall.attached
  BY DEF NoCall
<1> QED
  BY <1>2, <1>3, Replaced

LEMMA GotoWaits ==
  ASSUME SignInInv, ShownInv, NEW c \in Calls, NEW p \in Pc \ {"idle", "taken"}, Goto(c, p)
  PROVE  \A d \in Calls : StillWaits(d)
<1>1. TypeOK
  BY DEF SignInInv
<1>2. PICK r \in Request :
        /\ call' = [call EXCEPT ![c] = r]
        /\ r.kind = call[c].kind /\ r.pc = p /\ r.token = call[c].token
        /\ r.attached = call[c].attached
  BY <1>1, GotoIs
<1> QED
  BY <1>2, Replaced

\* No handler of the server turns a page or takes a request over.
LEMMA ServerIsQuiet ==
  ASSUME SignInInv, ShownInv, NEW c \in Calls, Server(c)
  PROVE  \A d \in Calls : StillWaits(d)
<1> USE DEF Outcome, Pc
<1>0. PICK q \in Request : q = call[c] /\ Sound(q)
  BY CallIs
<1>1. CASE Authenticate(c)
  BY <1>1, RepliesWait, GotoWaits DEF Authenticate
<1>2. CASE Audit(c)
  BY <1>2, RepliesWait DEF Audit
<1>3. CASE Verify(c)
  <2>1. CASE Reply(c, "unauthorized")
    BY <2>1, RepliesWait
  <2>2. CASE /\ call[c].token # None /\ Usable(sessions[call[c].token], now)
             /\ call' = [call EXCEPT ![c] = [@ EXCEPT !.pc = "seen",
                            !.user = sessions[call[c].token].user, !.copy = sessions[call[c].token]]]
    <3>1. sessions[q.token] \in Row /\ sessions[q.token].user \in NoUser
      BY <1>0, <2>2 DEF SignInInv, TypeOK, Request, Row
    <3>2. PICK r \in Request : r = [q EXCEPT !.pc = "seen", !.user = sessions[q.token].user,
                                             !.copy = sessions[q.token]]
      BY <3>1 DEF Request
    <3>3. r.kind = q.kind /\ r.pc = "seen" /\ r.token = q.token /\ r.attached = q.attached
      BY <3>2 DEF Request
    <3>4. call' = [call EXCEPT ![c] = r]
      BY <1>0, <2>2, <3>2 DEF SignInInv, TypeOK
    <3> QED
      BY <1>0, <3>3, <3>4, Replaced
  <2> QED
    BY <1>3, <2>1, <2>2 DEF Verify
<1>4. CASE Seen(c)
  BY <1>4, RepliesWait DEF Seen
<1>5. CASE Revoke(c)
  BY <1>5, RepliesWait DEF Revoke
<1>6. CASE \E t \in Tokens : Issue(c, t)
  <2>1. PICK t \in Tokens : Issue(c, t)
    BY <1>6
  <2>2. PICK r \in Request : r = [q EXCEPT !.pc = "audit", !.token = t]
    BY DEF Request
  <2>3. r.kind = q.kind /\ r.pc = "audit" /\ r.attached = q.attached /\ q.kind # "init"
    BY <1>0, <2>1, <2>2 DEF Request, Issue, Sound, Stage
  <2>4. call' = [call EXCEPT ![c] = r]
    BY <1>0, <2>1, <2>2 DEF Issue, SignInInv, TypeOK
  <2> QED
    BY <1>0, <2>3, <2>4, Replaced
<1>7. CASE VerifyBearer(c)
  BY <1>7, RepliesWait DEF VerifyBearer
<1>8. CASE Begin(c)
  <2>1. CASE \E o \in {"limited", "failed"} : Reply(c, o)
    BY <2>1, RepliesWait
  <2>2. CASE \E l \in Logins, o \in {"ok", "unauthorized"} :
               call' = [call EXCEPT ![c] =
                          IF @.attached
                          THEN [@ EXCEPT !.pc = "reply", !.outcome = o, !.login = l]
                          ELSE NoCall]
    <3>1. PICK l \in Logins, o \in {"ok", "unauthorized"} :
               call' = [call EXCEPT ![c] =
                          IF @.attached
                          THEN [@ EXCEPT !.pc = "reply", !.outcome = o, !.login = l]
                          ELSE NoCall]
      BY <2>2
    <3>2. CASE q.attached
      <4>1. PICK r \in Request : r = [q EXCEPT !.pc = "reply", !.outcome = o, !.login = l]
        BY <3>1 DEF Request
      <4>2. r.kind = q.kind /\ r.pc = "reply" /\ r.token = q.token /\ r.attached = q.attached
        BY <4>1 DEF Request
      <4>3. call' = [call EXCEPT ![c] = r]
        BY <1>0, <3>1, <3>2, <4>1 DEF SignInInv, TypeOK
      <4> QED
        BY <1>0, <4>2, <4>3, Replaced
    <3>3. CASE ~q.attached
      <4>1. call' = [call EXCEPT ![c] = NoCall]
        BY <1>0, <3>1, <3>3 DEF SignInInv, TypeOK
      <4>2. NoCall \in Request /\ ~NoCall.attached
        BY IdleIs DEF NoCall
      <4> QED
        BY <4>1, <4>2, Replaced
    <3> QED
      BY <3>2, <3>3
  <2> QED
    BY <1>8, <2>1, <2>2, Zenon DEF Begin
<1>9. CASE ReadLogin(c)
  BY <1>9, RepliesWait, GotoWaits DEF ReadLogin
<1>10. CASE Consume(c)
  BY <1>10, GotoWaits DEF Consume
<1>11. CASE Exchange(c)
  <2>1. CASE Reply(c, "unauthorized")
    BY <2>1, RepliesWait
  <2>2. CASE call' = [call EXCEPT ![c] = [@ EXCEPT !.pc = "map", !.user = codes[call[c].login].user]]
    <3>1. codes[q.login].user \in NoUser
      BY <1>0, <1>11 DEF SignInInv, TypeOK, Code, Exchange, Sound, Stage
    <3>2. PICK r \in Request : r = [q EXCEPT !.pc = "map", !.user = codes[q.login].user]
      BY <3>1 DEF Request
    <3>3. r.kind = q.kind /\ r.pc = "map" /\ r.token = q.token /\ r.attached = q.attached
      BY <3>2 DEF Request
    <3>4. call' = [call EXCEPT ![c] = r]
      BY <1>0, <2>2, <3>2 DEF SignInInv, TypeOK
    <3> QED
      BY <1>0, <3>3, <3>4, Replaced
  <2> QED
    BY <1>11, <2>1, <2>2 DEF Exchange
<1>12. CASE MapUser(c)
  BY <1>12, RepliesWait, GotoWaits DEF MapUser
<1>13. CASE Break(c)
  BY <1>13, RepliesWait DEF Break
<1> QED
  BY <1>1, <1>2, <1>3, <1>4, <1>5, <1>6, <1>7, <1>8, <1>9, <1>10, <1>11, <1>12, <1>13 DEF Server

\* What the browser took with a sign-out waits for the page, whoever else is
\* answered, and is for the page that sent it.
LEMMA SignOutWaits ==
  ASSUME SignInInv, NEW c \in Calls, \A d \in Calls : d # c => call'[d] = call[d],
         call[c].kind # "logout" \/ call[c].pc # "taken"
  PROVE  SigningOut => SigningOut'
BY DEF SigningOut

LEMMA SignOutInPlace ==
  ASSUME SignInInv, ShownInv, client.page \notin {"sign-in", "app"}
  PROVE  ~SigningOut
<1> SUFFICES ASSUME NEW c \in Calls, call[c].kind = "logout", call[c].pc = "taken" PROVE FALSE
  BY DEF SigningOut
<1>1. call[c].attached
  BY CallIs DEF Sound, Stage
<1> QED
  BY <1>1 DEF ShownInv, WaitsInPlace, Belongs

LEMMA ServerSpares ==
  ASSUME SignInInv, NEW c \in Calls, Server(c)
  PROVE  SigningOut => SigningOut'
<1>1. call \in [Calls -> Request]
  BY DEF SignInInv, TypeOK
<1>2. call[c].pc # "taken"
  BY DEF Server, Authenticate, Audit, Verify, Seen, Revoke, Issue, VerifyBearer, Begin,
     ReadLogin, Consume, Exchange, MapUser, Break
<1>3. \A d \in Calls : d # c => call'[d] = call[d]
  <2>1. \A o : Reply(c, o) => \A d \in Calls : d # c => call'[d] = call[d]
    BY <1>1 DEF Reply
  <2>2. \A p : Goto(c, p) => \A d \in Calls : d # c => call'[d] = call[d]
    BY <1>1 DEF Goto
  <2>3. CASE Verify(c) \/ Begin(c) \/ Exchange(c)
    BY <1>1, <2>1, <2>3 DEF Verify, Begin, Exchange
  <2>4. CASE \E t \in Tokens : Issue(c, t)
    BY <1>1, <2>4 DEF Issue
  <2> QED
    BY <2>1, <2>2, <2>3, <2>4
       DEF Server, Authenticate, Audit, Seen, Revoke, VerifyBearer, ReadLogin, Consume, MapUser,
           Break
<1> QED
  BY <1>2, <1>3, SignOutWaits

LEMMA SendsShow ==
  ASSUME SignInInv, ShownInv, RowsKeep, NEW c \in Calls, Sends(c)
  PROVE  ShownInv'
<1> USE DEF Kind, Pc
<1>0. TypeOK /\ client \in ClientState
  BY DEF SignInInv, TypeOK
<1>1. CASE \E u \in Users : SendLogin(c, u)
  <2>1. PICK u \in Users : SendLogin(c, u)
    BY <1>1
  <2>2. New("login", "auth") \in Request
    BY NewIs
  <2>3. PICK r \in Request : r = [New("login", "auth") EXCEPT !.user = u]
    BY <2>2 DEF Request, NoUser
  <2>4. r.kind = "login" /\ r.pc = "auth"
    BY <2>2, <2>3, NewIs DEF Request
  <2>5. /\ call[c].pc = "idle" /\ call' = [call EXCEPT ![c] = r] /\ UNCHANGED browser
        /\ client.page = "sign-in" /\ client.shown = None
    BY <2>1, <2>3 DEF SendLogin, Send
  <2>6. \A d \in Calls : ~SigningIn(call[d])
    BY <2>1 DEF SendLogin, InFlight, SigningIn, ShownInv, WaitsInPlace
  <2> QED
    BY <2>4, <2>5, <2>6, Joins DEF Belongs
<1>2. CASE SendInit(c)
  <2>1. PICK r \in Request : r = WithCookie("init", "verify")
    BY <1>0, WithCookieIs
  <2>2. r.kind = "init" /\ r.pc = "verify" /\ r.token = jar.session
    BY <1>0, <2>1, WithCookieIs
  <2>3. /\ call[c].pc = "idle" /\ call' = [call EXCEPT ![c] = r] /\ UNCHANGED browser
        /\ client.page = "boot"
    BY <1>2, <2>1 DEF SendInit, Send
  <2>4. \A d \in Calls : ~Navigating(call[d])
    BY <1>2, <2>3 DEF SendInit, InFlight, Navigating, ShownInv, WaitsInPlace, Belongs
  <2> QED
    BY <2>2, <2>3, <2>4, Joins DEF Belongs
<1>3. CASE SendApi(c)
  <2>1. PICK r \in Request : r = WithCookie("api", "verify")
    BY <1>0, WithCookieIs
  <2>2. r.kind = "api" /\ r.pc = "verify"
    BY <1>0, <2>1, WithCookieIs
  <2>3. /\ call[c].pc = "idle" /\ call' = [call EXCEPT ![c] = r] /\ UNCHANGED browser
        /\ client.page = "app"
    BY <1>3, <2>1 DEF SendApi, Send
  <2> QED
    BY <2>2, <2>3, Joins DEF Belongs
<1>4. CASE SendLogout(c)
  <2>1. PICK r \in Request : r = WithCookie("logout", "revoke")
    BY <1>0, WithCookieIs
  <2>2. r.kind = "logout" /\ r.pc = "revoke"
    BY <1>0, <2>1, WithCookieIs
  <2>3. /\ call[c].pc = "idle" /\ call' = [call EXCEPT ![c] = r] /\ UNCHANGED browser
        /\ client.page = "app"
    BY <1>4, <2>1 DEF SendLogout, Send
  <2> QED
    BY <2>2, <2>3, Joins DEF Belongs
<1>5. CASE SendStart(c)
  <2>1. PICK r \in Request : r = New("start", "begin")
    BY NewIs
  <2>2. r.kind = "start" /\ r.pc = "begin"
    BY <2>1, NewIs
  <2>3. /\ call' = [Detached EXCEPT ![c] = r] /\ jar' = jar
        /\ client' = [client EXCEPT !.page = "away", !.shown = None, !.late = FALSE]
    BY <1>5, <2>1 DEF SendStart
  <2>4. client'.page = "away" /\ client'.shown = None
    BY <1>0, <2>3 DEF ClientState
  <2>5. ShownUserHoldsCookie'
    BY <2>4 DEF ShownUserHoldsCookie
  <2> QED
    BY <2>2, <2>3, <2>4, <2>5, Departs
<1>6. CASE SendBearer(c)
  <2>1. New("bearer", "verify") \in Request
    BY NewIs
  <2>2. PICK b \in BOOLEAN : b <=> (Expired(bearer.expires, now) \/ bearer.user \notin active)
    OBVIOUS
  <2>3. bearer.user \in NoUser
    BY DEF SignInInv, TypeOK, BearerToken
  <2>4. PICK r \in Request : r = [New("bearer", "verify") EXCEPT !.user = bearer.user, !.dead = b]
    BY <2>1, <2>3 DEF Request
  <2>5. r.kind = "bearer" /\ r.pc = "verify"
    BY <2>1, <2>4, NewIs DEF Request
  <2>6. Send(c, [New("bearer", "verify") EXCEPT !.user = bearer.user, !.dead = b])
    BY <1>6, <2>2, Zenon DEF SendBearer
  <2>7. call[c].pc = "idle" /\ call' = [call EXCEPT ![c] = r] /\ UNCHANGED browser
    BY <1>6, <2>4, <2>6 DEF SendBearer, Send
  <2> QED
    BY <2>5, <2>7, Joins DEF Belongs
<1>7. CASE \E l \in Logins : SendCallback(c, l)
  <2>1. PICK l \in Logins : SendCallback(c, l)
    BY <1>7
  <2>2. PICK b \in BOOLEAN : b <=> codes[l].state = "used"
    OBVIOUS
  <2>3. jar.binding \in {None} \cup Logins /\ l \in {None} \cup Logins
    BY DEF SignInInv, TypeOK, Cookies
  <2>4. New("callback", "read") \in Request
    BY NewIs
  <2>5. PICK r \in Request :
           r = [New("callback", "read") EXCEPT !.login = l, !.binding = jar.binding, !.replay = b]
    BY <2>3, <2>4 DEF Request
  <2>6. r.kind = "callback" /\ r.pc = "read"
    BY <2>4, <2>5, NewIs DEF Request
  <2>7. call' = [Detached EXCEPT ![c] = [New("callback", "read") EXCEPT !.login = l,
                                            !.binding = jar.binding, !.replay = b]]
    BY <2>1, <2>2, Zenon DEF SendCallback
  <2>8. UNCHANGED browser /\ client.page = "away"
    BY <2>1 DEF SendCallback
  <2>9. jar' = jar /\ client' = client
    BY <2>8 DEF browser
  <2>10. ShownUserHoldsCookie'
    <3>1. ExcusesStay
      BY <2>8, <2>9, SignOutInPlace DEF ExcusesStay
    <3> QED
      BY <2>9, <3>1, ShownStillHolds
  <2> QED
    BY <2>5, <2>6, <2>7, <2>8, <2>9, <2>10, Departs
<1> QED
  BY <1>1, <1>2, <1>3, <1>4, <1>5, <1>6, <1>7 DEF Sends

LEMMA DoneWaits ==
  ASSUME SignInInv, ShownInv, NEW c \in Calls, Done(c)
  PROVE  /\ \A d \in Calls : StillWaits(d)
         /\ \A d \in Calls : call'[d].attached => d # c /\ call'[d] = call[d]
<1>1. NoCall \in Request /\ ~NoCall.attached
  BY IdleIs DEF NoCall
<1>2. call' = [call EXCEPT ![c] = NoCall]
  BY DEF Done
<1>3. \A d \in Calls : StillWaits(d)
  BY <1>1, <1>2, Replaced
<1>4. \A d \in Calls : call'[d].attached => d # c /\ call'[d] = call[d]
  BY <1>1, <1>2 DEF SignInInv, TypeOK
<1> QED
  BY <1>3, <1>4

\* When what navigates is answered, only other waiting goes on.
LEMMA NobodyElseNavigates ==
  ASSUME SignInInv, ShownInv, NEW c \in Calls, call[c].attached,
         NEW d \in Calls, call[d].attached, d # c
  PROVE  /\ call[d].pc # "idle"
         /\ call[c].kind \in {"init", "start", "callback"} => call[d].kind = "bearer"
         /\ call[c].kind \in {"login", "api", "logout"} =>
              call[d].kind \in {"login", "api", "logout", "bearer"}
<1>1. call[d].kind \in Kind
  BY DEF SignInInv, TypeOK, Request
<1> QED
  BY <1>1 DEF ShownInv, WaitsInPlace, OneNavigates, Navigating, Belongs, Kind

LEMMA DoneSpares ==
  ASSUME SignInInv, NEW c \in Calls, Done(c), call[c].kind # "logout"
  PROVE  SigningOut => SigningOut'
BY SignOutWaits DEF Done, SignInInv, TypeOK

\* The cookie moves before the screen does: a sign-in's with nobody shown, a
\* sign-out's while its page still waits.
LEMMA TakeCookieShows ==
  ASSUME SignInInv, ShownInv, NEW c \in Calls, TakeCookie(c)
  PROVE  ShownInv'
<1>1. PICK q \in Request : q = call[c] /\ Sound(q)
  BY CallIs
<1>2. /\ q.pc = "reply" /\ q.kind \in {"login", "logout"} /\ q.attached /\ Goto(c, "taken")
      /\ client' = client /\ client.page \in {"sign-in", "app"}
  BY <1>1 DEF TakeCookie, Sound, Stage, ShownInv, WaitsInPlace, Belongs
<1>3. jar'.session = IF q.kind = "login" THEN q.token ELSE None
  BY <1>1 DEF TakeCookie, SignInInv, TypeOK, Cookies
<1>4. PICK r \in Request :
         /\ call' = [call EXCEPT ![c] = r]
         /\ r.kind = q.kind /\ r.pc = "taken" /\ r.token = q.token /\ r.attached
  BY <1>1, <1>2, GotoIs DEF SignInInv, Pc
<1>5. call'[c] = r /\ \A d \in Calls : d # c => call'[d] = call[d]
  BY <1>4 DEF SignInInv, TypeOK
<1>6. \A d \in Calls :
        call'[d].attached => /\ call'[d].pc # "idle"
                             /\ call'[d].kind \in {"login", "api", "logout", "bearer"}
  BY <1>1, <1>2, <1>4, <1>5, NobodyElseNavigates
<1>7. OneSignsIn'
  <2>1. \A d \in Calls : SigningIn(call'[d]) <=> SigningIn(call[d])
    BY <1>1, <1>2, <1>4, <1>5 DEF SigningIn
  <2>2. \A d, e \in Calls : SigningIn(call'[d]) /\ SigningIn(call'[e]) => d = e
    BY <2>1 DEF ShownInv, OneSignsIn
  <2>3. ASSUME NEW d \in Calls, SigningIn(call'[d]), call'[d].pc = "taken"
        PROVE  jar'.session \in {None, call'[d].token}
    <3>1. CASE q.kind = "logout"
      BY <1>3, <3>1
    <3>2. CASE q.kind = "login"
      <4>1. SigningIn(call[c])
        BY <1>1, <1>2, <3>2 DEF SigningIn
      <4>2. d = c
        BY <2>1, <2>3, <4>1 DEF ShownInv, OneSignsIn
      <4> QED
        BY <1>3, <1>4, <1>5, <3>2, <4>2
    <3> QED
      BY <1>2, <3>1, <3>2
  <2>4. ASSUME NEW d \in Calls, SigningIn(call'[d]) PROVE client'.shown = None
    BY <1>2, <2>1, <2>4 DEF ShownInv, OneSignsIn
  <2> QED
    BY <2>2, <2>3, <2>4 DEF OneSignsIn, SigningIn
<1>8. ShownUserHoldsCookie'
  <2>1. CASE q.kind = "login"
    <3>1. SigningIn(call[c])
      BY <1>1, <1>2, <2>1 DEF SigningIn
    <3>2. client'.shown = None
      BY <1>2, <3>1 DEF ShownInv, OneSignsIn
    <3> QED
      BY <3>2 DEF ShownUserHoldsCookie
  <2>2. CASE q.kind = "logout"
    <3>1. SigningOut' /\ jar'.session = None
      BY <1>3, <1>4, <1>5, <2>2 DEF SigningOut
    <3> QED
      BY <3>1 DEF ShownUserHoldsCookie
  <2> QED
    BY <1>2, <2>1, <2>2
<1> QED
  BY <1>2, <1>6, <1>7, <1>8, PageTurns DEF Belongs

LEMMA ReceiveLoginShows ==
  ASSUME SignInInv, ShownInv, RowsKeep, NEW c \in Calls, ReceiveLogin(c)
  PROVE  ShownInv'
<1>0. client \in ClientState
  BY DEF SignInInv, TypeOK
<1>1. /\ call[c].kind = "login" /\ call[c].attached /\ Done(c) /\ UNCHANGED <<world, server>>
      /\ jar' = jar
  BY DEF ReceiveLogin, Receives
<1>2. \A d \in Calls : StillWaits(d)
  BY <1>1, DoneWaits
<1>3. CASE /\ call[c].outcome = "ok"
           /\ client' = [SetSession(call[c].user) EXCEPT !.page = "app",
                                                        !.late = (jar.session # call[c].token)]
  <2>1. PICK q \in Request : q = call[c] /\ Sound(q)
    BY CallIs
  <2>2. q.token \in Tokens /\ sessions[q.token].user = q.user
    BY <1>1, <1>3, <2>1 DEF Sound, Bearing
  <2>3. PICK b \in BOOLEAN : b <=> jar.session # q.token
    OBVIOUS
  <2>4. client' = [SetSession(q.user) EXCEPT !.page = "app", !.late = b]
    BY <1>3, <2>1, <2>3, Zenon
  <2>5. client'.page = "app" /\ client'.shown = q.user /\ client'.late = b
    BY <1>0, <2>4 DEF SetSession, ClientState
  <2>6. SigningIn(call[c]) /\ jar.session \in {None, q.token}
    BY <1>1, <1>3, <2>1 DEF ReceiveLogin, Receives, ShownInv, OneSignsIn, SigningIn
  <2>7. ShownUserHoldsCookie'
    <3>1. CASE jar.session = q.token
      BY <1>1, <2>2, <2>5, <3>1, SignInAssumption DEF ShownUserHoldsCookie, server
    <3>2. CASE jar.session = None /\ jar.session # q.token
      <4>1. client'.late /\ jar'.session = None
        BY <1>1, <2>3, <2>5, <3>2
      <4> QED
        BY <4>1, Zenon DEF ShownUserHoldsCookie
    <3> QED
      BY <2>6, <3>1, <3>2
  <2>8. \A d \in Calls :
          call'[d].attached => /\ call'[d].pc # "idle"
                               /\ call'[d].kind \in {"api", "logout", "bearer"}
    <3>1. ASSUME NEW d \in Calls, call'[d].attached
          PROVE  /\ d # c /\ call'[d] = call[d] /\ call[d].pc # "idle"
                 /\ call[d].kind \in {"login", "api", "logout", "bearer"}
      BY <1>1, <3>1, DoneWaits, NobodyElseNavigates
    <3>2. ASSUME NEW d \in Calls, call'[d].attached PROVE call[d].kind # "login"
      BY <2>6, <3>1, <3>2 DEF ShownInv, OneSignsIn, SigningIn
    <3> QED
      BY <3>1, <3>2
  <2>9. OneSignsIn'
    BY <2>8, NobodySignsIn
  <2> QED
    BY <2>5, <2>7, <2>8, <2>9, PageTurns DEF Belongs
<1>4. CASE client' \in {client, ClearSession}
  <2>1. /\ client'.page = client.page /\ client'.shown \in {None, client.shown}
        /\ client'.shown # None => client' = client
    BY <1>0, <1>4 DEF ClearSession, ClientState
  <2>2. ExcusesStay
    BY <1>1, <2>1, DoneSpares DEF ExcusesStay
  <2> QED
    BY <1>1, <1>2, <2>1, <2>2, QuietStep
<1> QED
  BY <1>3, <1>4, Zenon DEF ReceiveLogin

LEMMA ReceiveInitShows ==
  ASSUME SignInInv, ShownInv, RowsKeep, NEW c \in Calls, ReceiveInit(c)
  PROVE  ShownInv'
<1>0. client \in ClientState
  BY DEF SignInInv, TypeOK
<1>1. /\ call[c].kind = "init" /\ call[c].attached /\ Done(c)
      /\ UNCHANGED <<world, server>> /\ jar' = jar
  BY DEF ReceiveInit, Receives
<1>2. \A d \in Calls : call'[d].attached => call'[d].pc # "idle" /\ call'[d].kind = "bearer"
  BY <1>1, DoneWaits, NobodyElseNavigates
<1>3. ShownUserHoldsCookie'
  <2>1. CASE call[c].outcome = "ok"
    <3>1. PICK q \in Request : q = call[c] /\ Sound(q)
      BY CallIs
    <3>2. q.token \in Tokens /\ sessions[q.token].user = q.user
      BY <1>1, <2>1, <3>1 DEF Sound, Bearing
    <3>3. q.token = jar.session \/ Dropped(q.token)
      BY <1>1, <3>1 DEF ShownInv, InitCarriesCookie
    <3>4. client'.shown = q.user
      BY <1>0, <2>1, <3>1 DEF ReceiveInit, SetSession, ClientState
    <3>5. now' = now /\ sessions' = sessions
      BY <1>1 DEF world, server
    <3> QED
      BY <1>1, <3>2, <3>3, <3>4, <3>5, SignInAssumption DEF ShownUserHoldsCookie, Dropped
  <2>2. CASE call[c].outcome # "ok"
    <3>1. client'.shown = None
      BY <1>0, <2>2 DEF ReceiveInit, ClearSession, ClientState
    <3> QED
      BY <3>1 DEF ShownUserHoldsCookie
  <2> QED
    BY <2>1, <2>2
<1>4. OneSignsIn'
  BY <1>2, NobodySignsIn
<1> QED
  BY <1>2, <1>3, <1>4, PageTurns DEF Belongs

LEMMA ReceiveLogoutShows ==
  ASSUME SignInInv, ShownInv, RowsKeep, NEW c \in Calls, ReceiveLogout(c)
  PROVE  ShownInv'
<1>0. client \in ClientState
  BY DEF SignInInv, TypeOK
<1>1. /\ call[c].kind = "logout" /\ call[c].attached /\ Done(c) /\ jar' = jar
      /\ client' = [ClearSession EXCEPT !.page = "sign-in"]
  BY DEF ReceiveLogout, Receives
<1>2. client'.shown = None /\ client'.page = "sign-in"
  BY <1>0, <1>1 DEF ClearSession, ClientState
<1>3. \A d \in Calls :
        call'[d].attached => /\ call'[d].pc # "idle"
                             /\ call'[d].kind \in {"login", "api", "logout", "bearer"}
  BY <1>1, DoneWaits, NobodyElseNavigates
<1>4. OneSignsIn'
  BY <1>1, <1>2, DoneWaits, SignInGoesOn
<1> QED
  BY <1>2, <1>3, <1>4, PageTurns DEF Belongs, ShownUserHoldsCookie

LEMMA ReceiveCallbackShows ==
  ASSUME SignInInv, ShownInv, RowsKeep, NEW c \in Calls, ReceiveCallback(c)
  PROVE  ShownInv'
<1>1. call[c].kind = "callback" /\ call[c].attached /\ Done(c)
  BY DEF ReceiveCallback, Receives
<1>2. CASE client' = Booting
  <2>1. \A d \in Calls : call'[d].attached => call'[d].pc # "idle" /\ call'[d].kind = "bearer"
    BY <1>1, DoneWaits, NobodyElseNavigates
  <2>2. OneSignsIn'
    BY <2>1, NobodySignsIn
  <2> QED
    BY <1>2, <2>1, <2>2, PageTurns DEF Belongs, ShownUserHoldsCookie, Booting
<1>3. CASE UNCHANGED browser
  <2>1. client' = client /\ jar' = jar
    BY <1>3 DEF browser
  <2>2. ExcusesStay
    BY <1>1, <2>1, DoneSpares DEF ExcusesStay
  <2> QED
    BY <1>1, <2>1, <2>2, DoneWaits, QuietStep
<1> QED
  BY <1>2, <1>3 DEF ReceiveCallback

LEMMA GiveUpShows ==
  ASSUME SignInInv, ShownInv, RowsKeep, NEW c \in Calls, GiveUp(c)
  PROVE  ShownInv'
<1>0. client \in ClientState
  BY DEF SignInInv, TypeOK
<1>1. PICK q \in Request : q = call[c]
  BY CallIs
<1>2. PICK r \in Request : r = Alone(q)
  BY <1>1, AloneIs
<1>3. ~r.attached
  BY <1>2 DEF Alone, NoCall, Request
<1>4. call[c].attached /\ call' = [call EXCEPT ![c] = r] /\ jar' = jar
  BY <1>1, <1>2 DEF GiveUp, SignInInv, TypeOK
<1>5. \A d \in Calls : StillWaits(d)
  BY <1>3, <1>4, Replaced
<1>6. \A d \in Calls : call'[d].attached => d # c /\ call'[d] = call[d]
  BY <1>3, <1>4 DEF SignInInv, TypeOK
<1>7. CASE call[c].kind = "init"
  <2>1. client' = [ClearSession EXCEPT !.page = "sign-in"]
    BY <1>7 DEF GiveUp
  <2>2. client'.shown = None /\ client'.page = "sign-in"
    BY <1>0, <2>1 DEF ClearSession, ClientState
  <2>3. \A d \in Calls : call'[d].attached => call'[d].pc # "idle" /\ call'[d].kind = "bearer"
    BY <1>4, <1>6, <1>7, NobodyElseNavigates
  <2>4. OneSignsIn'
    BY <2>3, NobodySignsIn
  <2> QED
    BY <2>2, <2>3, <2>4, PageTurns DEF Belongs, ShownUserHoldsCookie
<1>8. CASE call[c].kind # "init"
  <2>1. client' \in {client, ClearSession} /\ (call[c].kind = "logout" => client' = ClearSession)
    BY <1>8, Zenon DEF GiveUp
  <2>2. /\ client'.page = client.page /\ client'.shown \in {None, client.shown}
        /\ client'.shown # None => client' = client /\ call[c].kind # "logout"
    BY <1>0, <2>1 DEF ClearSession, ClientState
  <2>3. \A d \in Calls : d # c => call'[d] = call[d]
    BY <1>4 DEF SignInInv, TypeOK
  <2>4. ExcusesStay
    BY <2>2, <2>3, SignOutWaits DEF ExcusesStay
  <2> QED
    BY <1>4, <1>5, <2>2, <2>4, QuietStep
<1> QED
  BY <1>7, <1>8

LEMMA ClientShows ==
  ASSUME SignInInv, ShownInv, RowsKeep, NEW c \in Calls, Client(c)
  PROVE  ShownInv'
<1>0. client \in ClientState /\ jar \in Cookies
  BY DEF SignInInv, TypeOK
<1>1. CASE ReceiveApi(c) \/ ReceiveBearer(c)
  <2>1. Done(c) /\ jar' = jar /\ client' \in {client, ClearSession} /\ call[c].kind # "logout"
    BY <1>1 DEF ReceiveApi, ReceiveBearer, Receives, browser
  <2>2. /\ client'.page = client.page /\ client'.shown \in {None, client.shown}
        /\ client'.shown # None => client' = client
    BY <1>0, <2>1 DEF ClearSession, ClientState
  <2>3. ExcusesStay
    BY <2>1, <2>2, DoneSpares DEF ExcusesStay
  <2> QED
    BY <2>1, <2>2, <2>3, DoneWaits, QuietStep
<1>2. CASE ReceiveStart(c)
  <2>1. Done(c) /\ client' = client /\ jar'.session = jar.session /\ call[c].kind # "logout"
    BY <1>0, <1>2 DEF ReceiveStart, Receives, Cookies
  <2>2. ExcusesStay
    BY <2>1, DoneSpares DEF ExcusesStay
  <2> QED
    BY <2>1, <2>2, DoneWaits, QuietStep
<1> QED
  BY <1>1, <1>2, TakeCookieShows, ReceiveLoginShows, ReceiveInitShows, ReceiveLogoutShows,
     ReceiveCallbackShows, GiveUpShows
     DEF Client

\* Navigation and reload, which clears what is shown and what is awaited.
LEMMA PageShows ==
  ASSUME SignInInv, ShownInv, RowsKeep, Navigate \/ Reload
  PROVE  ShownInv'
<1>0. client \in ClientState
  BY DEF SignInInv, TypeOK
<1>1. CASE Navigate
  <2>1. /\ call' = call /\ jar' = jar /\ client'.shown = client.shown /\ client'.late = client.late
        /\ client.page \in {"sign-in", "app"} /\ client'.page \in {"sign-in", "app"}
    BY <1>0, <1>1 DEF Navigate, ClientState
  <2>2. ExcusesStay
    BY <2>1 DEF ExcusesStay, SigningOut
  <2>3. ShownUserHoldsCookie'
    BY <2>1, <2>2, ShownStillHolds
  <2>4. OneSignsIn'
    BY <2>1 DEF ShownInv, OneSignsIn, SigningIn
  <2> QED
    BY <2>1, <2>3, <2>4, PageTurns DEF ShownInv, WaitsInPlace, Belongs
<1>2. CASE Reload
  <2>1. client'.shown = None /\ call' = Detached
    BY <1>2 DEF Reload, Booting
  <2>2. ASSUME NEW d \in Calls PROVE ~call'[d].attached
    <3>1. PICK q \in Request : q = call[d]
      BY CallIs
    <3>2. call'[d] = Alone(q)
      BY <2>1, <3>1 DEF Detached
    <3>3. ~Alone(q).attached
      BY DEF Alone, NoCall, Request
    <3> QED
      BY <3>2, <3>3
  <2>3. OneSignsIn'
    BY <2>2, NobodySignsIn
  <2> QED
    BY <2>1, <2>2, <2>3, PageTurns DEF ShownUserHoldsCookie
<1> QED
  BY <1>1, <1>2

\* A cookie the browser drops is of a session that has grown too old.
LEMMA TickShows ==
  ASSUME SignInInv, ShownInv, RowsKeep, Tick
  PROVE  ShownInv'
<1>1. /\ now' = now + 1 /\ sessions' = sessions /\ client' = client /\ call' = call
      /\ jar'.session = IF jar.session # None /\ Expired(sessions[jar.session].expires, now + 1)
                        THEN None ELSE jar.session
  BY DEF Tick, server
<1>2. now \in Nat /\ jar.session \in {None} \cup Tokens
  BY SignInAssumption DEF SignInInv, TypeOK, Cookies
<1>3. \A c \in Calls : StillWaits(c)
  BY <1>1 DEF StillWaits, ShownInv, WaitsInPlace
<1>4. ExcusesStay
  BY <1>1 DEF ExcusesStay, SigningOut
<1>5. CASE jar'.session = jar.session
  BY <1>1, <1>3, <1>4, <1>5, QuietStep
<1>6. CASE jar'.session # jar.session
  <2>1. /\ jar'.session = None /\ jar.session \in Tokens /\ jar.session # None
        /\ Expired(sessions'[jar.session].expires, now')
    BY <1>1, <1>2, <1>6
  <2>2. InitCarriesCookie'
    BY <1>1, <2>1 DEF ShownInv, InitCarriesCookie, Dropped
  <2>3. ShownUserHoldsCookie'
    BY <1>1, <2>1 DEF ShownInv, ShownUserHoldsCookie
  <2>4. WaitsInPlace' /\ OneNavigates'
    BY <1>1 DEF ShownInv, WaitsInPlace, OneNavigates, Navigating, Belongs
  <2>5. OneSignsIn'
    BY <1>1, <1>3, <2>1, SignInGoesOn
  <2> QED
    BY <2>2, <2>3, <2>4, <2>5 DEF ShownInv
<1> QED
  BY <1>5, <1>6

LEMMA ShownStep ==
  ASSUME SignInInv, ShownInv, [Next]_vars
  PROVE  ShownInv'
<1>1. RowsKeep
  BY StepKeepsRows
<1>2. CASE \E c \in Calls : Server(c)
  <2>1. PICK c \in Calls : Server(c)
    BY <1>2
  <2>2. UNCHANGED browser
    BY <2>1 DEF Server, Authenticate, Audit, Verify, Seen, Revoke, Issue, VerifyBearer, Begin,
       ReadLogin, Consume, Exchange, MapUser, Break
  <2>3. client' = client /\ jar' = jar
    BY <2>2 DEF browser
  <2>4. ExcusesStay
    BY <2>1, <2>3, ServerSpares DEF ExcusesStay
  <2> QED
    BY <1>1, <2>1, <2>3, <2>4, ServerIsQuiet, QuietStep
<1>3. CASE UNCHANGED <<browser, call>>
  <2>1. client' = client /\ jar' = jar /\ call' = call
    BY <1>3 DEF browser
  <2>2. \A c \in Calls : StillWaits(c)
    BY <2>1 DEF StillWaits, ShownInv, WaitsInPlace
  <2>3. ExcusesStay
    BY <2>1 DEF ExcusesStay, SigningOut
  <2> QED
    BY <1>1, <2>1, <2>2, <2>3, QuietStep
<1>4. CASE Next
  <2>1. ASSUME NEW u \in Users, IssueBearer(u) PROVE UNCHANGED <<browser, call>>
    BY <2>1 DEF IssueBearer
  <2>2. ASSUME NEW u \in Users, Disable(u) PROVE UNCHANGED <<browser, call>>
    BY <2>2 DEF Disable
  <2>3. ASSUME NEW l \in Logins, NEW u \in Users, Authorize(l, u) PROVE UNCHANGED <<browser, call>>
    BY <2>3 DEF Authorize
  <2> QED
    BY <1>1, <1>2, <1>3, <1>4, <2>1, <2>2, <2>3, SendsShow, ClientShows, PageShows, TickShows DEF Next
<1> QED
  BY <1>3, <1>4 DEF vars, browser

LEMMA ShownInit ==
  ASSUME Init
  PROVE  ShownInv
BY DEF Init, ShownInv, WaitsInPlace, OneNavigates, Navigating, InitCarriesCookie,
   OneSignsIn, SigningIn, ShownUserHoldsCookie, NoCall, Booting

-----------------------------------------------------------------------------
(* The theorems *)

\* Rows, cookies, client and requests keep their types, so no handler runs
\* with a row or a token it cannot have.
THEOREM SignInTypes == Spec => []TypeOK
<1>1. SignInInv => TypeOK
  BY DEF SignInInv
<1> QED
  BY <1>1, SignInHolds, PTL

\* Whatever breaks off between the commits of a login, the browser never
\* holds a session that left no audit event.
THEOREM SessionsHeldAreAudited == Spec => []HeldSessionsAreAudited
<1>1. SignInInv => HeldSessionsAreAudited
  BY DEF SignInInv, RowsAgree, HeldSessionsAreAudited
<1> QED
  BY <1>1, SignInHolds, PTL

\* A request sent with a session that was revoked, expired or of a disabled
\* account is never served.
THEOREM DeadSessionsStayOut == Spec => []DeadSessionsServeNothing
<1>1. SignInInv => DeadSessionsServeNothing
  BY DEF SignInInv, AllSound, Sound, Dying, DeadSessionsServeNothing
<1> QED
  BY <1>1, SignInHolds, PTL

\* A callback sent again after its code was presented never presents one.
THEOREM ReplaysAreBlocked == Spec => []ReplayNeverExchanges
<1>1. SignInInv => ReplayNeverExchanges
  BY DEF SignInInv, AllSound, Sound, Replaying, ReplayNeverExchanges
<1> QED
  BY <1>1, SignInHolds, PTL

\* In the one open page, the user on the screen holds the cookie of a session
\* of that user, and never one of another.  Without a cookie a session of the
\* user has grown too old, or a sign-out was answered: it waits for the page,
\* or came in between the cookie and the screen of the sign-in.  This holds
\* in whatever order logins, sign-outs, first requests and redirects are
\* answered, the browser taking the cookies of an answer before the page.
THEOREM ScreenFollowsCookie == Spec => []ShownUserHoldsCookie
<1>1. Init => SignInInv /\ ShownInv
  BY SignInInit, ShownInit
<1>2. (SignInInv /\ ShownInv) /\ [Next]_vars => (SignInInv /\ ShownInv)'
  BY SignInStep, ShownStep
<1>3. SignInInv /\ ShownInv => ShownUserHoldsCookie
  BY DEF ShownInv
<1> QED
  BY <1>1, <1>2, <1>3, PTL DEF Spec

\* A session that was issued keeps its user and its end, and once revoked it
\* stays revoked, also when the last_seen commit of a request that read it
\* before lands after the sign-out.
SessionsOnlyEnd ==
  [][\A t \in Tokens :
       sessions[t].user # None =>
         /\ sessions'[t].user = sessions[t].user
         /\ sessions'[t].expires = sessions[t].expires
         /\ sessions[t].revoked => sessions'[t].revoked]_vars

THEOREM RevocationIsFinal == Spec => SessionsOnlyEnd
<1>1. SignInInv /\ [Next]_vars =>
        [\A t \in Tokens :
           sessions[t].user # None =>
             /\ sessions'[t].user = sessions[t].user
             /\ sessions'[t].expires = sessions[t].expires
             /\ sessions[t].revoked => sessions'[t].revoked]_vars
  BY StepKeepsRows DEF RowsKeep, Issued
<1> QED
  BY <1>1, SignInHolds, PTL DEF Spec, SessionsOnlyEnd
=============================================================================
