---------------------------- MODULE BrowserProofs ----------------------------
(***************************************************************************)
(* Proofs about Browser, for any tabs, users, tokens and requests: that    *)
(* the authentication routes use the sessions as Sessions says they are    *)
(* used, so that what SessionsProofs proves holds behind a browser too,    *)
(* and that tabs which race for the cookie keep the login.                 *)
(***************************************************************************)
EXTENDS Browser, FiniteSetTheorems, TLAPS

Proven == INSTANCE SessionsProofs

USE BrowserAssumption

\* What TypeOK says of the requests and of the storages; the rest is history of logouts.
Typed ==
    /\ jar \in issued \union {NoToken} /\ access \in BOOLEAN
    /\ wire \in [Handler -> WireState] /\ \A h \in Handler : WireTyped(h)
    /\ losses \in Nat /\ failures + losses <= MaxFailures
    /\ struck \subseteq issued
    /\ Server!TypeOK

LEMMA SessionsAssumed == Proven!SessionAssumption
  BY DEF Proven!SessionAssumption

LEMMA SameTypes == Server!TypeOK <=> Proven!TypeOK
  BY DEF Server!TypeOK, Proven!TypeOK, Server!Descends, Proven!Descends, Server!HandlerTyped,
     Proven!HandlerTyped, Server!HandlerState, Proven!HandlerState, Server!At, Proven!At

LEMMA SameNext == Server!Next <=> Proven!Next
  BY DEF Server!LoginAccepted, Proven!LoginAccepted, Server!LoginOpens,
     Proven!LoginOpens, Server!RefreshFind, Proven!RefreshFind,
     Server!RefreshDelete, Proven!RefreshDelete, Server!RefreshCreate,
     Proven!RefreshCreate, Server!HandlerFails, Proven!HandlerFails,
     Server!RevokeSession, Proven!RevokeSession, Server!Expires, Proven!Expires,
     Server!RevokeAllSessions, Proven!RevokeAllSessions, Server!DeleteUser,
     Proven!DeleteUser, Server!ToggleStatus, Proven!ToggleStatus,
     Server!CleanupExpiredTokens, Proven!CleanupExpiredTokens,
     Server!HandlerStep, Proven!HandlerStep, Server!CreateTokenPair,
     Proven!CreateTokenPair, Server!Drop, Proven!Drop, Server!RowsOf,
     Proven!RowsOf, Server!At, Proven!At, Server!Idle, Proven!Idle,
     Server!tokenVars, Proven!tokenVars, Server!userVars, Proven!userVars,
     Server!endings, Proven!endings, Server!Next, Proven!Next, Server!vars,
     Proven!vars

LEMMA SameTypesNext == Server!TypeOK' <=> Proven!TypeOK'
  BY DEF Server!TypeOK, Proven!TypeOK, Server!Descends, Proven!Descends, Server!HandlerTyped,
     Proven!HandlerTyped, Server!HandlerState, Proven!HandlerState, Server!At, Proven!At

----------------------------------------------------------------------------
(* Every step of the browser is a step of Sessions, or none of them.       *)

LEMMA ServerMoves ==
    ASSUME Typed, [Next]_vars
    PROVE  Server!Next \/ UNCHANGED serverVars
<1>1. ASSUME NEW h \in Handler, ServerStep(h)
      PROVE  Server!Next \/ UNCHANGED serverVars
  <2>1. CASE RateLimited(h) \/ ServeLogout(h)
    BY <2>1 DEF RateLimited, ServeLogout
  <2>2. CASE ServeRefresh(h)
    BY <2>2 DEF ServeRefresh, Server!Next, Server!HandlerStep, Typed, WireState
  <2>3. CASE ServeDelete(h) \/ ServeCreate(h) \/ ServeFails(h)
    BY <2>3 DEF ServeDelete, ServeCreate, ServeFails, Server!Next, Server!HandlerStep
  <2>. QED BY <1>1, <2>1, <2>2, <2>3 DEF ServerStep
<1>2. ASSUME NEW h \in Handler, ReplyStep(h) PROVE UNCHANGED serverVars
  BY <1>2 DEF ReplyStep, ReplyArrives, Settle, Refused, ConnectionBreaks, TabCloses, Abandon
<1>3. ASSUME NEW h \in Handler, NEW b \in Tab, TabStep(h, b)
      PROVE  Server!Next \/ UNCHANGED serverVars
  BY <1>3 DEF TabStep, TryRefresh, Login, Logout, Server!Next, Server!HandlerStep
<1>4. CASE MeFails \/ CookieExpires
  BY <1>4 DEF MeFails, CookieExpires
<1>5. CASE Elsewhere
  <2>1. rows \subseteq Token /\ issued \subseteq Token
    BY DEF Typed, Server!TypeOK
  <2>2. \A t : Server!Expires(t) => t \in Token
    BY <2>1 DEF Server!Expires
  <2>. QED BY <1>5, <2>1, <2>2 DEF Elsewhere, Server!Next
<1>6. CASE UNCHANGED vars
  BY <1>6 DEF vars
<1>. QED BY <1>1, <1>2, <1>3, <1>4, <1>5, <1>6 DEF Next

LEMMA ServerTypes == ASSUME Typed, [Next]_vars PROVE Server!TypeOK'
<1>1. Proven!TypeOK
  BY SameTypes DEF Typed
<1>2. [Proven!Next]_(Proven!vars)
  <2>1. CASE Server!Next
    BY <2>1, SameNext
  <2>2. CASE UNCHANGED serverVars
    BY <2>2 DEF serverVars, Proven!vars, Proven!tokenVars, Proven!userVars, Proven!endings
  <2>. QED BY ServerMoves, <2>1, <2>2
<1>. QED BY <1>1, <1>2, SessionsAssumed, Proven!TypeInductive, SameTypesNext

\* Tokens keep their session and their user, and what is over stays over.
LEMMA ServerKeeps ==
    ASSUME Typed, Server!Next
    PROVE  /\ issued \subseteq issued' /\ revoked \subseteq revoked' /\ deleted \subseteq deleted'
           /\ \A t \in issued : origin'[t] = origin[t] /\ owner'[t] = owner[t]
<1>. USE DEF Server!tokenVars, Server!userVars, Server!endings
<1>0. origin \in [Token -> Token \union {NoToken}] /\ owner \in [Token -> User \union {Nobody}]
  BY DEF Typed, Server!TypeOK
<1>1. ASSUME NEW h \in Handler, NEW u, NEW t, Server!CreateTokenPair(h, u, t)
      PROVE  /\ issued \subseteq issued' /\ revoked \subseteq revoked' /\ deleted \subseteq deleted'
             /\ \A k \in issued : origin'[k] = origin[k] /\ owner'[k] = owner[k]
  <2>1. UNCHANGED <<revoked, deleted>>
    BY <1>1 DEF Server!CreateTokenPair
  <2>2. CASE UNCHANGED <<issued, origin, owner>>
    BY <2>1, <2>2
  <2>3. CASE \E n \in Token \ issued :
               /\ issued' = issued \union {n}
               /\ \E o : origin' = [origin EXCEPT ![n] = o]
               /\ owner' = [owner EXCEPT ![n] = u]
    BY <1>0, <2>1, <2>3
  <2>. QED BY <1>1, <2>2, <2>3 DEF Server!CreateTokenPair
<1>2. ASSUME NEW h \in Handler, Server!HandlerStep(h)
      PROVE  /\ issued \subseteq issued' /\ revoked \subseteq revoked' /\ deleted \subseteq deleted'
             /\ \A k \in issued : origin'[k] = origin[k] /\ owner'[k] = owner[k]
  BY <1>1, <1>2 DEF Server!HandlerStep, Server!LoginAccepted, Server!LoginOpens,
     Server!RefreshFind, Server!RefreshDelete, Server!RefreshCreate, Server!HandlerFails
<1>3. ASSUME NEW S, Server!Drop(S), deleted \subseteq deleted'
      PROVE  /\ issued \subseteq issued' /\ revoked \subseteq revoked' /\ deleted \subseteq deleted'
             /\ \A k \in issued : origin'[k] = origin[k] /\ owner'[k] = owner[k]
  BY <1>3 DEF Server!Drop
<1>4. ASSUME NEW t, Server!RevokeSession(t)
      PROVE  /\ issued \subseteq issued' /\ revoked \subseteq revoked' /\ deleted \subseteq deleted'
             /\ \A k \in issued : origin'[k] = origin[k] /\ owner'[k] = owner[k]
  BY <1>3, <1>4 DEF Server!RevokeSession
<1>5. ASSUME NEW u, Server!RevokeAllSessions(u) \/ Server!DeleteUser(u)
      PROVE  /\ issued \subseteq issued' /\ revoked \subseteq revoked' /\ deleted \subseteq deleted'
             /\ \A k \in issued : origin'[k] = origin[k] /\ owner'[k] = owner[k]
  BY <1>3, <1>5 DEF Server!RevokeAllSessions, Server!DeleteUser
<1>6. CASE Server!CleanupExpiredTokens
  BY <1>3, <1>6 DEF Server!CleanupExpiredTokens
<1>7. ASSUME NEW x, Server!Expires(x) \/ Server!ToggleStatus(x)
      PROVE  /\ issued \subseteq issued' /\ revoked \subseteq revoked' /\ deleted \subseteq deleted'
             /\ \A k \in issued : origin'[k] = origin[k] /\ owner'[k] = owner[k]
  BY <1>7 DEF Server!Expires, Server!ToggleStatus
<1>. QED BY <1>2, <1>4, <1>5, <1>6, <1>7 DEF Server!Next

----------------------------------------------------------------------------
(* The inductive invariant.  A new token travels in one reply and nowhere  *)
(* else until that reply is stored, so nobody can have spent it.           *)

\* What the server does for a request is what the wire says it was asked for.
Linked(h) ==
    /\ wire[h].at = "served" => wire[h].kind # "logout"
    /\ OnWire(h, "login", "served") => Server!At(h, "open") /\ wire[h].token = NoToken
    /\ OnWire(h, "renew", "served") =>
           handler[h].at \in {"delete", "create"} /\ handler[h].token = wire[h].token

Carries(h) == wire[h].at = "granted" /\ wire[h].kind # "logout"

\* The token in a reply is in no other place, and still opens its session.
Apart(h) ==
    Carries(h) =>
        /\ wire[h].token # jar
        /\ \A g \in Handler : g # h => wire[g].token # wire[h].token
        /\ wire[h].token \in rows \/ Over(origin[wire[h].token])

BrowserInv ==
    /\ Typed
    /\ \A h \in Handler : Linked(h) /\ Apart(h)
    /\ RacingTabsKeepTheLogin

LEMMA InvInit == Init => BrowserInv
<1> SUFFICES ASSUME Init PROVE BrowserInv
  OBVIOUS
<1>1. Server!TypeOK
  BY DEF Init, Server!Init, Server!TypeOK, Server!HandlerTyped, Server!HandlerState, Server!Idle,
     Server!At
<1>2. \A h \in Handler : wire[h] = Free /\ handler[h] = Server!Idle
  BY DEF Init, Server!Init
<1>3. wire \in [Handler -> WireState]
  BY DEF Init, Free, WireState
<1>. QED
  <2>1. jar = NoToken /\ access = FALSE /\ losses = 0 /\ failures = 0 /\ struck = {}
    BY DEF Init, Server!Init
  <2>2. \A h \in Handler : WireTyped(h) /\ Linked(h) /\ Apart(h)
    BY <1>2, <2>1 DEF WireTyped, Linked, Carries, Apart, Free, OnWire
  <2>3. failures + losses <= MaxFailures
    BY <2>1
  <2>4. Typed
    BY <1>1, <1>3, <2>1, <2>2, <2>3 DEF Typed
  <2>. QED BY <2>1, <2>2, <2>4 DEF BrowserInv, RacingTabsKeepTheLogin

\* What was over stays over when no history is lost.
LEMMA StaysOver ==
    ASSUME Typed, Server!Next \/ UNCHANGED serverVars, struck \subseteq struck', NEW t \in issued
    PROVE  /\ t \in issued' /\ origin[t] \in issued /\ origin'[t] = origin[t]
           /\ owner'[t] = owner[t] /\ owner[origin[t]] = owner[t]
           /\ Over(t) => Over(t)'
<1>1. origin[t] \in issued /\ owner[origin[t]] = owner[t]
  BY DEF Typed, Server!TypeOK, Server!Descends
<1>2. /\ issued \subseteq issued' /\ revoked \subseteq revoked' /\ deleted \subseteq deleted'
      /\ \A k \in issued : origin'[k] = origin[k] /\ owner'[k] = owner[k]
  BY ServerKeeps DEF serverVars
<1>. QED BY <1>1, <1>2 DEF Over

----------------------------------------------------------------------------
(* What a tab sends.                                                       *)

\* A request that leaves carries what is in the jar, or nothing.
LEMMA Sending ==
    ASSUME BrowserInv, Server!TypeOK', NEW h \in Handler, NEW r \in WireState,
           wire[h] = Free, wire' = [wire EXCEPT ![h] = r], r.token \in {jar, NoToken},
           \/ r.at = "out" /\ UNCHANGED serverVars
           \/ /\ r.at = "served" /\ r.kind = "login" /\ r.token = NoToken
              /\ \E u \in User : Server!LoginAccepted(h, u),
           UNCHANGED <<storageVars, losses, struck>>
    PROVE  BrowserInv'
<1>1. /\ UNCHANGED <<rows, issued, origin, owner, deleted, failures, revoked, jar, access, losses, struck>>
      /\ \A g \in Handler : g # h => handler'[g] = handler[g]
      /\ \/ r.at = "out" /\ handler'[h] = handler[h]
         \/ r.at = "served" /\ r.kind = "login" /\ handler'[h].at = "open" /\ r.token = NoToken
  <2>1. handler \in [Handler -> Server!HandlerState]
    BY DEF BrowserInv, Typed, Server!TypeOK
  <2>. QED
    BY <2>1 DEF serverVars, storageVars, historyVars, Server!LoginAccepted, Server!tokenVars,
       Server!userVars, Server!endings, Server!Idle
<1>2. \A g \in Handler : wire'[g] = IF g = h THEN r ELSE wire[g]
  BY DEF BrowserInv, Typed
<1>3. handler[h] = Server!Idle /\ "open" # Server!Idle.at
  BY DEF BrowserInv, Typed, WireTyped, Free, Server!Idle
<1>4. Typed'
  <2>1. \A g \in Handler : WireTyped(g)'
    BY <1>1, <1>2, <1>3 DEF BrowserInv, Typed, WireTyped
  <2>2. wire' \in [Handler -> WireState]
    BY DEF BrowserInv, Typed
  <2>. QED BY <1>1, <2>1, <2>2 DEF BrowserInv, Typed
<1>5. \A g \in Handler : Linked(g)'
  BY <1>1, <1>2, <1>3 DEF BrowserInv, Linked, OnWire, Server!At
<1>6. \A g \in Handler : Apart(g)'
  <2>1. NoToken \notin issued
    BY DEF BrowserInv, Typed, Server!TypeOK
  <2>. QED
    BY <1>1, <1>2, <2>1 DEF BrowserInv, Typed, WireTyped, Apart, Carries, Over
<1>7. RacingTabsKeepTheLogin'
  <2>1. \A g \in Handler : \A s : OnWire(g, "renew", "granted") /\ origin[wire[g].token] = s
                 => OnWire(g, "renew", "granted")' /\ origin'[wire'[g].token] = s
    BY <1>1, <1>2 DEF OnWire, Free
  <2>2. \A g \in Handler : \A s : Server!At(g, "create") /\ origin[handler[g].token] = s
                 => Server!At(g, "create")' /\ origin'[handler'[g].token] = s
    BY <1>1, <1>3 DEF Server!At, Server!Idle
  <2>3. \A s : UnderWay(s) => UnderWay(s)'
    BY <2>1, <2>2 DEF UnderWay
  <2>. QED BY <1>1, <2>3 DEF BrowserInv, RacingTabsKeepTheLogin, Over
<1>. QED BY <1>4, <1>5, <1>6, <1>7 DEF BrowserInv

LEMMA TabStepKeeps ==
    ASSUME BrowserInv, Server!TypeOK', NEW h \in Handler, NEW b \in Tab, TabStep(h, b)
    PROVE  BrowserInv'
<1>0. jar \in Token \union {NoToken}
  BY DEF BrowserInv, Typed, Server!TypeOK
<1>1. CASE TryRefresh(h, b)
  <2>1. Request("renew", "out", b, jar) \in WireState
    BY <1>0 DEF Request, WireState
  <2>. QED BY <1>1, <2>1, Sending DEF TryRefresh, Send, Request, historyVars
<1>2. CASE Login(h, b)
  <2>1. Request("login", "served", b, NoToken) \in WireState
    BY DEF Request, WireState
  <2>. QED BY <1>2, <2>1, Sending DEF Login, Send, Request
<1>3. CASE Logout(h, b)
  <2>1. Request("logout", "out", b, jar) \in WireState
    BY <1>0 DEF Request, WireState
  <2>. QED BY <1>3, <2>1, Sending DEF Logout, Send, Request, historyVars
<1>. QED BY <1>1, <1>2, <1>3 DEF TabStep

----------------------------------------------------------------------------
(* The end of a request.                                                   *)

\* Request h stops being served or granted, and what it leaves on the wire is r.  If it
\* was renewing a session, that session is over.
Ended(h, r) ==
    /\ wire' = [wire EXCEPT ![h] = r]
    /\ \/ r.at \in {"free", "refused", "settling"}
       \/ r.at = "granted" /\ r.kind = "logout"
    /\ r.token \in {NoToken, wire[h].token}
    /\ handler'[h] = Server!Idle /\ \A g \in Handler : g # h => handler'[g] = handler[g]
    /\ rows \subseteq rows' /\ jar' \in {jar, NoToken} /\ access' \in BOOLEAN
    /\ losses' \in Nat /\ failures' + losses' <= MaxFailures
    /\ struck \subseteq struck' /\ struck' \subseteq issued'
    /\ \A s : OnWire(h, "renew", "granted") /\ s = origin[wire[h].token] => Over(s)'
    /\ \A s : Server!At(h, "create") /\ s = origin[handler[h].token] => Over(s)'

LEMMA Ending ==
    ASSUME BrowserInv, Server!TypeOK', Server!Next \/ UNCHANGED serverVars,
           NEW h \in Handler, NEW r \in WireState, Ended(h, r)
    PROVE  BrowserInv'
<1>. USE DEF Ended
<1>0. /\ \A g \in Handler : wire'[g] = IF g = h THEN r ELSE wire[g]
      /\ NoToken \notin issued /\ issued \subseteq issued'
  <2>1. issued \subseteq issued'
    BY ServerKeeps DEF BrowserInv, serverVars
  <2>. QED BY <2>1 DEF BrowserInv, Typed, Server!TypeOK
<1>1. \A t \in issued : origin[t] \in issued /\ origin'[t] = origin[t] /\ (Over(t) => Over(t)')
  BY StaysOver DEF BrowserInv
<1>2. Typed'
  <2>1. \A g \in Handler : WireTyped(g)'
    BY <1>0 DEF BrowserInv, Typed, WireTyped
  <2>2. wire' \in [Handler -> WireState] /\ jar' \in issued' \union {NoToken}
    BY <1>0 DEF BrowserInv, Typed
  <2>. QED BY <2>1, <2>2 DEF Typed
<1>3. \A g \in Handler : Linked(g)'
  <2>1. \A g \in Handler : g = h => wire'[g].at # "served"
    BY <1>0
  <2>2. \A g \in Handler : g # h => wire'[g] = wire[g] /\ handler'[g] = handler[g]
    BY <1>0
  <2>. QED BY <2>1, <2>2 DEF BrowserInv, Linked, OnWire, Server!At
<1>4. ASSUME NEW g \in Handler, Carries(g)' PROVE Apart(g)'
  <2>1. g # h /\ wire'[g] = wire[g] /\ Carries(g) /\ wire[g].token \in issued
    BY <1>0, <1>4 DEF Carries, BrowserInv, Typed, WireTyped
  <2>2. \A f \in Handler : f # g => wire'[f].token # wire'[g].token
    BY <1>0, <2>1 DEF BrowserInv, Apart
  <2>3. wire'[g].token # jar'
    BY <1>0, <2>1 DEF BrowserInv, Apart
  <2>4. PICK t \in issued, s \in issued : t = wire[g].token /\ s = origin[t]
    BY <1>1, <2>1
  <2>5. t \in rows' \/ Over(s)'
    BY <1>1, <2>1, <2>4 DEF BrowserInv, Apart
  <2>. QED BY <1>1, <2>1, <2>2, <2>3, <2>4, <2>5 DEF Apart
<1>5. RacingTabsKeepTheLogin'
  <2>0. SUFFICES ASSUME jar' # NoToken
                 PROVE  (jar \in rows \/ UnderWay(origin[jar]) \/ Over(origin[jar]))'
    BY DEF RacingTabsKeepTheLogin
  <2>1. PICK s \in issued : s = origin[jar]
    BY <1>1, <2>0 DEF BrowserInv, Typed
  <2>2. jar' = jar /\ jar \in issued /\ origin'[jar'] = s
    BY <1>1, <2>0, <2>1 DEF BrowserInv, Typed
  <2>3. ASSUME NEW g \in Handler, Server!At(g, "create"), origin[handler[g].token] = s
        PROVE  UnderWay(s)' \/ Over(s)'
    <3>1. handler[g].token \in issued
      BY <2>3 DEF BrowserInv, Typed, Server!TypeOK, Server!HandlerTyped, Server!At
    <3>2. CASE g = h
      BY <2>3, <3>2
    <3>3. CASE g # h
      BY <2>3, <3>1, <3>3, <1>1 DEF UnderWay, Server!At
    <3>. QED BY <3>2, <3>3
  <2>4. ASSUME NEW g \in Handler, OnWire(g, "renew", "granted"), origin[wire[g].token] = s
        PROVE  UnderWay(s)' \/ Over(s)'
    <3>1. wire[g].token \in issued
      BY <2>4 DEF BrowserInv, Typed, WireTyped, OnWire
    <3>2. CASE g = h
      BY <2>4, <3>2
    <3>3. CASE g # h
      BY <2>4, <3>1, <3>3, <1>0, <1>1 DEF UnderWay, OnWire
    <3>. QED BY <3>2, <3>3
  <2>5. jar \in rows \/ UnderWay(s) \/ Over(s)
    BY <2>0, <2>1, <2>2 DEF BrowserInv, RacingTabsKeepTheLogin
  <2>6. jar \in rows' \/ UnderWay(s)' \/ Over(s)'
    BY <1>1, <2>3, <2>4, <2>5 DEF UnderWay
  <2>. QED BY <2>2, <2>6
<1>. QED BY <1>2, <1>3, <1>4, <1>5 DEF BrowserInv, Apart

----------------------------------------------------------------------------
(* Requests that go on.                                                    *)

\* No reply comes or goes, and at most request h takes a step in the server.  A row that
\* goes is that of a session which is renewed or over, and of no token in a reply.
Moved(h) ==
    /\ wire' \in [Handler -> WireState]
    /\ \A g \in Handler : wire'[g].kind = wire[g].kind /\ wire'[g].token = wire[g].token
    /\ \A g \in Handler : g # h => wire'[g].at = wire[g].at /\ handler'[g] = handler[g]
    /\ \/ wire'[h].at = wire[h].at /\ handler'[h] = handler[h]
       \/ /\ wire[h].at \in {"out", "served"} /\ wire'[h].at = "served"
          /\ ~Server!At(h, "create") /\ WireTyped(h)' /\ Linked(h)'
    /\ \A t \in rows \ rows' : \A s : s = origin[t] => UnderWay(s)' \/ Over(s)'
    /\ \A g \in Handler : \A s :
           Carries(g) /\ wire[g].token \in rows \ rows' /\ s = origin[wire[g].token] => Over(s)'
    /\ jar' \in {jar, NoToken} /\ access' \in BOOLEAN
    /\ losses' \in Nat /\ failures' + losses' <= MaxFailures /\ struck' = struck

LEMMA GoingOn ==
    ASSUME BrowserInv, Server!TypeOK', Server!Next \/ UNCHANGED serverVars,
           NEW h, Moved(h)
    PROVE  BrowserInv'
<1>. USE DEF Moved
<1>0. NoToken \notin issued /\ issued \subseteq issued'
  <2>1. issued \subseteq issued'
    BY ServerKeeps DEF BrowserInv, serverVars
  <2>. QED BY <2>1 DEF BrowserInv, Typed, Server!TypeOK
<1>1. \A t \in issued : origin[t] \in issued /\ origin'[t] = origin[t] /\ (Over(t) => Over(t)')
  BY StaysOver DEF BrowserInv
<1>2. \A g \in Handler : WireTyped(g)' /\ Linked(g)'
  <2>1. ASSUME NEW g \in Handler, wire'[g].at = wire[g].at, handler'[g] = handler[g]
        PROVE  WireTyped(g)' /\ Linked(g)'
    BY <1>0, <2>1 DEF BrowserInv, Typed, WireTyped, Linked, OnWire, Server!At
  <2>. QED BY <2>1
<1>3. Typed'
  BY <1>0, <1>2 DEF BrowserInv, Typed
<1>4. \A g \in Handler : wire'[g].at = "granted" <=> wire[g].at = "granted"
  OBVIOUS
<1>5. ASSUME NEW g \in Handler, Carries(g)' PROVE Apart(g)'
  <2>1. Carries(g) /\ wire[g].token \in issued
    BY <1>4, <1>5 DEF Carries, BrowserInv, Typed, WireTyped
  <2>2. PICK t \in issued, s \in issued : t = wire[g].token /\ s = origin[t]
    BY <1>1, <2>1
  <2>3. t \in rows' \/ Over(s)'
    BY <1>1, <2>1, <2>2 DEF BrowserInv, Apart
  <2>4. t # jar' /\ \A f \in Handler : f # g => wire'[f].token # t
    BY <1>0, <2>1, <2>2 DEF BrowserInv, Apart
  <2>. QED BY <1>1, <2>2, <2>3, <2>4 DEF Apart
<1>6. RacingTabsKeepTheLogin'
  <2>0. SUFFICES ASSUME jar' # NoToken
                 PROVE  (jar \in rows \/ UnderWay(origin[jar]) \/ Over(origin[jar]))'
    BY DEF RacingTabsKeepTheLogin
  <2>1. PICK s \in issued : s = origin[jar]
    BY <1>1, <2>0 DEF BrowserInv, Typed
  <2>2. jar' = jar /\ jar \in issued /\ origin'[jar'] = s
    BY <1>1, <2>0, <2>1 DEF BrowserInv, Typed
  <2>3. ASSUME NEW g \in Handler, Server!At(g, "create"), origin[handler[g].token] = s
        PROVE  UnderWay(s)'
    <3>1. handler[g].token \in issued
      BY <2>3 DEF BrowserInv, Typed, Server!TypeOK, Server!HandlerTyped, Server!At
    <3>2. handler'[g] = handler[g]
      BY <2>3 DEF Server!At
    <3>. QED BY <2>3, <3>1, <3>2, <1>1 DEF UnderWay, Server!At
  <2>4. ASSUME NEW g \in Handler, OnWire(g, "renew", "granted"), origin[wire[g].token] = s
        PROVE  UnderWay(s)'
    <3>1. wire[g].token \in issued
      BY <2>4 DEF BrowserInv, Typed, WireTyped, OnWire
    <3>. QED BY <2>4, <3>1, <1>1, <1>4 DEF UnderWay, OnWire
  <2>5. jar \in rows \/ UnderWay(s) \/ Over(s)
    BY <2>0, <2>1, <2>2 DEF BrowserInv, RacingTabsKeepTheLogin
  <2>6. jar \in rows' \/ UnderWay(s)' \/ Over(s)'
    BY <1>1, <2>1, <2>3, <2>4, <2>5 DEF UnderWay
  <2>. QED BY <2>2, <2>6
<1>. QED BY <1>2, <1>3, <1>5, <1>6 DEF BrowserInv, Apart

\* A revocation, an expiry or a toggle: rows go with their sessions, and no request moves.
LEMMA ElsewhereKeeps ==
    ASSUME BrowserInv, Server!TypeOK', Server!Next \/ UNCHANGED serverVars, Elsewhere
    PROVE  BrowserInv'
<1>0. PICK h : TRUE
  OBVIOUS
<1>. USE DEF Server!tokenVars, Server!userVars, Server!endings
<1>1. /\ UNCHANGED <<handler, failures, origin, jar, access, wire, losses, struck>>
      /\ \A t \in rows \ rows' : origin[t] \in revoked'
  <2>1. UNCHANGED <<jar, access, wire, losses, struck>>
    BY DEF Elsewhere, storageVars, historyVars
  <2>2. ASSUME NEW T, Server!Drop(T)
        PROVE  UNCHANGED <<handler, failures, origin>> /\ \A t \in rows \ rows' : origin[t] \in revoked'
    BY <2>2 DEF Server!Drop
  <2>3. ASSUME NEW t, Server!RevokeSession(t) \/ Server!Expires(t)
        PROVE  UNCHANGED <<handler, failures, origin>> /\ \A k \in rows \ rows' : origin[k] \in revoked'
    BY <2>2, <2>3 DEF Server!RevokeSession, Server!Expires
  <2>4. ASSUME NEW u, Server!RevokeAllSessions(u) \/ Server!DeleteUser(u) \/ Server!ToggleStatus(u)
        PROVE  UNCHANGED <<handler, failures, origin>> /\ \A k \in rows \ rows' : origin[k] \in revoked'
    BY <2>2, <2>4 DEF Server!RevokeAllSessions, Server!DeleteUser, Server!ToggleStatus
  <2>5. CASE Server!CleanupExpiredTokens
    BY <2>1, <2>2, <2>5 DEF Server!CleanupExpiredTokens
  <2>. QED BY <2>1, <2>3, <2>4, <2>5 DEF Elsewhere
<1>2. \A t \in rows \ rows' : \A s : s = origin[t] => Over(s)'
  BY <1>1 DEF Over
<1>3. /\ wire' \in [Handler -> WireState] /\ access' \in BOOLEAN /\ losses' \in Nat
      /\ failures' + losses' <= MaxFailures
  BY <1>1 DEF BrowserInv, Typed
<1>4. Moved(h)
  BY <1>1, <1>2, <1>3 DEF Moved
<1>. QED BY <1>4, GoingOn

\* The storage is cleared, or the cookie is too old.
LEMMA StorageKeeps ==
    ASSUME BrowserInv, Server!TypeOK', MeFails \/ CookieExpires
    PROVE  BrowserInv'
<1>0. PICK h : TRUE
  OBVIOUS
<1>1. /\ UNCHANGED <<rows, handler, failures, wire, losses, struck>> /\ UNCHANGED serverVars
      /\ jar' \in {jar, NoToken} /\ access' \in BOOLEAN
  <2>1. access \in BOOLEAN
    BY DEF BrowserInv, Typed
  <2>2. CASE MeFails
    BY <2>2 DEF MeFails, serverVars, historyVars
  <2>3. CASE CookieExpires
    BY <2>1, <2>3 DEF CookieExpires, serverVars, historyVars
  <2>. QED BY <2>2, <2>3
<1>2. wire' \in [Handler -> WireState] /\ losses' \in Nat /\ failures' + losses' <= MaxFailures
  BY <1>1 DEF BrowserInv, Typed
<1>3. Moved(h)
  BY <1>1, <1>2 DEF Moved
<1>. QED BY <1>1, <1>3, GoingOn

LEMMA StandingKeeps == ASSUME BrowserInv, Server!TypeOK', UNCHANGED vars PROVE BrowserInv'
<1>1. \A h \in Handler : (Linked(h) => Linked(h)') /\ (Apart(h) => Apart(h)') /\ (WireTyped(h) => WireTyped(h)')
  BY DEF vars, serverVars, storageVars, historyVars, Linked, Apart, WireTyped, OnWire, Carries, Over,
     Server!At
<1>2. RacingTabsKeepTheLogin'
  BY DEF vars, serverVars, storageVars, historyVars, BrowserInv, RacingTabsKeepTheLogin, UnderWay,
     OnWire, Over, Server!At
<1>3. Typed'
  BY <1>1 DEF vars, serverVars, storageVars, historyVars, BrowserInv, Typed
<1>. QED BY <1>1, <1>2, <1>3 DEF BrowserInv

----------------------------------------------------------------------------
(* What reaches the browser.                                               *)

\* The cookie of a login or of a renewal: no other request has its token.
LEMMA CookieArrives ==
    ASSUME BrowserInv, Server!TypeOK', NEW h \in Handler, ReplyArrives(h), Carries(h)
    PROVE  BrowserInv'
<1>1. PICK t \in issued : t = wire[h].token
  BY DEF BrowserInv, Typed, WireTyped, Carries
<1>2. /\ UNCHANGED <<rows, issued, origin, owner, deleted, handler, failures, revoked, access, losses, struck>>
      /\ jar' = t /\ wire[h].kind # "logout" /\ wire[h].at = "granted"
      /\ wire' = [wire EXCEPT ![h].at = "settling", ![h].token = NoToken]
  BY <1>1 DEF ReplyArrives, Carries, serverVars, historyVars
<1>3. /\ wire'[h].at = "settling" /\ wire'[h].token = NoToken /\ wire'[h].kind = wire[h].kind
      /\ wire'[h].tab = wire[h].tab
      /\ \A g \in Handler : g # h => wire'[g] = wire[g]
  BY <1>2 DEF BrowserInv, Typed, WireState
<1>4. Typed'
  <2>1. wire' \in [Handler -> WireState]
    BY <1>2 DEF BrowserInv, Typed, WireState
  <2>2. \A g \in Handler : WireTyped(g)'
    BY <1>2, <1>3 DEF BrowserInv, Typed, WireTyped
  <2>. QED BY <1>2, <2>1, <2>2 DEF BrowserInv, Typed
<1>5. \A g \in Handler : Linked(g)'
  BY <1>2, <1>3 DEF BrowserInv, Linked, OnWire, Server!At
<1>6. \A g \in Handler : Apart(g)'
  <2>1. NoToken \notin issued
    BY DEF BrowserInv, Typed, Server!TypeOK
  <2>. QED BY <1>1, <1>2, <1>3, <2>1 DEF BrowserInv, Typed, WireTyped, Apart, Carries, Over
<1>7. RacingTabsKeepTheLogin'
  BY <1>1, <1>2 DEF BrowserInv, Apart, Carries, RacingTabsKeepTheLogin, Over
<1>. QED BY <1>4, <1>5, <1>6, <1>7 DEF BrowserInv

\* The script of the tab has nothing left to do.
LEMMA TabEnds ==
    ASSUME BrowserInv, Server!TypeOK', NEW h \in Handler, Settle(h) \/ Refused(h)
    PROVE  BrowserInv'
<1>1. /\ UNCHANGED <<rows, handler, failures, jar, losses, struck>> /\ UNCHANGED serverVars
      /\ wire' = [wire EXCEPT ![h] = Free] /\ access' \in BOOLEAN
      /\ wire[h].at \in {"settling", "refused"}
  <2>1. access \in BOOLEAN
    BY DEF BrowserInv, Typed
  <2>2. CASE Settle(h)
    BY <2>2 DEF Settle, serverVars, historyVars
  <2>3. CASE Refused(h)
    BY <2>1, <2>3 DEF Refused, AfterError, serverVars, historyVars
  <2>. QED BY <2>2, <2>3
<1>2. /\ losses' \in Nat /\ failures' + losses' <= MaxFailures
      /\ struck' \subseteq issued'
  BY <1>1 DEF BrowserInv, Typed, serverVars
<1>3. handler[h] = Server!Idle /\ ~Server!At(h, "create") /\ ~OnWire(h, "renew", "granted")
  BY <1>1 DEF BrowserInv, Typed, WireTyped, Server!At, Server!Idle, OnWire
<1>4. Free \in WireState /\ Free.at = "free" /\ Free.token = NoToken
  BY DEF Free, WireState
<1>5. Ended(h, Free)
  BY <1>1, <1>2, <1>3, <1>4 DEF Ended
<1>. QED BY <1>1, <1>4, <1>5, Ending

LEMMA AbandonKeeps ==
    ASSUME BrowserInv, Server!TypeOK', NEW h \in Handler, Abandon(h), access' \in BOOLEAN
    PROVE  BrowserInv'
<1>1. /\ UNCHANGED <<rows, handler, failures, jar>> /\ UNCHANGED serverVars
      /\ losses' \in Nat /\ failures' + losses' <= MaxFailures
      /\ wire[h].at \in {"out", "served", "granted"}
  <2>1. failures \in Nat /\ losses \in Nat /\ losses' = losses + 1 /\ failures + losses < MaxFailures
    BY DEF Abandon, BrowserInv, Typed, Server!TypeOK
  <2>2. losses + 1 \in Nat /\ failures + (losses + 1) <= MaxFailures
    BY <2>1
  <2>. QED BY <2>1, <2>2 DEF Abandon, serverVars
<1>2. CASE wire[h].at = "granted"
  <2>1. /\ wire' = [wire EXCEPT ![h] = Free]
        /\ struck' = IF OnWire(h, "renew", "granted") THEN struck \union {origin[wire[h].token]} ELSE struck
    BY <1>2 DEF Abandon
  <2>2. handler[h] = Server!Idle /\ ~Server!At(h, "create")
    BY <1>2 DEF BrowserInv, Typed, WireTyped, Server!At, Server!Idle
  <2>3. \A s : OnWire(h, "renew", "granted") /\ s = origin[wire[h].token] => s \in issued
    BY DEF OnWire, BrowserInv, Typed, WireTyped, Server!TypeOK, Server!Descends
  <2>4. struck \subseteq struck' /\ struck' \subseteq issued'
    BY <1>1, <2>1, <2>3 DEF BrowserInv, Typed, serverVars
  <2>5. \A s : OnWire(h, "renew", "granted") /\ s = origin[wire[h].token] => Over(s)'
    BY <2>1 DEF Over
  <2>6. Free \in WireState /\ Free.at = "free" /\ Free.token = NoToken
    BY DEF Free, WireState
  <2>7. Ended(h, Free)
    <3>1. handler'[h] = Server!Idle /\ \A g \in Handler : g # h => handler'[g] = handler[g]
      BY <1>1, <2>2
    <3>2. \A s : Server!At(h, "create") /\ s = origin[handler[h].token] => Over(s)'
      BY <2>2
    <3>3. rows \subseteq rows' /\ jar' \in {jar, NoToken}
      BY <1>1
    <3>. QED BY <1>1, <2>1, <2>4, <2>5, <2>6, <3>1, <3>2, <3>3 DEF Ended
  <2>. QED BY <1>1, <2>6, <2>7, Ending
<1>3. CASE wire[h].at # "granted"
  <2>1. wire' = [wire EXCEPT ![h].tab = NoTab] /\ struck' = struck
    BY <1>3 DEF Abandon, OnWire
  <2>2. wire' \in [Handler -> WireState]
    BY <2>1 DEF BrowserInv, Typed, WireState
  <2>3. \A g \in Handler : /\ wire'[g].kind = wire[g].kind /\ wire'[g].token = wire[g].token
                           /\ wire'[g].at = wire[g].at
    BY <2>1 DEF BrowserInv, Typed, WireState
  <2>4. Moved(h)
    BY <1>1, <2>1, <2>2, <2>3 DEF Moved
  <2>. QED BY <1>1, <2>4, GoingOn
<1>. QED BY <1>2, <1>3

LEMMA ReplyStepKeeps ==
    ASSUME BrowserInv, Server!TypeOK', NEW h \in Handler, ReplyStep(h)
    PROVE  BrowserInv'
<1>0. access \in BOOLEAN
  BY DEF BrowserInv, Typed
<1>1. CASE ReplyArrives(h) /\ ~Carries(h)
  <2>1. /\ UNCHANGED <<rows, handler, failures, losses, struck, access>> /\ UNCHANGED serverVars
        /\ wire[h].at = "granted" /\ wire[h].kind = "logout" /\ jar' = NoToken
        /\ wire' = [wire EXCEPT ![h].at = "settling", ![h].token = NoToken]
    BY <1>1 DEF ReplyArrives, Carries, serverVars, historyVars
  <2>2. PICK r \in WireState : r = [wire[h] EXCEPT !.at = "settling", !.token = NoToken]
    BY DEF BrowserInv, Typed, WireState
  <2>3. wire' = [wire EXCEPT ![h] = r] /\ r.at = "settling" /\ r.token = NoToken
    BY <2>1, <2>2 DEF BrowserInv, Typed, WireState
  <2>4. handler[h] = Server!Idle /\ ~Server!At(h, "create") /\ ~OnWire(h, "renew", "granted")
    BY <2>1 DEF BrowserInv, Typed, WireTyped, Server!At, Server!Idle, OnWire
  <2>5. losses' \in Nat /\ failures' + losses' <= MaxFailures /\ struck' \subseteq issued'
    BY <2>1 DEF BrowserInv, Typed, serverVars
  <2>6. Ended(h, r)
    <3>1. handler'[h] = Server!Idle /\ \A g \in Handler : g # h => handler'[g] = handler[g]
      BY <2>1, <2>4
    <3>2. \A s : Server!At(h, "create") /\ s = origin[handler[h].token] => Over(s)'
      BY <2>4
    <3>3. \A s : OnWire(h, "renew", "granted") /\ s = origin[wire[h].token] => Over(s)'
      BY <2>4
    <3>4. rows \subseteq rows' /\ jar' \in {jar, NoToken} /\ struck \subseteq struck' /\ access' \in BOOLEAN
      BY <1>0, <2>1
    <3>. QED BY <2>1, <2>3, <2>5, <3>1, <3>2, <3>3, <3>4 DEF Ended
  <2>. QED BY <2>1, <2>6, Ending
<1>2. CASE ConnectionBreaks(h) \/ TabCloses(h)
  <2>1. Abandon(h) /\ access' \in BOOLEAN
    BY <1>0, <1>2 DEF ConnectionBreaks, TabCloses, AfterError
  <2>. QED BY <2>1, AbandonKeeps
<1>. QED BY <1>1, <1>2, CookieArrives, TabEnds DEF ReplyStep

----------------------------------------------------------------------------
(* What the server answers.                                                *)

LEMMA Refusing ==
    ASSUME BrowserInv, Server!TypeOK', Server!Next \/ UNCHANGED serverVars,
           NEW h \in Handler, Refuse(h), wire[h].at \in {"out", "served"},
           handler'[h] = Server!Idle, \A g \in Handler : g # h => handler'[g] = handler[g],
           UNCHANGED <<rows, failures, jar, access, losses>>,
           \A s : Server!At(h, "create") /\ s = origin[handler[h].token] => Over(s)'
    PROVE  BrowserInv'
<1>1. PICK r \in WireState : /\ r.at \in {"free", "refused"} /\ r.token = NoToken
                             /\ wire' = [wire EXCEPT ![h] = r]
  <2>0. wire[h] \in WireState /\ wire \in [Handler -> WireState]
    BY DEF BrowserInv, Typed
  <2>1. CASE wire[h].tab = NoTab
    <3>1. Free \in WireState /\ Free.at = "free" /\ Free.token = NoToken
      BY DEF Free, WireState
    <3>. QED BY <2>1, <3>1 DEF Refuse, Answer
  <2>2. CASE wire[h].tab # NoTab
    <3>1. PICK r \in WireState : r = [wire[h] EXCEPT !.at = "refused", !.token = NoToken]
      BY <2>0 DEF WireState
    <3>2. r.at = "refused" /\ r.token = NoToken
      BY <2>0, <3>1 DEF WireState
    <3>3. wire' = [wire EXCEPT ![h] = r]
      BY <2>0, <2>2, <3>1 DEF Refuse, Answer, WireState
    <3>. QED BY <3>2, <3>3
  <2>. QED BY <2>1, <2>2
<1>2. struck' = struck
  BY DEF Refuse, Answer
<1>3. issued \subseteq issued'
  BY ServerKeeps DEF BrowserInv, serverVars
<1>4. access' \in BOOLEAN /\ losses' \in Nat /\ failures' + losses' <= MaxFailures
      /\ struck' \subseteq issued'
  BY <1>2, <1>3 DEF BrowserInv, Typed
<1>5. ~OnWire(h, "renew", "granted")
  BY DEF OnWire
<1>6. Ended(h, r)
  BY <1>1, <1>2, <1>4, <1>5 DEF Ended
<1>. QED BY <1>6, Ending

\* A request that is out has no handler, and one that is served has the handler it needs.
LEMMA HandlerOf ==
    ASSUME BrowserInv, NEW h \in Handler
    PROVE  /\ wire[h] \in WireState /\ wire \in [Handler -> WireState]
           /\ handler \in [Handler -> Server!HandlerState]
           /\ wire[h].at = "out" => handler[h] = Server!Idle
           /\ ~Server!At(h, "idle") => wire[h].at = "served"
           /\ handler[h].at \in {"delete", "create"} =>
                  /\ OnWire(h, "renew", "served") /\ handler[h].token = wire[h].token
                  /\ handler[h].token \in issued /\ owner[handler[h].token] = handler[h].user
<1>1. wire \in [Handler -> WireState] /\ handler \in [Handler -> Server!HandlerState]
  BY DEF BrowserInv, Typed, Server!TypeOK
<1>2. (handler[h] # Server!Idle <=> wire[h].at = "served") /\ Linked(h) /\ Server!HandlerTyped(h)
  BY DEF BrowserInv, Typed, Server!TypeOK, WireTyped
<1>3. wire[h].kind \in {"renew", "login", "logout"}
  BY <1>1 DEF WireState
<1>. QED BY <1>1, <1>2, <1>3 DEF Linked, OnWire, Server!At, Server!Idle, Server!HandlerTyped

LEMMA OutKeeps ==
    ASSUME BrowserInv, Server!TypeOK', Server!Next \/ UNCHANGED serverVars,
           NEW h \in Handler, RateLimited(h) \/ ServeRefresh(h) \/ ServeLogout(h)
    PROVE  BrowserInv'
<1>0. wire[h].at = "out" /\ handler[h] = Server!Idle /\ ~Server!At(h, "create")
  BY HandlerOf DEF RateLimited, ServeRefresh, ServeLogout, OnWire, Server!At, Server!Idle
<1>1. CASE RateLimited(h)
  BY <1>0, <1>1, Refusing DEF RateLimited, serverVars, storageVars
<1>2. CASE ServeRefresh(h) /\ UNCHANGED serverVars /\ Refuse(h)
  BY <1>0, <1>2, Refusing DEF ServeRefresh, serverVars, storageVars
<1>3. CASE ServeRefresh(h) /\ Server!RefreshFind(h, wire[h].token) /\ handler'[h] = Server!Idle
  <2>1. /\ Refuse(h) /\ UNCHANGED <<rows, failures, jar, access, losses>>
        /\ \A g \in Handler : g # h => handler'[g] = handler[g]
    BY <1>3, HandlerOf DEF ServeRefresh, Server!RefreshFind, Server!tokenVars, Server!userVars,
       Server!endings, storageVars
  <2>. QED BY <1>0, <1>3, <2>1, Refusing
<1>4. CASE ServeRefresh(h) /\ Server!RefreshFind(h, wire[h].token) /\ handler'[h] # Server!Idle
  <2>0. wire[h].token # NoToken
    <3>1. NoToken \notin rows
      BY DEF BrowserInv, Typed, Server!TypeOK
    <3>. QED BY <1>0, <1>4, <3>1 DEF Server!RefreshFind
  <2>1. /\ UNCHANGED <<rows, failures, jar, access, losses, struck>>
        /\ wire' = [wire EXCEPT ![h].at = "served"]
        /\ OnWire(h, "renew", "out")
    BY <1>4, <2>0 DEF ServeRefresh, Server!RefreshFind, Server!tokenVars, Server!userVars,
       Server!endings, storageVars
  <2>2. /\ handler'[h] = [at |-> "delete", token |-> wire[h].token, user |-> owner[wire[h].token]]
        /\ \A g \in Handler : g # h => handler'[g] = handler[g]
    BY <1>0, <1>4, HandlerOf DEF Server!RefreshFind
  <2>3. wire' \in [Handler -> WireState]
    BY <2>1, HandlerOf DEF WireState
  <2>4. /\ \A g \in Handler : wire'[g].kind = wire[g].kind /\ wire'[g].token = wire[g].token
        /\ \A g \in Handler : g # h => wire'[g].at = wire[g].at
        /\ wire'[h].at = "served"
    BY <2>1, HandlerOf DEF WireState
  <2>5. issued \subseteq issued' /\ wire[h].token \in issued \union {NoToken}
    BY ServerKeeps DEF BrowserInv, serverVars, Typed, WireTyped
  <2>6. WireTyped(h)' /\ Linked(h)'
    BY <1>4, <2>1, <2>2, <2>4, <2>5 DEF WireTyped, Linked, OnWire, Server!At
  <2>7. access' \in BOOLEAN /\ losses' \in Nat /\ failures' + losses' <= MaxFailures
    BY <2>1 DEF BrowserInv, Typed
  <2>8. Moved(h)
    BY <1>0, <2>1, <2>2, <2>3, <2>4, <2>6, <2>7 DEF Moved
  <2>. QED BY <2>8, GoingOn
<1>5. CASE ServeLogout(h)
  <2>1. /\ UNCHANGED <<rows, failures, handler, jar, access, losses, struck>> /\ UNCHANGED serverVars
        /\ wire[h].kind = "logout"
        /\ wire' = [wire EXCEPT ![h] = IF @.tab = NoTab THEN Free ELSE [@ EXCEPT !.at = "granted"]]
    BY <1>5 DEF ServeLogout, serverVars, storageVars, historyVars, OnWire
  <2>2. PICK r \in WireState :
            /\ wire' = [wire EXCEPT ![h] = r]
            /\ r.token \in {NoToken, wire[h].token}
            /\ r.at = "free" \/ (r.at = "granted" /\ r.kind = "logout")
    <3>1. Free \in WireState /\ Free.at = "free" /\ Free.token = NoToken
      BY DEF Free, WireState
    <3>2. PICK r \in WireState : r = [wire[h] EXCEPT !.at = "granted"]
      BY HandlerOf DEF WireState
    <3>3. r.token = wire[h].token /\ r.at = "granted" /\ r.kind = "logout"
      BY <2>1, <3>2, HandlerOf DEF WireState
    <3>. QED BY <2>1, <3>1, <3>2, <3>3, HandlerOf
  <2>3. /\ access' \in BOOLEAN /\ losses' \in Nat /\ failures' + losses' <= MaxFailures
        /\ struck' \subseteq issued'
    BY <2>1 DEF BrowserInv, Typed, serverVars
  <2>4. ~OnWire(h, "renew", "granted")
    BY <1>0 DEF OnWire
  <2>5. Ended(h, r)
    BY <1>0, <2>1, <2>2, <2>3, <2>4 DEF Ended
  <2>. QED BY <2>1, <2>5, Ending
<1>. QED BY <1>1, <1>2, <1>3, <1>4, <1>5 DEF ServeRefresh

LEMMA DeleteKeeps ==
    ASSUME BrowserInv, Server!TypeOK', Server!Next, NEW h \in Handler, ServeDelete(h)
    PROVE  BrowserInv'
<1>. USE DEF Server!RefreshDelete, Server!tokenVars, Server!userVars, Server!endings, storageVars
<1>0. PICK t \in issued :
        /\ t = handler[h].token /\ t = wire[h].token /\ handler[h].at = "delete"
        /\ OnWire(h, "renew", "served") /\ rows' = rows \ {t}
        /\ UNCHANGED <<issued, origin, failures, jar, access, losses>>
        /\ handler' = [handler EXCEPT ![h] = IF t \in rows THEN [@ EXCEPT !.at = "create"] ELSE Server!Idle]
  BY HandlerOf DEF ServeDelete, Server!At
<1>1. \A g \in Handler : g # h => handler'[g] = handler[g]
  BY <1>0, HandlerOf
<1>2. CASE t \notin rows
  <2>1. handler'[h] = Server!Idle
    BY <1>0, <1>2, HandlerOf
  <2>2. Refuse(h) /\ rows' = rows
    BY <1>0, <1>2, <2>1 DEF ServeDelete
  <2>3. ~Server!At(h, "create") /\ wire[h].at = "served"
    BY <1>0 DEF Server!At, OnWire
  <2>. QED BY <1>0, <1>1, <2>1, <2>2, <2>3, Refusing
<1>3. CASE t \in rows
  <2>1. handler'[h].at = "create" /\ handler'[h].token = t /\ handler'[h] # Server!Idle
    BY <1>0, <1>3, HandlerOf DEF Server!Idle, Server!HandlerState
  <2>2. UNCHANGED <<wire, struck>>
    BY <2>1 DEF ServeDelete
  <2>3. WireTyped(h)' /\ Linked(h)' /\ ~Server!At(h, "create") /\ wire[h].at = "served"
    <3>1. wire[h].token \in issued \union {NoToken}
      BY <1>0
    <3>. QED
      BY <1>0, <2>1, <2>2, <3>1 DEF WireTyped, Linked, OnWire, Server!At
  <2>4. \A k \in rows \ rows' : \A s : s = origin[k] => UnderWay(s)'
    BY <1>0, <2>1 DEF UnderWay, Server!At
  <2>5. \A g \in Handler : ~(Carries(g) /\ wire[g].token \in rows \ rows')
    BY <1>0 DEF BrowserInv, Apart, Carries, OnWire
  <2>6. /\ wire' \in [Handler -> WireState] /\ access' \in BOOLEAN /\ losses' \in Nat
        /\ failures' + losses' <= MaxFailures
    BY <1>0, <2>2 DEF BrowserInv, Typed
  <2>7. Moved(h)
    BY <1>0, <1>1, <2>2, <2>3, <2>4, <2>5, <2>6 DEF Moved
  <2>. QED BY <2>7, GoingOn
<1>. QED BY <1>2, <1>3

\* The reply to a login or to a renewal sets off, to a tab that waits for it.
LEMMA Granting ==
    ASSUME BrowserInv, Server!TypeOK', Server!Next, NEW h \in Handler, NEW n \in Token \ issued,
           \/ Server!At(h, "open") /\ origin'[n] = n
           \/ Server!At(h, "create") /\ origin'[n] = origin[handler[h].token],
           rows' = rows \union {n}, issued' = issued \union {n},
           handler'[h] = Server!Idle, \A g \in Handler : g # h => handler'[g] = handler[g],
           wire' = [wire EXCEPT ![h].at = "granted", ![h].token = n],
           UNCHANGED <<jar, access, losses, struck, failures>>
    PROVE  BrowserInv'
<1>0. NoToken \notin issued /\ jar \in issued \union {NoToken}
      /\ \A g \in Handler : wire[g].token \in issued \union {NoToken}
  BY DEF BrowserInv, Typed, WireTyped, Server!TypeOK
<1>1. \A t \in issued : origin[t] \in issued /\ origin'[t] = origin[t] /\ (Over(t) => Over(t)')
  BY StaysOver DEF BrowserInv
<1>2. /\ wire'[h].at = "granted" /\ wire'[h].token = n /\ wire'[h].kind = wire[h].kind
      /\ \A g \in Handler : g # h => wire'[g] = wire[g]
      /\ wire' \in [Handler -> WireState]
  BY HandlerOf DEF WireState
<1>3. wire[h].at = "served" /\ wire[h].kind # "logout" /\ Linked(h)
  BY HandlerOf DEF Server!At, BrowserInv, Linked
<1>4. Typed'
  <2>1. \A g \in Handler : WireTyped(g)'
    BY <1>0, <1>2 DEF BrowserInv, Typed, WireTyped
  <2>. QED BY <1>2, <2>1 DEF BrowserInv, Typed
<1>5. \A g \in Handler : Linked(g)'
  <2>1. Linked(h)'
    BY <1>2 DEF Linked, OnWire
  <2>2. ASSUME NEW g \in Handler, g # h PROVE Linked(g)'
    BY <1>2, <2>2 DEF BrowserInv, Linked, OnWire, Server!At
  <2>. QED BY <2>1, <2>2
<1>6. ASSUME NEW g \in Handler, Carries(g)' PROVE Apart(g)'
  <2>1. CASE g = h
    BY <1>0, <1>2, <2>1 DEF Apart
  <2>2. CASE g # h
    <3>1. Carries(g) /\ wire[g].token \in issued /\ wire'[g] = wire[g]
      BY <1>2, <1>6, <2>2 DEF Carries, BrowserInv, Typed, WireTyped
    <3>2. PICK t \in issued, s \in issued : t = wire[g].token /\ s = origin[t]
      BY <1>1, <3>1
    <3>3. t \in rows' \/ Over(s)'
      BY <1>1, <3>1, <3>2 DEF BrowserInv, Apart
    <3>4. t # jar' /\ \A f \in Handler : f # g => wire'[f].token # t
      BY <1>2, <3>1, <3>2 DEF BrowserInv, Apart
    <3>. QED BY <1>1, <3>1, <3>2, <3>3, <3>4 DEF Apart
  <2>. QED BY <2>1, <2>2
<1>7. RacingTabsKeepTheLogin'
  <2>0. SUFFICES ASSUME jar' # NoToken
                 PROVE  (jar \in rows \/ UnderWay(origin[jar]) \/ Over(origin[jar]))'
    BY DEF RacingTabsKeepTheLogin
  <2>1. PICK s \in issued : s = origin[jar]
    BY <1>0, <1>1, <2>0
  <2>2. jar' = jar /\ jar \in issued /\ origin'[jar'] = s
    BY <1>0, <1>1, <2>0, <2>1
  <2>3. ASSUME NEW g \in Handler, Server!At(g, "create"), origin[handler[g].token] = s
        PROVE  UnderWay(s)'
    <3>1. handler[g].token \in issued /\ OnWire(g, "renew", "served")
      BY <2>3, HandlerOf DEF Server!At
    <3>2. CASE g = h
      BY <1>2, <2>3, <3>1, <3>2 DEF UnderWay, OnWire, Server!At
    <3>3. CASE g # h
      BY <1>1, <2>3, <3>1, <3>3 DEF UnderWay, Server!At
    <3>. QED BY <3>2, <3>3
  <2>4. ASSUME NEW g \in Handler, OnWire(g, "renew", "granted"), origin[wire[g].token] = s
        PROVE  UnderWay(s)'
    <3>1. wire[g].token \in issued /\ g # h
      BY <1>3, <2>4 DEF BrowserInv, Typed, WireTyped, OnWire
    <3>. QED BY <1>1, <1>2, <2>4, <3>1 DEF UnderWay, OnWire
  <2>5. jar \in rows \/ UnderWay(s) \/ Over(s)
    BY <2>0, <2>1, <2>2 DEF BrowserInv, RacingTabsKeepTheLogin
  <2>6. jar \in rows' \/ UnderWay(s)' \/ Over(s)'
    BY <1>1, <2>1, <2>3, <2>4, <2>5 DEF UnderWay
  <2>. QED BY <2>2, <2>6
<1>. QED BY <1>4, <1>5, <1>6, <1>7 DEF BrowserInv, Apart

\* The request ends with its token made, or stopped before, and no tab learns of it.
LEMMA Unseen ==
    ASSUME BrowserInv, Server!TypeOK', Server!Next, NEW h \in Handler, wire[h].at = "served",
           NEW r \in WireState, r.at \in {"free", "refused"}, r.token = NoToken,
           wire' = [wire EXCEPT ![h] = r],
           handler'[h] = Server!Idle, \A g \in Handler : g # h => handler'[g] = handler[g],
           rows \subseteq rows', UNCHANGED <<jar, access, losses>>, failures' + losses' <= MaxFailures,
           Server!At(h, "create") => struck' = struck \union {origin[handler[h].token]},
           ~Server!At(h, "create") => struck' = struck
    PROVE  BrowserInv'
<1>1. issued \subseteq issued'
  BY ServerKeeps DEF BrowserInv
<1>2. Server!At(h, "create") => origin[handler[h].token] \in issued
  BY HandlerOf DEF BrowserInv, Typed, Server!TypeOK, Server!Descends, Server!At
<1>3. struck \subseteq struck' /\ struck' \subseteq issued'
  BY <1>1, <1>2 DEF BrowserInv, Typed
<1>4. \A s : Server!At(h, "create") /\ s = origin[handler[h].token] => Over(s)'
  BY DEF Over
<1>5. ~OnWire(h, "renew", "granted")
  BY DEF OnWire
<1>6. losses' \in Nat /\ access' \in BOOLEAN
  BY DEF BrowserInv, Typed
<1>7. Ended(h, r)
  BY <1>3, <1>4, <1>5, <1>6 DEF Ended
<1>. QED BY <1>7, Ending

LEMMA CreateKeeps ==
    ASSUME BrowserInv, Server!TypeOK', Server!Next, NEW h \in Handler, ServeCreate(h)
    PROVE  BrowserInv'
<1>. USE DEF Server!tokenVars, Server!userVars, Server!endings, storageVars
<1>0. PICK u, spent :
        /\ \/ Server!At(h, "open") /\ spent = NoToken
           \/ Server!At(h, "create") /\ spent = handler[h].token
        /\ u = handler[h].user /\ Server!CreateTokenPair(h, u, spent)
  BY DEF ServeCreate, Server!LoginOpens, Server!RefreshCreate
<1>1. /\ handler'[h] = Server!Idle /\ \A g \in Handler : g # h => handler'[g] = handler[g]
      /\ UNCHANGED <<failures, jar, access, losses, deleted>> /\ wire[h].at = "served"
      /\ NoToken \notin issued /\ NoToken \notin Token
  <2>1. wire[h].at = "served" /\ NoToken \notin issued
    BY <1>0, HandlerOf DEF Server!At, BrowserInv, Typed, Server!TypeOK
  <2>. QED BY <1>0, <2>1, HandlerOf DEF Server!CreateTokenPair, ServeCreate
<1>2. CASE u \in deleted
  <2>1. UNCHANGED <<rows, issued, origin>>
    BY <1>0, <1>2 DEF Server!CreateTokenPair
  <2>2. Refuse(h)
    BY <2>1 DEF ServeCreate
  <2>3. \A s : Server!At(h, "create") /\ s = origin[handler[h].token] => Over(s)'
    <3>1. Server!At(h, "create") => handler[h].token \in issued /\ owner[handler[h].token] = u
      BY <1>0, HandlerOf DEF Server!At
    <3>2. \A t \in issued : owner[origin[t]] = owner[t]
      BY DEF BrowserInv, Typed, Server!TypeOK, Server!Descends
    <3>3. UNCHANGED owner
      BY <1>0, <1>2 DEF Server!CreateTokenPair
    <3>. QED BY <1>1, <1>2, <3>1, <3>2, <3>3 DEF Over
  <2>. QED BY <1>1, <2>1, <2>2, <2>3, Refusing
<1>3. CASE u \notin deleted
  <2>1. PICK n \in Token \ issued :
           /\ rows' = rows \union {n} /\ issued' = issued \union {n}
           /\ origin' = [origin EXCEPT ![n] = IF spent = NoToken THEN n ELSE origin[spent]]
    BY <1>0, <1>3 DEF Server!CreateTokenPair
  <2>2. Answer(h, "granted", n)
    BY <2>1 DEF ServeCreate
  <2>3. spent # NoToken <=> Server!At(h, "create")
    BY <1>0, <1>1, HandlerOf DEF Server!At
  <2>4. \/ Server!At(h, "open") /\ origin'[n] = n
        \/ Server!At(h, "create") /\ origin'[n] = origin[handler[h].token]
    <3>1. origin \in [Token -> Token \union {NoToken}]
      BY DEF BrowserInv, Typed, Server!TypeOK
    <3>. QED BY <1>0, <2>1, <2>3, <3>1
  <2>5. CASE wire[h].tab # NoTab
    <3>1. wire' = [wire EXCEPT ![h].at = "granted", ![h].token = n] /\ struck' = struck
      BY <2>2, <2>5 DEF Answer
    <3>. QED BY <1>1, <2>1, <2>4, <3>1, Granting
  <2>6. CASE wire[h].tab = NoTab
    <3>1. wire' = [wire EXCEPT ![h] = Free]
      BY <2>2, <2>6 DEF Answer
    <3>2. Server!At(h, "create") <=> OnWire(h, "renew", "served")
      <4>1. Server!At(h, "open") => ~OnWire(h, "renew", "served")
        BY DEF BrowserInv, Linked, Server!At
      <4>. QED BY <1>0, <4>1, HandlerOf DEF Server!At
    <3>3. Server!At(h, "create") => handler[h].token = wire[h].token
      BY HandlerOf DEF Server!At
    <3>4. /\ Server!At(h, "create") => struck' = struck \union {origin[handler[h].token]}
          /\ ~Server!At(h, "create") => struck' = struck
      BY <2>2, <2>6, <3>2, <3>3 DEF Answer
    <3>5. Free \in WireState /\ Free.at = "free" /\ Free.token = NoToken
      BY DEF Free, WireState
    <3>6. failures' + losses' <= MaxFailures
      BY <1>1 DEF BrowserInv, Typed
    <3>. QED BY <1>1, <2>1, <3>1, <3>4, <3>5, <3>6, Unseen
  <2>. QED BY <2>5, <2>6
<1>. QED BY <1>2, <1>3

LEMMA FailsKeeps ==
    ASSUME BrowserInv, Server!TypeOK', Server!Next, NEW h \in Handler, ServeFails(h)
    PROVE  BrowserInv'
<1>. USE DEF Server!tokenVars, Server!userVars, Server!endings, storageVars
<1>1. /\ handler'[h] = Server!Idle /\ \A g \in Handler : g # h => handler'[g] = handler[g]
      /\ UNCHANGED <<rows, jar, access, losses>> /\ wire[h].at = "served"
      /\ failures' = failures + 1 /\ failures + losses < MaxFailures
  <2>1. wire[h].at = "served"
    BY HandlerOf DEF ServeFails, Server!HandlerFails
  <2>. QED BY <2>1, HandlerOf DEF ServeFails, Server!HandlerFails
<1>2. PICK r \in WireState : /\ r.at \in {"free", "refused"} /\ r.token = NoToken
                             /\ wire' = [wire EXCEPT ![h] = r]
  <2>1. Free \in WireState /\ Free.at = "free" /\ Free.token = NoToken
    BY DEF Free, WireState
  <2>2. PICK r \in WireState : r = [wire[h] EXCEPT !.at = "refused", !.token = NoToken]
    BY HandlerOf DEF WireState
  <2>3. r.at = "refused" /\ r.token = NoToken
    BY <2>2, HandlerOf DEF WireState
  <2>4. wire' = [wire EXCEPT ![h] = IF wire[h].tab = NoTab THEN Free ELSE r]
    BY <2>2, HandlerOf DEF ServeFails
  <2>. QED BY <2>1, <2>3, <2>4
<1>3. failures' + losses' <= MaxFailures
  <2>1. failures \in Nat /\ losses \in Nat
    BY DEF BrowserInv, Typed, Server!TypeOK
  <2>2. (failures + 1) + losses <= MaxFailures
    BY <1>1, <2>1
  <2>. QED BY <1>1, <2>2
<1>4. /\ Server!At(h, "create") => struck' = struck \union {origin[handler[h].token]}
      /\ ~Server!At(h, "create") => struck' = struck
  BY DEF ServeFails
<1>. QED BY <1>1, <1>2, <1>3, <1>4, Unseen

----------------------------------------------------------------------------
LEMMA InvInductive == BrowserInv /\ [Next]_vars => BrowserInv'
<1> SUFFICES ASSUME BrowserInv, [Next]_vars PROVE BrowserInv'
  OBVIOUS
<1>0. Server!TypeOK' /\ (Server!Next \/ UNCHANGED serverVars)
  BY ServerMoves, ServerTypes DEF BrowserInv
<1>1. ASSUME NEW h \in Handler, ServerStep(h) PROVE BrowserInv'
  <2>1. CASE ServeDelete(h)
    <3>1. Server!Next
      BY <2>1 DEF ServeDelete, Server!Next, Server!HandlerStep
    <3>. QED BY <1>0, <2>1, <3>1, DeleteKeeps
  <2>2. CASE ServeCreate(h)
    <3>1. Server!Next
      BY <2>2 DEF ServeCreate, Server!Next, Server!HandlerStep
    <3>. QED BY <1>0, <2>2, <3>1, CreateKeeps
  <2>3. CASE ServeFails(h)
    <3>1. Server!Next
      BY <2>3 DEF ServeFails, Server!Next, Server!HandlerStep
    <3>. QED BY <1>0, <2>3, <3>1, FailsKeeps
  <2>. QED BY <1>0, <1>1, <2>1, <2>2, <2>3, OutKeeps DEF ServerStep
<1>2. ASSUME NEW h \in Handler, ReplyStep(h) PROVE BrowserInv'
  BY <1>0, <1>2, ReplyStepKeeps
<1>3. ASSUME NEW h \in Handler, NEW b \in Tab, TabStep(h, b) PROVE BrowserInv'
  BY <1>0, <1>3, TabStepKeeps
<1>4. CASE MeFails \/ CookieExpires
  BY <1>0, <1>4, StorageKeeps
<1>5. CASE Elsewhere
  BY <1>0, <1>5, ElsewhereKeeps
<1>6. CASE UNCHANGED vars
  BY <1>0, <1>6, StandingKeeps
<1>. QED BY <1>1, <1>2, <1>3, <1>4, <1>5, <1>6 DEF Next

LEMMA InvHolds == Spec => []BrowserInv
  BY InvInit, InvInductive, PTL DEF Spec

----------------------------------------------------------------------------
(* Logouts.                                                                *)

\* While the browser is signed out, nothing on the wire can sign it in.
LogoutInv ==
    /\ signedOut \in BOOLEAN
    /\ signedOut => jar = NoToken /\ \A h \in Handler : ~MayBring(h)
    /\ LogoutIsFinal

\* The requests that may bring something are not joined by others, but for one that is
\* sent with a cookie and for a login.
LEMMA NoneJoins ==
    ASSUME BrowserInv, jar = NoToken, \A h \in Handler : ~MayBring(h), Next,
           \A h \in Handler, b \in Tab : ~Login(h, b)
    PROVE  \A h \in Handler : ~MayBring(h)'
<1>0. /\ wire \in [Handler -> WireState]
      /\ \A h \in Handler : /\ wire[h].kind # "logout" => wire[h].at \notin {"served", "granted", "settling"}
                            /\ OnWire(h, "renew", "out") => wire[h].token = NoToken
                            /\ handler[h] = Server!Idle
  BY DEF BrowserInv, Typed, WireTyped, Linked, MayBring
<1>1. ASSUME NEW h \in Handler, ServerStep(h) PROVE \A g \in Handler : ~MayBring(g)'
  <2>1. ~ServeDelete(h) /\ ~ServeCreate(h) /\ ~ServeFails(h)
    BY <1>0 DEF ServeDelete, ServeCreate, ServeFails, Server!RefreshDelete, Server!RefreshCreate,
       Server!LoginOpens, Server!HandlerFails, Server!At, Server!Idle
  <2>2. CASE RateLimited(h) \/ ServeRefresh(h)
    <3>1. Refuse(h)
      BY <1>0, <2>2 DEF RateLimited, ServeRefresh
    <3>2. \A g \in Handler : wire'[g] = wire[g] \/ (wire'[g].at \in {"free", "refused"})
      <4>1. \/ wire' = [wire EXCEPT ![h] = Free]
            \/ wire' = [wire EXCEPT ![h].at = "refused", ![h].token = NoToken]
        BY <3>1 DEF Refuse, Answer
      <4>2. wire'[h].at \in {"free", "refused"}
        BY <1>0, <4>1 DEF Free, WireState
      <4> QED BY <1>0, <4>1, <4>2
    <3> QED BY <1>0, <3>2 DEF MayBring, OnWire
  <2>3. CASE ServeLogout(h)
    <3>1. \A g \in Handler : \/ wire'[g] = wire[g] \/ wire'[g] = Free
                            \/ wire'[g].kind = "logout"
      BY <1>0, <2>3 DEF ServeLogout, OnWire
    <3> QED BY <1>0, <3>1 DEF MayBring, OnWire, Free
  <2> QED BY <1>1, <2>1, <2>2, <2>3 DEF ServerStep
<1>2. ASSUME NEW h \in Handler, ReplyStep(h) PROVE \A g \in Handler : ~MayBring(g)'
  <2>1. \A g \in Handler : \/ wire'[g].at = "free"
                          \/ /\ wire'[g].kind = wire[g].kind /\ wire'[g].token \in {wire[g].token, NoToken}
                             /\ wire'[g].at = wire[g].at \/ (wire[g].at = "granted" /\ wire'[g].at = "settling")
    <3>1. CASE ReplyArrives(h)
      BY <1>0, <3>1 DEF ReplyArrives, WireState
    <3>2. CASE Settle(h) \/ Refused(h)
      BY <1>0, <3>2 DEF Settle, Refused, Free
    <3>3. CASE Abandon(h)
      BY <1>0, <3>3 DEF Abandon, Free, WireState
    <3> QED BY <1>2, <3>1, <3>2, <3>3 DEF ReplyStep, ConnectionBreaks, TabCloses
  <2> QED BY <1>0, <2>1 DEF MayBring, OnWire
<1>3. ASSUME NEW h \in Handler, NEW b \in Tab, TabStep(h, b) PROVE \A g \in Handler : ~MayBring(g)'
  <2>1. \A g \in Handler : wire'[g] = wire[g] \/ (wire'[g].at = "out" /\ wire'[g].token = NoToken)
    BY <1>0, <1>3 DEF TabStep, TryRefresh, Logout, Send, Request
  <2> QED BY <1>0, <2>1 DEF MayBring, OnWire
<1>4. CASE MeFails \/ CookieExpires \/ Elsewhere
  BY <1>4 DEF MeFails, CookieExpires, Elsewhere, MayBring, OnWire
<1> QED BY <1>1, <1>2, <1>3, <1>4 DEF Next

\* A step after which the browser counts as signed out is the arrival of a logout's reply
\* while nothing else may bring anything, or it was so before.
LEMMA SignedOutSince ==
    ASSUME Next, signedOut'
    PROVE  /\ \A h \in Handler, b \in Tab : ~Login(h, b)
           /\ \/ signedOut
              \/ \E h \in Handler : /\ ReplyArrives(h) /\ wire[h].kind = "logout"
                                   /\ \A g \in Handler : ~MayBring(g)
<1> USE DEF historyVars, serverVars, storageVars
<1>0. \A h \in Handler, b \in Tab : ~Login(h, b)
  BY DEF Login
<1>1. ASSUME NEW h \in Handler, ServerStep(h) PROVE signedOut' = signedOut
  BY <1>1 DEF ServerStep, RateLimited, ServeRefresh, ServeLogout, ServeDelete, ServeCreate, ServeFails
<1>2. ASSUME NEW h \in Handler, ReplyStep(h)
      PROVE  \/ signedOut' = signedOut
             \/ /\ ReplyArrives(h) /\ wire[h].kind = "logout"
                /\ signedOut' = \A g \in Handler : ~MayBring(g)
  <2>1. CASE ReplyArrives(h)
    BY <2>1 DEF ReplyArrives, LogoutAnswered
  <2> QED BY <1>2, <2>1 DEF ReplyStep, Settle, Refused, ConnectionBreaks, TabCloses, Abandon
<1>3. ASSUME NEW h \in Handler, NEW b \in Tab, TabStep(h, b) PROVE signedOut' = signedOut
  BY <1>0, <1>3 DEF TabStep, TryRefresh, Logout
<1>4. ASSUME MeFails \/ CookieExpires \/ Elsewhere PROVE signedOut' = signedOut
  BY <1>4 DEF MeFails, CookieExpires, Elsewhere
<1> QED BY <1>0, <1>1, <1>2, <1>3, <1>4 DEF Next

LEMMA LogoutTyped == ASSUME signedOut \in BOOLEAN, [Next]_vars PROVE signedOut' \in BOOLEAN
<1> USE DEF historyVars, serverVars, storageVars
<1>1. ASSUME NEW h \in Handler, ServerStep(h) PROVE signedOut' = signedOut
  BY <1>1 DEF ServerStep, RateLimited, ServeRefresh, ServeLogout, ServeDelete, ServeCreate, ServeFails
<1>2. ASSUME NEW h \in Handler, ReplyStep(h) PROVE signedOut' \in BOOLEAN
  BY <1>2 DEF ReplyStep, ReplyArrives, LogoutAnswered, Settle, Refused, ConnectionBreaks, TabCloses, Abandon
<1>3. ASSUME NEW h \in Handler, NEW b \in Tab, TabStep(h, b) PROVE signedOut' \in {signedOut, FALSE}
  BY <1>3 DEF TabStep, TryRefresh, Login, Logout
<1>4. CASE MeFails \/ CookieExpires \/ Elsewhere \/ UNCHANGED vars
  BY <1>4 DEF MeFails, CookieExpires, Elsewhere, vars
<1> QED BY <1>1, <1>2, <1>3, <1>4 DEF Next

LEMMA LogoutStep == ASSUME BrowserInv, LogoutInv, [Next]_vars PROVE LogoutInv'
<1> USE DEF LogoutInv
<1>0. signedOut' \in BOOLEAN
  BY LogoutTyped
<1>1. CASE UNCHANGED vars
  BY <1>1 DEF vars, serverVars, storageVars, historyVars, MayBring, OnWire, LogoutIsFinal
<1>2. CASE Next /\ ~signedOut'
  BY <1>0, <1>2 DEF LogoutIsFinal
<1>3. ASSUME Next, signedOut', NEW h \in Handler, ReplyArrives(h), wire[h].kind = "logout",
             \A g \in Handler : ~MayBring(g)
      PROVE  LogoutInv'
  <2>1. /\ wire \in [Handler -> WireState] /\ jar' = NoToken
        /\ wire' = [wire EXCEPT ![h].at = "settling", ![h].token = NoToken]
    BY <1>3 DEF ReplyArrives, BrowserInv, Typed
  <2>2. OnWire(h, "logout", "settling")'
    BY <1>3, <2>1 DEF OnWire, WireState
  <2>3. \A g \in Handler : ~MayBring(g)'
    BY <1>3, <2>1 DEF MayBring, OnWire, WireState
  <2> QED BY <1>0, <2>1, <2>2, <2>3 DEF LogoutIsFinal
<1>4. ASSUME Next, signedOut', signedOut PROVE LogoutInv'
  <2>1. \A h \in Handler : ~MayBring(h)'
    BY <1>4, NoneJoins, SignedOutSince
  <2>2. jar' = NoToken /\ (access' => \E h \in Handler : OnWire(h, "logout", "settling")')
    <3>0. /\ wire \in [Handler -> WireState] /\ jar = NoToken
          /\ \A h \in Handler : wire[h].kind # "logout" => wire[h].at \notin {"granted", "settling"}
          /\ access => \E h \in Handler : OnWire(h, "logout", "settling")
      BY <1>4 DEF BrowserInv, Typed, MayBring, LogoutIsFinal
    <3> DEFINE Stays(g) == OnWire(g, "logout", "settling") => OnWire(g, "logout", "settling")'
    <3>1. ASSUME NEW h \in Handler, ServerStep(h) PROVE UNCHANGED storageVars /\ \A g \in Handler : Stays(g)
      <4>1. UNCHANGED storageVars
        BY <3>1 DEF ServerStep, RateLimited, ServeRefresh, ServeLogout, ServeDelete, ServeCreate, ServeFails, storageVars
      <4>2. CASE RateLimited(h) \/ ServeRefresh(h) \/ ServeLogout(h)
        BY <3>0, <4>1, <4>2 DEF RateLimited, ServeRefresh, ServeLogout, Refuse, Answer, OnWire, WireState
      <4>3. CASE ServeDelete(h) \/ ServeCreate(h) \/ ServeFails(h)
        <5>1. handler[h] # Server!Idle
          BY <4>3 DEF ServeDelete, ServeCreate, ServeFails, Server!RefreshDelete, Server!RefreshCreate,
             Server!LoginOpens, Server!HandlerFails, Server!At, Server!Idle
        <5>2. wire[h].at = "served" /\ wire[h].kind # "logout"
          BY <5>1 DEF BrowserInv, Typed, WireTyped, Linked
        <5> QED BY <1>4, <5>2 DEF MayBring
      <4> QED BY <3>1, <4>1, <4>2, <4>3 DEF ServerStep
    <3>2. ASSUME NEW h \in Handler, ReplyStep(h)
          PROVE  jar' = NoToken /\ (access' = FALSE \/ (access' = access /\ \A g \in Handler : Stays(g)))
      <4>1. CASE ReplyArrives(h)
        BY <3>0, <4>1 DEF ReplyArrives, OnWire, WireState
      <4>2. CASE Settle(h)
        BY <3>0, <4>2 DEF Settle
      <4>3. CASE Refused(h)
        BY <3>0, <4>3 DEF Refused, AfterError, OnWire
      <4>4. CASE ConnectionBreaks(h) \/ TabCloses(h)
        <5>1. \A g \in Handler : Stays(g)
          BY <3>0, <4>4 DEF ConnectionBreaks, TabCloses, Abandon, OnWire
        <5> QED BY <3>0, <4>4, <5>1 DEF ConnectionBreaks, TabCloses, Abandon, AfterError
      <4> QED BY <3>2, <4>1, <4>2, <4>3, <4>4 DEF ReplyStep
    <3>3. ASSUME NEW h \in Handler, NEW b \in Tab, TabStep(h, b)
          PROVE  UNCHANGED storageVars /\ \A g \in Handler : Stays(g)
      BY <3>0, <3>3 DEF TabStep, TryRefresh, Login, Logout, Send, storageVars, OnWire, Free
    <3>4. CASE MeFails \/ CookieExpires \/ Elsewhere
      BY <3>0, <3>4 DEF MeFails, CookieExpires, Elsewhere, storageVars, OnWire
    <3>5. access' = FALSE \/ (access' = access /\ \A g \in Handler : Stays(g))
      BY <1>4, <3>1, <3>2, <3>3, <3>4 DEF Next, storageVars, MeFails, CookieExpires, Elsewhere, OnWire
    <3>6. jar' = NoToken
      BY <1>4, <3>0, <3>1, <3>2, <3>3, <3>4 DEF Next, storageVars
    <3> QED BY <3>0, <3>5, <3>6
  <2> QED BY <1>0, <2>1, <2>2 DEF LogoutIsFinal
<1> QED BY <1>0, <1>1, <1>2, <1>3, <1>4, SignedOutSince

LEMMA LogoutHolds == Spec => []LogoutInv
<1>1. Init => LogoutInv
  BY DEF Init, LogoutInv, LogoutIsFinal
<1>. QED BY <1>1, InvHolds, LogoutStep, PTL DEF Spec


(* The jar, the storage, the wire and the sessions keep their types, and   *)
(* the server works for a request exactly while the wire says it is        *)
(* served, for any number of tabs and requests.                            *)
THEOREM BrowserTypes == Spec => []TypeOK
<1>1. BrowserInv /\ LogoutInv => TypeOK
  BY DEF BrowserInv, LogoutInv, Typed, TypeOK
<1>. QED BY <1>1, InvHolds, LogoutHolds, PTL

(* Once a logout is answered, no reply brings the login back, of whichever *)
(* tab and however late, unless it was under way before (auth-context.tsx, *)
(* logout; api.ts, tryRefresh).                                            *)
THEOREM LogoutsAreFinal == Spec => []LogoutIsFinal
<1>1. LogoutInv => LogoutIsFinal
  BY DEF LogoutInv
<1>. QED BY <1>1, LogoutHolds, PTL

(* Whatever the tabs send and however their replies are lost, the routes   *)
(* do with the sessions what login, refresh and revocation may do.         *)
THEOREM RoutesUseTheSessions == Spec => Server!Spec
<1>1. Init => Server!Init
  BY DEF Init
<1>2. BrowserInv /\ [Next]_vars => [Server!Next]_(Server!vars)
  BY ServerMoves DEF BrowserInv, serverVars, Server!vars, Server!tokenVars, Server!userVars,
     Server!endings
<1>. QED BY <1>1, <1>2, InvHolds, PTL DEF Spec, Server!Spec

(* Tabs that share a cookie race for its single use, in tryRefresh and in  *)
(* the refresh route; the cookie in the jar still opens the session, or    *)
(* the one that will is under way, unless it was revoked or a reply lost.  *)
THEOREM TheLoginSurvivesTheRace == Spec => []RacingTabsKeepTheLogin
<1>1. BrowserInv => RacingTabsKeepTheLogin
  BY DEF BrowserInv
<1>. QED BY <1>1, InvHolds, PTL

(* So the sessions behind the routes are those of SessionsProofs: one row  *)
(* for one login, however many tabs renew it, and none after its end.      *)
THEOREM RoutesNeverForkASession == Spec => [](Server!OneRowPerLogin /\ Server!RevokedStaysRevoked)
<1>1. Server!Spec => Proven!Spec
  <2>1. Server!Init => Proven!Init
    BY DEF Server!Init, Proven!Init, Server!Idle, Proven!Idle
  <2>2. [Server!Next]_(Server!vars) => [Proven!Next]_(Proven!vars)
    BY SameNext DEF Server!vars, Server!tokenVars, Server!userVars, Server!endings, Proven!vars,
       Proven!tokenVars, Proven!userVars, Proven!endings
  <2>. QED BY <2>1, <2>2, PTL DEF Server!Spec, Proven!Spec
<1>2. Proven!Spec => [](Proven!OneRowPerLogin /\ Proven!RevokedStaysRevoked)
  BY SessionsAssumed, Proven!RotationNeverForks, Proven!RevocationIsFinal, PTL
<1>3. Proven!OneRowPerLogin /\ Proven!RevokedStaysRevoked
          => Server!OneRowPerLogin /\ Server!RevokedStaysRevoked
  BY DEF Server!OneRowPerLogin, Proven!OneRowPerLogin, Server!RevokedStaysRevoked,
     Proven!RevokedStaysRevoked, Server!LiveRows, Proven!LiveRows, Server!Renewing, Proven!Renewing,
     Server!At, Proven!At
<1>. QED BY <1>1, <1>2, <1>3, RoutesUseTheSessions, PTL
=============================================================================
