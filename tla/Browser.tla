------------------------------ MODULE Browser ------------------------------
(***************************************************************************)
(* One browser against the sessions of the server: the tabs of the web     *)
(* client (lib/api.ts, lib/auth-context.tsx), the cookie jar and the       *)
(* localStorage they share, and the authentication routes between them and *)
(* Sessions.                                                               *)
(*                                                                         *)
(* A request in flight is an element of Handler: wire[h] is what the       *)
(* network and the tab know of it, handler[h] what the server does for it. *)
(* A tab that stops waiting leaves its request behind, and the server goes *)
(* on with it.  The tab stores the cookie of a reply when its headers      *)
(* arrive and the access token when its script runs; other tabs act in     *)
(* between.                                                                *)
(***************************************************************************)
EXTENDS Naturals, FiniteSets

CONSTANTS
    User, Token, Handler, NoToken, Nobody, MaxFailures,   \* as in Sessions
    Tab,
    NoTab        \* nobody waits for the reply any more

ASSUME BrowserAssumption ==
    /\ NoToken \notin Token /\ Nobody \notin User /\ MaxFailures \in Nat   \* as in Sessions
    /\ NoTab \notin Tab

VARIABLES
    rows, expired, issued, origin, owner, active, deleted, handler, failures, revoked, swept,
    jar,        \* the refreshToken cookie
    access,     \* whether localStorage holds an accessToken
    wire,       \* wire[h]: [at, kind, tab, token]
    losses,     \* replies that never reached a tab so far; shares the bound of failures
    struck,     \* history: sessions whose new token was made and never reached the jar
    signedOut   \* history: a logout was answered while nothing else could bring a cookie,
                \*          and no login was sent since

Server == INSTANCE Sessions

serverVars == <<rows, expired, issued, origin, owner, active, deleted, handler, failures,
                revoked, swept>>
storageVars == <<jar, access>>
historyVars == <<losses, struck, signedOut>>
vars == <<serverVars, storageVars, wire, historyVars>>

Free == [at |-> "free", kind |-> "renew", tab |-> NoTab, token |-> NoToken]

Request(kind, at, b, t) == [at |-> at, kind |-> kind, tab |-> b, token |-> t]

OnWire(h, kind, at) == wire[h].kind = kind /\ wire[h].at = at

Init ==
    /\ Server!Init
    /\ jar = NoToken /\ access = FALSE
    /\ wire = [h \in Handler |-> Free]
    /\ losses = 0 /\ struck = {} /\ signedOut = FALSE

----------------------------------------------------------------------------
(* What a tab sends.                                                       *)

Send(h, req) == wire[h] = Free /\ wire' = [wire EXCEPT ![h] = req]

\* refreshingPromise: the tab waits for the renewal it has already sent.
Refreshing(b) == \E h \in Handler : wire[h].kind = "renew" /\ wire[h].tab = b

\* tryRefresh, after a call that was answered with 401.  The cookie goes with it.
TryRefresh(h, b) ==
    /\ ~Refreshing(b)
    /\ Send(h, Request("renew", "out", b, jar))
    /\ UNCHANGED <<serverVars, storageVars, historyVars>>

\* A login the server accepts; a refused one changes nothing.
Login(h, b) ==
    /\ Send(h, Request("login", "served", b, NoToken))
    /\ \E u \in User : Server!LoginAccepted(h, u)
    /\ signedOut' = FALSE
    /\ UNCHANGED <<storageVars, losses, struck>>

\* logout with a valid access token.  With an expired one the call is answered with 401
\* and is a TryRefresh first, repeated as this action if that succeeds.
Logout(h, b) ==
    /\ access
    /\ Send(h, Request("logout", "out", b, jar))
    /\ UNCHANGED <<serverVars, storageVars, historyVars>>

----------------------------------------------------------------------------
(* What the server answers.                                                *)

\* The reply to h is on its way; nobody sees it when its tab has stopped waiting.
Answer(h, outcome, t) ==
    IF wire[h].tab = NoTab
    THEN /\ wire' = [wire EXCEPT ![h] = Free]
         /\ struck' = IF OnWire(h, "renew", "served") /\ outcome = "granted"
                      THEN struck \union {origin[wire[h].token]} ELSE struck
    ELSE /\ wire' = [wire EXCEPT ![h].at = outcome, ![h].token = t]
         /\ UNCHANGED struck

Refuse(h) == Answer(h, "refused", NoToken)

\* The rate limit is checked before any route (429).
RateLimited(h) ==
    /\ wire[h].at = "out"
    /\ Refuse(h)
    /\ UNCHANGED <<serverVars, storageVars, losses, signedOut>>

\* The refresh route: no cookie is a 401, else refresh() looks the token up.
ServeRefresh(h) ==
    /\ OnWire(h, "renew", "out")
    /\ IF wire[h].token = NoToken
       THEN Refuse(h) /\ UNCHANGED serverVars
       ELSE /\ Server!RefreshFind(h, wire[h].token)
            /\ IF handler'[h] = Server!Idle
               THEN Refuse(h)
               ELSE wire' = [wire EXCEPT ![h].at = "served"] /\ UNCHANGED struck
    /\ UNCHANGED <<storageVars, losses, signedOut>>

\* Mutant: the error of a delete that found no row is not answered.
ServeDeleteSilent(h) ==
    /\ Server!RefreshDelete(h)
    /\ UNCHANGED <<wire, struck, storageVars, losses, signedOut>>

ServeDelete(h) ==
    /\ Server!RefreshDelete(h)
    /\ IF handler'[h] = Server!Idle THEN Refuse(h) ELSE UNCHANGED <<wire, struck>>
    /\ UNCHANGED <<storageVars, losses, signedOut>>

\* _createTokenPair returned, or its insert failed: the routes answer.
ServeCreate(h) ==
    /\ Server!RefreshCreate(h) \/ Server!LoginOpens(h)
    /\ IF issued' = issued THEN Refuse(h)
       ELSE \E t \in issued' \ issued : Answer(h, "granted", t)
    /\ UNCHANGED <<storageVars, losses, signedOut>>

\* The handler is cut off: the tab gets an error, or no answer at all.
ServeFails(h) ==
    /\ Server!HandlerFails(h)
    /\ failures + losses < MaxFailures
    /\ wire' = [wire EXCEPT ![h] = IF @.tab = NoTab THEN Free
                                   ELSE [@ EXCEPT !.at = "refused", !.token = NoToken]]
    /\ struck' = IF Server!At(h, "create") THEN struck \union {origin[handler[h].token]}
                 ELSE struck
    /\ UNCHANGED <<storageVars, losses, signedOut>>

\* The logout route.  The cookie's path is /v1/auth/refresh, so the request came without
\* it and authService.logout is not called; the reply clears the cookie.
ServeLogout(h) ==
    /\ OnWire(h, "logout", "out")
    /\ wire' = [wire EXCEPT ![h] = IF @.tab = NoTab THEN Free ELSE [@ EXCEPT !.at = "granted"]]
    /\ UNCHANGED <<serverVars, storageVars, historyVars>>

----------------------------------------------------------------------------
(* What reaches the browser.                                               *)

\* A request whose reply may still bring a cookie or an access token.
MayBring(h) ==
    \/ wire[h].kind # "logout" /\ wire[h].at \in {"served", "granted", "settling"}
    \/ OnWire(h, "renew", "out") /\ wire[h].token # NoToken

LogoutAnswered(h) ==
    signedOut' = IF wire[h].kind = "logout" THEN \A g \in Handler : ~MayBring(g) ELSE signedOut

\* Mutant: the refresh route forgets reply.setCookie.
ReplyArrivesBare(h) ==
    /\ wire[h].at = "granted"
    /\ jar' = CASE wire[h].kind = "logout" -> NoToken
                [] wire[h].kind = "renew" -> jar
                [] OTHER -> wire[h].token
    /\ wire' = [wire EXCEPT ![h].at = "settling", ![h].token = NoToken]
    /\ LogoutAnswered(h)
    /\ UNCHANGED <<serverVars, access, losses, struck>>

\* Mutant: clearCookie names another path than setCookie did, and clears nothing.
ReplyArrivesUncleared(h) ==
    /\ wire[h].at = "granted"
    /\ jar' = IF wire[h].kind = "logout" THEN jar ELSE wire[h].token
    /\ wire' = [wire EXCEPT ![h].at = "settling", ![h].token = NoToken]
    /\ LogoutAnswered(h)
    /\ UNCHANGED <<serverVars, access, losses, struck>>

\* The headers of a reply: Set-Cookie of login and renewal, clearCookie of logout.
ReplyArrives(h) ==
    /\ wire[h].at = "granted"
    /\ jar' = IF wire[h].kind = "logout" THEN NoToken ELSE wire[h].token
    /\ wire' = [wire EXCEPT ![h].at = "settling", ![h].token = NoToken]
    /\ LogoutAnswered(h)
    /\ UNCHANGED <<serverVars, access, losses, struck>>

\* The script of the tab goes on: setItem, or clearTokens after a logout.
Settle(h) ==
    /\ wire[h].at = "settling"
    /\ access' = (wire[h].kind # "logout")
    /\ wire' = [wire EXCEPT ![h] = Free]
    /\ UNCHANGED <<serverVars, jar, historyVars>>

\* What a tab that gets no 2xx does: tryRefresh clears the storage of all tabs, login
\* reports the error, logout clears whatever the answer was.
AfterError(kind) == kind = "login" /\ access

Refused(h) ==
    /\ wire[h].at = "refused"
    /\ access' = AfterError(wire[h].kind)
    /\ wire' = [wire EXCEPT ![h] = Free]
    /\ UNCHANGED <<serverVars, jar, historyVars>>

\* The reply to h, made or yet to be made, will reach nobody.
Abandon(h) ==
    /\ wire[h].at \in {"out", "served", "granted"} /\ wire[h].tab # NoTab
    /\ failures + losses < MaxFailures
    /\ losses' = losses + 1
    /\ wire' = [wire EXCEPT ![h] = IF @.at = "granted" THEN Free ELSE [@ EXCEPT !.tab = NoTab]]
    /\ struck' = IF OnWire(h, "renew", "granted") THEN struck \union {origin[wire[h].token]}
                 ELSE struck
    /\ UNCHANGED <<serverVars, jar, signedOut>>

\* fetch rejects: the catch of tryRefresh, of login or of logout.
ConnectionBreaks(h) == Abandon(h) /\ access' = AfterError(wire[h].kind)

\* The tab is closed or reloaded while it waits: no script is left to run.
TabCloses(h) == Abandon(h) /\ UNCHANGED access

\* AuthProvider's refresh: /users/me failed for a reason other than 401.
MeFails ==
    /\ access
    /\ access' = FALSE
    /\ UNCHANGED <<serverVars, jar, wire, historyVars>>

\* maxAge of the cookie.
CookieExpires ==
    /\ jar \in expired
    /\ jar' = NoToken
    /\ UNCHANGED <<serverVars, access, wire, historyVars>>

----------------------------------------------------------------------------
\* What others do to the sessions of this browser's users.
Elsewhere ==
    /\ \/ \E t \in rows : Server!RevokeSession(t)
       \/ \E t \in rows \union {jar} : Server!Expires(t)
       \/ \E u \in User :
              Server!RevokeAllSessions(u) \/ Server!DeleteUser(u) \/ Server!ToggleStatus(u)
       \/ Server!CleanupExpiredTokens
    /\ UNCHANGED <<storageVars, wire, historyVars>>

TabStep(h, b) == TryRefresh(h, b) \/ Login(h, b) \/ Logout(h, b)

ServerStep(h) ==
    \/ RateLimited(h) \/ ServeRefresh(h) \/ ServeLogout(h)
    \/ ServeDelete(h) \/ ServeCreate(h) \/ ServeFails(h)

ReplyStep(h) ==
    ReplyArrives(h) \/ Settle(h) \/ Refused(h) \/ ConnectionBreaks(h) \/ TabCloses(h)

Next ==
    \/ \E h \in Handler : ServerStep(h) \/ ReplyStep(h) \/ \E b \in Tab : TabStep(h, b)
    \/ MeFails \/ CookieExpires
    \/ Elsewhere

Spec == Init /\ [][Next]_vars

----------------------------------------------------------------------------
(* Properties.                                                             *)

WireState ==
    [at : {"free", "out", "served", "granted", "refused", "settling"},
     kind : {"renew", "login", "logout"}, tab : Tab \union {NoTab},
     token : Token \union {NoToken}]

\* The server works for a request exactly while the wire says it is served, and a reply
\* in flight carries a token that was issued.
WireTyped(h) ==
    /\ handler[h] # Server!Idle <=> wire[h].at = "served"
    /\ wire[h].at = "granted" /\ wire[h].kind # "logout" => wire[h].token \in issued
    /\ wire[h].token \in issued \union {NoToken}

(* The types, and the agreement of the two halves of each request.         *)
TypeOK ==
    /\ jar \in issued \union {NoToken} /\ access \in BOOLEAN
    /\ wire \in [Handler -> WireState] /\ \A h \in Handler : WireTyped(h)
    /\ losses \in Nat /\ failures + losses <= MaxFailures
    /\ struck \subseteq issued /\ signedOut \in BOOLEAN
    /\ Server!TypeOK

\* A renewal of s that has spent its token, or the reply that brings the new one.
UnderWay(s) ==
    \E h \in Handler :
        \/ Server!At(h, "create") /\ origin[handler[h].token] = s
        \/ OnWire(h, "renew", "granted") /\ origin[wire[h].token] = s

Over(s) == s \in revoked \union struck \/ owner[s] \in deleted

(* Tabs that share a cookie race for its single use, and each loser is     *)
(* refused; still the cookie in the jar opens the session, or the one that *)
(* will is under way, unless the session was revoked or a reply was lost.  *)
RacingTabsKeepTheLogin ==
    jar # NoToken => jar \in rows \/ UnderWay(origin[jar]) \/ Over(origin[jar])

(* After a logout the browser is signed out until somebody logs in: no     *)
(* reply, of whichever tab and however late, brings a cookie or an access  *)
(* token back, unless a login or a renewal with a cookie was under way     *)
(* when the logout was answered.  A tab whose logout is settling has yet   *)
(* to clear the access token (auth-context.tsx, logout; api.ts,            *)
(* tryRefresh).                                                            *)
LogoutIsFinal ==
    signedOut => jar = NoToken /\ (access => \E h \in Handler : OnWire(h, "logout", "settling"))
=============================================================================
