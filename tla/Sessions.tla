------------------------------ MODULE Sessions ------------------------------
(***************************************************************************)
(* Refresh tokens on the server: login and refresh of auth.service.ts, the *)
(* revocations of security.service.ts and the rows of refresh_tokens.      *)
(*                                                                         *)
(* A login and its renewals are one session, named by the token the login  *)
(* issued.  refresh() awaits the database three times (find, delete,       *)
(* create), so requests that carry the same token interleave there; every  *)
(* other operation is one statement of the database.  Handler is the set   *)
(* of requests that may be in progress at once.  Any client may present    *)
(* any token that was ever issued, as two tabs of a browser or a request   *)
(* repeated by the network do.                                             *)
(***************************************************************************)
EXTENDS Naturals, FiniteSets

CONSTANTS
    User,
    Token,        \* refresh tokens; the random 64 bytes make every one fresh
    Handler,      \* login and refresh requests in progress
    NoToken,      \* what a handler holds that has no token
    Nobody,       \* the owner of a token that was not issued
    MaxFailures   \* bound: requests that end half way

ASSUME SessionAssumption ==
    /\ NoToken \notin Token
    /\ Nobody \notin User
    /\ MaxFailures \in Nat

VARIABLES
    rows,       \* tokens with a row in refresh_tokens
    expired,    \* tokens whose expires_at has passed
    issued,     \* tokens that exist
    origin,     \* origin[t]: the token the login of t's session issued
    owner,      \* owner[t]: the user of the row
    active,     \* users with is_active
    deleted,    \* users whose row is gone
    handler,    \* handler[h]: [at, token, user]
    failures,   \* requests that ended half way so far
    revoked,    \* sessions that were at rest when a revocation took their row
    swept       \* sessions of a user who has revoked all of his sessions since

userVars == <<active, deleted>>
tokenVars == <<rows, expired, issued, origin, owner>>
endings == <<revoked, swept>>
vars == <<tokenVars, userVars, handler, failures, endings>>

Idle == [at |-> "idle", token |-> NoToken, user |-> Nobody]

At(h, label) == handler[h].at = label

RowsOf(u) == {t \in rows : owner[t] = u}

Init ==
    /\ rows = {} /\ expired = {} /\ issued = {}
    /\ origin = [t \in Token |-> NoToken]
    /\ owner = [t \in Token |-> Nobody]
    /\ active = User /\ deleted = {}
    /\ handler = [h \in Handler |-> Idle]
    /\ failures = 0 /\ revoked = {} /\ swept = {}

----------------------------------------------------------------------------
(* Login.                                                                  *)

\* The password is right and the account is active.  The row comes later: after the
\* second factor for those who have one, with no further look at the account.
LoginAccepted(h, u) ==
    /\ At(h, "idle")
    /\ u \in active \ deleted
    /\ handler' = [handler EXCEPT ![h] = [Idle EXCEPT !.at = "open", !.user = u]]
    /\ UNCHANGED <<tokenVars, userVars, failures, endings>>

\* Mutant: the account is looked at again, after its token is spent.
CreateTokenPairIfActive(h, u, spent) ==
    /\ handler' = [handler EXCEPT ![h] = Idle]
    /\ IF u \in deleted \/ u \notin active
       THEN UNCHANGED tokenVars
       ELSE \E n \in Token \ issued :
               /\ rows' = rows \union {n}
               /\ issued' = issued \union {n}
               /\ origin' = [origin EXCEPT ![n] = IF spent = NoToken THEN n ELSE origin[spent]]
               /\ owner' = [owner EXCEPT ![n] = u]
               /\ UNCHANGED expired
    /\ UNCHANGED <<userVars, failures, endings>>

\* _createTokenPair, for a login or in exchange for a spent token.  The insert fails
\* when the user is gone (foreign key).
CreateTokenPair(h, u, spent) ==
    /\ handler' = [handler EXCEPT ![h] = Idle]
    /\ IF u \in deleted
       THEN UNCHANGED tokenVars
       ELSE \E n \in Token \ issued :
               /\ rows' = rows \union {n}
               /\ issued' = issued \union {n}
               /\ origin' = [origin EXCEPT ![n] = IF spent = NoToken THEN n ELSE origin[spent]]
               /\ owner' = [owner EXCEPT ![n] = u]
               /\ UNCHANGED expired
    /\ UNCHANGED <<userVars, failures, endings>>

LoginOpens(h) == At(h, "open") /\ CreateTokenPair(h, handler[h].user, NoToken)

----------------------------------------------------------------------------
(* Refresh.                                                                *)

\* Mutant: the refusal of a token that has no row is missing.
RefreshFindUnchecked(h, t) ==
    /\ At(h, "idle")
    /\ handler' = IF t \notin expired
                  THEN [handler EXCEPT ![h] = [at |-> "delete", token |-> t, user |-> owner[t]]]
                  ELSE handler
    /\ UNCHANGED <<tokenVars, userVars, failures, endings>>

\* findUnique with the user, and the three refusals (401).
RefreshFind(h, t) ==
    /\ At(h, "idle")
    /\ handler' = IF t \in rows \ expired /\ owner[t] \in active
                  THEN [handler EXCEPT ![h] = [at |-> "delete", token |-> t, user |-> owner[t]]]
                  ELSE handler
    /\ UNCHANGED <<tokenVars, userVars, failures, endings>>

\* Mutant: deleteMany, which does not mind that the row is gone.
RefreshDeleteMany(h) ==
    /\ At(h, "delete")
    /\ rows' = rows \ {handler[h].token}
    /\ handler' = [handler EXCEPT ![h].at = "create"]
    /\ UNCHANGED <<expired, issued, origin, owner, userVars, failures, endings>>

\* delete by hash: it throws (P2025, answered with 500) when the row is gone, and
\* that is what makes a token good for one renewal.
RefreshDelete(h) ==
    LET t == handler[h].token
    IN  /\ At(h, "delete")
        /\ rows' = rows \ {t}
        /\ handler' = [handler EXCEPT ![h] = IF t \in rows THEN [@ EXCEPT !.at = "create"] ELSE Idle]
        /\ UNCHANGED <<expired, issued, origin, owner, userVars, failures, endings>>

RefreshCreate(h) == At(h, "create") /\ CreateTokenPair(h, handler[h].user, handler[h].token)

\* The process stops, or a call of the request is rejected.
HandlerFails(h) ==
    /\ ~At(h, "idle")
    /\ failures < MaxFailures
    /\ failures' = failures + 1
    /\ handler' = [handler EXCEPT ![h] = Idle]
    /\ UNCHANGED <<tokenVars, userVars, endings>>

----------------------------------------------------------------------------
(* Revocation.                                                             *)

\* Rows are deleted for good; what is revoked is the sessions they stood for.
Drop(T) ==
    /\ rows' = rows \ T
    /\ revoked' = revoked \union {origin[t] : t \in T}
    /\ UNCHANGED <<expired, issued, origin, owner, handler, failures>>

\* logout, revokeSession and forceRevokeSession of one row.
RevokeSession(t) == t \in rows /\ Drop({t}) /\ UNCHANGED <<userVars, swept>>

RevokeAllSessions(u) ==
    /\ Drop(RowsOf(u))
    /\ swept' = swept \union {s \in issued : owner[s] = u}
    /\ UNCHANGED userVars

CleanupExpiredTokens == Drop(rows \intersect expired) /\ UNCHANGED <<userVars, swept>>

\* Deleting a user cascades to the rows.
DeleteUser(u) ==
    /\ u \notin deleted
    /\ deleted' = deleted \union {u}
    /\ Drop(RowsOf(u))
    /\ UNCHANGED <<active, swept>>

\* A look and an update: of two that overlap one is lost, which is one toggle.
ToggleStatus(u) ==
    /\ u \notin deleted
    /\ active' = IF u \in active THEN active \ {u} ELSE active \union {u}
    /\ UNCHANGED <<tokenVars, deleted, handler, failures, endings>>

\* Seven days pass.
Expires(t) ==
    /\ t \in issued \ expired
    /\ expired' = expired \union {t}
    /\ UNCHANGED <<rows, issued, origin, owner, userVars, handler, failures, endings>>

----------------------------------------------------------------------------
HandlerStep(h) ==
    \/ \E u \in User : LoginAccepted(h, u)
    \/ LoginOpens(h)
    \/ \E t \in Token : RefreshFind(h, t)
    \/ RefreshDelete(h) \/ RefreshCreate(h)
    \/ HandlerFails(h)

Next ==
    \/ \E h \in Handler : HandlerStep(h)
    \/ \E t \in Token : RevokeSession(t) \/ Expires(t)
    \/ \E u \in User : RevokeAllSessions(u) \/ DeleteUser(u) \/ ToggleStatus(u)
    \/ CleanupExpiredTokens

Spec == Init /\ [][Next]_vars

----------------------------------------------------------------------------
(* Properties.                                                             *)

HandlerState ==
    [at : {"idle", "open", "delete", "create"}, token : Token \union {NoToken},
     user : User \union {Nobody}]

\* What a request in progress holds.
HandlerTyped(h) ==
    /\ ~At(h, "idle") => handler[h].user \in User
    /\ handler[h].at \in {"delete", "create"} =>
           handler[h].token \in issued /\ owner[handler[h].token] = handler[h].user

\* A renewed token belongs to the session and to the user of the one it replaces.
Descends(t) ==
    /\ origin[t] \in issued /\ origin[origin[t]] = origin[t]
    /\ owner[t] \in User /\ owner[origin[t]] = owner[t]

(* The types, the lineage of the tokens, and what each request holds.      *)
TypeOK ==
    /\ rows \subseteq issued /\ expired \subseteq issued /\ issued \subseteq Token
    /\ origin \in [Token -> Token \union {NoToken}]
    /\ owner \in [Token -> User \union {Nobody}]
    /\ \A t \in issued : Descends(t)
    /\ active \subseteq User /\ deleted \subseteq User
    /\ handler \in [Handler -> HandlerState]
    /\ \A h \in Handler : HandlerTyped(h)
    /\ failures \in Nat
    /\ revoked \subseteq issued /\ swept \subseteq issued

Renewing(s) == {h \in Handler : At(h, "create") /\ origin[handler[h].token] = s}

LiveRows(s) == {t \in rows : origin[t] = s}

(* Rotation never forks a session: however many requests present its token *)
(* at once, one login stands for at most one row, and while a renewal owes *)
(* it a row it has none.                                                   *)
OneRowPerLogin ==
    \A s \in issued :
        /\ \A t1, t2 \in LiveRows(s) : t1 = t2
        /\ \A h1, h2 \in Renewing(s) : h1 = h2
        /\ Renewing(s) # {} => LiveRows(s) = {}

(* A session whose row was revoked, cleaned up or deleted with its user is *)
(* over: no request that read the row before can bring it back.            *)
RevokedStaysRevoked == \A s \in revoked : LiveRows(s) = {} /\ Renewing(s) = {}

\* Logins that nobody revoked and whose user is still there, with no row and no request
\* that owes them one.
LostSessions ==
    {s \in issued \ revoked : /\ origin[s] = s
                              /\ owner[s] \notin deleted
                              /\ LiveRows(s) = {} /\ Renewing(s) = {}}

(* Requests that race for a token never cost a login its session: only a   *)
(* renewal that stopped between the delete and the insert does.            *)
SessionsLostOnlyToFailures == Cardinality(LostSessions) <= failures

(* Revoking all the sessions of a user ends every session he had.          *)
RevokeAllIsFinal == \A t \in rows : origin[t] \notin swept

\* Where the session named by s stands, read off the rows and the requests.
Stands(s) ==
    IF s \notin issued \/ origin[s] # s THEN "unborn"
    ELSE IF LiveRows(s) # {} THEN "live"
    ELSE IF Renewing(s) # {} THEN "renewing"
    ELSE "ended"

Life == INSTANCE SessionLife WITH Session <- Token, life <- [s \in Token |-> Stands(s)]

(* Login, refresh and revocation implement the life of a session.          *)
ImplementsSessionLife == Life!Spec
=============================================================================
