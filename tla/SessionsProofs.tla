--------------------------- MODULE SessionsProofs ---------------------------
(***************************************************************************)
(* Proofs about Sessions for any users, tokens and requests in progress:   *)
(* its invariants, and that it implements SessionLife.                     *)
(***************************************************************************)
EXTENDS Sessions, FiniteSetTheorems, TLAPS

USE SessionAssumption

----------------------------------------------------------------------------
(* Type correctness.                                                       *)

LEMMA CreateKeepsTypes ==
    ASSUME TypeOK, NEW h \in Handler, NEW u \in User, NEW spent \in Token \union {NoToken},
           spent # NoToken => spent \in issued /\ owner[spent] = u,
           CreateTokenPair(h, u, spent)
    PROVE  TypeOK'
<1>. USE DEF CreateTokenPair, tokenVars, userVars, endings
<1>1. CASE u \in deleted
  BY <1>1 DEF TypeOK, HandlerTyped, HandlerState, Idle, At, Descends
<1>2. CASE u \notin deleted
  <2>1. PICK n \in Token \ issued :
           /\ rows' = rows \union {n}
           /\ issued' = issued \union {n}
           /\ origin' = [origin EXCEPT ![n] = IF spent = NoToken THEN n ELSE origin[spent]]
           /\ owner' = [owner EXCEPT ![n] = u]
    BY <1>2
  <2>2. origin' \in [Token -> Token \union {NoToken}] /\ owner' \in [Token -> User \union {Nobody}]
    BY <2>1 DEF TypeOK
  <2>3. \A t \in issued' : Descends(t)'
    BY <2>1 DEF TypeOK, Descends
  <2>4. \A g \in Handler : HandlerTyped(g)'
    BY <2>1 DEF TypeOK, HandlerTyped, Idle, At
  <2>5. handler' \in [Handler -> HandlerState]
    BY DEF TypeOK, HandlerState, Idle
  <2>. QED BY <1>2, <2>1, <2>2, <2>3, <2>4, <2>5 DEF TypeOK
<1>. QED BY <1>1, <1>2

\* Deleting rows leaves the lineage of the tokens alone.
LEMMA DropKeepsTypes ==
    ASSUME TypeOK, NEW T \in SUBSET rows, Drop(T), active' = active, deleted' \subseteq User,
           swept' \subseteq issued
    PROVE  TypeOK'
BY DEF TypeOK, Drop, HandlerTyped, At, Descends

LEMMA TypeInductive == TypeOK /\ [Next]_vars => TypeOK'
<1> SUFFICES ASSUME TypeOK, [Next]_vars PROVE TypeOK'
  OBVIOUS
<1>. USE DEF tokenVars, userVars, endings
<1>1. ASSUME NEW h \in Handler, HandlerStep(h) PROVE TypeOK'
  <2>1. ASSUME NEW u \in User, LoginAccepted(h, u) PROVE TypeOK'
    BY <2>1 DEF LoginAccepted, TypeOK, HandlerTyped, HandlerState, Idle, At, Descends
  <2>2. CASE LoginOpens(h)
    BY <2>2, CreateKeepsTypes DEF LoginOpens, TypeOK, HandlerTyped, At
  <2>3. ASSUME NEW t \in Token, RefreshFind(h, t) PROVE TypeOK'
    BY <2>3 DEF RefreshFind, TypeOK, HandlerTyped, HandlerState, Idle, At, Descends
  <2>4. CASE RefreshDelete(h)
    BY <2>4 DEF RefreshDelete, TypeOK, HandlerTyped, HandlerState, Idle, At, Descends
  <2>5. CASE RefreshCreate(h)
    BY <2>5, CreateKeepsTypes DEF RefreshCreate, TypeOK, HandlerTyped, At
  <2>6. CASE HandlerFails(h)
    BY <2>6 DEF HandlerFails, TypeOK, HandlerTyped, HandlerState, Idle, At, Descends
  <2>. QED BY <1>1, <2>1, <2>2, <2>3, <2>4, <2>5, <2>6 DEF HandlerStep
<1>2. ASSUME NEW t \in Token, RevokeSession(t) PROVE TypeOK'
  BY <1>2, DropKeepsTypes DEF RevokeSession, TypeOK
<1>3. ASSUME NEW t \in Token, Expires(t) PROVE TypeOK'
  BY <1>3 DEF Expires, TypeOK, HandlerTyped, At, Descends
<1>4. ASSUME NEW u \in User, RevokeAllSessions(u) PROVE TypeOK'
  BY <1>4, DropKeepsTypes DEF RevokeAllSessions, RowsOf, TypeOK
<1>5. ASSUME NEW u \in User, DeleteUser(u) PROVE TypeOK'
  BY <1>5, DropKeepsTypes DEF DeleteUser, RowsOf, TypeOK
<1>6. ASSUME NEW u \in User, ToggleStatus(u) PROVE TypeOK'
  BY <1>6 DEF ToggleStatus, TypeOK, HandlerTyped, At, Descends
<1>7. CASE CleanupExpiredTokens
  BY <1>7, DropKeepsTypes DEF CleanupExpiredTokens, TypeOK
<1>8. CASE UNCHANGED vars
  BY <1>8 DEF vars, TypeOK, HandlerTyped, At, Descends
<1>. QED BY <1>1, <1>2, <1>3, <1>4, <1>5, <1>6, <1>7, <1>8 DEF Next

(* The rows, the lineage of every token and what a request holds keep      *)
(* their types, for any number of requests in progress.                    *)
THEOREM TypeCorrect == Spec => []TypeOK
<1>1. Init => TypeOK
  BY DEF Init, TypeOK, HandlerTyped, HandlerState, Idle, At
<1>. QED BY <1>1, TypeInductive, PTL DEF Spec

----------------------------------------------------------------------------
(* One row per login.  OneRowPerLogin and RevokedStaysRevoked are preserved *)
(* together: a renewal cannot revive a revoked session because a session   *)
(* that was revoked had its one row, and so no renewal in progress.        *)

SessionInv == TypeOK /\ OneRowPerLogin /\ RevokedStaysRevoked

\* What a request that creates a token leaves of the rows and renewals of every session.
LEMMA CreateEffect ==
    ASSUME SessionInv, NEW h \in Handler, NEW u \in User, NEW spent \in Token \union {NoToken},
           IF spent = NoToken THEN At(h, "open") ELSE At(h, "create") /\ handler[h].token = spent,
           CreateTokenPair(h, u, spent)
    PROVE  \/ /\ u \in deleted /\ UNCHANGED tokenVars
              /\ \A s \in Token : LiveRows(s)' = LiveRows(s) /\ Renewing(s)' = Renewing(s) \ {h}
           \/ \E n \in Token \ issued, s0 \in Token :
              /\ s0 = IF spent = NoToken THEN n ELSE origin[spent]
              /\ issued' = issued \union {n}
              /\ origin' = [origin EXCEPT ![n] = s0]
              /\ owner' = [owner EXCEPT ![n] = u]
              /\ LiveRows(s0) = {} /\ Renewing(s0) \subseteq {h} /\ s0 \notin revoked
              /\ \A s \in Token : /\ LiveRows(s)' = IF s = s0 THEN {n} ELSE LiveRows(s)
                                  /\ Renewing(s)' = Renewing(s) \ {h}
<1>. USE DEF CreateTokenPair
<1>0. h \in Handler /\ handler \in [Handler -> HandlerState] /\ (\A g \in Handler : HandlerTyped(g))
  BY DEF SessionInv, TypeOK
<1>1. \A g \in Handler : handler'[g] = IF g = h THEN Idle ELSE handler[g]
  BY <1>0
<1>2. CASE u \in deleted
  BY <1>1, <1>2 DEF LiveRows, Renewing, Idle, At, tokenVars
<1>3. CASE u \notin deleted
  <2>1. PICK n \in Token \ issued :
           /\ rows' = rows \union {n}
           /\ issued' = issued \union {n}
           /\ origin' = [origin EXCEPT ![n] = IF spent = NoToken THEN n ELSE origin[spent]]
           /\ owner' = [owner EXCEPT ![n] = u]
    BY <1>3
  <2>2. PICK s0 : s0 = IF spent = NoToken THEN n ELSE origin[spent]
    OBVIOUS
  <2>3. s0 \in Token
    BY <1>0, <2>1, <2>2 DEF SessionInv, TypeOK, HandlerTyped, Descends, At
  <2>4. \A t \in issued : origin'[t] = origin[t] /\ origin[t] # n
    BY <2>1 DEF SessionInv, TypeOK, Descends
  <2>5. origin'[n] = s0 /\ n \notin rows
    BY <2>1, <2>2 DEF SessionInv, TypeOK
  <2>6. \A s \in Token : LiveRows(s)' = IF s = s0 THEN LiveRows(s) \union {n} ELSE LiveRows(s)
    BY <2>1, <2>4, <2>5 DEF SessionInv, TypeOK, LiveRows
  <2>7. \A s \in Token : Renewing(s)' = Renewing(s) \ {h}
    BY <1>0, <1>1, <2>1, <2>4 DEF Renewing, HandlerTyped, At, Idle
  <2>8. LiveRows(s0) = {} /\ Renewing(s0) \subseteq {h} /\ s0 \notin revoked
    <3>1. CASE spent = NoToken
      BY <1>0, <3>1, <2>1, <2>2, <2>4 DEF LiveRows, Renewing, SessionInv, TypeOK, HandlerTyped, At
    <3>2. CASE spent # NoToken
      <4>1. h \in Renewing(s0) /\ s0 \in issued
        BY <3>2, <1>0, <2>2 DEF Renewing, SessionInv, TypeOK, HandlerTyped, Descends, At
      <4>. QED BY <4>1 DEF SessionInv, OneRowPerLogin, RevokedStaysRevoked
    <3>. QED BY <3>1, <3>2
  <2>9. \A s \in Token : /\ LiveRows(s)' = IF s = s0 THEN {n} ELSE LiveRows(s)
                         /\ Renewing(s)' = Renewing(s) \ {h}
    BY <2>6, <2>7, <2>8
  <2>10. origin' = [origin EXCEPT ![n] = s0]
    BY <2>1, <2>2
  <2>. SUFFICES \E m \in Token \ issued, r \in Token :
              /\ r = IF spent = NoToken THEN m ELSE origin[spent]
              /\ issued' = issued \union {m}
              /\ origin' = [origin EXCEPT ![m] = r]
              /\ owner' = [owner EXCEPT ![m] = u]
              /\ LiveRows(r) = {} /\ Renewing(r) \subseteq {h} /\ r \notin revoked
              /\ \A s \in Token : /\ LiveRows(s)' = IF s = r THEN {m} ELSE LiveRows(s)
                                  /\ Renewing(s)' = Renewing(s) \ {h}
    OBVIOUS
  <2>. WITNESS n \in Token \ issued, s0 \in Token
  <2>. QED BY <2>1, <2>2, <2>8, <2>9, <2>10
<1>. QED BY <1>2, <1>3

LEMMA CreateKeepsInv ==
    ASSUME SessionInv, NEW h \in Handler, NEW u \in User, NEW spent \in Token \union {NoToken},
           IF spent = NoToken THEN At(h, "open") ELSE At(h, "create") /\ handler[h].token = spent,
           CreateTokenPair(h, u, spent)
    PROVE  OneRowPerLogin' /\ RevokedStaysRevoked'
<1>0. revoked' = revoked /\ revoked \subseteq Token /\ issued \subseteq Token
  BY DEF CreateTokenPair, endings, SessionInv, TypeOK
<1>1. CASE /\ UNCHANGED tokenVars
           /\ \A s \in Token : LiveRows(s)' = LiveRows(s) /\ Renewing(s)' = Renewing(s) \ {h}
  BY <1>0, <1>1 DEF tokenVars, SessionInv, OneRowPerLogin, RevokedStaysRevoked
<1>2. ASSUME NEW n \in Token \ issued, NEW s0 \in Token,
             issued' = issued \union {n},
             LiveRows(s0) = {}, Renewing(s0) \subseteq {h}, s0 \notin revoked,
             \A s \in Token : /\ LiveRows(s)' = IF s = s0 THEN {n} ELSE LiveRows(s)
                              /\ Renewing(s)' = Renewing(s) \ {h}
      PROVE  OneRowPerLogin' /\ RevokedStaysRevoked'
  <2>1. LiveRows(n) = {} /\ Renewing(n) = {}
    BY DEF SessionInv, TypeOK, LiveRows, Renewing, HandlerTyped, At, Descends
  <2>2. OneRowPerLogin'
    BY <1>0, <1>2, <2>1 DEF SessionInv, OneRowPerLogin
  <2>3. RevokedStaysRevoked'
    BY <1>0, <1>2 DEF SessionInv, RevokedStaysRevoked
  <2>. QED BY <2>2, <2>3
<1>. QED BY <1>1, <1>2, CreateEffect

\* The sessions whose rows are deleted had no other row and no renewal in progress.
LEMMA DropEffect ==
    ASSUME SessionInv, NEW T \in SUBSET rows, Drop(T)
    PROVE  /\ \A s \in Token : LiveRows(s)' = LiveRows(s) \ T /\ Renewing(s)' = Renewing(s)
           /\ \A t \in T : /\ origin[t] \in issued /\ origin[origin[t]] = origin[t]
                           /\ LiveRows(origin[t]) = {t} /\ Renewing(origin[t]) = {}
<1>1. \A s \in Token : LiveRows(s)' = LiveRows(s) \ T /\ Renewing(s)' = Renewing(s)
  BY DEF Drop, LiveRows, Renewing, At
<1>2. ASSUME NEW t \in T
      PROVE  /\ origin[t] \in issued /\ origin[origin[t]] = origin[t]
             /\ LiveRows(origin[t]) = {t} /\ Renewing(origin[t]) = {}
  <2>1. t \in LiveRows(origin[t]) /\ origin[t] \in issued /\ origin[origin[t]] = origin[t]
    BY DEF LiveRows, SessionInv, TypeOK, Descends
  <2>. QED BY <2>1 DEF SessionInv, OneRowPerLogin
<1>. QED BY <1>1, <1>2

LEMMA DropKeepsInv ==
    ASSUME SessionInv, NEW T \in SUBSET rows, Drop(T)
    PROVE  OneRowPerLogin' /\ RevokedStaysRevoked'
<1>1. OneRowPerLogin'
  BY DropEffect DEF Drop, SessionInv, TypeOK, OneRowPerLogin
<1>2. RevokedStaysRevoked'
  <2>1. SUFFICES ASSUME NEW s \in revoked' PROVE LiveRows(s)' = {} /\ Renewing(s)' = {}
    BY DEF RevokedStaysRevoked
  <2>2. CASE s \in revoked
    BY <2>2, DropEffect DEF SessionInv, TypeOK, RevokedStaysRevoked
  <2>3. CASE s \notin revoked
    <3>1. PICK t \in T : s = origin[t]
      BY <2>3 DEF Drop
    <3>2. LiveRows(s) = {t} /\ Renewing(s) = {} /\ s \in Token
      BY <3>1, DropEffect DEF SessionInv, TypeOK
    <3>. QED BY <3>2, DropEffect
  <2>. QED BY <2>2, <2>3
<1>. QED BY <1>1, <1>2

\* Steps that create no row and begin no renewal.
LEMMA QuietKeepsInv ==
    ASSUME SessionInv, UNCHANGED <<rows, issued, origin, revoked>>,
           \A g \in Handler : At(g, "create")' => At(g, "create") /\ handler'[g] = handler[g]
    PROVE  OneRowPerLogin' /\ RevokedStaysRevoked'
<1>1. \A s \in Token : LiveRows(s)' = LiveRows(s) /\ Renewing(s)' \subseteq Renewing(s)
  BY DEF LiveRows, Renewing
<1>. QED BY <1>1 DEF SessionInv, TypeOK, OneRowPerLogin, RevokedStaysRevoked

\* What a request that spends its token leaves of the rows and renewals of every session.
LEMMA DeleteEffect ==
    ASSUME SessionInv, NEW h \in Handler, RefreshDelete(h)
    PROVE  \/ UNCHANGED rows /\ handler' = [handler EXCEPT ![h] = Idle]
           \/ \E t \in rows, s0 \in issued :
              /\ origin[s0] = s0
              /\ LiveRows(s0) = {t} /\ Renewing(s0) = {} /\ s0 \notin revoked
              /\ \A s \in Token :
                    /\ LiveRows(s)' = IF s = s0 THEN {} ELSE LiveRows(s)
                    /\ Renewing(s)' = IF s = s0 THEN {h} ELSE Renewing(s)
<1>1. PICK t : t = handler[h].token
  OBVIOUS
<1>2. PICK s0 : s0 = origin[t]
  OBVIOUS
<1>3. /\ handler \in [Handler -> HandlerState] /\ t \in issued
      /\ s0 \in issued /\ origin[s0] = s0
  BY <1>1, <1>2 DEF RefreshDelete, SessionInv, TypeOK, HandlerTyped, Descends, At
<1>4. CASE t \notin rows
  BY <1>1, <1>4 DEF RefreshDelete
<1>5. CASE t \in rows
  <2>1. t \in LiveRows(s0)
    BY <1>2, <1>5 DEF LiveRows
  <2>2. LiveRows(s0) = {t} /\ Renewing(s0) = {}
    BY <1>3, <2>1 DEF SessionInv, OneRowPerLogin
  <2>3. s0 \notin revoked
    BY <2>1 DEF SessionInv, RevokedStaysRevoked
  <2>4. \A s \in Token : LiveRows(s)' = IF s = s0 THEN {} ELSE LiveRows(s)
    BY <1>1, <1>2, <2>2 DEF RefreshDelete, LiveRows
  <2>5. \A s \in Token : Renewing(s)' = IF s = s0 THEN {h} ELSE Renewing(s)
    BY <1>1, <1>2, <1>3, <1>5, <2>2 DEF RefreshDelete, Renewing, At, HandlerState
  <2>. QED BY <1>3, <1>5, <2>2, <2>3, <2>4, <2>5
<1>. QED BY <1>4, <1>5

LEMMA DeleteKeepsInv ==
    ASSUME SessionInv, NEW h \in Handler, RefreshDelete(h)
    PROVE  OneRowPerLogin' /\ RevokedStaysRevoked'
<1>0. UNCHANGED <<issued, origin, revoked>> /\ issued \subseteq Token /\ revoked \subseteq issued
  BY DEF RefreshDelete, SessionInv, TypeOK, endings
<1>1. CASE UNCHANGED rows /\ handler' = [handler EXCEPT ![h] = Idle]
  BY <1>0, <1>1, QuietKeepsInv DEF Idle, At, SessionInv, TypeOK
<1>2. ASSUME NEW t \in rows, NEW s0 \in issued,
             LiveRows(s0) = {t}, Renewing(s0) = {}, s0 \notin revoked,
             \A s \in Token : /\ LiveRows(s)' = IF s = s0 THEN {} ELSE LiveRows(s)
                              /\ Renewing(s)' = IF s = s0 THEN {h} ELSE Renewing(s)
      PROVE  OneRowPerLogin' /\ RevokedStaysRevoked'
  BY <1>0, <1>2 DEF SessionInv, OneRowPerLogin, RevokedStaysRevoked
<1>. QED BY <1>1, <1>2, DeleteEffect

LEMMA SessionInductive == SessionInv /\ [Next]_vars => SessionInv'
<1> SUFFICES ASSUME SessionInv, [Next]_vars PROVE SessionInv'
  OBVIOUS
<1>. USE DEF tokenVars, userVars, endings
<1>0. TypeOK /\ TypeOK' /\ handler \in [Handler -> HandlerState]
  BY TypeInductive DEF SessionInv, TypeOK
<1>1. ASSUME NEW h \in Handler, HandlerStep(h) PROVE OneRowPerLogin' /\ RevokedStaysRevoked'
  <2>1. ASSUME NEW u \in User, LoginAccepted(h, u) PROVE OneRowPerLogin' /\ RevokedStaysRevoked'
    BY <2>1, <1>0, QuietKeepsInv DEF LoginAccepted, At, Idle
  <2>2. CASE LoginOpens(h)
    BY <2>2, <1>0, CreateKeepsInv DEF LoginOpens, TypeOK, HandlerTyped, At
  <2>3. ASSUME NEW t \in Token, RefreshFind(h, t) PROVE OneRowPerLogin' /\ RevokedStaysRevoked'
    BY <2>3, <1>0, QuietKeepsInv DEF RefreshFind, At, Idle
  <2>4. CASE RefreshDelete(h)
    BY <2>4, DeleteKeepsInv
  <2>5. CASE RefreshCreate(h)
    BY <2>5, <1>0, CreateKeepsInv DEF RefreshCreate, TypeOK, HandlerTyped, At
  <2>6. CASE HandlerFails(h)
    BY <2>6, <1>0, QuietKeepsInv DEF HandlerFails, At, Idle
  <2>. QED BY <1>1, <2>1, <2>2, <2>3, <2>4, <2>5, <2>6 DEF HandlerStep
<1>2. ASSUME NEW T \in SUBSET rows, Drop(T) PROVE OneRowPerLogin' /\ RevokedStaysRevoked'
  BY <1>2, DropKeepsInv
<1>3. ASSUME NEW t \in Token, RevokeSession(t) PROVE OneRowPerLogin' /\ RevokedStaysRevoked'
  BY <1>2, <1>3 DEF RevokeSession
<1>4. ASSUME NEW t \in Token, Expires(t) PROVE OneRowPerLogin' /\ RevokedStaysRevoked'
  BY <1>4, QuietKeepsInv DEF Expires, At
<1>5. ASSUME NEW u \in User, RevokeAllSessions(u) PROVE OneRowPerLogin' /\ RevokedStaysRevoked'
  BY <1>2, <1>5 DEF RevokeAllSessions, RowsOf
<1>6. ASSUME NEW u \in User, DeleteUser(u) PROVE OneRowPerLogin' /\ RevokedStaysRevoked'
  BY <1>2, <1>6 DEF DeleteUser, RowsOf
<1>7. ASSUME NEW u \in User, ToggleStatus(u) PROVE OneRowPerLogin' /\ RevokedStaysRevoked'
  BY <1>7, QuietKeepsInv DEF ToggleStatus, At
<1>8. CASE CleanupExpiredTokens
  <2>1. PICK T \in SUBSET rows : T = rows \intersect expired /\ Drop(T)
    <3>1. rows \intersect expired \in SUBSET rows
      OBVIOUS
    <3>. QED BY <1>8, <3>1 DEF CleanupExpiredTokens
  <2>. QED BY <1>0, <1>2, <2>1 DEF SessionInv
<1>9. CASE UNCHANGED vars
  <2>1. UNCHANGED <<rows, issued, origin, revoked>> /\ handler' = handler
    BY <1>9 DEF vars
  <2>2. \A g \in Handler : At(g, "create")' => At(g, "create") /\ handler'[g] = handler[g]
    BY <2>1 DEF At
  <2>. QED BY <1>0, <2>1, <2>2, QuietKeepsInv DEF SessionInv
<1>. QED BY <1>0, <1>1, <1>3, <1>4, <1>5, <1>6, <1>7, <1>8, <1>9 DEF Next, SessionInv

LEMMA SessionInvHolds == Spec => []SessionInv
<1>1. Init => SessionInv
  BY DEF Init, SessionInv, TypeOK, HandlerTyped, HandlerState, Idle, At, OneRowPerLogin, RevokedStaysRevoked
<1>. QED BY <1>1, SessionInductive, PTL DEF Spec

(* However many requests race to renew a login, it never has two rows, nor *)
(* a row while a renewal owes it one.                                      *)
THEOREM RotationNeverForks == Spec => []OneRowPerLogin
<1>1. SessionInv => OneRowPerLogin
  BY DEF SessionInv
<1>. QED BY <1>1, SessionInvHolds, PTL

(* A session whose row was revoked, cleaned up or deleted with its user    *)
(* never has a row again.                                                  *)
THEOREM RevocationIsFinal == Spec => []RevokedStaysRevoked
<1>1. SessionInv => RevokedStaysRevoked
  BY DEF SessionInv
<1>. QED BY <1>1, SessionInvHolds, PTL

----------------------------------------------------------------------------
(* Refinement.  Every step moves one session of SessionLife, ends some of  *)
(* them, or moves none; and only a request that fails loses one.           *)

Moves == Life!Next \/ UNCHANGED [s \in Token |-> Stands(s)]

LosesNone == LostSessions' \subseteq LostSessions /\ failures' = failures

LosesOne ==
    /\ failures' = failures + 1
    /\ \/ LostSessions' \subseteq LostSessions
       \/ \E s \in Token : LostSessions' \subseteq LostSessions \union {s}

StepShape == Moves /\ (LosesNone \/ LosesOne)

LEMMA Stays ==
    ASSUME \A s \in Token : Stands(s)' = Stands(s)
    PROVE  Moves
BY DEF Moves

LEMMA MovesOne ==
    ASSUME NEW s0 \in Token, NEW from, NEW to, Stands(s0) = from, Stands(s0)' = to,
           \A s \in Token \ {s0} : Stands(s)' = Stands(s)
    PROVE  Life!Move(s0, from, to)
<1>1. [s \in Token |-> Stands(s)]' = [[s \in Token |-> Stands(s)] EXCEPT ![s0] = to]
  OBVIOUS
<1>. QED BY <1>1 DEF Life!Move

\* A lost session is one that ended unrevoked and still has its user.
LEMMA LostStands ==
    ASSUME TypeOK
    PROVE  LostSessions = {s \in Token : Stands(s) = "ended" /\ s \notin revoked /\ owner[s] \notin deleted}
BY DEF LostSessions, Stands, TypeOK

LEMMA LosesNoneIf ==
    ASSUME TypeOK, TypeOK',
           \A s \in Token : Stands(s)' = "ended" /\ s \notin revoked' /\ owner'[s] \notin deleted'
                              => Stands(s) = "ended" /\ s \notin revoked /\ owner[s] \notin deleted
    PROVE  LostSessions' \subseteq LostSessions
<1>1. LostSessions' = {s \in Token : Stands(s)' = "ended" /\ s \notin revoked' /\ owner'[s] \notin deleted'}
  BY DEF LostSessions, Stands, TypeOK
<1>. QED BY <1>1, LostStands

\* Steps that leave the rows and the renewals of every session alone.
LEMMA QuietShape ==
    ASSUME TypeOK, TypeOK', UNCHANGED <<rows, issued, origin, owner, revoked>>,
           deleted \subseteq deleted',
           \A s \in Token : Renewing(s)' = Renewing(s)
    PROVE  Moves /\ LostSessions' \subseteq LostSessions
<1>1. \A s \in Token : LiveRows(s)' = LiveRows(s)
  BY DEF LiveRows
<1>2. \A s \in Token : Stands(s)' = Stands(s)
  BY <1>1 DEF Stands
<1>. QED BY <1>2, Stays, LosesNoneIf

LEMMA CreateShape ==
    ASSUME SessionInv, TypeOK', NEW h \in Handler, LoginOpens(h) \/ RefreshCreate(h)
    PROVE  StepShape
<1>1. PICK u, spent : u = handler[h].user /\ spent = IF LoginOpens(h) THEN NoToken ELSE handler[h].token
  OBVIOUS
<1>2. /\ u \in User /\ spent \in Token \union {NoToken}
      /\ IF spent = NoToken THEN At(h, "open")
         ELSE At(h, "create") /\ handler[h].token = spent /\ spent \in issued /\ owner[spent] = u
      /\ CreateTokenPair(h, u, spent)
  BY <1>1 DEF LoginOpens, RefreshCreate, SessionInv, TypeOK, HandlerTyped, At
<1>3. UNCHANGED <<deleted, failures, revoked>> /\ TypeOK
  BY <1>2 DEF CreateTokenPair, userVars, endings, SessionInv
<1>4. \A s \in Token : h \in Renewing(s) <=> spent # NoToken /\ s = origin[spent]
  BY <1>2 DEF Renewing, At
<1>5. spent # NoToken => origin[spent] \in issued /\ origin[origin[spent]] = origin[spent]
                           /\ owner[origin[spent]] = u
  BY <1>2, <1>3 DEF TypeOK, Descends
<1>6. CASE /\ u \in deleted /\ UNCHANGED tokenVars
           /\ \A s \in Token : LiveRows(s)' = LiveRows(s) /\ Renewing(s)' = Renewing(s) \ {h}
  <2>0. UNCHANGED <<rows, issued, origin, owner>>
    BY <1>6 DEF tokenVars
  <2>1. CASE spent = NoToken
    <3>1. \A s \in Token : Renewing(s)' = Renewing(s)
      BY <1>4, <1>6, <2>1
    <3>. QED BY <1>3, <2>0, <3>1, QuietShape DEF StepShape, LosesNone
  <2>2. CASE spent # NoToken
    <3>1. PICK s0 \in Token : s0 = origin[spent]
      BY <1>3, <1>5, <2>2 DEF TypeOK
    <3>2. LiveRows(s0) = {} /\ Renewing(s0) = {h} 
      BY <1>4, <1>5, <2>2, <3>1 DEF SessionInv, OneRowPerLogin
    <3>3. Stands(s0) = "renewing" /\ Stands(s0)' = "ended"
      BY <1>5, <1>6, <2>0, <2>2, <3>1, <3>2 DEF Stands
    <3>4. \A s \in Token \ {s0} : Stands(s)' = Stands(s)
      BY <1>4, <1>6, <2>0, <3>1 DEF Stands
    <3>5. Life!Move(s0, "renewing", "ended")
      BY <3>3, <3>4, MovesOne
    <3>6. Moves
      BY <3>5 DEF Moves, Life!Next, Life!Lose
    <3>7. owner[s0] \in deleted
      BY <1>5, <1>6, <2>2, <3>1
    <3>8. LostSessions' \subseteq LostSessions
      BY <1>3, <2>0, <3>4, <3>7, LosesNoneIf
    <3>. QED BY <1>3, <3>6, <3>8 DEF StepShape, LosesNone
  <2>. QED BY <2>1, <2>2
<1>7. ASSUME NEW n \in Token \ issued, NEW s0 \in Token,
             s0 = IF spent = NoToken THEN n ELSE origin[spent],
             issued' = issued \union {n},
             origin' = [origin EXCEPT ![n] = s0],
             owner' = [owner EXCEPT ![n] = u],
             LiveRows(s0) = {}, Renewing(s0) \subseteq {h},
             \A s \in Token : /\ LiveRows(s)' = IF s = s0 THEN {n} ELSE LiveRows(s)
                              /\ Renewing(s)' = Renewing(s) \ {h}
      PROVE  StepShape
  <2>0. /\ issued \subseteq Token /\ origin' \in [Token -> Token \union {NoToken}]
        /\ origin \in [Token -> Token \union {NoToken}]
        /\ \A s \in Token \ {n} : origin'[s] = origin[s] /\ owner'[s] = owner[s] /\ (s \in issued' <=> s \in issued)
        /\ origin'[n] = s0 /\ n \in issued'
    BY <1>3, <1>7 DEF TypeOK
  <2>1. Stands(s0)' = "live"
    <3>1. s0 \in issued' /\ origin'[s0] = s0
      BY <1>5, <1>7, <2>0
    <3>. QED BY <1>7, <3>1 DEF Stands
  <2>2. \A s \in Token \ {s0} : Stands(s)' = Stands(s)
    <3>1. ASSUME NEW s \in Token \ {s0}, s # n PROVE Stands(s)' = Stands(s)
      <4>1. h \notin Renewing(s)
        BY <1>4, <1>7, <3>1
      <4>2. LiveRows(s)' = LiveRows(s) /\ Renewing(s)' = Renewing(s)
        BY <1>7, <4>1
      <4>. QED BY <2>0, <3>1, <4>2 DEF Stands
    <3>2. ASSUME n # s0 PROVE Stands(n)' = Stands(n)
      BY <2>0, <3>2 DEF Stands
    <3>. QED BY <3>1, <3>2
  <2>3. ASSUME spent = NoToken PROVE Moves
    <3>1. Stands(s0) = "unborn"
      BY <1>7, <2>3 DEF Stands
    <3>2. Life!Move(s0, "unborn", "live")
      BY <2>1, <2>2, <3>1, MovesOne
    <3>. QED BY <3>2 DEF Moves, Life!Next, Life!Open
  <2>4. ASSUME spent # NoToken PROVE Moves
    <3>1. s0 \in issued /\ origin[s0] = s0 /\ h \in Renewing(s0)
      BY <1>4, <1>5, <1>7, <2>4
    <3>2. Stands(s0) = "renewing"
      BY <1>7, <3>1 DEF Stands
    <3>3. Life!Move(s0, "renewing", "live")
      BY <2>1, <2>2, <3>2, MovesOne
    <3>. QED BY <3>3 DEF Moves, Life!Next, Life!Renewed
  <2>5. Moves
    BY <2>3, <2>4
  <2>6. LostSessions' \subseteq LostSessions
    <3>1. \A s \in Token : Stands(s)' = "ended" => Stands(s) = "ended" /\ s # n
      BY <2>0, <2>1, <2>2 DEF Stands
    <3>. QED BY <1>3, <2>0, <3>1, LosesNoneIf
  <2>. QED BY <1>3, <2>5, <2>6 DEF StepShape, LosesNone
<1>. QED BY <1>2, <1>6, <1>7, CreateEffect

LEMMA DeleteShape ==
    ASSUME SessionInv, TypeOK', NEW h \in Handler, RefreshDelete(h)
    PROVE  StepShape
<1>1. /\ UNCHANGED <<issued, origin, owner, deleted, failures, revoked>> /\ TypeOK
      /\ At(h, "delete") /\ issued \subseteq Token
  BY DEF RefreshDelete, userVars, endings, SessionInv, TypeOK
<1>2. CASE UNCHANGED rows /\ handler' = [handler EXCEPT ![h] = Idle]
  <2>1. \A s \in Token : Renewing(s)' = Renewing(s)
    BY <1>1, <1>2 DEF TypeOK, Renewing, At, Idle
  <2>. QED BY <1>1, <1>2, <2>1, QuietShape DEF StepShape, LosesNone
<1>3. ASSUME NEW t \in rows, NEW s0 \in issued,
             origin[s0] = s0, LiveRows(s0) = {t}, Renewing(s0) = {},
             \A s \in Token : /\ LiveRows(s)' = IF s = s0 THEN {} ELSE LiveRows(s)
                              /\ Renewing(s)' = IF s = s0 THEN {h} ELSE Renewing(s)
      PROVE  StepShape
  <2>1. s0 \in Token /\ Stands(s0) = "live" /\ Stands(s0)' = "renewing"
    BY <1>1, <1>3 DEF Stands
  <2>2. \A s \in Token \ {s0} : Stands(s)' = Stands(s)
    BY <1>1, <1>3 DEF Stands
  <2>3. Life!Move(s0, "live", "renewing")
    BY <2>1, <2>2, MovesOne
  <2>4. Moves
    BY <2>1, <2>3 DEF Moves, Life!Next, Life!Renew
  <2>5. LostSessions' \subseteq LostSessions
    BY <1>1, <2>1, <2>2, LosesNoneIf
  <2>. QED BY <1>1, <2>4, <2>5 DEF StepShape, LosesNone
<1>. QED BY <1>2, <1>3, DeleteEffect

LEMMA FailShape ==
    ASSUME SessionInv, TypeOK', NEW h \in Handler, HandlerFails(h)
    PROVE  StepShape
<1>1. /\ UNCHANGED <<rows, issued, origin, owner, deleted, revoked>> /\ failures' = failures + 1
      /\ TypeOK /\ issued \subseteq Token
      /\ \A g \in Handler : handler'[g] = IF g = h THEN Idle ELSE handler[g]
  BY DEF HandlerFails, tokenVars, userVars, endings, SessionInv, TypeOK
<1>2. \A s \in Token : LiveRows(s)' = LiveRows(s) /\ Renewing(s)' = Renewing(s) \ {h}
  BY <1>1 DEF LiveRows, Renewing, At, Idle
<1>3. CASE ~At(h, "create")
  <2>1. \A s \in Token : Renewing(s)' = Renewing(s)
    BY <1>2, <1>3 DEF Renewing
  <2>. QED BY <1>1, <2>1, QuietShape DEF StepShape, LosesOne
<1>4. CASE At(h, "create")
  <2>1. PICK s0 : s0 = origin[handler[h].token]
    OBVIOUS
  <2>2. s0 \in issued /\ origin[s0] = s0 /\ h \in Renewing(s0)
    BY <1>1, <1>4, <2>1 DEF TypeOK, HandlerTyped, Descends, Renewing, At
  <2>3. LiveRows(s0) = {} /\ Renewing(s0) = {h}
    BY <2>2 DEF SessionInv, OneRowPerLogin
  <2>4. \A s \in Token \ {s0} : Renewing(s)' = Renewing(s)
    BY <1>2, <2>1 DEF Renewing
  <2>5. s0 \in Token /\ Stands(s0) = "renewing" /\ Stands(s0)' = "ended"
    BY <1>1, <1>2, <2>2, <2>3 DEF Stands
  <2>6. \A s \in Token \ {s0} : Stands(s)' = Stands(s)
    BY <1>1, <1>2, <2>4 DEF Stands
  <2>7. Life!Move(s0, "renewing", "ended")
    BY <2>5, <2>6, MovesOne
  <2>8. Moves
    BY <2>5, <2>7 DEF Moves, Life!Next, Life!Lose
  <2>9. LostSessions' \subseteq LostSessions \union {s0}
    <3>1. LostSessions' = {s \in Token : Stands(s)' = "ended" /\ s \notin revoked /\ owner[s] \notin deleted}
      BY <1>1 DEF LostSessions, Stands
    <3>. QED BY <1>1, <2>6, <3>1, LostStands
  <2>. QED BY <1>1, <2>5, <2>8, <2>9 DEF StepShape, LosesOne
<1>. QED BY <1>3, <1>4

LEMMA DropShape ==
    ASSUME SessionInv, TypeOK', NEW T \in SUBSET rows, Drop(T), deleted \subseteq deleted'
    PROVE  StepShape
<1>1. /\ UNCHANGED <<issued, origin, owner, failures>> /\ revoked \subseteq revoked'
      /\ TypeOK /\ issued \subseteq Token /\ \A t \in T : origin[t] \in revoked'
  BY DEF Drop, SessionInv, TypeOK
<1>2. PICK S : S = {origin[t] : t \in T}
  OBVIOUS
<1>3. S \subseteq Token /\ S \subseteq revoked' /\ (\A s \in S : Stands(s) = "live" /\ Stands(s)' = "ended")
  <2>1. SUFFICES ASSUME NEW t \in T, NEW s \in Token, s = origin[t]
                 PROVE  Stands(s) = "live" /\ Stands(s)' = "ended"
    BY <1>1, <1>2, DropEffect
  <2>2. /\ s \in issued /\ origin[s] = s /\ LiveRows(s) = {t} /\ Renewing(s) = {}
        /\ LiveRows(s)' = {} /\ Renewing(s)' = {}
    BY <2>1, DropEffect
  <2>. QED BY <1>1, <2>2 DEF Stands
<1>4. \A s \in Token \ S : Stands(s)' = Stands(s)
  <2>1. \A s \in Token \ S : LiveRows(s)' = LiveRows(s) /\ Renewing(s)' = Renewing(s)
    BY <1>2, DropEffect DEF LiveRows
  <2>. QED BY <1>1, <2>1 DEF Stands
<1>5. Moves
  <2>1. CASE S = {}
    BY <1>4, <2>1, Stays
  <2>2. CASE S # {}
    <3>1. [s \in Token |-> Stands(s)]' =
          [s \in Token |-> IF s \in S THEN "ended" ELSE [r \in Token |-> Stands(r)][s]]
      BY <1>3, <1>4
    <3>2. Life!End(S)
      BY <1>3, <3>1 DEF Life!End
    <3>. QED BY <1>3, <2>2, <3>2 DEF Moves, Life!Next
  <2>. QED BY <2>1, <2>2
<1>6. LostSessions' \subseteq LostSessions
  BY <1>1, <1>3, <1>4, LosesNoneIf
<1>. QED BY <1>1, <1>5, <1>6 DEF StepShape, LosesNone
LEMMA EveryStep ==
    ASSUME SessionInv, SessionInv', [Next]_vars
    PROVE  StepShape
<1>. USE DEF tokenVars, userVars, endings
<1>0. TypeOK /\ TypeOK'
  BY DEF SessionInv
<1>a. ASSUME UNCHANGED <<rows, issued, origin, owner, revoked, failures>>, deleted' = deleted,
             \A s \in Token : Renewing(s)' = Renewing(s)
      PROVE  StepShape
  BY <1>0, <1>a, QuietShape DEF StepShape, LosesNone
<1>b. ASSUME NEW T \in SUBSET rows, Drop(T), deleted \subseteq deleted' PROVE StepShape
  BY <1>0, <1>b, DropShape
<1>1. ASSUME NEW h \in Handler, HandlerStep(h) PROVE StepShape
  <2>1. ASSUME NEW u \in User, LoginAccepted(h, u) PROVE StepShape
    <3>1. \A s \in Token : Renewing(s)' = Renewing(s)
      BY <1>0, <2>1 DEF LoginAccepted, TypeOK, Renewing, At, Idle
    <3>. QED BY <1>a, <2>1, <3>1 DEF LoginAccepted
  <2>2. ASSUME NEW t \in Token, RefreshFind(h, t) PROVE StepShape
    <3>1. \A s \in Token : Renewing(s)' = Renewing(s)
      BY <1>0, <2>2 DEF RefreshFind, TypeOK, Renewing, At
    <3>. QED BY <1>a, <2>2, <3>1 DEF RefreshFind
  <2>3. CASE LoginOpens(h) \/ RefreshCreate(h)
    BY <1>0, <2>3, CreateShape
  <2>4. CASE RefreshDelete(h)
    BY <1>0, <2>4, DeleteShape
  <2>5. CASE HandlerFails(h)
    BY <1>0, <2>5, FailShape
  <2>. QED BY <1>1, <2>1, <2>2, <2>3, <2>4, <2>5 DEF HandlerStep
<1>2. ASSUME NEW t \in Token, RevokeSession(t) PROVE StepShape
  BY <1>2, <1>b DEF RevokeSession
<1>3. ASSUME NEW t \in Token, Expires(t) PROVE StepShape
  BY <1>3, <1>a DEF Expires, Renewing, At
<1>4. ASSUME NEW u \in User, RevokeAllSessions(u) PROVE StepShape
  BY <1>4, <1>b DEF RevokeAllSessions, RowsOf
<1>5. ASSUME NEW u \in User, DeleteUser(u) PROVE StepShape
  BY <1>5, <1>b DEF DeleteUser, RowsOf
<1>6. ASSUME NEW u \in User, ToggleStatus(u) PROVE StepShape
  BY <1>6, <1>a DEF ToggleStatus, Renewing, At
<1>7. CASE CleanupExpiredTokens
  <2>1. PICK T \in SUBSET rows : T = rows \intersect expired /\ Drop(T) /\ deleted' = deleted
    <3>1. rows \intersect expired \in SUBSET rows
      OBVIOUS
    <3>. QED BY <1>7, <3>1 DEF CleanupExpiredTokens
  <2>. QED BY <1>b, <2>1
<1>8. CASE UNCHANGED vars
  <2>1. /\ UNCHANGED <<rows, issued, origin, owner, revoked, failures>> /\ deleted' = deleted
        /\ handler' = handler
    BY <1>8 DEF vars
  <2>2. \A s \in Token : Renewing(s)' = Renewing(s)
    BY <2>1 DEF Renewing, At
  <2>. QED BY <1>a, <2>1, <2>2
<1>. QED BY <1>1, <1>2, <1>3, <1>4, <1>5, <1>6, <1>7, <1>8 DEF Next

(* Login, refresh and every revocation implement the life of a session:    *)
(* one renewal at a time, and no way back from the end.                    *)
THEOREM SessionsImplementLife == Spec => ImplementsSessionLife
<1>1. Init => Life!Init
  BY DEF Init, Life!Init, Stands
<1>2. SessionInv /\ SessionInv' /\ [Next]_vars => [Life!Next]_[s \in Token |-> Stands(s)]
  BY EveryStep DEF StepShape, Moves
<1>. QED BY <1>1, <1>2, SessionInvHolds, PTL DEF Spec, ImplementsSessionLife, Life!Spec

\* The invariant behind SessionsLostOnlyToFailures.
FewLost == IsFiniteSet(LostSessions) /\ Cardinality(LostSessions) <= failures

(* Requests that race for a token never cost a login its session: at most  *)
(* one session is lost for each request that failed.                       *)
THEOREM RacesLoseNoSession == Spec => []SessionsLostOnlyToFailures
<1>1. Init => FewLost
  <2>1. Init => LostSessions = {}
    BY DEF Init, LostSessions
  <2>. QED BY <2>1, FS_EmptySet DEF Init, FewLost
<1>2. SessionInv /\ SessionInv' /\ FewLost /\ [Next]_vars => FewLost'
  <2>. SUFFICES ASSUME SessionInv, SessionInv', FewLost, [Next]_vars PROVE FewLost'
    OBVIOUS
  <2>1. StepShape /\ failures \in Nat /\ Cardinality(LostSessions) \in Nat
    BY EveryStep, FS_CardinalityType DEF SessionInv, TypeOK, FewLost
  <2>2. ASSUME LostSessions' \subseteq LostSessions
        PROVE  IsFiniteSet(LostSessions') /\ Cardinality(LostSessions') <= Cardinality(LostSessions)
    BY <2>2, FS_Subset DEF FewLost
  <2>3. ASSUME NEW s \in Token, LostSessions' \subseteq LostSessions \union {s}
        PROVE  IsFiniteSet(LostSessions') /\ Cardinality(LostSessions') <= Cardinality(LostSessions) + 1
    <3>1. /\ IsFiniteSet(LostSessions \union {s})
          /\ Cardinality(LostSessions \union {s}) \in Nat
          /\ Cardinality(LostSessions \union {s}) <= Cardinality(LostSessions) + 1
      <4>1. /\ IsFiniteSet(LostSessions \union {s})
            /\ \/ Cardinality(LostSessions \union {s}) = Cardinality(LostSessions)
               \/ Cardinality(LostSessions \union {s}) = Cardinality(LostSessions) + 1
        BY FS_AddElement DEF FewLost
      <4>. QED BY <2>1, <4>1
    <3>2. IsFiniteSet(LostSessions') /\ Cardinality(LostSessions') <= Cardinality(LostSessions \union {s})
      BY <2>3, <3>1, FS_Subset
    <3>3. Cardinality(LostSessions') \in Nat
      BY <3>2, FS_CardinalityType
    <3>. QED BY <2>1, <3>1, <3>2, <3>3
  <2>4. IsFiniteSet(LostSessions') => Cardinality(LostSessions') \in Nat
    BY FS_CardinalityType
  <2>. QED BY <2>1, <2>2, <2>3, <2>4 DEF StepShape, LosesNone, LosesOne, FewLost
<1>3. FewLost => SessionsLostOnlyToFailures
  BY DEF FewLost, SessionsLostOnlyToFailures
<1>. QED BY <1>1, <1>2, <1>3, SessionInvHolds, PTL DEF Spec
=============================================================================
