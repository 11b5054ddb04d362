--------------------------- MODULE TwoFactorProofs ---------------------------
(***************************************************************************)
(* Proofs about TwoFactor, as Accounts runs it, for any tickets, secrets,  *)
(* draws and requests.                                                     *)
(***************************************************************************)
EXTENDS Accounts, FiniteSetTheorems, TLAPS

USE AccountsAssumption DEF Factor!TwoFactorAssumption

----------------------------------------------------------------------------
(* Types, and what is new when it is made.  Tickets and draws are random,  *)
(* so what a request holds was given out before, and what is given out     *)
(* next is held by nobody.                                                 *)

StoredTyped ==
    /\ mandatory \in BOOLEAN /\ signedIn \in BOOLEAN /\ alone \in BOOLEAN
    /\ secret \in Secret \union {None} /\ setup \in Secret \union {None}
    /\ unused \subseteq Factor!Code /\ used \subseteq Factor!Code
    /\ pending \subseteq Ticket /\ invited \subseteq Ticket
    /\ shown \in Batch \union {None}
    /\ given \subseteq Ticket \union Secret \union Batch
    /\ byCode \in [Factor!Code -> Nat] /\ byTicket \in [Ticket -> Nat]
    /\ failures \in Nat

Verifying == {"totp", "find", "mark", "spend", "open"}

Confirming == {"confirm", "enable", "clear", "insert", "delSetup", "delInvite", "finish"}

\* A request holds a ticket of its own kind, and a code that was drawn.
Sound(h) ==
    /\ Factor!RequestTyped(h)
    /\ op[h].ticket \in given \union {None}
    /\ op[h].at \in Verifying => op[h].ticket \in Ticket \ invited
    /\ op[h].at \in Confirming => op[h].ticket \notin pending
    /\ op[h].at \in {"mark", "spend", "open"} /\ op[h].code # Factor!NoCode => op[h].code[1] \in given
    /\ op[h].at = "totp" => op[h].code = Factor!NoCode

\* What is waiting was given out, and what has opened a session waits no more.
Fresh ==
    /\ pending \union invited \subseteq given /\ pending \intersect invited = {}
    /\ \A c \in Factor!Rows : c[1] \in given
    /\ \A c \in Factor!Code : byCode[c] > 0 => c[1] \in given /\ c \notin unused
    /\ \A t \in Ticket : byTicket[t] > 0 => t \in given \ (pending \union invited)

HoldsInv ==
    /\ StoredTyped /\ op \in [Handler -> Factor!RequestState]
    /\ \A h \in Handler : Sound(h)
    /\ Fresh

LEMMA CodesAreDrawn ==
    /\ \A c \in Factor!Code : c[1] \in Batch /\ c # Factor!NoCode
    /\ \A b \in Batch : Factor!CodesOf(b) \subseteq Factor!Code
    /\ \A b : \A c \in Factor!CodesOf(b) : c[1] = b
BY DEF Factor!Code, Factor!CodesOf, Factor!NoCode

LEMMA HoldsTypes == HoldsInv <=> Factor!TypeOK /\ HoldsInv
BY DEF HoldsInv, Factor!TypeOK, StoredTyped, Sound

LEMMA HoldsInit == Factor!Init => HoldsInv
<1> SUFFICES ASSUME Factor!Init PROVE HoldsInv
  OBVIOUS
<1>1. \A h \in Handler : op[h] = Factor!Idle
  BY DEF Factor!Init
<1>2. op \in [Handler -> Factor!RequestState]
  BY DEF Factor!Init, Factor!Idle, Factor!RequestState, Factor!Label
<1>3. \A h \in Handler : Sound(h)
  BY <1>1 DEF Sound, Factor!RequestTyped, Factor!Idle, Verifying, Confirming
<1>4. StoredTyped
  BY DEF Factor!Init, StoredTyped
<1>5. Fresh
  BY DEF Factor!Init, Fresh, Factor!Rows
<1>. QED BY <1>2, <1>3, <1>4, <1>5 DEF HoldsInv

----------------------------------------------------------------------------
(* What a step does to the requests.                                       *)

\* Request h goes to another await, or ends, and holds what it held.
Went(h, label) ==
    /\ op' \in [Handler -> Factor!RequestState]
    /\ \A g \in Handler : g # h => op'[g] = op[g]
    /\ op'[h].at = label
    /\ IF label = "idle" THEN op'[h] = Factor!Idle
       ELSE /\ op'[h].ticket = op[h].ticket /\ op'[h].code = op[h].code
            /\ op'[h].key = op[h].key /\ op'[h].batch = op[h].batch

LEMMA Goes ==
    ASSUME op \in [Handler -> Factor!RequestState], NEW h \in Handler,
           NEW label \in Factor!Label, Factor!Goto(h, label)
    PROVE  Went(h, label)
<1>1. Factor!Idle \in Factor!RequestState /\ Factor!Idle.at = "idle"
  BY DEF Factor!Idle, Factor!RequestState, Factor!Label
<1>2. CASE label = "idle"
  BY <1>1, <1>2 DEF Factor!Goto, Went
<1>3. CASE label # "idle"
  <2>1. op' = [op EXCEPT ![h] = [op[h] EXCEPT !.at = label]]
    BY <1>3 DEF Factor!Goto
  <2>. QED BY <1>3, <2>1 DEF Went, Factor!RequestState
<1>. QED BY <1>2, <1>3

\* A new request.
Began(h, label, t, c, k) ==
    /\ op[h].at = "idle"
    /\ op' \in [Handler -> Factor!RequestState]
    /\ \A g \in Handler : g # h => op'[g] = op[g]
    /\ op'[h].at = label /\ op'[h].ticket = t /\ op'[h].code = c /\ op'[h].key = k
    /\ op'[h].batch = None

LEMMA Starts ==
    ASSUME op \in [Handler -> Factor!RequestState], NEW h \in Handler, NEW label \in Factor!Label,
           NEW t \in Ticket \union {None}, NEW c \in Factor!Code \union {Factor!NoCode},
           NEW k \in Secret \union {None}, Factor!Start(h, label, t, c, k)
    PROVE  Began(h, label, t, c, k)
<1> DEFINE r == [Factor!Idle EXCEPT !.at = label, !.ticket = t, !.code = c, !.key = k]
<1>1. r.at = label /\ r.ticket = t /\ r.code = c /\ r.key = k /\ r.batch = None
  BY DEF Factor!Idle
<1>2. r \in Factor!RequestState
  BY DEF Factor!RequestState, Factor!Idle
<1>3. op' = [op EXCEPT ![h] = r] /\ op[h].at = "idle"
  BY DEF Factor!Start, Factor!At
<1> HIDE DEF r
<1>. QED BY <1>1, <1>2, <1>3 DEF Began

\* What the others hold keeps its meaning when only new things come in.
OnlyNew ==
    /\ given \subseteq given'
    /\ \A t \in (pending' \union invited') \ (pending \union invited) : t \notin given \union {None}
    /\ pending' \subseteq pending \/ invited' \subseteq invited
    /\ pending' \intersect invited = {} /\ invited' \intersect pending = {}
    /\ \A c \in unused' \ unused : c[1] \notin given /\ c # Factor!NoCode

LEMMA OthersSound ==
    ASSUME HoldsInv, OnlyNew, NEW g \in Handler, op'[g] = op[g]
    PROVE  Sound(g)'
<1>1. Sound(g) /\ unused \subseteq Factor!Code /\ op[g] \in Factor!RequestState
  BY DEF HoldsInv, StoredTyped
<1>2. op[g].at \in {"spend", "open"} => op[g].code \notin unused'
  BY <1>1, CodesAreDrawn DEF OnlyNew, Sound, Factor!RequestTyped, Factor!RequestState
<1>3. Factor!RequestTyped(g)'
  BY <1>1, <1>2 DEF OnlyNew, Sound, Factor!RequestTyped
<1>4. op[g].at \in Verifying => op[g].ticket \in Ticket \ invited'
  BY <1>1 DEF OnlyNew, Sound
<1>5. op[g].at \in Confirming => op[g].ticket \notin pending'
  BY <1>1 DEF OnlyNew, Sound
<1>. QED BY <1>1, <1>3, <1>4, <1>5 DEF OnlyNew, Sound

\* Request h is sound and all else is as OnlyNew says: the requests are sound.
LEMMA AllSound ==
    ASSUME HoldsInv, OnlyNew, NEW h \in Handler, \A g \in Handler : g # h => op'[g] = op[g], Sound(h)'
    PROVE  \A g \in Handler : Sound(g)'
BY OthersSound

----------------------------------------------------------------------------
(* One lemma for each kind of step.                                        *)

factVars == <<mandatory, secret, Factor!codeVars, Factor!ticketVars, setup, signedIn, shown, given,
              Factor!countVars,
              alone, failures>>

LEMMA SameFacts ==
    ASSUME HoldsInv, UNCHANGED factVars PROVE StoredTyped' /\ Fresh' /\ OnlyNew
BY DEF HoldsInv, factVars, Factor!codeVars, Factor!ticketVars, Factor!countVars, StoredTyped, Fresh,
       Factor!Rows, OnlyNew

\* A request begins; what it carries decides whether it is sound.
LEMMA BeginHolds ==
    ASSUME HoldsInv, NEW h \in Handler, NEW label \in Factor!Label,
           NEW t \in Ticket \union {None}, NEW c \in Factor!Code \union {Factor!NoCode},
           NEW k \in Secret \union {None}, Factor!Start(h, label, t, c, k), UNCHANGED factVars,
           \/ label \in {"hold", "invite", "plain", "off"} /\ t = None
           \/ label = "totp" /\ t \in pending /\ k \in Secret /\ c = Factor!NoCode
           \/ label = "find" /\ t \in pending /\ c \in Factor!Code
           \/ label = "confirm" /\ t \in invited \union {None} /\ k \in Secret
    PROVE  HoldsInv'
<1>1. Began(h, label, t, c, k)
  BY Starts DEF HoldsInv
<1>2. /\ pending \subseteq Ticket \intersect given /\ invited \subseteq Ticket \intersect given
      /\ pending \intersect invited = {} /\ None \notin Ticket
      /\ UNCHANGED <<pending, invited, given, unused>>
  BY DEF HoldsInv, StoredTyped, Fresh, factVars, Factor!ticketVars, Factor!codeVars
<1>3. Sound(h)'
  BY <1>1, <1>2 DEF Began, Sound, Factor!RequestTyped, Verifying, Confirming
<1>. QED BY <1>1, <1>3, SameFacts, AllSound DEF Began, HoldsInv

\* A request that only looks.
LEMMA LookHolds ==
    ASSUME HoldsInv, NEW h \in Handler, NEW from, NEW next, Factor!At(h, from), UNCHANGED factVars,
           Factor!Goto(h, next) \/ Factor!Goto(h, "idle"),
           \/ from = "totp" /\ next = "spend"
           \/ from = "find" /\ next = "mark" /\ (Factor!Goto(h, "idle") \/ op[h].code \in unused)
           \/ from = "confirm" /\ next = "enable"
    PROVE  HoldsInv'
<1>0. UNCHANGED factVars /\ UNCHANGED <<pending, invited, given, unused>> /\ op[h].at = from
  BY DEF factVars, Factor!codeVars, Factor!ticketVars, Factor!At
<1>1. PICK label \in Factor!Label :
        /\ Went(h, label)
        /\ label = "idle" \/ (label = next /\ (from = "find" => op[h].code \in unused))
  <2>1. next \in Factor!Label /\ "idle" \in Factor!Label
    BY DEF Factor!Label
  <2>2. CASE Factor!Goto(h, "idle")
    BY <2>1, <2>2, Goes DEF HoldsInv
  <2>3. CASE Factor!Goto(h, next) /\ ~Factor!Goto(h, "idle")
    BY <2>1, <2>3, Goes DEF HoldsInv
  <2>. QED BY <2>2, <2>3
<1>2. Sound(h) /\ (\A c \in Factor!Rows : c[1] \in given) /\ Factor!NoCode \notin unused
  BY CodesAreDrawn DEF HoldsInv, Fresh, StoredTyped
<1>3. Sound(h)'
  <2>1. CASE label = "idle"
    BY <1>1, <2>1 DEF Went, Factor!Idle, Sound, Factor!RequestTyped, Verifying, Confirming
  <2>2. CASE label = "spend" /\ from = "totp"
    BY <1>0, <1>1, <1>2, <2>2 DEF Went, Sound, Factor!RequestTyped, Verifying, Confirming
  <2>3. CASE label = "mark" /\ from = "find" /\ op[h].code \in unused
    BY <1>0, <1>1, <1>2, <2>3 DEF Went, Sound, Factor!RequestTyped, Verifying, Confirming, Factor!Rows
  <2>4. CASE label = "enable" /\ from = "confirm"
    BY <1>0, <1>1, <1>2, <2>4 DEF Went, Sound, Factor!RequestTyped, Verifying, Confirming
  <2>. QED BY <1>1, <2>1, <2>2, <2>3, <2>4
<1>. QED BY <1>0, <1>1, <1>3, SameFacts, AllSound DEF Went, HoldsInv

\* A request that ends is sound.
LEMMA EndedSound ==
    ASSUME NEW h \in Handler, op'[h] = Factor!Idle PROVE Sound(h)'
BY DEF Factor!Idle, Sound, Factor!RequestTyped, Verifying, Confirming

LEMMA IssueHolds == ASSUME HoldsInv, NEW h \in Handler, Factor!IssueTicket(h) PROVE HoldsInv'
<1>1. PICK t \in Ticket \ given :
        /\ given' = given \union {t}
        /\ \/ pending' = pending \union {t} /\ UNCHANGED invited
           \/ invited' = invited \union {t} /\ UNCHANGED pending
        /\ UNCHANGED <<mandatory, secret, unused, used, setup, signedIn, shown, byCode, byTicket, alone,
                       failures>>
  BY DEF Factor!IssueTicket, Factor!codeVars, Factor!countVars
<1>2. Went(h, "idle")
  BY Goes DEF Factor!IssueTicket, HoldsInv, Factor!Label
<1>3. StoredTyped'
  BY <1>1 DEF HoldsInv, StoredTyped
<1>4. Fresh'
  BY <1>1 DEF HoldsInv, StoredTyped, Fresh, Factor!Rows
<1>5. OnlyNew
  BY <1>1 DEF HoldsInv, StoredTyped, Fresh, OnlyNew
<1>6. Sound(h)'
  BY <1>2, EndedSound DEF Went
<1>. QED BY <1>2, <1>3, <1>4, <1>5, <1>6, AllSound DEF HoldsInv, Went

LEMMA PlainHolds == ASSUME HoldsInv, NEW h \in Handler, Factor!PlainSession(h) PROVE HoldsInv'
<1>1. Went(h, "idle")
  BY Goes DEF Factor!PlainSession, HoldsInv, Factor!Label
<1>2. signedIn' = TRUE /\ UNCHANGED <<mandatory, secret, unused, used, pending, invited, setup, shown,
                                     given, byCode, byTicket, alone, failures>>
  BY DEF Factor!PlainSession, Factor!codeVars, Factor!ticketVars, Factor!countVars
<1>3. StoredTyped'
  BY <1>2 DEF HoldsInv, StoredTyped
<1>4. Fresh' /\ OnlyNew
  BY <1>2 DEF HoldsInv, Fresh, Factor!Rows, OnlyNew
<1>5. Sound(h)'
  BY <1>1, EndedSound DEF Went
<1>. QED BY <1>1, <1>3, <1>4, <1>5, AllSound DEF HoldsInv, Went

LEMMA MarkHolds == ASSUME HoldsInv, NEW h \in Handler, Factor!MarkUsed(h) PROVE HoldsInv'
<1>. DEFINE c == op[h].code
<1>0. /\ op[h].at = "mark" /\ c \in Factor!Code /\ Sound(h)
      /\ UNCHANGED <<mandatory, secret, pending, invited, setup, signedIn, shown, given, byCode, byTicket,
                     alone, failures>>
  BY DEF Factor!MarkUsed, Factor!At, HoldsInv, Sound, Factor!RequestTyped, Factor!ticketVars, Factor!countVars
<1>1. \/ Went(h, "spend") /\ unused' = unused \ {c} /\ used' = used \union {c} /\ c \in Factor!Rows
      \/ Went(h, "idle") /\ UNCHANGED <<unused, used>>
  BY Goes DEF Factor!MarkUsed, HoldsInv, Factor!Label, Factor!codeVars
<1>2. StoredTyped'
  BY <1>0, <1>1 DEF HoldsInv, StoredTyped
<1>3. unused' \subseteq unused /\ Factor!Rows' = Factor!Rows
  BY <1>1 DEF Factor!Rows
<1>4. Fresh' /\ OnlyNew
  BY <1>0, <1>3 DEF HoldsInv, Fresh, OnlyNew
<1>5. Sound(h)'
  <2>1. CASE Went(h, "idle")
    BY <2>1, EndedSound DEF Went
  <2>2. CASE Went(h, "spend") /\ unused' = unused \ {c}
    BY <1>0, <2>2 DEF Went, Sound, Factor!RequestTyped, Verifying, Confirming
  <2>. QED BY <1>1, <2>1, <2>2
<1>6. op' \in [Handler -> Factor!RequestState] /\ \A g \in Handler : g # h => op'[g] = op[g]
  BY <1>1 DEF Went
<1>. QED BY <1>2, <1>4, <1>5, <1>6, AllSound DEF HoldsInv

LEMMA SpendHolds == ASSUME HoldsInv, NEW h \in Handler, Factor!SpendPending(h) PROVE HoldsInv'
<1>0. /\ op[h].at = "spend" /\ Sound(h) /\ pending' = pending \ {op[h].ticket}
      /\ UNCHANGED <<mandatory, secret, unused, used, invited, setup, signedIn, shown, given, byCode,
                     byTicket, alone, failures>>
  BY DEF Factor!SpendPending, Factor!At, HoldsInv, Factor!codeVars, Factor!countVars
<1>1. Went(h, "open")
  BY Goes DEF Factor!SpendPending, HoldsInv, Factor!Label
<1>2. StoredTyped'
  BY <1>0 DEF HoldsInv, StoredTyped
<1>3. Fresh' /\ OnlyNew
  BY <1>0 DEF HoldsInv, Fresh, Factor!Rows, OnlyNew
<1>4. Sound(h)'
  BY <1>0, <1>1 DEF Went, Sound, Factor!RequestTyped, Verifying, Confirming
<1>. QED BY <1>1, <1>2, <1>3, <1>4, AllSound DEF HoldsInv, Went

\* The end of a verification or of a set-up from the login page.
LEMMA OpensHolds ==
    ASSUME HoldsInv, NEW h \in Handler, Factor!OpenSession(h) \/ Factor!FinishSetup(h)
    PROVE  /\ HoldsInv' /\ op[h].ticket \in Ticket /\ Went(h, "idle")
           /\ UNCHANGED <<unused, used, pending, invited, given, secret, alone>>
<1>0. Factor!Opens(h) /\ Sound(h) /\ op[h] \in Factor!RequestState
  BY DEF Factor!OpenSession, Factor!FinishSetup, HoldsInv
<1>1. op[h].ticket \in Ticket /\ op[h].ticket \in given \ (pending \union invited)
  BY <1>0 DEF Factor!OpenSession, Factor!FinishSetup, Factor!At, HoldsInv, Sound, Factor!RequestTyped,
              Verifying, Confirming
<1>2. /\ UNCHANGED <<mandatory, secret, unused, used, pending, invited, setup, given, alone, failures>>
      /\ signedIn' = TRUE /\ byTicket' = [byTicket EXCEPT ![op[h].ticket] = @ + 1]
  BY <1>0 DEF Factor!Opens, Factor!codeVars, Factor!ticketVars
<1>3. Went(h, "idle")
  BY <1>0, Goes DEF Factor!Opens, HoldsInv, Factor!Label
<1>4. /\ shown' \in Batch \union {None}
      /\ \/ byCode' = byCode
         \/ /\ op[h].code \in Factor!Code /\ op[h].code[1] \in given /\ op[h].code \notin unused
            /\ byCode' = [byCode EXCEPT ![op[h].code] = @ + 1]
  <2>1. CASE Factor!OpenSession(h)
    <3>1. shown' = shown /\ shown \in Batch \union {None} /\ op[h].at = "open"
      BY <2>1 DEF Factor!OpenSession, HoldsInv, StoredTyped, Factor!At
    <3>2. byCode' = IF op[h].code = Factor!NoCode THEN byCode ELSE [byCode EXCEPT ![op[h].code] = @ + 1]
      BY <2>1 DEF Factor!OpenSession
    <3>3. op[h].code # Factor!NoCode => op[h].code \in Factor!Code /\ op[h].code[1] \in given
          /\ op[h].code \notin unused
      BY <1>0, <3>1 DEF Sound, Factor!RequestTyped, Factor!RequestState
    <3>. QED BY <3>1, <3>2, <3>3
  <2>2. CASE Factor!FinishSetup(h)
    BY <1>0, <2>2 DEF Factor!FinishSetup, Factor!RequestState
  <2>. QED BY <2>1, <2>2
<1>5. byCode' \in [Factor!Code -> Nat] /\ byTicket' \in [Ticket -> Nat]
  BY <1>1, <1>2, <1>4 DEF HoldsInv, StoredTyped
<1>6. StoredTyped'
  BY <1>2, <1>4, <1>5 DEF HoldsInv, StoredTyped
<1>7. Fresh'
  <2>1. \A c \in Factor!Code : byCode'[c] > 0 => c[1] \in given /\ c \notin unused
    BY <1>4 DEF HoldsInv, StoredTyped, Fresh
  <2>2. \A t \in Ticket : byTicket'[t] > 0 => t \in given \ (pending \union invited)
    BY <1>1, <1>2 DEF HoldsInv, StoredTyped, Fresh
  <2>. QED BY <1>2, <2>1, <2>2 DEF HoldsInv, Fresh, Factor!Rows
<1>8. OnlyNew
  BY <1>2 DEF HoldsInv, Fresh, OnlyNew
<1>9. Sound(h)'
  BY <1>3, EndedSound DEF Went
<1>. QED BY <1>1, <1>2, <1>3, <1>6, <1>7, <1>8, <1>9, AllSound DEF HoldsInv, Went

\* The QR code of the settings page or of the login page.
LEMMA SetupHolds == ASSUME HoldsInv, Factor!SetupFromSettings \/ Factor!SetupFromLogin PROVE HoldsInv'
<1>1. /\ UNCHANGED <<mandatory, secret, unused, used, pending, invited, op, signedIn, byCode, byTicket,
                     alone, failures>>
      /\ setup' \in Secret
  BY DEF Factor!SetupFromSettings, Factor!SetupFromLogin, Factor!NewSecret, Factor!codeVars,
         Factor!ticketVars, Factor!countVars
<1>2. /\ given \subseteq given' /\ given' \subseteq Ticket \union Secret \union Batch
      /\ shown' \in Batch \union {None}
  <2>1. given \subseteq Ticket \union Secret \union Batch /\ shown \in Batch \union {None}
    BY DEF HoldsInv, StoredTyped
  <2>2. CASE Factor!SetupFromSettings
    BY <1>1, <2>1, <2>2 DEF Factor!SetupFromSettings
  <2>3. CASE Factor!SetupFromLogin
    BY <1>1, <2>1, <2>3 DEF Factor!SetupFromLogin
  <2>. QED BY <2>2, <2>3
<1>3. StoredTyped'
  BY <1>1, <1>2 DEF HoldsInv, StoredTyped
<1>4. Fresh' /\ OnlyNew
  BY <1>1, <1>2 DEF HoldsInv, Fresh, Factor!Rows, OnlyNew
<1>. QED BY <1>1, <1>3, <1>4, OthersSound DEF HoldsInv

\* The update of the account, and the deletion of its codes.
LEMMA WriteHolds ==
    ASSUME HoldsInv, NEW h \in Handler, Factor!EnableFactor(h) \/ Factor!SwitchOff(h)
                                        \/ Factor!ClearCodes(h) \/ Factor!WipeCodes(h)
    PROVE  HoldsInv'
<1>0. /\ UNCHANGED <<mandatory, pending, invited, setup, signedIn, shown, given, byCode, byTicket, failures>>
      /\ Sound(h)
  BY DEF HoldsInv, Factor!EnableFactor, Factor!SwitchOff, Factor!ClearCodes, Factor!WipeCodes,
         Factor!Write, Factor!Clear, Factor!codeVars, Factor!ticketVars, Factor!countVars
<1>1. /\ secret' \in Secret \union {None} /\ alone' \in BOOLEAN
      /\ \/ UNCHANGED <<unused, used>>
         \/ unused' = {} /\ used' = {}
  <2>1. secret \in Secret \union {None} /\ alone \in BOOLEAN
    BY DEF HoldsInv, StoredTyped
  <2>2. CASE Factor!EnableFactor(h)
    BY <1>0, <2>2 DEF Factor!EnableFactor, Factor!Write, Factor!codeVars, Factor!At, Sound, Factor!RequestTyped
  <2>3. CASE Factor!SwitchOff(h)
    BY <2>3 DEF Factor!SwitchOff, Factor!Write, Factor!codeVars
  <2>4. CASE Factor!ClearCodes(h) \/ Factor!WipeCodes(h)
    BY <2>1, <2>4 DEF Factor!ClearCodes, Factor!WipeCodes, Factor!Clear
  <2>. QED BY <2>2, <2>3, <2>4
<1>2. StoredTyped'
  BY <1>0, <1>1 DEF HoldsInv, StoredTyped
<1>3. Fresh' /\ OnlyNew
  BY <1>0, <1>1 DEF HoldsInv, Fresh, Factor!Rows, OnlyNew
<1>4. \/ Factor!EnableFactor(h) /\ op[h].at = "enable" /\ Went(h, "clear")
      \/ Factor!ClearCodes(h) /\ op[h].at = "clear" /\ Went(h, "insert")
      \/ Factor!SwitchOff(h) /\ Went(h, "wipe")
      \/ Factor!WipeCodes(h) /\ Went(h, "idle")
  BY Goes DEF Factor!EnableFactor, Factor!SwitchOff, Factor!ClearCodes, Factor!WipeCodes, Factor!Write,
              Factor!Clear, HoldsInv, Factor!Label, Factor!At
<1>5. Sound(h)'
  <2>1. CASE Went(h, "idle")
    BY <2>1, EndedSound DEF Went
  <2>2. CASE Went(h, "wipe") \/ (op[h].at = "enable" /\ Went(h, "clear"))
             \/ (op[h].at = "clear" /\ Went(h, "insert"))
    BY <1>0, <2>2 DEF Went, Sound, Factor!RequestTyped, Verifying, Confirming
  <2>. QED BY <1>4, <2>1, <2>2
<1>6. op' \in [Handler -> Factor!RequestState] /\ \A g \in Handler : g # h => op'[g] = op[g]
  BY <1>4 DEF Went
<1>. QED BY <1>2, <1>3, <1>5, <1>6, AllSound DEF HoldsInv

LEMMA InsertHolds == ASSUME HoldsInv, NEW h \in Handler, Factor!InsertCodes(h) PROVE HoldsInv'
<1>0. op[h].at = "insert" /\ Sound(h) /\ op \in [Handler -> Factor!RequestState]
      /\ UNCHANGED <<mandatory, secret, used, pending, invited, setup, signedIn, shown, byCode, byTicket,
                     alone, failures>>
  BY DEF Factor!InsertCodes, Factor!At, HoldsInv, Factor!ticketVars, Factor!countVars
<1>1. PICK b \in Batch \ given :
        /\ given' = given \union {b} /\ unused' = unused \union Factor!CodesOf(b)
        /\ op' = [op EXCEPT ![h].at = "delSetup", ![h].batch = b]
  BY DEF Factor!InsertCodes
<1>2. /\ op' \in [Handler -> Factor!RequestState] /\ \A g \in Handler : g # h => op'[g] = op[g]
      /\ op'[h].at = "delSetup" /\ op'[h].ticket = op[h].ticket
  BY <1>0, <1>1 DEF Factor!RequestState, Factor!Label
<1>3. Factor!CodesOf(b) \subseteq Factor!Code /\ \A c \in Factor!CodesOf(b) : c[1] = b /\ c # Factor!NoCode
  BY CodesAreDrawn
<1>4. StoredTyped'
  BY <1>0, <1>1, <1>3 DEF HoldsInv, StoredTyped
<1>5. Fresh'
  <2>1. \A c \in Factor!Rows' : c[1] \in given'
    BY <1>0, <1>1, <1>3 DEF HoldsInv, Fresh, Factor!Rows
  <2>2. \A c \in Factor!Code : byCode[c] > 0 => c[1] \in given' /\ c \notin unused'
    BY <1>1, <1>3 DEF HoldsInv, Fresh
  <2>. QED BY <1>0, <1>1, <2>1, <2>2 DEF HoldsInv, Fresh
<1>6. OnlyNew
  BY <1>0, <1>1, <1>3 DEF HoldsInv, Fresh, OnlyNew
<1>7. Sound(h)'
  BY <1>0, <1>1, <1>2 DEF Sound, Factor!RequestTyped, Verifying, Confirming
<1>. QED BY <1>2, <1>4, <1>5, <1>6, <1>7, AllSound DEF HoldsInv

\* The keys of the set-up go.
LEMMA DeleteHolds ==
    ASSUME HoldsInv, NEW h \in Handler, Factor!DeleteSetup(h) \/ Factor!DeleteInvite(h) PROVE HoldsInv'
<1>0. /\ UNCHANGED <<mandatory, secret, unused, used, pending, signedIn, shown, given, byCode, byTicket,
                     alone, failures>>
      /\ Sound(h) /\ op[h] \in Factor!RequestState
  BY DEF Factor!DeleteSetup, Factor!DeleteInvite, HoldsInv, Factor!codeVars, Factor!ticketVars, Factor!countVars
<1>1. \/ /\ op[h].at = "delSetup" /\ setup' = None /\ invited' = invited
         /\ Went(h, "idle") \/ (op[h].ticket \in Ticket /\ Went(h, "delInvite"))
      \/ /\ op[h].at = "delInvite" /\ setup' = setup /\ invited' = invited \ {op[h].ticket}
         /\ Went(h, "finish")
  <2>1. CASE Factor!DeleteSetup(h)
    BY <1>0, <2>1, Goes DEF Factor!DeleteSetup, Factor!At, HoldsInv, Factor!Label, Factor!RequestState,
                            Factor!ticketVars
  <2>2. CASE Factor!DeleteInvite(h)
    BY <2>2, Goes DEF Factor!DeleteInvite, Factor!At, HoldsInv, Factor!Label
  <2>. QED BY <2>1, <2>2
<1>2. StoredTyped'
  BY <1>0, <1>1 DEF HoldsInv, StoredTyped
<1>3. Fresh' /\ OnlyNew
  BY <1>0, <1>1 DEF HoldsInv, Fresh, Factor!Rows, OnlyNew
<1>4. Sound(h)'
  <2>1. CASE Went(h, "idle")
    BY <2>1, EndedSound DEF Went
  <2>2. CASE op[h].at = "delSetup" /\ op[h].ticket \in Ticket /\ Went(h, "delInvite")
    BY <1>0, <2>2 DEF Went, Sound, Factor!RequestTyped, Verifying, Confirming
  <2>3. CASE op[h].at = "delInvite" /\ invited' = invited \ {op[h].ticket} /\ Went(h, "finish")
    BY <1>0, <2>3 DEF Went, Sound, Factor!RequestTyped, Verifying, Confirming
  <2>. QED BY <1>1, <2>1, <2>2, <2>3
<1>5. op' \in [Handler -> Factor!RequestState] /\ \A g \in Handler : g # h => op'[g] = op[g]
  BY <1>1 DEF Went
<1>. QED BY <1>2, <1>3, <1>4, <1>5, AllSound DEF HoldsInv

LEMMA ExpiryHolds == ASSUME HoldsInv, Factor!KeyExpires PROVE HoldsInv'
<1>1. /\ UNCHANGED <<mandatory, secret, unused, used, op, signedIn, shown, given, byCode, byTicket, alone,
                     failures>>
      /\ setup' \in {setup, None} /\ pending' \subseteq pending /\ invited' \subseteq invited
  BY DEF Factor!KeyExpires, Factor!codeVars, Factor!ticketVars, Factor!countVars
<1>2. StoredTyped'
  BY <1>1 DEF HoldsInv, StoredTyped
<1>3. Fresh' /\ OnlyNew
  BY <1>1 DEF HoldsInv, Fresh, Factor!Rows, OnlyNew
<1>. QED BY <1>1, <1>2, <1>3, OthersSound DEF HoldsInv

LEMMA FailHolds == ASSUME HoldsInv, NEW h \in Handler, Factor!RequestFails(h) PROVE HoldsInv'
<1>1. Went(h, "idle")
  BY Goes DEF Factor!RequestFails, HoldsInv, Factor!Label
<1>2. /\ UNCHANGED <<mandatory, secret, unused, used, pending, invited, setup, signedIn, shown, given,
                     byCode, byTicket>>
      /\ failures' = failures + 1 /\ alone' \in BOOLEAN
  BY DEF Factor!RequestFails, Factor!codeVars, Factor!ticketVars, Factor!countVars
<1>3. StoredTyped'
  BY <1>2 DEF HoldsInv, StoredTyped
<1>4. Fresh' /\ OnlyNew
  BY <1>2 DEF HoldsInv, Fresh, Factor!Rows, OnlyNew
<1>5. Sound(h)'
  BY <1>1, EndedSound DEF Went
<1>. QED BY <1>1, <1>3, <1>4, <1>5, AllSound DEF HoldsInv, Went

\* The steps that begin a request or only look.
Beginning(h) ==
    \/ Factor!PasswordAccepted(h) \/ Factor!Disable(h)
    \/ \E t \in Ticket, k \in Factor!Scanned : Factor!VerifyTwoFactor(h, t, k)
    \/ \E t \in Ticket, c \in Factor!Code : Factor!VerifyBackupCode(h, t, c)
    \/ \E k \in Factor!Scanned : Factor!ConfirmFromSettings(h, k)
    \/ \E t \in Ticket, k \in Factor!Scanned : Factor!ConfirmFromLogin(h, t, k)

Looking(h) == Factor!CheckTotp(h) \/ Factor!FindCode(h) \/ Factor!CheckSetup(h)

LEMMA BeginningHolds == ASSUME HoldsInv, NEW h \in Handler, Beginning(h) PROVE HoldsInv'
<1>. USE DEF factVars, Factor!codeVars, Factor!ticketVars, Factor!countVars, Factor!Scanned
<1>1. CASE Factor!PasswordAccepted(h)
  <2>1. PICK label \in {"hold", "invite", "plain"} : Factor!Start(h, label, None, Factor!NoCode, None)
    BY <1>1 DEF Factor!PasswordAccepted
  <2>. QED BY <1>1, <2>1, BeginHolds DEF Factor!PasswordAccepted, Factor!Label
<1>2. CASE Factor!Disable(h)
  BY <1>2, BeginHolds DEF Factor!Disable, Factor!Label
<1>3. ASSUME NEW t \in Ticket, NEW k \in Factor!Scanned, Factor!VerifyTwoFactor(h, t, k) PROVE HoldsInv'
  <2>1. t \in pending /\ Factor!Start(h, "totp", t, Factor!NoCode, k) /\ UNCHANGED factVars
        /\ "totp" \in Factor!Label
    BY <1>3 DEF Factor!VerifyTwoFactor, Factor!Present, Factor!Label
  <2>. QED BY <2>1, BeginHolds
<1>4. ASSUME NEW t \in Ticket, NEW c \in Factor!Code, Factor!VerifyBackupCode(h, t, c) PROVE HoldsInv'
  <2>1. t \in pending /\ Factor!Start(h, "find", t, c, None) /\ UNCHANGED factVars /\ "find" \in Factor!Label
    BY <1>4 DEF Factor!VerifyBackupCode, Factor!Present, Factor!Label
  <2>. QED BY <2>1, BeginHolds
<1>5. ASSUME NEW k \in Factor!Scanned, Factor!ConfirmFromSettings(h, k) PROVE HoldsInv'
  BY <1>5, BeginHolds DEF Factor!ConfirmFromSettings, Factor!BeginConfirm, Factor!Label
<1>6. ASSUME NEW t \in Ticket, NEW k \in Factor!Scanned, Factor!ConfirmFromLogin(h, t, k) PROVE HoldsInv'
  BY <1>6, BeginHolds DEF Factor!ConfirmFromLogin, Factor!BeginConfirm, Factor!Label
<1>. QED BY <1>1, <1>2, <1>3, <1>4, <1>5, <1>6 DEF Beginning

LEMMA LookingHolds == ASSUME HoldsInv, NEW h \in Handler, Looking(h) PROVE HoldsInv'
<1>. USE DEF Factor!Look, factVars, Factor!codeVars, Factor!ticketVars, Factor!countVars
<1>1. CASE Factor!CheckTotp(h)
  <2>1. Factor!At(h, "totp") /\ UNCHANGED factVars /\ (Factor!Goto(h, "spend") \/ Factor!Goto(h, "idle"))
    BY <1>1 DEF Factor!CheckTotp
  <2>. QED BY <2>1, LookHolds
<1>2. CASE Factor!FindCode(h)
  <2>1. /\ Factor!At(h, "find") /\ UNCHANGED factVars /\ (Factor!Goto(h, "mark") \/ Factor!Goto(h, "idle"))
        /\ Factor!Goto(h, "idle") \/ op[h].code \in unused
    BY <1>2 DEF Factor!FindCode
  <2>. QED BY <2>1, LookHolds
<1>3. CASE Factor!CheckSetup(h)
  <2>1. Factor!At(h, "confirm") /\ UNCHANGED factVars /\ (Factor!Goto(h, "enable") \/ Factor!Goto(h, "idle"))
    BY <1>3 DEF Factor!CheckSetup
  <2>. QED BY <2>1, LookHolds
<1>. QED BY <1>1, <1>2, <1>3 DEF Looking

LEMMA StepOf ==
    ASSUME Factor!Next
    PROVE  \/ \E h \in Handler :
                \/ Beginning(h) \/ Looking(h) \/ Factor!IssueTicket(h) \/ Factor!PlainSession(h)
                \/ Factor!MarkUsed(h)
                \/ Factor!SpendPending(h) \/ Factor!OpenSession(h) \/ Factor!FinishSetup(h)
                \/ Factor!EnableFactor(h) \/ Factor!SwitchOff(h) \/ Factor!ClearCodes(h) \/ Factor!WipeCodes(h)
                \/ Factor!InsertCodes(h) \/ Factor!DeleteSetup(h) \/ Factor!DeleteInvite(h)
                \/ Factor!RequestFails(h)
           \/ Factor!SetupFromSettings \/ Factor!SetupFromLogin \/ Factor!KeyExpires
<1>1. ASSUME NEW h \in Handler, Factor!LoginStep(h)
      PROVE  Beginning(h) \/ Looking(h) \/ Factor!IssueTicket(h) \/ Factor!PlainSession(h) \/ Factor!MarkUsed(h)
             \/ Factor!SpendPending(h) \/ Factor!OpenSession(h)
  BY <1>1 DEF Factor!LoginStep, Beginning, Looking
<1>2. ASSUME NEW h \in Handler, Factor!FactorStep(h)
      PROVE  Beginning(h) \/ Looking(h) \/ Factor!FinishSetup(h) \/ Factor!EnableFactor(h)
             \/ Factor!SwitchOff(h)
             \/ Factor!ClearCodes(h) \/ Factor!WipeCodes(h) \/ Factor!InsertCodes(h)
             \/ Factor!DeleteSetup(h) \/ Factor!DeleteInvite(h)
  BY <1>2 DEF Factor!FactorStep, Beginning, Looking
<1>. QED BY <1>1, <1>2 DEF Factor!Next

LEMMA HoldsInductive == ASSUME HoldsInv, Factor!Next \/ UNCHANGED Factor!vars PROVE HoldsInv'
<1>1. CASE Factor!Next
  BY <1>1, StepOf, BeginningHolds, LookingHolds, IssueHolds, PlainHolds, MarkHolds, SpendHolds, OpensHolds,
     WriteHolds, InsertHolds, DeleteHolds, FailHolds, SetupHolds, ExpiryHolds
<1>2. CASE UNCHANGED Factor!vars
  <2>1. UNCHANGED factVars /\ op' = op
    BY <1>2 DEF Factor!vars, factVars
  <2>. QED BY <2>1, SameFacts, OthersSound DEF HoldsInv
<1>. QED BY <1>1, <1>2

\* A step of the accounts is one of the factor in its part.
LEMMA Steps ==
    ASSUME [AccountsNext]_accountVars, part = "factor" \/ part' = "factor"
    PROVE  part = "factor" /\ (Factor!Next \/ UNCHANGED Factor!vars)
<1>1. CASE AccountsNext
  BY <1>1 DEF AccountsNext
<1>2. CASE UNCHANGED accountVars
  BY <1>2 DEF accountVars, factor, vars, Factor!vars, Factor!codeVars, Factor!ticketVars, Factor!countVars
<1>. QED BY <1>1, <1>2

LEMMA HoldsAlways == AccountsSpec => [](part = "factor" => HoldsInv)
<1>1. AccountsInit => (part = "factor" => HoldsInv)
  BY HoldsInit DEF AccountsInit
<1>2. (part = "factor" => HoldsInv) /\ [AccountsNext]_accountVars => (part = "factor" => HoldsInv)'
  BY Steps, HoldsInductive
<1>. QED BY <1>1, <1>2, PTL DEF AccountsSpec

(* Types, and the order of a verification in auth.service.ts, for any      *)
(* number of requests: the code is spent before the ticket, and the ticket *)
(* before the session opens.                                               *)
THEOREM FactorTypes == AccountsSpec => []FactorTypeOK
<1>1. (part = "factor" => HoldsInv) => FactorTypeOK
  BY HoldsTypes DEF FactorTypeOK
<1>. QED BY <1>1, HoldsAlways, PTL

----------------------------------------------------------------------------
(* Sessions per code and per ticket.  A code that is not yet marked, or a  *)
(* ticket that still waits, has opened nothing; from then on the sessions  *)
(* it has opened and the requests that still may open one only change      *)
(* places, and they were never more than the requests in progress.         *)

Past == {"mark", "spend", "open"}

CodeHolders(c) == {h \in Handler : op[h].at \in Past /\ op[h].code = c}

TicketHolders(t) == {h \in Handler : op[h].at # "idle" /\ op[h].ticket = t}

Bounded ==
    /\ \A c \in Factor!Code : byCode[c] + Cardinality(CodeHolders(c)) <= Cardinality(Handler)
    /\ \A t \in Ticket : byTicket[t] + Cardinality(TicketHolders(t)) <= Cardinality(Handler)

\* TwoFactor counts as this module does.
LEMMA Counting ==
    ASSUME NEW S
    PROVE  Factor!Cardinality(S) = Cardinality(S) /\ Factor!IsFiniteSet(S) = IsFiniteSet(S)
BY DEF Factor!Cardinality, Cardinality, Factor!IsFiniteSet, IsFiniteSet

LEMMA HoldersFinite ==
    /\ Cardinality(Handler) \in Nat
    /\ \A S \in SUBSET Handler : IsFiniteSet(S) /\ Cardinality(S) \in Nat
                               /\ Cardinality(S) <= Cardinality(Handler)
BY FS_CardinalityType, FS_Subset, Counting

\* Whoever holds a code or a ticket held it before, or it has opened nothing.
Passing(g) ==
    /\ op'[g].at \in Past =>
           \/ op[g].at \in Past /\ op'[g].code = op[g].code
           \/ op'[g].code \in unused \union {Factor!NoCode}
    /\ op'[g].at # "idle" =>
           \/ op[g].at # "idle" /\ op'[g].ticket = op[g].ticket
           \/ op'[g].ticket \in pending \union invited \union {None}

LEMMA WentPasses ==
    ASSUME NEW h \in Handler, NEW label, Went(h, label), op[h].at # "idle",
           label \in Past => op[h].at \in Past \/ op[h].code \in unused \union {Factor!NoCode}
    PROVE  \A g \in Handler : Passing(g)
BY DEF Went, Passing, Past, Factor!Idle

LEMMA BeganPasses ==
    ASSUME HoldsInv, NEW h \in Handler, NEW label \in Factor!Label \ Past,
           NEW t \in pending \union invited \union {None},
           NEW c \in Factor!Code \union {Factor!NoCode}, NEW k \in Secret \union {None},
           Factor!Start(h, label, t, c, k)
    PROVE  \A g \in Handler : Passing(g)
<1>1. t \in Ticket \union {None}
  BY DEF HoldsInv, StoredTyped
<1>2. Began(h, label, t, c, k)
  BY <1>1, Starts DEF HoldsInv
<1>. QED BY <1>2 DEF Began, Passing, Past

LEMMA BeginningPasses == ASSUME HoldsInv, NEW h \in Handler, Beginning(h) PROVE \A g \in Handler : Passing(g)
<1>. USE DEF Factor!Scanned
<1>0. {"hold", "invite", "plain", "off", "totp", "find", "confirm"} \subseteq Factor!Label \ Past
  BY DEF Factor!Label, Past
<1>1. CASE Factor!PasswordAccepted(h)
  <2>1. PICK label \in {"hold", "invite", "plain"} : Factor!Start(h, label, None, Factor!NoCode, None)
    BY <1>1 DEF Factor!PasswordAccepted
  <2>. QED BY <1>0, <2>1, BeganPasses
<1>2. CASE Factor!Disable(h)
  BY <1>0, <1>2, BeganPasses DEF Factor!Disable
<1>3. ASSUME NEW t \in Ticket, NEW k \in Factor!Scanned, Factor!VerifyTwoFactor(h, t, k)
      PROVE  \A g \in Handler : Passing(g)
  <2>1. t \in pending /\ Factor!Start(h, "totp", t, Factor!NoCode, k)
    BY <1>3 DEF Factor!VerifyTwoFactor, Factor!Present
  <2>. QED BY <1>0, <2>1, BeganPasses
<1>4. ASSUME NEW t \in Ticket, NEW c \in Factor!Code, Factor!VerifyBackupCode(h, t, c)
      PROVE  \A g \in Handler : Passing(g)
  <2>1. t \in pending /\ Factor!Start(h, "find", t, c, None)
    BY <1>4 DEF Factor!VerifyBackupCode, Factor!Present
  <2>. QED BY <1>0, <2>1, BeganPasses
<1>5. ASSUME NEW k \in Factor!Scanned, Factor!ConfirmFromSettings(h, k) PROVE \A g \in Handler : Passing(g)
  BY <1>0, <1>5, BeganPasses DEF Factor!ConfirmFromSettings, Factor!BeginConfirm
<1>6. ASSUME NEW t \in Ticket, NEW k \in Factor!Scanned, Factor!ConfirmFromLogin(h, t, k)
      PROVE  \A g \in Handler : Passing(g)
  <2>1. t \in invited /\ Factor!Start(h, "confirm", t, Factor!NoCode, k)
    BY <1>6 DEF Factor!ConfirmFromLogin, Factor!BeginConfirm
  <2>. QED BY <1>0, <2>1, BeganPasses
<1>. QED BY <1>1, <1>2, <1>3, <1>4, <1>5, <1>6 DEF Beginning

\* A request that looks was sound: a six-digit code is no backup code.
LEMMA LookingPasses == ASSUME HoldsInv, NEW h \in Handler, Looking(h) PROVE \A g \in Handler : Passing(g)
<1>0. {"idle", "spend", "mark", "enable"} \subseteq Factor!Label /\ Sound(h)
      /\ op \in [Handler -> Factor!RequestState]
  BY DEF HoldsInv, Factor!Label
<1>1. CASE Factor!CheckTotp(h)
  <2>1. Factor!At(h, "totp") /\ (Factor!Goto(h, "spend") \/ Factor!Goto(h, "idle"))
    BY <1>1 DEF Factor!CheckTotp, Factor!Look
  <2>2. op[h].code = Factor!NoCode /\ op[h].at # "idle"
    BY <1>0, <2>1 DEF Sound, Factor!At
  <2>3. \E label : Went(h, label)
    BY <1>0, <2>1, Goes
  <2>. QED BY <2>2, <2>3, WentPasses
<1>2. CASE Factor!FindCode(h)
  <2>1. /\ op[h].at = "find"
        /\ Factor!Goto(h, "idle") \/ (Factor!Goto(h, "mark") /\ op[h].code \in unused)
    BY <1>2 DEF Factor!FindCode, Factor!Look, Factor!At
  <2>2. Went(h, "idle") \/ (Went(h, "mark") /\ op[h].code \in unused)
    BY <1>0, <2>1, Goes
  <2>. QED BY <2>1, <2>2, WentPasses DEF Past
<1>3. CASE Factor!CheckSetup(h)
  <2>1. op[h].at = "confirm" /\ (Factor!Goto(h, "enable") \/ Factor!Goto(h, "idle"))
    BY <1>3 DEF Factor!CheckSetup, Factor!Look, Factor!At
  <2>2. Went(h, "idle") \/ Went(h, "enable")
    BY <1>0, <2>1, Goes
  <2>. QED BY <2>1, <2>2, WentPasses DEF Past
<1>. QED BY <1>1, <1>2, <1>3 DEF Looking

LEMMA WorkingPasses ==
    ASSUME HoldsInv, NEW h \in Handler,
           \/ Factor!IssueTicket(h) \/ Factor!PlainSession(h) \/ Factor!MarkUsed(h) \/ Factor!SpendPending(h)
           \/ Factor!EnableFactor(h) \/ Factor!SwitchOff(h) \/ Factor!ClearCodes(h) \/ Factor!WipeCodes(h)
           \/ Factor!InsertCodes(h) \/ Factor!DeleteSetup(h) \/ Factor!DeleteInvite(h) \/ Factor!RequestFails(h)
    PROVE  /\ \A g \in Handler : Passing(g)
           /\ UNCHANGED Factor!countVars
<1>1. UNCHANGED Factor!countVars
  BY DEF Factor!IssueTicket, Factor!PlainSession, Factor!MarkUsed, Factor!SpendPending,
         Factor!EnableFactor, Factor!SwitchOff, Factor!ClearCodes, Factor!WipeCodes, Factor!InsertCodes,
         Factor!DeleteSetup, Factor!DeleteInvite, Factor!RequestFails, Factor!Write, Factor!Clear,
         Factor!countVars
<1>2. CASE Factor!InsertCodes(h)
  <2>1. \E b : op' = [op EXCEPT ![h].at = "delSetup", ![h].batch = b]
    BY <1>2 DEF Factor!InsertCodes
  <2>2. op[h].at = "insert" /\ op \in [Handler -> Factor!RequestState]
    BY <1>2 DEF Factor!InsertCodes, Factor!At, HoldsInv
  <2>. QED BY <1>1, <2>1, <2>2 DEF Passing, Past, Factor!RequestState
<1>3. CASE ~Factor!InsertCodes(h)
  <2>1. PICK label \in Factor!Label :
          /\ Factor!Goto(h, label) /\ op[h].at # "idle"
          /\ label \in Past => op[h].at \in Past
    BY <1>3 DEF Factor!IssueTicket, Factor!PlainSession, Factor!MarkUsed, Factor!SpendPending,
                Factor!EnableFactor, Factor!SwitchOff, Factor!ClearCodes, Factor!WipeCodes,
                Factor!DeleteSetup, Factor!DeleteInvite, Factor!RequestFails, Factor!Write,
                Factor!Clear, Factor!At, Factor!Label, Past
  <2>2. Went(h, label)
    BY <2>1, Goes DEF HoldsInv
  <2>. QED BY <1>1, <2>1, <2>2, WentPasses
<1>. QED BY <1>2, <1>3

LEMMA PassingKeeps ==
    ASSUME HoldsInv, Bounded, \A g \in Handler : Passing(g), UNCHANGED Factor!countVars
    PROVE  Bounded'
<1>0. byCode' = byCode /\ byTicket' = byTicket
  BY DEF Factor!countVars
<1>1. ASSUME NEW c \in Factor!Code PROVE byCode[c] + Cardinality(CodeHolders(c)') <= Cardinality(Handler)
  <2>1. byCode[c] \in Nat /\ CodeHolders(c) \in SUBSET Handler /\ CodeHolders(c)' \in SUBSET Handler
        /\ c # Factor!NoCode
    BY CodesAreDrawn DEF HoldsInv, StoredTyped, CodeHolders
  <2>2. CASE c \in unused
    <3>1. byCode[c] = 0
      BY <2>1, <2>2 DEF HoldsInv, Fresh
    <3>. QED BY <2>1, <3>1, HoldersFinite
  <2>3. CASE c \notin unused
    <3>1. CodeHolders(c)' \subseteq CodeHolders(c)
      BY <2>1, <2>3 DEF Passing, CodeHolders
    <3>2. Cardinality(CodeHolders(c)') <= Cardinality(CodeHolders(c))
      BY <2>1, <3>1, HoldersFinite, FS_Subset
    <3>3. byCode[c] + Cardinality(CodeHolders(c)) <= Cardinality(Handler)
      BY DEF Bounded
    <3>4. \A a, m, n, b \in Nat : m <= n /\ a + n <= b => a + m <= b
      OBVIOUS
    <3>5. Cardinality(CodeHolders(c)') \in Nat /\ Cardinality(CodeHolders(c)) \in Nat
          /\ Cardinality(Handler) \in Nat
      BY <2>1, HoldersFinite
    <3>. QED BY <2>1, <3>2, <3>3, <3>4, <3>5
  <2>. QED BY <2>2, <2>3
<1>2. ASSUME NEW t \in Ticket PROVE byTicket[t] + Cardinality(TicketHolders(t)') <= Cardinality(Handler)
  <2>1. byTicket[t] \in Nat /\ TicketHolders(t) \in SUBSET Handler /\ TicketHolders(t)' \in SUBSET Handler
        /\ t # None
    BY DEF HoldsInv, StoredTyped, TicketHolders
  <2>2. CASE t \in pending \union invited
    <3>1. byTicket[t] = 0
      BY <2>1, <2>2 DEF HoldsInv, Fresh
    <3>. QED BY <2>1, <3>1, HoldersFinite
  <2>3. CASE t \notin pending \union invited
    <3>1. TicketHolders(t)' \subseteq TicketHolders(t)
      BY <2>1, <2>3 DEF Passing, TicketHolders
    <3>2. Cardinality(TicketHolders(t)') <= Cardinality(TicketHolders(t))
      BY <2>1, <3>1, HoldersFinite, FS_Subset
    <3>3. byTicket[t] + Cardinality(TicketHolders(t)) <= Cardinality(Handler)
      BY DEF Bounded
    <3>4. \A a, m, n, b \in Nat : m <= n /\ a + n <= b => a + m <= b
      OBVIOUS
    <3>5. Cardinality(TicketHolders(t)') \in Nat /\ Cardinality(TicketHolders(t)) \in Nat
          /\ Cardinality(Handler) \in Nat
      BY <2>1, HoldersFinite
    <3>. QED BY <2>1, <3>2, <3>3, <3>4, <3>5
  <2>. QED BY <2>2, <2>3
<1>. QED BY <1>0, <1>1, <1>2 DEF Bounded

\* What h held it has turned into a session.
LEMMA Converts ==
    ASSUME NEW S \in SUBSET Handler, NEW T \in SUBSET Handler, NEW h \in Handler, T = S \ {h},
           NEW n \in Nat, NEW m \in Nat, m = n \/ (m = n + 1 /\ h \in S),
           n + Cardinality(S) <= Cardinality(Handler)
    PROVE  m + Cardinality(T) <= Cardinality(Handler)
<1>1. Cardinality(S) \in Nat /\ Cardinality(T) \in Nat /\ Cardinality(Handler) \in Nat
      /\ IsFiniteSet(S) /\ IsFiniteSet(T)
  BY HoldersFinite
<1>2. CASE h \in S
  <2>1. Cardinality(T) = Cardinality(S) - 1
    BY <1>1, <1>2, FS_RemoveElement
  <2>. QED BY <1>1, <2>1
<1>3. CASE h \notin S
  BY <1>1, <1>3
<1>. QED BY <1>2, <1>3

LEMMA OpensKeeps ==
    ASSUME HoldsInv, Bounded, NEW h \in Handler, Factor!OpenSession(h) \/ Factor!FinishSetup(h)
    PROVE  Bounded'
<1>0. /\ op[h].ticket \in Ticket /\ op'[h] = Factor!Idle /\ \A g \in Handler : g # h => op'[g] = op[g]
      /\ op[h].at # "idle" /\ byCode \in [Factor!Code -> Nat] /\ byTicket \in [Ticket -> Nat]
  BY OpensHolds DEF Went, Factor!OpenSession, Factor!FinishSetup, Factor!At, HoldsInv, StoredTyped
<1>1. byTicket' = [byTicket EXCEPT ![op[h].ticket] = @ + 1]
  BY DEF Factor!OpenSession, Factor!FinishSetup, Factor!Opens
<1>2. \/ byCode' = byCode
      \/ op[h].at \in Past /\ op[h].code \in Factor!Code /\ byCode' = [byCode EXCEPT ![op[h].code] = @ + 1]
  <2>1. op[h] \in Factor!RequestState
    BY DEF HoldsInv
  <2>2. CASE Factor!OpenSession(h)
    BY <2>1, <2>2 DEF Factor!OpenSession, Factor!At, Past, Factor!RequestState
  <2>3. CASE Factor!FinishSetup(h)
    BY <2>3 DEF Factor!FinishSetup
  <2>. QED BY <2>2, <2>3
<1>3. \A c : /\ CodeHolders(c)' = CodeHolders(c) \ {h}
             /\ CodeHolders(c) \in SUBSET Handler /\ CodeHolders(c)' \in SUBSET Handler
  BY <1>0 DEF CodeHolders, Factor!Idle, Past
<1>4. \A t : /\ TicketHolders(t)' = TicketHolders(t) \ {h}
             /\ TicketHolders(t) \in SUBSET Handler /\ TicketHolders(t)' \in SUBSET Handler
  BY <1>0 DEF TicketHolders, Factor!Idle
<1>5. ASSUME NEW c \in Factor!Code PROVE byCode'[c] + Cardinality(CodeHolders(c)') <= Cardinality(Handler)
  <2>1. byCode[c] \in Nat /\ byCode'[c] \in Nat
        /\ (byCode'[c] = byCode[c] \/ (byCode'[c] = byCode[c] + 1 /\ h \in CodeHolders(c)))
    BY <1>0, <1>2 DEF CodeHolders
  <2>2. byCode[c] + Cardinality(CodeHolders(c)) <= Cardinality(Handler)
    BY DEF Bounded
  <2>. QED BY <1>3, <2>1, <2>2, Converts
<1>6. ASSUME NEW t \in Ticket PROVE byTicket'[t] + Cardinality(TicketHolders(t)') <= Cardinality(Handler)
  <2>1. byTicket[t] \in Nat /\ byTicket'[t] \in Nat
        /\ (byTicket'[t] = byTicket[t] \/ (byTicket'[t] = byTicket[t] + 1 /\ h \in TicketHolders(t)))
    BY <1>0, <1>1 DEF TicketHolders
  <2>2. byTicket[t] + Cardinality(TicketHolders(t)) <= Cardinality(Handler)
    BY DEF Bounded
  <2>. QED BY <1>4, <2>1, <2>2, Converts
<1>. QED BY <1>5, <1>6 DEF Bounded

LEMMA BoundedInit == Factor!Init => Bounded
<1> SUFFICES ASSUME Factor!Init PROVE Bounded
  OBVIOUS
<1>1. \A c \in Factor!Code : byCode[c] = 0 /\ CodeHolders(c) \in SUBSET Handler
  BY DEF Factor!Init, CodeHolders
<1>2. \A t \in Ticket : byTicket[t] = 0 /\ TicketHolders(t) \in SUBSET Handler
  BY DEF Factor!Init, TicketHolders
<1>. QED BY <1>1, <1>2, HoldersFinite DEF Bounded

LEMMA BoundedInductive ==
    ASSUME HoldsInv, Bounded, Factor!Next \/ UNCHANGED Factor!vars PROVE Bounded'
<1>1. ASSUME NEW h \in Handler, Beginning(h) \/ Looking(h) PROVE Bounded'
  <2>1. UNCHANGED Factor!countVars
    BY <1>1 DEF Beginning, Looking, Factor!PasswordAccepted, Factor!Disable, Factor!VerifyTwoFactor,
                Factor!VerifyBackupCode, Factor!Present, Factor!ConfirmFromSettings,
                Factor!ConfirmFromLogin, Factor!BeginConfirm, Factor!CheckTotp, Factor!FindCode,
                Factor!CheckSetup, Factor!Look, Factor!countVars
  <2>. QED BY <1>1, <2>1, BeginningPasses, LookingPasses, PassingKeeps
<1>2. ASSUME NEW h \in Handler, Factor!OpenSession(h) \/ Factor!FinishSetup(h) PROVE Bounded'
  BY <1>2, OpensKeeps
<1>3. ASSUME NEW h \in Handler,
             \/ Factor!IssueTicket(h) \/ Factor!PlainSession(h) \/ Factor!MarkUsed(h) \/ Factor!SpendPending(h)
             \/ Factor!EnableFactor(h) \/ Factor!SwitchOff(h) \/ Factor!ClearCodes(h) \/ Factor!WipeCodes(h)
             \/ Factor!InsertCodes(h) \/ Factor!DeleteSetup(h) \/ Factor!DeleteInvite(h)
             \/ Factor!RequestFails(h)
      PROVE  Bounded'
  BY <1>3, WorkingPasses, PassingKeeps
<1>4. CASE Factor!SetupFromSettings \/ Factor!SetupFromLogin \/ Factor!KeyExpires \/ UNCHANGED Factor!vars
  <2>1. op' = op /\ UNCHANGED Factor!countVars
    BY <1>4 DEF Factor!SetupFromSettings, Factor!SetupFromLogin, Factor!NewSecret, Factor!KeyExpires,
                Factor!vars, Factor!countVars
  <2>2. \A g \in Handler : Passing(g)
    BY <2>1 DEF Passing
  <2>. QED BY <2>1, <2>2, PassingKeeps
<1>. QED BY <1>1, <1>2, <1>3, <1>4, StepOf

(* Between the look at a code and its mark, and between the look at a      *)
(* ticket and its deletion, other requests may pass: no more sessions come *)
(* of one than there were requests in progress, whatever is tried later.   *)
THEOREM OpensStayBounded == AccountsSpec => []OpensBoundedByOverlap
<1> DEFINE Inv == part = "factor" => HoldsInv /\ Bounded
<1>1. AccountsInit => Inv
  BY HoldsInit, BoundedInit DEF AccountsInit
<1>2. Inv /\ [AccountsNext]_accountVars => Inv'
  BY Steps, HoldsInductive, BoundedInductive
<1>3. Inv => OpensBoundedByOverlap
  <2>1. \A a, m, b \in Nat : a + m <= b => a <= b
    OBVIOUS
  <2>2. /\ \A c : CodeHolders(c) \in SUBSET Handler
        /\ \A t : TicketHolders(t) \in SUBSET Handler
    BY DEF CodeHolders, TicketHolders
  <2>. QED BY <2>1, <2>2, HoldersFinite, Counting
              DEF Bounded, HoldsInv, StoredTyped, OpensBoundedByOverlap, Factor!OpensBoundedByOverlap
<1>. QED BY <1>1, <1>2, <1>3, PTL DEF AccountsSpec

----------------------------------------------------------------------------
(* The codes of the account.  While nothing has overlapped, one request at *)
(* most is between its write to the factor and its last to the codes, and  *)
(* where it stands tells what the codes are.                               *)

FactorInv ==
    alone =>
        /\ \A g, h \in Factor!Writing : g = h
        /\ \A h \in Handler : /\ Factor!At(h, "clear") => Factor!Enabled
                              /\ Factor!At(h, "insert") => Factor!Enabled /\ Factor!Rows = {}
                              /\ Factor!At(h, "wipe") => ~Factor!Enabled
        /\ Factor!FactorHasItsCodes

\* The codes stay those they were, used or not, and nobody starts or ends a write.
LEMMA CodesStay ==
    ASSUME FactorInv, HoldsInv, Factor!Rows' = Factor!Rows, secret' = secret, alone' = alone,
           \A g \in Handler :
               \/ op'[g].at = op[g].at
               \/ {op[g].at, op'[g].at} \intersect {"clear", "insert", "wipe"} = {}
    PROVE  FactorInv'
<1>1. Factor!Writing' = Factor!Writing /\ Factor!Enabled' = Factor!Enabled
  BY DEF Factor!Writing, Factor!Enabled
<1>2. \A g \in Handler : /\ Factor!At(g, "clear")' => Factor!At(g, "clear")
                         /\ Factor!At(g, "insert")' => Factor!At(g, "insert")
                         /\ Factor!At(g, "wipe")' => Factor!At(g, "wipe")
  BY DEF Factor!At
<1>. QED BY <1>1, <1>2 DEF FactorInv, Factor!FactorHasItsCodes

\* All steps but the writes, the codes and the failures.
LEMMA AsideKeeps ==
    ASSUME FactorInv, HoldsInv,
           \/ \E h \in Handler :
                 \/ Beginning(h) \/ Looking(h) \/ Factor!IssueTicket(h) \/ Factor!PlainSession(h)
                 \/ Factor!MarkUsed(h)
                 \/ Factor!SpendPending(h) \/ Factor!OpenSession(h) \/ Factor!FinishSetup(h)
                 \/ Factor!DeleteSetup(h) \/ Factor!DeleteInvite(h)
           \/ Factor!SetupFromSettings \/ Factor!SetupFromLogin \/ Factor!KeyExpires \/ UNCHANGED Factor!vars
    PROVE  FactorInv'
<1>. DEFINE Calm(g) == \/ op'[g].at = op[g].at
                       \/ {op[g].at, op'[g].at} \intersect {"clear", "insert", "wipe"} = {}
<1>0. op \in [Handler -> Factor!RequestState]
  BY DEF HoldsInv
<1>1. ASSUME NEW h \in Handler, Beginning(h) PROVE FactorInv'
  <2>1. Factor!Rows' = Factor!Rows /\ secret' = secret /\ alone' = alone
    BY <1>1 DEF Beginning, Factor!PasswordAccepted, Factor!Disable, Factor!VerifyTwoFactor,
                Factor!VerifyBackupCode, Factor!Present, Factor!ConfirmFromSettings,
                Factor!ConfirmFromLogin, Factor!BeginConfirm, Factor!codeVars, Factor!Rows
  <2>2. \E label \in {"hold", "invite", "plain", "off", "totp", "find", "confirm"} :
            \E t, c, k : Factor!Start(h, label, t, c, k)
    BY <1>1 DEF Beginning, Factor!PasswordAccepted, Factor!Disable, Factor!VerifyTwoFactor,
                Factor!VerifyBackupCode, Factor!Present, Factor!ConfirmFromSettings,
                Factor!ConfirmFromLogin, Factor!BeginConfirm
  <2>3. \A g \in Handler : Calm(g)
    BY <1>0, <2>2 DEF Factor!Start, Factor!At, Factor!Idle
  <2>. QED BY <2>1, <2>3, CodesStay
<1>2. ASSUME NEW h \in Handler, Looking(h) PROVE FactorInv'
  <2>1. Factor!Rows' = Factor!Rows /\ secret' = secret /\ alone' = alone
    BY <1>2 DEF Looking, Factor!CheckTotp, Factor!FindCode, Factor!CheckSetup, Factor!Look,
                Factor!codeVars, Factor!Rows
  <2>2. /\ op[h].at \in {"totp", "find", "confirm"}
        /\ \E label \in {"spend", "mark", "enable", "idle"} : Factor!Goto(h, label)
    BY <1>2 DEF Looking, Factor!CheckTotp, Factor!FindCode, Factor!CheckSetup, Factor!Look, Factor!At
  <2>3. PICK label \in {"spend", "mark", "enable", "idle"} : Went(h, label)
    BY <1>0, <2>2, Goes DEF Factor!Label
  <2>4. \A g \in Handler : Calm(g)
    BY <2>2, <2>3 DEF Went
  <2>. QED BY <2>1, <2>4, CodesStay
<1>3. ASSUME NEW h \in Handler,
             \/ Factor!IssueTicket(h) \/ Factor!PlainSession(h) \/ Factor!MarkUsed(h) \/ Factor!SpendPending(h)
             \/ Factor!DeleteSetup(h) \/ Factor!DeleteInvite(h)
      PROVE  FactorInv'
  <2>1. Factor!Rows' = Factor!Rows /\ secret' = secret /\ alone' = alone
    BY <1>3 DEF Factor!IssueTicket, Factor!PlainSession, Factor!MarkUsed, Factor!SpendPending,
                Factor!DeleteSetup, Factor!DeleteInvite, Factor!codeVars, Factor!Rows
  <2>2. /\ op[h].at \in {"hold", "invite", "plain", "mark", "spend", "delSetup", "delInvite"}
        /\ \E label \in {"idle", "spend", "open", "delInvite", "finish"} : Factor!Goto(h, label)
    BY <1>3 DEF Factor!IssueTicket, Factor!PlainSession, Factor!MarkUsed, Factor!SpendPending,
                Factor!DeleteSetup, Factor!DeleteInvite, Factor!At
  <2>3. PICK label \in {"idle", "spend", "open", "delInvite", "finish"} : Went(h, label)
    BY <1>0, <2>2, Goes DEF Factor!Label
  <2>4. \A g \in Handler : Calm(g)
    BY <2>2, <2>3 DEF Went
  <2>. QED BY <2>1, <2>4, CodesStay
<1>4. ASSUME NEW h \in Handler, Factor!OpenSession(h) \/ Factor!FinishSetup(h) PROVE FactorInv'
  <2>1. Factor!Rows' = Factor!Rows /\ secret' = secret /\ alone' = alone
    BY <1>4, OpensHolds DEF Factor!Rows
  <2>2. op[h].at \in {"open", "finish"} /\ Went(h, "idle")
    BY <1>4, OpensHolds DEF Factor!OpenSession, Factor!FinishSetup, Factor!At
  <2>3. \A g \in Handler : Calm(g)
    BY <2>2 DEF Went
  <2>. QED BY <2>1, <2>3, CodesStay
<1>5. CASE Factor!SetupFromSettings \/ Factor!SetupFromLogin \/ Factor!KeyExpires \/ UNCHANGED Factor!vars
  <2>1. op' = op /\ Factor!Rows' = Factor!Rows /\ secret' = secret /\ alone' = alone
    BY <1>5 DEF Factor!SetupFromSettings, Factor!SetupFromLogin, Factor!NewSecret, Factor!KeyExpires,
                Factor!vars, Factor!codeVars, Factor!Rows
  <2>2. \A g \in Handler : Calm(g)
    BY <2>1
  <2>. QED BY <2>1, <2>2, CodesStay
<1>. QED BY <1>1, <1>2, <1>3, <1>4, <1>5

\* The update of the account: it is alone when no other write has begun.
LEMMA WriteKeeps ==
    ASSUME FactorInv, HoldsInv, NEW h \in Handler, Factor!EnableFactor(h) \/ Factor!SwitchOff(h)
    PROVE  FactorInv'
<1>0. SUFFICES ASSUME alone' PROVE FactorInv'
  BY DEF FactorInv
<1>1. Factor!Writing = {} /\ alone' = (Factor!Writing = {})
  BY <1>0 DEF Factor!EnableFactor, Factor!SwitchOff, Factor!Write
<1>2. \/ Went(h, "clear") /\ secret' \in Secret
      \/ Went(h, "wipe") /\ secret' = None
  <2>1. CASE Factor!EnableFactor(h)
    <3>1. op[h].at = "enable" /\ Sound(h) /\ secret' = op[h].key /\ Factor!Goto(h, "clear")
      BY <2>1 DEF Factor!EnableFactor, Factor!Write, Factor!At, HoldsInv
    <3>2. Went(h, "clear")
      BY <3>1, Goes DEF HoldsInv, Factor!Label
    <3>. QED BY <3>1, <3>2 DEF Sound, Factor!RequestTyped
  <2>2. CASE Factor!SwitchOff(h)
    BY <2>2, Goes DEF Factor!SwitchOff, Factor!Write, HoldsInv, Factor!Label
  <2>. QED BY <2>1, <2>2
<1>3. \A g \in Handler : op'[g].at \in {"clear", "insert", "wipe"} <=> g = h
  BY <1>1, <1>2 DEF Went, Factor!Writing
<1>4. Factor!Writing' = {h}
  BY <1>3 DEF Factor!Writing
<1>5. \A g \in Handler : /\ Factor!At(g, "clear")' => Factor!Enabled'
                         /\ ~Factor!At(g, "insert")'
                         /\ Factor!At(g, "wipe")' => ~Factor!Enabled'
  BY <1>2, <1>3 DEF Went, Factor!At, Factor!Enabled
<1>. QED BY <1>4, <1>5 DEF FactorInv, Factor!FactorHasItsCodes

LEMMA ClearKeeps ==
    ASSUME FactorInv, HoldsInv, NEW h \in Handler, Factor!ClearCodes(h) \/ Factor!WipeCodes(h)
    PROVE  FactorInv'
<1>0. SUFFICES ASSUME alone' PROVE FactorInv'
  BY DEF FactorInv
<1>1. alone /\ Factor!Rows' = {} /\ secret' = secret
  BY <1>0 DEF Factor!ClearCodes, Factor!WipeCodes, Factor!Clear, Factor!Rows
<1>2. \/ op[h].at = "clear" /\ Went(h, "insert")
      \/ op[h].at = "wipe" /\ Went(h, "idle")
  BY Goes DEF Factor!ClearCodes, Factor!WipeCodes, Factor!Clear, Factor!At, HoldsInv, Factor!Label
<1>3. \A g \in Handler : g # h => op'[g].at = op[g].at /\ op[g].at \notin {"clear", "insert", "wipe"}
  BY <1>1, <1>2 DEF FactorInv, Factor!Writing, Went
<1>4. CASE op[h].at = "clear" /\ Went(h, "insert")
  <2>1. Factor!Enabled'
    BY <1>1, <1>4 DEF FactorInv, Factor!At, Factor!Enabled
  <2>2. Factor!Writing' = {h}
    BY <1>3, <1>4 DEF Factor!Writing, Went
  <2>. QED BY <1>1, <1>3, <1>4, <2>1, <2>2 DEF FactorInv, Factor!FactorHasItsCodes, Factor!At, Went
<1>5. CASE op[h].at = "wipe" /\ Went(h, "idle")
  <2>1. ~Factor!Enabled'
    BY <1>1, <1>5 DEF FactorInv, Factor!At, Factor!Enabled
  <2>2. \A g \in Handler : op'[g].at \notin {"clear", "insert", "wipe"}
    BY <1>3, <1>5 DEF Went, Factor!Idle
  <2>. QED BY <1>1, <2>1, <2>2 DEF FactorInv, Factor!FactorHasItsCodes, Factor!At, Factor!Writing
<1>. QED BY <1>2, <1>4, <1>5

LEMMA InsertKeeps ==
    ASSUME FactorInv, HoldsInv, NEW h \in Handler, Factor!InsertCodes(h)
    PROVE  FactorInv'
<1>0. SUFFICES ASSUME alone' PROVE FactorInv'
  BY DEF FactorInv
<1>1. PICK b \in Batch : /\ unused' = unused \union Factor!CodesOf(b) /\ UNCHANGED <<used, secret, alone>>
                         /\ op' = [op EXCEPT ![h].at = "delSetup", ![h].batch = b]
                         /\ op[h].at = "insert"
  BY DEF Factor!InsertCodes, Factor!At
<1>2. Factor!Enabled /\ Factor!Rows = {}
  BY <1>0, <1>1 DEF FactorInv, Factor!At
<1>3. \A g \in Handler : op'[g].at \notin {"clear", "insert", "wipe"}
  <2>1. \A g \in Handler : op'[g].at = IF g = h THEN "delSetup" ELSE op[g].at
    BY <1>1 DEF HoldsInv, Factor!RequestState
  <2>2. \A g \in Handler : g # h => op[g].at \notin {"clear", "insert", "wipe"}
    BY <1>0, <1>1 DEF FactorInv, Factor!Writing
  <2>. QED BY <2>1, <2>2
<1>4. Factor!Rows' = Factor!CodesOf(b) /\ Factor!Enabled'
  BY <1>1, <1>2 DEF Factor!Rows, Factor!Enabled
<1>. QED BY <1>3, <1>4 DEF FactorInv, Factor!FactorHasItsCodes, Factor!At, Factor!Writing

LEMMA FailKeeps ==
    ASSUME FactorInv, HoldsInv, NEW h \in Handler, Factor!RequestFails(h)
    PROVE  FactorInv'
<1>0. SUFFICES ASSUME alone' PROVE FactorInv'
  BY DEF FactorInv
<1>1. alone /\ h \notin Factor!Writing /\ Factor!Rows' = Factor!Rows /\ secret' = secret
  BY <1>0 DEF Factor!RequestFails, Factor!codeVars, Factor!Rows
<1>2. Went(h, "idle")
  BY Goes DEF Factor!RequestFails, HoldsInv, Factor!Label
<1>3. alone' = alone
  BY <1>0, <1>1 DEF HoldsInv, StoredTyped, Factor!RequestFails
<1>4. \A g \in Handler : \/ op'[g].at = op[g].at
                         \/ {op[g].at, op'[g].at} \intersect {"clear", "insert", "wipe"} = {}
  BY <1>1, <1>2 DEF Went, Factor!Writing, Factor!Idle
<1>. QED BY <1>1, <1>3, <1>4, CodesStay

(* Enabling and disabling the factor (confirm2FA, disable2FA) write the    *)
(* account and its codes in several calls; unless two of them overlap or   *)
(* one stops half way, an account with the factor has the codes of exactly *)
(* one draw, and one without has none.                                     *)
THEOREM CodesFollowTheFactor == AccountsSpec => []FactorHasItsCodes
<1> DEFINE Inv == part = "factor" => HoldsInv /\ FactorInv
<1>1. ASSUME Factor!Init PROVE FactorInv
  <2>1. \A h \in Handler : op[h].at = "idle"
    BY <1>1 DEF Factor!Init, Factor!Idle
  <2>2. Factor!Writing = {} /\ Factor!Rows = {} /\ ~Factor!Enabled
    BY <1>1, <2>1 DEF Factor!Init, Factor!Writing, Factor!Rows, Factor!Enabled
  <2>. QED BY <2>1, <2>2 DEF FactorInv, Factor!FactorHasItsCodes, Factor!At
<1>2. ASSUME FactorInv, HoldsInv, Factor!Next \/ UNCHANGED Factor!vars PROVE FactorInv'
  <2>1. CASE Factor!Next
    BY <1>2, <2>1, StepOf, AsideKeeps, WriteKeeps, ClearKeeps, InsertKeeps, FailKeeps
  <2>2. CASE UNCHANGED Factor!vars
    BY <1>2, <2>2, AsideKeeps
  <2>. QED BY <1>2, <2>1, <2>2
<1>3. AccountsInit => Inv
  BY <1>1, HoldsInit DEF AccountsInit
<1>4. Inv /\ [AccountsNext]_accountVars => Inv'
  BY <1>2, Steps, HoldsInductive
<1>5. Inv => FactorHasItsCodes
  BY DEF FactorInv, FactorHasItsCodes, Factor!FactorHasItsCodes
<1>. QED BY <1>3, <1>4, <1>5, PTL DEF AccountsSpec
=============================================================================
