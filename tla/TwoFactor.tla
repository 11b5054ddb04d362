----------------------------- MODULE TwoFactor -----------------------------
(***************************************************************************)
(* The second factor of one account: the logins it holds back, its set-up  *)
(* and removal, and the backup codes (auth.service.ts, the /2fa routes of  *)
(* auth.routes.ts and the two pages that set the factor up).               *)
(*                                                                         *)
(* The account's requests interleave at every awaited call of Redis or     *)
(* PostgreSQL.  A ticket is a random token with a key in Redis: that of a  *)
(* pending login waits for its second factor, that of an invited one must  *)
(* set it up first.  A six-digit code stands for the secret it comes from. *)
(***************************************************************************)
EXTENDS Naturals, FiniteSets

CONSTANTS
    Ticket,       \* twoFactorToken and setupToken values
    Secret,       \* TOTP secrets
    Batch,        \* draws of ten backup codes
    BatchSize,    \* codes in a draw (10)
    Handler,      \* requests that may be in progress at once
    None,         \* no ticket, no secret, no draw
    MaxFailures   \* bound: requests that end half way

TwoFactorAssumption ==
    /\ None \notin Ticket \union Secret \union Batch
    /\ BatchSize \in Nat \ {0}
    /\ IsFiniteSet(Handler)
    /\ MaxFailures \in Nat

VARIABLES
    \* PostgreSQL
    mandatory,  \* whether the account's role must have the factor; never changes
    secret,     \* twoFactorSecret; twoFactorEnabled is set and cleared with it
    unused,     \* rows of backup_codes without used_at
    used,       \* rows with used_at
    \* Redis
    pending,    \* tickets with a 2fa_pending key
    invited,    \* tickets with a 2fa_setup_required key
    setup,      \* the secret in the account's 2fa_setup key
    \* requests and pages
    op,         \* op[h]: [at, ticket, code, key, batch]
    signedIn,   \* whether the account has opened a session
    shown,      \* the draw that a page last showed the owner as his codes
    \* history and bounds, read by no action
    given,      \* tickets, secrets and draws made so far: each is random and new
    byCode,     \* byCode[c]: sessions opened with backup code c
    byTicket,   \* byTicket[t]: sessions opened with ticket t
    alone,      \* no request overlapped the last one that wrote the factor, and none failed
    failures

codeVars == <<unused, used>>
ticketVars == <<pending, invited>>
countVars == <<byCode, byTicket>>
vars == <<mandatory, secret, codeVars, ticketVars, setup, op, signedIn, shown, given,
          countVars, alone, failures>>

CodesOf(b) == {b} \X (1..BatchSize)

Code == Batch \X (1..BatchSize)

NoCode == <<None, 0>>

Rows == unused \union used

Enabled == secret # None

Idle == [at |-> "idle", ticket |-> None, code |-> NoCode, key |-> None, batch |-> None]

At(h, label) == op[h].at = label

Goto(h, label) ==
    op' = [op EXCEPT ![h] = IF label = "idle" THEN Idle ELSE [@ EXCEPT !.at = label]]

Start(h, label, t, c, k) ==
    /\ At(h, "idle")
    /\ op' = [op EXCEPT ![h] = [Idle EXCEPT !.at = label, !.ticket = t, !.code = c, !.key = k]]

\* Requests between their first write to the factor and their last to its codes.
Writing == {h \in Handler : op[h].at \in {"clear", "insert", "wipe"}}

Init ==
    /\ mandatory \in BOOLEAN
    /\ secret = None /\ unused = {} /\ used = {}
    /\ pending = {} /\ invited = {} /\ setup = None
    /\ op = [h \in Handler |-> Idle]
    /\ signedIn = FALSE /\ shown = None
    /\ given = {} /\ alone = TRUE /\ failures = 0
    /\ byCode = [c \in Code |-> 0] /\ byTicket = [t \in Ticket |-> 0]

----------------------------------------------------------------------------
(* Login.                                                                  *)

\* The password is right; the account as it was read decides what follows.
PasswordAccepted(h) ==
    /\ Start(h, IF Enabled THEN "hold" ELSE IF mandatory THEN "invite" ELSE "plain",
             None, NoCode, None)
    /\ UNCHANGED <<mandatory, secret, codeVars, ticketVars, setup, signedIn, shown, given,
                   countVars, alone, failures>>

\* SETEX of 2fa_pending or 2fa_setup_required, and the reply that carries the ticket.
IssueTicket(h) ==
    \E t \in Ticket \ given :
        /\ given' = given \union {t}
        /\ \/ At(h, "hold") /\ pending' = pending \union {t} /\ UNCHANGED invited
           \/ At(h, "invite") /\ invited' = invited \union {t} /\ UNCHANGED pending
        /\ Goto(h, "idle")
        /\ UNCHANGED <<mandatory, secret, codeVars, setup, signedIn, shown, countVars, alone,
                       failures>>

PlainSession(h) ==
    /\ At(h, "plain")
    /\ signedIn' = TRUE
    /\ Goto(h, "idle")
    /\ UNCHANGED <<mandatory, secret, codeVars, ticketVars, setup, shown, given, countVars,
                   alone, failures>>

----------------------------------------------------------------------------
(* The second step of a login.                                             *)

\* The GET of 2fa_pending in verifyTwoFactor and in verifyBackupCode.
Present(h, t, label, c, k) ==
    /\ t \in pending
    /\ Start(h, label, t, c, k)
    /\ UNCHANGED <<mandatory, secret, codeVars, ticketVars, setup, signedIn, shown, given,
                   countVars, alone, failures>>

VerifyTwoFactor(h, t, k) == Present(h, t, "totp", NoCode, k)

VerifyBackupCode(h, t, c) == Present(h, t, "find", c, None)

\* A request that reads and moves on, or is refused.
Look(h, at, ok, next) ==
    /\ At(h, at)
    /\ Goto(h, IF ok THEN next ELSE "idle")
    /\ UNCHANGED <<mandatory, secret, codeVars, ticketVars, setup, signedIn, shown, given,
                   countVars, alone, failures>>

CheckTotp(h) == Look(h, "totp", Enabled /\ op[h].key = secret, "spend")

\* Mutant: findMany without "usedAt: null".
FindCodeAny(h) == Look(h, "find", op[h].code \in Rows, "mark")

FindCode(h) == Look(h, "find", op[h].code \in unused, "mark")

\* Mutant: the row is read and never marked.
MarkUsedNot(h) == Look(h, "mark", op[h].code \in Rows, "spend")

\* The update by id: it does not look at usedAt again, and throws if the row is gone.
MarkUsed(h) ==
    LET c == op[h].code
    IN  /\ At(h, "mark")
        /\ IF c \in Rows
           THEN /\ unused' = unused \ {c}
                /\ used' = used \union {c}
                /\ Goto(h, "spend")
           ELSE UNCHANGED codeVars /\ Goto(h, "idle")
        /\ UNCHANGED <<mandatory, secret, ticketVars, setup, signedIn, shown, given, countVars,
                       alone, failures>>

SpendPending(h) ==
    /\ At(h, "spend")
    /\ pending' = pending \ {op[h].ticket}
    /\ Goto(h, "open")
    /\ UNCHANGED <<mandatory, secret, codeVars, invited, setup, signedIn, shown, given,
                   countVars, alone, failures>>

Opens(h) ==
    /\ byTicket' = [byTicket EXCEPT ![op[h].ticket] = @ + 1]
    /\ signedIn' = TRUE
    /\ Goto(h, "idle")
    /\ UNCHANGED <<mandatory, secret, codeVars, ticketVars, setup, given, alone, failures>>

\* _createTokenPair at the end of both verifications.
OpenSession(h) ==
    /\ At(h, "open")
    /\ Opens(h)
    /\ byCode' = IF op[h].code = NoCode THEN byCode
                 ELSE [byCode EXCEPT ![op[h].code] = @ + 1]
    /\ UNCHANGED shown

----------------------------------------------------------------------------
(* Set-up.                                                                 *)

\* setup2FA.  Of its awaits only the SETEX of 2fa_setup changes what others read: the
\* preview it stores beside is only ever deleted.
NewSecret ==
    /\ \E s \in Secret \ given : setup' = s
    /\ UNCHANGED <<mandatory, secret, codeVars, ticketVars, op, signedIn, countVars, alone,
                   failures>>

\* The settings page shows the draw that came with the QR code.
SetupFromSettings ==
    /\ signedIn
    /\ NewSecret
    /\ \E b \in Batch \ given : shown' = b /\ given' = given \union {setup', b}

\* The login page (/2fa/setup-start) shows the QR code alone.
SetupFromLogin ==
    /\ invited # {}
    /\ NewSecret
    /\ given' = given \union {setup'}
    /\ UNCHANGED shown

BeginConfirm(h, t, k) ==
    /\ Start(h, "confirm", t, NoCode, k)
    /\ UNCHANGED <<mandatory, secret, codeVars, ticketVars, setup, signedIn, shown, given,
                   countVars, alone, failures>>

ConfirmFromSettings(h, k) == signedIn /\ BeginConfirm(h, None, k)

\* /2fa/setup-finish.
ConfirmFromLogin(h, t, k) == t \in invited /\ BeginConfirm(h, t, k)

CheckSetup(h) == Look(h, "confirm", op[h].key = setup, "enable")

\* The update of the account, from here on confirm2FA is writing.
Write(h, s, next) ==
    /\ secret' = s
    /\ alone' = (Writing = {})
    /\ Goto(h, next)
    /\ UNCHANGED <<mandatory, codeVars, ticketVars, setup, signedIn, shown, given, countVars,
                   failures>>

EnableFactor(h) == At(h, "enable") /\ Write(h, op[h].key, "clear")

Clear(h, next) ==
    /\ unused' = {} /\ used' = {}
    /\ Goto(h, next)
    /\ UNCHANGED <<mandatory, secret, ticketVars, setup, signedIn, shown, given, countVars,
                   alone, failures>>

\* Mutant: generateBackupCodes deletes only the codes that were used.
ClearCodesUsed(h) ==
    /\ At(h, "clear")
    /\ used' = {}
    /\ Goto(h, "insert")
    /\ UNCHANGED <<mandatory, secret, unused, ticketVars, setup, signedIn, shown, given,
                   countVars, alone, failures>>

\* generateBackupCodes: deleteMany, ten hashes later createMany.
ClearCodes(h) == At(h, "clear") /\ Clear(h, "insert")

InsertCodes(h) ==
    /\ At(h, "insert")
    /\ \E b \in Batch \ given :
           /\ given' = given \union {b}
           /\ unused' = unused \union CodesOf(b)
           /\ op' = [op EXCEPT ![h].at = "delSetup", ![h].batch = b]
    /\ UNCHANGED <<mandatory, secret, used, ticketVars, setup, signedIn, shown, countVars,
                   alone, failures>>

\* The end of confirm2FA.  The settings page makes nothing of the codes in the reply.
DeleteSetup(h) ==
    /\ At(h, "delSetup")
    /\ setup' = None
    /\ Goto(h, IF op[h].ticket = None THEN "idle" ELSE "delInvite")
    /\ UNCHANGED <<mandatory, secret, codeVars, ticketVars, signedIn, shown, given, countVars,
                   alone, failures>>

DeleteInvite(h) ==
    /\ At(h, "delInvite")
    /\ invited' = invited \ {op[h].ticket}
    /\ Goto(h, "finish")
    /\ UNCHANGED <<mandatory, secret, codeVars, pending, setup, signedIn, shown, given,
                   countVars, alone, failures>>

\* The login page shows the codes of the reply.
FinishSetup(h) ==
    /\ At(h, "finish")
    /\ Opens(h)
    /\ shown' = op[h].batch
    /\ UNCHANGED byCode

----------------------------------------------------------------------------
(* Removal, time and failures.                                             *)

\* disable2FA, asked for by the owner (with his password) or by a super administrator.
Disable(h) ==
    /\ Start(h, "off", None, NoCode, None)
    /\ UNCHANGED <<mandatory, secret, codeVars, ticketVars, setup, signedIn, shown, given,
                   countVars, alone, failures>>

SwitchOff(h) == At(h, "off") /\ Write(h, None, "wipe")

WipeCodes(h) == At(h, "wipe") /\ Clear(h, "idle")

\* A key of Redis reaches its time to live (five and ten minutes).
KeyExpires ==
    /\ \/ setup # None /\ setup' = None /\ UNCHANGED ticketVars
       \/ \E t \in pending \union invited :
              pending' = pending \ {t} /\ invited' = invited \ {t} /\ UNCHANGED setup
    /\ UNCHANGED <<mandatory, secret, codeVars, op, signedIn, shown, given, countVars, alone,
                   failures>>

RequestFails(h) ==
    /\ ~At(h, "idle")
    /\ failures < MaxFailures
    /\ failures' = failures + 1
    /\ alone' = (alone /\ h \notin Writing)
    /\ Goto(h, "idle")
    /\ UNCHANGED <<mandatory, secret, codeVars, ticketVars, setup, signedIn, shown, given,
                   countVars>>

----------------------------------------------------------------------------
\* The secrets that an authenticator application can hold; a wrong code is one of another.
Scanned == Secret \intersect given

LoginStep(h) ==
    \/ PasswordAccepted(h) \/ IssueTicket(h) \/ PlainSession(h)
    \/ \E t \in Ticket, k \in Scanned : VerifyTwoFactor(h, t, k)
    \/ \E t \in Ticket, c \in Code : VerifyBackupCode(h, t, c)
    \/ CheckTotp(h) \/ FindCode(h) \/ MarkUsed(h) \/ SpendPending(h) \/ OpenSession(h)

FactorStep(h) ==
    \/ \E k \in Scanned : ConfirmFromSettings(h, k)
    \/ \E t \in Ticket, k \in Scanned : ConfirmFromLogin(h, t, k)
    \/ CheckSetup(h) \/ EnableFactor(h) \/ ClearCodes(h) \/ InsertCodes(h)
    \/ DeleteSetup(h) \/ DeleteInvite(h) \/ FinishSetup(h)
    \/ Disable(h) \/ SwitchOff(h) \/ WipeCodes(h)

Next ==
    \/ \E h \in Handler : LoginStep(h) \/ FactorStep(h) \/ RequestFails(h)
    \/ SetupFromSettings \/ SetupFromLogin
    \/ KeyExpires

Spec == Init /\ [][Next]_vars

----------------------------------------------------------------------------
(* Properties.                                                             *)

Label == {"idle", "hold", "invite", "plain", "totp", "find", "mark", "spend", "open",
          "confirm", "enable", "clear", "insert", "delSetup", "delInvite", "finish", "off",
          "wipe"}

RequestState ==
    [at : Label, ticket : Ticket \union {None}, code : Code \union {NoCode},
     key : Secret \union {None}, batch : Batch \union {None}]

\* What a request has made sure of by the await it has reached.
RequestTyped(h) ==
    /\ op[h].at \in {"totp", "find", "spend", "open", "delInvite", "finish"}
           => op[h].ticket \in Ticket
    /\ op[h].at \in {"find", "mark"} => op[h].code \in Code
    /\ op[h].at \in {"spend", "open"} => op[h].code \notin unused
    /\ op[h].at \in {"totp", "confirm", "enable"} => op[h].key \in Secret
    /\ op[h].at = "open" => op[h].ticket \notin pending
    /\ op[h].at = "finish" => op[h].ticket \notin invited

(* Types, and the order of a verification: the code is spent before the    *)
(* ticket, and the ticket before the session opens.                        *)
TypeOK ==
    /\ mandatory \in BOOLEAN /\ signedIn \in BOOLEAN /\ alone \in BOOLEAN
    /\ secret \in Secret \union {None} /\ setup \in Secret \union {None}
    /\ unused \subseteq Code /\ used \subseteq Code
    /\ pending \subseteq Ticket /\ invited \subseteq Ticket
    /\ shown \in Batch \union {None}
    /\ given \subseteq Ticket \union Secret \union Batch
    /\ op \in [Handler -> RequestState]
    /\ \A h \in Handler : RequestTyped(h)
    /\ byCode \in [Code -> Nat] /\ byTicket \in [Ticket -> Nat]
    /\ failures \in Nat

(* "Mark as used (one-time)": a backup code opens one session.             *)
BackupCodeOneTime == \A c \in Code : byCode[c] <= 1

(* What the code does guarantee of a backup code and of a ticket: they     *)
(* open no more sessions than there were requests in progress, whatever    *)
(* is tried later, since only requests that looked before the mark (or     *)
(* the deletion) get through.                                              *)
OpensBoundedByOverlap ==
    /\ \A c \in Code : byCode[c] <= Cardinality(Handler)
    /\ \A t \in Ticket : byTicket[t] <= Cardinality(Handler)

(* Unless set-ups and removals overlap or stop half way, an account with   *)
(* the factor has the codes of exactly one draw, and one without has none. *)
FactorHasItsCodes ==
    alone /\ Writing = {} =>
        IF Enabled THEN \E b \in Batch : Rows = CodesOf(b) ELSE Rows = {}

(* "Pre-generate backup codes but DON'T save yet (save on confirm)"        *)
(* (setup2FA): once a set-up that nothing disturbed is over, the codes its *)
(* owner was shown are codes of the account.                               *)
ShownCodesAreSaved ==
    /\ alone /\ Enabled /\ shown # None
    /\ \A h \in Handler : At(h, "idle")
    => CodesOf(shown) \subseteq Rows
=============================================================================
