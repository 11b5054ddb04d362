------------------------------ MODULE Accounts ------------------------------
(***************************************************************************)
(* The two modules about signing in: the refresh tokens of all the users   *)
(* and the second factor of one account.  The sessions that the factor     *)
(* lets in are logins to Sessions, and neither touches what the other      *)
(* keeps, so each runs in a part of its own.                               *)
(***************************************************************************)
EXTENDS Sessions

CONSTANTS
    Ticket, Secret, Batch, BatchSize, None   \* of TwoFactor

VARIABLES
    part,   \* which of the two runs
    mandatory, secret, unused, used, pending, invited, setup, op, signedIn, shown, given,
    byCode, byTicket, alone

Factor == INSTANCE TwoFactor

ASSUME AccountsAssumption == Factor!TwoFactorAssumption

tokens == <<tokenVars, userVars, handler, endings>>
factor == <<mandatory, secret, unused, used, pending, invited, setup, op, signedIn, shown, given,
            byCode, byTicket, alone>>
accountVars == <<part, vars, factor>>

AccountsInit == part \in {"tokens", "factor"} /\ Init /\ Factor!Init

AccountsNext ==
    /\ UNCHANGED part
    /\ \/ part = "tokens" /\ Next /\ UNCHANGED factor
       \/ part = "factor" /\ Factor!Next /\ UNCHANGED tokens

AccountsSpec == AccountsInit /\ [][AccountsNext]_accountVars

----------------------------------------------------------------------------
(* The properties of Sessions, which its part runs, and those of TwoFactor *)
(* in the other.                                                           *)

(* The types of the second factor, and the order of a verification
   (auth.service.ts, verifyTwoFactor and verifyBackupCode). *)
FactorTypeOK == part = "factor" => Factor!TypeOK

(* A code or a ticket opens no more sessions than there were requests in
   progress (auth.service.ts, verifyBackupCode). *)
OpensBoundedByOverlap == part = "factor" => Factor!OpensBoundedByOverlap

(* An account with the factor has the codes of one draw, one without has
   none (auth.service.ts, confirm2FA and disable2FA). *)
FactorHasItsCodes == part = "factor" => Factor!FactorHasItsCodes

(* A backup code opens one session (auth.service.ts, verifyBackupCode). *)
BackupCodeOneTime == part = "factor" => Factor!BackupCodeOneTime

(* The codes a page showed are codes of the account (auth.service.ts,
   setup2FA). *)
ShownCodesAreSaved == part = "factor" => Factor!ShownCodesAreSaved
=============================================================================
