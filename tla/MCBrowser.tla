------------------------------ MODULE MCBrowser ------------------------------
(***************************************************************************)
(* Two tabs of one user's browser: enough for renewals that race for the   *)
(* cookie while a login, a logout or a revocation overtakes their replies. *)
(***************************************************************************)
EXTENDS Browser, TLC

Interchangeable == Permutations(Token) \union Permutations(Handler) \union Permutations(Tab)

\* swept is history of Sessions that no action and no property of this module reads.
WithoutSwept ==
    <<rows, expired, issued, origin, owner, active, deleted, handler, failures, revoked,
      storageVars, wire, historyVars>>
=============================================================================
