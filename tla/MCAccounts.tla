----------------------------- MODULE MCAccounts -----------------------------
(***************************************************************************)
(* Two users and two requests in progress: enough for requests that        *)
(* present the same token while a user is revoked, deactivated or deleted, *)
(* and for a second renewal of the same login; or two requests of one      *)
(* account: two set-ups, a set-up and a removal, or two verifications with *)
(* one code.  What each part permutes is interchangeable, and so is all    *)
(* the properties say of it; the parts share the values they permute, for  *)
(* the users of one are the tickets of the other, as its tokens are draws. *)
(***************************************************************************)
EXTENDS Accounts, TLC

MCInit ==
    /\ AccountsInit
    /\ part = "factor" \/ ~mandatory
MCSpec == MCInit /\ [][AccountsNext]_accountVars

Interchangeable ==
    Permutations(User) \union Permutations(Token) \union Permutations(Handler)
        \union Permutations(Secret)
=============================================================================
