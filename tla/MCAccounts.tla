----------------------------- MODULE MCAccounts -----------------------------
(***************************************************************************)
(* A small instance of Accounts.                                           *)
(***************************************************************************)
EXTENDS Accounts

CONSTANTS root, ann, t1, t2

Everything ==
    {"login", "verify", "setup", "confirm", "disable", "change", "roles", "oauth", "complete"}
=============================================================================
