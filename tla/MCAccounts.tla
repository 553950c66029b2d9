----------------------------- MODULE MCAccounts -----------------------------
(***************************************************************************)
(* An instance of Accounts for TLC: two browsers and two names.  The       *)
(* server starts with one name taken and one free, or each taken by one of *)
(* the browsers.                                                           *)
(***************************************************************************)
EXTENDS Accounts

CONSTANTS b1, b2, u1, u2

New(b) == [password |-> b, token |-> None]

MCStored ==
    {[u \in {u1, u2} |-> IF u = u1 THEN New(b1) ELSE None],
     [u \in {u1, u2} |-> IF u = u1 THEN New(b1) ELSE New(b2)]}
=============================================================================
