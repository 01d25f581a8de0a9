---------------------------- MODULE LoginPromise ----------------------------
(***************************************************************************)
(* What the login calls of src/impl.go promise, without the table, the     *)
(* mutex or the clock: a login that was issued is open until its           *)
(* credential is handed over or the login is lost, and neither can be      *)
(* undone.  While it is open a credential may be proved for it, and a new  *)
(* attempt takes that credential back.                                     *)
(***************************************************************************)
EXTENDS Naturals

CONSTANTS Logins, Keys, NoKey

VARIABLES
    known,       \* logins ever issued
    open,        \* logins that can still be claimed
    credential,  \* what a claim would hand over now
    claims       \* how often a credential was handed over

promiseVars == <<known, open, credential, claims>>

PromiseInit ==
    /\ known = {}
    /\ open = {}
    /\ credential = [l \in Logins |-> NoKey]
    /\ claims = [l \in Logins |-> 0]

Issue(l) ==
    /\ l \in Logins \ known
    /\ known' = known \cup {l}
    /\ open' = open \cup {l}
    /\ UNCHANGED <<credential, claims>>

Prove(l, key) ==
    /\ l \in open
    /\ credential[l] = NoKey
    /\ credential' = [credential EXCEPT ![l] = key]
    /\ UNCHANGED <<known, open, claims>>

Retry(l) ==
    /\ l \in open
    /\ credential' = [credential EXCEPT ![l] = NoKey]
    /\ UNCHANGED <<known, open, claims>>

Claim(l) ==
    /\ l \in open
    /\ credential[l] # NoKey
    /\ open' = open \ {l}
    /\ credential' = [credential EXCEPT ![l] = NoKey]
    /\ claims' = [claims EXCEPT ![l] = @ + 1]
    /\ UNCHANGED known

\* One sweep may lose several logins.
Lose(S) ==
    /\ open' = open \ S
    /\ credential' = [l \in Logins |-> IF l \in S THEN NoKey ELSE credential[l]]
    /\ UNCHANGED <<known, claims>>

PromiseNext ==
    \/ \E l \in Logins : Issue(l) \/ Retry(l) \/ Claim(l) \/ \E key \in Keys : Prove(l, key)
    \/ \E S \in SUBSET open : Lose(S)

PromiseSpec == PromiseInit /\ [][PromiseNext]_promiseVars
=============================================================================
