----------------------------- MODULE MCAccounts -----------------------------
(* Model values for Accounts and their symmetries.                           *)
EXTENDS Accounts, TLC

CONSTANTS a, b, c, t1, t2, t3, r1, r2

MCName == {a, b, c}
MCToken == {t1, t2, t3}
MCRequest == {r1, r2}

\* The two founders, the tokens and the requests are interchangeable.
MCSymmetry == Permutations({a, b}) \cup Permutations(MCToken) \cup Permutations(MCRequest)
=============================================================================
