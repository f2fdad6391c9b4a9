----------------------------- MODULE MCSessions -----------------------------
(***************************************************************************)
(* Two accounts with at most one live session each, two logins at once and *)
(* two connections.                                                        *)
(***************************************************************************)
EXTENDS Sessions, TLC

CONSTANTS a1, a2, c1, c2, r1, r2, none

MCAccount == {a1, a2}
MCConnection == {c1, c2}
MCRequest == {r1, r2}

\* Accounts, connections and requests are interchangeable.
Symmetry ==
  Permutations(MCAccount) \cup Permutations(MCConnection) \cup Permutations(MCRequest)
=============================================================================
