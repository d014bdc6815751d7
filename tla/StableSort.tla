----------------------------- MODULE StableSort -----------------------------
(***************************************************************************)
(* Python's sorted (external): stable, so that elements neither of which   *)
(* goes before the other keep their order.                                 *)
(***************************************************************************)
EXTENDS Naturals, FiniteSets

\* Where the i-th element of s goes: after all that go before it.
PlaceOf(s, i, before(_, _)) ==
    1 + Cardinality({k \in DOMAIN s : before(s[k], s[i]) \/ (~before(s[i], s[k]) /\ k < i)})

Sorted(s, before(_, _)) ==
    [m \in DOMAIN s |-> s[CHOOSE i \in DOMAIN s : PlaceOf(s, i, before) = m]]
=============================================================================
