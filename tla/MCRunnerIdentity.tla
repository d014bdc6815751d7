-------------------------- MODULE MCRunnerIdentity --------------------------
(* One user controls the installation, the other does not; GitHub lists one of
   the two repositories in it. *)
EXTENDS RunnerIdentity, TLC

CONSTANTS i1, g1, u1, u2

MCControls == u1 :> {i1} @@ u2 :> {}
MCCovers == i1 :> {g1}
MCSymmetry == Permutations(Codes) \union Permutations(States)
              \union Permutations(Runners) \union Permutations(Requests)

\* Bounds: people sign in while no runner holds a lease or makes a request, and
\* while a code that may still be approved or exchanged is left; one runner
\* rotates its credential.
MCBound ==
    /\ (\E u \in Users : callback[u] # None \/ signIn[u] # None \/ binding[u] # None) =>
           /\ \A n \in Runners : lease[n] = None
           /\ \A q \in Requests : requests[q] = None
           /\ \E c \in Codes : codes[c] = None \/ (Fresh(codes[c]) /\ ~codes[c].exchanged)
    /\ Cardinality({n \in Runners : runners[n] # None /\ runners[n].credential > 1}) < 2
=============================================================================
