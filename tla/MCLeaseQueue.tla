---------------------------- MODULE MCLeaseQueue ----------------------------
(* Small instances of LeaseQueue for TLC. *)
EXTENDS LeaseQueue, TLC

CONSTANTS s1, s2, w1, w2, c1

\* Two runtimes of concurrency 1.
TwoRuntimes == (s1 :> w1) @@ (s2 :> w2)

\* The two runtimes may be exchanged with their slots.
Symmetry ==
    {p \in Permutations({s1, s2, w1, w2}) :
        \A s \in {s1, s2} : p[s] \in {s1, s2} /\ p[TwoRuntimes[s]] = TwoRuntimes[p[s]]}

AnyPoint == SlotStates \ {"idle"}

=============================================================================
