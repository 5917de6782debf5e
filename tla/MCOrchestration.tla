--------------------------- MODULE MCOrchestration ---------------------------
(* Small instances of Orchestration for TLC. *)
EXTENDS Orchestration, TLC

CONSTANTS a, b, c, k1, k2

TwoKeys == (a :> k1) @@ (b :> k1) @@ (c :> k2)

\* Two executions and a third call of any kind.
ThirdAny   == (a :> {"execute"}) @@ (b :> {"execute"})
              @@ (c :> {"create", "execute", "recover", "resume"})

\* The two calls with the same key may be exchanged.
Symmetry == Permutations({a, b})

=============================================================================
