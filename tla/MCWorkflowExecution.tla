------------------------ MODULE MCWorkflowExecution ------------------------
(* Small instances of WorkflowExecution for TLC. *)
EXTENDS WorkflowExecution, TLC

CONSTANTS r1, r2, r3, k1, k2, w1, w2

\* r1 and r2 repeat one trigger under one key; r3 is another trigger.
SharedKey == (r1 :> k1) @@ (r2 :> k1)
MixedKeys == SharedKey @@ (r3 :> k2)
OwnKeys   == (r1 :> k1) @@ (r3 :> k2)

\* A condition that may stop the run, one that only records, each before an action.
StopFirst   == <<"stop", "action">>
RecordFirst == <<"condition", "action">>

Symmetry == Permutations(Workers)

=============================================================================
