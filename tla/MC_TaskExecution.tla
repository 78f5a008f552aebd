-------------------------- MODULE MC_TaskExecution --------------------------
(***************************************************************************)
(* Instances of TaskExecution: two tasks at a time over two agents, one of *)
(* which offers a model, and two tasks over a single agent.                *)
(***************************************************************************)
EXTENDS TaskExecution, TLC

CONSTANTS w1, w2, x, y, m

MCTarget    == {<<x, NoModel>>, <<y, m>>}
MCOneTarget == {<<y, m>>}

Symmetry == Permutations({w1, w2})
=============================================================================
