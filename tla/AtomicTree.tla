------------------------------ MODULE AtomicTree ------------------------------
(***************************************************************************)
(* What the artifact transaction promises to everybody who reads the       *)
(* generated tree (tooling/artifact-transactions/v1/README.md, Recovery    *)
(* rule): the tree changes only from the complete prior state of an        *)
(* authorized plan to its complete next state, whoever stops and whatever  *)
(* throws in between.  One thing is outside the promise: a change that was *)
(* committed may fail afterwards.  Then each path holds its old file, its  *)
(* new one or none, until one of the two complete states stands again.     *)
(***************************************************************************)
CONSTANTS
  Plans,        \* records [prior, next] of complete trees
  InitialTree,
  Absent        \* the state of a path that has no file

VARIABLES
  tree,     \* the tree a reader may rely on
  failing   \* whether the last change failed after its commit

vars == <<tree, failing>>

Init == tree = InitialTree /\ failing = FALSE

Commit(p) ==
  /\ ~failing /\ tree = p.prior
  /\ tree' = p.next
  /\ UNCHANGED failing

Fail(p) ==
  /\ ~failing /\ tree = p.next
  /\ failing' = TRUE
  /\ UNCHANGED tree

Undo(p) ==
  /\ failing
  /\ \A i \in DOMAIN p.next : tree'[i] \in {p.prior[i], p.next[i], Absent}
  /\ UNCHANGED failing

Settle(p) ==
  /\ failing /\ tree \in {p.prior, p.next}
  /\ failing' = FALSE
  /\ UNCHANGED tree

Next == \E p \in Plans : Commit(p) \/ Fail(p) \/ Undo(p) \/ Settle(p)

Spec == Init /\ [][Next]_vars
==============================================================================
