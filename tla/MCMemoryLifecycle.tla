------------------------- MODULE MCMemoryLifecycle -------------------------
(* Instances of MemoryLifecycle for TLC. *)
EXTENDS MemoryLifecycle, TLC

CONSTANTS u1, u2, w1, p1, f1, i1

TwoUsers == {u1, u2}
OneWorker == {w1}
OneProposal == {p1}
OneCapture == {f1}
OneImport == {i1}
Nothing == {}

(* Bound: a behaviour that reviews a proposal runs no import.  Proposals and
   automatic capture exclude each other already (mode). *)
OneKind ==
  \/ \A p \in Proposals : state[p] = "absent"
  \/ \A i \in Imports : store[i] = "none" /\ ref[i] = "none" /\ i \notin {target[u] : u \in Users}

Symmetric == Permutations(TwoUsers)
============================================================================
