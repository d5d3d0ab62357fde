------------------------ MODULE MCInferenceGateway ------------------------
(* Instances of InferenceGateway for TLC. *)
EXTENDS InferenceGateway, TLC

CONSTANTS c1, c2, w1, w2, t1, t2, A, B

OneWorker == {w1}
TwoWorkers == {w1, w2}
OneClient == {c1}
TwoClients == {c1, c2}
OneReload == {t1}
TwoModels == {A, B}
NoReload == {}
EveryGate == Gates
StartGates == Workers

Symmetric == Permutations(TwoModels) \cup Permutations(TwoClients)
============================================================================
