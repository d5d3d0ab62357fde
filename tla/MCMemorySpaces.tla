--------------------------- MODULE MCMemorySpaces ---------------------------
(* One principal with a personal and two game spaces, which may share a world. *)
EXTENDS MemorySpaces, TLC

CONSTANTS d1, d2, r1, g1, g2, w1, w2

GameToPersonal == {<<"game", "personal">>}
Configurations == {[bridges |-> b, allow |-> GameToPersonal] : b \in BOOLEAN}
With(some, registrations, bound) ==
  [callers |-> some, registered |-> registrations, faults |-> bound]

Moving == {<<g1, w1>>, <<g1, w2>>}
Sharing == {<<g1, w1>>, <<g2, w1>>}
Present ==
  {With({d1, d2}, Moving, 2), With({d1, r1, Owner}, Moving, 1), With({d1, d2}, Sharing, 0),
   With({d1, r1, Owner}, Sharing, 0), With({Prober}, {}, 3)}
=============================================================================
