-------------------------- MODULE ExclusiveBackend --------------------------
(***************************************************************************)
(* What the gateway promises about one single-GPU backend: at most one     *)
(* model is resident, at most one response is in progress, and models are  *)
(* ordered in and out of the card only between responses.                  *)
(***************************************************************************)
CONSTANTS Calls, Models

VARIABLES
  resident,    \* models that occupy the card
  condemned,   \* those that have been ordered to leave it
  serving      \* pairs <<call, model>> of the responses in progress

vars == <<resident, condemned, serving>>

Init == resident = {} /\ condemned = {} /\ serving = {}

(* A load is ordered only into an empty card, and not under a response. *)
Load(m) ==
  /\ resident = {} /\ serving = {}
  /\ resident' = {m}
  /\ UNCHANGED <<condemned, serving>>

(* An unload is ordered only between responses. *)
Condemn(m) ==
  /\ m \in resident \ condemned /\ serving = {}
  /\ condemned' = condemned \cup {m}
  /\ UNCHANGED <<resident, serving>>

(* The model leaves the card: it was ordered to, failed to load, or crashed. *)
Lose(m) ==
  /\ m \in resident
  /\ resident' = resident \ {m}
  /\ condemned' = condemned \ {m}
  /\ UNCHANGED serving

Begin(c, m) ==
  /\ serving = {}
  /\ serving' = {<<c, m>>}
  /\ UNCHANGED <<resident, condemned>>

End ==
  /\ serving # {}
  /\ serving' = {}
  /\ UNCHANGED <<resident, condemned>>

Next ==
  \/ \E m \in Models : Load(m) \/ Condemn(m) \/ Lose(m)
  \/ \E c \in Calls, m \in Models : Begin(c, m)
  \/ End

Spec == Init /\ [][Next]_vars
============================================================================
