---------------------------- MODULE EventLedger ----------------------------
(***************************************************************************)
(* What the game integration promises about an event that is delivered     *)
(* again and again by whoever sends it: one copy of it is kept, and it is  *)
(* acknowledged only when the copy is there ("ingest an idempotent         *)
(* structured event", MEMORY.md).                                          *)
(***************************************************************************)
EXTENDS Naturals

CONSTANT Entries

VARIABLES copies, acked

Init ==
  /\ copies = [e \in Entries |-> 0]
  /\ acked = {}

Record(e) ==
  /\ copies[e] = 0
  /\ copies' = [copies EXCEPT ![e] = 1]
  /\ UNCHANGED acked

Acknowledge(e) ==
  /\ copies[e] = 1
  /\ acked' = acked \cup {e}
  /\ UNCHANGED copies

Next == \E e \in Entries : Record(e) \/ Acknowledge(e)

Spec == Init /\ [][Next]_<<copies, acked>>
============================================================================
