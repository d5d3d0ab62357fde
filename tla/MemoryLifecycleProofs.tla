----------------------- MODULE MemoryLifecycleProofs -----------------------
(***************************************************************************)
(* Personal memory for any numbers of calls, capture workers, proposals,   *)
(* captured texts and imported records: types, the text of discarded       *)
(* proposals, the references of approved ones, forgotten records, and, for *)
(* a single worker, the tombstones of purged captures.  The last section   *)
(* proves what it takes to keep three promises that the code does not:     *)
(* rejected proposals are not recalled, purged ones have no text, purged   *)
(* captures stay purged.                                                   *)
(***************************************************************************)
EXTENDS MemoryLifecycle, TLAPS

USE ConstantsAssumption

AddPlaces == {"check", "recheck", "lookup", "ingest", "link"}

(* A call that stores or refers to a record has one, and an approval that is
   about to settle its proposal has seen to its reference. *)
PlacedOK ==
  \A c \in Callers :
    /\ pc[c] \in AddPlaces => target[c] \in Records
    /\ pc[c] = "settle" => target[c] \in Proposals /\ ref[target[c]] # "none"

Inv == TypeOK /\ PlacedOK /\ DiscardedTextGone /\ ApprovalIsBacked

LEMMA InitInv == Init => Inv
  BY DEF Init, Inv, TypeOK, CallStates, PlacedOK, AddPlaces, DiscardedTextGone,
       ApprovalIsBacked, Callers

(* A step that changes none of the variables keeps the invariant. *)
LEMMA StutterInv == Inv /\ UNCHANGED vars => Inv'
  BY DEF vars, callVars, proposalVars, refVars, captureVars, Inv, TypeOK, PlacedOK,
       DiscardedTextGone, ApprovalIsBacked

(* The queue and the extraction. *)
LEMMA WorkerInv ==
  ASSUME Inv, NEW w \in Workers, WorkerStep(w)
  PROVE  Inv'
<1> USE DEF callVars, proposalVars, refVars, captureVars, Goto, Begin
<1>1. CASE Enqueue(w) \/ Take(w) \/ Extracted(w) \/ Stop(w)
  <2>1. TypeOK'
    <3>1. w \in Callers
      BY DEF Callers
    <3>2. CASE Enqueue(w)
      BY <3>1, <3>2 DEF Enqueue, Inv, TypeOK
    <3>3. CASE Take(w)
      <4>1. queue' \in [Workers -> 0..QueueSize]
        BY <3>3 DEF Take, Inv, TypeOK
      <4>2. pc' \in [Callers -> CallStates]
        BY <3>1, <3>3 DEF Take, Inv, TypeOK, CallStates
      <4>3. QED
        BY <3>3, <4>1, <4>2 DEF Take, Inv, TypeOK
    <3>4. CASE Extracted(w)
      BY <3>1, <3>4 DEF Extracted, Inv, TypeOK, CallStates
    <3>5. CASE Stop(w)
      <4>1. queue' \in [Workers -> 0..QueueSize]
        BY <3>5 DEF Stop, Inv, TypeOK
      <4>2. pc' \in [Callers -> CallStates] /\ target' \in [Callers -> Records \cup {None}]
        BY <3>1, <3>5 DEF Stop, Inv, TypeOK, CallStates
      <4>3. QED
        BY <3>5, <4>1, <4>2 DEF Stop, Inv, TypeOK
    <3>6. QED
      BY <1>1, <3>2, <3>3, <3>4, <3>5
  <2>2. PlacedOK' /\ DiscardedTextGone' /\ ApprovalIsBacked'
    BY <1>1 DEF Enqueue, Take, Extracted, Stop, Inv, TypeOK, Callers, PlacedOK, AddPlaces,
         DiscardedTextGone, ApprovalIsBacked
  <2>3. QED
    BY <2>1, <2>2 DEF Inv
<1>2. CASE \E p \in Proposals : Propose(w, p)
  <2>1. PICK p \in Proposals : Propose(w, p)
    BY <1>2
  <2>2. QED
    BY <2>1 DEF Propose, Inv, TypeOK, PlacedOK, DiscardedTextGone, ApprovalIsBacked
<1>3. CASE \E i \in Captures : Capture(w, i)
  <2>1. PICK i \in Captures : Capture(w, i)
    BY <1>3
  <2>2. TypeOK'
    BY <2>1 DEF Capture, Inv, TypeOK, CallStates, Callers, Records
  <2>3. PlacedOK' /\ DiscardedTextGone' /\ ApprovalIsBacked'
    BY <2>1 DEF Capture, Inv, TypeOK, Callers, Records, PlacedOK, AddPlaces,
         DiscardedTextGone, ApprovalIsBacked
  <2>4. QED
    BY <2>2, <2>3 DEF Inv
<1>4. QED
  BY <1>1, <1>2, <1>3 DEF WorkerStep

(* Storing a record and its reference, for whoever does it. *)
LEMMA AddInv ==
  ASSUME Inv, NEW c \in Callers, AddStep(c) \/ Fail(c)
  PROVE  Inv'
<1> USE DEF callVars, proposalVars, refVars, captureVars, Goto, End
<1>1. Done(c) \in {"extract", "idle"}
  BY DEF Done
<1>2. CASE Check(c) \/ Recheck(c) \/ Lookup(c)
  <2>1. TypeOK'
    <3>1. pc' \in [Callers -> CallStates]
      <4>1. PICK next \in CallStates : pc' = [pc EXCEPT ![c] = next]
        BY <1>1, <1>2 DEF Check, Recheck, Lookup, CallStates
      <4>2. QED
        BY <4>1 DEF Inv, TypeOK
    <3>2. target' \in [Callers -> Records \cup {None}]
      BY <1>2 DEF Check, Recheck, Lookup, Inv, TypeOK
    <3>3. QED
      BY <1>2, <3>1, <3>2 DEF Check, Recheck, Lookup, Inv, TypeOK
  <2>2. PlacedOK' /\ DiscardedTextGone' /\ ApprovalIsBacked'
    BY <1>1, <1>2 DEF Check, Recheck, Lookup, Inv, TypeOK, PlacedOK, AddPlaces,
         DiscardedTextGone, ApprovalIsBacked
  <2>3. QED
    BY <2>1, <2>2 DEF Inv
<1>3. CASE Ingest(c)
  <2>1. TypeOK'
    BY <1>3 DEF Ingest, Inv, TypeOK, CallStates
  <2>2. PlacedOK' /\ DiscardedTextGone' /\ ApprovalIsBacked'
    BY <1>3 DEF Ingest, Inv, TypeOK, PlacedOK, AddPlaces, DiscardedTextGone, ApprovalIsBacked
  <2>3. QED
    BY <2>1, <2>2 DEF Inv
<1>4. CASE Link(c)
  <2>1. target[c] \in Records
    BY <1>4 DEF Link, End, Inv, PlacedOK, AddPlaces
  <2>2. TypeOK'
    <3>1. pc' \in [Callers -> CallStates] /\ target' \in [Callers -> Records \cup {None}]
      <4>1. PICK next \in CallStates, to \in {None, target[c]} :
              pc' = [pc EXCEPT ![c] = next] /\ target' = [target EXCEPT ![c] = to]
        BY <1>1, <1>4 DEF Link, Inv, TypeOK, CallStates
      <4>2. QED
        BY <4>1 DEF Inv, TypeOK
    <3>2. /\ ref' \in [Records -> {"none", "active", "forgotten", "purged"}]
          /\ keyed' \in [Records -> BOOLEAN]
      <4>1. \/ UNCHANGED refVars
            \/ /\ ref' = [ref EXCEPT ![target[c]] = "active"]
               /\ keyed' = [keyed EXCEPT ![target[c]] = TRUE]
        BY <1>4 DEF Link, AddRef
      <4>2. /\ ref \in [Records -> {"none", "active", "forgotten", "purged"}]
            /\ keyed \in [Records -> BOOLEAN]
        BY DEF Inv, TypeOK
      <4>3. CASE UNCHANGED refVars
        BY <4>2, <4>3
      <4>4. CASE /\ ref' = [ref EXCEPT ![target[c]] = "active"]
                 /\ keyed' = [keyed EXCEPT ![target[c]] = TRUE]
        BY <4>2, <4>4
      <4>5. QED
        BY <4>1, <4>3, <4>4
    <3>3. QED
      BY <1>4, <3>1, <3>2 DEF Link, Inv, TypeOK
  <2>3. \A i \in Records : ref[i] # "none" \/ i = target[c] => ref'[i] # "none"
    BY <1>4, <2>1 DEF Link, AddRef, Inv, TypeOK
  <2>4. PlacedOK' /\ DiscardedTextGone' /\ ApprovalIsBacked'
    BY <1>1, <1>4, <2>1, <2>3 DEF Link, Inv, TypeOK, PlacedOK, AddPlaces, DiscardedTextGone,
         ApprovalIsBacked, Records
  <2>5. QED
    BY <2>2, <2>4 DEF Inv
<1>5. CASE Fail(c)
  BY <1>5 DEF Fail, Inv, TypeOK, CallStates, PlacedOK, AddPlaces, DiscardedTextGone,
       ApprovalIsBacked
<1>6. QED
  BY <1>2, <1>3, <1>4, <1>5 DEF AddStep

(* A user's review of a proposal and listing of the records. *)
LEMMA ReviewInv ==
  ASSUME Inv, NEW u \in Users,
         \/ \E p \in Proposals : Approve(u, p)
         \/ \E i \in Imports : Import(u, i)
         \/ Settle(u) \/ ListRecords(u) \/ ListRefs(u) \/ Adopt(u) \/ Listed(u)
  PROVE  Inv'
<1> USE DEF callVars, proposalVars, refVars, captureVars, Goto, Begin, End
<1>1. u \in Callers /\ u \notin Workers
  BY DEF Callers
<1>2. Done(u) = "idle"
  BY <1>1 DEF Done
<1>3. ASSUME NEW p \in Proposals, Approve(u, p)
      PROVE  Inv'
  <2>1. TypeOK'
    BY <1>1, <1>3 DEF Approve, Inv, TypeOK, CallStates, Records
  <2>2. PlacedOK' /\ DiscardedTextGone' /\ ApprovalIsBacked'
    BY <1>1, <1>3 DEF Approve, Inv, TypeOK, PlacedOK, AddPlaces, DiscardedTextGone,
         ApprovalIsBacked, Records
  <2>3. QED
    BY <2>1, <2>2 DEF Inv
<1>4. ASSUME NEW i \in Imports, Import(u, i)
      PROVE  Inv'
  <2>1. TypeOK'
    BY <1>1, <1>4 DEF Import, Inv, TypeOK, CallStates, Records
  <2>2. PlacedOK' /\ DiscardedTextGone' /\ ApprovalIsBacked'
    BY <1>1, <1>4 DEF Import, Inv, TypeOK, PlacedOK, AddPlaces, DiscardedTextGone,
         ApprovalIsBacked, Records
  <2>3. QED
    BY <2>1, <2>2 DEF Inv
<1>5. CASE Settle(u)
  <2>1. target[u] \in Proposals /\ ref[target[u]] # "none"
    BY <1>1, <1>5 DEF Settle, Inv, PlacedOK
  <2>2. TypeOK'
    BY <1>1, <1>2, <1>5, <2>1 DEF Settle, Transition, Inv, TypeOK, CallStates
  <2>3. PlacedOK' /\ DiscardedTextGone' /\ ApprovalIsBacked'
    BY <1>1, <1>2, <1>5, <2>1 DEF Settle, Transition, Inv, TypeOK, PlacedOK, AddPlaces,
         DiscardedTextGone, ApprovalIsBacked
  <2>4. QED
    BY <2>2, <2>3 DEF Inv
<1>6. CASE ListRecords(u) \/ ListRefs(u) \/ Listed(u)
  <2>1. TypeOK'
    <3>1. pc' \in [Callers -> CallStates]
      <4>1. PICK next \in CallStates : pc' = [pc EXCEPT ![u] = next]
        BY <1>6 DEF ListRecords, ListRefs, Listed, CallStates
      <4>2. QED
        BY <4>1 DEF Inv, TypeOK
    <3>2. seen' \in [Users -> SUBSET Records]
      BY <1>6 DEF ListRecords, ListRefs, Listed, Inv, TypeOK
    <3>3. QED
      BY <1>6, <3>1, <3>2 DEF ListRecords, ListRefs, Listed, Inv, TypeOK
  <2>2. PlacedOK' /\ DiscardedTextGone' /\ ApprovalIsBacked'
    BY <1>1, <1>6 DEF ListRecords, ListRefs, Listed, Inv, TypeOK, PlacedOK, AddPlaces,
         DiscardedTextGone, ApprovalIsBacked
  <2>3. QED
    BY <2>1, <2>2 DEF Inv
<1>7. CASE Adopt(u)
  <2>1. PICK i \in Records : AddRef(i, FALSE) /\ seen' = [seen EXCEPT ![u] = @ \ {i}]
    BY <1>7 DEF Adopt, Inv, TypeOK
  <2>2. TypeOK'
    BY <1>7, <2>1 DEF Adopt, AddRef, Inv, TypeOK
  <2>3. \A j \in Records : ref[j] # "none" => ref'[j] # "none"
    BY <2>1 DEF AddRef, Inv, TypeOK
  <2>4. PlacedOK' /\ DiscardedTextGone' /\ ApprovalIsBacked'
    BY <1>7, <2>3 DEF Adopt, Inv, PlacedOK, DiscardedTextGone, ApprovalIsBacked, Records
  <2>5. QED
    BY <2>2, <2>4 DEF Inv
<1>8. QED
  BY <1>3, <1>4, <1>5, <1>6, <1>7

(* A user's correction, forgetting or purge of a record: no status it sets is
   "none", so what was referred to remains so. *)
LEMMA RecordInv ==
  ASSUME Inv, NEW u \in Users,
         \/ \E i \in Records, step \in {"correct", "forget", "purge"} : Address(u, i, step)
         \/ Missing(u) \/ Correct(u) \/ Forget(u) \/ Purge(u) \/ Clear(u)
         \/ \E status \in {"active", "forgotten", "purged"} : Mark(u, status)
  PROVE  Inv'
<1> USE DEF callVars, proposalVars, refVars, captureVars, Goto, Begin, End
<1>1. u \in Callers /\ u \notin Workers
  BY DEF Callers
<1>2. Done(u) = "idle"
  BY <1>1 DEF Done
<1>3. ASSUME NEW i \in Records, NEW step \in {"correct", "forget", "purge"},
             Address(u, i, step)
      PROVE  Inv'
  <2>1. TypeOK'
    BY <1>1, <1>3 DEF Address, Inv, TypeOK, CallStates
  <2>2. PlacedOK' /\ DiscardedTextGone' /\ ApprovalIsBacked'
    BY <1>1, <1>3 DEF Address, Inv, TypeOK, PlacedOK, AddPlaces, DiscardedTextGone,
         ApprovalIsBacked
  <2>3. QED
    BY <2>1, <2>2 DEF Inv
<1>4. CASE Missing(u)
  <2>1. TypeOK'
    BY <1>1, <1>2, <1>4 DEF Missing, Inv, TypeOK, CallStates
  <2>2. PlacedOK' /\ DiscardedTextGone' /\ ApprovalIsBacked'
    BY <1>1, <1>2, <1>4 DEF Missing, Inv, TypeOK, PlacedOK, AddPlaces, DiscardedTextGone,
         ApprovalIsBacked
  <2>3. QED
    BY <2>1, <2>2 DEF Inv
<1>5. CASE Correct(u) \/ Forget(u) \/ Purge(u)
  <2>1. TypeOK'
    <3>1. PICK becomes \in {"live", "hidden", "none"},
               next \in {"mark active", "mark forgotten", "clear"} :
            /\ pc' = [pc EXCEPT ![u] = next]
            /\ store' = [store EXCEPT ![target[u]] = becomes]
            /\ UNCHANGED <<target, seen, proposalVars, refVars, captureVars>>
      BY <1>5 DEF Correct, Forget, Purge, Provider
    <3>2. QED
      BY <1>1, <3>1 DEF Inv, TypeOK, CallStates
  <2>2. PlacedOK' /\ DiscardedTextGone' /\ ApprovalIsBacked'
    <3>1. \E next \in {"mark active", "mark forgotten", "clear"} :
            /\ pc' = [pc EXCEPT ![u] = next]
            /\ UNCHANGED <<target, seen, proposalVars, refVars, captureVars>>
      BY <1>5 DEF Correct, Forget, Purge, Provider
    <3>2. QED
      <4>1. PlacedOK'
        BY <3>1 DEF Inv, TypeOK, PlacedOK, AddPlaces
      <4>2. QED
        BY <3>1, <4>1 DEF Inv, DiscardedTextGone, ApprovalIsBacked
  <2>3. QED
    BY <2>1, <2>2 DEF Inv
<1>6. CASE Clear(u)
  <2>1. TypeOK'
    BY <1>1, <1>6 DEF Clear, Inv, TypeOK, CallStates
  <2>2. PlacedOK' /\ DiscardedTextGone' /\ ApprovalIsBacked'
    BY <1>1, <1>6 DEF Clear, Inv, TypeOK, PlacedOK, AddPlaces, DiscardedTextGone,
         ApprovalIsBacked
  <2>3. QED
    BY <2>1, <2>2 DEF Inv
<1>7. ASSUME NEW status \in {"active", "forgotten", "purged"}, Mark(u, status)
      PROVE  Inv'
  <2>1. /\ pc' = [pc EXCEPT ![u] = "idle"]
        /\ target' = [target EXCEPT ![u] = None]
        /\ ref' = [ref EXCEPT ![target[u]] = status]
        /\ UNCHANGED <<seen, proposalVars, keyed, store, captureVars>>
    BY <1>2, <1>7 DEF Mark
  <2>2. TypeOK'
    BY <1>1, <2>1 DEF Inv, TypeOK, CallStates
  <2>3. \A i \in Records : ref[i] # "none" => ref'[i] # "none"
    BY <2>1 DEF Inv, TypeOK
  <2>4. PlacedOK' /\ DiscardedTextGone' /\ ApprovalIsBacked'
    BY <1>1, <2>1, <2>3 DEF Inv, TypeOK, PlacedOK, AddPlaces, DiscardedTextGone,
         ApprovalIsBacked, Records
  <2>5. QED
    BY <2>2, <2>4 DEF Inv
<1>8. QED
  BY <1>3, <1>4, <1>5, <1>6, <1>7

(* What happens to a proposal that nobody approves, and the settings. *)
LEMMA ProposalInv ==
  ASSUME Inv,
         \/ \E value \in BOOLEAN : SetConsent(value)
         \/ \E p \in Proposals : Reject(p) \/ Elapse(p) \/ Expire(p)
  PROVE  Inv'
<1> USE DEF callVars, proposalVars, refVars, captureVars
<1>1. CASE \E value \in BOOLEAN : SetConsent(value)
  BY <1>1 DEF SetConsent, Inv, TypeOK, PlacedOK, DiscardedTextGone, ApprovalIsBacked
<1>2. ASSUME NEW p \in Proposals, Reject(p) \/ Elapse(p) \/ Expire(p)
      PROVE  Inv'
  <2>1. CASE Elapse(p)
    BY <2>1 DEF Elapse, Inv, TypeOK, PlacedOK, DiscardedTextGone, ApprovalIsBacked
  <2>2. CASE Reject(p) \/ Expire(p)
    <3>1. PICK verdict \in {"rejected", "expired"} :
            /\ state' = [state EXCEPT ![p] = verdict]
            /\ text' = [text EXCEPT ![p] = FALSE]
            /\ UNCHANGED <<callVars, due, refVars, store, captureVars>>
      BY <2>2 DEF Reject, Expire, Transition
    <3>2. QED
      BY <3>1 DEF Inv, TypeOK, PlacedOK, DiscardedTextGone, ApprovalIsBacked
  <2>3. QED
    BY <1>2, <2>1, <2>2
<1>3. QED
  BY <1>1, <1>2

(* Every step keeps the invariant. *)
LEMMA StepInv == Inv /\ [Next]_vars => Inv'
<1> SUFFICES ASSUME Inv, Next PROVE Inv'
  BY StutterInv
<1>1. CASE \E w \in Workers : WorkerStep(w)
  BY <1>1, WorkerInv
<1>2. CASE \E c \in Callers : AddStep(c) \/ Fail(c)
  BY <1>2, AddInv
<1>3. ASSUME NEW u \in Users, UserStep(u)
      PROVE  Inv'
  BY <1>3, ReviewInv, RecordInv DEF UserStep
<1>4. QED
  BY <1>1, <1>2, <1>3, ProposalInv DEF Next

(* The invariant holds in every reachable state. *)
LEMMA InvHolds == Spec => []Inv
  BY InitInv, StepInv, PTL DEF Spec

(* Every variable keeps its type; the capture queue keeps its bound. *)
THEOREM TypeCorrect == Spec => []TypeOK
  BY InvHolds, PTL DEF Inv

(* Rejected and expired proposals hold no text, however approvals, verdicts,
   expiry and purges overlap or break off. *)
THEOREM VerdictsClearText == Spec => []DiscardedTextGone
  BY InvHolds, PTL DEF Inv

(* An approved proposal has a reference its owner can act through. *)
THEOREM ApprovalsBacked == Spec => []ApprovalIsBacked
  BY InvHolds, PTL DEF Inv

----------------------------------------------------------------------------
(* Forgotten records *)

(* A step that stores something is an ingest, which fills an empty place, or
   a user's call to the provider. *)
LEMMA WhoStores ==
  ASSUME Inv, Next, NEW i \in Records, store'[i] # store[i]
  PROVE  \/ \E c \in Callers : pc[c] = "ingest" /\ target[c] = i /\ store[i] = "none"
         \/ \E u \in Users : /\ target[u] = i /\ store[i] # "none"
                             /\ store'[i] = "live" => pc[u] = "correct"
<1> USE DEF callVars, proposalVars, refVars, captureVars
<1>1. CASE \E w \in Workers : WorkerStep(w)
  BY <1>1 DEF WorkerStep, Enqueue, Take, Extracted, Stop, Propose, Capture
<1>2. ASSUME NEW c \in Callers, AddStep(c) \/ Fail(c)
      PROVE  pc[c] = "ingest" /\ target[c] = i /\ store[i] = "none"
  <2>1. Ingest(c)
    BY <1>2 DEF AddStep, Fail, Check, Recheck, Lookup, Link
  <2>2. QED
    BY <2>1 DEF Ingest, Goto, Inv, TypeOK
<1>3. ASSUME NEW u \in Users, UserStep(u)
      PROVE  /\ target[u] = i /\ store[i] # "none"
             /\ store'[i] = "live" => pc[u] = "correct"
  <2>1. Correct(u) \/ Forget(u) \/ Purge(u)
    BY <1>3 DEF UserStep, Approve, Import, Settle, ListRecords, ListRefs, Adopt, Listed,
         Address, Missing, Clear, Mark
  <2>2. QED
    BY <2>1 DEF Correct, Forget, Purge, Provider, Goto, Inv, TypeOK
<1>4. CASE \/ \E value \in BOOLEAN : SetConsent(value)
           \/ \E p \in Proposals : Reject(p) \/ Elapse(p) \/ Expire(p)
  BY <1>4 DEF SetConsent, Reject, Elapse, Expire
<1>5. QED
  BY <1>1, <1>2, <1>3, <1>4 DEF Next

(* Only a correction brings a forgotten record back into retrieval; storing
   the same id again, by any of the three ways, does not. *)
THEOREM ForgottenHidden == Spec => ForgottenStaysHidden
<1> DEFINE Kept == \A i \in Records :
             store[i] = "hidden" /\ store'[i] = "live" =>
               \E u \in Users : target[u] = i /\ pc[u] = "correct"
<1>1. Inv /\ [Next]_vars => [Kept]_vars
  BY WhoStores
<1>2. QED
  BY <1>1, InvHolds, PTL DEF Spec, ForgottenStaysHidden

----------------------------------------------------------------------------
(* Tombstones of purged captures *)

OneWorker == \A v, w \in Workers : v = w

(* The only worker has looked the text up since anybody could have given its
   reference a key: calls of users store other records. *)
Guarded ==
  /\ \A i \in Records : keyed[i] => ref[i] # "none"
  /\ \A w \in Workers :
       /\ pc[w] \in AddPlaces => target[w] \in Captures
       /\ pc[w] \in {"recheck", "ingest", "link"} => ~keyed[target[w]]
       /\ pc[w] # "lookup"
  /\ \A u \in Users : pc[u] \in AddPlaces => target[u] \notin Captures

LEMMA GuardedInit == Init => Guarded
  BY DEF Init, Guarded, AddPlaces, Callers

(* A reference does not go away, and a key is only given by a link. *)
LEMMA KeysGrow ==
  ASSUME Inv, Next, NEW i \in Records
  PROVE  /\ ref[i] # "none" => ref'[i] # "none"
         /\ keyed'[i] # keyed[i] =>
              /\ ref'[i] # "none"
              /\ keyed'[i] => \E c \in Callers : Link(c) /\ target[c] = i
<1> USE DEF callVars, proposalVars, refVars, captureVars
<1>1. CASE \E w \in Workers : WorkerStep(w)
  BY <1>1 DEF WorkerStep, Enqueue, Take, Extracted, Stop, Propose, Capture
<1>2. ASSUME NEW c \in Callers, AddStep(c) \/ Fail(c)
      PROVE  /\ ref[i] # "none" => ref'[i] # "none"
             /\ keyed'[i] # keyed[i] => ref'[i] # "none" /\ Link(c) /\ target[c] = i
  <2>1. CASE Link(c)
    BY <2>1 DEF Link, AddRef, Inv, TypeOK
  <2>2. CASE ~Link(c)
    BY <1>2, <2>2 DEF AddStep, Fail, Check, Recheck, Lookup, Ingest
  <2>3. QED
    BY <2>1, <2>2
<1>3. ASSUME NEW u \in Users, UserStep(u)
      PROVE  /\ ref[i] # "none" => ref'[i] # "none"
             /\ keyed'[i] # keyed[i] => ref'[i] # "none" /\ ~keyed'[i]
  <2>1. CASE Adopt(u)
    BY <2>1 DEF Adopt, AddRef, Inv, TypeOK
  <2>2. CASE \E status \in {"active", "forgotten", "purged"} : Mark(u, status)
    BY <2>2 DEF Mark, Inv, TypeOK
  <2>3. CASE UNCHANGED refVars
    BY <2>3
  <2>4. QED
    BY <1>3, <2>1, <2>2, <2>3 DEF UserStep, Approve, Import, Settle, ListRecords, ListRefs,
         Listed, Address, Missing, Correct, Forget, Purge, Provider, Clear
<1>4. CASE \/ \E value \in BOOLEAN : SetConsent(value)
           \/ \E p \in Proposals : Reject(p) \/ Elapse(p) \/ Expire(p)
  BY <1>4 DEF SetConsent, Reject, Elapse, Expire
<1>5. QED
  BY <1>1, <1>2, <1>3, <1>4 DEF Next

(* A user's step moves that user's call only. *)
LEMMA UserMovesOne ==
  ASSUME Inv, NEW u \in Users, UserStep(u), NEW c \in Callers, c # u
  PROVE  pc'[c] = pc[c] /\ target'[c] = target[c]
<1> USE DEF callVars, Goto, Begin, End
<1>1. CASE \/ \E p \in Proposals : Approve(u, p)
           \/ \E i \in Imports : Import(u, i)
           \/ \E i \in Records, step \in {"correct", "forget", "purge"} : Address(u, i, step)
  BY <1>1 DEF Approve, Import, Address, Inv, TypeOK
<1>2. CASE Settle(u) \/ ListRecords(u) \/ ListRefs(u) \/ Adopt(u) \/ Listed(u)
  BY <1>2 DEF Settle, ListRecords, ListRefs, Adopt, Listed, Inv, TypeOK
<1>3. CASE Missing(u) \/ Correct(u) \/ Forget(u) \/ Purge(u) \/ Clear(u)
  BY <1>3 DEF Missing, Correct, Forget, Purge, Provider, Clear, Inv, TypeOK
<1>4. CASE \E status \in {"active", "forgotten", "purged"} : Mark(u, status)
  BY <1>4 DEF Mark, Inv, TypeOK
<1>5. QED
  BY <1>1, <1>2, <1>3, <1>4 DEF UserStep

(* Where a worker can get to: its record is a captured text from the check
   on, and it passes the checks only while the text has no key. *)
LEMMA WorkerMoves ==
  ASSUME Inv, Guarded, Next, NEW w \in Workers
  PROVE  \/ pc'[w] = pc[w] /\ target'[w] = target[w]
         \/ pc'[w] = "check" /\ target'[w] \in Captures
         \/ /\ pc'[w] \in {"recheck", "ingest", "link"} /\ target'[w] = target[w]
            /\ target[w] \in Captures /\ ~keyed[target[w]] /\ keyed' = keyed
         \/ pc'[w] \in {"idle", "extract"}
<1> USE DEF callVars, proposalVars, refVars, captureVars, Goto, Begin, End
<1>1. w \in Callers /\ \A u \in Users : u # w /\ u \in Callers
  BY DEF Callers
<1>2. CASE \E v \in Workers : WorkerStep(v)
  <2>1. PICK v \in Workers : WorkerStep(v)
    BY <1>2
  <2>2. CASE \E i \in Captures : Capture(v, i)
    BY <1>1, <2>2 DEF Capture, Inv, TypeOK
  <2>3. CASE ~\E i \in Captures : Capture(v, i)
    BY <1>1, <2>1, <2>3 DEF WorkerStep, Enqueue, Take, Extracted, Stop, Propose, Inv, TypeOK
  <2>4. QED
    BY <2>2, <2>3
<1>3. ASSUME NEW c \in Callers, AddStep(c) \/ Fail(c), c # w
      PROVE  pc'[w] = pc[w] /\ target'[w] = target[w]
  BY <1>1, <1>3 DEF AddStep, Fail, Check, Recheck, Lookup, Ingest, Link, Inv, TypeOK
<1>4. CASE AddStep(w)
  <2>1. Done(w) = "extract"
    BY DEF Done
  <2>2. pc[w] \in AddPlaces /\ target[w] \in Captures
    BY <1>4 DEF AddStep, Check, Recheck, Lookup, Ingest, Link, AddPlaces, Guarded
  <2>3. target[w] \in Records /\ target[w] \notin Proposals
    BY <2>2 DEF Records
  <2>4. CASE Check(w)
    BY <1>1, <2>1, <2>2, <2>3, <2>4 DEF Check, Found, Guarded, Inv, TypeOK
  <2>5. CASE Recheck(w)
    BY <1>1, <2>1, <2>2, <2>3, <2>5 DEF Recheck, Found, Guarded, Inv, TypeOK
  <2>6. CASE Ingest(w)
    BY <1>1, <2>2, <2>6 DEF Ingest, Guarded, Inv, TypeOK
  <2>7. CASE Link(w)
    BY <1>1, <2>1, <2>3, <2>7 DEF Link, Inv, TypeOK
  <2>8. CASE Lookup(w)
    BY <2>8 DEF Lookup, Guarded
  <2>9. QED
    BY <1>4, <2>4, <2>5, <2>6, <2>7, <2>8 DEF AddStep
<1>5. CASE Fail(w)
  BY <1>1, <1>5 DEF Fail, Inv, TypeOK
<1>6. ASSUME NEW u \in Users, UserStep(u)
      PROVE  pc'[w] = pc[w] /\ target'[w] = target[w]
  BY <1>1, <1>6, UserMovesOne
<1>7. CASE \/ \E value \in BOOLEAN : SetConsent(value)
           \/ \E p \in Proposals : Reject(p) \/ Elapse(p) \/ Expire(p)
  BY <1>7 DEF SetConsent, Reject, Elapse, Expire
<1>8. QED
  BY <1>2, <1>3, <1>4, <1>5, <1>6, <1>7 DEF Next

(* A user's call never gets to store a captured text. *)
LEMMA UserMoves ==
  ASSUME Inv, Guarded, Next, NEW u \in Users, pc'[u] \in AddPlaces
  PROVE  target'[u] \notin Captures
<1> USE DEF callVars, proposalVars, refVars, captureVars, Goto, Begin, End
<1>1. u \in Callers /\ u \notin Workers /\ \A w \in Workers : w \in Callers
  BY DEF Callers
<1>2. Done(u) \notin AddPlaces
  BY <1>1 DEF Done, AddPlaces
<1>3. CASE \E w \in Workers : WorkerStep(w)
  BY <1>1, <1>3 DEF WorkerStep, Enqueue, Take, Extracted, Stop, Propose, Capture, Inv, TypeOK,
       Guarded
<1>4. ASSUME NEW c \in Callers, AddStep(c) \/ Fail(c)
      PROVE  target'[u] \notin Captures
  <2>1. CASE c = u
    BY <1>1, <1>2, <1>4, <2>1 DEF AddStep, Fail, Check, Recheck, Lookup, Ingest, Link,
         AddPlaces, Inv, TypeOK, Guarded
  <2>2. CASE c # u
    BY <1>1, <1>4, <2>2 DEF AddStep, Fail, Check, Recheck, Lookup, Ingest, Link, Inv, TypeOK,
         Guarded
  <2>3. QED
    BY <2>1, <2>2
<1>5. ASSUME NEW v \in Users, UserStep(v)
      PROVE  target'[u] \notin Captures
  <2>1. v \in Callers /\ v \notin Workers
    BY DEF Callers
  <2>2. CASE v # u
    BY <1>1, <1>5, <2>1, <2>2, UserMovesOne DEF Guarded
  <2>3. CASE v = u /\ (\/ \E p \in Proposals : Approve(u, p)
                       \/ \E i \in Imports : Import(u, i))
    BY <1>1, <2>3 DEF Approve, Import, Inv, TypeOK
  <2>4. CASE v = u /\ ~(\/ \E p \in Proposals : Approve(u, p)
                        \/ \E i \in Imports : Import(u, i))
    <3>1. pc'[u] \notin AddPlaces \/ (pc'[u] = pc[u] /\ target'[u] = target[u])
      <4>1. CASE Settle(u) \/ ListRecords(u) \/ ListRefs(u) \/ Adopt(u) \/ Listed(u)
        BY <1>1, <1>2, <4>1 DEF Settle, ListRecords, ListRefs, Adopt, Listed, Inv, TypeOK,
             AddPlaces
      <4>2. CASE Missing(u) \/ Correct(u) \/ Forget(u) \/ Purge(u) \/ Clear(u)
        <5>1. PICK next \in {"idle", "mark active", "mark forgotten", "clear", "mark purged"} :
                pc' = [pc EXCEPT ![u] = next]
          BY <1>2, <4>2 DEF Missing, Correct, Forget, Purge, Provider, Clear
        <5>2. QED
          BY <1>1, <5>1 DEF Inv, TypeOK, AddPlaces
      <4>3. CASE \E status \in {"active", "forgotten", "purged"} : Mark(u, status)
        BY <1>1, <1>2, <4>3 DEF Mark, Inv, TypeOK
      <4>4. CASE \E i \in Records, step \in {"correct", "forget", "purge"} :
                   Address(u, i, step)
        BY <1>1, <4>4 DEF Address, Inv, TypeOK, AddPlaces
      <4>5. QED
        BY <1>5, <2>4, <4>1, <4>2, <4>3, <4>4 DEF UserStep
    <3>2. QED
      BY <3>1 DEF Guarded
  <2>5. QED
    BY <2>2, <2>3, <2>4
<1>6. CASE \/ \E value \in BOOLEAN : SetConsent(value)
           \/ \E p \in Proposals : Reject(p) \/ Elapse(p) \/ Expire(p)
  BY <1>6 DEF SetConsent, Reject, Elapse, Expire, Guarded
<1>7. QED
  BY <1>3, <1>4, <1>5, <1>6 DEF Next

(* The guard is inductive when there is one worker: nobody else can give the
   text it is about to store a key. *)
LEMMA GuardedStep == OneWorker /\ Inv /\ Guarded /\ [Next]_vars => Guarded'
<1>1. Inv /\ Guarded /\ UNCHANGED vars => Guarded'
  BY DEF vars, callVars, proposalVars, refVars, captureVars, Guarded
<1> SUFFICES ASSUME OneWorker, Inv, Guarded, Next PROVE Guarded'
  BY <1>1
<1>2. \A i \in Records : keyed'[i] => ref'[i] # "none"
  BY KeysGrow DEF Guarded
<1>3. \A u \in Users : pc'[u] \in AddPlaces => target'[u] \notin Captures
  BY UserMoves
<1>4. ASSUME NEW w \in Workers
      PROVE  /\ pc'[w] \in AddPlaces => target'[w] \in Captures
             /\ pc'[w] \in {"recheck", "ingest", "link"} => ~keyed'[target'[w]]
             /\ pc'[w] # "lookup"
  <2>1. pc'[w] \in AddPlaces => target'[w] \in Captures
    BY WorkerMoves DEF Guarded, AddPlaces
  <2>2. pc'[w] # "lookup"
    BY WorkerMoves DEF Guarded
  <2>3. ASSUME pc'[w] \in {"recheck", "ingest", "link"}, keyed'[target'[w]]
        PROVE  FALSE
    <3>1. target'[w] = target[w] /\ target[w] \in Captures /\ ~keyed[target[w]]
          /\ pc'[w] = pc[w]
      BY <2>3, WorkerMoves DEF Guarded, AddPlaces
    <3>2. target[w] \in Records /\ keyed'[target[w]] # keyed[target[w]]
      BY <2>3, <3>1 DEF Records
    <3>3. PICK c \in Callers : Link(c) /\ target[c] = target[w]
      BY <2>3, <3>1, <3>2, KeysGrow
    <3>4. c \notin Users
      BY <3>1, <3>3 DEF Link, Goto, End, Guarded, AddPlaces
    <3>5. c = w
      BY <3>4 DEF Callers, OneWorker
    <3>6. pc'[w] \in {"settle", "extract", "idle"}
      BY <3>3, <3>5 DEF Link, Goto, End, Done, Inv, TypeOK
    <3>7. QED
      BY <2>3, <3>6
  <2>4. QED
    BY <2>1, <2>2, <2>3
<1>5. QED
  BY <1>2, <1>3, <1>4 DEF Guarded

(* With one capture worker, however many calls run beside it, a text whose
   keyed reference has been purged is not stored again. *)
THEOREM TombstonesHold == OneWorker => (Spec => TombstoneHolds)
<1> DEFINE Kept == \A i \in Captures :
             ref[i] = "purged" /\ keyed[i] /\ store[i] = "none" => store'[i] = "none"
<1>1. Inv /\ Guarded /\ [Next]_vars => [Kept]_vars
  <2> SUFFICES ASSUME Inv, Guarded, Next, NEW i \in Captures,
                      ref[i] = "purged", keyed[i], store[i] = "none", store'[i] # "none"
               PROVE  FALSE
    OBVIOUS
  <2>1. i \in Records
    BY DEF Records
  <2>2. PICK c \in Callers : pc[c] = "ingest" /\ target[c] = i
    BY <2>1, WhoStores
  <2>3. QED
    BY <2>2 DEF Guarded, Callers, AddPlaces
<1>2. SUFFICES ASSUME OneWorker PROVE Spec => TombstoneHolds
  OBVIOUS
<1>3. Inv /\ Guarded /\ [Next]_vars => Guarded'
  BY <1>2, GuardedStep
<1>4. QED
  BY <1>1, <1>3, GuardedInit, InvHolds, PTL DEF Spec, TombstoneHolds

----------------------------------------------------------------------------
(* The promises that TLC refutes (runs "purge", "reject", "resurrect"), and
   what it takes to keep them. *)

(* The ways of a call that are not those of an approval. *)
Checks == {"check", "recheck", "lookup"}
Approvers == {"ingest", "link", "settle"}
Handles ==
  {"correct", "forget", "purge", "clear", "mark active", "mark forgotten", "mark purged"}

(* Where a call goes from here. *)
Moves(c) ==
  \/ pc'[c] = pc[c] /\ target'[c] = target[c]
  \/ Fail(c)
  \/ c \in Workers /\ pc'[c] \in {"idle", "extract"}
  \/ pc'[c] = "check" /\ target'[c] \in Captures \cup Imports
  \/ /\ target'[c] = target[c]
     /\ \/ pc[c] \in Checks /\ pc'[c] \in {"recheck", "lookup", "ingest"}
        \/ pc[c] = "ingest" /\ pc'[c] = "link"
        \/ pc[c] = "link" /\ pc'[c] = "settle" /\ target[c] \in Proposals
        \/ pc[c] \in Handles /\ pc'[c] \in Handles \ {"mark purged"}
        \/ c \in Users /\ Clear(c) /\ pc'[c] = "mark purged"
  \/ /\ c \in Users
     /\ \/ /\ pc'[c] \in {"idle", "listed", "adopt"}
           /\ pc[c] \in Approvers => target[c] \notin Proposals \/ Settle(c)
        \/ \E p \in Proposals : Approve(c, p) /\ pc'[c] = "ingest" /\ target'[c] = p
        \/ pc'[c] \in Handles \ {"mark purged"} /\ ref[target'[c]] # "none" /\ target'[c] \in Records

LEMMA AddMoves ==
  ASSUME Inv, NEW c \in Callers, AddStep(c)
  PROVE  Moves(c)
<1> USE DEF Goto, End
<1>1. Done(c) = (IF c \in Workers THEN "extract" ELSE "idle") /\ (c \in Users \/ c \in Workers)
  BY DEF Done, Callers
<1>2. CASE Check(c)
  BY <1>1, <1>2 DEF Check, Moves, Checks, Approvers, Inv, TypeOK
<1>3. CASE Recheck(c)
  BY <1>3 DEF Recheck, Moves, Checks, Inv, TypeOK
<1>4. CASE Lookup(c)
  BY <1>1, <1>4 DEF Lookup, Moves, Checks, Approvers, Inv, TypeOK
<1>5. CASE Ingest(c)
  BY <1>5 DEF Ingest, Moves, Inv, TypeOK
<1>6. CASE Link(c)
  BY <1>1, <1>6 DEF Link, Moves, Inv, TypeOK
<1>7. QED
  BY <1>2, <1>3, <1>4, <1>5, <1>6 DEF AddStep

LEMMA UserCallMoves ==
  ASSUME Inv, NEW u \in Users, UserStep(u)
  PROVE  Moves(u)
<1> USE DEF callVars, Goto, Begin, End
<1>1. u \in Callers /\ Done(u) = "idle"
  BY DEF Done, Callers
<1>2. ASSUME NEW p \in Proposals, Approve(u, p) PROVE Moves(u)
  BY <1>1, <1>2 DEF Approve, Moves, Inv, TypeOK
<1>3. ASSUME NEW i \in Imports, Import(u, i) PROVE Moves(u)
  BY <1>1, <1>3 DEF Import, Moves, Inv, TypeOK
<1>4. CASE Settle(u)
  BY <1>1, <1>4 DEF Settle, Moves, Inv, TypeOK
<1>5. CASE ListRecords(u) \/ ListRefs(u) \/ Adopt(u) \/ Listed(u)
  BY <1>1, <1>5 DEF ListRecords, ListRefs, Adopt, Listed, Moves, Approvers, Inv, TypeOK
<1>6. ASSUME NEW i \in Records, NEW step \in {"correct", "forget", "purge"},
             Address(u, i, step)
      PROVE  Moves(u)
  BY <1>1, <1>6 DEF Address, Moves, Handles, Inv, TypeOK
<1>7. CASE Missing(u)
  BY <1>1, <1>7 DEF Missing, Moves, Approvers, Inv, TypeOK
<1>8. CASE Correct(u) \/ Forget(u) \/ Purge(u)
  BY <1>1, <1>8 DEF Correct, Forget, Purge, Provider, Moves, Handles, Inv, TypeOK
<1>9. CASE Clear(u)
  BY <1>1, <1>9 DEF Clear, Moves, Inv, TypeOK
<1>10. CASE \E status \in {"active", "forgotten", "purged"} : Mark(u, status)
  BY <1>1, <1>10 DEF Mark, Moves, Approvers, Inv, TypeOK
<1>11. QED
  BY <1>2, <1>3, <1>4, <1>5, <1>6, <1>7, <1>8, <1>9, <1>10 DEF UserStep

LEMMA CallMoves ==
  ASSUME Inv, Next, NEW c \in Callers
  PROVE  Moves(c)
<1>1. ASSUME NEW v \in Workers, WorkerStep(v) PROVE Moves(c)
  <2>1. v \in Callers
    BY DEF Callers
  <2>2. CASE \E i \in Captures : Capture(v, i)
    BY <2>1, <2>2 DEF Capture, Begin, Goto, Moves, Inv, TypeOK
  <2>3. CASE ~\E i \in Captures : Capture(v, i)
    BY <1>1, <2>1, <2>3 DEF WorkerStep, Enqueue, Take, Extracted, Stop, Propose, callVars, Goto,
         Moves, Inv, TypeOK
  <2>4. QED
    BY <2>2, <2>3
<1>2. ASSUME NEW d \in Callers, AddStep(d) \/ Fail(d), d # c PROVE Moves(c)
  <2>1. pc'[c] = pc[c] /\ target'[c] = target[c]
    BY <1>2 DEF AddStep, Fail, Check, Recheck, Lookup, Ingest, Link, Goto, End, Inv, TypeOK
  <2>2. QED
    BY <2>1 DEF Moves
<1>3. CASE AddStep(c) \/ Fail(c)
  BY <1>3, AddMoves DEF Moves
<1>4. ASSUME NEW u \in Users, UserStep(u) PROVE Moves(c)
  BY <1>4, UserMovesOne, UserCallMoves DEF Moves
<1>5. CASE \/ \E value \in BOOLEAN : SetConsent(value)
           \/ \E p \in Proposals : Reject(p) \/ Elapse(p) \/ Expire(p)
  BY <1>5 DEF SetConsent, Reject, Elapse, Expire, callVars, Moves
<1>6. QED
  BY <1>1, <1>2, <1>3, <1>4, <1>5 DEF Next

(* What becomes of a proposal: its state only by a verdict or an approval, and
   text is given to none that was known before but by an approval. *)
LEMMA ProposalMoves ==
  ASSUME Inv, Next, NEW p \in Proposals
  PROVE  /\ \/ state'[p] = state[p]
            \/ state[p] = "absent" /\ state'[p] = "pending"
            \/ /\ state[p] = "pending" /\ state'[p] = "approved"
               /\ \E u \in Users : Settle(u) /\ target[u] = p
            \/ (Reject(p) \/ Expire(p)) /\ state[p] = "pending"
               /\ state'[p] \in {"rejected", "expired"}
         /\ text'[p] /\ ~text[p] =>
              \/ state[p] = "absent"
              \/ \E u \in Users : Settle(u) /\ target[u] = p
<1> USE DEF callVars, proposalVars, refVars, captureVars
<1>1. ASSUME NEW w \in Workers, WorkerStep(w)
      PROVE  \/ state'[p] = state[p] /\ text'[p] = text[p]
             \/ state[p] = "absent" /\ state'[p] = "pending"
  <2>1. CASE \E q \in Proposals : Propose(w, q)
    BY <2>1 DEF Propose, Inv, TypeOK
  <2>2. CASE ~\E q \in Proposals : Propose(w, q)
    BY <1>1, <2>2 DEF WorkerStep, Enqueue, Take, Extracted, Stop, Capture
  <2>3. QED
    BY <2>1, <2>2
<1>2. ASSUME NEW c \in Callers, AddStep(c) \/ Fail(c)
      PROVE  state' = state /\ text' = text
  BY <1>2 DEF AddStep, Fail, Check, Recheck, Lookup, Ingest, Link
<1>3. ASSUME NEW u \in Users, UserStep(u)
      PROVE  \/ state'[p] = state[p] /\ (text'[p] => text[p])
             \/ /\ Settle(u) /\ target[u] = p
                /\ state'[p] = state[p] \/ (state[p] = "pending" /\ state'[p] = "approved")
  <2>1. CASE Settle(u)
    <3>1. u \in Callers
      BY DEF Callers
    <3>2. target[u] \in Proposals
      BY <2>1, <3>1 DEF Settle, End, Goto, Inv, PlacedOK
    <3>3. QED
      BY <2>1, <3>2 DEF Settle, Transition, Inv, TypeOK
  <2>2. CASE Clear(u)
    BY <2>2 DEF Clear, Inv, TypeOK
  <2>3. CASE UNCHANGED <<state, text>>
    BY <2>3
  <2>4. QED
    BY <1>3, <2>1, <2>2, <2>3 DEF UserStep, Approve, Import, ListRecords, ListRefs, Adopt,
         Listed, Address, Missing, Correct, Forget, Purge, Provider, Mark
<1>4. CASE \E value \in BOOLEAN : SetConsent(value)
  BY <1>4 DEF SetConsent
<1>5. ASSUME NEW q \in Proposals, Reject(q) \/ Elapse(q) \/ Expire(q)
      PROVE  \/ state'[p] = state[p] /\ (text'[p] => text[p])
             \/ /\ Reject(p) \/ Expire(p)
                /\ state[p] = "pending" /\ state'[p] \in {"rejected", "expired"} /\ ~text'[p]
  <2>1. CASE Elapse(q)
    BY <2>1 DEF Elapse
  <2>2. CASE Reject(q) \/ Expire(q)
    BY <2>2 DEF Reject, Expire, Transition, Inv, TypeOK
  <2>3. QED
    BY <1>5, <2>1, <2>2
<1>6. QED
  BY <1>1, <1>2, <1>3, <1>4, <1>5 DEF Next

(* Where references come from, and what purges them. *)
LEMMA RefMoves ==
  ASSUME Inv, Next, NEW i \in Records
  PROVE  /\ ref'[i] # "none" /\ ref[i] = "none" =>
              \/ \E c \in Callers : Link(c) /\ target[c] = i /\ keyed'[i]
              \/ \E u \in Users : Adopt(u) /\ i \in seen[u]
              \/ \E u \in Users : pc[u] \in Handles /\ target[u] = i
         /\ ref'[i] = "purged" /\ ref[i] # "purged" =>
              \E u \in Users : pc[u] = "mark purged" /\ target[u] = i
         /\ ref[i] # "none" => keyed'[i] = keyed[i]
<1> USE DEF callVars, proposalVars, refVars, captureVars
<1>1. CASE \E w \in Workers : WorkerStep(w)
  BY <1>1 DEF WorkerStep, Enqueue, Take, Extracted, Stop, Propose, Capture
<1>2. ASSUME NEW c \in Callers, AddStep(c) \/ Fail(c)
      PROVE  \/ ref'[i] = ref[i] /\ keyed'[i] = keyed[i]
             \/ /\ Link(c) /\ target[c] = i /\ ref[i] = "none"
                /\ ref'[i] = "active" /\ keyed'[i]
  <2>1. CASE Link(c)
    BY <2>1 DEF Link, AddRef, Inv, TypeOK
  <2>2. CASE ~Link(c)
    BY <1>2, <2>2 DEF AddStep, Fail, Check, Recheck, Lookup, Ingest
  <2>3. QED
    BY <2>1, <2>2
<1>3. ASSUME NEW u \in Users, UserStep(u)
      PROVE  \/ ref'[i] = ref[i] /\ keyed'[i] = keyed[i]
             \/ Adopt(u) /\ i \in seen[u] /\ ref[i] = "none" /\ ref'[i] = "active"
             \/ /\ target[u] = i /\ pc[u] \in Handles /\ keyed' = keyed
                /\ ref'[i] = "purged" => pc[u] = "mark purged"
  <2>1. CASE Adopt(u)
    BY <2>1 DEF Adopt, AddRef, Inv, TypeOK
  <2>2. CASE \E status \in {"active", "forgotten", "purged"} : Mark(u, status)
    BY <2>2 DEF Mark, End, Goto, Handles, Inv, TypeOK
  <2>3. CASE UNCHANGED refVars
    BY <2>3
  <2>4. QED
    BY <1>3, <2>1, <2>2, <2>3 DEF UserStep, Approve, Import, Settle, ListRecords, ListRefs,
         Listed, Address, Missing, Correct, Forget, Purge, Provider, Clear
<1>4. CASE \/ \E value \in BOOLEAN : SetConsent(value)
           \/ \E p \in Proposals : Reject(p) \/ Elapse(p) \/ Expire(p)
  BY <1>4 DEF SetConsent, Reject, Elapse, Expire
<1>5. QED
  BY <1>1, <1>2, <1>3, <1>4 DEF Next

(* A listing sees what is stored, and only a listing adopts. *)
LEMMA SeenMoves ==
  ASSUME Inv, Next, NEW u \in Users
  PROVE  seen'[u] \subseteq seen[u] \cup {i \in Records : store[i] # "none"}
<1> USE DEF callVars, proposalVars, refVars, captureVars
<1>1. CASE \E w \in Workers : WorkerStep(w)
  BY <1>1 DEF WorkerStep, Enqueue, Take, Extracted, Stop, Propose, Capture
<1>2. ASSUME NEW c \in Callers, AddStep(c) \/ Fail(c)
      PROVE  seen'[u] \subseteq seen[u]
  <2>1. CASE Fail(c)
    BY <2>1 DEF Fail, Inv, TypeOK
  <2>2. CASE ~Fail(c)
    BY <1>2, <2>2 DEF AddStep, Check, Recheck, Lookup, Ingest, Link
  <2>3. QED
    BY <2>1, <2>2
<1>3. ASSUME NEW v \in Users, UserStep(v)
      PROVE  seen'[u] \subseteq seen[u] \cup {i \in Records : store[i] # "none"}
  <2>1. CASE ListRecords(v) \/ ListRefs(v) \/ Adopt(v)
    <3>1. CASE ListRecords(v)
      BY <3>1 DEF ListRecords, Inv, TypeOK
    <3>2. CASE ListRefs(v)
      <4> DEFINE now == {i \in seen[v] : ref[i] \in {"none", "purged"}}
      <4>1. seen' = [seen EXCEPT ![v] = now]
        BY <3>2 DEF ListRefs
      <4>2. now \subseteq seen[v]
        OBVIOUS
      <4> HIDE DEF now
      <4>3. QED
        BY <4>1, <4>2 DEF Inv, TypeOK
    <3>3. CASE Adopt(v)
      BY <3>3 DEF Adopt, Inv, TypeOK
    <3>4. QED
      BY <2>1, <3>1, <3>2, <3>3
  <2>2. CASE UNCHANGED seen
    BY <2>2
  <2>3. QED
    BY <1>3, <2>1, <2>2 DEF UserStep, Approve, Import, Settle, Listed, Address, Missing,
         Correct, Forget, Purge, Provider, Clear, Mark
<1>4. CASE \/ \E value \in BOOLEAN : SetConsent(value)
           \/ \E p \in Proposals : Reject(p) \/ Elapse(p) \/ Expire(p)
  BY <1>4 DEF SetConsent, Reject, Elapse, Expire
<1>5. QED
  BY <1>1, <1>2, <1>3, <1>4 DEF Next

(* An approval of p that has not ended. *)
Approving(p) == \E u \in Users : pc[u] \in Approvers /\ target[u] = p

(* Only users approve, whoever acts on a record has found its reference, and
   what is known of a proposal anywhere shows that it was proposed. *)
ReviewOK ==
  /\ \A c \in Callers : pc[c] \in Checks => target[c] \notin Proposals
  /\ \A w \in Workers : pc[w] \in Approvers => target[w] \notin Proposals
  /\ \A u \in Users : pc[u] \in Handles => target[u] \in Records /\ ref[target[u]] # "none"
  /\ \A p \in Proposals : state[p] = "absent" =>
       /\ ~Approving(p) /\ ref[p] = "none" /\ store[p] = "none"
       /\ \A u \in Users : p \notin seen[u]

LEMMA ReviewStep == Inv /\ ReviewOK /\ [Next]_vars => ReviewOK'
<1>1. ReviewOK /\ UNCHANGED vars => ReviewOK'
  BY DEF vars, callVars, proposalVars, refVars, ReviewOK, Approving
<1> SUFFICES ASSUME Inv, ReviewOK, Next PROVE ReviewOK'
  BY <1>1
<1>2. ASSUME NEW c \in Callers, pc'[c] \in Checks
      PROVE  target'[c] \notin Proposals
  <2>1. Moves(c)
    BY CallMoves
  <2>2. \A i \in Captures \cup Imports : i \notin Proposals
    OBVIOUS
  <2>3. ~Fail(c)
    BY <1>2 DEF Fail, Checks, Inv, TypeOK
  <2>4. QED
    BY <1>2, <2>1, <2>2, <2>3 DEF Moves, ReviewOK, Checks, Handles
<1>3. ASSUME NEW w \in Workers, pc'[w] \in Approvers
      PROVE  target'[w] \notin Proposals
  <2>1. Moves(w) /\ w \notin Users /\ w \in Callers
    BY CallMoves DEF Callers
  <2>2. ~Fail(w)
    BY <1>3, <2>1 DEF Fail, Approvers, Inv, TypeOK
  <2>3. QED
    BY <1>3, <2>1, <2>2 DEF Moves, ReviewOK, Checks, Handles, Approvers
<1>4. ASSUME NEW u \in Users, pc'[u] \in Handles
      PROVE  target'[u] \in Records /\ ref'[target'[u]] # "none"
  <2>1. Moves(u) /\ u \in Callers
    BY CallMoves DEF Callers
  <2>2. ~Fail(u)
    BY <1>4, <2>1 DEF Fail, Handles, Inv, TypeOK
  <2>3. Clear(u) => pc[u] \in Handles
    BY DEF Clear, Goto, Handles
  <2>4. target'[u] \in Records /\ ref[target'[u]] # "none"
    BY <1>4, <2>1, <2>2, <2>3 DEF Moves, ReviewOK, Checks, Handles
  <2>5. QED
    BY <2>4, KeysGrow
<1>5. ASSUME NEW p \in Proposals, state'[p] = "absent"
      PROVE  /\ ~Approving(p)' /\ ref'[p] = "none" /\ store'[p] = "none"
             /\ \A u \in Users : p \notin seen'[u]
  <2>1. state[p] = "absent" /\ p \in Records
    BY <1>5, ProposalMoves DEF Records
  <2>2. ~Approving(p) /\ ref[p] = "none" /\ store[p] = "none"
    BY <2>1 DEF ReviewOK
  <2>3. ASSUME NEW u \in Users, pc'[u] \in Approvers, target'[u] = p
        PROVE  FALSE
    <3>1. Moves(u) /\ u \in Callers
      BY CallMoves DEF Callers
    <3>2. ~Fail(u) /\ u \notin Workers
      BY <2>3, <3>1 DEF Fail, Approvers, Inv, TypeOK
    <3>3. \A q \in Proposals : Approve(u, q) /\ target'[u] = q => q # p
      BY <2>1 DEF Approve
    <3>4. pc[u] \in Approvers \cup Checks /\ target[u] = p
      BY <2>3, <3>1, <3>2, <3>3 DEF Moves, Checks, Handles, Approvers
    <3>5. QED
      BY <2>2, <3>1, <3>4 DEF ReviewOK, Approving
  <2>4. ref'[p] = "none"
    <3>1. \A c \in Callers : ~(Link(c) /\ target[c] = p)
      <4>1. \A c \in Callers : Link(c) => pc[c] = "link"
        BY DEF Link, Goto, End
      <4>2. QED
        BY <2>2, <4>1 DEF ReviewOK, Approving, Approvers, Callers
    <3>2. \A u \in Users : p \notin seen[u] /\ (pc[u] \in Handles => target[u] # p)
      BY <2>1, <2>2 DEF ReviewOK
    <3>3. ref'[p] # "none" =>
            \/ \E c \in Callers : Link(c) /\ target[c] = p
            \/ \E u \in Users : p \in seen[u] \/ (pc[u] \in Handles /\ target[u] = p)
      <4>1. p \in Records /\ ref[p] = "none"
        BY <2>1, <2>2
      <4>2. QED
        BY <4>1, RefMoves
    <3>4. QED
      BY <3>1, <3>2, <3>3
  <2>5. store'[p] = "none"
    <3>1. \A c \in Callers : ~(pc[c] = "ingest" /\ target[c] = p)
      BY <2>2 DEF ReviewOK, Approving, Approvers, Callers
    <3>2. QED
      BY <2>1, <2>2, <3>1, WhoStores
  <2>6. \A u \in Users : p \notin seen'[u]
    BY <2>1, <2>2, SeenMoves DEF ReviewOK
  <2>7. QED
    BY <2>3, <2>4, <2>5, <2>6 DEF Approving
<1>6. QED
  BY <1>2, <1>3, <1>4, <1>5 DEF ReviewOK

LEMMA ReviewHolds == Spec => []ReviewOK
<1>1. Init => ReviewOK
  BY DEF Init, ReviewOK, Approving, Checks, Approvers, Handles, Callers, Records
<1>2. QED
  BY <1>1, ReviewStep, InvHolds, PTL DEF Spec

(* Rejected proposals.  What an undecided proposal has in the store was put
   there by an approval that has still to settle. *)
VerdictOK ==
  \A p \in Proposals :
    /\ state[p] \in {"absent", "pending"} /\ store[p] # "none" =>
         \E u \in Users : pc[u] \in {"link", "settle"} /\ target[u] = p
    /\ state[p] \in {"rejected", "expired"} => store[p] = "none" /\ ~Approving(p)

(* No verdict is given on a proposal while it is being approved. *)
VerdictsApart ==
  [][\A p \in Proposals : Reject(p) \/ Expire(p) => ~Approving(p)]_vars

LEMMA VerdictStep ==
  ASSUME ~Failures, Inv, ReviewOK, VerdictOK, Next,
         \A p \in Proposals : Reject(p) \/ Expire(p) => ~Approving(p)
  PROVE  VerdictOK'
<1> SUFFICES ASSUME NEW p \in Proposals
             PROVE  /\ state'[p] \in {"absent", "pending"} /\ store'[p] # "none" =>
                         \E u \in Users : pc'[u] \in {"link", "settle"} /\ target'[u] = p
                    /\ state'[p] \in {"rejected", "expired"} =>
                         store'[p] = "none" /\ ~Approving(p)'
  BY DEF VerdictOK
<1>1. p \in Records /\ \A u \in Users : u \in Callers /\ u \notin Workers
  BY DEF Records, Callers
<1>2. \A c \in Callers : ~Fail(c)
  BY DEF Fail
(* Whoever stores something of p approves it, and has to link it next. *)
<1>3. ASSUME store[p] = "none", store'[p] # "none"
      PROVE  \E u \in Users : pc[u] = "ingest" /\ pc'[u] = "link" /\ target[u] = p /\ target'[u] = p
  <2>1. PICK c \in Callers : Ingest(c) /\ target[c] = p
    <3>1. CASE \E c \in Callers : Ingest(c)
      <4>1. PICK c \in Callers : Ingest(c)
        BY <3>1
      <4>2. target[c] = p
        BY <1>1, <1>3, <4>1 DEF Ingest, Inv, TypeOK
      <4>3. QED
        BY <4>1, <4>2
    <3>2. CASE ~\E c \in Callers : Ingest(c)
      <4>1. CASE \E w \in Workers : WorkerStep(w)
        BY <1>3, <4>1 DEF WorkerStep, Enqueue, Take, Extracted, Stop, Propose, Capture
      <4>2. CASE \E c \in Callers : AddStep(c) \/ Fail(c)
        BY <1>3, <3>2, <4>2 DEF AddStep, Fail, Check, Recheck, Lookup, Link
      <4>3. ASSUME NEW u \in Users, UserStep(u) PROVE FALSE
        <5>1. CASE Correct(u) \/ Forget(u) \/ Purge(u)
          BY <1>1, <1>3, <5>1 DEF Correct, Forget, Purge, Provider, Inv, TypeOK
        <5>2. CASE ~(Correct(u) \/ Forget(u) \/ Purge(u))
          BY <1>3, <4>3, <5>2 DEF UserStep, Approve, Import, Settle, ListRecords, ListRefs,
               Adopt, Listed, Address, Missing, Clear, Mark
        <5>3. QED
          BY <5>1, <5>2
      <4>4. CASE \/ \E value \in BOOLEAN : SetConsent(value)
                 \/ \E q \in Proposals : Reject(q) \/ Elapse(q) \/ Expire(q)
        BY <1>3, <4>4 DEF SetConsent, Reject, Elapse, Expire
      <4>5. QED
        BY <4>1, <4>2, <4>3, <4>4 DEF Next
    <3>3. QED
      BY <3>1, <3>2
  <2>2. pc[c] = "ingest" /\ pc'[c] = "link" /\ target'[c] = p
    BY <2>1 DEF Ingest, Goto, Inv, TypeOK
  <2>3. c \in Users
    BY <2>1, <2>2 DEF ReviewOK, Approvers, Callers
  <2>4. QED
    BY <2>1, <2>2, <2>3
(* An approval goes on, up to its settlement. *)
<1>4. ASSUME NEW u \in Users, pc[u] \in {"link", "settle"}, target[u] = p
      PROVE  \/ pc'[u] \in {"link", "settle"} /\ target'[u] = p
             \/ Settle(u)
  <2>1. Moves(u)
    BY <1>1, CallMoves
  <2>2. pc'[u] \in {"link", "settle", "idle", "listed", "adopt"} \cup Handles \cup {"check", "ingest"}
    BY <1>1, <1>2, <1>4, <2>1 DEF Moves, Checks, Handles
  <2>3. CASE pc'[u] = pc[u] /\ target'[u] = target[u]
    BY <1>4, <2>3
  <2>4. CASE Link(u)
    BY <1>1, <1>4, <2>4 DEF Link, Goto, Inv, TypeOK
  <2>5. CASE Settle(u)
    BY <2>5
  <2>6. CASE ~(pc'[u] = pc[u] /\ target'[u] = target[u]) /\ ~Link(u) /\ ~Settle(u)
    <3>1. UserStep(u) \/ AddStep(u)
      <4>1. CASE \E w \in Workers : WorkerStep(w)
        BY <1>1, <2>6, <4>1 DEF WorkerStep, Enqueue, Take, Extracted, Stop, Propose, Capture,
             callVars, Begin, Goto, Inv, TypeOK
      <4>2. ASSUME NEW c \in Callers, AddStep(c) PROVE c = u
        BY <1>1, <2>6, <4>2 DEF AddStep, Check, Recheck, Lookup, Ingest, Link, Goto, End, Inv,
             TypeOK
      <4>3. ASSUME NEW v \in Users, UserStep(v) PROVE v = u
        BY <1>1, <2>6, <4>3, UserMovesOne
      <4>4. CASE \/ \E value \in BOOLEAN : SetConsent(value)
                 \/ \E q \in Proposals : Reject(q) \/ Elapse(q) \/ Expire(q)
        BY <2>6, <4>4 DEF SetConsent, Reject, Elapse, Expire, callVars
      <4>5. QED
        BY <1>2, <4>1, <4>2, <4>3, <4>4 DEF Next
    <3>2. QED
      BY <1>4, <2>6, <3>1 DEF UserStep, AddStep, Check, Recheck, Lookup, Ingest, Approve, Import,
           ListRecords, ListRefs, Adopt, Listed, Address, Missing, Correct, Forget, Purge,
           Provider, Clear, Mark, Goto, Begin, End
  <2>7. QED
    BY <2>3, <2>4, <2>5, <2>6
<1>5. ASSUME state'[p] \in {"absent", "pending"}, store'[p] # "none"
      PROVE  \E u \in Users : pc'[u] \in {"link", "settle"} /\ target'[u] = p
  <2>1. state[p] \in {"absent", "pending"}
    BY <1>5, ProposalMoves
  <2>2. CASE store[p] = "none"
    BY <1>3, <1>5, <2>2
  <2>3. CASE store[p] # "none"
    <3>1. PICK u \in Users : pc[u] \in {"link", "settle"} /\ target[u] = p
      BY <2>1, <2>3 DEF VerdictOK
    <3>2. ~Settle(u)
      <4>1. state[p] = "pending"
        BY <2>1, <3>1 DEF ReviewOK, Approving, Approvers
      <4>2. QED
        BY <1>5, <3>1, <4>1 DEF Settle, Transition, Inv, TypeOK
    <3>3. QED
      BY <1>4, <3>1, <3>2
  <2>4. QED
    BY <2>2, <2>3
<1>6. ASSUME state'[p] \in {"rejected", "expired"}
      PROVE  store'[p] = "none" /\ ~Approving(p)'
  <2>1. store[p] = "none" /\ ~Approving(p)
    <3>1. CASE state[p] = state'[p]
      BY <1>6, <3>1 DEF VerdictOK
    <3>2. CASE (Reject(p) \/ Expire(p)) /\ state[p] = "pending"
      BY <3>2 DEF VerdictOK, Approving, Approvers
    <3>3. QED
      BY <1>6, <3>1, <3>2, ProposalMoves
  <2>2. store'[p] = "none"
    BY <1>3, <2>1 DEF Approving, Approvers
  <2>3. ASSUME NEW u \in Users, pc'[u] \in Approvers, target'[u] = p
        PROVE  FALSE
    <3>1. Moves(u) /\ u \notin Workers /\ ~Fail(u)
      BY <1>1, <1>2, CallMoves
    <3>2. CASE \E q \in Proposals : Approve(u, q) /\ target'[u] = q
      BY <1>6, <2>3, <3>2 DEF Approve, proposalVars
    <3>3. CASE ~\E q \in Proposals : Approve(u, q) /\ target'[u] = q
      BY <1>1, <2>1, <2>3, <3>1, <3>3 DEF Moves, Checks, Handles, Approvers, ReviewOK, Approving
    <3>4. QED
      BY <3>2, <3>3
  <2>4. QED
    BY <2>2, <2>3 DEF Approving
<1>7. QED
  BY <1>5, <1>6

(* If no call fails and no verdict overlaps an approval, a proposal that was
   rejected or has expired is not recalled: the finding "reject" needs one of
   the two. *)
THEOREM RejectedHidden ==
  ASSUME ~Failures
  PROVE  Spec /\ VerdictsApart => []RejectedNotRecalled
<1>1. Init => VerdictOK
  BY DEF Init, VerdictOK, Records
<1>2. /\ Inv /\ ReviewOK /\ VerdictOK /\ [Next]_vars
      /\ [\A p \in Proposals : Reject(p) \/ Expire(p) => ~Approving(p)]_vars
      => VerdictOK'
  <2>1. VerdictOK /\ UNCHANGED vars => VerdictOK'
    BY DEF vars, callVars, proposalVars, VerdictOK, Approving
  <2>2. QED
    BY <2>1, VerdictStep
<1>3. VerdictOK => RejectedNotRecalled
  BY DEF VerdictOK, RejectedNotRecalled
<1>4. QED
  BY <1>1, <1>2, <1>3, InvHolds, ReviewHolds, PTL DEF Spec, VerdictsApart

(* Purges.  With no listing, who can act on a record can also clear the text
   it came from, and nobody but an approval gives the text back. *)
Keyed ==
  /\ \A i \in Records : ref[i] # "none" => keyed[i]
  /\ \A u \in Users : pc[u] \notin {"listed", "adopt"}

Purging(p) == ref[p] = "purged" \/ \E u \in Users : pc[u] = "mark purged" /\ target[u] = p

PurgeOK == \A p \in Proposals : Purging(p) => ~text[p] /\ ~Approving(p)

(* No purge clears the text of a proposal that is being approved. *)
PurgesApart == [][\A u \in Users : Clear(u) => ~Approving(target[u])]_vars

LEMMA KeyedStep == ~Listing /\ Inv /\ ReviewOK /\ Keyed /\ [Next]_vars => Keyed'
<1>1. Keyed /\ UNCHANGED vars => Keyed'
  BY DEF vars, callVars, refVars, Keyed
<1> SUFFICES ASSUME ~Listing, Inv, ReviewOK, Keyed, Next PROVE Keyed'
  BY <1>1
<1>2. ASSUME NEW u \in Users PROVE pc'[u] \notin {"listed", "adopt"}
  <2>1. u \in Callers /\ u \notin Workers
    BY DEF Callers
  <2>2. ASSUME NEW v \in Users, UserStep(v) PROVE pc'[u] \notin {"listed", "adopt"}
    <3>1. CASE v = u
      <4>1. ~ListRecords(u) /\ ~ListRefs(u) /\ ~Adopt(u) /\ ~Listed(u)
        BY DEF ListRecords, ListRefs, Adopt, Listed, Goto, Keyed
      <4>2. Done(u) = "idle" /\ pc[u] \notin {"listed", "adopt"}
        BY <2>1 DEF Done, Keyed
      <4>3. PICK next \in CallStates \ {"listed", "adopt"} : pc' = [pc EXCEPT ![u] = next]
        BY <2>2, <3>1, <4>1, <4>2 DEF UserStep, Approve, Import, Settle, Address, Missing,
             Correct, Forget, Purge, Provider, Clear, Mark, Begin, Goto, End, CallStates
      <4>4. QED
        BY <2>1, <4>3 DEF Inv, TypeOK
    <3>2. CASE v # u
      BY <2>1, <2>2, <3>2, UserMovesOne DEF Keyed
    <3>3. QED
      BY <3>1, <3>2
  <2>3. ASSUME NEW c \in Callers, AddStep(c) \/ Fail(c) PROVE pc'[u] \notin {"listed", "adopt"}
    <3>1. PICK next \in CallStates \ {"listed", "adopt"} : pc' = [pc EXCEPT ![c] = next]
      <4>1. Done(c) \in {"idle", "extract"}
        BY DEF Done
      <4>2. QED
        BY <2>3, <4>1 DEF AddStep, Fail, Check, Recheck, Lookup, Ingest, Link, Goto, End,
             CallStates
    <3>2. QED
      BY <2>1, <3>1 DEF Keyed, Inv, TypeOK
  <2>4. CASE \E w \in Workers : WorkerStep(w)
    BY <2>1, <2>4 DEF WorkerStep, Enqueue, Take, Extracted, Stop, Propose, Capture, callVars,
         Begin, Goto, Keyed, Inv, TypeOK
  <2>5. CASE \/ \E value \in BOOLEAN : SetConsent(value)
             \/ \E p \in Proposals : Reject(p) \/ Elapse(p) \/ Expire(p)
    BY <2>5 DEF SetConsent, Reject, Elapse, Expire, callVars, Keyed
  <2>6. QED
    BY <2>2, <2>3, <2>4, <2>5 DEF Next
<1>3. ASSUME NEW i \in Records, ref'[i] # "none" PROVE keyed'[i]
  <2>1. CASE ref[i] = "none"
    <3>1. \A u \in Users : ~Adopt(u)
      BY DEF Adopt, Keyed
    <3>2. \A u \in Users : pc[u] \in Handles => target[u] # i
      BY <2>1 DEF ReviewOK
    <3>3. QED
      BY <1>3, <2>1, <3>1, <3>2, RefMoves
  <2>2. CASE ref[i] # "none"
    <3>1. keyed'[i] = keyed[i]
      BY <2>2, RefMoves
    <3>2. keyed[i]
      BY <2>2 DEF Keyed
    <3>3. QED
      BY <3>1, <3>2, Zenon
  <2>3. QED
    BY <2>1, <2>2
<1>4. QED
  BY <1>2, <1>3 DEF Keyed

LEMMA KeyedHolds == ~Listing => (Spec => []Keyed)
<1> SUFFICES ASSUME ~Listing PROVE Spec => []Keyed
  OBVIOUS
<1>1. Init => Keyed
  BY DEF Init, Keyed, Callers
<1>2. Inv /\ ReviewOK /\ Keyed /\ [Next]_vars => Keyed'
  BY KeyedStep
<1>3. QED
  BY <1>1, <1>2, InvHolds, ReviewHolds, PTL DEF Spec

LEMMA PurgeStep ==
  ASSUME Inv, ReviewOK, Keyed, PurgeOK, Next,
         \A u \in Users : Clear(u) => ~Approving(target[u])
  PROVE  PurgeOK'
<1> SUFFICES ASSUME NEW p \in Proposals, Purging(p)' PROVE ~text'[p] /\ ~Approving(p)'
  BY DEF PurgeOK
<1>1. p \in Records /\ \A u \in Users : u \in Callers /\ u \notin Workers
  BY DEF Records, Callers
(* Either it was being purged already, or its text is cleared now. *)
<1>2. Purging(p) \/ \E u \in Users : Clear(u) /\ target[u] = p
  <2>1. CASE ref'[p] = "purged"
    BY <1>1, <2>1, RefMoves DEF Purging
  <2>2. ASSUME NEW u \in Users, pc'[u] = "mark purged", target'[u] = p
        PROVE  Purging(p) \/ (Clear(u) /\ target[u] = p)
    <3>1. Moves(u)
      BY <1>1, CallMoves
    <3>2. ~Fail(u)
      BY <1>1, <2>2 DEF Fail, Inv, TypeOK
    <3>3. QED
      BY <1>1, <2>2, <3>1, <3>2 DEF Moves, Purging
  <2>3. QED
    BY <2>1, <2>2 DEF Purging
<1>3. ~Approving(p) /\ state[p] # "absent"
  <2>1. CASE Purging(p)
    BY <2>1 DEF PurgeOK, Purging, ReviewOK, Handles
  <2>2. ASSUME NEW u \in Users, Clear(u), target[u] = p
        PROVE  ~Approving(p) /\ state[p] # "absent"
    BY <2>2 DEF Clear, Goto, ReviewOK, Handles
  <2>3. QED
    BY <1>2, <2>1, <2>2
<1>4. ~text'[p]
  <2>1. CASE Purging(p)
    <3>1. \A u \in Users : ~(Settle(u) /\ target[u] = p)
      BY <1>3 DEF Settle, End, Goto, Approving, Approvers
    <3>2. QED
      BY <1>3, <2>1, <3>1, ProposalMoves DEF PurgeOK
  <2>2. ASSUME NEW u \in Users, Clear(u), target[u] = p
        PROVE  ~text'[p]
    <3>1. ref[p] # "none" /\ keyed[p]
      BY <1>1, <2>2 DEF Clear, Goto, ReviewOK, Handles, Keyed
    <3>2. QED
      BY <2>2, <3>1 DEF Clear, Inv, TypeOK
  <2>3. QED
    BY <1>2, <2>1, <2>2
<1>5. ASSUME NEW u \in Users, pc'[u] \in Approvers, target'[u] = p
      PROVE  FALSE
  <2>1. Moves(u) /\ u \notin Workers
    BY <1>1, CallMoves
  <2>2. ~Fail(u)
    BY <1>1, <1>5 DEF Fail, Approvers, Inv, TypeOK
  <2>3. CASE \E q \in Proposals : Approve(u, q) /\ target'[u] = q
    <3>1. Approve(u, p)
      BY <1>5, <2>3
    <3>2. text'[p]
      BY <3>1 DEF Approve, proposalVars
    <3>3. QED
      BY <1>4, <3>2
  <2>4. CASE ~\E q \in Proposals : Approve(u, q) /\ target'[u] = q
    BY <1>1, <1>3, <1>5, <2>1, <2>2, <2>4
       DEF Moves, Checks, Handles, Approvers, ReviewOK, Approving
  <2>5. QED
    BY <2>3, <2>4
<1>6. QED
  BY <1>4, <1>5 DEF Approving

(* If the records page is not opened and no purge overlaps an approval, a
   purged proposal has no text, also when calls fail: the finding "purge" needs
   one of the two. *)
THEOREM PurgedTextGone ==
  ASSUME ~Listing
  PROVE  Spec /\ PurgesApart => []PurgeClearsText
<1>1. Init => PurgeOK
  BY DEF Init, PurgeOK, Purging, Callers, Records
<1>2. /\ Inv /\ ReviewOK /\ Keyed /\ PurgeOK /\ [Next]_vars
      /\ [\A u \in Users : Clear(u) => ~Approving(target[u])]_vars
      => PurgeOK'
  <2>1. PurgeOK /\ UNCHANGED vars => PurgeOK'
    BY DEF vars, callVars, proposalVars, refVars, PurgeOK, Purging, Approving
  <2>2. QED
    BY <2>1, PurgeStep
<1>3. PurgeOK => PurgeClearsText
  BY DEF PurgeOK, Purging, PurgeClearsText
<1>4. Spec => []Keyed
  BY KeyedHolds
<1>5. QED
  BY <1>1, <1>2, <1>3, <1>4, InvHolds, ReviewHolds, PTL DEF Spec, PurgesApart

(* With one worker, a text its owner has purged stays purged unless the records
   page is opened: the finding "resurrect" is due to the references that page
   makes. *)
THEOREM PurgedStays ==
  ASSUME OneWorker, ~Listing
  PROVE  Spec => PurgedStaysPurged
<1> DEFINE Kept == \A i \in Captures :
             ref[i] = "purged" /\ keyed[i] /\ store[i] = "none" => store'[i] = "none"
           Stays == \A i \in Captures : ref[i] = "purged" /\ store[i] = "none" => store'[i] = "none"
<1>1. Keyed /\ [Kept]_vars => [Stays]_vars
  BY DEF Keyed, Records
<1>2. Spec => [][Kept]_vars
  BY TombstonesHold DEF TombstoneHolds
<1>3. Spec => []Keyed
  BY KeyedHolds
<1>4. QED
  BY <1>1, <1>2, <1>3, PTL DEF PurgedStaysPurged

=============================================================================
