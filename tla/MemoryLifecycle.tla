-------------------------- MODULE MemoryLifecycle --------------------------
(***************************************************************************)
(* One principal's personal memory: the capture queue that proposes or     *)
(* stores memories after a response, the review of proposals, and the      *)
(* lifecycle of stored records.                                            *)
(*                                                                         *)
(* Two stores that no transaction spans hold it: the repository            *)
(* (memory_proposals, memory_record_refs) and the content provider         *)
(* (memories).  Every await of MemoryService is a step of its own here, so *)
(* a call may interleave with any other, or fail, between two of them.     *)
(*                                                                         *)
(* A record is named after the stable identity its provider id is derived  *)
(* from: the proposal it was approved from, the digest of an automatically *)
(* captured text, or the id an import carries.                             *)
(***************************************************************************)
EXTENDS Naturals, FiniteSets

CONSTANTS
  Users,        \* the principal's concurrent API calls
  Workers,      \* capture workers: one per gateway process
  Proposals,    \* candidates that go through review
  Captures,     \* texts that automatic capture extracts
  Imports,      \* records of an import document
  None,
  QueueSize,    \* automatic.queue_size
  Failures,     \* may a call break off between two awaits?
  Listing       \* is the records page opened?

Records == Proposals \cup Captures \cup Imports
Callers == Users \cup Workers

ASSUME ConstantsAssumption ==
  /\ Users \cap Workers = {} /\ None \notin Records
  /\ Proposals \cap Captures = {} /\ Imports \cap (Proposals \cup Captures) = {}
  /\ QueueSize \in Nat /\ Failures \in BOOLEAN /\ Listing \in BOOLEAN

VARIABLES
  pc,        \* the await each call is at
  target,    \* the record it works on
  seen,      \* records() : provider records still without a reference
  state,     \* memory_proposals.state
  text,      \* memory_proposals.content IS NOT NULL
  due,       \* memory_proposals.expires_at has passed
  ref,       \* memory_record_refs.status
  keyed,     \* the reference carries its proposal_id or external_id
  store,     \* the provider's record: "none", "live" or "hidden" (forgotten)
  consent,   \* memory_user_settings: enabled and capture_enabled
  queue,     \* requests in each worker's capture queue
  mode       \* automatic.capture_mode

callVars == <<pc, target, seen>>
proposalVars == <<state, text, due>>
refVars == <<ref, keyed>>
captureVars == <<consent, queue, mode>>
vars == <<callVars, proposalVars, refVars, store, captureVars>>

Goto(c, from, to) == pc[c] = from /\ pc' = [pc EXCEPT ![c] = to]

(* A call begins to work on record i. *)
Begin(c, i, from, to) ==
  /\ Goto(c, from, to)
  /\ target' = [target EXCEPT ![c] = i]

(* What the call does next when it is done with its record: an API call is  *)
(* over, the worker goes on to the next candidate.                          *)
Done(c) == IF c \in Workers THEN "extract" ELSE "idle"

End(c, from) ==
  /\ Goto(c, from, Done(c))
  /\ target' = [target EXCEPT ![c] = None]

Init ==
  /\ pc = [c \in Callers |-> "idle"]
  /\ target = [c \in Callers |-> None]
  /\ seen = [u \in Users |-> {}]
  /\ state = [p \in Proposals |-> "absent"]
  /\ text = [p \in Proposals |-> FALSE]
  /\ due = [p \in Proposals |-> FALSE]
  /\ ref = [i \in Records |-> "none"]
  /\ keyed = [i \in Records |-> FALSE]
  /\ store = [i \in Records |-> "none"]
  /\ consent \in BOOLEAN
  /\ queue = [w \in Workers |-> 0]
  /\ mode \in {"review", "automatic"}

----------------------------------------------------------------------------
(* Capture *)

(* update_settings *)
SetConsent(value) ==
  /\ consent' = value
  /\ UNCHANGED <<callVars, proposalVars, refVars, store, queue, mode>>

(* Bug: the queue has no limit. *)
EnqueueUnbounded(w) ==
  /\ consent /\ queue[w] <= QueueSize
  /\ queue' = [queue EXCEPT ![w] = @ + 1]
  /\ UNCHANGED <<callVars, proposalVars, refVars, store, consent, mode>>

(* can_capture, then put_nowait; a full queue drops the request. *)
Enqueue(w) ==
  /\ consent /\ queue[w] < QueueSize
  /\ queue' = [queue EXCEPT ![w] = @ + 1]
  /\ UNCHANGED <<callVars, proposalVars, refVars, store, consent, mode>>

(* _run takes a request and awaits the extractor. *)
Take(w) ==
  /\ Goto(w, "idle", "extract")
  /\ queue[w] > 0
  /\ queue' = [queue EXCEPT ![w] = @ - 1]
  /\ UNCHANGED <<target, seen, proposalVars, refVars, store, consent, mode>>

(* No candidate, or none left. *)
Extracted(w) ==
  /\ Goto(w, "extract", "idle")
  /\ UNCHANGED <<target, seen, proposalVars, refVars, store, captureVars>>

(* add_proposals: an insert for each candidate. *)
Propose(w, p) ==
  /\ pc[w] = "extract" /\ mode = "review" /\ state[p] = "absent"
  /\ state' = [state EXCEPT ![p] = "pending"]
  /\ text' = [text EXCEPT ![p] = TRUE]
  /\ UNCHANGED <<callVars, due, refVars, store, captureVars>>

(* add_automatic_candidates turns to a candidate. *)
Capture(w, i) ==
  /\ mode = "automatic"
  /\ Begin(w, i, "extract", "check")
  /\ UNCHANGED <<seen, proposalVars, refVars, store, captureVars>>

(* import_personal turns to a record of the document. *)
Import(u, i) ==
  /\ Begin(u, i, "idle", "check")
  /\ UNCHANGED <<seen, proposalVars, refVars, store, captureVars>>

----------------------------------------------------------------------------
(* add_approved with an external id *)

(* Bug: a reference that has been purged no longer counts. *)
FoundUnpurged(i) == ref[i] \in {"active", "forgotten"} /\ keyed[i]

(* find_external_ref looks at references of any status, purged ones too. *)
Found(i) == ref[i] # "none" /\ keyed[i]

(* The caller's own find_external_ref: a known id is skipped. *)
Check(c) ==
  /\ pc[c] = "check"
  /\ IF Found(target[c]) THEN End(c, "check") ELSE Goto(c, "check", "recheck") /\ UNCHANGED target
  /\ UNCHANGED <<seen, proposalVars, refVars, store, captureVars>>

(* add_approved asks again. *)
Recheck(c) ==
  /\ pc[c] = "recheck"
  /\ Goto(c, "recheck", IF Found(target[c]) THEN "lookup" ELSE "ingest")
  /\ UNCHANGED <<target, seen, proposalVars, refVars, store, captureVars>>

(* It returns the provider's record if there still is one, else stores it. *)
Lookup(c) ==
  /\ pc[c] = "lookup"
  /\ IF store[target[c]] # "none" THEN End(c, "lookup")
                                  ELSE Goto(c, "lookup", "ingest") /\ UNCHANGED target
  /\ UNCHANGED <<seen, proposalVars, refVars, store, captureVars>>

(* Bug: a conflicting insert overwrites the row, forgotten_at included. *)
IngestUpsert(c) ==
  /\ Goto(c, "ingest", "link")
  /\ store' = [store EXCEPT ![target[c]] = "live"]
  /\ UNCHANGED <<target, seen, proposalVars, refVars, captureVars>>

(* provider.ingest under the stable id: a row that is there stays as it is. *)
Ingest(c) ==
  /\ Goto(c, "ingest", "link")
  /\ store' = [store EXCEPT ![target[c]] = IF @ = "none" THEN "live" ELSE @]
  /\ UNCHANGED <<target, seen, proposalVars, refVars, captureVars>>

(* add_record_ref: a reference that is there keeps its keys and its status. *)
AddRef(i, withKey) ==
  IF ref[i] = "none"
    THEN /\ ref' = [ref EXCEPT ![i] = "active"]
         /\ keyed' = [keyed EXCEPT ![i] = withKey]
    ELSE UNCHANGED refVars

(* The reference of an import, a capture or an approval. *)
Link(c) ==
  /\ pc[c] = "link"
  /\ IF target[c] \in Proposals THEN Goto(c, "link", "settle") /\ UNCHANGED target
                                ELSE End(c, "link")
  /\ AddRef(target[c], TRUE)
  /\ UNCHANGED <<seen, proposalVars, store, captureVars>>

----------------------------------------------------------------------------
(* Review *)

(* Bug: the proposal is settled before its reference exists. *)
ApproveUnlinked(u, p) ==
  /\ state[p] = "pending" /\ text[p] /\ ~due[p]
  /\ Begin(u, p, "idle", "ingest")
  /\ state' = [state EXCEPT ![p] = "approved"]
  /\ UNCHANGED <<seen, text, due, refVars, store, captureVars>>

(* approve_proposal reads a proposal that is pending, not purged, in time. *)
Approve(u, p) ==
  /\ state[p] = "pending" /\ text[p] /\ ~due[p]
  /\ Begin(u, p, "idle", "ingest")
  /\ UNCHANGED <<seen, proposalVars, refVars, store, captureVars>>

(* transition_proposal: only a pending proposal changes. *)
Transition(p, to, withText) ==
  IF state[p] = "pending"
    THEN /\ state' = [state EXCEPT ![p] = to]
         /\ text' = [text EXCEPT ![p] = withText]
    ELSE UNCHANGED <<state, text>>

(* Bug: the approval does not look at the state again. *)
SettleBlind(u) ==
  /\ End(u, "settle")
  /\ text' = [text EXCEPT ![target[u]] = TRUE]
  /\ UNCHANGED <<seen, state, due, refVars, store, captureVars>>

(* The approval's transition; a proposal decided meanwhile is a conflict. *)
Settle(u) ==
  /\ End(u, "settle")
  /\ Transition(target[u], "approved", TRUE)
  /\ UNCHANGED <<seen, due, refVars, store, captureVars>>

Reject(p) ==
  /\ state[p] = "pending"
  /\ Transition(p, "rejected", FALSE)
  /\ UNCHANGED <<callVars, due, refVars, store, captureVars>>

Elapse(p) ==
  /\ state[p] = "pending" /\ ~due[p]
  /\ due' = [due EXCEPT ![p] = TRUE]
  /\ UNCHANGED <<callVars, state, text, refVars, store, captureVars>>

(* expire_proposals, run by every listing; approving a proposal that is due *)
(* does the same to that one.                                               *)
Expire(p) ==
  /\ state[p] = "pending" /\ due[p]
  /\ Transition(p, "expired", FALSE)
  /\ UNCHANGED <<callVars, due, refVars, store, captureVars>>

----------------------------------------------------------------------------
(* records: references for the provider records that have none *)

ListRecords(u) ==
  /\ Listing
  /\ Goto(u, "idle", "listed")
  /\ seen' = [seen EXCEPT ![u] = {i \in Records : store[i] # "none"}]
  /\ UNCHANGED <<target, proposalVars, refVars, store, captureVars>>

(* list_record_refs leaves purged references out. *)
ListRefs(u) ==
  /\ Goto(u, "listed", "adopt")
  /\ seen' = [seen EXCEPT ![u] = {i \in @ : ref[i] \in {"none", "purged"}}]
  /\ UNCHANGED <<target, proposalVars, refVars, store, captureVars>>

Adopt(u) ==
  /\ pc[u] = "adopt"
  /\ \E i \in seen[u] :
       /\ AddRef(i, FALSE)
       /\ seen' = [seen EXCEPT ![u] = @ \ {i}]
  /\ UNCHANGED <<pc, target, proposalVars, store, captureVars>>

Listed(u) ==
  /\ Goto(u, "adopt", "idle") /\ seen[u] = {}
  /\ UNCHANGED <<target, seen, proposalVars, refVars, store, captureVars>>

----------------------------------------------------------------------------
(* correct_record, forget_record, purge_record *)

(* _record_target finds a reference of any status. *)
Address(u, i, step) ==
  /\ ref[i] # "none"
  /\ Begin(u, i, "idle", step)
  /\ UNCHANGED <<seen, proposalVars, refVars, store, captureVars>>

(* The provider has no such record any more: the call fails. *)
Missing(u) ==
  /\ pc[u] \in {"correct", "forget", "purge"} /\ store[target[u]] = "none"
  /\ End(u, pc[u])
  /\ UNCHANGED <<seen, proposalVars, refVars, store, captureVars>>

Provider(u, step, becomes, next) ==
  /\ Goto(u, step, next)
  /\ store[target[u]] # "none"
  /\ store' = [store EXCEPT ![target[u]] = becomes]
  /\ UNCHANGED <<target, seen, proposalVars, refVars, captureVars>>

Correct(u) == Provider(u, "correct", "live", "mark active")
Forget(u) == Provider(u, "forget", "hidden", "mark forgotten")
Purge(u) == Provider(u, "purge", "none", "clear")

(* purge_record_content, first statement: the text of the linked proposal. *)
Clear(u) ==
  LET i == target[u] IN
  /\ Goto(u, "clear", "mark purged")
  /\ text' = IF i \in Proposals /\ keyed[i] THEN [text EXCEPT ![i] = FALSE] ELSE text
  /\ UNCHANGED <<target, seen, state, due, refVars, store, captureVars>>

(* set_record_status *)
Mark(u, status) ==
  /\ \/ status = "active" /\ End(u, "mark active")
     \/ status = "forgotten" /\ End(u, "mark forgotten")
     \/ status = "purged" /\ End(u, "mark purged")
  /\ ref' = [ref EXCEPT ![target[u]] = status]
  /\ UNCHANGED <<seen, proposalVars, keyed, store, captureVars>>

----------------------------------------------------------------------------
(* An await raises: a database or provider error, a cancelled request. *)
Fail(c) ==
  /\ Failures /\ pc[c] # "idle"
  /\ pc' = [pc EXCEPT ![c] = "idle"]
  /\ target' = [target EXCEPT ![c] = None]
  /\ seen' = IF c \in Users THEN [seen EXCEPT ![c] = {}] ELSE seen
  /\ UNCHANGED <<proposalVars, refVars, store, captureVars>>

(* CaptureQueue.close, or the process dies: what is queued is gone. *)
Stop(w) ==
  /\ pc[w] # "idle" \/ queue[w] > 0
  /\ pc' = [pc EXCEPT ![w] = "idle"]
  /\ target' = [target EXCEPT ![w] = None]
  /\ queue' = [queue EXCEPT ![w] = 0]
  /\ UNCHANGED <<seen, proposalVars, refVars, store, consent, mode>>

----------------------------------------------------------------------------
WorkerStep(w) ==
  \/ Enqueue(w) \/ Take(w) \/ Extracted(w) \/ Stop(w)
  \/ \E p \in Proposals : Propose(w, p)
  \/ \E i \in Captures : Capture(w, i)

AddStep(c) == Check(c) \/ Recheck(c) \/ Lookup(c) \/ Ingest(c) \/ Link(c)

UserStep(u) ==
  \/ \E p \in Proposals : Approve(u, p)
  \/ \E i \in Imports : Import(u, i)
  \/ Settle(u) \/ ListRecords(u) \/ ListRefs(u) \/ Adopt(u) \/ Listed(u)
  \/ \E i \in Records, step \in {"correct", "forget", "purge"} : Address(u, i, step)
  \/ Missing(u) \/ Correct(u) \/ Forget(u) \/ Purge(u) \/ Clear(u)
  \/ \E status \in {"active", "forgotten", "purged"} : Mark(u, status)

Next ==
  \/ \E value \in BOOLEAN : SetConsent(value)
  \/ \E w \in Workers : WorkerStep(w)
  \/ \E c \in Callers : AddStep(c) \/ Fail(c)
  \/ \E u \in Users : UserStep(u)
  \/ \E p \in Proposals : Reject(p) \/ Elapse(p) \/ Expire(p)

Spec == Init /\ [][Next]_vars

----------------------------------------------------------------------------
CallStates ==
  {"idle", "extract", "check", "recheck", "lookup", "ingest", "link", "settle", "listed",
   "adopt", "correct", "forget", "purge", "clear", "mark active", "mark forgotten",
   "mark purged"}

TypeOK ==
  /\ pc \in [Callers -> CallStates]
  /\ target \in [Callers -> Records \cup {None}]
  /\ seen \in [Users -> SUBSET Records]
  /\ state \in [Proposals -> {"absent", "pending", "approved", "rejected", "expired"}]
  /\ text \in [Proposals -> BOOLEAN]
  /\ due \in [Proposals -> BOOLEAN]
  /\ ref \in [Records -> {"none", "active", "forgotten", "purged"}]
  /\ keyed \in [Records -> BOOLEAN]
  /\ store \in [Records -> {"none", "live", "hidden"}]
  /\ consent \in BOOLEAN
  /\ queue \in [Workers -> 0..QueueSize]
  /\ mode \in {"review", "automatic"}

(* A verdict clears the text: however approvals, rejections, expiry and     *)
(* purges overlap, a rejected or expired proposal holds no content.         *)
DiscardedTextGone ==
  \A p \in Proposals : state[p] \in {"rejected", "expired"} => ~text[p]

(* An approved proposal always has a reference through which its owner can  *)
(* correct, forget or purge it, also when the approving call failed halfway *)
(* and was repeated.                                                        *)
ApprovalIsBacked ==
  \A p \in Proposals : state[p] = "approved" => ref[p] # "none"

(* Nothing but a correction brings a forgotten record back into retrieval:  *)
(* not a capture, an import or an approval that stores the same id again.   *)
ForgottenStaysHidden ==
  [][\A i \in Records :
       store[i] = "hidden" /\ store'[i] = "live" =>
         \E u \in Users : target[u] = i /\ pc[u] = "correct"]_vars

(* Once a reference with the capture's id has been purged, background       *)
(* capture never stores that text again.                                    *)
TombstoneHolds ==
  [][\A i \in Captures :
       ref[i] = "purged" /\ keyed[i] /\ store[i] = "none" => store'[i] = "none"]_vars

(* The promise behind it: a text its owner has purged is not stored again   *)
(* by background capture, whoever created its reference.                    *)
PurgedStaysPurged ==
  [][\A i \in Captures : ref[i] = "purged" /\ store[i] = "none" => store'[i] = "none"]_vars

Quiet == \A c \in Callers : pc[c] = "idle"

(* "Agent UI clears any retained proposal text": after a hard purge, with   *)
(* no call in progress, the proposal's text is gone.                        *)
PurgeClearsText ==
  Quiet => \A p \in Proposals : ref[p] = "purged" => ~text[p]

(* A proposal the owner rejected, or let expire, is not recalled.           *)
RejectedNotRecalled ==
  Quiet => \A p \in Proposals : state[p] \in {"rejected", "expired"} => store[p] # "live"
============================================================================
