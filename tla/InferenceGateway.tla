------------------------- MODULE InferenceGateway -------------------------
(***************************************************************************)
(* One serialised llama.cpp backend of the gateway: the calls that want    *)
(* it, the lease they queue for, the coordinator that swaps models in the  *)
(* router, the clean-up of every outcome, and the catalog reload that      *)
(* replaces clients and leases under running calls.                        *)
(*                                                                         *)
(* A gateway process is a member of Workers.  Its capture worker, which    *)
(* sends extraction calls through the same backend, is the call named      *)
(* after the process.  A BackendRuntimeRegistry owns one GpuGate and one   *)
(* HTTP client: the registry a process builds at start-up is named after   *)
(* the process, the one a reload builds after the reload.  "Gate" below    *)
(* means that pair.                                                        *)
(***************************************************************************)
EXTENDS Naturals, SequencesExt

CONSTANTS
  Clients,          \* connections that issue inference requests, one at a time
  Workers,          \* gateway processes (WORKERS of the container entrypoint)
  Reloads,          \* calls of POST /api/admin/reload-catalog
  Models,           \* models the llama.cpp router can run
  None,
  Explicit,         \* gates whose coordinator mode is explicit; autoload or none elsewhere
  ReloadsOverlap,   \* may a reload start before another one has returned?
  QueueSize         \* automatic.queue_size

ASSUME ConstantsAssumption ==
  /\ Clients \cap Workers = {} /\ Workers \cap Reloads = {}
  /\ None \notin Clients \cup Workers \cup Reloads \cup Models
  /\ Explicit \subseteq Workers \cup Reloads /\ ReloadsOverlap \in BOOLEAN
  /\ QueueSize \in Nat

Calls == Clients \cup Workers
Gates == Workers \cup Reloads

VARIABLES
  pc,         \* where each call is in proxy_operation or model_extract
  gate,       \* the registry whose lease and client the call took
  model,      \* the upstream model it was routed to
  todo,       \* other models its coordinator pass has still to unload
  victim,     \* the one it waits for
  cleanup,    \* cleanup_request: "due", "running" (aclose awaited), "done"
  closer,     \* who runs it: "handler" (or the stream's iterator), "background"
  bg,         \* the StreamingResponse's BackgroundTask is still to run
  permits,    \* value of each gate's semaphore
  waiters,    \* calls queued on it, first in first out
  lock,       \* holder of each gate's transition lock
  client,     \* state of each gate's HTTP client
  backends,   \* runtime.backends of each process
  home,       \* the process that serves each reload, once it has started
  shuts,      \* the client that reload is closing
  queued,     \* length of each process's capture queue
  status      \* router: state of each model

callVars == <<gate, model>>
planVars == <<todo, victim>>
cleanupVars == <<cleanup, closer, bg>>
leaseVars == <<permits, waiters>>
deployVars == <<client, backends, home, shuts>>
vars == <<pc, callVars, planVars, cleanupVars, leaseVars, lock, deployVars,
          queued, status>>

----------------------------------------------------------------------------
(* The router as the coordinator sees it.  An unload takes time: until the  *)
(* instance has exited, a "stopping" model still reads as running.          *)

Resident == {m \in Models : status[m] \in {"loading", "loaded", "sleeping", "stopping"}}
ReadsReady(m) == status[m] \in {"loaded", "sleeping", "stopping"}
ReadsLoading(m) == status[m] \in {"loading", "stopping"}
ReadsUnloaded(m) == status[m] \in {"unloaded", "failed"}

Coordinating == {"list", "relist", "unload", "unloading", "loading"}
InLease == Coordinating \cup {"leased", "send", "generating", "streaming"}
Finishing == {"cleanup", "complete", "capture", "end"}
CallStates == {"idle", "waiting"} \cup InLease \cup Finishing

(* The call owns its gate's permit: it has acquired and not yet released it. *)
Holding(r) == pc[r] \in InLease \cup Finishing /\ cleanup[r] # "done"

(* An open upstream response: the router is generating for this call. *)
Serving(r) == pc[r] \in {"generating", "streaming"} /\ client[gate[r]] # "closed"

(* A call on a closed client gets a RuntimeError from every HTTP call. *)
Online(r) == client[gate[r]] = "open"

Goto(r, from, to) == pc[r] = from /\ pc' = [pc EXCEPT ![r] = to]

ProcessOf(g) == IF g \in Workers THEN g ELSE home[g]

Init ==
  /\ pc = [r \in Calls |-> "idle"]
  /\ gate = [r \in Calls |-> None]
  /\ model = [r \in Calls |-> None]
  /\ todo = [r \in Calls |-> {}]
  /\ victim = [r \in Calls |-> None]
  /\ cleanup = [r \in Calls |-> "due"]
  /\ closer = [r \in Calls |-> "handler"]
  /\ bg = [r \in Calls |-> FALSE]
  /\ permits = [g \in Gates |-> 1]
  /\ waiters = [g \in Gates |-> <<>>]
  /\ lock = [g \in Gates |-> None]
  /\ client = [g \in Gates |-> IF g \in Workers THEN "open" ELSE "unbuilt"]
  /\ backends = [w \in Workers |-> w]
  /\ home = [t \in Reloads |-> None]
  /\ shuts = [t \in Reloads |-> None]
  /\ queued = [w \in Workers |-> 0]
  /\ status = [m \in Models |-> "unloaded"]

----------------------------------------------------------------------------
(* Taking the lease *)

(* GpuGate.lease up to its yield: take the permit or join the queue. *)
Acquire(r, g, m) ==
  /\ pc[r] = "idle"
  /\ gate' = [gate EXCEPT ![r] = g]
  /\ model' = [model EXCEPT ![r] = m]
  /\ \/ /\ permits[g] > 0 /\ waiters[g] = <<>>
        /\ permits' = [permits EXCEPT ![g] = @ - 1]
        /\ pc' = [pc EXCEPT ![r] = "leased"]
        /\ UNCHANGED waiters
     \/ /\ permits[g] = 0 \/ waiters[g] # <<>>
        /\ waiters' = [waiters EXCEPT ![g] = Append(@, r)]
        /\ pc' = [pc EXCEPT ![r] = "waiting"]
        /\ UNCHANGED permits
  /\ UNCHANGED <<planVars, cleanupVars, lock, deployVars, status>>

(* proxy_operation up to lease.__aenter__: route, then take the backend of  *)
(* the registry that is current now.                                        *)
Request(c) ==
  /\ \E w \in Workers, m \in Models : Acquire(c, backends[w], m)
  /\ UNCHANGED queued

(* model_extract: its `backends` is the start-up registry of the process.   *)
Extract(w) ==
  /\ queued[w] > 0
  /\ queued' = [queued EXCEPT ![w] = @ - 1]
  /\ \E m \in Models : Acquire(w, w, m)

(* The extractor's experience does not resolve: the worker logs and goes on. *)
ExtractUnroutable(w) ==
  /\ pc[w] = "idle" /\ queued[w] > 0
  /\ queued' = [queued EXCEPT ![w] = @ - 1]
  /\ UNCHANGED <<pc, callVars, planVars, cleanupVars, leaseVars, lock, deployVars, status>>

(* Cancelled while it waits: the future leaves the semaphore's queue. *)
GiveUp(r) ==
  /\ Goto(r, "waiting", "idle")
  /\ \E i \in DOMAIN waiters[gate[r]] :
       /\ waiters[gate[r]][i] = r
       /\ waiters' = [waiters EXCEPT ![gate[r]] = RemoveAt(@, i)]
  /\ gate' = [gate EXCEPT ![r] = None]
  /\ model' = [model EXCEPT ![r] = None]
  /\ UNCHANGED <<planVars, cleanupVars, permits, lock, deployVars, queued, status>>

----------------------------------------------------------------------------
(* LlamaModelCoordinator.ensure_loaded *)

EnsureLoaded(r) ==
  /\ pc[r] = "leased"
  /\ \/ /\ gate[r] \notin Explicit
        /\ pc' = [pc EXCEPT ![r] = "send"]
        /\ UNCHANGED lock
     \/ /\ gate[r] \in Explicit /\ lock[gate[r]] = None
        /\ lock' = [lock EXCEPT ![gate[r]] = r]
        /\ pc' = [pc EXCEPT ![r] = "list"]
  /\ UNCHANGED <<callVars, planVars, cleanupVars, leaseVars, deployVars, queued, status>>

(* What the statuses just listed lead to: the model is ready, it is being   *)
(* loaded, or every other running model has to go first.                    *)
Decide(r) ==
  /\ \/ /\ ReadsReady(model[r])
        /\ pc' = [pc EXCEPT ![r] = "send"]
        /\ lock' = [lock EXCEPT ![gate[r]] = None]
        /\ UNCHANGED todo
     \/ /\ ReadsLoading(model[r])
        /\ pc' = [pc EXCEPT ![r] = "loading"]
        /\ UNCHANGED <<lock, todo>>
     \/ /\ ReadsUnloaded(model[r])
        /\ pc' = [pc EXCEPT ![r] = "unload"]
        /\ todo' = [todo EXCEPT ![r] = Resident \ {model[r]}]
        /\ UNCHANGED lock
  /\ UNCHANGED <<callVars, victim, cleanupVars, leaseVars, deployVars, queued, status>>

List(r) ==
  /\ pc[r] = "list" /\ Online(r)
  /\ Decide(r)

(* The router does not list the target: ask it to re-read its presets. *)
ListMissing(r) ==
  /\ Goto(r, "list", "relist") /\ Online(r)
  /\ UNCHANGED <<callVars, planVars, cleanupVars, leaseVars, lock, deployVars, queued, status>>

Relist(r) ==
  /\ pc[r] = "relist" /\ Online(r)
  /\ Decide(r)

(* POST /models/unload; the router refuses a model that is not running. *)
PostUnload(r) ==
  /\ Goto(r, "unload", "unloading") /\ Online(r)
  /\ \E m \in todo[r] \cap Resident :
       /\ victim' = [victim EXCEPT ![r] = m]
       /\ status' = [status EXCEPT ![m] = "stopping"]
  /\ UNCHANGED <<callVars, todo, cleanupVars, leaseVars, lock, deployVars, queued>>

(* _wait_for(victim, {"unloaded"}): a failed flag raises instead. *)
SeeUnloaded(r) ==
  /\ Goto(r, "unloading", "unload") /\ Online(r)
  /\ status[victim[r]] = "unloaded"
  /\ todo' = [todo EXCEPT ![r] = @ \ {victim[r]}]
  /\ victim' = [victim EXCEPT ![r] = None]
  /\ UNCHANGED <<callVars, cleanupVars, leaseVars, lock, deployVars, queued, status>>

(* Bug: the target is loaded before the others have been unloaded. *)
PostLoadEager(r) ==
  /\ Goto(r, "unload", "loading") /\ Online(r)
  /\ model[r] \notin Resident
  /\ status' = [status EXCEPT ![model[r]] = "loading"]
  /\ UNCHANGED <<callVars, planVars, cleanupVars, leaseVars, lock, deployVars, queued>>

(* POST /models/load; refused for a model that is running. *)
PostLoad(r) ==
  /\ Goto(r, "unload", "loading") /\ Online(r)
  /\ todo[r] = {}
  /\ model[r] \notin Resident
  /\ status' = [status EXCEPT ![model[r]] = "loading"]
  /\ UNCHANGED <<callVars, planVars, cleanupVars, leaseVars, lock, deployVars, queued>>

(* _wait_for(target, {"loaded", "sleeping"}) returns, and with it ensure_loaded. *)
SeeReady(r) ==
  /\ Goto(r, "loading", "send") /\ Online(r)
  /\ ReadsReady(model[r])
  /\ lock' = [lock EXCEPT ![gate[r]] = None]
  /\ UNCHANGED <<callVars, planVars, cleanupVars, leaseVars, deployVars, queued, status>>

----------------------------------------------------------------------------
(* The upstream request *)

(* The router wakes a sleeping model and, in autoload mode, loads a missing one. *)
Send(r) ==
  /\ Goto(r, "send", "generating") /\ Online(r)
  /\ status' = [status EXCEPT ![model[r]] =
                  CASE @ = "sleeping" -> "loaded"
                    [] @ \in {"unloaded", "failed"} /\ gate[r] \notin Explicit -> "loading"
                    [] OTHER -> @]
  /\ UNCHANGED <<callVars, planVars, cleanupVars, leaseVars, lock, deployVars, queued>>

(* A complete answer, an error answer, or the headers of a stream. *)
Respond(r) ==
  /\ pc[r] = "generating" /\ Serving(r)
  /\ \E to \in {"cleanup"} \cup
               (IF status[model[r]] \in {"loaded", "stopping"}
                THEN {"complete"} \cup (IF r \in Clients THEN {"streaming"} ELSE {})
                ELSE {}) :
       pc' = [pc EXCEPT ![r] = to]
  /\ UNCHANGED <<callVars, planVars, cleanupVars, leaseVars, lock, deployVars, queued, status>>

(* aiter_raw is exhausted; the response's background task is due afterwards. *)
EndOfStream(r) ==
  /\ Goto(r, "streaming", "complete") /\ Serving(r)
  /\ bg' = [bg EXCEPT ![r] = TRUE]
  /\ UNCHANGED <<callVars, planVars, cleanup, closer, leaseVars, lock, deployVars, queued, status>>

(* Bug: a stream relies on its iterator alone to release the lease. *)
DisconnectNoTask(r) ==
  /\ pc[r] = "streaming"
  /\ \E to \in {"cleanup", "end"} : pc' = [pc EXCEPT ![r] = to]
  /\ UNCHANGED <<callVars, planVars, cleanupVars, leaseVars, lock, deployVars, queued, status>>

(* The client goes away.  The iterator is finalised, unless it never        *)
(* started, while the background task runs.                                 *)
Disconnect(r) ==
  /\ pc[r] = "streaming"
  /\ \E to \in {"cleanup", "end"} : pc' = [pc EXCEPT ![r] = to]
  /\ bg' = [bg EXCEPT ![r] = TRUE]
  /\ UNCHANGED <<callVars, planVars, cleanup, closer, leaseVars, lock, deployVars, queued, status>>

(* Any exception while the lease is held: a closed client, an HTTP error, a *)
(* missing or failed model, the deadline of _wait_for, a broken stream, a   *)
(* cancelled task.  Leaving ensure_loaded releases the transition lock.     *)
Abort(r) ==
  /\ pc[r] \in InLease
  /\ pc' = [pc EXCEPT ![r] = "cleanup"]
  /\ lock' = [lock EXCEPT ![gate[r]] = IF @ = r THEN None ELSE @]
  /\ todo' = [todo EXCEPT ![r] = {}]
  /\ victim' = [victim EXCEPT ![r] = None]
  /\ UNCHANGED <<callVars, cleanupVars, leaseVars, deployVars, queued, status>>

----------------------------------------------------------------------------
(* cleanup_request *)

(* Who may be inside it: the handler (or the stream's iterator), and the    *)
(* background task once the iterator is no longer being driven.             *)
MayClean(r, who) ==
  IF who = "handler" THEN pc[r] \in {"cleanup", "complete"}
                     ELSE bg[r] /\ pc[r] \in {"cleanup", "end"}

(* Bug: nothing remembers that the clean-up has been done. *)
CleanupEnterAgain(r, who) ==
  /\ MayClean(r, who) /\ cleanup[r] # "running"
  /\ cleanup' = [cleanup EXCEPT ![r] = "running"]
  /\ closer' = [closer EXCEPT ![r] = who]
  /\ UNCHANGED <<pc, callVars, planVars, bg, leaseVars, lock, deployVars, queued, status>>

CleanupEnter(r, who) ==
  /\ MayClean(r, who) /\ cleanup[r] = "due"
  /\ cleanup' = [cleanup EXCEPT ![r] = "running"]
  /\ closer' = [closer EXCEPT ![r] = who]
  /\ UNCHANGED <<pc, callVars, planVars, bg, leaseVars, lock, deployVars, queued, status>>

(* Where the handler goes when its call of cleanup_request returns. *)
Cleaned(r) == IF pc[r] = "complete" THEN "capture" ELSE "end"

Woken(g) == IF waiters[g] = <<>> THEN {} ELSE {Head(waiters[g])}

(* Bugs: the permit is counted without waking a waiter; it is lost when     *)
(* aclose raises.                                                           *)
CleanupLeaveSilent(r) ==
  /\ cleanup[r] = "running" /\ closer[r] = "handler"
  /\ cleanup' = [cleanup EXCEPT ![r] = "done"]
  /\ permits' = [permits EXCEPT ![gate[r]] = @ + 1]
  /\ pc' = [pc EXCEPT ![r] = Cleaned(r)]
  /\ UNCHANGED <<callVars, planVars, closer, bg, waiters, lock, deployVars, queued, status>>

CleanupLeaveRaises(r) ==
  /\ cleanup[r] = "running"
  /\ cleanup' = [cleanup EXCEPT ![r] = "done"]
  /\ bg' = [bg EXCEPT ![r] = FALSE]
  /\ pc' = [pc EXCEPT ![r] = "end"]
  /\ UNCHANGED <<callVars, planVars, closer, leaseVars, lock, deployVars, queued, status>>

(* aclose has returned or raised: leave the lease.  The semaphore passes    *)
(* its permit to the first waiter.                                          *)
CleanupLeave(r) ==
  LET g == gate[r] IN
  /\ cleanup[r] = "running"
  /\ cleanup' = [cleanup EXCEPT ![r] = "done"]
  /\ bg' = [bg EXCEPT ![r] = @ /\ closer[r] # "background"]
  /\ IF Woken(g) = {}
       THEN permits' = [permits EXCEPT ![g] = @ + 1] /\ UNCHANGED waiters
       ELSE waiters' = [waiters EXCEPT ![g] = Tail(@)] /\ UNCHANGED permits
  /\ pc' = [c \in Calls |-> IF c \in Woken(g) THEN "leased"
                            ELSE IF c = r /\ closer[r] = "handler" THEN Cleaned(r)
                            ELSE pc[c]]
  /\ UNCHANGED <<callVars, planVars, closer, lock, deployVars, queued, status>>

(* The second caller finds cleanup_done set. *)
CleanupSkip(r, who) ==
  /\ MayClean(r, who) /\ cleanup[r] = "done"
  /\ IF who = "handler"
       THEN pc' = [pc EXCEPT ![r] = Cleaned(r)] /\ UNCHANGED bg
       ELSE bg' = [bg EXCEPT ![r] = FALSE] /\ UNCHANGED pc
  /\ UNCHANGED <<callVars, planVars, cleanup, closer, leaseVars, lock, deployVars, queued, status>>

(* Bug: the queue has no limit. *)
CaptureUnbounded(r) ==
  /\ Goto(r, "capture", "end")
  /\ r \in Clients
  /\ queued' = [queued EXCEPT ![ProcessOf(gate[r])] = @ + 1]
  /\ UNCHANGED <<callVars, planVars, cleanupVars, leaseVars, lock, deployVars, status>>

(* enqueue_capture after a completed response: dropped when the caller may  *)
(* not capture or the queue is full.  An extraction's result is not queued. *)
Capture(r) ==
  /\ Goto(r, "capture", "end")
  /\ \/ UNCHANGED queued
     \/ LET w == ProcessOf(gate[r]) IN
        /\ r \in Clients /\ queued[w] < QueueSize
        /\ queued' = [queued EXCEPT ![w] = @ + 1]
  /\ UNCHANGED <<callVars, planVars, cleanupVars, leaseVars, lock, deployVars, status>>

(* The call is over; its actor may start another. *)
Finish(r) ==
  /\ Goto(r, "end", "idle")
  /\ cleanup[r] = "done" /\ ~bg[r]
  /\ gate' = [gate EXCEPT ![r] = None]
  /\ model' = [model EXCEPT ![r] = None]
  /\ cleanup' = [cleanup EXCEPT ![r] = "due"]
  /\ closer' = [closer EXCEPT ![r] = "handler"]
  /\ UNCHANGED <<planVars, bg, leaseVars, lock, deployVars, queued, status>>

----------------------------------------------------------------------------
(* reload_catalog *)

Reloading(t) == home[t] # None /\ client[t] = "unbuilt"

(* Bug: the old client is left open. *)
ReloadKeepsClient(t, w) ==
  /\ home[t] = None
  /\ home' = [home EXCEPT ![t] = w]
  /\ UNCHANGED <<pc, callVars, planVars, cleanupVars, leaseVars, lock, client, backends,
                 shuts, queued, status>>

(* The document has been read; runtime.backends.close() is awaited.  The    *)
(* client refuses new calls at once, its connections go as the close ends.  *)
(* Closing a client that is already closing returns immediately.            *)
ReloadStart(t, w) ==
  /\ home[t] = None
  /\ ReloadsOverlap \/ \A u \in Reloads : ~Reloading(u)
  /\ home' = [home EXCEPT ![t] = w]
  /\ LET g == backends[w] IN
     IF client[g] = "open"
       THEN /\ client' = [client EXCEPT ![g] = "closing"]
            /\ shuts' = [shuts EXCEPT ![t] = g]
       ELSE UNCHANGED <<client, shuts>>
  /\ UNCHANGED <<pc, callVars, planVars, cleanupVars, leaseVars, lock, backends, queued, status>>

(* Bug: the new registry is installed while the old one's close goes on. *)
ReloadFinishEarly(t) ==
  /\ Reloading(t)
  /\ client' = [client EXCEPT ![t] = "open"]
  /\ backends' = [backends EXCEPT ![home[t]] = t]
  /\ UNCHANGED <<pc, callVars, planVars, cleanupVars, leaseVars, lock, home, shuts, queued, status>>

(* The old connections are gone and the new registry is installed. *)
ReloadFinish(t) ==
  /\ Reloading(t)
  /\ client' = [g \in Gates |-> IF g = t THEN "open"
                                ELSE IF g = shuts[t] THEN "closed" ELSE client[g]]
  /\ backends' = [backends EXCEPT ![home[t]] = t]
  /\ UNCHANGED <<pc, callVars, planVars, cleanupVars, leaseVars, lock, home, shuts, queued, status>>

----------------------------------------------------------------------------
(* The router on its own: loads succeed or fail, idle models fall asleep,   *)
(* instances crash or finish stopping.                                      *)

RouterStep(m) ==
  /\ \E s \in CASE status[m] = "loading" -> {"loaded", "failed"}
                [] status[m] = "loaded" ->
                     {"failed"} \cup
                     (IF \E r \in Calls : Serving(r) /\ model[r] = m THEN {} ELSE {"sleeping"})
                [] status[m] = "stopping" -> {"unloaded", "failed"}
                [] OTHER -> {} :
       status' = [status EXCEPT ![m] = s]
  /\ UNCHANGED <<pc, callVars, planVars, cleanupVars, leaseVars, lock, deployVars, queued>>

----------------------------------------------------------------------------
Ensure(r) ==
  \/ EnsureLoaded(r) \/ List(r) \/ ListMissing(r) \/ Relist(r)
  \/ PostUnload(r) \/ SeeUnloaded(r) \/ PostLoad(r) \/ SeeReady(r)

Cleanup(r) ==
  \/ \E who \in {"handler", "background"} : CleanupEnter(r, who) \/ CleanupSkip(r, who)
  \/ CleanupLeave(r)

(* What a call that holds the lease, or has just left it, does by itself. *)
Progress(r) ==
  \/ Ensure(r) \/ Send(r) \/ Respond(r) \/ EndOfStream(r) \/ Abort(r)
  \/ Cleanup(r) \/ Capture(r) \/ Finish(r)

Next ==
  \/ \E c \in Clients : Request(c) \/ Disconnect(c)
  \/ \E w \in Workers : Extract(w) \/ ExtractUnroutable(w)
  \/ \E r \in Calls : GiveUp(r) \/ Progress(r)
  \/ \E t \in Reloads : ReloadFinish(t) \/ \E w \in Workers : ReloadStart(t, w)
  \/ \E m \in Models : RouterStep(m)

Spec == Init /\ [][Next]_vars

(* The event loop schedules every task, _wait_for has a deadline, and the   *)
(* upstream ends every response or breaks it off.  Nothing else is fair.    *)
FairSpec == Spec /\ \A r \in Calls : WF_vars(Progress(r))

----------------------------------------------------------------------------
TypeOK ==
  /\ pc \in [Calls -> CallStates]
  /\ gate \in [Calls -> Gates \cup {None}]
  /\ model \in [Calls -> Models \cup {None}]
  /\ todo \in [Calls -> SUBSET Models]
  /\ victim \in [Calls -> Models \cup {None}]
  /\ cleanup \in [Calls -> {"due", "running", "done"}]
  /\ closer \in [Calls -> {"handler", "background"}]
  /\ bg \in [Calls -> BOOLEAN]
  /\ permits \in [Gates -> Nat]
  /\ waiters \in [Gates -> Seq(Calls)]
  /\ lock \in [Gates -> Calls \cup {None}]
  /\ client \in [Gates -> {"unbuilt", "open", "closing", "closed"}]
  /\ backends \in [Workers -> Gates]
  /\ home \in [Reloads -> Workers \cup {None}]
  /\ shuts \in [Reloads -> Gates \cup {None}]
  /\ queued \in [Workers -> 0..QueueSize]
  /\ status \in [Models -> {"unloaded", "failed", "loading", "loaded",
                            "sleeping", "stopping"}]

(* A lease is held by at most one call, is never lost and never returned    *)
(* twice: whatever mix of errors, cancellations, disconnects and double     *)
(* clean-ups a gate has seen, either its permit is free or exactly one      *)
(* call owns it.                                                            *)
LeaseBalanced ==
  \A g \in Gates :
    LET holders == {r \in Calls : Holding(r) /\ gate[r] = g} IN
    \/ permits[g] = 1 /\ holders = {}
    \/ permits[g] = 0 /\ \E h \in Calls : holders = {h}

(* No wake-up is lost: nobody queues for a permit that is free. *)
NoIdlePermit == \A g \in Gates : permits[g] > 0 => waiters[g] = <<>>

(* The card holds one model at a time: a load is only ever ordered into a   *)
(* router where nothing else is loading, loaded, asleep or still stopping.  *)
OneResident == \A m, n \in Resident : m = n

(* Whoever orders an unload never takes the model from under another call's *)
(* open response (docs/ARCHITECTURE.md: "This prevents one request from     *)
(* unloading a model used by another request").                             *)
NoUnloadInUse ==
  [][\A m \in Models :
       status[m] # "stopping" /\ status'[m] = "stopping" =>
         \A r \in Calls : Serving(r) => model[r] # m]_vars

(* An extraction that starts when no reload is in progress finds a client   *)
(* it can use (the capture worker of a reloaded gateway keeps working).     *)
ExtractorHasClient ==
  [][\A w \in Workers :
       pc[w] = "idle" /\ pc'[w] # "idle" /\ (\A t \in Reloads : ~Reloading(t))
         => client[gate'[w]] = "open"]_vars

(* The gateway implements the promise of ExclusiveBackend.  A response ends  *)
(* for the promise when the call stops reading it or its connection is cut.  *)
Exclusive == INSTANCE ExclusiveBackend WITH
  resident <- Resident,
  condemned <- {m \in Models : status[m] = "stopping"},
  serving <- {<<r, model[r]>> : r \in {c \in Calls : Serving(c)}}

ImplementsExclusive == Exclusive!Spec

(* The lease queue is not a trap: a call that waits is served or gives up.  *)
WaitEnds == \A r \in Calls : pc[r] = "waiting" ~> pc[r] # "waiting"

(* Every lease comes back, also when the router is stuck in a transition,   *)
(* the client is closed under the call, or the client goes away.            *)
LeaseReturns == \A r \in Calls : Holding(r) ~> ~Holding(r)
============================================================================
