# Formal model of Agent UI

TLA+ modules for the stateful core of Agent UI: the gateway that shares one
llama.cpp router between concurrent requests, the memory behind it, and the control
plane that writes the files both are started from.
TLC checks the modules on small instances, TLAPS proves the main safety results
for every size. All source paths below are relative to the repository root;
`hub/` abbreviates `services/gateway/src/local_ai_hub/`.

## 1. Inventory

### Gateway

| Part | State | Operations | Talks to |
|---|---|---|---|
| **GPU lease** `hub/gpu.py` | a semaphore of one permit with a FIFO queue, a transition lock | `lease` (acquire, yield, release) | held by the request handler and by the extractor |
| **Model coordinator** `hub/coordinator.py` | none of its own; reads the router | `list_models`, `ensure_loaded`, `_wait_for`, `status_payload` | HTTP to the llama.cpp router |
| **Backend registry** `hub/backends.py` | per backend: HTTP client, gate, coordinator | `build`, `get`, `lease`, `request`, `close`, `status` | owned by `Runtime`, replaced by a reload |
| **Request handler** `hub/app.py` `proxy_operation` | `cleanup_done`, `cleanup_lock`, the open upstream response | route, lease, load, forward, stream, clean up, enqueue capture | all of the above, memory service, capture queue |
| **Reload** `hub/app.py` `reload_catalog` | `app.state.registry`, `runtime.backends` | close old clients, build and install new ones | runs under live requests |
| **Capture queue** `hub/memory_capture.py` | a bounded in-process queue, one worker task | `enqueue`, `_run`, `close` | extractor (through the same backend and lease), memory service |
| **Routing** `hub/profiles.py`, `hub/routing.py`, `hub/config.py` | a read-only document | `resolve`, `_resolve_auto`, `_select_model`, `advertised_models` | called by handler and extractor |
| **Transformation** `hub/transform.py`, `hub/upstream.py` | none | payload rewriting | handler |
| **Identity** `hub/identity.py` | none | `authenticate_request` | middleware |
| **Observability, memory page** | metrics; a static page | - | - |

### Memory

| Part | State | Operations |
|---|---|---|
| **Memory service** `hub/memory_service.py` | none; a sequence of awaits per call | settings, `context`, `add_approved`, `add_proposals`, `add_automatic_candidates`, `approve/reject_proposal`, `records`, `correct/forget/purge_record`, `import_personal`, bridges, game spaces |
| **Repository** `hub/memory_repository.py` | tables: settings, spaces, memberships, proposals, record references, bridge consents, audit | one SQL statement per operation; `purge_record_content` has two |
| **Provider** `hub/memory_provider.py`, `hub/memory.py` | table `memories`, or a remote continuity service | `ingest` under a stable id, `correct`, `forget`, `purge`, `list_records`, `context_load` |

No transaction spans repository and provider, so each call of the service is a
sequence of separately committed steps.

### Control plane and deployment

| Part | State | Operations |
|---|---|---|
| **Commands** `ops/hubctl.py`, `hub` | catalog overlay, memory overlay, managed weights | `catalog apply`, `model register/fetch/remove`, `memory apply/enable/disable`: read, edit, validate, replace |
| **Renderer** `ops/hubctl.py` `runtime render` | `models.ini`, `catalog.resolved.json`, `profiles.json`, `memory.resolved.yaml`, their owner, `compose.generated.yaml` | one file after the other; run by a command and again by the `config-init` container |
| **Services** `compose.yaml` | what router and gateway read when they started | recreated by `apply_runtime_if_running`, restarted by Docker |

`deploy/docker/gateway-entrypoint.py` starts `GATEWAY_WORKERS` uvicorn processes.
`ops/*.sh` wrap external commands.

### What is hard here, and what has to hold

* **Many tasks, one card.** Requests and extractions interleave at every await.
  A lease must never be lost or returned twice, no wake-up may be lost, the router
  must hold one model at a time, and no model may be unloaded under a response.
* **Failure anywhere.** Every await may raise or be cancelled: a transition that
  times out leaves the router mid-swap, a client may vanish before its stream
  starts, `aclose` may raise. The lease has to come back each time.
* **Reload under load.** A reload replaces the gate that callers hold or queue for.
* **Several processes.** Gate, capture queue and registry are per process; the
  router and the database are shared.
* **Two stores, no transaction.** Approve, reject, expire, list, correct, forget,
  purge, import and capture of the same record overlap between their steps. A
  discarded text must not come back, a forgotten record must stay hidden, a purged
  text must not be captured again, an approved proposal must be reachable.
* **Spaces and events.** Consents, settings and worlds change while a context is being
  loaded; events are delivered again after lost answers and restarts.
* **Control plane.** Overlay edits read, modify and replace; rendering replaces
  several files one by one; a download replaces weights before it checks them; two
  services read the files at different times; any of it may be killed.
* **Routing.** What is listed as available should resolve, and what resolves to a local
  model should be behind the router.

`PROJECT.json` lists each hazard with its line and the properties that cover it.

## 2. Modules

| Module | What it is |
|---|---|
| `ExclusiveBackend` | What the gateway promises about one backend, in three variables |
| `InferenceGateway` | Lease, coordinator, handler, extractor, reload and router |
| `InferenceGatewayProofs` | Theorems on types, leases and wake-ups |
| `ExclusionProofs` | Theorems on the resident model and on unloads |
| `RefinementProofs` | Theorem: `InferenceGateway` implements `ExclusiveBackend` |
| `MemoryLifecycle` | Capture, review, import and the life of a stored record |
| `MemoryLifecycleProofs` | Theorems on proposals, references, forgotten records, tombstones, and on what would keep the promises the code does not |
| `EventLedger` | What the game integration promises about one event, in two variables |
| `MemorySpaces` | Game spaces and events, bridges, settings, context, the provider's readiness |
| `MemorySpacesProofs` | Theorems on readiness, withdrawn consents, and the refinement of `EventLedger` |
| `CatalogDocument` | Operators: merge, the two validators, the registry's routing |
| `ControlPlane` | Commands, renderers, services; extends `CatalogDocument` |
| `CatalogProofs` | Theorems on merging, on the two validators and on routing |
| `ControlPlaneProofs` | Theorems on types, the overlay and the weights |
| `RuntimeFilesProofs` | Theorems on what overlay, files, services and routing have to do with each other |
| `MCInferenceGateway`, `MCMemoryLifecycle`, `MCMemorySpaces`, `MCControlPlane` | Instances for TLC |

### InferenceGateway

A *call* is a client's request or the extraction call of a process's capture worker.
`pc` says where it is: `waiting` (in `GpuGate.lease`), `leased`, the steps of
`ensure_loaded` (`list`, `relist`, `unload`, `unloading`, `loading`), `send`,
`generating` (awaiting the response), `streaming`, then `cleanup` or `complete`
(inside or before `cleanup_request`), `capture` and `end`. Each action is what the
code does between two awaits.

* `permits`, `waiters` are the semaphore of each gate, `lock` its transition lock. A
  release hands the permit to the first waiter (`CleanupLeave`), as asyncio's does.
* `cleanup`, `closer`, `bg` are `cleanup_done` with the `cleanup_lock`, who is inside,
  and the background task of a `StreamingResponse`. `Disconnect` covers both ways a
  client vanishes: after the iterator has started (its `finally` runs too) and before
  (only the background task runs).
* `Abort` is every exception while the lease is held: an HTTP error, a failed or
  missing model, the deadline of `_wait_for`, a closed client, a cancelled task.
* The extractor has no `cleanup_request`: the `finally: aclose` and the `async with`
  of `model_extract` close the response and return the lease in the same order, so its
  call takes the same cleanup actions with itself as the only closer.
* A *gate* stands for a registry: its `GpuGate` and its HTTP client. `client` goes
  from `open` over `closing` (new calls raise at once, open responses go on) to
  `closed`. `backends` is `runtime.backends`; the extractor uses the gate of start-up.
* `status` is the router. Loads succeed or fail, instances crash, fall asleep, wake;
  an unload takes time and until the instance is gone the model still reads as
  running or loading (`stopping`). These steps are external and are modelled from how
  the coordinator uses them and from the router of `tests/test_coordinator.py:12-50`.

`ExclusiveBackend` has the set of resident models, those ordered to leave and the
responses in progress. Load and unload are ordered only between responses, a load only
into an empty card. The refinement mapping (`Exclusive`, at the end of
`InferenceGateway`) reads the three from `status`, `pc`, `model` and `client`.

### MemoryLifecycle

One principal's personal space. A *record* is named after the identity its provider
id is derived from (`uuid5` over the record id): the proposal, the digest of a captured
text, or an import's id. `state`, `text`, `due` are `memory_proposals`; `ref` and
`keyed` are `memory_record_refs` (status; whether it carries its proposal or external
id); `store` is `memories` (absent, live, hidden by `forgotten_at`). `pc` and `target`
place each API call or capture worker at its next await. `Fail` breaks a call off at
any await, `Stop` ends a worker and drops its queue.

### MemorySpaces

A *space* is a pair of principal and name. `world` and `consent` are `memory_spaces` and
`memory_bridge_consents`, `refs` is `memory_record_refs` with its unique index on the
external id, `store` what the provider holds, each record under an id derived from its
scope and external id. A deliverer is a call of `ingest_game_event` (`find`, `ingest`,
`ref`), a reader one of `context` or `game_context` (`settings`, `load`, `bridges`,
`source`): one step per await, working on the row it has read. `Lost` ends a call after its
statement was executed, `Restart` ends all of them and may bring another operator policy,
`ProviderChanges` takes the provider down, removes a capability, or brings it back. `Start`,
`Ask`, `Info` and `Healthz` are `MemoryService.start` and `ping` over
`ContinuityHttpProvider`. `moved`, `crossed`, `wasOn` and `acked` are histories the
properties read; no action's guard does.

`EventLedger` records an event once and acknowledges it only then. The refinement
mapping counts the copies in `store` per scope and event, which is all the provider knows:
spaces that one owner registers with the same world share a scope and its records, and
`WithdrawnStaysOut` speaks of scopes for that reason.

### CatalogDocument and ControlPlane

A document is a function from sections to functions from ids to entries, and an entry one
from field names to values; only the fields that decide acceptance, routing and rendering
are there. `artifact` is a mapping of its own (`kind` and what locates the weights);
`capabilities` is a mapping or a list of names. `MergeDocument` is `merge_mapping`: a null
removes, two mappings merge, anything else, a list too, replaces. `ValidateCatalog` and
`LoadsProfiles` are the two validators: the second takes ids of any form, and asks for the
types of flags and priorities, for an artifact that is no null, for no route but `auto`, and
reads `backend_model`, the other name of an experience's `model`. `Normalized` is the
rewriting of lists to mappings. Rendering does it, and so does `validate_catalog`, in place:
a model the base lacks is the same object in the merged catalog and in the overlay to be
written, so its list is rewritten there too (`Written` in `ControlPlane`).
`Candidates` to `Resolve` are `ProfileRegistry`, of a text given by
how many patterns of each kind it matches.

`RenderModelsIni` makes a preset, a name and a path, for every enabled local model whose
artifact has one; `RenderComposeOverride` makes a mount, a source and a target, for those
that are a host path or a Docker volume and whose backend is enabled. `container_path`,
`pvc` and `hostPath` have a preset and no mount (`docs/MODEL_SOURCES.md:82` says so of the
first); managed weights lie on the router's own volume.

An operator's `pc` walks through one command: `read`, `write` for an overlay; `fetch`,
`verify`, `unlink` or `remove` for weights; then `render` (whose steps are in `rpc`, since
`config-init` takes the same), `compose`, `recreate`, `starting`. `seen` is the overlay read
and edited but not yet written, `shot` the catalog a renderer has loaded, `plan` the compose
file `docker compose` has read, null until the command recreates the services. `router` is what the running router was started with,
`serving` what the gateway loaded. A command may overlap any other, and `Crash` may end it,
or the container's renderer, before any step; `alone` remembers that nothing overlapped.

## 3. What TLC checks

| Run | Instance | Properties | Result |
|---|---|---|---|
| `core` | 2 clients, the extractor, 1 process, 1 reload, 2 models, queue of 1 | `TypeOK`, `LeaseBalanced`, `NoIdlePermit`, `OneResident`, `NoUnloadInUse`, `ImplementsExclusive` | hold |
| `live` | 1 client, the extractor, 1 reload to autoload mode, 2 models | `WaitEnds`, `LeaseReturns` | hold |
| `memory` | 2 owner's calls, 1 worker, 1 proposal or 1 captured text and 1 import, failures | `TypeOK`, `DiscardedTextGone`, `ApprovalIsBacked`, `ForgottenStaysHidden`, `TombstoneHolds` | hold |
| `plane` | 2 operators, 13 commands of which any 2, 1 kill; or a third, 27 edits of which any 2 after each other; 2 initial overlays | `TypeOK`, `OverlayAccepted`, `FilesFollowOverlay`, `ServicesFollowFiles`, `RoutedModelServed`, `AvailableResolves`, `UnverifiedOnlyWhileFetching`, `AppliedTakesEffect`, `Recovers` | hold |
| `spaces` | 2 deliverers, or a deliverer, a reader and the owner, with a space that moves between 2 worlds and up to 2 faults, or with 2 spaces that share a world; or a prober and 3 faults | `TypeOK`, `WithdrawnStaysOut`, `OptOutIsHeard`, `ReadyMeansVerified`, `AcknowledgedIsLoaded`, `ImplementsLedger`, `Acknowledged`, `OptionalReturns` | hold |
| `workers` | 2 processes, 1 client | `NoUnloadInUse` | violated |
| `extractor` | 1 client, 1 reload | `ExtractorHasClient` | violated |
| `purge`, `reject` | 2 calls, 1 proposal | `PurgeClearsText`, `RejectedNotRecalled` | violated |
| `resurrect` | 2 calls, 1 worker, 1 captured text | `PurgedStaysPurged` | violated |
| `nullkey` | 1 operator, an overlay that has a section | `NullRemoves` | violated |
| `accepted` | 1 operator, 2 registrations of a model | `AcceptedCatalogLoads` | violated |

**Why the bounds suffice.** Two calls beside the extractor make three competitors: one
holds the lease, one waits, one arrives or is cancelled, so queue order, hand-over and
cancellation all occur. Two models are enough for a swap, for a third party's load and
for a pending unload. One reload gives calls of the old gate, of the new one and the
extractor at once; more reloads are covered by the theorems. A capture queue of 1 is full and empty in the same run. For memory, one record
is enough because no statement relates two records except a listing; two calls and a
worker give every overlap of two, and of a background step with two. All counters are
bounded by the code itself (`QueueSize`); the constraint `OneKind` keeps an import and a
reviewed proposal apart, which only share the listing. There is one worker: with two,
both may look before either stores, and the tombstone is late (a hazard without a
property).

For the control plane, two commands are every overlap of two, and a command after one
that was killed; the second operator has the commands that touch what the first one's do.
One kill is enough for a half-rendered generation, which the next command has to repair.
A third operator is there for the documents, with the constraint `EditsApart`: nobody meets
its commands and nothing is killed among them, but they change single fields: capabilities as lists
and as mappings, on a model of the base, on a new one and on both after each other; the
artifact as a whole, by kind, and one field of it; experiences pinned by either name; and files that
are refused. Two edits on top of an overlay that has some give each merge its three levels.
The catalog has a local and a remote backend, a managed and a linked model, an automatic, a
pinned and a capability experience; `RoutedModelServed`, which speaks of commands that found
services to recreate, tries every request and every class
of text on it. For spaces, a personal and a game space are the two kinds; two worlds make a
re-registration, two game spaces in one world share a scope; two faults allow a lost answer on top of a restart. The populations are
disjoint because readiness and records share no state.

**Fairness.** `FairSpec` assumes weak fairness of `Progress(r)` for each call: the event
loop runs every task, `_wait_for` has a deadline, `cleanup_request` is not blocked by
anybody who holds its lock for ever, and the upstream ends or breaks off every response
(`hub/backends.py:84-89` sets no read timeout, so this is an assumption about the
upstream, not a fact of this code). Nothing else is fair: not arrivals, not the router,
not reloads, not a waiter's cancellation. `ControlPlane` is weakly fair to its commands,
renderers and the gateway's restarts as a whole: processes that are not killed go on, and
Docker restarts the gateway (`compose.yaml`). `MemorySpaces` is fair to the gateway's start,
to the calls in it, to a sender that delivers until it is answered and to the container's
health check; that a provider which is down comes back is an assumption about the
provider. `Progress` includes `Abort`, so `LeaseReturns`
does not say that a response succeeds, only that no call keeps the lease for ever.
Deadlock is not checked in `plane`, `nullkey` and `accepted`, where every command may have
been run, nor in `spaces`, whose senders and readers may all rest.

**Disagreements found** (details and quoted lines in `PROJECT.json`, `findings`):

1. `workers`: each process has its own gate, so `GATEWAY_WORKERS=2` loses the guarantee
   of `docs/ARCHITECTURE.md:137`.
2. `extractor`: a reload closes the client the extractor holds and never gives it the
   new one; capture is dead until the process restarts.
3. `purge`: an approval in flight writes the proposal's text back after its purge.
4. `reject`: an approval that loses against a rejection leaves the record live.
5. `resurrect`: the records page can create the reference of a record that capture is
   storing, without the capture id; once purged it does not work as a tombstone.
6. `nullkey`: `catalog apply` merges a file into the overlay before the overlay is merged
   with the base; a null is used up by the first merge, and the inherited key stays.
7. `accepted`: the control plane's validator lacks a check of the gateway's; a model
   registered again without the capability of its experience leaves a gateway that
   restarts for ever. `AcceptedLoadsIff` lists all the differences in the fields that are
   kept.

Four more are listed as hazards only. An overlay is read, edited and replaced without a lock
(`ops/hubctl.py:831-848`, `742-794`), so the slower of two overlapping commands drops the
other's edit, which was reported as applied. A transition that timed out leaves an unload pending
in the router, which still lists the model as loaded, so the next call is served by a model
on its way out; `UnloadsSpareResponses` shows this to be the only way. A request queued
for capture before its owner opts out is captured afterwards. And a command that meets the
gateway between two restarts finds nothing running (`hub:151-153`), so a catalog that needs
a router for the first time gets none until the services are recreated once more.

## 4. What is proved

`tlapm` checks these for every set of clients, processes, reloads and models, and for every
set of operators and commands, base catalog and number of kills; for every set of calls,
workers, proposals and texts; and for every set of principals, spaces, worlds, senders,
readers, policies and bound on the faults.

| Theorem | Statement | Assumes |
|---|---|---|
| `TypeCorrect` | `Spec => []TypeOK` | the constants' assumption |
| `LeasesBalanced` | `Spec => []LeaseBalanced` | the same |
| `NoWakeUpLost` | `Spec => []NoIdlePermit` | the same |
| `OneModelResident` | `Spec => []OneResident` | `Deployment` |
| `UnloadsSpareResponses` | `Spec => NoUnloadInUse` | `Deployment` |
| `GatewayImplementsExclusive` | `Spec => ImplementsExclusive` | `Deployment` |
| `ControlPlaneProofs!TypeCorrect` | `Spec => []TypeOK` | the constants' assumption |
| `OverlayStaysAccepted` | `Spec => []OverlayAccepted` | the same |
| `UnverifiedWeightsGo` | `Spec => []UnverifiedOnlyWhileFetching` | the same |
| `FilesFollow` | `Spec => []FilesFollowOverlay` | the same |
| `ServicesFollow` | `Spec => []ServicesFollowFiles` | the same |
| `SettledGatewayCanStart` | a gateway that is being restarted when a command is done can start, if the catalog loads | the same |
| `ListedResolves` | `Spec => []AvailableResolves` | the same |
| `AppliedIsEffective` | `Spec => AppliedTakesEffect` (no nulls, no list between two mappings) | `NullIsNoMapping` |
| `RoutedIsServed` | `Spec => []RoutedModelServed` (a preset always, a mount for host paths and Docker volumes) | `NullIsNoMapping` |
| `MergeAssociates` | merging is associative for documents without nulls, and without a list of capabilities between two mappings | `NullIsNoMapping` |
| `CapabilitiesAssociateIff` | when merging capabilities is associative, exactly | no nulls |
| `NullRemovesIff` | when a null in an applied file removes the key, exactly | `NullIsNoMapping` |
| `AcceptedLoadsIff` | what the gateway asks beyond `ValidateCatalog`, exactly, of the fields kept | `NullIsNoMapping` |
| `ResolvedModelUsable`, `ListedModelResolves` | routing ends at an enabled model of an enabled backend; what is listed resolves | the constants' assumption, a catalog that loads and whose ids are proper |
| `MemoryLifecycleProofs!TypeCorrect` | `Spec => []TypeOK` | the constants' assumption |
| `VerdictsClearText` | `Spec => []DiscardedTextGone` | the same |
| `ApprovalsBacked` | `Spec => []ApprovalIsBacked` | the same |
| `ForgottenHidden` | `Spec => ForgottenStaysHidden` | the same |
| `TombstonesHold` | `Spec => TombstoneHolds` | `OneWorker` |
| `RejectedHidden` | `Spec /\ VerdictsApart => []RejectedNotRecalled` | no call fails |
| `PurgedTextGone` | `Spec /\ PurgesApart => []PurgeClearsText` | no records page |
| `PurgedStays` | `Spec => PurgedStaysPurged` | `OneWorker`, no records page |
| `MemorySpacesProofs!TypeCorrect` | `Spec => []TypeOK` | the constants' assumption |
| `ReadyIsVerified` | `Spec => []ReadyMeansVerified` | the same |
| `WithdrawnIsOut` | `Spec => []WithdrawnStaysOut` | the same |
| `OptOutHeard` | `Spec => []OptOutIsHeard` | the same |
| `AcknowledgedLoads` | `Spec => []AcknowledgedIsLoaded` | the same |
| `LedgerRefined` | `Spec => ImplementsLedger` | the same |

`Deployment` says: at most one process, reloads do not overlap, every gate's coordinator
is explicit. Each part is needed: the run `workers` refutes `NoUnloadInUse` without the
first, an instance with `ReloadsOverlap = TRUE` refutes it without the second, and in
autoload mode the router loads and evicts on its own.

**The argument.** `LeaseBalanced` is not inductive: whether a call owns its permit
depends on `pc` and `cleanup` together. `LeaseInv` adds that a call outside its
clean-up has not begun it (`CleanupOK`), that a call past `idle` has a gate and a model
(`RoutedOK`), and that the queue of a gate has exactly its waiting calls, each once
(`LeaseCore`); the queue facts are what makes a hand-over safe, since the woken call
must not be the one that releases and must not be queued twice. `ExclusionInv` adds
the registries: at most one is live (`OneLive`), a reload under way is closing it
(`ReloadOK`), nobody holds one that is not built (`GateBuilt`); hence two calls that can
reach the router hold the same gate, hence the same permit, hence are one. `PlanOK` says
that until a coordinator orders its load, every running model is on its list of models
to unload, which is why an empty list means an empty card. The refinement then needs no
further invariant: all steps but four keep the router's states and can only end
responses (`Shrinks`), and the four are matched one by one.

`OverlayAccepted` is not inductive: what an operator is about to write was validated
against the base when it was read, and has to be so still when it is written, however many
other writes lie between (`ReadWasValid`). It is, because a write replaces the overlay as a
whole. For this one, what `ValidateCatalog` and `MergeDocument` compute is never used. That a written
overlay is one that was validated says nothing about the edit of the other operator, which
may be lost.

`FilesFollowOverlay` is about a command that ran alone, but what it starts from may be
anything an overlapped or killed command left, and `config-init` renders once more while it
runs. `FilesInv` follows such a command step by step: nobody else is at work (`AloneOK`), what
its renderer, or `config-init` after it, still has to write was made from the overlay as it is
(`ShotFresh`), and each file is fresh once the step that writes it is past (`FilesFresh`);
`config-init` can then only write the same again, and ownership is given back before its
gateway starts. On top of it `ServingFresh` says that a gateway which is up in such a
command's last steps has read those files, since both are recreated and a reload reads the
same; `RouterFresh` the same of the router, by way of the compose file in `plan`; `SeenFresh`
that an edit about to be written is of the overlay as it is; `ServingLoads` that whatever the
gateway serves has passed its own validator. `SettledGatewayCanStart` is the half of `Recovers`
that is no matter of time.

The rest is about documents. `AppliedTakesEffect` needs `MergeAssociates`, and that needs both
documents free of nulls; `NullRemovesIff` says what happens with one. It also needs that the
overlay has no list of capabilities where base and file have a mapping: with
`{chat: {}}` in the base, `[code]` in the overlay and `{vision: {}}` in the file, merging the
file into the overlay first leaves `{vision: {}}` there, and the hidden `chat` comes back;
`CapabilitiesAssociateIff` says that this is the only way. That lists are rewritten between the
two merges, in what is written for models the base lacks and in the result for all,
changes nothing (`WrittenIsRendered`). `NullIsNoMapping` says
that YAML's null is not a mapping, which TLA+ leaves open of a constant. Availability needs no such
assumption: the first candidate exists because the ids are finite (strict subsets of a finite
set are well-founded), is enabled and has an enabled backend because `Candidates` filters so,
and a named one because the gateway's validator checked it. That the ids of what the gateway
serves are proper, which it does not check itself, follows from the control plane having
written it (`IdsProper`). From there to a preset and a mount it is the same catalog that was
rendered, and an accepted local model has an artifact of a kind that gives a path.

`ApprovalIsBacked` needs to know of the call in between: an approval that is about to
settle its proposal has seen to the reference (`PlacedOK`), and no step takes a reference
away. `TombstoneHolds` needs that whoever stores a captured text is the worker, and that the
text has had no key since it looked (`Guarded`); with a second worker that is false, hence
`OneWorker`, which is to say that the gateway runs as one process.

Three promises the runs `reject`, `purge` and `resurrect` refute are proved under conditions the
code does not ensure, so that one can see what a repair has to do. `VerdictsApart`: no
rejection or expiry of a proposal while an approval of it is about to store, refer to or
settle it; with it,
and if no call fails in between, a rejected proposal is never stored. `PurgesApart`: no
purge clears a proposal in that state; with it, and references that all carry their key,
which the records page alone violates, a purged proposal has no text. `PurgedStays` needs the keys
and a single worker. No condition of the first two is idle: TLC violates `RejectedNotRecalled` with failures
under `VerdictsApart` and without failures otherwise, `PurgeClearsText` with the records page under
`PurgesApart` and without the page otherwise. The invariant behind all three is `ReviewOK`: workers
and imports never touch a proposal, and whoever handles a record has found its reference.

For spaces, `Shapes` says what each variable holds and `Known` that bridges lead between
registered spaces, without which a source would have no scope. `Crossing` then says that a
call knows of every active bridge and that each source on its list is due to one it knows
of; a registration that changes meanwhile is a move. `Probing` orders discovery before
health. `Backed` says that a reference stands for a stored record in the scope of its space,
a call about to make one has stored it, and an answer stands for a reference; the ledger's
step is then read off from what a step does to `store` and `acked` (`LedgerMoves`).

**Model-checked only.** Liveness (`WaitEnds`, `LeaseReturns`, `Recovers`, `Acknowledged`,
`OptionalReturns`), which is out of the prover's reach. Every other property of a passing run
is a theorem.

## 5. Limits of the models

* A control request (`/models/load`, `/models/unload`) takes effect before its caller
  gives it up, or never; it is not delayed beyond that.
* One serialised backend. `serialize_requests: false` (no gate), other backend kinds and
  the pairing of a model with its backend across a reload are left out.
* In autoload mode the router's own eviction of models is not modelled; the runs that
  check `OneResident` use explicit gates.
* Retrieval before the lease changes no state and is left out; so are authentication,
  metrics and the wording of errors.
* `MemoryLifecycle`: the built-in provider only, one principal, one space; no
  manual creation or migration of legacy rows. Texts are not compared, so two approvals
  with different edits are not told apart. Reading consent and putting a request on the
  queue is one step.

* `MemorySpaces`: the Postgres repository only, for one principal in its run; campaign and
  player of a space, sessions and the ranking of records are left out; a query matches any
  subset of a scope. An event on its way while its space is registered with another world may
  have a copy in each; `AcknowledgedIsLoaded` says nothing of such spaces.
* `ControlPlane`: the memory overlay is one switch; import (which checks no checksum),
  Hermes files, Helm output, discovery and backups are left out; the compose file and
  `models.ini` are what they list. Fields that are not kept (descriptions, defaults, features,
  runtime options, metadata) are taken to be of the type the gateway asks for; values pydantic
  would convert, empty strings other than as null, and mappings inside a capability are left
  out. Two local models with one upstream name give two presets of that name, which
  of them the router takes is not modelled; ids that differ in `.` and `-` share the alias of
  their volume; two managed models may share a filename; an absolute `sub_path` and
  `read_only` are left out. What lies in a mounted directory or volume is the operator's. Two experiences whose names shadow a model, and an
  automatic experience that resolves to one it cannot serve, are excluded from
  `AvailableResolves`.

**Not modelled**: authentication and payload transformation, which keep no state and are
decided per request; metrics and the memory page; the operator scripts, which wrap external
commands; the expansion of version 1 documents.

## 6. Plan

1. *Done*: `ExclusiveBackend`, `InferenceGateway`, its proofs and its refinement.
2. *Done*: `MemoryLifecycle` with TLC, and its safety properties proved.
3. *Done*: `CatalogDocument`, `ControlPlane` with TLC, and the proofs that need no more
   than the order of its steps.
4. *Done*: `MemorySpaces` with TLC; its safety properties and the refinement of
   `EventLedger` proved.
5. *Done*: `CatalogProofs` and `RuntimeFilesProofs`: files, services and routing, for any
   catalog, with capabilities as lists and artifacts of every kind; in `MemoryLifecycleProofs`, what would keep the promises of three findings.
6. Next, the safety half of the liveness properties: which steps stay enabled and what
   they bring nearer.
7. Composition: `InferenceGateway` with the routing of `CatalogDocument`, for the pairing of
   model and backend across a reload.

## 7. Running

    tlc -workers 2 -config MC_core.cfg MCInferenceGateway.tla
    tlc -workers 2 -config MC_memory.cfg MCMemoryLifecycle.tla
    tlc -workers 2 -config MC_plane.cfg MCControlPlane.tla
    tlc -workers 2 -config MC_spaces.cfg MCMemorySpaces.tla
    tlapm RefinementProofs.tla
    tlapm ControlPlaneProofs.tla
    tlapm CatalogProofs.tla
    tlapm RuntimeFilesProofs.tla
    tlapm MemoryLifecycleProofs.tla
    tlapm MemorySpacesProofs.tla

`MC_core`, `MC_live`, `MC_workers` and `MC_extractor` belong to `MCInferenceGateway`,
`MC_plane`, `MC_nullkey` and `MC_accepted` to `MCControlPlane`, `MC_spaces` to
`MCMemorySpaces`, the others to `MCMemoryLifecycle`. The operators that follow a
comment beginning with "Bug:" are not part of any specification; each is the faulty
variant of the definition after it, with which the property named in `PROJECT.json`
fails.
