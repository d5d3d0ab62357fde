--------------------------- MODULE MemorySpaces ---------------------------
(***************************************************************************)
(* Memory spaces (memory_service.py and the Postgres repository): games    *)
(* register spaces and deliver events, a chat loads the context of a       *)
(* personal space and, over bridges its owner consented to, of game        *)
(* spaces; the provider behind it all is checked when the gateway starts   *)
(* and whenever readiness is asked for.                                    *)
(*                                                                         *)
(* Every await ends a step: a call reads a row, and uses it in the next    *)
(* step.  A call may lose its answer after the statement was executed, and *)
(* the gateway may be restarted, which ends the calls in it and is when a  *)
(* new operator policy takes effect.  A record is a delivered event or a   *)
(* note of a personal space.  What the provider knows of it is its scope,  *)
(* the workspace and the subject: spaces of one owner that are registered  *)
(* with the same world share their records.                                *)
(***************************************************************************)
EXTENDS Naturals, FiniteSets

CONSTANTS
  Principals,   \* service principals: they may own game spaces too
  Names,        \* display names of game spaces
  Worlds,       \* world ids
  Events,       \* external ids of events
  Deliverers,   \* calls of POST /game/events, retried by their senders
  Readers,      \* calls that load context
  Owner,        \* the principals at the memory page
  Prober,       \* who asks for readiness
  Populations,  \* which callers may be there, the names and worlds games
                \* register, and a bound on the faults: outages, restarts,
                \* lost answers
  Policies,     \* operator configurations: [bridges, allow]
  Limit,        \* records a context may hold
  Personal, Note, Null

Spaces == Principals \X (Names \cup {Personal})
Kind(space) == IF space[2] = Personal THEN "personal" ELSE "game"
PersonalOf(p) == <<p, Personal>>
GameSpaces == Principals \X Names
Pairs == {pair \in Spaces \X Spaces : pair[1] # pair[2] /\ pair[1][1] = pair[2][1]}

ASSUME SpacesAssumption ==
  /\ Personal \notin Names /\ Note \notin Events /\ Null \notin Worlds
  /\ Deliverers \cap Readers = {} /\ Prober \notin Deliverers \cup Readers
  /\ IsFiniteSet(Principals) /\ Limit \in Nat \ {0}
  /\ \A n \in Populations :
       /\ n.callers \subseteq Deliverers \cup Readers \cup {Owner, Prober}
       /\ n.registered \subseteq Names \X Worlds /\ n.faults \in Nat

VARIABLES
  present,    \* the callers of this behaviour
  policy,     \* the operator's configuration the gateway was started with
  required,   \* ... and whether it requires its provider
  gateway,    \* "down" or "up"
  world,      \* per game space: the world it is registered with, or Null
  moved,      \* history: the spaces re-registered with another world
  consent,    \* per pair of spaces: the sides that consented
  retrieval,  \* per principal: stored setting
  store,      \* records the provider holds
  refs,       \* rows of memory_record_refs
  acked,      \* history: the events whose sender got an answer, as their rows
  pc, job,    \* per caller: the step it is at, what it works on
  got,        \* per reader: the records collected so far
  crossed,    \* history, per reader: bridges active since its call began
  wasOn,      \* history, per reader: retrieval was on since its call began
  provider,   \* "ok", "lacking" a required capability, or "down"
  verified,   \* no start_error
  caps,       \* capabilities discovered: "none", "partial" or "full"
  ready,      \* the last answer of ping
  faults

vars == <<present, policy, required, gateway, world, moved, consent, retrieval, store, refs,
          acked, pc, job, got, crossed, wasOn, provider, verified, caps, ready, faults>>

Callers == Deliverers \cup Readers \cup {Prober}

-----------------------------------------------------------------------------
(* scope_for, of the row read from memory_spaces. *)
ScopeFor(space) ==
  IF Kind(space) = "personal"
  THEN [workspace |-> space, subject |-> space[1]]
  ELSE [workspace |-> world[space], subject |-> space[1]]

(* Bug: the provider names the record. *)
FreshId(scope, event, d) == <<scope, event, d>>

(* The id a record is stored under: uuid5 of scope and external id. *)
StableId(scope, event, d) == <<scope, event>>

(* active_bridges: both sides consented. *)
Active(pair) == consent[pair].source /\ consent[pair].target

Registered(space) == Kind(space) = "game" => world[space] # Null

NoteOf(p) ==
  LET scope == ScopeFor(PersonalOf(p))
  IN [id |-> <<scope, Note>>, scope |-> scope, event |-> Note]

Init ==
  /\ present \in Populations
  /\ policy \in Policies
  /\ required \in IF Prober \in present.callers THEN BOOLEAN ELSE {FALSE}
  /\ gateway = "down"
  /\ world = [space \in GameSpaces |-> Null]
  /\ moved = {}
  /\ consent = [pair \in Pairs |-> [source |-> FALSE, target |-> FALSE]]
  /\ retrieval = [p \in Principals |-> TRUE]
  /\ store = {NoteOf(p) : p \in Principals}
  /\ refs = {}
  /\ acked = {}
  /\ pc = [c \in Callers |-> "idle"]
  /\ job = [c \in Callers |-> Null]
  /\ got = [r \in Readers |-> {}]
  /\ crossed = [r \in Readers |-> {}]
  /\ wasOn = [r \in Readers |-> FALSE]
  /\ provider \in IF Prober \in present.callers THEN {"ok", "lacking", "down"} ELSE {"ok"}
  /\ verified = TRUE
  /\ caps = "none"
  /\ ready = FALSE
  /\ faults = 0

-----------------------------------------------------------------------------
(* Start and readiness. *)
UnchangedButProvider ==
  UNCHANGED <<present, policy, required, world, moved, consent, retrieval, store, refs, acked,
              job, got, crossed, wasOn, provider, faults>>

(* ContinuityHttpProvider.start: /v1/info, contract and capabilities. *)
Discover ==
  /\ verified' = (provider = "ok")
  /\ caps' = CASE provider = "ok" -> "full"
               [] provider = "lacking" -> "partial"
               [] provider = "down" -> caps

(* MemoryService.start: a required provider that does not start ends the
   process, which Docker starts again; an optional one is kept with its
   error. *)
Start ==
  /\ gateway = "down"
  /\ Discover
  /\ gateway' = IF provider = "ok" \/ ~required THEN "up" ELSE "down"
  /\ UNCHANGED <<pc, ready>>
  /\ UnchangedButProvider

(* Bug: a provider that did not start is not asked again. *)
AskOnce ==
  /\ Prober \in present.callers
  /\ gateway = "up"
  /\ pc[Prober] = "idle"
  /\ verified /\ pc' = [pc EXCEPT ![Prober] = "healthz"] /\ UNCHANGED ready
  /\ UNCHANGED <<gateway, verified, caps>>
  /\ UnchangedButProvider

(* Bug: only /healthz is asked. *)
AskHealthOnly ==
  /\ Prober \in present.callers
  /\ gateway = "up"
  /\ pc[Prober] = "idle"
  /\ pc' = [pc EXCEPT ![Prober] = "healthz"]
  /\ UNCHANGED <<gateway, verified, caps, ready>>
  /\ UnchangedButProvider

(* ping: discovery is repeated while there is a start_error ... *)
Ask ==
  /\ Prober \in present.callers
  /\ gateway = "up"
  /\ pc[Prober] = "idle"
  /\ pc' = [pc EXCEPT ![Prober] = IF verified THEN "healthz" ELSE "info"]
  /\ UNCHANGED <<gateway, verified, caps, ready>>
  /\ UnchangedButProvider

Info ==
  /\ pc[Prober] = "info"
  /\ Discover
  /\ IF provider = "ok"
     THEN pc' = [pc EXCEPT ![Prober] = "healthz"] /\ UNCHANGED ready
     ELSE pc' = [pc EXCEPT ![Prober] = "idle"] /\ ready' = FALSE
  /\ UNCHANGED gateway
  /\ UnchangedButProvider

(* ... and then health is asked for. *)
Healthz ==
  /\ pc[Prober] = "healthz"
  /\ ready' = (provider # "down")
  /\ pc' = [pc EXCEPT ![Prober] = "idle"]
  /\ UNCHANGED <<gateway, verified, caps>>
  /\ UnchangedButProvider

-----------------------------------------------------------------------------
(* The owner: spaces, consents, settings. *)
UnchangedButOwner ==
  UNCHANGED <<present, policy, required, gateway, store, refs, acked, pc, job, got, provider,
              verified, caps, ready, faults>>

(* create_game_space: a second registration merges the metadata. *)
CreateGameSpace(space, w) ==
  /\ <<space[2], w>> \in present.registered
  /\ gateway = "up"
  /\ moved' = IF world[space] \in {Null, w} THEN moved ELSE moved \cup {space}
  /\ world' = [world EXCEPT ![space] = w]
  /\ UNCHANGED <<consent, retrieval, crossed, wasOn>>
  /\ UnchangedButOwner

Allowed(pair) == <<Kind(pair[1]), Kind(pair[2])>> \in policy.allow

(* set_bridge, refused unless the operator enabled bridges and allows the
   direction and both spaces are found. *)
SetBridge(pair, source, target) ==
  /\ Owner \in present.callers
  /\ gateway = "up"
  /\ policy.bridges
  /\ Registered(pair[1]) /\ Registered(pair[2])
  /\ Allowed(pair)
  /\ consent' = [consent EXCEPT ![pair] = [source |-> source, target |-> target]]
  /\ crossed' = [r \in Readers |->
       IF source /\ target THEN crossed[r] \cup {pair} ELSE crossed[r]]
  /\ UNCHANGED <<world, moved, retrieval, wasOn>>
  /\ UnchangedButOwner

UpdateSettings(p, on) ==
  /\ Owner \in present.callers
  /\ gateway = "up"
  /\ retrieval' = [retrieval EXCEPT ![p] = on]
  /\ wasOn' = [r \in Readers |->
       wasOn[r] \/ (on /\ pc[r] # "idle" /\ job[r].space = PersonalOf(p))]
  /\ UNCHANGED <<world, moved, consent, crossed>>
  /\ UnchangedButOwner

-----------------------------------------------------------------------------
(* ingest_game_event. *)
UnchangedButEvents ==
  UNCHANGED <<present, policy, required, gateway, world, moved, consent, retrieval, got,
              crossed, wasOn, provider, verified, caps, ready>>

Entry(d) == <<job[d].space, job[d].event>>

Ends(d) ==
  /\ pc' = [pc EXCEPT ![d] = "idle"]
  /\ job' = [job EXCEPT ![d] = Null]

Answers(d, row) == Ends(d) /\ acked' = acked \cup {row} /\ UNCHANGED faults
Errs(d) == Ends(d) /\ UNCHANGED <<acked, faults>>

(* The statement was executed, the answer never arrives. *)
Lost(d) ==
  /\ faults < present.faults
  /\ faults' = faults + 1
  /\ Ends(d)
  /\ UNCHANGED acked

(* A sender delivers; the row of the space is read. *)
Deliver(d, space, e) ==
  /\ d \in present.callers
  /\ gateway = "up"
  /\ pc[d] = "idle"
  /\ Registered(space)
  /\ job' = [job EXCEPT ![d] = [space |-> space, event |-> e, scope |-> ScopeFor(space)]]
  /\ pc' = [pc EXCEPT ![d] = "find"]
  /\ UNCHANGED <<store, refs, acked, faults>>
  /\ UnchangedButEvents

(* find_external_ref: a known event is answered as a duplicate. *)
Find(d) ==
  /\ pc[d] = "find"
  /\ LET known == {row \in refs : row.space = job[d].space /\ row.event = job[d].event}
     IN \/ \E row \in known : Answers(d, row)
        \/ /\ known = {}
           /\ pc' = [pc EXCEPT ![d] = "ingest"]
           /\ UNCHANGED <<job, acked, faults>>
  /\ UNCHANGED <<store, refs>>
  /\ UnchangedButEvents

(* Bug: the event is stored with the personal records of its sender. *)
RecordInPersonal(d) ==
  LET scope == ScopeFor(PersonalOf(job[d].space[1]))
  IN [id |-> StableId(scope, job[d].event, d), scope |-> scope, event |-> job[d].event]

RecordOf(d) ==
  [id |-> StableId(job[d].scope, job[d].event, d), scope |-> job[d].scope,
   event |-> job[d].event]

(* Bug: a plain INSERT, an id that is there is an error. *)
IngestPlain(d) ==
  /\ pc[d] = "ingest"
  /\ \/ provider = "down" /\ Errs(d) /\ UNCHANGED store
     \/ RecordOf(d) \in store /\ Errs(d) /\ UNCHANGED store
     \/ /\ provider # "down" /\ RecordOf(d) \notin store
        /\ store' = store \cup {RecordOf(d)}
        /\ \/ pc' = [pc EXCEPT ![d] = "ref"] /\ UNCHANGED <<job, acked, faults>>
           \/ Lost(d)
  /\ UNCHANGED refs
  /\ UnchangedButEvents

(* provider.ingest: a record stored before keeps its content. *)
Ingest(d) ==
  /\ pc[d] = "ingest"
  /\ \/ provider = "down" /\ Errs(d) /\ UNCHANGED store
     \/ /\ provider # "down"
        /\ store' = store \cup {RecordOf(d)}
        /\ \/ pc' = [pc EXCEPT ![d] = "ref"] /\ UNCHANGED <<job, acked, faults>>
           \/ Lost(d)
  /\ UNCHANGED refs
  /\ UnchangedButEvents

RowOf(d) == [space |-> job[d].space, event |-> job[d].event, record |-> RecordOf(d).id]

(* Bug: no unique index on the external id. *)
AddRefUnindexed(d) ==
  /\ pc[d] = "ref"
  /\ refs' = refs \cup {RowOf(d)}
  /\ Answers(d, RowOf(d)) \/ Lost(d)
  /\ UNCHANGED store
  /\ UnchangedButEvents

(* add_record_ref: the row of the same record is kept; the unique index on
   the external id refuses a second record. *)
AddRef(d) ==
  LET taken == \E row \in refs : /\ row.space = job[d].space /\ row.event = job[d].event
                                 /\ row.record # RecordOf(d).id
  IN /\ pc[d] = "ref"
     /\ \/ taken /\ Errs(d) /\ UNCHANGED refs
        \/ /\ ~taken
           /\ refs' = refs \cup {RowOf(d)}
           /\ Answers(d, RowOf(d)) \/ Lost(d)
     /\ UNCHANGED store
     /\ UnchangedButEvents

-----------------------------------------------------------------------------
(* context and game_context. *)
UnchangedButReaders ==
  UNCHANGED <<present, policy, required, gateway, world, moved, consent, retrieval, store, refs,
              acked, provider, verified, caps, ready, faults>>

(* A chat's call for a principal, or a game's for one of its spaces. *)
Context(r) ==
  /\ r \in present.callers
  /\ gateway = "up"
  /\ pc[r] = "idle"
  /\ \E space \in Spaces :
       /\ Registered(space)
       /\ job' = [job EXCEPT ![r] = [space |-> space, scope |-> ScopeFor(space), todo |-> {}]]
       /\ pc' = [pc EXCEPT ![r] = IF Kind(space) = "game" THEN "load" ELSE "settings"]
       /\ wasOn' = [wasOn EXCEPT ![r] = retrieval[space[1]]]
  /\ got' = [got EXCEPT ![r] = {}]
  /\ crossed' = [crossed EXCEPT ![r] = {pair \in Pairs : Active(pair)}]
  /\ UnchangedButReaders

(* Bug: the settings row is not consulted. *)
IgnoreSettings(r) ==
  /\ pc[r] = "settings"
  /\ pc' = [pc EXCEPT ![r] = "load"]
  /\ UNCHANGED <<job, got, crossed, wasOn>>
  /\ UnchangedButReaders

(* can_retrieve. *)
CheckSettings(r) ==
  /\ pc[r] = "settings"
  /\ pc' = [pc EXCEPT ![r] = IF retrieval[job[r].space[1]] THEN "load" ELSE "done"]
  /\ UNCHANGED <<job, got, crossed, wasOn>>
  /\ UnchangedButReaders

(* context_load of a scope: what the query matches, up to a limit. *)
Loads(scope, limit) ==
  {found \in SUBSET {record \in store : record.scope = scope} : Cardinality(found) <= limit}

Remaining(r) == Limit - Cardinality(got[r])

(* A provider that does not answer fails the call; the chat goes on without
   memory. *)
LoadFails(r) ==
  /\ pc[r] \in {"load", "source"}
  /\ provider = "down"
  /\ pc' = [pc EXCEPT ![r] = "done"]
  /\ got' = [got EXCEPT ![r] = {}]
  /\ UNCHANGED <<job, crossed, wasOn>>
  /\ UnchangedButReaders

LoadTarget(r) ==
  /\ pc[r] = "load"
  /\ provider # "down"
  /\ \E found \in Loads(job[r].scope, Limit) :
       /\ got' = [got EXCEPT ![r] = found]
       /\ pc' = [pc EXCEPT ![r] =
            IF /\ Kind(job[r].space) = "personal"
               /\ policy.bridges
               /\ Cardinality(found) < Limit
            THEN "bridges" ELSE "done"]
  /\ UNCHANGED <<job, crossed, wasOn>>
  /\ UnchangedButReaders

(* Bug: one side's consent is enough. *)
ReadHalfBridges(r) ==
  LET active == {pair \in Pairs : /\ pair[2] = job[r].space
                                  /\ consent[pair].source \/ consent[pair].target}
  IN /\ pc[r] = "bridges"
     /\ job' = [job EXCEPT ![r].todo =
          {[space |-> pair[1], scope |-> ScopeFor(pair[1])] : pair \in active}]
     /\ pc' = [pc EXCEPT ![r] = IF active = {} THEN "done" ELSE "source"]
     /\ UNCHANGED <<got, crossed, wasOn>>
     /\ UnchangedButReaders

ReadBridges(r) ==
  LET active == {pair \in Pairs : pair[2] = job[r].space /\ Active(pair)}
  IN /\ pc[r] = "bridges"
     /\ job' = [job EXCEPT ![r].todo =
          {[space |-> pair[1], scope |-> ScopeFor(pair[1])] : pair \in active}]
     /\ pc' = [pc EXCEPT ![r] = IF active = {} THEN "done" ELSE "source"]
     /\ UNCHANGED <<got, crossed, wasOn>>
     /\ UnchangedButReaders

LoadSource(r) ==
  /\ pc[r] = "source"
  /\ provider # "down"
  /\ \E source \in job[r].todo : \E found \in Loads(source.scope, Remaining(r)) :
       LET left == job[r].todo \ {source}
           collected == got[r] \cup found
       IN /\ got' = [got EXCEPT ![r] = collected]
          /\ job' = [job EXCEPT ![r].todo = left]
          /\ pc' = [pc EXCEPT ![r] =
               IF left = {} \/ Cardinality(collected) >= Limit THEN "done" ELSE "source"]
  /\ UNCHANGED <<crossed, wasOn>>
  /\ UnchangedButReaders

Return(r) ==
  /\ pc[r] = "done"
  /\ pc' = [pc EXCEPT ![r] = "idle"]
  /\ job' = [job EXCEPT ![r] = Null]
  /\ got' = [got EXCEPT ![r] = {}]
  /\ crossed' = [crossed EXCEPT ![r] = {}]
  /\ wasOn' = [wasOn EXCEPT ![r] = FALSE]
  /\ UnchangedButReaders

-----------------------------------------------------------------------------
(* The environment. *)
ProviderChanges ==
  /\ \/ /\ faults < present.faults
        /\ faults' = faults + 1
        /\ provider' \in {"lacking", "down"} \ {provider}
     \/ provider # "ok" /\ provider' = "ok" /\ UNCHANGED faults
  /\ UNCHANGED <<present, policy, required, gateway, world, moved, consent, retrieval, store,
                 refs, acked, pc, job, got, crossed, wasOn, verified, caps, ready>>

Restart ==
  /\ gateway = "up"
  /\ faults < present.faults
  /\ faults' = faults + 1
  /\ gateway' = "down"
  /\ policy' \in Policies
  /\ pc' = [c \in Callers |-> "idle"]
  /\ job' = [c \in Callers |-> Null]
  /\ got' = [r \in Readers |-> {}]
  /\ crossed' = [r \in Readers |-> {}]
  /\ wasOn' = [r \in Readers |-> FALSE]
  /\ verified' = TRUE
  /\ caps' = "none"
  /\ ready' = FALSE
  /\ UNCHANGED <<present, required, world, moved, consent, retrieval, store, refs, acked,
                 provider>>

EventStep(d) == Find(d) \/ Ingest(d) \/ AddRef(d)

ReadStep(r) ==
  CheckSettings(r) \/ LoadTarget(r) \/ LoadFails(r) \/ ReadBridges(r) \/ LoadSource(r)
  \/ Return(r)

Next ==
  \/ Start \/ Ask \/ Info \/ Healthz
  \/ \E space \in GameSpaces, w \in Worlds : CreateGameSpace(space, w)
  \/ \E pair \in Pairs, source, target \in BOOLEAN : SetBridge(pair, source, target)
  \/ \E p \in Principals, on \in BOOLEAN : UpdateSettings(p, on)
  \/ \E d \in Deliverers, space \in GameSpaces, e \in Events : Deliver(d, space, e)
  \/ \E d \in Deliverers : EventStep(d)
  \/ \E r \in Readers : Context(r) \/ ReadStep(r)
  \/ ProviderChanges \/ Restart

Spec == Init /\ [][Next]_vars

(* Senders deliver every event of theirs until they are answered, readiness
   is asked for again and again (the container's health check), Docker
   starts the gateway, a provider that is down comes back. *)
FairSpec ==
  /\ Spec
  /\ WF_vars(Start)
  /\ WF_vars(ProviderChanges /\ provider' = "ok")
  /\ WF_vars(Ask) /\ WF_vars(Info \/ Healthz)
  /\ \A d \in Deliverers :
       /\ WF_vars(EventStep(d))
       /\ \A space \in GameSpaces, e \in Events : WF_vars(Deliver(d, space, e))

-----------------------------------------------------------------------------
(* Calls are at a step of theirs, a row that is referred to by an event is
   one of a registered space, and at most one row refers to an event. *)
TypeOK ==
  /\ world \in [GameSpaces -> Worlds \cup {Null}]
  /\ retrieval \in [Principals -> BOOLEAN]
  /\ \A d \in Deliverers : pc[d] \in {"idle", "find", "ingest", "ref"}
  /\ \A r \in Readers :
       pc[r] \in {"idle", "settings", "load", "bridges", "source", "done"}
  /\ \A r \in Readers : Cardinality(got[r]) <= Limit
  /\ \A ref \in refs : Registered(ref.space)
  /\ \A a, b \in refs : a.space = b.space /\ a.event = b.event => a = b

(* What a space that is not the caller's contributes to a context came over
   a bridge that was active, with both consents, at some time since the call
   began: a consent withdrawn before a call began is never used in it, not
   even one given under an earlier operator policy.  The scope of a source
   is the one it is registered with, unless it was moved. *)
WithdrawnStaysOut ==
  \A r \in Readers : \A record \in got[r] :
    record.scope # job[r].scope =>
      /\ policy.bridges
      /\ \E pair \in crossed[r] :
           /\ pair[2] = job[r].space
           /\ record.scope = ScopeFor(pair[1]) \/ pair[1] \in moved

(* Whoever switched retrieval off before a call began gets nothing from it. *)
OptOutIsHeard ==
  \A r \in Readers :
    got[r] # {} /\ Kind(job[r].space) = "personal" => wasOn[r]

(* Readiness is never reported for a provider whose capabilities were not
   seen complete since the gateway started, and a gateway that requires its
   provider runs only then ("A required provider prevents startup/readiness
   instead", MEMORY.md). *)
ReadyMeansVerified ==
  /\ ready => gateway = "up" /\ caps = "full"
  /\ required /\ gateway = "up" => caps = "full"

(* The copies of an event are counted per scope: one that is redelivered to
   a space registered with another world meanwhile may have one in each. *)
Scopes == [workspace : Worlds, subject : Principals]

Copies ==
  [entry \in Scopes \X Events |->
     Cardinality({record \in store : record.scope = entry[1] /\ record.event = entry[2]})]

Ledger == INSTANCE EventLedger WITH
  Entries <- Scopes \X Events, copies <- Copies,
  acked <- {<<row.record[1], row.record[2]>> : row \in acked}

(* Deliveries and redeliveries that overlap, lose their answers or are cut
   off by a restart keep one copy of each event, and none is acknowledged
   without one. *)
ImplementsLedger == Ledger!Spec

(* An event that was acknowledged is in the scope its game loads. *)
AcknowledgedIsLoaded ==
  \A row \in acked : row.space \notin moved =>
    \E record \in store : record.scope = ScopeFor(row.space) /\ record.event = row.event

(* An event whose sender goes on delivering is acknowledged, also when an
   earlier attempt stored it and lost its answer. *)
Acknowledged ==
  \A entry \in GameSpaces \X Events :
    (\E d \in Deliverers : job[d] # Null /\ Entry(d) = entry)
      ~> (\E row \in acked : <<row.space, row.event>> = entry)

(* A provider that was unavailable when the gateway started is found again
   once it is back. *)
OptionalReturns ==
  (provider = "ok" /\ Prober \in present.callers)
    ~> (ready \/ provider # "ok")
============================================================================
