------------------------- MODULE MemorySpacesProofs -------------------------
(***************************************************************************)
(* Memory spaces for any numbers of principals, spaces, worlds, events,    *)
(* senders and readers and any operator policies: readiness, retrieval     *)
(* switched off, bridges withdrawn, and the ledger of delivered events.    *)
(***************************************************************************)
EXTENDS MemorySpaces, FiniteSetTheorems, TLAPS

USE SpacesAssumption

Steps == {"idle", "find", "ingest", "ref", "settings", "load", "bridges", "source", "done",
          "info", "healthz"}

AllScopes == [workspace : Worlds \cup Spaces, subject : Principals]

(* The record of an event, or of the note, in a scope. *)
Rec(scope, event) == [id |-> <<scope, event>>, scope |-> scope, event |-> event]

Recs == {Rec(scope, event) : scope \in AllScopes, event \in Events \cup {Note}}

EventJobs == [space : GameSpaces, event : Events, scope : Scopes]
ReadJobs ==
  [space : Spaces, scope : AllScopes, todo : SUBSET [space : Spaces, scope : AllScopes]]

(* What each variable holds.  A record is that of its scope and event. *)
Shapes ==
  /\ pc \in [Callers -> Steps]
  /\ job = [c \in Callers |-> job[c]]
  /\ \A d \in Deliverers : pc[d] # "idle" => job[d] \in EventJobs
  /\ \A r \in Readers : pc[r] # "idle" => job[r] \in ReadJobs
  /\ world \in [GameSpaces -> Worlds \cup {Null}]
  /\ retrieval \in [Principals -> BOOLEAN]
  /\ consent \in [Pairs -> [source : BOOLEAN, target : BOOLEAN]]
  /\ store \in SUBSET Recs /\ IsFiniteSet(store)
  /\ got \in [Readers -> SUBSET Recs]
  /\ crossed \in [Readers -> SUBSET Pairs]
  /\ wasOn \in [Readers -> BOOLEAN]

(* The callers are of three kinds. *)
LEMMA Apart ==
  /\ \A d \in Deliverers : d \in Callers /\ d \notin Readers /\ d # Prober
  /\ \A r \in Readers : r \in Callers /\ r \notin Deliverers /\ r # Prober
  /\ Prober \in Callers
  BY DEF Callers

(* The scope of a space that is registered. *)
LEMMA ScopeTypes ==
  ASSUME world \in [GameSpaces -> Worlds \cup {Null}], NEW space \in Spaces, Registered(space)
  PROVE  /\ ScopeFor(space) \in AllScopes
         /\ space \in GameSpaces => ScopeFor(space) \in Scopes /\ Kind(space) = "game"
         /\ Kind(space) = "personal" => space = PersonalOf(space[1])
         /\ Kind(space) = "game" => space \in GameSpaces
  BY DEF Spaces, GameSpaces, Registered, ScopeFor, AllScopes, Scopes, Kind, PersonalOf

(* At first there is a note for each principal. *)
LEMMA InitShapes == Init => Shapes
<1> SUFFICES ASSUME Init PROVE Shapes
  OBVIOUS
<1>1. \A p \in Principals : NoteOf(p) \in Recs
  <2> TAKE p \in Principals
  <2>1. PersonalOf(p) \in Spaces /\ Registered(PersonalOf(p))
    BY DEF PersonalOf, Spaces, Registered, Kind
  <2>2. ScopeFor(PersonalOf(p)) \in AllScopes
    BY <2>1, ScopeTypes DEF Init
  <2>3. NoteOf(p) = Rec(ScopeFor(PersonalOf(p)), Note)
    BY DEF NoteOf, Rec
  <2>4. QED
    BY <2>2, <2>3 DEF Recs
<1>2. IsFiniteSet({NoteOf(p) : p \in Principals})
  <2> DEFINE Notes == {NoteOf(p) : p \in Principals}
             note == [p \in Principals |-> NoteOf(p)]
  <2>1. note \in Surjection(Principals, Notes)
    BY DEF Surjection
  <2>2. QED
    BY <2>1, FS_Surjection
<1>3. store \in SUBSET Recs /\ IsFiniteSet(store)
  BY <1>1, <1>2 DEF Init
<1>4. Prober \in Callers /\ Callers = DOMAIN pc /\ \A c \in Callers : pc[c] = "idle"
  BY DEF Init, Callers
<1>5. consent \in [Pairs -> [source : BOOLEAN, target : BOOLEAN]]
  BY DEF Init
<1>6. \A c \in Deliverers \cup Readers : pc[c] = "idle"
  BY <1>4 DEF Callers
<1>7. QED
  BY <1>3, <1>4, <1>5, <1>6 DEF Init, Shapes, Steps

(* The provider, the prober and the environment. *)
ProviderStep == Start \/ Ask \/ Info \/ Healthz

(* Of the calls, these steps move the prober, or end them all. *)
LEMMA ProviderShapes ==
  ASSUME Shapes, ProviderStep \/ ProviderChanges \/ Restart
  PROVE  Shapes'
<1>1. CASE ProviderStep
  <2>1. \/ pc' = pc
        \/ \E step \in {"idle", "healthz", "info"} : pc' = [pc EXCEPT ![Prober] = step]
    BY <1>1 DEF ProviderStep, Start, Ask, Info, Healthz
  <2>2. UNCHANGED <<world, consent, retrieval, store, job, got, crossed, wasOn>>
    BY <1>1 DEF ProviderStep, Start, Ask, Info, Healthz, UnchangedButProvider
  <2>3. pc' \in [Callers -> Steps] /\ \A c \in Deliverers \cup Readers : pc'[c] = pc[c]
    BY <2>1, Apart DEF Shapes, Steps
  <2>4. QED
    BY <2>2, <2>3 DEF Shapes
<1>2. CASE ProviderChanges
  BY <1>2 DEF ProviderChanges, Shapes
<1>3. CASE Restart
  <2>1. \A c \in Callers : pc'[c] = "idle"
    BY <1>3 DEF Restart
  <2>2. /\ pc' \in [Callers -> Steps] /\ job' = [c \in Callers |-> job'[c]]
        /\ got' \in [Readers -> SUBSET Recs] /\ crossed' \in [Readers -> SUBSET Pairs]
        /\ wasOn' \in [Readers -> BOOLEAN]
    BY <1>3 DEF Restart, Steps
  <2>3. UNCHANGED <<world, consent, retrieval, store>>
    BY <1>3 DEF Restart
  <2>4. QED
    BY <2>1, <2>2, <2>3, Apart DEF Shapes
<1>4. QED
  BY <1>1, <1>2, <1>3

(* Registrations, consents and settings. *)
OwnerStep ==
  \/ \E space \in GameSpaces, w \in Worlds : CreateGameSpace(space, w)
  \/ \E pair \in Pairs, source, target \in BOOLEAN : SetBridge(pair, source, target)
  \/ \E p \in Principals, on \in BOOLEAN : UpdateSettings(p, on)

(* The owner's steps move no call. *)
LEMMA OwnerShapes ==
  ASSUME Shapes, OwnerStep
  PROVE  Shapes'
<1>1. ASSUME NEW space \in GameSpaces, NEW w \in Worlds, CreateGameSpace(space, w)
      PROVE  Shapes'
  BY <1>1 DEF CreateGameSpace, UnchangedButOwner, Shapes
<1>2. ASSUME NEW pair \in Pairs, NEW source \in BOOLEAN, NEW target \in BOOLEAN,
             SetBridge(pair, source, target)
      PROVE  Shapes'
  <2>1. consent' \in [Pairs -> [source : BOOLEAN, target : BOOLEAN]]
    BY <1>2 DEF SetBridge, Shapes
  <2>2. crossed' \in [Readers -> SUBSET Pairs]
    BY <1>2 DEF SetBridge, Shapes
  <2>3. UNCHANGED <<world, retrieval, wasOn, store, pc, job, got>>
    BY <1>2 DEF SetBridge, UnchangedButOwner
  <2>4. QED
    BY <2>1, <2>2, <2>3 DEF Shapes
<1>3. ASSUME NEW p \in Principals, NEW on \in BOOLEAN, UpdateSettings(p, on)
      PROVE  Shapes'
  <2>1. retrieval' \in [Principals -> BOOLEAN] /\ wasOn' \in [Readers -> BOOLEAN]
    BY <1>3 DEF UpdateSettings, Shapes
  <2>2. UNCHANGED <<world, consent, crossed, store, pc, job, got>>
    BY <1>3 DEF UpdateSettings, UnchangedButOwner
  <2>3. QED
    BY <2>1, <2>2 DEF Shapes
<1>4. QED
  BY <1>1, <1>2, <1>3 DEF OwnerStep

(* A sender's call ends or goes on; what it stores is the record of its event. *)
LEMMA RecordTypes ==
  ASSUME NEW d \in Deliverers, job[d] \in EventJobs
  PROVE  /\ RecordOf(d) = Rec(job[d].scope, job[d].event)
         /\ RecordOf(d) \in Recs
         /\ job[d].scope \in Scopes /\ job[d].space \in GameSpaces /\ job[d].event \in Events
<1>1. job[d].scope \in Scopes /\ job[d].space \in GameSpaces /\ job[d].event \in Events
  BY DEF EventJobs
<1>2. job[d].scope \in AllScopes
  BY <1>1 DEF Scopes, AllScopes
<1>3. RecordOf(d) = Rec(job[d].scope, job[d].event)
  BY DEF RecordOf, Rec, StableId
<1>4. QED
  BY <1>1, <1>2, <1>3 DEF Recs

EventsStep ==
  \/ \E d \in Deliverers, space \in GameSpaces, e \in Events : Deliver(d, space, e)
  \/ \E d \in Deliverers : EventStep(d)

(* What a sender's step does to the calls. *)
CallGoesOn(d) ==
  \E step \in {"ingest", "ref"} :
    pc[d] # "idle" /\ pc' = [pc EXCEPT ![d] = step] /\ UNCHANGED job

(* It goes on with its job, or is over. *)
LEMMA EventMoves ==
  ASSUME NEW d \in Deliverers, EventStep(d)
  PROVE  CallGoesOn(d) \/ Ends(d)
  BY DEF EventStep, Find, Ingest, AddRef, Answers, Errs, Lost, CallGoesOn

(* A delivery concerns a registered game space. *)
LEMMA EventShapes ==
  ASSUME Shapes, EventsStep
  PROVE  Shapes'
<1>1. ASSUME NEW d \in Deliverers, NEW space \in GameSpaces, NEW e \in Events,
             Deliver(d, space, e)
      PROVE  Shapes'
  <2>1. [space |-> space, event |-> e, scope |-> ScopeFor(space)] \in EventJobs
    BY <1>1, ScopeTypes DEF Deliver, EventJobs, Shapes, GameSpaces, Spaces
  <2>2. pc' \in [Callers -> Steps] /\ job' = [c \in Callers |-> job'[c]]
    BY <1>1, Apart DEF Deliver, Shapes, Steps
  <2>3. /\ job'[d] \in EventJobs
        /\ \A c \in Callers : c # d => pc'[c] = pc[c] /\ job'[c] = job[c]
    BY <1>1, <2>1, Apart DEF Deliver, Shapes
  <2>4. UNCHANGED <<world, consent, retrieval, store, got, crossed, wasOn>>
    BY <1>1 DEF Deliver, UnchangedButEvents
  <2>5. QED
    BY <2>2, <2>3, <2>4, Apart DEF Shapes
<1>2. ASSUME NEW d \in Deliverers, EventStep(d)
      PROVE  Shapes'
  <2>1. CallGoesOn(d) \/ Ends(d)
    BY <1>2, EventMoves
  <2>2. pc' \in [Callers -> Steps] /\ job' = [c \in Callers |-> job'[c]]
    BY <2>1, Apart DEF CallGoesOn, Ends, Shapes, Steps
  <2>3. /\ pc'[d] # "idle" => pc[d] # "idle" /\ job'[d] = job[d]
        /\ \A c \in Callers : c # d => pc'[c] = pc[c] /\ job'[c] = job[c]
    BY <2>1, Apart DEF CallGoesOn, Ends, Shapes
  <2>4. UNCHANGED <<world, consent, retrieval, got, crossed, wasOn>>
    BY <1>2 DEF EventStep, Find, Ingest, AddRef, UnchangedButEvents
  <2>5. store' \in SUBSET Recs /\ IsFiniteSet(store')
    <3>1. CASE store' = store
      BY <3>1 DEF Shapes
    <3>2. CASE pc[d] = "ingest" /\ store' = store \cup {RecordOf(d)}
      <4>1. RecordOf(d) \in Recs
        BY <3>2, RecordTypes DEF Shapes
      <4>2. IsFiniteSet(store \cup {RecordOf(d)})
        BY FS_AddElement DEF Shapes
      <4>3. QED
        BY <3>2, <4>1, <4>2 DEF Shapes
    <3>3. QED
      BY <1>2, <3>1, <3>2 DEF EventStep, Find, Ingest, AddRef
  <2>6. QED
    BY <2>2, <2>3, <2>4, <2>5, Apart DEF Shapes
<1>3. QED
  BY <1>1, <1>2 DEF EventsStep

(* Bridges lead from and to registered spaces, whose registration stays. *)
Known == \A pair \in Pairs : Active(pair) => Registered(pair[1]) /\ Registered(pair[2])

(* A registration is not undone; another scope for a space is a move. *)
LEMMA RegistrationStays ==
  ASSUME Shapes, Next, NEW space \in Spaces, Registered(space)
  PROVE  /\ Registered(space)'
         /\ ScopeFor(space)' = ScopeFor(space) \/ space \in moved'
         /\ space \in moved => space \in moved'
<1>1. CASE UNCHANGED <<world, moved>>
  BY <1>1 DEF Registered, ScopeFor
<1>2. ASSUME NEW s \in GameSpaces, NEW w \in Worlds, CreateGameSpace(s, w)
      PROVE  /\ Registered(space)'
             /\ ScopeFor(space)' = ScopeFor(space) \/ space \in moved'
             /\ space \in moved => space \in moved'
  <2>1. Kind(space) = "game" => space \in GameSpaces
    BY ScopeTypes DEF Shapes
  <2>2. QED
    BY <1>2, <2>1 DEF CreateGameSpace, Shapes, Registered, ScopeFor, Kind
<1>3. QED
  BY <1>1, <1>2 DEF Next, Start, Ask, Info, Healthz, UnchangedButProvider, SetBridge,
       UpdateSettings, UnchangedButOwner, Deliver, EventStep, Find, Ingest, AddRef,
       UnchangedButEvents, Context, ReadStep, CheckSettings, LoadTarget, LoadFails,
       ReadBridges, LoadSource, Return, UnchangedButReaders, ProviderChanges, Restart

(* A consent is only given between registered spaces. *)
LEMMA KnownStep ==
  ASSUME Shapes, Known, Next
  PROVE  Known'
<1>1. \A pair \in Pairs : pair[1] \in Spaces /\ pair[2] \in Spaces
  BY DEF Pairs
<1>2. CASE UNCHANGED consent
  BY <1>1, <1>2, RegistrationStays DEF Known, Active
<1>3. ASSUME NEW pair \in Pairs, NEW source \in BOOLEAN, NEW target \in BOOLEAN,
             SetBridge(pair, source, target)
      PROVE  Known'
  <2>1. world' = world /\ consent' = [consent EXCEPT ![pair] = [source |-> source, target |-> target]]
        /\ Registered(pair[1]) /\ Registered(pair[2])
    BY <1>3 DEF SetBridge
  <2>2. QED
    BY <2>1 DEF Known, Active, Registered, Shapes
<1>4. QED
  BY <1>2, <1>3 DEF Next, Start, Ask, Info, Healthz, UnchangedButProvider, CreateGameSpace,
       UpdateSettings, UnchangedButOwner, Deliver, EventStep, Find, Ingest, AddRef,
       UnchangedButEvents, Context, ReadStep, CheckSettings, LoadTarget, LoadFails,
       ReadBridges, LoadSource, Return, UnchangedButReaders, ProviderChanges, Restart

----------------------------------------------------------------------------
(* The calls that load context *)

ReadersStep == \E r \in Readers : Context(r) \/ ReadStep(r)

(* A step of a reader leaves the other calls alone. *)
LEMMA ReaderMoves ==
  ASSUME Shapes, NEW r \in Readers, Context(r) \/ ReadStep(r)
  PROVE  /\ pc' = [pc EXCEPT ![r] = pc'[r]] /\ pc' \in [Callers -> Steps]
         /\ job' = [job EXCEPT ![r] = job'[r]]
         /\ got' = [got EXCEPT ![r] = got'[r]]
         /\ crossed' = [crossed EXCEPT ![r] = crossed'[r]]
         /\ wasOn' = [wasOn EXCEPT ![r] = wasOn'[r]]
         /\ UNCHANGED <<world, moved, policy, consent, retrieval, store>>
<1>1. UNCHANGED <<world, moved, policy, consent, retrieval, store>>
  BY DEF Context, ReadStep, CheckSettings, LoadTarget, LoadFails, ReadBridges, LoadSource,
       Return, UnchangedButReaders
<1>2. r \in Callers
  BY Apart
<1>3. pc' = [pc EXCEPT ![r] = pc'[r]] /\ pc' \in [Callers -> Steps]
  BY <1>2 DEF Context, ReadStep, CheckSettings, LoadTarget, LoadFails, ReadBridges, LoadSource,
       Return, Shapes, Steps
<1>4. job' = [job EXCEPT ![r] = job'[r]]
  BY <1>2 DEF Context, ReadStep, CheckSettings, LoadTarget, LoadFails, ReadBridges, LoadSource,
       Return, Shapes
<1>5. got' = [got EXCEPT ![r] = got'[r]]
  BY DEF Context, ReadStep, CheckSettings, LoadTarget, LoadFails, ReadBridges, LoadSource,
       Return, Shapes
<1>6. crossed' = [crossed EXCEPT ![r] = crossed'[r]] /\ wasOn' = [wasOn EXCEPT ![r] = wasOn'[r]]
  BY DEF Context, ReadStep, CheckSettings, LoadTarget, LoadFails, ReadBridges, LoadSource,
       Return, Shapes
<1>7. QED
  BY <1>1, <1>3, <1>4, <1>5, <1>6

(* A reader works on scopes of registered spaces and collects records. *)
LEMMA ReaderShapes ==
  ASSUME Shapes, Known, ReadersStep
  PROVE  Shapes'
<1>1. PICK r \in Readers : Context(r) \/ ReadStep(r)
  BY DEF ReadersStep
<1>2. r \in Callers
  BY Apart
<1>3. pc'[r] # "idle" => job'[r] \in ReadJobs
  <2>1. CASE Context(r)
    <3>1. PICK space \in Spaces : /\ Registered(space)
                                  /\ job' = [job EXCEPT ![r] = [space |-> space,
                                       scope |-> ScopeFor(space), todo |-> {}]]
      BY <2>1 DEF Context
    <3>2. QED
      BY <1>2, <3>1, ScopeTypes DEF Shapes, ReadJobs
  <2>2. CASE ReadBridges(r)
    <3>1. PICK active \in SUBSET {pair \in Pairs : Active(pair)} :
            job' = [job EXCEPT ![r].todo =
                      {[space |-> pair[1], scope |-> ScopeFor(pair[1])] : pair \in active}]
      BY <2>2 DEF ReadBridges
    <3>2. job[r] \in ReadJobs
      BY <1>2, <2>2 DEF ReadBridges, Shapes
    <3>3. \A pair \in active :
            [space |-> pair[1], scope |-> ScopeFor(pair[1])]
              \in [space : Spaces, scope : AllScopes]
      BY ScopeTypes DEF Known, Pairs, Shapes
    <3>4. QED
      BY <1>2, <3>1, <3>2, <3>3 DEF Shapes, ReadJobs
  <2>3. CASE LoadSource(r)
    <3>1. job[r] \in ReadJobs
      BY <1>2, <2>3 DEF LoadSource, Shapes
    <3>2. PICK source \in job[r].todo : job' = [job EXCEPT ![r].todo = job[r].todo \ {source}]
      BY <2>3 DEF LoadSource
    <3>3. QED
      BY <1>2, <3>1, <3>2 DEF Shapes, ReadJobs
  <2>4. CASE Return(r)
    BY <1>2, <2>4 DEF Return, Shapes
  <2>5. CASE CheckSettings(r) \/ LoadTarget(r) \/ LoadFails(r)
    BY <1>2, <2>5 DEF CheckSettings, LoadTarget, LoadFails, Shapes
  <2>6. QED
    BY <1>1, <2>1, <2>2, <2>3, <2>4, <2>5 DEF ReadStep
<1>4. got'[r] \in SUBSET Recs
  <2>1. CASE LoadTarget(r)
    BY <2>1 DEF LoadTarget, Loads, Shapes
  <2>2. CASE LoadSource(r)
    BY <2>2 DEF LoadSource, Loads, Shapes
  <2>3. CASE ~LoadTarget(r) /\ ~LoadSource(r)
    BY <1>1, <2>3 DEF Context, ReadStep, CheckSettings, LoadFails, ReadBridges, Return, Shapes
  <2>4. QED
    BY <2>1, <2>2, <2>3
<1>5. crossed'[r] \in SUBSET Pairs /\ wasOn'[r] \in BOOLEAN
  <2>1. CASE Context(r)
    <3>1. PICK space \in Spaces : wasOn' = [wasOn EXCEPT ![r] = retrieval[space[1]]]
      BY <2>1 DEF Context
    <3>2. space[1] \in Principals
      BY DEF Spaces
    <3>3. QED
      BY <2>1, <3>1, <3>2 DEF Context, Shapes
  <2>2. CASE ReadStep(r)
    BY <2>2 DEF ReadStep, CheckSettings, LoadTarget, LoadFails, ReadBridges, LoadSource, Return,
         Shapes
  <2>3. QED
    BY <1>1, <2>1, <2>2
<1>6. /\ pc' = [pc EXCEPT ![r] = pc'[r]] /\ pc' \in [Callers -> Steps]
      /\ job' = [job EXCEPT ![r] = job'[r]]
      /\ got' = [got EXCEPT ![r] = got'[r]]
      /\ crossed' = [crossed EXCEPT ![r] = crossed'[r]]
      /\ wasOn' = [wasOn EXCEPT ![r] = wasOn'[r]]
      /\ UNCHANGED <<world, moved, policy, consent, retrieval, store>>
  BY <1>1, ReaderMoves
<1>7. /\ got' \in [Readers -> SUBSET Recs] /\ crossed' \in [Readers -> SUBSET Pairs]
      /\ wasOn' \in [Readers -> BOOLEAN]
  BY <1>4, <1>5, <1>6 DEF Shapes
<1>8. job' = [c \in Callers |-> job'[c]]
  BY <1>6 DEF Shapes
<1>9. \A c \in Callers : c # r => pc'[c] = pc[c] /\ job'[c] = job[c]
  BY <1>6 DEF Shapes
<1>10. /\ \A d \in Deliverers : pc'[d] # "idle" => job'[d] \in EventJobs
       /\ \A q \in Readers : pc'[q] # "idle" => job'[q] \in ReadJobs
  BY <1>3, <1>9, Apart DEF Shapes
<1>11. QED
  BY <1>6, <1>7, <1>8, <1>10 DEF Shapes

(* Every step keeps the shapes and the registrations behind the bridges. *)
LEMMA ShapesStep ==
  ASSUME Shapes, Known, Next
  PROVE  Shapes' /\ Known'
  BY KnownStep, ProviderShapes, OwnerShapes, EventShapes, ReaderShapes
     DEF Next, ProviderStep, OwnerStep, EventsStep, ReadersStep

(* So they hold throughout. *)
LEMMA ShapesHold == Spec => [](Shapes /\ Known)
<1>1. Init => Shapes /\ Known
  <2>1. Init => Known
    BY DEF Init, Known, Active
  <2>2. QED
    BY <2>1, InitShapes
<1>2. Shapes /\ Known /\ [Next]_vars => (Shapes /\ Known)'
  <2>1. Shapes /\ Known /\ UNCHANGED vars => (Shapes /\ Known)'
    BY DEF vars, Shapes, Known, Active, Registered
  <2>2. QED
    BY <2>1, ShapesStep
<1>3. QED
  BY <1>1, <1>2, PTL DEF Spec

----------------------------------------------------------------------------
(* Readiness *)

(* Verified capabilities are complete ones, the gateway runs with a provider
   it requires only if they are, and health is asked for only after that. *)
Probing ==
  /\ gateway \in {"down", "up"}
  /\ gateway = "down" => pc[Prober] = "idle" /\ ~ready
  /\ gateway = "up" /\ verified => caps = "full"
  /\ gateway = "up" /\ required => verified
  /\ pc[Prober] = "healthz" => verified
  /\ pc[Prober] = "info" => ~verified
  /\ ready => verified
  /\ verified \in BOOLEAN /\ ready \in BOOLEAN /\ required \in BOOLEAN

(* Discovery, health checks, starts and restarts keep it; nothing else can
   disturb it. *)
LEMMA ProbingStep ==
  ASSUME Shapes, Probing, Next
  PROVE  Probing'
<1>1. Prober \in Callers /\ Prober \notin Deliverers /\ Prober \notin Readers
  BY Apart
<1>2. CASE Start
  BY <1>1, <1>2 DEF Start, Discover, UnchangedButProvider, Probing, Shapes
<1>3. CASE Ask
  BY <1>1, <1>3 DEF Ask, UnchangedButProvider, Probing, Shapes
<1>4. CASE Info
  BY <1>1, <1>4 DEF Info, Discover, UnchangedButProvider, Probing, Shapes
<1>5. CASE Healthz
  BY <1>1, <1>5 DEF Healthz, UnchangedButProvider, Probing, Shapes
<1>6. CASE Restart
  BY <1>1, <1>6 DEF Restart, Probing
<1>7. CASE OwnerStep \/ ProviderChanges
  <2>1. UNCHANGED <<gateway, required, verified, caps, ready, pc>>
    BY <1>7 DEF OwnerStep, CreateGameSpace, SetBridge, UpdateSettings, UnchangedButOwner,
         ProviderChanges
  <2>2. QED
    BY <2>1 DEF Probing
<1>8. CASE EventsStep
  <2>1. UNCHANGED <<gateway, required, verified, caps, ready>>
    BY <1>8 DEF EventsStep, Deliver, EventStep, Find, Ingest, AddRef, UnchangedButEvents
  <2>2. pc'[Prober] = pc[Prober]
    <3>1. ASSUME NEW d \in Deliverers, EventStep(d)
          PROVE  pc'[Prober] = pc[Prober]
      BY <1>1, <3>1, EventMoves DEF CallGoesOn, Ends, Shapes
    <3>2. ASSUME NEW d \in Deliverers, NEW space \in GameSpaces, NEW e \in Events,
                 Deliver(d, space, e)
          PROVE  pc'[Prober] = pc[Prober]
      BY <1>1, <3>2 DEF Deliver, Shapes
    <3>3. QED
      BY <1>8, <3>1, <3>2 DEF EventsStep
  <2>3. QED
    BY <2>1, <2>2 DEF Probing
<1>9. CASE ReadersStep
  <2>1. UNCHANGED <<gateway, required, verified, caps, ready>>
    BY <1>9 DEF ReadersStep, Context, ReadStep, CheckSettings, LoadTarget, LoadFails,
         ReadBridges, LoadSource, Return, UnchangedButReaders
  <2>2. pc'[Prober] = pc[Prober]
    <3>1. PICK r \in Readers : Context(r) \/ ReadStep(r)
      BY <1>9 DEF ReadersStep
    <3>2. pc' = [pc EXCEPT ![r] = pc'[r]]
      BY <3>1, ReaderMoves
    <3>3. QED
      BY <1>1, <3>2 DEF Shapes
  <2>3. QED
    BY <2>1, <2>2 DEF Probing
<1>10. QED
  BY <1>2, <1>3, <1>4, <1>5, <1>6, <1>7, <1>8, <1>9
     DEF Next, OwnerStep, EventsStep, ReadersStep

(* Readiness, and a gateway that requires its provider, stand for a provider
   whose capabilities were seen complete since the start. *)
THEOREM ReadyIsVerified == Spec => []ReadyMeansVerified
<1>1. Init => Probing
  BY Apart DEF Init, Probing
<1>2. Shapes /\ Probing /\ [Next]_vars => Probing'
  <2>1. Probing /\ UNCHANGED vars => Probing'
    BY DEF vars, Probing
  <2>2. QED
    BY <2>1, ProbingStep
<1>3. Probing => ReadyMeansVerified
  BY DEF Probing, ReadyMeansVerified
<1>4. QED
  BY <1>1, <1>2, <1>3, ShapesHold, PTL DEF Spec

----------------------------------------------------------------------------
(* Retrieval switched off, bridges withdrawn *)

(* A call for a personal space that got past the settings found retrieval on. *)
Heard ==
  \A r \in Readers : pc[r] # "idle" /\ Kind(job[r].space) = "personal" =>
    /\ retrieval[job[r].space[1]] => wasOn[r]
    /\ pc[r] \in {"load", "bridges", "source"} => wasOn[r]
    /\ got[r] # {} => wasOn[r]

(* What a source contributes is due to a bridge seen active. *)
Due(r, scope, pairs) ==
  \E pair \in pairs : /\ pair[2] = job[r].space
                      /\ scope = ScopeFor(pair[1]) \/ pair[1] \in moved

(* A call knows of every bridge that is active, and its sources are due to
   bridges it knows of. *)
Crossing ==
  /\ \A r \in Readers : pc[r] # "idle" =>
       /\ \A pair \in Pairs : Active(pair) => pair \in crossed[r]
       /\ \A pair \in crossed[r] : Registered(pair[1])
       /\ pc[r] \in {"bridges", "source"} => policy.bridges
       /\ pc[r] = "source" => \A source \in job[r].todo : Due(r, source.scope, crossed[r])
       /\ \A record \in got[r] : record.scope # job[r].scope =>
            policy.bridges /\ Due(r, record.scope, crossed[r])
  /\ \A r \in Readers : pc[r] = "idle" => got[r] = {}

(* A reader's step keeps its own part. *)
LEMMA ReaderHeard ==
  ASSUME Shapes, Known, Heard, Crossing, ReadersStep
  PROVE  Heard' /\ Crossing'
<1>1. PICK r \in Readers : Context(r) \/ ReadStep(r)
  BY DEF ReadersStep
<1>2. r \in Callers
  BY Apart
<1>3. /\ pc' = [pc EXCEPT ![r] = pc'[r]] /\ job' = [job EXCEPT ![r] = job'[r]]
      /\ got' = [got EXCEPT ![r] = got'[r]] /\ crossed' = [crossed EXCEPT ![r] = crossed'[r]]
      /\ wasOn' = [wasOn EXCEPT ![r] = wasOn'[r]]
      /\ UNCHANGED <<world, moved, policy, consent, retrieval, store>>
  BY <1>1, ReaderMoves
<1>4. \A q \in Readers : q # r => /\ pc'[q] = pc[q] /\ job'[q] = job[q] /\ got'[q] = got[q]
                                  /\ crossed'[q] = crossed[q] /\ wasOn'[q] = wasOn[q]
  BY <1>3, Apart DEF Shapes
<1>5. \A pair \in Pairs : Active(pair)' <=> Active(pair)
  BY <1>3 DEF Active
<1>6. \A space : (Registered(space)' <=> Registered(space)) /\ ScopeFor(space)' = ScopeFor(space)
  BY <1>3 DEF Registered, ScopeFor
<1>7. /\ \A pair \in Pairs : pc[r] # "idle" /\ Active(pair) => pair \in crossed[r]
      /\ pc[r] # "idle" => \A pair \in crossed[r] : Registered(pair[1])
      /\ pc[r] # "idle" => \A record \in got[r] : record.scope # job[r].scope =>
                             policy.bridges /\ Due(r, record.scope, crossed[r])
      /\ pc[r] \in {"bridges", "source"} => policy.bridges
      /\ pc[r] = "source" => \A source \in job[r].todo : Due(r, source.scope, crossed[r])
  BY DEF Crossing
<1>8. policy' = policy
  BY <1>3
<1>9. pc'[r] # "idle" /\ Kind(job'[r].space) = "personal" =>
        /\ retrieval'[job'[r].space[1]] => wasOn'[r]
        /\ pc'[r] \in {"load", "bridges", "source"} => wasOn'[r]
        /\ got'[r] # {} => wasOn'[r]
  <2>1. CASE Context(r)
    BY <1>2, <1>3, <2>1 DEF Context, Shapes
  <2>2. CASE CheckSettings(r)
    BY <1>2, <1>3, <2>2 DEF CheckSettings, Heard, Shapes
  <2>3. CASE LoadTarget(r)
    BY <1>2, <1>3, <2>3 DEF LoadTarget, Heard, Shapes
  <2>4. CASE LoadFails(r)
    BY <1>2, <1>3, <2>4 DEF LoadFails, Heard, Shapes
  <2>5. CASE ReadBridges(r) \/ LoadSource(r)
    <3>1. pc[r] \in {"bridges", "source"} /\ job[r] \in ReadJobs /\ UNCHANGED wasOn
      BY <1>2, <2>5 DEF ReadBridges, LoadSource, Shapes
    <3>2. PICK todo : job' = [job EXCEPT ![r].todo = todo]
      BY <2>5 DEF ReadBridges, LoadSource
    <3>3. job'[r].space = job[r].space
      BY <1>2, <3>1, <3>2 DEF ReadJobs, Shapes
    <3>4. QED
      BY <1>3, <3>1, <3>3 DEF Heard
  <2>6. CASE Return(r)
    BY <1>2, <2>6 DEF Return, Shapes
  <2>7. QED
    BY <1>1, <2>1, <2>2, <2>3, <2>4, <2>5, <2>6 DEF ReadStep
<1>10. Heard'
  BY <1>3, <1>4, <1>9 DEF Heard
<1> DEFINE Mine == pc[r] # "idle" =>
              /\ \A pair \in Pairs : Active(pair) => pair \in crossed[r]
              /\ \A pair \in crossed[r] : Registered(pair[1])
              /\ pc[r] \in {"bridges", "source"} => policy.bridges
              /\ pc[r] = "source" => \A source \in job[r].todo : Due(r, source.scope, crossed[r])
              /\ \A record \in got[r] : record.scope # job[r].scope =>
                   policy.bridges /\ Due(r, record.scope, crossed[r])
<1>11. Mine' /\ (pc'[r] = "idle" => got'[r] = {})
  <2>1. CASE Context(r)
    <3>1. /\ pc'[r] \in {"load", "settings"} /\ got'[r] = {}
          /\ crossed'[r] = {pair \in Pairs : Active(pair)}
      BY <1>2, <2>1 DEF Context, Shapes
    <3>2. QED
      BY <1>3, <3>1 DEF Known, Active, Registered
  <2>2. CASE CheckSettings(r) \/ LoadTarget(r) \/ LoadFails(r)
    <3>1. /\ pc'[r] \notin {"idle", "source"} /\ pc[r] # "idle" /\ UNCHANGED <<job, crossed>>
          /\ pc'[r] = "bridges" => policy.bridges
          /\ \A record \in got'[r] : record \in got[r] \/ record.scope = job[r].scope
      BY <1>2, <2>2 DEF CheckSettings, LoadTarget, LoadFails, Loads, Shapes
    <3>2. \A scope : Due(r, scope, crossed[r]) => Due(r, scope, crossed[r])'
      BY <1>3, <1>6, <3>1 DEF Due
    <3>3. QED
      BY <1>5, <1>6, <1>7, <1>8, <3>1, <3>2
  <2>3. CASE ReadBridges(r)
    <3>1. pc[r] = "bridges" /\ job[r] \in ReadJobs /\ UNCHANGED <<got, crossed>>
          /\ pc'[r] # "idle"
      BY <1>2, <2>3 DEF ReadBridges, Shapes
    <3>2. PICK active \in SUBSET {pair \in Pairs : pair[2] = job[r].space /\ Active(pair)} :
            job' = [job EXCEPT ![r].todo =
                      {[space |-> pair[1], scope |-> ScopeFor(pair[1])] : pair \in active}]
      BY <2>3 DEF ReadBridges
    <3>3. /\ job'[r].space = job[r].space /\ job'[r].scope = job[r].scope
          /\ job'[r].todo =
               {[space |-> pair[1], scope |-> ScopeFor(pair[1])] : pair \in active}
      BY <1>2, <3>1, <3>2 DEF ReadJobs, Shapes
    <3>4. \A source \in job'[r].todo : Due(r, source.scope, crossed[r])
      BY <3>1, <3>3 DEF Crossing, Due
    <3>5. \A scope : Due(r, scope, crossed[r]) => Due(r, scope, crossed[r])'
      BY <1>3, <1>6, <3>1, <3>3 DEF Due
    <3>6. QED
      BY <1>5, <1>6, <1>7, <1>8, <3>1, <3>3, <3>4, <3>5
  <2>4. CASE LoadSource(r)
    <3>1. pc[r] = "source" /\ job[r] \in ReadJobs /\ UNCHANGED crossed /\ pc'[r] # "idle"
      BY <1>2, <2>4 DEF LoadSource, Shapes
    <3>2. PICK source \in job[r].todo, found \in SUBSET store :
            /\ \A record \in found : record.scope = source.scope
            /\ got' = [got EXCEPT ![r] = got[r] \cup found]
            /\ job' = [job EXCEPT ![r].todo = job[r].todo \ {source}]
      BY <2>4 DEF LoadSource, Loads
    <3>3. /\ job'[r].space = job[r].space /\ job'[r].scope = job[r].scope
          /\ job'[r].todo \subseteq job[r].todo /\ got'[r] = got[r] \cup found
      BY <1>2, <3>1, <3>2 DEF ReadJobs, Shapes
    <3>4. \A scope : Due(r, scope, crossed[r]) => Due(r, scope, crossed[r])'
      BY <1>3, <1>6, <3>1, <3>3 DEF Due
    <3>5. QED
      BY <1>5, <1>6, <1>7, <1>8, <3>1, <3>2, <3>3, <3>4
  <2>5. CASE Return(r)
    BY <1>2, <2>5 DEF Return, Shapes
  <2>6. QED
    BY <1>1, <2>1, <2>2, <2>3, <2>4, <2>5 DEF ReadStep
<1>12. Crossing'
  <2>1. ASSUME NEW q \in Readers, q # r
        PROVE  \A scope : Due(q, scope, crossed[q]) => Due(q, scope, crossed[q])'
    BY <1>3, <1>4, <1>6, <2>1 DEF Due
  <2>2. ASSUME NEW q \in Readers, q # r, pc'[q] # "idle"
        PROVE  /\ \A pair \in Pairs : Active(pair)' => pair \in crossed'[q]
               /\ \A pair \in crossed'[q] : Registered(pair[1])'
               /\ pc'[q] \in {"bridges", "source"} => policy'.bridges
               /\ pc'[q] = "source" =>
                    \A source \in job'[q].todo : Due(q, source.scope, crossed[q])'
               /\ \A record \in got'[q] : record.scope # job'[q].scope =>
                    policy'.bridges /\ Due(q, record.scope, crossed[q])'
    BY <1>3, <1>4, <1>5, <1>6, <2>1, <2>2 DEF Crossing
  <2>3. \A q \in Readers : q # r /\ pc'[q] = "idle" => got'[q] = {}
    BY <1>4 DEF Crossing
  <2>4. QED
    BY <1>11, <2>2, <2>3 DEF Crossing
<1>13. QED
  BY <1>10, <1>12

(* A step that leaves a reader's call as it is keeps its part, if what it
   does to the settings, the consents and the registrations is seen by it. *)
LEMMA OthersHeard ==
  ASSUME Shapes, Known, Heard, Crossing, Next,
         UNCHANGED <<got, policy>>,
         \A r \in Readers : /\ pc'[r] = pc[r] /\ job'[r] = job[r]
                            /\ crossed[r] \subseteq crossed'[r] /\ crossed'[r] \subseteq Pairs
                            /\ wasOn[r] => wasOn'[r],
         \A r \in Readers, pair \in Pairs :
           Active(pair)' => Active(pair) \/ pair \in crossed'[r],
         \A r \in Readers : \A pair \in crossed'[r] : pair \in crossed[r] \/ Registered(pair[1])',
         \A r \in Readers : pc[r] # "idle" /\ Kind(job[r].space) = "personal" =>
           (retrieval'[job[r].space[1]] => retrieval[job[r].space[1]] \/ wasOn'[r])
  PROVE  Heard' /\ Crossing'
<1>1. Heard'
  BY DEF Heard
<1>2. \A pair \in Pairs : Registered(pair[1]) =>
        /\ Registered(pair[1])'
        /\ ScopeFor(pair[1])' = ScopeFor(pair[1]) \/ pair[1] \in moved'
        /\ pair[1] \in moved => pair[1] \in moved'
  BY RegistrationStays DEF Pairs
<1>3. ASSUME NEW r \in Readers, pc[r] # "idle"
      PROVE  \A scope : Due(r, scope, crossed[r]) => Due(r, scope, crossed[r])'
  <2>1. \A pair \in crossed[r] : pair \in Pairs /\ Registered(pair[1])
    BY <1>3 DEF Crossing, Shapes
  <2>2. QED
    BY <1>2, <2>1 DEF Due
<1>4. ASSUME NEW r \in Readers, pc'[r] # "idle"
      PROVE  /\ \A pair \in Pairs : Active(pair)' => pair \in crossed'[r]
             /\ \A pair \in crossed'[r] : Registered(pair[1])'
             /\ pc'[r] \in {"bridges", "source"} => policy'.bridges
             /\ pc'[r] = "source" =>
                  \A source \in job'[r].todo : Due(r, source.scope, crossed[r])'
             /\ \A record \in got'[r] : record.scope # job'[r].scope =>
                  policy'.bridges /\ Due(r, record.scope, crossed[r])'
  <2>1. \A pair \in crossed'[r] : Registered(pair[1])'
    BY <1>2, <1>4 DEF Crossing
  <2>2. QED
    BY <1>3, <1>4, <2>1 DEF Crossing
<1>5. QED
  BY <1>1, <1>4 DEF Crossing

(* Every step keeps them. *)
LEMMA HeardStep ==
  ASSUME Shapes, Known, Heard, Crossing, Next
  PROVE  Heard' /\ Crossing'
<1>1. CASE ReadersStep
  BY <1>1, ReaderHeard
<1>2. CASE Restart
  <2>1. \A r \in Readers : pc'[r] = "idle" /\ got'[r] = {}
    BY <1>2, Apart DEF Restart
  <2>2. QED
    BY <2>1 DEF Heard, Crossing
<1>3. ASSUME ProviderStep \/ ProviderChanges \/ EventsStep
      PROVE  Heard' /\ Crossing'
  <2>1. UNCHANGED <<got, policy, crossed, wasOn, consent, retrieval, world>>
    BY <1>3 DEF ProviderStep, Start, Ask, Info, Healthz, UnchangedButProvider, ProviderChanges,
         EventsStep, Deliver, EventStep, Find, Ingest, AddRef, UnchangedButEvents
  <2>2. \A r \in Readers : pc'[r] = pc[r] /\ job'[r] = job[r]
    <3>1. ASSUME ProviderStep \/ ProviderChanges
          PROVE  /\ job' = job
                 /\ \/ pc' = pc
                    \/ \E step \in Steps : pc' = [pc EXCEPT ![Prober] = step]
      BY <3>1 DEF ProviderStep, Start, Ask, Info, Healthz, UnchangedButProvider,
           ProviderChanges, Steps
    <3>2. ASSUME NEW d \in Deliverers, NEW space \in GameSpaces, NEW e \in Events,
                 Deliver(d, space, e)
          PROVE  \A r \in Readers : pc'[r] = pc[r] /\ job'[r] = job[r]
      BY <3>2, Apart DEF Deliver, Shapes
    <3>3. ASSUME NEW d \in Deliverers, EventStep(d)
          PROVE  \A r \in Readers : pc'[r] = pc[r] /\ job'[r] = job[r]
      BY <3>3, EventMoves, Apart DEF CallGoesOn, Ends, Shapes
    <3>4. CASE ProviderStep \/ ProviderChanges
      BY <3>1, <3>4, Apart DEF Shapes
    <3>5. QED
      BY <1>3, <3>2, <3>3, <3>4 DEF EventsStep
  <2>3. \A r \in Readers : crossed[r] \subseteq Pairs
    BY DEF Shapes
  <2>4. \A pair \in Pairs : Active(pair)' => Active(pair)
    BY <2>1 DEF Active
  <2>5. QED
    BY <2>1, <2>2, <2>3, <2>4, OthersHeard
<1>4. ASSUME NEW space \in GameSpaces, NEW w \in Worlds, CreateGameSpace(space, w)
      PROVE  Heard' /\ Crossing'
  <2>1. UNCHANGED <<got, policy, crossed, wasOn, consent, retrieval, pc, job>>
    BY <1>4 DEF CreateGameSpace, UnchangedButOwner
  <2>2. \A r \in Readers : crossed[r] \subseteq Pairs
    BY DEF Shapes
  <2>3. \A pair \in Pairs : Active(pair)' => Active(pair)
    BY <2>1 DEF Active
  <2>4. QED
    BY <2>1, <2>2, <2>3, OthersHeard
<1>5. ASSUME NEW pair \in Pairs, NEW source \in BOOLEAN, NEW target \in BOOLEAN,
             SetBridge(pair, source, target)
      PROVE  Heard' /\ Crossing'
  <2>1. UNCHANGED <<got, policy, wasOn, retrieval, pc, job, world>>
    BY <1>5 DEF SetBridge, UnchangedButOwner
  <2>2. /\ Registered(pair[1])
        /\ consent' = [consent EXCEPT ![pair] = [source |-> source, target |-> target]]
        /\ \A r \in Readers :
             crossed'[r] = IF source /\ target THEN crossed[r] \cup {pair} ELSE crossed[r]
    BY <1>5 DEF SetBridge
  <2>3. Registered(pair[1])'
    BY <2>1, <2>2 DEF Registered
  <2>4. \A r \in Readers : crossed'[r] \subseteq Pairs
    <3>1. \A r \in Readers : crossed[r] \subseteq Pairs
      BY DEF Shapes
    <3>2. QED
      BY <2>2, <3>1
  <2>5. \A r \in Readers, p \in Pairs : Active(p)' => Active(p) \/ p \in crossed'[r]
    BY <2>2, ZenonT(60) DEF Active, Shapes
  <2>6. \A r \in Readers : \A p \in crossed'[r] : p \in crossed[r] \/ Registered(p[1])'
    BY <2>2, <2>3, ZenonT(60)
  <2>7. QED
    BY <2>1, <2>2, <2>4, <2>5, <2>6, OthersHeard
<1>6. ASSUME NEW p \in Principals, NEW on \in BOOLEAN, UpdateSettings(p, on)
      PROVE  Heard' /\ Crossing'
  <2>1. UNCHANGED <<got, policy, crossed, consent, world, pc, job>>
    BY <1>6 DEF UpdateSettings, UnchangedButOwner
  <2>2. /\ retrieval' = [retrieval EXCEPT ![p] = on]
        /\ \A r \in Readers : wasOn'[r] =
             (wasOn[r] \/ (on /\ pc[r] # "idle" /\ job[r].space = PersonalOf(p)))
    BY <1>6 DEF UpdateSettings
  <2>3. \A r \in Readers : crossed[r] \subseteq Pairs
    BY DEF Shapes
  <2>4. \A pair \in Pairs : Active(pair)' => Active(pair)
    BY <2>1 DEF Active
  <2>5. ASSUME NEW r \in Readers, pc[r] # "idle", Kind(job[r].space) = "personal",
               retrieval'[job[r].space[1]]
        PROVE  retrieval[job[r].space[1]] \/ wasOn'[r]
    <3>1. job[r].space \in Spaces
      BY <2>5 DEF Shapes, ReadJobs
    <3>2. job[r].space[1] \in Principals /\ job[r].space = PersonalOf(job[r].space[1])
      BY <2>5, <3>1 DEF Spaces, Kind, PersonalOf
    <3>3. QED
      BY <2>2, <2>5, <3>2 DEF Shapes
  <2>6. QED
    BY <2>1, <2>2, <2>3, <2>4, <2>5, OthersHeard
<1>7. QED
  BY <1>1, <1>2, <1>3, <1>4, <1>5, <1>6
     DEF Next, ProviderStep, EventsStep, ReadersStep

(* So they hold throughout. *)
LEMMA HeardHolds == Spec => [](Shapes /\ Heard /\ Crossing)
<1>1. Init => Heard /\ Crossing
  BY Apart DEF Init, Heard, Crossing
<1>2. Shapes /\ Known /\ Heard /\ Crossing /\ [Next]_vars => (Heard /\ Crossing)'
  <2>1. Heard /\ Crossing /\ UNCHANGED vars => (Heard /\ Crossing)'
    <3> SUFFICES ASSUME Heard, Crossing, UNCHANGED vars PROVE (Heard /\ Crossing)'
      OBVIOUS
    <3>1. Heard'
      BY DEF vars, Heard
    <3>2. /\ \A pair : Active(pair)' <=> Active(pair)
          /\ \A space : Registered(space)' <=> Registered(space)
      BY DEF vars, Active, Registered
    <3>3. \A r, scope : Due(r, scope, crossed[r])' <=> Due(r, scope, crossed[r])
      BY DEF vars, Due, ScopeFor
    <3>4. QED
      BY <3>1, <3>2, <3>3 DEF vars, Crossing
  <2>2. QED
    BY <2>1, HeardStep
<1>3. QED
  BY <1>1, <1>2, ShapesHold, PTL DEF Spec

(* A consent withdrawn before a call began is never used in it. *)
THEOREM WithdrawnIsOut == Spec => []WithdrawnStaysOut
<1>1. Shapes /\ Heard /\ Crossing => WithdrawnStaysOut
  BY DEF Crossing, WithdrawnStaysOut, Due
<1>2. QED
  BY <1>1, HeardHolds, PTL

(* Whoever switched retrieval off before a call began gets nothing from it. *)
THEOREM OptOutHeard == Spec => []OptOutIsHeard
<1>1. Shapes /\ Heard /\ Crossing => OptOutIsHeard
  BY DEF Heard, Crossing, OptOutIsHeard
<1>2. QED
  BY <1>1, HeardHolds, PTL

----------------------------------------------------------------------------
(* The ledger of events *)

Rows == [space : GameSpaces, event : Events, record : Scopes \X Events]

(* A reference stands for a record that is stored, in the scope of its space
   unless that was moved; so does a call that is about to make one; an answer
   stands for a reference. *)
Backed ==
  /\ \A d \in Deliverers : pc[d] # "idle" =>
       /\ Registered(job[d].space)
       /\ job[d].scope = ScopeFor(job[d].space) \/ job[d].space \in moved
  /\ \A d \in Deliverers : pc[d] = "ref" => RecordOf(d) \in store
  /\ refs \in SUBSET Rows
  /\ \A row \in refs :
       /\ row.record[2] = row.event /\ Rec(row.record[1], row.event) \in store
       /\ Registered(row.space)
       /\ row.record[1] = ScopeFor(row.space) \/ row.space \in moved
  /\ \A a, b \in refs : a.space = b.space /\ a.event = b.event => a = b
  /\ acked \subseteq refs

(* The row a call is about to make is a proper one. *)
LEMMA RowTypes ==
  ASSUME Shapes, Backed, NEW d \in Deliverers, pc[d] = "ref"
  PROVE  /\ RowOf(d) \in Rows
         /\ RowOf(d).record[2] = RowOf(d).event
         /\ RowOf(d).record[1] = job[d].scope /\ RowOf(d).space = job[d].space
         /\ RowOf(d).event = job[d].event /\ RowOf(d).record = RecordOf(d).id
         /\ Rec(RowOf(d).record[1], RowOf(d).event) \in store
<1>1. job[d] \in EventJobs
  BY DEF Shapes
<1>2. /\ RecordOf(d) = Rec(job[d].scope, job[d].event) /\ RecordOf(d) \in store
      /\ job[d].scope \in Scopes /\ job[d].space \in GameSpaces /\ job[d].event \in Events
  BY <1>1, RecordTypes DEF Backed
<1>3. RecordOf(d).id = <<job[d].scope, job[d].event>>
  BY <1>2 DEF Rec
<1>4. QED
  BY <1>2, <1>3 DEF RowOf, Rows

(* A step that is no sender's keeps it. *)
LEMMA OthersBacked ==
  ASSUME Shapes, Backed, Next, UNCHANGED <<refs, acked, store>>,
         \A d \in Deliverers : pc'[d] # "idle" => pc'[d] = pc[d] /\ job'[d] = job[d]
  PROVE  Backed'
<1>1. \A space \in Spaces : Registered(space) =>
        /\ Registered(space)'
        /\ ScopeFor(space)' = ScopeFor(space) \/ space \in moved'
        /\ space \in moved => space \in moved'
  BY RegistrationStays
<1>2. \A space \in GameSpaces : space \in Spaces
  BY DEF GameSpaces, Spaces
<1>3. ASSUME NEW d \in Deliverers, pc'[d] # "idle"
      PROVE  /\ Registered(job[d].space)'
             /\ job'[d].scope = ScopeFor(job[d].space)' \/ job'[d].space \in moved'
             /\ pc'[d] = "ref" => RecordOf(d)' \in store'
  <2>1. pc[d] # "idle" /\ pc'[d] = pc[d] /\ job'[d] = job[d] /\ job[d].space \in GameSpaces
    BY <1>3 DEF Shapes, EventJobs
  <2>2. RecordOf(d)' = RecordOf(d)
    BY <2>1 DEF RecordOf, StableId
  <2>3. /\ Registered(job[d].space)
        /\ job[d].scope = ScopeFor(job[d].space) \/ job[d].space \in moved
        /\ pc[d] = "ref" => RecordOf(d) \in store
    BY <2>1 DEF Backed
  <2>4. QED
    BY <1>1, <1>2, <2>1, <2>2, <2>3
<1>4. ASSUME NEW row \in refs'
      PROVE  /\ row.record[2] = row.event /\ Rec(row.record[1], row.event) \in store'
             /\ Registered(row.space)'
             /\ row.record[1] = ScopeFor(row.space)' \/ row.space \in moved'
  BY <1>1, <1>2 DEF Backed, Rows
<1>5. QED
  BY <1>3, <1>4 DEF Backed

(* Every step keeps it: only a new reference needs the unique index. *)
LEMMA BackedStep ==
  ASSUME Shapes, Known, Backed, Next
  PROVE  Backed'
<1>1. CASE ReadersStep
  <2>1. UNCHANGED <<refs, acked, store>>
    BY <1>1 DEF ReadersStep, Context, ReadStep, CheckSettings, LoadTarget, LoadFails,
         ReadBridges, LoadSource, Return, UnchangedButReaders
  <2>2. PICK r \in Readers : pc' = [pc EXCEPT ![r] = pc'[r]] /\ job' = [job EXCEPT ![r] = job'[r]]
    BY <1>1, ReaderMoves DEF ReadersStep
  <2>3. \A d \in Deliverers : pc'[d] = pc[d] /\ job'[d] = job[d]
    BY <2>2, Apart DEF Shapes
  <2>4. QED
    BY <2>1, <2>3, OthersBacked
<1>2. CASE Restart
  BY <1>2, OthersBacked, Apart DEF Restart
<1>3. CASE ProviderStep \/ ProviderChanges \/ OwnerStep
  <2>1. UNCHANGED <<refs, acked, store, job>>
    BY <1>3 DEF ProviderStep, Start, Ask, Info, Healthz, UnchangedButProvider, ProviderChanges,
         OwnerStep, CreateGameSpace, SetBridge, UpdateSettings, UnchangedButOwner
  <2>2. pc' = pc \/ \E step \in Steps : pc' = [pc EXCEPT ![Prober] = step]
    BY <1>3 DEF ProviderStep, Start, Ask, Info, Healthz, ProviderChanges, Steps,
         OwnerStep, CreateGameSpace, SetBridge, UpdateSettings, UnchangedButOwner
  <2>3. \A d \in Deliverers : pc'[d] = pc[d]
    BY <2>2, Apart DEF Shapes
  <2>4. QED
    BY <2>1, <2>3, OthersBacked
<1>4. ASSUME NEW d \in Deliverers, NEW space \in GameSpaces, NEW e \in Events,
             Deliver(d, space, e)
      PROVE  Backed'
  <2>1. /\ pc'[d] = "find" /\ Registered(space)
        /\ job'[d] = [space |-> space, event |-> e, scope |-> ScopeFor(space)]
        /\ \A c \in Callers : c # d => pc'[c] = pc[c] /\ job'[c] = job[c]
        /\ UNCHANGED <<refs, acked, store, world, moved>>
    BY <1>4, Apart DEF Deliver, UnchangedButEvents, Shapes
  <2>2. \A s : (Registered(s)' <=> Registered(s)) /\ ScopeFor(s)' = ScopeFor(s)
    BY <2>1 DEF Registered, ScopeFor
  <2>3. \A c \in Deliverers : c # d => RecordOf(c)' = RecordOf(c)
    BY <2>1, Apart DEF RecordOf, StableId
  <2>4. /\ \A c \in Deliverers : pc'[c] # "idle" =>
             /\ Registered(job[c].space)'
             /\ job'[c].scope = ScopeFor(job[c].space)' \/ job'[c].space \in moved'
        /\ \A c \in Deliverers : pc'[c] = "ref" => RecordOf(c)' \in store'
    BY <2>1, <2>2, <2>3, Apart DEF Backed
  <2>5. QED
    BY <2>1, <2>2, <2>4 DEF Backed
<1>5. ASSUME NEW d \in Deliverers, EventStep(d)
      PROVE  Backed'
  <2>1. UNCHANGED <<world, moved>> /\ store \subseteq store'
    BY <1>5 DEF EventStep, Find, Ingest, AddRef, UnchangedButEvents
  <2>2. \A s : (Registered(s)' <=> Registered(s)) /\ ScopeFor(s)' = ScopeFor(s)
    BY <2>1 DEF Registered, ScopeFor
  <2>3. CallGoesOn(d) \/ Ends(d)
    BY <1>5, EventMoves
  <2>4. /\ pc'[d] # "idle" => pc[d] # "idle" /\ job'[d] = job[d]
        /\ \A c \in Callers : c # d => pc'[c] = pc[c] /\ job'[c] = job[c]
    BY <2>3, Apart DEF CallGoesOn, Ends, Shapes
  <2>5. \A c \in Deliverers : pc'[c] # "idle" =>
          /\ Registered(job[c].space)'
          /\ job'[c].scope = ScopeFor(job[c].space)' \/ job'[c].space \in moved'
    BY <2>1, <2>2, <2>4, Apart DEF Backed
  <2>6. \A c \in Deliverers : pc'[c] = "ref" => RecordOf(c)' \in store'
    <3>1. ASSUME pc'[d] = "ref"
          PROVE  RecordOf(d)' \in store'
      <4>1. Ingest(d) /\ job' = job /\ RecordOf(d) \in store'
        BY <1>5, <3>1, Apart DEF EventStep, Find, Ingest, AddRef, Answers, Errs, Lost, Ends, Shapes
      <4>2. QED
        BY <4>1 DEF RecordOf, StableId
    <3>2. \A c \in Deliverers : c # d => RecordOf(c)' = RecordOf(c)
      BY <2>4, Apart DEF RecordOf, StableId
    <3>3. QED
      BY <2>1, <2>4, <3>1, <3>2, Apart DEF Backed
  <2>7. CASE refs' = refs /\ acked' \subseteq refs
    BY <2>1, <2>2, <2>5, <2>6, <2>7 DEF Backed
  <2>8. CASE /\ pc[d] = "ref" /\ refs' = refs \cup {RowOf(d)}
             /\ acked' \subseteq acked \cup {RowOf(d)}
             /\ ~\E row \in refs : /\ row.space = job[d].space /\ row.event = job[d].event
                                   /\ row.record # RecordOf(d).id
    <3>1. /\ RowOf(d) \in Rows
          /\ RowOf(d).record[2] = RowOf(d).event
          /\ RowOf(d).record[1] = job[d].scope /\ RowOf(d).space = job[d].space
          /\ RowOf(d).event = job[d].event /\ RowOf(d).record = RecordOf(d).id
          /\ Rec(RowOf(d).record[1], RowOf(d).event) \in store
      BY <2>8, RowTypes
    <3>2. /\ Registered(job[d].space)
          /\ job[d].scope = ScopeFor(job[d].space) \/ job[d].space \in moved
      BY <2>8 DEF Backed
    <3>3. \A a \in refs : a.space = RowOf(d).space /\ a.event = RowOf(d).event => a = RowOf(d)
      <4> TAKE a \in refs
      <4>1. a \in Rows
        BY DEF Backed
      <4>2. QED
        BY <2>8, <3>1, <4>1 DEF Rows
    <3>4. \A row \in refs' :
            /\ row.record[2] = row.event /\ Rec(row.record[1], row.event) \in store'
            /\ Registered(row.space)'
            /\ row.record[1] = ScopeFor(row.space)' \/ row.space \in moved'
      BY <2>1, <2>2, <2>8, <3>1, <3>2 DEF Backed
    <3>5. \A a, b \in refs' : a.space = b.space /\ a.event = b.event => a = b
      BY <2>8, <3>3 DEF Backed
    <3>6. refs' \in SUBSET Rows /\ acked' \subseteq refs'
      BY <2>8, <3>1 DEF Backed
    <3>7. QED
      BY <2>5, <2>6, <3>4, <3>5, <3>6 DEF Backed
  <2>9. QED
    <3>1. CASE Find(d)
      BY <2>7, <3>1 DEF Find, Answers, Backed
    <3>2. CASE Ingest(d)
      BY <2>7, <3>2 DEF Ingest, Errs, Lost, Backed
    <3>3. CASE AddRef(d)
      BY <2>7, <2>8, <3>3 DEF AddRef, Answers, Errs, Lost, Backed
    <3>4. QED
      BY <1>5, <3>1, <3>2, <3>3 DEF EventStep
<1>6. QED
  BY <1>1, <1>2, <1>3, <1>4, <1>5 DEF Next, ReadersStep, ProviderStep, OwnerStep

(* So it holds throughout. *)
LEMMA BackedHolds == Spec => [](Shapes /\ Backed)
<1>1. Init => Backed
  BY Apart DEF Init, Backed
<1>2. Shapes /\ Known /\ Backed /\ [Next]_vars => Backed'
  <2>1. Shapes /\ Backed /\ UNCHANGED vars => Backed'
    <3> SUFFICES ASSUME Shapes, Backed, UNCHANGED vars PROVE Backed'
      OBVIOUS
    <3>1. \A s : (Registered(s)' <=> Registered(s)) /\ ScopeFor(s)' = ScopeFor(s)
      BY DEF vars, Registered, ScopeFor
    <3>2. \A d \in Deliverers : RecordOf(d)' = RecordOf(d)
      BY DEF vars, RecordOf, StableId
    <3>3. QED
      BY <3>1, <3>2 DEF vars, Backed
  <2>2. QED
    BY <2>1, BackedStep
<1>3. QED
  BY <1>1, <1>2, ShapesHold, PTL DEF Spec

(* An event that was acknowledged is in the scope its game loads, unless the
   space was moved. *)
THEOREM AcknowledgedLoads == Spec => []AcknowledgedIsLoaded
<1>1. Shapes /\ Backed => AcknowledgedIsLoaded
  <2> SUFFICES ASSUME Shapes, Backed, NEW row \in acked, row.space \notin moved
               PROVE  \E record \in store :
                        record.scope = ScopeFor(row.space) /\ record.event = row.event
    BY DEF AcknowledgedIsLoaded
  <2>1. Rec(row.record[1], row.event) \in store /\ row.record[1] = ScopeFor(row.space)
    BY DEF Backed
  <2>2. QED
    BY <2>1 DEF Rec
<1>2. QED
  BY <1>1, BackedHolds, PTL

(* In a scope there is one copy of an event, or none. *)
LEMMA CopiesCount ==
  ASSUME NEW S \in SUBSET Recs, NEW entry \in Scopes \X Events
  PROVE  Cardinality({record \in S : record.scope = entry[1] /\ record.event = entry[2]})
           = IF Rec(entry[1], entry[2]) \in S THEN 1 ELSE 0
<1> DEFINE kept == {record \in S : record.scope = entry[1] /\ record.event = entry[2]}
<1>1. \A record \in kept : record = Rec(entry[1], entry[2])
  BY DEF Recs, Rec
<1>2. CASE Rec(entry[1], entry[2]) \in S
  <2>1. kept = {Rec(entry[1], entry[2])}
    BY <1>1, <1>2 DEF Rec
  <2>2. QED
    BY <1>2, <2>1, FS_Singleton
<1>3. CASE Rec(entry[1], entry[2]) \notin S
  <2>1. kept = {}
    BY <1>1, <1>3
  <2>2. QED
    BY <1>3, <2>1, FS_EmptySet
<1>4. QED
  BY <1>2, <1>3

Answered == {<<row.record[1], row.record[2]>> : row \in acked}

(* A step stores nothing and answers nothing, or stores the record of a
   sender's event, or answers with a reference. *)
LEMMA LedgerMoves ==
  ASSUME Shapes, Backed, Next
  PROVE  \/ UNCHANGED <<store, acked>>
         \/ /\ UNCHANGED acked
            /\ \E scope \in Scopes, e \in Events : store' = store \cup {Rec(scope, e)}
         \/ /\ UNCHANGED store
            /\ \E row \in Rows : /\ acked' = acked \cup {row}
                                 /\ row.record[2] = row.event
                                 /\ Rec(row.record[1], row.event) \in store
<1>1. CASE EventsStep
  <2>1. CASE \E d \in Deliverers, space \in GameSpaces, e \in Events : Deliver(d, space, e)
    BY <2>1 DEF Deliver
  <2>2. ASSUME NEW d \in Deliverers, EventStep(d)
        PROVE  \/ UNCHANGED <<store, acked>>
               \/ /\ UNCHANGED acked
                  /\ \E scope \in Scopes, e \in Events : store' = store \cup {Rec(scope, e)}
               \/ /\ UNCHANGED store
                  /\ \E row \in Rows : /\ acked' = acked \cup {row}
                                       /\ row.record[2] = row.event
                                       /\ Rec(row.record[1], row.event) \in store
    <3>1. CASE Find(d)
      BY <3>1 DEF Find, Answers, Backed
    <3>2. CASE Ingest(d)
      <4>1. job[d] \in EventJobs
        BY <3>2 DEF Ingest, Shapes
      <4>2. /\ RecordOf(d) = Rec(job[d].scope, job[d].event)
            /\ job[d].scope \in Scopes /\ job[d].event \in Events
        BY <4>1, RecordTypes
      <4>3. UNCHANGED acked /\ (store' = store \/ store' = store \cup {RecordOf(d)})
        BY <3>2 DEF Ingest, Errs, Lost
      <4>4. QED
        BY <4>2, <4>3
    <3>3. CASE AddRef(d)
      <4>1. /\ UNCHANGED store /\ pc[d] = "ref"
            /\ acked' = acked \/ acked' = acked \cup {RowOf(d)}
        BY <3>3 DEF AddRef, Answers, Errs, Lost
      <4>2. /\ RowOf(d) \in Rows /\ RowOf(d).record[2] = RowOf(d).event
            /\ Rec(RowOf(d).record[1], RowOf(d).event) \in store
        BY <4>1, RowTypes
      <4>3. QED
        BY <4>1, <4>2
    <3>4. QED
      BY <2>2, <3>1, <3>2, <3>3 DEF EventStep
  <2>3. QED
    BY <1>1, <2>1, <2>2 DEF EventsStep
<1>2. CASE ~EventsStep
  BY <1>2 DEF EventsStep, Next, Start, Ask, Info, Healthz, UnchangedButProvider, CreateGameSpace,
       SetBridge, UpdateSettings, UnchangedButOwner, Context, ReadStep, CheckSettings,
       LoadTarget, LoadFails, ReadBridges, LoadSource, Return, UnchangedButReaders,
       ProviderChanges, Restart
<1>3. QED
  BY <1>1, <1>2

(* Each of these is a step of the ledger, or none. *)
LEMMA LedgerStep ==
  ASSUME Shapes, Shapes', Backed, Next
  PROVE  Ledger!Next \/ (Copies' = Copies /\ Answered' = Answered)
<1> DEFINE en(row) == <<row.record[1], row.record[2]>>
<1>1. \A entry \in Scopes \X Events :
        /\ Copies[entry] = IF Rec(entry[1], entry[2]) \in store THEN 1 ELSE 0
        /\ Copies'[entry] = IF Rec(entry[1], entry[2]) \in store' THEN 1 ELSE 0
  <2> TAKE entry \in Scopes \X Events
  <2>1. store \in SUBSET Recs /\ store' \in SUBSET Recs
    BY DEF Shapes
  <2>2. Copies[entry] = IF Rec(entry[1], entry[2]) \in store THEN 1 ELSE 0
    BY <2>1, CopiesCount, ZenonT(60) DEF Copies
  <2>3. Copies'[entry] = IF Rec(entry[1], entry[2]) \in store' THEN 1 ELSE 0
    BY <2>1, CopiesCount, ZenonT(60) DEF Copies
  <2>4. QED
    BY <2>2, <2>3
<1>2. /\ Copies = [entry \in Scopes \X Events |-> Copies[entry]]
      /\ Copies' = [entry \in Scopes \X Events |-> Copies'[entry]]
  BY DEF Copies
<1>3. CASE UNCHANGED <<store, acked>>
  BY <1>3 DEF Copies, Answered
<1>4. ASSUME UNCHANGED acked, NEW scope \in Scopes, NEW e \in Events,
             store' = store \cup {Rec(scope, e)}
      PROVE  Ledger!Next \/ (Copies' = Copies /\ Answered' = Answered)
  <2>1. Answered' = Answered
    BY <1>4 DEF Answered
  <2>2. CASE Rec(scope, e) \in store
    <3>1. store' = store
      BY <1>4, <2>2
    <3>2. QED
      BY <2>1, <3>1 DEF Copies
  <2>3. CASE Rec(scope, e) \notin store
    <3>1. \A entry \in Scopes \X Events :
            entry # <<scope, e>> => Rec(entry[1], entry[2]) # Rec(scope, e)
      BY DEF Rec
    <3>2. Copies[<<scope, e>>] = 0
      BY <1>1, <2>3
    <3>3. Copies' = [Copies EXCEPT ![<<scope, e>>] = 1]
      BY <1>1, <1>2, <1>4, <3>1
    <3>4. QED
      BY <2>1, <3>2, <3>3 DEF Ledger!Next, Ledger!Record, Answered
  <2>4. QED
    BY <2>2, <2>3
<1>5. ASSUME UNCHANGED store, NEW row \in Rows, acked' = acked \cup {row},
             row.record[2] = row.event, Rec(row.record[1], row.event) \in store
      PROVE  Ledger!Next
  <2>1. row.record \in Scopes \X Events /\ row.record = en(row)
    BY DEF Rows
  <2>2. Copies[row.record] = 1
    BY <1>1, <1>5, <2>1
  <2>3. Copies' = Copies
    BY <1>5 DEF Copies
  <2>4. Answered' = Answered \cup {row.record}
    BY <1>5, <2>1 DEF Answered
  <2>5. QED
    BY <2>1, <2>2, <2>3, <2>4 DEF Ledger!Next, Ledger!Acknowledge, Answered
<1>6. QED
  BY <1>3, <1>4, <1>5, LedgerMoves

(* One copy of every delivered event, and none acknowledged without one, for
   any number of senders, redeliveries, lost answers and restarts. *)
THEOREM LedgerRefined == Spec => ImplementsLedger
<1>1. Init => Ledger!Init
  <2> SUFFICES ASSUME Init PROVE Ledger!Init
    OBVIOUS
  <2>1. \A entry \in Scopes \X Events : Rec(entry[1], entry[2]) \notin store
    BY DEF Init, NoteOf, Rec
  <2>2. store \in SUBSET Recs
    BY InitShapes DEF Shapes
  <2>3. Copies = [entry \in Scopes \X Events |-> 0]
    BY <2>1, <2>2, CopiesCount DEF Copies
  <2>4. QED
    BY <2>3 DEF Init, Ledger!Init
<1>2. Shapes /\ Shapes' /\ Backed /\ [Next]_vars => [Ledger!Next]_<<Copies, Answered>>
  <2>1. UNCHANGED vars => Copies' = Copies /\ Answered' = Answered
    BY DEF vars, Copies, Answered
  <2>2. QED
    BY <2>1, LedgerStep
<1>3. QED
  BY <1>1, <1>2, BackedHolds, PTL DEF Spec, ImplementsLedger, Ledger!Spec, Answered

----------------------------------------------------------------------------
(* Types and the limit of a context *)

Placed ==
  /\ \A d \in Deliverers : pc[d] \in {"idle", "find", "ingest", "ref"}
  /\ \A r \in Readers : pc[r] \in {"idle", "settings", "load", "bridges", "source", "done"}
  /\ \A r \in Readers : IsFiniteSet(got[r]) /\ Cardinality(got[r]) \in 0..Limit

(* What a reader has collected stays within the limit: a source gets what is
   left of it. *)
LEMMA ReaderPlaced ==
  ASSUME Shapes, Placed, NEW r \in Readers, Context(r) \/ ReadStep(r)
  PROVE  /\ pc'[r] \in {"idle", "settings", "load", "bridges", "source", "done"}
         /\ IsFiniteSet(got'[r]) /\ Cardinality(got'[r]) \in 0..Limit
<1>1. r \in Callers
  BY Apart
<1>2. pc'[r] \in {"idle", "settings", "load", "bridges", "source", "done"}
  BY <1>1 DEF Context, ReadStep, CheckSettings, LoadTarget, LoadFails, ReadBridges, LoadSource,
       Return, Shapes
<1>3. IsFiniteSet({}) /\ Cardinality({}) \in 0..Limit
  BY FS_EmptySet
<1>4. ASSUME NEW limit \in Int, NEW scope, NEW found \in Loads(scope, limit)
      PROVE  IsFiniteSet(found) /\ Cardinality(found) \in Nat /\ Cardinality(found) <= limit
  <2>1. found \in SUBSET store /\ Cardinality(found) <= limit
    BY DEF Loads
  <2>2. IsFiniteSet(found)
    BY <2>1, FS_Subset DEF Shapes
  <2>3. QED
    BY <2>1, <2>2, FS_CardinalityType
<1>5. CASE Context(r) \/ LoadFails(r) \/ Return(r)
  <2>1. got'[r] = {}
    BY <1>5 DEF Context, LoadFails, Return, Shapes
  <2>2. QED
    BY <1>2, <1>3, <2>1
<1>6. CASE LoadTarget(r)
  <2>1. PICK found \in Loads(job[r].scope, Limit) : got' = [got EXCEPT ![r] = found]
    BY <1>6 DEF LoadTarget
  <2>2. IsFiniteSet(found) /\ Cardinality(found) \in Nat /\ Cardinality(found) <= Limit
    BY <1>4, <2>1
  <2>3. got'[r] = found
    BY <2>1 DEF Shapes
  <2>4. QED
    BY <1>2, <2>2, <2>3
<1>7. CASE LoadSource(r)
  <2>1. PICK source \in job[r].todo : \E found \in Loads(source.scope, Remaining(r)) :
               got' = [got EXCEPT ![r] = got[r] \cup found]
    BY <1>7 DEF LoadSource
  <2>2. PICK found \in Loads(source.scope, Remaining(r)) :
               got' = [got EXCEPT ![r] = got[r] \cup found]
    BY <2>1
  <2>3. IsFiniteSet(got[r]) /\ Cardinality(got[r]) \in 0..Limit /\ Remaining(r) \in Int
    BY DEF Placed, Remaining
  <2>4. IsFiniteSet(found) /\ Cardinality(found) \in Nat /\ Cardinality(found) <= Remaining(r)
    BY <1>4, <2>2, <2>3
  <2>5. /\ IsFiniteSet(got[r] \cup found)
        /\ Cardinality(got[r] \cup found) =
             Cardinality(got[r]) + Cardinality(found) - Cardinality(got[r] \cap found)
    BY <2>3, <2>4, FS_Union
  <2>6. Cardinality(got[r] \cap found) \in Nat
    BY <2>4, FS_Subset, FS_CardinalityType
  <2>7. Cardinality(got[r] \cup found) \in Nat
    BY <2>5, FS_CardinalityType
  <2>8. got'[r] = got[r] \cup found
    BY <2>2 DEF Shapes
  <2>9. QED
    BY <1>2, <2>3, <2>4, <2>5, <2>6, <2>7, <2>8 DEF Remaining
<1>8. CASE CheckSettings(r) \/ ReadBridges(r)
  BY <1>2, <1>8 DEF CheckSettings, ReadBridges, Placed
<1>9. QED
  BY <1>5, <1>6, <1>7, <1>8 DEF ReadStep

(* Every step keeps callers at steps of their kind. *)
LEMMA PlacedStep ==
  ASSUME Shapes, Placed, Next
  PROVE  Placed'
<1>1. ASSUME NEW r \in Readers, Context(r) \/ ReadStep(r)
      PROVE  Placed'
  <2>1. /\ pc' = [pc EXCEPT ![r] = pc'[r]] /\ got' = [got EXCEPT ![r] = got'[r]]
        /\ pc'[r] \in {"idle", "settings", "load", "bridges", "source", "done"}
        /\ IsFiniteSet(got'[r]) /\ Cardinality(got'[r]) \in 0..Limit
    BY <1>1, ReaderMoves, ReaderPlaced
  <2>2. \A c \in Callers : c # r => pc'[c] = pc[c]
    BY <2>1 DEF Shapes
  <2>3. \A q \in Readers : q # r => got'[q] = got[q]
    BY <2>1 DEF Shapes
  <2>4. QED
    BY <2>1, <2>2, <2>3, Apart DEF Placed
<1>2. CASE Restart
  BY <1>2, Apart, FS_EmptySet DEF Restart, Placed
<1>3. CASE ProviderStep \/ ProviderChanges \/ OwnerStep
  <2>1. UNCHANGED got /\ (pc' = pc \/ \E step \in Steps : pc' = [pc EXCEPT ![Prober] = step])
    BY <1>3 DEF ProviderStep, Start, Ask, Info, Healthz, UnchangedButProvider, ProviderChanges,
         Steps, OwnerStep, CreateGameSpace, SetBridge, UpdateSettings, UnchangedButOwner
  <2>2. \A c \in Deliverers \cup Readers : pc'[c] = pc[c]
    BY <2>1, Apart DEF Shapes
  <2>3. QED
    BY <2>1, <2>2 DEF Placed
<1>4. ASSUME NEW d \in Deliverers, EventStep(d) \/
                \E space \in GameSpaces, e \in Events : Deliver(d, space, e)
      PROVE  Placed'
  <2>1. UNCHANGED got /\ \E step \in {"idle", "find", "ingest", "ref"} :
                           pc' = [pc EXCEPT ![d] = step]
    <3>1. CASE EventStep(d)
      BY <3>1, EventMoves DEF EventStep, Find, Ingest, AddRef, UnchangedButEvents, CallGoesOn,
           Ends
    <3>2. CASE \E space \in GameSpaces, e \in Events : Deliver(d, space, e)
      BY <3>2 DEF Deliver, UnchangedButEvents
    <3>3. QED
      BY <1>4, <3>1, <3>2
  <2>2. /\ pc'[d] \in {"idle", "find", "ingest", "ref"}
        /\ \A c \in Deliverers \cup Readers : c # d => pc'[c] = pc[c]
    BY <2>1, Apart DEF Shapes
  <2>3. QED
    BY <2>1, <2>2, Apart DEF Placed
<1>5. QED
  BY <1>1, <1>2, <1>3, <1>4 DEF Next, ProviderStep, OwnerStep

(* Types, one row to an event, and no more in a context than its limit. *)
THEOREM TypeCorrect == Spec => []TypeOK
<1>1. Init => Placed
  BY Apart, FS_EmptySet DEF Init, Placed
<1>2. Shapes /\ Placed /\ [Next]_vars => Placed'
  <2>1. Placed /\ UNCHANGED vars => Placed'
    BY DEF vars, Placed
  <2>2. QED
    BY <2>1, PlacedStep
<1>3. Shapes /\ Backed /\ Placed => TypeOK
  BY DEF Shapes, Backed, Placed, TypeOK
<1>4. QED
  BY <1>1, <1>2, <1>3, BackedHolds, PTL DEF Spec
=============================================================================
