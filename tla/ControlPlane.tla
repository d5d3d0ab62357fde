--------------------------- MODULE ControlPlane ---------------------------
(***************************************************************************)
(* The control plane (ops/hubctl.py and the hub script around it): a       *)
(* command edits an overlay or the managed weights, renders the runtime    *)
(* files one by one and recreates the services; the gateway and the        *)
(* llama.cpp router read those files when they start.                      *)
(*                                                                         *)
(* An operator runs one command at a time, several operators may overlap,  *)
(* and a command may be killed between any two steps.  Compose runs the    *)
(* renderer once more in a container of its own, ConfigInit, before it     *)
(* starts the router.  models.ini and compose.generated.yaml are kept as   *)
(* the presets and mounts they list; profiles.json repeats                 *)
(* catalog.resolved.json, llama_api_key never changes.                     *)
(***************************************************************************)
EXTENDS CatalogDocument, TLC

CONSTANTS
  Operators,    \* processes of ./hub
  ConfigInit,   \* the config-init container
  Base,         \* config/models/catalog.yaml
  Overlays,     \* overlays an installation may start from
  Commands,     \* what each operator may ask for
  WeightFiles,  \* the paths that end in .gguf
  MaxCommands,  \* bound: commands started
  MaxCrashes    \* bound: commands, renderers or services killed

Renderers == Operators \cup {ConfigInit}

ASSUME ControlPlaneAssumption ==
  /\ ConfigInit \notin Operators
  /\ MaxCommands \in Nat /\ MaxCrashes \in Nat
  /\ \A o \in Overlays : ValidateCatalog(MergeDocument(Base, o))

VARIABLES
  overlay,    \* /state/catalog.local.yaml
  memory,     \* /state/memory.local.yaml: automatic.enabled
  files,      \* models.ini, catalog.resolved.json and memory.resolved.yaml
  owned,      \* those the gateway's user may read
  compose,    \* .agent-ui/compose.generated.yaml
  weights,    \* managed files: "absent", "good" (as the checksum says) or "bad"
  router,     \* what the running router was started with, or Null
  gateway,    \* "down", "starting" or "up"
  serving,    \* catalog and memory configuration the gateway loaded
  pc, cmd,    \* per operator: the step it is at, its command
  seen,       \* per operator: the overlay it is about to write
  plan,       \* per operator: the compose file its command brought services up with
  rpc, shot,  \* per renderer: the step it is at, the catalog it rendered last
  alone,      \* per operator: no other command overlapped its last one
  started, crashes

vars == <<overlay, memory, files, owned, compose, weights, router, gateway,
          serving, pc, cmd, seen, plan, rpc, shot, alone, started, crashes>>

-----------------------------------------------------------------------------
Effective == Normalized(MergeDocument(Base, overlay))

Local(catalog, m) ==
  LET model == Section(catalog, "models")[m]
  IN /\ Enabled(model)
     /\ Section(catalog, "backends")[model["backend"]]["kind"] = "llama.cpp"

Upstream(catalog, m) ==
  LET name == Field(Section(catalog, "models")[m], "upstream_model", Null)
  IN IF name = Null THEN m ELSE name

Artifact(catalog, m) == ArtifactFor(Section(catalog, "models")[m])

(* artifact_filename, where a path stands for its last component too, and the
   id of the model for the name made of it. *)
ArtifactFilename(m, artifact) ==
  IF At(artifact, "filename") # Null THEN artifact["filename"]
  ELSE IF At(artifact, "path") \in WeightFiles THEN artifact["path"]
  ELSE m

(* resolved_model_path, part by part. *)
External(m) == <<"/models/external", m>>

ResolvedModelPath(m, artifact) ==
  LET filename == ArtifactFilename(m, artifact)
      relative == IF At(artifact, "sub_path") # Null THEN artifact["sub_path"] ELSE filename
  IN CASE Kind(artifact) = "managed" -> <<"managed", filename>>
       [] Kind(artifact) = "host_path" -> Append(External(m), filename)
       [] Kind(artifact) \in {"docker_volume", "pvc", "hostPath"} -> Append(External(m), relative)
       [] Kind(artifact) = "container_path" -> <<artifact["path"]>>
       [] OTHER -> Null

(* render_models_ini: a preset per enabled local model. *)
RenderModelsIni(catalog) ==
  {[name |-> Upstream(catalog, m), path |-> ResolvedModelPath(m, Artifact(catalog, m))] :
     m \in {n \in DOMAIN Section(catalog, "models") :
              Local(catalog, n) /\ ResolvedModelPath(n, Artifact(catalog, n)) # Null}}

(* What Compose mounts: a bind of a file or a directory, or a volume, under an
   alias made of the model's id.  The other kinds are not mounted. *)
Mounted == {"host_path", "docker_volume"}

(* Bug: a file is mounted under its own name, whatever its filename is. *)
MountByPath(m, artifact) ==
  [source |-> artifact[LocationField[Kind(artifact)]],
   target |-> IF Kind(artifact) = "host_path" /\ artifact["path"] \in WeightFiles
              THEN Append(External(m), artifact["path"]) ELSE External(m)]

Mount(m, artifact) ==
  [source |-> artifact[LocationField[Kind(artifact)]],
   target |-> IF Kind(artifact) = "host_path" /\ artifact["path"] \in WeightFiles
              THEN Append(External(m), ArtifactFilename(m, artifact)) ELSE External(m)]

(* render_compose_override: is a local router needed, and what is mounted. *)
RenderComposeOverride(catalog) ==
  LET local == {m \in DOMAIN Section(catalog, "models") :
                  /\ Local(catalog, m)
                  /\ BackendOn(catalog, Section(catalog, "models")[m])}
  IN [needed |-> local # {},
      mounts |-> {Mount(m, Artifact(catalog, m)) :
                    m \in {n \in local : Kind(Artifact(catalog, n)) \in Mounted}}]

Rendered(catalog) ==
  [ini |-> RenderModelsIni(catalog), catalog |-> catalog, memory |-> memory]

(* The model has a preset, and if it is one Compose mounts, its file or the
   directory around it is mounted where the preset looks. *)
Reaches(catalog, m) ==
  LET artifact == Artifact(catalog, m)
      path == ResolvedModelPath(m, artifact)
  IN /\ [name |-> Upstream(catalog, m), path |-> path] \in router.presets
     /\ Kind(artifact) \in Mounted => \E mount \in router.mounts :
          /\ mount.source = artifact[LocationField[Kind(artifact)]]
          /\ mount.target \in {path, External(m)}

Managed(m) ==
  /\ m \in DOMAIN Section(Effective, "models")
  /\ Kind(Artifact(Effective, m)) = "managed"

Resting == {"idle", "done", "planned", "failed"}
Busy(o) == pc[o] \notin Resting
ManagedIds ==
  {c.model : c \in {d \in UNION {Commands[o] : o \in Operators} : d.kind \in {"fetch", "remove"}}}

Init ==
  /\ overlay \in Overlays
  /\ memory = "off"
  /\ files = Rendered(Effective)
  /\ owned = {"catalog", "memory"}
  /\ compose = RenderComposeOverride(Effective)
  /\ weights = [m \in ManagedIds |-> "absent"]
  /\ \/ gateway = "down" /\ router = Null
     \/ /\ gateway = "starting"
        /\ router = IF compose.needed
                    THEN [presets |-> files.ini, mounts |-> compose.mounts] ELSE Null
  /\ serving = [catalog |-> Effective, memory |-> memory]
  /\ pc = [o \in Operators |-> "idle"]
  /\ cmd = [o \in Operators |-> Null]
  /\ seen = [o \in Operators |-> Null]
  /\ plan = [o \in Operators |-> Null]
  /\ rpc = [r \in Renderers |-> "off"]
  /\ shot = [r \in Renderers |-> Null]
  /\ alone = [o \in Operators |-> FALSE]
  /\ started = 0
  /\ crashes = 0

-----------------------------------------------------------------------------
(* Commands. *)
FirstStep(c) ==
  IF c.kind \in {"apply", "register", "memory"} THEN "read"
  ELSE IF c.kind \in {"fetch", "remove"} THEN c.kind
  ELSE "render"

(* An operator enters a command; "render" and "up" render at once. *)
Start(o) ==
  /\ ~Busy(o)
  /\ started < MaxCommands
  /\ \E c \in Commands[o] :
       /\ cmd' = [cmd EXCEPT ![o] = c]
       /\ pc' = [pc EXCEPT ![o] = FirstStep(c)]
       /\ rpc' = IF FirstStep(c) = "render" THEN [rpc EXCEPT ![o] = "load"] ELSE rpc
  /\ alone' = [x \in Operators |->
       x = o /\ (\A y \in Operators \ {o} : ~Busy(y)) /\ rpc[ConfigInit] \in {"off", "failed"}]
  /\ plan' = [plan EXCEPT ![o] = Null]
  /\ started' = started + 1
  /\ UNCHANGED <<overlay, memory, files, owned, compose, weights, router, gateway, serving,
                 seen, shot, crashes>>

(* setdefault of the version, which a document may leave out. *)
Versioned(document) ==
  [key \in DOMAIN document \cup {"version"} |->
     IF key \in DOMAIN document THEN document[key] ELSE 2]

Put(document, section, id, entry) ==
  [s \in DOMAIN document \cup {section} |->
     IF s # section THEN document[s]
     ELSE [i \in DOMAIN Section(document, s) \cup {id} |->
             IF i = id THEN entry ELSE Section(document, s)[i]]]

(* The models that the base lacks are the same objects in the overlay and in
   the merged catalog, so that validate_catalog rewrites their lists of
   capabilities in what is written, too. *)
Written(document) ==
  NormalizedExcept(document, {m \in DOMAIN Section(Base, "models") :
                                At(Section(Base, "models"), m) # Null})

Registered(c) ==
  LET document == Put(Versioned(overlay), "models", c.model, c.entry)
  IN IF c.experience = Null THEN document
     ELSE Put(document, "experiences", c.experience,
              [advertised |-> TRUE, model |-> c.model, capability |-> c.capability])

(* Bug: a section of the file takes the place of the overlay's section. *)
CandidateShallow(c) ==
  Written(IF c.kind = "apply" THEN Versioned(c.file) @@ overlay ELSE Registered(c))

(* The overlay a command would leave: cmd_catalog_apply merges the file into
   it or replaces it, cmd_model_register puts one model in, and with
   --experience an experience pinned to it. *)
CandidateOverlay(c) ==
  Written(IF c.kind = "register" THEN Registered(c)
          ELSE IF c.replace THEN Versioned(c.file)
          ELSE Versioned(MergeDocument(overlay, Versioned(c.file))))

(* What a command refuses before it merges: a file of another version, an
   overlay whose section is null and cannot be put into. *)
Acceptable(c) ==
  IF c.kind = "register"
  THEN /\ Section(overlay, "models") # Null
       /\ c.experience # Null => Section(overlay, "experiences") # Null
  ELSE Field(c.file, "version", Null) \in {2, Null}

(* Bug: a file is validated without the overlay it is merged into. *)
ValidAlone(c) ==
  IF c.kind = "memory" THEN c.enabled \in {"on", "off"}
  ELSE Acceptable(c) /\ ValidateCatalog(MergeDocument(Base,
         IF c.kind = "apply" THEN Versioned(c.file) ELSE CandidateOverlay(c)))

(* Bug: the memory overlay is not validated. *)
ValidUnlessCatalog(c) ==
  c.kind # "memory" =>
    Acceptable(c) /\ ValidateCatalog(MergeDocument(Base, CandidateOverlay(c)))

(* Rewriting lists, which validation does first, makes no difference to it.
   Both documents are bound, so that they are computed once. *)
ValidCandidate(c) ==
  IF c.kind = "memory" THEN c.enabled \in {"on", "off"}
  ELSE /\ Acceptable(c)
       /\ \E document \in {CandidateOverlay(c)} :
            \E catalog \in {MergeDocument(Base, document)} : ValidateCatalog(catalog)

(* The overlay is read, edited in memory and validated; a dry run ends here. *)
ReadOverlay(o) ==
  LET c == cmd[o]
  IN /\ pc[o] = "read"
     /\ \/ /\ ~ValidCandidate(c)
           /\ pc' = [pc EXCEPT ![o] = "failed"]
           /\ UNCHANGED seen
        \/ /\ ValidCandidate(c)
           /\ pc' = [pc EXCEPT ![o] = IF c.dry THEN "planned" ELSE "write"]
           /\ seen' = [seen EXCEPT ![o] = IF c.kind = "memory" THEN Null ELSE CandidateOverlay(c)]
  /\ UNCHANGED <<overlay, memory, files, owned, compose, weights, router, gateway, serving,
                 cmd, plan, rpc, shot, alone, started, crashes>>

(* The hub script renders when the toolbox command has succeeded. *)
ThenRender(o) ==
  /\ pc' = [pc EXCEPT ![o] = "render"]
  /\ rpc' = [rpc EXCEPT ![o] = "load"]

(* Bug: switching automatic memory does not render. *)
WriteWithoutRender(o) ==
  /\ pc[o] = "write"
  /\ IF cmd[o].kind = "memory"
     THEN /\ memory' = cmd[o].enabled
          /\ pc' = [pc EXCEPT ![o] = "recreate"]
          /\ UNCHANGED <<overlay, rpc>>
     ELSE overlay' = seen[o] /\ ThenRender(o) /\ UNCHANGED memory
  /\ seen' = [seen EXCEPT ![o] = Null]
  /\ UNCHANGED <<files, owned, compose, weights, router, gateway, serving, cmd, plan, shot,
                 alone, started, crashes>>

(* The overlay is replaced as a whole. *)
WriteOverlay(o) ==
  /\ pc[o] = "write"
  /\ IF cmd[o].kind = "memory"
     THEN memory' = cmd[o].enabled /\ UNCHANGED overlay
     ELSE overlay' = seen[o] /\ UNCHANGED memory
  /\ seen' = [seen EXCEPT ![o] = Null]
  /\ ThenRender(o)
  /\ UNCHANGED <<files, owned, compose, weights, router, gateway, serving, cmd, plan, shot,
                 alone, started, crashes>>

-----------------------------------------------------------------------------
(* Managed weights.  The configured catalog has to name the model. *)
Fails(o) == pc' = [pc EXCEPT ![o] = "failed"] /\ UNCHANGED rpc

UnchangedButWeights ==
  UNCHANGED <<overlay, memory, files, owned, compose, router, gateway, serving, cmd, seen,
              plan, shot, alone, started, crashes>>

(* cmd_model_fetch up to the rename: the download goes
   to a partial file of its own and is renamed over the destination. *)
Fetch(o) ==
  LET c == cmd[o]
  IN /\ pc[o] = "fetch"
     /\ \/ Fails(o) /\ UNCHANGED weights     \* refused, or the download failed
        \/ /\ Managed(c.model)
           /\ weights[c.model] = "absent" \/ c.force
           /\ \E w \in {"good", "bad"} : weights' = [weights EXCEPT ![c.model] = w]
           /\ pc' = [pc EXCEPT ![o] = "verify"]
           /\ UNCHANGED rpc
  /\ UnchangedButWeights

(* The destination is hashed; a mismatch is unlinked in a second step. *)
Verify(o) ==
  LET found == weights[cmd[o].model]
  IN /\ pc[o] = "verify"
     /\ \/ found = "good" /\ ThenRender(o)
        \/ found = "bad" /\ pc' = [pc EXCEPT ![o] = "unlink"] /\ UNCHANGED rpc
        \/ found = "absent" /\ Fails(o)
     /\ UNCHANGED weights
  /\ UnchangedButWeights

(* Bug: the mismatch is reported and the file stays. *)
UnlinkNothing(o) ==
  /\ pc[o] = "unlink"
  /\ Fails(o)
  /\ UNCHANGED weights
  /\ UnchangedButWeights

Unlink(o) ==
  /\ pc[o] = "unlink"
  /\ weights' = [weights EXCEPT ![cmd[o].model] = "absent"]
  /\ Fails(o)
  /\ UnchangedButWeights

Remove(o) ==
  LET c == cmd[o]
  IN /\ pc[o] = "remove"
     /\ \/ ~Managed(c.model) /\ Fails(o) /\ UNCHANGED weights
        \/ /\ Managed(c.model)
           /\ weights' = [weights EXCEPT ![c.model] = "absent"]
           /\ ThenRender(o)
  /\ UnchangedButWeights

-----------------------------------------------------------------------------
(* cmd_runtime_render.  Each file is written under a temporary name, readable
   by its owner, and renamed; the ownership is given away at the end. *)
UnchangedButFiles ==
  UNCHANGED <<overlay, memory, compose, weights, router, gateway, serving, cmd, seen, plan,
              alone, started, crashes>>

RenderLoad(r) ==
  /\ rpc[r] = "load"
  /\ shot' = [shot EXCEPT ![r] = Effective]
  /\ rpc' = [rpc EXCEPT ![r] = "ini"]
  /\ UNCHANGED <<files, owned, pc>>
  /\ UnchangedButFiles

WriteIni(r) ==
  /\ rpc[r] = "ini"
  /\ files' = [files EXCEPT !.ini = RenderModelsIni(shot[r])]
  /\ rpc' = [rpc EXCEPT ![r] = "catalog"]
  /\ UNCHANGED <<owned, shot, pc>>
  /\ UnchangedButFiles

WriteCatalog(r) ==
  /\ rpc[r] = "catalog"
  /\ files' = [files EXCEPT !.catalog = shot[r]]
  /\ owned' = owned \ {"catalog"}
  /\ rpc' = [rpc EXCEPT ![r] = "memory"]
  /\ UNCHANGED <<shot, pc>>
  /\ UnchangedButFiles

(* The memory overlay is read only now. *)
WriteMemory(r) ==
  /\ rpc[r] = "memory"
  /\ files' = [files EXCEPT !.memory = memory]
  /\ owned' = owned \ {"memory"}
  /\ rpc' = [rpc EXCEPT ![r] = "own"]
  /\ UNCHANGED <<shot, pc>>
  /\ UnchangedButFiles

(* Bug: one of the files is left out of the list to chown. *)
OwnCatalogOnly(r) ==
  /\ rpc[r] = "own"
  /\ owned' = owned \cup {"catalog"}
  /\ rpc' = [rpc EXCEPT ![r] = "off"]
  /\ pc' = IF r = ConfigInit THEN pc ELSE [pc EXCEPT ![r] = "compose"]
  /\ UNCHANGED <<files, shot>>
  /\ UnchangedButFiles

(* apply_runtime_ownership; the renderer in the config-init container has no
   compose file to write and exits. *)
Own(r) ==
  /\ rpc[r] = "own"
  /\ owned' = {"catalog", "memory"}
  /\ rpc' = [rpc EXCEPT ![r] = "off"]
  /\ pc' = IF r = ConfigInit THEN pc ELSE [pc EXCEPT ![r] = "compose"]
  /\ UNCHANGED <<files, shot>>
  /\ UnchangedButFiles

WriteCompose(o) ==
  /\ pc[o] = "compose"
  /\ compose' = RenderComposeOverride(shot[o])
  /\ pc' = [pc EXCEPT ![o] = "recreate"]
  /\ UNCHANGED <<overlay, memory, files, owned, weights, router, gateway, serving, cmd, seen,
                 plan, rpc, shot, alone, started, crashes>>

-----------------------------------------------------------------------------
(* Services.  apply_runtime_if_running recreates them if one is running; a
   gateway between two restarts may be seen or not.  Another operator who is
   waiting for containers that are replaced gets an error. *)
MayBeRunning == router # Null \/ gateway # "down"
MayBeStopped == router = Null /\ gateway # "up"

BringUp(o) ==
  /\ plan' = [plan EXCEPT ![o] = compose]
  /\ rpc' = [rpc EXCEPT ![ConfigInit] = "load"]
  /\ pc' = [x \in Operators |-> IF x = o THEN "starting"
                                ELSE IF pc[x] = "starting" THEN "failed" ELSE pc[x]]

(* Bug: containers whose definition is unchanged are left running. *)
RecreateUnforced(o) ==
  /\ pc[o] = "recreate"
  /\ \/ /\ cmd[o].kind = "render" \/ (cmd[o].kind # "up" /\ MayBeStopped)
        /\ pc' = [pc EXCEPT ![o] = "done"]
        /\ UNCHANGED <<plan, rpc, gateway, router>>
     \/ /\ cmd[o].kind # "render" /\ (cmd[o].kind = "up" \/ MayBeRunning)
        /\ BringUp(o)
        /\ UNCHANGED <<gateway, router>>
  /\ UNCHANGED <<overlay, memory, files, owned, compose, weights, serving, cmd, seen, shot,
                 alone, started, crashes>>

(* --force-recreate stops what runs before it starts anything, of the router
   only when the new definition has one; "up" leaves what runs alone. *)
Recreate(o) ==
  /\ pc[o] = "recreate"
  /\ \/ /\ cmd[o].kind = "render" \/ (cmd[o].kind # "up" /\ MayBeStopped)
        /\ pc' = [pc EXCEPT ![o] = "done"]
        /\ UNCHANGED <<plan, rpc, gateway, router>>
     \/ /\ cmd[o].kind = "up"
        /\ BringUp(o)
        /\ UNCHANGED <<gateway, router>>
     \/ /\ cmd[o].kind \notin {"render", "up"} /\ MayBeRunning
        /\ BringUp(o)
        /\ gateway' = "down"
        /\ router' = IF compose.needed THEN Null ELSE router
  /\ UNCHANGED <<overlay, memory, files, owned, compose, weights, serving, cmd, seen, shot,
                 alone, started, crashes>>

UnchangedButServices ==
  UNCHANGED <<overlay, memory, files, owned, compose, weights, cmd, seen, plan, rpc, shot,
              alone, started, crashes>>

RouterAsPlanned(o) == router # Null /\ router.mounts = plan[o].mounts

(* llama waits for config-init to have completed successfully. *)
StartRouter(o) ==
  /\ pc[o] = "starting"
  /\ plan[o].needed
  /\ rpc[ConfigInit] = "off"
  /\ ~RouterAsPlanned(o)
  /\ router' = [presets |-> files.ini, mounts |-> plan[o].mounts]
  /\ UNCHANGED <<gateway, serving, pc>>
  /\ UnchangedButServices

(* The gateway waits for a healthy router, or for nothing when the catalog
   has no local model. *)
StartGateway(o) ==
  /\ pc[o] = "starting"
  /\ plan[o].needed => rpc[ConfigInit] = "off" /\ RouterAsPlanned(o)
  /\ gateway' = IF gateway = "down" THEN "starting" ELSE gateway
  /\ pc' = [pc EXCEPT ![o] = "done"]
  /\ UNCHANGED <<router, serving>>
  /\ UnchangedButServices

InitFailed(o) ==
  /\ pc[o] = "starting"
  /\ plan[o].needed
  /\ rpc[ConfigInit] = "failed"
  /\ pc' = [pc EXCEPT ![o] = "failed"]
  /\ UNCHANGED <<router, gateway, serving>>
  /\ UnchangedButServices

(* The gateway exits at once, and is restarted, until it can read both files
   and the catalog passes its own validators. *)
GatewayStart ==
  /\ gateway = "starting"
  /\ {"catalog", "memory"} \subseteq owned
  /\ LoadsProfiles(files.catalog)
  /\ gateway' = "up"
  /\ serving' = [catalog |-> files.catalog, memory |-> files.memory]
  /\ UNCHANGED <<router, pc>>
  /\ UnchangedButServices

(* Services are restarted unless stopped. *)
ServiceCrash ==
  /\ crashes < MaxCrashes
  /\ crashes' = crashes + 1
  /\ \/ gateway = "up" /\ gateway' = "starting" /\ UNCHANGED router
     \/ /\ router # Null
        /\ router' = [router EXCEPT !.presets = files.ini]
        /\ UNCHANGED gateway
  /\ UNCHANGED <<overlay, memory, files, owned, compose, weights, serving, pc, cmd, seen, plan,
                 rpc, shot, alone, started>>

(* reload_catalog of the gateway: the catalog alone. *)
Reload ==
  /\ gateway = "up"
  /\ "catalog" \in owned
  /\ LoadsProfiles(files.catalog)
  /\ serving' = [serving EXCEPT !.catalog = files.catalog]
  /\ UNCHANGED <<router, gateway, pc>>
  /\ UnchangedButServices

(* A command or a renderer is killed. *)
Crash(r) ==
  /\ crashes < MaxCrashes
  /\ \/ r \in Operators /\ Busy(r)
     \/ r = ConfigInit /\ rpc[r] \notin {"off", "failed"}
  /\ crashes' = crashes + 1
  /\ pc' = IF r = ConfigInit THEN pc ELSE [pc EXCEPT ![r] = "failed"]
  /\ rpc' = [rpc EXCEPT ![r] = IF r = ConfigInit THEN "failed" ELSE "off"]
  /\ UNCHANGED <<overlay, memory, files, owned, compose, weights, router, gateway, serving,
                 cmd, seen, plan, shot, alone, started>>

CommandStep(o) ==
  ReadOverlay(o) \/ WriteOverlay(o) \/ Fetch(o) \/ Verify(o) \/ Unlink(o) \/ Remove(o)
  \/ WriteCompose(o) \/ Recreate(o) \/ StartRouter(o) \/ StartGateway(o) \/ InitFailed(o)

RenderStep(r) ==
  RenderLoad(r) \/ WriteIni(r) \/ WriteCatalog(r) \/ WriteMemory(r) \/ Own(r)

Next ==
  \/ \E o \in Operators : Start(o) \/ CommandStep(o)
  \/ \E r \in Renderers : RenderStep(r) \/ Crash(r)
  \/ GatewayStart \/ ServiceCrash \/ Reload

Spec == Init /\ [][Next]_vars

Progress ==
  \/ \E o \in Operators : CommandStep(o)
  \/ \E r \in Renderers : RenderStep(r)
  \/ GatewayStart

(* A process that is not killed goes on, and Docker restarts the gateway.  The
   steps are bounded, so that it takes no fairness between processes. *)
FairSpec == Spec /\ WF_vars(Progress)

-----------------------------------------------------------------------------
Steps == {"idle", "done", "planned", "failed", "read", "write", "fetch", "verify", "unlink",
          "remove", "render", "compose", "recreate", "starting"}

(* Every part of the state stays of its kind, and a renderer is at work
   exactly while its command is rendering. *)
TypeOK ==
  /\ memory \in {"on", "off"}
  /\ owned \subseteq {"catalog", "memory"}
  /\ weights \in [ManagedIds -> {"absent", "good", "bad"}]
  /\ gateway \in {"down", "starting", "up"}
  /\ pc \in [Operators -> Steps]
  /\ rpc \in [Renderers -> {"off", "load", "ini", "catalog", "memory", "own", "failed"}]
  /\ \A o \in Operators : rpc[o] # "off" <=> pc[o] = "render"
  /\ started \in 0..MaxCommands /\ crashes \in 0..MaxCrashes

(* Whatever operators run at the same time, and wherever one is killed, the
   overlay on disk merges with the base into a catalog validate_catalog
   accepts: every command after it, and every start of config-init, can load
   the catalog (load_catalog, hubctl.py:234). *)
OverlayAccepted == ValidateCatalog(MergeDocument(Base, overlay))

(* o's last command ran by itself and brought its services up. *)
Settled(o) == pc[o] = "done" /\ alone[o] /\ rpc[ConfigInit] = "off"

(* "render" and "up" leave a running gateway alone. *)
Applies(o) == cmd[o].kind \notin {"render", "up"}

(* When a command that nothing overlapped is done, all the runtime files were
   rendered from the overlays as they are, also when an earlier command was
   killed after its first file or after its overlay. *)
FilesFollowOverlay ==
  \A o \in Operators : Settled(o) =>
    /\ files = Rendered(Effective)
    /\ owned = {"catalog", "memory"}
    /\ compose = RenderComposeOverride(Effective)

(* ... and a gateway that is up after it has loaded them, whatever it served
   before ("apply_runtime_if_running", hub:155). *)
ServicesFollowFiles ==
  \A o \in Operators :
    Settled(o) /\ gateway = "up" /\ Applies(o) =>
      serving = [catalog |-> Effective, memory |-> memory]

Requests(catalog) ==
  {[model |-> m, profile |-> Null] :
     m \in DOMAIN Section(catalog, "experiences") \cup DOMAIN Section(catalog, "models")}
  \cup {[model |-> Null, profile |-> p] : p \in DOMAIN Section(catalog, "experiences")}

Texts == [prefix : {"story", "assistant", "none"}, strong : 0..1, weak : 0..2,
          technical : BOOLEAN]

(* After such a command that recreated services, every request the gateway
   can route to a local model names a preset the router started with; and if
   the weights are a host path or a Docker volume, they are mounted where the
   preset looks for them: four renderings of one catalog, read by two services
   at different times, agree.  Managed weights lie on a volume of the router's
   own; container paths and the two Kubernetes kinds have a preset and no
   mount, and the operator has to provide them (MODEL_SOURCES.md:82).
   A command that meets a gateway between two restarts may find nothing
   running, and then starts no router either. *)
RoutedModelServed ==
  \A o \in Operators :
    Settled(o) /\ gateway = "up" /\ Applies(o) /\ plan[o] # Null =>
      \A request \in Requests(serving.catalog), text \in Texts :
        LET found == Resolve(serving.catalog, request.model, request.profile, text)
        IN found.error = "none" /\ Local(serving.catalog, found.model)
             => router # Null /\ Reaches(serving.catalog, found.model)

(* What GET /v1/models lists as available can be asked for: a pinned or
   capability experience, and a model whose name no experience takes. *)
AvailableResolves ==
  gateway = "up" =>
    \A item \in AdvertisedModels(serving.catalog) :
      LET text == CHOOSE t \in Texts : TRUE
          profiles == Section(serving.catalog, "experiences")
          shadowed == item.type = "registered-model" /\ item.id \in DOMAIN profiles
          automatic == item.id \in DOMAIN profiles /\ IsAuto(profiles[item.id])
      IN item.available /\ ~shadowed /\ ~automatic
           => Resolve(serving.catalog, item.id, Null, text).error = "none"

(* A file without nulls, applied by the only operator, changes the catalog as
   if base and overlay were merged first and the file into that: merging it
   into the overlay first, between a read and a later write, and whatever lists
   are rewritten on the way, comes to the same.  It does not when the overlay
   has a list of capabilities, the base and the file a mapping: the file's
   mapping then merges with the one the list had hidden. *)
AppliedTakesEffect ==
  [][\A o \in Operators :
       /\ WriteOverlay(o)
       /\ alone[o]
       /\ cmd[o].kind = "apply" /\ ~cmd[o].replace
       /\ NullFree(cmd[o].file) /\ NullFree(overlay)
       /\ ~ListsBetween(Base, overlay, cmd[o].file)
       => Effective' = Normalized(MergeDocument(MergeDocument(Base, overlay),
                                                Versioned(cmd[o].file)))]_vars

(* Weights that fail their checksum are on disk only while the command that
   fetched some still has to check them, unless a command was killed. *)
UnverifiedOnlyWhileFetching ==
  crashes = 0 =>
    \A m \in ManagedIds : weights[m] = "bad" =>
      \E o \in Operators : pc[o] \in {"verify", "unlink"} /\ cmd[o].model = m

(* A gateway that starts while the files change under it, or whose files the
   renderer has not handed over yet, comes up in the end. *)
Recovers ==
  (gateway = "starting" /\ (\E o \in Operators : Settled(o)) /\ LoadsProfiles(Effective))
    ~> (gateway = "up" \/ ~\E o \in Operators : Settled(o))

-----------------------------------------------------------------------------
(* What the documents say.  A null in an applied file removes the key: "A key
   set to `null` in an overlay removes the inherited key" (CATALOG.md:17),
   "To remove a registration, apply an overlay with the model key set to
   `null`". *)
NullRemoves ==
  [][\A o \in Operators :
       WriteOverlay(o) /\ cmd[o].kind = "apply" =>
         \A s \in DOMAIN cmd[o].file \cap Sections : \A id \in DOMAIN cmd[o].file[s] :
           cmd[o].file[s][id] = Null => id \notin DOMAIN Section(Effective', s)]_vars

(* What the control plane accepts, the gateway loads: "Validate all
   references and artifact requirements" (CATALOG.md:135) stands before
   "atomically replace". *)
AcceptedCatalogLoads == LoadsProfiles(Effective)
============================================================================
