------------------------- MODULE RuntimeFilesProofs -------------------------
(***************************************************************************)
(* What relates the overlay, the files rendered from it and the services   *)
(* that read them, for every set of operators, base catalog and commands   *)
(* and any number of kills.                                                *)
(*                                                                         *)
(* A command that nothing overlaps is followed from its start to its end:  *)
(* the invariants say which files it has made fresh at each of its steps,  *)
(* and that config-init, which it sets off, can only write them again.     *)
(***************************************************************************)
EXTENDS ControlPlaneProofs, CatalogProofs

USE ControlPlaneAssumption DEF Renderers

CI == ConfigInit

Working == {"load", "ini", "catalog", "memory", "own"}

(* o's last command, if nothing overlapped it, has rendered. *)
HasRendered(o) == pc[o] \in {"compose", "recreate", "starting", "done"}

(* Nobody is between writing a file and giving it to the gateway's user. *)
HandedOver(o) ==
  \/ pc[o] \in {"compose", "recreate"}
  \/ pc[o] \in {"starting", "done"} /\ rpc[CI] \in {"off", "load", "ini", "catalog"}

(* o's last command found services running and recreates them. *)
Recreates(o) ==
  /\ Applies(o)
  /\ pc[o] = "starting" \/ (pc[o] = "done" /\ plan[o] # Null)

(* Alone is alone: nobody else is at work, and config-init only for o. *)
AloneOK ==
  /\ alone \in [Operators -> BOOLEAN]
  /\ \A o \in Operators : alone[o] =>
       /\ \A y \in Operators \ {o} : ~Busy(y)
       /\ rpc[CI] \in Working => pc[o] \in {"starting", "done", "failed"}

(* Whatever is still to be written was rendered from the overlay as it is. *)
ShotFresh ==
  /\ DOMAIN shot = Renderers
  /\ \A o \in Operators : alone[o] =>
       /\ rpc[o] \in Working \ {"load"} \/ pc[o] = "compose" => shot[o] = Effective
       /\ pc[o] \in {"starting", "done"} /\ rpc[CI] \in Working \ {"load"}
            => shot[CI] = Effective

(* The files one by one, in the order they are written. *)
FilesFresh ==
  /\ files = [ini |-> files.ini, catalog |-> files.catalog, memory |-> files.memory]
  /\ \A o \in Operators : alone[o] =>
       /\ rpc[o] \in {"catalog", "memory", "own"} \/ HasRendered(o)
            => files.ini = RenderModelsIni(Effective)
       /\ rpc[o] \in {"memory", "own"} \/ HasRendered(o) => files.catalog = Effective
       /\ rpc[o] = "own" \/ HasRendered(o) => files.memory = memory
       /\ HandedOver(o) => owned = {"catalog", "memory"}
       /\ pc[o] \in {"recreate", "starting", "done"}
            => compose = RenderComposeOverride(Effective)

FilesInv == AloneOK /\ ShotFresh /\ FilesFresh

(* What an operator is about to write is the edit of the overlay as it is. *)
SeenFresh ==
  \A o \in Operators : alone[o] /\ pc[o] = "write" /\ cmd[o].kind # "memory" =>
    seen[o] = CandidateOverlay(cmd[o])

(* A gateway that is up has read what the command rendered. *)
ServingFresh ==
  \A o \in Operators :
    alone[o] /\ Applies(o) /\ pc[o] \in {"starting", "done"} /\ gateway = "up" =>
      serving = [catalog |-> Effective, memory |-> memory]

(* A router started for the command has what the command rendered, and is
   there before the command is done. *)
RouterFresh ==
  /\ DOMAIN plan = Operators
  /\ \A o \in Operators :
       /\ Busy(o) /\ pc[o] # "starting" => plan[o] = Null
       /\ alone[o] /\ Recreates(o) =>
            /\ plan[o] = compose
            /\ compose.needed /\ pc[o] = "done" => router # Null
            /\ compose.needed /\ router # Null =>
                 router = [presets |-> RenderModelsIni(Effective), mounts |-> compose.mounts]

(* What a running gateway serves passed its validators. *)
ServingLoads ==
  /\ "catalog" \in DOMAIN serving
  /\ gateway = "up" => LoadsProfiles(serving.catalog)

(* The ids of what is rendered, written and served are those of an overlay
   that was accepted: the gateway checks none itself. *)
IdsProper ==
  /\ ProperIds(files.catalog)
  /\ ProperIds(serving.catalog)
  /\ \A r \in Renderers : rpc[r] \in {"ini", "catalog"} => ProperIds(shot[r])
-----------------------------------------------------------------------------
(* Who acts.  A command or its renderer that takes a step is busy, so that a
   command which is alone is the one that takes it. *)
LEMMA BusyActs ==
  ASSUME Inv, NEW o \in Operators, CommandStep(o) \/ RenderStep(o)
  PROVE  Busy(o)
<1>1. CASE CommandStep(o)
  BY <1>1 DEF CommandStep, ReadOverlay, WriteOverlay, Fetch, Verify, Unlink, Remove,
       WriteCompose, Recreate, StartRouter, StartGateway, InitFailed, Busy, Resting
<1>2. CASE RenderStep(o)
  <2>1. rpc[o] # "off"
    BY <1>2 DEF RenderStep, RenderLoad, WriteIni, WriteCatalog, WriteMemory, Own
  <2>2. pc[o] = "render"
    BY <2>1 DEF Inv, TypeOK
  <2>3. QED
    BY <2>2 DEF Busy, Resting
<1>3. QED
  BY <1>1, <1>2

LEMMA AloneActs ==
  ASSUME Inv, AloneOK, NEW o \in Operators, CommandStep(o) \/ RenderStep(o),
         NEW x \in Operators, alone[x]
  PROVE  x = o
BY BusyActs DEF AloneOK

(* Only a command that starts has an effect on who is alone. *)
LEMMA AloneUnchanged ==
  ASSUME \/ \E o \in Operators : CommandStep(o)
         \/ \E r \in Renderers : RenderStep(r) \/ Crash(r)
         \/ GatewayStart \/ ServiceCrash \/ Reload
  PROVE  UNCHANGED <<alone, cmd>>
<1>1. CASE \E o \in Operators : CommandStep(o)
  BY <1>1 DEF CommandStep, ReadOverlay, WriteOverlay, Fetch, Verify, Unlink, Remove,
       WriteCompose, Recreate, StartRouter, StartGateway, InitFailed, UnchangedButWeights,
       UnchangedButServices
<1>2. CASE \E r \in Renderers : RenderStep(r) \/ Crash(r)
  BY <1>2 DEF RenderStep, RenderLoad, WriteIni, WriteCatalog, WriteMemory, Own, Crash,
       UnchangedButFiles
<1>3. CASE GatewayStart \/ ServiceCrash \/ Reload
  BY <1>3 DEF GatewayStart, ServiceCrash, Reload, UnchangedButServices
<1>4. QED
  BY <1>1, <1>2, <1>3

-----------------------------------------------------------------------------
(* The step of a command that edits the overlay or the weights: what it has
   rendered before no longer counts, it has to render next. *)
Edits(o) ==
  ReadOverlay(o) \/ WriteOverlay(o) \/ Fetch(o) \/ Verify(o) \/ Unlink(o) \/ Remove(o)

LEMMA EditMoves ==
  ASSUME Inv, NEW o \in Operators, Edits(o)
  PROVE  /\ \E next \in {"failed", "planned", "write", "verify", "unlink", "render"} :
              pc' = [pc EXCEPT ![o] = next]
         /\ \/ UNCHANGED rpc /\ rpc[o] = "off"
            \/ rpc' = [rpc EXCEPT ![o] = "load"]
         /\ pc[o] \in {"read", "write", "fetch", "verify", "unlink", "remove"}
         /\ UNCHANGED <<files, owned, compose, shot, router, gateway, serving, plan>>
<1>1. pc[o] \in {"read", "write", "fetch", "verify", "unlink", "remove"}
  BY DEF Edits, ReadOverlay, WriteOverlay, Fetch, Verify, Unlink, Remove
<1>2. rpc[o] = "off"
  BY <1>1 DEF Inv, TypeOK
<1>3. /\ \E next \in {"failed", "planned", "write", "verify", "unlink", "render"} :
           pc' = [pc EXCEPT ![o] = next]
      /\ UNCHANGED rpc \/ rpc' = [rpc EXCEPT ![o] = "load"]
  BY DEF Edits, ReadOverlay, WriteOverlay, Fetch, Verify, Unlink, Remove, Fails, ThenRender
<1>4. UNCHANGED <<files, owned, compose, shot, router, gateway, serving, plan>>
  BY DEF Edits, ReadOverlay, WriteOverlay, Fetch, Verify, Unlink, Remove, UnchangedButWeights
<1>5. QED
  BY <1>1, <1>2, <1>3, <1>4

LEMMA StartFiles ==
  ASSUME Inv, FilesInv, NEW o \in Operators, Start(o)
  PROVE  FilesInv'
<1>1. PICK step \in {"read", "fetch", "remove", "render"} :
        /\ pc' = [pc EXCEPT ![o] = step]
        /\ rpc' = IF step = "render" THEN [rpc EXCEPT ![o] = "load"] ELSE rpc
  BY DEF Start, FirstStep
<1>2. /\ alone' = [x \in Operators |->
                    x = o /\ (\A y \in Operators \ {o} : ~Busy(y)) /\ rpc[CI] \in {"off", "failed"}]
      /\ UNCHANGED <<overlay, memory, files, owned, compose, shot>>
  BY DEF Start, CI
<1>3. rpc[o] = "off"
  BY DEF Start, Busy, Resting, Inv, TypeOK
<1>4. AloneOK'
  <2>1. alone' \in [Operators -> BOOLEAN]
    BY <1>2
  <2>2. ASSUME NEW x \in Operators, alone'[x]
        PROVE  x = o /\ (\A y \in Operators \ {o} : ~Busy(y)) /\ rpc[CI] \in {"off", "failed"}
    BY <1>2, <2>2
  <2>3. ASSUME NEW y \in Operators \ {o} PROVE pc'[y] = pc[y]
    BY <1>1 DEF Inv, TypeOK
  <2>4. rpc'[CI] = rpc[CI]
    BY <1>1 DEF Inv, TypeOK, CI
  <2>5. QED
    BY <2>1, <2>2, <2>3, <2>4 DEF AloneOK, Busy, Working
<1>5. ASSUME NEW x \in Operators, alone'[x]
      PROVE  /\ x = o /\ pc'[x] \in {"read", "fetch", "remove", "render"}
             /\ rpc'[x] \in {"off", "load"}
  BY <1>1, <1>2, <1>3, <1>5 DEF Inv, TypeOK
<1>6. ShotFresh'
  BY <1>2, <1>5 DEF FilesInv, ShotFresh, Working
<1>7. FilesFresh'
  BY <1>2, <1>5 DEF FilesInv, FilesFresh, HasRendered, HandedOver
<1>8. QED
  BY <1>4, <1>6, <1>7 DEF FilesInv

LEMMA EditFiles ==
  ASSUME Inv, FilesInv, NEW o \in Operators, Edits(o)
  PROVE  FilesInv'
<1>1. CommandStep(o)
  BY DEF Edits, CommandStep
<1>2. UNCHANGED alone
  BY <1>1, AloneUnchanged
<1>3. PICK next \in {"failed", "planned", "write", "verify", "unlink", "render"} :
        pc' = [pc EXCEPT ![o] = next]
  BY EditMoves
<1>4. ASSUME NEW x \in Operators, alone[x]
      PROVE  /\ x = o /\ pc'[x] \in {"failed", "planned", "write", "verify", "unlink", "render"}
             /\ rpc'[x] \in {"off", "load"}
  <2>1. x = o
    BY <1>1, <1>4, AloneActs DEF FilesInv
  <2>2. QED
    BY <1>3, <2>1, EditMoves DEF Inv, TypeOK
<1>5. rpc'[CI] = rpc[CI]
  BY EditMoves DEF Inv, TypeOK, CI
<1>6. AloneOK'
  <2>1. ASSUME NEW x \in Operators, alone[x]
        PROVE  /\ \A y \in Operators \ {x} : ~Busy(y)'
               /\ rpc'[CI] \in Working => pc'[x] \in {"starting", "done", "failed"}
    <3>1. x = o
      BY <1>4, <2>1
    <3>2. \A y \in Operators \ {x} : pc'[y] = pc[y]
      BY <1>3, <3>1 DEF Inv, TypeOK
    <3>3. rpc[CI] \notin Working
      BY <2>1, <3>1, EditMoves DEF FilesInv, AloneOK
    <3>4. QED
      BY <1>5, <2>1, <3>2, <3>3 DEF FilesInv, AloneOK, Busy
  <2>2. QED
    BY <1>2, <2>1 DEF FilesInv, AloneOK
<1>7. ShotFresh'
  BY <1>2, <1>4, EditMoves DEF FilesInv, ShotFresh, Working
<1>8. FilesFresh'
  <2>1. UNCHANGED files
    BY EditMoves
  <2>2. QED
    BY <1>2, <1>4, <2>1 DEF FilesInv, FilesFresh, HasRendered, HandedOver
<1>9. QED
  BY <1>6, <1>7, <1>8 DEF FilesInv

(* The compose file is written, and services are brought up. *)
BringsUp(o) ==
  WriteCompose(o) \/ Recreate(o) \/ StartRouter(o) \/ StartGateway(o) \/ InitFailed(o)

LEMMA BringUpMoves ==
  ASSUME Inv, NEW o \in Operators, BringsUp(o), \A y \in Operators \ {o} : ~Busy(y)
  PROVE  /\ \E next \in {"recreate", "starting", "done", "failed"} :
              pc' = [pc EXCEPT ![o] = next]
         /\ pc[o] \in {"compose", "recreate", "starting"}
         /\ rpc' = rpc \/ (pc[o] = "recreate" /\ pc'[o] = "starting"
                           /\ rpc' = [rpc EXCEPT ![CI] = "load"])
         /\ pc[o] = "compose" => pc'[o] = "recreate" /\ rpc' = rpc
         /\ pc[o] = "recreate" => pc'[o] \in {"starting", "done"}
         /\ pc[o] = "starting" => pc'[o] \in {"starting", "done", "failed"}
         /\ UNCHANGED <<overlay, memory, files, owned, shot>>
         /\ compose' = IF pc[o] = "compose" THEN RenderComposeOverride(shot[o]) ELSE compose
<1>1. UNCHANGED <<overlay, memory, files, owned, shot>>
  BY DEF BringsUp, WriteCompose, Recreate, StartRouter, StartGateway, InitFailed,
       UnchangedButServices
<1>2. CASE WriteCompose(o)
  BY <1>1, <1>2 DEF WriteCompose, Inv, TypeOK
<1>3. CASE Recreate(o)
  <2>1. CASE pc' = [pc EXCEPT ![o] = "done"] /\ UNCHANGED <<plan, rpc, gateway, router>>
    BY <1>1, <1>3, <2>1 DEF Recreate, Inv, TypeOK
  <2>2. CASE BringUp(o)
    <3>1. \A y \in Operators \ {o} : pc[y] # "starting"
      BY DEF Busy, Resting
    <3>2. pc' = [pc EXCEPT ![o] = "starting"]
      BY <2>2, <3>1 DEF BringUp, Inv, TypeOK
    <3>3. QED
      BY <1>1, <1>3, <2>2, <3>2 DEF Recreate, BringUp, CI, Inv, TypeOK
  <2>3. QED
    BY <1>3, <2>1, <2>2 DEF Recreate
<1>4. CASE StartRouter(o)
  <2>1. pc' = [pc EXCEPT ![o] = "starting"]
    BY <1>4 DEF StartRouter, Inv, TypeOK
  <2>2. QED
    BY <1>1, <1>4, <2>1 DEF StartRouter, UnchangedButServices, Inv, TypeOK
<1>5. CASE StartGateway(o) \/ InitFailed(o)
  BY <1>1, <1>5 DEF StartGateway, InitFailed, UnchangedButServices, Inv, TypeOK
<1>6. QED
  BY <1>2, <1>3, <1>4, <1>5 DEF BringsUp

LEMMA BringUpFiles ==
  ASSUME Inv, FilesInv, NEW o \in Operators, BringsUp(o)
  PROVE  FilesInv'
<1>1. CommandStep(o)
  BY DEF BringsUp, CommandStep
<1>2. UNCHANGED alone
  BY <1>1, AloneUnchanged
<1>3. UNCHANGED <<overlay, memory, files, owned, shot>>
  BY DEF BringsUp, WriteCompose, Recreate, StartRouter, StartGateway, InitFailed,
       UnchangedButServices
<1>4. CASE ~alone[o]
  <2>1. \A x \in Operators : ~alone[x]
    BY <1>1, <1>4, AloneActs DEF FilesInv
  <2>2. QED
    BY <1>2, <1>3, <2>1 DEF FilesInv, AloneOK, ShotFresh, FilesFresh
<1>5. CASE alone[o]
  <2>1. \A x \in Operators : alone[x] => x = o
    BY <1>1, AloneActs DEF FilesInv
  <2>2. \A y \in Operators \ {o} : ~Busy(y)
    BY <1>5 DEF FilesInv, AloneOK
  <2>3. rpc'[o] = rpc[o] /\ rpc[o] = "off"
    BY <2>2, BringUpMoves DEF CI, Inv, TypeOK
  <2>4. AloneOK'
    <3>1. \A y \in Operators \ {o} : ~Busy(y)'
      <4>1. \A y \in Operators \ {o} : pc'[y] = pc[y]
        BY <2>2, BringUpMoves DEF Inv, TypeOK
      <4>2. QED
        BY <2>2, <4>1 DEF Busy
    <3>2. rpc'[CI] \in Working => pc'[o] \in {"starting", "done", "failed"}
      BY <1>5, <2>2, BringUpMoves DEF FilesInv, AloneOK, CI
    <3>3. QED
      BY <1>2, <2>1, <3>1, <3>2 DEF FilesInv, AloneOK
  <2>5. ShotFresh'
    <3>1. Effective' = Effective
      BY <1>3 DEF Effective
    <3>2. pc'[o] \in {"starting", "done"} /\ rpc'[CI] \in Working \ {"load"}
            => shot[CI] = Effective
      <4>1. CASE rpc' = rpc /\ pc[o] = "starting"
        BY <1>5, <2>2, <4>1, BringUpMoves DEF FilesInv, ShotFresh
      <4>2. CASE rpc' = rpc /\ pc[o] # "starting"
        BY <1>5, <2>2, <4>2, BringUpMoves DEF FilesInv, AloneOK
      <4>3. CASE rpc' = [rpc EXCEPT ![CI] = "load"]
        BY <4>3 DEF CI, Inv, TypeOK
      <4>4. QED
        BY <2>2, <4>1, <4>2, <4>3, BringUpMoves
    <3>3. pc'[o] # "compose"
      BY <2>2, BringUpMoves DEF Inv, TypeOK
    <3>4. QED
      BY <1>2, <1>3, <2>1, <2>3, <3>1, <3>2, <3>3 DEF FilesInv, ShotFresh, Working
  <2>6. FilesFresh'
    <3>1. Effective' = Effective
      BY <1>3 DEF Effective
    <3>2. HasRendered(o)
      BY <2>2, BringUpMoves DEF HasRendered
    <3>3. HandedOver(o)' => HandedOver(o)
      <4>1. CASE pc[o] \in {"compose", "recreate"}
        BY <4>1 DEF HandedOver
      <4>2. CASE pc[o] = "starting"
        BY <2>2, <4>2, BringUpMoves DEF HandedOver
      <4>3. QED
        BY <2>2, <4>1, <4>2, BringUpMoves
    <3>4. compose' = RenderComposeOverride(Effective)
      BY <1>5, <2>2, BringUpMoves DEF FilesInv, FilesFresh, ShotFresh
    <3>5. QED
      BY <1>2, <1>3, <1>5, <2>1, <2>3, <3>1, <3>2, <3>3, <3>4 DEF FilesInv, FilesFresh
  <2>7. QED
    BY <2>4, <2>5, <2>6 DEF FilesInv
<1>6. QED
  BY <1>4, <1>5

(* A renderer writes the files in turn; config-init writes again what the
   command has written. *)
LEMMA RenderMoves ==
  ASSUME Inv, NEW r \in Renderers, RenderStep(r)
  PROVE  /\ rpc[r] \in Working
         /\ \E next \in {"off", "ini", "catalog", "memory", "own"} :
              rpc' = [rpc EXCEPT ![r] = next]
         /\ pc' = IF rpc[r] = "own" /\ r # CI THEN [pc EXCEPT ![r] = "compose"] ELSE pc
         /\ UNCHANGED <<overlay, memory, compose, weights, router, gateway, serving, plan>>
         /\ shot' = IF rpc[r] = "load" THEN [shot EXCEPT ![r] = Effective] ELSE shot
<1>1. UNCHANGED <<overlay, memory, compose, weights, router, gateway, serving, plan>>
  BY DEF RenderStep, RenderLoad, WriteIni, WriteCatalog, WriteMemory, Own, UnchangedButFiles
<1>2. QED
  BY <1>1 DEF RenderStep, RenderLoad, WriteIni, WriteCatalog, WriteMemory, Own, Working, CI

LEMMA OwnFiles ==
  ASSUME Inv, FilesInv, NEW o \in Operators, RenderStep(o)
  PROVE  FilesInv'
<1>1. UNCHANGED alone
  BY AloneUnchanged
<1>2. UNCHANGED <<overlay, memory, compose>>
  BY RenderMoves
<1>3. o # CI /\ rpc'[CI] = rpc[CI]
  BY RenderMoves DEF CI, Inv, TypeOK
<1>4. CASE ~alone[o]
  <2>1. \A x \in Operators : ~alone[x]
    BY <1>4, AloneActs DEF FilesInv
  <2>2. files' = [ini |-> files'.ini, catalog |-> files'.catalog, memory |-> files'.memory]
    BY DEF FilesInv, FilesFresh, RenderStep, RenderLoad, WriteIni, WriteCatalog, WriteMemory, Own
  <2>3. DOMAIN shot' = Renderers
    BY RenderMoves DEF FilesInv, ShotFresh
  <2>4. QED
    BY <1>1, <2>1, <2>2, <2>3 DEF FilesInv, AloneOK, ShotFresh, FilesFresh
<1>5. CASE alone[o]
  <2>1. \A x \in Operators : alone[x] => x = o
    BY AloneActs DEF FilesInv
  <2>2. \A y \in Operators \ {o} : ~Busy(y)
    BY <1>5 DEF FilesInv, AloneOK
  <2>3. pc[o] = "render" /\ pc'[o] \in {"render", "compose"}
    BY RenderMoves DEF Inv, TypeOK, Working
  <2>4. AloneOK'
    <3>1. \A y \in Operators \ {o} : pc'[y] = pc[y]
      BY RenderMoves DEF Inv, TypeOK
    <3>2. rpc'[CI] \notin Working
      BY <1>3, <1>5, <2>3 DEF FilesInv, AloneOK
    <3>3. QED
      BY <1>1, <2>1, <2>2, <3>1, <3>2 DEF FilesInv, AloneOK, Busy
  <2>5. Effective' = Effective
    BY <1>2 DEF Effective
  <2>6. shot'[o] = Effective
    BY <1>5, RenderMoves DEF FilesInv, ShotFresh
  <2>7. ShotFresh'
    BY <1>1, <2>1, <2>3, <2>5, <2>6, RenderMoves DEF FilesInv, ShotFresh
  <2>8. FilesFresh'
    <3>1. files' = [ini |-> files'.ini, catalog |-> files'.catalog, memory |-> files'.memory]
      BY DEF FilesInv, FilesFresh, RenderStep, RenderLoad, WriteIni, WriteCatalog, WriteMemory,
           Own
    <3>2. rpc'[o] \in {"catalog", "memory", "own"} \/ HasRendered(o)'
            => files'.ini = RenderModelsIni(Effective)
      BY <1>5, <2>3 DEF FilesInv, FilesFresh, ShotFresh, Working, HasRendered, RenderStep,
           RenderLoad, WriteIni, WriteCatalog, WriteMemory, Own, Inv, TypeOK
    <3>3. rpc'[o] \in {"memory", "own"} \/ HasRendered(o)' => files'.catalog = Effective
      BY <1>5, <2>3 DEF FilesInv, FilesFresh, ShotFresh, Working, HasRendered, RenderStep,
           RenderLoad, WriteIni, WriteCatalog, WriteMemory, Own, Inv, TypeOK
    <3>4. rpc'[o] = "own" \/ HasRendered(o)' => files'.memory = memory
      BY <1>5, <2>3 DEF FilesInv, FilesFresh, ShotFresh, Working, HasRendered, RenderStep,
           RenderLoad, WriteIni, WriteCatalog, WriteMemory, Own, Inv, TypeOK
    <3>5. pc'[o] = "compose" => owned' = {"catalog", "memory"}
      BY <1>3, <2>3 DEF RenderStep, RenderLoad, WriteIni, WriteCatalog, WriteMemory, Own
    <3>6. QED
      BY <1>1, <1>2, <2>1, <2>3, <2>5, <3>1, <3>2, <3>3, <3>4, <3>5
         DEF FilesFresh, HandedOver
  <2>9. QED
    BY <2>4, <2>7, <2>8 DEF FilesInv
<1>6. QED
  BY <1>4, <1>5

LEMMA ConfigInitFiles ==
  ASSUME Inv, FilesInv, RenderStep(CI)
  PROVE  FilesInv'
<1>1. UNCHANGED <<alone, cmd>>
  BY AloneUnchanged DEF CI
<1>2. UNCHANGED <<overlay, memory, compose, pc>>
  BY RenderMoves DEF CI
<1>3. /\ \A x \in Operators : rpc'[x] = rpc[x]
      /\ rpc[CI] \in Working
  BY RenderMoves DEF CI, Inv, TypeOK
<1>4. Effective' = Effective
  BY <1>2 DEF Effective
<1>5. ASSUME NEW x \in Operators, alone[x]
      PROVE  pc[x] \in {"starting", "done", "failed"}
  BY <1>3, <1>5 DEF FilesInv, AloneOK
<1>6. AloneOK'
  BY <1>1, <1>2, <1>5 DEF FilesInv, AloneOK, Busy
<1>7. ShotFresh'
  <2>1. shot' = IF rpc[CI] = "load" THEN [shot EXCEPT ![CI] = Effective] ELSE shot
    BY RenderMoves DEF CI
  <2>2. QED
    BY <1>1, <1>2, <1>3, <1>4, <2>1 DEF FilesInv, ShotFresh, CI
<1>8. FilesFresh'
  <2>1. files' = [ini |-> files'.ini, catalog |-> files'.catalog, memory |-> files'.memory]
    BY DEF FilesInv, FilesFresh, RenderStep, RenderLoad, WriteIni, WriteCatalog, WriteMemory, Own
  <2>2. ASSUME NEW x \in Operators, alone[x], HasRendered(x)
        PROVE  files' = files
    <3>1. shot[CI] = Effective \/ rpc[CI] = "load"
      BY <1>3, <1>5, <2>2 DEF FilesInv, ShotFresh, HasRendered
    <3>2. /\ files.ini = RenderModelsIni(Effective) /\ files.catalog = Effective
          /\ files.memory = memory
          /\ files = [ini |-> files.ini, catalog |-> files.catalog, memory |-> files.memory]
      BY <2>2 DEF FilesInv, FilesFresh
    <3>3. QED
      BY <3>1, <3>2 DEF RenderStep, RenderLoad, WriteIni, WriteCatalog, WriteMemory, Own
  <2>3. ASSUME NEW x \in Operators, alone[x], HandedOver(x)'
        PROVE  owned' = {"catalog", "memory"}
    <3>1. pc[x] \in {"starting", "done"} /\ rpc'[CI] \in {"off", "load", "ini", "catalog"}
      BY <1>2, <1>5, <2>3 DEF HandedOver
    <3>2. CASE Own(CI)
      BY <3>2 DEF Own
    <3>3. CASE ~Own(CI)
      <4>1. RenderLoad(CI) \/ WriteIni(CI)
        BY <3>1, <3>3 DEF RenderStep, WriteCatalog, WriteMemory, CI, Inv, TypeOK
      <4>2. HandedOver(x) /\ owned' = owned
        BY <3>1, <4>1 DEF RenderLoad, WriteIni, HandedOver
      <4>3. QED
        BY <2>3, <4>2 DEF FilesInv, FilesFresh
    <3>4. QED
      BY <3>2, <3>3
  <2>4. ASSUME NEW x \in Operators, alone[x]
        PROVE  rpc[x] = "off" /\ (HasRendered(x)' <=> HasRendered(x))
    BY <1>2, <1>5, <2>4 DEF Inv, TypeOK, HasRendered
  <2>5. QED
    BY <1>1, <1>2, <1>3, <1>4, <2>1, <2>2, <2>3, <2>4 DEF FilesInv, FilesFresh
<1>9. QED
  BY <1>6, <1>7, <1>8 DEF FilesInv

(* A service that starts reads the files; a kill stops a command or a renderer
   where it is. *)
LEMMA ServiceFiles ==
  ASSUME Inv, FilesInv, GatewayStart \/ ServiceCrash \/ Reload
  PROVE  FilesInv'
<1>1. UNCHANGED <<overlay, memory, files, owned, compose, shot, pc, rpc, alone>>
  BY DEF GatewayStart, ServiceCrash, Reload, UnchangedButServices
<1>2. QED
  BY <1>1 DEF FilesInv, AloneOK, ShotFresh, FilesFresh, Busy, Effective, HasRendered, HandedOver

LEMMA CrashFiles ==
  ASSUME Inv, FilesInv, NEW r \in Renderers, Crash(r)
  PROVE  FilesInv'
<1>1. UNCHANGED <<overlay, memory, files, owned, compose, shot, alone>>
  BY DEF Crash
<1>2. Effective' = Effective
  BY <1>1 DEF Effective
<1>3. CASE r = CI
  <2>1. UNCHANGED pc /\ rpc' = [rpc EXCEPT ![CI] = "failed"]
    BY <1>3 DEF Crash, CI
  <2>2. rpc'[CI] = "failed" /\ \A x \in Operators : rpc'[x] = rpc[x]
    BY <2>1 DEF CI, Inv, TypeOK
  <2>3. QED
    BY <1>1, <1>2, <2>1, <2>2 DEF FilesInv, AloneOK, ShotFresh, FilesFresh, Busy, Working,
         HasRendered, HandedOver
<1>4. CASE r \in Operators
  <2>1. Busy(r) /\ pc' = [pc EXCEPT ![r] = "failed"] /\ rpc' = [rpc EXCEPT ![r] = "off"]
    BY <1>4 DEF Crash, CI
  <2>2. /\ \A x \in Operators \ {r} : pc'[x] = pc[x] /\ rpc'[x] = rpc[x]
        /\ pc'[r] = "failed" /\ rpc'[r] = "off" /\ rpc'[CI] = rpc[CI]
    BY <1>4, <2>1 DEF CI, Inv, TypeOK
  <2>3. \A x \in Operators : Busy(x)' => Busy(x)
    BY <2>2 DEF Busy, Resting
  <2>4. AloneOK'
    BY <1>1, <2>2, <2>3 DEF FilesInv, AloneOK
  <2>5. ShotFresh' /\ FilesFresh'
    BY <1>1, <1>2, <2>2 DEF FilesInv, ShotFresh, FilesFresh, Working, HasRendered, HandedOver
  <2>6. QED
    BY <2>4, <2>5 DEF FilesInv
<1>5. QED
  BY <1>3, <1>4 DEF CI

LEMMA FilesInvStep == Inv /\ FilesInv /\ [Next]_vars => FilesInv'
<1>1. SUFFICES ASSUME Inv, FilesInv, [Next]_vars PROVE FilesInv'
  OBVIOUS
<1>2. CASE UNCHANGED vars
  BY <1>1, <1>2 DEF vars, FilesInv, AloneOK, ShotFresh, FilesFresh, Busy, Effective,
       HasRendered, HandedOver
<1>3. CASE \E o \in Operators : Start(o) \/ CommandStep(o)
  BY <1>1, <1>3, StartFiles, EditFiles, BringUpFiles DEF CommandStep, Edits, BringsUp
<1>4. CASE \E r \in Renderers : RenderStep(r) \/ Crash(r)
  BY <1>1, <1>4, OwnFiles, ConfigInitFiles, CrashFiles DEF CI
<1>5. CASE GatewayStart \/ ServiceCrash \/ Reload
  BY <1>1, <1>5, ServiceFiles
<1>6. QED
  BY <1>1, <1>2, <1>3, <1>4, <1>5 DEF Next

(* A command that nothing overlaps has made each file fresh once it is past
   the step that writes it, and config-init, which it sets off, keeps it so. *)
THEOREM FilesInvHolds == Spec => []FilesInv
<1>1. Init => FilesInv
  BY DEF Init, FilesInv, AloneOK, ShotFresh, FilesFresh, Rendered, Effective, CI
<1>2. QED
  BY <1>1, FilesInvStep, InvariantHolds, PTL DEF Spec

(* When a command that nothing overlapped is done, the runtime files are those
   of the overlays as they are, and the gateway's user may read them. *)
THEOREM FilesFollow == Spec => []FilesFollowOverlay
<1>1. FilesInv => FilesFollowOverlay
  BY DEF FilesInv, FilesFresh, FilesFollowOverlay, Settled, HasRendered, HandedOver, Rendered, CI
<1>2. QED
  BY <1>1, FilesInvHolds, PTL

(* What of Recovers is no matter of time: once a command that nothing
   overlapped is done, a gateway that is being restarted finds the files it
   needs, whichever commands were killed before, if the catalog is one it can
   load at all. *)
THEOREM SettledGatewayCanStart ==
  Spec => [](/\ gateway = "starting"
             /\ \E o \in Operators : Settled(o)
             /\ LoadsProfiles(Effective)
             => /\ {"catalog", "memory"} \subseteq owned
                /\ LoadsProfiles(files.catalog))
<1>1. FilesFollowOverlay =>
        (/\ gateway = "starting"
         /\ \E o \in Operators : Settled(o)
         /\ LoadsProfiles(Effective)
         => /\ {"catalog", "memory"} \subseteq owned
            /\ LoadsProfiles(files.catalog))
  BY DEF FilesFollowOverlay, Rendered
<1>2. QED
  BY <1>1, FilesFollow, PTL

-----------------------------------------------------------------------------
(* The edit that is written. *)
LEMMA SeenStep == Inv /\ FilesInv /\ SeenFresh /\ [Next]_vars => SeenFresh'
<1>1. SUFFICES ASSUME Inv, FilesInv, SeenFresh, [Next]_vars PROVE SeenFresh'
  OBVIOUS
<1>2. CASE UNCHANGED vars
  BY <1>1, <1>2 DEF vars, SeenFresh, CandidateOverlay, Registered
<1>3. ASSUME NEW o \in Operators, Start(o) PROVE SeenFresh'
  <2>1. /\ \E step \in {"read", "fetch", "remove", "render"} : pc' = [pc EXCEPT ![o] = step]
        /\ \A x \in Operators : alone'[x] => x = o
    BY <1>3 DEF Start, FirstStep
  <2>2. pc'[o] # "write"
    BY <1>1, <2>1 DEF Inv, TypeOK
  <2>3. QED
    BY <2>1, <2>2 DEF SeenFresh
<1>4. ASSUME NEW o \in Operators, ReadOverlay(o) PROVE SeenFresh'
  <2>1. UNCHANGED <<overlay, cmd, alone>>
    BY <1>4 DEF ReadOverlay
  <2>2. \A x \in Operators : alone[x] => x = o
    BY <1>1, <1>4, AloneActs DEF CommandStep, FilesInv
  <2>3. pc'[o] = "write" /\ cmd[o].kind # "memory" => seen'[o] = CandidateOverlay(cmd[o])
    BY <1>1, <1>4 DEF ReadOverlay, Inv, TypeOK, Domains
  <2>4. QED
    BY <2>1, <2>2, <2>3 DEF SeenFresh, CandidateOverlay, Registered
<1>5. ASSUME NEW o \in Operators, WriteOverlay(o) PROVE SeenFresh'
  <2>1. UNCHANGED <<cmd, alone>> /\ pc'[o] = "render"
    BY <1>1, <1>5 DEF WriteOverlay, ThenRender, Inv, TypeOK
  <2>2. \A x \in Operators : alone[x] => x = o
    BY <1>1, <1>5, AloneActs DEF CommandStep, FilesInv
  <2>3. QED
    BY <2>1, <2>2 DEF SeenFresh
<1>6. CASE \/ \E o \in Operators :
               \/ Fetch(o) \/ Verify(o) \/ Unlink(o) \/ Remove(o)
               \/ WriteCompose(o) \/ Recreate(o) \/ StartRouter(o) \/ StartGateway(o)
               \/ InitFailed(o)
           \/ \E r \in Renderers : RenderStep(r) \/ Crash(r)
           \/ GatewayStart \/ ServiceCrash \/ Reload
  <2>1. UNCHANGED <<overlay, cmd, alone, seen>>
    BY <1>6 DEF Fetch, Verify, Unlink, Remove, UnchangedButWeights, WriteCompose, Recreate,
         StartRouter, StartGateway, InitFailed, UnchangedButServices, RenderStep, RenderLoad,
         WriteIni, WriteCatalog, WriteMemory, Own, UnchangedButFiles, Crash, GatewayStart,
         ServiceCrash, Reload
  <2>2. \A x \in Operators : pc'[x] = "write" => pc[x] = "write"
    <3>1. CASE \E o \in Operators : Fetch(o) \/ Verify(o) \/ Unlink(o) \/ Remove(o)
      BY <1>1, <3>1 DEF Fetch, Verify, Unlink, Remove, Fails, ThenRender, Inv, TypeOK
    <3>2. CASE \E o \in Operators :
                 \/ WriteCompose(o) \/ Recreate(o) \/ StartRouter(o) \/ StartGateway(o)
                 \/ InitFailed(o)
      BY <1>1, <3>2 DEF WriteCompose, Recreate, BringUp, StartRouter, StartGateway, InitFailed,
           Inv, TypeOK
    <3>3. CASE \E r \in Renderers : RenderStep(r) \/ Crash(r)
      BY <1>1, <3>3 DEF RenderStep, RenderLoad, WriteIni, WriteCatalog, WriteMemory, Own, Crash,
           Inv, TypeOK
    <3>4. CASE GatewayStart \/ ServiceCrash \/ Reload
      BY <3>4 DEF GatewayStart, ServiceCrash, Reload, UnchangedButServices
    <3>5. QED
      BY <1>6, <3>1, <3>2, <3>3, <3>4
  <2>3. QED
    BY <1>1, <2>1, <2>2 DEF SeenFresh, CandidateOverlay, Registered
<1>7. QED
  BY <1>1, <1>2, <1>3, <1>4, <1>5, <1>6 DEF Next, CommandStep

(* Lists that are rewritten in the overlay would be rewritten in the catalog
   anyway, and make no difference to the merge, because the models they belong
   to are not the base's. *)
LEMMA WrittenIsRendered ==
  ASSUME NullIsNoMapping, NEW document
  PROVE  Normalized(MergeDocument(Base, Written(document)))
           = Normalized(MergeDocument(Base, document))
<1> DEFINE kept == {m \in DOMAIN Section(Base, "models") : At(Section(Base, "models"), m) # Null}
           models == document["models"]
           rewritten == [m \in DOMAIN models |->
                           IF m \in kept THEN models[m] ELSE NormalizedModel(models[m])]
           left == MergeDocument(Base, Written(document))
           right == MergeDocument(Base, document)
<1>1. CASE Field(document, "models", Null) = Null
  BY <1>1 DEF Written, NormalizedExcept
<1>2. CASE Field(document, "models", Null) # Null
  <2>1. "models" \in DOMAIN document /\ models # Null /\ rewritten # Null
    BY <1>2 DEF Field, NullIsNoMapping
  <2>2. Written(document) = [document EXCEPT !["models"] = rewritten]
    BY <1>2 DEF Written, NormalizedExcept
  <2>3. \A m \in DOMAIN models :
           /\ NormalizedModel(rewritten[m]) = NormalizedModel(models[m])
           /\ rewritten[m] = Null <=> models[m] = Null
           /\ m \in kept => rewritten[m] = models[m]
    <3>1. NormalizedModel(Null) = Null
      BY DEF NormalizedModel, At
    <3>2. QED
      BY <3>1, NormalizedTwice, NormalizedModelFields
  <2> DEFINE based == "models" \in DOMAIN Base /\ Base["models"] # Null
             L == IF based THEN MergeSection("models", Base["models"], rewritten) ELSE rewritten
             R == IF based THEN MergeSection("models", Base["models"], models) ELSE models
  <2> HIDE DEF models, rewritten
  <2>4. L # Null /\ R # Null
    BY <2>1, MergedIsNoNull
  <2>5. /\ DOMAIN L = DOMAIN R
        /\ \A m \in DOMAIN R : NormalizedModel(L[m]) = NormalizedModel(R[m])
    <3>1. DOMAIN rewritten = DOMAIN models
      BY DEF rewritten
    <3>2. CASE ~based
      BY <2>3, <3>1, <3>2
    <3>3. CASE based
      <4>1. \A m \in DOMAIN Base["models"] : m \in kept <=> Base["models"][m] # Null
        BY <3>3 DEF Section, At, Field
      <4>2. /\ L = MergeMapping(Base["models"], rewritten, MergeEntry)
            /\ R = MergeMapping(Base["models"], models, MergeEntry)
        BY <3>3 DEF MergeSection, Sections
      <4> HIDE DEF kept, L, R
      <4>3. QED
        BY <2>3, <3>1, <4>1, <4>2 DEF MergeMapping
    <3>4. QED
      BY <3>2, <3>3
  <2> HIDE DEF L, R
  <2>6. /\ DOMAIN left = DOMAIN right /\ "models" \in DOMAIN right
        /\ left = [s \in DOMAIN left |-> left[s]] /\ right = [s \in DOMAIN right |-> right[s]]
        /\ \A s \in DOMAIN right \ {"models"} : left[s] = right[s]
        /\ left["models"] = L /\ right["models"] = R
    <3> DEFINE written == [document EXCEPT !["models"] = rewritten]
    <3>1. /\ DOMAIN written = DOMAIN document /\ written["models"] = rewritten
          /\ \A s \in DOMAIN document \ {"models"} : written[s] = document[s]
          /\ document["models"] = models
      BY <2>1 DEF models
    <3>2. left = MergeDocument(Base, written)
      BY <2>2
    <3> HIDE DEF written
    <3>3. QED
      BY <2>1, <3>1, <3>2 DEF MergeDocument, MergeMapping, L, R
  <2> HIDE DEF left, right
  <2>7. /\ Normalized(left) = [left EXCEPT !["models"] = [m \in DOMAIN L |-> NormalizedModel(L[m])]]
        /\ Normalized(right) = [right EXCEPT !["models"] = [m \in DOMAIN R |-> NormalizedModel(R[m])]]
    BY <2>4, <2>6 DEF Normalized, NormalizedExcept, Field
  <2>8. [m \in DOMAIN L |-> NormalizedModel(L[m])] = [m \in DOMAIN R |-> NormalizedModel(R[m])]
    BY <2>5
  <2>9. Normalized(left) = Normalized(right)
    BY <2>6, <2>7, <2>8
  <2>10. QED
    BY <2>9 DEF left, right
<1>3. QED
  BY <1>1, <1>2

(* A file applied by the only operator takes effect as if it were merged into
   the merged catalog, although it is merged into an overlay that was read
   before and lists are rewritten on the way; with no null in file or overlay
   and no list of capabilities between two mappings. *)
THEOREM AppliedIsEffective ==
  ASSUME NullIsNoMapping
  PROVE  Spec => AppliedTakesEffect
<1>1. Init => SeenFresh
  BY DEF Init, SeenFresh
<1>2. Inv /\ SeenFresh /\ [Next]_vars =>
        [\A o \in Operators :
           /\ WriteOverlay(o)
           /\ alone[o]
           /\ cmd[o].kind = "apply" /\ ~cmd[o].replace
           /\ NullFree(cmd[o].file) /\ NullFree(overlay)
           /\ ~ListsBetween(Base, overlay, cmd[o].file)
           => Effective' = Normalized(MergeDocument(MergeDocument(Base, overlay),
                                                    Versioned(cmd[o].file)))]_vars
  <2>1. SUFFICES ASSUME Inv, SeenFresh, NEW o \in Operators, WriteOverlay(o), alone[o],
                        cmd[o].kind = "apply", ~cmd[o].replace,
                        NullFree(cmd[o].file), NullFree(overlay),
                        ~ListsBetween(Base, overlay, cmd[o].file)
                 PROVE  Effective' = Normalized(MergeDocument(MergeDocument(Base, overlay),
                                                              Versioned(cmd[o].file)))
    OBVIOUS
  <2> DEFINE file == Versioned(cmd[o].file)
             merged == MergeDocument(overlay, file)
  <2>2. overlay' = seen[o] /\ pc[o] = "write"
    BY <2>1 DEF WriteOverlay
  <2>3. /\ NullFree(file) /\ "version" \in DOMAIN file
        /\ \A s \in Sections : Field(file, s, Null) = Field(cmd[o].file, s, Null)
    BY <2>1, IdOrderAssumption DEF Versioned, NullFree, Sections, Field
  <2>4. ~ListsBetween(Base, overlay, file)
    <3> HIDE DEF file
    <3>1. QED
      BY <2>1, <2>3 DEF ListsBetween
  <2>5. Versioned(merged) = merged
    <3>1. "version" \in DOMAIN merged /\ merged = [key \in DOMAIN merged |-> merged[key]]
      <4> HIDE DEF file
      <4>1. file["version"] # Null
        BY <2>3 DEF NullFree
      <4>2. QED
        BY <2>3, <4>1 DEF MergeDocument, MergeMapping
    <3> HIDE DEF merged
    <3>2. DOMAIN merged \cup {"version"} = DOMAIN merged
      BY <3>1
    <3>3. QED
      BY <3>1, <3>2 DEF Versioned
  <2>6. seen[o] = Written(merged)
    BY <2>1, <2>2, <2>5 DEF SeenFresh, CandidateOverlay
  <2> HIDE DEF file
  <2>7. MergeDocument(Base, merged) = MergeDocument(MergeDocument(Base, overlay), file)
    BY <2>1, <2>3, <2>4, MergeAssociates
  <2>8. Effective' = Normalized(MergeDocument(Base, Written(merged)))
    <3> HIDE DEF merged
    <3>1. QED
      BY <2>2, <2>6 DEF Effective
  <2>9. QED
    BY <2>7, <2>8, WrittenIsRendered DEF file
<1>3. QED
  BY <1>1, <1>2, SeenStep, InvariantHolds, FilesInvHolds, PTL DEF Spec, AppliedTakesEffect

-----------------------------------------------------------------------------
(* What the gateway serves. *)
LEMMA ServingStep == Inv /\ FilesInv /\ ServingFresh /\ [Next]_vars => ServingFresh'
<1>1. SUFFICES ASSUME Inv, FilesInv, ServingFresh, [Next]_vars PROVE ServingFresh'
  OBVIOUS
<1>2. CASE UNCHANGED vars
  BY <1>1, <1>2 DEF vars, ServingFresh, Effective, Applies
<1>3. ASSUME NEW o \in Operators, Start(o) PROVE ServingFresh'
  <2>1. /\ \E step \in {"read", "fetch", "remove", "render"} : pc' = [pc EXCEPT ![o] = step]
        /\ \A x \in Operators : alone'[x] => x = o
    BY <1>3 DEF Start, FirstStep
  <2>2. pc'[o] \notin {"starting", "done"}
    BY <1>1, <2>1 DEF Inv, TypeOK
  <2>3. QED
    BY <2>1, <2>2 DEF ServingFresh
<1>4. ASSUME NEW o \in Operators, Edits(o) PROVE ServingFresh'
  <2>1. \A x \in Operators : alone'[x] => x = o
    BY <1>1, <1>4, AloneActs, AloneUnchanged DEF CommandStep, Edits, FilesInv
  <2>2. pc'[o] \notin {"starting", "done"}
    BY <1>1, <1>4, EditMoves DEF Inv, TypeOK
  <2>3. QED
    BY <2>1, <2>2 DEF ServingFresh
<1>5. ASSUME NEW o \in Operators, BringsUp(o) PROVE ServingFresh'
  <2>1. UNCHANGED <<alone, cmd>> /\ \A x \in Operators : alone[x] => x = o
    BY <1>1, <1>5, AloneActs, AloneUnchanged DEF CommandStep, BringsUp, FilesInv
  <2>2. UNCHANGED <<overlay, memory, serving>>
    BY <1>5 DEF BringsUp, WriteCompose, Recreate, StartRouter, StartGateway, InitFailed,
         UnchangedButServices
  <2>3. SUFFICES ASSUME alone[o], Applies(o), pc'[o] \in {"starting", "done"}, gateway' = "up"
                 PROVE  pc[o] = "starting" /\ gateway = "up"
    BY <1>1, <2>1, <2>2 DEF ServingFresh, Effective, Applies
  <2>4. ~WriteCompose(o)
    BY <1>1, <2>3 DEF WriteCompose, Inv, TypeOK
  <2>5. ~Recreate(o)
    BY <2>3 DEF Recreate, Applies, MayBeStopped
  <2>6. QED
    BY <1>5, <2>3, <2>4, <2>5 DEF BringsUp, StartRouter, StartGateway, InitFailed
<1>6. ASSUME NEW r \in Renderers, RenderStep(r) \/ Crash(r) PROVE ServingFresh'
  <2>1. UNCHANGED <<alone, cmd>>
    BY <1>6, AloneUnchanged
  <2>2. UNCHANGED <<overlay, memory, serving, gateway>>
    BY <1>1, <1>6, RenderMoves DEF Crash
  <2>3. \A x \in Operators : pc'[x] \in {"starting", "done"} => pc'[x] = pc[x]
    <3>1. CASE RenderStep(r)
      BY <1>1, <3>1, RenderMoves DEF Inv, TypeOK
    <3>2. CASE Crash(r)
      BY <1>1, <3>2 DEF Crash, Inv, TypeOK
    <3>3. QED
      BY <1>6, <3>1, <3>2
  <2>4. QED
    BY <1>1, <2>1, <2>2, <2>3 DEF ServingFresh, Effective, Applies
<1>7. ASSUME GatewayStart \/ Reload PROVE ServingFresh'
  <2>1. UNCHANGED <<alone, cmd, pc, overlay, memory, files>>
    BY <1>7 DEF GatewayStart, Reload, UnchangedButServices
  <2>2. ASSUME NEW x \in Operators, alone[x], pc[x] \in {"starting", "done"}
        PROVE  files.catalog = Effective /\ files.memory = memory
    BY <1>1, <2>2 DEF FilesInv, FilesFresh, HasRendered
  <2>3. \/ serving' = [catalog |-> files.catalog, memory |-> files.memory]
        \/ gateway = "up" /\ serving' = [serving EXCEPT !.catalog = files.catalog]
    BY <1>7 DEF GatewayStart, Reload
  <2>4. QED
    BY <1>1, <2>1, <2>2, <2>3 DEF ServingFresh, Effective, Applies
<1>8. CASE ServiceCrash
  BY <1>1, <1>8 DEF ServiceCrash, ServingFresh, Effective, Applies
<1>9. QED
  BY <1>1, <1>2, <1>3, <1>4, <1>5, <1>6, <1>7, <1>8 DEF Next, CommandStep, Edits, BringsUp

(* A gateway that is up after such a command serves what the command made of
   the overlays, even if it was restarted or reloaded while the files changed. *)
THEOREM ServicesFollow == Spec => []ServicesFollowFiles
<1>1. Init => ServingFresh
  BY DEF Init, ServingFresh
<1>2. ServingFresh => ServicesFollowFiles
  BY DEF ServingFresh, ServicesFollowFiles, Settled
<1>3. QED
  BY <1>1, <1>2, ServingStep, InvariantHolds, FilesInvHolds, PTL DEF Spec

LEMMA LoadsStep == ServingLoads /\ [Next]_vars => ServingLoads'
<1>1. SUFFICES ASSUME ServingLoads, [Next]_vars PROVE ServingLoads'
  OBVIOUS
<1>2. CASE GatewayStart \/ Reload
  <2>1. LoadsProfiles(files.catalog)
    BY <1>2 DEF GatewayStart, Reload
  <2>2. serving'.catalog = files.catalog /\ "catalog" \in DOMAIN serving'
    BY <1>1, <1>2 DEF GatewayStart, Reload, ServingLoads
  <2>3. QED
    BY <2>1, <2>2 DEF ServingLoads
<1>3. CASE ~(GatewayStart \/ Reload)
  <2>1. serving' = serving /\ (gateway' = "up" => gateway = "up")
    <3>1. CASE \E o \in Operators : Start(o) \/ CommandStep(o)
      BY <3>1 DEF Start, CommandStep, ReadOverlay, WriteOverlay, Fetch, Verify, Unlink, Remove,
           UnchangedButWeights, WriteCompose, Recreate, StartRouter, StartGateway, InitFailed,
           UnchangedButServices
    <3>2. CASE \E r \in Renderers : RenderStep(r) \/ Crash(r)
      BY <3>2 DEF RenderStep, RenderLoad, WriteIni, WriteCatalog, WriteMemory, Own,
           UnchangedButFiles, Crash
    <3>3. CASE ServiceCrash \/ UNCHANGED vars
      BY <3>3 DEF ServiceCrash, vars
    <3>4. QED
      BY <1>1, <1>3, <3>1, <3>2, <3>3 DEF Next
  <2>2. QED
    BY <1>1, <2>1 DEF ServingLoads
<1>4. QED
  BY <1>2, <1>3

LEMMA ServingLoadsHolds == Spec => []ServingLoads
<1>1. Init => ServingLoads
  BY DEF Init, ServingLoads
<1>2. QED
  BY <1>1, LoadsStep, PTL DEF Spec

LEMMA EffectiveIds == Inv => ProperIds(Effective)
BY NormalizedIds DEF Inv, OverlayAccepted, ValidateCatalog, ProperIds, Effective

LEMMA IdsStep == Inv /\ FilesInv /\ ServingLoads /\ IdsProper /\ [Next]_vars => IdsProper'
<1>1. SUFFICES ASSUME Inv, FilesInv, ServingLoads, IdsProper, [Next]_vars PROVE IdsProper'
  OBVIOUS
<1>2. CASE \E o \in Operators : Start(o)
  <2>1. /\ UNCHANGED <<files, serving, shot>>
        /\ \E o \in Operators : rpc' \in {rpc, [rpc EXCEPT ![o] = "load"]}
    BY <1>2 DEF Start
  <2>2. QED
    BY <1>1, <2>1 DEF IdsProper, Inv, TypeOK
<1>3. CASE \E o \in Operators : CommandStep(o)
  <2>1. UNCHANGED <<files, serving, shot>>
    BY <1>3 DEF CommandStep, ReadOverlay, WriteOverlay, Fetch, Verify, Unlink, Remove,
         UnchangedButWeights, WriteCompose, Recreate, StartRouter, StartGateway, InitFailed,
         UnchangedButServices
  <2>2. \/ UNCHANGED rpc
        \/ \E r \in Renderers : rpc' = [rpc EXCEPT ![r] = "load"]
    BY <1>3 DEF CommandStep, ReadOverlay, WriteOverlay, Fetch, Verify, Unlink, Remove, Fails,
         ThenRender, WriteCompose, Recreate, BringUp, StartRouter, StartGateway, InitFailed,
         UnchangedButServices
  <2>3. QED
    BY <1>1, <2>1, <2>2 DEF IdsProper, Inv, TypeOK
<1>4. ASSUME NEW r \in Renderers, RenderStep(r) PROVE IdsProper'
  <2>1. UNCHANGED serving
    BY <1>1, <1>4, RenderMoves
  <2>2. ProperIds(files'.catalog)
    BY <1>1, <1>4 DEF RenderStep, RenderLoad, WriteIni, WriteCatalog, WriteMemory, Own,
         IdsProper, FilesInv, FilesFresh
  <2>3. ASSUME NEW x \in Renderers, rpc'[x] \in {"ini", "catalog"} PROVE ProperIds(shot'[x])
    <3>1. CASE x # r
      <4>1. rpc'[x] = rpc[x] /\ shot'[x] = shot[x]
        BY <1>1, <1>4, <2>3, <3>1, RenderMoves DEF Inv, TypeOK, FilesInv, ShotFresh
      <4>2. QED
        BY <1>1, <2>3, <4>1 DEF IdsProper
    <3>2. CASE x = r /\ rpc[r] = "load"
      <4>1. shot'[r] = Effective
        BY <1>1, <1>4, <3>2, RenderMoves DEF FilesInv, ShotFresh
      <4>2. QED
        BY <1>1, <3>2, <4>1, EffectiveIds
    <3>3. CASE x = r /\ rpc[r] # "load"
      <4>1. rpc[r] = "ini" /\ UNCHANGED shot
        BY <1>1, <1>4, <2>3, <3>3 DEF RenderStep, RenderLoad, WriteIni, WriteCatalog,
             WriteMemory, Own, Inv, TypeOK
      <4>2. QED
        BY <1>1, <3>3, <4>1 DEF IdsProper
    <3>4. QED
      BY <3>1, <3>2, <3>3
  <2>4. QED
    BY <1>1, <2>1, <2>2, <2>3 DEF IdsProper
<1>5. ASSUME NEW r \in Renderers, Crash(r) PROVE IdsProper'
  <2>1. /\ UNCHANGED <<files, serving, shot>>
        /\ rpc' = [rpc EXCEPT ![r] = IF r = CI THEN "failed" ELSE "off"]
    BY <1>5 DEF Crash, CI
  <2>2. QED
    BY <1>1, <2>1 DEF IdsProper, Inv, TypeOK
<1>6. CASE GatewayStart \/ Reload
  BY <1>1, <1>6 DEF GatewayStart, Reload, UnchangedButServices, IdsProper, ServingLoads
<1>7. CASE ServiceCrash \/ UNCHANGED vars
  BY <1>1, <1>7 DEF ServiceCrash, vars, IdsProper
<1>8. QED
  BY <1>1, <1>2, <1>3, <1>4, <1>5, <1>6, <1>7 DEF Next

LEMMA IdsProperHolds == Spec => []IdsProper
<1>1. Init => IdsProper
  <2>1. Init => ProperIds(Effective)
    BY InitInv, EffectiveIds
  <2>2. QED
    BY <2>1 DEF Init, Rendered, IdsProper
<1>2. QED
  BY <1>1, IdsStep, InvariantHolds, FilesInvHolds, ServingLoadsHolds, PTL DEF Spec

(* Whatever catalogs operators write, the gateway can serve what it lists. *)
THEOREM ListedResolves == Spec => []AvailableResolves
<1>1. ServingLoads /\ IdsProper => AvailableResolves
  <2>1. SUFFICES ASSUME gateway = "up", LoadsProfiles(serving.catalog),
                        ProperIds(serving.catalog),
                        NEW item \in AdvertisedModels(serving.catalog), NEW text,
                        item.available,
                        ~(/\ item.type = "registered-model"
                          /\ item.id \in DOMAIN Section(serving.catalog, "experiences")),
                        ~(/\ item.id \in DOMAIN Section(serving.catalog, "experiences")
                          /\ IsAuto(Section(serving.catalog, "experiences")[item.id]))
                 PROVE  Resolve(serving.catalog, item.id, Null, text).error = "none"
    BY DEF ServingLoads, IdsProper, AvailableResolves
  <2>2. item.type \in {"registered-model", "experience"}
    <3>1. \E id, available :
            \/ item = [id |-> id, type |-> "experience", available |-> available]
            \/ item = [id |-> id, type |-> "registered-model", available |-> available]
      BY Zenon DEF AdvertisedModels
    <3>2. QED
      BY <3>1
  <2>3. QED
    BY <2>1, <2>2, ListedModelResolves
<1>2. QED
  BY <1>1, ServingLoadsHolds, IdsProperHolds, PTL

-----------------------------------------------------------------------------
(* What the router was started with. *)
LEMMA RouterStep ==
  ASSUME NullIsNoMapping
  PROVE  Inv /\ FilesInv /\ RouterFresh /\ [Next]_vars => RouterFresh'
<1>1. SUFFICES ASSUME Inv, FilesInv, RouterFresh, [Next]_vars PROVE RouterFresh'
  OBVIOUS
<1>2. CASE UNCHANGED vars
  BY <1>1, <1>2 DEF vars, RouterFresh, Effective, Recreates, Applies, Busy
<1>3. ASSUME NEW o \in Operators, Start(o) PROVE RouterFresh'
  <2>1. /\ \E step \in {"read", "fetch", "remove", "render"} : pc' = [pc EXCEPT ![o] = step]
        /\ plan' = [plan EXCEPT ![o] = Null]
        /\ \A x \in Operators : alone'[x] => x = o
    BY <1>3 DEF Start, FirstStep
  <2>2. pc'[o] \notin {"starting", "done"} /\ \A x \in Operators \ {o} : pc'[x] = pc[x]
    BY <1>1, <2>1 DEF Inv, TypeOK
  <2>3. QED
    BY <1>1, <2>1, <2>2 DEF RouterFresh, Recreates, Busy
<1>4. ASSUME NEW o \in Operators, Edits(o) PROVE RouterFresh'
  <2>1. \A x \in Operators : alone'[x] => x = o
    BY <1>1, <1>4, AloneActs, AloneUnchanged DEF CommandStep, Edits, FilesInv
  <2>2. /\ pc'[o] \notin {"starting", "done"} /\ Busy(o) /\ pc[o] # "starting"
        /\ plan' = plan /\ \A x \in Operators \ {o} : pc'[x] = pc[x]
    BY <1>1, <1>4, EditMoves DEF Inv, TypeOK, Busy, Resting
  <2>3. QED
    BY <1>1, <2>1, <2>2 DEF RouterFresh, Recreates, Busy
<1>5. ASSUME NEW o \in Operators, BringsUp(o) PROVE RouterFresh'
  <2>1. UNCHANGED <<alone, cmd>> /\ \A x \in Operators : alone[x] => x = o
    BY <1>1, <1>5, AloneActs, AloneUnchanged DEF CommandStep, BringsUp, FilesInv
  <2>2. UNCHANGED <<overlay, files>>
    BY <1>5 DEF BringsUp, WriteCompose, Recreate, StartRouter, StartGateway, InitFailed,
         UnchangedButServices
  <2>3. \A x \in Operators : Busy(x)' /\ pc'[x] # "starting" => plan'[x] = Null
    BY <1>1, <1>5 DEF BringsUp, WriteCompose, Recreate, BringUp, StartRouter, StartGateway,
         InitFailed, UnchangedButServices, RouterFresh, Busy, Resting, Inv, TypeOK
  <2>4. DOMAIN plan' = Operators
    BY <1>1, <1>5 DEF BringsUp, WriteCompose, Recreate, BringUp, StartRouter, StartGateway,
         InitFailed, UnchangedButServices, RouterFresh
  <2>5. ASSUME alone[o], Recreates(o)'
        PROVE  /\ plan'[o] = compose'
               /\ compose'.needed /\ pc'[o] = "done" => router' # Null
               /\ compose'.needed /\ router' # Null =>
                    router' = [presets |-> RenderModelsIni(Effective), mounts |-> compose'.mounts]
    <3>1. Applies(o) /\ pc'[o] \in {"starting", "done"}
      BY <2>1, <2>5 DEF Recreates, Applies
    <3>2. CASE WriteCompose(o)
      BY <1>1, <3>1, <3>2 DEF WriteCompose, Inv, TypeOK
    <3>3. CASE Recreate(o)
      <4>1. pc[o] = "recreate" /\ plan[o] = Null
        BY <1>1, <3>3 DEF Recreate, RouterFresh, Busy, Resting
      <4>2. CASE pc' = [pc EXCEPT ![o] = "done"] /\ UNCHANGED plan
        BY <1>1, <2>5, <4>1, <4>2 DEF Recreates, Inv, TypeOK
      <4>3. CASE BringUp(o) /\ router' = IF compose.needed THEN Null ELSE router
        BY <1>1, <3>3, <4>3 DEF Recreate, BringUp, RouterFresh, Inv, TypeOK
      <4>4. QED
        BY <3>1, <3>3, <4>2, <4>3 DEF Recreate, Applies
    <3>4. CASE StartRouter(o)
      <4>1. Recreates(o) /\ pc' = pc /\ pc[o] = "starting" /\ UNCHANGED <<plan, compose>>
        BY <3>1, <3>4 DEF StartRouter, UnchangedButServices, Recreates
      <4>2. files.ini = RenderModelsIni(Effective)
        BY <1>1, <2>5, <4>1 DEF FilesInv, FilesFresh, HasRendered
      <4>3. plan[o] = compose
        BY <1>1, <2>5, <4>1 DEF RouterFresh
      <4>4. QED
        BY <3>4, <4>1, <4>2, <4>3 DEF StartRouter
    <3>5. CASE StartGateway(o) \/ InitFailed(o)
      <4>1. StartGateway(o)
        BY <1>1, <3>1, <3>5 DEF InitFailed, Inv, TypeOK
      <4>2. Recreates(o) /\ UNCHANGED <<plan, compose, router>>
        BY <3>1, <4>1 DEF StartGateway, UnchangedButServices, Recreates
      <4>3. QED
        BY <1>1, <2>5, <4>1, <4>2 DEF RouterFresh, StartGateway, RouterAsPlanned
    <3>6. QED
      BY <1>5, <3>2, <3>3, <3>4, <3>5 DEF BringsUp
  <2>6. QED
    BY <2>1, <2>2, <2>3, <2>4, <2>5 DEF RouterFresh, Effective
<1>6. ASSUME NEW r \in Renderers, RenderStep(r) \/ Crash(r) PROVE RouterFresh'
  <2>1. UNCHANGED <<alone, cmd>>
    BY <1>6, AloneUnchanged
  <2>2. UNCHANGED <<overlay, compose, router, plan>>
    BY <1>1, <1>6, RenderMoves DEF Crash
  <2>3. \A x \in Operators :
           /\ pc'[x] \in {"starting", "done"} => pc'[x] = pc[x]
           /\ Busy(x)' => Busy(x) /\ (pc[x] = "starting" => pc'[x] = "starting")
    <3>1. CASE RenderStep(r)
      <4>1. r \in Operators => pc[r] = "render"
        BY <1>1, <3>1, RenderMoves DEF Inv, TypeOK, Working
      <4>2. QED
        BY <1>1, <3>1, <4>1, RenderMoves DEF Inv, TypeOK, Busy, Resting, CI
    <3>2. CASE Crash(r)
      BY <1>1, <3>2 DEF Crash, Inv, TypeOK, Busy, Resting
    <3>3. QED
      BY <1>6, <3>1, <3>2
  <2>4. QED
    BY <1>1, <2>1, <2>2, <2>3 DEF RouterFresh, Effective, Recreates, Applies
<1>7. CASE GatewayStart \/ Reload
  BY <1>1, <1>7 DEF GatewayStart, Reload, UnchangedButServices, RouterFresh, Effective,
       Recreates, Applies, Busy
<1>8. CASE ServiceCrash
  <2>1. UNCHANGED <<alone, cmd, pc, overlay, files, compose, plan>>
    BY <1>8 DEF ServiceCrash
  <2>2. CASE router' = router
    BY <1>1, <2>1, <2>2 DEF RouterFresh, Effective, Recreates, Applies, Busy
  <2>3. CASE router # Null /\ router' = [router EXCEPT !.presets = files.ini]
    <3>1. router' # Null
      <4>1. router' = [key \in DOMAIN router |-> router'[key]]
        BY <2>3
      <4>2. QED
        BY <4>1 DEF NullIsNoMapping
    <3>2. ASSUME NEW x \in Operators, alone[x], Recreates(x), compose.needed
          PROVE  router' = [presets |-> RenderModelsIni(Effective), mounts |-> compose.mounts]
      <4>1. files.ini = RenderModelsIni(Effective)
        BY <1>1, <3>2 DEF FilesInv, FilesFresh, HasRendered, Recreates
      <4>2. router = [presets |-> RenderModelsIni(Effective), mounts |-> compose.mounts]
        BY <1>1, <2>3, <3>2 DEF RouterFresh
      <4>3. QED
        BY <2>3, <4>1, <4>2
    <3>3. QED
      BY <1>1, <2>1, <3>1, <3>2 DEF RouterFresh, Effective, Recreates, Applies, Busy
  <2>4. QED
    BY <1>8, <2>2, <2>3 DEF ServiceCrash
<1>9. QED
  BY <1>1, <1>2, <1>3, <1>4, <1>5, <1>6, <1>7, <1>8 DEF Next, CommandStep, Edits, BringsUp

(* Every local model of an accepted catalog has a path and so a preset, and
   one of a kind Compose mounts has a mount that the path leads into. *)
LEMMA PathIsNoNull ==
  ASSUME NullIsNoMapping, NEW m, NEW artifact, Kind(artifact) \in ArtifactKinds \ {"none"}
  PROVE  ResolvedModelPath(m, artifact) # Null
<1>1. \A a : <<a>> # Null
  <2>1. \A a : <<a>> = [i \in DOMAIN <<a>> |-> <<a>>[i]]
    OBVIOUS
  <2>2. QED
    BY <2>1 DEF NullIsNoMapping
<1>2. \A a, b : <<a, b>> # Null
  <2>1. \A a, b : <<a, b>> = [i \in DOMAIN <<a, b>> |-> <<a, b>>[i]]
    OBVIOUS
  <2>2. QED
    BY <2>1 DEF NullIsNoMapping
<1>3. \A a, b, c : Append(<<a, b>>, c) # Null
  <2>1. \A a, b, c : Append(<<a, b>>, c) = [i \in DOMAIN Append(<<a, b>>, c) |-> Append(<<a, b>>, c)[i]]
    OBVIOUS
  <2>2. QED
    BY <2>1 DEF NullIsNoMapping
<1>4. QED
  BY <1>1, <1>2, <1>3 DEF ResolvedModelPath, External, ArtifactKinds, LocationField

LEMMA LocalHasArtifact ==
  ASSUME NullIsNoMapping, Inv, NEW m \in DOMAIN Section(Effective, "models"), Local(Effective, m)
  PROVE  Kind(Artifact(Effective, m)) \in ArtifactKinds \ {"none"}
<1>1. ValidateCatalog(Effective)
  BY NormalizedIsAccepted DEF Inv, OverlayAccepted, Effective
<1> DEFINE model == Section(Effective, "models")[m]
<1>2. /\ Field(model, "backend", Null) \in DOMAIN Section(Effective, "backends")
      /\ Located(ArtifactFor(model))
      /\ Section(Effective, "backends")[Field(model, "backend", Null)]["kind"] = "llama.cpp"
           => Kind(ArtifactFor(model)) # "none"
  BY <1>1 DEF ValidateCatalog
<1>3. Field(model, "backend", Null) = model["backend"]
  BY <1>1, <1>2, IdsFinite DEF ValidateCatalog, ProperIds, Sections, Field
<1>4. QED
  BY <1>2, <1>3 DEF Local, Artifact, Located

(* Once such a command has recreated the services, what the gateway resolves a
   request to is a model the router has a preset for; and if its weights are a
   host path or a Docker volume, they are mounted where the preset looks.  For
   container paths and the two Kubernetes kinds it says no more than that
   there is a preset. *)
THEOREM RoutedIsServed ==
  ASSUME NullIsNoMapping
  PROVE  Spec => []RoutedModelServed
<1>1. Init => RouterFresh
  BY DEF Init, RouterFresh, Busy, Resting, Recreates
<1>2. Inv /\ FilesInv /\ ServingFresh /\ ServingLoads /\ IdsProper /\ RouterFresh
        => RoutedModelServed
  <2>1. SUFFICES ASSUME Inv, FilesInv, ServingFresh, ServingLoads, IdsProper, RouterFresh,
                        NEW o \in Operators, Settled(o), gateway = "up", Applies(o),
                        plan[o] # Null, NEW requested, NEW explicit, NEW text,
                        Resolve(serving.catalog, requested, explicit, text).error = "none",
                        Local(serving.catalog,
                              Resolve(serving.catalog, requested, explicit, text).model)
                 PROVE  /\ router # Null
                        /\ Reaches(serving.catalog,
                                   Resolve(serving.catalog, requested, explicit, text).model)
    BY DEF RoutedModelServed
  <2> DEFINE model == Resolve(serving.catalog, requested, explicit, text).model
             models == Section(Effective, "models")
             artifact == Artifact(Effective, model)
             path == ResolvedModelPath(model, artifact)
  <2>2. serving.catalog = Effective
    BY <2>1 DEF ServingFresh, Settled
  <2>3. /\ model \in DOMAIN models
        /\ BackendOn(Effective, models[model]) /\ Local(Effective, model)
    BY <2>1, <2>2, ResolvedModelUsable DEF ServingLoads, IdsProper
  <2> HIDE DEF model
  <2>4. path # Null
    BY <2>1, <2>3, LocalHasArtifact, PathIsNoNull
  <2>5. compose = RenderComposeOverride(Effective)
    BY <2>1 DEF FilesInv, FilesFresh, Settled
  <2>6. /\ compose.needed
        /\ Kind(artifact) \in Mounted => Mount(model, artifact) \in compose.mounts
    BY <2>3, <2>5 DEF RenderComposeOverride
  <2>7. router # Null /\ router = [presets |-> RenderModelsIni(Effective), mounts |-> compose.mounts]
    BY <2>1, <2>6 DEF RouterFresh, Recreates, Settled
  <2>8. [name |-> Upstream(Effective, model), path |-> path] \in router.presets
    BY <2>3, <2>4, <2>7 DEF RenderModelsIni
  <2>9. ASSUME Kind(artifact) \in Mounted
        PROVE  \E mount \in router.mounts :
                 /\ mount.source = artifact[LocationField[Kind(artifact)]]
                 /\ mount.target \in {path, External(model)}
    <3>1. Mount(model, artifact) \in router.mounts
      BY <2>6, <2>7, <2>9
    <3>2. Mount(model, artifact).source = artifact[LocationField[Kind(artifact)]]
      BY DEF Mount
    <3>3. Mount(model, artifact).target \in {path, External(model)}
      BY DEF Mount, ResolvedModelPath
    <3>4. QED
      BY <3>1, <3>2, <3>3
  <2>10. QED
    BY <2>2, <2>7, <2>8, <2>9 DEF Reaches, model
<1>3. Init => ServingFresh
  BY DEF Init, ServingFresh
<1>4. QED
  BY <1>1, <1>2, <1>3, RouterStep, ServingStep, ServingLoadsHolds, IdsProperHolds,
     InvariantHolds, FilesInvHolds, PTL DEF Spec
=============================================================================
