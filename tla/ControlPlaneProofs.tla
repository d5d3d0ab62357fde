------------------------- MODULE ControlPlaneProofs -------------------------
(***************************************************************************)
(* The control plane for every set of operators, every base catalog, every *)
(* set of commands and any number of kills: the overlay on disk stays      *)
(* acceptable, and weights that fail their checksum do not stay.           *)
(*                                                                         *)
(* What ValidateCatalog and MergeDocument compute is never used: the       *)
(* argument is about which document is validated and which is written.     *)
(***************************************************************************)
EXTENDS ControlPlane, TLAPS

USE ControlPlaneAssumption DEF Renderers

Domains == DOMAIN cmd = Operators /\ DOMAIN seen = Operators

(* What a command is about to write was validated when it was read. *)
ReadWasValid ==
  \A o \in Operators : pc[o] = "write" =>
    IF cmd[o].kind = "memory" THEN cmd[o].enabled \in {"on", "off"}
    ELSE ValidateCatalog(MergeDocument(Base, seen[o]))

Inv == TypeOK /\ Domains /\ ReadWasValid /\ OverlayAccepted

(* The three facts of an inductive invariant, the third per kind of step. *)
LEMMA InitInv == Init => Inv
  BY DEF Init, Inv, TypeOK, Domains, ReadWasValid, OverlayAccepted, Steps

LEMMA StutterInv == Inv /\ UNCHANGED vars => Inv'
  BY DEF vars, Inv, TypeOK, Domains, ReadWasValid, OverlayAccepted

(* A command that is entered. *)
LEMMA StartInv ==
  ASSUME Inv, NEW o \in Operators, Start(o)
  PROVE  Inv'
<1>1. PICK c \in Commands[o] :
         /\ cmd' = [cmd EXCEPT ![o] = c]
         /\ pc' = [pc EXCEPT ![o] = FirstStep(c)]
         /\ rpc' = IF FirstStep(c) = "render" THEN [rpc EXCEPT ![o] = "load"] ELSE rpc
  BY DEF Start
<1>2. FirstStep(c) \in {"read", "fetch", "remove", "render"}
  BY DEF FirstStep
<1>3. pc[o] \notin {"render", "write"}
  BY DEF Start, Busy, Resting
<1>4. TypeOK'
  BY <1>1, <1>2, <1>3 DEF Start, Inv, TypeOK, Steps
<1>5. Domains' /\ ReadWasValid' /\ OverlayAccepted'
  BY <1>1, <1>2 DEF Start, Inv, TypeOK, Domains, ReadWasValid, OverlayAccepted
<1>6. QED
  BY <1>4, <1>5 DEF Inv

(* The overlay that is written is the one that was validated, whatever other
   operators wrote since it was read. *)
LEMMA OverlayInv ==
  ASSUME Inv, NEW o \in Operators, ReadOverlay(o) \/ WriteOverlay(o)
  PROVE  Inv'
<1>1. CASE ReadOverlay(o)
  <2>1. TypeOK'
    BY <1>1 DEF ReadOverlay, Inv, TypeOK, Steps
  <2>2. ReadWasValid'
    BY <1>1 DEF ReadOverlay, ValidCandidate, Inv, TypeOK, Domains, ReadWasValid
  <2>3. Domains' /\ OverlayAccepted'
    BY <1>1 DEF ReadOverlay, Inv, Domains, OverlayAccepted
  <2>4. QED
    BY <2>1, <2>2, <2>3 DEF Inv
<1>2. CASE WriteOverlay(o)
  <2>1. IF cmd[o].kind = "memory" THEN cmd[o].enabled \in {"on", "off"}
        ELSE ValidateCatalog(MergeDocument(Base, seen[o]))
    BY <1>2 DEF WriteOverlay, Inv, ReadWasValid
  <2>2. TypeOK'
    BY <1>2, <2>1 DEF WriteOverlay, ThenRender, Inv, TypeOK, Steps
  <2>3. Domains' /\ ReadWasValid'
    BY <1>2 DEF WriteOverlay, ThenRender, Inv, TypeOK, Domains, ReadWasValid
  <2>4. OverlayAccepted'
    BY <1>2, <2>1 DEF WriteOverlay, Inv, OverlayAccepted
  <2>5. QED
    BY <2>2, <2>3, <2>4 DEF Inv
<1>3. QED
  BY <1>1, <1>2

(* The steps of a command that handle weights, and those that bring services
   up, leave the overlay and what is about to be written alone. *)
LEMMA WeightsInv ==
  ASSUME Inv, NEW o \in Operators, Fetch(o) \/ Verify(o) \/ Unlink(o) \/ Remove(o)
  PROVE  Inv'
<1>1. TypeOK'
  <2>1. CASE Fetch(o)
    BY <2>1 DEF Fetch, Fails, UnchangedButWeights, Inv, TypeOK, Steps
  <2>2. CASE Verify(o)
    BY <2>2 DEF Verify, Fails, ThenRender, UnchangedButWeights, Inv, TypeOK, Steps
  <2>3. CASE Unlink(o)
    BY <2>3 DEF Unlink, Fails, UnchangedButWeights, Inv, TypeOK, Steps
  <2>4. CASE Remove(o)
    BY <2>4 DEF Remove, Fails, ThenRender, UnchangedButWeights, Inv, TypeOK, Steps
  <2>5. QED
    BY <2>1, <2>2, <2>3, <2>4
<1>2. \E step \in {"verify", "unlink", "failed", "render"} : pc' = [pc EXCEPT ![o] = step]
  BY DEF Fetch, Verify, Unlink, Remove, Fails, ThenRender
<1>3. Domains' /\ ReadWasValid' /\ OverlayAccepted'
  BY <1>2 DEF Fetch, Verify, Unlink, Remove, UnchangedButWeights, Inv, TypeOK, Domains,
       ReadWasValid, OverlayAccepted
<1>4. QED
  BY <1>1, <1>3 DEF Inv

LEMMA ComposeInv ==
  ASSUME Inv, NEW o \in Operators,
         \/ WriteCompose(o) \/ Recreate(o) \/ StartRouter(o) \/ StartGateway(o)
         \/ InitFailed(o)
  PROVE  Inv'
<1>1. TypeOK'
  <2>1. CASE WriteCompose(o)
    BY <2>1 DEF WriteCompose, Inv, TypeOK, Steps
  <2>2. CASE Recreate(o)
    BY <2>2 DEF Recreate, BringUp, Inv, TypeOK, Steps
  <2>3. CASE StartRouter(o)
    BY <2>3 DEF StartRouter, UnchangedButServices, Inv, TypeOK, Steps
  <2>4. CASE StartGateway(o)
    BY <2>4 DEF StartGateway, UnchangedButServices, Inv, TypeOK, Steps
  <2>5. CASE InitFailed(o)
    BY <2>5 DEF InitFailed, UnchangedButServices, Inv, TypeOK, Steps
  <2>6. QED
    BY <2>1, <2>2, <2>3, <2>4, <2>5
<1>2. \A x \in Operators : pc'[x] = "write" => pc[x] = "write"
  BY DEF WriteCompose, Recreate, BringUp, StartRouter, StartGateway, InitFailed,
       Inv, TypeOK, Domains
<1>3. UNCHANGED <<overlay, cmd, seen>>
  BY DEF WriteCompose, Recreate, StartRouter, StartGateway, InitFailed, UnchangedButServices
<1>4. Domains' /\ ReadWasValid' /\ OverlayAccepted'
  BY <1>2, <1>3 DEF Inv, Domains, ReadWasValid, OverlayAccepted
<1>5. QED
  BY <1>1, <1>4 DEF Inv

(* A renderer writes files only; it moves its own command on when it ends. *)
LEMMA RenderInv ==
  ASSUME Inv, NEW r \in Renderers, RenderStep(r)
  PROVE  Inv'
<1>1. UNCHANGED <<overlay, memory, weights, gateway, cmd, seen, started, crashes>>
  BY DEF RenderStep, RenderLoad, WriteIni, WriteCatalog, WriteMemory, Own, UnchangedButFiles
<1>2. TypeOK'
  <2>1. CASE RenderLoad(r)
    BY <1>1, <2>1 DEF RenderLoad, Inv, TypeOK
  <2>2. CASE WriteIni(r)
    BY <1>1, <2>2 DEF WriteIni, Inv, TypeOK
  <2>3. CASE WriteCatalog(r)
    BY <1>1, <2>3 DEF WriteCatalog, Inv, TypeOK
  <2>4. CASE WriteMemory(r)
    BY <1>1, <2>4 DEF WriteMemory, Inv, TypeOK
  <2>5. CASE Own(r)
    BY <1>1, <2>5 DEF Own, Inv, TypeOK, Steps
  <2>6. QED
    BY <2>1, <2>2, <2>3, <2>4, <2>5 DEF RenderStep
<1>3. \A x \in Operators : pc'[x] = "write" => pc[x] = "write"
  BY DEF RenderStep, RenderLoad, WriteIni, WriteCatalog, WriteMemory, Own, Inv, TypeOK
<1>4. Domains' /\ ReadWasValid' /\ OverlayAccepted'
  BY <1>1, <1>3 DEF Inv, Domains, ReadWasValid, OverlayAccepted
<1>5. QED
  BY <1>2, <1>4 DEF Inv

(* A service that starts, and whatever is killed. *)
LEMMA ServiceInv ==
  ASSUME Inv,
         GatewayStart \/ ServiceCrash \/ Reload \/ \E r \in Renderers : Crash(r)
  PROVE  Inv'
<1>1. UNCHANGED <<overlay, memory, owned, weights, cmd, seen, started>>
  BY DEF GatewayStart, ServiceCrash, Reload, Crash, UnchangedButServices
<1>2. TypeOK'
  <2>1. CASE GatewayStart
    BY <1>1, <2>1 DEF GatewayStart, UnchangedButServices, Inv, TypeOK
  <2>2. CASE ServiceCrash
    BY <1>1, <2>2 DEF ServiceCrash, Inv, TypeOK
  <2>3. CASE Reload
    BY <1>1, <2>3 DEF Reload, UnchangedButServices, Inv, TypeOK
  <2>4. CASE \E r \in Renderers : Crash(r)
    <3>1. PICK r \in Renderers : Crash(r)
      BY <2>4
    <3>2. QED
      BY <1>1, <3>1 DEF Crash, Inv, TypeOK, Steps
  <2>5. QED
    BY <2>1, <2>2, <2>3, <2>4
<1>3. \A x \in Operators : pc'[x] = "write" => pc[x] = "write"
  BY DEF GatewayStart, ServiceCrash, Reload, Crash, UnchangedButServices, Inv, TypeOK
<1>4. Domains' /\ ReadWasValid' /\ OverlayAccepted'
  BY <1>1, <1>3 DEF Inv, Domains, ReadWasValid, OverlayAccepted
<1>5. QED
  BY <1>2, <1>4 DEF Inv

(* Every step of the system is one of those above. *)
LEMMA StepInv == Inv /\ [Next]_vars => Inv'
<1>1. SUFFICES ASSUME Inv, Next PROVE Inv'
  BY StutterInv
<1>2. CASE \E o \in Operators : Start(o) \/ CommandStep(o)
  BY <1>1, <1>2, StartInv, OverlayInv, WeightsInv, ComposeInv DEF CommandStep
<1>3. CASE \E r \in Renderers : RenderStep(r)
  BY <1>1, <1>3, RenderInv
<1>4. CASE GatewayStart \/ ServiceCrash \/ Reload \/ \E r \in Renderers : Crash(r)
  BY <1>1, <1>4, ServiceInv
<1>5. QED
  BY <1>1, <1>2, <1>3, <1>4 DEF Next

(* What a command will write is acceptable, and so is what is written. *)
THEOREM InvariantHolds == Spec => []Inv
<1>1. QED
  BY InitInv, StepInv, PTL DEF Spec

(* The parts of the state keep their kind, and a renderer is at work exactly
   while its command renders. *)
THEOREM TypeCorrect == Spec => []TypeOK
<1>1. Inv => TypeOK
  BY DEF Inv
<1>2. QED
  BY <1>1, InvariantHolds, PTL

(* Any number of operators editing the catalog at once, and killed anywhere,
   leave an overlay that merges into a catalog the control plane can load. *)
THEOREM OverlayStaysAccepted == Spec => []OverlayAccepted
<1>1. Inv => OverlayAccepted
  BY DEF Inv
<1>2. QED
  BY <1>1, InvariantHolds, PTL


(* Until something is killed, weights that fail their checksum belong to a
   command that still has to hash them, or to unlink them. *)
LEMMA StartUnverified ==
  ASSUME Inv, UnverifiedOnlyWhileFetching, NEW o \in Operators, Start(o)
  PROVE  UnverifiedOnlyWhileFetching'
<1>1. PICK c \in Commands[o], step \in {"read", "fetch", "remove", "render"} :
         cmd' = [cmd EXCEPT ![o] = c] /\ pc' = [pc EXCEPT ![o] = step]
  BY DEF Start, FirstStep
<1>2. pc[o] \notin {"verify", "unlink"}
  BY DEF Start, Busy, Resting
<1>3. UNCHANGED <<weights, crashes>>
  BY DEF Start
<1>4. QED
  BY <1>1, <1>2, <1>3 DEF UnverifiedOnlyWhileFetching, Inv, TypeOK, Domains

LEMMA WeightsUnverified ==
  ASSUME Inv, UnverifiedOnlyWhileFetching, NEW o \in Operators,
         Fetch(o) \/ Verify(o) \/ Unlink(o) \/ Remove(o)
  PROVE  UnverifiedOnlyWhileFetching'
<1>1. UNCHANGED <<cmd, crashes>>
  BY DEF Fetch, Verify, Unlink, Remove, UnchangedButWeights
<1>2. CASE Fetch(o)
  BY <1>1, <1>2 DEF Fetch, Fails, UnverifiedOnlyWhileFetching, Inv, TypeOK, Steps
<1>3. CASE Verify(o)
  BY <1>1, <1>3 DEF Verify, Fails, ThenRender, UnverifiedOnlyWhileFetching, Inv, TypeOK, Steps
<1>4. CASE Unlink(o)
  BY <1>1, <1>4 DEF Unlink, Fails, UnverifiedOnlyWhileFetching, Inv, TypeOK, Steps
<1>5. CASE Remove(o)
  BY <1>1, <1>5 DEF Remove, Fails, ThenRender, UnverifiedOnlyWhileFetching, Inv, TypeOK, Steps
<1>6. QED
  BY <1>2, <1>3, <1>4, <1>5

(* The other steps leave weights alone and move no command out of its check,
   unless they kill it, which is counted. *)
LEMMA OtherUnverified ==
  ASSUME Inv, UnverifiedOnlyWhileFetching,
         \/ \E o \in Operators :
              \/ ReadOverlay(o) \/ WriteOverlay(o) \/ WriteCompose(o) \/ Recreate(o)
              \/ StartRouter(o) \/ StartGateway(o) \/ InitFailed(o)
         \/ \E r \in Renderers : RenderStep(r) \/ Crash(r)
         \/ GatewayStart \/ ServiceCrash \/ Reload
  PROVE  UnverifiedOnlyWhileFetching'
<1>1. UNCHANGED <<weights, cmd>>
  BY DEF ReadOverlay, WriteOverlay, WriteCompose, Recreate, StartRouter, StartGateway,
       InitFailed, RenderStep, RenderLoad, WriteIni, WriteCatalog, WriteMemory, Own, Crash,
       GatewayStart, ServiceCrash, Reload, UnchangedButFiles, UnchangedButServices
<1>2. CASE \E r \in Renderers : Crash(r)
  <2>1. crashes' # 0
    BY <1>2 DEF Crash, Inv, TypeOK
  <2>2. QED
    BY <2>1 DEF UnverifiedOnlyWhileFetching
<1>3. CASE ~\E r \in Renderers : Crash(r)
  <2>1. crashes' = 0 => crashes = 0
    BY <1>3 DEF ReadOverlay, WriteOverlay, WriteCompose, Recreate, StartRouter, StartGateway,
         InitFailed, RenderStep, RenderLoad, WriteIni, WriteCatalog, WriteMemory, Own,
         GatewayStart, ServiceCrash, Reload, UnchangedButFiles, UnchangedButServices,
         Inv, TypeOK
  <2>2. \A x \in Operators : pc[x] \in {"verify", "unlink"} => pc'[x] = pc[x]
    <3>1. CASE \E o \in Operators :
                 \/ ReadOverlay(o) \/ WriteOverlay(o) \/ WriteCompose(o) \/ Recreate(o)
                 \/ StartRouter(o) \/ StartGateway(o) \/ InitFailed(o)
      BY <3>1 DEF ReadOverlay, WriteOverlay, WriteCompose, Recreate, BringUp, StartRouter,
           StartGateway, InitFailed, ThenRender, UnchangedButServices, Inv, TypeOK
    <3>2. CASE \E r \in Renderers : RenderStep(r)
      BY <3>2 DEF RenderStep, RenderLoad, WriteIni, WriteCatalog, WriteMemory, Own, Inv, TypeOK
    <3>3. CASE GatewayStart \/ ServiceCrash \/ Reload
      BY <3>3 DEF GatewayStart, ServiceCrash, Reload, UnchangedButServices
    <3>4. QED
      BY <1>3, <3>1, <3>2, <3>3
  <2>3. QED
    BY <1>1, <2>1, <2>2 DEF UnverifiedOnlyWhileFetching
<1>4. QED
  BY <1>2, <1>3

(* Weights that fail their checksum do not stay, whatever the other operators
   fetch, verify, force and remove meanwhile. *)
THEOREM UnverifiedWeightsGo == Spec => []UnverifiedOnlyWhileFetching
<1>1. Init => UnverifiedOnlyWhileFetching
  BY DEF Init, UnverifiedOnlyWhileFetching
<1>2. Inv /\ UnverifiedOnlyWhileFetching /\ [Next]_vars => UnverifiedOnlyWhileFetching'
  <2>1. SUFFICES ASSUME Inv, UnverifiedOnlyWhileFetching, [Next]_vars
                 PROVE  UnverifiedOnlyWhileFetching'
    OBVIOUS
  <2>2. CASE UNCHANGED vars
    BY <2>1, <2>2 DEF vars, UnverifiedOnlyWhileFetching
  <2>3. CASE Next
    BY <2>1, <2>3, StartUnverified, WeightsUnverified, OtherUnverified DEF Next, CommandStep
  <2>4. QED
    BY <2>1, <2>2, <2>3
<1>3. QED
  BY <1>1, <1>2, InvariantHolds, PTL DEF Spec
=============================================================================
