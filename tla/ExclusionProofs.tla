--------------------------- MODULE ExclusionProofs ---------------------------
(***************************************************************************)
(* What the lease is for: with one gateway process, reloads that do not    *)
(* overlap and explicit coordination, the card holds one model at a time   *)
(* and no model is unloaded under a response.  For every set of clients,   *)
(* reloads and models.                                                     *)
(***************************************************************************)
EXTENDS InferenceGatewayProofs

USE DEF Goto, callVars, planVars, cleanupVars, leaseVars, deployVars

Deployment ==
  /\ \A v, w \in Workers : v = w
  /\ ~ReloadsOverlap
  /\ Explicit = Gates

Live(g) == client[g] \in {"open", "closing"}

(* One registry is live.  A reload that is under way is closing it, and     *)
(* between reloads it is the one the process uses.                          *)
OneLive == \A g, h \in Gates : Live(g) /\ Live(h) => g = h

ReloadOK ==
  /\ \A t, u \in Reloads : Reloading(t) /\ Reloading(u) => t = u
  /\ \A t \in Reloads : home[t] = None => client[t] = "unbuilt"
  /\ \A t \in Reloads : Reloading(t) =>
       shuts[t] \in Gates /\ client[shuts[t]] = "closing"
  /\ \A w \in Workers :
       /\ client[w] # "unbuilt" /\ client[backends[w]] # "unbuilt"
       /\ (\A t \in Reloads : ~Reloading(t)) => client[backends[w]] = "open"

(* No call has the registry of a reload that has not built it yet. *)
GateBuilt == \A r \in Calls : pc[r] # "idle" => client[gate[r]] # "unbuilt"

(* Until a coordinator pass orders its load, every running model is still   *)
(* on its list of models to unload.                                         *)
PlanOK ==
  \A r \in Calls : pc[r] \in {"unload", "unloading"} /\ Online(r) => Resident \subseteq todo[r]

DeployInv == OneLive /\ ReloadOK /\ GateBuilt

ExclusionInv == LeaseInv /\ DeployInv /\ PlanOK /\ OneResident

(* Two calls that hold leases of the live registry are one call. *)
LEMMA LiveHoldersExclude ==
  ASSUME LeaseInv, OneLive, NEW q \in Calls, NEW r \in Calls,
         Holding(q), Holding(r), Live(gate[q]), Live(gate[r])
  PROVE  q = r
<1>1. gate[q] \in Gates /\ gate[r] \in Gates
  BY DEF LeaseInv, RoutedOK, Holding, InLease, Coordinating, Finishing
<1> QED  BY <1>1 DEF OneLive, LeaseInv, LeaseCore, HoldersExclude

(* A call that is serving or coordinating holds its lease. *)
LEMMA BusyHolds ==
  ASSUME LeaseInv, NEW r \in Calls, pc[r] \in InLease
  PROVE  Holding(r) /\ cleanup[r] = "due" /\ gate[r] \in Gates /\ model[r] \in Models
BY DEF LeaseInv, CleanupOK, RoutedOK, Holding, InLease, Coordinating, Finishing

LEMMA ServingIsAlone ==
  ASSUME ExclusionInv, NEW q \in Calls, NEW r \in Calls, Serving(q), pc[r] \in InLease, Online(r)
  PROVE  q = r
<1>1. pc[q] \in InLease /\ pc[q] # "idle"
  BY DEF Serving, InLease
<1>2. Live(gate[q])
  <2>1. gate[q] \in Gates /\ client[gate[q]] # "unbuilt" /\ client[gate[q]] # "closed"
    BY <1>1, BusyHolds DEF ExclusionInv, DeployInv, GateBuilt, Serving
  <2> QED  BY <2>1 DEF Live, ExclusionInv, LeaseInv, TypeOK
<1>3. Live(gate[r])
  BY DEF Live, Online
<1> QED  BY <1>1, <1>2, <1>3, BusyHolds, LiveHoldersExclude DEF ExclusionInv, DeployInv

----------------------------------------------------------------------------
LEMMA ExclusionInit == Deployment /\ Init => ExclusionInv
<1> SUFFICES ASSUME Deployment, Init PROVE ExclusionInv
  OBVIOUS
<1> USE Names
<1>1. LeaseInv
  BY LeaseInit
<1>2. \A g \in Gates : client[g] = IF g \in Workers THEN "open" ELSE "unbuilt"
  BY DEF Init
<1>3. OneLive
  BY <1>2 DEF OneLive, Live, Deployment
<1>4. ReloadOK
  <2>1. \A t \in Reloads : ~Reloading(t) /\ t \notin Workers
    BY ConstantsAssumption DEF Init, Reloading
  <2>2. \A w \in Workers : client[w] = "open" /\ backends[w] = w
    BY <1>2 DEF Init
  <2> QED  BY <1>2, <2>1, <2>2 DEF ReloadOK
<1>5. GateBuilt /\ PlanOK /\ OneResident
  BY DEF Init, GateBuilt, PlanOK, OneResident, Resident
<1> QED  BY <1>1, <1>3, <1>4, <1>5 DEF ExclusionInv, DeployInv

(* What a reload does to the registries. *)
LEMMA DeployReload ==
  ASSUME Deployment, ExclusionInv, NEW t \in Reloads,
         ReloadFinish(t) \/ \E w \in Workers : ReloadStart(t, w)
  PROVE  DeployInv' /\ \A r \in Calls : (pc[r] # "idle" /\ Online(r)') => Online(r)
<1> USE Names DEF ExclusionInv, LeaseInv, TypeOK
<1>0. UNCHANGED <<pc, gate>>
  <2>1. CASE ReloadFinish(t)
    BY <2>1 DEF ReloadFinish
  <2>2. ASSUME NEW w \in Workers, ReloadStart(t, w) PROVE UNCHANGED <<pc, gate>>
    BY <2>2 DEF ReloadStart
  <2> QED  BY <2>1, <2>2
<1>1. ASSUME NEW w \in Workers, ReloadStart(t, w)
      PROVE  DeployInv' /\ \A r \in Calls : (pc[r] # "idle" /\ Online(r)') => Online(r)
  <2> DEFINE g == backends[w]
  <2>1. g \in Gates /\ client[g] = "open" /\ \A u \in Reloads : ~Reloading(u)
    BY <1>1 DEF ReloadStart, Deployment, DeployInv, ReloadOK
  <2>2. /\ client' = [client EXCEPT ![g] = "closing"]
        /\ shuts' = [shuts EXCEPT ![t] = g]
        /\ home' = [home EXCEPT ![t] = w] /\ UNCHANGED backends
    BY <1>1, <2>1 DEF ReloadStart
  <2> HIDE DEF g
  <2>3. OneLive'
    BY <2>1, <2>2 DEF DeployInv, OneLive, Live
  <2>4. \A u \in Reloads : u # t => (Reloading(u)' <=> Reloading(u))
    BY <2>1, <2>2 DEF Reloading
  <2>5. shuts'[t] = g /\ client'[g] = "closing"
    BY <2>1, <2>2
  <2>6. Reloading(t)'
    <3>1. client[t] = "unbuilt"
      BY <1>1 DEF DeployInv, ReloadOK, ReloadStart
    <3>2. t # g /\ client'[t] = "unbuilt"
      BY <2>1, <2>2, <3>1
    <3>3. home'[t] = w /\ w # None
      BY <2>2, ConstantsAssumption
    <3> QED  BY <3>2, <3>3 DEF Reloading
  <2>7. ReloadOK'
    <3>1. \A h \in Gates : client[h] # "unbuilt" <=> client'[h] # "unbuilt"
      BY <2>1, <2>2
    <3>2. \A u \in Reloads : Reloading(u)' => u = t
      BY <2>1, <2>4
    <3>3. \A u \in Reloads : home'[u] = None => client'[u] = "unbuilt"
      BY <2>2, <3>1, ConstantsAssumption DEF DeployInv, ReloadOK
    <3>4. \A v \in Workers : client'[v] # "unbuilt" /\ client'[backends'[v]] # "unbuilt"
      BY <2>2, <3>1 DEF DeployInv, ReloadOK
    <3> QED  BY <2>1, <2>5, <2>6, <3>2, <3>3, <3>4 DEF ReloadOK
  <2>8. GateBuilt'
    BY <1>0, <2>1, <2>2 DEF DeployInv, GateBuilt
  <2>9. \A r \in Calls : Online(r)' => Online(r)
    BY <1>0, <2>1, <2>2 DEF Online
  <2> QED  BY <2>3, <2>7, <2>8, <2>9 DEF DeployInv
<1>2. CASE ReloadFinish(t)
  <2>1. Reloading(t) /\ shuts[t] \in Gates /\ client[shuts[t]] = "closing" /\ client[t] = "unbuilt"
    BY <1>2 DEF ReloadFinish, Reloading, DeployInv, ReloadOK
  <2>2. /\ \A g \in Gates : client'[g] = IF g = t THEN "open"
                                        ELSE IF g = shuts[t] THEN "closed" ELSE client[g]
        /\ backends' = [backends EXCEPT ![home[t]] = t] /\ UNCHANGED <<home, shuts>>
    BY <1>2 DEF ReloadFinish
  <2>3. \A g \in Gates : g # t => ~Live(g)'
    BY <2>1, <2>2 DEF DeployInv, OneLive, Live
  <2>4. OneLive'
    BY <2>3 DEF OneLive
  <2>5. home[t] \in Workers /\ \A w \in Workers : backends'[w] = t
    BY <2>1, <2>2 DEF Reloading, Deployment
  <2>6. \A u \in Reloads : ~Reloading(u)'
    <3>1. ASSUME NEW u \in Reloads, Reloading(u)' PROVE FALSE
      <4>1. u # t /\ home[u] # None /\ client'[u] = "unbuilt"
        BY <2>2, <3>1 DEF Reloading
      <4>2. client[u] = "unbuilt"
        BY <2>2, <4>1
      <4>3. Reloading(u)
        BY <4>1, <4>2 DEF Reloading
      <4> QED  BY <2>1, <4>1, <4>3 DEF DeployInv, ReloadOK
    <3> QED  BY <3>1
  <2>7. ReloadOK'
    <3>1. \A h \in Gates : client[h] # "unbuilt" => client'[h] # "unbuilt"
      BY <2>2
    <3>2. ASSUME NEW u \in Reloads, home'[u] = None PROVE client'[u] = "unbuilt"
      <4>1. home[u] = None /\ client[u] = "unbuilt"
        BY <2>2, <3>2 DEF DeployInv, ReloadOK
      <4> QED  BY <2>1, <2>2, <4>1 DEF Reloading
    <3>3. \A w \in Workers : client'[w] # "unbuilt" /\ client'[backends'[w]] = "open"
      BY <2>2, <2>5, <3>1 DEF DeployInv, ReloadOK
    <3> QED  BY <2>6, <3>2, <3>3 DEF ReloadOK
  <2>8. GateBuilt'
    <3>1. ASSUME NEW r \in Calls, pc[r] # "idle"
          PROVE  gate[r] \in Gates /\ client[gate[r]] # "unbuilt"
      BY <3>1 DEF DeployInv, GateBuilt, RoutedOK
    <3>2. \A h \in Gates : client[h] # "unbuilt" => client'[h] # "unbuilt"
      BY <2>2
    <3> QED  BY <1>0, <3>1, <3>2 DEF GateBuilt
  <2>9. \A r \in Calls : (pc[r] # "idle" /\ Online(r)') => Online(r)
    BY ZenonT(30), <1>0, <2>1, <2>2 DEF Online, RoutedOK, DeployInv, GateBuilt
  <2> QED  BY <2>4, <2>7, <2>8, <2>9 DEF DeployInv
<1> QED  BY <1>1, <1>2

(* A step that builds no registry and brings no model onto the card, and    *)
(* after which every call that was clearing the card still has its plan.    *)
LEMMA QuietStep ==
  ASSUME ExclusionInv, UNCHANGED deployVars, Resident' \subseteq Resident,
         \A r \in Calls :
           /\ pc'[r] # "idle" => /\ client[gate'[r]] # "unbuilt"
           /\ pc'[r] \in {"unload", "unloading"} =>
                pc[r] \in {"unload", "unloading"} /\ gate'[r] = gate[r] /\ todo'[r] = todo[r]
  PROVE  DeployInv' /\ PlanOK' /\ OneResident'
<1>1. OneLive' /\ ReloadOK' /\ GateBuilt'
  BY DEF ExclusionInv, DeployInv, OneLive, ReloadOK, GateBuilt, Live, Reloading
<1>2. PlanOK'
  <2>1. ASSUME NEW r \in Calls, pc'[r] \in {"unload", "unloading"}, Online(r)'
        PROVE  Resident' \subseteq todo'[r]
    <3>1. pc[r] \in {"unload", "unloading"} /\ Online(r) /\ todo'[r] = todo[r]
      BY <2>1 DEF Online
    <3>2. Resident \subseteq todo[r]
      BY <3>1 DEF ExclusionInv, PlanOK
    <3> QED  BY <3>1, <3>2
  <2> QED  BY <2>1 DEF PlanOK
<1>3. OneResident'
  BY DEF ExclusionInv, OneResident
<1> QED  BY <1>1, <1>2, <1>3 DEF DeployInv

(* A call other than r that is clearing the card is not one that can act:   *)
(* if r is online and busy, nobody else is online and busy.                 *)
LEMMA PlannerIsAlone ==
  ASSUME ExclusionInv, NEW r \in Calls, pc[r] \in InLease, Online(r),
         NEW q \in Calls, pc[q] \in {"unload", "unloading"}, Online(q)
  PROVE  q = r
<1>1. Live(gate[r]) /\ Live(gate[q]) /\ pc[q] \in InLease
  BY DEF Live, Online, InLease, Coordinating
<1> QED  BY <1>1, BusyHolds, LiveHoldersExclude DEF ExclusionInv, DeployInv

(* Deciding from the statuses just listed. *)
LEMMA PlanDecide ==
  ASSUME ExclusionInv, NEW r \in Calls, pc[r] \in {"list", "relist"}, Online(r), Decide(r)
  PROVE  DeployInv' /\ PlanOK' /\ OneResident'
<1> USE DEF ExclusionInv, LeaseInv, TypeOK
<1>1. UNCHANGED <<gate, model, deployVars, status>>
  BY DEF Decide
<1>2. Resident' = Resident
  BY <1>1 DEF Resident
<1>3. OneLive' /\ ReloadOK' /\ OneResident'
  BY <1>1, <1>2 DEF DeployInv, OneLive, ReloadOK, OneResident, Live, Reloading
<1>4. \A q \in Calls : q # r => pc'[q] = pc[q] /\ todo'[q] = todo[q]
  BY DEF Decide
<1>5. GateBuilt'
  BY <1>1, <1>4 DEF DeployInv, GateBuilt
<1>6. pc'[r] = "unload" => todo'[r] = Resident
  BY DEF Decide, Resident, ReadsUnloaded
<1>7. pc'[r] # "unloading"
  BY DEF Decide
<1>8. PlanOK'
  <2>1. ASSUME NEW q \in Calls, pc'[q] \in {"unload", "unloading"}, Online(q)'
        PROVE  Resident \subseteq todo'[q]
    <3>1. CASE q = r
      BY <1>6, <1>7, <2>1, <3>1
    <3>2. CASE q # r
      <4>1. Online(q)
        BY <1>1, <2>1 DEF Online
      <4> QED  BY <1>4, <2>1, <3>2, <4>1 DEF PlanOK
    <3> QED  BY <3>1, <3>2
  <2> QED  BY <1>2, <2>1 DEF PlanOK
<1> QED  BY <1>3, <1>5, <1>8 DEF DeployInv

(* The load goes into an empty card. *)
LEMMA PlanLoad ==
  ASSUME ExclusionInv, NEW r \in Calls, PostLoad(r)
  PROVE  DeployInv' /\ PlanOK' /\ OneResident' /\ Resident = {}
<1> USE DEF ExclusionInv, LeaseInv, TypeOK
<1>1. /\ UNCHANGED <<gate, model, todo, deployVars>>
      /\ pc[r] = "unload" /\ Online(r) /\ todo[r] = {}
      /\ pc' = [pc EXCEPT ![r] = "loading"]
      /\ status' = [status EXCEPT ![model[r]] = "loading"]
  BY DEF PostLoad
<1>2. Resident = {}
  BY <1>1 DEF PlanOK
<1>3. \A m \in Resident' : m = model[r]
  BY <1>1, <1>2 DEF Resident
<1>4. OneResident'
  BY <1>1, <1>3 DEF OneResident
<1>5. OneLive' /\ ReloadOK' /\ GateBuilt'
  BY <1>1 DEF DeployInv, OneLive, ReloadOK, GateBuilt, Live, Reloading
<1>6. PlanOK'
  <2>1. ASSUME NEW q \in Calls, pc'[q] \in {"unload", "unloading"}, Online(q)' PROVE FALSE
    <3>1. q # r /\ pc[q] \in {"unload", "unloading"} /\ Online(q)
      BY <1>1, <2>1 DEF Online
    <3>2. pc[r] \in InLease
      BY <1>1 DEF InLease, Coordinating
    <3> QED  BY <1>1, <3>1, <3>2, PlannerIsAlone
  <2> QED  BY <2>1 DEF PlanOK
<1> QED  BY <1>2, <1>4, <1>5, <1>6 DEF DeployInv

(* Striking a model that has gone off the plan. *)
LEMMA PlanSeeUnloaded ==
  ASSUME ExclusionInv, NEW r \in Calls, SeeUnloaded(r)
  PROVE  DeployInv' /\ PlanOK' /\ OneResident'
<1> USE DEF ExclusionInv, LeaseInv, TypeOK
<1>1. /\ UNCHANGED <<gate, model, deployVars, status>>
      /\ pc[r] = "unloading" /\ Online(r) /\ victim[r] \notin Resident
      /\ pc' = [pc EXCEPT ![r] = "unload"]
      /\ todo' = [todo EXCEPT ![r] = @ \ {victim[r]}]
  BY DEF SeeUnloaded, Resident
<1>2. Resident' = Resident
  BY <1>1 DEF Resident
<1>3. OneResident' /\ OneLive' /\ ReloadOK' /\ GateBuilt'
  BY <1>1, <1>2 DEF OneResident, DeployInv, OneLive, ReloadOK, GateBuilt, Live, Reloading
<1>4. PlanOK'
  BY <1>1, <1>2 DEF PlanOK, Online
<1> QED  BY <1>3, <1>4 DEF DeployInv

(* Sending only ever wakes the model up when coordination is explicit. *)
LEMMA SendResident ==
  ASSUME Deployment, LeaseInv, NEW r \in Calls, Send(r)
  PROVE  Resident' = Resident
<1>0. gate[r] \in Gates /\ TypeOK
  BY BusyHolds DEF Send, InLease, LeaseInv
<1>1. \A m \in Models : \/ status'[m] = status[m]
                        \/ status[m] = "sleeping" /\ status'[m] = "loaded"
  <2> DEFINE next(s) == CASE s = "sleeping" -> "loaded"
                         [] s \in {"unloaded", "failed"} /\ gate[r] \notin Explicit -> "loading"
                         [] OTHER -> s
  <2>1. status' = [status EXCEPT ![model[r]] = next(@)]
    BY DEF Send
  <2>2. \A s : next(s) = IF s = "sleeping" THEN "loaded" ELSE s
    BY <1>0 DEF Deployment
  <2> HIDE DEF next
  <2>3. ASSUME NEW m \in Models
        PROVE  \/ status'[m] = status[m]
               \/ status[m] = "sleeping" /\ status'[m] = "loaded"
    BY <1>0, <2>1, <2>2 DEF TypeOK
  <2> QED  BY <2>3
<1> QED  BY <1>1 DEF Resident

LEMMA RouterResident ==
  ASSUME TypeOK, NEW m \in Models, RouterStep(m)
  PROVE  Resident' \subseteq Resident
<1>1. status[m] \in {"loading", "loaded", "stopping"} /\ \E s : status' = [status EXCEPT ![m] = s]
  BY DEF RouterStep, TypeOK
<1> QED  BY <1>1 DEF Resident, TypeOK

LEMMA ExclusionNext == Deployment /\ ExclusionInv /\ [Next]_vars => ExclusionInv'
<1> SUFFICES ASSUME Deployment, ExclusionInv, [Next]_vars
             PROVE  DeployInv' /\ PlanOK' /\ OneResident'
  BY LeaseNext DEF ExclusionInv
<1> USE Names
<1>0. /\ \A r \in Calls : pc[r] # "idle" => gate[r] \in Gates /\ client[gate[r]] # "unbuilt"
      /\ \A w \in Workers : client[w] # "unbuilt" /\ client[backends[w]] # "unbuilt"
      /\ TypeOK
  BY DEF ExclusionInv, LeaseInv, RoutedOK, DeployInv, GateBuilt, ReloadOK
<1>1. ASSUME NEW r \in Calls, NEW g \in Gates, NEW m \in Models, Acquire(r, g, m),
             client[g] # "unbuilt"
      PROVE  DeployInv' /\ PlanOK' /\ OneResident'
  <2>1. /\ UNCHANGED <<deployVars, status, todo>> /\ gate' = [gate EXCEPT ![r] = g]
        /\ \E to \in {"leased", "waiting"} : pc' = [pc EXCEPT ![r] = to]
    BY <1>1 DEF Acquire
  <2>2. Resident' = Resident
    BY <2>1 DEF Resident
  <2> QED  BY <1>0, <1>1, <2>1, <2>2, QuietStep DEF TypeOK
<1>2. ASSUME NEW c \in Clients, Request(c) PROVE DeployInv' /\ PlanOK' /\ OneResident'
  BY <1>0, <1>1, <1>2 DEF Request, TypeOK
<1>3. ASSUME NEW w \in Workers, Extract(w) PROVE DeployInv' /\ PlanOK' /\ OneResident'
  BY <1>0, <1>1, <1>3 DEF Extract
<1>4. ASSUME NEW r \in Calls, NEW to,
             pc' = [pc EXCEPT ![r] = to], pc[r] # "idle" \/ to = "idle",
             to \in {"unload", "unloading"} => pc[r] \in {"unload", "unloading"} /\ todo' = todo,
             \A q \in Calls : q # r => gate'[q] = gate[q] /\ todo'[q] = todo[q],
             to # "idle" => gate' = gate,
             UNCHANGED deployVars, Resident' \subseteq Resident
      PROVE  DeployInv' /\ PlanOK' /\ OneResident'
  BY <1>0, <1>4, QuietStep DEF TypeOK
<1>5. ASSUME NEW w \in Workers, ExtractUnroutable(w) PROVE DeployInv' /\ PlanOK' /\ OneResident'
  <2>1. UNCHANGED <<pc, gate, todo, status, deployVars>>
    BY <1>5 DEF ExtractUnroutable
  <2> QED  BY <1>0, <2>1, QuietStep DEF Resident
<1>6. ASSUME NEW r \in Calls, GiveUp(r) \/ Finish(r) PROVE DeployInv' /\ PlanOK' /\ OneResident'
  <2>1. /\ pc' = [pc EXCEPT ![r] = "idle"] /\ gate' = [gate EXCEPT ![r] = None]
        /\ UNCHANGED <<todo, status, deployVars>>
    BY <1>6 DEF GiveUp, Finish
  <2>2. Resident' = Resident
    BY <2>1 DEF Resident
  <2> QED  BY <1>0, <1>4, <2>1, <2>2 DEF TypeOK
<1>7. ASSUME NEW r \in Calls, Ensure(r) PROVE DeployInv' /\ PlanOK' /\ OneResident'
  <2>1. CASE EnsureLoaded(r)
    <3>1. /\ UNCHANGED <<gate, todo, status, deployVars>> /\ pc[r] # "idle"
          /\ \E to \in {"send", "list"} : pc' = [pc EXCEPT ![r] = to]
      BY <2>1 DEF EnsureLoaded
    <3> QED  BY <1>4, <3>1 DEF Resident
  <2>2. CASE List(r)
    BY <2>2, PlanDecide DEF List
  <2>3. CASE ListMissing(r)
    BY <2>3, <1>4 DEF ListMissing, Resident
  <2>4. CASE Relist(r)
    BY <2>4, PlanDecide DEF Relist
  <2>5. CASE PostUnload(r)
    <3>1. /\ UNCHANGED <<gate, todo, deployVars>> /\ pc[r] = "unload"
          /\ pc' = [pc EXCEPT ![r] = "unloading"]
          /\ \E m \in Resident : status' = [status EXCEPT ![m] = "stopping"]
      BY <2>5 DEF PostUnload
    <3>2. Resident' \subseteq Resident
      BY <1>0, <3>1 DEF Resident, TypeOK
    <3> QED  BY <1>4, <3>1, <3>2
  <2>6. CASE SeeUnloaded(r)
    BY <2>6, PlanSeeUnloaded
  <2>7. CASE PostLoad(r)
    BY <2>7, PlanLoad
  <2>8. CASE SeeReady(r)
    BY <2>8, <1>4 DEF SeeReady, Resident
  <2> QED  BY <1>7, <2>1, <2>2, <2>3, <2>4, <2>5, <2>6, <2>7, <2>8 DEF Ensure
<1>8. ASSUME NEW r \in Calls, Send(r) PROVE DeployInv' /\ PlanOK' /\ OneResident'
  <2>1. Resident' = Resident
    BY <1>8, SendResident DEF ExclusionInv
  <2> QED  BY <1>0, <1>4, <1>8, <2>1 DEF Send
<1>9. ASSUME NEW r \in Calls,
             Respond(r) \/ EndOfStream(r) \/ Disconnect(r) \/ Abort(r) \/ Capture(r)
      PROVE  DeployInv' /\ PlanOK' /\ OneResident'
  <2>1. /\ UNCHANGED <<gate, status, deployVars>> /\ pc[r] # "idle"
        /\ \A q \in Calls : q # r => todo'[q] = todo[q]
        /\ \E to \in {"cleanup", "complete", "streaming", "end"} : pc' = [pc EXCEPT ![r] = to]
    BY <1>0, <1>9 DEF Respond, EndOfStream, Disconnect, Abort, Capture, TypeOK,
                      InLease, Coordinating
  <2>2. PICK to \in {"cleanup", "complete", "streaming", "end"} : pc' = [pc EXCEPT ![r] = to]
    BY <2>1
  <2>3. Resident' = Resident
    BY <2>1 DEF Resident
  <2> QED  BY <1>4, <2>1, <2>2, <2>3
<1>10. ASSUME NEW r \in Calls, Cleanup(r) PROVE DeployInv' /\ PlanOK' /\ OneResident'
  <2>1. UNCHANGED <<gate, todo, status, deployVars>>
    BY <1>10 DEF Cleanup, CleanupEnter, CleanupSkip, CleanupLeave
  <2>2. \A q \in Calls : /\ pc'[q] # "idle" => pc[q] # "idle"
                         /\ pc'[q] \in {"unload", "unloading"} => pc'[q] = pc[q]
    <3>1. CASE CleanupLeave(r)
      <4>1. cleanup[r] = "running" /\ gate[r] \in Gates
        BY <3>1 DEF CleanupLeave, ExclusionInv, LeaseInv, CleanupOK, RoutedOK, Finishing
      <4>2. \A q \in Woken(gate[r]) : pc[q] = "waiting"
        <5>1. ASSUME waiters[gate[r]] # <<>> PROVE pc[Head(waiters[gate[r]])] = "waiting"
          <6>1. /\ waiters[gate[r]] \in Seq(Calls)
                /\ Head(waiters[gate[r]]) = waiters[gate[r]][1] /\ 1 \in 1..Len(waiters[gate[r]])
            BY <1>0, <4>1, <5>1 DEF TypeOK
          <6> QED  BY <4>1, <6>1 DEF ExclusionInv, LeaseInv, LeaseCore, QueueSound
        <5> QED  BY <5>1 DEF Woken
      <4>3. Cleaned(r) \in {"capture", "end"} /\ pc[r] # "idle"
        BY <4>1 DEF Cleaned, ExclusionInv, LeaseInv, CleanupOK, Finishing
      <4>4. pc' = [c \in Calls |-> IF c \in Woken(gate[r]) THEN "leased"
                                  ELSE IF c = r /\ closer[r] = "handler" THEN Cleaned(r)
                                  ELSE pc[c]]
        BY <3>1 DEF CleanupLeave
      <4> QED  BY <4>2, <4>3, <4>4
    <3>2. ASSUME NEW who \in {"handler", "background"}, CleanupEnter(r, who) \/ CleanupSkip(r, who)
          PROVE  \A q \in Calls : /\ pc'[q] # "idle" => pc[q] # "idle"
                                  /\ pc'[q] \in {"unload", "unloading"} => pc'[q] = pc[q]
      BY <1>0, <3>2 DEF CleanupEnter, CleanupSkip, MayClean, Cleaned, TypeOK
    <3> QED  BY <1>10, <3>1, <3>2 DEF Cleanup
  <2>3. Resident' = Resident
    BY <2>1 DEF Resident
  <2> QED  BY <1>0, <2>1, <2>2, <2>3, QuietStep
<1>11. ASSUME NEW t \in Reloads, ReloadFinish(t) \/ \E w \in Workers : ReloadStart(t, w)
       PROVE  DeployInv' /\ PlanOK' /\ OneResident'
  <2>1. DeployInv' /\ \A r \in Calls : (pc[r] # "idle" /\ Online(r)') => Online(r)
    BY <1>11, DeployReload
  <2>2. UNCHANGED <<pc, gate, todo, status>>
    <3>1. CASE ReloadFinish(t)
      BY <3>1 DEF ReloadFinish
    <3>2. ASSUME NEW w \in Workers, ReloadStart(t, w) PROVE UNCHANGED <<pc, gate, todo, status>>
      BY <3>2 DEF ReloadStart
    <3> QED  BY <1>11, <3>1, <3>2
  <2>3. Resident' = Resident
    BY <2>2 DEF Resident
  <2>4. PlanOK' /\ OneResident'
    BY <2>1, <2>2, <2>3 DEF ExclusionInv, PlanOK, OneResident
  <2> QED  BY <2>1, <2>4
<1>12. ASSUME NEW m \in Models, RouterStep(m) PROVE DeployInv' /\ PlanOK' /\ OneResident'
  <2>1. UNCHANGED <<pc, gate, todo, deployVars>>
    BY <1>12 DEF RouterStep
  <2> QED  BY <1>0, <1>12, <2>1, QuietStep, RouterResident
<1>13. CASE UNCHANGED vars
  <2>1. UNCHANGED <<pc, gate, todo, status, deployVars>>
    BY <1>13 DEF vars
  <2> QED  BY <1>0, <2>1, QuietStep DEF Resident
<1> QED
  BY <1>2, <1>3, <1>5, <1>6, <1>7, <1>8, <1>9, <1>10, <1>11, <1>12, <1>13 DEF Next, Progress

LEMMA ExclusionInvariant ==
  ASSUME Deployment PROVE Spec => []ExclusionInv
<1>1. Init => ExclusionInv
  BY ExclusionInit
<1>2. ExclusionInv /\ [Next]_vars => ExclusionInv'
  BY ExclusionNext
<1> QED  BY <1>1, <1>2, PTL DEF Spec

(* With one process, explicit coordination and reloads that do not overlap, *)
(* at most one model is ever on the card, however often calls fail, time    *)
(* out, are cancelled or cut off by a reload in the middle of a swap.       *)
THEOREM OneModelResident ==
  ASSUME Deployment PROVE Spec => []OneResident
<1>1. ExclusionInv => OneResident
  BY DEF ExclusionInv
<1> QED  BY <1>1, ExclusionInvariant, PTL

(* Under the same deployment no unload is ever ordered for a model another  *)
(* call has an open response on.                                            *)
THEOREM UnloadsSpareResponses ==
  ASSUME Deployment PROVE Spec => NoUnloadInUse
<1> DEFINE Spares ==
      \A m \in Models :
        status[m] # "stopping" /\ status'[m] = "stopping" =>
          \A r \in Calls : Serving(r) => model[r] # m
<1>1. ASSUME ExclusionInv, [Next]_vars PROVE [Spares]_vars
  <2> SUFFICES ASSUME NEW m \in Models, status[m] # "stopping", status'[m] = "stopping",
                      NEW q \in Calls, Serving(q), vars' # vars
               PROVE  model[q] # m
    OBVIOUS
  <2>0. status' # status
    OBVIOUS
  <2>1. TypeOK /\ status' # status
    BY <1>1, <2>0 DEF ExclusionInv, LeaseInv
  <2>2. ASSUME NEW r \in Calls, PostUnload(r) PROVE model[q] # m
    <3>1. pc[r] = "unload" /\ Online(r) /\ pc[r] \in InLease
      BY <2>2 DEF PostUnload, InLease, Coordinating
    <3>2. q = r
      BY <1>1, <3>1, ServingIsAlone
    <3> QED  BY <2>1, <2>2, <3>2 DEF PostUnload, Serving, TypeOK
  <2>3. ASSUME NEW r \in Calls, PostLoad(r) \/ Send(r) PROVE FALSE
    BY <2>1, <2>3 DEF PostLoad, Send, TypeOK
  <2>4. ASSUME NEW n \in Models, RouterStep(n) PROVE FALSE
    BY <2>1, <2>4 DEF RouterStep, TypeOK
  <2>5. ASSUME NEW r \in Calls,
               EnsureLoaded(r) \/ List(r) \/ ListMissing(r) \/ Relist(r) \/ SeeUnloaded(r)
               \/ SeeReady(r) \/ Respond(r) \/ EndOfStream(r) \/ Disconnect(r) \/ Abort(r)
               \/ Cleanup(r) \/ Capture(r) \/ Finish(r) \/ GiveUp(r)
        PROVE  FALSE
    BY <2>1, <2>5 DEF EnsureLoaded, List, ListMissing, Relist, Decide, SeeUnloaded, SeeReady,
                      Respond, EndOfStream, Disconnect, Abort, Cleanup, CleanupEnter,
                      CleanupSkip, CleanupLeave, Capture, Finish, GiveUp
  <2>6. ASSUME NEW w \in Workers, Extract(w) \/ ExtractUnroutable(w) PROVE FALSE
    BY <2>1, <2>6 DEF Extract, ExtractUnroutable, Acquire
  <2>7. ASSUME NEW c \in Clients, Request(c) PROVE FALSE
    BY <2>1, <2>7 DEF Request, Acquire
  <2>8. ASSUME NEW t \in Reloads, NEW w \in Workers, ReloadStart(t, w) \/ ReloadFinish(t) PROVE FALSE
    BY <2>1, <2>8 DEF ReloadStart, ReloadFinish
  <2>9. ASSUME NEW t \in Reloads, ReloadFinish(t) PROVE FALSE
    BY <2>1, <2>9 DEF ReloadFinish
  <2>10. Next
    BY <1>1
  <2> QED
    BY <2>2, <2>3, <2>4, <2>5, <2>6, <2>7, <2>8, <2>9, <2>10, Names DEF Next, Progress, Ensure
<1>2. Spec => [][ExclusionInv /\ [Next]_vars]_vars
  BY ExclusionInvariant, PTL DEF Spec
<1> QED  BY <1>1, <1>2, ExclusionInvariant, PTL DEF Spec, NoUnloadInUse
============================================================================
