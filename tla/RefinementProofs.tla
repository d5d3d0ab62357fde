-------------------------- MODULE RefinementProofs --------------------------
(***************************************************************************)
(* InferenceGateway implements ExclusiveBackend: every step of the gateway *)
(* is a step of the promise or leaves what the promise speaks of alone.    *)
(***************************************************************************)
EXTENDS ExclusionProofs

USE DEF Goto, callVars, planVars, cleanupVars, leaseVars, deployVars

Condemned == {m \in Models : status[m] = "stopping"}
Responses == {<<r, model[r]>> : r \in {c \in Calls : Serving(c)}}

(* A step that keeps the router's states and starts no response. *)
Shrinks ==
  /\ status' = status
  /\ \A q \in Calls : Serving(q)' => Serving(q) /\ model'[q] = model[q]

LEMMA ServingUnique ==
  ASSUME ExclusionInv, NEW q \in Calls, NEW r \in Calls, Serving(q), Serving(r)
  PROVE  q = r
<1>1. ASSUME NEW c \in Calls, Serving(c) PROVE Holding(c) /\ Live(gate[c])
  <2>1. pc[c] \in InLease /\ pc[c] # "idle"
    BY <1>1 DEF Serving, InLease
  <2>2. gate[c] \in Gates /\ client[gate[c]] # "unbuilt" /\ client[gate[c]] # "closed"
    BY <1>1, <2>1, BusyHolds DEF ExclusionInv, DeployInv, GateBuilt, Serving
  <2> QED  BY <2>1, <2>2, BusyHolds DEF Live, ExclusionInv, LeaseInv, TypeOK
<1> QED  BY <1>1, LiveHoldersExclude DEF ExclusionInv, DeployInv

(* A response that ends is an End of the promise. *)
LEMMA ShrinkStep ==
  ASSUME ExclusionInv, Shrinks
  PROVE  Exclusive!Next \/ UNCHANGED Exclusive!vars
<1>1. Resident' = Resident /\ Condemned' = Condemned
  BY DEF Shrinks, Resident, Condemned
<1>2. CASE \A q \in Calls : ~Serving(q)
  <2>1. Responses = {} /\ Responses' = {}
    BY <1>2 DEF Responses, Shrinks
  <2> QED  BY <1>1, <2>1 DEF Exclusive!vars, Condemned, Responses
<1>3. CASE \E q \in Calls : Serving(q)
  <2>1. PICK q \in Calls : Serving(q)
    BY <1>3
  <2>2. Responses = {<<q, model[q]>>}
    BY <2>1, ServingUnique DEF Responses
  <2>3. \A r \in Calls : Serving(r)' => r = q /\ model'[r] = model[q]
    BY <2>1, ServingUnique DEF Shrinks
  <2>4. CASE Serving(q)'
    <3>1. Responses' = {<<q, model[q]>>}
      BY <2>3, <2>4 DEF Responses
    <3> QED  BY <1>1, <2>2, <3>1 DEF Exclusive!vars, Condemned, Responses
  <2>5. CASE ~Serving(q)'
    <3>1. Responses' = {}
      BY <2>3, <2>5 DEF Responses
    <3> QED
      BY <1>1, <2>2, <3>1 DEF Exclusive!Next, Exclusive!End, Condemned, Responses
  <2> QED  BY <2>4, <2>5
<1> QED  BY <1>2, <1>3

----------------------------------------------------------------------------
(* The calls' own steps that only end responses, or have none. *)

LEMMA CallShrinks ==
  ASSUME ExclusionInv, NEW r \in Calls,
         \/ EnsureLoaded(r) \/ List(r) \/ ListMissing(r) \/ Relist(r) \/ SeeUnloaded(r)
         \/ SeeReady(r) \/ Respond(r) \/ EndOfStream(r) \/ Disconnect(r) \/ Abort(r)
  PROVE  Shrinks
<1> USE DEF ExclusionInv, LeaseInv, TypeOK
<1>1. status' = status /\ model' = model /\ gate' = gate /\ client' = client
  BY DEF EnsureLoaded, List, ListMissing, Relist, Decide, SeeUnloaded, SeeReady,
         Respond, EndOfStream, Disconnect, Abort
<1>2. \A q \in Calls : q # r => pc'[q] = pc[q]
  BY DEF EnsureLoaded, List, ListMissing, Relist, Decide, SeeUnloaded, SeeReady,
         Respond, EndOfStream, Disconnect, Abort
<1>3. pc'[r] \in {"generating", "streaming"} => pc[r] \in {"generating", "streaming"}
  BY DEF EnsureLoaded, List, ListMissing, Relist, Decide, SeeUnloaded, SeeReady,
         Respond, EndOfStream, Disconnect, Abort
<1> QED  BY <1>1, <1>2, <1>3 DEF Shrinks, Serving

LEMMA CleanupShrinks ==
  ASSUME ExclusionInv, NEW r \in Calls,
         Cleanup(r) \/ Capture(r) \/ Finish(r) \/ GiveUp(r)
  PROVE  Shrinks
<1> USE DEF ExclusionInv, LeaseInv, TypeOK
<1>1. status' = status /\ client' = client
  BY DEF Cleanup, CleanupEnter, CleanupSkip, CleanupLeave, Capture, Finish, GiveUp
<1>2. \A q \in Calls : pc'[q] \in {"generating", "streaming"} => pc'[q] = pc[q] /\ q # r
  <2>1. CASE CleanupLeave(r)
    <3>1. pc[r] \in Finishing
      BY <2>1 DEF CleanupLeave, CleanupOK
    <3>2. PICK W : pc' = [c \in Calls |-> IF c \in W THEN "leased"
                            ELSE IF c = r /\ closer[r] = "handler" THEN Cleaned(r)
                            ELSE pc[c]]
      BY <2>1 DEF CleanupLeave
    <3> QED  BY <3>1, <3>2 DEF Cleaned, Finishing
  <2>2. CASE \E who \in {"handler", "background"} : CleanupEnter(r, who) \/ CleanupSkip(r, who)
    BY <2>2 DEF CleanupEnter, CleanupSkip, Cleaned, MayClean
  <2>3. CASE Capture(r) \/ Finish(r) \/ GiveUp(r)
    BY <2>3 DEF Capture, Finish, GiveUp
  <2> QED  BY <2>1, <2>2, <2>3 DEF Cleanup
<1>3. \A q \in Calls : q # r => gate'[q] = gate[q] /\ model'[q] = model[q]
  BY DEF Cleanup, CleanupEnter, CleanupSkip, CleanupLeave, Capture, Finish, GiveUp
<1> QED  BY <1>1, <1>2, <1>3 DEF Shrinks, Serving

LEMMA ArrivalShrinks ==
  ASSUME ExclusionInv,
         \/ \E c \in Clients : Request(c)
         \/ \E w \in Workers : Extract(w) \/ ExtractUnroutable(w)
  PROVE  Shrinks
<1> USE Names DEF ExclusionInv, LeaseInv, TypeOK
<1>1. ASSUME NEW r \in Calls, NEW g \in Gates, NEW m \in Models, Acquire(r, g, m)
      PROVE  Shrinks
  <2>1. status' = status /\ client' = client
    BY <1>1 DEF Acquire
  <2>2. \A q \in Calls : q # r => gate'[q] = gate[q] /\ model'[q] = model[q] /\ pc'[q] = pc[q]
    BY <1>1 DEF Acquire
  <2>3. pc'[r] \in {"leased", "waiting"}
    BY <1>1 DEF Acquire
  <2> QED  BY <2>1, <2>2, <2>3 DEF Shrinks, Serving
<1>2. ASSUME NEW w \in Workers, ExtractUnroutable(w) PROVE Shrinks
  BY <1>2 DEF ExtractUnroutable, Shrinks, Serving
<1>3. ASSUME NEW c \in Clients, Request(c) PROVE Shrinks
  BY <1>1, <1>3 DEF Request
<1>4. ASSUME NEW w \in Workers, Extract(w) PROVE Shrinks
  BY <1>1, <1>4 DEF Extract
<1> QED  BY <1>2, <1>3, <1>4

LEMMA ReloadShrinks ==
  ASSUME ExclusionInv, NEW t \in Reloads,
         ReloadFinish(t) \/ \E w \in Workers : ReloadStart(t, w)
  PROVE  Shrinks
<1> USE Names DEF ExclusionInv, LeaseInv, TypeOK
<1>1. status' = status /\ model' = model /\ gate' = gate /\ pc' = pc
  BY DEF ReloadStart, ReloadFinish
<1>2. \A g \in Gates : client'[g] # "closed" => client[g] # "closed"
  <2>1. CASE ReloadFinish(t)
    BY <2>1 DEF ReloadFinish, Reloading
  <2>2. ASSUME NEW w \in Workers, ReloadStart(t, w)
        PROVE  \A g \in Gates : client'[g] # "closed" => client[g] # "closed"
    BY <2>2 DEF ReloadStart
  <2> QED  BY <2>1, <2>2
<1>3. ASSUME NEW q \in Calls, Serving(q)' PROVE Serving(q)
  <2>1. pc[q] \in {"generating", "streaming"}
    BY <1>1, <1>3 DEF Serving
  <2>2. gate[q] \in Gates
    BY <2>1, BusyHolds DEF InLease
  <2> QED  BY <1>1, <1>2, <1>3, <2>1, <2>2 DEF Serving
<1> QED  BY <1>1, <1>3 DEF Shrinks

----------------------------------------------------------------------------
(* Steps that change the card or start a response. *)

LEMMA NobodyServed ==
  ASSUME ExclusionInv, NEW r \in Calls, pc[r] \in {"unload", "send"}, Online(r)
  PROVE  Responses = {} /\ \A q \in Calls : ~Serving(q)
<1>1. \A q \in Calls : ~Serving(q)
  BY ServingIsAlone DEF Serving, InLease, Coordinating
<1> QED  BY <1>1 DEF Responses

LEMMA UnloadStep ==
  ASSUME ExclusionInv, NEW r \in Calls, PostUnload(r)
  PROVE  Exclusive!Next \/ UNCHANGED Exclusive!vars
<1> USE DEF ExclusionInv, LeaseInv, TypeOK
<1>1. Responses = {} /\ \A q \in Calls : ~Serving(q)
  BY NobodyServed DEF PostUnload
<1>2. Responses' = {}
  <2>1. \A q \in Calls : Serving(q)' => Serving(q)
    BY DEF PostUnload, Serving
  <2> QED  BY <1>1, <2>1 DEF Responses
<1>3. PICK m \in Models : m \in Resident /\ status' = [status EXCEPT ![m] = "stopping"]
  BY DEF PostUnload
<1>4. Resident' = Resident /\ Condemned' = Condemned \cup {m}
  BY <1>3 DEF Resident, Condemned
<1>5. CASE m \in Condemned
  BY <1>1, <1>2, <1>4, <1>5 DEF Exclusive!vars, Condemned, Responses
<1>6. CASE m \notin Condemned
  <2>1. Exclusive!Condemn(m)
    BY <1>1, <1>2, <1>3, <1>4, <1>6 DEF Exclusive!Condemn, Condemned, Responses
  <2> QED  BY <2>1 DEF Exclusive!Next
<1> QED  BY <1>5, <1>6

LEMMA LoadStep ==
  ASSUME ExclusionInv, NEW r \in Calls, PostLoad(r)
  PROVE  Exclusive!Next
<1> USE DEF ExclusionInv, LeaseInv, TypeOK
<1>1. Responses = {} /\ Resident = {}
  BY NobodyServed DEF PostLoad, PlanOK
<1>2. Responses' = {}
  <2>1. \A q \in Calls : Serving(q)' => Serving(q)
    BY DEF PostLoad, Serving
  <2>2. \A q \in Calls : ~Serving(q)
    BY NobodyServed DEF PostLoad
  <2> QED  BY <2>1, <2>2 DEF Responses
<1>3. model[r] \in Models
  BY BusyHolds DEF PostLoad, InLease, Coordinating
<1>4. status' = [status EXCEPT ![model[r]] = "loading"]
  BY DEF PostLoad
<1>5. Resident' = {model[r]} /\ Condemned' = Condemned
  BY <1>1, <1>3, <1>4 DEF Resident, Condemned
<1>6. Exclusive!Load(model[r])
  BY <1>1, <1>2, <1>5 DEF Exclusive!Load, Condemned, Responses
<1> QED  BY <1>3, <1>6 DEF Exclusive!Next

LEMMA SendStep ==
  ASSUME Deployment, ExclusionInv, NEW r \in Calls, Send(r)
  PROVE  Exclusive!Next
<1> USE DEF ExclusionInv, LeaseInv, TypeOK
<1>1. Responses = {} /\ \A q \in Calls : ~Serving(q)
  BY NobodyServed DEF Send
<1>2. gate[r] \in Explicit /\ model[r] \in Models
  BY BusyHolds DEF Send, InLease, Deployment
<1>3. Serving(r)' /\ model' = model /\ \A q \in Calls : Serving(q)' => q = r
  BY <1>1 DEF Send, Serving, Online
<1>4. Responses' = {<<r, model[r]>>}
  BY <1>3 DEF Responses
<1>5. status' = [status EXCEPT ![model[r]] = IF @ = "sleeping" THEN "loaded" ELSE @]
  BY <1>2 DEF Send
<1>6. Resident' = Resident /\ Condemned' = Condemned
  BY <1>2, <1>5 DEF Resident, Condemned
<1>7. PICK m \in Models : m = model[r]
  BY <1>2
<1>8. Exclusive!Begin(r, m)
  BY <1>1, <1>4, <1>6, <1>7 DEF Exclusive!Begin, Condemned, Responses
<1> QED  BY <1>8 DEF Exclusive!Next

LEMMA RouterSteps ==
  ASSUME ExclusionInv, NEW m \in Models, RouterStep(m)
  PROVE  Exclusive!Next \/ UNCHANGED Exclusive!vars
<1> USE DEF ExclusionInv, LeaseInv, TypeOK
<1>1. Responses' = Responses
  BY DEF RouterStep, Responses, Serving
<1>2. PICK s : /\ status' = [status EXCEPT ![m] = s]
               /\ \/ status[m] = "loading" /\ s \in {"loaded", "failed"}
                  \/ status[m] = "loaded" /\ s \in {"failed", "sleeping"}
                  \/ status[m] = "stopping" /\ s \in {"unloaded", "failed"}
  BY DEF RouterStep
<1>3. CASE s \in {"loaded", "sleeping"}
  <2>1. Resident' = Resident /\ Condemned' = Condemned
    BY <1>2, <1>3 DEF Resident, Condemned
  <2> QED  BY <1>1, <2>1 DEF Exclusive!vars, Condemned, Responses
<1>4. CASE s \in {"unloaded", "failed"}
  <2>1. m \in Resident /\ Resident' = Resident \ {m} /\ Condemned' = Condemned \ {m}
    BY <1>2, <1>4 DEF Resident, Condemned
  <2>2. Exclusive!Lose(m)
    BY <1>1, <2>1 DEF Exclusive!Lose, Condemned, Responses
  <2> QED  BY <2>2 DEF Exclusive!Next
<1> QED  BY <1>2, <1>3, <1>4

----------------------------------------------------------------------------
LEMMA PromiseInit == Init => Exclusive!Init
BY DEF Init, Exclusive!Init, Resident, Serving

LEMMA PromiseStep ==
  ASSUME Deployment, ExclusionInv, [Next]_vars
  PROVE  Exclusive!Next \/ UNCHANGED Exclusive!vars
<1>1. CASE UNCHANGED vars
  BY <1>1, ShrinkStep DEF vars, Shrinks, Serving
<1>2. ASSUME NEW r \in Calls, Progress(r) \/ GiveUp(r)
      PROVE  Exclusive!Next \/ UNCHANGED Exclusive!vars
  BY <1>2, CallShrinks, CleanupShrinks, ShrinkStep, UnloadStep, LoadStep, SendStep
     DEF Progress, Ensure
<1>3. ASSUME NEW c \in Clients, Request(c) \/ Disconnect(c)
      PROVE  Exclusive!Next \/ UNCHANGED Exclusive!vars
  BY <1>3, ArrivalShrinks, CallShrinks, ShrinkStep, Names
<1>4. ASSUME NEW w \in Workers, Extract(w) \/ ExtractUnroutable(w)
      PROVE  Exclusive!Next \/ UNCHANGED Exclusive!vars
  BY <1>4, ArrivalShrinks, ShrinkStep
<1>5. ASSUME NEW t \in Reloads, ReloadFinish(t) \/ \E w \in Workers : ReloadStart(t, w)
      PROVE  Exclusive!Next \/ UNCHANGED Exclusive!vars
  BY <1>5, ReloadShrinks, ShrinkStep
<1>6. ASSUME NEW m \in Models, RouterStep(m)
      PROVE  Exclusive!Next \/ UNCHANGED Exclusive!vars
  BY <1>6, RouterSteps
<1> QED  BY <1>1, <1>2, <1>3, <1>4, <1>5, <1>6 DEF Next

(* The gateway keeps the promise of ExclusiveBackend: with one process,     *)
(* explicit coordination and reloads that do not overlap, responses and     *)
(* changes of the resident model exclude each other, for any number of      *)
(* clients, reloads and models.                                             *)
THEOREM GatewayImplementsExclusive ==
  ASSUME Deployment PROVE Spec => ImplementsExclusive
<1>1. Init => Exclusive!Init
  BY PromiseInit
<1>2. ExclusionInv /\ [Next]_vars => [Exclusive!Next]_(Exclusive!vars)
  BY PromiseStep
<1>3. Spec => []ExclusionInv
  BY ExclusionInvariant
<1> QED  BY <1>1, <1>2, <1>3, PTL DEF Spec, ImplementsExclusive, Exclusive!Spec
=============================================================================
