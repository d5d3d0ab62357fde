----------------------- MODULE InferenceGatewayProofs -----------------------
(***************************************************************************)
(* Theorems about InferenceGateway, for every set of clients, processes,   *)
(* reloads and models.                                                     *)
(***************************************************************************)
EXTENDS InferenceGateway, SequenceTheorems, TLAPS

USE DEF Goto, callVars, planVars, cleanupVars, leaseVars, deployVars

LEMMA Names ==
  /\ \A c \in Clients : c \in Calls
  /\ \A w \in Workers : w \in Calls /\ w \in Gates
  /\ \A t \in Reloads : t \in Gates
BY DEF Calls, Gates

LEMMA States ==
  /\ "idle" \in CallStates /\ "waiting" \in CallStates /\ "leased" \in CallStates
  /\ "list" \in CallStates /\ "relist" \in CallStates /\ "unload" \in CallStates
  /\ "unloading" \in CallStates /\ "loading" \in CallStates /\ "send" \in CallStates
  /\ "generating" \in CallStates /\ "streaming" \in CallStates /\ "cleanup" \in CallStates
  /\ "complete" \in CallStates /\ "capture" \in CallStates /\ "end" \in CallStates
BY DEF CallStates, InLease, Coordinating, Finishing

(* Dropping the i-th element of a queue: what is left, and in which order. *)
LEMMA RemoveAtProperties ==
  ASSUME NEW S, NEW s \in Seq(S), NEW i \in 1..Len(s)
  PROVE  /\ RemoveAt(s, i) \in Seq(S)
         /\ Len(RemoveAt(s, i)) = Len(s) - 1
         /\ \A k \in 1..(Len(s) - 1) :
              RemoveAt(s, i)[k] = IF k < i THEN s[k] ELSE s[k + 1]
<1> DEFINE front == SubSeq(s, 1, i - 1)
           back == SubSeq(s, i + 1, Len(s))
<1>1. Len(s) \in Nat /\ \A k \in 1..Len(s) : s[k] \in S
  OBVIOUS
<1>2. /\ front \in Seq(S) /\ Len(front) = i - 1
      /\ \A k \in 1..(i - 1) : front[k] = s[k]
  BY <1>1, SubSeqProperties
<1>3. /\ back \in Seq(S) /\ Len(back) = Len(s) - i
      /\ \A k \in 1..(Len(s) - i) : back[k] = s[k + i]
  <2>1. \A k \in (i + 1)..Len(s) : s[k] \in S
    BY <1>1
  <2> QED  BY <1>1, <2>1, SubSeqProperties
<1>4. /\ front \o back \in Seq(S) /\ Len(front \o back) = Len(front) + Len(back)
      /\ \A k \in 1..(Len(front) + Len(back)) :
           (front \o back)[k] = IF k <= Len(front) THEN front[k] ELSE back[k - Len(front)]
  BY <1>2, <1>3, ConcatProperties
<1>5. RemoveAt(s, i) = front \o back
  BY DEF RemoveAt
<1> HIDE DEF front, back
<1>6. ASSUME NEW k \in 1..(Len(s) - 1)
      PROVE  RemoveAt(s, i)[k] = IF k < i THEN s[k] ELSE s[k + 1]
  <2>1. k \in 1..(Len(front) + Len(back))
    BY <1>1, <1>2, <1>3
  <2>2. CASE k < i
    <3>1. RemoveAt(s, i)[k] = front[k]
      BY <1>1, <1>2, <1>4, <1>5, <2>1, <2>2
    <3> QED  BY <1>1, <1>2, <2>2, <3>1
  <2>3. CASE ~(k < i)
    <3>1. k - (i - 1) \in 1..(Len(s) - i) /\ k - (i - 1) + i = k + 1
      BY <1>1, <2>3
    <3>2. RemoveAt(s, i)[k] = back[k - (i - 1)]
      BY <1>1, <1>2, <1>4, <1>5, <2>1, <2>3
    <3> QED  BY <1>1, <1>3, <2>3, <3>1, <3>2
  <2> QED  BY <2>2, <2>3
<1>7. RemoveAt(s, i) \in Seq(S)
  BY <1>4, <1>5
<1>8. Len(RemoveAt(s, i)) = Len(s) - 1
  <2>1. Len(RemoveAt(s, i)) = (i - 1) + (Len(s) - i)
    BY <1>2, <1>3, <1>4, <1>5
  <2> QED  BY <1>1, <2>1
<1> QED  BY <1>6, <1>7, <1>8

----------------------------------------------------------------------------
(* Typing *)

LEMMA TypeInit == Init => TypeOK
<1> SUFFICES ASSUME Init PROVE TypeOK
  OBVIOUS
<1> USE Names, States DEF Init
<1>1. waiters \in [Gates -> Seq(Calls)] /\ permits \in [Gates -> Nat]
  OBVIOUS
<1>2. client \in [Gates -> {"unbuilt", "open", "closing", "closed"}]
  OBVIOUS
<1>3. queued \in [Workers -> 0..QueueSize]
  BY ConstantsAssumption
<1>4. pc \in [Calls -> CallStates]
  OBVIOUS
<1> QED  BY <1>1, <1>2, <1>3, <1>4 DEF TypeOK

LEMMA TypeNext == TypeOK /\ [Next]_vars => TypeOK'
<1> SUFFICES ASSUME TypeOK, [Next]_vars PROVE TypeOK'
  OBVIOUS
<1> USE Names, States DEF TypeOK
<1>1. ASSUME NEW r \in Calls, NEW g \in Gates, NEW m \in Models, Acquire(r, g, m)
      PROVE  /\ pc' \in [Calls -> CallStates]
             /\ gate' \in [Calls -> Gates \cup {None}]
             /\ model' \in [Calls -> Models \cup {None}]
             /\ permits' \in [Gates -> Nat]
             /\ waiters' \in [Gates -> Seq(Calls)]
             /\ UNCHANGED <<planVars, cleanupVars, lock, deployVars, status>>
  <2>1. pc' = [pc EXCEPT ![r] = "leased"] \/ pc' = [pc EXCEPT ![r] = "waiting"]
    BY <1>1 DEF Acquire
  <2>2. \/ permits' = permits
        \/ permits' = [permits EXCEPT ![g] = @ - 1] /\ permits[g] > 0
    BY <1>1 DEF Acquire
  <2>3. \/ waiters' = waiters
        \/ waiters' = [waiters EXCEPT ![g] = Append(@, r)]
    BY <1>1 DEF Acquire
  <2>4. gate' \in [Calls -> Gates \cup {None}] /\ model' \in [Calls -> Models \cup {None}]
    BY <1>1 DEF Acquire
  <2>5. pc' \in [Calls -> CallStates]  BY <2>1
  <2>6. permits' \in [Gates -> Nat]  BY <2>2
  <2>7. waiters' \in [Gates -> Seq(Calls)]
    <3>1. Append(waiters[g], r) \in Seq(Calls)
      OBVIOUS
    <3>2. [waiters EXCEPT ![g] = Append(@, r)] \in [Gates -> Seq(Calls)]
      BY <3>1
    <3> QED  BY <2>3, <3>2
  <2> QED  BY <1>1, <2>4, <2>5, <2>6, <2>7 DEF Acquire
<1>2. ASSUME NEW c \in Clients, Request(c) PROVE TypeOK'
  BY <1>1, <1>2 DEF Request
<1>3. ASSUME NEW w \in Workers, Extract(w) PROVE TypeOK'
  <2>1. queued' \in [Workers -> 0..QueueSize]
    BY <1>3, ConstantsAssumption DEF Extract
  <2> QED  BY <1>1, <1>3, <2>1 DEF Extract
<1>4. ASSUME NEW w \in Workers, ExtractUnroutable(w) PROVE TypeOK'
  BY <1>4, ConstantsAssumption DEF ExtractUnroutable
<1>5. ASSUME NEW r \in Calls, GiveUp(r) PROVE TypeOK'
  <2>1. PICK i \in DOMAIN waiters[gate[r]] :
          waiters' = [waiters EXCEPT ![gate[r]] = RemoveAt(@, i)]
    BY <1>5 DEF GiveUp
  <2>2. waiters' \in [Gates -> Seq(Calls)]
    <3>1. CASE gate[r] \in Gates
      BY <2>1, <3>1, RemoveAtProperties
    <3>2. CASE gate[r] \notin Gates
      BY <2>1, <3>2
    <3> QED  BY <3>1, <3>2
  <2> QED  BY <1>5, <2>2 DEF GiveUp
<1>6. ASSUME NEW r \in Calls, Ensure(r) PROVE TypeOK'
  <2>1. CASE EnsureLoaded(r)
    <3>1. pc' = [pc EXCEPT ![r] = "send"] \/ pc' = [pc EXCEPT ![r] = "list"]
      BY <2>1 DEF EnsureLoaded
    <3>2. lock' = lock \/ lock' = [lock EXCEPT ![gate[r]] = r]
      BY <2>1 DEF EnsureLoaded
    <3>3. pc' \in [Calls -> CallStates]  BY <3>1
    <3>4. lock' \in [Gates -> Calls \cup {None}]  BY <3>2
    <3> QED  BY <2>1, <3>3, <3>4 DEF EnsureLoaded
  <2>0. ASSUME Decide(r) PROVE TypeOK'
    <3>1. pc' \in [Calls -> CallStates]  BY ZenonT(30), <2>0 DEF Decide
    <3>2. lock' \in [Gates -> Calls \cup {None}]  BY <2>0 DEF Decide
    <3>3. todo' \in [Calls -> SUBSET Models]  BY <2>0 DEF Decide, Resident
    <3> QED  BY <2>0, <3>1, <3>2, <3>3 DEF Decide
  <2>2. CASE List(r)  BY <2>0, <2>2 DEF List
  <2>3. CASE ListMissing(r)  BY <2>3 DEF ListMissing
  <2>4. CASE Relist(r)  BY <2>0, <2>4 DEF Relist
  <2>5. CASE PostUnload(r)  BY <2>5 DEF PostUnload, Resident
  <2>6. CASE SeeUnloaded(r)  BY <2>6 DEF SeeUnloaded
  <2>7. CASE PostLoad(r)  BY <2>7 DEF PostLoad
  <2>8. CASE SeeReady(r)  BY <2>8 DEF SeeReady
  <2> QED  BY <1>6, <2>1, <2>2, <2>3, <2>4, <2>5, <2>6, <2>7, <2>8 DEF Ensure
<1>7. ASSUME NEW r \in Calls, Send(r) PROVE TypeOK'
  BY <1>7 DEF Send
<1>8. ASSUME NEW r \in Calls, Respond(r) PROVE TypeOK'
  BY <1>8 DEF Respond
<1>9. ASSUME NEW r \in Calls, EndOfStream(r) \/ Disconnect(r) PROVE TypeOK'
  <2>1. \E to \in CallStates : pc' = [pc EXCEPT ![r] = to]
    BY <1>9 DEF EndOfStream, Disconnect
  <2> QED  BY ZenonT(30), <1>9, <2>1 DEF EndOfStream, Disconnect
<1>10. ASSUME NEW r \in Calls, Abort(r) PROVE TypeOK'
  BY <1>10 DEF Abort
<1>11. ASSUME NEW r \in Calls, Cleanup(r) PROVE TypeOK'
  <2>1. CASE CleanupLeave(r)
    <3>1. pc' \in [Calls -> CallStates]
      BY <2>1 DEF CleanupLeave, Cleaned
    <3>2. waiters' \in [Gates -> Seq(Calls)]
      <4>1. CASE Woken(gate[r]) = {}  BY <2>1, <4>1 DEF CleanupLeave
      <4>2. CASE Woken(gate[r]) # {}
        <5>1. waiters' = [waiters EXCEPT ![gate[r]] = Tail(@)] /\ waiters[gate[r]] # <<>>
          BY <2>1, <4>2 DEF CleanupLeave, Woken
        <5>2. gate[r] \in Gates => Tail(waiters[gate[r]]) \in Seq(Calls)
          BY <5>1, HeadTailProperties
        <5> QED  BY <5>1, <5>2
      <4> QED  BY <4>1, <4>2
    <3>3. permits' = permits \/ permits' = [permits EXCEPT ![gate[r]] = @ + 1]
      BY <2>1 DEF CleanupLeave
    <3>4. cleanup' \in [Calls -> {"due", "running", "done"}]
      BY <2>1 DEF CleanupLeave
    <3>5. bg' \in [Calls -> BOOLEAN]
      BY <2>1, Zenon DEF CleanupLeave
    <3> QED  BY <2>1, <3>1, <3>2, <3>3, <3>4, <3>5 DEF CleanupLeave
  <2>2. ASSUME NEW who \in {"handler", "background"}, CleanupEnter(r, who) PROVE TypeOK'
    BY <2>2 DEF CleanupEnter
  <2>3. ASSUME NEW who \in {"handler", "background"}, CleanupSkip(r, who) PROVE TypeOK'
    BY ZenonT(30), <2>3 DEF CleanupSkip, Cleaned
  <2> QED  BY <1>11, <2>1, <2>2, <2>3 DEF Cleanup
<1>12. ASSUME NEW r \in Calls, Capture(r) PROVE TypeOK'
  <2>1. pc' \in [Calls -> CallStates]
    BY <1>12 DEF Capture
  <2>2. queued' \in [Workers -> 0..QueueSize]
    <3>1. CASE UNCHANGED queued  BY <3>1
    <3>2. CASE ~UNCHANGED queued
      <4> DEFINE w == ProcessOf(gate[r])
      <4>1. queued[w] < QueueSize /\ queued' = [queued EXCEPT ![w] = @ + 1]
        BY <1>12, <3>2 DEF Capture
      <4> HIDE DEF w
      <4>2. ASSUME NEW v \in Workers PROVE queued'[v] \in 0..QueueSize
        BY <4>1, ConstantsAssumption
      <4> QED  BY <4>1, <4>2
    <3> QED  BY <3>1, <3>2
  <2> QED  BY <1>12, <2>1, <2>2 DEF Capture
<1>13. ASSUME NEW r \in Calls, Finish(r) PROVE TypeOK'
  BY <1>13 DEF Finish
<1>14. ASSUME NEW t \in Reloads, NEW w \in Workers, ReloadStart(t, w) PROVE TypeOK'
  <2>1. \/ UNCHANGED <<client, shuts>>
        \/ /\ client' = [client EXCEPT ![backends[w]] = "closing"]
           /\ shuts' = [shuts EXCEPT ![t] = backends[w]]
    BY <1>14 DEF ReloadStart
  <2>2. client' \in [Gates -> {"unbuilt", "open", "closing", "closed"}]  BY <2>1
  <2>3. [shuts EXCEPT ![t] = backends[w]] \in [Reloads -> Gates \cup {None}]
    OBVIOUS
  <2>4. shuts' \in [Reloads -> Gates \cup {None}]  BY <2>1, <2>3
  <2> QED  BY <1>14, <2>2, <2>4 DEF ReloadStart
<1>15. ASSUME NEW t \in Reloads, ReloadFinish(t) PROVE TypeOK'
  BY <1>15 DEF ReloadFinish
<1>16. ASSUME NEW m \in Models, RouterStep(m) PROVE TypeOK'
  BY <1>16 DEF RouterStep
<1>17. CASE UNCHANGED vars
  BY <1>17 DEF vars
<1> QED
  BY <1>2, <1>3, <1>4, <1>5, <1>6, <1>7, <1>8, <1>9, <1>10, <1>11, <1>12,
     <1>13, <1>14, <1>15, <1>16, <1>17 DEF Next, Progress

(* Every variable keeps its type in every behaviour. *)
THEOREM TypeCorrect == Spec => []TypeOK
  BY TypeInit, TypeNext, PTL DEF Spec

----------------------------------------------------------------------------
(* The lease.  LeaseBalanced and NoIdlePermit are not inductive: the step   *)
(* that passes the permit on needs to know that the queue holds waiting     *)
(* calls of this gate only, each once, and the clean-up steps need to know  *)
(* which control states go with which state of cleanup_request.             *)

RoutedOK ==
  \A r \in Calls : pc[r] # "idle" => gate[r] \in Gates /\ model[r] \in Models

CleanupOK ==
  \A r \in Calls :
    /\ pc[r] \notin Finishing => cleanup[r] = "due"
    /\ pc[r] = "capture" => cleanup[r] = "done"

HoldersExclude ==
  \A q, r \in Calls : Holding(q) /\ Holding(r) /\ gate[q] = gate[r] => q = r

PermitTaken == \A r \in Calls : Holding(r) => permits[gate[r]] = 0

PermitAccounted ==
  \A g \in Gates :
    \/ permits[g] = 1
    \/ permits[g] = 0 /\ \E r \in Calls : Holding(r) /\ gate[r] = g

QueueSound ==
  \A g \in Gates : \A i \in 1..Len(waiters[g]) :
    pc[waiters[g][i]] = "waiting" /\ gate[waiters[g][i]] = g

QueueDistinct ==
  \A g \in Gates : \A i, j \in 1..Len(waiters[g]) :
    waiters[g][i] = waiters[g][j] => i = j

LeaseCore ==
  /\ HoldersExclude /\ PermitTaken /\ PermitAccounted
  /\ NoIdlePermit /\ QueueSound /\ QueueDistinct

LeaseInv == TypeOK /\ RoutedOK /\ CleanupOK /\ LeaseCore

LEMMA LeaseInit == Init => LeaseInv
<1> SUFFICES ASSUME Init PROVE LeaseInv
  OBVIOUS
<1>1. TypeOK
  BY TypeInit
<1>2. \A r \in Calls : ~Holding(r)
  BY DEF Init, Holding, InLease, Coordinating, Finishing
<1>3. RoutedOK /\ CleanupOK
  BY DEF Init, RoutedOK, CleanupOK, Finishing
<1>4. \A g \in Gates : permits[g] = 1 /\ waiters[g] = <<>>
  BY DEF Init
<1>5. HoldersExclude /\ PermitTaken /\ PermitAccounted
  BY <1>2, <1>4 DEF HoldersExclude, PermitTaken, PermitAccounted
<1>6. NoIdlePermit
  BY <1>4 DEF NoIdlePermit
<1>7. QueueSound /\ QueueDistinct
  BY <1>4 DEF QueueSound, QueueDistinct
<1> QED  BY <1>1, <1>3, <1>5, <1>6, <1>7 DEF LeaseInv, LeaseCore

(* A step that changes neither who holds or awaits a lease nor the leases. *)
LEMMA LeaseFrame ==
  ASSUME LeaseCore, UNCHANGED <<gate, leaseVars>>,
         \A r \in Calls : /\ Holding(r)' <=> Holding(r)
                          /\ pc[r] = "waiting" => pc'[r] = "waiting",
         TypeOK
  PROVE  LeaseCore'
<1>1. HoldersExclude' /\ PermitTaken' /\ PermitAccounted'
  BY DEF LeaseCore, HoldersExclude, PermitTaken, PermitAccounted
<1>2. NoIdlePermit' /\ QueueDistinct'
  BY DEF LeaseCore, NoIdlePermit, QueueDistinct
<1>3. QueueSound'
  BY DEF LeaseCore, QueueSound, TypeOK
<1> QED  BY <1>1, <1>2, <1>3 DEF LeaseCore

(* A call that moves on without touching its clean-up keeps what it holds. *)
LEMMA MoveFrame ==
  ASSUME TypeOK, NEW r \in Calls, NEW to \in InLease \cup Finishing,
         pc[r] \in InLease \cup Finishing,
         pc' = [pc EXCEPT ![r] = to], UNCHANGED cleanup
  PROVE  \A q \in Calls : /\ Holding(q)' <=> Holding(q)
                          /\ pc[q] = "waiting" => pc'[q] = "waiting"
BY DEF TypeOK, Holding, InLease, Coordinating, Finishing

LEMMA LeaseMove ==
  ASSUME LeaseInv, NEW r \in Calls, NEW to \in InLease \cup Finishing,
         pc[r] \in InLease \cup Finishing,
         pc' = [pc EXCEPT ![r] = to],
         to \notin Finishing => pc[r] \notin Finishing,
         to = "capture" => pc[r] = "capture",
         UNCHANGED <<gate, model, cleanup, leaseVars>>
  PROVE  RoutedOK' /\ CleanupOK' /\ LeaseCore'
<1>1. RoutedOK'
  BY DEF LeaseInv, TypeOK, RoutedOK, InLease, Coordinating, Finishing
<1>2. CleanupOK'
  BY DEF LeaseInv, TypeOK, CleanupOK
<1>3. LeaseCore'
  BY LeaseFrame, MoveFrame DEF LeaseInv
<1> QED  BY <1>1, <1>2, <1>3

(* Acquiring: the permit is free and there is no holder, or r queues up. *)
LEMMA LeaseAcquire ==
  ASSUME LeaseInv, NEW r \in Calls, NEW g \in Gates, NEW m \in Models, Acquire(r, g, m)
  PROVE  RoutedOK' /\ CleanupOK' /\ LeaseCore'
<1> USE DEF LeaseInv, TypeOK
<1>1. /\ pc[r] = "idle" /\ cleanup' = cleanup /\ cleanup[r] = "due" /\ ~Holding(r)
      /\ gate' = [gate EXCEPT ![r] = g] /\ model' = [model EXCEPT ![r] = m]
  BY DEF Acquire, CleanupOK, Finishing, Holding, InLease, Coordinating
<1>2. \A h \in Gates : \A i \in 1..Len(waiters[h]) :
        waiters[h][i] \in Calls /\ waiters[h][i] # r
  BY <1>1 DEF LeaseCore, QueueSound
<1>3. CASE /\ permits[g] > 0 /\ waiters[g] = <<>>
           /\ permits' = [permits EXCEPT ![g] = @ - 1]
           /\ pc' = [pc EXCEPT ![r] = "leased"] /\ UNCHANGED waiters
  <2>1. permits[g] = 1 /\ permits'[g] = 0 /\ \A h \in Gates : h # g => permits'[h] = permits[h]
    BY <1>3 DEF LeaseCore, PermitAccounted
  <2>2. \A q \in Calls : Holding(q) => gate[q] # g
    BY <1>3 DEF LeaseCore, PermitTaken
  <2>3. Holding(r)' /\ \A q \in Calls : q # r => (Holding(q)' <=> Holding(q)) /\ gate'[q] = gate[q]
    BY <1>1, <1>3 DEF Holding, InLease
  <2>4. gate'[r] = g
    BY <1>1
  <2>5. RoutedOK' /\ CleanupOK'
    BY <1>1, <1>3 DEF RoutedOK, CleanupOK, Finishing
  <2>6. HoldersExclude'
    BY <2>2, <2>3, <2>4 DEF LeaseCore, HoldersExclude
  <2>7. PermitTaken'
    <3>1. ASSUME NEW q \in Calls, q # r, Holding(q) PROVE permits'[gate[q]] = 0
      <4>1. gate[q] \in Gates
        BY <3>1 DEF RoutedOK, Holding, InLease, Coordinating, Finishing
      <4>2. permits[gate[q]] = 0 /\ gate[q] # g
        BY <2>2, <3>1 DEF LeaseCore, PermitTaken
      <4> QED  BY <2>1, <4>1, <4>2
    <3> QED  BY <2>1, <2>3, <2>4, <3>1 DEF PermitTaken
  <2>8. PermitAccounted'
    <3>1. ASSUME NEW h \in Gates, h # g
          PROVE  permits'[h] = 1 \/ (permits'[h] = 0 /\ \E q \in Calls : Holding(q)' /\ gate'[q] = h)
      <4>0. permits'[h] = permits[h]
        BY <2>1, <3>1
      <4>1. CASE permits[h] = 1  BY <4>0, <4>1
      <4>2. CASE permits[h] # 1
        <5>1. PICK q \in Calls : Holding(q) /\ gate[q] = h
          BY <4>2 DEF LeaseCore, PermitAccounted
        <5>2. q # r /\ permits[h] = 0
          BY <1>1, <4>2, <5>1 DEF LeaseCore, PermitAccounted
        <5> QED  BY <2>1, <2>3, <3>1, <5>1, <5>2
      <4> QED  BY <4>1, <4>2
    <3> QED  BY <2>1, <2>3, <2>4, <3>1 DEF PermitAccounted
  <2>9. NoIdlePermit'
    BY <1>3, <2>1 DEF LeaseCore, NoIdlePermit
  <2>10. QueueSound' /\ QueueDistinct'
    BY <1>1, <1>2, <1>3 DEF LeaseCore, QueueSound, QueueDistinct
  <2> QED  BY <2>5, <2>6, <2>7, <2>8, <2>9, <2>10 DEF LeaseCore
<1>4. CASE /\ permits[g] = 0 \/ waiters[g] # <<>>
           /\ waiters' = [waiters EXCEPT ![g] = Append(@, r)]
           /\ pc' = [pc EXCEPT ![r] = "waiting"] /\ UNCHANGED permits
  <2>1. \A q \in Calls : /\ Holding(q)' <=> Holding(q)
                         /\ Holding(q) => gate'[q] = gate[q]
    BY <1>1, <1>4 DEF Holding, InLease, Coordinating, Finishing
  <2>2. RoutedOK' /\ CleanupOK'
    BY <1>1, <1>4 DEF RoutedOK, CleanupOK, Finishing
  <2>3. HoldersExclude' /\ PermitTaken' /\ PermitAccounted'
    BY ZenonT(30), <1>4, <2>1 DEF LeaseCore, HoldersExclude, PermitTaken, PermitAccounted
  <2>4. permits[g] = 0
    BY <1>4 DEF LeaseCore, NoIdlePermit, PermitAccounted
  <2>5. NoIdlePermit'
    BY <1>4, <2>4 DEF LeaseCore, NoIdlePermit
  <2>6. /\ Len(waiters'[g]) = Len(waiters[g]) + 1
        /\ waiters'[g][Len(waiters[g]) + 1] = r
        /\ \A i \in 1..Len(waiters[g]) : waiters'[g][i] = waiters[g][i]
        /\ \A h \in Gates : h # g => waiters'[h] = waiters[h]
    <3>1. waiters[g] \in Seq(Calls) /\ waiters'[g] = Append(waiters[g], r)
      BY <1>4
    <3> QED  BY <1>4, <3>1, AppendProperties
  <2>7. QueueSound'
    <3>1. ASSUME NEW h \in Gates, NEW i \in 1..Len(waiters'[h])
          PROVE  pc'[waiters'[h][i]] = "waiting" /\ gate'[waiters'[h][i]] = h
      <4>1. CASE h = g /\ i = Len(waiters[g]) + 1
        BY <1>1, <1>4, <2>6, <4>1
      <4>2. CASE h # g \/ i # Len(waiters[g]) + 1
        <5>1. i \in 1..Len(waiters[h]) /\ waiters'[h][i] = waiters[h][i]
          BY <2>6, <3>1, <4>2
        <5> QED  BY <1>1, <1>2, <1>4, <5>1 DEF LeaseCore, QueueSound
      <4> QED  BY <4>1, <4>2
    <3> QED  BY <3>1 DEF QueueSound
  <2>8. QueueDistinct'
    <3>1. ASSUME NEW h \in Gates, h # g, NEW i \in 1..Len(waiters'[h]), NEW j \in 1..Len(waiters'[h]),
                 waiters'[h][i] = waiters'[h][j]
          PROVE  i = j
      BY <2>6, <3>1 DEF LeaseCore, QueueDistinct
    <3>2. ASSUME NEW i \in 1..Len(waiters'[g]), NEW j \in 1..Len(waiters'[g]),
                 waiters'[g][i] = waiters'[g][j]
          PROVE  i = j
      <4>1. i \in 1..(Len(waiters[g]) + 1) /\ j \in 1..(Len(waiters[g]) + 1)
        BY <2>6
      <4>2. CASE i \in 1..Len(waiters[g]) /\ j \in 1..Len(waiters[g])
        BY <2>6, <3>2, <4>2 DEF LeaseCore, QueueDistinct
      <4>3. CASE i \notin 1..Len(waiters[g]) \/ j \notin 1..Len(waiters[g])
        <5> DEFINE n == Len(waiters[g])
        <5>1. n \in Nat
          OBVIOUS
        <5>2. \A k \in 1..n : waiters'[g][k] # r
          BY <1>2, <2>6
        <5>3. waiters'[g][n + 1] = r
          BY <2>6
        <5>4. i \in 1..(n + 1) /\ j \in 1..(n + 1) /\ (i \notin 1..n \/ j \notin 1..n)
          BY <4>1, <4>3
        <5> HIDE DEF n
        <5>5. CASE i \notin 1..n
          <6>1. i = n + 1
            BY ONLY <5>1, <5>4, <5>5
          <6>2. j \notin 1..n
            BY <3>2, <5>2, <5>3, <6>1
          <6> QED  BY ONLY <5>1, <5>4, <6>1, <6>2
        <5>6. CASE j \notin 1..n
          <6>1. j = n + 1
            BY ONLY <5>1, <5>4, <5>6
          <6>2. i \notin 1..n
            BY <3>2, <5>2, <5>3, <6>1
          <6> QED  BY ONLY <5>1, <5>4, <6>1, <6>2
        <5> QED  BY <5>4, <5>5, <5>6
      <4> QED  BY <4>2, <4>3
    <3> QED  BY <3>1, <3>2 DEF QueueDistinct
  <2> QED  BY <2>2, <2>3, <2>5, <2>7, <2>8 DEF LeaseCore
<1> QED  BY <1>3, <1>4 DEF Acquire

(* Giving up: r leaves the queue, wherever it stands in it. *)
LEMMA LeaseGiveUp ==
  ASSUME LeaseInv, NEW r \in Calls, GiveUp(r)
  PROVE  RoutedOK' /\ CleanupOK' /\ LeaseCore'
<1> USE DEF LeaseInv, TypeOK
<1> DEFINE g == gate[r]
<1>1. /\ pc[r] = "waiting" /\ pc' = [pc EXCEPT ![r] = "idle"] /\ UNCHANGED <<permits, cleanup>>
      /\ gate' = [gate EXCEPT ![r] = None] /\ model' = [model EXCEPT ![r] = None]
  BY DEF GiveUp
<1>2. g \in Gates /\ cleanup[r] = "due"
  BY <1>1 DEF RoutedOK, CleanupOK, Finishing
<1>3. PICK k \in 1..Len(waiters[g]) :
        /\ waiters[g][k] = r
        /\ waiters' = [waiters EXCEPT ![g] = RemoveAt(@, k)]
  <2>1. DOMAIN waiters[g] = 1..Len(waiters[g])
    BY <1>2
  <2> QED  BY <2>1 DEF GiveUp
<1> DEFINE n == Len(waiters[g])
<1>4. n \in Nat /\ k \in 1..n
  BY <1>2
<1>5. /\ Len(waiters'[g]) = n - 1
      /\ \A i \in 1..(n - 1) :
           waiters'[g][i] = IF i < k THEN waiters[g][i] ELSE waiters[g][i + 1]
      /\ \A h \in Gates : h # g => waiters'[h] = waiters[h]
  <2>1. waiters[g] \in Seq(Calls) /\ waiters'[g] = RemoveAt(waiters[g], k)
    BY <1>2, <1>3
  <2>2. \A h \in Gates : h # g => waiters'[h] = waiters[h]
    BY <1>3
  <2> HIDE DEF g
  <2>3. /\ Len(RemoveAt(waiters[g], k)) = n - 1
        /\ \A i \in 1..(n - 1) :
             RemoveAt(waiters[g], k)[i] = IF i < k THEN waiters[g][i] ELSE waiters[g][i + 1]
    BY SMTT(30), <1>4, <2>1, RemoveAtProperties
  <2> QED  BY <2>1, <2>2, <2>3
<1> HIDE DEF g, n
<1>6. \A q \in Calls : /\ Holding(q)' <=> Holding(q)
                       /\ Holding(q) => gate'[q] = gate[q]
  BY <1>1 DEF Holding, InLease, Coordinating, Finishing
<1>7. RoutedOK' /\ CleanupOK'
  BY <1>1, <1>2 DEF RoutedOK, CleanupOK, Finishing
<1>8. HoldersExclude' /\ PermitTaken' /\ PermitAccounted'
  BY <1>1, <1>6 DEF LeaseCore, HoldersExclude, PermitTaken, PermitAccounted
<1>9. \A h \in Gates : \A i \in 1..Len(waiters[h]) :
        /\ waiters[h][i] \in Calls
        /\ pc[waiters[h][i]] = "waiting" /\ gate[waiters[h][i]] = h
  BY DEF LeaseCore, QueueSound
<1>10. NoIdlePermit'
  <2>1. permits[g] = 0
    <3>1. waiters[g] # <<>>
      BY <1>4 DEF n
    <3> QED  BY <1>2, <3>1 DEF LeaseCore, NoIdlePermit, PermitAccounted
  <2> QED  BY <1>1, <1>5, <2>1 DEF LeaseCore, NoIdlePermit
<1>11. \A i, j \in 1..n : waiters[g][i] = waiters[g][j] => i = j
  BY <1>2 DEF LeaseCore, QueueDistinct, n
<1>12. \A h \in Gates : h # g => \A i \in 1..Len(waiters[h]) : waiters[h][i] # r
  BY <1>9 DEF g
<1>13. ASSUME NEW i \in 1..(n - 1)
       PROVE  \E j \in 1..n : j # k /\ waiters'[g][i] = waiters[g][j]
  <2>1. CASE i < k
    BY <1>4, <1>5, <2>1
  <2>2. CASE ~(i < k)
    <3>1. i + 1 \in 1..n /\ i + 1 # k /\ waiters'[g][i] = waiters[g][i + 1]
      BY <1>4, <1>5, <2>2
    <3> QED  BY <3>1
  <2> QED  BY <2>1, <2>2
<1>14. QueueSound'
  <2>1. ASSUME NEW h \in Gates, h # g, NEW i \in 1..Len(waiters'[h])
        PROVE  pc'[waiters'[h][i]] = "waiting" /\ gate'[waiters'[h][i]] = h
    BY <1>1, <1>5, <1>9, <1>12, <2>1
  <2>2. ASSUME NEW i \in 1..Len(waiters'[g])
        PROVE  pc'[waiters'[g][i]] = "waiting" /\ gate'[waiters'[g][i]] = g
    <3>1. PICK j \in 1..n : j # k /\ waiters'[g][i] = waiters[g][j]
      BY <1>5, <1>13, <2>2
    <3>2. waiters[g][j] # r
      BY <1>3, <1>4, <1>11, <3>1
    <3>3. waiters[g][j] \in Calls /\ pc[waiters[g][j]] = "waiting" /\ gate[waiters[g][j]] = g
      BY <1>2, <1>9, <3>1 DEF n
    <3> QED  BY <1>1, <3>1, <3>2, <3>3
  <2> QED  BY <1>2, <2>1, <2>2 DEF QueueSound
<1>15. QueueDistinct'
  <2>1. ASSUME NEW h \in Gates, h # g, NEW i \in 1..Len(waiters'[h]), NEW j \in 1..Len(waiters'[h]),
               waiters'[h][i] = waiters'[h][j]
        PROVE  i = j
    BY <1>5, <2>1 DEF LeaseCore, QueueDistinct
  <2>2. ASSUME NEW i \in 1..(n - 1), NEW j \in 1..(n - 1), waiters'[g][i] = waiters'[g][j]
        PROVE  i = j
    <3> DEFINE at(x) == IF x < k THEN x ELSE x + 1
    <3>1. at(i) \in 1..n /\ at(j) \in 1..n
      BY <1>4
    <3>2. waiters[g][at(i)] = waiters[g][at(j)]
      BY <1>5, <2>2
    <3>3. at(i) = at(j)
      <4> HIDE DEF at
      <4> QED  BY <1>11, <3>1, <3>2
    <3>4. i \in Int /\ j \in Int /\ k \in Int
      BY <1>4
    <3>5. (IF i < k THEN i ELSE i + 1) = (IF j < k THEN j ELSE j + 1)
      BY <3>3
    <3> HIDE DEF at
    <3>6. CASE i < k /\ j < k  BY <3>4, <3>5, <3>6
    <3>7. CASE i < k /\ ~(j < k)  BY <3>4, <3>5, <3>7
    <3>8. CASE ~(i < k) /\ j < k  BY <3>4, <3>5, <3>8
    <3>9. CASE ~(i < k) /\ ~(j < k)  BY <3>4, <3>5, <3>9
    <3> QED  BY <3>6, <3>7, <3>8, <3>9
  <2> QED  BY <1>5, <2>1, <2>2 DEF QueueDistinct
<1> QED  BY <1>7, <1>8, <1>10, <1>14, <1>15 DEF LeaseCore

LEMMA PermitHolder ==
  LeaseInv => \A k \in Gates : permits[k] # 1 =>
                permits[k] = 0 /\ \E q \in Calls : Holding(q) /\ gate[q] = k
BY DEF LeaseInv, LeaseCore, PermitAccounted

(* Leaving the lease: its only holder stops holding it; the permit becomes  *)
(* free, or the first waiter becomes the only holder.                       *)
LEMMA LeaseLeave ==
  ASSUME LeaseInv, NEW r \in Calls, CleanupLeave(r)
  PROVE  RoutedOK' /\ CleanupOK' /\ LeaseCore'
<1>0. \A k \in Gates : permits[k] # 1 =>
        permits[k] = 0 /\ \E q \in Calls : Holding(q) /\ gate[q] = k
  BY PermitHolder
<1> USE DEF LeaseInv, TypeOK
<1> DEFINE g == gate[r]
<1>1. /\ cleanup[r] = "running" /\ cleanup' = [cleanup EXCEPT ![r] = "done"]
      /\ UNCHANGED <<gate, model>>
  BY DEF CleanupLeave
<1>2. pc[r] \in Finishing /\ Holding(r) /\ g \in Gates
  <2>1. pc[r] \in Finishing
    BY <1>1 DEF CleanupOK
  <2> QED  BY <1>1, <2>1 DEF Holding, RoutedOK, Finishing
<1>3. permits[g] = 0 /\ \A q \in Calls : Holding(q) /\ gate[q] = g => q = r
  BY <1>2 DEF LeaseCore, PermitTaken, HoldersExclude
<1>4. pc[r] # "capture" /\ Cleaned(r) \in {"end", "capture"}
  BY <1>1 DEF CleanupOK, Cleaned
<1>5. \A h \in Gates : \A i \in 1..Len(waiters[h]) :
        /\ waiters[h][i] \in Calls
        /\ pc[waiters[h][i]] = "waiting" /\ gate[waiters[h][i]] = h
        /\ waiters[h][i] # r
  BY <1>2 DEF LeaseCore, QueueSound, Finishing
<1>6. CASE Woken(g) = {}
  <2>1. /\ permits' = [permits EXCEPT ![g] = @ + 1] /\ UNCHANGED waiters
        /\ \A q \in Calls : q # r => pc'[q] = pc[q]
        /\ pc'[r] \in Finishing /\ waiters[g] = <<>>
        /\ pc'[r] = pc[r] \/ pc'[r] \in {"end", "capture"}
    BY <1>2, <1>4, <1>6 DEF CleanupLeave, Woken, Finishing
  <2>2. permits'[g] = 1 /\ \A h \in Gates : h # g => permits'[h] = permits[h]
    BY <1>2, <1>3, <2>1
  <2>3. /\ ~Holding(r)'
        /\ \A q \in Calls : q # r => (Holding(q)' <=> Holding(q))
    BY <1>1, <2>1 DEF Holding
  <2>4. RoutedOK'
    BY <1>1, <1>2, <2>1 DEF RoutedOK, Finishing
  <2>5. CleanupOK'
    BY <1>1, <2>1 DEF CleanupOK
  <2>6. HoldersExclude'
    BY <1>1, <2>3 DEF LeaseCore, HoldersExclude
  <2>7. PermitTaken'
    <3>1. ASSUME NEW q \in Calls, q # r, Holding(q) PROVE permits'[gate[q]] = 0
      <4>1. gate[q] # g /\ permits[gate[q]] = 0
        BY <1>3, <3>1 DEF LeaseCore, PermitTaken
      <4>2. gate[q] \in Gates
        BY <3>1 DEF RoutedOK, Holding, InLease, Coordinating, Finishing
      <4> QED  BY <2>2, <4>1, <4>2
    <3> QED  BY <1>1, <2>3, <3>1 DEF PermitTaken
  <2>8. PermitAccounted'
    <3>1. ASSUME NEW h \in Gates, h # g, permits[h] # 1
          PROVE  \E q \in Calls : Holding(q)' /\ gate'[q] = h
      <4>1. PICK q \in Calls : Holding(q) /\ gate[q] = h
        BY <1>0, <3>1
      <4> QED  BY <1>1, <2>3, <3>1, <4>1
    <3> QED  BY <2>2, <3>1 DEF LeaseCore, PermitAccounted
  <2>9. NoIdlePermit'
    BY <2>1, <2>2 DEF LeaseCore, NoIdlePermit
  <2>10. QueueSound' /\ QueueDistinct'
    BY <1>1, <1>5, <2>1 DEF LeaseCore, QueueSound, QueueDistinct
  <2> QED  BY <2>4, <2>5, <2>6, <2>7, <2>8, <2>9, <2>10 DEF LeaseCore
<1>7. CASE Woken(g) # {}
  <2> DEFINE n == Len(waiters[g])
  <2>0. PICK h \in Calls : h = Head(waiters[g])
    <3>1. waiters[g] # <<>> /\ waiters[g] \in Seq(Calls)
      BY <1>2, <1>7 DEF Woken
    <3> QED  BY <3>1, HeadTailProperties
  <2>1. /\ waiters[g] # <<>> /\ Woken(g) = {h} /\ UNCHANGED permits
        /\ waiters' = [waiters EXCEPT ![g] = Tail(@)]
    BY <1>7, <2>0 DEF CleanupLeave, Woken
  <2>2. waiters[g] \in Seq(Calls) /\ n \in Nat /\ n > 0 /\ h = waiters[g][1]
    BY <1>2, <2>0, <2>1
  <2>3. /\ Len(waiters'[g]) = n - 1
        /\ \A i \in 1..(n - 1) : waiters'[g][i] = waiters[g][i + 1]
        /\ \A k \in Gates : k # g => waiters'[k] = waiters[k]
    <3>1. waiters'[g] = Tail(waiters[g]) /\ \A k \in Gates : k # g => waiters'[k] = waiters[k]
      BY <1>2, <2>1
    <3>2. /\ Len(Tail(waiters[g])) = n - 1
          /\ \A i \in 1..(n - 1) : Tail(waiters[g])[i] = waiters[g][i + 1]
      BY <2>1, <2>2, HeadTailProperties
    <3> QED  BY <3>1, <3>2
  <2>4. h \in Calls /\ pc[h] = "waiting" /\ gate[h] = g /\ h # r
    BY <1>2, <1>5, <2>2
  <2>5. /\ pc'[h] = "leased"
        /\ \A q \in Calls : q # r /\ q # h => pc'[q] = pc[q]
        /\ pc'[r] \in Finishing
        /\ pc'[r] = pc[r] \/ pc'[r] \in {"end", "capture"}
    <3> HIDE DEF g
    <3>1. pc' = [c \in Calls |-> IF c \in {h} THEN "leased"
                                ELSE IF c = r /\ closer[r] = "handler" THEN Cleaned(r)
                                ELSE pc[c]]
      BY <2>1 DEF CleanupLeave, g
    <3> QED  BY <1>2, <1>4, <2>4, <3>1 DEF Finishing
  <2>6. \A i, j \in 1..n : waiters[g][i] = waiters[g][j] => i = j
    BY <1>2 DEF LeaseCore, QueueDistinct
  <2> HIDE DEF n
  <2>7. /\ ~Holding(r)' /\ Holding(h)' /\ ~Holding(h)
        /\ \A q \in Calls : q # r /\ q # h => (Holding(q)' <=> Holding(q))
    <3>1. cleanup[h] = "due" /\ cleanup'[h] = "due"
      BY <1>1, <2>4 DEF CleanupOK, Finishing
    <3>2. Holding(h)' /\ ~Holding(h)
      <4>1. pc[h] = "waiting" /\ pc'[h] = "leased"
        BY <2>4, <2>5
      <4>2. "leased" \in InLease /\ "waiting" \notin InLease \cup Finishing
        BY DEF InLease, Coordinating, Finishing
      <4> QED  BY <3>1, <4>1, <4>2 DEF Holding
    <3>3. ~Holding(r)'
      BY <1>1 DEF Holding
    <3>4. \A q \in Calls : q # r /\ q # h => (Holding(q)' <=> Holding(q))
      BY <1>1, <2>5 DEF Holding
    <3> QED  BY <3>2, <3>3, <3>4
  <2>8. RoutedOK'
    BY <1>1, <1>2, <2>4, <2>5 DEF RoutedOK, Finishing
  <2>9. CleanupOK'
    BY <1>1, <2>4, <2>5 DEF CleanupOK, Finishing
  <2>10. HoldersExclude' /\ PermitTaken'
    BY <1>1, <1>3, <2>1, <2>4, <2>7 DEF LeaseCore, HoldersExclude, PermitTaken
  <2>11. PermitAccounted'
    <3>1. ASSUME NEW k \in Gates, k # g, permits[k] # 1
          PROVE  \E q \in Calls : Holding(q)' /\ gate'[q] = k
      <4>1. PICK q \in Calls : Holding(q) /\ gate[q] = k
        BY <1>0, <3>1
      <4>2. q # r /\ q # h
        BY <2>4, <2>7, <3>1, <4>1
      <4> QED  BY <1>1, <2>7, <4>1, <4>2
    <3>2. \E q \in Calls : Holding(q)' /\ gate'[q] = g
      <4>1. gate'[h] = g
        BY <1>1, <2>4
      <4> QED  BY <2>4, <2>7, <4>1
    <3>3. \A k \in Gates : permits[k] = 1 \/ permits[k] = 0
      BY <1>0
    <3> QED  BY <1>3, <2>1, <3>1, <3>2, <3>3 DEF PermitAccounted
  <2>12. NoIdlePermit'
    <3>1. \A k \in Gates : k # g => waiters'[k] = waiters[k]
      BY <2>3
    <3> QED  BY <1>3, <2>1, <3>1 DEF LeaseCore, NoIdlePermit
  <2>13. ASSUME NEW i \in 1..(n - 1)
         PROVE  /\ i + 1 \in 1..n /\ waiters'[g][i] = waiters[g][i + 1]
                /\ waiters[g][i + 1] # h
    <3>1. i + 1 \in 1..n /\ 1 \in 1..n /\ i + 1 # 1
      BY <2>2
    <3> QED  BY <2>2, <2>3, <2>6, <3>1
  <2>14. QueueSound'
    <3>1. ASSUME NEW k \in Gates, k # g, NEW i \in 1..Len(waiters'[k])
          PROVE  pc'[waiters'[k][i]] = "waiting" /\ gate'[waiters'[k][i]] = k
      BY <1>1, <1>5, <2>3, <2>4, <2>5, <3>1
    <3>2. ASSUME NEW i \in 1..Len(waiters'[g])
          PROVE  pc'[waiters'[g][i]] = "waiting" /\ gate'[waiters'[g][i]] = g
      <4>1. i \in 1..(n - 1)
        BY <2>3, <3>2
      <4>2. waiters[g][i + 1] \in Calls /\ pc[waiters[g][i + 1]] = "waiting"
            /\ gate[waiters[g][i + 1]] = g /\ waiters[g][i + 1] # r
        BY <1>2, <1>5, <2>13, <4>1 DEF n
      <4> QED  BY <1>1, <2>5, <2>13, <4>1, <4>2
    <3> QED  BY <1>2, <3>1, <3>2 DEF QueueSound
  <2>15. QueueDistinct'
    <3>1. ASSUME NEW k \in Gates, k # g, NEW i \in 1..Len(waiters'[k]), NEW j \in 1..Len(waiters'[k]),
                 waiters'[k][i] = waiters'[k][j]
          PROVE  i = j
      BY <2>3, <3>1 DEF LeaseCore, QueueDistinct
    <3>2. ASSUME NEW i \in 1..(n - 1), NEW j \in 1..(n - 1), waiters'[g][i] = waiters'[g][j]
          PROVE  i = j
      <4>1. i + 1 = j + 1
        BY <2>6, <2>13, <3>2
      <4> QED  BY <2>2, <4>1
    <3> QED  BY <2>3, <3>1, <3>2 DEF QueueDistinct
  <2> QED  BY <2>8, <2>9, <2>10, <2>11, <2>12, <2>14, <2>15 DEF LeaseCore
<1> QED  BY <1>6, <1>7

(* The end of a call: it no longer holds anything. *)
LEMMA LeaseFinish ==
  ASSUME LeaseInv, NEW r \in Calls, Finish(r)
  PROVE  RoutedOK' /\ CleanupOK' /\ LeaseCore'
<1> USE DEF LeaseInv, TypeOK
<1>1. /\ pc[r] = "end" /\ pc' = [pc EXCEPT ![r] = "idle"] /\ cleanup[r] = "done"
      /\ cleanup' = [cleanup EXCEPT ![r] = "due"] /\ UNCHANGED leaseVars
      /\ gate' = [gate EXCEPT ![r] = None] /\ model' = [model EXCEPT ![r] = None]
  BY DEF Finish
<1>2. \A q \in Calls : /\ Holding(q)' <=> Holding(q)
                       /\ q # r => pc'[q] = pc[q] /\ gate'[q] = gate[q]
                       /\ Holding(q) => q # r
  BY <1>1 DEF Holding, InLease, Coordinating, Finishing
<1>3. RoutedOK' /\ CleanupOK'
  BY <1>1 DEF RoutedOK, CleanupOK, Finishing
<1>4. HoldersExclude' /\ PermitTaken' /\ PermitAccounted'
  BY <1>1, <1>2 DEF LeaseCore, HoldersExclude, PermitTaken, PermitAccounted
<1>5. NoIdlePermit' /\ QueueDistinct'
  BY <1>1 DEF LeaseCore, NoIdlePermit, QueueDistinct
<1>6. QueueSound'
  <2>1. \A g \in Gates : \A i \in 1..Len(waiters[g]) :
          /\ waiters[g][i] \in Calls /\ waiters[g][i] # r
          /\ pc[waiters[g][i]] = "waiting" /\ gate[waiters[g][i]] = g
    BY <1>1 DEF LeaseCore, QueueSound
  <2> QED  BY <1>1, <1>2, <2>1 DEF QueueSound
<1> QED  BY <1>3, <1>4, <1>5, <1>6 DEF LeaseCore

(* Clean-up steps other than leaving the lease move nobody in or out of it. *)
LEMMA LeaseCleanup ==
  ASSUME LeaseInv, NEW r \in Calls, NEW who \in {"handler", "background"},
         CleanupEnter(r, who) \/ CleanupSkip(r, who)
  PROVE  RoutedOK' /\ CleanupOK' /\ LeaseCore'
<1> USE DEF LeaseInv, TypeOK
<1>1. UNCHANGED <<gate, model, leaseVars>>
  BY DEF CleanupEnter, CleanupSkip
<1>2. CASE CleanupEnter(r, who)
  <2>1. /\ pc' = pc /\ pc[r] \in Finishing /\ pc[r] # "capture" /\ cleanup[r] = "due"
        /\ cleanup' = [cleanup EXCEPT ![r] = "running"]
    BY <1>2 DEF CleanupEnter, MayClean, Finishing
  <2>2. RoutedOK' /\ CleanupOK'
    BY <1>1, <2>1 DEF RoutedOK, CleanupOK
  <2>3. \A q \in Calls : /\ Holding(q)' <=> Holding(q)
                         /\ pc[q] = "waiting" => pc'[q] = "waiting"
    BY <2>1 DEF Holding
  <2> QED  BY <1>1, <2>2, <2>3, LeaseFrame
<1>3. CASE CleanupSkip(r, who) /\ who = "handler"
  <2>1. /\ pc' = [pc EXCEPT ![r] = Cleaned(r)] /\ pc[r] \in Finishing /\ UNCHANGED cleanup
        /\ cleanup[r] = "done" /\ Cleaned(r) \in Finishing
    BY <1>3 DEF CleanupSkip, MayClean, Cleaned, Finishing
  <2> DEFINE to == Cleaned(r)
  <2> HIDE DEF to
  <2>2. RoutedOK'
    BY <1>1, <2>1 DEF RoutedOK, Finishing, to
  <2>3. CleanupOK'
    BY <2>1 DEF CleanupOK
  <2>4. \A q \in Calls : /\ Holding(q)' <=> Holding(q)
                         /\ pc[q] = "waiting" => pc'[q] = "waiting"
    BY <2>1 DEF Holding, Finishing
  <2> QED  BY <1>1, <2>2, <2>3, <2>4, LeaseFrame
<1>4. CASE CleanupSkip(r, who) /\ who # "handler"
  <2>1. pc' = pc /\ cleanup' = cleanup
    BY <1>4 DEF CleanupSkip
  <2>2. RoutedOK' /\ CleanupOK'
    BY <1>1, <2>1 DEF RoutedOK, CleanupOK
  <2>3. \A q \in Calls : /\ Holding(q)' <=> Holding(q)
                         /\ pc[q] = "waiting" => pc'[q] = "waiting"
    BY <2>1 DEF Holding
  <2> QED  BY <1>1, <2>2, <2>3, LeaseFrame
<1> QED  BY <1>2, <1>3, <1>4

(* A step that leaves the calls and the leases alone. *)
LEMMA LeaseStutter ==
  ASSUME LeaseInv, UNCHANGED <<pc, gate, model, cleanup, leaseVars>>
  PROVE  RoutedOK' /\ CleanupOK' /\ LeaseCore'
<1>1. RoutedOK' /\ CleanupOK'
  BY DEF LeaseInv, RoutedOK, CleanupOK
<1>2. \A q \in Calls : /\ Holding(q)' <=> Holding(q)
                       /\ pc[q] = "waiting" => pc'[q] = "waiting"
  BY DEF Holding
<1> QED  BY <1>1, <1>2, LeaseFrame DEF LeaseInv

LEMMA LeaseNext == LeaseInv /\ [Next]_vars => LeaseInv'
<1> SUFFICES ASSUME LeaseInv, [Next]_vars PROVE LeaseInv'
  OBVIOUS
<1>0. TypeOK'
  BY TypeNext DEF LeaseInv
<1> SUFFICES RoutedOK' /\ CleanupOK' /\ LeaseCore'
  BY <1>0 DEF LeaseInv
<1> USE Names
<1>1. ASSUME NEW c \in Clients, Request(c) PROVE RoutedOK' /\ CleanupOK' /\ LeaseCore'
  <2>1. PICK w \in Workers, m \in Models : Acquire(c, backends[w], m)
    BY <1>1 DEF Request
  <2>2. backends[w] \in Gates
    BY DEF LeaseInv, TypeOK
  <2> QED  BY <2>1, <2>2, LeaseAcquire
<1>2. ASSUME NEW w \in Workers, Extract(w) PROVE RoutedOK' /\ CleanupOK' /\ LeaseCore'
  BY <1>2, LeaseAcquire DEF Extract
<1>3. ASSUME NEW w \in Workers, ExtractUnroutable(w) PROVE RoutedOK' /\ CleanupOK' /\ LeaseCore'
  BY <1>3, LeaseStutter DEF ExtractUnroutable
<1>4. ASSUME NEW r \in Calls, GiveUp(r) PROVE RoutedOK' /\ CleanupOK' /\ LeaseCore'
  BY <1>4, LeaseGiveUp
<1>5. ASSUME NEW r \in Calls,
             Ensure(r) \/ Send(r) \/ Respond(r) \/ EndOfStream(r) \/ Disconnect(r)
             \/ Abort(r) \/ Capture(r)
      PROVE  RoutedOK' /\ CleanupOK' /\ LeaseCore'
  <2>1. /\ pc[r] \in InLease \cup {"capture"}
        /\ UNCHANGED <<gate, model, cleanup, leaseVars>>
    BY <1>5 DEF Ensure, EnsureLoaded, List, ListMissing, Relist, Decide, PostUnload, SeeUnloaded,
                PostLoad, SeeReady, Send, Respond, EndOfStream, Disconnect, Abort, Capture,
                InLease, Coordinating
  <2>2. \E to \in InLease \cup (Finishing \ {"capture"}) :
          /\ pc' = [pc EXCEPT ![r] = to]
          /\ to \notin Finishing => pc[r] \notin Finishing
    <3>1. CASE Ensure(r)
      BY <3>1 DEF Ensure, EnsureLoaded, List, ListMissing, Relist, Decide, PostUnload, SeeUnloaded,
                  PostLoad, SeeReady, InLease, Coordinating, Finishing
    <3>2. CASE Send(r) \/ Respond(r) \/ EndOfStream(r)
      BY <3>2 DEF Send, Respond, EndOfStream, InLease, Coordinating, Finishing
    <3>3. CASE Disconnect(r) \/ Abort(r) \/ Capture(r)
      BY <3>3 DEF Disconnect, Abort, Capture, InLease, Coordinating, Finishing
    <3> QED  BY <1>5, <3>1, <3>2, <3>3
  <2>3. PICK to \in InLease \cup (Finishing \ {"capture"}) :
          /\ pc' = [pc EXCEPT ![r] = to]
          /\ to \notin Finishing => pc[r] \notin Finishing
    BY <2>2
  <2>4. /\ to \in InLease \cup Finishing /\ to # "capture"
        /\ pc[r] \in InLease \cup Finishing
    BY <2>1 DEF InLease, Coordinating, Finishing
  <2> QED  BY <2>1, <2>3, <2>4, LeaseMove
<1>6. ASSUME NEW r \in Calls, Cleanup(r) PROVE RoutedOK' /\ CleanupOK' /\ LeaseCore'
  BY <1>6, LeaseLeave, LeaseCleanup DEF Cleanup
<1>7. ASSUME NEW r \in Calls, Finish(r) PROVE RoutedOK' /\ CleanupOK' /\ LeaseCore'
  BY <1>7, LeaseFinish
<1>8. ASSUME NEW t \in Reloads, NEW w \in Workers, ReloadStart(t, w)
      PROVE RoutedOK' /\ CleanupOK' /\ LeaseCore'
  BY <1>8, LeaseStutter DEF ReloadStart
<1>9. ASSUME NEW t \in Reloads, ReloadFinish(t) PROVE RoutedOK' /\ CleanupOK' /\ LeaseCore'
  BY <1>9, LeaseStutter DEF ReloadFinish
<1>10. ASSUME NEW m \in Models, RouterStep(m) PROVE RoutedOK' /\ CleanupOK' /\ LeaseCore'
  BY <1>10, LeaseStutter DEF RouterStep
<1>11. CASE UNCHANGED vars
  BY <1>11, LeaseStutter DEF vars
<1> QED
  BY <1>1, <1>2, <1>3, <1>4, <1>5, <1>6, <1>7, <1>8, <1>9, <1>10, <1>11 DEF Next, Progress

LEMMA LeaseInvariant == Spec => []LeaseInv
  BY LeaseInit, LeaseNext, PTL DEF Spec

(* In every behaviour, with any number of processes, overlapping reloads    *)
(* and any coordinator mode, a gate's permit is either free or owned by     *)
(* exactly one call: no lease is shared, lost or returned twice.            *)
THEOREM LeasesBalanced == Spec => []LeaseBalanced
<1>1. LeaseInv => LeaseBalanced
  <2> SUFFICES ASSUME LeaseInv, NEW g \in Gates
               PROVE  LET holders == {r \in Calls : Holding(r) /\ gate[r] = g} IN
                      \/ permits[g] = 1 /\ holders = {}
                      \/ permits[g] = 0 /\ \E h \in Calls : holders = {h}
    BY DEF LeaseBalanced
  <2>1. CASE permits[g] = 1
    <3>1. \A r \in Calls : ~(Holding(r) /\ gate[r] = g)
      BY <2>1 DEF LeaseInv, LeaseCore, PermitTaken
    <3> QED  BY <2>1, <3>1
  <2>2. CASE permits[g] # 1
    <3>1. permits[g] = 0
      BY <2>2, PermitHolder
    <3>2. PICK h \in Calls : Holding(h) /\ gate[h] = g
      BY <2>2, PermitHolder
    <3>3. \A r \in Calls : Holding(r) /\ gate[r] = g => r = h
      BY <3>2 DEF LeaseInv, LeaseCore, HoldersExclude
    <3> QED  BY <3>1, <3>2, <3>3
  <2> QED  BY <2>1, <2>2
<1> QED  BY <1>1, LeaseInvariant, PTL

(* No call waits for a permit that is free. *)
THEOREM NoWakeUpLost == Spec => []NoIdlePermit
<1>1. LeaseInv => NoIdlePermit
  BY DEF LeaseInv, LeaseCore
<1> QED  BY <1>1, LeaseInvariant, PTL
============================================================================
