-------------------------- MODULE ParallelMapProofs --------------------------
(***************************************************************************)
(* Proofs about ParallelMap, for every number of inputs and every bound on *)
(* the workers: the inductive invariant IInv, the three safety properties  *)
(* it contains, and that the pool implements OrderedMap.                   *)
(***************************************************************************)
EXTENDS ParallelMap, TLAPS

(* There is at least one worker.                                           *)
LEMMA WorkerCountPositive == WorkerCount \in Nat \ {0}
BY SizesAssumption DEF WorkerCount

(* Init establishes the invariant: nothing claimed, nobody born.           *)
LEMMA InitIInv == Init => IInv
<1> SUFFICES ASSUME Init PROVE IInv
  OBVIOUS
<1> USE WorkerCountPositive, SizesAssumption, MarkersAssumption DEF Init, Inputs, Workers
<1>1. TypeOK
  <2>0. failed \in BOOLEAN
    OBVIOUS
  <2>1. spawned \in 0 .. WorkerCount /\ next \in Nat
    OBVIOUS
  <2>2. pc \in [Workers -> {"unborn", "test", "claim", "call", "catch", "stop", "done"}]
    OBVIOUS
  <2>3. /\ item \in [Workers -> Inputs \cup {Nothing}]
        /\ slots \in [Inputs -> Inputs \cup {Nothing}]
        /\ late \in [Workers -> Nat]
    OBVIOUS
  <2>. QED
    BY <2>0, <2>1, <2>2, <2>3 DEF TypeOK
<1>2. ClaimsInv
  BY DEF ClaimsInv, Holds
<1>3. FailureInv
  BY DEF FailureInv, Holds
<1>4. PoolInv
  BY DEF PoolInv
<1>5. LateInv
  BY DEF LateInv
<1>6. ReturnedInOrder /\ NoWorkerOutlivesTheMap
  BY DEF ReturnedInOrder, NoWorkerOutlivesTheMap
<1>. QED
  BY <1>1, <1>2, <1>3, <1>4, <1>5, <1>6 DEF IInv

(* When every worker has been joined and no error is kept, every slot is   *)
(* filled with its own input's result.                                     *)
LEMMA JoinedWithoutFailure ==
  ASSUME IInv, main = "join", Joined, failure = Nothing
  PROVE  slots = [i \in Inputs |-> i]
<1> USE WorkerCountPositive, SizesAssumption DEF IInv
<1>1. spawned = WorkerCount /\ ~failed
  BY DEF PoolInv, FailureInv
<1>2. \A w \in Workers : pc[w] = "done"
  BY <1>1 DEF Joined, Workers
<1>3. 1 \in Workers
  BY DEF Workers
<1>4. next >= InputCount
  BY <1>1, <1>2, <1>3 DEF PoolInv
<1>5. \A i \in Inputs : i < next
  BY <1>4 DEF Inputs, TypeOK
<1>6. \A i \in Inputs : slots[i] # Nothing
  BY <1>2, <1>5 DEF ClaimsInv, Holds
<1>. QED
  BY <1>6 DEF ClaimsInv, TypeOK

(* Each step of the main thread keeps the inductive invariant.             *)
LEMMA MainStepIInv == IInv /\ MainStep => IInv'
<1> SUFFICES ASSUME IInv, MainStep PROVE IInv'
  OBVIOUS
<1> USE WorkerCountPositive, SizesAssumption, MarkersAssumption DEF IInv
<1>1. CASE Spawn
  <2> USE <1>1 DEF Spawn
  <2>0. spawned < WorkerCount /\ spawned \in Nat /\ spawned + 1 \in Workers
    BY DEF PoolInv, TypeOK, Workers
  <2>00. pc[spawned + 1] = "unborn" /\ pc' = [pc EXCEPT ![spawned + 1] = "test"]
    BY <2>0 DEF PoolInv, TypeOK
  <2>1. TypeOK'
    BY <2>0, <2>00 DEF TypeOK
  <2>2. ClaimsInv'
    BY <2>0, <2>00 DEF TypeOK, ClaimsInv, Holds
  <2>3. FailureInv'
    BY <2>0, <2>00 DEF TypeOK, FailureInv, Holds
  <2>4. PoolInv'
    BY <2>0, <2>00 DEF TypeOK, PoolInv, Workers
  <2>5. LateInv'
    BY <2>0, <2>00 DEF TypeOK, LateInv, FailureInv
  <2>6. ReturnedInOrder' /\ NoWorkerOutlivesTheMap'
    BY DEF ReturnedInOrder, NoWorkerOutlivesTheMap
  <2>. QED
    BY <2>1, <2>2, <2>3, <2>4, <2>5, <2>6
<1>2. CASE SpawnFails
  <2> USE <1>2 DEF SpawnFails, workerVars
  <2>1. TypeOK'
    BY DEF TypeOK
  <2>2. ClaimsInv' /\ FailureInv' /\ PoolInv'
    BY DEF TypeOK, ClaimsInv, FailureInv, PoolInv, Holds
  <2>3. LateInv'
    <3>1. pc[WorkerCount] = "unborn" /\ WorkerCount \in Workers
      BY DEF PoolInv, TypeOK, Workers
    <3>2. CASE failed
      BY <3>2 DEF LateInv
    <3>3. CASE ~failed
      BY <3>1, <3>3 DEF LateInv, TypeOK
    <3>. QED
      BY <3>2, <3>3 DEF TypeOK
  <2>4. ReturnedInOrder' /\ NoWorkerOutlivesTheMap'
    BY DEF ReturnedInOrder, NoWorkerOutlivesTheMap
  <2>. QED
    BY <2>1, <2>2, <2>3, <2>4
<1>3. CASE JoinAfterSpawnError
  <2> USE <1>3 DEF JoinAfterSpawnError, workerVars
  <2>1. TypeOK' /\ ClaimsInv' /\ FailureInv' /\ PoolInv' /\ LateInv'
    BY DEF TypeOK, ClaimsInv, FailureInv, PoolInv, LateInv, Holds
  <2>2. ReturnedInOrder' /\ NoWorkerOutlivesTheMap'
    BY DEF ReturnedInOrder, NoWorkerOutlivesTheMap, Joined, PoolInv, TypeOK, Workers
  <2>. QED
    BY <2>1, <2>2
<1>4. CASE JoinAll
  <2> USE <1>4 DEF JoinAll, workerVars
  <2>1. TypeOK' /\ ClaimsInv' /\ FailureInv' /\ PoolInv' /\ LateInv'
    BY DEF TypeOK, ClaimsInv, FailureInv, PoolInv, LateInv, Holds
  <2>2. NoWorkerOutlivesTheMap'
    BY DEF NoWorkerOutlivesTheMap, Joined, PoolInv, TypeOK, Workers
  <2>3. ReturnedInOrder'
    BY JoinedWithoutFailure DEF ReturnedInOrder, Inputs
  <2>. QED
    BY <2>1, <2>2, <2>3
<1>. QED
  BY <1>1, <1>2, <1>3, <1>4 DEF MainStep

(* A worker that moves is born and not done, so the map has not ended.     *)
LEMMA WorkerMovesWhileBusy ==
  ASSUME IInv, NEW w \in Workers, WorkerStep(w)
  PROVE  main \notin {"returned", "threw"}
BY DEF IInv, NoWorkerOutlivesTheMap, WorkerStep, TestFailed, Claim,
       CallReturns, CallThrows, KeepFailure, StopBatch

(* Each step of a worker keeps the invariant.                              *)
LEMMA WorkerStepIInv ==
  ASSUME IInv, NEW w \in Workers, WorkerStep(w)
  PROVE  IInv'
<1> USE WorkerCountPositive, SizesAssumption, MarkersAssumption DEF IInv
<1>0. main' = main /\ main \notin {"returned", "threw"}
  BY WorkerMovesWhileBusy
     DEF WorkerStep, TestFailed, Claim, CallReturns, CallThrows, KeepFailure, StopBatch
<1>00. ReturnedInOrder' /\ NoWorkerOutlivesTheMap'
  BY <1>0 DEF ReturnedInOrder, NoWorkerOutlivesTheMap
<1>1. CASE TestFailed(w)
  <2> USE <1>1 DEF TestFailed
  <2>1. TypeOK'
    BY DEF TypeOK
  <2>2. ClaimsInv'
    BY DEF TypeOK, ClaimsInv, Holds
  <2>3. FailureInv'
    BY DEF TypeOK, FailureInv, Holds
  <2>4. PoolInv'
    BY DEF TypeOK, PoolInv
  <2>5. LateInv'
    BY DEF TypeOK, LateInv
  <2>. QED
    BY <1>00, <2>1, <2>2, <2>3, <2>4, <2>5
<1>2. CASE Claim(w)
  <2> USE <1>2 DEF Claim
  <2>0. next \in Nat /\ next' = next + 1 /\ (next < InputCount => next \in Inputs)
    BY DEF TypeOK, Inputs
  <2>1. TypeOK'
    BY <2>0 DEF TypeOK
  <2>2. ClaimsInv'
    <3>1. CASE next >= InputCount
      <4>1. pc' = [pc EXCEPT ![w] = "done"] /\ item' = item
        BY <2>0, <3>1
      <4>2. \A v \in Workers : pc'[v] \in {"call", "catch"} <=> pc[v] \in {"call", "catch"}
        BY <4>1 DEF TypeOK
      <4>3. \A i \in Inputs : i < next
        BY <2>0, <3>1 DEF Inputs
      <4>. QED
        BY <2>0, <4>1, <4>2, <4>3 DEF ClaimsInv, Holds, Inputs
    <3>2. CASE next < InputCount
      <4>1. slots[next] = Nothing /\ \A v \in Workers : ~Holds(v, next)
        BY <2>0, <3>2 DEF TypeOK, ClaimsInv, Holds
      <4>2. /\ pc' = [pc EXCEPT ![w] = "call"]
            /\ item' = [item EXCEPT ![w] = next]
        BY <2>0, <3>2
      <4>3. \A v \in Workers : pc'[v] \in {"call", "catch"} =>
              /\ item'[v] \in Inputs
              /\ item'[v] < next'
              /\ slots'[item'[v]] = Nothing
        BY <2>0, <3>2, <4>1, <4>2 DEF TypeOK, ClaimsInv, Inputs
      <4>4. \A u, v \in Workers :
              pc'[u] \in {"call", "catch"} /\ Holds(v, item[u])' => u = v
        BY <4>1, <4>2 DEF TypeOK, ClaimsInv, Holds
      <4>5. \A i \in Inputs : slots'[i] # Nothing => slots'[i] = i /\ i < next'
        BY <2>0 DEF ClaimsInv, Inputs
      <4>6. \A i \in Inputs : i < next' /\ slots'[i] = Nothing =>
              failure' # Nothing \/ \E v \in Workers : Holds(v, i)'
        BY <2>0, <3>2, <4>2 DEF TypeOK, ClaimsInv, Holds, Inputs
      <4>. QED
        BY <4>3, <4>4, <4>5, <4>6 DEF ClaimsInv
    <3>. QED
      BY <2>0, <3>1, <3>2
  <2>3. FailureInv'
    BY DEF TypeOK, FailureInv, Holds, Inputs
  <2>4. PoolInv'
    BY DEF TypeOK, PoolInv
  <2>5. LateInv'
    BY DEF TypeOK, LateInv
  <2>. QED
    BY <1>00, <2>1, <2>2, <2>3, <2>4, <2>5
<1>3. CASE CallReturns(w)
  <2> USE <1>3 DEF CallReturns
  <2>1. TypeOK'
    BY DEF TypeOK, ClaimsInv
  <2>2. ClaimsInv'
    BY DEF TypeOK, ClaimsInv, Holds, Inputs
  <2>3. FailureInv'
    BY DEF TypeOK, FailureInv, ClaimsInv, Holds, Inputs
  <2>4. PoolInv'
    BY DEF TypeOK, PoolInv
  <2>5. LateInv'
    BY DEF TypeOK, LateInv
  <2>. QED
    BY <1>00, <2>1, <2>2, <2>3, <2>4, <2>5
<1>4. CASE CallThrows(w)
  <2> USE <1>4 DEF CallThrows
  <2>1. TypeOK'
    BY DEF TypeOK
  <2>2. ClaimsInv'
    BY DEF TypeOK, ClaimsInv, Holds
  <2>3. FailureInv'
    BY DEF TypeOK, FailureInv, Holds
  <2>4. PoolInv'
    BY DEF TypeOK, PoolInv
  <2>5. LateInv'
    BY DEF TypeOK, LateInv
  <2>. QED
    BY <1>00, <2>1, <2>2, <2>3, <2>4, <2>5
<1>5. CASE KeepFailure(w)
  <2> USE <1>5 DEF KeepFailure
  <2>1. TypeOK'
    BY DEF TypeOK, ClaimsInv
  <2>2. ClaimsInv'
    BY DEF TypeOK, ClaimsInv, Holds, Inputs
  <2>3. FailureInv'
    BY DEF TypeOK, FailureInv, ClaimsInv, Holds, Inputs
  <2>4. PoolInv'
    BY DEF TypeOK, PoolInv
  <2>5. LateInv'
    BY DEF TypeOK, LateInv
  <2>. QED
    BY <1>00, <2>1, <2>2, <2>3, <2>4, <2>5
<1>6. CASE StopBatch(w)
  <2> USE <1>6 DEF StopBatch
  <2>1. TypeOK'
    BY DEF TypeOK
  <2>2. ClaimsInv'
    BY DEF TypeOK, ClaimsInv, Holds
  <2>3. FailureInv'
    BY DEF TypeOK, FailureInv, Holds
  <2>4. PoolInv'
    BY DEF TypeOK, PoolInv
  <2>5. LateInv'
    BY DEF TypeOK, LateInv
  <2>. QED
    BY <1>00, <2>1, <2>2, <2>3, <2>4, <2>5
<1>. QED
  BY <1>1, <1>2, <1>3, <1>4, <1>5, <1>6 DEF WorkerStep

(* The invariant holds in every reachable state of the pool.               *)
THEOREM Invariance == Spec => []IInv
<1>1. IInv /\ [Next]_vars => IInv'
  <2> SUFFICES ASSUME IInv, [Next]_vars PROVE IInv'
    OBVIOUS
  <2>1. CASE MainStep
    BY <2>1, MainStepIInv
  <2>2. CASE \E w \in Workers : WorkerStep(w)
    BY <2>2, WorkerStepIInv
  <2>3. CASE UNCHANGED vars
    BY <2>3 DEF vars, workerVars, IInv, TypeOK, ClaimsInv, FailureInv, PoolInv,
                LateInv, Holds, ReturnedInOrder, NoWorkerOutlivesTheMap
  <2>. QED
    BY <2>1, <2>2, <2>3 DEF Next
<1>. QED
  BY InitIInv, <1>1, PTL DEF Spec

(* The variables keep their types.                                         *)
THEOREM TypeCorrect == Spec => []TypeOK
<1>1. IInv => TypeOK
  BY DEF IInv
<1>. QED
  BY Invariance, <1>1, PTL

(* A returned vector is complete and in input order.                       *)
THEOREM ReturnsInOrder == Spec => []ReturnedInOrder
<1>1. IInv => ReturnedInOrder
  BY DEF IInv
<1>. QED
  BY Invariance, <1>1, PTL

(* No worker is alive once the map has returned or thrown.                 *)
THEOREM JoinsItsWorkers == Spec => []NoWorkerOutlivesTheMap
<1>1. IInv => NoWorkerOutlivesTheMap
  BY DEF IInv
<1>. QED
  BY Invariance, <1>1, PTL

(* A stopped batch starts at most one more call per worker, and none in    *)
(* one of them.                                                            *)
THEOREM StopsSoon == Spec => []FewLateClaims
<1>1. IInv => FewLateClaims
  <2> SUFFICES ASSUME IInv PROVE FewLateClaims
    OBVIOUS
  <2>1. \A w \in Workers : late[w] <= 1
    BY DEF IInv, LateInv
  <2>2. \E w \in Workers : late[w] = 0
    <3>1. CASE failed
      BY <3>1 DEF IInv, LateInv
    <3>2. CASE ~failed
      <4>1. 1 \in Workers
        BY WorkerCountPositive DEF Workers
      <4>2. late[1] \in Nat /\ late[1] <= 1 /\ late[1] # 1
        BY <3>2, <4>1 DEF IInv, LateInv, TypeOK
      <4>. QED
        BY <4>1, <4>2
    <3>. QED
      BY <3>1, <3>2
  <2>. QED
    BY <2>1, <2>2 DEF FewLateClaims
<1>. QED
  BY Invariance, <1>1, PTL
-----------------------------------------------------------------------------
(* The refinement.  Calls is the abstract variable calls.                  *)
Calls == [i \in Inputs |-> Call(i)]

(* The mapped initial state is an initial state of the ordered map.        *)
LEMMA InitMaps == Init => Abstract!Init
BY SizesAssumption DEF Init, Abstract!Init, Abstract!Inputs, Inputs, Call, Status

(* While a worker moves the map is busy before and after.                  *)
LEMMA WorkerStepIsBusy ==
  ASSUME IInv, NEW w \in Workers, WorkerStep(w)
  PROVE  /\ Status = "busy" /\ Status' = "busy"
         /\ results' = results /\ raised' = raised
BY WorkerMovesWhileBusy
   DEF Status, WorkerStep, TestFailed, Claim, CallReturns, CallThrows,
       KeepFailure, StopBatch

(* A step that leaves counter, slots and running calls alone leaves the    *)
(* abstract calls alone.                                                   *)
LEMMA QuietStep ==
  ASSUME next' = next, slots' = slots, item' = item,
         \A w \in Workers : pc'[w] = "call" <=> pc[w] = "call"
  PROVE  Calls' = Calls
BY DEF Calls, Call

(* Claiming an input starts its call; running past the end is a stutter.   *)
LEMMA ClaimMaps ==
  ASSUME IInv, NEW w \in Workers, Claim(w)
  PROVE  (\E i \in Inputs : Abstract!Start(i)) \/ UNCHANGED Abstract!vars
<1> USE SizesAssumption DEF Claim, IInv
<1>1. /\ Status = "busy" /\ Status' = "busy"
      /\ results' = results /\ raised' = raised
  BY WorkerStepIsBusy DEF WorkerStep
<1>2. next \in Nat /\ next' = next + 1 /\ slots' = slots /\ pc[w] = "claim"
  BY DEF TypeOK
<1>3. CASE next >= InputCount
  <2>1. \A i \in Inputs : i < next /\ i < next'
    BY <1>2, <1>3 DEF Inputs
  <2>2. item' = item /\ \A v \in Workers : pc'[v] = "call" <=> pc[v] = "call"
    BY <1>2, <1>3 DEF TypeOK
  <2>3. Calls' = Calls
    <3>1. \A i \in Inputs : ~(i >= next) /\ ~(i >= next')
      BY <1>2, <2>1 DEF Inputs
    <3>. QED
      BY <1>2, <2>2, <3>1 DEF Call, Calls
  <2>. QED
    BY <1>1, <2>3 DEF Abstract!vars, Abstract!Inputs, Calls
<1>4. CASE next < InputCount
  <2>1. PICK i \in Inputs : i = next
    BY <1>2, <1>4 DEF Inputs
  <2>2. slots[i] = Nothing /\ Call(i) = "pending"
    BY <1>2, <2>1 DEF ClaimsInv, Call, Inputs
  <2>3. pc' = [pc EXCEPT ![w] = "call"] /\ item' = [item EXCEPT ![w] = i]
    BY <1>2, <1>4, <2>1
  <2>4. Call(i)' = "running"
    BY <1>2, <2>1, <2>2, <2>3 DEF Call, TypeOK, Inputs
  <2>5. \A j \in Inputs : j # i => Call(j)' = Call(j)
    <3>1. \A j \in Inputs : j # i => (j >= next <=> j >= next')
      BY <1>2, <2>1 DEF Inputs
    <3>2. \A j \in Inputs, v \in Workers : j # i =>
            (pc'[v] = "call" /\ item'[v] = j <=> pc[v] = "call" /\ item[v] = j)
      BY <1>2, <2>3 DEF TypeOK
    <3>. QED
      BY <1>2, <3>1, <3>2 DEF Call
  <2>6. Calls' = [Calls EXCEPT ![i] = "running"]
    BY <2>4, <2>5 DEF Calls
  <2>7. Abstract!Start(i)
    BY <1>1, <2>2, <2>6 DEF Abstract!Start, Abstract!Inputs, Calls
  <2>. QED
    BY <2>7
<1>. QED
  BY <1>2, <1>3, <1>4 DEF TypeOK

(* A call that returns or throws finishes.                                 *)
LEMMA CallEndMaps ==
  ASSUME IInv, NEW w \in Workers, CallReturns(w) \/ CallThrows(w)
  PROVE  \E i \in Inputs : Abstract!Finish(i)
<1> USE SizesAssumption, MarkersAssumption DEF IInv
<1>1. /\ Status = "busy" /\ Status' = "busy"
      /\ results' = results /\ raised' = raised
  BY WorkerStepIsBusy DEF WorkerStep
<1>2. PICK i \in Inputs : i = item[w]
  BY DEF CallReturns, CallThrows, ClaimsInv
<1>3. pc[w] = "call" /\ slots[i] = Nothing /\ i < next /\ ~(i >= next)
  BY <1>2 DEF CallReturns, CallThrows, ClaimsInv, TypeOK, Inputs
<1>4. Call(i) = "running"
  BY <1>2, <1>3 DEF Call
<1>5. \A v \in Workers : v # w => ~(pc[v] = "call" /\ item[v] = i)
  BY <1>2, <1>3 DEF ClaimsInv, Holds
<1>6. next' = next /\ item' = item /\ \A v \in Workers : v # w => pc'[v] = pc[v]
  BY DEF CallReturns, CallThrows, TypeOK
<1>7. pc'[w] # "call"
  BY DEF CallReturns, CallThrows, TypeOK
<1>8. Call(i)' \in {"ok", "threw"}
  <2>1. CASE CallReturns(w)
    <3>1. slots'[i] = i
      BY <1>2, <2>1 DEF CallReturns, TypeOK
    <3>2. i # Nothing
      BY DEF Inputs
    <3>. QED
      BY <3>1, <3>2 DEF Call
  <2>2. CASE CallThrows(w)
    BY <1>3, <1>5, <1>6, <1>7, <2>2 DEF Call, CallThrows
  <2>. QED
    BY <2>1, <2>2
<1>9. \A j \in Inputs : j # i => Call(j)' = Call(j)
  <2>1. \A j \in Inputs : j # i => slots'[j] = slots[j]
    BY <1>2 DEF CallReturns, CallThrows, TypeOK
  <2>2. \A j \in Inputs, v \in Workers : j # i =>
          (pc'[v] = "call" /\ item'[v] = j <=> pc[v] = "call" /\ item[v] = j)
    BY <1>2, <1>6, <1>7
  <2>. QED
    BY <1>6, <2>1, <2>2 DEF Call
<1>10. Calls' = [Calls EXCEPT ![i] = Call(i)']
  BY <1>9 DEF Calls
<1>11. Abstract!Finish(i)
  BY <1>1, <1>4, <1>8, <1>10 DEF Abstract!Finish, Abstract!Inputs, Calls
<1>. QED
  BY <1>11

(* Every other step of a worker is a stutter.                              *)
LEMMA OtherWorkerStepMaps ==
  ASSUME IInv, NEW w \in Workers, TestFailed(w) \/ KeepFailure(w) \/ StopBatch(w)
  PROVE  UNCHANGED Abstract!vars
<1>1. /\ Status = "busy" /\ Status' = "busy"
      /\ results' = results /\ raised' = raised
  BY WorkerStepIsBusy DEF WorkerStep
<1>2. next' = next /\ slots' = slots /\ item' = item
  BY DEF TestFailed, KeepFailure, StopBatch
<1>3. \A v \in Workers : pc'[v] = "call" <=> pc[v] = "call"
  BY DEF TestFailed, KeepFailure, StopBatch, IInv, TypeOK
<1>4. Calls' = Calls
  BY <1>2, <1>3, QuietStep
<1>. QED
  BY <1>1, <1>4 DEF Abstract!vars, Abstract!Inputs, Calls

(* When every worker has been joined no call is running.                   *)
LEMMA JoinedMeansIdle ==
  ASSUME IInv, main \in {"abort", "join"}, Joined
  PROVE  \A i \in Inputs : Call(i) # "running"
<1>1. \A w \in Workers : pc[w] # "call"
  BY DEF IInv, PoolInv, TypeOK, Joined, Workers
<1>. QED
  BY <1>1 DEF Call

(* The main thread's steps: the join raises or returns.                    *)
LEMMA MainStepMaps ==
  ASSUME IInv, MainStep
  PROVE  Abstract!Return \/ Abstract!Raise \/ UNCHANGED Abstract!vars
<1> USE SizesAssumption, MarkersAssumption DEF IInv
<1>1. CASE Spawn \/ SpawnFails
  <2>1. next' = next /\ slots' = slots /\ item' = item /\ results' = results /\ raised' = raised
    BY <1>1 DEF Spawn, SpawnFails, workerVars
  <2>2. \A w \in Workers : pc'[w] = "call" <=> pc[w] = "call"
    <3>1. CASE SpawnFails
      BY <3>1 DEF SpawnFails, workerVars
    <3>2. CASE Spawn
      <4>1. spawned + 1 \in Workers /\ pc[spawned + 1] = "unborn"
        BY <3>2, WorkerCountPositive DEF Spawn, PoolInv, TypeOK, Workers
      <4>. QED
        BY <3>2, <4>1 DEF Spawn, TypeOK
    <3>. QED
      BY <1>1, <3>1, <3>2
  <2>3. Status = "busy" /\ Status' = "busy"
    BY <1>1 DEF Status, Spawn, SpawnFails
  <2>4. Calls' = Calls
    BY <2>1, <2>2, QuietStep
  <2>. QED
    BY <2>1, <2>3, <2>4 DEF Abstract!vars, Abstract!Inputs, Calls
<1>2. CASE JoinAfterSpawnError \/ JoinAll
  <2>1. UNCHANGED workerVars /\ main \in {"abort", "join"} /\ Joined
    BY <1>2 DEF JoinAfterSpawnError, JoinAll
  <2>2. Calls' = Calls
    BY <2>1, QuietStep DEF workerVars
  <2>3. \A i \in Inputs : Call(i) # "running"
    BY <2>1, JoinedMeansIdle
  <2>4. Status = "busy"
    BY <2>1 DEF Status
  <2>5. CASE JoinAfterSpawnError
    BY <2>2, <2>3, <2>4, <2>5
       DEF JoinAfterSpawnError, Abstract!Raise, Abstract!Inputs, Calls, Inputs, Status
  <2>6. CASE JoinAll /\ failure # Nothing
    <3>1. PICK i \in Inputs : i = failure
      BY <2>6 DEF TypeOK
    <3>2. Call(i) = "threw"
      BY <2>6, <3>1 DEF FailureInv, Call, Holds, Inputs, TypeOK
    <3>. QED
      BY <2>2, <2>3, <2>4, <2>6, <3>1, <3>2
         DEF JoinAll, Abstract!Raise, Abstract!Inputs, Calls, Inputs, Status
  <2>7. CASE JoinAll /\ failure = Nothing
    <3>1. slots = [i \in Inputs |-> i]
      BY <2>7, JoinedWithoutFailure DEF JoinAll
    <3>2. \A i \in Inputs : Call(i) = "ok"
      BY <3>1 DEF Call, Inputs
    <3>. QED
      BY <2>2, <2>4, <2>7, <3>1, <3>2
         DEF JoinAll, Abstract!Return, Abstract!Inputs, Calls, Inputs, Status
  <2>. QED
    BY <1>2, <2>5, <2>6, <2>7
<1>. QED
  BY <1>1, <1>2 DEF MainStep

(* The worker pool implements the ordered map: every behaviour of the      *)
(* threads is, seen by the caller, one of OrderedMap.                      *)
THEOREM Refinement == Spec => ImplementsOrderedMap
<1>1. IInv /\ [Next]_vars => [Abstract!Next]_(Abstract!vars)
  <2> SUFFICES ASSUME IInv, [Next]_vars PROVE Abstract!Next \/ UNCHANGED Abstract!vars
    OBVIOUS
  <2>1. CASE MainStep
    BY <2>1, MainStepMaps DEF Abstract!Next
  <2>2. CASE \E w \in Workers : WorkerStep(w)
    BY <2>2, ClaimMaps, CallEndMaps, OtherWorkerStepMaps
       DEF WorkerStep, Abstract!Next, Abstract!Inputs, Inputs
  <2>3. CASE UNCHANGED vars
    BY <2>3 DEF vars, workerVars, Abstract!vars, Abstract!Inputs, Call, Inputs, Status
  <2>. QED
    BY <2>1, <2>2, <2>3 DEF Next
<1>. QED
  BY InitMaps, Invariance, <1>1, PTL DEF Spec, Abstract!Spec, ImplementsOrderedMap
=============================================================================
