---------------------------- MODULE ParallelMap -----------------------------
(***************************************************************************)
(* ParallelMapOrdered of include/environmental_grib/parallel.h: the worker *)
(* pool under every batch of downloads.  The calling thread ("main")       *)
(* creates the workers one by one, the workers claim inputs from an atomic *)
(* counter, a worker whose call throws keeps the first error under a mutex *)
(* and then stops the batch, and main joins every worker before it returns *)
(* the results or rethrows.  Each action is one step of one thread that    *)
(* another thread can see.                                                 *)
(***************************************************************************)
EXTENDS Naturals, FiniteSets

CONSTANTS
  InputCount,           \* inputs.size()
  MaximumConcurrency,   \* maximum_concurrency
  Nothing,              \* an empty optional, a null exception_ptr
  SpawnError            \* the error of std::thread's constructor

(* An empty batch returns an empty vector before any of this happens.       *)
ASSUME SizesAssumption == InputCount \in Nat \ {0} /\ MaximumConcurrency \in Nat
ASSUME MarkersAssumption == /\ Nothing \notin Nat
                            /\ SpawnError \notin Nat
                            /\ Nothing # SpawnError

Inputs == 0 .. InputCount - 1

WorkerCount ==
  LET wanted == IF MaximumConcurrency < InputCount
                THEN MaximumConcurrency ELSE InputCount
  IN  IF wanted < 1 THEN 1 ELSE wanted

Workers == 1 .. WorkerCount

VARIABLES
  main,      \* where the calling thread is
  spawned,   \* workers.size()
  pc,        \* where each worker is
  item,      \* the index each worker claimed last
  next,      \* the atomic claim counter
  failed,    \* the atomic stop flag
  failure,   \* the first error kept: the input whose call threw
  slots,     \* slots[i]: the result of input i (written i), or Nothing
  results,   \* the vector main returned
  raised,    \* the error main threw
  late       \* history: inputs each worker claimed after the stop flag was set

workerVars == <<pc, item, next, failure, slots, late>>
vars == <<main, spawned, failed, results, raised, workerVars>>

Init == /\ main = "spawn"
        /\ spawned = 0
        /\ pc = [w \in Workers |-> "unborn"]
        /\ item = [w \in Workers |-> Nothing]
        /\ next = 0
        /\ failed = FALSE
        /\ failure = Nothing
        /\ slots = [i \in Inputs |-> Nothing]
        /\ results = Nothing
        /\ raised = Nothing
        /\ late = [w \in Workers |-> 0]
-----------------------------------------------------------------------------
(* The calling thread.                                                     *)

Spawn == /\ main = "spawn"
         /\ spawned' = spawned + 1
         /\ pc' = [pc EXCEPT ![spawned + 1] = "test"]
         /\ main' = IF spawned + 1 = WorkerCount THEN "join" ELSE "spawn"
         /\ UNCHANGED <<failed, results, raised, item, next, failure, slots, late>>

(* std::thread's constructor throws: stop the batch, join what was created.*)
SpawnFails == /\ main = "spawn"
              /\ failed' = TRUE
              /\ main' = "abort"
              /\ UNCHANGED <<spawned, results, raised, workerVars>>

(* Mutant: joins a worker for every one wanted, created or not.            *)
JoinedAllWanted == \A w \in Workers : pc[w] = "done"

Joined == \A w \in 1 .. spawned : pc[w] = "done"

JoinAfterSpawnError == /\ main = "abort" /\ Joined
                       /\ main' = "threw"
                       /\ raised' = SpawnError
                       /\ UNCHANGED <<spawned, failed, results, workerVars>>

(* Mutant: results in whatever order the workers filled them, the first    *)
(* two swapped.                                                            *)
SwappedReturn == /\ main = "join" /\ Joined
                 /\ IF failure # Nothing
                    THEN /\ main' = "threw"
                         /\ raised' = failure
                         /\ UNCHANGED results
                    ELSE /\ main' = "returned"
                         /\ results' = [slots EXCEPT ![0] = slots[1], ![1] = slots[0]]
                         /\ UNCHANGED raised
                 /\ UNCHANGED <<spawned, failed, workerVars>>

(* Mutant: the error is rethrown as soon as it is there, before the join.  *)
EarlyRethrow == /\ main = "join"
                /\ IF failure # Nothing
                   THEN /\ main' = "threw"
                        /\ raised' = failure
                        /\ UNCHANGED results
                   ELSE /\ Joined
                        /\ main' = "returned"
                        /\ results' = slots
                        /\ UNCHANGED raised
                /\ UNCHANGED <<spawned, failed, workerVars>>

JoinAll == /\ main = "join" /\ Joined
           /\ IF failure # Nothing
              THEN /\ main' = "threw"
                   /\ raised' = failure
                   /\ UNCHANGED results
              ELSE /\ main' = "returned"
                   /\ results' = slots
                   /\ UNCHANGED raised
           /\ UNCHANGED <<spawned, failed, workerVars>>
-----------------------------------------------------------------------------
(* A worker.                                                               *)

(* while (!failed.load())                                                  *)
TestFailed(w) == /\ pc[w] = "test"
                 /\ pc' = [pc EXCEPT ![w] = IF failed THEN "done" ELSE "claim"]
                 /\ UNCHANGED <<main, spawned, failed, results, raised,
                                item, next, failure, slots, late>>

(* Mutant: the bound test is off by one.                                   *)
ClaimPastEnd(w) ==
  /\ pc[w] = "claim"
  /\ next' = next + 1
  /\ IF next > InputCount
     THEN /\ pc' = [pc EXCEPT ![w] = "done"]
          /\ UNCHANGED <<item, late>>
     ELSE /\ pc' = [pc EXCEPT ![w] = "call"]
          /\ item' = [item EXCEPT ![w] = next]
          /\ late' = [late EXCEPT ![w] = IF failed THEN @ + 1 ELSE @]
  /\ UNCHANGED <<main, spawned, failed, results, raised, failure, slots>>

(* next.fetch_add(1), and leave when the counter is past the last input.   *)
Claim(w) ==
  /\ pc[w] = "claim"
  /\ next' = next + 1
  /\ IF next >= InputCount
     THEN /\ pc' = [pc EXCEPT ![w] = "done"]
          /\ UNCHANGED <<item, late>>
     ELSE /\ pc' = [pc EXCEPT ![w] = "call"]
          /\ item' = [item EXCEPT ![w] = next]
          /\ late' = [late EXCEPT ![w] = IF failed THEN @ + 1 ELSE @]
  /\ UNCHANGED <<main, spawned, failed, results, raised, failure, slots>>

CallReturns(w) == /\ pc[w] = "call"
                  /\ slots' = [slots EXCEPT ![item[w]] = item[w]]
                  /\ pc' = [pc EXCEPT ![w] = "test"]
                  /\ UNCHANGED <<main, spawned, failed, results, raised,
                                 item, next, failure, late>>

(* Mutant: a throwing call ends its worker and nothing else.               *)
CallThrowsSilently(w) ==
  /\ pc[w] = "call"
  /\ pc' = [pc EXCEPT ![w] = "done"]
  /\ UNCHANGED <<main, spawned, failed, results, raised, item, next,
                 failure, slots, late>>

CallThrows(w) == /\ pc[w] = "call"
                 /\ pc' = [pc EXCEPT ![w] = "catch"]
                 /\ UNCHANGED <<main, spawned, failed, results, raised,
                                item, next, failure, slots, late>>

(* Under failure_mutex: the first error is kept.                           *)
KeepFailure(w) == /\ pc[w] = "catch"
                  /\ failure' = IF failure = Nothing THEN item[w] ELSE failure
                  /\ pc' = [pc EXCEPT ![w] = "stop"]
                  /\ UNCHANGED <<main, spawned, failed, results, raised,
                                 item, next, slots, late>>

StopBatch(w) == /\ pc[w] = "stop"
                /\ failed' = TRUE
                /\ pc' = [pc EXCEPT ![w] = "done"]
                /\ UNCHANGED <<main, spawned, results, raised,
                               item, next, failure, slots, late>>
-----------------------------------------------------------------------------
MainStep == Spawn \/ SpawnFails \/ JoinAfterSpawnError \/ JoinAll

WorkerStep(w) == \/ TestFailed(w) \/ Claim(w)
                 \/ CallReturns(w) \/ CallThrows(w)
                 \/ KeepFailure(w) \/ StopBatch(w)

Next == MainStep \/ \E w \in Workers : WorkerStep(w)

Spec == Init /\ [][Next]_vars

(* Every thread keeps running, and a call ends: each one is a download     *)
(* under a timeout (60 s or more) with a bounded number of attempts.       *)
FairSpec == /\ Spec
            /\ WF_vars(MainStep)
            /\ \A w \in Workers : WF_vars(WorkerStep(w))
-----------------------------------------------------------------------------
TypeOK == /\ main \in {"spawn", "abort", "join", "returned", "threw"}
          /\ spawned \in 0 .. WorkerCount
          /\ pc \in [Workers -> {"unborn", "test", "claim", "call", "catch",
                                 "stop", "done"}]
          /\ item \in [Workers -> Inputs \cup {Nothing}]
          /\ next \in Nat
          /\ failed \in BOOLEAN
          /\ failure \in Inputs \cup {Nothing}
          /\ slots \in [Inputs -> Inputs \cup {Nothing}]
          /\ results \in [Inputs -> Inputs \cup {Nothing}] \cup {Nothing}
          /\ raised \in Inputs \cup {Nothing, SpawnError}
          /\ late \in [Workers -> Nat]

(* The map returns only when no call threw, and then result i is input     *)
(* i's: no error is swallowed and no slot is empty or misplaced, however   *)
(* the workers interleave (the dereference of an empty optional in the     *)
(* last loop of the function would be undefined behaviour).                *)
ReturnedInOrder ==
  main = "returned" => results = [i \in Inputs |-> i]

(* "All workers are joined before an exception is rethrown, so callers can *)
(* safely clean temporary files after a failed batch": once the map has    *)
(* returned or thrown, no worker is alive.                                 *)
NoWorkerOutlivesTheMap ==
  main \in {"returned", "threw"} =>
    \A w \in Workers : pc[w] \in {"unborn", "done"}

(* After the stop flag is set each worker starts at most one more call,    *)
(* the one it had already decided on, and at least one worker starts none: *)
(* a failed batch ends after the calls in flight, not after every input.   *)
FewLateClaims == /\ \A w \in Workers : late[w] <= 1
                 /\ \E w \in Workers : late[w] = 0

(* The pool always ends: no worker waits for another, and main's joins     *)
(* return.                                                                 *)
MapEnds == <>(main \in {"returned", "threw"})
-----------------------------------------------------------------------------
(* The strengthening that makes the three safety properties inductive.     *)
Holds(w, i) == pc[w] \in {"call", "catch"} /\ item[w] = i

(* Each input below the counter is claimed once: by a worker that still    *)
(* holds it, by one that filled its slot, or by one whose error is kept.   *)
ClaimsInv ==
  /\ \A w \in Workers : pc[w] \in {"call", "catch"} =>
       /\ item[w] \in Inputs
       /\ item[w] < next
       /\ slots[item[w]] = Nothing
  /\ \A v, w \in Workers :
       pc[v] \in {"call", "catch"} /\ Holds(w, item[v]) => v = w
  /\ \A i \in Inputs : slots[i] # Nothing => slots[i] = i /\ i < next
  /\ \A i \in Inputs : i < next /\ slots[i] = Nothing =>
       failure # Nothing \/ \E w \in Workers : Holds(w, i)

(* The error kept belongs to an input that was claimed, got no result and  *)
(* is no longer held; a set stop flag has an error behind it.              *)
FailureInv ==
  /\ failure # Nothing => /\ failure < next
                          /\ slots[failure] = Nothing
                          /\ \A w \in Workers : ~Holds(w, failure)
  /\ \A w \in Workers : pc[w] = "stop" => failure # Nothing
  /\ failed => failure # Nothing \/ main \in {"abort", "threw"}

(* Which workers exist, and why a worker is done.                          *)
PoolInv ==
  /\ \A w \in Workers : pc[w] = "unborn" <=> w > spawned
  /\ main = "spawn" => spawned < WorkerCount
  /\ main \in {"join", "returned"} => spawned = WorkerCount
  /\ \A w \in Workers : pc[w] = "done" => failed \/ next >= InputCount
  /\ main = "abort" => failed

LateInv ==
  /\ \A w \in Workers : late[w] <= 1 /\ (late[w] = 1 => failed /\ pc[w] # "claim")
  /\ failed => \E w \in Workers :
       late[w] = 0 /\ (pc[w] = "done" \/ (pc[w] = "unborn" /\ main # "spawn"))

(* What holds between any two steps of the pool: every claimed input is    *)
(* accounted for, an error is never lost, a late claim happens once.       *)
IInv == /\ TypeOK
        /\ ClaimsInv
        /\ FailureInv
        /\ PoolInv
        /\ LateInv
        /\ ReturnedInOrder
        /\ NoWorkerOutlivesTheMap
-----------------------------------------------------------------------------
(* What the pool implements: see module OrderedMap.                        *)
Call(i) ==
  IF slots[i] # Nothing THEN "ok"
  ELSE IF i >= next THEN "pending"
  ELSE IF \E w \in Workers : pc[w] = "call" /\ item[w] = i THEN "running"
  ELSE "threw"

Status == IF main \in {"returned", "threw"} THEN main ELSE "busy"

Abstract == INSTANCE OrderedMap
              WITH calls <- [i \in Inputs |-> Call(i)], status <- Status

(* Every step of the pool is a step of the ordered map, or none: an input  *)
(* is started once, a return needs every call to have returned, and an     *)
(* error raised is one that happened.                                      *)
ImplementsOrderedMap == Abstract!Spec
=============================================================================
