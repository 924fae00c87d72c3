-------------------------- MODULE RetryingDownload --------------------------
(***************************************************************************)
(* MakeRetryingHttpGet and MakeRetryingHttpGetRange (src/weather.cpp): the *)
(* threads of a job, the workers of ParallelMap among them, each make one  *)
(* call after another.  A call tries its download again after a transient  *)
(* error, waiting twice as long each time; DownloadPermit, a semaphore of  *)
(* the whole process, bounds the transfers under way.  Reporting and the   *)
(* bytes themselves are left out.                                          *)
(***************************************************************************)
EXTENDS Naturals, FiniteSets

CONSTANTS
  Threads,         \* the threads that download
  Slots,           \* permits of the semaphore, 8 in the code
  MaxAttempts,     \* HttpRetryPolicy.max_attempts
  InitialDelay,    \* HttpRetryPolicy.initial_delay_ms
  MaximumDelay,    \* HttpRetryPolicy.maximum_delay_ms
  MaxCalls         \* bound: calls a thread makes

(* The policies the two functions let through.                             *)
ASSUME PolicyAssumption ==
  /\ IsFiniteSet(Threads)
  /\ Slots \in Nat \ {0}
  /\ MaxAttempts \in Nat \ {0}
  /\ InitialDelay \in Nat /\ MaximumDelay \in Nat /\ InitialDelay <= MaximumDelay
  /\ MaxCalls \in Nat

VARIABLES
  pc,       \* pc[t]: where thread t is in its call
  attempt,  \* attempt[t]: the local attempt
  delay,    \* delay[t]: the local delay_ms
  error,    \* error[t]: what the last download of the call threw
  calls,    \* calls[t]: calls made so far
  permits   \* the semaphore's count

vars == <<pc, attempt, delay, error, calls, permits>>
locals == <<attempt, delay, calls>>

Init == /\ pc = [t \in Threads |-> "idle"]
        /\ attempt = [t \in Threads |-> 0]
        /\ delay = [t \in Threads |-> InitialDelay]
        /\ error = [t \in Threads |-> "none"]
        /\ calls = [t \in Threads |-> 0]
        /\ permits = Slots
-----------------------------------------------------------------------------
Smaller(x, y) == IF x < y THEN x ELSE y

Goto(t, place) == pc' = [pc EXCEPT ![t] = place]

Call(t) == /\ pc[t] \in {"idle", "returned", "threw"} /\ calls[t] < MaxCalls
           /\ Goto(t, "acquire")
           /\ attempt' = [attempt EXCEPT ![t] = 1]
           /\ delay' = [delay EXCEPT ![t] = InitialDelay]
           /\ error' = [error EXCEPT ![t] = "none"]
           /\ calls' = [calls EXCEPT ![t] = @ + 1]
           /\ UNCHANGED permits

(* Mutant: a transfer starts whether there is a permit or not.             *)
AcquireAnyway(t) == /\ pc[t] = "acquire"
                    /\ Goto(t, "download")
                    /\ permits' = IF permits > 0 THEN permits - 1 ELSE 0
                    /\ UNCHANGED <<locals, error>>

Acquire(t) == /\ pc[t] = "acquire" /\ permits > 0
              /\ Goto(t, "download")
              /\ permits' = permits - 1
              /\ UNCHANGED <<locals, error>>

(* The permit's destructor runs on every way out of the download.          *)
Returns(t) == /\ pc[t] = "download"
              /\ Goto(t, "returned")
              /\ permits' = permits + 1
              /\ UNCHANGED <<locals, error>>

(* Mutant: the permit outlives the try block.                              *)
FailsWithPermit(t, kind) == /\ pc[t] = "download"
                            /\ Goto(t, "catch")
                            /\ error' = [error EXCEPT ![t] = kind]
                            /\ UNCHANGED <<locals, permits>>

(* A timeout, a 5xx, a lost connection are transient; a 404, and whatever  *)
(* is thrown that is not an HttpDownloadError, are not.                    *)
Fails(t, kind) == /\ pc[t] = "download"
                  /\ Goto(t, "catch")
                  /\ permits' = permits + 1
                  /\ error' = [error EXCEPT ![t] = kind]
                  /\ UNCHANGED locals

(* Mutants: one attempt too many, one too few.                             *)
GivesUpLate(t) == error[t] = "permanent" \/ attempt[t] > MaxAttempts
GivesUpEarly(t) == error[t] = "permanent" \/ attempt[t] + 1 >= MaxAttempts

GivesUp(t) == error[t] = "permanent" \/ attempt[t] >= MaxAttempts

Rethrow(t) == /\ pc[t] = "catch" /\ GivesUp(t)
              /\ Goto(t, "threw")
              /\ UNCHANGED <<locals, error, permits>>

(* sleeper(delay_ms)                                                       *)
Sleep(t) == /\ pc[t] = "catch" /\ ~GivesUp(t)
            /\ Goto(t, "sleep")
            /\ UNCHANGED <<locals, error, permits>>

Wake(t) == /\ pc[t] = "sleep"
           /\ Goto(t, "acquire")
           /\ delay' = [delay EXCEPT ![t] = Smaller(@ * 2, MaximumDelay)]
           /\ attempt' = [attempt EXCEPT ![t] = @ + 1]
           /\ UNCHANGED <<calls, error, permits>>

Ends(t) == Returns(t) \/ \E kind \in {"transient", "permanent"} : Fails(t, kind)

(* What a thread in a call does next.                                      *)
Step(t) == Acquire(t) \/ Ends(t) \/ Rethrow(t) \/ Sleep(t) \/ Wake(t)

Next == \E t \in Threads : Call(t) \/ Step(t)

Spec == Init /\ [][Next]_vars

(* A thread in a call is scheduled, its download ends (curl's timeout) and *)
(* so does its sleep.  The semaphore promises no order: weak fairness.     *)
FairSpec == Spec /\ \A t \in Threads : WF_vars(Step(t))
-----------------------------------------------------------------------------
InTransfer == {t \in Threads : pc[t] = "download"}

TypeOK ==
  /\ pc \in [Threads -> {"idle", "acquire", "download", "catch", "sleep",
                         "returned", "threw"}]
  /\ attempt \in [Threads -> 0 .. MaxAttempts]
  /\ delay \in [Threads -> 0 .. MaximumDelay]
  /\ error \in [Threads -> {"none", "transient", "permanent"}]
  /\ calls \in [Threads -> 0 .. MaxCalls]
  /\ permits \in 0 .. Slots

(* Exactly the threads in a transfer hold a permit: none is lost by an     *)
(* error, none is held by a thread that waits for its next attempt.        *)
PermitsAccountedFor == permits + Cardinality(InTransfer) = Slots

(* However many threads the providers start, the process has no more       *)
(* transfers under way than there are permits.                             *)
TransfersBounded == Cardinality(InTransfer) <= Slots

(* A call tries as often as it should ("transient HTTP failures use        *)
(* bounded exponential retry", tests/engine_tests.cpp).  It throws only    *)
(* for an error that is not transient or after the last attempt the policy *)
(* allows; and it sleeps, to try again, only for a transient error and     *)
(* with an attempt left: no permanent error is repeated, nor one too often.*)
ThrowsLast ==
  \A t \in Threads :
    /\ pc[t] = "threw" => error[t] = "permanent"
                          \/ (error[t] = "transient" /\ attempt[t] = MaxAttempts)
    /\ pc[t] = "sleep" => error[t] = "transient" /\ attempt[t] < MaxAttempts

(* Every call ends, though all threads share the permits and none of them  *)
(* is served in turn.                                                      *)
EveryCallEnds ==
  \A t \in Threads : pc[t] = "acquire" ~> pc[t] \in {"returned", "threw"}

(* The inductive invariant: a thread that failed knows why.  (An attempt   *)
(* beyond the last is never begun because a sleeper has one left.)         *)
CauseKnown == \A t \in Threads : pc[t] = "catch" => error[t] # "none"

IInv == TypeOK /\ PermitsAccountedFor /\ CauseKnown /\ ThrowsLast
=============================================================================
