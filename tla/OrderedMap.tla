----------------------------- MODULE OrderedMap -----------------------------
(***************************************************************************)
(* What ParallelMapOrdered (include/environmental_grib/parallel.h)         *)
(* promises its callers, with no threads in sight: the function is called  *)
(* at most once for each input, in any order and overlapping; the map      *)
(* returns the results in input order when every call returned, or raises  *)
(* one of the errors that occurred; and when it does either, no call is    *)
(* still running, so the caller may delete the files the calls wrote.      *)
(***************************************************************************)
EXTENDS Naturals

CONSTANTS
  InputCount,   \* number of inputs; they are named 0 .. InputCount-1
  Nothing,      \* "no value yet"
  SpawnError    \* the error of a thread that could not be created

Inputs == 0 .. InputCount - 1

VARIABLES
  calls,     \* calls[i]: the call for input i
  status,    \* "busy" until the map returns or raises
  results,   \* the vector returned, Nothing before that
  raised     \* the error raised: the input whose call threw, or SpawnError

vars == <<calls, status, results, raised>>

Init == /\ calls = [i \in Inputs |-> "pending"]
        /\ status = "busy"
        /\ results = Nothing
        /\ raised = Nothing

Start(i) == /\ status = "busy"
            /\ calls[i] = "pending"
            /\ calls' = [calls EXCEPT ![i] = "running"]
            /\ UNCHANGED <<status, results, raised>>

Finish(i) == /\ status = "busy"
             /\ calls[i] = "running"
             /\ \E end \in {"ok", "threw"} : calls' = [calls EXCEPT ![i] = end]
             /\ UNCHANGED <<status, results, raised>>

(* The result of input i is written i: a result in the wrong place shows.  *)
Return == /\ status = "busy"
          /\ \A i \in Inputs : calls[i] = "ok"
          /\ status' = "returned"
          /\ results' = [i \in Inputs |-> i]
          /\ UNCHANGED <<calls, raised>>

Raise == /\ status = "busy"
         /\ \A i \in Inputs : calls[i] # "running"
         /\ status' = "threw"
         /\ \/ raised' = SpawnError
            \/ \E i \in Inputs : calls[i] = "threw" /\ raised' = i
         /\ UNCHANGED <<calls, results>>

Next == \/ \E i \in Inputs : Start(i) \/ Finish(i)
        \/ Return
        \/ Raise

Spec == Init /\ [][Next]_vars
=============================================================================
