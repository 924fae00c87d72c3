------------------------------- MODULE RunJob -------------------------------
(***************************************************************************)
(* RunJob (src/cli.cpp) and WriteJsonFileAtomic (src/job.cpp): the helper  *)
(* process the plugin starts, which reports through a result file, events  *)
(* on its standard output and its exit code.  The plugin may read the file *)
(* between any two steps, may kill the helper at any time and may then     *)
(* start another one for the same result path.                             *)
(*                                                                         *)
(* A file is "absent", "partial" (cut short), "stale" (an earlier job's)   *)
(* or whole, and then its status tells it apart.                           *)
(***************************************************************************)
EXTENDS Naturals

CONSTANTS
  Faults,   \* ways writing a file may fail, see below
  MaxJobs   \* bound: helpers started

(* "write": opening or writing the temporary throws; "remove": the old     *)
(* file cannot be removed, which is ignored; "rename": the rename throws;  *)
(* "flush": bytes are lost when the stream is closed by its destructor,    *)
(* which tells nobody.                                                     *)
ASSUME RunJobAssumption == /\ Faults \subseteq {"write", "remove", "rename", "flush"}
                           /\ MaxJobs \in Nat

VARIABLES
  pc,      \* where the helper is
  status,  \* the status WriteJsonFileAtomic is writing
  result,  \* the result file
  temp,    \* result.json.tmp
  output,  \* whether the job has replaced the output GRIB
  dryRun,  \* request.dry_run
  event,   \* the last of the started, complete and failed events
  exit,    \* the exit code
  jobs     \* helpers started

vars == <<pc, status, result, temp, output, dryRun, event, exit, jobs>>
files == <<result, temp>>
answer == <<event, exit>>
request == <<dryRun, jobs>>

Ended == {"exited", "killed"}

Init == /\ pc = "exited" /\ status = "running"
        /\ result = "absent" /\ temp = "absent"
        /\ output = FALSE /\ dryRun = FALSE
        /\ event = "none" /\ exit = "none"
        /\ jobs = 0
-----------------------------------------------------------------------------
Aged(file) == IF file \in {"absent", "partial"} THEN file ELSE "stale"

(* The plugin starts a helper; it begins by writing the running status.    *)
Invoke == /\ pc \in Ended /\ jobs < MaxJobs
          /\ jobs' = jobs + 1
          /\ pc' = "write" /\ status' = "running"
          /\ result' = Aged(result) /\ temp' = Aged(temp)
          /\ output' = FALSE /\ dryRun' \in BOOLEAN
          /\ event' = "none" /\ exit' = "none"

(* Mutant: a complete status that cannot be written is given up as well.   *)
ThrownForgiving == CASE status = "running" -> /\ pc' = "exited" /\ exit' = "failure"
                                              /\ UNCHANGED <<status, event>>
                     [] status # "running" -> /\ pc' = "announce"
                                              /\ UNCHANGED <<status, answer>>

(* Mutant: a failed status is written until that works.                    *)
ThrownStubborn == CASE status = "running" -> /\ pc' = "exited" /\ exit' = "failure"
                                             /\ UNCHANGED <<status, event>>
                    [] status # "running" -> /\ pc' = "write" /\ status' = "failed"
                                             /\ UNCHANGED answer

(* WriteJsonFileAtomic threw.  The running status is written outside the   *)
(* try block: main prints the error.  A complete status that cannot be     *)
(* written makes the job a failed one, and a failed status that cannot be  *)
(* written is given up.                                                    *)
Thrown == CASE status = "running" -> /\ pc' = "exited" /\ exit' = "failure"
                                     /\ UNCHANGED <<status, event>>
            [] status = "complete" -> /\ pc' = "write" /\ status' = "failed"
                                      /\ UNCHANGED answer
            [] status = "failed" -> pc' = "announce" /\ UNCHANGED <<status, answer>>

WriteTemporary == /\ pc = "write"
                  /\ temp' = status
                  /\ pc' = "remove"
                  /\ UNCHANGED <<status, result, output, answer, request>>

(* What is written fits the stream's buffer, and the check of the stream   *)
(* comes before the destructor flushes it.                                 *)
LoseFlush == /\ pc = "write" /\ "flush" \in Faults
             /\ temp' = "partial"
             /\ pc' = "remove"
             /\ UNCHANGED <<status, result, output, answer, request>>

FailToWrite == /\ pc = "write" /\ "write" \in Faults
               /\ temp' \in {temp, "partial"}
               /\ Thrown
               /\ UNCHANGED <<result, output, request>>

RemoveResult == /\ pc = "remove"
                /\ \/ result' = "absent"
                   \/ "remove" \in Faults /\ UNCHANGED result
                /\ pc' = "rename"
                /\ UNCHANGED <<status, temp, output, answer, request>>

RenameTemporary == /\ pc = "rename"
                   /\ result' = temp /\ temp' = "absent"
                   /\ pc' = "announce"
                   /\ UNCHANGED <<status, output, answer, request>>

FailToRename == /\ pc = "rename" /\ "rename" \in Faults
                /\ Thrown
                /\ UNCHANGED <<files, output, request>>

(* Mutant: the event is named after the status.                            *)
AnnounceStatus == /\ pc = "announce"
                  /\ event' = status
                  /\ exit' = CASE status = "running" -> exit
                               [] status = "complete" -> "success"
                               [] status = "failed" -> "failure"
                  /\ pc' = IF status = "running" THEN "generate" ELSE "exited"
                  /\ UNCHANGED <<status, files, output, request>>

(* Mutant: an exception while the complete event is printed fails the job. *)
AnnounceMayThrow ==
  /\ pc = "announce"
  /\ \/ /\ event' = IF status = "running" THEN "started" ELSE status
        /\ exit' = CASE status = "running" -> exit
                     [] status = "complete" -> "success"
                     [] status = "failed" -> "failure"
        /\ pc' = IF status = "running" THEN "generate" ELSE "exited"
        /\ UNCHANGED status
     \/ /\ status = "complete" /\ status' = "failed"
        /\ pc' = "write"
        /\ UNCHANGED answer
  /\ UNCHANGED <<files, output, request>>

(* The event that goes with the status, and after the last one the exit.   *)
(* PrintEvent writes to a stream without exceptions: although the last one *)
(* is inside the try, only a lack of memory, left out here, could throw.   *)
Announce == /\ pc = "announce"
            /\ event' = IF status = "running" THEN "started" ELSE status
            /\ exit' = CASE status = "running" -> exit
                         [] status = "complete" -> "success"
                         [] status = "failed" -> "failure"
            /\ pc' = IF status = "running" THEN "generate" ELSE "exited"
            /\ UNCHANGED <<status, files, output, request>>

(* Mutant: what the merge reports is not looked at.                        *)
GenerateUnchecked == /\ pc = "generate"
                     /\ status' = "complete"
                     /\ output' \in {FALSE, ~dryRun}
                     /\ pc' = "write"
                     /\ UNCHANGED <<files, answer, request>>

(* Parsing the job and GenerateEnvironment: it publishes the output; or a  *)
(* dry run returns a plan; or it throws, before the output is replaced or, *)
(* inspecting what it has just published, after.                           *)
Generate == /\ pc = "generate"
            /\ \/ /\ status' = "complete"
                  /\ output' = ~dryRun
               \/ /\ status' = "failed"
                  /\ output' \in {FALSE, ~dryRun}
            /\ pc' = "write"
            /\ UNCHANGED <<files, answer, request>>

Kill == /\ pc \notin Ended
        /\ pc' = "killed"
        /\ UNCHANGED <<status, files, output, answer, request>>

HelperStep == \/ WriteTemporary \/ LoseFlush \/ FailToWrite
              \/ RemoveResult \/ RenameTemporary \/ FailToRename
              \/ Announce \/ Generate

Next == Invoke \/ HelperStep \/ Kill

Spec == Init /\ [][Next]_vars

(* The helper runs on; GenerateEnvironment ends (EnvironmentJob!JobEnds).  *)
FairSpec == Spec /\ WF_vars(HelperStep)
-----------------------------------------------------------------------------
Statuses == {"running", "complete", "failed"}

TypeOK == /\ pc \in Ended \cup {"write", "remove", "rename", "announce", "generate"}
          /\ status \in Statuses
          /\ result \in Statuses \cup {"absent", "partial", "stale"}
          /\ temp \in Statuses \cup {"absent", "partial", "stale"}
          /\ output \in BOOLEAN /\ dryRun \in BOOLEAN
          /\ event \in {"none", "started", "complete", "failed"}
          /\ exit \in {"none", "success", "failure"}
          /\ jobs \in 0 .. MaxJobs

(* The result file tells the truth at any time, also after a kill: once    *)
(* the plugin has seen the started event the file is this job's and no     *)
(* earlier one's, and if it says complete, the output has been replaced or *)
(* nothing but a plan was asked for.                                       *)
ResultIsTrue ==
  /\ event # "none" => result # "stale"
  /\ result = "complete" => output \/ dryRun

(* The three channels agree: the exit code and the last event say complete *)
(* only when the file does, and failed only when the file does not, though *)
(* writing the file may itself have failed.  (A file whose bytes were lost *)
(* in the last flush says nothing.)                                        *)
ChannelsAgree ==
  /\ exit = "success" => event = "complete"
  /\ event = "complete" => result \in {"complete", "partial"}
  /\ exit = "failure" => event # "complete" /\ result # "complete"

(* A final answer stands: the helper that gave it never takes it back.     *)
AnswerStands ==
  [][(result \in {"complete", "failed"}) => result' \in {result, "stale"}]_vars

(* From its start a helper ends, whichever writes fail.                    *)
HelperEnds == pc \notin Ended ~> pc \in Ended

(* "It is first created with status set to running, then replaced with a   *)
(* complete or failed result" (docs/JOB_PROTOCOL.md): while a job runs,    *)
(* and after it, there is a result file to read.                           *)
ResultNeverVanishes == [][result # "absent" => result' # "absent"]_vars
=============================================================================
