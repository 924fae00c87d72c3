---------------------------- MODULE RunJobProofs ----------------------------
(***************************************************************************)
(* What RunJob promises of the result file, the events and the exit code,  *)
(* for any number of helpers one after the other and any of the faults:    *)
(* wherever a write fails and wherever the helper is killed.               *)
(***************************************************************************)
EXTENDS RunJob, TLAPS

Final == {"complete", "failed"}
Writing == {"write", "remove", "rename"}

(* A live helper has announced exactly the statuses before the one it is   *)
(* writing, and none that ends the job.                                    *)
AnnouncedSoFar ==
  pc \notin Ended =>
    /\ exit = "none"
    /\ status = "running" => event = IF pc = "generate" THEN "started" ELSE "none"
    /\ status # "running" => event = "started" /\ pc # "generate"

(* A complete status is written only for an output that was replaced, or   *)
(* for a plan.                                                             *)
CompleteIsEarned == pc \notin Ended /\ status = "complete" => output \/ dryRun

(* The temporary about to be renamed is the status being written, or was   *)
(* cut short on its way.                                                   *)
TemporaryIsStatus == pc \in {"remove", "rename"} => temp \in {status, "partial"}

(* No final status is in place until the last write, and what is in place  *)
(* when a status is announced is that status, unless it could not be       *)
(* written.                                                                *)
FileFollowsStatus ==
  /\ pc \in Writing \cup {"generate"} => result \notin Final
  /\ pc = "announce" => CASE status = "failed" -> result # "complete"
                          [] status # "failed" -> result \in {status, "partial"}

IInv == /\ TypeOK
        /\ AnnouncedSoFar
        /\ CompleteIsEarned
        /\ TemporaryIsStatus
        /\ FileFollowsStatus
        /\ ResultIsTrue
        /\ ChannelsAgree
-----------------------------------------------------------------------------
(* Before any helper there is no file and no answer.                       *)
LEMMA InitIInv ==
  ASSUME Init
  PROVE  IInv
<1>1. TypeOK
  <2>1. jobs \in 0 .. MaxJobs
    BY RunJobAssumption DEF Init
  <2>. QED  BY <2>1 DEF Init, TypeOK, Ended, Statuses
<1>2. AnnouncedSoFar /\ CompleteIsEarned
  BY DEF Init, AnnouncedSoFar, CompleteIsEarned, Ended
<1>3. TemporaryIsStatus /\ FileFollowsStatus
  BY DEF Init, TemporaryIsStatus, FileFollowsStatus, Writing, Final
<1>4. ResultIsTrue /\ ChannelsAgree
  BY DEF Init, ResultIsTrue, ChannelsAgree
<1>. QED  BY <1>1, <1>2, <1>3, <1>4 DEF IInv

(* Where a throw of the writer may lead.                                   *)
LEMMA ThrowLeads ==
  ASSUME TypeOK, Thrown
  PROVE  /\ pc' \in {"exited", "write", "announce"}
         /\ status' \in Statuses
         /\ event' = event
         /\ exit' \in {exit, "failure"}
<1>. USE DEF TypeOK, Statuses, Thrown, answer
<1>1. CASE status = "running"
  BY <1>1
<1>2. CASE status = "complete"
  BY <1>2
<1>3. CASE status = "failed"
  BY <1>3
<1>. QED  BY <1>1, <1>2, <1>3

(* Every step keeps the variables' types.                                  *)
LEMMA TypesKept ==
  ASSUME TypeOK, [Next]_vars
  PROVE  TypeOK'
<1>. USE DEF TypeOK, Ended, Statuses, files, answer, request
<1>1. CASE Invoke
  <2>1. jobs' \in 0 .. MaxJobs
    BY <1>1, RunJobAssumption DEF Invoke
  <2>2. result' \in {"absent", "partial", "stale"} /\ temp' \in {"absent", "partial", "stale"}
    BY <1>1 DEF Invoke, Aged
  <2>. QED  BY <1>1, <2>1, <2>2 DEF Invoke
<1>2. CASE WriteTemporary \/ LoseFlush
  BY <1>2 DEF WriteTemporary, LoseFlush
<1>3. CASE FailToWrite
  <2>1. Thrown /\ temp' \in {temp, "partial"} /\ UNCHANGED <<result, output, dryRun, jobs>>
    BY <1>3 DEF FailToWrite
  <2>. QED  BY <2>1, ThrowLeads
<1>4. CASE RemoveResult \/ RenameTemporary
  BY <1>4 DEF RemoveResult, RenameTemporary
<1>5. CASE FailToRename
  <2>1. Thrown /\ UNCHANGED <<result, temp, output, dryRun, jobs>>
    BY <1>5 DEF FailToRename
  <2>. QED  BY <2>1, ThrowLeads
<1>6. CASE Announce
  BY <1>6 DEF Announce
<1>7. CASE Generate
  BY <1>7 DEF Generate
<1>8. CASE Kill
  BY <1>8 DEF Kill
<1>9. CASE UNCHANGED vars
  BY <1>9 DEF vars
<1>. QED
  BY <1>1, <1>2, <1>3, <1>4, <1>5, <1>6, <1>7, <1>8, <1>9 DEF Next, HelperStep

(* A throw from the writer: a running status ends the helper, a complete   *)
(* one becomes a failed one, a failed one is announced without a file.     *)
LEMMA ThrowKeepsIInv ==
  ASSUME IInv, TypeOK', Thrown, pc \in {"write", "rename"},
         UNCHANGED <<result, output, dryRun>>
  PROVE  IInv'
<1>. USE DEF IInv, Ended, Statuses, answer, Writing, Final
<1>1. result \notin Final /\ exit = "none"
  BY DEF AnnouncedSoFar, FileFollowsStatus
<1>2. CASE status = "running"
  <2>1. pc' = "exited" /\ exit' = "failure" /\ event' = "none"
    BY <1>2 DEF Thrown, AnnouncedSoFar
  <2>. QED
    BY <1>1, <2>1 DEF AnnouncedSoFar, CompleteIsEarned, TemporaryIsStatus, FileFollowsStatus,
                      ResultIsTrue, ChannelsAgree
<1>3. CASE status = "complete"
  <2>1. pc' = "write" /\ status' = "failed" /\ event' = "started" /\ exit' = "none"
    BY <1>1, <1>3 DEF Thrown, AnnouncedSoFar
  <2>2. event = "started"
    BY <1>3 DEF AnnouncedSoFar
  <2>. QED
    BY <1>1, <2>1, <2>2 DEF AnnouncedSoFar, CompleteIsEarned, TemporaryIsStatus,
                            FileFollowsStatus, ResultIsTrue, ChannelsAgree
<1>4. CASE status = "failed"
  <2>1. pc' = "announce" /\ status' = "failed" /\ event' = "started" /\ exit' = "none"
    BY <1>1, <1>4 DEF Thrown, AnnouncedSoFar
  <2>2. event = "started"
    BY <1>4 DEF AnnouncedSoFar
  <2>. QED
    BY <1>1, <2>1, <2>2 DEF AnnouncedSoFar, CompleteIsEarned, TemporaryIsStatus,
                            FileFollowsStatus, ResultIsTrue, ChannelsAgree
<1>. QED
  BY <1>2, <1>3, <1>4 DEF TypeOK

(* The announcement publishes the status in the event and, after the last  *)
(* one, in the exit code.                                                  *)
LEMMA AnnounceKeepsIInv ==
  ASSUME IInv, TypeOK', Announce
  PROVE  IInv'
<1>. USE DEF IInv, TypeOK, Ended, Statuses, files, request, Writing, Final, Announce
<1>1. exit = "none"
  BY DEF AnnouncedSoFar
<1>2. CASE status = "running"
  BY <1>1, <1>2 DEF AnnouncedSoFar, CompleteIsEarned, TemporaryIsStatus, FileFollowsStatus,
                    ResultIsTrue, ChannelsAgree
<1>3. CASE status = "complete"
  BY <1>1, <1>3 DEF AnnouncedSoFar, CompleteIsEarned, TemporaryIsStatus, FileFollowsStatus,
                    ResultIsTrue, ChannelsAgree
<1>4. CASE status = "failed"
  BY <1>1, <1>4 DEF AnnouncedSoFar, CompleteIsEarned, TemporaryIsStatus, FileFollowsStatus,
                    ResultIsTrue, ChannelsAgree
<1>. QED
  BY <1>2, <1>3, <1>4

(* What a step does to the variables the invariant relates decides what    *)
(* must be looked at again; a throw and an announcement have lemmas.       *)
LEMMA NextIInv ==
  ASSUME IInv, [Next]_vars
  PROVE  IInv'
<1>1. TypeOK'
  BY TypesKept DEF IInv
<1>2. SUFFICES /\ AnnouncedSoFar' /\ CompleteIsEarned' /\ TemporaryIsStatus'
               /\ FileFollowsStatus' /\ ResultIsTrue' /\ ChannelsAgree'
  BY <1>1 DEF IInv
<1>3. /\ status \in Statuses /\ AnnouncedSoFar /\ CompleteIsEarned /\ TemporaryIsStatus
      /\ FileFollowsStatus /\ ResultIsTrue /\ ChannelsAgree
  BY DEF IInv, TypeOK
<1>. USE <1>3 DEF Ended, Statuses, files, answer, request, Writing, Final
<1>4. CASE Invoke
  <2>1. result' \notin Final
    BY <1>4 DEF Invoke, Aged
  <2>2. AnnouncedSoFar' /\ CompleteIsEarned' /\ TemporaryIsStatus' /\ FileFollowsStatus'
    BY <1>4, <2>1 DEF Invoke, AnnouncedSoFar, CompleteIsEarned, TemporaryIsStatus, FileFollowsStatus
  <2>3. ResultIsTrue' /\ ChannelsAgree'
    BY <1>4, <2>1 DEF Invoke, ResultIsTrue, ChannelsAgree
  <2>. QED  BY <2>2, <2>3
<1>5. CASE WriteTemporary
  <2>1. AnnouncedSoFar' /\ CompleteIsEarned'
    BY <1>5 DEF WriteTemporary, AnnouncedSoFar, CompleteIsEarned
  <2>2. TemporaryIsStatus' /\ FileFollowsStatus'
    BY <1>5 DEF WriteTemporary, TemporaryIsStatus, FileFollowsStatus
  <2>3. ResultIsTrue' /\ ChannelsAgree'
    BY <1>5 DEF WriteTemporary, AnnouncedSoFar, ResultIsTrue, ChannelsAgree
  <2>. QED  BY <2>1, <2>2, <2>3
<1>6. CASE LoseFlush
  <2>1. AnnouncedSoFar' /\ CompleteIsEarned'
    BY <1>6 DEF LoseFlush, AnnouncedSoFar, CompleteIsEarned
  <2>2. TemporaryIsStatus' /\ FileFollowsStatus'
    BY <1>6 DEF LoseFlush, TemporaryIsStatus, FileFollowsStatus
  <2>3. ResultIsTrue' /\ ChannelsAgree'
    BY <1>6 DEF LoseFlush, AnnouncedSoFar, ResultIsTrue, ChannelsAgree
  <2>. QED  BY <2>1, <2>2, <2>3
<1>7. CASE FailToWrite \/ FailToRename
  <2>1. Thrown /\ pc \in {"write", "rename"} /\ UNCHANGED <<result, output, dryRun>>
    BY <1>7 DEF FailToWrite, FailToRename
  <2>. QED  BY <1>1, <2>1, ThrowKeepsIInv DEF IInv
<1>8. CASE RemoveResult
  <2>1. AnnouncedSoFar' /\ CompleteIsEarned'
    BY <1>8 DEF RemoveResult, AnnouncedSoFar, CompleteIsEarned
  <2>2. TemporaryIsStatus' /\ FileFollowsStatus'
    BY <1>8 DEF RemoveResult, TemporaryIsStatus, FileFollowsStatus
  <2>3. ResultIsTrue' /\ ChannelsAgree'
    BY <1>8 DEF RemoveResult, AnnouncedSoFar, ResultIsTrue, ChannelsAgree
  <2>. QED  BY <2>1, <2>2, <2>3
<1>9. CASE RenameTemporary
  <2>1. AnnouncedSoFar' /\ CompleteIsEarned'
    BY <1>9 DEF RenameTemporary, AnnouncedSoFar, CompleteIsEarned
  <2>2. TemporaryIsStatus' /\ FileFollowsStatus'
    BY <1>9 DEF RenameTemporary, TemporaryIsStatus, FileFollowsStatus
  <2>3. ResultIsTrue' /\ ChannelsAgree'
    BY <1>9 DEF RenameTemporary, CompleteIsEarned, TemporaryIsStatus, AnnouncedSoFar, ResultIsTrue, ChannelsAgree
  <2>. QED  BY <2>1, <2>2, <2>3
<1>10. CASE Announce
  BY <1>1, <1>10, AnnounceKeepsIInv DEF IInv
<1>11. CASE Generate
  <2>1. AnnouncedSoFar' /\ CompleteIsEarned'
    BY <1>11 DEF Generate, AnnouncedSoFar, CompleteIsEarned
  <2>2. TemporaryIsStatus' /\ FileFollowsStatus'
    BY <1>11 DEF Generate, TemporaryIsStatus, FileFollowsStatus
  <2>3. ResultIsTrue' /\ ChannelsAgree'
    BY <1>11 DEF Generate, AnnouncedSoFar, FileFollowsStatus, ResultIsTrue, ChannelsAgree
  <2>. QED  BY <2>1, <2>2, <2>3
<1>12. CASE Kill
  <2>1. AnnouncedSoFar' /\ CompleteIsEarned'
    BY <1>12 DEF Kill, AnnouncedSoFar, CompleteIsEarned
  <2>2. TemporaryIsStatus' /\ FileFollowsStatus'
    BY <1>12 DEF Kill, TemporaryIsStatus, FileFollowsStatus
  <2>3. ResultIsTrue' /\ ChannelsAgree'
    BY <1>12 DEF Kill, AnnouncedSoFar, ResultIsTrue, ChannelsAgree
  <2>. QED  BY <2>1, <2>2, <2>3
<1>13. CASE UNCHANGED vars
  <2>1. AnnouncedSoFar' /\ CompleteIsEarned'
    BY <1>13 DEF vars, AnnouncedSoFar, CompleteIsEarned
  <2>2. TemporaryIsStatus' /\ FileFollowsStatus'
    BY <1>13 DEF vars, TemporaryIsStatus, FileFollowsStatus
  <2>3. ResultIsTrue' /\ ChannelsAgree'
    BY <1>13 DEF vars, AnnouncedSoFar, ResultIsTrue, ChannelsAgree
  <2>. QED  BY <2>1, <2>2, <2>3
<1>. QED
  BY <1>4, <1>5, <1>6, <1>7, <1>8, <1>9, <1>10, <1>11, <1>12, <1>13 DEF Next, HelperStep

(* The strengthened invariant holds in every state of every execution.     *)
THEOREM Invariance == Spec => []IInv
<1>1. Init => IInv
  BY InitIInv
<1>2. IInv /\ [Next]_vars => IInv'
  BY NextIInv
<1>. QED  BY <1>1, <1>2, PTL DEF Spec

(* Every variable keeps its type.                                          *)
THEOREM TypeCorrect == Spec => []TypeOK
<1>1. IInv => TypeOK
  BY DEF IInv
<1>. QED  BY <1>1, Invariance, PTL

(* Once started is announced the result file is this job's, and a file     *)
(* that says complete stands for an output or a plan.                      *)
THEOREM FileTellsTheTruth == Spec => []ResultIsTrue
<1>1. IInv => ResultIsTrue
  BY DEF IInv
<1>. QED  BY <1>1, Invariance, PTL

(* Exit code, last event and result file never contradict one another.     *)
THEOREM OneAnswer == Spec => []ChannelsAgree
<1>1. IInv => ChannelsAgree
  BY DEF IInv
<1>. QED  BY <1>1, Invariance, PTL

(* A final result file is not touched again by the helper that wrote it.   *)
LEMMA FinalFileStays ==
  ASSUME IInv, [Next]_vars, result \in Final
  PROVE  result' \in {result, "stale"}
<1>1. pc \notin Writing
  BY DEF IInv, FileFollowsStatus
<1>. USE DEF Final, Writing, files
<1>2. CASE Invoke
  BY <1>2 DEF Invoke, Aged
<1>3. CASE HelperStep
  BY <1>1, <1>3 DEF HelperStep, WriteTemporary, LoseFlush, FailToWrite, RemoveResult,
                    RenameTemporary, FailToRename, Announce, Generate
<1>4. CASE Kill \/ UNCHANGED vars
  BY <1>4 DEF Kill, vars
<1>. QED  BY <1>2, <1>3, <1>4 DEF Next

(* A final answer stands until the next helper is started.                 *)
THEOREM AnswerIsFinal == Spec => AnswerStands
<1>1. IInv /\ [Next]_vars => [(result \in Final) => result' \in {result, "stale"}]_vars
  BY FinalFileStays
<1>2. IInv /\ [Next]_vars
        => [(result \in {"complete", "failed"}) => result' \in {result, "stale"}]_vars
  BY <1>1 DEF Final
<1>. QED  BY <1>2, Invariance, PTL DEF Spec, AnswerStands
=============================================================================
