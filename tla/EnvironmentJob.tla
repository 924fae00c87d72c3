--------------------------- MODULE EnvironmentJob ---------------------------
(***************************************************************************)
(* GenerateEnvironment (src/environment.cpp) without forecast extension,   *)
(* over several jobs for the same output: a job restores what an earlier   *)
(* one checkpointed, generates the weather, wave and current streams (some *)
(* of them on threads), checkpoints each, merges them into the output and  *)
(* deletes its checkpoints.  A job may fail at every stage and crash       *)
(* between any two steps; the next job may ask for something else.         *)
(*                                                                         *)
(* A stream is generated by a task.  A task runs on a thread of its own in *)
(* the code's four std::async places, and inline otherwise; inline, main   *)
(* begins it and waits at once.                                            *)
(***************************************************************************)
EXTENDS ResumeCache

CONSTANTS
  Requests,  \* the requests a job may come with
  MaxJobs    \* bound: jobs per behaviour

ASSUME JobAssumption ==
  /\ MaxJobs \in Nat
  /\ Requests \subseteq [weather : {"none", "gfs", "ukmo_ukv"},
                         waves : {"none", "gfs_wave", "copernicus"},
                         current : {"none", "marine_ie"},
                         spacing : Spacings,
                         parallel : BOOLEAN]

VARIABLES
  jobs,       \* number of jobs started
  req,        \* the request of the job
  job,        \* the locals of the job's main thread, see NewJob
  tasks,      \* tasks[s]: the generation of stage s
  files,      \* files[s]: the stream of stage s in the workspace, or None
  workspace   \* whether the job's workspace directory exists

taskVars == <<tasks, files>>
jobVars == <<jobs, req, workspace>>
vars == <<cacheVars, jobVars, job, taskVars>>

StageNames == {"weather", "waves", "current"}
Ended == {"done", "failed", "crashed"}

NewJob == [pc |-> "restoreWaves",  \* the stage main is at
           restored |-> {},        \* stages whose stream came from the cache
           streams |-> {},         \* stages on the list to merge
           candidate |-> None,     \* the cycle of the coupled pair in hand
           tried |-> {},           \* candidates found incomplete
           selected |-> None,      \* selected_cycle
           published |-> FALSE]    \* whether the job replaced the output

Init == /\ CacheInit
        /\ jobs = 0
        /\ req \in Requests
        /\ job = [NewJob EXCEPT !.pc = "failed"]
        /\ tasks = [s \in StageNames |-> "unborn"]
        /\ files = [s \in StageNames |-> None]
        /\ workspace = FALSE
-----------------------------------------------------------------------------
(* What a request asks for, and the fingerprints it leads to.              *)

Wanted == {s \in StageNames : req[s] # "none"}

Coupled == req.weather = "gfs" /\ req.waves = "gfs_wave"

(* Mutant: the fingerprint leaves the grid spacing out.                    *)
WeatherKeyNoSpacing == <<"weather", req.weather, None>>

WeatherKey == <<"weather", req.weather, req.spacing>>

(* Mutant: the coupled cycle is not part of the fingerprint.               *)
WaveKeyNoCycle(cycle) == <<"waves", req.waves, None>>

(* The spacing is not part of it; None stands for "independent-auto".      *)
WaveKey(cycle) == <<"waves", req.waves, cycle>>

(* Mutant: the stage is not part of the path.                              *)
CurrentKeyNoStage == <<"weather", req.weather, req.spacing>>

CurrentKey == <<"current", req.current, None>>

(* The streams a task may come up with.  Copernicus waves are resampled to *)
(* the weather grid's spacing and have no cycle.                           *)
Generated(s) ==
  LET cycles == IF Coupled THEN {job.candidate} ELSE Cycles
  IN  CASE s = "weather" -> [cycle : cycles, spacing : {req.spacing}]
        [] s = "waves" /\ req.waves = "gfs_wave" -> [cycle : cycles, spacing : {None}]
        [] s = "waves" /\ req.waves = "copernicus" -> [cycle : {None}, spacing : {req.spacing}]
        [] s = "current" -> [cycle : {None}, spacing : {None}]
-----------------------------------------------------------------------------
(* The tasks.                                                              *)

Begin(started) ==
  tasks' = [s \in StageNames |-> IF s \in started THEN "running" ELSE tasks[s]]

(* A task publishes its stream in the workspace by a rename, or throws: a  *)
(* ValidationError ("invalid") or another exception ("error").             *)
TaskEnds(s) ==
  /\ tasks[s] = "running"
  /\ \/ /\ tasks' = [tasks EXCEPT ![s] = "ok"]
        /\ \E stream \in Generated(s) : files' = [files EXCEPT ![s] = stream]
     \/ /\ \E end \in {"invalid", "error"} : tasks' = [tasks EXCEPT ![s] = end]
        /\ UNCHANGED files
  /\ UNCHANGED <<cacheVars, jobVars, job>>
-----------------------------------------------------------------------------
(* Steps of the main thread.                                               *)

At(place) == job.pc = place
Goto(place) == job' = [job EXCEPT !.pc = place]

(* Restore stage s from pair k: found, refused (one file removed, look     *)
(* again) or missing, and then begun on a thread if launch says so.        *)
Restore(s, k, found, missing, launch) ==
  \/ /\ RestoreHit(k)
     /\ files' = [files EXCEPT ![s] = data[k]]
     /\ job' = found
     /\ UNCHANGED tasks
  \/ /\ RestoreRefuse(k)
     /\ UNCHANGED <<job, taskVars>>
  \/ /\ Absent(k)
     /\ Goto(missing)
     /\ IF launch THEN Begin({s}) ELSE UNCHANGED tasks
     /\ UNCHANGED <<cacheVars, files>>

Skip(place) == Goto(place) /\ UNCHANGED <<cacheVars, taskVars>>

RestoreWaves ==
  /\ At("restoreWaves")
  /\ IF "waves" \in Wanted /\ ~Coupled
     THEN Restore("waves", WaveKey(None),
                  [job EXCEPT !.pc = "restoreCurrent", !.restored = @ \cup {"waves"},
                              !.selected = meta[WaveKey(None)].cycle],
                  "restoreCurrent", req.parallel)
     ELSE Skip("restoreCurrent")
  /\ UNCHANGED jobVars

RestoreCurrent ==
  /\ At("restoreCurrent")
  /\ IF "current" \in Wanted
     THEN Restore("current", CurrentKey,
                  [job EXCEPT !.pc = "restoreWeather", !.restored = @ \cup {"current"}],
                  "restoreWeather", req.parallel)
     ELSE Skip("restoreWeather")
  /\ UNCHANGED jobVars

RestoreWeather ==
  LET cycle == meta[WeatherKey].cycle
  IN  /\ At("restoreWeather")
      /\ IF "weather" \notin Wanted THEN Skip("joinWaves")
         ELSE Restore("weather", WeatherKey,
                IF Coupled
                THEN [job EXCEPT !.pc = "restorePair", !.candidate = cycle]
                ELSE [job EXCEPT !.pc = "joinWaves", !.restored = @ \cup {"weather"},
                                 !.streams = @ \cup {"weather"}, !.selected = cycle],
                "generateWeather", FALSE)
      /\ UNCHANGED jobVars

RestorePair ==
  /\ At("restorePair")
  /\ Restore("waves", WaveKey(job.candidate),
             [job EXCEPT !.pc = "joinWaves", !.restored = @ \cup {"weather", "waves"},
                         !.streams = @ \cup {"weather", "waves"},
                         !.selected = job.candidate],
             "generateWeather", FALSE)
  /\ UNCHANGED jobVars

(* One provider generates inline; the coupled pair tries one candidate     *)
(* cycle after another, with both halves on threads.                       *)
GenerateWeather ==
  /\ At("generateWeather")
  /\ \/ /\ ~Coupled
        /\ Goto("awaitWeather")
        /\ Begin({"weather"})
     \/ /\ Coupled
        /\ \E c \in Cycles \ job.tried :
             job' = [job EXCEPT !.pc = "awaitPair", !.candidate = c]
        /\ Begin({"weather", "waves"})
     \/ /\ Coupled /\ job.tried = Cycles
        /\ Goto("unwind")
        /\ UNCHANGED tasks
  /\ UNCHANGED <<cacheVars, files>>
  /\ UNCHANGED jobVars

AwaitWeather ==
  /\ At("awaitWeather") /\ tasks["weather"] # "running"
  /\ job' = IF tasks["weather"] = "ok"
            THEN [job EXCEPT !.pc = "saveWeather", !.streams = @ \cup {"weather"},
                             !.selected = files["weather"].cycle]
            ELSE [job EXCEPT !.pc = "unwind"]
  /\ UNCHANGED <<cacheVars, taskVars>>
  /\ UNCHANGED jobVars

(* Mutant: a candidate found incomplete is tried again.                    *)
AwaitPairForgetsTried ==
  /\ At("awaitPair") /\ tasks["weather"] # "running" /\ tasks["waves"] # "running"
  /\ LET end == IF tasks["weather"] # "ok" THEN tasks["weather"] ELSE tasks["waves"]
     IN  CASE end = "ok" ->
              /\ job' = [job EXCEPT !.pc = "saveWeather", !.selected = job.candidate,
                                    !.streams = @ \cup {"weather", "waves"}]
              /\ UNCHANGED files
           [] end = "invalid" ->
              /\ Goto("generateWeather")
              /\ files' = [files EXCEPT !["weather"] = None, !["waves"] = None]
           [] end = "error" -> Goto("unwind") /\ UNCHANGED files
  /\ UNCHANGED <<cacheVars, tasks>>
  /\ UNCHANGED jobVars

(* Both halves are waited for; the weather's error is the one rethrown.  A *)
(* ValidationError leads to the next candidate, any other ends the job.    *)
AwaitPair ==
  /\ At("awaitPair") /\ tasks["weather"] # "running" /\ tasks["waves"] # "running"
  /\ LET end == IF tasks["weather"] # "ok" THEN tasks["weather"] ELSE tasks["waves"]
     IN  CASE end = "ok" ->
              /\ job' = [job EXCEPT !.pc = "saveWeather", !.selected = job.candidate,
                                    !.streams = @ \cup {"weather", "waves"}]
              /\ UNCHANGED files
           [] end = "invalid" ->
              /\ job' = [job EXCEPT !.pc = "generateWeather",
                                    !.tried = @ \cup {job.candidate}]
              /\ files' = [files EXCEPT !["weather"] = None, !["waves"] = None]
           [] end = "error" -> Goto("unwind") /\ UNCHANGED files
  /\ UNCHANGED <<cacheVars, tasks>>
  /\ UNCHANGED jobVars

(* Save stage s as pair k, step by step; a step that throws ends the save  *)
(* and not the job.                                                        *)
Save(s, k, cycle, after) ==
  /\ \/ /\ SaveCopy(k) \/ SavePublish(k, files[s]) \/ SaveDescribe(k)
        /\ UNCHANGED job
     \/ /\ SavePublishMeta(k, files[s], cycle) \/ SaveGivesUp
        /\ Goto(after)
  /\ UNCHANGED taskVars

SaveWeather == /\ At("saveWeather")
               /\ Save("weather", WeatherKey, job.selected,
                       IF Coupled THEN "savePair" ELSE "joinWaves")
               /\ UNCHANGED jobVars

SavePair == /\ At("savePair")
            /\ Save("waves", WaveKey(job.selected), job.selected, "joinWaves")
            /\ UNCHANGED jobVars

(* Mutant: a restored stream is not put on the list.                       *)
JoinForgetsRestored(s, save, after) ==
  \/ /\ s \notin Wanted \/ s \in job.streams \/ s \in job.restored
     /\ Skip(after)
  \/ /\ s \in Wanted \ (job.streams \cup job.restored)
     /\ \/ tasks[s] = "unborn" /\ Begin({s}) /\ UNCHANGED job
        \/ /\ tasks[s] = "ok"
           /\ job' = [job EXCEPT !.pc = save, !.streams = @ \cup {s},
                        !.selected = IF @ = None THEN files[s].cycle ELSE @]
           /\ UNCHANGED tasks
        \/ tasks[s] \in {"invalid", "error"} /\ Goto("unwind") /\ UNCHANGED tasks
     /\ UNCHANGED <<cacheVars, files>>

(* Stage s joins the list: it is there already, or not wanted; or it was   *)
(* restored; or its task, begun here if no thread has it, has ended.       *)
Join(s, save, after) ==
  \/ /\ s \notin Wanted \/ s \in job.streams
     /\ Skip(after)
  \/ /\ s \in job.restored \ job.streams
     /\ job' = [job EXCEPT !.pc = after, !.streams = @ \cup {s}]
     /\ UNCHANGED <<cacheVars, taskVars>>
  \/ /\ s \in Wanted \ (job.streams \cup job.restored)
     /\ \/ tasks[s] = "unborn" /\ Begin({s}) /\ UNCHANGED job
        \/ /\ tasks[s] = "ok"
           /\ job' = [job EXCEPT !.pc = save, !.streams = @ \cup {s},
                        !.selected = IF @ = None THEN files[s].cycle ELSE @]
           /\ UNCHANGED tasks
        \/ tasks[s] \in {"invalid", "error"} /\ Goto("unwind") /\ UNCHANGED tasks
     /\ UNCHANGED <<cacheVars, files>>

JoinWaves == At("joinWaves") /\ Join("waves", "saveWaves", "joinCurrent") /\ UNCHANGED jobVars

SaveWaves == /\ At("saveWaves")
             /\ Save("waves", WaveKey(None), files["waves"].cycle, "joinCurrent")
             /\ UNCHANGED jobVars

JoinCurrent == At("joinCurrent") /\ Join("current", "saveCurrent", "merge") /\ UNCHANGED jobVars

SaveCurrent == /\ At("saveCurrent")
               /\ Save("current", CurrentKey, None, "merge")
               /\ UNCHANGED jobVars

(* Mutant: the checkpoints are dropped before the merge is known to work.  *)
MergeForgetsCheckpoints ==
  /\ At("merge")
  /\ \/ job' = [job EXCEPT !.pc = "complete", !.published = TRUE]
     \/ job' = [job EXCEPT !.pc = "unwind", !.published = TRUE]
     \/ Goto("unwind")
  /\ data' = Restrict(data, DOMAIN data \ touched)
  /\ UNCHANGED <<meta, touched, step, taskVars>>
  /\ UNCHANGED jobVars

(* The merge publishes and succeeds; publishes and then fails (inspecting  *)
(* the output it has just renamed); or refuses the streams.                *)
Merge == /\ At("merge")
         /\ \/ job' = [job EXCEPT !.pc = "complete", !.published = TRUE]
            \/ job' = [job EXCEPT !.pc = "unwind", !.published = TRUE]
            \/ Goto("unwind")
         /\ UNCHANGED <<cacheVars, taskVars>>
         /\ UNCHANGED jobVars

Complete == /\ At("complete")
            /\ \/ (\E k \in touched : CompleteOne(k)) /\ UNCHANGED job
               \/ touched = {} /\ Goto("return") /\ UNCHANGED cacheVars
            /\ UNCHANGED taskVars
            /\ UNCHANGED jobVars

(* Mutant: the workspace goes before the futures.                          *)
LeaveAtOnce == /\ job.pc \in {"return", "unwind"}
               /\ workspace' = FALSE
               /\ Goto(IF At("return") THEN "done" ELSE "failed")
               /\ UNCHANGED <<cacheVars, taskVars, jobs, req>>

(* The end of the scope: the futures wait for their threads, and then the  *)
(* workspace is removed.                                                   *)
Leave == /\ job.pc \in {"return", "unwind"}
         /\ \A s \in StageNames : tasks[s] # "running"
         /\ workspace' = FALSE
         /\ Goto(IF At("return") THEN "done" ELSE "failed")
         /\ UNCHANGED <<cacheVars, taskVars, jobs, req>>

MainStep ==
  \/ RestoreWaves \/ RestoreCurrent \/ RestoreWeather \/ RestorePair
  \/ GenerateWeather \/ AwaitWeather \/ AwaitPair
  \/ SaveWeather \/ SavePair
  \/ JoinWaves \/ SaveWaves \/ JoinCurrent \/ SaveCurrent
  \/ Merge \/ Complete \/ Leave
-----------------------------------------------------------------------------
(* The next job, in this process or another one.                           *)
StartJob == /\ job.pc \in Ended /\ jobs < MaxJobs
            /\ jobs' = jobs + 1
            /\ req' \in Requests
            /\ job' = NewJob
            /\ tasks' = [s \in StageNames |-> "unborn"]
            /\ files' = [s \in StageNames |-> None]
            /\ workspace' = TRUE
            /\ CacheCrash

(* The process dies: its threads and its memory are gone, the checkpoint   *)
(* files stay, and its workspace directory is left behind for nobody.      *)
Crash == /\ job.pc \notin Ended
         /\ CacheCrash
         /\ job' = [NewJob EXCEPT !.pc = "crashed", !.published = job.published]
         /\ tasks' = [s \in StageNames |-> "unborn"]
         /\ files' = [s \in StageNames |-> None]
         /\ workspace' = FALSE
         /\ UNCHANGED <<jobs, req>>

Next == MainStep \/ (\E s \in StageNames : TaskEnds(s)) \/ StartJob \/ Crash

Spec == Init /\ [][Next]_vars

(* The main thread and the tasks keep running; a task ends because every   *)
(* download has a timeout and a bounded number of attempts.  No job has to *)
(* come, and none has to crash.                                            *)
FairSpec == /\ Spec
            /\ WF_vars(MainStep)
            /\ \A s \in StageNames : WF_vars(TaskEnds(s))
-----------------------------------------------------------------------------
(* A stage's stream in the workspace is a stream of that stage.            *)
TypeOK ==
  /\ CacheTypeOK
  /\ jobs \in 0 .. MaxJobs
  /\ req \in Requests
  /\ job \in [pc : Ended \cup {"restoreWaves", "restoreCurrent", "restoreWeather",
                      "restorePair", "generateWeather", "awaitWeather", "awaitPair",
                      "saveWeather", "savePair", "joinWaves", "saveWaves",
                      "joinCurrent", "saveCurrent", "merge", "complete", "return",
                      "unwind"},
              restored : SUBSET StageNames, streams : SUBSET StageNames,
              candidate : Cycles \cup {None}, tried : SUBSET Cycles,
              selected : Cycles \cup {None}, published : BOOLEAN]
  /\ tasks \in [StageNames -> {"unborn", "running", "ok", "invalid", "error"}]
  /\ files["weather"] \in {None} \cup [cycle : Cycles, spacing : Spacings]
  /\ files["waves"] \in {None} \cup [cycle : Cycles, spacing : {None}]
                              \cup [cycle : {None}, spacing : Spacings]
  /\ files["current"] \in {None} \cup [cycle : {None}, spacing : {None}]
  /\ DOMAIN files = StageNames
  /\ workspace \in BOOLEAN

(* The job in hand has replaced the output.                                *)
Published == job.published /\ ~At("crashed")

(* The output holds a stream for each stage the request wants and for no   *)
(* other, whichever of them were restored, generated inline or on threads. *)
PublishedIsComplete ==
  Published => job.streams = Wanted /\ \A s \in Wanted : files[s] # None

(* Coupled GFS atmosphere and waves in one output are of one cycle: "GFS   *)
(* atmosphere/wave checkpoints resume as a matched cycle"                  *)
(* (tests/engine_tests.cpp), across failures, crashes and other requests.  *)
CoupledCyclesMatch ==
  Published /\ Coupled => files["weather"].cycle = files["waves"].cycle

(* The weather in the output, restored or not, was generated at the grid   *)
(* spacing of this request and not of the job that saved it, and the       *)
(* selected_cycle the result reports is its cycle, or that of the waves    *)
(* when there is no weather.                                               *)
PublishedFitsRequest ==
  Published => LET lead == IF "weather" \in Wanted THEN "weather" ELSE "waves"
               IN  /\ lead = "weather" => files[lead].spacing = req.spacing
                   /\ lead \in Wanted => job.selected = files[lead].cycle

(* The same of Copernicus waves, which are resampled to the weather grid.  *)
WavesHaveRequestedSpacing ==
  Published /\ req.waves = "copernicus" => files["waves"].spacing = req.spacing

(* Checkpoints are dropped for a published output only: a job that failed  *)
(* leaves every pair it restored or saved for the retry, and one that      *)
(* succeeded leaves none that the next job for the same request would      *)
(* restore first instead of fetching fresh data.  (Coupled weather         *)
(* restored without its waves is saved a second time, over an accepted     *)
(* pair, and that save may fail half way.  Coupled waves of an earlier     *)
(* cycle may be left; without weather they are not looked at.)             *)
CheckpointsFollowOutcome ==
  /\ At("failed") => \A k \in touched : Acceptable(k) \/ (Coupled /\ k = WeatherKey)
  /\ At("done") => \A k \in {WeatherKey, CurrentKey} \cup
                              (IF Coupled THEN {} ELSE {WaveKey(None)}) : ~Acceptable(k)

(* A thread never works in a workspace that is gone: async children write  *)
(* under it until the scope that created both is left.                     *)
NoTaskOutlivesWorkspace ==
  (\E s \in StageNames : tasks[s] = "running") => workspace

(* A job ends, also when a stage fails while the threads of others run.    *)
JobEnds == job.pc \notin Ended ~> job.pc \in Ended
=============================================================================
