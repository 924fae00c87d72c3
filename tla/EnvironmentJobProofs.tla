------------------------ MODULE EnvironmentJobProofs ------------------------
(***************************************************************************)
(* What EnvironmentJob promises for any requests, cycles and spacings, any *)
(* number of jobs one after the other, whichever stages fail and wherever  *)
(* the process dies.                                                       *)
(*                                                                         *)
(* The invariant comes in three layers, each relying on those before it:   *)
(* FlowInv, what the main thread, the tasks, their files and the cached    *)
(* streams know of each other; TouchedInv, which checkpoints a job answers *)
(* for; and CyclesInv, which holds where a scan tells cycles apart.        *)
(***************************************************************************)
EXTENDS EnvironmentJob, TLAPS

(* The places of the main thread, in its order. *)
FromSaveCurrent == {"saveCurrent", "merge", "complete", "return", "done"}
FromJoinCurrent == {"joinCurrent"} \cup FromSaveCurrent
FromSaveWaves   == {"saveWaves"} \cup FromJoinCurrent
FromJoinWaves   == {"joinWaves"} \cup FromSaveWaves
SavingWeather   == {"saveWeather", "savePair"}
Seeking == {"restoreWaves", "restoreCurrent", "restoreWeather", "restorePair",
            "generateWeather", "awaitWeather", "awaitPair"}
Saving  == {"saveWeather", "savePair", "saveWaves", "saveCurrent"}
Pair    == {"weather", "waves"}

Listed == job.streams \cup job.restored

-----------------------------------------------------------------------------
(* Streams and the keys they are kept under.                               *)

(* A stream is one the stage and fingerprint of a key may stand for.       *)
StreamFits(k, stream) ==
  /\ stream \in Stream
  /\ k[1] = "weather" => stream.cycle \in Cycles /\ stream.spacing = k[3] /\ k[3] \in Spacings
  /\ k[1] = "waves" /\ k[2] = "gfs_wave" =>
       /\ stream.cycle \in Cycles /\ stream.spacing = None
       /\ k[3] = None \/ stream.cycle = k[3]
  /\ k[1] = "waves" /\ k[2] # "gfs_wave" => stream.cycle = None /\ stream.spacing \in Spacings
  /\ k[1] = "current" => stream.cycle = None /\ stream.spacing = None

(* Whatever was interrupted, a cached stream is one its key stands for,    *)
(* and a description's counts are those of its cycle, though the two need  *)
(* not belong together.                                                    *)
CacheSound ==
  /\ \A k \in DOMAIN data : k \in Keys /\ StreamFits(k, data[k])
  /\ \A k \in DOMAIN meta : /\ k \in Keys /\ meta[k] \in Metadata
                           /\ meta[k].scan = ScanOf[meta[k].cycle]
  /\ touched \subseteq Keys
  /\ step \in {"copy", "publish", "describe", "publishMeta"}

(* A stream is one that stage s of this request may have made.             *)
Makes(s, stream) ==
  /\ stream \in Stream
  /\ s = "weather" => stream.cycle \in Cycles /\ stream.spacing = req.spacing
  /\ s = "waves" /\ req.waves = "gfs_wave" => stream.cycle \in Cycles /\ stream.spacing = None
  /\ s = "waves" /\ req.waves # "gfs_wave" => stream.cycle = None /\ stream.spacing \in Spacings
  /\ s = "current" => stream.cycle = None /\ stream.spacing = None

-----------------------------------------------------------------------------
(* FlowInv.                                                                *)

Jobs == [pc : Ended \cup Seeking \cup SavingWeather \cup FromJoinWaves \cup {"unwind"},
         restored : SUBSET StageNames, streams : SUBSET StageNames,
         candidate : Cycles \cup {None}, tried : SUBSET Cycles,
         selected : Cycles \cup {None}, published : BOOLEAN]

(* Types, and where the process's threads may be.                          *)
PlacesInv ==
  /\ jobs \in 0 .. MaxJobs /\ req \in Requests /\ workspace \in BOOLEAN
  /\ job \in Jobs
  /\ tasks \in [StageNames -> {"unborn", "running", "ok", "invalid", "error"}]
  /\ files \in [StageNames -> Stream \cup {None}]
  /\ \A s \in StageNames : tasks[s] # "unborn" => s \in Wanted
  /\ job.pc \notin Ended => workspace
  /\ job.pc \in Ended => \A s \in StageNames : tasks[s] # "running"
  /\ \A s \in Pair : Coupled /\ tasks[s] = "running" => At("awaitPair")

(* What each place of the main thread takes for granted.                   *)
PcInv ==
  /\ job.pc \in {"restorePair", "awaitPair", "savePair"} => Coupled
  /\ At("restorePair") => files["weather"] # None
  /\ At("awaitWeather") => ~Coupled
  /\ job.pc \in {"generateWeather", "awaitWeather", "awaitPair"} \cup SavingWeather
       => "weather" \in Wanted
  /\ At("saveWaves") => "waves" \in Wanted \ job.restored /\ ~Coupled
  /\ At("saveCurrent") => "current" \in Wanted \ job.restored
  /\ At("awaitWeather") => tasks["weather"] # "unborn"
  /\ At("awaitPair") => /\ job.candidate \in Cycles
                        /\ \A s \in Pair : tasks[s] # "unborn"

(* A stage main has not looked at yet.                                     *)
Untouched(s) == tasks[s] = "unborn" /\ s \notin Listed

EarlyInv ==
  /\ At("restoreWaves") => \A s \in StageNames : Untouched(s)
  /\ At("restoreCurrent") => Untouched("weather") /\ Untouched("current")
  /\ At("restoreWeather") => Untouched("weather")

(* A file is its stage's; what is on the list or restored has its file and *)
(* no task at work on it; a task that ended well left a file, unless the   *)
(* pair was given up since.                                                *)
FilesInv ==
  /\ \A s \in StageNames : files[s] # None => s \in Wanted /\ Makes(s, files[s])
  /\ \A s \in Listed : s \in Wanted /\ files[s] # None /\ tasks[s] # "running"
  /\ \A s \in StageNames :
       tasks[s] = "ok" => \/ files[s] # None
                          \/ Coupled /\ s \in Pair
                             /\ job.pc \in {"generateWeather", "unwind", "failed"}
  /\ At("awaitPair") =>
       \A s \in Pair : tasks[s] = "ok" => files[s].cycle = job.candidate

(* The list fills up as the main thread goes on.                           *)
ListInv ==
  /\ job.pc \in Seeking => "weather" \notin Listed /\ (Coupled => "waves" \notin Listed)
  /\ job.pc \in SavingWeather =>
       /\ "weather" \in job.streams \ job.restored
       /\ Coupled => "waves" \in job.streams \ job.restored
  /\ job.pc \in FromJoinWaves =>
       /\ "weather" \in Wanted => "weather" \in job.streams
       /\ Coupled => "waves" \in job.streams
  /\ job.pc \in FromJoinCurrent /\ "waves" \in Wanted => "waves" \in job.streams
  /\ job.pc \in FromSaveCurrent /\ "current" \in Wanted => "current" \in job.streams
  /\ At("saveWaves") => "waves" \in job.streams
  /\ job.published => /\ job.pc \in {"complete", "return", "unwind"} \cup Ended
                      /\ ~At("crashed") => job.streams = Wanted

(* The cycle a save describes is that of the stream it saves.              *)
SelectedInv ==
  job.pc \in SavingWeather =>
    /\ job.selected = files["weather"].cycle
    /\ Coupled => job.selected = files["waves"].cycle

(* The stage and the key of the save under way.                            *)
SavedStage == CASE At("saveWeather") -> "weather"
                [] At("savePair") -> "waves"
                [] At("saveWaves") -> "waves"
                [] At("saveCurrent") -> "current"
SavedKey == CASE At("saveWeather") -> WeatherKey
              [] At("savePair") -> WaveKey(job.selected)
              [] At("saveWaves") -> WaveKey(None)
              [] At("saveCurrent") -> CurrentKey

(* A save that has published its stream still has it.                      *)
StoreInv ==
  /\ CacheSound
  /\ job.pc \notin Saving => step = "copy"
  /\ job.pc \in Saving /\ step \in {"describe", "publishMeta"} =>
       SavedKey \in DOMAIN data /\ data[SavedKey] = files[SavedStage]

FlowInv == PlacesInv /\ PcInv /\ EarlyInv /\ FilesInv /\ ListInv /\ SelectedInv /\ StoreInv

-----------------------------------------------------------------------------
(* TouchedInv.                                                             *)

NoneOf(stage) == \A k \in touched : k[1] # stage

(* The pairs this job restored or saved so far are of the stages it has    *)
(* restored or come past.                                                  *)
TouchedKeysInv ==
  /\ "current" \notin job.restored /\ job.pc \in Seeking \cup SavingWeather
       \cup {"joinWaves", "saveWaves", "joinCurrent", "saveCurrent"} => NoneOf("current")
  /\ "waves" \notin job.restored /\ job.pc \in Seeking \cup SavingWeather => NoneOf("waves")
  /\ "waves" \notin job.restored /\ ~Coupled /\ job.pc \in {"joinWaves", "saveWaves"}
       => NoneOf("waves")
  /\ ~Coupled /\ job.pc \in Seeking \cup {"saveWeather"} => NoneOf("weather")
  /\ job.pc \in {"restoreWaves", "restoreCurrent", "restoreWeather"} => NoneOf("weather")
  /\ \A k \in touched : k[1] = "weather" => k = WeatherKey

(* Each of them would be accepted again, until they are all dropped; but   *)
(* the coupled weather may be under a second save.                         *)
AcceptableInv ==
  ~At("complete") => \A k \in touched : Acceptable(k) \/ (Coupled /\ k = WeatherKey)

(* A pair the next job could restore is among them.                        *)
Answered(k) == k \in DOMAIN meta => k \in touched

AnsweredForInv ==
  /\ job.pc \in (Seeking \ {"restoreWaves"}) \cup SavingWeather \cup FromJoinWaves
       => Coupled \/ Answered(WaveKey(None))
  /\ job.pc \in (Seeking \ {"restoreWaves", "restoreCurrent"}) \cup SavingWeather
                  \cup FromJoinWaves
       => Answered(CurrentKey)
  /\ job.pc \in {"restorePair", "generateWeather", "awaitWeather", "awaitPair"}
                  \cup SavingWeather \cup FromJoinWaves
       => Answered(WeatherKey)
  /\ job.pc \in {"return", "done"} => touched = {}

TouchedInv == TouchedKeysInv /\ AcceptableInv /\ AnsweredForInv

-----------------------------------------------------------------------------
(* CyclesInv.                                                              *)

(* The counts of a stream tell its cycle.                                  *)
ScansTellCyclesApart ==
  \A c, d \in Cycles \cup {None} : ScanOf[c] = ScanOf[d] => c = d

CyclesInv ==
  /\ "weather" \in job.streams => job.selected = files["weather"].cycle
  /\ At("restorePair") => files["weather"] # None /\ job.candidate = files["weather"].cycle
  /\ "weather" \notin Wanted =>
       job.selected = IF "waves" \in Listed THEN files["waves"].cycle ELSE None
  /\ Coupled /\ "waves" \in job.streams => job.selected = files["waves"].cycle
-----------------------------------------------------------------------------
(* No file operation puts anything unsound into the cache.                 *)
LEMMA RemovingKeepsSound ==
  ASSUME CacheSound, NEW k,
         \/ data' = Without(data, k) /\ meta' = meta
         \/ meta' = Without(meta, k) /\ data' = data,
         touched' \subseteq Keys,
         step' \in {"copy", "publish", "describe", "publishMeta"}
  PROVE  CacheSound'
<1>1. CASE data' = Without(data, k) /\ meta' = meta
  <2>1. DOMAIN data' = DOMAIN data \ {k} /\ \A j \in DOMAIN data' : data'[j] = data[j]
    BY <1>1 DEF Without, Restrict
  <2>. QED  BY <1>1, <2>1 DEF CacheSound
<1>2. CASE meta' = Without(meta, k) /\ data' = data
  <2>1. DOMAIN meta' = DOMAIN meta \ {k} /\ \A j \in DOMAIN meta' : meta'[j] = meta[j]
    BY <1>2 DEF Without, Restrict
  <2>. QED  BY <1>2, <2>1 DEF CacheSound
<1>. QED  BY <1>1, <1>2

LEMMA StandingKeepsSound ==
  ASSUME CacheSound, UNCHANGED <<data, meta>>, touched' \subseteq Keys,
         step' \in {"copy", "publish", "describe", "publishMeta"}
  PROVE  CacheSound'
BY DEF CacheSound

LEMMA PlacingStreamKeepsSound ==
  ASSUME CacheSound, NEW k \in Keys, NEW stream, StreamFits(k, stream),
         data' = With(data, k, stream), UNCHANGED <<meta, touched>>, step' = "describe"
  PROVE  CacheSound'
<1>1. /\ DOMAIN data' = DOMAIN data \cup {k} /\ data'[k] = stream
      /\ \A j \in DOMAIN data \ {k} : data'[j] = data[j]
  BY DEF With
<1>. QED  BY <1>1 DEF CacheSound

LEMMA PlacingDescriptionKeepsSound ==
  ASSUME CacheSound, NEW k \in Keys, NEW cycle \in Cycles \cup {None},
         meta' = With(meta, k, [cycle |-> cycle, scan |-> ScanOf[cycle]]),
         touched' \subseteq Keys, data' = data, step' = "copy"
  PROVE  CacheSound'
<1>. DEFINE m == [cycle |-> cycle, scan |-> ScanOf[cycle]]
<1>1. m \in Metadata /\ m.scan = ScanOf[m.cycle]
  BY CacheAssumption DEF Metadata
<1>2. /\ DOMAIN meta' = DOMAIN meta \cup {k} /\ meta'[k] = m
      /\ \A j \in DOMAIN meta \ {k} : meta'[j] = meta[j]
  BY DEF With
<1>. QED  BY <1>1, <1>2 DEF CacheSound

-----------------------------------------------------------------------------
(* What a step leaves alone.                                               *)

(* Within a job the request, and all it leads to, stays the same.          *)
LEMMA SameRequest ==
  ASSUME req' = req
  PROVE  /\ Wanted' = Wanted /\ Coupled' = Coupled
         /\ WeatherKey' = WeatherKey /\ CurrentKey' = CurrentKey
         /\ \A c : WaveKey(c)' = WaveKey(c)
         /\ \A s, x : Makes(s, x)' <=> Makes(s, x)
BY DEF Wanted, Coupled, WeatherKey, CurrentKey, WaveKey, Makes

(* The request's stages and the streams a task may come up with.           *)
LEMMA RequestIs ==
  ASSUME req \in Requests
  PROVE  /\ req.weather \in {"none", "gfs", "ukmo_ukv"}
         /\ req.waves \in {"none", "gfs_wave", "copernicus"}
         /\ req.current \in {"none", "marine_ie"}
         /\ req.spacing \in Spacings
         /\ Coupled => Pair \subseteq Wanted
BY JobAssumption DEF Coupled, Wanted, StageNames, Pair

LEMMA GeneratedIsMade ==
  ASSUME PlacesInv, PcInv, NEW s \in StageNames, tasks[s] = "running",
         NEW stream \in Generated(s)
  PROVE  /\ Makes(s, stream)
         /\ Coupled /\ s \in Pair => stream.cycle = job.candidate
<1>1. s \in Wanted /\ req \in Requests /\ (Coupled /\ s \in Pair => At("awaitPair"))
  BY DEF PlacesInv
<1>2. Coupled /\ s \in Pair => job.candidate \in Cycles
  BY <1>1 DEF PcInv
<1>3. CASE s = "weather"
  BY <1>1, <1>2, <1>3, RequestIs DEF Generated, Makes, Stream, Pair
<1>4. CASE s = "waves"
  <2>1. CASE req.waves = "gfs_wave"
    BY <1>1, <1>2, <1>4, <2>1, RequestIs DEF Generated, Makes, Stream, Pair
  <2>2. CASE req.waves = "copernicus"
    BY <1>1, <1>4, <2>2, RequestIs DEF Generated, Makes, Stream, Pair, Coupled
  <2>. QED  BY <1>1, <1>4, <2>1, <2>2, RequestIs DEF Wanted
<1>5. CASE s = "current"
  BY <1>1, <1>5, RequestIs DEF Generated, Makes, Stream, Pair
<1>. QED  BY <1>3, <1>4, <1>5 DEF StageNames

-----------------------------------------------------------------------------
(* FlowInv is kept by every step.                                          *)

LEMMA FlowInit ==
  ASSUME Init
  PROVE  FlowInv
<1>1. job = [NewJob EXCEPT !.pc = "failed"] /\ job.pc = "failed" /\ job.streams = {}
      /\ job.restored = {} /\ ~job.published
  BY DEF Init, NewJob
<1>2. PlacesInv
  <2>1. jobs \in 0 .. MaxJobs
    BY JobAssumption DEF Init
  <2>2. job \in Jobs
    BY <1>1 DEF Jobs, NewJob, Ended
  <2>3. workspace \in BOOLEAN /\ req \in Requests /\ files \in [StageNames -> Stream \cup {None}]
        /\ tasks \in [StageNames -> {"unborn", "running", "ok", "invalid", "error"}]
    BY DEF Init
  <2>4. \A s \in StageNames : tasks[s] = "unborn"
    BY DEF Init
  <2>. QED  BY <1>1, <2>1, <2>2, <2>3, <2>4 DEF PlacesInv, Pair, StageNames, Ended
<1>3. PcInv /\ EarlyInv /\ FilesInv
  BY <1>1 DEF Init, PcInv, EarlyInv, FilesInv, At, Listed, SavingWeather, StageNames
<1>4. ListInv /\ SelectedInv
  BY <1>1 DEF ListInv, SelectedInv, At, Seeking, SavingWeather, FromJoinWaves, FromSaveWaves,
              FromJoinCurrent, FromSaveCurrent
<1>5. StoreInv
  BY <1>1 DEF Init, CacheInit, StoreInv, CacheSound, Saving
<1>. QED  BY <1>2, <1>3, <1>4, <1>5 DEF FlowInv

LEMMA TaskEndsKeepsFlow ==
  ASSUME FlowInv, NEW s \in StageNames, TaskEnds(s)
  PROVE  FlowInv'
<1>1. /\ req' = req /\ job' = job /\ jobs' = jobs /\ workspace' = workspace
      /\ UNCHANGED cacheVars
      /\ tasks[s] = "running" /\ s \notin Listed
  BY DEF TaskEnds, jobVars, FlowInv, FilesInv
<1>2. /\ Wanted' = Wanted /\ Coupled' = Coupled /\ \A t, x : Makes(t, x)' <=> Makes(t, x)
      /\ WeatherKey' = WeatherKey /\ CurrentKey' = CurrentKey
      /\ \A c : WaveKey(c)' = WaveKey(c)
  BY <1>1, SameRequest
<1>3. PICK end \in {"ok", "invalid", "error"} :
        /\ tasks' = [tasks EXCEPT ![s] = end]
        /\ \A t \in StageNames \ {s} : files'[t] = files[t]
        /\ files' \in [StageNames -> Stream \cup {None}]
        /\ end # "ok" => files' = files
        /\ end = "ok" => /\ files'[s] # None /\ Makes(s, files'[s])
                         /\ Coupled /\ s \in Pair => files'[s].cycle = job.candidate
  <2>1. CASE /\ tasks' = [tasks EXCEPT ![s] = "ok"]
             /\ \E stream \in Generated(s) : files' = [files EXCEPT ![s] = stream]
    <3>1. PICK stream \in Generated(s) : files' = [files EXCEPT ![s] = stream]
      BY <2>1
    <3>2. /\ Makes(s, stream) /\ stream \in Stream /\ stream # None
          /\ Coupled /\ s \in Pair => stream.cycle = job.candidate
      BY <1>1, GeneratedIsMade, NoneAssumption DEF FlowInv, Makes
    <3>. QED  BY <2>1, <3>1, <3>2 DEF FlowInv, PlacesInv
  <2>2. CASE /\ \E end \in {"invalid", "error"} : tasks' = [tasks EXCEPT ![s] = end]
             /\ UNCHANGED files
    BY <2>2 DEF FlowInv, PlacesInv
  <2>. QED  BY <2>1, <2>2 DEF TaskEnds
<1>4. /\ \A t \in StageNames : tasks'[t] = IF t = s THEN end ELSE tasks[t]
      /\ tasks' \in [StageNames -> {"unborn", "running", "ok", "invalid", "error"}]
  BY <1>3 DEF FlowInv, PlacesInv
<1>5. PlacesInv'
  BY <1>1, <1>2, <1>3, <1>4 DEF FlowInv, PlacesInv, At
<1>6. PcInv'
  BY <1>1, <1>2, <1>3, <1>4 DEF FlowInv, PcInv, At, StageNames, Pair
<1>11. EarlyInv'
  BY <1>1, <1>4 DEF FlowInv, EarlyInv, Untouched, At, Listed, StageNames
<1>7. FilesInv'
  <2>1. \A t \in StageNames : files'[t] # None => t \in Wanted /\ Makes(t, files'[t])
    BY <1>1, <1>3 DEF FlowInv, PlacesInv, FilesInv
  <2>2. \A t \in Listed : t \in Wanted /\ files'[t] # None /\ tasks'[t] # "running"
    BY <1>1, <1>3, <1>4 DEF FlowInv, FilesInv, Wanted
  <2>3. \A t \in StageNames :
          tasks'[t] = "ok" => \/ files'[t] # None
                              \/ Coupled /\ t \in Pair
                                 /\ job.pc \in {"generateWeather", "unwind", "failed"}
    BY <1>3, <1>4 DEF FlowInv, FilesInv
  <2>4. At("awaitPair") =>
          \A t \in Pair : tasks'[t] = "ok" => files'[t].cycle = job.candidate
    BY <1>3, <1>4 DEF FlowInv, FilesInv, PcInv, Pair, StageNames, At
  <2>5. Listed' = Listed
    BY <1>1 DEF Listed
  <2>. QED  BY <1>1, <1>2, <2>1, <2>2, <2>3, <2>4, <2>5 DEF FilesInv, At
<1>8. ListInv'
  BY <1>1, <1>2 DEF FlowInv, ListInv, At, Listed
<1>9. SelectedInv'
  BY <1>1, <1>2, <1>3 DEF FlowInv, ListInv, SelectedInv, Listed, StageNames, SavingWeather
<1>10. StoreInv'
  <2>1. CacheSound'
    BY <1>1, StandingKeepsSound DEF FlowInv, StoreInv, CacheSound, cacheVars
  <2>2. At("saveWeather") \/ At("savePair") \/ At("saveWaves") \/ At("saveCurrent")
          => SavedStage \in job.streams /\ SavedStage \in StageNames
    BY DEF FlowInv, PcInv, ListInv, SavedStage, At, SavingWeather, StageNames, FromSaveCurrent
  <2>3. job.pc \in Saving => files'[SavedStage] = files[SavedStage]
    BY <1>1, <1>3, <2>2 DEF Saving, At, Listed
  <2>4. SavedStage' = SavedStage /\ SavedKey' = SavedKey
    BY <1>1, <1>2 DEF SavedStage, SavedKey, At
  <2>. QED  BY <1>1, <2>1, <2>3, <2>4 DEF FlowInv, StoreInv, cacheVars
<1>. QED  BY <1>5, <1>6, <1>7, <1>8, <1>9, <1>10, <1>11 DEF FlowInv

(* The refusal of a pair removes a file and leaves the job where it is.    *)
LEMMA RefusalKeepsFlow ==
  ASSUME FlowInv, NEW k, RestoreRefuse(k), job.pc \notin Saving,
         UNCHANGED <<jobVars, job, taskVars>>
  PROVE  FlowInv'
<1>1. CacheSound'
  <2>1. CacheSound
    BY DEF FlowInv, StoreInv
  <2>2. touched' \subseteq Keys /\ step' \in {"copy", "publish", "describe", "publishMeta"}
    <3>1. touched' = touched /\ step' = step
      BY DEF RestoreRefuse
    <3>. QED  BY <2>1, <3>1 DEF CacheSound
  <2>3. \/ data' = Without(data, k) /\ meta' = meta
        \/ meta' = Without(meta, k) /\ data' = data
    BY DEF RestoreRefuse, RemoveOne
  <2>. QED  BY <2>1, <2>2, <2>3, RemovingKeepsSound
<1>2. req' = req /\ job' = job /\ jobs' = jobs /\ workspace' = workspace /\ tasks' = tasks
      /\ files' = files /\ step' = step
  BY DEF jobVars, taskVars, RestoreRefuse
<1>3. /\ Wanted' = Wanted /\ Coupled' = Coupled /\ \A t, x : Makes(t, x)' <=> Makes(t, x)
  BY <1>2, SameRequest
<1>4. PlacesInv'
  BY <1>2, <1>3 DEF FlowInv, PlacesInv, At
<1>5. PcInv' /\ EarlyInv'
  BY <1>2, <1>3 DEF FlowInv, PcInv, EarlyInv, Untouched, At, Listed
<1>6. FilesInv'
  BY <1>2, <1>3 DEF FlowInv, FilesInv, At, Listed
<1>7. ListInv' /\ SelectedInv'
  BY <1>2, <1>3 DEF FlowInv, ListInv, SelectedInv, At, Listed
<1>8. StoreInv'
  BY <1>1, <1>2 DEF FlowInv, StoreInv
<1>. QED  BY <1>4, <1>5, <1>6, <1>7, <1>8 DEF FlowInv

(* A stream that fits the key of a stage is one the stage may have made.   *)
LEMMA FittingIsMade ==
  ASSUME NEW s \in StageNames, NEW k, NEW stream, StreamFits(k, stream),
         \/ s = "weather" /\ k = WeatherKey
         \/ s = "waves" /\ k[1] = "waves" /\ k[2] = req.waves
         \/ s = "current" /\ k = CurrentKey
  PROVE  Makes(s, stream)
BY DEF StreamFits, Makes, WeatherKey, CurrentKey

(* A pair that is accepted has a stream the stage may have made.           *)
LEMMA RestoredIsMade ==
  ASSUME FlowInv, NEW s \in StageNames, NEW k, RestoreHit(k),
         \/ s = "weather" /\ k = WeatherKey
         \/ s = "waves" /\ k[1] = "waves" /\ k[2] = req.waves
         \/ s = "current" /\ k = CurrentKey
  PROVE  /\ Makes(s, data[k]) /\ data[k] # None /\ data[k] \in Stream
         /\ k \in Keys /\ meta[k].cycle \in Cycles \cup {None}
         /\ CacheSound' /\ step' = step
<1>1. k \in DOMAIN data /\ k \in DOMAIN meta
  BY DEF RestoreHit, Acceptable
<1>2. StreamFits(k, data[k]) /\ k \in Keys /\ meta[k] \in Metadata
  BY <1>1 DEF FlowInv, StoreInv, CacheSound
<1>3. data[k] \in Stream /\ data[k] # None
  BY <1>2, NoneAssumption DEF StreamFits
<1>4. Makes(s, data[k])
  BY <1>2, FittingIsMade
<1>7. CacheSound' /\ step' = step
  <2>1. CacheSound
    BY DEF FlowInv, StoreInv
  <2>2. touched' \subseteq Keys /\ step' \in {"copy", "publish", "describe", "publishMeta"}
    BY <1>2, <2>1 DEF CacheSound, RestoreHit
  <2>. QED  BY <2>1, <2>2, StandingKeepsSound DEF RestoreHit
<1>8. meta[k].cycle \in Cycles \cup {None}
  BY <1>2 DEF Metadata
<1>. QED  BY <1>2, <1>3, <1>4, <1>7, <1>8

(* A step of the main thread within a job: nothing of the request or the   *)
(* workspace changes, and it does not end here.                            *)
Within == /\ req' = req /\ jobs' = jobs /\ workspace' = workspace
          /\ job.pc \notin Ended /\ job' \in Jobs /\ job'.pc \notin Ended

(* A step that begins no task: what it puts in the workspace, and on the   *)
(* list, is the stage's and wanted.                                        *)
LEMMA MoveKeepsFiles ==
  ASSUME FlowInv, Within, tasks' = tasks,
         files' \in [StageNames -> Stream \cup {None}],
         \A t \in StageNames :
           files'[t] = files[t] \/ (t \in Wanted /\ files'[t] # None /\ Makes(t, files'[t])),
         \A t \in Listed' :
           t \in Listed \/ (t \in Wanted /\ files'[t] # None /\ tasks[t] # "running"),
         job.pc \notin {"generateWeather", "awaitPair", "unwind"}, job'.pc # "awaitPair"
  PROVE  PlacesInv' /\ FilesInv'
<1>1. /\ Wanted' = Wanted /\ Coupled' = Coupled /\ \A t, x : Makes(t, x)' <=> Makes(t, x)
  BY SameRequest DEF Within
<1>2. PlacesInv'
  <2>1. PlacesInv
    BY DEF FlowInv
  <2>2. /\ jobs' \in 0 .. MaxJobs /\ req' \in Requests /\ workspace' \in BOOLEAN /\ job' \in Jobs
        /\ tasks' \in [StageNames -> {"unborn", "running", "ok", "invalid", "error"}]
        /\ job'.pc \notin Ended /\ workspace'
    BY <2>1 DEF PlacesInv, Within
  <2>3. \A s \in StageNames : tasks[s] # "unborn" => s \in Wanted
    BY <2>1 DEF PlacesInv
  <2>4. \A s \in Pair : ~(Coupled /\ tasks[s] = "running")
    BY <2>1 DEF PlacesInv, At
  <2>. QED  BY <1>1, <2>2, <2>3, <2>4 DEF PlacesInv
<1>3. \A t \in StageNames : files'[t] # None => t \in Wanted /\ Makes(t, files'[t])
  BY DEF FlowInv, FilesInv
<1>4. \A t \in Listed' : t \in Wanted /\ files'[t] # None /\ tasks[t] # "running"
  BY DEF FlowInv, FilesInv, Wanted
<1>5. \A t \in StageNames : tasks[t] = "ok" =>
        \/ files'[t] # None
        \/ Coupled /\ t \in Pair /\ job'.pc \in {"generateWeather", "unwind", "failed"}
  BY DEF FlowInv, FilesInv, Within, Ended
<1>. QED  BY <1>1, <1>2, <1>3, <1>4, <1>5 DEF FilesInv, At

(* A step that begins tasks, of wanted stages not on the list; both of a   *)
(* pair, or none.                                                          *)
LEMMA BeginKeepsFiles ==
  ASSUME FlowInv, Within, NEW started \in SUBSET (Wanted \ Listed), Begin(started),
         files' = files, Listed' = Listed, job.pc \notin {"awaitPair", "unwind"},
         Coupled /\ started \cap Pair # {} => job'.pc = "awaitPair",
         job'.pc = "awaitPair" => Coupled /\ Pair \subseteq started,
         Coupled /\ At("generateWeather") => Pair \subseteq started
  PROVE  PlacesInv' /\ FilesInv'
<1>1. /\ Wanted' = Wanted /\ Coupled' = Coupled /\ \A t, x : Makes(t, x)' <=> Makes(t, x)
  BY SameRequest DEF Within
<1>2. /\ tasks' \in [StageNames -> {"unborn", "running", "ok", "invalid", "error"}]
      /\ \A t \in StageNames : tasks'[t] = IF t \in started THEN "running" ELSE tasks[t]
  BY DEF Begin, FlowInv, PlacesInv
<1>3. PlacesInv'
  <2>1. PlacesInv
    BY DEF FlowInv
  <2>2. /\ jobs' \in 0 .. MaxJobs /\ req' \in Requests /\ workspace' \in BOOLEAN /\ job' \in Jobs
        /\ files' \in [StageNames -> Stream \cup {None}]
        /\ job'.pc \notin Ended /\ workspace'
    BY <2>1 DEF PlacesInv, Within
  <2>3. \A s \in StageNames : tasks'[s] # "unborn" => s \in Wanted
    BY <1>2, <2>1 DEF PlacesInv
  <2>4. \A s \in Pair : Coupled /\ tasks'[s] = "running" => job'.pc = "awaitPair"
    <3>1. \A s \in Pair : s \in StageNames /\ (Coupled => tasks[s] # "running")
      BY <2>1 DEF PlacesInv, At, Pair, StageNames
    <3>. QED  BY <1>2, <3>1
  <2>. QED  BY <1>1, <1>2, <2>2, <2>3, <2>4 DEF PlacesInv, At
<1>4. \A t \in StageNames : files'[t] # None => t \in Wanted /\ Makes(t, files'[t])
  BY DEF FlowInv, FilesInv
<1>5. \A t \in Listed : t \in Wanted /\ files'[t] # None /\ tasks'[t] # "running"
  BY <1>2 DEF FlowInv, FilesInv, Wanted
<1>6. \A t \in StageNames : tasks'[t] = "ok" =>
        \/ files'[t] # None
        \/ Coupled /\ t \in Pair /\ job'.pc \in {"generateWeather", "unwind", "failed"}
  BY <1>2 DEF FlowInv, FilesInv, Within, Ended, At
<1>7. job'.pc = "awaitPair" => \A t \in Pair : tasks'[t] # "ok"
  BY <1>2 DEF Pair, StageNames
<1>. QED  BY <1>1, <1>3, <1>4, <1>5, <1>6, <1>7 DEF FilesInv, At

(* Outside a save the store is idle.                                       *)
LEMMA IdleStoreStands ==
  ASSUME FlowInv, CacheSound', step' = step, job.pc \notin Saving
  PROVE  StoreInv'
BY DEF FlowInv, StoreInv

LEMMA CacheStands ==
  ASSUME FlowInv, UNCHANGED cacheVars
  PROVE  CacheSound' /\ step' = step
<1>1. CacheSound
  BY DEF FlowInv, StoreInv
<1>. QED  BY <1>1, StandingKeepsSound DEF CacheSound, cacheVars

(* Waves or currents, looked up before the weather: the job goes on to the *)
(* next place whatever the cache has.                                      *)
LEMMA EarlyRestoreKeepsFlow ==
  ASSUME FlowInv, NEW s \in {"waves", "current"}, NEW k, NEW next, NEW found,
         s \in Wanted, s = "waves" => ~Coupled,
         \/ s = "waves" /\ At("restoreWaves") /\ next = "restoreCurrent"
            /\ k[1] = "waves" /\ k[2] = req.waves
         \/ s = "current" /\ At("restoreCurrent") /\ next = "restoreWeather" /\ k = CurrentKey,
         found \in Jobs, found.pc = next, found.restored = job.restored \cup {s},
         found.streams = job.streams, found.published = job.published,
         Restore(s, k, found, next, req.parallel), UNCHANGED jobVars
  PROVE  FlowInv'
<1>1. /\ job.pc \in {"restoreWaves", "restoreCurrent"} /\ next \in {"restoreCurrent", "restoreWeather"}
      /\ job.pc \notin Ended \cup Saving /\ next \notin Ended
      /\ s \in StageNames /\ Untouched(s)
  BY DEF At, Ended, Saving, FlowInv, EarlyInv, StageNames
<1>2. req' = req /\ jobs' = jobs /\ workspace' = workspace
  BY DEF jobVars
<1>3. Wanted' = Wanted /\ Coupled' = Coupled
  BY <1>2, SameRequest
<1>4. ~job.published
  BY <1>1 DEF FlowInv, ListInv, Ended
<1>5. CASE RestoreRefuse(k) /\ UNCHANGED <<job, taskVars>>
  BY <1>1, <1>5, RefusalKeepsFlow
<1>6. CASE /\ RestoreHit(k) /\ files' = [files EXCEPT ![s] = data[k]]
           /\ job' = found /\ UNCHANGED tasks
  <2>1. /\ Makes(s, data[k]) /\ data[k] # None /\ data[k] \in Stream
        /\ CacheSound' /\ step' = step
    BY <1>1, <1>6, RestoredIsMade
  <2>2. Within
    BY <1>1, <1>2, <1>6 DEF Within
  <2>3. /\ files' \in [StageNames -> Stream \cup {None}]
        /\ \A t \in StageNames : files'[t] = IF t = s THEN data[k] ELSE files[t]
    BY <1>1, <1>6, <2>1 DEF FlowInv, PlacesInv
  <2>4. Listed' = Listed \cup {s}
    BY <1>6 DEF Listed
  <2>5. tasks[s] # "running" /\ s \in Wanted
    BY <1>1 DEF Untouched
  <2>6. PlacesInv' /\ FilesInv'
    BY <1>1, <1>6, <2>1, <2>2, <2>3, <2>4, <2>5, MoveKeepsFiles
  <2>7. PcInv'
    BY <1>1, <1>6 DEF PcInv, At, SavingWeather
  <2>8. EarlyInv'
    BY <1>1, <1>6, <2>4 DEF FlowInv, EarlyInv, Untouched, At, StageNames
  <2>9. ListInv'
    <3>1. "weather" \notin Listed /\ (Coupled => "waves" \notin Listed)
      BY <1>1 DEF FlowInv, ListInv, Seeking
    <3>. QED  BY <1>1, <1>3, <1>4, <1>6, <2>4, <3>1 
              DEF ListInv, At, Seeking, SavingWeather, FromJoinWaves, FromSaveWaves,
                  FromJoinCurrent, FromSaveCurrent
  <2>10. SelectedInv'
    BY <1>1, <1>6 DEF SelectedInv, SavingWeather
  <2>. QED  BY <1>1, <2>1, <2>6, <2>7, <2>8, <2>9, <2>10, IdleStoreStands DEF FlowInv
<1>7. CASE /\ Goto(next) /\ UNCHANGED <<cacheVars, files>>
           /\ tasks' = tasks \/ Begin({s})
  <2>1. CacheSound' /\ step' = step
    BY <1>7, CacheStands
  <2>2. /\ job'.pc = next /\ job'.streams = job.streams /\ job'.restored = job.restored
        /\ job'.published = job.published /\ job' \in Jobs
    BY <1>1, <1>7 DEF FlowInv, PlacesInv, Jobs, Goto, Seeking
  <2>3. Within
    BY <1>1, <1>2, <2>2 DEF Within
  <2>4. Listed' = Listed
    BY <2>2 DEF Listed
  <2>5. files' \in [StageNames -> Stream \cup {None}] /\ files' = files
    BY <1>7 DEF FlowInv, PlacesInv
  <2>6. PlacesInv' /\ FilesInv'
    <3>1. CASE tasks' = tasks
      BY <1>1, <2>2, <2>3, <2>4, <2>5, <3>1, MoveKeepsFiles
    <3>2. CASE Begin({s})
      BY <1>1, <2>2, <2>3, <2>4, <2>5, <3>2, BeginKeepsFiles DEF Untouched, Pair, At
    <3>. QED  BY <1>7, <3>1, <3>2
  <2>7. PcInv'
    BY <1>1, <2>2 DEF PcInv, At, SavingWeather
  <2>8. EarlyInv'
    <3>1. \A t \in StageNames \ {s} : tasks'[t] = tasks[t]
      BY <1>7 DEF Begin
    <3>. QED  BY <1>1, <2>2, <2>4, <3>1 DEF FlowInv, EarlyInv, Untouched, At, StageNames
  <2>9. ListInv'
    <3>1. "weather" \notin Listed /\ (Coupled => "waves" \notin Listed)
      BY <1>1 DEF FlowInv, ListInv, Seeking
    <3>. QED  BY <1>1, <1>3, <1>4, <2>2, <2>4, <3>1
              DEF ListInv, At, Seeking, SavingWeather, FromJoinWaves, FromSaveWaves,
                  FromJoinCurrent, FromSaveCurrent
  <2>10. SelectedInv'
    BY <1>1, <2>2 DEF SelectedInv, SavingWeather
  <2>. QED  BY <1>1, <2>1, <2>6, <2>7, <2>8, <2>9, <2>10, IdleStoreStands DEF FlowInv
<1>. QED  BY <1>5, <1>6, <1>7 DEF Restore, taskVars

(* The main thread goes on, and may put on its list what is there.         *)
LEMMA GoingOnKeepsFlow ==
  ASSUME FlowInv, UNCHANGED <<cacheVars, jobVars, taskVars>>,
         job.pc \notin Ended \cup Saving \cup {"generateWeather", "awaitPair", "unwind"},
         job' \in Jobs, job'.pc \notin Ended \cup {"awaitPair"},
         \A t \in Listed' : t \in Listed
                            \/ (t \in Wanted /\ files[t] # None /\ tasks[t] # "running"),
         PcInv', EarlyInv', ListInv', SelectedInv'
  PROVE  FlowInv'
<1>1. Within /\ tasks' = tasks /\ files' = files
  BY DEF Within, jobVars, taskVars
<1>2. CacheSound' /\ step' = step
  BY CacheStands
<1>3. files' \in [StageNames -> Stream \cup {None}]
  BY <1>1 DEF FlowInv, PlacesInv
<1>4. PlacesInv' /\ FilesInv'
  BY <1>1, <1>3, MoveKeepsFiles
<1>. QED  BY <1>2, <1>4, IdleStoreStands DEF FlowInv

LEMMA RestoreWavesKeepsFlow ==
  ASSUME FlowInv, RestoreWaves
  PROVE  FlowInv'
<1>1. /\ At("restoreWaves") /\ UNCHANGED jobVars /\ job \in Jobs
  BY DEF RestoreWaves, FlowInv, PlacesInv
<1>2. CASE "waves" \in Wanted /\ ~Coupled
  <2>. DEFINE k == WaveKey(None)
              found == [job EXCEPT !.pc = "restoreCurrent", !.restored = @ \cup {"waves"},
                                   !.selected = meta[k].cycle]
  <2>1. /\ found.pc = "restoreCurrent" /\ found.restored = job.restored \cup {"waves"}
        /\ found.streams = job.streams /\ found.published = job.published
    BY <1>1 DEF Jobs
  <2>2. k[1] = "waves" /\ k[2] = req.waves
    BY DEF WaveKey
  <2>3. Restore("waves", k, found, "restoreCurrent", req.parallel)
    BY <1>2 DEF RestoreWaves
  <2>4. CASE RestoreHit(k)
    <3>1. meta[k].cycle \in Cycles \cup {None}
      BY <2>2, <2>4, RestoredIsMade DEF StageNames
    <3>2. found \in Jobs
      BY <1>1, <3>1 DEF Jobs, Seeking, StageNames
    <3>. HIDE DEF found, k
    <3>. QED  BY <1>1, <1>2, <2>1, <2>2, <2>3, <3>2, EarlyRestoreKeepsFlow
  <2>5. CASE ~RestoreHit(k)
    <3>. DEFINE other == [job EXCEPT !.pc = "restoreCurrent", !.restored = @ \cup {"waves"}]
    <3>1. /\ other.pc = "restoreCurrent" /\ other.restored = job.restored \cup {"waves"}
          /\ other.streams = job.streams /\ other.published = job.published /\ other \in Jobs
      BY <1>1 DEF Jobs, Seeking, StageNames
    <3>2. Restore("waves", k, other, "restoreCurrent", req.parallel)
      BY <2>3, <2>5 DEF Restore
    <3>. HIDE DEF other, k
    <3>. QED  BY <1>1, <1>2, <2>2, <3>1, <3>2, EarlyRestoreKeepsFlow
  <2>. QED  BY <2>4, <2>5
<1>3. CASE ~("waves" \in Wanted /\ ~Coupled)
  <2>1. UNCHANGED <<cacheVars, jobVars, taskVars>> /\ job' = [job EXCEPT !.pc = "restoreCurrent"]
    BY <1>1, <1>3 DEF RestoreWaves, Skip, Goto
  <2>2. /\ job' \in Jobs /\ job'.pc = "restoreCurrent" /\ Listed' = Listed
        /\ job'.published = job.published
    BY <1>1, <2>1 DEF Jobs, Listed, Seeking
  <2>3. Coupled' = Coupled
    BY <2>1, SameRequest DEF jobVars
  <2>4. PcInv' /\ SelectedInv'
    BY <2>2 DEF PcInv, SelectedInv, At, SavingWeather
  <2>5. EarlyInv'
    BY <1>1, <2>1, <2>2 DEF FlowInv, EarlyInv, Untouched, At, StageNames, taskVars
  <2>6. ListInv'
    <3>1. "weather" \notin Listed /\ "waves" \notin Listed /\ ~job.published
      BY <1>1 DEF FlowInv, ListInv, EarlyInv, Untouched, StageNames, At, Ended
    <3>. QED  BY <2>2, <2>3, <3>1
              DEF ListInv, At, SavingWeather, FromJoinWaves, FromSaveWaves,
                  FromJoinCurrent, FromSaveCurrent
  <2>. QED  BY <1>1, <2>1, <2>2, <2>4, <2>5, <2>6, GoingOnKeepsFlow DEF At, Ended, Saving
<1>. QED  BY <1>2, <1>3

LEMMA RestoreCurrentKeepsFlow ==
  ASSUME FlowInv, RestoreCurrent
  PROVE  FlowInv'
<1>1. /\ At("restoreCurrent") /\ UNCHANGED jobVars /\ job \in Jobs
  BY DEF RestoreCurrent, FlowInv, PlacesInv
<1>2. CASE "current" \in Wanted
  <2>. DEFINE found == [job EXCEPT !.pc = "restoreWeather", !.restored = @ \cup {"current"}]
  <2>1. /\ found.pc = "restoreWeather" /\ found.restored = job.restored \cup {"current"}
        /\ found.streams = job.streams /\ found.published = job.published /\ found \in Jobs
    BY <1>1 DEF Jobs, Seeking, StageNames
  <2>2. Restore("current", CurrentKey, found, "restoreWeather", req.parallel)
    BY <1>2 DEF RestoreCurrent
  <2>. HIDE DEF found
  <2>. QED  BY <1>1, <1>2, <2>1, <2>2, EarlyRestoreKeepsFlow
<1>3. CASE "current" \notin Wanted
  <2>1. UNCHANGED <<cacheVars, jobVars, taskVars>> /\ job' = [job EXCEPT !.pc = "restoreWeather"]
    BY <1>1, <1>3 DEF RestoreCurrent, Skip, Goto
  <2>2. /\ job' \in Jobs /\ job'.pc = "restoreWeather" /\ Listed' = Listed
        /\ job'.published = job.published
    BY <1>1, <2>1 DEF Jobs, Listed, Seeking
  <2>3. Coupled' = Coupled
    BY <2>1, SameRequest DEF jobVars
  <2>4. PcInv' /\ SelectedInv'
    BY <2>2 DEF PcInv, SelectedInv, At, SavingWeather
  <2>5. EarlyInv'
    BY <1>1, <2>1, <2>2 DEF FlowInv, EarlyInv, Untouched, At, StageNames, taskVars
  <2>6. ListInv'
    <3>1. "weather" \notin Listed /\ (Coupled => "waves" \notin Listed) /\ ~job.published
      BY <1>1 DEF FlowInv, ListInv, Seeking, At, Ended
    <3>. QED  BY <2>2, <2>3, <3>1
              DEF ListInv, At, SavingWeather, FromJoinWaves, FromSaveWaves,
                  FromJoinCurrent, FromSaveCurrent
  <2>. QED  BY <1>1, <2>1, <2>2, <2>4, <2>5, <2>6, GoingOnKeepsFlow DEF At, Ended, Saving
<1>. QED  BY <1>2, <1>3

(* The weather, or the coupled pair's weather, looked up in the cache.     *)
LEMMA RestoreWeatherKeepsFlow ==
  ASSUME FlowInv, RestoreWeather
  PROVE  FlowInv'
<1>1. /\ At("restoreWeather") /\ UNCHANGED jobVars /\ job \in Jobs
      /\ "weather" \notin Listed /\ (Coupled => "waves" \notin Listed) /\ ~job.published
      /\ tasks["weather"] = "unborn"
  BY DEF RestoreWeather, FlowInv, PlacesInv, ListInv, EarlyInv, Untouched, At, Seeking, Ended
<1>2. req' = req /\ jobs' = jobs /\ workspace' = workspace
  BY <1>1 DEF jobVars
<1>3. Wanted' = Wanted /\ Coupled' = Coupled /\ req \in Requests
  BY <1>2, SameRequest DEF FlowInv, PlacesInv
<1>4. job.pc \notin Ended \cup Saving \cup {"generateWeather", "awaitPair", "unwind"}
  BY <1>1 DEF At, Ended, Saving
<1>5. CASE "weather" \notin Wanted
  <2>1. UNCHANGED <<cacheVars, jobVars, taskVars>> /\ job' = [job EXCEPT !.pc = "joinWaves"]
    BY <1>1, <1>5 DEF RestoreWeather, Skip, Goto
  <2>2. /\ job' \in Jobs /\ job'.pc = "joinWaves" /\ Listed' = Listed
        /\ job'.published = job.published
    BY <1>1, <2>1 DEF Jobs, Listed, FromJoinWaves
  <2>3. ~Coupled
    BY <1>3, <1>5, RequestIs DEF Pair
  <2>4. PcInv' /\ SelectedInv' /\ EarlyInv'
    BY <2>2 DEF PcInv, SelectedInv, EarlyInv, At, SavingWeather
  <2>5. ListInv'
    BY <1>1, <1>3, <1>5, <2>2, <2>3
    DEF ListInv, At, Seeking, SavingWeather, FromJoinWaves, FromJoinCurrent, FromSaveCurrent
  <2>. QED  BY <1>4, <2>1, <2>2, <2>4, <2>5, GoingOnKeepsFlow DEF Ended
<1>6. CASE "weather" \in Wanted /\ RestoreRefuse(WeatherKey) /\ UNCHANGED <<job, taskVars>>
  BY <1>1, <1>4, <1>6, RefusalKeepsFlow
<1>7. CASE /\ "weather" \in Wanted /\ Goto("generateWeather") /\ UNCHANGED <<cacheVars, taskVars>>
  <2>2. /\ job' \in Jobs /\ job'.pc = "generateWeather" /\ Listed' = Listed
        /\ job'.published = job.published
    BY <1>1, <1>7 DEF Jobs, Listed, Seeking, Goto
  <2>4. PcInv' /\ SelectedInv' /\ EarlyInv'
    BY <1>3, <1>7, <2>2 DEF PcInv, SelectedInv, EarlyInv, At, SavingWeather
  <2>5. ListInv'
    BY <1>1, <1>3, <2>2
    DEF ListInv, At, Seeking, SavingWeather, FromJoinWaves, FromSaveWaves, FromJoinCurrent,
        FromSaveCurrent
  <2>. QED  BY <1>1, <1>4, <1>7, <2>2, <2>4, <2>5, GoingOnKeepsFlow DEF Ended
<1>8. CASE /\ "weather" \in Wanted /\ RestoreHit(WeatherKey) /\ tasks' = tasks
           /\ files' = [files EXCEPT !["weather"] = data[WeatherKey]]
           /\ job' = IF Coupled
                     THEN [job EXCEPT !.pc = "restorePair", !.candidate = meta[WeatherKey].cycle]
                     ELSE [job EXCEPT !.pc = "joinWaves", !.restored = @ \cup {"weather"},
                                      !.streams = @ \cup {"weather"},
                                      !.selected = meta[WeatherKey].cycle]
  <2>1. /\ Makes("weather", data[WeatherKey]) /\ data[WeatherKey] # None
        /\ data[WeatherKey] \in Stream /\ CacheSound' /\ step' = step
        /\ meta[WeatherKey].cycle \in Cycles \cup {None}
    BY <1>8, RestoredIsMade DEF StageNames
  <2>2. /\ files' \in [StageNames -> Stream \cup {None}]
        /\ \A t \in StageNames : files'[t] = IF t = "weather" THEN data[WeatherKey] ELSE files[t]
    BY <1>8, <2>1 DEF FlowInv, PlacesInv, StageNames
  <2>3. /\ job' \in Jobs /\ job'.pc = IF Coupled THEN "restorePair" ELSE "joinWaves"
        /\ job'.published = job.published
        /\ Listed' = IF Coupled THEN Listed ELSE Listed \cup {"weather"}
        /\ ~Coupled => "weather" \in job'.streams
    BY <1>1, <1>8, <2>1 DEF Jobs, Listed, Seeking, FromJoinWaves, StageNames
  <2>4. Within
    BY <1>2, <1>4, <2>3 DEF Within, Ended
  <2>5. PlacesInv' /\ FilesInv'
    <3>. HIDE <1>8
    <3>1. tasks' = tasks /\ "weather" \in Wanted /\ "weather" \in StageNames
      BY <1>8 DEF StageNames
    <3>. QED  BY <1>1, <1>4, <2>1, <2>2, <2>3, <2>4, <3>1, MoveKeepsFiles
  <2>6. PcInv' /\ EarlyInv' /\ SelectedInv'
    BY <1>3, <2>1, <2>2, <2>3 DEF PcInv, EarlyInv, SelectedInv, At, SavingWeather, StageNames
  <2>7. ListInv'
    BY <1>1, <1>3, <2>3
    DEF ListInv, At, Seeking, SavingWeather, FromJoinWaves, FromSaveWaves, FromJoinCurrent,
        FromSaveCurrent
  <2>. QED  BY <1>4, <2>1, <2>5, <2>6, <2>7, IdleStoreStands DEF FlowInv
<1>. QED  BY <1>1, <1>5, <1>6, <1>7, <1>8 DEF RestoreWeather, Restore, taskVars

(* The waves of the pair's cycle, looked up in the cache.                  *)
LEMMA RestorePairKeepsFlow ==
  ASSUME FlowInv, RestorePair
  PROVE  FlowInv'
<1>. DEFINE k == WaveKey(job.candidate)
<1>1. /\ At("restorePair") /\ UNCHANGED jobVars /\ job \in Jobs /\ Coupled
      /\ "weather" \notin Listed /\ "waves" \notin Listed /\ ~job.published
      /\ files["weather"] # None
      /\ \A s \in Pair : tasks[s] # "running"
  BY DEF RestorePair, FlowInv, PlacesInv, PcInv, ListInv, At, Seeking, Ended
<1>2. req' = req /\ jobs' = jobs /\ workspace' = workspace
  BY <1>1 DEF jobVars
<1>3. Wanted' = Wanted /\ Coupled' = Coupled /\ req \in Requests
  BY <1>2, SameRequest DEF FlowInv, PlacesInv
<1>4. job.pc \notin Ended \cup Saving \cup {"generateWeather", "awaitPair", "unwind"}
  BY <1>1 DEF At, Ended, Saving
<1>5. Pair \subseteq Wanted
  BY <1>1, <1>3, RequestIs
<1>6. CASE RestoreRefuse(k) /\ UNCHANGED <<job, taskVars>>
  BY <1>1, <1>4, <1>6, RefusalKeepsFlow
<1>7. CASE Goto("generateWeather") /\ UNCHANGED <<cacheVars, taskVars>>
  <2>2. /\ job' \in Jobs /\ job'.pc = "generateWeather" /\ Listed' = Listed
        /\ job'.published = job.published
    BY <1>1, <1>7 DEF Jobs, Listed, Seeking, Goto
  <2>4. PcInv' /\ SelectedInv' /\ EarlyInv'
    BY <1>3, <1>5, <1>7, <2>2 DEF PcInv, SelectedInv, EarlyInv, At, SavingWeather, Pair
  <2>5. ListInv'
    BY <1>1, <1>3, <2>2
    DEF ListInv, At, Seeking, SavingWeather, FromJoinWaves, FromSaveWaves, FromJoinCurrent,
        FromSaveCurrent
  <2>. QED  BY <1>1, <1>4, <1>7, <2>2, <2>4, <2>5, GoingOnKeepsFlow DEF Ended
<1>8. CASE /\ RestoreHit(k) /\ tasks' = tasks
           /\ files' = [files EXCEPT !["waves"] = data[k]]
           /\ job' = [job EXCEPT !.pc = "joinWaves", !.restored = @ \cup {"weather", "waves"},
                                 !.streams = @ \cup {"weather", "waves"},
                                 !.selected = job.candidate]
  <2>1. /\ Makes("waves", data[k]) /\ data[k] # None
        /\ data[k] \in Stream /\ CacheSound' /\ step' = step
    BY <1>8, RestoredIsMade DEF StageNames, WaveKey
  <2>2. /\ files' \in [StageNames -> Stream \cup {None}]
        /\ \A t \in StageNames : files'[t] = IF t = "waves" THEN data[k] ELSE files[t]
    BY <1>8, <2>1 DEF FlowInv, PlacesInv, StageNames
  <2>3. /\ job' \in Jobs /\ job'.pc = "joinWaves" /\ job'.published = job.published
        /\ Listed' = Listed \cup Pair /\ Pair \subseteq job'.streams
    BY <1>1, <1>8 DEF Jobs, Listed, Pair, FromJoinWaves, StageNames
  <2>4. Within
    BY <1>2, <1>4, <2>3 DEF Within, Ended
  <2>5. PlacesInv' /\ FilesInv'
    <3>1. tasks' = tasks /\ "waves" \in Wanted
      BY <1>5, <1>8 DEF Pair
    <3>2. \A t \in Pair : t \in Wanted /\ files'[t] # None /\ tasks[t] # "running"
      BY <1>1, <1>5, <2>1, <2>2 DEF Pair, StageNames
    <3>. HIDE DEF k
    <3>. QED  BY <1>1, <1>4, <2>1, <2>2, <2>3, <2>4, <3>1, <3>2, MoveKeepsFiles
  <2>6. PcInv' /\ EarlyInv' /\ SelectedInv'
    BY <2>3 DEF PcInv, EarlyInv, SelectedInv, At, SavingWeather
  <2>7. ListInv'
    BY <1>1, <1>3, <2>3
    DEF ListInv, At, Seeking, SavingWeather, FromJoinWaves, FromJoinCurrent,
        FromSaveCurrent, Pair
  <2>. QED  BY <1>4, <2>1, <2>5, <2>6, <2>7, IdleStoreStands DEF FlowInv
<1>. QED  BY <1>1, <1>6, <1>7, <1>8 DEF RestorePair, Restore, taskVars

LEMMA GenerateWeatherKeepsFlow ==
  ASSUME FlowInv, GenerateWeather
  PROVE  FlowInv'
<1>1. /\ At("generateWeather") /\ UNCHANGED <<cacheVars, files>> /\ UNCHANGED jobVars
      /\ job \in Jobs /\ "weather" \in Wanted
      /\ "weather" \notin Listed /\ (Coupled => "waves" \notin Listed) /\ ~job.published
  BY DEF GenerateWeather, FlowInv, PlacesInv, PcInv, ListInv, At, Seeking, Ended
<1>2. req' = req /\ jobs' = jobs /\ workspace' = workspace /\ files' = files
  BY <1>1 DEF jobVars
<1>3. Wanted' = Wanted /\ Coupled' = Coupled /\ (Coupled => Pair \subseteq Wanted)
  BY <1>2, SameRequest, RequestIs DEF FlowInv, PlacesInv
<1>4. CacheSound' /\ step' = step /\ job.pc \notin Saving
  BY <1>1, CacheStands DEF At, Saving
<1>5. CASE ~Coupled /\ Goto("awaitWeather") /\ Begin({"weather"})
  <2>1. /\ job' \in Jobs /\ job'.pc = "awaitWeather" /\ Listed' = Listed
        /\ job'.published = job.published
    BY <1>1, <1>5 DEF Jobs, Listed, Seeking, Goto
  <2>2. Within
    BY <1>1, <1>2, <2>1 DEF Within, Ended, At
  <2>3. PlacesInv' /\ FilesInv'
    BY <1>1, <1>2, <1>5, <2>1, <2>2, BeginKeepsFiles DEF At
  <2>4. PcInv'
    BY <1>1, <1>3, <1>5, <2>1 DEF PcInv, At, SavingWeather, Begin, StageNames
  <2>5. EarlyInv' /\ SelectedInv'
    BY <2>1 DEF EarlyInv, SelectedInv, At, SavingWeather
  <2>6. ListInv'
    BY <1>1, <1>3, <2>1
    DEF ListInv, At, Seeking, SavingWeather, FromJoinWaves, FromSaveWaves, FromJoinCurrent,
        FromSaveCurrent
  <2>. QED  BY <1>4, <2>3, <2>4, <2>5, <2>6, IdleStoreStands DEF FlowInv
<1>6. CASE /\ Coupled /\ Begin({"weather", "waves"})
           /\ \E c \in Cycles : job' = [job EXCEPT !.pc = "awaitPair", !.candidate = c]
  <2>1. /\ job' \in Jobs /\ job'.pc = "awaitPair" /\ Listed' = Listed
        /\ job'.published = job.published /\ job'.candidate \in Cycles
    BY <1>1, <1>6 DEF Jobs, Listed, Seeking
  <2>2. Within
    BY <1>1, <1>2, <2>1 DEF Within, Ended, At
  <2>3. Begin(Pair) /\ Pair \in SUBSET (Wanted \ Listed)
    BY <1>1, <1>3, <1>6 DEF Pair
  <2>4. PlacesInv' /\ FilesInv'
    BY <1>1, <1>2, <1>6, <2>1, <2>2, <2>3, BeginKeepsFiles DEF At
  <2>5. PcInv'
    BY <1>1, <1>3, <1>6, <2>1 DEF PcInv, At, SavingWeather, Begin, StageNames, Pair
  <2>6. EarlyInv' /\ SelectedInv'
    BY <2>1 DEF EarlyInv, SelectedInv, At, SavingWeather
  <2>7. ListInv'
    BY <1>1, <1>3, <2>1
    DEF ListInv, At, Seeking, SavingWeather, FromJoinWaves, FromSaveWaves, FromJoinCurrent,
        FromSaveCurrent
  <2>. QED  BY <1>4, <2>4, <2>5, <2>6, <2>7, IdleStoreStands DEF FlowInv
<1>7. CASE Coupled /\ Goto("unwind") /\ tasks' = tasks
  <2>1. /\ job' \in Jobs /\ job'.pc = "unwind" /\ Listed' = Listed
        /\ job'.published = job.published
    BY <1>1, <1>7 DEF Jobs, Listed, Goto
  <2>2. PlacesInv'
    BY <1>1, <1>2, <1>3, <1>7, <2>1 DEF FlowInv, PlacesInv, At, Ended
  <2>3. FilesInv'
    BY <1>1, <1>2, <1>3, <1>7, <2>1, SameRequest DEF FlowInv, FilesInv, At
  <2>4. PcInv' /\ EarlyInv' /\ SelectedInv'
    BY <2>1 DEF PcInv, EarlyInv, SelectedInv, At, SavingWeather
  <2>5. ListInv'
    BY <1>1, <2>1
    DEF ListInv, At, Seeking, SavingWeather, FromJoinWaves, FromSaveWaves, FromJoinCurrent,
        FromSaveCurrent
  <2>. QED  BY <1>4, <2>2, <2>3, <2>4, <2>5, IdleStoreStands DEF FlowInv
<1>. QED  BY <1>5, <1>6, <1>7 DEF GenerateWeather

LEMMA AwaitWeatherKeepsFlow ==
  ASSUME FlowInv, AwaitWeather
  PROVE  FlowInv'
<1>1. /\ At("awaitWeather") /\ UNCHANGED <<cacheVars, jobVars, taskVars>>
      /\ tasks["weather"] # "running" /\ tasks' = tasks /\ files' = files
      /\ job \in Jobs /\ "weather" \in Wanted /\ ~Coupled
      /\ "weather" \notin Listed /\ ~job.published
  BY DEF AwaitWeather, FlowInv, PlacesInv, PcInv, ListInv, At, Seeking, Ended, taskVars
<1>2. Wanted' = Wanted /\ Coupled' = Coupled
  BY <1>1, SameRequest DEF jobVars
<1>3. job.pc \notin Ended \cup Saving \cup {"generateWeather", "awaitPair", "unwind"}
  BY <1>1 DEF At, Ended, Saving
<1>4. CASE /\ tasks["weather"] = "ok"
           /\ job' = [job EXCEPT !.pc = "saveWeather", !.streams = @ \cup {"weather"},
                                 !.selected = files["weather"].cycle]
  <2>1. files["weather"] # None /\ Makes("weather", files["weather"])
    BY <1>1, <1>4 DEF FlowInv, FilesInv, StageNames
  <2>2. /\ job' \in Jobs /\ job'.pc = "saveWeather" /\ job'.published = job.published
        /\ job'.streams = job.streams \cup {"weather"} /\ job'.restored = job.restored
        /\ job'.selected = files["weather"].cycle
        /\ Listed' = Listed \cup {"weather"}
    BY <1>1, <1>4, <2>1 DEF Jobs, Makes, Listed, SavingWeather, StageNames
  <2>3. PcInv' /\ EarlyInv' /\ SelectedInv'
    BY <1>1, <1>2, <2>2 DEF PcInv, EarlyInv, SelectedInv, At, SavingWeather
  <2>4. ListInv'
    BY <1>1, <1>2, <2>2
    DEF ListInv, At, Listed, Seeking, SavingWeather, FromJoinWaves, FromSaveWaves,
        FromJoinCurrent, FromSaveCurrent
  <2>. QED  BY <1>1, <1>3, <2>1, <2>2, <2>3, <2>4, GoingOnKeepsFlow DEF Ended
<1>5. CASE job' = [job EXCEPT !.pc = "unwind"]
  <2>1. /\ job' \in Jobs /\ job'.pc = "unwind" /\ Listed' = Listed
        /\ job'.published = job.published
    BY <1>1, <1>5 DEF Jobs, Listed
  <2>2. PcInv' /\ EarlyInv' /\ SelectedInv'
    BY <2>1 DEF PcInv, EarlyInv, SelectedInv, At, SavingWeather
  <2>3. ListInv'
    BY <1>1, <2>1
    DEF ListInv, At, Seeking, SavingWeather, FromJoinWaves, FromSaveWaves, FromJoinCurrent,
        FromSaveCurrent
  <2>. QED  BY <1>1, <1>3, <2>1, <2>2, <2>3, GoingOnKeepsFlow DEF Ended
<1>. QED  BY <1>4, <1>5 DEF AwaitWeather

(* A given-up pair's files are dropped, and nothing else.                  *)
LEMMA AwaitPairKeepsFlow ==
  ASSUME FlowInv, AwaitPair
  PROVE  FlowInv'
<1>1. /\ At("awaitPair") /\ UNCHANGED <<cacheVars, tasks>> /\ UNCHANGED jobVars
      /\ tasks' = tasks /\ \A s \in Pair : tasks[s] # "running" /\ tasks[s] # "unborn"
      /\ job \in Jobs /\ Coupled /\ job.candidate \in Cycles
      /\ "weather" \notin Listed /\ "waves" \notin Listed /\ ~job.published
  BY DEF AwaitPair, FlowInv, PlacesInv, PcInv, ListInv, At, Seeking, Ended, Pair
<1>2. req' = req /\ jobs' = jobs /\ workspace' = workspace
  BY <1>1 DEF jobVars
<1>3. /\ Wanted' = Wanted /\ Coupled' = Coupled /\ Pair \subseteq Wanted
      /\ \A t, x : Makes(t, x)' <=> Makes(t, x)
  BY <1>1, <1>2, SameRequest, RequestIs DEF FlowInv, PlacesInv
<1>4. CacheSound' /\ step' = step /\ job.pc \notin Saving
  BY <1>1, CacheStands DEF At, Saving
<1>. DEFINE end == IF tasks["weather"] # "ok" THEN tasks["weather"] ELSE tasks["waves"]
<1>5. CASE /\ end = "ok" /\ files' = files
           /\ job' = [job EXCEPT !.pc = "saveWeather", !.selected = job.candidate,
                                 !.streams = @ \cup {"weather", "waves"}]
  <2>1. \A s \in Pair : tasks[s] = "ok"
    BY <1>5 DEF Pair
  <2>2. \A s \in Pair : files[s] # None /\ files[s].cycle = job.candidate
    <3>1. Pair \subseteq StageNames
      BY DEF Pair, StageNames
    <3>. QED  BY <1>1, <2>1, <3>1 DEF FlowInv, FilesInv, At
  <2>3. /\ job' \in Jobs /\ job'.pc = "saveWeather" /\ job'.published = job.published
        /\ job'.streams = job.streams \cup Pair /\ job'.restored = job.restored
        /\ job'.selected = job.candidate
        /\ Listed' = Listed \cup Pair
    BY <1>1, <1>5 DEF Jobs, Listed, SavingWeather, StageNames, Pair
  <2>4. PlacesInv'
    <3>1. PlacesInv
      BY DEF FlowInv
    <3>. QED  BY <1>1, <1>2, <1>3, <1>5, <2>3, <3>1 DEF PlacesInv, At, Ended
  <2>5. FilesInv'
    <3>1. FilesInv
      BY DEF FlowInv
    <3>2. \A t \in Listed' : t \in Wanted /\ files[t] # None /\ tasks[t] # "running"
      BY <1>1, <1>3, <2>2, <2>3, <3>1 DEF FilesInv
    <3>3. \A t \in StageNames : tasks[t] = "ok" => files[t] # None
      BY <1>1, <3>1 DEF FilesInv, At
    <3>. QED  BY <1>1, <1>3, <1>5, <2>3, <3>1, <3>2, <3>3 DEF FilesInv, At
  <2>6. PcInv' /\ EarlyInv' /\ SelectedInv'
    BY <1>1, <1>3, <1>5, <2>2, <2>3 DEF PcInv, EarlyInv, SelectedInv, At, SavingWeather, Pair
  <2>7. ListInv'
    BY <1>1, <1>3, <2>3
    DEF ListInv, At, Listed, Seeking, SavingWeather, FromJoinWaves, FromSaveWaves,
        FromJoinCurrent, FromSaveCurrent, Pair
  <2>. QED  BY <1>4, <2>4, <2>5, <2>6, <2>7, IdleStoreStands DEF FlowInv
<1>6. CASE /\ job' = [job EXCEPT !.pc = "generateWeather", !.tried = @ \cup {job.candidate}]
           /\ files' = [files EXCEPT !["weather"] = None, !["waves"] = None]
  <2>1. /\ job' \in Jobs /\ job'.pc = "generateWeather" /\ Listed' = Listed
        /\ job'.published = job.published
    BY <1>1, <1>6 DEF Jobs, Listed, Seeking
  <2>2. /\ files' \in [StageNames -> Stream \cup {None}]
        /\ \A t \in StageNames : files'[t] = IF t \in Pair THEN None ELSE files[t]
    BY <1>6 DEF FlowInv, PlacesInv, StageNames, Pair
  <2>3. PlacesInv'
    <3>1. PlacesInv
      BY DEF FlowInv
    <3>2. \A s \in Pair : tasks'[s] # "running"
      BY <1>1
    <3>. QED  BY <1>1, <1>2, <1>3, <2>1, <2>2, <3>1, <3>2 DEF PlacesInv, At, Ended
  <2>4. FilesInv'
    <3>1. FilesInv
      BY DEF FlowInv
    <3>2. \A t \in Listed : /\ t \in StageNames \ Pair
                            /\ t \in Wanted /\ files'[t] # None /\ tasks[t] # "running"
      BY <1>1, <2>2, <3>1 DEF FilesInv, Wanted, Pair
    <3>. QED  BY <1>1, <1>3, <2>1, <2>2, <3>1, <3>2 DEF FilesInv, At
  <2>5. PcInv' /\ EarlyInv' /\ SelectedInv'
    BY <1>1, <1>3, <2>1 DEF PcInv, EarlyInv, SelectedInv, At, SavingWeather, Pair
  <2>6. ListInv'
    BY <1>1, <1>3, <2>1
    DEF ListInv, At, Listed, Seeking, SavingWeather, FromJoinWaves, FromSaveWaves,
        FromJoinCurrent, FromSaveCurrent, Pair
  <2>. QED  BY <1>4, <2>3, <2>4, <2>5, <2>6, IdleStoreStands DEF FlowInv
<1>7. CASE Goto("unwind") /\ files' = files
  <2>1. /\ job' \in Jobs /\ job'.pc = "unwind" /\ Listed' = Listed
        /\ job'.published = job.published
    BY <1>1, <1>7 DEF Jobs, Listed, Goto
  <2>2. PlacesInv'
    <3>1. PlacesInv
      BY DEF FlowInv
    <3>. QED  BY <1>1, <1>2, <1>3, <1>7, <2>1, <3>1 DEF PlacesInv, At, Ended
  <2>3. FilesInv'
    <3>1. FilesInv
      BY DEF FlowInv
    <3>. QED  BY <1>1, <1>3, <1>7, <2>1, <3>1 DEF FilesInv, At
  <2>4. PcInv' /\ EarlyInv' /\ SelectedInv'
    BY <2>1 DEF PcInv, EarlyInv, SelectedInv, At, SavingWeather
  <2>5. ListInv'
    BY <1>1, <2>1
    DEF ListInv, At, Seeking, SavingWeather, FromJoinWaves, FromSaveWaves, FromJoinCurrent,
        FromSaveCurrent
  <2>. QED  BY <1>4, <2>2, <2>3, <2>4, <2>5, IdleStoreStands DEF FlowInv
<1>8. end \in {"ok", "invalid", "error"}
  BY <1>1 DEF FlowInv, PlacesInv, StageNames, Pair
<1>. QED  BY <1>5, <1>6, <1>7, <1>8 DEF AwaitPair

(* A save step leaves the cache sound, and the stream it has published     *)
(* where it is.                                                            *)
LEMMA SaveKeepsFlow ==
  ASSUME FlowInv, NEW s \in StageNames, NEW k \in Keys, NEW after, NEW cycle,
         job.pc \in Saving, SavedStage = s, SavedKey = k,
         StreamFits(k, files[s]), cycle = files[s].cycle,
         after \in {"savePair", "joinWaves", "joinCurrent", "merge"},
         job' = [job EXCEPT !.pc = after] => PcInv' /\ EarlyInv' /\ ListInv' /\ SelectedInv',
         Save(s, k, cycle, after), UNCHANGED jobVars
  PROVE  FlowInv'
<1>1. /\ tasks' = tasks /\ files' = files /\ req' = req /\ jobs' = jobs
      /\ workspace' = workspace /\ job \in Jobs
      /\ files' \in [StageNames -> Stream \cup {None}]
      /\ CacheSound /\ touched \subseteq Keys
  BY DEF Save, taskVars, jobVars, FlowInv, PlacesInv, StoreInv, CacheSound
<1>2. /\ Wanted' = Wanted /\ Coupled' = Coupled /\ WeatherKey' = WeatherKey
      /\ CurrentKey' = CurrentKey /\ \A c : WaveKey(c)' = WaveKey(c)
      /\ \A t, x : Makes(t, x)' <=> Makes(t, x)
  BY <1>1, SameRequest
<1>3. job.pc \notin Ended \cup {"generateWeather", "awaitPair", "unwind"}
  BY DEF Saving, Ended
<1>4. /\ files[s].cycle \in Cycles \cup {None}
  BY DEF StreamFits, Stream
<1>5. CacheSound'
  <2>1. CASE SaveCopy(k) \/ SaveDescribe(k)
    BY <1>1, <2>1, RemovingKeepsSound DEF SaveCopy, SaveDescribe
  <2>2. CASE SavePublish(k, files[s])
    BY <1>1, <2>2, PlacingStreamKeepsSound DEF SavePublish
  <2>3. CASE SavePublishMeta(k, files[s], cycle)
    <3>1. touched' \subseteq Keys /\ data' = data /\ step' = "copy"
          /\ meta' = With(meta, k, [cycle |-> cycle, scan |-> ScanOf[cycle]])
      BY <1>1, <2>3 DEF SavePublishMeta
    <3>. QED  BY <1>1, <1>4, <3>1, PlacingDescriptionKeepsSound
  <2>4. CASE SaveGivesUp
    BY <1>1, <2>4, StandingKeepsSound DEF SaveGivesUp
  <2>. QED  BY <2>1, <2>2, <2>3, <2>4 DEF Save
<1>6. CASE /\ job' = job
           /\ SaveCopy(k) \/ SavePublish(k, files[s]) \/ SaveDescribe(k)
  <2>1. Within /\ Listed' = Listed /\ job'.pc # "awaitPair"
    BY <1>1, <1>3, <1>6 DEF Within, Listed
  <2>2. PlacesInv' /\ FilesInv'
    BY <1>1, <1>3, <2>1, MoveKeepsFiles
  <2>3. PcInv' /\ EarlyInv'
    <3>1. PcInv /\ EarlyInv
      BY DEF FlowInv
    <3>. QED  BY <1>1, <1>2, <1>6, <3>1 DEF PcInv, EarlyInv, Untouched, At, Listed
  <2>4. ListInv' /\ SelectedInv'
    <3>1. ListInv /\ SelectedInv
      BY DEF FlowInv
    <3>. QED  BY <1>1, <1>2, <1>6, <2>1, <3>1 DEF ListInv, SelectedInv, At
  <2>5. SavedStage' = SavedStage /\ SavedKey' = SavedKey
    BY <1>1, <1>2, <1>6 DEF SavedStage, SavedKey, At
  <2>6. step' \in {"describe", "publishMeta"} => k \in DOMAIN data' /\ data'[k] = files[s]
    <3>1. CASE SaveCopy(k)
      BY <3>1 DEF SaveCopy
    <3>2. CASE SavePublish(k, files[s])
      BY <3>2 DEF SavePublish, With
    <3>3. CASE SaveDescribe(k)
      BY <3>3 DEF SaveDescribe, FlowInv, StoreInv
    <3>. QED  BY <1>6, <3>1, <3>2, <3>3
  <2>7. StoreInv'
    BY <1>1, <1>5, <1>6, <2>5, <2>6 DEF StoreInv
  <2>. QED  BY <2>2, <2>3, <2>4, <2>7 DEF FlowInv
<1>7. CASE /\ job' = [job EXCEPT !.pc = after]
           /\ SavePublishMeta(k, files[s], cycle) \/ SaveGivesUp
  <2>1. /\ job' \in Jobs /\ job'.pc = after /\ Listed' = Listed
    BY <1>1, <1>7 DEF Jobs, Listed, SavingWeather, FromJoinWaves, FromSaveWaves, FromJoinCurrent,
                      FromSaveCurrent
  <2>2. Within /\ job'.pc # "awaitPair"
    BY <1>1, <1>3, <2>1 DEF Within, Ended
  <2>3. PlacesInv' /\ FilesInv'
    BY <1>1, <1>3, <2>1, <2>2, MoveKeepsFiles
  <2>4. StoreInv'
    BY <1>5, <1>7 DEF StoreInv, SavePublishMeta, SaveGivesUp
  <2>. QED  BY <1>7, <2>3, <2>4 DEF FlowInv
<1>. QED  BY <1>6, <1>7 DEF Save, Goto

(* A stream a stage has made fits the key it is saved under.               *)
LEMMA MadeFits ==
  ASSUME req \in Requests, NEW s \in Wanted, NEW k, NEW stream, Makes(s, stream),
         \/ s = "weather" /\ k = WeatherKey
         \/ s = "waves" /\ k = WaveKey(None)
         \/ s = "waves" /\ k = WaveKey(stream.cycle) /\ req.waves = "gfs_wave"
         \/ s = "current" /\ k = CurrentKey
  PROVE  k \in Keys /\ StreamFits(k, stream)
<1>1. /\ req.weather \in {"none", "gfs", "ukmo_ukv"}
      /\ req.waves \in {"none", "gfs_wave", "copernicus"}
      /\ req.current \in {"none", "marine_ie"} /\ req.spacing \in Spacings
      /\ req[s] # "none"
  BY RequestIs DEF Wanted
<1>2. CASE s = "weather" /\ k = WeatherKey
  BY <1>1, <1>2 DEF WeatherKey, Keys, StreamFits, Makes
<1>3. CASE s = "waves" /\ k = WaveKey(None)
  BY <1>1, <1>3 DEF WaveKey, Keys, StreamFits, Makes
<1>4. CASE s = "waves" /\ k = WaveKey(stream.cycle) /\ req.waves = "gfs_wave"
  <2>1. k = <<"waves", "gfs_wave", stream.cycle>> /\ stream.cycle \in Cycles
    BY <1>4 DEF WaveKey, Makes
  <2>. QED  BY <1>4, <2>1 DEF Keys, StreamFits, Makes
<1>5. CASE s = "current" /\ k = CurrentKey
  BY <1>1, <1>5 DEF CurrentKey, Keys, StreamFits, Makes
<1>. QED  BY <1>2, <1>3, <1>4, <1>5

LEMMA SaveWeatherKeepsFlow ==
  ASSUME FlowInv, SaveWeather
  PROVE  FlowInv'
<1>1. /\ At("saveWeather") /\ req \in Requests /\ job \in Jobs /\ UNCHANGED jobVars
      /\ "weather" \in Wanted /\ "weather" \in job.streams \ job.restored
      /\ Coupled => "waves" \in job.streams \ job.restored
      /\ job.selected = files["weather"].cycle /\ ~job.published
      /\ Coupled => job.selected = files["waves"].cycle
  BY DEF SaveWeather, FlowInv, PlacesInv, PcInv, ListInv, SelectedInv, At, SavingWeather, Ended
<1>. DEFINE after == IF Coupled THEN "savePair" ELSE "joinWaves"
<1>2. Makes("weather", files["weather"])
  BY <1>1 DEF FlowInv, FilesInv, StageNames, Listed
<1>3. WeatherKey \in Keys /\ StreamFits(WeatherKey, files["weather"])
  BY <1>1, <1>2, MadeFits
<1>4. SavedStage = "weather" /\ SavedKey = WeatherKey /\ job.pc \in Saving
  BY <1>1 DEF SavedStage, SavedKey, At, Saving
<1>5. Save("weather", WeatherKey, job.selected, after) /\ UNCHANGED files
  BY DEF SaveWeather, Save, taskVars
<1>6. Wanted' = Wanted /\ Coupled' = Coupled
  BY <1>1, SameRequest DEF jobVars
<1>7. ASSUME job' = [job EXCEPT !.pc = after]
      PROVE  PcInv' /\ EarlyInv' /\ ListInv' /\ SelectedInv'
  <2>1. /\ job'.pc = after /\ job'.streams = job.streams /\ job'.restored = job.restored
        /\ job'.selected = job.selected /\ job'.published = job.published
    BY <1>1, <1>7 DEF Jobs
  <2>2. PcInv' /\ EarlyInv' /\ SelectedInv'
    BY <1>1, <1>5, <1>6, <2>1 DEF PcInv, EarlyInv, SelectedInv, At, SavingWeather
  <2>3. ListInv'
    BY <1>1, <1>6, <2>1
    DEF ListInv, At, Listed, Seeking, SavingWeather, FromJoinWaves, FromSaveWaves,
        FromJoinCurrent, FromSaveCurrent
  <2>. QED  BY <2>2, <2>3
<1>8. after \in {"savePair", "joinWaves", "joinCurrent", "merge"}
  OBVIOUS
<1>. HIDE DEF after
<1>. QED  BY <1>1, <1>3, <1>4, <1>5, <1>7, <1>8, SaveKeepsFlow DEF StageNames

LEMMA SavePairKeepsFlow ==
  ASSUME FlowInv, SavePair
  PROVE  FlowInv'
<1>1. /\ At("savePair") /\ req \in Requests /\ job \in Jobs /\ UNCHANGED jobVars
      /\ Coupled /\ "weather" \in job.streams \ job.restored
      /\ "waves" \in job.streams \ job.restored /\ "waves" \in Wanted
      /\ job.selected = files["waves"].cycle /\ ~job.published
  BY RequestIs DEF SavePair, FlowInv, PlacesInv, PcInv, ListInv, SelectedInv, At, SavingWeather,
                   Ended, Pair
<1>2. Makes("waves", files["waves"])
  BY <1>1 DEF FlowInv, FilesInv, StageNames, Listed
<1>3. WaveKey(job.selected) \in Keys /\ StreamFits(WaveKey(job.selected), files["waves"])
  BY <1>1, <1>2, MadeFits DEF Coupled
<1>4. SavedStage = "waves" /\ SavedKey = WaveKey(job.selected) /\ job.pc \in Saving
  BY <1>1 DEF SavedStage, SavedKey, At, Saving
<1>5. Save("waves", WaveKey(job.selected), job.selected, "joinWaves") /\ UNCHANGED files
  BY DEF SavePair, Save, taskVars
<1>6. Wanted' = Wanted /\ Coupled' = Coupled
  BY <1>1, SameRequest DEF jobVars
<1>7. ASSUME job' = [job EXCEPT !.pc = "joinWaves"]
      PROVE  PcInv' /\ EarlyInv' /\ ListInv' /\ SelectedInv'
  <2>1. /\ job'.pc = "joinWaves" /\ job'.streams = job.streams /\ job'.restored = job.restored
        /\ job'.selected = job.selected /\ job'.published = job.published
    BY <1>1, <1>7 DEF Jobs
  <2>2. PcInv' /\ EarlyInv' /\ SelectedInv'
    BY <2>1 DEF PcInv, EarlyInv, SelectedInv, At, SavingWeather
  <2>3. ListInv'
    BY <1>1, <1>6, <2>1
    DEF ListInv, At, Listed, Seeking, SavingWeather, FromJoinWaves, FromSaveWaves,
        FromJoinCurrent, FromSaveCurrent
  <2>. QED  BY <2>2, <2>3
<1>. QED  BY <1>1, <1>3, <1>4, <1>5, <1>7, SaveKeepsFlow DEF StageNames

LEMMA SaveWavesKeepsFlow ==
  ASSUME FlowInv, SaveWaves
  PROVE  FlowInv'
<1>1. /\ At("saveWaves") /\ req \in Requests /\ job \in Jobs /\ UNCHANGED jobVars
      /\ ~Coupled /\ "waves" \in job.streams /\ "waves" \in Wanted /\ ~job.published
      /\ "weather" \in Wanted => "weather" \in job.streams
  BY DEF SaveWaves, FlowInv, PlacesInv, PcInv, ListInv, At, FromJoinWaves, FromSaveWaves, Ended
<1>2. Makes("waves", files["waves"])
  BY <1>1 DEF FlowInv, FilesInv, StageNames, Listed
<1>3. WaveKey(None) \in Keys /\ StreamFits(WaveKey(None), files["waves"])
  BY <1>1, <1>2, MadeFits
<1>4. SavedStage = "waves" /\ SavedKey = WaveKey(None) /\ job.pc \in Saving
  BY <1>1 DEF SavedStage, SavedKey, At, Saving
<1>5. Save("waves", WaveKey(None), files["waves"].cycle, "joinCurrent") /\ UNCHANGED files
  BY DEF SaveWaves, Save, taskVars
<1>6. Wanted' = Wanted /\ Coupled' = Coupled
  BY <1>1, SameRequest DEF jobVars
<1>7. ASSUME job' = [job EXCEPT !.pc = "joinCurrent"]
      PROVE  PcInv' /\ EarlyInv' /\ ListInv' /\ SelectedInv'
  <2>1. /\ job'.pc = "joinCurrent" /\ job'.streams = job.streams /\ job'.restored = job.restored
        /\ job'.selected = job.selected /\ job'.published = job.published
    BY <1>1, <1>7 DEF Jobs
  <2>2. PcInv' /\ EarlyInv' /\ SelectedInv'
    BY <2>1 DEF PcInv, EarlyInv, SelectedInv, At, SavingWeather
  <2>3. ListInv'
    BY <1>1, <1>6, <2>1
    DEF ListInv, At, Listed, Seeking, SavingWeather, FromJoinWaves, FromSaveWaves,
        FromJoinCurrent, FromSaveCurrent
  <2>. QED  BY <2>2, <2>3
<1>. QED  BY <1>1, <1>3, <1>4, <1>5, <1>7, SaveKeepsFlow DEF StageNames

LEMMA SaveCurrentKeepsFlow ==
  ASSUME FlowInv, SaveCurrent
  PROVE  FlowInv'
<1>1. /\ At("saveCurrent") /\ req \in Requests /\ job \in Jobs /\ UNCHANGED jobVars
      /\ "current" \in job.streams /\ "current" \in Wanted /\ ~job.published
      /\ "weather" \in Wanted => "weather" \in job.streams
      /\ "waves" \in Wanted => "waves" \in job.streams
      /\ Coupled => "waves" \in job.streams
  BY DEF SaveCurrent, FlowInv, PlacesInv, PcInv, ListInv, At, FromJoinWaves, FromSaveWaves,
         FromJoinCurrent, FromSaveCurrent, Ended
<1>2. Makes("current", files["current"]) /\ files["current"].cycle = None
  BY <1>1 DEF FlowInv, FilesInv, StageNames, Listed, Makes
<1>3. CurrentKey \in Keys /\ StreamFits(CurrentKey, files["current"])
  BY <1>1, <1>2, MadeFits
<1>4. SavedStage = "current" /\ SavedKey = CurrentKey /\ job.pc \in Saving
  BY <1>1 DEF SavedStage, SavedKey, At, Saving
<1>5. Save("current", CurrentKey, None, "merge") /\ UNCHANGED files
  BY DEF SaveCurrent, Save, taskVars
<1>6. Wanted' = Wanted /\ Coupled' = Coupled
  BY <1>1, SameRequest DEF jobVars
<1>7. ASSUME job' = [job EXCEPT !.pc = "merge"]
      PROVE  PcInv' /\ EarlyInv' /\ ListInv' /\ SelectedInv'
  <2>1. /\ job'.pc = "merge" /\ job'.streams = job.streams /\ job'.restored = job.restored
        /\ job'.selected = job.selected /\ job'.published = job.published
    BY <1>1, <1>7 DEF Jobs
  <2>2. PcInv' /\ EarlyInv' /\ SelectedInv'
    BY <2>1 DEF PcInv, EarlyInv, SelectedInv, At, SavingWeather
  <2>3. ListInv'
    BY <1>1, <1>6, <2>1
    DEF ListInv, At, Listed, Seeking, SavingWeather, FromJoinWaves, FromSaveWaves,
        FromJoinCurrent, FromSaveCurrent
  <2>. QED  BY <2>2, <2>3
<1>. QED  BY <1>1, <1>2, <1>3, <1>4, <1>5, <1>7, SaveKeepsFlow DEF StageNames

(* Waves or currents join the list.                                        *)
LEMMA JoinKeepsFlow ==
  ASSUME FlowInv, NEW s, NEW save, NEW after,
         \/ At("joinWaves") /\ s = "waves" /\ save = "saveWaves" /\ after = "joinCurrent"
         \/ At("joinCurrent") /\ s = "current" /\ save = "saveCurrent" /\ after = "merge",
         Join(s, save, after), UNCHANGED jobVars
  PROVE  FlowInv'
<1>1. /\ job.pc \in {"joinWaves", "joinCurrent"} /\ job \in Jobs /\ s \in StageNames
      /\ req' = req /\ jobs' = jobs /\ workspace' = workspace
      /\ ~job.published
      /\ "weather" \in Wanted => "weather" \in job.streams
      /\ Coupled => "waves" \in job.streams
      /\ At("joinCurrent") /\ "waves" \in Wanted => "waves" \in job.streams
  BY DEF At, FlowInv, PlacesInv, ListInv, FromJoinWaves, FromSaveWaves, FromJoinCurrent,
         StageNames, jobVars, Ended
<1>2. Wanted' = Wanted /\ Coupled' = Coupled
  BY <1>1, SameRequest
<1>3. job.pc \notin Ended \cup Saving \cup {"generateWeather", "awaitPair", "unwind"}
  BY <1>1 DEF Ended, Saving
<1>4. ASSUME UNCHANGED <<cacheVars, taskVars>>, NEW place \in {save, after, "unwind"},
             job' \in Jobs, job'.pc = place, job'.restored = job.restored,
             job'.published = job.published,
             job'.streams = job.streams \/ job'.streams = job.streams \cup {s},
             place # "unwind" => (s \in Wanted => s \in job'.streams),
             \A t \in Listed' : t \in Listed
                                \/ (t \in Wanted /\ files[t] # None /\ tasks[t] # "running"),
             place = save => /\ s \in Wanted \ job.restored /\ (s = "waves" => ~Coupled)
                             /\ s \in job'.streams
      PROVE  FlowInv'
  <2>1. PcInv' /\ EarlyInv' /\ SelectedInv'
    BY <1>1, <1>2, <1>4 DEF PcInv, EarlyInv, SelectedInv, At, SavingWeather
  <2>2. ListInv'
    BY <1>1, <1>2, <1>4
    DEF ListInv, At, Listed, Seeking, SavingWeather, FromJoinWaves, FromSaveWaves,
        FromJoinCurrent, FromSaveCurrent, Ended
  <2>. QED  BY <1>1, <1>3, <1>4, <2>1, <2>2, GoingOnKeepsFlow DEF Ended
<1>5. CASE (s \notin Wanted \/ s \in job.streams) /\ Skip(after)
  <2>1. /\ job' \in Jobs /\ job'.pc = after /\ job'.streams = job.streams
        /\ job'.restored = job.restored /\ job'.published = job.published /\ Listed' = Listed
        /\ UNCHANGED <<cacheVars, taskVars>>
    BY <1>1, <1>5 DEF Skip, Goto, Jobs, Listed, FromJoinWaves, FromSaveWaves, FromJoinCurrent,
                      FromSaveCurrent
  <2>. QED  BY <1>4, <1>5, <2>1
<1>6. CASE /\ s \in job.restored \ job.streams /\ UNCHANGED <<cacheVars, taskVars>>
           /\ job' = [job EXCEPT !.pc = after, !.streams = @ \cup {s}]
  <2>1. /\ job' \in Jobs /\ job'.pc = after /\ job'.streams = job.streams \cup {s}
        /\ job'.restored = job.restored /\ job'.published = job.published /\ Listed' = Listed
    BY <1>1, <1>6 DEF Jobs, Listed, FromJoinWaves, FromSaveWaves, FromJoinCurrent,
                      FromSaveCurrent
  <2>. QED  BY <1>4, <1>6, <2>1
<1>7. CASE /\ s \in Wanted \ Listed /\ tasks[s] = "ok" /\ UNCHANGED <<cacheVars, taskVars>>
           /\ job' = [job EXCEPT !.pc = save, !.streams = @ \cup {s},
                                 !.selected = IF @ = None THEN files[s].cycle ELSE @]
  <2>1. files[s] # None /\ Makes(s, files[s])
    BY <1>1, <1>3, <1>7 DEF FlowInv, FilesInv, Ended
  <2>2. /\ job' \in Jobs /\ job'.pc = save /\ job'.streams = job.streams \cup {s}
        /\ job'.restored = job.restored /\ job'.published = job.published
    BY <1>1, <1>7, <2>1 DEF Makes, Stream, Jobs, FromJoinWaves, FromSaveWaves, FromJoinCurrent,
                            FromSaveCurrent
  <2>3. Listed' = Listed \cup {s}
    BY <2>2 DEF Listed
  <2>4. /\ s = "waves" => ~Coupled
        /\ s \notin job.restored
    BY <1>1, <1>7 DEF Listed
  <2>. QED  BY <1>4, <1>7, <2>1, <2>2, <2>3, <2>4
<1>8. CASE /\ s \in Wanted \ Listed /\ tasks[s] = "unborn" /\ Begin({s}) /\ job' = job
           /\ UNCHANGED <<cacheVars, files>>
  <2>1. Within /\ Listed' = Listed /\ files' = files /\ (s \in Pair => ~Coupled)
    BY <1>1, <1>3, <1>8 DEF Within, Listed, Pair, At
  <2>2. PlacesInv' /\ FilesInv'
    BY <1>3, <1>8, <2>1, BeginKeepsFiles DEF At
  <2>3. PcInv' /\ EarlyInv' /\ SelectedInv'
    BY <1>1, <1>8 DEF PcInv, EarlyInv, SelectedInv, At, SavingWeather
  <2>4. ListInv'
    BY <1>2, <1>8, <2>1 DEF FlowInv, ListInv, At
  <2>5. CacheSound' /\ step' = step
    BY <1>8, CacheStands
  <2>. QED  BY <1>3, <2>2, <2>3, <2>4, <2>5, IdleStoreStands DEF FlowInv
<1>9. CASE Goto("unwind") /\ UNCHANGED <<cacheVars, taskVars>>
  <2>1. /\ job' \in Jobs /\ job'.pc = "unwind" /\ job'.streams = job.streams
        /\ job'.restored = job.restored /\ job'.published = job.published /\ Listed' = Listed
    BY <1>1, <1>9 DEF Goto, Jobs, Listed
  <2>2. save # "unwind"
    OBVIOUS
  <2>. QED  BY <1>4, <1>9, <2>1, <2>2
<1>. QED  BY <1>5, <1>6, <1>7, <1>8, <1>9 DEF Join, Listed, taskVars

LEMMA MergeKeepsFlow ==
  ASSUME FlowInv, Merge
  PROVE  FlowInv'
<1>1. /\ At("merge") /\ UNCHANGED <<cacheVars, jobVars, taskVars>> /\ job \in Jobs
      /\ "weather" \in Wanted => "weather" \in job.streams
      /\ Coupled => "waves" \in job.streams
      /\ "waves" \in Wanted => "waves" \in job.streams
      /\ "current" \in Wanted => "current" \in job.streams
      /\ ~job.published
  BY DEF Merge, At, FlowInv, PlacesInv, ListInv, FromJoinWaves, FromSaveWaves, FromJoinCurrent,
         FromSaveCurrent, Ended
<1>2. Wanted' = Wanted /\ Coupled' = Coupled
  BY <1>1, SameRequest DEF jobVars
<1>3. job.streams = Wanted
  <2>1. \A t \in job.streams : t \in Wanted
    BY DEF FlowInv, FilesInv, Listed
  <2>. QED  BY <1>1, <2>1 DEF Wanted, StageNames
<1>4. /\ job' \in Jobs /\ job'.pc \in {"complete", "unwind"} /\ job'.streams = job.streams
      /\ job'.restored = job.restored /\ Listed' = Listed
      /\ At("complete")' => job'.published
  BY <1>1, ZenonT(60) DEF Merge, Goto, Jobs, Listed, At, FromJoinWaves, FromSaveWaves, FromJoinCurrent,
              FromSaveCurrent
<1>5. PcInv' /\ EarlyInv' /\ SelectedInv'
  BY <1>4 DEF PcInv, EarlyInv, SelectedInv, At, SavingWeather
<1>6. ListInv'
  BY <1>1, <1>2, <1>3, <1>4
  DEF ListInv, At, Listed, Seeking, SavingWeather, FromJoinWaves, FromSaveWaves,
      FromJoinCurrent, FromSaveCurrent, Ended
<1>. QED  BY <1>1, <1>4, <1>5, <1>6, GoingOnKeepsFlow DEF At, Ended, Saving

LEMMA CompleteKeepsFlow ==
  ASSUME FlowInv, Complete
  PROVE  FlowInv'
<1>1. /\ At("complete") /\ UNCHANGED <<jobVars, taskVars>> /\ job \in Jobs
      /\ req' = req /\ jobs' = jobs /\ workspace' = workspace /\ tasks' = tasks /\ files' = files
      /\ files' \in [StageNames -> Stream \cup {None}] /\ CacheSound
      /\ job.pc \notin Ended \cup Saving \cup {"generateWeather", "awaitPair", "unwind"}
  BY DEF Complete, At, FlowInv, PlacesInv, StoreInv, Ended, Saving, taskVars, jobVars
<1>2. Wanted' = Wanted /\ Coupled' = Coupled
  BY <1>1, SameRequest
<1>3. /\ job' \in Jobs /\ job'.pc \in {"complete", "return"} /\ job'.streams = job.streams
      /\ job'.restored = job.restored /\ job'.published = job.published /\ Listed' = Listed
  BY <1>1 DEF Complete, Goto, Jobs, Listed, At, FromJoinWaves, FromSaveWaves, FromJoinCurrent,
              FromSaveCurrent
<1>4. CacheSound' /\ step' = step
  <2>1. CASE \E k \in touched : CompleteOne(k)
    <3>1. PICK k \in touched : CompleteOne(k)
      BY <2>1
    <3>2. touched' \subseteq Keys /\ step' = step
      BY <1>1, <3>1 DEF CompleteOne, CacheSound
    <3>3. CASE Absent(k)
      BY <1>1, <3>1, <3>2, <3>3, StandingKeepsSound DEF CompleteOne, CacheSound
    <3>4. CASE ~Absent(k)
      <4>1. \/ data' = Without(data, k) /\ meta' = meta
            \/ meta' = Without(meta, k) /\ data' = data
        BY <3>1, <3>4 DEF CompleteOne, RemoveOne
      <4>. QED  BY <1>1, <3>2, <4>1, RemovingKeepsSound DEF CacheSound
    <3>. QED  BY <3>2, <3>3, <3>4
  <2>2. CASE UNCHANGED cacheVars
    BY <2>2, CacheStands
  <2>. QED  BY <2>1, <2>2 DEF Complete
<1>5. PlacesInv' /\ FilesInv'
  <2>1. Within
    BY <1>1, <1>3 DEF Within, Ended
  <2>. QED  BY <1>1, <1>3, <2>1, MoveKeepsFiles
<1>6. PcInv' /\ EarlyInv' /\ SelectedInv'
  BY <1>3 DEF PcInv, EarlyInv, SelectedInv, At, SavingWeather
<1>7. ListInv'
  <2>1. ListInv
    BY DEF FlowInv
  <2>. QED  BY <1>1, <1>2, <1>3, <2>1
            DEF ListInv, At, Listed, Seeking, SavingWeather, FromJoinWaves, FromSaveWaves,
                FromJoinCurrent, FromSaveCurrent, Ended
<1>. QED  BY <1>1, <1>4, <1>5, <1>6, <1>7, IdleStoreStands DEF FlowInv

LEMMA LeaveKeepsFlow ==
  ASSUME FlowInv, Leave
  PROVE  FlowInv'
<1>1. /\ job.pc \in {"return", "unwind"} /\ \A s \in StageNames : tasks[s] # "running"
      /\ workspace' = FALSE /\ UNCHANGED cacheVars /\ jobs' = jobs /\ req' = req
      /\ tasks' = tasks /\ files' = files /\ job \in Jobs
      /\ job' = [job EXCEPT !.pc = IF At("return") THEN "done" ELSE "failed"]
  BY DEF Leave, Goto, taskVars, FlowInv, PlacesInv
<1>2. Wanted' = Wanted /\ Coupled' = Coupled /\ \A t, x : Makes(t, x)' <=> Makes(t, x)
  BY <1>1, SameRequest
<1>3. /\ job' \in Jobs /\ job'.pc \in {"done", "failed"} /\ job'.streams = job.streams
      /\ job'.restored = job.restored /\ job'.published = job.published /\ Listed' = Listed
      /\ job'.pc = "done" <=> At("return")
  BY <1>1 DEF Jobs, Listed, At, Ended
<1>4. PlacesInv'
  <2>1. PlacesInv
    BY DEF FlowInv
  <2>2. \A s \in Pair : s \in StageNames
    BY DEF Pair, StageNames
  <2>. QED  BY <1>1, <1>2, <1>3, <2>1, <2>2 DEF PlacesInv, Ended
<1>5. FilesInv'
  <2>1. FilesInv
    BY DEF FlowInv
  <2>. QED  BY <1>1, <1>2, <1>3, <2>1 DEF FilesInv, At
<1>6. PcInv' /\ EarlyInv' /\ SelectedInv'
  BY <1>3 DEF PcInv, EarlyInv, SelectedInv, At, SavingWeather
<1>7. ListInv'
  <2>1. ListInv
    BY DEF FlowInv
  <2>. QED  BY <1>1, <1>2, <1>3, <2>1
            DEF ListInv, At, Listed, Seeking, SavingWeather, FromJoinWaves, FromSaveWaves,
                FromJoinCurrent, FromSaveCurrent, Ended
<1>8. CacheSound' /\ step' = step /\ job.pc \notin Saving
  BY <1>1, CacheStands DEF Saving
<1>. QED  BY <1>4, <1>5, <1>6, <1>7, <1>8, IdleStoreStands DEF FlowInv

(* A new job, and a crash: nothing but the files of the store is left.     *)
LEMMA FreshKeepsFlow ==
  ASSUME FlowInv, CacheCrash, job' \in Jobs,
         job'.pc \in {"restoreWaves", "crashed"},
         job'.streams = {}, job'.restored = {}, job'.published => job'.pc = "crashed",
         tasks' = [s \in StageNames |-> "unborn"], files' = [s \in StageNames |-> None],
         jobs' \in 0 .. MaxJobs, req' \in Requests, workspace' \in BOOLEAN,
         job'.pc = "restoreWaves" => workspace'
  PROVE  FlowInv'
<1>1. Listed' = {}
  BY DEF Listed
<1>2. PlacesInv'
  BY DEF PlacesInv, Ended, Pair, StageNames
<1>3. PcInv' /\ SelectedInv'
  BY DEF PcInv, SelectedInv, At, SavingWeather
<1>4. EarlyInv' /\ FilesInv'
  BY <1>1 DEF EarlyInv, Untouched, FilesInv, At, StageNames
<1>5. ListInv'
  BY <1>1
  DEF ListInv, At, SavingWeather, FromJoinWaves, FromSaveWaves, FromJoinCurrent,
      FromSaveCurrent, Ended
<1>6. StoreInv'
  <2>1. CacheSound
    BY DEF FlowInv, StoreInv
  <2>2. CacheSound' /\ step' = "copy"
    BY <2>1, StandingKeepsSound DEF CacheCrash
  <2>. QED  BY <2>2 DEF StoreInv, Saving
<1>. QED  BY <1>2, <1>3, <1>4, <1>5, <1>6 DEF FlowInv

LEMMA StartJobKeepsFlow ==
  ASSUME FlowInv, StartJob
  PROVE  FlowInv'
<1>1. jobs' \in 0 .. MaxJobs
  BY JobAssumption DEF StartJob, FlowInv, PlacesInv
<1>2. /\ job' \in Jobs /\ job'.pc = "restoreWaves" /\ job'.streams = {} /\ job'.restored = {}
      /\ ~job'.published
  BY DEF StartJob, NewJob, Jobs, Seeking
<1>. QED  BY <1>1, <1>2, FreshKeepsFlow DEF StartJob

LEMMA CrashKeepsFlow ==
  ASSUME FlowInv, Crash
  PROVE  FlowInv'
<1>1. job \in Jobs /\ jobs \in 0 .. MaxJobs /\ req \in Requests
  BY DEF FlowInv, PlacesInv
<1>2. /\ job' \in Jobs /\ job'.pc = "crashed" /\ job'.streams = {} /\ job'.restored = {}
  BY <1>1 DEF Crash, NewJob, Jobs, Ended
<1>. QED  BY <1>1, <1>2, FreshKeepsFlow DEF Crash

LEMMA StutterKeepsFlow ==
  ASSUME FlowInv, UNCHANGED vars
  PROVE  FlowInv'
<1>1. /\ UNCHANGED cacheVars /\ tasks' = tasks /\ files' = files /\ req' = req /\ jobs' = jobs
      /\ workspace' = workspace /\ job' = job
  BY DEF vars, jobVars, taskVars
<1>2. /\ Wanted' = Wanted /\ Coupled' = Coupled /\ WeatherKey' = WeatherKey
      /\ CurrentKey' = CurrentKey /\ \A c : WaveKey(c)' = WaveKey(c)
      /\ \A t, x : Makes(t, x)' <=> Makes(t, x)
  BY <1>1, SameRequest
<1>3. PlacesInv' /\ PcInv' /\ EarlyInv' /\ Listed' = Listed
  BY <1>1, <1>2 DEF FlowInv, PlacesInv, PcInv, EarlyInv, Untouched, At, Listed
<1>4. FilesInv' /\ ListInv' /\ SelectedInv'
  BY <1>1, <1>2, <1>3 DEF FlowInv, FilesInv, ListInv, SelectedInv, At
<1>5. StoreInv'
  <2>1. SavedStage' = SavedStage /\ SavedKey' = SavedKey
    BY <1>1, <1>2 DEF SavedStage, SavedKey, At
  <2>. QED  BY <1>1, <2>1, CacheStands DEF FlowInv, StoreInv, cacheVars
<1>. QED  BY <1>3, <1>4, <1>5 DEF FlowInv

LEMMA MainStepKeepsFlow ==
  ASSUME FlowInv, MainStep
  PROVE  FlowInv'
<1>1. CASE RestoreWaves
  BY <1>1, RestoreWavesKeepsFlow
<1>2. CASE RestoreCurrent
  BY <1>2, RestoreCurrentKeepsFlow
<1>3. CASE RestoreWeather
  BY <1>3, RestoreWeatherKeepsFlow
<1>4. CASE RestorePair
  BY <1>4, RestorePairKeepsFlow
<1>5. CASE GenerateWeather
  BY <1>5, GenerateWeatherKeepsFlow
<1>6. CASE AwaitWeather
  BY <1>6, AwaitWeatherKeepsFlow
<1>7. CASE AwaitPair
  BY <1>7, AwaitPairKeepsFlow
<1>8. CASE SaveWeather
  BY <1>8, SaveWeatherKeepsFlow
<1>9. CASE SavePair
  BY <1>9, SavePairKeepsFlow
<1>10. CASE JoinWaves
  BY <1>10, JoinKeepsFlow DEF JoinWaves
<1>11. CASE SaveWaves
  BY <1>11, SaveWavesKeepsFlow
<1>12. CASE JoinCurrent
  BY <1>12, JoinKeepsFlow DEF JoinCurrent
<1>13. CASE SaveCurrent
  BY <1>13, SaveCurrentKeepsFlow
<1>14. CASE Merge
  BY <1>14, MergeKeepsFlow
<1>15. CASE Complete
  BY <1>15, CompleteKeepsFlow
<1>16. CASE Leave
  BY <1>16, LeaveKeepsFlow
<1>. QED  BY <1>1, <1>2, <1>3, <1>4, <1>5, <1>6, <1>7, <1>8, <1>9, <1>10, <1>11, <1>12, <1>13,
             <1>14, <1>15, <1>16 DEF MainStep

(* The main thread, the tasks, their files and the cached streams agree    *)
(* with each other in every reachable state.                               *)
THEOREM FlowHolds == Spec => []FlowInv
<1>1. Init => FlowInv
  BY FlowInit
<1>2. FlowInv /\ [Next]_vars => FlowInv'
  BY MainStepKeepsFlow, TaskEndsKeepsFlow, StartJobKeepsFlow, CrashKeepsFlow, StutterKeepsFlow
  DEF Next
<1>. QED  BY <1>1, <1>2, PTL DEF Spec

-----------------------------------------------------------------------------
(* What follows of the job's promises.                                     *)

(* The state stays within its types: in particular a stage's file is a     *)
(* stream of that stage, and what is in the cache is a stream and its      *)
(* description, whatever a crash or a failed save left half done.          *)
THEOREM TypeCorrect == Spec => []TypeOK
<1>1. FlowInv => TypeOK
  <2>. SUFFICES ASSUME FlowInv PROVE TypeOK
    OBVIOUS
  <2>1. CacheTypeOK
    <3>1. CacheSound
      BY DEF FlowInv, StoreInv
    <3>2. \A k \in DOMAIN data : k \in Keys /\ data[k] \in Stream
      BY <3>1 DEF CacheSound, StreamFits
    <3>. QED  BY <3>1, <3>2 DEF CacheSound, CacheTypeOK, Range
  <2>2. /\ jobs \in 0 .. MaxJobs /\ req \in Requests /\ workspace \in BOOLEAN
        /\ tasks \in [StageNames -> {"unborn", "running", "ok", "invalid", "error"}]
        /\ DOMAIN files = StageNames
    BY DEF FlowInv, PlacesInv
  <2>3. job \in Jobs
    BY DEF FlowInv, PlacesInv
  <2>4. \A s \in StageNames : files[s] # None => s \in Wanted /\ Makes(s, files[s])
    BY DEF FlowInv, FilesInv
  <2>5. /\ req.spacing \in Spacings
        /\ req.waves \in {"none", "gfs_wave", "copernicus"}
    BY <2>2, RequestIs
  <2>6. files["weather"] \in {None} \cup [cycle : Cycles, spacing : Spacings]
    BY <2>4, <2>5 DEF Makes, Stream, StageNames
  <2>7. files["waves"] \in {None} \cup [cycle : Cycles, spacing : {None}]
                                  \cup [cycle : {None}, spacing : Spacings]
    BY <2>4 DEF Makes, Stream, StageNames
  <2>8. files["current"] \in {None} \cup [cycle : {None}, spacing : {None}]
    BY <2>4 DEF Makes, Stream, StageNames
  <2>9. job \in [pc : Ended \cup {"restoreWaves", "restoreCurrent", "restoreWeather",
                      "restorePair", "generateWeather", "awaitWeather", "awaitPair",
                      "saveWeather", "savePair", "joinWaves", "saveWaves",
                      "joinCurrent", "saveCurrent", "merge", "complete", "return",
                      "unwind"},
                 restored : SUBSET StageNames, streams : SUBSET StageNames,
                 candidate : Cycles \cup {None}, tried : SUBSET Cycles,
                 selected : Cycles \cup {None}, published : BOOLEAN]
    BY <2>3 DEF Jobs, Seeking, SavingWeather, FromJoinWaves, FromSaveWaves, FromJoinCurrent,
                FromSaveCurrent, Ended
  <2>. QED  BY <2>1, <2>2, <2>6, <2>7, <2>8, <2>9 DEF TypeOK
<1>. QED  BY <1>1, FlowHolds, PTL

(* A thread never works in a workspace that is gone.                       *)
THEOREM TasksStayInWorkspace == Spec => []NoTaskOutlivesWorkspace
<1>1. FlowInv => NoTaskOutlivesWorkspace
  BY DEF FlowInv, PlacesInv, NoTaskOutlivesWorkspace
<1>. QED  BY <1>1, FlowHolds, PTL

(* The output holds exactly the streams the request wants, however each of *)
(* them came about.                                                        *)
THEOREM PublishedIsWhole == Spec => []PublishedIsComplete
<1>1. FlowInv => PublishedIsComplete
  BY DEF FlowInv, ListInv, FilesInv, PublishedIsComplete, Published, At, Listed
<1>. QED  BY <1>1, FlowHolds, PTL

-----------------------------------------------------------------------------
(* TouchedInv is kept by every step.                                       *)

(* The moves of the main thread that need no look at the cache, and those  *)
(* taken because it has nothing to restore.                                *)
Moves == {<<"generateWeather", "awaitWeather">>, <<"generateWeather", "awaitPair">>,
          <<"awaitWeather", "saveWeather">>, <<"awaitPair", "saveWeather">>,
          <<"awaitPair", "generateWeather">>, <<"restorePair", "generateWeather">>,
          <<"saveWeather", "savePair">>, <<"saveWeather", "joinWaves">>,
          <<"savePair", "joinWaves">>, <<"joinWaves", "saveWaves">>,
          <<"joinWaves", "joinCurrent">>, <<"saveWaves", "joinCurrent">>,
          <<"joinCurrent", "saveCurrent">>, <<"joinCurrent", "merge">>,
          <<"saveCurrent", "merge">>, <<"merge", "complete">>, <<"return", "done">>}
Misses == {<<"restoreWaves", "restoreCurrent">>, <<"restoreCurrent", "restoreWeather">>,
           <<"restoreWeather", "generateWeather">>, <<"restoreWeather", "joinWaves">>}

LEMMA QuietKeepsTouched ==
  ASSUME FlowInv, TouchedInv, UNCHANGED <<data, meta, touched>>, req' = req,
         job'.restored = job.restored,
         \/ job'.pc = job.pc \/ <<job.pc, job'.pc>> \in Moves \cup Misses
         \/ job.pc # "complete" /\ job'.pc \in {"unwind", "failed"},
         <<job.pc, job'.pc>> \in Misses =>
           /\ At("restoreWaves") => Coupled \/ WaveKey(None) \notin DOMAIN meta
           /\ At("restoreCurrent") => CurrentKey \notin DOMAIN meta
           /\ At("restoreWeather") => WeatherKey \notin DOMAIN meta
  PROVE  TouchedInv'
<1>1. /\ Coupled' = Coupled /\ WeatherKey' = WeatherKey /\ CurrentKey' = CurrentKey
      /\ \A c : WaveKey(c)' = WaveKey(c)
  BY SameRequest
<1>2. /\ \A k : Acceptable(k)' <=> Acceptable(k)
      /\ \A k : Answered(k)' <=> Answered(k)
      /\ \A stage : NoneOf(stage)' <=> NoneOf(stage)
  BY DEF Acceptable, Answered, NoneOf
<1>3. TouchedKeysInv'
  <2>1. At("savePair") => Coupled
    BY DEF FlowInv, PcInv, At
  <2>. QED  BY <1>1, <1>2, <2>1 DEF TouchedInv, TouchedKeysInv, Seeking, SavingWeather, Moves, Misses, At
<1>4. AcceptableInv'
  BY <1>1, <1>2 DEF TouchedInv, AcceptableInv, Moves, Misses, At
<1>5. AnsweredForInv'
  <2>1. At("restoreWaves") /\ <<job.pc, job'.pc>> \in Misses => Coupled \/ Answered(WaveKey(None))
    BY DEF Answered
  <2>2. At("restoreCurrent") /\ <<job.pc, job'.pc>> \in Misses => Answered(CurrentKey)
    BY DEF Answered
  <2>3. At("restoreWeather") /\ <<job.pc, job'.pc>> \in Misses => Answered(WeatherKey)
    BY DEF Answered
  <2>4. AnsweredForInv
    BY DEF TouchedInv
  <2>5. job'.pc \in (Seeking \ {"restoreWaves"}) \cup SavingWeather \cup FromJoinWaves
          => Coupled \/ Answered(WaveKey(None))
    BY <2>1, <2>4 DEF AnsweredForInv, Moves, Misses, At, Seeking, SavingWeather, FromJoinWaves,
                      FromSaveWaves, FromJoinCurrent, FromSaveCurrent
  <2>6. job'.pc \in (Seeking \ {"restoreWaves", "restoreCurrent"}) \cup SavingWeather
                      \cup FromJoinWaves
          => Answered(CurrentKey)
    BY <2>2, <2>4 DEF AnsweredForInv, Moves, Misses, At, Seeking, SavingWeather, FromJoinWaves,
                      FromSaveWaves, FromJoinCurrent, FromSaveCurrent
  <2>7. job'.pc \in {"restorePair", "generateWeather", "awaitWeather", "awaitPair"}
                      \cup SavingWeather \cup FromJoinWaves
          => Answered(WeatherKey)
    BY <2>3, <2>4 DEF AnsweredForInv, Moves, Misses, At, Seeking, SavingWeather, FromJoinWaves,
                      FromSaveWaves, FromJoinCurrent, FromSaveCurrent
  <2>8. job'.pc \in {"return", "done"} => touched = {}
    BY <2>4 DEF AnsweredForInv, Moves, Misses
  <2>. QED  BY <1>1, <1>2, <2>5, <2>6, <2>7, <2>8 DEF AnsweredForInv
<1>. QED  BY <1>3, <1>4, <1>5 DEF TouchedInv

(* A step of a save, or a refusal, changes the files of one pair this job  *)
(* does not answer for yet, and describes none anew.                       *)
LEMMA OtherPairKeepsTouched ==
  ASSUME TouchedInv, NEW k, k \notin touched \/ (Coupled /\ k = WeatherKey),
         req' = req, job' = job, touched' = touched,
         DOMAIN meta' \subseteq DOMAIN meta,
         \A j : j # k => /\ j \in DOMAIN data' <=> j \in DOMAIN data
                         /\ j \in DOMAIN meta' <=> j \in DOMAIN meta
                         /\ j \in DOMAIN data => data'[j] = data[j]
                         /\ j \in DOMAIN meta => meta'[j] = meta[j]
  PROVE  TouchedInv'
<1>1. /\ Coupled' = Coupled /\ WeatherKey' = WeatherKey /\ CurrentKey' = CurrentKey
      /\ \A c : WaveKey(c)' = WaveKey(c)
  BY SameRequest
<1>2. /\ \A j : j # k => (Acceptable(j)' <=> Acceptable(j))
      /\ \A j : Answered(j) => Answered(j)'
      /\ \A stage : NoneOf(stage)' <=> NoneOf(stage)
  BY DEF Acceptable, Answered, NoneOf
<1>3. TouchedKeysInv'
  BY <1>1, <1>2 DEF TouchedInv, TouchedKeysInv
<1>4. AcceptableInv'
  BY <1>1, <1>2 DEF TouchedInv, AcceptableInv, At
<1>5. AnsweredForInv'
  BY <1>1, <1>2 DEF TouchedInv, AnsweredForInv
<1>. QED  BY <1>3, <1>4, <1>5 DEF TouchedInv

(* The first component of a key is its stage.                              *)
LEMMA StageOfKey ==
  /\ WeatherKey[1] = "weather" /\ CurrentKey[1] = "current"
  /\ \A c : WaveKey(c)[1] = "waves"
BY DEF WeatherKey, CurrentKey, WaveKey

LEMMA RemovalKeepsTouched ==
  ASSUME TouchedInv, NEW k, k \notin touched, RemoveOne(k),
         req' = req, job' = job, touched' = touched
  PROVE  TouchedInv'
<1>1. DOMAIN meta' \subseteq DOMAIN meta
  BY DEF RemoveOne, Without, Restrict
<1>2. \A j : j # k => /\ j \in DOMAIN data' <=> j \in DOMAIN data
                      /\ j \in DOMAIN meta' <=> j \in DOMAIN meta
                      /\ j \in DOMAIN data => data'[j] = data[j]
                      /\ j \in DOMAIN meta => meta'[j] = meta[j]
  BY DEF RemoveOne, Without, Restrict
<1>. QED  BY <1>1, <1>2, OtherPairKeepsTouched

(* A pair restored, or saved to the end, is one more the job answers for:  *)
(* an acceptable one.                                                      *)
LEMMA OneMoreKeepsTouched ==
  ASSUME FlowInv, TouchedInv, NEW k, touched' = touched \cup {k}, req' = req, Acceptable(k)',
         \A j : j # k => /\ Acceptable(j) => Acceptable(j)'
                         /\ j \in DOMAIN meta' <=> j \in DOMAIN meta,
         \/ /\ At("restoreWaves") /\ ~Coupled /\ k = WaveKey(None)
            /\ job'.restored = job.restored \cup {"waves"} /\ job'.pc = "restoreCurrent"
         \/ /\ At("restoreCurrent") /\ k = CurrentKey
            /\ job'.restored = job.restored \cup {"current"} /\ job'.pc = "restoreWeather"
         \/ /\ At("restoreWeather") /\ Coupled /\ k = WeatherKey
            /\ job'.restored = job.restored /\ job'.pc = "restorePair"
         \/ /\ At("restoreWeather") /\ ~Coupled /\ k = WeatherKey
            /\ job'.restored = job.restored \cup {"weather"} /\ job'.pc = "joinWaves"
         \/ /\ At("restorePair") /\ k[1] = "waves"
            /\ job'.restored = job.restored \cup {"weather", "waves"} /\ job'.pc = "joinWaves"
         \/ /\ job.pc \in Saving /\ k = SavedKey
            /\ job'.restored = job.restored /\ <<job.pc, job'.pc>> \in Moves
  PROVE  TouchedInv'
<1>1. /\ Coupled' = Coupled /\ WeatherKey' = WeatherKey /\ CurrentKey' = CurrentKey
      /\ \A c : WaveKey(c)' = WaveKey(c)
  BY SameRequest
<1>2. \A j : Answered(j)' <=> Answered(j) \/ j = k
  BY DEF Answered
<1>3. \A stage : NoneOf(stage) /\ k[1] # stage => NoneOf(stage)'
  BY DEF NoneOf
<1>4. At("restorePair") \/ At("savePair") => Coupled
  BY DEF FlowInv, PcInv, At
<1>5. At("saveWaves") => ~Coupled
  BY DEF FlowInv, PcInv
<1>6. job.pc \in Saving => /\ At("saveWeather") => SavedKey = WeatherKey
                           /\ At("savePair") => SavedKey = WaveKey(job.selected)
                           /\ At("saveWaves") => SavedKey = WaveKey(None)
                           /\ At("saveCurrent") => SavedKey = CurrentKey
  BY DEF SavedKey, At
<1>7. TouchedKeysInv'
  <2>1. TouchedKeysInv
    BY DEF TouchedInv
  <2>2. k[1] = "weather" => k = WeatherKey
    BY <1>6, StageOfKey DEF Saving, At
  <2>3. \A j \in touched' : j[1] = "weather" => j = WeatherKey
    BY <2>1, <2>2 DEF TouchedKeysInv
  <2>4. "current" \notin job'.restored /\ job'.pc \in Seeking \cup SavingWeather
          \cup {"joinWaves", "saveWaves", "joinCurrent", "saveCurrent"} => NoneOf("current")'
    BY <1>3, <1>6, <2>1, StageOfKey DEF TouchedKeysInv, Seeking, SavingWeather, Moves, At, Saving
  <2>5. "waves" \notin job'.restored /\ job'.pc \in Seeking \cup SavingWeather => NoneOf("waves")'
    BY <1>3, <1>6, <2>1, StageOfKey DEF TouchedKeysInv, Seeking, SavingWeather, Moves, At, Saving
  <2>6. "waves" \notin job'.restored /\ ~Coupled /\ job'.pc \in {"joinWaves", "saveWaves"}
          => NoneOf("waves")'
    BY <1>3, <1>4, <1>6, <2>1, StageOfKey
    DEF TouchedKeysInv, Seeking, SavingWeather, Moves, At, Saving
  <2>7. ~Coupled /\ job'.pc \in Seeking \cup {"saveWeather"} => NoneOf("weather")'
    BY <1>3, <1>6, <2>1, StageOfKey DEF TouchedKeysInv, Seeking, SavingWeather, Moves, At, Saving
  <2>8. job'.pc \in {"restoreWaves", "restoreCurrent", "restoreWeather"} => NoneOf("weather")'
    BY <1>3, <2>1, StageOfKey DEF TouchedKeysInv, Moves, At
  <2>. QED  BY <1>1, <2>3, <2>4, <2>5, <2>6, <2>7, <2>8 DEF TouchedKeysInv
<1>8. AcceptableInv'
  <2>1. AcceptableInv /\ ~At("complete")
    BY DEF TouchedInv, At, Saving
  <2>2. \A j \in touched : Acceptable(j)' \/ (Coupled /\ j = WeatherKey)
    BY <2>1 DEF AcceptableInv
  <2>. QED  BY <1>1, <2>2 DEF AcceptableInv
<1>9. AnsweredForInv'
  <2>1. AnsweredForInv
    BY DEF TouchedInv
  <2>2. job'.pc \in (Seeking \ {"restoreWaves"}) \cup SavingWeather \cup FromJoinWaves
          => Coupled \/ Answered(WaveKey(None))'
    BY <1>1, <1>2, <2>1 DEF AnsweredForInv, Moves, At, Seeking, SavingWeather, FromJoinWaves,
                      FromSaveWaves, FromJoinCurrent, FromSaveCurrent, Saving
  <2>3. job'.pc \in (Seeking \ {"restoreWaves", "restoreCurrent"}) \cup SavingWeather
                      \cup FromJoinWaves
          => Answered(CurrentKey)'
    BY <1>1, <1>2, <2>1 DEF AnsweredForInv, Moves, At, Seeking, SavingWeather, FromJoinWaves,
                      FromSaveWaves, FromJoinCurrent, FromSaveCurrent, Saving
  <2>4. job'.pc \in {"restorePair", "generateWeather", "awaitWeather", "awaitPair"}
                      \cup SavingWeather \cup FromJoinWaves
          => Answered(WeatherKey)'
    BY <1>1, <1>2, <2>1 DEF AnsweredForInv, Moves, At, Seeking, SavingWeather, FromJoinWaves,
                      FromSaveWaves, FromJoinCurrent, FromSaveCurrent, Saving
  <2>5. job'.pc \notin {"return", "done"}
    BY DEF Moves, Saving, At
  <2>. QED  BY <1>1, <2>2, <2>3, <2>4, <2>5 DEF AnsweredForInv
<1>. QED  BY <1>7, <1>8, <1>9 DEF TouchedInv

(* The pair a save is about is not answered for yet, but for the coupled   *)
(* weather's.                                                              *)
LEMMA SavedIsNew ==
  ASSUME FlowInv, TouchedInv, job.pc \in Saving
  PROVE  SavedKey \notin touched \/ (Coupled /\ SavedKey = WeatherKey)
<1>1. TouchedKeysInv /\ PcInv /\ ListInv
  BY DEF FlowInv, TouchedInv
<1>2. CASE At("saveWeather")
  BY <1>1, <1>2, StageOfKey DEF SavedKey, At, TouchedKeysInv, NoneOf, SavingWeather
<1>3. CASE At("savePair")
  <2>1. Coupled /\ "waves" \notin job.restored
    BY <1>1, <1>3 DEF PcInv, ListInv, SavingWeather, At
  <2>2. NoneOf("waves")
    BY <1>1, <1>3, <2>1 DEF TouchedKeysInv, SavingWeather, At
  <2>3. SavedKey = WaveKey(job.selected)
    BY <1>3 DEF SavedKey, At
  <2>. QED  BY <2>2, <2>3, StageOfKey DEF NoneOf
<1>4. CASE At("saveWaves")
  <2>1. NoneOf("waves") /\ SavedKey = WaveKey(None)
    BY <1>1, <1>4 DEF PcInv, TouchedKeysInv, SavedKey, At
  <2>. QED  BY <2>1, StageOfKey DEF NoneOf
<1>5. CASE At("saveCurrent")
  <2>1. NoneOf("current") /\ SavedKey = CurrentKey
    BY <1>1, <1>5 DEF PcInv, TouchedKeysInv, SavedKey, At
  <2>. QED  BY <2>1, StageOfKey DEF NoneOf
<1>. QED  BY <1>2, <1>3, <1>4, <1>5 DEF Saving, At

LEMMA SaveKeepsTouched ==
  ASSUME FlowInv, TouchedInv, job.pc \in Saving, NEW s, NEW k, NEW cycle, NEW after,
         s = SavedStage, k = SavedKey, <<job.pc, after>> \in Moves,
         Save(s, k, cycle, after), UNCHANGED jobVars
  PROVE  TouchedInv'
<1>1. req' = req /\ files' = files /\ job \in Jobs
  BY DEF jobVars, Save, taskVars, FlowInv, PlacesInv
<1>2. k \notin touched \/ (Coupled /\ k = WeatherKey)
  BY SavedIsNew
<1>3. CASE SaveCopy(k) /\ job' = job
  <2>1. /\ meta' = meta /\ touched' = touched
        /\ \A j : j # k => /\ j \in DOMAIN data' <=> j \in DOMAIN data
                           /\ j \in DOMAIN data => data'[j] = data[j]
    BY <1>3 DEF SaveCopy, Without, Restrict
  <2>. QED  BY <1>1, <1>2, <1>3, <2>1, OtherPairKeepsTouched
<1>4. CASE SavePublish(k, files[s]) /\ job' = job
  <2>1. /\ meta' = meta /\ touched' = touched
        /\ \A j : j # k => /\ j \in DOMAIN data' <=> j \in DOMAIN data
                           /\ j \in DOMAIN data => data'[j] = data[j]
    BY <1>4 DEF SavePublish, With
  <2>. QED  BY <1>1, <1>2, <1>4, <2>1, OtherPairKeepsTouched
<1>5. CASE SaveDescribe(k) /\ job' = job
  <2>1. /\ data' = data /\ touched' = touched /\ DOMAIN meta' \subseteq DOMAIN meta
        /\ \A j : j # k => /\ j \in DOMAIN meta' <=> j \in DOMAIN meta
                           /\ j \in DOMAIN meta => meta'[j] = meta[j]
    BY <1>5 DEF SaveDescribe, Without, Restrict
  <2>. QED  BY <1>1, <1>2, <1>5, <2>1, OtherPairKeepsTouched
<1>6. CASE SavePublishMeta(k, files[s], cycle) /\ Goto(after)
  <2>1. /\ data' = data /\ touched' = touched \cup {k} /\ k \in DOMAIN data /\ data[k] = files[s]
    BY <1>6 DEF SavePublishMeta, FlowInv, StoreInv
  <2>2. /\ k \in DOMAIN meta' /\ meta'[k].scan = ScanOf[files[s].cycle]
        /\ \A j : j # k => /\ j \in DOMAIN meta' <=> j \in DOMAIN meta
                           /\ j \in DOMAIN meta => meta'[j] = meta[j]
    BY <1>6 DEF SavePublishMeta, With
  <2>3. Acceptable(k)' /\ \A j : j # k /\ Acceptable(j) => Acceptable(j)'
    BY <2>1, <2>2 DEF Acceptable
  <2>4. job'.restored = job.restored /\ <<job.pc, job'.pc>> \in Moves
    BY <1>1, <1>6 DEF Goto, Jobs
  <2>. QED  BY <1>1, <2>1, <2>2, <2>3, <2>4, OneMoreKeepsTouched
<1>7. CASE SaveGivesUp /\ Goto(after)
  <2>1. job'.restored = job.restored /\ job'.pc = after
    BY <1>1, <1>7 DEF Goto, Jobs
  <2>2. <<job.pc, job'.pc>> \notin Misses
    BY DEF Saving, Misses
  <2>. QED  BY <1>1, <1>7, <2>1, <2>2, QuietKeepsTouched DEF SaveGivesUp
<1>. QED  BY <1>3, <1>4, <1>5, <1>6, <1>7 DEF Save

(* A lookup: found, refused or missing.                                    *)
LEMMA LookupKeepsTouched ==
  ASSUME FlowInv, TouchedInv, UNCHANGED jobVars,
         RestoreWaves \/ RestoreCurrent \/ RestoreWeather \/ RestorePair
  PROVE  TouchedInv'
<1>1. req' = req /\ job \in Jobs
  BY DEF jobVars, FlowInv, PlacesInv
<1>2. TouchedKeysInv /\ EarlyInv /\ ListInv /\ PcInv
  BY DEF FlowInv, TouchedInv
<1>3. ASSUME NEW k, RestoreHit(k)
      PROVE  /\ touched' = touched \cup {k} /\ Acceptable(k)'
             /\ \A j : Acceptable(j) => Acceptable(j)'
             /\ meta' = meta
  BY <1>3 DEF RestoreHit, Acceptable
<1>4. ASSUME NEW k, k \notin touched, RestoreRefuse(k), UNCHANGED <<job, taskVars>>
      PROVE  TouchedInv'
  BY <1>1, <1>4, RemovalKeepsTouched DEF RestoreRefuse
<1>5. ASSUME NEW place, Goto(place)
      PROVE  job'.pc = place /\ job'.restored = job.restored
  BY <1>1, <1>5 DEF Goto, Jobs
<1>6. ASSUME UNCHANGED cacheVars
      PROVE  UNCHANGED <<data, meta, touched>>
  BY <1>6 DEF cacheVars
<1>7. DOMAIN meta \subseteq Keys
  BY DEF FlowInv, StoreInv, CacheSound
<1>8. CASE RestoreWaves
  <2>1. At("restoreWaves") /\ WaveKey(None) \notin touched
    BY <1>2, <1>8, StageOfKey DEF RestoreWaves, EarlyInv, Untouched, Listed, TouchedKeysInv, NoneOf,
                                  At, Seeking, StageNames
  <2>2. CASE /\ ~Coupled /\ RestoreHit(WaveKey(None))
             /\ job' = [job EXCEPT !.pc = "restoreCurrent", !.restored = @ \cup {"waves"},
                                   !.selected = meta[WaveKey(None)].cycle]
    <3>1. job'.pc = "restoreCurrent" /\ job'.restored = job.restored \cup {"waves"}
      BY <1>1, <2>2 DEF Jobs
    <3>. QED  BY <1>1, <1>3, <2>1, <2>2, <3>1, OneMoreKeepsTouched
  <2>3. CASE RestoreRefuse(WaveKey(None)) /\ UNCHANGED <<job, taskVars>>
    BY <1>4, <2>1, <2>3
  <2>4. CASE /\ Goto("restoreCurrent") /\ UNCHANGED cacheVars
             /\ Absent(WaveKey(None)) \/ "waves" \notin Wanted \/ Coupled
    <3>1. Coupled \/ WaveKey(None) \notin DOMAIN meta
      BY <1>7, <2>4 DEF Absent, Wanted, StageNames, WaveKey, Keys
    <3>2. <<job.pc, job'.pc>> \in Misses
      BY <1>5, <2>1, <2>4 DEF Misses, At
    <3>. QED  BY <1>1, <1>5, <1>6, <2>1, <2>4, <3>1, <3>2, QuietKeepsTouched DEF At
  <2>. QED  BY <1>8, <2>2, <2>3, <2>4 DEF RestoreWaves, Restore, Skip
<1>9. CASE RestoreCurrent
  <2>1. At("restoreCurrent") /\ CurrentKey \notin touched
    BY <1>2, <1>9, StageOfKey DEF RestoreCurrent, EarlyInv, Untouched, Listed, TouchedKeysInv,
                                  NoneOf, At, Seeking
  <2>2. CASE /\ RestoreHit(CurrentKey)
             /\ job' = [job EXCEPT !.pc = "restoreWeather", !.restored = @ \cup {"current"}]
    <3>1. job'.pc = "restoreWeather" /\ job'.restored = job.restored \cup {"current"}
      BY <1>1, <2>2 DEF Jobs
    <3>. QED  BY <1>1, <1>3, <2>1, <2>2, <3>1, OneMoreKeepsTouched
  <2>3. CASE RestoreRefuse(CurrentKey) /\ UNCHANGED <<job, taskVars>>
    BY <1>4, <2>1, <2>3
  <2>4. CASE /\ Goto("restoreWeather") /\ UNCHANGED cacheVars
             /\ Absent(CurrentKey) \/ "current" \notin Wanted
    <3>1. CurrentKey \notin DOMAIN meta
      BY <1>7, <2>4 DEF Absent, Wanted, StageNames, CurrentKey, Keys
    <3>2. <<job.pc, job'.pc>> \in Misses
      BY <1>5, <2>1, <2>4 DEF Misses, At
    <3>. QED  BY <1>1, <1>5, <1>6, <2>1, <2>4, <3>1, <3>2, QuietKeepsTouched DEF At
  <2>. QED  BY <1>9, <2>2, <2>3, <2>4 DEF RestoreCurrent, Restore, Skip
<1>10. CASE RestoreWeather
  <2>1. At("restoreWeather") /\ WeatherKey \notin touched
    BY <1>2, <1>10, StageOfKey DEF RestoreWeather, TouchedKeysInv, NoneOf, At
  <2>2. CASE /\ RestoreHit(WeatherKey)
             /\ job' = IF Coupled
                       THEN [job EXCEPT !.pc = "restorePair", !.candidate = meta[WeatherKey].cycle]
                       ELSE [job EXCEPT !.pc = "joinWaves", !.restored = @ \cup {"weather"},
                                        !.streams = @ \cup {"weather"},
                                        !.selected = meta[WeatherKey].cycle]
    <3>1. /\ Coupled => job'.pc = "restorePair" /\ job'.restored = job.restored
          /\ ~Coupled => job'.pc = "joinWaves" /\ job'.restored = job.restored \cup {"weather"}
      BY <1>1, <2>2 DEF Jobs
    <3>. QED  BY <1>1, <1>3, <2>1, <2>2, <3>1, OneMoreKeepsTouched
  <2>3. CASE RestoreRefuse(WeatherKey) /\ UNCHANGED <<job, taskVars>>
    BY <1>4, <2>1, <2>3
  <2>4. CASE /\ UNCHANGED cacheVars
             /\ \/ Goto("generateWeather") /\ Absent(WeatherKey)
                \/ Goto("joinWaves") /\ "weather" \notin Wanted
    <3>1. WeatherKey \notin DOMAIN meta
      BY <1>7, <2>4 DEF Absent, Wanted, StageNames, WeatherKey, Keys
    <3>2. <<job.pc, job'.pc>> \in Misses /\ job'.restored = job.restored
      BY <1>5, <2>1, <2>4 DEF Misses, At
    <3>. QED  BY <1>1, <1>6, <2>1, <2>4, <3>1, <3>2, QuietKeepsTouched DEF At
  <2>. QED  BY <1>10, <2>2, <2>3, <2>4 DEF RestoreWeather, Restore, Skip
<1>11. CASE RestorePair
  <2>. DEFINE k == WaveKey(job.candidate)
  <2>1. At("restorePair") /\ k \notin touched
    BY <1>2, <1>11, StageOfKey DEF RestorePair, PcInv, ListInv, Listed, TouchedKeysInv, NoneOf,
                                   At, Seeking
  <2>2. CASE /\ RestoreHit(k)
             /\ job' = [job EXCEPT !.pc = "joinWaves", !.restored = @ \cup {"weather", "waves"},
                                   !.streams = @ \cup {"weather", "waves"},
                                   !.selected = job.candidate]
    <3>1. job'.pc = "joinWaves" /\ job'.restored = job.restored \cup {"weather", "waves"}
      BY <1>1, <2>2 DEF Jobs
    <3>2. k[1] = "waves"
      BY StageOfKey
    <3>. HIDE DEF k
    <3>. QED  BY <1>1, <1>3, <2>1, <2>2, <3>1, <3>2, OneMoreKeepsTouched
  <2>3. CASE RestoreRefuse(k) /\ UNCHANGED <<job, taskVars>>
    BY <1>4, <2>1, <2>3
  <2>4. CASE Goto("generateWeather") /\ UNCHANGED cacheVars
    <3>1. /\ <<job.pc, job'.pc>> \in Moves /\ job'.restored = job.restored
          /\ <<job.pc, job'.pc>> \notin Misses
      BY <1>5, <2>1, <2>4 DEF Moves, Misses, At
    <3>. QED  BY <1>1, <1>6, <2>4, <3>1, QuietKeepsTouched
  <2>. QED  BY <1>11, <2>2, <2>3, <2>4 DEF RestorePair, Restore
<1>. QED  BY <1>8, <1>9, <1>10, <1>11

(* Completing drops one file of a pair answered for, and the answer only   *)
(* when no description is left.                                            *)
LEMMA CompleteKeepsTouched ==
  ASSUME FlowInv, TouchedInv, Complete
  PROVE  TouchedInv'
<1>1. At("complete") /\ req' = req /\ job \in Jobs
  BY DEF Complete, jobVars, FlowInv, PlacesInv
<1>2. /\ Coupled' = Coupled /\ WeatherKey' = WeatherKey /\ CurrentKey' = CurrentKey
      /\ \A c : WaveKey(c)' = WaveKey(c)
  BY <1>1, SameRequest
<1>3. TouchedKeysInv /\ AnsweredForInv
  BY DEF TouchedInv
<1>4. CASE (\E k \in touched : CompleteOne(k)) /\ job' = job
  <2>1. PICK k \in touched : CompleteOne(k)
    BY <1>4
  <2>2. touched' \subseteq touched
    BY <2>1 DEF CompleteOne
  <2>3. \A j : Answered(j) => Answered(j)'
    BY <2>1 DEF CompleteOne, RemoveOne, Absent, Without, Restrict, Answered
  <2>4. TouchedKeysInv'
    BY <1>1, <1>2, <1>3, <1>4, <2>2 DEF TouchedKeysInv, NoneOf
  <2>5. AnsweredForInv'
    BY <1>1, <1>2, <1>3, <1>4, <2>3 DEF AnsweredForInv, At
  <2>. QED  BY <1>1, <1>4, <2>4, <2>5 DEF TouchedInv, AcceptableInv, At
<1>5. CASE touched = {} /\ Goto("return") /\ UNCHANGED cacheVars
  <2>1. /\ job'.pc = "return" /\ data' = data /\ meta' = meta /\ touched' = {}
    BY <1>1, <1>5 DEF Goto, Jobs, cacheVars
  <2>2. \A j : Answered(j) => Answered(j)'
    BY <1>5, <2>1 DEF Answered
  <2>3. AnsweredForInv'
    BY <1>1, <1>2, <1>3, <2>1, <2>2
    DEF AnsweredForInv, At, Seeking, SavingWeather, FromJoinWaves, FromSaveWaves, FromJoinCurrent,
        FromSaveCurrent
  <2>. QED  BY <2>1, <2>3 DEF TouchedInv, TouchedKeysInv, AcceptableInv, NoneOf
<1>. QED  BY <1>4, <1>5 DEF Complete

(* The steps that do not look at the cache.                                *)
LEMMA RestKeepsTouched ==
  ASSUME FlowInv, TouchedInv,
         GenerateWeather \/ AwaitWeather \/ AwaitPair \/ JoinWaves \/ JoinCurrent \/ Merge \/ Leave
  PROVE  TouchedInv'
<1>1. /\ UNCHANGED <<data, meta, touched>> /\ req' = req /\ job \in Jobs
      /\ tasks \in [StageNames -> {"unborn", "running", "ok", "invalid", "error"}]
  BY DEF GenerateWeather, AwaitWeather, AwaitPair, JoinWaves, JoinCurrent, Merge, Leave, Join,
         Skip, cacheVars, jobVars, FlowInv, PlacesInv
<1>2. /\ job'.restored = job.restored
      /\ \/ job'.pc = job.pc \/ <<job.pc, job'.pc>> \in Moves
         \/ job.pc # "complete" /\ job'.pc \in {"unwind", "failed"}
      /\ job.pc \notin {"restoreWaves", "restoreCurrent", "restoreWeather"}
  <2>1. CASE GenerateWeather
    BY <1>1, <2>1 DEF GenerateWeather, Goto, At, Jobs, Moves
  <2>2. CASE AwaitWeather
    BY <1>1, <2>2 DEF AwaitWeather, At, Jobs, Moves
  <2>3. CASE AwaitPair
    <3>1. tasks["weather"] \in {"ok", "invalid", "error"} /\ tasks["waves"] \in {"ok", "invalid", "error"}
      BY <1>1, <2>3 DEF AwaitPair, FlowInv, PcInv, Pair, StageNames, At
    <3>. QED  BY <1>1, <2>3, <3>1 DEF AwaitPair, Goto, At, Jobs, Moves
  <2>4. CASE JoinWaves
    BY <1>1, <2>4 DEF JoinWaves, Join, Skip, Goto, At, Jobs, Moves
  <2>5. CASE JoinCurrent
    BY <1>1, <2>5 DEF JoinCurrent, Join, Skip, Goto, At, Jobs, Moves
  <2>6. CASE Merge
    BY <1>1, <2>6 DEF Merge, Goto, At, Jobs, Moves
  <2>7. CASE Leave
    BY <1>1, <2>7 DEF Leave, Goto, At, Jobs, Moves
  <2>. QED  BY <2>1, <2>2, <2>3, <2>4, <2>5, <2>6, <2>7
<1>3. <<job.pc, job'.pc>> \notin Misses
  BY <1>2 DEF Misses
<1>. QED  BY <1>1, <1>2, <1>3, QuietKeepsTouched

LEMMA FreshKeepsTouched ==
  ASSUME CacheCrash, job'.pc \in {"restoreWaves", "crashed"}
  PROVE  TouchedInv'
<1>1. touched' = {}
  BY DEF CacheCrash
<1>2. AnsweredForInv'
  BY DEF AnsweredForInv, Seeking, SavingWeather, FromJoinWaves, FromSaveWaves, FromJoinCurrent,
         FromSaveCurrent
<1>. QED  BY <1>1, <1>2 DEF TouchedInv, TouchedKeysInv, AcceptableInv, NoneOf

LEMMA NextKeepsTouched ==
  ASSUME FlowInv, TouchedInv, [Next]_vars
  PROVE  TouchedInv'
<1>0. /\ At("saveWeather") => SavedStage = "weather" /\ SavedKey = WeatherKey
      /\ At("savePair") => SavedStage = "waves" /\ SavedKey = WaveKey(job.selected)
      /\ At("saveWaves") => SavedStage = "waves" /\ SavedKey = WaveKey(None)
      /\ At("saveCurrent") => SavedStage = "current" /\ SavedKey = CurrentKey
  BY DEF SavedStage, SavedKey, At
<1>1. CASE RestoreWaves \/ RestoreCurrent \/ RestoreWeather \/ RestorePair
  <2>1. UNCHANGED jobVars
    BY <1>1 DEF RestoreWaves, RestoreCurrent, RestoreWeather, RestorePair
  <2>. QED  BY <1>1, <2>1, LookupKeepsTouched
<1>2. CASE GenerateWeather \/ AwaitWeather \/ AwaitPair \/ JoinWaves \/ JoinCurrent \/ Merge \/ Leave
  BY <1>2, RestKeepsTouched
<1>3. CASE SaveWeather
  <2>. DEFINE after == IF Coupled THEN "savePair" ELSE "joinWaves"
  <2>1. /\ job.pc \in Saving /\ At("saveWeather") /\ <<job.pc, after>> \in Moves
        /\ Save("weather", WeatherKey, job.selected, after) /\ UNCHANGED jobVars
    BY <1>3 DEF SaveWeather, Saving, Moves, At
  <2>. HIDE DEF after
  <2>. QED  BY <1>0, <2>1, SaveKeepsTouched
<1>4. CASE SavePair
  <2>1. job.pc \in Saving /\ At("savePair") /\ <<job.pc, "joinWaves">> \in Moves
    BY <1>4 DEF SavePair, Saving, Moves, At
  <2>. QED  BY <1>0, <1>4, <2>1, SaveKeepsTouched DEF SavePair
<1>5. CASE SaveWaves
  <2>1. job.pc \in Saving /\ At("saveWaves") /\ <<job.pc, "joinCurrent">> \in Moves
    BY <1>5 DEF SaveWaves, Saving, Moves, At
  <2>. QED  BY <1>0, <1>5, <2>1, SaveKeepsTouched DEF SaveWaves
<1>6. CASE SaveCurrent
  <2>1. job.pc \in Saving /\ At("saveCurrent") /\ <<job.pc, "merge">> \in Moves
    BY <1>6 DEF SaveCurrent, Saving, Moves, At
  <2>. QED  BY <1>0, <1>6, <2>1, SaveKeepsTouched DEF SaveCurrent
<1>7. CASE Complete
  BY <1>7, CompleteKeepsTouched
<1>8. CASE (\E s \in StageNames : TaskEnds(s)) \/ UNCHANGED vars
  <2>1. UNCHANGED <<data, meta, touched>> /\ req' = req /\ job' = job
    BY <1>8 DEF TaskEnds, vars, cacheVars, jobVars
  <2>2. <<job.pc, job.pc>> \notin Misses
    BY DEF Misses
  <2>. QED  BY <2>1, <2>2, QuietKeepsTouched
<1>9. CASE StartJob
  BY <1>9, FreshKeepsTouched DEF StartJob, NewJob
<1>10. CASE Crash
  BY <1>10, FreshKeepsTouched DEF Crash, NewJob
<1>. QED  BY <1>1, <1>2, <1>3, <1>4, <1>5, <1>6, <1>7, <1>8, <1>9, <1>10 DEF Next, MainStep

(* A job answers for the pairs it restored or saved, and for none it would *)
(* not know of.                                                            *)
THEOREM TouchedHolds == Spec => []TouchedInv
<1>1. Init => TouchedInv
  BY DEF Init, CacheInit, NewJob, TouchedInv, TouchedKeysInv, NoneOf, AcceptableInv,
         AnsweredForInv, Seeking, SavingWeather, FromJoinWaves, FromSaveWaves, FromJoinCurrent,
         FromSaveCurrent
<1>2. FlowInv /\ TouchedInv /\ [Next]_vars => TouchedInv'
  BY NextKeepsTouched
<1>. QED  BY <1>1, <1>2, FlowHolds, PTL DEF Spec

(* A failed job leaves every pair it touched for the retry (but perhaps    *)
(* the coupled weather it was saving a second time), and a finished one    *)
(* leaves none that the next job for the same request would restore.       *)
THEOREM CheckpointsOutcome == Spec => []CheckpointsFollowOutcome
<1>1. FlowInv /\ TouchedInv => CheckpointsFollowOutcome
  <2>. SUFFICES ASSUME FlowInv, TouchedInv PROVE CheckpointsFollowOutcome
    OBVIOUS
  <2>1. At("failed") => \A k \in touched : Acceptable(k) \/ (Coupled /\ k = WeatherKey)
    BY DEF TouchedInv, AcceptableInv, At
  <2>2. ASSUME At("done")
        PROVE  /\ touched = {} /\ Answered(WeatherKey) /\ Answered(CurrentKey)
               /\ Coupled \/ Answered(WaveKey(None))
    BY <2>2 DEF TouchedInv, AnsweredForInv, At, FromJoinWaves, FromSaveWaves, FromJoinCurrent,
                FromSaveCurrent
  <2>3. At("done") => \A k \in {WeatherKey, CurrentKey} \cup
                                 (IF Coupled THEN {} ELSE {WaveKey(None)}) : ~Acceptable(k)
    BY <2>2 DEF Answered, Acceptable
  <2>. QED  BY <2>1, <2>3 DEF CheckpointsFollowOutcome
<1>. QED  BY <1>1, FlowHolds, TouchedHolds, PTL

-----------------------------------------------------------------------------
(* CyclesInv is kept by every step, where a scan tells cycles apart.       *)

(* An accepted pair's description is then of the cycle of its stream.      *)
LEMMA AcceptedCycle ==
  ASSUME ScansTellCyclesApart, FlowInv, NEW k, Acceptable(k)
  PROVE  meta[k].cycle = data[k].cycle
<1>1. CacheSound
  BY DEF FlowInv, StoreInv
<1>2. /\ meta[k] \in Metadata /\ meta[k].scan = ScanOf[meta[k].cycle]
      /\ data[k] \in Stream /\ meta[k].scan = ScanOf[data[k].cycle]
  BY <1>1 DEF CacheSound, Acceptable, StreamFits
<1>. QED  BY <1>2 DEF ScansTellCyclesApart, Metadata, Stream

(* A step that leaves the list, its files and the cycle alone.             *)
LEMMA SameListKeepsCycles ==
  ASSUME FlowInv, CyclesInv, req' = req, job'.streams = job.streams,
         job'.restored = job.restored, job'.selected = job.selected,
         job'.pc = "restorePair" => At("restorePair") /\ job'.candidate = job.candidate
                                    /\ files'["weather"] = files["weather"],
         \A t \in Listed : files'[t] = files[t]
  PROVE  CyclesInv'
<1>1. Wanted' = Wanted /\ Coupled' = Coupled /\ Listed' = Listed
  BY SameRequest DEF Listed
<1>2. job.streams \subseteq Listed
  BY DEF Listed
<1>. QED  BY <1>1, <1>2 DEF CyclesInv, At

LEMMA LookupKeepsCycles ==
  ASSUME ScansTellCyclesApart, FlowInv, CyclesInv, UNCHANGED jobVars,
         RestoreWaves \/ RestoreCurrent \/ RestoreWeather \/ RestorePair
  PROVE  CyclesInv'
<1>1. req' = req /\ job \in Jobs /\ files \in [StageNames -> Stream \cup {None}]
  BY DEF jobVars, FlowInv, PlacesInv
<1>2. Wanted' = Wanted /\ Coupled' = Coupled
  BY <1>1, SameRequest
<1>3. /\ job.pc \in Seeking /\ "weather" \notin Listed /\ (Coupled => "waves" \notin Listed)
      /\ job.streams \subseteq Listed /\ job.restored \subseteq Listed
  BY DEF RestoreWaves, RestoreCurrent, RestoreWeather, RestorePair, At, Seeking, FlowInv, ListInv,
         Listed
<1>4. ASSUME NEW place, place # "restorePair", Goto(place), files' = files
      PROVE  CyclesInv'
  BY <1>1, <1>4, SameListKeepsCycles DEF Goto, Jobs
<1>5. ASSUME files' = files, job' = job
      PROVE  CyclesInv'
  BY <1>1, <1>5, SameListKeepsCycles DEF At
<1>6. CASE RestoreWaves
  <2>1. CASE /\ ~Coupled /\ RestoreHit(WaveKey(None))
             /\ files' = [files EXCEPT !["waves"] = data[WaveKey(None)]]
             /\ job' = [job EXCEPT !.pc = "restoreCurrent", !.restored = @ \cup {"waves"},
                                   !.selected = meta[WaveKey(None)].cycle]
    <3>1. meta[WaveKey(None)].cycle = data[WaveKey(None)].cycle
      BY <2>1, AcceptedCycle DEF RestoreHit
    <3>2. /\ job'.pc = "restoreCurrent" /\ job'.streams = job.streams
          /\ job'.restored = job.restored \cup {"waves"}
          /\ job'.selected = data[WaveKey(None)].cycle
          /\ files'["waves"] = data[WaveKey(None)] /\ Listed' = Listed \cup {"waves"}
      BY <1>1, <2>1, <3>1 DEF Jobs, Listed, StageNames
    <3>. QED  BY <1>2, <1>3, <2>1, <3>2 DEF CyclesInv, At
  <2>. QED  BY <1>4, <1>5, <1>6, <2>1 DEF RestoreWaves, Restore, Skip, taskVars
<1>7. CASE RestoreCurrent
  <2>1. CASE /\ RestoreHit(CurrentKey)
             /\ files' = [files EXCEPT !["current"] = data[CurrentKey]]
             /\ job' = [job EXCEPT !.pc = "restoreWeather", !.restored = @ \cup {"current"}]
    <3>1. /\ job'.pc = "restoreWeather" /\ job'.streams = job.streams
          /\ job'.selected = job.selected /\ files'["waves"] = files["waves"]
          /\ "waves" \in Listed' <=> "waves" \in Listed
      BY <1>1, <2>1 DEF Jobs, Listed, StageNames
    <3>. QED  BY <1>2, <1>3, <2>1, <3>1 DEF CyclesInv, At
  <2>. QED  BY <1>4, <1>5, <1>7, <2>1 DEF RestoreCurrent, Restore, Skip, taskVars
<1>8. CASE RestoreWeather
  <2>1. CASE /\ RestoreHit(WeatherKey) /\ "weather" \in Wanted
             /\ files' = [files EXCEPT !["weather"] = data[WeatherKey]]
             /\ job' = IF Coupled
                       THEN [job EXCEPT !.pc = "restorePair", !.candidate = meta[WeatherKey].cycle]
                       ELSE [job EXCEPT !.pc = "joinWaves", !.restored = @ \cup {"weather"},
                                        !.streams = @ \cup {"weather"},
                                        !.selected = meta[WeatherKey].cycle]
    <3>1. meta[WeatherKey].cycle = data[WeatherKey].cycle
      BY <2>1, AcceptedCycle DEF RestoreHit
    <3>2. /\ files'["weather"] = data[WeatherKey]
          /\ Coupled => /\ job'.pc = "restorePair" /\ job'.streams = job.streams
                        /\ job'.candidate = data[WeatherKey].cycle
          /\ ~Coupled => job'.pc = "joinWaves" /\ job'.selected = data[WeatherKey].cycle
      BY <1>1, <2>1, <3>1 DEF Jobs, StageNames
    <3>3. data[WeatherKey] # None
      BY <2>1, RestoredIsMade DEF StageNames
    <3>. QED  BY <1>2, <1>3, <2>1, <3>2, <3>3 DEF CyclesInv, At
  <2>. QED  BY <1>4, <1>5, <1>8, <2>1 DEF RestoreWeather, Restore, Skip, taskVars
<1>9. CASE RestorePair
  <2>. DEFINE k == WaveKey(job.candidate)
  <2>1. CASE /\ RestoreHit(k)
             /\ files' = [files EXCEPT !["waves"] = data[k]]
             /\ job' = [job EXCEPT !.pc = "joinWaves", !.restored = @ \cup {"weather", "waves"},
                                   !.streams = @ \cup {"weather", "waves"},
                                   !.selected = job.candidate]
    <3>1. /\ At("restorePair") /\ Coupled /\ "weather" \in Wanted
          /\ job.candidate = files["weather"].cycle /\ files["weather"] # None
      BY <1>9, RequestIs DEF RestorePair, FlowInv, PlacesInv, PcInv, CyclesInv, At, Pair
    <3>2. job.candidate \in Cycles
      BY <3>1 DEF FlowInv, FilesInv, Makes, StageNames
    <3>3. data[k].cycle = job.candidate
      <4>1. CacheSound /\ k \in DOMAIN data
        BY <2>1 DEF FlowInv, StoreInv, RestoreHit, Acceptable
      <4>2. StreamFits(k, data[k])
        BY <4>1 DEF CacheSound
      <4>3. k[1] = "waves" /\ k[2] = "gfs_wave" /\ k[3] = job.candidate
        BY <3>1 DEF WaveKey, Coupled
      <4>4. k[3] # None
        BY <3>2, <4>3, CacheAssumption
      <4>. HIDE DEF k
      <4>. QED  BY <4>2, <4>3, <4>4 DEF StreamFits
    <3>4. /\ job'.pc = "joinWaves" /\ job'.selected = job.candidate
          /\ files'["weather"] = files["weather"] /\ files'["waves"] = data[k]
      BY <1>1, <2>1 DEF Jobs, StageNames
    <3>. HIDE DEF k
    <3>. QED  BY <1>2, <3>1, <3>3, <3>4 DEF CyclesInv, At
  <2>. QED  BY <1>4, <1>5, <1>9, <2>1 DEF RestorePair, Restore, taskVars
<1>. QED  BY <1>6, <1>7, <1>8, <1>9

LEMMA AwaitKeepsCycles ==
  ASSUME FlowInv, CyclesInv, FlowInv', AwaitWeather \/ AwaitPair
  PROVE  CyclesInv'
<1>1. /\ req' = req /\ job \in Jobs /\ "weather" \in Wanted
      /\ "weather" \notin Listed /\ (Coupled => "waves" \notin Listed)
  BY DEF AwaitWeather, AwaitPair, jobVars, FlowInv, PlacesInv, PcInv, ListInv, Seeking, At
<1>2. Wanted' = Wanted /\ Coupled' = Coupled
  BY <1>1, SameRequest
<1>3. CASE job'.pc = "saveWeather"
  <2>1. SelectedInv'
    BY DEF FlowInv
  <2>. QED  BY <1>1, <1>2, <1>3, <2>1 DEF SelectedInv, SavingWeather, CyclesInv, At
<1>4. CASE /\ job'.pc \in {"generateWeather", "unwind"} /\ job'.streams = job.streams
           /\ job'.restored = job.restored /\ job'.selected = job.selected
           /\ \A t \in Listed : files'[t] = files[t]
  BY <1>1, <1>4, SameListKeepsCycles
<1>5. CASE AwaitWeather
  <2>1. files' = files
    BY <1>5 DEF AwaitWeather, taskVars
  <2>. QED  BY <1>1, <1>3, <1>4, <1>5, <2>1 DEF AwaitWeather, Jobs
<1>6. CASE AwaitPair
  <2>1. tasks["weather"] \in {"ok", "invalid", "error"} /\ tasks["waves"] \in {"ok", "invalid", "error"}
    BY <1>6 DEF AwaitPair, FlowInv, PlacesInv, PcInv, Pair, StageNames, At
  <2>2. \A t \in Listed : t \in StageNames
    BY DEF FlowInv, FilesInv, Wanted
  <2>3. Coupled /\ files \in [StageNames -> Stream \cup {None}]
    BY <1>6 DEF AwaitPair, FlowInv, PcInv, PlacesInv, At
  <2>4. \/ job' = [job EXCEPT !.pc = "saveWeather", !.selected = job.candidate,
                              !.streams = @ \cup {"weather", "waves"}]
        \/ /\ job' = [job EXCEPT !.pc = "generateWeather", !.tried = @ \cup {job.candidate}]
           /\ files' = [files EXCEPT !["weather"] = None, !["waves"] = None]
        \/ job' = [job EXCEPT !.pc = "unwind"] /\ files' = files
    BY <1>6, <2>1 DEF AwaitPair, Goto
  <2>5. CASE job' = [job EXCEPT !.pc = "saveWeather", !.selected = job.candidate,
                                !.streams = @ \cup {"weather", "waves"}]
    BY <1>1, <1>3, <2>5 DEF Jobs
  <2>6. CASE /\ job' = [job EXCEPT !.pc = "generateWeather", !.tried = @ \cup {job.candidate}]
             /\ files' = [files EXCEPT !["weather"] = None, !["waves"] = None]
    BY <1>1, <1>4, <2>2, <2>3, <2>6 DEF Jobs
  <2>7. CASE job' = [job EXCEPT !.pc = "unwind"] /\ files' = files
    BY <1>1, <1>4, <2>7 DEF Jobs
  <2>. QED  BY <2>4, <2>5, <2>6, <2>7
<1>. QED  BY <1>5, <1>6

(* The first stream on the list gives the job its cycle.                   *)
LEMMA JoinKeepsCycles ==
  ASSUME FlowInv, CyclesInv, NEW s, NEW save, NEW after,
         \/ At("joinWaves") /\ s = "waves" /\ save = "saveWaves" /\ after = "joinCurrent"
         \/ At("joinCurrent") /\ s = "current" /\ save = "saveCurrent" /\ after = "merge",
         Join(s, save, after), UNCHANGED jobVars
  PROVE  CyclesInv'
<1>1. /\ req' = req /\ job \in Jobs /\ files' = files
      /\ "weather" \in Wanted => "weather" \in job.streams
      /\ Coupled => "waves" \in job.streams
  BY DEF Join, Skip, taskVars, jobVars, FlowInv, PlacesInv, ListInv, FromJoinWaves, FromSaveWaves,
         FromJoinCurrent, At
<1>2. Wanted' = Wanted /\ Coupled' = Coupled
  BY <1>1, SameRequest
<1>3. ASSUME NEW place \in {after, "unwind"}, job' = [job EXCEPT !.pc = place]
      PROVE  CyclesInv'
  <2>1. place # "restorePair"
    OBVIOUS
  <2>. QED  BY <1>1, <1>3, <2>1, SameListKeepsCycles DEF Jobs
<1>4. CASE job' = job
  BY <1>1, <1>4, SameListKeepsCycles DEF At
<1>5. CASE /\ s \in job.restored \ job.streams
           /\ job' = [job EXCEPT !.pc = after, !.streams = @ \cup {s}]
  <2>1. /\ job'.pc = after /\ job'.streams = job.streams \cup {s} /\ job'.selected = job.selected
        /\ Listed' = Listed /\ s # "weather" /\ (s = "waves" => ~Coupled)
    BY <1>1, <1>5 DEF Jobs, Listed
  <2>2. after # "restorePair"
    OBVIOUS
  <2>. QED  BY <1>1, <1>2, <2>1, <2>2 DEF CyclesInv, At
<1>6. CASE /\ s \in Wanted \ Listed /\ tasks[s] = "ok"
           /\ job' = [job EXCEPT !.pc = save, !.streams = @ \cup {s},
                                 !.selected = IF @ = None THEN files[s].cycle ELSE @]
  <2>1. files[s] # None /\ Makes(s, files[s])
    BY <1>6 DEF FlowInv, FilesInv, Wanted, At
  <2>2. /\ job'.pc = save /\ job'.streams = job.streams \cup {s} /\ Listed' = Listed \cup {s}
        /\ job'.selected = IF job.selected = None THEN files[s].cycle ELSE job.selected
        /\ save # "restorePair" /\ s # "weather" /\ (s = "waves" => ~Coupled)
    BY <1>1, <1>6 DEF Jobs, Listed
  <2>3. "weather" \in Wanted => job.selected \in Cycles
    <3>1. "weather" \in job.streams =>
            files["weather"] # None /\ Makes("weather", files["weather"])
      BY DEF FlowInv, FilesInv, Listed, StageNames
    <3>. QED  BY <1>1, <3>1 DEF CyclesInv, Makes
  <2>4. CASE s = "waves"
    <3>1. "weather" \notin Wanted => job'.selected = files["waves"].cycle
      BY <1>6, <2>2, <2>4 DEF CyclesInv
    <3>2. "weather" \in Wanted => job'.selected = job.selected
      BY <2>2, <2>3, CacheAssumption
    <3>3. "weather" \in job.streams => "weather" \in Wanted
      BY DEF FlowInv, FilesInv, Listed
    <3>. QED  BY <1>1, <1>2, <2>2, <2>4, <3>1, <3>2, <3>3 DEF CyclesInv, At
  <2>5. CASE s = "current"
    <3>1. job'.selected = job.selected
      BY <2>1, <2>2, <2>5 DEF Makes
    <3>. QED  BY <1>1, <1>2, <2>2, <2>5, <3>1 DEF CyclesInv, At
  <2>. QED  BY <2>4, <2>5
<1>. QED  BY <1>3, <1>4, <1>5, <1>6 DEF Join, Skip, Goto, Listed

LEMMA NextKeepsCycles ==
  ASSUME ScansTellCyclesApart, FlowInv, CyclesInv, FlowInv', [Next]_vars
  PROVE  CyclesInv'
<1>1. job \in Jobs
  BY DEF FlowInv, PlacesInv
<1>2. CASE RestoreWaves \/ RestoreCurrent \/ RestoreWeather \/ RestorePair
  <2>1. UNCHANGED jobVars
    BY <1>2 DEF RestoreWaves, RestoreCurrent, RestoreWeather, RestorePair
  <2>. QED  BY <1>2, <2>1, LookupKeepsCycles
<1>3. CASE AwaitWeather \/ AwaitPair
  BY <1>3, AwaitKeepsCycles
<1>4. CASE JoinWaves
  BY <1>4, JoinKeepsCycles DEF JoinWaves
<1>5. CASE JoinCurrent
  BY <1>5, JoinKeepsCycles DEF JoinCurrent
<1>6. CASE SaveWeather \/ SavePair \/ SaveWaves \/ SaveCurrent \/ Merge \/ Complete \/ Leave
           \/ GenerateWeather
  <2>1. /\ req' = req /\ files' = files /\ job'.streams = job.streams
        /\ job'.restored = job.restored /\ job'.selected = job.selected
        /\ job'.pc # "restorePair"
    <3>1. CASE SaveWeather \/ SavePair \/ SaveWaves \/ SaveCurrent
      BY <1>1, <3>1 DEF SaveWeather, SavePair, SaveWaves, SaveCurrent, Save, Goto, jobVars, taskVars,
                        At, Jobs
    <3>2. CASE Merge \/ Complete \/ Leave
      BY <1>1, <3>2 DEF Merge, Complete, Leave, Goto, jobVars, taskVars, At, Jobs
    <3>3. CASE GenerateWeather
      BY <1>1, <3>3 DEF GenerateWeather, Goto, jobVars, Jobs
    <3>. QED  BY <1>6, <3>1, <3>2, <3>3
  <2>. QED  BY <2>1, SameListKeepsCycles
<1>7. ASSUME NEW s \in StageNames, TaskEnds(s)
      PROVE  CyclesInv'
  <2>1. req' = req /\ job' = job /\ s \notin Listed /\ (At("restorePair") => s # "weather")
    BY <1>7 DEF TaskEnds, jobVars, FlowInv, PlacesInv, PcInv, FilesInv, At, Pair
  <2>2. \A t \in StageNames \ {s} : files'[t] = files[t]
    BY <1>7 DEF TaskEnds, FlowInv, PlacesInv
  <2>3. \A t \in Listed : t \in StageNames
    BY DEF FlowInv, FilesInv, Wanted
  <2>. QED  BY <2>1, <2>2, <2>3, SameListKeepsCycles DEF At, StageNames
<1>8. CASE UNCHANGED vars
  BY <1>8, SameListKeepsCycles DEF vars, jobVars, taskVars, At
<1>9. CASE StartJob \/ Crash
  <2>1. /\ job'.streams = {} /\ job'.restored = {} /\ job'.selected = None
        /\ job'.pc # "restorePair"
    <3>1. CASE StartJob
      BY <3>1 DEF StartJob, NewJob
    <3>2. CASE Crash
      BY <3>2 DEF Crash, NewJob
    <3>. QED  BY <1>9, <3>1, <3>2
  <2>2. /\ "weather" \notin job'.streams /\ "waves" \notin job'.streams
        /\ "waves" \notin Listed'
    BY <2>1 DEF Listed
  <2>3. job'.selected = None /\ ~At("restorePair")'
    BY <2>1 DEF At
  <2>. QED  BY <2>2, <2>3 DEF CyclesInv
<1>. QED  BY <1>2, <1>3, <1>4, <1>5, <1>6, <1>7, <1>8, <1>9 DEF Next, MainStep

(* The cycle the job goes by is that of what it merges, whichever streams  *)
(* were restored, provided a scan tells cycles apart.                      *)
THEOREM CyclesHold ==
  ASSUME ScansTellCyclesApart
  PROVE  Spec => []CyclesInv
<1>1. Init => CyclesInv
  BY DEF Init, NewJob, CyclesInv, Listed, At
<1>2. FlowInv /\ FlowInv' /\ CyclesInv /\ [Next]_vars => CyclesInv'
  BY NextKeepsCycles
<1>. QED  BY <1>1, <1>2, FlowHolds, PTL DEF Spec

(* Coupled atmosphere and waves in one output are of one cycle, provided a *)
(* scan tells cycles apart: a save that dies between its stream and its    *)
(* description may leave the description of another cycle beside it.       *)
THEOREM CoupledCyclesAgree ==
  ASSUME ScansTellCyclesApart
  PROVE  Spec => []CoupledCyclesMatch
<1>1. FlowInv /\ CyclesInv => CoupledCyclesMatch
  <2>. SUFFICES ASSUME FlowInv, CyclesInv, Published, Coupled
                PROVE  files["weather"].cycle = files["waves"].cycle
    BY DEF CoupledCyclesMatch
  <2>1. Pair \subseteq job.streams
    BY RequestIs DEF FlowInv, PlacesInv, ListInv, Published, At
  <2>. QED  BY <2>1 DEF CyclesInv, Pair
<1>. QED  BY <1>1, FlowHolds, CyclesHold, PTL

(* The weather in the output has the request's spacing, and the cycle the  *)
(* result reports is that of the leading stream, on the same proviso.      *)
THEOREM PublishedFits ==
  ASSUME ScansTellCyclesApart
  PROVE  Spec => []PublishedFitsRequest
<1>1. FlowInv /\ CyclesInv => PublishedFitsRequest
  <2>. SUFFICES ASSUME FlowInv, CyclesInv, Published PROVE PublishedFitsRequest
    BY DEF PublishedFitsRequest
  <2>1. job.streams = Wanted
    BY DEF FlowInv, ListInv, Published, At
  <2>2. "weather" \in Wanted => /\ files["weather"].spacing = req.spacing
                                /\ job.selected = files["weather"].cycle
    BY <2>1 DEF FlowInv, FilesInv, Listed, Makes, CyclesInv, StageNames
  <2>3. "weather" \notin Wanted /\ "waves" \in Wanted => job.selected = files["waves"].cycle
    BY <2>1 DEF CyclesInv, Listed
  <2>. QED  BY <2>2, <2>3 DEF PublishedFitsRequest
<1>. QED  BY <1>1, FlowHolds, CyclesHold, PTL

=============================================================================
