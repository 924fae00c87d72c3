----------------------------- MODULE ResumeCache -----------------------------
(***************************************************************************)
(* The checkpoint store of src/environment.cpp (class ResumeCache): one    *)
(* pair of files per stage and fingerprint, stage-hash.grb (the stream)    *)
(* and stage-hash.json (its description), in a directory beside the output *)
(* that outlives the process.  A fingerprint is the tuple of the request   *)
(* fields it hashes; bounding box, start, hours and output path are the    *)
(* same for every request of a model and are left out.                     *)
(*                                                                         *)
(* Every step that changes a file is an action of its own, so a crash can  *)
(* fall between any two of them.  An expired or unreadable pair is a       *)
(* nondeterministic refusal: no clock is kept.                             *)
(***************************************************************************)
EXTENDS Naturals, Sequences, FiniteSets, Functions

CONSTANTS
  Cycles,     \* forecast cycles a provider may select
  Spacings,   \* values of weather_grid_spacing_deg
  None,       \* no cycle, no spacing
  ScanOf,     \* ScanOf[c]: message and byte count of a stream of cycle c
  SaveMayFail \* whether a step of Save may throw (disk full, permissions)

ASSUME CacheAssumption == /\ None \notin Cycles \cup Spacings
                          /\ DOMAIN ScanOf = Cycles \cup {None}
                          /\ SaveMayFail \in BOOLEAN

(* What a stream is made of, as far as the cache can confuse two of them.  *)
Stream == [cycle : Cycles \cup {None}, spacing : Spacings \cup {None}]

(* The marker for a missing cycle or stream is no stream.                  *)
ASSUME NoneAssumption == None \notin Stream

Metadata == [cycle : Cycles \cup {None}, scan : {ScanOf[c] : c \in DOMAIN ScanOf}]

(* Paths: stage and fingerprint name the pair.                             *)
Keys == {"weather", "waves", "current"}
          \X {"gfs", "ukmo_ukv", "gfs_wave", "copernicus", "marine_ie"}
          \X (Cycles \cup Spacings \cup {None})

VARIABLES
  data,      \* the .grb files there are, by key
  meta,      \* the .json files there are, by key
  touched,   \* the pairs this process restored or saved (lost in a crash)
  step       \* the file operation Save does next (lost in a crash)

cacheVars == <<data, meta, touched, step>>

CacheInit == /\ data = <<>>
             /\ meta = <<>>
             /\ touched = {}
             /\ step = "copy"

CacheTypeOK == /\ DOMAIN data \subseteq Keys /\ Range(data) \subseteq Stream
               /\ DOMAIN meta \subseteq Keys /\ Range(meta) \subseteq Metadata
               /\ touched \subseteq Keys
               /\ step \in {"copy", "publish", "describe", "publishMeta"}

(* The removal and the (re)placement of one file.                          *)
Without(files, k) == Restrict(files, DOMAIN files \ {k})
With(files, k, content) ==
  [j \in DOMAIN files \cup {k} |-> IF j = k THEN content ELSE files[j]]
-----------------------------------------------------------------------------
Absent(k) == k \notin DOMAIN data /\ k \notin DOMAIN meta

(* Restore believes a pair when both files are there and a scan of the     *)
(* stream finds the counts the description gives.                          *)
Acceptable(k) == /\ k \in DOMAIN data /\ k \in DOMAIN meta
                 /\ meta[k].scan = ScanOf[data[k].cycle]

RestoreHit(k) == /\ Acceptable(k)
                 /\ touched' = touched \cup {k}
                 /\ UNCHANGED <<data, meta, step>>

(* RemoveFiles, one file per step: the stream first.  Any pair may be      *)
(* refused (it is too old, or reading it throws); a half pair or one whose *)
(* counts differ is never accepted, and so ends here.  The code ignores    *)
(* the error of a removal that fails; here removals succeed.               *)
RemoveOne(k) == /\ ~Absent(k)
                /\ IF k \in DOMAIN data
                   THEN data' = Without(data, k) /\ UNCHANGED meta
                   ELSE meta' = Without(meta, k) /\ UNCHANGED data

RestoreRefuse(k) == RemoveOne(k) /\ UNCHANGED <<touched, step>>

(* Save, one visible file operation per step: copy the stream to a         *)
(* temporary and remove the old one; rename; write the description to a    *)
(* temporary and remove the old one; rename.                               *)
SaveCopy(k) == /\ step = "copy"
               /\ data' = Without(data, k)
               /\ step' = "publish"
               /\ UNCHANGED <<meta, touched>>

SavePublish(k, stream) == /\ step = "publish"
                          /\ data' = With(data, k, stream)
                          /\ step' = "describe"
                          /\ UNCHANGED <<meta, touched>>

SaveDescribe(k) == /\ step = "describe"
                   /\ meta' = Without(meta, k)
                   /\ step' = "publishMeta"
                   /\ UNCHANGED <<data, touched>>

SavePublishMeta(k, stream, cycle) ==
  /\ step = "publishMeta"
  /\ meta' = With(meta, k, [cycle |-> cycle, scan |-> ScanOf[stream.cycle]])
  /\ touched' = touched \cup {k}
  /\ step' = "copy"
  /\ UNCHANGED data

(* A step threw: the temporary is removed and generation goes on.          *)
SaveGivesUp == /\ SaveMayFail
               /\ step' = "copy"
               /\ UNCHANGED <<data, meta, touched>>

(* Complete, one file per step, and forget the pair.                       *)
CompleteOne(k) == /\ k \in touched
                  /\ IF Absent(k) THEN UNCHANGED <<data, meta>> ELSE RemoveOne(k)
                  /\ touched' = IF k \in DOMAIN data /\ k \in DOMAIN meta
                                THEN touched ELSE touched \ {k}
                  /\ UNCHANGED step

(* The process is gone: only the files are left.                           *)
CacheCrash == /\ touched' = {}
              /\ step' = "copy"
              /\ UNCHANGED <<data, meta>>
=============================================================================
