--------------------------- MODULE CycleSelection ---------------------------
(***************************************************************************)
(* How a weather provider turns a request into a file: GenerateGfs (also   *)
(* its wave form), GenerateDwdIconEu, GenerateHrrr, GenerateEcmwfOpenData  *)
(* (src/weather.cpp) and GenerateUkv (src/ukv.cpp).  Each tries the model  *)
(* cycles newest first, downloads every forecast hour of one cycle with    *)
(* ParallelMapOrdered, writes a temporary beside the output, checks it and *)
(* renames it, while the service is still publishing the newest cycles.    *)
(*                                                                         *)
(* The batch follows the contract of ParallelMap: items are claimed in     *)
(* order, and no call runs on when the batch ends.                         *)
(* One item stands for all fields of a forecast hour; cycle 1 is newest.   *)
(***************************************************************************)
EXTENDS Integers, Sequences, FiniteSets

CONSTANTS
  Cycles,     \* number of candidate cycles, max_auto_cycles
  Hours,      \* number of forecast hours; hour Hours is hours.back()
  Workers,    \* kDefaultDownloadConcurrency
  Providers,  \* the providers to study, among AllProviders
  MaxNetworkFaults,   \* bound: published hours that fail to download
  MaxDiskFaults       \* bound: file operations that fail

AllProviders == {"gfs", "gfs_wave", "dwd_icon_eu", "noaa_hrrr", "ecmwf_open", "ukmo_ukv"}

ASSUME CyclesAssumption == /\ Cycles \in Nat \ {0}
                           /\ Hours \in Nat \ {0}
                           /\ Workers \in Nat \ {0}
                           /\ Providers \subseteq AllProviders
                           /\ MaxNetworkFaults \in Nat
                           /\ MaxDiskFaults \in Nat

Probes == {"gfs", "gfs_wave"}            \* the furthest hour comes first
Repacks == {"dwd_icon_eu", "ecmwf_open"} \* a second temporary, simply packed
ChecksWrites == {"gfs", "gfs_wave", "ukmo_ukv"}
RefusesToOverwrite == AllProviders \ {"noaa_hrrr"}

NoFile == [cut |-> TRUE, parts |-> <<>>, whose |-> "nobody"]
OldFile == [NoFile EXCEPT !.whose = "before"]
File(parts, cut) == [cut |-> cut, parts |-> parts, whose |-> "call"]
Unread == [cycle |-> 0]

VARIABLES
  request,   \* provider, auto, overwrite, dry_run
  reach,     \* reach[c]: hours of cycle c the service has published
  pc,        \* where the call is
  cycle,     \* the candidate being tried
  via,       \* "filter", or "indexed" after the wave fallback
  claimed,   \* hours the batch has claimed
  running,   \* downloads under way
  got,       \* got[h]: the bytes of hour h, for UKV the file of hour h
  failed,    \* the error the batch keeps: "none", "validation" or "other"
  out, temporary, simple,   \* the output and the two temporaries
  result,    \* "none" until the call returns ("ok") or throws ("error")
  faults,    \* faults so far
  sent,      \* history: hours requested of each cycle on each path
  start      \* history: out and reach when the call began

batch == <<cycle, via, claimed, running, got, failed, sent>>
files == <<out, temporary, simple>>
vars == <<request, reach, pc, batch, files, result, faults, start>>

Paths == {"filter", "indexed"}
Nothing == [h \in 1 .. Hours |-> Unread]
IsUkv == request.provider = "ukmo_ukv"
FirstStage == IF request.provider \in Probes THEN "probe" ELSE "batch"
NetworkFault == /\ faults.network < MaxNetworkFaults
                /\ faults' = [faults EXCEPT !.network = @ + 1]
DiskFault == /\ faults.disk < MaxDiskFaults
             /\ faults' = [faults EXCEPT !.disk = @ + 1]

Init == /\ request \in [provider : Providers, auto : BOOLEAN,
                        overwrite : BOOLEAN, dry_run : BOOLEAN]
        /\ reach \in [1 .. Cycles -> 0 .. Hours]
        /\ out \in {NoFile, OldFile} /\ temporary = NoFile /\ simple = NoFile
        /\ pc = "begin" /\ cycle = 1 /\ via = "filter"
        /\ claimed = {} /\ running = {} /\ got = Nothing /\ failed = "none"
        /\ result = "none" /\ faults = [network |-> 0, disk |-> 0]
        /\ sent = [c \in 1 .. Cycles |-> [p \in Paths |-> {}]]
        /\ start = [out |-> out, reach |-> reach]
-----------------------------------------------------------------------------
(* The service publishes one more hour of a cycle.                         *)
Publish(c) == /\ pc # "done" /\ reach[c] < Hours
              /\ reach' = [reach EXCEPT ![c] = @ + 1]
              /\ UNCHANGED <<request, pc, batch, files, result, faults, start>>

Stop(how) == pc' = "done" /\ result' = how

(* UKV checks the output before it looks at dry_run, HRRR never checks it. *)
Refused == /\ request.provider \in RefusesToOverwrite
           /\ out # NoFile /\ ~request.overwrite
           /\ request.dry_run => IsUkv

Begin == /\ pc = "begin"
         /\ IF Refused THEN Stop("error")
            ELSE IF request.dry_run THEN Stop("ok")
            ELSE pc' = FirstStage /\ UNCHANGED result
         /\ UNCHANGED <<request, reach, batch, files, faults, start>>
-----------------------------------------------------------------------------
(* Mutant: probe the nearest hour.                                         *)
NearestItems == IF pc = "probe" THEN {1}
                ELSE IF FirstStage = "probe" THEN 2 .. Hours
                ELSE 1 .. Hours

Items == IF pc = "probe" THEN {Hours}
         ELSE IF FirstStage = "probe" THEN 1 .. Hours - 1
         ELSE 1 .. Hours

InBatch == pc \in {"probe", "batch"}

(* A worker that has not seen the stop flag yet may claim after an error   *)
(* was kept; the worker whose call threw claims no more.                   *)
Claim(h) == /\ InBatch
            /\ Cardinality(running) < IF failed = "none" THEN Workers ELSE Workers - 1
            /\ h \in Items \ claimed
            /\ \A k \in Items \ claimed : h <= k
            /\ claimed' = claimed \union {h}
            /\ running' = running \union {[cycle |-> cycle, hour |-> h, via |-> via]}
            /\ sent' = [sent EXCEPT ![cycle][via] = @ \union {h}]
            /\ UNCHANGED <<request, reach, pc, cycle, via, got, failed, files,
                           result, faults, start>>

(* What the download functions accept.  An unpublished hour, a refusal, an *)
(* exhausted retry and a body that is no GRIB stream are all a             *)
(* ValidationError; UKV sees a bad NetCDF file only when it converts it.   *)
Store(d, intact) ==
  got' = [got EXCEPT ![d.hour] = [cycle |-> d.cycle, via |-> d.via, intact |-> intact]]

Download(d) ==
  /\ d \in running
  /\ running' = running \ {d}
  /\ \/ /\ d.hour <= reach[d.cycle]
        /\ \/ Store(d, TRUE) /\ UNCHANGED faults
           \/ Store(d, FALSE) /\ IsUkv /\ NetworkFault
        /\ UNCHANGED failed
     \/ /\ \E error \in {"validation", "other"} :
             /\ failed' = IF failed = "none" THEN error ELSE failed
             /\ \/ error = "validation" /\ d.hour > reach[d.cycle] /\ UNCHANGED faults
                \/ (error = "other" \/ d.hour <= reach[d.cycle]) /\ NetworkFault
        /\ UNCHANGED got
  /\ UNCHANGED <<request, reach, pc, cycle, via, claimed, files, result, sent, start>>

BatchSucceeds ==
  /\ InBatch /\ failed = "none" /\ running = {} /\ claimed = Items
  /\ pc' = IF pc = "probe" /\ Hours > 1 THEN "batch" ELSE "prepare"
  /\ claimed' = {}
  /\ UNCHANGED <<request, reach, cycle, via, running, got, failed, files,
                 result, faults, sent, start>>

(* Mutant: the map throws while other downloads are still running.         *)
EndedEarly == failed # "none"

BatchEnded == failed # "none" /\ running = {}

(* Waves fetch the global file by its index when the subset failed.        *)
FallsBack == request.provider = "gfs_wave" /\ via = "filter" /\ failed = "validation"

(* Mutant: the fallback does not remember that it was taken.               *)
TryIndexedAgain == /\ InBatch /\ BatchEnded /\ FallsBack
                   /\ pc' = "probe"
                   /\ claimed' = {} /\ got' = Nothing /\ failed' = "none"
                   /\ UNCHANGED <<request, reach, cycle, via, running, files,
                                  result, faults, sent, start>>

(* Mutant: what the subset had delivered is kept for the indexed path.     *)
TryIndexedForRest == /\ InBatch /\ BatchEnded /\ FallsBack
                     /\ via' = "indexed" /\ pc' = pc /\ failed' = "none"
                     /\ claimed' = {h \in Items : got[h] # Unread}
                     /\ UNCHANGED <<request, reach, cycle, running, got, files,
                                    result, faults, sent, start>>

TryIndexed == /\ InBatch /\ BatchEnded /\ FallsBack
              /\ via' = "indexed" /\ pc' = "probe"
              /\ claimed' = {} /\ got' = Nothing /\ failed' = "none"
              /\ UNCHANGED <<request, reach, cycle, running, files, result,
                             faults, sent, start>>

(* Mutant: the oldest candidate is never tried.                            *)
GivesUpOneShort == \/ ~request.auto \/ cycle + 1 >= Cycles
                   \/ failed = "other" /\ ~IsUkv

(* UKV moves on after any error, the others after a ValidationError only.  *)
GivesUp == \/ ~request.auto \/ cycle = Cycles
           \/ failed = "other" /\ ~IsUkv

(* UKV also deletes its source files, whose names do not tell the cycle.   *)
NextCandidate ==
  /\ InBatch /\ BatchEnded /\ ~FallsBack
  /\ got' = Nothing
  /\ IF GivesUp
     THEN Stop("error") /\ UNCHANGED <<cycle, via, claimed, failed>>
     ELSE /\ pc' = FirstStage /\ cycle' = cycle + 1 /\ via' = "filter"
          /\ claimed' = {} /\ failed' = "none" /\ UNCHANGED result
  /\ UNCHANGED <<request, reach, running, files, faults, sent, start>>
-----------------------------------------------------------------------------
(* Mutant: only the first temporary is deleted.                            *)
CleansUpFirst == temporary' = NoFile /\ simple' = simple /\ got' = Nothing

(* The catch (...) of the writing part: temporaries and, for UKV, source   *)
(* files are deleted before the error goes on.                             *)
CleansUp == temporary' = NoFile /\ simple' = NoFile /\ got' = Nothing

Fails == Stop("error") /\ CleansUp /\ UNCHANGED out

stable == <<request, reach, cycle, via, claimed, running, failed, sent, start>>

(* create_directories throws outside that catch: UKV leaves its sources.   *)
Prepare == /\ pc = "prepare"
           /\ \/ pc' = "write" /\ UNCHANGED <<result, got, faults>>
              \/ /\ DiskFault /\ Stop("error")
                 /\ got' = IF IsUkv THEN got ELSE Nothing
           /\ UNCHANGED <<files, stable>>

Segments == [h \in 1 .. Hours |-> [hour |-> h, bytes |-> got[h]]]
Readable == \A h \in 1 .. Hours : got[h].intact

(* A write cut short, after some whole segments and perhaps inside the     *)
(* next, is noticed only by a provider that looks, and not even by that    *)
(* one while the bytes wait in the stream's buffer to be closed.           *)
Write ==
  /\ pc = "write"
  /\ \/ Readable /\ temporary' = File(Segments, FALSE) /\ UNCHANGED faults
     \/ Readable /\ DiskFault /\ \E n \in 0 .. Hours - 1, cut \in BOOLEAN :
          temporary' = File(SubSeq(Segments, 1, n), cut)
  /\ pc' = IF request.provider \in Repacks THEN "repack" ELSE "verify"
  /\ UNCHANGED <<out, simple, result, got, stable>>

WriteFails == /\ pc = "write"
              /\ \/ ~Readable /\ UNCHANGED faults
                 \/ request.provider \in ChecksWrites /\ DiskFault
              /\ Fails
              /\ UNCHANGED stable

(* ecCodes reports a cut last message together with the end of the file,   *)
(* which RepackGrib2ToSimplePacking takes for the end: the tail is dropped *)
(* and only a file without any whole message is refused.                   *)
Repack == /\ pc = "repack"
          /\ \/ /\ temporary.parts # <<>>
                /\ simple' = File(temporary.parts, FALSE) /\ pc' = "verify"
                /\ UNCHANGED <<out, temporary, result, got, faults>>
             \/ temporary.parts = <<>> /\ Fails /\ UNCHANGED faults
             \/ DiskFault /\ Fails
          /\ UNCHANGED stable

Staged == IF request.provider \in Repacks THEN simple ELSE temporary

(* ScanGribMessages accepts a stream of no messages; only UKV knows how    *)
(* many there should be.                                                   *)
Accepted == /\ ~Staged.cut
            /\ IsUkv => Len(Staged.parts) = Hours

Verify == /\ pc = "verify"
          /\ \/ /\ Accepted
                /\ pc' = IF IsUkv THEN "replace" ELSE "rename"
                /\ UNCHANGED <<files, result, got, faults>>
             \/ ~Accepted /\ Fails /\ UNCHANGED faults
             \/ DiskFault /\ Fails
          /\ UNCHANGED stable

(* UKV removes the old output before it installs the new one.              *)
RemoveOld == /\ pc = "replace"
             /\ \/ /\ pc' = "rename" /\ out' = NoFile
                   /\ UNCHANGED <<temporary, simple, result, got, faults>>
                \/ out # NoFile /\ DiskFault /\ Fails
             /\ UNCHANGED stable

Rename == /\ pc = "rename"
          /\ \/ /\ out' = Staged /\ CleansUp /\ UNCHANGED faults
                /\ IF IsUkv THEN pc' = "inspect" /\ UNCHANGED result ELSE Stop("ok")
             \/ DiskFault /\ Fails
          /\ UNCHANGED stable

(* UKV inspects what it has installed, outside any catch.                  *)
Inspect == /\ pc = "inspect"
           /\ \/ Stop("ok") /\ UNCHANGED faults
              \/ Stop("error") /\ DiskFault
           /\ UNCHANGED <<files, got, stable>>
-----------------------------------------------------------------------------
Step == \/ Begin \/ (\E h \in 1 .. Hours : Claim(h)) \/ (\E d \in running : Download(d))
        \/ BatchSucceeds \/ TryIndexed \/ NextCandidate
        \/ Prepare \/ Write \/ WriteFails \/ Repack \/ Verify
        \/ RemoveOld \/ Rename \/ Inspect

Next == Step \/ \E c \in 1 .. Cycles : Publish(c)

Spec == Init /\ [][Next]_vars

(* A call runs to its end: every request has a timeout and a bound on its  *)
(* retries.  Nothing is assumed of the service.                            *)
FairSpec == Spec /\ WF_vars(Step)
-----------------------------------------------------------------------------
Bytes == {Unread} \union [cycle : 1 .. Cycles, via : Paths, intact : BOOLEAN]
FilesOf(whose) == [cut : BOOLEAN, parts : Seq([hour : 1 .. Hours, bytes : Bytes]),
                   whose : whose]

(* Types.  What is running was claimed and belongs to this candidate.      *)
TypeOK ==
  /\ request \in [provider : Providers, auto : BOOLEAN,
                  overwrite : BOOLEAN, dry_run : BOOLEAN]
  /\ reach \in [1 .. Cycles -> 0 .. Hours]
  /\ pc \in {"begin", "probe", "batch", "prepare", "write", "repack", "verify",
             "replace", "rename", "inspect", "done"}
  /\ cycle \in 1 .. Cycles /\ via \in Paths
  /\ claimed \subseteq 1 .. Hours
  /\ \A d \in running : d.hour \in claimed /\ d.cycle = cycle /\ d.via = via
  /\ Cardinality(running) <= Workers
  /\ got \in [1 .. Hours -> Bytes]
  /\ failed \in {"none", "validation", "other"}
  /\ out \in FilesOf({"nobody", "before", "call"})
  /\ {temporary, simple} \subseteq FilesOf({"nobody", "call"})
  /\ result \in {"none", "ok", "error"} /\ (result # "none" <=> pc = "done")

(* What replaces the output comes from one cycle and one download path,    *)
(* hour after hour, whatever candidates and paths were tried before; and   *)
(* no hour is missing unless a short write went unnoticed, which the       *)
(* message count of UKV rules out.                                         *)
PublishedWhole ==
  out.whose = "call" =>
    /\ \A i \in DOMAIN out.parts :
         /\ out.parts[i].hour = i
         /\ out.parts[i].bytes = [cycle |-> cycle, via |-> via, intact |-> TRUE]
    /\ ~out.cut
    /\ (faults.disk = 0 \/ IsUkv) => Len(out.parts) = Hours

(* When nothing fails, a cycle that was complete when the call began is    *)
(* used unless a newer one could be: neither skipped nor given up on.      *)
NewestUsableCycle ==
  /\ pc = "done" /\ request.auto /\ ~request.dry_run
  /\ faults = [network |-> 0, disk |-> 0]
  /\ (start.out = NoFile \/ request.overwrite)
  => \A c \in 1 .. Cycles :
       start.reach[c] = Hours => result = "ok" /\ cycle <= c

(* "A publishing cycle which cannot cover the requested window is rejected *)
(* with one request instead of a burst" (src/weather.cpp:782-784), one on  *)
(* each path, however far the service gets meanwhile.                      *)
OneRequestPerShortCycle ==
  request.provider \in Probes =>
    \A c \in 1 .. Cycles : reach[c] < Hours =>
      \A p \in Paths : Cardinality(sent[c][p]) <= 1

(* A call that throws leaves the output as it was and no temporary behind. *)
(* UKV does so unless the disk failed it: then the old output may be gone, *)
(* the new one installed, or its source files left in the temp directory.  *)
FailureLeavesNoTrace ==
  result = "error" =>
    /\ temporary = NoFile /\ simple = NoFile
    /\ (out = start.out /\ got = Nothing) \/ (IsUkv /\ faults.disk > 0)

(* ARCHITECTURE.md:25-26 promises that "incomplete streams are errors      *)
(* rather than approximate output".                                        *)
IncompleteStreamsAreErrors ==
  result = "ok" /\ out.whose = "call" => Len(out.parts) = Hours

(* The call returns or throws: candidates and fallbacks run out.           *)
CallEnds == <>(pc = "done")
=============================================================================
