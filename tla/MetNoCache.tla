---------------------------- MODULE MetNoCache ----------------------------
(* MET Norway forecasts and the cache directory helper processes share     *)
(* (metno.cpp).  A call reads the latest run of one remote dataset, either *)
(* copies the forecast a cache entry holds or streams it in batches of     *)
(* hours to a temporary, and then saves what it made.  An entry is a data  *)
(* file and a metadata file, which are read, replaced, discarded and       *)
(* pruned one after the other, without a lock between processes.  A call   *)
(* has an output of its own; it is one step per file operation.            *)
EXTENDS Integers, Sequences, FiniteSets, SequencesExt

CONSTANTS
  Processes,     \* helper processes; within one, NetcdfApiMutex orders the calls
  Requests,      \* [preset, hours, step, overwrite, dry_run, cached]
  Leads,         \* Leads[run]: the forecast hours the dataset offers of a run
  HashOf,        \* the name FingerprintHash gives the entry of a fingerprint
  TimeBatchSize, \* kTimeBatchSize
  MaxCalls,      \* bounds the calls of a behaviour
  MaxFaults      \* bounds faults, damaged files, kills and eight-hour waits

ASSUME BoundsAssumption ==
  TimeBatchSize \in Nat \ {0} /\ MaxCalls \in Nat /\ MaxFaults \in Nat

(* GenerateMetNoNordic refuses other presets, and MetNoForecastHours other *)
(* steps and hours; a remote dataset holds some run when a call opens it.  *)
ASSUME RequestsAssumption ==
  /\ Requests \subseteq [preset : {"minimal", "routing", "marine", "all"}, hours : Nat,
                         step : Nat \ {0}, overwrite : BOOLEAN, dry_run : BOOLEAN,
                         cached : BOOLEAN]
  /\ Requests # {} /\ Leads \in Seq(SUBSET Nat) /\ Leads # <<>>

VARIABLES
  latest,    \* the run the dataset holds now
  data,      \* data[e]: the .grb2 file of an entry
  meta,      \* meta[e]: the .json file of an entry
  old,       \* the files of the directory written more than eight hours ago
  pc, request,
  reference, \* the run the call has read
  seen,      \* the metadata a call compares with, or is about to write
  streamed,  \* the hours and messages written so far, batch_begin and output_field_count
  temporary, \* the temporary that becomes the output
  via,       \* whether that comes from the cache or from the source
  out,       \* the file at request.output
  victim,    \* a file whose age was read, to be removed
  result,
  calls, faults

files == <<data, meta, old>>
asked == <<request, reference>>
work == <<seen, streamed, temporary, via>>
ends == <<victim, result>>
bounds == <<calls, faults>>
locals == <<pc, asked, work, out, ends>>
vars == <<latest, files, locals, bounds>>

Runs == DOMAIN Leads
Entries == {HashOf[f] : f \in DOMAIN HashOf}
NoFile == [messages |-> <<>>, cut |-> FALSE, run |-> 0]
OldFile == [messages |-> <<>>, cut |-> FALSE, run |-> -1]
NoMeta == [key |-> <<>>, count |-> 0, bytes |-> 0]
NoVictim == <<>>
NoneStreamed == [hours |-> 0, messages |-> 0]

---------------------------------------------------------------------------
(* What a request asks for.                                                *)

MetNoForecastHours(r) == [i \in 1 .. r.hours \div r.step + 1 |-> (i - 1) * r.step]
HoursOf(r) == ToSet(MetNoForecastHours(r))

(* The fields append adds for one hour, in its order.                      *)
FieldsAt(r, hour) ==
  <<"10u", "10v">>
  \o (IF r.preset # "minimal" THEN <<"prmsl", "2t">> ELSE <<>>)
  \o (IF r.preset \in {"marine", "all"}
      THEN <<"gust", "tcc">> \o (IF hour > 0 THEN <<"tp">> ELSE <<>>) ELSE <<>>)
  \o (IF r.preset = "all" THEN <<"r">> ELSE <<>>)

MessagesAt(r, hour) == [i \in DOMAIN FieldsAt(r, hour) |-> <<hour, FieldsAt(r, hour)[i]>>]

(* The chunk of the batch of hours that follows the first `done` ones.     *)
Chunk(r, done) ==
  LET hours == MetNoForecastHours(r)
      upTo  == IF done + TimeBatchSize < Len(hours) THEN done + TimeBatchSize ELSE Len(hours)
  IN  FlattenSeq([i \in 1 .. upTo - done |-> MessagesAt(r, hours[done + i])])

(* Mutant: precipitation is counted at the analysis hour too.              *)
CountsEveryHour(hours, preset) ==
  LET n == Len(hours)
  IN  2 * n + (IF preset # "minimal" THEN 2 * n ELSE 0)
      + (IF preset \in {"marine", "all"} THEN 3 * n ELSE 0) + (IF preset = "all" THEN n ELSE 0)

(* How many messages a cached forecast must have.                          *)
ExpectedMessageCount(hours, preset) ==
  LET n      == Len(hours)
      later  == Cardinality(ToSet(hours) \ {0})
      marine == preset \in {"marine", "all"}
  IN  2 * n + (IF preset # "minimal" THEN 2 * n ELSE 0)
      + (IF marine THEN 2 * n + later ELSE 0) + (IF preset = "all" THEN n ELSE 0)

Expected(r) == ExpectedMessageCount(MetNoForecastHours(r), r.preset)

(* What tells a forecast of one dataset and region from another.           *)
CacheFingerprint(run, r) == <<run, r.preset, MetNoForecastHours(r)>>

(* Two fingerprints of one 64-bit hash would share an entry, and a call    *)
(* that copies it just after the other replaced it would take its forecast.*)
ASSUME HashAssumption ==
  /\ \A run \in Runs, r \in Requests :
       r.cached /\ ~r.dry_run /\ HoursOf(r) \subseteq Leads[run] =>
         CacheFingerprint(run, r) \in DOMAIN HashOf
  /\ \A f, g \in DOMAIN HashOf : HashOf[f] = HashOf[g] => f = g

FingerprintOf(p) == CacheFingerprint(reference[p], request[p])
CacheEntry(p) == HashOf[FingerprintOf(p)]

(* ScanGribMessages: a cut file throws.  Every message has two bytes.      *)
Bytes(file) == 2 * Len(file.messages) - (IF file.cut THEN 1 ELSE 0)
Scans(file) == file # NoFile /\ ~file.cut
Metadata(p) == [key |-> FingerprintOf(p), count |-> Len(out[p].messages), bytes |-> Bytes(out[p])]

---------------------------------------------------------------------------
Init ==
  /\ latest = 1
  /\ data = [e \in Entries |-> NoFile]
  /\ meta = [e \in Entries |-> NoMeta]
  /\ old = {}
  /\ pc = [p \in Processes |-> "idle"]
  /\ request = [p \in Processes |-> CHOOSE r \in Requests : TRUE]
  /\ reference = [p \in Processes |-> 1]
  /\ seen = [p \in Processes |-> NoMeta]
  /\ streamed = [p \in Processes |-> NoneStreamed]
  /\ temporary = [p \in Processes |-> NoFile]
  /\ via = [p \in Processes |-> "source"]
  /\ out \in [Processes -> {NoFile, OldFile}]
  /\ victim = [p \in Processes |-> NoVictim]
  /\ result = [p \in Processes |-> "none"]
  /\ calls = 0 /\ faults = 0

Goto(p, label) == pc' = [pc EXCEPT ![p] = label]
Fault == faults < MaxFaults /\ faults' = faults + 1

(* A call ends; what it does not keep of its own no longer matters.        *)
Ends(p, how) ==
  /\ Goto(p, "idle")
  /\ result' = [result EXCEPT ![p] = how]
  /\ seen' = [seen EXCEPT ![p] = NoMeta]
  /\ streamed' = [streamed EXCEPT ![p] = NoneStreamed]
  /\ temporary' = [temporary EXCEPT ![p] = NoFile]
  /\ via' = [via EXCEPT ![p] = "source"]
  /\ victim' = [victim EXCEPT ![p] = NoVictim]

(* The request, the source or the output is at fault: the call throws.     *)
Fails(p) ==
  /\ Ends(p, "failed")
  /\ UNCHANGED <<latest, files, asked, out, calls>>

---------------------------------------------------------------------------
(* Call, and open the dataset.                                             *)

Refuses(r, existing) == (existing # NoFile /\ ~r.overwrite) \/ r.hours % r.step # 0

(* What the last call of a process left at its output is but an old file.  *)
Call(p) ==
  /\ pc[p] = "idle" /\ calls < MaxCalls
  /\ calls' = calls + 1
  /\ out' = [out EXCEPT ![p] = IF @ = NoFile THEN NoFile ELSE OldFile]
  /\ \E r \in Requests :
       /\ request' = [request EXCEPT ![p] = r]
       /\ \/ /\ Refuses(r, out[p])
             /\ Goto(p, "idle") /\ result' = [result EXCEPT ![p] = "failed"]
          \/ /\ ~Refuses(r, out[p]) /\ r.dry_run
             /\ Goto(p, "idle") /\ result' = [result EXCEPT ![p] = "dry"]
          \/ /\ ~Refuses(r, out[p]) /\ ~r.dry_run
             /\ Goto(p, "open") /\ result' = [result EXCEPT ![p] = "none"]
  /\ UNCHANGED <<latest, files, reference, work, victim, faults>>

(* The reference time is read once; hours the run lacks end the call.      *)
Open(p) ==
  /\ pc[p] = "open"
  /\ HoursOf(request[p]) \subseteq Leads[latest]
  /\ reference' = [reference EXCEPT ![p] = latest]
  /\ Goto(p, IF request[p].cached THEN "metadata" ELSE "stream")
  /\ UNCHANGED <<latest, files, request, work, out, ends, bounds>>

LacksHour(p) ==
  /\ pc[p] = "open"
  /\ ~(HoursOf(request[p]) \subseteq Leads[latest])
  /\ Fails(p) /\ UNCHANGED faults

---------------------------------------------------------------------------
(* RestoreCache.                                                           *)

MetadataFits(p, m) ==
  m.key = FingerprintOf(p) /\ m.count = Expected(request[p])

ReadCacheMetadata(p) ==
  /\ pc[p] = "metadata"
  /\ LET m == meta[CacheEntry(p)] IN
       IF MetadataFits(p, m)
       THEN Goto(p, "is_regular_file") /\ seen' = [seen EXCEPT ![p] = m]
       ELSE Goto(p, "stream") /\ UNCHANGED seen
  /\ UNCHANGED <<latest, files, asked, streamed, temporary, via, out, ends, bounds>>

HasData(p) ==
  /\ pc[p] = "is_regular_file"
  /\ Goto(p, IF data[CacheEntry(p)] # NoFile THEN "scan" ELSE "stream")
  /\ UNCHANGED <<latest, files, asked, work, out, ends, bounds>>

(* Mutant: whatever scans is taken, however many messages there are.       *)
ScansIsEnough(p, file) == Scans(file)

DataFits(p, file) ==
  /\ Scans(file)
  /\ Len(file.messages) = Expected(request[p])
  /\ Bytes(file) = seen[p].bytes

ScanCached(p) ==
  /\ pc[p] = "scan"
  /\ Goto(p, IF DataFits(p, data[CacheEntry(p)]) THEN "copy" ELSE "discard data")
  /\ UNCHANGED <<latest, files, asked, work, out, ends, bounds>>

(* ReplaceWithCopy opens the data file by its name again.                  *)
CopyCached(p) ==
  /\ pc[p] = "copy"
  /\ IF data[CacheEntry(p)] # NoFile
     THEN /\ temporary' = [temporary EXCEPT ![p] = data[CacheEntry(p)]]
          /\ via' = [via EXCEPT ![p] = "cache"]
          /\ Goto(p, "replace")
     ELSE Goto(p, "discard data") /\ UNCHANGED <<temporary, via>>
  /\ UNCHANGED <<latest, files, asked, seen, streamed, out, ends, bounds>>

RestoreFails(p) ==
  /\ pc[p] \in {"scan", "copy"} \/ (pc[p] \in {"replace", "install"} /\ via[p] = "cache")
  /\ Fault
  /\ temporary' = [temporary EXCEPT ![p] = NoFile]
  /\ via' = [via EXCEPT ![p] = "source"]
  /\ Goto(p, "discard data")
  /\ UNCHANGED <<latest, files, asked, seen, streamed, out, ends, calls>>

DiscardData(p) ==
  /\ pc[p] = "discard data"
  /\ data' = [data EXCEPT ![CacheEntry(p)] = NoFile]
  /\ old' = old \ {<<CacheEntry(p), "data">>}
  /\ Goto(p, "discard metadata")
  /\ UNCHANGED <<latest, meta, asked, work, out, ends, bounds>>

DiscardMetadata(p) ==
  /\ pc[p] = "discard metadata"
  /\ meta' = [meta EXCEPT ![CacheEntry(p)] = NoMeta]
  /\ old' = old \ {<<CacheEntry(p), "metadata">>}
  /\ seen' = [seen EXCEPT ![p] = NoMeta]
  /\ Goto(p, "stream")
  /\ UNCHANGED <<latest, data, asked, streamed, temporary, via, out, ends, bounds>>

---------------------------------------------------------------------------
(* Stream the forecast, and put it, or the cached copy, at the output.     *)

HoursAsked(p) == Len(MetNoForecastHours(request[p]))

(* What WriteRegularLatLonGrib2Chunk leaves of a chunk in the temporary:   *)
(* it tests each write, but bytes that wait in the stream's buffer may be  *)
(* lost when it is closed, and nothing is said then.                       *)
Appended(p, chunk, cut) ==
  [messages |-> temporary[p].messages \o chunk,
   cut      |-> temporary[p].cut \/ cut,
   run      |-> reference[p]]

StreamBatch(p) ==
  LET chunk == Chunk(request[p], streamed[p].hours) IN
  /\ pc[p] = "stream"
  /\ \/ temporary' = [temporary EXCEPT ![p] = Appended(p, chunk, FALSE)] /\ UNCHANGED faults
     \/ /\ Fault
        /\ \/ temporary' = [temporary EXCEPT ![p] = Appended(p, Front(chunk), FALSE)]
           \/ temporary' = [temporary EXCEPT ![p] = Appended(p, chunk, TRUE)]
  /\ streamed' = [streamed EXCEPT ![p] = [hours    |-> @.hours + TimeBatchSize,
                                         messages |-> @.messages + Len(chunk)]]
  /\ Goto(p, IF streamed'[p].hours < HoursAsked(p) THEN "stream" ELSE "scan streamed")
  /\ UNCHANGED <<latest, files, asked, seen, via, out, ends, calls>>

StreamedFits(p) ==
  Scans(temporary[p]) /\ Len(temporary[p].messages) = streamed[p].messages

ScanStreamed(p) ==
  /\ pc[p] = "scan streamed" /\ StreamedFits(p)
  /\ Goto(p, "replace")
  /\ UNCHANGED <<latest, files, asked, work, out, ends, bounds>>

ScanRefuses(p) ==
  /\ pc[p] = "scan streamed" /\ ~StreamedFits(p)
  /\ Fails(p) /\ UNCHANGED faults

(* A read, a field without coverage, a write, the removal of the output or *)
(* the rename.                                                             *)
GenerationFails(p) ==
  /\ pc[p] = "stream" \/ (pc[p] \in {"replace", "install"} /\ via[p] = "source")
  /\ Fault
  /\ Fails(p)

Replace(p) ==
  /\ pc[p] = "replace"
  /\ out' = [out EXCEPT ![p] = NoFile]
  /\ Goto(p, "install")
  /\ UNCHANGED <<latest, files, asked, work, ends, bounds>>

Install(p) ==
  /\ pc[p] = "install"
  /\ out' = [out EXCEPT ![p] = temporary[p]]
  /\ temporary' = [temporary EXCEPT ![p] = NoFile]
  /\ Goto(p, "inspect")
  /\ UNCHANGED <<latest, files, asked, seen, streamed, via, ends, bounds>>

Inspect(p) ==
  /\ pc[p] = "inspect"
  /\ IF via[p] = "cache" \/ ~request[p].cached
     THEN Ends(p, "ok")
     ELSE Goto(p, "save") /\ UNCHANGED <<work, ends>>
  /\ UNCHANGED <<latest, files, asked, out, bounds>>

InspectFails(p) == pc[p] = "inspect" /\ Fault /\ Fails(p)

---------------------------------------------------------------------------
(* SaveCache.  Its temporaries carry the process's number.                 *)

RemoveData(p) ==
  /\ pc[p] = "save"
  /\ seen' = [seen EXCEPT ![p] = Metadata(p)]
  /\ data' = [data EXCEPT ![CacheEntry(p)] = NoFile]
  /\ old' = old \ {<<CacheEntry(p), "data">>}
  /\ Goto(p, "rename data")
  /\ UNCHANGED <<latest, meta, asked, streamed, temporary, via, out, ends, bounds>>

RenameData(p) ==
  /\ pc[p] = "rename data"
  /\ data' = [data EXCEPT ![CacheEntry(p)] = out[p]]
  /\ old' = old \ {<<CacheEntry(p), "data">>}
  /\ Goto(p, "remove metadata")
  /\ UNCHANGED <<latest, meta, asked, work, out, ends, bounds>>

RemoveMetadata(p) ==
  /\ pc[p] = "remove metadata"
  /\ meta' = [meta EXCEPT ![CacheEntry(p)] = NoMeta]
  /\ old' = old \ {<<CacheEntry(p), "metadata">>}
  /\ Goto(p, "rename metadata")
  /\ UNCHANGED <<latest, data, asked, work, out, ends, bounds>>

RenameMetadata(p) ==
  /\ pc[p] = "rename metadata"
  /\ meta' = [meta EXCEPT ![CacheEntry(p)] = seen[p]]
  /\ old' = old \ {<<CacheEntry(p), "metadata">>}
  /\ Goto(p, "prune")
  /\ UNCHANGED <<latest, data, asked, work, out, ends, bounds>>

(* Mutant: an old file is found and nothing is done about it.              *)
AgeIsRead(p) ==
  /\ pc[p] = "prune" /\ old # {}
  /\ \E file \in old : victim' = [victim EXCEPT ![p] = file]
  /\ Goto(p, "prune")
  /\ UNCHANGED <<latest, files, asked, work, out, result, bounds>>

(* Every file of the directory is looked at: an old one is removed, by     *)
(* name, after its age was read.                                           *)
ReadAge(p) ==
  /\ pc[p] = "prune" /\ old # {}
  /\ \E file \in old : victim' = [victim EXCEPT ![p] = file]
  /\ Goto(p, "prune one")
  /\ UNCHANGED <<latest, files, asked, work, out, result, bounds>>

PruneOne(p) ==
  /\ pc[p] = "prune one"
  /\ IF victim[p][2] = "data"
     THEN data' = [data EXCEPT ![victim[p][1]] = NoFile] /\ UNCHANGED meta
     ELSE meta' = [meta EXCEPT ![victim[p][1]] = NoMeta] /\ UNCHANGED data
  /\ old' = old \ {victim[p]}
  /\ victim' = [victim EXCEPT ![p] = NoVictim]
  /\ Goto(p, "prune")
  /\ UNCHANGED <<latest, asked, work, out, result, bounds>>

Saved(p) ==
  /\ pc[p] = "prune" /\ old = {}
  /\ Ends(p, "ok")
  /\ UNCHANGED <<latest, files, asked, out, bounds>>

(* Whatever goes wrong here is a warning: the forecast stands.             *)
SaveFails(p) ==
  /\ pc[p] \in {"save", "rename data", "rename metadata", "prune"}
  /\ Fault
  /\ Ends(p, "ok")
  /\ UNCHANGED <<latest, files, asked, out, calls>>

---------------------------------------------------------------------------
(* What is not the call's doing.                                           *)

(* A new run replaces the one the dataset held, between the reads of it.   *)
Publish ==
  /\ latest + 1 \in Runs
  /\ latest' = latest + 1
  /\ UNCHANGED <<files, locals, calls, faults>>

Kill(p) ==
  /\ pc[p] # "idle" /\ Fault
  /\ Ends(p, "killed")
  /\ UNCHANGED <<latest, files, asked, out, calls>>

(* Eight hours pass over what the directory holds.                         *)
Age ==
  /\ Fault
  /\ old' = {<<e, "data">> : e \in {x \in Entries : data[x] # NoFile}}
            \cup {<<e, "metadata">> : e \in {x \in Entries : meta[x] # NoMeta}}
  /\ old' # old
  /\ UNCHANGED <<latest, data, meta, locals, calls>>

(* A file is damaged while no call is between validating and copying it:   *)
(* data is cut short or ends a message early; metadata no longer parses,   *)
(* which is as good as none.                                               *)
Damage(e) ==
  /\ Fault
  /\ \A p \in Processes : pc[p] = "copy" => CacheEntry(p) # e
  /\ \/ /\ data[e] # NoFile /\ ~data[e].cut
        /\ \/ data' = [data EXCEPT ![e].cut = TRUE]
           \/ data' = [data EXCEPT ![e].messages = SubSeq(@, 1, Len(@) - 1)]
        /\ UNCHANGED meta
     \/ meta[e] # NoMeta /\ meta' = [meta EXCEPT ![e] = NoMeta] /\ UNCHANGED data
  /\ UNCHANGED <<latest, old, locals, calls>>

Restore(p) ==
  \/ ReadCacheMetadata(p) \/ HasData(p) \/ ScanCached(p) \/ CopyCached(p) \/ RestoreFails(p)
  \/ DiscardData(p) \/ DiscardMetadata(p)

Save(p) ==
  \/ RemoveData(p) \/ RenameData(p) \/ RemoveMetadata(p) \/ RenameMetadata(p)
  \/ ReadAge(p) \/ PruneOne(p) \/ Saved(p) \/ SaveFails(p)

Generate(p) ==
  \/ StreamBatch(p) \/ ScanStreamed(p) \/ ScanRefuses(p) \/ GenerationFails(p)
  \/ Replace(p) \/ Install(p) \/ Inspect(p) \/ InspectFails(p)

Next ==
  \/ \E p \in Processes :
       Call(p) \/ Open(p) \/ LacksHour(p) \/ Restore(p) \/ Generate(p) \/ Save(p) \/ Kill(p)
  \/ Publish \/ Age \/ \E e \in Entries : Damage(e)

Spec == Init /\ [][Next]_vars

---------------------------------------------------------------------------
(* Properties.                                                             *)

Labels == {"idle", "open", "metadata", "is_regular_file", "scan", "copy", "discard data",
           "discard metadata", "stream", "scan streamed", "replace", "install", "inspect",
           "save", "rename data", "remove metadata", "rename metadata", "prune", "prune one"}

(* Every variable keeps its type: a process is at one step of              *)
(* GenerateMetNoNordic, and only files of known runs are anywhere.         *)
TypeOK ==
  /\ latest \in Runs /\ calls \in 0 .. MaxCalls /\ faults \in 0 .. MaxFaults
  /\ \A e \in Entries : data[e].run \in {0} \cup Runs /\ meta[e].count \in Nat
  /\ old \subseteq Entries \X {"data", "metadata"}
  /\ \A p \in Processes :
       /\ pc[p] \in Labels /\ request[p] \in Requests /\ reference[p] \in Runs
       /\ via[p] \in {"cache", "source"}
       /\ result[p] \in {"none", "ok", "failed", "dry", "killed"}
       /\ out[p].run \in {-1, 0} \cup Runs /\ temporary[p].run \in {0} \cup Runs
       /\ victim[p] # NoVictim <=> pc[p] = "prune one"

(* The whole forecast of a run: each field of the preset once for each     *)
(* hour asked for, in the order of the hours.                              *)
IsForecast(file, run, r) ==
  LET messages == file.messages IN
    /\ file.run = run /\ ~file.cut
    /\ IsInjective(messages)
    /\ ToSet(messages) = UNION {ToSet(MessagesAt(r, hour)) : hour \in HoursOf(r)}
    /\ \A i \in 1 .. Len(messages) - 1 : messages[i][1] <= messages[i + 1][1]

(* Whichever steps of other calls fall between the checks of RestoreCache  *)
(* and its copy, and whatever was killed, damaged or pruned before, the    *)
(* output is the old file, none, or the whole forecast of the run the call *)
(* read and of its own request; and a call that returns has the latter.    *)
ServedIsComplete ==
  \A p \in Processes :
    /\ out[p] \in {NoFile, OldFile} \/ IsForecast(out[p], reference[p], request[p])
    /\ result[p] = "ok" => out[p] \notin {NoFile, OldFile}

(* ExpectedMessageCount counts the messages GenerateMetNoNordic writes: no *)
(* entry is saved that the call with its fingerprint would refuse.         *)
SavedIsServable ==
  \A e \in Entries : meta[e] # NoMeta =>
    meta[e].count = ExpectedMessageCount(meta[e].key[3], meta[e].key[2])
===========================================================================
