# Environmental GRIB Generator: a TLA+ verification project

The program (C++, `src/`) is a helper process that an OpenCPN plugin starts. It
downloads weather, wave and current forecasts from a dozen services, converts
them to GRIB, and merges them into one file. What can go wrong in it is mostly a
matter of *order*: many threads download at once, every request can fail, a
service publishes a forecast while it is being downloaded, the process can be
killed between any two file operations, and the next job resumes from what the
last one left. This directory models that control in TLA+, checks it with TLC
on small instances and proves the parts that other parts rest on with TLAPS.

All paths below are relative to the repository's root; `PROJECT.json` maps every
definition to the lines it models.

## 1. Inventory

| Component | Code | State it keeps | Operations |
|---|---|---|---|
| Worker pool | `include/.../parallel.h` | claim counter, stop flag, first failure, result slots, threads | `ParallelMapOrdered` |
| Retrying downloads | `weather.cpp` 265-471 | per call: attempt, delay; per process: 8 permits | `MakeRetryingHttpGet`, `MakeRetryingHttpGetRange`, `DownloadPermit` |
| Weather providers | `weather.cpp` 549-1559, `ukv.cpp` | candidate cycles, segments or source files, temporaries, the output | `GenerateGfs`, `GenerateDwdIconEu`, `GenerateHrrr`, `GenerateEcmwfOpenData`, `GenerateUkv` |
| MET Norway | `metno.cpp` | a directory of whole forecasts shared by processes | `GenerateMetNoNordic`, `RestoreCache`, `SaveCache` |
| Ocean currents and waves | `copernicus.cpp`, `arco.cpp`, `rtofs.cpp`, `remote_currents.cpp`, `waves.cpp` | temporaries | one generator each |
| Resume cache | `environment.cpp` 111-246 | pairs of files (stream and description) beside the output | `Restore`, `Save`, `Complete` |
| Environment job | `environment.cpp` 706-1424 | workspace, futures, list of streams, selected cycle | `GenerateEnvironment` |
| Forecast extension | `environment.cpp` 332-702 | children's outputs, coverage | `GenerateExtendedEnvironment` |
| GRIB streams | `grib.cpp` | none (files) | scan, normalise, repack, merge, composite |
| Offline tidal packages | `xtd.cpp`, `xtd_package.cpp` | an open file, an LRU cache of tiles per component | opening, `GetTile`, `GetCell`, `Predict...`, `Verify`, `ClearCache` |
| Tidal models | `tpxo.cpp`, `tpxo_model.cpp` | none | harmonic prediction |
| Helper process | `cli.cpp` 496-570, `job.cpp` 187-210 | result file, events, exit code | `RunJob`, `WriteJsonFileAtomic` |
| Job parsing, estimates, geography, providers' tables | `job.cpp`, `estimate.cpp`, `geo.cpp`, `providers.cpp`, `model.cpp` | none | pure functions |

How they interact: the plugin starts a **helper**, which writes a *running*
result, calls the **environment job** and writes the final result. The job
restores what it can from the **resume cache**, runs the **providers** of the
missing streams, inline or through `std::async`, saves each finished stream back,
and merges all of them with the **GRIB** functions. A provider hands each cycle's
downloads to the **worker pool**; each worker calls a **retrying download**; the
permits bound the transfers of all pools of the process together. With forecast
extension the job calls itself for children whose streams it composites.

What is hard in each, and so what the properties are about:

- *Worker pool.* Eight threads, an atomic counter, an error slot, and thread
  creation that may itself fail. No input called twice or lost, no error
  swallowed, nobody alive after the map has returned or thrown.
- *Retrying downloads.* Permits must survive every error path and must not be
  held while sleeping, or eight failing downloads stop the process.
- *Weather providers.* A cycle is downloaded while it is being published and
  abandoned for an older one when an hour is missing: the file must be of one
  cycle, complete and in order, and a failure must leave the old file alone.
- *Resume cache and environment job.* A checkpoint outlives the process; crash,
  partial save and a changed request come between writing and reading it. GFS
  atmosphere and waves must be of one cycle. Three streams each arrive from the
  cache, a thread or inline, in every combination.
- *Helper.* Three channels (file, events, exit code) that must agree although
  writing the file may fail and the plugin may kill the helper.
- *Forecast extension and GRIB streams.* Requests are in leads of a cycle, deliveries in times,
  and what was judged sufficient is trimmed afterwards: the window must have no hole. A
  composite must keep the preferred source's record of every time and lose nothing else.
- *Offline tidal packages.* Offsets of nested regions that may overlap or overflow; a cache with
  two limits kept in three data structures; tiles cut at the edge of a grid, coded modulo a power
  of two and read across the seam of a global grid; a file that is verified on request only.
- *MET Norway cache.* Processes validate, copy, replace, discard and prune the same two files of
  an entry without a lock, while the remote data set moves to a new run.

## 2. Modules

| Module | Models | Composes |
|---|---|---|
| `OrderedMap` | what the pool promises, without threads | |
| `ParallelMap` | `ParallelMapOrdered`, thread by thread | implements `OrderedMap` |
| `ParallelMapProofs` | theorems about `ParallelMap` | |
| `RetryingDownload` | retry loop and permits | |
| `RetryingDownloadProofs` | theorems about `RetryingDownload` | |
| `CycleSelection` | six weather providers from request to file | uses the pool by its contract |
| `CycleSelectionProofs` | theorems about `CycleSelection` | |
| `ResumeCache` | the checkpoint files, one file operation per step | |
| `EnvironmentJob` | `GenerateEnvironment` over several jobs | extends `ResumeCache` |
| `EnvironmentJobProofs` | theorems about `EnvironmentJob` and `ResumeCache` | |
| `RunJob` | helper and result file | relies on `EnvironmentJob!JobEnds` |
| `RunJobProofs` | theorems about `RunJob` | |
| `GribStream` | merging and compositing of streams, from the checks to the rename | |
| `ForecastExtension` | `GenerateExtendedEnvironment` and the composite it ends with | extends `GribStream`; a child is one call of what `EnvironmentJob` models |
| `ForecastExtensionProofs` | theorems about `ForecastExtension` and `GribStream` | |
| `TileGrid` | tiling, delta coding and brackets of the tidal packages | |
| `PackageLayout` | what a package file must declare to be opened, v1 and v2 | extends `TileGrid` |
| `MonthCentre` | interpolation between centres of months | |
| `XtdPackage` | a reader of a package: cache, predictions, verification | extends `PackageLayout` and `MonthCentre` |
| `XtdPackageProofs` | theorems about `XtdPackage`, `PackageLayout` and `TileGrid` | |
| `MetNoCache` | `GenerateMetNoNordic` and the cache several processes share | |
| `MetNoCacheProofs` | theorems about `MetNoCache` | |
| `MC...` | instances for TLC, one `.cfg` per run | |

Each module keeps its mutants beside the definitions they change: an operator
marked *Mutant* is the definition with a plausible bug, and replacing the one by
the other makes TLC report the property named in `PROJECT.json`. They are not part of
the specification.

**ParallelMap.** One action per step another thread can see: the calling thread
creates workers (`Spawn`, or `SpawnFails` in the middle) and joins them; a worker
tests the flag, claims an index with `fetch_add`, calls, and on an exception keeps
the first failure under the mutex and then sets the flag. `slots` are the optional
results, whose final dereference would be undefined if one were empty. `late` is a
history variable: claims after the flag was set.

**RetryingDownload.** A thread in a call takes a permit, downloads, gives the permit
back on every way out (`DownloadPermit` is scoped inside the `try`), and then
returns, rethrows, or sleeps and tries again. The semaphore promises no order.

**CycleSelection.** A call tries candidate cycles, newest first; `reach[c]` is how
much of cycle `c` the service has published and grows at any moment. `Claim` and
`Download` are the pool's calls (at most `Workers` at once, claimed in order, the batch ends
when none is running; after a failure the worker that met it claims no more, and the others may
each be past their test of the flag and claim once: what `ParallelMap` is proved to do). GFS first probes the furthest hour; its waves fall back once from the subset
service to indexed ranges. Then the segments are written to a temporary, repacked
(DWD, ECMWF), verified and renamed. The sets `Probes`, `Repacks`, `ChecksWrites` and
`RefusesToOverwrite` are the differences between the providers. Two facts of the code
that are easily missed are in the actions: a write cut short is noticed only by a
provider that tests its stream, and not even then for bytes still buffered; and
`ScanGribMessages` accepts a stream with no message at all. That `RepackGrib2ToSimplePacking`
loses a cut last message rests on how ecCodes reports it (premature end, with the
file at its end), which the code answers with `break`.

**ResumeCache and EnvironmentJob.** Keys are the tuples of request fields that the code
hashes; a field the code does not hash is not in the key. `Save` is four visible file
operations, `Complete` and `RemoveFiles` one per file, and `Crash` may fall between any
two. `job` holds the locals of `GenerateEnvironment`; `tasks` are the generations, on
threads or inline. `MainStep`'s disjuncts are the stages in the code's order.

**RunJob.** The three writes of the result file, each a temporary, a removal and a
rename, each of which may fail; what a failure leads to depends on which status was
being written (`Thrown`), because the running status is written outside the `try`.

**GribStream and ForecastExtension.** A stream is a sequence of messages, each a parameter, a
time and a content. `Composite` is the reading loop: a message beyond the window is trimmed, one
whose tuple was kept before is dropped, one without a time is kept under its own place. `Write`,
`Rescan`, `Rename` and `Inspect` are the way to the output, with writes that fail, that lose a
tail in the stream's buffer, and kills. `ForecastExtension` walks through the components as the
code does: `RunPreferred`, `Judge`, `RunFallback`, `Accept`. What a child delivers
(`Deliveries`) follows from the kind of its source: leads of a cycle that is older or younger
than the start (`Cycles`), in RTOFS's case from its own first hour and step, in UKV's hourly and
then three-hourly (`UkvHourly`, `UkvStep`); every hour; the hours there are; or a file as it is
(`AsGiven`), the user's or the one file that Marine.ie serves whatever start, hours and step were
asked for. Times are whole hours from the requested start.

**TileGrid, PackageLayout, MonthCentre, XtdPackage.** The geometry is exact: coordinates are
halves of a grid step and weights quarters, so that a point is on a node or between two, and no
floating point is needed. `Decode` is the two-dimensional sum modulo `Modulus`; `Encode`, its
inverse, belongs to the writer of packages and is external. A file is the record of the numbers it
declares (`ParsePackage`, `ParseDirectory`, `ParseTileIndex`, one conjunct per check of the code);
whether a region authenticates is a fact about the file (`Damage`), chosen once. A request
fetches its tiles one at a time (`FetchTile`), through the cache of their component (`Insert`,
`Touch`), so that requests find caches in every state; `Finish` answers it. An open package answers
or fails per request; one with metadata that no longer reads, in any component, is not opened
(`Opens`). A seasonal current is the sum of the tide and of both halves of the residual, u and v,
which are twelve months or five terms of the year (`Monthly`, `Terms`). A quality answer is refused as
`TideHeightQualityGrid::Validate` does it (`Valid`). `MonthCentre` is calendar arithmetic in half days.

**MetNoCache.** One action per file operation another process can see: metadata is read, then
the data file looked for, scanned and copied by name; discarding, saving and pruning
take two, four and two steps per file. `files` are what processes share; everything else is a
process's own. Batches are appended by `StreamBatch`, where a chunk may lose its buffered end
unnoticed (`WriteRegularLatLonGrib2Chunk` tests its writes and not its close), and counted by
`ScanStreamed`. An entry is found by a hash of run, preset and hours (`HashOf`).

## 3. What the runs check

| Run | Instance | States | Shows |
|---|---|---|---|
| `parallel_map` | 4 inputs, 3 workers | 24 thousand | results in order, no lost error, workers joined, ends, implements `OrderedMap` |
| `retrying_download` | 3 threads, 2 permits, 4 attempts, 2 calls each, delays 5 to 12 | 185 thousand | permits balance, throws only for cause, every call ends |
| `cycle_selection` | 6 providers, 2 cycles of 3 hours, 2 workers, one network and one disk fault | 505 thousand | one whole cycle or no change, newest usable cycle, one request per short cycle, ends |
| `environment_job` | 4 requests, 2 jobs, 2 cycles, 2 spacings, any save failing | 700 thousand | output complete, reported cycle and spacing as requested, checkpoints kept on failure and gone on success, threads inside the workspace, ends |
| `coupled_jobs` | 2 coupled requests, 4 jobs, any save failing | 295 thousand | atmosphere and waves of one cycle |
| `forecast_extension` | 6 hours, steps 1 to 3, 33 requests (also as dry runs), 28 merges, 2 faults | 25 thousand | the window has no hole wider than its sources' spacing, the composite keeps exactly what it should, a failure leaves the output alone |
| `xtd_package` | 5 components of up to 3 by 3 cells, 15 requests, 4 cache sizes, 8 files and the first four with one number changed | 157 thousand | caches coherent and bounded, regions disjoint, harm found by verification and contained, answers are the author's field |
| `metno_cache` | 2 processes, 3 calls, 3 requests, 2 runs, 2 faults | 863 thousand | every output is one whole forecast of its call, what is saved can be served |
| `run_job` | 3 helpers, all faults | 850 | result true for this job, channels agree, a final answer stands, ends |
| `stale_waves` | 2 requests, 2 jobs | | violated: finding 1 |
| `result_vanishes` | 1 helper, no fault | | violated: finding 2 |
| `short_stream` | HRRR, one disk fault | | violated: finding 3 |

Deadlock is not checked because every model ends: a map returns, jobs and calls run out, a
refused package stays refused.

**Bounds, and why they suffice.** Three workers and four inputs let one worker fail,
a second be late and a third be unborn, with an input left over; the theorems lift
the bound altogether. Three threads for two permits make one wait while the others
sleep and retry; four attempts pass the cap of the delay, which is deliberately no
power-of-two multiple of the first. Two cycles are what changing a candidate needs, three
hours are a first, a middle and a furthest one, and one fault of each kind comes on top of
hours that are not published yet. Two jobs are a writer and a reader of a checkpoint; a torn
coupled pair needs two jobs to make and one to restore it, with one to spare. Two spacings
and two cycles are what it takes to confuse them. Three helpers are an answer, one that
replaces it, and one that fails to.

*`forecast_extension`*: scaled constants keep the order relations of the code's: the window (6)
is shorter than the horizons of the hourly models (7) and of RTOFS (8) and longer than that of the
Copernicus products (4), the allowance for an old cycle (3) is half a window as a day is of two, and
RTOFS's step (2) differs from some requested ones; UKV's hourly series ends at lead 4, before an
hourly request for the window and an old cycle does, and goes on in steps of 3. Cycles begin a step before the start, off
the step, and after it. Files taken as they are are empty, whole, holed, late and long. *`xtd_package`*: grids
whose last tiles are cut in one or both directions, one global and so with a seam, regional ones
with tiles of one row or one column, a tide with staggered velocity points; `Modulus` 16 makes
most differences wrap. Caches: none, one too small for a whole tile, one bound by tiles, one by
either limit. The 258 layouts, of which a reader opens 66, are whole files and files with one declared number lower by
one, higher by one, or at the largest 64-bit value. One harm at a time: to the public part, to a
tile of every component, to the metadata of each, unreadable or with another origin. The residual is
twelve months in some packages and five terms of the year in another, and differs in u and v; one
distance the author wrote is negative and one support class is five. Times lie on both sides of month
centres, on the ends of months and on the first and last moment of a leap year. *`metno_cache`*: batches of 2 hours
instead of 4 make a request of 3 hours need two; the presets at the two ends of the list of fields
are the ones that differ in the first hour; the second run lacks an hour one request needs. Three calls
are one that fills the cache and two that meet in it. Two faults are, for instance, a kill and a
damaged file, a lost chunk and eight hours passing, or a failure while restoring and another
while saving.

**Fairness and why the code justifies it.** Only weak fairness, of a thread or a process
that can go on. A download ends because curl has a timeout and the attempts are bounded;
a sleep ends; `std::thread::join` and a future's wait return when the thread does. Nothing is
assumed of the service (hours may never be published), of the semaphore's order, or of the
plugin (no job has to come, none has to be killed). `ForecastExtension`, `XtdPackage` and
`MetNoCache` state no fairness and have no liveness property: each call in them is a finite
sequence of steps of one thread, without a loop that waits.

## 4. What is proved

`ParallelMapProofs` (any number of inputs, any concurrency, 0 included):

- `Invariance`, `TypeCorrect`, `ReturnsInOrder`, `JoinsItsWorkers`, `StopsSoon`, and
  `Refinement` (`ParallelMap` implements `OrderedMap`).
- None of the properties is inductive. `ReturnedInOrder` needs to know that every index
  below the counter is accounted for (`ClaimsInv`: held by exactly one worker, or in its
  slot, or failed and then `failure` is set), that a kept failure is of such an index
  (`FailureInv`), and why a worker may be done at all (`PoolInv`: the flag, or no inputs
  left). `LateInv` counts the claims made after the flag: a worker past its test may claim
  once, and the one that set the flag none. Their conjunction with the types is `IInv`.
- Assumed: `SizesAssumption`, `MarkersAssumption` (the markers are no indices).

`RetryingDownloadProofs` (any finite set of threads, any policy the code lets through):

- `Invariance`, `TypeCorrect`, `PermitsBalance`, `BoundedTransfers`, `ThrowsForGoodReason`.
- `PermitsAccountedFor` relates a counter to the cardinality of the threads in a transfer;
  each step adds or removes one element of that set (facts of `FiniteSetTheorems`).
  `ThrowsLast`, by which a sleeper has an attempt left, keeps `attempt` within its bound, and
  `CauseKnown` (an error is caught only after one happened) keeps `ThrowsLast`.

`RunJobProofs` (any faults, any number of helpers one after the other):

- `Invariance`, `TypeCorrect`, `FileTellsTheTruth`, `OneAnswer`, and `AnswerIsFinal`, an action
  property.
- The properties say nothing of a helper between two announcements, so they are not inductive.
  `AnnouncedSoFar` says which status is being written once which event is out, `CompleteIsEarned`
  that complete is written only after an output or for a plan, `TemporaryIsStatus` what is about to
  be renamed, and `FileFollowsStatus` that no final status is in place before the last write. A throw
  of the writer changes the status under way; it has a lemma of its own (`ThrowKeepsIInv`).
- Assumed: nothing but `RunJobAssumption`, which names the faults.

`EnvironmentJobProofs` (any requests, cycles and spacings, any number of jobs one after the
other, any stage failing, the process dying anywhere):

- `TypeCorrect`, `TasksStayInWorkspace`, `PublishedIsWhole`, `CheckpointsOutcome`,
  `CoupledCyclesAgree`, `PublishedFits`.
- The invariant has three layers. `FlowInv` is about one job: which stages may be under way,
  joined, listed or not yet begun at each place of the main thread (`PlacesInv`, `PcInv`,
  `EarlyInv`), that what is listed or restored has its file and no task (`FilesInv`, `ListInv`), and
  that every cached stream is one its key may stand for, even half-way through a save (`StoreInv`). `TouchedInv`
  says which checkpoints a job answers for: those it restored or saved are of stages it has come past
  (`TouchedKeysInv`); each would be accepted again until all are dropped, except coupled weather
  during a second save (`AcceptableInv`); and a pair the next job could restore is among them
  (`AnsweredForInv`). `CyclesInv` says that the cycle the job has selected is that of the streams on its
  list, the coupled waves included.
- `CoupledCyclesAgree` and `PublishedFits` are stated with `ScansTellCyclesApart`: streams of different
  cycles have different counts. Without it they are false, as TLC shows when `ScanOf` is
  given equal values: a save that dies between its two renames leaves the description of one cycle
  beside the stream of another. The code compares counts only, so the hypothesis is about what it
  relies on; the other four theorems do without it.
- Assumed: `CacheAssumption`, `NoneAssumption` (the mark for no file is no stream).

`CycleSelectionProofs` (any number of cycles, hours, workers and faults, any provider):

- `TypeCorrect`, `InstallsOneCycle`, `FailureIsTraceless`, `ProbesOnce`, `NewestIsUsed`.
- `CallInv` follows a byte from the service to the output: what is downloaded and under way
  is of the candidate and path in hand (`RunningInv`, `BatchInv`), the temporaries are hour by hour
  of that candidate, whole or cut by a counted disk fault (`StagedInv`), and so is the
  output, or it is the old one (`OutInv`). `SentInv` and `SkippedInv` are about requests instead:
  a path of a candidate that was too short was sent only its furthest hour, and without faults no
  candidate was left behind that was complete when the call began.
- Assumed: `CyclesAssumption`.

`MetNoCacheProofs` (any processes, requests, presets, hours, runs and faults):

- `TypeCorrect`, `ServesWholeForecasts`, `SavesServable`.
- `ServedIsComplete` rests on three facts. The streaming loop writes, batch after batch, the forecast
  of the hours so far, and as many messages as `ExpectedMessageCount` computes (`Part`, `ChunkIs`,
  `PartJoin`). A file of the cache is at any time a beginning of the forecast its entry stands for,
  whoever wrote, damaged or is replacing it (`DataInv`), so one with all its messages is whole. And what was
  scanned as whole is still whole, or gone, when it is copied by name (`CopyInv`), because another
  process can only have put a file of the same fingerprint there.
- Assumed: `BoundsAssumption`, `RequestsAssumption`, and `HashAssumption` (section 5).

`ForecastExtensionProofs` (any requests, merges, horizons, reference times and files of the user):

- `TypeCorrect`, `ErrorsLeaveOutput`, `CompositePublished`, `WindowAlwaysCovered`.
- `ExtensionInv`: the output is what was there or all that is wanted (`OutInv`); the temporary is
  what is wanted, shorter or cut, and no longer either once it has been counted (`TemporaryInv`);
  and no source of a component is an input twice (`LabelInv`). The last is what the composite's key
  for a message without a time relies on: with two inputs of one label such messages would displace
  each other.
- `CompositePublished` needs what the reading loop keeps: after each turn, the first message within
  the window of each tuple, in order (`Worthy`, `Picks`), told by the messages' places in the
  inputs (`Lays`: `FlattenSeq` lays the places out in order, one to one).
- `WindowAlwaysCovered` adds `CoverageInv`. Every complete child has its hours in the inputs, and
  between two of them no gap wider than its spacing (`Delivered`, `Dense`), files taken as they are
  excepted; for RTOFS, whose last hour need not be on its own series, and for UKV, which changes its
  cadence, these are lemmas of their own (`RtofsDense`, `UkvDense`). What
  `CoversRequestedWindow` or the test of the fallback accepts then covers the window
  (`AcceptedCovers`: for the currents, the preferred source up to where the fallback begins), and the
  first message of every tuple within the window survives the composite (`CompositeHas`).
- Assumed: `StreamAssumption`, `RequestsAssumption`, `MergesAssumption`, `SourcesAssumption`.

`XtdPackageProofs` (any grids and tile sizes, any numbers in any file, any harm, limits and requests):

- `TilesCover`, `TypeCorrect`, `CachesCohere`, `VerifiedUndamaged`, `DamageContained`, `RegionsApart`,
  `CodingIsLossless`, `CellsAreAuthored`.
- `TilesCover` is arithmetic: the tile and the place in it that `GetCell` computes are those the cell
  was written to. From it, and from the brackets of a point, whose nodes never leave the grid, follows
  that every tile a request fetches is one of its component's index (`ReaderCornersIn`).
- `CacheCoherent` is inductive with the types of `cache` (`CacheOK`). Its hard part is the running
  total: a sum over the list is the sum over its set as long as no tile is listed twice
  (`ListSizeIs`), so that a tile moved to the front leaves it as it is and what is evicted
  from the back is subtracted once (`LeftIs`). The sums of the library have no facts to cite: a sum is
  shown to exist for every finite set, and not to depend on the order of its terms (`SumWithout`).
- `ReaderInv` adds what a request has behind it and before it: it holds the good tiles of what
  it fetched (`GotInv`), and what it does not hold yet it still has to fetch (`AskedInv`). When a
  verification ends, then, it holds every tile of a v1 file, and the hashes of a v2 file matched before
  it began (`VerifiedDamage`); and when an answer is refused for its values, the author wrote one that a
  reader refuses at a node around the point (`RefusedValue`): a mean can only be negative if one of its
  terms is (`NegativeSum`), the terms are the author's coefficients (`CellsAreAuthored`), and the corners
  of a bracket are nodes less than a step away (`CornersNear`).
- `RegionsApart` is an action property. In an accepted index a payload begins after every one above it
  ends, although the code compares it with the last one only (`IndexInOrder`), and the same
  holds of the rows of the directory (`RowsApart`); regions that lie in consecutive spans do not meet.
- `CodingIsLossless` shows that the closed form solves the equation of each of the two recursive functions of
  `Decode` and that nothing else does; the arithmetic is that a signed value modulo `Modulus` is unique
  (`SignedOnly`). With `TilesCover` it gives `CellsAreAuthored`.
- Assumed: `GridAssumption` (what `ParseHeader` and `ParseGrid` let through), `CodingAssumption`,
  `CircleAssumption`, and the types of files, options and requests (`FilesAssumption`, `OptionsAssumption`,
  `MemoryAssumption`, `RequestsAssumption`, `OriginsAssumption`, `SupportAssumption`); `MaskAssumption` says
  that the fields of a tile share a mask, except u and v of the tide; `DamageAssumption` says
  that only what a file stores can be harmed, `AuthoredAssumption` that a coefficient fits the width it is
  coded in.

`FewLateClaims`, which `StopsSoon` proves, has no run of its own: the theorem covers every instance.

Two facts about the way these proofs are made. Induction over data (the turns of a loop, the members of
a flattened sequence, the batches of a stream) is done by a least counterexample: the set of turns at
which a claim fails has a least element (`Least`, from the library's well-foundedness of the natural
numbers), which is not the first and does not follow its predecessor. And recursive functions of the
model are shown to exist before their equations are used (`Recursion`, `KeptIs`). Two definitions were corrected
because their proofs failed: `Items` of `CycleSelection` and `FieldsOf` of `ForecastExtension` had
overlapping `CASE` arms, which TLC resolves by order and the logic leaves open.

Only model-checked: every liveness property (fairness and `ENABLED` are out of the prover's reach) and
`AnswersAreAuthored`: `CellsAreAuthored` proves what it says of one cell, but not yet that the
sum over the four corners of a point is the mean over the nodes near it, nor its seasons.

## 5. Findings

1. **Restored waves may have another grid spacing** (`environment.cpp:278`). The waves'
   fingerprint leaves out `weather_grid_spacing_deg`, to which Copernicus waves are
   resampled. Run `stale_waves`; `docs/estimates.md:32` promises the requested spacing.
2. **There are moments without a result file** (`job.cpp:208`). The result is removed
   before the temporary is renamed onto it; killed there, nothing is left. Run
   `result_vanishes`; `docs/JOB_PROTOCOL.md:13` says it is written atomically.
3. **A short or empty weather file may be published as a success** (`weather.cpp:1306`).
   HRRR never tests its stream and the scanner accepts an empty file; by the same path DWD
   and ECMWF may lose the tail, and GFS what was still buffered. Run `short_stream`;
   `docs/ARCHITECTURE.md:25` says incomplete streams are errors.

Met while modelling and not contradicted by any text of the repository, so recorded here and some
of it as hazards only:

- The result file's stream is tested before its buffer is flushed (`job.cpp:202`): a full
  disk publishes a cut-short result. `RunJob` has this step (`LoseFlush`).
- HRRR replaces an existing output without `--overwrite`; UKV removes the old output before the
  rename and inspects the new one after it, so an error may leave no output or be reported for an
  output that is installed; UKV leaves its source files behind when the output directory cannot be
  created. The checked merge of an environment inspects its output after the rename, too.
- UKV's hourly series ends at lead 54 (`ukv.cpp:457-459`), and a forecast extension asks for leads up to
  24 hours beyond the window: an ordinary hourly request of 48 hours may end in three-hourly records.
  `WindowCovered` therefore promises a source's own spacing, not the requested step.
- `DownloadMarineIe` is given neither start, hours nor step (`environment.cpp:1170-1177`), and of it and of
  a user's file only the first and the last time are judged: either may leave holes in the
  window. `WindowCovered` excepts both.
- A torn checkpoint is recognised by counts, so streams of equal counts pass for each other (with
  equal `ScanOf` values `CoupledCyclesMatch` fails).
- `RestoreCache` of MET Norway validates a file and copies it by its name. With two fingerprints of
  one 64-bit hash TLC finds the copy taken from another forecast; `HashAssumption` excludes
  that, and nothing else is needed for `ServedIsComplete`, since every file ever put under a name
  whose hash is unique is a forecast of that fingerprint.
- A cache description that parses but has a member of the wrong type throws outside the `try` of
  `RestoreCache` (`metno.cpp:545`): the call fails instead of streaming, until the entry is pruned.
- `MergeEnvironmentalGribs` refuses an input without bytes only because inserting an empty
  stream buffer sets failbit; a plain merge of such an input fails for the same reason.
- The per-component metadata of a v2 package is hashed for verification and not authenticated
  when it is opened: harm to a grid's origin moves the answers of that component until
  `Verify` is called. Harm that makes the metadata or the index of one component unreadable makes the
  whole package impossible to open (`xtd_package.cpp:1343-1364`), a tide-only use included; what
  `DamageIsContained` says begins when a package is open.
- A package whose author wrote a negative quality value opens and verifies, and every request for
  quality at such a point throws (`xtd_package.cpp:1585-1590`).

## 6. Not modelled, and why

- *In `EnvironmentJob`*: sources read from local files (never cached), the overwrite test at
  the start, the children's own caches in extension mode, two helpers at once for one output
  (the plugin runs one). Expiry is a nondeterministic refusal, and the coupled candidates are
  tried in any order. A removal that fails, whose error the code ignores (`environment.cpp:244-245`), is
  left out.
- *In `RunJob`*: an exception of `PrintEvent`, which only a lack of memory could cause (`std::cout` has no
  exceptions enabled); the mutant of `AnswerStands` shows what it would do.
- *In `CycleSelection`*: the parsing of index files (a row that is malformed is skipped, which
  widens the byte range of the row before it); which fields make up an hour (one item stands for all of them), so a
  response that is a valid stream but lacks a field is not told apart; another process that
  creates the output between the test and the rename; dates and URLs. The requests sent to a cycle are a set
  of hours, so `OneRequestPerShortCycle` would not notice the same hour asked for twice.
- *In `RetryingDownload`*: the bytes, and progress callbacks.
- *In `ForecastExtension`*: minutes (every time is a whole hour of the start), which message
  attributes form a tuple (parameter and time stand for all of them), `NormalizeGribStream`, and the
  wording of diagnostics.
- *In `XtdPackage`*: decryption, decompression and hashing (a region is accepted or not, a whole
  file is as written or not), components of a type the reader does not know and may ignore, the constituent tables and harmonic trigonometry (the cosines
  and sines of the year are constants, `Wave`), JSON metadata and
  UTF-8 checks (of metadata that is harmed and still reads, only a moved origin), values that are not finite, the fields of a tile's own header, statistics and peak sizes. A request is for one
  point, although the code serves a whole grid of them with the same loops; several harms at once; two
  readers of one file (a reader is used by one thread, and its caches are its own).
- *In `MetNoCache`*: each process has an output of its own; a file is not damaged between being
  scanned and copied (nothing could notice); the remote data set does not change between the
  reads of one call; hashes do not collide; dates, statistics of missing cells and progress.
- Numerical work (regridding, interpolation, harmonic prediction, projections) is floating-point
  arithmetic; authentication and library calls have no control worth a model; job parsing and
  estimates are pure functions. Ocean current providers download, regrid and rename; that control is
  in the modelled parts, except that RTOFS's kept downloads (`rtofs.cpp:428`) use a temporary
  without the process's number, which two helpers sharing a directory could both write.

## 7. Plan

Done: the pool, downloads, cycle selection, the environment job and its checkpoints, the
helper, `GribStream`, `ForecastExtension`, the four modules of the tidal packages and `MetNoCache`, each with
its run, and theorems about every safety property the runs check but one. Left:

1. `XtdPackage`: `AnswersAreAuthored` for any grid. With `CellsAreAuthored` proved, it needs that the
   weights of a bracket's corners, which are proved to be nodes less than a step away, are those of their
   distances, that a tile left out of the file has no valid cell, and that the months between two
   centres are those the calendar gives.
2. The steps of `ParallelMap`'s contract that `CycleSelection` relies on (`Claim`, `Download`), as a refinement.

The runs are as many as there are questions so far; a further component would get one of its own.
