-------------------------- MODULE ForecastExtension --------------------------
(***************************************************************************)
(* GenerateExtendedEnvironment (src/environment.cpp): for each component   *)
(* that a request asks for, a preferred source and, where that does not    *)
(* cover the requested window, a fallback; then the composite of all their *)
(* streams.  Which hours a source delivers depends on its kind: leads of a *)
(* model cycle, hours from the start, or whatever a file has.              *)
(*                                                                         *)
(* Times are whole hours from the requested start, which is hour 0, except *)
(* that a tail of the currents starts later.  Each child is one call of    *)
(* GenerateEnvironment, which EnvironmentJob models, for one component.    *)
(***************************************************************************)
EXTENDS GribStream

CONSTANTS
  Requests,   \* the requests to study
  Merges,     \* inputs and commands of merge-gribs and merge-environment-gribs
  Allowance,  \* kAutoCycleAllowanceHours
  HorizonOf,  \* a function: the longest forecast of the sources that have one
  RtofsStep,  \* kRtofsNativeStepHours, also its first forecast hour
  UkvHourly,  \* the last lead of UKV's hourly series (54)
  UkvStep,    \* the step of UKV's series after it (3)
  Cycles,     \* bound: reference times a model cycle may have
  GivenFiles  \* bound: the valid times of files that are taken as they are

Components == <<"weather", "waves", "current">>

(* A job's hours and steps were checked by BuildTimeSequence; a file of    *)
(* the user may be anything that scans.                                    *)
Sources == [preferred : STRING, fallback : STRING]

ASSUME RequestsAssumption ==
  /\ Requests # {}
  /\ \A r \in Requests :
       /\ r \in [weather : Sources, waves : Sources, current : Sources, hours : Nat,
                 step : Nat \ {0}, waveStep : Int, dry_run : BOOLEAN, overwrite : BOOLEAN]
       /\ r.hours % r.step = 0

ASSUME MergesAssumption ==
  \A m \in Merges :
    /\ m.command.how \in {"merge", "environment"} /\ m.command.overwrite \in BOOLEAN
    /\ m.inputs \in Seq([label : STRING, region : STRING, file : Files])

ASSUME SourcesAssumption ==
  /\ Allowance \in Nat /\ RtofsStep \in Nat \ {0}
  /\ UkvHourly \in Nat /\ UkvStep \in Nat \ {0}
  /\ \A source \in DOMAIN HorizonOf : HorizonOf[source] \in Nat
  /\ Cycles \subseteq Int
  /\ \A times \in GivenFiles : times \subseteq Int /\ IsFiniteSet(times)

VARIABLES
  request,    \* what is asked for
  component,  \* the component in hand
  runs,       \* runs[role]: the ComponentRun of its preferred source and fallback
  coverage    \* diagnostics: what was planned, completed or failed

extensionVars == <<request, component, runs, coverage>>
vars == <<combineVars, extensionVars>>

Hours == request.hours

NotRun == [complete |-> FALSE, times |-> {}]

NoRuns == [preferred |-> NotRun, fallback |-> NotRun]

CombineStart == /\ expected = 0 /\ temporary = NoFile /\ result = "none" /\ faults = 0
                /\ component = 1 /\ runs = NoRuns /\ coverage = {}

(* A job with extend_forecast passed the checks of GenerateEnvironment; a  *)
(* merge is called from the command line with files of any making.         *)
Init == /\ CombineStart
        /\ out \in {NoFile, OldFile} /\ existed = out.exists
        /\ \/ /\ request \in Requests
              /\ out.exists => request.overwrite
              /\ command = [how |-> "composite", overwrite |-> request.overwrite,
                            through |-> request.hours]
              /\ inputs = <<>> /\ pc = "preferred"
           \/ \E m \in Merges :
              /\ command = m.command /\ inputs = m.inputs
              /\ pc = IF m.command.how = "environment" THEN "roles" ELSE "check"
              /\ request = CHOOSE r \in Requests : TRUE
-----------------------------------------------------------------------------
AlignDown(hours, step) == IF step > 0 THEN hours - (hours % step) ELSE hours

AlignUp(hours, step) ==
  IF step <= 0 \/ hours % step = 0 THEN hours ELSE hours + step - (hours % step)

(* WeatherHorizon, WaveHorizon and CurrentHorizon.                         *)
Horizon(source, hours) ==
  IF source \in DOMAIN HorizonOf THEN Min({hours, HorizonOf[source]}) ELSE hours

WeatherStep(provider, step, fallback) ==
  CASE provider = "noaa_hrrr" -> 1
    [] provider \in {"ukmo_ukv", "dwd_icon_eu"} -> IF step = 1 THEN 1 ELSE 3
    [] provider = "metno_nordic" ->
         IF step = 1 THEN 1 ELSE IF step <= 3 THEN 3 ELSE IF step <= 6 THEN 6 ELSE 12
    [] provider = "ecmwf_aifs_open" -> 6
    [] provider = "ecmwf_ifs_open" -> 3
    [] provider = "gfs" /\ fallback -> 3
    [] OTHER -> step

Name == Components[component]
Preferred == request[Name].preferred
Fallback == request[Name].fallback
HaveFallback == Fallback \notin {"none", Preferred}

StepOf(name, role) ==
  CASE name = "weather" -> WeatherStep(request.weather[role], request.step, role = "fallback")
    [] name = "waves" -> IF role = "fallback" THEN 3 ELSE Max({1, request.waveStep})
    [] name = "current" -> Max({1, request.step})

Step(role) == StepOf(Name, role)

(* How far leads must go: a cycle may be a day older than the start.       *)
Target ==
  CASE Name = "weather" -> AlignUp(Hours + (IF Preferred = "existing-file" THEN 0 ELSE Allowance),
                                   Step("preferred"))
    [] Name = "waves" -> AlignUp(Hours + (IF Preferred = "gfs_wave" THEN Allowance ELSE 0),
                                 Step("preferred"))
    [] Name = "current" -> Hours

Child(source, from, hours, step, partial) ==
  [source |-> source, from |-> from, hours |-> hours, step |-> step, partial |-> partial]

PreferredChild == Child(Preferred, 0, AlignDown(Horizon(Preferred, Target), Step("preferred")),
                        Step("preferred"), Name = "current" /\ HaveFallback)

FirstValid(run) == Min(run.times)
LastValid(run) == Max(run.times)
Timed(run) == run.complete /\ run.times # {}

(* CoversRequestedWindow.                                                  *)
Covers(run) == Timed(run) /\ FirstValid(run) <= 0 /\ LastValid(run) >= Hours

(* The currents' fallback only continues what the preferred source began,  *)
(* if that has no hole and the rest is a whole number of steps.            *)
Contiguous(run, step) ==
  /\ (LastValid(run) - FirstValid(run)) % step = 0
  /\ Cardinality(run.times) = (LastValid(run) - FirstValid(run)) \div step + 1

TailOnly == /\ Timed(runs.preferred)
            /\ FirstValid(runs.preferred) <= 0
            /\ LastValid(runs.preferred) > 0 /\ LastValid(runs.preferred) < Hours
            /\ Contiguous(runs.preferred, Step("preferred"))
            /\ (Hours - LastValid(runs.preferred)) % Step("preferred") = 0

FallbackChild ==
  IF Name # "current"
  THEN Child(Fallback, 0, AlignUp(Hours + Allowance, Step("fallback")), Step("fallback"), FALSE)
  ELSE LET from == IF TailOnly THEN LastValid(runs.preferred) ELSE 0
       IN  Child(Fallback, from,
                 IF TailOnly THEN Hours - from ELSE AlignUp(Hours, Step("fallback")),
                 Step("fallback"), FALSE)

NeedsFallback == IF request.dry_run THEN PreferredChild.hours < Target
                 ELSE ~Covers(runs.preferred)

(* Mutant: a fallback that reaches the end is enough.                      *)
FallbackReaches == Timed(runs.fallback) /\ LastValid(runs.fallback) >= Hours

(* Currents may begin with the preferred source, if nothing lies between.  *)
FallbackAccepted ==
  IF Name # "current" THEN Covers(runs.fallback)
  ELSE LET mustBegin == IF Timed(runs.preferred) /\ FirstValid(runs.preferred) <= 0
                        THEN LastValid(runs.preferred) ELSE 0
       IN  /\ Timed(runs.fallback) /\ LastValid(runs.fallback) >= Hours
           /\ FirstValid(runs.fallback) <= mustBegin
-----------------------------------------------------------------------------
(* What a child delivers: GenerateEnvironment as its callers know it.      *)

OnCycle == {"gfs", "gfs_wave", "noaa_hrrr", "ukmo_ukv", "dwd_icon_eu", "metno_nordic",
            "ecmwf_ifs_open", "ecmwf_aifs_open", "noaa_rtofs_global"}

Leads(hours, step) == {k * step : k \in 0 .. hours \div step}

(* RtofsForecastHours: it begins at its native step, and ends at the last  *)
(* multiple of the step even when its series misses that.                  *)
RtofsHours(hours, step) ==
  LET by == Max({RtofsStep, step})
      rounded == hours - (hours % by)
  IN  {h \in RtofsStep .. hours : (h - RtofsStep) % by = 0}
      \union (IF rounded >= RtofsStep THEN {rounded} ELSE {})

(* UkvForecastHours: its hourly series ends before the forecast does.      *)
UkvHours(hours, step) ==
  IF step # 1 THEN Leads(hours, step)
  ELSE {lead \in 0 .. hours : lead <= UkvHourly \/ (lead - UkvHourly) % UkvStep = 0}

CycleHours(source, hours, step) ==
  CASE source = "noaa_rtofs_global" -> RtofsHours(hours, step)
    [] source = "ukmo_ukv" -> UkvHours(hours, step)
    [] OTHER -> Leads(hours, step)

(* A file of the user's and the one file that Marine.ie serves have their  *)
(* own times, whatever start, hours and step were asked for.               *)
AsGiven == {"existing-file", "marine_ie_irish_sea"}

(* All sets of valid times a child may deliver: every hour, or for some    *)
(* currents that may be partial the hours from the start that are there.   *)
(* Marine.ie's file has currents, and RTOFS no empty series.               *)
Deliveries(child) ==
  CASE child.source = "existing-file" -> GivenFiles
    [] child.source = "marine_ie_irish_sea" -> GivenFiles \ {{}}
    [] child.source \in OnCycle ->
         {{c + lead : lead \in CycleHours(child.source, child.hours, child.step)} : c \in Cycles}
         \ {{}}
    [] OTHER ->
         LET all == {child.from + lead : lead \in Leads(child.hours, child.step)}
         IN  IF child.partial THEN {{t \in all : t <= last} : last \in all} ELSE {all}

(* BuildTimeSequence refuses hours that are not a whole number of steps.   *)
Valid(child) == child.hours % child.step = 0

(* The fields of a component at a time.  GFS has its precipitation over    *)
(* two intervals that end together; a file may have a field without time.  *)
FieldsOf(source) ==
  CASE Name = "weather" /\ source = "gfs" -> <<"wind", "rain", "rain">>
    [] Name = "weather" /\ source # "gfs" -> <<"wind">>
    [] Name = "waves" -> <<"wave">>
    [] Name = "current" -> <<"current">>

Message(param, time, content) == [param |-> param, time |-> time, content |-> content]

Ascending(times) ==
  [i \in 1 .. Cardinality(times) |->
     CHOOSE t \in times : Cardinality({u \in times : u < t}) = i - 1]

Stream(source, times) ==
  LET fields == FieldsOf(source)
      at(t) == [f \in DOMAIN fields |-> Message(fields[f], t, f)]
      sorted == Ascending(times)
  IN  FlattenSeq([i \in DOMAIN sorted |-> at(sorted[i])])
      \o (IF source = "existing-file" THEN <<Message("mask", NoTime, 1)>> ELSE <<>>)

Covered(role, source, status) ==
  [component |-> Name, role |-> role, source |-> source, status |-> status]

(* run(): the lambda of the code.  A preferred source may fail when there  *)
(* is another; a dry run counts every child as complete but knows no times. *)
Run(role, child) ==
  /\ \/ /\ request.dry_run
        /\ runs' = [runs EXCEPT ![role] = [complete |-> TRUE, times |-> {}]]
        /\ coverage' = coverage \union {Covered(role, child.source, "planned")}
        /\ UNCHANGED <<inputs, faults, result>>
     \/ /\ ~request.dry_run /\ Valid(child)
        /\ \E times \in Deliveries(child) :
             /\ runs' = [runs EXCEPT ![role] = [complete |-> TRUE, times |-> times]]
             /\ inputs' = Append(inputs,
                  [label |-> <<Name, role>>, region |-> "requested",
                   file |-> File(Stream(child.source, times), FALSE)])
        /\ coverage' = coverage \union {Covered(role, child.source, "complete")}
        /\ UNCHANGED <<faults, result>>
     \/ /\ ~request.dry_run
        /\ IF Valid(child) THEN Fault ELSE UNCHANGED faults
        /\ coverage' = coverage \union {Covered(role, child.source, "failed")}
        /\ result' = IF role = "preferred" /\ HaveFallback THEN "none" ELSE "error"
        /\ UNCHANGED <<runs, inputs>>
  /\ UNCHANGED <<command, existed, expected, out, temporary, request, component>>

ToNextComponent == /\ component' = component + 1 /\ runs' = NoRuns /\ pc' = "preferred"
                   /\ UNCHANGED result

elsewhere == <<command, existed, inputs, expected, out, temporary, faults, request, coverage>>

Skip == /\ pc = "preferred" /\ component <= Len(Components) /\ Preferred = "none"
        /\ ToNextComponent
        /\ UNCHANGED elsewhere

RunPreferred == /\ pc = "preferred" /\ component <= Len(Components) /\ Preferred # "none"
                /\ Run("preferred", PreferredChild)
                /\ pc' = IF result' = "error" THEN "done" ELSE "judge"

Judge == /\ pc = "judge"
         /\ IF ~NeedsFallback THEN ToNextComponent
            ELSE /\ IF HaveFallback THEN pc' = "fallback" /\ UNCHANGED result ELSE Stop("error")
                 /\ UNCHANGED <<component, runs>>
         /\ UNCHANGED elsewhere

RunFallback == /\ pc = "fallback"
               /\ Run("fallback", FallbackChild)
               /\ pc' = IF result' = "error" THEN "done" ELSE "accept"

Accept == /\ pc = "accept"
          /\ IF request.dry_run \/ FallbackAccepted THEN ToNextComponent
             ELSE Stop("error") /\ UNCHANGED <<component, runs>>
          /\ UNCHANGED elsewhere

(* All components are there: composite them, unless nothing is to be done. *)
Conclude == /\ pc = "preferred" /\ component > Len(Components)
            /\ IF request.dry_run THEN Stop("ok")
               ELSE pc' = "check" /\ UNCHANGED result
            /\ UNCHANGED <<elsewhere, component, runs>>
-----------------------------------------------------------------------------
Extend == Skip \/ RunPreferred \/ Judge \/ RunFallback \/ Accept \/ Conclude

Next == Extend \/ ((Combine \/ Kill) /\ UNCHANGED extensionVars)

Spec == Init /\ [][Next]_vars
-----------------------------------------------------------------------------
(* Types.  No component is judged before its preferred source was run.     *)
TypeOK ==
  /\ command.how \in {"merge", "environment", "composite"}
  /\ pc \in {"preferred", "judge", "fallback", "accept", "roles", "check", "write",
             "scan", "rename", "inspect", "done"}
  /\ component \in 1 .. Len(Components) + 1
  /\ \A role \in DOMAIN runs : runs[role].complete \in BOOLEAN
  /\ runs.fallback.complete => HaveFallback
  /\ expected \in Nat
  /\ result \in {"none", "ok", "error", "killed"} /\ (pc = "done" <=> result # "none")
  /\ faults \in 0 .. MaxFaults

Published == out.ours

(* The hours of a published component, and the sources they came from.     *)
PublishedTimes(param) == {out.parts[i].time : i \in {k \in DOMAIN out.parts : out.parts[k].param = param}}

FieldOf == [weather |-> "wind", waves |-> "wave", current |-> "current"]

(* The longest time between two records of a source.                       *)
Spacing(name, c) ==
  CASE c.source = "noaa_rtofs_global" -> Max({RtofsStep, StepOf(name, c.role)})
    [] c.source = "ukmo_ukv" /\ Hours + Allowance > UkvHourly ->
         Max({UkvStep, StepOf(name, c.role)})
    [] OTHER -> StepOf(name, c.role)

(* "Generation fails instead of publishing a partial component"            *)
(* (docs/JOB_PROTOCOL.md:71): at every hour of the requested window a      *)
(* published component has a record of that hour or of at most a spacing   *)
(* of its sources before, although records were requested by lead,         *)
(* delivered by sources of different steps and origins, and trimmed after  *)
(* they had been judged.  The spacing is the step the source was asked for *)
(* but for two: RTOFS has no finer one than its own, and UKV is hourly for *)
(* UkvHourly leads only, past which an hourly request, too, has UkvStep.   *)
(* Files that are taken as they are may have any holes: of those the code  *)
(* looks at the first and the last time alone.                             *)
WindowCovered ==
  Published /\ command.how = "composite" =>
    \A name \in DOMAIN FieldOf :
      LET used == {c \in coverage : c.component = name /\ c.status = "complete"}
          widest == Max({Spacing(name, c) : c \in used})
      IN  request[name].preferred # "none" /\ (\A c \in used : c.source \notin AsGiven)
          => \A hour \in 0 .. Hours :
               \E t \in PublishedTimes(FieldOf[name]) : t <= hour /\ hour < t + widest

Positions == UNION {{i} \X DOMAIN inputs[i].file.parts : i \in DOMAIN inputs}
MessageAt(p) == inputs[p[1]].file.parts[p[2]]
Before(p, q) == p[1] < q[1] \/ (p[1] = q[1] /\ p[2] < q[2])
SameTuple(m, k) == m.time # NoTime /\ m.param = k.param /\ m.time = k.time

(* "The preferred input is retained when preferred and fallback inputs     *)
(* contain the same message tuple" (docs/JOB_PROTOCOL.md:63), "and removes *)
(* records beyond start + hours" (:70): what is published is exactly the   *)
(* messages within the window that no earlier message of the same tuple    *)
(* precedes, in their order; a merge drops nothing.                        *)
PublishedIsComposite ==
  Published =>
    LET inWindow(m) == m.time = NoTime \/ m.time <= command.through
        kept == IF command.how # "composite" THEN Positions
                ELSE {p \in Positions : /\ inWindow(MessageAt(p))
                                        /\ \A q \in Positions : Before(q, p) =>
                                             ~SameTuple(MessageAt(q), MessageAt(p))}
    IN  /\ ~out.cut /\ Len(out.parts) = Cardinality(kept)
        /\ \A p \in kept :
             out.parts[1 + Cardinality({q \in kept : Before(q, p)})] = MessageAt(p)

(* A call that reports an error has neither touched the output nor left a  *)
(* temporary, except that the last inspection of a checked merge fails     *)
(* after the output was replaced; no call replaces an output unasked.      *)
FailureKeepsOutput ==
  /\ result = "error" => /\ temporary = NoFile
                         /\ Published => command.how = "environment"
  /\ result = "ok" => (Published <=> ~(command.how = "composite" /\ request.dry_run))
  /\ Published => command.overwrite \/ ~existed
=============================================================================
