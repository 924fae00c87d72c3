----------------------------- MODULE GribStream -----------------------------
(***************************************************************************)
(* Putting GRIB streams together (src/grib.cpp): MergeGribStreams, its     *)
(* checked form MergeEnvironmentalGribs, and the composite of the forecast *)
(* extension, CompositeGribStreamsPreferFirst.  All three check, write a   *)
(* temporary beside the output, scan it again and rename it.               *)
(*                                                                         *)
(* A message is its tuple: what it measures at which level (param) and its *)
(* validity time; content tells apart messages of one tuple, such as two   *)
(* accumulation intervals that end together.  A file is a sequence of      *)
(* messages, the last of which may be cut off.                             *)
(***************************************************************************)
EXTENDS Integers, FiniteSets, SequencesExt

CONSTANTS
  NoTime,     \* the validity of a message that does not expose one
  MaxFaults   \* bound: downloads and file operations that fail

ASSUME StreamAssumption == NoTime \notin Int /\ MaxFaults \in Nat

VARIABLES
  command,    \* how to combine: how, overwrite and through, the last valid time
  existed,    \* history: whether there was an output before
  inputs,     \* the labelled files to combine, preferred first
  pc,         \* where the call is
  expected,   \* expected or output_count, the messages it thinks it has written
  out, temporary,   \* files
  result,     \* "none" until the call returns ("ok") or reports an error
  faults      \* faults so far

combineVars == <<command, existed, inputs, pc, expected, out, temporary, result, faults>>
-----------------------------------------------------------------------------
File(parts, cut) == [exists |-> TRUE, parts |-> parts, cut |-> cut, ours |-> TRUE]
NoFile == [exists |-> FALSE, parts |-> <<>>, cut |-> FALSE, ours |-> FALSE]
OldFile == [NoFile EXCEPT !.exists = TRUE]

Scans(file) == file.exists /\ ~file.cut

Messages == [param : STRING, time : Int \union {NoTime}, content : Nat]
Files == [exists : BOOLEAN, parts : Seq(Messages), cut : BOOLEAN, ours : BOOLEAN]

Times(file) == {file.parts[i].time : i \in DOMAIN file.parts} \ {NoTime}
Params(file) == {file.parts[i].param : i \in DOMAIN file.parts}

(* Mutant: the end of a call says nothing of how it ended.                *)
StopSilently(how) == pc' = "done" /\ UNCHANGED result

Stop(how) == pc' = "done" /\ result' = how

Fault == faults < MaxFaults /\ faults' = faults + 1

(* The catch (...) of both writers.                                        *)
Fails == Stop("error") /\ temporary' = NoFile
-----------------------------------------------------------------------------
(* MergeEnvironmentalGribs: each input must scan and have the fields of its *)
(* role, and weather and current must meet in space and time.              *)
RoleValid(input) == CASE input.label = "weather" -> "wind" \in Params(input.file)
                      [] input.label = "current" -> "current" \in Params(input.file)
                      [] input.label = "waves" -> "wave" \in Params(input.file)

RangesOverlap(S, T) == /\ S # {} /\ T # {}
                       /\ \E s \in S, t \in T : s <= t
                       /\ \E s \in S, t \in T : t <= s

RolesAccepted ==
  /\ inputs # <<>>
  /\ \A i \in DOMAIN inputs : Scans(inputs[i].file) /\ RoleValid(inputs[i])
  /\ \A i, j \in DOMAIN inputs :
       inputs[i].label = "weather" /\ inputs[j].label = "current" =>
         /\ inputs[i].region = inputs[j].region
         /\ RangesOverlap(Times(inputs[i].file), Times(inputs[j].file))

CheckRoles == /\ pc = "roles"
              /\ IF RolesAccepted THEN pc' = "check" /\ UNCHANGED result
                 ELSE Stop("error")
              /\ UNCHANGED <<command, existed, inputs, expected, out, temporary, faults>>

(* Mutant: an existing output is no obstacle.                              *)
RefusedNever == inputs = <<>>

Refused == inputs = <<>> \/ (out.exists /\ ~command.overwrite)

(* Before anything is written: the output, then every input in turn.       *)
Check == /\ pc = "check"
         /\ IF Refused \/ \E i \in DOMAIN inputs : ~Scans(inputs[i].file)
            THEN Stop("error") ELSE pc' = "write" /\ UNCHANGED result
         /\ UNCHANGED <<command, existed, inputs, expected, out, temporary, faults>>
-----------------------------------------------------------------------------
(* What a complete write leaves, for a merge every message in order.       *)
Merged == FlattenSeq([i \in DOMAIN inputs |-> inputs[i].file.parts])

(* A message without validity is never beyond the window.                  *)
Beyond(m) == m.time # NoTime /\ m.time > command.through

(* What the reading loop sees: every message with its input's label and    *)
(* its place there.                                                        *)
Numbered(input) == [n \in DOMAIN input.file.parts |->
                      [label |-> input.label, n |-> n, m |-> input.file.parts[n]]]
Read == FlattenSeq([i \in DOMAIN inputs |-> Numbered(inputs[i])])

(* The key under which the first message is retained.  A message that does *)
(* not tell its time has its input and its place there, so it is unique.   *)
Tuple(x) == IF x.m.time = NoTime THEN <<"unclassified", x.label, x.n>>
            ELSE <<x.m.param, x.m.time>>

(* One turn of the reading loop: trimmed, a duplicate, or written.         *)
Keep(kept, x) ==
  IF Beyond(x.m) \/ \E k \in Range(kept) : Tuple(k) = Tuple(x)
  THEN kept
  ELSE Append(kept, x)

Kept == LET kept[n \in 0 .. Len(Read)] == IF n = 0 THEN <<>> ELSE Keep(kept[n - 1], Read[n])
        IN  kept[Len(Read)]

Composite == [k \in DOMAIN Kept |-> Kept[k].m]

Wanted == IF command.how = "composite" THEN Composite ELSE Merged

(* Copying an input without bytes sets failbit and so ends a merge.        *)
Empties == command.how # "composite" /\ \E i \in DOMAIN inputs : inputs[i].file.parts = <<>>

(* The writes succeed, or fail and are noticed, or lose a tail that was    *)
(* still in the stream's buffer when it was closed, which nobody tests.    *)
Write ==
  /\ pc = "write"
  /\ \/ /\ ~Empties /\ expected' = Len(Wanted) /\ pc' = "scan"
        /\ \/ temporary' = File(Wanted, FALSE) /\ UNCHANGED faults
           \/ Fault /\ \E n \in 0 .. Len(Wanted) - 1, cut \in BOOLEAN :
                         temporary' = File(SubSeq(Wanted, 1, n), cut)
        /\ UNCHANGED result
     \/ Fails /\ (IF Empties THEN UNCHANGED faults ELSE Fault) /\ UNCHANGED expected
  /\ UNCHANGED <<command, existed, inputs, out>>

(* Mutant: the messages of the temporary are not counted.                  *)
CompleteIfScans == ~temporary.cut

Complete == ~temporary.cut /\ Len(temporary.parts) = expected

(* Scanned, counted and inspected.                                         *)
Rescan == /\ pc = "scan"
          /\ \/ Complete /\ pc' = "rename" /\ UNCHANGED <<temporary, result, faults>>
             \/ Fails /\ (IF Complete THEN Fault ELSE UNCHANGED faults)
          /\ UNCHANGED <<command, existed, inputs, expected, out>>

Rename == /\ pc = "rename"
          /\ \/ /\ out' = temporary /\ temporary' = NoFile /\ UNCHANGED faults
                /\ IF command.how = "environment" THEN pc' = "inspect" /\ UNCHANGED result
                   ELSE Stop("ok")
             \/ Fails /\ Fault /\ UNCHANGED out
          /\ UNCHANGED <<command, existed, inputs, expected>>

(* MergeEnvironmentalGribs inspects what it has published once more.       *)
Inspect == /\ pc = "inspect"
           /\ \/ Stop("ok") /\ UNCHANGED faults
              \/ Stop("error") /\ Fault
           /\ UNCHANGED <<command, existed, inputs, expected, out, temporary>>

(* The process is killed: files stay as they are.                          *)
Kill == /\ pc # "done" /\ Stop("killed")
        /\ UNCHANGED <<command, existed, inputs, expected, out, temporary, faults>>

Combine == CheckRoles \/ Check \/ Write \/ Rescan \/ Rename \/ Inspect
=============================================================================
