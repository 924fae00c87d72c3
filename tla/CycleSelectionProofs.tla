------------------------- MODULE CycleSelectionProofs -------------------------
(***************************************************************************)
(* What CycleSelection promises for any number of candidate cycles,        *)
(* forecast hours and concurrent downloads, any provider and any number of *)
(* faults.                                                                 *)
(*                                                                         *)
(* The invariant follows a byte from the service to the output: which hour *)
(* of which cycle and path was downloaded (BatchInv), what the temporaries *)
(* and the output are made of (StagedInv, OutInv), and, beside it, what    *)
(* the service was asked for (SentInv) and why candidates were left behind *)
(* (SkippedInv).                                                           *)
(***************************************************************************)
EXTENDS CycleSelection, FiniteSetTheorems, TLAPS

-----------------------------------------------------------------------------
(* Types.                                                                  *)

CallTypes ==
  /\ request \in [provider : Providers, auto : BOOLEAN,
                  overwrite : BOOLEAN, dry_run : BOOLEAN]
  /\ reach \in [1 .. Cycles -> 0 .. Hours]
  /\ pc \in {"begin", "probe", "batch", "prepare", "write", "repack", "verify",
             "replace", "rename", "inspect", "done"}
  /\ cycle \in 1 .. Cycles /\ via \in Paths
  /\ claimed \subseteq 1 .. Hours
  /\ got \in [1 .. Hours -> Bytes]
  /\ failed \in {"none", "validation", "other"}
  /\ result \in {"none", "ok", "error"} /\ (result # "none" <=> pc = "done")
  /\ faults \in [network : Nat, disk : Nat]
  /\ sent \in [1 .. Cycles -> [Paths -> SUBSET (1 .. Hours)]]
  /\ start \in [out : {NoFile, OldFile}, reach : [1 .. Cycles -> 0 .. Hours]]

(* What is running was claimed, is of this candidate, and is never more    *)
(* than the pool allows; nothing runs outside a batch.                     *)
RunningInv ==
  /\ IsFiniteSet(running) /\ Cardinality(running) <= Workers
  /\ running \subseteq [cycle : {cycle}, hour : claimed, via : {via}]
  /\ ~InBatch => running = {}

-----------------------------------------------------------------------------
(* What has been downloaded.                                               *)

Read(h) == got[h] # Unread

(* Everything in hand is of this candidate and path; an hour that was      *)
(* claimed is there, or on its way, until the batch fails.                 *)
BatchInv ==
  /\ \A h \in 1 .. Hours : Read(h) => got[h].cycle = cycle /\ got[h].via = via
  /\ \A h \in 1 .. Hours :
       Read(h) /\ ~got[h].intact => IsUkv /\ faults.network > 0
  /\ InBatch /\ failed = "none" =>
       \A h \in claimed : Read(h) \/ \E d \in running : d.hour = h
  /\ pc = "probe" => FirstStage = "probe"
  /\ pc = "batch" /\ FirstStage = "probe" => Read(Hours)
  /\ pc \in {"prepare", "write"} => \A h \in 1 .. Hours : Read(h)
  /\ pc = "begin" => got = Nothing /\ claimed = {} /\ failed = "none"

-----------------------------------------------------------------------------
(* What the files are made of.                                             *)

(* The first hours of cycle c on path v, one after the other, in a file of *)
(* this call.                                                              *)
Hourly(parts, c, v) ==
  /\ parts \in Seq([hour : 1 .. Hours, bytes : Bytes])
  /\ \A i \in DOMAIN parts :
       parts[i] = [hour |-> i, bytes |-> [cycle |-> c, via |-> v, intact |-> TRUE]]

Made(f, c, v) == /\ f.whose = "call" /\ f.cut \in BOOLEAN /\ f = File(f.parts, f.cut)
                 /\ Hourly(f.parts, c, v)

(* A file of this candidate; it is whole unless the disk failed it.        *)
Ours(f) == /\ Made(f, cycle, via)
           /\ faults.disk = 0 => ~f.cut /\ Len(f.parts) = Hours

StagedInv ==
  /\ pc \in {"begin", "probe", "batch", "prepare", "write", "inspect", "done"} =>
       temporary = NoFile /\ simple = NoFile
  /\ pc \in {"repack", "verify", "replace", "rename"} => Ours(temporary)
  /\ pc = "repack" => simple = NoFile /\ request.provider \in Repacks
  /\ pc \in {"verify", "replace", "rename"} =>
       IF request.provider \in Repacks THEN Ours(simple) /\ ~simple.cut ELSE simple = NoFile
  /\ pc \in {"replace", "inspect"} => IsUkv
  /\ pc \in {"replace", "rename"} => Accepted

(* The output is what it was, or gone while UKV replaces it, or ours.      *)
OutInv ==
  /\ pc \in {"begin", "probe", "batch", "prepare", "write", "repack", "verify", "replace"} =>
       out = start.out
  /\ pc = "rename" => out = start.out \/ (IsUkv /\ out = NoFile)
  /\ \/ out \in {NoFile, OldFile}
     \/ /\ pc \in {"inspect", "done"} /\ Ours(out) /\ ~out.cut
        /\ IsUkv => Len(out.parts) = Hours
  /\ pc = "done" /\ result = "error" =>
       (out = start.out /\ got = Nothing) \/ (IsUkv /\ faults.disk > 0)

-----------------------------------------------------------------------------
(* What the service was asked for, and what it has published.              *)

(* A provider that probes asks for more than the last hour only when that  *)
(* one is there.                                                           *)
SentInv ==
  request.provider \in Probes =>
    /\ \A c \in 1 .. Cycles, p \in Paths : sent[c][p] \subseteq {Hours} \/ reach[c] = Hours
    /\ pc = "batch" => reach[cycle] = Hours
    /\ Read(Hours) => reach[cycle] = Hours

NoFaults == faults.network = 0 /\ faults.disk = 0

(* Without faults a candidate is left behind only because it was short     *)
(* when the call began.                                                    *)
SkippedInv ==
  /\ \A c \in 1 .. Cycles : start.reach[c] <= reach[c]
  /\ NoFaults /\ InBatch /\ failed # "none" =>
       failed = "validation" /\ start.reach[cycle] < Hours
  /\ NoFaults => \A c \in 1 .. cycle - 1 : start.reach[c] < Hours
  /\ NoFaults /\ pc = "done" /\ result = "error" =>
       \/ start.out # NoFile /\ ~request.overwrite
       \/ ~request.auto
       \/ \A c \in 1 .. Cycles : start.reach[c] < Hours

CallInv == /\ CallTypes /\ RunningInv /\ BatchInv /\ StagedInv /\ OutInv
           /\ SentInv /\ SkippedInv

-----------------------------------------------------------------------------
(* Sequences and records of the model.                                     *)

LEMMA FunctionIsSequence ==
  ASSUME NEW n \in Nat, NEW S, NEW f \in [1 .. n -> S]
  PROVE  f \in Seq(S) /\ Len(f) = n
OBVIOUS

LEMMA NothingRead ==
  ASSUME CyclesAssumption
  PROVE  /\ Nothing \in [1 .. Hours -> Bytes]
         /\ \A h \in 1 .. Hours : Nothing[h] = Unread
BY DEF Nothing, Bytes

LEMMA NoFileIs ==
  /\ NoFile.cut = TRUE /\ NoFile.parts = <<>> /\ NoFile.whose = "nobody"
  /\ OldFile.cut = TRUE /\ OldFile.parts = <<>> /\ OldFile.whose = "before"
BY DEF NoFile, OldFile

(* A file of this call stays one while the candidate is the same.          *)
LEMMA OursStays ==
  ASSUME CallTypes, cycle' = cycle, via' = via,
         \/ faults' = faults
         \/ faults'.disk > faults.disk
  PROVE  /\ Ours(temporary) /\ temporary' = temporary => Ours(temporary)'
         /\ Ours(simple) /\ simple' = simple => Ours(simple)'
         /\ Ours(out) /\ out' = out => Ours(out)'
BY DEF Ours, CallTypes

(* The first n hours, written to a file.                                   *)
LEMMA ShortWrite ==
  ASSUME CallTypes, BatchInv, pc = "write", Readable, NEW n \in 0 .. Hours, NEW cut \in BOOLEAN
  PROVE  LET f == File(SubSeq(Segments, 1, n), cut)
         IN  Made(f, cycle, via) /\ f.cut = cut /\ Len(f.parts) = n
<1>. DEFINE parts == SubSeq(Segments, 1, n)
            S == [hour : 1 .. Hours, bytes : Bytes]
<1>1. Hours \in Nat /\ n \in Nat
  BY CyclesAssumption
<1>2. \A i \in 1 .. Hours : /\ Segments[i] = [hour |-> i, bytes |-> got[i]]
                            /\ Segments[i] \in S
                            /\ got[i] = [cycle |-> cycle, via |-> via, intact |-> TRUE]
  <2>1. ASSUME NEW i \in 1 .. Hours
        PROVE  got[i] \in Bytes /\ got[i] # Unread /\ got[i].intact = TRUE
               /\ got[i].cycle = cycle /\ got[i].via = via
    BY DEF CallTypes, BatchInv, Read, Readable, Bytes
  <2>. QED  BY <2>1 DEF Segments, Bytes
<1>3. parts \in Seq(S) /\ Len(parts) = n /\ DOMAIN parts = 1 .. n
      /\ \A i \in 1 .. n : parts[i] = Segments[i]
  <2>1. Segments \in [1 .. Hours -> S]
    BY <1>2 DEF Segments
  <2>2. Segments \in Seq(S) /\ Len(Segments) = Hours
    BY <1>1, <2>1, FunctionIsSequence
  <2>. HIDE DEF S
  <2>. QED  BY <1>1, <2>2
<1>4. Hourly(parts, cycle, via)
  <2>. HIDE DEF parts
  <2>1. \A i \in DOMAIN parts : i \in 1 .. Hours
    BY <1>1, <1>3
  <2>. QED  BY <1>2, <1>3, <2>1 DEF Hourly
<1>5. DEFINE f == File(parts, cut)
<1>6. f.whose = "call" /\ f.cut = cut /\ f.parts = parts
  BY DEF File
<1>7. f = File(f.parts, f.cut)
  BY <1>6
<1>8. Hourly(f.parts, cycle, via) /\ Len(f.parts) = n
  BY <1>3, <1>4, <1>6
<1>. QED  BY <1>6, <1>7, <1>8 DEF Made

(* All of them.                                                            *)
LEMMA AllWrittenIsOurs ==
  ASSUME CallTypes, BatchInv, pc = "write", Readable
  PROVE  Ours(File(Segments, FALSE))
<1>1. Hours \in Nat /\ Hours \in 0 .. Hours
  BY CyclesAssumption
<1>2. SubSeq(Segments, 1, Hours) = Segments
  BY <1>1 DEF Segments
<1>3. LET f == File(Segments, FALSE)
      IN  Made(f, cycle, via) /\ f.cut = FALSE /\ Len(f.parts) = Hours
  BY <1>1, <1>2, ShortWrite
<1>. QED  BY <1>3 DEF Ours

-----------------------------------------------------------------------------
(* CallInv is kept by every step.                                          *)

Late == {"prepare", "write", "repack", "verify", "replace", "rename", "inspect", "done"}

(* A step after the downloads: nothing of the candidate changes.           *)
LEMMA LateStep ==
  ASSUME CallInv, UNCHANGED stable, pc \in Late, pc' \in Late, pc' # "prepare",
         got' = got \/ got' = Nothing, pc' = "write" => pc = "prepare" /\ got' = got,
         result' \in {"none", "ok", "error"}, result' # "none" <=> pc' = "done",
         faults' \in [network : Nat, disk : Nat],
         faults'.network = faults.network, faults'.disk >= faults.disk,
         NoFaults' /\ result' = "error" =>
           \/ start.out # NoFile /\ ~request.overwrite
           \/ ~request.auto
           \/ \A c \in 1 .. Cycles : start.reach[c] < Hours
  PROVE  CallTypes' /\ RunningInv' /\ BatchInv' /\ SentInv' /\ SkippedInv'
<1>1. /\ request' = request /\ reach' = reach /\ cycle' = cycle /\ via' = via
      /\ claimed' = claimed /\ running' = running /\ failed' = failed /\ sent' = sent
      /\ start' = start
  BY DEF stable
<1>2. ~InBatch /\ ~InBatch' /\ running = {}
  BY DEF CallInv, RunningInv, InBatch, Late
<1>3. CallTypes /\ faults.network \in Nat /\ faults.disk \in Nat
  BY DEF CallInv, CallTypes
<1>4. CallTypes'
  <2>1. got' \in [1 .. Hours -> Bytes]
    BY <1>3, NothingRead, CyclesAssumption DEF CallTypes
  <2>. QED  BY <1>1, <1>3, <2>1 DEF CallTypes, Late
<1>5. RunningInv'
  BY <1>1, <1>2 DEF CallInv, RunningInv
<1>6. \A h \in 1 .. Hours : Read(h)' => Read(h) /\ got'[h] = got[h]
  BY NothingRead, CyclesAssumption DEF Read
<1>7. BatchInv'
  <2>1. BatchInv
    BY DEF CallInv
  <2>2. IsUkv' = IsUkv /\ FirstStage' = FirstStage
    BY <1>1 DEF IsUkv, FirstStage
  <2>3. \A h \in 1 .. Hours : Read(h)' => got'[h].cycle = cycle /\ got'[h].via = via
    BY <1>6, <2>1 DEF BatchInv
  <2>4. \A h \in 1 .. Hours : Read(h)' /\ ~got'[h].intact => IsUkv /\ faults'.network > 0
    BY <1>3, <1>6, <2>1 DEF BatchInv
  <2>5. pc' \in {"prepare", "write"} => \A h \in 1 .. Hours : Read(h)'
    BY <2>1 DEF BatchInv, Read
  <2>. QED  BY <1>1, <1>2, <2>2, <2>3, <2>4, <2>5 DEF BatchInv, InBatch, Late
<1>8. SentInv'
  <2>1. Hours \in 1 .. Hours
    BY CyclesAssumption
  <2>. QED  BY <1>1, <1>6, <2>1 DEF CallInv, SentInv, Late
<1>9. SkippedInv'
  <2>1. NoFaults' => NoFaults
    BY <1>3, <1>4 DEF NoFaults, CallTypes
  <2>. QED  BY <1>1, <1>2, <2>1 DEF CallInv, SkippedInv
<1>. QED  BY <1>4, <1>5, <1>7, <1>8, <1>9

(* A fault of the disk is counted, and spoils no earlier promise.          *)
LEMMA DiskFaultCounts ==
  ASSUME CallTypes, DiskFault
  PROVE  /\ faults' \in [network : Nat, disk : Nat]
         /\ faults'.network = faults.network /\ faults'.disk = faults.disk + 1
         /\ faults'.disk > faults.disk /\ faults.disk \in Nat /\ faults'.disk > 0
         /\ ~NoFaults'
BY DEF CallTypes, DiskFault, NoFaults

(* The catch of the writing part.                                          *)
LEMMA FailsKeeps ==
  ASSUME CallInv, UNCHANGED stable, Fails,
         pc \in {"write", "repack", "verify", "replace", "rename"},
         \/ DiskFault
         \/ /\ faults' = faults /\ ~NoFaults
            /\ pc \in {"write", "repack", "verify"}
  PROVE  CallInv'
<1>1. /\ pc' = "done" /\ result' = "error" /\ temporary' = NoFile /\ simple' = NoFile
      /\ got' = Nothing /\ out' = out /\ start' = start /\ request' = request
  BY DEF Fails, Stop, CleansUp, stable
<1>2. /\ faults' \in [network : Nat, disk : Nat] /\ faults'.network = faults.network
      /\ faults'.disk >= faults.disk /\ ~NoFaults' /\ (DiskFault => faults'.disk > 0)
  <2>1. CallTypes
    BY DEF CallInv
  <2>2. CASE DiskFault
    BY <2>1, <2>2, DiskFaultCounts
  <2>3. CASE faults' = faults /\ ~NoFaults
    BY <2>1, <2>3 DEF CallTypes, NoFaults, DiskFault
  <2>. QED  BY <2>2, <2>3
<1>3. CallTypes' /\ RunningInv' /\ BatchInv' /\ SentInv' /\ SkippedInv'
  BY <1>1, <1>2, LateStep DEF Late
<1>4. StagedInv'
  BY <1>1 DEF StagedInv
<1>5. OutInv'
  <2>1. OutInv
    BY DEF CallInv
  <2>2. out \in {NoFile, OldFile}
    BY <2>1 DEF OutInv
  <2>3. (out = start.out /\ got' = Nothing) \/ (IsUkv' /\ faults'.disk > 0)
    BY <1>1, <1>2, <2>1 DEF OutInv, IsUkv
  <2>. QED  BY <1>1, <2>2, <2>3 DEF OutInv
<1>. QED  BY <1>3, <1>4, <1>5 DEF CallInv

LEMMA PrepareKeeps ==
  ASSUME CallInv, Prepare
  PROVE  CallInv'
<1>1. /\ pc = "prepare" /\ UNCHANGED stable /\ out' = out /\ temporary' = temporary
      /\ simple' = simple /\ start' = start /\ request' = request /\ CallTypes
      /\ temporary = NoFile /\ simple = NoFile /\ out = start.out /\ result = "none"
  BY DEF Prepare, files, stable, CallInv, CallTypes, StagedInv, OutInv
<1>2. CASE pc' = "write" /\ result' = result /\ got' = got /\ faults' = faults
  <2>1. CallTypes' /\ RunningInv' /\ BatchInv' /\ SentInv' /\ SkippedInv'
    BY <1>1, <1>2, LateStep DEF Late, CallTypes
  <2>2. StagedInv' /\ OutInv'
    BY <1>1, <1>2 DEF CallInv, StagedInv, OutInv
  <2>. QED  BY <2>1, <2>2 DEF CallInv
<1>3. CASE DiskFault /\ Stop("error") /\ got' = IF IsUkv THEN got ELSE Nothing
  <2>1. CallTypes' /\ RunningInv' /\ BatchInv' /\ SentInv' /\ SkippedInv'
    BY <1>1, <1>3, LateStep, DiskFaultCounts DEF Late, Stop
  <2>2. StagedInv'
    BY <1>1, <1>3 DEF StagedInv, Stop
  <2>3. OutInv'
    <3>1. faults'.disk > 0 /\ IsUkv' = IsUkv
      BY <1>1, <1>3, DiskFaultCounts DEF IsUkv
    <3>. QED  BY <1>1, <1>3, <3>1 DEF CallInv, OutInv, Stop
  <2>. QED  BY <2>1, <2>2, <2>3 DEF CallInv
<1>. QED  BY <1>2, <1>3 DEF Prepare

LEMMA WriteKeeps ==
  ASSUME CallInv, Write
  PROVE  CallInv'
<1>1. /\ pc = "write" /\ UNCHANGED stable /\ out' = out /\ simple' = simple /\ got' = got
      /\ result' = result /\ start' = start /\ request' = request /\ CallTypes /\ BatchInv
      /\ simple = NoFile /\ out = start.out /\ result = "none" /\ Readable
      /\ cycle' = cycle /\ via' = via
      /\ pc' = IF request.provider \in Repacks THEN "repack" ELSE "verify"
  BY DEF Write, stable, CallInv, CallTypes, StagedInv, OutInv
<1>2. /\ faults' \in [network : Nat, disk : Nat] /\ faults'.network = faults.network
      /\ faults'.disk >= faults.disk /\ Ours(temporary)'
  <2>1. CASE temporary' = File(Segments, FALSE) /\ faults' = faults
    <3>1. Ours(File(Segments, FALSE))
      BY <1>1, AllWrittenIsOurs
    <3>2. faults' \in [network : Nat, disk : Nat] /\ faults'.network = faults.network
          /\ faults'.disk >= faults.disk
      BY <1>1, <2>1 DEF CallTypes
    <3>3. Ours(temporary)'
      BY <1>1, <2>1, <3>1 DEF Ours
    <3>. QED  BY <3>2, <3>3
  <2>2. CASE /\ DiskFault
             /\ \E n \in 0 .. Hours - 1, cut \in BOOLEAN :
                  temporary' = File(SubSeq(Segments, 1, n), cut)
    <3>1. PICK n \in 0 .. Hours - 1, cut \in BOOLEAN :
                 temporary' = File(SubSeq(Segments, 1, n), cut)
      BY <2>2
    <3>2. n \in 0 .. Hours
      BY CyclesAssumption
    <3>3. faults'.disk # 0 /\ faults'.disk >= faults.disk /\ faults' \in [network : Nat, disk : Nat]
          /\ faults'.network = faults.network
      BY <1>1, <2>2, DiskFaultCounts
    <3>4. Made(File(SubSeq(Segments, 1, n), cut), cycle, via)
      BY <1>1, <3>2, ShortWrite
    <3>5. Ours(temporary)'
      BY <1>1, <3>1, <3>3, <3>4 DEF Ours
    <3>. QED  BY <3>3, <3>5
  <2>. QED  BY <2>1, <2>2 DEF Write
<1>3. CallTypes' /\ RunningInv' /\ BatchInv' /\ SentInv' /\ SkippedInv'
  BY <1>1, <1>2, LateStep DEF Late
<1>4. StagedInv'
  <2>1. request.provider \in Repacks => pc' = "repack"
    BY <1>1
  <2>. QED  BY <1>1, <1>2, <2>1 DEF StagedInv
<1>5. OutInv'
  BY <1>1 DEF CallInv, OutInv
<1>. QED  BY <1>3, <1>4, <1>5 DEF CallInv

(* A field that cannot be read was spoilt by the network.                  *)
LEMMA WriteFailsKeeps ==
  ASSUME CallInv, WriteFails
  PROVE  CallInv'
<1>1. pc = "write" /\ UNCHANGED stable /\ Fails
  BY DEF WriteFails
<1>2. CASE ~Readable /\ faults' = faults
  <2>1. BatchInv /\ CallTypes
    BY DEF CallInv
  <2>2. PICK h \in 1 .. Hours : ~got[h].intact
    BY <1>2 DEF Readable
  <2>3. Read(h)
    BY <1>1, <2>1 DEF BatchInv
  <2>4. ~NoFaults
    BY <2>1, <2>2, <2>3 DEF BatchInv, NoFaults, CallTypes
  <2>. QED  BY <1>1, <1>2, <2>4, FailsKeeps
<1>3. CASE DiskFault
  BY <1>1, <1>3, FailsKeeps
<1>. QED  BY <1>2, <1>3 DEF WriteFails

(* Only the disk leaves nothing to pack again.                             *)
LEMMA RepackKeeps ==
  ASSUME CallInv, Repack
  PROVE  CallInv'
<1>1. /\ pc = "repack" /\ UNCHANGED stable /\ CallTypes /\ Ours(temporary)
      /\ cycle' = cycle /\ via' = via /\ request' = request /\ start' = start
      /\ out = start.out /\ result = "none" /\ out \in {NoFile, OldFile}
  BY DEF Repack, stable, CallInv, CallTypes, StagedInv, OutInv
<1>2. CASE /\ temporary.parts # <<>>
           /\ simple' = File(temporary.parts, FALSE) /\ pc' = "verify"
           /\ UNCHANGED <<out, temporary, result, got, faults>>
  <2>1. Made(File(temporary.parts, FALSE), cycle, via)
    BY <1>1 DEF Ours, Made, File
  <2>2. Ours(File(temporary.parts, FALSE)) /\ ~File(temporary.parts, FALSE).cut
    BY <1>1, <2>1 DEF Ours, File
  <2>3. Ours(simple)' /\ ~simple'.cut
    BY <1>1, <1>2, <2>2 DEF Ours
  <2>4. Ours(temporary)'
    BY <1>1, <1>2, OursStays
  <2>5. CallTypes' /\ RunningInv' /\ BatchInv' /\ SentInv' /\ SkippedInv'
    BY <1>1, <1>2, LateStep DEF Late, CallTypes
  <2>6. StagedInv'
    <3>1. request.provider \in Repacks
      BY <1>1 DEF CallInv, StagedInv
    <3>. QED  BY <1>1, <1>2, <2>3, <2>4, <3>1 DEF StagedInv
  <2>7. OutInv'
    BY <1>1, <1>2 DEF OutInv
  <2>. QED  BY <2>5, <2>6, <2>7 DEF CallInv
<1>3. CASE temporary.parts = <<>> /\ Fails /\ faults' = faults
  <2>1. Len(temporary.parts) # Hours
    BY <1>3, CyclesAssumption
  <2>2. ~NoFaults
    BY <1>1, <2>1 DEF Ours, NoFaults
  <2>. QED  BY <1>1, <1>3, <2>2, FailsKeeps
<1>4. CASE DiskFault /\ Fails
  BY <1>1, <1>4, FailsKeeps
<1>. QED  BY <1>2, <1>3, <1>4 DEF Repack

(* What is about to be installed.                                          *)
LEMMA StagedIsOurs ==
  ASSUME CallInv, pc \in {"verify", "replace", "rename"}
  PROVE  Ours(Staged)
BY DEF CallInv, StagedInv, Staged

LEMMA VerifyKeeps ==
  ASSUME CallInv, Verify
  PROVE  CallInv'
<1>1. /\ pc = "verify" /\ UNCHANGED stable /\ CallTypes /\ Ours(temporary)
      /\ cycle' = cycle /\ via' = via /\ request' = request /\ start' = start
      /\ out = start.out /\ result = "none" /\ out \in {NoFile, OldFile} /\ StagedInv
  BY DEF Verify, stable, CallInv, CallTypes, StagedInv, OutInv
<1>2. CASE /\ Accepted
           /\ pc' = IF IsUkv THEN "replace" ELSE "rename"
           /\ UNCHANGED <<files, result, got, faults>>
  <2>1. out' = out /\ temporary' = temporary /\ simple' = simple
    BY <1>2 DEF files
  <2>2. Ours(temporary)' /\ (Ours(simple) => Ours(simple)')
    BY <1>1, <1>2, <2>1, OursStays
  <2>3. Accepted' /\ IsUkv' = IsUkv
    BY <1>1, <1>2, <2>1 DEF Accepted, Staged, IsUkv
  <2>4. CallTypes' /\ RunningInv' /\ BatchInv' /\ SentInv' /\ SkippedInv'
    BY <1>1, <1>2, LateStep DEF Late, CallTypes
  <2>5. StagedInv'
    BY <1>1, <1>2, <2>1, <2>2, <2>3 DEF StagedInv
  <2>6. OutInv'
    BY <1>1, <1>2, <2>1 DEF OutInv
  <2>. QED  BY <2>4, <2>5, <2>6 DEF CallInv
<1>3. CASE ~Accepted /\ Fails /\ faults' = faults
  <2>1. Ours(Staged)
    BY <1>1, StagedIsOurs
  <2>2. ~NoFaults
    BY <1>3, <2>1 DEF Accepted, Ours, NoFaults
  <2>. QED  BY <1>1, <1>3, <2>2, FailsKeeps
<1>4. CASE DiskFault /\ Fails
  BY <1>1, <1>4, FailsKeeps
<1>. QED  BY <1>2, <1>3, <1>4 DEF Verify

LEMMA RemoveOldKeeps ==
  ASSUME CallInv, RemoveOld
  PROVE  CallInv'
<1>1. /\ pc = "replace" /\ UNCHANGED stable /\ CallTypes /\ Ours(temporary) /\ IsUkv
      /\ cycle' = cycle /\ via' = via /\ request' = request /\ start' = start
      /\ result = "none" /\ StagedInv /\ Accepted
  BY DEF RemoveOld, stable, CallInv, CallTypes, StagedInv, OutInv
<1>2. CASE /\ pc' = "rename" /\ out' = NoFile
           /\ UNCHANGED <<temporary, simple, result, got, faults>>
  <2>1. Ours(temporary)' /\ (Ours(simple) => Ours(simple)')
    BY <1>1, <1>2, OursStays
  <2>2. Accepted' /\ IsUkv'
    BY <1>1, <1>2 DEF Accepted, Staged, IsUkv
  <2>3. CallTypes' /\ RunningInv' /\ BatchInv' /\ SentInv' /\ SkippedInv'
    BY <1>1, <1>2, LateStep DEF Late, CallTypes
  <2>4. StagedInv'
    BY <1>1, <1>2, <2>1, <2>2 DEF StagedInv
  <2>5. OutInv'
    BY <1>1, <1>2, <2>2 DEF OutInv
  <2>. QED  BY <2>3, <2>4, <2>5 DEF CallInv
<1>3. CASE DiskFault /\ Fails
  BY <1>1, <1>3, FailsKeeps
<1>. QED  BY <1>2, <1>3 DEF RemoveOld

LEMMA RenameKeeps ==
  ASSUME CallInv, Rename
  PROVE  CallInv'
<1>1. /\ pc = "rename" /\ UNCHANGED stable /\ CallTypes /\ Accepted /\ Ours(Staged)
      /\ cycle' = cycle /\ via' = via /\ request' = request /\ start' = start
      /\ result = "none"
  BY StagedIsOurs DEF Rename, stable, CallInv, CallTypes, StagedInv
<1>2. CASE /\ out' = Staged /\ CleansUp /\ faults' = faults
           /\ IF IsUkv THEN pc' = "inspect" /\ UNCHANGED result ELSE Stop("ok")
  <2>1. /\ temporary' = NoFile /\ simple' = NoFile /\ got' = Nothing
        /\ pc' = (IF IsUkv THEN "inspect" ELSE "done")
        /\ result' = (IF IsUkv THEN "none" ELSE "ok")
    BY <1>1, <1>2 DEF CleansUp, Stop
  <2>2. IsUkv' = IsUkv
    BY <1>1 DEF IsUkv
  <2>3. Ours(out)' /\ ~out'.cut /\ (IsUkv => Len(out'.parts) = Hours)
    BY <1>1, <1>2 DEF Ours, Accepted
  <2>4. CallTypes' /\ RunningInv' /\ BatchInv' /\ SentInv' /\ SkippedInv'
    <3>1. faults' \in [network : Nat, disk : Nat] /\ faults'.network = faults.network
          /\ faults'.disk >= faults.disk
      BY <1>1, <1>2 DEF CallTypes
    <3>. QED  BY <1>1, <2>1, <3>1, LateStep DEF Late
  <2>5. StagedInv'
    BY <2>1, <2>2 DEF StagedInv
  <2>6. OutInv'
    BY <2>1, <2>2, <2>3 DEF OutInv
  <2>. QED  BY <2>4, <2>5, <2>6 DEF CallInv
<1>3. CASE DiskFault /\ Fails
  BY <1>1, <1>3, FailsKeeps
<1>. QED  BY <1>2, <1>3 DEF Rename

LEMMA InspectKeeps ==
  ASSUME CallInv, Inspect
  PROVE  CallInv'
<1>1. /\ pc = "inspect" /\ UNCHANGED stable /\ CallTypes /\ IsUkv /\ pc' = "done"
      /\ cycle' = cycle /\ via' = via /\ request' = request /\ start' = start
      /\ out' = out /\ temporary' = NoFile /\ simple' = NoFile /\ got' = got
      /\ result' \in {"ok", "error"} /\ (result' = "error" => DiskFault)
      /\ OutInv
  BY DEF Inspect, Stop, files, stable, CallInv, CallTypes, StagedInv
<1>2. /\ faults' \in [network : Nat, disk : Nat] /\ faults'.network = faults.network
      /\ faults'.disk >= faults.disk
      /\ (result' = "error" => faults'.disk > 0 /\ ~NoFaults')
      /\ (faults' = faults \/ faults'.disk > faults.disk)
  <2>1. CASE faults' = faults /\ result' = "ok"
    BY <1>1, <2>1 DEF CallTypes
  <2>2. CASE DiskFault
    BY <1>1, <2>2, DiskFaultCounts
  <2>. QED  BY <2>1, <2>2 DEF Inspect, Stop
<1>3. CallTypes' /\ RunningInv' /\ BatchInv' /\ SentInv' /\ SkippedInv'
  BY <1>1, <1>2, LateStep DEF Late
<1>4. StagedInv'
  BY <1>1 DEF StagedInv
<1>5. OutInv'
  <2>1. IsUkv'
    BY <1>1 DEF IsUkv
  <2>2. out \in {NoFile, OldFile} \/ (Ours(out)' /\ ~out.cut /\ (IsUkv => Len(out.parts) = Hours))
    BY <1>1, <1>2, OursStays DEF OutInv
  <2>. QED  BY <1>1, <1>2, <2>1, <2>2 DEF OutInv
<1>. QED  BY <1>3, <1>4, <1>5 DEF CallInv

-----------------------------------------------------------------------------
(* The steps of the downloads leave every file alone.                      *)
LEMMA EarlyStep ==
  ASSUME CallInv, UNCHANGED files, request' = request, start' = start,
         pc \in {"begin", "probe", "batch"},
         \/ pc' \in {"begin", "probe", "batch", "prepare"}
         \/ pc' = "done" /\ got' = Nothing
  PROVE  /\ StagedInv' /\ OutInv'
         /\ temporary = NoFile /\ simple = NoFile /\ out = start.out /\ start.out \in {NoFile, OldFile}
<1>1. /\ temporary = NoFile /\ simple = NoFile /\ out = start.out /\ CallTypes
      /\ temporary' = NoFile /\ simple' = NoFile /\ out' = start.out /\ IsUkv' = IsUkv
  BY DEF CallInv, StagedInv, OutInv, files, IsUkv
<1>2. start.out \in {NoFile, OldFile}
  BY <1>1 DEF CallTypes
<1>3. StagedInv'
  BY <1>1 DEF StagedInv
<1>4. OutInv'
  BY <1>1, <1>2 DEF OutInv
<1>. QED  BY <1>1, <1>2, <1>3, <1>4

LEMMA FirstStageIs ==
  /\ FirstStage \in {"probe", "batch"}
  /\ FirstStage = "probe" <=> request.provider \in Probes
BY DEF FirstStage

LEMMA BeginKeeps ==
  ASSUME CallInv, Begin
  PROVE  CallInv'
<1>1. /\ pc = "begin" /\ UNCHANGED <<request, reach, files, faults, start>>
      /\ cycle' = cycle /\ via' = via /\ claimed' = {} /\ running' = {} /\ running = {}
      /\ got' = Nothing /\ got' = got /\ failed' = "none" /\ failed' = failed /\ sent' = sent
      /\ CallTypes /\ SentInv /\ SkippedInv /\ claimed = {} /\ FirstStage' = FirstStage
      /\ RunningInv
  BY DEF Begin, batch, CallInv, RunningInv, BatchInv, InBatch, FirstStage
<1>2. /\ pc' \in {"probe", "batch", "done"}
      /\ pc' # "done" => pc' = FirstStage /\ result' = result
      /\ pc' = "done" => result' \in {"ok", "error"}
      /\ pc' = "done" /\ result' = "error" => out # NoFile /\ ~request.overwrite
  BY <1>1, FirstStageIs DEF Begin, Stop, Refused
<1>3. StagedInv' /\ OutInv' /\ out = start.out
  BY <1>1, <1>2, EarlyStep
<1>4. CallTypes'
  BY <1>1, <1>2 DEF CallTypes
<1>5. RunningInv'
  BY <1>1 DEF RunningInv
<1>6. \A h \in 1 .. Hours : ~Read(h)'
  BY <1>1, NothingRead, CyclesAssumption DEF Read
<1>7. BatchInv'
  BY <1>1, <1>2, <1>6, FirstStageIs DEF BatchInv, InBatch
<1>8. SentInv'
  <2>1. Hours \in 1 .. Hours
    BY CyclesAssumption
  <2>. QED  BY <1>1, <1>2, <1>6, <2>1, FirstStageIs DEF SentInv
<1>9. SkippedInv'
  BY <1>1, <1>2, <1>3 DEF SkippedInv, InBatch, NoFaults
<1>. QED  BY <1>3, <1>4, <1>5, <1>7, <1>8, <1>9 DEF CallInv

(* The items of a batch are hours.                                         *)
LEMMA ItemsAre ==
  ASSUME CallInv, InBatch
  PROVE  /\ Items \subseteq 1 .. Hours
         /\ pc = "probe" => Items = {Hours}
         /\ pc = "batch" /\ FirstStage = "probe" => Items = 1 .. Hours - 1
         /\ pc = "batch" /\ FirstStage # "probe" => Items = 1 .. Hours
<1>1. Hours \in 1 .. Hours /\ 1 .. Hours - 1 \subseteq 1 .. Hours
  BY CyclesAssumption
<1>2. CASE pc = "probe"
  BY <1>1, <1>2 DEF Items
<1>3. CASE pc = "batch" /\ FirstStage = "probe"
  BY <1>1, <1>3 DEF Items
<1>4. CASE pc = "batch" /\ FirstStage # "probe"
  BY <1>4 DEF Items
<1>. QED  BY <1>2, <1>3, <1>4 DEF InBatch

LEMMA ClaimKeeps ==
  ASSUME CallInv, NEW h \in 1 .. Hours, Claim(h)
  PROVE  CallInv'
<1>. DEFINE d == [cycle |-> cycle, hour |-> h, via |-> via]
<1>1. /\ InBatch /\ Cardinality(running) < Workers /\ h \in Items
      /\ claimed' = claimed \union {h} /\ running' = running \union {d}
      /\ sent' = [sent EXCEPT ![cycle][via] = @ \union {h}]
      /\ UNCHANGED <<request, reach, pc, cycle, via, got, failed, files, result, faults, start>>
  <2>1. Cardinality(running) \in Nat
    BY FS_CardinalityType DEF CallInv, RunningInv
  <2>2. Cardinality(running) < Workers
    BY <2>1, CyclesAssumption DEF Claim
  <2>. QED  BY <2>2 DEF Claim
<1>2. CallTypes /\ BatchInv /\ RunningInv /\ SentInv /\ SkippedInv
  BY DEF CallInv
<1>3. StagedInv' /\ OutInv'
  BY <1>1, EarlyStep DEF InBatch
<1>4. CallTypes'
  <2>1. sent' \in [1 .. Cycles -> [Paths -> SUBSET (1 .. Hours)]]
    BY <1>1, <1>2 DEF CallTypes
  <2>. QED  BY <1>1, <1>2, <2>1 DEF CallTypes
<1>5. RunningInv'
  <2>1. IsFiniteSet(running') /\ Cardinality(running') <= Workers
    <3>1. IsFiniteSet(running) /\ Cardinality(running) \in Nat
      BY <1>2, FS_CardinalityType DEF RunningInv
    <3>. HIDE DEF d
    <3>2. IsFiniteSet(running \union {d})
      BY <3>1, FS_AddElement
    <3>3. Cardinality(running \union {d}) \in {Cardinality(running), Cardinality(running) + 1}
      BY <3>1, FS_AddElement
    <3>. QED  BY <1>1, <1>2, <3>1, <3>2, <3>3, CyclesAssumption DEF RunningInv
  <2>2. running' \subseteq [cycle : {cycle'}, hour : claimed', via : {via'}]
    BY <1>1, <1>2 DEF RunningInv
  <2>3. InBatch'
    BY <1>1 DEF InBatch
  <2>. QED  BY <2>1, <2>2, <2>3 DEF RunningInv
<1>6. BatchInv'
  <2>1. failed = "none" => \A k \in claimed' : Read(k)' \/ \E e \in running' : e.hour = k
    <3>1. d.hour = h
      OBVIOUS
    <3>. QED  BY <1>1, <1>2, <3>1 DEF BatchInv, Read
  <2>2. pc # "begin"
    BY <1>1 DEF InBatch
  <2>3. FirstStage' = FirstStage /\ IsUkv' = IsUkv
    BY <1>1 DEF FirstStage, IsUkv
  <2>. QED  BY <1>1, <1>2, <2>1, <2>2, <2>3 DEF BatchInv, Read
<1>7. SentInv'
  <2>1. SUFFICES ASSUME request.provider \in Probes, NEW c \in 1 .. Cycles, NEW p \in Paths
                 PROVE  sent'[c][p] \subseteq {Hours} \/ reach[c] = Hours
    BY <1>1, <1>2 DEF SentInv, Read
  <2>2. CASE c = cycle /\ p = via
    <3>1. sent'[c][p] = sent[c][p] \union {h}
      BY <1>1, <1>2, <2>2 DEF CallTypes
    <3>2. h = Hours \/ reach[cycle] = Hours
      BY <1>1, <1>2, <2>1, ItemsAre DEF SentInv, InBatch
    <3>. QED  BY <1>2, <2>1, <2>2, <3>1, <3>2 DEF SentInv
  <2>3. CASE ~(c = cycle /\ p = via)
    <3>1. sent'[c][p] = sent[c][p]
      BY <1>1, <1>2, <2>3 DEF CallTypes
    <3>. QED  BY <1>2, <2>1, <3>1 DEF SentInv
  <2>. QED  BY <2>2, <2>3
<1>8. SkippedInv'
  BY <1>1, <1>2 DEF SkippedInv, NoFaults, InBatch
<1>. QED  BY <1>3, <1>4, <1>5, <1>6, <1>7, <1>8 DEF CallInv

LEMMA DownloadKeeps ==
  ASSUME CallInv, NEW d \in running, Download(d)
  PROVE  CallInv'
<1>1. /\ CallTypes /\ BatchInv /\ RunningInv /\ SentInv /\ SkippedInv
      /\ running' = running \ {d}
      /\ UNCHANGED <<request, reach, pc, cycle, via, claimed, files, result, sent, start>>
  BY DEF CallInv, Download
<1>2. /\ d = [cycle |-> cycle, hour |-> d.hour, via |-> via] /\ d.hour \in claimed
      /\ d.hour \in 1 .. Hours /\ d.cycle = cycle /\ d.via = via /\ InBatch
  BY <1>1 DEF RunningInv, CallTypes
<1>3. StagedInv' /\ OutInv'
  BY <1>1, <1>2, EarlyStep DEF InBatch
<1>4. FirstStage' = FirstStage /\ IsUkv' = IsUkv /\ InBatch' /\ pc \in {"probe", "batch"}
  BY <1>1, <1>2 DEF FirstStage, IsUkv, InBatch
<1>5. RunningInv'
  <2>1. IsFiniteSet(running) /\ Cardinality(running) \in Nat
    BY <1>1, FS_CardinalityType DEF RunningInv
  <2>2. IsFiniteSet(running \ {d}) /\ Cardinality(running \ {d}) = Cardinality(running) - 1
    BY <2>1, FS_RemoveElement
  <2>3. Cardinality(running') <= Workers
    BY <1>1, <2>1, <2>2, CyclesAssumption DEF RunningInv
  <2>. QED  BY <1>1, <1>4, <2>2, <2>3 DEF RunningInv
<1>6. CASE \E intact \in BOOLEAN :
             /\ Store(d, intact) /\ failed' = failed /\ d.hour <= reach[d.cycle]
             /\ \/ intact /\ faults' = faults
                \/ ~intact /\ IsUkv /\ NetworkFault
  <2>1. PICK intact \in BOOLEAN :
               /\ Store(d, intact) /\ failed' = failed /\ d.hour <= reach[d.cycle]
               /\ \/ intact /\ faults' = faults
                  \/ ~intact /\ IsUkv /\ NetworkFault
    BY <1>6
  <2>. DEFINE bytes == [cycle |-> cycle, via |-> via, intact |-> intact]
  <2>2. bytes \in Bytes /\ bytes # Unread /\ bytes.cycle = cycle /\ bytes.via = via
        /\ bytes.intact = intact
    BY <1>1 DEF Bytes, Unread, CallTypes
  <2>3. got' = [got EXCEPT ![d.hour] = bytes] /\ got \in [1 .. Hours -> Bytes]
    BY <1>1, <1>2, <2>1 DEF Store, CallTypes
  <2>. HIDE DEF bytes
  <2>4. got' \in [1 .. Hours -> Bytes] /\ got'[d.hour] = bytes
        /\ \A h \in 1 .. Hours : h # d.hour => got'[h] = got[h]
    BY <1>2, <2>2, <2>3
  <2>5. Read(d.hour)' /\ (\A h \in 1 .. Hours : h # d.hour => (Read(h)' <=> Read(h)))
    BY <2>2, <2>4 DEF Read
  <2>6. /\ faults' \in [network : Nat, disk : Nat] /\ faults'.network >= faults.network
        /\ faults'.disk = faults.disk /\ (~intact => IsUkv /\ faults'.network > 0)
        /\ faults.network \in Nat /\ faults.disk \in Nat
    BY <1>1, <2>1 DEF CallTypes, NetworkFault
  <2>7. CallTypes'
    BY <1>1, <2>1, <2>4, <2>6 DEF CallTypes
  <2>8. BatchInv'
    <3>1. \A h \in 1 .. Hours : Read(h)' => got'[h].cycle = cycle /\ got'[h].via = via
      BY <1>1, <2>2, <2>4, <2>5 DEF BatchInv
    <3>2. \A h \in 1 .. Hours : Read(h)' /\ ~got'[h].intact => IsUkv /\ faults'.network > 0
      BY <1>1, <2>2, <2>4, <2>5, <2>6 DEF BatchInv
    <3>3. failed = "none" => \A h \in claimed : Read(h)' \/ \E e \in running' : e.hour = h
      BY <1>1, <1>2, <1>4, <2>5 DEF BatchInv, CallTypes, InBatch
    <3>4. pc = "batch" /\ FirstStage = "probe" => Read(Hours)'
      BY <1>1, <2>5, CyclesAssumption DEF BatchInv
    <3>. QED  BY <1>1, <1>4, <2>1, <3>1, <3>2, <3>3, <3>4 DEF BatchInv
  <2>9. SentInv'
    <3>1. Read(Hours)' => Read(Hours) \/ d.hour = Hours
      BY <2>5, CyclesAssumption
    <3>2. d.hour = Hours => reach[cycle] = Hours
      BY <1>1, <1>2, <2>1, CyclesAssumption DEF CallTypes
    <3>. QED  BY <1>1, <3>1, <3>2 DEF SentInv
  <2>10. SkippedInv'
    <3>1. NoFaults' => NoFaults
      BY <2>6 DEF NoFaults
    <3>. QED  BY <1>1, <1>4, <2>1, <3>1 DEF SkippedInv, InBatch
  <2>. QED  BY <1>3, <1>5, <2>7, <2>8, <2>9, <2>10 DEF CallInv
<1>7. CASE /\ got' = got
           /\ \E error \in {"validation", "other"} :
                /\ failed' = IF failed = "none" THEN error ELSE failed
                /\ \/ error = "validation" /\ d.hour > reach[d.cycle] /\ faults' = faults
                   \/ NetworkFault
  <2>1. PICK error \in {"validation", "other"} :
               /\ failed' = IF failed = "none" THEN error ELSE failed
               /\ \/ error = "validation" /\ d.hour > reach[d.cycle] /\ faults' = faults
                  \/ NetworkFault
    BY <1>7
  <2>2. failed' \in {"validation", "other"}
    BY <1>1, <2>1 DEF CallTypes
  <2>3. /\ faults' \in [network : Nat, disk : Nat] /\ faults'.network >= faults.network
        /\ faults'.disk = faults.disk /\ faults.network \in Nat /\ faults.disk \in Nat
        /\ (NetworkFault => faults'.network > 0)
    BY <1>1, <2>1 DEF CallTypes, NetworkFault
  <2>4. CallTypes'
    BY <1>1, <1>7, <2>2, <2>3 DEF CallTypes
  <2>5. BatchInv'
    <3>1. \A h \in 1 .. Hours : Read(h)' <=> Read(h)
      BY <1>7 DEF Read
    <3>2. \A h \in 1 .. Hours : Read(h) /\ ~got[h].intact => IsUkv /\ faults'.network > 0
      BY <1>1, <2>3 DEF BatchInv
    <3>. QED  BY <1>1, <1>4, <1>7, <2>2, <3>1, <3>2, CyclesAssumption DEF BatchInv
  <2>6. SentInv'
    BY <1>1, <1>7 DEF SentInv, Read
  <2>7. SkippedInv'
    <3>1. NoFaults' => NoFaults /\ ~NetworkFault
      BY <2>3 DEF NoFaults
    <3>2. NoFaults' => failed' = "validation" /\ start.reach[cycle] < Hours
      <4>1. CASE failed = "none"
        <5>1. NoFaults' => error = "validation" /\ d.hour > reach[cycle]
          BY <1>2, <2>1, <3>1
        <5>2. start.reach[cycle] <= reach[cycle] /\ start.reach[cycle] \in Nat /\ reach[cycle] \in Nat
          BY <1>1, CyclesAssumption DEF SkippedInv, CallTypes
        <5>. QED  BY <1>2, <2>1, <4>1, <5>1, <5>2, CyclesAssumption
      <4>2. CASE failed # "none"
        BY <1>1, <1>2, <2>1, <3>1, <4>2 DEF SkippedInv
      <4>. QED  BY <4>1, <4>2
    <3>. QED  BY <1>1, <1>4, <3>1, <3>2 DEF SkippedInv, InBatch
  <2>. QED  BY <1>3, <1>5, <2>4, <2>5, <2>6, <2>7 DEF CallInv
<1>. QED  BY <1>6, <1>7 DEF Download

LEMMA BatchSucceedsKeeps ==
  ASSUME CallInv, BatchSucceeds
  PROVE  CallInv'
<1>1. /\ CallTypes /\ BatchInv /\ RunningInv /\ SentInv /\ SkippedInv
      /\ InBatch /\ failed = "none" /\ running = {} /\ claimed = Items /\ claimed' = {}
      /\ pc' = IF pc = "probe" /\ Hours > 1 THEN "batch" ELSE "prepare"
      /\ UNCHANGED <<request, reach, cycle, via, running, got, failed, files,
                     result, faults, sent, start>>
  BY DEF CallInv, BatchSucceeds
<1>2. StagedInv' /\ OutInv'
  BY <1>1, EarlyStep DEF InBatch
<1>3. CallTypes'
  BY <1>1 DEF CallTypes, InBatch
<1>4. RunningInv'
  BY <1>1, CyclesAssumption DEF RunningInv
<1>5. \A h \in Items : Read(h)
  BY <1>1 DEF BatchInv
<1>6. BatchInv'
  <2>1. pc = "probe" => Read(Hours)
    BY <1>1, <1>5, ItemsAre
  <2>2. pc' = "prepare" => \A h \in 1 .. Hours : Read(h)
    <3>1. CASE pc = "probe"
      <4>1. pc' = "prepare" => Hours = 1
        BY <1>1, <3>1, CyclesAssumption
      <4>. QED  BY <2>1, <3>1, <4>1
    <3>2. CASE pc = "batch" /\ FirstStage = "probe"
      <4>1. \A h \in 1 .. Hours : h = Hours \/ h \in 1 .. Hours - 1
        BY CyclesAssumption
      <4>. QED  BY <1>1, <1>5, <3>2, <4>1, ItemsAre DEF BatchInv
    <3>3. CASE pc = "batch" /\ FirstStage # "probe"
      BY <1>1, <1>5, <3>3, ItemsAre
    <3>. QED  BY <1>1, <3>1, <3>2, <3>3 DEF InBatch
  <2>3. \A h \in 1 .. Hours : Read(h)' <=> Read(h)
    BY <1>1 DEF Read
  <2>4. Read(Hours)' <=> Read(Hours)
    BY <1>1 DEF Read
  <2>5. FirstStage' = FirstStage /\ IsUkv' = IsUkv /\ pc' \in {"batch", "prepare"}
        /\ (pc' = "batch" => pc = "probe")
    BY <1>1 DEF FirstStage, IsUkv
  <2>. QED  BY <1>1, <2>1, <2>2, <2>3, <2>4, <2>5 DEF BatchInv
<1>7. SentInv'
  <2>1. pc' = "batch" => Read(Hours)
    BY <1>1, <1>5, ItemsAre
  <2>. QED  BY <1>1, <2>1 DEF SentInv, Read
<1>8. SkippedInv'
  BY <1>1 DEF SkippedInv, NoFaults, InBatch
<1>. QED  BY <1>2, <1>3, <1>4, <1>6, <1>7, <1>8 DEF CallInv

LEMMA TryIndexedKeeps ==
  ASSUME CallInv, TryIndexed
  PROVE  CallInv'
<1>1. /\ CallTypes /\ BatchInv /\ RunningInv /\ SentInv /\ SkippedInv
      /\ InBatch /\ running = {} /\ claimed' = {} /\ got' = Nothing /\ failed' = "none"
      /\ via' = "indexed" /\ pc' = "probe" /\ request.provider = "gfs_wave"
      /\ UNCHANGED <<request, reach, cycle, running, files, result, faults, sent, start>>
  BY DEF CallInv, TryIndexed, BatchEnded, FallsBack
<1>2. StagedInv' /\ OutInv'
  BY <1>1, EarlyStep DEF InBatch
<1>3. CallTypes'
  BY <1>1, NothingRead, CyclesAssumption DEF CallTypes, InBatch, Paths
<1>4. RunningInv'
  BY <1>1 DEF RunningInv
<1>5. (\A h \in 1 .. Hours : ~Read(h)') /\ ~Read(Hours)'
  BY <1>1, NothingRead, CyclesAssumption DEF Read
<1>6. BatchInv'
  BY <1>1, <1>5 DEF BatchInv, FirstStage, Probes
<1>7. SentInv'
  BY <1>1, <1>5 DEF SentInv
<1>8. SkippedInv'
  BY <1>1 DEF SkippedInv, NoFaults
<1>. QED  BY <1>2, <1>3, <1>4, <1>6, <1>7, <1>8 DEF CallInv

LEMMA NextCandidateKeeps ==
  ASSUME CallInv, NextCandidate
  PROVE  CallInv'
<1>1. /\ CallTypes /\ BatchInv /\ RunningInv /\ SentInv /\ SkippedInv
      /\ InBatch /\ running = {} /\ failed # "none" /\ got' = Nothing
      /\ UNCHANGED <<request, reach, running, files, faults, sent, start>>
  BY DEF CallInv, NextCandidate, BatchEnded
<1>2. (\A h \in 1 .. Hours : ~Read(h)') /\ ~Read(Hours)'
  BY <1>1, NothingRead, CyclesAssumption DEF Read
<1>3. NoFaults => failed = "validation" /\ start.reach[cycle] < Hours
                  /\ \A c \in 1 .. cycle - 1 : start.reach[c] < Hours
  BY <1>1 DEF SkippedInv
<1>4. NoFaults => \A c \in 1 .. cycle : start.reach[c] < Hours
  <2>1. \A c \in 1 .. cycle : c = cycle \/ c \in 1 .. cycle - 1
    BY <1>1, CyclesAssumption DEF CallTypes
  <2>. QED  BY <1>3, <2>1
<1>5. CASE GivesUp /\ Stop("error") /\ UNCHANGED <<cycle, via, claimed, failed>>
  <2>1. pc' = "done" /\ result' = "error" /\ ~InBatch'
    BY <1>5 DEF Stop, InBatch
  <2>2. StagedInv' /\ OutInv'
    BY <1>1, <2>1, EarlyStep DEF InBatch
  <2>3. CallTypes'
    BY <1>1, <1>5, <2>1, NothingRead, CyclesAssumption DEF CallTypes
  <2>4. RunningInv'
    BY <1>1, <1>5, <2>1 DEF RunningInv
  <2>5. BatchInv'
    BY <1>2, <2>1 DEF BatchInv
  <2>6. SentInv'
    BY <1>1, <1>2, <2>1 DEF SentInv
  <2>7. SkippedInv'
    <3>1. NoFaults => ~request.auto \/ cycle = Cycles
      BY <1>3, <1>5 DEF GivesUp
    <3>. QED  BY <1>1, <1>4, <1>5, <2>1, <3>1 DEF SkippedInv, NoFaults
  <2>. QED  BY <2>2, <2>3, <2>4, <2>5, <2>6, <2>7 DEF CallInv
<1>6. CASE /\ ~GivesUp /\ pc' = FirstStage /\ cycle' = cycle + 1 /\ via' = "filter"
           /\ claimed' = {} /\ failed' = "none" /\ result' = result
  <2>1. pc' \in {"probe", "batch"} /\ FirstStage' = FirstStage
    BY <1>1, <1>6 DEF FirstStage
  <2>2. StagedInv' /\ OutInv'
    BY <1>1, <2>1, EarlyStep DEF InBatch
  <2>3. cycle' \in 1 .. Cycles
    BY <1>1, <1>6, CyclesAssumption DEF CallTypes, GivesUp
  <2>4. CallTypes'
    BY <1>1, <1>6, <2>1, <2>3, NothingRead, CyclesAssumption DEF CallTypes, InBatch, Paths
  <2>5. RunningInv'
    BY <1>1, <1>6 DEF RunningInv
  <2>6. BatchInv'
    BY <1>2, <1>6, <2>1, FirstStageIs DEF BatchInv
  <2>7. SentInv'
    BY <1>1, <1>2, <1>6, FirstStageIs DEF SentInv
  <2>8. SkippedInv'
    <3>1. \A c \in 1 .. cycle' - 1 : c \in 1 .. cycle
      BY <1>1, <1>6, CyclesAssumption DEF CallTypes
    <3>. QED  BY <1>1, <1>4, <1>6, <2>1, <3>1 DEF SkippedInv, NoFaults
  <2>. QED  BY <2>2, <2>4, <2>5, <2>6, <2>7, <2>8 DEF CallInv
<1>. QED  BY <1>5, <1>6 DEF NextCandidate

LEMMA PublishKeeps ==
  ASSUME CallInv, NEW c \in 1 .. Cycles, Publish(c)
  PROVE  CallInv'
<1>1. /\ CallTypes /\ BatchInv /\ RunningInv /\ SentInv /\ SkippedInv /\ StagedInv /\ OutInv
      /\ reach[c] < Hours /\ reach' = [reach EXCEPT ![c] = @ + 1]
      /\ UNCHANGED <<request, pc, batch, files, result, faults, start>>
  BY DEF CallInv, Publish
<1>2. /\ UNCHANGED <<cycle, via, claimed, running, got, failed, sent>>
      /\ UNCHANGED <<out, temporary, simple>>
  BY <1>1 DEF batch, files
<1>3. /\ reach' \in [1 .. Cycles -> 0 .. Hours]
      /\ \A k \in 1 .. Cycles : reach[k] <= reach'[k] /\ (reach[k] = Hours => reach'[k] = Hours)
  BY <1>1, CyclesAssumption DEF CallTypes
<1>4. CallTypes'
  BY <1>1, <1>2, <1>3 DEF CallTypes
<1>5. RunningInv'
  BY <1>1, <1>2 DEF RunningInv, InBatch
<1>6. BatchInv'
  BY <1>1, <1>2 DEF BatchInv, Read, InBatch, FirstStage, IsUkv
<1>7. (Ours(temporary) => Ours(temporary)') /\ (Ours(simple) => Ours(simple)') /\ (Ours(out) => Ours(out)')
  BY <1>1, <1>2, OursStays
<1>8. IsUkv' = IsUkv /\ Accepted' = Accepted
  BY <1>1, <1>2 DEF IsUkv, Accepted, Staged
<1>9. StagedInv'
  BY <1>1, <1>2, <1>7, <1>8 DEF StagedInv
<1>10. OutInv'
  BY <1>1, <1>2, <1>7, <1>8 DEF OutInv
<1>11. SentInv'
  <2>1. cycle \in 1 .. Cycles
    BY <1>1 DEF CallTypes
  <2>. QED  BY <1>1, <1>2, <1>3, <2>1 DEF SentInv, Read
<1>12. SkippedInv'
  <2>1. \A k \in 1 .. Cycles : start.reach[k] \in Int /\ reach[k] \in Int /\ reach'[k] \in Int
    BY <1>1, <1>3, CyclesAssumption DEF CallTypes
  <2>2. \A k \in 1 .. Cycles : start.reach[k] <= reach'[k]
    BY <1>1, <1>3, <2>1 DEF SkippedInv
  <2>. QED  BY <1>1, <1>2, <2>2 DEF SkippedInv, NoFaults, InBatch
<1>. QED  BY <1>4, <1>5, <1>6, <1>9, <1>10, <1>11, <1>12 DEF CallInv

LEMMA StutterKeeps ==
  ASSUME CallInv, UNCHANGED vars
  PROVE  CallInv'
<1>1. /\ CallTypes /\ BatchInv /\ RunningInv /\ SentInv /\ SkippedInv /\ StagedInv /\ OutInv
      /\ UNCHANGED <<request, reach, pc, result, faults, start>>
      /\ UNCHANGED <<cycle, via, claimed, running, got, failed, sent>>
      /\ UNCHANGED <<out, temporary, simple>>
  BY DEF CallInv, vars, batch, files
<1>2. CallTypes' /\ RunningInv'
  BY <1>1 DEF CallTypes, RunningInv, InBatch
<1>3. BatchInv'
  BY <1>1 DEF BatchInv, Read, InBatch, FirstStage, IsUkv
<1>4. (Ours(temporary) => Ours(temporary)') /\ (Ours(simple) => Ours(simple)') /\ (Ours(out) => Ours(out)')
  BY <1>1, OursStays
<1>5. IsUkv' = IsUkv /\ Accepted' = Accepted
  BY <1>1 DEF IsUkv, Accepted, Staged
<1>6. StagedInv'
  BY <1>1, <1>4, <1>5 DEF StagedInv
<1>7. OutInv'
  BY <1>1, <1>4, <1>5 DEF OutInv
<1>8. SentInv' /\ SkippedInv'
  BY <1>1 DEF SentInv, SkippedInv, Read, NoFaults, InBatch
<1>. QED  BY <1>1, <1>2, <1>3, <1>6, <1>7, <1>8 DEF CallInv

LEMMA InitCall == Init => CallInv
<1>. SUFFICES ASSUME Init PROVE CallInv
  OBVIOUS
<1>1. (\A h \in 1 .. Hours : ~Read(h)) /\ ~Read(Hours)
  BY NothingRead, CyclesAssumption DEF Init, Read
<1>2. start.out = out /\ start.reach = reach /\ out \in {NoFile, OldFile}
  BY DEF Init
<1>3. CallTypes
  <2>1. cycle \in 1 .. Cycles /\ got \in [1 .. Hours -> Bytes]
    BY NothingRead, CyclesAssumption DEF Init
  <2>2. faults \in [network : Nat, disk : Nat] /\ via \in Paths
    BY DEF Init, Paths
  <2>3. start \in [out : {NoFile, OldFile}, reach : [1 .. Cycles -> 0 .. Hours]]
    BY DEF Init
  <2>4. sent \in [1 .. Cycles -> [Paths -> SUBSET (1 .. Hours)]]
    BY DEF Init
  <2>. QED  BY <2>1, <2>2, <2>3, <2>4 DEF Init, CallTypes
<1>4. RunningInv
  BY FS_EmptySet, CyclesAssumption DEF Init, RunningInv
<1>5. BatchInv
  BY <1>1 DEF Init, BatchInv, InBatch
<1>6. StagedInv
  BY DEF Init, StagedInv
<1>7. OutInv
  BY <1>2 DEF Init, OutInv
<1>8. SentInv
  BY <1>1 DEF Init, SentInv
<1>9. SkippedInv
  <2>1. \A c \in 1 .. Cycles : start.reach[c] <= reach[c]
    BY <1>2, CyclesAssumption DEF Init
  <2>2. 1 .. cycle - 1 = {}
    BY DEF Init
  <2>. QED  BY <2>1, <2>2 DEF Init, SkippedInv, InBatch
<1>. QED  BY <1>3, <1>4, <1>5, <1>6, <1>7, <1>8, <1>9 DEF CallInv

LEMMA NextCall == CallInv /\ [Next]_vars => CallInv'
<1>. SUFFICES ASSUME CallInv, [Next]_vars PROVE CallInv'
  OBVIOUS
<1>1. CASE Step
  BY <1>1, BeginKeeps, ClaimKeeps, DownloadKeeps, BatchSucceedsKeeps, TryIndexedKeeps,
     NextCandidateKeeps, PrepareKeeps, WriteKeeps, WriteFailsKeeps, RepackKeeps, VerifyKeeps,
     RemoveOldKeeps, RenameKeeps, InspectKeeps DEF Step
<1>2. CASE \E c \in 1 .. Cycles : Publish(c)
  BY <1>2, PublishKeeps
<1>3. CASE UNCHANGED vars
  BY <1>3, StutterKeeps
<1>. QED  BY <1>1, <1>2, <1>3 DEF Next

(* The invariant holds of every behaviour of a generator.                  *)
THEOREM CallHolds == Spec => []CallInv
<1>1. Init => CallInv
  BY InitCall
<1>2. CallInv /\ [Next]_vars => CallInv'
  BY NextCall
<1>. QED  BY <1>1, <1>2, PTL DEF Spec

-----------------------------------------------------------------------------
(* What it says to a caller.                                               *)

(* Types, and no more downloads at a time than the pool has workers, all   *)
(* of them claimed hours of the candidate being tried.                     *)
THEOREM TypeCorrect == Spec => []TypeOK
<1>1. CallInv => TypeOK
  <2>. SUFFICES ASSUME CallInv PROVE TypeOK
    OBVIOUS
  <2>1. CallTypes /\ RunningInv /\ StagedInv /\ OutInv
    BY DEF CallInv
  <2>2. \A d \in running : d.hour \in claimed /\ d.cycle = cycle /\ d.via = via
    BY <2>1 DEF RunningInv
  <2>3. /\ NoFile \in FilesOf({"nobody", "before", "call"}) /\ NoFile \in FilesOf({"nobody", "call"})
        /\ OldFile \in FilesOf({"nobody", "before", "call"})
    <3>1. <<>> \in Seq([hour : 1 .. Hours, bytes : Bytes])
      OBVIOUS
    <3>. QED  BY <3>1 DEF NoFile, OldFile, FilesOf
  <2>4. ASSUME NEW f, Ours(f)
        PROVE  f \in FilesOf({"nobody", "before", "call"}) /\ f \in FilesOf({"nobody", "call"})
    BY <2>4 DEF Ours, Made, Hourly, File, FilesOf
  <2>5. out \in FilesOf({"nobody", "before", "call"})
    BY <2>1, <2>3, <2>4 DEF OutInv
  <2>6. temporary \in FilesOf({"nobody", "call"})
    BY <2>1, <2>3, <2>4 DEF StagedInv, CallTypes
  <2>7. simple \in FilesOf({"nobody", "call"})
    BY <2>1, <2>3, <2>4 DEF StagedInv, CallTypes
  <2>. QED  BY <2>1, <2>2, <2>5, <2>6, <2>7 DEF TypeOK, CallTypes, RunningInv
<1>. QED  BY <1>1, CallHolds, PTL

(* The file a provider installs is made of one cycle and one download      *)
(* path, hour after hour, and is whole unless the disk cut it short.       *)
THEOREM InstallsOneCycle == Spec => []PublishedWhole
<1>1. CallInv => PublishedWhole
  <2>. SUFFICES ASSUME CallInv, out.whose = "call" PROVE PublishedWhole
    BY DEF PublishedWhole
  <2>1. OutInv
    BY DEF CallInv
  <2>2. Ours(out) /\ ~out.cut /\ (IsUkv => Len(out.parts) = Hours)
    BY <2>1, NoFileIs DEF OutInv
  <2>3. faults.disk = 0 => Len(out.parts) = Hours
    BY <2>2 DEF Ours
  <2>4. Hourly(out.parts, cycle, via)
    BY <2>2 DEF Ours, Made
  <2>5. \A i \in DOMAIN out.parts :
          /\ out.parts[i].hour = i
          /\ out.parts[i].bytes = [cycle |-> cycle, via |-> via, intact |-> TRUE]
    <3>. DEFINE bytes == [cycle |-> cycle, via |-> via, intact |-> TRUE]
    <3>. SUFFICES ASSUME NEW i \in DOMAIN out.parts
                  PROVE  out.parts[i].hour = i /\ out.parts[i].bytes = bytes
      OBVIOUS
    <3>1. out.parts[i] = [hour |-> i, bytes |-> bytes]
      BY <2>4 DEF Hourly
    <3>. HIDE DEF bytes
    <3>. QED  BY <3>1
  <2>. QED  BY <2>2, <2>3, <2>5 DEF PublishedWhole
<1>. QED  BY <1>1, CallHolds, PTL

(* A generator that throws has left the output as it was and no temporary, *)
(* except UKV when the disk failed it.                                     *)
THEOREM FailureIsTraceless == Spec => []FailureLeavesNoTrace
<1>1. CallInv => FailureLeavesNoTrace
  <2>. SUFFICES ASSUME CallInv, result = "error" PROVE FailureLeavesNoTrace
    BY DEF FailureLeavesNoTrace
  <2>1. pc = "done"
    BY DEF CallInv, CallTypes
  <2>. QED  BY <2>1 DEF CallInv, StagedInv, OutInv, FailureLeavesNoTrace
<1>. QED  BY <1>1, CallHolds, PTL

(* A cycle that does not reach the last hour costs one request on each     *)
(* path, whatever the service publishes meanwhile.                         *)
THEOREM ProbesOnce == Spec => []OneRequestPerShortCycle
<1>1. CallInv => OneRequestPerShortCycle
  <2>. SUFFICES ASSUME CallInv, request.provider \in Probes, NEW c \in 1 .. Cycles,
                       reach[c] < Hours, NEW p \in Paths
                PROVE  Cardinality(sent[c][p]) <= 1
    BY DEF OneRequestPerShortCycle
  <2>1. sent[c][p] \subseteq {Hours}
    BY CyclesAssumption DEF CallInv, SentInv
  <2>2. sent[c][p] = {} \/ sent[c][p] = {Hours}
    BY <2>1
  <2>3. Cardinality({}) = 0 /\ Cardinality({Hours}) = 1
    BY FS_EmptySet, FS_Singleton
  <2>. QED  BY <2>2, <2>3
<1>. QED  BY <1>1, CallHolds, PTL

(* Without faults, auto finds a cycle that was complete at the start, or   *)
(* a newer one.                                                            *)
THEOREM NewestIsUsed == Spec => []NewestUsableCycle
<1>1. CallInv => NewestUsableCycle
  <2>. SUFFICES ASSUME CallInv, pc = "done", request.auto, ~request.dry_run,
                       faults = [network |-> 0, disk |-> 0],
                       start.out = NoFile \/ request.overwrite,
                       NEW c \in 1 .. Cycles, start.reach[c] = Hours
                PROVE  result = "ok" /\ cycle <= c
    BY DEF NewestUsableCycle
  <2>1. CallTypes /\ SkippedInv /\ NoFaults
    BY DEF CallInv, NoFaults
  <2>2. ~(start.reach[c] < Hours)
    BY CyclesAssumption
  <2>3. result # "error"
    BY <2>1, <2>2 DEF SkippedInv
  <2>4. ~(c \in 1 .. cycle - 1)
    BY <2>1, <2>2 DEF SkippedInv
  <2>. QED  BY <2>1, <2>3, <2>4, CyclesAssumption DEF CallTypes
<1>. QED  BY <1>1, CallHolds, PTL

=============================================================================
