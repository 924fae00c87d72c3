----------------------- MODULE RetryingDownloadProofs -----------------------
(***************************************************************************)
(* What RetryingDownload promises for any number of threads, permits and   *)
(* attempts: the permits are accounted for, the transfers are bounded, and *)
(* a call throws, or tries again, only for good reason.                    *)
(***************************************************************************)
EXTENDS RetryingDownload, FiniteSetTheorems, TLAPS

(* The threads in a transfer are finitely many.                            *)
LEMMA TransfersFinite ==
  /\ IsFiniteSet(InTransfer)
  /\ Cardinality(InTransfer) \in Nat
<1>1. InTransfer \subseteq Threads
  BY DEF InTransfer
<1>2. IsFiniteSet(InTransfer)
  BY <1>1, PolicyAssumption, FS_Subset
<1>. QED  BY <1>2, FS_CardinalityType

(* A step that neither enters nor leaves a transfer keeps the account.     *)
LEMMA AccountUndisturbed ==
  ASSUME TypeOK, PermitsAccountedFor, NEW t \in Threads, NEW place,
         pc' = [pc EXCEPT ![t] = place],
         pc[t] # "download", place # "download", permits' = permits
  PROVE  PermitsAccountedFor'
<1>1. InTransfer' = InTransfer
  BY DEF InTransfer, TypeOK
<1>. QED  BY <1>1 DEF PermitsAccountedFor

(* A thread that enters a transfer takes one permit.                       *)
LEMMA AcquireAccounts ==
  ASSUME IInv, NEW t \in Threads, Acquire(t)
  PROVE  PermitsAccountedFor' /\ permits' \in 0 .. Slots
<1>1. InTransfer' = InTransfer \cup {t} /\ t \notin InTransfer
  BY DEF InTransfer, IInv, TypeOK, Acquire, Goto
<1>2. Cardinality(InTransfer') = Cardinality(InTransfer) + 1
  BY <1>1, TransfersFinite, FS_AddElement
<1>3. permits \in 0 .. Slots /\ permits > 0 /\ permits' = permits - 1
  BY DEF IInv, TypeOK, Acquire
<1>. QED  BY <1>2, <1>3, TransfersFinite, PolicyAssumption DEF PermitsAccountedFor, IInv

(* A thread that leaves one, by an answer or by an error, gives it back.   *)
LEMMA ReleaseAccounts ==
  ASSUME IInv, NEW t \in Threads, NEW place,
         pc[t] = "download", pc' = [pc EXCEPT ![t] = place],
         place # "download", permits' = permits + 1
  PROVE  PermitsAccountedFor' /\ permits' \in 0 .. Slots
<1>1. InTransfer' = InTransfer \ {t} /\ t \in InTransfer
  BY DEF InTransfer, IInv, TypeOK
<1>2. Cardinality(InTransfer') = Cardinality(InTransfer) - 1
  BY <1>1, TransfersFinite, FS_RemoveElement
<1>3. Cardinality(InTransfer) > 0
  BY <1>1, TransfersFinite, FS_EmptySet
<1>4. permits \in 0 .. Slots
  BY DEF IInv, TypeOK
<1>. QED
  BY <1>2, <1>3, <1>4, TransfersFinite, PolicyAssumption DEF PermitsAccountedFor, IInv

(* The semaphore's count starts full and no thread in a transfer.          *)
LEMMA InitIInv ==
  ASSUME Init
  PROVE  IInv
<1>1. TypeOK
  BY PolicyAssumption DEF Init, TypeOK
<1>2. InTransfer = {}
  BY DEF Init, InTransfer
<1>3. PermitsAccountedFor
  BY <1>2, FS_EmptySet, PolicyAssumption DEF Init, PermitsAccountedFor
<1>4. CauseKnown /\ ThrowsLast
  BY DEF Init, CauseKnown, ThrowsLast
<1>. QED  BY <1>1, <1>3, <1>4 DEF IInv

(* Each step of a thread keeps the inductive invariant.                    *)
LEMMA StepIInv ==
  ASSUME IInv, NEW t \in Threads, Call(t) \/ Step(t)
  PROVE  IInv'
<1>. USE PolicyAssumption
<1>1. CASE Call(t)
  <2>1. TypeOK'
    BY <1>1 DEF IInv, TypeOK, Call, Goto
  <2>2. PermitsAccountedFor'
    BY <1>1, AccountUndisturbed DEF IInv, Call, Goto
  <2>3. CauseKnown' /\ ThrowsLast'
    BY <1>1 DEF IInv, TypeOK, CauseKnown, ThrowsLast, Call, Goto
  <2>. QED  BY <2>1, <2>2, <2>3 DEF IInv
<1>2. CASE Acquire(t)
  <2>1. PermitsAccountedFor' /\ permits' \in 0 .. Slots
    BY <1>2, AcquireAccounts
  <2>2. TypeOK'
    BY <1>2, <2>1 DEF IInv, TypeOK, Acquire, Goto, locals
  <2>3. CauseKnown' /\ ThrowsLast'
    BY <1>2 DEF IInv, TypeOK, CauseKnown, ThrowsLast, Acquire, Goto, locals
  <2>. QED  BY <2>1, <2>2, <2>3 DEF IInv
<1>3. CASE Returns(t)
  <2>1. PermitsAccountedFor' /\ permits' \in 0 .. Slots
    BY <1>3, ReleaseAccounts DEF Returns, Goto
  <2>2. TypeOK'
    BY <1>3, <2>1 DEF IInv, TypeOK, Returns, Goto, locals
  <2>3. CauseKnown' /\ ThrowsLast'
    BY <1>3 DEF IInv, TypeOK, CauseKnown, ThrowsLast, Returns, Goto, locals
  <2>. QED  BY <2>1, <2>2, <2>3 DEF IInv
<1>4. ASSUME NEW kind \in {"transient", "permanent"}, Fails(t, kind)
      PROVE  IInv'
  <2>1. PermitsAccountedFor' /\ permits' \in 0 .. Slots
    BY <1>4, ReleaseAccounts DEF Fails, Goto
  <2>2. TypeOK'
    BY <1>4, <2>1 DEF IInv, TypeOK, Fails, Goto, locals
  <2>3. CauseKnown' /\ ThrowsLast'
    BY <1>4 DEF IInv, TypeOK, CauseKnown, ThrowsLast, Fails, Goto, locals
  <2>. QED  BY <2>1, <2>2, <2>3 DEF IInv
<1>5. CASE Rethrow(t)
  <2>1. TypeOK'
    BY <1>5 DEF IInv, TypeOK, Rethrow, Goto, locals
  <2>2. PermitsAccountedFor'
    BY <1>5, AccountUndisturbed DEF IInv, Rethrow, Goto
  <2>3. CauseKnown' /\ ThrowsLast'
    BY <1>5 DEF IInv, TypeOK, CauseKnown, ThrowsLast, Rethrow, GivesUp, Goto, locals
  <2>. QED  BY <2>1, <2>2, <2>3 DEF IInv
<1>6. CASE Sleep(t)
  <2>1. TypeOK'
    BY <1>6 DEF IInv, TypeOK, Sleep, Goto, locals
  <2>2. PermitsAccountedFor'
    BY <1>6, AccountUndisturbed DEF IInv, Sleep, Goto
  <2>3. CauseKnown' /\ ThrowsLast'
    BY <1>6 DEF IInv, TypeOK, CauseKnown, ThrowsLast, Sleep, GivesUp, Goto, locals
  <2>. QED  BY <2>1, <2>2, <2>3 DEF IInv
<1>7. CASE Wake(t)
  <2>1. attempt[t] < MaxAttempts
    BY <1>7 DEF IInv, ThrowsLast, Wake
  <2>2. TypeOK'
    BY <1>7, <2>1 DEF IInv, TypeOK, Wake, Goto, Smaller
  <2>3. PermitsAccountedFor'
    BY <1>7, AccountUndisturbed DEF IInv, Wake, Goto
  <2>4. CauseKnown' /\ ThrowsLast'
    BY <1>7 DEF IInv, TypeOK, CauseKnown, ThrowsLast, Wake, Goto
  <2>. QED  BY <2>2, <2>3, <2>4 DEF IInv
<1>. QED  BY <1>1, <1>2, <1>3, <1>4, <1>5, <1>6, <1>7 DEF Step, Ends

(* The inductive invariant holds in every reachable state: permits,        *)
(* attempts and errors of all threads agree with where each thread is.     *)
THEOREM Invariance == Spec => []IInv
<1>1. Init => IInv
  BY InitIInv
<1>2. IInv /\ [Next]_vars => IInv'
  <2>1. ASSUME IInv, Next
        PROVE  IInv'
    BY <2>1, StepIInv DEF Next
  <2>2. ASSUME IInv, UNCHANGED vars
        PROVE  IInv'
    BY <2>2 DEF IInv, TypeOK, PermitsAccountedFor, CauseKnown, ThrowsLast,
                InTransfer, vars
  <2>. QED  BY <2>1, <2>2
<1>. QED  BY <1>1, <1>2, PTL DEF Spec

(* Every variable has its type; the attempts never exceed the policy's     *)
(* number, nor the semaphore's count its initial value.                    *)
THEOREM TypeCorrect == Spec => []TypeOK
<1>1. IInv => TypeOK
  BY DEF IInv
<1>. QED  BY <1>1, Invariance, PTL

(* Whatever the threads do and however their downloads end, exactly those  *)
(* in a transfer hold a permit: errors lose none, sleepers hold none.      *)
THEOREM PermitsBalance == Spec => []PermitsAccountedFor
<1>1. IInv => PermitsAccountedFor
  BY DEF IInv
<1>. QED  BY <1>1, Invariance, PTL

(* The process never has more transfers under way than permits.            *)
THEOREM BoundedTransfers == Spec => []TransfersBounded
<1>1. IInv => TransfersBounded
  <2>. SUFFICES ASSUME IInv PROVE TransfersBounded
    OBVIOUS
  <2>1. permits \in Nat /\ Slots \in Nat
    BY PolicyAssumption DEF IInv, TypeOK
  <2>. QED
    BY <2>1, TransfersFinite DEF IInv, PermitsAccountedFor, TransfersBounded
<1>. QED  BY <1>1, Invariance, PTL

(* A call throws only for an error that is not transient or after the last *)
(* attempt the policy allows, and tries again only after a transient error *)
(* with an attempt left.                                                   *)
THEOREM ThrowsForGoodReason == Spec => []ThrowsLast
<1>1. IInv => ThrowsLast
  BY DEF IInv
<1>. QED  BY <1>1, Invariance, PTL
=============================================================================
