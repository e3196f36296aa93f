------------------------ MODULE KiokukoHarnessProofs ------------------------
(* Proofs about the turn scheduler: type correctness and the safety         *)
(* invariants of KiokukoHarness, the accounting of messages, and that the   *)
(* scheduler implements AgentContract, for every set of messages, every     *)
(* step budget and every number of tool calls.                              *)
EXTENDS KiokukoHarness, FiniteSetTheorems, SequenceTheorems, WellFoundedInduction, TLAPS

-----------------------------------------------------------------------------
(* Removal by identity.                                                     *)

(* Every k up to the size of a finite set of positions is the rank of one  *)
(* of its members: what the CHOOSE of Nth stands for exists.                *)
LEMMA NthExists ==
  ASSUME NEW N \in Nat, NEW S, \A j \in S : j \in 1 .. N,
         NEW k \in 1 .. Cardinality(S)
  PROVE  \E i \in S : Rank(S, i) = k
<1> DEFINE Upto(n) == {j \in S : j <= n}
           T == {n \in Nat : Cardinality(Upto(n)) >= k}
<1>1. \A j \in S : j \in Nat /\ 1 <= j /\ j <= N
  OBVIOUS
<1>2. IsFiniteSet(S) /\ Cardinality(S) \in Nat
  <2>1. IsFiniteSet(1 .. N)
    BY FS_Interval
  <2>2. S \in SUBSET (1 .. N)
    OBVIOUS
  <2>3. IsFiniteSet(S)
    BY <2>1, <2>2, FS_Subset
  <2> QED BY <2>3, FS_CardinalityType
<1>3. ASSUME NEW n \in Nat PROVE IsFiniteSet(Upto(n)) /\ Cardinality(Upto(n)) \in Nat
  <2>1. Upto(n) \in SUBSET S
    OBVIOUS
  <2>2. IsFiniteSet(Upto(n))
    BY <1>2, <2>1, FS_Subset
  <2> QED BY <2>2, FS_CardinalityType
<1>4. N \in T
  <2>1. Upto(N) = S
    BY <1>1
  <2> QED BY <2>1, <1>2
<1>5. PICK n \in Nat : Cardinality(Upto(n)) >= k /\ \A m \in T : ~(m < n)
  <2>1. T \subseteq Nat /\ T # {}
    BY <1>4
  <2>2. PICK n \in T : \A m \in T : ~(<<m, n>> \in OpToRel(<, Nat))
    BY <2>1, NatLessThanWellFounded, WFMin
  <2> QED BY <2>1, <2>2 DEF OpToRel
<1>6. n # 0
  <2>1. Upto(0) = {}
    BY <1>1
  <2> QED BY <2>1, <1>5, FS_EmptySet
<1>7. n - 1 \in Nat /\ Cardinality(Upto(n - 1)) < k
  <2>1. n - 1 \in Nat
    BY <1>5, <1>6
  <2>2. n - 1 \notin T
    BY <1>5, <2>1
  <2>3. Cardinality(Upto(n - 1)) \in Nat
    BY <1>3, <2>1
  <2> QED BY <1>2, <2>1, <2>2, <2>3
<1>8. n \in S
  <2>1. SUFFICES ASSUME n \notin S PROVE FALSE
    OBVIOUS
  <2>2. Upto(n) = Upto(n - 1)
    BY <1>1, <1>5, <2>1
  <2> QED BY <2>2, <1>2, <1>5, <1>7
<1>9. Cardinality(Upto(n)) = Cardinality(Upto(n - 1)) + 1
  <2>1. \A j \in S : j <= n <=> j <= n - 1 \/ j = n
    BY <1>1, <1>5
  <2>2. Upto(n) = Upto(n - 1) \cup {n}
    BY <1>8, <2>1
  <2>3. n \notin Upto(n - 1)
    BY <1>5
  <2> HIDE DEF Upto
  <2> QED BY <2>2, <2>3, <1>3, <1>7, FS_AddElement
<1>10. Cardinality(Upto(n)) = k
  BY <1>2, <1>3, <1>5, <1>7, <1>9
<1> QED BY <1>8, <1>10 DEF Rank

(* A queue stays a queue when messages are removed from it by identity.    *)
LEMMA WithoutType ==
  ASSUME NEW S, NEW queue \in Seq(S), NEW gone
  PROVE  Without(queue, gone) \in Seq(S)
<1> DEFINE kept == {i \in DOMAIN queue : queue[i] \notin gone}
<1>1. DOMAIN queue = 1 .. Len(queue) /\ Len(queue) \in Nat
  OBVIOUS
<1>2. (\A j \in kept : j \in 1 .. Len(queue)) /\ Cardinality(kept) \in Nat
  <2>1. IsFiniteSet(1 .. Len(queue))
    BY <1>1, FS_Interval
  <2>2. kept \in SUBSET (1 .. Len(queue))
    BY <1>1
  <2>3. IsFiniteSet(kept)
    BY <2>1, <2>2, FS_Subset
  <2> QED BY <2>2, <2>3, FS_CardinalityType
<1> HIDE DEF kept
<1>3. ASSUME NEW k \in 1 .. Cardinality(kept) PROVE queue[Nth(kept, k)] \in S
  <2>1. \E i \in kept : Rank(kept, i) = k
    BY <1>1, <1>2, NthExists
  <2>2. Nth(kept, k) \in kept
    BY <2>1 DEF Nth
  <2> QED BY <2>2, <1>2, ElementOfSeq
<1>4. [k \in 1 .. Cardinality(kept) |-> queue[Nth(kept, k)]] \in Seq(S)
  BY <1>2, <1>3
<1> QED BY <1>4 DEF Without, kept

-----------------------------------------------------------------------------
(* Type correctness.                                                        *)

(* The outcomes of the helpers that several actions share.                  *)
LEMMA MarkType ==
  ASSUME TypeOK, NEW set, NEW what \in Fates
  PROVE  Mark(set, what) \in [Messages -> Fates]
BY DEF TypeOK, Mark

LEMMA StartOrType ==
  ASSUME TypeOK, NEW r, NEW w, NEW i, NEW a \in {"none", "live", "aborted"},
         StartOr(r, w, i, a)
  PROVE  pc' \in Points /\ abort' \in {"none", "live", "aborted"}
BY DEF TypeOK, StartOr, Points

LEMMA EnqueueType ==
  ASSUME TypeOK, NEW m \in Messages, NEW target, Enqueue(m, target)
  PROVE  nextTurn' \in Seq(Messages) /\ nextStep' \in Seq(Messages)
         /\ fate' \in [Messages -> Fates]
BY DEF TypeOK, Enqueue, Fates

LEMMA ThrowType ==
  ASSUME Throw
  PROVE  pc' = "close" /\ reason' \in {"aborted", "error"}
BY DEF Throw, Park

LEMMA AfterStepType ==
  ASSUME TypeOK, NEW again, NEW steer, NEW hooks, AfterStep(again, steer, hooks)
  PROVE  pc' \in Points /\ reason' \in Reasons
BY ThrowType DEF TypeOK, AfterStep, Points, Reasons

LEMMA CommitType ==
  ASSUME TypeOK, NEW what \in Fates, CommitClaim(what)
  PROVE  /\ nextTurn' \in Seq(Messages) /\ nextStep' \in Seq(Messages)
         /\ fate' \in [Messages -> Fates] /\ wake' \in BOOLEAN
         /\ claimOrd' \in Seq(Messages) /\ claimSteer' \in Seq(Messages)
         /\ UNCHANGED <<ready, disposed, maintenance, abort>>
<1>1. ASSUME NEW q \in Seq(Messages), NEW c \in Seq(Messages)
      PROVE  SpliceHead(q, Len(c)) \in Seq(Messages)
  BY DEF SpliceHead
<1>2. nextTurn' \in Seq(Messages) /\ nextStep' \in Seq(Messages)
  BY <1>1 DEF TypeOK, CommitClaim
<1>3. fate' \in [Messages -> Fates]
  BY MarkType DEF CommitClaim
<1>4. wake' \in BOOLEAN
  BY DEF CommitClaim, TypeOK
<1> QED BY <1>2, <1>3, <1>4 DEF CommitClaim, ClaimReleased

LEMMA TypeInit == Init => TypeOK
<1> SUFFICES ASSUME Init PROVE TypeOK
  OBVIOUS
<1>1. fate \in [Messages -> Fates]
  BY DEF Init, Fates
<1>2. <<>> \in Seq(Messages)
  OBVIOUS
<1> QED BY <1>1, <1>2 DEF Init, TypeOK, Points, Reasons

(* The driver's steps.                                                      *)
LEMMA TypeDrain ==
  ASSUME TypeOK, Drain
  PROVE  TypeOK'
<1> USE DEF inbox, flags, claim, tooling, Points, Reasons
<1>1. CASE BeginTurn \/ TurnEndsAndRepeats
  <2>1. OpenTurn /\ UNCHANGED <<inbox, ready, disposed, maintenance, claim, tooling>>
    BY <1>1 DEF BeginTurn, TurnEndsAndRepeats
  <2> QED BY <2>1 DEF TypeOK, OpenTurn
<1>2. CASE ClaimStep
  <2>1. SubSeq(nextTurn, 1, IF nextTurn = <<>> THEN 0 ELSE 1) \in Seq(Messages)
    BY DEF TypeOK
  <2>2. claimOrd' \in Seq(Messages)
    BY <1>2, <2>1 DEF ClaimStep
  <2> QED BY <1>2, <2>2 DEF TypeOK, ClaimStep
<1>3. CASE StepInterrupted \/ StepLoopLeft
  BY <1>3, ThrowType DEF TypeOK, StepInterrupted, StepLoopLeft
<1>4. CASE AdmissionFails \/ AdmissionRejects
  <2>1. pc' = "close" /\ reason' \in Reasons
    BY <1>4, ThrowType DEF AdmissionFails, AdmissionRejects, Park
  <2>2. <<>> \in Seq(Messages)
    OBVIOUS
  <2>3. ClaimReleased /\ UNCHANGED <<inbox, flags, step, tooling>>
    BY <1>4 DEF AdmissionFails, AdmissionRejects
  <2> QED BY <2>1, <2>2, <2>3 DEF TypeOK, ClaimReleased
<1>5. CASE AdmissionHandsOver
  <2>1. CommitClaim("handled") /\ Park("blocked") /\ UNCHANGED <<step, tooling>>
    BY <1>5 DEF AdmissionHandsOver
  <2> QED BY <2>1, CommitType DEF TypeOK, Park, Fates
<1>6. CASE AdmissionIsEmpty
  <2>1. CommitClaim("handled") /\ pc' = "close" /\ UNCHANGED <<step, reason, tooling>>
    BY <1>6 DEF AdmissionIsEmpty
  <2> QED BY <2>1, CommitType DEF TypeOK, Fates
<1>7. CASE AdmissionEnters
  <2>1. CommitClaim("accepted") /\ pc' = "model" /\ UNCHANGED <<step, reason, tooling>>
    BY <1>7 DEF AdmissionEnters
  <2> QED BY <2>1, CommitType DEF TypeOK, Fates
<1>8. CASE ModelFails \/ ToolFlushFails \/ StoppingFails
  BY <1>8, ThrowType DEF TypeOK, ModelFails, ToolFlushFails, StoppingFails
<1>9. CASE ModelCompletes \/ LastCall \/ StoppingReturns
  BY <1>9, AfterStepType DEF TypeOK, ModelCompletes, LastCall, StoppingReturns
<1>10. CASE ModelIsCapped
  BY <1>10, ThrowType DEF TypeOK, ModelIsCapped
<1>11. CASE \E n \in 1 .. MaxCalls : ModelCallsTools(n)
  <2>1. PICK n \in 1 .. MaxCalls : ModelCallsTools(n)
    BY <1>11
  <2>2. n \in Nat
    BY HarnessAssumption
  <2> QED BY <2>1, <2>2 DEF TypeOK, ModelCallsTools
<1>12. CASE ToolFails \/ NextCall \/ \E c \in BOOLEAN : ToolSettles(c)
  BY <1>12, ThrowType DEF TypeOK, ToolFails, NextCall, ToolSettles
<1>13. CASE \E m \in Messages, c \in BOOLEAN : ToolSettlesWithContext(m, c)
  <2>1. PICK m \in Messages, c \in BOOLEAN : ToolSettlesWithContext(m, c)
    BY <1>13
  <2>2. CASE disposed
    BY <2>1, <2>2, ThrowType DEF TypeOK, ToolSettlesWithContext
  <2>3. CASE ~disposed
    <3>1. Enqueue(m, "next-step")
      BY <2>1, <2>3 DEF ToolSettlesWithContext
    <3> QED BY <2>1, <2>3, <3>1, EnqueueType DEF TypeOK, ToolSettlesWithContext
  <2> QED BY <2>2, <2>3
<1>14. CASE TurnEnds \/ DriverExits
  BY <1>14 DEF TypeOK, TurnEnds, DriverExits
<1> QED BY <1>1, <1>2, <1>3, <1>4, <1>5, <1>6, <1>7, <1>8, <1>9, <1>10, <1>11,
           <1>12, <1>13, <1>14 DEF Drain

(* The calls of other parties, and the end of a maintenance.                *)
LEMMA TypeCallers ==
  ASSUME TypeOK, Callers \/ MaintenanceEnds
  PROVE  TypeOK'
<1> USE DEF inbox, flags, claim, tooling, driver
<1>1. CASE \E m \in Messages : Followup(m) \/ Steer(m) \/ Inject(m)
  <2>1. PICK m \in Messages, t \in {"next-turn", "next-step"}, w \in BOOLEAN : Send(m, t, w)
    BY <1>1 DEF Followup, Steer, Inject
  <2>2. \E target : Enqueue(m, target)
    BY <2>1 DEF Send
  <2>3. nextTurn' \in Seq(Messages) /\ nextStep' \in Seq(Messages)
        /\ fate' \in [Messages -> Fates]
    BY <2>2, EnqueueType
  <2>4. /\ maintenance' \in BOOLEAN
        /\ \E a \in {"none", "live", "aborted"} : StartOr(ready, w, maintenance', a)
    BY <2>1 DEF Send, TypeOK
  <2>5. pc' \in Points /\ abort' \in {"none", "live", "aborted"}
    BY <2>4, StartOrType
  <2>6. wake' \in BOOLEAN /\ UNCHANGED <<ready, disposed, step, reason, claim, tooling>>
    BY <2>1 DEF Send, TypeOK
  <2> QED BY <2>3, <2>4, <2>5, <2>6 DEF TypeOK
<1>2. CASE Release
  BY <1>2, StartOrType DEF TypeOK, Release
<1>3. CASE MaintenanceEnds
  BY <1>3, StartOrType DEF TypeOK, MaintenanceEnds
<1>4. CASE StopForDisposal
  BY <1>4, MarkType DEF TypeOK, StopForDisposal, ClearInbox, Fates
<1>5. CASE RunMaintenance
  BY <1>5 DEF TypeOK, RunMaintenance
<1>6. CASE \E keep \in BOOLEAN, cause \in {"user", "disposed"} : Cancel(keep, cause)
  <2>1. PICK keep \in BOOLEAN, cause \in {"user", "disposed"} : Cancel(keep, cause)
    BY <1>6
  <2>2. nextTurn' \in Seq(Messages) /\ nextStep' \in Seq(Messages)
        /\ fate' \in [Messages -> Fates]
    <3>1. CASE ClearInbox
      BY <3>1, MarkType DEF ClearInbox, Fates
    <3>2. CASE DiscardClaimed
      BY <3>2, MarkType, WithoutType DEF DiscardClaimed, TypeOK, Fates
    <3> QED BY <2>1, <3>1, <3>2 DEF Cancel
  <2> QED BY <2>1, <2>2 DEF TypeOK, Cancel
<1> QED BY <1>1, <1>2, <1>3, <1>4, <1>5, <1>6 DEF Callers

(* Every state of the scheduler is well-typed: in particular the queues     *)
(* remain queues of messages under every removal by position and identity.  *)
THEOREM TypeCorrect == Spec => []TypeOK
<1>1. TypeOK /\ [Next]_vars => TypeOK'
  <2>1. TypeOK /\ UNCHANGED vars => TypeOK'
    BY DEF TypeOK, vars
  <2> QED BY <2>1, TypeDrain, TypeCallers DEF Next
<1> QED BY TypeInit, <1>1, PTL DEF Spec

-----------------------------------------------------------------------------
(* The scheduling invariant.  NoStrandedWake, MaintenanceExcludesTurns and  *)
(* CancelledTurnIsRecordedAborted are inductive once types are known;        *)
(* ParkedInputHasReason is not, because it only speaks of an idle agent:    *)
(* QuietWake carries the reason of the last turn through the exit of its    *)
(* driver, and EmptyHanded rules out that a cancellation touches the queues *)
(* of an agent that holds no claim.                                          *)

EmptyHanded     == pc # "admit" => claimOrd = <<>> /\ claimSteer = <<>>
QuietWake       == pc \in {"idle", "exiting"} /\ ~disposed /\ nextTurn # <<>>
                     => wake \/ reason \in Parking
DrivenHasSignal == Driving => abort # "none"
GoneIsStopped   == disposed /\ pc \in {"admit", "model", "tool", "stopping"}
                     => abort = "aborted"

SchedulingInv ==
  /\ NoStrandedWake /\ MaintenanceExcludesTurns /\ CancelledTurnIsRecordedAborted
  /\ EmptyHanded /\ QuietWake /\ DrivenHasSignal /\ GoneIsStopped

LEMMA SchedulingInit == Init => SchedulingInv
BY DEF Init, SchedulingInv, NoStrandedWake, MaintenanceExcludesTurns, Driving,
       CancelledTurnIsRecordedAborted, EmptyHanded, QuietWake, DrivenHasSignal, GoneIsStopped

(* start() leaves no wake behind: afterwards a driver is there, or one of   *)
(* its guards held.                                                          *)
LEMMA StartOrServes ==
  ASSUME NEW r, NEW w, NEW i, NEW a, StartOr(r, w, i, a)
  PROVE  /\ pc' = pc \/ (pc = "idle" /\ pc' = "reserved")
         /\ w /\ r /\ ~i /\ ~disposed => pc' # "idle"
         /\ pc' = pc => abort' = a
         /\ pc' # pc => ~i /\ abort' = "live"
BY DEF StartOr

(* A step that ends the turn by an exception records an aborted signal.     *)
LEMMA ThrowRecords ==
  ASSUME Throw
  PROVE  pc' = "close" /\ (abort = "aborted" => reason' = "aborted")
BY DEF Throw, Park

LEMMA AfterStepGoes ==
  ASSUME NEW again, NEW steer, NEW hooks, AfterStep(again, steer, hooks)
  PROVE  pc' \in {"stopping", "top", "close"}
BY ThrowRecords DEF AfterStep

LEMMA CommitKeeps ==
  ASSUME NEW what, CommitClaim(what)
  PROVE  /\ claimOrd' = <<>> /\ claimSteer' = <<>>
         /\ UNCHANGED <<ready, disposed, maintenance, abort>>
BY DEF CommitClaim, ClaimReleased

(* The driver's steps.                                                      *)
LEMMA SchedulingDrain ==
  ASSUME TypeOK, SchedulingInv, Drain
  PROVE  SchedulingInv'
<1> USE DEF SchedulingInv, NoStrandedWake, MaintenanceExcludesTurns, Driving, Parking,
            CancelledTurnIsRecordedAborted, EmptyHanded, QuietWake, DrivenHasSignal,
            GoneIsStopped, inbox, flags, claim
<1>1. CASE BeginTurn \/ TurnEndsAndRepeats
  <2>1. OpenTurn /\ pc # "idle" /\ pc # "admit"
        /\ UNCHANGED <<inbox, ready, disposed, maintenance, claim>>
    BY <1>1 DEF BeginTurn, TurnEndsAndRepeats
  <2> QED BY <2>1 DEF OpenTurn
<1>2. CASE ClaimStep
  BY <1>2 DEF ClaimStep
<1>3. CASE StepInterrupted \/ StepLoopLeft
  BY <1>3, ThrowRecords DEF StepInterrupted, StepLoopLeft
<1>4. CASE AdmissionFails \/ AdmissionRejects
  BY <1>4, ThrowRecords DEF AdmissionFails, AdmissionRejects, Park, ClaimReleased
<1>5. CASE AdmissionHandsOver \/ AdmissionIsEmpty \/ AdmissionEnters
  <2>1. \E what : CommitClaim(what)
    BY <1>5 DEF AdmissionHandsOver, AdmissionIsEmpty, AdmissionEnters
  <2>2. pc = "admit" /\ abort # "aborted" /\ pc' \in {"close", "model"}
    BY <1>5 DEF AdmissionHandsOver, AdmissionIsEmpty, AdmissionEnters, Park
  <2> QED BY <2>1, <2>2, CommitKeeps
<1>6. CASE ModelFails \/ ToolFlushFails \/ StoppingFails \/ ToolFails
  BY <1>6, ThrowRecords DEF ModelFails, ToolFlushFails, StoppingFails, ToolFails
<1>7. CASE ModelCompletes \/ StoppingReturns
  <2>1. pc \in {"model", "stopping"} /\ abort # "aborted" /\ UNCHANGED <<inbox, flags, claim>>
    BY <1>7 DEF ModelCompletes, StoppingReturns
  <2>2. \E hooks \in BOOLEAN : AfterStep(FALSE, nextStep, hooks)
    BY <1>7 DEF ModelCompletes, StoppingReturns
  <2>3. pc' \in {"stopping", "top", "close"}
    BY <2>2, AfterStepGoes
  <2> QED BY <2>1, <2>3
<1>8. CASE LastCall
  <2>1. pc = "tool" /\ UNCHANGED <<inbox, flags, claim>>
        /\ AfterStep(~concluded, nextStep, FALSE)
    BY <1>8 DEF LastCall
  <2>2. pc' \in {"stopping", "top"} \/ (pc' = "close" /\ (abort = "aborted" => reason' = "aborted"))
    BY <2>1, ThrowRecords DEF AfterStep
  <2> QED BY <2>1, <2>2
<1>9. CASE ModelIsCapped
  BY <1>9, ThrowRecords DEF ModelIsCapped
<1>10. CASE \E n \in 1 .. MaxCalls : ModelCallsTools(n)
  BY <1>10 DEF ModelCallsTools
<1>11. CASE NextCall \/ \E c \in BOOLEAN : ToolSettles(c)
  BY <1>11 DEF NextCall, ToolSettles
<1>12. CASE \E m \in Messages, c \in BOOLEAN : ToolSettlesWithContext(m, c)
  <2>1. PICK m \in Messages, c \in BOOLEAN : ToolSettlesWithContext(m, c)
    BY <1>12
  <2>2. pc = "tool" /\ UNCHANGED <<flags, claim>> /\ (pc' = "tool" \/ Throw)
    BY <2>1 DEF ToolSettlesWithContext
  <2> QED BY <2>2, ThrowRecords
<1>13. CASE TurnEnds
  BY <1>13 DEF TurnEnds, Repeats
<1>14. CASE DriverExits
  BY <1>14 DEF DriverExits
<1> QED BY <1>1, <1>2, <1>3, <1>4, <1>5, <1>6, <1>7, <1>8, <1>9, <1>10, <1>11,
           <1>12, <1>13, <1>14 DEF Drain

(* The calls of other parties, and the end of a maintenance.                *)
LEMMA SchedulingCallers ==
  ASSUME TypeOK, SchedulingInv, Callers \/ MaintenanceEnds
  PROVE  SchedulingInv'
<1> USE DEF SchedulingInv, NoStrandedWake, MaintenanceExcludesTurns, Driving, Parking,
            CancelledTurnIsRecordedAborted, EmptyHanded, QuietWake, DrivenHasSignal,
            GoneIsStopped, inbox, claim, driver, AtAwait
<1>1. CASE \E m \in Messages : Followup(m) \/ Steer(m) \/ Inject(m)
  <2>1. PICK m \in Messages, t \in {"next-turn", "next-step"}, w \in BOOLEAN :
          Send(m, t, w) /\ (t = "next-turn" => w)
    BY <1>1 DEF Followup, Steer, Inject
  <2>2. AtAwait /\ ~disposed /\ wake' = (wake \/ w)
        /\ UNCHANGED <<ready, disposed, reason, claim>>
    BY <2>1 DEF Send
  <2>3. ~w => nextTurn' = nextTurn
    BY <2>1 DEF Send, Enqueue
  <2>4. PICK routed \in BOOLEAN :
          LET routes == routed /\ pc = "idle" /\ ~maintenance IN
          /\ maintenance' = (maintenance \/ routes)
          /\ StartOr(ready, w, maintenance', IF routes THEN "live" ELSE abort)
    BY <2>1 DEF Send
  <2> QED BY <2>2, <2>3, <2>4, StartOrServes DEF TypeOK
<1>2. CASE Release
  <2>1. StartOr(TRUE, wake, maintenance, abort) /\ ready' = TRUE /\ AtAwait
        /\ UNCHANGED <<inbox, wake, disposed, maintenance, reason, claim>>
    BY <1>2 DEF Release
  <2>2. /\ pc' = pc \/ (pc = "idle" /\ pc' = "reserved")
        /\ wake /\ ~maintenance /\ ~disposed => pc' # "idle"
        /\ pc' = pc => abort' = abort
        /\ pc' # pc => ~maintenance /\ abort' = "live"
    BY <2>1 DEF StartOr
  <2> QED BY <2>1, <2>2 DEF TypeOK
<1>3. CASE MaintenanceEnds
  <2>1. StartOr(ready, wake, FALSE, "none") /\ maintenance /\ maintenance' = FALSE /\ AtAwait
        /\ UNCHANGED <<inbox, wake, ready, disposed, reason, claim>>
    BY <1>3 DEF MaintenanceEnds
  <2> QED BY <2>1, StartOrServes
<1>4. CASE StopForDisposal
  BY <1>4 DEF StopForDisposal, ClearInbox
<1>5. CASE RunMaintenance
  BY <1>5 DEF RunMaintenance
<1>6. CASE \E keep \in BOOLEAN, cause \in {"user", "disposed"} : Cancel(keep, cause)
  <2>1. PICK keep \in BOOLEAN, cause \in {"user", "disposed"} : Cancel(keep, cause)
    BY <1>6
  <2>2. nextTurn' = <<>> \/ nextTurn' = nextTurn \/ pc = "admit"
    <3>1. ClearInbox => nextTurn' = <<>>
      BY DEF ClearInbox
    <3>2. ASSUME DiscardClaimed, pc # "admit" PROVE nextTurn' = nextTurn
      <4>1. ToSet(claimOrd \o claimSteer) = {}
        BY <3>2 DEF ToSet
      <4> QED BY <4>1, <3>2 DEF DiscardClaimed
    <3> QED BY <2>1, <3>1, <3>2 DEF Cancel
  <2>3. wake' = (wake /\ cause # "disposed") /\ disposed' = (disposed \/ cause = "disposed")
        /\ abort' = (IF abort = "none" THEN "none" ELSE "aborted") /\ AtAwait
        /\ UNCHANGED <<ready, maintenance, pc, reason, claim>>
    BY <2>1 DEF Cancel
  <2> QED BY <2>2, <2>3
<1> QED BY <1>1, <1>2, <1>3, <1>4, <1>5, <1>6 DEF Callers

LEMMA SchedulingStep == TypeOK /\ SchedulingInv /\ [Next]_vars => SchedulingInv'
<1>1. SchedulingInv /\ UNCHANGED vars => SchedulingInv'
  BY DEF vars, SchedulingInv, NoStrandedWake, MaintenanceExcludesTurns, Driving,
         CancelledTurnIsRecordedAborted, EmptyHanded, QuietWake, DrivenHasSignal, GoneIsStopped
<1> QED BY <1>1, SchedulingDrain, SchedulingCallers DEF Next

LEMMA Scheduling == Spec => []SchedulingInv
BY SchedulingInit, SchedulingStep, TypeCorrect, PTL DEF Spec

(* A wake-up is never lost: however sends, cancellations, releases,         *)
(* maintenance and the exit of a driver interleave, a released agent that   *)
(* is to run has a driver or a maintenance whose end starts one.            *)
THEOREM WakeIsNeverStranded == Spec => []NoStrandedWake
BY Scheduling, PTL DEF SchedulingInv

(* No turn is driven while maintenance runs (Idle means idle).              *)
THEOREM MaintenanceIsExclusive == Spec => []MaintenanceExcludesTurns
BY Scheduling, PTL DEF SchedulingInv

(* A turn whose signal was aborted by its user is recorded as aborted,      *)
(* wherever in the turn the abort arrived.                                  *)
THEOREM CancelledTurnIsNeverCompleted == Spec => []CancelledTurnIsRecordedAborted
BY Scheduling, PTL DEF SchedulingInv

(* A request an idle agent holds was parked by a turn that was blocked,     *)
(* failed or was cancelled; no other end of a turn leaves one behind.       *)
THEOREM IdleInputWasParked == Spec => []ParkedInputHasReason
<1>1. SchedulingInv => ParkedInputHasReason
  BY DEF SchedulingInv, ParkedInputHasReason, QuietWake, NoStrandedWake, Driving
<1> QED BY <1>1, Scheduling, PTL

-----------------------------------------------------------------------------
(* Tool calls and the step budget.  Both invariants need to know where the  *)
(* driver is: at most the last recorded call is open, and only inside       *)
(* "tool"; a step is left in the budget whenever the loop is re-entered.    *)

CallsInv ==
  /\ EveryCallIsAnswered
  /\ opened <= answered + 1

BudgetInv == MaxSteps # 0 => step <= MaxSteps /\ (pc = "top" => step < MaxSteps)

LEMMA ThrowMoves == ASSUME Throw PROVE pc' = "close"
BY DEF Throw, Park

(* Only the tool steps touch the calls, and only "tool" may be left with    *)
(* every call answered.                                                      *)
LEMMA CallsStep ==
  ASSUME TypeOK, CallsInv, [Next]_vars
  PROVE  CallsInv'
<1> USE DEF CallsInv, EveryCallIsAnswered, tooling, TypeOK, CallOpen
<1>1. CASE \E n \in 1 .. MaxCalls : ModelCallsTools(n)
  BY <1>1 DEF ModelCallsTools
<1>2. CASE ToolFails
  BY <1>2, ThrowMoves DEF ToolFails
<1>3. CASE NextCall \/ \E c \in BOOLEAN : ToolSettles(c)
  BY <1>3 DEF NextCall, ToolSettles
<1>4. CASE \E m \in Messages, c \in BOOLEAN : ToolSettlesWithContext(m, c)
  <2>1. PICK m \in Messages, c \in BOOLEAN : ToolSettlesWithContext(m, c)
    BY <1>4
  <2>2. pc = "tool" /\ CallOpen /\ answered' = answered + 1 /\ UNCHANGED opened
    BY <2>1 DEF ToolSettlesWithContext
  <2> QED BY <2>2
<1>5. CASE LastCall \/ ToolFlushFails
  <2>1. pc = "tool" /\ ~CallOpen /\ UNCHANGED tooling
    BY <1>5 DEF LastCall, ToolFlushFails
  <2>2. pc' # "tool"
    BY <1>5, ThrowMoves DEF LastCall, ToolFlushFails, AfterStep
  <2> QED BY <2>1, <2>2
<1>6. CASE ModelCompletes \/ StoppingReturns
  BY <1>6, AfterStepGoes DEF ModelCompletes, StoppingReturns
<1>7. CASE ModelFails \/ StoppingFails \/ StepInterrupted \/ AdmissionFails
  BY <1>7, ThrowMoves DEF ModelFails, StoppingFails, StepInterrupted, AdmissionFails
<1>8. CASE ModelIsCapped
  BY <1>8, ThrowMoves DEF ModelIsCapped
<1>9. CASE BeginTurn \/ ClaimStep \/ StepLoopLeft \/ TurnEndsAndRepeats \/ TurnEnds \/ DriverExits
  BY <1>9 DEF BeginTurn, ClaimStep, StepLoopLeft, TurnEndsAndRepeats, TurnEnds, DriverExits, OpenTurn
<1>10. CASE AdmissionRejects \/ AdmissionHandsOver \/ AdmissionIsEmpty \/ AdmissionEnters
  BY <1>10 DEF AdmissionRejects, AdmissionHandsOver, AdmissionIsEmpty, AdmissionEnters, Park
<1>11. CASE Callers \/ MaintenanceEnds
  <2>1. UNCHANGED tooling /\ (pc' = pc \/ (pc = "idle" /\ pc' = "reserved"))
    BY <1>11 DEF Callers, MaintenanceEnds, Followup, Steer, Inject, Send, Release, Cancel,
                 StopForDisposal, RunMaintenance, StartOr, driver
  <2> QED BY <2>1
<1>12. CASE UNCHANGED vars
  BY <1>12 DEF vars
<1> QED BY <1>1, <1>2, <1>3, <1>4, <1>5, <1>6, <1>7, <1>8, <1>9, <1>10, <1>11, <1>12
        DEF Next, Drain

(* Every recorded tool call has its result once its message is left, for    *)
(* any number of calls and any mixture of failures.                         *)
THEOREM CallsAreAnswered == Spec => []EveryCallIsAnswered
<1>1. Init => CallsInv
  BY DEF Init, CallsInv, EveryCallIsAnswered
<1>2. CallsInv => EveryCallIsAnswered
  BY DEF CallsInv
<1> QED BY <1>1, <1>2, CallsStep, TypeCorrect, PTL DEF Spec

LEMMA BudgetStep ==
  ASSUME TypeOK, BudgetInv, [Next]_vars
  PROVE  BudgetInv'
<1> USE HarnessAssumption DEF BudgetInv, TypeOK
<1>1. CASE BeginTurn \/ TurnEndsAndRepeats
  BY <1>1 DEF BeginTurn, TurnEndsAndRepeats, OpenTurn
<1>2. CASE ClaimStep
  BY <1>2 DEF ClaimStep
<1>3. CASE ModelCompletes \/ LastCall \/ StoppingReturns
  <2>1. step' = step /\ \E a, n, h : AfterStep(a, n, h)
    BY <1>3 DEF ModelCompletes, LastCall, StoppingReturns
  <2>2. pc' = "top" => ~BudgetSpent
    BY <2>1, ThrowMoves DEF AfterStep
  <2> QED BY <2>1, <2>2 DEF BudgetSpent
<1>4. CASE ModelIsCapped
  BY <1>4, ThrowMoves DEF ModelIsCapped, BudgetSpent
<1>5. CASE \/ AdmissionFails \/ ModelFails \/ ToolFails \/ ToolFlushFails \/ StoppingFails
           \/ StepInterrupted \/ StepLoopLeft \/ TurnEnds \/ DriverExits
  BY <1>5, ThrowMoves DEF AdmissionFails, ModelFails, ToolFails, ToolFlushFails, StoppingFails,
     StepInterrupted, StepLoopLeft, TurnEnds, DriverExits
<1>6. CASE \/ AdmissionRejects \/ AdmissionHandsOver \/ AdmissionIsEmpty \/ AdmissionEnters
           \/ NextCall \/ \E n \in 1 .. MaxCalls : ModelCallsTools(n)
           \/ \E c \in BOOLEAN : ToolSettles(c)
  BY <1>6 DEF AdmissionRejects, AdmissionHandsOver, AdmissionIsEmpty, AdmissionEnters, Park,
     NextCall, ModelCallsTools, ToolSettles
<1>7. CASE \E m \in Messages, c \in BOOLEAN : ToolSettlesWithContext(m, c)
  BY <1>7, ThrowMoves DEF ToolSettlesWithContext
<1>8. CASE Callers \/ MaintenanceEnds
  <2>1. step' = step /\ (pc' = pc \/ pc' = "reserved")
    BY <1>8 DEF Callers, MaintenanceEnds, Followup, Steer, Inject, Send, Release, Cancel,
                StopForDisposal, RunMaintenance, StartOr, driver
  <2> QED BY <2>1
<1>9. CASE UNCHANGED vars
  BY <1>9 DEF vars
<1> QED BY <1>1, <1>2, <1>3, <1>4, <1>5, <1>6, <1>7, <1>8, <1>9 DEF Next, Drain

(* No turn takes more model steps than options.maxSteps allows.             *)
THEOREM BudgetIsKept == Spec => []StepBudgetHolds
<1>1. Init => BudgetInv
  BY HarnessAssumption DEF Init, BudgetInv
<1>2. BudgetInv => StepBudgetHolds
  BY DEF BudgetInv, StepBudgetHolds
<1> QED BY <1>1, <1>2, BudgetStep, TypeCorrect, PTL DEF Spec

-----------------------------------------------------------------------------
(* Late admissions.                                                         *)

(* A step accepts messages only as an admission that enters its model step. *)
LEMMA AcceptanceIsAdmission ==
  ASSUME TypeOK, [Next]_vars, AcceptedNow # {}
  PROVE  AdmissionEnters
<1>0. PICK m \in Messages : fate[m] # "accepted" /\ fate'[m] = "accepted"
  BY DEF AcceptedNow
<1>1. fate' # fate
  BY <1>0
<1>2. ASSUME NEW set, NEW what \in {"handled", "discarded"} PROVE fate' # Mark(set, what)
  BY <1>0 DEF Mark
<1>3. ASSUME NEW n \in Messages, NEW t PROVE ~Enqueue(n, t)
  BY <1>0 DEF Enqueue, TypeOK
<1>4. ~CommitClaim("handled") /\ ~ClearInbox /\ ~DiscardClaimed
  BY <1>1, <1>2 DEF CommitClaim, ClearInbox, DiscardClaimed, inbox
<1>5. ~Callers /\ ~MaintenanceEnds
  BY <1>1, <1>3, <1>4 DEF Callers, MaintenanceEnds, Followup, Steer, Inject, Send, Release,
     Cancel, StopForDisposal, RunMaintenance, inbox
<1>6. ~UNCHANGED vars
  BY <1>1 DEF vars
<1>7. ~AdmissionHandsOver /\ ~AdmissionIsEmpty
      /\ ~\E n \in Messages, c \in BOOLEAN : ToolSettlesWithContext(n, c)
  BY <1>1, <1>3, <1>4 DEF AdmissionHandsOver, AdmissionIsEmpty, ToolSettlesWithContext, inbox
<1>8. \/ BeginTurn \/ ClaimStep \/ StepInterrupted \/ StepLoopLeft
      \/ AdmissionFails \/ AdmissionRejects
      \/ ModelFails \/ ModelCompletes \/ ModelIsCapped
      \/ \E n \in 1 .. MaxCalls : ModelCallsTools(n)
      \/ ToolFails \/ \E c \in BOOLEAN : ToolSettles(c)
      \/ ToolFlushFails \/ NextCall \/ LastCall \/ StoppingReturns \/ StoppingFails
      \/ TurnEndsAndRepeats \/ TurnEnds \/ DriverExits
      => UNCHANGED fate
  BY DEF inbox, BeginTurn, ClaimStep, StepInterrupted, StepLoopLeft, AdmissionFails,
     AdmissionRejects, ModelFails, ModelCompletes, ModelIsCapped, ModelCallsTools, ToolFails,
     ToolSettles, ToolFlushFails, NextCall, LastCall, StoppingReturns, StoppingFails,
     TurnEndsAndRepeats, TurnEnds, DriverExits
<1> QED BY <1>1, <1>5, <1>6, <1>7, <1>8 DEF Next, Drain

(* A claim whose turn was stopped while its admission was awaited, by its   *)
(* user or by the disposal of the agent, is never accepted: it cannot run.  *)
THEOREM LateAdmissionIsRefused == Spec => NoAcceptanceAfterAbort
<1>1. TypeOK /\ SchedulingInv /\ [Next]_vars
        => [AcceptedNow # {} => abort = "live" /\ ~disposed /\ abort' = abort]_vars
  <2> SUFFICES ASSUME TypeOK, SchedulingInv, [Next]_vars, AcceptedNow # {}
               PROVE  abort = "live" /\ ~disposed /\ abort' = abort
    OBVIOUS
  <2>1. pc = "admit" /\ abort # "aborted" /\ CommitClaim("accepted")
    BY AcceptanceIsAdmission DEF AdmissionEnters
  <2>2. abort' = abort
    BY <2>1, CommitKeeps
  <2> QED BY <2>1, <2>2 DEF SchedulingInv, DrivenHasSignal, GoneIsStopped, Driving, TypeOK
<1> QED BY <1>1, TypeCorrect, Scheduling, PTL DEF Spec, NoAcceptanceAfterAbort

-----------------------------------------------------------------------------
(* Messages are neither lost nor doubled.  Counting is replaced by what it  *)
(* follows from: the queues repeat nothing and share nothing, and they hold *)
(* exactly the pending messages.                                            *)

Distinct(q) == \A i, j \in DOMAIN q : q[i] = q[j] => i = j

LEMMA RankInjective ==
  ASSUME NEW N \in Nat, NEW S, \A j \in S : j \in 1 .. N,
         NEW i \in S, NEW j \in S, Rank(S, i) = Rank(S, j)
  PROVE  i = j
<1>1. ASSUME NEW a \in S, NEW b \in S, a < b PROVE Rank(S, a) # Rank(S, b)
  <2> DEFINE A == {x \in S : x <= a}
             B == {x \in S : x <= b}
  <2>1. IsFiniteSet(S)
    <3>1. IsFiniteSet(1 .. N) /\ S \in SUBSET (1 .. N)
      BY FS_Interval
    <3> QED BY <3>1, FS_Subset
  <2>2. IsFiniteSet(A) /\ IsFiniteSet(B)
    BY <2>1, FS_Subset
  <2>3. \A x \in S : x \in Nat
    OBVIOUS
  <2>4. A \cup {b} \subseteq B /\ b \notin A
    BY <1>1, <2>3
  <2>5. IsFiniteSet(A \cup {b}) /\ Cardinality(A \cup {b}) = Cardinality(A) + 1
    <3> HIDE DEF A
    <3> QED BY <2>2, <2>4, FS_AddElement
  <2>6. Cardinality(A \cup {b}) <= Cardinality(B)
    <3> HIDE DEF A, B
    <3> QED BY <2>2, <2>4, FS_Subset
  <2>7. Cardinality(A) \in Nat /\ Cardinality(B) \in Nat
    BY <2>2, FS_CardinalityType
  <2>8. Cardinality(A) # Cardinality(B)
    <3> HIDE DEF A, B
    <3> QED BY <2>5, <2>6, <2>7
  <2> QED BY <2>8 DEF Rank
<1>2. i \in Nat /\ j \in Nat
  OBVIOUS
<1>3. ~(i < j) /\ ~(j < i)
  BY <1>1
<1> QED BY <1>2, <1>3

(* Removal by identity takes what it names and keeps the rest, once.        *)
LEMMA WithoutKeeps ==
  ASSUME NEW S, NEW queue \in Seq(S), NEW gone, Distinct(queue)
  PROVE  /\ Distinct(Without(queue, gone))
         /\ \A m : m \in ToSet(Without(queue, gone)) <=> m \in ToSet(queue) /\ m \notin gone
<1> DEFINE kept == {i \in DOMAIN queue : queue[i] \notin gone}
           left == Without(queue, gone)
<1>1. DOMAIN queue = 1 .. Len(queue) /\ Len(queue) \in Nat
  OBVIOUS
<1>2. /\ \A i \in kept : i \in 1 .. Len(queue) /\ i \in DOMAIN queue /\ queue[i] \notin gone
      /\ \A i \in DOMAIN queue : queue[i] \notin gone => i \in kept
      /\ IsFiniteSet(kept) /\ Cardinality(kept) \in Nat
  <2>1. IsFiniteSet(1 .. Len(queue)) /\ kept \in SUBSET (1 .. Len(queue))
    BY <1>1, FS_Interval
  <2>2. IsFiniteSet(kept)
    BY <2>1, FS_Subset
  <2> QED BY <1>1, <2>2, FS_CardinalityType
<1>3. left = [k \in 1 .. Cardinality(kept) |-> queue[Nth(kept, k)]]
  BY DEF Without
<1> HIDE DEF kept, left
<1>4. \A k \in 1 .. Cardinality(kept) : Nth(kept, k) \in kept /\ Rank(kept, Nth(kept, k)) = k
  <2> SUFFICES ASSUME NEW k \in 1 .. Cardinality(kept)
               PROVE  Nth(kept, k) \in kept /\ Rank(kept, Nth(kept, k)) = k
    OBVIOUS
  <2>1. \E i \in kept : Rank(kept, i) = k
    BY <1>1, <1>2, NthExists
  <2> QED BY <2>1 DEF Nth
<1>5. ASSUME NEW i \in kept
      PROVE  /\ Rank(kept, i) \in 1 .. Cardinality(kept)
             /\ Nth(kept, Rank(kept, i)) = i
  <2> DEFINE A == {x \in kept : x <= i}
  <2>1. IsFiniteSet(A) /\ A \subseteq kept /\ i \in A
    <3>1. i \in Nat
      BY <1>2
    <3> QED BY <1>2, <3>1, FS_Subset
  <2>2. Cardinality(A) \in Nat /\ Cardinality(A) # 0 /\ Cardinality(A) <= Cardinality(kept)
    <3> HIDE DEF A
    <3>1. Cardinality(A) \in Nat /\ A # {}
      BY <2>1, FS_CardinalityType
    <3> QED BY <1>2, <2>1, <3>1, FS_EmptySet, FS_Subset
  <2>3. Rank(kept, i) \in 1 .. Cardinality(kept)
    <3>1. Rank(kept, i) = Cardinality(A)
      BY DEF Rank
    <3> HIDE DEF A
    <3> QED BY <1>2, <2>2, <3>1
  <2>4. Nth(kept, Rank(kept, i)) \in kept /\ Rank(kept, Nth(kept, Rank(kept, i))) = Rank(kept, i)
    BY <1>4, <2>3
  <2> QED BY <1>1, <1>2, <2>3, <2>4, RankInjective
<1>6. DOMAIN left = 1 .. Cardinality(kept) /\ \A k \in DOMAIN left : left[k] = queue[Nth(kept, k)]
  BY <1>3
<1>7. Distinct(left)
  <2> SUFFICES ASSUME NEW k \in DOMAIN left, NEW l \in DOMAIN left, left[k] = left[l] PROVE k = l
    BY DEF Distinct
  <2>1. Nth(kept, k) = Nth(kept, l)
    BY <1>2, <1>4, <1>6 DEF Distinct
  <2> QED BY <1>4, <1>6, <2>1
<1>8. ASSUME NEW m PROVE m \in ToSet(left) <=> m \in ToSet(queue) /\ m \notin gone
  <2>1. m \in ToSet(left) <=> \E k \in DOMAIN left : left[k] = m
    BY DEF ToSet
  <2>2. m \in ToSet(queue) <=> \E i \in DOMAIN queue : queue[i] = m
    BY DEF ToSet
  <2>3. (\E k \in DOMAIN left : left[k] = m) <=> \E i \in kept : queue[i] = m
    BY <1>4, <1>5, <1>6
  <2> QED BY <1>2, <2>1, <2>2, <2>3
<1> QED BY <1>7, <1>8 DEF left

(* The messages a claim names, at the head of the queue they came from.     *)
Held(c, q) == Len(c) <= Len(q) /\ \A i \in 1 .. Len(c) : c[i] = q[i]

(* Removal by position takes the claimed head and keeps the rest.           *)
LEMMA SpliceKeeps ==
  ASSUME NEW S, NEW q \in Seq(S), NEW c \in Seq(S), Held(c, q), Distinct(q)
  PROVE  /\ Distinct(SpliceHead(q, Len(c)))
         /\ \A m : m \in ToSet(SpliceHead(q, Len(c))) <=> m \in ToSet(q) /\ m \notin ToSet(c)
         /\ ToSet(c) \subseteq ToSet(q)
<1> DEFINE n == Len(c)
           left == SpliceHead(q, n)
<1>1. /\ DOMAIN q = 1 .. Len(q) /\ Len(q) \in Nat
      /\ DOMAIN c = 1 .. n /\ n \in Nat /\ n <= Len(q)
      /\ \A i \in 1 .. n : c[i] = q[i]
  BY DEF Held
<1>2. DOMAIN left = 1 .. Len(q) - n /\ \A i \in 1 .. Len(q) - n : left[i] = q[n + i]
  BY <1>1 DEF SpliceHead
<1> HIDE DEF n, left
<1>3. Distinct(left)
  <2> SUFFICES ASSUME NEW i \in 1 .. Len(q) - n, NEW j \in 1 .. Len(q) - n, left[i] = left[j]
               PROVE  i = j
    BY <1>2 DEF Distinct
  <2>1. n + i \in DOMAIN q /\ n + j \in DOMAIN q /\ q[n + i] = q[n + j]
    BY <1>1, <1>2
  <2>2. n + i = n + j
    BY <2>1 DEF Distinct
  <2> QED BY <1>1, <2>2
<1>4. ASSUME NEW m PROVE m \in ToSet(left) <=> m \in ToSet(q) /\ m \notin ToSet(c)
  <2>1. m \in ToSet(left) <=> \E i \in 1 .. Len(q) - n : q[n + i] = m
    BY <1>2 DEF ToSet
  <2>2. m \in ToSet(q) <=> \E i \in 1 .. Len(q) : q[i] = m
    BY <1>1 DEF ToSet
  <2>3. m \in ToSet(c) <=> \E i \in 1 .. n : q[i] = m
    BY <1>1 DEF ToSet
  <2>4. ASSUME NEW i \in 1 .. Len(q) - n, q[n + i] = m PROVE m \in ToSet(q) /\ m \notin ToSet(c)
    <3>1. n + i \in 1 .. Len(q) /\ \A j \in 1 .. n : j \in 1 .. Len(q) /\ j # n + i
      BY <1>1
    <3>2. \A j \in 1 .. n : q[j] # m
      BY <1>1, <2>4, <3>1 DEF Distinct
    <3> QED BY <2>2, <2>3, <2>4, <3>1, <3>2
  <2>5. ASSUME m \in ToSet(q), m \notin ToSet(c) PROVE \E i \in 1 .. Len(q) - n : q[n + i] = m
    <3>1. PICK j \in 1 .. Len(q) : q[j] = m
      BY <2>2, <2>5
    <3>2. j \notin 1 .. n
      BY <2>3, <2>5, <3>1
    <3>3. j - n \in 1 .. Len(q) - n /\ n + (j - n) = j
      BY <1>1, <3>2
    <3> QED BY <3>1, <3>3
  <2> QED BY <2>1, <2>4, <2>5
<1>5. ToSet(c) \subseteq ToSet(q)
  BY <1>1 DEF ToSet
<1> QED BY <1>3, <1>4, <1>5 DEF left, n

LEMMA AppendKeeps ==
  ASSUME NEW S, NEW q \in Seq(S), NEW m \in S, m \notin ToSet(q), Distinct(q)
  PROVE  /\ Distinct(Append(q, m))
         /\ \A x : x \in ToSet(Append(q, m)) <=> x \in ToSet(q) \/ x = m
         /\ \A c \in Seq(S) : Held(c, q) => Held(c, Append(q, m))
<1> DEFINE r == Append(q, m)
<1>1. /\ DOMAIN q = 1 .. Len(q) /\ Len(q) \in Nat
      /\ Len(r) = Len(q) + 1 /\ DOMAIN r = 1 .. Len(q) + 1
      /\ r[Len(q) + 1] = m /\ \A i \in 1 .. Len(q) : r[i] = q[i]
  OBVIOUS
<1>2. \A i \in 1 .. Len(q) : q[i] # m
  BY <1>1 DEF ToSet
<1> HIDE DEF r
<1>3. Distinct(r)
  <2> SUFFICES ASSUME NEW i \in 1 .. Len(q) + 1, NEW j \in 1 .. Len(q) + 1, r[i] = r[j] PROVE i = j
    BY <1>1 DEF Distinct
  <2>1. CASE i \in 1 .. Len(q) /\ j \in 1 .. Len(q)
    BY <1>1, <2>1 DEF Distinct
  <2>2. CASE i = Len(q) + 1 \/ j = Len(q) + 1
    BY <1>1, <1>2, <2>2
  <2> QED BY <1>1, <2>1, <2>2
<1>4. ASSUME NEW x PROVE x \in ToSet(r) <=> x \in ToSet(q) \/ x = m
  <2>1. x \in ToSet(r) <=> \E i \in 1 .. Len(q) + 1 : r[i] = x
    BY <1>1 DEF ToSet
  <2>2. x \in ToSet(q) <=> \E i \in 1 .. Len(q) : q[i] = x
    BY <1>1 DEF ToSet
  <2> QED BY <1>1, <2>1, <2>2
<1>5. ASSUME NEW c \in Seq(S), Held(c, q) PROVE Held(c, r)
  <2>1. Len(c) \in Nat
    OBVIOUS
  <2> QED BY <1>1, <1>5, <2>1 DEF Held
<1> QED BY <1>3, <1>4, <1>5 DEF r

LEMMA ClaimedTogether ==
  ASSUME NEW S, NEW a \in Seq(S), NEW b \in Seq(S), NEW m
  PROVE  m \in ToSet(a \o b) <=> m \in ToSet(a) \/ m \in ToSet(b)
<1>1. /\ DOMAIN a = 1 .. Len(a) /\ DOMAIN b = 1 .. Len(b) /\ Len(a) \in Nat /\ Len(b) \in Nat
      /\ DOMAIN (a \o b) = 1 .. Len(a) + Len(b)
      /\ \A i \in 1 .. Len(a) : (a \o b)[i] = a[i]
      /\ \A i \in 1 .. Len(b) : (a \o b)[Len(a) + i] = b[i]
  BY ConcatProperties, LenProperties
<1>2. m \in ToSet(a \o b) <=> \E i \in 1 .. Len(a) + Len(b) : (a \o b)[i] = m
  BY <1>1 DEF ToSet
<1>3. m \in ToSet(a) <=> \E i \in 1 .. Len(a) : a[i] = m
  BY <1>1 DEF ToSet
<1>4. m \in ToSet(b) <=> \E i \in 1 .. Len(b) : b[i] = m
  BY <1>1 DEF ToSet
<1>5. ASSUME m \in ToSet(a \o b) PROVE m \in ToSet(a) \/ m \in ToSet(b)
  <2>1. PICK i \in 1 .. Len(a) + Len(b) : (a \o b)[i] = m
    BY <1>2, <1>5
  <2>2. CASE i <= Len(a)
    BY <1>1, <1>3, <2>1, <2>2
  <2>3. CASE ~(i <= Len(a))
    <3>1. i - Len(a) \in 1 .. Len(b) /\ Len(a) + (i - Len(a)) = i
      BY <1>1, <2>3
    <3>2. b[i - Len(a)] = m
      BY <1>1, <2>1, <3>1
    <3> QED BY <1>4, <3>1, <3>2
  <2> QED BY <2>2, <2>3
<1>6. ASSUME m \in ToSet(b) PROVE m \in ToSet(a \o b)
  <2>1. PICK i \in 1 .. Len(b) : b[i] = m
    BY <1>4, <1>6
  <2>2. Len(a) + i \in 1 .. Len(a) + Len(b)
    BY <1>1
  <2> QED BY <1>1, <1>2, <2>1, <2>2
<1>7. ASSUME m \in ToSet(a) PROVE m \in ToSet(a \o b)
  <2>1. PICK i \in 1 .. Len(a) : a[i] = m
    BY <1>3, <1>7
  <2>2. i \in 1 .. Len(a) + Len(b)
    BY <1>1
  <2> QED BY <1>1, <1>2, <2>1, <2>2
<1> QED BY <1>5, <1>6, <1>7

AccountInv ==
  /\ Distinct(nextTurn) /\ Distinct(nextStep)
  /\ ToSet(nextTurn) \cap ToSet(nextStep) = {}
  /\ \A m \in Messages : fate[m] = "queued" <=> m \in Queued
  /\ pc = "admit" /\ abort # "aborted" => Held(claimOrd, nextTurn) /\ Held(claimSteer, nextStep)

LEMMA QueuedAreMessages == ASSUME TypeOK PROVE Queued \subseteq Messages
BY DEF TypeOK, Queued, ToSet

LEMMA EmptyQueue == Distinct(<<>>) /\ ToSet(<<>>) = {}
BY DEF Distinct, ToSet

LEMMA AccountInit == Init => AccountInv
BY EmptyQueue DEF Init, AccountInv, Queued

(* A claim that was taken is still there, or its turn was stopped.          *)
StillHeld ==
  pc' = "admit" /\ abort' # "aborted" => pc = "admit" /\ abort # "aborted" /\ UNCHANGED claim

LEMMA InboxAlone ==
  ASSUME AccountInv, UNCHANGED inbox, StillHeld
  PROVE  AccountInv'
BY DEF AccountInv, inbox, StillHeld, claim, Queued

LEMMA EnqueueAccounts ==
  ASSUME TypeOK, AccountInv, NEW m \in Messages, NEW target \in {"next-turn", "next-step"},
         fate[m] = "unsent", Enqueue(m, target), StillHeld
  PROVE  AccountInv'
<1>1. m \notin ToSet(nextTurn) /\ m \notin ToSet(nextStep)
  BY DEF AccountInv, Queued
<1>2. /\ nextTurn \in Seq(Messages) /\ nextStep \in Seq(Messages)
      /\ claimOrd \in Seq(Messages) /\ claimSteer \in Seq(Messages)
  BY DEF TypeOK
<1>3. /\ Distinct(nextTurn') /\ Distinct(nextStep')
      /\ \A c \in Seq(Messages) : Held(c, nextTurn) => Held(c, nextTurn')
      /\ \A c \in Seq(Messages) : Held(c, nextStep) => Held(c, nextStep')
      /\ \A x : x \in ToSet(nextTurn') <=> x \in ToSet(nextTurn) \/ (target = "next-turn" /\ x = m)
      /\ \A x : x \in ToSet(nextStep') <=> x \in ToSet(nextStep) \/ (target = "next-step" /\ x = m)
  BY <1>1, <1>2, AppendKeeps DEF Enqueue, AccountInv
<1>4. ToSet(nextTurn') \cap ToSet(nextStep') = {}
  BY <1>1, <1>3 DEF AccountInv
<1>5. \A x \in Messages : fate'[x] = "queued" <=> x \in Queued'
  <2>1. \A x : x \in Queued' <=> x \in Queued \/ x = m
    BY <1>3 DEF Queued
  <2> QED BY <2>1 DEF AccountInv, Enqueue, TypeOK
<1>6. pc' = "admit" /\ abort' # "aborted" => Held(claimOrd', nextTurn') /\ Held(claimSteer', nextStep')
  BY <1>2, <1>3 DEF StillHeld, AccountInv, claim
<1> QED BY <1>3, <1>4, <1>5, <1>6 DEF AccountInv

LEMMA ClearAccounts ==
  ASSUME TypeOK, AccountInv, ClearInbox, pc' = "admit" => abort' = "aborted"
  PROVE  AccountInv'
<1>1. \A m \in Messages : fate'[m] # "queued"
  BY DEF ClearInbox, Mark, AccountInv
<1> QED BY <1>1, EmptyQueue DEF AccountInv, ClearInbox, Queued

LEMMA DiscardAccounts ==
  ASSUME TypeOK, AccountInv, DiscardClaimed, pc' = "admit" => abort' = "aborted"
  PROVE  AccountInv'
<1> DEFINE gone == ToSet(claimOrd \o claimSteer) \cap Queued
<1>1. CASE gone = {}
  BY <1>1 DEF DiscardClaimed, AccountInv, inbox, Queued
<1>2. CASE gone # {}
  <2>1. /\ nextTurn' = Without(nextTurn, gone) /\ nextStep' = Without(nextStep, gone)
        /\ fate' = Mark(gone, "discarded")
    BY <1>2 DEF DiscardClaimed
  <2>2. /\ Distinct(nextTurn') /\ Distinct(nextStep')
        /\ \A m : m \in ToSet(nextTurn') <=> m \in ToSet(nextTurn) /\ m \notin gone
        /\ \A m : m \in ToSet(nextStep') <=> m \in ToSet(nextStep) /\ m \notin gone
    <3> HIDE DEF gone
    <3> QED BY <2>1, WithoutKeeps DEF TypeOK, AccountInv
  <2>3. \A m \in Messages : fate'[m] = "queued" <=> m \in Queued'
    <3> HIDE DEF gone
    <3> QED BY <2>1, <2>2 DEF Mark, AccountInv, Queued
  <2> HIDE DEF gone
  <2> QED BY <2>2, <2>3 DEF AccountInv
<1> QED BY <1>1, <1>2

LEMMA CommitAccounts ==
  ASSUME TypeOK, AccountInv, NEW what \in {"handled", "accepted"}, CommitClaim(what),
         pc = "admit", abort # "aborted", pc' # "admit"
  PROVE  /\ AccountInv'
         /\ ToSet(claimOrd \o claimSteer) \subseteq Queued
<1>1. Held(claimOrd, nextTurn) /\ Held(claimSteer, nextStep)
  BY DEF AccountInv
<1>2. \A m : m \in ToSet(claimOrd \o claimSteer) <=> m \in ToSet(claimOrd) \/ m \in ToSet(claimSteer)
  BY ClaimedTogether DEF TypeOK
<1>3. /\ Distinct(nextTurn') /\ ToSet(claimOrd) \subseteq ToSet(nextTurn)
      /\ \A m : m \in ToSet(nextTurn') <=> m \in ToSet(nextTurn) /\ m \notin ToSet(claimOrd)
  BY <1>1, SpliceKeeps DEF CommitClaim, AccountInv, TypeOK
<1>4. /\ Distinct(nextStep') /\ ToSet(claimSteer) \subseteq ToSet(nextStep)
      /\ \A m : m \in ToSet(nextStep') <=> m \in ToSet(nextStep) /\ m \notin ToSet(claimSteer)
  BY <1>1, SpliceKeeps DEF CommitClaim, AccountInv, TypeOK
<1>5. ToSet(nextTurn') \cap ToSet(nextStep') = {}
  BY <1>3, <1>4 DEF AccountInv
<1>6. \A m : m \in Queued' <=> m \in Queued /\ m \notin ToSet(claimOrd \o claimSteer)
  BY <1>2, <1>3, <1>4 DEF Queued, AccountInv
<1>7. \A m \in Messages : fate'[m] = "queued" <=> m \in Queued'
  BY <1>6 DEF CommitClaim, Mark, AccountInv
<1> QED BY <1>2, <1>3, <1>4, <1>5, <1>7 DEF AccountInv, Queued

(* The head of the step loop claims a head of each queue.                   *)
LEMMA ClaimAccounts ==
  ASSUME TypeOK, AccountInv, ClaimStep
  PROVE  AccountInv'
<1>1. Held(claimSteer', nextStep) /\ Held(claimOrd', nextTurn)
  <2>1. CASE step = 0 /\ nextTurn # <<>>
    <3>1. claimOrd' = SubSeq(nextTurn, 1, 1) /\ claimSteer' = nextStep
      BY <2>1 DEF ClaimStep
    <3>2. Len(nextTurn) \in Nat /\ Len(nextTurn) >= 1
      BY <2>1, EmptySeq DEF TypeOK
    <3>3. Len(SubSeq(nextTurn, 1, 1)) = 1 /\ SubSeq(nextTurn, 1, 1)[1] = nextTurn[1]
      BY <3>2 DEF TypeOK
    <3>4. Len(nextStep) \in Nat
      BY DEF TypeOK
    <3> QED BY <3>1, <3>2, <3>3, <3>4 DEF Held
  <2>2. CASE step # 0 \/ nextTurn = <<>>
    <3>1. claimOrd' = <<>> /\ claimSteer' = nextStep
      BY <2>2 DEF ClaimStep, TypeOK
    <3>2. Len(nextTurn) \in Nat /\ Len(nextStep) \in Nat /\ Len(<<>>) = 0
      BY DEF TypeOK
    <3> QED BY <3>1, <3>2 DEF Held
  <2> QED BY <2>1, <2>2
<1> QED BY <1>1 DEF AccountInv, ClaimStep, inbox, Queued

LEMMA AccountStep ==
  ASSUME TypeOK, SchedulingInv, AccountInv, [Next]_vars
  PROVE  AccountInv'
<1>1. CASE Callers \/ MaintenanceEnds
  <2>1. CASE \E m \in Messages : Followup(m) \/ Steer(m) \/ Inject(m)
    <3>1. PICK m \in Messages, t \in {"next-turn", "next-step"}, w \in BOOLEAN : Send(m, t, w)
      BY <2>1 DEF Followup, Steer, Inject
    <3>2. PICK target \in {"next-turn", "next-step"} : Enqueue(m, target)
      BY <3>1 DEF Send
    <3>3. StillHeld
      BY <3>1 DEF Send, StartOr, StillHeld
    <3> QED BY <3>1, <3>2, <3>3, EnqueueAccounts DEF Send
  <2>2. CASE Release \/ MaintenanceEnds \/ RunMaintenance
    <3>1. UNCHANGED inbox /\ StillHeld
      BY <2>2 DEF Release, MaintenanceEnds, RunMaintenance, StartOr, StillHeld, Driving, driver, claim,
                  SchedulingInv, MaintenanceExcludesTurns
    <3> QED BY <3>1, InboxAlone
  <2>3. CASE StopForDisposal
    <3>1. ClearInbox /\ (pc' = "admit" => abort' = "aborted")
      BY <2>3 DEF StopForDisposal, driver, SchedulingInv, DrivenHasSignal, Driving
    <3> QED BY <3>1, ClearAccounts
  <2>4. CASE \E keep \in BOOLEAN, cause \in {"user", "disposed"} : Cancel(keep, cause)
    <3>1. ClearInbox \/ DiscardClaimed
      BY <2>4 DEF Cancel
    <3>2. pc' = "admit" => abort' = "aborted"
      BY <2>4 DEF Cancel, driver, SchedulingInv, DrivenHasSignal, Driving
    <3> QED BY <3>1, <3>2, ClearAccounts, DiscardAccounts
  <2> QED BY <1>1, <2>1, <2>2, <2>3, <2>4 DEF Callers
<1>2. CASE ClaimStep
  BY <1>2, ClaimAccounts
<1>3. CASE AdmissionHandsOver \/ AdmissionIsEmpty \/ AdmissionEnters
  <2>1. PICK what \in {"handled", "accepted"} : CommitClaim(what)
    BY <1>3 DEF AdmissionHandsOver, AdmissionIsEmpty, AdmissionEnters
  <2>2. pc = "admit" /\ abort # "aborted" /\ pc' # "admit"
    BY <1>3 DEF AdmissionHandsOver, AdmissionIsEmpty, AdmissionEnters, Park
  <2> QED BY <2>1, <2>2, CommitAccounts
<1>4. CASE \E m \in Messages, c \in BOOLEAN : ToolSettlesWithContext(m, c)
  <2>1. PICK m \in Messages, c \in BOOLEAN : ToolSettlesWithContext(m, c)
    BY <1>4
  <2>2. StillHeld
    BY <2>1, ThrowMoves DEF ToolSettlesWithContext, StillHeld
  <2>3. CASE disposed
    BY <2>1, <2>2, <2>3, InboxAlone DEF ToolSettlesWithContext
  <2>4. CASE ~disposed
    <3>1. Enqueue(m, "next-step") /\ fate[m] = "unsent"
      BY <2>1, <2>4 DEF ToolSettlesWithContext
    <3> QED BY <2>2, <3>1, EnqueueAccounts
  <2> QED BY <2>3, <2>4
<1>5. CASE BeginTurn \/ TurnEndsAndRepeats \/ TurnEnds \/ DriverExits \/ StepLoopLeft
  <2>1. UNCHANGED inbox /\ pc' # "admit"
    BY <1>5 DEF BeginTurn, TurnEndsAndRepeats, OpenTurn, TurnEnds, DriverExits, StepLoopLeft
  <2> QED BY <2>1, InboxAlone DEF StillHeld
<1>6. CASE \/ StepInterrupted \/ AdmissionFails \/ AdmissionRejects \/ ModelFails
           \/ ToolFails \/ ToolFlushFails \/ StoppingFails
  <2>1. UNCHANGED inbox /\ pc' # "admit"
    BY <1>6, ThrowMoves DEF StepInterrupted, AdmissionFails, AdmissionRejects, Park, ModelFails,
                            ToolFails, ToolFlushFails, StoppingFails
  <2> QED BY <2>1, InboxAlone DEF StillHeld
<1>7. CASE ModelCompletes \/ LastCall \/ StoppingReturns
  <2>1. UNCHANGED inbox /\ pc' # "admit"
    BY <1>7, AfterStepGoes DEF ModelCompletes, LastCall, StoppingReturns
  <2> QED BY <2>1, InboxAlone DEF StillHeld
<1>8. CASE ModelIsCapped
  <2>1. UNCHANGED inbox /\ pc' # "admit"
    BY <1>8, ThrowMoves DEF ModelIsCapped
  <2> QED BY <2>1, InboxAlone DEF StillHeld
<1>9. CASE \/ \E n \in 1 .. MaxCalls : ModelCallsTools(n)
           \/ NextCall \/ \E c \in BOOLEAN : ToolSettles(c)
  <2>1. UNCHANGED inbox /\ pc' # "admit"
    BY <1>9 DEF ModelCallsTools, NextCall, ToolSettles
  <2> QED BY <2>1, InboxAlone DEF StillHeld
<1>10. CASE UNCHANGED vars
  <2>1. UNCHANGED inbox /\ StillHeld
    BY <1>10 DEF vars, inbox, claim, StillHeld
  <2> QED BY <2>1, InboxAlone
<1> QED BY <1>1, <1>2, <1>3, <1>4, <1>5, <1>6, <1>7, <1>8, <1>9, <1>10 DEF Next, Drain

LEMMA Accounting == Spec => []AccountInv
BY AccountInit, AccountStep, TypeCorrect, Scheduling, PTL DEF Spec

(* What is distinct occurs once where it occurs at all.                     *)
LEMMA OccursOnce ==
  ASSUME NEW q, Distinct(q), NEW m
  PROVE  Cardinality({i \in DOMAIN q : q[i] = m}) = (IF m \in ToSet(q) THEN 1 ELSE 0)
<1> DEFINE P == {i \in DOMAIN q : q[i] = m}
<1>1. CASE m \in ToSet(q)
  <2>1. PICK i \in DOMAIN q : q[i] = m
    BY <1>1 DEF ToSet
  <2>2. P = {i}
    BY <2>1 DEF Distinct
  <2>3. Cardinality({i}) = 1
    BY FS_Singleton
  <2> QED BY <1>1, <2>2, <2>3
<1>2. CASE m \notin ToSet(q)
  <2>1. P = {}
    BY <1>2 DEF ToSet
  <2> QED BY <1>2, <2>1, FS_EmptySet
<1> QED BY <1>1, <1>2

(* No message is lost or doubled by the removals by position and identity:  *)
(* each is in the inbox once while it is pending and not at all afterwards. *)
THEOREM MessagesAreAccountedFor == Spec => []EveryMessageAccountedFor
<1>1. AccountInv => EveryMessageAccountedFor
  <2> SUFFICES ASSUME AccountInv, NEW m \in Messages
               PROVE  Occurrences(m) = (IF fate[m] = "queued" THEN 1 ELSE 0)
    BY DEF EveryMessageAccountedFor
  <2>1. /\ Cardinality({i \in DOMAIN nextTurn : nextTurn[i] = m}) = (IF m \in ToSet(nextTurn) THEN 1 ELSE 0)
        /\ Cardinality({i \in DOMAIN nextStep : nextStep[i] = m}) = (IF m \in ToSet(nextStep) THEN 1 ELSE 0)
    BY OccursOnce DEF AccountInv
  <2>2. /\ fate[m] = "queued" <=> m \in ToSet(nextTurn) \/ m \in ToSet(nextStep)
        /\ ~(m \in ToSet(nextTurn) /\ m \in ToSet(nextStep))
    BY DEF AccountInv, Queued
  <2> QED BY <2>1, <2>2 DEF Occurrences
<1> QED BY <1>1, Accounting, PTL

-----------------------------------------------------------------------------
(* The scheduler implements the contract of the agent.                      *)

(* Between activities there is no signal; a maintenance has one.            *)
SignalInv ==
  /\ pc = "idle" /\ ~maintenance => abort = "none"
  /\ maintenance => abort # "none"

LEMMA SignalStep ==
  ASSUME TypeOK, SchedulingInv, SignalInv, [Next]_vars
  PROVE  SignalInv'
<1> USE DEF SignalInv
<1>1. CASE \E m \in Messages : Followup(m) \/ Steer(m) \/ Inject(m)
  <2>1. PICK m \in Messages, t \in {"next-turn", "next-step"}, w \in BOOLEAN : Send(m, t, w)
    BY <1>1 DEF Followup, Steer, Inject
  <2>2. PICK routed \in BOOLEAN :
          LET routes == routed /\ pc = "idle" /\ ~maintenance IN
          /\ maintenance' = (maintenance \/ routes)
          /\ StartOr(ready, w, maintenance', IF routes THEN "live" ELSE abort)
    BY <2>1 DEF Send
  <2>3. CASE routed /\ pc = "idle" /\ ~maintenance
    BY <2>2, <2>3 DEF StartOr
  <2>4. CASE ~(routed /\ pc = "idle" /\ ~maintenance)
    BY <2>2, <2>4 DEF StartOr, TypeOK
  <2> QED BY <2>3, <2>4
<1>2. CASE Release \/ MaintenanceEnds \/ RunMaintenance \/ StopForDisposal
  BY <1>2 DEF Release, MaintenanceEnds, RunMaintenance, StopForDisposal, StartOr, driver, Driving,
              SchedulingInv, MaintenanceExcludesTurns
<1>3. CASE \E keep \in BOOLEAN, cause \in {"user", "disposed"} : Cancel(keep, cause)
  BY <1>3 DEF Cancel, driver
<1>4. CASE Drain
  <2>1. pc # "idle" /\ maintenance' = maintenance /\ ~maintenance
    <3>1. pc # "idle"
      BY <1>4 DEF Drain, BeginTurn, ClaimStep, StepInterrupted, StepLoopLeft, AdmissionFails,
         AdmissionRejects, AdmissionHandsOver, AdmissionIsEmpty, AdmissionEnters, ModelFails,
         ModelCompletes, ModelIsCapped, ModelCallsTools, ToolFails, ToolSettles,
         ToolSettlesWithContext, ToolFlushFails, NextCall, LastCall, StoppingReturns,
         StoppingFails, TurnEndsAndRepeats, TurnEnds, DriverExits
    <3>2. maintenance' = maintenance
      BY <1>4, CommitKeeps DEF flags, Drain, BeginTurn, ClaimStep, StepInterrupted, StepLoopLeft, AdmissionFails,
         AdmissionRejects, AdmissionHandsOver, AdmissionIsEmpty, AdmissionEnters, ModelFails,
         ModelCompletes, ModelIsCapped, ModelCallsTools, ToolFails, ToolSettles,
         ToolSettlesWithContext, ToolFlushFails, NextCall, LastCall, StoppingReturns,
         StoppingFails, TurnEndsAndRepeats, TurnEnds, DriverExits
    <3> QED BY <3>1, <3>2 DEF SchedulingInv, MaintenanceExcludesTurns, Driving
  <2>2. pc' = "idle" => abort' = "none"
    <3>1. CASE DriverExits
      BY <3>1 DEF DriverExits
    <3>2. CASE ~DriverExits
      <4>1. pc' # "idle"
        BY <1>4, <2>1, <3>2, ThrowMoves, AfterStepGoes DEF Drain, BeginTurn, ClaimStep, StepInterrupted, StepLoopLeft, AdmissionFails,
           AdmissionRejects, AdmissionHandsOver, AdmissionIsEmpty, AdmissionEnters, ModelFails,
           ModelCompletes, ModelIsCapped, ModelCallsTools, ToolFails, ToolSettles,
           ToolSettlesWithContext, ToolFlushFails, NextCall, LastCall, StoppingReturns,
           StoppingFails, TurnEndsAndRepeats, TurnEnds, OpenTurn, Park
      <4> QED BY <4>1
    <3> QED BY <3>1, <3>2
  <2> QED BY <2>1, <2>2
<1>5. CASE UNCHANGED vars
  BY <1>5 DEF vars
<1> QED BY <1>1, <1>2, <1>3, <1>4, <1>5 DEF Next, Callers

LEMMA Signals == Spec => []SignalInv
<1>1. Init => SignalInv
  BY DEF Init, SignalInv
<1> QED BY <1>1, SignalStep, TypeCorrect, Scheduling, PTL DEF Spec

contractVars == <<Activity, (abort = "aborted"), disposed, fate>>
ContractStep == [Contract!Next]_contractVars

LEMMA QuietStep ==
  ASSUME Activity' = Activity, abort' = abort, disposed' = disposed, fate' = fate
  PROVE  ContractStep
BY DEF ContractStep, contractVars

LEMMA ContractInit == Init => Contract!Init
BY DEF Init, Contract!Init, Activity, InTurn, Driving

(* What the driver does inside a turn without touching the inbox is nobody  *)
(* else's concern.                                                          *)
LEMMA TurnGoesOn ==
  ASSUME InTurn, InTurn', UNCHANGED <<inbox, flags>>
  PROVE  ContractStep
<1>1. Activity' = Activity
  BY DEF Activity, InTurn, Driving, flags
<1> QED BY <1>1, QuietStep DEF inbox, flags

(* A message arrives, and may set an idle agent to work.                    *)
LEMMA SendSubmits ==
  ASSUME TypeOK, SchedulingInv, SignalInv,
         NEW m \in Messages, NEW t \in {"next-turn", "next-step"}, NEW w \in BOOLEAN, Send(m, t, w)
  PROVE  ContractStep
<1>1. /\ ~disposed /\ fate[m] = "unsent" /\ disposed' = disposed
      /\ fate' = [fate EXCEPT ![m] = "queued"]
  BY DEF Send, Enqueue
<1>2. PICK routed \in BOOLEAN :
        LET routes == routed /\ pc = "idle" /\ ~maintenance IN
        /\ maintenance' = (maintenance \/ routes)
        /\ StartOr(ready, w, maintenance', IF routes THEN "live" ELSE abort)
  BY DEF Send
<1>3. CASE pc = "idle" /\ ~maintenance
  <2>1. Activity = "idle"
    BY <1>3 DEF Activity, InTurn, Driving
  <2>2. /\ Activity' \in {"idle", "maintenance", "running"}
        /\ abort' # "aborted"
    BY <1>2, <1>3 DEF StartOr, SignalInv, Activity, InTurn, Driving
  <2>3. Contract!MayStart
    BY <1>1, <2>1, <2>2 DEF Contract!MayStart
  <2>4. Contract!Submit(m)
    BY <1>1, <2>3 DEF Contract!Submit, Contract!Becomes, TypeOK
  <2> QED BY <2>4 DEF ContractStep, Contract!Next
<1>4. CASE pc # "idle" \/ maintenance
  <2>1. Activity # "idle" /\ Activity' = Activity /\ abort' = abort
    BY <1>2, <1>4 DEF StartOr, Activity, InTurn, Driving, TypeOK
  <2>2. Contract!MayStart
    BY <2>1 DEF Contract!MayStart
  <2>3. Contract!Submit(m)
    BY <1>1, <2>2 DEF Contract!Submit, Contract!Becomes, TypeOK
  <2> QED BY <2>3 DEF ContractStep, Contract!Next
<1> QED BY <1>3, <1>4

LEMMA StartStarts ==
  ASSUME TypeOK, SchedulingInv, SignalInv, Release \/ RunMaintenance
  PROVE  ContractStep
<1>1. fate' = fate /\ disposed' = disposed
  BY DEF Release, RunMaintenance, inbox
<1>2. CASE pc = "idle" /\ ~maintenance /\ ~disposed
  <2>1. Activity = "idle"
    BY <1>2 DEF Activity, InTurn, Driving
  <2>2. Activity' \in {"idle", "maintenance", "running"} /\ abort' # "aborted"
    BY <1>2 DEF Release, RunMaintenance, StartOr, SignalInv, Activity, InTurn, Driving, driver
  <2>3. Contract!Start
    BY <1>1, <1>2, <2>1, <2>2 DEF Contract!Start, Contract!MayStart
  <2> QED BY <2>3 DEF ContractStep, Contract!Next
<1>3. CASE pc # "idle" \/ maintenance \/ disposed
  <2>1. Activity' = Activity /\ abort' = abort
    BY <1>3 DEF Release, RunMaintenance, StartOr, Activity, InTurn, Driving
  <2> QED BY <1>1, <2>1, QuietStep
<1> QED BY <1>2, <1>3

LEMMA MaintenanceGivesWay ==
  ASSUME TypeOK, SchedulingInv, MaintenanceEnds
  PROVE  ContractStep
<1>1. fate' = fate /\ disposed' = disposed /\ maintenance /\ ~maintenance' /\ pc = "idle"
  BY DEF MaintenanceEnds, inbox, SchedulingInv, MaintenanceExcludesTurns, Driving
<1>2. Activity = "maintenance" /\ abort' # "aborted"
      /\ Activity' \in (IF disposed THEN {"idle"} ELSE {"idle", "running"})
  BY <1>1 DEF MaintenanceEnds, StartOr, Activity, InTurn, Driving
<1>3. Contract!Ends
  BY <1>1, <1>2 DEF Contract!Ends
<1> QED BY <1>3 DEF ContractStep, Contract!Next

(* cancel() and disposal stop what is under way and discard from the inbox. *)
LEMMA StopStops ==
  ASSUME TypeOK, SchedulingInv, AccountInv, SignalInv,
         StopForDisposal \/ \E keep \in BOOLEAN, cause \in {"user", "disposed"} : Cancel(keep, cause)
  PROVE  ContractStep
<1>1. Activity' = Activity
  BY DEF StopForDisposal, Cancel, driver, Activity, InTurn, Driving
<1>2. abort' = (IF abort = "none" THEN "none" ELSE "aborted")
  BY DEF StopForDisposal, Cancel
<1>3. Activity = "idle" <=> abort = "none"
  BY DEF Activity, InTurn, Driving, SignalInv, SchedulingInv, DrivenHasSignal
<1>4. disposed' = disposed \/ disposed' = TRUE
  BY DEF StopForDisposal, Cancel, TypeOK
<1>5. \E S \in SUBSET Queued : fate' = Mark(S, "discarded")
  <2>1. CASE ClearInbox
    BY <2>1 DEF ClearInbox
  <2>2. CASE DiscardClaimed
    <3>1. CASE UNCHANGED inbox
      <4>1. fate' = Mark({}, "discarded")
        BY <3>1 DEF inbox, Mark, TypeOK
      <4> QED BY <4>1
    <3>2. CASE ~UNCHANGED inbox
      BY <2>2, <3>2 DEF DiscardClaimed
    <3> QED BY <3>1, <3>2
  <2> QED BY <2>1, <2>2 DEF StopForDisposal, Cancel
<1>6. PICK S \in SUBSET Queued : fate' = Mark(S, "discarded")
  BY <1>5
<1>7. S \subseteq Contract!Pending /\ Contract!Becomes(S, "discarded")
  BY <1>6, QueuedAreMessages DEF Contract!Pending, Contract!Becomes, Mark, AccountInv
<1>8. (abort' = "aborted") <=> Activity # "idle"
  BY <1>2, <1>3
<1>9. Contract!Stop(S)
  BY <1>1, <1>4, <1>7, <1>8 DEF Contract!Stop
<1> QED BY <1>7, <1>9 DEF ContractStep, Contract!Next

(* Messages are taken by a turn that nobody stopped.                        *)
LEMMA CommitTakes ==
  ASSUME TypeOK, SchedulingInv, AccountInv,
         AdmissionHandsOver \/ AdmissionIsEmpty \/ AdmissionEnters
  PROVE  ContractStep
<1>1. PICK what \in {"handled", "accepted"} : CommitClaim(what)
  BY DEF AdmissionHandsOver, AdmissionIsEmpty, AdmissionEnters
<1>2. pc = "admit" /\ abort # "aborted" /\ pc' \in {"close", "model"}
  BY DEF AdmissionHandsOver, AdmissionIsEmpty, AdmissionEnters, Park
<1>3. UNCHANGED <<disposed, maintenance, abort>>
  BY <1>1, CommitKeeps
<1>4. ~disposed /\ ~maintenance
  BY <1>2 DEF SchedulingInv, GoneIsStopped, MaintenanceExcludesTurns, Driving
<1>5. Activity = "turn" /\ Activity' = "turn"
  BY <1>2, <1>3, <1>4 DEF Activity, InTurn
<1> DEFINE S == ToSet(claimOrd \o claimSteer)
<1>6. S \subseteq Queued /\ fate' = Mark(S, what)
  <2>1. S \subseteq Queued
    BY <1>1, <1>2, CommitAccounts
  <2> QED BY <1>1, <2>1 DEF CommitClaim
<1> HIDE DEF S
<1>7. S \subseteq Contract!Pending /\ Contract!Becomes(S, what)
  BY <1>6, QueuedAreMessages DEF Contract!Pending, Contract!Becomes, Mark, AccountInv
<1>8. Contract!Take(S, what)
  BY <1>2, <1>3, <1>4, <1>5, <1>7 DEF Contract!Take
<1> QED BY <1>7, <1>8 DEF ContractStep, Contract!Next

LEMMA ContextSubmits ==
  ASSUME TypeOK, NEW m \in Messages, NEW c \in BOOLEAN, ToolSettlesWithContext(m, c)
  PROVE  ContractStep
<1>1. UNCHANGED flags /\ InTurn /\ InTurn'
  BY ThrowMoves DEF ToolSettlesWithContext, InTurn
<1>2. CASE disposed
  <2>1. UNCHANGED inbox
    BY <1>2 DEF ToolSettlesWithContext
  <2> QED BY <1>1, <2>1, TurnGoesOn
<1>3. CASE ~disposed
  <2>1. fate[m] = "unsent" /\ fate' = [fate EXCEPT ![m] = "queued"]
    BY <1>3 DEF ToolSettlesWithContext, Enqueue
  <2>2. Activity # "idle" /\ Activity' = Activity /\ abort' = abort /\ disposed' = disposed
    BY <1>1 DEF Activity, InTurn, Driving, flags
  <2>3. Contract!MayStart
    BY <2>2 DEF Contract!MayStart
  <2>4. Contract!Submit(m)
    BY <1>3, <2>1, <2>2, <2>3 DEF Contract!Submit, Contract!Becomes, TypeOK
  <2> QED BY <2>4 DEF ContractStep, Contract!Next
<1> QED BY <1>2, <1>3

(* The driver opens, repeats and closes turns, and leaves.                  *)
LEMMA DriverTurns ==
  ASSUME TypeOK, SchedulingInv, BeginTurn \/ TurnEndsAndRepeats \/ TurnEnds \/ DriverExits
  PROVE  ContractStep
<1>1. /\ ~maintenance /\ maintenance' = maintenance /\ disposed' = disposed /\ fate' = fate
      /\ pc # "idle"
  BY DEF BeginTurn, TurnEndsAndRepeats, TurnEnds, DriverExits, inbox, flags, SchedulingInv,
         MaintenanceExcludesTurns, Driving
<1>2. CASE BeginTurn
  <2>1. Activity = "running" /\ Activity' = "turn" /\ abort' # "aborted"
    BY <1>1, <1>2 DEF BeginTurn, OpenTurn, Activity, InTurn, Driving
  <2>2. Contract!TurnOpens
    BY <1>1, <2>1 DEF Contract!TurnOpens
  <2> QED BY <2>2 DEF ContractStep, Contract!Next
<1>3. CASE TurnEndsAndRepeats
  <2>1. Activity = "turn" /\ Activity' = "turn" /\ abort' # "aborted" /\ ~disposed
    BY <1>1, <1>3 DEF TurnEndsAndRepeats, Repeats, OpenTurn, Activity, InTurn
  <2>2. Contract!TurnFollows
    BY <1>1, <2>1 DEF Contract!TurnFollows
  <2> QED BY <2>2 DEF ContractStep, Contract!Next
<1>4. CASE TurnEnds
  <2>1. Activity = "turn" /\ Activity' = "running" /\ abort' = abort
    BY <1>1, <1>4 DEF TurnEnds, flags, Activity, InTurn, Driving
  <2>2. Contract!TurnCloses
    BY <1>1, <2>1 DEF Contract!TurnCloses
  <2> QED BY <2>2 DEF ContractStep, Contract!Next
<1>5. CASE DriverExits
  <2>1. /\ Activity = "running" /\ abort' # "aborted"
        /\ Activity' \in (IF disposed THEN {"idle"} ELSE {"idle", "running"})
    BY <1>1, <1>5 DEF DriverExits, Activity, InTurn, Driving
  <2>2. Contract!Ends
    BY <1>1, <2>1 DEF Contract!Ends
  <2> QED BY <2>2 DEF ContractStep, Contract!Next
<1> QED BY <1>2, <1>3, <1>4, <1>5

LEMMA ContractSteps ==
  TypeOK /\ SchedulingInv /\ AccountInv /\ SignalInv /\ [Next]_vars => ContractStep
<1> SUFFICES ASSUME TypeOK, SchedulingInv, AccountInv, SignalInv, [Next]_vars PROVE ContractStep
  OBVIOUS
<1>1. CASE \E m \in Messages : Followup(m) \/ Steer(m) \/ Inject(m)
  <2>1. PICK m \in Messages, t \in {"next-turn", "next-step"}, w \in BOOLEAN : Send(m, t, w)
    BY <1>1 DEF Followup, Steer, Inject
  <2> QED BY <2>1, SendSubmits
<1>2. CASE Release \/ RunMaintenance
  BY <1>2, StartStarts
<1>3. CASE StopForDisposal \/ \E keep \in BOOLEAN, cause \in {"user", "disposed"} : Cancel(keep, cause)
  BY <1>3, StopStops
<1>4. CASE MaintenanceEnds
  BY <1>4, MaintenanceGivesWay
<1>5. CASE BeginTurn \/ TurnEndsAndRepeats \/ TurnEnds \/ DriverExits
  BY <1>5, DriverTurns
<1>6. CASE AdmissionHandsOver \/ AdmissionIsEmpty \/ AdmissionEnters
  BY <1>6, CommitTakes
<1>7. CASE \E m \in Messages, c \in BOOLEAN : ToolSettlesWithContext(m, c)
  BY <1>7, ContextSubmits
<1>8. CASE \/ StepInterrupted \/ AdmissionFails \/ AdmissionRejects \/ ModelFails
           \/ ToolFails \/ ToolFlushFails \/ StoppingFails \/ ClaimStep \/ StepLoopLeft
  <2>1. InTurn /\ InTurn' /\ UNCHANGED <<inbox, flags>>
    BY <1>8, ThrowMoves DEF StepInterrupted, AdmissionFails, AdmissionRejects, Park, ModelFails,
       ToolFails, ToolFlushFails, StoppingFails, ClaimStep, StepLoopLeft, InTurn
  <2> QED BY <2>1, TurnGoesOn
<1>9. CASE ModelCompletes \/ LastCall \/ StoppingReturns \/ ModelIsCapped
  <2>1. InTurn /\ InTurn' /\ UNCHANGED <<inbox, flags>>
    BY <1>9, ThrowMoves, AfterStepGoes DEF ModelCompletes, LastCall, StoppingReturns, ModelIsCapped, InTurn
  <2> QED BY <2>1, TurnGoesOn
<1>10. CASE \/ \E n \in 1 .. MaxCalls : ModelCallsTools(n)
            \/ NextCall \/ \E c \in BOOLEAN : ToolSettles(c)
  <2>1. InTurn /\ InTurn' /\ UNCHANGED <<inbox, flags>>
    BY <1>10 DEF ModelCallsTools, NextCall, ToolSettles, InTurn
  <2> QED BY <2>1, TurnGoesOn
<1>11. CASE UNCHANGED vars
  BY <1>11, QuietStep DEF vars, Activity, InTurn, Driving
<1> QED BY <1>1, <1>2, <1>3, <1>4, <1>5, <1>6, <1>7, <1>8, <1>9, <1>10, <1>11
        DEF Next, Drain, Callers

(* Seen from outside the scheduler is the agent of its documentation: one   *)
(* activity at a time, messages taken once and only by an open turn nobody  *)
(* stopped, for any messages, budget and tool calls.                        *)
THEOREM HarnessImplementsContract == Spec => ImplementsContract
<1>1. Init => Contract!Init
  BY ContractInit
<1>2. TypeOK /\ SchedulingInv /\ AccountInv /\ SignalInv /\ [Next]_vars => [Contract!Next]_Contract!cvars
  BY ContractSteps DEF ContractStep, contractVars, Contract!cvars
<1> QED BY <1>1, <1>2, TypeCorrect, Scheduling, Accounting, Signals, PTL
        DEF Spec, ImplementsContract, Contract!Spec
=============================================================================
