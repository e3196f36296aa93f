--------------------------- MODULE KiokukoHarness ---------------------------
(* The turn scheduler of one agent: class KiokukoHarnessAgent in           *)
(* src/dsh/harness/factory.ts, its durable inbox (inbox.ts) and the         *)
(* lifecycle gate (lifecycle.ts).                                           *)
(*                                                                          *)
(* JavaScript runs to completion: nothing else runs between two awaits.    *)
(* pc therefore has two kinds of value.  At an await point (AtAwait) every *)
(* public method may be called; "top" and "close" are the two places where *)
(* the driver is in the middle of a synchronous stretch.                   *)
(*                                                                          *)
(*   idle      no driver promise                                            *)
(*   reserved  driver installed by start(), drain() not entered yet        *)
(*   top       head of the step loop                                        *)
(*   admit     awaiting tool set, prompt assembly and the pre-step hooks   *)
(*   model     awaiting the request and its stream                          *)
(*   tool      awaiting the flushes and the execution of one tool call     *)
(*   stopping  awaiting the turn-stopping hooks                             *)
(*   close     about to append turn/end                                     *)
(*   exiting   drain() returned, the promise's finally is still to run     *)
EXTENDS Integers, Sequences, FiniteSets, SequencesExt

CONSTANTS
  Messages,   \* the user messages that may be sent, each of them once
  MaxSteps,   \* options.maxSteps; 0 when the option is omitted
  StepCap,    \* bound: tool rounds in a turn when MaxSteps = 0
  MaxCalls    \* bound: tool calls in one assistant message

ASSUME HarnessAssumption ==
  /\ MaxSteps \in Nat
  /\ StepCap \in Nat \ {0}
  /\ MaxCalls \in Nat

VARIABLES
  nextTurn, nextStep,      \* the two queues of KiokukoInbox
  fate,                    \* history: what became of each message
  wake, ready, disposed,   \* the flags of the agent
  maintenance,             \* a runMaintenance promise is pending
  abort,                   \* this.abort: none, live, or aborted
  pc, step, reason,        \* the driver: position, step number, turn/end reason
  claimOrd, claimSteer,    \* the claim a step took before its first await
  calls, opened, answered, \* tool calls left; tool/call and tool/result records
  concluded                \* some call of this message concluded the turn

inbox   == <<nextTurn, nextStep, fate>>
flags   == <<wake, ready, disposed, maintenance, abort>>
claim   == <<claimOrd, claimSteer>>
tooling == <<calls, opened, answered, concluded>>
driver  == <<pc, step, reason, claimOrd, claimSteer, calls, opened, answered, concluded>>
vars    == <<nextTurn, nextStep, fate, wake, ready, disposed, maintenance, abort, pc, step,
             reason, claimOrd, claimSteer, calls, opened, answered, concluded>>

Points  == {"idle", "reserved", "top", "admit", "model", "tool", "stopping", "close", "exiting"}
Reasons == {"none", "completed", "max-tokens", "blocked", "aborted", "error"}
Fates   == {"unsent", "queued", "accepted", "handled", "discarded"}

(* The endings for which drain() sets blocked: the agent parks.             *)
Parking == {"blocked", "aborted", "error"}

AtAwait == pc \notin {"top", "close"}
Driving == pc # "idle"
(* A turn/start without its turn/end.                                       *)
InTurn  == pc \in {"top", "admit", "model", "tool", "stopping", "close"}

TypeOK ==
  /\ nextTurn \in Seq(Messages) /\ nextStep \in Seq(Messages)
  /\ fate \in [Messages -> Fates]
  /\ wake \in BOOLEAN /\ ready \in BOOLEAN /\ disposed \in BOOLEAN /\ maintenance \in BOOLEAN
  /\ abort \in {"none", "live", "aborted"}
  /\ pc \in Points /\ step \in Nat /\ reason \in Reasons
  /\ claimOrd \in Seq(Messages) /\ claimSteer \in Seq(Messages)
  /\ calls \in Nat /\ opened \in Nat /\ answered \in Nat
  /\ concluded \in BOOLEAN

(* The agent as publish() builds it: nothing runs before release().         *)
Init ==
  /\ nextTurn = <<>> /\ nextStep = <<>>
  /\ fate = [m \in Messages |-> "unsent"]
  /\ wake = FALSE /\ ready = FALSE /\ disposed = FALSE /\ maintenance = FALSE
  /\ abort = "none"
  /\ pc = "idle" /\ step = 0 /\ reason = "none"
  /\ claimOrd = <<>> /\ claimSteer = <<>>
  /\ calls = 0 /\ opened = 0 /\ answered = 0 /\ concluded = FALSE

-----------------------------------------------------------------------------
(* The inbox.                                                               *)

(* Mutant of SpliceHead: drains the queue instead of its claimed head.      *)
BugSpliceHead(queue, n) == <<>>

(* splice(0, n): removal is by position, whatever is there now.            *)
SpliceHead(queue, n) == SubSeq(queue, n + 1, Len(queue))

(* Removal by identity.  SelectSeq, by position: the k-th message kept is   *)
(* the one at the k-th smallest index kept (a form that can be proved about). *)
Rank(S, i) == Cardinality({j \in S : j <= i})
Nth(S, k)  == CHOOSE i \in S : Rank(S, i) = k
Without(queue, gone) ==
  LET kept == {i \in DOMAIN queue : queue[i] \notin gone} IN
  [k \in 1 .. Cardinality(kept) |-> queue[Nth(kept, k)]]

Mark(set, what) == [m \in Messages |-> IF m \in set THEN what ELSE fate[m]]

Queued == ToSet(nextTurn) \cup ToSet(nextStep)

(* clear(): next-step and next-turn are emptied, each message discarded.   *)
ClearInbox ==
  /\ nextTurn' = <<>> /\ nextStep' = <<>>
  /\ fate' = Mark(Queued, "discarded")

(* discardClaimed(): removal by identity of what the running claim took.   *)
(* Without a claim nothing is found and nothing is spliced.                 *)
DiscardClaimed ==
  LET gone == ToSet(claimOrd \o claimSteer) \cap Queued IN
  IF gone = {} THEN UNCHANGED inbox
  ELSE /\ nextTurn' = Without(nextTurn, gone) /\ nextStep' = Without(nextStep, gone)
       /\ fate' = Mark(gone, "discarded")

Enqueue(m, target) ==
  /\ fate' = [fate EXCEPT ![m] = "queued"]
  /\ nextTurn' = IF target = "next-turn" THEN Append(nextTurn, m) ELSE nextTurn
  /\ nextStep' = IF target = "next-step" THEN Append(nextStep, m) ELSE nextStep

-----------------------------------------------------------------------------
(* The public methods of the agent.                                         *)

(* Mutant of StartOr: the disposed guard is gone.                           *)
BugStartDisposed(isReady, isWoken, inMaintenance, abortWas) ==
  IF isWoken /\ isReady /\ ~inMaintenance /\ pc = "idle"
  THEN pc' = "reserved" /\ abort' = "live"
  ELSE pc' = pc /\ abort' = abortWas

(* start() once its caller has updated wake: install the driver unless one *)
(* of its guards returns; the abort controller it replaces is abortWas.    *)
StartOr(isReady, isWoken, inMaintenance, abortWas) ==
  IF isWoken /\ isReady /\ ~inMaintenance /\ ~disposed /\ pc = "idle"
  THEN pc' = "reserved" /\ abort' = "live"
  ELSE pc' = pc /\ abort' = abortWas

(* send(): refuse after disposal, append, then wake and start.  Appending  *)
(* emits agent/inbox/inserted, on which model routing, where it is attached *)
(* (routed), enters maintenance if the agent has no driver; that runs       *)
(* before send() sets wake.                                                 *)
Send(m, target, wakeup) ==
  /\ AtAwait /\ ~disposed /\ fate[m] = "unsent"
  /\ Enqueue(m, IF abort = "aborted" /\ wakeup THEN "next-turn" ELSE target)
  /\ wake' = (wake \/ wakeup)
  /\ \E routed \in BOOLEAN :
       LET routes == routed /\ pc = "idle" /\ ~maintenance IN
       /\ maintenance' = (maintenance \/ routes)
       /\ StartOr(ready, wakeup, maintenance', IF routes THEN "live" ELSE abort)
  /\ UNCHANGED <<ready, disposed, step, reason, claim, tooling>>

Followup(m) == Send(m, "next-turn", TRUE)
Steer(m)    == Send(m, "next-step", TRUE)
Inject(m)   == Send(m, "next-step", FALSE)

(* release(): the last act of publication.                                  *)
Release ==
  /\ AtAwait /\ ~ready
  /\ ready' = TRUE
  /\ StartOr(TRUE, wake, maintenance, abort)
  /\ UNCHANGED <<inbox, wake, disposed, maintenance, step, reason, claim, tooling>>

(* cancel(cause, {keepInbox}).                                              *)
Cancel(keepInbox, cause) ==
  /\ AtAwait
  /\ abort # "none" \/ Driving \/ maintenance
  /\ IF keepInbox THEN DiscardClaimed ELSE ClearInbox
  /\ disposed' = (disposed \/ cause = "disposed")
  /\ wake' = (wake /\ cause # "disposed")
  /\ abort' = IF abort = "none" THEN "none" ELSE "aborted"
  /\ UNCHANGED <<ready, maintenance, driver>>

(* stopForDisposal(), up to its wait for idleness.                          *)
StopForDisposal ==
  /\ AtAwait /\ ~disposed
  /\ disposed' = TRUE
  /\ abort' = IF abort = "none" THEN "none" ELSE "aborted"
  /\ ClearInbox
  /\ UNCHANGED <<wake, ready, maintenance, driver>>

(* runMaintenance(): throws unless the agent is idle.                       *)
RunMaintenance ==
  /\ AtAwait /\ ~Driving /\ ~maintenance /\ ~disposed
  /\ maintenance' = TRUE /\ abort' = "live"
  /\ UNCHANGED <<inbox, wake, ready, disposed, driver>>

(* ... and its finally: a wake that arrived meanwhile is served now.       *)
MaintenanceEnds ==
  /\ AtAwait /\ maintenance
  /\ maintenance' = FALSE
  /\ StartOr(ready, wake, FALSE, "none")
  /\ UNCHANGED <<inbox, wake, ready, disposed, step, reason, claim, tooling>>

-----------------------------------------------------------------------------
(* The driver: drain(), modelStep(), requestAttempt(), executeTool().       *)

(* One iteration of the do-while: a fresh controller, a fresh turn.         *)
OpenTurn ==
  /\ wake' = FALSE /\ abort' = "live"
  /\ pc' = "top" /\ step' = 0 /\ reason' = "completed"

Park(why) == reason' = why /\ pc' = "close"

(* The catch of drain(): the signal decides how the failure is recorded.   *)
Throw == Park(IF abort = "aborted" THEN "aborted" ELSE "error")

(* The scheduled continuation of start() enters drain().                    *)
BeginTurn ==
  /\ pc = "reserved"
  /\ OpenTurn
  /\ UNCHANGED <<inbox, ready, disposed, maintenance, claim, tooling>>

(* Head of the step loop: claim the head of next-turn (first step only)    *)
(* and all of next-step, without removing them.                             *)
ClaimStep ==
  /\ pc = "top" /\ ~disposed /\ abort # "aborted"
  /\ step' = step + 1
  /\ claimOrd' = IF step = 0 THEN SubSeq(nextTurn, 1, IF nextTurn = <<>> THEN 0 ELSE 1) ELSE <<>>
  /\ claimSteer' = nextStep
  /\ pc' = "admit"
  /\ UNCHANGED <<inbox, flags, reason, tooling>>

StepInterrupted ==
  /\ pc = "top" /\ ~disposed /\ abort = "aborted"
  /\ Throw
  /\ UNCHANGED <<inbox, flags, step, claim, tooling>>

(* while(again && !this.disposed): disposal leaves the loop by its         *)
(* condition, with the reason as it stands.                                 *)
StepLoopLeft ==
  /\ pc = "top" /\ disposed
  /\ pc' = "close"
  /\ UNCHANGED <<inbox, flags, step, reason, claim, tooling>>

ClaimReleased == claimOrd' = <<>> /\ claimSteer' = <<>>

(* Preparation threw, or it returned to an aborted signal.                 *)
AdmissionFails ==
  /\ pc = "admit"
  /\ Throw /\ ClaimReleased
  /\ UNCHANGED <<inbox, flags, step, tooling>>

(* Rejected and not handled: the claim stays queued, the turn is blocked.  *)
AdmissionRejects ==
  /\ pc = "admit" /\ abort # "aborted"
  /\ Park("blocked") /\ ClaimReleased
  /\ UNCHANGED <<inbox, flags, step, tooling>>

(* Commit the claim: splice it off the heads of the queues by length, and  *)
(* drop the wake when nothing is left.                                      *)
CommitClaim(what) ==
  /\ nextTurn' = SpliceHead(nextTurn, Len(claimOrd))
  /\ nextStep' = SpliceHead(nextStep, Len(claimSteer))
  /\ fate' = Mark(ToSet(claimOrd \o claimSteer), what)
  /\ wake' = (wake /\ ~(nextTurn' = <<>> /\ nextStep' = <<>>))
  /\ ClaimReleased
  /\ UNCHANGED <<ready, disposed, maintenance, abort>>

(* Rejected after a subsystem took the input over (inputHandled).           *)
AdmissionHandsOver ==
  /\ pc = "admit" /\ abort # "aborted"
  /\ CommitClaim("handled")
  /\ Park("blocked")
  /\ UNCHANGED <<step, tooling>>

(* Admitted with nothing to say on the first step: the turn just ends.     *)
AdmissionIsEmpty ==
  /\ pc = "admit" /\ abort # "aborted" /\ step = 1
  /\ CommitClaim("handled")
  /\ pc' = "close"
  /\ UNCHANGED <<step, reason, tooling>>

(* Mutant of AdmissionEnters: the signal is not looked at after the await.  *)
BugAdmissionEnters ==
  /\ pc = "admit"
  /\ CommitClaim("accepted")
  /\ pc' = "model"
  /\ UNCHANGED <<step, reason, tooling>>

(* Admitted: step/start, the user messages, and the model request.          *)
AdmissionEnters ==
  /\ pc = "admit" /\ abort # "aborted"
  /\ CommitClaim("accepted")
  /\ pc' = "model"
  /\ UNCHANGED <<step, reason, tooling>>

BudgetSpent == MaxSteps # 0 /\ step >= MaxSteps

(* After a model step: more work loops or exhausts the budget, no work and *)
(* no steering awaits the turn-stopping hooks.                              *)
AfterStep(again, pendingSteer, hooksDone) ==
  LET more == again \/ pendingSteer # <<>> IN
  IF ~more /\ ~hooksDone THEN pc' = "stopping" /\ reason' = reason
  ELSE IF more /\ BudgetSpent THEN Throw
  ELSE pc' = (IF more THEN "top" ELSE "close") /\ reason' = reason

(* The request failed for good; an interrupted prefix is recorded there.   *)
ModelFails ==
  /\ pc = "model"
  /\ Throw
  /\ UNCHANGED <<inbox, flags, step, claim, tooling>>

(* The stream ended with text only.                                         *)
ModelCompletes ==
  /\ pc = "model" /\ abort # "aborted"
  /\ AfterStep(FALSE, nextStep, FALSE)
  /\ UNCHANGED <<inbox, flags, step, claim, tooling>>

(* The output limit: no tool of the capped message runs.                    *)
ModelIsCapped ==
  /\ pc = "model" /\ abort # "aborted"
  /\ IF nextStep = <<>> THEN pc' = "stopping" /\ reason' = "max-tokens"
     ELSE IF BudgetSpent THEN Throw
     ELSE pc' = "top" /\ reason' = "max-tokens"
  /\ UNCHANGED <<inbox, flags, step, claim, tooling>>

(* The message calls n tools; the first tool/call is recorded at once.      *)
ModelCallsTools(n) ==
  /\ pc = "model" /\ abort # "aborted"
  /\ MaxSteps # 0 \/ step < StepCap
  /\ calls' = n /\ opened' = 1 /\ answered' = 0 /\ concluded' = FALSE
  /\ pc' = "tool"
  /\ UNCHANGED <<inbox, flags, step, reason, claim>>

(* The current call has no tool/result yet.                                 *)
CallOpen == answered < opened

(* The call failed before its result was recorded: executeTool's catch     *)
(* closes it (a confirmed partial result, or the recovery closer).         *)
ToolFails ==
  /\ pc = "tool" /\ CallOpen
  /\ answered' = answered + 1
  /\ Throw
  /\ UNCHANGED <<inbox, flags, step, claim, calls, opened, concluded>>

(* The result is recorded.                                                  *)
ToolSettles(concludes) ==
  /\ pc = "tool" /\ CallOpen
  /\ answered' = answered + 1
  /\ concluded' = (concluded \/ concludes)
  /\ UNCHANGED <<inbox, flags, pc, step, reason, claim, calls, opened>>

(* ... and brings additional context m, injected before the next await.    *)
(* A disposed agent refuses it, which fails the call after its result.     *)
ToolSettlesWithContext(m, concludes) ==
  /\ pc = "tool" /\ CallOpen /\ fate[m] = "unsent"
  /\ answered' = answered + 1
  /\ IF disposed THEN Throw /\ UNCHANGED <<inbox, concluded>>
     ELSE /\ Enqueue(m, "next-step")
          /\ concluded' = (concluded \/ concludes)
          /\ UNCHANGED <<pc, reason>>
  /\ UNCHANGED <<flags, step, claim, calls, opened>>

(* The flush after the result failed: nothing is left to close.             *)
ToolFlushFails ==
  /\ pc = "tool" /\ ~CallOpen
  /\ Throw
  /\ UNCHANGED <<inbox, flags, step, claim, tooling>>

(* The next call of the same message; the signal is not consulted here.    *)
NextCall ==
  /\ pc = "tool" /\ ~CallOpen /\ opened < calls
  /\ opened' = opened + 1
  /\ UNCHANGED <<inbox, flags, pc, step, reason, claim, calls, answered, concluded>>

LastCall ==
  /\ pc = "tool" /\ ~CallOpen /\ opened = calls
  /\ AfterStep(~concluded, nextStep, FALSE)
  /\ UNCHANGED <<inbox, flags, step, claim, tooling>>

(* The turn-stopping hooks returned; steering they queued keeps the turn.  *)
StoppingReturns ==
  /\ pc = "stopping" /\ abort # "aborted"
  /\ AfterStep(FALSE, nextStep, TRUE)
  /\ UNCHANGED <<inbox, flags, step, claim, tooling>>

StoppingFails ==
  /\ pc = "stopping"
  /\ Throw
  /\ UNCHANGED <<inbox, flags, step, claim, tooling>>

(* Mutants of Repeats: the parking reasons or disposal are not asked about. *)
BugRepeatsWhenParked ==
  (abort = "aborted" => wake) /\ ~disposed /\ (wake \/ nextTurn # <<>>)
BugRepeatsDisposed ==
  reason \notin Parking /\ (abort = "aborted" => wake) /\ (wake \/ nextTurn # <<>>)

(* turn/end, then the two tests that end or repeat the do-while.            *)
Repeats ==
  /\ reason \notin Parking /\ (abort = "aborted" => wake)
  /\ ~disposed /\ (wake \/ nextTurn # <<>>)

TurnEndsAndRepeats ==
  /\ pc = "close" /\ Repeats
  /\ OpenTurn
  /\ UNCHANGED <<inbox, ready, disposed, maintenance, claim, tooling>>

TurnEnds ==
  /\ pc = "close" /\ ~Repeats
  /\ pc' = "exiting"
  /\ UNCHANGED <<inbox, flags, step, reason, claim, tooling>>

(* Mutant of DriverExits: the wake of the closing turn is not served.       *)
BugDriverExits ==
  /\ pc = "exiting"
  /\ pc' = "idle" /\ abort' = "none"
  /\ UNCHANGED <<inbox, wake, ready, disposed, maintenance, step, reason, claim, tooling>>

(* The finally of the driver promise: idle, then serve a wake that came in *)
(* while the turn was closing.                                              *)
DriverExits ==
  /\ pc = "exiting"
  /\ IF wake /\ ~disposed THEN pc' = "reserved" /\ abort' = "live"
     ELSE pc' = "idle" /\ abort' = "none"
  /\ UNCHANGED <<inbox, wake, ready, disposed, maintenance, step, reason, claim, tooling>>

-----------------------------------------------------------------------------
Drain ==
  \/ BeginTurn \/ ClaimStep \/ StepInterrupted \/ StepLoopLeft
  \/ AdmissionFails \/ AdmissionRejects \/ AdmissionHandsOver
  \/ AdmissionIsEmpty \/ AdmissionEnters
  \/ ModelFails \/ ModelCompletes \/ ModelIsCapped
  \/ \E n \in 1 .. MaxCalls : ModelCallsTools(n)
  \/ ToolFails \/ \E c \in BOOLEAN : ToolSettles(c)
  \/ \E m \in Messages, c \in BOOLEAN : ToolSettlesWithContext(m, c)
  \/ ToolFlushFails \/ NextCall \/ LastCall
  \/ StoppingReturns \/ StoppingFails
  \/ TurnEndsAndRepeats \/ TurnEnds \/ DriverExits

Callers ==
  \/ \E m \in Messages : Followup(m) \/ Steer(m) \/ Inject(m)
  \/ Release \/ StopForDisposal \/ RunMaintenance
  \/ \E keep \in BOOLEAN, cause \in {"user", "disposed"} : Cancel(keep, cause)

Next == Drain \/ MaintenanceEnds \/ Callers

(* The event loop runs what is scheduled, and the awaited services settle; *)
(* nobody is obliged to call a public method.                               *)
Fairness == WF_vars(Drain) /\ WF_vars(MaintenanceEnds)

Spec     == Init /\ [][Next]_vars
FairSpec == Spec /\ Fairness

-----------------------------------------------------------------------------
(* Safety.                                                                  *)

(* A wake is never stranded: a released agent that is to run has a driver, *)
(* or a maintenance whose end will start one.  (send, release, the two     *)
(* finally blocks and every reset of wake have to agree on this.)          *)
NoStrandedWake == wake /\ ready /\ ~disposed => Driving \/ maintenance

(* Maintenance and turns exclude each other.                                *)
MaintenanceExcludesTurns == ~(maintenance /\ Driving)

(* A request left in next-turn by an idle agent was parked by a turn that  *)
(* was blocked, failed or was cancelled; a turn that ended well strands    *)
(* nothing.                                                                 *)
ParkedInputHasReason ==
  ~Driving /\ ~maintenance /\ ready /\ ~disposed /\ nextTurn # <<>> => reason \in Parking

Occurrences(m) == Cardinality({i \in DOMAIN nextTurn : nextTurn[i] = m})
                  + Cardinality({i \in DOMAIN nextStep : nextStep[i] = m})

(* Removal by position takes exactly the messages the claim named: each    *)
(* message is in the inbox once while it is pending and not at all after   *)
(* it was accepted, handed over or discarded.                               *)
EveryMessageAccountedFor ==
  \A m \in Messages : Occurrences(m) = (IF fate[m] = "queued" THEN 1 ELSE 0)

(* A turn whose signal was aborted is recorded as aborted, unless it was   *)
(* the disposal of the agent that aborted it.                               *)
CancelledTurnIsRecordedAborted ==
  pc = "close" /\ abort = "aborted" /\ ~disposed => reason = "aborted"

(* The same without the exception: an aborted turn is never recorded as a  *)
(* completed one, whoever aborted it.                                       *)
EveryAbortIsRecorded == pc = "close" /\ abort = "aborted" => reason = "aborted"

(* Every recorded tool call has exactly one result by the time its message *)
(* is left, however the call ended.                                         *)
EveryCallIsAnswered ==
  /\ answered <= opened
  /\ pc # "tool" => opened = answered

(* The configured step budget is never exceeded.                            *)
StepBudgetHolds == MaxSteps # 0 => step <= MaxSteps

-----------------------------------------------------------------------------
(* Action properties.                                                       *)

AcceptedNow == {m \in Messages : fate[m] # "accepted" /\ fate'[m] = "accepted"}

(* No claim is accepted once its turn's signal is aborted: a late          *)
(* admission must not execute.                                              *)
NoAcceptanceAfterAbort ==
  [][AcceptedNow # {} => abort = "live" /\ ~disposed /\ abort' = abort]_vars

-----------------------------------------------------------------------------
(* Liveness.                                                                *)

(* After disposal the agent becomes idle: whenIdle(), on which dispose()   *)
(* waits, returns.                                                          *)
DisposalReachesIdle == disposed ~> (~Driving /\ ~maintenance)

(* A request that was sent with a wake is eventually taken or parked by a  *)
(* turn that is blocked, fails or is cancelled.                             *)
PendingRequestIsServed ==
  \A m \in Messages :
    (m \in ToSet(nextTurn) /\ wake /\ ready)
       ~> (m \notin ToSet(nextTurn) \/ disposed \/ (pc = "close" /\ reason \in Parking))

(* Finitely many messages cause finitely many turns: retained input never  *)
(* turns a rejection or a preparation failure into a retry loop.            *)
RetainedInputDoesNotSpin == <>[](~InTurn)

-----------------------------------------------------------------------------
(* The harness implements the contract its documentation states.           *)
Activity ==
  IF maintenance THEN "maintenance"
  ELSE IF InTurn THEN "turn"
  ELSE IF Driving THEN "running" ELSE "idle"

Contract == INSTANCE AgentContract WITH
  activity <- Activity, stopped <- (abort = "aborted"), gone <- disposed

ImplementsContract == Contract!Spec
=============================================================================
