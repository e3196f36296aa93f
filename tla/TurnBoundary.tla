----------------------------- MODULE TurnBoundary -----------------------------
(* Delivery of automatic continuations in one session: the boundary jobs    *)
(* and the outbox (src/dsh: turn-process.ts), the worker that drains them   *)
(* (boundary-worker.ts), its stages (host-adapter/boundaries.ts) and the    *)
(* guard against loops (loop-guard.ts).  The rows are there at the start:   *)
(* nothing in this version writes new ones.  All of them carry the same     *)
(* instruction, the case the guard is for.                                  *)
EXTENDS Naturals, FiniteSets

CONSTANTS
  Messages,       \* continuations, one receipt each
  Workers, NoWorker,  \* host processes that may open the session
  First,          \* message -> kinds its first job may have
  Limit,          \* DSH_AUTOMATIC_CONTINUATION_LIMIT
  MaxAttempts,    \* DSH_BOUNDARY_JOB_MAX_ATTEMPTS
  Disturbances    \* bound: crashes, hung processes, database errors, messages and answers of the user

ASSUME BoundaryAssumption ==
  /\ IsFiniteSet(Messages) /\ NoWorker \notin Workers
  /\ First \in [Messages -> SUBSET {"delivery", "retry", "ask", "context"}]
  /\ Limit \in Nat \ {0} /\ MaxAttempts \in Nat \ {0} /\ Disturbances \in Nat

Jobs == Messages \X {"delivery", "retry", "ask", "context"}
Ended == {"none", "completed", "waiting_user", "superseded"}
Unowned(s) == [status |-> s, owner |-> NoWorker, attempts |-> 0, due |-> TRUE]
NoRow == Unowned("none")
Row == Unowned("pending")
Working(a, j, n) == [at |-> a, job |-> j, attempts |-> n, aborted |-> FALSE, verdict |-> "none"]
Off == Working("off", <<>>, 0)

VARIABLES
  job,      \* Jobs -> row of dsh_boundary_jobs
  lapsed,   \* jobs whose lease is over
  outbox,   \* message -> status and form of its row
  claim,    \* message -> what the guard decided about it
  guard,    \* its state: generation, count, and whether it knows the instruction
  drain,    \* worker -> its drain of the session
  flushing, \* workers whose native flush has not settled
  human,    \* workers that handle a message of the user
  run,      \* worker -> its binding to the run: none, live, over
  kicked,   \* workers with a drain in store: begun or going on, behind one at work, or on a timer
  given,    \* message -> forms in which the native agent was given it
  disturbed \* disturbances so far

vars == <<job, lapsed, outbox, claim, guard, drain, flushing, human, run, kicked, given, disturbed>>
rows == <<job, lapsed, outbox>>
loop == <<claim, guard>>
local == <<flushing, human, run, kicked>>
world == <<given, disturbed>>

Init ==
  /\ \E first \in {f \in [Messages -> UNION {First[m] : m \in Messages}] : \A m \in Messages : f[m] \in First[m]} :
       job = [j \in Jobs |-> IF j[2] = first[j[1]] THEN Row ELSE NoRow]
  /\ lapsed = {} /\ outbox = [m \in Messages |-> [status |-> "pending", form |-> "continuation"]]
  /\ claim = [m \in Messages |-> [decision |-> "none", generation |-> 0, resolution |-> "none"]]
  /\ guard = [generation |-> 0, count |-> 0, known |-> TRUE]
  /\ drain = [w \in Workers |-> Off] /\ flushing = {} /\ human = {} /\ kicked = {}
  /\ run = [w \in Workers |-> "none"] /\ given = [m \in Messages |-> {}] /\ disturbed = 0

-----------------------------------------------------------------------------
At(w, a) == drain[w].at = a
Go(w, a, v) == drain' = [drain EXCEPT ![w].at = a, ![w].verdict = v]
Returns(w) == drain' = [drain EXCEPT ![w] = Working("idle", <<>>, 0)]
Wakes(w) == kicked' = kicked \cup {w}
Busy(w) == drain[w].at \notin {"off", "idle"}
Mine(w) == drain[w].job
Message(w) == Mine(w)[1]
Kind(w) == Mine(w)[2]
Open(m) == outbox[m].status \in {"pending", "dispatched"}
Disturb == disturbed < Disturbances /\ disturbed' = disturbed + 1

(* Every write to a job first finds it processing under its own nonce.      *)
Owns(w) == job[Mine(w)].status = "processing" /\ job[Mine(w)].owner = w
(* A row that leaves the work has no lease.                                 *)
Releases == lapsed' = {j \in lapsed : job'[j].status = "processing"}
Put(w, s) == [job EXCEPT ![Mine(w)].status = s, ![Mine(w)].owner = NoWorker]

(* The session is opened (again) in a process.                              *)
Start(w) ==
  /\ At(w, "off") /\ Returns(w)
  /\ UNCHANGED <<rows, loop, local, world>>

Crash(w) ==
  /\ ~At(w, "off") /\ Disturb
  /\ drain' = [drain EXCEPT ![w] = Off] /\ run' = [run EXCEPT ![w] = "none"]
  /\ flushing' = flushing \ {w} /\ human' = human \ {w} /\ kicked' = kicked \ {w}
  /\ UNCHANGED <<rows, loop, given>>

(* gate.prepare() binds the run to the process; closing the turn ends it.   *)
Bind(w) ==
  /\ ~At(w, "off")
  /\ \/ run[w] = "none" /\ run' = [run EXCEPT ![w] = "live"]
     \/ run[w] = "live" /\ run' = [run EXCEPT ![w] = "over"]
  /\ UNCHANGED <<rows, loop, drain, flushing, human, kicked, world>>

-----------------------------------------------------------------------------
(* A turn stops, the agent falls idle, a step begins or the session is       *)
(* rehydrated: what the user and the host do, at no particular time.        *)
Kick(w) ==
  /\ ~At(w, "off") /\ w \notin kicked /\ Wakes(w)
  /\ UNCHANGED <<rows, loop, drain, flushing, human, run, world>>

-----------------------------------------------------------------------------
BugClaimable(j) == job[j].due /\ job[j].status \in {"pending", "failed_retryable"}

Claimable(j) ==
  /\ job[j].due
  /\ \/ job[j].status \in {"pending", "failed_retryable"}
     \/ job[j].status = "processing" /\ j \in lapsed

(* A turn of a drain in store claims a job, whatever its attempts, unless a  *)
(* flush of this process has not settled.  Several kicks count as one.      *)
Claim(w, j) ==
  /\ At(w, "idle") /\ w \in kicked /\ w \notin flushing /\ Claimable(j)
  /\ LET n == IF job[j].attempts = MaxAttempts THEN MaxAttempts ELSE job[j].attempts + 1 IN
     /\ job' = [job EXCEPT ![j] = [status |-> "processing", owner |-> w, attempts |-> n, due |-> TRUE]]
     /\ drain' = [drain EXCEPT ![w] = Working("stage", j, n)]
  /\ lapsed' = lapsed \ {j} /\ kicked' = kicked \ {w}
  /\ UNCHANGED <<outbox, loop, flushing, human, run, world>>

(* It returns when a flush is out, which kicks as it settles, and when all   *)
(* rows have ended.  While one falls due later, or has a lease that ends, a *)
(* timer keeps the drain in store, as it does after a failed claim.         *)
FindsNothing(w) ==
  /\ At(w, "idle") /\ w \in kicked /\ kicked' = kicked \ {w}
  /\ w \in flushing \/ \A j \in Jobs : job[j].status \in Ended
  /\ UNCHANGED <<rows, loop, drain, flushing, human, run, world>>

(* Nobody renews the lease of a job that was left; a process that hangs     *)
(* stops renewing its own.                                                  *)
Lapse(j) ==
  /\ job[j].status = "processing" /\ j \notin lapsed /\ lapsed' = lapsed \cup {j}
  /\ IF \E w \in Workers : Busy(w) /\ Mine(w) = j /\ Owns(w) THEN Disturb ELSE UNCHANGED disturbed
  /\ UNCHANGED <<job, outbox, loop, drain, local, given>>

(* The heartbeat finds another nonce and aborts the drain.                  *)
LeaseLost(w) ==
  /\ Busy(w) /\ ~Owns(w) /\ ~drain[w].aborted
  /\ drain' = [drain EXCEPT ![w].aborted = TRUE]
  /\ UNCHANGED <<rows, loop, local, world>>

BackoffPasses(j) ==
  /\ ~job[j].due /\ job' = [job EXCEPT ![j].due = TRUE]
  /\ UNCHANGED <<lapsed, outbox, loop, drain, local, world>>

(* An aborted stage rejects; the drain returns and leaves the row to its     *)
(* lease, and the session to the next kick: no timer is set.                *)
Abandon(w) ==
  /\ drain[w].aborted /\ drain[w].at \notin {"marking", "settling"}
  /\ Returns(w)
  /\ UNCHANGED <<rows, loop, local, world>>

-----------------------------------------------------------------------------
BugBlocks == guard.known /\ guard.count > Limit

(* claimAutomaticContinuation(): a message is decided about once, and a     *)
(* fourth one of the same instruction waits for the user.                   *)
Blocks == guard.known /\ guard.count >= Limit
Decide(m) ==
  IF claim[m].decision # "none"
  THEN UNCHANGED loop
  ELSE LET g == IF guard.known THEN guard.generation ELSE guard.generation + 1
           n == IF guard.known THEN guard.count ELSE 0
       IN /\ guard' = [generation |-> g, known |-> TRUE, count |-> IF Blocks THEN n ELSE n + 1]
          /\ claim' = [claim EXCEPT ![m] = [decision |-> IF Blocks THEN "wait_user" ELSE "deliver",
                                            generation |-> g, resolution |-> @.resolution]]

(* beforeDelivery() without the guard; a paused session waits.              *)
Gate(w) ==
  /\ At(w, "stage") /\ Kind(w) = "delivery" /\ ~drain[w].aborted
  /\ \/ (~Open(Message(w)) \/ run[w] = "over") /\ Go(w, "settling", "superseded")
     \/ Open(Message(w)) /\ run[w] = "none" /\ Go(w, "failing", "transient")
     \/ Open(Message(w)) /\ run[w] = "live" /\ outbox[Message(w)].form = "continuation" /\ Go(w, "settling", "waiting_user")
     \/ Open(Message(w)) /\ run[w] = "live" /\ outbox[Message(w)].form = "loop-recovery" /\ Go(w, "deliver", "none")
  /\ UNCHANGED <<rows, loop, local, world>>

GuardDecides(w) ==
  LET m == Message(w) IN
  /\ At(w, "stage") /\ Kind(w) = "delivery" /\ ~drain[w].aborted
  /\ Open(m) /\ run[w] = "live" /\ outbox[m].form = "continuation"
  /\ Decide(m)
  /\ CASE claim'[m].decision = "deliver" \/ claim[m].resolution = "user_answer" -> Go(w, "deliver", "none")
       [] claim'[m].decision = "wait_user" /\ claim[m].decision = "none" -> Go(w, "asking", "none")
       [] OTHER -> Go(w, "settling", "waiting_user")
  /\ UNCHANGED <<rows, local, world>>

(* The other kinds.                                                         *)
Process(w) ==
  /\ At(w, "stage") /\ Kind(w) # "delivery" /\ ~drain[w].aborted
  /\ \/ run[w] = "over" /\ Go(w, "settling", "superseded") /\ UNCHANGED outbox
     \/ run[w] = "none" /\ Go(w, "failing", "transient") /\ UNCHANGED outbox
     \/ run[w] = "live" /\ Kind(w) = "retry" /\ Go(w, "settling", "next") /\ UNCHANGED outbox
     \/ run[w] = "live" /\ Kind(w) = "ask" /\ Go(w, "asking", "none") /\ UNCHANGED outbox
     \/ /\ run[w] = "live" /\ Kind(w) = "context" /\ Go(w, "settling", "superseded")
        /\ outbox' = [outbox EXCEPT ![Message(w)].status = IF Open(Message(w)) THEN "superseded" ELSE @]
  /\ UNCHANGED <<job, lapsed, loop, local, world>>

-----------------------------------------------------------------------------
(* resetLoopGuardForUser(), of one claim or of all that wait.               *)
ResetGuard(ms, resolution) ==
  /\ guard' = [generation |-> guard.generation + 1, count |-> 0, known |-> FALSE]
  /\ claim' = [m \in Messages |-> IF m \in ms /\ claim[m].decision = "wait_user" /\ claim[m].resolution = "none"
                 THEN [claim[m] EXCEPT !.resolution = resolution] ELSE claim[m]]

(* The user's words take the place of a message that was not sent yet.      *)
Replaced(m) == [outbox EXCEPT ![m].form = IF outbox[m].status = "pending" THEN "loop-recovery" ELSE @]

(* The answer is written even when the drain was aborted meanwhile.         *)
Answer(w) ==
  /\ At(w, "asking") /\ Disturb
  /\ outbox' = Replaced(Message(w))
  /\ IF Kind(w) = "ask"
     THEN ResetGuard(Messages, "manual_user") /\ Go(w, IF drain[w].aborted THEN "deliver" ELSE "settling", "next")
     ELSE ResetGuard({Message(w)}, "user_answer") /\ Go(w, "deliver", "none")
  /\ UNCHANGED <<job, lapsed, local, given>>

NoAnswer(w) ==
  /\ At(w, "asking") /\ ~drain[w].aborted /\ Go(w, "settling", "waiting_user")
  /\ UNCHANGED <<rows, loop, local, world>>

FlushStarts(w) ==
  /\ At(w, "deliver") /\ ~drain[w].aborted
  /\ Go(w, "flushing", "none") /\ flushing' = flushing \cup {w}
  /\ UNCHANGED <<rows, loop, human, run, kicked, world>>

FlushSettles(w) ==
  /\ w \in flushing /\ flushing' = flushing \ {w} /\ Wakes(w)
  /\ IF At(w, "flushing") /\ ~drain[w].aborted
     THEN Go(w, "sending", "none") \/ Go(w, "failing", "transient")
     ELSE UNCHANGED drain
  /\ UNCHANGED <<rows, loop, human, run, world>>

FlushTimesOut(w) ==
  /\ At(w, "flushing") /\ ~drain[w].aborted /\ Go(w, "failing", "transient")
  /\ UNCHANGED <<rows, loop, local, world>>

BugStillDue(w) == ~drain[w].aborted

(* The last check and the enqueue are one step.                             *)
StillDue(w) == Owns(w) /\ Open(Message(w)) /\ ~drain[w].aborted
Send(w) ==
  /\ At(w, "sending")
  /\ IF ~StillDue(w) THEN Go(w, "settling", "superseded") /\ UNCHANGED given
     ELSE IF run[w] # "live" THEN Go(w, "failing", "permanent") /\ UNCHANGED given
     ELSE Go(w, "marking", "none") /\ given' = [given EXCEPT ![Message(w)] = @ \cup {outbox[Message(w)].form}]
  /\ UNCHANGED <<rows, loop, local, disturbed>>

Mark(w) ==
  /\ At(w, "marking")
  /\ \/ /\ Go(w, "settling", "completed")
        /\ outbox' = [outbox EXCEPT ![Message(w)].status = IF Open(Message(w)) THEN "dispatched" ELSE @]
     \/ Go(w, "failing", "transient") /\ UNCHANGED outbox
  /\ UNCHANGED <<job, lapsed, loop, local, world>>

(* completeBoundaryJob(), with the stage it queues; the drain goes on.      *)
Queued(j, w) ==
  IF drain[w].verdict = "next" /\ j = <<Message(w), "delivery">> /\ job[j].status \in {"none", "completed", "failed_retryable"}
  THEN [job[j] EXCEPT !.status = "pending", !.owner = NoWorker, !.due = TRUE]
  ELSE Put(w, IF drain[w].verdict = "next" THEN "completed" ELSE drain[w].verdict)[j]
Complete(w) ==
  /\ At(w, "settling")
  /\ \/ Owns(w) /\ job' = [j \in Jobs |-> Queued(j, w)] /\ Returns(w) /\ Wakes(w)
     \/ ~Owns(w) /\ Go(w, "failing", "permanent") /\ UNCHANGED <<job, kicked>>
     \/ Go(w, "failing", "transient") /\ UNCHANGED <<job, kicked>>
  /\ Releases /\ UNCHANGED <<outbox, loop, flushing, human, run, world>>

(* failBoundaryJob(): another attempt later, with a timer, or the user, who  *)
(* is asked if the run is still bound.                                      *)
Fail(w) ==
  /\ At(w, "failing") /\ ~drain[w].aborted
  /\ LET last == drain[w].verdict = "permanent" \/ drain[w].attempts >= MaxAttempts IN
     /\ job' = IF ~Owns(w) THEN job
               ELSE IF last THEN Put(w, "waiting_user") ELSE [Put(w, "failed_retryable") EXCEPT ![Mine(w)].due = FALSE]
     /\ IF last /\ run[w] = "live" THEN Go(w, "telling", drain[w].verdict) ELSE Returns(w)
     /\ IF last THEN UNCHANGED kicked ELSE Wakes(w)
  /\ Releases /\ UNCHANGED <<outbox, loop, flushing, human, run, world>>

(* The failure cannot be written: the lease and the next kick remain.       *)
FailIsLost(w) ==
  /\ At(w, "failing") /\ Disturb /\ Returns(w)
  /\ UNCHANGED <<rows, loop, local, given>>

(* onWaitingUser(): only a transient failure may be tried again; the answer  *)
(* is written even if the drain was aborted meanwhile, which then does not  *)
(* kick.                                                                    *)
Retry(w) ==
  /\ At(w, "telling") /\ drain[w].verdict = "transient" /\ Disturb
  /\ ResetGuard(Messages, "manual_user")
  /\ outbox' = IF Open(Message(w)) THEN Replaced(Message(w)) ELSE outbox
  /\ job' = IF job[Mine(w)].status = "waiting_user" THEN [job EXCEPT ![Mine(w)] = Row] ELSE job
  /\ Returns(w) /\ IF drain[w].aborted THEN UNCHANGED kicked ELSE Wakes(w)
  /\ UNCHANGED <<lapsed, flushing, human, run, given>>

StaysWaiting(w) ==
  /\ At(w, "telling") /\ Returns(w)
  /\ UNCHANGED <<rows, loop, local, world>>

-----------------------------------------------------------------------------
(* acceptHumanInput(): the drain is aborted at once; what it was about to   *)
(* deliver is superseded in a later transaction, which may fail and which,  *)
(* for a run without a policy in memory, only resets the guard.             *)
HumanInput(w) ==
  /\ ~At(w, "off") /\ w \notin human /\ Disturb /\ human' = human \cup {w}
  /\ drain' = [drain EXCEPT ![w].aborted = Busy(w)]
  /\ UNCHANGED <<rows, loop, flushing, run, kicked, given>>

HumanCommits(w) ==
  /\ w \in human /\ human' = human \ {w}
  /\ \/ UNCHANGED <<job, outbox, loop>>
     \/ run[w] # "none" /\ ResetGuard(Messages, "manual_user") /\ UNCHANGED <<job, outbox>>
     \/ /\ run[w] # "none" /\ ResetGuard(Messages, "manual_user")
        /\ outbox' = [m \in Messages |-> IF Open(m) THEN [outbox[m] EXCEPT !.status = "superseded"] ELSE outbox[m]]
        /\ job' = [j \in Jobs |-> IF job[j].status \in {"none", "completed"} THEN job[j]
                                  ELSE [job[j] EXCEPT !.status = "superseded", !.owner = NoWorker]]
  /\ Releases /\ UNCHANGED <<drain, flushing, run, kicked, world>>

(* The message shows up in the session's log.                               *)
Observe(m) ==
  /\ given[m] # {} /\ Open(m)
  /\ outbox' = [outbox EXCEPT ![m].status = "observed"]
  /\ UNCHANGED <<job, lapsed, loop, drain, local, world>>

-----------------------------------------------------------------------------
(* What a process does by itself once a drain is in store.                  *)
Works(w) ==
  \/ (\E j \in Jobs : Claim(w, j)) \/ FindsNothing(w) \/ Abandon(w)
  \/ Gate(w) \/ GuardDecides(w) \/ Process(w) \/ FlushStarts(w) \/ Send(w) \/ Mark(w)
  \/ Complete(w) \/ Fail(w)

Next ==
  \/ \E w \in Workers :
       \/ Works(w) \/ Start(w) \/ Crash(w) \/ Bind(w) \/ Kick(w) \/ LeaseLost(w)
       \/ Answer(w) \/ NoAnswer(w) \/ FlushSettles(w) \/ FlushTimesOut(w) \/ FailIsLost(w)
       \/ Retry(w) \/ StaysWaiting(w)
       \/ HumanInput(w) \/ HumanCommits(w)
  \/ \E j \in Jobs : Lapse(j) \/ BackoffPasses(j)
  \/ \E m \in Messages : Observe(m)

Spec == Init /\ [][Next]_vars

(* A process does its work, which includes a drain that is in store; flushes *)
(* settle, leases and delays run out.  No fairness of the user: nobody has  *)
(* to stop a turn (Kick), to answer, or to open the session or its run.     *)
Fairness ==
  /\ \A w \in Workers : WF_vars(Works(w)) /\ WF_vars(FlushSettles(w))
  /\ WF_vars(\E j \in Jobs : Lapse(j)) /\ WF_vars(\E j \in Jobs : BackoffPasses(j))
FairSpec == Spec /\ Fairness

-----------------------------------------------------------------------------
(* Properties.                                                              *)

(* Between two interventions of the user at most Limit messages of the same *)
(* instruction are sent by themselves; one that the guard blocked is never  *)
(* sent in that form, whatever is claimed again, answered or retried later. *)
AutomaticRunIsBounded ==
  /\ \A g \in {claim[m].generation : m \in Messages} :
       Cardinality({m \in Messages : claim[m].decision = "deliver" /\ claim[m].generation = g}) <= Limit
  /\ \A m \in Messages : "continuation" \in given[m] => claim[m].decision = "deliver"

(* What the user or another stage superseded while a flush was waited for   *)
(* is not sent any more.                                                    *)
SupersededIsNotSent ==
  [][\A m \in Messages : given'[m] # given[m] => Open(m)]_vars

(* If a process has a drain in store again and again, by the kicks of its    *)
(* host or by the timers that its own drains leave, then every job ends, or *)
(* the session waits in a question to the user.  A drain that was aborted,  *)
(* one whose failure could not be written and one that ends in waiting for  *)
(* the user return without a timer (boundary-worker.ts:194, 201, 205), and  *)
(* what they leave rests until the next kick: hence the condition.          *)
JobsEnd ==
  (\E w \in Workers : []<>(w \in kicked)) =>
    []<>((\A j \in Jobs : job[j].status \in Ended) \/ \E w \in Workers : drain[w].at \in {"asking", "telling"})
=============================================================================
