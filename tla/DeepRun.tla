------------------------------- MODULE DeepRun -------------------------------
(* One deep-planning run shared by host processes through its database         *)
(* (deep-thinker/scheduler.ts, store.ts, native-executor.ts, and the commands  *)
(* of controller.ts).  A process drives the run under a lease and an epoch;    *)
(* its jobs send model requests whose tokens are reserved beforehand; the user *)
(* cancels, adds input and resumes from any process.                           *)
(*                                                                             *)
(* Each mutate() of the store is one action; what a process does between two   *)
(* of them (reads of files, requests, child agents) interleaves with           *)
(* everything.  The problem graph is reduced to a root over independent        *)
(* children, and a reply to what it leaves its node as: its rules are those of *)
(* DeepGraph.  Standard reasoning mode; a token stands for many.               *)
EXTENDS Integers, Sequences, FiniteSets, FiniteSetsExt

CONSTANTS Procs,        \* host processes
          Nodes, Root,  \* the problem graph: Root waits for all other nodes
          None, Gone,   \* no owner; the owner id of a process that crashed
          Concurrent,   \* budget.maxConcurrentAgents
          MaxJobs,      \* budget.maxAgentJobs
          MaxTokens,    \* budget.maxTotalTokens
          Estimate,     \* tokens reserved for a request
          Actual,       \* tokens the provider reports
          Outcomes,     \* what a reply may leave its node as
          MaxUser,      \* bound of the model: commands of the user
          MaxTrouble    \* bound of the model: crashes, lapses, changed sources, time up

ASSUME RunAssumption ==
  /\ Root \in Nodes
  /\ None \notin Procs /\ Gone \notin Procs /\ None # Gone
  /\ Concurrent \in Nat \ {0}
  /\ Outcomes \subseteq {"open", "accepted", "unresolved"}
  /\ {MaxJobs, MaxTokens, Estimate, Actual, MaxUser, MaxTrouble} \subseteq Nat

VARIABLES run,      \* dsh_deep_runs: phase, epoch, owner, lease, requirement, usage
          node,     \* dsh_deep_nodes: status, revision, active attempt
          attempt,  \* dsh_deep_attempts, in order; logged: the child's own Session log
          request,  \* dsh_deep_budget_reservations, in order
          sources,  \* nodes of which a current artifact no longer matches its file
          task,     \* per attempt: where its #runJob is
          queued,   \* per process and node: a job scheduled but not reserved yet
          driver,   \* per process: #drive and the timers around it
          command,  \* per process: the command of the user under way
          user, trouble  \* bounds

stored == <<run, node, attempt, request>>
vars == <<run, node, attempt, request, sources, task, queued, driver, command, user, trouble>>

Terminal == {"answered", "partial", "cancelled"}
Unknown == {"reserved", "started", "uncertain"}
Held == {"reserved", "uncertain"}
Attempts == DOMAIN attempt

NoJob == [rev |-> 0, requirement |-> 0, epoch |-> 0, repairs |-> 0]
NoSight == [phase |-> "none", epoch |-> 0, owner |-> None, requirement |-> 0]
Off == [pc |-> "off", epoch |-> 0, aborted |-> FALSE, timed |-> FALSE, problem |-> FALSE,
        changed |-> {}, seen |-> NoSight, goal |-> "none"]
Idle == [pc |-> "none", goal |-> "none", seen |-> NoSight, changed |-> {}, left |-> {}, inputs |-> {}]

(* The tables of the run, and the jobs that are about to be entered in them.   *)
Job == [rev : Nat, requirement : Nat, epoch : Nat, repairs : {0, 1}]
Node == [status : {"open", "accepted", "unresolved"}, rev : Nat, active : Nat, for : Nat]
Attempt == [node : Nodes, rev : Nat, requirement : Nat, epoch : Nat, proc : Procs,
            repairs : {0, 1}, status : Unknown \union {"completed", "failed", "cancelled", "abandoned"},
            child : BOOLEAN, logged : BOOLEAN]
Phases == {"ready", "running", "paused"} \union Terminal
Run == [phase : Phases, epoch : Nat, owner : Procs \union {None, Gone}, lease : BOOLEAN,
        requirement : Nat, tokens : Nat, reserved : Int, timeUp : BOOLEAN, inputs : SUBSET Nat]
TypeOK ==
  /\ run \in Run
  /\ node \in [Nodes -> Node]
  /\ attempt \in Seq(Attempt)
  /\ queued \in [Procs -> [Nodes -> Job]]
  /\ user \in Nat

(* initial-state.ts: the run is ready and nothing was tried; a graph with      *)
(* children is one whose plan was supported before a pause.                    *)
Init ==
  /\ run = [phase |-> "ready", epoch |-> 0, owner |-> None, lease |-> FALSE, requirement |-> 1,
            tokens |-> 0, reserved |-> 0, timeUp |-> FALSE, inputs |-> {}]
  /\ node = [n \in Nodes |-> [status |-> "open", rev |-> 1, active |-> 0, for |-> 0]]
  /\ attempt = << >>
  /\ request = << >>
  /\ sources = {}
  /\ task = << >>
  /\ queued = [p \in Procs |-> [n \in Nodes |-> NoJob]]
  /\ driver = [p \in Procs |-> Off]
  /\ command = [p \in Procs |-> Idle]
  /\ user = 0
  /\ trouble = 0

----------------------------------------------------------------------------
(* Transactions of store.ts and scheduler.ts.                                  *)

RequestsOf(a) == {r \in DOMAIN request : request[r].attempt = a}
Sight == [phase |-> run.phase, epoch |-> run.epoch, owner |-> run.owner, requirement |-> run.requirement]
OwnedByOther(p) == run.owner \notin {None, p} /\ run.lease
OwnedNow == run.owner # None /\ run.lease

(* budgetProblem(), for a job and for a request.                               *)
NoBudget == run.timeUp \/ run.tokens + run.reserved >= MaxTokens
NoJobBudget == NoBudget \/ Len(attempt) >= MaxJobs
NoRequestBudget == NoBudget \/ run.tokens + run.reserved + Estimate > MaxTokens

(* assertDeepAuthority().                                                      *)
Owns(p, e) == run.phase = "running" /\ run.epoch = e /\ run.owner = p /\ run.lease
Authority(a) ==
  LET t == attempt[a] IN
  /\ Owns(t.proc, t.epoch)
  /\ run.requirement = t.requirement
  /\ node[t.node].rev = t.rev /\ node[t.node].active = a
  /\ t.status \in {"reserved", "started"}

(* invalidateNodes() on this graph: the root depends on every node.            *)
Withdrawn(S) ==
  [n \in Nodes |-> IF n \in S \union (IF S = {} THEN {} ELSE {Root})
                   THEN [status |-> "open", rev |-> node[n].rev + 1, active |-> 0, for |-> 0]
                   ELSE node[n]]
Refreshed(S) == IF S = {} THEN sources ELSE sources \ (S \union {Root})

Inactive == [n \in Nodes |-> [node[n] EXCEPT !.active = 0]]

(* #pauseState(): authority is revoked; attempts that may have cost something  *)
(* become uncertain.                                                           *)
Stopped(t, a) ==
  IF t.status \notin {"reserved", "started"} THEN t
  ELSE [t EXCEPT !.status = IF ~t.child /\ RequestsOf(a) = {} THEN "cancelled" ELSE "uncertain"]
Released(phase) == [run EXCEPT !.phase = phase, !.epoch = @ + 1, !.owner = None, !.lease = FALSE]
PauseState ==
  /\ run' = Released("paused")
  /\ attempt' = [a \in Attempts |-> Stopped(attempt[a], a)]
  /\ node' = Inactive
  /\ UNCHANGED request

(* The condition under which #pauseState() returns without doing anything.     *)
PauseIsVoid(e) == run.phase \in Terminal \/ (e # 0 /\ run.epoch # e)

(* #finish(): what was seen must still hold; what changed is withdrawn and     *)
(* makes an answer partial.                                                    *)
MayFinish(seen) == Sight = seen /\ (run.owner # None => run.lease)
Finish(phase, changed) ==
  /\ phase \in Terminal
  /\ node' = Withdrawn(changed)
  /\ sources' = Refreshed(changed)
  /\ run' = Released(IF changed # {} /\ phase = "answered" THEN "partial" ELSE phase)
  /\ UNCHANGED <<attempt, request>>

(* settleRequest().                                                            *)
BugSettleRequest(r, finished, measured) ==
  IF request[r].status # "reserved" THEN UNCHANGED <<run, request>>
  ELSE /\ run' = [run EXCEPT !.reserved = @ - Estimate, !.tokens = @ + (IF measured THEN Actual ELSE 0)]
       /\ request' = [request EXCEPT ![r].status = IF finished \/ measured THEN "settled" ELSE "uncertain"]
SettleRequest(r, finished, measured) ==
  IF request[r].status # "reserved" THEN UNCHANGED <<run, request>>
  ELSE IF finished \/ measured
  THEN /\ run' = [run EXCEPT !.reserved = @ - Estimate,
                             !.tokens = @ + (IF measured THEN Actual ELSE Estimate)]
       /\ request' = [request EXCEPT ![r].status = "settled"]
  ELSE /\ run' = run
       /\ request' = [request EXCEPT ![r].status = "uncertain"]

----------------------------------------------------------------------------
(* The driver: start(), #drive() and the catch of start().                     *)

Scheduled(p) ==
  {n \in Nodes : queued[p][n] # NoJob}
  \union {attempt[a].node : a \in {b \in Attempts : attempt[b].proc = p /\ task[b] # "over"}}
Runnable(n) ==
  /\ node[n].status = "open" /\ node[n].active = 0
  /\ n = Root => \A c \in Nodes \ {Root} : node[c].status = "accepted"

Drives(p, pc) == driver[p].pc = pc
Go(p, pc) == driver' = [driver EXCEPT ![p].pc = pc]
Fails(p) == driver' = [driver EXCEPT ![p].pc = "failing", ![p].aborted = TRUE]

(* store.claim(): not while another lives, not while a result is unknown.      *)
BugClaimable(p) == run.phase \notin Terminal /\ ~OwnedByOther(p)
Claimable(p) ==
  /\ run.phase \notin Terminal
  /\ ~OwnedByOther(p)
  /\ \A a \in Attempts : attempt[a].status \notin Unknown
Claim(p) ==
  /\ Drives(p, "claim")
  /\ \/ /\ Claimable(p)
        /\ run' = [run EXCEPT !.phase = "running", !.epoch = @ + 1, !.owner = p, !.lease = TRUE]
        /\ driver' = [driver EXCEPT ![p].pc = "loop", ![p].epoch = run.epoch + 1]
     \/ /\ ~Claimable(p)
        /\ driver' = [driver EXCEPT ![p] = Off]
        /\ run' = run
  /\ UNCHANGED <<node, attempt, request, sources, task, queued, command, user, trouble>>

(* The head of the loop: the signal, the phase and epoch, then the transaction *)
(* that checks the authority and advances the graph.                           *)
Loop(p) ==
  /\ Drives(p, "loop")
  /\ IF driver[p].aborted THEN Go(p, "stop") /\ node' = node
     ELSE IF run.phase # "running" \/ run.epoch # driver[p].epoch
     THEN (Go(p, "stop") \/ Fails(p)) /\ node' = node
     ELSE IF run.owner # p \/ ~run.lease THEN Fails(p) /\ node' = node
     ELSE /\ Go(p, "survey")
          /\ node' = [node EXCEPT ![Root].status =
                        IF /\ @ = "open" /\ node[Root].active = 0
                           /\ \E c \in Nodes \ {Root} : node[c].status = "unresolved"
                        THEN "unresolved" ELSE @]
  /\ UNCHANGED <<run, attempt, request, sources, task, queued, command, user, trouble>>

(* Nothing to run and nothing running: the sources are compared with their     *)
(* files.  Otherwise jobs are started up to the limit and one is waited for.   *)
Survey(p) ==
  LET ready == {n \in Nodes : Runnable(n)} \ Scheduled(p)
      running == Cardinality(Scheduled(p))
      count == IF NoJobBudget \/ running >= Concurrent THEN 0 ELSE Concurrent - running
  IN
  /\ Drives(p, "survey")
  /\ IF (ready = {} \/ NoJobBudget) /\ running = 0
     THEN /\ driver' = [driver EXCEPT ![p].pc = IF sources = {} THEN "decide" ELSE "withdraw",
                                       ![p].changed = sources, ![p].problem = NoJobBudget]
          /\ UNCHANGED queued
     ELSE \E S \in SUBSET ready :
          /\ Cardinality(S) = IF Cardinality(ready) < count THEN Cardinality(ready) ELSE count
          /\ queued' = [queued EXCEPT ![p] = [n \in Nodes |->
               IF n \in S THEN [rev |-> node[n].rev, requirement |-> run.requirement,
                                epoch |-> run.epoch, repairs |-> 0]
               ELSE queued[p][n]]]
          /\ Go(p, "wait")
  /\ UNCHANGED <<stored, sources, task, command, user, trouble>>

(* What changed is withdrawn, without a look at who owns the run by then.      *)
Withdraw(p) ==
  /\ Drives(p, "withdraw")
  /\ node' = Withdrawn(driver[p].changed)
  /\ sources' = Refreshed(driver[p].changed)
  /\ driver' = [driver EXCEPT ![p].pc = IF driver[p].problem THEN "decide" ELSE "loop",
                              ![p].changed = {}]
  /\ UNCHANGED <<run, attempt, request, task, queued, command, user, trouble>>

(* The end is decided on what is read now, the sources compared once more, and *)
(* committed in a later transaction.                                           *)
Decide(p) ==
  /\ Drives(p, "decide")
  /\ IF run.phase # "running" \/ run.epoch # driver[p].epoch THEN Go(p, "stop")
     ELSE driver' = [driver EXCEPT ![p].pc = "finish", ![p].seen = Sight, ![p].changed = sources,
                       ![p].goal = IF node[Root].status = "accepted" THEN "answered" ELSE "partial"]
  /\ UNCHANGED <<stored, sources, task, queued, command, user, trouble>>
FinishRun(p) ==
  /\ driver[p].pc \in {"finish", "expire"}
  /\ \/ /\ run.phase \in Terminal
        /\ driver' = [driver EXCEPT ![p] = Off]
        /\ UNCHANGED <<stored, sources>>
     \/ /\ run.phase \notin Terminal /\ ~MayFinish(driver[p].seen)
        /\ Fails(p)
        /\ UNCHANGED <<stored, sources>>
     \/ /\ run.phase \notin Terminal /\ MayFinish(driver[p].seen)
        /\ Finish(driver[p].goal, driver[p].changed)
        /\ driver' = [driver EXCEPT ![p] = Off]
  /\ UNCHANGED <<task, queued, command, user, trouble>>

(* The loop is left: the run is paused if it is still this driver's, then the  *)
(* jobs are aborted and waited for.                                            *)
Stop(p) ==
  /\ Drives(p, "stop")
  /\ \/ /\ ~PauseIsVoid(driver[p].epoch) /\ ~OwnedByOther(p)
        /\ PauseState
        /\ driver' = [driver EXCEPT ![p].pc = "drain", ![p].aborted = TRUE]
     \/ /\ PauseIsVoid(driver[p].epoch) \/ OwnedByOther(p)
        /\ IF PauseIsVoid(driver[p].epoch)
           THEN driver' = [driver EXCEPT ![p].pc = "drain", ![p].aborted = TRUE, ![p].timed = FALSE]
           ELSE Fails(p)
        /\ UNCHANGED stored
  /\ UNCHANGED <<sources, task, queued, command, user, trouble>>

(* Past its deadline a driver whose pause nobody followed finishes the run.    *)
Drained(p) ==
  /\ Drives(p, "drain")
  /\ Scheduled(p) = {}
  /\ driver' = IF driver[p].timed /\ run.epoch = driver[p].epoch + 1
               THEN [driver EXCEPT ![p].pc = "expire", ![p].seen = Sight, ![p].changed = sources,
                                   ![p].goal = "partial"]
               ELSE [driver EXCEPT ![p] = Off]
  /\ UNCHANGED <<stored, sources, task, queued, command, user, trouble>>

(* An error: jobs are aborted and waited for, then the run is paused.          *)
Failing(p) ==
  /\ Drives(p, "failing")
  /\ Scheduled(p) = {}
  /\ \/ /\ ~PauseIsVoid(driver[p].epoch) /\ ~OwnedByOther(p)
        /\ PauseState
     \/ /\ PauseIsVoid(driver[p].epoch) \/ OwnedByOther(p)
        /\ UNCHANGED stored
  /\ driver' = [driver EXCEPT ![p] = Off]
  /\ UNCHANGED <<sources, task, queued, command, user, trouble>>

(* The deadline of #drive().  Its other timer, the heartbeat, aborts a driver   *)
(* that lost the run before the loop sees it; nothing else comes of that.      *)
InLoop(p) == driver[p].pc \in {"loop", "survey", "wait", "withdraw", "decide", "finish", "stop"}
Deadline(p) ==
  /\ InLoop(p) /\ run.timeUp /\ ~driver[p].timed
  /\ driver' = [driver EXCEPT ![p].timed = TRUE, ![p].aborted = TRUE]
  /\ UNCHANGED <<stored, sources, task, queued, command, user, trouble>>

(* The parent's turn ended: a run that is ready starts.                        *)
Kick(p) ==
  /\ run.phase = "ready" /\ Drives(p, "off")
  /\ Go(p, "claim")
  /\ UNCHANGED <<stored, sources, task, queued, command, user, trouble>>

----------------------------------------------------------------------------
(* Jobs: #runJob(), #reserve() and the native child of the attempt.            *)

(* The promise of a job settles: a driver in Promise.race goes on.             *)
JobOver(p, throws) ==
  IF ~Drives(p, "wait") THEN UNCHANGED driver
  ELSE IF throws THEN Fails(p)
  ELSE Go(p, "loop")

Reservable(p, n) ==
  LET j == queued[p][n] IN
  /\ Owns(p, j.epoch)
  /\ run.requirement = j.requirement
  /\ node[n].rev = j.rev /\ node[n].active = 0
  /\ ~NoJobBudget
Reserve(p, n) ==
  LET j == queued[p][n] IN
  /\ j # NoJob
  /\ queued' = [queued EXCEPT ![p][n] = NoJob]
  /\ \/ /\ Reservable(p, n)
        /\ attempt' = Append(attempt, [node |-> n, rev |-> j.rev, requirement |-> j.requirement,
                                       epoch |-> run.epoch, proc |-> p, repairs |-> j.repairs,
                                       status |-> "reserved", child |-> FALSE, logged |-> FALSE])
        /\ node' = [node EXCEPT ![n].active = Len(attempt) + 1]
        /\ task' = Append(task, "spawned")
        /\ UNCHANGED driver
     \/ /\ ~Reservable(p, n)
        /\ \E throws \in {FALSE, j.repairs = 0 /\ ~driver[p].aborted} : JobOver(p, throws)
        /\ UNCHANGED <<attempt, node, task>>
     \/ /\ driver[p].aborted /\ j.repairs = 0    \* still waiting for a slot
        /\ JobOver(p, TRUE)
        /\ UNCHANGED <<attempt, node, task>>
  /\ UNCHANGED <<run, request, sources, command, user, trouble>>

At(a, at) == task[a] = at
Becomes(a, at) == task' = [task EXCEPT ![a] = at]

(* beforeAssembly(): the child exists and is bound to its attempt.             *)
Assemble(a) ==
  /\ At(a, "spawned")
  /\ Authority(a)
  /\ attempt' = [attempt EXCEPT ![a].status = "started", ![a].child = TRUE]
  /\ Becomes(a, "idle")
  /\ UNCHANGED <<run, node, request, sources, queued, driver, command, user, trouble>>

(* reserveRequest() before the stream, settleRequest() in its finally.         *)
SendRequest(a) ==
  /\ At(a, "idle")
  /\ Authority(a)
  /\ ~NoRequestBudget
  /\ run' = [run EXCEPT !.reserved = @ + Estimate]
  /\ request' = Append(request, [attempt |-> a, status |-> "reserved"])
  /\ Becomes(a, "streaming")
  /\ UNCHANGED <<node, attempt, sources, queued, driver, command, user, trouble>>
StreamEnds(a) ==
  /\ At(a, "streaming")
  /\ \E finished, measured \in BOOLEAN :
       /\ SettleRequest(Max(RequestsOf(a)), finished, measured)
       /\ Becomes(a, IF finished THEN "idle" ELSE "broken")
  /\ UNCHANGED <<node, attempt, sources, queued, driver, command, user, trouble>>

(* The child's turn ends: its Session log says so whatever becomes of the      *)
(* result.                                                                     *)
ChildCompletes(a) ==
  /\ At(a, "idle") /\ RequestsOf(a) # {}
  /\ attempt' = [attempt EXCEPT ![a].logged = TRUE]
  /\ Becomes(a, "returned")
  /\ UNCHANGED <<run, node, request, sources, queued, driver, command, user, trouble>>

(* The result of the child is parsed and its sources are compared; whatever    *)
(* follows is a transaction under authority.  A source that changes between    *)
(* the comparison and the transaction counts as changed after it.              *)
Uses(n) == IF n = Root THEN Nodes ELSE {n}
Outdated(a) == sources \intersect Uses(attempt[a].node)

(* A malformed reply is followed by one repair, an attempt of its own.         *)
Repair(a) ==
  LET t == attempt[a] IN
  /\ At(a, "returned")
  /\ Authority(a)
  /\ t.repairs = 0
  /\ attempt' = [attempt EXCEPT ![a].status = "failed"]
  /\ node' = [node EXCEPT ![t.node].active = 0]
  /\ queued' = [queued EXCEPT ![t.proc][t.node] =
       [rev |-> t.rev, requirement |-> t.requirement, epoch |-> t.epoch, repairs |-> 1]]
  /\ Becomes(a, "over")
  /\ UNCHANGED <<run, request, sources, driver, command, user, trouble>>

(* acceptDeepReply(): the node stays open (another role is next) or is settled.*)
Replied(a, outcome) ==
  [node EXCEPT ![attempt[a].node] =
     [status |-> outcome, rev |-> @.rev, active |-> 0,
      for |-> IF outcome = "accepted" THEN attempt[a].requirement ELSE 0]]
AcceptReply(a) ==
  /\ At(a, "returned")
  /\ Authority(a)
  /\ Outdated(a) = {}
  /\ \E outcome \in Outcomes : node' = Replied(a, outcome)
  /\ attempt' = [attempt EXCEPT ![a].status = "completed"]
  /\ Becomes(a, "over")
  /\ JobOver(attempt[a].proc, FALSE)
  /\ UNCHANGED <<run, request, sources, queued, command, user, trouble>>
RefuseReply(a) ==
  /\ At(a, "returned")
  /\ Authority(a)
  /\ Outdated(a) # {}
  /\ node' = Withdrawn(Outdated(a))
  /\ sources' = Refreshed(Outdated(a))
  /\ attempt' = [attempt EXCEPT ![a].status = "failed"]
  /\ Becomes(a, "over")
  /\ JobOver(attempt[a].proc, FALSE)
  /\ UNCHANGED <<run, request, queued, command, user, trouble>>

(* The catch of #runJob(): the child cannot be spawned, stops, is disposed of  *)
(* by the abort or has no more authority or tokens; or its reply holds a       *)
(* secret, is malformed again or fails its checks.  A request of unknown       *)
(* outcome, or a model that is not available, pauses the run; any other        *)
(* failure leaves the node unresolved.                                         *)
JobBreaks(a) ==
  LET t == attempt[a]
      unknown == \E r \in RequestsOf(a) : request[r].status \in Held
  IN
  /\ task[a] \in {"spawned", "idle", "returned", "broken"}
  /\ \/ /\ Owns(t.proc, t.epoch) /\ node[t.node].active = a
        /\ attempt' = [attempt EXCEPT ![a].status = IF unknown THEN "uncertain" ELSE "failed"]
        /\ \/ /\ run' = [run EXCEPT !.phase = "paused"]
              /\ node' = [node EXCEPT ![t.node].active = 0]
           \/ /\ ~unknown
              /\ node' = [node EXCEPT ![t.node].active = 0, ![t.node].status = "unresolved"]
              /\ run' = run
     \/ /\ ~(Owns(t.proc, t.epoch) /\ node[t.node].active = a)
        /\ UNCHANGED <<run, node, attempt>>
  /\ Becomes(a, "over")
  /\ JobOver(t.proc, FALSE)
  /\ UNCHANGED <<request, sources, queued, command, user, trouble>>

----------------------------------------------------------------------------
(* Commands of the user in process p, one at a time.                           *)

Commands(p, pc) == command[p].pc = pc
Then(p, pc) == command' = [command EXCEPT ![p].pc = pc]
Done(p) == command' = [command EXCEPT ![p] = Idle]
Asks(p) == Commands(p, "none") /\ user < MaxUser /\ user' = user + 1

(* pause(): authority is revoked before the driver of this process is aborted. *)
PauseFor(p, goal) ==
  \/ /\ ~PauseIsVoid(0) /\ OwnedByOther(p)
     /\ Done(p)
     /\ UNCHANGED <<stored, driver>>
  \/ /\ \/ ~PauseIsVoid(0) /\ ~OwnedByOther(p) /\ PauseState
        \/ PauseIsVoid(0) /\ UNCHANGED stored
     /\ command' = [command EXCEPT ![p] = [Idle EXCEPT !.pc = "waiting", !.goal = goal]]
     /\ driver' = [driver EXCEPT ![p].aborted = (driver[p].pc # "off")]

(* cancel(); pause() of dispose() and of kick() that finds a problem.          *)
Stops(p) ==
  /\ Asks(p)
  /\ PauseFor(p, "cancelled") \/ PauseFor(p, "paused")
  /\ UNCHANGED <<sources, task, queued, trouble>>

(* #saveAdditional(): the input is kept whatever the run is doing, then the    *)
(* run is paused and resumed.                                                  *)
SaveInput(p) ==
  /\ Asks(p)
  /\ run' = [run EXCEPT !.inputs = @ \union {user'}]
  /\ Then(p, "pausing")
  /\ UNCHANGED <<node, attempt, request, sources, task, queued, driver, trouble>>
Pause(p) ==
  /\ \/ Commands(p, "pausing") /\ PauseFor(p, "resuming")
     \/ Commands(p, "giving up") /\ PauseFor(p, "partial")
     \/ Commands(p, "asking") /\ PauseFor(p, "cancelled")   \* a new task instead
  /\ UNCHANGED <<sources, task, queued, user, trouble>>

(* The driver has ended.  cancel() and completePartial() go on if nobody else  *)
(* took the run; #resume() looks up the children whose Session logs are        *)
(* complete.                                                                   *)
Looks(p) ==
  IF run.phase \in Terminal \/ ~Drives(p, "off") \/ OwnedNow THEN Done(p)
  ELSE command' = [command EXCEPT ![p].pc = "reconciling",
         ![p].left = {a \in Attempts : /\ attempt[a].status \in Unknown
                                       /\ attempt[a].child /\ attempt[a].logged}]
Paused(p) ==
  /\ Commands(p, "waiting") /\ Drives(p, "off")
  /\ \/ /\ command[p].goal \in {"cancelled", "partial"}
        /\ IF run.phase = "paused" /\ run.owner = None
           THEN command' = [command EXCEPT ![p].pc = "finishing", ![p].seen = Sight, ![p].changed = sources]
           ELSE Done(p)
     \/ command[p].goal = "resuming" /\ Looks(p)
     \/ command[p].goal = "paused" /\ Done(p)
  /\ UNCHANGED <<stored, sources, task, queued, driver, user, trouble>>
Resume(p) ==
  /\ Asks(p)
  /\ Looks(p)
  /\ UNCHANGED <<stored, sources, task, queued, driver, trouble>>

FinishForUser(p) ==
  /\ Commands(p, "finishing")
  /\ \/ /\ run.phase \notin Terminal /\ MayFinish(command[p].seen)
        /\ Finish(command[p].goal, command[p].changed)
     \/ /\ run.phase \in Terminal \/ ~MayFinish(command[p].seen)
        /\ UNCHANGED <<stored, sources>>
  /\ Done(p)
  /\ UNCHANGED <<task, queued, driver, user, trouble>>

(* reconcile() of one attempt: the reply of the log is accepted if it is still *)
(* about this node and requirement, and what its requests held is spent.       *)
Reconcilable(p, a) ==
  LET t == attempt[a] IN
  /\ a \in Attempts
  /\ t.status \in Unknown
  /\ Drives(p, "off")
  /\ run.phase \notin Terminal /\ ~OwnedNow
  /\ run.requirement = t.requirement /\ node[t.node].rev = t.rev
  /\ Outdated(a) = {}
HeldBy(a) == {r \in RequestsOf(a) : request[r].status \in Held}
Reconcile(p) ==
  /\ Commands(p, "reconciling")
  /\ \E a \in command[p].left :
       /\ command' = [command EXCEPT ![p].left = @ \ {a}]
       /\ \/ /\ Reconcilable(p, a)
             /\ \E outcome \in Outcomes : node' = Replied(a, outcome)
             /\ attempt' = [attempt EXCEPT ![a].status = "completed"]
             /\ request' = [r \in DOMAIN request |->
                  IF r \in HeldBy(a) THEN [request[r] EXCEPT !.status = "settled"] ELSE request[r]]
             /\ LET spent == Estimate * Cardinality(HeldBy(a)) IN
                run' = [Released("paused") EXCEPT !.reserved = @ - spent, !.tokens = @ + spent]
          \/ UNCHANGED stored    \* refused
  /\ UNCHANGED <<sources, task, queued, driver, user, trouble>>

(* What the user is asked about is what is read here.  An attempt of unknown   *)
(* outcome needs consent, unless the budget is used up.  Both reads are made   *)
(* with the transaction before them: start() and Abandon look again.           *)
Inspected ==
  IF \A a \in Attempts : attempt[a].status \notin Unknown THEN "starting"
  ELSE IF NoJobBudget THEN "giving up"
  ELSE "consenting"
ReadInputs(p) ==
  /\ Commands(p, "reconciling") /\ command[p].left = {}
  /\ command' = [command EXCEPT ![p] =
       IF run.inputs = {} THEN [Idle EXCEPT !.pc = Inspected]
       ELSE [Idle EXCEPT !.pc = "asking", !.inputs = run.inputs, !.seen = Sight]]
  /\ UNCHANGED <<stored, sources, task, queued, driver, user, trouble>>

MayApply(p) ==
  /\ run.phase \notin Terminal /\ ~OwnedNow
  /\ run.requirement = command[p].seen.requirement
BugAddConstraint(p) ==
  /\ Commands(p, "asking") /\ MayApply(p)
  /\ run' = [run EXCEPT !.inputs = @ \ command[p].inputs, !.requirement = @ + 1]
  /\ command' = [command EXCEPT ![p] = [Idle EXCEPT !.pc = Inspected]]
  /\ UNCHANGED <<node, attempt, request, sources, task, queued, driver, user, trouble>>
AddConstraint(p) ==
  /\ Commands(p, "asking") /\ MayApply(p)
  /\ run' = [run EXCEPT !.inputs = @ \ command[p].inputs, !.requirement = @ + 1]
  /\ node' = Withdrawn(Nodes)
  /\ sources' = Refreshed(Nodes)
  /\ command' = [command EXCEPT ![p] = [Idle EXCEPT !.pc = Inspected]]
  /\ UNCHANGED <<attempt, request, task, queued, driver, user, trouble>>
KeepWork(p) ==
  /\ Commands(p, "asking") /\ MayApply(p)
  /\ run' = [run EXCEPT !.inputs = @ \ command[p].inputs]
  /\ command' = [command EXCEPT ![p] = [Idle EXCEPT !.pc = Inspected]]
  /\ UNCHANGED <<node, attempt, request, sources, task, queued, driver, user, trouble>>
(* No choice is made, or the answer comes too late.                            *)
LeaveInput(p) ==
  /\ Commands(p, "asking")
  /\ Done(p)
  /\ UNCHANGED <<stored, sources, task, queued, driver, user, trouble>>

(* Attempts of unknown outcome are tried again only with the user's consent.   *)
(* The user may also leave the question, or look at the logs once more.        *)
Abandon(p) ==
  /\ Commands(p, "consenting")
  /\ \/ /\ ~OwnedNow
        /\ attempt' = [a \in Attempts |->
             IF attempt[a].status \in Unknown THEN [attempt[a] EXCEPT !.status = "abandoned"]
             ELSE attempt[a]]
        /\ node' = Inactive
        /\ Then(p, "starting")
     \/ /\ Done(p)      \* owned by another, or no consent
        /\ UNCHANGED <<node, attempt>>
  /\ UNCHANGED <<run, request, sources, task, queued, driver, user, trouble>>

(* start(), or a start left to the end of the parent's turn.                   *)
Start(p) ==
  /\ Commands(p, "starting")
  /\ Done(p)
  /\ \/ /\ IF Drives(p, "off") THEN Go(p, "claim") ELSE UNCHANGED driver
        /\ UNCHANGED run
     \/ /\ IF run.phase \in Terminal \/ OwnedNow THEN UNCHANGED run
           ELSE run' = [run EXCEPT !.phase = "ready"]
        /\ UNCHANGED driver
  /\ UNCHANGED <<node, attempt, request, sources, task, queued, user, trouble>>

----------------------------------------------------------------------------
(* What happens to the processes and files.                                    *)

Happens == trouble < MaxTrouble /\ trouble' = trouble + 1

(* The heartbeat comes too late.                                               *)
Lapse ==
  /\ Happens /\ run.lease
  /\ run' = [run EXCEPT !.lease = FALSE]
  /\ UNCHANGED <<node, attempt, request, sources, task, queued, driver, command, user>>
TimeIsUp ==
  /\ Happens /\ run.phase = "running" /\ ~run.timeUp
  /\ run' = [run EXCEPT !.timeUp = TRUE]
  /\ UNCHANGED <<node, attempt, request, sources, task, queued, driver, command, user>>

(* A file that an artifact of the node quotes is written.                      *)
SourceChanges(n) ==
  /\ Happens /\ n \notin sources
  /\ \E a \in Attempts : attempt[a].node = n /\ attempt[a].rev = node[n].rev
  /\ sources' = sources \union {n}
  /\ UNCHANGED <<stored, task, queued, driver, command, user>>

(* A process ends; what takes its place is another owner.                      *)
Crash(p) ==
  /\ Happens
  /\ driver[p].pc # "off" \/ command[p].pc # "none"
  /\ driver' = [driver EXCEPT ![p] = Off]
  /\ command' = [command EXCEPT ![p] = Idle]
  /\ queued' = [queued EXCEPT ![p] = [n \in Nodes |-> NoJob]]
  /\ task' = [a \in Attempts |-> IF attempt[a].proc = p THEN "over" ELSE task[a]]
  /\ run' = [run EXCEPT !.owner = IF @ = p THEN Gone ELSE @]
  /\ UNCHANGED <<node, attempt, request, sources, user>>

DriverStep(p) ==
  \/ Claim(p) \/ Loop(p) \/ Survey(p) \/ Withdraw(p)
  \/ Decide(p) \/ FinishRun(p) \/ Stop(p) \/ Drained(p) \/ Failing(p)
JobStep(a) ==
  \/ Assemble(a) \/ SendRequest(a) \/ StreamEnds(a) \/ ChildCompletes(a)
  \/ Repair(a) \/ AcceptReply(a) \/ RefuseReply(a) \/ JobBreaks(a)
CommandStep(p) ==
  \/ Pause(p) \/ Paused(p) \/ FinishForUser(p) \/ Reconcile(p) \/ ReadInputs(p)
  \/ AddConstraint(p) \/ KeepWork(p) \/ LeaveInput(p) \/ Abandon(p) \/ Start(p)

Next ==
  \/ \E p \in Procs : \/ DriverStep(p) \/ CommandStep(p)
                      \/ Deadline(p) \/ Kick(p)
                      \/ Stops(p) \/ SaveInput(p) \/ Resume(p) \/ Crash(p)
                      \/ \E n \in Nodes : Reserve(p, n)
  \/ \E a \in Attempts : JobStep(a)
  \/ Lapse \/ TimeIsUp
  \/ \E n \in Nodes : SourceChanges(n)

Spec == Init /\ [][Next]_vars

----------------------------------------------------------------------------
Least == Min({Estimate, Actual})
Most == Max({Estimate, Actual})

(* What is reserved is what requests of unknown cost hold, and every settled   *)
(* request was counted once: takeover, late settlements and recovered results  *)
(* neither free nor lose tokens (settleRequest(), reconcile()).                *)
UsageIsConserved ==
  LET count(S) == Cardinality({r \in DOMAIN request : request[r].status \in S}) IN
  /\ run.reserved = Estimate * count(Held)
  /\ run.tokens \in (Least * count({"settled"}))..(Most * count({"settled"}))

(* A node is not tried again while an earlier attempt at the same revision of  *)
(* it may still be answered or charged: the user consents first, or its result *)
(* is recovered (claim() L138, #pauseState(), #runJob() catch).                *)
UnknownIsNotResent ==
  [][ \A a \in DOMAIN attempt' \ DOMAIN attempt : \A b \in Attempts :
        /\ attempt[b].node = attempt'[a].node
        /\ attempt[b].rev = attempt'[a].rev
        => attempt[b].status \notin Unknown ]_vars

(* What counts as accepted was accepted under all the constraints the user has *)
(* added, also a result that was recovered or came late (#resume() L321,       *)
(* reconcile() L66, assertDeepAuthority()).                                    *)
AcceptedMeetsAllConstraints ==
  \A n \in Nodes : node[n].status = "accepted" => node[n].for = run.requirement
=============================================================================
