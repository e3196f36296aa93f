---------------------------- MODULE TaskAuthority ----------------------------
(* Who may act for a task, and what its stop, its completion and its        *)
(* handoff promise (src/dsh: task-state.ts, task-state-host.ts): a managed  *)
(* call acts under a lease of the task (owned-execution.ts for commands and *)
(* files, native-task-authority.ts for child agents); a stop is a durable   *)
(* request, confirmed when the host has seen all of this work end.  One     *)
(* task, one host process, two sessions: the first one and the continuation *)
(* it may be handed to.  revision and generation move together: one number. *)
EXTENDS Naturals, FiniteSets

CONSTANTS
  Execs, Files, Children,  \* managed calls: commands, file operations, child agents
  Source, Target,          \* the session the task starts in, and its continuation
  MaxCalls, MaxGeneration, MaxTurns, \* bounds: calls made, operations on the task, turns
  Disturbances             \* bound: crashes, failures, refusals of the user

ASSUME AuthorityAssumption ==
  /\ Source # Target
  /\ Execs \cap Files = {} /\ Execs \cap Children = {} /\ Files \cap Children = {}
  /\ MaxCalls \in Nat /\ MaxGeneration \in Nat /\ MaxTurns \in Nat /\ Disturbances \in Nat

Calls == Execs \cup Files \cup Children
Owned == Execs \cup Files
Sessions == {Source, Target}
Stops == {"finish", "handoff"}   \* finishStop() and handoff()
Off == [at |-> "off", generation |-> 0, waits |-> {}]
Without(a) == [at |-> a, generation |-> 0, owner |-> Source, aborted |-> FALSE]  \* no lease: not begun, or over

VARIABLES
  task,     \* the row of the task: state, run, pending, generation, owner
  receipt,  \* call -> its row in dsh_owned_operations
  call,     \* call -> its progress in memory, with its lease
  agent,    \* session -> closed, idle or running
  idleSeen, \* sessions whose idle or created event is still to be handled
  stop,     \* the two drivers of a stop
  turns, disturbed  \* counters of the bounds

vars == <<task, receipt, call, agent, idleSeen, stop, turns, disturbed>>
native == <<agent, idleSeen, turns>>

Init ==
  /\ task = [state |-> "Working", run |-> "active", pending |-> "none", generation |-> 0, owner |-> Source]
  /\ receipt = [c \in Calls |-> "none"]
  /\ call = [c \in Calls |-> Without("idle")]
  /\ agent = [s \in Sessions |-> IF s = Source THEN "running" ELSE "idle"] /\ idleSeen = {}
  /\ stop = [k \in Stops |-> Off] /\ turns = 0 /\ disturbed = 0

-----------------------------------------------------------------------------
At(c, a) == call[c].at = a
Moves(c, a) == call' = [call EXCEPT ![c].at = a]
Disturb == disturbed < Disturbances /\ disturbed' = disturbed + 1
Known(c) == call[c].at \notin {"idle", "leased", "done"}
Abort(cs) == call' = [c \in Calls |-> IF c \in cs /\ ~At(c, "done") THEN [call[c] EXCEPT !.aborted = TRUE] ELSE call[c]]
BugCanExecute == task.state = "Working" /\ task.run = "active"
CanExecute == task.state = "Working" /\ task.pending = "none" /\ task.run = "active"
Valid(c) == CanExecute /\ call[c].generation = task.generation /\ call[c].owner = task.owner

(* A tool call of the owner's turn captures a lease.                        *)
Capture(c) ==
  /\ At(c, "idle") /\ CanExecute /\ agent[task.owner] = "running"
  /\ Cardinality({d \in Calls : ~At(d, "idle")}) < MaxCalls
  /\ call' = [call EXCEPT ![c] = [at |-> "leased", generation |-> task.generation, owner |-> task.owner, aborted |-> FALSE]]
  /\ UNCHANGED <<task, receipt, native, stop, disturbed>>

(* The host now knows the call: a stop can abort it.                        *)
Register(c) ==
  /\ At(c, "leased") /\ Moves(c, "registered")
  /\ UNCHANGED <<task, receipt, native, stop, disturbed>>

(* Its started row.  The row of a child is written only under a valid lease; *)
(* a child that is refused keeps its proof.                                 *)
Save(c) ==
  /\ At(c, "registered")
  /\ IF c \in Children /\ ~Valid(c)
       THEN Moves(c, "failed") /\ UNCHANGED receipt
       ELSE Moves(c, "saved") /\ receipt' = [receipt EXCEPT ![c] = "started"]
  /\ UNCHANGED <<task, native, stop, disturbed>>

(* The last check before the effect of a command or of a file operation.    *)
Clear(c) ==
  /\ c \in Owned /\ At(c, "saved") /\ ~call[c].aborted /\ Valid(c)
  /\ Moves(c, "cleared")
  /\ UNCHANGED <<task, receipt, native, stop, disturbed>>

(* The call is over; its row says whether that is proved.                   *)
Over(c, r) == call' = [call EXCEPT ![c] = Without("done")] /\ receipt' = [receipt EXCEPT ![c] = r]

(* Nothing was launched: an aborted command is proof of that, any other     *)
(* refusal leaves an unknown receipt.                                       *)
Refuse(c) ==
  /\ c \in Owned /\ At(c, "saved")
  /\ IF call[c].aborted \/ ~Valid(c) THEN UNCHANGED disturbed ELSE Disturb
  /\ Over(c, IF c \in Execs /\ call[c].aborted THEN "completed" ELSE "unproven")
  /\ UNCHANGED <<task, native, stop>>

(* The process starts, unless the call was aborted after its check; a file  *)
(* is renamed; the backend activates a child, without another check.        *)
Launch(c) ==
  /\ At(c, IF c \in Children THEN "saved" ELSE "cleared")
  /\ IF c \in Execs /\ call[c].aborted THEN Over(c, "completed") ELSE Moves(c, "running") /\ UNCHANGED receipt
  /\ UNCHANGED <<task, native, stop, disturbed>>

(* The backend fails to activate the child.                                 *)
LaunchFails(c) ==
  /\ c \in Children /\ At(c, "saved") /\ Disturb /\ Moves(c, "failed")
  /\ UNCHANGED <<task, receipt, native, stop>>

(* The end of the process with its report, of the file operation, of the    *)
(* child's work; or no report, a file operation that fails.                 *)
Ends(c) ==
  /\ At(c, "running") /\ Over(c, "completed")
  /\ UNCHANGED <<task, native, stop, disturbed>>

EndsUnproven(c) ==
  /\ c \in Owned /\ At(c, "running") /\ Disturb /\ Over(c, "unproven")
  /\ UNCHANGED <<task, native, stop>>

-----------------------------------------------------------------------------
(* Turns of the session that owns the task: another one gets no lease.      *)
TurnStarts(s) ==
  /\ agent[s] = "idle" /\ s = task.owner /\ turns < MaxTurns /\ turns' = turns + 1
  /\ agent' = [agent EXCEPT ![s] = "running"]
  /\ UNCHANGED <<task, receipt, call, idleSeen, stop, disturbed>>

(* A turn waits for its calls, except for background commands once they are *)
(* recorded and children once they run.                                     *)
Foreground(c) ==
  \/ call[c].at \in {"leased", "registered"}
  \/ c \in Children /\ At(c, "saved")
  \/ c \in Files /\ call[c].at \notin {"idle", "done"}
TurnEnds(s) ==
  /\ agent[s] = "running" /\ \A c \in Calls : call[c].owner = s => ~Foreground(c)
  /\ agent' = [agent EXCEPT ![s] = "idle"] /\ idleSeen' = idleSeen \cup {s}
  /\ UNCHANGED <<task, receipt, call, stop, turns, disturbed>>

(* The host process dies; its supervisors end the processes they started.   *)
Crash ==
  /\ Disturb /\ \E s \in Sessions : agent[s] # "closed"
  /\ agent' = [s \in Sessions |-> "closed"] /\ idleSeen' = {} /\ stop' = [k \in Stops |-> Off]
  /\ call' = [c \in Calls |-> Without(IF At(c, "idle") THEN "idle" ELSE "done")]
  /\ UNCHANGED <<task, receipt, turns>>

Reopen ==
  /\ \A s \in Sessions : agent[s] = "closed"
  /\ agent' = [s \in Sessions |-> "idle"] /\ idleSeen' = Sessions
  /\ UNCHANGED <<task, receipt, call, stop, turns, disturbed>>

-----------------------------------------------------------------------------
Idles(k) == stop[k].at \in {"off", "failed", "overtaken"}
Leaves(k) == stop' = [stop EXCEPT ![k] = Off]
Drives(k, a, w) == stop' = [stop EXCEPT ![k].at = a, ![k].waits = w]
Begins(k, g) == [stop EXCEPT ![k] = [at |-> "children", generation |-> g, waits |-> {}]]

(* Every write to the row makes a new generation.                           *)
Update(s, r, p, o) ==
  task' = [state |-> s, run |-> r, pending |-> p, generation |-> task.generation + 1, owner |-> o]
Becomes(s, r) == Update(s, r, task.pending, task.owner)

(* transitionTask(), for what needs no stop.                                *)
Operate ==
  /\ agent[task.owner] # "closed" /\ task.pending = "none" /\ task.generation < MaxGeneration
  /\ \/ task.state # "Working" /\ Becomes("Working", "active")
     \/ task.state = "Pending" /\ Becomes("Ignore", task.run)
  /\ UNCHANGED <<receipt, call, native, stop, disturbed>>

BugComplete ==
  /\ agent[task.owner] # "closed" /\ task.generation < MaxGeneration
  /\ CanExecute /\ \A c \in Calls : ~At(c, "running")
  /\ Becomes("Done", task.run)
  /\ UNCHANGED <<receipt, call, native, stop, disturbed>>

(* complete is refused while a row says started.                            *)
Complete ==
  /\ agent[task.owner] # "closed" /\ task.generation < MaxGeneration
  /\ CanExecute /\ \A c \in Calls : receipt[c] # "started"
  /\ Becomes("Done", task.run)
  /\ UNCHANGED <<receipt, call, native, stop, disturbed>>

(* wait or ignore of a Working task: the durable request, the cancellation  *)
(* of the turn when the user asked, and the driver of the stop.             *)
RequestStop ==
  /\ agent[task.owner] # "closed" /\ CanExecute /\ task.generation < MaxGeneration
  /\ \E p \in {"wait", "ignore"} : Update(task.state, task.run, p, task.owner)
  /\ \E explicit \in BOOLEAN :
       IF explicit THEN Abort({c \in Owned : ~At(c, "idle")}) ELSE UNCHANGED call
  /\ stop' = IF Idles("finish") THEN Begins("finish", task.generation + 1) ELSE stop
  /\ UNCHANGED <<receipt, native, disturbed>>

(* The run ends under the authority of its turn, never while a stop is      *)
(* pending; what it left in the background goes on.                         *)
EndRun ==
  /\ CanExecute /\ task.generation < MaxGeneration /\ Becomes("Pending", "ended")
  /\ UNCHANGED <<receipt, call, native, stop, disturbed>>

(* The idle and created events of an agent drive a pending stop again,      *)
(* unless a driver is at work.                                              *)
Retry(s) ==
  /\ s \in idleSeen /\ idleSeen' = idleSeen \ {s}
  /\ stop' = IF task.pending # "none" /\ task.owner = s /\ Idles("finish")
               THEN Begins("finish", task.generation) ELSE stop
  /\ UNCHANGED <<task, receipt, call, agent, turns, disturbed>>

(* The task moves to the continuation of its session.                       *)
Handoff ==
  /\ Idles("handoff") /\ task.owner = Source /\ task.pending = "none"
  /\ agent[Source] # "closed" /\ agent[Target] # "closed" /\ task.generation < MaxGeneration
  /\ stop' = Begins("handoff", task.generation)
  /\ UNCHANGED <<task, receipt, call, native, disturbed>>

-----------------------------------------------------------------------------
(* stopWork(): children first, then commands and files.  A driver whose     *)
(* task has changed leaves.                                                 *)
Current(k) == stop[k].generation = task.generation

StopChildren(k) ==
  /\ stop[k].at = "children"
  /\ LET cs == {c \in Children : Known(c)} IN
     IF Current(k) THEN Drives(k, "settling", cs) /\ Abort(cs) ELSE Leaves(k) /\ UNCHANGED call
  /\ UNCHANGED <<task, receipt, native, disturbed>>

ChildrenStopped(k) ==
  /\ stop[k].at = "settling" /\ \A c \in stop[k].waits : call[c].at \in {"done", "failed"}
  /\ IF \A c \in Children : receipt[c] # "started" /\ (c \in stop[k].waits => At(c, "done"))
       THEN Drives(k, "owned", {}) ELSE Leaves(k)
  /\ UNCHANGED <<task, receipt, call, native, disturbed>>

BugStopOwned(k) ==
  /\ stop[k].at = "owned"
  /\ IF Current(k) THEN Drives(k, "waiting", {c \in Owned : Known(c) /\ ~At(c, "registered")}) ELSE Leaves(k)
  /\ UNCHANGED <<task, receipt, call, native, disturbed>>

(* A call whose row is still being written is aborted but not waited for.   *)
StopOwned(k) ==
  /\ stop[k].at = "owned"
  /\ LET cs == {c \in Owned : Known(c)} IN
     IF Current(k) THEN Drives(k, "waiting", {c \in cs : ~At(c, "registered")}) /\ Abort(cs)
                   ELSE Leaves(k) /\ UNCHANGED call
  /\ UNCHANGED <<task, receipt, native, disturbed>>

(* What the rows must say: no work started, and every command proved ended. *)
Proven == \A c \in Calls : receipt[c] # "started" /\ (c \in Execs => receipt[c] # "unproven")

(* A driver that overtook a call, and so finds its row started, leaves and  *)
(* waits for another event.  The handoff is committed at once if its        *)
(* session is idle.                                                         *)
Overtook == \E c \in Owned : receipt[c] = "started" /\ ~At(c, "done")
OwnedStopped(k) ==
  /\ stop[k].at = "waiting" /\ \A c \in stop[k].waits : At(c, "done")
  /\ \/ ~Proven /\ Overtook /\ Drives(k, "overtaken", {}) /\ UNCHANGED task
     \/ ~Proven /\ ~Overtook /\ Leaves(k) /\ UNCHANGED task
     \/ Proven /\ k = "finish" /\ Drives(k, "idle", {}) /\ UNCHANGED task
     \/ /\ Proven /\ k = "handoff" /\ Leaves(k)
        /\ IF agent[Source] = "idle" /\ Current(k) /\ task.pending = "none"
             THEN Update(task.state, task.run, "none", Target) ELSE UNCHANGED task
  /\ UNCHANGED <<receipt, call, native, disturbed>>

Checkpoint ==
  /\ stop["finish"].at = "idle" /\ agent[task.owner] = "idle" /\ Drives("finish", "checkpoint", {})
  /\ UNCHANGED <<task, receipt, call, native, disturbed>>

(* The stop is confirmed if the agent is idle still.                        *)
Confirm ==
  /\ stop["finish"].at = "checkpoint" /\ Leaves("finish")
  /\ IF agent[task.owner] = "idle" /\ task.pending # "none"
       THEN Update(IF task.pending = "wait" THEN "Pending" ELSE "Ignore", task.run, "none", task.owner)
       ELSE UNCHANGED task
  /\ UNCHANGED <<receipt, call, native, disturbed>>

(* A database error, a checkpoint that fails: swallowed.                    *)
StopFails(k) ==
  /\ ~Idles(k) /\ Disturb /\ Drives(k, "failed", {})
  /\ UNCHANGED <<task, receipt, call, native>>

-----------------------------------------------------------------------------
HostStep(c) == Register(c) \/ Save(c) \/ Clear(c) \/ Refuse(c) \/ Launch(c)
CallStep(c) == Capture(c) \/ HostStep(c) \/ LaunchFails(c) \/ Ends(c) \/ EndsUnproven(c)
StopStep(k) == StopChildren(k) \/ ChildrenStopped(k) \/ StopOwned(k) \/ OwnedStopped(k)
SessionStep(s) == TurnStarts(s) \/ TurnEnds(s) \/ Retry(s)

Next ==
  \/ \E c \in Calls : CallStep(c)
  \/ \E s \in Sessions : SessionStep(s)
  \/ \E k \in Stops : StopStep(k) \/ StopFails(k)
  \/ Crash \/ Reopen \/ Operate \/ Complete \/ RequestStop \/ EndRun \/ Handoff \/ Checkpoint \/ Confirm

(* The host's own steps are taken, an aborted call ends, and so does a turn. *)
(* A call left alone may run for ever; the user may do nothing.             *)
Fairness ==
  /\ \A c \in Calls : WF_vars(HostStep(c)) /\ WF_vars(call[c].aborted /\ Ends(c))
  /\ \A s \in Sessions : WF_vars(TurnEnds(s)) /\ WF_vars(Retry(s))
  /\ \A k \in Stops : WF_vars(StopStep(k))
  /\ WF_vars(Checkpoint) /\ WF_vars(Confirm)

Spec == Init /\ [][Next]_vars
FairSpec == Spec /\ Fairness

-----------------------------------------------------------------------------
Live(c) ==
  \/ At(c, "running")
  \/ At(c, "cleared") /\ ~(c \in Execs /\ call[c].aborted)
  \/ At(c, "saved") /\ c \in Children

(* A task is not Done, and not in another session, while a call made for it  *)
(* is at work or about to be: complete looks at the rows only, the handoff   *)
(* stops a task whose leases stay valid while it does.                       *)
QuietEnd == \A c \in Calls : Live(c) => task.state # "Done" /\ call[c].owner = task.owner

(* When the marker of a pending stop goes, nothing is at work any more, and  *)
(* no call under way can still start anything (docs/dsh-plugin.md).          *)
StopMeansStopped ==
  [][task.pending # "none" /\ task'.pending = "none" => \A c \in Calls : ~Live(c)']_vars

(* What keeps a stop from ever being confirmed without a restart or at all:  *)
(* a command whose end has no proof, a child that did not come to life, a    *)
(* row left by a crash, a swallowed failure, a closed session; and, when no  *)
(* event of the agent follows, a call that was overtaken (with a second      *)
(* command that keeps the driver waiting, the turn's own end can come first).*)
Obstructed ==
  \/ \E c \in Execs : receipt[c] = "unproven"
  \/ \E c \in Calls : At(c, "failed") \/ (At(c, "done") /\ receipt[c] = "started")
  \/ stop["finish"].at \in {"failed", "overtaken"} \/ agent[task.owner] = "closed"

(* Every other stop is confirmed, whatever the task was doing.               *)
StopIsConfirmed == task.pending # "none" ~> task.pending = "none" \/ Obstructed
=============================================================================
