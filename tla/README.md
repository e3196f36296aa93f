# Verification of kiokuko-dsh

TLA+ models of the parts of kiokuko-dsh in which the order of events decides
correctness, TLC configurations that check them on small instances, and TLAPS
proofs of the main invariants of the turn scheduler, the operation journal, the
write queue, the shared runtime, the embedding jobs, the turn boundary, the
database setup, the authority of tasks and the runs of deep planning. Every definition is translated
from the TypeScript source (`src/` below is the implementation directory of the
repository); `PROJECT.json` maps each one to its lines.

Contents: [the system](#the-system), [plan](#plan), [modules](#modules),
[runs](#runs-and-bounds), [fairness](#fairness), [proofs](#proofs),
[findings](#findings), [limits](#what-is-not-covered).

## The system

kiokuko-dsh runs inside one host process (DSH) and adds its own agent harness,
memory, task control and a Lisp evaluator to it. All of it is single-threaded
JavaScript over one SQLite connection: code between two `await`s is atomic,
everything else interleaves. Several host processes can follow each other on
the same database, so persisted state outlives every in-memory flag.

| component | state it keeps | operations | what makes it correct |
| --- | --- | --- | --- |
| Turn scheduler `dsh/harness/factory.ts`, `inbox.ts` | two input queues, flags `wake` `ready` `disposed` `maintenance`, one driver promise, one abort controller, the claim of the step | send/followup/steer/inject, cancel, runMaintenance, release, dispose; the driver `drain()` | no stranded wake; one activity at a time; messages taken once, in order, never after an abort; a cancelled turn is recorded as one; calls answered; budget kept |
| Managed operation journal `dsh/managed-operation-*.ts` | scopes, operations, transitions, snapshots (SQLite) | createScope, prepare, claim, transition, reconcile, abandon, seal, snapshot, prune, recover | effects written ahead and dispatched at most once; what is final stays; a complete snapshot stays true |
| Owned calls `dsh/owned-execution.ts` | receipts, calls in progress | execute, replay, read a result | a replay never executes; a late receipt lands on the right record |
| Lisp manager `dsh/lisp` | sessions claimed by a host, evaluations, worker processes | request, bridge calls, claimSession, abandon | a dead host's open operations become unknown, no others |
| Write queue `dsh/write-queue.ts` | waiting items, one running, drain waiters | enqueue, drain, close | serial, in order, nothing lost, drained means empty |
| Core runtime `dsh/core-runtime.ts` | lazy resources, count of users, closing flags | withDatabase, enqueueWrite, close | no use outside the connection's lifetime; close ends |
| Embedding worker and jobs `embedding/` | timer, drain in progress, jobs with leases and attempts, the active profile | drain, close, claim/finalize/fail, activate; writing and forgetting of entries | late results are refused; no entry is missed; forgotten text stays gone |
| Turn boundary `boundary-worker`, `turn-process`, `loop-guard`, `host-adapter/boundaries` | jobs with an owner nonce, an outbox, the guard's count and claims | claim, process, ask, flush, dispatch, complete, fail; messages of the user | nothing superseded is sent; automatic continuations are bounded; every job ends while drains recur |
| Intake `on-demand-intake`, admission in `core/host`; `task-intake`, `intake-idempotency` | the newest request of a session with its preparation, the open question, proofs of tool calls; the admitted task, admissions under way; idempotency rows | capture, prepare, check and execute a tool call, ask, answer; admit, replace, finish a task | nothing runs, is admitted or is answered for a request that is over; work runs under its own task; nobody waits for nobody |
| Task state and completion `task-state*`, `owned-execution`, `native-task-authority` | the task row with a generation, leases, receipts, drivers of stops | capture, launch, complete, request and confirm a stop, hand off, end a run | nothing acts without authority; a confirmed stop is true; stops are confirmed |
| Memory `memory/`, finalizer, lifecycle memory | entries with revisions, review rows | propose, review, finalize | a finalisation of a changed session is refused |
| Deep planning `deep-thinker/` | the run with owner, lease, epoch and token counts, a graph of nodes, attempts, reservations | claim, drive, run a job, settle a request; pause, cancel, add input, resume, reconcile | an answer rests on accepted answers under all constraints; nothing of unknown outcome is sent again unasked; tokens are counted once |
| Answer review, semantic compaction, model auto | rows per run with a state | start, settle, recover | recovery settles what a crash left |
| Database `dsh/database.ts`, `db/` | the file at the path, its version, backups | inspect, back up, reserve, open, migrate | nothing is migrated without a complete backup; success means migrated |

**How they interact.** The host adapter and the Lisp surface call the agent's
public methods; the agent calls tools, which call owned execution; that runs
through `runManagedOperation`, which writes the journal through
`DshCoreRuntime.withDatabase`. The embedding worker shares the connection and
writes through the queue. Model routing listens to the agent's
`agent/inbox/inserted` event and enters maintenance from inside the append.
The journal's snapshots are read by the guardrail as evidence of completion.
A deep-planning run is driven by whichever host process claims it; its jobs are
native child agents, whose model requests it pays for from its budget.

**What is hard here.** State read before an `await` and used after it (claims
of input, checks before a claim of an operation); wake-ups that race the end of
a driver; aborts that arrive between any two statements separated by an await;
positional removal from a queue others append to; crash of the host between two
transactions; late receipts; shutdown while writers, a worker and an
initialisation are under way. `PROJECT.json` lists the hazards line by line.

## Plan

Order of work; 7, 13 to 15 and the rest of 17 are left.

1. `AgentContract`, `KiokukoHarness`: the scheduler, the core of every turn.
2. `EffectLedger`, `ManagedJournal`: what may be believed about effects.
3. `WriteQueue`, `CoreRuntime` (composes the queue, the worker and close).
4. `KiokukoHarnessProofs`: the scheduler's invariants for every instance.
5. `CoreRuntimeProofs`: order and accounting of the queue, lifetime of the
   connection, for every instance.
6. `ManagedJournalProofs`: the journal's three safety properties and the
   refinement of the ledger.
7. `KiokukoFactory`: publication, setup failure, resume, disposal and
   persistence of agents (factory.ts L339-404), composed with the scheduler.
8. `EmbeddingJobs` and proofs: leases, attempts, generations, invalidation.
9. `TurnBoundary` and proofs: jobs, owner nonces, outbox, flush, loop guard.
10. `DatabaseSetup` and proofs: inspection, backup and migration by processes
    of several versions.
11. `TaskAuthority` and proofs: leases, calls, durable stops, completion, handoff.
12. `DeepGraph`, `DeepRun` and `DeepThinkerProofs`: the problem graph, and the run
    under several processes with attempts of unknown outcome.
13. Intake idempotency, the intake gate, input claims, auxiliary recovery, answer review,
    model-auto routes; `journalProtectedJob` of the Lisp manager in
    `ManagedJournal`; stops of Lisp workers in `TaskAuthority`.
14. Completion of tasks: criteria, observations and `finishCompletion`.
15. The rest of deep planning: quality mode, intents and reports, memory
    requests.
16. Accounting of messages and the refinement of `AgentContract` as theorems.
17. `OnDemandIntake`: from a message of the user to work that may run; then the
    replay of a text and tasks acknowledged as existing. Its proofs are in
    `TurnProofs`, with those of 9.

Abstract specifications: an agent contract and an effect ledger, both refined.

## Modules

**`KiokukoHarness`** models class `KiokukoHarnessAgent`. `pc` names the await
at which the driver is; public methods (`Callers`) are enabled at awaits only
(`AtAwait`), since nothing else runs between them. `nextTurn`, `nextStep` are
the inbox; `wake`, `ready`, `disposed`, `maintenance`, `abort` are the fields
of the same names (`abort`: no controller, a live one, an aborted one);
`claimOrd`, `claimSteer` the locals `ordinary` and `steering`; `reason` the turn
end. `fate` is history: what became of each message. `calls`, `opened`,
`answered` count the tool calls of one message and their records. One action
per await and outcome: `ClaimStep` is the head of the step loop,
`Admission...` the five results of tool resolution, prompt assembly and the
pre-step hooks, `Model...` those of the request, `Tool...` those of
`executeTool`, `Stopping...` those of the hooks, `TurnEnds...` the loop
conditions and `DriverExits` the finally of the driver promise. The model's
text, prompts, requests and headers are abstracted; a failed service call is
the same exception whatever failed.

**`AgentContract`** is what `docs/kiokuko-harness.md` ("Runtime contracts")
promises a caller: one activity at a time, messages taken only in an open turn
nobody stopped, once. `ImplementsContract` is the refinement; `activity` is
computed from `pc` and `maintenance`.

**`ManagedJournal`**: `scopes` and `ops` are the tables; `runner` is where
each call of `runManagedOperation` is between its transactions; `mirror` the
receipts stored but not yet mirrored onto the parent; `live` the scopes known
to the running host; `stale` a restarted host before `claimSession`. `effect`
and `evidence` are history. Each database callback is one immediate SQLite
transaction, so one action; a journal call that throws rolls its transaction
back. Owned calls, Lisp requests and their bridge operations differ in scope
and parent exactly as `createScope` is called for them. **`EffectLedger`** is
the contract: absent, intended, open, closed, and an effect only ever happens
as its record opens.

**`WriteQueue`** is `WriteQueue<T>` with the microtask between `shift()` and
the call of the operation. **`CoreRuntime`** extends it with initialisation,
counted users, parked writes, the embedding worker and the phases of `close()`.

**`EmbeddingJobs`**: `job` and `vector` are the tables `embedding_jobs` and
`entry_embeddings` with a revision and its hash taken as one number (`content`);
`Shell` is what is left of a forgotten entry. `active` and `generation` are the
runtime row, `bound` what each process opened its runtime for, `held` the
claimed jobs of its drain, `elapsed` the leases whose time is over. A drain
claims some rows in one transaction (`Drain`) and settles each one in a later one
(`Finalize`, `Fail`), or leaves (`Leave`: deadline, `close()`, crash). `Activate`
queues every entry again, as `activateEmbeddingProfileInTransaction` does.

**`TurnBoundary`**: `job` and `outbox` are the two tables, `claim` and `guard`
those of the loop guard, `drain[w].at` the await at which the worker of process
`w` is, `flushing` the native flush that a timeout does not stop, `human` a
message of the user between its synchronous abort and its transaction, `run` the
live binding of the session to the run. `kicked` are the processes with a drain in
store: one that `kick()` has begun, one queued in `#tails` behind the drain at work,
or a timer of `#scheduleRetry()`, until it claims a job (`Claim`) or returns
(`FindsNothing`). The user and the host put one there (`Kick`), and so do the drain
itself when it has done a job or set a timer, and a flush that settles. A drain that
was aborted, whose failure could not be written, or which ends in waiting for the
user leaves none, as in the code. All messages carry the same instruction,
the only case in which the guard counts. `given` is history: what the native
agent was given. Rows are produced by SQL triggers on finished turns; `First` is
their kind.

**`DatabaseSetup`**: `files` are the inodes that ever stood at the path (`path`),
with version and rows; a setup's `pc` follows `initializeDatabase()` from await
to await, and its record holds the identity and `data_version` it has seen.
`lock` is SQLite's write lock. `Restore`, `Remove` and `WriteRow` are what other
programs may do to the file.

**`TaskAuthority`**: `task` is the task's row (revision and generation move
together), `receipt` the rows of `dsh_owned_operations`, `call[c].at` the progress
of a managed call with its lease, `agent` the status of the two sessions,
`stop` the two drivers `finishStop()` and `handoff()`, `idleSeen` the idle and
created events not handled yet. `Capture`, `Register`, `Save`, `Clear`, `Launch`
are the awaits a call passes before it acts.

**`DeepGraph`** is `core/graph.ts`: nodes in the order in which they are appended,
each with its status, parent, dependencies and replans; `busy` the nodes with an
attempt. Loops that repeat until nothing changes (`invalidateNodes`,
`advanceGraph`, `replan`) are least closed sets. Whatever a role may reply in
the node's status is a disjunct of `JobEnds`; which one is chosen is open.

**`DeepRun`** is one run with its rows (`run`, `node`, `attempt`, `request`) and
what the processes do around them: `driver[p].pc` follows `#drive()` from await to
await, `task[a]` the `#runJob()` of an attempt through its child agent and
request, `command[p]` a command of the user through `cancel()`, `#saveAdditional()`
and `#resume()`. `queued` are jobs scheduled and not reserved yet; `sources` the
nodes of which an artifact no longer matches its file; `driver.seen`,
`driver.changed` and their twins of `command` what was read before an await and
is used after it. `lease` says whether the owner's time has not run out.
The graph is a root over independent children; a reply leaves its node open,
accepted or unresolved.

**`OnDemandIntake`** composes class `OnDemandIntake` with the admission of a task
in `core/host.ts`, in one native session. `req[g]` is the `Turn` object of a
capture, `cur` the one in `#turns`, `at` the await its capture has reached and
`prep` the call that runs its `preparation`; `asked` is the entry of
`#clarifications`, `reply` an injected answer not captured yet; `active` and `op`
are the maps `active` and `preparingTasks` of the host. `call[c].at` follows a tool
call: `approve` (the waterfall of other plugins and the native approval),
`running` (its body may start), `diagnose` (the awaits of `prepare()` before the
admission), `host`, `look`, `admit`, `task` (those of `prepareCoreTask()`), `join` and `wait` (the two
places where a call awaits another's work), `admitted` and `refused` (the host's
answer, before the intake looks at it), `ask` and `recheck` (the question), `told`.
What a call remembers across an await is in its record: `seen` and `scope` (the
task the host found first, and what the request says of it), `rev` (the revision of the
task in the context of which the question was asked) and `since` (the revision when it
was asked, or when a context was begun to be read). `req[g].rev` is `requestIntentContext`,
`NoContext` while there is none: an interpretation that is rejected, or returns nothing,
leaves the request without one, an operation on the task then does not reach the request
(`TaskStateChanged`), and the answer to its question is compared with nothing
(`SameContext`). A preparation interprets an unresolved request again (`BindsIntent`). A
context may have been read any time since the read began. A request's three signals,
its own, that of its native turn and that of the plugin, are `Unaborted`.

`MC*.tla` only add symmetry sets and values a `.cfg` cannot write. Definitions named `Bug...` are plausible
mistakes at the definition they stand before (a dropped guard, an off-by-one, a
missed reset); each property is known to fail when one of them takes the
place of the real definition.

## Runs and bounds

| run | instance | states | shows |
| --- | --- | --- | --- |
| `MCHarness_safety` | 3 messages, budget 2, 2 calls per message | 179,073 | two invariants, one action property, refinement of the contract, three liveness properties |
| `MCHarness_disposal` | 2 messages | | an aborted turn recorded as completed (finding) |
| `MCManagedJournal_safety` | 2 operations, 2 scopes, receipts `completed` and `unknown`, 1 crash | 393,969 | three safety invariants, refinement of the ledger, no Lisp operation stays dispatching |
| `MCManagedJournal_native` | receipts `completed`, `unknown`, no crash | | the native check is not repeated at the claim (finding) |
| `EmbeddingJobs` | 1 entry, 2 revisions, 2 profiles, 2 processes, 3 leases, 2 attempts | 176,366 | no entry missed, forgotten text stays gone, jobs tried |
| `MCTurnBoundary` | 2 messages, 1 process that restarts, limit 1, 2 attempts, 1 disturbance | 805,208 | the loop guard, nothing superseded is sent, jobs end if drains recur |
| `MCDatabaseSetup` | 2 setups of 2 versions, 3 files, 1 row, 1 crash | 643,110 | backup before migration, complete backup |
| `MCTaskAuthority` | 3 calls, 2 at once, 2 operations, 2 turns, 1 disturbance | 556,961 | stops are true and confirmed, completion and handoff are quiet |
| `MCCoreRuntime` | 4 writes (1 the worker's), 1 user, capacity 2 | 156,042 | queue order and waiters, lifetime, close |
| `MCDeepGraph` | 4 nodes, depth 2, 4 plans, 1 replan per node, 1 disturbance | 48,360 | accepted rests on accepted, nothing is stuck, the graph settles |
| `MCOnDemandIntake` | 2 calls, 2 requests, 2 turns, 1 operation of the user | 2,858,770 | late calls run nothing, admissions and answers are for the request in force, work has its own task, joiners are served |
| `MCDeepRun` | 2 processes, 2 nodes, 2 jobs, 2 tokens, 1 command, 1 disturbance | 2,613,912 | tokens conserved, accepted under all constraints, nothing unknown is resent |

Bounds. Three messages are one claimed as the ordinary input, one claimed as
steering and one arriving during the claim, which is every role a message can
have. `MaxSteps = 2` gives a first and a later step, and exhausts the budget;
two calls give a first and a last one. `StepCap` bounds the tool rounds when no
budget is configured (the code has no bound there) and is idle otherwise. In the journal two
operations and two scopes are a bridge operation with its owned child, or two
operations of one request, the longest chain `parentId` can have in the code;
one crash separates two hosts; a receipt `completed` settles an operation, one
that is `unknown` leaves it open for a host to reconcile, abandon or find settled
by then. Receipts `running` and the rest are not in the run; the journal's theorems
hold for every set of receipts.
A queue capacity of 2 with four writes reaches
the running item, a full queue and a refusal. For the embedding jobs two
processes and three leases give a late worker, the one that took its job over,
and a third claim; two revisions and two profiles an old and a new content under
an old and a new generation. Two continuations with a limit of one are the last
that passes and the first that is blocked. Two versions of the program are the
only interesting order of setups; three files are the first one, a restored one
and a reserved one. For a task, two calls at once are one that a stop waits for
and one that it overtakes. Four nodes of the graph are a root, two children that
depend on each other or not, and one grandchild or replacement. In a run two jobs
are one whose outcome is unknown and the one that would repeat it, two tokens let
exactly two requests be reserved, and two processes are the owner and the one that
takes over; one command is followed through all its questions, one disturbance is
the crash, lapsed lease, changed source or end of time that meets it. Two calls of the intake are one
that prepares and one that joins it, asks, or works; two requests are two turns, or a
turn and changed instructions in it. `Disturbances` bounds crashes, failures and answers
of the user. Every message, operation and
write is used once, which bounds the state space; deadlock is not checked
because all these systems may rightly stop once nobody calls them.

The invariants are stated to be about pairs of events: for example
`WorkHasItsOwnTask` relates a call that starts to the task bound by then, and `CompleteEvidenceIsFinal` a stored snapshot to all later records.

## Fairness

`KiokukoHarness`: weak fairness of the driver and of the end of a maintenance.
The event loop runs scheduled continuations, and the awaited services
(requests, tools, hooks) settle: they receive the abort signal or have
deadlines of their own. Nobody is obliged to call a public method. A disjunction
of outcomes is fair as a whole, so no particular outcome is promised.
`ManagedJournal`: a call in progress goes on, dispatch returns or throws, an
owned call seals its scope, and the next host claims the session (a host that
never comes back leaves the records as they are). `CoreRuntime`:
initialisation, operations, the drain of the worker (which has a deadline) and
the phases of `close()` go on; the worker's timer and callers are under no
obligation. `EmbeddingJobs`: the worker's timer comes back, provider calls settle
(they have deadlines), leases and delays run out. `TurnBoundary`: a process that has
a drain in store goes on with it, a flush settles, leases and delays run out. Nothing
makes the user stop a turn, answer, or open a session: `Kick`, `Answer`, `StaysWaiting`,
`Start` and `Bind` are not fair. After an aborted drain (`boundary-worker.ts:194`), a failure that could
not be written (201) and one that ends in waiting for the user (205) no timer is set, so other
rows may rest for ever. `JobsEnd` is therefore conditional: if some process has a drain in
store again and again, every job ends or the session waits in a question to the user, infinitely
often. Without the condition it does not hold. `DeepGraph`: the driver
advances the graph and starts what can run, and jobs end (they have deadlines). `TaskAuthority`: the host's
steps, the end of an aborted call, of a turn and the drivers of stops; a call
nobody aborts may run for ever. `DatabaseSetup`, `DeepRun` and `OnDemandIntake` have
safety properties only; that a run makes progress is `GraphSettles`, and that a
call of the intake waits for one that moves is the invariant `JoinersAreServed`.

## Proofs

`KiokukoHarnessProofs` proves, for every set of messages, every step budget,
every `StepCap` and `MaxCalls` satisfying `HarnessAssumption` (naturals, the cap
positive):

| theorem | property |
| --- | --- |
| `TypeCorrect` | `TypeOK` (proved only) |
| `WakeIsNeverStranded` | `NoStrandedWake` |
| `MaintenanceIsExclusive` | `MaintenanceExcludesTurns` (proved only) |
| `CancelledTurnIsNeverCompleted` | `CancelledTurnIsRecordedAborted` (proved only) |
| `IdleInputWasParked` | `ParkedInputHasReason` (proved only) |
| `CallsAreAnswered` | `EveryCallIsAnswered` (proved only) |
| `BudgetIsKept` | `StepBudgetHolds` (proved only) |
| `LateAdmissionIsRefused` | `NoAcceptanceAfterAbort` |
| `MessagesAreAccountedFor` | `EveryMessageAccountedFor` |
| `HarnessImplementsContract` | `ImplementsContract` |

The argument. Types come first; the only difficult part is that removing
messages by identity yields a sequence (`WithoutType`): `Without` is written by
positions, and `NthExists` shows that the k-th kept position exists.
`NoStrandedWake` is not inductive: when the driver exits, the wake may be set
by a request whose turn was closing, and the induction needs to know what an
idle agent looks like. `SchedulingInv` adds to the scheduling invariants
that only an admission holds a claim (`EmptyHanded`), that a request left over
by an idle or exiting driver has a wake or a parking reason (`QuietWake`), that
a driver has a signal (`DrivenHasSignal`), and that a disposed agent inside a
step has an aborted one (`GoneIsStopped`). Each action is one case; `start()`, the catch of the driver
and the commit of a claim have lemmas of their own because several actions end
in them. `AccountInv` says that the queues repeat nothing and share nothing and
hold exactly what is pending, and that a claim of a turn nobody stopped is still at
the heads of the queues (`Held`): others only append, so the commit by length takes
what was claimed; `Without` keeps all this since `Rank` is injective on the kept
positions. For the contract each action is mapped to a step of `AgentContract` or a
stutter by what it does to `fate` and `activity`; `SignalInv` ties the contract's
open activity to the abort signal. `CallsInv` bounds open calls by one, `BudgetInv` says a step is left at
the head of the loop. `NoAcceptanceAfterAbort` is an action property: only the
commit after an admission accepts (`AcceptanceIsAdmission`).

`ManagedJournalProofs` proves `EffectsWrittenAhead`, `EvidenceStaysFinal`,
`AncestorsStay` and `JournalImplementsLedger` from `JournalAssumption`, so for every
set of calls, scopes and receipts and any number of crashes. `JournalInv` relates
where a call stands to its record and its effect (`RunnerInv`), says that a record
has its scope (`HomeInv`), that a scope hangs from a call that dispatched, and while
it collects from one that still does (`ParentInv`), that what has to be mirrored has
a parent (`MirrorInv`), and that evidence is of a sealed scope with nothing open
(`EvidenceInv`). Pruning is safe because what it spares is a closed
set above every open or retained record (`ProtectedClosed`), for chains of any
length. Every step is a step of the ledger, or leaves it alone (`CallStep`).

`CoreRuntimeProofs` first proves of `QueueSpec`, for every set of writes and waiters
and every positive capacity (`QueueAssumption`): `PendingWritesAreHeld`
(`PendingIsHeld`), `WaitersAreServed` (`WaitersWaitForWork`), `OrderIsKept`
(`AcceptedInOrder`), `ClosedQueueIsSilent` (`ClosedAndDrainedIsSilent`).
`PendingIsHeld` is not inductive, since a write that waited twice would be
forgotten when it first settles: `QueueInv` adds that a write is in one place
only (`OnePlace`), that one never offered is nowhere (`FreshIsNowhere`) and that
nothing waits next to an idle queue (`NothingWaitsIdle`).

For the runtime it needs in addition that callers are finitely many, that the
worker's writes are writes and that `close()` is the queue's only waiter
(`RuntimeAssumption`). `RuntimeRunsTheQueue` shows that every step of the runtime
is a step of the queue or leaves it alone, so the four theorems hold of `Spec`
too. `UsedOnlyWhileOpen` (`NoUseOutsideLifetime`) and `CloseAbandonsNothing`
(`ClosedLeavesNothing`) follow from `LifeInv`: what uses the connection needs
the resources and they are open (`OpenWhileReady`), the counter is the number of
unfinished users, and none is left once `close()` passed it (`UsersCounted`),
and each phase of `close()` implies what has been shut down (`ShutDown`), down
to `close()` being released only by a queue that accepts no more and is empty.

`EmbeddingJobsProofs`, of every set of entries, profiles, workers and leases and
positive bounds (`JobsAssumption`): `JobsTypeCorrect`, `NoEntryIsMissed`,
`ForgottenStaysForgotten`, `LateVectorIsRefused` (proved only, like
`SuccessMeansMigrated` below). `CurrentOrQueued` is inductive
only with the types; that a forgotten text stays gone needs that a claim's
content is never the shell's and that `Finalize` compares it with the entry.

`TurnProofs` (`ContinuationsAreBounded`, `SupersededStaysUnsent`): of `TurnBoundary`, the
invariant counts, for the guard's current generation, the messages let through,
bounds it by `guard.count` and says that no claim is of a later generation; and
that a drain about to send has its message let through or rewritten.

The second half of the module proves all that the run of `OnDemandIntake` checks
(`JoinersAlwaysServed`, `LateCallsStayUnrun`, `WorkRunsUnderItsTask`,
`AdmissionsAreCurrent`, `AnswersAreInTime`; also `IntakeTypeCorrect`), from
`IntakeAssumption`, so for every finite set of calls and every number of turns,
captures and operations of the user. `AnswersAreInTime` also needs `Dated`
(`ContextsAreDated`): no request has a context newer than the task, and no question one
newer than itself. The code compares the context of the question with the one at the
answer; they can be equal only if nobody operated on the task in between, not since
the question alone but since its context was read. The four about steps speak of the request in force, while
the code only looks at signals: `Newest` is what makes the two the same. It says that no
request but the newest is unaborted, and that one only in its own open turn, because
`finish()`, a later capture and the end of the turn abort it in the same synchronous step.
So a late approval, admission or answer needs no other check (`LiveIsInForce`). That work starts
under its own task is not inductive: between the host's answer and the start of a
body the intake looks at the task of the turn (`Ready`), which says nothing of
the request it was admitted for. `OwnTask` names who relies on the task while the
request in force is unaborted: that request once it is prepared, a call whose admission was
answered, work let through (`Vouches`); for them the session's task is none or their
own. Others may end it meanwhile, but to bind one `TaskAdmitted` looks at the signal of its own
request, and only the newest still has one. `Joins` says that a preparation is that of a call of the request, still under
way, that an admission is that of a call of the turn, and that a call waits only where
there is one; `Resolves` and `Return` release all who wait in the step that ends it. Nothing is
assumed about `asked`: the question plays no part in these proofs, what answers need is in
the call and the request.

`DatabaseSetupProofs` (`MigrationIsBackedUp`, `BackupIsComplete`,
`SuccessMeansMigrated`): versions of a file never fall, a lock has one holder, and
a setup past its inspection knows a file and version of which it wrote the
backup, unless nothing was ever committed there.

`TaskAuthorityProofs` (`EndsQuietly`, `StopIsTrue`): whatever can act has a
started row (`Started`); its lease is of the task's present owner and it is not
Done (`QuietEnd`); no lease is valid while a stop is pending, so that what is
seen stopped cannot start again; and a driver past its waits has seen the rows.

`DeepThinkerProofs` (`DeepRunInvariant`, `AcceptedMeetsConstraints`, `UnknownIsHeldBack`,
`UsageConserved`) needs, for the run, `RunAssumption` only. `UnknownIsNotResent` is a property of steps: a job is
scheduled on one look at the run and reserved in a later transaction, and in
between the owner may have been replaced and other attempts made. `UnknownIsHeld`
is what makes the step safe: while the run is driven, an attempt of unknown
outcome is the active one of its node, or the node has been withdrawn (its revision
has moved on). `claim()` establishes it, since it refuses to begin while anything
is unknown; whatever clears an active attempt decides its outcome, withdraws the
node or stops the run; and `#reserve()` wants a node of the revision it was
scheduled for with no active attempt. The look at the
logs (`reconcile()`) is safe because it compares the requirement and the node's
revision again in its own transaction. All tables are typed alongside (`Shape`);
the rest of the state is unconstrained, so the theorems do not depend on what
`driver` and `command` remember.
`UsageIsConserved` adds what ties a row of `request` to its job: a job waiting for an
answer names a request of its own that is still reserved (`Tasks`), so that a settlement
moves exactly one row from the counted-as-reserved to the counted-as-used, and no
row is settled twice. The sums are bounded by what one row costs, by the laws of
finite cardinality, for any number of requests.

The second half of the module is about `DeepGraph`, from `GraphAssumption`
(`GraphIsSound`, `AcceptedStandsOnAccepted`, `GraphIsNeverStuck`). The loops of `graph.ts`
are least closed sets, so each is used through two lemmas: it is closed
(`StaleIsClosed`, `DescendantsAreClosed`, `DoomedIsClosed`), and it lies in any closed set
(`DescendantsAreLeast`, `DoomedIsLeast`). `AcceptedRestsOnAccepted` is not inductive.
A replan supersedes a whole subtree, which is harmless only if nobody in it is at
work: below a node that is replanned all current nodes are accepted
(`BelowIsAtRest`), since its children were when it went to review (`Stage`) and those
of an accepted node are. It also needs that siblings are superseded together
(`Tree`: a prerequisite has the same parent) and that an accepted node has no
superseded prerequisite (`Lineage`). `NothingIsStuck` follows from
`Grounded`: every set of nodes has one that waits for no other of the set. It
holds of an appended plan because `assertAcyclic()` looked at it, and stays because
nothing else adds an edge; in the set of current nodes that are neither accepted
nor unresolved after `advanceGraph()`, that one node could be scheduled.

Only model-checked is liveness, since fairness and ENABLED are out of the
prover's reach (`GraphSettles`, `JobsEnd`, `QueuedJobIsTried`, `StopIsConfirmed` and
their like): every safety property of a run that is expected to pass is a theorem too.

## Findings

1. **Disposal closes a turn as completed** (`factory.ts:152`). The step loop is
   left by its condition and keeps the initial reason. The documentation and
   tests treat a stopped turn as aborted. `CancelledTurnIsRecordedAborted`
   excludes disposal; `EveryAbortIsRecorded` does not, and fails.
2. **A native unknown does not block every effect**
   (`managed-operation-runner.ts:69`): it is looked for before `prepare()` and
   not again at the claim.

A third divergence has no run of its own. `docs/on-demand-intake.md:90` says that "Changed
task evidence while waiting returns `clarification_context_changed` with current references instead of
reusing the stale answer". The code compares only `if (context && ...)` (`on-demand-intake.ts:1766`,
1810), and a request whose interpretation failed has no context: the answer to its
question is queued although the task was operated on meanwhile. `AnswerIsInTime`
without its condition on `rev` is violated by `AnswerGiven`, `TaskStateChanged` and
`AnswerQueued` of such a request.

## What is not covered

Components without a module are listed in `PROJECT.json` with the reason. Within
the modelled ones:

- Scheduler: edits of the published inbox (`replace`, `remove`, `prepend`), which
  nothing in the repository makes during an admission, and which the positional
  commit of a claim (`factory.ts:189`) would not survive; the factory's
  publication and resume. Model
  routing is the one listener modelled, and is assumed to skip an agent that is
  already in maintenance.
- Journal: authority bindings, capacity limits and `journalProtectedJob`.
- Core runtime: the agent registry and auxiliary recovery.
- Embedding: providers, vectors and search; a drain claims under one lease.
- Turn boundary: `input-claim.ts`, the guard of boundary effects, pauses of a
  session, several sessions; a second process on the same session; an answer of
  the user that arrives after its drain returned; `shouldProcessSession`. When a timer fires is
  left open: it is a drain in store.
- Database setup: WAL sidecars, reuse of an inode, damage to a backup.
- Task authority: the task starts Working; Lisp workers' own stop, replay of a
  model's task operation, `create()`, the evidence of completion,
  `finishCompletion()`; a row that could not be written (`persist()` swallows
  the error, so a process may run that completion does not see). The end of a
  call and its row are one step; one call of each kind per run; both sessions
  reopen together.
- Intake: the same text captured again and its replay, turns without a human
  message, tasks acknowledged as existing and confirmations, eager mode, Lisp, read-only and
  unowned calls, carriers in `run_code`, a declined selection of the execution, who
  owns memory, `retire()`; the flags `failed` and `checkpointed` of an admitted task, the hold of an
  answer review and the block by an open completion (a task of a completed turn
  finishes once nothing else holds it), the coding-workflow branch of `prepareCoreTask()`. Which
  text a request carries is left open: each is new work, the same work, or not
  understood. The last read of a question's context and the queueing of the answer are one step. The end of `prepareCoreTask()` after the task is bound is one step;
  a call that is denied stays where it is. The idempotency rows are not modelled.
- Deep planning: quality mode, `slots.ts` (waiting for a slot is a job that is not
  reserved yet), intents, configuration, reports and memory requests; the limit on
  the number of requests (that on tokens is modelled); a second command in the same
  process while one is under way; `claim()` reads the run again after its
  transaction. An answered run whose root was withdrawn by a former owner is
  reachable (`Withdraw` has no check of authority) and is listed as a hazard.

Disk failures are a refused transaction; SQLite's own atomicity is assumed.
