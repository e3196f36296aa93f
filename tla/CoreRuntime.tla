----------------------------- MODULE CoreRuntime ------------------------------
(* The lifetime of the database one host process shares (DshCoreRuntime,    *)
(* src/dsh/core-runtime.ts): lazy initialisation, counted direct users,     *)
(* queued writes, the embedding worker (src/embedding/worker.ts, and the    *)
(* drain of src/embedding/runtime.ts as far as it touches the database and  *)
(* the queue), and close().                                                 *)
EXTENDS WriteQueue

CONSTANTS
  Callers,      \* calls of withDatabase()
  WorkerWrites, \* the writes the embedding worker enqueues
  Closer        \* close(), as a caller of the queue's drain()

ASSUME RuntimeAssumption ==
  IsFiniteSet(Callers) /\ WorkerWrites \subseteq Writes /\ Waiters = {Closer}

VARIABLES
  init,     \* #initialization and #resources
  db,       \* the connection
  closing,  \* #closing
  closer,   \* position of close()
  active,   \* #activeDatabaseOperations
  user,     \* caller -> position of its withDatabase()
  parked,   \* writes of enqueueWrite() that wait for the initialisation
  refused,  \* writes enqueueWrite() never offered to the queue
  worker,   \* the embedding worker
  awaited   \* the write the worker's drain waits for, or NoWrite

runtimeVars == <<init, db, closing, closer, active, user, parked, refused, worker, awaited>>
vars == <<queueVars, runtimeVars>>

UserWrites == Writes \ WorkerWrites

(* Types of the variables.                                                  *)
TypeOK ==
  /\ QueueTypeOK
  /\ init \in {"none", "pending", "ready", "failed", "dropped"}
  /\ db \in {"none", "open", "closed"}
  /\ closing \in BOOLEAN
  /\ closer \in {"none", "auxiliary", "users", "resources", "worker", "queue", "database", "closed", "failed"}
  /\ active \in 0 .. Cardinality(Callers)
  /\ user \in [Callers -> {"none", "waiting", "using", "ended"}]
  /\ parked \subseteq UserWrites /\ refused \subseteq UserWrites
  /\ worker \in {"off", "scheduled", "claimed", "stopped"}
  /\ awaited \in WorkerWrites \cup {NoWrite}

Init ==
  /\ QueueInit
  /\ init = "none" /\ db = "none"
  /\ closing = FALSE /\ closer = "none"
  /\ active = 0 /\ user = [c \in Callers |-> "none"]
  /\ parked = {} /\ refused = {}
  /\ worker = "off" /\ awaited = NoWrite

-----------------------------------------------------------------------------
(* Initialisation: the first call that needs the resources starts it, all   *)
(* share its promise, and a failure is kept.                                *)
Requires == init' = IF init = "none" THEN "pending" ELSE init

InitSucceeds ==
  /\ init = "pending"
  /\ init' = "ready" /\ db' = "open"
  /\ worker' \in {"off", "scheduled"}
  /\ UNCHANGED <<queueVars, closing, closer, active, user, parked, refused, awaited>>

InitFails ==
  /\ init = "pending"
  /\ init' = "failed" /\ db' \in {"none", "closed"}
  /\ UNCHANGED <<queueVars, closing, closer, active, user, parked, refused, worker, awaited>>

BugInitialised == init = "ready"

Initialised == init \in {"ready", "failed", "dropped"}

-----------------------------------------------------------------------------
BugWithDatabase(c) ==
  /\ user[c] = "none"
  /\ IF closing
     THEN user' = [user EXCEPT ![c] = "ended"] /\ UNCHANGED <<active, init>>
     ELSE user' = [user EXCEPT ![c] = "waiting"] /\ Requires /\ UNCHANGED active
  /\ UNCHANGED <<queueVars, db, closing, closer, parked, refused, worker, awaited>>

(* withDatabase(): counted before anything is awaited ...                   *)
WithDatabase(c) ==
  /\ user[c] = "none"
  /\ IF closing
     THEN user' = [user EXCEPT ![c] = "ended"] /\ UNCHANGED <<active, init>>
     ELSE user' = [user EXCEPT ![c] = "waiting"] /\ active' = active + 1 /\ Requires
  /\ UNCHANGED <<queueVars, db, closing, closer, parked, refused, worker, awaited>>

(* ... the operation runs once the resources are there ...                  *)
Uses(c) ==
  /\ user[c] = "waiting" /\ init = "ready"
  /\ user' = [user EXCEPT ![c] = "using"]
  /\ UNCHANGED <<queueVars, init, db, closing, closer, active, parked, refused, worker, awaited>>

BugReleased(c) == active

Released(c) == active - 1

(* ... and is uncounted when it ended, or when the resources never came.    *)
Ends(c) ==
  /\ \/ user[c] = "using"
     \/ user[c] = "waiting" /\ init \in {"failed", "dropped"}
  /\ user' = [user EXCEPT ![c] = "ended"]
  /\ active' = Released(c)
  /\ UNCHANGED <<queueVars, init, db, closing, closer, parked, refused, worker, awaited>>

(* enqueueWrite(): not counted; offered at once, or after the               *)
(* initialisation.                                                          *)
EnqueueWrite(w) ==
  /\ promise[w] = "none" /\ w \notin parked \cup refused
  /\ \/ /\ closing
        /\ refused' = refused \cup {w}
        /\ UNCHANGED <<queueVars, init, parked>>
     \/ /\ ~closing /\ init = "ready"
        /\ Enqueue(w)
        /\ UNCHANGED <<init, parked, refused>>
     \/ /\ ~closing /\ init # "ready"
        /\ parked' = parked \cup {w} /\ Requires
        /\ UNCHANGED <<queueVars, refused>>
  /\ UNCHANGED <<db, closing, closer, active, user, worker, awaited>>

(* The waiting call goes on: into the queue, closed or not, or nowhere.     *)
ResumeWrite(w) ==
  /\ w \in parked /\ Initialised
  /\ parked' = parked \ {w}
  /\ IF init = "ready" THEN Enqueue(w) /\ UNCHANGED refused
     ELSE refused' = refused \cup {w} /\ UNCHANGED queueVars
  /\ UNCHANGED <<init, db, closing, closer, active, user, worker, awaited>>

(* The queue's own steps.                                                   *)
QueueBegins == Begin /\ UNCHANGED runtimeVars
QueueFinishes(outcome) == Finish(outcome) /\ UNCHANGED runtimeVars

-----------------------------------------------------------------------------
(* The worker's timer starts a drain, which claims its jobs from the        *)
(* database at once ...                                                     *)
WorkerClaims ==
  /\ worker = "scheduled"
  /\ worker' = "claimed"
  /\ UNCHANGED <<queueVars, init, db, closing, closer, active, user, parked, refused, awaited>>

(* ... stores each result through the queue, closed or not, and waits ...   *)
WorkerStores(w) ==
  /\ worker = "claimed" /\ awaited = NoWrite
  /\ Enqueue(w) /\ awaited' = w
  /\ UNCHANGED <<init, db, closing, closer, active, user, parked, refused, worker>>

WorkerGoesOn ==
  /\ awaited # NoWrite /\ promise[awaited] # "pending"
  /\ awaited' = NoWrite
  /\ UNCHANGED <<queueVars, init, db, closing, closer, active, user, parked, refused, worker>>

(* ... and counts what remains; it ends early when a write was refused.     *)
(* The next drain is scheduled unless the worker was stopped.               *)
WorkerEnds ==
  /\ worker = "claimed" /\ awaited = NoWrite
  /\ worker' = IF closer \in {"worker", "queue", "database", "closed", "failed"} THEN "stopped" ELSE "scheduled"
  /\ UNCHANGED <<queueVars, init, db, closing, closer, active, user, parked, refused, awaited>>

-----------------------------------------------------------------------------
(* close(): stop admitting; later calls share the promise.                  *)
Close ==
  /\ closer = "none"
  /\ closing' = TRUE /\ closer' = "auxiliary"
  /\ UNCHANGED <<queueVars, init, db, active, user, parked, refused, worker, awaited>>

(* The auxiliary checks have stopped: wait for the counted users.           *)
AwaitUsers ==
  /\ closer = "auxiliary"
  /\ closer' = IF active > 0 THEN "users" ELSE "resources"
  /\ UNCHANGED <<queueVars, init, db, closing, active, user, parked, refused, worker, awaited>>

UsersEnded ==
  /\ closer = "users" /\ active = 0
  /\ closer' = "resources"
  /\ UNCHANGED <<queueVars, init, db, closing, active, user, parked, refused, worker, awaited>>

(* There may be nothing to close; an initialisation under way is awaited.   *)
TakeResources ==
  /\ closer = "resources" /\ init # "pending"
  /\ closer' = IF init = "ready" THEN "worker" ELSE "closed"
  /\ worker' = IF init = "ready" /\ worker = "scheduled" THEN "stopped" ELSE worker
  /\ UNCHANGED <<queueVars, init, db, closing, active, user, parked, refused, awaited>>

BugWorkerEnded == TRUE

(* closeResources(): the worker, then the queue, then the connection.       *)
WorkerEnded == worker # "claimed"
CloseWorker ==
  /\ closer = "worker" /\ WorkerEnded
  /\ closer' = "queue" /\ CloseQueue(Closer)
  /\ UNCHANGED <<init, db, closing, active, user, parked, refused, worker, awaited>>

QueueDrained == Closer \in released
CloseQueueEnds ==
  /\ closer = "queue" /\ QueueDrained
  /\ closer' = "database"
  /\ UNCHANGED <<queueVars, init, db, closing, active, user, parked, refused, worker, awaited>>

(* A connection that fails to close keeps the resources and rejects.        *)
CloseDatabase ==
  /\ closer = "database"
  /\ \/ closer' = "closed" /\ db' = "closed" /\ init' = "dropped"
     \/ closer' = "failed" /\ UNCHANGED <<db, init>>
  /\ UNCHANGED <<queueVars, closing, active, user, parked, refused, worker, awaited>>

-----------------------------------------------------------------------------
QueueWorks == QueueBegins \/ \E outcome \in {"resolved", "rejected"} : QueueFinishes(outcome)
WorkerWorks == WorkerGoesOn \/ WorkerEnds
Closes == AwaitUsers \/ UsersEnded \/ TakeResources \/ CloseWorker \/ CloseQueueEnds \/ CloseDatabase

Next ==
  \/ InitSucceeds \/ InitFails
  \/ \E c \in Callers : WithDatabase(c) \/ Uses(c) \/ Ends(c)
  \/ \E w \in UserWrites : EnqueueWrite(w) \/ ResumeWrite(w)
  \/ QueueWorks
  \/ WorkerClaims \/ (\E w \in WorkerWrites : WorkerStores(w)) \/ WorkerWorks
  \/ Close \/ Closes

Spec == Init /\ [][Next]_vars

(* Initialisation, operations, drains and the event loop end or go on.      *)
Fairness ==
  /\ WF_vars(InitSucceeds \/ InitFails)
  /\ \A c \in Callers : WF_vars(Uses(c) \/ Ends(c))
  /\ \A w \in UserWrites : WF_vars(ResumeWrite(w))
  /\ WF_vars(QueueWorks)
  /\ WF_vars(WorkerGoesOn) /\ WF_vars(WorkerEnds)
  /\ WF_vars(Closes)
FairSpec == Spec /\ Fairness

-----------------------------------------------------------------------------
(* Properties.                                                              *)

(* Nothing touches the connection before it is opened or after it is        *)
(* closed: not a direct user, not a queued write, not the worker's drain.   *)
NoUseOutsideLifetime ==
  (\/ \E c \in Callers : user[c] = "using"
   \/ running # NoWrite
   \/ worker = "claimed") => db = "open"

(* Before the connection goes away every accepted write has settled and     *)
(* every admitted call of withDatabase() has ended, waiting ones included.  *)
ClosedLeavesNothing ==
  closer \in {"database", "closed", "failed"} =>
    /\ \A w \in Writes : promise[w] # "pending"
    /\ \A c \in Callers : user[c] \in {"none", "ended"}

(* close() ends, whatever was in progress when it was called.               *)
CloseEnds == closing ~> closer \in {"closed", "failed"}

(* Every accepted write is settled, and every write that waited for the     *)
(* initialisation is answered, also when close() overtakes them.            *)
WritesAreAnswered ==
  \A w \in Writes : promise[w] = "pending" \/ w \in parked
                      ~> promise[w] \notin {"none", "pending"} \/ w \in refused
=============================================================================
