------------------------------ MODULE WriteQueue ------------------------------
(* The serial write queue (src/dsh/write-queue.ts).  Every step below is    *)
(* one synchronous stretch of the event loop; the microtask between taking  *)
(* an item and calling its operation, and the operation itself, are where   *)
(* other callers get in.                                                    *)
EXTENDS Naturals, Sequences, SequencesExt

CONSTANTS
  Writes,          \* operations offered to the queue, each once
  NoWrite,         \* no operation
  Waiters,         \* callers of drain() and close()
  WaitingCapacity

ASSUME QueueAssumption == NoWrite \notin Writes /\ WaitingCapacity \in Nat \ {0}

VARIABLES
  accepting,
  running,       \* the item taken last, or NoWrite
  begun,         \* history: operations called, in order
  items,         \* waiting items, oldest first
  drainWaiters,  \* callers waiting for the queue to run empty
  released,      \* callers whose drain promise resolved
  promise        \* write -> state of the promise enqueue() returned

queueVars == <<accepting, running, begun, items, drainWaiters, released, promise>>

QueueTypeOK ==
  /\ accepting \in BOOLEAN
  /\ running \in Writes \cup {NoWrite}
  /\ begun \in Seq(Writes)
  /\ items \in Seq(Writes) /\ Len(items) <= WaitingCapacity
  /\ drainWaiters \subseteq Waiters /\ released \subseteq Waiters
  /\ promise \in [Writes -> {"none", "pending", "resolved", "rejected", "closed", "full"}]

QueueInit ==
  /\ accepting = TRUE /\ running = NoWrite
  /\ begun = <<>> /\ items = <<>>
  /\ drainWaiters = {} /\ released = {}
  /\ promise = [w \in Writes |-> "none"]

-----------------------------------------------------------------------------
BugTake(q) ==
  IF q = <<>>
  THEN running' = NoWrite /\ items' = q
  ELSE running' = Last(q) /\ items' = Front(q)

(* #startNext() with nothing running: take the oldest waiting item.         *)
Take(q) ==
  IF q = <<>>
  THEN running' = NoWrite /\ items' = q
  ELSE running' = Head(q) /\ items' = Tail(q)

(* enqueue().                                                               *)
Admitted == accepting /\ Len(items) < WaitingCapacity
Enqueue(w) ==
  /\ promise[w] = "none"
  /\ IF Admitted
     THEN /\ promise' = [promise EXCEPT ![w] = "pending"]
          /\ IF running # NoWrite
             THEN items' = Append(items, w) /\ UNCHANGED running
             ELSE Take(Append(items, w))
     ELSE /\ promise' = [promise EXCEPT ![w] = IF accepting THEN "full" ELSE "closed"]
          /\ UNCHANGED <<running, items>>
  /\ UNCHANGED <<accepting, begun, drainWaiters, released>>

(* The microtask that calls the operation.                                  *)
HasBegun(w) == w \in ToSet(begun)
Begin ==
  /\ running # NoWrite /\ ~HasBegun(running)
  /\ begun' = Append(begun, running)
  /\ UNCHANGED <<accepting, running, items, drainWaiters, released, promise>>

(* The operation settled: its promise does, the next item is taken, and     *)
(* when there is none every drain waiter is released (#finishCurrent).      *)
Releases(q) == q = <<>>
Finish(outcome) ==
  /\ running # NoWrite /\ HasBegun(running)
  /\ promise' = [promise EXCEPT ![running] = outcome]
  /\ Take(items)
  /\ IF Releases(items)
     THEN released' = released \cup drainWaiters /\ drainWaiters' = {}
     ELSE UNCHANGED <<released, drainWaiters>>
  /\ UNCHANGED <<accepting, begun>>

BugIdle == FALSE

(* drain(), and close(), which first stops accepting.                       *)
Idle == running = NoWrite /\ items = <<>>
Drain(c) ==
  /\ c \notin released \cup drainWaiters
  /\ IF Idle
     THEN released' = released \cup {c} /\ UNCHANGED drainWaiters
     ELSE drainWaiters' = drainWaiters \cup {c} /\ UNCHANGED released
  /\ UNCHANGED <<running, begun, items, promise>>
DrainQueue(c) == Drain(c) /\ UNCHANGED accepting
CloseQueue(c) == Drain(c) /\ accepting' = FALSE

QueueNext ==
  \/ \E w \in Writes : Enqueue(w)
  \/ Begin
  \/ \E outcome \in {"resolved", "rejected"} : Finish(outcome)
  \/ \E c \in Waiters : DrainQueue(c) \/ CloseQueue(c)

QueueSpec == QueueInit /\ [][QueueNext]_queueVars

-----------------------------------------------------------------------------
(* Operations begin one at a time and in the order they were accepted: what *)
(* was begun, then the item taken, then the waiting items are the accepted  *)
(* writes, each once.                                                       *)
Pipeline ==
  begun \o (IF running # NoWrite /\ ~HasBegun(running) THEN <<running>> ELSE <<>>) \o items

AcceptedInOrder ==
  [][\/ Pipeline' = Pipeline
     \/ \E w \in Writes : promise[w] = "none" /\ Pipeline' = Append(Pipeline, w)]_queueVars

(* Nobody who accepted a write forgets it: its promise is pending exactly   *)
(* while it is in the queue or running, and only the newest begun           *)
(* operation may still be running.                                          *)
PendingIsHeld ==
  \A w \in Writes : promise[w] = "pending" <=> w = running \/ w \in ToSet(items)

(* A drained caller saw the queue empty: while it waits the queue works.    *)
WaitersWaitForWork == drainWaiters # {} => running # NoWrite \/ items # <<>>

(* No operation starts after a closed queue was reported drained.           *)
ClosedAndDrainedIsSilent ==
  [][~accepting /\ Idle => UNCHANGED <<running, begun, items>>]_queueVars
=============================================================================
