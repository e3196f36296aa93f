-------------------------- MODULE CoreRuntimeProofs ---------------------------
(* Proofs about the serial write queue and the runtime that owns it.  For   *)
(* every set of writes and waiters and every capacity the queue is serial,  *)
(* keeps the order in which it accepted, forgets nothing and reports itself *)
(* drained only when it is empty.  For every set of callers and of worker   *)
(* writes the runtime drives its queue only by the queue's own steps,       *)
(* nothing touches the connection outside its lifetime, and close() leaves  *)
(* no accepted write and no admitted caller behind.                         *)
EXTENDS CoreRuntime, FiniteSetTheorems, SequenceTheorems, TLAPS

-----------------------------------------------------------------------------
(* Sequences.                                                               *)

LEMMA HeadTail ==
  ASSUME NEW S, NEW q \in Seq(S), q # <<>>
  PROVE  /\ Head(q) \in S /\ Tail(q) \in Seq(S)
         /\ Len(Tail(q)) = Len(q) - 1 /\ Head(q) = q[1]
         /\ \A i \in 1 .. Len(q) - 1 : Tail(q)[i] = q[i + 1]
         /\ Len(q) \in Nat \ {0}
  OBVIOUS

LEMMA InToSet ==
  ASSUME NEW S, NEW q \in Seq(S), NEW w
  PROVE  w \in ToSet(q) <=> \E i \in 1 .. Len(q) : q[i] = w
BY DEF ToSet

LEMMA ToSetAppend ==
  ASSUME NEW S, NEW q \in Seq(S), NEW x \in S
  PROVE  /\ Append(q, x) \in Seq(S) /\ Append(q, x) # <<>>
         /\ \A w : w \in ToSet(Append(q, x)) <=> w \in ToSet(q) \/ w = x
<1>1. Append(q, x) \in Seq(S) /\ Append(q, x) # <<>> /\ Len(Append(q, x)) = Len(q) + 1
  <2>1. Append(q, x) \in Seq(S) /\ Len(Append(q, x)) = Len(q) + 1 /\ Len(q) \in Nat
    OBVIOUS
  <2>2. Len(<<>>) = 0
    OBVIOUS
  <2> QED BY <2>1, <2>2
<1>2. /\ \A i \in 1 .. Len(q) : Append(q, x)[i] = q[i]
      /\ Append(q, x)[Len(q) + 1] = x
      /\ Len(q) \in Nat
  OBVIOUS
<1>3. ASSUME NEW w PROVE w \in ToSet(Append(q, x)) <=> w \in ToSet(q) \/ w = x
  <2>1. w \in ToSet(Append(q, x)) <=> \E i \in 1 .. Len(q) + 1 : Append(q, x)[i] = w
    BY <1>1, InToSet
  <2>2. w \in ToSet(q) <=> \E i \in 1 .. Len(q) : q[i] = w
    BY InToSet
  <2> QED BY <2>1, <2>2, <1>2
<1> QED BY <1>1, <1>3

LEMMA ToSetTail ==
  ASSUME NEW S, NEW q \in Seq(S), q # <<>>
  PROVE  \A w : w \in ToSet(q) <=> w = Head(q) \/ w \in ToSet(Tail(q))
<1>1. ASSUME NEW w PROVE w \in ToSet(q) <=> w = Head(q) \/ w \in ToSet(Tail(q))
  <2>1. w \in ToSet(q) <=> \E i \in 1 .. Len(q) : q[i] = w
    BY InToSet
  <2>2. w \in ToSet(Tail(q)) <=> \E i \in 1 .. Len(Tail(q)) : Tail(q)[i] = w
    <3>1. Tail(q) \in Seq(S)
      BY HeadTail
    <3> QED BY <3>1, InToSet
  <2>3. ASSUME NEW i \in 1 .. Len(q), q[i] = w, i # 1
        PROVE  i - 1 \in 1 .. Len(Tail(q)) /\ Tail(q)[i - 1] = w
    BY <2>3, HeadTail
  <2>4. ASSUME NEW i \in 1 .. Len(Tail(q)), Tail(q)[i] = w
        PROVE  i + 1 \in 1 .. Len(q) /\ q[i + 1] = w
    BY <2>4, HeadTail
  <2>5. 1 \in 1 .. Len(q) /\ q[1] = Head(q)
    BY HeadTail
  <2> QED BY <2>1, <2>2, <2>3, <2>4, <2>5
<1> QED BY <1>1

-----------------------------------------------------------------------------
(* The inductive invariant.  A write is in one place only: what waits was   *)
(* not begun and waits once, what is running does not wait, what was never  *)
(* offered is nowhere; and nothing waits next to an idle queue.             *)
Once(q) == \A i, j \in 1 .. Len(q) : q[i] = q[j] => i = j

NothingWaitsIdle == running = NoWrite => items = <<>>
OnePlace ==
  /\ Once(items)
  /\ running \notin ToSet(items)
  /\ \A w \in ToSet(items) : ~HasBegun(w)
FreshIsNowhere ==
  \A w \in Writes : promise[w] = "none" => ~HasBegun(w) /\ w # running /\ w \notin ToSet(items)

QueueInv ==
  /\ QueueTypeOK /\ PendingIsHeld
  /\ NothingWaitsIdle /\ OnePlace /\ FreshIsNowhere

LEMMA QueueInvInit == QueueInit => QueueInv
<1> SUFFICES ASSUME QueueInit PROVE QueueInv
  OBVIOUS
<1> USE QueueAssumption DEF QueueInit
<1>1. QueueTypeOK
  BY DEF QueueTypeOK
<1>2. ToSet(<<>>) = {}
  BY DEF ToSet
<1> QED BY <1>1, <1>2 DEF QueueInv, PendingIsHeld, NothingWaitsIdle, OnePlace, Once, FreshIsNowhere, HasBegun

(* Taking an item from a queue q of distinct writes.                        *)
LEMMA TakeKeeps ==
  ASSUME NEW q \in Seq(Writes), Once(q), Take(q)
  PROVE  /\ running' \in Writes \cup {NoWrite} /\ items' \in Seq(Writes)
         /\ Once(items') /\ running' \notin ToSet(items')
         /\ (running' = NoWrite <=> q = <<>>)
         /\ (running' = NoWrite => items' = <<>>)
         /\ \A w \in Writes : w \in ToSet(q) <=> w = running' \/ w \in ToSet(items')
         /\ q # <<>> => Len(items') = Len(q) - 1
<1>1. CASE q = <<>>
  <2>1. ToSet(<<>>) = {}
    BY DEF ToSet
  <2>2. running' = NoWrite /\ items' = <<>>
    BY <1>1 DEF Take
  <2> QED BY <1>1, <2>1, <2>2, QueueAssumption DEF Once
<1>2. CASE q # <<>>
  <2>1. running' = Head(q) /\ items' = Tail(q)
    BY <1>2 DEF Take
  <2>2. /\ Head(q) \in Writes /\ Tail(q) \in Seq(Writes)
        /\ Len(Tail(q)) = Len(q) - 1 /\ Head(q) = q[1]
        /\ \A i \in 1 .. Len(q) - 1 : Tail(q)[i] = q[i + 1]
        /\ Len(q) \in Nat \ {0}
    BY <1>2, HeadTail
  <2>3. Once(Tail(q))
    BY <2>2 DEF Once
  <2>4. Head(q) \notin ToSet(Tail(q))
    <3>1. SUFFICES ASSUME NEW i \in 1 .. Len(Tail(q)), Tail(q)[i] = Head(q) PROVE FALSE
      BY <2>2, InToSet
    <3> QED BY <3>1, <2>2 DEF Once
  <2>5. \A w : w \in ToSet(q) <=> w = Head(q) \/ w \in ToSet(Tail(q))
    BY <1>2, ToSetTail
  <2> QED BY <1>2, <2>1, <2>2, <2>3, <2>4, <2>5, QueueAssumption
<1> QED BY <1>1, <1>2

(* Accepting a write.  Refused ones change nothing but their promise.       *)
LEMMA EnqueueKeeps ==
  ASSUME QueueInv, NEW w \in Writes, Enqueue(w)
  PROVE  QueueInv'
<1> USE DEF QueueInv
<1>1. CASE ~Admitted
  <2>1. UNCHANGED <<running, items, accepting, begun, drainWaiters, released>>
        /\ promise' = [promise EXCEPT ![w] = IF accepting THEN "full" ELSE "closed"]
        /\ promise[w] = "none"
    BY <1>1 DEF Enqueue
  <2>2. QueueTypeOK'
    BY <2>1 DEF QueueTypeOK
  <2>3. NothingWaitsIdle' /\ OnePlace'
    BY <2>1 DEF NothingWaitsIdle, OnePlace, Once, HasBegun
  <2>4. ASSUME NEW v \in Writes
        PROVE  /\ promise'[v] = "pending" <=> promise[v] = "pending"
               /\ promise'[v] = "none" => promise[v] = "none"
    BY <2>1, <2>4 DEF QueueTypeOK
  <2>5. PendingIsHeld' /\ FreshIsNowhere'
    BY <2>1, <2>4 DEF PendingIsHeld, FreshIsNowhere, HasBegun
  <2> QED BY <2>2, <2>3, <2>5
<1>2. CASE Admitted /\ running # NoWrite
  <2>1. /\ promise[w] = "none" /\ promise' = [promise EXCEPT ![w] = "pending"]
        /\ items' = Append(items, w)
        /\ UNCHANGED <<running, accepting, begun, drainWaiters, released>>
    BY <1>2 DEF Enqueue
  <2>2. /\ items \in Seq(Writes) /\ items' \in Seq(Writes) /\ items' # <<>>
        /\ \A v : v \in ToSet(items') <=> v \in ToSet(items) \/ v = w
        /\ Len(items) \in Nat /\ Len(items') = Len(items) + 1
        /\ \A i \in 1 .. Len(items) : items'[i] = items[i]
        /\ items'[Len(items) + 1] = w
    <3>1. items \in Seq(Writes)
      BY DEF QueueTypeOK
    <3> QED BY <2>1, <3>1, ToSetAppend
  <2>3. ~HasBegun(w) /\ w # running /\ w \notin ToSet(items)
    BY <2>1 DEF FreshIsNowhere
  <2>4. QueueTypeOK'
    BY <1>2, <2>1, <2>2, QueueAssumption DEF QueueTypeOK, Admitted
  <2>5. Once(items')
    <3>1. \A i \in 1 .. Len(items) : items[i] # w
      BY <2>2, <2>3, InToSet
    <3> QED BY <3>1, <2>2 DEF Once, OnePlace
  <2>6. OnePlace' /\ NothingWaitsIdle'
    BY <1>2, <2>1, <2>2, <2>3, <2>5 DEF OnePlace, NothingWaitsIdle, HasBegun
  <2>7. PendingIsHeld' /\ FreshIsNowhere'
    BY <2>1, <2>2, <2>3 DEF PendingIsHeld, FreshIsNowhere, HasBegun, QueueTypeOK
  <2> QED BY <2>4, <2>6, <2>7
<1>3. CASE Admitted /\ running = NoWrite
  <2>1. /\ promise[w] = "none" /\ promise' = [promise EXCEPT ![w] = "pending"]
        /\ Take(Append(items, w)) /\ items = <<>>
        /\ UNCHANGED <<accepting, begun, drainWaiters, released>>
    BY <1>3 DEF Enqueue, NothingWaitsIdle
  <2>2. Append(items, w) # <<>> /\ Head(Append(items, w)) = w /\ Tail(Append(items, w)) = <<>>
    BY <2>1
  <2>3. running' = w /\ items' = <<>> /\ ToSet(items') = {} /\ ToSet(items) = {}
    BY <2>1, <2>2 DEF Take, ToSet
  <2>4. ~HasBegun(w)
    BY <2>1 DEF FreshIsNowhere
  <2>5. QueueTypeOK'
    BY <2>1, <2>3, QueueAssumption DEF QueueTypeOK
  <2>6. OnePlace' /\ NothingWaitsIdle'
    BY <2>3, QueueAssumption DEF OnePlace, Once, NothingWaitsIdle
  <2>7. PendingIsHeld' /\ FreshIsNowhere'
    BY <1>3, <2>1, <2>3, <2>4, QueueAssumption DEF PendingIsHeld, FreshIsNowhere, HasBegun, QueueTypeOK
  <2> QED BY <2>5, <2>6, <2>7
<1> QED BY <1>1, <1>2, <1>3

(* The microtask that begins the operation.                                 *)
LEMMA BeginKeeps ==
  ASSUME QueueInv, Begin
  PROVE  QueueInv'
<1> USE DEF QueueInv
<1>1. /\ running \in Writes /\ ~HasBegun(running) /\ begun' = Append(begun, running)
      /\ UNCHANGED <<accepting, running, items, drainWaiters, released, promise>>
  BY DEF Begin, QueueTypeOK
<1>2. begun' \in Seq(Writes) /\ \A v : v \in ToSet(begun') <=> v \in ToSet(begun) \/ v = running
  <2>1. begun \in Seq(Writes)
    BY DEF QueueTypeOK
  <2> QED BY <1>1, <2>1, ToSetAppend
<1>3. QueueTypeOK' /\ PendingIsHeld' /\ NothingWaitsIdle'
  BY <1>1, <1>2 DEF QueueTypeOK, PendingIsHeld, NothingWaitsIdle
<1>4. OnePlace' /\ FreshIsNowhere'
  BY <1>1, <1>2 DEF OnePlace, FreshIsNowhere, HasBegun
<1> QED BY <1>3, <1>4

(* The operation settles and the next item is taken.                        *)
LEMMA FinishKeeps ==
  ASSUME QueueInv, NEW outcome \in {"resolved", "rejected"}, Finish(outcome)
  PROVE  QueueInv'
<1> USE DEF QueueInv
<1>1. /\ running \in Writes /\ HasBegun(running) /\ Take(items)
      /\ promise' = [promise EXCEPT ![running] = outcome]
      /\ UNCHANGED <<accepting, begun>>
      /\ items \in Seq(Writes) /\ Once(items)
  BY DEF Finish, QueueTypeOK, OnePlace
<1>2. drainWaiters' \subseteq Waiters /\ released' \subseteq Waiters
  BY DEF Finish, QueueTypeOK
<1>3. /\ running' \in Writes \cup {NoWrite} /\ items' \in Seq(Writes)
      /\ Once(items') /\ running' \notin ToSet(items')
      /\ (running' = NoWrite <=> items = <<>>)
      /\ (running' = NoWrite => items' = <<>>)
      /\ \A w \in Writes : w \in ToSet(items) <=> w = running' \/ w \in ToSet(items')
      /\ items # <<>> => Len(items') = Len(items) - 1
  BY <1>1, TakeKeeps
<1>4. Len(items') <= WaitingCapacity
  <2>1. Len(items) \in Nat /\ Len(items) <= WaitingCapacity /\ WaitingCapacity \in Nat
    BY <1>1, QueueAssumption DEF QueueTypeOK
  <2>2. CASE items = <<>>
    BY <1>3, <2>1, <2>2
  <2>3. CASE items # <<>>
    BY <1>3, <2>1, <2>3
  <2> QED BY <2>2, <2>3
<1>5. QueueTypeOK'
  BY <1>1, <1>2, <1>3, <1>4 DEF QueueTypeOK
<1>6. \A v : v \in ToSet(items') => v \in Writes
  BY <1>3, InToSet
<1>7. OnePlace' /\ NothingWaitsIdle'
  BY <1>1, <1>3, <1>6 DEF OnePlace, NothingWaitsIdle, HasBegun
<1>8. running \notin ToSet(items)
  BY DEF OnePlace
<1>9. PendingIsHeld'
  <2>1. SUFFICES ASSUME NEW w \in Writes
        PROVE  promise'[w] = "pending" <=> w = running' \/ w \in ToSet(items')
    BY DEF PendingIsHeld
  <2>2. CASE w = running
    BY <1>1, <1>3, <1>8, <2>2 DEF QueueTypeOK
  <2>3. CASE w # running
    BY <1>1, <1>3, <2>3 DEF QueueTypeOK, PendingIsHeld
  <2> QED BY <2>2, <2>3
<1>10. FreshIsNowhere'
  <2>1. SUFFICES ASSUME NEW w \in Writes, promise'[w] = "none"
        PROVE  ~HasBegun(w)' /\ w # running' /\ w \notin ToSet(items')
    BY DEF FreshIsNowhere
  <2>2. w # running /\ promise[w] = "none"
    BY <1>1, <2>1 DEF QueueTypeOK
  <2> QED BY <1>1, <1>3, <2>2 DEF FreshIsNowhere, HasBegun
<1> QED BY <1>5, <1>7, <1>9, <1>10

(* drain() and close().                                                     *)
LEMMA DrainKeeps ==
  ASSUME QueueInv, NEW c \in Waiters, DrainQueue(c) \/ CloseQueue(c)
  PROVE  QueueInv'
<1>1. /\ UNCHANGED <<running, begun, items, promise>>
      /\ accepting' \in BOOLEAN
      /\ drainWaiters' \subseteq Waiters /\ released' \subseteq Waiters
  BY DEF DrainQueue, CloseQueue, Drain, QueueInv, QueueTypeOK
<1> QED BY <1>1 DEF QueueInv, QueueTypeOK, PendingIsHeld, NothingWaitsIdle, OnePlace, Once,
                   FreshIsNowhere, HasBegun

LEMMA QueueInvStep == QueueInv /\ [QueueNext]_queueVars => QueueInv'
<1> SUFFICES ASSUME QueueInv, [QueueNext]_queueVars PROVE QueueInv'
  OBVIOUS
<1>1. CASE \E w \in Writes : Enqueue(w)
  BY <1>1, EnqueueKeeps
<1>2. CASE Begin
  BY <1>2, BeginKeeps
<1>3. CASE \E outcome \in {"resolved", "rejected"} : Finish(outcome)
  BY <1>3, FinishKeeps
<1>4. CASE \E c \in Waiters : DrainQueue(c) \/ CloseQueue(c)
  BY <1>4, DrainKeeps
<1>5. CASE UNCHANGED queueVars
  BY <1>5 DEF queueVars, QueueInv, QueueTypeOK, PendingIsHeld, NothingWaitsIdle, OnePlace,
              Once, FreshIsNowhere, HasBegun
<1> QED BY <1>1, <1>2, <1>3, <1>4, <1>5 DEF QueueNext

LEMMA QueueInvariant == QueueSpec => []QueueInv
BY QueueInvInit, QueueInvStep, PTL DEF QueueSpec

-----------------------------------------------------------------------------
(* Theorems.                                                                *)

(* PendingIsHeld: enqueue() forgets no accepted write and settles none      *)
(* early; a promise is pending while its write waits or runs, and only then.*)
THEOREM PendingWritesAreHeld == QueueSpec => []PendingIsHeld
<1>1. QueueInv => PendingIsHeld
  BY DEF QueueInv
<1> QED BY <1>1, QueueInvariant, PTL

(* WaitersWaitForWork: while a caller of drain() or close() waits, the      *)
(* queue has work whose end will release it.                                *)
LEMMA WaitersStep ==
  ASSUME QueueInv, WaitersWaitForWork, [QueueNext]_queueVars
  PROVE  WaitersWaitForWork'
<1>1. CASE \E w \in Writes : Enqueue(w)
  <2>1. PICK w \in Writes : Enqueue(w)
    BY <1>1
  <2>2. CASE ~Admitted \/ running # NoWrite
    <3>1. UNCHANGED <<running, drainWaiters>>
      BY <2>1, <2>2 DEF Enqueue
    <3>2. running = NoWrite => items = <<>>
      BY DEF QueueInv, NothingWaitsIdle
    <3> QED BY <3>1, <3>2 DEF WaitersWaitForWork
  <2>3. CASE Admitted /\ running = NoWrite
    <3>1. items \in Seq(Writes) /\ Take(Append(items, w)) /\ UNCHANGED drainWaiters
      BY <2>1, <2>3 DEF Enqueue, QueueInv, QueueTypeOK
    <3>2. Append(items, w) # <<>> /\ Append(items, w) \in Seq(Writes)
      BY <3>1, ToSetAppend
    <3>3. running' \in Writes
      BY <3>1, <3>2, HeadTail DEF Take
    <3> QED BY <3>3, QueueAssumption DEF WaitersWaitForWork
  <2> QED BY <2>2, <2>3
<1>2. CASE Begin \/ UNCHANGED queueVars
  BY <1>2 DEF Begin, queueVars, WaitersWaitForWork
<1>3. CASE \E outcome \in {"resolved", "rejected"} : Finish(outcome)
  <2>1. Take(items) /\ items \in Seq(Writes)
        /\ (items = <<>> => drainWaiters' = {})
    BY <1>3 DEF Finish, Releases, QueueInv, QueueTypeOK
  <2>2. CASE items = <<>>
    BY <2>1, <2>2 DEF WaitersWaitForWork
  <2>3. CASE items # <<>>
    <3>1. running' \in Writes
      BY <2>1, <2>3, HeadTail DEF Take
    <3> QED BY <3>1, QueueAssumption DEF WaitersWaitForWork
  <2> QED BY <2>2, <2>3
<1>4. CASE \E c \in Waiters : DrainQueue(c) \/ CloseQueue(c)
  BY <1>4 DEF DrainQueue, CloseQueue, Drain, Idle, WaitersWaitForWork
<1> QED BY <1>1, <1>2, <1>3, <1>4 DEF QueueNext

THEOREM WaitersAreServed == QueueSpec => []WaitersWaitForWork
<1>1. QueueInit => WaitersWaitForWork
  BY DEF QueueInit, WaitersWaitForWork
<1>2. QueueInv /\ WaitersWaitForWork /\ [QueueNext]_queueVars => WaitersWaitForWork'
  BY WaitersStep
<1> QED BY <1>1, <1>2, QueueInvariant, PTL DEF QueueSpec

(* AcceptedInOrder: operations begin one at a time, each once, in the order *)
(* in which enqueue() accepted them.                                        *)
LEMMA OrderStep ==
  ASSUME QueueInv, QueueNext
  PROVE  \/ Pipeline' = Pipeline
         \/ \E w \in Writes : promise[w] = "none" /\ Pipeline' = Append(Pipeline, w)
<1> DEFINE Between == IF running # NoWrite /\ ~HasBegun(running) THEN <<running>> ELSE <<>>
<1>0. /\ begun \in Seq(Writes) /\ items \in Seq(Writes) /\ running \in Writes \cup {NoWrite}
      /\ Between \in Seq(Writes)
  BY DEF QueueInv, QueueTypeOK
<1>1. ASSUME NEW w \in Writes, Enqueue(w)
      PROVE  Pipeline' = Pipeline \/ (promise[w] = "none" /\ Pipeline' = Append(Pipeline, w))
  <2>1. promise[w] = "none" /\ ~HasBegun(w) /\ UNCHANGED begun
    BY <1>1 DEF Enqueue, QueueInv, FreshIsNowhere
  <2>2. CASE ~Admitted
    <3>1. UNCHANGED <<running, items, begun>>
      BY <1>1, <2>2 DEF Enqueue
    <3> QED BY <3>1 DEF Pipeline, HasBegun
  <2>3. CASE Admitted /\ running # NoWrite
    <3>1. items' = Append(items, w) /\ UNCHANGED <<running, begun>>
      BY <1>1, <2>3 DEF Enqueue
    <3>2. Pipeline' = (begun \o Between) \o Append(items, w)
      BY <3>1 DEF Pipeline, HasBegun
    <3>3. Pipeline = (begun \o Between) \o items
      BY DEF Pipeline
    <3>4. begun \o Between \in Seq(Writes)
      BY <1>0
    <3> HIDE DEF Between
    <3>5. (begun \o Between) \o Append(items, w) = Append((begun \o Between) \o items, w)
      BY <1>0, <3>4
    <3> QED BY <2>1, <3>2, <3>3, <3>5
  <2>4. CASE Admitted /\ running = NoWrite
    <3>1. items = <<>> /\ Take(Append(items, w))
      BY <1>1, <2>4 DEF Enqueue, QueueInv, NothingWaitsIdle
    <3>2. Append(items, w) # <<>> /\ Head(Append(items, w)) = w /\ Tail(Append(items, w)) = <<>>
      BY <3>1
    <3>3. running' = w /\ items' = <<>> /\ w # NoWrite
      BY <3>1, <3>2, QueueAssumption DEF Take
    <3>4. Pipeline' = begun \o <<w>> \o <<>>
      BY <2>1, <3>3 DEF Pipeline, HasBegun
    <3>5. Pipeline = begun \o <<>> \o <<>>
      BY <2>4, <3>1 DEF Pipeline
    <3>6. begun \o <<w>> \o <<>> = Append(begun \o <<>> \o <<>>, w)
      BY <1>0
    <3> QED BY <2>1, <3>4, <3>5, <3>6
  <2> QED BY <2>2, <2>3, <2>4
<1>2. ASSUME Begin PROVE Pipeline' = Pipeline
  <2>1. /\ running # NoWrite /\ running \in Writes /\ ~HasBegun(running)
        /\ begun' = Append(begun, running) /\ UNCHANGED <<running, items>>
    BY <1>0, <1>2 DEF Begin
  <2>2. running \in ToSet(begun')
    BY <1>0, <2>1, ToSetAppend
  <2>3. Pipeline = begun \o <<running>> \o items /\ Pipeline' = Append(begun, running) \o <<>> \o items
    BY <2>1, <2>2 DEF Pipeline, HasBegun
  <2>4. begun \o <<running>> = Append(begun, running) \o <<>>
    BY <1>0, <2>1
  <2> QED BY <2>3, <2>4
<1>3. ASSUME NEW outcome \in {"resolved", "rejected"}, Finish(outcome) PROVE Pipeline' = Pipeline
  <2>1. HasBegun(running) /\ Take(items) /\ UNCHANGED begun
    BY <1>3 DEF Finish
  <2>2. Pipeline = begun \o <<>> \o items
    BY <2>1 DEF Pipeline
  <2>3. CASE items = <<>>
    <3>1. running' = NoWrite /\ items' = items
      BY <2>1, <2>3 DEF Take
    <3> QED BY <2>1, <2>2, <3>1 DEF Pipeline
  <2>4. CASE items # <<>>
    <3>1. running' = Head(items) /\ items' = Tail(items)
      BY <2>1, <2>4 DEF Take
    <3>2. running' \in Writes /\ running' \in ToSet(items)
      BY <1>0, <2>4, <3>1, HeadTail, ToSetTail
    <3>3. ~HasBegun(running')
      BY <3>2 DEF QueueInv, OnePlace
    <3>4. Pipeline' = begun \o <<Head(items)>> \o Tail(items)
      BY <2>1, <3>1, <3>2, <3>3, QueueAssumption DEF Pipeline, HasBegun
    <3>5. begun \o <<Head(items)>> \o Tail(items) = begun \o <<>> \o items
      BY <1>0, <2>4, HeadTail
    <3> QED BY <2>2, <3>4, <3>5
  <2> QED BY <2>3, <2>4
<1>4. ASSUME NEW c \in Waiters, DrainQueue(c) \/ CloseQueue(c) PROVE Pipeline' = Pipeline
  BY <1>4 DEF DrainQueue, CloseQueue, Drain, Pipeline, HasBegun
<1> HIDE DEF Between
<1> QED BY <1>1, <1>2, <1>3, <1>4 DEF QueueNext

THEOREM OrderIsKept == QueueSpec => AcceptedInOrder
<1>1. QueueInv /\ [QueueNext]_queueVars
        => [\/ Pipeline' = Pipeline
            \/ \E w \in Writes : promise[w] = "none" /\ Pipeline' = Append(Pipeline, w)]_queueVars
  BY OrderStep
<1> QED BY <1>1, QueueInvariant, PTL DEF QueueSpec, AcceptedInOrder

(* ClosedAndDrainedIsSilent: nothing is taken or begun after a closed queue *)
(* has run empty.                                                           *)
THEOREM ClosedQueueIsSilent == QueueSpec => ClosedAndDrainedIsSilent
<1>1. [QueueNext]_queueVars
        => [~accepting /\ Idle => UNCHANGED <<running, begun, items>>]_queueVars
  <2>1. SUFFICES ASSUME QueueNext, ~accepting, running = NoWrite
                 PROVE  UNCHANGED <<running, begun, items>>
    BY DEF Idle
  <2> QED BY <2>1 DEF QueueNext, Enqueue, Admitted, Begin, Finish, DrainQueue, CloseQueue, Drain
<1> QED BY <1>1, PTL DEF QueueSpec, ClosedAndDrainedIsSilent

-----------------------------------------------------------------------------
(* The runtime.                                                             *)

(* Every step of the runtime is a step of the queue or leaves it alone.     *)
LEMMA StepIsQueueStep == [Next]_vars => [QueueNext]_queueVars
<1> SUFFICES ASSUME [Next]_vars PROVE [QueueNext]_queueVars
  OBVIOUS
<1>1. CASE UNCHANGED vars
  BY <1>1 DEF vars
<1>2. CASE InitSucceeds \/ InitFails
  BY <1>2 DEF InitSucceeds, InitFails
<1>3. CASE \E c \in Callers : WithDatabase(c) \/ Uses(c) \/ Ends(c)
  BY <1>3 DEF WithDatabase, Uses, Ends
<1>4. CASE \E w \in UserWrites : EnqueueWrite(w) \/ ResumeWrite(w)
  <2>1. PICK w \in UserWrites : EnqueueWrite(w) \/ ResumeWrite(w)
    BY <1>4
  <2>2. w \in Writes
    BY DEF UserWrites
  <2>3. Enqueue(w) \/ UNCHANGED queueVars
    BY <2>1 DEF EnqueueWrite, ResumeWrite
  <2> QED BY <2>2, <2>3 DEF QueueNext
<1>5. CASE QueueWorks
  BY <1>5 DEF QueueWorks, QueueBegins, QueueFinishes, QueueNext
<1>6. CASE WorkerClaims \/ (\E w \in WorkerWrites : WorkerStores(w)) \/ WorkerWorks
  <2>1. CASE \E w \in WorkerWrites : WorkerStores(w)
    <3>1. PICK w \in WorkerWrites : WorkerStores(w)
      BY <2>1
    <3>2. w \in Writes /\ Enqueue(w)
      BY <3>1, RuntimeAssumption DEF WorkerStores
    <3> QED BY <3>2 DEF QueueNext
  <2>2. CASE WorkerClaims \/ WorkerWorks
    BY <2>2 DEF WorkerClaims, WorkerWorks, WorkerGoesOn, WorkerEnds
  <2> QED BY <1>6, <2>1, <2>2
<1>7. CASE Close \/ Closes
  <2>1. CASE CloseWorker
    BY <2>1, RuntimeAssumption DEF CloseWorker, QueueNext
  <2>2. CASE Close \/ AwaitUsers \/ UsersEnded \/ TakeResources \/ CloseQueueEnds \/ CloseDatabase
    BY <2>2 DEF Close, AwaitUsers, UsersEnded, TakeResources, CloseQueueEnds, CloseDatabase
  <2> QED BY <1>7, <2>1, <2>2 DEF Closes
<1> QED BY <1>1, <1>2, <1>3, <1>4, <1>5, <1>6, <1>7 DEF Next

(* The runtime implements the queue: what is proved of the queue holds in   *)
(* it, whoever writes and whenever it closes.                               *)
THEOREM RuntimeRunsTheQueue == Spec => QueueSpec
<1>1. Init => QueueInit
  BY DEF Init
<1> QED BY <1>1, StepIsQueueStep, PTL DEF Spec, QueueSpec

(* PendingIsHeld, of the runtime's queue.                                   *)
THEOREM RuntimeHoldsPendingWrites == Spec => []PendingIsHeld
BY RuntimeRunsTheQueue, PendingWritesAreHeld, PTL

(* WaitersWaitForWork, of the runtime's queue.                              *)
THEOREM RuntimeServesWaiters == Spec => []WaitersWaitForWork
BY RuntimeRunsTheQueue, WaitersAreServed, PTL

(* AcceptedInOrder, of the runtime's queue.                                 *)
THEOREM RuntimeKeepsOrder == Spec => AcceptedInOrder
BY RuntimeRunsTheQueue, OrderIsKept, PTL

(* ClosedAndDrainedIsSilent, of the runtime's queue.                        *)
THEOREM RuntimeClosesSilently == Spec => ClosedAndDrainedIsSilent
BY RuntimeRunsTheQueue, ClosedQueueIsSilent, PTL

-----------------------------------------------------------------------------
(* The inductive invariant of the lifetime.                                 *)
Unfinished == {c \in Callers : user[c] \in {"waiting", "using"}}

(* The connection is open while the resources are there, and what uses it   *)
(* needs them.                                                              *)
OpenWhileReady ==
  /\ init = "ready" <=> db = "open"
  /\ \A c \in Callers : user[c] = "using" => init = "ready"
  /\ ~Idle => init = "ready"
  /\ worker \in {"scheduled", "claimed"} => init = "ready"

(* The counter counts, and close() passes it only when nobody is left.      *)
UsersCounted ==
  /\ active = Cardinality(Unfinished)
  /\ closing <=> closer # "none"
  /\ closer \in {"resources", "worker", "queue", "database", "closed", "failed"} => Unfinished = {}

(* Where close() stands tells what it has shut down.                        *)
ShutDown ==
  /\ closer \in {"worker", "queue", "database", "failed"} => init = "ready"
  /\ closer = "closed" => init \in {"none", "failed", "dropped"}
  /\ closer \in {"worker", "queue", "database", "failed"} => worker # "scheduled"
  /\ closer \in {"queue", "database", "failed"} => worker # "claimed" /\ ~accepting
  /\ Closer \in drainWaiters \cup released => ~accepting
  /\ Closer \in released => Idle
  /\ closer \in {"database", "failed"} => Closer \in released

LifeInv == TypeOK /\ QueueInv /\ OpenWhileReady /\ UsersCounted /\ ShutDown

LEMMA LifeInit == Init => LifeInv
<1> SUFFICES ASSUME Init PROVE LifeInv
  OBVIOUS
<1>1. QueueInv
  BY QueueInvInit DEF Init
<1>2. Unfinished = {}
  BY DEF Init, Unfinished
<1>3. Cardinality(Unfinished) = 0 /\ Cardinality(Callers) \in Nat
  BY <1>2, RuntimeAssumption, FS_EmptySet, FS_CardinalityType
<1>4. TypeOK
  <2>1. user \in [Callers -> {"none", "waiting", "using", "ended"}] /\ active \in 0 .. Cardinality(Callers)
    BY <1>3 DEF Init
  <2>2. QueueTypeOK
    BY <1>1 DEF QueueInv
  <2> QED BY <2>1, <2>2 DEF Init, TypeOK
<1>5. OpenWhileReady /\ UsersCounted /\ ShutDown
  BY <1>2, <1>3 DEF Init, QueueInit, OpenWhileReady, UsersCounted, ShutDown, Idle
<1> QED BY <1>1, <1>4, <1>5 DEF LifeInv

(* Counting the unfinished users.                                           *)
LEMMA Counting ==
  ASSUME LifeInv
  PROVE  /\ IsFiniteSet(Unfinished) /\ active \in Nat
         /\ active = 0 <=> Unfinished = {}
         /\ \A c \in Callers \ Unfinished : Cardinality(Unfinished \cup {c}) = active + 1
         /\ \A c \in Unfinished : active > 0 /\ Cardinality(Unfinished \ {c}) = active - 1
         /\ \A S \in SUBSET Callers : Cardinality(S) \in 0 .. Cardinality(Callers)
<1>1. Unfinished \subseteq Callers /\ active = Cardinality(Unfinished)
  BY DEF LifeInv, UsersCounted, Unfinished
<1>2. \A S \in SUBSET Callers :
        IsFiniteSet(S) /\ Cardinality(S) \in Nat /\ Cardinality(S) <= Cardinality(Callers)
  BY RuntimeAssumption, FS_Subset, FS_CardinalityType
<1>3. IsFiniteSet(Unfinished) /\ active \in Nat
  BY <1>1, <1>2
<1>4. active = 0 <=> Unfinished = {}
  BY <1>1, <1>3, FS_EmptySet
<1>5. \A c \in Callers \ Unfinished : Cardinality(Unfinished \cup {c}) = active + 1
  BY <1>1, <1>3, FS_AddElement
<1>6. \A c \in Unfinished : active > 0 /\ Cardinality(Unfinished \ {c}) = active - 1
  <2> TAKE c \in Unfinished
  <2>1. active > 0
    BY <1>3, <1>4
  <2>2. Cardinality(Unfinished \ {c}) = active - 1
    BY <1>1, <1>3, FS_RemoveElement
  <2> QED BY <2>1, <2>2
<1>7. Cardinality(Callers) \in Nat
  BY RuntimeAssumption, FS_CardinalityType
<1> QED BY <1>2, <1>3, <1>4, <1>5, <1>6, <1>7

(* Steps that leave the users alone leave their count alone.                *)
LEMMA UsersUntouched ==
  ASSUME LifeInv, UNCHANGED <<user, active>>
  PROVE  /\ Unfinished' = Unfinished
         /\ active' \in 0 .. Cardinality(Callers) /\ active' = Cardinality(Unfinished')
<1>1. Unfinished' = Unfinished
  BY DEF Unfinished
<1> QED BY <1>1 DEF LifeInv, TypeOK, UsersCounted

(* Offering a write to the queue: it is taken in only while the queue       *)
(* accepts, and nobody who waits for it is released.                        *)
LEMMA OfferedToQueue ==
  ASSUME NEW w \in Writes, Enqueue(w)
  PROVE  /\ UNCHANGED <<accepting, drainWaiters, released>>
         /\ ~accepting => UNCHANGED <<running, items>>
BY DEF Enqueue, Admitted

LEMMA InitialisationKeeps ==
  ASSUME LifeInv, QueueInv', InitSucceeds \/ InitFails
  PROVE  LifeInv'
<1>1. /\ Unfinished' = Unfinished
      /\ active' \in 0 .. Cardinality(Callers) /\ active' = Cardinality(Unfinished')
  BY UsersUntouched DEF InitSucceeds, InitFails
<1>2. UNCHANGED <<closing, closer, active, user, parked, refused, awaited, accepting, running, items, drainWaiters, released>>
  BY DEF InitSucceeds, InitFails, queueVars
<1>3. TypeOK'
  BY <1>1, <1>2 DEF InitSucceeds, InitFails, LifeInv, TypeOK, QueueInv
<1>4. OpenWhileReady'
  BY <1>2 DEF InitSucceeds, InitFails, LifeInv, TypeOK, OpenWhileReady, Idle
<1>5. UsersCounted'
  BY <1>1, <1>2 DEF LifeInv, UsersCounted
<1>6. ShutDown'
  BY <1>2 DEF InitSucceeds, InitFails, LifeInv, TypeOK, ShutDown, Idle
<1> QED BY <1>3, <1>4, <1>5, <1>6 DEF LifeInv

LEMMA UsersKeep ==
  ASSUME LifeInv, QueueInv', NEW c \in Callers, WithDatabase(c) \/ Uses(c) \/ Ends(c)
  PROVE  LifeInv'
<1>1. /\ user \in [Callers -> {"none", "waiting", "using", "ended"}]
      /\ UNCHANGED <<db, closing, closer, parked, refused, worker, awaited, accepting, running, items, drainWaiters, released>>
  BY DEF LifeInv, TypeOK, WithDatabase, Uses, Ends, queueVars
<1>2. user' \in [Callers -> {"none", "waiting", "using", "ended"}]
  BY <1>1 DEF WithDatabase, Uses, Ends
<1>3. init' = init \/ (init = "none" /\ init' = "pending" /\ closer = "none")
  BY DEF WithDatabase, Uses, Ends, Requires, LifeInv, UsersCounted
<1>4. active' = Cardinality(Unfinished') /\ (Unfinished = {} /\ closing => Unfinished' = {})
  <2>1. CASE WithDatabase(c) /\ ~closing
    <3>1. c \notin Unfinished /\ Unfinished' = Unfinished \cup {c} /\ active' = active + 1
      BY <1>1, <2>1 DEF WithDatabase, Unfinished
    <3> QED BY <2>1, <3>1, Counting
  <2>2. CASE WithDatabase(c) /\ closing
    <3>1. Unfinished' = Unfinished /\ active' = active
      BY <1>1, <2>2 DEF WithDatabase, Unfinished
    <3> QED BY <3>1 DEF LifeInv, UsersCounted
  <2>3. CASE Uses(c)
    <3>1. Unfinished' = Unfinished /\ active' = active
      BY <1>1, <2>3 DEF Uses, Unfinished
    <3> QED BY <3>1 DEF LifeInv, UsersCounted
  <2>4. CASE Ends(c)
    <3>1. c \in Unfinished /\ Unfinished' = Unfinished \ {c} /\ active' = active - 1
      BY <1>1, <2>4 DEF Ends, Released, Unfinished
    <3> QED BY <3>1, Counting
  <2> QED BY <2>1, <2>2, <2>3, <2>4
<1>5. active' \in 0 .. Cardinality(Callers)
  <2>1. Unfinished' \in SUBSET Callers
    BY DEF Unfinished
  <2> QED BY <1>4, <2>1, Counting
<1>6. TypeOK'
  BY <1>1, <1>2, <1>3, <1>5 DEF LifeInv, TypeOK, QueueInv
<1>7. OpenWhileReady'
  <2>1. \A d \in Callers : user'[d] = "using" => init = "ready"
    BY <1>1 DEF WithDatabase, Uses, Ends, LifeInv, OpenWhileReady
  <2> QED BY <1>1, <1>3, <2>1 DEF LifeInv, OpenWhileReady, Idle
<1>8. UsersCounted'
  BY <1>1, <1>4 DEF LifeInv, UsersCounted
<1>9. ShutDown'
  BY <1>1, <1>3 DEF LifeInv, ShutDown, Idle
<1> QED BY <1>6, <1>7, <1>8, <1>9 DEF LifeInv

LEMMA WritersKeep ==
  ASSUME LifeInv, QueueInv', NEW w \in UserWrites, EnqueueWrite(w) \/ ResumeWrite(w)
  PROVE  LifeInv'
<1>1. /\ UNCHANGED <<db, closing, closer, active, user, worker, awaited>>
      /\ parked' \subseteq UserWrites /\ refused' \subseteq UserWrites
  BY DEF LifeInv, TypeOK, EnqueueWrite, ResumeWrite
<1>2. init' = init \/ (init = "none" /\ init' = "pending" /\ closer = "none")
  BY DEF EnqueueWrite, ResumeWrite, Requires, LifeInv, UsersCounted
<1>3. /\ UNCHANGED <<accepting, drainWaiters, released>>
      /\ ~accepting \/ init # "ready" => UNCHANGED <<running, items>>
  <2>1. (init = "ready" /\ Enqueue(w)) \/ UNCHANGED queueVars
    BY DEF EnqueueWrite, ResumeWrite
  <2> QED BY <2>1, OfferedToQueue DEF UserWrites, queueVars
<1>4. /\ Unfinished' = Unfinished
      /\ active' \in 0 .. Cardinality(Callers) /\ active' = Cardinality(Unfinished')
  BY <1>1, UsersUntouched
<1>5. TypeOK'
  BY <1>1, <1>2, <1>4 DEF LifeInv, TypeOK, QueueInv
<1>6. OpenWhileReady'
  BY <1>1, <1>2, <1>3 DEF LifeInv, OpenWhileReady, Idle
<1>7. UsersCounted'
  BY <1>1, <1>4 DEF LifeInv, UsersCounted
<1>8. ShutDown'
  BY <1>1, <1>2, <1>3 DEF LifeInv, ShutDown, Idle
<1> QED BY <1>5, <1>6, <1>7, <1>8 DEF LifeInv

(* The worker and the queue: a drain in progress keeps close() before the   *)
(* queue's shutdown, so what it stores is still taken in.                   *)
LEMMA WorkerKeeps ==
  ASSUME LifeInv, QueueInv',
         WorkerClaims \/ (\E w \in WorkerWrites : WorkerStores(w)) \/ WorkerWorks
  PROVE  LifeInv'
<1>1. UNCHANGED <<init, db, closing, closer, active, user, parked, refused>>
  BY DEF WorkerClaims, WorkerStores, WorkerWorks, WorkerGoesOn, WorkerEnds
<1>2. /\ UNCHANGED <<accepting, drainWaiters, released>>
      /\ ~accepting \/ init # "ready" => UNCHANGED <<running, items>>
  <2>1. CASE \E w \in WorkerWrites : WorkerStores(w)
    <3>1. PICK w \in WorkerWrites : WorkerStores(w)
      BY <2>1
    <3>2. w \in Writes /\ Enqueue(w) /\ init = "ready"
      BY <3>1, RuntimeAssumption DEF WorkerStores, LifeInv, OpenWhileReady
    <3> QED BY <3>2, OfferedToQueue
  <2>2. CASE WorkerClaims \/ WorkerWorks
    BY <2>2 DEF WorkerClaims, WorkerWorks, WorkerGoesOn, WorkerEnds, queueVars
  <2> QED BY <2>1, <2>2
<1>3. /\ worker' \in {"off", "scheduled", "claimed", "stopped"}
      /\ worker' \in {"scheduled", "claimed"} => worker \in {"scheduled", "claimed"}
      /\ worker' = "claimed" => worker \in {"scheduled", "claimed"}
      /\ closer \in {"worker", "queue", "database", "failed"} /\ worker # "scheduled" => worker' # "scheduled"
      /\ closer \in {"queue", "database", "failed"} /\ worker \notin {"scheduled", "claimed"} => worker' # "claimed"
  BY DEF WorkerClaims, WorkerStores, WorkerWorks, WorkerGoesOn, WorkerEnds, LifeInv, TypeOK
<1>4. awaited' \in WorkerWrites \cup {NoWrite}
  BY DEF WorkerClaims, WorkerStores, WorkerWorks, WorkerGoesOn, WorkerEnds, LifeInv, TypeOK
<1>5. /\ Unfinished' = Unfinished
      /\ active' \in 0 .. Cardinality(Callers) /\ active' = Cardinality(Unfinished')
  BY <1>1, UsersUntouched
<1>6. TypeOK'
  BY <1>1, <1>3, <1>4, <1>5 DEF LifeInv, TypeOK, QueueInv
<1>7. OpenWhileReady'
  BY <1>1, <1>2, <1>3 DEF LifeInv, OpenWhileReady, Idle
<1>8. UsersCounted'
  BY <1>1, <1>5 DEF LifeInv, UsersCounted
<1>9. ShutDown'
  BY <1>1, <1>2, <1>3 DEF LifeInv, ShutDown, Idle
<1> QED BY <1>6, <1>7, <1>8, <1>9 DEF LifeInv

LEMMA QueueKeeps ==
  ASSUME LifeInv, QueueInv', QueueWorks
  PROVE  LifeInv'
<1>1. UNCHANGED runtimeVars /\ UNCHANGED accepting /\ running # NoWrite
  BY DEF QueueWorks, QueueBegins, QueueFinishes, Begin, Finish
<1>2. init = "ready"
  BY <1>1 DEF LifeInv, OpenWhileReady, Idle
<1>3. Closer \notin released /\ (Closer \in released' => Closer \in drainWaiters /\ Idle')
      /\ (Closer \in drainWaiters' => Closer \in drainWaiters)
  <2>1. Closer \notin released
    BY <1>1 DEF LifeInv, ShutDown, Idle
  <2>2. CASE Begin
    BY <2>1, <2>2 DEF Begin
  <2>3. CASE \E outcome \in {"resolved", "rejected"} : Finish(outcome)
    BY <2>1, <2>3 DEF Finish, Releases, Take, Idle
  <2> QED BY <2>1, <2>2, <2>3 DEF QueueWorks, QueueBegins, QueueFinishes
<1>4. /\ Unfinished' = Unfinished
      /\ active' \in 0 .. Cardinality(Callers) /\ active' = Cardinality(Unfinished')
  BY <1>1, UsersUntouched DEF runtimeVars
<1>5. TypeOK'
  BY <1>1, <1>4 DEF LifeInv, TypeOK, QueueInv, runtimeVars
<1>6. OpenWhileReady'
  BY <1>1, <1>2 DEF LifeInv, OpenWhileReady, runtimeVars
<1>7. UsersCounted'
  BY <1>1, <1>4 DEF LifeInv, UsersCounted, runtimeVars
<1>8. ShutDown'
  BY <1>1, <1>3 DEF LifeInv, ShutDown, runtimeVars
<1> QED BY <1>5, <1>6, <1>7, <1>8 DEF LifeInv

(* close().                                                                 *)
LEMMA CloseKeeps ==
  ASSUME LifeInv, QueueInv', Close \/ Closes
  PROVE  LifeInv'
<1>1. UNCHANGED <<active, user, parked, refused, awaited, running, items>>
  BY DEF Close, Closes, AwaitUsers, UsersEnded, TakeResources, CloseWorker, CloseQueueEnds,
         CloseDatabase, CloseQueue, Drain, queueVars
<1>2. /\ Unfinished' = Unfinished
      /\ active' \in 0 .. Cardinality(Callers) /\ active' = Cardinality(Unfinished')
  BY <1>1, UsersUntouched
<1>3. CASE Close \/ AwaitUsers \/ UsersEnded
  <2>1. UNCHANGED <<init, db, worker, accepting, drainWaiters, released>>
    BY <1>3 DEF Close, AwaitUsers, UsersEnded, queueVars
  <2>2. closer' \in {"auxiliary", "users", "resources"} /\ closing' = TRUE
    BY <1>3 DEF Close, AwaitUsers, UsersEnded, LifeInv, UsersCounted, TypeOK
  <2>3. closer' = "resources" => Unfinished = {}
    BY <1>3, Counting DEF Close, AwaitUsers, UsersEnded
  <2>4. TypeOK'
    BY <1>1, <1>2, <2>1, <2>2 DEF LifeInv, TypeOK, QueueInv
  <2>5. OpenWhileReady' /\ UsersCounted' /\ ShutDown'
    BY <1>1, <1>2, <2>1, <2>2, <2>3 DEF LifeInv, OpenWhileReady, UsersCounted, ShutDown, Idle
  <2> QED BY <2>4, <2>5 DEF LifeInv
<1>4. CASE TakeResources
  <2>1. UNCHANGED <<init, db, closing, accepting, drainWaiters, released>>
    BY <1>4 DEF TakeResources, queueVars
  <2>2. TypeOK'
    BY <1>1, <1>2, <1>4, <2>1 DEF TakeResources, LifeInv, TypeOK, QueueInv
  <2>3. OpenWhileReady' /\ UsersCounted' /\ ShutDown'
    BY <1>1, <1>2, <1>4, <2>1
    DEF TakeResources, LifeInv, TypeOK, OpenWhileReady, UsersCounted, ShutDown, Idle
  <2> QED BY <2>2, <2>3 DEF LifeInv
<1>5. CASE CloseWorker
  <2>1. /\ UNCHANGED <<init, db, closing, worker>>
        /\ closer = "worker" /\ closer' = "queue" /\ worker # "claimed" /\ accepting' = FALSE
        /\ Closer \in released' => Closer \in released \/ Idle
    BY <1>5 DEF CloseWorker, WorkerEnded, CloseQueue, Drain
  <2>2. TypeOK'
    BY <1>1, <1>2, <2>1 DEF LifeInv, TypeOK, QueueInv
  <2>3. OpenWhileReady' /\ UsersCounted' /\ ShutDown'
    BY <1>1, <1>2, <2>1 DEF LifeInv, OpenWhileReady, UsersCounted, ShutDown, Idle
  <2> QED BY <2>2, <2>3 DEF LifeInv
<1>6. CASE CloseQueueEnds \/ CloseDatabase
  <2>1. UNCHANGED <<closing, worker, accepting, drainWaiters, released>>
    BY <1>6 DEF CloseQueueEnds, CloseDatabase, queueVars
  <2>2. TypeOK'
    BY <1>1, <1>2, <1>6, <2>1 DEF CloseQueueEnds, CloseDatabase, LifeInv, TypeOK, QueueInv
  <2>3. closer \in {"queue", "database"} /\ Closer \in released /\ Idle /\ Unfinished = {}
    BY <1>6 DEF CloseQueueEnds, QueueDrained, CloseDatabase, LifeInv, UsersCounted, ShutDown
  <2>4. \A c \in Callers : user[c] # "using"
    BY <2>3 DEF Unfinished
  <2>5. OpenWhileReady' /\ UsersCounted' /\ ShutDown'
    BY <1>1, <1>2, <1>6, <2>1, <2>3, <2>4
    DEF CloseQueueEnds, CloseDatabase, LifeInv, TypeOK, OpenWhileReady, UsersCounted, ShutDown, Idle
  <2> QED BY <2>2, <2>5 DEF LifeInv
<1> QED BY <1>3, <1>4, <1>5, <1>6 DEF Closes

LEMMA LifeStep == LifeInv /\ [Next]_vars => LifeInv'
<1> SUFFICES ASSUME LifeInv, [Next]_vars PROVE LifeInv'
  OBVIOUS
<1>0. QueueInv'
  BY StepIsQueueStep, QueueInvStep DEF LifeInv
<1>1. CASE UNCHANGED vars
  <2>1. /\ Unfinished' = Unfinished
        /\ active' \in 0 .. Cardinality(Callers) /\ active' = Cardinality(Unfinished')
    BY <1>1, UsersUntouched DEF vars, runtimeVars
  <2>2. TypeOK'
    BY <1>0, <1>1, <2>1 DEF LifeInv, TypeOK, QueueInv, vars, runtimeVars
  <2>3. OpenWhileReady' /\ UsersCounted' /\ ShutDown'
    BY <1>1, <2>1 DEF LifeInv, OpenWhileReady, UsersCounted, ShutDown, Idle, vars, runtimeVars, queueVars
  <2> QED BY <1>0, <2>2, <2>3 DEF LifeInv
<1>2. CASE InitSucceeds \/ InitFails
  BY <1>0, <1>2, InitialisationKeeps
<1>3. CASE \E c \in Callers : WithDatabase(c) \/ Uses(c) \/ Ends(c)
  BY <1>0, <1>3, UsersKeep
<1>4. CASE \E w \in UserWrites : EnqueueWrite(w) \/ ResumeWrite(w)
  BY <1>0, <1>4, WritersKeep
<1>5. CASE QueueWorks
  BY <1>0, <1>5, QueueKeeps
<1>6. CASE WorkerClaims \/ (\E w \in WorkerWrites : WorkerStores(w)) \/ WorkerWorks
  BY <1>0, <1>6, WorkerKeeps
<1>7. CASE Close \/ Closes
  BY <1>0, <1>7, CloseKeeps
<1> QED BY <1>1, <1>2, <1>3, <1>4, <1>5, <1>6, <1>7 DEF Next

LEMMA LifeInvariant == Spec => []LifeInv
BY LifeInit, LifeStep, PTL DEF Spec

-----------------------------------------------------------------------------
(* Theorems about the lifetime.                                             *)

(* TypeOK of the runtime and its queue.                                     *)
THEOREM RuntimeTypeCorrect == Spec => []TypeOK
<1>1. LifeInv => TypeOK
  BY DEF LifeInv
<1> QED BY <1>1, LifeInvariant, PTL

(* NoUseOutsideLifetime: no direct user, queued write or drain of the       *)
(* worker touches the connection before it is open or after it is closed.   *)
THEOREM UsedOnlyWhileOpen == Spec => []NoUseOutsideLifetime
<1>1. LifeInv => NoUseOutsideLifetime
  BY DEF LifeInv, OpenWhileReady, NoUseOutsideLifetime, Idle
<1> QED BY <1>1, LifeInvariant, PTL

(* ClosedLeavesNothing: when the connection goes away every accepted write  *)
(* has settled and every admitted call of withDatabase() has ended.         *)
THEOREM CloseAbandonsNothing == Spec => []ClosedLeavesNothing
<1>1. LifeInv => ClosedLeavesNothing
  <2> SUFFICES ASSUME LifeInv, closer \in {"database", "closed", "failed"}
               PROVE  /\ \A w \in Writes : promise[w] # "pending"
                      /\ \A c \in Callers : user[c] \in {"none", "ended"}
    BY DEF ClosedLeavesNothing
  <2>1. Unfinished = {} /\ user \in [Callers -> {"none", "waiting", "using", "ended"}]
    BY DEF LifeInv, UsersCounted, TypeOK
  <2>2. \A c \in Callers : user[c] \in {"none", "ended"}
    BY <2>1 DEF Unfinished
  <2>3. Idle
    BY DEF LifeInv, ShutDown, OpenWhileReady
  <2>4. ToSet(items) = {}
    BY <2>3 DEF Idle, ToSet
  <2>5. \A w \in Writes : promise[w] # "pending"
    BY <2>3, <2>4, QueueAssumption DEF LifeInv, QueueInv, PendingIsHeld, Idle
  <2> QED BY <2>2, <2>5
<1> QED BY <1>1, LifeInvariant, PTL
=============================================================================
