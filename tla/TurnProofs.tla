------------------------------ MODULE TurnProofs ------------------------------
(* Proofs about what follows a native turn and what begins in one: first    *)
(* TurnBoundary, for any messages, workers, limit and number of attempts,   *)
(* then OnDemandIntake.  What a worker carries towards the native agent was *)
(* decided about before, and stays decided, or its row was closed or        *)
(* replaced.  What the intake lets through rests on the request in force.   *)
EXTENDS TurnBoundary, OnDemandIntake, FiniteSetTheorems, TLAPS

Ats == {"off", "idle", "stage", "asking", "deliver", "flushing", "sending", "marking",
        "settling", "failing", "telling"}
Verdicts == {"none", "superseded", "waiting_user", "completed", "next", "transient", "permanent"}
(* Loose: a drain that settles writes its verdict as the status.            *)
Statuses == Verdicts \cup {"pending", "processing", "failed_retryable"}
Forms == {"continuation", "loop-recovery"}

JobRow == [status : Statuses, owner : Workers \cup {NoWorker}, attempts : 0..MaxAttempts, due : BOOLEAN]
OutboxRow == [status : {"pending", "dispatched", "observed", "superseded"}, form : Forms]
Claims == [decision : {"none", "deliver", "wait_user"}, generation : Nat,
           resolution : {"none", "manual_user", "user_answer"}]
Guards == [generation : Nat, known : BOOLEAN, count : 0..Limit]
Drains == [at : Ats, job : Jobs \cup {<<>>}, attempts : 0..MaxAttempts, aborted : BOOLEAN, verdict : Verdicts]

Types ==
  /\ job \in [Jobs -> JobRow] /\ outbox \in [Messages -> OutboxRow]
  /\ claim \in [Messages -> Claims] /\ guard \in Guards
  /\ drain \in [Workers -> Drains]
  /\ given \in [Messages -> SUBSET Forms]
  /\ \A w \in Workers : Busy(w) => Mine(w) \in Jobs

(* Sent by themselves in one generation of the guard.                       *)
Sent(g) == {m \in Messages : claim[m].decision = "deliver" /\ claim[m].generation = g}
Counted ==
  /\ \A g \in Nat : Cardinality(Sent(g)) <= Limit
  /\ guard.known => Cardinality(Sent(guard.generation)) <= guard.count
  /\ \A m \in Messages : claim[m].decision = "deliver" =>
       claim[m].generation < guard.generation \/ (claim[m].generation = guard.generation /\ guard.known)

(* A continuation that could still be sent as it is.                        *)
Live(m) == Open(m) /\ outbox[m].form = "continuation"
Allowed(m) == claim[m].decision = "deliver"
Carried ==
  \A w \in Workers : drain[w].at \in {"deliver", "flushing", "sending", "marking"} /\ Live(Message(w))
    => Allowed(Message(w))
Decided ==
  \A m \in Messages :
    /\ Live(m) /\ (outbox[m].status = "dispatched" \/ claim[m].resolution = "user_answer") => Allowed(m)
    /\ "continuation" \in given[m] => Allowed(m)

IInv == Types /\ Counted /\ Carried /\ Decided

-----------------------------------------------------------------------------
(* The record of a drain after one of its steps.                            *)
LEMMA GoMoves ==
  ASSUME drain \in [Workers -> Drains], NEW w \in Workers, NEW a \in Ats, NEW v \in Verdicts, Go(w, a, v)
  PROVE  /\ drain' \in [Workers -> Drains] /\ \A x \in Workers \ {w} : drain'[x] = drain[x]
         /\ drain'[w].at = a /\ drain'[w].job = drain[w].job
<1> DEFINE r == [drain[w] EXCEPT !.at = a, !.verdict = v]
<1>1. drain' = [drain EXCEPT ![w] = r]
  BY DEF Go
<1>2. r \in Drains
  BY DEF Drains
<1>3. r.at = a /\ r.job = drain[w].job
  BY DEF Drains
<1> HIDE DEF r
<1> QED BY <1>1, <1>2, <1>3

LEMMA ReturnMoves ==
  ASSUME drain \in [Workers -> Drains], NEW w \in Workers, Returns(w)
  PROVE  /\ drain' \in [Workers -> Drains] /\ \A x \in Workers \ {w} : drain'[x] = drain[x]
         /\ drain'[w].at = "idle"
<1>1. Working("idle", <<>>, 0) \in Drains /\ Working("idle", <<>>, 0).at = "idle"
  BY BoundaryAssumption DEF Working, Drains, Ats, Verdicts
<1> QED BY <1>1 DEF Returns

(* A claim of the guard, and its reset, keep its type and its count.        *)
LEMMA DecideCounts ==
  ASSUME Types, Counted, NEW m \in Messages, Decide(m)
  PROVE  /\ guard' \in Guards /\ claim' \in [Messages -> Claims] /\ Counted'
         /\ \A x \in Messages : Allowed(x) => Allowed(x)'
         /\ \A x \in Messages : claim'[x].resolution = claim[x].resolution
<1> DEFINE G == /\ guard' \in Guards /\ claim' \in [Messages -> Claims] /\ Counted'
                /\ \A x \in Messages : Allowed(x) => Allowed(x)'
                /\ \A x \in Messages : claim'[x].resolution = claim[x].resolution
           g == IF guard.known THEN guard.generation ELSE guard.generation + 1
           n == IF guard.known THEN guard.count ELSE 0
<1>1. /\ claim \in [Messages -> Claims] /\ guard \in Guards /\ guard.generation \in Nat
      /\ guard.count \in 0..Limit /\ guard.known \in BOOLEAN /\ Limit \in Nat \ {0}
  BY BoundaryAssumption DEF Types, Guards
<1>2. \A x \in Messages : /\ claim[x].decision \in {"none", "deliver", "wait_user"} /\ claim[x].generation \in Nat
                          /\ claim[x].resolution \in {"none", "manual_user", "user_answer"}
  BY <1>1 DEF Claims
<1>3. CASE claim[m].decision # "none"
  BY <1>1, <1>3 DEF Decide, loop, Counted, Sent, Allowed
<1>4. CASE claim[m].decision = "none"
  <2>1. /\ guard' = [generation |-> g, known |-> TRUE, count |-> IF Blocks THEN n ELSE n + 1]
        /\ claim' = [claim EXCEPT ![m] = [decision |-> IF Blocks THEN "wait_user" ELSE "deliver",
                                          generation |-> g, resolution |-> @.resolution]]
    BY <1>4 DEF Decide
  <2>2. g \in Nat /\ n \in 0..Limit /\ (~Blocks => n + 1 \in 0..Limit)
    BY <1>1 DEF Blocks
  <2>3. guard' \in Guards /\ guard'.generation = g /\ guard'.known = TRUE /\ guard'.count = IF Blocks THEN n ELSE n + 1
    BY <2>1, <2>2 DEF Guards
  <2>4. [decision |-> IF Blocks THEN "wait_user" ELSE "deliver", generation |-> g, resolution |-> claim[m].resolution] \in Claims
    BY <1>2, <2>2 DEF Claims
  <2>5. /\ claim' \in [Messages -> Claims]
        /\ \A x \in Messages \ {m} : claim'[x] = claim[x]
        /\ claim'[m].decision = (IF Blocks THEN "wait_user" ELSE "deliver")
        /\ claim'[m].generation = g /\ claim'[m].resolution = claim[m].resolution
    BY <1>1, <2>1, <2>4
  <2> HIDE DEF g, n
  <2>6. (\A x \in Messages : Allowed(x) => Allowed(x)') /\ (\A x \in Messages : claim'[x].resolution = claim[x].resolution)
    BY <1>4, <2>5 DEF Allowed
  <2>7. \A h \in Nat : IsFiniteSet(Sent(h)) /\ Cardinality(Sent(h)) \in Nat
    BY BoundaryAssumption, FS_Subset, FS_CardinalityType DEF Sent
  <2>8. \A h \in Nat : Sent(h)' = IF h = g /\ ~Blocks THEN Sent(h) \cup {m} ELSE Sent(h)
    BY <1>4, <2>5 DEF Sent
  <2>9. m \notin Sent(g)
    BY <1>4 DEF Sent
  <2>10. Cardinality(Sent(g)) <= n
    <3>1. CASE guard.known
      BY <3>1 DEF Counted, g, n
    <3>2. CASE ~guard.known
      <4>1. Sent(g) = {}
        BY <1>1, <1>2, <3>2 DEF Counted, Sent, g
      <4> QED BY <3>2, <4>1, FS_EmptySet DEF n
    <3> QED BY <3>1, <3>2
  <2>11. Cardinality(Sent(g) \cup {m}) = Cardinality(Sent(g)) + 1
    BY <2>2, <2>7, <2>9, FS_AddElement
  <2>12. \A h \in Nat : Cardinality(Sent(h)') <= Limit
    <3> SUFFICES ASSUME NEW h \in Nat PROVE Cardinality(Sent(h)') <= Limit
      OBVIOUS
    <3>1. CASE h = g /\ ~Blocks
      <4>1. Sent(h)' = Sent(h) \cup {m} /\ Cardinality(Sent(h)) <= n /\ Cardinality(Sent(h)) \in Nat
            /\ Cardinality(Sent(h) \cup {m}) = Cardinality(Sent(h)) + 1
        BY <2>2, <2>7, <2>8, <2>10, <2>11, <3>1
      <4> QED BY <1>1, <2>2, <3>1, <4>1
    <3>2. CASE ~(h = g /\ ~Blocks)
      BY <2>8, <3>2 DEF Counted
    <3> QED BY <3>1, <3>2
  <2>13. ASSUME NEW h \in Nat, h = g PROVE Cardinality(Sent(h)') <= guard'.count
    <3>1. Cardinality(Sent(h)) <= n /\ Cardinality(Sent(h)) \in Nat
          /\ Cardinality(Sent(h) \cup {m}) = Cardinality(Sent(h)) + 1
      BY <2>2, <2>7, <2>10, <2>11, <2>13
    <3>2. CASE Blocks
      BY <2>3, <2>8, <2>13, <3>1, <3>2
    <3>3. CASE ~Blocks
      <4>1. Sent(h)' = Sent(h) \cup {m}
        BY <2>8, <2>13, <3>3
      <4> QED BY <2>2, <2>3, <3>1, <3>3, <4>1
    <3> QED BY <3>2, <3>3
  <2>14. \A x \in Messages : claim'[x].decision = "deliver" => claim'[x].generation <= g
    BY <1>1, <1>2, <2>2, <2>5 DEF Counted, g
  <2>15. \A x \in Messages : claim'[x].generation \in Nat
    BY <1>2, <2>2, <2>5
  <2>16. Counted'
    BY <2>2, <2>3, <2>12, <2>13, <2>14, <2>15 DEF Counted, Sent
  <2> QED BY <2>3, <2>5, <2>6, <2>16
<1> QED BY <1>3, <1>4

LEMMA ResetCounts ==
  ASSUME Types, Counted, NEW ms, NEW r \in {"manual_user", "user_answer"}, ResetGuard(ms, r)
  PROVE  /\ guard' \in Guards /\ claim' \in [Messages -> Claims] /\ Counted'
         /\ \A x \in Messages : claim'[x].decision = claim[x].decision
         /\ \A x \in Messages : (claim'[x].resolution = claim[x].resolution \/ (x \in ms /\ claim'[x].resolution = r))
<1>1. /\ claim \in [Messages -> Claims] /\ guard \in Guards /\ guard.generation \in Nat /\ Limit \in Nat \ {0}
  BY BoundaryAssumption DEF Types, Guards
<1>2. guard' = [generation |-> guard.generation + 1, count |-> 0, known |-> FALSE]
  BY DEF ResetGuard
<1>3. guard' \in Guards /\ guard'.generation = guard.generation + 1 /\ guard'.known = FALSE
  BY <1>1, <1>2 DEF Guards
<1>4. \A x \in Messages : [claim[x] EXCEPT !.resolution = r] \in Claims
  BY <1>1 DEF Claims
<1>5. /\ claim' \in [Messages -> Claims]
  BY <1>1, <1>4 DEF ResetGuard
<1>6. \A x \in Messages : /\ claim'[x].decision = claim[x].decision /\ claim'[x].generation = claim[x].generation
                          /\ (claim'[x].resolution = claim[x].resolution \/ (x \in ms /\ claim'[x].resolution = r))
  <2> SUFFICES ASSUME NEW x \in Messages
      PROVE  /\ claim'[x].decision = claim[x].decision /\ claim'[x].generation = claim[x].generation
             /\ (claim'[x].resolution = claim[x].resolution \/ (x \in ms /\ claim'[x].resolution = r))
    OBVIOUS
  <2> DEFINE c == [claim[x] EXCEPT !.resolution = r]
  <2>1. c.decision = claim[x].decision /\ c.generation = claim[x].generation /\ c.resolution = r
    BY <1>1 DEF Claims
  <2>2. claim'[x] = claim[x] \/ (x \in ms /\ claim'[x] = c)
    BY Zenon DEF ResetGuard
  <2> HIDE DEF c
  <2> QED BY <2>1, <2>2
<1>7. \A g \in Nat : Sent(g)' = Sent(g)
  BY <1>6 DEF Sent
<1>8. \A x \in Messages : claim[x].generation \in Nat
  BY <1>1 DEF Claims
<1>9. Counted'
  <2>1. \A g \in Nat : Cardinality(Sent(g)') <= Limit
    BY <1>7 DEF Counted
  <2>2. \A x \in Messages : claim'[x].decision = "deliver" => claim'[x].generation < guard'.generation
    BY <1>1, <1>3, <1>6, <1>8 DEF Counted
  <2> QED BY <1>3, <2>1, <2>2 DEF Counted, Sent
<1> QED BY <1>3, <1>5, <1>6, <1>9

-----------------------------------------------------------------------------
(* What a step has to show.                                                 *)
Carrying == {"deliver", "flushing", "sending", "marking"}
LEMMA Enough ==
  ASSUME IInv, Types', Counted',
         \A m \in Messages : (Live(m)' => Live(m)) /\ (Allowed(m) => Allowed(m)'),
         \A m \in Messages : Live(m)' /\ (outbox'[m].status = "dispatched" \/ claim'[m].resolution = "user_answer")
           => Allowed(m)' \/ outbox[m].status = "dispatched" \/ claim[m].resolution = "user_answer",
         \A m \in Messages : "continuation" \in given'[m] => Allowed(m)' \/ "continuation" \in given[m],
         \A w \in Workers, m \in Messages : drain'[w].at \in Carrying /\ drain'[w].job[1] = m /\ Live(m)' =>
           Allowed(m)' \/ (drain'[w].job = drain[w].job /\ drain[w].at \in Carrying)
  PROVE  IInv'
<1>1. \A w \in Workers : drain'[w].at \in Carrying => drain'[w].job[1] \in Messages
  BY DEF Types, Busy, At, Mine, Jobs, Carrying
<1>2. Carried'
  BY <1>1 DEF IInv, Carried, Carrying, Message, Mine
<1>3. Decided'
  BY DEF IInv, Decided
<1> QED BY <1>2, <1>3 DEF IInv

(* Steps that leave messages, claims and the guard alone.                   *)
LEMMA CalmStep ==
  ASSUME IInv, UNCHANGED <<outbox, claim, guard, given>>,
         job' \in [Jobs -> JobRow], drain' \in [Workers -> Drains],
         \A w \in Workers : drain'[w].at \notin {"off", "idle"} => drain'[w].job \in Jobs,
         \A w \in Workers, m \in Messages : drain'[w].at \in Carrying /\ drain'[w].job[1] = m /\ Live(m) =>
           Allowed(m) \/ (drain'[w].job = drain[w].job /\ drain[w].at \in Carrying)
  PROVE  IInv'
<1>1. Types'
  BY DEF IInv, Types, Busy, At, Mine
<1>2. Counted'
  BY DEF IInv, Counted, Sent
<1>3. \A m : (Live(m)' <=> Live(m)) /\ (Allowed(m)' <=> Allowed(m))
  BY DEF Live, Allowed, Open
<1> QED BY <1>1, <1>2, <1>3, Enough

(* ... and the rows of the jobs as well, one worker moving.                 *)
LEMMA CalmMove ==
  ASSUME IInv, UNCHANGED <<outbox, claim, guard, given>>, job' \in [Jobs -> JobRow],
         NEW w \in Workers, drain' \in [Workers -> Drains], \A x \in Workers \ {w} : drain'[x] = drain[x],
         drain'[w].at \in {"off", "idle"} \/ (drain'[w].job = drain[w].job /\ Busy(w)),
         drain'[w].at \in Carrying => drain[w].at \in Carrying \/ ~Live(Message(w))
  PROVE  IInv'
<1>1. \A x \in Workers : drain'[x].at \notin {"off", "idle"} => drain'[x].job \in Jobs
  BY DEF IInv, Types, Busy, At, Mine
<1>2. \A x \in Workers, m \in Messages : drain'[x].at \in Carrying /\ drain'[x].job[1] = m /\ Live(m) =>
           Allowed(m) \/ (drain'[x].job = drain[x].job /\ drain[x].at \in Carrying)
  BY DEF Carrying, Message, Mine
<1> QED BY <1>1, <1>2, CalmStep

-----------------------------------------------------------------------------
LEMMA RowSet ==
  ASSUME NEW r \in JobRow, NEW s \in Statuses
  PROVE  /\ [r EXCEPT !.status = s, !.owner = NoWorker] \in JobRow
         /\ \A b \in BOOLEAN : [r EXCEPT !.due = b] \in JobRow
         /\ [r EXCEPT !.status = s, !.owner = NoWorker, !.due = TRUE] \in JobRow
  BY DEF JobRow

(* The empty claims and the first jobs satisfy the invariant.               *)
LEMMA InitInv == Init => IInv
<1> SUFFICES ASSUME Init PROVE IInv
  OBVIOUS
<1>1. Row \in JobRow /\ NoRow \in JobRow
  BY BoundaryAssumption DEF Row, NoRow, Unowned, JobRow, Statuses, Verdicts
<1>2. Off \in Drains /\ Off.at = "off"
  BY BoundaryAssumption DEF Off, Working, Drains, Ats, Verdicts
<1>3. \A m \in Messages : /\ outbox[m] = [status |-> "pending", form |-> "continuation"] /\ given[m] = {}
                          /\ claim[m] = [decision |-> "none", generation |-> 0, resolution |-> "none"]
  BY DEF Init
<1>4. \A w \in Workers : drain[w] = Off
  BY DEF Init
<1>5. Types
  <2>1. job \in [Jobs -> JobRow]
    BY <1>1 DEF Init
  <2>2. outbox \in [Messages -> OutboxRow] /\ claim \in [Messages -> Claims] /\ given \in [Messages -> SUBSET Forms]
    BY <1>3 DEF Init, OutboxRow, Claims, Forms
  <2>3. guard \in Guards
    BY BoundaryAssumption DEF Init, Guards
  <2>4. drain \in [Workers -> Drains] /\ \A w \in Workers : ~Busy(w)
    BY <1>2, <1>4 DEF Init, Busy
  <2> QED BY <2>1, <2>2, <2>3, <2>4 DEF Types
<1>6. Counted
  <2>1. \A g \in Nat : Sent(g) = {}
    BY <1>3 DEF Sent
  <2>2. guard = [generation |-> 0, count |-> 0, known |-> TRUE]
    BY DEF Init
  <2> QED BY <1>3, <2>1, <2>2, FS_EmptySet, BoundaryAssumption DEF Counted
<1>7. Carried /\ Decided
  BY <1>2, <1>3, <1>4 DEF Carried, Decided, Live, Allowed, Open
<1> QED BY <1>5, <1>6, <1>7 DEF IInv

-----------------------------------------------------------------------------
(* One worker's own steps, and the others'.                                 *)
LEMMA StepInv == ASSUME IInv, [Next]_vars PROVE IInv'
<1>1. /\ job \in [Jobs -> JobRow] /\ outbox \in [Messages -> OutboxRow] /\ claim \in [Messages -> Claims]
      /\ drain \in [Workers -> Drains] /\ given \in [Messages -> SUBSET Forms] /\ guard \in Guards
      /\ Types /\ Counted
      /\ \A w \in Workers : Busy(w) => Mine(w) \in Jobs /\ Message(w) \in Messages
  BY DEF IInv, Types, Jobs, Message
<1>2. \A j \in Jobs : job[j].attempts \in 0..MaxAttempts
  BY <1>1 DEF JobRow
<1>3. \A m \in Messages : outbox[m].status \in {"pending", "dispatched", "observed", "superseded"} /\ outbox[m].form \in Forms
  BY <1>1 DEF OutboxRow
<1>4. ASSUME NEW w \in Workers, Start(w) PROVE IInv'
  BY <1>1, <1>4, ReturnMoves, CalmMove DEF Start, rows, loop, world, Carrying
<1>5. ASSUME NEW w \in Workers, Crash(w) PROVE IInv'
  <2>1. Off \in Drains /\ Off.at = "off"
    BY BoundaryAssumption DEF Off, Working, Drains, Ats, Verdicts
  <2>2. drain' = [drain EXCEPT ![w] = Off] /\ UNCHANGED <<job, outbox, claim, guard, given>>
    BY <1>5 DEF Crash, rows, loop
  <2>3. drain' \in [Workers -> Drains] /\ drain'[w].at = "off" /\ \A x \in Workers \ {w} : drain'[x] = drain[x]
    BY <1>1, <2>1, <2>2
  <2> QED BY <1>1, <2>2, <2>3, CalmMove DEF Carrying
<1>6. ASSUME NEW w \in Workers, NEW j \in Jobs, Claim(w, j) PROVE IInv'
  <2> DEFINE n == IF job[j].attempts = MaxAttempts THEN MaxAttempts ELSE job[j].attempts + 1
             r == [status |-> "processing", owner |-> w, attempts |-> n, due |-> TRUE]
  <2>1. n \in 0..MaxAttempts
    BY <1>2, BoundaryAssumption
  <2>2. /\ job' = [job EXCEPT ![j] = r] /\ drain' = [drain EXCEPT ![w] = Working("stage", j, n)]
        /\ UNCHANGED <<outbox, claim, guard, given>>
    BY <1>6 DEF Claim, loop, world
  <2> HIDE DEF n
  <2>3. r \in JobRow
    BY <2>1 DEF JobRow, Statuses, Verdicts
  <2>4. Working("stage", j, n) \in Drains /\ Working("stage", j, n).at = "stage" /\ Working("stage", j, n).job = j
    BY <2>1 DEF Working, Drains, Ats, Verdicts
  <2> HIDE DEF r
  <2>5. job' \in [Jobs -> JobRow]
    BY <1>1, <2>2, <2>3
  <2>6. /\ drain' \in [Workers -> Drains] /\ \A x \in Workers \ {w} : drain'[x] = drain[x]
        /\ drain'[w].at = "stage" /\ drain'[w].job = j
    BY <1>1, <2>2, <2>4
  <2>7. \A x \in Workers : drain'[x].at \notin {"off", "idle"} => drain'[x].job \in Jobs
    BY <1>1, <2>6 DEF Busy, At, Mine
  <2>8. \A x \in Workers, m \in Messages : drain'[x].at \in Carrying /\ drain'[x].job[1] = m /\ Live(m) =>
           Allowed(m) \/ (drain'[x].job = drain[x].job /\ drain[x].at \in Carrying)
    BY <2>6 DEF Carrying
  <2> QED BY <2>2, <2>5, <2>6, <2>7, <2>8, CalmStep
<1>7. ASSUME NEW w \in Workers, Abandon(w) PROVE IInv'
  BY <1>1, <1>7, ReturnMoves, CalmMove DEF Abandon, rows, loop, world, Carrying
<1>8. ASSUME NEW w \in Workers, Gate(w) PROVE IInv'
  <2>1. Busy(w) /\ UNCHANGED <<job, outbox, claim, guard, given>>
    BY <1>8 DEF Gate, At, Busy, rows, loop, world
  <2>2. PICK a \in {"settling", "failing", "deliver"}, v \in Verdicts :
          Go(w, a, v) /\ (a = "deliver" => outbox[Message(w)].form = "loop-recovery")
    BY <1>8 DEF Gate, Verdicts
  <2>3. /\ drain' \in [Workers -> Drains] /\ \A x \in Workers \ {w} : drain'[x] = drain[x]
        /\ drain'[w].at = a /\ drain'[w].job = drain[w].job
    BY <1>1, <2>2, GoMoves DEF Ats
  <2> QED BY <1>1, <2>1, <2>2, <2>3, CalmMove DEF Carrying, Live
<1>9. ASSUME NEW w \in Workers, GuardDecides(w) PROVE IInv'
  <2> DEFINE m == Message(w)
  <2>1. Busy(w) /\ Live(m) /\ Decide(m) /\ UNCHANGED <<job, outbox, given>>
    BY <1>9 DEF GuardDecides, At, Busy, Live, rows, world
  <2>2. m \in Messages
    BY <1>1, <2>1
  <2>3. /\ guard' \in Guards /\ claim' \in [Messages -> Claims] /\ Counted'
        /\ \A x \in Messages : Allowed(x) => Allowed(x)'
        /\ \A x \in Messages : claim'[x].resolution = claim[x].resolution
    BY <1>1, <2>1, <2>2, DecideCounts
  <2>4. PICK a \in {"settling", "asking", "deliver"}, v \in Verdicts :
          Go(w, a, v) /\ (a = "deliver" => claim'[m].decision = "deliver" \/ claim[m].resolution = "user_answer")
    BY <1>9 DEF GuardDecides, Verdicts
  <2>5. /\ drain' \in [Workers -> Drains] /\ \A x \in Workers \ {w} : drain'[x] = drain[x]
        /\ drain'[w].at = a /\ drain'[w].job = drain[w].job
    BY <1>1, <2>4, GoMoves DEF Ats
  <2>6. a = "deliver" => claim'[m].decision = "deliver"
    BY <2>1, <2>2, <2>3, <2>4 DEF IInv, Decided, Allowed
  <2>7. Types'
    BY <1>1, <2>1, <2>3, <2>5 DEF Types, Busy, At, Mine
  <2>8. \A x \in Messages : Live(x)' <=> Live(x)
    BY <2>1 DEF Live, Open
  <2>9. \A x \in Workers, y \in Messages : drain'[x].at \in Carrying /\ drain'[x].job[1] = y /\ Live(y)' =>
           Allowed(y)' \/ (drain'[x].job = drain[x].job /\ drain[x].at \in Carrying)
    BY <2>4, <2>5, <2>6 DEF Carrying, Allowed, Message, Mine
  <2> QED BY <2>1, <2>3, <2>7, <2>8, <2>9, Enough
<1>10. ASSUME NEW w \in Workers, Process(w) PROVE IInv'
  <2> DEFINE m == Message(w)
  <2>1. Busy(w) /\ UNCHANGED <<job, claim, guard, given>> /\ m \in Messages
    BY <1>1, <1>10 DEF Process, At, Busy, loop, world
  <2>2. PICK a \in {"settling", "failing", "asking"}, v \in Verdicts : Go(w, a, v)
    BY <1>10 DEF Process, Verdicts
  <2>3. /\ drain' \in [Workers -> Drains] /\ \A x \in Workers \ {w} : drain'[x] = drain[x]
        /\ drain'[w].at = a /\ drain'[w].job = drain[w].job
    BY <1>1, <2>2, GoMoves DEF Ats
  <2>4. \/ outbox' = outbox
        \/ outbox' = [outbox EXCEPT ![m].status = IF Open(m) THEN "superseded" ELSE @]
    BY <1>10 DEF Process
  <2>5. /\ outbox' \in [Messages -> OutboxRow]
        /\ \A x \in Messages : outbox'[x].form = outbox[x].form /\ outbox'[x].status \in {outbox[x].status, "superseded"}
    <3>1. [outbox[m] EXCEPT !.status = IF Open(m) THEN "superseded" ELSE @] \in OutboxRow
      BY <1>1, <2>1 DEF OutboxRow
    <3>2. CASE outbox' = outbox
      BY <1>1, <3>2
    <3>3. CASE outbox' = [outbox EXCEPT ![m].status = IF Open(m) THEN "superseded" ELSE @]
      BY <1>1, <2>1, <3>1, <3>3 DEF OutboxRow
    <3> QED BY <2>4, <3>2, <3>3
  <2>6. Types' /\ Counted'
    BY <1>1, <2>1, <2>3, <2>5 DEF Types, Counted, Sent, Busy, At, Mine
  <2>7. \A x \in Messages : Live(x)' => Live(x) /\ outbox'[x].status = outbox[x].status
    BY <2>5 DEF Live, Open
  <2>8. \A x \in Workers, y \in Messages : drain'[x].at \in Carrying /\ drain'[x].job[1] = y /\ Live(y)' =>
           Allowed(y)' \/ (drain'[x].job = drain[x].job /\ drain[x].at \in Carrying)
    BY <2>2, <2>3 DEF Carrying
  <2> QED BY <2>1, <2>6, <2>7, <2>8, Enough DEF Allowed
<1>11. ASSUME NEW w \in Workers, FlushStarts(w) PROVE IInv'
  <2>1. Go(w, "flushing", "none") /\ UNCHANGED <<job, outbox, claim, guard, given>> /\ At(w, "deliver")
    BY <1>11 DEF FlushStarts, rows, loop, world
  <2>2. /\ drain' \in [Workers -> Drains] /\ \A x \in Workers \ {w} : drain'[x] = drain[x]
        /\ drain'[w].at = "flushing" /\ drain'[w].job = drain[w].job
    BY <1>1, <2>1, GoMoves DEF Ats, Verdicts
  <2> QED BY <1>1, <2>1, <2>2, CalmMove DEF Carrying, At, Busy
<1>12. ASSUME NEW w \in Workers, Send(w) PROVE IInv'
  <2> DEFINE m == Message(w)
  <2>1. At(w, "sending") /\ Busy(w) /\ UNCHANGED <<job, outbox, claim, guard>> /\ m \in Messages
    BY <1>1, <1>12 DEF Send, At, Busy, rows, loop
  <2>2. PICK a \in {"settling", "failing", "marking"}, v \in Verdicts : Go(w, a, v)
    BY <1>12 DEF Send, Verdicts
  <2>3. /\ drain' \in [Workers -> Drains] /\ \A x \in Workers \ {w} : drain'[x] = drain[x]
        /\ drain'[w].at = a /\ drain'[w].job = drain[w].job
    BY <1>1, <2>2, GoMoves DEF Ats
  <2>4. given' = given \/ (Open(m) /\ given' = [given EXCEPT ![m] = @ \cup {outbox[m].form}])
    BY <1>12 DEF Send, StillDue
  <2>5. given' \in [Messages -> SUBSET Forms]
    BY <1>1, <1>3, <2>1, <2>4
  <2>6. \A x \in Messages : "continuation" \in given'[x] => Allowed(x) \/ "continuation" \in given[x]
    <3>1. "continuation" = outbox[m].form /\ Open(m) => Allowed(m)
      BY <2>1 DEF IInv, Carried, Live, At
    <3> QED BY <1>1, <2>1, <2>4, <3>1
  <2>7. Types' /\ Counted'
    BY <1>1, <2>1, <2>3, <2>5 DEF Types, Counted, Sent, Busy, At, Mine
  <2>8. \A x \in Messages : (Live(x)' <=> Live(x)) /\ (Allowed(x)' <=> Allowed(x))
    BY <2>1 DEF Live, Open, Allowed
  <2>9. \A x \in Workers, y \in Messages : drain'[x].at \in Carrying /\ drain'[x].job[1] = y /\ Live(y)' =>
           Allowed(y)' \/ (drain'[x].job = drain[x].job /\ drain[x].at \in Carrying)
    BY <2>1, <2>2, <2>3 DEF Carrying, At
  <2> QED BY <2>1, <2>6, <2>7, <2>8, <2>9, Enough
<1>13. ASSUME NEW w \in Workers, Mark(w) PROVE IInv'
  <2> DEFINE m == Message(w)
  <2>1. At(w, "marking") /\ Busy(w) /\ UNCHANGED <<job, claim, guard, given>> /\ m \in Messages
    BY <1>1, <1>13 DEF Mark, At, Busy, loop, world
  <2>2. PICK a \in {"settling", "failing"}, v \in Verdicts : Go(w, a, v)
    BY <1>13 DEF Mark, Verdicts
  <2>3. /\ drain' \in [Workers -> Drains] /\ \A x \in Workers \ {w} : drain'[x] = drain[x]
        /\ drain'[w].at = a /\ drain'[w].job = drain[w].job
    BY <1>1, <2>2, GoMoves DEF Ats
  <2>4. outbox' = outbox \/ outbox' = [outbox EXCEPT ![m].status = IF Open(m) THEN "dispatched" ELSE @]
    BY <1>13 DEF Mark
  <2>5. /\ outbox' \in [Messages -> OutboxRow]
        /\ \A x \in Messages : outbox'[x].form = outbox[x].form
              /\ (outbox'[x].status = outbox[x].status \/ (x = m /\ Open(m) /\ outbox'[m].status = "dispatched"))
    <3>1. [outbox[m] EXCEPT !.status = IF Open(m) THEN "dispatched" ELSE @] \in OutboxRow
      BY <1>1, <2>1 DEF OutboxRow
    <3>2. CASE outbox' = outbox
      BY <1>1, <3>2
    <3>3. CASE outbox' = [outbox EXCEPT ![m].status = IF Open(m) THEN "dispatched" ELSE @]
      BY <1>1, <2>1, <3>1, <3>3 DEF OutboxRow
    <3> QED BY <2>4, <3>2, <3>3
  <2>6. Types' /\ Counted'
    BY <1>1, <2>1, <2>3, <2>5 DEF Types, Counted, Sent, Busy, At, Mine
  <2>7. \A x \in Messages : Live(x)' => Live(x)
    BY <2>5 DEF Live, Open
  <2>8. Live(m) => Allowed(m)
    BY <2>1 DEF IInv, Carried, At
  <2>9. \A x \in Workers, y \in Messages : drain'[x].at \in Carrying /\ drain'[x].job[1] = y /\ Live(y)' =>
           Allowed(y)' \/ (drain'[x].job = drain[x].job /\ drain[x].at \in Carrying)
    BY <2>2, <2>3 DEF Carrying
  <2>10. \A x \in Messages : Allowed(x)' <=> Allowed(x)
    BY <2>1 DEF Allowed
  <2> HIDE DEF m
  <2> QED BY <2>1, <2>5, <2>6, <2>7, <2>8, <2>9, <2>10, Enough
<1>14. ASSUME NEW w \in Workers, Complete(w) PROVE IInv'
  <2>1. Busy(w) /\ UNCHANGED <<outbox, claim, guard, given>>
    BY <1>14 DEF Complete, At, Busy, loop, world
  <2>2. /\ drain' \in [Workers -> Drains] /\ \A x \in Workers \ {w} : drain'[x] = drain[x]
        /\ drain'[w].at \in {"idle", "failing"} /\ (drain'[w].at = "failing" => drain'[w].job = drain[w].job)
    <3>1. CASE Returns(w)
      BY <1>1, <3>1, ReturnMoves
    <3>2. CASE Go(w, "failing", "permanent") \/ Go(w, "failing", "transient")
      BY <1>1, <3>2, GoMoves DEF Ats, Verdicts
    <3> QED BY <1>14, <3>1, <3>2 DEF Complete
  <2>3. job' \in [Jobs -> JobRow]
    <3>1. CASE job' = job
      BY <1>1, <3>1
    <3>2. CASE job' = [j \in Jobs |-> Queued(j, w)] /\ Owns(w)
      <4>1. drain[w].verdict \in Verdicts
        BY <1>1 DEF Drains
      <4>2. Owns(w) => Mine(w) \in Jobs
        BY <1>1, <2>1
      <4>3. ASSUME NEW j \in Jobs, NEW t \in Statuses PROVE Put(w, t)[j] \in JobRow
        <5> DEFINE r == [job[Mine(w)] EXCEPT !.status = t, !.owner = NoWorker]
        <5>1. Put(w, t) = [job EXCEPT ![Mine(w)] = r]
          BY DEF Put
        <5>2. r \in JobRow
          BY <1>1, <3>2, <4>2, <4>3, RowSet
        <5> HIDE DEF r
        <5> QED BY <1>1, <3>2, <4>2, <5>1, <5>2
      <4>4. ASSUME NEW j \in Jobs PROVE Queued(j, w) \in JobRow
        <5>1. CASE drain[w].verdict = "next" /\ j = <<Message(w), "delivery">> /\ job[j].status \in {"none", "completed", "failed_retryable"}
          <6>1. [job[j] EXCEPT !.status = "pending", !.owner = NoWorker, !.due = TRUE] \in JobRow
            <7>1. job[j] \in JobRow /\ "pending" \in Statuses
              BY <1>1 DEF Statuses, Verdicts
            <7> QED BY <7>1, RowSet
          <6>2. Queued(j, w) = [job[j] EXCEPT !.status = "pending", !.owner = NoWorker, !.due = TRUE]
            BY <5>1, Zenon DEF Queued
          <6> QED BY <6>1, <6>2
        <5>2. CASE ~(drain[w].verdict = "next" /\ j = <<Message(w), "delivery">> /\ job[j].status \in {"none", "completed", "failed_retryable"})
          <6>1. CASE drain[w].verdict = "next"
            BY <4>3, <5>2, <6>1 DEF Queued, Statuses, Verdicts
          <6>2. CASE drain[w].verdict # "next"
            BY <4>1, <4>3, <5>2, <6>2 DEF Queued, Statuses, Verdicts
          <6> QED BY <6>1, <6>2
        <5> QED BY <5>1, <5>2
      <4> QED BY <3>2, <4>4
    <3> QED BY <1>14, <3>1, <3>2 DEF Complete
  <2> QED BY <2>1, <2>2, <2>3, CalmMove DEF Carrying
<1>15. ASSUME NEW w \in Workers, Fail(w) PROVE IInv'
  <2> DEFINE last == drain[w].verdict = "permanent" \/ drain[w].attempts >= MaxAttempts
  <2>1. Busy(w) /\ UNCHANGED <<outbox, claim, guard, given>> /\ Mine(w) \in Jobs
    BY <1>1, <1>15 DEF Fail, At, Busy, loop, world
  <2>2. /\ drain' \in [Workers -> Drains] /\ \A x \in Workers \ {w} : drain'[x] = drain[x]
        /\ drain'[w].at \in {"idle", "telling"} /\ (drain'[w].at = "telling" => drain'[w].job = drain[w].job)
    <3>1. CASE Returns(w)
      BY <1>1, <3>1, ReturnMoves
    <3>2. CASE Go(w, "telling", drain[w].verdict)
      <4>1. drain[w].verdict \in Verdicts
        BY <1>1 DEF Drains
      <4> QED BY <1>1, <3>2, <4>1, GoMoves DEF Ats
    <3> QED BY <1>15, <3>1, <3>2 DEF Fail
  <2>3. job' \in [Jobs -> JobRow]
    <3> DEFINE r(t) == [job[Mine(w)] EXCEPT !.status = t, !.owner = NoWorker]
    <3>1. r("waiting_user") \in JobRow /\ r("failed_retryable") \in JobRow
      BY <1>1, <2>1, RowSet DEF Statuses, Verdicts
    <3>2. [r("failed_retryable") EXCEPT !.due = FALSE] \in JobRow
      BY <3>1, RowSet DEF Statuses, Verdicts
    <3>3. Put(w, "waiting_user") = [job EXCEPT ![Mine(w)] = r("waiting_user")]
      BY DEF Put
    <3>4. Put(w, "failed_retryable") = [job EXCEPT ![Mine(w)] = r("failed_retryable")]
      BY DEF Put
    <3> HIDE DEF r
    <3>5. Put(w, "waiting_user") \in [Jobs -> JobRow] /\ Put(w, "failed_retryable") \in [Jobs -> JobRow]
          /\ Put(w, "failed_retryable")[Mine(w)] = r("failed_retryable")
      BY <1>1, <2>1, <3>1, <3>3, <3>4
    <3>6. [Put(w, "failed_retryable") EXCEPT ![Mine(w)].due = FALSE] \in [Jobs -> JobRow]
      BY <2>1, <3>2, <3>5
    <3> QED BY <1>1, <1>15, <3>5, <3>6 DEF Fail
  <2> QED BY <2>1, <2>2, <2>3, CalmMove DEF Carrying
<1>16. ASSUME NEW w \in Workers, StaysWaiting(w) \/ FailIsLost(w) PROVE IInv'
  BY <1>1, <1>16, ReturnMoves, CalmMove DEF StaysWaiting, FailIsLost, rows, loop, world, Carrying
<1>17. ASSUME NEW w \in Workers, LeaseLost(w) PROVE IInv'
  <2> DEFINE r == [drain[w] EXCEPT !.aborted = TRUE]
  <2>1. Busy(w) /\ drain' = [drain EXCEPT ![w] = r] /\ UNCHANGED <<job, outbox, claim, guard, given>>
    BY <1>17 DEF LeaseLost, rows, loop, world
  <2>2. r \in Drains /\ r.at = drain[w].at /\ r.job = drain[w].job
    BY <1>1 DEF Drains
  <2> HIDE DEF r
  <2>3. drain' \in [Workers -> Drains] /\ drain'[w] = r /\ \A x \in Workers \ {w} : drain'[x] = drain[x]
    BY <1>1, <2>1, <2>2
  <2> QED BY <1>1, <2>1, <2>2, <2>3, CalmMove
<1>18. ASSUME NEW w \in Workers, Answer(w) PROVE IInv'
  <2> DEFINE m == Message(w)
  <2>1. Busy(w) /\ UNCHANGED <<job, given>> /\ outbox' = Replaced(m) /\ m \in Messages
    BY <1>1, <1>18 DEF Answer, At, Busy
  <2>2. /\ guard' \in Guards /\ claim' \in [Messages -> Claims] /\ Counted'
        /\ \A x \in Messages : claim'[x].decision = claim[x].decision
        /\ \A x \in Messages : claim'[x].resolution = claim[x].resolution \/ claim'[x].resolution = "manual_user"
                                \/ x = m
    <3>1. CASE ResetGuard(Messages, "manual_user")
      BY <1>1, <3>1, ResetCounts
    <3>2. CASE ResetGuard({m}, "user_answer")
      <4> HIDE DEF m
      <4> QED BY <1>1, <3>2, ResetCounts
    <3> QED BY <1>18, <3>1, <3>2 DEF Answer
  <2>4. PICK a \in {"settling", "deliver"}, v \in Verdicts : Go(w, a, v)
    BY <1>18 DEF Answer, Verdicts
  <2>5. /\ drain' \in [Workers -> Drains] /\ \A x \in Workers \ {w} : drain'[x] = drain[x]
        /\ drain'[w].at = a /\ drain'[w].job = drain[w].job
    BY <1>1, <2>4, GoMoves DEF Ats
  <2>6. /\ outbox' \in [Messages -> OutboxRow]
        /\ \A x \in Messages : /\ outbox'[x].status = outbox[x].status
                               /\ outbox'[x].form = (IF x = m /\ outbox[m].status = "pending" THEN "loop-recovery" ELSE outbox[x].form)
    <3>1. LET r0 == [outbox[m] EXCEPT !.form = IF outbox[m].status = "pending" THEN "loop-recovery" ELSE @]
          IN r0 \in OutboxRow /\ r0.status = outbox[m].status
             /\ r0.form = (IF outbox[m].status = "pending" THEN "loop-recovery" ELSE outbox[m].form)
      BY <1>1, <2>1 DEF OutboxRow, Forms
    <3> HIDE DEF m
    <3> QED BY <1>1, <2>1, <3>1 DEF Replaced
  <2>7. Types'
    BY <1>1, <2>1, <2>2, <2>5, <2>6 DEF Types, Busy, At, Mine
  <2>8. \A x \in Messages : (Live(x)' => Live(x) /\ outbox'[x].status = outbox[x].status) /\ (Allowed(x)' <=> Allowed(x))
    BY <2>2, <2>6 DEF Live, Open, Allowed
  <2>9. \A x \in Messages : Live(x)' /\ x = m => Allowed(x)
    <3>1. \A x \in Messages : Live(x)' /\ x = m => Live(x) /\ outbox[x].status = "dispatched"
      <4> HIDE DEF m
      <4> QED BY <2>6 DEF Live, Open
    <3> QED BY <3>1 DEF IInv, Decided
  <2>10. \A x \in Workers, y \in Messages : drain'[x].at \in Carrying /\ drain'[x].job[1] = y /\ Live(y)' =>
           Allowed(y)' \/ (drain'[x].job = drain[x].job /\ drain[x].at \in Carrying)
    BY <2>5, <2>8, <2>9 DEF Message, Mine
  <2> HIDE DEF m
  <2> QED BY <2>1, <2>2, <2>7, <2>8, <2>9, <2>10, Enough
<1>19. ASSUME NEW w \in Workers, NoAnswer(w) \/ FlushTimesOut(w) PROVE IInv'
  <2>1. Busy(w) /\ UNCHANGED <<job, outbox, claim, guard, given>>
    BY <1>19 DEF NoAnswer, FlushTimesOut, At, Busy, rows, loop, world
  <2>2. PICK a \in {"settling", "failing"}, v \in Verdicts : Go(w, a, v)
    BY <1>19 DEF NoAnswer, FlushTimesOut, Verdicts
  <2>3. /\ drain' \in [Workers -> Drains] /\ \A x \in Workers \ {w} : drain'[x] = drain[x]
        /\ drain'[w].at = a /\ drain'[w].job = drain[w].job
    BY <1>1, <2>2, GoMoves DEF Ats
  <2> QED BY <1>1, <2>1, <2>3, CalmMove DEF Carrying
<1>20. ASSUME NEW w \in Workers, FlushSettles(w) PROVE IInv'
  <2>1. UNCHANGED <<job, outbox, claim, guard, given>>
    BY <1>20 DEF FlushSettles, rows, loop, world
  <2>2. CASE drain' = drain
    BY <1>1, <2>1, <2>2, CalmStep DEF Busy, At, Mine
  <2>3. CASE drain' # drain
    <3>1. PICK a \in {"sending", "failing"}, v \in Verdicts : Go(w, a, v) /\ At(w, "flushing")
      BY <1>20, <2>3 DEF FlushSettles, Verdicts
    <3>2. /\ drain' \in [Workers -> Drains] /\ \A x \in Workers \ {w} : drain'[x] = drain[x]
          /\ drain'[w].at = a /\ drain'[w].job = drain[w].job
      BY <1>1, <3>1, GoMoves DEF Ats
    <3> QED BY <1>1, <2>1, <3>1, <3>2, CalmMove DEF Carrying, Busy, At
  <2> QED BY <2>2, <2>3
<1>21. ASSUME NEW w \in Workers, Retry(w) PROVE IInv'
  <2> DEFINE m == Message(w)
  <2>1. Busy(w) /\ given' = given /\ m \in Messages /\ Mine(w) \in Jobs /\ Returns(w) /\ ResetGuard(Messages, "manual_user")
    BY <1>1, <1>21 DEF Retry, At, Busy
  <2>2. /\ guard' \in Guards /\ claim' \in [Messages -> Claims] /\ Counted'
        /\ \A x \in Messages : claim'[x].decision = claim[x].decision
        /\ \A x \in Messages : claim'[x].resolution = claim[x].resolution \/ claim'[x].resolution = "manual_user"
    BY <1>1, <2>1, ResetCounts
  <2>3. /\ drain' \in [Workers -> Drains] /\ \A x \in Workers \ {w} : drain'[x] = drain[x]
        /\ drain'[w].at = "idle"
    BY <1>1, <2>1, ReturnMoves
  <2>4. /\ outbox' \in [Messages -> OutboxRow]
        /\ \A x \in Messages : outbox'[x].status = outbox[x].status /\ outbox'[x].form \in {outbox[x].form, "loop-recovery"}
    <3>1. LET r0 == [outbox[m] EXCEPT !.form = IF outbox[m].status = "pending" THEN "loop-recovery" ELSE @]
          IN r0 \in OutboxRow /\ r0.status = outbox[m].status /\ r0.form \in {outbox[m].form, "loop-recovery"}
      BY <1>1, <2>1 DEF OutboxRow, Forms
    <3>2. CASE outbox' = outbox
      BY <1>1, <3>2
    <3>3. CASE outbox' = Replaced(m)
      <4> HIDE DEF m
      <4> QED BY <1>1, <2>1, <3>1, <3>3 DEF Replaced
    <3> QED BY <1>21, <3>2, <3>3 DEF Retry
  <2>5. job' \in [Jobs -> JobRow]
    <3>1. Row \in JobRow
      BY BoundaryAssumption DEF Row, Unowned, JobRow, Statuses, Verdicts
    <3> QED BY <1>1, <1>21, <2>1, <3>1 DEF Retry
  <2>6. Types'
    BY <1>1, <2>1, <2>2, <2>3, <2>4, <2>5 DEF Types, Busy, At, Mine
  <2>7. \A x \in Messages : (Live(x)' => Live(x) /\ outbox'[x].status = outbox[x].status) /\ (Allowed(x)' <=> Allowed(x))
    BY <2>2, <2>4 DEF Live, Open, Allowed
  <2>8. \A x \in Workers, y \in Messages : drain'[x].at \in Carrying /\ drain'[x].job[1] = y /\ Live(y)' =>
           Allowed(y)' \/ (drain'[x].job = drain[x].job /\ drain[x].at \in Carrying)
    BY <2>3 DEF Carrying
  <2> QED BY <2>1, <2>2, <2>6, <2>7, <2>8, Enough
<1>22. ASSUME NEW w \in Workers, HumanInput(w) PROVE IInv'
  <2> DEFINE r == [drain[w] EXCEPT !.aborted = Busy(w)]
  <2>1. drain' = [drain EXCEPT ![w] = r] /\ UNCHANGED <<job, outbox, claim, guard, given>>
    BY <1>22 DEF HumanInput, rows, loop
  <2>2. r \in Drains /\ r.at = drain[w].at /\ r.job = drain[w].job
    BY <1>1 DEF Drains, Busy
  <2> HIDE DEF r
  <2>3. drain' \in [Workers -> Drains] /\ drain'[w] = r /\ \A x \in Workers \ {w} : drain'[x] = drain[x]
    BY <1>1, <2>1, <2>2
  <2> QED BY <1>1, <2>1, <2>2, <2>3, CalmMove DEF Busy, At
<1>23. ASSUME NEW w \in Workers, HumanCommits(w) PROVE IInv'
  <2>1. UNCHANGED <<drain, given>>
    BY <1>23 DEF HumanCommits, world
  <2>2. /\ guard' \in Guards /\ claim' \in [Messages -> Claims] /\ Counted'
        /\ \A x \in Messages : claim'[x].decision = claim[x].decision
        /\ \A x \in Messages : claim'[x].resolution = claim[x].resolution \/ claim'[x].resolution = "manual_user"
    <3>1. CASE UNCHANGED loop
      BY <1>1, <3>1 DEF loop, Counted, Sent
    <3>2. CASE ResetGuard(Messages, "manual_user")
      BY <1>1, <3>2, ResetCounts
    <3> QED BY <1>23, <3>1, <3>2 DEF HumanCommits
  <2>3. /\ outbox' \in [Messages -> OutboxRow]
        /\ \A x \in Messages : outbox'[x].form = outbox[x].form /\ outbox'[x].status \in {outbox[x].status, "superseded"}
    <3>1. \A x \in Messages : LET r == [outbox[x] EXCEPT !.status = "superseded"]
                              IN r \in OutboxRow /\ r.form = outbox[x].form /\ r.status = "superseded"
      BY <1>1 DEF OutboxRow
    <3>2. CASE outbox' = outbox
      BY <1>1, <3>2
    <3>3. CASE outbox' = [m \in Messages |-> IF Open(m) THEN [outbox[m] EXCEPT !.status = "superseded"] ELSE outbox[m]]
      BY <1>1, <3>1, <3>3
    <3> QED BY <1>23, <3>2, <3>3 DEF HumanCommits
  <2>4. job' \in [Jobs -> JobRow]
    <3>1. \A j \in Jobs : [job[j] EXCEPT !.status = "superseded", !.owner = NoWorker] \in JobRow
      BY <1>1, RowSet DEF Statuses, Verdicts
    <3>2. CASE job' = job
      BY <1>1, <3>2
    <3>3. CASE job' = [j \in Jobs |-> IF job[j].status \in {"none", "completed"} THEN job[j]
                                      ELSE [job[j] EXCEPT !.status = "superseded", !.owner = NoWorker]]
      BY <1>1, <3>1, <3>3
    <3> QED BY <1>23, <3>2, <3>3 DEF HumanCommits
  <2>5. Types'
    BY <1>1, <2>1, <2>2, <2>3, <2>4 DEF Types, Busy, At, Mine
  <2>6. \A x \in Messages : (Live(x)' => Live(x) /\ outbox'[x].status = outbox[x].status) /\ (Allowed(x)' <=> Allowed(x))
    BY <2>2, <2>3 DEF Live, Open, Allowed
  <2> QED BY <2>1, <2>2, <2>5, <2>6, Enough
<1>24. ASSUME NEW j \in Jobs, Lapse(j) \/ BackoffPasses(j) PROVE IInv'
  <2>1. UNCHANGED <<outbox, claim, guard, given, drain>>
    BY <1>24 DEF Lapse, BackoffPasses, loop, world
  <2>2. job' \in [Jobs -> JobRow]
    <3>1. [job[j] EXCEPT !.due = TRUE] \in JobRow
      BY <1>1 DEF JobRow
    <3> QED BY <1>1, <1>24, <3>1 DEF Lapse, BackoffPasses
  <2> QED BY <1>1, <2>1, <2>2, CalmStep DEF Busy, At, Mine
<1>25. ASSUME NEW m \in Messages, Observe(m) PROVE IInv'
  <2>1. UNCHANGED <<job, claim, guard, given, drain>> /\ outbox' = [outbox EXCEPT ![m].status = "observed"]
    BY <1>25 DEF Observe, loop, world
  <2>2. /\ outbox' \in [Messages -> OutboxRow]
        /\ \A x \in Messages : outbox'[x].form = outbox[x].form /\ outbox'[x].status \in {outbox[x].status, "observed"}
    BY <1>1, <2>1 DEF OutboxRow
  <2>3. Types' /\ Counted'
    BY <1>1, <2>1, <2>2 DEF Types, Counted, Sent, Busy, At, Mine
  <2>4. \A x \in Messages : Live(x)' => Live(x) /\ outbox'[x].status = outbox[x].status
    BY <2>2 DEF Live, Open
  <2> QED BY <2>1, <2>3, <2>4, Enough DEF Allowed
<1>26. ASSUME NEW w \in Workers, Bind(w) PROVE IInv'
  <2>1. UNCHANGED <<job, outbox, claim, guard, given, drain>>
    BY <1>26 DEF Bind, rows, loop, world
  <2> QED BY <1>1, <2>1, CalmStep DEF Busy, At, Mine
<1>27. ASSUME NEW w \in Workers, Kick(w) \/ FindsNothing(w) PROVE IInv'
  <2>1. UNCHANGED <<job, outbox, claim, guard, given, drain>>
    BY <1>27 DEF Kick, FindsNothing, rows, loop, world
  <2> QED BY <1>1, <2>1, CalmStep DEF Busy, At, Mine
<1>28. ASSUME UNCHANGED vars PROVE IInv'
  <2>1. UNCHANGED <<job, outbox, claim, guard, given, drain>>
    BY <1>28 DEF vars
  <2> QED BY <1>1, <2>1, CalmStep DEF Busy, At, Mine
<1> QED
  BY <1>4, <1>5, <1>6, <1>7, <1>8, <1>9, <1>10, <1>11, <1>12, <1>13, <1>14, <1>15, <1>16, <1>17, <1>18,
     <1>19, <1>20, <1>21, <1>22, <1>23, <1>24, <1>25, <1>26, <1>27, <1>28 DEF Next, Works

-----------------------------------------------------------------------------
(* Every reachable state satisfies the invariant.                           *)
THEOREM Invariance == Spec => []IInv
<1>1. Init => IInv
  BY InitInv
<1>2. IInv /\ [Next]_vars => IInv'
  BY StepInv
<1> QED BY <1>1, <1>2, PTL DEF Spec

(* Between two interventions of the user the guard lets at most Limit       *)
(* continuations through, however claims, crashes, retries and answers      *)
(* interleave, and nothing is sent as a continuation without its leave      *)
(* (claimAutomaticContinuation, beforeDelivery and the enqueue).            *)
THEOREM ContinuationsAreBounded == Spec => []AutomaticRunIsBounded
<1>1. IInv => AutomaticRunIsBounded
  <2> SUFFICES ASSUME IInv PROVE AutomaticRunIsBounded
    OBVIOUS
  <2>1. \A m \in Messages : claim[m].generation \in Nat
    BY DEF IInv, Types, Claims
  <2>2. \A m \in Messages : "continuation" \in given[m] => claim[m].decision = "deliver"
    BY DEF IInv, Decided, Allowed
  <2>3. \A g \in {claim[m].generation : m \in Messages} : Cardinality(Sent(g)) <= Limit
    BY <2>1 DEF IInv, Counted
  <2> QED BY <2>2, <2>3 DEF AutomaticRunIsBounded, Sent
<1> QED BY <1>1, Invariance, PTL

(* What was superseded while the drain waited for a flush is not sent: only *)
(* the enqueue gives a message away, and it reads the row again just before *)
(* (#drain() in boundary-worker.ts).                                         *)
THEOREM SupersededStaysUnsent == Spec => SupersededIsNotSent
<1>1. IInv /\ [Next]_vars => [\A m \in Messages : given'[m] # given[m] => Open(m)]_vars
  <2> SUFFICES ASSUME IInv, [Next]_vars, NEW m \in Messages, given'[m] # given[m] PROVE Open(m)
    OBVIOUS
  <2>0. given' # given
    OBVIOUS
  <2>1. PICK w \in Workers : Send(w)
    <3>1. ASSUME NEW w \in Workers, Works(w), ~Send(w) PROVE FALSE
      <4>1. CASE (\E j \in Jobs : Claim(w, j)) \/ FindsNothing(w) \/ Abandon(w) \/ Gate(w)
        BY <2>0, <4>1 DEF Claim, FindsNothing, Abandon, Gate, world
      <4>2. CASE GuardDecides(w) \/ Process(w) \/ FlushStarts(w)
        BY <2>0, <4>2 DEF GuardDecides, Process, FlushStarts, world
      <4>3. CASE Mark(w) \/ Complete(w) \/ Fail(w)
        BY <2>0, <4>3 DEF Mark, Complete, Fail, world
      <4> QED
        BY <3>1, <4>1, <4>2, <4>3 DEF Works
    <3>2. ASSUME NEW w \in Workers, Start(w) \/ Crash(w) \/ Bind(w) \/ Kick(w) \/ LeaseLost(w) PROVE FALSE
      BY <2>0, <3>2 DEF Start, Crash, Bind, Kick, LeaseLost, world
    <3>3. ASSUME NEW w \in Workers, Answer(w) \/ NoAnswer(w) \/ FlushSettles(w) \/ FlushTimesOut(w) \/ FailIsLost(w)
          PROVE  FALSE
      BY <2>0, <3>3 DEF Answer, NoAnswer, FlushSettles, FlushTimesOut, FailIsLost, world
    <3>4. ASSUME NEW w \in Workers, Retry(w) \/ StaysWaiting(w) \/ HumanInput(w) \/ HumanCommits(w) PROVE FALSE
      BY <2>0, <3>4 DEF Retry, StaysWaiting, HumanInput, HumanCommits, world
    <3>5. ASSUME NEW j \in Jobs, Lapse(j) \/ BackoffPasses(j) PROVE FALSE
      BY <2>0, <3>5 DEF Lapse, BackoffPasses, world
    <3>6. ASSUME NEW x \in Messages, Observe(x) PROVE FALSE
      BY <2>0, <3>6 DEF Observe, world
    <3>7. CASE UNCHANGED vars
      BY <2>0, <3>7 DEF vars
    <3> QED
      BY <3>1, <3>2, <3>3, <3>4, <3>5, <3>6, <3>7 DEF Next
  <2>2. StillDue(w) /\ given' = [given EXCEPT ![Message(w)] = @ \cup {outbox[Message(w)].form}]
    BY <2>1 DEF Send
  <2>3. given \in [Messages -> SUBSET Forms]
    BY DEF IInv, Types
  <2>4. m = Message(w)
    BY <2>2, <2>3
  <2> QED BY <2>2, <2>4 DEF StillDue
<1> QED BY <1>1, Invariance, PTL DEF Spec, SupersededIsNotSent

-----------------------------------------------------------------------------
(* OnDemandIntake, for any calls, turns, captures and changes of the task.   *)
(* Rows of the state of the intake.                                          *)
Rest == {"idle", "over", "told"}
Stations == Rest \cup Underway \cup {"approve", "bind", "diagnose", "running", "join", "ask", "recheck"}
Scopes == {"unknown", "new", "same"}
RequestRows ==
  [turn : 0..MaxTurns,
   status : {"capturing", "answer", "preparing", "prepared", "closed", "stale"},
   aborted : BOOLEAN, at : {"start", "interpret", "settle", "over"}, pending : BOOLEAN,
   prep : Calls \cup {NoCall}, scope : Scopes, rev : Nat, since : Nat]
CallRows ==
  [kind : Kinds, at : Stations, req : 0..MaxRequests, scope : Scopes, seen : BOOLEAN,
   rev : Nat, since : Nat]
TaskRows == [req : 0..MaxRequests, turn : 0..MaxTurns, sound : BOOLEAN]

Shape ==
  /\ turn \in 0..MaxTurns /\ open \in BOOLEAN /\ cut \in BOOLEAN /\ stopped \in BOOLEAN
  /\ failed \subseteq 1..turn /\ reply \in BOOLEAN
  /\ cur \in 0..MaxRequests /\ changes \in 1..(MaxChanges + 1)
  /\ req \in [0..MaxRequests -> RequestRows]
  /\ call \in [Calls -> CallRows]
  /\ active \in TaskRows
  /\ op \in [1..MaxTurns -> Calls \cup {NoCall}]

(* Only the newest request can be unaborted, and only in its open turn: what *)
(* ends a turn or brings a newer request aborts it.                          *)
Newest ==
  /\ open => turn >= 1
  /\ \A g \in 1..cur : req[g].turn >= 1
  /\ \A g \in 0..MaxRequests : g = 0 \/ g > cur => req[g].turn = 0 /\ req[g].aborted
  /\ \A g \in 0..MaxRequests : ~req[g].aborted => g = cur /\ req[g].turn = turn /\ open
  /\ \A c \in Calls : call[c].at \notin Rest => Of(c) \in 1..cur

(* What is awaited is there: a request's preparation is that of a call at it *)
(* and the admission of a turn is that of a call of the turn.                *)
Joins ==
  /\ \A g \in 1..cur : req[g].prep # NoCall =>
       Of(req[g].prep) = g /\ call[req[g].prep].at \in Underway
  /\ \A c \in Calls : Awaits(c, "join") => req[Of(c)].prep # NoCall
  /\ \A t \in 1..MaxTurns : op[t] # NoCall =>
       req[Of(op[t])].turn = t /\ call[op[t]].at \in Admitting
  /\ \A c \in Calls : Awaits(c, "wait") => op[req[Of(c)].turn] # NoCall

(* Whoever relies on the task of the request in force: the request itself    *)
(* once prepared, a call its admission answered, work that was let through.  *)
Vouches(c) == Of(c) = cur /\ (Awaits(c, "admitted") \/ (Awaits(c, "running") /\ Is(c, "work")))
Vouched == req[cur].status = "prepared" \/ \E c \in Calls : Vouches(c)
Owned == active = NoTask \/ active.req = cur
OwnTask == Unaborted(cur) /\ Vouched => Owned

IntakeInv == Shape /\ Newest /\ Joins /\ OwnTask

(* No context is newer than the task, nor a question's than the question.    *)
Dated ==
  /\ \A g \in 0..MaxRequests : req[g].rev <= changes
  /\ \A c \in Calls : call[c].at \in {"ask", "recheck"} =>
       call[c].rev <= call[c].since /\ call[c].since <= changes
-----------------------------------------------------------------------------
LEMMA IntakeBounds ==
  /\ MaxTurns \in Nat /\ MaxRequests \in Nat /\ MaxChanges \in Nat /\ NoCall \notin Calls
BY IntakeAssumption

(* A revision read since an earlier one is a revision.                       *)
LEMMA NoEarlier ==
  \A a \in Nat, b \in Nat : \A r \in a..b : r \in Nat /\ r <= b
OBVIOUS

LEMMA NoRequestRow ==
  /\ NoRequest \in RequestRows /\ NoRequest.turn = 0 /\ NoRequest.aborted
  /\ NoRequest.status = "closed" /\ NoRequest.prep = NoCall /\ NoRequest.at = "over"
<1> DEFINE r == Captured(0, FALSE)
<1>1. r \in RequestRows /\ r.turn = 0 /\ r.prep = NoCall
  BY IntakeBounds DEF Captured, NoContext, RequestRows, Scopes
<1>2. NoRequest = [r EXCEPT !.status = "closed", !.aborted = TRUE, !.at = "over"]
  BY DEF NoRequest
<1> HIDE DEF r
<1> QED
  BY <1>1, <1>2 DEF RequestRows

(* A request whose signal is not aborted is the one in force.                *)
LEMMA LiveIsInForce ==
  ASSUME Shape, Newest, NEW g \in 0..MaxRequests, Unaborted(g)
  PROVE  g = cur /\ g \in 1..MaxRequests /\ InForce(g)
<1>1. ~req[g].aborted /\ ~stopped /\ ~(cut /\ req[g].turn = turn)
  BY DEF Unaborted
<1>2. g = cur /\ req[g].turn = turn /\ open
  BY <1>1 DEF Newest
<1>3. g # 0
  BY <1>1, NoRequestRow DEF Newest
<1> QED
  BY <1>1, <1>2, <1>3, IntakeBounds DEF InForce

LEMMA ToIsRow ==
  ASSUME Shape, NEW d \in Calls, NEW a \in Stations
  PROVE  /\ To(d, a) \in CallRows /\ To(d, a).at = a
         /\ a \notin Rest => To(d, a).req = Of(d) /\ To(d, a).kind = call[d].kind
<1>1. call[d] \in CallRows
  BY DEF Shape
<1>2. Idle \in CallRows
  BY IntakeBounds DEF Idle, NoContext, CallRows, Kinds, Stations, Rest, Scopes
<1>3. CASE a \in {"over", "told"}
  BY <1>2, <1>3 DEF To, CallRows, Rest
<1>4. CASE a \notin {"over", "told"}
  BY <1>1, <1>4 DEF To, CallRows, Of
<1> QED
  BY <1>3, <1>4

(* The call goes from one await to the next; the others stay.                *)
Moves(c, a) ==
  /\ call' \in [Calls -> CallRows]
  /\ call'[c].at = a
  /\ a \notin Rest => call'[c].req = Of(c) /\ call'[c].kind = call[c].kind
  /\ \A d \in Calls \ {c} : call'[d] = call[d]

LEMMA GoesToMoves ==
  ASSUME Shape, NEW c \in Calls, NEW a \in Stations, GoesTo(c, a)
  PROVE  Moves(c, a)
<1>1. call \in [Calls -> CallRows]
  BY DEF Shape
<1>2. call' = [call EXCEPT ![c] = To(c, a)]
  BY DEF GoesTo
<1> QED
  BY <1>1, <1>2, ToIsRow DEF Moves

-----------------------------------------------------------------------------
LEMMA IntakeFacts ==
  ASSUME IntakeInv
  PROVE  /\ Shape /\ Newest /\ Joins /\ OwnTask
         /\ cur \in 0..MaxRequests /\ turn \in 0..MaxTurns /\ reply \in BOOLEAN /\ changes \in Nat
         /\ req \in [0..MaxRequests -> RequestRows] /\ call \in [Calls -> CallRows]
         /\ active \in TaskRows /\ NoTask \in TaskRows
         /\ op \in [1..MaxTurns -> Calls \cup {NoCall}] /\ NoCall \notin Calls
         /\ \A g \in 0..MaxRequests : req[g].prep \in Calls \cup {NoCall}
         /\ \A g \in 1..cur : g \in 0..MaxRequests /\ req[g].turn \in 1..MaxTurns
         /\ \A c \in Calls : call[c].at \notin Rest => Of(c) \in 1..cur /\ Of(c) \in 0..MaxRequests
<1>1. /\ Shape /\ Newest /\ Joins /\ OwnTask
  BY DEF IntakeInv
<1>2. /\ cur \in 0..MaxRequests /\ turn \in 0..MaxTurns /\ reply \in BOOLEAN /\ changes \in Nat
      /\ req \in [0..MaxRequests -> RequestRows] /\ call \in [Calls -> CallRows]
      /\ active \in TaskRows /\ op \in [1..MaxTurns -> Calls \cup {NoCall}] /\ NoCall \notin Calls
  BY <1>1, IntakeBounds DEF Shape
<1>3. NoTask \in TaskRows
  BY IntakeBounds DEF NoTask, TaskRows
<1>4. \A g \in 0..MaxRequests : req[g].prep \in Calls \cup {NoCall} /\ req[g].turn \in 0..MaxTurns
  BY <1>2 DEF RequestRows
<1>5. \A g \in 1..cur : g \in 0..MaxRequests
  BY <1>2, IntakeBounds
<1>6. \A g \in 1..cur : req[g].turn \in 1..MaxTurns
  BY <1>1, <1>4, <1>5, IntakeBounds DEF Newest
<1>7. \A c \in Calls : call[c].at \notin Rest => Of(c) \in 1..cur
  BY <1>1 DEF Newest
<1> QED
  BY <1>1, <1>2, <1>3, <1>4, <1>5, <1>6, <1>7

(* Steps that leave the turn and the newest request alone.                   *)
RequestsKept ==
  \A g \in 0..MaxRequests :
    /\ req'[g].turn = req[g].turn
    /\ req[g].aborted => req'[g].aborted

LEMMA NewestKept ==
  ASSUME Shape, Newest, UNCHANGED <<turn, open, cur>>, RequestsKept,
         \A c \in Calls : call'[c].at \notin Rest => call'[c].req \in 1..cur
  PROVE  Newest'
<1>1. \A g \in 1..cur : g \in 0..MaxRequests
  BY IntakeBounds DEF Shape
<1> QED
  BY <1>1 DEF Newest, RequestsKept, Of

(* Steps after which the same calls await the same ones.                     *)
CallStays(c) ==
  /\ call'[c].at \notin Rest => call'[c].req \in 1..cur
  /\ call[c].at \in Underway => call'[c].at \in Underway /\ call'[c].req = Of(c)
  /\ call[c].at \in Admitting => call'[c].at \in Admitting
  /\ call'[c].at \in {"join", "wait"} => call'[c] = call[c]

LEMMA JoinsKept ==
  ASSUME Shape, Newest, Joins, UNCHANGED <<cur, op>>,
         \A g \in 0..MaxRequests : req'[g].turn = req[g].turn /\ req'[g].prep = req[g].prep,
         \A c \in Calls : CallStays(c)
  PROVE  Joins'
<1>0. /\ op \in [1..MaxTurns -> Calls \cup {NoCall}]
      /\ \A g \in 1..cur : g \in 0..MaxRequests /\ req[g].prep \in Calls \cup {NoCall}
      /\ \A c \in Calls : Of(c) \in 0..MaxRequests
  <2>1. \A g \in 1..cur : g \in 0..MaxRequests
    BY IntakeBounds DEF Shape
  <2>2. \A g \in 0..MaxRequests : req[g].prep \in Calls \cup {NoCall}
    BY DEF Shape, RequestRows
  <2>3. \A c \in Calls : Of(c) \in 0..MaxRequests
    BY DEF Shape, CallRows, Of
  <2> QED
    BY <2>1, <2>2, <2>3 DEF Shape
<1>1. ASSUME NEW g \in 1..cur, req'[g].prep # NoCall
      PROVE  call'[req'[g].prep].req = g /\ call'[req'[g].prep].at \in Underway
  BY <1>0, <1>1 DEF Joins, CallStays, Of
<1>2. ASSUME NEW c \in Calls, call'[c].at = "join" PROVE req'[call'[c].req].prep # NoCall
  BY <1>0, <1>2 DEF Joins, CallStays, Of, Awaits
<1>3. ASSUME NEW t \in 1..MaxTurns, op[t] # NoCall
      PROVE  req'[call'[op[t]].req].turn = t /\ call'[op[t]].at \in Admitting
  <2>1. op[t] \in Calls /\ req[Of(op[t])].turn = t /\ call[op[t]].at \in Admitting
    BY <1>0, <1>3 DEF Joins
  <2>2. call'[op[t]].at \in Admitting /\ call'[op[t]].req = Of(op[t])
    BY <2>1 DEF CallStays, Underway
  <2> QED
    BY <1>0, <2>1, <2>2
<1>4. ASSUME NEW c \in Calls, call'[c].at = "wait" PROVE op[req'[call'[c].req].turn] # NoCall
  BY <1>0, <1>4 DEF Joins, CallStays, Of, Awaits
<1> QED
  BY <1>1, <1>2, <1>3, <1>4 DEF Joins, Of, Awaits

(* Steps after which nobody new relies on the task, which may have gone.     *)
LEMMA OwnTaskKept ==
  ASSUME OwnTask, cur' = cur, Unaborted(cur)' => Unaborted(cur),
         active' # NoTask => active # NoTask /\ active'.req = active.req,
         Unaborted(cur) /\ Vouched' => Vouched \/ Owned'
  PROVE  OwnTask'
BY DEF OwnTask, Owned

(* All three for a step that moves the calls in M without making one wait.   *)
LEMMA QuietStep ==
  ASSUME IntakeInv, Shape', NEW M \in SUBSET Calls, \A d \in M : CallStays(d),
         UNCHANGED <<turn, open, cur, op>>, RequestsKept,
         cut => cut', stopped => stopped',
         \A g \in 0..MaxRequests : /\ req'[g].prep = req[g].prep
                                   /\ req'[g].status = "prepared" => req[g].status = "prepared",
         active' # NoTask => active # NoTask /\ active'.req = active.req,
         \A d \in Calls \ M : call'[d] = call[d],
         \A d \in M : Unaborted(cur) /\ Vouches(d)' => Vouches(d) \/ Owned \/ Owned'
  PROVE  IntakeInv'
<1>1. Shape /\ Newest /\ Joins /\ OwnTask /\ cur \in 0..MaxRequests
  BY DEF IntakeInv, Shape
<1>2. \A d \in Calls : CallStays(d)
  <2> SUFFICES ASSUME NEW d \in Calls \ M PROVE CallStays(d)
    OBVIOUS
  <2>1. call'[d] = call[d]
    OBVIOUS
  <2>2. call[d].at \notin Rest => call[d].req \in 1..cur
    BY <1>1 DEF Newest, Of
  <2> QED
    BY <2>1, <2>2 DEF CallStays, Of
<1>3. Newest'
  BY <1>1, <1>2, NewestKept DEF CallStays
<1>4. Joins'
  BY <1>1, <1>2, JoinsKept DEF RequestsKept
<1>5. Unaborted(cur)' => Unaborted(cur)
  BY <1>1 DEF Unaborted, RequestsKept
<1>6. Owned => Owned'
  BY DEF Owned
<1>7. Unaborted(cur) /\ Vouched' => Vouched \/ Owned'
  <2> SUFFICES ASSUME Unaborted(cur), Vouched' PROVE Vouched \/ Owned'
    OBVIOUS
  <2>1. CASE req'[cur].status = "prepared"
    BY <1>1, <2>1 DEF Vouched
  <2>2. ASSUME NEW d \in Calls, Vouches(d)' PROVE Vouched \/ Owned'
    <3>1. CASE d \in M
      BY <1>6, <2>2, <3>1 DEF Vouched
    <3>2. CASE d \notin M
      BY <2>2, <3>2 DEF Vouched, Vouches, Of, Awaits, Is
    <3> QED
      BY <3>1, <3>2
  <2> QED
    BY <2>1, <2>2 DEF Vouched
<1>8. OwnTask'
  BY <1>1, <1>5, <1>7, OwnTaskKept
<1> QED
  BY <1>3, <1>4, <1>8 DEF IntakeInv

(* The same for one that moves no call.                                      *)
LEMMA StillStep ==
  ASSUME IntakeInv, Shape', UNCHANGED <<turn, open, cur, op, call>>, RequestsKept,
         cut => cut', stopped => stopped',
         \A g \in 0..MaxRequests : /\ req'[g].prep = req[g].prep
                                   /\ req'[g].status = "prepared" => req[g].status = "prepared",
         active' # NoTask => active # NoTask /\ active'.req = active.req
  PROVE  IntakeInv'
<1> DEFINE M == {}
<1>1. M \in SUBSET Calls /\ \A d : d \notin M
  OBVIOUS
<1> HIDE DEF M
<1> QED
  BY <1>1, QuietStep

-----------------------------------------------------------------------------
(* The native turn, the user and the host.                                   *)

LEMMA StartTurnPreserves == ASSUME IntakeInv, StartTurn PROVE IntakeInv'
<1>1. Shape /\ Newest /\ Joins /\ OwnTask /\ cur \in 0..MaxRequests /\ turn \in 0..MaxTurns
  BY DEF IntakeInv, Shape
<1>2. /\ ~open /\ turn < MaxTurns /\ turn' = turn + 1 /\ open' = TRUE /\ cut' = FALSE
      /\ UNCHANGED <<failed, stopped, req, cur, asked, reply, call, active, op, changes>>
  BY DEF StartTurn, requests, questions, core
<1>3. Shape'
  <2>1. turn' \in 0..MaxTurns /\ failed' \subseteq 1..turn'
    BY <1>1, <1>2, IntakeBounds DEF Shape
  <2> QED
    BY <1>1, <1>2, <2>1 DEF Shape
<1>4. Newest'
  BY <1>1, <1>2, IntakeBounds DEF Newest, Of
<1>5. Joins'
  BY <1>1, <1>2 DEF Joins, Of, Awaits
<1>6. ~Unaborted(cur)'
  BY <1>1, <1>2 DEF Unaborted, Newest
<1> QED
  BY <1>3, <1>4, <1>5, <1>6 DEF IntakeInv, OwnTask

(* The end of a request changes neither its turn nor its preparation.        *)
LEMMA EndsIsRow ==
  ASSUME NEW r \in RequestRows,
         NEW s \in {"capturing", "answer", "preparing", "prepared", "closed", "stale"}
  PROVE  /\ Ends(r, s) \in RequestRows /\ Ends(r, s).aborted /\ Ends(r, s).status = s
         /\ Ends(r, s).turn = r.turn /\ Ends(r, s).prep = r.prep /\ Ends(r, s).at = r.at
BY DEF Ends, NoContext, RequestRows, Scopes

LEMMA EndTurnPreserves ==
  ASSUME IntakeInv, NEW b \in BOOLEAN, EndTurn(b) PROVE IntakeInv'
<1>1. /\ Shape /\ Newest /\ Joins /\ OwnTask /\ cur \in 0..MaxRequests /\ turn \in 0..MaxTurns
      /\ req \in [0..MaxRequests -> RequestRows]
  BY DEF IntakeInv, Shape
<1>2. /\ open /\ open' = FALSE
      /\ failed' = IF b THEN failed ELSE failed \cup {turn}
      /\ req' = IF req[cur].turn = turn THEN [req EXCEPT ![cur] = Ends(@, "closed")] ELSE req
      /\ UNCHANGED <<turn, cut, stopped, cur, asked, reply, call, active, op, changes>>
  BY DEF EndTurn, questions, core
<1>3. /\ req' \in [0..MaxRequests -> RequestRows]
      /\ \A g \in 0..MaxRequests : /\ req'[g].turn = req[g].turn /\ req'[g].prep = req[g].prep
                                   /\ req'[g].aborted
                                 <2>1. Ends(req[cur], "closed") \in RequestRows /\ Ends(req[cur], "closed").aborted
        /\ Ends(req[cur], "closed").turn = req[cur].turn /\ Ends(req[cur], "closed").prep = req[cur].prep
    BY <1>1, EndsIsRow
  <2>3. CASE req[cur].turn = turn
    <3>1. req' = [req EXCEPT ![cur] = Ends(req[cur], "closed")]
      BY <1>2, <2>3
    <3>2. \A g \in 0..MaxRequests : g # cur => req[g].aborted
      BY <1>1 DEF Newest
    <3> QED
      BY <1>1, <2>1, <3>1, <3>2
  <2>4. CASE req[cur].turn # turn
    <3>1. \A g \in 0..MaxRequests : req[g].aborted
      BY <1>1, <2>4 DEF Newest
    <3> QED
      BY <1>1, <1>2, <2>4, <3>1
  <2> QED
    BY <2>3, <2>4
<1>4. Shape'
  <2>1. failed' \subseteq 1..turn
    BY <1>1, <1>2 DEF Shape, Newest
  <2> QED
    BY <1>1, <1>2, <1>3, <2>1 DEF Shape, RequestRows
<1>5. Newest'
  BY <1>1, <1>2, <1>3 DEF Newest, Of, Shape
<1>6. Joins'
  <2>1. \A c \in Calls : CallStays(c)
    BY <1>1, <1>2 DEF CallStays, Of, Newest
  <2> QED
    BY <1>1, <1>2, <1>3, <2>1, JoinsKept
<1>7. ~Unaborted(cur)'
  BY <1>1, <1>2, <1>3 DEF Unaborted
<1> QED
  BY <1>4, <1>5, <1>6, <1>7 DEF IntakeInv, OwnTask

(* Cancel, Stop, FinishSession and what happens to the task from outside.    *)
LEMMA HostPreserves ==
  ASSUME IntakeInv, Cancel \/ Stop \/ TaskStateChanged \/ FinishSession PROVE IntakeInv'
<1>1. /\ Shape /\ cur \in 0..MaxRequests /\ changes \in Nat /\ active \in TaskRows
      /\ req \in [0..MaxRequests -> RequestRows]
  BY DEF IntakeInv, Shape
<1>2. NoTask \in TaskRows
  BY IntakeBounds DEF NoTask, TaskRows
<1>3. CASE Cancel \/ Stop \/ FinishSession
  <2>1. /\ UNCHANGED <<turn, open, failed, req, cur, reply, call, op, changes>>
        /\ cut' \in BOOLEAN /\ stopped' \in BOOLEAN /\ (cut => cut') /\ (stopped => stopped')
        /\ active' \in {active, NoTask}
    BY <1>1, <1>3 DEF Cancel, Stop, FinishSession, native, requests, questions, core, Shape
  <2>2. Shape'
    BY <1>1, <1>2, <2>1 DEF Shape
  <2> QED
    BY <2>1, <2>2, StillStep DEF RequestsKept
<1>4. CASE TaskStateChanged
  <2>1. /\ changes <= MaxChanges /\ active # NoTask /\ changes' = changes + 1
        /\ active' = [active EXCEPT !.sound = FALSE]
        /\ req' = IF Current(cur) /\ req[cur].rev # NoContext
                  THEN [req EXCEPT ![cur] = [@ EXCEPT !.status = "answer", !.scope = "unknown", !.rev = changes + 1]]
                  ELSE req
        /\ UNCHANGED <<turn, open, cut, failed, stopped, cur, asked, reply, call, op>>
    BY <1>4 DEF TaskStateChanged, native, questions
  <2>2. active' \in TaskRows /\ active'.req = active.req
    BY <1>1, <2>1 DEF TaskRows
  <2>3. /\ req' \in [0..MaxRequests -> RequestRows]
        /\ \A g \in 0..MaxRequests : req'[g].prep = req[g].prep /\ (req'[g].status = "prepared" => req[g].status = "prepared")
        /\ RequestsKept
    <3>1. CASE Current(cur) /\ req[cur].rev # NoContext
      <4>1. req' = [req EXCEPT ![cur] = [req[cur] EXCEPT !.status = "answer", !.scope = "unknown", !.rev = changes + 1]]
        BY <2>1, <3>1
      <4>4. changes + 1 \in Nat /\ req[cur] \in RequestRows
        BY <1>1
      <4>5. /\ req' \in [0..MaxRequests -> RequestRows]
            /\ \A g \in 0..MaxRequests \ {cur} : req'[g] = req[g]
            /\ req'[cur] = [req[cur] EXCEPT !.status = "answer", !.scope = "unknown", !.rev = changes + 1]
        BY <1>1, <4>1, <4>4 DEF RequestRows, Scopes
      <4>6. /\ req'[cur].turn = req[cur].turn /\ req'[cur].aborted = req[cur].aborted
            /\ req'[cur].prep = req[cur].prep /\ req'[cur].status = "answer"
        BY <4>4, <4>5 DEF RequestRows
      <4>7. \A g \in 0..MaxRequests : g = cur \/ req'[g] = req[g]
        BY <4>5
      <4> QED
        BY <1>1, <4>5, <4>6, <4>7 DEF RequestsKept
    <3>2. CASE ~(Current(cur) /\ req[cur].rev # NoContext)
      BY <1>1, <2>1, <3>2 DEF RequestsKept
    <3> QED
      BY <3>1, <3>2
  <2>4. Shape'
    <3>1. changes' \in 1..(MaxChanges + 1)
      BY <1>1, <2>1, IntakeBounds
    <3> QED
      BY <1>1, <2>1, <2>2, <2>3, <3>1 DEF Shape
  <2> QED
    BY <2>1, <2>2, <2>3, <2>4, StillStep
<1> QED
  BY <1>3, <1>4

LEMMA CapturePreserves == ASSUME IntakeInv, Capture PROVE IntakeInv'
<1> DEFINE s == IF req[cur].turn = turn THEN "stale" ELSE req[cur].status
           old == Ends(req[cur], s)
           new == Captured(turn, reply)
<1>1. /\ Shape /\ Newest /\ Joins /\ OwnTask /\ cur \in 0..MaxRequests /\ turn \in 0..MaxTurns
      /\ req \in [0..MaxRequests -> RequestRows] /\ reply \in BOOLEAN
      /\ call \in [Calls -> CallRows]
  BY DEF IntakeInv, Shape
<1>2. /\ open /\ cur < MaxRequests /\ cur' = cur + 1 /\ reply' = FALSE
      /\ req' = [req EXCEPT ![cur] = old, ![cur + 1] = new]
      /\ UNCHANGED <<turn, open, cut, failed, stopped, asked, call, active, op, changes>>
  BY DEF Capture, native, core
<1>3. cur + 1 \in 1..MaxRequests /\ cur + 1 \in 0..MaxRequests /\ cur + 1 # cur /\ turn >= 1
  BY <1>1, <1>2, IntakeBounds DEF Newest
<1>4. /\ new \in RequestRows /\ new.turn = turn /\ new.status = "capturing" /\ new.prep = NoCall
      /\ old \in RequestRows /\ old.aborted /\ old.turn = req[cur].turn /\ old.prep = req[cur].prep
  <2>1. new \in RequestRows /\ new.turn = turn /\ new.status = "capturing" /\ new.prep = NoCall
    BY <1>1 DEF Captured, NoContext, RequestRows, Scopes
  <2>2. req[cur] \in RequestRows
    BY <1>1
  <2>3. s \in {"capturing", "answer", "preparing", "prepared", "closed", "stale"}
    BY <2>2 DEF RequestRows
  <2> HIDE DEF s
  <2>4. /\ Ends(req[cur], s) \in RequestRows /\ Ends(req[cur], s).aborted
        /\ Ends(req[cur], s).turn = req[cur].turn /\ Ends(req[cur], s).prep = req[cur].prep
    BY <2>2, <2>3, EndsIsRow
  <2> QED
    BY <2>1, <2>4
<1> HIDE DEF new, old
<1>5. /\ req' \in [0..MaxRequests -> RequestRows]
      /\ req'[cur + 1] = new /\ req'[cur] = old
      /\ \A g \in 0..MaxRequests : g # cur /\ g # cur + 1 => req'[g] = req[g]
  BY <1>1, <1>2, <1>3, <1>4
<1>6. \A g \in 1..cur : /\ g \in 0..MaxRequests /\ g # cur + 1
                        /\ req'[g].turn = req[g].turn /\ req'[g].prep = req[g].prep
  BY <1>1, <1>3, <1>4, <1>5, IntakeBounds
<1>7. \A g \in 1..cur' : g \in 1..cur \/ g = cur + 1
  BY <1>1, <1>2
<1>8. Shape'
  BY <1>1, <1>2, <1>3, <1>5 DEF Shape
<1>9. Newest'
  <2>1. \A g \in 1..cur' : req'[g].turn >= 1
    BY <1>1, <1>3, <1>4, <1>5, <1>6, <1>7 DEF Newest
  <2>2. ASSUME NEW g \in 0..MaxRequests, g = 0 \/ g > cur' PROVE req'[g].turn = 0 /\ req'[g].aborted
    <3>1. g # cur + 1 /\ (g = 0 \/ g > cur)
      BY <1>1, <1>2, <2>2, IntakeBounds
    <3>2. req[g].turn = 0 /\ req[g].aborted
      BY <1>1, <3>1 DEF Newest
    <3> QED
      BY <1>4, <1>5, <3>1, <3>2
  <2>3. \A g \in 0..MaxRequests : ~req'[g].aborted => g = cur' /\ req'[g].turn = turn /\ open
    BY <1>1, <1>2, <1>4, <1>5 DEF Newest
  <2>4. \A c \in Calls : call[c].at \notin Rest => Of(c) \in 1..cur'
    BY <1>1, <1>2 DEF Newest
  <2> QED
    BY <1>1, <1>2, <2>1, <2>2, <2>3, <2>4 DEF Newest, Of
<1>10. Joins'
  <2>0. /\ op \in [1..MaxTurns -> Calls \cup {NoCall}]
        /\ \A c \in Calls : call[c].at \notin Rest => Of(c) \in 1..cur
    BY <1>1 DEF Shape, Newest
  <2>1. ASSUME NEW g \in 1..cur', req'[g].prep # NoCall
        PROVE  Of(req'[g].prep) = g /\ call[req'[g].prep].at \in Underway
    BY <1>1, <1>4, <1>5, <1>6, <1>7, <2>1 DEF Joins
  <2>2. ASSUME NEW c \in Calls, Awaits(c, "join") PROVE req'[Of(c)].prep # NoCall
    BY <1>1, <1>6, <2>0, <2>2 DEF Joins, Awaits, Rest
  <2>3. ASSUME NEW t \in 1..MaxTurns, op[t] # NoCall
        PROVE  req'[Of(op[t])].turn = t /\ call[op[t]].at \in Admitting
    <3>1. op[t] \in Calls /\ req[Of(op[t])].turn = t /\ call[op[t]].at \in Admitting
      BY <1>1, <2>0, <2>3 DEF Joins
    <3> QED
      BY <1>6, <2>0, <3>1 DEF Rest, Admitting
  <2>4. ASSUME NEW c \in Calls, Awaits(c, "wait") PROVE op[req'[Of(c)].turn] # NoCall
    BY <1>1, <1>6, <2>0, <2>4 DEF Joins, Awaits, Rest
  <2> QED
    BY <1>2, <2>1, <2>2, <2>3, <2>4 DEF Joins, Of, Awaits
<1>11. ~Vouched'
  <2>1. ASSUME NEW c \in Calls, Vouches(c)' PROVE FALSE
    <3>1. Of(c) = cur + 1 /\ call[c].at \in {"admitted", "running"}
      BY <1>2, <2>1 DEF Vouches, Of, Awaits
    <3>2. Of(c) \in 1..cur
      BY <1>1, <3>1 DEF Newest, Rest
    <3> QED
      BY <1>1, <3>1, <3>2
  <2> QED
    BY <1>2, <1>4, <1>5, <2>1 DEF Vouched
<1> QED
  BY <1>8, <1>9, <1>10, <1>11 DEF IntakeInv, OwnTask

(* capture() past its synchronous part.                                      *)
LEMMA CapturingPreserves ==
  ASSUME IntakeInv, NEW g \in Requests, Capturing(g) PROVE IntakeInv'
<1>1. /\ Shape /\ cur \in 0..MaxRequests /\ changes \in Nat /\ active \in TaskRows
      /\ req \in [0..MaxRequests -> RequestRows] /\ cut \in BOOLEAN
      /\ g \in 0..MaxRequests /\ req[g] \in RequestRows
  BY IntakeBounds DEF IntakeInv, Shape, Requests
<1>2. NoTask \in TaskRows
  BY IntakeBounds DEF NoTask, TaskRows
<1>3. /\ UNCHANGED <<turn, open, failed, stopped, cur, reply, call, op, changes>>
      /\ cut' \in BOOLEAN /\ (cut => cut')
      /\ active' \in {active, NoTask}
  BY <1>1 DEF Capturing, CaptureFails, Started, Interpreted, Settled, native, questions, core
<1>4. /\ req' \in [0..MaxRequests -> RequestRows]
      /\ \A h \in 0..MaxRequests : h # g => req'[h] = req[h]
      /\ req'[g].turn = req[g].turn /\ req'[g].aborted = req[g].aborted /\ req'[g].prep = req[g].prep
      /\ req'[g].status = "prepared" => req[g].status = "prepared"
  <2> DEFINE Good == /\ req' \in [0..MaxRequests -> RequestRows]
                     /\ \A h \in 0..MaxRequests : h # g => req'[h] = req[h]
                     /\ req'[g].turn = req[g].turn /\ req'[g].aborted = req[g].aborted /\ req'[g].prep = req[g].prep
                     /\ req'[g].status = "prepared" => req[g].status = "prepared"
  <2>1. ASSUME req' = Over(g) PROVE Good
    BY <1>1, <2>1 DEF Over, RequestRows
  <2>2. CASE Started(g)
    <3>1. CASE req' = [req EXCEPT ![g].at = "interpret", ![g].since = changes]
      BY <1>1, <3>1 DEF RequestRows
    <3>2. ASSUME NEW r \in {NoContext, changes},
                 req' = [req EXCEPT ![g].at = "over", ![g].status = "answer", ![g].rev = r]
          PROVE  Good
      <4>1. r \in Nat
        BY <1>1 DEF NoContext
      <4> QED
        BY <1>1, <3>2, <4>1 DEF RequestRows
    <3>3. CASE req' = [req EXCEPT ![g].at = "over", ![g].status = "closed"]
      BY <1>1, <3>3 DEF RequestRows
    <3> QED
      BY <2>2, <3>1, <3>2, <3>3 DEF Started
  <2>3. CASE Interpreted(g)
    <3>1. PICK s \in {"unknown", "new", "same"}, r \in {NoContext} \cup req[g].since..changes :
            req' = IF Current(g)
                   THEN [req EXCEPT ![g].at = "settle", ![g].scope = s, ![g].rev = r, ![g].since = 0] ELSE Over(g)
      BY <2>3 DEF Interpreted
    <3>0. r \in Nat
      BY <1>1, NoEarlier DEF RequestRows, NoContext
    <3>2. CASE req' = [req EXCEPT ![g].at = "settle", ![g].scope = s, ![g].rev = r, ![g].since = 0]
      BY <1>1, <3>0, <3>2 DEF RequestRows, Scopes
    <3>3. CASE ~Current(g)
      BY <2>1, <3>1, <3>3
    <3> QED
      BY <3>1, <3>2, <3>3
  <2>4. CASE Settled(g)
    BY <1>1, <2>4 DEF Settled, RequestRows, Scopes
  <2> QED
    BY <2>1, <2>2, <2>3, <2>4 DEF Capturing, CaptureFails
<1>5. Shape'
  BY <1>1, <1>2, <1>3, <1>4 DEF Shape
<1>6. /\ RequestsKept
      /\ \A h \in 0..MaxRequests : /\ req'[h].prep = req[h].prep
                                   /\ req'[h].status = "prepared" => req[h].status = "prepared"
  BY <1>4 DEF RequestsKept
<1>7. UNCHANGED <<turn, open, cur, op, call>> /\ (stopped => stopped') /\ (cut => cut')
  BY <1>3
<1>8. active' # NoTask => active # NoTask /\ active'.req = active.req
  BY <1>3
<1> QED
  BY <1>5, <1>6, <1>7, <1>8, StillStep

-----------------------------------------------------------------------------
(* Tool calls.                                                               *)

(* A call goes on, to a station where it waits for no other.                 *)
LEMMA CallGoesOn ==
  ASSUME IntakeInv, NEW c \in Calls, NEW a \in Stations \ {"join", "wait"}, Moves(c, a),
         call[c].at \notin Rest,
         call[c].at \in Underway => a \in Underway,
         call[c].at \in Admitting => a \in Admitting,
         UNCHANGED <<turn, open, cut, failed, stopped, cur, op, changes>>, reply' \in BOOLEAN,
         req' \in [0..MaxRequests -> RequestRows], RequestsKept,
         \A g \in 0..MaxRequests : /\ req'[g].prep = req[g].prep
                                   /\ req'[g].status = "prepared" => req[g].status = "prepared",
         active' \in TaskRows,
         active' # NoTask => active # NoTask /\ active'.req = active.req,
         Unaborted(cur) /\ Of(c) = cur /\ (a = "admitted" \/ (a = "running" /\ Is(c, "work")))
           => Owned \/ Owned'
  PROVE  IntakeInv'
<1> DEFINE M == {c}
<1>1. Shape /\ Newest /\ call \in [Calls -> CallRows]
  BY DEF IntakeInv, Shape
<1>2. Shape'
  BY <1>1 DEF Shape, Moves
<1>3. CallStays(c)
  <2>1. Of(c) \in 1..cur
    BY <1>1 DEF Newest
  <2>2. a \in Underway => a \notin Rest
    BY DEF Underway, Admitting, Rest
  <2> QED
    BY <2>1, <2>2 DEF CallStays, Moves
<1>4. Unaborted(cur) /\ Vouches(c)' => Vouches(c) \/ Owned \/ Owned'
  <2> SUFFICES ASSUME Unaborted(cur), Vouches(c)' PROVE Owned \/ Owned'
    OBVIOUS
  <2>1. /\ call'[c].at = a /\ call'[c].req = cur
        /\ a = "admitted" \/ (a = "running" /\ call'[c].kind = "work")
    BY DEF Vouches, Of, Awaits, Is, Moves
  <2>2. call'[c].req = Of(c) /\ call'[c].kind = call[c].kind
    BY <2>1 DEF Moves, Rest
  <2> QED
    BY <2>1, <2>2 DEF Is
<1>5. M \in SUBSET Calls /\ \A d : d \in M <=> d = c
  OBVIOUS
<1>6. \A d \in Calls \ M : call'[d] = call[d]
  BY <1>5 DEF Moves
<1> HIDE DEF M
<1>7. \A d \in M : CallStays(d)
  BY <1>3, <1>5
<1>8. \A d \in M : Unaborted(cur) /\ Vouches(d)' => Vouches(d) \/ Owned \/ Owned'
  BY <1>4, <1>5
<1> QED
  BY <1>2, <1>5, <1>6, <1>7, <1>8, QuietStep

(* The same when only the call, the question or the pending answer moves.    *)
LEMMA CallGoesOnAlone ==
  ASSUME IntakeInv, NEW c \in Calls, NEW a \in Stations \ {"join", "wait"}, Moves(c, a),
         call[c].at \notin Rest,
         call[c].at \in Underway => a \in Underway,
         call[c].at \in Admitting => a \in Admitting,
         UNCHANGED <<turn, open, cut, failed, stopped, cur, op, changes, req, active>>,
         reply' \in BOOLEAN,
         Unaborted(cur) /\ Of(c) = cur /\ (a = "admitted" \/ (a = "running" /\ Is(c, "work")))
           => Owned
  PROVE  IntakeInv'
<1>1. req \in [0..MaxRequests -> RequestRows] /\ active \in TaskRows
  BY DEF IntakeInv, Shape
<1>2. RequestsKept
  BY DEF RequestsKept
<1> QED
  BY <1>1, <1>2, CallGoesOn

(* The context of a request is read anew; nothing else of it changes.        *)
LEMMA RevisionRead ==
  ASSUME Shape, NEW g \in 0..MaxRequests, NEW r \in Nat, req' = [req EXCEPT ![g].rev = r]
  PROVE  /\ req' \in [0..MaxRequests -> RequestRows] /\ RequestsKept
         /\ \A h \in 0..MaxRequests : req'[h].prep = req[h].prep /\ req'[h].status = req[h].status
<1>1. req \in [0..MaxRequests -> RequestRows] /\ req[g] \in RequestRows
  BY DEF Shape
<1>2. [req[g] EXCEPT !.rev = r] \in RequestRows
  BY <1>1 DEF RequestRows
<1>3. req' = [req EXCEPT ![g] = [req[g] EXCEPT !.rev = r]]
  OBVIOUS
<1>4. \A q \in RequestRows : LET e == [q EXCEPT !.rev = r] IN
        e.turn = q.turn /\ e.aborted = q.aborted /\ e.prep = q.prep /\ e.status = q.status
  BY DEF RequestRows
<1>5. \A h \in 0..MaxRequests : /\ req'[h].turn = req[h].turn /\ req'[h].aborted = req[h].aborted
                                 /\ req'[h].prep = req[h].prep /\ req'[h].status = req[h].status
  BY <1>1, <1>3, <1>4
<1> QED
  BY <1>1, <1>2, <1>3, <1>5 DEF RequestsKept

LEMMA BeginPreserves ==
  ASSUME IntakeInv, NEW c \in Calls, NEW k \in Kinds, Begin(c, k) PROVE IntakeInv'
<1> DEFINE M == {c}
<1>1. /\ Shape /\ Newest /\ cur \in 0..MaxRequests /\ Unaborted(cur)
      /\ call \in [Calls -> CallRows] /\ call[c].at = "idle"
  BY DEF IntakeInv, Shape, Begin, Current, Awaits
<1>2. cur \in 1..cur
  BY <1>1, LiveIsInForce
<1>3. PICK a \in {"approve", "diagnose"} :
        call' = [call EXCEPT ![c] = [Idle EXCEPT !.kind = k, !.at = a, !.req = cur]]
  BY DEF Begin
<1>4. UNCHANGED <<turn, open, cut, failed, stopped, req, cur, reply, active, op, changes>>
  BY DEF Begin, native, requests, core
<1>5. /\ call' \in [Calls -> CallRows] /\ call'[c].at = a /\ call'[c].req = cur
      /\ \A d \in Calls \ {c} : call'[d] = call[d]
  BY <1>1, <1>3 DEF Idle, NoContext, CallRows, Stations, Scopes
<1>6. Shape'
  BY <1>1, <1>4, <1>5 DEF Shape
<1>7. CallStays(c)
  BY <1>1, <1>2, <1>5 DEF CallStays, Underway, Admitting
<1>8. ~Vouches(c)'
  BY <1>5 DEF Vouches, Awaits
<1>9. M \in SUBSET Calls /\ \A d : d \in M <=> d = c
  OBVIOUS
<1> HIDE DEF M
<1>10. RequestsKept
  BY <1>4 DEF RequestsKept
<1>11. /\ \A d \in M : CallStays(d)
       /\ \A d \in Calls \ M : call'[d] = call[d]
       /\ \A d \in M : Unaborted(cur) /\ Vouches(d)' => Vouches(d) \/ Owned \/ Owned'
  BY <1>5, <1>7, <1>8, <1>9
<1> QED
  BY <1>4, <1>6, <1>9, <1>10, <1>11, QuietStep

LEMMA DispatchPreserves ==
  ASSUME IntakeInv, NEW c \in Calls, Dispatch(c) PROVE IntakeInv'
<1>1. /\ Shape /\ OwnTask /\ Awaits(c, "approve") /\ GoesTo(c, "running") /\ Current(Of(c)) /\ Bound(Of(c))
      /\ UNCHANGED <<turn, open, cut, failed, stopped, req, cur, reply, active, op, changes>>
      /\ reply \in BOOLEAN
  BY DEF IntakeInv, Shape, Dispatch, native, requests, questions, core
<1>2. "running" \in Stations \ {"join", "wait"}
  BY DEF Stations, Rest
<1>3. Moves(c, "running")
  BY <1>1, <1>2, GoesToMoves
<1>4. Is(c, "work") => Owned
  <2> SUFFICES ASSUME Is(c, "work") PROVE Owned
    OBVIOUS
  <2>1. req[Of(c)].status = "prepared"
    BY DEF Dispatch, Is
  <2> QED
    BY <1>1, <2>1 DEF OwnTask, Vouched, Current, Bound
<1> QED
  BY <1>1, <1>2, <1>3, <1>4, CallGoesOnAlone DEF Awaits, Rest, Underway, Admitting

LEMMA StartPreserves ==
  ASSUME IntakeInv, NEW c \in Calls, StartBody(c) PROVE IntakeInv'
<1>1. /\ Shape /\ Awaits(c, "running") /\ call \in [Calls -> CallRows]
      /\ UNCHANGED <<turn, open, cut, failed, stopped, req, cur, reply, active, op, changes>>
      /\ reply \in BOOLEAN /\ changes \in Nat
  BY IntakeFacts DEF StartBody, native, requests, questions, core
<1>2. {"bind", "over"} \subseteq (Stations \ {"join", "wait"}) \ {"admitted", "running"}
  BY DEF Stations, Rest
<1>3. PICK a \in {"bind", "over"} : Moves(c, a)
  <2>1. CASE call' = [call EXCEPT ![c].at = "bind", ![c].since = changes]
    BY <1>1, <1>2, <2>1 DEF Moves, CallRows, Of
  <2>2. CASE GoesTo(c, "over")
    BY <1>1, <1>2, <2>2, GoesToMoves
  <2> QED
    BY <2>1, <2>2 DEF StartBody
<1> QED
  BY <1>1, <1>2, <1>3, CallGoesOnAlone DEF Awaits, Rest, Underway, Admitting

(* The context that the preparation reads is the request's from then on.     *)
LEMMA BindsPreserves ==
  ASSUME IntakeInv, NEW c \in Calls, BindsIntent(c) PROVE IntakeInv'
<1> DEFINE g == Of(c)
<1>1. /\ Shape /\ Awaits(c, "bind") /\ call \in [Calls -> CallRows] /\ active \in TaskRows
      /\ UNCHANGED <<turn, open, cut, failed, stopped, cur, reply, active, op, changes>>
      /\ reply \in BOOLEAN /\ changes \in Nat
      /\ req \in [0..MaxRequests -> RequestRows] /\ g \in 0..MaxRequests
      /\ call' = [call EXCEPT ![c].at = "diagnose", ![c].since = 0]
  BY IntakeFacts DEF BindsIntent, native, questions, core, Awaits, Rest
<1>2. "diagnose" \in Stations \ {"join", "wait"}
  BY DEF Stations, Rest
<1>3. Moves(c, "diagnose")
  BY <1>1, <1>2 DEF Moves, CallRows, Of
<1>4. PICK r \in {req[g].rev} \cup call[c].since..changes : req' = [req EXCEPT ![g].rev = r]
  BY DEF BindsIntent
<1>5. r \in Nat /\ req[g] \in RequestRows
  BY <1>1, NoEarlier DEF RequestRows, CallRows
<1> HIDE DEF g
<1>6. /\ req' \in [0..MaxRequests -> RequestRows] /\ RequestsKept
      /\ \A h \in 0..MaxRequests : req'[h].prep = req[h].prep /\ req'[h].status = req[h].status
  BY <1>1, <1>4, <1>5, RevisionRead
<1> QED
  BY <1>1, <1>2, <1>3, <1>6, CallGoesOn DEF Awaits, Rest, Underway, Admitting

-----------------------------------------------------------------------------
(* Preparations and admissions.                                              *)

(* What is left to show of a step after which other calls wait.              *)
LEMMA WaitingStep ==
  ASSUME IntakeInv, Shape', Joins', UNCHANGED <<turn, open, cut, stopped, cur>>, RequestsKept,
         \A d \in Calls : call'[d].at \notin Rest => call'[d].req \in 1..cur,
         Unaborted(cur) /\ req'[cur].status = "prepared" => Vouched \/ Owned',
         \A d \in Calls : Unaborted(cur) /\ Vouches(d)' => Vouches(d) \/ Owned',
         Owned => Owned'
  PROVE  IntakeInv'
<1>1. Shape /\ Newest /\ OwnTask /\ cur \in 0..MaxRequests
  BY DEF IntakeInv, Shape
<1>2. Newest'
  BY <1>1, NewestKept
<1>3. Unaborted(cur)' => Unaborted(cur)
  BY <1>1 DEF Unaborted, RequestsKept
<1>4. Unaborted(cur) /\ Vouched' => Vouched \/ Owned'
  <2>1. ASSUME NEW d \in Calls, Unaborted(cur), Vouches(d)' PROVE Vouched \/ Owned'
    BY <2>1 DEF Vouched
  <2> QED
    BY <2>1 DEF Vouched
<1>5. OwnTask'
  BY <1>1, <1>3, <1>4 DEF OwnTask
<1> QED
  BY <1>2, <1>5 DEF IntakeInv

(* The first call of a request prepares it.                                  *)
LEMMA PreparationBegins ==
  ASSUME IntakeInv, NEW c \in Calls, Awaits(c, "diagnose"), GoesTo(c, "host"),
         req' = [req EXCEPT ![Of(c)].status = "preparing", ![Of(c)].prep = c],
         UNCHANGED <<turn, open, cut, failed, stopped, cur, reply, active, op, changes>>
  PROVE  IntakeInv'
<1> DEFINE g == Of(c)
<1>1. /\ Shape /\ Newest /\ Joins /\ cur \in 0..MaxRequests
      /\ req \in [0..MaxRequests -> RequestRows]
      /\ \A d \in Calls : call[d].at \notin Rest => Of(d) \in 1..cur /\ Of(d) \in 0..MaxRequests
      /\ \A h \in 1..cur : h \in 0..MaxRequests
      /\ g \in 1..cur /\ g \in 0..MaxRequests
  <2>1. call[c].at \notin Rest
    BY DEF Awaits, Rest
  <2> QED
    BY <2>1, IntakeFacts
<1>2. "host" \in Stations /\ "host" \in Underway /\ "host" \notin Rest \cup Admitting
  BY DEF Stations, Underway, Rest, Admitting
<1>3. Moves(c, "host")
  BY <1>1, <1>2, GoesToMoves
<1> HIDE DEF g
<1>4. /\ call' \in [Calls -> CallRows] /\ call'[c].at = "host" /\ call'[c].req = g
      /\ \A d \in Calls : d # c => call'[d] = call[d]
  BY <1>2, <1>3 DEF Moves, g
<1>5. /\ req' \in [0..MaxRequests -> RequestRows]
      /\ req'[g].prep = c /\ req'[g].status = "preparing"
      /\ \A h \in 0..MaxRequests : /\ req'[h].turn = req[h].turn /\ req'[h].aborted = req[h].aborted
                                   /\ h # g => req'[h] = req[h]
  <2>1. req' = [req EXCEPT ![g].status = "preparing", ![g].prep = c]
    BY DEF g
  <2>2. req[g] \in RequestRows
    BY <1>1
  <2>3. [req[g] EXCEPT !.status = "preparing", !.prep = c] \in RequestRows
    BY <2>2 DEF RequestRows
  <2>4. /\ req'[g] = [req[g] EXCEPT !.status = "preparing", !.prep = c]
        /\ \A h \in 0..MaxRequests : h # g => req'[h] = req[h]
        /\ req' \in [0..MaxRequests -> RequestRows]
    BY <1>1, <2>1, <2>3
  <2>5. \A r \in RequestRows : LET e == [r EXCEPT !.status = "preparing", !.prep = c] IN
          e.prep = c /\ e.status = "preparing" /\ e.turn = r.turn /\ e.aborted = r.aborted
    BY DEF RequestRows
  <2>6. /\ req'[g].prep = c /\ req'[g].status = "preparing"
        /\ req'[g].turn = req[g].turn /\ req'[g].aborted = req[g].aborted
    BY <2>2, <2>4, <2>5
  <2> QED
    BY <2>4, <2>6
<1>6. Shape'
  BY <1>1, <1>4, <1>5 DEF Shape
<1>7. Joins'
  <2>0. /\ op \in [1..MaxTurns -> Calls \cup {NoCall}] /\ NoCall \notin Calls
        /\ \A h \in 0..MaxRequests : req[h].prep \in Calls \cup {NoCall}
    BY <1>1, IntakeBounds DEF Shape, RequestRows
  <2>1. ASSUME NEW h \in 1..cur, req'[h].prep # NoCall
        PROVE  call'[req'[h].prep].req = h /\ call'[req'[h].prep].at \in Underway
    <3>1. CASE h = g
      <4>1. req'[h].prep = c
        BY <1>5, <3>1
      <4> QED
        BY <1>2, <1>4, <3>1, <4>1
    <3>2. CASE h # g
      <4>1. /\ req'[h].prep = req[h].prep /\ req[h].prep \in Calls
            /\ Of(req[h].prep) = h /\ call[req[h].prep].at \in Underway
        BY <1>1, <1>5, <2>0, <2>1, <3>2 DEF Joins
      <4> QED
        BY <1>4, <3>2, <4>1 DEF Of, g
    <3> QED
      BY <3>1, <3>2
  <2>2. ASSUME NEW d \in Calls, call'[d].at = "join" PROVE req'[call'[d].req].prep # NoCall
    <3>1. d # c /\ call'[d] = call[d] /\ Of(d) \in 1..cur
      BY <1>1, <1>4, <2>2 DEF Rest
    <3>2. req[Of(d)].prep # NoCall
      BY <1>1, <2>2, <3>1 DEF Joins, Awaits
    <3> QED
      BY <1>1, <1>5, <2>0, <3>1, <3>2 DEF Of
  <2>3. ASSUME NEW t \in 1..MaxTurns, op[t] # NoCall
        PROVE  req'[call'[op[t]].req].turn = t /\ call'[op[t]].at \in Admitting
    <3>1. op[t] \in Calls /\ req[Of(op[t])].turn = t /\ call[op[t]].at \in Admitting
      BY <1>1, <2>0, <2>3 DEF Joins
    <3>2. op[t] # c /\ Of(op[t]) \in 0..MaxRequests
      BY <1>1, <3>1 DEF Awaits, Admitting, Rest
    <3> QED
      BY <1>4, <1>5, <3>1, <3>2 DEF Of
  <2>4. ASSUME NEW d \in Calls, call'[d].at = "wait" PROVE op[req'[call'[d].req].turn] # NoCall
    <3>1. d # c /\ call'[d] = call[d] /\ Of(d) \in 0..MaxRequests
      BY <1>1, <1>4, <2>4 DEF Rest
    <3>2. op[req[Of(d)].turn] # NoCall
      BY <1>1, <2>4, <3>1 DEF Joins, Awaits
    <3> QED
      BY <1>5, <3>1, <3>2 DEF Of
  <2> QED
    BY <2>1, <2>2, <2>3, <2>4 DEF Joins, Of, Awaits
<1>8. RequestsKept
  BY <1>5 DEF RequestsKept
<1>9. \A d \in Calls : call'[d].at \notin Rest => call'[d].req \in 1..cur
  BY <1>1, <1>4 DEF Of
<1>10. req'[cur].status = "prepared" => Vouched
  BY <1>1, <1>5 DEF Vouched
<1>11. \A d \in Calls : Vouches(d)' => Vouches(d)
  BY <1>4 DEF Vouches, Of, Awaits, Is
<1>12. Owned => Owned'
  BY DEF Owned
<1> QED
  BY <1>6, <1>7, <1>8, <1>9, <1>10, <1>11, <1>12, WaitingStep

(* A call waits for what the request or its turn has under way.              *)
LEMMA CallWaits ==
  ASSUME IntakeInv, NEW c \in Calls, NEW a \in {"join", "wait"}, Moves(c, a),
         call[c].at \notin Rest \cup Underway \/ (a = "wait" /\ Awaits(c, "look")),
         a = "join" => req[Of(c)].prep # NoCall,
         a = "wait" => op[req[Of(c)].turn] # NoCall,
         UNCHANGED <<turn, open, cut, failed, stopped, req, cur, reply, op, changes>>,
         active' \in {active, NoTask}
  PROVE  IntakeInv'
<1>1. /\ Shape /\ Newest /\ Joins
      /\ \A d \in Calls : call[d].at \notin Rest => Of(d) \in 1..cur
      /\ op \in [1..MaxTurns -> Calls \cup {NoCall}]
      /\ \A h \in 1..cur : req[h].prep \in Calls \cup {NoCall}
      /\ NoTask \in TaskRows /\ active \in TaskRows
  BY IntakeFacts
<1>2. /\ call' \in [Calls -> CallRows] /\ call'[c].at = a /\ call'[c].req = Of(c)
      /\ call[c].at \notin Rest \cup Admitting
      /\ \A d \in Calls : d # c => call'[d] = call[d]
  BY DEF Moves, Rest, Underway, Admitting, Awaits
<1>3. Shape'
  BY <1>1, <1>2 DEF Shape
<1>4. Joins'
  <2>1. ASSUME NEW h \in 1..cur, req[h].prep # NoCall
        PROVE  call'[req[h].prep].req = h /\ call'[req[h].prep].at \in Underway
    <3>1. /\ req[h].prep \in Calls /\ Of(req[h].prep) = h
          /\ call[req[h].prep].at \in Underway
      BY <1>1, <2>1 DEF Joins
    <3>2. CASE req[h].prep = c
      BY <1>2, <3>1, <3>2 DEF Underway
    <3>3. CASE req[h].prep # c
      BY <1>2, <3>1, <3>3 DEF Of
    <3> QED
      BY <3>2, <3>3
  <2>2. ASSUME NEW d \in Calls, call'[d].at = "join" PROVE req[call'[d].req].prep # NoCall
    BY <1>1, <1>2, <2>2 DEF Joins, Awaits, Of
  <2>3. ASSUME NEW t \in 1..MaxTurns, op[t] # NoCall
        PROVE  req[call'[op[t]].req].turn = t /\ call'[op[t]].at \in Admitting
    BY <1>1, <1>2, <2>3 DEF Joins, Of
  <2>4. ASSUME NEW d \in Calls, call'[d].at = "wait" PROVE op[req[call'[d].req].turn] # NoCall
    BY <1>1, <1>2, <2>4 DEF Joins, Awaits, Of
  <2> QED
    BY <2>1, <2>2, <2>3, <2>4 DEF Joins, Of, Awaits
<1>5. RequestsKept
  BY DEF RequestsKept
<1>6. \A d \in Calls : call'[d].at \notin Rest => call'[d].req \in 1..cur
  BY <1>1, <1>2 DEF Of
<1>7. \A d \in Calls : Vouches(d)' => Vouches(d)
  BY <1>2 DEF Vouches, Of, Awaits, Is
<1>8. Owned => Owned'
  BY DEF Owned
<1>9. req'[cur].status = "prepared" => Vouched
  BY DEF Vouched
<1> QED
  BY <1>3, <1>4, <1>5, <1>6, <1>7, <1>8, <1>9, WaitingStep

LEMMA AssessedPreserves ==
  ASSUME IntakeInv, NEW c \in Calls, Assessed(c) PROVE IntakeInv'
<1> DEFINE g == Of(c)
<1>1. /\ Shape /\ Awaits(c, "diagnose") /\ call[c].at \notin Rest \cup Underway
      /\ UNCHANGED <<turn, open, cut, failed, stopped, cur, active, op, changes>>
      /\ g \in 0..MaxRequests /\ req \in [0..MaxRequests -> RequestRows] /\ reply \in BOOLEAN
      /\ call \in [Calls -> CallRows] /\ active \in TaskRows
  BY DEF IntakeInv, Shape, Assessed, native, core, Awaits, Rest, Underway, Admitting, CallRows, Of
<1>2. {"ask", "over", "approve"} \subseteq Stations \ {"join", "wait"}
  BY DEF Stations, Rest
<1>3. ASSUME NEW a \in {"over", "approve"}, GoesTo(c, a), UNCHANGED <<req, reply>>
      PROVE  IntakeInv'
  <2>1. Moves(c, a)
    BY <1>1, <1>2, <1>3, GoesToMoves
  <2> QED
    BY <1>1, <1>2, <1>3, <2>1, CallGoesOnAlone DEF Underway, Admitting
<1>4. CASE Clarify(c)
  <2>1. CASE GoesTo(c, "over") /\ UNCHANGED <<req, questions>>
    BY <1>3, <2>1 DEF questions
  <2>2. CASE /\ req' = [req EXCEPT ![g].pending = TRUE] /\ UNCHANGED reply
             /\ call' = [call EXCEPT ![c].at = "ask", ![c].rev = req[g].rev, ![c].since = changes]
    <3>1. /\ req' \in [0..MaxRequests -> RequestRows] /\ RequestsKept
          /\ \A h \in 0..MaxRequests : req'[h].prep = req[h].prep /\ req'[h].status = req[h].status
      <4>1. /\ req' \in [0..MaxRequests -> RequestRows]
            /\ \A h \in 0..MaxRequests : h # g => req'[h] = req[h]
            /\ req'[g] = [req[g] EXCEPT !.pending = TRUE] /\ req[g] \in RequestRows
        <5>1. req[g] \in RequestRows
          BY <1>1
        <5>2. [req[g] EXCEPT !.pending = TRUE] \in RequestRows
          BY <5>1 DEF RequestRows
        <5>3. req' = [req EXCEPT ![g] = [req[g] EXCEPT !.pending = TRUE]]
          BY <2>2
        <5> QED
          BY <1>1, <5>1, <5>2, <5>3
      <4>2. /\ req'[g].turn = req[g].turn /\ req'[g].aborted = req[g].aborted
            /\ req'[g].prep = req[g].prep /\ req'[g].status = req[g].status
        BY <4>1 DEF RequestRows
      <4> QED
        BY <4>1, <4>2 DEF RequestsKept
    <3>2. Moves(c, "ask")
      <4>1. req[g].rev \in Nat /\ changes \in Nat /\ call[c] \in CallRows
        BY <1>1 DEF RequestRows, Shape
      <4> QED
        BY <1>1, <1>2, <2>2, <4>1 DEF Moves, CallRows, Of
    <3> QED
      BY <1>1, <1>2, <2>2, <3>1, <3>2, CallGoesOn DEF Underway, Admitting
  <2> QED
    BY <1>4, <2>1, <2>2 DEF Clarify
<1>5. CASE Admit(c)
  <2>1. CASE (GoesTo(c, Passes(c)) \/ GoesTo(c, "over")) /\ UNCHANGED <<req, questions>>
    <3>1. Passes(c) \in {"over", "approve"}
      BY DEF Passes
    <3> QED
      BY <1>3, <2>1, <3>1 DEF questions
  <2>2. CASE req[g].prep # NoCall /\ GoesTo(c, "join") /\ UNCHANGED <<req, questions>>
    <3>1. Moves(c, "join")
      BY <1>1, <2>2, GoesToMoves DEF Stations
    <3> QED
      BY <1>1, <2>2, <3>1, CallWaits DEF questions
  <2>3. CASE /\ GoesTo(c, "host") /\ UNCHANGED questions
             /\ req' = [req EXCEPT ![g].status = "preparing", ![g].prep = c]
    BY <1>1, <2>3, PreparationBegins DEF questions
  <2> QED
    BY <1>5, <2>1, <2>2, <2>3 DEF Admit
<1> QED
  BY <1>4, <1>5 DEF Assessed

(* The host finds the task of the request, or goes on to admit one.          *)
LEMMA HostLooksPreserves ==
  ASSUME IntakeInv, NEW c \in Calls, HostLooks(c) PROVE IntakeInv'
<1> DEFINE task == IF active.sound THEN active ELSE NoTask
<1>1. /\ Shape /\ reply \in BOOLEAN /\ call \in [Calls -> CallRows]
      /\ active \in TaskRows /\ NoTask \in TaskRows
      /\ req \in [0..MaxRequests -> RequestRows]
  BY IntakeFacts
<1>2. /\ UNCHANGED <<turn, open, cut, failed, stopped, req, cur, reply, op, changes>>
      /\ call[c].at = "host" /\ active' = task
  BY DEF HostLooks, native, requests, questions, Awaits
<1>3. /\ {"admitted", "look"} \subseteq (Stations \ {"join", "wait"}) \cap Underway
      /\ call[c].at \notin Rest \cup Admitting
  BY <1>2 DEF Stations, Underway, Admitting, Rest
<1>4. active' \in TaskRows /\ active' \in {active, NoTask}
  BY <1>1, <1>2
<1>5. RequestsKept
  BY <1>2 DEF RequestsKept
<1>6. ASSUME NEW a \in {"admitted", "look"}, Moves(c, a), a = "admitted" => active'.req = Of(c)
      PROVE  IntakeInv'
  <2>1. Of(c) = cur /\ a = "admitted" => Owned'
    BY <1>2, <1>6 DEF Owned
  <2> QED
    BY <1>1, <1>2, <1>3, <1>4, <1>5, <1>6, <2>1, CallGoesOn
<1>7. CASE SameRequest(c, task) /\ GoesTo(c, "admitted")
  <2>1. Moves(c, "admitted")
    BY <1>1, <1>3, <1>7, GoesToMoves
  <2> QED
    BY <1>2, <1>6, <1>7, <2>1 DEF SameRequest
<1>8. ASSUME NEW s \in {"new", "same"},
             call' = [call EXCEPT ![c] =
               [@ EXCEPT !.at = "look", !.seen = (task.turn = req[Of(c)].turn), !.scope = s]]
      PROVE  IntakeInv'
  <2> DEFINE row == [call[c] EXCEPT !.at = "look", !.seen = (task.turn = req[Of(c)].turn), !.scope = s]
  <2>1. (task.turn = req[Of(c)].turn) \in BOOLEAN /\ call[c] \in CallRows
    BY <1>1
  <2>2. row \in CallRows /\ row.at = "look" /\ row.req = Of(c) /\ row.kind = call[c].kind
    BY <1>3, <2>1 DEF CallRows, Scopes, Of
  <2>3. call' = [call EXCEPT ![c] = row]
    BY <1>8
  <2> HIDE DEF row
  <2>4. Moves(c, "look")
    BY <1>1, <2>2, <2>3 DEF Moves
  <2> QED
    BY <1>6, <2>4
<1> QED
  BY <1>2, <1>7, <1>8 DEF HostLooks

LEMMA HostGoesPreserves ==
  ASSUME IntakeInv, NEW c \in Calls, HostGoes(c) PROVE IntakeInv'
<1> DEFINE t == req[Of(c)].turn
           a == IF op[t] = NoCall THEN "admit" ELSE "wait"
<1>1. call[c].at = "look" /\ call[c].at \notin Rest \cup Admitting
  BY DEF HostGoes, Awaits, Rest, Admitting
<1>2. /\ Shape /\ Newest /\ Joins
      /\ call \in [Calls -> CallRows] /\ active \in TaskRows /\ NoTask \in TaskRows
      /\ op \in [1..MaxTurns -> Calls \cup {NoCall}] /\ NoCall \notin Calls
      /\ \A h \in 0..MaxRequests : req[h].prep \in Calls \cup {NoCall}
      /\ \A h \in 1..cur : h \in 0..MaxRequests
      /\ \A d \in Calls : call[d].at \notin Rest => Of(d) \in 1..cur /\ Of(d) \in 0..MaxRequests
      /\ t \in 1..MaxTurns
  BY <1>1, IntakeFacts
<1>3. /\ UNCHANGED <<turn, open, cut, failed, stopped, req, cur, reply, changes>>
      /\ active' \in {active, NoTask}
      /\ op' = IF op[t] = NoCall THEN [op EXCEPT ![t] = c] ELSE op
      /\ call' = [call EXCEPT ![c].at = a, ![c].seen = FALSE]
  BY DEF HostGoes, native, requests, questions
<1>4. {"admit", "wait"} \subseteq Stations /\ "admit" \in Admitting /\ "admit" \in Underway
  BY DEF Stations, Underway, Admitting
<1>5. Moves(c, a)
  <2>1. a \in Stations /\ call[c] \in CallRows
    BY <1>2, <1>4
  <2>2. call' = [call EXCEPT ![c] = [call[c] EXCEPT !.at = a, !.seen = FALSE]]
    BY <1>2, <1>3
  <2> HIDE DEF a
  <2>3. [call[c] EXCEPT !.at = a, !.seen = FALSE] \in CallRows
    BY <2>1 DEF CallRows
  <2>4. \A r \in CallRows : LET e == [r EXCEPT !.at = a, !.seen = FALSE] IN
          e.at = a /\ e.req = r.req /\ e.kind = r.kind
    BY DEF CallRows
  <2>5. call' \in [Calls -> CallRows] /\ \A d \in Calls \ {c} : call'[d] = call[d]
    BY <1>2, <2>2, <2>3
  <2>6. call'[c] = [call[c] EXCEPT !.at = a, !.seen = FALSE]
    BY <1>2, <2>2
  <2> QED
    BY <2>1, <2>4, <2>5, <2>6 DEF Moves, Of
<1>6. CASE op[t] # NoCall
  <2>1. a = "wait" /\ op' = op
    BY <1>3, <1>6
  <2>2. Moves(c, "wait") /\ Awaits(c, "look")
    BY <1>1, <1>5, <2>1 DEF Awaits
  <2> QED
    BY <1>1, <1>3, <1>6, <2>1, <2>2, CallWaits
<1>7. CASE op[t] = NoCall
  <2>1. /\ call' \in [Calls -> CallRows] /\ call'[c].at = "admit" /\ call'[c].req = Of(c)
        /\ \A d \in Calls : d # c => call'[d] = call[d]
    BY <1>5, <1>7 DEF Moves, Rest
  <2>2. /\ op' \in [1..MaxTurns -> Calls \cup {NoCall}] /\ op'[t] = c
        /\ \A u \in 1..MaxTurns : u # t => op'[u] = op[u]
    BY <1>2, <1>3, <1>7
  <2> HIDE DEF a
  <2>3. Shape'
    BY <1>2, <1>3, <2>1, <2>2 DEF Shape
  <2>4. Joins'
    <3>1. ASSUME NEW h \in 1..cur, req[h].prep # NoCall
          PROVE  call'[req[h].prep].req = h /\ call'[req[h].prep].at \in Underway
      <4>1. /\ req[h].prep \in Calls /\ Of(req[h].prep) = h
            /\ call[req[h].prep].at \in Underway
        BY <1>2, <3>1 DEF Joins
      <4>2. CASE req[h].prep = c
        BY <1>4, <2>1, <4>1, <4>2
      <4>3. CASE req[h].prep # c
        BY <2>1, <4>1, <4>3 DEF Of
      <4> QED
        BY <4>2, <4>3
    <3>2. ASSUME NEW d \in Calls, call'[d].at = "join" PROVE req[call'[d].req].prep # NoCall
      BY <1>2, <2>1, <3>2 DEF Joins, Awaits, Of
    <3>3. ASSUME NEW u \in 1..MaxTurns, op'[u] # NoCall
          PROVE  req[call'[op'[u]].req].turn = u /\ call'[op'[u]].at \in Admitting
      <4>1. CASE u = t
        BY <1>4, <2>1, <2>2, <4>1
      <4>2. CASE u # t
        <5>1. op'[u] = op[u] /\ op[u] \in Calls /\ req[Of(op[u])].turn = u /\ call[op[u]].at \in Admitting
          BY <1>2, <2>2, <3>3, <4>2 DEF Joins
        <5> QED
          BY <1>1, <2>1, <5>1 DEF Of
      <4> QED
        BY <4>1, <4>2
    <3>4. ASSUME NEW d \in Calls, call'[d].at = "wait" PROVE op'[req[call'[d].req].turn] # NoCall
      <4>1. d # c /\ call'[d] = call[d] /\ op[req[Of(d)].turn] # NoCall
        BY <1>2, <2>1, <3>4 DEF Joins, Awaits
      <4>2. req[Of(d)].turn \in 1..MaxTurns
        BY <3>4, <4>1, IntakeFacts DEF Rest
      <4> QED
        BY <1>2, <2>2, <4>1, <4>2 DEF Of
    <3> QED
      BY <1>3, <3>1, <3>2, <3>3, <3>4 DEF Joins, Of, Awaits
  <2>5. RequestsKept
    BY <1>3 DEF RequestsKept
  <2>6. \A d \in Calls : call'[d].at \notin Rest => call'[d].req \in 1..cur
    BY <1>1, <1>2, <2>1 DEF Of
  <2>7. \A d \in Calls : Vouches(d)' => Vouches(d)
    BY <1>3, <2>1 DEF Vouches, Of, Awaits, Is
  <2>8. Owned => Owned'
    BY <1>3 DEF Owned
  <2>9. req'[cur].status = "prepared" => Vouched
    BY <1>3 DEF Vouched
  <2> QED
    BY <1>3, <2>3, <2>4, <2>5, <2>6, <2>7, <2>8, <2>9, WaitingStep
<1> QED
  BY <1>6, <1>7

LEMMA OpensTaskPreserves ==
  ASSUME IntakeInv, NEW c \in Calls, OpensTask(c) PROVE IntakeInv'
<1>1. /\ Shape /\ reply \in BOOLEAN /\ active \in TaskRows /\ NoTask \in TaskRows
      /\ req \in [0..MaxRequests -> RequestRows]
  BY IntakeFacts
<1>2. /\ UNCHANGED <<turn, open, cut, failed, stopped, req, cur, reply, op, changes>>
      /\ call[c].at = "admit" /\ GoesTo(c, "task") /\ active' \in {active, NoTask}
  BY DEF OpensTask, native, requests, Awaits
<1>3. /\ "task" \in Stations \ {"join", "wait"} /\ "task" \in Underway /\ "task" \in Admitting
      /\ call[c].at \notin Rest
  BY <1>2 DEF Stations, Underway, Admitting, Rest
<1>4. Moves(c, "task")
  BY <1>1, <1>2, <1>3, GoesToMoves
<1>5. RequestsKept
  BY <1>2 DEF RequestsKept
<1> QED
  BY <1>1, <1>2, <1>3, <1>4, <1>5, CallGoesOn

(* The admission of a turn ends for the call that made it and for all who    *)
(* wait for it.                                                              *)
LEMMA ResolvesPreserves ==
  ASSUME IntakeInv, NEW c \in Calls, call[c].at \in Admitting,
         NEW a \in {"admitted", "refused"}, Resolves(c, a),
         UNCHANGED <<turn, open, cut, failed, stopped, req, cur, reply, changes>>,
         active' \in TaskRows,
         a = "admitted" => Unaborted(Of(c)) /\ active'.req = Of(c),
         a = "refused" => active' = active
  PROVE  IntakeInv'
<1> DEFINE t == req[Of(c)].turn
           Moving(d) == d = c \/ (Awaits(d, "wait") /\ req[Of(d)].turn = t)
<1>0. call[c].at \notin Rest
  BY DEF Admitting, Rest
<1>1. /\ Shape /\ Newest /\ Joins
      /\ call \in [Calls -> CallRows]
      /\ op \in [1..MaxTurns -> Calls \cup {NoCall}] /\ NoCall \notin Calls
      /\ \A h \in 0..MaxRequests : req[h].prep \in Calls \cup {NoCall}
      /\ \A h \in 1..cur : h \in 0..MaxRequests /\ req[h].turn \in 1..MaxTurns
      /\ \A d \in Calls : call[d].at \notin Rest => Of(d) \in 1..cur /\ Of(d) \in 0..MaxRequests
      /\ t \in 1..MaxTurns
  BY <1>0, IntakeFacts
<1>2. a \in Stations /\ a \in Underway /\ a \notin Rest
  BY DEF Stations, Underway, Rest
<1>3. \A d \in Calls : IF Moving(d)
        THEN call'[d] \in CallRows /\ call'[d].at = a /\ call'[d].req = Of(d) /\ call'[d].kind = call[d].kind
        ELSE call'[d] = call[d]
  <2>1. \A d \in Calls : call'[d] = IF Moving(d) THEN To(d, a) ELSE call[d]
    BY DEF Resolves
  <2> HIDE DEF Moving
  <2> QED
    BY <1>1, <1>2, <2>1, ToIsRow
<1>4. call' \in [Calls -> CallRows]
  <2>1. \A d \in Calls : call'[d] \in CallRows
    BY <1>1, <1>3
  <2>2. call' = [d \in Calls |-> call'[d]]
    BY DEF Resolves
  <2> QED
    BY <2>1, <2>2
<1>5. /\ op' \in [1..MaxTurns -> Calls \cup {NoCall}] /\ op'[t] = NoCall
      /\ \A u \in 1..MaxTurns : u # t => op'[u] = op[u]
  BY <1>1 DEF Resolves
<1>6. /\ Moving(c)
      /\ \A d \in Calls : Moving(d) => call[d].at \in Underway /\ req[Of(d)].turn = t
      /\ \A d \in Calls : Awaits(d, "wait") /\ ~Moving(d) => req[Of(d)].turn # t
      /\ \A d \in Calls : Moving(d) /\ d # c => call[d].at = "wait"
  BY DEF Underway, Awaits
<1> HIDE DEF Moving, t
<1>7. Shape'
  BY <1>1, <1>4, <1>5 DEF Shape
<1>8. Joins'
  <2>1. ASSUME NEW h \in 1..cur, req[h].prep # NoCall
        PROVE  call'[req[h].prep].req = h /\ call'[req[h].prep].at \in Underway
    <3>1. /\ req[h].prep \in Calls /\ Of(req[h].prep) = h
          /\ call[req[h].prep].at \in Underway
      BY <1>1, <2>1 DEF Joins
    <3> QED
      BY <1>2, <1>3, <3>1 DEF Of
  <2>2. ASSUME NEW d \in Calls, call'[d].at = "join" PROVE req[call'[d].req].prep # NoCall
    BY <1>1, <1>3, <2>2 DEF Joins, Awaits, Of
  <2>3. ASSUME NEW u \in 1..MaxTurns, op'[u] # NoCall
        PROVE  req[call'[op'[u]].req].turn = u /\ call'[op'[u]].at \in Admitting
    <3>1. u # t /\ op'[u] = op[u] /\ op[u] \in Calls
          /\ req[Of(op[u])].turn = u /\ call[op[u]].at \in Admitting
      BY <1>1, <1>5, <2>3 DEF Joins
    <3>2. ~Moving(op[u])
      BY <1>6, <3>1
    <3> QED
      BY <1>3, <3>1, <3>2 DEF Of
  <2>4. ASSUME NEW d \in Calls, call'[d].at = "wait" PROVE op'[req[call'[d].req].turn] # NoCall
    <3>1. ~Moving(d) /\ call'[d] = call[d]
      BY <1>3, <2>4
    <3>2. /\ Awaits(d, "wait") /\ req[Of(d)].turn # t /\ req[Of(d)].turn \in 1..MaxTurns
          /\ op[req[Of(d)].turn] # NoCall
      BY <1>1, <1>6, <2>4, <3>1 DEF Awaits, Joins, Rest
    <3> QED
      BY <1>5, <3>1, <3>2 DEF Of
  <2> QED
    BY <2>1, <2>2, <2>3, <2>4 DEF Joins, Of, Awaits
<1>9. RequestsKept
  BY DEF RequestsKept
<1>10. \A d \in Calls : call'[d].at \notin Rest => call'[d].req \in 1..cur
  <2>1. \A d \in Calls : call[d].at \in Underway => call[d].at \notin Rest
    BY DEF Underway, Admitting, Rest
  <2> QED
    BY <1>1, <1>3, <1>6, <2>1 DEF Of
<1>11. a = "admitted" => Owned'
  <2> SUFFICES ASSUME a = "admitted" PROVE Owned'
    OBVIOUS
  <2>1. Of(c) = cur
    BY <1>0, <1>1, LiveIsInForce
  <2> QED
    BY <2>1 DEF Owned
<1>12. Owned => Owned'
  BY <1>11 DEF Owned
<1>13. \A d \in Calls : Vouches(d)' => Vouches(d) \/ Owned'
  <2> SUFFICES ASSUME NEW d \in Calls, Vouches(d)', a = "refused" PROVE Vouches(d)
    BY <1>11
  <2>1. ~Moving(d)
    BY <1>3 DEF Vouches, Awaits
  <2> QED
    BY <1>3, <2>1 DEF Vouches, Awaits, Of, Is
<1>14. req'[cur].status = "prepared" => Vouched
  BY DEF Vouched
<1> QED
  BY <1>7, <1>8, <1>9, <1>10, <1>12, <1>13, <1>14, WaitingStep

LEMMA TaskAdmittedPreserves ==
  ASSUME IntakeInv, NEW c \in Calls, TaskAdmitted(c) PROVE IntakeInv'
<1>1. /\ UNCHANGED <<turn, open, cut, failed, stopped, req, cur, reply, changes>>
      /\ call[c].at = "task" /\ Resolves(c, "admitted") /\ Unaborted(Of(c))
      /\ active' = [req |-> Of(c), turn |-> req[Of(c)].turn, sound |-> TRUE]
  BY DEF TaskAdmitted, native, requests, questions, Awaits
<1>2. Of(c) \in 0..MaxRequests /\ req[Of(c)].turn \in 0..MaxTurns
  BY <1>1, IntakeFacts DEF Rest
<1>3. active' \in TaskRows /\ active'.req = Of(c)
  BY <1>1, <1>2 DEF TaskRows
<1> QED
  BY <1>1, <1>3, ResolvesPreserves DEF Admitting

LEMMA AdmissionFailsPreserves ==
  ASSUME IntakeInv, NEW c \in Calls, AdmissionFails(c) PROVE IntakeInv'
<1>1. /\ UNCHANGED <<turn, open, cut, failed, stopped, req, cur, reply, active, changes>>
      /\ call[c].at \in {"host", "look", "admit", "task"}
  BY DEF AdmissionFails, native, requests, questions
<1>2. Shape /\ active \in TaskRows /\ reply \in BOOLEAN
  BY IntakeFacts
<1>3. CASE call[c].at \in Admitting /\ Resolves(c, "refused")
  BY <1>1, <1>2, <1>3, ResolvesPreserves
<1>4. CASE call[c].at \in {"host", "look"} /\ GoesTo(c, "refused") /\ UNCHANGED op
  <2>1. "refused" \in Stations \ {"join", "wait"} /\ "refused" \in Underway
    BY DEF Stations, Underway
  <2>2. Moves(c, "refused") /\ call[c].at \notin Rest \cup Admitting
    BY <1>2, <1>4, <2>1, GoesToMoves DEF Rest, Admitting
  <2> QED
    BY <1>1, <1>2, <1>4, <2>1, <2>2, CallGoesOnAlone
<1> QED
  BY <1>1, <1>3, <1>4 DEF AdmissionFails, Admitting

(* A preparation ends for the call that made it and for all who joined it.   *)
LEMMA ReturnPreserves ==
  ASSUME IntakeInv, NEW c \in Calls, NEW b \in BOOLEAN, call[c].at \in {"admitted", "refused"},
         Return(c, Of(c), b),
         UNCHANGED <<turn, open, cut, failed, stopped, cur, reply, active, op, changes>>,
         req' \in [0..MaxRequests -> RequestRows], RequestsKept,
         req'[Of(c)].prep = NoCall,
         \A h \in 0..MaxRequests : h # Of(c) => req'[h] = req[h],
         Unaborted(cur) /\ req'[cur].status = "prepared" => Vouched
  PROVE  IntakeInv'
<1> DEFINE g == Of(c)
           Moving(d) == d = c \/ (Awaits(d, "join") /\ Of(d) = g)
<1>0. call[c].at \notin Rest
  BY DEF Rest
<1>1. /\ Shape /\ Newest /\ Joins
      /\ call \in [Calls -> CallRows]
      /\ op \in [1..MaxTurns -> Calls \cup {NoCall}] /\ NoCall \notin Calls
      /\ \A h \in 0..MaxRequests : req[h].prep \in Calls \cup {NoCall}
      /\ \A h \in 1..cur : h \in 0..MaxRequests
      /\ \A d \in Calls : call[d].at \notin Rest => Of(d) \in 1..cur /\ Of(d) \in 0..MaxRequests
      /\ g \in 1..cur
  BY <1>0, IntakeFacts
<1>2. {"over", "approve"} \subseteq Stations /\ {"over", "approve"} \cap (Underway \cup {"join"}) = {}
  BY DEF Stations, Underway, Admitting, Rest
<1>3. \A d \in Calls : IF Moving(d)
        THEN /\ call'[d] \in CallRows /\ call'[d].at \in {"over", "approve"}
             /\ call'[d].at \notin Rest => call'[d].req = Of(d)
        ELSE call'[d] = call[d]
  <2> SUFFICES ASSUME NEW d \in Calls
               PROVE  IF Moving(d)
                      THEN /\ call'[d] \in CallRows /\ call'[d].at \in {"over", "approve"}
                           /\ call'[d].at \notin Rest => call'[d].req = Of(d)
                      ELSE call'[d] = call[d]
    OBVIOUS
  <2> DEFINE a == IF b THEN Passes(d) ELSE "over"
  <2>1. call'[d] = IF Moving(d) THEN To(d, a) ELSE call[d]
    BY DEF Return
  <2>2. a \in {"over", "approve"}
    BY DEF Passes
  <2> HIDE DEF Moving, a
  <2> QED
    BY <1>1, <1>2, <2>1, <2>2, ToIsRow
<1>4. call' \in [Calls -> CallRows]
  <2>1. \A d \in Calls : call'[d] \in CallRows
    BY <1>1, <1>3
  <2>2. call' = [d \in Calls |-> call'[d]]
    BY DEF Return
  <2> QED
    BY <2>1, <2>2
<1>5. /\ \A d \in Calls : Moving(d) => Of(d) = g /\ call[d].at \in {"admitted", "refused", "join"}
      /\ \A d \in Calls : Awaits(d, "join") /\ ~Moving(d) => Of(d) # g
  BY DEF Awaits
<1>6. req'[g].prep = NoCall /\ \A h \in 0..MaxRequests : h # g => req'[h] = req[h]
  OBVIOUS
<1> HIDE DEF Moving, g
<1>7. Shape'
  BY <1>1, <1>4 DEF Shape
<1>8. Joins'
  <2>1. ASSUME NEW h \in 1..cur, req'[h].prep # NoCall
        PROVE  call'[req'[h].prep].req = h /\ call'[req'[h].prep].at \in Underway
    <3>1. h # g /\ req'[h] = req[h]
      BY <1>1, <1>6, <2>1
    <3>2. /\ req[h].prep \in Calls /\ Of(req[h].prep) = h
          /\ call[req[h].prep].at \in Underway
      BY <1>1, <2>1, <3>1 DEF Joins
    <3>3. ~Moving(req[h].prep)
      BY <1>5, <3>1, <3>2
    <3> QED
      BY <1>3, <3>1, <3>2, <3>3 DEF Of
  <2>2. ASSUME NEW d \in Calls, call'[d].at = "join" PROVE req'[call'[d].req].prep # NoCall
    <3>1. ~Moving(d) /\ call'[d] = call[d]
      BY <1>3, <2>2
    <3>2. Of(d) # g /\ Of(d) \in 0..MaxRequests /\ req[Of(d)].prep # NoCall
      BY <1>1, <1>5, <2>2, <3>1 DEF Awaits, Joins, Rest
    <3> QED
      BY <1>6, <3>1, <3>2 DEF Of
  <2>3. ASSUME NEW u \in 1..MaxTurns, op[u] # NoCall
        PROVE  req'[call'[op[u]].req].turn = u /\ call'[op[u]].at \in Admitting
    <3>1. op[u] \in Calls /\ req[Of(op[u])].turn = u /\ call[op[u]].at \in Admitting
      BY <1>1, <2>3 DEF Joins
    <3>2. ~Moving(op[u]) /\ Of(op[u]) \in 0..MaxRequests
      BY <1>1, <1>5, <3>1 DEF Admitting, Rest
    <3> QED
      BY <1>3, <3>1, <3>2 DEF Of, RequestsKept
  <2>4. ASSUME NEW d \in Calls, call'[d].at = "wait" PROVE op[req'[call'[d].req].turn] # NoCall
    <3>1. ~Moving(d) /\ call'[d] = call[d]
      BY <1>3, <2>4
    <3>2. Of(d) \in 0..MaxRequests /\ op[req[Of(d)].turn] # NoCall
      BY <1>1, <2>4, <3>1 DEF Awaits, Joins, Rest
    <3> QED
      BY <3>1, <3>2 DEF Of, RequestsKept
  <2> QED
    BY <2>1, <2>2, <2>3, <2>4 DEF Joins, Of, Awaits
<1>9. \A d \in Calls : call'[d].at \notin Rest => call'[d].req \in 1..cur
  BY <1>1, <1>3, <1>5 DEF Of
<1>10. \A d \in Calls : Vouches(d)' => Vouches(d)
  <2> SUFFICES ASSUME NEW d \in Calls, Vouches(d)' PROVE Vouches(d)
    OBVIOUS
  <2>1. ~Moving(d)
    BY <1>3 DEF Vouches, Awaits
  <2> QED
    BY <1>3, <2>1 DEF Vouches, Awaits, Of, Is
<1>11. Owned => Owned'
  BY DEF Owned
<1> QED
  BY <1>7, <1>8, <1>9, <1>10, <1>11, WaitingStep

LEMMA PreparedPreserves ==
  ASSUME IntakeInv, NEW c \in Calls, Prepared(c) PROVE IntakeInv'
<1> DEFINE g == Of(c)
<1>1. /\ UNCHANGED <<turn, open, cut, failed, stopped, cur, reply, active, op, changes>>
      /\ call[c].at = "admitted" /\ Return(c, g, TRUE) /\ Current(g)
      /\ req' = [req EXCEPT ![g].status = "prepared", ![g].pending = FALSE, ![g].prep = NoCall]
  BY DEF Prepared, native, core, Awaits
<1>2. /\ g \in 0..MaxRequests /\ req \in [0..MaxRequests -> RequestRows] /\ req[g] \in RequestRows
  BY <1>1, IntakeFacts DEF Rest
<1>3. \A r \in RequestRows : LET e == [r EXCEPT !.status = "prepared", !.pending = FALSE, !.prep = NoCall] IN
        e \in RequestRows /\ e.prep = NoCall /\ e.turn = r.turn /\ e.aborted = r.aborted
  BY DEF RequestRows
<1>4. req' = [req EXCEPT ![g] = [req[g] EXCEPT !.status = "prepared", !.pending = FALSE, !.prep = NoCall]]
  BY <1>1
<1> HIDE DEF g
<1>5. /\ req' \in [0..MaxRequests -> RequestRows] /\ req'[g].prep = NoCall
      /\ req'[g].turn = req[g].turn /\ req'[g].aborted = req[g].aborted
      /\ \A h \in 0..MaxRequests : h # g => req'[h] = req[h]
  BY <1>2, <1>3, <1>4
<1>6. RequestsKept
  BY <1>5 DEF RequestsKept
<1>7. Vouched
  BY <1>1 DEF Vouched, Vouches, Current, Awaits, g
<1> QED
  BY <1>1, <1>5, <1>6, <1>7, ReturnPreserves DEF g

LEMMA PreparationFailsPreserves ==
  ASSUME IntakeInv, NEW c \in Calls, PreparationFails(c) PROVE IntakeInv'
<1> DEFINE g == Of(c)
           s == IF req[g].status \in {"closed", "stale"} THEN req[g].status
                ELSE IF Unaborted(g) THEN "answer" ELSE "stale"
<1>1. /\ UNCHANGED <<turn, open, cut, failed, stopped, cur, reply, active, op, changes>>
      /\ call[c].at \in {"admitted", "refused"} /\ Return(c, g, FALSE)
      /\ req' = [req EXCEPT ![g].prep = NoCall, ![g].status = s]
  BY DEF PreparationFails, native, questions, core, Awaits
<1>2. /\ g \in 0..MaxRequests /\ req \in [0..MaxRequests -> RequestRows] /\ req[g] \in RequestRows
      /\ s \in {"closed", "stale", "answer"}
  BY <1>1, IntakeFacts DEF Rest
<1> HIDE DEF s, g
<1>3. \A r \in RequestRows : LET e == [r EXCEPT !.prep = NoCall, !.status = s] IN
        e \in RequestRows /\ e.prep = NoCall /\ e.status = s /\ e.turn = r.turn /\ e.aborted = r.aborted
  BY <1>2 DEF RequestRows
<1>4. req' = [req EXCEPT ![g] = [req[g] EXCEPT !.prep = NoCall, !.status = s]]
  BY <1>1
<1>5. /\ req' \in [0..MaxRequests -> RequestRows] /\ req'[g].prep = NoCall /\ req'[g].status = s
      /\ req'[g].turn = req[g].turn /\ req'[g].aborted = req[g].aborted
      /\ \A h \in 0..MaxRequests : h # g => req'[h] = req[h]
  BY <1>2, <1>3, <1>4
<1>6. RequestsKept
  BY <1>5 DEF RequestsKept
<1>7. req'[cur].status = "prepared" => Vouched
  <2>1. cur \in 0..MaxRequests
    BY IntakeFacts
  <2> QED
    BY <1>2, <1>5, <2>1 DEF Vouched
<1> QED
  BY <1>1, <1>5, <1>6, <1>7, ReturnPreserves DEF g

(* The question and its answer.                                              *)
LEMMA AskingPreserves ==
  ASSUME IntakeInv, NEW c \in Calls, Asking(c) PROVE IntakeInv'
<1> DEFINE g == Of(c)
<1>1. /\ UNCHANGED <<turn, open, cut, failed, stopped, cur, active, op, changes>>
      /\ call[c].at \in {"ask", "recheck"} /\ call[c].at \notin Rest \cup Underway
  BY DEF Asking, AnswerGiven, AnswerQueued, QuestionEnds, native, requests, core, Awaits,
         Rest, Underway, Admitting
<1>2. /\ Shape /\ g \in 0..MaxRequests /\ req \in [0..MaxRequests -> RequestRows]
      /\ req[g] \in RequestRows /\ changes \in Nat /\ reply \in BOOLEAN /\ active \in TaskRows
  BY <1>1, IntakeFacts
<1>3. {"over", "recheck", "told"} \subseteq Stations \ {"join", "wait"}
  BY DEF Stations, Rest
<1>4. ASSUME NEW a \in {"over", "recheck", "told"}, GoesTo(c, a), UNCHANGED req, reply' \in BOOLEAN
      PROVE  IntakeInv'
  <2>1. Moves(c, a)
    BY <1>2, <1>3, <1>4, GoesToMoves
  <2> QED
    BY <1>1, <1>3, <1>4, <2>1, CallGoesOnAlone DEF Underway, Admitting
<1>5. CASE AnswerGiven(c)
  BY <1>2, <1>4, <1>5 DEF AnswerGiven, requests, questions
<1>6. CASE AnswerQueued(c)
  <2>1. CASE reply' = TRUE /\ GoesTo(c, "told") /\ UNCHANGED req
    BY <1>4, <2>1
  <2>2. ASSUME NEW r \in {req[g].rev, changes}, req' = [req EXCEPT ![g].rev = r],
               GoesTo(c, "over"), UNCHANGED questions
        PROVE  IntakeInv'
    <3>1. r \in Nat
      BY <1>2, <2>2 DEF RequestRows
    <3> HIDE DEF g
    <3>2. /\ req' \in [0..MaxRequests -> RequestRows] /\ RequestsKept
          /\ \A h \in 0..MaxRequests : req'[h].prep = req[h].prep /\ req'[h].status = req[h].status
      BY <1>2, <2>2, <3>1, RevisionRead
    <3>3. Moves(c, "over") /\ reply' = reply
      BY <1>2, <1>3, <2>2, GoesToMoves DEF questions
    <3> QED
      BY <1>1, <1>2, <1>3, <3>2, <3>3, CallGoesOn DEF Underway, Admitting
  <2> QED
    BY <1>6, <2>1, <2>2 DEF AnswerQueued
<1>7. ASSUME NEW b \in BOOLEAN, QuestionEnds(c, b) PROVE IntakeInv'
  BY <1>2, <1>4, <1>7 DEF QuestionEnds, requests
<1> QED
  BY <1>5, <1>6, <1>7 DEF Asking

-----------------------------------------------------------------------------
LEMMA IntakeStarts == IntakeInit => IntakeInv
<1> SUFFICES ASSUME IntakeInit PROVE IntakeInv
  OBVIOUS
<1>0. /\ turn = 0 /\ open = FALSE /\ cut = FALSE /\ failed = {} /\ stopped = FALSE
      /\ req = [g \in 0..MaxRequests |-> NoRequest] /\ cur = 0 /\ reply = FALSE
      /\ call = [c \in Calls |-> Idle] /\ active = NoTask
      /\ op = [t \in 1..MaxTurns |-> NoCall] /\ changes = 1
  BY DEF IntakeInit
<1>1. Idle \in CallRows /\ Idle.at = "idle" /\ NoTask \in TaskRows
  BY IntakeBounds DEF Idle, NoContext, CallRows, Kinds, Stations, Rest, Scopes, NoTask, TaskRows
<1>2. Shape
  <2>1. /\ turn \in 0..MaxTurns /\ cur \in 0..MaxRequests /\ changes \in 1..(MaxChanges + 1)
        /\ failed \subseteq 1..turn
    BY <1>0, IntakeBounds
  <2>2. /\ req \in [0..MaxRequests -> RequestRows] /\ call \in [Calls -> CallRows]
        /\ op \in [1..MaxTurns -> Calls \cup {NoCall}]
    BY <1>0, <1>1, NoRequestRow
  <2> QED
    BY <1>0, <1>1, <2>1, <2>2 DEF Shape
<1>3. Newest
  BY <1>0, <1>1, IntakeBounds, NoRequestRow DEF Newest, Rest
<1>4. Joins
  BY <1>0, <1>1 DEF Joins, Awaits
<1>5. OwnTask
  BY <1>0 DEF OwnTask, Owned
<1> QED
  BY <1>2, <1>3, <1>4, <1>5 DEF IntakeInv

LEMMA IntakeStep == IntakeInv /\ [IntakeNext]_intakeVars => IntakeInv'
<1> SUFFICES ASSUME IntakeInv, [IntakeNext]_intakeVars PROVE IntakeInv'
  OBVIOUS
<1>1. CASE World
  BY <1>1, StartTurnPreserves, HostPreserves, EndTurnPreserves DEF World
<1>2. CASE Capture
  BY <1>2, CapturePreserves
<1>3. ASSUME NEW g \in Requests, Capturing(g) PROVE IntakeInv'
  BY <1>3, CapturingPreserves
<1>4. ASSUME NEW c \in Calls, Calling(c) PROVE IntakeInv'
  BY <1>4, BeginPreserves, DispatchPreserves, StartPreserves, BindsPreserves DEF Calling
<1>5. ASSUME NEW c \in Calls, Preparing(c) PROVE IntakeInv'
  BY <1>5, AssessedPreserves, HostLooksPreserves, HostGoesPreserves, OpensTaskPreserves,
     TaskAdmittedPreserves, AdmissionFailsPreserves, PreparedPreserves, PreparationFailsPreserves
     DEF Preparing
<1>6. ASSUME NEW c \in Calls, Asking(c) PROVE IntakeInv'
  BY <1>6, AskingPreserves
<1>7. CASE UNCHANGED intakeVars
  BY <1>7 DEF intakeVars, native, requests, questions, core, IntakeInv, Shape, Newest, Joins, OwnTask,
              Vouched, Vouches, Owned, Unaborted, Of, Awaits, Is
<1> QED
  BY <1>1, <1>2, <1>3, <1>4, <1>5, <1>6, <1>7 DEF IntakeNext

-----------------------------------------------------------------------------
(* Steps that ask no question and make no context newer than the task.       *)
CallAsksNothing(c) ==
  call'[c].at \in {"ask", "recheck"} =>
    /\ call[c].at \in {"ask", "recheck"}
    /\ call'[c].rev = call[c].rev /\ call'[c].since = call[c].since
Reread(g) == req'[g].rev = req[g].rev \/ req'[g].rev <= changes'

LEMMA DatedKept ==
  ASSUME Shape, Dated, changes' \in Nat, changes <= changes',
         \A c \in Calls : CallAsksNothing(c), \A g \in 0..MaxRequests : Reread(g)
  PROVE  Dated'
<1>1. changes \in Nat /\ \A g \in 0..MaxRequests : req[g].rev \in Nat
  BY IntakeBounds DEF Shape, RequestRows
<1>2. \A c \in Calls : call[c].rev \in Nat /\ call[c].since \in Nat
  BY DEF Shape, CallRows
<1> QED
  BY <1>1, <1>2 DEF Dated, CallAsksNothing, Reread

(* A call that goes on asks nothing; only an answer leads to the last look.  *)
LEMMA ToAsksNothing ==
  ASSUME Shape, NEW c \in Calls, NEW a \in Stations, GoesTo(c, a), a # "ask",
         a = "recheck" => call[c].at = "ask"
  PROVE  \A d \in Calls : CallAsksNothing(d)
<1>1. call \in [Calls -> CallRows] /\ call' = [call EXCEPT ![c] = To(c, a)]
  BY DEF Shape, GoesTo
<1>2. /\ To(c, a).at = a
      /\ a = "recheck" => To(c, a).rev = call[c].rev /\ To(c, a).since = call[c].since
  BY <1>1, ToIsRow DEF To, CallRows
<1> QED
  BY <1>1, <1>2 DEF CallAsksNothing

(* Neither do calls that come to another station, however they are written.  *)
LEMMA SetAsksNothing ==
  ASSUME \A d \in Calls : call'[d] = call[d] \/ call'[d].at \notin {"ask", "recheck"}
  PROVE  \A d \in Calls : CallAsksNothing(d)
BY DEF CallAsksNothing

LEMMA DatedWorld == ASSUME Shape, Dated, World \/ Capture PROVE Dated'
<1>1. /\ req \in [0..MaxRequests -> RequestRows] /\ changes \in Nat /\ cur \in 0..MaxRequests
      /\ \A g \in 0..MaxRequests : req[g].rev \in Nat /\ 0 <= changes
  BY IntakeBounds DEF Shape, RequestRows
<1>2. call' = call
  BY DEF World, StartTurn, EndTurn, Cancel, Stop, TaskStateChanged, FinishSession, Capture
<1>3. \A c \in Calls : CallAsksNothing(c)
  BY <1>2 DEF CallAsksNothing
<1>4. \A g \in 0..MaxRequests : \A s : Ends(req[g], s).rev = 0
  BY <1>1 DEF Ends, NoContext, RequestRows
<1>5. CASE StartTurn \/ Cancel \/ Stop \/ FinishSession
  <2>1. req' = req /\ changes' = changes
    BY <1>5 DEF StartTurn, Cancel, Stop, FinishSession, requests
  <2> QED
    BY <1>1, <1>3, <2>1, DatedKept DEF Reread
<1>6. ASSUME NEW b \in BOOLEAN, EndTurn(b) PROVE Dated'
  <2>1. /\ req' = IF req[cur].turn = turn THEN [req EXCEPT ![cur] = Ends(req[cur], "closed")] ELSE req
        /\ changes' = changes
    BY <1>6 DEF EndTurn
  <2>2. \A g \in 0..MaxRequests : req'[g].rev = req[g].rev \/ req'[g].rev = 0
    BY <1>1, <1>4, <2>1
  <2> QED
    BY <1>1, <1>3, <2>1, <2>2, DatedKept DEF Reread
<1>7. CASE TaskStateChanged
  <2> DEFINE row == [req[cur] EXCEPT !.status = "answer", !.scope = "unknown", !.rev = changes + 1]
  <2>1. req' \in {[req EXCEPT ![cur] = row], req} /\ changes' = changes + 1
    BY <1>7 DEF TaskStateChanged
  <2>2. row.rev = changes + 1
    BY <1>1 DEF RequestRows
  <2> HIDE DEF row
  <2>3. \A g \in 0..MaxRequests : req'[g].rev = req[g].rev \/ req'[g].rev = changes + 1
    BY <1>1, <2>1, <2>2
  <2> QED
    BY <1>1, <1>3, <2>1, <2>3, DatedKept DEF Reread
<1>8. CASE Capture
  <2>1. PICK s : req' = [req EXCEPT ![cur] = Ends(req[cur], s), ![cur + 1] = Captured(turn, reply)]
    BY <1>8 DEF Capture
  <2>2. Captured(turn, reply).rev = 0
    BY DEF Captured, NoContext
  <2>3. \A g \in 0..MaxRequests : req'[g].rev = req[g].rev \/ req'[g].rev = 0
    BY <1>1, <1>4, <2>1, <2>2
  <2>4. changes' = changes
    BY <1>8 DEF Capture
  <2> QED
    BY <1>1, <1>3, <2>3, <2>4, DatedKept DEF Reread
<1> QED
  BY <1>5, <1>6, <1>7, <1>8 DEF World

LEMMA DatedCapturing == ASSUME Shape, Dated, NEW g \in Requests, Capturing(g) PROVE Dated'
<1>1. /\ req \in [0..MaxRequests -> RequestRows] /\ changes \in Nat
      /\ req[g] \in RequestRows /\ g \in 0..MaxRequests
  BY IntakeBounds DEF Shape, Requests
<1>2. call' = call /\ changes' = changes
  BY DEF Capturing, CaptureFails, Started, Interpreted, Settled
<1>3. \A c \in Calls : CallAsksNothing(c)
  BY <1>2 DEF CallAsksNothing
<1>4. /\ \A h \in 0..MaxRequests : h # g => req'[h] = req[h]
      /\ req'[g].rev = req[g].rev \/ req'[g].rev <= changes
  <2> DEFINE Good == /\ \A h \in 0..MaxRequests : h # g => req'[h] = req[h]
                     /\ req'[g].rev = req[g].rev \/ req'[g].rev <= changes
  <2>1. ASSUME req' = Over(g) PROVE Good
    BY <1>1, <2>1 DEF Over, RequestRows
  <2>2. CASE Started(g)
    <3>1. CASE req' = [req EXCEPT ![g].at = "interpret", ![g].since = changes]
      BY <1>1, <3>1 DEF RequestRows
    <3>2. ASSUME NEW r \in {NoContext, changes},
                 req' = [req EXCEPT ![g].at = "over", ![g].status = "answer", ![g].rev = r]
          PROVE  Good
      <4>1. r <= changes
        BY <1>1 DEF NoContext
      <4> QED
        BY <1>1, <3>2, <4>1 DEF RequestRows
    <3>3. CASE req' = [req EXCEPT ![g].at = "over", ![g].status = "closed"]
      BY <1>1, <3>3 DEF RequestRows
    <3> QED
      BY <2>2, <3>1, <3>2, <3>3 DEF Started
  <2>3. CASE Interpreted(g)
    <3>1. PICK s \in {"unknown", "new", "same"}, r \in {NoContext} \cup req[g].since..changes :
            req' = IF Current(g)
                   THEN [req EXCEPT ![g].at = "settle", ![g].scope = s, ![g].rev = r, ![g].since = 0] ELSE Over(g)
      BY <2>3 DEF Interpreted
    <3>2. r <= changes
      BY <1>1, NoEarlier DEF RequestRows, NoContext
    <3>3. CASE req' = [req EXCEPT ![g].at = "settle", ![g].scope = s, ![g].rev = r, ![g].since = 0]
      BY <1>1, <3>2, <3>3 DEF RequestRows
    <3> QED
      BY <2>1, <3>1, <3>3
  <2>4. CASE Settled(g)
    <3>1. req' = [req EXCEPT ![g].at = "over", ![g].status = "answer", ![g].scope = "unknown"]
      BY <2>4 DEF Settled
    <3> QED
      BY <1>1, <3>1 DEF RequestRows
  <2> QED
    BY <2>1, <2>2, <2>3, <2>4 DEF Capturing, CaptureFails
<1> QED
  BY <1>1, <1>2, <1>3, <1>4, DatedKept DEF Reread

LEMMA DatedCalling == ASSUME Shape, Dated, NEW c \in Calls, Calling(c) PROVE Dated'
<1>1. /\ req \in [0..MaxRequests -> RequestRows] /\ changes \in Nat /\ call \in [Calls -> CallRows]
      /\ call[c] \in CallRows /\ Of(c) \in 0..MaxRequests
  BY IntakeBounds DEF Shape, CallRows, Of
<1>2. changes' = changes
  BY DEF Calling, Begin, Dispatch, StartBody, BindsIntent
<1>3. ASSUME \A d \in Calls : CallAsksNothing(d), req' = req PROVE Dated'
  BY <1>1, <1>2, <1>3, DatedKept DEF Reread
<1>4. ASSUME NEW k \in Kinds, Begin(c, k) PROVE Dated'
  <2>1. PICK a \in {"approve", "diagnose"} :
          call' = [call EXCEPT ![c] = [Idle EXCEPT !.kind = k, !.at = a, !.req = cur]]
    BY <1>4 DEF Begin
  <2>2. \A d \in Calls : call'[d] = call[d] \/ call'[d].at = a
    BY <1>1, <2>1 DEF Idle
  <2> QED
    BY <1>3, <1>4, <2>2, SetAsksNothing DEF Begin, requests
<1>5. {"running", "over"} \subseteq Stations
  BY DEF Stations, Rest
<1>6. CASE Dispatch(c)
  BY <1>3, <1>5, <1>6, ToAsksNothing DEF Dispatch, requests
<1>7. CASE StartBody(c)
  <2>1. CASE call' = [call EXCEPT ![c].at = "bind", ![c].since = changes]
    <3>1. \A d \in Calls : call'[d] = call[d] \/ call'[d].at = "bind"
      BY <1>1, <2>1 DEF CallRows
    <3> QED
      BY <1>3, <1>7, <3>1, SetAsksNothing DEF StartBody, requests
  <2>2. CASE GoesTo(c, "over")
    BY <1>3, <1>5, <1>7, <2>2, ToAsksNothing DEF StartBody, requests
  <2> QED
    BY <1>7, <2>1, <2>2 DEF StartBody
<1>8. CASE BindsIntent(c)
  <2>1. PICK r \in {req[Of(c)].rev} \cup call[c].since..changes : req' = [req EXCEPT ![Of(c)].rev = r]
    BY <1>8 DEF BindsIntent
  <2>2. r = req[Of(c)].rev \/ r <= changes
    BY <1>1, <2>1, NoEarlier DEF CallRows
  <2>3. \A g \in 0..MaxRequests : req'[g].rev = req[g].rev \/ (g = Of(c) /\ req'[g].rev = r)
    <3>1. req[Of(c)] \in RequestRows
      BY <1>1
    <3>2. [req[Of(c)] EXCEPT !.rev = r].rev = r
      BY <3>1 DEF RequestRows
    <3> QED
      BY <1>1, <2>1, <3>2
  <2>4. call' = [call EXCEPT ![c].at = "diagnose", ![c].since = 0]
    BY <1>8 DEF BindsIntent
  <2>5. \A d \in Calls : call'[d] = call[d] \/ call'[d].at = "diagnose"
    BY <1>1, <2>4 DEF CallRows
  <2>6. \A d \in Calls : CallAsksNothing(d)
    BY <2>5, SetAsksNothing
  <2> QED
    BY <1>1, <1>2, <2>2, <2>3, <2>6, DatedKept DEF Reread
<1> QED
  BY <1>4, <1>6, <1>7, <1>8 DEF Calling

(* A preparation asks, with the context of its request, or goes on.          *)
LEMMA DatedPreparing == ASSUME Shape, Dated, NEW c \in Calls, Preparing(c) PROVE Dated'
<1>1. /\ req \in [0..MaxRequests -> RequestRows] /\ changes \in Nat /\ call \in [Calls -> CallRows]
      /\ call[c] \in CallRows /\ Of(c) \in 0..MaxRequests /\ req[Of(c)] \in RequestRows
  BY IntakeBounds DEF Shape, CallRows, Of
<1>2. changes' = changes
  BY DEF Preparing, Assessed, HostLooks, HostGoes, OpensTask, TaskAdmitted, AdmissionFails, Prepared, PreparationFails
<1>3. ASSUME \A d \in Calls : CallAsksNothing(d), \A g \in 0..MaxRequests : req'[g].rev = req[g].rev
      PROVE  Dated'
  BY <1>1, <1>2, <1>3, DatedKept DEF Reread
<1>4. {"over", "approve", "join", "host", "admitted", "refused", "task"} \subseteq Stations
  BY DEF Stations, Rest, Underway, Admitting
<1>5. ASSUME NEW a \in {"over", "approve", "join", "host", "admitted", "refused", "task"}, GoesTo(c, a)
      PROVE  \A d \in Calls : CallAsksNothing(d)
  BY <1>4, <1>5, ToAsksNothing
<1>6. CASE Assessed(c)
  <2>1. CASE Clarify(c) /\ ~GoesTo(c, "over")
    <3>1. /\ req' = [req EXCEPT ![Of(c)].pending = TRUE]
          /\ call' = [call EXCEPT ![c].at = "ask", ![c].rev = req[Of(c)].rev, ![c].since = changes]
      BY <2>1 DEF Clarify
    <3>2. \A g \in 0..MaxRequests : req'[g].rev = req[g].rev
      BY <1>1, <3>1 DEF RequestRows
    <3>3. /\ \A d \in Calls \ {c} : call'[d] = call[d]
          /\ call'[c].rev = req[Of(c)].rev /\ call'[c].since = changes
      BY <1>1, <3>1 DEF CallRows
    <3> QED
      BY <1>1, <1>2, <3>2, <3>3 DEF Dated
  <2>3. CASE Admit(c)
    <3>1. \E a \in {"over", "approve", "join", "host"} : GoesTo(c, a)
      BY <2>3 DEF Admit, Passes
    <3>2. \A g \in 0..MaxRequests : req'[g].rev = req[g].rev
      <4>1. [req[Of(c)] EXCEPT !.status = "preparing", !.prep = c].rev = req[Of(c)].rev
        BY <1>1 DEF RequestRows
      <4>2. req' \in {req, [req EXCEPT ![Of(c)] = [req[Of(c)] EXCEPT !.status = "preparing", !.prep = c]]}
        BY <2>3 DEF Admit
      <4> QED
        BY <1>1, <4>1, <4>2
    <3> QED
      BY <1>3, <1>5, <3>1, <3>2
  <2>2. Clarify(c) /\ GoesTo(c, "over") => \A g \in 0..MaxRequests : req'[g].rev = req[g].rev
    <3>1. [req[Of(c)] EXCEPT !.pending = TRUE].rev = req[Of(c)].rev
      BY <1>1 DEF RequestRows
    <3>2. Clarify(c) => req' \in {req, [req EXCEPT ![Of(c)] = [req[Of(c)] EXCEPT !.pending = TRUE]]}
      BY DEF Clarify
    <3> QED
      BY <1>1, <3>1, <3>2
  <2> QED
    BY <1>3, <1>5, <1>6, <2>1, <2>2, <2>3 DEF Assessed
<1>7. CASE HostLooks(c)
  <2>1. CASE GoesTo(c, "admitted")
    BY <1>3, <1>5, <1>7, <2>1 DEF HostLooks, requests
  <2>2. ASSUME NEW b, NEW q, call' = [call EXCEPT ![c] = [call[c] EXCEPT !.at = "look", !.seen = b, !.scope = q]]
        PROVE  Dated'
    <3>1. [call[c] EXCEPT !.at = "look", !.seen = b, !.scope = q].at = "look"
      BY <1>1 DEF CallRows
    <3>2. \A d \in Calls : call'[d] = call[d] \/ call'[d].at \notin {"ask", "recheck"}
      BY <1>1, <2>2, <3>1
    <3> QED
      BY <1>3, <1>7, <3>2, SetAsksNothing DEF HostLooks, requests
  <2> QED
    BY <1>7, <2>1, <2>2 DEF HostLooks
<1>8. CASE HostGoes(c)
  <2>1. PICK a \in {"admit", "wait"} : call' = [call EXCEPT ![c].at = a, ![c].seen = FALSE]
    BY <1>8 DEF HostGoes
  <2>2. \A d \in Calls : call'[d] = call[d] \/ call'[d].at \notin {"ask", "recheck"}
    BY <1>1, <2>1 DEF CallRows
  <2> QED
    BY <1>3, <1>8, <2>2, SetAsksNothing DEF HostGoes, requests
<1>9. CASE OpensTask(c)
  BY <1>3, <1>5, <1>9 DEF OpensTask, requests
<1>10. ASSUME NEW a \in {"admitted", "refused"}, Resolves(c, a) PROVE \A d \in Calls : CallAsksNothing(d)
  <2>1. \A d \in Calls : call'[d] = call[d] \/ call'[d] = To(d, a)
    BY <1>10 DEF Resolves
  <2>2. \A d \in Calls : To(d, a).at = a
    BY <1>4, ToIsRow
  <2> QED
    BY <2>1, <2>2, SetAsksNothing
<1>11. CASE TaskAdmitted(c) \/ AdmissionFails(c)
  BY <1>3, <1>5, <1>10, <1>11 DEF TaskAdmitted, AdmissionFails, requests
<1>12. ASSUME NEW b \in BOOLEAN, Return(c, Of(c), b) PROVE \A d \in Calls : CallAsksNothing(d)
  <2>1. \A d \in Calls : call'[d] = call[d] \/ call'[d] = To(d, "over") \/ call'[d] = To(d, "approve")
    BY <1>12 DEF Return, Passes
  <2>2. \A d \in Calls : To(d, "over").at = "over" /\ To(d, "approve").at = "approve"
    BY <1>4, ToIsRow
  <2> QED
    BY <2>1, <2>2, SetAsksNothing
<1>13. CASE Prepared(c) \/ PreparationFails(c)
  <2>1. \A d \in Calls : CallAsksNothing(d)
    BY <1>12, <1>13 DEF Prepared, PreparationFails
  <2>2. CASE Prepared(c)
    <3>1. \A g \in 0..MaxRequests : req'[g].rev = req[g].rev
      BY <1>1, <2>2 DEF Prepared, RequestRows
    <3> QED
      BY <1>3, <2>1, <3>1
  <2>3. CASE PreparationFails(c)
    <3>1. PICK s : req' = [req EXCEPT ![Of(c)].prep = NoCall, ![Of(c)].status = s]
      BY <2>3 DEF PreparationFails
    <3>2. \A g \in 0..MaxRequests : req'[g].rev = req[g].rev
      BY <1>1, <3>1 DEF RequestRows
    <3> QED
      BY <1>3, <2>1, <3>2
  <2> QED
    BY <1>13, <2>2, <2>3
<1> QED
  BY <1>6, <1>7, <1>8, <1>9, <1>11, <1>13 DEF Preparing

LEMMA DatedAsking == ASSUME Shape, Dated, NEW c \in Calls, Asking(c) PROVE Dated'
<1>1. /\ req \in [0..MaxRequests -> RequestRows] /\ changes \in Nat
      /\ Of(c) \in 0..MaxRequests /\ changes' = changes
      /\ {"over", "recheck", "told"} \subseteq Stations
  BY IntakeBounds DEF Shape, CallRows, Of, Asking, AnswerGiven, AnswerQueued, QuestionEnds, Stations, Rest
<1>2. ASSUME NEW a \in {"over", "recheck", "told"}, GoesTo(c, a), a = "recheck" => Awaits(c, "ask")
      PROVE  \A d \in Calls : CallAsksNothing(d)
  BY <1>1, <1>2, ToAsksNothing DEF Awaits
<1>3. \A d \in Calls : CallAsksNothing(d)
  BY <1>2 DEF Asking, AnswerGiven, AnswerQueued, QuestionEnds
<1>4. CASE req' = req
  BY <1>1, <1>3, <1>4, DatedKept DEF Reread
<1>5. ASSUME NEW r \in {req[Of(c)].rev, changes}, req' = [req EXCEPT ![Of(c)].rev = r] PROVE Dated'
  <2>1. \A g \in 0..MaxRequests : req'[g].rev = req[g].rev \/ req'[g].rev = changes
    BY <1>1, <1>5 DEF RequestRows
  <2> QED
    BY <1>1, <1>3, <2>1, DatedKept DEF Reread
<1> QED
  BY <1>4, <1>5 DEF Asking, AnswerGiven, AnswerQueued, QuestionEnds, requests

LEMMA DatedStep == IntakeInv /\ Dated /\ [IntakeNext]_intakeVars => Dated'
<1> SUFFICES ASSUME IntakeInv, Dated, [IntakeNext]_intakeVars PROVE Dated'
  OBVIOUS
<1>1. Shape
  BY IntakeFacts
<1>2. CASE UNCHANGED intakeVars
  BY <1>2 DEF Dated, intakeVars, requests
<1> QED
  BY <1>1, <1>2, DatedWorld, DatedCapturing, DatedCalling, DatedPreparing, DatedAsking DEF IntakeNext

LEMMA DatedStarts == IntakeInit => Dated
<1> SUFFICES ASSUME IntakeInit PROVE Dated
  OBVIOUS
<1>1. NoRequest.rev = 0 /\ Idle.at = "idle"
  BY DEF NoRequest, Captured, NoContext, Idle
<1> QED
  BY <1>1 DEF IntakeInit, Dated

(* A call moves by an action of its own, unless it waits for another.        *)
LEMMA CallsMoveThemselves ==
  ASSUME Shape, IntakeNext, NEW c \in Calls, call'[c] # call[c], call[c].at \notin {"join", "wait"}
  PROVE  Calling(c) \/ Preparing(c) \/ Asking(c)
<1>0. call \in [Calls -> CallRows]
  BY DEF Shape
<1>1. ASSUME World \/ Capture \/ (\E g \in Requests : Capturing(g)) PROVE FALSE
  BY <1>1 DEF World, StartTurn, EndTurn, Cancel, Stop, TaskStateChanged, FinishSession, Capture,
              Capturing, CaptureFails, Started, Interpreted, Settled
<1>2. ASSUME NEW d \in Calls, d # c, Calling(d) PROVE FALSE
  BY <1>0, <1>2 DEF Calling, Begin, Dispatch, StartBody, BindsIntent, GoesTo
<1>3. ASSUME NEW d \in Calls, d # c, Preparing(d) PROVE FALSE
  <2>1. ~Resolves(d, "admitted") /\ ~Resolves(d, "refused")
    BY <1>3 DEF Resolves, Awaits
  <2>2. ~Return(d, Of(d), TRUE) /\ ~Return(d, Of(d), FALSE)
    BY <1>3 DEF Return, Awaits
  <2>3. \A a : ~GoesTo(d, a)
    BY <1>0, <1>3 DEF GoesTo
  <2> QED
    BY <1>0, <1>3, <2>1, <2>2, <2>3
       DEF Preparing, Assessed, Clarify, Admit, HostLooks, HostGoes, OpensTask, TaskAdmitted,
           AdmissionFails, Prepared, PreparationFails
<1>4. ASSUME NEW d \in Calls, d # c, Asking(d) PROVE FALSE
  BY <1>0, <1>4 DEF Asking, AnswerGiven, AnswerQueued, QuestionEnds, GoesTo
<1> QED
  BY <1>1, <1>2, <1>3, <1>4 DEF IntakeNext

(* A body starts at the tool's own start only, an answer at the queue only.  *)
LEMMA OnlyStartRuns ==
  ASSUME Shape, IntakeNext, NEW c \in Calls, Starts(c) PROVE StartBody(c)
<1>1. call[c].at = "running" /\ call'[c] # call[c]
  BY DEF Starts, Awaits
<1>2. Calling(c) \/ Preparing(c) \/ Asking(c)
  BY <1>1, CallsMoveThemselves
<1> QED
  BY <1>1, <1>2 DEF Calling, Preparing, Asking, Begin, Dispatch, BindsIntent, Assessed, HostLooks, HostGoes,
       OpensTask, TaskAdmitted, AdmissionFails, Prepared, PreparationFails, AnswerGiven,
       AnswerQueued, QuestionEnds, Awaits

LEMMA OnlyTheQueueTells ==
  ASSUME Shape, IntakeNext, NEW c \in Calls, Awaits(c, "recheck"), call'[c].at = "told"
  PROVE  AnswerQueued(c) /\ SameContext(c)
<1>1. call[c].at = "recheck" /\ call'[c] # call[c]
  BY DEF Awaits
<1>2. Calling(c) \/ Preparing(c) \/ Asking(c)
  BY <1>1, CallsMoveThemselves
<1>3. AnswerQueued(c) \/ \E b \in BOOLEAN : QuestionEnds(c, b)
  BY <1>1, <1>2 DEF Calling, Preparing, Asking, Begin, Dispatch, StartBody, BindsIntent, Assessed, HostLooks,
       HostGoes, OpensTask, TaskAdmitted, AdmissionFails, Prepared, PreparationFails,
       AnswerGiven, Awaits
<1>4. ~GoesTo(c, "over")
  <2>1. "over" \in Stations
    BY DEF Stations, Rest
  <2> QED
    BY <2>1, GoesToMoves DEF Moves
<1> QED
  BY <1>3, <1>4 DEF AnswerQueued, QuestionEnds

LEMMA OnlyAdmissionAdmits ==
  ASSUME Shape, IntakeNext, active' # NoTask, active'.req # active.req
  PROVE  \E c \in Calls : TaskAdmitted(c) /\ active'.req = Of(c)
<1>0. active \in TaskRows /\ [active EXCEPT !.sound = FALSE].req = active.req
  BY DEF Shape, TaskRows
<1>1. ASSUME World \/ Capture \/ (\E g \in Requests : Capturing(g)) PROVE FALSE
  BY <1>0, <1>1 DEF World, StartTurn, EndTurn, Cancel, Stop, TaskStateChanged, FinishSession, Capture,
              Capturing, CaptureFails, Started, Interpreted, Settled, core
<1>2. ASSUME NEW c \in Calls, Calling(c) \/ Asking(c) PROVE FALSE
  BY <1>2 DEF Calling, Begin, Dispatch, StartBody, BindsIntent, Asking, AnswerGiven, AnswerQueued, QuestionEnds, core
<1>3. ASSUME NEW c \in Calls, Preparing(c) PROVE TaskAdmitted(c) /\ active'.req = Of(c)
  <2>1. ASSUME Assessed(c) \/ Prepared(c) \/ PreparationFails(c) \/ AdmissionFails(c) PROVE FALSE
    BY <2>1 DEF Assessed, Prepared, PreparationFails, AdmissionFails, core
  <2>2. ASSUME HostLooks(c) \/ HostGoes(c) \/ OpensTask(c) PROVE FALSE
    <3>1. active' \in {active, NoTask}
      BY <2>2 DEF HostLooks, HostGoes, OpensTask
    <3> QED
      BY <3>1
  <2>3. ASSUME TaskAdmitted(c) PROVE active'.req = Of(c)
    <3>1. active' = [req |-> Of(c), turn |-> req[Of(c)].turn, sound |-> TRUE]
      BY <2>3 DEF TaskAdmitted
    <3> QED
      BY <3>1
  <2> QED
    BY <1>3, <2>1, <2>2, <2>3 DEF Preparing
<1> QED
  BY <1>1, <1>2, <1>3 DEF IntakeNext

-----------------------------------------------------------------------------
(* The inductive invariant of the theorems below: only the newest request is *)
(* unaborted and only in its open turn, what is awaited is under way, and    *)
(* whoever relies on the task of the request in force relies on its own.     *)
THEOREM IntakeInvariant == IntakeSpec => []IntakeInv
BY IntakeStarts, IntakeStep, PTL DEF IntakeSpec

(* The state of the intake and of the host's admissions is well formed: only *)
(* turns that began have failed, and captures and operations are counted.    *)
THEOREM IntakeTypeCorrect == IntakeSpec => []TypeOK
<1>1. IntakeInv => TypeOK
  <2> SUFFICES ASSUME IntakeInv PROVE TypeOK
    OBVIOUS
  <2>1. Shape
    BY DEF IntakeInv
  <2>2. \A g \in 0..MaxRequests :
          req[g].status \in {"capturing", "answer", "preparing", "prepared", "closed", "stale"}
    BY <2>1 DEF Shape, RequestRows
  <2> QED
    BY <2>1, <2>2 DEF Shape, TypeOK
<1> QED
  BY <1>1, IntakeInvariant, PTL

(* Whoever joined a preparation or an admission joined one that goes on      *)
(* (prepare() and preparingTasks), for any calls, turns and captures.        *)
THEOREM JoinersAlwaysServed == IntakeSpec => []JoinersAreServed
<1>1. IntakeInv => JoinersAreServed
  <2> SUFFICES ASSUME IntakeInv PROVE JoinersAreServed
    OBVIOUS
  <2>1. ASSUME NEW c \in Calls, Awaits(c, "join")
        PROVE  /\ req[Of(c)].prep # NoCall /\ Of(req[Of(c)].prep) = Of(c)
               /\ call[req[Of(c)].prep].at \in Underway
    <3>1. Of(c) \in 1..cur
      BY <2>1, IntakeFacts DEF Awaits, Rest
    <3> QED
      BY <2>1, <3>1 DEF IntakeInv, Joins
  <2>2. ASSUME NEW c \in Calls, Awaits(c, "wait")
        PROVE  /\ op[req[Of(c)].turn] # NoCall
               /\ req[Of(op[req[Of(c)].turn])].turn = req[Of(c)].turn
               /\ call[op[req[Of(c)].turn]].at \in Admitting
    <3>1. req[Of(c)].turn \in 1..MaxTurns
      BY <2>2, IntakeFacts DEF Awaits, Rest
    <3> QED
      BY <2>2, <3>1 DEF IntakeInv, Joins
  <2> QED
    BY <2>1, <2>2 DEF JoinersAreServed
<1> QED
  BY <1>1, IntakeInvariant, PTL

(* No body starts for a request that was cancelled, superseded or ended with *)
(* its turn, however late its approval or dispatch comes.                    *)
THEOREM LateCallsStayUnrun == IntakeSpec => LateCallsRunNothing
<1>1. IntakeInv /\ [IntakeNext]_intakeVars => [\A c \in Calls : Starts(c) => InForce(Of(c))]_intakeVars
  <2> SUFFICES ASSUME IntakeInv, IntakeNext, NEW c \in Calls, Starts(c) PROVE InForce(Of(c))
    OBVIOUS
  <2>1. StartBody(c) /\ Shape /\ Newest
    BY IntakeFacts, OnlyStartRuns
  <2>2. Unaborted(Of(c)) /\ Of(c) \in 0..MaxRequests
    BY <2>1, IntakeFacts DEF StartBody, Awaits, Rest
  <2> QED
    BY <2>1, <2>2, LiveIsInForce
<1> QED
  BY <1>1, IntakeInvariant, PTL DEF IntakeSpec, LateCallsRunNothing

(* Whatever became of the task of its request meanwhile, work never starts   *)
(* under another request's.                                                  *)
THEOREM WorkRunsUnderItsTask == IntakeSpec => WorkHasItsOwnTask
<1>1. IntakeInv /\ [IntakeNext]_intakeVars =>
        [\A c \in Calls : Starts(c) /\ Is(c, "work") => active = NoTask \/ active.req = Of(c)]_intakeVars
  <2> SUFFICES ASSUME IntakeInv, IntakeNext, NEW c \in Calls, Starts(c), Is(c, "work")
               PROVE  active = NoTask \/ active.req = Of(c)
    OBVIOUS
  <2>1. StartBody(c) /\ Shape /\ Newest /\ OwnTask
    BY IntakeFacts, OnlyStartRuns
  <2>2. Unaborted(Of(c)) /\ Of(c) \in 0..MaxRequests /\ Awaits(c, "running")
    BY <2>1, IntakeFacts DEF StartBody, Awaits, Rest
  <2>3. Of(c) = cur
    BY <2>1, <2>2, LiveIsInForce
  <2>4. Vouched
    BY <2>2, <2>3 DEF Vouched, Vouches
  <2> QED
    BY <2>1, <2>2, <2>3, <2>4 DEF OwnTask, Owned
<1> QED
  BY <1>1, IntakeInvariant, PTL DEF IntakeSpec, WorkHasItsOwnTask

(* Only the request in force gets a task admitted.                           *)
THEOREM AdmissionsAreCurrent == IntakeSpec => AdmissionIsCurrent
<1>1. IntakeInv /\ [IntakeNext]_intakeVars =>
        [active' # NoTask /\ active'.req # active.req => InForce(active'.req)]_intakeVars
  <2> SUFFICES ASSUME IntakeInv, IntakeNext, active' # NoTask, active'.req # active.req
               PROVE  InForce(active'.req)
    OBVIOUS
  <2>1. Shape /\ Newest
    BY IntakeFacts
  <2>2. PICK c \in Calls : TaskAdmitted(c) /\ active'.req = Of(c)
    BY <2>1, OnlyAdmissionAdmits
  <2>3. Unaborted(Of(c)) /\ Of(c) \in 0..MaxRequests
    BY <2>2, IntakeFacts DEF TaskAdmitted, Awaits, Rest
  <2> QED
    BY <2>1, <2>2, <2>3, LiveIsInForce
<1> QED
  BY <1>1, IntakeInvariant, PTL DEF IntakeSpec, AdmissionIsCurrent

(* No request and no question has a context newer than the task, and a       *)
(* question none newer than itself, however late interpretations return.     *)
THEOREM ContextsAreDated == IntakeSpec => [](IntakeInv /\ Dated)
<1>1. IntakeInit => IntakeInv /\ Dated
  BY IntakeStarts, DatedStarts
<1>2. (IntakeInv /\ Dated) /\ [IntakeNext]_intakeVars => (IntakeInv /\ Dated)'
  BY IntakeStep, DatedStep
<1> QED
  BY <1>1, <1>2, PTL DEF IntakeSpec

(* An answer is queued only for the request in force and, if its question    *)
(* was asked from a context, only while nobody operated on the task since:   *)
(* a context that is still the task's, and no newer than the question, was   *)
(* the task's all the while.                                                 *)
THEOREM AnswersAreInTime == IntakeSpec => AnswerIsInTime
<1>1. IntakeInv /\ Dated /\ [IntakeNext]_intakeVars =>
        [\A c \in Calls : Awaits(c, "recheck") /\ call'[c].at = "told" =>
           InForce(Of(c)) /\ (call[c].rev # NoContext => call[c].since = changes)]_intakeVars
  <2> SUFFICES ASSUME IntakeInv, Dated, IntakeNext, NEW c \in Calls, Awaits(c, "recheck"), call'[c].at = "told"
               PROVE  InForce(Of(c)) /\ (call[c].rev # NoContext => call[c].since = changes)
    OBVIOUS
  <2>1. Shape /\ Newest /\ AnswerQueued(c) /\ SameContext(c)
    BY IntakeFacts, OnlyTheQueueTells
  <2>2. Unaborted(Of(c)) /\ Of(c) \in 0..MaxRequests
    BY <2>1, IntakeFacts DEF AnswerQueued, Current, Awaits, Rest
  <2>3. call[c].rev # NoContext => call[c].since = changes
    <3>1. call[c].rev <= call[c].since /\ call[c].since <= changes
      BY DEF Dated, Awaits
    <3>2. call[c].since \in Nat /\ changes \in Nat
      BY <2>1, IntakeBounds DEF Shape, CallRows
    <3> QED
      BY <2>1, <3>1, <3>2 DEF SameContext
  <2> QED
    BY <2>1, <2>2, <2>3, LiveIsInForce
<1> QED
  BY <1>1, ContextsAreDated, PTL DEF IntakeSpec, AnswerIsInTime
=============================================================================
