-------------------------- MODULE DeepThinkerProofs --------------------------
(* Proofs about the deep thinker.  Of DeepRun: no node is tried again while an *)
(* attempt at the same revision of it is unresolved, what counts as accepted   *)
(* was accepted under every constraint, and no token is lost or counted twice, *)
(* for any number of processes, nodes and commands.  Of DeepGraph, in the      *)
(* second part: what was accepted rests on what is still accepted, and a       *)
(* driver with nothing to schedule has an answer or an unresolved root, for    *)
(* any budget, plans and disturbances.                                         *)
EXTENDS DeepRun, DeepGraph, FiniteSetTheorems, TLAPS

(* While the run is driven, an attempt of unknown outcome is the active one of *)
(* its node, or the node has been withdrawn since.  Claiming establishes it    *)
(* (nothing is unknown then), whatever clears an active attempt decides its    *)
(* outcome, withdraws the node or stops the run.                               *)
UnknownIsHeld ==
  \A b \in Attempts :
    /\ attempt[b].rev <= node[attempt[b].node].rev
    /\ run.phase = "running" /\ attempt[b].status \in Unknown
       => \/ node[attempt[b].node].active = b
          \/ attempt[b].rev < node[attempt[b].node].rev

(* Of the run's record: its fields, and what is copied into attempts.          *)
RunShape ==
  /\ DOMAIN run = {"phase", "epoch", "owner", "lease", "requirement",
                   "tokens", "reserved", "timeUp", "inputs"}
  /\ run.epoch \in Nat
  /\ run.requirement \in Nat

Shape ==
  /\ RunShape
  /\ node \in [Nodes -> Node]
  /\ attempt \in Seq(Attempt)
  /\ queued \in [Procs -> [Nodes -> Job]]

IInv == Shape /\ UnknownIsHeld /\ AcceptedMeetsAllConstraints

----------------------------------------------------------------------------
(* What the transactions do to the tables.                                     *)

Ends == {"completed", "failed", "cancelled", "abandoned"}

LEMMA AttemptFacts ==
  ASSUME Shape
  PROVE  /\ Attempts = 1..Len(attempt) /\ Len(attempt) \in Nat
         /\ \A b \in Attempts : /\ attempt[b] \in Attempt
                               /\ attempt[b].node \in Nodes
                               /\ attempt[b].rev \in Nat
                               /\ attempt[b].requirement \in Nat
                               /\ attempt[b].epoch \in Nat
                               /\ attempt[b].proc \in Procs
<1>1. Attempts = 1..Len(attempt) /\ Len(attempt) \in Nat
  BY DEF Shape, Attempts
<1>2. \A b \in Attempts : attempt[b] \in Attempt
  BY DEF Shape, Attempts
<1> QED
  BY <1>1, <1>2 DEF Attempt

LEMMA WithdrawnFacts ==
  ASSUME Shape, NEW S, Root \in Nodes
  PROVE  /\ Withdrawn(S) \in [Nodes -> Node]
         /\ \A n \in Nodes : \/ Withdrawn(S)[n] = node[n]
                             \/ /\ Withdrawn(S)[n].rev = node[n].rev + 1
                                /\ Withdrawn(S)[n].status = "open"
         /\ \A n \in S \intersect Nodes : Withdrawn(S)[n].status = "open"
BY DEF Shape, Withdrawn, Node

LEMMA InactiveFacts ==
  ASSUME Shape
  PROVE  /\ Inactive \in [Nodes -> Node]
         /\ \A n \in Nodes : /\ Inactive[n].rev = node[n].rev
                             /\ Inactive[n].status = node[n].status
                             /\ Inactive[n].for = node[n].for
BY DEF Shape, Inactive, Node

LEMMA ReleasedFacts ==
  ASSUME Shape, NEW ph
  PROVE  /\ DOMAIN Released(ph) = DOMAIN run
         /\ Released(ph).epoch \in Nat
         /\ Released(ph).phase = ph
         /\ Released(ph).requirement = run.requirement
BY DEF Shape, RunShape, Released

LEMMA StatusChange ==
  ASSUME Shape, NEW a \in Attempts, NEW s \in Unknown \union Ends,
         attempt' = [attempt EXCEPT ![a].status = s]
  PROVE  /\ attempt' \in Seq(Attempt)
         /\ DOMAIN attempt' = Attempts
         /\ \A b \in Attempts : /\ attempt'[b].node = attempt[b].node
                               /\ attempt'[b].rev = attempt[b].rev
                               /\ b # a => attempt'[b] = attempt[b]
         /\ attempt'[a].status = s
<1> DEFINE t == [attempt[a] EXCEPT !.status = s]
<1>1. t \in Attempt /\ t.node = attempt[a].node /\ t.rev = attempt[a].rev /\ t.status = s
  BY AttemptFacts DEF Attempt, Ends, Unknown
<1>2. attempt' = [attempt EXCEPT ![a] = t]
  OBVIOUS
<1> HIDE DEF t
<1> QED
  BY <1>1, <1>2 DEF Shape, Attempts

LEMMA PausePreserves ==
  ASSUME IInv, PauseState, UNCHANGED queued
  PROVE  IInv'
<1>1. RunShape' /\ run'.phase = "paused" /\ run'.requirement = run.requirement
  BY ReleasedFacts DEF PauseState, IInv, Shape, RunShape
<1>2. node' \in [Nodes -> Node]
      /\ \A n \in Nodes : /\ node'[n].rev = node[n].rev
                          /\ node'[n].status = node[n].status
                          /\ node'[n].for = node[n].for
  BY InactiveFacts DEF PauseState, IInv
<1>3. attempt' \in Seq(Attempt) /\ DOMAIN attempt' = Attempts
      /\ \A b \in Attempts : attempt'[b].node = attempt[b].node /\ attempt'[b].rev = attempt[b].rev
  <2>1. Attempts = 1..Len(attempt) /\ Len(attempt) \in Nat /\ \A b \in Attempts : attempt[b] \in Attempt
    BY AttemptFacts DEF IInv
  <2>2. \A b \in Attempts : /\ Stopped(attempt[b], b) \in Attempt
                            /\ Stopped(attempt[b], b).node = attempt[b].node
                            /\ Stopped(attempt[b], b).rev = attempt[b].rev
    BY <2>1 DEF Stopped, Attempt, Unknown
  <2> QED
    BY <2>1, <2>2 DEF PauseState
<1>4. \A b \in Attempts : attempt[b].node \in Nodes
  BY AttemptFacts DEF IInv
<1> QED
  BY <1>1, <1>2, <1>3, <1>4 DEF IInv, Shape, UnknownIsHeld, AcceptedMeetsAllConstraints, Attempts

(* The pattern of every step that adds no attempt: revisions only grow, and    *)
(* what is said of accepted nodes and of unknown attempts holds of the new     *)
(* tables.                                                                     *)
LEMMA TablesKept ==
  ASSUME IInv,
         RunShape', node' \in [Nodes -> Node], attempt' \in Seq(Attempt),
         queued' \in [Procs -> [Nodes -> Job]],
         DOMAIN attempt' = Attempts,
         \A b \in Attempts : attempt'[b].node = attempt[b].node /\ attempt'[b].rev = attempt[b].rev,
         \A n \in Nodes : node[n].rev <= node'[n].rev,
         \A n \in Nodes : node'[n].status = "accepted" => node'[n].for = run'.requirement,
         run'.phase = "running" =>
           \A b \in Attempts : attempt'[b].status \in Unknown =>
             \/ node'[attempt[b].node].active = b
             \/ attempt[b].rev < node'[attempt[b].node].rev
  PROVE  IInv'
<1>1. \A b \in Attempts : attempt[b].node \in Nodes /\ attempt[b].rev \in Nat
  BY AttemptFacts DEF IInv
<1>2. \A n \in Nodes : node[n].rev \in Nat /\ node'[n].rev \in Nat
  BY DEF IInv, Shape, Node
<1>3. Shape'
  BY DEF Shape
<1>4. UnknownIsHeld'
  <2>1. \A b \in Attempts : attempt[b].rev <= node'[attempt[b].node].rev
    BY <1>1, <1>2 DEF IInv, UnknownIsHeld
  <2> QED
    BY <2>1 DEF UnknownIsHeld, Attempts
<1>5. AcceptedMeetsAllConstraints'
  BY DEF AcceptedMeetsAllConstraints
<1> QED
  BY <1>3, <1>4, <1>5 DEF IInv

(* Steps that only touch the run's record.                                     *)
LEMMA RunChanged ==
  ASSUME IInv, UNCHANGED <<node, attempt>>, queued' \in [Procs -> [Nodes -> Job]],
         RunShape', run'.requirement = run.requirement,
         run'.phase = "running" =>
           run.phase = "running" \/ \A b \in Attempts : attempt[b].status \notin Unknown
  PROVE  IInv'
<1>1. \A b \in Attempts : attempt[b].node \in Nodes
  BY AttemptFacts DEF IInv
<1>2. \A n \in Nodes : node[n].rev \in Nat
  BY DEF IInv, Shape, Node
<1>3. Shape' /\ UnknownIsHeld'
  BY <1>1, <1>2 DEF IInv, Shape, UnknownIsHeld, Attempts
<1>4. AcceptedMeetsAllConstraints'
  BY DEF IInv, AcceptedMeetsAllConstraints
<1> QED
  BY <1>3, <1>4 DEF IInv

(* Steps that withdraw nodes: all of them when the requirement changes.        *)
LEMMA WithdrawnPreserves ==
  ASSUME IInv, NEW S, node' = Withdrawn(S), UNCHANGED queued,
         RunShape', run'.requirement = run.requirement \/ S = Nodes,
         run'.phase = "running" => run.phase = "running",
         attempt' \in Seq(Attempt), DOMAIN attempt' = Attempts,
         \A b \in Attempts : /\ attempt'[b].node = attempt[b].node
                             /\ attempt'[b].rev = attempt[b].rev
                             /\ attempt'[b].status \in Unknown => attempt[b].status \in Unknown
  PROVE  IInv'
<1>1. Root \in Nodes
  BY RunAssumption
<1>2. /\ node' \in [Nodes -> Node]
      /\ \A n \in Nodes : \/ node'[n] = node[n]
                          \/ node'[n].rev = node[n].rev + 1 /\ node'[n].status = "open"
      /\ \A n \in S \intersect Nodes : node'[n].status = "open"
  BY <1>1, WithdrawnFacts DEF IInv
<1>3. \A n \in Nodes : node[n].rev \in Nat /\ node[n].rev <= node'[n].rev
  <2>1. \A n \in Nodes : node[n].rev \in Nat
    BY DEF IInv, Shape, Node
  <2> QED
    BY <1>2, <2>1
<1>4. \A b \in Attempts : attempt[b].node \in Nodes /\ attempt[b].rev \in Nat
  BY AttemptFacts DEF IInv
<1>5. \A n \in Nodes : node'[n].status = "accepted" => node'[n].for = run'.requirement
  BY <1>2 DEF IInv, AcceptedMeetsAllConstraints
<1>6. run.phase = "running" =>
        \A b \in Attempts : attempt'[b].status \in Unknown =>
          \/ node'[attempt[b].node].active = b
          \/ attempt[b].rev < node'[attempt[b].node].rev
  BY <1>2, <1>3, <1>4 DEF IInv, UnknownIsHeld
<1> QED
  BY <1>2, <1>3, <1>5, <1>6, TablesKept DEF IInv, Shape

(* A child's end that settles its node, while the attempt's outcome is decided:*)
(* a reply, a repair, a failure.                                               *)
LEMMA SettledPreserves ==
  ASSUME IInv, NEW a \in Attempts, NEW s \in Ends, NEW nn \in Node,
         attempt' = [attempt EXCEPT ![a].status = s],
         node' = [node EXCEPT ![attempt[a].node] = nn],
         nn.rev = node[attempt[a].node].rev,
         nn.status = "accepted" => nn.for = run.requirement,
         run.phase = "running" => node[attempt[a].node].active \in {0, a},
         RunShape', run'.requirement = run.requirement,
         run'.phase = "running" => run.phase = "running",
         queued' \in [Procs -> [Nodes -> Job]]
  PROVE  IInv'
<1> DEFINE n == attempt[a].node
<1>1. /\ attempt' \in Seq(Attempt) /\ DOMAIN attempt' = Attempts
      /\ \A b \in Attempts : /\ attempt'[b].node = attempt[b].node
                            /\ attempt'[b].rev = attempt[b].rev
                            /\ b # a => attempt'[b] = attempt[b]
      /\ attempt'[a].status = s
  BY StatusChange DEF IInv
<1>2. \A b \in Attempts : attempt[b].node \in Nodes /\ attempt[b].rev \in Nat
  BY AttemptFacts DEF IInv
<1>3. node' \in [Nodes -> Node] /\ node'[n] = nn /\ \A m \in Nodes \ {n} : node'[m] = node[m]
  BY <1>2 DEF IInv, Shape
<1>4. \A m \in Nodes : node[m].rev \in Nat /\ node'[m].rev = node[m].rev
  BY <1>3 DEF IInv, Shape, Node
<1>5. \A m \in Nodes : node'[m].status = "accepted" => node'[m].for = run'.requirement
  BY <1>3 DEF IInv, AcceptedMeetsAllConstraints
<1>6. ASSUME run.phase = "running", NEW b \in Attempts, attempt'[b].status \in Unknown
      PROVE  \/ node'[attempt[b].node].active = b
             \/ attempt[b].rev < node'[attempt[b].node].rev
  <2>1. b # a /\ attempt[b].status \in Unknown
    BY <1>1, <1>6 DEF Ends, Unknown
  <2>2. CASE attempt[b].node = n
    <3>1. 0 \notin Attempts
      BY AttemptFacts DEF IInv
    <3> QED
      BY <1>2, <1>4, <1>6, <2>1, <2>2, <3>1 DEF IInv, UnknownIsHeld
  <2>3. CASE attempt[b].node # n
    BY <1>2, <1>3, <1>6, <2>1, <2>3 DEF IInv, UnknownIsHeld
  <2> QED
    BY <2>2, <2>3
<1> QED
  BY <1>1, <1>3, <1>4, <1>5, <1>6, TablesKept

----------------------------------------------------------------------------
(* One step per action.                                                        *)

LEMMA InitHolds == Init => IInv
<1> SUFFICES ASSUME Init PROVE IInv
  OBVIOUS
<1>1. RunShape
  BY DEF Init, RunShape
<1>2. node \in [Nodes -> Node]
  BY DEF Init, Node
<1>3. attempt \in Seq(Attempt) /\ Attempts = {}
  BY DEF Init, Attempts
<1>4. queued \in [Procs -> [Nodes -> Job]]
  BY DEF Init, Job, NoJob
<1>5. AcceptedMeetsAllConstraints
  BY DEF Init, AcceptedMeetsAllConstraints
<1> QED
  BY <1>1, <1>2, <1>3, <1>4, <1>5 DEF IInv, Shape, UnknownIsHeld

LEMMA FinishPreserves ==
  ASSUME IInv, NEW ph, NEW changed, Finish(ph, changed), UNCHANGED queued
  PROVE  IInv'
<1> DEFINE to == IF changed # {} /\ ph = "answered" THEN "partial" ELSE ph
<1>1. run' = Released(to) /\ node' = Withdrawn(changed) /\ UNCHANGED attempt
  BY DEF Finish
<1>2. RunShape' /\ run'.requirement = run.requirement /\ run'.phase # "running"
  BY <1>1, ReleasedFacts DEF IInv, Shape, RunShape, Terminal, Finish
<1> QED
  BY <1>1, <1>2, WithdrawnPreserves DEF IInv, Shape, Attempts

LEMMA DriverPreserves ==
  ASSUME IInv, NEW p \in Procs, DriverStep(p)
  PROVE  IInv'
<1>1. CASE Claim(p)
  <2>1. RunShape' /\ run'.requirement = run.requirement
    <3>1. \/ run' = run
          \/ run' = [run EXCEPT !.phase = "running", !.epoch = @ + 1, !.owner = p, !.lease = TRUE]
      BY <1>1 DEF Claim
    <3>2. CASE run' = [run EXCEPT !.phase = "running", !.epoch = @ + 1, !.owner = p, !.lease = TRUE]
      <4>1. DOMAIN run' = DOMAIN run /\ run'.epoch = run.epoch + 1 /\ run'.requirement = run.requirement
        BY <3>2 DEF IInv, Shape, RunShape
      <4> QED
        BY <4>1 DEF IInv, Shape, RunShape
    <3> QED
      BY <3>1, <3>2 DEF IInv, Shape, RunShape
  <2>2. run'.phase = "running" =>
          run.phase = "running" \/ \A b \in Attempts : attempt[b].status \notin Unknown
    BY <1>1 DEF Claim, Claimable
  <2> QED
    BY <1>1, <2>1, <2>2, RunChanged DEF Claim, IInv, Shape
<1>2. CASE Loop(p)
  <2>1. UNCHANGED <<run, attempt, queued>>
    BY <1>2 DEF Loop
  <2>2. CASE UNCHANGED node
    BY <2>1, <2>2, RunChanged DEF IInv, Shape, RunShape
  <2>3. CASE ~UNCHANGED node
    <3>1. node' = [node EXCEPT ![Root].status = "unresolved"] /\ Root \in Nodes
      BY <1>2, <2>3, RunAssumption DEF Loop, IInv, Shape, Node
    <3>2. /\ node' \in [Nodes -> Node]
          /\ \A n \in Nodes : /\ node'[n].rev = node[n].rev
                              /\ node'[n].active = node[n].active
                              /\ node'[n].status = "accepted" => node'[n] = node[n]
      BY <3>1 DEF IInv, Shape, Node
    <3>3. \A n \in Nodes : node[n].rev \in Nat
      BY DEF IInv, Shape, Node
    <3>4. \A n \in Nodes : node'[n].status = "accepted" => node'[n].for = run'.requirement
      BY <2>1, <3>2 DEF IInv, AcceptedMeetsAllConstraints
    <3>5. \A b \in Attempts : attempt[b].node \in Nodes
      BY AttemptFacts DEF IInv
    <3>6. run.phase = "running" => \A b \in Attempts : attempt[b].status \in Unknown =>
            \/ node'[attempt[b].node].active = b
            \/ attempt[b].rev < node'[attempt[b].node].rev
      BY <3>2, <3>5 DEF IInv, UnknownIsHeld
    <3> QED
      BY <2>1, <3>2, <3>3, <3>4, <3>6, TablesKept DEF IInv, Shape, RunShape, Attempts
  <2> QED
    BY <2>2, <2>3
<1>3. CASE Survey(p)
  <2>1. UNCHANGED <<run, node, attempt>>
    BY <1>3 DEF Survey, stored
  <2>2. queued' \in [Procs -> [Nodes -> Job]]
    <3>1. \A n \in Nodes : node[n].rev \in Nat
      BY DEF IInv, Shape, Node
    <3>2. run.requirement \in Nat /\ run.epoch \in Nat /\ queued \in [Procs -> [Nodes -> Job]]
      BY DEF IInv, Shape, RunShape
    <3> DEFINE Jobs(S) == [n \in Nodes |->
                 IF n \in S THEN [rev |-> node[n].rev, requirement |-> run.requirement,
                                  epoch |-> run.epoch, repairs |-> 0]
                 ELSE queued[p][n]]
    <3>3. ASSUME NEW S PROVE Jobs(S) \in [Nodes -> Job]
      <4>1. \A n \in Nodes : queued[p][n] \in Job
        BY <3>2
      <4> QED
        BY <3>1, <3>2, <4>1 DEF Job
    <3>4. UNCHANGED queued \/ \E S : queued' = [queued EXCEPT ![p] = Jobs(S)]
      BY <1>3 DEF Survey
    <3> HIDE DEF Jobs
    <3> QED
      BY <3>2, <3>3, <3>4
  <2> QED
    BY <2>1, <2>2, RunChanged DEF IInv, Shape, RunShape
<1>4. CASE Withdraw(p)
  <2>1. node' = Withdrawn(driver[p].changed) /\ UNCHANGED <<run, attempt, queued>>
    BY <1>4 DEF Withdraw
  <2> QED
    BY <2>1, WithdrawnPreserves DEF IInv, Shape, RunShape, Attempts
<1>5. CASE Decide(p) \/ Drained(p)
  <2>1. UNCHANGED <<run, node, attempt, queued>>
    BY <1>5 DEF Decide, Drained, stored
  <2> QED
    BY <2>1, RunChanged DEF IInv, Shape, RunShape
<1>6. CASE FinishRun(p)
  <2>1. UNCHANGED queued
    BY <1>6 DEF FinishRun
  <2>2. CASE UNCHANGED stored
    BY <2>1, <2>2, RunChanged DEF IInv, Shape, RunShape, stored
  <2>3. CASE Finish(driver[p].goal, driver[p].changed)
    BY <2>1, <2>3, FinishPreserves
  <2> QED
    BY <1>6, <2>2, <2>3 DEF FinishRun
<1>7. CASE Stop(p) \/ Failing(p)
  <2>1. UNCHANGED queued /\ (PauseState \/ UNCHANGED stored)
    BY <1>7 DEF Stop, Failing
  <2>2. CASE UNCHANGED stored
    BY <2>1, <2>2, RunChanged DEF IInv, Shape, RunShape, stored
  <2> QED
    BY <2>1, <2>2, PausePreserves
<1> QED
  BY <1>1, <1>2, <1>3, <1>4, <1>5, <1>6, <1>7 DEF DriverStep

(* What the record of an attempt may become besides its status.                *)
LEMMA AttemptChange ==
  ASSUME Shape, NEW a \in Attempts, NEW t \in Attempt,
         t.node = attempt[a].node, t.rev = attempt[a].rev,
         attempt' = [attempt EXCEPT ![a] = t]
  PROVE  /\ attempt' \in Seq(Attempt)
         /\ DOMAIN attempt' = Attempts
         /\ \A b \in Attempts : /\ attempt'[b].node = attempt[b].node
                               /\ attempt'[b].rev = attempt[b].rev
                               /\ b # a => attempt'[b] = attempt[b]
         /\ attempt'[a] = t
BY DEF Shape, Attempts

(* An attempt that goes on, its node untouched.                                *)
LEMMA AttemptKept ==
  ASSUME IInv, NEW a \in Attempts, NEW t \in Attempt,
         t.node = attempt[a].node, t.rev = attempt[a].rev,
         t.status \in Unknown => attempt[a].status \in Unknown,
         attempt' = [attempt EXCEPT ![a] = t],
         UNCHANGED <<run, node, queued>>
  PROVE  IInv'
<1>1. /\ attempt' \in Seq(Attempt) /\ DOMAIN attempt' = Attempts
      /\ \A b \in Attempts : /\ attempt'[b].node = attempt[b].node
                            /\ attempt'[b].rev = attempt[b].rev
                            /\ b # a => attempt'[b] = attempt[b]
      /\ attempt'[a] = t
  BY AttemptChange DEF IInv
<1>2. \A b \in Attempts : attempt'[b].status \in Unknown => attempt[b].status \in Unknown
  BY <1>1
<1>3. \A n \in Nodes : node[n].rev \in Nat
  BY DEF IInv, Shape, Node
<1>4. \A n \in Nodes : node'[n].status = "accepted" => node'[n].for = run'.requirement
  BY DEF IInv, AcceptedMeetsAllConstraints
<1>5. run'.phase = "running" =>
        \A b \in Attempts : attempt'[b].status \in Unknown =>
          \/ node'[attempt[b].node].active = b
          \/ attempt[b].rev < node'[attempt[b].node].rev
  BY <1>2 DEF IInv, UnknownIsHeld
<1> QED
  BY <1>1, <1>3, <1>4, <1>5, TablesKept DEF IInv, Shape, RunShape

LEMMA StoredKept ==
  ASSUME IInv, UNCHANGED stored, UNCHANGED queued
  PROVE  IInv'
BY RunChanged DEF IInv, Shape, RunShape, stored

LEMMA JobPreserves ==
  ASSUME IInv, NEW a \in Attempts, JobStep(a)
  PROVE  IInv'
<1> DEFINE n == attempt[a].node
<1>1. /\ attempt[a] \in Attempt /\ n \in Nodes /\ a # 0
      /\ attempt[a].rev \in Nat /\ attempt[a].requirement \in Nat /\ attempt[a].epoch \in Nat
      /\ attempt[a].proc \in Procs
  BY AttemptFacts DEF IInv
<1>2. RunShape /\ queued \in [Procs -> [Nodes -> Job]] /\ node[n] \in Node
  BY <1>1 DEF IInv, Shape
<1>3. CASE Assemble(a)
  <2> DEFINE t == [attempt[a] EXCEPT !.status = "started", !.child = TRUE]
  <2>1. t \in Attempt /\ t.node = n /\ t.rev = attempt[a].rev
    BY <1>1 DEF Attempt, Unknown
  <2>2. attempt' = [attempt EXCEPT ![a] = t] /\ UNCHANGED <<run, node, queued>>
    BY <1>3 DEF Assemble
  <2>3. attempt[a].status \in Unknown
    BY <1>3 DEF Assemble, Authority, Unknown
  <2> HIDE DEF t
  <2> QED
    BY <2>1, <2>2, <2>3, AttemptKept
<1>4. CASE SendRequest(a)
  <2>1. UNCHANGED <<node, attempt, queued>> /\ run' = [run EXCEPT !.reserved = @ + Estimate]
    BY <1>4 DEF SendRequest
  <2>2. RunShape' /\ run'.requirement = run.requirement /\ run'.phase = run.phase
    BY <1>2, <2>1 DEF RunShape
  <2> QED
    BY <1>2, <2>1, <2>2, RunChanged
<1>5. CASE StreamEnds(a)
  <2>1. UNCHANGED <<node, attempt, queued>>
    BY <1>5 DEF StreamEnds
  <2>2. \/ run' = run
        \/ \E spent : run' = [run EXCEPT !.reserved = @ - Estimate, !.tokens = spent]
    BY <1>5 DEF StreamEnds, SettleRequest
  <2>3. RunShape' /\ run'.requirement = run.requirement /\ run'.phase = run.phase
    BY <1>2, <2>2 DEF RunShape
  <2> QED
    BY <1>2, <2>1, <2>3, RunChanged
<1>6. CASE ChildCompletes(a)
  <2> DEFINE t == [attempt[a] EXCEPT !.logged = TRUE]
  <2>1. t \in Attempt /\ t.node = n /\ t.rev = attempt[a].rev /\ t.status = attempt[a].status
    BY <1>1 DEF Attempt
  <2>2. attempt' = [attempt EXCEPT ![a] = t] /\ UNCHANGED <<run, node, queued>>
    BY <1>6 DEF ChildCompletes
  <2> HIDE DEF t
  <2> QED
    BY <2>1, <2>2, AttemptKept
<1>7. CASE Repair(a)
  <2> DEFINE nn == [node[n] EXCEPT !.active = 0]
  <2>1. /\ nn \in Node /\ nn.rev = node[n].rev
        /\ nn.status = "accepted" => nn.for = run.requirement
    BY <1>1, <1>2 DEF Node, IInv, AcceptedMeetsAllConstraints
  <2>2. /\ attempt' = [attempt EXCEPT ![a].status = "failed"]
        /\ node' = [node EXCEPT ![n] = nn]
        /\ node[n].active = a /\ run' = run
    BY <1>7 DEF Repair, Authority
  <2>3. queued' \in [Procs -> [Nodes -> Job]]
    <3> DEFINE j == [rev |-> attempt[a].rev, requirement |-> attempt[a].requirement,
                     epoch |-> attempt[a].epoch, repairs |-> 1]
    <3>1. j \in Job
      BY <1>1 DEF Job
    <3>2. queued' = [queued EXCEPT ![attempt[a].proc][n] = j]
      BY <1>7 DEF Repair
    <3> HIDE DEF j
    <3> QED
      BY <1>1, <1>2, <3>1, <3>2
  <2>4. RunShape' /\ "failed" \in Ends
    BY <1>2, <2>2 DEF RunShape, Ends
  <2> HIDE DEF nn
  <2> QED
    BY <2>1, <2>2, <2>3, <2>4, SettledPreserves
<1>8. CASE AcceptReply(a)
  <2>1. PICK outcome \in Outcomes : node' = Replied(a, outcome)
    BY <1>8 DEF AcceptReply
  <2> DEFINE nn == [status |-> outcome, rev |-> node[n].rev, active |-> 0,
                    for |-> IF outcome = "accepted" THEN attempt[a].requirement ELSE 0]
  <2>2. attempt[a].requirement = run.requirement /\ node[n].active = a
    BY <1>8 DEF AcceptReply, Authority
  <2>3. /\ nn \in Node /\ nn.rev = node[n].rev
        /\ nn.status = "accepted" => nn.for = run.requirement
    BY <1>1, <1>2, <2>2, RunAssumption DEF Node
  <2>4. /\ attempt' = [attempt EXCEPT ![a].status = "completed"]
        /\ node' = [node EXCEPT ![n] = nn]
        /\ run' = run /\ queued' = queued
    BY <1>8, <2>1 DEF AcceptReply, Replied
  <2>5. RunShape' /\ "completed" \in Ends
    BY <1>2, <2>4 DEF RunShape, Ends
  <2> HIDE DEF nn
  <2> QED
    BY <1>2, <2>2, <2>3, <2>4, <2>5, SettledPreserves
<1>9. CASE RefuseReply(a)
  <2>1. /\ node' = Withdrawn(Outdated(a))
        /\ attempt' = [attempt EXCEPT ![a].status = "failed"]
        /\ run' = run /\ queued' = queued
    BY <1>9 DEF RefuseReply
  <2>2. "failed" \in Unknown \union Ends /\ "failed" \notin Unknown
    BY DEF Ends, Unknown
  <2>3. /\ attempt' \in Seq(Attempt) /\ DOMAIN attempt' = Attempts
        /\ \A b \in Attempts : /\ attempt'[b].node = attempt[b].node
                              /\ attempt'[b].rev = attempt[b].rev
                              /\ attempt'[b].status \in Unknown => attempt[b].status \in Unknown
    BY <2>1, <2>2, StatusChange DEF IInv
  <2>4. RunShape' /\ run'.requirement = run.requirement /\ run'.phase = run.phase
    BY <1>2, <2>1 DEF RunShape
  <2> QED
    BY <2>1, <2>3, <2>4, WithdrawnPreserves
<1>10. CASE JobBreaks(a)
  <2>1. queued' = queued
    BY <1>10 DEF JobBreaks
  <2>2. CASE UNCHANGED <<run, node, attempt>>
    BY <1>2, <2>1, <2>2, RunChanged DEF RunShape
  <2>3. ASSUME NEW s \in Unknown \union Ends,
               attempt' = [attempt EXCEPT ![a].status = s],
               run' = [run EXCEPT !.phase = "paused"],
               node' = [node EXCEPT ![n].active = 0]
        PROVE  IInv'
    <3>1. Shape
      BY DEF IInv
    <3> DEFINE t == [attempt[a] EXCEPT !.status = s]
    <3>2. /\ t \in Attempt /\ t.node = n /\ t.rev = attempt[a].rev
          /\ attempt' = [attempt EXCEPT ![a] = t]
      BY <1>1, <2>3 DEF Attempt, Unknown, Ends
    <3> HIDE DEF t
    <3>3. /\ attempt' \in Seq(Attempt) /\ DOMAIN attempt' = Attempts
          /\ \A b \in Attempts : /\ attempt'[b].node = attempt[b].node
                                /\ attempt'[b].rev = attempt[b].rev
      BY <3>1, <3>2, AttemptChange
    <3>4. RunShape' /\ run'.requirement = run.requirement /\ run'.phase = "paused"
      BY <1>2, <2>3 DEF RunShape
    <3>5. /\ node' \in [Nodes -> Node]
          /\ \A m \in Nodes : /\ node[m].rev \in Nat
                              /\ node'[m].rev = node[m].rev
                              /\ node'[m].status = node[m].status
                              /\ node'[m].for = node[m].for
      <4> DEFINE nn == [node[n] EXCEPT !.active = 0]
      <4>1. /\ nn \in Node /\ nn.rev = node[n].rev
            /\ nn.status = node[n].status /\ nn.for = node[n].for
        BY <1>2 DEF Node
      <4>2. node' = [node EXCEPT ![n] = nn] /\ node \in [Nodes -> Node]
        BY <1>1, <2>3 DEF IInv, Shape
      <4>3. \A m \in Nodes : node[m].rev \in Nat
        BY <4>2 DEF Node
      <4> HIDE DEF nn
      <4> QED
        BY <1>1, <4>1, <4>2, <4>3
    <3>6. \A m \in Nodes : node'[m].status = "accepted" => node'[m].for = run'.requirement
      BY <3>4, <3>5 DEF IInv, AcceptedMeetsAllConstraints
    <3> QED
      BY <1>2, <2>1, <3>3, <3>4, <3>5, <3>6, TablesKept
  <2>4. CASE /\ attempt' = [attempt EXCEPT ![a].status = "failed"]
             /\ node' = [node EXCEPT ![n].active = 0, ![n].status = "unresolved"]
             /\ node[n].active = a
             /\ run' = run
    <3> DEFINE nn == [node[n] EXCEPT !.active = 0, !.status = "unresolved"]
    <3>1. nn \in Node /\ nn.rev = node[n].rev /\ nn.status = "unresolved"
      BY <1>2 DEF Node
    <3>2. node' = [node EXCEPT ![n] = nn]
      BY <1>1, <1>2, <2>4 DEF IInv, Shape
    <3>3. RunShape' /\ "failed" \in Ends
      BY <1>2, <2>4 DEF RunShape, Ends
    <3> HIDE DEF nn
    <3> QED
      BY <1>2, <2>1, <2>4, <3>1, <3>2, <3>3, SettledPreserves
  <2>5. {"uncertain", "failed"} \subseteq Unknown \union Ends
    BY DEF Unknown, Ends
  <2> QED
    BY <1>10, <2>2, <2>3, <2>4, <2>5 DEF JobBreaks
<1> QED
  BY <1>3, <1>4, <1>5, <1>6, <1>7, <1>8, <1>9, <1>10 DEF JobStep

LEMMA ReservePreserves ==
  ASSUME IInv, NEW p \in Procs, NEW n \in Nodes, Reserve(p, n)
  PROVE  IInv'
<1> DEFINE j == queued[p][n]
<1>1. /\ queued \in [Procs -> [Nodes -> Job]] /\ j \in Job
      /\ RunShape /\ node \in [Nodes -> Node] /\ attempt \in Seq(Attempt)
  BY DEF IInv, Shape
<1>2. queued' = [queued EXCEPT ![p][n] = NoJob] /\ run' = run
  BY DEF Reserve
<1>3. queued' \in [Procs -> [Nodes -> Job]]
  BY <1>1, <1>2 DEF NoJob, Job
<1>4. CASE UNCHANGED <<node, attempt>>
  BY <1>1, <1>2, <1>3, <1>4, RunChanged DEF RunShape
<1>5. CASE Reservable(p, n) /\ ~UNCHANGED <<node, attempt>>
  <2> DEFINE t == [node |-> n, rev |-> j.rev, requirement |-> j.requirement,
                   epoch |-> run.epoch, proc |-> p, repairs |-> j.repairs,
                   status |-> "reserved", child |-> FALSE, logged |-> FALSE]
             c == Len(attempt) + 1
             nn == [node[n] EXCEPT !.active = c]
  <2>1. attempt' = Append(attempt, t) /\ node' = [node EXCEPT ![n].active = c]
    BY <1>5 DEF Reserve
  <2>2. node[n].rev = j.rev /\ node[n].active = 0
    BY <1>5 DEF Reservable
  <2>3. t \in Attempt /\ t.node = n /\ t.rev = node[n].rev
    BY <1>1, <2>2 DEF Attempt, Job, RunShape, Unknown
  <2>4. Len(attempt) \in Nat /\ c \in Nat /\ Attempts = 1..Len(attempt)
        /\ \A b \in Attempts : attempt[b].node \in Nodes /\ attempt[b].rev \in Nat
    BY AttemptFacts DEF IInv
  <2>5. /\ nn \in Node /\ nn.rev = node[n].rev /\ nn.active = c
        /\ nn.status = node[n].status /\ nn.for = node[n].for
    BY <1>1, <2>4 DEF Node
  <2>6. node' = [node EXCEPT ![n] = nn]
    BY <2>1, <1>1
  <2> HIDE DEF t, nn
  <2>7. /\ attempt' \in Seq(Attempt)
        /\ Attempts' = 1..c
        /\ attempt'[c] = t
        /\ \A b \in Attempts : attempt'[b] = attempt[b]
    BY <1>1, <2>1, <2>3, <2>4 DEF Attempts
  <2>8. /\ node' \in [Nodes -> Node] /\ node'[n] = nn
        /\ \A m \in Nodes \ {n} : node'[m] = node[m]
        /\ \A m \in Nodes : node[m].rev \in Nat /\ node'[m].rev = node[m].rev
    <3>1. \A m \in Nodes : node[m].rev \in Nat
      BY <1>1 DEF Node
    <3> QED
      BY <1>1, <2>5, <2>6, <3>1
  <2>9. Shape'
    BY <1>1, <1>2, <1>3, <2>7, <2>8 DEF Shape, RunShape
  <2>10. ASSUME NEW b \in Attempts'
         PROVE  /\ attempt'[b].rev <= node'[attempt'[b].node].rev
                /\ run'.phase = "running" /\ attempt'[b].status \in Unknown
                   => \/ node'[attempt'[b].node].active = b
                      \/ attempt'[b].rev < node'[attempt'[b].node].rev
    <3>1. CASE b = c
      BY <2>3, <2>5, <2>7, <2>8, <3>1
    <3>2. CASE b # c
      <4>1. b \in Attempts /\ b # 0 /\ attempt'[b] = attempt[b]
        BY <2>4, <2>7, <3>2
      <4>2. attempt[b].node \in Nodes /\ attempt[b].rev \in Nat
        BY <2>4, <4>1
      <4>3. CASE attempt[b].node = n
        BY <1>2, <2>2, <2>8, <4>1, <4>2, <4>3 DEF IInv, UnknownIsHeld
      <4>4. CASE attempt[b].node # n
        BY <1>2, <2>8, <4>1, <4>2, <4>4 DEF IInv, UnknownIsHeld
      <4> QED
        BY <4>3, <4>4
    <3> QED
      BY <3>1, <3>2
  <2>11. AcceptedMeetsAllConstraints'
    BY <1>2, <2>5, <2>8 DEF IInv, AcceptedMeetsAllConstraints
  <2> QED
    BY <2>9, <2>10, <2>11 DEF IInv, UnknownIsHeld
<1> QED
  BY <1>4, <1>5 DEF Reserve

LEMMA PauseForPreserves ==
  ASSUME IInv, NEW p \in Procs, NEW goal, PauseFor(p, goal), UNCHANGED queued
  PROVE  IInv'
<1>1. PauseState \/ UNCHANGED stored
  BY DEF PauseFor
<1> QED
  BY <1>1, PausePreserves, StoredKept

LEMMA CommandPreserves ==
  ASSUME IInv, NEW p \in Procs, CommandStep(p)
  PROVE  IInv'
<1>0. RunShape /\ queued \in [Procs -> [Nodes -> Job]] /\ attempt \in Seq(Attempt)
  BY DEF IInv, Shape
<1>1. CASE Pause(p)
  <2>1. queued' = queued /\ \E goal : PauseFor(p, goal)
    BY <1>1 DEF Pause
  <2> QED
    BY <2>1, PauseForPreserves
<1>2. CASE Paused(p) \/ ReadInputs(p) \/ LeaveInput(p)
  <2>1. UNCHANGED stored /\ UNCHANGED queued
    BY <1>2 DEF Paused, ReadInputs, LeaveInput
  <2> QED
    BY <2>1, StoredKept
<1>3. CASE FinishForUser(p)
  <2>1. UNCHANGED queued /\ (UNCHANGED stored \/ Finish(command[p].goal, command[p].changed))
    BY <1>3 DEF FinishForUser
  <2> QED
    BY <2>1, StoredKept, FinishPreserves
<1>4. CASE Reconcile(p)
  <2>1. queued' = queued
    BY <1>4 DEF Reconcile
  <2>2. CASE UNCHANGED stored
    BY <2>1, <2>2, StoredKept
  <2>3. CASE ~UNCHANGED stored
    <3>1. PICK a : /\ Reconcilable(p, a)
                   /\ \E outcome \in Outcomes : node' = Replied(a, outcome)
                   /\ attempt' = [attempt EXCEPT ![a].status = "completed"]
                   /\ \E x, y : run' = [Released("paused") EXCEPT !.reserved = x, !.tokens = y]
      BY <1>4, <2>3 DEF Reconcile
    <3>2. PICK outcome \in Outcomes : node' = Replied(a, outcome)
      BY <3>1
    <3> DEFINE n == attempt[a].node
               nn == [status |-> outcome, rev |-> node[n].rev, active |-> 0,
                      for |-> IF outcome = "accepted" THEN attempt[a].requirement ELSE 0]
    <3>3. /\ a \in Attempts /\ attempt[a].status \in Unknown
          /\ run.requirement = attempt[a].requirement /\ node[n].rev = attempt[a].rev
      BY <3>1 DEF Reconcilable
    <3>4. n \in Nodes /\ attempt[a].requirement \in Nat /\ attempt[a].rev \in Nat
      BY <3>3, AttemptFacts DEF IInv
    <3>5. node[n] \in Node
      BY <3>4 DEF IInv, Shape
    <3>6. /\ nn \in Node /\ nn.rev = node[n].rev
          /\ nn.status = "accepted" => nn.for = run.requirement
      BY <3>3, <3>4, <3>5, RunAssumption DEF Node
    <3>7. node' = [node EXCEPT ![n] = nn]
      BY <3>2 DEF Replied
    <3>8. run.phase = "running" => node[n].active \in {0, a}
      BY <3>3, <3>4 DEF IInv, UnknownIsHeld
    <3>9. /\ DOMAIN run' = DOMAIN run /\ run'.epoch \in Nat
          /\ run'.phase = "paused" /\ run'.requirement = run.requirement
      <4> DEFINE R == Released("paused")
      <4>1. /\ DOMAIN R = DOMAIN run /\ R.epoch \in Nat /\ R.phase = "paused"
            /\ R.requirement = run.requirement
        BY ReleasedFacts DEF IInv
      <4>2. \E x, y : run' = [R EXCEPT !.reserved = x, !.tokens = y]
        BY <3>1
      <4> HIDE DEF R
      <4> QED
        BY <1>0, <4>1, <4>2 DEF RunShape
    <3>10. RunShape' /\ "completed" \in Ends
      BY <1>0, <3>9 DEF RunShape, Ends
    <3> HIDE DEF nn
    <3> QED
      BY <1>0, <2>1, <3>1, <3>3, <3>6, <3>7, <3>8, <3>9, <3>10, SettledPreserves
  <2> QED
    BY <2>2, <2>3
<1>5. CASE AddConstraint(p)
  <2>1. /\ node' = Withdrawn(Nodes) /\ UNCHANGED <<attempt, queued>>
        /\ \E kept : run' = [run EXCEPT !.inputs = kept, !.requirement = @ + 1]
    BY <1>5 DEF AddConstraint
  <2>2. RunShape' /\ run'.phase = run.phase
    BY <1>0, <2>1 DEF RunShape
  <2> QED
    BY <1>0, <2>1, <2>2, WithdrawnPreserves DEF Attempts
<1>6. CASE KeepWork(p)
  <2>1. /\ UNCHANGED <<node, attempt, queued>>
        /\ \E kept : run' = [run EXCEPT !.inputs = kept]
    BY <1>6 DEF KeepWork
  <2>2. RunShape' /\ run'.phase = run.phase /\ run'.requirement = run.requirement
    BY <1>0, <2>1 DEF RunShape
  <2> QED
    BY <1>0, <2>1, <2>2, RunChanged
<1>7. CASE Abandon(p)
  <2>1. UNCHANGED <<run, queued>>
    BY <1>7 DEF Abandon
  <2>2. CASE UNCHANGED <<node, attempt>>
    BY <1>0, <2>1, <2>2, RunChanged DEF RunShape
  <2>3. CASE ~UNCHANGED <<node, attempt>>
    <3> DEFINE Left(a) == IF attempt[a].status \in Unknown
                          THEN [attempt[a] EXCEPT !.status = "abandoned"] ELSE attempt[a]
    <3>1. node' = Inactive /\ attempt' = [a \in Attempts |-> Left(a)]
      BY <1>7, <2>3 DEF Abandon
    <3>2. /\ node' \in [Nodes -> Node]
          /\ \A n \in Nodes : /\ node'[n].rev = node[n].rev
                              /\ node'[n].status = node[n].status
                              /\ node'[n].for = node[n].for
      BY <3>1, InactiveFacts DEF IInv
    <3>3. \A n \in Nodes : node[n].rev \in Nat
      BY DEF IInv, Shape, Node
    <3>4. Attempts = 1..Len(attempt) /\ Len(attempt) \in Nat /\ \A b \in Attempts : attempt[b] \in Attempt
      BY AttemptFacts DEF IInv
    <3>5. \A b \in Attempts : /\ Left(b) \in Attempt
                              /\ Left(b).node = attempt[b].node
                              /\ Left(b).rev = attempt[b].rev
                              /\ Left(b).status \notin Unknown
      BY <3>4 DEF Attempt, Unknown
    <3> HIDE DEF Left
    <3>6. /\ attempt' \in Seq(Attempt) /\ DOMAIN attempt' = Attempts
          /\ \A b \in Attempts : /\ attempt'[b].node = attempt[b].node
                                /\ attempt'[b].rev = attempt[b].rev
                                /\ attempt'[b].status \notin Unknown
      BY <3>1, <3>4, <3>5
    <3>7. \A n \in Nodes : node'[n].status = "accepted" => node'[n].for = run'.requirement
      BY <2>1, <3>2 DEF IInv, AcceptedMeetsAllConstraints
    <3> QED
      BY <1>0, <2>1, <3>2, <3>3, <3>6, <3>7, TablesKept DEF RunShape
  <2> QED
    BY <2>2, <2>3
<1>8. CASE Start(p)
  <2>1. /\ UNCHANGED <<node, attempt, queued>>
        /\ run' = run \/ run' = [run EXCEPT !.phase = "ready"]
    BY <1>8 DEF Start
  <2>2. RunShape' /\ run'.requirement = run.requirement
        /\ (run'.phase = "running" => run.phase = "running")
    BY <1>0, <2>1 DEF RunShape
  <2> QED
    BY <1>0, <2>1, <2>2, RunChanged
<1> QED
  BY <1>1, <1>2, <1>3, <1>4, <1>5, <1>6, <1>7, <1>8 DEF CommandStep

(* What else happens in a process: timers, commands that begin, its end.       *)
Around(p) == Deadline(p) \/ Kick(p) \/ Stops(p) \/ SaveInput(p) \/ Resume(p) \/ Crash(p)

LEMMA AroundPreserves ==
  ASSUME IInv, NEW p \in Procs, Around(p)
  PROVE  IInv'
<1>0. RunShape /\ queued \in [Procs -> [Nodes -> Job]]
  BY DEF IInv, Shape
<1>1. CASE Deadline(p) \/ Kick(p) \/ Resume(p)
  <2>1. UNCHANGED stored /\ UNCHANGED queued
    BY <1>1 DEF Deadline, Kick, Resume
  <2> QED
    BY <2>1, StoredKept
<1>2. CASE Stops(p)
  <2>1. queued' = queued /\ \E goal : PauseFor(p, goal)
    BY <1>2 DEF Stops
  <2> QED
    BY <2>1, PauseForPreserves
<1>3. CASE SaveInput(p)
  <2>1. UNCHANGED <<node, attempt, queued>> /\ \E kept : run' = [run EXCEPT !.inputs = kept]
    BY <1>3 DEF SaveInput
  <2>2. RunShape' /\ run'.phase = run.phase /\ run'.requirement = run.requirement
    BY <1>0, <2>1 DEF RunShape
  <2> QED
    BY <1>0, <2>1, <2>2, RunChanged
<1>4. CASE Crash(p)
  <2>1. /\ UNCHANGED <<node, attempt>>
        /\ queued' = [queued EXCEPT ![p] = [n \in Nodes |-> NoJob]]
        /\ \E o : run' = [run EXCEPT !.owner = o]
    BY <1>4 DEF Crash
  <2>2. RunShape' /\ run'.phase = run.phase /\ run'.requirement = run.requirement
    BY <1>0, <2>1 DEF RunShape
  <2>3. queued' \in [Procs -> [Nodes -> Job]]
    BY <1>0, <2>1 DEF NoJob, Job
  <2> QED
    BY <2>1, <2>2, <2>3, RunChanged
<1> QED
  BY <1>1, <1>2, <1>3, <1>4 DEF Around

LEMMA WorldPreserves ==
  ASSUME IInv, Lapse \/ TimeIsUp \/ \E n \in Nodes : SourceChanges(n)
  PROVE  IInv'
<1>0. RunShape /\ queued \in [Procs -> [Nodes -> Job]]
  BY DEF IInv, Shape
<1>1. CASE \E n \in Nodes : SourceChanges(n)
  <2>1. UNCHANGED stored /\ UNCHANGED queued
    BY <1>1 DEF SourceChanges
  <2> QED
    BY <2>1, StoredKept
<1>2. CASE Lapse \/ TimeIsUp
  <2>1. /\ UNCHANGED <<node, attempt, queued>>
        /\ run' = [run EXCEPT !.lease = FALSE] \/ run' = [run EXCEPT !.timeUp = TRUE]
    BY <1>2 DEF Lapse, TimeIsUp
  <2>2. RunShape' /\ run'.phase = run.phase /\ run'.requirement = run.requirement
    BY <1>0, <2>1 DEF RunShape
  <2> QED
    BY <1>0, <2>1, <2>2, RunChanged
<1> QED
  BY <1>1, <1>2

LEMMA StepPreserves == IInv /\ [Next]_vars => IInv'
<1> SUFFICES ASSUME IInv, [Next]_vars PROVE IInv'
  OBVIOUS
<1>1. CASE UNCHANGED vars
  BY <1>1, StoredKept DEF vars, stored
<1>2. ASSUME NEW p \in Procs,
             DriverStep(p) \/ CommandStep(p) \/ Around(p) \/ \E n \in Nodes : Reserve(p, n)
      PROVE  IInv'
  BY <1>2, DriverPreserves, CommandPreserves, AroundPreserves, ReservePreserves
<1>3. CASE \E a \in Attempts : JobStep(a)
  BY <1>3, JobPreserves
<1>4. CASE Lapse \/ TimeIsUp \/ \E n \in Nodes : SourceChanges(n)
  BY <1>4, WorldPreserves
<1> QED
  BY <1>1, <1>2, <1>3, <1>4 DEF Next, Around

----------------------------------------------------------------------------
(* Attempts are only added by #reserve().                                      *)
LEMMA OnlyReserveAdds ==
  ASSUME IInv, Next, ~\E p \in Procs, n \in Nodes : Reserve(p, n)
  PROVE  Attempts' = Attempts
<1>1. ASSUME PauseState \/ UNCHANGED stored \/ UNCHANGED attempt
      PROVE  Attempts' = Attempts
  BY <1>1 DEF PauseState, Attempts, stored
<1>2. ASSUME NEW p \in Procs, DriverStep(p) PROVE Attempts' = Attempts
  BY <1>1, <1>2 DEF DriverStep, Claim, Loop, Survey, Withdraw, Decide, FinishRun, Stop, Drained,
                    Failing, Finish, stored
<1>3. ASSUME NEW a \in Attempts, JobStep(a) PROVE Attempts' = Attempts
  BY <1>3 DEF JobStep, Assemble, SendRequest, StreamEnds, ChildCompletes, Repair, AcceptReply,
              RefuseReply, JobBreaks, Attempts
<1>4. ASSUME NEW p \in Procs, CommandStep(p) PROVE Attempts' = Attempts
  <2>1. CASE Reconcile(p) \/ Abandon(p)
    BY <1>1, <2>1 DEF Reconcile, Abandon, Attempts
  <2>2. CASE Pause(p)
    BY <1>1, <2>2 DEF Pause, PauseFor
  <2>3. CASE Paused(p) \/ FinishForUser(p) \/ ReadInputs(p) \/ LeaveInput(p)
    BY <1>1, <2>3 DEF Paused, FinishForUser, ReadInputs, LeaveInput, Finish
  <2>4. CASE AddConstraint(p) \/ KeepWork(p) \/ Start(p)
    BY <1>1, <2>4 DEF AddConstraint, KeepWork, Start
  <2> QED
    BY <1>4, <2>1, <2>2, <2>3, <2>4 DEF CommandStep
<1>5. ASSUME NEW p \in Procs, Around(p) PROVE Attempts' = Attempts
  BY <1>1, <1>5 DEF Around, Deadline, Kick, Stops, PauseFor, SaveInput, Resume, Crash
<1>6. CASE Lapse \/ TimeIsUp \/ \E n \in Nodes : SourceChanges(n)
  BY <1>1, <1>6 DEF Lapse, TimeIsUp, SourceChanges
<1> QED
  BY <1>2, <1>3, <1>4, <1>5, <1>6 DEF Next, Around

(* What #reserve() adds was not unknown at this revision: an unknown attempt   *)
(* is the active one, and there is none.                                       *)
LEMMA ReserveIsFresh ==
  ASSUME IInv, NEW p \in Procs, NEW n \in Nodes, Reserve(p, n)
  PROVE  \A a \in Attempts' \ Attempts : \A b \in Attempts :
           attempt[b].node = attempt'[a].node /\ attempt[b].rev = attempt'[a].rev
           => attempt[b].status \notin Unknown
<1> DEFINE t == [node |-> n, rev |-> queued[p][n].rev, requirement |-> queued[p][n].requirement,
                 epoch |-> run.epoch, proc |-> p, repairs |-> queued[p][n].repairs,
                 status |-> "reserved", child |-> FALSE, logged |-> FALSE]
<1>1. Attempts = 1..Len(attempt) /\ Len(attempt) \in Nat /\ attempt \in Seq(Attempt)
  BY AttemptFacts DEF IInv, Shape
<1>2. CASE UNCHANGED attempt
  BY <1>2 DEF Attempts
<1>3. CASE Reservable(p, n) /\ attempt' = Append(attempt, t)
  <2>1. t.node = n /\ t.rev = queued[p][n].rev
    OBVIOUS
  <2> HIDE DEF t
  <2>2. \A a \in Attempts' \ Attempts : attempt'[a] = t
    BY <1>1, <1>3 DEF Attempts
  <2>3. run.phase = "running" /\ node[n].rev = queued[p][n].rev /\ node[n].active = 0
    BY <1>3 DEF Reservable, Owns
  <2>4. node[n].rev \in Nat
    BY DEF IInv, Shape, Node
  <2>5. ASSUME NEW b \in Attempts, attempt[b].node = n, attempt[b].rev = node[n].rev
        PROVE  attempt[b].status \notin Unknown
    BY <1>1, <2>3, <2>4, <2>5 DEF IInv, UnknownIsHeld
  <2> QED
    BY <2>1, <2>2, <2>3, <2>5
<1> QED
  BY <1>2, <1>3 DEF Reserve

(* Every state of a run satisfies the strengthened invariant.                  *)
THEOREM DeepRunInvariant == Spec => []IInv
<1>1. Init => IInv
  BY InitHolds
<1>2. IInv /\ [Next]_vars => IInv'
  BY StepPreserves
<1> QED
  BY <1>1, <1>2, PTL DEF Spec

(* What counts as accepted was accepted under all constraints, for any number  *)
(* of processes sharing the run (acceptDeepReply(), reconcile(), #resume()).   *)
THEOREM AcceptedMeetsConstraints == Spec => []AcceptedMeetsAllConstraints
<1>1. IInv => AcceptedMeetsAllConstraints
  BY DEF IInv
<1> QED
  BY <1>1, DeepRunInvariant, PTL

(* No node is tried again at a revision of which an attempt is unresolved,     *)
(* whoever claims the run after whatever crash (claim(), #reserve()).          *)
THEOREM UnknownIsHeldBack == Spec => UnknownIsNotResent
<1> DEFINE Fresh == \A a \in DOMAIN attempt' \ DOMAIN attempt : \A b \in Attempts :
                      /\ attempt[b].node = attempt'[a].node
                      /\ attempt[b].rev = attempt'[a].rev
                      => attempt[b].status \notin Unknown
<1>1. IInv /\ [Next]_vars => [Fresh]_vars
  <2> SUFFICES ASSUME IInv, Next PROVE Fresh
    OBVIOUS
  <2>1. CASE \E p \in Procs, n \in Nodes : Reserve(p, n)
    BY <2>1, ReserveIsFresh DEF Attempts
  <2>2. CASE ~\E p \in Procs, n \in Nodes : Reserve(p, n)
    BY <2>2, OnlyReserveAdds DEF Attempts
  <2> QED
    BY <2>1, <2>2
<1> QED
  BY <1>1, DeepRunInvariant, PTL DEF Spec, UnknownIsNotResent
----------------------------------------------------------------------------
(* The bill: what is reserved and spent against the requests of the run.       *)

RequestRows == [attempt : Nat, status : {"reserved", "uncertain", "settled"}]
Counted(q, S) == {r \in DOMAIN q : q[r].status \in S}
Billed(q, S) == Cardinality(Counted(q, S))

Places == {"spawned", "idle", "streaming", "returned", "broken", "over"}

(* A job that streams has sent a request: the one its end settles is there.    *)
Tasks ==
  /\ task \in Seq(Places)
  /\ DOMAIN task = Attempts
  /\ \A a \in Attempts : task[a] = "streaming" => RequestsOf(a) # {}

BillInv == IInv /\ Tasks /\ request \in Seq(RequestRows) /\ UsageIsConserved

(* The requests counted twice in UsageIsConserved.                             *)
LEMMA UsageRestated ==
  UsageIsConserved <=>
    /\ run.reserved = Estimate * Billed(request, Held)
    /\ run.tokens \in (Least * Billed(request, {"settled"}))..(Most * Billed(request, {"settled"}))
BY DEF UsageIsConserved, Billed, Counted

LEMMA CountsAreNatural ==
  ASSUME NEW q \in Seq(RequestRows), NEW S
  PROVE  /\ IsFiniteSet(DOMAIN q)
         /\ IsFiniteSet(Counted(q, S))
         /\ Billed(q, S) \in Nat
<1>1. DOMAIN q = 1..Len(q) /\ Len(q) \in Nat
  OBVIOUS
<1>2. IsFiniteSet(DOMAIN q)
  BY <1>1, FS_Interval
<1>3. Counted(q, S) \in SUBSET DOMAIN q
  BY DEF Counted
<1>4. IsFiniteSet(Counted(q, S))
  BY <1>2, <1>3, FS_Subset
<1> QED
  BY <1>2, <1>4, FS_CardinalityType DEF Billed

(* The least and the most a request costs.                                     *)
LEMMA CostBounds ==
  /\ Estimate \in Nat /\ Actual \in Nat /\ Least \in Nat /\ Most \in Nat
  /\ Least <= Estimate /\ Least <= Actual /\ Estimate <= Most /\ Actual <= Most
<1>1. Estimate \in Nat /\ Actual \in Nat
  BY RunAssumption
<1>2. Least \in {Estimate, Actual} /\ \A y \in {Estimate, Actual} : Least <= y
  <2>1. \E x \in {Estimate, Actual} : \A y \in {Estimate, Actual} : x <= y
    BY <1>1
  <2> QED
    BY <2>1 DEF Least, Min
<1>3. Most \in {Estimate, Actual} /\ \A y \in {Estimate, Actual} : Most >= y
  <2>1. \E x \in {Estimate, Actual} : \A y \in {Estimate, Actual} : x >= y
    BY <1>1
  <2> QED
    BY <2>1 DEF Most, Max
<1> QED
  BY <1>1, <1>2, <1>3

LEMMA Distributes ==
  ASSUME NEW x \in Nat, NEW k \in Nat, NEW m \in Nat
  PROVE  x * (k + m) = x * k + x * m /\ x * k \in Nat /\ x * m \in Nat
OBVIOUS

LEMMA ProductGrows ==
  ASSUME NEW x \in Nat, NEW y \in Nat, x <= y, NEW m \in Nat
  PROVE  x * m <= y * m
<1>1. (y - x) \in Nat /\ (y - x) * m \in Nat
  OBVIOUS
<1>2. (y - x) * m = y * m - x * m
  OBVIOUS
<1> QED
  BY <1>1, <1>2

LEMMA CountsSplit ==
  ASSUME NEW A, IsFiniteSet(A), NEW M, IsFiniteSet(M)
  PROVE  /\ M \subseteq A => Cardinality(A \ M) = Cardinality(A) - Cardinality(M)
         /\ A \intersect M = {} => Cardinality(A \union M) = Cardinality(A) + Cardinality(M)
<1>1. Cardinality(A) \in Nat /\ Cardinality(M) \in Nat /\ Cardinality({}) = 0
  BY FS_CardinalityType, FS_EmptySet
<1>2. ASSUME M \subseteq A PROVE Cardinality(A \ M) = Cardinality(A) - Cardinality(M)
  <2>1. A \intersect M = M
    BY <1>2
  <2> QED
    BY <2>1, FS_Difference
<1>3. ASSUME A \intersect M = {}
      PROVE  Cardinality(A \union M) = Cardinality(A) + Cardinality(M)
  <2>1. Cardinality(A \union M) = Cardinality(A) + Cardinality(M) - Cardinality(A \intersect M)
    BY FS_Union
  <2>2. Cardinality(A \intersect M) = 0
    BY <1>1, <1>3
  <2> QED
    BY <1>1, <2>1, <2>2
<1> QED
  BY <1>2, <1>3

(* What a settlement does to the counts: the requests of M were held.          *)
Settling(q, M) ==
  [r \in DOMAIN q |-> IF r \in M THEN [q[r] EXCEPT !.status = "settled"] ELSE q[r]]

LEMMA SettledMove ==
  ASSUME NEW q \in Seq(RequestRows), NEW M \in SUBSET Counted(q, Held),
         NEW w, w = Settling(q, M)
  PROVE  /\ w \in Seq(RequestRows) /\ DOMAIN w = DOMAIN q
         /\ \A r \in DOMAIN q : w[r].attempt = q[r].attempt
         /\ Cardinality(M) \in Nat
         /\ Billed(q, Held) = Billed(w, Held) + Cardinality(M)
         /\ Billed(w, {"settled"}) = Billed(q, {"settled"}) + Cardinality(M)
<1>1. DOMAIN q = 1..Len(q) /\ Len(q) \in Nat /\ \A r \in DOMAIN q : q[r] \in RequestRows
  OBVIOUS
<1>2. M \subseteq DOMAIN q /\ \A r \in M : q[r].status \in Held
  BY DEF Counted
<1>3. \A r \in DOMAIN q : /\ w[r] \in RequestRows
                          /\ w[r].attempt = q[r].attempt
                          /\ w[r].status = IF r \in M THEN "settled" ELSE q[r].status
  BY <1>1 DEF RequestRows, Settling
<1>4. w \in Seq(RequestRows) /\ DOMAIN w = DOMAIN q
  BY <1>1, <1>3 DEF Settling
<1>5. "settled" \notin Held
  BY DEF Held
<1>6. Counted(w, Held) = Counted(q, Held) \ M
  BY <1>2, <1>3, <1>4, <1>5 DEF Counted
<1>7. Counted(w, {"settled"}) = Counted(q, {"settled"}) \union M
  BY <1>2, <1>3, <1>4 DEF Counted
<1>8. /\ IsFiniteSet(Counted(q, Held)) /\ IsFiniteSet(Counted(q, {"settled"})) /\ IsFiniteSet(M)
      /\ Billed(q, Held) \in Nat /\ Billed(q, {"settled"}) \in Nat /\ Cardinality(M) \in Nat
  BY CountsAreNatural, FS_Subset, FS_CardinalityType
<1>9. Billed(w, Held) = Billed(q, Held) - Cardinality(M)
  BY <1>6, <1>8, CountsSplit DEF Billed
<1>10. Billed(w, {"settled"}) = Billed(q, {"settled"}) + Cardinality(M)
  <2>1. Counted(q, {"settled"}) \intersect M = {}
    BY <1>2, <1>5 DEF Counted
  <2> QED
    BY <1>7, <1>8, <2>1, CountsSplit DEF Billed
<1> QED
  BY <1>3, <1>4, <1>8, <1>9, <1>10

(* Every step but a request sent, settled or recovered leaves the bill alone.  *)
Unbilled ==
  /\ request' = request
  /\ run'.reserved = run.reserved
  /\ run'.tokens = run.tokens

TasksGoOn ==
  /\ task' \in Seq(Places)
  /\ DOMAIN task' = Attempts'
  /\ \A a \in Attempts' : task'[a] = "streaming" => a \in Attempts /\ task[a] = "streaming"

LEMMA UnbilledKeeps ==
  ASSUME BillInv, IInv', Unbilled, TasksGoOn
  PROVE  BillInv'
<1>1. Tasks'
  BY DEF BillInv, Tasks, TasksGoOn, Unbilled, RequestsOf
<1>2. UsageIsConserved'
  BY DEF BillInv, Unbilled, UsageIsConserved
<1> QED
  BY <1>1, <1>2 DEF BillInv, Unbilled

LEMMA TaskMoves ==
  ASSUME Tasks, NEW a \in Attempts, NEW at \in Places, at # "streaming",
         Becomes(a, at), Attempts' = Attempts
  PROVE  TasksGoOn
BY DEF Tasks, TasksGoOn, Becomes

LEMMA TasksStay ==
  ASSUME Tasks, task' = task, Attempts' = Attempts
  PROVE  TasksGoOn
BY DEF Tasks, TasksGoOn

(* PauseState, Finish and the other transactions on the run's record.          *)
LEMMA RecordUnbilled ==
  ASSUME RunShape
  PROVE  /\ UNCHANGED stored => Unbilled
         /\ PauseState => Unbilled
         /\ \A phase, changed : Finish(phase, changed) => Unbilled
         /\ UNCHANGED <<run, request>> => Unbilled
         /\ \A phase : /\ Released(phase).reserved = run.reserved
                       /\ Released(phase).tokens = run.tokens
                       /\ DOMAIN Released(phase) = DOMAIN run
<1>1. \A phase : /\ Released(phase).reserved = run.reserved
                 /\ Released(phase).tokens = run.tokens
                 /\ DOMAIN Released(phase) = DOMAIN run
  BY DEF RunShape, Released
<1>2. ASSUME PauseState PROVE Unbilled
  BY <1>1, <1>2 DEF PauseState, Unbilled
<1>3. ASSUME NEW phase, NEW changed, Finish(phase, changed) PROVE Unbilled
  BY <1>1, <1>3 DEF Finish, Unbilled
<1> QED
  BY <1>1, <1>2, <1>3 DEF stored, Unbilled

LEMMA DriverUnbilled ==
  ASSUME RunShape, NEW p \in Procs, DriverStep(p)
  PROVE  Unbilled /\ task' = task
<1>1. task' = task
  BY DEF DriverStep, Claim, Loop, Survey, Withdraw, Decide, FinishRun, Stop, Drained, Failing
<1>2. CASE Claim(p)
  <2>1. request' = request
    BY <1>2 DEF Claim
  <2>2. run'.reserved = run.reserved /\ run'.tokens = run.tokens
    BY <1>2 DEF Claim, RunShape
  <2> QED
    BY <1>1, <2>1, <2>2 DEF Unbilled
<1>3. CASE Loop(p) \/ Survey(p) \/ Withdraw(p) \/ Decide(p) \/ Drained(p)
  BY <1>3 DEF Loop, Survey, Withdraw, Decide, Drained, stored, Unbilled
<1>4. CASE FinishRun(p)
  BY <1>4, RecordUnbilled DEF FinishRun
<1>5. CASE Stop(p) \/ Failing(p)
  BY <1>5, RecordUnbilled DEF Stop, Failing
<1> QED
  BY <1>1, <1>2, <1>3, <1>4, <1>5 DEF DriverStep

LEMMA AroundUnbilled ==
  ASSUME RunShape, NEW p \in Procs,
         Around(p) \/ (CommandStep(p) /\ ~Reconcile(p))
  PROVE  Unbilled
<1>1. ASSUME NEW goal, PauseFor(p, goal) PROVE Unbilled
  BY <1>1, RecordUnbilled DEF PauseFor
<1>2. CASE Pause(p) \/ Stops(p)
  BY <1>1, <1>2 DEF Pause, Stops
<1>3. CASE \/ Deadline(p) \/ Kick(p) \/ Resume(p) \/ Paused(p)
           \/ ReadInputs(p) \/ LeaveInput(p) \/ Abandon(p)
  BY <1>3 DEF Deadline, Kick, Resume, Paused, ReadInputs, LeaveInput, Abandon, stored, Unbilled
<1>4. CASE FinishForUser(p)
  BY <1>4, RecordUnbilled DEF FinishForUser
<1>5. CASE SaveInput(p) \/ KeepWork(p) \/ AddConstraint(p)
  <2>1. /\ request' = request
        /\ \E x : \/ run' = [run EXCEPT !.inputs = x]
                  \/ run' = [run EXCEPT !.inputs = x, !.requirement = @ + 1]
    BY <1>5 DEF SaveInput, KeepWork, AddConstraint
  <2> QED
    BY <2>1 DEF RunShape, Unbilled
<1>6. CASE Start(p)
  <2>1. request' = request /\ (run' = run \/ run' = [run EXCEPT !.phase = "ready"])
    BY <1>6 DEF Start
  <2> QED
    BY <2>1 DEF RunShape, Unbilled
<1>7. CASE Crash(p)
  <2>1. request' = request /\ \E x : run' = [run EXCEPT !.owner = x]
    BY <1>7 DEF Crash
  <2> QED
    BY <2>1 DEF RunShape, Unbilled
<1> QED
  BY <1>2, <1>3, <1>4, <1>5, <1>6, <1>7 DEF Around, CommandStep

LEMMA ReserveKeepsBill ==
  ASSUME BillInv, IInv', NEW p \in Procs, NEW n \in Nodes, Reserve(p, n)
  PROVE  BillInv'
<1>1. Unbilled
  BY DEF Reserve, Unbilled
<1>2. Attempts = 1..Len(attempt) /\ Len(attempt) \in Nat /\ attempt \in Seq(Attempt)
  BY AttemptFacts DEF BillInv, IInv, Shape
<1>3. task \in Seq(Places) /\ DOMAIN task = Attempts /\ Len(task) = Len(attempt)
  BY <1>2 DEF BillInv, Tasks
<1>4. CASE UNCHANGED <<attempt, task>>
  BY <1>4, <1>1, TasksStay, UnbilledKeeps DEF BillInv, Attempts
<1>5. ASSUME NEW t, attempt' = Append(attempt, t), task' = Append(task, "spawned")
      PROVE  BillInv'
  <2>1. Attempts' = 1..(Len(attempt) + 1)
    BY <1>2, <1>5 DEF Attempts
  <2>2. /\ task' \in Seq(Places) /\ DOMAIN task' = 1..(Len(attempt) + 1)
        /\ task'[Len(attempt) + 1] = "spawned"
        /\ \A a \in Attempts : task'[a] = task[a]
    <3> DEFINE last == "spawned"
    <3>1. last \in Places /\ task' = Append(task, last)
      BY <1>5 DEF Places
    <3> HIDE DEF last
    <3>2. /\ task' \in Seq(Places) /\ DOMAIN task' = 1..(Len(task) + 1)
          /\ task'[Len(task) + 1] = last
          /\ \A a \in 1..Len(task) : task'[a] = task[a]
      BY <1>3, <3>1
    <3> QED
      BY <1>2, <1>3, <3>2 DEF last
  <2>3. TasksGoOn
    BY <1>2, <2>1, <2>2 DEF TasksGoOn
  <2> QED
    BY <1>1, <2>3, UnbilledKeeps
<1> QED
  BY <1>4, <1>5 DEF Reserve

(* A request is sent: one more is held, and its estimate is reserved.          *)
LEMMA SendKeepsBill ==
  ASSUME BillInv, IInv', NEW a \in Attempts, Attempts' = Attempts, SendRequest(a)
  PROVE  BillInv'
<1> DEFINE c == Len(request) + 1
           t == [attempt |-> a, status |-> "reserved"]
<1>1. request' = Append(request, t) /\ run' = [run EXCEPT !.reserved = @ + Estimate]
      /\ task' = [task EXCEPT ![a] = "streaming"]
  BY DEF SendRequest, Becomes
<1>2. RunShape /\ request \in Seq(RequestRows) /\ Tasks /\ a \in Nat
  BY AttemptFacts DEF BillInv, IInv, Shape
<1>3. t \in RequestRows /\ t.status = "reserved" /\ t.attempt = a
  BY <1>2 DEF RequestRows
<1>4. run'.reserved = run.reserved + Estimate /\ run'.tokens = run.tokens
  BY <1>1, <1>2 DEF RunShape
<1> HIDE DEF t
<1>5. /\ request' \in Seq(RequestRows) /\ DOMAIN request' = DOMAIN request \union {c}
      /\ c \notin DOMAIN request /\ request'[c] = t
      /\ \A r \in DOMAIN request : request'[r] = request[r]
  <2>1. DOMAIN request = 1..Len(request) /\ Len(request) \in Nat
    BY <1>2
  <2>2. /\ request' \in Seq(RequestRows) /\ DOMAIN request' = 1..c /\ request'[c] = t
        /\ \A r \in DOMAIN request : request'[r] = request[r]
    BY <1>1, <1>2, <1>3, <2>1
  <2> QED
    BY <2>1, <2>2
<1>6. Tasks'
  <2>1. /\ task' \in Seq(Places) /\ DOMAIN task' = DOMAIN task
        /\ \A b \in Attempts \ {a} : task'[b] = task[b]
    BY <1>1, <1>2 DEF Tasks, Places
  <2>2. \A b \in Attempts : RequestsOf(b) \subseteq RequestsOf(b)'
    BY <1>5 DEF RequestsOf
  <2>3. c \in RequestsOf(a)'
    BY <1>3, <1>5 DEF RequestsOf
  <2> QED
    BY <1>2, <2>1, <2>2, <2>3 DEF Tasks
<1>7. /\ Counted(request', Held) = Counted(request, Held) \union {c}
      /\ c \notin Counted(request, Held)
      /\ Counted(request', {"settled"}) = Counted(request, {"settled"})
  BY <1>3, <1>5 DEF Counted, Held
<1>8. Billed(request', Held) = Billed(request, Held) + 1
  BY <1>2, <1>7, CountsAreNatural, FS_AddElement DEF Billed
<1>9. Billed(request', {"settled"}) = Billed(request, {"settled"})
  BY <1>7 DEF Billed
<1>10. Billed(request, Held) \in Nat
  BY <1>2, CountsAreNatural
<1>11. UsageIsConserved'
  <2>1. Estimate * (Billed(request, Held) + 1) = Estimate * Billed(request, Held) + Estimate
    BY <1>10, CostBounds
  <2>2. run'.reserved = Estimate * Billed(request', Held)
    BY <1>4, <1>8, <2>1, UsageRestated DEF BillInv
  <2>3. run'.tokens \in (Least * Billed(request', {"settled"}))..(Most * Billed(request', {"settled"}))
    BY <1>4, <1>9, UsageRestated DEF BillInv
  <2> QED
    BY <2>2, <2>3 DEF UsageIsConserved, Billed, Counted, Least, Most
<1> QED
  BY <1>5, <1>6, <1>11 DEF BillInv

(* Requests of M are settled, each for no less than the least and no more than *)
(* the most it can cost.                                                       *)
LEMMA SettlingKeepsUsage ==
  ASSUME UsageIsConserved, request \in Seq(RequestRows),
         NEW M \in SUBSET Counted(request, Held),
         request' = Settling(request, M),
         NEW cost \in Nat, Least <= cost, cost <= Most,
         run'.reserved = run.reserved - Estimate * Cardinality(M),
         run'.tokens = run.tokens + cost * Cardinality(M)
  PROVE  UsageIsConserved'
<1> DEFINE m == Cardinality(M)
           h == Billed(request, Held)
           s == Billed(request, {"settled"})
<1>1. /\ m \in Nat /\ h = Billed(request', Held) + m /\ Billed(request', {"settled"}) = s + m
  BY SettledMove
<1>2. h \in Nat /\ s \in Nat /\ Billed(request', Held) \in Nat
  BY CountsAreNatural, SettledMove
<1>3. run.reserved = Estimate * h /\ run.tokens \in (Least * s)..(Most * s)
  BY UsageRestated
<1> HIDE DEF m, h, s
<1>4. run'.reserved = run.reserved - Estimate * m /\ run'.tokens = run.tokens + cost * m
  BY DEF m
<1>5. run'.reserved = Estimate * Billed(request', Held)
  <2> DEFINE k == Billed(request', Held)
  <2> HIDE DEF k
  <2>1. k \in Nat /\ h = k + m
    BY <1>1, <1>2 DEF k
  <2>2. Estimate * h = Estimate * k + Estimate * m /\ Estimate * k \in Nat /\ Estimate * m \in Nat
    BY <1>1, <2>1, CostBounds, Distributes
  <2>3. run'.reserved = Estimate * k
    BY <1>3, <1>4, <2>2
  <2> QED
    BY <2>3 DEF k
<1>6. run'.tokens \in (Least * Billed(request', {"settled"}))..(Most * Billed(request', {"settled"}))
  <2>1. /\ Least * (s + m) = Least * s + Least * m /\ Least * s \in Nat /\ Least * m \in Nat
        /\ Most * (s + m) = Most * s + Most * m /\ Most * s \in Nat /\ Most * m \in Nat
        /\ cost * m \in Nat
    <3>1. Least \in Nat /\ Most \in Nat /\ m \in Nat /\ s \in Nat
      BY <1>1, <1>2, CostBounds
    <3>2. Least * (s + m) = Least * s + Least * m /\ Least * s \in Nat /\ Least * m \in Nat
      BY <3>1, Distributes
    <3>3. Most * (s + m) = Most * s + Most * m /\ Most * s \in Nat /\ Most * m \in Nat
      BY <3>1, Distributes
    <3>4. cost * m \in Nat
      BY <3>1, Distributes
    <3> QED
      BY <3>2, <3>3, <3>4
  <2>2. Least * m <= cost * m /\ cost * m <= Most * m
    BY <1>1, CostBounds, ProductGrows
  <2>3. run.tokens \in Int /\ Least * s <= run.tokens /\ run.tokens <= Most * s
    BY <1>3, <2>1
  <2>4. run'.tokens \in (Least * (s + m))..(Most * (s + m))
    BY <1>4, <2>1, <2>2, <2>3
  <2> QED
    BY <1>1, <2>4
<1> QED
  BY <1>5, <1>6 DEF UsageIsConserved, Billed, Counted, Least, Most

(* Tasks of a settlement: the requests stay where they are.                    *)
LEMMA SettledRequestsStay ==
  ASSUME request \in Seq(RequestRows), NEW M \in SUBSET Counted(request, Held),
         request' = Settling(request, M),
         Tasks, TasksGoOn
  PROVE  request' \in Seq(RequestRows) /\ Tasks'
<1>1. /\ request' \in Seq(RequestRows) /\ DOMAIN request' = DOMAIN request
      /\ \A r \in DOMAIN request : request'[r].attempt = request[r].attempt
  BY SettledMove
<1>2. \A a \in Attempts : RequestsOf(a)' = RequestsOf(a)
  BY <1>1 DEF RequestsOf
<1> QED
  BY <1>1, <1>2 DEF Tasks, TasksGoOn

LEMMA LatestRequest ==
  ASSUME request \in Seq(RequestRows), NEW a, RequestsOf(a) # {}
  PROVE  Max(RequestsOf(a)) \in RequestsOf(a)
<1> DEFINE R == RequestsOf(a)
           N == {Len(request) - r : r \in R}
<1>1. Len(request) \in Nat /\ DOMAIN request = 1..Len(request) /\ R \subseteq 1..Len(request)
  BY DEF RequestsOf
<1>2. N \subseteq Nat /\ N # {}
  BY <1>1
<1>3. \E x \in N : \A y \in N : ~(<<y, x>> \in OpToRel(<, Nat))
  BY <1>2, NatLessThanWellFounded, WFMin
<1>4. PICK x \in N : \A y \in N : ~(y < x)
  BY <1>2, <1>3 DEF OpToRel
<1>5. PICK r \in R : x = Len(request) - r
  BY <1>4
<1>6. \A y \in R : r >= y
  <2>1. \A y \in R : Len(request) - y \in N /\ ~(Len(request) - y < x)
    BY <1>4
  <2> HIDE DEF R, N
  <2>2. r \in Nat /\ \A y \in R : y \in Nat
    BY <1>1, <1>5
  <2> QED
    BY <1>1, <1>5, <2>1, <2>2
<1> HIDE DEF R
<1>7. Max(R) \in R
  BY <1>5, <1>6 DEF Max
<1> QED
  BY <1>7 DEF R

LEMMA StreamKeepsBill ==
  ASSUME BillInv, IInv', NEW a \in Attempts, Attempts' = Attempts, StreamEnds(a)
  PROVE  BillInv'
<1> DEFINE r == Max(RequestsOf(a))
<1>1. RunShape /\ request \in Seq(RequestRows) /\ Tasks /\ UsageIsConserved
  BY DEF BillInv, IInv, Shape
<1>2. PICK finished \in BOOLEAN, measured \in BOOLEAN :
        /\ SettleRequest(r, finished, measured)
        /\ Becomes(a, IF finished THEN "idle" ELSE "broken")
  BY DEF StreamEnds
<1>3. TasksGoOn
  <2> DEFINE at == IF finished THEN "idle" ELSE "broken"
  <2>1. at \in Places /\ at # "streaming"
    BY DEF Places
  <2>2. Becomes(a, at)
    BY <1>2
  <2> HIDE DEF at
  <2> QED
    BY <1>1, <2>1, <2>2, TaskMoves
<1>4. task[a] = "streaming"
  BY DEF StreamEnds, At
<1>5. r \in DOMAIN request
  BY <1>1, <1>4, LatestRequest DEF Tasks, RequestsOf
<1> HIDE DEF r
<1>6. CASE request[r].status # "reserved"
  BY <1>2, <1>3, <1>6, UnbilledKeeps DEF SettleRequest, Unbilled
<1>7. CASE request[r].status = "reserved" /\ (finished \/ measured)
  <2> DEFINE cost == IF measured THEN Actual ELSE Estimate
  <2>1. /\ run' = [run EXCEPT !.reserved = @ - Estimate, !.tokens = @ + cost]
        /\ request' = [request EXCEPT ![r].status = "settled"]
    BY <1>2, <1>7 DEF SettleRequest
  <2>2. cost \in Nat /\ Least <= cost /\ cost <= Most
    BY CostBounds
  <2> HIDE DEF cost
  <2>3. run'.reserved = run.reserved - Estimate /\ run'.tokens = run.tokens + cost
    BY <1>1, <2>1 DEF RunShape
  <2>4. {r} \in SUBSET Counted(request, Held)
    BY <1>5, <1>7 DEF Counted, Held
  <2>5. request' = Settling(request, {r})
    BY <1>1, <1>5, <2>1 DEF Settling
  <2>6. Cardinality({r}) = 1
    BY FS_Singleton
  <2>7. Estimate * Cardinality({r}) = Estimate /\ cost * Cardinality({r}) = cost
    BY <2>2, <2>6, CostBounds
  <2>8. UsageIsConserved'
    BY <1>1, <2>2, <2>3, <2>4, <2>5, <2>7, SettlingKeepsUsage
  <2>9. request' \in Seq(RequestRows) /\ Tasks'
    BY <1>1, <1>3, <2>4, <2>5, SettledRequestsStay
  <2> QED
    BY <2>8, <2>9 DEF BillInv
<1>8. CASE request[r].status = "reserved" /\ ~(finished \/ measured)
  <2>1. run' = run /\ request' = [request EXCEPT ![r].status = "uncertain"]
    BY <1>2, <1>8 DEF SettleRequest
  <2>2. /\ request' \in Seq(RequestRows) /\ DOMAIN request' = DOMAIN request
        /\ \A k \in DOMAIN request : /\ request'[k].attempt = request[k].attempt
                                     /\ k # r => request'[k] = request[k]
        /\ request'[r].status = "uncertain"
    <3> DEFINE row == [request[r] EXCEPT !.status = "uncertain"]
    <3>1. row \in RequestRows /\ row.attempt = request[r].attempt /\ row.status = "uncertain"
      <4>1. request[r] \in RequestRows
        BY <1>1, <1>5
      <4> QED
        BY <4>1 DEF RequestRows
    <3>2. request' = [request EXCEPT ![r] = row]
      BY <2>1
    <3> HIDE DEF row
    <3> QED
      BY <1>1, <1>5, <3>1, <3>2
  <2>3. \A S \in {Held, {"settled"}} : Counted(request', S) = Counted(request, S)
    BY <1>8, <2>2 DEF Counted, Held
  <2>4. UsageIsConserved'
    BY <1>1, <2>1, <2>3 DEF UsageIsConserved, Counted
  <2>5. \A b \in Attempts : RequestsOf(b)' = RequestsOf(b)
    BY <2>2 DEF RequestsOf
  <2>6. Tasks'
    BY <1>1, <1>3, <2>5 DEF Tasks, TasksGoOn
  <2> QED
    BY <2>2, <2>4, <2>6 DEF BillInv
<1> QED
  BY <1>6, <1>7, <1>8

LEMMA ReconcileKeepsBill ==
  ASSUME BillInv, IInv', NEW p \in Procs, Attempts' = Attempts, Reconcile(p)
  PROVE  BillInv'
<1>1. RunShape /\ request \in Seq(RequestRows) /\ Tasks /\ UsageIsConserved
  BY DEF BillInv, IInv, Shape
<1>2. TasksGoOn
  BY <1>1, TasksStay DEF Reconcile
<1>3. CASE UNCHANGED stored
  BY <1>1, <1>2, <1>3, RecordUnbilled, UnbilledKeeps
<1>4. CASE ~UNCHANGED stored
  <2>1. PICK a \in command[p].left :
          /\ request' = Settling(request, HeldBy(a))
          /\ run' = [Released("paused") EXCEPT
                       !.reserved = @ - Estimate * Cardinality(HeldBy(a)),
                       !.tokens = @ + Estimate * Cardinality(HeldBy(a))]
    BY <1>4 DEF Reconcile, Settling
  <2>2. HeldBy(a) \in SUBSET Counted(request, Held)
    BY DEF HeldBy, RequestsOf, Counted
  <2>3. /\ run'.reserved = run.reserved - Estimate * Cardinality(HeldBy(a))
        /\ run'.tokens = run.tokens + Estimate * Cardinality(HeldBy(a))
    <3> DEFINE R == Released("paused")
    <3>1. R.reserved = run.reserved /\ R.tokens = run.tokens /\ {"reserved", "tokens"} \subseteq DOMAIN R
      BY <1>1, RecordUnbilled DEF RunShape
    <3>2. run' = [R EXCEPT !.reserved = @ - Estimate * Cardinality(HeldBy(a)),
                           !.tokens = @ + Estimate * Cardinality(HeldBy(a))]
      BY <2>1
    <3> HIDE DEF R
    <3> QED
      BY <3>1, <3>2
  <2>4. UsageIsConserved'
    BY <1>1, <2>1, <2>2, <2>3, CostBounds, SettlingKeepsUsage
  <2>5. request' \in Seq(RequestRows) /\ Tasks'
    BY <1>1, <1>2, <2>1, <2>2, SettledRequestsStay
  <2> QED
    BY <2>4, <2>5 DEF BillInv
<1> QED
  BY <1>3, <1>4

(* The other steps of a job leave the requests alone.                          *)
LEMMA JobKeepsBill ==
  ASSUME BillInv, IInv', NEW a \in Attempts, Attempts' = Attempts, JobStep(a)
  PROVE  BillInv'
<1>1. RunShape /\ Tasks
  BY DEF BillInv, IInv, Shape
<1>2. CASE SendRequest(a)
  BY <1>2, SendKeepsBill
<1>3. CASE StreamEnds(a)
  BY <1>3, StreamKeepsBill
<1>4. CASE \/ Assemble(a) \/ ChildCompletes(a) \/ Repair(a)
           \/ AcceptReply(a) \/ RefuseReply(a) \/ JobBreaks(a)
  <2>1. \E at \in {"idle", "returned", "over"} : Becomes(a, at)
    BY <1>4 DEF Assemble, ChildCompletes, Repair, AcceptReply, RefuseReply, JobBreaks
  <2>2. \A at \in {"idle", "returned", "over"} : at \in Places /\ at # "streaming"
    BY DEF Places
  <2>3. TasksGoOn
    BY <1>1, <2>1, <2>2, TaskMoves
  <2>4. request' = request /\ (run' = run \/ run' = [run EXCEPT !.phase = "paused"])
    BY <1>4 DEF Assemble, ChildCompletes, Repair, AcceptReply, RefuseReply, JobBreaks
  <2>5. Unbilled
    BY <1>1, <2>4 DEF RunShape, Unbilled
  <2> QED
    BY <2>3, <2>5, UnbilledKeeps
<1> QED
  BY <1>2, <1>3, <1>4 DEF JobStep

LEMMA BillStep ==
  ASSUME BillInv, [Next]_vars
  PROVE  BillInv'
<1>1. IInv /\ IInv' /\ RunShape /\ Tasks
  BY StepPreserves DEF BillInv, IInv, Shape
<1>2. CASE UNCHANGED vars
  <2>1. UNCHANGED stored /\ task' = task
    BY <1>2 DEF vars, stored
  <2>2. TasksGoOn
    BY <1>1, <2>1, TasksStay DEF Attempts, stored
  <2> QED
    BY <1>1, <2>1, <2>2, RecordUnbilled, UnbilledKeeps
<1>3. CASE \E p \in Procs, n \in Nodes : Reserve(p, n)
  BY <1>1, <1>3, ReserveKeepsBill
<1>4. CASE Next /\ ~\E p \in Procs, n \in Nodes : Reserve(p, n)
  <2>1. Attempts' = Attempts
    BY <1>1, <1>4, OnlyReserveAdds
  <2>2. ASSUME NEW p \in Procs, DriverStep(p) PROVE BillInv'
    BY <1>1, <2>1, <2>2, DriverUnbilled, TasksStay, UnbilledKeeps
  <2>3. CASE \E a \in Attempts : JobStep(a)
    BY <1>1, <2>1, <2>3, JobKeepsBill
  <2>4. ASSUME NEW p \in Procs, Reconcile(p) PROVE BillInv'
    BY <1>1, <2>1, <2>4, ReconcileKeepsBill
  <2>5. ASSUME NEW p \in Procs,
               Around(p) \/ (CommandStep(p) /\ ~Reconcile(p))
        PROVE  BillInv'
    <3>1. Unbilled
      BY <1>1, <2>5, AroundUnbilled
    <3>2. CASE Crash(p)
      <4>1. task' = [a \in Attempts |-> IF attempt[a].proc = p THEN "over" ELSE task[a]]
        BY <3>2 DEF Crash
      <4>2. Attempts = 1..Len(attempt) /\ Len(attempt) \in Nat
        BY <1>1, AttemptFacts DEF IInv
      <4>3. \A a \in Attempts : task[a] \in Places
        BY <1>1 DEF Tasks
      <4>4. TasksGoOn
        BY <2>1, <4>1, <4>2, <4>3 DEF TasksGoOn, Places
      <4> QED
        BY <1>1, <3>1, <4>4, UnbilledKeeps
    <3>3. CASE ~Crash(p)
      <4>1. task' = task
        BY <2>5, <3>3
           DEF Around, Deadline, Kick, Stops, SaveInput, Resume, CommandStep, Pause, Paused,
               FinishForUser, ReadInputs, AddConstraint, KeepWork, LeaveInput, Abandon, Start
      <4> QED
        BY <1>1, <2>1, <3>1, <4>1, TasksStay, UnbilledKeeps
    <3> QED
      BY <3>2, <3>3
  <2>6. CASE \E p \in Procs : \/ DriverStep(p) \/ CommandStep(p) \/ Around(p)
    BY <2>2, <2>4, <2>5, <2>6
  <2>7. CASE Lapse \/ TimeIsUp \/ \E n \in Nodes : SourceChanges(n)
    <3>1. UNCHANGED <<request, task>> /\ Unbilled
      <4>1. UNCHANGED <<request, task>>
        BY <2>7 DEF Lapse, TimeIsUp, SourceChanges, stored
      <4>2. run' = run \/ run' = [run EXCEPT !.lease = FALSE] \/ run' = [run EXCEPT !.timeUp = TRUE]
        BY <2>7 DEF Lapse, TimeIsUp, SourceChanges, stored
      <4> QED
        BY <1>1, <4>1, <4>2 DEF RunShape, Unbilled
    <3> QED
      BY <1>1, <2>1, <3>1, TasksStay, UnbilledKeeps
  <2> QED
    BY <1>4, <2>3, <2>6, <2>7 DEF Next, Around
<1> QED
  BY <1>2, <1>3, <1>4

(* No token is lost or counted twice, however often the run changes hands,     *)
(* settles late or recovers a result (reserveRequest(), settleRequest(),       *)
(* reconcile()).                                                               *)
THEOREM UsageConserved == Spec => []UsageIsConserved
<1>1. Init => BillInv
  <2> SUFFICES ASSUME Init PROVE BillInv
    OBVIOUS
  <2>1. IInv
    BY InitHolds
  <2>2. request = << >> /\ task = << >> /\ attempt = << >> /\ run.reserved = 0 /\ run.tokens = 0
    BY DEF Init
  <2>3. Tasks /\ request \in Seq(RequestRows)
    BY <2>2 DEF Tasks, Attempts
  <2>4. \A S : Counted(request, S) = {}
    BY <2>2 DEF Counted
  <2>5. \A S : Billed(request, S) = 0
    BY <2>4, FS_EmptySet DEF Billed
  <2>6. Estimate * 0 = 0 /\ Least * 0 = 0 /\ Most * 0 = 0
    BY CostBounds
  <2>7. UsageIsConserved
    BY <2>2, <2>5, <2>6, UsageRestated
  <2> QED
    BY <2>1, <2>3, <2>7 DEF BillInv
<1>2. BillInv /\ [Next]_vars => BillInv'
  BY BillStep
<1>3. BillInv => UsageIsConserved
  BY DEF BillInv
<1> QED
  BY <1>1, <1>2, <1>3, PTL DEF Spec

-----------------------------------------------------------------------------
(* The problem graph.                                                          *)

(* A forest numbered from the root on: a prerequisite is a sibling.            *)
Tree ==
  \A m \in Ids :
    /\ parent[m] < m
    /\ m > count => status[m] = "absent" /\ parent[m] = NoNode /\ deps[m] = {}
    /\ \A d \in deps[m] : parent[d] = parent[m] /\ parent[m] # NoNode

(* No node waits for itself through prerequisites and children.                *)
Grounded ==
  \A S \in SUBSET Ids : S # {} =>
    \E i \in S : \A m \in S : m \notin deps[i] /\ parent[m] # i

(* Nothing current belongs to, or waits for, what was superseded.              *)
Lineage ==
  /\ Live(RootNode)
  /\ \A m \in Ids : Live(m) => /\ parent[m] # NoNode => Live(parent[m])
                               /\ \A d \in deps[m] : Live(d)

(* What a node's status says of those it waits for.                            *)
Stage(n) ==
  /\ n \in busy => status[n] \in Working /\ \A d \in deps[n] : status[d] = "accepted"
  /\ status[n] \in {"planning", "ready", "verifying-plan"} => Children(n) = {}
  /\ status[n] \in {"composing", "verifying"} => \A c \in Children(n) : status[c] = "accepted"
  /\ status[n] = "waiting-children" => Children(n) # {}
  /\ status[n] = "verifying-plan" => plan[n] \in Plans

GraphInv ==
  /\ GraphTypeOK
  /\ Tree
  /\ Grounded
  /\ Lineage
  /\ \A n \in Ids : Stage(n)
  /\ AcceptedRestsOnAccepted
----------------------------------------------------------------------------
(* The least closed sets of graph.ts: each contains what it starts from, is    *)
(* closed, and is contained in every closed set.                               *)

LEMMA Numbers ==
  /\ MaxNodes \in Nat /\ Ids = 1..MaxNodes /\ RootNode \in Ids /\ NoNode \notin Ids
  /\ \A m \in Ids : m \in Nat /\ m # NoNode
BY GraphAssumption DEF Ids, RootNode, NoNode

LEMMA StaleIsClosed ==
  ASSUME GraphTypeOK, NEW ids \in SUBSET Ids
  PROVE  ids \subseteq Stale(ids) /\ Stale(ids) \subseteq Ids /\ Invalid(Stale(ids))
<1>1. ids \subseteq Stale(ids) /\ Stale(ids) \subseteq Ids
  BY DEF Stale
<1>2. ASSUME NEW n \in Ids, n \in Stale(ids), parent[n] # NoNode, parent[n] \in Ids
      PROVE  parent[n] \in Stale(ids)
  BY <1>2 DEF Stale, Invalid
<1>3. ASSUME NEW n \in Ids, NEW d \in deps[n], d \in Stale(ids)
      PROVE  n \in Stale(ids)
  <2>1. SUFFICES ASSUME NEW S \in SUBSET Ids, ids \subseteq S, Invalid(S)
                 PROVE  n \in S
    BY DEF Stale
  <2>2. d \in S
    BY <1>3, <2>1 DEF Stale
  <2> QED
    BY <1>3, <2>1, <2>2 DEF Invalid
<1> QED
  BY <1>1, <1>2, <1>3 DEF Invalid, GraphTypeOK

LEMMA DescendantsAreClosed ==
  ASSUME NEW n \in Ids
  PROVE  /\ n \in Descendants(n) /\ Descendants(n) \subseteq Ids
         /\ \A c \in Ids : parent[c] \in Descendants(n) => c \in Descendants(n)
<1>1. n \in Descendants(n) /\ Descendants(n) \subseteq Ids
  BY DEF Descendants
<1>2. ASSUME NEW c \in Ids, parent[c] \in Descendants(n)
      PROVE  c \in Descendants(n)
  <2> SUFFICES ASSUME NEW S \in SUBSET Ids, n \in S,
                      \A b \in Ids : parent[b] \in S => b \in S
               PROVE  c \in S
    BY DEF Descendants
  <2>1. parent[c] \in S
    BY <1>2 DEF Descendants
  <2> QED
    BY <2>1
<1> QED
  BY <1>1, <1>2

LEMMA DescendantsAreLeast ==
  ASSUME NEW n \in Ids, NEW S \in SUBSET Ids, n \in S,
         \A c \in Ids : parent[c] \in S => c \in S
  PROVE  Descendants(n) \subseteq S
BY DEF Descendants

(* A proper descendant has its parent among the descendants; the node itself   *)
(* does not.                                                                   *)
LEMMA DescendantsDescend ==
  ASSUME Tree, NEW n \in Ids
  PROVE  /\ \A d \in Descendants(n) : d # n => parent[d] \in Descendants(n)
         /\ parent[n] \notin Descendants(n)
<1>1. \A d \in Descendants(n) : d # n => parent[d] \in Descendants(n)
  <2> DEFINE S == {m \in Descendants(n) : m = n \/ parent[m] \in Descendants(n)}
  <2>1. S \in SUBSET Ids /\ n \in S
    BY DescendantsAreClosed
  <2>2. \A c \in Ids : parent[c] \in S => c \in S
    BY DescendantsAreClosed
  <2> HIDE DEF S
  <2>3. Descendants(n) \subseteq S
    BY <2>1, <2>2, DescendantsAreLeast
  <2> QED
    BY <2>3 DEF S
<1>2. parent[n] \notin Descendants(n)
  <2> DEFINE S == {m \in Ids : n <= m}
  <2>1. S \in SUBSET Ids /\ n \in S /\ \A m \in S : m \in Ids /\ m \in Nat /\ n <= m
    BY Numbers
  <2>2. \A c \in Ids : parent[c] \in S => c \in S
    BY Numbers DEF Tree
  <2> HIDE DEF S
  <2>3. Descendants(n) \subseteq S
    BY <2>1, <2>2, DescendantsAreLeast
  <2>4. ASSUME parent[n] \in S PROVE FALSE
    <3>1. n \in Nat /\ parent[n] \in Nat /\ n <= parent[n]
      BY <2>1, <2>4, Numbers
    <3>2. parent[n] < n
      BY DEF Tree
    <3> QED
      BY <3>1, <3>2
  <2> QED
    BY <2>3, <2>4
<1> QED
  BY <1>1, <1>2

LEMMA DoomedIsClosed ==
  /\ Doomed \subseteq Ids
  /\ \A n \in Ids : status[n] = "unresolved" => n \in Doomed
  /\ \A n \in Ids : Settleable(n) /\ Needs(n) \intersect Doomed # {} => n \in Doomed
<1>1. Doomed \subseteq Ids /\ \A n \in Ids : status[n] = "unresolved" => n \in Doomed
  BY DEF Doomed
<1>2. ASSUME NEW n \in Ids, Settleable(n), NEW d \in Needs(n), d \in Doomed
      PROVE  n \in Doomed
  <2> SUFFICES ASSUME NEW S \in SUBSET Ids,
                      \A m \in Ids : status[m] = "unresolved" => m \in S,
                      \A m \in Ids : Settleable(m) /\ Needs(m) \intersect S # {} => m \in S
               PROVE  n \in S
    BY DEF Doomed
  <2>1. d \in S
    BY <1>2 DEF Doomed
  <2> QED
    BY <1>2, <2>1
<1> QED
  BY <1>1, <1>2

LEMMA DoomedIsLeast ==
  \A n \in Doomed : status[n] = "unresolved" \/ Settleable(n)
<1> DEFINE S == {n \in Ids : status[n] = "unresolved" \/ Settleable(n)}
<1>1. /\ S \in SUBSET Ids
      /\ \A m \in Ids : status[m] = "unresolved" => m \in S
      /\ \A m \in Ids : Settleable(m) /\ Needs(m) \intersect S # {} => m \in S
  OBVIOUS
<1>2. Doomed \subseteq S
  <2> HIDE DEF S
  <2> QED
    BY <1>1 DEF Doomed
<1> QED
  BY <1>2

----------------------------------------------------------------------------
(* What the invariant says when the numbering does not change.                 *)

LEMMA ShapeKept ==
  ASSUME Tree, Grounded, UNCHANGED shape,
         \A m \in Ids : m > count => status'[m] = status[m]
  PROVE  Tree' /\ Grounded'
<1>1. Tree'
  BY DEF Tree, shape
<1>2. Grounded'
  BY DEF Grounded, shape
<1> QED
  BY <1>1, <1>2

(* A node with a status beyond count would be absent.                          *)
LEMMA Current ==
  ASSUME GraphTypeOK, Tree, NEW m \in Ids, Live(m)
  PROVE  m <= count
<1>1. count \in Nat /\ m \in Nat
  BY Numbers DEF GraphTypeOK
<1> QED
  BY <1>1 DEF Tree, Live

(* A reply, or what stands for one, moves a node that was worked on; plans of  *)
(* other nodes stay.                                                           *)
LEMMA BecomesPreserves ==
  ASSUME GraphInv, NEW n \in Ids, n \in busy,
         NEW st \in Statuses \ {"absent", "superseded", "waiting-children"},
         NodeBecomes(n, st), UNCHANGED shape,
         replans' \in [Ids -> Nat], changes' \in Nat,
         plan' \in [Ids -> Plans \union {<< >>}],
         \A m \in Ids \ {n} : plan'[m] = plan[m],
         st = "accepted" => status[n] = "verifying",
         st \in {"planning", "ready", "verifying-plan"} => Children(n) = {},
         st \in {"composing", "verifying"} => \A c \in Children(n) : status[c] = "accepted",
         st = "verifying-plan" => plan'[n] \in Plans
  PROVE  GraphInv'
<1>1. /\ GraphTypeOK /\ Tree /\ Grounded /\ Lineage /\ AcceptedRestsOnAccepted
      /\ \A m \in Ids : Stage(m)
      /\ status \in [Ids -> Statuses]
  BY DEF GraphInv, GraphTypeOK
<1>2. status[n] \in Working /\ \A d \in deps[n] : status[d] = "accepted"
  BY <1>1 DEF Stage
<1>3. /\ status' = [status EXCEPT ![n] = st] /\ busy' = busy \ {n}
      /\ status'[n] = st /\ \A m \in Ids \ {n} : status'[m] = status[m]
  BY <1>1 DEF NodeBecomes
<1>4. \A m \in Ids : Live(m)' <=> Live(m)
  BY <1>2, <1>3 DEF Live, Working
<1>5. \A m \in Ids : Children(m)' = Children(m) /\ Needs(m)' = Needs(m)
  BY <1>4 DEF Children, Needs, shape
<1>6. \A m \in Ids : Children(m) \subseteq Ids /\ deps[m] \subseteq Ids
  BY <1>1 DEF Children, GraphTypeOK
<1>7. GraphTypeOK'
  <2>1. status' \in [Ids -> Statuses]
    BY <1>1, <1>3
  <2> QED
    BY <1>1, <1>3, <2>1 DEF GraphTypeOK, shape
<1>8. Tree' /\ Grounded'
  <2>1. n <= count /\ count \in Nat /\ n \in Nat
    BY <1>1, <1>2, Current, Numbers DEF Live, Working, GraphTypeOK
  <2>2. \A m \in Ids : m > count => m # n
    BY <2>1
  <2> QED
    BY <1>1, <1>3, <2>2, ShapeKept
<1>9. Lineage'
  BY <1>1, <1>4, <1>6, Numbers DEF Lineage, shape, GraphTypeOK
<1>10. ASSUME NEW m \in Ids PROVE Stage(m)'
  <2>1. \A d \in deps[m] \union Children(m) : status[d] = "accepted" => status'[d] = "accepted"
    BY <1>2, <1>3, <1>6 DEF Working
  <2>2. deps' = deps /\ Children(m)' = Children(m)
    BY <1>5 DEF shape
  <2>3. CASE m = n
    BY <1>3, <2>1, <2>2, <2>3 DEF Stage
  <2>4. CASE m # n
    BY <1>1, <1>3, <2>1, <2>2, <2>4 DEF Stage
  <2> QED
    BY <2>3, <2>4
<1>11. AcceptedRestsOnAccepted'
  <2> SUFFICES ASSUME NEW m \in Ids, status'[m] = "accepted", NEW d \in Needs(m)
               PROVE  status'[d] = "accepted"
    BY <1>5 DEF AcceptedRestsOnAccepted
  <2>1. d \in Ids
    BY <1>6 DEF Needs
  <2>2. status[d] = "accepted"
    BY <1>1, <1>2, <1>3 DEF AcceptedRestsOnAccepted, Stage, Needs
  <2> QED
    BY <1>2, <1>3, <2>1, <2>2 DEF Working
<1> QED
  BY <1>7, <1>8, <1>9, <1>10, <1>11 DEF GraphInv

(* invalidateNodes() reopens whoever rests on what it withdraws.               *)
LEMMA InvalidatePreserves ==
  ASSUME GraphInv, NEW ids \in SUBSET Ids, Invalidate(ids),
         UNCHANGED <<shape, replans, plan>>, changes' \in Nat
  PROVE  GraphInv'
<1> DEFINE G == {m \in Ids : m \in Stale(ids) /\ Live(m)}
<1>1. /\ GraphTypeOK /\ Tree /\ Grounded /\ Lineage /\ AcceptedRestsOnAccepted
      /\ \A m \in Ids : Stage(m)
      /\ status \in [Ids -> Statuses]
      /\ busy \subseteq Ids
  BY DEF GraphInv, GraphTypeOK
<1>2. /\ \A m \in Ids : status'[m] = IF m \in G THEN Reopened(m) ELSE status[m]
      /\ status' = [m \in Ids |-> IF m \in G THEN Reopened(m) ELSE status[m]]
      /\ busy' = {m \in busy : m \notin G}
  BY <1>1 DEF Invalidate
<1>3. \A m \in Ids : Reopened(m) \in {"planning", "waiting-children"}
  BY DEF Reopened
<1>4. \A m \in Ids : m \in G => Live(m)
  OBVIOUS
(* Whoever needs a withdrawn node is withdrawn with it.                        *)
<1>5. ASSUME NEW m \in Ids, NEW d \in Needs(m), d \in G
      PROVE  Live(m) => m \in G
  <2>1. Invalid(Stale(ids))
    BY <1>1, StaleIsClosed
  <2>2. CASE d \in deps[m]
    BY <1>5, <2>1, <2>2 DEF Invalid
  <2>3. CASE d \in Children(m)
    BY <1>5, <2>1, <2>3, Numbers DEF Invalid, Children
  <2> QED
    BY <1>5, <2>2, <2>3 DEF Needs
<1> HIDE DEF G
<1>6. \A m \in Ids : Live(m)' <=> Live(m)
  BY <1>2, <1>3, <1>4 DEF Live
<1>7. \A m \in Ids : Children(m)' = Children(m) /\ Needs(m)' = Needs(m)
  BY <1>6 DEF Children, Needs, shape
<1>8. \A m \in Ids : Children(m) \subseteq Ids /\ deps[m] \subseteq Ids
  BY <1>1 DEF Children, GraphTypeOK
<1>9. GraphTypeOK'
  <2>1. status' \in [Ids -> Statuses]
    BY <1>1, <1>2, <1>3 DEF Statuses, Working
  <2> QED
    BY <1>1, <1>2, <2>1 DEF GraphTypeOK, shape
<1>10. Tree' /\ Grounded'
  <2>1. \A m \in Ids : m > count => ~Live(m)
    BY <1>1 DEF Tree, Live
  <2> QED
    BY <1>1, <1>2, <1>4, <2>1, ShapeKept
<1>11. Lineage'
  BY <1>1, <1>6, <1>8, Numbers DEF Lineage, shape, GraphTypeOK
<1>12. ASSUME NEW m \in Ids PROVE Stage(m)'
  <2>1. deps' = deps /\ Children(m)' = Children(m) /\ plan' = plan
    BY <1>7 DEF shape
  <2>2. CASE m \in G
    BY <1>2, <1>3, <2>1, <2>2 DEF Stage, Reopened, Working
  <2>3. CASE m \notin G
    <3>1. status'[m] = status[m] /\ (m \in busy' => m \in busy)
      BY <1>2, <2>3
    <3>2. \A d \in Needs(m) : Live(m) /\ status[d] = "accepted" => status'[d] = "accepted"
      BY <1>2, <1>5, <1>8, <2>3 DEF Needs
    <3>3. status[m] \in Working => Live(m)
      BY DEF Live, Working
    <3>4. Stage(m)
      BY <1>1
    <3>5. status[m] \in {"composing", "verifying"} => status[m] \in Working
      BY DEF Working
    <3> QED
      BY <2>1, <3>1, <3>2, <3>3, <3>4, <3>5 DEF Stage, Needs
  <2> QED
    BY <2>2, <2>3
<1>13. AcceptedRestsOnAccepted'
  <2> SUFFICES ASSUME NEW m \in Ids, status'[m] = "accepted", NEW d \in Needs(m)
               PROVE  status'[d] = "accepted"
    BY <1>7 DEF AcceptedRestsOnAccepted
  <2>1. d \in Ids
    BY <1>8 DEF Needs
  <2>2. m \notin G /\ status[m] = "accepted"
    BY <1>2, <1>3
  <2>3. Live(m) /\ status[d] = "accepted"
    BY <1>1, <2>2 DEF AcceptedRestsOnAccepted, Live
  <2> QED
    BY <1>2, <1>5, <2>1, <2>2, <2>3
<1> QED
  BY <1>9, <1>10, <1>11, <1>12, <1>13 DEF GraphInv

(* Below a node that is replanned there is only what was accepted, or was      *)
(* superseded already.                                                         *)
LEMMA BelowIsAtRest ==
  ASSUME GraphInv, NEW n \in Ids, status[n] \in {"ready", "verifying-plan", "verifying"}
  PROVE  \A d \in Descendants(n) : d # n => status[d] = "accepted" \/ ~Live(d)
<1> DEFINE S == {m \in Ids : m = n \/ status[m] = "accepted" \/ ~Live(m)}
<1>1. S \in SUBSET Ids /\ n \in S
  OBVIOUS
<1>2. ASSUME NEW c \in Ids, parent[c] \in S PROVE c \in S
  <2>1. CASE ~Live(c)
    BY <2>1
  <2>2. CASE Live(c) /\ parent[c] = n
    <3>1. c \in Children(n) /\ Stage(n)
      BY <2>2 DEF Children, GraphInv
    <3> QED
      BY <3>1 DEF Stage
  <2>3. CASE Live(c) /\ status[parent[c]] = "accepted"
    <3>1. c \in Children(parent[c])
      BY <2>3 DEF Children
    <3> QED
      BY <1>2, <2>3, <3>1 DEF GraphInv, AcceptedRestsOnAccepted, Needs
  <2>4. CASE Live(c) /\ ~Live(parent[c])
    BY <1>2, <2>4, Numbers DEF GraphInv, Lineage
  <2> QED
    BY <1>2, <2>1, <2>2, <2>3, <2>4
<1> HIDE DEF S
<1>3. Descendants(n) \subseteq S
  BY <1>1, <1>2, DescendantsAreLeast
<1> QED
  BY <1>3 DEF S

(* replan() with replans left.                                                 *)
LEMMA ReplanPreserves ==
  ASSUME GraphInv, NEW n \in Ids, n \in busy,
         status[n] \in {"ready", "verifying-plan", "verifying"}, Replan(n)
  PROVE  GraphInv'
<1>0. /\ GraphTypeOK /\ Tree /\ Grounded /\ Lineage /\ AcceptedRestsOnAccepted
      /\ \A m \in Ids : Stage(m)
      /\ status \in [Ids -> Statuses] /\ replans \in [Ids -> Nat] /\ changes \in Nat
      /\ plan \in [Ids -> Plans \union {<< >>}] /\ busy \subseteq Ids
  BY DEF GraphInv, GraphTypeOK
<1>1. CASE NodeBecomes(n, "unresolved") /\ UNCHANGED <<shape, replans, plan, changes>>
  <2>1. "unresolved" \in Statuses \ {"absent", "superseded", "waiting-children"}
    BY DEF Statuses, Working
  <2> QED
    BY <1>0, <1>1, <2>1, BecomesPreserves
<1>2. CASE /\ status' = [m \in Ids |-> IF m = n THEN "planning"
                                       ELSE IF m \in Descendants(n) THEN "superseded" ELSE status[m]]
           /\ busy' = busy \ {n}
           /\ replans' = [replans EXCEPT ![n] = @ + 1]
           /\ plan' = [plan EXCEPT ![n] = << >>]
           /\ UNCHANGED <<shape, changes>>
  <2> DEFINE D == {m \in Ids : m \in Descendants(n) /\ m # n}
  <2>1. /\ \A m \in Ids : status'[m] = IF m = n THEN "planning"
                                       ELSE IF m \in D THEN "superseded" ELSE status[m]
        /\ n \notin D
    BY <1>2
  <2>2. /\ \A c \in Ids : parent[c] = n \/ parent[c] \in D => c \in D
        /\ \A d \in D : parent[d] \in D \union {n}
        /\ parent[n] \notin D \union {n}
    BY <1>0, DescendantsAreClosed, DescendantsDescend
  <2>3. \A d \in D : status[d] = "accepted" \/ ~Live(d)
    BY BelowIsAtRest
  <2> HIDE DEF D
  <2>4. /\ \A m \in Ids : Live(m)' <=> Live(m) /\ m \notin D
        /\ status[n] \in Working /\ Live(n) /\ Live(n)'
    BY <2>1 DEF Live, Working
  <2>5. \A m \in Ids : /\ m = n => Children(m)' = {}
                       /\ m \notin D \union {n} => Children(m)' = Children(m)
                       /\ Children(m)' \subseteq Children(m)
    <3>1. \A m \in Ids : m = n => Children(m)' = {}
      BY <1>2, <2>2, <2>4 DEF Children, shape
    <3>2. \A m \in Ids : m \notin D \union {n} => Children(m)' = Children(m)
      BY <1>2, <2>2, <2>4 DEF Children, shape
    <3>3. \A m \in Ids : Children(m)' \subseteq Children(m)
      BY <1>2, <2>4 DEF Children, shape
    <3> QED
      BY <3>1, <3>2, <3>3
  <2>6. \A m \in Ids : Children(m) \subseteq Ids /\ deps[m] \subseteq Ids
    BY <1>0 DEF Children, GraphTypeOK
  <2>7. ASSUME NEW m \in Ids, m \notin D, NEW d \in deps[m] PROVE d \notin D
    (* siblings are superseded together                                        *)
    <3>1. parent[d] = parent[m]
      BY <1>0 DEF Tree
    <3>2. m # n => parent[m] \notin D \union {n}
      BY <2>2, <2>7
    <3> QED
      BY <2>2, <2>6, <3>1, <3>2
  <2>8. GraphTypeOK'
    <3>1. status' \in [Ids -> Statuses]
      BY <1>0, <1>2 DEF Statuses, Working
    <3> QED
      BY <1>0, <1>2, <3>1 DEF GraphTypeOK, shape
  <2>9. Tree'
    <3>1. \A d \in D : d \in Ids /\ parent[d] # NoNode
      BY <2>1, <2>2, Numbers DEF D
    <3>2. \A m \in Ids : m > count => m # n /\ m \notin D
      BY <1>0, <2>4, <3>1 DEF Tree, Live
    <3> QED
      BY <1>0, <1>2, <2>1, <3>2, ShapeKept
  <2>10. Grounded'
    BY <1>0, <1>2 DEF Grounded, shape
  <2>11. Lineage'
    <3>1. Live(RootNode)'
      <4>1. parent[RootNode] = NoNode
        BY <1>0, Numbers DEF Tree, RootNode, NoNode, GraphTypeOK
      <4>2. RootNode \notin D
        BY <2>2, <4>1, Numbers DEF D
      <4> QED
        BY <1>0, <2>4, <4>2, Numbers DEF Lineage
    <3>2. ASSUME NEW m \in Ids, Live(m)', parent[m] # NoNode PROVE Live(parent[m])'
      <4>1. Live(m) /\ m \notin D /\ parent[m] \in Ids
        BY <1>0, <2>4, <3>2 DEF GraphTypeOK
      <4>2. parent[m] \notin D
        BY <2>2, <4>1
      <4> QED
        BY <1>0, <1>2, <2>4, <3>2, <4>1, <4>2 DEF Lineage, shape
    <3>3. ASSUME NEW m \in Ids, Live(m)', NEW d \in deps[m] PROVE Live(d)'
      BY <1>0, <2>4, <2>6, <2>7, <3>3 DEF Lineage
    <3> QED
      BY <1>2, <3>1, <3>2, <3>3 DEF Lineage, shape
  <2>12. ASSUME NEW m \in Ids PROVE Stage(m)'
    <3>1. deps' = deps /\ Stage(m)
      BY <1>0, <1>2 DEF shape
    <3>2. CASE m = n
      <4>1. status'[m] = "planning" /\ m \notin busy' /\ Children(m)' = {}
        BY <1>2, <2>1, <2>5, <3>2
      <4> QED
        BY <4>1 DEF Stage
    <3>3. CASE m \in D
      <4>1. status'[m] = "superseded"
        BY <2>1, <3>3
      <4>2. m \notin busy
        BY <1>0, <2>3, <3>1, <3>3 DEF Stage, Live, Working
      <4> QED
        BY <1>2, <4>1, <4>2 DEF Stage
    <3>4. CASE m \notin D \union {n}
      <4>1. status'[m] = status[m] /\ (m \in busy' => m \in busy) /\ plan'[m] = plan[m]
            /\ Children(m)' = Children(m)
        BY <1>0, <1>2, <2>1, <2>5, <3>4
      <4>2. \A d \in deps[m] : status[d] = "accepted" => status'[d] = "accepted"
        BY <2>1, <2>4, <2>6, <2>7, <3>4 DEF Working
      <4>3. \A c \in Children(m) : status[c] = "accepted" => status'[c] = "accepted"
        <5>1. \A c \in Children(m) : c \notin D
          BY <2>2, <3>4 DEF Children
        <5> QED
          BY <2>1, <2>4, <2>6, <5>1 DEF Working
      <4> QED
        BY <3>1, <4>1, <4>2, <4>3 DEF Stage
    <3> QED
      BY <3>2, <3>3, <3>4
  <2>13. AcceptedRestsOnAccepted'
    <3> SUFFICES ASSUME NEW m \in Ids, status'[m] = "accepted", NEW d \in Needs(m)'
                 PROVE  status'[d] = "accepted"
      BY DEF AcceptedRestsOnAccepted
    <3>1. m \notin D \union {n} /\ status[m] = "accepted"
      BY <2>1
    <3>2. d \in Needs(m) /\ d \in Ids
      BY <1>2, <2>5, <2>6, <3>1 DEF Needs, shape
    <3>3. status[d] = "accepted"
      BY <1>0, <3>1, <3>2 DEF AcceptedRestsOnAccepted
    <3>4. d \notin D
      BY <2>2, <2>7, <3>1, <3>2 DEF Needs, Children
    <3> QED
      BY <2>1, <2>4, <3>2, <3>3, <3>4 DEF Working
  <2> QED
    BY <2>8, <2>9, <2>10, <2>11, <2>12, <2>13 DEF GraphInv
<1> QED
  BY <1>1, <1>2 DEF Replan

(* A supported plan is appended: the new nodes wait for each other without a   *)
(* cycle, and the old ones for none of them.                                   *)
LEMMA ExpandPreserves ==
  ASSUME GraphInv, NEW n \in Ids, n \in busy, NEW p \in Plans,
         ValidDecomposition(n, p), Expand(n, p)
  PROVE  GraphInv'
<1> DEFINE k == Len(p)
           new == (count + 1)..(count + k)
<1>0. /\ GraphTypeOK /\ Tree /\ Grounded /\ Lineage /\ AcceptedRestsOnAccepted
      /\ \A m \in Ids : Stage(m)
      /\ count \in Ids /\ count \in Nat
      /\ status \in [Ids -> Statuses] /\ parent \in [Ids -> Ids \union {NoNode}]
      /\ deps \in [Ids -> SUBSET Ids] /\ depth \in [Ids -> Nat]
  BY Numbers DEF GraphInv, GraphTypeOK
<1>1. /\ p \in Seq(SUBSET Nat) /\ k \in Nat /\ k # 0 /\ DOMAIN p = 1..k
      /\ \A i \in 1..k : p[i] \subseteq 1..k
  <2>1. p \in Seq(SUBSET Nat) /\ p # << >> /\ \A i \in DOMAIN p : p[i] \subseteq DOMAIN p
    BY GraphAssumption
  <2> QED
    BY <2>1
<1>2. count + k <= MaxNodes /\ Acyclic(p)
  BY DEF ValidDecomposition
<1>3. status[n] \in Working /\ Live(n) /\ n <= count
  <2>1. status[n] \in Working /\ Live(n)
    BY <1>0 DEF Stage, Live, Working
  <2> QED
    BY <1>0, <2>1, Current
<1>4. /\ new \subseteq Ids /\ n \notin new
      /\ \A m \in Ids : m \in new => m > count /\ m - count \in 1..k
      /\ \A m \in Ids : m > count + k => m > count /\ m \notin new
      /\ \A m \in Ids : m \notin new => m <= count \/ m > count + k
      /\ count + 1 \in new
  <2>1. Ids = 1..MaxNodes /\ MaxNodes \in Nat /\ n \in Nat /\ \A m \in Ids : m \in Nat
    BY Numbers
  <2> HIDE DEF k
  <2>2. new \subseteq Ids /\ n \notin new /\ count + 1 \in new
    BY <1>0, <1>1, <1>2, <1>3, <2>1
  <2>3. \A m \in Ids : m \in new => m > count /\ m - count \in 1..k
    BY <1>0, <1>1, <2>1
  <2>4. \A m \in Ids : m > count + k => m > count /\ m \notin new
    BY <1>0, <1>1, <2>1
  <2>5. \A m \in Ids : m \notin new => m <= count \/ m > count + k
    BY <1>0, <1>1, <2>1
  <2> QED
    BY <2>2, <2>3, <2>4, <2>5
<1>5. /\ count' = count + k
      /\ \A m \in Ids : status'[m] = IF m = n THEN "waiting-children"
                                     ELSE IF m \in new THEN "planning" ELSE status[m]
      /\ \A m \in Ids : parent'[m] = IF m \in new THEN n ELSE parent[m]
      /\ \A m \in Ids : deps'[m] = IF m \in new THEN {count + i : i \in p[m - count]} ELSE deps[m]
      /\ busy' = busy \ {n} /\ plan' = plan
  BY DEF Expand
<1>6. \A m \in new : deps'[m] \subseteq new
  <2> SUFFICES ASSUME NEW m \in new, NEW d \in deps'[m] PROVE d \in new
    OBVIOUS
  <2>1. m \in Ids /\ m - count \in 1..k
    BY <1>4
  <2>2. PICK i \in p[m - count] : d = count + i
    <3>1. deps'[m] = {count + i : i \in p[m - count]}
      BY <1>5, <2>1
    <3> QED
      BY <3>1
  <2>3. i \in 1..k
    BY <1>1, <2>1, <2>2
  <2> QED
    BY <1>0, <1>1, <2>2, <2>3
<1>7. \A m \in Ids : m > count => status[m] = "absent" /\ ~Live(m) /\ parent[m] = NoNode /\ deps[m] = {}
  BY <1>0 DEF Tree, Live
<1>8. \A m \in Ids : m \in new => m \notin busy
  BY <1>0, <1>4, <1>7 DEF Stage, Working
(* Old nodes neither belong to nor wait for new ones.                          *)
<1>9. \A m \in Ids : m \notin new => parent[m] \notin new /\ deps[m] \intersect new = {}
  <2> SUFFICES ASSUME NEW m \in Ids, m \notin new
               PROVE  parent[m] \notin new /\ deps[m] \intersect new = {}
    OBVIOUS
  <2>1. parent[m] \notin new
    <3>1. parent[m] < m /\ (m > count => parent[m] = NoNode)
      BY <1>0 DEF Tree
    <3> QED
      BY <1>0, <1>1, <1>4, <3>1, Numbers DEF NoNode
  <2>2. \A d \in deps[m] : d \notin new
    BY <1>0, <1>4, <1>7 DEF Tree
  <2> QED
    BY <2>1, <2>2
<1> HIDE DEF new, k
<1>10. /\ \A m \in Ids : Live(m)' <=> Live(m) \/ m \in new
       /\ Live(n)'
  BY <1>3, <1>5, <1>7, <1>4 DEF Live, Working
<1>11. /\ Children(n)' = Children(n) \union new
       /\ \A m \in Ids : m \in new => Children(m)' = {}
       /\ \A m \in Ids : m \notin new \union {n} => Children(m)' = Children(m)
  <2>1. Children(n)' = Children(n) \union new
    BY <1>3, <1>4, <1>5, <1>7, <1>10 DEF Children
  <2>2. \A m \in Ids : m \in new => Children(m)' = {}
    BY <1>4, <1>5, <1>9 DEF Children
  <2>3. \A m \in Ids : m \notin new \union {n} => Children(m)' = Children(m)
    BY <1>4, <1>5, <1>7, <1>10 DEF Children
  <2> QED
    BY <2>1, <2>2, <2>3
<1>12. GraphTypeOK'
  <2>1. count' \in Ids
    BY <1>0, <1>1, <1>2, <1>5, Numbers
  <2>2. status' \in [Ids -> Statuses]
    BY <1>0 DEF Expand, Statuses, Working
  <2>3. parent' \in [Ids -> Ids \union {NoNode}]
    BY <1>0 DEF Expand
  <2>4. deps' \in [Ids -> SUBSET Ids]
    <3>1. \A m \in Ids : deps'[m] \subseteq Ids
      BY <1>0, <1>4, <1>5, <1>6
    <3>2. deps' = [m \in Ids |-> deps'[m]]
      BY DEF Expand
    <3> QED
      BY <3>1, <3>2
  <2>5. depth' \in [Ids -> Nat]
    BY <1>0 DEF Expand
  <2> QED
    BY <1>0, <2>1, <2>2, <2>3, <2>4, <2>5 DEF Expand, GraphTypeOK
<1>13. Tree'
  <2> SUFFICES ASSUME NEW m \in Ids
               PROVE  /\ parent'[m] < m
                      /\ m > count' => status'[m] = "absent" /\ parent'[m] = NoNode /\ deps'[m] = {}
                      /\ \A d \in deps'[m] : parent'[d] = parent'[m] /\ parent'[m] # NoNode
    BY DEF Tree
  <2>1. CASE m \in new
    <3>1. parent'[m] = n /\ n < m /\ n # NoNode
      BY <1>0, <1>3, <1>4, <1>5, <2>1, Numbers
    <3>2. ~(m > count')
      BY <1>0, <1>1, <1>4, <1>5, <2>1, Numbers
    <3>3. \A d \in deps'[m] : parent'[d] = n
      BY <1>4, <1>5, <1>6, <2>1
    <3> QED
      BY <3>1, <3>2, <3>3
  <2>2. CASE m \notin new
    <3>1. parent'[m] = parent[m] /\ deps'[m] = deps[m] /\ (m # n => status'[m] = status[m])
      BY <1>5, <2>2
    <3>2. m > count' => m > count /\ m # n
      BY <1>0, <1>1, <1>3, <1>5, Numbers
    <3>3. \A d \in deps[m] : d \in Ids /\ parent'[d] = parent[d]
      BY <1>0, <1>5, <1>9, <2>2
    <3> QED
      BY <1>0, <3>1, <3>2, <3>3 DEF Tree
  <2> QED
    BY <2>1, <2>2
<1>14. Grounded'
  <2> SUFFICES ASSUME NEW S \in SUBSET Ids, S # {}
               PROVE  \E i \in S : \A m \in S : m \notin deps'[i] /\ parent'[m] # i
    BY DEF Grounded
  <2>1. CASE S \intersect new = {}
    <3>1. PICK i \in S : \A m \in S : m \notin deps[i] /\ parent[m] # i
      BY <1>0 DEF Grounded
    <3>2. \A m \in S : m \in Ids /\ m \notin new
      BY <2>1
    <3> QED
      BY <1>5, <3>1, <3>2
  <2>2. CASE S \intersect new # {}
    <3> DEFINE T == {i \in 1..k : count + i \in S}
    <3>1. T \in SUBSET (DOMAIN p) /\ T # {}
      <4>1. PICK m \in S : m \in new
        BY <2>2
      <4>2. m - count \in 1..k /\ count + (m - count) = m
        BY <1>0, <1>4, <4>1, Numbers
      <4> QED
        BY <1>1, <4>1, <4>2
    <3>2. PICK i \in T : p[i] \intersect T = {}
      BY <1>2, <3>1 DEF Acyclic
    <3>3. /\ i \in 1..k /\ count + i \in S /\ count + i \in new /\ count + i \in Ids
          /\ (count + i) - count = i
      BY <1>0, <1>1, <1>4, <3>2 DEF new, k
    <3>4. ASSUME NEW m \in S, m \in deps'[count + i] PROVE FALSE
      <4>1. PICK j \in p[i] : m = count + j
        <5>1. deps'[count + i] = {count + j : j \in p[(count + i) - count]}
          BY <1>5, <3>3
        <5>2. deps'[count + i] = {count + j : j \in p[i]}
          BY <3>3, <5>1
        <5> QED
          BY <3>4, <5>2
      <4>2. j \in 1..k
        BY <1>1, <3>3, <4>1
      <4> QED
        BY <3>2, <4>1, <4>2
    <3>5. ASSUME NEW m \in S, parent'[m] = count + i PROVE FALSE
      BY <1>4, <1>5, <1>9, <3>3, <3>5
    <3> QED
      BY <3>3, <3>4, <3>5
  <2> QED
    BY <2>1, <2>2
<1>15. Lineage'
  <2>1. Live(RootNode)'
    BY <1>0, <1>10, Numbers DEF Lineage
  <2>2. ASSUME NEW m \in Ids, Live(m)'
        PROVE  /\ parent'[m] # NoNode => Live(parent[m])' \/ m \in new
               /\ \A d \in deps'[m] : Live(d)'
    <3>1. CASE m \in new
      BY <1>4, <1>6, <1>10, <3>1
    <3>2. CASE m \notin new
      <4>1. Live(m) /\ parent'[m] = parent[m] /\ deps'[m] = deps[m]
        BY <1>5, <1>10, <2>2, <3>2
      <4>2. parent[m] \in Ids \union {NoNode} /\ deps[m] \subseteq Ids
        BY <1>0
      <4> QED
        BY <1>0, <1>10, <4>1, <4>2 DEF Lineage, Live
    <3> QED
      BY <3>1, <3>2
  <2>3. ASSUME NEW m \in Ids, Live(m)', parent'[m] # NoNode PROVE Live(parent[m])'
    <3>1. CASE m \in new
      BY <1>5, <1>10, <3>1
    <3>2. CASE m \notin new
      BY <2>2, <2>3, <3>2
    <3> QED
      BY <3>1, <3>2
  <2> QED
    BY <2>1, <2>2, <2>3 DEF Lineage
<1>16. ASSUME NEW m \in Ids PROVE Stage(m)'
  <2>1. CASE m = n
    <3>1. status'[m] = "waiting-children" /\ m \notin busy' /\ Children(m)' # {}
      BY <1>4, <1>5, <1>11, <2>1
    <3> QED
      BY <3>1 DEF Stage
  <2>2. CASE m \in new
    <3>1. status'[m] = "planning" /\ m \notin busy' /\ Children(m)' = {}
      BY <1>4, <1>5, <1>8, <1>11, <2>2
    <3> QED
      BY <3>1 DEF Stage
  <2>3. CASE m \notin new \union {n}
    <3>1. status'[m] = status[m] /\ (m \in busy' => m \in busy) /\ Children(m)' = Children(m)
          /\ deps'[m] = deps[m] /\ plan' = plan
      BY <1>5, <1>11, <2>3
    <3>2. \A d \in Ids : status[d] = "accepted" => status'[d] = "accepted"
      BY <1>3, <1>4, <1>5, <1>7 DEF Working
    <3>3. deps[m] \subseteq Ids /\ Children(m) \subseteq Ids /\ Stage(m)
      BY <1>0 DEF Children
    <3> QED
      BY <3>1, <3>2, <3>3 DEF Stage
  <2> QED
    BY <2>1, <2>2, <2>3
<1>17. AcceptedRestsOnAccepted'
  <2> SUFFICES ASSUME NEW m \in Ids, status'[m] = "accepted", NEW d \in Needs(m)'
               PROVE  status'[d] = "accepted"
    BY DEF AcceptedRestsOnAccepted
  <2>1. m \notin new \union {n} /\ status[m] = "accepted"
    BY <1>5
  <2>2. d \in Needs(m) /\ d \in Ids
    BY <1>0, <1>5, <1>11, <2>1 DEF Needs, Children
  <2>3. status[d] = "accepted"
    BY <1>0, <2>1, <2>2 DEF AcceptedRestsOnAccepted
  <2> QED
    BY <1>3, <1>4, <1>5, <1>7, <2>2, <2>3 DEF Working
<1> QED
  BY <1>12, <1>13, <1>14, <1>15, <1>16, <1>17 DEF GraphInv

(* A job whose node keeps its plans and replans.                               *)
LEMMA MovesPreserves ==
  ASSUME GraphInv, NEW n \in Ids, n \in busy,
         NEW st \in {"ready", "verifying", "accepted", "unresolved"}, Moves(n, st),
         st = "accepted" => status[n] = "verifying",
         st = "ready" => Children(n) = {},
         st = "verifying" => \A c \in Children(n) : status[c] = "accepted"
  PROVE  GraphInv'
<1>1. /\ replans \in [Ids -> Nat] /\ changes \in Nat
      /\ plan \in [Ids -> Plans \union {<< >>}]
  BY DEF GraphInv, GraphTypeOK
<1>2. /\ NodeBecomes(n, st) /\ UNCHANGED shape
      /\ replans' = replans /\ changes' = changes /\ plan' = plan
  BY DEF Moves
<1>3. st \in Statuses \ {"absent", "superseded", "waiting-children"}
  BY DEF Statuses, Working
<1> QED
  BY <1>1, <1>2, <1>3, BecomesPreserves

LEMMA JobEndsPreserves ==
  ASSUME GraphInv, NEW n \in Ids, JobEnds(n)
  PROVE  GraphInv'
<1>0. /\ n \in busy /\ Stage(n)
      /\ replans \in [Ids -> Nat] /\ changes \in Nat
      /\ plan \in [Ids -> Plans \union {<< >>}]
  BY DEF GraphInv, GraphTypeOK, JobEnds
<1>1. CASE PlannerReplies(n)
  <2>1. Children(n) = {}
    BY <1>0, <1>1 DEF PlannerReplies, Stage
  <2>2. CASE Moves(n, "ready")
    BY <1>0, <2>1, <2>2, MovesPreserves
  <2>3. ASSUME NEW p \in Plans, NodeBecomes(n, "verifying-plan"),
               plan' = [plan EXCEPT ![n] = p], UNCHANGED <<shape, replans, changes>>
        PROVE  GraphInv'
    <3>1. "verifying-plan" \in Statuses \ {"absent", "superseded", "waiting-children"}
      BY DEF Statuses, Working
    <3>2. /\ plan' \in [Ids -> Plans \union {<< >>}] /\ plan'[n] \in Plans
          /\ \A m \in Ids \ {n} : plan'[m] = plan[m]
      BY <1>0, <2>3
    <3> QED
      BY <1>0, <2>1, <2>3, <3>1, <3>2, BecomesPreserves
  <2> QED
    BY <1>1, <2>2, <2>3 DEF PlannerReplies
<1>2. CASE SolverReplies(n)
  <2>1. Children(n) = {} /\ status[n] = "ready"
    BY <1>0, <1>2 DEF SolverReplies, Stage
  <2>2. CASE Moves(n, "verifying")
    BY <1>0, <2>1, <2>2, MovesPreserves
  <2>3. CASE Replan(n)
    BY <1>0, <2>1, <2>3, ReplanPreserves
  <2> QED
    BY <1>2, <2>2, <2>3 DEF SolverReplies
<1>3. CASE SynthesizerReplies(n)
  <2>1. \A c \in Children(n) : status[c] = "accepted"
    BY <1>0, <1>3 DEF SynthesizerReplies, Stage
  <2> QED
    BY <1>0, <1>3, <2>1, MovesPreserves DEF SynthesizerReplies
<1>4. CASE CriticReplies(n)
  <2>1. CASE status[n] \in {"verifying-plan", "verifying"} /\ Replan(n)
    BY <1>0, <2>1, ReplanPreserves
  <2>2. CASE /\ status[n] = "verifying-plan"
             /\ ValidDecomposition(n, plan[n]) /\ Expand(n, plan[n])
    BY <1>0, <2>2, ExpandPreserves DEF Stage
  <2>3. CASE status[n] = "verifying" /\ Moves(n, "accepted")
    BY <1>0, <2>3, MovesPreserves
  <2> QED
    BY <1>4, <2>1, <2>2, <2>3 DEF CriticReplies
<1>5. CASE GivesUp(n)
  <2>1. Moves(n, "unresolved")
    BY <1>5 DEF GivesUp, Moves
  <2> QED
    BY <1>0, <2>1, MovesPreserves
<1> QED
  BY <1>1, <1>2, <1>3, <1>4, <1>5 DEF JobEnds

(* What advanceGraph() makes of each node.                                     *)
LEMMA AdvancedStatus ==
  ASSUME GraphInv, NEW m \in Ids
  PROVE  /\ Advanced[m] = "unresolved" <=> m \in Doomed
         /\ Advanced[m] = "accepted" <=> status[m] = "accepted"
         /\ Advanced[m] # status[m] => m \notin busy /\ Live(m) /\ status[m] # "accepted"
         /\ Advanced[m] \in {"unresolved", "composing", status[m]}
         /\ Advanced[m] = "composing" => status[m] = "composing" \/ ComposableNow(m)
<1>1. Advanced[m] = IF m \in Doomed THEN "unresolved"
                    ELSE IF ComposableNow(m) THEN "composing" ELSE status[m]
  BY DEF Advanced
<1>2. m \in Doomed => status[m] = "unresolved" \/ Settleable(m)
  BY DoomedIsLeast
<1>3. status[m] = "unresolved" => m \in Doomed
  BY DoomedIsClosed
<1>4. ComposableNow(m) => m \notin busy /\ status[m] = "waiting-children" /\ Live(m)
  BY DEF ComposableNow, Live
<1> QED
  BY <1>1, <1>2, <1>3, <1>4 DEF Settleable

LEMMA AdvancePreserves ==
  ASSUME GraphInv, AdvanceGraph
  PROVE  GraphInv'
<1>0. /\ GraphTypeOK /\ Tree /\ Grounded /\ Lineage /\ AcceptedRestsOnAccepted
      /\ \A m \in Ids : Stage(m)
      /\ status \in [Ids -> Statuses]
  BY DEF GraphInv, GraphTypeOK
<1>1. /\ UNCHANGED <<shape, replans, plan, busy, changes>>
      /\ status' = Advanced
  BY DEF AdvanceGraph
<1>2. \A m \in Ids :
        /\ status'[m] = "accepted" <=> status[m] = "accepted"
        /\ status'[m] # status[m] => m \notin busy /\ Live(m)
        /\ status'[m] \in {"unresolved", "composing", status[m]}
        /\ status'[m] = "composing" => status[m] = "composing" \/ ComposableNow(m)
  BY <1>1, AdvancedStatus
<1>3. \A m \in Ids : Live(m)' <=> Live(m)
  BY <1>2 DEF Live
<1>4. \A m \in Ids : Children(m)' = Children(m) /\ Needs(m)' = Needs(m)
  BY <1>1, <1>3 DEF Children, Needs, shape
<1>5. \A m \in Ids : Children(m) \subseteq Ids /\ deps[m] \subseteq Ids
  BY <1>0 DEF Children, GraphTypeOK
<1>6. GraphTypeOK'
  <2>1. status' \in [Ids -> Statuses]
    <3>1. \A m \in Ids : status'[m] \in Statuses
      BY <1>0, <1>2 DEF Statuses, Working
    <3>2. status' = [m \in Ids |-> status'[m]]
      BY <1>1 DEF Advanced
    <3> QED
      BY <3>1, <3>2
  <2> QED
    BY <1>0, <1>1, <2>1 DEF GraphTypeOK, shape
<1>7. Tree' /\ Grounded'
  <2>1. \A m \in Ids : m > count => ~Live(m)
    BY <1>0 DEF Tree, Live
  <2> QED
    BY <1>0, <1>1, <1>2, <2>1, ShapeKept
<1>8. Lineage'
  BY <1>0, <1>1, <1>3, <1>5, Numbers DEF Lineage, shape, GraphTypeOK
<1>9. ASSUME NEW m \in Ids PROVE Stage(m)'
  <2>1. deps' = deps /\ Children(m)' = Children(m) /\ plan' = plan /\ busy' = busy /\ Stage(m)
    BY <1>0, <1>1, <1>4 DEF shape
  <2>2. \A d \in deps[m] \union Children(m) : status[d] = "accepted" => status'[d] = "accepted"
    BY <1>2, <1>5
  <2>3. CASE status'[m] = status[m]
    BY <2>1, <2>2, <2>3 DEF Stage
  <2>4. CASE status'[m] # status[m]
    <3>1. m \notin busy /\ status'[m] \in {"unresolved", "composing"}
      BY <1>2, <2>4
    <3>2. status'[m] = "composing" => \A c \in Children(m) : status[c] = "accepted"
      BY <1>2, <2>4 DEF ComposableNow
    <3> QED
      BY <2>1, <2>2, <3>1, <3>2 DEF Stage
  <2> QED
    BY <2>3, <2>4
<1>10. AcceptedRestsOnAccepted'
  BY <1>0, <1>2, <1>4, <1>5 DEF AcceptedRestsOnAccepted, Needs
<1> QED
  BY <1>6, <1>7, <1>8, <1>9, <1>10 DEF GraphInv

(* Steps that change only who is at work.                                      *)
LEMMA AttemptsPreserve ==
  ASSUME GraphInv, UNCHANGED <<shape, status, replans, plan>>, changes' \in Nat,
         busy' \subseteq Ids,
         \A n \in busy' \ busy : status[n] \in Working /\ \A d \in deps[n] : status[d] = "accepted"
  PROVE  GraphInv'
<1>1. GraphTypeOK'
  BY DEF GraphInv, GraphTypeOK, shape
<1>2. Tree' /\ Grounded'
  BY ShapeKept DEF GraphInv
<1>3. \A m : Live(m)' <=> Live(m)
  BY DEF Live
<1>4. \A m \in Ids : Children(m)' = Children(m) /\ Needs(m)' = Needs(m)
  BY <1>3 DEF Children, Needs, shape
<1>5. Lineage'
  BY <1>3 DEF GraphInv, Lineage, shape
<1>6. ASSUME NEW m \in Ids PROVE Stage(m)'
  <2>1. Stage(m) /\ Children(m)' = Children(m) /\ deps' = deps
    BY <1>4 DEF GraphInv, shape
  <2>2. m \in busy' => status[m] \in Working /\ \A d \in deps[m] : status[d] = "accepted"
    BY <2>1 DEF Stage
  <2> QED
    BY <2>1, <2>2 DEF Stage
<1>7. AcceptedRestsOnAccepted'
  BY <1>4 DEF GraphInv, AcceptedRestsOnAccepted
<1> QED
  BY <1>1, <1>2, <1>5, <1>6, <1>7 DEF GraphInv

LEMMA GraphStarts == GraphInit => GraphInv
<1> SUFFICES ASSUME GraphInit PROVE GraphInv
  OBVIOUS
<1>0. /\ Ids = 1..MaxNodes /\ MaxNodes \in Nat /\ 1 \in Ids /\ RootNode = 1 /\ NoNode = 0
      /\ \A m \in Ids : m \in Nat /\ m >= 1
  BY Numbers DEF RootNode, NoNode
<1>1. /\ \A m \in Ids : /\ status[m] = (IF m = 1 THEN "planning" ELSE "absent")
                        /\ parent[m] = 0 /\ deps[m] = {}
      /\ count = 1 /\ busy = {}
  BY <1>0 DEF GraphInit
<1>2. GraphTypeOK
  BY <1>0 DEF GraphInit, GraphTypeOK, Statuses, Working
<1>3. Tree
  BY <1>0, <1>1 DEF Tree
<1>4. Grounded
  <2> SUFFICES ASSUME NEW S \in SUBSET Ids, S # {}
               PROVE  \E i \in S : \A m \in S : m \notin deps[i] /\ parent[m] # i
    BY DEF Grounded
  <2>1. PICK i \in S : i \in Ids
    OBVIOUS
  <2>2. \A m \in S : m \notin deps[i] /\ parent[m] # i
    BY <1>0, <1>1, <2>1
  <2> QED
    BY <2>1, <2>2
<1>5. Lineage
  BY <1>0, <1>1 DEF Lineage, Live
<1>6. \A n \in Ids : Children(n) = {}
  BY <1>0, <1>1 DEF Children
<1>7. \A n \in Ids : Stage(n)
  BY <1>1, <1>6 DEF Stage
<1>8. AcceptedRestsOnAccepted
  BY <1>1 DEF AcceptedRestsOnAccepted
<1> QED
  BY <1>2, <1>3, <1>4, <1>5, <1>7, <1>8 DEF GraphInv

LEMMA GraphStep == GraphInv /\ [GraphNext]_graphVars => GraphInv'
<1> SUFFICES ASSUME GraphInv, [GraphNext]_graphVars PROVE GraphInv'
  OBVIOUS
<1>0. /\ changes \in Nat /\ busy \subseteq Ids /\ count \in Ids
  BY DEF GraphInv, GraphTypeOK
<1>1. CASE AdvanceGraph
  BY <1>1, AdvancePreserves
<1>2. ASSUME NEW n \in Ids, StartJob(n) PROVE GraphInv'
  BY <1>0, <1>2, AttemptsPreserve DEF StartJob, RunnableIn
<1>3. ASSUME NEW n \in Ids, JobEnds(n) PROVE GraphInv'
  BY <1>3, JobEndsPreserves
<1>4. ASSUME NEW n \in Ids, SourceChanged(n) PROVE GraphInv'
  <2>1. {n} \in SUBSET Ids /\ changes' \in Nat
    BY <1>0, <1>4 DEF SourceChanged
  <2> QED
    BY <1>4, <2>1, InvalidatePreserves DEF SourceChanged
<1>5. CASE ConstraintAdded
  <2>1. Present \in SUBSET Ids /\ changes' \in Nat
    BY <1>0, <1>5, Numbers DEF ConstraintAdded, Present
  <2> QED
    BY <1>5, <2>1, InvalidatePreserves DEF ConstraintAdded
<1>6. CASE Interrupted
  BY <1>0, <1>6, AttemptsPreserve DEF Interrupted
<1>7. CASE UNCHANGED graphVars
  BY <1>0, <1>7, AttemptsPreserve DEF graphVars, shape
<1> QED
  BY <1>1, <1>2, <1>3, <1>4, <1>5, <1>6, <1>7 DEF GraphNext

(* Among the current nodes that are neither accepted nor unresolved there      *)
(* would be one that waits for none of the others: it could be worked on.      *)
LEMMA SomeoneCanGoOn == GraphInv => NothingIsStuck
<1> SUFFICES ASSUME GraphInv, Settled PROVE Advanced[RootNode] \in {"accepted", "unresolved"}
  BY DEF NothingIsStuck
<1> DEFINE U == {m \in Ids : Live(m) /\ Advanced[m] \notin {"accepted", "unresolved"}}
<1>0. /\ GraphTypeOK /\ Grounded /\ Lineage /\ \A m \in Ids : Stage(m)
      /\ status \in [Ids -> Statuses]
      /\ busy = {} /\ \A m \in Ids : ~RunnableIn(Advanced, m)
  BY DEF GraphInv, GraphTypeOK, Settled
<1>1. ASSUME U # {} PROVE FALSE
  <2>0. U \in SUBSET Ids
    OBVIOUS
  <2>1. PICK i \in U : \A m \in U : m \notin deps[i] /\ parent[m] # i
    <3> HIDE DEF U
    <3> QED
      BY <1>0, <1>1, <2>0 DEF Grounded
  <2>2. i \in Ids /\ Live(i) /\ i \notin Doomed /\ status[i] \notin {"accepted", "unresolved"}
    <3>1. i \in Ids /\ Live(i) /\ Advanced[i] \notin {"accepted", "unresolved"}
      BY <2>1
    <3> QED
      BY <3>1, AdvancedStatus, DoomedIsClosed
  <2>3. \A d \in Needs(i) : d \in Ids /\ Live(d)
    BY <1>0, <2>2 DEF Needs, Children, Lineage, GraphTypeOK
  <2>4. \A d \in Needs(i) : d \notin Doomed
    BY <1>0, <2>2, DoomedIsClosed DEF Settleable
  <2>5. \A d \in Needs(i) : Advanced[d] = "accepted" /\ status[d] = "accepted"
    <3> SUFFICES ASSUME NEW d \in Needs(i)
                 PROVE  Advanced[d] = "accepted" /\ status[d] = "accepted"
      OBVIOUS
    <3>1. d \notin U
      BY <2>1 DEF Needs, Children
    <3>2. Advanced[d] \in {"accepted", "unresolved"}
      BY <2>3, <3>1
    <3> QED
      BY <2>3, <2>4, <3>2, AdvancedStatus
  <2> HIDE DEF U
  <2>6. \A d \in deps[i] : Advanced[d] = "accepted"
    BY <2>5 DEF Needs
  <2>7. CASE status[i] = "waiting-children"
    <3>1. ComposableNow(i)
      BY <1>0, <2>2, <2>5, <2>7 DEF ComposableNow, Stage, Needs
    <3>2. Advanced[i] = "composing"
      BY <2>2, <3>1 DEF Advanced
    <3> QED
      BY <1>0, <2>2, <2>6, <3>2 DEF RunnableIn, Working
  <2>8. CASE status[i] # "waiting-children"
    <3>1. status[i] \in Working
      BY <1>0, <2>2, <2>8 DEF Live, Statuses
    <3>2. Advanced[i] = status[i]
      BY <2>2, <2>8 DEF Advanced, ComposableNow
    <3> QED
      BY <1>0, <2>2, <2>6, <3>1, <3>2 DEF RunnableIn
  <2> QED
    BY <2>7, <2>8
<1> QED
  BY <1>0, <1>1, Numbers DEF Lineage

----------------------------------------------------------------------------
(* The graph stays a forest without circular waits whose nodes tell the truth  *)
(* about those they wait for: the inductive invariant of the two theorems      *)
(* below.                                                                      *)
THEOREM GraphIsSound == GraphSpec => []GraphInv
BY GraphStarts, GraphStep, PTL DEF GraphSpec

(* What was accepted rests on what is still accepted (invalidateNodes(),       *)
(* applyReply()), for every budget, plan and disturbance.                      *)
THEOREM AcceptedStandsOnAccepted == GraphSpec => []AcceptedRestsOnAccepted
<1>1. GraphInv => AcceptedRestsOnAccepted
  BY DEF GraphInv
<1> QED
  BY <1>1, GraphIsSound, PTL

(* A driver that finds nothing to schedule has an answer or an unresolved root *)
(* (#drive()).                                                                 *)
THEOREM GraphIsNeverStuck == GraphSpec => []NothingIsStuck
BY SomeoneCanGoOn, GraphIsSound, PTL
=============================================================================
