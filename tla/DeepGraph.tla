------------------------------ MODULE DeepGraph ------------------------------
(* The problem graph of a deep-planning run (deep-thinker/core/graph.ts): a    *)
(* root question, decomposed into children that may depend on their siblings,  *)
(* each worked on by jobs whose replies are accepted one transaction at a      *)
(* time.  Nodes are numbered in the order in which they are appended.          *)
(* Wording, evidence and requirement identifiers are left out; what decides a  *)
(* reply (its kind) is a choice.  DeepRun models who may run jobs and when.    *)
EXTENDS Naturals, Sequences, FiniteSets

CONSTANTS MaxNodes,    \* budget.maxNodes
          MaxDepth,    \* budget.maxDepth
          MaxReplans,  \* budget.maxReplansPerNode
          Plans,       \* decompositions a planner may propose, never empty
                       \*   (contracts.ts:39): the i-th child depends on the
                       \*   children whose keys are in p[i]
          MaxChanges   \* bound of the model: changed sources, constraints, pauses

ASSUME GraphAssumption ==
  /\ MaxNodes \in Nat \ {0}
  /\ MaxDepth \in Nat
  /\ MaxReplans \in Nat
  /\ MaxChanges \in Nat
  /\ \A p \in Plans : /\ p \in Seq(SUBSET Nat) /\ p # << >>
                      /\ \A i \in DOMAIN p : p[i] \subseteq DOMAIN p

VARIABLES count,    \* state.nodes.length
          status,   \* node.status; "absent" beyond count
          parent,   \* node.parentId, NoNode for the root
          deps,     \* node.dependencies
          depth,    \* node.depth
          replans,  \* node.replans
          plan,     \* node.proposal, a member of Plans or << >>
          busy,     \* nodes with an activeAttemptId
          changes   \* how many disturbances happened (bound)

graphVars == <<count, status, parent, deps, depth, replans, plan, busy, changes>>
shape == <<count, parent, deps, depth>>

NoNode == 0
RootNode == 1
Ids == 1..MaxNodes
Present == 1..count

Working == {"planning", "ready", "verifying-plan", "verifying", "composing"}
Statuses == Working \union {"waiting-children", "accepted", "unresolved", "superseded", "absent"}

Live(n) == status[n] \notin {"absent", "superseded"}
Children(n) == {c \in Ids : parent[c] = n /\ Live(c)}

GraphTypeOK ==
  /\ count \in Ids
  /\ status \in [Ids -> Statuses]
  /\ parent \in [Ids -> Ids \union {NoNode}]
  /\ deps \in [Ids -> SUBSET Ids]
  /\ depth \in [Ids -> Nat]
  /\ replans \in [Ids -> Nat]
  /\ plan \in [Ids -> Plans \union {<< >>}]
  /\ busy \subseteq Ids
  /\ changes \in Nat

(* initialDeepState(): one node, still to be planned.                          *)
GraphInit ==
  /\ count = 1
  /\ status = [n \in Ids |-> IF n = RootNode THEN "planning" ELSE "absent"]
  /\ parent = [n \in Ids |-> NoNode]
  /\ deps = [n \in Ids |-> {}]
  /\ depth = [n \in Ids |-> 0]
  /\ replans = [n \in Ids |-> 0]
  /\ plan = [n \in Ids |-> << >>]
  /\ busy = {}
  /\ changes = 0

----------------------------------------------------------------------------
(* Pure operators of graph.ts.  A loop that repeats until nothing changes is   *)
(* the least set closed under what one round adds.                             *)

(* assertAcyclic() on a proposal: every set of its children has one that needs *)
(* no other of the set.                                                        *)
Acyclic(p) ==
  \A S \in SUBSET (DOMAIN p) : S # {} => \E i \in S : p[i] \intersect S = {}

(* validateDecomposition().                                                    *)
BugValidDecomposition(n, p) ==
  /\ depth[n] < MaxDepth
  /\ count + Len(p) <= MaxNodes
ValidDecomposition(n, p) ==
  /\ depth[n] < MaxDepth
  /\ count + Len(p) <= MaxNodes
  /\ Acyclic(p)

(* invalidateNodes(): with a node go its ancestors and the nodes that depend   *)
(* on it.                                                                      *)
Invalid(S) ==
  \A n \in Ids : /\ n \in S /\ parent[n] # NoNode => parent[n] \in S
                 /\ deps[n] \intersect S # {} => n \in S
BugStale(ids) ==
  {n \in Ids : \A S \in SUBSET Ids :
     /\ ids \subseteq S
     /\ \A m \in Ids : m \in S /\ parent[m] # NoNode => parent[m] \in S
     => n \in S}
Stale(ids) == {n \in Ids : \A S \in SUBSET Ids : ids \subseteq S /\ Invalid(S) => n \in S}

(* A node of another status starts again: from its children if it has any.     *)
Reopened(n) == IF Children(n) # {} THEN "waiting-children" ELSE "planning"

Invalidate(ids) ==
  /\ status' = [n \in Ids |-> IF n \in Stale(ids) /\ Live(n) THEN Reopened(n) ELSE status[n]]
  /\ busy' = {n \in busy : ~(n \in Stale(ids) /\ Live(n))}

(* replan(): the descendants of the node are superseded.                       *)
Descendants(n) ==
  {m \in Ids : \A S \in SUBSET Ids :
     n \in S /\ (\A c \in Ids : parent[c] \in S => c \in S) => m \in S}

(* advanceGraph(): a node nobody works on is unresolved as soon as something   *)
(* it needs is, and composes when all its children are accepted.               *)
Needs(n) == deps[n] \union Children(n)
Settleable(n) == n \notin busy /\ Live(n) /\ status[n] \notin {"accepted", "unresolved"}
Doomed ==
  {n \in Ids : \A S \in SUBSET Ids :
     /\ \A m \in Ids : status[m] = "unresolved" => m \in S
     /\ \A m \in Ids : Settleable(m) /\ Needs(m) \intersect S # {} => m \in S
     => n \in S}
ComposableNow(n) ==
  /\ n \notin busy
  /\ status[n] = "waiting-children"
  /\ Children(n) # {}
  /\ \A c \in Children(n) : status[c] = "accepted"
Advanced ==
  [n \in Ids |-> IF n \in Doomed THEN "unresolved"
                 ELSE IF ComposableNow(n) THEN "composing" ELSE status[n]]

(* runnableNodes() and nextRole(), of a graph whose statuses are st.           *)
RunnableIn(st, n) ==
  /\ n \notin busy
  /\ st[n] \in Working
  /\ \A d \in deps[n] : st[d] = "accepted"

(* The driver has nothing left to schedule (scheduler.ts).                     *)
Settled == busy = {} /\ \A n \in Ids : ~RunnableIn(Advanced, n)

----------------------------------------------------------------------------
(* What a reply does to its node: applyReply() in the transaction that also    *)
(* clears activeAttemptId.                                                     *)
NodeBecomes(n, st) ==
  /\ status' = [status EXCEPT ![n] = st]
  /\ busy' = busy \ {n}

BugReplan(n) ==
  /\ status' = [m \in Ids |-> IF m = n THEN "planning"
                              ELSE IF m \in Descendants(n) THEN "superseded" ELSE status[m]]
  /\ busy' = busy \ {n}
  /\ plan' = [plan EXCEPT ![n] = << >>]
  /\ UNCHANGED <<shape, replans, changes>>
Replan(n) ==
  \/ /\ replans[n] >= MaxReplans
     /\ NodeBecomes(n, "unresolved")
     /\ UNCHANGED <<shape, replans, plan, changes>>
  \/ /\ replans[n] < MaxReplans
     /\ status' = [m \in Ids |-> IF m = n THEN "planning"
                                 ELSE IF m \in Descendants(n) THEN "superseded" ELSE status[m]]
     /\ busy' = busy \ {n}
     /\ replans' = [replans EXCEPT ![n] = @ + 1]
     /\ plan' = [plan EXCEPT ![n] = << >>]
     /\ UNCHANGED <<shape, changes>>

(* The children of a supported plan are appended with identities of the host.  *)
Expand(n, p) ==
  LET new == (count + 1)..(count + Len(p)) IN
  /\ count' = count + Len(p)
  /\ status' = [m \in Ids |-> IF m = n THEN "waiting-children"
                              ELSE IF m \in new THEN "planning" ELSE status[m]]
  /\ parent' = [m \in Ids |-> IF m \in new THEN n ELSE parent[m]]
  /\ deps' = [m \in Ids |-> IF m \in new THEN {count + k : k \in p[m - count]} ELSE deps[m]]
  /\ depth' = [m \in Ids |-> IF m \in new THEN depth[n] + 1 ELSE depth[m]]
  /\ busy' = busy \ {n}
  /\ UNCHANGED <<replans, plan, changes>>

(* Replies that end the work on a node: blocked, unresolved, a candidate that  *)
(* still lists unresolved points; and a job that failed (catch of #runJob).    *)
GivesUp(n) ==
  /\ NodeBecomes(n, "unresolved")
  /\ UNCHANGED <<shape, replans, plan, changes>>

Moves(n, st) ==
  /\ NodeBecomes(n, st)
  /\ UNCHANGED <<shape, replans, plan, changes>>

PlannerReplies(n) ==
  /\ status[n] = "planning"
  /\ \/ Moves(n, "ready")
     \/ \E p \in Plans :
          /\ ValidDecomposition(n, p)
          /\ NodeBecomes(n, "verifying-plan")
          /\ plan' = [plan EXCEPT ![n] = p]
          /\ UNCHANGED <<shape, replans, changes>>

SolverReplies(n) ==
  /\ status[n] = "ready"
  /\ Moves(n, "verifying") \/ Replan(n)

SynthesizerReplies(n) ==
  /\ status[n] = "composing"
  /\ Moves(n, "verifying")

CriticReplies(n) ==
  \/ /\ status[n] = "verifying-plan"
     /\ \/ Replan(n)
        \/ ValidDecomposition(n, plan[n]) /\ Expand(n, plan[n])
  \/ /\ status[n] = "verifying"
     /\ Moves(n, "accepted") \/ Replan(n)

JobEnds(n) ==
  /\ n \in busy
  /\ \/ PlannerReplies(n)
     \/ SolverReplies(n)
     \/ SynthesizerReplies(n)
     \/ CriticReplies(n)
     \/ GivesUp(n)

(* #drive(): the graph is advanced, runnable nodes get an attempt.             *)
AdvanceGraph ==
  /\ Advanced # status
  /\ status' = Advanced
  /\ UNCHANGED <<shape, replans, plan, busy, changes>>

StartJob(n) ==
  /\ RunnableIn(status, n)
  /\ busy' = busy \union {n}
  /\ UNCHANGED <<shape, status, replans, plan, changes>>

(* A source one of the node's artifacts quotes has changed.                    *)
SourceChanged(n) ==
  /\ changes < MaxChanges
  /\ Live(n)
  /\ Invalidate({n})
  /\ changes' = changes + 1
  /\ UNCHANGED <<shape, replans, plan>>

(* The user adds a constraint to a paused run: every node is reopened.         *)
ConstraintAdded ==
  /\ changes < MaxChanges
  /\ busy = {}
  /\ Invalidate(Present)
  /\ changes' = changes + 1
  /\ UNCHANGED <<shape, replans, plan>>

(* The run is paused; its attempts are over and its nodes keep their status.   *)
Interrupted ==
  /\ changes < MaxChanges
  /\ busy # {}
  /\ busy' = {}
  /\ changes' = changes + 1
  /\ UNCHANGED <<shape, status, replans, plan>>

GraphNext ==
  \/ AdvanceGraph
  \/ \E n \in Ids : StartJob(n) \/ JobEnds(n) \/ SourceChanged(n)
  \/ ConstraintAdded
  \/ Interrupted

GraphSpec == GraphInit /\ [][GraphNext]_graphVars

(* The driver goes on while it has something to do, and jobs end.              *)
Fairness ==
  /\ WF_graphVars(AdvanceGraph)
  /\ \A n \in Ids : WF_graphVars(StartJob(n)) /\ WF_graphVars(JobEnds(n))
FairSpec == GraphSpec /\ Fairness

----------------------------------------------------------------------------
(* What was accepted rests on what is still accepted: no accepted node has a   *)
(* prerequisite or a current child whose own answer was withdrawn, replaced or *)
(* left open, whatever was invalidated, replanned or paused while other jobs   *)
(* were under way (invalidateNodes() L72, applyReply() L105).                  *)
AcceptedRestsOnAccepted ==
  \A n \in Ids : status[n] = "accepted" => \A m \in Needs(n) : status[m] = "accepted"

(* The driver that finds nothing to schedule reports the root as answered or   *)
(* as unresolved, never a graph whose nodes wait for each other (#drive L141:  *)
(* the root is then not accepted and the run ends partial for no reason).      *)
NothingIsStuck == Settled => Advanced[RootNode] \in {"accepted", "unresolved"}

(* The graph comes to rest: replans and nodes are used up whatever the workers *)
(* reply (budget.maxReplansPerNode, maxNodes).                                 *)
GraphSettles == <>[]Settled
=============================================================================
