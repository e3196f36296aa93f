---------------------------- MODULE ManagedJournal ----------------------------
(* The managed operation journal of one session                             *)
(* (src/dsh/managed-operation-journal.ts) together with the code that runs  *)
(* operations through it: runManagedOperation, observeManagedResult and     *)
(* mirrorManagedParent (managed-operation-runner.ts), the owned calls       *)
(* (owned-execution.ts), the Lisp requests (lisp/manager.ts) and the        *)
(* session recovery of the Lisp store (lisp/store.ts).                      *)
(*                                                                          *)
(* Each database callback is one immediate transaction and one action; the *)
(* awaits between them, and the dispatch itself, are where operations of    *)
(* the same session, a human and a crash of the host interleave.            *)
EXTENDS Naturals

CONSTANTS
  Ops,      \* logical calls; an operation is prepared at most once for each
  Scopes,   \* collection scopes
  NoOp,     \* the parent of a scope that no operation opened
  Receipts, \* what receipts of the host adapters say
  MaxCrash  \* bound: crashes of the host

VARIABLES
  scopes,    \* scope -> record, or NoScope
  ops,       \* operation -> record, or NoRecord
  runner,    \* operation -> position of its runManagedOperation
  mirror,    \* operations whose parent is still to be mirrored
  live,      \* scopes the running host opened
  stale,     \* the host restarted and did not recover the session yet
  effect,    \* history: how often the dispatch callback was entered
  evidence,  \* history: scope -> what its first complete snapshot said
  retained,  \* scopes with a retained snapshot
  crashes

vars == <<scopes, ops, runner, mirror, live, stale, effect, evidence, retained, crashes>>

Terminal == {"completed", "denied", "cancelled-before-dispatch", "cancelled-confirmed", "abandoned"}
States   == Terminal \cup {"prepared", "dispatching", "running", "unknown"}
(* The list the runner and the observer test; it does not name abandoned.   *)
Settled  == Terminal \ {"abandoned"}
Runners  == {"none", "admitted", "dispatching", "observed", "settled", "done"}

ASSUME JournalAssumption ==
  /\ NoOp \notin Ops /\ MaxCrash \in Nat
  /\ Receipts \subseteq Settled \cup {"running", "unknown"}

NoScope  == [call |-> "none"]
NoRecord == [state |-> "absent"]
Unseen   == [o \in Ops |-> "unseen"]

(* A scope belongs to one owned call, or (NoOp) to a Lisp request.          *)
ScopeRecord == [call : Ops \cup {NoOp}, parent : Ops \cup {NoOp}, sealed : BOOLEAN, complete : BOOLEAN]
OpRecord    == [state : States, scope : Scopes, route : {"native", "owned"},
                delivery : {"pending", "delivered", "not-delivered"}]

(* Types of the variables.                                                  *)
TypeOK ==
  /\ scopes \in [Scopes -> ScopeRecord \cup {NoScope}]
  /\ ops \in [Ops -> OpRecord \cup {NoRecord}]
  /\ runner \in [Ops -> Runners]
  /\ mirror \subseteq Ops /\ live \subseteq Scopes /\ retained \subseteq Scopes
  /\ effect \in [Ops -> Nat]
  /\ evidence \in [Scopes -> [Ops -> States \cup {"absent", "unseen"}]]
  /\ stale \in BOOLEAN /\ crashes \in Nat

Init ==
  /\ scopes = [s \in Scopes |-> NoScope]
  /\ ops = [o \in Ops |-> NoRecord]
  /\ runner = [o \in Ops |-> "none"]
  /\ mirror = {} /\ live = {} /\ retained = {}
  /\ effect = [o \in Ops |-> 0]
  /\ evidence = [s \in Scopes |-> Unseen]
  /\ stale = FALSE /\ crashes = 0

-----------------------------------------------------------------------------
(* Reading the tables.                                                      *)
Exists(s)     == scopes[s] # NoScope
Lisp(s)       == scopes[s].call = NoOp
Present(o)    == ops[o] # NoRecord
State(o)      == ops[o].state
OpsOf(s)      == {o \in Ops : Present(o) /\ ops[o].scope = s}
Owned(o)      == ~Lisp(ops[o].scope)
ParentOf(o)   == scopes[ops[o].scope].parent
Unresolved(s) == {o \in OpsOf(s) : State(o) \notin Terminal}
(* What prepare() and claim() ask of a scope.                               *)
Collecting(s) == Exists(s) /\ ~scopes[s].sealed /\ scopes[s].complete
(* The query runManagedOperation runs over the session before prepare().   *)
NativeUnknown == \E o \in Ops : Present(o) /\ ops[o].route = "native" /\ State(o) = "unknown"

(* transition(): the moves it lets through; it throws on the others, and   *)
(* the caller's transaction is then rolled back.                            *)
Moves(from, to) ==
  /\ to \notin {"prepared", "dispatching"}
  /\ from \in Terminal  => to = from
  /\ from = "unknown"   => to = "unknown"
  /\ from = "prepared"  => to \in {"denied", "cancelled-before-dispatch", "unknown"}
  /\ from = "running"   => to \notin {"denied", "cancelled-before-dispatch"}

MoveTo(o, to) == ops' = [ops EXCEPT ![o].state = to]

-----------------------------------------------------------------------------
(* Scopes.                                                                  *)

(* createScope() for a Lisp request, which first recovered the session, or *)
(* for one owned call, direct or under the bridge operation that makes it.  *)
CreateScope(s, call, parent) ==
  /\ ~Exists(s)
  /\ IF call = NoOp THEN ~stale /\ parent = NoOp
     ELSE /\ runner[call] = "none"
          /\ parent # NoOp =>
               /\ runner[parent] = "dispatching" /\ ~Owned(parent) /\ ops[parent].route = "owned"
          /\ \A t \in Scopes : Exists(t) => scopes[t].call # call /\ scopes[t].parent \notin Ops \cap {parent}
  /\ scopes' = [scopes EXCEPT ![s] =
       [call |-> call, parent |-> parent, sealed |-> FALSE, complete |-> TRUE]]
  /\ live' = live \cup {s}
  /\ UNCHANGED <<ops, runner, mirror, stale, effect, evidence, retained, crashes>>

(* An owned call seals its scope when its receipt is journalled, or when   *)
(* the call ends; a Lisp request whenever it ends.                          *)
CallSettled(s) ==
  /\ OpsOf(s) = {} => ~scopes[s].complete
  /\ \A o \in OpsOf(s) : State(o) \notin {"prepared", "dispatching"} \/ runner[o] = "done"

Seal(s) ==
  /\ s \in live /\ Exists(s) /\ ~scopes[s].sealed
  /\ ~Lisp(s) => CallSettled(s)
  /\ scopes' = [scopes EXCEPT ![s].sealed = TRUE]
  /\ UNCHANGED <<ops, runner, mirror, live, stale, effect, evidence, retained, crashes>>

(* snapshotForOriginal(): complete if sealed, collected completely, nothing *)
(* open.  History keeps the first complete one.  A protocol receipt retains *)
(* its snapshot; it is issued long before any retention ends.               *)
Complete(s) == scopes[s].sealed /\ scopes[s].complete /\ Unresolved(s) = {}
Snapshot(s, retain) ==
  /\ Exists(s) /\ ~Lisp(s) /\ OpsOf(s) # {}
  /\ retain => scopes[s].parent \in {NoOp} \cup {o \in Ops : Present(o)}
  /\ evidence' = IF Complete(s) /\ evidence[s] = Unseen
                 THEN [evidence EXCEPT ![s] = [o \in Ops |-> IF o \in OpsOf(s) THEN State(o) ELSE "absent"]]
                 ELSE evidence
  /\ retained' = IF retain THEN retained \cup {s} ELSE retained
  /\ UNCHANGED <<scopes, ops, runner, mirror, live, stale, effect, crashes>>

(* prune(): sealed scopes past their retention with nothing open, unless    *)
(* protected: retained, unresolved, or the parent of a protected scope.     *)
(* Retention is far longer than any call runs.                              *)
Roots == retained \cup {ops[o].scope : o \in {p \in Ops : Present(p) /\ State(p) \notin Terminal}}
ParentScopes(S) == {ops[p].scope : p \in {q \in Ops : Present(q) /\ \E s \in S : Exists(s) /\ scopes[s].parent = q}}
Protected ==
  {s \in Scopes : \A S \in SUBSET Scopes : Roots \cup ParentScopes(S) \subseteq S => s \in S}
BugPrunable(s) == Exists(s) /\ scopes[s].sealed /\ s \notin Roots /\ Unresolved(s) = {}

Prunable(s) == Exists(s) /\ scopes[s].sealed /\ s \notin Protected /\ Unresolved(s) = {}

Prune(expired) ==
  LET gone == {s \in expired : Prunable(s)} IN
  /\ gone # {}
  /\ \A s \in gone : \A o \in OpsOf(s) : runner[o] \in {"none", "done"} /\ o \notin mirror
  /\ scopes' = [s \in Scopes |-> IF s \in gone THEN NoScope ELSE scopes[s]]
  /\ ops' = [o \in Ops |-> IF Present(o) /\ ops[o].scope \in gone THEN NoRecord ELSE ops[o]]
  /\ evidence' = [s \in Scopes |-> IF s \in gone THEN Unseen ELSE evidence[s]]
  /\ live' = live \ gone
  /\ UNCHANGED <<runner, mirror, stale, effect, retained, crashes>>

-----------------------------------------------------------------------------
(* Running one operation: three callbacks around the dispatch.              *)

(* A bridge call writes into the scope of its Lisp request, an owned call   *)
(* into the scope it opened.                                                *)
MayRun(o, s) ==
  /\ runner[o] = "none" /\ s \in live /\ Exists(s)
  /\ IF Lisp(s) THEN \A t \in Scopes : Exists(t) => scopes[t].call # o ELSE scopes[s].call = o

(* Admission is refused: by the unresolved native operation, by the scope,  *)
(* or by a storage failure inside prepare().  The scope is marked.          *)
AdmissionRefused(o, s) ==
  /\ MayRun(o, s)
  /\ scopes' = [scopes EXCEPT ![s].complete = FALSE]
  /\ runner' = [runner EXCEPT ![o] = "done"]
  /\ UNCHANGED <<ops, mirror, live, stale, effect, evidence, retained, crashes>>

(* Otherwise prepare() records the operation.                               *)
Admit(o, s, route) ==
  /\ MayRun(o, s) /\ ~Present(o)
  /\ Collecting(s) /\ ~NativeUnknown
  /\ Lisp(s) \/ route = "owned"
  /\ ops' = [ops EXCEPT ![o] = [state |-> "prepared", scope |-> s, route |-> route, delivery |-> "pending"]]
  /\ runner' = [runner EXCEPT ![o] = "admitted"]
  /\ UNCHANGED <<scopes, mirror, live, stale, effect, evidence, retained, crashes>>


(* claim(): compare-and-set from prepared, in a scope that still collects.  *)
Claimable(o) == State(o) = "prepared" /\ Collecting(ops[o].scope)

(* The claim is granted, and the dispatch callback is entered.              *)
Claim(o) ==
  /\ runner[o] = "admitted" /\ Claimable(o)
  /\ MoveTo(o, "dispatching")
  /\ runner' = [runner EXCEPT ![o] = "dispatching"]
  /\ effect' = [effect EXCEPT ![o] = @ + 1]
  /\ UNCHANGED <<scopes, mirror, live, stale, evidence, retained, crashes>>

(* "Managed operation already dispatched".                                  *)
ClaimRefused(o) ==
  /\ runner[o] = "admitted" /\ ~Claimable(o)
  /\ runner' = [runner EXCEPT ![o] = "done"]
  /\ UNCHANGED <<scopes, ops, mirror, live, stale, effect, evidence, retained, crashes>>

BugReplay(o) ==
  /\ Present(o) /\ Owned(o) /\ runner[o] = "done"
  /\ effect' = [effect EXCEPT ![o] = @ + 1]
  /\ runner' = [runner EXCEPT ![o] = "dispatching"]
  /\ UNCHANGED <<scopes, ops, mirror, live, stale, evidence, retained, crashes>>

(* An owned call that names a recorded operation (a retry by the model, or  *)
(* the same call after a restart): it claims, and answers from the records. *)
Replay(o) ==
  /\ Present(o) /\ Owned(o) /\ runner[o] = "done" /\ Claimable(o)
  /\ MoveTo(o, "dispatching")
  /\ UNCHANGED <<scopes, runner, mirror, live, stale, effect, evidence, retained, crashes>>

-----------------------------------------------------------------------------
(* Observing results.                                                       *)

BugAccepts(o, receipt) == TRUE

(* Only an owned original carries the reference its receipt names, so only  *)
(* it is reconciled out of unknown.  The executor's own denial reconciles   *)
(* too.  Where the journal refuses, the callback throws.                    *)
Matches(o, receipt) == Owned(o) /\ receipt \in Settled
Accepts(o, receipt) ==
  \/ State(o) \in Settled
  \/ State(o) = "unknown" /\ Matches(o, receipt)
  \/ Moves(State(o), receipt)
AfterReceipt(o, receipt) == IF State(o) \in Settled THEN State(o) ELSE receipt

(* A child whose receipt was stored goes on to mirror it onto its parent.   *)
HasParent(o) == ParentOf(o) \in {p \in Ops : Present(p)}
ThenMirror(o) == mirror' = IF HasParent(o) THEN mirror \cup {o} ELSE mirror

(* An owned executor journals its own receipt: while the call is still      *)
(* inside the dispatch, from the background after it returned, or when a    *)
(* saved final receipt is read again, possibly by the next host.            *)
Journal(o, receipt) ==
  /\ Present(o) /\ Owned(o) /\ effect[o] > 0 /\ o \notin mirror
  /\ \/ runner[o] = "dispatching" /\ receipt # "running"
     \/ runner[o] = "done" /\ ops[o].scope \in live
     \/ receipt \in Settled \ {"denied"}
  /\ Accepts(o, receipt)
  /\ MoveTo(o, AfterReceipt(o, receipt))
  /\ ThenMirror(o)
  /\ UNCHANGED <<scopes, runner, live, stale, effect, evidence, retained, crashes>>

(* The call a bridge operation makes has ended.                             *)
ChildrenEnded(o) ==
  \A s \in Scopes : Exists(s) /\ scopes[s].parent = o =>
    scopes[s].sealed /\ \A c \in OpsOf(s) : runner[c] = "done"

(* dispatch() returned and its value carries a receipt of the host ...      *)
Observe(o, receipt) ==
  /\ runner[o] = "dispatching" /\ ChildrenEnded(o) /\ o \notin mirror
  /\ Accepts(o, receipt)
  /\ MoveTo(o, AfterReceipt(o, receipt))
  /\ runner' = [runner EXCEPT ![o] = "observed"]
  /\ ThenMirror(o)
  /\ UNCHANGED <<scopes, live, stale, effect, evidence, retained, crashes>>

(* ... or none: a projected value observes nothing ...                      *)
ReturnWithoutReceipt(o) ==
  /\ runner[o] = "dispatching" /\ ChildrenEnded(o) /\ o \notin mirror
  /\ runner' = [runner EXCEPT ![o] = "observed"]
  /\ UNCHANGED <<scopes, ops, mirror, live, stale, effect, evidence, retained, crashes>>

(* ... or one the journal refuses, and the call throws.                     *)
ObserveRefused(o, receipt) ==
  /\ runner[o] = "dispatching" /\ ChildrenEnded(o) /\ o \notin mirror
  /\ ~Accepts(o, receipt)
  /\ runner' = [runner EXCEPT ![o] = "done"]
  /\ UNCHANGED <<scopes, ops, mirror, live, stale, effect, evidence, retained, crashes>>

(* dispatch() threw: denied if the host tagged the error, else unknown;     *)
(* then not delivered.  A refused transition leaves both unwritten.         *)
DispatchThrows(o, denied) ==
  /\ runner[o] = "dispatching" /\ ChildrenEnded(o) /\ o \notin mirror
  /\ LET next == IF State(o) \in Settled THEN State(o)
                 ELSE IF denied THEN "denied" ELSE "unknown"
     IN ops' = IF Moves(State(o), next)
               THEN [ops EXCEPT ![o].state = next, ![o].delivery = "not-delivered"]
               ELSE ops
  /\ runner' = [runner EXCEPT ![o] = "done"]
  /\ UNCHANGED <<scopes, mirror, live, stale, effect, evidence, retained, crashes>>

(* mirrorManagedParent(): what the child's state makes of the parent's.     *)
MirrorSkips(child, parent) ==
  \/ parent \in Settled
  \/ child \in {"prepared", "dispatching"}
  \/ parent = "unknown" /\ child \in {"running", "abandoned"}
MirrorMoves(child, parent) ==
  \/ parent = "unknown" /\ child \in Settled
  \/ Moves(parent, child)

MirrorRefused(o) ==
  ~HasParent(o) \/ LET p == ParentOf(o) IN
                   ~MirrorSkips(State(o), State(p)) /\ ~MirrorMoves(State(o), State(p))

MirrorParent(o) ==
  /\ o \in mirror
  /\ ops' = IF MirrorRefused(o) \/ MirrorSkips(State(o), State(ParentOf(o)))
            THEN ops ELSE [ops EXCEPT ![ParentOf(o)].state = State(o)]
  /\ runner' = IF MirrorRefused(o) /\ runner[o] \in {"dispatching", "observed"}
               THEN [runner EXCEPT ![o] = "done"] ELSE runner
  /\ mirror' = mirror \ {o}
  /\ UNCHANGED <<scopes, live, stale, effect, evidence, retained, crashes>>

(* The second callback of the runner: no observation means unknown.         *)
Settle(o) ==
  /\ runner[o] = "observed" /\ o \notin mirror
  /\ ops' = IF State(o) = "dispatching" THEN [ops EXCEPT ![o].state = "unknown"] ELSE ops
  /\ runner' = [runner EXCEPT ![o] = "settled"]
  /\ UNCHANGED <<scopes, mirror, live, stale, effect, evidence, retained, crashes>>

(* The third: the host adapter returned.                                    *)
Deliver(o) ==
  /\ runner[o] = "settled"
  /\ ops' = [ops EXCEPT ![o].delivery = "delivered"]
  /\ runner' = [runner EXCEPT ![o] = "done"]
  /\ UNCHANGED <<scopes, mirror, live, stale, effect, evidence, retained, crashes>>

-----------------------------------------------------------------------------
(* Outside the calls.                                                       *)

(* abandon(): a human ends an unknown operation.                            *)
Abandon(o) ==
  /\ Present(o) /\ State(o) = "unknown" /\ ~stale
  /\ MoveTo(o, "abandoned")
  /\ UNCHANGED <<scopes, runner, mirror, live, stale, effect, evidence, retained, crashes>>

(* The host dies: every call in progress and everything in memory is gone. *)
Crash ==
  /\ crashes < MaxCrash
  /\ runner' = [o \in Ops |-> IF runner[o] = "none" THEN "none" ELSE "done"]
  /\ mirror' = {} /\ live' = {} /\ stale' = TRUE
  /\ crashes' = crashes + 1
  /\ UNCHANGED <<scopes, ops, effect, evidence, retained>>

BugInterrupted(o) == Present(o) /\ ~Owned(o) /\ State(o) = "running"

BugInterruptedAll(o) == Present(o) /\ ~Owned(o)

(* claimSession() of the next host: recover() in every Lisp scope of the   *)
(* session.  Owned scopes keep their receipts and are not recovered.        *)
Interrupted(o) == Present(o) /\ ~Owned(o) /\ State(o) \in {"dispatching", "running"}

Recover ==
  /\ stale /\ stale' = FALSE
  /\ ops' = [o \in Ops |-> IF Interrupted(o) THEN [ops[o] EXCEPT !.state = "unknown"] ELSE ops[o]]
  /\ UNCHANGED <<scopes, runner, mirror, live, effect, evidence, retained, crashes>>

-----------------------------------------------------------------------------
OpenScope == \E s \in Scopes, call, parent \in Ops \cup {NoOp} : CreateScope(s, call, parent)
Run(o, s) == AdmissionRefused(o, s) \/ \E route \in {"native", "owned"} : Admit(o, s, route)
Return(o) ==
  \/ \E receipt \in Receipts : Observe(o, receipt) \/ ObserveRefused(o, receipt)
  \/ ReturnWithoutReceipt(o)
  \/ \E denied \in BOOLEAN : DispatchThrows(o, denied)
Proceed(o) == Claim(o) \/ ClaimRefused(o) \/ Return(o) \/ MirrorParent(o) \/ Settle(o) \/ Deliver(o)

Next ==
  \/ OpenScope
  \/ \E s \in Scopes : Seal(s) \/ \E retain \in BOOLEAN : Snapshot(s, retain)
  \/ \E expired \in SUBSET Scopes : Prune(expired)
  \/ \E o \in Ops :
       \/ \E s \in Scopes : Run(o, s)
       \/ Proceed(o) \/ Replay(o) \/ Abandon(o)
       \/ \E receipt \in Receipts : Journal(o, receipt)
  \/ Crash \/ Recover

Spec == Init /\ [][Next]_vars

(* A call in progress goes on, an owned call that ended seals its scope,    *)
(* and the session is claimed again after a restart.                        *)
Fairness ==
  /\ \A o \in Ops : WF_vars(Proceed(o))
  /\ \A s \in Scopes : WF_vars(Exists(s) /\ ~Lisp(s) /\ (Seal(s) \/ \E o \in Ops : Run(o, s)))
  /\ WF_vars(Recover)
FairSpec == Spec /\ Fairness

-----------------------------------------------------------------------------
(* Properties.                                                              *)

(* An effect is dispatched at most once, and only behind a journal record   *)
(* that already left prepared: whatever is replayed, recovered or crashes,  *)
(* no effect exists that the journal denies ever having started.            *)
EffectsAreWrittenAhead ==
  \A o \in Ops : /\ effect[o] <= 1
                 /\ effect[o] = 1 /\ Present(o) => State(o) # "prepared"

(* A complete snapshot is final evidence: until its scope is pruned no     *)
(* operation appears in the scope, and none changes its state.              *)
CompleteEvidenceIsFinal ==
  \A s \in Scopes : evidence[s] # Unseen /\ Exists(s) =>
    \A o \in Ops : evidence[s][o] = IF o \in OpsOf(s) THEN State(o) ELSE "absent"

(* A record that is still open, or kept as evidence, never loses the chain *)
(* of operations it hangs from to pruning.                                  *)
AncestorsAreKept ==
  \A s \in Scopes : /\ Exists(s) /\ scopes[s].parent # NoOp
                    /\ (s \in retained \/ Unresolved(s) # {})
                    => Present(scopes[s].parent)

(* No operation of a Lisp request stays dispatching for ever: its call or   *)
(* the recovery of the session settles it or makes it unknown.              *)
LispDispatchEnds ==
  \A o \in Ops : (Present(o) /\ ~Owned(o) /\ State(o) = "dispatching")
                   ~> ~(Present(o) /\ State(o) = "dispatching")

(* The journal implements the ledger of effects.                            *)
PhaseOf(o) ==
  IF ~Present(o) THEN "absent"
  ELSE IF State(o) = "prepared" THEN "intended"
  ELSE IF State(o) \in Terminal THEN "closed" ELSE "open"

Ledger == INSTANCE EffectLedger
  WITH Effects <- Ops, phase <- [o \in Ops |-> PhaseOf(o)], performed <- {o \in Ops : effect[o] > 0}
ImplementsLedger == Ledger!LedgerSpec

(* docs/managed-operation-journal.md: "Native unknown results block further *)
(* managed effects for that session until host reconciliation".             *)
NativeUnknownBlocksEffects ==
  [][\A o \in Ops : effect'[o] > effect[o] => ~NativeUnknown]_vars
=============================================================================
