------------------------- MODULE ManagedJournalProofs -------------------------
(* Proofs about the journal, for any operations, scopes, receipts and       *)
(* crashes: effects are written ahead and happen at most once, evidence is  *)
(* final, no open or retained record loses the chain it hangs from, and the *)
(* journal implements the ledger of effects.                                *)
EXTENDS ManagedJournal, TLAPS

-----------------------------------------------------------------------------
(* The tables, as the proofs see them.                                      *)

OpsTable    == ops \in [Ops -> OpRecord \cup {NoRecord}]
ScopesTable == scopes \in [Scopes -> ScopeRecord \cup {NoScope}]

LEMMA OpFacts ==
  ASSUME OpsTable, NEW o \in Ops
  PROVE  /\ Present(o) <=> ops[o] \in OpRecord
         /\ Present(o) => State(o) \in States /\ ops[o].scope \in Scopes
         /\ ~Present(o) => State(o) = "absent"
<1>1. \A r \in OpRecord : r # NoRecord
  BY DEF OpRecord, NoRecord, States, Terminal
<1>2. ops[o] \in OpRecord \/ ops[o] = NoRecord
  BY DEF OpsTable
<1> QED BY <1>1, <1>2 DEF OpRecord, NoRecord, Present, State

LEMMA ScopeFacts ==
  ASSUME ScopesTable, NEW s \in Scopes
  PROVE  /\ Exists(s) <=> scopes[s] \in ScopeRecord
         /\ Exists(s) => /\ scopes[s].parent \in Ops \cup {NoOp}
                         /\ scopes[s].call \in Ops \cup {NoOp}
                         /\ scopes[s].sealed \in BOOLEAN /\ scopes[s].complete \in BOOLEAN
<1>1. \A r \in ScopeRecord : r # NoScope
  BY DEF ScopeRecord, NoScope
<1>2. scopes[s] \in ScopeRecord \/ scopes[s] = NoScope
  BY DEF ScopesTable
<1> QED BY <1>1, <1>2 DEF ScopeRecord, NoScope, Exists

(* What transition() makes of one record.                                   *)
LEMMA Moved ==
  ASSUME OpsTable, NEW o \in Ops, Present(o), NEW to \in States, MoveTo(o, to)
  PROVE  /\ OpsTable'
         /\ Present(o)' /\ State(o)' = to /\ ops'[o].scope = ops[o].scope
         /\ ops'[o].route = ops[o].route
         /\ \A p \in Ops \ {o} : ops'[p] = ops[p]
<1>1. ops[o] \in OpRecord
  BY OpFacts
<1>2. ops' = [ops EXCEPT ![o].state = to]
  BY DEF MoveTo
<1>3. /\ ops'[o] = [ops[o] EXCEPT !.state = to]
      /\ \A p \in Ops \ {o} : ops'[p] = ops[p]
  BY <1>2 DEF OpsTable
<1>4. /\ ops'[o] \in OpRecord /\ ops'[o].scope = ops[o].scope
      /\ ops'[o].route = ops[o].route /\ ops'[o].state = to
  BY <1>1, <1>3 DEF OpRecord
<1>5. OpsTable'
  BY <1>2, <1>4 DEF OpsTable
<1> QED BY <1>3, <1>4, <1>5, OpFacts DEF State, OpsTable, Present, OpRecord, NoRecord, States, Terminal

-----------------------------------------------------------------------------
(* The inductive invariant.                                                 *)

Within == {"dispatching", "observed", "settled"}

(* Where a call stands decides whether it is on record and had its effect.  *)
RunnerInv ==
  \A o \in Ops :
    /\ runner[o] = "none" => ~Present(o)
    /\ runner[o] \in {"none", "admitted"} => effect[o] = 0
    /\ runner[o] \in Within \cup {"admitted"} => Present(o)
    /\ runner[o] \in Within => State(o) # "prepared"

(* A record has its scope.                                                  *)
HomeInv == \A o \in Ops : Present(o) => Exists(ops[o].scope)

(* A scope was opened from inside the dispatch of its parent, an operation  *)
(* of a Lisp request, and collects for this host only while that goes on.   *)
ParentInv ==
  \A s \in Scopes : Exists(s) =>
    /\ Lisp(s) => scopes[s].parent = NoOp
    /\ \A p \in Ops : scopes[s].parent = p =>
         /\ runner[p] \notin {"none", "admitted"}
         /\ Present(p) => State(p) # "prepared" /\ ~Owned(p)
         /\ s \in live /\ ~scopes[s].sealed => runner[p] = "dispatching"

MirrorInv == \A o \in mirror : Present(o) /\ ParentOf(o) \in Ops

(* What a complete snapshot was taken of is sealed, and nothing in it open. *)
EvidenceInv ==
  \A s \in Scopes : evidence[s] # Unseen =>
    /\ Exists(s) /\ scopes[s].sealed
    /\ \A o \in OpsOf(s) : State(o) \in Terminal
    /\ \A o \in Ops : evidence[s][o] = IF o \in OpsOf(s) THEN State(o) ELSE "absent"

JournalInv ==
  /\ TypeOK /\ RunnerInv /\ EffectsAreWrittenAhead
  /\ HomeInv /\ ParentInv /\ MirrorInv
  /\ EvidenceInv /\ AncestorsAreKept

LEMMA InitHolds == Init => JournalInv
<1> SUFFICES ASSUME Init PROVE JournalInv
  OBVIOUS
<1> USE DEF Init
<1>1. TypeOK
  BY DEF TypeOK, Runners, Unseen
<1>2. (\A o \in Ops : ~Present(o)) /\ (\A s \in Scopes : ~Exists(s))
  BY DEF Present, Exists
<1>3. RunnerInv /\ EffectsAreWrittenAhead /\ HomeInv /\ ParentInv /\ MirrorInv
  BY <1>2 DEF RunnerInv, EffectsAreWrittenAhead, HomeInv, ParentInv, MirrorInv, Within
<1>4. EvidenceInv /\ AncestorsAreKept
  BY <1>2 DEF EvidenceInv, AncestorsAreKept
<1> QED BY <1>1, <1>3, <1>4 DEF JournalInv

-----------------------------------------------------------------------------
(* What one step does to a record, and to a call.                           *)

(* A record that was there stays, in its scope; what is final stays, and    *)
(* what was dispatched is never merely prepared again.                      *)
Kept(o) ==
  /\ Present(o)' <=> Present(o)
  /\ Present(o) => ops'[o].scope = ops[o].scope
  /\ State(o) # "prepared" => State(o)' # "prepared"
  /\ State(o) \in Terminal => State(o)' = State(o)

Goes(o) == runner'[o] = runner[o] \/ runner'[o] = "done" \/ {runner[o], runner'[o]} \subseteq Within

Starts(o) ==
  /\ runner[o] = "admitted" /\ runner'[o] = "dispatching"
  /\ State(o)' = "dispatching" /\ effect'[o] = effect[o] + 1

(* A step of a call already on record, of a human, of the host that dies or *)
(* of the next one.                                                         *)
CallStep ==
  /\ OpsTable'
  /\ runner' \in [Ops -> Runners] /\ effect' \in [Ops -> Nat]
  /\ \A o \in Ops : /\ Kept(o)
                    /\ (Goes(o) /\ effect'[o] = effect[o]) \/ Starts(o)
                    /\ runner[o] = "dispatching" /\ runner'[o] # "dispatching"
                       => ChildrenEnded(o) \/ Owned(o) \/ live' = {}
  /\ \A o \in mirror' : o \in Ops /\ Present(o) /\ ParentOf(o) \in Ops
  /\ live' \subseteq live /\ stale' \in BOOLEAN /\ crashes' \in Nat
  /\ UNCHANGED <<scopes, evidence, retained>>

LEMMA CallStepPreserves == JournalInv /\ CallStep => JournalInv'
<1> SUFFICES ASSUME JournalInv, CallStep PROVE JournalInv'
  OBVIOUS
<1> USE DEF JournalInv, CallStep
<1>1. TypeOK'
  BY DEF TypeOK, OpsTable
<1>2. \A s \in Scopes : (Exists(s)' <=> Exists(s)) /\ OpsOf(s)' = OpsOf(s)
  BY DEF Exists, OpsOf, Kept
<1>3. RunnerInv' /\ EffectsAreWrittenAhead'
  BY DEF RunnerInv, EffectsAreWrittenAhead, Kept, Goes, Starts, Within, TypeOK
<1>4. HomeInv'
  BY DEF HomeInv, Kept, Exists
<1>5. ParentInv'
  <2> SUFFICES ASSUME NEW s \in Scopes, Exists(s)
               PROVE  /\ Lisp(s) => scopes[s].parent = NoOp
                      /\ \A p \in Ops : scopes[s].parent = p =>
                           /\ runner'[p] \notin {"none", "admitted"}
                           /\ Present(p)' => State(p)' # "prepared" /\ ~Owned(p)'
                           /\ s \in live' /\ ~scopes[s].sealed => runner'[p] = "dispatching"
    BY <1>2 DEF ParentInv, Lisp
  <2>1. Lisp(s) => scopes[s].parent = NoOp
    BY DEF ParentInv
  <2> SUFFICES ASSUME NEW p \in Ops, scopes[s].parent = p
               PROVE  /\ runner'[p] \notin {"none", "admitted"}
                      /\ Present(p)' => State(p)' # "prepared" /\ ~Owned(p)'
                      /\ s \in live' /\ ~scopes[s].sealed => runner'[p] = "dispatching"
    BY <2>1
  <2>2. Kept(p) /\ (Goes(p) \/ Starts(p))
    OBVIOUS
  <2>3. Present(p)' => State(p)' # "prepared" /\ ~Owned(p)'
    BY <2>2 DEF ParentInv, Kept, Owned, Lisp
  <2>4. runner'[p] \notin {"none", "admitted"}
    BY <2>2 DEF ParentInv, Goes, Starts, Within
  <2>5. ASSUME s \in live', ~scopes[s].sealed PROVE runner'[p] = "dispatching"
    <3>1. runner[p] = "dispatching" /\ Present(p) /\ ~Owned(p)
      BY <2>5 DEF ParentInv, RunnerInv, Within
    <3>2. ~ChildrenEnded(p)
      BY <2>5 DEF ChildrenEnded
    <3> QED BY <2>5, <3>1, <3>2
  <2> QED BY <2>3, <2>4, <2>5
<1>6. MirrorInv'
  BY DEF MirrorInv, Kept, ParentOf
<1>7. EvidenceInv'
  <2> SUFFICES ASSUME NEW s \in Scopes, evidence[s] # Unseen
               PROVE  /\ Exists(s) /\ scopes[s].sealed
                      /\ \A o \in OpsOf(s) : State(o)' \in Terminal
                      /\ \A o \in Ops : evidence[s][o] = IF o \in OpsOf(s) THEN State(o)' ELSE "absent"
    BY <1>2 DEF EvidenceInv
  <2>1. \A o \in OpsOf(s) : State(o) \in Terminal /\ State(o)' = State(o)
    BY DEF EvidenceInv, Kept, OpsOf
  <2> QED BY <2>1 DEF EvidenceInv
<1>8. AncestorsAreKept'
  <2> SUFFICES ASSUME NEW s \in Scopes, Exists(s), scopes[s].parent # NoOp,
                      s \in retained \/ Unresolved(s)' # {}
               PROVE  Present(scopes[s].parent)'
    BY <1>2 DEF AncestorsAreKept
  <2>1. Unresolved(s)' \subseteq Unresolved(s)
    BY <1>2 DEF Unresolved, Kept, OpsOf
  <2>2. Present(scopes[s].parent)
    BY <2>1 DEF AncestorsAreKept
  <2>3. scopes[s].parent \in Ops
    BY ScopeFacts DEF TypeOK, ScopesTable
  <2> QED BY <2>2, <2>3 DEF Kept
<1> QED BY <1>1, <1>3, <1>4, <1>5, <1>6, <1>7, <1>8

-----------------------------------------------------------------------------
(* The actions of calls.                                                    *)

LEMMA MoveKeeps ==
  ASSUME OpsTable, NEW o \in Ops, Present(o), NEW to \in States, MoveTo(o, to),
         State(o) # "prepared" => to # "prepared",
         State(o) \in Terminal => to = State(o)
  PROVE  OpsTable' /\ \A p \in Ops : Kept(p)
<1>1. /\ OpsTable'
      /\ Present(o)' /\ State(o)' = to /\ ops'[o].scope = ops[o].scope
      /\ \A p \in Ops \ {o} : ops'[p] = ops[p]
  BY Moved
<1>2. \A p \in Ops \ {o} : Kept(p)
  BY <1>1 DEF Kept, Present, State
<1>3. Kept(o)
  BY <1>1 DEF Kept
<1> QED BY <1>1, <1>2, <1>3

LEMMA SameKeeps ==
  ASSUME OpsTable, ops' = ops
  PROVE  OpsTable' /\ \A p \in Ops : Kept(p)
BY DEF OpsTable, Kept, Present, State

(* The receipt of a host either confirms what is final or moves the record. *)
LEMMA ReceiptKeeps ==
  ASSUME OpsTable, NEW o \in Ops, Present(o), NEW receipt \in Receipts,
         Accepts(o, receipt), MoveTo(o, AfterReceipt(o, receipt))
  PROVE  OpsTable' /\ \A p \in Ops : Kept(p)
<1>1. receipt \in States \ {"prepared", "dispatching"}
  BY JournalAssumption DEF States, Settled, Terminal
<1>2. State(o) \in States
  BY OpFacts
<1>3. AfterReceipt(o, receipt) \in States
  BY <1>1, <1>2 DEF AfterReceipt
<1>4. State(o) # "prepared" => AfterReceipt(o, receipt) # "prepared"
  BY <1>1 DEF AfterReceipt
<1>5. State(o) \in Terminal => AfterReceipt(o, receipt) = State(o)
  BY DEF AfterReceipt, Accepts, Moves, Terminal
<1> QED BY <1>3, <1>4, <1>5, MoveKeeps

LEMMA ThenMirrorFacts ==
  ASSUME OpsTable, MirrorInv, NEW o \in Ops, Present(o), mirror \subseteq Ops, ThenMirror(o)
  PROVE  \A p \in mirror' : p \in Ops /\ Present(p) /\ ParentOf(p) \in Ops
BY DEF ThenMirror, HasParent, MirrorInv

LEMMA ObserveSteps ==
  ASSUME JournalInv, NEW o \in Ops, NEW receipt \in Receipts,
         Observe(o, receipt) \/ Journal(o, receipt)
  PROVE  CallStep
<1> USE DEF JournalInv
<1>1. Present(o) /\ OpsTable /\ mirror \subseteq Ops
  BY DEF Observe, Journal, RunnerInv, Within, TypeOK, OpsTable
<1>2. OpsTable' /\ \A p \in Ops : Kept(p)
  BY <1>1, ReceiptKeeps DEF Observe, Journal
<1>3. \A p \in mirror' : p \in Ops /\ Present(p) /\ ParentOf(p) \in Ops
  BY <1>1, ThenMirrorFacts DEF Observe, Journal
<1>4. /\ runner' \in [Ops -> Runners]
      /\ \A p \in Ops : /\ Goes(p)
                        /\ runner[p] = "dispatching" /\ runner'[p] # "dispatching" => ChildrenEnded(p)
  BY DEF Observe, Journal, TypeOK, Runners, Goes, Within
<1> QED BY <1>2, <1>3, <1>4 DEF CallStep, Observe, Journal, TypeOK

LEMMA ReturnSteps ==
  ASSUME JournalInv, NEW o \in Ops,
         ReturnWithoutReceipt(o) \/ \E receipt \in Receipts : ObserveRefused(o, receipt)
  PROVE  CallStep
<1> USE DEF JournalInv
<1>1. OpsTable' /\ \A p \in Ops : Kept(p)
  BY SameKeeps DEF ReturnWithoutReceipt, ObserveRefused, TypeOK, OpsTable
<1>2. /\ runner' \in [Ops -> Runners]
      /\ \A p \in Ops : /\ Goes(p)
                        /\ runner[p] = "dispatching" /\ runner'[p] # "dispatching" => ChildrenEnded(p)
  BY DEF ReturnWithoutReceipt, ObserveRefused, TypeOK, Runners, Goes, Within
<1> QED BY <1>1, <1>2 DEF CallStep, ReturnWithoutReceipt, ObserveRefused, TypeOK, MirrorInv

LEMMA ThrowSteps ==
  ASSUME JournalInv, NEW o \in Ops, NEW denied \in BOOLEAN, DispatchThrows(o, denied)
  PROVE  CallStep
<1> USE DEF JournalInv
<1> DEFINE next == IF State(o) \in Settled THEN State(o)
                   ELSE IF denied THEN "denied" ELSE "unknown"
<1>1. Present(o) /\ OpsTable
  BY DEF DispatchThrows, RunnerInv, Within, TypeOK, OpsTable
<1>2. OpsTable' /\ \A p \in Ops : Kept(p)
  <2>1. CASE ops' = ops
    BY <1>1, <2>1, SameKeeps
  <2>2. CASE /\ Moves(State(o), next)
             /\ ops' = [ops EXCEPT ![o].state = next, ![o].delivery = "not-delivered"]
    <3>1. ops[o] \in OpRecord /\ State(o) \in States
      BY <1>1, OpFacts
    <3>2. next \in States \ {"prepared"} /\ (State(o) \in Terminal => next = State(o))
      BY <2>2, <3>1 DEF Moves, States, Settled, Terminal
    <3>3. /\ ops'[o] = [[ops[o] EXCEPT !.state = next] EXCEPT !.delivery = "not-delivered"]
          /\ \A p \in Ops \ {o} : ops'[p] = ops[p]
      BY <1>1, <2>2 DEF OpsTable
    <3>4. ops'[o] \in OpRecord /\ ops'[o].scope = ops[o].scope /\ ops'[o].state = next
      <4> HIDE DEF next
      <4> QED BY <3>1, <3>2, <3>3 DEF OpRecord
    <3>5. OpsTable'
      BY <1>1, <2>2, <3>4 DEF OpsTable
    <3>6. Present(o)'
      BY <3>4, <3>5, OpFacts DEF Present, OpRecord, NoRecord, States, Terminal
    <3>7. Kept(o)
      BY <1>1, <3>2, <3>4, <3>6 DEF Kept, State
    <3>8. \A p \in Ops \ {o} : Kept(p)
      BY <3>3 DEF Kept, Present, State
    <3> QED BY <3>5, <3>7, <3>8
  <2> QED BY <2>1, <2>2 DEF DispatchThrows
<1>3. /\ runner' \in [Ops -> Runners]
      /\ \A p \in Ops : /\ Goes(p)
                        /\ runner[p] = "dispatching" /\ runner'[p] # "dispatching" => ChildrenEnded(p)
  BY DEF DispatchThrows, TypeOK, Runners, Goes, Within
<1> QED BY <1>2, <1>3 DEF CallStep, DispatchThrows, TypeOK, MirrorInv

LEMMA DeliverySteps ==
  ASSUME JournalInv, NEW o \in Ops, Settle(o) \/ Deliver(o)
  PROVE  CallStep
<1> USE DEF JournalInv
<1>1. Present(o) /\ OpsTable /\ State(o) # "prepared"
  BY DEF Settle, Deliver, RunnerInv, Within, TypeOK, OpsTable
<1>2. OpsTable' /\ \A p \in Ops : Kept(p)
  <2>1. CASE ops' = ops
    BY <1>1, <2>1, SameKeeps
  <2>2. CASE State(o) = "dispatching" /\ MoveTo(o, "unknown")
    BY <1>1, <2>2, MoveKeeps DEF States, Terminal
  <2>3. CASE ops' = [ops EXCEPT ![o].delivery = "delivered"]
    <3>1. ops[o] \in OpRecord
      BY <1>1, OpFacts
    <3>2. /\ ops'[o] = [ops[o] EXCEPT !.delivery = "delivered"]
          /\ \A p \in Ops \ {o} : ops'[p] = ops[p]
      BY <1>1, <2>3 DEF OpsTable
    <3>3. ops'[o] \in OpRecord /\ ops'[o].scope = ops[o].scope /\ ops'[o].state = ops[o].state
      BY <3>1, <3>2 DEF OpRecord
    <3>4. OpsTable'
      BY <1>1, <2>3, <3>3 DEF OpsTable
    <3>5. Present(o)'
      BY <3>3, <3>4, OpFacts DEF Present, OpRecord, NoRecord, States, Terminal
    <3>6. Kept(o) /\ \A p \in Ops \ {o} : Kept(p)
      BY <1>1, <3>2, <3>3, <3>5 DEF Kept, Present, State
    <3> QED BY <3>4, <3>6
  <2> QED BY <2>1, <2>2, <2>3 DEF Settle, Deliver, MoveTo
<1>3. /\ runner' \in [Ops -> Runners]
      /\ \A p \in Ops : Goes(p) /\ (runner[p] = "dispatching" => runner'[p] = "dispatching")
  BY DEF Settle, Deliver, TypeOK, Runners, Goes, Within
<1> QED BY <1>2, <1>3 DEF CallStep, Settle, Deliver, TypeOK, MirrorInv

(* A call that is refused its claim, a replay, a human, the next host.      *)
LEMMA OtherSteps ==
  ASSUME JournalInv, NEW o \in Ops, ClaimRefused(o) \/ Replay(o) \/ Abandon(o)
  PROVE  CallStep
<1> USE DEF JournalInv
<1>1. OpsTable
  BY DEF TypeOK, OpsTable
<1>2. OpsTable' /\ \A p \in Ops : Kept(p)
  <2>1. CASE ClaimRefused(o)
    BY <1>1, <2>1, SameKeeps DEF ClaimRefused
  <2>2. CASE Replay(o)
    BY <1>1, <2>2, MoveKeeps DEF Replay, Claimable, States, Terminal
  <2>3. CASE Abandon(o)
    BY <1>1, <2>3, MoveKeeps DEF Abandon, States, Terminal
  <2> QED BY <2>1, <2>2, <2>3
<1>3. /\ runner' \in [Ops -> Runners]
      /\ \A p \in Ops : Goes(p) /\ (runner[p] = "dispatching" => runner'[p] = "dispatching")
  BY DEF ClaimRefused, Replay, Abandon, TypeOK, Runners, Goes, Within
<1> QED BY <1>2, <1>3 DEF CallStep, ClaimRefused, Replay, Abandon, TypeOK, MirrorInv

LEMMA RecoverStep == ASSUME JournalInv, Recover PROVE CallStep
<1> USE DEF JournalInv
<1>1. OpsTable
  BY DEF TypeOK, OpsTable
<1>2. \A p \in Ops : ops'[p] = ops[p]
                     \/ /\ Interrupted(p) /\ ops[p] \in OpRecord
                        /\ ops'[p] = [ops[p] EXCEPT !.state = "unknown"]
  BY <1>1, OpFacts DEF Recover, Interrupted
<1>3. \A p \in Ops : ops'[p] = ops[p]
                     \/ /\ Interrupted(p) /\ ops'[p] \in OpRecord /\ ops'[p].scope = ops[p].scope
                        /\ ops'[p].state = "unknown"
  BY <1>2 DEF OpRecord, States
<1>4. OpsTable'
  BY <1>1, <1>3 DEF OpsTable, Recover
<1>5. \A p \in Ops : Kept(p)
  <2> SUFFICES ASSUME NEW p \in Ops PROVE Kept(p)
    OBVIOUS
  <2>1. CASE ops'[p] = ops[p]
    BY <2>1 DEF Kept, Present, State
  <2>2. CASE Interrupted(p) /\ ops'[p] \in OpRecord /\ ops'[p].scope = ops[p].scope
             /\ ops'[p].state = "unknown"
    <3>1. Present(p)' /\ Present(p)
      BY <2>2, <1>4, OpFacts DEF Present, Interrupted, OpRecord, NoRecord, States, Terminal
    <3> QED BY <2>2, <3>1 DEF Kept, State, Interrupted, Terminal
  <2> QED BY <1>3, <2>1, <2>2
<1> QED BY <1>4, <1>5 DEF CallStep, Recover, TypeOK, MirrorInv, Goes

(* Mirroring moves the parent only, and never one that is final.            *)
LEMMA MirrorStep == ASSUME JournalInv, NEW o \in Ops, MirrorParent(o) PROVE CallStep
<1> USE DEF JournalInv
<1>1. OpsTable /\ Present(o) /\ ParentOf(o) \in Ops
  BY DEF MirrorParent, MirrorInv, TypeOK, OpsTable
<1>2. Owned(o)
  <2>1. ops[o].scope \in Scopes /\ Exists(ops[o].scope)
    BY <1>1, OpFacts DEF HomeInv
  <2> QED BY <1>1, <2>1, JournalAssumption DEF ParentInv, Owned, ParentOf
<1>3. OpsTable' /\ \A p \in Ops : Kept(p)
  <2>1. CASE ops' = ops
    BY <1>1, <2>1, SameKeeps
  <2>2. CASE ops' # ops
    <3> DEFINE q == ParentOf(o)
    <3>1. /\ HasParent(o) /\ ~MirrorSkips(State(o), State(q)) /\ MirrorMoves(State(o), State(q))
          /\ MoveTo(q, State(o))
      BY <2>2 DEF MirrorParent, MirrorRefused, MoveTo
    <3>2. q \in Ops /\ Present(q) /\ State(o) \in States /\ State(q) \in States
      BY <1>1, <3>1, OpFacts DEF HasParent
    <3>3. State(o) # "prepared"
      BY <3>1 DEF MirrorSkips
    <3>4. State(q) \in Terminal => State(o) = State(q)
      BY <3>1, <3>2 DEF MirrorSkips, MirrorMoves, Moves, Settled, Terminal
    <3> HIDE DEF q
    <3> QED BY <1>1, <3>1, <3>2, <3>3, <3>4, MoveKeeps
  <2> QED BY <2>1, <2>2
<1>4. /\ runner' \in [Ops -> Runners]
      /\ \A p \in Ops : Goes(p) /\ (runner[p] = "dispatching" /\ runner'[p] # "dispatching" => p = o)
  BY DEF MirrorParent, TypeOK, Runners, Goes, Within
<1> QED BY <1>2, <1>3, <1>4 DEF CallStep, MirrorParent, TypeOK, MirrorInv

LEMMA ClaimStep == ASSUME JournalInv, NEW o \in Ops, Claim(o) PROVE CallStep
<1> USE DEF JournalInv
<1>1. OpsTable /\ Present(o)
  BY DEF Claim, RunnerInv, TypeOK, OpsTable
<1>2. OpsTable' /\ (\A p \in Ops : Kept(p)) /\ State(o)' = "dispatching"
  BY <1>1, MoveKeeps, Moved DEF Claim, Claimable, States, Terminal
<1>3. Starts(o) /\ \A p \in Ops \ {o} : Goes(p) /\ effect'[p] = effect[p]
  BY <1>2 DEF Claim, Starts, Goes, TypeOK
<1>4. /\ runner' \in [Ops -> Runners] /\ effect' \in [Ops -> Nat]
      /\ \A p \in Ops : runner[p] = "dispatching" => runner'[p] = "dispatching"
  BY DEF Claim, TypeOK, Runners
<1> QED BY <1>2, <1>3, <1>4 DEF CallStep, Claim, TypeOK, MirrorInv

LEMMA CrashStep == ASSUME JournalInv, Crash PROVE CallStep
<1> USE DEF JournalInv
<1>1. OpsTable' /\ \A p \in Ops : Kept(p)
  BY SameKeeps DEF Crash, TypeOK, OpsTable
<1>2. runner' \in [Ops -> Runners] /\ \A p \in Ops : Goes(p)
  BY DEF Crash, TypeOK, Runners, Goes
<1> QED BY <1>1, <1>2 DEF CallStep, Crash, TypeOK

LEMMA StutterStep == ASSUME JournalInv, UNCHANGED vars PROVE CallStep
<1> USE DEF JournalInv
<1>1. OpsTable' /\ \A p \in Ops : Kept(p)
  BY SameKeeps DEF vars, TypeOK, OpsTable
<1> QED BY <1>1 DEF CallStep, vars, TypeOK, MirrorInv, Goes

-----------------------------------------------------------------------------
(* The actions on scopes.                                                   *)

LEMMA SealPreserves == ASSUME JournalInv, NEW s \in Scopes, Seal(s) PROVE JournalInv'
<1> USE DEF JournalInv
<1>1. Exists(s) /\ scopes[s] \in ScopeRecord /\ scopes'[s] = [scopes[s] EXCEPT !.sealed = TRUE]
  BY ScopeFacts DEF Seal, TypeOK, ScopesTable
<1>2. /\ scopes'[s] \in ScopeRecord /\ scopes'[s].parent = scopes[s].parent
      /\ scopes'[s].call = scopes[s].call /\ scopes'[s].sealed
  BY <1>1 DEF ScopeRecord
<1>3. TypeOK'
  BY <1>2 DEF TypeOK, Seal
<1>4. \A t \in Scopes : /\ Exists(t)' <=> Exists(t)
                        /\ scopes'[t].parent = scopes[t].parent /\ scopes'[t].call = scopes[t].call
                        /\ scopes[t].sealed => scopes'[t].sealed
                        /\ OpsOf(t)' = OpsOf(t)
  <2>1. Exists(s)'
    BY <1>2 DEF Exists, ScopeRecord, NoScope
  <2>2. \A t \in Scopes \ {s} : scopes'[t] = scopes[t]
    BY DEF Seal, TypeOK
  <2> QED BY <1>1, <1>2, <2>1, <2>2 DEF Exists, OpsOf, Seal, Present
<1>5. RunnerInv' /\ EffectsAreWrittenAhead'
  BY DEF Seal, RunnerInv, EffectsAreWrittenAhead, Present, State
<1>6. \A o \in Ops : Present(o) => ops[o].scope \in Scopes
  BY OpFacts DEF TypeOK, OpsTable
<1>7. HomeInv'
  BY <1>4, <1>6 DEF HomeInv, Seal, Present
<1>8. ParentInv'
  BY <1>2, <1>4, <1>6 DEF ParentInv, Seal, Lisp, Owned, Present, State
<1>9. MirrorInv'
  BY <1>4, <1>6 DEF MirrorInv, Seal, Present, ParentOf, TypeOK
<1>10. EvidenceInv'
  BY <1>4 DEF EvidenceInv, Seal, State
<1>11. AncestorsAreKept'
  BY <1>4 DEF AncestorsAreKept, Seal, Unresolved, State, Present
<1> QED BY <1>3, <1>5, <1>7, <1>8, <1>9, <1>10, <1>11

LEMMA SnapshotPreserves ==
  ASSUME JournalInv, NEW s \in Scopes, NEW retain \in BOOLEAN, Snapshot(s, retain)
  PROVE  JournalInv'
<1> USE DEF JournalInv
<1>1. OpsTable /\ ScopesTable
  BY DEF TypeOK, OpsTable, ScopesTable
<1> DEFINE said == [o \in Ops |-> IF o \in OpsOf(s) THEN State(o) ELSE "absent"]
<1>2. said \in [Ops -> States \cup {"absent", "unseen"}]
  BY <1>1, OpFacts DEF OpsOf
<1>3. TypeOK'
  BY <1>2 DEF TypeOK, Snapshot
<1>4. RunnerInv' /\ EffectsAreWrittenAhead' /\ HomeInv' /\ ParentInv' /\ MirrorInv'
  BY DEF Snapshot, RunnerInv, EffectsAreWrittenAhead, HomeInv, ParentInv, MirrorInv,
         Present, State, Exists, Lisp, Owned, ParentOf
<1>5. EvidenceInv'
  <2>1. CASE Complete(s) /\ evidence' = [evidence EXCEPT ![s] = said]
    <3>1. /\ Exists(s) /\ scopes[s].sealed
          /\ \A o \in OpsOf(s) : State(o) \in Terminal
      BY <2>1 DEF Snapshot, Complete, Unresolved
    <3>2. evidence'[s] = said /\ \A t \in Scopes \ {s} : evidence'[t] = evidence[t]
      BY <2>1 DEF TypeOK
    <3> QED BY <3>1, <3>2 DEF EvidenceInv, Snapshot, OpsOf, State, Exists, Present
  <2>2. CASE evidence' = evidence
    BY <2>2 DEF EvidenceInv, Snapshot, OpsOf, State, Exists, Present
  <2> QED BY <2>1, <2>2 DEF Snapshot
<1>6. AncestorsAreKept'
  <2>1. \A t \in Scopes : t \in retained' /\ t \notin retained => t = s /\ retain
    BY DEF Snapshot
  <2> QED BY <2>1 DEF AncestorsAreKept, Snapshot, Unresolved, OpsOf, State, Exists, Present
<1> QED BY <1>3, <1>4, <1>5, <1>6

LEMMA RefusedPreserves ==
  ASSUME JournalInv, NEW o \in Ops, NEW s \in Scopes, AdmissionRefused(o, s)
  PROVE  JournalInv'
<1> USE DEF JournalInv
<1>1. Exists(s) /\ scopes[s] \in ScopeRecord /\ scopes'[s] = [scopes[s] EXCEPT !.complete = FALSE]
  BY ScopeFacts DEF AdmissionRefused, MayRun, TypeOK, ScopesTable
<1>2. /\ scopes'[s] \in ScopeRecord /\ scopes'[s].parent = scopes[s].parent
      /\ scopes'[s].call = scopes[s].call /\ scopes'[s].sealed = scopes[s].sealed
  BY <1>1 DEF ScopeRecord
<1>3. TypeOK'
  BY <1>2 DEF TypeOK, AdmissionRefused, Runners
<1>4. \A t \in Scopes : /\ Exists(t)' <=> Exists(t)
                        /\ scopes'[t].parent = scopes[t].parent /\ scopes'[t].call = scopes[t].call
                        /\ scopes'[t].sealed = scopes[t].sealed
                        /\ OpsOf(t)' = OpsOf(t)
  <2>1. Exists(s)'
    BY <1>2 DEF Exists, ScopeRecord, NoScope
  <2>2. \A t \in Scopes \ {s} : scopes'[t] = scopes[t]
    BY DEF AdmissionRefused, TypeOK
  <2> QED BY <1>1, <1>2, <2>1, <2>2 DEF Exists, OpsOf, AdmissionRefused, Present
<1>5. \A p \in Ops : runner'[p] = runner[p] \/ (runner[p] = "none" /\ runner'[p] = "done")
  BY DEF AdmissionRefused, MayRun, TypeOK
<1>6. RunnerInv' /\ EffectsAreWrittenAhead'
  BY <1>5 DEF AdmissionRefused, RunnerInv, EffectsAreWrittenAhead, Present, State, Within
<1>7. \A p \in Ops : Present(p) => ops[p].scope \in Scopes
  BY OpFacts DEF TypeOK, OpsTable
<1>8. HomeInv'
  BY <1>4, <1>7 DEF HomeInv, AdmissionRefused, Present
<1>9. ParentInv'
  BY <1>4, <1>5, <1>7 DEF ParentInv, AdmissionRefused, Lisp, Owned, Present, State
<1>10. MirrorInv'
  BY <1>4, <1>7 DEF MirrorInv, AdmissionRefused, Present, ParentOf, TypeOK
<1>11. EvidenceInv'
  BY <1>4 DEF EvidenceInv, AdmissionRefused, State
<1>12. AncestorsAreKept'
  BY <1>4 DEF AncestorsAreKept, AdmissionRefused, Unresolved, State, Present
<1> QED BY <1>3, <1>6, <1>8, <1>9, <1>10, <1>11, <1>12

(* A new record appears in a scope that still collects, of whose parent the *)
(* call is still under way.                                                 *)
LEMMA AdmitPreserves ==
  ASSUME JournalInv, NEW o \in Ops, NEW s \in Scopes, NEW route \in {"native", "owned"},
         Admit(o, s, route)
  PROVE  JournalInv'
<1> USE DEF JournalInv
<1> DEFINE r == [state |-> "prepared", scope |-> s, route |-> route, delivery |-> "pending"]
<1>1. r \in OpRecord /\ r # NoRecord
  BY DEF OpRecord, NoRecord, States
<1>2. ops'[o] = r /\ \A p \in Ops \ {o} : ops'[p] = ops[p]
  BY DEF Admit, TypeOK
<1>3. /\ Present(o)' /\ State(o)' = "prepared" /\ ops'[o].scope = s
      /\ \A p \in Ops \ {o} : (Present(p)' <=> Present(p)) /\ State(p)' = State(p)
      /\ ~Present(o)
  BY <1>1, <1>2 DEF Present, State, Admit
<1> HIDE DEF r
<1>4. Exists(s) /\ s \in live /\ ~scopes[s].sealed
  BY DEF Admit, MayRun, Collecting
<1>5. TypeOK'
  BY <1>1, <1>2 DEF TypeOK, Admit, Runners, r
<1>6. runner[o] = "none" /\ runner'[o] = "admitted" /\ \A p \in Ops \ {o} : runner'[p] = runner[p]
  BY DEF Admit, MayRun, TypeOK
<1>7. RunnerInv' /\ EffectsAreWrittenAhead'
  BY <1>3, <1>6 DEF Admit, RunnerInv, EffectsAreWrittenAhead, Within
<1>8. HomeInv'
  BY <1>2, <1>3, <1>4 DEF HomeInv, Admit, Exists
<1>9. ParentInv'
  <2>1. \A t \in Scopes : Exists(t) => scopes[t].parent # o
    BY <1>6 DEF ParentInv
  <2>2. \A p \in Ops \ {o} : Owned(p)' <=> Owned(p)
    BY <1>2 DEF Owned, Lisp, Admit
  <2> QED BY <1>3, <1>6, <2>1, <2>2 DEF ParentInv, Admit, Exists, Lisp
<1>10. MirrorInv'
  BY <1>2, <1>3 DEF MirrorInv, Admit, ParentOf, TypeOK
<1>11. EvidenceInv'
  <2>1. evidence[s] = Unseen
    BY <1>4 DEF EvidenceInv
  <2>2. \A t \in Scopes \ {s} : OpsOf(t)' = OpsOf(t)
    BY <1>2, <1>3 DEF OpsOf
  <2> SUFFICES ASSUME NEW t \in Scopes, evidence[t] # Unseen
               PROVE  /\ Exists(t) /\ scopes[t].sealed
                      /\ \A p \in OpsOf(t)' : State(p)' \in Terminal
                      /\ \A p \in Ops : evidence[t][p] = IF p \in OpsOf(t)' THEN State(p)' ELSE "absent"
    BY DEF EvidenceInv, Admit, Exists
  <2>3. OpsOf(t)' = OpsOf(t)
    BY <2>1, <2>2
  <2>4. \A p \in OpsOf(t) : p \in Ops /\ State(p)' = State(p)
    BY <1>3 DEF OpsOf
  <2> QED BY <2>3, <2>4 DEF EvidenceInv
<1>12. AncestorsAreKept'
  <2> SUFFICES ASSUME NEW t \in Scopes, Exists(t), scopes[t].parent # NoOp,
                      t \in retained \/ Unresolved(t)' # {}
               PROVE  Present(scopes[t].parent)'
    BY DEF AncestorsAreKept, Admit, Exists
  <2>1. scopes[t].parent \in Ops /\ scopes' = scopes
    BY ScopeFacts DEF TypeOK, ScopesTable, Admit
  <2>2. CASE t = s
    <3>1. runner[scopes[s].parent] = "dispatching"
      BY <1>4, <2>1, <2>2 DEF ParentInv
    <3>2. Present(scopes[s].parent)
      BY <2>1, <2>2, <3>1 DEF RunnerInv, Within
    <3> QED BY <1>3, <2>1, <2>2, <3>2 DEF Present
  <2>3. CASE t # s
    <3>1. OpsOf(t)' = OpsOf(t)
      BY <1>2, <1>3, <2>3 DEF OpsOf
    <3>2. \A p \in OpsOf(t) : p \in Ops /\ State(p)' = State(p)
      BY <1>3 DEF OpsOf
    <3>3. Unresolved(t)' = Unresolved(t)
      BY <3>1, <3>2 DEF Unresolved
    <3>4. Present(scopes[t].parent)
      BY <3>3 DEF AncestorsAreKept
    <3> QED BY <1>3, <2>1, <3>4 DEF Present
  <2> QED BY <2>2, <2>3
<1> QED BY <1>5, <1>7, <1>8, <1>9, <1>10, <1>11, <1>12

LEMMA CreatePreserves ==
  ASSUME JournalInv, NEW s \in Scopes, NEW call \in Ops \cup {NoOp}, NEW parent \in Ops \cup {NoOp},
         CreateScope(s, call, parent)
  PROVE  JournalInv'
<1> USE DEF JournalInv
<1> DEFINE r == [call |-> call, parent |-> parent, sealed |-> FALSE, complete |-> TRUE]
<1>1. r \in ScopeRecord /\ r # NoScope
  BY DEF ScopeRecord, NoScope
<1>2. /\ scopes'[s] = r /\ ~Exists(s) /\ Exists(s)'
      /\ \A t \in Scopes \ {s} : scopes'[t] = scopes[t]
  BY <1>1 DEF CreateScope, TypeOK, Exists
<1>3. scopes'[s].call = call /\ scopes'[s].parent = parent
  BY <1>2
<1> HIDE DEF r
<1>4. \A t \in Scopes \ {s} : (Exists(t)' <=> Exists(t)) /\ (Lisp(t)' <=> Lisp(t))
  BY <1>2 DEF Exists, Lisp
<1>5. \A p \in Ops : Present(p) => ops[p].scope \in Scopes \ {s}
  BY <1>2, OpFacts DEF HomeInv, TypeOK, OpsTable
<1>6. TypeOK'
  BY <1>1, <1>2 DEF TypeOK, CreateScope
<1>7. RunnerInv' /\ EffectsAreWrittenAhead'
  BY DEF CreateScope, RunnerInv, EffectsAreWrittenAhead, Present, State
<1>8. HomeInv'
  BY <1>4, <1>5 DEF HomeInv, CreateScope, Present
<1>9. parent \in Ops => /\ runner[parent] = "dispatching" /\ Present(parent)
                        /\ State(parent) # "prepared" /\ ~Owned(parent) /\ call # NoOp
  BY JournalAssumption DEF CreateScope, RunnerInv, Within
<1>10. \A p \in Ops : /\ Present(p)' <=> Present(p)
                      /\ State(p)' = State(p)
                      /\ Present(p) => (Owned(p)' <=> Owned(p))
  BY <1>4, <1>5 DEF CreateScope, Present, State, Owned
<1>11. ParentInv'
  <2> SUFFICES ASSUME NEW t \in Scopes, Exists(t)'
               PROVE  /\ Lisp(t)' => scopes'[t].parent = NoOp
                      /\ \A p \in Ops : scopes'[t].parent = p =>
                           /\ runner[p] \notin {"none", "admitted"}
                           /\ Present(p) => State(p) # "prepared" /\ ~Owned(p)
                           /\ t \in live' /\ ~scopes'[t].sealed => runner[p] = "dispatching"
    BY <1>10 DEF ParentInv, CreateScope
  <2>1. CASE t = s
    BY <1>3, <1>9, <2>1 DEF CreateScope, Lisp
  <2>2. CASE t # s
    <3>1. Exists(t) /\ scopes'[t] = scopes[t] /\ (Lisp(t)' <=> Lisp(t))
      BY <1>2, <1>4, <2>2
    <3>2. t \in live' <=> t \in live
      BY <2>2 DEF CreateScope
    <3> QED BY <3>1, <3>2 DEF ParentInv
  <2> QED BY <2>1, <2>2
<1>12. MirrorInv'
  BY <1>2, <1>5 DEF MirrorInv, CreateScope, Present, ParentOf, TypeOK
<1>13. EvidenceInv'
  <2>1. evidence[s] = Unseen
    BY <1>2 DEF EvidenceInv
  <2> QED BY <1>2, <1>4, <2>1 DEF EvidenceInv, CreateScope, OpsOf, Present, State
<1>14. AncestorsAreKept'
  <2> SUFFICES ASSUME NEW t \in Scopes, Exists(t)', scopes'[t].parent # NoOp,
                      t \in retained \/ Unresolved(t) # {}
               PROVE  Present(scopes'[t].parent)
    BY DEF AncestorsAreKept, CreateScope, Unresolved, OpsOf, Present, State
  <2> QED BY <1>2, <1>3, <1>4, <1>9 DEF AncestorsAreKept
<1> QED BY <1>6, <1>7, <1>8, <1>11, <1>12, <1>13, <1>14

(* Pruning spares the closure of what is retained or open.                  *)
LEMMA ProtectedClosed ==
  ASSUME TypeOK
  PROVE  /\ Roots \subseteq Protected
         /\ ParentScopes(Protected) \subseteq Protected
<1>1. \A o \in Ops : Present(o) => ops[o].scope \in Scopes
  BY OpFacts DEF TypeOK, OpsTable
<1>2. Roots \subseteq Scopes
  BY <1>1 DEF Roots, TypeOK
<1>3. Roots \subseteq Protected
  BY <1>2 DEF Protected
<1>4. ASSUME NEW t \in ParentScopes(Protected) PROVE t \in Protected
  <2>1. PICK q \in Ops : t = ops[q].scope /\ Present(q) /\ \E s \in Protected : Exists(s) /\ scopes[s].parent = q
    BY <1>4 DEF ParentScopes
  <2>2. t \in Scopes
    BY <1>1, <2>1
  <2>3. ASSUME NEW S \in SUBSET Scopes, Roots \cup ParentScopes(S) \subseteq S PROVE t \in S
    <3>1. Protected \subseteq S
      BY <2>3 DEF Protected
    <3>2. t \in ParentScopes(S)
      BY <2>1, <3>1 DEF ParentScopes
    <3> QED BY <2>3, <3>2
  <2> QED BY <2>2, <2>3 DEF Protected
<1> QED BY <1>3, <1>4

(* A pruned scope takes its records along, all final and of ended calls.    *)
LEMMA PrunedFacts ==
  ASSUME JournalInv, NEW expired \in SUBSET Scopes, Prune(expired)
  PROVE  \E gone \in SUBSET Scopes :
           /\ \A s \in gone : s \notin Protected /\ Unresolved(s) = {}
           /\ \A s \in Scopes : /\ Exists(s)' <=> Exists(s) /\ s \notin gone
                                /\ s \notin gone => /\ scopes'[s] = scopes[s]
                                                    /\ evidence'[s] = evidence[s]
                                                    /\ OpsOf(s)' = OpsOf(s)
                                /\ s \in gone => evidence'[s] = Unseen
           /\ \A o \in Ops : /\ Present(o)' <=> Present(o) /\ ops[o].scope \notin gone
                             /\ Present(o)' => ops'[o] = ops[o]
                             /\ Present(o) /\ ~Present(o)' =>
                                  /\ runner[o] \in {"none", "done"} /\ o \notin mirror
                                  /\ State(o) \in Terminal
           /\ scopes' \in [Scopes -> ScopeRecord \cup {NoScope}]
           /\ ops' \in [Ops -> OpRecord \cup {NoRecord}]
           /\ evidence' \in [Scopes -> [Ops -> States \cup {"absent", "unseen"}]]
           /\ live' \subseteq live
           /\ UNCHANGED <<runner, mirror, stale, effect, retained, crashes>>
<1> DEFINE gone == {s \in expired : Prunable(s)}
<1>1. /\ \A s \in gone : \A o \in OpsOf(s) : runner[o] \in {"none", "done"} /\ o \notin mirror
      /\ scopes' = [s \in Scopes |-> IF s \in gone THEN NoScope ELSE scopes[s]]
      /\ ops' = [o \in Ops |-> IF Present(o) /\ ops[o].scope \in gone THEN NoRecord ELSE ops[o]]
      /\ evidence' = [s \in Scopes |-> IF s \in gone THEN Unseen ELSE evidence[s]]
      /\ live' = live \ gone
      /\ UNCHANGED <<runner, mirror, stale, effect, retained, crashes>>
  BY DEF Prune
<1>2. gone \in SUBSET Scopes /\ \A s \in gone : s \notin Protected /\ Unresolved(s) = {}
  BY DEF Prunable
<1> HIDE DEF gone
<1>3. TypeOK
  BY DEF JournalInv
<1>4. \A o \in Ops : /\ Present(o)' <=> Present(o) /\ ops[o].scope \notin gone
                     /\ Present(o)' => ops'[o] = ops[o]
  BY <1>1 DEF Present
<1>5. \A o \in Ops : Present(o) /\ ~Present(o)' =>
        /\ runner[o] \in {"none", "done"} /\ o \notin mirror
        /\ State(o) \in Terminal
  <2> SUFFICES ASSUME NEW o \in Ops, Present(o), ops[o].scope \in gone
               PROVE  /\ runner[o] \in {"none", "done"} /\ o \notin mirror
                      /\ State(o) \in Terminal
    BY <1>4
  <2>1. o \in OpsOf(ops[o].scope)
    BY DEF OpsOf
  <2> QED BY <1>1, <1>2, <2>1 DEF Unresolved
<1>6. \A s \in Scopes : /\ Exists(s)' <=> Exists(s) /\ s \notin gone
                        /\ s \notin gone => scopes'[s] = scopes[s] /\ evidence'[s] = evidence[s]
                        /\ s \in gone => evidence'[s] = Unseen
  BY <1>1 DEF Exists
<1>7. \A s \in Scopes \ gone : OpsOf(s)' = OpsOf(s)
  BY <1>4 DEF OpsOf
<1>8. /\ scopes' \in [Scopes -> ScopeRecord \cup {NoScope}]
      /\ ops' \in [Ops -> OpRecord \cup {NoRecord}]
  BY <1>1, <1>3 DEF TypeOK
<1>9. evidence' \in [Scopes -> [Ops -> States \cup {"absent", "unseen"}]]
  <2>1. Unseen \in [Ops -> States \cup {"absent", "unseen"}]
    BY DEF Unseen
  <2> QED BY <1>1, <1>3, <2>1 DEF TypeOK
<1> QED BY <1>1, <1>2, <1>4, <1>5, <1>6, <1>7, <1>8, <1>9

LEMMA PrunePreserves ==
  ASSUME JournalInv, NEW expired \in SUBSET Scopes, Prune(expired)
  PROVE  JournalInv'
<1>1. PICK gone \in SUBSET Scopes :
        /\ \A s \in gone : s \notin Protected /\ Unresolved(s) = {}
        /\ \A s \in Scopes : /\ Exists(s)' <=> Exists(s) /\ s \notin gone
                             /\ s \notin gone => /\ scopes'[s] = scopes[s]
                                                 /\ evidence'[s] = evidence[s]
                                                 /\ OpsOf(s)' = OpsOf(s)
                             /\ s \in gone => evidence'[s] = Unseen
        /\ \A o \in Ops : /\ Present(o)' <=> Present(o) /\ ops[o].scope \notin gone
                          /\ Present(o)' => ops'[o] = ops[o]
                          /\ Present(o) /\ ~Present(o)' =>
                               /\ runner[o] \in {"none", "done"} /\ o \notin mirror
                               /\ State(o) \in Terminal
        /\ scopes' \in [Scopes -> ScopeRecord \cup {NoScope}]
        /\ ops' \in [Ops -> OpRecord \cup {NoRecord}]
        /\ evidence' \in [Scopes -> [Ops -> States \cup {"absent", "unseen"}]]
        /\ live' \subseteq live
        /\ UNCHANGED <<runner, mirror, stale, effect, retained, crashes>>
  BY PrunedFacts
<1> USE DEF JournalInv
<1>2. TypeOK'
  BY <1>1 DEF TypeOK
<1>3. \A o \in Ops : Present(o) => ops[o].scope \in Scopes
  BY OpFacts DEF TypeOK, OpsTable
<1>4. RunnerInv' /\ EffectsAreWrittenAhead'
  BY <1>1 DEF RunnerInv, EffectsAreWrittenAhead, Within, State
<1>5. HomeInv'
  BY <1>1, <1>3 DEF HomeInv
<1>6. ParentInv'
  <2>1. \A s \in Scopes : Exists(s)' => (Lisp(s)' <=> Lisp(s))
    BY <1>1 DEF Lisp
  <2>2. \A p \in Ops : Present(p)' => State(p)' = State(p) /\ (Owned(p)' <=> Owned(p))
    BY <1>1, <1>3 DEF State, Owned, Lisp
  <2> QED BY <1>1, <2>1, <2>2 DEF ParentInv
<1>7. MirrorInv'
  BY <1>1, <1>3 DEF MirrorInv, ParentOf, TypeOK
<1>8. EvidenceInv'
  <2> SUFFICES ASSUME NEW s \in Scopes, evidence'[s] # Unseen
               PROVE  /\ Exists(s)' /\ scopes'[s].sealed
                      /\ \A o \in OpsOf(s)' : State(o)' \in Terminal
                      /\ \A o \in Ops : evidence'[s][o] = IF o \in OpsOf(s)' THEN State(o)' ELSE "absent"
    BY DEF EvidenceInv, Unseen
  <2>1. s \notin gone
    BY <1>1
  <2>2. \A o \in OpsOf(s) : o \in Ops /\ State(o)' = State(o)
    BY <1>1, <2>1 DEF OpsOf, State
  <2> QED BY <1>1, <2>1, <2>2 DEF EvidenceInv
<1>9. AncestorsAreKept'
  <2> SUFFICES ASSUME NEW s \in Scopes, Exists(s)', scopes'[s].parent # NoOp,
                      s \in retained \/ Unresolved(s)' # {}
               PROVE  ops'[scopes'[s].parent] # NoRecord
    BY <1>1 DEF AncestorsAreKept, Present
  <2>1. s \notin gone /\ Exists(s) /\ scopes'[s] = scopes[s] /\ scopes[s].parent \in Ops
    BY <1>1, ScopeFacts DEF TypeOK, ScopesTable
  <2> DEFINE p == scopes[s].parent
  <2>2. Unresolved(s)' \subseteq Unresolved(s)
    BY <1>1, <2>1 DEF Unresolved, OpsOf, State
  <2>3. Present(p)
    BY <2>1, <2>2 DEF AncestorsAreKept
  <2>4. s \in Protected
    <3>1. s \in Roots
      BY <2>2 DEF Roots, Unresolved, OpsOf
    <3> QED BY <3>1, ProtectedClosed
  <2>5. ops[p].scope \in Protected
    <3>1. ops[p].scope \in ParentScopes(Protected)
      BY <2>1, <2>3, <2>4 DEF ParentScopes
    <3> QED BY <3>1, ProtectedClosed
  <2>6. ops[p].scope \notin gone
    BY <1>1, <2>5
  <2> QED BY <1>1, <2>1, <2>3, <2>6 DEF Present
<1> QED BY <1>2, <1>4, <1>5, <1>6, <1>7, <1>8, <1>9

-----------------------------------------------------------------------------
(* Every step.                                                              *)

LEMMA ProceedSteps == ASSUME JournalInv, NEW o \in Ops, Proceed(o) PROVE CallStep
<1>1. CASE Claim(o)
  BY <1>1, ClaimStep
<1>2. CASE ClaimRefused(o)
  BY <1>2, OtherSteps
<1>3. CASE Return(o)
  <2>1. CASE \E receipt \in Receipts : Observe(o, receipt)
    BY <2>1, ObserveSteps
  <2>2. CASE \E receipt \in Receipts : ObserveRefused(o, receipt)
    BY <2>2, ReturnSteps
  <2>3. CASE ReturnWithoutReceipt(o)
    BY <2>3, ReturnSteps
  <2>4. CASE \E denied \in BOOLEAN : DispatchThrows(o, denied)
    BY <2>4, ThrowSteps
  <2> QED BY <1>3, <2>1, <2>2, <2>3, <2>4 DEF Return
<1>4. CASE MirrorParent(o)
  BY <1>4, MirrorStep
<1>5. CASE Settle(o) \/ Deliver(o)
  BY <1>5, DeliverySteps
<1> QED BY <1>1, <1>2, <1>3, <1>4, <1>5 DEF Proceed

LEMMA StepPreserves == JournalInv /\ [Next]_vars => JournalInv'
<1> SUFFICES ASSUME JournalInv, [Next]_vars PROVE JournalInv'
  OBVIOUS
<1>1. CASE OpenScope
  BY <1>1, CreatePreserves DEF OpenScope
<1>2. CASE \E s \in Scopes : Seal(s) \/ \E retain \in BOOLEAN : Snapshot(s, retain)
  BY <1>2, SealPreserves, SnapshotPreserves
<1>3. CASE \E expired \in SUBSET Scopes : Prune(expired)
  BY <1>3, PrunePreserves
<1>4. ASSUME NEW o \in Ops,
             \/ \E s \in Scopes : Run(o, s)
             \/ Proceed(o) \/ Replay(o) \/ Abandon(o)
             \/ \E receipt \in Receipts : Journal(o, receipt)
      PROVE  JournalInv'
  <2>1. CASE \E s \in Scopes : Run(o, s)
    BY <2>1, RefusedPreserves, AdmitPreserves DEF Run
  <2>2. CASE Proceed(o)
    BY <2>2, ProceedSteps, CallStepPreserves
  <2>3. CASE Replay(o) \/ Abandon(o)
    BY <2>3, OtherSteps, CallStepPreserves
  <2>4. CASE \E receipt \in Receipts : Journal(o, receipt)
    BY <2>4, ObserveSteps, CallStepPreserves
  <2> QED BY <1>4, <2>1, <2>2, <2>3, <2>4
<1>5. CASE Crash
  BY <1>5, CrashStep, CallStepPreserves
<1>6. CASE Recover
  BY <1>6, RecoverStep, CallStepPreserves
<1>7. CASE UNCHANGED vars
  BY <1>7, StutterStep, CallStepPreserves
<1> QED BY <1>1, <1>2, <1>3, <1>4, <1>5, <1>6, <1>7 DEF Next

THEOREM JournalInvariant == Spec => []JournalInv
<1> QED BY InitHolds, StepPreserves, PTL DEF Spec

(* The tables, the calls and the history always have their types.           *)
THEOREM JournalTypeCorrect == Spec => []TypeOK
<1>1. JournalInv => TypeOK
  BY DEF JournalInv
<1> QED BY <1>1, JournalInvariant, PTL

(* Whatever is replayed, recovered, pruned or lost in a crash, an effect is *)
(* dispatched at most once, and never behind a record that is still merely  *)
(* prepared (claim() and runManagedOperation()).                            *)
THEOREM EffectsWrittenAhead == Spec => []EffectsAreWrittenAhead
<1>1. JournalInv => EffectsAreWrittenAhead
  BY DEF JournalInv
<1> QED BY <1>1, JournalInvariant, PTL

(* Until its scope is pruned, what the first complete snapshot of an owned  *)
(* call said stays true of the records: no late receipt, mirror, recovery   *)
(* or human changes it (snapshotForOriginal() and transition()).            *)
THEOREM EvidenceStaysFinal == Spec => []CompleteEvidenceIsFinal
<1>1. JournalInv => CompleteEvidenceIsFinal
  BY DEF JournalInv, EvidenceInv, CompleteEvidenceIsFinal
<1> QED BY <1>1, JournalInvariant, PTL

(* prune() never takes the parent of a record that is open or retained,     *)
(* however the scopes are nested.                                           *)
THEOREM AncestorsStay == Spec => []AncestorsAreKept
<1>1. JournalInv => AncestorsAreKept
  BY DEF JournalInv
<1> QED BY <1>1, JournalInvariant, PTL

-----------------------------------------------------------------------------
(* The journal implements the ledger.                                       *)

phaseMap     == [o \in Ops |-> PhaseOf(o)]
performedMap == {o \in Ops : effect[o] > 0}

LedgerStep == [Ledger!LedgerNext]_<<phaseMap, performedMap>>

LEMMA InitMaps == Init => Ledger!LedgerInit
BY DEF Init, Ledger!LedgerInit, PhaseOf, Present

LEMMA SameMaps == ops' = ops /\ effect' = effect => LedgerStep
BY DEF LedgerStep, phaseMap, performedMap, PhaseOf, Present, State

(* Records are concluded together, or none is.                              *)
LEMMA ClosingMaps ==
  ASSUME effect' = effect,
         \A o \in Ops : \/ PhaseOf(o)' = PhaseOf(o)
                        \/ PhaseOf(o) = "open" /\ PhaseOf(o)' = "closed"
  PROVE  LedgerStep
<1> DEFINE E == {o \in Ops : PhaseOf(o)' # PhaseOf(o)}
<1>1. performedMap' = performedMap
  BY DEF performedMap
<1>2. CASE E = {}
  BY <1>1, <1>2 DEF LedgerStep, phaseMap
<1>3. CASE E # {}
  <2>1. phaseMap' = [o \in Ops |-> IF o \in E THEN "closed" ELSE phaseMap[o]]
    BY DEF phaseMap
  <2>2. \A o \in E : phaseMap[o] = "open"
    BY DEF phaseMap
  <2>3. Ledger!Close(E)
    BY <1>1, <1>3, <2>1, <2>2 DEF Ledger!Close, phaseMap, performedMap
  <2>4. E \in SUBSET Ops
    OBVIOUS
  <2> QED BY <2>3, <2>4 DEF LedgerStep, Ledger!LedgerNext
<1> QED BY <1>2, <1>3

LEMMA ForgettingMaps ==
  ASSUME effect' = effect,
         \A o \in Ops : \/ PhaseOf(o)' = PhaseOf(o)
                        \/ PhaseOf(o) = "closed" /\ PhaseOf(o)' = "absent"
  PROVE  LedgerStep
<1> DEFINE E == {o \in Ops : PhaseOf(o)' # PhaseOf(o)}
<1>1. performedMap' = performedMap
  BY DEF performedMap
<1>2. CASE E = {}
  BY <1>1, <1>2 DEF LedgerStep, phaseMap
<1>3. CASE E # {}
  <2>1. phaseMap' = [o \in Ops |-> IF o \in E THEN "absent" ELSE phaseMap[o]]
    BY DEF phaseMap
  <2>2. \A o \in E : phaseMap[o] = "closed"
    BY DEF phaseMap
  <2>3. Ledger!Forget(E)
    BY <1>1, <1>3, <2>1, <2>2 DEF Ledger!Forget, phaseMap, performedMap
  <2>4. E \in SUBSET Ops
    OBVIOUS
  <2> QED BY <2>3, <2>4 DEF LedgerStep, Ledger!LedgerNext
<1> QED BY <1>2, <1>3

(* A step of calls that leaves what is prepared alone only concludes.       *)
LEMMA CallMaps ==
  ASSUME CallStep, effect' = effect,
         \A o \in Ops : Present(o) /\ State(o) = "prepared" => ops'[o] = ops[o]
  PROVE  LedgerStep
<1> SUFFICES ASSUME NEW o \in Ops
             PROVE  \/ PhaseOf(o)' = PhaseOf(o)
                    \/ PhaseOf(o) = "open" /\ PhaseOf(o)' = "closed"
  BY ClosingMaps
<1>1. Kept(o)
  BY DEF CallStep
<1>2. CASE ~Present(o)
  BY <1>1, <1>2 DEF Kept, PhaseOf
<1>3. CASE Present(o) /\ State(o) = "prepared"
  BY <1>3 DEF PhaseOf, Present, State
<1>4. CASE Present(o) /\ State(o) # "prepared"
  BY <1>1, <1>4 DEF Kept, PhaseOf
<1> QED BY <1>2, <1>3, <1>4

(* Claiming and replaying open what was intended.                           *)
LEMMA OpeningMaps ==
  ASSUME JournalInv, NEW o \in Ops, Claim(o) \/ Replay(o)
  PROVE  LedgerStep
<1>1. Present(o) /\ State(o) = "prepared" /\ OpsTable /\ MoveTo(o, "dispatching")
  BY DEF JournalInv, TypeOK, OpsTable, RunnerInv, Claim, Replay, Claimable
<1>2. /\ Present(o)' /\ State(o)' = "dispatching"
      /\ \A p \in Ops \ {o} : ops'[p] = ops[p]
  BY <1>1, Moved DEF States
<1>3. PhaseOf(o) = "intended" /\ PhaseOf(o)' = "open" /\ \A p \in Ops \ {o} : PhaseOf(p)' = PhaseOf(p)
  BY <1>1, <1>2 DEF PhaseOf, Terminal, Present, State
<1>4. phaseMap[o] = "intended" /\ phaseMap' = [phaseMap EXCEPT ![o] = "open"]
  BY <1>3 DEF phaseMap
<1>5. performedMap' \in {performedMap, performedMap \cup {o}}
  <2>1. CASE effect' = effect
    BY <2>1 DEF performedMap
  <2>2. CASE effect' = [effect EXCEPT ![o] = @ + 1]
    BY <2>2 DEF performedMap, JournalInv, TypeOK
  <2> QED BY <2>1, <2>2 DEF Claim, Replay
<1>6. Ledger!Open(o)
  BY <1>4, <1>5 DEF Ledger!Open, phaseMap, performedMap
<1> QED BY <1>6 DEF LedgerStep, Ledger!LedgerNext

(* prepare() writes the intention, of an effect that did not happen yet.    *)
LEMMA AdmitMaps ==
  ASSUME JournalInv, NEW o \in Ops, NEW s \in Scopes, NEW route \in {"native", "owned"},
         Admit(o, s, route)
  PROVE  LedgerStep
<1> DEFINE r == [state |-> "prepared", scope |-> s, route |-> route, delivery |-> "pending"]
<1>1. r.state = "prepared" /\ r # NoRecord
  BY DEF NoRecord
<1>2. ~Present(o) /\ ops'[o] = r /\ \A p \in Ops \ {o} : ops'[p] = ops[p]
  BY DEF Admit, JournalInv, TypeOK
<1> HIDE DEF r
<1>3. PhaseOf(o) = "absent" /\ PhaseOf(o)' = "intended" /\ \A p \in Ops \ {o} : PhaseOf(p)' = PhaseOf(p)
  BY <1>1, <1>2 DEF PhaseOf, Present, State
<1>4. phaseMap[o] = "absent" /\ phaseMap' = [phaseMap EXCEPT ![o] = "intended"]
  BY <1>3 DEF phaseMap
<1>5. o \notin performedMap /\ performedMap' = performedMap
  BY DEF performedMap, JournalInv, RunnerInv, Admit, MayRun
<1>6. Ledger!Intend(o)
  BY <1>4, <1>5 DEF Ledger!Intend, phaseMap, performedMap
<1> QED BY <1>6 DEF LedgerStep, Ledger!LedgerNext

LEMMA PruneMaps ==
  ASSUME JournalInv, NEW expired \in SUBSET Scopes, Prune(expired)
  PROVE  LedgerStep
<1>1. /\ \A o \in Ops : /\ Present(o)' => Present(o) /\ ops'[o] = ops[o]
                        /\ Present(o) /\ ~Present(o)' => State(o) \in Terminal
      /\ effect' = effect
  BY PrunedFacts
<1>2. \A o \in Ops : \/ PhaseOf(o)' = PhaseOf(o)
                     \/ PhaseOf(o) = "closed" /\ PhaseOf(o)' = "absent"
  BY <1>1 DEF PhaseOf, Present, State, Terminal
<1> QED BY <1>1, <1>2, ForgettingMaps

(* No step but a claim or a replay touches a record that is still prepared. *)
LEMMA ProceedMaps == ASSUME JournalInv, NEW o \in Ops, Proceed(o) PROVE LedgerStep
<1> USE DEF JournalInv
<1>1. OpsTable
  BY DEF TypeOK, OpsTable
<1>2. CASE Claim(o)
  BY <1>2, OpeningMaps
<1>3. CASE ClaimRefused(o) \/ ReturnWithoutReceipt(o) \/ \E receipt \in Receipts : ObserveRefused(o, receipt)
  BY <1>3, SameMaps DEF ClaimRefused, ReturnWithoutReceipt, ObserveRefused
<1>4. ASSUME \/ \E receipt \in Receipts : Observe(o, receipt)
             \/ \E denied \in BOOLEAN : DispatchThrows(o, denied)
             \/ Settle(o) \/ Deliver(o)
      PROVE  LedgerStep
  <2>1. State(o) # "prepared"
    BY <1>4 DEF Observe, DispatchThrows, Settle, Deliver, RunnerInv, Within
  <2>2. \A p \in Ops \ {o} : ops'[p] = ops[p]
    BY <1>1, <1>4 DEF Observe, DispatchThrows, Settle, Deliver, MoveTo, OpsTable
  <2>3. effect' = effect
    BY <1>4 DEF Observe, DispatchThrows, Settle, Deliver
  <2>4. CallStep
    BY <1>4, ObserveSteps, ThrowSteps, DeliverySteps
  <2> QED BY <2>1, <2>2, <2>3, <2>4, CallMaps
<1>5. CASE MirrorParent(o)
  <2>1. CallStep /\ effect' = effect
    BY <1>5, MirrorStep DEF MirrorParent
  <2>2. CASE ops' = ops
    BY <2>1, <2>2, SameMaps
  <2>3. CASE ops' # ops
    <3>1. HasParent(o) /\ ops' = [ops EXCEPT ![ParentOf(o)].state = State(o)]
      BY <1>5, <2>3 DEF MirrorParent, MirrorRefused
    <3>2. Present(o) /\ ops[o].scope \in Scopes /\ Exists(ops[o].scope)
      BY <1>1, <1>5, OpFacts DEF MirrorParent, MirrorInv, HomeInv
    <3>3. State(ParentOf(o)) # "prepared"
      BY <3>1, <3>2 DEF HasParent, ParentInv, ParentOf
    <3>4. \A p \in Ops \ {ParentOf(o)} : ops'[p] = ops[p]
      BY <1>1, <3>1 DEF OpsTable
    <3> QED BY <2>1, <3>3, <3>4, CallMaps
  <2> QED BY <2>2, <2>3
<1> QED BY <1>2, <1>3, <1>4, <1>5 DEF Proceed, Return

LEMMA JournalMaps ==
  ASSUME JournalInv, NEW o \in Ops, NEW receipt \in Receipts, Journal(o, receipt)
  PROVE  LedgerStep
<1> USE DEF JournalInv
<1>1. OpsTable
  BY DEF TypeOK, OpsTable
<1>2. State(o) # "prepared"
  BY DEF Journal, EffectsAreWrittenAhead, TypeOK
<1>3. effect' = effect /\ \A p \in Ops \ {o} : ops'[p] = ops[p]
  BY <1>1 DEF Journal, MoveTo, OpsTable
<1>4. CallStep
  BY ObserveSteps
<1> QED BY <1>2, <1>3, <1>4, CallMaps

LEMMA HostMaps == ASSUME JournalInv, Crash \/ Recover \/ \E o \in Ops : Abandon(o) PROVE LedgerStep
<1> USE DEF JournalInv
<1>1. OpsTable
  BY DEF TypeOK, OpsTable
<1>2. CASE Crash
  BY <1>2, SameMaps DEF Crash
<1>3. CASE Recover
  <2>1. \A p \in Ops : State(p) = "prepared" => ops'[p] = ops[p]
    BY <1>3 DEF Recover, Interrupted
  <2> QED BY <1>3, <2>1, RecoverStep, CallMaps DEF Recover
<1>4. ASSUME NEW o \in Ops, Abandon(o) PROVE LedgerStep
  <2>1. State(o) # "prepared" /\ effect' = effect /\ \A p \in Ops \ {o} : ops'[p] = ops[p]
    BY <1>1, <1>4 DEF Abandon, MoveTo, OpsTable
  <2> QED BY <1>4, <2>1, OtherSteps, CallMaps
<1> QED BY <1>2, <1>3, <1>4

LEMMA StepMaps == JournalInv /\ [Next]_vars => LedgerStep
<1> SUFFICES ASSUME JournalInv, [Next]_vars PROVE LedgerStep
  OBVIOUS
<1>1. CASE \/ OpenScope
           \/ \E s \in Scopes : Seal(s) \/ \E retain \in BOOLEAN : Snapshot(s, retain)
           \/ UNCHANGED vars
  BY <1>1, SameMaps DEF OpenScope, CreateScope, Seal, Snapshot, vars
<1>2. CASE \E expired \in SUBSET Scopes : Prune(expired)
  BY <1>2, PruneMaps
<1>3. ASSUME NEW o \in Ops,
             \/ \E s \in Scopes : Run(o, s)
             \/ Proceed(o) \/ Replay(o) \/ Abandon(o)
             \/ \E receipt \in Receipts : Journal(o, receipt)
      PROVE  LedgerStep
  <2>1. CASE \E s \in Scopes : AdmissionRefused(o, s)
    BY <2>1, SameMaps DEF AdmissionRefused
  <2>2. CASE \E s \in Scopes : \E route \in {"native", "owned"} : Admit(o, s, route)
    BY <2>2, AdmitMaps
  <2>3. CASE Proceed(o)
    BY <2>3, ProceedMaps
  <2>4. CASE Replay(o)
    BY <2>4, OpeningMaps
  <2>5. CASE Abandon(o)
    BY <2>5, HostMaps
  <2>6. CASE \E receipt \in Receipts : Journal(o, receipt)
    BY <2>6, JournalMaps
  <2> QED BY <1>3, <2>1, <2>2, <2>3, <2>4, <2>5, <2>6 DEF Run
<1>4. CASE Crash \/ Recover
  BY <1>4, HostMaps
<1> QED BY <1>1, <1>2, <1>3, <1>4 DEF Next

(* The journal implements the ledger of effects: an effect that happens was *)
(* intended on record before, it happens once, and its record is forgotten  *)
(* only after it was concluded, for any nesting of calls, any receipts and  *)
(* any crashes (managed-operation-journal.ts and managed-operation-runner). *)
THEOREM JournalImplementsLedger == Spec => ImplementsLedger
<1>1. Init => Ledger!LedgerInit
  BY InitMaps
<1>2. JournalInv /\ [Next]_vars => [Ledger!LedgerNext]_Ledger!ledgerVars
  BY StepMaps DEF LedgerStep, Ledger!ledgerVars, phaseMap, performedMap
<1> QED BY <1>1, <1>2, JournalInvariant, PTL DEF Spec, ImplementsLedger, Ledger!LedgerSpec
=============================================================================
