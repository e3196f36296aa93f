------------------------- MODULE TaskAuthorityProofs -------------------------
(* QuietEnd and StopMeansStopped of TaskAuthority, for any calls and any    *)
(* bounds.  The argument: whatever can act has a started row (Started), so  *)
(* a reader that finds none finds nothing at work; and no lease is valid    *)
(* while a stop is pending, so what a driver saw ended stays ended until it *)
(* confirms (DriverHasRequest, SettledIsStopped).                           *)
EXTENDS TaskAuthority, TLAPS

TaskType == [state : {"Working", "Pending", "Done", "Ignore"}, run : {"active", "ended"},
             pending : {"none", "wait", "ignore"}, generation : Nat, owner : Sessions]
CallType == [at : {"idle", "leased", "registered", "saved", "cleared", "running", "failed", "done"},
             generation : Nat, owner : Sessions, aborted : BOOLEAN]
StopType == [at : {"off", "children", "settling", "owned", "waiting", "idle", "checkpoint", "failed", "overtaken"},
             generation : Nat, waits : SUBSET Calls]
Rows == {"none", "started", "completed", "unproven"}

Types ==
  /\ task \in TaskType /\ receipt \in [Calls -> Rows]
  /\ call \in [Calls -> CallType] /\ stop \in [Stops -> StopType]

Started == \A c \in Calls : call[c].at \in {"saved", "cleared", "running"} => receipt[c] = "started"
DriverHasRequest == ~Idles("finish") => task.pending # "none"
Stopped == \A c \in Calls : ~Live(c)
SettledIsStopped == stop["finish"].at \in {"idle", "checkpoint"} => Stopped

IInv == Types /\ Started /\ QuietEnd /\ DriverHasRequest /\ SettledIsStopped

-----------------------------------------------------------------------------
(* What the small updates do to the calls and to the drivers.               *)
LEMMA MovesIs ==
  ASSUME Types, NEW c \in Calls, NEW a \in {"leased", "registered", "saved", "cleared", "running", "failed"}, Moves(c, a)
  PROVE  /\ call' \in [Calls -> CallType] /\ call'[c].at = a /\ call'[c].owner = call[c].owner
         /\ call'[c].aborted = call[c].aborted
         /\ \A d \in Calls : d # c => call'[d] = call[d]
  BY DEF Moves, Types, CallType

LEMMA WithoutIs == \A a \in {"idle", "done"} : Without(a) \in CallType /\ Without(a).at = a
  BY DEF Without, CallType, Sessions

LEMMA OverIs ==
  ASSUME Types, NEW c \in Calls, NEW r \in Rows, Over(c, r)
  PROVE  /\ call' \in [Calls -> CallType] /\ call'[c].at = "done" /\ receipt' \in [Calls -> Rows]
         /\ \A d \in Calls : d # c => call'[d] = call[d] /\ receipt'[d] = receipt[d]
  BY WithoutIs DEF Over, Types

LEMMA AbortIs ==
  ASSUME Types, NEW cs, Abort(cs)
  PROVE  /\ call' \in [Calls -> CallType]
         /\ \A d \in Calls : call'[d].at = call[d].at /\ call'[d].owner = call[d].owner
                             /\ (call[d].aborted => call'[d].aborted)
<1>1. \A d \in Calls : call[d] \in CallType
  BY DEF Types
<1>2. \A d \in Calls : LET v == [call[d] EXCEPT !.aborted = TRUE] IN
        v \in CallType /\ v.at = call[d].at /\ v.owner = call[d].owner /\ v.aborted
  BY <1>1 DEF CallType
<1>3. \A d \in Calls : call'[d] = IF d \in cs /\ ~At(d, "done") THEN [call[d] EXCEPT !.aborted = TRUE] ELSE call[d]
  BY DEF Abort
<1> QED
  BY <1>1, <1>2, <1>3 DEF Abort

LEMMA DrivesIs ==
  ASSUME Types, NEW k \in Stops, NEW w \in SUBSET Calls,
         NEW a \in {"settling", "owned", "waiting", "idle", "checkpoint", "failed", "overtaken"}, Drives(k, a, w)
  PROVE  /\ stop' \in [Stops -> StopType] /\ stop'[k].at = a
         /\ \A j \in Stops : j # k => stop'[j] = stop[j]
  BY DEF Drives, Types, StopType

LEMMA LeavesIs ==
  ASSUME Types, NEW k \in Stops, Leaves(k)
  PROVE  /\ stop' \in [Stops -> StopType] /\ stop'[k].at = "off"
         /\ \A j \in Stops : j # k => stop'[j] = stop[j]
  BY DEF Leaves, Off, Types, StopType

LEMMA BeginsIs ==
  ASSUME Types, NEW k \in Stops, NEW g \in Nat, stop' = Begins(k, g)
  PROVE  /\ stop' \in [Stops -> StopType] /\ stop'[k].at = "children"
         /\ \A j \in Stops : j # k => stop'[j] = stop[j]
  BY DEF Begins, Types, StopType

LEMMA UpdateIs ==
  ASSUME Types, NEW s \in {"Working", "Pending", "Done", "Ignore"}, NEW r \in {"active", "ended"},
         NEW p \in {"none", "wait", "ignore"}, NEW o \in Sessions, Update(s, r, p, o)
  PROVE  task' \in TaskType /\ task'.state = s /\ task'.pending = p /\ task'.owner = o
  BY DEF Update, Types, TaskType

(* Nothing at work: the rows say so.                                        *)
LEMMA NoRowNoWork ==
  ASSUME Started, \A c \in Calls : receipt[c] # "started"
  PROVE  Stopped
  BY DEF Started, Stopped, Live, At

-----------------------------------------------------------------------------
(* The invariant after a step that starts nothing and leaves the task and   *)
(* the drivers alone.                                                       *)
Keeps == /\ call' \in [Calls -> CallType] /\ receipt' \in [Calls -> Rows] /\ Started'
         /\ \A c \in Calls : Live(c)' => Live(c) /\ call'[c].owner = call[c].owner

LEMMA Kept ==
  ASSUME IInv, Keeps, UNCHANGED <<task, stop>>
  PROVE  IInv'
  BY DEF IInv, Keeps, Types, QuietEnd, DriverHasRequest, SettledIsStopped, Stopped, Idles

(* The calls and their rows alone.                                          *)
LEMMA SameCalls ==
  ASSUME IInv, UNCHANGED <<call, receipt>>
  PROVE  Keeps /\ (Stopped => Stopped') /\ \A c \in Calls : Live(c)' = Live(c)
  BY DEF IInv, Keeps, Types, Started, Live, At, Stopped

-----------------------------------------------------------------------------
(* A call begins or goes on without becoming able to act; only Save of a    *)
(* child and Clear make one able to, under a valid lease.                   *)
LEMMA Inert ==
  ASSUME IInv, NEW c \in Calls, UNCHANGED <<task, stop>>,
         \/ Capture(c) \/ Register(c) \/ Refuse(c) \/ Launch(c) \/ LaunchFails(c) \/ Ends(c) \/ EndsUnproven(c)
  PROVE  Keeps
<1>1. CASE Capture(c)
  <2>1. call' = [call EXCEPT ![c] = [at |-> "leased", generation |-> task.generation, owner |-> task.owner, aborted |-> FALSE]]
    BY <1>1 DEF Capture
  <2>2. [at |-> "leased", generation |-> task.generation, owner |-> task.owner, aborted |-> FALSE] \in CallType
    BY DEF IInv, Types, TaskType, CallType
  <2>3. call' \in [Calls -> CallType] /\ call'[c].at = "leased" /\ \A d \in Calls : d # c => call'[d] = call[d]
    BY <2>1, <2>2 DEF IInv, Types
  <2> QED
    BY <1>1, <2>3 DEF Capture, IInv, Types, Started, Keeps, Live, At
<1>2. CASE Register(c)
  <2>1. Moves(c, "registered") /\ UNCHANGED receipt
    BY <1>2 DEF Register
  <2> QED
    BY <2>1, MovesIs DEF IInv, Types, Started, Keeps, Live, At
<1>3. ASSUME NEW r \in {"completed", "unproven"}, Over(c, r) PROVE Keeps
  <2>1. /\ call' \in [Calls -> CallType] /\ call'[c].at = "done" /\ receipt' \in [Calls -> Rows]
        /\ \A d \in Calls : d # c => call'[d] = call[d] /\ receipt'[d] = receipt[d]
    BY <1>3, OverIs DEF IInv, Rows
  <2> QED
    BY <2>1 DEF IInv, Started, Keeps, Live, At
<1>4. CASE Refuse(c)
  BY <1>3, <1>4 DEF Refuse
<1>5. CASE Ends(c)
  BY <1>3, <1>5 DEF Ends
<1>6. CASE EndsUnproven(c)
  BY <1>3, <1>6 DEF EndsUnproven
<1>7. CASE LaunchFails(c)
  <2>1. Moves(c, "failed") /\ UNCHANGED receipt
    BY <1>7 DEF LaunchFails
  <2> QED
    BY <2>1, MovesIs DEF IInv, Types, Started, Keeps, Live, At
<1>8. CASE Launch(c)
  <2>1. CASE c \in Execs /\ call[c].aborted
    BY <1>3, <1>8, <2>1 DEF Launch
  <2>2. CASE ~(c \in Execs /\ call[c].aborted)
    <3>1. Moves(c, "running") /\ UNCHANGED receipt
      BY <1>8, <2>2 DEF Launch
    <3>2. Live(c) /\ receipt[c] = "started"
      BY <1>8, <2>2 DEF Launch, Live, At, IInv, Started
    <3> QED
      BY <3>1, <3>2, MovesIs DEF IInv, Types, Started, Keeps, Live, At
  <2> QED
    BY <2>1, <2>2
<1> QED
  BY <1>1, <1>2, <1>4, <1>5, <1>6, <1>7, <1>8

(* A call gets the power to act while its lease is valid: the task is       *)
(* Working, its owner is the call's, and no stop is pending.                *)
LEMMA Empowered ==
  ASSUME IInv, NEW c \in Calls, UNCHANGED <<task, stop>>, Save(c) \/ Clear(c)
  PROVE  IInv'
<1>1. CASE Clear(c)
  <2>1. Moves(c, "cleared") /\ Valid(c) /\ UNCHANGED receipt /\ receipt[c] = "started"
    BY <1>1 DEF Clear, At, IInv, Started
  <2>2. call' \in [Calls -> CallType] /\ Started'
    BY <2>1, MovesIs DEF IInv, Started
  <2>3. QuietEnd'
    BY <2>1, MovesIs DEF IInv, QuietEnd, Valid, CanExecute, Live, At
  <2>4. stop["finish"].at \notin {"idle", "checkpoint"}
    BY <2>1 DEF Valid, CanExecute, IInv, DriverHasRequest, Idles
  <2> QED
    BY <2>1, <2>2, <2>3, <2>4 DEF IInv, Types, DriverHasRequest, SettledIsStopped, Idles
<1>2. CASE Save(c) /\ c \in Children /\ ~Valid(c)
  <2>1. Moves(c, "failed") /\ UNCHANGED receipt
    BY <1>2 DEF Save
  <2>2. Keeps
    BY <2>1, MovesIs DEF IInv, Types, Started, Keeps, Live, At
  <2> QED
    BY <2>2, Kept
<1>3. CASE Save(c) /\ ~(c \in Children /\ ~Valid(c))
  <2>1. Moves(c, "saved") /\ receipt' = [receipt EXCEPT ![c] = "started"]
    BY <1>3 DEF Save
  <2>2. receipt' \in [Calls -> Rows] /\ receipt'[c] = "started" /\ \A d \in Calls : d # c => receipt'[d] = receipt[d]
    BY <2>1 DEF IInv, Types, Rows
  <2>3. call' \in [Calls -> CallType] /\ Started'
    BY <2>1, <2>2, MovesIs DEF IInv, Started
  <2>4. CASE c \in Children
    <3>1. Valid(c)
      BY <1>3, <2>4
    <3>2. QuietEnd'
      BY <2>1, <3>1, MovesIs DEF IInv, QuietEnd, Valid, CanExecute, Live, At
    <3>3. stop["finish"].at \notin {"idle", "checkpoint"}
      BY <3>1 DEF Valid, CanExecute, IInv, DriverHasRequest, Idles
    <3> QED
      BY <2>2, <2>3, <3>2, <3>3 DEF IInv, Types, DriverHasRequest, SettledIsStopped, Idles
  <2>5. CASE c \notin Children
    <3>1. Keeps
      BY <2>1, <2>2, <2>3, <2>5, MovesIs DEF IInv, Keeps, Live, At
    <3> QED
      BY <3>1, Kept
  <2> QED
    BY <2>4, <2>5
<1> QED
  BY <1>1, <1>2, <1>3

-----------------------------------------------------------------------------
(* An operation on the task that needs no stop: what changes is its state,  *)
(* to Done only when nothing is at work.                                    *)
LEMMA Operates ==
  ASSUME IInv, Operate \/ Complete \/ EndRun
  PROVE  IInv' /\ task'.pending = task.pending
<1>1. ASSUME NEW s \in {"Working", "Pending", "Done", "Ignore"}, NEW r \in {"active", "ended"}, Becomes(s, r),
             UNCHANGED <<receipt, call, native, stop, disturbed>>, s = "Done" => Stopped
      PROVE  IInv' /\ task'.pending = task.pending
  <2>1. task' \in TaskType /\ task'.state = s /\ task'.pending = task.pending /\ task'.owner = task.owner
    <3>1. task.pending \in {"none", "wait", "ignore"} /\ task.owner \in Sessions
      BY DEF IInv, Types, TaskType
    <3> QED
      BY <1>1, <3>1, UpdateIs DEF Becomes, IInv
  <2>2. UNCHANGED <<receipt, call, stop>>
    BY <1>1
  <2>3. Keeps /\ (Stopped => Stopped') /\ \A c \in Calls : Live(c)' = Live(c)
    BY <2>2, SameCalls
  <2>4. QuietEnd'
    BY <1>1, <2>1, <2>2, <2>3 DEF QuietEnd, IInv, Stopped
  <2> QED
    BY <2>1, <2>2, <2>3, <2>4 DEF IInv, Keeps, Types, DriverHasRequest, SettledIsStopped, Idles
<1>2. task.run \in {"active", "ended"}
  BY DEF IInv, Types, TaskType
<1>3. CASE Operate
  BY <1>1, <1>2, <1>3 DEF Operate
<1>4. CASE Complete
  <2>1. Stopped
    BY <1>4, NoRowNoWork DEF Complete, IInv
  <2> QED
    BY <1>1, <1>2, <1>4, <2>1 DEF Complete
<1>5. CASE EndRun
  BY <1>1, <1>5 DEF EndRun
<1> QED
  BY <1>3, <1>4, <1>5

(* Calls only lose power here, and the task stays as it is: what remains is  *)
(* the drivers.                                                             *)
Weakens == /\ call' \in [Calls -> CallType] /\ UNCHANGED receipt /\ Started'
           /\ \A c \in Calls : Live(c)' => Live(c) /\ call'[c].owner = call[c].owner

LEMMA AbortWeakens ==
  ASSUME IInv, UNCHANGED receipt, UNCHANGED call \/ \E cs \in SUBSET Calls : Abort(cs)
  PROVE  Weakens
<1>1. CASE UNCHANGED call
  BY <1>1 DEF Weakens, IInv, Types, Started, Live, At
<1>2. CASE \E cs \in SUBSET Calls : Abort(cs)
  <2>1. PICK cs \in SUBSET Calls : Abort(cs)
    BY <1>2
  <2>2. /\ call' \in [Calls -> CallType]
        /\ \A d \in Calls : call'[d].at = call[d].at /\ call'[d].owner = call[d].owner
                            /\ (call[d].aborted => call'[d].aborted)
    BY <2>1, AbortIs DEF IInv
  <2> QED
    BY <2>2 DEF Weakens, IInv, Started, Live, At
<1> QED
  BY <1>1, <1>2

(* A driver moves, with the task unchanged.                                 *)
LEMMA DriverMoves ==
  ASSUME IInv, Weakens, UNCHANGED task, stop' \in [Stops -> StopType],
         ~Idles("finish")' => task.pending # "none",
         stop'["finish"].at \in {"idle", "checkpoint"} => Stopped
  PROVE  IInv'
<1>1. Stopped => Stopped'
  BY DEF Weakens, Stopped
<1>2. QuietEnd'
  BY DEF Weakens, IInv, QuietEnd
<1> QED
  BY <1>1, <1>2 DEF Weakens, IInv, Types, DriverHasRequest, SettledIsStopped

LEMMA Drivers ==
  ASSUME IInv, NEW k \in Stops, StopChildren(k) \/ ChildrenStopped(k) \/ StopOwned(k) \/ StopFails(k)
  PROVE  IInv' /\ UNCHANGED task
<1>1. UNCHANGED <<task, receipt>>
  BY DEF StopChildren, ChildrenStopped, StopOwned, StopFails
<1>2. UNCHANGED call \/ \E cs \in SUBSET Calls : Abort(cs)
  <2>1. {c \in Children : Known(c)} \in SUBSET Calls /\ {c \in Owned : Known(c)} \in SUBSET Calls
    BY DEF Calls, Owned
  <2> QED
    BY <2>1 DEF StopChildren, ChildrenStopped, StopOwned, StopFails
<1>3. /\ ~Idles(k)
      /\ \/ Leaves(k)
         \/ \E a \in {"settling", "owned", "waiting", "failed"}, w \in SUBSET Calls : Drives(k, a, w)
  <2>1. {c \in Children : Known(c)} \in SUBSET Calls /\ {c \in {c \in Owned : Known(c)} : ~At(c, "registered")} \in SUBSET Calls
        /\ {} \in SUBSET Calls
    BY DEF Calls, Owned
  <2> QED
    BY <2>1 DEF StopChildren, ChildrenStopped, StopOwned, StopFails, Idles
<1>4. /\ stop' \in [Stops -> StopType] /\ \A j \in Stops : j # k => stop'[j] = stop[j]
      /\ stop'[k].at \in {"off", "settling", "owned", "waiting", "failed"}
  BY <1>3, LeavesIs, DrivesIs DEF IInv
<1>5. Weakens
  BY <1>1, <1>2, AbortWeakens
<1>6. ~Idles("finish")' => task.pending # "none"
  BY <1>3, <1>4 DEF IInv, DriverHasRequest, Idles, Stops
<1>7. stop'["finish"].at \in {"idle", "checkpoint"} => Stopped
  BY <1>4 DEF IInv, SettledIsStopped, Stops
<1> QED
  BY <1>1, <1>4, <1>5, <1>6, <1>7, DriverMoves

(* The rows say that nothing is at work: the driver of a stop goes on, the  *)
(* one of a handoff gives the task to another owner.                        *)
LEMMA RowsSettle ==
  ASSUME IInv, NEW k \in Stops, OwnedStopped(k)
  PROVE  IInv' /\ (task.pending # "none" => task'.pending # "none")
<1>1. stop[k].at = "waiting" /\ ~Idles(k) /\ UNCHANGED <<receipt, call>>
  BY DEF OwnedStopped, Idles
<1>2. Weakens
  BY <1>1, AbortWeakens
<1>3. CASE ~Proven
  <2>1. UNCHANGED task /\ (Leaves(k) \/ Drives(k, "overtaken", {}))
    BY <1>3 DEF OwnedStopped
  <2>2. /\ stop' \in [Stops -> StopType] /\ \A j \in Stops : j # k => stop'[j] = stop[j]
        /\ stop'[k].at \in {"off", "overtaken"}
    BY <2>1, LeavesIs, DrivesIs DEF IInv
  <2> QED
    BY <1>1, <1>2, <2>1, <2>2, DriverMoves DEF IInv, DriverHasRequest, SettledIsStopped, Idles, Stops
<1>4. CASE Proven
  <2>1. Stopped
    BY <1>4, NoRowNoWork DEF Proven, IInv
  <2>2. CASE k = "finish"
    <3>1. UNCHANGED task /\ Drives(k, "idle", {})
      BY <1>4, <2>2 DEF OwnedStopped
    <3>2. stop' \in [Stops -> StopType]
      BY <3>1, DrivesIs DEF IInv
    <3> QED
      BY <1>1, <1>2, <2>1, <2>2, <3>1, <3>2, DriverMoves DEF IInv, DriverHasRequest
  <2>3. CASE k = "handoff"
    <3>1. Leaves(k) /\ (UNCHANGED task \/ (task.pending = "none" /\ Update(task.state, task.run, "none", Target)))
      BY <1>4, <2>3 DEF OwnedStopped
    <3>2. stop' \in [Stops -> StopType] /\ stop'["finish"] = stop["finish"]
      BY <2>3, <3>1, LeavesIs DEF IInv, Stops
    <3>3. CASE UNCHANGED task
      BY <1>2, <2>1, <3>2, <3>3, DriverMoves DEF IInv, DriverHasRequest, Idles
    <3>4. CASE task.pending = "none" /\ Update(task.state, task.run, "none", Target)
      <4>1. task' \in TaskType /\ task'.pending = "none"
        BY <3>4, UpdateIs DEF IInv, Types, TaskType, Sessions
      <4>2. Stopped'
        BY <2>1, <1>2 DEF Weakens, Stopped
      <4> QED
        BY <1>1, <1>2, <3>2, <3>4, <4>1, <4>2
        DEF Weakens, IInv, Types, QuietEnd, DriverHasRequest, SettledIsStopped, Stopped, Idles
    <3> QED
      BY <3>1, <3>3, <3>4
  <2> QED
    BY <2>2, <2>3 DEF Stops
<1> QED
  BY <1>3, <1>4

(* A stop is requested only when none is pending, so its driver is not yet  *)
(* at work.                                                                 *)
LEMMA Requests ==
  ASSUME IInv, RequestStop
  PROVE  IInv' /\ task.pending = "none"
<1>1. task.pending = "none" /\ task.state = "Working" /\ Idles("finish") /\ UNCHANGED receipt
  BY DEF RequestStop, CanExecute, IInv, DriverHasRequest
<1>2. PICK p \in {"wait", "ignore"} : Update(task.state, task.run, p, task.owner)
  BY DEF RequestStop
<1>3. task' \in TaskType /\ task'.state = task.state /\ task'.pending = p /\ task'.owner = task.owner
  <2>1. task.run \in {"active", "ended"} /\ task.owner \in Sessions
    BY DEF IInv, Types, TaskType
  <2> QED
    BY <1>1, <1>2, <2>1, UpdateIs DEF IInv
<1>4. stop' \in [Stops -> StopType] /\ stop'["finish"].at = "children"
  <2>1. stop' = Begins("finish", task.generation + 1) /\ task.generation + 1 \in Nat
    BY <1>1 DEF RequestStop, IInv, Types, TaskType
  <2> QED
    BY <2>1, BeginsIs DEF IInv, Stops
<1>5. UNCHANGED call \/ \E cs \in SUBSET Calls : Abort(cs)
  <2>1. {c \in Owned : ~At(c, "idle")} \in SUBSET Calls
    BY DEF Owned, Calls
  <2> QED
    BY <2>1 DEF RequestStop
<1>6. Weakens
  BY <1>1, <1>5, AbortWeakens
<1> QED
  BY <1>1, <1>3, <1>4, <1>6 DEF Weakens, IInv, Types, QuietEnd, DriverHasRequest, SettledIsStopped

(* The steps that start a driver, or change only the agents.                *)
LEMMA Starts ==
  ASSUME IInv, Handoff \/ Reopen \/ \E s \in Sessions : TurnStarts(s) \/ TurnEnds(s) \/ Retry(s)
  PROVE  IInv' /\ UNCHANGED task
<1>1. UNCHANGED <<task, call, receipt>>
  BY DEF Handoff, Reopen, TurnStarts, TurnEnds, Retry
<1>2. Weakens
  BY <1>1, AbortWeakens
<1>3. CASE UNCHANGED stop
  BY <1>1, <1>2, <1>3, DriverMoves DEF IInv, Types, DriverHasRequest, SettledIsStopped, Idles
<1>4. CASE \E k \in Stops : stop' = Begins(k, task.generation) /\ (k = "finish" => task.pending # "none")
  <2>1. PICK k \in Stops : stop' = Begins(k, task.generation) /\ (k = "finish" => task.pending # "none")
    BY <1>4
  <2>2. /\ stop' \in [Stops -> StopType] /\ stop'[k].at = "children"
        /\ \A j \in Stops : j # k => stop'[j] = stop[j]
    BY <2>1, BeginsIs DEF IInv, Types, TaskType
  <2> QED
    BY <1>1, <1>2, <2>1, <2>2, DriverMoves DEF IInv, DriverHasRequest, SettledIsStopped, Idles, Stops
<1>5. UNCHANGED stop \/ \E k \in Stops : stop' = Begins(k, task.generation) /\ (k = "finish" => task.pending # "none")
  BY DEF Handoff, Reopen, TurnStarts, TurnEnds, Retry, Stops
<1> QED
  BY <1>1, <1>3, <1>4, <1>5

LEMMA Crashes ==
  ASSUME IInv, Crash
  PROVE  IInv' /\ UNCHANGED task
<1>1. UNCHANGED <<task, receipt>>
  BY DEF Crash
<1>2. stop' \in [Stops -> StopType] /\ stop'["finish"].at = "off"
  BY DEF Crash, Off, StopType, Stops
<1>3. call' = [c \in Calls |-> Without(IF At(c, "idle") THEN "idle" ELSE "done")]
  BY DEF Crash
<1>4. call' \in [Calls -> CallType] /\ \A c \in Calls : call'[c].at \in {"idle", "done"}
  BY <1>3, WithoutIs
<1>5. Weakens
  BY <1>1, <1>4 DEF Weakens, Started, Live, At
<1> QED
  BY <1>1, <1>2, <1>5, DriverMoves DEF Idles

LEMMA Checkpoints ==
  ASSUME IInv, Checkpoint
  PROVE  IInv' /\ UNCHANGED task
<1>1. /\ stop["finish"].at = "idle" /\ Drives("finish", "checkpoint", {}) /\ UNCHANGED <<task, call, receipt>>
  BY DEF Checkpoint
<1>2. stop' \in [Stops -> StopType]
  BY <1>1, DrivesIs DEF IInv, Stops
<1>3. Weakens
  BY <1>1, AbortWeakens
<1> QED
  BY <1>1, <1>2, <1>3, DriverMoves DEF IInv, DriverHasRequest, SettledIsStopped, Idles

(* The confirmation comes while nothing is at work.                         *)
LEMMA Confirms ==
  ASSUME IInv, Confirm
  PROVE  IInv' /\ Stopped'
<1>1. stop["finish"].at = "checkpoint" /\ Leaves("finish") /\ UNCHANGED <<call, receipt>>
  BY DEF Confirm
<1>2. stop' \in [Stops -> StopType] /\ stop'["finish"].at = "off"
  BY <1>1, LeavesIs DEF IInv, Stops
<1>3. Weakens /\ Stopped
  BY <1>1, AbortWeakens DEF IInv, SettledIsStopped
<1>4. Stopped'
  BY <1>3 DEF Weakens, Stopped
<1>5. task' \in TaskType
  <2>1. CASE UNCHANGED task
    BY <2>1 DEF IInv, Types
  <2>2. CASE Update(IF task.pending = "wait" THEN "Pending" ELSE "Ignore", task.run, "none", task.owner)
    <3>1. task.run \in {"active", "ended"} /\ task.owner \in Sessions
      BY DEF IInv, Types, TaskType
    <3> QED
      BY <2>2, <3>1, UpdateIs DEF IInv
  <2> QED
    BY <2>1, <2>2 DEF Confirm
<1> QED
  BY <1>2, <1>3, <1>4, <1>5 DEF Weakens, IInv, Types, QuietEnd, DriverHasRequest, SettledIsStopped, Stopped, Idles

-----------------------------------------------------------------------------
LEMMA InitHolds == Init => IInv
<1> SUFFICES ASSUME Init PROVE IInv
  OBVIOUS
<1>1. task \in TaskType /\ receipt \in [Calls -> Rows] /\ stop \in [Stops -> StopType]
  BY DEF Init, TaskType, Sessions, Rows, StopType, Off
<1>2. call \in [Calls -> CallType] /\ \A c \in Calls : call[c].at = "idle"
  BY WithoutIs DEF Init
<1> QED
  BY <1>1, <1>2 DEF Init, IInv, Types, Started, QuietEnd, Live, At, DriverHasRequest, SettledIsStopped, Idles, Stops, Off

Released == task.pending # "none" /\ task'.pending = "none" => Stopped'

LEMMA StepHolds == IInv /\ [Next]_vars => IInv' /\ Released
<1> SUFFICES ASSUME IInv, [Next]_vars PROVE IInv' /\ Released
  OBVIOUS
<1>1. ASSUME NEW c \in Calls, CallStep(c) PROVE IInv' /\ Released
  <2>1. UNCHANGED <<task, stop>>
    BY <1>1 DEF CallStep, HostStep, Capture, Register, Save, Clear, Refuse, Launch, LaunchFails, Ends, EndsUnproven, native
  <2>2. CASE Save(c) \/ Clear(c)
    BY <2>1, <2>2, Empowered DEF Released
  <2>3. CASE Capture(c) \/ Register(c) \/ Refuse(c) \/ Launch(c) \/ LaunchFails(c) \/ Ends(c) \/ EndsUnproven(c)
    BY <2>1, <2>3, Inert, Kept DEF Released
  <2> QED
    BY <1>1, <2>2, <2>3 DEF CallStep, HostStep
<1>2. ASSUME NEW s \in Sessions, SessionStep(s) PROVE IInv' /\ Released
  BY <1>2, Starts DEF SessionStep, Released
<1>3. ASSUME NEW k \in Stops, StopStep(k) \/ StopFails(k) PROVE IInv' /\ Released
  BY <1>3, Drivers, RowsSettle DEF StopStep, Released
<1>4. CASE Handoff \/ Reopen
  BY <1>4, Starts DEF Released
<1>5. CASE Operate \/ Complete \/ EndRun
  BY <1>5, Operates DEF Released
<1>6. CASE RequestStop
  BY <1>6, Requests DEF Released
<1>7. CASE Crash
  BY <1>7, Crashes DEF Released
<1>8. CASE Checkpoint
  BY <1>8, Checkpoints DEF Released
<1>9. CASE Confirm
  BY <1>9, Confirms DEF Released
<1>10. CASE UNCHANGED vars
  BY <1>10, SameCalls, Kept DEF vars, native, Released
<1> QED
  BY <1>1, <1>2, <1>3, <1>4, <1>5, <1>6, <1>7, <1>8, <1>9, <1>10 DEF Next

(* The invariant behind both properties holds in every behaviour.           *)
THEOREM Invariance == Spec => []IInv
<1>1. IInv /\ [Next]_vars => IInv'
  BY StepHolds
<1> QED
  BY InitHolds, <1>1, PTL DEF Spec

(* A task that is Done, or in another session, has nothing at work.         *)
THEOREM EndsQuietly == Spec => []QuietEnd
<1>1. IInv => QuietEnd
  BY DEF IInv
<1> QED
  BY Invariance, <1>1, PTL

(* A confirmed stop means that everything has stopped.                      *)
THEOREM StopIsTrue == Spec => StopMeansStopped
<1>1. IInv /\ [Next]_vars => [task.pending # "none" /\ task'.pending = "none" => \A c \in Calls : ~Live(c)']_vars
  BY StepHolds DEF Released, Stopped
<1> QED
  BY Invariance, <1>1, PTL DEF Spec, StopMeansStopped
=============================================================================
