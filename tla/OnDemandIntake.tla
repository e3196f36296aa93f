---------------------------- MODULE OnDemandIntake ----------------------------
(* From a message of the user to work that may run, in one native session:  *)
(* the intake that captures requests, asks, prepares and checks tool calls  *)
(* (src/dsh: on-demand-intake.ts) and the core host that admits the task of *)
(* a request (core/host.ts, prepareCoreTask).  A request is one capture:    *)
(* every capture here brings a new text, so the same text replayed, turns   *)
(* without a human message and tasks acknowledged as existing are left out, *)
(* as are the eager mode, Lisp and read-only calls.  Tool calls may outlive *)
(* the step they belong to and run side by side.                            *)
EXTENDS Naturals, FiniteSets

CONSTANTS
  Calls, NoCall,  \* tool calls, each made at most once
  MaxTurns,       \* bound: native turns
  MaxRequests,    \* bound: captures
  MaxChanges      \* bound: operations on the task from outside (a command of the user)

ASSUME IntakeAssumption ==
  IsFiniteSet(Calls) /\ NoCall \notin Calls /\ {MaxTurns, MaxRequests, MaxChanges} \subseteq Nat

Requests == 1..MaxRequests
Kinds == {"command", "work", "prepare"}  \* native Bash, owned work, prepare_requested_work
NoTask == [req |-> 0, turn |-> 0, sound |-> FALSE]
NoQuestion == [req |-> 0, by |-> NoCall, queued |-> FALSE]
NoContext == 0  \* in place of a revision of the task: the request has no context
Idle == [kind |-> "work", at |-> "idle", req |-> 0, scope |-> "new", seen |-> FALSE,
         rev |-> NoContext, since |-> 0]
Captured(t, answers) ==
  [turn |-> t, status |-> "capturing", aborted |-> FALSE, at |-> "start", pending |-> answers,
   prep |-> NoCall, scope |-> "unknown", rev |-> NoContext, since |-> 0]
NoRequest == [Captured(0, FALSE) EXCEPT !.status = "closed", !.aborted = TRUE, !.at = "over"]

VARIABLES
  turn, open,  \* the native log: its latest turn, and whether that has not ended
  cut,         \* the signal of that turn is aborted
  failed,      \* the turns that ended other than completed
  stopped,     \* stop() was called
  req,         \* request -> its Turn object; 0 stands for none
  cur,         \* the newest request, the one in #turns
  asked,       \* the entry of #clarifications
  reply,       \* an injected answer waits for its capture
  call,        \* tool call -> what it awaits
  active,      \* the admitted task of the session
  op,          \* turn -> the call whose admission is in preparingTasks
  changes      \* revision of the task, as operations from outside change it; from 1
(* req[g].rev and call[c].rev are the revisions that their contexts carry;   *)
(* since is the revision when the context was begun to be read, or, of a    *)
(* question, when it was asked.                                             *)

native == <<turn, open, cut, failed, stopped>>
requests == <<req, cur>>
questions == <<asked, reply>>
core == <<active, op>>
intakeVars == <<native, requests, questions, call, core, changes>>

IntakeInit ==
  /\ turn = 0 /\ open = FALSE /\ cut = FALSE /\ failed = {} /\ stopped = FALSE
  /\ req = [g \in 0..MaxRequests |-> NoRequest] /\ cur = 0
  /\ asked = NoQuestion /\ reply = FALSE /\ call = [c \in Calls |-> Idle]
  /\ active = NoTask /\ op = [t \in 1..MaxTurns |-> NoCall] /\ changes = 1

-----------------------------------------------------------------------------
(* The signal of a request: its own controller, its native turn, stop().    *)
Unaborted(g) == ~req[g].aborted /\ ~stopped /\ ~(cut /\ req[g].turn = turn)
Current(g) == Unaborted(g) /\ cur = g /\ req[g].status \notin {"closed", "stale"}
Bound(g) == cur = g /\ req[g].turn = turn
Ready(t) == active # NoTask /\ active.turn = t /\ active.sound /\ ~stopped

Of(c) == call[c].req
Is(c, k) == call[c].kind = k
Awaits(c, a) == call[c].at = a
To(d, a) == IF a \in {"over", "told"} THEN [Idle EXCEPT !.at = a] ELSE [call[d] EXCEPT !.at = a]
GoesTo(c, a) == call' = [call EXCEPT ![c] = To(c, a)]
TurnEnded(t) == t < turn \/ ~open

BugEnds(r, s) == [r EXCEPT !.status = s, !.pending = FALSE, !.scope = "unknown", !.rev = NoContext, !.since = 0]

(* finish(), or a newer request: the controller is aborted; nothing reads    *)
(* the rest of a request that is over.                                       *)
Ends(r, s) ==
  [r EXCEPT !.status = s, !.aborted = TRUE, !.pending = FALSE,
            !.scope = "unknown", !.rev = NoContext, !.since = 0]

(* An entry is dropped when looked at if the last turn to end, its own or a  *)
(* later one, ended badly.                                                   *)
LastEnd == IF open THEN turn - 1 ELSE turn
Lapsed == asked # NoQuestion /\ LastEnd \in failed /\ LastEnd >= req[asked.req].turn
Awaiting == asked # NoQuestion /\ ~Lapsed /\ ~stopped
(* finishSession(): a task is finished once its turn has ended, one without  *)
(* a good lease at once; a completed turn is held open by a question.        *)
Asks == active.sound /\ TurnEnded(active.turn) /\ active.turn \notin failed
Finishable == ~active.sound \/ (TurnEnded(active.turn) /\ ~(Asks /\ Awaiting))
Looked == IF Asks /\ Lapsed THEN NoQuestion ELSE asked

-----------------------------------------------------------------------------
(* The native turn, the user and the host.  stop() takes the listeners away: *)
(* what the native turns do then reaches nobody.                            *)
StartTurn ==
  /\ ~stopped /\ ~open /\ turn < MaxTurns /\ turn' = turn + 1 /\ open' = TRUE /\ cut' = FALSE
  /\ UNCHANGED <<failed, stopped, requests, questions, call, core, changes>>

(* turn/end is appended; its listener calls finish().                       *)
EndTurn(completed) ==
  /\ ~stopped /\ open /\ (completed => ~cut) /\ open' = FALSE
  /\ failed' = IF completed THEN failed ELSE failed \cup {turn}
  /\ req' = IF req[cur].turn = turn
            THEN [req EXCEPT ![cur] = Ends(@, "closed")] ELSE req
  /\ UNCHANGED <<turn, cut, stopped, cur, questions, call, core, changes>>

Cancel ==
  /\ ~stopped /\ open /\ ~cut /\ cut' = TRUE
  /\ UNCHANGED <<turn, open, failed, stopped, requests, questions, call, core, changes>>

Stop ==
  /\ ~stopped /\ stopped' = TRUE /\ asked' = NoQuestion
  /\ UNCHANGED <<turn, open, cut, failed, requests, reply, call, core, changes>>

(* The user operates on the task: publish() tells the intake, then the core. *)
(* A request without a context is not told.                                 *)
TaskStateChanged ==
  /\ changes <= MaxChanges /\ ~stopped /\ active # NoTask /\ changes' = changes + 1
  /\ req' = IF Current(cur) /\ req[cur].rev # NoContext
            THEN [req EXCEPT ![cur] = [@ EXCEPT !.status = "answer", !.scope = "unknown", !.rev = changes + 1]]
            ELSE req
  /\ active' = [active EXCEPT !.sound = FALSE]
  /\ UNCHANGED <<native, cur, questions, call, op>>

(* The agent becomes idle.                                                  *)
FinishSession ==
  /\ active # NoTask /\ Finishable /\ active' = NoTask /\ asked' = Looked
  /\ UNCHANGED <<native, requests, reply, call, op, changes>>

-----------------------------------------------------------------------------
(* capture(): its synchronous part installs the request.                    *)
Capture ==
  LET steering == req[cur].turn = turn IN
  /\ ~stopped /\ open /\ ~cut /\ cur < MaxRequests
  /\ steering => req[cur].status # "closed"
  /\ req' = [req EXCEPT ![cur] = Ends(@, IF steering THEN "stale" ELSE @.status),
                        ![cur + 1] = Captured(turn, reply)]
  /\ cur' = cur + 1 /\ reply' = FALSE
  /\ UNCHANGED <<native, asked, call, core, changes>>

Captures(g, a) == g \in 1..cur /\ req[g].at = a
Over(g) == [req EXCEPT ![g].at = "over", ![g].status = IF cur = g THEN "stale" ELSE @]

(* An await of capture() rejects, or the request is no longer current after it. *)
CaptureFails(g) ==
  /\ g \in 1..cur /\ req[g].at # "over" /\ req' = Over(g)
  /\ UNCHANGED <<native, cur, questions, call, core, changes>>

(* validate() drops a task whose lease is no longer good; the dialogs of the *)
(* start follow, and an owner is looked for.  The user may dismiss a dialog: *)
(* the native turn is cancelled.  Without an owner a context may be read.     *)
Started(g) ==
  /\ Captures(g, "start") /\ Current(g)
  /\ active' = IF active.sound THEN active ELSE NoTask
  /\ \/ req' = [req EXCEPT ![g].at = "interpret", ![g].since = changes] /\ UNCHANGED cut
     \/ /\ active' = NoTask /\ UNCHANGED cut
        /\ \E r \in {NoContext, changes} :
             req' = [req EXCEPT ![g].at = "over", ![g].status = "answer", ![g].rev = r]
     \/ cut' = TRUE /\ req' = [req EXCEPT ![g].at = "over", ![g].status = "closed"]
  /\ UNCHANGED <<turn, open, failed, stopped, cur, questions, call, op, changes>>

(* An interpretation that is rejected, or returns nothing, leaves the        *)
(* request without a context; else the context is kept as it was read.  A   *)
(* resolved request ends the question; only then is the request checked.    *)
Interpreted(g) ==
  /\ Captures(g, "interpret")
  /\ \E s \in {"unknown", "new", "same"}, r \in {NoContext} \cup req[g].since..changes :
       /\ r = NoContext => s = "unknown"
       /\ asked' \in IF s = "unknown" THEN {asked} ELSE {asked, NoQuestion}
       /\ req' = IF Current(g)
                 THEN [req EXCEPT ![g].at = "settle", ![g].scope = s, ![g].rev = r, ![g].since = 0]
                 ELSE Over(g)
  /\ UNCHANGED <<native, cur, reply, call, core, changes>>

(* advance() finishes the task of an earlier turn unless this request goes  *)
(* on with it or has a context and is not understood; assessment and memory *)
(* follow.                                                                  *)
Settled(g) ==
  LET first == \A h \in 1..(g - 1) : req[h].turn # req[g].turn
      goesOn == \/ req[g].scope = "same"
                \/ req[g].scope = "unknown" /\ req[g].rev # NoContext /\ active.turn \notin failed
      retires == first /\ active # NoTask /\ active.turn < req[g].turn /\ ~goesOn
  IN /\ Captures(g, "settle") /\ Current(g)
     /\ retires => Finishable
     /\ active' = IF retires THEN NoTask ELSE active
     /\ asked' = IF retires THEN Looked ELSE asked
     /\ req' = [req EXCEPT ![g].at = "over", ![g].status = "answer", ![g].scope = "unknown"]
     /\ UNCHANGED <<native, cur, reply, call, op, changes>>

-----------------------------------------------------------------------------
(* A tool call: pre-execute.  A call that a check or the native policy      *)
(* denies, and one that an await rejects, stays where it is.                *)
MayPrepare(g) == req[g].status = "answer" \/ (req[g].status = "prepared" /\ Ready(req[g].turn))

Begin(c, k) ==
  /\ Awaits(c, "idle") /\ Bound(cur) /\ Current(cur)
  /\ \E a \in {"approve", "diagnose"} :
       /\ call' = [call EXCEPT ![c] = [Idle EXCEPT !.kind = k, !.at = a, !.req = cur]]
       /\ CASE k = "command" -> a = "approve" /\ ~req[cur].pending
            [] k = "prepare" -> a = "approve" /\ MayPrepare(cur)
            [] k = "work" -> ~Awaiting /\ IF req[cur].status = "prepared"
                             THEN a = "approve" /\ Ready(turn)
                             ELSE a = "diagnose" /\ req[cur].status \in {"answer", "preparing"}
  /\ asked' = IF k # "command" /\ Lapsed THEN NoQuestion ELSE asked
  /\ UNCHANGED <<native, requests, reply, core, changes>>

(* The waterfall of the other plugins and the native approval come first; then *)
(* the guard and tools/execute, from where the call carries the signal of its  *)
(* request.                                                                    *)
Dispatch(c) ==
  LET g == Of(c) IN
  /\ Awaits(c, "approve") /\ Bound(g) /\ Current(g) /\ GoesTo(c, "running")
  /\ CASE Is(c, "command") -> ~req[g].pending /\ req[g].status # "capturing"
       [] Is(c, "work") -> req[g].status = "prepared" /\ Ready(turn)
       [] Is(c, "prepare") -> MayPrepare(g)
  /\ UNCHANGED <<native, requests, questions, core, changes>>

StartBody(c) ==
  /\ Awaits(c, "running") /\ Unaborted(Of(c))
  /\ Is(c, "prepare") => Bound(Of(c)) /\ MayPrepare(Of(c))
  /\ IF Is(c, "prepare")
     THEN call' = [call EXCEPT ![c].at = "bind", ![c].since = changes]
     ELSE GoesTo(c, "over")
  /\ UNCHANGED <<native, requests, questions, core, changes>>

(* bindIntent(): a request that is unresolved is interpreted again, which    *)
(* may give it a context, or one that was read before the task changed.     *)
BindsIntent(c) ==
  LET g == Of(c) IN
  /\ Awaits(c, "bind") /\ Current(g) /\ call' = [call EXCEPT ![c].at = "diagnose", ![c].since = 0]
  /\ \E r \in {req[g].rev} \cup call[c].since..changes : req' = [req EXCEPT ![g].rev = r]
  /\ UNCHANGED <<native, cur, questions, core, changes>>

-----------------------------------------------------------------------------
(* prepare(): one preparation per request, which later calls await.         *)
Passes(c) == IF Is(c, "work") /\ Ready(req[Of(c)].turn) THEN "approve" ELSE "over"
Admit(c) ==
  LET g == Of(c) IN
  /\ IF req[g].status = "prepared" THEN (GoesTo(c, Passes(c)) \/ GoesTo(c, "over")) /\ UNCHANGED req
     ELSE IF req[g].prep # NoCall THEN GoesTo(c, "join") /\ UNCHANGED req
     ELSE /\ GoesTo(c, "host")
          /\ req' = [req EXCEPT ![g].status = "preparing", ![g].prep = c]
  /\ UNCHANGED questions

(* clarify(): a fixed reply, or a question, put in the place of the last one. *)
(* A question asked already is not asked again.                             *)
Clarify(c) ==
  LET g == Of(c) IN
  \/ GoesTo(c, "over") /\ UNCHANGED <<req, questions>>
  \/ /\ Current(g) /\ req' = [req EXCEPT ![g].pending = TRUE]
     /\ asked' = [req |-> g, by |-> c, queued |-> FALSE] /\ UNCHANGED reply
     /\ call' = [call EXCEPT ![c].at = "ask", ![c].rev = req[g].rev, ![c].since = changes]

(* The request is not looked at between the last of these awaits (the type  *)
(* bound, the diagnostic, the assessment) and the admission.                *)
Assessed(c) ==
  /\ Awaits(c, "diagnose") /\ (Clarify(c) \/ Admit(c))
  /\ UNCHANGED <<native, cur, core, changes>>

-----------------------------------------------------------------------------
(* prepareCoreTask(): the task that is there is read before some awaits.    *)
BugSameRequest(c, task) == task.turn = req[Of(c)].turn
SameRequest(c, task) == task.req = Of(c)
HostLooks(c) ==
  LET task == IF active.sound THEN active ELSE NoTask IN
  /\ Awaits(c, "host") /\ active' = task
  /\ IF SameRequest(c, task) THEN GoesTo(c, "admitted")
     ELSE \E s \in {"new", "same"} : call' = [call EXCEPT ![c] =
            [@ EXCEPT !.at = "look", !.seen = (task.turn = req[Of(c)].turn), !.scope = s]]
  /\ UNCHANGED <<native, requests, questions, op, changes>>

(* A changed text of the same turn ends the task of the old one; an         *)
(* admission under way in the turn is joined.                               *)
HostGoes(c) ==
  LET t == req[Of(c)].turn
      replaces == call[c].seen /\ call[c].scope = "new"
  IN /\ Awaits(c, "look") /\ active' = IF replaces THEN NoTask ELSE active
     /\ op' = IF op[t] = NoCall THEN [op EXCEPT ![t] = c] ELSE op
     /\ call' = [call EXCEPT ![c].at = IF op[t] = NoCall THEN "admit" ELSE "wait", ![c].seen = FALSE]
     /\ UNCHANGED <<native, requests, questions, changes>>

(* A new task waits for the end of the one before; opening it looks at the signal. *)
OpensTask(c) ==
  LET ends == active # NoTask /\ call[c].scope = "new" IN
  /\ Awaits(c, "admit") /\ Unaborted(Of(c)) /\ GoesTo(c, "task")
  /\ ends => Finishable
  /\ active' = IF ends THEN NoTask ELSE active
  /\ asked' = IF ends THEN Looked ELSE asked
  /\ UNCHANGED <<native, requests, reply, op, changes>>

BugResolves(c, a) ==
  /\ call' = [call EXCEPT ![c] = To(c, a)]
  /\ op' = [op EXCEPT ![req[Of(c)].turn] = NoCall]

(* The one admission of the turn ends for all who wait for it.              *)
Resolves(c, a) ==
  LET t == req[Of(c)].turn IN
  /\ call' = [d \in Calls |->
       IF d = c \/ (Awaits(d, "wait") /\ req[Of(d)].turn = t) THEN To(d, a) ELSE call[d]]
  /\ op' = [op EXCEPT ![t] = NoCall]

BugTaskAdmitted(c) ==
  /\ Awaits(c, "task") /\ Resolves(c, "admitted")
  /\ active' = [req |-> Of(c), turn |-> req[Of(c)].turn, sound |-> TRUE]
  /\ UNCHANGED <<native, requests, questions, changes>>

(* The last look at the signal, then the task is the session's; the read of *)
(* its lease that follows settles before anything else can be captured.     *)
TaskAdmitted(c) ==
  /\ Awaits(c, "task") /\ Unaborted(Of(c)) /\ Resolves(c, "admitted")
  /\ active' = [req |-> Of(c), turn |-> req[Of(c)].turn, sound |-> TRUE]
  /\ UNCHANGED <<native, requests, questions, changes>>

AdmissionFails(c) ==
  /\ call[c].at \in {"host", "look", "admit", "task"}
  /\ IF call[c].at \in {"admit", "task"} THEN Resolves(c, "refused")
     ELSE GoesTo(c, "refused") /\ UNCHANGED op
  /\ UNCHANGED <<native, requests, questions, active, changes>>

Return(c, g, a) == call' = [d \in Calls |->
  IF d = c \/ (Awaits(d, "join") /\ Of(d) = g) THEN To(d, IF a THEN Passes(d) ELSE "over") ELSE call[d]]

(* The intake looks again; a failed preparation may be tried again.         *)
Prepared(c) ==
  LET g == Of(c) IN
  /\ Awaits(c, "admitted") /\ Current(g) /\ Ready(req[g].turn) /\ Return(c, g, TRUE)
  /\ req' = [req EXCEPT ![g].status = "prepared", ![g].pending = FALSE, ![g].prep = NoCall]
  /\ asked' = NoQuestion
  /\ UNCHANGED <<native, cur, reply, core, changes>>

PreparationFails(c) ==
  LET g == Of(c) IN
  /\ Awaits(c, "refused") \/ (Awaits(c, "admitted") /\ ~(Current(g) /\ Ready(req[g].turn)))
  /\ Return(c, g, FALSE)
  /\ req' = [req EXCEPT ![g].prep = NoCall, ![g].status =
               IF @ \in {"closed", "stale"} THEN @ ELSE IF Unaborted(g) THEN "answer" ELSE "stale"]
  /\ UNCHANGED <<native, cur, questions, core, changes>>

-----------------------------------------------------------------------------
(* The question: its answer is checked against the request and, if there is *)
(* a context to compare with, the task.                                     *)
Own(c) == asked.by = c /\ asked.req = Of(c) /\ ~asked.queued
BugSameContext(c) == TRUE
SameContext(c) == call[c].rev \in {NoContext, changes}
AnswerGiven(c) ==
  /\ Awaits(c, "ask") /\ Current(Of(c)) /\ GoesTo(c, IF Own(c) THEN "recheck" ELSE "over")
  /\ UNCHANGED <<native, requests, questions, core, changes>>

(* The last read of the context and the queueing are one step.  Other        *)
(* evidence than the task may have changed too, or be gone: then there is    *)
(* nothing to refresh the request with.                                      *)
AnswerQueued(c) ==
  LET g == Of(c) IN
  /\ Awaits(c, "recheck") /\ Current(g)
  /\ \/ /\ SameContext(c) /\ reply' = TRUE /\ GoesTo(c, "told") /\ UNCHANGED req
        /\ asked' = IF asked.by = c THEN [asked EXCEPT !.queued = TRUE] ELSE asked
     \/ /\ call[c].rev # NoContext /\ GoesTo(c, "over") /\ UNCHANGED questions
        /\ \E r \in {req[g].rev, changes} : req' = [req EXCEPT ![g].rev = r]
  /\ UNCHANGED <<native, cur, core, changes>>

(* Aborted, or failed: the question is forgotten. Dismissed: it stays.      *)
QuestionEnds(c, dismissed) ==
  /\ Awaits(c, "ask") \/ (Awaits(c, "recheck") /\ ~dismissed)
  /\ dismissed => Unaborted(Of(c))
  /\ GoesTo(c, "over") /\ asked' = IF ~dismissed /\ asked.by = c THEN NoQuestion ELSE asked
  /\ UNCHANGED <<native, requests, reply, core, changes>>

-----------------------------------------------------------------------------
World == StartTurn \/ Cancel \/ Stop \/ TaskStateChanged \/ FinishSession \/ (\E b \in BOOLEAN : EndTurn(b))
Capturing(g) ==
  CaptureFails(g) \/ Started(g) \/ Interpreted(g) \/ Settled(g)
Calling(c) == (\E k \in Kinds : Begin(c, k)) \/ Dispatch(c) \/ StartBody(c) \/ BindsIntent(c)
Preparing(c) ==
  \/ Assessed(c) \/ HostLooks(c) \/ HostGoes(c) \/ OpensTask(c)
  \/ TaskAdmitted(c) \/ AdmissionFails(c) \/ Prepared(c) \/ PreparationFails(c)
Asking(c) == AnswerGiven(c) \/ AnswerQueued(c) \/ (\E b \in BOOLEAN : QuestionEnds(c, b))

IntakeNext ==
  \/ World
  \/ Capture
  \/ \E g \in Requests : Capturing(g)
  \/ \E c \in Calls : Calling(c) \/ Preparing(c) \/ Asking(c)

IntakeSpec == IntakeInit /\ [][IntakeNext]_intakeVars

-----------------------------------------------------------------------------
TypeOK ==
  /\ turn \in 0..MaxTurns /\ {open, cut, stopped, reply} \subseteq BOOLEAN /\ failed \subseteq 1..turn
  /\ cur \in 0..MaxRequests /\ changes \in 1..(MaxChanges + 1)
  /\ \A g \in 0..MaxRequests :
       req[g].status \in {"capturing", "answer", "preparing", "prepared", "closed", "stale"}

(* A request is in force while it is the newest word of the user, in an open *)
(* turn that nobody stopped.                                                 *)
InForce(g) == cur = g /\ req[g].turn = turn /\ open /\ ~cut /\ ~stopped
Starts(c) == Awaits(c, "running") /\ call'[c].at # "running"

(* Cancellation, the end of the turn, changed instructions and shutdown stop *)
(* what has not started: no approval or dispatch that comes late runs a      *)
(* body for a request that is no longer in force.                            *)
LateCallsRunNothing == [][\A c \in Calls : Starts(c) => InForce(Of(c))]_intakeVars

(* A task becomes the session's only for the request in force, however long  *)
(* its admission took and whoever waited for it.                             *)
AdmissionIsCurrent ==
  [][active' # NoTask /\ active'.req # active.req => InForce(active'.req)]_intakeVars

(* Owned work never starts under the task of another request, whatever was   *)
(* admitted, replaced or finished between its preparation and its start.     *)
WorkHasItsOwnTask ==
  [][\A c \in Calls : Starts(c) /\ Is(c, "work") => active = NoTask \/ active.req = Of(c)]_intakeVars

(* An answer reaches the agent only while its request is in force.  If the   *)
(* question was asked from a context, nobody operated on the task since it   *)
(* was asked, although that context may have been read before an earlier     *)
(* operation.  Without a context the code compares nothing, and an answer    *)
(* may be queued after the task has changed.                                 *)
AnswerIsInTime ==
  [][\A c \in Calls : Awaits(c, "recheck") /\ call'[c].at = "told" =>
       InForce(Of(c)) /\ (call[c].rev # NoContext => call[c].since = changes)]_intakeVars

(* Nobody waits for nobody: a call that joined a preparation or an admission *)
(* has one that goes on, and the one that goes on does not wait for another  *)
(* that waits.                                                               *)
Admitting == {"admit", "task"}
Underway == Admitting \cup {"host", "look", "wait", "admitted", "refused"}
JoinersAreServed ==
  \A c \in Calls :
    /\ Awaits(c, "join") => LET p == req[Of(c)].prep IN
         p # NoCall /\ Of(p) = Of(c) /\ call[p].at \in Underway
    /\ Awaits(c, "wait") => LET o == op[req[Of(c)].turn] IN
         o # NoCall /\ req[Of(o)].turn = req[Of(c)].turn /\ call[o].at \in Admitting
=============================================================================
