---------------------------- MODULE AgentContract ----------------------------
(* What an agent of the replacement harness promises to the code that talks *)
(* to it (docs/kiokuko-harness.md, "Runtime contracts"), without queues,    *)
(* steps or tools: one activity at a time, messages taken only inside an    *)
(* open turn that nobody has stopped, each of them at most once.            *)
EXTENDS Naturals

CONSTANT Messages

VARIABLES
  activity,  \* idle, maintenance, running (between turns), turn
  stopped,   \* the current activity was told to stop
  gone,      \* the agent was disposed of
  fate       \* what became of each message

cvars == <<activity, stopped, gone, fate>>

Pending == {m \in Messages : fate[m] = "queued"}
Becomes(S, what) == fate' = [m \in Messages |-> IF m \in S THEN what ELSE fate[m]]

Init ==
  /\ activity = "idle" /\ stopped = FALSE /\ gone = FALSE
  /\ fate = [m \in Messages |-> "unsent"]

(* An idle, living agent may take up maintenance or get ready for a turn.  *)
MayStart ==
  IF activity = "idle" /\ ~gone
  THEN activity' \in {"idle", "maintenance", "running"} /\ stopped' \in {FALSE}
  ELSE UNCHANGED <<activity, stopped>>

Submit(m) == ~gone /\ fate[m] = "unsent" /\ Becomes({m}, "queued") /\ MayStart /\ UNCHANGED gone

Start == MayStart /\ UNCHANGED <<gone, fate>>

(* Stopping discards some pending messages; disposal may come with it.     *)
Stop(S) ==
  /\ S \subseteq Pending /\ Becomes(S, "discarded")
  /\ stopped' = (activity # "idle")
  /\ gone' \in {gone, TRUE}
  /\ UNCHANGED activity

TurnOpens ==
  /\ activity = "running" /\ activity' = "turn" /\ stopped' = FALSE
  /\ UNCHANGED <<gone, fate>>

(* Messages are taken inside an open turn only, by an agent that was not   *)
(* told to stop.                                                            *)
Take(S, what) ==
  /\ activity = "turn" /\ ~stopped /\ ~gone
  /\ S \subseteq Pending /\ Becomes(S, what)
  /\ UNCHANGED <<activity, stopped, gone>>

TurnCloses ==
  /\ activity = "turn" /\ activity' = "running"
  /\ UNCHANGED <<stopped, gone, fate>>

(* Two turns in a row, without leaving the driver.                         *)
TurnFollows ==
  /\ activity = "turn" /\ ~gone
  /\ stopped' = FALSE
  /\ UNCHANGED <<activity, gone, fate>>

(* The activity ends, or makes room for the next one.                      *)
Ends ==
  /\ activity \in {"running", "maintenance"}
  /\ stopped' = FALSE
  /\ activity' \in (IF gone THEN {"idle"} ELSE {"idle", "running"})
  /\ UNCHANGED <<gone, fate>>

Next ==
  \/ \E m \in Messages : Submit(m)
  \/ Start
  \/ \E S \in SUBSET Pending : Stop(S)
  \/ TurnOpens
  \/ \E S \in SUBSET Pending, what \in {"accepted", "handled"} : Take(S, what)
  \/ TurnCloses \/ TurnFollows \/ Ends

Spec == Init /\ [][Next]_cvars
=============================================================================
