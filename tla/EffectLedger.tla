----------------------------- MODULE EffectLedger -----------------------------
(* What the managed journal promises of one effect: its intention is on     *)
(* record before it happens, it happens at most once, and the record goes   *)
(* from open to closed and is forgotten only then.                          *)
CONSTANT Effects

VARIABLES
  phase,      \* effect -> what the ledger says of it
  performed   \* effects that happened, or may have

ledgerVars == <<phase, performed>>

LedgerInit == phase = [e \in Effects |-> "absent"] /\ performed = {}

Intend(e) ==
  /\ phase[e] = "absent" /\ e \notin performed
  /\ phase' = [phase EXCEPT ![e] = "intended"]
  /\ UNCHANGED performed

(* The one step at which an effect starts is the one that opens its record; *)
(* a record may also be opened for an effect that never starts.             *)
Open(e) ==
  /\ phase[e] = "intended"
  /\ phase' = [phase EXCEPT ![e] = "open"]
  /\ performed' \in {performed, performed \cup {e}}

(* Several records can be concluded or forgotten in one step: a parent with *)
(* its child, a scope with all it holds.                                    *)
Close(E) ==
  /\ E # {} /\ \A e \in E : phase[e] = "open"
  /\ phase' = [e \in Effects |-> IF e \in E THEN "closed" ELSE phase[e]]
  /\ UNCHANGED performed

Forget(E) ==
  /\ E # {} /\ \A e \in E : phase[e] = "closed"
  /\ phase' = [e \in Effects |-> IF e \in E THEN "absent" ELSE phase[e]]
  /\ UNCHANGED performed

LedgerNext ==
  \/ \E e \in Effects : Intend(e) \/ Open(e)
  \/ \E E \in SUBSET Effects : Close(E) \/ Forget(E)

LedgerSpec == LedgerInit /\ [][LedgerNext]_ledgerVars
=============================================================================
