---------------------------- MODULE EmbeddingJobs -----------------------------
(* The embedding job table and its workers (src/embedding: jobs.ts,         *)
(* store.ts, the drain of runtime.ts, worker.ts), with the two writers that *)
(* change entries under them: memory/entries.ts and memory/forget.ts.  A    *)
(* content stands for a revision and its hash.                              *)
EXTENDS Naturals, FiniteSets

CONSTANTS
  Entries, Profiles, NoProfile,
  Workers,        \* runtimes of host processes on one database
  Leases,         \* lease ids; one that nobody remembers may come again
  NoLease,
  Revisions,      \* bound: revisions of one entry
  Generations,    \* bound: generations of the runtime row
  MaxAttempts,    \* EMBEDDING_JOB_MAX_ATTEMPTS
  MaxJobs         \* jobs one drain claims

ASSUME JobsAssumption ==
  /\ NoProfile \notin Profiles /\ NoLease \notin Leases
  /\ Revisions \in Nat /\ Generations \in Nat \ {0} /\ MaxAttempts \in Nat \ {0} /\ MaxJobs \in Nat \ {0}

Keys == Entries \X Profiles
Absent == 0
Shell == Revisions + 1      \* what is left of a forgotten entry
Contents == 1 .. Shell

Row == [state : {"pending", "leased", "failed", "blocked"}, content : Contents,
        attempts : 0 .. MaxAttempts, lease : Leases \cup {NoLease}, due : BOOLEAN]
NoJob == [state |-> "none", content |-> Absent, attempts |-> 0, lease |-> NoLease, due |-> FALSE]
Claim == [key : Keys, lease : Leases, generation : 1 .. Generations, content : Contents]

VARIABLES
  content,     \* entry -> its current content
  active,      \* the active profile
  generation,  \* of the runtime row
  job,         \* (entry, profile) -> row of embedding_jobs
  vector,      \* (entry, profile) -> content whose vector is stored
  bound,       \* worker -> profile and generation its runtime was made for
  held,        \* worker -> claimed jobs of its drain, not yet settled
  elapsed      \* leases whose time is over

vars == <<content, active, generation, job, vector, bound, held, elapsed>>

(* Types; only a leased row has a lease.                                    *)
TypeOK ==
  /\ content \in [Entries -> {Absent} \cup Contents]
  /\ active \in Profiles \cup {NoProfile} /\ generation \in 1 .. Generations
  /\ job \in [Keys -> Row \cup {NoJob}]
  /\ \A k \in Keys : job[k].state = "leased" <=> job[k].lease # NoLease
  /\ vector \in [Keys -> {Absent} \cup Contents]
  /\ bound \in [Workers -> (Profiles \X (1 .. Generations)) \cup {<<>>}]
  /\ held \in [Workers -> SUBSET Claim]
  /\ elapsed \subseteq Leases

Init ==
  /\ content = [e \in Entries |-> Absent]
  /\ active = NoProfile /\ generation = 1
  /\ job = [k \in Keys |-> NoJob] /\ vector = [k \in Keys |-> Absent]
  /\ bound = [w \in Workers |-> <<>>] /\ held = [w \in Workers |-> {}]
  /\ elapsed = {}

-----------------------------------------------------------------------------
Pending(c) == [state |-> "pending", content |-> c, attempts |-> 0, lease |-> NoLease, due |-> TRUE]

BugQueued(k, c) == IF job[k] = NoJob THEN Pending(c) ELSE job[k]

(* enqueueForProfile(): a new row, or the old one reset.                    *)
Queued(k, c) == Pending(c)

(* A revision is recorded and queued for the active profile at once.        *)
WriteEntry(e) ==
  /\ content[e] < Revisions
  /\ content' = [content EXCEPT ![e] = @ + 1]
  /\ job' = [k \in Keys |-> IF k = <<e, active>> THEN Queued(k, content[e] + 1) ELSE job[k]]
  /\ UNCHANGED <<active, generation, vector, bound, held, elapsed>>

BugErased(e) == vector

(* forgetMemory(): the text, its vectors and its jobs go in one transaction.*)
Erased(e) == [k \in Keys |-> IF k[1] = e THEN Absent ELSE vector[k]]
Forget(e) ==
  /\ content[e] \in 1 .. Revisions
  /\ content' = [content EXCEPT ![e] = Shell]
  /\ vector' = Erased(e)
  /\ job' = [k \in Keys |-> IF k[1] = e THEN NoJob ELSE job[k]]
  /\ UNCHANGED <<active, generation, bound, held, elapsed>>

(* Activating a profile that is not active queues every current entry,      *)
(* forgotten shells included; replacing one opens a generation.             *)
Activate(p) ==
  /\ active # p
  /\ generation' = IF active = NoProfile THEN generation ELSE generation + 1
  /\ generation' <= Generations
  /\ active' = p
  /\ job' = [k \in Keys |-> IF k[2] = p /\ content[k[1]] # Absent THEN Queued(k, content[k[1]]) ELSE job[k]]
  /\ UNCHANGED <<content, vector, bound, held, elapsed>>

-----------------------------------------------------------------------------
InUse == {job[k].lease : k \in Keys} \cup {h.lease : h \in UNION {held[w] : w \in Workers}}

BugClaimable(k) ==
  /\ job[k] # NoJob /\ k[2] = active
  /\ job[k].state \in {"pending", "failed"} /\ job[k].attempts < MaxAttempts /\ job[k].due

(* The claim's query: waiting rows that are due, and lapsed leases with     *)
(* attempts left.                                                           *)
Claimable(k) ==
  /\ job[k] # NoJob /\ k[2] = active
  /\ \/ job[k].state = "pending" /\ job[k].due
     \/ job[k].state = "failed" /\ job[k].attempts < MaxAttempts /\ job[k].due
     \/ job[k].state = "leased" /\ job[k].attempts < MaxAttempts /\ job[k].lease \in elapsed

Leased(r, l) == [state |-> "leased", content |-> r.content, attempts |-> r.attempts + 1, lease |-> l, due |-> TRUE]

(* A drain claims up to MaxJobs rows under leases that end together.        *)
Drain(w, S, l) ==
  /\ bound[w] = <<active, generation>> /\ held[w] = {}
  /\ S # {} /\ Cardinality(S) <= MaxJobs /\ \A k \in S : Claimable(k)
  /\ l \notin InUse /\ elapsed' = elapsed \ {l}
  /\ job' = [k \in Keys |-> IF k \in S THEN Leased(job[k], l) ELSE job[k]]
  /\ held' = [held EXCEPT ![w] =
                {[key |-> k, lease |-> l, generation |-> generation, content |-> job[k].content] : k \in S}]
  /\ UNCHANGED <<content, active, generation, vector, bound>>

(* leaseOwner().                                                            *)
Owns(h) ==
  /\ h.key[2] = active /\ h.generation = generation
  /\ job[h.key].state = "leased" /\ job[h.key].lease = h.lease /\ h.lease \notin elapsed

(* A vector is stored for a current lease on an unchanged entry; otherwise  *)
(* the conflict is swallowed.                                               *)
Accepted(h) == Owns(h) /\ job[h.key].content = h.content /\ content[h.key[1]] = h.content
Finalize(w, h) ==
  /\ h \in held[w]
  /\ held' = [held EXCEPT ![w] = @ \ {h}]
  /\ IF Accepted(h)
     THEN vector' = [vector EXCEPT ![h.key] = h.content] /\ job' = [job EXCEPT ![h.key] = NoJob]
     ELSE UNCHANGED <<vector, job>>
  /\ UNCHANGED <<content, active, generation, bound, elapsed>>

(* failEmbeddingJob(): permanent codes use up the attempts; the others wait.*)
Failed(r, code) ==
  LET spent == IF code = "transient" THEN r.attempts ELSE MaxAttempts IN
    [state |-> IF code = "secret" THEN "blocked" ELSE "failed", content |-> r.content,
     attempts |-> spent, lease |-> NoLease, due |-> spent = MaxAttempts]
Fail(w, h, code) ==
  /\ h \in held[w]
  /\ held' = [held EXCEPT ![w] = @ \ {h}]
  /\ job' = IF Owns(h) THEN [job EXCEPT ![h.key] = Failed(@, code)] ELSE job
  /\ UNCHANGED <<content, active, generation, vector, bound, elapsed>>

(* A drain stopped by its deadline, by close() or by an error, and a crash, *)
(* leave the rows as they are.                                              *)
Leave(w) ==
  /\ held[w] # {}
  /\ held' = [held EXCEPT ![w] = {}]
  /\ UNCHANGED <<content, active, generation, job, vector, bound, elapsed>>

(* A process opens its runtime for the profile that is active then.         *)
Open(w) ==
  /\ active # NoProfile /\ bound[w] # <<active, generation>>
  /\ bound' = [bound EXCEPT ![w] = <<active, generation>>]
  /\ held' = [held EXCEPT ![w] = {}]
  /\ UNCHANGED <<content, active, generation, job, vector, elapsed>>

Lapse(l) ==
  /\ l \in InUse \ elapsed
  /\ elapsed' = elapsed \cup {l}
  /\ UNCHANGED <<content, active, generation, job, vector, bound, held>>

DelayPasses(k) ==
  /\ job[k].state = "failed" /\ ~job[k].due
  /\ job' = [job EXCEPT ![k].due = TRUE]
  /\ UNCHANGED <<content, active, generation, vector, bound, held, elapsed>>

-----------------------------------------------------------------------------
Drains(w) == \E S \in SUBSET Keys, l \in Leases : Drain(w, S, l)
Settles(w) ==
  \E h \in held[w] : Finalize(w, h) \/ \E code \in {"transient", "permanent", "secret"} : Fail(w, h, code)

Next ==
  \/ \E e \in Entries : WriteEntry(e) \/ Forget(e)
  \/ \E p \in Profiles : Activate(p)
  \/ \E w \in Workers : Drains(w) \/ Settles(w) \/ Leave(w) \/ Open(w)
  \/ \E l \in Leases : Lapse(l)
  \/ \E k \in Keys : DelayPasses(k)

Spec == Init /\ [][Next]_vars

(* The worker's timer comes back, provider calls end, time passes.          *)
Fairness ==
  /\ \A w \in Workers : WF_vars(Drains(w)) /\ WF_vars(Settles(w))
  /\ \A l \in Leases : WF_vars(Lapse(l))
  /\ \A k \in Keys : WF_vars(DelayPasses(k))
FairSpec == Spec /\ Fairness

-----------------------------------------------------------------------------
(* Properties.                                                              *)

(* No entry is missed: under the active profile every entry that was not    *)
(* forgotten has the vector of its current content, or a job for exactly    *)
(* that content, whatever profiles were active before and whoever crashed.  *)
CurrentOrQueued ==
  active # NoProfile =>
    \A e \in Entries : content[e] \in 1 .. Revisions =>
      \/ vector[<<e, active>>] = content[e]
      \/ job[<<e, active>>].content = content[e]

(* What was forgotten does not come back: no drain that read the text       *)
(* before stores its vector afterwards, under any profile.                  *)
ForgottenTextIsGone ==
  \A k \in Keys : content[k[1]] = Shell => vector[k] \in {Absent, Shell}

(* A late worker cannot put back the vector of an older content.            *)
StoredVectorsAreCurrent ==
  [][\A k \in Keys : vector'[k] # vector[k] => vector'[k] \in {Absent, content[k[1]]}]_vars

(* A queued job does not starve while a runtime of the current generation   *)
(* lives: it ends or has used its attempts.                                 *)
QueuedJobIsTried ==
  \A k \in Keys :
    job[k] # NoJob /\ k[2] = active ~>
      \/ job[k] = NoJob \/ job[k].attempts = MaxAttempts \/ k[2] # active
      \/ \A w \in Workers : bound[w] # <<active, generation>>
=============================================================================
