-------------------------- MODULE EmbeddingJobsProofs -------------------------
(* Proofs about EmbeddingJobs, for any entries, profiles, workers and       *)
(* bounds.  A step of the system is taken apart once, into the cases that   *)
(* Step lists; each invariant then has one case per action.                 *)
EXTENDS EmbeddingJobs, TLAPS

(* Only a job with attempts left waits: the reset of enqueueForProfile().   *)
PendingIsFresh == \A k \in Keys : job[k].state = "pending" => job[k].attempts < MaxAttempts

TypeInv == TypeOK /\ PendingIsFresh

-----------------------------------------------------------------------------
(* A row that waits, is leased anew or has failed is a row.                 *)
LEMMA PendingRow ==
  ASSUME NEW c \in Contents
  PROVE  Pending(c) \in Row
BY JobsAssumption DEF Pending, Row

LEMMA LeasedRow ==
  ASSUME NEW r \in Row, r.attempts < MaxAttempts, NEW l \in Leases
  PROVE  Leased(r, l) \in Row
BY JobsAssumption DEF Leased, Row

LEMMA FailedRow ==
  ASSUME NEW r \in Row, NEW code \in {"transient", "permanent", "secret"}
  PROVE  /\ Failed(r, code) \in Row
         /\ Failed(r, code).content = r.content
         /\ Failed(r, code).lease = NoLease
         /\ Failed(r, code).state \in {"failed", "blocked"}
<1>1. r.attempts \in 0 .. MaxAttempts /\ r.content \in Contents
  BY DEF Row
<1>2. MaxAttempts \in 0 .. MaxAttempts
  BY JobsAssumption
<1>3. CASE code = "transient"
  BY <1>1, <1>2, <1>3 DEF Failed, Row
<1>4. CASE code = "permanent"
  BY <1>1, <1>2, <1>4 DEF Failed, Row
<1>5. CASE code = "secret"
  BY <1>1, <1>2, <1>5 DEF Failed, Row
<1> QED BY <1>3, <1>4, <1>5

LEMMA RowFacts ==
  /\ NoJob \notin Row
  /\ NoJob.state = "none" /\ NoJob.lease = NoLease
  /\ \A c : Pending(c).state = "pending" /\ Pending(c).lease = NoLease /\ Pending(c).content = c /\ Pending(c).attempts = 0
BY DEF NoJob, Row, Pending

LEMMA InitTypeInv == Init => TypeInv
BY JobsAssumption DEF Init, TypeInv, TypeOK, PendingIsFresh, NoJob, Keys, Contents, Claim

(* The steps of the system, one disjunct each.                              *)
LEMMA Steps ==
  ASSUME Next
  PROVE  \/ \E e \in Entries : WriteEntry(e)
         \/ \E e \in Entries : Forget(e)
         \/ \E p \in Profiles : Activate(p)
         \/ \E w \in Workers, S \in SUBSET Keys, l \in Leases : Drain(w, S, l)
         \/ \E w \in Workers, h \in UNION {held[v] : v \in Workers} : Finalize(w, h)
         \/ \E w \in Workers, h \in UNION {held[v] : v \in Workers}, code \in {"transient", "permanent", "secret"} : Fail(w, h, code)
         \/ \E w \in Workers : Leave(w)
         \/ \E w \in Workers : Open(w)
         \/ \E l \in Leases : Lapse(l)
         \/ \E k \in Keys : DelayPasses(k)
BY DEF Next, Drains, Settles

(* What a step may do to the table: every row it writes is one of these.    *)
Written(k) ==
  \/ job'[k] = job[k]
  \/ job'[k] = NoJob
  \/ \E c \in Contents : job'[k] = Pending(c)
  \/ \E l \in Leases : job[k] \in Row /\ job[k].attempts < MaxAttempts /\ job'[k] = Leased(job[k], l)
  \/ \E code \in {"transient", "permanent", "secret"} : job[k] \in Row /\ job'[k] = Failed(job[k], code)
  \/ job[k] \in Row /\ job[k].state = "failed" /\ job'[k] = [job[k] EXCEPT !.due = TRUE]

LEMMA WrittenRow ==
  ASSUME TypeInv, NEW k \in Keys, Written(k)
  PROVE  /\ job'[k] \in Row \cup {NoJob}
         /\ job'[k].state = "leased" <=> job'[k].lease # NoLease
         /\ job'[k].state = "pending" => job'[k].attempts < MaxAttempts
<1>0. job[k] \in Row \cup {NoJob} /\ (job[k].state = "leased" <=> job[k].lease # NoLease)
      /\ (job[k].state = "pending" => job[k].attempts < MaxAttempts)
  BY DEF TypeInv, TypeOK, PendingIsFresh
<1>1. CASE job'[k] = job[k]
  BY <1>0, <1>1
<1>2. CASE job'[k] = NoJob
  BY <1>2, RowFacts
<1>3. CASE \E c \in Contents : job'[k] = Pending(c)
  BY <1>3, PendingRow, RowFacts, JobsAssumption
<1>4. CASE \E l \in Leases : job[k] \in Row /\ job[k].attempts < MaxAttempts /\ job'[k] = Leased(job[k], l)
  BY <1>4, LeasedRow, JobsAssumption DEF Leased
<1>5. CASE \E code \in {"transient", "permanent", "secret"} : job[k] \in Row /\ job'[k] = Failed(job[k], code)
  BY <1>5, FailedRow
<1>6. CASE job[k] \in Row /\ job[k].state = "failed" /\ job'[k] = [job[k] EXCEPT !.due = TRUE]
  <2>1. job'[k] \in Row /\ job'[k].state = "failed" /\ job'[k].lease = job[k].lease
    BY <1>6 DEF Row
  <2> QED BY <1>0, <1>6, <2>1
<1> QED BY <1>1, <1>2, <1>3, <1>4, <1>5, <1>6 DEF Written

LEMMA StepWrites ==
  ASSUME TypeInv, [Next]_vars
  PROVE  /\ \A k \in Keys : Written(k)
         /\ job' = [k \in Keys |-> job'[k]]
<1>0. job \in [Keys -> Row \cup {NoJob}] /\ content \in [Entries -> {Absent} \cup Contents]
      /\ \A k \in Keys : job[k].state \in {"failed", "pending", "leased"} => job[k] \in Row
  BY RowFacts DEF TypeInv, TypeOK
<1>1. CASE UNCHANGED job
  BY <1>0, <1>1 DEF Written
<1>2. ASSUME NEW e \in Entries, WriteEntry(e)
      PROVE  /\ \A k \in Keys : Written(k)
             /\ job' = [k \in Keys |-> job'[k]]
  <2>1. content[e] + 1 \in Contents
    BY <1>0, <1>2, JobsAssumption DEF WriteEntry, Contents, Shell, Absent
  <2> QED BY <1>0, <1>2, <2>1 DEF WriteEntry, Written, Queued
<1>3. ASSUME NEW e \in Entries, Forget(e)
      PROVE  /\ \A k \in Keys : Written(k)
             /\ job' = [k \in Keys |-> job'[k]]
  BY <1>0, <1>3 DEF Forget, Written
<1>4. ASSUME NEW p \in Profiles, Activate(p)
      PROVE  /\ \A k \in Keys : Written(k)
             /\ job' = [k \in Keys |-> job'[k]]
  <2>1. \A k \in Keys : content[k[1]] # Absent => content[k[1]] \in Contents
    BY <1>0 DEF Keys
  <2> QED BY <1>0, <1>4, <2>1 DEF Activate, Written, Queued
<1>5. ASSUME NEW w \in Workers, NEW S \in SUBSET Keys, NEW l \in Leases, Drain(w, S, l)
      PROVE  /\ \A k \in Keys : Written(k)
             /\ job' = [k \in Keys |-> job'[k]]
  <2>1. \A k \in S : job[k] \in Row /\ job[k].attempts < MaxAttempts
    BY <1>0, <1>5 DEF Drain, Claimable, TypeInv, PendingIsFresh
  <2>2. \A k \in Keys : job'[k] = IF k \in S THEN Leased(job[k], l) ELSE job[k]
    BY <1>5 DEF Drain
  <2>3. job' = [k \in Keys |-> job'[k]]
    BY <1>5 DEF Drain
  <2> QED BY <2>1, <2>2, <2>3 DEF Written
<1>6. ASSUME NEW w \in Workers, NEW h, Finalize(w, h)
      PROVE  /\ \A k \in Keys : Written(k)
             /\ job' = [k \in Keys |-> job'[k]]
  BY <1>0, <1>6 DEF Finalize, Written
<1>7. ASSUME NEW w \in Workers, NEW h, NEW code \in {"transient", "permanent", "secret"}, Fail(w, h, code)
      PROVE  /\ \A k \in Keys : Written(k)
             /\ job' = [k \in Keys |-> job'[k]]
  <2>1. Owns(h) => job[h.key].state = "leased"
    BY DEF Owns
  <2>2. job' = IF Owns(h) THEN [job EXCEPT ![h.key] = Failed(job[h.key], code)] ELSE job
    BY <1>7 DEF Fail
  <2>3. \A k \in Keys : job'[k] = job[k] \/ (job'[k] = Failed(job[k], code) /\ job[k].state = "leased")
    BY <1>0, <2>1, <2>2
  <2> QED BY <1>0, <2>2, <2>3 DEF Written
<1>8. ASSUME NEW k \in Keys, DelayPasses(k)
      PROVE  /\ \A j \in Keys : Written(j)
             /\ job' = [j \in Keys |-> job'[j]]
  BY <1>0, <1>8 DEF DelayPasses, Written
<1>9. (\E w \in Workers : Leave(w) \/ Open(w)) \/ (\E l \in Leases : Lapse(l)) \/ UNCHANGED vars => UNCHANGED job
  BY DEF Leave, Open, Lapse, vars
<1> QED BY <1>1, <1>2, <1>3, <1>4, <1>5, <1>6, <1>7, <1>8, <1>9, Steps

(* The variables beside the table.                                          *)
LEMMA StepTypes ==
  ASSUME TypeInv, [Next]_vars
  PROVE  TypeInv'
<1>0. TypeOK
  BY DEF TypeInv
<1>1. /\ job' \in [Keys -> Row \cup {NoJob}]
      /\ \A k \in Keys : job'[k].state = "leased" <=> job'[k].lease # NoLease
      /\ PendingIsFresh'
  BY StepWrites, WrittenRow DEF PendingIsFresh
<1>2. /\ content' \in [Entries -> {Absent} \cup Contents]
      /\ vector' \in [Keys -> {Absent} \cup Contents]
      /\ active' \in Profiles \cup {NoProfile} /\ generation' \in 1 .. Generations
  <2>1. ASSUME NEW e \in Entries, WriteEntry(e) PROVE <1>2!:
    <3>1. content[e] + 1 \in Contents
      BY <1>0, <2>1, JobsAssumption DEF TypeOK, WriteEntry, Contents, Shell, Absent
    <3> QED BY <1>0, <2>1, <3>1 DEF TypeOK, WriteEntry
  <2>2. ASSUME NEW e \in Entries, Forget(e) PROVE <1>2!:
    <3>1. Shell \in Contents
      BY JobsAssumption DEF Contents, Shell
    <3> QED BY <1>0, <2>2, <3>1 DEF TypeOK, Forget, Erased
  <2>3. ASSUME NEW p \in Profiles, Activate(p) PROVE <1>2!:
    BY <1>0, <2>3, JobsAssumption DEF TypeOK, Activate
  <2>4. ASSUME NEW w \in Workers, NEW h \in UNION {held[v] : v \in Workers}, Finalize(w, h) PROVE <1>2!:
    <3>1. h.content \in Contents
      BY <1>0 DEF TypeOK, Claim
    <3> QED BY <1>0, <2>4, <3>1 DEF TypeOK, Finalize
  <2>5. (\E w \in Workers, S \in SUBSET Keys, l \in Leases : Drain(w, S, l)) => <1>2!:
    BY <1>0 DEF TypeOK, Drain
  <2>6. (\E w \in Workers, h \in UNION {held[v] : v \in Workers}, code \in {"transient", "permanent", "secret"} : Fail(w, h, code)) => <1>2!:
    BY <1>0 DEF TypeOK, Fail
  <2>7. (\E w \in Workers : Leave(w) \/ Open(w)) \/ (\E l \in Leases : Lapse(l)) \/ (\E k \in Keys : DelayPasses(k)) \/ UNCHANGED vars => <1>2!:
    BY <1>0 DEF TypeOK, Leave, Open, Lapse, DelayPasses, vars
  <2> QED BY <2>1, <2>2, <2>3, <2>4, <2>5, <2>6, <2>7, Steps
<1>3. /\ bound' \in [Workers -> (Profiles \X (1 .. Generations)) \cup {<<>>}]
      /\ held' \in [Workers -> SUBSET Claim]
      /\ elapsed' \subseteq Leases
  <2>1. ASSUME NEW w \in Workers, NEW S \in SUBSET Keys, NEW l \in Leases, Drain(w, S, l) PROVE <1>3!:
    <3>1. \A k \in S : job[k].content \in Contents
      BY <1>0, <2>1, RowFacts DEF Drain, Claimable, TypeOK, Row
    <3>2. {[key |-> k, lease |-> l, generation |-> generation, content |-> job[k].content] : k \in S} \subseteq Claim
      BY <1>0, <3>1 DEF TypeOK, Claim
    <3> QED BY <1>0, <2>1, <3>2 DEF TypeOK, Drain
  <2>2. ASSUME NEW w \in Workers, Open(w) PROVE <1>3!:
    <3>1. <<active, generation>> \in Profiles \X (1 .. Generations)
      BY <1>0, <2>2 DEF TypeOK, Open
    <3> QED BY <1>0, <2>2, <3>1 DEF TypeOK, Open
  <2>3. ASSUME NEW w \in Workers, NEW h, Finalize(w, h) \/ (\E code : Fail(w, h, code)) \/ Leave(w) PROVE <1>3!:
    BY <1>0, <2>3 DEF TypeOK, Finalize, Fail, Leave
  <2>4. ASSUME NEW l \in Leases, Lapse(l) PROVE <1>3!:
    BY <1>0, <2>4 DEF TypeOK, Lapse
  <2>5. (\E e \in Entries : WriteEntry(e) \/ Forget(e)) \/ (\E p \in Profiles : Activate(p)) \/ (\E k \in Keys : DelayPasses(k)) \/ UNCHANGED vars => <1>3!:
    BY <1>0 DEF TypeOK, WriteEntry, Forget, Activate, DelayPasses, vars
  <2> QED BY <2>1, <2>2, <2>3, <2>4, <2>5, Steps
<1> QED BY <1>1, <1>2, <1>3 DEF TypeInv, TypeOK

(* Every reachable state of the table, its vectors and the workers' claims  *)
(* is type correct, and only a leased row has a lease.                      *)
THEOREM JobsTypeCorrect == Spec => []TypeOK
<1>1. TypeInv /\ [Next]_vars => TypeInv'
  BY StepTypes
<1>2. TypeInv => TypeOK
  BY DEF TypeInv
<1> QED BY <1>1, <1>2, InitTypeInv, PTL DEF Spec

-----------------------------------------------------------------------------
(* What keeps a content, its job and its vector together.                   *)
Sound == CurrentOrQueued /\ ForgottenTextIsGone

LEMMA StepSound ==
  ASSUME TypeInv, Sound, [Next]_vars
  PROVE  Sound'
<1>0. TypeOK /\ CurrentOrQueued /\ ForgottenTextIsGone
  BY DEF TypeInv, Sound
<1>a. \A e \in Entries, p \in Profiles : <<e, p>> \in Keys /\ <<e, p>>[1] = e
  BY DEF Keys
<1>b. \A k \in Keys : k[1] \in Entries /\ k[2] \in Profiles /\ k = <<k[1], k[2]>>
  BY DEF Keys
<1>c. Shell = Revisions + 1 /\ Shell \notin 1 .. Revisions /\ Absent = 0 /\ Absent \notin 1 .. Revisions /\ Absent # Shell /\ Revisions \in Nat
  BY JobsAssumption DEF Shell, Absent
<1>1. ASSUME NEW e \in Entries, WriteEntry(e) PROVE Sound'
  <2>1. content[e] + 1 # Shell /\ content[e] + 1 # Absent
    BY <1>0, <1>1, <1>c DEF WriteEntry, TypeOK, Contents
  <2>2. \A f \in Entries : content'[f] = IF f = e THEN content[e] + 1 ELSE content[f]
    BY <1>0, <1>1 DEF WriteEntry, TypeOK
  <2>3. ForgottenTextIsGone'
    BY <1>0, <1>1, <1>b, <2>1, <2>2 DEF WriteEntry, ForgottenTextIsGone
  <2>4. CurrentOrQueued'
    <3>1. ASSUME NEW f \in Entries, active # NoProfile, content'[f] \in 1 .. Revisions
          PROVE  vector[<<f, active>>] = content'[f] \/ job'[<<f, active>>].content = content'[f]
      <4>1. <<f, active>> \in Keys /\ active \in Profiles
        BY <1>0, <1>a, <3>1 DEF TypeOK
      <4>2. CASE f = e
        <5>1. job'[<<e, active>>] = Pending(content[e] + 1)
          BY <1>1, <4>1, <4>2 DEF WriteEntry, Queued
        <5> QED BY <2>2, <4>2, <5>1, RowFacts
      <4>3. CASE f # e
        <5>1. job'[<<f, active>>] = job[<<f, active>>]
          BY <1>1, <4>1, <4>3 DEF WriteEntry
        <5> QED BY <1>0, <2>2, <3>1, <4>3, <5>1 DEF CurrentOrQueued
      <4> QED BY <4>2, <4>3
    <3> QED BY <1>1, <3>1 DEF WriteEntry, CurrentOrQueued
  <2> QED BY <2>3, <2>4 DEF Sound
<1>2. ASSUME NEW e \in Entries, Forget(e) PROVE Sound'
  <2>1. \A f \in Entries : content'[f] = IF f = e THEN Shell ELSE content[f]
    BY <1>0, <1>2 DEF Forget, TypeOK
  <2>2. \A k \in Keys : /\ vector'[k] = IF k[1] = e THEN Absent ELSE vector[k]
                        /\ job'[k] = IF k[1] = e THEN NoJob ELSE job[k]
    BY <1>2 DEF Forget, Erased
  <2>3. ForgottenTextIsGone'
    BY <1>0, <1>b, <2>1, <2>2 DEF ForgottenTextIsGone
  <2>4. CurrentOrQueued'
    <3>1. ASSUME NEW f \in Entries, active # NoProfile, content'[f] \in 1 .. Revisions
          PROVE  vector'[<<f, active>>] = content'[f] \/ job'[<<f, active>>].content = content'[f]
      <4>1. <<f, active>> \in Keys /\ <<f, active>>[1] = f
        BY <1>0, <1>a, <3>1 DEF TypeOK
      <4>2. f # e /\ content'[f] = content[f]
        BY <1>c, <2>1, <3>1
      <4> QED BY <1>0, <2>2, <3>1, <4>1, <4>2 DEF CurrentOrQueued
    <3> QED BY <1>2, <3>1 DEF Forget, CurrentOrQueued
  <2> QED BY <2>3, <2>4 DEF Sound
<1>3. ASSUME NEW p \in Profiles, Activate(p) PROVE Sound'
  <2>1. ASSUME NEW f \in Entries, content[f] \in 1 .. Revisions
        PROVE  job'[<<f, p>>].content = content[f]
    <3>1. <<f, p>> \in Keys /\ content[f] # Absent
      BY <1>a, <1>c, <2>1
    <3>2. job'[<<f, p>>] = Pending(content[f])
      BY <1>3, <3>1 DEF Activate, Queued
    <3> QED BY <3>2, RowFacts
  <2> QED BY <1>0, <1>3, <2>1 DEF Activate, Sound, CurrentOrQueued, ForgottenTextIsGone
<1>4. ASSUME NEW w \in Workers, NEW h \in UNION {held[v] : v \in Workers}, Finalize(w, h) PROVE Sound'
  <2>0. h.key \in Keys
    BY <1>0 DEF TypeOK, Claim
  <2>1. CASE ~Accepted(h)
    BY <1>0, <1>4, <2>1 DEF Finalize, Sound, CurrentOrQueued, ForgottenTextIsGone
  <2>2. CASE Accepted(h)
    <3>1. h.content = content[h.key[1]]
      BY <2>2 DEF Accepted
    <3>2. \A k \in Keys : /\ vector'[k] = IF k = h.key THEN content[k[1]] ELSE vector[k]
                          /\ k # h.key => job'[k] = job[k]
      BY <1>0, <1>4, <2>0, <2>2, <3>1 DEF Finalize, TypeOK
    <3>3. UNCHANGED <<content, active>>
      BY <1>4 DEF Finalize
    <3>4. ForgottenTextIsGone'
      BY <1>0, <3>2, <3>3 DEF ForgottenTextIsGone
    <3>5. CurrentOrQueued'
      <4>1. ASSUME NEW f \in Entries, active # NoProfile, content[f] \in 1 .. Revisions
            PROVE  vector'[<<f, active>>] = content[f] \/ job'[<<f, active>>].content = content[f]
        <5>1. <<f, active>> \in Keys /\ <<f, active>>[1] = f
          BY <1>0, <1>a, <4>1 DEF TypeOK
        <5> QED BY <1>0, <3>2, <4>1, <5>1 DEF CurrentOrQueued
      <4> QED BY <3>3, <4>1 DEF CurrentOrQueued
    <3> QED BY <3>4, <3>5 DEF Sound
  <2> QED BY <2>1, <2>2
<1>5. ASSUME UNCHANGED <<content, active, vector>>, \A k \in Keys : job'[k].content = job[k].content PROVE Sound'
  <2>1. ASSUME NEW f \in Entries, active # NoProfile
        PROVE  job'[<<f, active>>].content = job[<<f, active>>].content
    <3>1. <<f, active>> \in Keys
      BY <1>0, <1>a, <2>1 DEF TypeOK
    <3> QED BY <1>5, <3>1
  <2> QED BY <1>0, <1>5, <2>1 DEF Sound, CurrentOrQueued, ForgottenTextIsGone
<1>6. ASSUME NEW w \in Workers, NEW S \in SUBSET Keys, NEW l \in Leases, Drain(w, S, l) PROVE Sound'
  <2>1. \A k \in Keys : job'[k].content = job[k].content
    BY <1>6 DEF Drain, Leased
  <2> QED BY <1>5, <1>6, <2>1 DEF Drain
<1>7. ASSUME NEW w \in Workers, NEW h, NEW code \in {"transient", "permanent", "secret"}, Fail(w, h, code) PROVE Sound'
  <2>1. \A k \in Keys : job'[k] = job[k] \/ job'[k] = Failed(job[k], code)
    BY <1>0, <1>7 DEF Fail, TypeOK
  <2>2. \A r : Failed(r, code).content = r.content
    BY DEF Failed
  <2> QED BY <1>5, <1>7, <2>1, <2>2 DEF Fail
<1>8. ASSUME NEW j \in Keys, DelayPasses(j) PROVE Sound'
  <2>1. \A k \in Keys : job'[k] = job[k] \/ (job[k].state = "failed" /\ job'[k] = [job[k] EXCEPT !.due = TRUE])
    BY <1>0, <1>8 DEF DelayPasses, TypeOK
  <2>2. \A r \in Row : [r EXCEPT !.due = TRUE].content = r.content
    BY DEF Row
  <2>3. \A k \in Keys : job[k].state = "failed" => job[k] \in Row
    BY <1>0, RowFacts DEF TypeOK
  <2>4. \A k \in Keys : job'[k].content = job[k].content
    BY <2>1, <2>2, <2>3
  <2> QED BY <1>5, <1>8, <2>4 DEF DelayPasses
<1>9. (\E w \in Workers : Leave(w) \/ Open(w)) \/ (\E l \in Leases : Lapse(l)) \/ UNCHANGED vars => Sound'
  BY <1>5 DEF Leave, Open, Lapse, vars
<1> QED BY <1>1, <1>2, <1>3, <1>4, <1>6, <1>7, <1>8, <1>9, Steps

LEMMA InvariantsHold == Spec => [](TypeInv /\ Sound)
<1>1. Init => Sound
  BY DEF Init, Sound, CurrentOrQueued, ForgottenTextIsGone
<1>2. TypeInv /\ Sound /\ [Next]_vars => TypeInv' /\ Sound'
  BY StepTypes, StepSound
<1> QED BY <1>1, <1>2, InitTypeInv, PTL DEF Spec

(* No entry is missed by the active profile, whatever profiles were active  *)
(* before and however drains, leases and edits interleave.                  *)
THEOREM NoEntryIsMissed == Spec => []CurrentOrQueued
<1>1. Sound => CurrentOrQueued
  BY DEF Sound
<1> QED BY <1>1, InvariantsHold, PTL

(* A forgotten text never gets its vector back from a drain that read it.   *)
THEOREM ForgottenStaysForgotten == Spec => []ForgottenTextIsGone
<1>1. Sound => ForgottenTextIsGone
  BY DEF Sound
<1> QED BY <1>1, InvariantsHold, PTL

(* A vector is only ever stored for the content its entry has then.         *)
THEOREM LateVectorIsRefused == Spec => StoredVectorsAreCurrent
<1> DEFINE Stores == \A k \in Keys : vector'[k] # vector[k] => vector'[k] \in {Absent, content[k[1]]}
<1>1. ASSUME TypeInv, [Next]_vars PROVE [Stores]_vars
  <2>0. TypeOK
    BY <1>1 DEF TypeInv
  <2>1. ASSUME NEW e \in Entries, Forget(e) PROVE Stores
    BY <2>1 DEF Forget, Erased
  <2>2. ASSUME NEW w \in Workers, NEW h, Finalize(w, h) PROVE Stores
    BY <2>0, <2>2 DEF Finalize, Accepted, TypeOK
  <2>3. UNCHANGED vector => Stores
    OBVIOUS
  <2>4. (\E e \in Entries : WriteEntry(e)) \/ (\E p \in Profiles : Activate(p)) => UNCHANGED vector
    BY DEF WriteEntry, Activate
  <2>5. ASSUME NEW w \in Workers, NEW S \in SUBSET Keys, NEW l \in Leases, Drain(w, S, l) PROVE UNCHANGED vector
    BY <2>5 DEF Drain
  <2>6. ASSUME NEW w \in Workers, NEW h, NEW code, Fail(w, h, code) PROVE UNCHANGED vector
    BY <2>6 DEF Fail
  <2>7. (\E w \in Workers : Leave(w) \/ Open(w)) \/ (\E l \in Leases : Lapse(l)) \/ (\E k \in Keys : DelayPasses(k)) => UNCHANGED vector
    BY DEF Leave, Open, Lapse, DelayPasses
  <2> QED BY <1>1, <2>1, <2>2, <2>3, <2>4, <2>5, <2>6, <2>7, Steps
<1>2. TypeInv /\ [Next]_vars => [Stores]_vars
  BY <1>1
<1>3. Spec => [][Stores]_vars
  <2> HIDE DEF Stores
  <2> QED BY <1>2, InvariantsHold, PTL DEF Spec
<1> QED BY <1>3 DEF StoredVectorsAreCurrent
=============================================================================
