------------------------- MODULE DatabaseSetupProofs --------------------------
(* Proofs about DatabaseSetup, for any setups, versions and bounds.  What a  *)
(* setup knows lags behind its file, whose content only grows; everything   *)
(* follows from where the two meet: the plan compared under the lock, and   *)
(* the data version compared when the inspection is closed.                 *)
EXTENDS DatabaseSetup, TLAPS

Contents == [bytes : BOOLEAN, version : Nat, rows : Nat]
Places == {"off", "inspect", "serialize", "write", "ready", "reserve", "open", "recheck",
           "lock", "locked", "commit", "report", "done", "failed"}
Records == [pc : Places, file : 0..MaxFiles, plan : Nat, seen : Contents, saved : Contents]

Types ==
  /\ used \in 0..MaxFiles /\ path \in 0..used
  /\ files \in [Files -> Contents]
  /\ lock \in [Files -> Setups \cup {NoSetup}]
  /\ backups \subseteq [file : Files, content : Contents]
  /\ setup \in [Setups -> Records]

(* Inodes not used yet are blank.                                           *)
Unborn == \A f \in Files : f > used => files[f] = Blank

(* a was committed before b, in the same file.                              *)
Before(a, b) == (a.bytes => b.bytes) /\ a.version <= b.version /\ a.rows <= b.rows

Placed(p) ==
  /\ File(p) <= used
  /\ setup[p].pc \notin {"off", "reserve", "failed"} => File(p) \in Files

Planned(p) ==
  /\ setup[p].pc \in {"off", "inspect", "reserve"} => Absent(p)
  /\ setup[p].pc \in {"serialize", "write", "ready"} => ~Absent(p)
  /\ setup[p].pc \in {"serialize", "write", "lock", "locked", "commit"} => Migrates(p)
  /\ setup[p].pc \in {"serialize", "write", "ready"} => setup[p].plan = setup[p].seen.version + 1

(* What was seen, and what was serialized, is a past of the file.           *)
Behind(p) ==
  /\ setup[p].pc \in {"serialize", "write", "ready"} => Before(setup[p].seen, Content(p))
  /\ setup[p].pc = "write" =>
       /\ setup[p].saved.bytes
       /\ Before(setup[p].seen, setup[p].saved) /\ Before(setup[p].saved, Content(p))
  /\ setup[p].pc \in {"ready", "open", "recheck"} => setup[p].plan <= Content(p).version + 1

Backed(p) ==
  /\ setup[p].pc = "ready" /\ Migrates(p) =>
       \E b \in backups : /\ b.file = File(p) /\ b.content.bytes
                          /\ Before(setup[p].seen, b.content) /\ Before(b.content, Content(p))
  /\ setup[p].pc \in {"open", "recheck", "lock", "locked", "commit"} /\ ~Absent(p) /\ Migrates(p) =>
       \E b \in backups : /\ b.file = File(p)
                          /\ setup[p].plan <= b.content.version + 1 /\ b.content.version <= Content(p).version

Locked(p) ==
  /\ setup[p].pc \in {"locked", "commit"} => lock[File(p)] = p
  /\ setup[p].pc = "commit" =>
       IF Absent(p) THEN Content(p).version = 0 /\ Content(p).rows = 0
                    ELSE Content(p).version + 1 = setup[p].plan

Migrated(p) == setup[p].pc \in {"report", "done"} => Content(p).version >= Target[p]

Sound(p) == Placed(p) /\ Planned(p) /\ Behind(p) /\ Backed(p) /\ Locked(p) /\ Migrated(p)
IInv == Types /\ Unborn /\ \A p \in Setups : Sound(p)

-----------------------------------------------------------------------------
(* The record of a setup after a step of it.                                *)
LEMMA Moves ==
  ASSUME setup \in [Setups -> Records], NEW p \in Setups, NEW a \in Places, NEW f \in 0..MaxFiles,
         NEW plan \in Nat, NEW seen \in Contents, NEW saved \in Contents, Becomes(p, a, f, plan, seen, saved)
  PROVE  /\ setup' \in [Setups -> Records] /\ \A q \in Setups \ {p} : setup'[q] = setup[q]
         /\ setup'[p] = [pc |-> a, file |-> f, plan |-> plan, seen |-> seen, saved |-> saved]
  BY DEF Becomes, Records

(* Of a setup that is somewhere, what the proofs use of its record.         *)
LEMMA Known ==
  ASSUME Types, NEW p \in Setups
  PROVE  /\ setup[p] \in Records /\ File(p) \in 0..MaxFiles /\ setup[p].pc \in Places
         /\ setup[p].plan \in Nat /\ setup[p].seen \in Contents /\ setup[p].saved \in Contents
         /\ File(p) \in Files => Content(p) \in Contents
         /\ Target[p] \in Nat \ {0} /\ p # NoSetup
  BY SetupAssumption DEF Types, Records, File, Content

(* The empty file and its migrations satisfy the invariant.                 *)
LEMMA InitInv == Init => IInv
<1> SUFFICES ASSUME Init PROVE IInv
  OBVIOUS
<1> USE SetupAssumption DEF Init, Files, Blank, Beginning, Fresh
<1>1. Types
  <2>1. files \in [Files -> Contents]
    <3>1. PICK v \in {0} \cup {Target[p] : p \in Setups} :
            files = [f \in Files |-> IF f = path THEN [bytes |-> v > 0, version |-> v, rows |-> 0] ELSE Blank]
      OBVIOUS
    <3>2. v \in Nat
      OBVIOUS
    <3>3. [bytes |-> v > 0, version |-> v, rows |-> 0] \in Contents /\ Blank \in Contents
      BY <3>2 DEF Contents
    <3> QED BY <3>1, <3>3
  <2>2. setup \in [Setups -> Records]
    <3>1. Beginning \in Records
      BY DEF Records, Contents, Places
    <3>2. setup = [p \in Setups |-> Beginning]
      OBVIOUS
    <3> HIDE DEF Beginning, Init
    <3> QED BY <3>1, <3>2
  <2>3. used \in 0..MaxFiles /\ path \in 0..used /\ lock \in [Files -> Setups \cup {NoSetup}]
    OBVIOUS
  <2>4. backups \subseteq [file : Files, content : Contents]
    OBVIOUS
  <2> HIDE DEF Init
  <2> QED BY <2>1, <2>2, <2>3, <2>4 DEF Types
<1>2. Unborn
  <2> SUFFICES ASSUME NEW f \in Files, f > used PROVE files[f] = Blank
    BY DEF Unborn
  <2>1. f # path
    OBVIOUS
  <2> QED BY <2>1
<1>3. ASSUME NEW p \in Setups PROVE Sound(p)
  <2>1. setup[p] = Beginning
    OBVIOUS
  <2> QED BY <2>1 DEF Sound, Placed, Planned, Behind, Backed, Locked, Migrated, File, Absent, Fresh
<1> QED BY <1>1, <1>2, <1>3 DEF IInv

(* Of the same file, what is committed only grows.                          *)
Growth ==
  /\ used <= used' /\ backups \subseteq backups'
  /\ \A f \in Files : f <= used => Before(files[f], files'[f])

LEMMA FilesGrow == ASSUME IInv, Next PROVE Growth
<1> USE SetupAssumption DEF IInv, Types, Files, Contents, Before
<1>1. ASSUME UNCHANGED disk PROVE Growth
  BY <1>1 DEF Growth, disk
<1>2. ASSUME NEW p \in Setups, WriteBackup(p) PROVE Growth
  BY <1>2 DEF Growth, WriteBackup
<1>3. ASSUME NEW p \in Setups, Reserve(p) PROVE Growth
  BY <1>3 DEF Growth, Reserve
<1>4. ASSUME NEW p \in Setups, Open(p) PROVE Growth
  <2>1. \A f \in Files : Before(files[f], files'[f])
    BY <1>4 DEF Open
  <2> QED BY <1>4, <2>1 DEF Growth, Open
<1>5. ASSUME NEW p \in Setups, Commit(p) PROVE Growth
  <2>1. File(p) \in Files /\ Content(p).version <= Target[p]
    BY <1>5 DEF Commit, At, Sound, Placed, Planned, Locked, Migrates, Absent, Fresh, File, Content, Records
  <2>2. \A f \in Files : Before(files[f], files'[f])
    BY <1>5, <2>1 DEF Commit, File, Content
  <2> QED BY <1>5, <2>2 DEF Growth, Commit
<1>6. ASSUME NEW f \in Files, WriteRow(f) PROVE Growth
  <2>1. \A g \in Files : Before(files[g], files'[g])
    BY <1>6 DEF WriteRow
  <2> QED BY <1>6, <2>1 DEF Growth, WriteRow
<1>7. ASSUME NEW b \in backups, Restore(b) PROVE Growth
  <2>1. \A f \in Files : f <= used => files'[f] = files[f]
    BY <1>7 DEF Restore
  <2> QED BY <1>7, <2>1 DEF Growth, Restore
<1>8. ASSUME Remove PROVE Growth
  BY <1>8 DEF Growth, Remove
<1> HIDE DEF Growth
<1> QED
  BY <1>1, <1>2, <1>3, <1>4, <1>5, <1>6, <1>7, <1>8
  DEF Next, Begin, Inspect, Serialize, CloseInspection, Recheck, BeginImmediate, Migrate, Report, Fail, Crash

(* Nobody else writes to a file while a setup has its lock.                 *)
LEMMA LockIsKept ==
  ASSUME IInv, Next, NEW p \in Setups, setup'[p] = setup[p], setup[p].pc \in {"locked", "commit"}
  PROVE  /\ lock'[File(p)] = p
         /\ files'[File(p)].version = files[File(p)].version /\ files'[File(p)].rows = files[File(p)].rows
<1> DEFINE f == File(p)
           Kept == /\ lock'[f] = p
                   /\ files'[f].version = files[f].version /\ files'[f].rows = files[f].rows
<1>1. lock[f] = p /\ f \in Files /\ f <= used
  BY DEF IInv, Sound, Placed, Locked
<1>2. p # NoSetup
  BY SetupAssumption
<1>3. /\ files \in [Files -> Contents] /\ lock \in [Files -> Setups \cup {NoSetup}] /\ setup \in [Setups -> Records]
      /\ used \in 0..MaxFiles
  BY DEF IInv, Types
<1> HIDE DEF f
<1>4. ASSUME UNCHANGED <<files, lock>> PROVE Kept
  BY <1>1, <1>4
<1>5. ASSUME NEW q \in Setups, Open(q) PROVE Kept
  BY <1>1, <1>3, <1>5 DEF Open, Contents
<1>6. ASSUME NEW q \in Setups, BeginImmediate(q) PROVE Kept
  BY <1>1, <1>2, <1>3, <1>6 DEF BeginImmediate, disk
<1>7. ASSUME NEW q \in Setups, Commit(q) PROVE Kept
  <2>1. q # p
    BY <1>3, <1>7 DEF Commit, Go, Becomes, At, Records
  <2>2. lock[File(q)] = q
    BY <1>7 DEF IInv, Sound, Locked, Commit, At
  <2>3. File(q) # f
    BY <1>1, <2>1, <2>2
  <2> QED BY <1>1, <1>3, <1>7, <2>3 DEF Commit
<1>8. ASSUME NEW q \in Setups, Fail(q) \/ Crash(q) PROVE Kept
  <2>1. q # p
    BY <1>3, <1>8 DEF Fail, Crash, Go, Becomes, Running, Beginning, Records
  <2>2. lock' = [g \in Files |-> IF lock[g] = q THEN NoSetup ELSE lock[g]] /\ files' = files
    BY <1>8 DEF Fail, Crash, Released, disk
  <2> QED BY <1>1, <2>1, <2>2
<1>9. ASSUME NEW g \in Files, WriteRow(g) PROVE Kept
  BY <1>1, <1>2, <1>3, <1>9 DEF WriteRow
<1>10. ASSUME NEW b \in backups, Restore(b) PROVE Kept
  BY <1>1, <1>3, <1>10 DEF Restore, Files
<1> HIDE DEF Kept
<1>11. Kept
  BY <1>4, <1>5, <1>6, <1>7, <1>8, <1>9, <1>10
  DEF Next, Begin, Inspect, Serialize, WriteBackup, CloseInspection, Reserve, Recheck, Migrate, Report, Remove, disk
<1> QED BY <1>11 DEF Kept, f

(* A setup that does not move keeps what it knows.                          *)
LEMMA OthersKeep ==
  ASSUME IInv, Next, NEW p \in Setups, setup'[p] = setup[p], files' \in [Files -> Contents],
         used \in Nat, used' \in Nat
  PROVE  Sound(p)'
<1>1. files \in [Files -> Contents] /\ setup[p] \in Records /\ Sound(p) /\ Target[p] \in Nat
  BY SetupAssumption DEF IInv, Types
<1>2. used <= used' /\ backups \subseteq backups'
  BY FilesGrow DEF Growth
<1>3. File(p)' = File(p) /\ Absent(p)' = Absent(p) /\ Migrates(p)' = Migrates(p)
  BY DEF File, Absent, Migrates
<1>4. ASSUME File(p) \in Files
      PROVE  Content(p) \in Contents /\ Content(p)' \in Contents /\ Before(Content(p), Content(p)')
  BY <1>1, <1>3, <1>4, FilesGrow DEF Growth, Sound, Placed, Content
<1>5. Placed(p)' /\ Planned(p)'
  BY <1>1, <1>2, <1>3 DEF Sound, Placed, Planned, File, Files, Records
<1>6. Behind(p)'
  BY <1>1, <1>3, <1>4 DEF Sound, Placed, Behind, Before, Records, Contents
<1>7. Backed(p)'
  <2>1. \A b \in backups : Before(b.content, Content(p)) /\ File(p) \in Files => Before(b.content, Content(p)')
    BY <1>4 DEF IInv, Types, Before, Contents
  <2>2. \A b \in backups : b.content.version <= Content(p).version /\ File(p) \in Files
          => b.content.version <= Content(p)'.version
    BY <1>4 DEF IInv, Types, Before, Contents
  <2>3. setup[p].pc \in {"ready", "open", "recheck", "lock", "locked", "commit"} => File(p) \in Files
    BY <1>1 DEF Sound, Placed
  <2> QED BY <1>1, <1>2, <1>3, <2>1, <2>2, <2>3 DEF Sound, Backed
<1>8. Locked(p)'
  BY <1>1, <1>3, LockIsKept DEF Sound, Locked, Content, File
<1>9. Migrated(p)'
  BY <1>1, <1>3, <1>4 DEF Sound, Placed, Migrated, Before, Contents
<1> QED BY <1>5, <1>6, <1>7, <1>8, <1>9 DEF Sound


-----------------------------------------------------------------------------
(* Types, and blank inodes, action by action.                               *)
LEMMA TypesKept == ASSUME IInv, Next PROVE Types' /\ Unborn'
<1>1. /\ used \in 0..MaxFiles /\ path \in 0..used
      /\ files \in [Files -> Contents]
      /\ lock \in [Files -> Setups \cup {NoSetup}]
      /\ backups \subseteq [file : Files, content : Contents]
      /\ setup \in [Setups -> Records]
      /\ Unborn /\ Types
      /\ MaxFiles \in Nat
  BY SetupAssumption DEF IInv, Types
<1>2. Blank \in Contents
  BY DEF Blank, Contents
<1>3. ASSUME UNCHANGED disk, setup' \in [Setups -> Records], lock' \in [Files -> Setups \cup {NoSetup}]
      PROVE Types' /\ Unborn'
  BY <1>1, <1>3 DEF disk, Types, Unborn
<1>4. ASSUME NEW p \in Setups, NEW a \in Places, Go(p, a) PROVE setup' \in [Setups -> Records]
  BY <1>1, <1>4, Known, Moves DEF Go
<1>5. ASSUME NEW p \in Setups, Begin(p) PROVE Types' /\ Unborn'
  <2>1. path \in 0..MaxFiles /\ Fresh \in Nat
    BY <1>1 DEF Fresh
  <2>2. setup' \in [Setups -> Records]
    BY <1>1, <1>2, <1>5, <2>1, Moves DEF Begin, Places
  <2> QED BY <1>1, <1>3, <1>5, <2>2 DEF Begin
<1>6. ASSUME NEW p \in Setups, Inspect(p) PROVE Types' /\ Unborn'
  <2>1. Content(p) \in Contents
    BY <1>1, <1>6, Known DEF IInv, Sound, Placed, Inspect, At
  <2>2. Content(p).version + 1 \in Nat
    BY <2>1 DEF Contents
  <2>3. setup' \in [Setups -> Records]
    BY <1>1, <1>2, <1>6, <2>1, <2>2, Known, Moves DEF Inspect, Places
  <2> QED BY <1>1, <1>3, <1>6, <2>3 DEF Inspect
<1>7. ASSUME NEW p \in Setups, Serialize(p) PROVE Types' /\ Unborn'
  <2>1. Content(p) \in Contents
    BY <1>1, <1>7, Known DEF IInv, Sound, Placed, Serialize, At
  <2>2. setup' \in [Setups -> Records]
    BY <1>1, <1>7, <2>1, Known, Moves DEF Serialize, Places
  <2> QED BY <1>1, <1>3, <1>7, <2>2 DEF Serialize
<1>8. ASSUME NEW p \in Setups, WriteBackup(p) PROVE Types' /\ Unborn'
  <2>1. [file |-> File(p), content |-> setup[p].saved] \in [file : Files, content : Contents]
    BY <1>1, <1>8, Known DEF IInv, Sound, Placed, WriteBackup, At
  <2>2. setup' \in [Setups -> Records]
    BY <1>4, <1>8 DEF WriteBackup, Places
  <2> QED BY <1>1, <1>8, <2>1, <2>2 DEF WriteBackup, Types, Unborn
<1>9. ASSUME NEW p \in Setups, CloseInspection(p) \/ Recheck(p) \/ Migrate(p) \/ Report(p) PROVE Types' /\ Unborn'
  BY <1>1, <1>3, <1>4, <1>9 DEF CloseInspection, Recheck, Migrate, Report, Places
<1>10. ASSUME NEW p \in Setups, Reserve(p) PROVE Types' /\ Unborn'
  <2>1. used + 1 \in 0..MaxFiles /\ Fresh \in Nat
    BY <1>1, <1>10 DEF Reserve, Fresh
  <2>2. setup' \in [Setups -> Records]
    BY <1>1, <1>2, <1>10, <2>1, Moves DEF Reserve, Places
  <2>3. path' \in 0..used' /\ used' \in 0..MaxFiles /\ used <= used'
    BY <1>1, <1>10, <2>1 DEF Reserve
  <2>4. UNCHANGED <<files, lock, backups>>
    BY <1>10 DEF Reserve
  <2>5. Types'
    BY <1>1, <2>2, <2>3, <2>4 DEF Types
  <2>6. Unborn'
    BY <1>1, <2>3, <2>4 DEF Unborn, Files
  <2> QED BY <2>5, <2>6
<1>11. ASSUME NEW p \in Setups, Open(p) PROVE Types' /\ Unborn'
  <2>1. File(p) \in Files /\ File(p) <= used
    BY <1>11 DEF IInv, Sound, Placed, Open, At
  <2>2. files' \in [Files -> Contents] /\ \A f \in Files : f > used => files'[f] = files[f]
    <3>1. [files[File(p)] EXCEPT !.bytes = TRUE] \in Contents
      BY <1>1, <2>1, Known DEF Contents
    <3> QED BY <1>1, <1>11, <2>1, <3>1 DEF Open, Files
  <2>3. files'[File(p)] \in Contents
    BY <2>1, <2>2
  <2>4. setup' \in [Setups -> Records]
    BY <1>1, <1>11, <2>3, Known, Moves DEF Open, Places
  <2> QED BY <1>1, <1>11, <2>2, <2>4 DEF Open, Types, Unborn
<1>12. ASSUME NEW p \in Setups, BeginImmediate(p) PROVE Types' /\ Unborn'
  BY <1>1, <1>3, <1>4, <1>12 DEF BeginImmediate, Places
<1>13. ASSUME NEW p \in Setups, Commit(p) PROVE Types' /\ Unborn'
  <2>1. File(p) \in Files /\ File(p) <= used
    BY <1>13 DEF IInv, Sound, Placed, Commit, At
  <2>2. files' \in [Files -> Contents] /\ \A f \in Files : f > used => files'[f] = files[f]
    <3>1. [files[File(p)] EXCEPT !.version = Target[p]] \in Contents
      BY <1>1, <2>1, Known DEF Contents
    <3> QED BY <1>1, <1>13, <2>1, <3>1 DEF Commit, Files
  <2>3. setup' \in [Setups -> Records]
    BY <1>4, <1>13 DEF Commit, Places
  <2> QED BY <1>1, <1>13, <2>2, <2>3 DEF Commit, Types, Unborn
<1>14. ASSUME NEW p \in Setups, Fail(p) PROVE Types' /\ Unborn'
  BY <1>1, <1>3, <1>4, <1>14 DEF Fail, Released, Places
<1>15. ASSUME NEW p \in Setups, Crash(p) PROVE Types' /\ Unborn'
  <2>1. Fresh \in Nat /\ 0 \in 0..MaxFiles
    BY <1>1 DEF Fresh
  <2>2. setup' \in [Setups -> Records]
    BY <1>1, <1>2, <1>15, <2>1, Moves DEF Crash, Places
  <2> QED BY <1>1, <1>3, <1>15, <2>2 DEF Crash, Released
<1>16. ASSUME NEW f \in Files, WriteRow(f) PROVE Types' /\ Unborn'
  <2>1. f <= used
    BY <1>1, <1>16 DEF WriteRow, Unborn, Blank, Files
  <2>2. files' \in [Files -> Contents] /\ \A g \in Files : g > used => files'[g] = files[g]
    <3>1. [files[f] EXCEPT !.rows = @ + 1] \in Contents
      BY <1>1 DEF Contents
    <3> QED BY <1>1, <1>16, <2>1, <3>1 DEF WriteRow, Files
  <2> QED BY <1>1, <1>16, <2>2 DEF WriteRow, Types, Unborn
<1>17. ASSUME NEW b \in backups, Restore(b) PROVE Types' /\ Unborn'
  <2>1. b.content \in Contents /\ used + 1 \in 0..MaxFiles
    BY <1>1, <1>17 DEF Restore
  <2>2. files' \in [Files -> Contents] /\ \A g \in Files : g > used + 1 => files'[g] = files[g]
    BY <1>1, <1>17, <2>1 DEF Restore, Files
  <2> QED BY <1>1, <1>17, <2>1, <2>2 DEF Restore, Types, Unborn, Files
<1>18. ASSUME Remove PROVE Types' /\ Unborn'
  BY <1>1, <1>18 DEF Remove, Types, Unborn
<1> QED
  BY <1>5, <1>6, <1>7, <1>8, <1>9, <1>10, <1>11, <1>12, <1>13, <1>14, <1>15, <1>16, <1>17, <1>18 DEF Next

-----------------------------------------------------------------------------
(* The setup that moves.                                                    *)
LEMMA MoverIsSound ==
  ASSUME IInv, Next, Types', NEW p \in Setups,
         \/ Begin(p) \/ Inspect(p) \/ Serialize(p) \/ WriteBackup(p) \/ CloseInspection(p) \/ Reserve(p)
         \/ Open(p) \/ Recheck(p) \/ BeginImmediate(p) \/ Migrate(p) \/ Commit(p) \/ Report(p)
         \/ Fail(p) \/ Crash(p)
  PROVE  Sound(p)'
<1>1. /\ setup \in [Setups -> Records] /\ Types /\ Sound(p)
      /\ used \in Nat /\ used' \in Nat /\ used <= used' /\ backups \subseteq backups'
      /\ \A f \in Files : f <= used => Before(files[f], files'[f])
      /\ Files = 1..MaxFiles /\ MaxFiles \in Nat
  BY FilesGrow, SetupAssumption DEF IInv, Types, Growth, Files
<1>2. /\ File(p) \in 0..MaxFiles /\ setup[p].pc \in Places
      /\ setup[p].plan \in Nat /\ setup[p].seen \in Contents /\ setup[p].saved \in Contents
      /\ File(p) \in Files => Content(p) \in Contents
      /\ Target[p] \in Nat \ {0} /\ p # NoSetup
  BY <1>1, Known
<1>3. \A f \in Files : files[f] \in Contents /\ files'[f] \in Contents
  BY <1>1 DEF Types
<1>4. ASSUME NEW a \in Places, Go(p, a)
      PROVE  setup'[p] = [pc |-> a, file |-> File(p), plan |-> setup[p].plan,
                          seen |-> setup[p].seen, saved |-> setup[p].saved]
  BY <1>1, <1>2, <1>4, Moves DEF Go
<1>5. CASE Begin(p)
  <2>1. setup'[p] = [pc |-> IF path = 0 THEN "reserve" ELSE "inspect", file |-> path, plan |-> Fresh,
                     seen |-> Blank, saved |-> Blank]
    BY <1>1, <1>5 DEF Begin, Becomes
  <2>2. path \in 0..used /\ used' = used /\ path \in 0..MaxFiles
    BY <1>1, <1>5 DEF Begin, disk, Types
  <2> QED BY <1>1, <2>1, <2>2 DEF Sound, Placed, Planned, Behind, Backed, Locked, Migrated, Absent, File
<1>6. CASE Inspect(p)
  <2>1. PICK a \in {"serialize", "ready"} :
          /\ setup'[p] = [pc |-> a, file |-> File(p), plan |-> Content(p).version + 1, seen |-> Content(p), saved |-> Blank]
          /\ a = "serialize" => Content(p).version < Target[p]
          /\ a = "ready" => Content(p).version >= Target[p]
    BY <1>1, <1>2, <1>6 DEF Inspect, Becomes, At, Sound, Placed, Contents
  <2>2. File(p) \in Files /\ File(p) <= used /\ UNCHANGED <<used, files, backups>>
    BY <1>1, <1>6 DEF Inspect, disk, Sound, Placed, At
  <2>3. File(p)' = File(p) /\ Content(p)' = Content(p) /\ Content(p) \in Contents
    BY <1>2, <2>1, <2>2 DEF File, Content
  <2>4. Placed(p)'
    BY <2>1, <2>2, <2>3 DEF Placed
  <2>5. Planned(p)'
    BY <1>2, <2>1, <2>3 DEF Planned, Absent, Migrates, Fresh, Contents
  <2>6. Behind(p)'
    BY <2>1, <2>3 DEF Behind, Before, Contents
  <2>7. Backed(p)'
    BY <1>2, <2>1, <2>3 DEF Backed, Migrates, Contents
  <2>8. Locked(p)' /\ Migrated(p)'
    BY <2>1 DEF Locked, Migrated
  <2> QED BY <2>4, <2>5, <2>6, <2>7, <2>8 DEF Sound
<1>7. CASE Serialize(p)
  <2>1. setup'[p] = [pc |-> "write", file |-> File(p), plan |-> setup[p].plan, seen |-> setup[p].seen, saved |-> Content(p)]
    BY <1>1, <1>7 DEF Serialize, Becomes
  <2>2. File(p) \in Files /\ File(p) <= used /\ UNCHANGED <<used, files, backups>> /\ Content(p).bytes
        /\ ~Absent(p) /\ Migrates(p) /\ setup[p].plan = setup[p].seen.version + 1 /\ Before(setup[p].seen, Content(p))
    BY <1>1, <1>7 DEF Serialize, disk, Sound, Placed, Planned, Behind, At
  <2>3. File(p)' = File(p) /\ Content(p)' = Content(p) /\ Content(p) \in Contents
    BY <1>2, <2>1, <2>2 DEF File, Content
  <2>4. Placed(p)'
    BY <2>1, <2>2, <2>3 DEF Placed
  <2>5. Planned(p)'
    BY <2>1, <2>2 DEF Planned, Absent, Migrates
  <2>6. Behind(p)'
    BY <2>1, <2>2, <2>3 DEF Behind, Before, Contents
  <2>7. Backed(p)' /\ Locked(p)' /\ Migrated(p)'
    BY <2>1 DEF Backed, Locked, Migrated
  <2> QED BY <2>4, <2>5, <2>6, <2>7 DEF Sound
<1>8. CASE WriteBackup(p)
  <2>1. setup'[p] = [pc |-> "ready", file |-> File(p), plan |-> setup[p].plan, seen |-> setup[p].seen, saved |-> setup[p].saved]
    BY <1>4, <1>8 DEF WriteBackup, Places
  <2>2. /\ File(p) \in Files /\ File(p) <= used /\ UNCHANGED <<used, files>>
        /\ ~Absent(p) /\ setup[p].plan = setup[p].seen.version + 1 /\ Before(setup[p].seen, Content(p))
        /\ setup[p].saved.bytes /\ Before(setup[p].seen, setup[p].saved) /\ Before(setup[p].saved, Content(p))
    BY <1>1, <1>8 DEF WriteBackup, Sound, Placed, Planned, Behind, At
  <2>3. File(p)' = File(p) /\ Content(p)' = Content(p) /\ Content(p) \in Contents
    BY <1>2, <2>1, <2>2 DEF File, Content
  <2>4. Placed(p)'
    BY <2>1, <2>2, <2>3 DEF Placed
  <2>5. Planned(p)'
    BY <2>1, <2>2 DEF Planned, Absent
  <2>6. Behind(p)'
    BY <1>2, <2>1, <2>2, <2>3 DEF Behind, Before, Contents
  <2>7. Backed(p)'
    <3> DEFINE b == [file |-> File(p), content |-> setup[p].saved]
    <3>1. b \in backups' /\ b.file = File(p)' /\ b.content = setup[p].saved
      BY <1>8, <2>3 DEF WriteBackup
    <3>2. setup[p].plan <= setup[p].saved.version + 1 /\ setup[p].saved.version <= Content(p)'.version
      BY <1>2, <2>2, <2>3 DEF Before, Contents
    <3>3. Before(setup'[p].seen, setup[p].saved) /\ Before(setup[p].saved, Content(p)')
      BY <2>1, <2>2, <2>3
    <3> HIDE DEF b
    <3> QED BY <2>1, <2>2, <3>1, <3>2, <3>3 DEF Backed
  <2>8. Locked(p)' /\ Migrated(p)'
    BY <2>1 DEF Locked, Migrated
  <2> QED BY <2>4, <2>5, <2>6, <2>7, <2>8 DEF Sound
<1>9. CASE CloseInspection(p)
  <2>1. setup'[p] = [pc |-> "open", file |-> File(p), plan |-> setup[p].plan, seen |-> setup[p].seen, saved |-> setup[p].saved]
    BY <1>4, <1>9 DEF CloseInspection, Places
  <2>2. /\ File(p) \in Files /\ File(p) <= used /\ UNCHANGED <<used, files, backups>>
        /\ ~Absent(p) /\ setup[p].plan <= Content(p).version + 1
        /\ setup[p].plan = setup[p].seen.version + 1 /\ Before(setup[p].seen, Content(p))
    BY <1>1, <1>9 DEF CloseInspection, disk, Sound, Placed, Planned, Behind, At
  <2>3. File(p)' = File(p) /\ Content(p)' = Content(p) /\ Content(p) \in Contents
    BY <1>2, <2>1, <2>2 DEF File, Content
  <2>4. Placed(p)' /\ Planned(p)' /\ Behind(p)' /\ Locked(p)' /\ Migrated(p)'
    BY <2>1, <2>2, <2>3 DEF Placed, Planned, Behind, Locked, Migrated
  <2>5. Backed(p)'
    <3>1. ASSUME Migrates(p)
          PROVE \E b \in backups : /\ b.file = File(p)
                   /\ setup[p].plan <= b.content.version + 1 /\ b.content.version <= Content(p).version
      <4>1. PICK b \in backups : /\ b.file = File(p)
                   /\ Before(setup[p].seen, b.content) /\ Before(b.content, Content(p))
        BY <1>1, <1>9, <3>1 DEF CloseInspection, Sound, Backed, At
      <4>2. b.content \in Contents
        BY <1>1 DEF Types
      <4> QED BY <1>2, <2>2, <2>3, <4>1, <4>2 DEF Before, Contents
    <3> QED BY <2>1, <2>2, <2>3, <3>1 DEF Backed, Migrates
  <2> QED BY <2>4, <2>5 DEF Sound
<1>10. CASE Reserve(p)
  <2>1. setup'[p] = [pc |-> "open", file |-> used + 1, plan |-> Fresh, seen |-> Blank, saved |-> Blank]
    BY <1>1, <1>10 DEF Reserve, Becomes
  <2>2. used' = used + 1 /\ used + 1 \in Files
    BY <1>1, <1>10 DEF Reserve
  <2>3. File(p)' = used + 1 /\ Content(p)' \in Contents
    BY <1>3, <2>1, <2>2 DEF File, Content
  <2> QED BY <1>1, <2>1, <2>2, <2>3
    DEF Sound, Placed, Planned, Behind, Backed, Locked, Migrated, Absent, Fresh, Contents
<1>11. CASE Open(p)
  <2>1. setup'[p] = [pc |-> "recheck", file |-> File(p), plan |-> setup[p].plan, seen |-> files'[File(p)], saved |-> setup[p].saved]
    BY <1>1, <1>11 DEF Open, Becomes
  <2>2. File(p) \in Files /\ File(p) <= used /\ UNCHANGED <<used, backups>> /\ setup[p].plan <= Content(p).version + 1
    BY <1>1, <1>11 DEF Open, Sound, Placed, Behind, At
  <2>3. File(p)' = File(p) /\ Content(p)'.version = Content(p).version
    BY <1>1, <1>11, <2>1, <2>2 DEF Open, File, Content, Types, Contents
  <2>4. Placed(p)' /\ Planned(p)' /\ Behind(p)' /\ Locked(p)' /\ Migrated(p)'
    BY <2>1, <2>2, <2>3 DEF Placed, Planned, Behind, Locked, Migrated
  <2>5. Backed(p)'
    BY <1>1, <1>11, <2>1, <2>2, <2>3 DEF Open, Sound, Backed, Absent, Migrates, At
  <2> QED BY <2>4, <2>5 DEF Sound
<1>12. CASE Recheck(p)
  <2>1. PICK a \in {"lock", "done"} :
          /\ setup'[p] = [pc |-> a, file |-> File(p), plan |-> setup[p].plan, seen |-> setup[p].seen, saved |-> setup[p].saved]
          /\ a = "lock" => Migrates(p)
          /\ a = "done" => ~Migrates(p)
    BY <1>2, <1>4, <1>12 DEF Recheck, Absent, Migrates, Fresh, Places
  <2>2. File(p) \in Files /\ File(p) <= used /\ UNCHANGED <<used, files, backups>> /\ setup[p].plan <= Content(p).version + 1
    BY <1>1, <1>12 DEF Recheck, disk, Sound, Placed, Behind, At
  <2>3. File(p)' = File(p) /\ Content(p)' = Content(p) /\ Content(p) \in Contents
    BY <1>2, <2>1, <2>2 DEF File, Content
  <2>4. Placed(p)' /\ Planned(p)' /\ Behind(p)' /\ Locked(p)'
    BY <2>1, <2>2, <2>3 DEF Placed, Planned, Behind, Locked, Migrates
  <2>5. Backed(p)'
    BY <1>1, <1>12, <2>1, <2>2, <2>3 DEF Recheck, Sound, Backed, Absent, Migrates, At
  <2>6. Migrated(p)'
    BY <1>2, <2>1, <2>2, <2>3 DEF Migrated, Migrates, Contents
  <2> QED BY <2>4, <2>5, <2>6 DEF Sound
<1>13. CASE BeginImmediate(p)
  <2>1. setup'[p] = [pc |-> "locked", file |-> File(p), plan |-> setup[p].plan, seen |-> setup[p].seen, saved |-> setup[p].saved]
    BY <1>4, <1>13 DEF BeginImmediate, Places
  <2>2. File(p) \in Files /\ File(p) <= used /\ UNCHANGED <<used, files, backups>> /\ Migrates(p)
    BY <1>1, <1>13 DEF BeginImmediate, disk, Sound, Placed, Planned, At
  <2>3. File(p)' = File(p) /\ Content(p)' = Content(p) /\ lock'[File(p)] = p
    BY <1>1, <1>13, <2>1, <2>2 DEF BeginImmediate, File, Content, Types
  <2>4. Placed(p)' /\ Planned(p)' /\ Behind(p)' /\ Locked(p)' /\ Migrated(p)'
    BY <2>1, <2>2, <2>3 DEF Placed, Planned, Behind, Locked, Migrated, Migrates
  <2>5. Backed(p)'
    BY <1>1, <1>13, <2>1, <2>2, <2>3 DEF BeginImmediate, Sound, Backed, Absent, Migrates, At
  <2> QED BY <2>4, <2>5 DEF Sound
<1>14. CASE Migrate(p)
  <2>1. setup'[p] = [pc |-> "commit", file |-> File(p), plan |-> setup[p].plan, seen |-> setup[p].seen, saved |-> setup[p].saved]
    BY <1>4, <1>14 DEF Migrate, Places
  <2>2. /\ File(p) \in Files /\ File(p) <= used /\ UNCHANGED <<used, files, backups, lock>> /\ Migrates(p)
        /\ lock[File(p)] = p /\ SamePlan(p)
    BY <1>1, <1>14 DEF Migrate, disk, Sound, Placed, Planned, Locked, At
  <2>3. File(p)' = File(p) /\ Content(p)' = Content(p)
    BY <2>1, <2>2 DEF File, Content
  <2>4. Placed(p)' /\ Planned(p)' /\ Behind(p)' /\ Migrated(p)'
    BY <2>1, <2>2, <2>3 DEF Placed, Planned, Behind, Migrated, Migrates
  <2>5. Backed(p)'
    BY <1>1, <1>14, <2>1, <2>2, <2>3 DEF Migrate, Sound, Backed, Absent, Migrates, At
  <2>6. Locked(p)'
    BY <2>1, <2>2, <2>3 DEF Locked, SamePlan, Absent
  <2> QED BY <2>4, <2>5, <2>6 DEF Sound
<1>15. CASE Commit(p)
  <2>1. setup'[p] = [pc |-> "report", file |-> File(p), plan |-> setup[p].plan, seen |-> setup[p].seen, saved |-> setup[p].saved]
    BY <1>4, <1>15 DEF Commit, Places
  <2>2. File(p) \in Files /\ File(p) <= used /\ used' = used
    BY <1>1, <1>15 DEF Commit, Sound, Placed, At
  <2>3. File(p)' = File(p) /\ Content(p)'.version = Target[p]
    BY <1>1, <1>15, <2>1, <2>2 DEF Commit, File, Content, Types, Contents
  <2> QED BY <1>2, <2>1, <2>2, <2>3 DEF Sound, Placed, Planned, Behind, Backed, Locked, Migrated
<1>16. CASE Report(p)
  <2>1. setup'[p] = [pc |-> "done", file |-> File(p), plan |-> setup[p].plan, seen |-> setup[p].seen, saved |-> setup[p].saved]
    BY <1>4, <1>16 DEF Report, Places
  <2>2. File(p) \in Files /\ File(p) <= used /\ UNCHANGED <<used, files>> /\ Content(p).version >= Target[p]
    BY <1>1, <1>16 DEF Report, disk, Sound, Placed, Migrated, At
  <2>3. File(p)' = File(p) /\ Content(p)' = Content(p)
    BY <2>1, <2>2 DEF File, Content
  <2> QED BY <2>1, <2>2, <2>3 DEF Sound, Placed, Planned, Behind, Backed, Locked, Migrated
<1>17. CASE Fail(p) \/ Crash(p)
  <2>1. /\ setup'[p].pc \in {"off", "failed"} /\ setup'[p].file \in {0, File(p)}
        /\ setup'[p].pc = "off" => setup'[p].plan = Fresh
        /\ used' = used
    <3>1. CASE Fail(p)
      BY <1>4, <3>1 DEF Fail, disk, Places
    <3>2. CASE Crash(p)
      BY <1>1, <3>2 DEF Crash, Becomes, disk
    <3> QED BY <1>17, <3>1, <3>2
  <2>2. File(p)' <= used'
    BY <1>1, <2>1 DEF File, Sound, Placed
  <2> QED BY <2>1, <2>2 DEF Sound, Placed, Planned, Behind, Backed, Locked, Migrated, Absent
<1> QED BY <1>5, <1>6, <1>7, <1>8, <1>9, <1>10, <1>11, <1>12, <1>13, <1>14, <1>15, <1>16, <1>17

-----------------------------------------------------------------------------
(* Every step, of a setup or of anybody else, keeps the invariant.          *)
LEMMA StepInv == ASSUME IInv, [Next]_vars PROVE IInv'
<1>1. ASSUME Next PROVE IInv'
  <2>1. Types' /\ Unborn'
    BY <1>1, TypesKept
  <2>2. files' \in [Files -> Contents] /\ used \in Nat /\ used' \in Nat
    BY <2>1, SetupAssumption DEF IInv, Types
  <2>3. ASSUME NEW p \in Setups PROVE Sound(p)'
    <3>1. CASE setup'[p] = setup[p]
      BY <1>1, <2>2, <3>1, OthersKeep
    <3>2. CASE setup'[p] # setup[p]
      <4>1. setup \in [Setups -> Records]
        BY DEF IInv, Types
      <4>2. \A q \in Setups :
              \/ Begin(q) \/ Inspect(q) \/ Serialize(q) \/ WriteBackup(q) \/ CloseInspection(q) \/ Reserve(q)
              \/ Open(q) \/ Recheck(q) \/ BeginImmediate(q) \/ Migrate(q) \/ Commit(q) \/ Report(q)
              \/ Fail(q) \/ Crash(q)
              => q = p
        BY <3>2, <4>1 DEF Begin, Inspect, Serialize, WriteBackup, CloseInspection, Reserve, Open, Recheck,
                          BeginImmediate, Migrate, Commit, Report, Fail, Crash, Go, Becomes
      <4>4. ~Remove
        BY <3>2 DEF Remove
      <4>5. ~(\E f \in Files : WriteRow(f)) /\ ~(\E b \in backups : Restore(b))
        BY <3>2 DEF WriteRow, Restore
      <4>6. \/ Begin(p) \/ Inspect(p) \/ Serialize(p) \/ WriteBackup(p) \/ CloseInspection(p) \/ Reserve(p)
            \/ Open(p) \/ Recheck(p) \/ BeginImmediate(p) \/ Migrate(p) \/ Commit(p) \/ Report(p)
            \/ Fail(p) \/ Crash(p)
        BY <1>1, <4>2, <4>4, <4>5 DEF Next
      <4> QED BY <1>1, <2>1, <4>6, MoverIsSound
    <3> QED BY <3>1, <3>2
  <2> QED BY <2>1, <2>3 DEF IInv
<1>2. ASSUME UNCHANGED vars PROVE IInv'
  BY <1>2 DEF vars, IInv, Types, Unborn, Sound, Placed, Planned, Behind, Backed, Locked, Migrated,
              Absent, Migrates, File, Content
<1> QED BY <1>1, <1>2

THEOREM Invariance == Spec => []IInv
<1>1. Init => IInv
  BY InitInv
<1>2. IInv /\ [Next]_vars => IInv'
  BY StepInv
<1> QED BY <1>1, <1>2, PTL DEF Spec

-----------------------------------------------------------------------------
(* A file in which anything was committed is migrated only when a backup of *)
(* it at that version is on disk, for any number of setups of any versions. *)
THEOREM MigrationIsBackedUp == Spec => NothingMigratedWithoutBackup
<1> DEFINE Safe ==
  \A f \in Files : files'[f].version > files[f].version =>
       \/ files[f].version = 0 /\ files[f].rows = 0
       \/ \E b \in backups : b.file = f /\ b.content.version = files[f].version
<1>1. ASSUME IInv, [Next]_vars PROVE Safe
  <2>1. /\ files \in [Files -> Contents] /\ setup \in [Setups -> Records] /\ Files = 1..MaxFiles
        /\ Target \in [Setups -> Nat \ {0}] /\ used \in Nat
        /\ backups \subseteq [file : Files, content : Contents]
    BY <1>1, SetupAssumption DEF IInv, Types, Files
  <2>2. \A f \in Files : ~(files[f].version > files[f].version)
    BY <2>1 DEF Contents
  <2>3. ASSUME NEW p \in Setups, Commit(p) PROVE Safe
    <3>1. /\ File(p) \in Files /\ Migrates(p) /\ Locked(p) /\ Backed(p)
      BY <1>1, <2>3 DEF IInv, Sound, Placed, Planned, Commit, At
    <3>2. \A f \in Files : f # File(p) => files'[f] = files[f]
      BY <2>1, <2>3 DEF Commit
    <3>3. CASE Absent(p)
      BY <2>3, <3>1, <3>2, <3>3, <2>1 DEF Locked, Commit, At, Content, Contents
    <3>4. CASE ~Absent(p)
      <4>1. PICK b \in backups : /\ b.file = File(p)
               /\ setup[p].plan <= b.content.version + 1 /\ b.content.version <= Content(p).version
        BY <2>3, <3>1, <3>4 DEF Backed, Commit, At
      <4>2. Content(p).version + 1 = setup[p].plan
        BY <2>3, <3>1, <3>4 DEF Locked, Commit, At
      <4>3. b.content.version \in Nat /\ Content(p).version \in Nat
        BY <2>1, <3>1 DEF Contents, Content
      <4>4. b.content.version = files[File(p)].version
        BY <4>1, <4>2, <4>3 DEF Content
      <4>5. \A f \in Files : files'[f].version > files[f].version => f = File(p)
        BY <2>2, <3>2
      <4> QED BY <4>1, <4>4, <4>5
    <3> QED BY <3>3, <3>4
  <2>4. ASSUME NEW p \in Setups, Open(p) PROVE Safe
    BY <2>1, <2>4 DEF Open, Contents
  <2>5. ASSUME NEW f \in Files, WriteRow(f) PROVE Safe
    BY <2>1, <2>5 DEF WriteRow, Contents
  <2>6. ASSUME NEW b \in backups, Restore(b) PROVE Safe
    <3>1. \A f \in Files : f # used + 1 => files'[f] = files[f]
      BY <2>1, <2>6 DEF Restore
    <3>2. used + 1 \in Files => files[used + 1].version = 0 /\ files[used + 1].rows = 0
      BY <1>1, <2>1 DEF IInv, Unborn, Blank
    <3> QED BY <2>2, <3>1, <3>2
  <2>7. ASSUME UNCHANGED files PROVE Safe
    BY <2>1, <2>7 DEF Contents
  <2> HIDE DEF Safe
  <2> QED
    BY <1>1, <2>3, <2>4, <2>5, <2>6, <2>7
    DEF Next, vars, Begin, Inspect, Serialize, WriteBackup, CloseInspection, Reserve, Recheck,
        BeginImmediate, Migrate, Report, Fail, Crash, Remove, disk
<1>2. IInv /\ [Next]_vars => [Safe]_vars
  BY <1>1
<1>3. NothingMigratedWithoutBackup <=> [][Safe]_vars
  BY DEF NothingMigratedWithoutBackup
<1> HIDE DEF Safe
<1> QED BY <1>2, <1>3, Invariance, PTL DEF Spec

(* The backup a setup goes on with holds exactly what the file holds when   *)
(* its inspection is closed.                                                *)
THEOREM BackupIsComplete == Spec => BackupMissesNothing
<1> DEFINE Whole ==
  \A p \in Setups : At(p, "ready") /\ setup'[p].pc = "open" /\ Migrates(p) =>
       [file |-> File(p), content |-> Content(p)] \in backups
<1>1. ASSUME IInv, [Next]_vars, NEW p \in Setups, At(p, "ready"), setup'[p].pc = "open", Migrates(p)
      PROVE [file |-> File(p), content |-> Content(p)] \in backups
  <2>1. setup \in [Setups -> Records] /\ Sound(p) /\ backups \subseteq [file : Files, content : Contents]
        /\ files \in [Files -> Contents]
    BY <1>1 DEF IInv, Types
  <2>2. CloseInspection(p)
    <3>1. setup'[p] # setup[p]
      BY <1>1 DEF At
    <3>2. \A q \in Setups :
            \/ Begin(q) \/ Inspect(q) \/ Serialize(q) \/ WriteBackup(q) \/ CloseInspection(q) \/ Reserve(q)
            \/ Open(q) \/ Recheck(q) \/ BeginImmediate(q) \/ Migrate(q) \/ Commit(q) \/ Report(q)
            \/ Fail(q) \/ Crash(q)
            => q = p
      BY <2>1, <3>1 DEF Begin, Inspect, Serialize, WriteBackup, CloseInspection, Reserve, Open, Recheck,
                        BeginImmediate, Migrate, Commit, Report, Fail, Crash, Go, Becomes
    <3>3. ~(\E f \in Files : WriteRow(f)) /\ ~(\E b \in backups : Restore(b)) /\ ~Remove /\ ~UNCHANGED vars
      BY <3>1 DEF WriteRow, Restore, Remove, vars
    <3>4. \/ CloseInspection(p) \/ Fail(p) \/ Crash(p)
      BY <1>1, <3>2, <3>3 DEF Next, Begin, Inspect, Serialize, WriteBackup, Reserve, Open, Recheck,
                              BeginImmediate, Migrate, Commit, Report, At
    <3>5. ~Fail(p) /\ ~Crash(p)
      BY <1>1, <2>1 DEF Fail, Crash, Go, Becomes
    <3> QED BY <3>4, <3>5
  <2>3. PICK b \in backups : /\ b.file = File(p) /\ b.content.bytes
                             /\ Before(setup[p].seen, b.content) /\ Before(b.content, Content(p))
    BY <1>1, <2>1 DEF Sound, Backed, At
  <2>4. Unchanged(p)
    BY <1>1, <2>2 DEF CloseInspection, StillInspected
  <2>5. b.content \in Contents /\ Content(p) \in Contents /\ setup[p].seen \in Contents
    BY <1>1, <2>1 DEF Sound, Placed, At, Content, Records
  <2>6. b.content = Content(p)
    BY <2>3, <2>4, <2>5 DEF Unchanged, Before, Contents
  <2>7. b = [file |-> b.file, content |-> b.content]
    BY <2>1
  <2> QED BY <2>3, <2>6, <2>7
<1>2. IInv /\ [Next]_vars => [Whole]_vars
  BY <1>1
<1>3. BackupMissesNothing <=> [][Whole]_vars
  BY DEF BackupMissesNothing
<1> HIDE DEF Whole
<1> QED BY <1>2, <1>3, Invariance, PTL DEF Spec

(* A setup that reported success has all of its migrations in its file.     *)
THEOREM SuccessMeansMigrated == Spec => []DoneMeansMigrated
<1>1. IInv => DoneMeansMigrated
  BY DEF IInv, Sound, Migrated, DoneMeansMigrated, At
<1> QED BY <1>1, Invariance, PTL
=============================================================================
