---------------------------- MODULE DatabaseSetup -----------------------------
(* initializeDatabase() (src/dsh/database.ts): processes of different        *)
(* versions set up one database at a time when others write to it, replace  *)
(* its file or remove it.  A file is its inode with what is committed in it; *)
(* a backup (src/db/upgrade-backup.ts) is written whole or not at all.       *)
EXTENDS Naturals, FiniteSets

CONSTANTS
  Setups, NoSetup,  \* processes that run initializeDatabase()
  Target,           \* setup -> its newest migration
  MaxFiles,         \* bound: inodes that ever stand at the path
  MaxRows,          \* bound: commits of other processes in one file
  Crashes           \* bound: setups that end without a trace and run again

ASSUME SetupAssumption ==
  /\ NoSetup \notin Setups /\ Target \in [Setups -> Nat \ {0}]
  /\ MaxFiles \in Nat \ {0} /\ MaxRows \in Nat /\ Crashes \in Nat

Files == 1..MaxFiles
Blank == [bytes |-> FALSE, version |-> 0, rows |-> 0]
Fresh == 0     \* the plan of a setup that found no file
Beginning == [pc |-> "off", file |-> 0, plan |-> Fresh, seen |-> Blank, saved |-> Blank]

VARIABLES
  path,     \* the file at the path, 0 when there is none
  used,     \* inodes used so far
  files,    \* file -> content: header written, newest migration, rows of others
  lock,     \* file -> setup that holds its write lock
  backups,  \* backups on disk: what file, and its content
  setup,    \* setup -> where it is and what it knows
  crashes
vars == <<path, used, files, lock, backups, setup, crashes>>
disk == <<path, used, files, backups>>

(* An existing database of any version, an empty file, or nothing.          *)
Init ==
  /\ path \in {0, 1} /\ used = path
  /\ \E v \in {0} \cup {Target[p] : p \in Setups} :
       /\ path = 0 => v = 0
       /\ files = [f \in Files |-> IF f = path THEN [bytes |-> v > 0, version |-> v, rows |-> 0] ELSE Blank]
  /\ lock = [f \in Files |-> NoSetup] /\ backups = {}
  /\ setup = [p \in Setups |-> Beginning] /\ crashes = 0

-----------------------------------------------------------------------------
At(p, a) == setup[p].pc = a
File(p) == setup[p].file
Content(p) == files[File(p)]
Absent(p) == setup[p].plan = Fresh
Held(p) == {f \in Files : lock[f] = p}
Becomes(p, a, f, plan, seen, saved) ==
  setup' = [setup EXCEPT ![p] = [pc |-> a, file |-> f, plan |-> plan, seen |-> seen, saved |-> saved]]
Go(p, a) == Becomes(p, a, File(p), setup[p].plan, setup[p].seen, setup[p].saved)

(* Every open and every check of the path compares the inode.               *)
OnPath(p) == path = File(p)
Running(p) == setup[p].pc \notin {"off", "done", "failed"}

(* PRAGMA data_version: has another connection committed since?             *)
Unchanged(p) == Content(p).version = setup[p].seen.version /\ Content(p).rows = setup[p].seen.rows

-----------------------------------------------------------------------------
(* The path is looked at once.                                              *)
Begin(p) ==
  /\ At(p, "off")
  /\ Becomes(p, IF path = 0 THEN "reserve" ELSE "inspect", path, Fresh, Blank, Blank)
  /\ UNCHANGED <<disk, lock, crashes>>

(* A read-only preflight; plans count from 1, so that Fresh is none.        *)
Inspect(p) ==
  /\ At(p, "inspect") /\ OnPath(p) /\ Content(p).version <= Target[p]
  /\ Becomes(p, IF Content(p).version < Target[p] THEN "serialize" ELSE "ready",
             File(p), Content(p).version + 1, Content(p), Blank)
  /\ UNCHANGED <<disk, lock, crashes>>

Migrates(p) == setup[p].plan <= Target[p]

(* The open inspection is serialized; an empty file cannot be.              *)
Serialize(p) ==
  /\ At(p, "serialize") /\ Content(p).bytes
  /\ Becomes(p, "write", File(p), setup[p].plan, setup[p].seen, Content(p))
  /\ UNCHANGED <<disk, lock, crashes>>

(* The worker writes and attests the artifact, which is then bound.         *)
WriteBackup(p) ==
  /\ At(p, "write") /\ OnPath(p) /\ Go(p, "ready")
  /\ backups' = backups \cup {[file |-> File(p), content |-> setup[p].saved]}
  /\ UNCHANGED <<path, used, files, lock, crashes>>

BugStillInspected(p) == TRUE

(* The inspection is closed only if nothing was committed since it began.   *)
StillInspected(p) == Migrates(p) => Unchanged(p)
CloseInspection(p) ==
  /\ At(p, "ready") /\ OnPath(p) /\ StillInspected(p) /\ Go(p, "open")
  /\ UNCHANGED <<disk, lock, crashes>>

(* An absent path is reserved with an exclusive create.                     *)
Reserve(p) ==
  /\ At(p, "reserve") /\ path = 0 /\ used < MaxFiles
  /\ used' = used + 1 /\ path' = used + 1
  /\ Becomes(p, "open", used + 1, Fresh, Blank, Blank)
  /\ UNCHANGED <<files, lock, backups, crashes>>

(* The writable connection writes the header of an empty file.              *)
Open(p) ==
  /\ At(p, "open") /\ OnPath(p)
  /\ Absent(p) => ~Content(p).bytes
  /\ files' = [files EXCEPT ![File(p)].bytes = TRUE]
  /\ Becomes(p, "recheck", File(p), setup[p].plan, files'[File(p)], setup[p].saved)
  /\ UNCHANGED <<path, used, lock, backups, crashes>>

(* Nothing to migrate ends here; the rest waits for the write lock.         *)
Recheck(p) ==
  /\ At(p, "recheck") /\ Content(p).version <= Target[p]
  /\ \/ Absent(p) /\ Go(p, "lock")
     \/ ~Absent(p) /\ Unchanged(p) /\ Migrates(p) /\ Go(p, "lock")
     \/ ~Absent(p) /\ Unchanged(p) /\ ~Migrates(p) /\ OnPath(p) /\ Go(p, "done")
  /\ UNCHANGED <<disk, lock, crashes>>

BeginImmediate(p) ==
  /\ At(p, "lock") /\ lock[File(p)] = NoSetup
  /\ lock' = [lock EXCEPT ![File(p)] = p] /\ Go(p, "locked")
  /\ UNCHANGED <<disk, crashes>>

BugSamePlan(p) == Content(p).version <= Target[p]

(* Under the lock the plan is the one the backup was made for, and a fresh  *)
(* database is still as it was opened.                                      *)
SamePlan(p) ==
  IF Absent(p) THEN Unchanged(p) /\ Content(p).version = 0 /\ Content(p).rows = 0
               ELSE Content(p).version + 1 = setup[p].plan
Migrate(p) ==
  /\ At(p, "locked") /\ OnPath(p) /\ SamePlan(p) /\ Go(p, "commit")
  /\ UNCHANGED <<disk, lock, crashes>>

(* Every pending migration is applied, in order.                            *)
Commit(p) ==
  /\ At(p, "commit") /\ OnPath(p) /\ Go(p, "report")
  /\ files' = [files EXCEPT ![File(p)].version = Target[p]]
  /\ lock' = [lock EXCEPT ![File(p)] = NoSetup]
  /\ UNCHANGED <<path, used, backups, crashes>>

Report(p) ==
  /\ At(p, "report") /\ OnPath(p) /\ Go(p, "done")
  /\ UNCHANGED <<disk, lock, crashes>>

(* Any check that does not hold, and any error, ends the setup; what it had *)
(* not committed is rolled back.                                            *)
Released(p) == lock' = [f \in Files |-> IF lock[f] = p THEN NoSetup ELSE lock[f]]
Fail(p) == Running(p) /\ Go(p, "failed") /\ Released(p) /\ UNCHANGED <<disk, crashes>>

Crash(p) ==
  /\ Running(p) /\ crashes < Crashes /\ crashes' = crashes + 1
  /\ Released(p) /\ Becomes(p, "off", 0, Fresh, Blank, Blank) /\ UNCHANGED disk

-----------------------------------------------------------------------------
(* Hosts that have a file open commit to it, wherever it is now.            *)
WriteRow(f) ==
  /\ files[f].version > 0 /\ lock[f] = NoSetup /\ files[f].rows < MaxRows
  /\ files' = [files EXCEPT ![f].rows = @ + 1]
  /\ UNCHANGED <<path, used, lock, backups, setup, crashes>>

(* The user puts a backup in the place of the database, or takes it away.   *)
Restore(b) ==
  /\ used < MaxFiles /\ used' = used + 1 /\ path' = used + 1
  /\ files' = [files EXCEPT ![used + 1] = b.content]
  /\ UNCHANGED <<lock, backups, setup, crashes>>
Remove == path # 0 /\ path' = 0 /\ UNCHANGED <<used, files, lock, backups, setup, crashes>>

Next ==
  \/ \E p \in Setups :
       \/ Begin(p) \/ Inspect(p) \/ Serialize(p) \/ WriteBackup(p) \/ CloseInspection(p) \/ Reserve(p)
       \/ Open(p) \/ Recheck(p) \/ BeginImmediate(p) \/ Migrate(p) \/ Commit(p) \/ Report(p)
       \/ Fail(p) \/ Crash(p)
  \/ \E f \in Files : WriteRow(f)
  \/ \E b \in backups : Restore(b)
  \/ Remove

Spec == Init /\ [][Next]_vars

-----------------------------------------------------------------------------
(* Properties.                                                              *)

(* A file in which anything was committed is migrated only when a backup of *)
(* that file at that version is on disk, whoever migrated it meanwhile and  *)
(* whatever stood at the path.                                              *)
NothingMigratedWithoutBackup ==
  [][\A f \in Files : files'[f].version > files[f].version =>
       \/ files[f].version = 0 /\ files[f].rows = 0
       \/ \E b \in backups : b.file = f /\ b.content.version = files[f].version]_vars

(* The backup a setup goes on with holds every row that was committed while *)
(* it was being written.                                                    *)
BackupMissesNothing ==
  [][\A p \in Setups : At(p, "ready") /\ setup'[p].pc = "open" /\ Migrates(p) =>
       [file |-> File(p), content |-> Content(p)] \in backups]_vars

(* A setup that succeeded leaves its process a database with all of its     *)
(* migrations, also when an older or a newer version was set up beside it.  *)
DoneMeansMigrated == \A p \in Setups : At(p, "done") => Content(p).version >= Target[p]
=============================================================================
