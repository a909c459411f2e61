----------------------------- MODULE StateLayout ------------------------------
(***************************************************************************)
(* The files of an installation: processes that open the session store,    *)
(* `init` and `init --force` that make and replace the layout, at any time *)
(* and with faults and crashes between any two steps.  POSIX.              *)
(*                                                                         *)
(* Three targets lie in the root: config, dict and the state directory     *)
(* with the key, the database and the database's lock file.  What one      *)
(* `init` makes is a generation.  A lock is on an open file, wherever its  *)
(* path leads by then.                                                     *)
(***************************************************************************)
EXTENDS Integers, Sequences, FiniteSets

CONSTANTS
    Gateways,       \* processes that open the store
    MaxGenerations, \* bound: state directories ever made
    None

Generations == 1..MaxGenerations
Inodes == 1..(MaxGenerations + Cardinality(Gateways))     \* of lock files
Reset == "init"     \* the one process that makes layouts

ASSUME LayoutAssumption ==
    /\ MaxGenerations \in Nat \ {0}
    /\ None \notin Nat \cup Gateways \cup {Reset}
    /\ Reset \notin Gateways

Targets == <<"config", "dict", "state">>    \* in the order they are moved
TargetNames == {"config", "dict", "state"}

VARIABLES
    \* the disk
    at,             \* which generation lies at the path of each target
    keys,           \* state directories that have a key
    database,       \* the key each database was made with
    lock_file,      \* the inode at the path of each database's lock file
    made,           \* generations made so far
    kept,           \* generations left behind in the backup of a reset that crashed
    \* locks
    key_lock, lease_lock,
    \* gateways
    pc, key, key_file, lease,
    crossed,        \* history: the state directory was replaced while this one started
    \* the reset
    phase, before, fresh, staged, backup, moved, moved_old, installed, failing, rollback_failed,
    report

disk == <<at, keys, database, lock_file, made, kept>>
locks == <<key_lock, lease_lock>>
gateway == <<pc, key, key_file, lease, crossed>>
reset == <<phase, before, fresh, staged, backup, moved, moved_old, installed, failing,
           rollback_failed, report>>
vars == <<disk, locks, gateway, reset>>

Nothing == [t \in TargetNames |-> None]
All(g) == [t \in TargetNames |-> g]

Init ==
    /\ \/ at = Nothing /\ keys = {} /\ made = 0
       \/ at = All(1) /\ keys = {1} /\ made = 1
    /\ database = [g \in Generations |-> None]
    /\ lock_file = [g \in Generations |-> None]
    /\ kept = {}
    /\ key_lock = [g \in Generations |-> None]
    /\ lease_lock = [i \in Inodes |-> None]
    /\ pc = [p \in Gateways |-> "idle"]
    /\ key = [p \in Gateways |-> None]
    /\ key_file = [p \in Gateways |-> None]
    /\ lease = [p \in Gateways |-> None]
    /\ crossed = [p \in Gateways |-> FALSE]
    /\ phase = "idle"
    /\ before = at
    /\ fresh = FALSE
    /\ staged = None
    /\ backup = Nothing
    /\ moved = 0
    /\ moved_old = {}
    /\ installed = 0
    /\ failing = FALSE
    /\ rollback_failed = FALSE
    /\ report = "none"

HasKey == at["state"] \in keys

\* Who is opening the store while the state directory changes
Starting == {"read", "opened", "keyed", "linked", "leased"}
Cross == crossed' = [p \in Gateways |-> crossed[p] \/ pc[p] \in Starting]

-----------------------------------------------------------------------------
(* A gateway opens the store, uses it and closes it.                       *)

Goes(p, from, to) == pc[p] = from /\ pc' = [pc EXCEPT ![p] = to]

\* The master key is read.
ReadKey(p) ==
    /\ HasKey
    /\ Goes(p, "idle", "read")
    /\ key' = [key EXCEPT ![p] = at["state"]]
    /\ crossed' = [crossed EXCEPT ![p] = FALSE]
    /\ UNCHANGED <<disk, locks, key_file, lease, reset>>

\* _acquire_writer_lease opens the path of the key again ...
OpenKey(p) ==
    /\ HasKey
    /\ Goes(p, "read", "opened")
    /\ key_file' = [key_file EXCEPT ![p] = at["state"]]
    /\ UNCHANGED <<disk, locks, key, lease, crossed, reset>>

\* ... and locks what it opened.
LockKey(p) ==
    /\ Goes(p, "opened", "keyed")
    /\ key_lock[key_file[p]] = None
    /\ key_lock' = [key_lock EXCEPT ![key_file[p]] = p]
    /\ UNCHANGED <<disk, lease_lock, key, key_file, lease, crossed, reset>>

\* mkdir(parents=True, exist_ok=True): a state directory without a key
MakeDirectory ==
    IF at["state"] = None
    THEN /\ made < MaxGenerations
         /\ made' = made + 1
         /\ at' = [at EXCEPT !["state"] = made']
         /\ Cross
    ELSE UNCHANGED <<made, at, crossed>>

\* A file that is at no path and that nobody has open
NewInode ==
    CHOOSE i \in Inodes : /\ \A g \in Generations : lock_file[g] # i
                          /\ \A p \in Gateways : lease[p] # i

\* _acquire_database_lease opens the lock file, and makes it if there is none.
OpenLease(p) ==
    /\ Goes(p, "keyed", "linked")
    /\ MakeDirectory
    /\ IF lock_file[at'["state"]] = None
       THEN lock_file' = [lock_file EXCEPT ![at'["state"]] = NewInode]
       ELSE UNCHANGED lock_file
    /\ lease' = [lease EXCEPT ![p] = lock_file'[at'["state"]]]
    /\ UNCHANGED <<keys, database, kept, locks, key, key_file, reset>>

LockLease(p) ==
    /\ Goes(p, "linked", "leased")
    /\ lease_lock[lease[p]] = None
    /\ lease_lock' = [lease_lock EXCEPT ![lease[p]] = p]
    /\ UNCHANGED <<disk, key_lock, key, key_file, lease, crossed, reset>>

\* _initialize: a new database takes the key that was read, an old one must have it.
Initialize(p) ==
    /\ Goes(p, "leased", "running")
    /\ MakeDirectory
    /\ database[at'["state"]] \in {None, key[p]}
    /\ database' = [database EXCEPT ![at'["state"]] = key[p]]
    /\ UNCHANGED <<keys, lock_file, kept, locks, key, key_file, lease, reset>>

Unlock(lock, p) == [i \in DOMAIN lock |-> IF lock[i] = p THEN None ELSE lock[i]]

\* Nothing is left of what a process knew.
Forget(p) ==
    /\ key' = [key EXCEPT ![p] = None]
    /\ key_file' = [key_file EXCEPT ![p] = None]
    /\ lease' = [lease EXCEPT ![p] = None]
    /\ crossed' = [crossed EXCEPT ![p] = FALSE]

\* A start that cannot go on closes what it has; with the second lease, in steps.
Abort(p) ==
    /\ \/ pc[p] = "read" /\ ~ HasKey
       \/ pc[p] = "opened" /\ key_lock[key_file[p]] # None
       \/ pc[p] = "linked" /\ lease_lock[lease[p]] # None
       \/ pc[p] = "leased" /\ at["state"] # None /\ database[at["state"]] \notin {None, key[p]}
    /\ key_lock' = Unlock(key_lock, p)
    /\ IF pc[p] = "leased"
       THEN pc' = [pc EXCEPT ![p] = "unkeyed"] /\ UNCHANGED <<key, key_file, lease, crossed>>
       ELSE pc' = [pc EXCEPT ![p] = "idle"] /\ Forget(p)
    /\ UNCHANGED <<disk, lease_lock, reset>>

\* close()
Close(p) ==
    /\ Goes(p, "running", "unkeyed")
    /\ key_lock' = Unlock(key_lock, p)
    /\ UNCHANGED <<disk, lease_lock, key, key_file, lease, crossed, reset>>

CloseLease(p) ==
    /\ Goes(p, "unkeyed", "unleased")
    /\ lease_lock' = Unlock(lease_lock, p)
    /\ UNCHANGED <<disk, key_lock, key, key_file, lease, crossed, reset>>

\* The path is removed, whatever file it leads to.
Unlink(p) ==
    /\ Goes(p, "unleased", "idle")
    /\ lock_file' = IF at["state"] = None THEN lock_file
                    ELSE [lock_file EXCEPT ![at["state"]] = None]
    /\ Forget(p)
    /\ UNCHANGED <<at, keys, database, made, kept, locks, reset>>

\* The system takes the locks of a process that is gone.
Crash(p) ==
    /\ pc[p] # "idle"
    /\ pc' = [pc EXCEPT ![p] = "idle"]
    /\ key_lock' = Unlock(key_lock, p)
    /\ lease_lock' = Unlock(lease_lock, p)
    /\ Forget(p)
    /\ UNCHANGED <<disk, reset>>

-----------------------------------------------------------------------------
(* initialize_layout.                                                      *)

Begin ==
    /\ phase = "idle"
    /\ made < MaxGenerations
    /\ made' = made + 1
    /\ staged' = made'
    /\ before' = at
    /\ report' = "none"
    /\ UNCHANGED <<backup, moved, moved_old, installed, failing, rollback_failed>>

Ended ==
    /\ phase' = "idle"
    /\ staged' = None
    /\ backup' = Nothing
    /\ moved' = 0
    /\ moved_old' = {}
    /\ installed' = 0
    /\ failing' = FALSE
    /\ rollback_failed' = FALSE

\* Without --force, where nothing is there: files are made in place.
BeginFresh ==
    /\ at = Nothing
    /\ Begin
    /\ fresh' = TRUE
    /\ phase' = "make"
    /\ UNCHANGED <<at, keys, database, lock_file, kept, locks, gateway>>

\* mkdir of the state directory, then config, dictionary and key
MakeFile ==
    /\ phase = "make" /\ installed < 4
    /\ installed' = installed + 1
    /\ \/ /\ installed = 0 /\ at["state"] = None
          /\ at' = [at EXCEPT !["state"] = staged] /\ keys' = keys
       \/ installed = 1 /\ at' = [at EXCEPT !["config"] = staged] /\ keys' = keys
       \/ installed = 2 /\ at' = [at EXCEPT !["dict"] = staged] /\ keys' = keys
       \/ installed = 3 /\ at' = at /\ keys' = keys \cup {staged}
    /\ Cross
    /\ UNCHANGED <<database, lock_file, made, kept, locks, pc, key, key_file, lease, phase,
                   before, fresh, staged, backup, moved, moved_old, failing, rollback_failed,
                   report>>

\* What was made before a fault stays.
EndFresh ==
    /\ phase = "make"
    /\ Ended
    /\ report' = IF installed = 4 THEN "done" ELSE "failed"
    /\ UNCHANGED <<disk, locks, gateway, before, fresh>>

\* With --force: the new layout is staged in a directory of its own.
BeginForce ==
    /\ Begin
    /\ fresh' = FALSE
    /\ keys' = keys \cup {made'}
    /\ phase' = "staged"
    /\ UNCHANGED <<at, database, lock_file, kept, locks, gateway>>

\* The layout is replaced whoever uses it.
LeaseNothing ==
    /\ phase = "staged"
    /\ phase' = "move"
    /\ UNCHANGED <<disk, locks, gateway, before, fresh, staged, backup, moved, moved_old,
                   installed, failing, rollback_failed, report>>

\* _acquire_key_lease: nobody may be using the key; a layout without a key has no users.
LeaseKey ==
    /\ phase = "staged"
    /\ IF ~ HasKey THEN phase' = "move" /\ UNCHANGED <<key_lock, report>>
       ELSE IF key_lock[at["state"]] = None
       THEN /\ phase' = "move"
            /\ key_lock' = [key_lock EXCEPT ![at["state"]] = Reset]
            /\ UNCHANGED report
       ELSE phase' = "cleanup" /\ report' = "refused" /\ UNCHANGED key_lock
    /\ UNCHANGED <<disk, lease_lock, gateway, before, fresh, staged, backup, moved, moved_old,
                   installed, failing, rollback_failed>>

\* _replace_with_staged_layout: each target that is there is moved to the backup.
MoveOld ==
    /\ phase = "move" /\ moved < 3 /\ ~ failing
    /\ LET t == Targets[moved + 1] IN
       /\ moved' = moved + 1
       /\ moved_old' = IF at[t] = None THEN moved_old ELSE moved_old \cup {t}
       /\ \/ /\ backup' = [backup EXCEPT ![t] = at[t]]
             /\ at' = [at EXCEPT ![t] = None]
             /\ IF t = "state" THEN Cross ELSE UNCHANGED crossed
             /\ UNCHANGED failing
          \/ \* OSError; moved_old has the target already
             /\ at[t] # None
             /\ failing' = TRUE
             /\ UNCHANGED <<at, backup, crossed>>
    /\ UNCHANGED <<keys, database, lock_file, made, kept, locks, pc, key, key_file, lease,
                   phase, before, fresh, staged, installed, rollback_failed, report>>

\* A directory replaces another only if that is empty.
Replaceable(g) ==
    g # None => g \notin keys /\ database[g] = None /\ lock_file[g] = None

\* Each staged target is moved to its place.
InstallNew ==
    /\ phase = "move" /\ moved = 3 /\ installed < 3 /\ ~ failing
    /\ LET t == Targets[installed + 1] IN
       \/ /\ t = "state" => Replaceable(at[t])
          /\ at' = [at EXCEPT ![t] = staged]
          /\ installed' = installed + 1
          /\ IF t = "state" THEN Cross ELSE UNCHANGED crossed
          /\ UNCHANGED failing
       \/ failing' = TRUE /\ UNCHANGED <<at, installed, crossed>>
    /\ UNCHANGED <<keys, database, lock_file, made, kept, locks, pc, key, key_file, lease,
                   phase, before, fresh, staged, backup, moved, moved_old, rollback_failed, report>>

\* A fault: what was installed is removed, the last first; that may fail too.
RemoveInstalled ==
    /\ phase = "move" /\ failing /\ installed > 0
    /\ installed' = installed - 1
    /\ LET t == Targets[installed] IN
       \/ at' = [at EXCEPT ![t] = None] /\ UNCHANGED rollback_failed
       \/ rollback_failed' = TRUE /\ UNCHANGED at
    /\ Cross
    /\ UNCHANGED <<keys, database, lock_file, made, kept, locks, pc, key, key_file, lease,
                   phase, before, fresh, staged, backup, moved, moved_old, failing, report>>

\* A target that cannot be moved back is left where it is.
RestoreOldQuietly ==
    /\ phase = "move" /\ failing /\ installed = 0 /\ moved > 0
    /\ moved' = moved - 1
    /\ LET t == Targets[moved] IN
       \/ /\ backup[t] # None
          /\ t = "state" => Replaceable(at[t])
          /\ at' = [at EXCEPT ![t] = backup[t]]
          /\ backup' = [backup EXCEPT ![t] = None]
       \/ UNCHANGED <<at, backup>>
    /\ Cross
    /\ UNCHANGED <<keys, database, lock_file, made, kept, locks, pc, key, key_file, lease,
                   phase, before, fresh, staged, moved_old, installed, failing, rollback_failed,
                   report>>

\* Then what was moved is moved back, the last first.  A target that is not in the backup,
\* because it could not be moved there, counts as a fault of the rollback.
RestoreOld ==
    /\ phase = "move" /\ failing /\ installed = 0 /\ moved > 0
    /\ moved' = moved - 1
    /\ LET t == Targets[moved]
           there == t \in moved_old
       IN  \/ /\ backup[t] # None
              /\ t = "state" => Replaceable(at[t])
              /\ at' = [at EXCEPT ![t] = backup[t]]
              /\ backup' = [backup EXCEPT ![t] = None]
              /\ UNCHANGED rollback_failed
           \/ ~ there /\ UNCHANGED <<at, backup, rollback_failed>>
           \/ there /\ rollback_failed' = TRUE /\ UNCHANGED <<at, backup>>
    /\ Cross
    /\ UNCHANGED <<keys, database, lock_file, made, kept, locks, pc, key, key_file, lease,
                   phase, before, fresh, staged, moved_old, installed, failing, report>>

\* The lease is given back and the outcome told.
EndReplace ==
    /\ phase = "move"
    /\ IF failing THEN moved = 0 /\ installed = 0 ELSE installed = 3
    /\ phase' = "cleanup"
    /\ key_lock' = Unlock(key_lock, Reset)
    /\ report' = IF ~failing THEN "done"
                 ELSE IF rollback_failed THEN "not restored" ELSE "failed"
    /\ UNCHANGED <<disk, lease_lock, gateway, before, fresh, staged, backup, moved, moved_old,
                   installed, failing, rollback_failed>>

\* Whatever is in the temporary directories is deleted with them, and the process ends.
Cleanup ==
    /\ phase = "cleanup"
    /\ Ended
    /\ LET left(of) == [g \in Generations |-> IF g \in kept \cup {at["state"]} THEN of[g] ELSE None]
       IN  database' = left(database) /\ lock_file' = left(lock_file)
    /\ keys' = keys \cap (kept \cup {at["state"]})
    /\ before' = at
    /\ report' = "none"
    /\ UNCHANGED <<at, made, kept, locks, gateway, fresh>>

\* Killed: the temporary directories stay.
CrashReset ==
    /\ phase # "idle"
    /\ Ended
    /\ key_lock' = Unlock(key_lock, Reset)
    /\ kept' = kept \cup ({backup["state"]} \ {None})
    /\ report' = "crashed"
    /\ UNCHANGED <<at, keys, database, lock_file, made, lease_lock, gateway, before, fresh>>

Next ==
    \/ \E p \in Gateways :
          \/ ReadKey(p) \/ OpenKey(p) \/ LockKey(p) \/ OpenLease(p) \/ LockLease(p)
          \/ Initialize(p) \/ Abort(p) \/ Close(p) \/ CloseLease(p) \/ Unlink(p) \/ Crash(p)
    \/ BeginFresh \/ MakeFile \/ EndFresh \/ BeginForce \/ LeaseKey \/ MoveOld \/ InstallNew
    \/ RemoveInstalled \/ RestoreOld \/ EndReplace \/ Cleanup \/ CrashReset

Spec == Init /\ [][Next]_vars

-----------------------------------------------------------------------------
(* Properties.                                                             *)

Running(p) == pc[p] = "running"

\* Two processes that both run never have one database; and what a process runs with is the
\* key of its database, the one on the disk, so that no reset replaces the state directory
\* of a process that runs.  bootstrap.py:139 says so of every gateway; here it is said of
\* those that did not start across a reset.
OneWriter ==
    \A p \in Gateways : Running(p) /\ ~ crossed[p] =>
        /\ \A q \in Gateways \ {p} : ~ Running(q) \/ crossed[q]
        /\ key[p] = at["state"] /\ database[key[p]] = key[p]

\* What lies at a target is what lay there before the reset; where that had no state directory,
\* a gateway that was starting may have made one without a key.
Old(t, g) == g = before[t] \/ (t = "state" /\ before[t] = None /\ g \notin keys)

\* What a reset tells is true: done is all of the new layout, failed and refused all of the
\* old one.  And until it has deleted its temporary directories the old state directory is
\* somewhere on the disk, also after a crash between any two steps.
ResetIsHonest ==
    /\ phase = "cleanup" =>
          /\ report = "done" => at = All(staged) /\ staged \in keys
          /\ report \in {"failed", "refused"} => \A t \in TargetNames : Old(t, at[t])
    /\ ~ fresh /\ before["state"] # None =>
          before["state"] \in {at["state"], backup["state"]} \cup kept
=============================================================================
