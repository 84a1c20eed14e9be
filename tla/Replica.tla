------------------------------- MODULE Replica -------------------------------
(***************************************************************************)
(* The database file of a device and its remote copy: opening, the upgrade *)
(* of a plain file to an embedded replica, schema migrations, and the      *)
(* syncs of the command line and of the MCP server (src/src/db.rs and the  *)
(* lifecycles in main.rs and mcp/mod.rs).  One process at a time per       *)
(* device: an `mt` command, or `mt mcp` on a server.  It may be killed, or *)
(* fail, between any two steps.                                            *)
(*                                                                         *)
(* A database is the sequence of its committed transactions, "frames":     *)
(* those of the schema and rows written.  What libSQL does (build, sync)   *)
(* is external, modelled from how db.rs uses it and from its comments.     *)
(***************************************************************************)
EXTENDS Naturals, FiniteSets, SequencesExt

CONSTANTS
    Device,         \* the machines of one learner
    Servers,        \* those that run `mt mcp`
    Local,          \* those used without sync at first
    Table,          \* the user tables
    Numbered,       \* those whose keys are assigned by AUTOINCREMENT
    Columns,        \* Columns[t][v]: the number of columns of t in schema v
    Latest,         \* the number of migrations of the newest binary
    MaxWrites       \* bound: the rows one device writes

ASSUME ReplicaAssumption ==
    /\ Servers \subseteq Device /\ Local \subseteq Device
    /\ Numbered \subseteq Table
    /\ Latest \in Nat \ {0}
    /\ MaxWrites \in Nat
    /\ Columns \in [Table -> [0 .. Latest -> Nat]]

Row == [table : Table, key : Nat, by : Device, nth : 1 .. MaxWrites]

(* One transaction: migration `version`, or rows under version 0. *)
Frame == [version : 0 .. Latest, rows : SUBSET Row]

VARIABLES
    pc,             \* how far the process of the device has come
    configured,     \* TURSO_URL and TURSO_AUTH_TOKEN are set
    shipped,        \* the migrations in the installed binary
    kind,           \* of the file: none, plain, unmarked (a replica whose
                    \* -info sidecar is not written yet) or replica
    log,            \* the frames of the file
    synced,         \* the frames the sidecar records as synced
    saved,          \* there is a .preupgrade file ...
    backup,         \* ... and its frames
    copied,         \* the tables an upgrade has copied
    pending,        \* a detached sync task of the server has not run yet
    remote,         \* the frames of the remote database
    acked,          \* history: the rows the device was told are stored
    raced           \* history: another device changed the remote while this
                    \* one was on, or had frames it had not pushed

settings == <<configured, shipped>>
file == <<kind, log, synced>>
oldFile == <<saved, backup>>
tasks == <<copied, pending>>
beyond == <<remote, acked, raced>>
vars == <<pc, settings, file, oldFile, tasks, beyond>>

Phase == {"off", "renamed", "filling", "copying", "copied", "opened",
          "migrating", "ready", "running", "pushing"}

ReplicaTypeOK ==
    /\ pc \in [Device -> Phase]
    /\ configured \in [Device -> BOOLEAN]
    /\ shipped \in [Device -> 1 .. Latest]
    /\ kind \in [Device -> {"none", "plain", "unmarked", "replica"}]
    /\ log \in [Device -> Seq(Frame)]
    /\ synced \in [Device -> Nat]
    /\ saved \in [Device -> BOOLEAN]
    /\ backup \in [Device -> Seq(Frame)]
    /\ copied \in [Device -> SUBSET Table]
    /\ pending \in [Device -> BOOLEAN]
    /\ remote \in Seq(Frame)
    /\ acked \in [Device -> SUBSET Row]
    /\ raced \in [Device -> BOOLEAN]

-----------------------------------------------------------------------------
(* What a database holds. *)

RowsOf(frames) == UNION {frames[i].rows : i \in DOMAIN frames}

(* `current_version`: COALESCE(MAX(version), 0). *)
Version(frames) == Max({0} \cup {frames[i].version : i \in DOMAIN frames})

Migration(v) == [version |-> v, rows |-> {}]
Written(rows) == [version |-> 0, rows |-> rows]

(* The key of a new row: rowids go on from the greatest. *)
NextKey(frames, t) ==
    LET rows == {r \in RowsOf(frames) : r.table = t}
    IN  IF t \in Numbered THEN 1 + Max({0} \cup {r.key : r \in rows}) ELSE 0

(* INSERT OR IGNORE skips a row whose key is taken. *)
Taken(frames, r) ==
    \E s \in RowsOf(frames) :
        s.table = r.table /\ (s = r \/ (r.table \in Numbered /\ s.key = r.key))

IsReplica(d) == kind[d] \in {"unmarked", "replica"}
Unpushed(d) == IsReplica(d) /\ Len(log[d]) > synced[d]

(* One of the two continues the other. *)
Comparable(s, t) == IsPrefix(s, t) \/ IsPrefix(t, s)

(* A version conflict: no sync can ever succeed again. *)
Diverged(d) == Unpushed(d) /\ ~Comparable(log[d], remote)

Serving(d) == d \in Servers /\ pc[d] = "running" /\ configured[d]

At(d, phase) == pc[d] = phase
Goto(d, phase) == pc' = [pc EXCEPT ![d] = phase]

Init ==
    /\ pc = [d \in Device |-> "off"]
    /\ configured = [d \in Device |-> d \notin Local]
    /\ shipped = [d \in Device |-> 1]
    /\ kind = [d \in Device |-> "none"]
    /\ log = [d \in Device |-> <<>>]
    /\ synced = [d \in Device |-> 0]
    /\ saved = [d \in Device |-> FALSE]
    /\ backup = [d \in Device |-> <<>>]
    /\ copied = [d \in Device |-> {}]
    /\ pending = [d \in Device |-> FALSE]
    /\ remote = <<>>
    /\ acked = [d \in Device |-> {}]
    /\ raced = [d \in Device |-> FALSE]

-----------------------------------------------------------------------------
(* `db.sync()` pushes what is not pushed, or else pulls.  It succeeds only *)
(* without a conflict; one that is refused, cut off or timed out may have  *)
(* stored some of the frames without this device learning of it.           *)

Level(d) == IF IsPrefix(log[d], remote) THEN remote ELSE log[d]

Races(d) ==
    [x \in Device |->
        IF x = d THEN raced[d]
        ELSE raced[x] \/ (remote' # remote /\ (pc[x] # "off" \/ Unpushed(x)))]

SyncDone(d) ==
    /\ Comparable(log[d], remote)
    /\ remote' = Level(d)
    /\ log' = [log EXCEPT ![d] = Level(d)]
    /\ synced' = [synced EXCEPT ![d] = Len(Level(d))]
    /\ kind' = [kind EXCEPT ![d] = "replica"]
    /\ raced' = [Races(d) EXCEPT ![d] = FALSE]

SyncCut(d) ==
    /\ \/ remote' = remote
       \/ /\ IsPrefix(remote, log[d])
          /\ \E n \in Len(remote) .. Len(log[d]) : remote' = SubSeq(log[d], 1, n)
    /\ raced' = Races(d)
    /\ UNCHANGED <<file>>

(* The process ends.  A race is over if there was nothing left to push:    *)
(* the next `open` pulls.                                                  *)
Exit(d) ==
    /\ Goto(d, "off")
    /\ pending' = [pending EXCEPT ![d] = FALSE]
    /\ copied' = [copied EXCEPT ![d] = {}]
    /\ raced' = [raced EXCEPT ![d] = @ /\ Unpushed(d)]

NoSync == UNCHANGED <<file, remote, raced>>

(* `maybe_sync`: whatever comes of it, the caller goes on. *)
MaybeSync(d) == IF configured[d] THEN SyncDone(d) \/ SyncCut(d) ELSE NoSync

-----------------------------------------------------------------------------
(* `open`. *)

(* `needs_replica_upgrade`: a file, and no sidecar. *)
NeedsUpgrade(d) == kind[d] \in {"plain", "unmarked"}

(* `Builder::new_local`. *)
OpenPlain(d) ==
    /\ At(d, "off")
    /\ ~configured[d]
    /\ kind' = [kind EXCEPT ![d] = "plain"]
    /\ Goto(d, "migrating")
    /\ UNCHANGED <<settings, log, synced, oldFile, tasks, beyond>>

(* `Builder::new_synced_database` on no file: an empty database, with or   *)
(* without the sidecar, or a copy of the remote one.                       *)
Build(d) ==
    IF kind[d] = "none"
    THEN /\ \/ /\ log' = [log EXCEPT ![d] = <<>>]
               /\ synced' = [synced EXCEPT ![d] = 0]
               /\ \E marked \in {"unmarked", "replica"} :
                     kind' = [kind EXCEPT ![d] = marked]
            \/ /\ log' = [log EXCEPT ![d] = remote]
               /\ synced' = [synced EXCEPT ![d] = Len(remote)]
               /\ kind' = [kind EXCEPT ![d] = "replica"]
    ELSE UNCHANGED <<file>>

OpenReplica(d) ==
    /\ At(d, "off")
    /\ configured[d]
    /\ ~NeedsUpgrade(d)
    /\ Build(d)
    /\ Goto(d, "opened")
    /\ UNCHANGED <<settings, oldFile, tasks, beyond>>

(* Pull remote frames before local writes. *)
PullFirst(d) ==
    /\ At(d, "opened")
    /\ SyncDone(d)
    /\ Goto(d, "migrating")
    /\ UNCHANGED <<settings, oldFile, tasks, acked>>

(* The sync fails, and `open` with it. *)
PullFails(d) ==
    /\ At(d, "opened")
    /\ SyncCut(d)
    /\ Goto(d, "off")
    /\ UNCHANGED <<settings, oldFile, tasks, acked>>

(* Mutant: an earlier backup is overwritten. *)
RenameOver(d) ==
    /\ At(d, "off")
    /\ configured[d]
    /\ NeedsUpgrade(d)
    /\ saved' = [saved EXCEPT ![d] = TRUE]
    /\ backup' = [backup EXCEPT ![d] = log[d]]
    /\ kind' = [kind EXCEPT ![d] = "none"]
    /\ log' = [log EXCEPT ![d] = <<>>]
    /\ synced' = [synced EXCEPT ![d] = 0]
    /\ Goto(d, "renamed")
    /\ UNCHANGED <<settings, tasks, beyond>>

(* `upgrade_local_to_replica` renames the file, unless there is a backup;  *)
(* then `open` fails, now and at every later start.                        *)
Rename(d) ==
    /\ At(d, "off")
    /\ configured[d]
    /\ NeedsUpgrade(d)
    /\ ~saved[d]
    /\ saved' = [saved EXCEPT ![d] = TRUE]
    /\ backup' = [backup EXCEPT ![d] = log[d]]
    /\ kind' = [kind EXCEPT ![d] = "none"]
    /\ log' = [log EXCEPT ![d] = <<>>]
    /\ synced' = [synced EXCEPT ![d] = 0]
    /\ Goto(d, "renamed")
    /\ UNCHANGED <<settings, tasks, beyond>>

(* A fresh replica at the old path.  Nothing is pulled first. *)
BuildUpgraded(d) ==
    /\ At(d, "renamed")
    /\ Build(d)
    /\ Goto(d, "filling")
    /\ UNCHANGED <<settings, oldFile, tasks, beyond>>

(* Mutant: migrations run before the first pull. *)
MigrateEarly(d) ==
    /\ pc[d] \in {"opened", "migrating", "filling"}
    /\ Version(log[d]) < shipped[d]
    /\ log' = [log EXCEPT ![d] = Append(@, Migration(Version(log[d]) + 1))]
    /\ UNCHANGED <<pc, settings, kind, synced, oldFile, tasks, beyond>>

(* Mutant: `<` for `<=`, so the migration of the current version runs again. *)
MigrateAgain(d) ==
    /\ pc[d] \in {"migrating", "filling"}
    /\ Version(log[d]) <= shipped[d]
    /\ LET again == Max({1, Version(log[d])})
       IN  log' = [log EXCEPT ![d] = Append(@, Migration(again))]
    /\ UNCHANGED <<pc, settings, kind, synced, oldFile, tasks, beyond>>

(* META_SCHEMA: the table of the migrations, if the file has none yet, in  *)
(* a transaction of its own.                                               *)
PrepareSchema(d) ==
    /\ pc[d] \in {"migrating", "filling"}
    /\ log[d] = <<>>
    /\ log' = [log EXCEPT ![d] = Append(@, Written({}))]
    /\ UNCHANGED <<pc, settings, kind, synced, oldFile, tasks, beyond>>

(* `apply_migration`, one transaction each. *)
Migrate(d) ==
    /\ pc[d] \in {"migrating", "filling"}
    /\ log[d] # <<>>
    /\ Version(log[d]) < shipped[d]
    /\ log' = [log EXCEPT ![d] = Append(@, Migration(Version(log[d]) + 1))]
    /\ UNCHANGED <<pc, settings, kind, synced, oldFile, tasks, beyond>>

(* No migration is newer than the schema. *)
Migrated(d) ==
    /\ pc[d] \in {"migrating", "filling"}
    /\ Version(log[d]) >= shipped[d]
    /\ Goto(d, IF At(d, "filling") THEN "copying" ELSE "ready")
    /\ UNCHANGED <<settings, file, oldFile, tasks, beyond>>

(* `SELECT *` into a table of another width is an error. *)
Fits(d, t) == Columns[t][Version(backup[d])] = Columns[t][Version(log[d])]

(* `copy_user_tables_via_attach`, one INSERT OR IGNORE per table. *)
CopyTable(d, t) ==
    /\ At(d, "copying")
    /\ t \notin copied[d]
    /\ Fits(d, t)
    /\ LET fresh == {r \in RowsOf(backup[d]) : r.table = t /\ ~Taken(log[d], r)}
       IN  log' = IF fresh = {} THEN log
                  ELSE [log EXCEPT ![d] = Append(@, Written(fresh))]
    /\ copied' = [copied EXCEPT ![d] = @ \cup {t}]
    /\ UNCHANGED <<pc, settings, kind, synced, oldFile, pending, beyond>>

(* The copy fails, and `open` with it; what was copied stays. *)
CopyFails(d, t) ==
    /\ At(d, "copying")
    /\ t \notin copied[d]
    /\ ~Fits(d, t)
    /\ Exit(d)
    /\ UNCHANGED <<settings, file, oldFile, remote, acked>>

CopyEnds(d) ==
    /\ At(d, "copying")
    /\ copied[d] = Table
    /\ Goto(d, "copied")
    /\ copied' = [copied EXCEPT ![d] = {}]
    /\ UNCHANGED <<settings, file, oldFile, pending, beyond>>

(* The upgrade ends with a sync that may fail. *)
PushUpgrade(d) ==
    /\ At(d, "copied")
    /\ MaybeSync(d)
    /\ Goto(d, "ready")
    /\ UNCHANGED <<settings, oldFile, tasks, acked>>

-----------------------------------------------------------------------------
(* The process. *)

(* Both lifecycles sync once more before they start. *)
Start(d) ==
    /\ At(d, "ready")
    /\ MaybeSync(d)
    /\ Goto(d, "running")
    /\ UNCHANGED <<settings, oldFile, tasks, acked>>

(* A command or a tool that writes a row and says so. *)
Write(d, t) ==
    /\ At(d, "running")
    /\ Cardinality(acked[d]) < MaxWrites
    /\ LET row == [table |-> t, key |-> NextKey(log[d], t), by |-> d,
                   nth |-> Cardinality(acked[d]) + 1]
       IN  /\ log' = [log EXCEPT ![d] = Append(@, Written({row}))]
           /\ acked' = [acked EXCEPT ![d] = @ \cup {row}]
    /\ IF d \in Servers
       THEN pending' = [pending EXCEPT ![d] = TRUE] /\ UNCHANGED pc
       ELSE Goto(d, "pushing") /\ UNCHANGED pending
    /\ UNCHANGED <<settings, kind, synced, oldFile, copied, remote, raced>>

(* `spawn_sync`: the detached task after a tool call, in the server's own   *)
(* time, also while that shuts down.                                       *)
DetachedSync(d) ==
    /\ pc[d] \in {"running", "pushing"}
    /\ pending[d]
    /\ MaybeSync(d)
    /\ pending' = [pending EXCEPT ![d] = FALSE]
    /\ UNCHANGED <<pc, settings, oldFile, copied, acked>>

(* Mutant: a tick syncs only after a tool call. *)
TickIfPending(d) ==
    /\ Serving(d)
    /\ pending[d]
    /\ SyncDone(d)
    /\ UNCHANGED <<pc, settings, oldFile, tasks, acked>>

(* `spawn_background_sync`, a tick whose sync succeeds ... *)
TickDone(d) ==
    /\ Serving(d)
    /\ SyncDone(d)
    /\ UNCHANGED <<pc, settings, oldFile, tasks, acked>>

(* ... and one that does not. *)
TickCut(d) ==
    /\ Serving(d)
    /\ SyncCut(d)
    /\ UNCHANGED <<pc, settings, oldFile, tasks, acked>>

(* SIGTERM: the server stops taking calls and goes on to its last sync.    *)
(* Detached tasks are not waited for.                                      *)
Shutdown(d) ==
    /\ d \in Servers
    /\ At(d, "running")
    /\ Goto(d, "pushing")
    /\ UNCHANGED <<settings, file, oldFile, tasks, beyond>>

(* The last sync of a command, or of a server that shuts down. *)
Finish(d) ==
    /\ At(d, "pushing")
    /\ MaybeSync(d)
    /\ Goto(d, "off")
    /\ pending' = [pending EXCEPT ![d] = FALSE]
    /\ UNCHANGED <<settings, oldFile, copied, acked>>

(* The process is killed, fails, or was a command that only reads. *)
Stop(d) ==
    /\ pc[d] # "off"
    /\ Exit(d)
    /\ UNCHANGED <<settings, file, oldFile, remote, acked>>

(* The user turns sync on, for good. *)
Configure(d) ==
    /\ At(d, "off")
    /\ ~configured[d]
    /\ configured' = [configured EXCEPT ![d] = TRUE]
    /\ UNCHANGED <<pc, shipped, file, oldFile, tasks, beyond>>

(* The user installs a binary with one more migration. *)
Install(d) ==
    /\ At(d, "off")
    /\ shipped[d] < Latest
    /\ shipped' = [shipped EXCEPT ![d] = @ + 1]
    /\ UNCHANGED <<pc, configured, file, oldFile, tasks, beyond>>

Next ==
    \E d \in Device :
        \/ OpenPlain(d)
        \/ OpenReplica(d)
        \/ PullFirst(d)
        \/ PullFails(d)
        \/ Rename(d)
        \/ BuildUpgraded(d)
        \/ PrepareSchema(d)
        \/ Migrate(d)
        \/ Migrated(d)
        \/ \E t \in Table : CopyTable(d, t) \/ CopyFails(d, t)
        \/ CopyEnds(d)
        \/ PushUpgrade(d)
        \/ Start(d)
        \/ \E t \in Table : Write(d, t)
        \/ DetachedSync(d)
        \/ TickDone(d)
        \/ TickCut(d)
        \/ Shutdown(d)
        \/ Finish(d)
        \/ Stop(d)
        \/ Configure(d)
        \/ Install(d)

(* The timer of a server that stays up fires for ever, and the remote      *)
(* database answers in time at least once while nothing else changes.      *)
Fairness == \A d \in Servers : WF_vars(TickDone(d))

Spec == Init /\ [][Next]_vars /\ Fairness

-----------------------------------------------------------------------------
(* A row that was acknowledged is never destroyed: it is in the database   *)
(* of its device or in the backup an upgrade made, whatever fails in the   *)
(* middle of upgrades, syncs and migrations, in any number.                *)
NothingDestroyed ==
    \A d \in Device :
        acked[d] \subseteq RowsOf(log[d]) \cup RowsOf(backup[d])

(* Pulling before the first local write does its work: a version conflict  *)
(* has another cause, a device that wrote while this one was on or had     *)
(* frames to push, or an upgrade, which does not pull.                     *)
ConflictsExplained ==
    \A d \in Device : Diverged(d) => raced[d] \/ saved[d]

(* Every migration is applied at most once to a database and in order,     *)
(* although devices of different versions share the remote and an `open`   *)
(* may stop between two of them.                                           *)
SchemaOnce ==
    \A d \in Device :
        \A i, j \in DOMAIN log[d] :
            i < j /\ log[d][i].version > 0 /\ log[d][j].version > 0
                => log[d][i].version < log[d][j].version

(* What a server acknowledged reaches the remote database unless the       *)
(* server stops or is in conflict, also when the detached sync failed or   *)
(* its answer was lost: the background tick makes up for it.               *)
ServedWritesReachRemote ==
    \A d \in Servers :
        Serving(d) /\ Unpushed(d) ~> ~Serving(d) \/ Diverged(d) \/ ~Unpushed(d)

-----------------------------------------------------------------------------
(* What the comment on `open` says of the upgrade, and the program does    *)
(* not do when the upgrade stops halfway.                                  *)

(* The file is upgraded in place to an embedded replica without losing     *)
(* data: a process that runs on an upgraded file finds the rows there.     *)
UpgradeKeepsRows ==
    \A d \in Device :
        pc[d] = "running" => RowsOf(backup[d]) \subseteq RowsOf(log[d])
=============================================================================
