------------------------------- MODULE Backup -------------------------------
(***************************************************************************)
(* Backups and restores of the database (internal/storage/backup.go), by   *)
(* the server's backupLoop and by the command line (cmd/sugi/main.go),     *)
(* while the server commits and any process may be killed.                 *)
(*                                                                         *)
(* A database is a file and its write-ahead log.  What they hold is told   *)
(* by the number of the last commit they contain.  The log belongs to one  *)
(* content of the file: over another one it yields garbage, and beside an  *)
(* empty file SQLite deletes it.  The -shm file is rebuilt from the log    *)
(* and left out.  A directory that cannot be made, a file that cannot be   *)
(* opened and a disk that is full are failures of the step they occur in.  *)
(***************************************************************************)
EXTENDS Integers

CONSTANTS
    MaxCommits,        \* bound: commits, those that create a database included
    Empty, Broken,     \* a file that is absent or has no bytes; one that is torn
    NoLog,             \* there is no write-ahead log
    Attached, Down     \* the server has the files at the path open; it is not running

ASSUME CommitsAssumption == MaxCommits \in Nat

ASSUME ContentAssumption ==
    /\ Broken # Empty /\ Attached # Down
    /\ {Empty, Broken} \cap {Attached, Down} = {}
    /\ {Empty, Broken, Attached, Down} \cap Nat = {}
    /\ NoLog \notin [base : Nat \cup {Empty, Broken}, to : Nat]

VARIABLES
    commits,  \* commits so far
    main,     \* the file at the path of the database
    wal,      \* its log: the content of main it belongs to, and what it adds up to
    server,   \* Down, Attached, or what the database holds that the server
              \* still has open after it was unlinked; Broken when its files
              \* were removed or overwritten in part
    backup,   \* backup[b]: where Backup, called by b, is
    copy,     \* copy[b]: the file that it writes
    reads,    \* reads[b]: the commit VACUUM INTO reads
    result,   \* result[b]: what it returned last
    restore,  \* where RestoreDatabase is, or how it ended
    source,   \* the content of the backup file that it opened
    seen,     \* history: commits that were the last one at some time since b called
    before,   \* history: what the path held when RestoreDatabase was called
    clean,    \* history: since then no process had the database open and
              \* the log could be removed
    owed      \* history: what the next process to open the path must find;
              \* Broken when nothing is owed

fileVars    == <<commits, main, wal>>
backupVars  == <<backup, copy, reads, result, seen>>
restoreVars == <<restore, source, before, clean>>

vars == <<fileVars, server, backupVars, restoreVars, owed>>

Commits == 1..MaxCommits

\* "loop" is backupLoop, "cli" a process started with -backup-to.
Backups == {"loop", "cli"}

\* What a process that opens the path finds.
ViewOf(file, log) ==
    IF file = Empty \/ log = NoLog THEN file
    ELSE IF log.base = file THEN log.to ELSE Broken

View == ViewOf(main, wal)

\* What the server finds in the database that it has open.
ServerView == IF server = Attached THEN View ELSE server

Running(b) == backup[b] # "idle"

Restoring == restore \in {"remove db", "remove wal", "create", "copy", "copying"}

InUse == server \in {Attached, Broken} \/ Running("cli")

\* The content a backup reads.
Reads(b) == IF b = "loop" THEN ServerView ELSE View

\* Whoever is backing up the database at the path may see v there.
Sees(v) ==
    seen' = [b \in Backups |-> IF Running(b) /\ (b = "cli" \/ server = Attached)
                               THEN seen[b] \cup {v} ELSE seen[b]]

-----------------------------------------------------------------------------
(* SQLite and the server *)

\* The next process is owed v, unless a restore, or a server that one has
\* ruined, may still change what is at the path.
Owes(v) == owed' = IF Restoring \/ server = Broken THEN Broken ELSE v

\* NewSQLiteStorage: an empty file becomes a database, a torn one an error.
Opens ==
    \/ /\ View \in Commits
       /\ Owes(View)
       /\ UNCHANGED fileVars
    \/ /\ main = Empty
       /\ commits < MaxCommits
       /\ commits' = commits + 1
       /\ main' = commits'
       /\ wal' = NoLog
       /\ Owes(commits')

\* Whoever opens the path makes history of a restore that has ended.
Forgets ==
    /\ restore' = "idle"
    /\ source' = Empty
    /\ before' = Empty
    /\ clean' = FALSE

Start ==
    /\ server = Down
    /\ Opens
    /\ server' = Attached
    /\ IF Restoring THEN clean' = FALSE /\ UNCHANGED <<restore, source, before>> ELSE Forgets
    /\ UNCHANGED backupVars

Writes ==
    /\ server # Down
    /\ ServerView \in Commits
    /\ commits < MaxCommits
    /\ commits' = commits + 1
    /\ IF server = Attached
       THEN /\ wal' = [base |-> main, to |-> commits']
            /\ owed' = IF owed = Broken THEN owed ELSE commits'
            /\ Sees(commits')
            /\ UNCHANGED server
       ELSE /\ server' = commits'
            /\ UNCHANGED <<wal, owed, seen>>
    /\ UNCHANGED <<main, backup, copy, reads, result, restoreVars>>

\* Variant of Commit: writes do not wait for a backup.
CommitUnlocked == Writes

\* A write of the server, which needs the mutex that Backup holds.
Commit == ~Running("loop") /\ Writes

\* The log is copied into the file and stays until it is used again.
Checkpointed ==
    IF wal = NoLog \/ View \notin Commits THEN UNCHANGED <<main, wal>>
    ELSE main' = View /\ wal' = [base |-> View, to |-> View]

\* SQLite checkpoints now and then when the server commits.
AutoCheckpoint ==
    /\ server = Attached
    /\ Checkpointed
    /\ UNCHANGED <<commits, server, backupVars, restoreVars, owed>>

\* The last process that closes a database leaves no log.
ClosesLast == main' = View /\ wal' = NoLog

\* The end of Server.Shutdown, which waits for the mutex.
Stop ==
    /\ server # Down
    /\ ~Running("loop")
    /\ server' = Down
    /\ IF server = Attached /\ ~Running("cli") /\ View \in Commits
       THEN ClosesLast ELSE UNCHANGED <<main, wal>>
    /\ UNCHANGED <<commits, backupVars, restoreVars, owed>>

Ends(b, r) ==
    /\ backup' = [backup EXCEPT ![b] = "idle"]
    /\ result' = [result EXCEPT ![b] = r]
    /\ reads' = [reads EXCEPT ![b] = Empty]
    /\ seen' = [seen EXCEPT ![b] = {}]

\* The server is killed, and its backup with it.
Kill ==
    /\ server # Down
    /\ server' = Down
    /\ IF Running("loop") THEN Ends("loop", "none") ELSE UNCHANGED <<backup, result, reads, seen>>
    /\ UNCHANGED <<fileVars, copy, restoreVars, owed>>

-----------------------------------------------------------------------------
(* Backup *)

Calls(b) ==
    /\ ~Running(b)
    /\ backup' = [backup EXCEPT ![b] = "remove"]
    /\ result' = [result EXCEPT ![b] = "none"]
    /\ UNCHANGED <<copy, reads>>

\* backupLoop: a tick.
LoopCalls ==
    /\ server # Down
    /\ Calls("loop")
    /\ seen' = [seen EXCEPT !["loop"] = {ServerView}]
    /\ UNCHANGED <<fileVars, server, restoreVars, owed>>

\* main: -backup-to opens the database first.  Commands are given one at a
\* time.
CliCalls ==
    /\ ~Restoring
    /\ Opens
    /\ Calls("cli")
    /\ seen' = [seen EXCEPT !["cli"] = {ViewOf(main', wal')}]
    /\ Forgets
    /\ UNCHANGED server

Step(b, from, to) ==
    /\ backup[b] = from
    /\ backup' = [backup EXCEPT ![b] = to]
    /\ UNCHANGED <<result, seen, server, restoreVars, owed>>

RemoveOld(b) ==
    /\ Step(b, "remove", "checkpoint")
    /\ copy' = [copy EXCEPT ![b] = Empty]
    /\ UNCHANGED <<fileVars, reads>>

\* PASSIVE: readers may keep frames in the log.
WalCheckpoint(b) ==
    /\ Step(b, "checkpoint", "vacuum")
    /\ \/ (b = "cli" \/ server = Attached) /\ Checkpointed
       \/ UNCHANGED <<main, wal>>
    /\ UNCHANGED <<commits, copy, reads>>

\* Variant of VacuumInto: the main file is copied, now that the log is in it.
CopyMainFile(b) ==
    /\ Step(b, "vacuum", "writing")
    /\ reads' = [reads EXCEPT ![b] = IF b = "loop" /\ server # Attached THEN server ELSE main]
    /\ copy' = [copy EXCEPT ![b] = Broken]
    /\ UNCHANGED fileVars

\* VACUUM INTO begins: it has read what was committed last.
VacuumInto(b) ==
    /\ Reads(b) \in Commits
    /\ Step(b, "vacuum", "writing")
    /\ reads' = [reads EXCEPT ![b] = Reads(b)]
    /\ copy' = [copy EXCEPT ![b] = Broken]
    /\ UNCHANGED fileVars

\* -backup-to closes the database before it exits.
CliCloses(b) ==
    IF b = "cli" /\ server # Attached /\ View \in Commits THEN ClosesLast ELSE UNCHANGED <<main, wal>>

VacuumDone(b) ==
    /\ backup[b] = "writing"
    /\ Ends(b, "nil")
    /\ copy' = [copy EXCEPT ![b] = reads[b]]
    /\ CliCloses(b)
    /\ UNCHANGED <<commits, server, restoreVars, owed>>

\* Any step returns an error; the process of -backup-to exits by log.Fatalf.
\* That process may as well be killed.
BackupFails(b) ==
    /\ Running(b)
    /\ Ends(b, "error")
    /\ UNCHANGED <<fileVars, server, copy, restoreVars, owed>>

-----------------------------------------------------------------------------
(* RestoreDatabase, in a process of its own: main, -restore-from *)

\* The backup file is opened, the directory made.
RestoreOpens ==
    /\ ~Restoring
    /\ ~Running("cli")
    /\ \E b \in Backups :
          /\ copy[b] # Empty
          /\ source' = copy[b]
          /\ clean' = (~InUse /\ ~Running(b))
    /\ restore' = "remove db"
    /\ before' = View
    /\ owed' = Broken
    /\ UNCHANGED <<fileVars, server, backupVars>>

RestoreStep(from, to) ==
    /\ restore = from
    /\ restore' = to
    /\ UNCHANGED <<commits, backupVars, source, before>>

\* A server whose files at the path change under it is not followed further: it
\* makes no more of them than of torn ones.
Ruins == server' = IF server = Attached THEN Broken ELSE server

Overwrites(content) == main' = content /\ Ruins

\* A server keeps the database that it has open, file and log.
Detached == IF server = Attached THEN View ELSE server

\* Each file is removed by itself, and an error of os.Remove is ignored.
RemoveDb ==
    /\ RestoreStep("remove db", "remove wal")
    /\ main' = Empty
    /\ server' = Detached
    /\ UNCHANGED <<wal, clean, owed>>

RemoveDbFails ==
    /\ RestoreStep("remove db", "remove wal")
    /\ UNCHANGED <<main, wal, server, clean, owed>>

\* Variant of RemoveWal: the log is left where it is.
RemoveWalNot ==
    /\ RestoreStep("remove wal", "create")
    /\ UNCHANGED <<main, wal, server, clean, owed>>

\* A server that is still, or again, at the path keeps its file and loses the
\* name of its log.
RemoveWal ==
    /\ RestoreStep("remove wal", "create")
    /\ wal' = NoLog
    /\ Ruins
    /\ UNCHANGED <<main, clean, owed>>

RemoveWalFails ==
    /\ RestoreStep("remove wal", "create")
    /\ clean' = FALSE
    /\ UNCHANGED <<main, wal, server, owed>>

\* O_CREATE and O_TRUNC.
CreateFile ==
    /\ RestoreStep("create", "copy")
    /\ Overwrites(Empty)
    /\ UNCHANGED <<wal, clean, owed>>

CopyPart ==
    /\ RestoreStep("copy", "copying")
    /\ Overwrites(Broken)
    /\ UNCHANGED <<wal, clean, owed>>

CopyDone ==
    /\ RestoreStep("copying", "restored")
    /\ Overwrites(source)
    /\ owed' = IF clean THEN source ELSE owed
    /\ UNCHANGED <<wal, clean>>

\* An error is returned, or the process is killed.
RestoreFails ==
    /\ Restoring
    /\ restore' = "failed"
    /\ UNCHANGED <<fileVars, server, backupVars, source, before, clean, owed>>

-----------------------------------------------------------------------------
Init ==
    /\ commits = 0
    /\ main = Empty
    /\ wal = NoLog
    /\ server = Down
    /\ backup = [b \in Backups |-> "idle"]
    /\ copy = [b \in Backups |-> Empty]
    /\ reads = [b \in Backups |-> Empty]
    /\ result = [b \in Backups |-> "none"]
    /\ seen = [b \in Backups |-> {}]
    /\ restore = "idle"
    /\ source = Empty
    /\ before = Empty
    /\ clean = FALSE
    /\ owed = Empty

Next ==
    \/ Start \/ Commit \/ AutoCheckpoint \/ Stop \/ Kill
    \/ LoopCalls \/ CliCalls
    \/ \E b \in Backups :
          RemoveOld(b) \/ WalCheckpoint(b) \/ VacuumInto(b) \/ VacuumDone(b) \/ BackupFails(b)
    \/ RestoreOpens
    \/ RemoveDb \/ RemoveDbFails \/ RemoveWal \/ RemoveWalFails
    \/ CreateFile \/ CopyPart \/ CopyDone
    \/ RestoreFails

Spec == Init /\ [][Next]_vars

-----------------------------------------------------------------------------
(* Properties *)

Content == Commits \cup {Empty, Broken}

\* Type invariant; while the server backs up, its own writes wait, so that
\* there is one state the backup can have (the mutex of backup.go:13).
TypeOK ==
    /\ commits \in 0..MaxCommits
    /\ main \in Content
    /\ wal \in [base : Content, to : Commits] \cup {NoLog}
    /\ server \in Content \cup {Attached, Down}
    /\ backup \in [Backups -> {"idle", "remove", "checkpoint", "vacuum", "writing"}]
    /\ copy \in [Backups -> Content]
    /\ reads \in [Backups -> Content]
    /\ result \in [Backups -> {"none", "nil", "error"}]
    /\ restore \in {"idle", "remove db", "remove wal", "create", "copy", "copying",
                    "restored", "failed"}
    /\ source \in Content
    /\ before \in Content
    /\ clean \in BOOLEAN
    /\ seen \in [Backups -> SUBSET Content]
    /\ \E v \in Content : seen["loop"] \subseteq {v}
    /\ owed \in Content

\* When Backup has returned nil its file is a database that is complete and
\* as it was committed at some moment between call and return, with the log
\* or without, checkpointed or not, and whatever the server of another process
\* committed meanwhile (backup.go:26-35).
BackupCommitted ==
    [][\A b \in Backups : result[b] # "nil" /\ result'[b] = "nil" =>
          copy'[b] \in seen[b] \cap Commits]_vars

\* A process that opens the path finds all that was committed there, through
\* kills, checkpoints and backups at any moment; after a restore that returned
\* nil and was not disturbed it finds the backup and nothing of the old log
\* (backup.go:54-67).
Intact == owed # Broken => View = owed

\* "RestoreDatabase safely copies a backup file into the target database path"
\* (backup.go:40): when it fails, on a database that nobody has open and that
\* was sound, the path holds the old database or the backup.
RestoreSafe ==
    restore = "failed" /\ clean /\ before \in Commits => View \in {before, source}
=============================================================================
