---------------------------- MODULE BackupProofs ----------------------------
(***************************************************************************)
(* Proofs about Backup, for any number of commits: every kill, checkpoint, *)
(* backup and restore, in any order.                                       *)
(*                                                                         *)
(* Neither Intact nor BackupCommitted is inductive.  Intact needs that     *)
(* nothing is owed while a restore is at work and that an undisturbed one  *)
(* has no log left beside the file it writes (RestoreAccount).  For        *)
(* BackupCommitted the content a backup would read has to be among those   *)
(* seen since its call, for the command line's backup and for the loop's   *)
(* (BackupAccount), which takes that an open database is sound (Sound).    *)
(***************************************************************************)
EXTENDS Backup, TLAPS

\* A server that has the path open finds a database there.
Sound == server = Attached => View \in Commits

\* While a restore is at work nothing is owed; when it was not disturbed,
\* nobody has the database open and its log is removed before the file is
\* written.
RestoreAccount ==
    Restoring =>
        /\ owed = Broken
        /\ clean =>
              /\ server # Attached
              /\ ~Running("cli")
              /\ restore \in {"create", "copy", "copying"} => wal = NoLog

\* What a running backup would read is among what it has seen since its call.
BackupAccount ==
    /\ Running("cli") => ~Restoring /\ View \in seen["cli"] /\ View \in Commits
    /\ Running("loop") =>
          /\ server # Down
          /\ ServerView \in Commits => ServerView \in seen["loop"]
    /\ \A b \in Backups : backup[b] = "writing" => reads[b] \in seen[b] /\ reads[b] \in Commits

Inv == TypeOK /\ Sound /\ RestoreAccount /\ BackupAccount /\ Intact
-----------------------------------------------------------------------------
(* What a process finds at the path *)

LEMMA Contents ==
    ASSUME TypeOK
    PROVE  /\ View \in Content
           /\ server \in Content => server # Attached /\ server # Down
           /\ server # Down => ServerView \in Content
           /\ Empty \notin Commits /\ Broken \notin Commits
           /\ Attached \notin Content /\ Down \notin Content
<1>1. wal # NoLog => wal.base \in Content /\ wal.to \in Commits
  BY DEF TypeOK
<1>2. View \in Content
  BY <1>1 DEF TypeOK, View, ViewOf, Content
<1>3. Commits \subseteq Nat
  BY DEF Commits
<1>4. /\ Empty \notin Commits /\ Broken \notin Commits
      /\ Attached \notin Content /\ Down \notin Content
  BY <1>3, ContentAssumption DEF Content
<1>5. server \in Content \cup {Attached, Down}
  BY DEF TypeOK
<1> QED
  BY <1>2, <1>4, <1>5, Zenon DEF ServerView

\* A commit goes to the log, and is what the path holds then.
LEMMA CommitView ==
    ASSUME TypeOK, View \in Commits, NEW n \in Commits, main' = main,
           wal' = [base |-> main, to |-> n]
    PROVE  View' = n /\ wal' \in [base : Content, to : Commits]
<1>1. main # Empty /\ main \in Content
  BY Contents DEF TypeOK, View, ViewOf
<1>2. wal' # NoLog /\ wal'.base = main /\ wal'.to = n
  BY <1>1, ContentAssumption DEF Content, Commits
<1> QED
  BY <1>1, <1>2 DEF View, ViewOf

\* A checkpoint does not change what the path holds, nor does closing a sound
\* database.
LEMMA CheckpointView ==
    ASSUME TypeOK, Checkpointed
    PROVE  /\ View' = View
           /\ main' \in Content /\ wal' \in [base : Content, to : Commits] \cup {NoLog}
           /\ wal = NoLog => wal' = NoLog
<1>1. CASE UNCHANGED <<main, wal>>
  BY <1>1 DEF View, TypeOK
<1>2. CASE View \in Commits /\ wal # NoLog /\ main' = View /\ wal' = [base |-> View, to |-> View]
  <2>1. View # Empty /\ View \in Content
    BY <1>2, Contents
  <2> DEFINE v == View
  <2>2. main' = v /\ wal'.base = v /\ wal'.to = v /\ v \in Commits
    BY <1>2
  <2>3. wal' # NoLog
    BY <1>2, <2>1, ContentAssumption DEF Content, Commits
  <2>4. ViewOf(main', wal') = v
    BY <2>1, <2>2, <2>3 DEF ViewOf
  <2> QED
    BY <1>2, <2>1, <2>4 DEF View
<1> QED
  BY <1>1, <1>2 DEF Checkpointed

LEMMA ClosingView ==
    ASSUME TypeOK, ClosesLast
    PROVE  View' = View /\ main' \in Content /\ wal' = NoLog
BY Contents DEF ClosesLast, View, ViewOf

\* Opening the path: it holds a database afterwards, and the same as before
\* unless there was none.
LEMMA OpensView ==
    ASSUME TypeOK, Opens
    PROVE  /\ View' \in Commits
           /\ commits' \in 0..MaxCommits /\ main' \in Content
           /\ wal' \in [base : Content, to : Commits] \cup {NoLog}
           /\ owed' \in Content
           /\ View \in Commits => UNCHANGED fileVars /\ View' = View
           /\ owed' \in {View', Broken}
           /\ Restoring => owed' = Broken
<1>1. /\ commits \in 0..MaxCommits /\ main \in Content /\ owed \in Content
      /\ wal \in [base : Content, to : Commits] \cup {NoLog}
  BY DEF TypeOK
<1>2. Commits \subseteq Content /\ Broken \in Content
  BY DEF Content
<1>3. CASE View \in Commits /\ UNCHANGED fileVars /\ Owes(View)
  <2>1. View' = View /\ main' = main /\ wal' = wal /\ commits' = commits
    BY <1>3 DEF fileVars, View
  <2> QED
    BY <1>1, <1>2, <1>3, <2>1 DEF Owes
<1>4. CASE main = Empty /\ commits < MaxCommits
           /\ commits' = commits + 1 /\ main' = commits' /\ wal' = NoLog
           /\ Owes(commits')
  <2>1. commits' \in Commits /\ commits' \in 0..MaxCommits
    BY <1>1, <1>4, CommitsAssumption DEF Commits
  <2>2. View' = commits' /\ View = Empty
    BY <1>4 DEF View, ViewOf
  <2>3. View \notin Commits
    BY <2>2, Contents
  <2> QED
    BY <1>1, <1>2, <1>4, <2>1, <2>2, <2>3 DEF Owes
<1> QED
  BY <1>3, <1>4 DEF Opens

-----------------------------------------------------------------------------
(* Types *)

LEMMA CommittedNext ==
    ASSUME TypeOK, Writes
    PROVE  commits' \in 0..MaxCommits /\ commits' \in Commits
<1>1. commits \in 0..MaxCommits /\ commits < MaxCommits /\ commits' = commits + 1
  BY DEF Writes, TypeOK
<1> QED
  BY <1>1, CommitsAssumption DEF Commits

LEMMA EndsTypes ==
    ASSUME TypeOK, NEW b \in Backups, NEW r \in {"none", "nil", "error"}, Ends(b, r)
    PROVE  /\ backup' \in [Backups -> {"idle", "remove", "checkpoint", "vacuum", "writing"}]
           /\ reads' \in [Backups -> Content]
           /\ result' \in [Backups -> {"none", "nil", "error"}]
           /\ seen' \in [Backups -> SUBSET Content]
           /\ \E v \in Content : seen'["loop"] \subseteq {v}
<1>1. seen'["loop"] = seen["loop"] \/ seen'["loop"] = {}
  BY DEF Ends, TypeOK, Backups
<1> QED
  BY <1>1 DEF Ends, TypeOK, Content

LEMMA TypeStep == ASSUME TypeOK, [Next]_vars PROVE TypeOK'
<1> USE DEF Backups
<1>0. Commits \subseteq Content /\ Empty \in Content /\ Broken \in Content
  BY DEF Content
<1>1. CASE Start
  BY <1>1, OpensView DEF Start, Forgets, TypeOK, restoreVars, backupVars, Content
<1>2. CASE Commit
  <2>1. commits' \in 0..MaxCommits /\ commits' \in Commits
    BY <1>2, CommittedNext DEF Commit
  <2>2. CASE server = Attached
    <3>1. wal' = [base |-> main, to |-> commits'] /\ main \in Content
      BY <1>2, <2>2 DEF Commit, Writes, TypeOK
    <3>2. wal' \in [base : Content, to : Commits]
      BY <2>1, <3>1
    <3>3. owed' \in Content
      BY <1>0, <1>2, <2>1, <2>2 DEF Commit, Writes, TypeOK
    <3>4. seen' \in [Backups -> SUBSET Content] /\ seen'["loop"] = seen["loop"]
      <4>1. seen' = [b \in Backups |-> IF Running(b) /\ (b = "cli" \/ server = Attached)
                                       THEN seen[b] \cup {commits'} ELSE seen[b]]
        BY <1>2, <2>2 DEF Commit, Writes, Sees
      <4>2. seen \in [Backups -> SUBSET Content] /\ commits' \in Content
        BY <1>0, <2>1 DEF TypeOK
      <4>3. ~Running("loop")
        BY <1>2 DEF Commit
      <4> QED
        BY <4>1, <4>2, <4>3
    <3> QED
      BY <1>2, <2>1, <2>2, <3>2, <3>3, <3>4 DEF Commit, Writes, TypeOK, restoreVars
  <2>3. CASE server # Attached
    BY <1>0, <1>2, <2>1, <2>3 DEF Commit, Writes, TypeOK, restoreVars
  <2> QED
    BY <2>2, <2>3
<1>3. CASE AutoCheckpoint
  BY <1>3, CheckpointView DEF AutoCheckpoint, TypeOK, backupVars, restoreVars
<1>4. CASE Stop
  <2>1. main' \in Content /\ wal' \in [base : Content, to : Commits] \cup {NoLog}
    BY <1>4, ClosingView DEF Stop, TypeOK
  <2> QED
    BY <1>4, <2>1 DEF Stop, TypeOK, backupVars, restoreVars
<1>5. CASE Kill
  BY <1>5, EndsTypes DEF Kill, TypeOK, fileVars, restoreVars
<1>6. CASE LoopCalls
  <2>1. ServerView \in Content
    BY <1>6, Contents DEF LoopCalls
  <2> QED
    BY <1>6, <2>1 DEF LoopCalls, Calls, TypeOK, fileVars, restoreVars
<1>7. CASE CliCalls
  <2>1. ViewOf(main', wal') \in Content
    BY <1>0, <1>7, OpensView DEF CliCalls, View
  <2>2. seen' \in [Backups -> SUBSET Content] /\ seen'["loop"] = seen["loop"]
    BY <1>7, <2>1 DEF CliCalls, TypeOK
  <2> QED
    BY <1>0, <1>7, <2>2, OpensView DEF CliCalls, Calls, Forgets, TypeOK
<1>8. ASSUME NEW b \in Backups, RemoveOld(b) PROVE TypeOK'
  BY <1>0, <1>8 DEF RemoveOld, Step, TypeOK, fileVars, restoreVars
<1>9. ASSUME NEW b \in Backups, WalCheckpoint(b) PROVE TypeOK'
  <2>1. main' \in Content /\ wal' \in [base : Content, to : Commits] \cup {NoLog}
    BY <1>9, CheckpointView DEF WalCheckpoint, TypeOK
  <2> QED
    BY <1>9, <2>1 DEF WalCheckpoint, Step, TypeOK, restoreVars
<1>10. ASSUME NEW b \in Backups, VacuumInto(b) PROVE TypeOK'
  BY <1>0, <1>10 DEF VacuumInto, Step, TypeOK, fileVars, restoreVars
<1>11. ASSUME NEW b \in Backups, VacuumDone(b) PROVE TypeOK'
  <2>1. main' \in Content /\ wal' \in [base : Content, to : Commits] \cup {NoLog}
    BY <1>11, ClosingView DEF VacuumDone, CliCloses, TypeOK
  <2> QED
    BY <1>11, <2>1, EndsTypes DEF VacuumDone, TypeOK, restoreVars
<1>12. ASSUME NEW b \in Backups, BackupFails(b) PROVE TypeOK'
  BY <1>12, EndsTypes DEF BackupFails, TypeOK, fileVars, restoreVars
<1>13. CASE RestoreOpens
  BY <1>0, <1>13, Contents DEF RestoreOpens, TypeOK, fileVars, backupVars
<1>14. CASE RemoveDb
  <2>1. Detached \in Content \cup {Attached, Down}
    BY Contents DEF Detached, TypeOK
  <2> QED
    BY <1>0, <1>14, <2>1 DEF RemoveDb, RestoreStep, TypeOK, backupVars
<1>15. CASE RemoveDbFails \/ RemoveWalFails
  BY <1>15 DEF RemoveDbFails, RemoveWalFails, RestoreStep, TypeOK, backupVars
<1>16. CASE RemoveWal \/ CreateFile \/ CopyPart \/ CopyDone
  BY <1>0, <1>16 DEF RemoveWal, CreateFile, CopyPart, CopyDone, Overwrites, Ruins, RestoreStep, TypeOK,
                     backupVars
<1>17. CASE RestoreFails
  BY <1>17 DEF RestoreFails, TypeOK, fileVars, backupVars
<1>18. CASE UNCHANGED vars
  BY <1>18 DEF vars, fileVars, backupVars, restoreVars, TypeOK
<1> QED
  BY <1>1, <1>2, <1>3, <1>4, <1>5, <1>6, <1>7, <1>8, <1>9, <1>10, <1>11, <1>12, <1>13, <1>14,
     <1>15, <1>16, <1>17, <1>18 DEF Next

LEMMA TypeInit == ASSUME Init PROVE TypeOK
<1>1. commits \in 0..MaxCommits
  BY CommitsAssumption DEF Init
<1> QED
  BY <1>1 DEF Init, TypeOK, Content, Backups

\* Every variable keeps its type, and what the loop's backup may see is one
\* state of the database: the mutex keeps the server's own writes out
\* (backup.go:13).
THEOREM TypeCorrect == Spec => []TypeOK
<1>1. Init => TypeOK
  BY TypeInit
<1>2. TypeOK /\ [Next]_vars => TypeOK'
  BY TypeStep
<1> QED
  BY <1>1, <1>2, PTL DEF Spec

-----------------------------------------------------------------------------
(* What the next process finds *)

\* The restores' own steps on the server, which keeps what it has open.
LEMMA SoundStep == ASSUME TypeOK, Sound, [Next]_vars PROVE Sound'
<1> USE DEF Sound
<1>0. Empty # Attached /\ Broken # Attached /\ Down # Attached
  BY ContentAssumption
<1>1. CASE Start
  BY <1>1, OpensView DEF Start
<1>2. CASE Commit
  <2>1. commits' \in Commits
    BY <1>2, CommittedNext DEF Commit
  <2>2. CASE server = Attached
    BY <1>2, <2>1, <2>2, CommitView DEF Commit, Writes, ServerView
  <2>3. CASE server # Attached
    <3>1. server' # Attached
      BY <1>2, <2>1, <2>3, Contents DEF Commit, Writes, Content
    <3> QED
      BY <3>1
  <2> QED
    BY <2>2, <2>3
<1>3. CASE AutoCheckpoint
  BY <1>3, CheckpointView DEF AutoCheckpoint
<1>4. CASE Stop \/ Kill
  BY <1>0, <1>4 DEF Stop, Kill
<1>5. CASE CliCalls
  BY <1>5, OpensView DEF CliCalls
<1>6. ASSUME NEW b \in Backups, WalCheckpoint(b) PROVE Sound'
  <2>1. View' = View /\ server' = server
    BY <1>6, CheckpointView DEF WalCheckpoint, Step, View
  <2> QED
    BY <2>1
<1>7. ASSUME NEW b \in Backups, VacuumDone(b) PROVE Sound'
  <2>1. View' = View /\ server' = server
    BY <1>7, ClosingView DEF VacuumDone, CliCloses, View
  <2> QED
    BY <2>1
<1>8. CASE RemoveDb
  <2>1. server' # Attached
    BY <1>8, Contents DEF RemoveDb, Detached
  <2> QED
    BY <2>1
<1>9. CASE RemoveWal \/ CreateFile \/ CopyPart \/ CopyDone
  BY <1>0, <1>9 DEF RemoveWal, CreateFile, CopyPart, CopyDone, Overwrites, Ruins
<1>10. CASE UNCHANGED <<main, wal, server>>
  BY <1>10 DEF View
<1> QED
  BY <1>1, <1>2, <1>3, <1>4, <1>5, <1>6, <1>7, <1>8, <1>9, <1>10
     DEF Next, LoopCalls, RemoveOld, VacuumInto, BackupFails, Step, RestoreOpens, RemoveDbFails,
         RemoveWalFails, RestoreFails, vars, fileVars

LEMMA RestoreAccountStep ==
    ASSUME TypeOK, RestoreAccount, [Next]_vars
    PROVE  RestoreAccount'
<1> USE DEF RestoreAccount, Restoring, Running
<1>0. Broken # Attached /\ Empty # Attached /\ Down # Attached
  BY ContentAssumption
<1>1. CASE Start
  <2>1. CASE Restoring
    BY <1>1, <2>1, OpensView DEF Start
  <2>2. CASE ~Restoring
    BY <1>1, <2>2 DEF Start, Forgets
  <2> QED
    BY <2>1, <2>2
<1>2. CASE Commit
  <2>1. UNCHANGED <<restore, clean, backup>>
    BY <1>2 DEF Commit, Writes, restoreVars
  <2>2. CASE server = Attached
    BY <1>2, <2>1, <2>2 DEF Commit, Writes
  <2>3. CASE server # Attached
    <3>1. server' # Attached /\ UNCHANGED <<wal, owed>>
      BY <1>2, <2>3, CommittedNext, Contents DEF Commit, Writes, Content
    <3> QED
      BY <2>1, <3>1
  <2> QED
    BY <2>2, <2>3
<1>3. CASE AutoCheckpoint
  BY <1>3, CheckpointView DEF AutoCheckpoint, backupVars, restoreVars
<1>4. CASE Stop
  BY <1>0, <1>4 DEF Stop, ClosesLast, backupVars, restoreVars
<1>5. ASSUME NEW b \in Backups, NEW r, Ends(b, r), UNCHANGED <<restoreVars, owed>>,
             wal' = wal \/ wal' = NoLog, server' = server \/ server' = Down
      PROVE  RestoreAccount'
  <2>1. backup'["cli"] # "idle" => backup["cli"] # "idle"
    BY <1>5 DEF Ends, TypeOK, Backups
  <2> QED
    BY <1>0, <1>5, <2>1 DEF restoreVars
<1>6. CASE Kill
  <2>1. CASE Running("loop")
    BY <1>5, <1>6, <2>1 DEF Kill, fileVars, Backups
  <2>2. CASE ~Running("loop")
    BY <1>0, <1>6, <2>2 DEF Kill, fileVars, restoreVars
  <2> QED
    BY <2>1, <2>2
<1>7. CASE LoopCalls
  <2>1. backup'["cli"] = backup["cli"]
    BY <1>7 DEF LoopCalls, Calls, TypeOK, Backups
  <2> QED
    BY <1>7, <2>1 DEF LoopCalls, fileVars, restoreVars
<1>8. CASE CliCalls
  BY <1>8 DEF CliCalls, Forgets
<1>9. ASSUME NEW b \in Backups, RemoveOld(b) \/ WalCheckpoint(b) \/ VacuumInto(b) PROVE RestoreAccount'
  <2>1. UNCHANGED <<restoreVars, owed, server>> /\ (wal = NoLog => wal' = NoLog)
    BY <1>9, CheckpointView DEF RemoveOld, WalCheckpoint, VacuumInto, Step, fileVars
  <2>2. backup[b] # "idle" /\ backup' = [backup EXCEPT ![b] = backup'[b]]
    BY <1>9 DEF RemoveOld, WalCheckpoint, VacuumInto, Step, TypeOK
  <2>3. backup'["cli"] # "idle" => backup["cli"] # "idle"
    BY <2>2 DEF TypeOK, Backups
  <2> QED
    BY <2>1, <2>3 DEF restoreVars
<1>10. ASSUME NEW b \in Backups, VacuumDone(b) PROVE RestoreAccount'
  BY <1>5, <1>10 DEF VacuumDone, CliCloses, ClosesLast
<1>11. ASSUME NEW b \in Backups, BackupFails(b) PROVE RestoreAccount'
  BY <1>5, <1>11 DEF BackupFails, fileVars
<1>12. CASE RestoreOpens
  BY <1>12 DEF RestoreOpens, InUse, fileVars, backupVars
<1>13. CASE RemoveDb
  <2>1. server' # Attached
    BY <1>13, Contents DEF RemoveDb, Detached
  <2> QED
    BY <1>13, <2>1 DEF RemoveDb, RestoreStep, backupVars
<1>14. CASE RemoveDbFails \/ RemoveWalFails
  BY <1>14 DEF RemoveDbFails, RemoveWalFails, RestoreStep, backupVars
<1>15. CASE RemoveWal \/ CreateFile \/ CopyPart
  BY <1>0, <1>15 DEF RemoveWal, CreateFile, CopyPart, RestoreStep, Overwrites, Ruins, backupVars
<1>16. CASE CopyDone \/ RestoreFails
  BY <1>16 DEF CopyDone, RestoreFails, RestoreStep
<1>17. CASE UNCHANGED vars
  BY <1>17 DEF vars, fileVars, backupVars, restoreVars
<1> QED
  BY <1>1, <1>2, <1>3, <1>4, <1>6, <1>7, <1>8, <1>9, <1>10, <1>11, <1>12, <1>13, <1>14,
     <1>15, <1>16, <1>17 DEF Next

LEMMA IntactStep ==
    ASSUME TypeOK, RestoreAccount, Intact, [Next]_vars
    PROVE  Intact'
<1> USE DEF Intact
<1>1. CASE Start \/ CliCalls
  <2>1. Opens
    BY <1>1 DEF Start, CliCalls
  <2> QED
    BY <2>1, OpensView
<1>2. CASE Commit
  <2>1. CASE server = Attached
    BY <1>2, <2>1, CommittedNext, CommitView DEF Commit, Writes, ServerView
  <2>2. CASE server # Attached
    BY <1>2, <2>2 DEF Commit, Writes, View
  <2> QED
    BY <2>1, <2>2
<1>3. CASE AutoCheckpoint
  BY <1>3, CheckpointView DEF AutoCheckpoint
<1>4. CASE Stop
  BY <1>4, ClosingView DEF Stop, View
<1>5. ASSUME NEW b \in Backups, WalCheckpoint(b) PROVE Intact'
  BY <1>5, CheckpointView DEF WalCheckpoint, Step, View
<1>6. ASSUME NEW b \in Backups, VacuumDone(b) PROVE Intact'
  BY <1>6, ClosingView DEF VacuumDone, CliCloses, View
<1>7. CASE RestoreOpens
  BY <1>7 DEF RestoreOpens
<1>8. CASE RemoveDb \/ RemoveWal \/ CreateFile \/ CopyPart
  BY <1>8 DEF RemoveDb, RemoveWal, CreateFile, CopyPart, RestoreStep, RestoreAccount, Restoring
<1>9. CASE CopyDone
  <2>1. restore = "copying" /\ main' = source /\ wal' = wal /\ owed' = IF clean THEN source ELSE owed
    BY <1>9 DEF CopyDone, RestoreStep, Overwrites
  <2>2. CASE clean
    <3>1. wal' = NoLog
      BY <2>1, <2>2 DEF RestoreAccount, Restoring
    <3> QED
      BY <2>1, <2>2, <3>1 DEF View, ViewOf
  <2>3. CASE ~clean
    BY <2>1, <2>3 DEF RestoreAccount, Restoring
  <2> QED
    BY <2>2, <2>3
<1>10. CASE UNCHANGED <<main, wal, owed>>
  BY <1>10 DEF View
<1> QED
  BY <1>1, <1>2, <1>3, <1>4, <1>5, <1>6, <1>7, <1>8, <1>9, <1>10
     DEF Next, Kill, LoopCalls, RemoveOld, VacuumInto, BackupFails, Step, RemoveDbFails,
         RemoveWalFails, RestoreFails, vars, fileVars

-----------------------------------------------------------------------------
(* What a backup contains *)

\* A step that moves no backup and changes neither what the path holds nor
\* what the server finds.
LEMMA SameViews ==
    ASSUME BackupAccount, View' = View, UNCHANGED backupVars,
           Running("cli") => ~Restoring',
           Running("loop") => server' # Down /\ (ServerView' = ServerView \/ ServerView' \notin Commits)
    PROVE  BackupAccount'
BY DEF BackupAccount, Running, backupVars

\* A backup ends; the other one goes on.
LEMMA EndedBackup ==
    ASSUME TypeOK, BackupAccount, NEW b \in Backups, NEW r, Ends(b, r),
           View' = View, UNCHANGED restoreVars,
           b = "cli" => server' = server /\ ServerView' = ServerView
    PROVE  BackupAccount'
<1> USE DEF Backups, Running, Restoring, restoreVars
<1>1. /\ backup'[b] = "idle"
      /\ \A d \in Backups \ {b} : backup'[d] = backup[d] /\ seen'[d] = seen[d] /\ reads'[d] = reads[d]
  BY DEF Ends, TypeOK
<1>2. CASE b = "cli"
  BY <1>1, <1>2 DEF BackupAccount
<1>3. CASE b = "loop"
  BY <1>1, <1>3 DEF BackupAccount
<1> QED
  BY <1>2, <1>3

\* A backup goes on to its next step; both views stay what they are.
LEMMA MovedBackup ==
    ASSUME TypeOK, BackupAccount, NEW b \in Backups, NEW from, NEW to, from # "idle",
           Step(b, from, to), View' = View, ServerView' = ServerView,
           to = "writing" => Reads(b) \in Commits /\ reads' = [reads EXCEPT ![b] = Reads(b)],
           to # "writing" => reads' = reads
    PROVE  BackupAccount'
<1> USE DEF Backups, Running, Restoring, restoreVars
<1>1. /\ backup[b] # "idle" /\ backup'[b] = to /\ UNCHANGED <<seen, server, restoreVars>>
      /\ \A d \in Backups \ {b} : backup'[d] = backup[d] /\ reads'[d] = reads[d]
  BY DEF Step, TypeOK
<1>2. /\ Running("cli")' => ~Restoring' /\ View' \in seen'["cli"] /\ View' \in Commits
      /\ Running("loop")' => server' # Down /\ (ServerView' \in Commits => ServerView' \in seen'["loop"])
  BY <1>1 DEF BackupAccount
<1>3. to = "writing" => reads'[b] \in seen'[b] /\ reads'[b] \in Commits
  <2> SUFFICES ASSUME to = "writing" PROVE reads'[b] \in seen[b] /\ reads'[b] \in Commits
    BY <1>1
  <2>1. reads'[b] = Reads(b) /\ Reads(b) \in Commits
    BY DEF TypeOK
  <2>2. CASE b = "cli"
    BY <1>1, <2>1, <2>2 DEF Reads, BackupAccount
  <2>3. CASE b = "loop"
    BY <1>1, <2>1, <2>3 DEF Reads, BackupAccount
  <2> QED
    BY <2>2, <2>3
<1>4. \A d \in Backups : backup'[d] = "writing" => reads'[d] \in seen'[d] /\ reads'[d] \in Commits
  BY <1>1, <1>3 DEF BackupAccount
<1> QED
  BY <1>2, <1>4 DEF BackupAccount

\* Detaching the server leaves it what it had.
LEMMA DetachedView ==
    ASSUME TypeOK, Sound, server' = Detached
    PROVE  /\ server # Down => server' # Down /\ ServerView' = ServerView
           /\ server' # Attached
<1>1. CASE server = Attached
  <2>1. server' = View /\ View \in Commits
    BY <1>1 DEF Detached, Sound
  <2>2. server' # Attached /\ server' # Down
    BY <2>1, Contents DEF Content
  <2> QED
    BY <1>1, <2>1, <2>2 DEF ServerView
<1>2. CASE server # Attached
  BY <1>2 DEF Detached, ServerView
<1> QED
  BY <1>1, <1>2

LEMMA BackupAccountStep ==
    ASSUME TypeOK, Sound, BackupAccount, [Next]_vars
    PROVE  BackupAccount'
<1>0. /\ Broken # Attached /\ Empty # Attached /\ Down # Attached
      /\ Broken # Down /\ Empty # Down /\ Broken \notin Commits /\ Empty \notin Commits
  BY ContentAssumption, Contents
<1>1. CASE Start
  <2>1. UNCHANGED backupVars /\ ~Running("loop") /\ server' = Attached
    BY <1>1 DEF Start, BackupAccount
  <2>2. Running("cli") => View \in Commits /\ ~Restoring
    BY DEF BackupAccount
  <2>3. CASE Running("cli")
    <3>1. View' = View
      BY <1>1, <2>2, <2>3, OpensView DEF Start
    <3>2. ~Restoring'
      BY <1>1, <2>2, <2>3 DEF Start, Forgets, Restoring
    <3> QED
      BY <2>1, <3>1, <3>2, SameViews
  <2>4. CASE ~Running("cli")
    BY <2>1, <2>4 DEF BackupAccount, Running, backupVars, Backups
  <2> QED
    BY <2>3, <2>4
<1>2. CASE Commit
  <2>0. UNCHANGED <<backup, reads, restoreVars>> /\ ~Running("loop")
    BY <1>2 DEF Commit, Writes
  <2>1. CASE server = Attached
    <3>1. View' = commits' /\ commits' \in Commits
      BY <1>2, <2>1, CommittedNext, CommitView DEF Commit, Writes, ServerView
    <3>2. seen' = [b \in Backups |-> IF Running(b) /\ (b = "cli" \/ server = Attached)
                                     THEN seen[b] \cup {commits'} ELSE seen[b]]
      BY <1>2, <2>1 DEF Commit, Writes, Sees
    <3>3. Running("cli") => commits' \in seen'["cli"]
      BY <3>2 DEF Backups
    <3>4. \A b \in Backups : seen[b] \subseteq seen'[b]
      BY <3>2
    <3> QED
      BY <2>0, <3>1, <3>3, <3>4 DEF BackupAccount, Running, Restoring, restoreVars
  <2>2. CASE server # Attached
    <3>1. UNCHANGED backupVars /\ View' = View
      BY <1>2, <2>2 DEF Commit, Writes, backupVars, View
    <3>2. Running("cli") => ~Restoring'
      BY <2>0 DEF BackupAccount, Restoring, restoreVars
    <3> QED
      BY <2>0, <3>1, <3>2, SameViews
  <2> QED
    BY <2>1, <2>2
<1>3. CASE AutoCheckpoint \/ Stop \/ RemoveDbFails \/ RemoveWalFails \/ RestoreFails \/ UNCHANGED vars
  <2>1. View' = View
    BY <1>3, CheckpointView, ClosingView
       DEF AutoCheckpoint, Stop, RemoveDbFails, RemoveWalFails, RestoreFails, RestoreStep, vars,
           fileVars, View
  <2>2. UNCHANGED backupVars
    BY <1>3 DEF AutoCheckpoint, Stop, RemoveDbFails, RemoveWalFails, RestoreFails, RestoreStep, vars
  <2>3. Restoring' => Restoring
    BY <1>3 DEF AutoCheckpoint, Stop, RemoveDbFails, RemoveWalFails, RestoreFails, RestoreStep, vars,
                restoreVars, Restoring
  <2>4. Running("loop") => server' = server
    BY <1>3 DEF AutoCheckpoint, Stop, RemoveDbFails, RemoveWalFails, RestoreFails, RestoreStep, vars
  <2>5. Running("cli") => ~Restoring'
    BY <2>3 DEF BackupAccount
  <2>6. Running("loop") => server' # Down /\ ServerView' = ServerView
    BY <2>1, <2>4 DEF BackupAccount, ServerView
  <2> QED
    BY <2>1, <2>2, <2>5, <2>6, SameViews
<1>4. CASE Kill
  <2>1. View' = View /\ UNCHANGED restoreVars
    BY <1>4 DEF Kill, fileVars, View
  <2>2. CASE Running("loop")
    BY <1>4, <2>1, <2>2, EndedBackup DEF Kill, Backups
  <2>3. CASE ~Running("loop")
    <3>1. UNCHANGED <<backup, reads, seen>>
      BY <1>4, <2>3 DEF Kill
    <3> QED
      BY <2>1, <2>3, <3>1 DEF BackupAccount, Running, Restoring, restoreVars
  <2> QED
    BY <2>2, <2>3
<1>5. CASE LoopCalls
  <2>1. View' = View /\ ServerView' = ServerView /\ UNCHANGED <<server, restoreVars, reads>>
    BY <1>5 DEF LoopCalls, Calls, fileVars, View, ServerView
  <2>2. /\ backup'["loop"] = "remove" /\ backup'["cli"] = backup["cli"]
        /\ seen'["loop"] = {ServerView} /\ seen'["cli"] = seen["cli"]
        /\ server # Down
    BY <1>5 DEF LoopCalls, Calls, TypeOK, Backups
  <2> QED
    BY <2>1, <2>2 DEF BackupAccount, Running, Restoring, restoreVars, Backups
<1>6. CASE CliCalls
  <2>1. /\ backup'["cli"] = "remove" /\ backup'["loop"] = backup["loop"]
        /\ seen'["cli"] = {ViewOf(main', wal')} /\ seen'["loop"] = seen["loop"]
        /\ UNCHANGED <<server, reads>>
    BY <1>6 DEF CliCalls, Calls, TypeOK, Backups
  <2>2. View' \in Commits /\ View' \in seen'["cli"] /\ ~Restoring'
    <3>1. View' \in Commits
      BY <1>6, OpensView DEF CliCalls
    <3>2. View' = ViewOf(main', wal')
      BY DEF View
    <3> QED
      BY <1>6, <2>1, <3>1, <3>2 DEF CliCalls, Forgets, Restoring
  <2>3. ServerView' = ServerView
    <3>1. server = Attached => View' = View
      BY <1>6, OpensView DEF CliCalls, Sound
    <3> QED
      BY <2>1, <3>1 DEF ServerView
  <2> QED
    BY <2>1, <2>2, <2>3 DEF BackupAccount, Running, Backups
<1>7. ASSUME NEW b \in Backups, RemoveOld(b) PROVE BackupAccount'
  <2>1. View' = View /\ ServerView' = ServerView /\ UNCHANGED reads
    BY <1>7 DEF RemoveOld, Step, fileVars, View, ServerView
  <2> QED
    BY <1>7, <2>1, MovedBackup DEF RemoveOld
<1>8. ASSUME NEW b \in Backups, WalCheckpoint(b) PROVE BackupAccount'
  <2>1. View' = View
    BY <1>8, CheckpointView DEF WalCheckpoint, View
  <2>2. ServerView' = ServerView /\ UNCHANGED reads
    BY <1>8, <2>1 DEF WalCheckpoint, Step, ServerView
  <2> QED
    BY <1>8, <2>1, <2>2, MovedBackup DEF WalCheckpoint
<1>9. ASSUME NEW b \in Backups, VacuumInto(b) PROVE BackupAccount'
  <2>1. View' = View /\ ServerView' = ServerView
    BY <1>9 DEF VacuumInto, Step, fileVars, View, ServerView
  <2> QED
    BY <1>9, <2>1, MovedBackup DEF VacuumInto
<1>10. ASSUME NEW b \in Backups, VacuumDone(b) PROVE BackupAccount'
  <2>1. View' = View
    BY <1>10, ClosingView DEF VacuumDone, CliCloses, View
  <2>2. ServerView' = ServerView /\ server' = server
    BY <1>10, <2>1 DEF VacuumDone, ServerView
  <2> QED
    BY <1>10, <2>1, <2>2, EndedBackup DEF VacuumDone
<1>11. ASSUME NEW b \in Backups, BackupFails(b) PROVE BackupAccount'
  <2>1. View' = View /\ ServerView' = ServerView
    BY <1>11 DEF BackupFails, fileVars, View, ServerView
  <2> QED
    BY <1>11, <2>1, EndedBackup DEF BackupFails
<1>12. CASE RestoreOpens
  <2>1. View' = View /\ ServerView' = ServerView /\ UNCHANGED <<server, backupVars>> /\ ~Running("cli")
    BY <1>12 DEF RestoreOpens, fileVars, View, ServerView
  <2>2. Running("loop") => server' # Down
    BY <2>1 DEF BackupAccount
  <2> QED
    BY <2>1, <2>2, SameViews
<1>13. CASE RemoveDb \/ RemoveWal \/ CreateFile \/ CopyPart \/ CopyDone
  <2>1. Restoring /\ UNCHANGED backupVars
    BY <1>13 DEF RemoveDb, RemoveWal, CreateFile, CopyPart, CopyDone, RestoreStep, Restoring
  <2>2. ~Running("cli")
    BY <2>1 DEF BackupAccount
  <2>3. Running("loop") => server' # Down /\ (ServerView' = ServerView \/ ServerView' \notin Commits)
    <3> SUFFICES ASSUME server # Down
                 PROVE  server' # Down /\ (ServerView' = ServerView \/ ServerView' \notin Commits)
      BY DEF BackupAccount
    <3>1. CASE RemoveDb
      BY <3>1, DetachedView DEF RemoveDb
    <3>2. CASE RemoveWal \/ CreateFile \/ CopyPart \/ CopyDone
      BY <1>0, <3>2 DEF RemoveWal, CreateFile, CopyPart, CopyDone, Overwrites, Ruins, ServerView
    <3> QED
      BY <1>13, <3>1, <3>2
  <2> QED
    BY <2>1, <2>2, <2>3 DEF BackupAccount, Running, backupVars, Backups
<1> QED
  BY <1>1, <1>2, <1>3, <1>4, <1>5, <1>6, <1>7, <1>8, <1>9, <1>10, <1>11, <1>12, <1>13 DEF Next

-----------------------------------------------------------------------------
LEMMA InvInit == ASSUME Init PROVE Inv
<1>1. TypeOK
  BY TypeInit
<1>2. server = Down /\ Down # Attached /\ View = Empty
  BY ContentAssumption DEF Init, View, ViewOf
<1> QED
  BY <1>1, <1>2
     DEF Init, Inv, Sound, RestoreAccount, BackupAccount, Intact, Restoring, Running, Backups

LEMMA InvStep == ASSUME Inv, [Next]_vars PROVE Inv'
BY TypeStep, SoundStep, RestoreAccountStep, BackupAccountStep, IntactStep DEF Inv

\* The inductive invariant of the database, its backups and its restores.
THEOREM InvHolds == Spec => []Inv
<1>1. Init => Inv
  BY InvInit
<1>2. Inv /\ [Next]_vars => Inv'
  BY InvStep
<1> QED
  BY <1>1, <1>2, PTL DEF Spec

\* Whatever is killed, checkpointed, backed up or restored, in any order, a
\* process that opens the path finds what was committed there last, or the
\* backup that an undisturbed restore put there (backup.go:54-67).
THEOREM IntactHolds == Spec => []Intact
<1>1. Inv => Intact
  BY DEF Inv
<1> QED
  BY <1>1, InvHolds, PTL

\* Backup returns nil only with a copy of one commit, which the database held
\* at some time between the call and the return (backup.go:26-35).
LEMMA CommittedStep ==
    ASSUME Inv, [Next]_vars, NEW b \in Backups, result[b] # "nil", result'[b] = "nil"
    PROVE  copy'[b] \in seen[b] \cap Commits
<1>0. TypeOK /\ BackupAccount
  BY DEF Inv
<1>1. ASSUME NEW d \in Backups, VacuumDone(d) PROVE copy'[b] \in seen[b] \cap Commits
  <2>1. d = b
    BY <1>0, <1>1 DEF VacuumDone, Ends, TypeOK
  <2>2. copy'[b] = reads[b] /\ backup[b] = "writing"
    BY <1>0, <1>1, <2>1 DEF VacuumDone, TypeOK
  <2> QED
    BY <1>0, <2>2 DEF BackupAccount
<1>2. ASSUME NEW d \in Backups, NEW r, r # "nil", result' = [result EXCEPT ![d] = r]
      PROVE  FALSE
  BY <1>0, <1>2 DEF TypeOK
<1>3. ~(result' = result)
  OBVIOUS
<1>4. ~Kill /\ ~LoopCalls /\ ~CliCalls /\ \A d \in Backups : ~BackupFails(d)
  BY <1>2, <1>3 DEF Kill, LoopCalls, CliCalls, Calls, BackupFails, Ends, Backups
<1> QED
  BY <1>1, <1>3, <1>4
     DEF Next, Start, Commit, Writes, AutoCheckpoint, Stop, RemoveOld, WalCheckpoint, VacuumInto,
         Step, RestoreOpens, RemoveDb, RemoveDbFails, RemoveWal, RemoveWalFails, CreateFile,
         CopyPart, CopyDone, RestoreFails, RestoreStep, vars, backupVars

THEOREM BackupCommittedHolds == Spec => BackupCommitted
<1>1. Inv /\ [Next]_vars
        => [\A b \in Backups : result[b] # "nil" /\ result'[b] = "nil" =>
               copy'[b] \in seen[b] \cap Commits]_vars
  BY CommittedStep
<1> QED
  BY <1>1, InvHolds, PTL DEF Spec, BackupCommitted
=============================================================================
