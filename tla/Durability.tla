------------------------------ MODULE Durability -----------------------------
(***************************************************************************)
(* Server.js, aof.js and snapshot.js: what is on disk, what is on its way  *)
(* there, and what a new process makes of it.                              *)
(*                                                                         *)
(* A write is applied and answered at once; its record joins a chain of    *)
(* promises that append to the AOF one after the other.  SAVE and BGSAVE   *)
(* copy the store and write the copy over the old snapshot.  A process     *)
(* that starts loads the snapshot if there is one it can read, and then    *)
(* replays the whole AOF.                                                  *)
(***************************************************************************)
EXTENDS Integers, Sequences, FiniteSets, SequencesExt

CONSTANTS Db,         \* the logical databases
          Settings,   \* the settings to consider
          Saver,      \* bound: saves under way at one time
          MaxCrashes  \* bound

\* The write commands; PEXPIRE with a count of zero, which deletes.
Op == {"INCR", "DEL", "PEXPIRE", "XADD"}

\* A setting: which files the server keeps; whether a crash may cut an append short
\* ("torn") and what is written to a file may be refused, all of it or its end
\* ("diskfull"); the commands clients use and the databases they select; and, as a bound,
\* the number of their writes.
Setting == [features : SUBSET {"aof", "snapshot"}, faults : SUBSET {"torn", "diskfull"},
            op : SUBSET Op, db : SUBSET Db, writes : Nat]

ASSUME ConstantsAssumption ==
  /\ Db \subseteq Nat /\ 0 \in Db /\ Settings \subseteq Setting /\ MaxCrashes \in Nat

VARIABLES setting,   \* the setting of this behaviour
          up,        \* there is a process
          store,     \* the history of the store: the commands whose effect it has
          pending,   \* records of the promise chain _aofWrite, oldest first
          aof,       \* the file: records, and Torn for one cut short
          snapshot,  \* the file
          savers,    \* saves under way
          bgsave,    \* _bgsaveInProgress
          written,   \* writes so far
          crashes

vars == <<setting, up, store, pending, aof, snapshot, savers, bgsave, written, crashes>>
saveVars == <<snapshot, savers, bgsave>>

Torn       == [op |-> "torn"]
NoFile     == [kind |-> "none"]
Unreadable == [kind |-> "partial"]
\* A text that can be parsed; `alone' when no other save was writing meanwhile.
File(s, alone) == [kind |-> "json", store |-> s, alone |-> alone]
NotSaving  == [state |-> "idle"]

\* Those of the model's commands that are in _writeCommands.
Logged == {"INCR", "DEL", "XADD"}

\* serializeEntry throws on a stream.
CanSerialize(s) == \A i \in DOMAIN s : s[i].op # "XADD"
------------------------------------------------------------------------------
(* Writing *)

\* A write command from a client that has selected db, alone or in a transaction.
Write(op, db) ==
  /\ up /\ written < setting.writes
  /\ written' = written + 1
  /\ LET r == [op |-> op, db |-> db, n |-> written + 1]
     IN  /\ store' = Append(store, r)
         /\ pending' = IF "aof" \in setting.features /\ op \in Logged
                       THEN Append(pending, r) ELSE pending
  /\ UNCHANGED <<setting, up, aof, saveVars, crashes>>

\* Bug: every write starts its appendFile at once, and any of them may end first.
AppendUnchained ==
  /\ up /\ pending # <<>>
  /\ \E i \in DOMAIN pending :
       aof' = Append(aof, pending[i]) /\ pending' = RemoveAt(pending, i)
  /\ UNCHANGED <<setting, up, store, saveVars, written, crashes>>

\* The promise at the head of the chain: appendFile.
AppendCommand ==
  /\ up /\ pending # <<>>
  /\ aof' = Append(aof, Head(pending)) /\ pending' = Tail(pending)
  /\ UNCHANGED <<setting, up, store, saveVars, written, crashes>>

\* A rejection is swallowed and the chain goes on; the beginning of the record may have
\* been written.
AppendFails ==
  /\ "diskfull" \in setting.faults /\ up /\ pending # <<>>
  /\ pending' = Tail(pending) /\ aof' \in {aof, Append(aof, Torn)}
  /\ UNCHANGED <<setting, up, store, saveVars, written, crashes>>
------------------------------------------------------------------------------
(* Snapshots *)

\* SAVE copies the store when it is served; nothing keeps two from running.  With
\* something in it that cannot be copied SAVE answers an error and that is all.
Save(s) ==
  /\ "snapshot" \in setting.features /\ up /\ savers[s] = NotSaving /\ CanSerialize(store)
  /\ savers' = [savers EXCEPT ![s] = [state |-> "copied", bg |-> FALSE, store |-> store]]
  /\ UNCHANGED <<setting, up, store, pending, aof, snapshot, bgsave, written, crashes>>

\* Bug: BGSAVE does not look at the flag.
BgSaveAgain(s) ==
  /\ "snapshot" \in setting.features /\ up /\ savers[s] = NotSaving
  /\ bgsave' = TRUE
  /\ savers' = [savers EXCEPT ![s] = [state |-> "scheduled"]]
  /\ UNCHANGED <<setting, up, store, pending, aof, snapshot, written, crashes>>

\* BGSAVE is refused while another is under way; its copy is made by a timer.
BgSave(s) ==
  /\ "snapshot" \in setting.features /\ up /\ savers[s] = NotSaving /\ ~bgsave
  /\ bgsave' = TRUE
  /\ savers' = [savers EXCEPT ![s] = [state |-> "scheduled"]]
  /\ UNCHANGED <<setting, up, store, pending, aof, snapshot, written, crashes>>

\* Bug: the flag is cleared by a save that succeeds only.
BgSaveTimerThen(s) ==
  /\ up /\ savers[s].state = "scheduled"
  /\ savers' = [savers EXCEPT ![s] =
       IF CanSerialize(store) THEN [state |-> "copied", bg |-> TRUE, store |-> store]
       ELSE NotSaving]
  /\ UNCHANGED <<setting, up, store, pending, aof, snapshot, bgsave, written, crashes>>

\* A copy that throws ends it: the error is dropped, the flag is cleared.
BgSaveTimer(s) ==
  /\ up /\ savers[s].state = "scheduled"
  /\ IF CanSerialize(store)
     THEN /\ savers' = [savers EXCEPT ![s] =
               [state |-> "copied", bg |-> TRUE, store |-> store]]
          /\ UNCHANGED bgsave
     ELSE savers' = [savers EXCEPT ![s] = NotSaving] /\ bgsave' = FALSE
  /\ UNCHANGED <<setting, up, store, pending, aof, snapshot, written, crashes>>

Writing == {s \in Saver : savers[s].state = "writing"}

\* What a history holds of the databases D.
Keep(part, r) == IF r.db \in part.of THEN [part EXCEPT !.kept = Append(@, r)] ELSE part
OfDbs(h, D)   == FoldLeft(Keep, [of |-> D, kept |-> <<>>], h).kept

\* Bug: the databases after the first are only copied now, from the store as it is.
OpenFileLate(s) ==
  /\ up /\ savers[s].state = "copied"
  /\ snapshot' = Unreadable
  /\ savers' = [savers EXCEPT ![s] =
       [state |-> "writing", bg |-> @.bg, others |-> {},
        store |-> OfDbs(@.store, {0}) \o OfDbs(store, Db \ {0})]]
  /\ UNCHANGED <<setting, up, store, pending, aof, bgsave, written, crashes>>

\* writeFile opens the file, which empties it.  Two saves that are writing at one time
\* write at the same places of the one file, piece by piece.
OpenFile(s) ==
  /\ up /\ savers[s].state = "copied"
  /\ snapshot' = Unreadable
  /\ savers' = [x \in Saver |->
       CASE x = s -> [state |-> "writing", bg |-> savers[s].bg, store |-> savers[s].store,
                      others |-> {savers[y].store : y \in Writing}]
         [] x # s /\ x \in Writing -> [savers[x] EXCEPT !.others = @ \cup {savers[s].store}]
         [] OTHER -> savers[x]]
  /\ UNCHANGED <<setting, up, store, pending, aof, bgsave, written, crashes>>

\* When pieces of another text are left in the file it may be no JSON, or JSON that has
\* some keys as one copy had them and some as the other: here, those of some databases.
Mixed(s, other, D) == OfDbs(s, D) \o OfDbs(other, Db \ D)
Mixtures(s, others) ==
  UNION {{File(Mixed(s, other, D), FALSE) : D \in SUBSET Db} : other \in others}

\* The text is written, over what others have written of theirs or under it.
FinishSave(s) ==
  /\ up /\ savers[s].state = "writing"
  /\ LET own == savers[s].store
         others == savers[s].others
     IN  \/ snapshot' = File(own, others = {})
         \/ others # {} /\ snapshot' \in {Unreadable} \cup Mixtures(own, others)
  /\ savers' = [savers EXCEPT ![s] = NotSaving]
  /\ bgsave' = (bgsave /\ ~savers[s].bg)
  /\ UNCHANGED <<setting, up, store, pending, aof, written, crashes>>

\* writeFile fails: the file cannot be opened and stays, or it cannot be written to its end.
SaveFails(s) ==
  /\ "diskfull" \in setting.faults /\ up /\ savers[s].state \in {"copied", "writing"}
  /\ savers' = [savers EXCEPT ![s] = NotSaving]
  /\ bgsave' = (bgsave /\ ~savers[s].bg)
  /\ UNCHANGED <<setting, up, store, pending, aof, snapshot, written, crashes>>
------------------------------------------------------------------------------
(* Crash and restart *)

Crash ==
  /\ up /\ crashes < MaxCrashes
  /\ crashes' = crashes + 1 /\ up' = FALSE
  /\ pending' = <<>> /\ savers' = [s \in Saver |-> NotSaving] /\ bgsave' = FALSE
  /\ \/ UNCHANGED aof
     \/ "torn" \in setting.faults /\ pending # <<>> /\ aof' = Append(aof, Torn)
  /\ UNCHANGED <<setting, store, snapshot, written>>

\* What the parser makes of a record cut short and of those behind it, which it takes for
\* its rest: it may run it with the bytes of others for its own, and it loses none of the
\* records behind it, or some, or all.
Parse(p, r) ==
  CASE r = Torn               -> [p EXCEPT !.left = p.lost, !.records = @ \o p.forged]
    [] r # Torn /\ p.left > 0 -> [p EXCEPT !.left = @ - 1]
    [] r # Torn /\ p.left = 0 -> [p EXCEPT !.records = Append(@, r)]
Forged == {<<>>} \cup {<<[op |-> op, db |-> 0, n |-> 0]>> : op \in setting.op \cap Logged}

Beginning(lost, forged) == [lost |-> lost, forged |-> forged, left |-> 0, records |-> <<>>]

\* Bug: the last record of the file is never handed out.
ReadableButLast(a, lost, forged) == SubSeq(a, 1, Len(a) - 1)

\* The records the parser makes out of the file.
Readable(a, lost, forged) == FoldLeft(Parse, Beginning(lost, forged), a).records

\* Bug: databases are numbered from one.
InNextDb(s) == [i \in DOMAIN s |-> [s[i] EXCEPT !.db = Cardinality(Db)]]

\* Replay runs every record with database 0.
InDb0(s) == [i \in DOMAIN s |-> [s[i] EXCEPT !.db = 0]]

\* start(): a snapshot that cannot be parsed is ignored; the AOF is replayed on top
\* of whatever was loaded.
Start ==
  /\ ~up /\ up' = TRUE
  /\ \E lost \in 0 .. Len(aof), forged \in Forged :
       LET loaded == IF snapshot.kind = "json" THEN snapshot.store ELSE <<>>
       IN  store' = (IF "snapshot" \in setting.features THEN loaded ELSE <<>>)
                    \o (IF "aof" \in setting.features THEN InDb0(Readable(aof, lost, forged)) ELSE <<>>)
  /\ UNCHANGED <<setting, pending, aof, saveVars, written, crashes>>
------------------------------------------------------------------------------
Init ==
  /\ setting \in Settings
  /\ up = TRUE /\ store = <<>> /\ pending = <<>> /\ aof = <<>>
  /\ snapshot = NoFile /\ savers = [s \in Saver |-> NotSaving] /\ bgsave = FALSE
  /\ written = 0 /\ crashes = 0

Next ==
  \/ \E op \in setting.op, db \in setting.db : Write(op, db)
  \/ AppendCommand \/ AppendFails
  \/ \E s \in Saver : Save(s) \/ BgSave(s) \/ BgSaveTimer(s) \/ OpenFile(s) \/ FinishSave(s) \/ SaveFails(s)
  \/ Crash \/ Start

Spec == Init /\ [][Next]_vars

\* Timers fire and file operations end while the process lives.
FairSpec ==
  /\ Spec
  /\ \A s \in Saver : WF_vars(BgSaveTimer(s)) /\ WF_vars(OpenFile(s)) /\ WF_vars(FinishSave(s))
------------------------------------------------------------------------------
(* Properties *)

Record   == [op : Op, db : Db, n : Nat]
History  == Seq(Record)
FileType == {NoFile, Unreadable} \cup [kind : {"json"}, store : History, alone : BOOLEAN]
SaverType == {NotSaving} \cup [state : {"scheduled"}]
         \cup [state : {"copied"}, bg : BOOLEAN, store : History]
         \cup [state : {"writing"}, bg : BOOLEAN, store : History, others : SUBSET History]

\* The types of the variables.
TypeOK ==
  /\ setting \in Settings
  /\ up \in BOOLEAN /\ store \in History /\ pending \in History
  /\ aof \in Seq(Record \cup {Torn})
  /\ snapshot \in FileType /\ savers \in [Saver -> SaverType]
  /\ bgsave \in BOOLEAN /\ written \in Nat /\ crashes \in Nat

InOrder(l) == \A i, j \in DOMAIN l : i < j /\ l[i] # Torn /\ l[j] # Torn => l[i].n < l[j].n

\* The file and what waits for it are in the order the writes were applied in,
\* although each append is an asynchronous call of its own.
LogInOrder == InOrder(aof \o pending)

\* While the server runs, the file and what waits for it are the history of the
\* store: nothing is missing, nothing is twice.
LogIsHistory ==
  IF up THEN aof \o pending = store ELSE pending = <<>> /\ IsPrefix(aof, store)

\* The setting in which that is so: the AOF alone, commands that are logged, database 0,
\* no faults.
LogAlone ==
  /\ setting.features = {"aof"} /\ setting.faults = {}
  /\ setting.op \subseteq Logged /\ setting.db \subseteq {0}
LogIsHistoryAlone == LogAlone => LogIsHistory

\* The flag of BGSAVE is set exactly while one is under way, and never two are.
IsBackground(s) == savers[s].state = "scheduled" \/ (savers[s] # NotSaving /\ savers[s].bg)
BgSaveFlagIsExact ==
  LET B == {s \in Saver : IsBackground(s)}
  IN  Cardinality(B) <= 1 /\ (bgsave <=> B # {})

\* No background save keeps the next ones out for ever, one that fails included.
BgSaveEnds == bgsave ~> ~bgsave

\* A snapshot that can be read and that no other save overlapped is one moment of the
\* store, however many turns pass between the copy, the opening of the file and its last
\* byte, and whatever was written, failed, crashed or restarted meanwhile: it skips no
\* write and holds none that came after another it lacks.
SnapshotIsOneMoment == snapshot.kind = "json" /\ snapshot.alone => IsPrefix(snapshot.store, store)

\* What a history leaves in the store: a counter in each database.
Effect(st, r) ==
  [st EXCEPT ![r.db] = CASE r.op = "INCR" -> @ + 1 [] r.op = "XADD" -> @ [] OTHER -> 0]
Result(h) == FoldLeft(Effect, [d \in Db |-> 0], h)

\* A process that starts finds the store as it was after some write, and all that
\* came before it: not a mixture, nothing twice, nothing undone.
RecoversAPast == Start => \E n \in 0 .. Len(store) : Result(store') = Result(SubSeq(store, 1, n))
RecoversSomePast == [][RecoversAPast]_vars

Numbers(s) == {s[i].n : i \in {j \in DOMAIN s : s[j] # Torn}}

\* USER_GUIDE.md:399-401, of the AOF: "Automatically logs all write operations",
\* "Replayed on server restart": what reached the file is in the store again.
KeepsNumbers == Start => Numbers(aof) \subseteq Numbers(store')

\* With the AOF alone, a process that starts finds the store as it was after some write,
\* and in it everything that had reached the file.
RecoveryIsExactAlone == [][LogAlone => RecoversAPast /\ KeepsNumbers]_vars
==============================================================================
