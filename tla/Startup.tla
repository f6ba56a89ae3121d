------------------------------ MODULE Startup ------------------------------
(***************************************************************************)
(* From the start of Item Assistant to its end: the settings file, the     *)
(* folder of the game, the upgrade of the user's database, the making of   *)
(* the local item database under a progress dialog that runs in a thread   *)
(* of its own.  The program may be ended at any step; the files stay.      *)
(***************************************************************************)
EXTENDS SchemaUpgrade, GameData

CONSTANTS CommitEvery,     \* records between commits, 10000 in the code
          CancelEvery,     \* records between looks at the cancel flag, 1000
          Disks,           \* what may be on the disk when the program is first started
          MaxStamp,        \* bound on the patches of the game
          MaxLaunches      \* bound on the starts

ASSUME StartupAssumption == /\ CommitEvery \in Nat \ {0} /\ CancelEvery \in Nat \ {0}
                            /\ MaxStamp \in Nat /\ MaxLaunches \in Nat

NoFile == [version |-> 0, absent |-> TRUE]

\* A whole item database of the archive a.
WholeFor(db, a) ==
  /\ Expected(a) \subseteq db.rows
  /\ db.details = db.rows
  /\ db.derived = db.rows \intersect a.named
  /\ db.identify = Identifiable

\* Its times: it was begun before it was finished, and neither is after the last
\* patch.
TimelyFor(db, time) ==
  /\ db.since \in Nat /\ db.stamp \in Nat
  /\ db.since <= db.stamp
  /\ time # 0 => db.stamp <= time

\* What an earlier start has left: an archive as the game makes it, and an item
\* database of it, of this version, only when it is whole.
Usable(db, a, time) ==
  db # NoFile /\ db.version = CURRENT_AODB_VERSION => WholeFor(db, a) /\ TimelyFor(db, time)

\* The database of the user: none yet, an empty one whose creation was
\* interrupted, one of a version the scripts know, or one of a later program.
KnownUser(db) ==
  \/ db = NoFile
  \/ db = EmptyDb
  \/ \E v \in 0 .. CURRENT_DB_VERSION : OfVersion(db, v)
  \/ db.version \in Nat /\ db.version > CURRENT_DB_VERSION

ASSUME DisksAssumption ==
  \A d \in Disks : /\ WellFormed(d.archive) /\ d.orig \in Nat
                   /\ Usable(d.items, d.archive, d.orig)
                   /\ KnownUser(d.user)

VARIABLES
  user,      \* ItemAssistant.db
  items,     \* aoitems.db
  tmp,       \* tmp_aoitems.db, what is committed of it
  conf,      \* AOPath in ItemAssistant.conf: "", "good", "bad", or "long", a line of 255 characters or more
  archive,   \* the archive of the game
  orig,      \* time of the last patch of the archive, 0 when it cannot be found
  app,       \* the main thread: its place, settings, cached folders
  work,      \* the extraction in progress
  dlg,       \* the progress dialog
  seen       \* what the properties refer to: first content, interrupted record of the version, ...

vars == <<user, items, tmp, conf, archive, orig, app, work, dlg, seen>>

\* Nothing is left of the process; WinMain ends the same way after a start that
\* failed: the settings are not written.
Off == [pc |-> "off", set |-> "", folder |-> "", prefs |-> "", up |-> 0, kept |-> FALSE]
NoWork == [db |-> NoFile, queue |-> {}, count |-> 0, open |-> 0, since |-> 0, done |-> FALSE]
NoDlg == [state |-> "none", running |-> FALSE, msgs |-> {}, canceled |-> FALSE]

Init ==
  /\ \E d \in Disks :
       /\ user = d.user /\ items = d.items /\ tmp = d.tmp /\ conf = d.conf
       /\ archive = d.archive /\ orig = d.orig
       /\ seen = [user |-> d.user, viewLost |-> FALSE, patched |-> FALSE, launches |-> 0]
  /\ app = Off /\ work = NoWork /\ dlg = NoDlg

Files == <<user, items, tmp, conf, archive, orig>>
Goto(place) == app' = [app EXCEPT !.pc = place]
Ends == app' = Off
At(place) == app.pc = place
-----------------------------------------------------------------------------
\* SettingsManager::readSettings and the start of Application::init.  A line
\* that does not fit the buffer sets failbit: getline reads no further, the
\* end of the file is never reached.
Launch ==
  /\ At("off") /\ seen.launches < MaxLaunches
  /\ app' = [Off EXCEPT !.pc = IF conf = "long" THEN "stuck" ELSE "folder", !.set = conf]
  /\ seen' = [seen EXCEPT !.launches = @ + 1, !.patched = FALSE]
  /\ UNCHANGED <<Files, work, dlg>>

\* AOManager::getAOFolder: the cached folder, else the one of the settings
\* when the game is there, else the user's choice, kept in the settings.
Answers == {"", "good", "bad"}
AOFolder(answer) ==
  IF app.folder # "" THEN app
  ELSE IF app.set = "good" THEN [app EXCEPT !.folder = "good"]
  ELSE IF answer = "good" THEN [app EXCEPT !.folder = "good", !.set = "good"]
  ELSE app

\* Application::init logs the folder, which asks for it.
LogFolder ==
  /\ At("folder")
  /\ \E answer \in Answers : app' = [AOFolder(answer) EXCEPT !.pc = "prefs"]
  /\ UNCHANGED <<Files, work, dlg, seen>>

\* AOManager::getAOPrefsFolder: made from the folder of the game and kept,
\* from an empty one too.
LogPrefsFolder ==
  /\ At("prefs")
  /\ \E answer \in Answers :
       LET a == AOFolder(answer)
       IN app' = [a EXCEPT !.pc = "db", !.prefs = IF a.folder = "" THEN "wrong" ELSE "right"]
  /\ UNCHANGED <<Files, work, dlg, seen>>

\* DBManager::init up to createDBScheme: no folder, no start; sqlite makes
\* the file when there is none.
OpenDb ==
  /\ At("db")
  /\ \E answer \in Answers :
       LET a == AOFolder(answer) IN
       IF a.folder = "" THEN Ends /\ UNCHANGED user
       ELSE /\ app' = [a EXCEPT !.pc = IF user = NoFile THEN "create" ELSE "version"]
            /\ user' = IF user = NoFile THEN EmptyDb ELSE user
  /\ UNCHANGED <<items, tmp, conf, archive, orig, work, dlg, seen>>

CreateDb ==
  /\ At("create")
  /\ user' = Transaction(user, CreateScheme)
  /\ Goto("version")
  /\ UNCHANGED <<items, tmp, conf, archive, orig, work, dlg, seen>>

\* The upgrade is asked for; a newer database ends the start.
CheckVersion ==
  /\ At("version")
  /\ LET v == getDBVersion(user) IN
     \/ v = CURRENT_DB_VERSION /\ Goto("sync")
     \/ v < CURRENT_DB_VERSION /\ app' = [app EXCEPT !.pc = "upgrade", !.up = v + 1]
     \/ v # CURRENT_DB_VERSION /\ Ends
  /\ UNCHANGED <<Files, work, dlg, seen>>

UpgradeStep ==
  /\ At("upgrade")
  /\ user' = Transaction(user, Upgrade[app.up])
  /\ app' = [app EXCEPT !.up = @ + 1, !.pc = IF app.up = Len(Upgrade) THEN "sync" ELSE "upgrade"]
  /\ UNCHANGED <<items, tmp, conf, archive, orig, work, dlg, seen>>
-----------------------------------------------------------------------------
\* DBManager::syncLocalItemsDB, its questions.  Without an original the local
\* database will do, whatever its version.
\* Mutant: any local database of the right version is taken.
UpToDateAtAnyAge == items # NoFile /\ items.version = CURRENT_AODB_VERSION

UpToDate == items # NoFile /\ items.version = CURRENT_AODB_VERSION /\ orig <= items.stamp
Outdated == items # NoFile /\ items.version = CURRENT_AODB_VERSION /\ orig > items.stamp

Sync ==
  /\ At("sync")
  /\ \/ orig = 0 /\ items = NoFile /\ Ends
     \/ orig = 0 /\ items # NoFile /\ Goto("attach")
     \/ orig # 0 /\ UpToDate /\ Goto("attach")
     \/ orig # 0 /\ Outdated /\ \/ Ends                                             \* CANCEL: exit(0)
                                \/ app' = [app EXCEPT !.pc = "attach", !.kept = TRUE]   \* NO
                                \/ Goto("extract")                                      \* YES
     \/ orig # 0 /\ ~UpToDate /\ ~Outdated /\ Goto("extract")
  /\ UNCHANGED <<Files, work, dlg, seen>>

\* The old temporary file goes, index and data files are opened (a missing one
\* throws), the writer makes the tables, the dialog thread is started.
BeginExtraction ==
  /\ At("extract")
  /\ IF 0 \in ToSet(archive.files)
     THEN tmp' = NoFile /\ Ends /\ UNCHANGED <<work, dlg>>
     ELSE /\ tmp' = OpenWriter(orig)
          /\ work' = [NoWork EXCEPT !.db = tmp', !.queue = GetOffsets(archive, "item"), !.since = orig]
          /\ dlg' = [NoDlg EXCEPT !.state = "starting", !.running = TRUE]
          /\ Goto("barrier")
  /\ UNCHANGED <<user, items, conf, archive, orig, seen>>

\* CProgressDialog: the constructor and the thread meet at a barrier.
Barrier ==
  /\ At("barrier") /\ dlg.state = "ready"
  /\ dlg' = [dlg EXCEPT !.state = "loop"]
  /\ Goto("items")
  /\ UNCHANGED <<Files, work, seen>>

\* Texts and progress are sent to the dialog: its thread answers inside
\* GetMessage, and has to paint.
Shown == dlg.state = "waiting" /\ dlg' = [dlg EXCEPT !.msgs = @ \union {"paint"}]

Extracting == app.pc \in {"items", "nanos"}

\* One turn of a loop: a record without item is passed over, the look at the
\* cancel flag and the commit with it.
ExtractRecord ==
  /\ Extracting /\ work.queue # {}
  /\ LET offset == Min(work.queue)
         got == GetItem(archive, work.open, offset)
         count == work.count + 1
         db == IF got.result = "item" THEN WriteItem(work.db, archive.records[offset]) ELSE work.db
         look == got.result = "item" /\ count % CancelEvery = 0
         next == [work EXCEPT !.db = db, !.queue = @ \ {offset}, !.count = count, !.open = got.file]
     IN /\ work' = next
        /\ IF got.result = "throws" \/ (look /\ dlg.canceled)
           THEN Goto("end") /\ UNCHANGED <<tmp, dlg>>
           ELSE /\ IF look THEN Shown ELSE UNCHANGED dlg
                /\ tmp' = IF got.result = "item" /\ count % CommitEvery = 0 THEN db ELSE tmp
                /\ UNCHANGED app
  /\ UNCHANGED <<user, items, conf, archive, orig, seen>>

\* Mutant: what has been written since the last commit is not committed.
EndOfPhaseNoCommit ==
  /\ Extracting /\ work.queue = {}
  /\ Shown
  /\ IF dlg.canceled THEN Goto("end") /\ UNCHANGED work
     ELSE IF At("items")
     THEN /\ work' = [work EXCEPT !.queue = GetOffsets(archive, "nano"), !.count = 0]
          /\ Goto("nanos")
     ELSE Goto("post") /\ UNCHANGED work
  /\ UNCHANGED Files /\ UNCHANGED seen

\* After the last item the nanos, after the last nano PostProcessData.
EndOfPhase ==
  /\ Extracting /\ work.queue = {}
  /\ Shown
  /\ tmp' = work.db
  /\ IF dlg.canceled THEN Goto("end") /\ UNCHANGED work
     ELSE IF At("items")
     THEN /\ work' = [work EXCEPT !.queue = GetOffsets(archive, "nano"), !.count = 0]
          /\ Goto("nanos")
     ELSE Goto("post") /\ UNCHANGED work
  /\ UNCHANGED <<user, items, conf, archive, orig, seen>>

PostProcess ==
  /\ At("post")
  /\ tmp' = [PostProcessData(tmp, archive.named) EXCEPT !.stamp = orig]
  /\ work' = [work EXCEPT !.done = TRUE]
  /\ Goto("end")
  /\ UNCHANGED <<user, items, conf, archive, orig, dlg, seen>>

\* Mutant: the thread is waited for without being told.
EndDialogUntold ==
  /\ At("end")
  /\ Goto("join")
  /\ UNCHANGED <<Files, work, dlg, seen>>

\* ~CProgressDialog: Thread::End clears the flag, then waits without limit.
EndDialog ==
  /\ At("end")
  /\ dlg' = [dlg EXCEPT !.running = FALSE]
  /\ Goto("join")
  /\ UNCHANGED <<Files, work, seen>>

JoinDialog ==
  /\ At("join") /\ dlg.state = "gone"
  /\ dlg' = NoDlg /\ work' = NoWork
  /\ IF work.done THEN Goto("remove") ELSE Ends
  /\ UNCHANGED <<Files, seen>>

RemoveOld ==
  /\ At("remove")
  /\ items' = NoFile
  /\ Goto("rename")
  /\ UNCHANGED <<user, tmp, conf, archive, orig, work, dlg, seen>>

RenameNew ==
  /\ At("rename")
  /\ items' = tmp /\ tmp' = NoFile
  /\ Goto("attach")
  /\ UNCHANGED <<user, conf, archive, orig, work, dlg, seen>>

Attach ==
  /\ At("attach")
  /\ Goto("running")
  /\ UNCHANGED <<Files, work, dlg, seen>>
-----------------------------------------------------------------------------
\* The dialog thread, CProgressDialog::ThreadProc.
DialogCreate ==
  /\ dlg.state = "starting"
  /\ dlg' = [dlg EXCEPT !.state = "ready"]
  /\ UNCHANGED <<Files, app, work, seen>>

DialogLoop ==
  /\ dlg.state = "loop"
  /\ dlg' = [dlg EXCEPT !.state = IF dlg.running THEN "waiting" ELSE "gone"]
  /\ UNCHANGED <<Files, app, work, seen>>

\* GetMessage returns for a posted message only; OnCloseCmd is one of them.
DialogMessage ==
  /\ dlg.state = "waiting"
  /\ \E m \in dlg.msgs :
       dlg' = [dlg EXCEPT !.msgs = @ \ {m}, !.state = "loop", !.canceled = @ \/ m = "cancel"]
  /\ UNCHANGED <<Files, app, work, seen>>

\* The user moves the mouse over the dialog, or presses Cancel while the
\* button is enabled.
Touch ==
  /\ dlg.state \in {"loop", "waiting"}
  /\ dlg' = [dlg EXCEPT !.msgs = @ \union {"touch"}]
  /\ dlg' # dlg
  /\ UNCHANGED <<Files, app, work, seen>>
PressCancel ==
  /\ dlg.state \in {"loop", "waiting"} /\ ~dlg.canceled
  /\ dlg' = [dlg EXCEPT !.msgs = @ \union {"cancel"}]
  /\ dlg' # dlg
  /\ UNCHANGED <<Files, app, work, seen>>
-----------------------------------------------------------------------------
\* Application::destroy writes the settings over the old file, which is empty
\* until they are written.
Close ==
  /\ At("running")
  /\ conf' = ""
  /\ Goto("saving")
  /\ UNCHANGED <<user, items, tmp, archive, orig, work, dlg, seen>>
SaveSettings ==
  /\ At("saving")
  /\ conf' = app.set
  /\ Ends
  /\ UNCHANGED <<user, items, tmp, archive, orig, work, dlg, seen>>

\* The process is ended; the last two statements of an upgrade are not in a
\* transaction.
Crash ==
  /\ ~At("off")
  /\ app' = Off /\ work' = NoWork /\ dlg' = NoDlg
  /\ seen' = [seen EXCEPT !.viewLost = @ \/ (At("upgrade") /\ app.up = Len(Upgrade))]
  /\ UNCHANGED Files

\* The game is patched, in the middle of an extraction as well.
Patch ==
  /\ orig \in 1 .. MaxStamp - 1
  /\ orig' = orig + 1
  /\ seen' = [seen EXCEPT !.patched = @ \/ ~At("off")]
  /\ UNCHANGED <<user, items, tmp, conf, archive, app, work, dlg>>

MainStep ==
  \/ LogFolder \/ LogPrefsFolder \/ OpenDb \/ CreateDb \/ CheckVersion \/ UpgradeStep
  \/ Sync \/ BeginExtraction \/ Barrier \/ ExtractRecord \/ EndOfPhase \/ PostProcess
  \/ EndDialog \/ JoinDialog \/ RemoveOld \/ RenameNew \/ Attach \/ SaveSettings
DialogStep == DialogCreate \/ DialogLoop \/ DialogMessage

Next == Launch \/ MainStep \/ DialogStep \/ Touch \/ PressCancel \/ Close \/ Crash \/ Patch

\* Threads run; the user answers the questions and touches the dialog again
\* and again.  The main thread is treated strongly: what it sends to the
\* dialog is answered before the messages in the dialog's queue.
Spec == Init /\ [][Next]_vars /\ SF_vars(MainStep) /\ WF_vars(DialogStep) /\ WF_vars(Touch)
-----------------------------------------------------------------------------
\* No interruption of the creation or the upgrade loses a character's name or
\* an item.  Names are lost only to the index of Upgrade0, when two rows have
\* one id; shop ids and flags only when the program was ended between the
\* last two statements, so that the next start upgrades from 0 once more.
NoDouble(db) == "tToons" \in DOMAIN db.tables => Unique(db.tables["tToons"].rows, "charid")
DataSurvives ==
  seen.user # NoFile =>
     /\ user # NoFile
     /\ Items(seen.user) \subseteq Items(user)
     /\ NoDouble(seen.user) => Names(seen.user) \subseteq Names(user)
     /\ NoDouble(seen.user) /\ ~seen.viewLost => Shops(seen.user) \subseteq Shops(user)
     /\ ~seen.viewLost => Flags(seen.user) \subseteq Flags(user)

\* The program runs with a database that has every table, column and index its
\* queries rely on, wherever earlier starts were interrupted.
SchemaComplete == app.pc \in {"sync", "extract", "running"} => Complete(user)

\* The item database in use is never a part of one: it holds every record the
\* index lists that can be read (save those next to the border of two files),
\* with its details and the tables made from them.
ItemsWhole ==
  items # NoFile /\ items.version = CURRENT_AODB_VERSION => WholeFor(items, archive)

\* The program starts with an item database older than the game only when the
\* user said so, when the archive is gone, when the game was patched during
\* this start, or when it was patched while the database was made (since <
\* stamp): the time compared is that of the last write, not of the first read.
AskedOrCurrent ==
  At("attach") /\ orig # 0 /\ ~app.kept /\ ~seen.patched =>
     items.since = orig \/ items.since < items.stamp

\* A start ends: in the running program or in a closed one, as long as the
\* user answers and moves the mouse over a dialog that waits for a message.
\* A line of the settings file that does not fit the buffer is the exception.
StartEnds == ~At("off") ~> app.pc \in {"off", "running", "stuck"}
=============================================================================
