--------------------------- MODULE PatternMatcher ---------------------------
(***************************************************************************)
(* The pattern matcher (PatternMatchView.cpp, PatternAvailabilityCalculator*)
(* and Thread.cpp): the GUI thread starts and stops a calculator thread    *)
(* that fills in, one pocket boss after the other, how many of its         *)
(* patterns a character has, and posts a message for each.                 *)
(*                                                                         *)
(* An availability is known by the setting (character, assembled patterns  *)
(* excluded or not) it was calculated for. The mutex of the list is taken  *)
(* by the calculator alone, so a step that the code brackets with it is    *)
(* one step here; the database lock is shared with every message handler.  *)
(***************************************************************************)
EXTENDS Naturals

CONSTANTS
    NumPb,          \* the number of pocket bosses in the list
    Settings,       \* what the filter panel can be set to
    Unknown,        \* the availability -1: not calculated
    Queries         \* how often a calculation takes the database lock

ASSUME PatternAssumption ==
    /\ NumPb \in Nat \ {0}
    /\ Queries \in Nat \ {0}
    /\ Unknown \notin Settings

Pbs == 1..NumPb

VARIABLES
    view,           \* "hidden", "shown" or "destroyed"
    gui,            \* where the GUI thread is in a handler
    then,           \* what the handler does after End()
    panel,          \* the setting in the filter panel
    setting,        \* the calculator's m_toon and m_excludeAssembled
    handle,         \* d_threadHandle is not NULL
    running,        \* d_bIsRunning
    term,           \* m_term
    index,          \* m_index, from 0
    worker,         \* where the calculator thread is
    left,           \* queries left in the calculation
    using,          \* the setting the calculation was called with
    dblock,         \* who holds the DBManager lock
    avail,          \* pbavailability
    listed,         \* what the rows of the list view show
    posted          \* WM_UPDATE_PBLIST messages in the GUI thread's queue

viewVars   == <<view, panel>>
threadVars == <<handle, running>>
calcVars   == <<index, left, using>>
listVars   == <<avail, listed, posted>>
vars == <<viewVars, gui, then, setting, threadVars, term, worker, calcVars, dblock,
          listVars>>

AllUnknown == [p \in Pbs |-> Unknown]

Init ==
    /\ view = "hidden"
    /\ gui = "idle"
    /\ then = "none"
    /\ panel \in Settings
    /\ setting = panel
    /\ handle = FALSE
    /\ running = FALSE
    /\ term = FALSE
    /\ index = 0
    /\ worker = "none"
    /\ left = 0
    /\ using = setting
    /\ dblock = "free"
    /\ avail = AllUnknown
    /\ listed = AllUnknown
    /\ posted = {}

-----------------------------------------------------------------------------
(* The handlers of the GUI thread, up to where they wait for the thread.   *)

Enter(next, pc) == gui = "idle" /\ gui' = pc /\ then' = next

\* OnActive(true). updateCharList needs the database lock. Begin() waits for a
\* thread that is still there, without asking it to stop.
Activate ==
    /\ view = "hidden"
    /\ dblock # "worker"
    /\ Enter("begin", "end")
    /\ view' = "shown"
    /\ UNCHANGED <<panel, setting, threadVars, term, worker, calcVars, dblock, listVars>>

\* OnActive(false).
Deactivate ==
    /\ view = "shown"
    /\ Enter("hide", "stop")
    /\ UNCHANGED <<viewVars, setting, threadVars, term, worker, calcVars, dblock,
                   listVars>>

\* OnRecalculate.
Recalculate ==
    /\ view = "shown"
    /\ Enter("recalculate", "stop")
    /\ UNCHANGED <<viewVars, setting, threadVars, term, worker, calcVars, dblock,
                   listVars>>

\* Mutant: the calculator gets its new setting before it is stopped.
ChangeFilterAtOnce ==
    /\ view = "shown"
    /\ panel' \in Settings \ {setting}
    /\ Enter("filter", "stop")
    /\ avail' = AllUnknown
    /\ setting' = panel'
    /\ UNCHANGED <<view, threadVars, term, worker, calcVars, dblock, listed, posted>>

\* onFilterSettingsChanged: the availabilities are reset first.
ChangeFilter ==
    /\ view = "shown"
    /\ panel' \in Settings \ {setting}
    /\ Enter("filter", "stop")
    /\ avail' = AllUnknown
    /\ UNCHANGED <<view, setting, threadVars, term, worker, calcVars, dblock, listed,
                   posted>>

\* OnDestroy.
Destroy ==
    /\ view # "destroyed"
    /\ Enter("destroy", "stop")
    /\ UNCHANGED <<viewVars, setting, threadVars, term, worker, calcVars, dblock,
                   listVars>>

\* OnUpdatePbListView.
Update(p) ==
    /\ gui = "idle"
    /\ p \in posted
    /\ posted' = posted \ {p}
    /\ listed' = [listed EXCEPT ![p] = avail[p]]
    /\ UNCHANGED <<viewVars, gui, then, setting, threadVars, term, worker, calcVars,
                   dblock, avail>>

\* A message handler of InventoryView returns early with the lock held.
LeakLock ==
    /\ gui = "idle"
    /\ dblock = "free"
    /\ dblock' = "leaked"
    /\ UNCHANGED <<viewVars, gui, then, setting, threadVars, term, worker, calcVars,
                   listVars>>

-----------------------------------------------------------------------------
(* StopPlease, End, and the rest of the handlers.                          *)

StopPlease ==
    /\ gui = "stop"
    /\ gui' = "end"
    /\ term' = (term \/ running)
    /\ UNCHANGED <<viewVars, then, setting, threadVars, worker, calcVars, dblock,
                   listVars>>

\* The thread has ended, or there is none.
Ended == handle => worker = "done"

\* CreateThread.
Begin ==
    /\ handle' = TRUE
    /\ running' = TRUE
    /\ worker' = "created"

NoThread ==
    /\ handle' = FALSE
    /\ running' = (running /\ ~handle)
    /\ worker' = "none"

Finish == gui = "end" /\ gui' = "idle" /\ then' = "none"

EndThenBegin ==
    /\ Ended /\ then = "begin" /\ Finish
    /\ Begin
    /\ UNCHANGED <<viewVars, setting, term, calcVars, dblock, listVars>>

\* Mutant: pending updates stay in the queue.
HideUnclean ==
    /\ Ended /\ then = "hide" /\ Finish
    /\ NoThread
    /\ view' = "hidden"
    /\ UNCHANGED <<panel, setting, term, calcVars, dblock, avail, listed, posted>>

\* Pending updates of the thread that ended are taken off the queue.
EndThenHide ==
    /\ Ended /\ then = "hide" /\ Finish
    /\ NoThread
    /\ view' = "hidden"
    /\ posted' = {}
    /\ UNCHANGED <<panel, setting, term, calcVars, dblock, avail, listed>>

EndThenRecalculate ==
    /\ Ended /\ then = "recalculate" /\ Finish
    /\ Begin
    /\ posted' = {}
    /\ avail' = AllUnknown
    /\ listed' = AllUnknown
    /\ UNCHANGED <<viewVars, setting, term, calcVars, dblock>>

EndThenFilter ==
    /\ Ended /\ then = "filter" /\ Finish
    /\ Begin
    /\ setting' = panel
    /\ posted' = {}
    /\ listed' = avail
    /\ UNCHANGED <<viewVars, term, calcVars, dblock, avail>>

\* The queue of a window that is destroyed goes with it.
EndThenDestroy ==
    /\ Ended /\ then = "destroy" /\ Finish
    /\ NoThread
    /\ view' = "destroyed"
    /\ posted' = {}
    /\ UNCHANGED <<panel, setting, term, calcVars, dblock, avail, listed>>

-----------------------------------------------------------------------------
(* ThreadProc and CalcPbAvailability.                                      *)

\* m_term is reset when the thread gets going, not when it is created.
ThreadStart ==
    /\ worker = "created"
    /\ index' = 0
    /\ term' = FALSE
    /\ worker' = "loop"
    /\ UNCHANGED <<viewVars, gui, then, setting, threadVars, left, using, dblock,
                   listVars>>

\* A boss that needs calculating: the list is unlocked meanwhile.
CalcCall ==
    /\ worker = "loop"
    /\ index < NumPb
    /\ avail[index + 1] = Unknown
    /\ using' = setting
    /\ left' = Queries
    /\ worker' = "calc"
    /\ UNCHANGED <<viewVars, gui, then, setting, threadVars, term, index, dblock,
                   listVars>>

QueryLock ==
    /\ worker = "calc"
    /\ left > 0
    /\ dblock = "free"
    /\ dblock' = "worker"
    /\ UNCHANGED <<viewVars, gui, then, setting, threadVars, term, worker, calcVars,
                   listVars>>

QueryUnlock ==
    /\ worker = "calc"
    /\ dblock = "worker"
    /\ dblock' = "free"
    /\ left' = left - 1
    /\ UNCHANGED <<viewVars, gui, then, setting, threadVars, term, worker, index, using,
                   listVars>>

\* The result is stored and posted. A message per boss is enough: a second one
\* for the same row reads the same availability.
Store ==
    /\ worker = "calc"
    /\ left = 0 /\ dblock # "worker"
    /\ avail' = [avail EXCEPT ![index + 1] = using]
    /\ posted' = posted \cup {index + 1}
    /\ index' = index + 1
    /\ worker' = "test"
    /\ UNCHANGED <<viewVars, gui, then, setting, threadVars, term, left, using, dblock,
                   listed>>

\* Mutant: a boss that is known is not passed over.
SkipStays ==
    /\ worker = "loop"
    /\ index < NumPb
    /\ avail[index + 1] # Unknown
    /\ worker' = "test"
    /\ UNCHANGED <<viewVars, gui, then, setting, threadVars, term, index, left, using,
                   dblock, listVars>>

Skip ==
    /\ worker = "loop"
    /\ index < NumPb
    /\ avail[index + 1] # Unknown
    /\ index' = index + 1
    /\ worker' = "test"
    /\ UNCHANGED <<viewVars, gui, then, setting, threadVars, term, left, using, dblock,
                   listVars>>

\* Mutant: the search starts over at the end of the list (the line the code
\* has commented out) and goes on until it is asked to stop.
StartOver ==
    /\ worker = "loop"
    /\ index >= NumPb
    /\ index' = 0
    /\ worker' = "test"
    /\ UNCHANGED <<viewVars, gui, then, setting, threadVars, term, left, using, dblock,
                   listVars>>

\* Mutant: the index is counted up after the last boss, too.
IndexPastEnd ==
    /\ worker = "loop"
    /\ index >= NumPb
    /\ index' = index + 1
    /\ term' = TRUE
    /\ worker' = "test"
    /\ UNCHANGED <<viewVars, gui, then, setting, threadVars, left, using, dblock,
                   listVars>>

AtEnd ==
    /\ worker = "loop"
    /\ index >= NumPb
    /\ term' = TRUE
    /\ worker' = "test"
    /\ UNCHANGED <<viewVars, gui, then, setting, threadVars, calcVars, dblock, listVars>>

LoopTest ==
    /\ worker = "test"
    /\ worker' = IF term THEN "leave" ELSE "loop"
    /\ UNCHANGED <<viewVars, gui, then, setting, threadVars, term, calcVars, dblock,
                   listVars>>

ThreadEnd ==
    /\ worker = "leave"
    /\ index' = 0
    /\ term' = FALSE
    /\ worker' = "done"
    /\ UNCHANGED <<viewVars, gui, then, setting, threadVars, left, using, dblock,
                   listVars>>

-----------------------------------------------------------------------------
Handle == Activate \/ Deactivate \/ Recalculate \/ ChangeFilter \/ Destroy

Continue ==
    \/ StopPlease
    \/ EndThenBegin \/ EndThenHide \/ EndThenRecalculate \/ EndThenFilter
    \/ EndThenDestroy

Calculate ==
    \/ ThreadStart \/ CalcCall \/ QueryLock \/ QueryUnlock \/ Store \/ Skip \/ AtEnd
    \/ LoopTest \/ ThreadEnd

Next == Handle \/ (\E p \in Pbs : Update(p)) \/ LeakLock \/ Continue \/ Calculate

\* Both threads are scheduled, and the GUI thread goes on with a handler once
\* it has begun it and handles what is posted; the user need not do anything.
Fairness ==
    /\ WF_vars(Continue)
    /\ WF_vars(Calculate)
    /\ \A p \in Pbs : WF_vars(Update(p))

Spec == Init /\ [][Next]_vars /\ Fairness

-----------------------------------------------------------------------------
Results == Settings \cup {Unknown}

TypeOK ==
    /\ view \in {"hidden", "shown", "destroyed"}
    /\ gui \in {"idle", "stop", "end"}
    /\ then \in {"none", "begin", "hide", "recalculate", "filter", "destroy"}
    /\ panel \in Settings /\ setting \in Settings /\ using \in Settings
    /\ handle \in BOOLEAN /\ running \in BOOLEAN /\ term \in BOOLEAN
    /\ index \in 0..NumPb
    /\ left \in 0..Queries
    /\ worker \in {"none", "created", "loop", "calc", "test", "leave", "done"}
    /\ dblock \in {"free", "leaked", "worker"}
    /\ avail \in [Pbs -> Results]
    /\ listed \in [Pbs -> Results]
    /\ posted \subseteq Pbs

\* When the view is not shown no thread searches, no update is pending, and the
\* calculator does not hold the database: OnActive(false) and OnDestroy stop it
\* "while we still can count ourselves as a window".
QuietUnlessShown ==
    view # "shown" /\ gui = "idle" => worker = "none" /\ posted = {} /\ dblock # "worker"

\* A calculation under way runs for the setting the calculator has: the setting
\* is never changed under it.
SettingHolds == worker = "calc" => using = setting

\* Waiting for the calculator ends, unless a handler has left the database
\* locked: no stop, however early or late it comes, makes End() hang.
EndReturns == gui = "end" ~> (gui # "end" \/ dblock = "leaked")

\* A search left alone comes to an end with every boss calculated.
SearchEnds == (view = "shown") ~>
    (gui # "idle" \/ dblock = "leaked" \/ \A p \in Pbs : avail[p] # Unknown)

\* "This class spawns a new thread that will search for pocket-boss patterns
\* given the current search criteria": whatever the view has calculated, it has
\* calculated for the setting in its panel.
CriteriaCurrent ==
    gui = "idle" => \A p \in Pbs : avail[p] # Unknown => avail[p] = panel
=============================================================================
