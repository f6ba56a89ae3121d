----------------------------- MODULE HookQueue -----------------------------
(***************************************************************************)
(* The hook library inside the game clients (dllmain.cpp, DataQueue.cpp):  *)
(* detoured game threads queue copies of the messages and set an event, a  *)
(* worker thread waits for the event and sends what is queued to the       *)
(* window of the application, which may be started and closed at any time. *)
(*                                                                         *)
(* A message is its number among those its client queued. CreateEvent      *)
(* names the event, so the event is one for all clients. Times are left    *)
(* open: "more than 10 seconds ago" may be true at any step.               *)
(***************************************************************************)
EXTENDS Naturals, Sequences, FiniteSets

CONSTANTS
    Clients,        \* the game clients the library is injected into
    Threads,        \* the threads of a client that pass through the detours
    MessageIds,     \* message ids
    Registries,     \* the contents the registry key may have
    Ignored,        \* ids of outgoing messages never queued (move, keepalive)
    MaxMessages,    \* bound: messages a client queues
    MaxLaunches     \* bound: starts of the application

ASSUME HookAssumption ==
    /\ Registries \subseteq SUBSET MessageIds
    /\ MaxMessages \in Nat
    /\ MaxLaunches \in Nat

VARIABLES
    registry,       \* the message ids under the registry key
    window,         \* the window of the application, 0 for none
    launches,       \* how often the application was started
    event,          \* is the named auto-reset event signalled
    attached,       \* how far ProcessAttach or ProcessDetach got
    filter,         \* g_messageFilter
    sent,           \* the number of messages queued so far
    early,          \* those of them queued before the event existed
    thread,         \* where a game thread is in its detour
    queue,          \* g_dataQueue
    worker,         \* where the worker thread is
    item,           \* the message it has popped, 0 for none
    target,         \* g_targetWnd, 0 for NULL
    received        \* the messages the application was given

appVars    == <<registry, window, launches>>
gameVars   == <<filter, sent, thread>>
workerVars == <<worker, item, target, received>>
vars == <<appVars, event, attached, early, gameVars, queue, workerVars>>

Init ==
    /\ registry \in Registries
    /\ window = 0
    /\ launches = 0
    /\ event = FALSE
    /\ attached = [c \in Clients |-> "no"]
    /\ filter = [c \in Clients |-> {}]
    /\ sent = [c \in Clients |-> 0]
    /\ early = [c \in Clients |-> 0]
    /\ thread = [c \in Clients |-> [t \in Threads |-> "game"]]
    /\ queue = [c \in Clients |-> <<>>]
    /\ worker = [c \in Clients |-> "none"]
    /\ item = [c \in Clients |-> 0]
    /\ target = [c \in Clients |-> 0]
    /\ received = [c \in Clients |-> <<>>]

\* g_hEvent is a handle the system accepts.
HandleValid(c) == attached[c] \in {"yes", "signalled"}

-----------------------------------------------------------------------------
(* The application and its settings in the registry.                       *)

AppStart ==
    /\ window = 0
    /\ launches < MaxLaunches
    /\ launches' = launches + 1
    /\ window' = launches + 1
    /\ UNCHANGED <<registry, event, attached, early, gameVars, queue, workerVars>>

AppExit ==
    /\ window # 0
    /\ window' = 0
    /\ UNCHANGED <<registry, launches, event, attached, early, gameVars, queue,
                   workerVars>>

ChangeRegistry ==
    /\ registry' \in Registries
    /\ UNCHANGED <<window, launches, event, attached, early, gameVars, queue,
                   workerVars>>

-----------------------------------------------------------------------------
(* The detours.                                                            *)

\* Mutant: the event is set first, and the message queued when the worker may
\* already have looked.
PushAfterSignal(c, t) ==
    /\ attached[c] \in {"hooked", "yes"}
    /\ sent[c] < MaxMessages
    /\ \/ /\ thread[c][t] = "game"
          /\ event' = (event \/ HandleValid(c))
          /\ thread' = [thread EXCEPT ![c][t] = "signalled"]
          /\ UNCHANGED <<sent, queue>>
       \/ /\ thread[c][t] = "signalled"
          /\ sent' = [sent EXCEPT ![c] = @ + 1]
          /\ queue' = [queue EXCEPT ![c] = Append(@, sent[c] + 1)]
          /\ thread' = [thread EXCEPT ![c][t] = "game"]
          /\ UNCHANGED event

\* Mutant: DataQueue::push overtakes what is queued.
PushFront(c, t) ==
    /\ attached[c] \in {"hooked", "yes"}
    /\ thread[c][t] = "game"
    /\ sent[c] < MaxMessages
    /\ sent' = [sent EXCEPT ![c] = @ + 1]
    /\ queue' = [queue EXCEPT ![c] = <<sent[c] + 1>> \o @]
    /\ thread' = [thread EXCEPT ![c][t] = "pushed"]
    /\ UNCHANGED event

\* A hooked client queues one more message; the event is set afterwards.
Push(c, t) ==
    /\ attached[c] \in {"hooked", "yes"}
    /\ thread[c][t] = "game"
    /\ sent[c] < MaxMessages
    /\ sent' = [sent EXCEPT ![c] = @ + 1]
    /\ queue' = [queue EXCEPT ![c] = Append(@, sent[c] + 1)]
    /\ thread' = [thread EXCEPT ![c][t] = "pushed"]
    /\ UNCHANGED event

\* LoadMessageFilter adds to the filter what the registry holds. It means to
\* clear the filter first, but empty() only asks whether it is.
LoadMessageFilter(c) == filter[c] \cup registry

\* DataBlockToMessageHook. The filter is loaded again now and then, and an
\* empty filter lets everything pass.
Incoming(c, t, id, reload) ==
    LET f == IF reload THEN LoadMessageFilter(c) ELSE filter[c]
    IN  /\ filter' = [filter EXCEPT ![c] = f]
        /\ f = {} \/ id \in f
        /\ Push(c, t)
        /\ UNCHANGED <<appVars, attached, early, workerVars>>

\* The message is not wanted; the filter may have been loaded all the same.
IncomingFiltered(c, t, id, reload) ==
    LET f == IF reload THEN LoadMessageFilter(c) ELSE filter[c]
    IN  /\ attached[c] \in {"hooked", "yes"}
        /\ thread[c][t] = "game"
        /\ f # {} /\ id \notin f
        /\ filter' = [filter EXCEPT ![c] = f]
        /\ UNCHANGED <<appVars, event, attached, early, sent, thread, queue,
                       workerVars>>

\* OnConnectionSend.
Outgoing(c, t, id) ==
    /\ id \notin Ignored
    /\ Push(c, t)
    /\ UNCHANGED <<appVars, attached, early, filter, workerVars>>

\* SetEvent at the end of either detour; it fails on a handle that is not valid.
Signal(c, t) ==
    /\ thread[c][t] = "pushed"
    /\ thread' = [thread EXCEPT ![c][t] = "game"]
    /\ event' = (event \/ HandleValid(c))
    /\ UNCHANGED <<appVars, attached, early, filter, sent, queue, workerVars>>

-----------------------------------------------------------------------------
(* ProcessAttach and ProcessDetach.                                        *)

\* The detours are in place before the event and the worker exist.
AttachHooks(c) ==
    /\ attached[c] = "no"
    /\ attached' = [attached EXCEPT ![c] = "hooked"]
    /\ UNCHANGED <<appVars, event, early, gameVars, queue, workerVars>>

StartWorkerThread(c) ==
    /\ attached[c] = "hooked"
    /\ attached' = [attached EXCEPT ![c] = "yes"]
    /\ worker' = [worker EXCEPT ![c] = "test"]
    /\ early' = [early EXCEPT ![c] = sent[c]]
    /\ UNCHANGED <<appVars, event, gameVars, queue, item, target, received>>

\* The three statements of EndWorkerThread, the detours being removed before.
EndSignal(c) ==
    /\ attached[c] = "yes"
    /\ attached' = [attached EXCEPT ![c] = "signalled"]
    /\ event' = TRUE
    /\ UNCHANGED <<appVars, early, gameVars, queue, workerVars>>

EndClose(c) ==
    /\ attached[c] = "signalled"
    /\ attached' = [attached EXCEPT ![c] = "closed"]
    /\ UNCHANGED <<appVars, event, early, gameVars, queue, workerVars>>

EndReset(c) ==
    /\ attached[c] = "closed"
    /\ attached' = [attached EXCEPT ![c] = "gone"]
    /\ UNCHANGED <<appVars, event, early, gameVars, queue, workerVars>>

-----------------------------------------------------------------------------
(* WorkerThreadMethod.                                                     *)

\* The loop condition: an invalid handle ends the loop, or the wait begins.
WorkerTest(c) ==
    /\ worker[c] = "test"
    /\ worker' = [worker EXCEPT ![c] = IF HandleValid(c) THEN "wait" ELSE "ended"]
    /\ UNCHANGED <<appVars, event, attached, early, gameVars, queue, item, target,
                   received>>

\* The event is signalled; the wait that ends resets it.
WorkerWake(c) ==
    /\ worker[c] = "wait"
    /\ event
    /\ event' = FALSE
    /\ worker' = [worker EXCEPT ![c] = "woken"]
    /\ UNCHANGED <<appVars, attached, early, gameVars, queue, item, target, received>>

\* The handle is closed under the wait, which may fail or go on.
WorkerWaitFails(c) ==
    /\ worker[c] = "wait"
    /\ attached[c] \in {"closed", "gone"}
    /\ worker' = [worker EXCEPT ![c] = "ended"]
    /\ UNCHANGED <<appVars, event, attached, early, gameVars, queue, item, target,
                   received>>

\* After the wait: end if g_hEvent is NULL, or look the window up when there is
\* none or the last look is long ago.
WorkerLook(c, longAgo) ==
    /\ worker[c] = "woken"
    /\ IF attached[c] = "gone"
       THEN /\ worker' = [worker EXCEPT ![c] = "ended"]
            /\ UNCHANGED target
       ELSE /\ worker' = [worker EXCEPT ![c] = "drain"]
            /\ target' = IF longAgo \/ target[c] = 0
                         THEN [target EXCEPT ![c] = window] ELSE target
    /\ UNCHANGED <<appVars, event, attached, early, gameVars, queue, item, received>>

\* Mutant: a message that is not sent stays in the worker's hand.
PopKeeps(c) ==
    /\ worker[c] = "drain"
    /\ queue[c] # <<>>
    /\ queue' = [queue EXCEPT ![c] = Tail(@)]
    /\ item' = [item EXCEPT ![c] = Head(queue[c])]
    /\ worker' = IF target[c] = 0 THEN worker ELSE [worker EXCEPT ![c] = "send"]
    /\ UNCHANGED <<appVars, event, attached, early, gameVars, target, received>>

\* empty() and pop(): without a target the message is dropped at once.
WorkerPop(c) ==
    /\ worker[c] = "drain"
    /\ queue[c] # <<>>
    /\ queue' = [queue EXCEPT ![c] = Tail(@)]
    /\ IF target[c] = 0
       THEN UNCHANGED <<worker, item>>
       ELSE /\ item' = [item EXCEPT ![c] = Head(queue[c])]
            /\ worker' = [worker EXCEPT ![c] = "send"]
    /\ UNCHANGED <<appVars, event, attached, early, gameVars, target, received>>

WorkerDrained(c) ==
    /\ worker[c] = "drain"
    /\ queue[c] = <<>>
    /\ worker' = [worker EXCEPT ![c] = "test"]
    /\ UNCHANGED <<appVars, event, attached, early, gameVars, queue, item, target,
                   received>>

\* SendMessage returns when the application has handled the message; it fails
\* when the window looked up is gone, even if the application runs again.
WorkerSend(c) ==
    /\ worker[c] = "send"
    /\ received' = IF target[c] = window
                   THEN [received EXCEPT ![c] = Append(@, item[c])] ELSE received
    /\ item' = [item EXCEPT ![c] = 0]
    /\ worker' = [worker EXCEPT ![c] = "drain"]
    /\ UNCHANGED <<appVars, event, attached, early, gameVars, queue, target>>

-----------------------------------------------------------------------------
WorkerStep(c) ==
    \/ WorkerTest(c) \/ WorkerWake(c) \/ WorkerWaitFails(c)
    \/ \E longAgo \in BOOLEAN : WorkerLook(c, longAgo)
    \/ WorkerPop(c) \/ WorkerDrained(c) \/ WorkerSend(c)

GameStep(c, t) ==
    \/ \E id \in MessageIds, reload \in BOOLEAN :
        Incoming(c, t, id, reload) \/ IncomingFiltered(c, t, id, reload)
    \/ \E id \in MessageIds : Outgoing(c, t, id)
    \/ Signal(c, t)

LibraryStep(c) ==
    AttachHooks(c) \/ StartWorkerThread(c) \/ EndSignal(c) \/ EndClose(c) \/ EndReset(c)

Next ==
    \/ AppStart \/ AppExit \/ ChangeRegistry
    \/ \E c \in Clients : WorkerStep(c) \/ LibraryStep(c)
    \/ \E c \in Clients, t \in Threads : GameStep(c, t)

Safety == Init /\ [][Next]_vars

\* The scheduler runs the worker, and lets a game thread finish its detour and
\* a loader finish attaching; nothing makes the game or the user do anything.
Fairness ==
    /\ \A c \in Clients :
        /\ WF_vars(WorkerTest(c)) /\ SF_vars(WorkerWake(c))
        /\ WF_vars(\E longAgo \in BOOLEAN : WorkerLook(c, longAgo))
        /\ WF_vars(WorkerPop(c)) /\ WF_vars(WorkerDrained(c))
        /\ WF_vars(WorkerSend(c))
        /\ WF_vars(StartWorkerThread(c))
    /\ \A c \in Clients, t \in Threads : WF_vars(Signal(c, t))

Spec == Safety /\ Fairness

-----------------------------------------------------------------------------
\* What the queue and the worker's hand hold of a client is under way.
Channel == [c \in Clients |->
              IF item[c] = 0 THEN queue[c] ELSE <<item[c]>> \o queue[c]]

Fifo == INSTANCE LossyFifo WITH channel <- Channel

\* The library is a channel that may lose messages, and does nothing worse
\* whatever the threads, the application and the loader do in between.
IsLossyFifo == Fifo!FifoSpec

Increasing(s) == \A i, j \in 1..Len(s) : i < j => s[i] < s[j]

\* The application gets the messages of a client in the order they were queued,
\* none of them twice, across its restarts and its stale windows.
InOrder == \A c \in Clients : Increasing(received[c])

\* A worker that sleeps while the event is not set has nothing to do, but for
\* what came before the event existed, or what a thread is about to signal.
NoLostWakeup ==
    \A c \in Clients :
        /\ attached[c] = "yes"
        /\ worker[c] \in {"test", "wait"}
        /\ ~event
        /\ \A t \in Threads : thread[c][t] = "game"
        => \A i \in 1..Len(queue[c]) : queue[c][i] <= early[c]

\* Every message queued after the event exists leaves the queue, until the
\* library is detached.
Dispatched ==
    \A c \in Clients :
        (queue[c] # <<>> /\ attached[c] = "yes" /\ queue[c][Len(queue[c])] > early[c])
            ~> (queue[c] = <<>> \/ attached[c] # "yes")

\* The worker holds a message exactly while it sends it; the rest is types.
TypeOK ==
    /\ \A c \in Clients : item[c] # 0 <=> worker[c] = "send"
    /\ registry \in Registries
    /\ window \in 0..MaxLaunches /\ launches \in 0..MaxLaunches
    /\ event \in BOOLEAN
    /\ attached \in [Clients -> {"no", "hooked", "yes", "signalled", "closed", "gone"}]
    /\ filter \in [Clients -> SUBSET MessageIds]
    /\ sent \in [Clients -> 0..MaxMessages]
    /\ early \in [Clients -> 0..MaxMessages]
    /\ thread \in [Clients -> [Threads -> {"game", "pushed"}]]
    /\ queue \in [Clients -> Seq(1..MaxMessages)]
    /\ worker \in [Clients ->
            {"none", "test", "wait", "woken", "drain", "send", "ended"}]
    /\ item \in [Clients -> 0..MaxMessages]
    /\ target \in [Clients -> 0..MaxLaunches]
    /\ received \in [Clients -> Seq(1..MaxMessages)]
=============================================================================
