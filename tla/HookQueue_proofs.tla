--------------------------- MODULE HookQueue_proofs ---------------------------
(***************************************************************************)
(* What TLAPS proves of the way of a message into the handlers.            *)
(* HookQueue: for any number of clients, threads and messages the          *)
(* application gets the messages of a client in order and at most once,    *)
(* the library implements the channel of LossyFifo, and with one client no *)
(* wakeup of the worker is lost.  GameMessages: the header of whatever     *)
(* message is read alike by the cursors and the structs, and what follows  *)
(* it is read in full, however long its lists are.                         *)
(***************************************************************************)
EXTENDS HookQueue, GameMessages, TLAPS, SequenceTheorems, FiniteSetTheorems

-----------------------------------------------------------------------------
(* Sequences.                                                              *)

\* What an appended, a removed and a prepended element make of a sequence.
LEMMA AppendFacts ==
    ASSUME NEW S, NEW s \in Seq(S), NEW x \in S
    PROVE  /\ Append(s, x) \in Seq(S)
           /\ Len(Append(s, x)) = Len(s) + 1
           /\ \A i \in 1..Len(s) : Append(s, x)[i] = s[i]
           /\ Append(s, x)[Len(s) + 1] = x
OBVIOUS

\* The head and the tail of a sequence.
LEMMA TailFacts ==
    ASSUME NEW S, NEW s \in Seq(S), s # <<>>
    PROVE  /\ Head(s) \in S /\ Head(s) = s[1]
           /\ Tail(s) \in Seq(S)
           /\ Len(s) \in Nat /\ Len(s) > 0
           /\ Len(Tail(s)) = Len(s) - 1
           /\ \A i \in 1..Len(Tail(s)) : Tail(s)[i] = s[i + 1]
OBVIOUS

\* A sequence with an element put before it.
LEMMA ConsFacts ==
    ASSUME NEW S, NEW s \in Seq(S), NEW x \in S
    PROVE  /\ <<x>> \o s \in Seq(S) /\ <<x>> \o s # <<>>
           /\ Head(<<x>> \o s) = x
           /\ Tail(<<x>> \o s) = s
OBVIOUS

\* Prepending and appending commute.
LEMMA ConsAppend ==
    ASSUME NEW S, NEW s \in Seq(S), NEW x \in S, NEW y \in S
    PROVE  <<x>> \o Append(s, y) = Append(<<x>> \o s, y)
OBVIOUS

\* A sequence is its head before its tail.
LEMMA HeadTail ==
    ASSUME NEW S, NEW s \in Seq(S), s # <<>>
    PROVE  <<Head(s)>> \o Tail(s) = s
OBVIOUS

-----------------------------------------------------------------------------
(* Type correctness.                                                       *)

\* There is no worker before it is started.
NotStarted == \A c \in Clients : attached[c] \in {"no", "hooked"} => worker[c] = "none"

Typed == TypeOK /\ NotStarted

\* The initial values have their types.
LEMMA InitTyped == Init => Typed
<1> SUFFICES ASSUME Init PROVE Typed OBVIOUS
<1>1. 0 \in 0..MaxMessages /\ 0 \in 0..MaxLaunches BY HookAssumption
<1>2. <<>> \in Seq(1..MaxMessages) OBVIOUS
<1> QED BY <1>1, <1>2 DEF Init, Typed, TypeOK, NotStarted

\* The queue grows by a message with the next number.
LEMMA PushTyped ==
    ASSUME Typed, NEW c \in Clients, NEW t \in Threads, Push(c, t)
    PROVE  /\ queue' \in [Clients -> Seq(1..MaxMessages)]
           /\ sent' \in [Clients -> 0..MaxMessages]
           /\ thread' \in [Clients -> [Threads -> {"game", "pushed"}]]
<1>1. sent[c] + 1 \in 1..MaxMessages BY HookAssumption DEF Typed, TypeOK, Push
<1>2. Append(queue[c], sent[c] + 1) \in Seq(1..MaxMessages)
  BY <1>1, AppendFacts DEF Typed, TypeOK
<1> QED BY <1>1, <1>2 DEF Typed, TypeOK, Push

\* A game thread's step preserves the types.
LEMMA GameTyped ==
    ASSUME Typed, NEW c \in Clients, NEW t \in Threads, GameStep(c, t)
    PROVE  Typed'
<1> USE DEF appVars, gameVars, workerVars, Typed, NotStarted
<1>1. ASSUME NEW id \in MessageIds, NEW reload \in BOOLEAN, Incoming(c, t, id, reload)
      PROVE  Typed'
  <2>1. Push(c, t) BY <1>1 DEF Incoming
  <2>2. filter' \in [Clients -> SUBSET MessageIds]
    BY <1>1, HookAssumption DEF Incoming, LoadMessageFilter, TypeOK
  <2> QED BY <1>1, <2>1, <2>2, PushTyped DEF Incoming, TypeOK, Push
<1>2. ASSUME NEW id \in MessageIds, NEW reload \in BOOLEAN,
             IncomingFiltered(c, t, id, reload)
      PROVE  Typed'
  BY <1>2, HookAssumption DEF IncomingFiltered, LoadMessageFilter, TypeOK
<1>3. ASSUME NEW id \in MessageIds, Outgoing(c, t, id) PROVE Typed'
  <2>1. Push(c, t) BY <1>3 DEF Outgoing
  <2> QED BY <1>3, <2>1, PushTyped DEF Outgoing, TypeOK, Push
<1>4. CASE Signal(c, t) BY <1>4 DEF Signal, TypeOK, HandleValid
<1> QED BY <1>1, <1>2, <1>3, <1>4 DEF GameStep

\* A step of the loader preserves the types.
LEMMA LibraryTyped ==
    ASSUME Typed, NEW c \in Clients, LibraryStep(c)
    PROVE  Typed'
<1> USE DEF appVars, gameVars, workerVars, Typed, TypeOK, NotStarted
<1>1. CASE AttachHooks(c) BY <1>1 DEF AttachHooks
<1>2. CASE StartWorkerThread(c) BY <1>2 DEF StartWorkerThread
<1>3. CASE EndSignal(c) BY <1>3 DEF EndSignal
<1>4. CASE EndClose(c) BY <1>4 DEF EndClose
<1>5. CASE EndReset(c) BY <1>5 DEF EndReset
<1> QED BY <1>1, <1>2, <1>3, <1>4, <1>5 DEF LibraryStep

\* A step of the worker preserves the types.
LEMMA WorkerTyped ==
    ASSUME Typed, NEW c \in Clients, WorkerStep(c)
    PROVE  Typed'
<1> USE DEF appVars, gameVars, workerVars, Typed, TypeOK, NotStarted
<1>1. CASE WorkerTest(c) BY <1>1 DEF WorkerTest
<1>2. CASE WorkerWake(c) BY <1>2 DEF WorkerWake
<1>3. CASE WorkerWaitFails(c) BY <1>3 DEF WorkerWaitFails
<1>4. ASSUME NEW longAgo \in BOOLEAN, WorkerLook(c, longAgo) PROVE Typed'
  BY <1>4 DEF WorkerLook
<1>5. CASE WorkerPop(c)
  <2>1. Head(queue[c]) \in 1..MaxMessages /\ Tail(queue[c]) \in Seq(1..MaxMessages)
    BY <1>5, TailFacts DEF WorkerPop
  <2>2. queue' \in [Clients -> Seq(1..MaxMessages)] BY <1>5, <2>1 DEF WorkerPop
  <2>3. item' \in [Clients -> 0..MaxMessages]
    <3>1. item' = item \/ item' = [item EXCEPT ![c] = Head(queue[c])] BY <1>5 DEF WorkerPop
    <3>2. 1..MaxMessages \subseteq 0..MaxMessages BY HookAssumption
    <3>3. item \in [Clients -> 0..MaxMessages] OBVIOUS
    <3> QED BY ONLY <2>1, <3>1, <3>2, <3>3, c \in Clients
  <2>4. Head(queue[c]) # 0 /\ item[c] = 0 BY <1>5, <2>1, HookAssumption DEF WorkerPop
  <2>5. \A d \in Clients : item'[d] # 0 <=> worker'[d] = "send"
    BY <1>5, <2>4 DEF WorkerPop
  <2>6. NotStarted' BY <1>5 DEF WorkerPop
  <2>7. worker' \in [Clients -> {"none", "test", "wait", "woken", "drain", "send", "ended"}]
    BY <1>5 DEF WorkerPop
  <2> QED BY <1>5, <2>2, <2>3, <2>5, <2>6, <2>7 DEF WorkerPop
<1>6. CASE WorkerDrained(c) BY <1>6 DEF WorkerDrained
<1>7. CASE WorkerSend(c)
  <2>1. item[c] \in 1..MaxMessages BY <1>7, HookAssumption DEF WorkerSend
  <2>2. Append(received[c], item[c]) \in Seq(1..MaxMessages) BY <2>1, AppendFacts
  <2>3. received' \in [Clients -> Seq(1..MaxMessages)] BY <1>7, <2>2 DEF WorkerSend
  <2>4. item' \in [Clients -> 0..MaxMessages] BY <1>7, HookAssumption DEF WorkerSend
  <2> QED BY <1>7, <2>3, <2>4 DEF WorkerSend
<1> QED BY <1>1, <1>2, <1>3, <1>4, <1>5, <1>6, <1>7 DEF WorkerStep

\* Every step preserves the types.
LEMMA NextTyped == Typed /\ [Next]_vars => Typed'
<1> SUFFICES ASSUME Typed, [Next]_vars PROVE Typed' OBVIOUS
<1> USE DEF appVars, gameVars, workerVars
<1>1. CASE AppStart BY <1>1, HookAssumption DEF AppStart, Typed, TypeOK, NotStarted
<1>2. CASE AppExit BY <1>2, HookAssumption DEF AppExit, Typed, TypeOK, NotStarted
<1>3. CASE ChangeRegistry BY <1>3 DEF ChangeRegistry, Typed, TypeOK, NotStarted
<1>4. CASE UNCHANGED vars BY <1>4 DEF vars, Typed, TypeOK, NotStarted
<1> QED BY <1>1, <1>2, <1>3, <1>4, GameTyped, LibraryTyped, WorkerTyped DEF Next

-----------------------------------------------------------------------------
(* The order of the messages of one client.                                *)

\* r, then it, then q, are numbers of messages in order, up to n.
Ord(r, it, q, n) ==
    /\ Increasing(r) /\ Increasing(q)
    /\ it <= n
    /\ \A i \in 1..Len(r) : r[i] <= n
    /\ \A j \in 1..Len(q) : q[j] <= n
    /\ \A i \in 1..Len(r), j \in 1..Len(q) : r[i] < q[j]
    /\ it # 0 => /\ \A i \in 1..Len(r) : r[i] < it
                 /\ \A j \in 1..Len(q) : it < q[j]

\* A new message is the last one.
LEMMA OrdPush ==
    ASSUME NEW r \in Seq(Nat), NEW it \in Nat, NEW q \in Seq(Nat), NEW n \in Nat,
           Ord(r, it, q, n)
    PROVE  Ord(r, it, Append(q, n + 1), n + 1)
<1> DEFINE p == Append(q, n + 1)
<1>1. Len(p) = Len(q) + 1 /\ p[Len(q) + 1] = n + 1 /\ Len(q) \in Nat /\ Len(r) \in Nat
  BY AppendFacts
<1>2. \A j \in 1..Len(q) : p[j] = q[j] /\ q[j] \in Nat BY AppendFacts
<1>3. \A i \in 1..Len(r) : r[i] \in Nat OBVIOUS
<1> HIDE DEF p
<1>4. \A j \in 1..Len(p) : (j \in 1..Len(q) /\ p[j] = q[j]) \/ (j = Len(q) + 1 /\ p[j] = n + 1)
  BY <1>1, <1>2
<1>5. ASSUME NEW i \in 1..Len(p), NEW j \in 1..Len(p), i < j PROVE p[i] < p[j]
  <2>1. i \in 1..Len(q) /\ p[i] = q[i] /\ q[i] \in Nat /\ q[i] <= n
    BY <1>1, <1>2, <1>5 DEF Ord
  <2>2. CASE j \in 1..Len(q) BY <2>1, <2>2, <1>2, <1>5 DEF Ord, Increasing
  <2>3. CASE j = Len(q) + 1 BY <2>1, <2>3, <1>1
  <2> QED BY <1>4, <2>2, <2>3
<1>6. ASSUME NEW j \in 1..Len(p)
      PROVE  /\ p[j] <= n + 1
             /\ \A i \in 1..Len(r) : r[i] < p[j]
             /\ it # 0 => it < p[j]
  <2>1. CASE j \in 1..Len(q) /\ p[j] = q[j] BY <2>1, <1>2, <1>3 DEF Ord
  <2>2. CASE p[j] = n + 1 BY <2>2, <1>3 DEF Ord
  <2> QED BY <1>4, <2>1, <2>2
<1>7. it <= n + 1 /\ \A i \in 1..Len(r) : r[i] <= n + 1 BY <1>3 DEF Ord
<1>8. Ord(r, it, p, n + 1) BY <1>5, <1>6, <1>7 DEF Ord, Increasing
<1> QED BY <1>8 DEF p

\* Taking the first message out of the queue keeps the order, whether it is
\* dropped or held.
LEMMA OrdPop ==
    ASSUME NEW r \in Seq(Nat), NEW q \in Seq(Nat), NEW n \in Nat,
           q # <<>>, Ord(r, 0, q, n)
    PROVE  Ord(r, 0, Tail(q), n) /\ Ord(r, Head(q), Tail(q), n)
<1> DEFINE p == Tail(q)
<1>1. /\ Head(q) = q[1] /\ Head(q) \in Nat
      /\ Len(q) \in Nat /\ Len(q) > 0 /\ Len(p) = Len(q) - 1
      /\ \A j \in 1..Len(p) : p[j] = q[j + 1]
  BY TailFacts
<1> HIDE DEF p
<1>2. \A j \in 1..Len(p) : j + 1 \in 1..Len(q) /\ 1 < j + 1 BY <1>1
<1>3. 1 \in 1..Len(q) BY <1>1
<1>4. ASSUME NEW i \in 1..Len(p), NEW j \in 1..Len(p), i < j PROVE p[i] < p[j]
  <2>1. i + 1 < j + 1 BY <1>1, <1>4
  <2> QED BY <2>1, <1>1, <1>2 DEF Ord, Increasing
<1>5. ASSUME NEW j \in 1..Len(p)
      PROVE  /\ p[j] <= n /\ Head(q) < p[j]
             /\ \A i \in 1..Len(r) : r[i] < p[j]
  BY <1>1, <1>2, <1>3 DEF Ord, Increasing
<1>6. Head(q) <= n /\ \A i \in 1..Len(r) : r[i] < Head(q) BY <1>1, <1>3 DEF Ord
<1>7. Ord(r, 0, p, n) BY <1>4, <1>5 DEF Ord, Increasing
<1>8. Ord(r, Head(q), p, n) BY <1>4, <1>5, <1>6 DEF Ord, Increasing
<1> QED BY <1>7, <1>8 DEF p

\* Sending the message that is held, with success or without, keeps the order.
LEMMA OrdSend ==
    ASSUME NEW r \in Seq(Nat), NEW it \in Nat \ {0}, NEW q \in Seq(Nat), NEW n \in Nat,
           Ord(r, it, q, n)
    PROVE  Ord(Append(r, it), 0, q, n) /\ Ord(r, 0, q, n)
<1> DEFINE p == Append(r, it)
<1>1. Len(p) = Len(r) + 1 /\ p[Len(r) + 1] = it /\ Len(r) \in Nat /\ Len(q) \in Nat
  BY AppendFacts
<1>2. \A i \in 1..Len(r) : p[i] = r[i] /\ r[i] \in Nat BY AppendFacts
<1> HIDE DEF p
<1>3. \A i \in 1..Len(p) : (i \in 1..Len(r) /\ p[i] = r[i]) \/ (i = Len(r) + 1 /\ p[i] = it)
  BY <1>1, <1>2
<1>4. ASSUME NEW i \in 1..Len(p), NEW j \in 1..Len(p), i < j PROVE p[i] < p[j]
  <2>1. i \in 1..Len(r) /\ p[i] = r[i] BY <1>1, <1>2, <1>4
  <2>2. CASE j \in 1..Len(r) BY <2>1, <2>2, <1>2, <1>4 DEF Ord, Increasing
  <2>3. CASE j = Len(r) + 1 BY <2>1, <2>3, <1>1 DEF Ord
  <2> QED BY <1>3, <2>2, <2>3
<1>5. ASSUME NEW i \in 1..Len(p)
      PROVE  p[i] <= n /\ \A j \in 1..Len(q) : p[i] < q[j]
  BY <1>3 DEF Ord
<1>6. Ord(p, 0, q, n) BY <1>4, <1>5 DEF Ord, Increasing
<1>7. Ord(r, 0, q, n) BY DEF Ord
<1> QED BY <1>6, <1>7 DEF p

-----------------------------------------------------------------------------
(* The order of all of them.                                               *)

Ordered == \A c \in Clients : Ord(received[c], item[c], queue[c], sent[c])

Inv == Typed /\ Ordered

\* A step that changes nothing of the messages keeps their order.
LEMMA OrderStutter ==
    Ordered /\ UNCHANGED <<received, item, queue, sent>> => Ordered'
BY DEF Ordered

\* The types of what a client has of messages, as the lemmas above need them.
LEMMA MessageTypes ==
    ASSUME Typed, NEW c \in Clients
    PROVE  /\ received[c] \in Seq(Nat) /\ queue[c] \in Seq(Nat)
           /\ item[c] \in Nat /\ sent[c] \in Nat
<1>1. 1..MaxMessages \subseteq Nat /\ 0..MaxMessages \subseteq Nat BY HookAssumption
<1>2. received[c] \in Seq(1..MaxMessages) /\ queue[c] \in Seq(1..MaxMessages)
  BY DEF Typed, TypeOK
<1>3. received[c] \in Seq(Nat) /\ queue[c] \in Seq(Nat)
  BY <1>1, <1>2, SeqMonotonic
<1> QED BY <1>1, <1>2, <1>3 DEF Typed, TypeOK

\* Every step keeps the order.
LEMMA PushOrdered ==
    ASSUME Inv, NEW c \in Clients, NEW t \in Threads, Push(c, t),
           UNCHANGED <<received, item>>
    PROVE  Ordered'
<1>1. Ord(received[c], item[c], Append(queue[c], sent[c] + 1), sent[c] + 1)
  BY MessageTypes, OrdPush DEF Inv, Ordered
<1>2. queue'[c] = Append(queue[c], sent[c] + 1) /\ sent'[c] = sent[c] + 1
  BY DEF Push, Inv, Typed, TypeOK
<1>3. \A d \in Clients \ {c} : queue'[d] = queue[d] /\ sent'[d] = sent[d]
  BY DEF Push, Inv, Typed, TypeOK
<1> QED BY <1>1, <1>2, <1>3 DEF Inv, Ordered

\* The worker takes from the front, so it keeps the order.
LEMMA WorkerOrdered ==
    ASSUME Inv, NEW c \in Clients, WorkerStep(c)
    PROVE  Ordered'
<1> USE DEF appVars, gameVars, workerVars
<1>1. CASE WorkerPop(c)
  <2>1. item[c] = 0 /\ queue[c] # <<>> BY <1>1 DEF WorkerPop, Inv, Typed, TypeOK
  <2>2. /\ Ord(received[c], 0, Tail(queue[c]), sent[c])
        /\ Ord(received[c], Head(queue[c]), Tail(queue[c]), sent[c])
    BY <2>1, MessageTypes, OrdPop DEF Inv, Ordered
  <2>3. /\ queue'[c] = Tail(queue[c])
        /\ item'[c] \in {0, Head(queue[c])}
        /\ UNCHANGED <<received, sent>>
        /\ \A d \in Clients \ {c} : queue'[d] = queue[d] /\ item'[d] = item[d]
    BY <1>1, <2>1 DEF WorkerPop, Inv, Typed, TypeOK
  <2> QED BY <2>2, <2>3 DEF Inv, Ordered
<1>2. CASE WorkerSend(c)
  <2>1. item[c] # 0 BY <1>2 DEF WorkerSend, Inv, Typed, TypeOK
  <2>2. /\ Ord(Append(received[c], item[c]), 0, queue[c], sent[c])
        /\ Ord(received[c], 0, queue[c], sent[c])
    BY <2>1, MessageTypes, OrdSend DEF Inv, Ordered
  <2>3. /\ item'[c] = 0
        /\ received'[c] \in {received[c], Append(received[c], item[c])}
        /\ UNCHANGED <<queue, sent>>
        /\ \A d \in Clients \ {c} : received'[d] = received[d] /\ item'[d] = item[d]
    BY <1>2 DEF WorkerSend, Inv, Typed, TypeOK
  <2> QED BY <2>2, <2>3 DEF Inv, Ordered
<1>3. CASE \/ WorkerTest(c) \/ WorkerWake(c) \/ WorkerWaitFails(c) \/ WorkerDrained(c)
           \/ \E longAgo \in BOOLEAN : WorkerLook(c, longAgo)
  <2>1. UNCHANGED <<received, item, queue, sent>>
    BY <1>3 DEF WorkerTest, WorkerWake, WorkerWaitFails, WorkerDrained, WorkerLook
  <2> QED BY <2>1, OrderStutter DEF Inv
<1> QED BY <1>1, <1>2, <1>3 DEF WorkerStep

\* Types and order are an invariant of every step.
LEMMA NextInv == Inv /\ [Next]_vars => Inv'
<1> SUFFICES ASSUME Inv, [Next]_vars PROVE Ordered' BY NextTyped DEF Inv
<1> USE DEF appVars, gameVars, workerVars
<1>1. ASSUME NEW c \in Clients, NEW t \in Threads, GameStep(c, t) PROVE Ordered'
  <2>1. CASE Push(c, t) /\ UNCHANGED <<received, item>> BY <2>1, PushOrdered
  <2>2. CASE UNCHANGED <<received, item, queue, sent>> BY <2>2, OrderStutter DEF Inv
  <2> QED BY <1>1, <2>1, <2>2 DEF GameStep, Incoming, IncomingFiltered, Outgoing, Signal
<1>2. ASSUME NEW c \in Clients, LibraryStep(c) PROVE Ordered'
  <2>1. UNCHANGED <<received, item, queue, sent>>
    BY <1>2 DEF LibraryStep, AttachHooks, StartWorkerThread, EndSignal, EndClose, EndReset
  <2> QED BY <2>1, OrderStutter DEF Inv
<1>3. CASE AppStart \/ AppExit \/ ChangeRegistry \/ UNCHANGED vars
  <2>1. UNCHANGED <<received, item, queue, sent>>
    BY <1>3 DEF AppStart, AppExit, ChangeRegistry, vars
  <2> QED BY <2>1, OrderStutter DEF Inv
<1> QED BY <1>1, <1>2, <1>3, WorkerOrdered DEF Next

\* At first there are no messages.
LEMMA InitInv == Init => Inv
<1> SUFFICES ASSUME Init PROVE Ordered BY InitTyped DEF Inv
<1> QED BY DEF Init, Ordered, Ord, Increasing

\* Types and order hold in every reachable state.
THEOREM AlwaysInv == Spec => []Inv
BY InitInv, NextInv, PTL DEF Spec, Safety

\* The variables keep their types, and the worker holds a message exactly while
\* it sends it (WorkerThreadMethod).
THEOREM TypeCorrect == Spec => []TypeOK
<1>1. Inv => TypeOK BY DEF Inv, Typed
<1> QED BY <1>1, AlwaysInv, PTL

\* The application gets the messages of each client in the order in which the
\* detours queued them and none twice, for any number of clients and threads
\* and wherever the application is closed and started again.
THEOREM KeepsOrder == Spec => []InOrder
<1>1. Inv => InOrder BY DEF Inv, Ordered, Ord, InOrder
<1> QED BY <1>1, AlwaysInv, PTL

-----------------------------------------------------------------------------
(* The library implements the channel.                                     *)

\* The library starts with an empty channel.
LEMMA FifoStart == Init => Fifo!FifoInit
BY DEF Init, Fifo!FifoInit, Channel

\* The channel of a client depends on its queue and its worker's message only.
LEMMA ChannelOf ==
    /\ \A c \in Clients : Channel[c] = IF item[c] = 0 THEN queue[c] ELSE <<item[c]>> \o queue[c]
    /\ \A c \in Clients : Channel'[c] =
            IF item'[c] = 0 THEN queue'[c] ELSE <<item'[c]>> \o queue'[c]
    /\ Channel = [c \in Clients |-> Channel[c]]
    /\ Channel' = [c \in Clients |-> Channel'[c]]
BY DEF Channel

\* A step that changes the messages of no client does not touch the channels.
LEMMA FifoStutter ==
    UNCHANGED <<received, item, queue, sent>> => UNCHANGED Fifo!fifoVars
BY DEF Fifo!fifoVars, Channel

\* Queueing a message puts it into the channel.
LEMMA PushIsPut ==
    ASSUME Inv, NEW c \in Clients, NEW t \in Threads, Push(c, t),
           UNCHANGED <<received, item>>
    PROVE  Fifo!Put(c)
<1>1. sent' = [sent EXCEPT ![c] = @ + 1] /\ UNCHANGED received BY DEF Push
<1>2. /\ queue[c] \in Seq(Nat) /\ item[c] \in Nat /\ sent[c] + 1 \in Nat
      /\ queue'[c] = Append(queue[c], sent[c] + 1)
      /\ \A d \in Clients \ {c} : queue'[d] = queue[d]
  BY MessageTypes DEF Push, Inv, Typed, TypeOK
<1>3. Channel'[c] = Append(Channel[c], sent[c] + 1)
  <2>1. CASE item[c] = 0 BY <2>1, <1>2, ChannelOf
  <2>2. CASE item[c] # 0
    <3>1. <<item[c]>> \o Append(queue[c], sent[c] + 1)
            = Append(<<item[c]>> \o queue[c], sent[c] + 1)
      BY <1>2, ConsAppend
    <3> QED BY <3>1, <2>2, <1>2, ChannelOf
  <2> QED BY <2>1, <2>2
<1>4. \A d \in Clients \ {c} : Channel'[d] = Channel[d]
  <2>1. \A d \in Clients \ {c} : queue'[d] = queue[d] /\ item'[d] = item[d] BY <1>2
  <2>2. ASSUME NEW d \in Clients \ {c} PROVE Channel'[d] = Channel[d]
    <3>1. d \in Clients OBVIOUS
    <3>2. queue'[d] = queue[d] /\ item'[d] = item[d] BY <2>1
    <3> QED BY ONLY <3>1, <3>2, ChannelOf
  <2> QED BY ONLY <2>2
<1>5. Channel' = [Channel EXCEPT ![c] = Append(@, sent[c] + 1)]
  BY <1>3, <1>4, ChannelOf, Zenon
<1> QED BY <1>1, <1>5 DEF Fifo!Put

\* A message dropped for want of a window is lost; one taken into the worker's
\* hand is still under way.
LEMMA PopIsLose ==
    ASSUME Inv, NEW c \in Clients, WorkerPop(c)
    PROVE  Fifo!Lose(c) \/ UNCHANGED Fifo!fifoVars
<1>1. /\ item[c] = 0 /\ queue[c] # <<>> /\ queue[c] \in Seq(1..MaxMessages)
      /\ UNCHANGED <<received, sent>>
      /\ queue'[c] = Tail(queue[c])
      /\ \A d \in Clients \ {c} : queue'[d] = queue[d] /\ item'[d] = item[d]
  BY DEF WorkerPop, Inv, Typed, TypeOK, gameVars
<1>2. \A d \in Clients \ {c} : Channel'[d] = Channel[d]
  <2>1. \A d \in Clients \ {c} : queue'[d] = queue[d] /\ item'[d] = item[d] BY <1>1
  <2>2. ASSUME NEW d \in Clients \ {c} PROVE Channel'[d] = Channel[d]
    <3>1. d \in Clients OBVIOUS
    <3>2. queue'[d] = queue[d] /\ item'[d] = item[d] BY <2>1
    <3> QED BY ONLY <3>1, <3>2, ChannelOf
  <2> QED BY ONLY <2>2
<1>3. Channel[c] = queue[c] BY <1>1, ChannelOf
<1>4. CASE target[c] = 0
  <2>1. item'[c] = 0 BY <1>1, <1>4 DEF WorkerPop
  <2>2. Channel'[c] = Tail(Channel[c]) BY <2>1, <1>1, <1>3, ChannelOf
  <2>3. Channel' = [Channel EXCEPT ![c] = Tail(@)] BY <2>2, <1>2, ChannelOf, Zenon
  <2> QED BY <2>3, <1>1, <1>3 DEF Fifo!Lose
<1>5. CASE target[c] # 0
  <2>1. item'[c] = Head(queue[c]) BY <1>1, <1>5 DEF WorkerPop, Inv, Typed, TypeOK
  <2>2. Head(queue[c]) \in 1..MaxMessages /\ <<Head(queue[c])>> \o Tail(queue[c]) = queue[c]
    BY <1>1, TailFacts, HeadTail
  <2>3. Head(queue[c]) # 0 BY <2>2, HookAssumption
  <2>4. Channel'[c] = Channel[c] BY <2>1, <2>2, <2>3, <1>1, <1>3, ChannelOf
  <2>5. Channel' = Channel BY <2>4, <1>2, ChannelOf, Zenon
  <2> QED BY <2>5, <1>1 DEF Fifo!fifoVars
<1> QED BY <1>4, <1>5

\* A message that is sent is delivered, or lost if its window is gone.
LEMMA SendIsDeliver ==
    ASSUME Inv, NEW c \in Clients, WorkerSend(c)
    PROVE  Fifo!Deliver(c) \/ Fifo!Lose(c)
<1>1. /\ item[c] # 0 /\ item[c] \in Nat /\ queue[c] \in Seq(Nat)
      /\ item'[c] = 0
      /\ UNCHANGED <<queue, sent>>
      /\ \A d \in Clients \ {c} : item'[d] = item[d]
  BY MessageTypes DEF WorkerSend, Inv, Typed, TypeOK, gameVars
<1>2. /\ Channel[c] # <<>>
      /\ Head(Channel[c]) = item[c]
      /\ Tail(Channel[c]) = queue[c]
  <2>1. Channel[c] = <<item[c]>> \o queue[c] BY <1>1, ChannelOf
  <2> QED BY <2>1, <1>1, ConsFacts
<1>3. Channel'[c] = Tail(Channel[c]) BY <1>1, <1>2, ChannelOf
<1>4. \A d \in Clients \ {c} : Channel'[d] = Channel[d]
  <2>1. \A d \in Clients \ {c} : queue'[d] = queue[d] /\ item'[d] = item[d] BY <1>1
  <2>2. ASSUME NEW d \in Clients \ {c} PROVE Channel'[d] = Channel[d]
    <3>1. d \in Clients OBVIOUS
    <3>2. queue'[d] = queue[d] /\ item'[d] = item[d] BY <2>1
    <3> QED BY ONLY <3>1, <3>2, ChannelOf
  <2> QED BY ONLY <2>2
<1>5. Channel' = [Channel EXCEPT ![c] = Tail(@)] BY <1>3, <1>4, ChannelOf, Zenon
<1>6. CASE target[c] = window
  <2>1. received' = [received EXCEPT ![c] = Append(@, Head(Channel[c]))]
    BY <1>6, <1>2 DEF WorkerSend
  <2> QED BY <2>1, <1>1, <1>2, <1>5 DEF Fifo!Deliver
<1>7. CASE target[c] # window BY <1>7, <1>1, <1>2, <1>5 DEF WorkerSend, Fifo!Lose
<1> QED BY <1>6, <1>7

\* Every step is one of the channel or does not touch it.
LEMMA StepMaps == Inv /\ [Next]_vars => [Fifo!FifoNext]_(Fifo!fifoVars)
<1> SUFFICES ASSUME Inv, [Next]_vars PROVE [Fifo!FifoNext]_(Fifo!fifoVars) OBVIOUS
<1> USE DEF appVars, gameVars, workerVars
<1>1. ASSUME NEW c \in Clients, NEW t \in Threads, GameStep(c, t)
      PROVE  [Fifo!FifoNext]_(Fifo!fifoVars)
  <2>1. CASE Push(c, t) /\ UNCHANGED <<received, item>>
    BY <2>1, PushIsPut DEF Fifo!FifoNext
  <2>2. CASE UNCHANGED <<received, item, queue, sent>> BY <2>2, FifoStutter
  <2> QED BY <1>1, <2>1, <2>2 DEF GameStep, Incoming, IncomingFiltered, Outgoing, Signal
<1>2. ASSUME NEW c \in Clients, LibraryStep(c) PROVE UNCHANGED Fifo!fifoVars
  <2>1. UNCHANGED <<received, item, queue, sent>>
    BY <1>2 DEF LibraryStep, AttachHooks, StartWorkerThread, EndSignal, EndClose, EndReset
  <2> QED BY <2>1, FifoStutter
<1>3. ASSUME NEW c \in Clients, WorkerStep(c)
      PROVE  [Fifo!FifoNext]_(Fifo!fifoVars)
  <2>1. CASE WorkerPop(c) BY <2>1, PopIsLose DEF Fifo!FifoNext
  <2>2. CASE WorkerSend(c) BY <2>2, SendIsDeliver DEF Fifo!FifoNext
  <2>3. CASE \/ WorkerTest(c) \/ WorkerWake(c) \/ WorkerWaitFails(c) \/ WorkerDrained(c)
             \/ \E longAgo \in BOOLEAN : WorkerLook(c, longAgo)
    <3>1. UNCHANGED <<received, item, queue, sent>>
      BY <2>3 DEF WorkerTest, WorkerWake, WorkerWaitFails, WorkerDrained, WorkerLook
    <3> QED BY <3>1, FifoStutter
  <2> QED BY <1>3, <2>1, <2>2, <2>3 DEF WorkerStep
<1>4. CASE AppStart \/ AppExit \/ ChangeRegistry \/ UNCHANGED vars
  <2>1. UNCHANGED <<received, item, queue, sent>>
    BY <1>4 DEF AppStart, AppExit, ChangeRegistry, vars
  <2> QED BY <2>1, FifoStutter
<1> QED BY <1>1, <1>2, <1>3, <1>4 DEF Next

\* Whatever the game threads, the worker, the loader and the application do, in
\* any number of clients, the library is a channel that keeps the order,
\* repeats nothing and makes nothing up, though it may lose messages.
THEOREM ImplementsFifo == Spec => IsLossyFifo
BY AlwaysInv, FifoStart, StepMaps, PTL DEF Spec, Safety, IsLossyFifo, Fifo!FifoSpec

-----------------------------------------------------------------------------
(* One client has the event for itself: no wakeup is lost.                 *)

\* What NoLostWakeup says of one client.
Awake(c) ==
    /\ attached[c] = "yes"
    /\ worker[c] \in {"test", "wait"}
    /\ ~event
    /\ \A t \in Threads : thread[c][t] = "game"
    => \A i \in 1..Len(queue[c]) : queue[c][i] <= early[c]

\* With one client each step keeps the worker awake.
LEMMA StaysAwake ==
    ASSUME NEW c \in Clients, \A d \in Clients : d = c, Inv, Awake(c), [Next]_vars
    PROVE  Awake(c)'
<1> USE DEF appVars, gameVars, workerVars
<1>1. ASSUME NEW t \in Threads, GameStep(c, t) PROVE Awake(c)'
  <2>1. CASE Push(c, t)
    <3>1. thread'[c][t] = "pushed" BY <2>1 DEF Push, Inv, Typed, TypeOK
    <3> QED BY <3>1 DEF Awake
  <2>2. CASE Signal(c, t)
    <3>1. CASE attached[c] = "yes" BY <2>2, <3>1 DEF Signal, HandleValid, Awake
    <3>2. CASE attached[c] # "yes" BY <2>2, <3>2 DEF Signal, Awake
    <3> QED BY <3>1, <3>2
  <2>3. CASE \E id \in MessageIds, reload \in BOOLEAN : IncomingFiltered(c, t, id, reload)
    BY <2>3 DEF IncomingFiltered, Awake
  <2> QED BY <1>1, <2>1, <2>2, <2>3 DEF GameStep, Incoming, Outgoing
<1>2. CASE LibraryStep(c)
  <2>1. CASE StartWorkerThread(c)
    <3>1. early'[c] = sent[c] /\ queue'[c] = queue[c]
      BY <2>1 DEF StartWorkerThread, Inv, Typed, TypeOK
    <3>2. \A i \in 1..Len(queue[c]) : queue[c][i] <= sent[c] BY DEF Inv, Ordered, Ord
    <3> QED BY <3>1, <3>2 DEF Awake
  <2>2. CASE AttachHooks(c) \/ EndSignal(c) \/ EndClose(c) \/ EndReset(c)
    <3>1. attached'[c] # "yes"
      BY <2>2 DEF AttachHooks, EndSignal, EndClose, EndReset, Inv, Typed, TypeOK
    <3> QED BY <3>1 DEF Awake
  <2> QED BY <1>2, <2>1, <2>2 DEF LibraryStep
<1>3. CASE WorkerStep(c)
  <2>1. CASE WorkerDrained(c)
    <3>1. queue'[c] = <<>> BY <2>1 DEF WorkerDrained
    <3> QED BY <3>1 DEF Awake
  <2>2. CASE WorkerTest(c)
    <3>1. worker[c] = "test" /\ UNCHANGED <<attached, event, thread, queue, early>>
      BY <2>2 DEF WorkerTest
    <3> QED BY <3>1 DEF Awake
  <2>3. CASE \/ WorkerWake(c) \/ WorkerWaitFails(c) \/ WorkerPop(c) \/ WorkerSend(c)
             \/ \E longAgo \in BOOLEAN : WorkerLook(c, longAgo)
    <3>1. worker'[c] \notin {"test", "wait"}
      BY <2>3 DEF WorkerWake, WorkerWaitFails, WorkerPop, WorkerSend, WorkerLook,
                  Inv, Typed, TypeOK
    <3> QED BY <3>1 DEF Awake
  <2> QED BY <1>3, <2>1, <2>2, <2>3 DEF WorkerStep
<1>4. CASE AppStart \/ AppExit \/ ChangeRegistry \/ UNCHANGED vars
  <2>1. UNCHANGED <<attached, worker, event, thread, queue, early>>
    BY <1>4 DEF AppStart, AppExit, ChangeRegistry, vars
  <2> QED BY <2>1 DEF Awake
<1> QED BY <1>1, <1>2, <1>3, <1>4 DEF Next

\* If there is one client only, its worker never goes to sleep on a message that
\* was queued after the event existed, for any number of game threads. (With
\* two clients the event they share makes Dispatched fail.)
THEOREM OneClientAwake ==
    ASSUME NEW c \in Clients, \A d \in Clients : d = c
    PROVE  Spec => []NoLostWakeup
<1>1. Init => Awake(c) BY DEF Init, Awake
<1>2. Inv /\ Awake(c) /\ [Next]_vars => Awake(c)' BY StaysAwake
<1>3. Awake(c) => NoLostWakeup BY DEF Awake, NoLostWakeup
<1> QED BY <1>1, <1>2, <1>3, AlwaysInv, PTL DEF Spec, Safety

-----------------------------------------------------------------------------
(* Numbers.                                                                *)

\* A set of numbers has a least one: the intervals below its members are
\* well-founded.
LEMMA LeastNumber ==
    ASSUME NEW M, M \subseteq Nat, M # {}
    PROVE  \E m \in M : \A n \in M : m <= n
<1> DEFINE T == {1..n : n \in M}
<1>1. T \subseteq FiniteSubsetsOf(Nat)
  <2>1. \A n \in M : IsFiniteSet(1..n) BY FS_Interval
  <2> QED BY <2>1 DEF FiniteSubsetsOf
<1>2. \E x \in T : \A y \in T : ~ (<<y, x>> \in StrictSubsetOrdering(Nat))
  <2>1. T # {} OBVIOUS
  <2>2. IsWellFoundedOn(StrictSubsetOrdering(Nat), FiniteSubsetsOf(Nat))
    BY FS_StrictSubsetOrderingWellFounded
  <2> HIDE DEF T
  <2> QED BY <1>1, <2>1, <2>2, WFMin
<1>3. PICK m \in M : \A n \in M : ~ (<<1..n, 1..m>> \in StrictSubsetOrdering(Nat))
  BY <1>2
<1>4. ASSUME NEW n \in M, n < m PROVE FALSE
  <2>1. 1..n \subseteq 1..m /\ m \in 1..m /\ m \notin 1..n BY <1>4
  <2>2. 1..n \in SUBSET Nat /\ 1..m \in SUBSET Nat BY <1>4
  <2> QED BY <1>3, <2>1, <2>2 DEF StrictSubsetOrdering
<1> QED BY <1>4

\* A set that has 0 and with every number the next one has them all.
LEMMA Induction ==
    ASSUME NEW S, 0 \in S, \A n \in Nat : n \in S => n + 1 \in S
    PROVE  Nat \subseteq S
<1> SUFFICES ASSUME Nat \ S # {} PROVE FALSE OBVIOUS
<1>1. PICK m \in Nat \ S : \A n \in Nat \ S : m <= n BY LeastNumber
<1>2. m # 0 /\ m - 1 \in Nat /\ ~ (m <= m - 1) BY <1>1
<1>3. m - 1 \in S BY <1>1, <1>2
<1> QED BY <1>1, <1>2, <1>3

-----------------------------------------------------------------------------
(* Fields and where they lie.                                              *)

\* The ends of the fields are found one after the other: the function that Ends
\* defines by recursion exists.
LEMMA EndsLoop ==
    ASSUME NEW fields, Len(fields) \in Nat
    PROVE  /\ Ends(fields)[0] = 0
           /\ \A n \in Nat : n < Len(fields) =>
                 Ends(fields)[n + 1] = Ends(fields)[n] + fields[n + 1][2]
<1> DEFINE Next1(g, n) == IF n = 0 THEN 0 ELSE g[n - 1] + fields[n][2]
           Loop(g, m) == g = [n \in 0..m |-> Next1(g, n)]
           S == {m \in Nat : \E g : Loop(g, m)}
<1>1. 0 \in S
  <2>1. Loop([n \in 0..0 |-> 0], 0) OBVIOUS
  <2> QED BY <2>1
<1>2. ASSUME NEW m \in Nat, m \in S PROVE m + 1 \in S
  <2>1. PICK g : Loop(g, m) BY <1>2
  <2> DEFINE x == g[m] + fields[m + 1][2]
             h == [n \in 0..(m + 1) |-> IF n <= m THEN g[n] ELSE x]
  <2>2. ASSUME NEW n \in 0..(m + 1) PROVE h[n] = Next1(h, n)
    <3>1. CASE n = 0 BY <2>1, <3>1
    <3>2. CASE n # 0 /\ n <= m
      <4>1. n - 1 \in 0..m /\ n \in 0..m BY <3>2
      <4>2. g[n] = Next1(g, n) BY <2>1, <4>1
      <4>3. h[n - 1] = g[n - 1] /\ h[n] = g[n] BY <3>2, <4>1
      <4> HIDE DEF h
      <4> QED BY <4>2, <4>3
    <3>3. CASE n = m + 1
      <4>1. h[n - 1] = g[m] /\ h[n] = x BY <3>3
      <4> HIDE DEF h
      <4> QED BY <3>3, <4>1
    <3> QED BY <3>1, <3>2, <3>3
  <2>3. Loop(h, m + 1)
    <3>1. h = [n \in 0..(m + 1) |-> h[n]] OBVIOUS
    <3> HIDE DEF h, Next1
    <3> QED BY <3>1, <2>2
  <2> HIDE DEF Loop
  <2> QED BY <2>3
<1>3. Nat \subseteq S
  <2> HIDE DEF S
  <2> QED BY <1>1, <1>2, Induction
<1>4. \E g : Loop(g, Len(fields)) BY <1>3
<1> DEFINE end == CHOOSE g : Loop(g, Len(fields))
<1>5. Ends(fields) = end BY DEF Ends
<1>6. Loop(end, Len(fields))
  <2> HIDE DEF Loop
  <2> QED BY <1>4
<1> HIDE DEF end
<1>7. \A n \in 0..Len(fields) : end[n] = Next1(end, n)
  <2> HIDE DEF Next1
  <2> QED BY <1>6
<1>8. ASSUME NEW n \in Nat, n < Len(fields) PROVE end[n + 1] = end[n] + fields[n + 1][2]
  <2>1. n + 1 \in 0..Len(fields) /\ n + 1 # 0 /\ (n + 1) - 1 = n BY <1>8
  <2>2. end[n + 1] = Next1(end, n + 1) BY <1>7, <2>1
  <2> QED BY <2>1, <2>2
<1>9. end[0] = 0 BY <1>7
<1> QED BY <1>5, <1>8, <1>9

\* Fields have a width, so that each ends behind the one before it.
LEMMA EndsGrow ==
    ASSUME NEW fields, Len(fields) \in Nat,
           \A n \in 1..Len(fields) : fields[n][2] \in Nat \ {0}
    PROVE  /\ \A n \in 0..Len(fields) : Ends(fields)[n] \in Nat
           /\ \A i \in 0..Len(fields), n \in 0..Len(fields) :
                 i < n => Ends(fields)[i] < Ends(fields)[n]
<1> DEFINE S == {n \in Nat : n <= Len(fields) =>
                    /\ Ends(fields)[n] \in Nat
                    /\ \A i \in 0..(n - 1) : Ends(fields)[i] \in Nat /\ Ends(fields)[i] < Ends(fields)[n]}
<1>1. 0 \in S BY EndsLoop
<1>2. ASSUME NEW n \in Nat, n \in S PROVE n + 1 \in S
  <2> SUFFICES ASSUME n + 1 <= Len(fields)
               PROVE  /\ Ends(fields)[n + 1] \in Nat
                      /\ \A i \in 0..n : Ends(fields)[i] \in Nat /\ Ends(fields)[i] < Ends(fields)[n + 1]
    OBVIOUS
  <2>1. Ends(fields)[n + 1] = Ends(fields)[n] + fields[n + 1][2] BY EndsLoop
  <2>2. fields[n + 1][2] \in Nat \ {0} OBVIOUS
  <2>3. Ends(fields)[n] \in Nat BY <1>2
  <2>4. \A i \in 0..(n - 1) : Ends(fields)[i] \in Nat /\ Ends(fields)[i] < Ends(fields)[n] BY <1>2
  <2>5. \A i \in 0..n : i \in 0..(n - 1) \/ i = n OBVIOUS
  <2> QED BY <2>1, <2>2, <2>3, <2>4, <2>5
<1>3. Nat \subseteq S
  <2> HIDE DEF S
  <2> QED BY <1>1, <1>2, Induction
<1>4. ASSUME NEW n \in 0..Len(fields)
      PROVE  /\ Ends(fields)[n] \in Nat
             /\ \A i \in 0..(n - 1) : Ends(fields)[i] < Ends(fields)[n]
  <2>1. n \in Nat /\ n <= Len(fields) OBVIOUS
  <2> QED BY <1>3, <2>1
<1>5. ASSUME NEW i \in 0..Len(fields), NEW n \in 0..Len(fields), i < n
      PROVE  Ends(fields)[i] < Ends(fields)[n]
  <2>1. i \in 0..(n - 1) BY <1>5
  <2> QED BY <1>4, <2>1
<1> QED BY <1>4, <1>5

\* What is read where a field begins, in its width, is the field.
LEMMA FieldRead ==
    ASSUME NEW fields \in Seq(Field), NEW i \in 1..Len(fields)
    PROVE  ReadAt(Message(fields), Ends(fields)[i - 1], fields[i][2]) = <<fields[i][1], fields[i][3]>>
<1> DEFINE end == Ends(fields)
           begins == {end[n - 1] : n \in DOMAIN fields}
           at == [q \in begins |-> fields[CHOOSE n \in DOMAIN fields : end[n - 1] = q]]
           q == end[i - 1]
<1>1. DOMAIN fields = 1..Len(fields) /\ Len(fields) \in Nat OBVIOUS
<1>2. \A n \in 1..Len(fields) : fields[n][2] \in Nat \ {0} BY DEF Field
<1>3. \A k \in 0..Len(fields), n \in 0..Len(fields) : k < n => end[k] < end[n] BY <1>1, <1>2, EndsGrow
<1>4. \A n \in 0..Len(fields) : end[n] \in Nat BY <1>1, <1>2, EndsGrow
<1>5. ASSUME NEW n \in DOMAIN fields, end[n - 1] = q PROVE n = i
  <2>1. n - 1 \in 0..Len(fields) /\ i - 1 \in 0..Len(fields) BY <1>1
  <2>2. ~ (n - 1 < i - 1) /\ ~ (i - 1 < n - 1) BY <1>3, <1>4, <1>5, <2>1
  <2> QED BY <1>1, <2>1, <2>2
<1>6. q \in begins /\ i \in DOMAIN fields BY <1>1
<1>7. (CHOOSE n \in DOMAIN fields : end[n - 1] = q) = i BY <1>5, <1>6
<1>8. at[q] = fields[i] BY <1>6, <1>7
<1>9. Message(fields).at = at BY DEF Message
<1>10. q \in DOMAIN at BY <1>6
<1> HIDE DEF at, q
<1> QED BY <1>8, <1>9, <1>10 DEF ReadAt, q

-----------------------------------------------------------------------------
(* Cursors and structs.                                                    *)

\* Where a cursor stands and what it has after each step of a script.
ReadsBy(c, m, start, script) ==
  /\ c[0] = [pos |-> start, got |-> <<>>]
  /\ \A n \in Nat : n < Len(script) => c[n + 1] = Step(m, c[n], script[n + 1])
  /\ Read(m, start, script) = c[Len(script)]

\* A script is read step by step: the function that Read defines by recursion
\* exists.
LEMMA ReadLoop ==
    ASSUME NEW m, NEW start, NEW script, Len(script) \in Nat
    PROVE  \E c : ReadsBy(c, m, start, script)
<1> DEFINE Start == [pos |-> start, got |-> <<>>]
           Turn1(g, n) == IF n = 0 THEN Start ELSE Step(m, g[n - 1], script[n])
           Loop(g, k) == g = [n \in 0..k |-> Turn1(g, n)]
           S == {k \in Nat : \E g : Loop(g, k)}
<1>1. 0 \in S
  <2> HIDE DEF Start
  <2>1. Loop([n \in 0..0 |-> Start], 0) OBVIOUS
  <2> QED BY <2>1
<1>2. ASSUME NEW k \in Nat, k \in S PROVE k + 1 \in S
  <2>1. PICK g : Loop(g, k) BY <1>2
  <2> DEFINE x == Step(m, g[k], script[k + 1])
             h == [n \in 0..(k + 1) |-> IF n <= k THEN g[n] ELSE x]
  <2>2. ASSUME NEW n \in 0..(k + 1) PROVE h[n] = Turn1(h, n)
    <3> HIDE DEF Start
    <3>1. CASE n = 0 BY <2>1, <3>1
    <3>2. CASE n # 0 /\ n <= k
      <4>1. n - 1 \in 0..k /\ n \in 0..k BY <3>2
      <4>2. g[n] = Turn1(g, n) BY <2>1, <4>1
      <4>3. h[n - 1] = g[n - 1] /\ h[n] = g[n] BY <3>2, <4>1
      <4> HIDE DEF h
      <4> QED BY <4>2, <4>3
    <3>3. CASE n = k + 1
      <4>1. h[n - 1] = g[k] /\ h[n] = x BY <3>3
      <4> HIDE DEF h
      <4> QED BY <3>3, <4>1
    <3> QED BY <3>1, <3>2, <3>3
  <2>3. Loop(h, k + 1)
    <3>1. h = [n \in 0..(k + 1) |-> h[n]] OBVIOUS
    <3> HIDE DEF h, Turn1
    <3> QED BY <3>1, <2>2
  <2> HIDE DEF Loop
  <2> QED BY <2>3
<1>3. Nat \subseteq S
  <2> HIDE DEF S
  <2> QED BY <1>1, <1>2, Induction
<1>4. \E g : Loop(g, Len(script)) BY <1>3
<1> DEFINE c == CHOOSE g : Loop(g, Len(script))
<1>5. Read(m, start, script) = c[Len(script)] BY DEF Read
<1>6. Loop(c, Len(script))
  <2> HIDE DEF Loop
  <2> QED BY <1>4
<1> HIDE DEF c
<1>7. \A n \in 0..Len(script) : c[n] = Turn1(c, n)
  <2> HIDE DEF Turn1
  <2> QED BY <1>6
<1>8. ASSUME NEW n \in Nat, n < Len(script) PROVE c[n + 1] = Step(m, c[n], script[n + 1])
  <2>1. n + 1 \in 0..Len(script) /\ n + 1 # 0 /\ (n + 1) - 1 = n BY <1>8
  <2>2. c[n + 1] = Turn1(c, n + 1) BY <1>7, <2>1
  <2> QED BY <2>1, <2>2
<1>9. c[0] = Start BY <1>7
<1>10. ReadsBy(c, m, start, script) BY ONLY <1>5, <1>8, <1>9 DEF ReadsBy
<1> QED BY ONLY <1>10

\* A cursor that stands before a field and pops its width has the field and stands
\* behind it.
LEMMA FieldPopped ==
    ASSUME NEW fields \in Seq(Field), NEW i \in 1..Len(fields), NEW c, NEW s,
           c.pos = Ends(fields)[i - 1], s[1] # "skip", s[2] = fields[i][2]
    PROVE  Step(Message(fields), c, s)
             = [pos |-> Ends(fields)[i],
                got |-> With(c.got, s[3], <<fields[i][1], fields[i][3]>>)]
<1>1. ReadAt(Message(fields), c.pos, s[2]) = <<fields[i][1], fields[i][3]>> BY FieldRead
<1>2. Ends(fields)[i] = c.pos + s[2]
  <2>1. i - 1 \in Nat /\ i - 1 < Len(fields) /\ (i - 1) + 1 = i /\ Len(fields) \in Nat OBVIOUS
  <2> QED BY <2>1, EndsLoop
<1> QED BY <1>1, <1>2 DEF Step

\* A cursor that skips a field stands behind it.
LEMMA FieldSkipped ==
    ASSUME NEW fields \in Seq(Field), NEW i \in 1..Len(fields), NEW c, NEW s,
           c.pos = Ends(fields)[i - 1], s[1] = "skip", s[2] = fields[i][2]
    PROVE  Step(Message(fields), c, s) = [pos |-> Ends(fields)[i], got |-> c.got]
<1>1. Len(fields) \in Nat /\ fields[i][2] \in Nat /\ i - 1 \in 0..Len(fields) /\ i \in 0..Len(fields)
  BY DEF Field
<1>2. \A n \in 1..Len(fields) : fields[n][2] \in Nat \ {0} BY DEF Field
<1>3. Ends(fields)[i] = c.pos + s[2]
  <2>1. i - 1 \in Nat /\ i - 1 < Len(fields) /\ (i - 1) + 1 = i OBVIOUS
  <2> QED BY <1>1, <2>1, EndsLoop
<1>4. /\ \A n \in 0..Len(fields) : Ends(fields)[n] \in Nat
      /\ \A k \in 0..Len(fields), n \in 0..Len(fields) : k < n => Ends(fields)[k] < Ends(fields)[n]
  BY <1>1, <1>2, EndsGrow
<1>5. Ends(fields)[i] <= Ends(fields)[Len(fields)] /\ c.pos \in Nat
        /\ Ends(fields)[i] \in Nat /\ Ends(fields)[Len(fields)] \in Nat
  BY <1>1, <1>4
<1>6. Message(fields).end = Ends(fields)[Len(fields)] BY DEF Message
<1>7. Skip(Message(fields), c.pos, s[2]) = Ends(fields)[i] BY <1>1, <1>3, <1>5, <1>6 DEF Skip
<1> QED BY <1>7 DEF Step

-----------------------------------------------------------------------------
(* Headers.                                                                *)

\* What stands at a place of two sequences, one after the other.
LEMMA Joined ==
    ASSUME NEW T, NEW s \in Seq(T), NEW t \in Seq(T)
    PROVE  /\ s \o t \in Seq(T) /\ Len(s \o t) = Len(s) + Len(t)
           /\ \A n \in 1..Len(s) : (s \o t)[n] = s[n]
           /\ \A n \in 1..Len(t) : (s \o t)[Len(s) + n] = t[n]
OBVIOUS

\* What stands where in two fields and seven more.
LEMMA TwoAndSeven ==
    ASSUME NEW T, NEW p \in Seq(T), NEW q \in Seq(T)
    PROVE  Len(p) = 2 /\ Len(q) = 7 =>
             /\ p \o q \in Seq(T) /\ Len(p \o q) = 9
             /\ (p \o q)[1] = p[1] /\ (p \o q)[2] = p[2] /\ (p \o q)[3] = q[1]
             /\ (p \o q)[4] = q[2] /\ (p \o q)[5] = q[3] /\ (p \o q)[6] = q[4]
             /\ (p \o q)[7] = q[5] /\ (p \o q)[8] = q[6] /\ (p \o q)[9] = q[7]
<1> DEFINE s == p \o q
<1>1. s \in Seq(T) /\ Len(s) = Len(p) + Len(q) BY Joined
<1>2. \A n \in 1..Len(p) : s[n] = p[n] BY Joined
<1>3. \A n \in 1..Len(q) : s[Len(p) + n] = q[n] BY Joined
<1> HIDE DEF s
<1> HAVE Len(p) = 2 /\ Len(q) = 7
<1>4. s[1] = p[1] /\ s[2] = p[2] BY <1>2
<1>5. \A n \in 1..7 : s[2 + n] = q[n] BY <1>3
<1>6. s[2 + 1] = q[1] /\ s[2 + 2] = q[2] /\ s[2 + 3] = q[3] /\ s[2 + 4] = q[4]
      /\ s[2 + 5] = q[5] /\ s[2 + 6] = q[6] /\ s[2 + 7] = q[7]
  BY <1>5
<1>7. s[3] = q[1] /\ s[4] = q[2] /\ s[5] = q[3] /\ s[6] = q[4] /\ s[7] = q[5] /\ s[8] = q[6] /\ s[9] = q[7]
  BY <1>6
<1> QED BY <1>1, <1>4, <1>7 DEF s

\* What a sequence begins with stands at the same place in it.
LEMMA PrefixFields ==
    ASSUME NEW T, NEW h \in Seq(T), NEW U, NEW s \in Seq(U), IsPrefix(h, s)
    PROVE  /\ Len(h) <= Len(s)
           /\ \A n \in 1..Len(h) : s[n] = h[n]
<1>1. Len(h) <= Len(s) /\ SubSeq(h, 1, Len(h)) = SubSeq(s, 1, Len(h)) BY DEF IsPrefix
<1>2. \A n \in 1..Len(h) : SubSeq(h, 1, Len(h))[n] = h[n] /\ SubSeq(s, 1, Len(h))[n] = s[n]
  BY <1>1
<1> QED BY <1>1, <1>2

\* The header of a message of the server: its fields and where they end.
LEMMA ServerHeader ==
    ASSUME NEW fields \in Seq(Field), NEW type, type # "D",
           IsPrefix(SentHeader("server", type), fields)
    PROVE  /\ Len(fields) \in Nat /\ Len(fields) >= 9
           /\ fields[1] = <<"seq", 2, 0>> /\ fields[2] = <<"type", 2, 0>>
           /\ fields[3] = <<"protocol", 2, 0>> /\ fields[4] = <<"msgsize", 2, 0>>
           /\ fields[5] = <<"serverid", 4, 0>> /\ fields[6] = <<"charid", 4, 0>>
           /\ fields[7] = <<"msgid", 4, 0>> /\ fields[8] = <<"target.low", 4, 0>>
           /\ fields[9] = <<"target.high", 4, 0>>
<1> DEFINE p == << <<"seq", 2, 0>>, <<"type", 2, 0>> >>
           q == << <<"protocol", 2, 0>>, <<"msgsize", 2, 0>>, <<"serverid", 4, 0>>,
                   <<"charid", 4, 0>>, <<"msgid", 4, 0>>, <<"target.low", 4, 0>>,
                   <<"target.high", 4, 0>> >>
           h == p \o q
<1>1. SentHeader("server", type) = h
  <2>1. SentHeader("server", type) = p \o <<>> \o q BY DEF SentHeader, F
  <2>2. p \o <<>> = p OBVIOUS
  <2> QED BY <2>1, <2>2
<1> DEFINE T == {p[1], p[2], q[1], q[2], q[3], q[4], q[5], q[6], q[7]}
<1>2. p \in Seq(T) /\ Len(p) = 2
  <2>1. \A n \in 1..2 : p[n] \in T OBVIOUS
  <2> HIDE DEF T
  <2> QED BY <2>1
<1>3. q \in Seq(T) /\ Len(q) = 7
  <2>1. \A n \in 1..7 : q[n] \in T OBVIOUS
  <2> HIDE DEF T
  <2> QED BY <2>1
<1>4. /\ p[1] = <<"seq", 2, 0>> /\ p[2] = <<"type", 2, 0>> OBVIOUS
<1>5. /\ q[1] = <<"protocol", 2, 0>> /\ q[2] = <<"msgsize", 2, 0>>
      /\ q[3] = <<"serverid", 4, 0>> /\ q[4] = <<"charid", 4, 0>>
      /\ q[5] = <<"msgid", 4, 0>> /\ q[6] = <<"target.low", 4, 0>>
      /\ q[7] = <<"target.high", 4, 0>> OBVIOUS
<1> HIDE DEF p, q, T
<1>6. /\ h \in Seq(T) /\ Len(h) = 9
      /\ h[1] = p[1] /\ h[2] = p[2] /\ h[3] = q[1] /\ h[4] = q[2] /\ h[5] = q[3]
      /\ h[6] = q[4] /\ h[7] = q[5] /\ h[8] = q[6] /\ h[9] = q[7]
  <2>1. p \in Seq(T) /\ q \in Seq(T) BY <1>2, <1>3
  <2> QED BY <1>2, <1>3, <2>1, TwoAndSeven
<1>8. IsPrefix(h, fields) BY <1>1
<1> HIDE DEF h
<1>9. Len(h) <= Len(fields) /\ \A n \in 1..Len(h) : fields[n] = h[n] BY <1>6, <1>8, PrefixFields
<1>10. Len(fields) \in Nat /\ Len(fields) >= 9 BY <1>6, <1>9
<1>11. fields[1] = h[1] /\ fields[2] = h[2] /\ fields[3] = h[3] /\ fields[4] = h[4]
       /\ fields[5] = h[5] /\ fields[6] = h[6] /\ fields[7] = h[7] /\ fields[8] = h[8]
       /\ fields[9] = h[9]
  BY <1>6, <1>9
<1> QED BY <1>4, <1>5, <1>6, <1>10, <1>11

\* Where the fields of such a header end.
LEMMA ServerEnds ==
    ASSUME NEW fields \in Seq(Field), NEW type, type # "D",
           IsPrefix(SentHeader("server", type), fields)
    PROVE  /\ Ends(fields)[0] = 0 /\ Ends(fields)[1] = 2 /\ Ends(fields)[2] = 4
           /\ Ends(fields)[3] = 6 /\ Ends(fields)[4] = 8 /\ Ends(fields)[5] = 12
           /\ Ends(fields)[6] = 16 /\ Ends(fields)[7] = 20 /\ Ends(fields)[8] = 24
           /\ Ends(fields)[9] = 28
<1>1. Len(fields) \in Nat /\ Len(fields) >= 9 BY ServerHeader
<1> DEFINE e == Ends(fields)
<1>2. e[0] = 0 /\ \A n \in Nat : n < Len(fields) => e[n + 1] = e[n] + fields[n + 1][2]
  BY <1>1, EndsLoop
<1>3. /\ fields[1][2] = 2 /\ fields[2][2] = 2 /\ fields[3][2] = 2 /\ fields[4][2] = 2
      /\ fields[5][2] = 4 /\ fields[6][2] = 4 /\ fields[7][2] = 4 /\ fields[8][2] = 4
      /\ fields[9][2] = 4
  BY ServerHeader
<1> HIDE DEF e
<1>4. e[1] = e[0] + fields[1][2] BY <1>1, <1>2
<1>5. e[2] = e[1] + fields[2][2] BY <1>1, <1>2
<1>6. e[3] = e[2] + fields[3][2] BY <1>1, <1>2
<1>7. e[4] = e[3] + fields[4][2] BY <1>1, <1>2
<1>8. e[5] = e[4] + fields[5][2] BY <1>1, <1>2
<1>9. e[6] = e[5] + fields[6][2] BY <1>1, <1>2
<1>10. e[7] = e[6] + fields[7][2] BY <1>1, <1>2
<1>11. e[8] = e[7] + fields[8][2] BY <1>1, <1>2
<1>12. e[9] = e[8] + fields[9][2] BY <1>1, <1>2
<1>13. e[0] = 0 /\ e[1] = 2 /\ e[2] = 4 /\ e[3] = 6 /\ e[4] = 8
  BY <1>2, <1>3, <1>4, <1>5, <1>6, <1>7
<1>14. e[5] = 12 /\ e[6] = 16 /\ e[7] = 20 /\ e[8] = 24 /\ e[9] = 28
  BY <1>3, <1>13, <1>8, <1>9, <1>10, <1>11, <1>12
<1> QED BY <1>13, <1>14 DEF e

\* The header of a message of the client: its fields and where they end.
LEMMA ClientHeader ==
    ASSUME NEW fields \in Seq(Field), NEW type, IsPrefix(SentHeader("client", type), fields)
    PROVE  /\ Len(fields) \in Nat /\ Len(fields) >= 7
           /\ fields[1] = <<"type", 4, 0>> /\ fields[2] = <<"zero", 4, 0>>
           /\ fields[3] = <<"receiver", 4, 0>> /\ fields[4] = <<"two", 4, 0>>
           /\ fields[5] = <<"msgid", 4, 0>> /\ fields[6] = <<"target.low", 4, 0>>
           /\ fields[7] = <<"target.high", 4, 0>>
<1> DEFINE h == << <<"type", 4, 0>>, <<"zero", 4, 0>>, <<"receiver", 4, 0>>, <<"two", 4, 0>>,
                   <<"msgid", 4, 0>>, <<"target.low", 4, 0>>, <<"target.high", 4, 0>> >>
           T == {h[1], h[2], h[3], h[4], h[5], h[6], h[7]}
<1>1. SentHeader("client", type) = h BY DEF SentHeader, F
<1>2. h \in Seq(T) /\ Len(h) = 7
  <2>1. \A n \in 1..7 : h[n] \in T OBVIOUS
  <2> HIDE DEF T
  <2> QED BY <2>1
<1>3. /\ h[1] = <<"type", 4, 0>> /\ h[2] = <<"zero", 4, 0>>
      /\ h[3] = <<"receiver", 4, 0>> /\ h[4] = <<"two", 4, 0>>
      /\ h[5] = <<"msgid", 4, 0>> /\ h[6] = <<"target.low", 4, 0>>
      /\ h[7] = <<"target.high", 4, 0>>
  OBVIOUS
<1> HIDE DEF h, T
<1>4. Len(h) <= Len(fields) /\ \A n \in 1..Len(h) : fields[n] = h[n] BY <1>1, <1>2, PrefixFields
<1>5. fields[1] = h[1] /\ fields[2] = h[2] /\ fields[3] = h[3] /\ fields[4] = h[4]
      /\ fields[5] = h[5] /\ fields[6] = h[6] /\ fields[7] = h[7]
  BY <1>2, <1>4
<1> QED BY <1>2, <1>3, <1>4, <1>5

\* Where the fields of such a header end.
LEMMA ClientEnds ==
    ASSUME NEW fields \in Seq(Field), NEW type, IsPrefix(SentHeader("client", type), fields)
    PROVE  /\ Ends(fields)[0] = 0 /\ Ends(fields)[1] = 4 /\ Ends(fields)[2] = 8
           /\ Ends(fields)[3] = 12 /\ Ends(fields)[4] = 16 /\ Ends(fields)[5] = 20
           /\ Ends(fields)[6] = 24 /\ Ends(fields)[7] = 28
<1>1. Len(fields) \in Nat /\ Len(fields) >= 7 BY ClientHeader
<1> DEFINE e == Ends(fields)
<1>2. e[0] = 0 /\ \A n \in Nat : n < Len(fields) => e[n + 1] = e[n] + fields[n + 1][2]
  BY <1>1, EndsLoop
<1>3. /\ fields[1][2] = 4 /\ fields[2][2] = 4 /\ fields[3][2] = 4 /\ fields[4][2] = 4
      /\ fields[5][2] = 4 /\ fields[6][2] = 4 /\ fields[7][2] = 4
  BY ClientHeader
<1> HIDE DEF e
<1>4. e[1] = e[0] + fields[1][2] BY <1>1, <1>2
<1>5. e[2] = e[1] + fields[2][2] BY <1>1, <1>2
<1>6. e[3] = e[2] + fields[3][2] BY <1>1, <1>2
<1>7. e[4] = e[3] + fields[4][2] BY <1>1, <1>2
<1>8. e[5] = e[4] + fields[5][2] BY <1>1, <1>2
<1>9. e[6] = e[5] + fields[6][2] BY <1>1, <1>2
<1>10. e[7] = e[6] + fields[7][2] BY <1>1, <1>2
<1>11. e[0] = 0 /\ e[1] = 4 /\ e[2] = 8 /\ e[3] = 12 /\ e[4] = 16
  BY <1>2, <1>3, <1>4, <1>5, <1>6, <1>7
<1>12. e[5] = 20 /\ e[6] = 24 /\ e[7] = 28 BY <1>3, <1>11, <1>8, <1>9, <1>10
<1> QED BY <1>11, <1>12 DEF e

\* What a pop adds to what was read.
LEMMA Got ==
    ASSUME NEW got, NEW name, NEW value
    PROVE  With(got, name, value)[name] = value /\ name \in DOMAIN With(got, name, value)
BY DEF With

\* A pop leaves what was read under other names.
LEMMA GotBefore ==
    ASSUME NEW got, NEW name, NEW value, NEW x \in DOMAIN got, x # name
    PROVE  With(got, name, value)[x] = got[x] /\ x \in DOMAIN With(got, name, value)
BY DEF With

\* Where the members of the struct of the header are laid.
LEMMA HeaderPlaced ==
    /\ {"msgsize", "charid", "msgid", "target.high"} \subseteq DOMAIN Placed(Header)
    /\ Placed(Header)["msgsize"] = <<6, 2>>
    /\ Placed(Header)["charid"] = <<12, 4>>
    /\ Placed(Header)["msgid"] = <<16, 4>>
    /\ Placed(Header)["target.high"] = <<24, 4>>
<1> DEFINE h == << <<"headerid", 4>>, <<"unknown1", 2>>, <<"msgsize", 2>>, <<"serverid", 4>>,
                   <<"charid", 4>>, <<"msgid", 4>>, <<"target.low", 4>>, <<"target.high", 4>> >>
           e == Ends(Header)
<1>1. Header = h BY DEF Header
<1>2. /\ h[1] = <<"headerid", 4>> /\ h[2] = <<"unknown1", 2>> /\ h[3] = <<"msgsize", 2>>
      /\ h[4] = <<"serverid", 4>> /\ h[5] = <<"charid", 4>> /\ h[6] = <<"msgid", 4>>
      /\ h[7] = <<"target.low", 4>> /\ h[8] = <<"target.high", 4>>
      /\ Len(h) = 8 /\ DOMAIN h = 1..8
  OBVIOUS
<1> HIDE DEF h
<1>3. /\ Header[1] = <<"headerid", 4>> /\ Header[2] = <<"unknown1", 2>> /\ Header[3] = <<"msgsize", 2>>
      /\ Header[4] = <<"serverid", 4>> /\ Header[5] = <<"charid", 4>> /\ Header[6] = <<"msgid", 4>>
      /\ Header[7] = <<"target.low", 4>> /\ Header[8] = <<"target.high", 4>>
      /\ Len(Header) = 8 /\ DOMAIN Header = 1..8
  BY <1>1, <1>2
<1>4. e[0] = 0 /\ \A n \in Nat : n < 8 => e[n + 1] = e[n] + Header[n + 1][2]
  <2>1. Len(Header) \in Nat BY <1>3
  <2>2. \A n \in Nat : n < Len(Header) => e[n + 1] = e[n] + Header[n + 1][2] BY <2>1, EndsLoop
  <2>3. e[0] = 0 BY <2>1, EndsLoop
  <2> HIDE DEF e
  <2> QED BY <1>3, <2>2, <2>3
<1> HIDE DEF e
<1>5. /\ Header[1][2] = 4 /\ Header[2][2] = 2 /\ Header[3][2] = 2 /\ Header[4][2] = 4
      /\ Header[5][2] = 4 /\ Header[6][2] = 4 /\ Header[7][2] = 4 /\ Header[8][2] = 4
  BY <1>3
<1>6. e[1] = e[0] + Header[1][2] BY <1>4
<1>7. e[2] = e[1] + Header[2][2] BY <1>4
<1>8. e[3] = e[2] + Header[3][2] BY <1>4
<1>9. e[4] = e[3] + Header[4][2] BY <1>4
<1>10. e[5] = e[4] + Header[5][2] BY <1>4
<1>11. e[6] = e[5] + Header[6][2] BY <1>4
<1>12. e[7] = e[6] + Header[7][2] BY <1>4
<1>13. e[2] = 6 /\ e[4] = 12 /\ e[5] = 16 /\ e[7] = 24
  <2>1. e[1] = 4 /\ e[2] = 6 /\ e[3] = 8 BY <1>4, <1>5, <1>6, <1>7, <1>8
  <2>2. e[4] = 12 /\ e[5] = 16 BY <1>5, <1>9, <1>10, <2>1
  <2> QED BY <1>5, <1>11, <1>12, <2>1, <2>2
<1>14. /\ Header[1][1] = "headerid" /\ Header[2][1] = "unknown1" /\ Header[3][1] = "msgsize"
       /\ Header[4][1] = "serverid" /\ Header[5][1] = "charid" /\ Header[6][1] = "msgid"
       /\ Header[7][1] = "target.low" /\ Header[8][1] = "target.high"
  BY <1>3
<1>15. ASSUME NEW i \in 1..8, \A j \in 1..8 : Header[j][1] = Header[i][1] => j = i
       PROVE  /\ Header[i][1] \in DOMAIN Placed(Header)
              /\ Placed(Header)[Header[i][1]] = <<e[i - 1], Header[i][2]>>
  <2> DEFINE x == Header[i][1]
             k == CHOOSE j \in DOMAIN Header : Header[j][1] = x
  <2>1. k = i BY <1>3, <1>15
  <2>2. x \in {Header[j][1] : j \in DOMAIN Header} BY <1>3
  <2> HIDE DEF x
  <2>3. x \in DOMAIN Placed(Header) /\ Placed(Header)[x] = <<Ends(Header)[k - 1], Header[k][2]>>
    BY <2>2 DEF Placed
  <2> HIDE DEF k
  <2> QED BY <2>1, <2>3 DEF x, e
<1>16. \A j \in 1..8 : j = 1 \/ j = 2 \/ j = 3 \/ j = 4 \/ j = 5 \/ j = 6 \/ j = 7 \/ j = 8 OBVIOUS
<1>17. "msgsize" \in DOMAIN Placed(Header) /\ Placed(Header)["msgsize"] = <<6, 2>>
  <2>1. \A j \in 1..8 : Header[j][1] = Header[3][1] => j = 3 BY <1>14, <1>16
  <2> QED BY <1>5, <1>13, <1>14, <1>15, <2>1
<1>18. "charid" \in DOMAIN Placed(Header) /\ Placed(Header)["charid"] = <<12, 4>>
  <2>1. \A j \in 1..8 : Header[j][1] = Header[5][1] => j = 5 BY <1>14, <1>16
  <2> QED BY <1>5, <1>13, <1>14, <1>15, <2>1
<1>19. "msgid" \in DOMAIN Placed(Header) /\ Placed(Header)["msgid"] = <<16, 4>>
  <2>1. \A j \in 1..8 : Header[j][1] = Header[6][1] => j = 6 BY <1>14, <1>16
  <2> QED BY <1>5, <1>13, <1>14, <1>15, <2>1
<1>20. "target.high" \in DOMAIN Placed(Header) /\ Placed(Header)["target.high"] = <<24, 4>>
  <2>1. \A j \in 1..8 : Header[j][1] = Header[8][1] => j = 8 BY <1>14, <1>16
  <2> QED BY <1>5, <1>13, <1>14, <1>15, <2>1
<1> QED BY <1>17, <1>18, <1>19, <1>20

\* What the struct of the header shows of a message.
LEMMA HeaderOverlay ==
    ASSUME NEW m
    PROVE  /\ Overlay(m, 0, Header)["msgsize"] = ReadAt(m, 6, 2)
           /\ Overlay(m, 0, Header)["charid"] = ReadAt(m, 12, 4)
           /\ Overlay(m, 0, Header)["msgid"] = ReadAt(m, 16, 4)
           /\ Overlay(m, 0, Header)["target.high"] = ReadAt(m, 24, 4)
<1> DEFINE P == Placed(Header)
           o == [x \in DOMAIN P |-> ReadAt(m, 0 + P[x][1], P[x][2])]
<1>1. Overlay(m, 0, Header) = o BY DEF Overlay
<1> HIDE DEF P
<1>2. o["msgsize"] = ReadAt(m, 6, 2) BY HeaderPlaced DEF P
<1>3. o["charid"] = ReadAt(m, 12, 4) BY HeaderPlaced DEF P
<1>4. o["msgid"] = ReadAt(m, 16, 4) BY HeaderPlaced DEF P
<1>5. o["target.high"] = ReadAt(m, 24, 4) BY HeaderPlaced DEF P
<1> QED BY <1>1, <1>2, <1>3, <1>4, <1>5

\* What the cursor of a parser finds in the header of a message of the server.
LEMMA ServerParsed ==
    ASSUME NEW fields \in Seq(Field), NEW type \in ServerTypes, type # "D",
           IsPrefix(SentHeader("server", type), fields)
    PROVE  \E got : /\ AOMessageBase(Message(fields), type).got = got
                    /\ got["size"] = <<"msgsize", 0>> /\ got["characterid"] = <<"charid", 0>>
                    /\ got["messageid"] = <<"msgid", 0>> /\ got["entityid"] = <<"target.high", 0>>
<1> DEFINE p == << <<"skip", 2>>, <<"pop", 2, "type">> >>
           q == << <<"skip", 2>>, <<"pop", 2, "size">>, <<"skip", 4>>, <<"pop", 4, "characterid">>,
                   <<"pop", 4, "messageid">>, <<"skip", 4>>, <<"pop", 4, "entityid">> >>
           script == p \o q
           m == Message(fields)
           e == Ends(fields)
           value(i) == <<fields[i][1], fields[i][3]>>
<1>1. AOMessageBase(m, type) = Read(m, 0, script)
  <2> HIDE DEF m
  <2>1. AOMessageBase(m, type) = Read(m, 0, p \o <<>> \o q) BY DEF AOMessageBase
  <2>2. p \o <<>> = p OBVIOUS
  <2> QED BY <2>1, <2>2
<1> DEFINE T == {p[1], p[2], q[1], q[2], q[3], q[4], q[5], q[6], q[7]}
<1>2. p \in Seq(T) /\ Len(p) = 2
  <2>1. \A n \in 1..2 : p[n] \in T OBVIOUS
  <2> HIDE DEF T
  <2> QED BY <2>1
<1>3. q \in Seq(T) /\ Len(q) = 7
  <2>1. \A n \in 1..7 : q[n] \in T OBVIOUS
  <2> HIDE DEF T
  <2> QED BY <2>1
<1>4. p[1] = <<"skip", 2>> /\ p[2] = <<"pop", 2, "type">> OBVIOUS
<1>5. /\ q[1] = <<"skip", 2>> /\ q[2] = <<"pop", 2, "size">> /\ q[3] = <<"skip", 4>>
      /\ q[4] = <<"pop", 4, "characterid">> /\ q[5] = <<"pop", 4, "messageid">>
      /\ q[6] = <<"skip", 4>> /\ q[7] = <<"pop", 4, "entityid">>
  OBVIOUS
<1> HIDE DEF p, q, T
<1>6. /\ Len(script) = 9
      /\ script[1] = p[1] /\ script[2] = p[2] /\ script[3] = q[1] /\ script[4] = q[2] /\ script[5] = q[3]
      /\ script[6] = q[4] /\ script[7] = q[5] /\ script[8] = q[6] /\ script[9] = q[7]
  <2>1. p \in Seq(T) /\ q \in Seq(T) BY <1>2, <1>3
  <2> QED BY <1>2, <1>3, <2>1, TwoAndSeven
<1> HIDE DEF script
<1>9. PICK c : /\ c[0] = [pos |-> 0, got |-> <<>>]
               /\ \A n \in Nat : n < 9 => c[n + 1] = Step(m, c[n], script[n + 1])
               /\ Read(m, 0, script) = c[9]
  <2>1. Len(script) \in Nat BY <1>6
  <2> HIDE DEF m
  <2> DEFINE start == 0
  <2> HIDE DEF start
  <2>2. PICK c : ReadsBy(c, m, start, script) BY ONLY <2>1, ReadLoop
  <2>3. ReadsBy(c, m, 0, script) BY <2>2 DEF start
  <2> QED BY <1>6, <2>3 DEF ReadsBy
<1>10. /\ Len(fields) \in Nat /\ Len(fields) >= 9
       /\ fields[2][2] = 2 /\ fields[1][2] = 2 /\ fields[3][2] = 2
       /\ fields[4] = <<"msgsize", 2, 0>> /\ fields[5][2] = 4
       /\ fields[6] = <<"charid", 4, 0>> /\ fields[7] = <<"msgid", 4, 0>>
       /\ fields[8][2] = 4 /\ fields[9] = <<"target.high", 4, 0>>
  BY ServerHeader
<1>11. e[0] = 0 BY <1>10, EndsLoop
<1>12. \A i \in 1..9 : i \in 1..Len(fields) BY <1>10
<1>13. ASSUME NEW i \in 1..9, c[i - 1].pos = e[i - 1], script[i][1] = "skip", script[i][2] = fields[i][2]
       PROVE  c[i].pos = e[i] /\ c[i].got = c[i - 1].got
  <2>1. i - 1 \in Nat /\ i - 1 < 9 /\ (i - 1) + 1 = i OBVIOUS
  <2>2. c[i] = Step(m, c[i - 1], script[i]) BY <1>9, <2>1
  <2>3. Step(m, c[i - 1], script[i]) = [pos |-> e[i], got |-> c[i - 1].got]
    BY <1>12, <1>13, FieldSkipped
  <2> HIDE DEF e
  <2> QED BY <2>2, <2>3
<1>14. ASSUME NEW k \in 0..8, NEW i \in 1..9, i = k + 1, c[k].pos = e[k],
              script[i][1] # "skip", script[i][2] = fields[i][2]
       PROVE  /\ c[i].pos = e[i]
              /\ c[i].got = With(c[k].got, script[i][3], value(i))
  <2>1. c[i] = Step(m, c[k], script[i]) BY <1>9, <1>14
  <2>2. Step(m, c[k], script[i])
          = [pos |-> e[i], got |-> With(c[k].got, script[i][3], value(i))]
    <3>1. c[k].pos = Ends(fields)[i - 1] BY <1>14
    <3>2. i \in 1..Len(fields) BY <1>12
    <3> QED BY <1>14, <3>1, <3>2, FieldPopped
  <2> HIDE DEF e
  <2> QED BY <2>1, <2>2
<1> HIDE DEF e, m
<1>15. /\ script[1][1] = "skip" /\ script[1][2] = 2
       /\ script[2][1] # "skip" /\ script[2][2] = 2
       /\ script[3][1] = "skip" /\ script[3][2] = 2
       /\ script[4][1] # "skip" /\ script[4][2] = 2 /\ script[4][3] = "size"
       /\ script[5][1] = "skip" /\ script[5][2] = 4
       /\ script[6][1] # "skip" /\ script[6][2] = 4 /\ script[6][3] = "characterid"
       /\ script[7][1] # "skip" /\ script[7][2] = 4 /\ script[7][3] = "messageid"
       /\ script[8][1] = "skip" /\ script[8][2] = 4
       /\ script[9][1] # "skip" /\ script[9][2] = 4 /\ script[9][3] = "entityid"
  BY <1>4, <1>5, <1>6
<1>16. /\ fields[4][1] = "msgsize" /\ fields[4][2] = 2 /\ fields[4][3] = 0
       /\ fields[6][1] = "charid" /\ fields[6][2] = 4 /\ fields[6][3] = 0
       /\ fields[7][1] = "msgid" /\ fields[7][2] = 4 /\ fields[7][3] = 0
       /\ fields[9][1] = "target.high" /\ fields[9][2] = 4 /\ fields[9][3] = 0
  BY <1>10
<1>17. /\ value(4) = <<"msgsize", 0>> /\ value(6) = <<"charid", 0>>
       /\ value(7) = <<"msgid", 0>> /\ value(9) = <<"target.high", 0>>
  BY <1>16
<1> HIDE DEF value
<1>20. c[0].pos = e[0] BY <1>9, <1>11
<1>21. c[1].pos = e[1] BY <1>20, <1>13, <1>15, <1>10
<1>22. c[2].pos = e[2] BY <1>21, <1>14, <1>15, <1>10
<1>23. c[3].pos = e[3] BY <1>22, <1>13, <1>15, <1>10
<1>24. c[4].pos = e[4] /\ c[4].got = With(c[3].got, "size", <<"msgsize", 0>>)
  <2>1. c[4].pos = e[4] BY <1>23, <1>14, <1>15, <1>16
  <2>2. c[4].got = With(c[3].got, script[4][3], value(4))
    BY <1>23, <1>14, <1>15, <1>16
  <2> QED BY <2>1, <2>2, <1>15, <1>17
<1>25. c[5].pos = e[5] /\ c[5].got = c[4].got BY <1>24, <1>13, <1>15, <1>10
<1>26. c[6].pos = e[6] /\ c[6].got = With(c[5].got, "characterid", <<"charid", 0>>)
  <2>1. c[6].pos = e[6] BY <1>25, <1>14, <1>15, <1>16
  <2>2. c[6].got = With(c[5].got, script[6][3], value(6))
    BY <1>25, <1>14, <1>15, <1>16
  <2> QED BY <2>1, <2>2, <1>15, <1>17
<1>27. c[7].pos = e[7] /\ c[7].got = With(c[6].got, "messageid", <<"msgid", 0>>)
  <2>1. c[7].pos = e[7] BY <1>26, <1>14, <1>15, <1>16
  <2>2. c[7].got = With(c[6].got, script[7][3], value(7))
    BY <1>26, <1>14, <1>15, <1>16
  <2> QED BY <2>1, <2>2, <1>15, <1>17
<1>28. c[8].pos = e[8] /\ c[8].got = c[7].got BY <1>27, <1>13, <1>15, <1>10
<1>29. c[9].got = With(c[8].got, "entityid", <<"target.high", 0>>)
  <2>1. c[9].pos = e[9] BY <1>28, <1>14, <1>15, <1>16
  <2>2. c[9].got = With(c[8].got, script[9][3], value(9))
    BY <1>28, <1>14, <1>15, <1>16
  <2> QED BY <2>1, <2>2, <1>15, <1>17
<1>30. "size" \in DOMAIN c[5].got /\ c[5].got["size"] = <<"msgsize", 0>> BY <1>24, <1>25, Got
<1>31. "characterid" \in DOMAIN c[6].got /\ c[6].got["characterid"] = <<"charid", 0>> BY <1>26, Got
<1>32. "size" \in DOMAIN c[6].got /\ c[6].got["size"] = <<"msgsize", 0>> BY <1>26, <1>30, GotBefore
<1>33. "messageid" \in DOMAIN c[7].got /\ c[7].got["messageid"] = <<"msgid", 0>> BY <1>27, Got
<1>34. "characterid" \in DOMAIN c[7].got /\ c[7].got["characterid"] = <<"charid", 0>>
  BY <1>27, <1>31, GotBefore
<1>35. "size" \in DOMAIN c[7].got /\ c[7].got["size"] = <<"msgsize", 0>> BY <1>27, <1>32, GotBefore
<1>36. c[9].got["entityid"] = <<"target.high", 0>> BY <1>29, Got
<1>37. c[9].got["messageid"] = <<"msgid", 0>> BY <1>28, <1>29, <1>33, GotBefore
<1>38. c[9].got["characterid"] = <<"charid", 0>> BY <1>28, <1>29, <1>34, GotBefore
<1>39. c[9].got["size"] = <<"msgsize", 0>> BY <1>28, <1>29, <1>35, GotBefore
<1> QED BY <1>1, <1>9, <1>36, <1>37, <1>38, <1>39 DEF m

\* What the cursor of a parser finds in the header of a message of the client.
LEMMA ClientParsed ==
    ASSUME NEW fields \in Seq(Field), NEW type \in ClientTypes,
           IsPrefix(SentHeader("client", type), fields)
    PROVE  \E got : /\ AOClientMessageBase(Message(fields), type).got = got
                    /\ got["messageid"] = <<"msgid", 0>> /\ got["characterid"] = <<"target.high", 0>>
<1> DEFINE script == << <<"pop", 4, "type">>, <<"skip", 4>>, <<"skip", 4>>, <<"skip", 4>>,
                        <<"pop", 4, "messageid">>, <<"skip", 4>>, <<"pop", 4, "characterid">> >>
           m == Message(fields)
           e == Ends(fields)
           value(i) == <<fields[i][1], fields[i][3]>>
<1>1. AOClientMessageBase(m, type) = Read(m, 0, script)
  <2> HIDE DEF m
  <2> QED BY DEF AOClientMessageBase
<1>2. /\ script[1] = <<"pop", 4, "type">> /\ script[2] = <<"skip", 4>> /\ script[3] = <<"skip", 4>>
      /\ script[4] = <<"skip", 4>> /\ script[5] = <<"pop", 4, "messageid">>
      /\ script[6] = <<"skip", 4>> /\ script[7] = <<"pop", 4, "characterid">>
      /\ Len(script) = 7
  OBVIOUS
<1> HIDE DEF script
<1>3. PICK c : /\ c[0] = [pos |-> 0, got |-> <<>>]
               /\ \A n \in Nat : n < 7 => c[n + 1] = Step(m, c[n], script[n + 1])
               /\ Read(m, 0, script) = c[7]
  <2>1. Len(script) \in Nat BY <1>2
  <2> HIDE DEF m
  <2> DEFINE start == 0
  <2> HIDE DEF start
  <2>2. PICK c : ReadsBy(c, m, start, script) BY ONLY <2>1, ReadLoop
  <2>3. ReadsBy(c, m, 0, script) BY <2>2 DEF start
  <2> QED BY <1>2, <2>3 DEF ReadsBy
<1>4. /\ Len(fields) \in Nat /\ Len(fields) >= 7
      /\ fields[1][2] = 4 /\ fields[2][2] = 4 /\ fields[3][2] = 4 /\ fields[4][2] = 4
      /\ fields[5] = <<"msgid", 4, 0>> /\ fields[6][2] = 4 /\ fields[7] = <<"target.high", 4, 0>>
  BY ClientHeader
<1>5. e[0] = 0 BY <1>4, EndsLoop
<1>6. \A i \in 1..7 : i \in 1..Len(fields) BY <1>4
<1>7. ASSUME NEW i \in 1..7, c[i - 1].pos = e[i - 1], script[i][1] = "skip", script[i][2] = fields[i][2]
      PROVE  c[i].pos = e[i] /\ c[i].got = c[i - 1].got
  <2>1. i - 1 \in Nat /\ i - 1 < 7 /\ (i - 1) + 1 = i OBVIOUS
  <2>2. c[i] = Step(m, c[i - 1], script[i]) BY <1>3, <2>1
  <2>3. Step(m, c[i - 1], script[i]) = [pos |-> e[i], got |-> c[i - 1].got]
    BY <1>6, <1>7, FieldSkipped
  <2> HIDE DEF e
  <2> QED BY <2>2, <2>3
<1>8. ASSUME NEW k \in 0..6, NEW i \in 1..7, i = k + 1, c[k].pos = e[k],
             script[i][1] # "skip", script[i][2] = fields[i][2]
      PROVE  /\ c[i].pos = e[i]
             /\ c[i].got = With(c[k].got, script[i][3], value(i))
  <2>1. c[i] = Step(m, c[k], script[i]) BY <1>3, <1>8
  <2>2. Step(m, c[k], script[i]) = [pos |-> e[i], got |-> With(c[k].got, script[i][3], value(i))]
    <3>1. c[k].pos = Ends(fields)[i - 1] BY <1>8
    <3>2. i \in 1..Len(fields) BY <1>6
    <3> QED BY <1>8, <3>1, <3>2, FieldPopped
  <2> HIDE DEF e
  <2> QED BY <2>1, <2>2
<1> HIDE DEF e, m
<1>9. /\ script[1][1] # "skip" /\ script[1][2] = 4
      /\ script[2][1] = "skip" /\ script[2][2] = 4
      /\ script[3][1] = "skip" /\ script[3][2] = 4
      /\ script[4][1] = "skip" /\ script[4][2] = 4
      /\ script[5][1] # "skip" /\ script[5][2] = 4 /\ script[5][3] = "messageid"
      /\ script[6][1] = "skip" /\ script[6][2] = 4
      /\ script[7][1] # "skip" /\ script[7][2] = 4 /\ script[7][3] = "characterid"
  BY <1>2
<1>10. fields[5][2] = 4 /\ fields[7][2] = 4 BY <1>4
<1>11. value(5) = <<"msgid", 0>> /\ value(7) = <<"target.high", 0>> BY <1>4
<1> HIDE DEF value
<1>20. c[0].pos = e[0] BY <1>3, <1>5
<1>21. c[1].pos = e[1] BY <1>20, <1>8, <1>9, <1>4
<1>22. c[2].pos = e[2] BY <1>21, <1>7, <1>9, <1>4
<1>23. c[3].pos = e[3] BY <1>22, <1>7, <1>9, <1>4
<1>24. c[4].pos = e[4] BY <1>23, <1>7, <1>9, <1>4
<1>25. c[5].pos = e[5] /\ c[5].got = With(c[4].got, "messageid", <<"msgid", 0>>)
  <2>1. c[5].pos = e[5] BY <1>24, <1>8, <1>9, <1>10
  <2>2. c[5].got = With(c[4].got, script[5][3], value(5)) BY <1>24, <1>8, <1>9, <1>10
  <2> QED BY <2>1, <2>2, <1>9, <1>11
<1>26. c[6].pos = e[6] /\ c[6].got = c[5].got BY <1>25, <1>7, <1>9, <1>4
<1>27. c[7].got = With(c[6].got, "characterid", <<"target.high", 0>>)
  <2>1. c[7].got = With(c[6].got, script[7][3], value(7)) BY <1>26, <1>8, <1>9, <1>10
  <2> QED BY <2>1, <1>9, <1>11
<1>28. "messageid" \in DOMAIN c[6].got /\ c[6].got["messageid"] = <<"msgid", 0>> BY <1>25, <1>26, Got
<1>29. c[7].got["messageid"] = <<"msgid", 0>> BY <1>27, <1>28, GotBefore
<1>30. c[7].got["characterid"] = <<"target.high", 0>> BY <1>27, Got
<1> QED BY <1>1, <1>3, <1>29, <1>30 DEF m

\* What the struct of the header shows of a message of the server.
LEMMA ServerShown ==
    ASSUME NEW fields \in Seq(Field), NEW type, type # "D",
           IsPrefix(SentHeader("server", type), fields)
    PROVE  /\ AOMessageHeader(Message(fields), TRUE).msgid = <<"msgid", 0>>
           /\ AOMessageHeader(Message(fields), TRUE).charid = <<"charid", 0>>
           /\ AOMessageHeader(Message(fields), TRUE).size = <<"msgsize", 0>>
           /\ AOMessageHeader(Message(fields), TRUE).targetId = <<"target.high", 0>>
<1> DEFINE m == Message(fields)
           e == Ends(fields)
<1>1. /\ Len(fields) \in Nat /\ Len(fields) >= 9
      /\ fields[4] = <<"msgsize", 2, 0>> /\ fields[6] = <<"charid", 4, 0>>
      /\ fields[7] = <<"msgid", 4, 0>> /\ fields[9] = <<"target.high", 4, 0>>
  BY ServerHeader
<1>2. e[3] = 6 /\ e[5] = 12 /\ e[6] = 16 /\ e[8] = 24 BY ServerEnds
<1>3. \A i \in 1..9 : ReadAt(m, e[i - 1], fields[i][2]) = <<fields[i][1], fields[i][3]>>
  <2>1. \A i \in 1..9 : i \in 1..Len(fields) BY <1>1
  <2> QED BY <2>1, FieldRead
<1> HIDE DEF m, e
<1>4. /\ ReadAt(m, e[3], fields[4][2]) = <<fields[4][1], fields[4][3]>>
      /\ ReadAt(m, e[5], fields[6][2]) = <<fields[6][1], fields[6][3]>>
      /\ ReadAt(m, e[6], fields[7][2]) = <<fields[7][1], fields[7][3]>>
      /\ ReadAt(m, e[8], fields[9][2]) = <<fields[9][1], fields[9][3]>>
  <2>1. /\ ReadAt(m, e[4 - 1], fields[4][2]) = <<fields[4][1], fields[4][3]>>
        /\ ReadAt(m, e[6 - 1], fields[6][2]) = <<fields[6][1], fields[6][3]>>
        /\ ReadAt(m, e[7 - 1], fields[7][2]) = <<fields[7][1], fields[7][3]>>
        /\ ReadAt(m, e[9 - 1], fields[9][2]) = <<fields[9][1], fields[9][3]>>
    BY <1>3
  <2> QED BY <2>1
<1>5. /\ ReadAt(m, 6, 2) = <<"msgsize", 0>> /\ ReadAt(m, 12, 4) = <<"charid", 0>>
      /\ ReadAt(m, 16, 4) = <<"msgid", 0>> /\ ReadAt(m, 24, 4) = <<"target.high", 0>>
  BY <1>1, <1>2, <1>4
<1>6. /\ Overlay(m, 0, Header)["msgsize"] = <<"msgsize", 0>>
      /\ Overlay(m, 0, Header)["charid"] = <<"charid", 0>>
      /\ Overlay(m, 0, Header)["msgid"] = <<"msgid", 0>>
      /\ Overlay(m, 0, Header)["target.high"] = <<"target.high", 0>>
  BY <1>5, HeaderOverlay
<1>7. /\ AOMessageHeader(m, TRUE).msgid = <<"msgid", 0>>
      /\ AOMessageHeader(m, TRUE).charid = <<"charid", 0>>
      /\ AOMessageHeader(m, TRUE).size = <<"msgsize", 0>>
      /\ AOMessageHeader(m, TRUE).targetId = <<"target.high", 0>>
  BY <1>6 DEF AOMessageHeader
<1> QED BY <1>7 DEF m

\* What it shows of a message of the client.
LEMMA ClientShown ==
    ASSUME NEW fields \in Seq(Field), NEW type, IsPrefix(SentHeader("client", type), fields)
    PROVE  /\ AOMessageHeader(Message(fields), FALSE).msgid = <<"msgid", 0>>
           /\ AOMessageHeader(Message(fields), FALSE).charid = <<"target.high", 0>>
<1> DEFINE m == Message(fields)
           e == Ends(fields)
<1>1. /\ Len(fields) \in Nat /\ Len(fields) >= 7
      /\ fields[5] = <<"msgid", 4, 0>> /\ fields[7] = <<"target.high", 4, 0>>
  BY ClientHeader
<1>2. e[4] = 16 /\ e[6] = 24 BY ClientEnds
<1>3. \A i \in 1..7 : ReadAt(m, e[i - 1], fields[i][2]) = <<fields[i][1], fields[i][3]>>
  <2>1. \A i \in 1..7 : i \in 1..Len(fields) BY <1>1
  <2> QED BY <2>1, FieldRead
<1> HIDE DEF m, e
<1>4. /\ ReadAt(m, e[4], fields[5][2]) = <<fields[5][1], fields[5][3]>>
      /\ ReadAt(m, e[6], fields[7][2]) = <<fields[7][1], fields[7][3]>>
  <2>1. /\ ReadAt(m, e[5 - 1], fields[5][2]) = <<fields[5][1], fields[5][3]>>
        /\ ReadAt(m, e[7 - 1], fields[7][2]) = <<fields[7][1], fields[7][3]>>
    BY <1>3
  <2> QED BY <2>1
<1>5. ReadAt(m, 16, 4) = <<"msgid", 0>> /\ ReadAt(m, 24, 4) = <<"target.high", 0>>
  BY <1>1, <1>2, <1>4
<1>6. /\ Overlay(m, 0, Header)["msgid"] = <<"msgid", 0>>
      /\ Overlay(m, 0, Header)["target.high"] = <<"target.high", 0>>
  BY <1>5, HeaderOverlay
<1>7. /\ AOMessageHeader(m, FALSE).msgid = <<"msgid", 0>>
      /\ AOMessageHeader(m, FALSE).charid = <<"target.high", 0>>
  BY <1>6 DEF AOMessageHeader
<1> QED BY <1>7 DEF m

-----------------------------------------------------------------------------
(* The handlers.                                                           *)

\* What is decoded was delivered, its header was read twice, and its handler
\* has read the rest.
DecodedTwice ==
  /\ data = NoData \/ data \in Inputs
  /\ Known =>
       /\ Input \in Inputs
       /\ \/ /\ Input.origin = "server" /\ Input.type \in ServerTypes
             /\ decoded.head = AOMessageBase(Message(Input.fields), Input.type).got
             /\ decoded.header = AOMessageHeader(Message(Input.fields), TRUE)
          \/ /\ Input.origin = "client" /\ Input.type \in ClientTypes
             /\ decoded.head = AOClientMessageBase(Message(Input.fields), Input.type).got
             /\ decoded.header = AOMessageHeader(Message(Input.fields), FALSE)
       /\ decoded.body = Body(Message(Input.fields), Input.type, Input.kind)

\* Every step keeps it.
LEMMA DecodedTwiceKept ==
    ASSUME DecodedTwice, [MessagesNext]_msgvars
    PROVE  DecodedTwice'
<1>1. ASSUME NEW origin, Deliver(origin) PROVE DecodedTwice'
  BY <1>1 DEF Deliver, DecodedTwice, Known, NoData
<1>2. ASSUME OnAOServerMessage PROVE DecodedTwice'
  <2> DEFINE m == Message(data.fields)
             head == AOMessageBase(m, data.type).got
  <2>1. data.origin = "server" /\ data' = NoData /\ decoded' = Handled(m, head, TRUE)
    BY <1>2 DEF OnAOServerMessage
  <2>2. data \in Inputs BY <2>1 DEF DecodedTwice, NoData
  <2>3. data.type \notin ServerTypes => head = <<>>
    <3> HIDE DEF m
    <3> QED BY DEF AOMessageBase
  <2> HIDE DEF head, m
  <2>4. CASE head = <<>> BY <2>1, <2>4 DEF Handled, Known, DecodedTwice
  <2>5. CASE head # <<>>
    <3>1. /\ decoded'.input = data /\ decoded'.head = head
          /\ decoded'.header = AOMessageHeader(m, TRUE)
          /\ decoded'.body = Body(m, data.type, data.kind)
      BY <2>1, <2>5 DEF Handled
    <3>2. data.type \in ServerTypes BY <2>3, <2>5
    <3> QED BY <2>1, <2>2, <3>1, <3>2 DEF DecodedTwice, Known, Input, head, m
  <2> QED BY <2>4, <2>5
<1>3. ASSUME OnAOClientMessage PROVE DecodedTwice'
  <2> DEFINE m == Message(data.fields)
             head == AOClientMessageBase(m, data.type).got
  <2>1. data.origin = "client" /\ data' = NoData /\ decoded' = Handled(m, head, FALSE)
    BY <1>3 DEF OnAOClientMessage
  <2>2. data \in Inputs BY <2>1 DEF DecodedTwice, NoData
  <2>3. data.type \notin ClientTypes => head = <<>>
    <3> HIDE DEF m
    <3> QED BY DEF AOClientMessageBase
  <2> HIDE DEF head, m
  <2>4. CASE head = <<>> BY <2>1, <2>4 DEF Handled, Known, DecodedTwice
  <2>5. CASE head # <<>>
    <3>1. /\ decoded'.input = data /\ decoded'.head = head
          /\ decoded'.header = AOMessageHeader(m, FALSE)
          /\ decoded'.body = Body(m, data.type, data.kind)
      BY <2>1, <2>5 DEF Handled
    <3>2. data.type \in ClientTypes BY <2>3, <2>5
    <3> QED BY <2>1, <2>2, <3>1, <3>2 DEF DecodedTwice, Known, Input, head, m
  <2> QED BY <2>4, <2>5
<1>4. CASE UNCHANGED msgvars BY <1>4 DEF msgvars, DecodedTwice, Known, Input
<1> QED BY <1>1, <1>2, <1>3, <1>4 DEF MessagesNext

\* It makes the two readings the same.
LEMMA TwiceAgree ==
    ASSUME DecodedTwice
    PROVE  HandlersAgree
<1> SUFFICES ASSUME Known, Input.type # "D"
             PROVE  /\ decoded.head["messageid"] = decoded.header.msgid
                    /\ decoded.head["characterid"] = decoded.header.charid
                    /\ decoded.header.charid # Torn
                    /\ Input.origin = "server" =>
                         /\ decoded.head["entityid"] = decoded.header.targetId
                         /\ decoded.head["size"] = decoded.header.size
  BY DEF HandlersAgree
<1>1. Input \in Inputs BY DEF DecodedTwice
<1>2. Input.fields \in Seq(Field) /\ IsPrefix(SentHeader(Input.origin, Input.type), Input.fields)
  BY <1>1, InputsAssumption
<1> DEFINE fields == Input.fields
           type == Input.type
<1>3. CASE /\ Input.origin = "server" /\ type \in ServerTypes
           /\ decoded.head = AOMessageBase(Message(fields), type).got
           /\ decoded.header = AOMessageHeader(Message(fields), TRUE)
  <2> HIDE DEF fields, type
  <2>1. fields \in Seq(Field) /\ IsPrefix(SentHeader("server", type), fields) /\ type # "D"
    BY <1>2, <1>3 DEF fields, type
  <2>2. /\ decoded.head["size"] = <<"msgsize", 0>> /\ decoded.head["characterid"] = <<"charid", 0>>
        /\ decoded.head["messageid"] = <<"msgid", 0>> /\ decoded.head["entityid"] = <<"target.high", 0>>
    BY <1>3, <2>1, ServerParsed
  <2>3. /\ decoded.header.msgid = <<"msgid", 0>> /\ decoded.header.charid = <<"charid", 0>>
        /\ decoded.header.size = <<"msgsize", 0>> /\ decoded.header.targetId = <<"target.high", 0>>
    BY <1>3, <2>1, ServerShown
  <2>4. <<"charid", 0>> # Torn BY DEF Torn
  <2> QED BY <2>2, <2>3, <2>4
<1>4. CASE /\ Input.origin = "client" /\ type \in ClientTypes
           /\ decoded.head = AOClientMessageBase(Message(fields), type).got
           /\ decoded.header = AOMessageHeader(Message(fields), FALSE)
  <2> HIDE DEF fields, type
  <2>1. fields \in Seq(Field) /\ IsPrefix(SentHeader("client", type), fields)
    BY <1>2, <1>4 DEF fields, type
  <2>2. decoded.head["messageid"] = <<"msgid", 0>> /\ decoded.head["characterid"] = <<"target.high", 0>>
    BY <1>4, <2>1, ClientParsed
  <2>3. decoded.header.msgid = <<"msgid", 0>> /\ decoded.header.charid = <<"target.high", 0>>
    BY <1>4, <2>1, ClientShown
  <2>4. <<"target.high", 0>> # Torn BY DEF Torn
  <2> QED BY <1>4, <2>2, <2>3, <2>4
<1> QED BY <1>3, <1>4 DEF DecodedTwice

\* Whatever follows the header of a message, and whatever messages come: the
\* cursor and the struct read the same header out of it.
THEOREM DecodersAgree == MessagesSpec => []HandlersAgree
<1>1. MessagesInit => DecodedTwice BY DEF MessagesInit, DecodedTwice, Known, NoData
<1>2. DecodedTwice /\ [MessagesNext]_msgvars => DecodedTwice' BY DecodedTwiceKept
<1>3. DecodedTwice => HandlersAgree BY TwiceAgree
<1> QED BY <1>1, <1>2, <1>3, PTL DEF MessagesSpec

-----------------------------------------------------------------------------
(* Parts of a message.                                                     *)

\* s is a sequence of whatever.
Listed(s) == \E T : s \in Seq(T)

\* The part s of a message begins behind the first b fields.
PartAt(fields, b, s) ==
  /\ Listed(s) /\ b \in Nat /\ b + Len(s) <= Len(fields)
  /\ \A j \in 1..Len(s) : fields[b + j] = s[j]

\* Two sequences one after the other are one.
LEMMA ListedJoined ==
    ASSUME NEW s, NEW t, Listed(s), Listed(t)
    PROVE  /\ Listed(s \o t) /\ Len(s) \in Nat /\ Len(t) \in Nat /\ Len(s \o t) = Len(s) + Len(t)
           /\ \A j \in 1..Len(s) : (s \o t)[j] = s[j]
           /\ \A j \in 1..Len(t) : (s \o t)[Len(s) + j] = t[j]
<1>1. PICK T : s \in Seq(T) BY DEF Listed
<1>2. PICK U : t \in Seq(U) BY DEF Listed
<1> DEFINE V == T \cup U
<1>3. s \in Seq(V) /\ t \in Seq(V)
  <2>1. T \subseteq V /\ U \subseteq V OBVIOUS
  <2> HIDE DEF V
  <2>2. \A j \in 1..Len(s) : s[j] \in V BY <1>1, <2>1
  <2>3. \A j \in 1..Len(t) : t[j] \in V BY <1>2, <2>1
  <2>4. Len(s) \in Nat /\ DOMAIN s = 1..Len(s) BY <1>1
  <2>5. Len(t) \in Nat /\ DOMAIN t = 1..Len(t) BY <1>2
  <2>6. s = [j \in 1..Len(s) |-> s[j]] BY <1>1
  <2>7. t = [j \in 1..Len(t) |-> t[j]] BY <1>2
  <2>8. s \in Seq(V) BY <1>1, <2>2, <2>4, <2>6
  <2>9. t \in Seq(V) BY <1>2, <2>3, <2>5, <2>7
  <2> QED BY <2>8, <2>9
<1> HIDE DEF V
<1>4. s \o t \in Seq(V) BY <1>3
<1>5. Listed(s \o t) BY <1>4 DEF Listed
<1>6. Len(s) \in Nat /\ Len(t) \in Nat BY <1>3
<1>7. Len(s \o t) = Len(s) + Len(t) BY <1>3
<1>8. \A j \in 1..Len(s) : (s \o t)[j] = s[j] BY <1>3
<1>9. \A j \in 1..Len(t) : (s \o t)[Len(s) + j] = t[j] BY <1>3
<1> QED BY <1>5, <1>6, <1>7, <1>8, <1>9

\* The parts of a part.
LEMMA PartJoined ==
    ASSUME NEW fields, NEW b, NEW s, NEW t, Listed(s), Listed(t), PartAt(fields, b, s \o t),
           Len(fields) \in Nat
    PROVE  PartAt(fields, b, s) /\ PartAt(fields, b + Len(s), t) /\ Len(s) \in Nat
<1>1. /\ Listed(s \o t) /\ Len(s) \in Nat /\ Len(t) \in Nat /\ Len(s \o t) = Len(s) + Len(t)
      /\ \A j \in 1..Len(s) : (s \o t)[j] = s[j]
      /\ \A j \in 1..Len(t) : (s \o t)[Len(s) + j] = t[j]
  BY ListedJoined
<1> DEFINE u == s \o t
<1>2. b \in Nat /\ b + Len(u) <= Len(fields) /\ \A j \in 1..Len(u) : fields[b + j] = u[j]
  BY DEF PartAt
<1>3. /\ Len(u) = Len(s) + Len(t)
      /\ \A j \in 1..Len(s) : u[j] = s[j]
      /\ \A j \in 1..Len(t) : u[Len(s) + j] = t[j]
  BY <1>1
<1> HIDE DEF u
<1>4. \A j \in 1..Len(s) : fields[b + j] = s[j] BY <1>1, <1>2, <1>3
<1>5. ASSUME NEW j \in 1..Len(t) PROVE fields[(b + Len(s)) + j] = t[j]
  <2>1. Len(s) + j \in 1..Len(u) BY <1>1, <1>3
  <2>2. fields[b + (Len(s) + j)] = t[j] BY <1>2, <1>3, <2>1
  <2>3. b + (Len(s) + j) = (b + Len(s)) + j BY <1>1, <1>2
  <2> QED BY <2>2, <2>3
<1> QED BY <1>1, <1>2, <1>3, <1>4, <1>5 DEF PartAt

\* A product grows by one of its factors.
LEMMA OneMore ==
    ASSUME NEW n \in Nat, NEW L \in Nat
    PROVE  n * L \in Nat /\ (n + 1) * L = n * L + L /\ 0 * L = 0
OBVIOUS

\* FlattenSeq puts one sequence behind the other: the function it defines by
\* recursion exists.
LEMMA FlattenLoop ==
    ASSUME NEW seqs, Len(seqs) \in Nat, Len(seqs) # 0
    PROVE  \E f : /\ f[1] = seqs[1]
                  /\ \A n \in Nat : n > 0 /\ n < Len(seqs) => f[n + 1] = f[n] \o seqs[n + 1]
                  /\ FlattenSeq(seqs) = f[Len(seqs)]
<1> DEFINE Turn1(g, n) == IF n = 1 THEN seqs[n] ELSE g[n - 1] \o seqs[n]
           Loop(g, k) == g = [n \in 1..k |-> Turn1(g, n)]
           S == {k \in Nat : \E g : Loop(g, k)}
<1>1. 0 \in S
  <2>1. Loop([n \in 1..0 |-> 0], 0) OBVIOUS
  <2> QED BY <2>1
<1>2. ASSUME NEW k \in Nat, k \in S PROVE k + 1 \in S
  <2>1. PICK g : Loop(g, k) BY <1>2
  <2> DEFINE x == Turn1(g, k + 1)
             h == [n \in 1..(k + 1) |-> IF n <= k THEN g[n] ELSE x]
  <2>2. ASSUME NEW n \in 1..(k + 1) PROVE h[n] = Turn1(h, n)
    <3>1. CASE n = 1 /\ n <= k
      <4>1. g[n] = Turn1(g, n)
        <5> HIDE DEF Turn1
        <5> QED BY <2>1, <3>1
      <4>2. h[n] = g[n] BY <3>1
      <4> HIDE DEF h
      <4> QED BY <3>1, <4>1, <4>2
    <3>2. CASE n # 1 /\ n <= k
      <4>1. n - 1 \in 1..k /\ n \in 1..k BY <3>2
      <4>2. g[n] = Turn1(g, n)
        <5> HIDE DEF Turn1
        <5> QED BY <2>1, <4>1
      <4>3. h[n - 1] = g[n - 1] /\ h[n] = g[n] BY <3>2, <4>1
      <4> HIDE DEF h
      <4> QED BY <3>2, <4>2, <4>3
    <3>3. CASE n = k + 1 /\ k = 0
      <4>1. h[n] = x BY <3>3
      <4> HIDE DEF h
      <4> QED BY <3>3, <4>1
    <3>4. CASE n = k + 1 /\ k # 0
      <4>1. h[n - 1] = g[k] /\ h[n] = x BY <3>4
      <4> HIDE DEF h
      <4> QED BY <3>4, <4>1
    <3> QED BY <3>1, <3>2, <3>3, <3>4
  <2>3. Loop(h, k + 1)
    <3>1. h = [n \in 1..(k + 1) |-> h[n]] OBVIOUS
    <3> HIDE DEF h, Turn1
    <3> QED BY <3>1, <2>2
  <2> HIDE DEF Loop
  <2> QED BY <2>3
<1>3. Nat \subseteq S
  <2> HIDE DEF S
  <2> QED BY <1>1, <1>2, Induction
<1>4. \E g : Loop(g, Len(seqs)) BY <1>3
<1> DEFINE f == CHOOSE g : Loop(g, Len(seqs))
<1>5. FlattenSeq(seqs) = f[Len(seqs)] BY DEF FlattenSeq
<1>6. Loop(f, Len(seqs))
  <2> HIDE DEF Loop
  <2> QED BY <1>4
<1> HIDE DEF f
<1>7. \A n \in 1..Len(seqs) : f[n] = Turn1(f, n)
  <2> HIDE DEF Turn1
  <2> QED BY <1>6
<1>8. ASSUME NEW n \in Nat, n > 0, n < Len(seqs) PROVE f[n + 1] = f[n] \o seqs[n + 1]
  <2>1. n + 1 \in 1..Len(seqs) /\ n + 1 # 1 /\ (n + 1) - 1 = n BY <1>8
  <2>2. f[n + 1] = Turn1(f, n + 1) BY <1>7, <2>1
  <2> QED BY <2>1, <2>2
<1>9. f[1] = seqs[1]
  <2>1. 1 \in 1..Len(seqs) OBVIOUS
  <2>2. f[1] = Turn1(f, 1) BY <1>7, <2>1
  <2> QED BY <2>2
<1> QED BY <1>5, <1>8, <1>9

\* The parts of equal length that a list is made of.
LEMMA PartFlattened ==
    ASSUME NEW n \in Nat, NEW L \in Nat, NEW seqs, Listed(seqs), Len(seqs) = n,
           \A k \in 1..n : Listed(seqs[k]) /\ Len(seqs[k]) = L
    PROVE  /\ Listed(FlattenSeq(seqs)) /\ Len(FlattenSeq(seqs)) = n * L
           /\ \A k \in 1..n : \A j \in 1..L :
                 /\ (k - 1) * L + j \in 1..(n * L)
                 /\ FlattenSeq(seqs)[(k - 1) * L + j] = seqs[k][j]
<1>1. CASE n = 0
  <2>1. FlattenSeq(seqs) = seqs BY <1>1 DEF FlattenSeq
  <2>2. 0 * L = 0 BY OneMore
  <2> QED BY <1>1, <2>1, <2>2
<1>2. CASE n # 0
  <2>1. PICK f : /\ f[1] = seqs[1]
                 /\ \A i \in Nat : i > 0 /\ i < n => f[i + 1] = f[i] \o seqs[i + 1]
                 /\ FlattenSeq(seqs) = f[n]
    BY <1>2, FlattenLoop
  <2> DEFINE Whole(i) == /\ Listed(f[i]) /\ Len(f[i]) = i * L
                         /\ \A k \in 1..i : \A j \in 1..L :
                               (k - 1) * L + j \in 1..(i * L) /\ f[i][(k - 1) * L + j] = seqs[k][j]
             S == {i \in Nat : i > 0 /\ i <= n => Whole(i)}
  <2>2. Whole(1)
    <3>1. 0 * L = 0 /\ 1 * L = L BY OneMore
    <3>2. 1 \in 1..n BY <1>2
    <3>3. \A k \in 1..1 : k = 1 OBVIOUS
    <3>4. \A k \in 1..1 : (k - 1) * L = 0 BY <3>1, <3>3
    <3> QED BY <2>1, <3>1, <3>2, <3>3, <3>4
  <2>3. ASSUME NEW i \in Nat, i \in S PROVE i + 1 \in S
    <3> SUFFICES ASSUME i + 1 <= n, i # 0 PROVE Whole(i + 1)
      BY <2>2
    <3>1. Whole(i)
      <4>1. i > 0 /\ i <= n OBVIOUS
      <4> HIDE DEF Whole
      <4> QED BY <2>3, <4>1
    <3>2. i + 1 \in 1..n /\ i > 0 /\ i < n OBVIOUS
    <3>3. f[i + 1] = f[i] \o seqs[i + 1] BY <2>1, <3>2
    <3> DEFINE s == f[i]
               t == seqs[i + 1]
    <3>4. Listed(t) /\ Len(t) = L BY <3>2
    <3>5. Listed(s) /\ Len(s) = i * L BY <3>1
    <3> HIDE DEF s, t
    <3>6. /\ Listed(s \o t) /\ Len(s \o t) = Len(s) + Len(t)
          /\ \A j \in 1..Len(s) : (s \o t)[j] = s[j]
          /\ \A j \in 1..Len(t) : (s \o t)[Len(s) + j] = t[j]
      <4>1. Listed(s) BY <3>5
      <4>2. Listed(t) BY <3>4
      <4> QED BY ONLY <4>1, <4>2, ListedJoined
    <3>7. i * L \in Nat /\ (i + 1) * L = i * L + L BY OneMore
    <3>8. Listed(s \o t) /\ Len(s \o t) = (i + 1) * L BY <3>4, <3>5, <3>6, <3>7
    <3>9. ASSUME NEW k \in 1..(i + 1), NEW j \in 1..L
          PROVE  (k - 1) * L + j \in 1..((i + 1) * L) /\ (s \o t)[(k - 1) * L + j] = seqs[k][j]
      <4>1. CASE k \in 1..i
        <5>1. (k - 1) * L + j \in 1..(i * L) /\ s[(k - 1) * L + j] = seqs[k][j] BY <3>1, <4>1 DEF s
        <5> DEFINE q == (k - 1) * L + j
                   z == i * L
        <5>2. q \in 1..z /\ s[q] = seqs[k][j] BY <5>1
        <5>3. z \in Nat /\ (i + 1) * L = z + L /\ Len(s) = z BY <3>5, <3>7
        <5> HIDE DEF q, z
        <5>4. (s \o t)[q] = s[q] BY <3>6, <5>2, <5>3
        <5>5. q \in 1..((i + 1) * L) BY <5>2, <5>3
        <5> QED BY <5>2, <5>4, <5>5 DEF q
      <4>2. CASE k = i + 1
        <5> DEFINE z == i * L
        <5>1. z \in Nat /\ (i + 1) * L = z + L /\ Len(s) = z BY <3>5, <3>7
        <5>2. (k - 1) * L = z BY <4>2
        <5> HIDE DEF z
        <5>3. (s \o t)[z + j] = t[j] BY <3>4, <3>6, <5>1
        <5>4. z + j \in 1..((i + 1) * L) BY <5>1
        <5> QED BY <4>2, <5>2, <5>3, <5>4 DEF t
      <4>3. k \in 1..i \/ k = i + 1 OBVIOUS
      <4> QED BY ONLY <4>1, <4>2, <4>3
    <3>10. f[i + 1] = s \o t BY <3>3 DEF s, t
    <3> HIDE DEF S
    <3> QED BY <3>8, <3>9, <3>10
  <2>4. 0 \in S OBVIOUS
  <2>5. Nat \subseteq S
    <3> HIDE DEF S
    <3> QED BY <2>3, <2>4, Induction
  <2>6. Whole(n)
    <3> HIDE DEF Whole
    <3> QED BY <1>2, <2>5
  <2> QED BY <2>1, <2>6
<1> QED BY <1>1, <1>2

-----------------------------------------------------------------------------
(* Scripts and structs laid over a part of a message.                      *)

\* A struct laid over a message at an offset so that its members behind the
\* first a are the fields behind the first b.
LaidOver(fields, o, struct, a, b, L) ==
  /\ fields \in Seq(Field) /\ Len(struct) \in Nat /\ DOMAIN struct = 1..Len(struct)
  /\ a \in Nat /\ b \in Nat /\ L \in Nat /\ o \in Nat
  /\ Len(struct) = a + L /\ b + L <= Len(fields)
  /\ Ends(struct)[a] \in Nat /\ o + Ends(struct)[a] = Ends(fields)[b]
  /\ \A j \in 1..L : struct[a + j][2] = fields[b + j][2]

\* The ends of the members of a struct and of the fields it is laid over
\* agree as long as the widths do.
LEMMA EndsAligned ==
    ASSUME NEW fields, NEW o, NEW struct, NEW a, NEW b, NEW L, LaidOver(fields, o, struct, a, b, L)
    PROVE  \A j \in 0..L : Ends(struct)[a + j] \in Nat /\ o + Ends(struct)[a + j] = Ends(fields)[b + j]
<1> USE DEF LaidOver
<1> DEFINE e == Ends(fields)
           d == Ends(struct)
           S == {j \in Nat : j <= L => d[a + j] \in Nat /\ o + d[a + j] = e[b + j]}
<1>1. 0 \in S
  <2>1. a + 0 = a /\ b + 0 = b OBVIOUS
  <2> QED BY <2>1
<1>2. ASSUME NEW j \in Nat, j \in S PROVE j + 1 \in S
  <2> SUFFICES ASSUME j + 1 <= L PROVE d[a + (j + 1)] \in Nat /\ o + d[a + (j + 1)] = e[b + (j + 1)]
    OBVIOUS
  <2>1. d[a + j] \in Nat /\ o + d[a + j] = e[b + j] BY <1>2
  <2>2. d[(a + j) + 1] = d[a + j] + struct[(a + j) + 1][2]
    <3>1. a + j \in Nat /\ a + j < Len(struct) OBVIOUS
    <3> QED BY <3>1, EndsLoop
  <2>3. e[(b + j) + 1] = e[b + j] + fields[(b + j) + 1][2]
    <3>1. b + j \in Nat /\ b + j < Len(fields) /\ Len(fields) \in Nat OBVIOUS
    <3> QED BY <3>1, EndsLoop
  <2>4. (a + j) + 1 = a + (j + 1) /\ (b + j) + 1 = b + (j + 1) OBVIOUS
  <2>5. j + 1 \in 1..L OBVIOUS
  <2>6. struct[a + (j + 1)][2] = fields[b + (j + 1)][2] BY <2>5
  <2>7. fields[b + (j + 1)][2] \in Nat
    <3>1. b + (j + 1) \in 1..Len(fields) OBVIOUS
    <3>2. fields[b + (j + 1)] \in Field BY <3>1
    <3> QED BY ONLY <3>2 DEF Field
  <2> DEFINE w == fields[b + (j + 1)][2]
  <2>8. d[a + (j + 1)] = d[a + j] + w /\ e[b + (j + 1)] = e[b + j] + w BY <2>2, <2>3, <2>4, <2>6
  <2>9. w \in Nat BY <2>7
  <2>10. o \in Nat OBVIOUS
  <2> HIDE DEF d, e, w
  <2> QED BY ONLY <2>1, <2>8, <2>9, <2>10
<1>3. Nat \subseteq S
  <2> HIDE DEF S
  <2> QED BY <1>1, <1>2, Induction
<1> QED BY <1>3

\* The fields at the places of the name x in a struct have the value v, and
\* there is one; the members before them have other names.
NamedAs(fields, struct, a, b, L, x, v) ==
  /\ \E j \in 1..L : struct[a + j][1] = x
  /\ \A i \in 1..a : struct[i][1] # x
  /\ \A j \in 1..L : struct[a + j][1] = x => <<fields[b + j][1], fields[b + j][3]>> = v

\* A struct shows under a name what the fields at the places of the name are.
LEMMA OverlayRead ==
    ASSUME NEW fields, NEW o, NEW struct, NEW a, NEW b, NEW L, LaidOver(fields, o, struct, a, b, L),
           NEW x, NEW v, NamedAs(fields, struct, a, b, L, x, v)
    PROVE  x \in DOMAIN Overlay(Message(fields), o, struct) /\ Overlay(Message(fields), o, struct)[x] = v
<1> USE DEF NamedAs
<1> DEFINE k == CHOOSE i \in DOMAIN struct : struct[i][1] = x
           m == Message(fields)
           e == Ends(fields)
           d == Ends(struct)
<1>0. /\ fields \in Seq(Field) /\ Len(struct) \in Nat /\ DOMAIN struct = 1..Len(struct)
      /\ a \in Nat /\ b \in Nat /\ L \in Nat /\ o \in Nat
      /\ Len(struct) = a + L /\ b + L <= Len(fields)
      /\ \A j \in 1..L : struct[a + j][2] = fields[b + j][2]
  BY DEF LaidOver
<1>1. PICK n \in 1..L : struct[a + n][1] = x OBVIOUS
<1>2. a + n \in DOMAIN struct BY <1>0, <1>1
<1>3. k \in DOMAIN struct /\ struct[k][1] = x BY <1>1, <1>2
<1>4. x \in {struct[i][1] : i \in DOMAIN struct} BY <1>1, <1>2
<1>5. x \in DOMAIN Placed(struct) /\ Placed(struct)[x] = <<Ends(struct)[k - 1], struct[k][2]>>
  BY <1>4 DEF Placed
<1> HIDE DEF k
<1>6. /\ x \in DOMAIN Overlay(m, o, struct)
      /\ Overlay(m, o, struct)[x] = ReadAt(m, o + Ends(struct)[k - 1], struct[k][2])
  <2> HIDE DEF m
  <2> QED BY <1>5 DEF Overlay
<1>7. k \notin 1..a /\ k \in 1..(a + L) BY <1>0, <1>3
<1>8. PICK j \in 1..L : k = a + j
  <2>1. k - a \in 1..L /\ k = a + (k - a) BY <1>0, <1>7
  <2> QED BY <2>1
<1>9. o + Ends(struct)[a + (j - 1)] = Ends(fields)[b + (j - 1)]
  <2>1. \A i \in 0..L : Ends(struct)[a + i] \in Nat /\ o + Ends(struct)[a + i] = Ends(fields)[b + i]
    BY EndsAligned
  <2>2. j - 1 \in 0..L BY DEF LaidOver
  <2> QED BY <2>1, <2>2
<1>10. k - 1 = a + (j - 1) /\ (b + j) - 1 = b + (j - 1) /\ b + j \in 1..Len(fields) BY <1>0, <1>8
<1>11. struct[k][2] = fields[b + j][2] /\ struct[k][1] = x BY <1>0, <1>3, <1>8
<1>12. ReadAt(m, Ends(fields)[(b + j) - 1], fields[b + j][2]) = <<fields[b + j][1], fields[b + j][3]>>
  BY <1>0, <1>10, FieldRead
<1>13. <<fields[b + j][1], fields[b + j][3]>> = v BY <1>8, <1>11
<1> HIDE DEF m
<1>14. o + Ends(struct)[k - 1] = Ends(fields)[(b + j) - 1] BY <1>9, <1>10
<1>15. ReadAt(m, o + Ends(struct)[k - 1], struct[k][2]) = v BY <1>11, <1>12, <1>13, <1>14
<1> QED BY <1>6, <1>15 DEF m

\* Step i of a script pops a value of that name.
Pops(script, i, x) == script[i][1] # "skip" /\ script[i][3] = x

\* A script of the widths of the fields behind the first b.
Scripted(fields, b, script) ==
  /\ fields \in Seq(Field) /\ Len(script) \in Nat /\ b \in Nat
  /\ b + Len(script) <= Len(fields)
  /\ \A j \in 1..Len(script) : script[j][2] = fields[b + j][2]

\* It moves a cursor that stands before them behind them, and what it pops
\* under a name are the fields at the places of the name.
LEMMA CursorMoved ==
    ASSUME NEW fields, NEW b, NEW script, Scripted(fields, b, script), NEW x, NEW v,
           \A j \in 1..Len(script) : Pops(script, j, x) => <<fields[b + j][1], fields[b + j][3]>> = v
    PROVE  LET r == Read(Message(fields), Ends(fields)[b], script)
           IN /\ r.pos = Ends(fields)[b + Len(script)]
              /\ (\E j \in 1..Len(script) : Pops(script, j, x)) => x \in DOMAIN r.got /\ r.got[x] = v
<1> DEFINE m == Message(fields)
           e == Ends(fields)
           L == Len(script)
           value(i) == <<fields[i][1], fields[i][3]>>
<1> USE DEF Scripted
<1>1. PICK c : /\ c[0] = [pos |-> e[b], got |-> <<>>]
               /\ \A n \in Nat : n < L => c[n + 1] = Step(m, c[n], script[n + 1])
               /\ Read(m, e[b], script) = c[L]
  <2>1. Len(script) \in Nat OBVIOUS
  <2> HIDE DEF m, e
  <2>2. PICK c : ReadsBy(c, m, e[b], script) BY ONLY <2>1, ReadLoop
  <2> QED BY ONLY <2>2 DEF ReadsBy
<1> DEFINE Right(n) == /\ c[n].pos = e[b + n]
                       /\ (\E j \in 1..n : Pops(script, j, x)) => x \in DOMAIN c[n].got /\ c[n].got[x] = v
           S == {n \in Nat : n <= L => Right(n)}
<1>2. 0 \in S
  <2>1. b + 0 = b OBVIOUS
  <2> HIDE DEF e
  <2>2. c[0].pos = e[b + 0] BY <1>1, <2>1
  <2>3. ~ \E j \in 1..0 : Pops(script, j, x) OBVIOUS
  <2> QED BY <2>2, <2>3
<1>3. ASSUME NEW n \in Nat, n \in S PROVE n + 1 \in S
  <2> SUFFICES ASSUME n + 1 <= L PROVE Right(n + 1) OBVIOUS
  <2>1. Right(n) BY <1>3
  <2>2. c[n + 1] = Step(m, c[n], script[n + 1]) BY <1>1
  <2> DEFINE i == b + (n + 1)
  <2>3. i \in 1..Len(fields) /\ i - 1 = b + n /\ n + 1 \in 1..L OBVIOUS
  <2>4. script[n + 1][2] = fields[i][2] BY <2>3
  <2>5. c[n].pos = Ends(fields)[i - 1] BY <2>1, <2>3
  <2>6. Pops(script, n + 1, x) => value(i) = v BY <2>3
  <2> HIDE DEF i
  <2>7. CASE script[n + 1][1] = "skip"
    <3>1. Step(m, c[n], script[n + 1]) = [pos |-> e[i], got |-> c[n].got]
      BY <2>3, <2>4, <2>5, <2>7, FieldSkipped
    <3> HIDE DEF e, m
    <3>2. c[n + 1].pos = e[i] /\ c[n + 1].got = c[n].got BY <2>2, <3>1
    <3>3. ~ Pops(script, n + 1, x) BY <2>7 DEF Pops
    <3>4. \A j \in 1..(n + 1) : j \in 1..n \/ j = n + 1 OBVIOUS
    <3>5. (\E j \in 1..(n + 1) : Pops(script, j, x)) => \E j \in 1..n : Pops(script, j, x) BY <3>3, <3>4
    <3> QED BY <2>1, <3>2, <3>5 DEF i
  <2>8. CASE script[n + 1][1] # "skip"
    <3>1. Step(m, c[n], script[n + 1]) = [pos |-> e[i], got |-> With(c[n].got, script[n + 1][3], value(i))]
      BY <2>3, <2>4, <2>5, <2>8, FieldPopped
    <3> HIDE DEF e, m, value
    <3>2. c[n + 1].pos = e[i] /\ c[n + 1].got = With(c[n].got, script[n + 1][3], value(i)) BY <2>2, <3>1
    <3>3. CASE script[n + 1][3] = x
      <4>1. value(i) = v BY <2>6, <2>8, <3>3 DEF Pops
      <4>2. x \in DOMAIN c[n + 1].got /\ c[n + 1].got[x] = v BY <3>2, <3>3, <4>1, Got
      <4> QED BY <3>2, <4>2 DEF i
    <3>4. CASE script[n + 1][3] # x
      <4>1. ~ Pops(script, n + 1, x) BY <3>4 DEF Pops
      <4>2. \A j \in 1..(n + 1) : j \in 1..n \/ j = n + 1 OBVIOUS
      <4>3. (\E j \in 1..(n + 1) : Pops(script, j, x)) => \E j \in 1..n : Pops(script, j, x) BY <4>1, <4>2
      <4>4. x \in DOMAIN c[n].got => x \in DOMAIN c[n + 1].got /\ c[n + 1].got[x] = c[n].got[x]
        BY <3>2, <3>4, GotBefore
      <4> QED BY <2>1, <3>2, <4>3, <4>4 DEF i
    <3> QED BY <3>3, <3>4
  <2> QED BY <2>7, <2>8
<1>4. Nat \subseteq S
  <2> HIDE DEF S
  <2> QED BY <1>2, <1>3, Induction
<1>5. Right(L)
  <2> HIDE DEF Right
  <2> QED BY <1>4
<1> HIDE DEF m, e
<1> QED BY <1>1, <1>5 DEF m, e

\* Where it stands.
LEMMA CursorEnd ==
    ASSUME NEW fields, NEW b, NEW script, Scripted(fields, b, script)
    PROVE  Read(Message(fields), Ends(fields)[b], script).pos = Ends(fields)[b + Len(script)]
<1>1. PICK y : \A j \in 1..Len(script) : script[j][3] # y
  <2>1. \E y : y \notin {script[j][3] : j \in 1..Len(script)}
    <3> DEFINE D == {script[j][3] : j \in 1..Len(script)}
    <3>1. {z \in D : z \notin z} \notin D OBVIOUS
    <3> QED BY <3>1
  <2> QED BY <2>1
<1>2. \A j \in 1..Len(script) : ~ Pops(script, j, y) BY <1>1 DEF Pops
<1>3. \A j \in 1..Len(script) : Pops(script, j, y) => <<fields[b + j][1], fields[b + j][3]>> = 0 BY <1>2
<1> QED BY <1>3, CursorMoved

\* The fields popped under the name x have the value v, and there is one.
PoppedAs(fields, b, script, x, v) ==
  /\ \E j \in 1..Len(script) : Pops(script, j, x)
  /\ \A j \in 1..Len(script) : Pops(script, j, x) => <<fields[b + j][1], fields[b + j][3]>> = v

\* What it has popped.
LEMMA CursorRead ==
    ASSUME NEW fields, NEW b, NEW script, Scripted(fields, b, script), NEW x, NEW v,
           PoppedAs(fields, b, script, x, v)
    PROVE  /\ x \in DOMAIN Read(Message(fields), Ends(fields)[b], script).got
           /\ Read(Message(fields), Ends(fields)[b], script).got[x] = v
<1>1. /\ \E j \in 1..Len(script) : Pops(script, j, x)
      /\ \A j \in 1..Len(script) : Pops(script, j, x) => <<fields[b + j][1], fields[b + j][3]>> = v
  BY DEF PoppedAs
<1> QED BY <1>1, CursorMoved

-----------------------------------------------------------------------------
(* Counted loops.                                                          *)

\* A list with one more is a list.
LEMMA OneAppended ==
    ASSUME NEW s, Listed(s), NEW x
    PROVE  /\ Listed(Append(s, x)) /\ Len(s) \in Nat /\ Len(Append(s, x)) = Len(s) + 1
           /\ Append(s, x)[Len(s) + 1] = x
           /\ \A j \in 1..Len(s) : Append(s, x)[j] = s[j]
<1>1. PICK T : s \in Seq(T) BY DEF Listed
<1> DEFINE V == T \cup {x}
<1>2. s \in Seq(V) /\ x \in V
  <2>1. T \subseteq V /\ x \in V OBVIOUS
  <2> HIDE DEF V
  <2>2. \A j \in 1..Len(s) : s[j] \in V BY <1>1, <2>1
  <2>3. s = [j \in 1..Len(s) |-> s[j]] BY <1>1
  <2>4. Len(s) \in Nat BY <1>1
  <2> QED BY <2>1, <2>2, <2>3, <2>4
<1> HIDE DEF V
<1>3. Append(s, x) \in Seq(V) BY <1>2
<1>4. Listed(Append(s, x)) BY <1>3 DEF Listed
<1> QED BY <1>2, <1>4

\* Where a cursor stands and what it has after each round of a loop.
LoopsBy(c, m, start, n, script) ==
  /\ c[0] = [pos |-> start, got |-> <<>>]
  /\ \A i \in Nat : i < n => c[i + 1] = NextOf(m, c[i], script)
  /\ ReadMany(m, start, n, script) = c[n]

\* The function that ReadMany defines by recursion exists.
LEMMA ManyLoop ==
    ASSUME NEW m, NEW start, NEW n \in Nat, NEW script
    PROVE  \E c : LoopsBy(c, m, start, n, script)
<1> DEFINE Start == [pos |-> start, got |-> <<>>]
           Turn1(g, i) == IF i = 0 THEN Start ELSE NextOf(m, g[i - 1], script)
           Loop(g, k) == g = [i \in 0..k |-> Turn1(g, i)]
           S == {k \in Nat : \E g : Loop(g, k)}
<1>1. 0 \in S
  <2> HIDE DEF Start
  <2>1. Loop([i \in 0..0 |-> Start], 0) OBVIOUS
  <2> QED BY <2>1
<1>2. ASSUME NEW k \in Nat, k \in S PROVE k + 1 \in S
  <2>1. PICK g : Loop(g, k) BY <1>2
  <2> DEFINE x == NextOf(m, g[k], script)
             h == [i \in 0..(k + 1) |-> IF i <= k THEN g[i] ELSE x]
  <2>2. ASSUME NEW i \in 0..(k + 1) PROVE h[i] = Turn1(h, i)
    <3> HIDE DEF Start
    <3>1. CASE i = 0 BY <2>1, <3>1
    <3>2. CASE i # 0 /\ i <= k
      <4>1. i - 1 \in 0..k /\ i \in 0..k BY <3>2
      <4>2. g[i] = Turn1(g, i) BY <2>1, <4>1
      <4>3. h[i - 1] = g[i - 1] /\ h[i] = g[i] BY <3>2, <4>1
      <4> HIDE DEF h
      <4> QED BY <4>2, <4>3
    <3>3. CASE i = k + 1
      <4>1. h[i - 1] = g[k] /\ h[i] = x BY <3>3
      <4> HIDE DEF h
      <4> QED BY <3>3, <4>1
    <3> QED BY <3>1, <3>2, <3>3
  <2>3. Loop(h, k + 1)
    <3>1. h = [i \in 0..(k + 1) |-> h[i]] OBVIOUS
    <3> HIDE DEF h, Turn1
    <3> QED BY <3>1, <2>2
  <2> HIDE DEF Loop
  <2> QED BY <2>3
<1>3. Nat \subseteq S
  <2> HIDE DEF S
  <2> QED BY <1>1, <1>2, Induction
<1>4. \E g : Loop(g, n) BY <1>3
<1> DEFINE c == CHOOSE g : Loop(g, n)
<1>5. ReadMany(m, start, n, script) = c[n] BY DEF ReadMany
<1>6. Loop(c, n)
  <2> HIDE DEF Loop
  <2> QED BY <1>4
<1> HIDE DEF c
<1>7. \A i \in 0..n : c[i] = Turn1(c, i)
  <2> HIDE DEF Turn1
  <2> QED BY <1>6
<1>8. ASSUME NEW i \in Nat, i < n PROVE c[i + 1] = NextOf(m, c[i], script)
  <2>1. i + 1 \in 0..n /\ i + 1 # 0 /\ (i + 1) - 1 = i BY <1>8
  <2>2. c[i + 1] = Turn1(c, i + 1) BY <1>7, <2>1
  <2> QED BY <2>1, <2>2
<1>9. c[0] = Start BY <1>7
<1>10. LoopsBy(c, m, start, n, script) BY ONLY <1>5, <1>8, <1>9 DEF LoopsBy
<1> QED BY ONLY <1>10

\* A script of the widths of each of n parts.
ScriptedMany(fields, b, n, script) ==
  /\ b \in Nat /\ n \in Nat /\ Len(script) \in Nat
  /\ \A k \in Nat : k < n => Scripted(fields, b + k * Len(script), script)

\* A loop of n times over it has them all, and ends behind the last.
LEMMA ManyRead ==
    ASSUME NEW fields, NEW b, NEW n, NEW script, ScriptedMany(fields, b, n, script)
    PROVE  /\ ReadMany(Message(fields), Ends(fields)[b], n, script).pos = Ends(fields)[b + n * Len(script)]
           /\ Listed(ReadMany(Message(fields), Ends(fields)[b], n, script).got)
           /\ Len(ReadMany(Message(fields), Ends(fields)[b], n, script).got) = n
           /\ \A k \in Nat : k < n =>
                 ReadMany(Message(fields), Ends(fields)[b], n, script).got[k + 1]
                   = Read(Message(fields), Ends(fields)[b + k * Len(script)], script).got
<1> DEFINE m == Message(fields)
           e == Ends(fields)
           L == Len(script)
           one(k) == Read(m, e[b + k * L], script).got
<1>0. n \in Nat /\ b \in Nat /\ L \in Nat BY DEF ScriptedMany
<1>1. PICK c : /\ c[0] = [pos |-> e[b], got |-> <<>>]
               /\ \A i \in Nat : i < n => c[i + 1] = NextOf(m, c[i], script)
               /\ ReadMany(m, e[b], n, script) = c[n]
  <2> HIDE DEF m, e, one
  <2>1. PICK c : LoopsBy(c, m, e[b], n, script) BY ONLY <1>0, ManyLoop
  <2> QED BY ONLY <2>1 DEF LoopsBy
<1> DEFINE Right(i) == /\ c[i].pos = e[b + i * L] /\ Listed(c[i].got) /\ Len(c[i].got) = i
                       /\ \A k \in Nat : k < i => c[i].got[k + 1] = one(k)
           S == {i \in Nat : i <= n => Right(i)}
<1>2. 0 \in S
  <2>1. b + 0 * L = b BY <1>0, OneMore
  <2>2. <<>> \in Seq({}) /\ Len(<<>>) = 0 OBVIOUS
  <2>3. Listed(<<>>) BY <2>2 DEF Listed
  <2> HIDE DEF e, one
  <2> QED BY <1>1, <2>1, <2>2, <2>3
<1>3. ASSUME NEW i \in Nat, i \in S PROVE i + 1 \in S
  <2> SUFFICES ASSUME i + 1 <= n PROVE Right(i + 1) OBVIOUS
  <2>1. Right(i) BY <1>0, <1>3
  <2>2. i < n BY <1>0
  <2>3. c[i + 1] = NextOf(m, c[i], script) BY <1>1, <2>2
  <2>4. Scripted(fields, b + i * L, script) BY <2>2 DEF ScriptedMany
  <2>5. Read(m, e[b + i * L], script).pos = e[(b + i * L) + L] BY <2>4, CursorEnd
  <2>6. (b + i * L) + L = b + (i + 1) * L
    <3>1. i * L \in Nat /\ (i + 1) * L = i * L + L BY <1>0, OneMore
    <3> DEFINE p == i * L
               q == (i + 1) * L
    <3>2. p \in Nat /\ q = p + L BY <3>1
    <3> HIDE DEF p, q, L
    <3>3. (b + p) + L = b + q BY <1>0, <3>2
    <3> QED BY <3>3 DEF p, q
  <2> HIDE DEF m, e
  <2>7. c[i + 1].pos = e[b + (i + 1) * L] /\ c[i + 1].got = Append(c[i].got, one(i))
    BY <2>1, <2>3, <2>5, <2>6 DEF NextOf
  <2> HIDE DEF one
  <2>8. Listed(c[i].got) BY <2>1
  <2> DEFINE s == c[i].got
             t == Append(s, one(i))
  <2>9. /\ Listed(t) /\ Len(s) \in Nat /\ Len(t) = Len(s) + 1 /\ t[Len(s) + 1] = one(i)
        /\ \A j \in 1..Len(s) : t[j] = s[j]
    BY <2>8, OneAppended
  <2>10. Len(s) = i /\ (\A k \in Nat : k < i => s[k + 1] = one(k)) BY <2>1
  <2> HIDE DEF s, t
  <2>11. ASSUME NEW k \in Nat, k < i + 1 PROVE t[k + 1] = one(k)
    <3>1. CASE k = i BY <2>9, <2>10, <3>1
    <3>2. CASE k # i
      <4>1. k < i /\ k + 1 \in 1..i BY <2>11, <3>2
      <4> QED BY <2>9, <2>10, <4>1
    <3> QED BY <3>1, <3>2
  <2>12. c[i + 1].got = t BY <2>7 DEF t, s
  <2> QED BY <2>7, <2>9, <2>10, <2>11, <2>12
<1>4. Nat \subseteq S
  <2> HIDE DEF S
  <2> QED BY <1>2, <1>3, Induction
<1>5. Right(n)
  <2> HIDE DEF Right
  <2> QED BY <1>0, <1>4
<1> HIDE DEF m, e
<1> QED BY <1>1, <1>5 DEF m, e

\* What a turn of it has read.
LEMMA ManyTurn ==
    ASSUME NEW fields, NEW b, NEW n, NEW script, ScriptedMany(fields, b, n, script), NEW k \in Nat, k < n,
           NEW c, c = b + k * Len(script)
    PROVE  ReadMany(Message(fields), Ends(fields)[b], n, script).got[k + 1]
             = Read(Message(fields), Ends(fields)[c], script).got
<1> DEFINE r == ReadMany(Message(fields), Ends(fields)[b], n, script).got
           t(i) == Read(Message(fields), Ends(fields)[b + i * Len(script)], script).got
<1>1. \A i \in Nat : i < n => r[i + 1] = t(i) BY ManyRead
<1> HIDE DEF r, t
<1>2. r[k + 1] = t(k) BY <1>1
<1> QED BY <1>2 DEF r, t

-----------------------------------------------------------------------------
(* Lists of parts.                                                         *)

\* Up to nine fields written one after the other are a sequence of them.
LEMMA ListedOne ==
    ASSUME NEW a1
    PROVE  Listed(<<a1>>) /\ Len(<<a1>>) = 1 /\ <<a1>>[1] = a1
<1> DEFINE s == <<a1>>
<1>1. Len(s) = 1 /\ s[1] = a1 /\ s \in Seq({a1}) OBVIOUS
<1> QED BY <1>1 DEF Listed

\* A sequence of two.
LEMMA ListedTwo ==
    ASSUME NEW a1, NEW a2
    PROVE  /\ Listed(<<a1, a2>>) /\ Len(<<a1, a2>>) = 2
           /\ <<a1, a2>>[1] = a1 /\ <<a1, a2>>[2] = a2
<1> DEFINE s == <<a1, a2>>
<1>1. Len(s) = 2 /\ s[1] = a1 /\ s[2] = a2 /\ s \in Seq({a1, a2}) OBVIOUS
<1> QED BY <1>1 DEF Listed

\* A sequence of three.
LEMMA ListedThree ==
    ASSUME NEW a1, NEW a2, NEW a3
    PROVE  /\ Listed(<<a1, a2, a3>>) /\ Len(<<a1, a2, a3>>) = 3
           /\ <<a1, a2, a3>>[1] = a1 /\ <<a1, a2, a3>>[2] = a2 /\ <<a1, a2, a3>>[3] = a3
<1> DEFINE s == <<a1, a2, a3>>
<1>1. Len(s) = 3 /\ s[1] = a1 /\ s[2] = a2 /\ s[3] = a3 /\ s \in Seq({a1, a2, a3}) OBVIOUS
<1> QED BY <1>1 DEF Listed

\* n parts of L fields.
Parted(seqs, n, L) ==
  /\ n \in Nat /\ L \in Nat /\ Listed(seqs) /\ Len(seqs) = n
  /\ \A k \in 1..n : Listed(seqs[k]) /\ Len(seqs[k]) = L

\* Each of them begins behind the ones before it.
LEMMA ListPart ==
    ASSUME NEW fields, NEW b, NEW seqs, NEW n, NEW L, Parted(seqs, n, L),
           PartAt(fields, b, FlattenSeq(seqs)), Len(fields) \in Nat
    PROVE  /\ Listed(FlattenSeq(seqs)) /\ Len(FlattenSeq(seqs)) = n * L
           /\ \A k \in Nat : k < n => PartAt(fields, b + k * L, seqs[k + 1])
<1> DEFINE t == FlattenSeq(seqs)
<1>1. /\ n \in Nat /\ L \in Nat /\ Listed(seqs) /\ Len(seqs) = n
      /\ \A k \in 1..n : Listed(seqs[k]) /\ Len(seqs[k]) = L
  BY DEF Parted
<1>2. /\ Listed(t) /\ Len(t) = n * L
      /\ \A k \in 1..n : \A j \in 1..L :
            (k - 1) * L + j \in 1..(n * L) /\ t[(k - 1) * L + j] = seqs[k][j]
  <2> HIDE DEF t
  <2>1. n \in Nat /\ L \in Nat BY <1>1
  <2>2. Listed(seqs) /\ Len(seqs) = n BY <1>1
  <2>3. \A k \in 1..n : Listed(seqs[k]) /\ Len(seqs[k]) = L BY <1>1
  <2> QED BY ONLY <2>1, <2>2, <2>3, PartFlattened DEF t
<1> HIDE DEF t
<1>3. /\ b \in Nat /\ b + Len(t) <= Len(fields)
      /\ \A j \in 1..Len(t) : fields[b + j] = t[j]
  BY DEF PartAt, t
<1>4. ASSUME NEW k \in Nat, k < n PROVE PartAt(fields, b + k * L, seqs[k + 1])
  <2>1. k + 1 \in 1..n /\ (k + 1) - 1 = k BY <1>1, <1>4
  <2>2. Listed(seqs[k + 1]) /\ Len(seqs[k + 1]) = L BY <1>1, <2>1
  <2>3. \A j \in 1..L : k * L + j \in 1..(n * L) /\ t[k * L + j] = seqs[k + 1][j]
    <3>1. \A j \in 1..L : ((k + 1) - 1) * L + j \in 1..(n * L) /\ t[((k + 1) - 1) * L + j] = seqs[k + 1][j]
      BY <1>2, <2>1
    <3> QED BY <2>1, <3>1
  <2>4. k * L \in Nat /\ n * L \in Nat BY <1>1, OneMore
  <2> DEFINE p == k * L
             z == n * L
             s == seqs[k + 1]
  <2>5. /\ p \in Nat /\ z \in Nat /\ \A j \in 1..L : p + j \in 1..z /\ t[p + j] = s[j]
        /\ b + z <= Len(fields) /\ \A j \in 1..z : fields[b + j] = t[j]
        /\ Listed(s) /\ Len(s) = L
    BY <1>2, <1>3, <2>2, <2>3, <2>4
  <2> HIDE DEF p, z, s
  <2>6. ASSUME NEW j \in 1..L PROVE fields[(b + p) + j] = s[j]
    <3>1. fields[b + (p + j)] = s[j] BY <2>5
    <3>2. b + (p + j) = (b + p) + j BY <1>1, <1>3, <2>5
    <3> QED BY <3>1, <3>2
  <2>7. (b + p) + L <= Len(fields)
    <3>1. CASE L = 0
      <4>1. p <= z
        <5>1. n * 0 = 0 /\ k * 0 = 0 BY <1>1
        <5> QED BY <3>1, <5>1 DEF p, z
      <4> QED BY <1>1, <1>3, <2>5, <3>1, <4>1
    <3>2. CASE L # 0
      <4>1. L \in 1..L BY <1>1, <3>2
      <4>2. p + L \in 1..z BY <2>5, <4>1
      <4> QED BY <1>1, <1>3, <2>5, <4>2
    <3> QED BY <3>1, <3>2
  <2> QED BY <1>1, <1>3, <2>5, <2>6, <2>7 DEF PartAt, p, s
<1> QED BY <1>2, <1>4 DEF t

\* A message is its header and what follows.
LEMMA WholePart ==
    ASSUME NEW h, NEW t, Listed(h), Listed(t)
    PROVE  PartAt(h \o t, 0, h \o t) /\ Len(h \o t) \in Nat
<1> DEFINE s == h \o t
<1>1. Listed(s) /\ Len(s) = Len(h) + Len(t) /\ Len(h) \in Nat /\ Len(t) \in Nat BY ListedJoined
<1> HIDE DEF s
<1>2. \A j \in 1..Len(s) : s[0 + j] = s[j] BY <1>1
<1>3. 0 \in Nat /\ 0 + Len(s) <= Len(s) /\ Len(s) \in Nat BY <1>1
<1> QED BY <1>1, <1>2, <1>3 DEF PartAt, s

-----------------------------------------------------------------------------
(* Structs of what the game sends.                                         *)

\* The members of a struct and the fields they lie over are named alike and
\* equally wide, and all fields have the number k.
Packs(struct, fields, k) ==
  /\ Listed(struct) /\ Listed(fields) /\ Len(fields) = Len(struct)
  /\ \A j \in 1..Len(struct) : fields[j] = <<struct[j][1], struct[j][2], k>>

\* One field of the width of its member.
LEMMA PackedOne ==
    ASSUME NEW x1, NEW w1, NEW k
    PROVE  Packs(<< <<x1, w1>> >>, << <<x1, w1, k>> >>, k)
<1> DEFINE s == << <<x1, w1>> >>
           f == << <<x1, w1, k>> >>
<1>1. Len(s) = 1 /\ s \in Seq({ <<x1, w1>> }) OBVIOUS
<1>2. Len(f) = 1 /\ f \in Seq({ <<x1, w1, k>> }) OBVIOUS
<1>3. \A j \in 1..1 : j = 1 OBVIOUS
<1>4. \A j \in 1..1 : f[j] = <<s[j][1], s[j][2], k>> BY <1>3
<1>5. Listed(s) /\ Listed(f) BY <1>1, <1>2 DEF Listed
<1> QED BY <1>1, <1>2, <1>4, <1>5 DEF Packs

\* Two of them.
LEMMA PackedTwo ==
    ASSUME NEW x1, NEW w1, NEW x2, NEW w2, NEW k
    PROVE  Packs(<< <<x1, w1>>, <<x2, w2>> >>, << <<x1, w1, k>>, <<x2, w2, k>> >>, k)
<1> DEFINE s == << <<x1, w1>>, <<x2, w2>> >>
           f == << <<x1, w1, k>>, <<x2, w2, k>> >>
<1>1. Len(s) = 2 /\ s \in Seq({ <<x1, w1>>, <<x2, w2>> }) OBVIOUS
<1>2. Len(f) = 2 /\ f \in Seq({ <<x1, w1, k>>, <<x2, w2, k>> }) OBVIOUS
<1>3. \A j \in 1..2 : j = 1 \/ j = 2 OBVIOUS
<1>4. \A j \in 1..2 : f[j] = <<s[j][1], s[j][2], k>> BY <1>3
<1>5. Listed(s) /\ Listed(f) BY <1>1, <1>2 DEF Listed
<1> QED BY <1>1, <1>2, <1>4, <1>5 DEF Packs

\* Three of them.
LEMMA PackedThree ==
    ASSUME NEW x1, NEW w1, NEW x2, NEW w2, NEW x3, NEW w3, NEW k
    PROVE  Packs(<< <<x1, w1>>, <<x2, w2>>, <<x3, w3>> >>, << <<x1, w1, k>>, <<x2, w2, k>>, <<x3, w3, k>> >>, k)
<1> DEFINE s == << <<x1, w1>>, <<x2, w2>>, <<x3, w3>> >>
           f == << <<x1, w1, k>>, <<x2, w2, k>>, <<x3, w3, k>> >>
<1>1. Len(s) = 3 /\ s \in Seq({ <<x1, w1>>, <<x2, w2>>, <<x3, w3>> }) OBVIOUS
<1>2. Len(f) = 3 /\ f \in Seq({ <<x1, w1, k>>, <<x2, w2, k>>, <<x3, w3, k>> }) OBVIOUS
<1>3. \A j \in 1..3 : j = 1 \/ j = 2 \/ j = 3 OBVIOUS
<1>4. \A j \in 1..3 : f[j] = <<s[j][1], s[j][2], k>> BY <1>3
<1>5. Listed(s) /\ Listed(f) BY <1>1, <1>2 DEF Listed
<1> QED BY <1>1, <1>2, <1>4, <1>5 DEF Packs

\* Four of them.
LEMMA PackedFour ==
    ASSUME NEW x1, NEW w1, NEW x2, NEW w2, NEW x3, NEW w3, NEW x4, NEW w4, NEW k
    PROVE  Packs(<< <<x1, w1>>, <<x2, w2>>, <<x3, w3>>, <<x4, w4>> >>, << <<x1, w1, k>>, <<x2, w2, k>>, <<x3, w3, k>>, <<x4, w4, k>> >>, k)
<1> DEFINE s == << <<x1, w1>>, <<x2, w2>>, <<x3, w3>>, <<x4, w4>> >>
           f == << <<x1, w1, k>>, <<x2, w2, k>>, <<x3, w3, k>>, <<x4, w4, k>> >>
<1>1. Len(s) = 4 /\ s \in Seq({ <<x1, w1>>, <<x2, w2>>, <<x3, w3>>, <<x4, w4>> }) OBVIOUS
<1>2. Len(f) = 4 /\ f \in Seq({ <<x1, w1, k>>, <<x2, w2, k>>, <<x3, w3, k>>, <<x4, w4, k>> }) OBVIOUS
<1>3. \A j \in 1..4 : j = 1 \/ j = 2 \/ j = 3 \/ j = 4 OBVIOUS
<1>4. \A j \in 1..4 : f[j] = <<s[j][1], s[j][2], k>> BY <1>3
<1>5. Listed(s) /\ Listed(f) BY <1>1, <1>2 DEF Listed
<1> QED BY <1>1, <1>2, <1>4, <1>5 DEF Packs

\* Six of them.
LEMMA PackedSix ==
    ASSUME NEW x1, NEW w1, NEW x2, NEW w2, NEW x3, NEW w3, NEW x4, NEW w4, NEW x5, NEW w5, NEW x6, NEW w6, NEW k
    PROVE  Packs(<< <<x1, w1>>, <<x2, w2>>, <<x3, w3>>, <<x4, w4>>, <<x5, w5>>, <<x6, w6>> >>, << <<x1, w1, k>>, <<x2, w2, k>>, <<x3, w3, k>>, <<x4, w4, k>>, <<x5, w5, k>>, <<x6, w6, k>> >>, k)
<1> DEFINE s == << <<x1, w1>>, <<x2, w2>>, <<x3, w3>>, <<x4, w4>>, <<x5, w5>>, <<x6, w6>> >>
           f == << <<x1, w1, k>>, <<x2, w2, k>>, <<x3, w3, k>>, <<x4, w4, k>>, <<x5, w5, k>>, <<x6, w6, k>> >>
<1>1. Len(s) = 6 /\ s \in Seq({ <<x1, w1>>, <<x2, w2>>, <<x3, w3>>, <<x4, w4>>, <<x5, w5>>, <<x6, w6>> }) OBVIOUS
<1>2. Len(f) = 6 /\ f \in Seq({ <<x1, w1, k>>, <<x2, w2, k>>, <<x3, w3, k>>, <<x4, w4, k>>, <<x5, w5, k>>, <<x6, w6, k>> }) OBVIOUS
<1>3. \A j \in 1..6 : j = 1 \/ j = 2 \/ j = 3 \/ j = 4 \/ j = 5 \/ j = 6 OBVIOUS
<1>4. \A j \in 1..6 : f[j] = <<s[j][1], s[j][2], k>> BY <1>3
<1>5. Listed(s) /\ Listed(f) BY <1>1, <1>2 DEF Listed
<1> QED BY <1>1, <1>2, <1>4, <1>5 DEF Packs


\* Structs one after the other over fields one after the other.
LEMMA PackJoined ==
    ASSUME NEW s, NEW f, NEW t, NEW g, NEW k, Packs(s, f, k), Packs(t, g, k)
    PROVE  Packs(s \o t, f \o g, k)
<1>1. /\ Listed(s) /\ Listed(f) /\ Len(f) = Len(s) /\ Listed(t) /\ Listed(g) /\ Len(g) = Len(t)
      /\ \A j \in 1..Len(s) : f[j] = <<s[j][1], s[j][2], k>>
      /\ \A j \in 1..Len(t) : g[j] = <<t[j][1], t[j][2], k>>
  BY DEF Packs
<1> DEFINE u == s \o t
           h == f \o g
<1>2. /\ Listed(u) /\ Len(s) \in Nat /\ Len(t) \in Nat /\ Len(u) = Len(s) + Len(t)
      /\ \A j \in 1..Len(s) : u[j] = s[j]
      /\ \A j \in 1..Len(t) : u[Len(s) + j] = t[j]
  <2>1. Listed(s) /\ Listed(t) BY <1>1
  <2> QED BY ONLY <2>1, ListedJoined DEF u
<1>3. /\ Listed(h) /\ Len(h) = Len(f) + Len(g)
      /\ \A j \in 1..Len(f) : h[j] = f[j]
      /\ \A j \in 1..Len(g) : h[Len(f) + j] = g[j]
  <2>1. Listed(f) /\ Listed(g) BY <1>1
  <2> QED BY ONLY <2>1, ListedJoined DEF h
<1> HIDE DEF u, h
<1>4. ASSUME NEW j \in 1..Len(u) PROVE h[j] = <<u[j][1], u[j][2], k>>
  <2>1. CASE j \in 1..Len(s) BY <1>1, <1>2, <1>3, <2>1
  <2>2. CASE j \notin 1..Len(s)
    <3>1. PICK i \in 1..Len(t) : j = Len(s) + i
      <4>1. j - Len(s) \in 1..Len(t) /\ j = Len(s) + (j - Len(s)) BY <1>2, <2>2
      <4> QED BY <4>1
    <3>2. u[j] = t[i] /\ h[j] = g[i] BY <1>1, <1>2, <1>3, <3>1
    <3> QED BY <1>1, <3>2
  <2> QED BY <2>1, <2>2
<1> QED BY <1>1, <1>2, <1>3, <1>4 DEF Packs, u, h

\* An object id in a struct, and the pair that is sent.
LEMMA PairPacked ==
    ASSUME NEW name
    PROVE  Packs(Nested(name, ObjectId), Pair(name), 0)
<1> DEFINE a == Member(name, "low")
           z == Member(name, "high")
<1>1. Nested(name, ObjectId) = << <<a, 4>>, <<z, 4>> >>
  <2> HIDE DEF a, z
  <2>1. DOMAIN ObjectId = 1..2 /\ ObjectId[1] = <<"low", 4>> /\ ObjectId[2] = <<"high", 4>> BY DEF ObjectId
  <2>2. \A i \in 1..2 : i = 1 \/ i = 2 OBVIOUS
  <2> DEFINE n == [i \in 1..2 |-> <<Member(name, ObjectId[i][1]), ObjectId[i][2]>>]
  <2>3. n[1] = <<a, 4>> /\ n[2] = <<z, 4>> BY <2>1 DEF a, z
  <2>4. n = << <<a, 4>>, <<z, 4>> >>
    <3>1. n = [i \in 1..2 |-> n[i]] OBVIOUS
    <3> HIDE DEF n
    <3> QED BY <2>2, <2>3, <3>1
  <2> QED BY <2>1, <2>4 DEF Nested
<1>2. Pair(name) = << <<a, 4, 0>>, <<z, 4, 0>> >> BY DEF Pair, F
<1> HIDE DEF a, z
<1> QED BY <1>1, <1>2, PackedTwo

\* An item id in a struct, and the place that is sent.
LEMMA PlacePacked ==
    ASSUME NEW name
    PROVE  Packs(Nested(name, InvItemId), Place(name), 0)
<1> DEFINE a == Member(name, "zero")
           b == Member(name, "type")
           c == Member(name, "containerTempId")
           d == Member(name, "itemSlotId")
<1>1. Nested(name, InvItemId) = << <<a, 2>>, <<b, 2>>, <<c, 2>>, <<d, 2>> >>
  <2> HIDE DEF a, b, c, d
  <2>1. /\ DOMAIN InvItemId = 1..4 /\ InvItemId[1] = <<"zero", 2>> /\ InvItemId[2] = <<"type", 2>>
        /\ InvItemId[3] = <<"containerTempId", 2>> /\ InvItemId[4] = <<"itemSlotId", 2>>
    BY DEF InvItemId
  <2>2. \A i \in 1..4 : i = 1 \/ i = 2 \/ i = 3 \/ i = 4 OBVIOUS
  <2> DEFINE n == [i \in 1..4 |-> <<Member(name, InvItemId[i][1]), InvItemId[i][2]>>]
  <2>3. n[1] = <<a, 2>> /\ n[2] = <<b, 2>> /\ n[3] = <<c, 2>> /\ n[4] = <<d, 2>> BY <2>1 DEF a, b, c, d
  <2>4. n = << <<a, 2>>, <<b, 2>>, <<c, 2>>, <<d, 2>> >>
    <3>1. n = [i \in 1..4 |-> n[i]] OBVIOUS
    <3> HIDE DEF n
    <3> QED BY <2>2, <2>3, <3>1
  <2> QED BY <2>1, <2>4 DEF Nested
<1>2. Place(name) = << <<a, 2, 0>>, <<b, 2, 0>>, <<c, 2, 0>>, <<d, 2, 0>> >> BY DEF Place, F
<1> HIDE DEF a, b, c, d
<1> QED BY <1>1, <1>2, PackedFour

\* A key and its value in a struct, and the property that is sent.
LEMMA PropertyPacked ==
    ASSUME NEW key, NEW value
    PROVE  Packs(KeyValue(key, value), Property(key, value), 0)
BY PackedTwo DEF KeyValue, Property, F

\* A struct that begins with the header, and what is sent behind the header.
Behind(struct, body) ==
  /\ Listed(struct) /\ Listed(body) /\ Len(struct) = 8 + Len(body)
  /\ \A i \in 1..8 : struct[i] = Header[i]
  /\ \A j \in 1..Len(body) : body[j] = <<struct[8 + j][1], struct[8 + j][2], 0>>

\* The header as a struct.
LEMMA HeaderListed ==
    /\ Listed(Header) /\ Len(Header) = 8
    /\ Header[1] = <<"headerid", 4>> /\ Header[2] = <<"unknown1", 2>> /\ Header[3] = <<"msgsize", 2>>
    /\ Header[4] = <<"serverid", 4>> /\ Header[5] = <<"charid", 4>> /\ Header[6] = <<"msgid", 4>>
    /\ Header[7] = <<"target.low", 4>> /\ Header[8] = <<"target.high", 4>>
<1>1. Len(Header) = 8 /\ Header \in Seq({Header[1], Header[2], Header[3], Header[4], Header[5], Header[6], Header[7], Header[8]})
  BY DEF Header
<1>2. /\ Header[1] = <<"headerid", 4>> /\ Header[2] = <<"unknown1", 2>> /\ Header[3] = <<"msgsize", 2>>
      /\ Header[4] = <<"serverid", 4>> /\ Header[5] = <<"charid", 4>> /\ Header[6] = <<"msgid", 4>>
      /\ Header[7] = <<"target.low", 4>> /\ Header[8] = <<"target.high", 4>>
  BY DEF Header
<1> QED BY <1>1, <1>2 DEF Listed

\* The first members behind the header.
LEMMA BehindHeader ==
    ASSUME NEW t, NEW g, Packs(t, g, 0)
    PROVE  Behind(Header \o t, g)
<1>1. /\ Listed(t) /\ Listed(g) /\ Len(g) = Len(t)
      /\ \A j \in 1..Len(t) : g[j] = <<t[j][1], t[j][2], 0>>
  BY DEF Packs
<1> DEFINE u == Header \o t
<1>2. /\ Listed(u) /\ Len(u) = Len(Header) + Len(t)
      /\ \A j \in 1..Len(Header) : u[j] = Header[j]
      /\ \A j \in 1..Len(t) : u[Len(Header) + j] = t[j]
  <2>1. Listed(Header) /\ Listed(t) BY <1>1, HeaderListed
  <2> QED BY ONLY <2>1, ListedJoined DEF u
<1> HIDE DEF u
<1>3. Len(Header) = 8 BY HeaderListed
<1> QED BY <1>1, <1>2, <1>3 DEF Behind, u

\* And more of them.
LEMMA BehindJoined ==
    ASSUME NEW s, NEW f, NEW t, NEW g, Behind(s, f), Packs(t, g, 0)
    PROVE  Behind(s \o t, f \o g)
<1>1. /\ Listed(s) /\ Listed(f) /\ Len(s) = 8 + Len(f) /\ Listed(t) /\ Listed(g) /\ Len(g) = Len(t)
      /\ \A i \in 1..8 : s[i] = Header[i]
      /\ \A j \in 1..Len(f) : f[j] = <<s[8 + j][1], s[8 + j][2], 0>>
      /\ \A j \in 1..Len(t) : g[j] = <<t[j][1], t[j][2], 0>>
  BY DEF Packs, Behind
<1> DEFINE u == s \o t
           h == f \o g
<1>2. /\ Listed(u) /\ Len(s) \in Nat /\ Len(t) \in Nat /\ Len(u) = Len(s) + Len(t)
      /\ \A j \in 1..Len(s) : u[j] = s[j]
      /\ \A j \in 1..Len(t) : u[Len(s) + j] = t[j]
  <2>1. Listed(s) /\ Listed(t) BY <1>1
  <2> QED BY ONLY <2>1, ListedJoined DEF u
<1>3. /\ Listed(h) /\ Len(f) \in Nat /\ Len(h) = Len(f) + Len(g)
      /\ \A j \in 1..Len(f) : h[j] = f[j]
      /\ \A j \in 1..Len(g) : h[Len(f) + j] = g[j]
  <2>1. Listed(f) /\ Listed(g) BY <1>1
  <2> QED BY ONLY <2>1, ListedJoined DEF h
<1> HIDE DEF u, h
<1>4. ASSUME NEW j \in 1..Len(h) PROVE h[j] = <<u[8 + j][1], u[8 + j][2], 0>>
  <2>1. CASE j \in 1..Len(f)
    <3>1. 8 + j \in 1..Len(s) BY <1>1, <1>3, <2>1
    <3> QED BY <1>1, <1>2, <1>3, <2>1, <3>1
  <2>2. CASE j \notin 1..Len(f)
    <3>1. PICK i \in 1..Len(t) : j = Len(f) + i
      <4>1. j - Len(f) \in 1..Len(t) /\ j = Len(f) + (j - Len(f)) BY <1>1, <1>2, <1>3, <2>2
      <4> QED BY <4>1
    <3>2. 8 + j = Len(s) + i BY <1>1, <1>3, <3>1
    <3>3. u[8 + j] = t[i] BY <1>2, <3>2
    <3>4. h[j] = g[i] BY <1>1, <1>3, <3>1
    <3> QED BY <1>1, <3>3, <3>4
  <2> QED BY <2>1, <2>2
<1>5. \A i \in 1..8 : u[i] = Header[i]
  <2>1. \A i \in 1..8 : i \in 1..Len(s) BY <1>1, <1>3
  <2> QED BY <1>1, <1>2, <2>1
<1>6. Len(u) = 8 + Len(h) BY <1>1, <1>2, <1>3
<1> QED BY <1>2, <1>3, <1>4, <1>5, <1>6 DEF Behind, u, h

\* The widths of a header of seven fields and more before them.
HeaderLength(origin, type) == IF origin = "client" THEN 7 ELSE IF type = "D" THEN 10 ELSE 9

\* The header that is sent is as long.
LEMMA HeaderSent ==
    ASSUME NEW origin, NEW type
    PROVE  /\ Listed(SentHeader(origin, type))
           /\ Len(SentHeader(origin, type)) = HeaderLength(origin, type)
<1> DEFINE p == << F("seq", 2), F("type", 2) >>
           o == << F("0A", 1) >>
           q == << F("protocol", 2), F("msgsize", 2), F("serverid", 4), F("charid", 4), F("msgid", 4),
                   F("target.low", 4), F("target.high", 4) >>
           r == << F("type", 4), F("zero", 4), F("receiver", 4), F("two", 4), F("msgid", 4),
                   F("target.low", 4), F("target.high", 4) >>
<1>1. Listed(p) /\ Len(p) = 2 BY ListedTwo
<1>2. Listed(o) /\ Len(o) = 1 BY ListedOne
<1>3. Listed(q) /\ Len(q) = 7
  <2>1. Len(q) = 7 /\ q \in Seq({q[1], q[2], q[3], q[4], q[5], q[6], q[7]}) OBVIOUS
  <2> QED BY <2>1 DEF Listed
<1>4. Listed(r) /\ Len(r) = 7
  <2>1. Len(r) = 7 /\ r \in Seq({r[1], r[2], r[3], r[4], r[5], r[6], r[7]}) OBVIOUS
  <2> QED BY <2>1 DEF Listed
<1>5. Listed(<<>>) /\ Len(<<>>) = 0
  <2>1. <<>> \in Seq({}) OBVIOUS
  <2> QED BY <2>1 DEF Listed
<1>6. SentHeader(origin, type) = IF origin = "client" THEN r ELSE p \o (IF type = "D" THEN o ELSE <<>>) \o q
  BY DEF SentHeader
<1> HIDE DEF p, o, q, r
<1>7. CASE origin = "client" BY <1>4, <1>6, <1>7 DEF HeaderLength
<1>8. CASE origin # "client" /\ type = "D"
  <2> DEFINE u == p \o o
  <2>1. Listed(u) /\ Len(u) = Len(p) + Len(o) BY ONLY <1>1, <1>2, ListedJoined
  <2> HIDE DEF u
  <2>2. Listed(u \o q) /\ Len(u \o q) = Len(u) + Len(q) BY ONLY <1>3, <2>1, ListedJoined
  <2>3. SentHeader(origin, type) = u \o q BY <1>6, <1>8 DEF u
  <2>4. HeaderLength(origin, type) = 10 BY <1>8 DEF HeaderLength
  <2> QED BY <1>1, <1>2, <1>3, <2>1, <2>2, <2>3, <2>4
<1>9. CASE origin # "client" /\ type # "D"
  <2> DEFINE u == p \o <<>>
  <2>1. Listed(u) /\ Len(u) = Len(p) + Len(<<>>) BY ONLY <1>1, <1>5, ListedJoined
  <2> HIDE DEF u
  <2>2. Listed(u \o q) /\ Len(u \o q) = Len(u) + Len(q) BY ONLY <1>3, <2>1, ListedJoined
  <2>3. SentHeader(origin, type) = u \o q BY <1>6, <1>9 DEF u
  <2>4. HeaderLength(origin, type) = 9 BY <1>9 DEF HeaderLength
  <2> QED BY <1>1, <1>3, <1>5, <2>1, <2>2, <2>3, <2>4
<1> QED BY <1>7, <1>8, <1>9

\* A header with a body behind it.
SentAs(fields, origin, type, body) == Listed(body) /\ fields = SentHeader(origin, type) \o body

\* What is sent behind it is the part behind its fields.
LEMMA BodySent ==
    ASSUME NEW origin, NEW type, NEW body, NEW fields, SentAs(fields, origin, type, body)
    PROVE  /\ PartAt(fields, HeaderLength(origin, type), body)
           /\ Len(fields) = HeaderLength(origin, type) + Len(body)
<1> DEFINE h == SentHeader(origin, type)
           b == HeaderLength(origin, type)
<1>1. Listed(h) /\ Len(h) = b BY HeaderSent
<1>2. fields = h \o body /\ Listed(body) BY DEF SentAs
<1>3. b \in Nat BY DEF HeaderLength
<1> HIDE DEF h, b
<1>4. PartAt(fields, 0, fields) /\ Len(fields) \in Nat BY <1>1, <1>2, WholePart
<1>5. PartAt(fields, 0, h \o body) BY <1>2, <1>4
<1>6. PartAt(fields, 0 + Len(h), body) BY <1>1, <1>2, <1>4, <1>5, PartJoined
<1>7. Len(h \o body) = Len(h) + Len(body) BY <1>1, <1>2, ListedJoined
<1>8. 0 + Len(h) = b BY <1>1, <1>3
<1> QED BY <1>1, <1>2, <1>6, <1>7, <1>8 DEF b

\* Both headers end at the same place, if the type has no byte more.
LEMMA HeaderEnds ==
    ASSUME NEW fields \in Seq(Field), NEW origin \in {"server", "client"}, NEW type, type # "D",
           IsPrefix(SentHeader(origin, type), fields)
    PROVE  Ends(fields)[HeaderLength(origin, type)] = 28
<1>1. CASE origin = "server" BY <1>1, ServerEnds DEF HeaderLength
<1>2. CASE origin = "client" BY <1>2, ClientEnds DEF HeaderLength
<1> QED BY <1>1, <1>2

\* A struct that begins with the header has it in its first 28 bytes.
LEMMA StructHeader ==
    ASSUME NEW struct, Len(struct) \in Nat, Len(struct) >= 8, \A i \in 1..8 : struct[i] = Header[i]
    PROVE  Ends(struct)[8] = 28
<1> DEFINE e == Ends(struct)
<1>1. e[0] = 0 /\ \A n \in Nat : n < 8 => e[n + 1] = e[n] + struct[n + 1][2]
  <2>1. e[0] = 0 BY EndsLoop
  <2>2. \A n \in Nat : n < 8 => n < Len(struct) OBVIOUS
  <2>3. \A n \in Nat : n < Len(struct) => e[n + 1] = e[n] + struct[n + 1][2] BY EndsLoop
  <2> HIDE DEF e
  <2> QED BY <2>1, <2>2, <2>3
<1> HIDE DEF e
<1>2. /\ struct[1] = <<"headerid", 4>> /\ struct[2] = <<"unknown1", 2>> /\ struct[3] = <<"msgsize", 2>>
      /\ struct[4] = <<"serverid", 4>> /\ struct[5] = <<"charid", 4>> /\ struct[6] = <<"msgid", 4>>
      /\ struct[7] = <<"target.low", 4>> /\ struct[8] = <<"target.high", 4>>
  BY HeaderListed
<1>3. /\ struct[1][2] = 4 /\ struct[2][2] = 2 /\ struct[3][2] = 2 /\ struct[4][2] = 4
      /\ struct[5][2] = 4 /\ struct[6][2] = 4 /\ struct[7][2] = 4 /\ struct[8][2] = 4
  BY <1>2
<1> DEFINE Ends8(n) == e[n + 1] = e[n] + struct[n + 1][2]
<1>4. Ends8(0) /\ Ends8(1) /\ Ends8(2) /\ Ends8(3) /\ Ends8(4) /\ Ends8(5) /\ Ends8(6) /\ Ends8(7)
  <2>1. \A n \in Nat : n < 8 => Ends8(n) BY <1>1
  <2> HIDE DEF Ends8
  <2> QED BY ONLY <2>1
<1>5. e[1] = 4
  <2>1. e[1] = e[0] + struct[1][2]
    <3>1. e[0 + 1] = e[0] + struct[0 + 1][2] BY ONLY <1>4
    <3>2. 0 + 1 = 1 OBVIOUS
    <3> QED BY ONLY <3>1, <3>2
  <2> QED BY ONLY <1>3, <1>1, <2>1
<1>6. e[2] = 6
  <2>1. e[2] = e[1] + struct[2][2]
    <3>1. e[1 + 1] = e[1] + struct[1 + 1][2] BY ONLY <1>4
    <3>2. 1 + 1 = 2 OBVIOUS
    <3> QED BY ONLY <3>1, <3>2
  <2> QED BY ONLY <1>3, <1>5, <2>1
<1>7. e[3] = 8
  <2>1. e[3] = e[2] + struct[3][2]
    <3>1. e[2 + 1] = e[2] + struct[2 + 1][2] BY ONLY <1>4
    <3>2. 2 + 1 = 3 OBVIOUS
    <3> QED BY ONLY <3>1, <3>2
  <2> QED BY ONLY <1>3, <1>6, <2>1
<1>8. e[4] = 12
  <2>1. e[4] = e[3] + struct[4][2]
    <3>1. e[3 + 1] = e[3] + struct[3 + 1][2] BY ONLY <1>4
    <3>2. 3 + 1 = 4 OBVIOUS
    <3> QED BY ONLY <3>1, <3>2
  <2> QED BY ONLY <1>3, <1>7, <2>1
<1>9. e[5] = 16
  <2>1. e[5] = e[4] + struct[5][2]
    <3>1. e[4 + 1] = e[4] + struct[4 + 1][2] BY ONLY <1>4
    <3>2. 4 + 1 = 5 OBVIOUS
    <3> QED BY ONLY <3>1, <3>2
  <2> QED BY ONLY <1>3, <1>8, <2>1
<1>10. e[6] = 20
  <2>1. e[6] = e[5] + struct[6][2]
    <3>1. e[5 + 1] = e[5] + struct[5 + 1][2] BY ONLY <1>4
    <3>2. 5 + 1 = 6 OBVIOUS
    <3> QED BY ONLY <3>1, <3>2
  <2> QED BY ONLY <1>3, <1>9, <2>1
<1>11. e[7] = 24
  <2>1. e[7] = e[6] + struct[7][2]
    <3>1. e[6 + 1] = e[6] + struct[6 + 1][2] BY ONLY <1>4
    <3>2. 6 + 1 = 7 OBVIOUS
    <3> QED BY ONLY <3>1, <3>2
  <2> QED BY ONLY <1>3, <1>10, <2>1
<1>12. e[8] = 28
  <2>1. e[8] = e[7] + struct[8][2]
    <3>1. e[7 + 1] = e[7] + struct[7 + 1][2] BY ONLY <1>4
    <3>2. 7 + 1 = 8 OBVIOUS
    <3> QED BY ONLY <3>1, <3>2
  <2> QED BY ONLY <1>3, <1>11, <2>1
<1> QED BY <1>12 DEF e

\* What a struct shows behind its header is what was sent there.
LEMMA BehindShown ==
    ASSUME NEW fields \in Seq(Field), NEW b, NEW struct, NEW body, Behind(struct, body),
           PartAt(fields, b, body), Ends(fields)[b] = 28,
           NEW x \in DOMAIN Overlay(Message(fields), 0, struct) \ {Header[i][1] : i \in DOMAIN Header}
    PROVE  Overlay(Message(fields), 0, struct)[x] = <<x, 0>>
<1> DEFINE L == Len(body)
<1>1. /\ Listed(struct) /\ Listed(body) /\ Len(struct) = 8 + L
      /\ \A i \in 1..8 : struct[i] = Header[i]
      /\ \A j \in 1..L : body[j] = <<struct[8 + j][1], struct[8 + j][2], 0>>
  BY DEF Behind
<1>2. /\ b \in Nat /\ b + L <= Len(fields)
      /\ \A j \in 1..L : fields[b + j] = body[j]
  BY DEF PartAt
<1>3. DOMAIN struct = 1..Len(struct) /\ L \in Nat BY <1>1 DEF Listed
<1>4. Ends(struct)[8] = 28
  <2>1. Len(struct) \in Nat /\ Len(struct) >= 8 BY <1>1, <1>3
  <2>2. \A i \in 1..8 : struct[i] = Header[i] BY <1>1
  <2> QED BY ONLY <2>1, <2>2, StructHeader
<1>5. \A j \in 1..L : fields[b + j][1] = struct[8 + j][1] /\ fields[b + j][2] = struct[8 + j][2] /\ fields[b + j][3] = 0
  <2> SUFFICES ASSUME NEW j \in 1..L
               PROVE  /\ fields[b + j][1] = struct[8 + j][1] /\ fields[b + j][2] = struct[8 + j][2]
                      /\ fields[b + j][3] = 0
    OBVIOUS
  <2>1. fields[b + j] = <<struct[8 + j][1], struct[8 + j][2], 0>> BY <1>1, <1>2
  <2> QED BY ONLY <2>1
<1>6. LaidOver(fields, 0, struct, 8, b, L) BY <1>1, <1>2, <1>3, <1>4, <1>5 DEF LaidOver
<1>7. x \in {struct[i][1] : i \in DOMAIN struct} BY DEF Overlay, Placed
<1>8. \A i \in 1..8 : struct[i][1] # x
  <2>1. DOMAIN Header = 1..8 BY HeaderListed DEF Listed
  <2> QED BY <1>1, <2>1
<1>9. PICK i \in 1..(8 + L) : struct[i][1] = x BY <1>1, <1>3, <1>7
<1>10. \E j \in 1..L : struct[8 + j][1] = x
  <2>1. i \notin 1..8 BY <1>8, <1>9
  <2>2. i - 8 \in 1..L /\ 8 + (i - 8) = i BY <1>3, <2>1
  <2> QED BY <1>9, <2>2
<1>11. \A j \in 1..L : struct[8 + j][1] = x => <<fields[b + j][1], fields[b + j][3]>> = <<x, 0>> BY <1>5
<1> DEFINE o == 0
           a == 8
           v == <<x, 0>>
<1>12. LaidOver(fields, o, struct, a, b, L) BY <1>6
<1>13. \E j \in 1..L : struct[a + j][1] = x BY <1>10
<1>14. \A k \in 1..a : struct[k][1] # x BY <1>8
<1>15. \A j \in 1..L : struct[a + j][1] = x => <<fields[b + j][1], fields[b + j][3]>> = v BY <1>11
<1>17. NamedAs(fields, struct, a, b, L, x, v) BY <1>13, <1>14, <1>15 DEF NamedAs
<1> HIDE DEF o, a, v, L
<1>16. Overlay(Message(fields), o, struct)[x] = v BY ONLY <1>12, <1>17, OverlayRead
<1> QED BY <1>16 DEF o, v

-----------------------------------------------------------------------------
(* The messages of one struct.                                             *)

\* The action of a character.
LEMMA CharacterActionSent ==
    ASSUME NEW n
    PROVE  Behind(CharacterAction, SentBody("characterAction", n))
<1> DEFINE t1 == << <<"pad", 1>>, <<"operationId", 4>>, <<"unknown3", 4>> >>
           g1 == << F("pad", 1), F("operationId", 4), F("unknown3", 4) >>
           t2 == << <<"zeroes2", 2>> >>
           g2 == << F("zeroes2", 2) >>
<1>1. Packs(t1, g1, 0) BY PackedThree DEF F
<1>2. Packs(t2, g2, 0) BY PackedOne DEF F
<1>3. SentBody("characterAction", n) = g1 \o Place("itemToDelete") \o Pair("itemId") \o g2
  BY DEF SentBody
<1>4. CharacterAction = Header \o t1 \o Nested("itemToDelete", InvItemId) \o Nested("itemId", ObjectId) \o t2
  BY DEF CharacterAction
<1> HIDE DEF t1, g1, t2, g2
<1>5. Behind(Header \o t1, g1) BY <1>1, BehindHeader
<1>6. Behind(Header \o t1 \o Nested("itemToDelete", InvItemId), g1 \o Place("itemToDelete"))
  BY <1>5, PlacePacked, BehindJoined
<1>7. Behind(Header \o t1 \o Nested("itemToDelete", InvItemId) \o Nested("itemId", ObjectId),
             g1 \o Place("itemToDelete") \o Pair("itemId"))
  BY <1>6, PairPacked, BehindJoined
<1> QED BY <1>2, <1>7, <1>3, <1>4, BehindJoined

\* An item given to a character of the game.
LEMMA GiveToNPCSent ==
    ASSUME NEW n
    PROVE  Behind(GiveToNPC, SentBody("giveToNpc", n))
<1> DEFINE t1 == << <<"pad", 1>>, <<"operationId", 2>> >>
           g1 == << F("pad", 1), F("operationId", 2) >>
           t2 == << <<"direction", 4>>, <<"unknown3", 4>>, <<"unknown4", 4>> >>
           g2 == << F("direction", 4), F("unknown3", 4), F("unknown4", 4) >>
<1>1. Packs(t1, g1, 0) BY PackedTwo DEF F
<1>2. Packs(t2, g2, 0) BY PackedThree DEF F
<1>3. SentBody("giveToNpc", n) = g1 \o Pair("npcID") \o g2 \o Place("invItemGiven")
  BY DEF SentBody
<1>4. GiveToNPC = Header \o t1 \o Nested("npcID", ObjectId) \o t2 \o Nested("invItemGiven", InvItemId)
  BY DEF GiveToNPC
<1> HIDE DEF t1, g1, t2, g2
<1>5. Behind(Header \o t1, g1) BY <1>1, BehindHeader
<1>6. Behind(Header \o t1 \o Nested("npcID", ObjectId), g1 \o Pair("npcID"))
  BY <1>5, PairPacked, BehindJoined
<1>7. Behind(Header \o t1 \o Nested("npcID", ObjectId) \o t2, g1 \o Pair("npcID") \o g2)
  BY <1>6, <1>2, BehindJoined
<1> QED BY <1>7, <1>3, <1>4, PlacePacked, BehindJoined

\* The end of a trade with it.
LEMMA EndNPCTradeSent ==
    ASSUME NEW n
    PROVE  Behind(EndNPCTrade, SentBody("endNpcTrade", n))
<1> DEFINE t1 == << <<"pad", 1>>, <<"operationId", 2>> >>
           g1 == << F("pad", 1), F("operationId", 2) >>
           t2 == << <<"operation", 4>>, <<"unknown2", 4>> >>
           g2 == << F("operation", 4), F("unknown2", 4) >>
<1>1. Packs(t1, g1, 0) BY PackedTwo DEF F
<1>2. Packs(t2, g2, 0) BY PackedTwo DEF F
<1>3. SentBody("endNpcTrade", n) = g1 \o Pair("npcID") \o g2
  BY DEF SentBody
<1>4. EndNPCTrade = Header \o t1 \o Nested("npcID", ObjectId) \o t2
  BY DEF EndNPCTrade
<1> HIDE DEF t1, g1, t2, g2
<1>5. Behind(Header \o t1, g1) BY <1>1, BehindHeader
<1>6. Behind(Header \o t1 \o Nested("npcID", ObjectId), g1 \o Pair("npcID"))
  BY <1>5, PairPacked, BehindJoined
<1> QED BY <1>2, <1>6, <1>3, <1>4, BehindJoined

\* What the partner of a trade adds.
LEMMA PartnerTradeItemSent ==
    ASSUME NEW n
    PROVE  Behind(PartnerTradeItem, SentBody("partnerTrade", n))
<1> DEFINE t1 == << <<"pad", 1>> >>
           g1 == << F("pad", 1) >>
           t2 == << <<"ql", 4>>, <<"flags", 2>>, <<"stack", 2>>, <<"operationId", 4>> >>
           g2 == << F("ql", 4), F("flags", 2), F("stack", 2), F("operationId", 4) >>
<1>1. Packs(t1, g1, 0) BY PackedOne DEF F
<1>2. Packs(t2, g2, 0) BY PackedFour DEF F
<1>3. SentBody("partnerTrade", n) = g1 \o Pair("itemid") \o g2 \o Place("partnerInvItem")
        \o Place("myInvItemNotUsed")
  BY DEF SentBody
<1>4. PartnerTradeItem = Header \o t1 \o Nested("itemid", ObjectId) \o t2 \o Nested("partnerInvItem", InvItemId)
        \o Nested("myInvItemNotUsed", InvItemId)
  BY DEF PartnerTradeItem
<1> HIDE DEF t1, g1, t2, g2
<1>5. Behind(Header \o t1, g1) BY <1>1, BehindHeader
<1>6. Behind(Header \o t1 \o Nested("itemid", ObjectId), g1 \o Pair("itemid"))
  BY <1>5, PairPacked, BehindJoined
<1>7. Behind(Header \o t1 \o Nested("itemid", ObjectId) \o t2, g1 \o Pair("itemid") \o g2)
  BY <1>6, <1>2, BehindJoined
<1>8. Behind(Header \o t1 \o Nested("itemid", ObjectId) \o t2 \o Nested("partnerInvItem", InvItemId),
             g1 \o Pair("itemid") \o g2 \o Place("partnerInvItem"))
  BY <1>7, PlacePacked, BehindJoined
<1> QED BY <1>8, <1>3, <1>4, PlacePacked, BehindJoined

\* A step of a trade.
LEMMA TradeTransactionSent ==
    ASSUME NEW n
    PROVE  Behind(TradeTransaction, SentBody("transaction", n))
<1> DEFINE t1 == << <<"pad", 1>>, <<"unknown2", 4>>, <<"operationId", 1>> >>
           g1 == << F("pad", 1), F("unknown2", 4), F("operationId", 1) >>
<1>1. Packs(t1, g1, 0) BY PackedThree DEF F
<1>2. SentBody("transaction", n) = g1 \o Pair("fromId") \o Place("itemToTrade")
  BY DEF SentBody
<1>3. TradeTransaction = Header \o t1 \o Nested("fromId", ObjectId) \o Nested("itemToTrade", InvItemId)
  BY DEF TradeTransaction
<1> HIDE DEF t1, g1
<1>4. Behind(Header \o t1, g1) BY <1>1, BehindHeader
<1>5. Behind(Header \o t1 \o Nested("fromId", ObjectId), g1 \o Pair("fromId"))
  BY <1>4, PairPacked, BehindJoined
<1> QED BY <1>5, <1>2, <1>3, PlacePacked, BehindJoined

\* An item bought from a shop.
LEMMA BoughtItemFromShopSent ==
    ASSUME NEW n
    PROVE  Behind(BoughtItemFromShop, SentBody("bought", n))
<1> DEFINE t1 == << <<"pad", 1>> >>
           g1 == << F("pad", 1) >>
           t2 == << <<"ql", 4>>, <<"flags", 2>>, <<"stack", 2>> >>
           g2 == << F("ql", 4), F("flags", 2), F("stack", 2) >>
<1>1. Packs(t1, g1, 0) BY PackedOne DEF F
<1>2. Packs(t2, g2, 0) BY PackedThree DEF F
<1>3. SentBody("bought", n) = g1 \o Pair("itemid") \o g2
  BY DEF SentBody
<1>4. BoughtItemFromShop = Header \o t1 \o Nested("itemid", ObjectId) \o t2
  BY DEF BoughtItemFromShop
<1> HIDE DEF t1, g1, t2, g2
<1>5. Behind(Header \o t1, g1) BY <1>1, BehindHeader
<1>6. Behind(Header \o t1 \o Nested("itemid", ObjectId), g1 \o Pair("itemid"))
  BY <1>5, PairPacked, BehindJoined
<1> QED BY <1>2, <1>6, <1>3, <1>4, BehindJoined

\* A container that has been bought.
LEMMA BackpackSent ==
    ASSUME NEW n
    PROVE  Behind(Backpack, SentBody("backpack", n))
<1> DEFINE t1 == << <<"pad", 1>>, <<"unknown2", 4>> >>
           g1 == << F("pad", 1), F("unknown2", 4) >>
           t2 == << <<"zone", 4>>, <<"unCons", 4>>, <<"zeroes1", 4>>, <<"operationId", 1>>, <<"invSlot", 1>>, <<"mass", 4>> >>
           g2 == << F("zone", 4), F("unCons", 4), F("zeroes1", 4), F("operationId", 1), F("invSlot", 1), F("mass", 4) >>
<1>1. Packs(t1, g1, 0) BY PackedTwo DEF F
<1>2. Packs(t2, g2, 0) BY PackedSix DEF F
<1>3. SentBody("backpack", n) = g1 \o Pair("ownerId") \o g2 \o Property("zeroes2", "flags")
        \o Property("key17", "itemKey1") \o Property("key2bd", "ql") \o Property("key2be", "itemKeyLow")
        \o Property("key2bf", "itemKeyHigh") \o Property("key19c", "one")
  BY DEF SentBody
<1>4. Backpack = Header \o t1 \o Nested("ownerId", ObjectId) \o t2 \o KeyValue("zeroes2", "flags")
        \o KeyValue("key17", "itemKey1") \o KeyValue("key2bd", "ql") \o KeyValue("key2be", "itemKeyLow")
        \o KeyValue("key2bf", "itemKeyHigh") \o KeyValue("key19c", "one")
  BY DEF Backpack
<1> HIDE DEF t1, g1, t2, g2
<1>5. Behind(Header \o t1, g1) BY <1>1, BehindHeader
<1>6. Behind(Header \o t1 \o Nested("ownerId", ObjectId), g1 \o Pair("ownerId"))
  BY <1>5, PairPacked, BehindJoined
<1>7. Behind(Header \o t1 \o Nested("ownerId", ObjectId) \o t2, g1 \o Pair("ownerId") \o g2)
  BY <1>6, <1>2, BehindJoined
<1>8. Behind(Header \o t1 \o Nested("ownerId", ObjectId) \o t2 \o KeyValue("zeroes2", "flags"),
             g1 \o Pair("ownerId") \o g2 \o Property("zeroes2", "flags"))
  BY <1>7, PropertyPacked, BehindJoined
<1>9. Behind(Header \o t1 \o Nested("ownerId", ObjectId) \o t2 \o KeyValue("zeroes2", "flags")
              \o KeyValue("key17", "itemKey1"),
             g1 \o Pair("ownerId") \o g2 \o Property("zeroes2", "flags") \o Property("key17", "itemKey1"))
  BY <1>8, PropertyPacked, BehindJoined
<1>10. Behind(Header \o t1 \o Nested("ownerId", ObjectId) \o t2 \o KeyValue("zeroes2", "flags")
              \o KeyValue("key17", "itemKey1") \o KeyValue("key2bd", "ql"),
             g1 \o Pair("ownerId") \o g2 \o Property("zeroes2", "flags") \o Property("key17", "itemKey1")
              \o Property("key2bd", "ql"))
  BY <1>9, PropertyPacked, BehindJoined
<1>11. Behind(Header \o t1 \o Nested("ownerId", ObjectId) \o t2 \o KeyValue("zeroes2", "flags")
              \o KeyValue("key17", "itemKey1") \o KeyValue("key2bd", "ql") \o KeyValue("key2be", "itemKeyLow"),
             g1 \o Pair("ownerId") \o g2 \o Property("zeroes2", "flags") \o Property("key17", "itemKey1")
              \o Property("key2bd", "ql") \o Property("key2be", "itemKeyLow"))
  BY <1>10, PropertyPacked, BehindJoined
<1>12. Behind(Header \o t1 \o Nested("ownerId", ObjectId) \o t2 \o KeyValue("zeroes2", "flags")
              \o KeyValue("key17", "itemKey1") \o KeyValue("key2bd", "ql") \o KeyValue("key2be", "itemKeyLow")
              \o KeyValue("key2bf", "itemKeyHigh"),
             g1 \o Pair("ownerId") \o g2 \o Property("zeroes2", "flags") \o Property("key17", "itemKey1")
              \o Property("key2bd", "ql") \o Property("key2be", "itemKeyLow")
              \o Property("key2bf", "itemKeyHigh"))
  BY <1>11, PropertyPacked, BehindJoined
<1> QED BY <1>12, <1>3, <1>4, PropertyPacked, BehindJoined

\* An item moved: the members behind the header are a struct of their own.
LEMMA ItemMovedSent ==
    ASSUME NEW n
    PROVE  Behind(ItemMoved, SentBody("itemMove", n))
<1> DEFINE t1 == << <<"pad", 1>> >>
           g1 == << F("pad", 1) >>
           t2 == << <<"unknown3", 2>>, <<"targetSlot", 2>> >>
           g2 == << F("unknown3", 2), F("targetSlot", 2) >>
<1>1. Packs(t1, g1, 0) BY PackedOne DEF F
<1>2. Packs(t2, g2, 0) BY PackedTwo DEF F
<1>3. SentBody("itemMove", n) = g1 \o Place("fromItem") \o Pair("toContainer") \o g2 BY DEF SentBody
<1>4. MoveData = t1 \o Nested("fromItem", InvItemId) \o Nested("toContainer", ObjectId) \o t2 BY DEF MoveData
<1> HIDE DEF t1, g1, t2, g2
<1>5. Packs(t1 \o Nested("fromItem", InvItemId), g1 \o Place("fromItem"), 0) BY <1>1, PlacePacked, PackJoined
<1>6. Packs(t1 \o Nested("fromItem", InvItemId) \o Nested("toContainer", ObjectId),
            g1 \o Place("fromItem") \o Pair("toContainer"), 0)
  BY <1>5, PairPacked, PackJoined
<1>7. Packs(MoveData, SentBody("itemMove", n), 0) BY <1>2, <1>3, <1>4, <1>6, PackJoined
<1> QED BY <1>7, BehindHeader DEF ItemMoved

-----------------------------------------------------------------------------
(* Lists of structs.                                                       *)

\* The widths of a struct are those of each of n parts.
ListedOver(fields, b, n, struct) ==
  /\ fields \in Seq(Field) /\ b \in Nat /\ b <= Len(fields) /\ n \in Nat
  /\ Len(struct) \in Nat /\ DOMAIN struct = 1..Len(struct)
  /\ \A j \in 1..Len(struct) : struct[j][2] \in Nat \ {0}
  /\ \A k \in Nat : k < n =>
        /\ b + k * Len(struct) \in Nat /\ (b + k * Len(struct)) + Len(struct) <= Len(fields)
        /\ \A j \in 1..Len(struct) : struct[j][2] = fields[(b + k * Len(struct)) + j][2]

\* A struct may be laid over a part whose widths it has.
LEMMA PartLaid ==
    ASSUME NEW fields \in Seq(Field), NEW struct, Len(struct) \in Nat, DOMAIN struct = 1..Len(struct),
           NEW b \in Nat, b + Len(struct) <= Len(fields), NEW o, o = Ends(fields)[b],
           \A j \in 1..Len(struct) : struct[j][2] = fields[b + j][2]
    PROVE  o \in Nat /\ LaidOver(fields, o, struct, 0, b, Len(struct))
<1>1. Ends(struct)[0] = 0 BY EndsLoop
<1>2. o \in Nat
  <2>1. \A n \in 1..Len(fields) : fields[n][2] \in Nat \ {0} BY DEF Field
  <2>2. Len(fields) \in Nat /\ b \in 0..Len(fields) OBVIOUS
  <2> QED BY <2>1, <2>2, EndsGrow
<1>3. \A j \in 1..Len(struct) : struct[0 + j][2] = fields[b + j][2] OBVIOUS
<1>4. o + Ends(struct)[0] = Ends(fields)[b] BY <1>1, <1>2
<1> DEFINE L == Len(struct)
<1>5. L \in Nat /\ Len(struct) = 0 + L /\ b + L <= Len(fields) OBVIOUS
<1> QED BY <1>1, <1>2, <1>3, <1>4, <1>5 DEF LaidOver

\* The parts of a list are as long as the struct.
LEMMA ListEnds ==
    ASSUME NEW fields, NEW b, NEW n, NEW struct, ListedOver(fields, b, n, struct)
    PROVE  /\ Size(struct) \in Nat /\ Ends(fields)[b] \in Nat
           /\ \A k \in Nat : k <= n => Ends(fields)[b + k * Len(struct)] = Ends(fields)[b] + Size(struct) * k
           /\ \A k \in Nat : k < n =>
                 LaidOver(fields, Ends(fields)[b] + Size(struct) * k, struct, 0, b + k * Len(struct), Len(struct))
<1> DEFINE e == Ends(fields)
           L == Len(struct)
           w == Size(struct)
<1>1. /\ fields \in Seq(Field) /\ b \in Nat /\ b <= Len(fields) /\ n \in Nat /\ L \in Nat /\ DOMAIN struct = 1..L
      /\ \A j \in 1..L : struct[j][2] \in Nat \ {0}
  BY DEF ListedOver
<1>2. w \in Nat
  <2>1. L \in 0..L BY <1>1
  <2>2. Ends(struct)[L] \in Nat BY <1>1, <2>1, EndsGrow
  <2> QED BY <2>2 DEF Size
<1>3. e[b] \in Nat
  <2>1. \A i \in 1..Len(fields) : fields[i][2] \in Nat \ {0} BY <1>1 DEF Field
  <2>2. Len(fields) \in Nat /\ b \in 0..Len(fields) BY <1>1
  <2> QED BY <2>1, <2>2, EndsGrow
<1>4. ASSUME NEW k \in Nat, k < n
      PROVE  /\ b + k * L \in Nat
             /\ LaidOver(fields, e[b + k * L], struct, 0, b + k * L, L)
             /\ e[(b + k * L) + L] = e[b + k * L] + w
  <2> DEFINE c == b + k * L
             o == e[c]
  <2>1. /\ c \in Nat /\ c + L <= Len(fields)
        /\ \A j \in 1..L : struct[j][2] = fields[c + j][2]
    BY <1>4 DEF ListedOver
  <2> HIDE DEF c
  <2>2. o \in Nat /\ LaidOver(fields, o, struct, 0, c, L) BY <1>1, <2>1, PartLaid
  <2>3. \A j \in 0..L : Ends(struct)[0 + j] \in Nat /\ o + Ends(struct)[0 + j] = Ends(fields)[c + j]
    <3> DEFINE a == 0
    <3> HIDE DEF a, o, L
    <3>1. LaidOver(fields, o, struct, a, c, L) BY <2>2 DEF a
    <3>2. \A j \in 0..L : Ends(struct)[a + j] \in Nat /\ o + Ends(struct)[a + j] = Ends(fields)[c + j]
      BY ONLY <3>1, EndsAligned
    <3> QED BY <3>2 DEF a
  <2>4. L \in 0..L /\ 0 + L = L BY <1>1
  <2>5. o + Ends(struct)[L] = Ends(fields)[c + L] BY <2>3, <2>4
  <2> QED BY <2>1, <2>2, <2>5 DEF c, Size
<1> DEFINE S == {k \in Nat : k <= n => e[b + k * L] = e[b] + w * k}
<1>5. 0 \in S
  <2>1. b + 0 * L = b /\ w * 0 = 0 BY <1>1, <1>2, OneMore
  <2> HIDE DEF e, w
  <2> QED BY <1>3, <2>1
<1>6. ASSUME NEW k \in Nat, k \in S PROVE k + 1 \in S
  <2> SUFFICES ASSUME k + 1 <= n PROVE e[b + (k + 1) * L] = e[b] + w * (k + 1) OBVIOUS
  <2>1. k < n /\ k <= n BY <1>1
  <2>2. e[b + k * L] = e[b] + w * k BY <1>6, <2>1
  <2>3. e[(b + k * L) + L] = e[b + k * L] + w BY <1>4, <2>1
  <2> HIDE DEF e, w, L
  <2>4. k * L \in Nat /\ (k + 1) * L = k * L + L BY <1>1, OneMore
  <2>5. w * k \in Nat /\ w * (k + 1) = w * k + w BY <1>2
  <2> DEFINE p == k * L
             q == (k + 1) * L
             u == w * k
             v == w * (k + 1)
  <2>6. p \in Nat /\ q = p + L /\ u \in Nat /\ v = u + w BY <2>4, <2>5
  <2>7. e[b + p] = e[b] + u /\ e[(b + p) + L] = e[b + p] + w BY <2>2, <2>3
  <2> HIDE DEF p, q, u, v
  <2>8. (b + p) + L = b + q BY <1>1, <2>6
  <2>9. e[b + q] = e[b] + v BY <1>2, <1>3, <2>6, <2>7, <2>8
  <2> QED BY <2>9 DEF q, v
<1>7. Nat \subseteq S
  <2> HIDE DEF S
  <2> QED BY <1>5, <1>6, Induction
<1>8. \A k \in Nat : k <= n => e[b + k * L] = e[b] + w * k BY <1>7
<1>9. ASSUME NEW k \in Nat, k < n PROVE LaidOver(fields, e[b] + w * k, struct, 0, b + k * L, L)
  <2>1. k <= n BY <1>1, <1>9
  <2>2. e[b + k * L] = e[b] + w * k BY <1>8, <2>1
  <2> HIDE DEF e, w, L
  <2> QED BY <1>4, <1>9, <2>2
<1> HIDE DEF e, w, L
<1> QED BY <1>2, <1>3, <1>8, <1>9 DEF e, w, L

-----------------------------------------------------------------------------
(* Lists of items.                                                         *)

\* The fields of an item.
LEMMA ItemFields ==
    ASSUME NEW k
    PROVE  /\ Listed(SentItem(k)) /\ Len(SentItem(k)) = 9
           /\ SentItem(k)[1] = <<"index", 4, k>> /\ SentItem(k)[2] = <<"flags", 2, k>>
           /\ SentItem(k)[3] = <<"stack", 2, k>> /\ SentItem(k)[4] = <<"containerid.low", 4, k>>
           /\ SentItem(k)[5] = <<"containerid.high", 4, k>> /\ SentItem(k)[6] = <<"itemid.low", 4, k>>
           /\ SentItem(k)[7] = <<"itemid.high", 4, k>> /\ SentItem(k)[8] = <<"ql", 4, k>>
           /\ SentItem(k)[9] = <<"nullval", 4, k>>
<1> DEFINE s == << <<"index", 4, k>>, <<"flags", 2, k>>, <<"stack", 2, k>>, <<"containerid.low", 4, k>>,
                   <<"containerid.high", 4, k>>, <<"itemid.low", 4, k>>, <<"itemid.high", 4, k>>, <<"ql", 4, k>>,
                   <<"nullval", 4, k>> >>
           T == {s[1], s[2], s[3], s[4], s[5], s[6], s[7], s[8], s[9]}
<1>1. SentItem(k) = s BY DEF SentItem, Fk
<1>2. /\ Len(s) = 9 /\ s[1] = <<"index", 4, k>> /\ s[2] = <<"flags", 2, k>>
      /\ s[3] = <<"stack", 2, k>> /\ s[4] = <<"containerid.low", 4, k>>
      /\ s[5] = <<"containerid.high", 4, k>> /\ s[6] = <<"itemid.low", 4, k>>
      /\ s[7] = <<"itemid.high", 4, k>> /\ s[8] = <<"ql", 4, k>> /\ s[9] = <<"nullval", 4, k>>
  OBVIOUS
<1>3. s \in Seq(T) OBVIOUS
<1> HIDE DEF s, T
<1>4. Listed(s) BY <1>3 DEF Listed
<1> QED BY <1>1, <1>2, <1>4

\* Those of a rejected item.
LEMMA RejectedFields ==
    ASSUME NEW k
    PROVE  /\ Listed(SentRejected(k)) /\ Len(SentRejected(k)) = 4
           /\ SentRejected(k)[1] = <<"itemid.low", 4, k>> /\ SentRejected(k)[2] = <<"itemid.high", 4, k>>
           /\ SentRejected(k)[3] = <<"ql", 4, k>> /\ SentRejected(k)[4] = <<"unknown1", 4, k>>
<1> DEFINE s == << <<"itemid.low", 4, k>>, <<"itemid.high", 4, k>>, <<"ql", 4, k>>, <<"unknown1", 4, k>> >>
<1>1. SentRejected(k) = s BY DEF SentRejected, Fk
<1>2. /\ Len(s) = 4 /\ s[1] = <<"itemid.low", 4, k>> /\ s[2] = <<"itemid.high", 4, k>>
      /\ s[3] = <<"ql", 4, k>> /\ s[4] = <<"unknown1", 4, k>> /\ s \in Seq({s[1], s[2], s[3], s[4]})
  OBVIOUS
<1> HIDE DEF s
<1> QED BY <1>1, <1>2 DEF Listed

\* The same as structs.
LEMMA ContItemMembers ==
    /\ Len(ContItem) = 9 /\ DOMAIN ContItem = 1..9
    /\ ContItem[1] = <<"index", 4>> /\ ContItem[2] = <<"flags", 2>> /\ ContItem[3] = <<"stack", 2>>
    /\ ContItem[4] = <<"containerid.low", 4>> /\ ContItem[5] = <<"containerid.high", 4>>
    /\ ContItem[6] = <<"itemid.low", 4>> /\ ContItem[7] = <<"itemid.high", 4>>
    /\ ContItem[8] = <<"ql", 4>> /\ ContItem[9] = <<"nullval", 4>>
BY DEF ContItem

\* And of a rejected item.
LEMMA RejectedMembers ==
    /\ Len(NPCTradeRejectedItem) = 4 /\ DOMAIN NPCTradeRejectedItem = 1..4
    /\ NPCTradeRejectedItem[1] = <<"itemid.low", 4>> /\ NPCTradeRejectedItem[2] = <<"itemid.high", 4>>
    /\ NPCTradeRejectedItem[3] = <<"ql", 4>> /\ NPCTradeRejectedItem[4] = <<"unknown1", 4>>
BY DEF NPCTradeRejectedItem

\* The same as a script.
LEMMA ItemSteps ==
    /\ Len(AOContainerItem) = 9
    /\ AOContainerItem[1] = <<"pop", 4, "index">> /\ AOContainerItem[2] = <<"pop", 2, "flags">>
    /\ AOContainerItem[3] = <<"pop", 2, "stack">> /\ AOContainerItem[4] = <<"pop", 4, "containerid.low">>
    /\ AOContainerItem[5] = <<"pop", 4, "containerid.high">> /\ AOContainerItem[6] = <<"pop", 4, "itemid.low">>
    /\ AOContainerItem[7] = <<"pop", 4, "itemid.high">> /\ AOContainerItem[8] = <<"pop", 4, "ql">>
    /\ AOContainerItem[9] = <<"skip", 4>>
BY DEF AOContainerItem, Pop

\* n parts are a list of parts.
LEMMA ItemsParted ==
    ASSUME NEW n \in Nat
    PROVE  /\ Parted([k \in 1..n |-> SentItem(k)], n, 9)
           /\ Times(n, SentItem) = FlattenSeq([k \in 1..n |-> SentItem(k)])
<1> DEFINE seqs == [k \in 1..n |-> SentItem(k)]
           T == {SentItem(k) : k \in 1..n}
<1>1. Times(n, SentItem) = FlattenSeq(seqs) BY DEF Times
<1>2. \A k \in 1..n : seqs[k] \in T OBVIOUS
<1>3. seqs = [k \in 1..n |-> seqs[k]] OBVIOUS
<1>4. \A k \in 1..n : Listed(seqs[k]) /\ Len(seqs[k]) = 9 BY ItemFields
<1> HIDE DEF seqs, T
<1>5. seqs \in Seq(T) /\ Len(seqs) = n BY <1>2, <1>3
<1> QED BY <1>1, <1>4, <1>5 DEF Parted, Listed, seqs

\* Where the items are.
LEMMA ItemsPlaced ==
    ASSUME NEW fields, NEW b, NEW n \in Nat, Len(fields) \in Nat, PartAt(fields, b, Times(n, SentItem))
    PROVE  /\ Listed(Times(n, SentItem)) /\ Len(Times(n, SentItem)) = n * 9
           /\ \A k \in Nat : k < n => PartAt(fields, b + k * 9, SentItem(k + 1))
<1> DEFINE seqs == [k \in 1..n |-> SentItem(k)]
           L == 9
<1>1. Parted(seqs, n, L) /\ Times(n, SentItem) = FlattenSeq(seqs) BY ItemsParted
<1>2. \A k \in Nat : k < n => k + 1 \in 1..n OBVIOUS
<1>3. \A k \in Nat : k < n => seqs[k + 1] = SentItem(k + 1) BY <1>2
<1>4. PartAt(fields, b, FlattenSeq(seqs)) BY <1>1
<1> HIDE DEF seqs, L
<1>5. /\ Listed(FlattenSeq(seqs)) /\ Len(FlattenSeq(seqs)) = n * L
      /\ \A k \in Nat : k < n => PartAt(fields, b + k * L, seqs[k + 1])
  BY <1>1, <1>4, ListPart
<1> QED BY <1>1, <1>3, <1>5 DEF L

\* A cursor reads an item.
LEMMA ItemPopped ==
    ASSUME NEW fields \in Seq(Field), NEW b, NEW k, PartAt(fields, b, SentItem(k))
    PROVE  /\ Scripted(fields, b, AOContainerItem)
           /\ ItemRead(Read(Message(fields), Ends(fields)[b], AOContainerItem).got, k)
<1> DEFINE s == SentItem(k)
           a == AOContainerItem
<1>1. /\ b \in Nat /\ b + 9 <= Len(fields)
      /\ \A j \in 1..9 : fields[b + j] = s[j]
  BY ItemFields DEF PartAt
<1>2. Len(a) = 9 BY ItemSteps
<1>3. /\ s[1] = <<"index", 4, k>> /\ s[2] = <<"flags", 2, k>>
      /\ s[3] = <<"stack", 2, k>> /\ s[4] = <<"containerid.low", 4, k>>
      /\ s[5] = <<"containerid.high", 4, k>> /\ s[6] = <<"itemid.low", 4, k>>
      /\ s[7] = <<"itemid.high", 4, k>> /\ s[8] = <<"ql", 4, k>> /\ s[9] = <<"nullval", 4, k>>
  BY ItemFields
<1>4. /\ a[1] = <<"pop", 4, "index">> /\ a[2] = <<"pop", 2, "flags">>
      /\ a[3] = <<"pop", 2, "stack">> /\ a[4] = <<"pop", 4, "containerid.low">>
      /\ a[5] = <<"pop", 4, "containerid.high">> /\ a[6] = <<"pop", 4, "itemid.low">>
      /\ a[7] = <<"pop", 4, "itemid.high">> /\ a[8] = <<"pop", 4, "ql">> /\ a[9] = <<"skip", 4>>
  BY ItemSteps
<1> HIDE DEF s, a
<1>5. \A j \in 1..9 : j = 1 \/ j = 2 \/ j = 3 \/ j = 4 \/ j = 5 \/ j = 6 \/ j = 7 \/ j = 8 \/ j = 9 OBVIOUS
<1>6. \A j \in 1..9 : a[j][2] = s[j][2] BY <1>3, <1>4, <1>5
<1>7. \A j \in 1..9 : s[j][3] = k BY <1>3, <1>5
<1>8. \A j \in 1..9 : a[j][1] # "skip" => a[j][3] = s[j][1] BY <1>3, <1>4, <1>5
<1>9. Scripted(fields, b, a)
  <2>1. ASSUME NEW j \in 1..9 PROVE a[j][2] = fields[b + j][2]
    <3>1. fields[b + j] = s[j] BY ONLY <1>1
    <3> QED BY <1>6, <3>1
  <2>2. \A j \in 1..Len(a) : a[j][2] = fields[b + j][2] BY <1>2, <2>1
  <2>3. Len(a) \in Nat /\ b \in Nat /\ b + Len(a) <= Len(fields) BY <1>1, <1>2
  <2> QED BY <2>2, <2>3 DEF Scripted
<1>10. ASSUME NEW x, \E j \in 1..9 : a[j][1] # "skip" /\ a[j][3] = x
       PROVE  Read(Message(fields), Ends(fields)[b], a).got[x] = <<x, k>>
  <2> DEFINE v == <<x, k>>
  <2>1. \A j \in 1..9 : Pops(a, j, x) => <<fields[b + j][1], fields[b + j][3]>> = v BY <1>1, <1>7, <1>8 DEF Pops
  <2>2. \E j \in 1..9 : Pops(a, j, x) BY <1>10 DEF Pops
  <2> HIDE DEF v
  <2>3. PoppedAs(fields, b, a, x, v) BY <1>2, <2>1, <2>2 DEF PoppedAs
  <2>4. Read(Message(fields), Ends(fields)[b], a).got[x] = v BY <1>9, <2>3, CursorRead
  <2> QED BY <2>4 DEF v
<1>11. \A j \in {1, 2, 3, 6, 7, 8} : a[j][1] # "skip" /\ j \in 1..9 BY <1>4
<1>12. \A x \in {"index", "flags", "stack", "itemid.low", "itemid.high", "ql"} :
          \E j \in 1..9 : a[j][1] # "skip" /\ a[j][3] = x
  <2>1. a[1][3] = "index" /\ a[2][3] = "flags" /\ a[3][3] = "stack" /\ a[6][3] = "itemid.low"
        /\ a[7][3] = "itemid.high" /\ a[8][3] = "ql"
    BY <1>4
  <2> QED BY <1>11, <2>1
<1>13. ItemRead(Read(Message(fields), Ends(fields)[b], a).got, k) BY <1>10, <1>12 DEF ItemRead
<1> QED BY <1>9, <1>13 DEF a

\* A struct laid over it shows it.
LEMMA ItemShown ==
    ASSUME NEW fields \in Seq(Field), NEW b, NEW k, PartAt(fields, b, SentItem(k)),
           NEW o, LaidOver(fields, o, ContItem, 0, b, 9)
    PROVE  ItemRead(Overlay(Message(fields), o, ContItem), k)
<1> DEFINE s == SentItem(k)
           a == ContItem
<1>1. \A j \in 1..9 : fields[b + j] = s[j] BY ItemFields DEF PartAt
<1>2. /\ s[1] = <<"index", 4, k>> /\ s[2] = <<"flags", 2, k>>
      /\ s[3] = <<"stack", 2, k>> /\ s[4] = <<"containerid.low", 4, k>>
      /\ s[5] = <<"containerid.high", 4, k>> /\ s[6] = <<"itemid.low", 4, k>>
      /\ s[7] = <<"itemid.high", 4, k>> /\ s[8] = <<"ql", 4, k>> /\ s[9] = <<"nullval", 4, k>>
  BY ItemFields
<1>3. /\ a[1] = <<"index", 4>> /\ a[2] = <<"flags", 2>> /\ a[3] = <<"stack", 2>>
      /\ a[4] = <<"containerid.low", 4>> /\ a[5] = <<"containerid.high", 4>>
      /\ a[6] = <<"itemid.low", 4>> /\ a[7] = <<"itemid.high", 4>>
      /\ a[8] = <<"ql", 4>> /\ a[9] = <<"nullval", 4>>
  BY ContItemMembers
<1>4. LaidOver(fields, o, a, 0, b, 9) OBVIOUS
<1> HIDE DEF s, a
<1>5. \A j \in 1..9 : j = 1 \/ j = 2 \/ j = 3 \/ j = 4 \/ j = 5 \/ j = 6 \/ j = 7 \/ j = 8 \/ j = 9 OBVIOUS
<1>6. \A j \in 1..9 : s[j][3] = k BY <1>2, <1>5
<1>7. \A j \in 1..9 : a[j][1] = s[j][1] BY <1>2, <1>3, <1>5
<1>8. ASSUME NEW x, \E j \in 1..9 : a[j][1] = x
      PROVE  Overlay(Message(fields), o, a)[x] = <<x, k>>
  <2> DEFINE v == <<x, k>>
             z == 0
             L == 9
  <2>1. ASSUME NEW j \in 1..L, a[z + j][1] = x PROVE <<fields[b + j][1], fields[b + j][3]>> = v
    <3>1. a[z + j] = a[j] OBVIOUS
    <3>2. j \in 1..9 /\ a[j][1] = x BY <2>1, <3>1
    <3>3. fields[b + j] = s[j] BY ONLY <1>1, <3>2
    <3>4. s[j][1] = x /\ s[j][3] = k BY ONLY <1>6, <1>7, <3>2
    <3> QED BY ONLY <3>3, <3>4 DEF v
  <2>2. \E j \in 1..L : a[z + j][1] = x BY <1>8
  <2>3. \A i \in 1..z : a[i][1] # x OBVIOUS
  <2>4. LaidOver(fields, o, a, z, b, L) BY <1>4
  <2> HIDE DEF v, z, L
  <2>5. NamedAs(fields, a, z, b, L, x, v) BY <2>1, <2>2, <2>3 DEF NamedAs
  <2>6. Overlay(Message(fields), o, a)[x] = v BY ONLY <2>4, <2>5, OverlayRead
  <2> QED BY <2>6 DEF v
<1>9. \A x \in {"index", "flags", "stack", "itemid.low", "itemid.high", "ql"} : \E j \in 1..9 : a[j][1] = x
  <2>1. a[1][1] = "index" /\ a[2][1] = "flags" /\ a[3][1] = "stack" /\ a[6][1] = "itemid.low"
        /\ a[7][1] = "itemid.high" /\ a[8][1] = "ql"
    BY <1>3
  <2> QED BY <2>1
<1>10. ItemRead(Overlay(Message(fields), o, a), k) BY <1>8, <1>9 DEF ItemRead
<1> QED BY <1>10 DEF a

\* A list of parts of equal length.
LEMMA PartsListed ==
    ASSUME NEW seqs, NEW n, NEW L, Parted(seqs, n, L)
    PROVE  Listed(FlattenSeq(seqs)) /\ Len(FlattenSeq(seqs)) = n * L
<1>1. n \in Nat /\ L \in Nat BY DEF Parted
<1>2. Listed(seqs) /\ Len(seqs) = n BY DEF Parted
<1>3. \A k \in 1..n : Listed(seqs[k]) /\ Len(seqs[k]) = L BY DEF Parted
<1> QED BY ONLY <1>1, <1>2, <1>3, PartFlattened

\* The items that are sent, one after the other.
LEMMA ItemsListed ==
    ASSUME NEW n \in Nat
    PROVE  Listed(Times(n, SentItem)) /\ Len(Times(n, SentItem)) = n * 9
<1> DEFINE L == 9
           seqs == [k \in 1..n |-> SentItem(k)]
<1>1. Parted(seqs, n, L) /\ Times(n, SentItem) = FlattenSeq(seqs) BY ItemsParted
<1> HIDE DEF L, seqs
<1> QED BY <1>1, PartsListed DEF L

\* A cursor reads all of them and stands behind the last.
LEMMA ItemsPopped ==
    ASSUME NEW fields \in Seq(Field), NEW b, NEW n \in Nat, PartAt(fields, b, Times(n, SentItem))
    PROVE  /\ ReadMany(Message(fields), Ends(fields)[b], n, AOContainerItem).pos = Ends(fields)[b + n * 9]
           /\ ItemsRead(ReadMany(Message(fields), Ends(fields)[b], n, AOContainerItem).got, n)
<1> DEFINE a == AOContainerItem
           L == 9
           m == Message(fields)
           e == Ends(fields)
<1>1. Len(a) = L /\ L \in Nat BY ItemSteps
<1>2. b \in Nat /\ Len(fields) \in Nat BY DEF PartAt
<1>3. \A k \in Nat : k < n => PartAt(fields, b + k * L, SentItem(k + 1)) BY <1>2, ItemsPlaced
<1>4. ASSUME NEW k \in Nat, k < n
      PROVE  Scripted(fields, b + k * L, a) /\ ItemRead(Read(m, e[b + k * L], a).got, k + 1)
  <2> DEFINE c == b + k * L
             i == k + 1
  <2>1. PartAt(fields, c, SentItem(i)) BY <1>3, <1>4
  <2> HIDE DEF c, i
  <2>2. Scripted(fields, c, AOContainerItem) /\ ItemRead(Read(Message(fields), Ends(fields)[c], AOContainerItem).got, i)
    BY <2>1, ItemPopped
  <2> QED BY <2>2 DEF c, i
<1> HIDE DEF a, L, m, e
<1>5. ScriptedMany(fields, b, n, a) BY <1>1, <1>2, <1>4 DEF ScriptedMany
<1> DEFINE r == ReadMany(m, e[b], n, a)
<1>6. /\ r.pos = e[b + n * Len(a)]
      /\ Listed(r.got) /\ Len(r.got) = n
      /\ \A k \in Nat : k < n => r.got[k + 1] = Read(m, e[b + k * Len(a)], a).got
  <2>1. r.pos = e[b + n * Len(a)] BY ONLY <1>5, ManyRead DEF m, e
  <2>2. Listed(r.got) /\ Len(r.got) = n BY ONLY <1>5, ManyRead DEF m, e
  <2>3. ASSUME NEW k \in Nat, k < n PROVE r.got[k + 1] = Read(m, e[b + k * Len(a)], a).got
    <3> DEFINE c == b + k * Len(a)
    <3>1. c = b + k * Len(a) OBVIOUS
    <3> HIDE DEF c
    <3>2. ReadMany(Message(fields), Ends(fields)[b], n, a).got[k + 1] = Read(Message(fields), Ends(fields)[c], a).got
      BY ONLY <1>5, <2>3, <3>1, ManyTurn
    <3> QED BY ONLY <3>2 DEF m, e, c
  <2> QED BY <2>1, <2>2, <2>3
<1> HIDE DEF r
<1>7. r.pos = e[b + n * L] BY <1>1, <1>6
<1>8. ASSUME NEW k \in 1..n PROVE ItemRead(r.got[k], k)
  <2>1. PICK j \in Nat : j < n /\ j + 1 = k
    <3>1. k - 1 \in Nat /\ k - 1 < n /\ (k - 1) + 1 = k OBVIOUS
    <3> QED BY <3>1
  <2>2. r.got[j + 1] = Read(m, e[b + j * L], a).got BY <1>1, <1>6, <2>1
  <2> QED BY <1>4, <2>1, <2>2
<1>9. ItemsRead(r.got, n) BY <1>6, <1>8 DEF ItemsRead
<1> QED BY <1>7, <1>9 DEF r, m, e, a, L

\* A struct laid over each of them shows it, and the list is as long as they are.
LEMMA ItemsShown ==
    ASSUME NEW fields \in Seq(Field), NEW b, NEW n \in Nat, PartAt(fields, b, Times(n, SentItem)),
           NEW o, o = Ends(fields)[b]
    PROVE  /\ o \in Nat /\ Size(ContItem) \in Nat
           /\ Ends(fields)[b + n * 9] = o + Size(ContItem) * n
           /\ ItemsRead(NativeItems(Message(fields), o, n), n)
<1> DEFINE a == ContItem
           L == 9
           m == Message(fields)
           e == Ends(fields)
<1>1. Len(a) = L /\ L \in Nat /\ DOMAIN a = 1..L BY ContItemMembers
<1>2. b \in Nat /\ Len(fields) \in Nat /\ b <= Len(fields)
  <2>1. Len(Times(n, SentItem)) = n * 9 BY ItemsListed
  <2>2. n * 9 \in Nat OBVIOUS
  <2>3. b \in Nat /\ b + Len(Times(n, SentItem)) <= Len(fields) /\ Len(fields) \in Nat BY DEF PartAt
  <2> QED BY ONLY <2>1, <2>2, <2>3
<1>3. \A k \in Nat : k < n => PartAt(fields, b + k * L, SentItem(k + 1)) BY <1>2, ItemsPlaced
<1>4. /\ a[1][2] = 4 /\ a[2][2] = 2 /\ a[3][2] = 2 /\ a[4][2] = 4 /\ a[5][2] = 4
      /\ a[6][2] = 4 /\ a[7][2] = 4 /\ a[8][2] = 4 /\ a[9][2] = 4
  BY ContItemMembers
<1>5. \A j \in 1..9 : j = 1 \/ j = 2 \/ j = 3 \/ j = 4 \/ j = 5 \/ j = 6 \/ j = 7 \/ j = 8 \/ j = 9 OBVIOUS
<1> HIDE DEF a
<1>6. \A j \in 1..L : a[j][2] \in Nat \ {0} BY <1>4, <1>5
<1>7. ASSUME NEW k \in Nat, k < n
      PROVE  /\ b + k * L \in Nat /\ (b + k * L) + L <= Len(fields)
             /\ \A j \in 1..L : a[j][2] = fields[(b + k * L) + j][2]
  <2> DEFINE c == b + k * L
             s == SentItem(k + 1)
  <2>1. PartAt(fields, c, s) BY <1>3, <1>7
  <2>2. /\ Len(s) = 9 /\ s[1][2] = 4 /\ s[2][2] = 2 /\ s[3][2] = 2 /\ s[4][2] = 4 /\ s[5][2] = 4
        /\ s[6][2] = 4 /\ s[7][2] = 4 /\ s[8][2] = 4 /\ s[9][2] = 4
    BY ItemFields
  <2> HIDE DEF c, s
  <2>3. \A j \in 1..9 : a[j][2] = s[j][2] BY <1>4, <1>5, <2>2
  <2>4. c \in Nat /\ c + 9 <= Len(fields) /\ \A j \in 1..9 : fields[c + j] = s[j]
    BY <2>1, <2>2 DEF PartAt
  <2>5. ASSUME NEW j \in 1..9 PROVE a[j][2] = fields[c + j][2]
    <3>1. fields[c + j] = s[j] BY ONLY <2>4
    <3> QED BY <2>3, <3>1
  <2> QED BY <2>4, <2>5 DEF c
<1> HIDE DEF L
<1>8. ListedOver(fields, b, n, a) BY <1>1, <1>2, <1>6, <1>7 DEF ListedOver
<1>9. /\ Size(a) \in Nat /\ e[b] \in Nat
      /\ \A k \in Nat : k <= n => e[b + k * Len(a)] = e[b] + Size(a) * k
      /\ \A k \in Nat : k < n => LaidOver(fields, e[b] + Size(a) * k, a, 0, b + k * Len(a), Len(a))
  BY <1>8, ListEnds
<1>10. e[b + n * L] = o + Size(a) * n
  <2>1. e[b + n * Len(a)] = e[b] + Size(a) * n BY <1>2, <1>9
  <2> QED BY <1>1, <2>1
<1>11. ASSUME NEW k \in 1..n PROVE ItemRead(NativeItems(m, o, n)[k], k)
  <2>1. PICK j \in Nat : j < n /\ j + 1 = k /\ k - 1 = j
    <3>1. k - 1 \in Nat /\ k - 1 < n /\ (k - 1) + 1 = k OBVIOUS
    <3> QED BY <3>1
  <2> DEFINE p == o + Size(a) * j
  <2>2. LaidOver(fields, p, a, 0, b + j * L, L) BY <1>1, <1>9, <2>1
  <2>3. NativeItems(m, o, n)[k] = Overlay(m, p, a)
    <3> HIDE DEF m
    <3>1. NativeItems(m, o, n)[k] = Overlay(m, o + Size(a) * (k - 1), a) BY DEF NativeItems, a
    <3> QED BY <2>1, <3>1
  <2>4. PartAt(fields, b + j * L, SentItem(k)) BY <1>3, <2>1
  <2> DEFINE c == b + j * L
  <2> HIDE DEF c, p
  <2>5. LaidOver(fields, p, ContItem, 0, c, 9) BY <2>2 DEF c, a, L
  <2>6. PartAt(fields, c, SentItem(k)) BY <2>4 DEF c
  <2>7. ItemRead(Overlay(Message(fields), p, ContItem), k) BY <2>5, <2>6, ItemShown
  <2> QED BY <2>3, <2>7 DEF a
<1>12. Len(NativeItems(m, o, n)) = n BY DEF NativeItems
<1>13. ItemsRead(NativeItems(m, o, n), n) BY <1>11, <1>12 DEF ItemsRead
<1> QED BY <1>9, <1>10, <1>13 DEF a, L

\* The mass of a list counts it.
LEMMA MassCounts ==
    ASSUME NEW n \in Nat
    PROVE  ItemCount(1009 * (n + 1)) = n /\ Count3F1(1009 * (n + 1)) = n
<1>1. (1009 * (n + 1)) \div 1009 = n + 1 OBVIOUS
<1>2. 1009 * (n + 1) - 1009 = 1009 * n /\ (1009 * n) \div 1009 = n OBVIOUS
<1> QED BY <1>1, <1>2 DEF ItemCount, Count3F1

-----------------------------------------------------------------------------
(* Where the parts of a message begin.                                     *)

\* A script or struct of the widths of the fields.
Wide(script, part) ==
  /\ Listed(script) /\ Listed(part) /\ Len(script) = Len(part)
  /\ \A j \in 1..Len(part) : script[j][2] = part[j][2]

\* One after the other.
LEMMA WideJoined ==
    ASSUME NEW s, NEW f, NEW t, NEW g, Wide(s, f), Wide(t, g)
    PROVE  Wide(s \o t, f \o g)
<1>1. /\ Listed(s) /\ Listed(f) /\ Len(s) = Len(f) /\ Listed(t) /\ Listed(g) /\ Len(t) = Len(g)
      /\ \A j \in 1..Len(f) : s[j][2] = f[j][2]
      /\ \A j \in 1..Len(g) : t[j][2] = g[j][2]
  BY DEF Wide
<1> DEFINE u == s \o t
           h == f \o g
<1>2. /\ Listed(u) /\ Len(s) \in Nat /\ Len(t) \in Nat /\ Len(u) = Len(s) + Len(t)
      /\ \A j \in 1..Len(s) : u[j] = s[j]
      /\ \A j \in 1..Len(t) : u[Len(s) + j] = t[j]
  <2>1. Listed(s) /\ Listed(t) BY <1>1
  <2> QED BY ONLY <2>1, ListedJoined DEF u
<1>3. /\ Listed(h) /\ Len(h) = Len(f) + Len(g)
      /\ \A j \in 1..Len(f) : h[j] = f[j]
      /\ \A j \in 1..Len(g) : h[Len(f) + j] = g[j]
  <2>1. Listed(f) /\ Listed(g) BY <1>1
  <2> QED BY ONLY <2>1, ListedJoined DEF h
<1> HIDE DEF u, h
<1>4. ASSUME NEW j \in 1..Len(h) PROVE u[j][2] = h[j][2]
  <2>1. CASE j \in 1..Len(s) BY <1>1, <1>2, <1>3, <2>1
  <2>2. CASE j \notin 1..Len(s)
    <3>1. PICK i \in 1..Len(t) : j = Len(s) + i
      <4>1. j - Len(s) \in 1..Len(t) /\ j = Len(s) + (j - Len(s)) BY <1>1, <1>2, <1>3, <2>2
      <4> QED BY <4>1
    <3>2. u[j] = t[i] /\ h[j] = g[i] BY <1>1, <1>2, <1>3, <3>1
    <3> QED BY <1>1, <3>2
  <2> QED BY <2>1, <2>2
<1>5. Len(u) = Len(h) BY <1>1, <1>2, <1>3
<1> QED BY <1>2, <1>3, <1>4, <1>5 DEF Wide, u, h

\* A script of the widths of a part moves a cursor over it.
LEMMA PartScripted ==
    ASSUME NEW fields \in Seq(Field), NEW b, NEW part, PartAt(fields, b, part), NEW script, Wide(script, part)
    PROVE  /\ Scripted(fields, b, script)
           /\ Read(Message(fields), Ends(fields)[b], script).pos = Ends(fields)[b + Len(part)]
<1>1. /\ Listed(part) /\ b \in Nat /\ b + Len(part) <= Len(fields)
      /\ \A j \in 1..Len(part) : fields[b + j] = part[j]
  BY DEF PartAt
<1>2. Len(script) = Len(part) /\ \A j \in 1..Len(part) : script[j][2] = part[j][2] BY DEF Wide
<1>3. Len(part) \in Nat BY <1>1 DEF Listed
<1>4. ASSUME NEW j \in 1..Len(script) PROVE script[j][2] = fields[b + j][2]
  <2>1. j \in 1..Len(part) BY <1>2
  <2>2. fields[b + j] = part[j] BY ONLY <1>1, <2>1
  <2> QED BY <1>2, <2>1, <2>2
<1>5. Scripted(fields, b, script)
  <2>1. Len(script) \in Nat /\ b + Len(script) <= Len(fields) BY ONLY <1>1, <1>2, <1>3
  <2> QED BY <1>1, <1>4, <2>1 DEF Scripted
<1>6. Read(Message(fields), Ends(fields)[b], script).pos = Ends(fields)[b + Len(script)] BY <1>5, CursorEnd
<1> QED BY <1>2, <1>5, <1>6

\* A struct of the widths of a part may be laid over it.
LEMMA PartStruct ==
    ASSUME NEW fields \in Seq(Field), NEW b, NEW part, PartAt(fields, b, part), NEW struct, Wide(struct, part)
    PROVE  /\ Ends(fields)[b] \in Nat
           /\ LaidOver(fields, Ends(fields)[b], struct, 0, b, Len(part))
<1>1. /\ Listed(part) /\ b \in Nat /\ b + Len(part) <= Len(fields)
      /\ \A j \in 1..Len(part) : fields[b + j] = part[j]
  BY DEF PartAt
<1>2. Listed(struct) /\ Len(struct) = Len(part) /\ \A j \in 1..Len(part) : struct[j][2] = part[j][2] BY DEF Wide
<1>3. Len(struct) \in Nat /\ DOMAIN struct = 1..Len(struct) BY <1>2 DEF Listed
<1>4. ASSUME NEW j \in 1..Len(struct) PROVE struct[j][2] = fields[b + j][2]
  <2>1. j \in 1..Len(part) BY <1>2
  <2>2. fields[b + j] = part[j] BY ONLY <1>1, <2>1
  <2> QED BY <1>2, <2>1, <2>2
<1>5. b + Len(struct) <= Len(fields) BY ONLY <1>1, <1>2
<1> DEFINE o == Ends(fields)[b]
<1>6. o = Ends(fields)[b] OBVIOUS
<1> HIDE DEF o
<1>7. o \in Nat /\ LaidOver(fields, o, struct, 0, b, Len(struct)) BY <1>1, <1>3, <1>4, <1>5, <1>6, PartLaid
<1> QED BY <1>2, <1>7 DEF o

\* The header parser stands behind the header, whatever the type.
LEMMA BasePos ==
    ASSUME NEW fields \in Seq(Field), NEW type \in ServerTypes, NEW body, Listed(body),
           fields = SentHeader("server", type) \o body
    PROVE  AOMessageBase(Message(fields), type).pos = Ends(fields)[HeaderLength("server", type)]
<1> DEFINE p == << F("seq", 2), F("type", 2) >>
           o == << F("0A", 1) >>
           q == << F("protocol", 2), F("msgsize", 2), F("serverid", 4), F("charid", 4), F("msgid", 4),
                   F("target.low", 4), F("target.high", 4) >>
           s == << <<"skip", 2>>, <<"pop", 2, "type">> >>
           t == << <<"pop", 1, "0A">> >>
           r == << <<"skip", 2>>, <<"pop", 2, "size">>, <<"skip", 4>>, <<"pop", 4, "characterid">>,
                   <<"pop", 4, "messageid">>, <<"skip", 4>>, <<"pop", 4, "entityid">> >>
           h == SentHeader("server", type)
           m == Message(fields)
<1>1. Wide(s, p)
  <2>1. Listed(s) /\ Listed(p) /\ Len(s) = 2 /\ Len(p) = 2 BY ListedTwo
  <2>2. s[1][2] = p[1][2] /\ s[2][2] = p[2][2] BY DEF F
  <2>3. \A j \in 1..2 : j = 1 \/ j = 2 OBVIOUS
  <2> HIDE DEF s, p
  <2> QED BY <2>1, <2>2, <2>3 DEF Wide
<1>2. Wide(t, o)
  <2>1. Listed(t) /\ Listed(o) /\ Len(t) = 1 /\ Len(o) = 1 BY ListedOne
  <2>2. t[1][2] = o[1][2] BY DEF F
  <2>3. \A j \in 1..1 : j = 1 OBVIOUS
  <2> HIDE DEF t, o
  <2> QED BY <2>1, <2>2, <2>3 DEF Wide
<1>3. Wide(r, q)
  <2>1. Len(r) = 7 /\ r \in Seq({r[1], r[2], r[3], r[4], r[5], r[6], r[7]}) OBVIOUS
  <2>2. Len(q) = 7 /\ q \in Seq({q[1], q[2], q[3], q[4], q[5], q[6], q[7]}) OBVIOUS
  <2>3. /\ r[1][2] = q[1][2] /\ r[2][2] = q[2][2] /\ r[3][2] = q[3][2] /\ r[4][2] = q[4][2]
        /\ r[5][2] = q[5][2] /\ r[6][2] = q[6][2] /\ r[7][2] = q[7][2]
    BY DEF F
  <2>4. \A j \in 1..7 : j = 1 \/ j = 2 \/ j = 3 \/ j = 4 \/ j = 5 \/ j = 6 \/ j = 7 OBVIOUS
  <2> HIDE DEF r, q
  <2>5. Listed(r) /\ Listed(q) BY <2>1, <2>2 DEF Listed
  <2> QED BY <2>1, <2>2, <2>3, <2>4, <2>5 DEF Wide
<1>4. Wide(<<>>, <<>>)
  <2>1. <<>> \in Seq({}) /\ Len(<<>>) = 0 OBVIOUS
  <2>2. \A j \in 1..0 : FALSE OBVIOUS
  <2> QED BY <2>1, <2>2 DEF Wide, Listed
<1> DEFINE u == IF type = "D" THEN o ELSE <<>>
           v == IF type = "D" THEN t ELSE <<>>
<1>5. h = p \o u \o q BY DEF SentHeader
<1>6. AOMessageBase(m, type) = Read(m, 0, s \o v \o r)
  <2> HIDE DEF m
  <2> QED BY DEF AOMessageBase
<1>7. Wide(v, u) BY <1>2, <1>4
<1> HIDE DEF p, o, q, s, t, r, u, v
<1>8. Wide(s \o v \o r, h)
  <2>1. Wide(s \o v, p \o u) BY <1>1, <1>7, WideJoined
  <2>2. Wide(s \o v \o r, p \o u \o q) BY <1>3, <2>1, WideJoined
  <2> QED BY <1>5, <2>2
<1>9. Listed(h) /\ Len(h) = HeaderLength("server", type) BY HeaderSent
<1> DEFINE z == 0
           w == s \o v \o r
<1>10. PartAt(fields, z, h)
  <2>1. PartAt(fields, 0, fields) /\ Len(fields) \in Nat BY <1>9, WholePart
  <2>2. PartAt(fields, 0, h \o body) BY <2>1
  <2> QED BY <1>9, <2>1, <2>2, PartJoined
<1> HIDE DEF h
<1>11. Wide(w, h) BY <1>8
<1>12. Ends(fields)[z] = 0
  <2>1. Len(fields) \in Nat OBVIOUS
  <2> QED BY <2>1, EndsLoop
<1>13. AOMessageBase(m, type) = Read(m, 0, w) BY <1>6
<1>14. HeaderLength("server", type) \in Nat BY DEF HeaderLength
<1>15. z \in Nat /\ z + Len(h) = Len(h) BY <1>9, <1>14
<1> HIDE DEF z, w
<1>16. Read(Message(fields), Ends(fields)[z], w).pos = Ends(fields)[z + Len(h)]
  BY ONLY fields \in Seq(Field), <1>10, <1>11, PartScripted
<1>17. Read(m, 0, w).pos = Ends(fields)[Len(h)] BY <1>12, <1>15, <1>16
<1> HIDE DEF m
<1> QED BY <1>9, <1>13, <1>17 DEF m

\* A struct of the header and of a part behind it.
LEMMA HeaderLaid ==
    ASSUME NEW fields \in Seq(Field), NEW b, NEW part, PartAt(fields, b, part), NEW t, Wide(t, part),
           Ends(fields)[b] = 28
    PROVE  /\ LaidOver(fields, 0, Header \o t, 8, b, Len(part))
           /\ Size(Header \o t) = Ends(fields)[b + Len(part)]
<1> DEFINE s == Header \o t
           L == Len(part)
<1>1. /\ Listed(part) /\ b \in Nat /\ b + L <= Len(fields)
      /\ \A j \in 1..L : fields[b + j] = part[j]
  BY DEF PartAt
<1>2. Listed(t) /\ Len(t) = L /\ \A j \in 1..L : t[j][2] = part[j][2] BY DEF Wide
<1>3. /\ Listed(s) /\ Len(s) = Len(Header) + Len(t)
      /\ \A j \in 1..Len(Header) : s[j] = Header[j]
      /\ \A j \in 1..Len(t) : s[Len(Header) + j] = t[j]
  <2>1. Listed(Header) /\ Listed(t) BY <1>2, HeaderListed
  <2> QED BY ONLY <2>1, ListedJoined DEF s
<1> HIDE DEF s
<1>4. Len(Header) = 8 BY HeaderListed
<1>5. L \in Nat /\ Len(s) \in Nat /\ DOMAIN s = 1..Len(s) BY <1>1, <1>3 DEF Listed
<1>6. Len(s) = 8 + L /\ (\A i \in 1..8 : s[i] = Header[i]) /\ \A j \in 1..L : s[8 + j] = t[j] BY <1>2, <1>3, <1>4
<1>7. Ends(s)[8] = 28
  <2>1. Len(s) \in Nat /\ Len(s) >= 8 BY <1>5, <1>6
  <2>2. \A i \in 1..8 : s[i] = Header[i] BY <1>6
  <2> QED BY ONLY <2>1, <2>2, StructHeader
<1>8. ASSUME NEW j \in 1..L PROVE s[8 + j][2] = fields[b + j][2]
  <2>1. fields[b + j] = part[j] BY ONLY <1>1
  <2> QED BY <1>2, <1>6, <2>1
<1>9. LaidOver(fields, 0, s, 8, b, L) BY <1>1, <1>5, <1>6, <1>7, <1>8 DEF LaidOver
<1>10. Size(s) = Ends(fields)[b + L]
  <2> DEFINE o == 0
             a == 8
  <2>1. LaidOver(fields, o, s, a, b, L) BY <1>9
  <2> HIDE DEF o, a, L
  <2>2. \A j \in 0..L : Ends(s)[a + j] \in Nat /\ o + Ends(s)[a + j] = Ends(fields)[b + j]
    BY ONLY <2>1, EndsAligned
  <2>3. L \in 0..L BY <1>5
  <2>4. Ends(s)[a + L] \in Nat /\ o + Ends(s)[a + L] = Ends(fields)[b + L] BY <2>2, <2>3
  <2>5. Ends(s)[a + L] = Ends(fields)[b + L] BY ONLY <2>4 DEF o
  <2>6. a + L = Len(s) BY <1>6 DEF a, L
  <2> QED BY <2>5, <2>6 DEF Size
<1> QED BY <1>9, <1>10 DEF s

-----------------------------------------------------------------------------
(* Containers.                                                             *)

\* What a container's message begins with.
ListHead(n) == << F("object", 4), F("numslots", 1), F("three", 4), Mass(n) >>

\* Its fields.
LEMMA HeadFields ==
    ASSUME NEW n
    PROVE  /\ Listed(ListHead(n)) /\ Len(ListHead(n)) = 4
           /\ ListHead(n)[1] = <<"object", 4, 0>> /\ ListHead(n)[2] = <<"numslots", 1, 0>>
           /\ ListHead(n)[3] = <<"three", 4, 0>> /\ ListHead(n)[4] = <<"mass", 4, 1009 * (n + 1)>>
<1> DEFINE v == 1009 * (n + 1)
           s == << <<"object", 4, 0>>, <<"numslots", 1, 0>>, <<"three", 4, 0>>, <<"mass", 4, v>> >>
<1>1. ListHead(n) = s BY DEF ListHead, F, Mass, Fk
<1> HIDE DEF v
<1>2. /\ Len(s) = 4 /\ s[1] = <<"object", 4, 0>> /\ s[2] = <<"numslots", 1, 0>>
      /\ s[3] = <<"three", 4, 0>> /\ s[4] = <<"mass", 4, v>> /\ s \in Seq({s[1], s[2], s[3], s[4]})
  OBVIOUS
<1> HIDE DEF s
<1> QED BY <1>1, <1>2 DEF Listed, v

\* It and the items.
LEMMA ContainerPlaced ==
    ASSUME NEW fields, NEW b, NEW n \in Nat, PartAt(fields, b, SentContainer(n)), Len(fields) \in Nat
    PROVE  PartAt(fields, b, ListHead(n)) /\ PartAt(fields, b + 4, Times(n, SentItem))
<1> DEFINE t == Times(n, SentItem)
           s == ListHead(n)
<1>0. Len(fields) \in Nat OBVIOUS
<1>1. PartAt(fields, b, s \o t) BY DEF SentContainer, ListHead
<1>2. Listed(s) /\ Len(s) = 4 BY HeadFields
<1>3. Listed(t) BY ItemsListed
<1> HIDE DEF s, t
<1>4. PartAt(fields, b, s) /\ PartAt(fields, b + Len(s), t) BY ONLY <1>0, <1>1, <1>2, <1>3, PartJoined
<1> QED BY <1>2, <1>4 DEF s, t

\* The length of both.
LEMMA ContainerListed ==
    ASSUME NEW n \in Nat
    PROVE  Listed(SentContainer(n)) /\ Len(SentContainer(n)) = 4 + n * 9
<1> DEFINE t == Times(n, SentItem)
           s == ListHead(n)
<1>1. SentContainer(n) = s \o t BY DEF SentContainer, ListHead
<1>2. Listed(s) /\ Len(s) = 4 BY HeadFields
<1>3. Listed(t) /\ Len(t) = n * 9 BY ItemsListed
<1> HIDE DEF s, t
<1>4. Listed(s \o t) /\ Len(s \o t) = Len(s) + Len(t) BY ONLY <1>2, <1>3, ListedJoined
<1> QED BY <1>1, <1>2, <1>3, <1>4

\* The cursor of a container or shop reads every item and stands behind them.
LEMMA ContainerItemsRead ==
    ASSUME NEW fields \in Seq(Field), NEW b, NEW type, NEW n \in Nat, PartAt(fields, b, SentContainer(n)),
           AOMessageBase(Message(fields), type).pos = Ends(fields)[b]
    PROVE  /\ ContainerItems(Message(fields), type).pos = Ends(fields)[(b + 4) + n * 9]
           /\ ItemsRead(ContainerItems(Message(fields), type).got, n)
<1> DEFINE script == << <<"skip", 4>>, <<"pop", 1, "slots">>, <<"skip", 4>>, <<"pop", 4, "mass">> >>
           h == ListHead(n)
           m == Message(fields)
           e == Ends(fields)
<1>1. PartAt(fields, b, h) /\ PartAt(fields, b + 4, Times(n, SentItem))
  <2>1. Len(fields) \in Nat OBVIOUS
  <2> QED BY <2>1, ContainerPlaced
<1>2. /\ Listed(h) /\ Len(h) = 4 /\ h[1] = <<"object", 4, 0>> /\ h[2] = <<"numslots", 1, 0>>
      /\ h[3] = <<"three", 4, 0>> /\ h[4] = <<"mass", 4, 1009 * (n + 1)>>
  BY HeadFields
<1>3. /\ script[1] = <<"skip", 4>> /\ script[2] = <<"pop", 1, "slots">> /\ script[3] = <<"skip", 4>>
      /\ script[4] = <<"pop", 4, "mass">> /\ Len(script) = 4
      /\ script \in Seq({script[1], script[2], script[3], script[4]})
  OBVIOUS
<1>4. ContainerItems(m, type)
        = ReadMany(m, Read(m, AOMessageBase(m, type).pos, script).pos,
                   ItemCount(Read(m, AOMessageBase(m, type).pos, script).got["mass"][2]), AOContainerItem)
  <2> HIDE DEF m
  <2> QED BY DEF ContainerItems, Pop
<1> HIDE DEF script, h
<1>5. \A j \in 1..4 : j = 1 \/ j = 2 \/ j = 3 \/ j = 4 OBVIOUS
<1>6. Wide(script, h)
  <2>1. Listed(script) BY <1>3 DEF Listed
  <2>2. script[1][2] = h[1][2] /\ script[2][2] = h[2][2] /\ script[3][2] = h[3][2] /\ script[4][2] = h[4][2]
    BY <1>2, <1>3
  <2> QED BY <1>2, <1>3, <1>5, <2>1, <2>2 DEF Wide
<1>7. Scripted(fields, b, script) /\ Read(m, e[b], script).pos = e[b + 4]
  <2>1. Scripted(fields, b, script) /\ Read(Message(fields), Ends(fields)[b], script).pos = Ends(fields)[b + Len(h)]
    BY <1>1, <1>6, PartScripted
  <2> QED BY <1>2, <2>1
<1>8. Read(m, e[b], script).got["mass"] = <<"mass", 1009 * (n + 1)>>
  <2> DEFINE x == "mass"
             v == <<"mass", 1009 * (n + 1)>>
  <2>1. \A j \in 1..4 : Pops(script, j, x) => j = 4 BY <1>3, <1>5 DEF Pops
  <2>2. Pops(script, 4, x) BY <1>3 DEF Pops
  <2>3. fields[b + 4] = h[4] BY <1>1, <1>2 DEF PartAt
  <2>4. <<fields[b + 4][1], fields[b + 4][3]>> = v BY <1>2, <2>3
  <2> HIDE DEF x, v
  <2>5. PoppedAs(fields, b, script, x, v) BY <1>3, <2>1, <2>2, <2>4 DEF PoppedAs
  <2>6. Read(Message(fields), Ends(fields)[b], script).got[x] = v BY <1>7, <2>5, CursorRead
  <2> QED BY <2>6 DEF x, v
<1>9. ItemCount(Read(m, e[b], script).got["mass"][2]) = n
  <2> DEFINE g == Read(m, e[b], script).got["mass"]
             v == 1009 * (n + 1)
  <2>1. g = <<"mass", v>> BY <1>8
  <2>2. ItemCount(v) = n BY MassCounts
  <2> HIDE DEF g, v
  <2>3. g[2] = v BY <2>1
  <2> QED BY <2>2, <2>3 DEF g
<1>10. ContainerItems(m, type) = ReadMany(m, e[b + 4], n, AOContainerItem)
  <2> HIDE DEF m, e
  <2>1. AOMessageBase(m, type).pos = e[b] BY DEF m, e
  <2> QED BY <1>4, <1>7, <1>9, <2>1
<1> DEFINE c == b + 4
<1>11. PartAt(fields, c, Times(n, SentItem)) BY <1>1
<1>12. ContainerItems(m, type) = ReadMany(Message(fields), Ends(fields)[c], n, AOContainerItem) BY <1>10
<1> HIDE DEF c
<1>13. /\ ReadMany(Message(fields), Ends(fields)[c], n, AOContainerItem).pos = Ends(fields)[c + n * 9]
       /\ ItemsRead(ReadMany(Message(fields), Ends(fields)[c], n, AOContainerItem).got, n)
  BY <1>11, ItemsPopped
<1> QED BY <1>12, <1>13 DEF c

\* Two parts one after the other are one part.
LEMMA PartsJoined ==
    ASSUME NEW fields, NEW b, NEW s, NEW t, PartAt(fields, b, s), PartAt(fields, b + Len(s), t),
           Len(fields) \in Nat
    PROVE  PartAt(fields, b, s \o t) /\ Len(s \o t) = Len(s) + Len(t)
<1> DEFINE u == s \o t
<1>0. Len(fields) \in Nat OBVIOUS
<1>1. /\ Listed(s) /\ b \in Nat /\ b + Len(s) <= Len(fields)
      /\ \A j \in 1..Len(s) : fields[b + j] = s[j]
  BY DEF PartAt
<1>2. /\ Listed(t) /\ (b + Len(s)) + Len(t) <= Len(fields)
      /\ \A j \in 1..Len(t) : fields[(b + Len(s)) + j] = t[j]
  BY DEF PartAt
<1>3. /\ Listed(u) /\ Len(s) \in Nat /\ Len(t) \in Nat /\ Len(u) = Len(s) + Len(t)
      /\ \A j \in 1..Len(s) : u[j] = s[j]
      /\ \A j \in 1..Len(t) : u[Len(s) + j] = t[j]
  <2>1. Listed(s) /\ Listed(t) BY <1>1, <1>2
  <2> QED BY ONLY <2>1, ListedJoined DEF u
<1> HIDE DEF u
<1>4. ASSUME NEW j \in 1..Len(u) PROVE fields[b + j] = u[j]
  <2>1. CASE j \in 1..Len(s) BY <1>1, <1>3, <2>1
  <2>2. CASE j \notin 1..Len(s)
    <3>1. PICK i \in 1..Len(t) : j = Len(s) + i
      <4>1. j - Len(s) \in 1..Len(t) /\ j = Len(s) + (j - Len(s)) BY <1>3, <2>2
      <4> QED BY <4>1
    <3>2. u[j] = t[i] BY <1>3, <3>1
    <3>3. fields[(b + Len(s)) + i] = t[i] BY ONLY <1>2, <3>1
    <3>4. (b + Len(s)) + i = b + j BY <1>1, <1>3, <3>1
    <3> QED BY <3>2, <3>3, <3>4
  <2> QED BY <2>1, <2>2
<1>5. b + Len(u) <= Len(fields) BY ONLY <1>0, <1>1, <1>2, <1>3
<1> QED BY <1>1, <1>3, <1>4, <1>5 DEF PartAt, u

\* The members x of a struct over the part lie over what was sent as v.
Shows(struct, part, x, v) ==
  /\ \E i \in 1..Len(part) : struct[i][1] = x
  /\ \A i \in 1..Len(part) : struct[i][1] = x => <<part[i][1], part[i][3]>> = v
\* A script that reads the part pops v of it under the name x.
Gives(script, part, x, v) ==
  /\ \E i \in 1..Len(part) : script[i][1] # "skip" /\ script[i][3] = x
  /\ \A i \in 1..Len(part) : script[i][1] # "skip" /\ script[i][3] = x => <<part[i][1], part[i][3]>> = v

\* What a struct over a part of the message shows as x.
LEMMA StructMember ==
    ASSUME NEW fields \in Seq(Field), NEW b, NEW part, PartAt(fields, b, part), NEW t, Wide(t, part),
           NEW x, NEW v, Shows(t, part, x, v)
    PROVE  Overlay(Message(fields), Ends(fields)[b], t)[x] = v
<1> DEFINE L == Len(part)
           o == Ends(fields)[b]
           a == 0
<1>1. \A i \in 1..L : fields[b + i] = part[i] BY DEF PartAt
<1>2. LaidOver(fields, o, t, a, b, L) BY PartStruct
<1>3. ASSUME NEW i \in 1..L, t[a + i][1] = x PROVE <<fields[b + i][1], fields[b + i][3]>> = v
  <2>1. t[i][1] = x BY <1>3
  <2>2. <<part[i][1], part[i][3]>> = v BY <2>1 DEF Shows
  <2>3. fields[b + i] = part[i] BY ONLY <1>1
  <2> QED BY <2>2, <2>3
<1>4. \E i \in 1..L : t[a + i][1] = x BY DEF Shows
<1>5. \A i \in 1..a : t[i][1] # x OBVIOUS
<1> HIDE DEF L, o, a
<1>6. NamedAs(fields, t, a, b, L, x, v) BY <1>3, <1>4, <1>5 DEF NamedAs
<1>7. Overlay(Message(fields), o, t)[x] = v BY ONLY <1>2, <1>6, OverlayRead
<1> QED BY <1>7 DEF o

\* And one with the header before it.
LEMMA HeaderNamed ==
    ASSUME NEW fields \in Seq(Field), NEW b, NEW part, PartAt(fields, b, part), NEW t, Wide(t, part),
           Ends(fields)[b] = 28, NEW x, NEW v, Shows(t, part, x, v), \A i \in 1..8 : Header[i][1] # x
    PROVE  Overlay(Message(fields), 0, Header \o t)[x] = v
<1> DEFINE s == Header \o t
           L == Len(part)
           o == 0
           a == 8
<1>1. \A i \in 1..L : fields[b + i] = part[i] BY DEF PartAt
<1>2. Listed(t) /\ Len(t) = L BY DEF Wide
<1>3. /\ \A i \in 1..Len(Header) : s[i] = Header[i]
      /\ \A i \in 1..Len(t) : s[Len(Header) + i] = t[i]
  <2>1. Listed(Header) /\ Listed(t) BY <1>2, HeaderListed
  <2> QED BY ONLY <2>1, ListedJoined DEF s
<1>4. LaidOver(fields, o, s, a, b, L) BY HeaderLaid
<1>5. Len(Header) = 8 BY HeaderListed
<1> HIDE DEF s
<1>6. \A i \in 1..8 : s[i][1] # x BY <1>3, <1>5
<1>7. \A i \in 1..L : s[8 + i] = t[i] BY <1>2, <1>3, <1>5
<1>8. ASSUME NEW i \in 1..L, s[a + i][1] = x PROVE <<fields[b + i][1], fields[b + i][3]>> = v
  <2>1. t[i][1] = x BY <1>7, <1>8
  <2>2. <<part[i][1], part[i][3]>> = v BY <2>1 DEF Shows
  <2>3. fields[b + i] = part[i] BY ONLY <1>1
  <2> QED BY <2>2, <2>3
<1>9. \E i \in 1..L : s[a + i][1] = x BY <1>7 DEF Shows
<1>10. \A i \in 1..a : s[i][1] # x BY <1>6
<1> HIDE DEF L, o, a
<1>11. NamedAs(fields, s, a, b, L, x, v) BY <1>8, <1>9, <1>10 DEF NamedAs
<1>12. Overlay(Message(fields), o, s)[x] = v BY ONLY <1>4, <1>11, OverlayRead
<1> QED BY <1>12 DEF s, o

\* What a cursor over a part of the message has popped as x.
LEMMA ScriptMember ==
    ASSUME NEW fields \in Seq(Field), NEW b, NEW part, PartAt(fields, b, part), NEW script, Wide(script, part),
           NEW x, NEW v, Gives(script, part, x, v)
    PROVE  Read(Message(fields), Ends(fields)[b], script).got[x] = v
<1>1. \A i \in 1..Len(part) : fields[b + i] = part[i] BY DEF PartAt
<1>2. Scripted(fields, b, script) BY PartScripted
<1>3. Len(script) = Len(part) BY DEF Wide
<1>4. ASSUME NEW i \in 1..Len(script), Pops(script, i, x) PROVE <<fields[b + i][1], fields[b + i][3]>> = v
  <2>1. i \in 1..Len(part) BY <1>3
  <2>2. <<part[i][1], part[i][3]>> = v BY <1>4, <2>1 DEF Pops, Gives
  <2>3. fields[b + i] = part[i] BY ONLY <1>1, <2>1
  <2> QED BY <2>2, <2>3
<1>5. \E i \in 1..Len(script) : Pops(script, i, x) BY <1>3 DEF Pops, Gives
<1>6. PoppedAs(fields, b, script, x, v) BY <1>4, <1>5 DEF PoppedAs
<1> QED BY <1>2, <1>6, CursorRead

\* What follows the items of a container.
ContainerTail == Pair("containerId") \o << F("tempContainerId", 4), F("nullval", 4) >>

\* Its fields, as a struct and as a script.
LEMMA TailFields ==
    /\ Listed(Pair("containerId")) /\ Len(Pair("containerId")) = 2
    /\ Listed(ContainerTail) /\ Len(ContainerTail) = 4
    /\ ContainerTail[3] = <<"tempContainerId", 4, 0>>
    /\ \A j \in 1..4 : ContainerTail[j][2] = 4
<1> DEFINE p == Pair("containerId")
           q == << F("tempContainerId", 4), F("nullval", 4) >>
           a == Member("containerId", "low")
           z == Member("containerId", "high")
<1>1. p = << <<a, 4, 0>>, <<z, 4, 0>> >> BY DEF Pair, F
<1> HIDE DEF a, z, p
<1>2. Listed(p) /\ Len(p) = 2 /\ p[1] = <<a, 4, 0>> /\ p[2] = <<z, 4, 0>> BY <1>1, ListedTwo
<1>3. Listed(q) /\ Len(q) = 2 BY ListedTwo
<1>4. q[1] = <<"tempContainerId", 4, 0>> /\ q[2] = <<"nullval", 4, 0>> BY DEF F
<1> HIDE DEF q
<1> DEFINE u == p \o q
<1>5. /\ Listed(u) /\ Len(u) = Len(p) + Len(q)
      /\ \A j \in 1..Len(p) : u[j] = p[j]
      /\ \A j \in 1..Len(q) : u[Len(p) + j] = q[j]
  <2>1. Listed(p) /\ Listed(q) BY <1>2, <1>3
  <2> QED BY ONLY <2>1, ListedJoined
<1> HIDE DEF u
<1>6. u[1] = p[1] /\ u[2] = p[2] BY <1>2, <1>5
<1>7. u[2 + 1] = q[1] /\ u[2 + 2] = q[2] BY <1>2, <1>3, <1>5
<1>8. u[3] = q[1] /\ u[4] = q[2] BY <1>7
<1>9. \A j \in 1..4 : j = 1 \/ j = 2 \/ j = 3 \/ j = 4 OBVIOUS
<1>10. \A j \in 1..4 : u[j][2] = 4 BY <1>2, <1>4, <1>6, <1>8, <1>9
<1>11. Len(u) = 4 BY <1>2, <1>3, <1>5
<1>12. ContainerTail = u BY DEF ContainerTail, u, p, q
<1> QED BY <1>2, <1>4, <1>5, <1>8, <1>10, <1>11, <1>12 DEF p

\* The end of a container read by the struct and by the cursor.
LEMMA TailRead ==
    ASSUME NEW fields \in Seq(Field), NEW b, PartAt(fields, b, ContainerTail),
           NEW script, script = << Pop(4, "containerid.low"), Pop(4, "containerid.high"), Pop(4, "counter"), <<"skip", 4>> >>
    PROVE  /\ Overlay(Message(fields), Ends(fields)[b], ContEnd)["tempContainerId"] = <<"tempContainerId", 0>>
           /\ Read(Message(fields), Ends(fields)[b], script).got["counter"] = <<"tempContainerId", 0>>
           /\ Read(Message(fields), Ends(fields)[b], script).got["containerid.high"]
                = Overlay(Message(fields), Ends(fields)[b], ContEnd)["containerId.high"]
           /\ Read(Message(fields), Ends(fields)[b], script).pos = Ends(fields)[b + 4]
<1> DEFINE t == ContainerTail
           m == Message(fields)
           o == Ends(fields)[b]
<1>1. Listed(t) /\ Len(t) = 4 /\ t[3] = <<"tempContainerId", 4, 0>> /\ \A j \in 1..4 : t[j][2] = 4 BY TailFields
<1>2. /\ script[1] = <<"pop", 4, "containerid.low">> /\ script[2] = <<"pop", 4, "containerid.high">>
      /\ script[3] = <<"pop", 4, "counter">> /\ script[4] = <<"skip", 4>>
      /\ Len(script) = 4 /\ script \in Seq({script[1], script[2], script[3], script[4]})
  BY DEF Pop
<1>3. /\ ContEnd[1] = <<"containerId.low", 4>> /\ ContEnd[2] = <<"containerId.high", 4>>
      /\ ContEnd[3] = <<"tempContainerId", 4>> /\ ContEnd[4] = <<"nullval", 4>>
      /\ Len(ContEnd) = 4 /\ ContEnd \in Seq({ContEnd[1], ContEnd[2], ContEnd[3], ContEnd[4]})
  BY DEF ContEnd
<1>4. \A j \in 1..4 : j = 1 \/ j = 2 \/ j = 3 \/ j = 4 OBVIOUS
<1>5. PartAt(fields, b, t) OBVIOUS
<1> HIDE DEF t
<1>6. Wide(script, t)
  <2>1. Listed(script) BY <1>2 DEF Listed
  <2>2. \A j \in 1..4 : script[j][2] = 4 BY <1>2, <1>4
  <2> QED BY <1>1, <1>2, <2>1, <2>2 DEF Wide
<1>7. Wide(ContEnd, t)
  <2>1. Listed(ContEnd) BY <1>3 DEF Listed
  <2>2. \A j \in 1..4 : ContEnd[j][2] = 4 BY <1>3, <1>4
  <2> QED BY <1>1, <1>3, <2>1, <2>2 DEF Wide
<1> DEFINE v == <<t[2][1], t[2][3]>>
           w == <<"tempContainerId", 0>>
<1>8. Shows(ContEnd, t, "tempContainerId", w) /\ Shows(ContEnd, t, "containerId.high", v)
  <2>1. <<t[3][1], t[3][3]>> = w BY <1>1
  <2> HIDE DEF w
  <2>2. \E i \in 1..4 : ContEnd[i][1] = "tempContainerId" BY <1>3
  <2>3. \A i \in 1..4 : ContEnd[i][1] = "tempContainerId" => i = 3 BY <1>3, <1>4
  <2>4. \E i \in 1..4 : ContEnd[i][1] = "containerId.high" BY <1>3
  <2>5. \A i \in 1..4 : ContEnd[i][1] = "containerId.high" => i = 2 BY <1>3, <1>4
  <2> QED BY ONLY <1>1, <2>1, <2>2, <2>3, <2>4, <2>5 DEF Shows
<1>9. Gives(script, t, "counter", w) /\ Gives(script, t, "containerid.high", v)
  <2>1. <<t[3][1], t[3][3]>> = w BY <1>1
  <2> HIDE DEF w
  <2>2. /\ script[1][1] = "pop" /\ script[1][3] = "containerid.low"
        /\ script[2][1] = "pop" /\ script[2][3] = "containerid.high"
        /\ script[3][1] = "pop" /\ script[3][3] = "counter" /\ script[4][1] = "skip"
    BY <1>2
  <2>3. \E i \in 1..4 : script[i][1] # "skip" /\ script[i][3] = "counter" BY ONLY <2>2
  <2>4. \A i \in 1..4 : script[i][1] # "skip" /\ script[i][3] = "counter" => i = 3 BY ONLY <1>4, <2>2
  <2>5. \E i \in 1..4 : script[i][1] # "skip" /\ script[i][3] = "containerid.high" BY ONLY <2>2
  <2>6. \A i \in 1..4 : script[i][1] # "skip" /\ script[i][3] = "containerid.high" => i = 2 BY ONLY <1>4, <2>2
  <2> QED BY ONLY <1>1, <2>1, <2>3, <2>4, <2>5, <2>6 DEF Gives
<1> HIDE DEF v, w
<1>10. /\ Overlay(m, o, ContEnd)["tempContainerId"] = w
       /\ Overlay(m, o, ContEnd)["containerId.high"] = v
  BY ONLY fields \in Seq(Field), <1>5, <1>7, <1>8, StructMember
<1>11. /\ Read(m, o, script).got["counter"] = w
       /\ Read(m, o, script).got["containerid.high"] = v
  BY ONLY fields \in Seq(Field), <1>5, <1>6, <1>9, ScriptMember
<1>12. Read(m, o, script).pos = Ends(fields)[b + Len(t)] BY <1>5, <1>6, PartScripted
<1> QED BY <1>1, <1>10, <1>11, <1>12 DEF w

\* What a message of the server is behind its header.
LEMMA ServerPart ==
    ASSUME NEW fields \in Seq(Field), NEW type \in ServerTypes, type # "D", NEW body, Listed(body),
           fields = SentHeader("server", type) \o body, IsPrefix(SentHeader("server", type), fields)
    PROVE  /\ PartAt(fields, 9, body) /\ Ends(fields)[9] = 28
           /\ AOMessageBase(Message(fields), type).pos = Ends(fields)[9]
           /\ Message(fields).end = Ends(fields)[9 + Len(body)]
<1> DEFINE origin == "server"
<1>1. HeaderLength(origin, type) = 9 BY DEF HeaderLength
<1>2. PartAt(fields, HeaderLength(origin, type), body) /\ Len(fields) = HeaderLength(origin, type) + Len(body)
  <2>1. fields = SentHeader(origin, type) \o body OBVIOUS
  <2> HIDE DEF origin
  <2>2. Listed(body) OBVIOUS
  <2>3. SentAs(fields, origin, type, body) BY ONLY <2>1, <2>2 DEF SentAs
  <2> QED BY ONLY <2>3, BodySent
<1>3. Ends(fields)[HeaderLength(origin, type)] = 28
  <2>1. origin \in {"server", "client"} /\ IsPrefix(SentHeader(origin, type), fields) OBVIOUS
  <2> HIDE DEF origin
  <2> QED BY ONLY <2>1, fields \in Seq(Field), type # "D", HeaderEnds
<1>4. AOMessageBase(Message(fields), type).pos = Ends(fields)[9] BY <1>1, BasePos
<1>5. Message(fields).end = Ends(fields)[Len(fields)] BY DEF Message
<1> QED BY <1>1, <1>2, <1>3, <1>4, <1>5

\* The fixed part of a container as a struct: how many items follow, and from where.
LEMMA ContainerHead ==
    ASSUME NEW fields \in Seq(Field), NEW b, NEW n \in Nat, PartAt(fields, b, ListHead(n)), Ends(fields)[b] = 28
    PROVE  /\ ItemCount(Overlay(Message(fields), 0, Container)["mass"][2]) = n
           /\ Size(Container) = Ends(fields)[b + 4]
<1> DEFINE t == << <<"object", 4>>, <<"numslots", 1>>, <<"three", 4>>, <<"mass", 4>> >>
           h == ListHead(n)
           m == Message(fields)
           c == 1009 * (n + 1)
           v == <<"mass", c>>
<1>1. /\ Listed(h) /\ Len(h) = 4 /\ h[1] = <<"object", 4, 0>> /\ h[2] = <<"numslots", 1, 0>>
      /\ h[3] = <<"three", 4, 0>> /\ h[4] = <<"mass", 4, c>>
  BY HeadFields
<1>2. /\ t[1] = <<"object", 4>> /\ t[2] = <<"numslots", 1>> /\ t[3] = <<"three", 4>> /\ t[4] = <<"mass", 4>>
      /\ Len(t) = 4 /\ t \in Seq({t[1], t[2], t[3], t[4]})
  OBVIOUS
<1>3. Container = Header \o t BY DEF Container
<1>4. PartAt(fields, b, h) OBVIOUS
<1>5. \A i \in 1..8 : Header[i][1] # "mass"
  <2>1. \A i \in 1..8 : i = 1 \/ i = 2 \/ i = 3 \/ i = 4 \/ i = 5 \/ i = 6 \/ i = 7 \/ i = 8 OBVIOUS
  <2> QED BY <2>1, HeaderListed
<1>6. ItemCount(c) = n BY MassCounts
<1>7. \A j \in 1..4 : j = 1 \/ j = 2 \/ j = 3 \/ j = 4 OBVIOUS
<1> HIDE DEF t, h, c
<1>8. Wide(t, h)
  <2>1. Listed(t) BY <1>2 DEF Listed
  <2>2. t[1][2] = h[1][2] /\ t[2][2] = h[2][2] /\ t[3][2] = h[3][2] /\ t[4][2] = h[4][2] BY <1>1, <1>2
  <2> QED BY <1>1, <1>2, <1>7, <2>1, <2>2 DEF Wide
<1>9. Shows(t, h, "mass", v)
  <2>1. \E i \in 1..4 : t[i][1] = "mass" BY <1>2
  <2>2. \A i \in 1..4 : t[i][1] = "mass" => i = 4 BY <1>2, <1>7
  <2>3. <<h[4][1], h[4][3]>> = v BY <1>1
  <2> HIDE DEF v
  <2> QED BY ONLY <1>1, <2>1, <2>2, <2>3 DEF Shows
<1>10. Overlay(m, 0, Header \o t)["mass"] = v
  <2> HIDE DEF v
  <2> QED BY ONLY fields \in Seq(Field), Ends(fields)[b] = 28, <1>4, <1>5, <1>8, <1>9, HeaderNamed
<1>11. Size(Header \o t) = Ends(fields)[b + Len(h)] BY <1>4, <1>8, HeaderLaid
<1>12. Overlay(m, 0, Container)["mass"][2] = c
  <2> HIDE DEF m
  <2> QED BY <1>3, <1>10
<1> QED BY <1>1, <1>3, <1>6, <1>11, <1>12

\* A container, read by the struct and by the cursor.
LEMMA ContainerRead ==
    ASSUME NEW fields \in Seq(Field), NEW type \in ServerTypes, type # "D", NEW n \in Nat,
           fields = SentHeader("server", type)
                      \o (SentContainer(n) \o Pair("containerId") \o << F("tempContainerId", 4), F("nullval", 4) >>),
           IsPrefix(SentHeader("server", type), fields)
    PROVE  LET native == NativeContainer(Message(fields))  parsed == AOContainer(Message(fields), type)
           IN /\ ItemsRead(native.items, n) /\ ItemsRead(parsed.items, n)
              /\ native.temp = <<"tempContainerId", 0>> /\ parsed.temp = native.temp
              /\ parsed.id = native.id /\ parsed.pos = Message(fields).end
<1> DEFINE m == Message(fields)
           e == Ends(fields)
           s == SentContainer(n)
           t == ContainerTail
           i == Pair("containerId")
           j == << F("tempContainerId", 4), F("nullval", 4) >>
           c == 9 + Len(s)
           script == << Pop(4, "containerid.low"), Pop(4, "containerid.high"), Pop(4, "counter"), <<"skip", 4>> >>
<1>0. Len(fields) \in Nat OBVIOUS
<1>1. Listed(s) /\ Len(s) = 4 + n * 9 BY ContainerListed
<1>2. Listed(t) /\ Len(t) = 4 /\ Listed(i) /\ Len(i) = 2 /\ Listed(j) /\ Len(j) = 2 /\ t = i \o j
  BY TailFields, ListedTwo DEF ContainerTail
<1>3. fields = SentHeader("server", type) \o (s \o i \o j) OBVIOUS
<1> HIDE DEF s, t, i, j, c
<1>4. /\ Listed(s \o i) /\ Len(s \o i) = Len(s) + Len(i) /\ Listed((s \o i) \o j)
      /\ Len((s \o i) \o j) = Len(s \o i) + Len(j) /\ Len(s) \in Nat
  <2>1. Listed(s \o i) /\ Len(s \o i) = Len(s) + Len(i) /\ Len(s) \in Nat BY ONLY <1>1, <1>2, ListedJoined
  <2> QED BY ONLY <1>2, <2>1, ListedJoined
<1>5. /\ PartAt(fields, 9, s) /\ PartAt(fields, c, t)
      /\ e[9] = 28 /\ AOMessageBase(m, type).pos = e[9] /\ m.end = e[9 + Len((s \o i) \o j)]
  <2>1. /\ PartAt(fields, 9, (s \o i) \o j) /\ e[9] = 28 /\ AOMessageBase(m, type).pos = e[9]
        /\ m.end = e[9 + Len((s \o i) \o j)]
    BY ONLY <1>3, <1>4, fields \in Seq(Field), type \in ServerTypes, type # "D",
            IsPrefix(SentHeader("server", type), fields), ServerPart
  <2>2. PartAt(fields, 9, s \o i) /\ PartAt(fields, 9 + Len(s \o i), j)
    BY ONLY <1>0, <1>2, <1>4, <2>1, PartJoined
  <2>3. PartAt(fields, 9, s) /\ PartAt(fields, 9 + Len(s), i)
    BY ONLY <1>0, <1>1, <1>2, <2>2, PartJoined
  <2>4. 9 + Len(s \o i) = c + Len(i) /\ c = 9 + Len(s) BY <1>2, <1>4 DEF c
  <2>5. PartAt(fields, c, i) /\ PartAt(fields, c + Len(i), j) BY <2>2, <2>3, <2>4
  <2>6. PartAt(fields, c, i \o j) BY ONLY <1>0, <2>5, PartsJoined
  <2> QED BY <1>2, <2>1, <2>3, <2>6
<1> USE DEF c
<1>6. PartAt(fields, 9, ListHead(n)) /\ PartAt(fields, 13, Times(n, SentItem))
  <2>1. PartAt(fields, 9, SentContainer(n)) BY <1>5 DEF s
  <2>2. PartAt(fields, 9, ListHead(n)) /\ PartAt(fields, 9 + 4, Times(n, SentItem)) BY ONLY <1>0, <2>1, n \in Nat, ContainerPlaced
  <2>3. 9 + 4 = 13 OBVIOUS
  <2> QED BY ONLY <2>2, <2>3
<1>7. ItemCount(Overlay(m, 0, Container)["mass"][2]) = n /\ Size(Container) = e[13]
  <2>1. ItemCount(Overlay(m, 0, Container)["mass"][2]) = n /\ Size(Container) = e[9 + 4]
    BY ONLY <1>5, <1>6, fields \in Seq(Field), n \in Nat, ContainerHead
  <2>2. 9 + 4 = 13 OBVIOUS
  <2> QED BY ONLY <2>1, <2>2
<1> DEFINE o == Size(Container)
<1>8. /\ e[13 + n * 9] = o + Size(ContItem) * n /\ ItemsRead(NativeItems(m, o, n), n)
  <2>1. o = Ends(fields)[13] BY <1>7
  <2> HIDE DEF o
  <2> QED BY ONLY <1>6, <2>1, fields \in Seq(Field), n \in Nat, ItemsShown
<1>9. /\ ContainerItems(m, type).pos = e[(9 + 4) + n * 9] /\ ItemsRead(ContainerItems(m, type).got, n)
  <2>1. PartAt(fields, 9, SentContainer(n)) BY <1>5 DEF s
  <2> QED BY ONLY <1>5, <2>1, fields \in Seq(Field), n \in Nat, ContainerItemsRead
<1>10. c = 13 + n * 9 /\ c \in Nat
  <2> DEFINE q == n * 9
  <2>1. q \in Nat OBVIOUS
  <2> HIDE DEF q
  <2> QED BY <1>1, <2>1 DEF q
<1>11. e[c] = o + Size(ContItem) * n /\ ContainerItems(m, type).pos = e[c]
  <2>1. (9 + 4) + n * 9 = 13 + n * 9 OBVIOUS
  <2> QED BY <1>8, <1>9, <1>10, <2>1
<1> HIDE DEF script
<1>12. /\ Overlay(m, e[c], ContEnd)["tempContainerId"] = <<"tempContainerId", 0>>
       /\ Read(m, e[c], script).got["counter"] = <<"tempContainerId", 0>>
       /\ Read(m, e[c], script).got["containerid.high"] = Overlay(m, e[c], ContEnd)["containerId.high"]
       /\ Read(m, e[c], script).pos = e[c + 4]
  <2>1. PartAt(fields, c, ContainerTail) BY <1>5 DEF t
  <2>2. script = << Pop(4, "containerid.low"), Pop(4, "containerid.high"), Pop(4, "counter"), <<"skip", 4>> >> BY DEF script
  <2> HIDE DEF c
  <2> QED BY ONLY <2>1, <2>2, fields \in Seq(Field), TailRead
<1>13. NativeContainer(m) = [items |-> NativeItems(m, o, n), id |-> Overlay(m, e[c], ContEnd)["containerId.high"],
                             temp |-> Overlay(m, e[c], ContEnd)["tempContainerId"]]
  <2> HIDE DEF m, e, c
  <2> QED BY <1>7, <1>11 DEF NativeContainer
<1>14. AOContainer(m, type) = [pos |-> Read(m, e[c], script).pos, items |-> ContainerItems(m, type).got,
                               id |-> Read(m, e[c], script).got["containerid.high"], temp |-> Read(m, e[c], script).got["counter"]]
  <2> HIDE DEF m, e, c
  <2> QED BY <1>11 DEF AOContainer, script
<1>15. m.end = e[c + 4]
  <2>1. 9 + Len((s \o i) \o j) = c + 4 BY <1>2, <1>4
  <2> QED BY <1>5, <2>1
<1> HIDE DEF m, e, c, o
<1>16. /\ ItemsRead(NativeContainer(m).items, n) /\ ItemsRead(AOContainer(m, type).items, n)
       /\ NativeContainer(m).temp = <<"tempContainerId", 0>> /\ AOContainer(m, type).temp = NativeContainer(m).temp
       /\ AOContainer(m, type).id = NativeContainer(m).id /\ AOContainer(m, type).pos = m.end
  BY ONLY <1>8, <1>9, <1>12, <1>13, <1>14, <1>15
<1> QED BY <1>16 DEF m

-----------------------------------------------------------------------------
(* Lists of whatever parts of equal length.                                *)

\* A function on 1..n whose values are parts of equal length is a list of them.
LEMMA ListParted ==
    ASSUME NEW n \in Nat, NEW L \in Nat, NEW seqs, seqs = [k \in 1..n |-> seqs[k]],
           \A k \in 1..n : Listed(seqs[k]) /\ Len(seqs[k]) = L
    PROVE  Parted(seqs, n, L)
<1> DEFINE T == {seqs[k] : k \in 1..n}
<1>1. \A k \in 1..n : seqs[k] \in T OBVIOUS
<1> HIDE DEF T
<1>2. seqs \in Seq(T) /\ Len(seqs) = n BY <1>1
<1> QED BY <1>2 DEF Parted, Listed

\* A script or struct that has the widths of every part of a list.
WideAll(script, seqs, n, L) ==
  /\ Listed(script) /\ Len(script) = L
  /\ \A k \in 1..n : Wide(script, seqs[k])

\* It may be read in a loop.
LEMMA ListScripted ==
    ASSUME NEW fields \in Seq(Field), NEW b, NEW seqs, NEW n, NEW L, Parted(seqs, n, L),
           PartAt(fields, b, FlattenSeq(seqs)), NEW script, WideAll(script, seqs, n, L)
    PROVE  ScriptedMany(fields, b, n, script) /\ Len(script) = L
<1>1. b \in Nat /\ n \in Nat /\ L \in Nat /\ Len(script) = L /\ Len(fields) \in Nat BY DEF PartAt, Parted, WideAll
<1>2. \A k \in Nat : k < n => PartAt(fields, b + k * L, seqs[k + 1]) BY <1>1, ListPart
<1>3. ASSUME NEW k \in Nat, k < n PROVE Scripted(fields, b + k * L, script)
  <2> DEFINE c == b + k * L
             part == seqs[k + 1]
  <2>1. k + 1 \in 1..n BY <1>1, <1>3
  <2>2. Wide(script, part) BY <2>1 DEF WideAll
  <2>3. PartAt(fields, c, part) BY <1>2, <1>3
  <2> HIDE DEF c, part
  <2>4. Scripted(fields, c, script) BY <2>2, <2>3, PartScripted
  <2> QED BY <2>4 DEF c
<1> QED BY <1>1, <1>3 DEF ScriptedMany

\* A loop reads all of it and stands behind the last.
LEMMA ListPopped ==
    ASSUME NEW fields \in Seq(Field), NEW b, NEW seqs, NEW n, NEW L, Parted(seqs, n, L),
           PartAt(fields, b, FlattenSeq(seqs)), NEW script, WideAll(script, seqs, n, L)
    PROVE  /\ ReadMany(Message(fields), Ends(fields)[b], n, script).pos = Ends(fields)[b + n * L]
           /\ Listed(ReadMany(Message(fields), Ends(fields)[b], n, script).got)
           /\ Len(ReadMany(Message(fields), Ends(fields)[b], n, script).got) = n
<1>1. ScriptedMany(fields, b, n, script) /\ Len(script) = L BY ListScripted
<1> QED BY ONLY <1>1, ManyRead

\* The k-th part of a list at b, which gives v under the name x.
ElementAt(fields, b, seqs, n, L, script, k, x, v) ==
  /\ fields \in Seq(Field) /\ Parted(seqs, n, L) /\ PartAt(fields, b, FlattenSeq(seqs))
  /\ WideAll(script, seqs, n, L) /\ k \in 1..n /\ Gives(script, seqs[k], x, v)

\* What it has read of one of them.
LEMMA ListElement ==
    ASSUME NEW fields, NEW b, NEW seqs, NEW n, NEW L, NEW script, NEW k, NEW x, NEW v,
           ElementAt(fields, b, seqs, n, L, script, k, x, v)
    PROVE  ReadMany(Message(fields), Ends(fields)[b], n, script).got[k][x] = v
<1>0. /\ fields \in Seq(Field) /\ Parted(seqs, n, L) /\ PartAt(fields, b, FlattenSeq(seqs))
      /\ WideAll(script, seqs, n, L) /\ k \in 1..n /\ Gives(script, seqs[k], x, v)
  BY DEF ElementAt
<1> USE <1>0
<1>1. b \in Nat /\ n \in Nat /\ L \in Nat /\ Len(script) = L /\ Len(fields) \in Nat BY DEF PartAt, Parted, WideAll
<1>2. \A i \in Nat : i < n => PartAt(fields, b + i * L, seqs[i + 1]) BY <1>1, ListPart
<1>3. PICK j \in Nat : j < n /\ j + 1 = k
  <2>1. k - 1 \in Nat /\ k - 1 < n /\ (k - 1) + 1 = k BY <1>1
  <2> QED BY <2>1
<1> DEFINE c == b + j * Len(script)
           part == seqs[k]
<1>4. PartAt(fields, c, part) BY <1>1, <1>2, <1>3
<1>5. Wide(script, part) /\ Gives(script, part, x, v) BY DEF WideAll
<1>6. c = b + j * Len(script) OBVIOUS
<1>7. ScriptedMany(fields, b, n, script) BY ListScripted
<1> HIDE DEF c, part
<1>8. Read(Message(fields), Ends(fields)[c], script).got[x] = v BY <1>4, <1>5, ScriptMember
<1>9. ReadMany(Message(fields), Ends(fields)[b], n, script).got[j + 1] = Read(Message(fields), Ends(fields)[c], script).got
  BY ONLY <1>3, <1>6, <1>7, ManyTurn
<1> QED BY <1>3, <1>8, <1>9

\* A struct of its widths may be laid over each of them.
LEMMA ListOver ==
    ASSUME NEW fields \in Seq(Field), NEW b, NEW seqs, NEW n, NEW L, Parted(seqs, n, L),
           PartAt(fields, b, FlattenSeq(seqs)), NEW struct, WideAll(struct, seqs, n, L),
           \A j \in 1..L : struct[j][2] \in Nat \ {0}
    PROVE  ListedOver(fields, b, n, struct)
<1>1. /\ b \in Nat /\ n \in Nat /\ L \in Nat /\ Len(struct) = L /\ Len(fields) \in Nat
      /\ b + Len(FlattenSeq(seqs)) <= Len(fields)
  BY DEF PartAt, Parted, WideAll
<1>2. b <= Len(fields)
  <2>1. Len(FlattenSeq(seqs)) = n * L BY PartsListed
  <2>2. n * L \in Nat BY <1>1
  <2> QED BY <1>1, <2>1, <2>2
<1>3. \A i \in Nat : i < n => PartAt(fields, b + i * L, seqs[i + 1]) BY <1>1, ListPart
<1>4. \A i \in Nat : i < n => Wide(struct, seqs[i + 1])
  <2>1. \A i \in Nat : i < n => i + 1 \in 1..n BY <1>1
  <2> QED BY <2>1 DEF WideAll
<1>5. ASSUME NEW i \in Nat, i < n
      PROVE  /\ b + i * L \in Nat /\ (b + i * L) + L <= Len(fields)
             /\ \A j \in 1..L : struct[j][2] = fields[(b + i * L) + j][2]
  <2> DEFINE c == b + i * L
             part == seqs[i + 1]
  <2>1. PartAt(fields, c, part) /\ Wide(struct, part) BY <1>3, <1>4, <1>5
  <2> HIDE DEF c, part
  <2>2. c \in Nat /\ c + L <= Len(fields) /\ Len(part) = L BY <1>1, <2>1 DEF PartAt, Wide
  <2>3. ASSUME NEW j \in 1..L PROVE struct[j][2] = fields[c + j][2]
    <3>1. fields[c + j] = part[j] BY ONLY <2>1, <2>2, <2>3 DEF PartAt
    <3>2. struct[j][2] = part[j][2] BY <2>1, <2>2 DEF Wide
    <3> QED BY <3>1, <3>2
  <2> QED BY <2>2, <2>3 DEF c
<1>6. DOMAIN struct = 1..Len(struct) BY DEF WideAll, Listed
<1> QED BY <1>1, <1>2, <1>5, <1>6 DEF ListedOver

\* The struct laid over each of them.
LEMMA ListShown ==
    ASSUME NEW fields \in Seq(Field), NEW b, NEW seqs, NEW n, NEW L, Parted(seqs, n, L),
           PartAt(fields, b, FlattenSeq(seqs)), NEW struct, WideAll(struct, seqs, n, L),
           ListedOver(fields, b, n, struct),
           NEW k \in 1..n, NEW x, NEW v, Shows(struct, seqs[k], x, v)
    PROVE  Overlay(Message(fields), Ends(fields)[b] + Size(struct) * (k - 1), struct)[x] = v
<1>1. /\ b \in Nat /\ n \in Nat /\ L \in Nat /\ Len(struct) = L /\ Len(fields) \in Nat
  BY DEF PartAt, Parted, WideAll
<1>2. \A i \in Nat : i < n => PartAt(fields, b + i * L, seqs[i + 1]) BY <1>1, ListPart
<1>3. ListedOver(fields, b, n, struct) OBVIOUS
<1>4. PICK j \in Nat : j < n /\ j + 1 = k /\ k - 1 = j
  <2>1. k - 1 \in Nat /\ k - 1 < n /\ (k - 1) + 1 = k BY <1>1
  <2> QED BY <2>1
<1>5. Ends(fields)[b + j * Len(struct)] = Ends(fields)[b] + Size(struct) * j
  <2>1. j <= n BY <1>1, <1>4
  <2> QED BY <1>3, <1>4, <2>1, ListEnds
<1> DEFINE c == b + j * L
           part == seqs[k]
<1>6. PartAt(fields, c, part) BY <1>2, <1>4
<1>7. Wide(struct, part) /\ Shows(struct, part, x, v) BY DEF WideAll
<1>8. Ends(fields)[c] = Ends(fields)[b] + Size(struct) * (k - 1) BY <1>1, <1>4, <1>5
<1> HIDE DEF c, part
<1>9. Overlay(Message(fields), Ends(fields)[c], struct)[x] = v BY <1>6, <1>7, StructMember
<1> QED BY <1>8, <1>9

\* A field of the message by itself.
LEMMA OneField ==
    ASSUME NEW fields \in Seq(Field), NEW c \in Nat, c + 1 <= Len(fields), NEW f, f = fields[c + 1]
    PROVE  /\ f \in Field /\ Ends(fields)[c] \in Nat
           /\ Ends(fields)[c + 1] = Ends(fields)[c] + f[2]
           /\ ReadAt(Message(fields), Ends(fields)[c], f[2]) = <<f[1], f[3]>>
           /\ Skip(Message(fields), Ends(fields)[c], f[2]) = Ends(fields)[c + 1]
<1> DEFINE i == c + 1
<1>0. Len(fields) \in Nat OBVIOUS
<1>1. i \in 1..Len(fields) /\ i - 1 = c BY <1>0
<1>2. f \in Field BY <1>1
<1>3. Ends(fields)[c + 1] = Ends(fields)[c] + f[2] BY <1>0, EndsLoop
<1>4. Ends(fields)[c] \in Nat
  <2>1. \A n \in 1..Len(fields) : fields[n][2] \in Nat \ {0}
    <3>1. \A n \in 1..Len(fields) : fields[n] \in Field OBVIOUS
    <3> QED BY ONLY <3>1 DEF Field
  <2>2. c \in 0..Len(fields) BY <1>0
  <2> QED BY ONLY <1>0, <2>1, <2>2, EndsGrow
<1>5. ReadAt(Message(fields), Ends(fields)[c], f[2]) = <<f[1], f[3]>>
  <2>1. fields[i] = f OBVIOUS
  <2> HIDE DEF i
  <2>2. ReadAt(Message(fields), Ends(fields)[i - 1], fields[i][2]) = <<fields[i][1], fields[i][3]>>
    BY ONLY <1>1, fields \in Seq(Field), FieldRead
  <2> QED BY <1>1, <2>1, <2>2
<1>6. Skip(Message(fields), Ends(fields)[c], f[2]) = Ends(fields)[c + 1]
  <2> DEFINE d == [pos |-> Ends(fields)[c], got |-> <<>>]
             s == <<"skip", f[2]>>
  <2>1. s[1] = "skip" /\ s[2] = f[2] /\ d.pos = Ends(fields)[c] OBVIOUS
  <2>2. fields[i] = f OBVIOUS
  <2>3. Step(Message(fields), d, s) = [pos |-> Skip(Message(fields), d.pos, s[2]), got |-> d.got]
    BY <2>1 DEF Step
  <2> HIDE DEF i, d, s
  <2>4. Step(Message(fields), d, s) = [pos |-> Ends(fields)[i], got |-> d.got]
    BY <1>1, <2>1, <2>2, FieldSkipped
  <2>5. Skip(Message(fields), d.pos, s[2]) = Ends(fields)[i]
    BY ONLY <2>3, <2>4
  <2> QED BY <2>1, <2>5 DEF i
<1> QED BY <1>2, <1>3, <1>4, <1>5, <1>6

-----------------------------------------------------------------------------
(* The bank.                                                               *)

\* What the bank has before its items.
BankHead(n) == << F("pad", 1), Mass(n) >>

\* Its items, read by the struct.
LEMMA BankRead ==
    ASSUME NEW fields \in Seq(Field), NEW type \in ServerTypes, type # "D", NEW n \in Nat,
           fields = SentHeader("server", type) \o (BankHead(n) \o Times(n, SentItem)),
           IsPrefix(SentHeader("server", type), fields)
    PROVE  ItemsRead(NativeBank(Message(fields)), n)
<1> DEFINE m == Message(fields)
           e == Ends(fields)
           h == BankHead(n)
           t == << <<"pad", 1>>, <<"mass", 4>> >>
           r == Times(n, SentItem)
           z == 1009 * (n + 1)
           v == <<"mass", z>>
<1>0. Len(fields) \in Nat OBVIOUS
<1>1. Listed(h) /\ Len(h) = 2 /\ h[1] = <<"pad", 1, 0>> /\ h[2] = <<"mass", 4, z>>
  <2> DEFINE a == <<"pad", 1, 0>>
             b == <<"mass", 4, z>>
  <2>1. h = <<a, b>> BY DEF BankHead, F, Fk, Mass
  <2> HIDE DEF a, b, h
  <2>2. Listed(h) /\ Len(h) = 2 /\ h[1] = a /\ h[2] = b BY <2>1, ListedTwo
  <2> QED BY <2>2 DEF a, b
<1>2. Listed(r) /\ Len(r) = n * 9 BY ItemsListed
<1>3. t[1] = <<"pad", 1>> /\ t[2] = <<"mass", 4>> /\ Len(t) = 2 /\ t \in Seq({t[1], t[2]}) OBVIOUS
<1>4. Bank = Header \o t BY DEF Bank
<1>5. ItemCount(z) = n BY MassCounts
<1>6. \A j \in 1..2 : j = 1 \/ j = 2 OBVIOUS
<1>7. \A i \in 1..8 : Header[i][1] # "mass"
  <2>1. \A i \in 1..8 : i = 1 \/ i = 2 \/ i = 3 \/ i = 4 \/ i = 5 \/ i = 6 \/ i = 7 \/ i = 8 OBVIOUS
  <2> QED BY <2>1, HeaderListed
<1>8. fields = SentHeader("server", type) \o (h \o r) OBVIOUS
<1> HIDE DEF h, t, r, z
<1>9. Listed(h \o r) BY ONLY <1>1, <1>2, ListedJoined
<1>10. PartAt(fields, 9, h \o r) /\ e[9] = 28
  BY ONLY <1>8, <1>9, fields \in Seq(Field), type \in ServerTypes, type # "D",
          IsPrefix(SentHeader("server", type), fields), ServerPart
<1>11. PartAt(fields, 9, h) /\ PartAt(fields, 11, r)
  <2>1. PartAt(fields, 9, h) /\ PartAt(fields, 9 + Len(h), r) BY ONLY <1>0, <1>1, <1>2, <1>10, PartJoined
  <2> QED BY <1>1, <2>1
<1>12. Wide(t, h)
  <2>1. Listed(t) BY <1>3 DEF Listed
  <2>2. t[1][2] = h[1][2] /\ t[2][2] = h[2][2] BY <1>1, <1>3
  <2> QED BY <1>1, <1>3, <1>6, <2>1, <2>2 DEF Wide
<1>13. Shows(t, h, "mass", v)
  <2>1. \E i \in 1..2 : t[i][1] = "mass" BY <1>3
  <2>2. \A i \in 1..2 : t[i][1] = "mass" => i = 2 BY <1>3, <1>6
  <2>3. <<h[2][1], h[2][3]>> = v BY <1>1
  <2> HIDE DEF v
  <2> QED BY ONLY <1>1, <2>1, <2>2, <2>3 DEF Shows
<1>14. Overlay(m, 0, Header \o t)["mass"] = v
  <2> HIDE DEF v
  <2> QED BY ONLY fields \in Seq(Field), <1>7, <1>10, <1>11, <1>12, <1>13, HeaderNamed
<1>15. Size(Header \o t) = e[11]
  <2>1. Size(Header \o t) = Ends(fields)[9 + Len(h)]
    BY ONLY fields \in Seq(Field), <1>10, <1>11, <1>12, HeaderLaid
  <2> QED BY <1>1, <2>1
<1> DEFINE o == Size(Bank)
<1>16. o = e[11] BY <1>4, <1>15
<1>17. NativeBank(m) = NativeItems(m, o, n)
  <2> HIDE DEF m
  <2>1. Overlay(m, 0, Bank)["mass"][2] = z BY <1>4, <1>14
  <2> QED BY <1>5, <2>1 DEF NativeBank
<1> HIDE DEF o
<1>18. ItemsRead(NativeItems(m, o, n), n)
  <2>1. PartAt(fields, 11, Times(n, SentItem)) BY <1>11 DEF r
  <2> QED BY ONLY fields \in Seq(Field), n \in Nat, <1>16, <2>1, ItemsShown
<1> QED BY <1>17, <1>18

-----------------------------------------------------------------------------
(* What a shop sells.                                                      *)

\* The prices that are sent.
PricesSent == [k \in 1..PriceCount |-> SentPrice(k)]

\* The prices are a list of single fields, each of which is popped.
LEMMA PricesParted ==
    /\ Parted(PricesSent, 21, 1) /\ Times(PriceCount, SentPrice) = FlattenSeq(PricesSent)
    /\ WideAll(<< Pop(4, "price") >>, PricesSent, 21, 1)
    /\ \A k \in 1..21 : Gives(<< Pop(4, "price") >>, PricesSent[k], "price", <<"price", k>>)
<1> DEFINE s == << Pop(4, "price") >>
<1>1. Times(PriceCount, SentPrice) = FlattenSeq(PricesSent) BY DEF Times, PricesSent
<1>2. PricesSent = [k \in 1..21 |-> PricesSent[k]] BY DEF PricesSent, PriceCount
<1>3. ASSUME NEW k \in 1..21
      PROVE  /\ Listed(PricesSent[k]) /\ Len(PricesSent[k]) = 1 /\ PricesSent[k][1] = <<"price", 4, k>>
  <2> DEFINE a == <<"price", 4, k>>
  <2>1. PricesSent[k] = <<a>> BY DEF PricesSent, PriceCount, SentPrice, Fk
  <2> HIDE DEF a
  <2>2. Listed(PricesSent[k]) /\ Len(PricesSent[k]) = 1 /\ PricesSent[k][1] = a BY <2>1, ListedOne
  <2> QED BY <2>2 DEF a
<1>4. Parted(PricesSent, 21, 1)
  <2> DEFINE L == 1
             n == 21
  <2>1. n \in Nat /\ L \in Nat /\ PricesSent = [k \in 1..n |-> PricesSent[k]] BY <1>2
  <2>2. \A k \in 1..n : Listed(PricesSent[k]) /\ Len(PricesSent[k]) = L BY <1>3
  <2> HIDE DEF L, n
  <2>3. Parted(PricesSent, n, L) BY ONLY <2>1, <2>2, ListParted
  <2> QED BY <2>3 DEF L, n
<1>5. Listed(s) /\ Len(s) = 1 /\ s[1] = <<"pop", 4, "price">>
  <2> DEFINE a == <<"pop", 4, "price">>
  <2>1. s = <<a>> BY DEF Pop
  <2> HIDE DEF a, s
  <2>2. Listed(s) /\ Len(s) = 1 /\ s[1] = a BY <2>1, ListedOne
  <2> QED BY <2>2 DEF a
<1> HIDE DEF s
<1>6. \A k \in 1..21 : Wide(s, PricesSent[k])
  <2>1. \A j \in 1..1 : j = 1 OBVIOUS
  <2>2. ASSUME NEW k \in 1..21 PROVE Wide(s, PricesSent[k])
    <3>1. s[1][2] = PricesSent[k][1][2] BY <1>3, <1>5
    <3> QED BY <1>3, <1>5, <2>1, <3>1 DEF Wide
  <2> QED BY <2>2
<1>7. WideAll(s, PricesSent, 21, 1) BY <1>5, <1>6 DEF WideAll
<1>8. ASSUME NEW k \in 1..21 PROVE Gives(s, PricesSent[k], "price", <<"price", k>>)
  <2> DEFINE v == <<"price", k>>
  <2>1. <<PricesSent[k][1][1], PricesSent[k][1][3]>> = v BY <1>3
  <2>2. s[1][1] # "skip" /\ s[1][3] = "price" BY <1>5
  <2>3. \A j \in 1..1 : j = 1 OBVIOUS
  <2>4. Len(PricesSent[k]) = 1 BY <1>3
  <2> HIDE DEF v
  <2>5. \E i \in 1..1 : s[i][1] # "skip" /\ s[i][3] = "price" BY <2>2
  <2>6. \A i \in 1..1 : <<PricesSent[k][i][1], PricesSent[k][i][3]>> = v BY <2>1, <2>3
  <2>7. Gives(s, PricesSent[k], "price", v) BY ONLY <2>4, <2>5, <2>6 DEF Gives
  <2> QED BY <2>7 DEF v
<1> QED BY <1>1, <1>4, <1>7, <1>8 DEF s

\* The first field of a part.
LEMMA PartFirst ==
    ASSUME NEW fields \in Seq(Field), NEW b, NEW s, PartAt(fields, b, s), Len(s) \in Nat, Len(s) >= 1,
           NEW f, f = s[1]
    PROVE  /\ f \in Field /\ b \in Nat /\ b + 1 <= Len(fields) /\ Ends(fields)[b] \in Nat
           /\ Ends(fields)[b + 1] = Ends(fields)[b] + f[2]
           /\ ReadAt(Message(fields), Ends(fields)[b], f[2]) = <<f[1], f[3]>>
           /\ Skip(Message(fields), Ends(fields)[b], f[2]) = Ends(fields)[b + 1]
<1>0. Len(fields) \in Nat OBVIOUS
<1>1. b \in Nat /\ b + Len(s) <= Len(fields) /\ \A j \in 1..Len(s) : fields[b + j] = s[j] BY DEF PartAt
<1>2. b + 1 <= Len(fields) BY <1>0, <1>1
<1>3. fields[b + 1] = s[1]
  <2> DEFINE j == 1
  <2>1. j \in 1..Len(s) OBVIOUS
  <2> HIDE DEF j
  <2>2. fields[b + j] = s[j] BY ONLY <1>1, <2>1
  <2> QED BY <2>2 DEF j
<1> QED BY <1>1, <1>2, <1>3, OneField

\* What stands between the items and the prices.
ShopMiddle == << F("low", 4), F("shopid", 4), F("unknown", 12) >>

\* The items, the shop and its prices, read by the cursor to the last byte.
LEMMA ShopItemsRead ==
    ASSUME NEW fields \in Seq(Field), NEW type \in ServerTypes, type # "D", NEW n \in Nat,
           fields = SentHeader("server", type)
                      \o (SentContainer(n) \o ShopMiddle \o Times(PriceCount, SentPrice) \o << F("pad", 1) >>),
           IsPrefix(SentHeader("server", type), fields)
    PROVE  LET parsed == AOPlayerShopContent(Message(fields), type)
           IN /\ ItemsRead(parsed.items, n) /\ parsed.shopid = <<"shopid", 0>>
              /\ \A k \in 1..PriceCount : parsed.prices[k]["price"] = <<"price", k>>
              /\ parsed.pos = Message(fields).end
<1> DEFINE m == Message(fields)
           e == Ends(fields)
           s == SentContainer(n)
           q == ShopMiddle
           p == Times(PriceCount, SentPrice)
           z == << F("pad", 1) >>
           a1 == <<"skip", 4>>
           a2 == Pop(4, "shopid")
           a3 == <<"skip", 12>>
           script == <<a1, a2, a3>>
           one == << Pop(4, "price") >>
           c == 13 + n * 9
<1>0. Len(fields) \in Nat OBVIOUS
<1>1. Listed(s) /\ Len(s) = 4 + n * 9 BY ContainerListed
<1>2. Listed(q) /\ Len(q) = 3 /\ q[1] = <<"low", 4, 0>> /\ q[2] = <<"shopid", 4, 0>> /\ q[3] = <<"unknown", 12, 0>>
  <2> DEFINE x1 == <<"low", 4, 0>>
             x2 == <<"shopid", 4, 0>>
             x3 == <<"unknown", 12, 0>>
  <2>1. q = <<x1, x2, x3>> BY DEF ShopMiddle, F
  <2> HIDE DEF x1, x2, x3, q
  <2>2. Listed(q) /\ Len(q) = 3 /\ q[1] = x1 /\ q[2] = x2 /\ q[3] = x3 BY <2>1, ListedThree
  <2> QED BY <2>2 DEF x1, x2, x3
<1>3. /\ Parted(PricesSent, 21, 1) /\ p = FlattenSeq(PricesSent) /\ WideAll(one, PricesSent, 21, 1)
      /\ \A k \in 1..21 : Gives(one, PricesSent[k], "price", <<"price", k>>)
  BY PricesParted
<1>4. Listed(p) /\ Len(p) = 21
  <2> DEFINE k == 21
             L == 1
  <2>1. Parted(PricesSent, k, L) /\ p = FlattenSeq(PricesSent) BY <1>3
  <2> HIDE DEF k, L, p
  <2>2. Listed(p) /\ Len(p) = k * L BY <2>1, PartsListed
  <2> QED BY <2>2 DEF k, L
<1>5. Listed(z) /\ Len(z) = 1 /\ z[1] = <<"pad", 1, 0>>
  <2> DEFINE x1 == <<"pad", 1, 0>>
  <2>1. z = <<x1>> BY DEF F
  <2> HIDE DEF x1, z
  <2>2. Listed(z) /\ Len(z) = 1 /\ z[1] = x1 BY <2>1, ListedOne
  <2> QED BY <2>2 DEF x1
<1>6. /\ Listed(script) /\ Len(script) = 3
      /\ script[1] = <<"skip", 4>> /\ script[2] = <<"pop", 4, "shopid">> /\ script[3] = <<"skip", 12>>
  <2>1. a1 = <<"skip", 4>> /\ a2 = <<"pop", 4, "shopid">> /\ a3 = <<"skip", 12>> BY DEF Pop
  <2>2. script = <<a1, a2, a3>> OBVIOUS
  <2> HIDE DEF a1, a2, a3, script
  <2>3. Listed(script) /\ Len(script) = 3 /\ script[1] = a1 /\ script[2] = a2 /\ script[3] = a3 BY <2>2, ListedThree
  <2> QED BY <2>1, <2>3
<1>7. fields = SentHeader("server", type) \o (s \o q \o p \o z) OBVIOUS
<1>8. c \in Nat /\ 9 + Len(s) = c
  <2> DEFINE x == n * 9
  <2>1. x \in Nat OBVIOUS
  <2> HIDE DEF x
  <2>2. 13 + x \in Nat /\ 9 + (4 + x) = 13 + x BY <2>1
  <2> QED BY <1>1, <2>2 DEF x
<1>9. PartAt(fields, 9, SentContainer(n)) => /\ AOMessageBase(m, type).pos = e[9] => ContainerItems(m, type).pos = e[c]
                                             /\ AOMessageBase(m, type).pos = e[9] => ItemsRead(ContainerItems(m, type).got, n)
  <2> SUFFICES ASSUME PartAt(fields, 9, SentContainer(n)), AOMessageBase(m, type).pos = e[9]
               PROVE  ContainerItems(m, type).pos = e[c] /\ ItemsRead(ContainerItems(m, type).got, n)
    OBVIOUS
  <2>1. /\ ContainerItems(m, type).pos = e[(9 + 4) + n * 9] /\ ItemsRead(ContainerItems(m, type).got, n)
    BY ContainerItemsRead
  <2>2. (9 + 4) + n * 9 = c OBVIOUS
  <2> QED BY <2>1, <2>2
<1> HIDE DEF q, p, z, script, one, c
<1>10. /\ Listed(s \o q) /\ Len(s \o q) = Len(s) + Len(q) BY ONLY <1>1, <1>2, ListedJoined DEF s
<1>11. /\ Listed((s \o q) \o p) /\ Len((s \o q) \o p) = Len(s \o q) + Len(p) BY ONLY <1>4, <1>10, ListedJoined
<1>12. /\ Listed(((s \o q) \o p) \o z) /\ Len(((s \o q) \o p) \o z) = Len((s \o q) \o p) + Len(z)
  BY ONLY <1>5, <1>11, ListedJoined
<1>13. /\ PartAt(fields, 9, ((s \o q) \o p) \o z) /\ AOMessageBase(m, type).pos = e[9]
       /\ m.end = e[9 + Len(((s \o q) \o p) \o z)]
  BY ONLY <1>7, <1>12, fields \in Seq(Field), type \in ServerTypes, type # "D",
          IsPrefix(SentHeader("server", type), fields), ServerPart
<1>14. PartAt(fields, 9, (s \o q) \o p) /\ PartAt(fields, 9 + Len((s \o q) \o p), z)
  BY ONLY <1>0, <1>5, <1>11, <1>13, PartJoined
<1>15. PartAt(fields, 9, s \o q) /\ PartAt(fields, 9 + Len(s \o q), p)
  BY ONLY <1>0, <1>4, <1>10, <1>14, PartJoined
<1>16. PartAt(fields, 9, s) /\ PartAt(fields, 9 + Len(s), q)
  BY ONLY <1>0, <1>1, <1>2, <1>15, PartJoined
<1> HIDE DEF s
<1>17. Len(s) \in Nat BY <1>16, <1>1 DEF Listed
<1>18. /\ 9 + Len(s \o q) = c + 3 /\ 9 + Len((s \o q) \o p) = c + 24 /\ 9 + Len(((s \o q) \o p) \o z) = c + 25
  BY ONLY <1>2, <1>4, <1>5, <1>8, <1>10, <1>11, <1>12, <1>17
<1>19. PartAt(fields, c, q) /\ PartAt(fields, c + 3, p) /\ PartAt(fields, c + 24, z) /\ m.end = e[c + 25]
  BY <1>8, <1>13, <1>14, <1>15, <1>16, <1>18
<1>20. ContainerItems(m, type).pos = e[c] /\ ItemsRead(ContainerItems(m, type).got, n)
  BY <1>9, <1>13, <1>16 DEF s
<1> HIDE DEF a1, a2, a3
<1>21. \A j \in 1..3 : j = 1 \/ j = 2 \/ j = 3 OBVIOUS
<1>22. Wide(script, q)
  <2>1. script[1][2] = q[1][2] /\ script[2][2] = q[2][2] /\ script[3][2] = q[3][2] BY <1>2, <1>6
  <2> QED BY <1>2, <1>6, <1>21, <2>1 DEF Wide
<1> DEFINE v == <<"shopid", 0>>
<1>23. Gives(script, q, "shopid", v)
  <2>1. <<q[2][1], q[2][3]>> = v BY <1>2
  <2> HIDE DEF v
  <2>2. script[1][1] = "skip" /\ script[2][1] = "pop" /\ script[2][3] = "shopid" /\ script[3][1] = "skip" BY <1>6
  <2>3. \E i \in 1..3 : script[i][1] # "skip" /\ script[i][3] = "shopid" BY ONLY <2>2
  <2>4. \A i \in 1..3 : script[i][1] # "skip" /\ script[i][3] = "shopid" => i = 2 BY ONLY <1>21, <2>2
  <2> QED BY ONLY <1>2, <2>1, <2>3, <2>4 DEF Gives
<1> HIDE DEF v
<1>24. Read(m, e[c], script).got["shopid"] = v
  BY ONLY fields \in Seq(Field), <1>19, <1>22, <1>23, ScriptMember
<1>25. Read(m, e[c], script).pos = e[c + 3]
  <2>1. Read(m, e[c], script).pos = e[c + Len(q)] BY ONLY fields \in Seq(Field), <1>19, <1>22, PartScripted
  <2> QED BY <1>2, <2>1
<1> DEFINE d == c + 3
           L == 1
           w == 21
<1>26. PartAt(fields, d, FlattenSeq(PricesSent)) BY <1>3, <1>19
<1>27. Parted(PricesSent, w, L) /\ WideAll(one, PricesSent, w, L) BY <1>3
<1>28. d + w * L = c + 24 BY <1>8
<1>29. \A k \in 1..w : Gives(one, PricesSent[k], "price", <<"price", k>>) BY <1>3
<1> HIDE DEF d, L, w
<1>30. ReadMany(m, e[d], w, one).pos = e[d + w * L]
  BY ONLY fields \in Seq(Field), <1>26, <1>27, ListPopped
<1>31. ASSUME NEW k \in 1..w PROVE ReadMany(m, e[d], w, one).got[k]["price"] = <<"price", k>>
  <2> DEFINE x == <<"price", k>>
  <2>1. Gives(one, PricesSent[k], "price", x) BY <1>29
  <2> HIDE DEF x
  <2>2. ReadMany(m, e[d], w, one).got[k]["price"] = x
    <3>1. ElementAt(fields, d, PricesSent, w, L, one, k, "price", x)
      BY ONLY fields \in Seq(Field), <1>26, <1>27, <2>1, k \in 1..w DEF ElementAt
    <3> QED BY ONLY <3>1, ListElement DEF m, e
  <2> QED BY <2>2 DEF x
<1> DEFINE f == c + 24
<1>32. Skip(m, e[f], 1) = m.end
  <2>1. f \in Nat /\ f + 1 = c + 25 BY <1>8
  <2>2. PartAt(fields, f, z) BY <1>19
  <2>3. Len(z) \in Nat /\ Len(z) >= 1 /\ z[1][2] = 1 BY <1>5
  <2> HIDE DEF f
  <2>4. Skip(Message(fields), Ends(fields)[f], z[1][2]) = Ends(fields)[f + 1]
    BY ONLY fields \in Seq(Field), <2>2, <2>3, PartFirst
  <2> QED BY <1>19, <2>1, <2>3, <2>4
<1>33. ReadMany(m, e[d], w, one).pos = e[f] BY <1>28, <1>30
<1>34. AOPlayerShopContent(m, type)
         = [pos |-> Skip(m, ReadMany(m, e[d], w, one).pos, 1), items |-> ContainerItems(m, type).got,
            shopid |-> Read(m, e[c], script).got["shopid"], prices |-> ReadMany(m, e[d], w, one).got]
  <2> HIDE DEF m, e
  <2>1. w = PriceCount BY DEF w, PriceCount
  <2> QED BY <1>20, <1>25, <2>1 DEF AOPlayerShopContent, script, one, d, a1, a2, a3
<1> HIDE DEF m, e, f
<1>35. /\ ItemsRead(AOPlayerShopContent(m, type).items, n) /\ AOPlayerShopContent(m, type).shopid = <<"shopid", 0>>
       /\ AOPlayerShopContent(m, type).pos = m.end
  BY <1>20, <1>24, <1>32, <1>33, <1>34 DEF v
<1>36. \A k \in 1..PriceCount : AOPlayerShopContent(m, type).prices[k]["price"] = <<"price", k>>
  <2>1. w = PriceCount BY DEF w, PriceCount
  <2> QED BY <1>31, <1>34, <2>1
<1> QED BY <1>35, <1>36 DEF m

\* The fields of a text.
LEMMA TextFields ==
    ASSUME NEW name
    PROVE  /\ Listed(SentText(name)) /\ Len(SentText(name)) = 2
           /\ SentText(name)[1] = <<Member(name, "len"), 1, 3>> /\ SentText(name)[2] = <<name, 4, 0>>
<1> DEFINE x1 == <<Member(name, "len"), 1, 3>>
           x2 == <<name, 4, 0>>
<1>1. SentText(name) = <<x1, x2>> BY DEF SentText, Fk, F
<1> HIDE DEF x1, x2
<1>2. Listed(SentText(name)) /\ Len(SentText(name)) = 2 /\ SentText(name)[1] = x1 /\ SentText(name)[2] = x2
  BY <1>1, ListedTwo
<1> QED BY <1>2 DEF x1, x2

\* popString has the text, and stands behind its last byte.
LEMMA TextPopped ==
    ASSUME NEW fields \in Seq(Field), NEW b, NEW name, PartAt(fields, b, SentText(name))
    PROVE  PopString(Message(fields), Ends(fields)[b]) = [pos |-> Ends(fields)[b + 2], got |-> <<name, 0>>]
<1> DEFINE s == SentText(name)
           m == Message(fields)
           e == Ends(fields)
           f == s[1]
           g == s[2]
           c == b + 1
<1>1. /\ Listed(s) /\ Len(s) = 2 /\ f = <<Member(name, "len"), 1, 3>> /\ g = <<name, 4, 0>> BY TextFields
<1>2. PartAt(fields, b, s) OBVIOUS
<1>3. f[2] = 1 /\ f[3] = 3 /\ g[2] = 4 /\ <<g[1], g[3]>> = <<name, 0>> BY <1>1
<1> HIDE DEF s
<1>4. Len(s) \in Nat /\ Len(s) >= 1 BY <1>1
<1>5. /\ b \in Nat /\ e[b] \in Nat /\ e[b + 1] = e[b] + f[2] /\ ReadAt(m, e[b], f[2]) = <<f[1], f[3]>>
  BY ONLY fields \in Seq(Field), <1>2, <1>4, PartFirst
<1>6. c \in Nat /\ c + 1 <= Len(fields) /\ g = fields[c + 1]
  <2>1. b \in Nat /\ b + 2 <= Len(fields) /\ \A j \in 1..2 : fields[b + j] = s[j] BY <1>1, <1>2 DEF PartAt
  <2> DEFINE j == 2
  <2>2. j \in 1..2 OBVIOUS
  <2> HIDE DEF j
  <2>3. fields[b + j] = s[j] BY ONLY <2>1, <2>2
  <2>4. fields[b + 2] = s[2] BY <2>3 DEF j
  <2>5. c + 1 = b + 2 BY <2>1
  <2> QED BY <2>1, <2>4, <2>5
<1>7. c + 1 = b + 2 BY <1>5
<1> HIDE DEF f, g, c
<1>8. /\ e[c + 1] = e[c] + g[2] /\ ReadAt(m, e[c], g[2]) = <<g[1], g[3]>>
  BY ONLY fields \in Seq(Field), <1>6, OneField
<1>9. e[c] = e[b] + 1 BY <1>3, <1>5 DEF c
<1>10. e[b + 2] = e[b] + 5 BY <1>3, <1>5, <1>7, <1>8, <1>9
<1>11. ReadAt(m, e[b], 1)[2] = 3 BY <1>3, <1>5
<1>12. ReadAt(m, e[b] + 1, 4) = <<name, 0>> BY <1>3, <1>8, <1>9
<1> DEFINE p == e[b]
<1>13. p \in Nat BY <1>5
<1>14. PopString(m, p) = [pos |-> p + 5, got |-> ReadAt(m, p + 1, 4)]
  <2>1. ReadAt(m, p, 1)[2] = 3 BY <1>11
  <2> HIDE DEF p, m
  <2>2. PopString(m, p) = [pos |-> p + 1 + 3 + 1, got |-> ReadAt(m, p + 1, 3 + 1)] BY <2>1 DEF PopString
  <2>3. p + 1 + 3 + 1 = p + 5 /\ 3 + 1 = 4 BY <1>13
  <2> QED BY <2>2, <2>3
<1> QED BY <1>10, <1>12, <1>14

\* What stands between the texts of a shop.
ShopOwner == << F("unknown", 19), F("ownerid", 4), F("pad", 1) >>
\* Bytes that nobody reads.
ShopUnknown(width) == << F("unknown", width) >>

\* The fields around the owner of a shop.
LEMMA OwnerFields ==
    /\ Listed(ShopOwner) /\ Len(ShopOwner) = 3
    /\ ShopOwner[1] = <<"unknown", 19, 0>> /\ ShopOwner[2] = <<"ownerid", 4, 0>> /\ ShopOwner[3] = <<"pad", 1, 0>>
<1> DEFINE x1 == <<"unknown", 19, 0>>
           x2 == <<"ownerid", 4, 0>>
           x3 == <<"pad", 1, 0>>
<1>1. ShopOwner = <<x1, x2, x3>> BY DEF ShopOwner, F
<1> HIDE DEF x1, x2, x3
<1>2. Listed(ShopOwner) /\ Len(ShopOwner) = 3 /\ ShopOwner[1] = x1 /\ ShopOwner[2] = x2 /\ ShopOwner[3] = x3
  BY <1>1, ListedThree
<1> QED BY <1>2 DEF x1, x2, x3

\* They are one field.
LEMMA UnknownField ==
    ASSUME NEW width
    PROVE  /\ Listed(ShopUnknown(width)) /\ Len(ShopUnknown(width)) = 1
           /\ ShopUnknown(width)[1] = <<"unknown", width, 0>>
<1> DEFINE x == <<"unknown", width, 0>>
<1>1. ShopUnknown(width) = <<x>> BY DEF ShopUnknown, F
<1> HIDE DEF x
<1>2. Listed(ShopUnknown(width)) /\ Len(ShopUnknown(width)) = 1 /\ ShopUnknown(width)[1] = x BY <1>1, ListedOne
<1> QED BY <1>2 DEF x

\* An unknown field is skipped.
LEMMA UnknownSkipped ==
    ASSUME NEW fields \in Seq(Field), NEW b, NEW width, PartAt(fields, b, ShopUnknown(width))
    PROVE  Skip(Message(fields), Ends(fields)[b], width) = Ends(fields)[b + 1]
<1> DEFINE s == ShopUnknown(width)
<1>1. Listed(s) /\ Len(s) = 1 /\ s[1][2] = width
  <2>1. Listed(s) /\ Len(s) = 1 /\ s[1] = <<"unknown", width, 0>> BY UnknownField
  <2> HIDE DEF s
  <2> QED BY <2>1
<1>2. PartAt(fields, b, s) OBVIOUS
<1> HIDE DEF s
<1>3. Len(s) \in Nat /\ Len(s) >= 1 BY <1>1
<1>4. Skip(Message(fields), Ends(fields)[b], s[1][2]) = Ends(fields)[b + 1]
  BY ONLY fields \in Seq(Field), <1>2, <1>3, PartFirst
<1> QED BY <1>1, <1>4

\* The texts and the owner of a shop, read by the cursor to the last byte.
LEMMA ShopInfoRead ==
    ASSUME NEW fields \in Seq(Field), NEW type \in ServerTypes, type # "D",
           fields = SentHeader("server", type)
                      \o (ShopUnknown(126) \o SentText("label") \o ShopOwner
                            \o SentText("ownerName") \o ShopUnknown(4) \o SentText("guildName")),
           IsPrefix(SentHeader("server", type), fields)
    PROVE  LET parsed == AOPlayerShopInfo(Message(fields), type)
           IN /\ parsed.ownerid = <<"ownerid", 0>> /\ parsed.guildName = <<"guildName", 0>>
              /\ parsed.pos = Message(fields).end
<1> DEFINE m == Message(fields)
           e == Ends(fields)
           u == ShopUnknown(126)
           l == SentText("label")
           w == ShopOwner
           o == SentText("ownerName")
           d == ShopUnknown(4)
           g == SentText("guildName")
           s2 == u \o l
           s3 == s2 \o w
           s4 == s3 \o o
           s5 == s4 \o d
           s6 == s5 \o g
           a1 == <<"skip", 19>>
           a2 == Pop(4, "ownerid")
           a3 == <<"skip", 1>>
           script == <<a1, a2, a3>>
           v == <<"ownerid", 0>>
<1>0. Len(fields) \in Nat OBVIOUS
<1>1. /\ Listed(u) /\ Len(u) = 1 /\ Listed(l) /\ Len(l) = 2 /\ Listed(w) /\ Len(w) = 3
      /\ Listed(o) /\ Len(o) = 2 /\ Listed(d) /\ Len(d) = 1 /\ Listed(g) /\ Len(g) = 2
  BY UnknownField, TextFields, OwnerFields
<1>2. /\ Listed(script) /\ Len(script) = 3
      /\ script[1] = <<"skip", 19>> /\ script[2] = <<"pop", 4, "ownerid">> /\ script[3] = <<"skip", 1>>
  <2>1. a1 = <<"skip", 19>> /\ a2 = <<"pop", 4, "ownerid">> /\ a3 = <<"skip", 1>> BY DEF Pop
  <2>2. script = <<a1, a2, a3>> OBVIOUS
  <2> HIDE DEF a1, a2, a3, script
  <2>3. Listed(script) /\ Len(script) = 3 /\ script[1] = a1 /\ script[2] = a2 /\ script[3] = a3 BY <2>2, ListedThree
  <2> QED BY <2>1, <2>3
<1>3. fields = SentHeader("server", type) \o s6 OBVIOUS
<1>4. w[1] = <<"unknown", 19, 0>> /\ w[2] = <<"ownerid", 4, 0>> /\ w[3] = <<"pad", 1, 0>> BY OwnerFields
<1>5. /\ PartAt(fields, 9, u) => Skip(m, e[9], 126) = e[10]
      /\ PartAt(fields, 17, d) => Skip(m, e[17], 4) = e[18]
  <2> HIDE DEF m, e
  <2>1. PartAt(fields, 9, u) => Skip(Message(fields), Ends(fields)[9], 126) = Ends(fields)[9 + 1] BY UnknownSkipped
  <2>2. PartAt(fields, 17, d) => Skip(Message(fields), Ends(fields)[17], 4) = Ends(fields)[17 + 1] BY UnknownSkipped
  <2> QED BY <2>1, <2>2 DEF m, e
<1>6. /\ PartAt(fields, 10, l) => PopString(m, e[10]) = [pos |-> e[12], got |-> <<"label", 0>>]
      /\ PartAt(fields, 15, o) => PopString(m, e[15]) = [pos |-> e[17], got |-> <<"ownerName", 0>>]
      /\ PartAt(fields, 18, g) => PopString(m, e[18]) = [pos |-> e[20], got |-> <<"guildName", 0>>]
  <2> HIDE DEF m, e
  <2>1. ASSUME NEW b, NEW name, PartAt(fields, b, SentText(name))
        PROVE  PopString(m, e[b]) = [pos |-> e[b + 2], got |-> <<name, 0>>]
    BY ONLY fields \in Seq(Field), <2>1, TextPopped DEF m, e
  <2>2. PartAt(fields, 10, l) => PopString(m, e[10]) = [pos |-> e[10 + 2], got |-> <<"label", 0>>] BY ONLY <2>1 DEF l
  <2>3. PartAt(fields, 15, o) => PopString(m, e[15]) = [pos |-> e[15 + 2], got |-> <<"ownerName", 0>>] BY ONLY <2>1 DEF o
  <2>4. PartAt(fields, 18, g) => PopString(m, e[18]) = [pos |-> e[18 + 2], got |-> <<"guildName", 0>>] BY ONLY <2>1 DEF g
  <2> QED BY <2>2, <2>3, <2>4
<1> HIDE DEF u, l, w, o, d, g, script, s2, s3, s4, s5, s6
<1>7. Listed(s2) /\ Len(s2) = 3
  <2>1. Listed(s2) /\ Len(s2) = Len(u) + Len(l) BY ONLY <1>1, ListedJoined DEF s2
  <2> QED BY <1>1, <2>1
<1>8. Listed(s3) /\ Len(s3) = 6
  <2>1. Listed(s3) /\ Len(s3) = Len(s2) + Len(w) BY ONLY <1>1, <1>7, ListedJoined DEF s3
  <2> QED BY <1>1, <1>7, <2>1
<1>9. Listed(s4) /\ Len(s4) = 8
  <2>1. Listed(s4) /\ Len(s4) = Len(s3) + Len(o) BY ONLY <1>1, <1>8, ListedJoined DEF s4
  <2> QED BY <1>1, <1>8, <2>1
<1>10. Listed(s5) /\ Len(s5) = 9
  <2>1. Listed(s5) /\ Len(s5) = Len(s4) + Len(d) BY ONLY <1>1, <1>9, ListedJoined DEF s5
  <2> QED BY <1>1, <1>9, <2>1
<1>11. Listed(s6) /\ Len(s6) = 11
  <2>1. Listed(s6) /\ Len(s6) = Len(s5) + Len(g) BY ONLY <1>1, <1>10, ListedJoined DEF s6
  <2> QED BY <1>1, <1>10, <2>1
<1>12. PartAt(fields, 9, s6) /\ AOMessageBase(m, type).pos = e[9] /\ m.end = e[20]
  <2>1. PartAt(fields, 9, s6) /\ AOMessageBase(m, type).pos = e[9] /\ m.end = e[9 + Len(s6)]
    BY ONLY <1>3, <1>11, fields \in Seq(Field), type \in ServerTypes, type # "D",
            IsPrefix(SentHeader("server", type), fields), ServerPart
  <2>2. 9 + Len(s6) = 20 BY <1>11
  <2> QED BY <2>1, <2>2
<1>13. PartAt(fields, 9, s5) /\ PartAt(fields, 18, g)
  <2>1. PartAt(fields, 9, s5) /\ PartAt(fields, 9 + Len(s5), g)
    BY ONLY <1>0, <1>1, <1>10, <1>12, PartJoined DEF s6
  <2> QED BY <1>10, <2>1
<1>14. PartAt(fields, 9, s4) /\ PartAt(fields, 17, d)
  <2>1. PartAt(fields, 9, s4) /\ PartAt(fields, 9 + Len(s4), d)
    BY ONLY <1>0, <1>1, <1>9, <1>13, PartJoined DEF s5
  <2> QED BY <1>9, <2>1
<1>15. PartAt(fields, 9, s3) /\ PartAt(fields, 15, o)
  <2>1. PartAt(fields, 9, s3) /\ PartAt(fields, 9 + Len(s3), o)
    BY ONLY <1>0, <1>1, <1>8, <1>14, PartJoined DEF s4
  <2> QED BY <1>8, <2>1
<1>16. PartAt(fields, 9, s2) /\ PartAt(fields, 12, w)
  <2>1. PartAt(fields, 9, s2) /\ PartAt(fields, 9 + Len(s2), w)
    BY ONLY <1>0, <1>1, <1>7, <1>15, PartJoined DEF s3
  <2> QED BY <1>7, <2>1
<1>17. PartAt(fields, 9, u) /\ PartAt(fields, 10, l)
  <2>1. PartAt(fields, 9, u) /\ PartAt(fields, 9 + Len(u), l)
    BY ONLY <1>0, <1>1, <1>16, PartJoined DEF s2
  <2> QED BY <1>1, <2>1
<1> HIDE DEF a1, a2, a3
<1>18. \A j \in 1..3 : j = 1 \/ j = 2 \/ j = 3 OBVIOUS
<1>19. Wide(script, w)
  <2>1. script[1][2] = w[1][2] /\ script[2][2] = w[2][2] /\ script[3][2] = w[3][2] BY <1>2, <1>4
  <2> QED BY <1>1, <1>2, <1>18, <2>1 DEF Wide
<1>20. Gives(script, w, "ownerid", v)
  <2>1. <<w[2][1], w[2][3]>> = v BY <1>4
  <2> HIDE DEF v
  <2>2. script[1][1] = "skip" /\ script[2][1] = "pop" /\ script[2][3] = "ownerid" /\ script[3][1] = "skip" BY <1>2
  <2>3. \E i \in 1..3 : script[i][1] # "skip" /\ script[i][3] = "ownerid" BY ONLY <2>2
  <2>4. \A i \in 1..3 : script[i][1] # "skip" /\ script[i][3] = "ownerid" => i = 2 BY ONLY <1>18, <2>2
  <2> QED BY ONLY <1>1, <2>1, <2>3, <2>4 DEF Gives
<1> HIDE DEF v
<1>21. Read(m, e[12], script).got["ownerid"] = v
  BY ONLY fields \in Seq(Field), <1>16, <1>19, <1>20, ScriptMember
<1>22. Read(m, e[12], script).pos = e[15]
  <2>1. Read(m, e[12], script).pos = e[12 + Len(w)] BY ONLY fields \in Seq(Field), <1>16, <1>19, PartScripted
  <2> QED BY <1>1, <2>1
<1> HIDE DEF m, e
<1>23. /\ Skip(m, e[9], 126) = e[10] /\ Skip(m, e[17], 4) = e[18]
       /\ PopString(m, e[10]) = [pos |-> e[12], got |-> <<"label", 0>>]
       /\ PopString(m, e[15]) = [pos |-> e[17], got |-> <<"ownerName", 0>>]
       /\ PopString(m, e[18]) = [pos |-> e[20], got |-> <<"guildName", 0>>]
  BY <1>5, <1>6, <1>13, <1>14, <1>15, <1>17
<1> DEFINE p1 == PopString(m, e[10])
           p2 == PopString(m, e[15])
           p3 == PopString(m, e[18])
           r == Read(m, e[12], script)
<1>24. /\ p1.pos = e[12] /\ p2.pos = e[17] /\ p3.pos = e[20] /\ p3.got = <<"guildName", 0>> BY <1>23
<1>25. AOPlayerShopInfo(m, type)
         = [pos |-> p3.pos, label |-> p1.got, ownerid |-> r.got["ownerid"], ownerName |-> p2.got, guildName |-> p3.got]
  <2> DEFINE label == PopString(m, Skip(m, AOMessageBase(m, type).pos, 126))
             owner == Read(m, label.pos, script)
             ownerName == PopString(m, owner.pos)
             guild == PopString(m, Skip(m, ownerName.pos, 4))
  <2>1. AOPlayerShopInfo(m, type)
          = [pos |-> guild.pos, label |-> label.got, ownerid |-> owner.got["ownerid"], ownerName |-> ownerName.got,
             guildName |-> guild.got]
    BY DEF AOPlayerShopInfo, script, a1, a2, a3
  <2>2. label = p1 BY <1>12, <1>23
  <2>3. owner = r BY <1>24, <2>2
  <2>4. ownerName = p2 BY <1>22, <2>3
  <2>5. guild = p3 BY <1>23, <1>24, <2>4
  <2> HIDE DEF label, owner, ownerName, guild, p1, p2, p3, r
  <2> QED BY ONLY <2>1, <2>2, <2>3, <2>4, <2>5
<1> HIDE DEF p1, p2, p3
<1>26. /\ AOPlayerShopInfo(m, type).ownerid = <<"ownerid", 0>> /\ AOPlayerShopInfo(m, type).guildName = <<"guildName", 0>>
       /\ AOPlayerShopInfo(m, type).pos = m.end
  BY <1>12, <1>21, <1>24, <1>25 DEF v
<1> QED BY <1>26 DEF m

\* What an answer of the game to a trade begins with.
RejectHead(n) == << F("pad", 1), F("operationId", 2) >> \o Pair("npcID") \o << Fk("itemCount", 4, n) >>

\* Its widths, and its last field.
LEMMA RejectHeadFields ==
    ASSUME NEW n
    PROVE  /\ Listed(RejectHead(n)) /\ Len(RejectHead(n)) = 5
           /\ RejectHead(n)[1][2] = 1 /\ RejectHead(n)[2][2] = 2 /\ RejectHead(n)[3][2] = 4
           /\ RejectHead(n)[4][2] = 4 /\ RejectHead(n)[5] = <<"itemCount", 4, n>>
<1> DEFINE x1 == <<"pad", 1, 0>>
           x2 == <<"operationId", 2, 0>>
           y1 == <<Member("npcID", "low"), 4, 0>>
           y2 == <<Member("npcID", "high"), 4, 0>>
           z1 == <<"itemCount", 4, n>>
           a == <<x1, x2>>
           p == <<y1, y2>>
           c == <<z1>>
           s == a \o p
           h == s \o c
<1>1. RejectHead(n) = h BY DEF RejectHead, F, Fk, Pair
<1>2. x1[2] = 1 /\ x2[2] = 2 /\ y1[2] = 4 /\ y2[2] = 4 OBVIOUS
<1> HIDE DEF x1, x2, y1, y2, z1
<1>3. Listed(a) /\ Len(a) = 2 /\ a[1] = x1 /\ a[2] = x2 BY ListedTwo
<1>4. Listed(p) /\ Len(p) = 2 /\ p[1] = y1 /\ p[2] = y2 BY ListedTwo
<1>5. Listed(c) /\ Len(c) = 1 /\ c[1] = z1 BY ListedOne
<1> HIDE DEF a, p, c
<1>6. /\ Listed(s) /\ Len(s) = Len(a) + Len(p)
      /\ \A j \in 1..Len(a) : s[j] = a[j] /\ \A i \in 1..Len(p) : s[Len(a) + i] = p[i]
  <2>1. Listed(a) /\ Listed(p) BY ONLY <1>3, <1>4
  <2> QED BY ONLY <2>1, ListedJoined DEF s
<1>7. Len(s) = 4 /\ s[1] = x1 /\ s[2] = x2 /\ s[2 + 1] = y1 /\ s[2 + 2] = y2
  BY ONLY <1>3, <1>4, <1>6
<1> HIDE DEF s
<1>8. /\ Listed(h) /\ Len(h) = Len(s) + Len(c)
      /\ \A j \in 1..Len(s) : h[j] = s[j] /\ \A i \in 1..Len(c) : h[Len(s) + i] = c[i]
  <2>1. Listed(s) /\ Listed(c) BY <1>5, <1>6
  <2> QED BY ONLY <2>1, ListedJoined DEF h
<1> HIDE DEF h
<1>9. Len(h) = 5 /\ h[1] = x1 /\ h[2] = x2 /\ h[3] = y1 /\ h[4] = y2 /\ h[4 + 1] = z1
  BY ONLY <1>5, <1>7, <1>8
<1>10. h[5] = z1 BY <1>9
<1> QED BY <1>1, <1>2, <1>8, <1>9, <1>10 DEF z1

\* The rejected items that are sent.
RejectsSent(n) == [k \in 1..n |-> SentRejected(k)]

\* The rejected items are a list of four fields each, of which the struct shows the id.
LEMMA RejectsParted ==
    ASSUME NEW n \in Nat
    PROVE  /\ Parted(RejectsSent(n), n, 4) /\ Times(n, SentRejected) = FlattenSeq(RejectsSent(n))
           /\ WideAll(NPCTradeRejectedItem, RejectsSent(n), n, 4)
           /\ \A k \in 1..n : Shows(NPCTradeRejectedItem, RejectsSent(n)[k], "itemid.high", <<"itemid.high", k>>)
<1> DEFINE s == NPCTradeRejectedItem
           seqs == RejectsSent(n)
<1>1. Times(n, SentRejected) = FlattenSeq(seqs) BY DEF Times, RejectsSent
<1>2. seqs = [k \in 1..n |-> seqs[k]] BY DEF RejectsSent
<1>3. ASSUME NEW k \in 1..n
      PROVE  /\ Listed(seqs[k]) /\ Len(seqs[k]) = 4
             /\ seqs[k][1] = <<"itemid.low", 4, k>> /\ seqs[k][2] = <<"itemid.high", 4, k>>
             /\ seqs[k][3] = <<"ql", 4, k>> /\ seqs[k][4] = <<"unknown1", 4, k>>
  <2>1. seqs[k] = SentRejected(k) BY DEF RejectsSent
  <2> HIDE DEF seqs
  <2> QED BY <2>1, RejectedFields
<1> HIDE DEF seqs
<1>4. Parted(seqs, n, 4)
  <2> DEFINE L == 4
  <2>1. \A k \in 1..n : Listed(seqs[k]) /\ Len(seqs[k]) = L BY <1>3
  <2>2. L \in Nat OBVIOUS
  <2> HIDE DEF L
  <2>3. Parted(seqs, n, L) BY ONLY n \in Nat, <1>2, <2>1, <2>2, ListParted
  <2> QED BY <2>3 DEF L
<1>5. /\ Listed(s) /\ Len(s) = 4
      /\ s[1] = <<"itemid.low", 4>> /\ s[2] = <<"itemid.high", 4>> /\ s[3] = <<"ql", 4>> /\ s[4] = <<"unknown1", 4>>
  <2>1. s = << <<"itemid.low", 4>>, <<"itemid.high", 4>>, <<"ql", 4>>, <<"unknown1", 4>> >> BY DEF NPCTradeRejectedItem
  <2>2. s \in Seq({<<"itemid.low", 4>>, <<"itemid.high", 4>>, <<"ql", 4>>, <<"unknown1", 4>>}) BY <2>1
  <2>3. Listed(s) BY <2>2 DEF Listed
  <2> QED BY <2>3, RejectedMembers
<1> HIDE DEF s
<1>6. \A j \in 1..4 : j = 1 \/ j = 2 \/ j = 3 \/ j = 4 OBVIOUS
<1>7. ASSUME NEW k \in 1..n PROVE Wide(s, seqs[k]) /\ Shows(s, seqs[k], "itemid.high", <<"itemid.high", k>>)
  <2> DEFINE part == seqs[k]
             v == <<"itemid.high", k>>
  <2>1. /\ Listed(part) /\ Len(part) = 4 /\ part[1][2] = 4 /\ part[2][2] = 4 /\ part[3][2] = 4 /\ part[4][2] = 4
        /\ <<part[2][1], part[2][3]>> = v
    BY <1>3
  <2>2. /\ s[1][1] = "itemid.low" /\ s[2][1] = "itemid.high" /\ s[3][1] = "ql" /\ s[4][1] = "unknown1"
        /\ s[1][2] = 4 /\ s[2][2] = 4 /\ s[3][2] = 4 /\ s[4][2] = 4
    BY <1>5
  <2> HIDE DEF part, v
  <2>3. Wide(s, part) BY <1>5, <1>6, <2>1, <2>2 DEF Wide
  <2>4. \E i \in 1..4 : s[i][1] = "itemid.high" BY <2>2
  <2>5. \A i \in 1..4 : s[i][1] = "itemid.high" => i = 2 BY ONLY <1>6, <2>2
  <2>6. Shows(s, part, "itemid.high", v) BY ONLY <2>1, <2>4, <2>5 DEF Shows
  <2> QED BY <2>3, <2>6 DEF part, v
<1>8. WideAll(s, seqs, n, 4) BY <1>5, <1>7 DEF WideAll
<1> QED BY <1>1, <1>4, <1>7, <1>8 DEF s, seqs

\* All of them are shown by the struct.
LEMMA RejectedRead ==
    ASSUME NEW fields \in Seq(Field), NEW type \in ServerTypes, type # "D", NEW n \in Nat,
           fields = SentHeader("server", type) \o (RejectHead(n) \o Times(n, SentRejected) \o << F("zero", 4) >>),
           IsPrefix(SentHeader("server", type), fields)
    PROVE  /\ Len(RejectedItems(Message(fields))) = n
           /\ \A k \in 1..n : RejectedItems(Message(fields))[k]["itemid.high"] = <<"itemid.high", k>>
<1> DEFINE m == Message(fields)
           e == Ends(fields)
           h == RejectHead(n)
           r == Times(n, SentRejected)
           z == << F("zero", 4) >>
           t == << <<"pad", 1>>, <<"operationId", 2>>, <<"npcID.low", 4>>, <<"npcID.high", 4>>, <<"itemCount", 4>> >>
           v == <<"itemCount", n>>
           seqs == RejectsSent(n)
           a == NPCTradeRejectedItem
           L == 4
<1>0. Len(fields) \in Nat OBVIOUS
<1>1. /\ Listed(h) /\ Len(h) = 5 /\ h[1][2] = 1 /\ h[2][2] = 2 /\ h[3][2] = 4 /\ h[4][2] = 4
      /\ h[5] = <<"itemCount", 4, n>>
  BY RejectHeadFields
<1>2. /\ Parted(seqs, n, L) /\ r = FlattenSeq(seqs) /\ WideAll(a, seqs, n, L)
      /\ \A k \in 1..n : Shows(a, seqs[k], "itemid.high", <<"itemid.high", k>>)
  BY RejectsParted
<1>3. /\ t[1] = <<"pad", 1>> /\ t[2] = <<"operationId", 2>> /\ t[3] = <<"npcID.low", 4>> /\ t[4] = <<"npcID.high", 4>>
      /\ t[5] = <<"itemCount", 4>> /\ Len(t) = 5 /\ t \in Seq({t[1], t[2], t[3], t[4], t[5]})
  OBVIOUS
<1>4. NPCTradeAcceptBase = Header \o t BY DEF NPCTradeAcceptBase
<1>5. Listed(z) BY ListedOne
<1> DEFINE wide == \A j \in 1..L : a[j][2] \in Nat \ {0}
<1>50. wide
  <2>1. \A j \in 1..4 : j = 1 \/ j = 2 \/ j = 3 \/ j = 4 OBVIOUS
  <2> HIDE DEF a
  <2>2. a[1][2] = 4 /\ a[2][2] = 4 /\ a[3][2] = 4 /\ a[4][2] = 4 BY RejectedMembers DEF a
  <2> QED BY <2>1, <2>2
<1>6. fields = SentHeader("server", type) \o (h \o r \o z) OBVIOUS
<1>7. \A j \in 1..5 : j = 1 \/ j = 2 \/ j = 3 \/ j = 4 \/ j = 5 OBVIOUS
<1>8. \A i \in 1..8 : Header[i][1] # "itemCount"
  <2>1. \A i \in 1..8 : i = 1 \/ i = 2 \/ i = 3 \/ i = 4 \/ i = 5 \/ i = 6 \/ i = 7 \/ i = 8 OBVIOUS
  <2> QED BY <2>1, HeaderListed
<1> HIDE DEF h, r, z, t, seqs, a, L
<1>9. Listed(r) BY <1>2, PartsListed
<1>10. Listed(h \o r) BY ONLY <1>1, <1>9, ListedJoined
<1>11. Listed((h \o r) \o z) BY ONLY <1>5, <1>10, ListedJoined
<1>12. PartAt(fields, 9, (h \o r) \o z) /\ e[9] = 28
  BY ONLY <1>6, <1>11, fields \in Seq(Field), type \in ServerTypes, type # "D",
          IsPrefix(SentHeader("server", type), fields), ServerPart
<1>13. PartAt(fields, 9, h \o r) BY ONLY <1>0, <1>5, <1>10, <1>12, PartJoined
<1>14. PartAt(fields, 9, h) /\ PartAt(fields, 14, FlattenSeq(seqs))
  <2>1. PartAt(fields, 9, h) /\ PartAt(fields, 9 + Len(h), r) BY ONLY <1>0, <1>1, <1>9, <1>13, PartJoined
  <2>2. 9 + Len(h) = 14 BY <1>1
  <2>3. r = FlattenSeq(seqs) BY <1>2
  <2> QED BY ONLY <2>1, <2>2, <2>3
<1>15. Wide(t, h)
  <2>1. Listed(t) BY <1>3 DEF Listed
  <2>2. /\ t[1][2] = h[1][2] /\ t[2][2] = h[2][2] /\ t[3][2] = h[3][2] /\ t[4][2] = h[4][2] /\ t[5][2] = h[5][2]
    BY <1>1, <1>3
  <2> QED BY <1>1, <1>3, <1>7, <2>1, <2>2 DEF Wide
<1>16. Shows(t, h, "itemCount", v)
  <2>1. \E i \in 1..5 : t[i][1] = "itemCount" BY <1>3
  <2>2. \A i \in 1..5 : t[i][1] = "itemCount" => i = 5 BY <1>3, <1>7
  <2>3. <<h[5][1], h[5][3]>> = v BY <1>1
  <2> HIDE DEF v
  <2> QED BY ONLY <1>1, <2>1, <2>2, <2>3 DEF Shows
<1>17. Overlay(m, 0, Header \o t)["itemCount"] = v
  <2> HIDE DEF v
  <2> QED BY ONLY fields \in Seq(Field), <1>8, <1>12, <1>14, <1>15, <1>16, HeaderNamed
<1>18. Size(Header \o t) = e[14]
  <2>1. Size(Header \o t) = Ends(fields)[9 + Len(h)]
    BY ONLY fields \in Seq(Field), <1>12, <1>14, <1>15, HeaderLaid
  <2> QED BY <1>1, <2>1
<1>19. ASSUME NEW k \in 1..n PROVE Overlay(m, e[14] + Size(a) * (k - 1), a)["itemid.high"] = <<"itemid.high", k>>
  <2> DEFINE x == <<"itemid.high", k>>
  <2>1. Shows(a, seqs[k], "itemid.high", x) BY <1>2
  <2> HIDE DEF x
  <2> DEFINE b == 14
             y == "itemid.high"
  <2>2. Parted(seqs, n, L) /\ WideAll(a, seqs, n, L) /\ wide /\ PartAt(fields, b, FlattenSeq(seqs)) BY <1>2, <1>14, <1>50
  <2>3. Shows(a, seqs[k], y, x) BY <2>1
  <2> HIDE DEF b, y
  <2>5. ListedOver(fields, b, n, a) BY ONLY fields \in Seq(Field), <2>2, ListOver
  <2>4. Overlay(m, e[b] + Size(a) * (k - 1), a)[y] = x
    BY ONLY fields \in Seq(Field), k \in 1..n, <2>2, <2>3, <2>5, ListShown
  <2> QED BY <2>4 DEF x, b, y
<1>20. RejectedItems(m) = [i \in 1..n |-> Overlay(m, e[14] + Size(a) * (i - 1), a)]
  <2> HIDE DEF m, e
  <2>1. Overlay(m, 0, NPCTradeAcceptBase)["itemCount"][2] = n BY <1>4, <1>17
  <2>2. Size(NPCTradeAcceptBase) = e[14] BY <1>4, <1>18
  <2> QED BY <2>1, <2>2 DEF RejectedItems, a
<1> HIDE DEF m, e
<1>21. Len(RejectedItems(m)) = n BY <1>20
<1>22. \A k \in 1..n : RejectedItems(m)[k]["itemid.high"] = <<"itemid.high", k>> BY <1>19, <1>20
<1> QED BY <1>21, <1>22 DEF m

\* Every member of a struct but those of the header shows what has its name.
ShownBehind(shown) ==
  \A x \in DOMAIN shown \ {Header[i][1] : i \in DOMAIN Header} : shown[x] = <<x, 0>>

\* A message of one struct, from either side.
LEMMA StructSent ==
    ASSUME NEW fields \in Seq(Field), NEW origin \in {"server", "client"}, NEW type, type # "D",
           NEW struct, NEW body, Behind(struct, body),
           fields = SentHeader(origin, type) \o body, IsPrefix(SentHeader(origin, type), fields)
    PROVE  ShownBehind(Overlay(Message(fields), 0, struct))
<1> DEFINE b == HeaderLength(origin, type)
<1>1. Listed(body) BY DEF Behind
<1>2. PartAt(fields, b, body)
  <2>1. SentAs(fields, origin, type, body) BY <1>1 DEF SentAs
  <2> QED BY ONLY <2>1, BodySent
<1>3. Ends(fields)[b] = 28 BY HeaderEnds
<1> HIDE DEF b
<1>4. ASSUME NEW x \in DOMAIN Overlay(Message(fields), 0, struct) \ {Header[i][1] : i \in DOMAIN Header}
      PROVE  Overlay(Message(fields), 0, struct)[x] = <<x, 0>>
  BY ONLY fields \in Seq(Field), Behind(struct, body), <1>2, <1>3, <1>4, BehindShown
<1> QED BY <1>4 DEF ShownBehind

\* What a handler that lays one struct over a message works with.
StructOf(m, kind) ==
  CASE kind = "characterAction" -> AOCharacterAction(m)
    [] kind = "giveToNpc" -> AOGiveToNPC(m)
    [] kind = "endNpcTrade" -> AOEndNPCTrade(m)
    [] kind = "partnerTrade" -> AOPartnerTradeItem(m)
    [] kind = "transaction" -> AOTradeTransaction(m)
    [] kind = "bought" -> AOBoughtItemFromShop(m)
    [] kind = "backpack" -> AOBackpack(m)
    [] kind = "itemMove" -> AOItemMoved(m)

\* The kinds that are read by one struct.
StructKinds == {"characterAction", "giveToNpc", "endNpcTrade", "partnerTrade", "transaction", "bought", "backpack", "itemMove"}

\* It shows what was sent.
LEMMA StructRead ==
    ASSUME NEW fields \in Seq(Field), NEW origin \in {"server", "client"}, NEW type, type # "D",
           NEW n, NEW kind \in StructKinds,
           fields = SentHeader(origin, type) \o SentBody(kind, n), IsPrefix(SentHeader(origin, type), fields)
    PROVE  /\ Body(Message(fields), type, kind) = [native |-> StructOf(Message(fields), kind)]
           /\ ShownBehind(StructOf(Message(fields), kind))
<1> DEFINE m == Message(fields)
           body == SentBody(kind, n)
<1>0. fields = SentHeader(origin, type) \o body OBVIOUS
<1>1. ASSUME NEW struct, Behind(struct, body) PROVE ShownBehind(Overlay(m, 0, struct))
  <2> HIDE DEF body
  <2> QED BY ONLY <1>0, <1>1, fields \in Seq(Field), origin \in {"server", "client"}, type # "D",
                  IsPrefix(SentHeader(origin, type), fields), StructSent
<1> HIDE DEF m
<1>2. CASE kind = "characterAction"
  <2>1. Behind(CharacterAction, body) BY <1>2, CharacterActionSent
  <2>2. ShownBehind(Overlay(m, 0, CharacterAction)) BY <1>1, <2>1
  <2>3. StructOf(m, kind) = Overlay(m, 0, CharacterAction) BY ONLY <1>2 DEF StructOf, AOCharacterAction
  <2>4. Body(m, type, kind) = [native |-> Overlay(m, 0, CharacterAction)] BY ONLY <1>2 DEF Body, AOCharacterAction
  <2> QED BY ONLY <2>2, <2>3, <2>4 DEF m
<1>3. CASE kind = "giveToNpc"
  <2>1. Behind(GiveToNPC, body) BY <1>3, GiveToNPCSent
  <2>2. ShownBehind(Overlay(m, 0, GiveToNPC)) BY <1>1, <2>1
  <2>3. StructOf(m, kind) = Overlay(m, 0, GiveToNPC) BY ONLY <1>3 DEF StructOf, AOGiveToNPC
  <2>4. Body(m, type, kind) = [native |-> Overlay(m, 0, GiveToNPC)] BY ONLY <1>3 DEF Body, AOGiveToNPC
  <2> QED BY ONLY <2>2, <2>3, <2>4 DEF m
<1>4. CASE kind = "endNpcTrade"
  <2>1. Behind(EndNPCTrade, body) BY <1>4, EndNPCTradeSent
  <2>2. ShownBehind(Overlay(m, 0, EndNPCTrade)) BY <1>1, <2>1
  <2>3. StructOf(m, kind) = Overlay(m, 0, EndNPCTrade) BY ONLY <1>4 DEF StructOf, AOEndNPCTrade
  <2>4. Body(m, type, kind) = [native |-> Overlay(m, 0, EndNPCTrade)] BY ONLY <1>4 DEF Body, AOEndNPCTrade
  <2> QED BY ONLY <2>2, <2>3, <2>4 DEF m
<1>5. CASE kind = "partnerTrade"
  <2>1. Behind(PartnerTradeItem, body) BY <1>5, PartnerTradeItemSent
  <2>2. ShownBehind(Overlay(m, 0, PartnerTradeItem)) BY <1>1, <2>1
  <2>3. StructOf(m, kind) = Overlay(m, 0, PartnerTradeItem) BY ONLY <1>5 DEF StructOf, AOPartnerTradeItem
  <2>4. Body(m, type, kind) = [native |-> Overlay(m, 0, PartnerTradeItem)] BY ONLY <1>5 DEF Body, AOPartnerTradeItem
  <2> QED BY ONLY <2>2, <2>3, <2>4 DEF m
<1>6. CASE kind = "transaction"
  <2>1. Behind(TradeTransaction, body) BY <1>6, TradeTransactionSent
  <2>2. ShownBehind(Overlay(m, 0, TradeTransaction)) BY <1>1, <2>1
  <2>3. StructOf(m, kind) = Overlay(m, 0, TradeTransaction) BY ONLY <1>6 DEF StructOf, AOTradeTransaction
  <2>4. Body(m, type, kind) = [native |-> Overlay(m, 0, TradeTransaction)] BY ONLY <1>6 DEF Body, AOTradeTransaction
  <2> QED BY ONLY <2>2, <2>3, <2>4 DEF m
<1>7. CASE kind = "bought"
  <2>1. Behind(BoughtItemFromShop, body) BY <1>7, BoughtItemFromShopSent
  <2>2. ShownBehind(Overlay(m, 0, BoughtItemFromShop)) BY <1>1, <2>1
  <2>3. StructOf(m, kind) = Overlay(m, 0, BoughtItemFromShop) BY ONLY <1>7 DEF StructOf, AOBoughtItemFromShop
  <2>4. Body(m, type, kind) = [native |-> Overlay(m, 0, BoughtItemFromShop)] BY ONLY <1>7 DEF Body, AOBoughtItemFromShop
  <2> QED BY ONLY <2>2, <2>3, <2>4 DEF m
<1>8. CASE kind = "backpack"
  <2>1. Behind(Backpack, body) BY <1>8, BackpackSent
  <2>2. ShownBehind(Overlay(m, 0, Backpack)) BY <1>1, <2>1
  <2>3. StructOf(m, kind) = Overlay(m, 0, Backpack) BY ONLY <1>8 DEF StructOf, AOBackpack
  <2>4. Body(m, type, kind) = [native |-> Overlay(m, 0, Backpack)] BY ONLY <1>8 DEF Body, AOBackpack
  <2> QED BY ONLY <2>2, <2>3, <2>4 DEF m
<1>9. CASE kind = "itemMove"
  <2>1. Behind(ItemMoved, body) BY <1>9, ItemMovedSent
  <2>2. ShownBehind(Overlay(m, 0, ItemMoved)) BY <1>1, <2>1
  <2>3. StructOf(m, kind) = Overlay(m, 0, ItemMoved) BY ONLY <1>9 DEF StructOf, AOItemMoved
  <2>4. Body(m, type, kind) = [native |-> Overlay(m, 0, ItemMoved)] BY ONLY <1>9 DEF Body, AOItemMoved
  <2> QED BY ONLY <2>2, <2>3, <2>4 DEF m
<1> QED BY <1>2, <1>3, <1>4, <1>5, <1>6, <1>7, <1>8, <1>9 DEF StructKinds

\* What was decoded is what was sent, whatever the kind and however long the lists.
LEMMA TwiceRead ==
    ASSUME DecodedTwice
    PROVE  ContentsRead
<1> SUFFICES ASSUME Known, Input.type # "D" PROVE ContentsRead BY DEF ContentsRead
<1> DEFINE fields == Input.fields
           type == Input.type
           kind == Input.kind
           origin == Input.origin
           n == Input.n.items
           m == Message(fields)
           h == SentHeader(origin, type)
           ready == /\ fields \in Seq(Field) /\ IsPrefix(h, fields) /\ type # "D"
                    /\ fields = h \o SentBody(kind, Input.n)
                    /\ decoded.body = Body(m, type, kind)
<1>1. Input \in Inputs BY DEF DecodedTwice
<1>2. Input = Sent(origin, type, kind, Input.n) /\ kind \in Kinds /\ (origin = "client" => kind \in ClientKinds)
      /\ (kind # "fullSync" => n \in Nat)
  BY <1>1, ContentsAssumption
<1>3. fields = h \o SentBody(kind, Input.n)
  <2>1. Sent(origin, type, kind, Input.n).fields = SentHeader(origin, type) \o SentBody(kind, Input.n) BY DEF Sent
  <2> QED BY <1>2, <2>1
<1>4. ready /\ origin \in {"server", "client"}
  BY <1>1, <1>3, InputsAssumption DEF DecodedTwice
<1>5. origin = "server" => type \in ServerTypes BY DEF DecodedTwice
<1>6. origin = "server" \/ (origin = "client" /\ kind \in ClientKinds) BY <1>2, <1>4
<1> HIDE DEF fields, type, kind, origin, n, m, h
<1>7. CASE kind = "container"
  <2>1. type \in ServerTypes /\ origin = "server" /\ n \in Nat BY <1>2, <1>5, <1>6, <1>7 DEF ClientKinds
  <2>2. SentBody(kind, Input.n)
          = SentContainer(n) \o Pair("containerId") \o << F("tempContainerId", 4), F("nullval", 4) >>
    BY <1>7 DEF SentBody, n
  <2>3. fields = SentHeader("server", type)
                   \o (SentContainer(n) \o Pair("containerId") \o << F("tempContainerId", 4), F("nullval", 4) >>)
        /\ IsPrefix(SentHeader("server", type), fields) /\ fields \in Seq(Field) /\ type # "D"
    BY <1>4, <2>1, <2>2 DEF h
  <2>4. LET native == NativeContainer(Message(fields))  parsed == AOContainer(Message(fields), type)
        IN /\ ItemsRead(native.items, n) /\ ItemsRead(parsed.items, n)
           /\ native.temp = <<"tempContainerId", 0>> /\ parsed.temp = native.temp
           /\ parsed.id = native.id /\ parsed.pos = Message(fields).end
    BY ONLY <2>1, <2>3, ContainerRead
  <2>5. decoded.body = [native |-> NativeContainer(m), parsed |-> AOContainer(m, type)]
    BY <1>4, <1>7 DEF Body
  <2> DEFINE native == NativeContainer(m)
             parsed == AOContainer(m, type)
  <2>6. /\ ItemsRead(native.items, n) /\ ItemsRead(parsed.items, n)
        /\ native.temp = <<"tempContainerId", 0>> /\ parsed.temp = native.temp
        /\ parsed.id = native.id /\ parsed.pos = m.end
    BY <2>4 DEF m
  <2>7. decoded.body.native = native /\ decoded.body.parsed = parsed BY <2>5
  <2> HIDE DEF native, parsed
  <2>8. Message(Input.fields).end = m.end BY DEF m, fields
  <2> QED BY <1>7, <2>6, <2>7, <2>8 DEF ContentsRead, kind, n
<1>8. CASE kind = "bank"
  <2>1. type \in ServerTypes /\ origin = "server" /\ n \in Nat BY <1>2, <1>5, <1>6, <1>8 DEF ClientKinds
  <2>2. SentBody(kind, Input.n) = BankHead(n) \o Times(n, SentItem) BY <1>8 DEF SentBody, n, BankHead
  <2>3. fields = SentHeader("server", type) \o (BankHead(n) \o Times(n, SentItem))
        /\ IsPrefix(SentHeader("server", type), fields) /\ fields \in Seq(Field) /\ type # "D"
    BY <1>4, <2>1, <2>2 DEF h
  <2>4. ItemsRead(NativeBank(Message(fields)), n) BY ONLY <2>1, <2>3, BankRead
  <2>5. decoded.body = [native |-> NativeBank(m)] BY <1>4, <1>8 DEF Body
  <2>6. ItemsRead(decoded.body.native, n) BY <2>4, <2>5 DEF m
  <2> QED BY <1>8, <2>6 DEF ContentsRead, kind, n
<1>9. CASE kind = "shopItems"
  <2>1. type \in ServerTypes /\ origin = "server" /\ n \in Nat BY <1>2, <1>5, <1>6, <1>9 DEF ClientKinds
  <2>2. SentBody(kind, Input.n)
          = SentContainer(n) \o ShopMiddle \o Times(PriceCount, SentPrice) \o << F("pad", 1) >>
    BY <1>9 DEF SentBody, n, ShopMiddle
  <2>3. fields = SentHeader("server", type)
                   \o (SentContainer(n) \o ShopMiddle \o Times(PriceCount, SentPrice) \o << F("pad", 1) >>)
        /\ IsPrefix(SentHeader("server", type), fields) /\ fields \in Seq(Field) /\ type # "D"
    BY <1>4, <2>1, <2>2 DEF h
  <2>4. LET parsed == AOPlayerShopContent(Message(fields), type)
        IN /\ ItemsRead(parsed.items, n) /\ parsed.shopid = <<"shopid", 0>>
           /\ \A k \in 1..PriceCount : parsed.prices[k]["price"] = <<"price", k>>
           /\ parsed.pos = Message(fields).end
    BY ONLY <2>1, <2>3, ShopItemsRead
  <2>5. decoded.body = [parsed |-> AOPlayerShopContent(m, type)] BY <1>4, <1>9 DEF Body
  <2> DEFINE parsed == AOPlayerShopContent(m, type)
  <2>6. /\ ItemsRead(parsed.items, n) /\ parsed.shopid = <<"shopid", 0>>
        /\ \A k \in 1..PriceCount : parsed.prices[k]["price"] = <<"price", k>>
        /\ parsed.pos = m.end
    BY <2>4 DEF m
  <2>7. decoded.body.parsed = parsed BY <2>5
  <2> HIDE DEF parsed
  <2>8. Message(Input.fields).end = m.end BY DEF m, fields
  <2> QED BY <1>9, <2>6, <2>7, <2>8 DEF ContentsRead, kind, n
<1>10. CASE kind = "shopInfo"
  <2>1. type \in ServerTypes /\ origin = "server" BY <1>5, <1>6, <1>10 DEF ClientKinds
  <2>2. SentBody(kind, Input.n)
          = ShopUnknown(126) \o SentText("label") \o ShopOwner
              \o SentText("ownerName") \o ShopUnknown(4) \o SentText("guildName")
    BY <1>10 DEF SentBody, ShopUnknown, ShopOwner
  <2>3. fields = SentHeader("server", type)
                   \o (ShopUnknown(126) \o SentText("label") \o ShopOwner
                         \o SentText("ownerName") \o ShopUnknown(4) \o SentText("guildName"))
        /\ IsPrefix(SentHeader("server", type), fields) /\ fields \in Seq(Field) /\ type # "D"
    BY <1>4, <2>1, <2>2 DEF h
  <2>4. LET parsed == AOPlayerShopInfo(Message(fields), type)
        IN /\ parsed.ownerid = <<"ownerid", 0>> /\ parsed.guildName = <<"guildName", 0>>
           /\ parsed.pos = Message(fields).end
    BY ONLY <2>1, <2>3, ShopInfoRead
  <2>5. decoded.body = [parsed |-> AOPlayerShopInfo(m, type)] BY <1>4, <1>10 DEF Body
  <2> DEFINE parsed == AOPlayerShopInfo(m, type)
  <2>6. parsed.ownerid = <<"ownerid", 0>> /\ parsed.guildName = <<"guildName", 0>> /\ parsed.pos = m.end
    BY <2>4 DEF m
  <2>7. decoded.body.parsed = parsed BY <2>5
  <2> HIDE DEF parsed
  <2>8. Message(Input.fields).end = m.end BY DEF m, fields
  <2> QED BY <1>10, <2>6, <2>7, <2>8 DEF ContentsRead, kind
<1>11. CASE kind = "npcAccept"
  <2>1. type \in ServerTypes /\ origin = "server" /\ n \in Nat BY <1>2, <1>5, <1>6, <1>11 DEF ClientKinds
  <2>2. SentBody(kind, Input.n) = RejectHead(n) \o Times(n, SentRejected) \o << F("zero", 4) >>
    BY <1>11 DEF SentBody, n, RejectHead
  <2>3. fields = SentHeader("server", type) \o (RejectHead(n) \o Times(n, SentRejected) \o << F("zero", 4) >>)
        /\ IsPrefix(SentHeader("server", type), fields) /\ fields \in Seq(Field) /\ type # "D"
    BY <1>4, <2>1, <2>2 DEF h
  <2>4. /\ Len(RejectedItems(Message(fields))) = n
        /\ \A k \in 1..n : RejectedItems(Message(fields))[k]["itemid.high"] = <<"itemid.high", k>>
    BY ONLY <2>1, <2>3, RejectedRead
  <2>5. decoded.body = [native |-> Overlay(m, 0, NPCTradeAcceptBase), rejected |-> RejectedItems(m)]
    BY <1>4, <1>11 DEF Body
  <2>6. decoded.body.rejected = RejectedItems(Message(fields)) BY <2>5 DEF m
  <2> QED BY <1>11, <2>4, <2>6 DEF ContentsRead, kind, n
<1>12. CASE kind = "fullSync" BY <1>12 DEF ContentsRead, kind
<1>13. CASE kind \in StructKinds
  <2>1. fields \in Seq(Field) /\ origin \in {"server", "client"} /\ type # "D"
        /\ fields = SentHeader(origin, type) \o SentBody(kind, Input.n) /\ IsPrefix(SentHeader(origin, type), fields)
    BY <1>4 DEF h
  <2>2. /\ Body(Message(fields), type, kind) = [native |-> StructOf(Message(fields), kind)]
        /\ ShownBehind(StructOf(Message(fields), kind))
    BY ONLY <1>13, <2>1, StructRead
  <2>3. decoded.body.native = StructOf(Message(fields), kind) BY <1>4, <2>2 DEF m
  <2>4. kind \notin {"container", "bank", "shopItems", "shopInfo", "npcAccept", "fullSync"} BY <1>13 DEF StructKinds
  <2> QED BY <2>2, <2>3, <2>4 DEF ContentsRead, kind, ShownBehind
<1>14. kind \in {"container", "bank", "shopItems", "shopInfo", "npcAccept", "fullSync"} \cup StructKinds
  BY <1>2 DEF Kinds, StructKinds
<1> QED BY <1>7, <1>8, <1>9, <1>10, <1>11, <1>12, <1>13, <1>14

\* However long the lists of a message, its handler reads all of it.
THEOREM ContentsAreRead == MessagesSpec => []ContentsRead
<1>1. MessagesInit => DecodedTwice BY DEF MessagesInit, DecodedTwice, Known, NoData
<1>2. DecodedTwice /\ [MessagesNext]_msgvars => DecodedTwice' BY DecodedTwiceKept
<1>3. DecodedTwice => ContentsRead BY TwiceRead
<1> QED BY <1>1, <1>2, <1>3, PTL DEF MessagesSpec

-----------------------------------------------------------------------------
(* The lists of the full synchronisation.                                  *)

\* A list of n fields g of one width.
OnesOf(seqs, n, w, g) ==
  n \in Nat /\ seqs = [k \in 1..n |-> <<g[k]>>] /\ \A k \in 1..n : g[k][2] = w

\* It is a list of parts.
LEMMA OnesParted ==
    ASSUME NEW n, NEW w, NEW g, NEW seqs, OnesOf(seqs, n, w, g)
    PROVE  /\ Parted(seqs, n, 1)
           /\ \A k \in 1..n : Listed(seqs[k]) /\ Len(seqs[k]) = 1 /\ seqs[k][1] = g[k]
<1> DEFINE L == 1
<1>0. n \in Nat /\ seqs = [k \in 1..n |-> <<g[k]>>] BY DEF OnesOf
<1>1. ASSUME NEW k \in 1..n PROVE Listed(seqs[k]) /\ Len(seqs[k]) = 1 /\ seqs[k][1] = g[k]
  <2> DEFINE x == g[k]
  <2>1. seqs[k] = <<x>> BY <1>0
  <2> HIDE DEF x
  <2>2. Listed(seqs[k]) /\ Len(seqs[k]) = 1 /\ seqs[k][1] = x BY ONLY <2>1, ListedOne
  <2> QED BY <2>2 DEF x
<1>2. seqs = [k \in 1..n |-> seqs[k]] BY <1>0
<1>3. \A k \in 1..n : Listed(seqs[k]) /\ Len(seqs[k]) = L BY <1>1
<1>4. L \in Nat OBVIOUS
<1> HIDE DEF L
<1>5. Parted(seqs, n, L) BY ONLY <1>0, <1>2, <1>3, <1>4, ListParted
<1> QED BY <1>1, <1>5 DEF L

\* A step of that width is a script for it.
LEMMA OnesWide ==
    ASSUME NEW n, NEW w, NEW g, NEW seqs, OnesOf(seqs, n, w, g), NEW a, a[2] = w
    PROVE  WideAll(<<a>>, seqs, n, 1)
<1> DEFINE s == <<a>>
<1>1. \A k \in 1..n : Listed(seqs[k]) /\ Len(seqs[k]) = 1 /\ seqs[k][1] = g[k] BY OnesParted
<1>2. Listed(s) /\ Len(s) = 1 /\ s[1] = a BY ListedOne
<1> HIDE DEF s
<1>3. ASSUME NEW k \in 1..n PROVE Wide(s, seqs[k])
  <2>1. \A j \in 1..1 : j = 1 OBVIOUS
  <2>2. s[1][2] = seqs[k][1][2] BY <1>1, <1>2 DEF OnesOf
  <2> QED BY <1>1, <1>2, <2>1, <2>2 DEF Wide
<1>4. WideAll(s, seqs, n, 1) BY <1>2, <1>3 DEF WideAll
<1> QED BY <1>4 DEF s

\* A list of n pairs of fields.
TwosOf(seqs, n, w, v, g, h) ==
  n \in Nat /\ seqs = [k \in 1..n |-> <<g[k], h[k]>>] /\ \A k \in 1..n : g[k][2] = w /\ h[k][2] = v

\* It is a list of parts.
LEMMA TwosParted ==
    ASSUME NEW n, NEW w, NEW v, NEW g, NEW h, NEW seqs, TwosOf(seqs, n, w, v, g, h)
    PROVE  /\ Parted(seqs, n, 2)
           /\ \A k \in 1..n : Listed(seqs[k]) /\ Len(seqs[k]) = 2 /\ seqs[k][1] = g[k] /\ seqs[k][2] = h[k]
<1> DEFINE L == 2
<1>0. n \in Nat /\ seqs = [k \in 1..n |-> <<g[k], h[k]>>] BY DEF TwosOf
<1>1. ASSUME NEW k \in 1..n PROVE Listed(seqs[k]) /\ Len(seqs[k]) = 2 /\ seqs[k][1] = g[k] /\ seqs[k][2] = h[k]
  <2> DEFINE x == g[k]
             y == h[k]
  <2>1. seqs[k] = <<x, y>> BY <1>0
  <2> HIDE DEF x, y
  <2>2. Listed(seqs[k]) /\ Len(seqs[k]) = 2 /\ seqs[k][1] = x /\ seqs[k][2] = y BY ONLY <2>1, ListedTwo
  <2> QED BY <2>2 DEF x, y
<1>2. seqs = [k \in 1..n |-> seqs[k]] BY <1>0
<1>3. \A k \in 1..n : Listed(seqs[k]) /\ Len(seqs[k]) = L BY <1>1
<1>4. L \in Nat OBVIOUS
<1> HIDE DEF L
<1>5. Parted(seqs, n, L) BY ONLY <1>0, <1>2, <1>3, <1>4, ListParted
<1> QED BY <1>1, <1>5 DEF L

\* Two steps of their widths are a script for it.
LEMMA TwosWide ==
    ASSUME NEW n, NEW w, NEW v, NEW g, NEW h, NEW seqs, TwosOf(seqs, n, w, v, g, h),
           NEW a, a[2] = w, NEW b, b[2] = v
    PROVE  WideAll(<<a, b>>, seqs, n, 2)
<1> DEFINE s == <<a, b>>
<1>1. \A k \in 1..n : Listed(seqs[k]) /\ Len(seqs[k]) = 2 /\ seqs[k][1] = g[k] /\ seqs[k][2] = h[k] BY TwosParted
<1>2. Listed(s) /\ Len(s) = 2 /\ s[1] = a /\ s[2] = b BY ListedTwo
<1> HIDE DEF s
<1>3. ASSUME NEW k \in 1..n PROVE Wide(s, seqs[k])
  <2>1. \A j \in 1..2 : j = 1 \/ j = 2 OBVIOUS
  <2>2. s[1][2] = seqs[k][1][2] /\ s[2][2] = seqs[k][2][2] BY <1>1, <1>2 DEF TwosOf
  <2> QED BY <1>1, <1>2, <2>1, <2>2 DEF Wide
<1>4. WideAll(s, seqs, n, 2) BY <1>2, <1>3 DEF WideAll
<1> QED BY <1>4 DEF s

\* The entries of the lists of the full synchronisation.
NanosSent(n) == [k \in 1..n |-> SentNano(k)]
TimersSent(n) == [k \in 1..n |-> Timer(k)]
StatsSent(keyWidth, valWidth, section, n) == [k \in 1..n |-> SentStat(keyWidth, valWidth, section, k)]
AbsorbsSent(n) == [k \in 1..n |-> Absorb(k)]
PerksSent(n) == [k \in 1..n |-> Perk(k)]

\* The nanos are a list of single fields.
LEMMA NanosParted ==
    ASSUME NEW n \in Nat
    PROVE  /\ Parted(NanosSent(n), n, 1) /\ WideAll(<< Pop(4, "nano") >>, NanosSent(n), n, 1)
           /\ \A k \in 1..n : Gives(<< Pop(4, "nano") >>, NanosSent(n)[k], "nano", <<"nano", k>>)
<1> DEFINE seqs == NanosSent(n)
           g == [k \in 1..n |-> <<"nano", 4, k>>]
           a == Pop(4, "nano")
           w == 4
<1>0. seqs = [k \in 1..n |-> <<g[k]>>] BY DEF NanosSent, SentNano, Fk
<1>2. \A k \in 1..n : g[k][2] = w /\ g[k] = <<"nano", 4, k>> OBVIOUS
<1>3. a = <<"pop", 4, "nano">> /\ a[2] = w BY DEF Pop
<1> HIDE DEF seqs, g, a, w
<1>1. OnesOf(seqs, n, w, g) BY <1>0, <1>2 DEF OnesOf
<1>4. /\ Parted(seqs, n, 1) /\ WideAll(<<a>>, seqs, n, 1)
      /\ \A k \in 1..n : Len(seqs[k]) = 1 /\ seqs[k][1] = g[k]
  BY ONLY <1>1, <1>3, OnesParted, OnesWide
<1> DEFINE s == <<a>>
<1>5. s[1][1] # "skip" /\ s[1][3] = "nano" BY <1>3
<1> HIDE DEF s
<1>6. ASSUME NEW k \in 1..n PROVE Gives(s, seqs[k], "nano", <<"nano", k>>)
  <2> DEFINE v == <<"nano", k>>
  <2>1. Len(seqs[k]) = 1 /\ <<seqs[k][1][1], seqs[k][1][3]>> = v BY <1>2, <1>4
  <2>2. \A j \in 1..1 : j = 1 OBVIOUS
  <2> HIDE DEF v
  <2>3. \E i \in 1..1 : s[i][1] # "skip" /\ s[i][3] = "nano" BY <1>5
  <2>4. \A i \in 1..1 : <<seqs[k][i][1], seqs[k][i][3]>> = v BY <2>1, <2>2
  <2>5. Gives(s, seqs[k], "nano", v) BY ONLY <2>1, <2>3, <2>4 DEF Gives
  <2> QED BY <2>5 DEF v
<1> QED BY <1>4, <1>6 DEF seqs, s, a

\* The timers are a list, each of the bytes that are skipped.
LEMMA TimersParted ==
    ASSUME NEW n \in Nat
    PROVE  Parted(TimersSent(n), n, 1) /\ WideAll(<< <<"skip", 20>> >>, TimersSent(n), n, 1)
<1> DEFINE seqs == TimersSent(n)
           g == [k \in 1..n |-> <<"timer", 20, k>>]
           a == <<"skip", 20>>
           w == 20
<1>0. seqs = [k \in 1..n |-> <<g[k]>>] BY DEF TimersSent, Timer, Fk
<1>2. \A k \in 1..n : g[k][2] = w OBVIOUS
<1>3. a[2] = w OBVIOUS
<1> HIDE DEF seqs, g, a, w
<1>1. OnesOf(seqs, n, w, g) BY <1>0, <1>2 DEF OnesOf
<1>4. Parted(seqs, n, 1) /\ WideAll(<<a>>, seqs, n, 1)
  BY ONLY <1>1, <1>3, OnesParted, OnesWide
<1> QED BY <1>4 DEF seqs, a

\* So are the perks.
LEMMA PerksParted ==
    ASSUME NEW n \in Nat
    PROVE  Parted(PerksSent(n), n, 1) /\ WideAll(<< <<"perk", 16>> >>, PerksSent(n), n, 1)
<1> DEFINE seqs == PerksSent(n)
           g == [k \in 1..n |-> <<"perk", 16, k>>]
           a == <<"perk", 16>>
           w == 16
<1>0. seqs = [k \in 1..n |-> <<g[k]>>] BY DEF PerksSent, Perk, Fk
<1>2. \A k \in 1..n : g[k][2] = w OBVIOUS
<1>3. a[2] = w OBVIOUS
<1> HIDE DEF seqs, g, a, w
<1>1. OnesOf(seqs, n, w, g) BY <1>0, <1>2 DEF OnesOf
<1>4. Parted(seqs, n, 1) /\ WideAll(<<a>>, seqs, n, 1)
  BY ONLY <1>1, <1>3, OnesParted, OnesWide
<1> QED BY <1>4 DEF seqs, a

\* The absorbs are a list of pairs.
LEMMA AbsorbsParted ==
    ASSUME NEW n \in Nat
    PROVE  Parted(AbsorbsSent(n), n, 2) /\ WideAll(Stat(4, 4), AbsorbsSent(n), n, 2)
<1> DEFINE seqs == AbsorbsSent(n)
           g == [k \in 1..n |-> <<"a", 4, k>>]
           h == [k \in 1..n |-> <<"b", 4, k>>]
           a == Pop(4, "key")
           b == Pop(4, "val")
           w == 4
<1>0. seqs = [k \in 1..n |-> <<g[k], h[k]>>] BY DEF AbsorbsSent, Absorb, Fk
<1>2. \A k \in 1..n : g[k][2] = w /\ h[k][2] = w OBVIOUS
<1>3. a[2] = w /\ b[2] = w BY DEF Pop
<1>4. Stat(4, 4) = <<a, b>> BY DEF Stat
<1> HIDE DEF seqs, g, h, a, b, w
<1>1. TwosOf(seqs, n, w, w, g, h) BY <1>0, <1>2 DEF TwosOf
<1>5. Parted(seqs, n, 2) /\ WideAll(<<a, b>>, seqs, n, 2)
  BY ONLY <1>1, <1>3, TwosParted, TwosWide
<1> QED BY <1>4, <1>5 DEF seqs

\* The entries of a map are a list of pairs, a key and its value.
LEMMA StatsParted ==
    ASSUME NEW n \in Nat, NEW u, NEW w, NEW section
    PROVE  /\ Parted(StatsSent(u, w, section, n), n, 2)
           /\ WideAll(Stat(u, w), StatsSent(u, w, section, n), n, 2)
           /\ \A k \in 1..n :
                 /\ Gives(Stat(u, w), StatsSent(u, w, section, n)[k], "key", <<"key", k>>)
                 /\ Gives(Stat(u, w), StatsSent(u, w, section, n)[k], "val", <<"val", 10 * section + k>>)
<1> DEFINE seqs == StatsSent(u, w, section, n)
           g == [k \in 1..n |-> <<"key", u, k>>]
           h == [k \in 1..n |-> <<"val", w, 10 * section + k>>]
           a == Pop(u, "key")
           b == Pop(w, "val")
           s == <<a, b>>
<1>0. seqs = [k \in 1..n |-> <<g[k], h[k]>>] BY DEF StatsSent, SentStat, Fk
<1>2. /\ \A k \in 1..n : g[k][2] = u /\ h[k][2] = w
      /\ \A k \in 1..n : g[k][1] = "key" /\ g[k][3] = k /\ h[k][1] = "val" /\ h[k][3] = 10 * section + k
  OBVIOUS
<1>3. a = <<"pop", u, "key">> /\ b = <<"pop", w, "val">> /\ a[2] = u /\ b[2] = w BY DEF Pop
<1>4. Stat(u, w) = s BY DEF Stat
<1>5. s[1] = a /\ s[2] = b OBVIOUS
<1> HIDE DEF seqs, g, h, a, b
<1>1. TwosOf(seqs, n, u, w, g, h) BY <1>0, <1>2 DEF TwosOf
<1>6. /\ Parted(seqs, n, 2) /\ WideAll(<<a, b>>, seqs, n, 2)
      /\ \A k \in 1..n : Len(seqs[k]) = 2 /\ seqs[k][1] = g[k] /\ seqs[k][2] = h[k]
  BY ONLY <1>1, <1>3, TwosParted, TwosWide
<1>7. s[1][1] = "pop" /\ s[2][1] = "pop" /\ s[1][3] = "key" /\ s[2][3] = "val" BY <1>3, <1>5
<1>8. WideAll(s, seqs, n, 2) BY <1>6
<1> HIDE DEF s
<1>9. \A j \in 1..2 : j = 1 \/ j = 2 OBVIOUS
<1>10. ASSUME NEW k \in 1..n
       PROVE  Gives(s, seqs[k], "key", <<"key", k>>) /\ Gives(s, seqs[k], "val", <<"val", 10 * section + k>>)
  <2> DEFINE v == <<"key", k>>
             z == <<"val", 10 * section + k>>
             p == seqs[k]
  <2>1. Len(p) = 2 /\ <<p[1][1], p[1][3]>> = v /\ <<p[2][1], p[2][3]>> = z BY <1>2, <1>6
  <2> HIDE DEF v, z, p
  <2>2. \E i \in 1..2 : s[i][1] # "skip" /\ s[i][3] = "key" BY <1>7
  <2>3. \A i \in 1..2 : s[i][1] # "skip" /\ s[i][3] = "key" => i = 1 BY ONLY <1>7, <1>9
  <2>4. \E i \in 1..2 : s[i][1] # "skip" /\ s[i][3] = "val" BY <1>7
  <2>5. \A i \in 1..2 : s[i][1] # "skip" /\ s[i][3] = "val" => i = 2 BY ONLY <1>7, <1>9
  <2>6. Gives(s, p, "key", v) BY ONLY <2>1, <2>2, <2>3 DEF Gives
  <2>7. Gives(s, p, "val", z) BY ONLY <2>1, <2>4, <2>5 DEF Gives
  <2> QED BY <2>6, <2>7 DEF v, z, p
<1> QED BY <1>4, <1>6, <1>8, <1>10 DEF seqs

\* The field of a part by itself.
LEMMA PartSingle ==
    ASSUME NEW fields, NEW b, NEW s, PartAt(fields, b, s), NEW j \in 1..Len(s), Len(s) \in Nat, Len(fields) \in Nat,
           NEW c, c + 1 = b + j, c \in Nat, NEW x, x = s[j]
    PROVE  PartAt(fields, c, <<x>>)
<1> DEFINE t == <<x>>
<1>1. Listed(t) /\ Len(t) = 1 /\ t[1] = x BY ListedOne
<1>2. b \in Nat /\ b + Len(s) <= Len(fields) /\ fields[b + j] = s[j] BY DEF PartAt
<1> HIDE DEF t
<1>3. c + Len(t) <= Len(fields) BY <1>1, <1>2
<1>4. fields[c + 1] = t[1] BY <1>1, <1>2
<1>5. \A i \in 1..1 : i = 1 OBVIOUS
<1>6. \A i \in 1..Len(t) : fields[c + i] = t[i] BY <1>1, <1>4, <1>5
<1> QED BY <1>1, <1>3, <1>6 DEF PartAt, t

\* The field of a count: its number, and where the list begins.
LEMMA CountRead ==
    ASSUME NEW fields \in Seq(Field), NEW c, NEW name, NEW z, PartAt(fields, c, << <<name, 4, z>> >>)
    PROVE  /\ c \in Nat /\ Ends(fields)[c] \in Nat /\ Ends(fields)[c + 1] = Ends(fields)[c] + 4
           /\ ReadAt(Message(fields), Ends(fields)[c], 4)[2] = z
           /\ Skip(Message(fields), Ends(fields)[c], 4) = Ends(fields)[c + 1]
<1> DEFINE f == <<name, 4, z>>
           s == <<f>>
           r == ReadAt(Message(fields), Ends(fields)[c], 4)
<1>1. f[1] = name /\ f[2] = 4 /\ f[3] = z OBVIOUS
<1>2. PartAt(fields, c, s) OBVIOUS
<1> HIDE DEF f
<1>3. Listed(s) /\ Len(s) = 1 /\ s[1] = f BY ListedOne
<1> HIDE DEF s
<1>4. Len(s) \in Nat /\ Len(s) >= 1 /\ f = s[1] BY <1>3
<1>5. /\ c \in Nat /\ Ends(fields)[c] \in Nat
      /\ Ends(fields)[c + 1] = Ends(fields)[c] + f[2]
      /\ ReadAt(Message(fields), Ends(fields)[c], f[2]) = <<f[1], f[3]>>
      /\ Skip(Message(fields), Ends(fields)[c], f[2]) = Ends(fields)[c + 1]
  BY ONLY fields \in Seq(Field), <1>2, <1>4, PartFirst
<1>6. r = <<name, z>> BY <1>1, <1>5
<1> HIDE DEF r
<1>7. r[2] = z BY <1>6
<1> QED BY <1>1, <1>5, <1>7 DEF r

\* A counted list is read as often as it was counted.
LEMMA CountedIs ==
    ASSUME NEW fields \in Seq(Field), NEW c, NEW n \in Nat, PartAt(fields, c, << Mass(n) >>), NEW script
    PROVE  Counted(Message(fields), Ends(fields)[c], script) = ReadMany(Message(fields), Ends(fields)[c + 1], n, script)
<1> DEFINE z == 1009 * (n + 1)
           name == "mass"
           m == Message(fields)
           p == Ends(fields)[c]
<1>1. Count3F1(z) = n BY MassCounts
<1>2. PartAt(fields, c, << <<name, 4, z>> >>) BY DEF Mass, Fk
<1> HIDE DEF z, name
<1>3. /\ Ends(fields)[c + 1] = p + 4 /\ ReadAt(m, p, 4)[2] = z
  BY ONLY fields \in Seq(Field), <1>2, CountRead
<1> HIDE DEF m, p
<1>4. Counted(m, p, script) = ReadMany(m, Ends(fields)[c + 1], n, script) BY <1>1, <1>3 DEF Counted
<1> QED BY <1>4 DEF m, p

\* The same of a plain count.
LEMMA PlainIs ==
    ASSUME NEW fields \in Seq(Field), NEW c, NEW n \in Nat, PartAt(fields, c, << Fk("count", 4, n) >>), NEW script
    PROVE  CountedPlain(Message(fields), Ends(fields)[c], script) = ReadMany(Message(fields), Ends(fields)[c + 1], n, script)
<1> DEFINE name == "count"
           m == Message(fields)
           p == Ends(fields)[c]
<1>1. PartAt(fields, c, << <<name, 4, n>> >>) BY DEF Fk
<1> HIDE DEF name
<1>2. /\ Ends(fields)[c + 1] = p + 4 /\ ReadAt(m, p, 4)[2] = n
  BY ONLY fields \in Seq(Field), <1>1, CountRead
<1> HIDE DEF m, p
<1>3. CountedPlain(m, p, script) = ReadMany(m, Ends(fields)[c + 1], n, script) BY <1>2 DEF CountedPlain
<1> QED BY <1>3 DEF m, p

\* Where a counted list ends.
LEMMA CountedEnd ==
    ASSUME NEW fields \in Seq(Field), NEW c, NEW n \in Nat, PartAt(fields, c, << Mass(n) >>),
           NEW d, d = c + 1, NEW seqs, NEW L, Parted(seqs, n, L), PartAt(fields, d, FlattenSeq(seqs)),
           NEW script, WideAll(script, seqs, n, L)
    PROVE  Counted(Message(fields), Ends(fields)[c], script).pos = Ends(fields)[d + Len(FlattenSeq(seqs))]
<1>1. Counted(Message(fields), Ends(fields)[c], script) = ReadMany(Message(fields), Ends(fields)[d], n, script)
  BY CountedIs
<1>2. ReadMany(Message(fields), Ends(fields)[d], n, script).pos = Ends(fields)[d + n * L] BY ListPopped
<1>3. Len(FlattenSeq(seqs)) = n * L BY PartsListed
<1> QED BY <1>1, <1>2, <1>3

\* And one with a plain count.
LEMMA PlainEnd ==
    ASSUME NEW fields \in Seq(Field), NEW c, NEW n \in Nat, PartAt(fields, c, << Fk("count", 4, n) >>),
           NEW d, d = c + 1, NEW seqs, NEW L, Parted(seqs, n, L), PartAt(fields, d, FlattenSeq(seqs)),
           NEW script, WideAll(script, seqs, n, L)
    PROVE  CountedPlain(Message(fields), Ends(fields)[c], script).pos = Ends(fields)[d + Len(FlattenSeq(seqs))]
<1>1. CountedPlain(Message(fields), Ends(fields)[c], script) = ReadMany(Message(fields), Ends(fields)[d], n, script)
  BY PlainIs
<1>2. ReadMany(Message(fields), Ends(fields)[d], n, script).pos = Ends(fields)[d + n * L] BY ListPopped
<1>3. Len(FlattenSeq(seqs)) = n * L BY PartsListed
<1> QED BY <1>1, <1>2, <1>3

\* A count of nothing.
LEMMA NoneCounted ==
    ASSUME NEW fields \in Seq(Field), NEW c, PartAt(fields, c, << Mass(0) >>)
    PROVE  Counted(Message(fields), Ends(fields)[c], <<>>).pos = Ends(fields)[c + 1]
<1> DEFINE n == 0
           m == Message(fields)
           p == Ends(fields)[c + 1]
<1>1. n \in Nat /\ PartAt(fields, c, << Mass(n) >>) OBVIOUS
<1> HIDE DEF n
<1>2. Counted(Message(fields), Ends(fields)[c], <<>>) = ReadMany(Message(fields), Ends(fields)[c + 1], n, <<>>)
  BY <1>1, CountedIs
<1> HIDE DEF m, p
<1>3. PICK f : f[0] = [pos |-> p, got |-> <<>>] /\ ReadMany(m, p, n, <<>>) = f[n]
  <2>1. PICK f : LoopsBy(f, m, p, n, <<>>) BY ONLY <1>1, ManyLoop
  <2> QED BY ONLY <2>1 DEF LoopsBy
<1>4. ReadMany(m, p, n, <<>>).pos = p BY <1>3 DEF n
<1> QED BY <1>2, <1>4 DEF m, p

-----------------------------------------------------------------------------
(* Timers and perks.                                                       *)

\* The fields of one list of timers.
TimersPart(i, n) == << Fk("which", 4, i), Fk("count", 4, n) >> \o FlattenSeq(TimersSent(n))

\* A list of timers is read to its end.
LEMMA TimerListRead ==
    ASSUME NEW fields \in Seq(Field), NEW c, NEW i, NEW n \in Nat, PartAt(fields, c, TimersPart(i, n))
    PROVE  TimerList(Message(fields), Ends(fields)[c]) = Ends(fields)[c + Len(TimersPart(i, n))]
<1> DEFINE m == Message(fields)
           e == Ends(fields)
           x == Fk("which", 4, i)
           y == Fk("count", 4, n)
           h == <<x, y>>
           seqs == TimersSent(n)
           t == FlattenSeq(seqs)
           script == << <<"skip", 20>> >>
           L == 1
           b == c + 1
           d == b + 1
<1>0. Len(fields) \in Nat /\ c \in Nat /\ b \in Nat /\ d = c + 2 /\ b + 1 = c + 2 BY DEF PartAt
<1>1. Parted(seqs, n, L) /\ WideAll(script, seqs, n, L) BY TimersParted
<1>2. TimersPart(i, n) = h \o t BY DEF TimersPart
<1>3. x = <<"which", 4, i>> BY DEF Fk
<1> HIDE DEF x, y
<1>4. Listed(h) /\ Len(h) = 2 /\ h[1] = x /\ h[2] = y BY ListedTwo
<1> HIDE DEF h, seqs, script, L
<1>5. Listed(t) BY <1>1, PartsListed
<1> HIDE DEF t
<1>6. Listed(h \o t) /\ Len(h \o t) = Len(h) + Len(t) /\ Len(t) \in Nat BY ONLY <1>4, <1>5, ListedJoined
<1>7. PartAt(fields, c, h) /\ PartAt(fields, c + Len(h), t)
  <2>1. PartAt(fields, c, h \o t) BY <1>2
  <2> QED BY ONLY <1>0, <1>4, <1>5, <2>1, PartJoined
<1>8. PartAt(fields, d, t) BY ONLY <1>0, <1>4, <1>7
<1>9. PartAt(fields, c, <<x>>) /\ PartAt(fields, b, <<y>>)
  <2>1. Len(h) \in Nat /\ x = h[1] /\ y = h[2] BY <1>4
  <2> DEFINE j1 == 1
             j2 == 2
  <2>2. j1 \in 1..Len(h) /\ j2 \in 1..Len(h) /\ c + 1 = c + j1 /\ b + 1 = c + j2 /\ x = h[j1] /\ y = h[j2]
    BY <1>0, <1>4, <2>1
  <2> HIDE DEF j1, j2, b
  <2> QED BY ONLY <1>0, <1>7, <2>1, <2>2, PartSingle
<1>10. e[b] = e[c] + 4
  <2> DEFINE name == "which"
             w == e[c + 1] = e[c] + 4
  <2>1. PartAt(fields, c, << <<name, 4, i>> >>) BY <1>3, <1>9
  <2> HIDE DEF name
  <2>2. e[c + 1] = e[c] + 4 BY ONLY fields \in Seq(Field), <2>1, CountRead
  <2> QED BY <2>2
<1> HIDE DEF b, d
<1>11. CountedPlain(m, e[b], script).pos = e[d + Len(t)]
  <2>1. d = b + 1 BY DEF d
  <2>2. PartAt(fields, b, << Fk("count", 4, n) >>) BY <1>9 DEF y
  <2>3. PartAt(fields, d, FlattenSeq(seqs)) BY <1>8 DEF t
  <2>4. CountedPlain(m, e[b], script).pos = e[d + Len(FlattenSeq(seqs))]
    BY ONLY fields \in Seq(Field), n \in Nat, <1>1, <2>1, <2>2, <2>3, PlainEnd
  <2> QED BY <2>4 DEF t
<1>12. d + Len(t) = c + Len(TimersPart(i, n)) BY <1>0, <1>2, <1>4, <1>6
<1> HIDE DEF m, e
<1>13. TimerList(m, e[c]) = CountedPlain(m, e[b], script).pos BY <1>10 DEF TimerList, script
<1> QED BY <1>11, <1>12, <1>13 DEF m, e

\* What is skipped behind the last count is the rest of the message.
LEMMA PerksSkipped ==
    ASSUME NEW fields \in Seq(Field), NEW c, NEW n \in Nat, PartAt(fields, c, << Mass(n) >>),
           NEW d, d = c + 1, PartAt(fields, d, FlattenSeq(PerksSent(n))),
           Len(fields) = d + Len(FlattenSeq(PerksSent(n)))
    PROVE  Skip(Message(fields), Ends(fields)[c] + 4, Count3F1(ReadAt(Message(fields), Ends(fields)[c], 4)[2]) * 16)
             = Message(fields).end
<1> DEFINE z == 1009 * (n + 1)
           name == "mass"
           m == Message(fields)
           e == Ends(fields)
           struct == << <<"perk", 16>> >>
           seqs == PerksSent(n)
           L == 1
<1>1. Count3F1(z) = n BY MassCounts
<1>2. PartAt(fields, c, << <<name, 4, z>> >>) BY DEF Mass, Fk
<1> HIDE DEF z, name
<1>3. /\ e[c + 1] = e[c] + 4 /\ ReadAt(m, e[c], 4)[2] = z
  BY ONLY fields \in Seq(Field), <1>2, CountRead
<1>4. Parted(seqs, n, L) /\ WideAll(struct, seqs, n, L) BY PerksParted
<1>5. struct[1] = <<"perk", 16>> /\ struct[1][2] = 16 /\ Len(struct) = 1 OBVIOUS
<1>6. \A j \in 1..1 : j = 1 OBVIOUS
<1> HIDE DEF struct, seqs
<1>7. \A j \in 1..L : struct[j][2] \in Nat \ {0} BY <1>5, <1>6
<1> HIDE DEF L
<1>8. PartAt(fields, d, FlattenSeq(seqs)) BY DEF seqs
<1>9. ListedOver(fields, d, n, struct)
  BY ONLY fields \in Seq(Field), <1>4, <1>7, <1>8, ListOver
<1>10. Size(struct) \in Nat /\ e[d] \in Nat /\ e[d + n * Len(struct)] = e[d] + Size(struct) * n
  <2>1. n <= n OBVIOUS
  <2>2. \A k \in Nat : k <= n => e[d + k * Len(struct)] = e[d] + Size(struct) * k BY ONLY <1>9, ListEnds
  <2>3. Size(struct) \in Nat /\ e[d] \in Nat BY ONLY <1>9, ListEnds
  <2> QED BY <2>1, <2>2, <2>3
<1>11. Size(struct) = 16
  <2>1. Ends(struct)[0] = 0 /\ (0 < Len(struct) => Ends(struct)[0 + 1] = Ends(struct)[0] + struct[0 + 1][2])
    BY <1>5, EndsLoop
  <2>2. Ends(struct)[1] = 16 BY <1>5, <2>1
  <2> QED BY <1>5, <2>2 DEF Size
<1>12. Len(FlattenSeq(seqs)) = n * 1 BY <1>4, PartsListed DEF L
<1>13. m.end = e[d] + 16 * n
  <2>1. m.end = e[Len(fields)] BY DEF Message
  <2>2. Len(fields) = d + n * Len(struct) BY <1>5, <1>12 DEF seqs
  <2> QED BY <1>10, <1>11, <2>1, <2>2
<1> HIDE DEF m, e
<1>14. Skip(m, e[c] + 4, Count3F1(ReadAt(m, e[c], 4)[2]) * 16) = Skip(m, e[d], n * 16) BY <1>1, <1>3
<1> DEFINE p == e[d]
<1>15. p \in Nat /\ m.end = p + 16 * n BY <1>10, <1>13
<1> HIDE DEF p
<1>16. n * 16 <= m.end - p /\ p + n * 16 = m.end BY <1>15
<1>17. Skip(m, p, n * 16) = m.end BY <1>16 DEF Skip
<1> QED BY <1>14, <1>17 DEF p, m, e

-----------------------------------------------------------------------------
(* The maps of stats.                                                      *)

\* The function that SetStats defines by recursion exists.
LEMMA SetLoop ==
    ASSUME NEW stats, NEW list, Len(list) \in Nat
    PROVE  \E s : /\ s[0] = stats
                  /\ \A i \in Nat : i < Len(list) => s[i + 1] = With(s[i], list[i + 1]["key"][2], list[i + 1]["val"])
                  /\ SetStats(stats, list) = s[Len(list)]
<1> DEFINE n == Len(list)
           Start == stats
           Turn1(g, i) == IF i = 0 THEN Start ELSE With(g[i - 1], list[i]["key"][2], list[i]["val"])
           Loop(g, k) == g = [i \in 0..k |-> Turn1(g, i)]
           S == {k \in Nat : \E g : Loop(g, k)}
<1>1. 0 \in S
  <2> HIDE DEF Start
  <2>1. Loop([i \in 0..0 |-> Start], 0) OBVIOUS
  <2> QED BY <2>1
<1>2. ASSUME NEW k \in Nat, k \in S PROVE k + 1 \in S
  <2>1. PICK g : Loop(g, k) BY <1>2
  <2> DEFINE x == With(g[k], list[k + 1]["key"][2], list[k + 1]["val"])
             h == [i \in 0..(k + 1) |-> IF i <= k THEN g[i] ELSE x]
  <2>2. ASSUME NEW i \in 0..(k + 1) PROVE h[i] = Turn1(h, i)
    <3> HIDE DEF Start
    <3>1. CASE i = 0 BY <2>1, <3>1
    <3>2. CASE i # 0 /\ i <= k
      <4>1. i - 1 \in 0..k /\ i \in 0..k BY <3>2
      <4>2. g[i] = Turn1(g, i) BY <2>1, <4>1
      <4>3. h[i - 1] = g[i - 1] /\ h[i] = g[i] BY <3>2, <4>1
      <4> HIDE DEF h
      <4> QED BY <4>2, <4>3
    <3>3. CASE i = k + 1
      <4>1. h[i - 1] = g[k] /\ h[i] = x BY <3>3
      <4> HIDE DEF h
      <4> QED BY <3>3, <4>1
    <3> QED BY <3>1, <3>2, <3>3
  <2>3. Loop(h, k + 1)
    <3>1. h = [i \in 0..(k + 1) |-> h[i]] OBVIOUS
    <3> HIDE DEF h, Turn1
    <3> QED BY <3>1, <2>2
  <2> HIDE DEF Loop
  <2> QED BY <2>3
<1>3. Nat \subseteq S
  <2> HIDE DEF S
  <2> QED BY <1>1, <1>2, Induction
<1>4. \E g : Loop(g, n) BY <1>3
<1> DEFINE c == CHOOSE g : Loop(g, n)
<1>5. SetStats(stats, list) = c[n] BY DEF SetStats
<1>6. Loop(c, n)
  <2> HIDE DEF Loop
  <2> QED BY <1>4
<1> HIDE DEF c
<1>7. \A i \in 0..n : c[i] = Turn1(c, i)
  <2> HIDE DEF Turn1
  <2> QED BY <1>6
<1>8. ASSUME NEW i \in Nat, i < n PROVE c[i + 1] = With(c[i], list[i + 1]["key"][2], list[i + 1]["val"])
  <2>1. i + 1 \in 0..n /\ i + 1 # 0 /\ (i + 1) - 1 = i BY <1>8
  <2>2. c[i + 1] = Turn1(c, i + 1) BY <1>7, <2>1
  <2> QED BY <2>1, <2>2
<1>9. c[0] = Start BY <1>7
<1> QED BY <1>5, <1>8, <1>9

\* The entries of one map of stats, in their order.
StatsListed(list, n, base) ==
  /\ n \in Nat /\ Len(list) = n
  /\ \A k \in 1..n : list[k]["key"] = <<"key", k>> /\ list[k]["val"] = <<"val", base + k>>

\* The keys 1 to n of stats are set, the others are left.
StatsOver(set, stats, n, base) ==
  /\ n \in Nat /\ DOMAIN set = DOMAIN stats \cup (1..n)
  /\ \A x \in 1..n : set[x] = <<"val", base + x>>
  /\ \A x \in DOMAIN stats \ (1..n) : set[x] = stats[x]

\* The list sets the keys that it has, and leaves the others.
LEMMA StatsSet ==
    ASSUME NEW stats, NEW list, NEW n, NEW base, StatsListed(list, n, base)
    PROVE  StatsOver(SetStats(stats, list), stats, n, base)
<1>0. /\ n \in Nat /\ Len(list) = n
      /\ \A k \in 1..n : list[k]["key"] = <<"key", k>> /\ list[k]["val"] = <<"val", base + k>>
  BY DEF StatsListed
<1> USE <1>0
<1>1. PICK s : /\ s[0] = stats
               /\ \A i \in Nat : i < n => s[i + 1] = With(s[i], list[i + 1]["key"][2], list[i + 1]["val"])
               /\ SetStats(stats, list) = s[n]
  <2>1. Len(list) \in Nat OBVIOUS
  <2>2. \E s : /\ s[0] = stats
               /\ \A i \in Nat : i < Len(list) => s[i + 1] = With(s[i], list[i + 1]["key"][2], list[i + 1]["val"])
               /\ SetStats(stats, list) = s[Len(list)]
    BY ONLY <2>1, SetLoop
  <2>3. Len(list) = n OBVIOUS
  <2> QED BY ONLY <2>2, <2>3
<1> DEFINE Done(i) == /\ DOMAIN s[i] = DOMAIN stats \cup (1..i)
                      /\ \A x \in 1..i : s[i][x] = <<"val", base + x>>
                      /\ \A x \in DOMAIN stats \ (1..i) : s[i][x] = stats[x]
           S == {i \in Nat : i <= n => Done(i)}
<1>2. 0 \in S
  <2>1. 1..0 = {} OBVIOUS
  <2> QED BY <1>1, <2>1
<1>3. ASSUME NEW i \in Nat, i \in S PROVE i + 1 \in S
  <2> SUFFICES ASSUME i + 1 <= n PROVE Done(i + 1) BY <1>3
  <2> DEFINE j == i + 1
             v == <<"val", base + j>>
  <2>1. Done(i) /\ i < n /\ j \in 1..n /\ j \in Nat BY <1>3
  <2>2. list[j]["key"] = <<"key", j>> /\ list[j]["val"] = v BY <2>1
  <2>3. s[j] = With(s[i], list[j]["key"][2], list[j]["val"]) BY <1>1, <2>1
  <2>4. 1..j = (1..i) \cup {j} /\ j \notin 1..i BY <1>3
  <2> HIDE DEF j, v
  <2>5. list[j]["key"][2] = j BY <2>2
  <2>6. s[j] = With(s[i], j, v) BY <2>2, <2>3, <2>5
  <2>7. DOMAIN s[j] = DOMAIN s[i] \cup {j} /\ \A x \in DOMAIN s[i] \cup {j} : s[j][x] = IF x = j THEN v ELSE s[i][x]
    BY <2>6 DEF With
  <2>8. DOMAIN s[j] = DOMAIN stats \cup (1..j) BY <2>1, <2>4, <2>7
  <2>9. ASSUME NEW x \in 1..j PROVE s[j][x] = <<"val", base + x>>
    <3>1. CASE x = j BY <2>7, <3>1 DEF v
    <3>2. CASE x \in 1..i BY <2>1, <2>4, <2>7, <3>2
    <3> QED BY <2>4, <3>1, <3>2
  <2>10. ASSUME NEW x \in DOMAIN stats \ (1..j) PROVE s[j][x] = stats[x]
    BY <2>1, <2>4, <2>7
  <2> QED BY <2>8, <2>9, <2>10 DEF j
<1>4. n \in S
  <2> HIDE DEF S
  <2> QED BY <1>2, <1>3, Induction
<1> QED BY <1>1, <1>4 DEF StatsOver

-----------------------------------------------------------------------------
(* The full synchronisation, one part after the other.                     *)

\* What comes before the items, and between the absorbs and the perks.
SyncHead(n) == << F("pad", 1), F("version", 4), Mass(n.items) >>
SyncRest == << F("unknown", 4), Mass(0), Mass(0) >>

\* What is sent is made of these parts.
LEMMA SyncBody ==
    ASSUME NEW n
    PROVE  SentSync(n)
             = SyncHead(n) \o Times(n.items, SentItem)
               \o << Mass(n.nanos) >> \o FlattenSeq(NanosSent(n.nanos)) \o << Mass(0) >>
               \o TimersPart(1, n.timers[1]) \o TimersPart(2, n.timers[2]) \o TimersPart(3, n.timers[3])
               \o << Mass(n.stats[1]) >> \o FlattenSeq(StatsSent(4, 4, 1, n.stats[1]))
               \o << Mass(n.stats[2]) >> \o FlattenSeq(StatsSent(4, 4, 2, n.stats[2]))
               \o << Mass(n.stats[3]) >> \o FlattenSeq(StatsSent(1, 1, 3, n.stats[3]))
               \o << Mass(n.stats[4]) >> \o FlattenSeq(StatsSent(1, 2, 4, n.stats[4]))
               \o << Fk("count", 4, n.absorb) >> \o FlattenSeq(AbsorbsSent(n.absorb)) \o SyncRest
               \o << Mass(n.perks) >> \o FlattenSeq(PerksSent(n.perks))
<1>1. \A k : NanosSent(k) = [i \in 1..k |-> SentNano(i)] /\ Times(k, SentNano) = FlattenSeq(NanosSent(k))
  BY DEF NanosSent, Times
<1>2. \A k : Times(k, Timer) = FlattenSeq(TimersSent(k)) BY DEF TimersSent, Times
<1>3. \A k : Times(k, Absorb) = FlattenSeq(AbsorbsSent(k)) BY DEF AbsorbsSent, Times
<1>4. \A k : Times(k, Perk) = FlattenSeq(PerksSent(k)) BY DEF PerksSent, Times
<1> QED BY <1>1, <1>2, <1>3, <1>4 DEF SentSync, SyncHead, SyncRest, TimersPart, StatsSent, Times

-----------------------------------------------------------------------------
(* Parts of different lengths, one behind the other.                       *)

\* The n parts are at c[1] to c[n], each where the one before it ends.
Chained(fields, parts, n, c) ==
  \A k \in 1..n : c[k] \in Nat /\ PartAt(fields, c[k], parts[k]) /\ c[k + 1] = c[k] + Len(parts[k])

\* The parts are n sequences.
Stacked(parts, n) == n \in Nat /\ n # 0 /\ Len(parts) = n /\ \A k \in 1..n : Listed(parts[k])

\* What parts are joined to is a sequence, and so is what each of them ends.
LEMMA ChainListed ==
    ASSUME NEW parts, NEW n, Stacked(parts, n)
    PROVE  Listed(FlattenSeq(parts))
<1>0. n \in Nat /\ n # 0 /\ Len(parts) = n /\ \A k \in 1..n : Listed(parts[k]) BY DEF Stacked
<1> USE <1>0
<1>1. PICK f : /\ f[1] = parts[1]
               /\ \A k \in Nat : k > 0 /\ k < n => f[k + 1] = f[k] \o parts[k + 1]
               /\ FlattenSeq(parts) = f[n]
  BY <1>0, FlattenLoop
<1> DEFINE S == {k \in Nat : k > 0 /\ k <= n => Listed(f[k])}
<1>2. 0 \in S OBVIOUS
<1>3. ASSUME NEW k \in Nat, k \in S PROVE k + 1 \in S
  <2> SUFFICES ASSUME k + 1 <= n PROVE Listed(f[k + 1]) BY <1>3
  <2>1. CASE k = 0
    <3>1. 1 \in 1..n BY <2>1
    <3> QED BY <1>1, <2>1, <3>1
  <2>2. CASE k # 0
    <3>1. k > 0 /\ k < n /\ k + 1 \in 1..n /\ Listed(f[k]) BY <1>3, <2>2
    <3>2. f[k + 1] = f[k] \o parts[k + 1] BY <1>1, <3>1
    <3> QED BY <3>1, <3>2, ListedJoined
  <2> QED BY <2>1, <2>2
<1>4. Nat \subseteq S
  <2> HIDE DEF S
  <2> QED BY <1>2, <1>3, Induction
<1> QED BY <1>1, <1>4

\* Each part of a message begins where the one before it ends.
LEMMA PartsChained ==
    ASSUME NEW fields, Len(fields) \in Nat, NEW b \in Nat, NEW parts, NEW n, Stacked(parts, n),
           PartAt(fields, b, FlattenSeq(parts))
    PROVE  \E c : c[1] = b /\ Chained(fields, parts, n, c) /\ c[n + 1] = b + Len(FlattenSeq(parts))
<1>0. n \in Nat /\ n # 0 /\ Len(parts) = n /\ \A k \in 1..n : Listed(parts[k]) BY DEF Stacked
<1> USE <1>0
<1>1. PICK f : /\ f[1] = parts[1]
               /\ \A k \in Nat : k > 0 /\ k < n => f[k + 1] = f[k] \o parts[k + 1]
               /\ FlattenSeq(parts) = f[n]
  BY <1>0, FlattenLoop
<1>2. \A k \in Nat : k > 0 /\ k <= n => Listed(f[k])
  <2> DEFINE S == {k \in Nat : k > 0 /\ k <= n => Listed(f[k])}
  <2>1. 0 \in S OBVIOUS
  <2>2. ASSUME NEW k \in Nat, k \in S PROVE k + 1 \in S
    <3> SUFFICES ASSUME k + 1 <= n PROVE Listed(f[k + 1]) BY <2>2
    <3>1. CASE k = 0
      <4>1. 1 \in 1..n BY <3>1
      <4> QED BY <1>1, <3>1, <4>1
    <3>2. CASE k # 0
      <4>1. k > 0 /\ k < n /\ k + 1 \in 1..n /\ Listed(f[k]) BY <2>2, <3>2
      <4>2. f[k + 1] = f[k] \o parts[k + 1] BY <1>1, <4>1
      <4> QED BY <4>1, <4>2, ListedJoined
    <3> QED BY <3>1, <3>2
  <2>3. Nat \subseteq S
    <3> HIDE DEF S
    <3> QED BY <2>1, <2>2, Induction
  <2> QED BY <2>3
<1> DEFINE In(k) == PartAt(fields, b, f[k])
           Turn(k) == /\ PartAt(fields, b + Len(f[k]), parts[k + 1]) /\ In(k)
                      /\ Len(f[k]) \in Nat /\ Len(parts[k + 1]) \in Nat
                      /\ Len(f[k + 1]) = Len(f[k]) + Len(parts[k + 1])
<1>3. ASSUME NEW k \in Nat, k > 0, k < n, In(k + 1) PROVE Turn(k)
  <2>0. k + 1 \in 1..n /\ k <= n BY <1>3
  <2>1. Listed(f[k]) /\ Listed(parts[k + 1]) /\ f[k + 1] = f[k] \o parts[k + 1]
    <3>1. f[k + 1] = f[k] \o parts[k + 1] BY <1>1, <1>3
    <3> QED BY <1>2, <1>3, <2>0, <3>1
  <2> DEFINE s == f[k]
             t == parts[k + 1]
  <2>2. Listed(s) /\ Listed(t) /\ PartAt(fields, b, s \o t) BY <1>3, <2>1
  <2> HIDE DEF s, t
  <2>3. PartAt(fields, b, s) /\ PartAt(fields, b + Len(s), t) BY ONLY Len(fields) \in Nat, <2>2, PartJoined
  <2>4. Len(s) \in Nat /\ Len(t) \in Nat /\ Len(s \o t) = Len(s) + Len(t) BY ONLY <2>2, ListedJoined
  <2>5. f[k + 1] = s \o t BY <2>1 DEF s, t
  <2> QED BY <2>3, <2>4, <2>5 DEF s, t
<1>4. \A k \in Nat : k < n => In(n - k)
  <2> DEFINE S == {k \in Nat : k < n => In(n - k)}
  <2>1. 0 \in S BY <1>1
  <2>2. ASSUME NEW k \in Nat, k \in S PROVE k + 1 \in S
    <3> SUFFICES ASSUME k + 1 < n PROVE In(n - (k + 1)) BY <2>2
    <3> DEFINE j == n - (k + 1)
    <3>1. j \in Nat /\ j > 0 /\ j < n /\ j + 1 = n - k OBVIOUS
    <3>2. In(j + 1)
      <4>1. In(n - k) BY <2>2
      <4> HIDE DEF In, j
      <4> QED BY <3>1, <4>1
    <3> HIDE DEF In, Turn
    <3>3. Turn(j) BY <1>3, <3>1, <3>2
    <3> QED BY <3>3 DEF Turn
  <2>3. Nat \subseteq S
    <3> HIDE DEF S
    <3> QED BY <2>1, <2>2, Induction
  <2> QED BY <2>3
<1>5. \A k \in Nat : k > 0 /\ k <= n => In(k)
  <2> SUFFICES ASSUME NEW k \in Nat, k > 0, k <= n PROVE In(k) OBVIOUS
  <2>1. n - k \in Nat /\ n - k < n /\ n - (n - k) = k OBVIOUS
  <2> HIDE DEF In
  <2> QED BY <1>4, <2>1
<1>6. ASSUME NEW k \in Nat, k > 0, k < n PROVE Turn(k)
  <2>1. In(k + 1) BY <1>5, <1>6
  <2> HIDE DEF In, Turn
  <2> QED BY <1>3, <1>6, <2>1
<1> DEFINE c == [k \in 1..(n + 1) |-> IF k = 1 THEN b ELSE b + Len(f[k - 1])]
<1>7. c[1] = b OBVIOUS
<1>8. ASSUME NEW k \in Nat, k > 0, k <= n PROVE c[k + 1] = b + Len(f[k]) BY <1>8
<1>9. Len(f[1]) \in Nat /\ In(1) /\ f[1] = parts[1]
  <2>1. Listed(f[1]) /\ In(1) BY <1>2, <1>5
  <2> QED BY <1>1, <2>1 DEF Listed
<1>10. ASSUME NEW k \in 1..n PROVE c[k] \in Nat /\ PartAt(fields, c[k], parts[k]) /\ c[k + 1] = c[k] + Len(parts[k])
  <2>1. CASE k = 1
    <3>1. c[k + 1] = b + Len(f[1]) BY <1>8, <2>1
    <3> HIDE DEF c
    <3> QED BY <1>7, <1>9, <2>1, <3>1
  <2>2. CASE k # 1
    <3> DEFINE j == k - 1
    <3>1. j \in Nat /\ j > 0 /\ j < n /\ j <= n /\ j + 1 = k BY <2>2
    <3> HIDE DEF c, Turn, j
    <3>2. Turn(j) BY <1>6, <3>1
    <3>3. c[j + 1] = b + Len(f[j]) /\ c[k + 1] = b + Len(f[k])
      <4>1. k \in Nat /\ k > 0 /\ k <= n OBVIOUS
      <4>2. c[k + 1] = b + Len(f[k]) BY ONLY <1>8, <4>1
      <4>3. c[j + 1] = b + Len(f[j]) BY ONLY <1>8, <3>1
      <4> QED BY <4>2, <4>3
    <3>4. c[k] = b + Len(f[j]) BY <3>1, <3>3
    <3>5. /\ PartAt(fields, b + Len(f[j]), parts[j + 1]) /\ Len(f[j]) \in Nat /\ Len(parts[j + 1]) \in Nat
          /\ Len(f[j + 1]) = Len(f[j]) + Len(parts[j + 1])
      BY <3>2 DEF Turn
    <3>6. /\ PartAt(fields, b + Len(f[j]), parts[k]) /\ Len(parts[k]) \in Nat
          /\ Len(f[k]) = Len(f[j]) + Len(parts[k])
      BY <3>1, <3>5
    <3> QED BY <3>3, <3>4, <3>5, <3>6
  <2> QED BY <2>1, <2>2
<1>11. c[n + 1] = b + Len(FlattenSeq(parts)) BY <1>1, <1>8
<1> HIDE DEF c
<1> QED BY <1>7, <1>10, <1>11 DEF Chained

\* The parts of the full synchronisation.
SyncParts(n) ==
  << SyncHead(n), Times(n.items, SentItem),
     << Mass(n.nanos) >>, FlattenSeq(NanosSent(n.nanos)), << Mass(0) >>,
     TimersPart(1, n.timers[1]), TimersPart(2, n.timers[2]), TimersPart(3, n.timers[3]),
     << Mass(n.stats[1]) >>, FlattenSeq(StatsSent(4, 4, 1, n.stats[1])),
     << Mass(n.stats[2]) >>, FlattenSeq(StatsSent(4, 4, 2, n.stats[2])),
     << Mass(n.stats[3]) >>, FlattenSeq(StatsSent(1, 1, 3, n.stats[3])),
     << Mass(n.stats[4]) >>, FlattenSeq(StatsSent(1, 2, 4, n.stats[4])),
     << Fk("count", 4, n.absorb) >>, FlattenSeq(AbsorbsSent(n.absorb)), SyncRest,
     << Mass(n.perks) >>, FlattenSeq(PerksSent(n.perks)) >>

\* They are what is sent.
LEMMA SyncJoined ==
    ASSUME NEW n
    PROVE  SentSync(n) = FlattenSeq(SyncParts(n)) /\ Len(SyncParts(n)) = 21
<1> DEFINE q == SyncParts(n)
<1>1. Len(q) = 21 BY DEF SyncParts
<1>2. /\ q[1] = SyncHead(n) /\ q[2] = Times(n.items, SentItem)
      /\ q[3] = << Mass(n.nanos) >> /\ q[4] = FlattenSeq(NanosSent(n.nanos)) /\ q[5] = << Mass(0) >>
      /\ q[6] = TimersPart(1, n.timers[1]) /\ q[7] = TimersPart(2, n.timers[2]) /\ q[8] = TimersPart(3, n.timers[3])
      /\ q[9] = << Mass(n.stats[1]) >> /\ q[10] = FlattenSeq(StatsSent(4, 4, 1, n.stats[1]))
      /\ q[11] = << Mass(n.stats[2]) >> /\ q[12] = FlattenSeq(StatsSent(4, 4, 2, n.stats[2]))
      /\ q[13] = << Mass(n.stats[3]) >> /\ q[14] = FlattenSeq(StatsSent(1, 1, 3, n.stats[3]))
      /\ q[15] = << Mass(n.stats[4]) >> /\ q[16] = FlattenSeq(StatsSent(1, 2, 4, n.stats[4]))
      /\ q[17] = << Fk("count", 4, n.absorb) >> /\ q[18] = FlattenSeq(AbsorbsSent(n.absorb)) /\ q[19] = SyncRest
      /\ q[20] = << Mass(n.perks) >> /\ q[21] = FlattenSeq(PerksSent(n.perks))
  BY DEF SyncParts
<1> HIDE DEF q
<1> DEFINE last == 21
<1>3. PICK f : /\ f[1] = q[1]
               /\ \A k \in Nat : k > 0 /\ k < last => f[k + 1] = f[k] \o q[k + 1]
               /\ FlattenSeq(q) = f[last]
  <2>1. Len(q) = last BY <1>1
  <2>2. last \in Nat /\ last # 0 OBVIOUS
  <2> HIDE DEF last
  <2>3. Len(q) \in Nat /\ Len(q) # 0 BY <2>1, <2>2
  <2> QED BY ONLY <2>1, <2>3, FlattenLoop
<1>4. \A k \in 1..20 : f[k + 1] = f[k] \o q[k + 1]
  <2> SUFFICES ASSUME NEW k \in 1..20 PROVE f[k + 1] = f[k] \o q[k + 1] OBVIOUS
  <2>1. k \in Nat /\ k > 0 /\ k < last OBVIOUS
  <2> QED BY ONLY <1>3, <2>1
<1>5. f[2] = f[1] \o q[2]
  <2>1. 1 \in 1..20 /\ 1 + 1 = 2 OBVIOUS
  <2> QED BY ONLY <1>4, <2>1
<1>6. f[3] = f[2] \o q[3]
  <2>1. 2 \in 1..20 /\ 2 + 1 = 3 OBVIOUS
  <2> QED BY ONLY <1>4, <2>1
<1>7. f[4] = f[3] \o q[4]
  <2>1. 3 \in 1..20 /\ 3 + 1 = 4 OBVIOUS
  <2> QED BY ONLY <1>4, <2>1
<1>8. f[5] = f[4] \o q[5]
  <2>1. 4 \in 1..20 /\ 4 + 1 = 5 OBVIOUS
  <2> QED BY ONLY <1>4, <2>1
<1>9. f[6] = f[5] \o q[6]
  <2>1. 5 \in 1..20 /\ 5 + 1 = 6 OBVIOUS
  <2> QED BY ONLY <1>4, <2>1
<1>10. f[7] = f[6] \o q[7]
  <2>1. 6 \in 1..20 /\ 6 + 1 = 7 OBVIOUS
  <2> QED BY ONLY <1>4, <2>1
<1>11. f[8] = f[7] \o q[8]
  <2>1. 7 \in 1..20 /\ 7 + 1 = 8 OBVIOUS
  <2> QED BY ONLY <1>4, <2>1
<1>12. f[9] = f[8] \o q[9]
  <2>1. 8 \in 1..20 /\ 8 + 1 = 9 OBVIOUS
  <2> QED BY ONLY <1>4, <2>1
<1>13. f[10] = f[9] \o q[10]
  <2>1. 9 \in 1..20 /\ 9 + 1 = 10 OBVIOUS
  <2> QED BY ONLY <1>4, <2>1
<1>14. f[11] = f[10] \o q[11]
  <2>1. 10 \in 1..20 /\ 10 + 1 = 11 OBVIOUS
  <2> QED BY ONLY <1>4, <2>1
<1>15. f[12] = f[11] \o q[12]
  <2>1. 11 \in 1..20 /\ 11 + 1 = 12 OBVIOUS
  <2> QED BY ONLY <1>4, <2>1
<1>16. f[13] = f[12] \o q[13]
  <2>1. 12 \in 1..20 /\ 12 + 1 = 13 OBVIOUS
  <2> QED BY ONLY <1>4, <2>1
<1>17. f[14] = f[13] \o q[14]
  <2>1. 13 \in 1..20 /\ 13 + 1 = 14 OBVIOUS
  <2> QED BY ONLY <1>4, <2>1
<1>18. f[15] = f[14] \o q[15]
  <2>1. 14 \in 1..20 /\ 14 + 1 = 15 OBVIOUS
  <2> QED BY ONLY <1>4, <2>1
<1>19. f[16] = f[15] \o q[16]
  <2>1. 15 \in 1..20 /\ 15 + 1 = 16 OBVIOUS
  <2> QED BY ONLY <1>4, <2>1
<1>20. f[17] = f[16] \o q[17]
  <2>1. 16 \in 1..20 /\ 16 + 1 = 17 OBVIOUS
  <2> QED BY ONLY <1>4, <2>1
<1>21. f[18] = f[17] \o q[18]
  <2>1. 17 \in 1..20 /\ 17 + 1 = 18 OBVIOUS
  <2> QED BY ONLY <1>4, <2>1
<1>22. f[19] = f[18] \o q[19]
  <2>1. 18 \in 1..20 /\ 18 + 1 = 19 OBVIOUS
  <2> QED BY ONLY <1>4, <2>1
<1>23. f[20] = f[19] \o q[20]
  <2>1. 19 \in 1..20 /\ 19 + 1 = 20 OBVIOUS
  <2> QED BY ONLY <1>4, <2>1
<1>24. f[21] = f[20] \o q[21]
  <2>1. 20 \in 1..20 /\ 20 + 1 = 21 OBVIOUS
  <2> QED BY ONLY <1>4, <2>1
<1>25. f[11] = q[1] \o q[2] \o q[3] \o q[4] \o q[5] \o q[6] \o q[7] \o q[8] \o q[9] \o q[10] \o q[11]
  BY ONLY <1>3, <1>5, <1>6, <1>7, <1>8, <1>9, <1>10, <1>11, <1>12, <1>13, <1>14
<1>26. f[21] = q[1] \o q[2] \o q[3] \o q[4] \o q[5] \o q[6] \o q[7] \o q[8] \o q[9] \o q[10] \o q[11] \o q[12]
              \o q[13] \o q[14] \o q[15] \o q[16] \o q[17] \o q[18] \o q[19] \o q[20] \o q[21]
  BY ONLY <1>25, <1>15, <1>16, <1>17, <1>18, <1>19, <1>20, <1>21, <1>22, <1>23, <1>24
<1>27. SentSync(n) = f[21] BY ONLY <1>2, <1>26, SyncBody
<1> QED BY <1>1, <1>3, <1>27 DEF q, last

\* The lists of a full synchronisation have any length.
SyncCounts(n) ==
  /\ n.items \in Nat /\ n.nanos \in Nat /\ n.absorb \in Nat /\ n.perks \in Nat
  /\ n.timers[1] \in Nat /\ n.timers[2] \in Nat /\ n.timers[3] \in Nat
  /\ n.stats[1] \in Nat /\ n.stats[2] \in Nat /\ n.stats[3] \in Nat /\ n.stats[4] \in Nat

\* A list of timers is a sequence.
LEMMA TimersListed ==
    ASSUME NEW i, NEW n \in Nat
    PROVE  Listed(TimersPart(i, n))
<1> DEFINE h == << Fk("which", 4, i), Fk("count", 4, n) >>
           seqs == TimersSent(n)
           L == 1
<1>1. Listed(h) BY ListedTwo
<1>2. Parted(seqs, n, L) BY TimersParted
<1>3. TimersPart(i, n) = h \o FlattenSeq(seqs) BY DEF TimersPart
<1> HIDE DEF h, seqs, L
<1>4. Listed(FlattenSeq(seqs)) BY <1>2, PartsListed
<1> QED BY <1>1, <1>3, <1>4, ListedJoined

\* So is every part of the full synchronisation.
LEMMA SyncListed ==
    ASSUME NEW n, SyncCounts(n)
    PROVE  \A k \in 1..21 : Listed(SyncParts(n)[k])
<1> DEFINE q == SyncParts(n)
<1>1. Listed(SyncHead(n)) /\ Listed(SyncRest) BY ListedThree DEF SyncHead, SyncRest
<1>2. Listed(Times(n.items, SentItem)) BY ItemsListed DEF SyncCounts
<1>3. \A x : Listed(<<x>>) BY ListedOne
<1>4. Listed(FlattenSeq(NanosSent(n.nanos)))
  <2>1. Parted(NanosSent(n.nanos), n.nanos, 1) BY NanosParted DEF SyncCounts
  <2> QED BY <2>1, PartsListed
<1>5. ASSUME NEW u, NEW w, NEW section, NEW i \in 1..4 PROVE Listed(FlattenSeq(StatsSent(u, w, section, n.stats[i])))
  <2>1. n.stats[i] \in Nat
    <3>1. i = 1 \/ i = 2 \/ i = 3 \/ i = 4 OBVIOUS
    <3> QED BY <3>1 DEF SyncCounts
  <2>2. Parted(StatsSent(u, w, section, n.stats[i]), n.stats[i], 2) BY <2>1, StatsParted
  <2> QED BY <2>2, PartsListed
<1>6. Listed(FlattenSeq(AbsorbsSent(n.absorb)))
  <2>1. Parted(AbsorbsSent(n.absorb), n.absorb, 2) BY AbsorbsParted DEF SyncCounts
  <2> QED BY <2>1, PartsListed
<1>7. Listed(FlattenSeq(PerksSent(n.perks)))
  <2>1. Parted(PerksSent(n.perks), n.perks, 1) BY PerksParted DEF SyncCounts
  <2> QED BY <2>1, PartsListed
<1>8. /\ Listed(TimersPart(1, n.timers[1])) /\ Listed(TimersPart(2, n.timers[2])) /\ Listed(TimersPart(3, n.timers[3]))
  BY TimersListed DEF SyncCounts
<1>9. /\ Listed(q[1]) /\ Listed(q[2]) /\ Listed(q[3]) /\ Listed(q[4]) /\ Listed(q[5]) /\ Listed(q[6]) /\ Listed(q[7])
      /\ Listed(q[8]) /\ Listed(q[9]) /\ Listed(q[10]) /\ Listed(q[11]) /\ Listed(q[12]) /\ Listed(q[13])
      /\ Listed(q[14]) /\ Listed(q[15]) /\ Listed(q[16]) /\ Listed(q[17]) /\ Listed(q[18]) /\ Listed(q[19])
      /\ Listed(q[20]) /\ Listed(q[21])
  BY <1>1, <1>2, <1>3, <1>4, <1>5, <1>6, <1>7, <1>8 DEF SyncParts
<1>10. \A k \in 1..21 : \/ k = 1 \/ k = 2 \/ k = 3 \/ k = 4 \/ k = 5 \/ k = 6 \/ k = 7 \/ k = 8 \/ k = 9 \/ k = 10 \/ k = 11
                        \/ k = 12 \/ k = 13 \/ k = 14 \/ k = 15 \/ k = 16 \/ k = 17 \/ k = 18 \/ k = 19 \/ k = 20 \/ k = 21
  OBVIOUS
<1> HIDE DEF q
<1>11. \A k \in 1..21 : Listed(q[k]) BY <1>9, <1>10
<1> QED BY <1>11 DEF q

\* The message begins with its header, and its parts follow.
LEMMA SyncPlaced ==
    ASSUME NEW fields \in Seq(Field), NEW type \in ServerTypes, NEW n, SyncCounts(n),
           fields = SentHeader("server", type) \o SentSync(n)
    PROVE  \E c : /\ Chained(fields, SyncParts(n), 21, c)
                  /\ AOMessageBase(Message(fields), type).pos = Ends(fields)[c[1]]
                  /\ Message(fields).end = Ends(fields)[c[22]] /\ c[22] = Len(fields)
<1> DEFINE body == SentSync(n)
           parts == SyncParts(n)
           b == HeaderLength("server", type)
           last == 21
<1>1. body = FlattenSeq(parts) /\ Len(parts) = last BY SyncJoined
<1>2. \A k \in 1..last : Listed(parts[k]) BY SyncListed
<1>3. last \in Nat /\ last # 0 OBVIOUS
<1>4. b \in Nat BY DEF HeaderLength
<1>5. Len(fields) \in Nat OBVIOUS
<1> DEFINE h == SentHeader("server", type)
<1>6. fields = h \o body OBVIOUS
<1>7. Message(fields).end = Ends(fields)[Len(fields)] BY DEF Message
<1> HIDE DEF body, parts, last
<1>8. Listed(body)
  <2>1. Stacked(parts, last) BY <1>1, <1>2, <1>3 DEF Stacked
  <2> QED BY ONLY <1>1, <2>1, ChainListed
<1>9. PartAt(fields, b, body) /\ Len(fields) = b + Len(body)
  <2>1. SentAs(fields, "server", type, body) BY ONLY <1>6, <1>8 DEF h, SentAs
  <2> QED BY ONLY <2>1, BodySent DEF b
<1>10. AOMessageBase(Message(fields), type).pos = Ends(fields)[b]
  BY ONLY fields \in Seq(Field), type \in ServerTypes, <1>6, <1>8, BasePos DEF h, b
<1> HIDE DEF b
<1>11. PartAt(fields, b, FlattenSeq(parts)) BY <1>1, <1>9
<1>12. PICK c : c[1] = b /\ Chained(fields, parts, last, c) /\ c[last + 1] = b + Len(FlattenSeq(parts))
  <2>1. Stacked(parts, last) BY <1>1, <1>2, <1>3 DEF Stacked
  <2> QED BY ONLY <1>4, <1>5, <1>11, <2>1, PartsChained
<1>13. c[22] = Len(fields)
  <2>1. last + 1 = 22 BY DEF last
  <2> QED BY <1>1, <1>9, <1>12, <2>1
<1>14. Chained(fields, SyncParts(n), 21, c) BY <1>12 DEF parts, last
<1> QED BY <1>7, <1>10, <1>12, <1>13, <1>14

\* A count x at c, the list behind it at d, and what follows at e.
ListAt(fields, c, d, e, x, seqs) ==
  /\ PartAt(fields, c, <<x>>) /\ d = c + 1
  /\ PartAt(fields, d, FlattenSeq(seqs)) /\ e = d + Len(FlattenSeq(seqs))
\* A list of timers at c, and what follows at d.
TimersAt(fields, c, d, i, n) == PartAt(fields, c, TimersPart(i, n)) /\ d = c + Len(TimersPart(i, n))
\* The parts of the full synchronisation are at c[1] to c[21].
SyncAt(fields, n, c) ==
  /\ c[1] \in Nat /\ PartAt(fields, c[1], SyncHead(n)) /\ c[2] = c[1] + 3
  /\ PartAt(fields, c[2], Times(n.items, SentItem)) /\ c[3] = c[2] + Len(Times(n.items, SentItem))
  /\ ListAt(fields, c[3], c[4], c[5], Mass(n.nanos), NanosSent(n.nanos))
  /\ PartAt(fields, c[5], << Mass(0) >>) /\ c[6] = c[5] + 1
  /\ TimersAt(fields, c[6], c[7], 1, n.timers[1])
  /\ TimersAt(fields, c[7], c[8], 2, n.timers[2])
  /\ TimersAt(fields, c[8], c[9], 3, n.timers[3])
  /\ ListAt(fields, c[9], c[10], c[11], Mass(n.stats[1]), StatsSent(4, 4, 1, n.stats[1]))
  /\ ListAt(fields, c[11], c[12], c[13], Mass(n.stats[2]), StatsSent(4, 4, 2, n.stats[2]))
  /\ ListAt(fields, c[13], c[14], c[15], Mass(n.stats[3]), StatsSent(1, 1, 3, n.stats[3]))
  /\ ListAt(fields, c[15], c[16], c[17], Mass(n.stats[4]), StatsSent(1, 2, 4, n.stats[4]))
  /\ ListAt(fields, c[17], c[18], c[19], Fk("count", 4, n.absorb), AbsorbsSent(n.absorb))
  /\ c[19] \in Nat /\ PartAt(fields, c[19], SyncRest) /\ c[20] = c[19] + 3
  /\ ListAt(fields, c[20], c[21], c[22], Mass(n.perks), PerksSent(n.perks))

\* Where each part of the full synchronisation is.
LEMMA SyncSteps ==
    ASSUME NEW fields, NEW n, NEW c, Chained(fields, SyncParts(n), 21, c)
    PROVE  SyncAt(fields, n, c)
<1> DEFINE q == SyncParts(n)
<1>1. \A k \in 1..21 : c[k] \in Nat /\ PartAt(fields, c[k], q[k]) /\ c[k + 1] = c[k] + Len(q[k]) BY DEF Chained
<1>2. /\ q[1] = SyncHead(n) /\ q[2] = Times(n.items, SentItem)
      /\ q[3] = << Mass(n.nanos) >> /\ q[4] = FlattenSeq(NanosSent(n.nanos)) /\ q[5] = << Mass(0) >>
      /\ q[6] = TimersPart(1, n.timers[1]) /\ q[7] = TimersPart(2, n.timers[2]) /\ q[8] = TimersPart(3, n.timers[3])
      /\ q[9] = << Mass(n.stats[1]) >> /\ q[10] = FlattenSeq(StatsSent(4, 4, 1, n.stats[1]))
      /\ q[11] = << Mass(n.stats[2]) >> /\ q[12] = FlattenSeq(StatsSent(4, 4, 2, n.stats[2]))
      /\ q[13] = << Mass(n.stats[3]) >> /\ q[14] = FlattenSeq(StatsSent(1, 1, 3, n.stats[3]))
      /\ q[15] = << Mass(n.stats[4]) >> /\ q[16] = FlattenSeq(StatsSent(1, 2, 4, n.stats[4]))
      /\ q[17] = << Fk("count", 4, n.absorb) >> /\ q[18] = FlattenSeq(AbsorbsSent(n.absorb)) /\ q[19] = SyncRest
      /\ q[20] = << Mass(n.perks) >> /\ q[21] = FlattenSeq(PerksSent(n.perks))
  BY DEF SyncParts
<1> HIDE DEF q
<1>3. \A x : Len(<<x>>) = 1 OBVIOUS
<1>4. Len(SyncHead(n)) = 3 /\ Len(SyncRest) = 3 BY DEF SyncHead, SyncRest
<1> DEFINE At(k, l) == c[k] \in Nat /\ PartAt(fields, c[k], q[k]) /\ c[l] = c[k] + Len(q[k])
<1>5. ASSUME NEW k \in 1..21, NEW l, l = k + 1 PROVE At(k, l) BY ONLY <1>1, <1>5
<1> HIDE DEF At
<1>6. At(1, 2)
  <2>1. 1 \in 1..21 /\ 2 = 1 + 1 OBVIOUS
  <2> QED BY ONLY <1>5, <2>1
<1>7. At(2, 3)
  <2>1. 2 \in 1..21 /\ 3 = 2 + 1 OBVIOUS
  <2> QED BY ONLY <1>5, <2>1
<1>8. At(3, 4)
  <2>1. 3 \in 1..21 /\ 4 = 3 + 1 OBVIOUS
  <2> QED BY ONLY <1>5, <2>1
<1>9. At(4, 5)
  <2>1. 4 \in 1..21 /\ 5 = 4 + 1 OBVIOUS
  <2> QED BY ONLY <1>5, <2>1
<1>10. At(5, 6)
  <2>1. 5 \in 1..21 /\ 6 = 5 + 1 OBVIOUS
  <2> QED BY ONLY <1>5, <2>1
<1>11. At(6, 7)
  <2>1. 6 \in 1..21 /\ 7 = 6 + 1 OBVIOUS
  <2> QED BY ONLY <1>5, <2>1
<1>12. At(7, 8)
  <2>1. 7 \in 1..21 /\ 8 = 7 + 1 OBVIOUS
  <2> QED BY ONLY <1>5, <2>1
<1>13. At(8, 9)
  <2>1. 8 \in 1..21 /\ 9 = 8 + 1 OBVIOUS
  <2> QED BY ONLY <1>5, <2>1
<1>14. At(9, 10)
  <2>1. 9 \in 1..21 /\ 10 = 9 + 1 OBVIOUS
  <2> QED BY ONLY <1>5, <2>1
<1>15. At(10, 11)
  <2>1. 10 \in 1..21 /\ 11 = 10 + 1 OBVIOUS
  <2> QED BY ONLY <1>5, <2>1
<1>16. At(11, 12)
  <2>1. 11 \in 1..21 /\ 12 = 11 + 1 OBVIOUS
  <2> QED BY ONLY <1>5, <2>1
<1>17. At(12, 13)
  <2>1. 12 \in 1..21 /\ 13 = 12 + 1 OBVIOUS
  <2> QED BY ONLY <1>5, <2>1
<1>18. At(13, 14)
  <2>1. 13 \in 1..21 /\ 14 = 13 + 1 OBVIOUS
  <2> QED BY ONLY <1>5, <2>1
<1>19. At(14, 15)
  <2>1. 14 \in 1..21 /\ 15 = 14 + 1 OBVIOUS
  <2> QED BY ONLY <1>5, <2>1
<1>20. At(15, 16)
  <2>1. 15 \in 1..21 /\ 16 = 15 + 1 OBVIOUS
  <2> QED BY ONLY <1>5, <2>1
<1>21. At(16, 17)
  <2>1. 16 \in 1..21 /\ 17 = 16 + 1 OBVIOUS
  <2> QED BY ONLY <1>5, <2>1
<1>22. At(17, 18)
  <2>1. 17 \in 1..21 /\ 18 = 17 + 1 OBVIOUS
  <2> QED BY ONLY <1>5, <2>1
<1>23. At(18, 19)
  <2>1. 18 \in 1..21 /\ 19 = 18 + 1 OBVIOUS
  <2> QED BY ONLY <1>5, <2>1
<1>24. At(19, 20)
  <2>1. 19 \in 1..21 /\ 20 = 19 + 1 OBVIOUS
  <2> QED BY ONLY <1>5, <2>1
<1>25. At(20, 21)
  <2>1. 20 \in 1..21 /\ 21 = 20 + 1 OBVIOUS
  <2> QED BY ONLY <1>5, <2>1
<1>26. At(21, 22)
  <2>1. 21 \in 1..21 /\ 22 = 21 + 1 OBVIOUS
  <2> QED BY ONLY <1>5, <2>1
<1>27. c[1] \in Nat /\ PartAt(fields, c[1], SyncHead(n)) /\ c[2] = c[1] + 3
  BY ONLY <1>6, <1>2, <1>4 DEF At
<1>28. PartAt(fields, c[2], Times(n.items, SentItem)) /\ c[3] = c[2] + Len(Times(n.items, SentItem))
  BY ONLY <1>7, <1>2 DEF At
<1>29. ListAt(fields, c[3], c[4], c[5], Mass(n.nanos), NanosSent(n.nanos))
  BY ONLY <1>8, <1>9, <1>2, <1>3 DEF At, ListAt
<1>30. PartAt(fields, c[5], << Mass(0) >>) /\ c[6] = c[5] + 1
  BY ONLY <1>10, <1>2, <1>3 DEF At
<1>31. TimersAt(fields, c[6], c[7], 1, n.timers[1])
  BY ONLY <1>11, <1>2 DEF At, TimersAt
<1>32. TimersAt(fields, c[7], c[8], 2, n.timers[2])
  BY ONLY <1>12, <1>2 DEF At, TimersAt
<1>33. TimersAt(fields, c[8], c[9], 3, n.timers[3])
  BY ONLY <1>13, <1>2 DEF At, TimersAt
<1>34. ListAt(fields, c[9], c[10], c[11], Mass(n.stats[1]), StatsSent(4, 4, 1, n.stats[1]))
  BY ONLY <1>14, <1>15, <1>2, <1>3 DEF At, ListAt
<1>35. ListAt(fields, c[11], c[12], c[13], Mass(n.stats[2]), StatsSent(4, 4, 2, n.stats[2]))
  BY ONLY <1>16, <1>17, <1>2, <1>3 DEF At, ListAt
<1>36. ListAt(fields, c[13], c[14], c[15], Mass(n.stats[3]), StatsSent(1, 1, 3, n.stats[3]))
  BY ONLY <1>18, <1>19, <1>2, <1>3 DEF At, ListAt
<1>37. ListAt(fields, c[15], c[16], c[17], Mass(n.stats[4]), StatsSent(1, 2, 4, n.stats[4]))
  BY ONLY <1>20, <1>21, <1>2, <1>3 DEF At, ListAt
<1>38. ListAt(fields, c[17], c[18], c[19], Fk("count", 4, n.absorb), AbsorbsSent(n.absorb))
  BY ONLY <1>22, <1>23, <1>2, <1>3 DEF At, ListAt
<1>39. c[19] \in Nat /\ PartAt(fields, c[19], SyncRest) /\ c[20] = c[19] + 3
  BY ONLY <1>24, <1>2, <1>4 DEF At
<1>40. ListAt(fields, c[20], c[21], c[22], Mass(n.perks), PerksSent(n.perks))
  BY ONLY <1>25, <1>26, <1>2, <1>3 DEF At, ListAt
<1> QED BY ONLY <1>27, <1>28, <1>29, <1>30, <1>31, <1>32, <1>33, <1>34, <1>35, <1>36, <1>37, <1>38, <1>39, <1>40 DEF SyncAt

\* A counted list is read to its end, and each of its elements is found.
LEMMA ListCounted ==
    ASSUME NEW fields \in Seq(Field), NEW c, NEW d, NEW e, NEW n, n \in Nat, NEW seqs,
           ListAt(fields, c, d, e, Mass(n), seqs),
           NEW L, Parted(seqs, n, L), NEW script, WideAll(script, seqs, n, L)
    PROVE  /\ Counted(Message(fields), Ends(fields)[c], script).pos = Ends(fields)[e]
           /\ Len(Counted(Message(fields), Ends(fields)[c], script).got) = n
<1>1. /\ PartAt(fields, c, << Mass(n) >>) /\ d = c + 1
      /\ PartAt(fields, d, FlattenSeq(seqs)) /\ e = d + Len(FlattenSeq(seqs))
  BY DEF ListAt
<1>2. Counted(Message(fields), Ends(fields)[c], script).pos = Ends(fields)[d + Len(FlattenSeq(seqs))]
  BY <1>1, CountedEnd
<1>3. Counted(Message(fields), Ends(fields)[c], script) = ReadMany(Message(fields), Ends(fields)[c + 1], n, script)
  BY <1>1, CountedIs
<1>4. Len(ReadMany(Message(fields), Ends(fields)[d], n, script).got) = n
  <2>1. Parted(seqs, n, L) /\ WideAll(script, seqs, n, L) /\ PartAt(fields, d, FlattenSeq(seqs)) BY <1>1
  <2>2. ScriptedMany(fields, d, n, script) BY ONLY fields \in Seq(Field), <2>1, ListScripted
  <2> QED BY ONLY <2>2, ManyRead
<1> QED BY <1>1, <1>2, <1>3, <1>4

\* The k-th element of a counted list at c, which gives v under the name x.
CountedAt(fields, c, d, e, n, seqs, L, script, k, x, v) ==
  /\ fields \in Seq(Field) /\ n \in Nat /\ ListAt(fields, c, d, e, Mass(n), seqs)
  /\ Parted(seqs, n, L) /\ WideAll(script, seqs, n, L) /\ k \in 1..n /\ Gives(script, seqs[k], x, v)

\* The member x of its k-th element.
LEMMA CountedElement ==
    ASSUME NEW fields, NEW c, NEW d, NEW e, NEW n, NEW seqs, NEW L, NEW script, NEW k, NEW x, NEW v,
           CountedAt(fields, c, d, e, n, seqs, L, script, k, x, v)
    PROVE  Counted(Message(fields), Ends(fields)[c], script).got[k][x] = v
<1>0. /\ fields \in Seq(Field) /\ n \in Nat /\ ListAt(fields, c, d, e, Mass(n), seqs)
      /\ Parted(seqs, n, L) /\ WideAll(script, seqs, n, L) /\ k \in 1..n /\ Gives(script, seqs[k], x, v)
  BY DEF CountedAt
<1> USE <1>0
<1>1. /\ PartAt(fields, c, << Mass(n) >>) /\ d = c + 1 /\ PartAt(fields, d, FlattenSeq(seqs))
  BY DEF ListAt
<1>2. Counted(Message(fields), Ends(fields)[c], script) = ReadMany(Message(fields), Ends(fields)[c + 1], n, script)
  BY <1>1, CountedIs
<1>3. PartAt(fields, d, FlattenSeq(seqs)) BY <1>1
<1>4. Parted(seqs, n, L) /\ WideAll(script, seqs, n, L) OBVIOUS
<1>5. Gives(script, seqs[k], x, v) OBVIOUS
<1>6. ReadMany(Message(fields), Ends(fields)[d], n, script).got[k][x] = v
  <2>1. ElementAt(fields, d, seqs, n, L, script, k, x, v)
    BY ONLY fields \in Seq(Field), <1>3, <1>4, <1>5, k \in 1..n DEF ElementAt
  <2> QED BY ONLY <2>1, ListElement
<1> QED BY <1>1, <1>2, <1>6

\* A list with a plain count is read to its end.
LEMMA PlainCounted ==
    ASSUME NEW fields \in Seq(Field), NEW c, NEW d, NEW e, NEW n \in Nat, NEW seqs,
           ListAt(fields, c, d, e, Fk("count", 4, n), seqs),
           NEW L, Parted(seqs, n, L), NEW script, WideAll(script, seqs, n, L)
    PROVE  CountedPlain(Message(fields), Ends(fields)[c], script).pos = Ends(fields)[e]
<1>1. /\ PartAt(fields, c, << Fk("count", 4, n) >>) /\ d = c + 1
      /\ PartAt(fields, d, FlattenSeq(seqs)) /\ e = d + Len(FlattenSeq(seqs))
  BY DEF ListAt
<1>2. CountedPlain(Message(fields), Ends(fields)[c], script).pos = Ends(fields)[d + Len(FlattenSeq(seqs))]
  BY <1>1, PlainEnd
<1> QED BY <1>1, <1>2

\* A map of stats at c, and what follows at e.
StatsAt(fields, c, d, e, n, u, w, section, base) ==
  /\ fields \in Seq(Field) /\ n \in Nat /\ base = 10 * section
  /\ ListAt(fields, c, d, e, Mass(n), StatsSent(u, w, section, n))

\* A map of stats: where it ends, how many entries it has, and each of them.
LEMMA StatsCounted ==
    ASSUME NEW fields, NEW c, NEW d, NEW e, NEW n, NEW u, NEW w, NEW section, NEW base,
           StatsAt(fields, c, d, e, n, u, w, section, base)
    PROVE  /\ Counted(Message(fields), Ends(fields)[c], Stat(u, w)).pos = Ends(fields)[e]
           /\ StatsListed(Counted(Message(fields), Ends(fields)[c], Stat(u, w)).got, n, base)
<1> DEFINE seqs == StatsSent(u, w, section, n)
           script == Stat(u, w)
           L == 2
<1>0. /\ fields \in Seq(Field) /\ n \in Nat /\ base = 10 * section
      /\ ListAt(fields, c, d, e, Mass(n), StatsSent(u, w, section, n))
  BY DEF StatsAt
<1>1. /\ Parted(seqs, n, L) /\ WideAll(script, seqs, n, L)
      /\ \A k \in 1..n : /\ Gives(script, seqs[k], "key", <<"key", k>>)
                         /\ Gives(script, seqs[k], "val", <<"val", 10 * section + k>>)
  BY <1>0, StatsParted
<1>2. ListAt(fields, c, d, e, Mass(n), seqs) BY <1>0
<1> HIDE DEF seqs, script, L
<1>3. /\ Counted(Message(fields), Ends(fields)[c], script).pos = Ends(fields)[e]
      /\ Len(Counted(Message(fields), Ends(fields)[c], script).got) = n
  BY ONLY <1>0, <1>1, <1>2, ListCounted
<1>4. ASSUME NEW k \in 1..n PROVE Counted(Message(fields), Ends(fields)[c], script).got[k]["key"] = <<"key", k>>
  <2> DEFINE x == "key"
             v == <<"key", k>>
  <2>1. Gives(script, seqs[k], x, v) /\ Parted(seqs, n, L) /\ WideAll(script, seqs, n, L) BY <1>0, <1>1
  <2> HIDE DEF x, v
  <2>2. Counted(Message(fields), Ends(fields)[c], script).got[k][x] = v
    <3>1. CountedAt(fields, c, d, e, n, seqs, L, script, k, x, v)
      BY ONLY <1>0, k \in 1..n, <1>2, <2>1 DEF CountedAt
    <3> QED BY ONLY <3>1, CountedElement
  <2> QED BY <2>2 DEF x, v
<1>5. ASSUME NEW k \in 1..n PROVE Counted(Message(fields), Ends(fields)[c], script).got[k]["val"] = <<"val", base + k>>
  <2> DEFINE x == "val"
             v == <<"val", base + k>>
  <2>1. Gives(script, seqs[k], x, v) /\ Parted(seqs, n, L) /\ WideAll(script, seqs, n, L) BY <1>0, <1>1
  <2> HIDE DEF x, v
  <2>2. Counted(Message(fields), Ends(fields)[c], script).got[k][x] = v
    <3>1. CountedAt(fields, c, d, e, n, seqs, L, script, k, x, v)
      BY ONLY <1>0, k \in 1..n, <1>2, <2>1 DEF CountedAt
    <3> QED BY ONLY <3>1, CountedElement
  <2> QED BY <2>2 DEF x, v
<1>6. StatsListed(Counted(Message(fields), Ends(fields)[c], script).got, n, base)
  BY ONLY <1>0, <1>3, <1>4, <1>5 DEF StatsListed
<1> QED BY <1>3, <1>6 DEF script

\* The head of a full synchronisation at b, its items at d; p is behind the version.
ItemsAt(fields, b, d, n, p) ==
  /\ fields \in Seq(Field) /\ n.items \in Nat /\ b \in Nat /\ d = b + 3
  /\ PartAt(fields, b, SyncHead(n)) /\ PartAt(fields, d, Times(n.items, SentItem))
  /\ p = Read(Message(fields), Ends(fields)[b], << Pop(1, "pad"), Pop(4, "version") >>).pos

\* The head of the full synchronisation is read, and its items behind it.
LEMMA SyncItemsRead ==
    ASSUME NEW fields, NEW b, NEW d, NEW n, NEW p, ItemsAt(fields, b, d, n, p)
    PROVE  /\ Counted(Message(fields), p, AOContainerItem).pos = Ends(fields)[d + Len(Times(n.items, SentItem))]
           /\ ItemsRead(Counted(Message(fields), p, AOContainerItem).got, n.items)
<1> DEFINE s == SyncHead(n)
           x == F("pad", 1)
           y == F("version", 4)
           z == Mass(n.items)
           script == << Pop(1, "pad"), Pop(4, "version") >>
           two == <<x, y>>
           c == b + 2
           k == n.items
<1>0. /\ fields \in Seq(Field) /\ n.items \in Nat /\ b \in Nat /\ d = b + 3
      /\ PartAt(fields, b, SyncHead(n)) /\ PartAt(fields, d, Times(n.items, SentItem))
      /\ p = Read(Message(fields), Ends(fields)[b], << Pop(1, "pad"), Pop(4, "version") >>).pos
  BY DEF ItemsAt
<1> USE <1>0
<1>1. Listed(s) /\ Len(s) = 3 /\ s[1] = x /\ s[2] = y /\ s[3] = z
  <2> HIDE DEF x, y, z
  <2> QED BY ListedThree DEF SyncHead, x, y, z
<1>2. x[2] = 1 /\ y[2] = 4 /\ script[1][2] = 1 /\ script[2][2] = 4 BY DEF F, Pop
<1>3. Listed(script) /\ Len(script) = 2 BY ListedTwo
<1> HIDE DEF x, y, z, script
<1>4. Listed(two) /\ Len(two) = 2 /\ two[1] = x /\ two[2] = y BY ListedTwo
<1> HIDE DEF two
<1>5. b \in Nat /\ b + 3 <= Len(fields) /\ fields[b + 1] = x /\ fields[b + 2] = y /\ Len(fields) \in Nat BY <1>1 DEF PartAt, s
<1>6. \A j \in 1..2 : j = 1 \/ j = 2 OBVIOUS
<1>7. PartAt(fields, b, two)
  <2>1. \A j \in 1..Len(two) : fields[b + j] = two[j] BY <1>4, <1>5, <1>6
  <2> QED BY <1>4, <1>5, <2>1 DEF PartAt
<1>8. Wide(script, two)
  <2>1. \A j \in 1..Len(two) : script[j][2] = two[j][2] BY <1>2, <1>4, <1>6
  <2> QED BY <1>3, <1>4, <2>1 DEF Wide
<1>9. Read(Message(fields), Ends(fields)[b], script).pos = Ends(fields)[b + Len(two)]
  BY ONLY fields \in Seq(Field), <1>7, <1>8, PartScripted
<1>10. p = Ends(fields)[c] BY <1>4, <1>9 DEF script
<1>11. PartAt(fields, c, <<z>>)
  <2> DEFINE j == 3
  <2>1. Len(s) \in Nat /\ j \in 1..Len(s) /\ c \in Nat /\ c + 1 = b + j /\ z = s[j] BY <1>1, <1>5
  <2>2. PartAt(fields, b, s) OBVIOUS
  <2> HIDE DEF j, s, c
  <2> QED BY ONLY <1>5, <2>1, <2>2, PartSingle
<1>12. d = c + 1 /\ k \in Nat OBVIOUS
<1> HIDE DEF c, s
<1>13. Counted(Message(fields), Ends(fields)[c], AOContainerItem)
         = ReadMany(Message(fields), Ends(fields)[c + 1], k, AOContainerItem)
  <2>1. PartAt(fields, c, << Mass(k) >>) BY <1>11 DEF z
  <2> HIDE DEF k
  <2> QED BY ONLY fields \in Seq(Field), <1>12, <2>1, CountedIs
<1>14. PartAt(fields, d, Times(k, SentItem)) OBVIOUS
<1> HIDE DEF k
<1>15. /\ ReadMany(Message(fields), Ends(fields)[d], k, AOContainerItem).pos = Ends(fields)[d + k * 9]
       /\ ItemsRead(ReadMany(Message(fields), Ends(fields)[d], k, AOContainerItem).got, k)
  BY ONLY fields \in Seq(Field), <1>12, <1>14, ItemsPopped
<1>16. Len(Times(k, SentItem)) = k * 9 BY ONLY <1>12, ItemsListed
<1>17. /\ Counted(Message(fields), p, AOContainerItem).pos = Ends(fields)[d + Len(Times(k, SentItem))]
       /\ ItemsRead(Counted(Message(fields), p, AOContainerItem).got, k)
  BY ONLY <1>10, <1>12, <1>13, <1>15, <1>16
<1> QED BY <1>17 DEF k

\* The nanos: where the list ends, how long it is, and each of them.
LEMMA NanosCounted ==
    ASSUME NEW fields \in Seq(Field), NEW c, NEW d, NEW e, NEW n \in Nat,
           ListAt(fields, c, d, e, Mass(n), NanosSent(n))
    PROVE  /\ Counted(Message(fields), Ends(fields)[c], << Pop(4, "nano") >>).pos = Ends(fields)[e]
           /\ Len(Counted(Message(fields), Ends(fields)[c], << Pop(4, "nano") >>).got) = n
           /\ \A k \in 1..n :
                 Counted(Message(fields), Ends(fields)[c], << Pop(4, "nano") >>).got[k]["nano"] = <<"nano", k>>
<1> DEFINE seqs == NanosSent(n)
           script == << Pop(4, "nano") >>
           L == 1
           x == "nano"
<1>1. /\ Parted(seqs, n, L) /\ WideAll(script, seqs, n, L)
      /\ \A k \in 1..n : Gives(script, seqs[k], x, <<"nano", k>>)
  BY NanosParted
<1>2. ListAt(fields, c, d, e, Mass(n), seqs) OBVIOUS
<1> HIDE DEF seqs, script, L, x
<1>3. /\ Counted(Message(fields), Ends(fields)[c], script).pos = Ends(fields)[e]
      /\ Len(Counted(Message(fields), Ends(fields)[c], script).got) = n
  BY ONLY fields \in Seq(Field), n \in Nat, <1>1, <1>2, ListCounted
<1>4. ASSUME NEW k \in 1..n PROVE Counted(Message(fields), Ends(fields)[c], script).got[k][x] = <<"nano", k>>
  <2> DEFINE v == <<"nano", k>>
  <2>1. Gives(script, seqs[k], x, v) /\ Parted(seqs, n, L) /\ WideAll(script, seqs, n, L) BY <1>1
  <2> HIDE DEF v
  <2>2. CountedAt(fields, c, d, e, n, seqs, L, script, k, x, v)
    BY ONLY fields \in Seq(Field), n \in Nat, k \in 1..n, <1>2, <2>1 DEF CountedAt
  <2>3. Counted(Message(fields), Ends(fields)[c], script).got[k][x] = v BY ONLY <2>2, CountedElement
  <2> QED BY <2>3 DEF v
<1> QED BY <1>3, <1>4 DEF script, x

\* The absorb list and what is unknown behind it end where they should.
LEMMA AbsorbsCounted ==
    ASSUME NEW fields \in Seq(Field), NEW c, NEW d, NEW e, NEW n \in Nat,
           ListAt(fields, c, d, e, Fk("count", 4, n), AbsorbsSent(n))
    PROVE  CountedPlain(Message(fields), Ends(fields)[c], Stat(4, 4)).pos = Ends(fields)[e]
<1> DEFINE seqs == AbsorbsSent(n)
           script == Stat(4, 4)
           L == 2
<1>1. Parted(seqs, n, L) /\ WideAll(script, seqs, n, L) BY AbsorbsParted
<1>2. ListAt(fields, c, d, e, Fk("count", 4, n), seqs) OBVIOUS
<1> HIDE DEF seqs, script, L
<1>3. CountedPlain(Message(fields), Ends(fields)[c], script).pos = Ends(fields)[e]
  BY ONLY fields \in Seq(Field), n \in Nat, <1>1, <1>2, PlainCounted
<1> QED BY <1>3 DEF script

\* Behind them are four bytes and two counts of nothing.
LEMMA RestRead ==
    ASSUME NEW fields \in Seq(Field), NEW c \in Nat, PartAt(fields, c, SyncRest), NEW d, d = c + 3,
           NEW p, p = Counted(Message(fields), Skip(Message(fields), Ends(fields)[c], 4), <<>>).pos
    PROVE  Counted(Message(fields), p, <<>>).pos = Ends(fields)[d]
<1> DEFINE s == SyncRest
           x == F("unknown", 4)
           z == Mass(0)
           m == Message(fields)
           e == Ends(fields)
           b == c + 1
           a == c + 2
<1>1. Listed(s) /\ Len(s) = 3 /\ s[1] = x /\ s[2] = z /\ s[3] = z
  <2> HIDE DEF x, z
  <2> QED BY ListedThree DEF SyncRest, x, z
<1>2. x = <<"unknown", 4, 0>> BY DEF F
<1>3. Len(fields) \in Nat /\ b \in Nat /\ a \in Nat /\ a = b + 1 /\ d = a + 1 OBVIOUS
<1> HIDE DEF x, z
<1> DEFINE j1 == 1
           j2 == 2
           j3 == 3
<1>4. /\ Len(s) \in Nat /\ j1 \in 1..Len(s) /\ j2 \in 1..Len(s) /\ j3 \in 1..Len(s)
      /\ x = s[j1] /\ z = s[j2] /\ z = s[j3]
      /\ c + 1 = c + j1 /\ b + 1 = c + j2 /\ a + 1 = c + j3
  BY <1>1
<1>5. PartAt(fields, c, s) OBVIOUS
<1> HIDE DEF s, j1, j2, j3, a, b
<1>6. PartAt(fields, c, <<x>>) BY ONLY c \in Nat, <1>3, <1>4, <1>5, PartSingle
<1>7. PartAt(fields, b, <<z>>) BY ONLY <1>3, <1>4, <1>5, PartSingle
<1>8. PartAt(fields, a, <<z>>) BY ONLY <1>3, <1>4, <1>5, PartSingle
<1>9. Skip(m, e[c], 4) = e[b]
  <2> DEFINE name == "unknown"
             k == 0
  <2>1. PartAt(fields, c, << <<name, 4, k>> >>) BY <1>2, <1>6
  <2> HIDE DEF name, k
  <2>2. Skip(Message(fields), Ends(fields)[c], 4) = Ends(fields)[c + 1] BY ONLY fields \in Seq(Field), <2>1, CountRead
  <2> QED BY <2>2 DEF b
<1>10. Counted(m, e[b], <<>>).pos = e[a]
  <2>1. PartAt(fields, b, << Mass(0) >>) BY <1>7 DEF z
  <2>2. Counted(Message(fields), Ends(fields)[b], <<>>).pos = Ends(fields)[b + 1]
    BY ONLY fields \in Seq(Field), <2>1, NoneCounted
  <2> QED BY <1>3, <2>2
<1>11. Counted(m, e[a], <<>>).pos = e[d]
  <2>1. PartAt(fields, a, << Mass(0) >>) BY <1>8 DEF z
  <2>2. Counted(Message(fields), Ends(fields)[a], <<>>).pos = Ends(fields)[a + 1]
    BY ONLY fields \in Seq(Field), <2>1, NoneCounted
  <2> QED BY <1>3, <2>2
<1> HIDE DEF m, e
<1>12. p = Counted(m, Skip(m, e[c], 4), <<>>).pos BY DEF m, e
<1>13. p = e[a] BY ONLY <1>9, <1>10, <1>12
<1> QED BY <1>11, <1>13 DEF m, e

\* What must come out of a full synchronisation that ends at end.
SyncWhole(got, n, end) ==
  /\ got.pos = end
  /\ ItemsRead(got.items, n.items)
  /\ Len(got.nanos) = n.nanos /\ \A k \in 1..n.nanos : got.nanos[k]["nano"] = <<"nano", k>>
  /\ \E l1, l2, l3, l4 :
        /\ got.stats = StatsOf(<<l1, l2, l3, l4>>)
        /\ StatsListed(l1, n.stats[1], 10) /\ StatsListed(l2, n.stats[2], 20)
        /\ StatsListed(l3, n.stats[3], 30) /\ StatsListed(l4, n.stats[4], 40)

\* The full synchronisation is read to its last byte: its items, its nanos and
\* the lists its stats are made of.
LEMMA SyncRead ==
    ASSUME NEW fields \in Seq(Field), NEW type, NEW n, SyncCounts(n), NEW c, SyncAt(fields, n, c),
           AOMessageBase(Message(fields), type).pos = Ends(fields)[c[1]],
           Message(fields).end = Ends(fields)[c[22]], c[22] = Len(fields)
    PROVE  SyncWhole(AOFullCharacterMessage(Message(fields), type), n, Message(fields).end)
<1> DEFINE m == Message(fields)
           e == Ends(fields)
           got == AOFullCharacterMessage(m, type)
           inventory == Counted(m, Read(m, AOMessageBase(m, type).pos, << Pop(1, "pad"), Pop(4, "version") >>).pos,
                                AOContainerItem)
           nanos == Counted(m, inventory.pos, << Pop(4, "nano") >>)
           empty1 == Counted(m, nanos.pos, <<>>)
           stats1 == Counted(m, Timers(m, empty1.pos), Stat(4, 4))
           stats2 == Counted(m, stats1.pos, Stat(4, 4))
           stats3 == Counted(m, stats2.pos, Stat(1, 1))
           stats4 == Counted(m, stats3.pos, Stat(1, 2))
           absorb == CountedPlain(m, stats4.pos, Stat(4, 4))
           empty2 == Counted(m, Skip(m, absorb.pos, 4), <<>>)
           empty3 == Counted(m, empty2.pos, <<>>)
           perks == Count3F1(ReadAt(m, empty3.pos, 4)[2])
           end == Skip(m, empty3.pos + 4, perks * 16)
           maps == StatsOf(<<stats1.got, stats2.got, stats3.got, stats4.got>>)
<1>1. got = [pos |-> end, items |-> inventory.got, nanos |-> nanos.got, stats |-> maps]
  BY DEF AOFullCharacterMessage
<1>2. /\ n.items \in Nat /\ n.nanos \in Nat /\ n.absorb \in Nat /\ n.perks \in Nat
      /\ n.timers[1] \in Nat /\ n.timers[2] \in Nat /\ n.timers[3] \in Nat
      /\ n.stats[1] \in Nat /\ n.stats[2] \in Nat /\ n.stats[3] \in Nat /\ n.stats[4] \in Nat
  BY DEF SyncCounts
<1> HIDE DEF maps, end
<1>3. got.pos = end /\ got.items = inventory.got /\ got.nanos = nanos.got /\ got.stats = maps BY <1>1
<1> HIDE DEF got
<1>4. /\ c[1] \in Nat /\ PartAt(fields, c[1], SyncHead(n)) /\ c[2] = c[1] + 3
      /\ PartAt(fields, c[2], Times(n.items, SentItem)) /\ c[3] = c[2] + Len(Times(n.items, SentItem))
  BY DEF SyncAt
<1>5. inventory.pos = e[c[3]] /\ ItemsRead(inventory.got, n.items)
  <2> DEFINE b == c[1]
             d == c[2]
             p == Read(m, AOMessageBase(m, type).pos, << Pop(1, "pad"), Pop(4, "version") >>).pos
  <2>1. p = Read(Message(fields), Ends(fields)[b], << Pop(1, "pad"), Pop(4, "version") >>).pos OBVIOUS
  <2>2. /\ PartAt(fields, b, SyncHead(n)) /\ b \in Nat /\ d = b + 3 /\ PartAt(fields, d, Times(n.items, SentItem))
    BY <1>4
  <2>3. inventory = Counted(Message(fields), p, AOContainerItem) OBVIOUS
  <2> HIDE DEF b, d, p, inventory
  <2>4. /\ Counted(Message(fields), p, AOContainerItem).pos = Ends(fields)[d + Len(Times(n.items, SentItem))]
        /\ ItemsRead(Counted(Message(fields), p, AOContainerItem).got, n.items)
    <3>1. ItemsAt(fields, b, d, n, p) BY ONLY fields \in Seq(Field), <1>2, <2>1, <2>2 DEF ItemsAt
    <3> QED BY ONLY <3>1, SyncItemsRead
  <2> QED BY <1>4, <2>3, <2>4 DEF d
<1> HIDE DEF inventory
<1>6. /\ nanos.pos = e[c[5]] /\ Len(nanos.got) = n.nanos
      /\ \A k \in 1..n.nanos : nanos.got[k]["nano"] = <<"nano", k>>
  <2>1. ListAt(fields, c[3], c[4], c[5], Mass(n.nanos), NanosSent(n.nanos)) BY DEF SyncAt
  <2>2. nanos = Counted(Message(fields), Ends(fields)[c[3]], << Pop(4, "nano") >>) BY <1>5
  <2> HIDE DEF nanos
  <2>3. /\ Counted(Message(fields), Ends(fields)[c[3]], << Pop(4, "nano") >>).pos = Ends(fields)[c[5]]
        /\ Len(Counted(Message(fields), Ends(fields)[c[3]], << Pop(4, "nano") >>).got) = n.nanos
        /\ \A k \in 1..n.nanos :
              Counted(Message(fields), Ends(fields)[c[3]], << Pop(4, "nano") >>).got[k]["nano"] = <<"nano", k>>
    BY ONLY fields \in Seq(Field), <1>2, <2>1, NanosCounted
  <2> QED BY <2>2, <2>3
<1> HIDE DEF nanos
<1>7. empty1.pos = e[c[6]]
  <2>1. PartAt(fields, c[5], << Mass(0) >>) /\ c[6] = c[5] + 1 BY DEF SyncAt
  <2>2. Counted(Message(fields), Ends(fields)[c[5]], <<>>).pos = Ends(fields)[c[5] + 1]
    BY ONLY fields \in Seq(Field), <2>1, NoneCounted
  <2> QED BY <1>6, <2>1, <2>2
<1> HIDE DEF empty1
<1>8. Timers(m, empty1.pos) = e[c[9]]
  <2>1. /\ TimersAt(fields, c[6], c[7], 1, n.timers[1])
        /\ TimersAt(fields, c[7], c[8], 2, n.timers[2])
        /\ TimersAt(fields, c[8], c[9], 3, n.timers[3])
    BY DEF SyncAt
  <2>2. ASSUME NEW b, NEW d, NEW i, NEW k \in Nat, TimersAt(fields, b, d, i, k) PROVE TimerList(m, e[b]) = e[d]
    <3>1. PartAt(fields, b, TimersPart(i, k)) /\ d = b + Len(TimersPart(i, k)) BY <2>2 DEF TimersAt
    <3>2. TimerList(m, e[b]) = e[b + Len(TimersPart(i, k))] BY <3>1, TimerListRead
    <3> QED BY <3>1, <3>2
  <2> HIDE DEF m, e
  <2>3. TimerList(m, e[c[6]]) = e[c[7]] /\ TimerList(m, e[c[7]]) = e[c[8]] /\ TimerList(m, e[c[8]]) = e[c[9]]
    BY <1>2, <2>1, <2>2
  <2> QED BY <1>7, <2>3 DEF Timers
<1>9. /\ stats1.pos = e[c[11]] /\ StatsListed(stats1.got, n.stats[1], 10)
      /\ stats2.pos = e[c[13]] /\ StatsListed(stats2.got, n.stats[2], 20)
      /\ stats3.pos = e[c[15]] /\ StatsListed(stats3.got, n.stats[3], 30)
      /\ stats4.pos = e[c[17]] /\ StatsListed(stats4.got, n.stats[4], 40)
  <2>2. /\ ListAt(fields, c[9], c[10], c[11], Mass(n.stats[1]), StatsSent(4, 4, 1, n.stats[1]))
        /\ ListAt(fields, c[11], c[12], c[13], Mass(n.stats[2]), StatsSent(4, 4, 2, n.stats[2]))
        /\ ListAt(fields, c[13], c[14], c[15], Mass(n.stats[3]), StatsSent(1, 1, 3, n.stats[3]))
        /\ ListAt(fields, c[15], c[16], c[17], Mass(n.stats[4]), StatsSent(1, 2, 4, n.stats[4]))
    BY DEF SyncAt
  <2> HIDE DEF m, e
  <2>3. stats1.pos = e[c[11]] /\ StatsListed(stats1.got, n.stats[1], 10)
    <3>1. StatsAt(fields, c[9], c[10], c[11], n.stats[1], 4, 4, 1, 10)
      BY ONLY fields \in Seq(Field), <1>2, <2>2 DEF StatsAt
    <3>2. stats1 = Counted(m, e[c[9]], Stat(4, 4)) BY ONLY <1>8
    <3> QED BY ONLY <3>1, <3>2, StatsCounted DEF m, e
  <2> HIDE DEF stats1
  <2>4. stats2.pos = e[c[13]] /\ StatsListed(stats2.got, n.stats[2], 20)
    <3>1. StatsAt(fields, c[11], c[12], c[13], n.stats[2], 4, 4, 2, 20)
      BY ONLY fields \in Seq(Field), <1>2, <2>2 DEF StatsAt
    <3>2. stats2 = Counted(m, e[c[11]], Stat(4, 4)) BY ONLY <2>3
    <3> QED BY ONLY <3>1, <3>2, StatsCounted DEF m, e
  <2> HIDE DEF stats2
  <2>5. stats3.pos = e[c[15]] /\ StatsListed(stats3.got, n.stats[3], 30)
    <3>1. StatsAt(fields, c[13], c[14], c[15], n.stats[3], 1, 1, 3, 30)
      BY ONLY fields \in Seq(Field), <1>2, <2>2 DEF StatsAt
    <3>2. stats3 = Counted(m, e[c[13]], Stat(1, 1)) BY ONLY <2>4
    <3> QED BY ONLY <3>1, <3>2, StatsCounted DEF m, e
  <2> HIDE DEF stats3
  <2>6. stats4.pos = e[c[17]] /\ StatsListed(stats4.got, n.stats[4], 40)
    <3>1. StatsAt(fields, c[15], c[16], c[17], n.stats[4], 1, 2, 4, 40)
      BY ONLY fields \in Seq(Field), <1>2, <2>2 DEF StatsAt
    <3>2. stats4 = Counted(m, e[c[15]], Stat(1, 2)) BY ONLY <2>5
    <3> QED BY ONLY <3>1, <3>2, StatsCounted DEF m, e
  <2> QED BY <2>3, <2>4, <2>5, <2>6
<1> HIDE DEF stats1, stats2, stats3, stats4
<1>10. absorb.pos = e[c[19]]
  <2>1. ListAt(fields, c[17], c[18], c[19], Fk("count", 4, n.absorb), AbsorbsSent(n.absorb)) BY DEF SyncAt
  <2>2. CountedPlain(Message(fields), Ends(fields)[c[17]], Stat(4, 4)).pos = Ends(fields)[c[19]]
    BY ONLY fields \in Seq(Field), <1>2, <2>1, AbsorbsCounted
  <2> QED BY <1>9, <2>2
<1> HIDE DEF absorb
<1>11. empty3.pos = e[c[20]]
  <2> DEFINE b == c[19]
             d == c[20]
             p == empty2.pos
  <2>1. b \in Nat /\ PartAt(fields, b, SyncRest) /\ d = b + 3 BY DEF SyncAt
  <2>2. p = Counted(Message(fields), Skip(Message(fields), Ends(fields)[b], 4), <<>>).pos BY <1>10
  <2> HIDE DEF b, d, p
  <2>3. Counted(Message(fields), p, <<>>).pos = Ends(fields)[d]
    BY ONLY fields \in Seq(Field), <2>1, <2>2, RestRead
  <2> QED BY <2>3 DEF d, p
<1> HIDE DEF empty2, empty3
<1>12. end = m.end
  <2> DEFINE b == c[20]
             d == c[21]
             k == n.perks
  <2>1. ListAt(fields, b, d, c[22], Mass(k), PerksSent(k)) BY DEF SyncAt
  <2>2. /\ PartAt(fields, b, << Mass(k) >>) /\ d = b + 1 /\ PartAt(fields, d, FlattenSeq(PerksSent(k)))
        /\ Len(fields) = d + Len(FlattenSeq(PerksSent(k))) /\ k \in Nat
    BY <1>2, <2>1 DEF ListAt
  <2>3. end = Skip(m, e[b] + 4, Count3F1(ReadAt(m, e[b], 4)[2]) * 16) BY <1>11 DEF end
  <2> HIDE DEF b, d, k
  <2>4. Skip(Message(fields), Ends(fields)[b] + 4, Count3F1(ReadAt(Message(fields), Ends(fields)[b], 4)[2]) * 16)
          = Message(fields).end
    BY ONLY fields \in Seq(Field), <2>2, PerksSkipped
  <2> QED BY <2>3, <2>4
<1>13. \E l1, l2, l3, l4 :
          /\ got.stats = StatsOf(<<l1, l2, l3, l4>>)
          /\ StatsListed(l1, n.stats[1], 10) /\ StatsListed(l2, n.stats[2], 20)
          /\ StatsListed(l3, n.stats[3], 30) /\ StatsListed(l4, n.stats[4], 40)
  <2>1. got.stats = StatsOf(<<stats1.got, stats2.got, stats3.got, stats4.got>>) BY <1>3 DEF maps
  <2> QED BY <1>9, <2>1
<1>14. /\ got.pos = m.end /\ ItemsRead(got.items, n.items)
       /\ Len(got.nanos) = n.nanos /\ \A k \in 1..n.nanos : got.nanos[k]["nano"] = <<"nano", k>>
  <2> HIDE DEF m
  <2> QED BY <1>3, <1>5, <1>6, <1>12
<1>15. SyncWhole(got, n, m.end)
  <2> HIDE DEF m
  <2> QED BY ONLY <1>13, <1>14 DEF SyncWhole
<1> QED BY <1>15 DEF got

\* The last map that has a key, of four with n1 to n4 entries.
LEMMA LastMap ==
    ASSUME NEW s, s[1] \in Nat, s[2] \in Nat, s[3] \in Nat, s[4] \in Nat, NEW key \in Nat,
           NEW top \in 1..4, s[top] >= key, \A j \in 1..4 : j > top => ~ (s[j] >= key),
           NEW with, with = {i \in 1..4 : s[i] >= key}
    PROVE  (CHOOSE i \in with : \A j \in with : j <= i) = top
<1>1. top \in with /\ \A j \in with : j <= top OBVIOUS
<1>2. \A i \in with : (\A j \in with : j <= i) => i = top
  <2> SUFFICES ASSUME NEW i \in with, \A j \in with : j <= i PROVE i = top OBVIOUS
  <2>1. i \in 1..4 /\ top <= i /\ i <= top BY <1>1
  <2> QED BY <2>1
<1> QED BY ONLY <1>1, <1>2

\* Of a key that several maps have, the last one counts.
LEMMA StatsLast ==
    ASSUME NEW l1, NEW l2, NEW l3, NEW l4, NEW s,
           StatsListed(l1, s[1], 10), StatsListed(l2, s[2], 20), StatsListed(l3, s[3], 30), StatsListed(l4, s[4], 40)
    PROVE  /\ DOMAIN StatsOf(<<l1, l2, l3, l4>>) = UNION {1..s[i] : i \in 1..4}
           /\ \A key \in DOMAIN StatsOf(<<l1, l2, l3, l4>>) :
                 LET with == {i \in 1..4 : s[i] >= key}
                     last == CHOOSE i \in with : \A j \in with : j <= i
                 IN StatsOf(<<l1, l2, l3, l4>>)[key] = <<"val", 10 * last + key>>
<1> DEFINE t0 == <<>>
           t1 == SetStats(t0, l1)
           t2 == SetStats(t1, l2)
           t3 == SetStats(t2, l3)
           t4 == SetStats(t3, l4)
<1>1. StatsOf(<<l1, l2, l3, l4>>) = t4 BY DEF StatsOf
<1>2. DOMAIN t0 = {} OBVIOUS
<1> HIDE DEF t0, t1, t2, t3, t4
<1>3. s[1] \in Nat /\ DOMAIN t1 = 1..s[1] /\ \A x \in 1..s[1] : t1[x] = <<"val", 10 + x>>
  <2> DEFINE n == s[1]
             base == 10
  <2>1. StatsListed(l1, n, base) OBVIOUS
  <2> HIDE DEF n, base
  <2>2. StatsOver(t1, t0, n, base) BY ONLY <2>1, StatsSet DEF t1
  <2> QED BY <1>2, <2>2 DEF n, base, StatsOver
<1>4. /\ s[2] \in Nat /\ DOMAIN t2 = DOMAIN t1 \cup (1..s[2]) /\ \A x \in 1..s[2] : t2[x] = <<"val", 20 + x>>
      /\ \A x \in DOMAIN t1 \ (1..s[2]) : t2[x] = t1[x]
  <2> DEFINE n == s[2]
             base == 20
  <2>1. StatsListed(l2, n, base) OBVIOUS
  <2> HIDE DEF n, base
  <2>2. StatsOver(t2, t1, n, base) BY ONLY <2>1, StatsSet DEF t2
  <2> QED BY <1>2, <2>2 DEF n, base, StatsOver
<1>5. /\ s[3] \in Nat /\ DOMAIN t3 = DOMAIN t2 \cup (1..s[3]) /\ \A x \in 1..s[3] : t3[x] = <<"val", 30 + x>>
      /\ \A x \in DOMAIN t2 \ (1..s[3]) : t3[x] = t2[x]
  <2> DEFINE n == s[3]
             base == 30
  <2>1. StatsListed(l3, n, base) OBVIOUS
  <2> HIDE DEF n, base
  <2>2. StatsOver(t3, t2, n, base) BY ONLY <2>1, StatsSet DEF t3
  <2> QED BY <1>2, <2>2 DEF n, base, StatsOver
<1>6. /\ s[4] \in Nat /\ DOMAIN t4 = DOMAIN t3 \cup (1..s[4]) /\ \A x \in 1..s[4] : t4[x] = <<"val", 40 + x>>
      /\ \A x \in DOMAIN t3 \ (1..s[4]) : t4[x] = t3[x]
  <2> DEFINE n == s[4]
             base == 40
  <2>1. StatsListed(l4, n, base) OBVIOUS
  <2> HIDE DEF n, base
  <2>2. StatsOver(t4, t3, n, base) BY ONLY <2>1, StatsSet DEF t4
  <2> QED BY <1>2, <2>2 DEF n, base, StatsOver
<1>7. DOMAIN t4 = UNION {1..s[i] : i \in 1..4}
  <2>1. DOMAIN t4 = ((1..s[1] \cup 1..s[2]) \cup 1..s[3]) \cup 1..s[4] BY <1>3, <1>4, <1>5, <1>6
  <2>2. \A i \in 1..4 : i = 1 \/ i = 2 \/ i = 3 \/ i = 4 OBVIOUS
  <2>3. 1 \in 1..4 /\ 2 \in 1..4 /\ 3 \in 1..4 /\ 4 \in 1..4 OBVIOUS
  <2>4. \A x : x \in UNION {1..s[i] : i \in 1..4} <=> \E i \in 1..4 : x \in 1..s[i] OBVIOUS
  <2>5. \A x : x \in UNION {1..s[i] : i \in 1..4} <=> x \in 1..s[1] \/ x \in 1..s[2] \/ x \in 1..s[3] \/ x \in 1..s[4]
    BY ONLY <2>2, <2>3, <2>4
  <2> QED BY ONLY <2>1, <2>5
<1>8. ASSUME NEW key \in DOMAIN t4, NEW with, with = {i \in 1..4 : s[i] >= key},
             NEW last, last = (CHOOSE i \in with : \A j \in with : j <= i)
      PROVE  t4[key] = <<"val", 10 * last + key>>
  <2>1. key \in 1..s[1] \/ key \in 1..s[2] \/ key \in 1..s[3] \/ key \in 1..s[4] BY <1>3, <1>4, <1>5, <1>6, <1>8
  <2>2. key \in Nat /\ key >= 1 BY <1>3, <1>4, <1>5, <1>6, <2>1
  <2>3. ASSUME NEW top \in 1..4, s[top] >= key, \A j \in 1..4 : j > top => ~ (s[j] >= key) PROVE last = top
    BY ONLY <1>3, <1>4, <1>5, <1>6, <1>8, <2>2, <2>3, LastMap
  <2>4. \A i \in 1..4 : key \in 1..s[i] <=> s[i] >= key
    <3>1. \A i \in 1..4 : i = 1 \/ i = 2 \/ i = 3 \/ i = 4 OBVIOUS
    <3>2. \A i \in 1..4 : s[i] \in Nat BY ONLY <1>3, <1>4, <1>5, <1>6, <3>1
    <3> QED BY <2>2, <3>2
  <2>5. CASE key \in 1..s[4]
    <3>1. last = 4 BY <2>3, <2>4, <2>5
    <3> QED BY <1>6, <2>5, <3>1
  <2>6. CASE key \notin 1..s[4] /\ key \in 1..s[3]
    <3>1. last = 3
      <4>1. \A j \in 1..4 : j > 3 => j = 4 OBVIOUS
      <4> QED BY <2>3, <2>4, <2>6, <4>1
    <3>2. key \in DOMAIN t3 /\ t4[key] = t3[key] BY <1>5, <1>6, <2>6
    <3> QED BY <1>5, <2>6, <3>1, <3>2
  <2>7. CASE key \notin 1..s[4] /\ key \notin 1..s[3] /\ key \in 1..s[2]
    <3>1. last = 2
      <4>1. \A j \in 1..4 : j > 2 => j = 3 \/ j = 4 OBVIOUS
      <4> QED BY <2>3, <2>4, <2>7, <4>1
    <3>2. key \in DOMAIN t2 /\ t3[key] = t2[key] BY <1>4, <1>5, <2>7
    <3>3. key \in DOMAIN t3 /\ t4[key] = t3[key] BY <1>5, <1>6, <2>7, <3>2
    <3> QED BY <1>4, <2>7, <3>1, <3>2, <3>3
  <2>8. CASE key \notin 1..s[4] /\ key \notin 1..s[3] /\ key \notin 1..s[2]
    <3>0. key \in 1..s[1] BY <2>1, <2>8
    <3>1. last = 1
      <4>1. \A j \in 1..4 : j > 1 => j = 2 \/ j = 3 \/ j = 4 OBVIOUS
      <4> QED BY <2>3, <2>4, <2>8, <3>0, <4>1
    <3>2. key \in DOMAIN t1 /\ t2[key] = t1[key] BY <1>3, <1>4, <2>8, <3>0
    <3>3. key \in DOMAIN t2 /\ t3[key] = t2[key] BY <1>4, <1>5, <2>8, <3>2
    <3>4. key \in DOMAIN t3 /\ t4[key] = t3[key] BY <1>5, <1>6, <2>8, <3>3
    <3> QED BY <1>3, <3>0, <3>1, <3>2, <3>3, <3>4
  <2> QED BY <2>5, <2>6, <2>7, <2>8
<1> DEFINE with(key) == {i \in 1..4 : s[i] >= key}
           last(key) == CHOOSE i \in with(key) : \A j \in with(key) : j <= i
<1>9. \A key \in DOMAIN t4 : t4[key] = <<"val", 10 * last(key) + key>> BY <1>8
<1> QED BY <1>1, <1>7, <1>9

\* The full synchronisation is read whole, whatever lists are empty.
LEMMA TwiceWhole ==
    ASSUME DecodedTwice
    PROVE  SyncReadWhole
<1> SUFFICES ASSUME Known, Input.kind = "fullSync" PROVE SyncReadWhole BY DEF SyncReadWhole
<1> DEFINE fields == Input.fields
           type == Input.type
           origin == Input.origin
           n == Input.n
           m == Message(fields)
           got == AOFullCharacterMessage(m, type)
<1>1. Input \in Inputs /\ decoded.body = Body(m, type, Input.kind) BY DEF DecodedTwice
<1>2. /\ Input = Sent(origin, type, Input.kind, n)
      /\ origin = "client" => Input.kind \in ClientKinds
      /\ {n.items, n.nanos, n.absorb, n.perks} \subseteq Nat
      /\ n.timers \in Seq(Nat) /\ Len(n.timers) = 3
      /\ n.stats \in Seq(Nat) /\ Len(n.stats) = 4
  BY <1>1, ContentsAssumption
<1>3. origin = "server" /\ type \in ServerTypes
  <2>1. origin # "client" BY <1>2 DEF ClientKinds
  <2> QED BY <2>1 DEF DecodedTwice
<1>4. fields = SentHeader("server", type) \o SentSync(n) /\ fields \in Seq(Field)
  <2>1. Sent(origin, type, Input.kind, n).fields = SentHeader(origin, type) \o SentBody(Input.kind, n) BY DEF Sent
  <2>2. SentBody(Input.kind, n) = SentSync(n) BY DEF SentBody
  <2>3. Input.fields \in Seq(Field) BY <1>1, InputsAssumption
  <2> QED BY <1>2, <1>3, <2>1, <2>2, <2>3
<1>5. SyncCounts(n)
  <2>1. /\ n.timers[1] \in Nat /\ n.timers[2] \in Nat /\ n.timers[3] \in Nat
    <3> DEFINE s == n.timers
    <3>1. s \in Seq(Nat) /\ Len(s) = 3 BY <1>2
    <3> HIDE DEF s
    <3>2. ASSUME NEW i \in 1..3 PROVE s[i] \in Nat
      <4>1. i \in 1..Len(s) BY <3>1
      <4> QED BY ONLY <3>1, <4>1, ElementOfSeq
    <3>3. s[1] \in Nat /\ s[2] \in Nat /\ s[3] \in Nat BY <3>2
    <3> QED BY <3>3 DEF s
  <2>2. /\ n.stats[1] \in Nat /\ n.stats[2] \in Nat /\ n.stats[3] \in Nat /\ n.stats[4] \in Nat
    <3> DEFINE s == n.stats
    <3>1. s \in Seq(Nat) /\ Len(s) = 4 BY <1>2
    <3> HIDE DEF s
    <3>2. ASSUME NEW i \in 1..4 PROVE s[i] \in Nat
      <4>1. i \in 1..Len(s) BY <3>1
      <4> QED BY ONLY <3>1, <4>1, ElementOfSeq
    <3>3. s[1] \in Nat /\ s[2] \in Nat /\ s[3] \in Nat /\ s[4] \in Nat BY <3>2
    <3> QED BY <3>3 DEF s
  <2> QED BY <1>2, <2>1, <2>2 DEF SyncCounts
<1>6. decoded.body.parsed = got
  <2>1. decoded.body = [parsed |-> got]
    <3> HIDE DEF got, m
    <3>1. Body(m, type, Input.kind) = [parsed |-> AOFullCharacterMessage(m, type)] BY DEF Body
    <3> QED BY <1>1, <3>1 DEF got
  <2> QED BY <2>1
<1> HIDE DEF fields, type, origin, n, m, got
<1>7. PICK c : /\ Chained(fields, SyncParts(n), 21, c)
               /\ AOMessageBase(Message(fields), type).pos = Ends(fields)[c[1]]
               /\ Message(fields).end = Ends(fields)[c[22]] /\ c[22] = Len(fields)
  BY ONLY <1>3, <1>4, <1>5, SyncPlaced
<1>8. SyncAt(fields, n, c) BY ONLY <1>7, SyncSteps
<1>9. SyncWhole(got, n, Message(fields).end) BY ONLY <1>4, <1>5, <1>7, <1>8, SyncRead DEF got, m
<1> DEFINE s == n.stats
           with(key) == {i \in 1..4 : s[i] >= key}
           last(key) == CHOOSE i \in with(key) : \A j \in with(key) : j <= i
<1>10. /\ DOMAIN got.stats = UNION {1..s[i] : i \in 1..4}
       /\ \A key \in DOMAIN got.stats : got.stats[key] = <<"val", 10 * last(key) + key>>
  <2>1. PICK l1, l2, l3, l4 :
            /\ got.stats = StatsOf(<<l1, l2, l3, l4>>)
            /\ StatsListed(l1, s[1], 10) /\ StatsListed(l2, s[2], 20)
            /\ StatsListed(l3, s[3], 30) /\ StatsListed(l4, s[4], 40)
    BY ONLY <1>9 DEF SyncWhole
  <2> HIDE DEF s
  <2>2. /\ DOMAIN StatsOf(<<l1, l2, l3, l4>>) = UNION {1..s[i] : i \in 1..4}
        /\ \A key \in DOMAIN StatsOf(<<l1, l2, l3, l4>>) :
              StatsOf(<<l1, l2, l3, l4>>)[key] = <<"val", 10 * last(key) + key>>
    BY ONLY <2>1, StatsLast
  <2> QED BY ONLY <2>1, <2>2
<1>11. Message(Input.fields).end = Message(fields).end BY DEF fields
<1> QED BY ONLY <1>6, <1>9, <1>10, <1>11 DEF SyncReadWhole, SyncWhole, n

\* However many entries its lists have, the full synchronisation is read to its
\* last byte.
THEOREM SyncIsReadWhole == MessagesSpec => []SyncReadWhole
<1>1. MessagesInit => DecodedTwice BY DEF MessagesInit, DecodedTwice, Known, NoData
<1>2. DecodedTwice /\ [MessagesNext]_msgvars => DecodedTwice' BY DecodedTwiceKept
<1>3. DecodedTwice => SyncReadWhole BY TwiceWhole
<1> QED BY <1>1, <1>2, <1>3, PTL DEF MessagesSpec
=============================================================================
