----------------------------- MODULE LossyFifo -----------------------------
(***************************************************************************)
(* What the hook library promises the application: for every game client a *)
(* channel that keeps the order of the messages, delivers none twice and   *)
(* makes none up, and that may lose some.                                  *)
(***************************************************************************)
EXTENDS Naturals, Sequences

CONSTANT Clients

VARIABLES
    sent,           \* the number of messages a client has put in; message n is n
    channel,        \* what is under way
    received        \* what the application got

fifoVars == <<sent, channel, received>>

FifoInit ==
    /\ sent = [c \in Clients |-> 0]
    /\ channel = [c \in Clients |-> <<>>]
    /\ received = [c \in Clients |-> <<>>]

Put(c) ==
    /\ sent' = [sent EXCEPT ![c] = @ + 1]
    /\ channel' = [channel EXCEPT ![c] = Append(@, sent[c] + 1)]
    /\ UNCHANGED received

Deliver(c) ==
    /\ channel[c] # <<>>
    /\ received' = [received EXCEPT ![c] = Append(@, Head(channel[c]))]
    /\ channel' = [channel EXCEPT ![c] = Tail(@)]
    /\ UNCHANGED sent

Lose(c) ==
    /\ channel[c] # <<>>
    /\ channel' = [channel EXCEPT ![c] = Tail(@)]
    /\ UNCHANGED <<sent, received>>

FifoNext == \E c \in Clients : Put(c) \/ Deliver(c) \/ Lose(c)

FifoSpec == FifoInit /\ [][FifoNext]_fifoVars
=============================================================================
