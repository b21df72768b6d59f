----------------------------- MODULE LossyQueue -----------------------------
(***************************************************************************)
(* What the message buffers of PowerAPI promise to the threads that share  *)
(* one: a bounded FIFO that never blocks a producer and never refuses a    *)
(* message.  When it is full the oldest message makes room for the new     *)
(* one.  The consumer works on one message at a time.  Module PwrMsgBuffer *)
(* is the ring of common/src/pwrbuffer.c and is shown to implement this.   *)
(***************************************************************************)
EXTENDS Sequences, Naturals

CONSTANTS
    Msg,        \* messages
    NoMsg,      \* the consumer holds nothing
    Capacity    \* most messages held at once

VARIABLES
    queue,      \* messages in the buffer, oldest first
    taken       \* the message the consumer works on

vars == <<queue, taken>>

Init ==
    /\ queue = <<>>
    /\ taken = NoMsg

\* A producer hands over m; a full queue forgets its oldest message.
Put(m) ==
    /\ queue' = Append(IF Len(queue) = Capacity THEN Tail(queue) ELSE queue, m)
    /\ UNCHANGED taken

\* The consumer takes the oldest message.
Take ==
    /\ taken = NoMsg
    /\ queue # <<>>
    /\ taken' = Head(queue)
    /\ queue' = Tail(queue)

\* The consumer is done with its message.
Finish ==
    /\ taken' = NoMsg
    /\ UNCHANGED queue

\* Everything still queued is given up, when the owner of the buffer shuts down.
Clear ==
    /\ queue' = <<>>
    /\ UNCHANGED taken

Next ==
    \/ \E m \in Msg : Put(m)
    \/ Take
    \/ Finish
    \/ Clear

Spec == Init /\ [][Next]_vars
=============================================================================
