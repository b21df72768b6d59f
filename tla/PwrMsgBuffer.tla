---------------------------- MODULE PwrMsgBuffer ----------------------------
(***************************************************************************)
(* The ring of common/src/pwrbuffer.c: any number of producers, which add  *)
(* under the mutex, and one consumer thread, which first looks at the ring *)
(* without the mutex (IsEmptyBuffer) and then pops under it.  This is how  *)
(* the send buffer of the client (app threads / socket thread), the        *)
(* receive buffer of the daemon (socket thread / service thread) and the   *)
(* send buffer of the daemon (service and collector threads / socket       *)
(* thread) are used.                                                       *)
(*                                                                         *)
(* A mutex section is one step.  The two unlocked reads of IsEmptyBuffer   *)
(* are two steps, in either order: C leaves the order of the operands of   *)
(* == open.                                                                *)
(***************************************************************************)
EXTENDS Naturals, Sequences

CONSTANTS
    Msg,            \* addresses of messages; an address is reused after free
    NoMsg,          \* NULL
    PWR_BUFFER_SIZE \* 64 in the code

ASSUME BufferAssumption ==
    /\ PWR_BUFFER_SIZE \in Nat \ {0, 1}
    /\ NoMsg \notin Msg

VARIABLES
    head, tail, msgList,    \* struct PwrMsgBuffer
    ready,                  \* the mutex is initialised
    allocated,              \* messages malloc has given out and free not taken back
    cpc,                    \* where the consumer thread is
    seen,                   \* what its first unlocked read returned
    hand                    \* the message the consumer works on

ring == <<head, tail, msgList>>
consumer == <<cpc, seen, hand>>
vars == <<head, tail, msgList, ready, allocated, cpc, seen, hand>>

Index == 0 .. PWR_BUFFER_SIZE - 1
Succ_NoWrap(i) == i + 1
Succ(i) == (i + 1) % PWR_BUFFER_SIZE

\* The slots from..to, going round, of which neither is skipped.
Between(from, to) ==
    IF from <= to THEN from .. to ELSE {i \in Index : i >= from \/ i <= to}

\* The slots that hold messages: the one after head up to tail.
Live == IF head = tail THEN {} ELSE Between(Succ(head), tail)

Empty == [i \in Index |-> NoMsg]

Init ==
    /\ head = 0 /\ tail = 0 /\ msgList = Empty
    /\ ready = TRUE
    /\ allocated = {}
    /\ cpc = "idle" /\ seen = <<"head", 0>> /\ hand = NoMsg

(***************************************************************************)
(* Producers.                                                              *)
(***************************************************************************)
AddToBufferTail_KeepsOldest(m) ==
    /\ ready
    /\ m \notin allocated
    /\ tail' = Succ(tail)
    /\ head' = head
    /\ msgList' = [msgList EXCEPT ![Succ(tail)] = m]
    /\ allocated' = allocated \union {m}
    /\ UNCHANGED <<ready, consumer>>

AddToBufferTail_DropsEarly(m) ==
    LET t == Succ(tail)
        full == Succ(t) = head \/ t = head
    IN  /\ ready
        /\ m \notin allocated
        /\ head' = IF full THEN Succ(head) ELSE head
        /\ msgList' = [msgList EXCEPT ![Succ(head)] = IF full THEN NoMsg ELSE @, ![t] = m]
        /\ allocated' = allocated \union {m}
        /\ tail' = t
        /\ UNCHANGED <<ready, consumer>>

AddToBufferTail_NoRelease(m) ==
    LET t == Succ(tail)
        full == t = head
        msg == msgList[Succ(head)]
    IN  /\ ready
        /\ m \notin allocated
        /\ head' = IF full THEN Succ(head) ELSE head
        /\ msgList' = [msgList EXCEPT ![t] = m]
        /\ allocated' = (IF full THEN allocated \ {msg} ELSE allocated) \union {m}
        /\ tail' = t
        /\ UNCHANGED <<ready, consumer>>

\* malloc of a message and AddToBufferTail of it; DeleteFromHead when the ring is full.
AddToBufferTail(m) ==
    LET t == Succ(tail)
        full == t = head
        oldest == Succ(head)
    IN  /\ ready
        /\ m \notin allocated
        /\ head' = IF full THEN oldest ELSE head
        /\ msgList' = [msgList EXCEPT ![oldest] = IF full THEN NoMsg ELSE @, ![t] = m]
        /\ allocated' = (IF full THEN allocated \ {msgList[oldest]} ELSE allocated) \union {m}
        /\ tail' = t
        /\ UNCHANGED <<ready, consumer>>

(***************************************************************************)
(* The consumer.                                                           *)
(***************************************************************************)
\* First unlocked read of IsEmptyBuffer.
IsEmptyBufferFirstRead ==
    /\ ready
    /\ cpc = "idle"
    /\ seen' \in {<<"head", head>>, <<"tail", tail>>}
    /\ cpc' = "reading"
    /\ UNCHANGED <<ring, ready, allocated, hand>>

\* Second unlocked read, and the comparison.
IsEmptyBufferSecondRead ==
    /\ cpc = "reading"
    /\ LET other == IF seen[1] = "head" THEN tail ELSE head
       IN  cpc' = IF seen[2] = other THEN "empty" ELSE "nonEmpty"
    /\ UNCHANGED <<ring, ready, allocated, seen, hand>>

\* The socket threads go on with select and come back.
NothingToDo ==
    /\ cpc = "empty"
    /\ cpc' = "idle"
    /\ UNCHANGED <<ring, ready, allocated, seen, hand>>

PopFromBufferHead_KeepsHead ==
    /\ cpc \in {"nonEmpty", "empty"}
    /\ LET oldest == Succ(head)
       IN  IF head = tail
           THEN UNCHANGED ring /\ hand' = NoMsg
           ELSE /\ hand' = msgList[oldest]
                /\ UNCHANGED ring
    /\ cpc' = "took"
    /\ UNCHANGED <<ready, allocated, seen>>

\* The socket threads pop after they saw a message, the service thread also after it
\* waited on an empty ring (WaitForMsg).
PopFromBufferHead ==
    /\ cpc \in {"nonEmpty", "empty"}
    /\ LET oldest == Succ(head)
       IN  IF head = tail
           THEN UNCHANGED ring /\ hand' = NoMsg
           ELSE /\ hand' = msgList[oldest]
                /\ msgList' = [msgList EXCEPT ![oldest] = NoMsg]
                /\ head' = oldest
                /\ tail' = tail
    /\ cpc' = "took"
    /\ UNCHANGED <<ready, allocated, seen>>

\* The message is sent or processed, and released; NULL sends the loop round again.
ReleasePwrMsg ==
    /\ cpc = "took"
    /\ allocated' = allocated \ {hand}
    /\ hand' = NoMsg
    /\ cpc' = "idle"
    /\ UNCHANGED <<ring, ready, seen>>

(***************************************************************************)
(* Shutdown and restart of the owner: FiniSockClient and StopServer join   *)
(* the consumer before the reset, InitSockClient initialises again.        *)
(***************************************************************************)
ResetPwrMsgBuffer_ReleasesNone ==
    /\ ready
    /\ cpc = "idle"
    /\ ready' = FALSE
    /\ UNCHANGED <<ring, allocated, consumer>>

\* The loop runs over head .. tail - 1, although the messages are in head + 1 .. tail.
ResetPwrMsgBuffer ==
    /\ ready
    /\ cpc = "idle"
    /\ LET released == IF head = tail THEN {} ELSE Between(head, tail) \ {tail}
       IN  /\ allocated' = allocated \ {msgList[i] : i \in released}
           /\ msgList' = [i \in Index |-> IF i \in released THEN NoMsg ELSE msgList[i]]
    /\ ready' = FALSE
    /\ UNCHANGED <<head, tail, consumer>>

InitPwrMsgBuffer ==
    /\ ~ready
    /\ head' = 0 /\ tail' = 0 /\ msgList' = Empty
    /\ ready' = TRUE
    /\ UNCHANGED <<allocated, consumer>>

Consume ==
    \/ IsEmptyBufferFirstRead
    \/ IsEmptyBufferSecondRead
    \/ NothingToDo
    \/ PopFromBufferHead
    \/ ReleasePwrMsg

Next ==
    \/ \E m \in Msg : AddToBufferTail(m)
    \/ Consume
    \/ ResetPwrMsgBuffer
    \/ InitPwrMsgBuffer

\* The consumer thread loops for as long as the buffer is in use.
Spec == Init /\ [][Next]_vars /\ WF_vars(Consume)

(***************************************************************************)
(* Properties.                                                             *)
(***************************************************************************)
TypeOK ==
    /\ head \in Index
    /\ tail \in Index
    /\ msgList \in [Index -> Msg \union {NoMsg}]
    /\ ready \in BOOLEAN
    /\ allocated \subseteq Msg
    /\ cpc \in {"idle", "reading", "empty", "nonEmpty", "took"}
    /\ seen \in {"head", "tail"} \X Index
    /\ hand \in Msg \union {NoMsg}

\* Each live slot of the ring holds a message of its own that nobody has freed and the
\* consumer does not hold, and every other slot is NULL: no interleaving of adds that
\* drop the oldest message, pops and releases frees a message twice, hands out a freed
\* one, or lets ResetPwrMsgBuffer free the slot at head a second time.
SlotsHoldOwnMessages ==
    /\ hand # NoMsg => hand \in allocated
    /\ ready =>
        /\ \A i \in Index : IF i \in Live THEN msgList[i] \in allocated \ {hand}
                                          ELSE msgList[i] = NoMsg
        /\ \A i, j \in Live : msgList[i] = msgList[j] => i = j

\* A pop that follows a look that found the ring not empty returns a message, although
\* the look was unlocked and producers may have dropped what it saw: the NULL test of
\* SendMsgToSocket and ProcessSendMsgToClient guards against a case that cannot happen.
SeenMessageIsPopped ==
    [][cpc = "nonEmpty" /\ cpc' = "took" => hand' # NoMsg]_vars

\* Messages nobody can reach any more.
Leaked == allocated \ ({msgList[i] : i \in Index} \union {hand})

\* Memory is lost only when the ring is initialised again after a reset that had
\* messages to release, and then the lost message is one: the newest, which the loop of
\* ResetPwrMsgBuffer stops short of.
OnlyNewestIsLeaked ==
    [][Leaked' \subseteq Leaked \/ (~ready /\ Leaked' \ Leaked = {msgList[tail]})]_vars

\* A queued message does not stay for ever: the consumer gets it, newer messages push
\* it out, or the buffer is shut down.  This needs no luck with the unlocked look, which
\* may find a ring that went round once empty when it is full.
Queued == IF ready THEN {msgList[i] : i \in Live} ELSE {}
MessagesLeave == \A m \in Msg : (m \in Queued) ~> (m \notin Queued)

(***************************************************************************)
(* The ring implements the lossy queue.                                    *)
(***************************************************************************)
Count == IF head <= tail THEN tail - head ELSE tail + PWR_BUFFER_SIZE - head
Slot(i) == IF head + i < PWR_BUFFER_SIZE THEN head + i ELSE head + i - PWR_BUFFER_SIZE

Contents == IF ready THEN [i \in 1 .. Count |-> msgList[Slot(i)]] ELSE <<>>

Lossy == INSTANCE LossyQueue WITH
             Capacity <- PWR_BUFFER_SIZE - 1,
             queue <- Contents,
             taken <- hand

\* Seen through Contents, every step of the ring is a step of a FIFO of
\* PWR_BUFFER_SIZE - 1 messages that drops the oldest when full: the order of messages
\* is kept over the wrap, exactly one message is dropped, and only from a full ring.
ImplementsLossyQueue == Lossy!Spec
=============================================================================
