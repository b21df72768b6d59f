----------------------------- MODULE SockClient -----------------------------
(***************************************************************************)
(* Synchronous calls of the client library: app threads in SendMsgSyn      *)
(* (pwrapic/src/sockclient.c), the socket thread in RunSocketProcess, the  *)
(* send buffer and the list of calls that wait for an answer               *)
(* (ResultWaitingMsgList, common/src/pwrbuffer.c), which they share.       *)
(*                                                                         *)
(* Every call has its own node: nodes are never freed, so a call stands    *)
(* for its request, its node, its seqId and its answer.  A section under   *)
(* the list's mutex is one step; the accesses outside it, rwm->head in     *)
(* MoveOutWaitingMsg and reqMsg and rspMsg of a node, are steps of their   *)
(* own.  The daemon and the socket are external: a request may be          *)
(* answered, late or never, and the daemon may close the connection.       *)
(***************************************************************************)
EXTENDS Naturals, Sequences, FiniteSets

CONSTANTS
    Call,               \* calls of SendMsgSyn, by any number of app threads
    None,               \* NULL
    SendCapacity,       \* messages the send buffer holds: 63 in the code
    SpuriousWakeups     \* pthread_cond_timedwait may return for no reason

ASSUME SockClientAssumption ==
    /\ IsFiniteSet(Call)
    /\ None \notin Call
    /\ SendCapacity \in Nat \ {0}
    /\ SpuriousWakeups \in BOOLEAN

VARIABLES
    pc,             \* where each call is
    start,          \* the head its MoveOutWaitingMsg has read
    got,            \* the answer it returns
    next, prev,     \* links of its node
    hasReq,         \* node->reqMsg is not NULL
    rspMsg,         \* node->rspMsg
    head, tail,     \* of the waiting list
    inList,         \* nodes added to the list and not moved out of it
    sendBuff,       \* g_sendBuff
    up, down,       \* requests and answers in the socket
    connected,      \* g_sockFd is valid
    peerOpen,       \* the daemon has not closed its end
    spc, found, rsp,\* where the socket thread is, the node it answers, the answer
    fault           \* the process has died of a NULL dereference, SIGPIPE or a double free

callVars == <<pc, start, got>>
linkVars == <<next, prev, head, tail, inList>>
nodeVars == <<hasReq, rspMsg>>
netVars  == <<sendBuff, up, down, connected, peerOpen>>
sockVars == <<spc, found, rsp>>
vars == <<callVars, linkVars, nodeVars, netVars, sockVars, fault>>

Init ==
    /\ pc = [c \in Call |-> "start"]
    /\ start = [c \in Call |-> None]
    /\ got = [c \in Call |-> None]
    /\ next = [c \in Call |-> None] /\ prev = [c \in Call |-> None]
    /\ hasReq = [c \in Call |-> FALSE]
    /\ rspMsg = [c \in Call |-> None]
    /\ head = None /\ tail = None /\ inList = {}
    /\ sendBuff = <<>> /\ up = <<>> /\ down = <<>>
    /\ connected = TRUE /\ peerOpen = TRUE
    /\ spc = "loop" /\ found = None /\ rsp = None
    /\ fault = FALSE

(***************************************************************************)
(* The list.                                                               *)
(***************************************************************************)
\* The nodes met when following next from n, n included.
Reach(n) ==
    LET walk[k \in Nat] == IF k = 0 THEN n
                           ELSE IF walk[k - 1] = None THEN None ELSE next[walk[k - 1]]
    IN  {walk[k] : k \in 0 .. Cardinality(Call)} \ {None}

\* MoveFromList dereferences both neighbours, but not beyond the ends of the list.
HitsNull(n) ==
    \/ n # head /\ prev[n] = None
    \/ n # tail /\ next[n] = None

MoveFromList_KeepsTail(n) ==
    LET before == IF n = head THEN None ELSE prev[n]
        after  == IF n = tail THEN None ELSE next[n]
    IN  IF HitsNull(n)
        THEN fault' = TRUE /\ UNCHANGED linkVars
        ELSE /\ head' = IF n = head THEN after ELSE head
             /\ next' = [c \in Call |-> CASE c = n -> None [] c = before -> after [] OTHER -> next[c]]
             /\ prev' = [c \in Call |-> CASE c = n -> None [] c = after -> before [] OTHER -> prev[c]]
             /\ inList' = inList \ {n}
             /\ UNCHANGED <<tail, fault>>

\* The neighbours of n are joined, or the end of the list moves, and n forgets its links.
MoveFromList(n) ==
    LET before == IF n = head THEN None ELSE prev[n]
        after  == IF n = tail THEN None ELSE next[n]
    IN  IF HitsNull(n)
        THEN fault' = TRUE /\ UNCHANGED linkVars
        ELSE /\ head' = IF n = head THEN after ELSE head
             /\ tail' = IF n = tail THEN before ELSE tail
             /\ next' = [c \in Call |-> CASE c = n -> None [] c = before -> after [] OTHER -> next[c]]
             /\ prev' = [c \in Call |-> CASE c = n -> None [] c = after -> before [] OTHER -> prev[c]]
             /\ inList' = inList \ {n}
             /\ UNCHANGED fault

AddToWaitingListTail(n) ==
    IF tail = None \/ head = None
    THEN /\ head' = n /\ tail' = n
         /\ next' = [next EXCEPT ![n] = None]
         /\ prev' = [prev EXCEPT ![n] = None]
    ELSE /\ prev' = [prev EXCEPT ![n] = tail]
         /\ next' = [next EXCEPT ![n] = None, ![tail] = n]
         /\ tail' = n
         /\ UNCHANGED head

(***************************************************************************)
(* A call: SendMsgSyn.                                                     *)
(***************************************************************************)
SendClone_NeverDrops(c) ==
    /\ pc[c] = "start"
    /\ connected
    /\ sendBuff' = Append(sendBuff, c)
    /\ pc' = [pc EXCEPT ![c] = "sent"]
    /\ UNCHANGED <<start, got, linkVars, nodeVars, up, down, connected, peerOpen, sockVars, fault>>

\* CHECK_SOCKET_STATUS, and the clone, if there is memory for it, goes to the send buffer,
\* dropping the oldest request when the buffer is full.
SendClone(c) ==
    /\ pc[c] = "start"
    /\ \/ /\ connected
          /\ sendBuff' = Append(IF Len(sendBuff) = SendCapacity
                                THEN Tail(sendBuff) ELSE sendBuff, c)
          /\ pc' = [pc EXCEPT ![c] = "sent"]
       \/ /\ pc' = [pc EXCEPT ![c] = "done"]
          /\ UNCHANGED sendBuff
    /\ UNCHANGED <<start, got, linkVars, nodeVars, up, down, connected, peerOpen, sockVars, fault>>

\* The node is created, and joins the list: only now can an answer find the call.
JoinList(c) ==
    /\ hasReq' = [hasReq EXCEPT ![c] = TRUE]
    /\ AddToWaitingListTail(c)
    /\ inList' = inList \union {c}
    /\ pc' = [pc EXCEPT ![c] = "listed"]
    /\ UNCHANGED fault

\* Or there is no memory for it: SendMsgSyn releases the request, and so do those that called
\* it; a second free may end the process.  The clone is sent all the same.
ReleaseTwice(c) ==
    /\ pc' = [pc EXCEPT ![c] = "done"]
    /\ fault' \in {fault, TRUE}
    /\ UNCHANGED <<linkVars, hasReq>>

Enlist(c) ==
    /\ pc[c] = "sent"
    /\ JoinList(c) \/ ReleaseTwice(c)
    /\ UNCHANGED <<start, got, rspMsg, netVars, sockVars>>

\* WaitingForResponse starts to wait; an earlier signal does not wake it.
StartWaiting(c) ==
    /\ pc[c] = "listed"
    /\ pc' = [pc EXCEPT ![c] = "waiting"]
    /\ UNCHANGED <<start, got, linkVars, nodeVars, netVars, sockVars, fault>>

WakeUpForNoReason(c) ==
    /\ SpuriousWakeups
    /\ pc[c] = "waiting"
    /\ pc' = [pc EXCEPT ![c] = "woken"]
    /\ UNCHANGED <<start, got, linkVars, nodeVars, netVars, sockVars, fault>>

TimeOut_OnlyIfAnswered(c) ==
    /\ pc[c] = "waiting"
    /\ rspMsg[c] # None
    /\ pc' = [pc EXCEPT ![c] = "expired"]
    /\ UNCHANGED <<start, got, linkVars, nodeVars, netVars, sockVars, fault>>

\* ETIMEDOUT after two seconds.
TimeOut(c) ==
    /\ pc[c] = "waiting"
    /\ pc' = [pc EXCEPT ![c] = "expired"]
    /\ UNCHANGED <<start, got, linkVars, nodeVars, netVars, sockVars, fault>>

\* MoveOutWaitingMsg reads rwm->head before it locks the list ...
ReadHead(c) ==
    /\ pc[c] = "expired"
    /\ start' = [start EXCEPT ![c] = head]
    /\ pc' = [pc EXCEPT ![c] = "walking"]
    /\ UNCHANGED <<got, linkVars, nodeVars, netVars, sockVars, fault>>

\* ... and then walks from there with the list locked.
MoveOutWaitingMsg(c) ==
    /\ pc[c] = "walking"
    /\ IF c \in Reach(start[c]) THEN MoveFromList(c) ELSE UNCHANGED <<linkVars, fault>>
    /\ pc' = [pc EXCEPT ![c] = "woken"]
    /\ start' = [start EXCEPT ![c] = None]
    /\ UNCHANGED <<got, nodeVars, netVars, sockVars>>

\* *rsp = node->rspMsg
TakeAnswer(c) ==
    /\ pc[c] = "woken"
    /\ got' = [got EXCEPT ![c] = rspMsg[c]]
    /\ pc' = [pc EXCEPT ![c] = "took"]
    /\ UNCHANGED <<start, linkVars, nodeVars, netVars, sockVars, fault>>

\* node->reqMsg = NULL, node->rspMsg = NULL
ClearNode(c) ==
    /\ pc[c] = "took"
    /\ hasReq' = [hasReq EXCEPT ![c] = FALSE]
    /\ rspMsg' = [rspMsg EXCEPT ![c] = None]
    /\ pc' = [pc EXCEPT ![c] = "cleared"]
    /\ UNCHANGED <<start, got, linkVars, netVars, sockVars, fault>>

\* ReleaseResultWaitingMsgNode, and SendMsgSyn returns.  The links are reset without the
\* list's mutex, and the memory of the node stays.
ReleaseNode(c) ==
    /\ pc[c] = "cleared"
    /\ rspMsg' = [rspMsg EXCEPT ![c] = None]
    /\ next' = [next EXCEPT ![c] = None]
    /\ prev' = [prev EXCEPT ![c] = None]
    /\ pc' = [pc EXCEPT ![c] = "done"]
    /\ UNCHANGED <<start, got, head, tail, inList, hasReq, netVars, sockVars, fault>>

\* The steps a call makes by itself.
Proceed(c) ==
    \/ SendClone(c)
    \/ Enlist(c)
    \/ StartWaiting(c)
    \/ TimeOut(c)
    \/ ReadHead(c)
    \/ MoveOutWaitingMsg(c)
    \/ TakeAnswer(c)
    \/ ClearNode(c)
    \/ ReleaseNode(c)

CallStep(c) == Proceed(c) \/ WakeUpForNoReason(c)

(***************************************************************************)
(* The socket thread: RunSocketProcess.                                    *)
(***************************************************************************)
\* SendMsgToSocket writes the oldest request.  To a closed peer the write raises
\* SIGPIPE, which ends the process; where the app ignores the signal the result -1 is
\* never < 0 as a size_t, and WriteMsg never ends.
SendMsgToSocket ==
    /\ spc = "loop"
    /\ connected
    /\ sendBuff # <<>>
    /\ sendBuff' = Tail(sendBuff)
    /\ IF peerOpen
       THEN up' = Append(up, Head(sendBuff)) /\ UNCHANGED <<spc, fault>>
       ELSE /\ UNCHANGED up
            /\ \/ fault' = TRUE /\ UNCHANGED spc
               \/ spc' = "writing" /\ UNCHANGED fault
    /\ UNCHANGED <<callVars, linkVars, nodeVars, down, connected, peerOpen, found, rsp>>

Matches_AnySeqId(seqId) == {n \in Reach(head) : hasReq[n]}
Matches_OnlyHead(seqId) == {n \in {head} \ {None} : hasReq[n] /\ n = seqId}

\* The nodes an answer can be given to: those met from the head that have a request with
\* its seqId.
Matches(seqId) == {n \in Reach(head) : hasReq[n] /\ n = seqId}

\* The node whose request has this seqId leaves the list.
FindAndMoveWaitingMsg(seqId) ==
    \/ \E n \in Matches(seqId) :
          /\ MoveFromList(n)
          /\ found' = n
    \/ /\ Matches(seqId) = {}
       /\ found' = None
       /\ UNCHANGED <<linkVars, fault>>

\* RecvMsgFromSocket reads an answer, and ProcessRspMsg looks for its node; an answer
\* nobody waits for is dropped.
RecvMsgFromSocket ==
    /\ spc = "loop"
    /\ connected
    /\ down # <<>>
    /\ down' = Tail(down)
    /\ FindAndMoveWaitingMsg(Head(down))
    /\ IF found' = None THEN UNCHANGED <<spc, rsp>> ELSE spc' = "deliver" /\ rsp' = Head(down)
    /\ UNCHANGED <<callVars, nodeVars, sendBuff, up, connected, peerOpen>>

\* rwm->rspMsg = rsp, with no lock held: the call may be gone by now.
DeliverAnswer ==
    /\ spc = "deliver"
    /\ rspMsg' = [rspMsg EXCEPT ![found] = rsp]
    /\ rsp' = None
    /\ spc' = "signal"
    /\ UNCHANGED <<callVars, linkVars, hasReq, netVars, found, fault>>

\* DoRspToWaitingMsg wakes the call if it is waiting, and is lost otherwise.
SignalCall ==
    /\ spc = "signal"
    /\ pc' = [pc EXCEPT ![found] = IF @ = "waiting" THEN "woken" ELSE @]
    /\ found' = None
    /\ spc' = "loop"
    /\ UNCHANGED <<start, got, linkVars, nodeVars, netVars, rsp, fault>>

\* ReadMsg meets the end of the stream.
NoticeClosed ==
    /\ spc = "loop"
    /\ connected /\ ~peerOpen
    /\ down = <<>>
    /\ connected' = FALSE
    /\ UNCHANGED <<callVars, linkVars, nodeVars, sendBuff, up, down, peerOpen, sockVars, fault>>

\* CreateConnection, every RECONNECTE_INTERVAL until the daemon is there.
Reconnect ==
    /\ spc = "loop"
    /\ ~connected
    /\ connected' = TRUE
    /\ peerOpen' = TRUE
    /\ UNCHANGED <<callVars, linkVars, nodeVars, sendBuff, up, down, sockVars, fault>>

SockStep ==
    \/ SendMsgToSocket
    \/ RecvMsgFromSocket
    \/ DeliverAnswer
    \/ SignalCall
    \/ NoticeClosed
    \/ Reconnect

(***************************************************************************)
(* The daemon, as the client sees it.                                      *)
(***************************************************************************)
\* It answers the requests in order, and leaves some without an answer.
Answer ==
    /\ peerOpen
    /\ up # <<>>
    /\ up' = Tail(up)
    /\ down' \in {down, Append(down, Head(up))}
    /\ UNCHANGED <<callVars, linkVars, nodeVars, sendBuff, connected, peerOpen, sockVars, fault>>

\* It stops, or drops the client; answers not yet read may be lost too.
Close ==
    /\ connected /\ peerOpen
    /\ peerOpen' = FALSE
    /\ up' = <<>>
    /\ down' \in {down, <<>>}
    /\ UNCHANGED <<callVars, linkVars, nodeVars, sendBuff, connected, sockVars, fault>>

Next ==
    /\ ~fault
    /\ \/ \E c \in Call : CallStep(c)
       \/ SockStep
       \/ Answer
       \/ Close

\* A call that has begun goes on: its steps take finite time, a wait ends in two seconds.
\* Nothing is assumed of the socket thread, the daemon, the connection or luck.
Fairness == \A c \in Call : WF_vars(~fault /\ pc[c] # "start" /\ Proceed(c))

Spec == Init /\ [][Next]_vars /\ Fairness

(***************************************************************************)
(* Properties.                                                             *)
(***************************************************************************)
CallPc == {"start", "sent", "listed", "waiting", "expired", "walking", "woken", "took",
           "cleared", "done"}

TypeOK ==
    /\ pc \in [Call -> CallPc]
    /\ start \in [Call -> Call \union {None}]
    /\ got \in [Call -> Call \union {None}]
    /\ next \in [Call -> Call \union {None}]
    /\ prev \in [Call -> Call \union {None}]
    /\ hasReq \in [Call -> BOOLEAN]
    /\ rspMsg \in [Call -> Call \union {None}]
    /\ head \in Call \union {None}
    /\ tail \in Call \union {None}
    /\ inList \subseteq Call
    /\ sendBuff \in Seq(Call) /\ Len(sendBuff) <= SendCapacity
    /\ up \in Seq(Call)
    /\ down \in Seq(Call)
    /\ connected \in BOOLEAN
    /\ peerOpen \in BOOLEAN
    /\ spc \in {"loop", "deliver", "signal", "writing"}
    /\ found \in Call \union {None}
    /\ rsp \in Call \union {None}
    /\ fault \in BOOLEAN

\* A call returns its own answer or none, however late, early or out of turn answers
\* arrive while other calls time out and reuse the list.
AnswerIsOwn == \A c \in Call : got[c] \in {c, None}

\* Calls that returned, or are about to, and left their node in the list.
LeftBehind == {c \in inList : pc[c] \in {"woken", "took", "cleared", "done"}}

\* While no call has left its node behind, the list is whole: following next from the
\* head meets exactly the nodes that joined and were not moved out, prev undoes next and
\* the tail is the last.  Joins, moves by the socket thread and moves by calls that timed
\* out keep it so in every order.
ListIsWhole ==
    (LeftBehind = {} /\ ~fault) =>
        /\ Reach(head) = inList
        /\ head = None <=> inList = {}
        /\ \A n \in inList :
              /\ next[n] = None <=> n = tail
              /\ prev[n] = None <=> n = head
              /\ next[n] # None => prev[next[n]] = n

\* An answer is dropped only when its call has not joined the list yet, has given up or got
\* no memory for its node, or the list lost nodes because of a call that left its node behind.
DroppedOnlyEarlyOrLate ==
    [][(RecvMsgFromSocket /\ found' = None /\ LeftBehind = {} /\ ~fault')
          => pc[Head(down)] \in {"sent", "woken", "took", "cleared", "done"}]_vars

\* A call that has begun returns: no interleaving with the socket thread or other calls,
\* lost signal or lost answer makes it wait for ever, unless the process dies.
CallsReturn == \A c \in Call : pc[c] # "start" ~> (pc[c] = "done" \/ fault)
=============================================================================
