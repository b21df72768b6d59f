------------------------------- MODULE Library -------------------------------
(***************************************************************************)
(* The life of the client library in an app: PWR_Register, PWR_UnRegister, *)
(* and calls between, by app threads that share it (pwrapic/src/powerapi.c *)
(* and sockclient.c).  Register makes a connection and a socket thread,    *)
(* UnRegister joins the thread, closes the connection and releases what is *)
(* queued.  The globals behind it, g_status, g_sockFd, g_sockThread, the   *)
(* buffers and the waiting list, are not locked; each step below is what a *)
(* thread does between two points where it can wait for others.            *)
(*                                                                         *)
(* How a call finds its answer is the subject of SockClient; here a call   *)
(* is where its request is, and who frees it.                              *)
(***************************************************************************)
EXTENDS Naturals, FiniteSetsExt

CONSTANTS
    App,            \* app threads
    MaxFd,          \* bound: descriptors of the process
    MaxSock,        \* bound: socket threads that run at once
    None            \* INVALID_FD, and no thread

Fd == 1 .. MaxFd
Sock == 1 .. MaxSock

ASSUME LibraryAssumption ==
    /\ MaxFd \in Nat
    /\ MaxSock \in Nat
    /\ None \notin Nat

VARIABLES
    pc,             \* where each app thread is in the library, "out" if it is not
    goal,           \* the function it has called
    status,         \* g_status
    fd,             \* g_sockFd
    peer,           \* the daemon has not closed the other end of g_sockFd
    open,           \* descriptors that are not closed
    keepRunning,    \* of g_sockThread
    thread,         \* the thread of g_sockThread, None if it is not created
    joining,        \* the thread an app thread joins
    sock,           \* where each socket thread is
    where,          \* where the request of each app thread's call is
    waiting,        \* app threads whose node is in g_waitList
    req,            \* the memory of that request
    answered,       \* the call has got an answer
    lost,           \* descriptors of connections found closed by the daemon: history
    doubled,        \* Register was called while a socket thread ran: history
    overlapped,     \* Register or UnRegister ran beside another function: history
    unlisted,       \* a call got no memory for its node: history
    fault           \* what the process has died of

threadInfo == <<keepRunning, thread>>
sockets == <<fd, peer, open>>
callVars == <<where, waiting, req, answered>>
history == <<lost, doubled, overlapped, unlisted>>
vars == <<pc, goal, status, sockets, threadInfo, joining, sock, callVars, history, fault>>

Running == {s \in Sock : sock[s] # "none"}
LifeCycle == {"register", "unregister"}
Inside == {a \in App : pc[a] # "out"}
Changing == {a \in Inside : goal[a] \in LifeCycle}

Init ==
    /\ pc = [a \in App |-> "out"]
    /\ goal = [a \in App |-> "call"]
    /\ status = "unregistered"
    /\ fd = None /\ peer = FALSE /\ open = {}
    /\ keepRunning = FALSE /\ thread = None
    /\ joining = [a \in App |-> None]
    /\ sock = [s \in Sock |-> "none"]
    /\ where = [a \in App |-> "nowhere"]
    /\ waiting = {}
    /\ req = [a \in App |-> "none"]
    /\ answered = [a \in App |-> FALSE]
    /\ lost = {} /\ doubled = FALSE /\ overlapped = FALSE /\ unlisted = FALSE
    /\ fault = "none"

GoTo(a, next) == pc' = [pc EXCEPT ![a] = next]

\* The function returns.
Leave(a) ==
    /\ GoTo(a, "out")
    /\ goal' = [goal EXCEPT ![a] = "call"]

\* App thread a calls a function of the library.  Bounds: after a call beside Register or
\* UnRegister, or one whose request is to be freed twice, nothing more is called; after a
\* Register while a socket thread runs neither Register nor RequestControlAuth is.
Enter(a, g) ==
    /\ pc[a] = "out" /\ ~overlapped /\ ~unlisted
    /\ doubled => g \notin {"register", "auth"}
    /\ goal' = [goal EXCEPT ![a] = g]
    /\ overlapped' = (Changing # {} \/ (g \in LifeCycle /\ Inside # {}))

\* Requests in the send buffer, or sent and not answered, are gone.
Forget(place) == [a \in App |-> IF where[a] = place THEN "nowhere" ELSE where[a]]

(***************************************************************************)
(* CreateConnection, for Register and for a socket thread that reconnects. *)
(***************************************************************************)
\* g_sockFd becomes the new connection, whatever it was.
CreateConnection ==
    /\ Fd \ open # {}
    /\ fd' = Min(Fd \ open)
    /\ peer' = TRUE
    /\ open' = open \union {fd'}
    /\ where' = Forget("sent")

(***************************************************************************)
(* PWR_Register.                                                           *)
(***************************************************************************)
\* InitSockClient initialises buffers, list and thread info again, in use or not.
PWR_Register(a) ==
    /\ Enter(a, "register")
    /\ GoTo(a, "connect")
    /\ doubled' = (doubled \/ Running # {})
    /\ where' = Forget("buffered")
    /\ waiting' = {}
    /\ keepRunning' = TRUE /\ thread' = None
    /\ UNCHANGED <<status, sockets, joining, sock, req, answered, lost, unlisted, fault>>

\* If there is no connection, what is there is taken down again.
Connect(a) ==
    /\ pc[a] = "connect"
    /\ \/ CreateConnection /\ GoTo(a, "create")
       \/ GoTo(a, "stop") /\ UNCHANGED <<sockets, where>>
    /\ UNCHANGED <<goal, status, threadInfo, joining, sock, waiting, req, answered, history, fault>>

CreateThread(a) ==
    /\ pc[a] = "create"
    /\ keepRunning' = TRUE
    /\ \/ \E s \in Sock \ Running :
             /\ sock' = [sock EXCEPT ![s] = "loop"]
             /\ thread' = s
             /\ GoTo(a, "mark")
       \/ GoTo(a, "stop") /\ UNCHANGED <<sock, thread>>
    /\ UNCHANGED <<goal, status, sockets, joining, callVars, history, fault>>

MarkRegistered(a) ==
    /\ pc[a] = "mark"
    /\ status' = IF status = "unregistered" THEN "registered" ELSE status
    /\ Leave(a)
    /\ UNCHANGED <<sockets, threadInfo, joining, sock, callVars, history, fault>>

(***************************************************************************)
(* PWR_UnRegister, and a Register that failed: FiniSockClient.             *)
(***************************************************************************)
PWR_UnRegister(a) ==
    /\ Enter(a, "unregister")
    /\ GoTo(a, "stop")
    /\ UNCHANGED <<status, sockets, threadInfo, joining, sock, callVars, lost, doubled, unlisted,
                   fault>>

StopThread_NoJoin(a) ==
    /\ pc[a] = "stop"
    /\ keepRunning' = FALSE
    /\ joining' = [joining EXCEPT ![a] = thread]
    /\ GoTo(a, "close")
    /\ UNCHANGED <<goal, status, sockets, thread, sock, callVars, history, fault>>

StopThread_KeepsFlag(a) ==
    /\ pc[a] = "stop"
    /\ joining' = [joining EXCEPT ![a] = thread]
    /\ GoTo(a, IF thread # None THEN "join" ELSE "close")
    /\ UNCHANGED <<goal, status, sockets, threadInfo, sock, callVars, history, fault>>

\* FiniThreadInfo: keepRunning = FALSE, and pthread_join if the thread was created ...
StopThread(a) ==
    /\ pc[a] = "stop"
    /\ keepRunning' = FALSE
    /\ joining' = [joining EXCEPT ![a] = thread]
    /\ GoTo(a, IF thread # None THEN "join" ELSE "close")
    /\ UNCHANGED <<goal, status, sockets, thread, sock, callVars, history, fault>>

\* ... which returns when the thread has ended.
Join(a) ==
    /\ pc[a] = "join"
    /\ sock[joining[a]] = "none"
    /\ thread' = None
    /\ joining' = [joining EXCEPT ![a] = None]
    /\ GoTo(a, "close")
    /\ UNCHANGED <<goal, status, sockets, keepRunning, sock, callVars, history, fault>>

CloseSocket_Zero(a) ==
    /\ pc[a] = "close"
    /\ open' = open \ {fd}
    /\ lost' = lost \ {fd}
    /\ fd' = 0 /\ peer' = FALSE
    /\ where' = Forget("sent")
    /\ GoTo(a, "reset")
    /\ UNCHANGED <<goal, status, threadInfo, joining, sock, waiting, req, answered, doubled,
                   overlapped, unlisted, fault>>

\* close(g_sockFd), and g_sockFd = INVALID_FD.
CloseSocket(a) ==
    /\ pc[a] = "close"
    /\ open' = open \ {fd}
    /\ lost' = lost \ {fd}
    /\ fd' = None /\ peer' = FALSE
    /\ where' = Forget("sent")
    /\ GoTo(a, "reset")
    /\ UNCHANGED <<goal, status, threadInfo, joining, sock, waiting, req, answered, doubled,
                   overlapped, unlisted, fault>>

\* The buffers are emptied; the nodes of calls that still wait are released with their
\* requests.
ResetBuffers(a) ==
    /\ pc[a] = "reset"
    /\ where' = Forget("buffered")
    /\ req' = [b \in App |-> IF b \in waiting THEN "freed" ELSE req[b]]
    /\ fault' = IF \E b \in waiting : req[b] # "live" THEN "freed twice" ELSE fault
    /\ waiting' = {}
    /\ IF goal[a] = "unregister" THEN GoTo(a, "unmark") /\ UNCHANGED goal ELSE Leave(a)
    /\ UNCHANGED <<status, sockets, threadInfo, joining, sock, answered, history>>

MarkUnregistered(a) ==
    /\ pc[a] = "unmark"
    /\ status' = "unregistered"
    /\ Leave(a)
    /\ UNCHANGED <<sockets, threadInfo, joining, sock, callVars, history, fault>>

(***************************************************************************)
(* A call, and PWR_RequestControlAuth, which writes g_status at its end.   *)
(***************************************************************************)
\* CHECK_STATUS and CHECK_SOCKET_STATUS; the request is created.
BeginCall(a) ==
    /\ \E g \in {"call", "auth"} : Enter(a, g)
    /\ status # "unregistered" /\ fd # None
    /\ GoTo(a, "send")
    /\ req' = [req EXCEPT ![a] = "live"]
    /\ UNCHANGED <<status, sockets, threadInfo, joining, sock, where, waiting, answered, lost,
                   doubled, unlisted, fault>>

\* SendMsgSyn checks the socket again; the clone, if there is memory for it, goes to the send
\* buffer.
SendClone(a) ==
    /\ pc[a] = "send"
    /\ \/ fd # None /\ GoTo(a, "enlist") /\ where' = [where EXCEPT ![a] = "buffered"]
       \/ GoTo(a, "return") /\ UNCHANGED where
    /\ UNCHANGED <<goal, status, sockets, threadInfo, joining, sock, waiting, req, answered, history, fault>>

\* The node of the call joins the list.  If there is no memory for it, SendMsgSyn releases
\* the request, though its caller still has it.
Enlist(a) ==
    /\ pc[a] = "enlist"
    /\ \/ waiting' = waiting \union {a} /\ GoTo(a, "wait") /\ UNCHANGED <<req, unlisted>>
       \/ /\ req' = [req EXCEPT ![a] = "freed"] /\ unlisted' = TRUE
          /\ GoTo(a, "return") /\ UNCHANGED waiting
    /\ UNCHANGED <<goal, status, sockets, threadInfo, joining, sock, where, answered, lost, doubled,
                   overlapped, fault>>

\* The call has its answer, or two seconds are over, and its node leaves the list.
EndWait(a) ==
    /\ pc[a] = "wait"
    /\ waiting' = waiting \ {a}
    /\ GoTo(a, "return")
    /\ UNCHANGED <<goal, status, sockets, threadInfo, joining, sock, where, req, answered, history, fault>>

Return_LeavesNode(a) ==
    /\ pc[a] = "return"
    /\ where' = [where EXCEPT ![a] = "nowhere"]
    /\ waiting' = waiting \union {a}
    /\ fault' = IF req[a] = "freed" THEN "freed twice" ELSE fault
    /\ req' = [req EXCEPT ![a] = "freed"]
    /\ answered' = [answered EXCEPT ![a] = FALSE]
    /\ \/ Leave(a)
       \/ goal[a] = "auth" /\ answered[a] /\ GoTo(a, "grant") /\ UNCHANGED goal
    /\ UNCHANGED <<status, sockets, threadInfo, joining, sock, history>>

\* SendReqAndWaitForRsp releases the request and returns what the answer says.
Return(a) ==
    /\ pc[a] = "return"
    /\ where' = [where EXCEPT ![a] = "nowhere"]
    /\ fault' = IF req[a] = "freed" THEN "freed twice" ELSE fault
    /\ req' = [req EXCEPT ![a] = "none"]
    /\ answered' = [answered EXCEPT ![a] = FALSE]
    /\ \/ Leave(a)
       \/ goal[a] = "auth" /\ answered[a] /\ GoTo(a, "grant") /\ UNCHANGED goal
    /\ UNCHANGED <<status, sockets, threadInfo, joining, sock, waiting, history>>

\* PWR_RequestControlAuth has got SUCCESS: g_status = STATUS_AUTHED.
Grant(a) ==
    /\ pc[a] = "grant"
    /\ status' = "authed"
    /\ Leave(a)
    /\ UNCHANGED <<sockets, threadInfo, joining, sock, callVars, history, fault>>

AppStep(a) ==
    \/ Connect(a) \/ CreateThread(a) \/ MarkRegistered(a)
    \/ StopThread(a) \/ Join(a) \/ CloseSocket(a) \/ ResetBuffers(a) \/ MarkUnregistered(a)
    \/ SendClone(a) \/ Enlist(a) \/ EndWait(a) \/ Return(a) \/ Grant(a)

(***************************************************************************)
(* A socket thread: RunSocketProcess.                                      *)
(***************************************************************************)
MoveTo(s, next) == sock' = [sock EXCEPT ![s] = next]

\* The loop condition, and whether there is a connection.
Loop(s) ==
    /\ sock[s] = "loop"
    /\ MoveTo(s, IF ~keepRunning THEN "none" ELSE IF fd = None THEN "connecting" ELSE "io")
    /\ UNCHANGED <<pc, goal, status, sockets, threadInfo, joining, callVars, history, fault>>

\* sleep(RECONNECTE_INTERVAL), and CreateConnection, whose connect waits as long as the daemon
\* has no room for another connection.
Reconnect(s) ==
    /\ sock[s] = "connecting"
    /\ MoveTo(s, "loop")
    /\ CreateConnection \/ UNCHANGED <<sockets, where>>
    /\ UNCHANGED <<pc, goal, status, threadInfo, joining, waiting, req, answered, history, fault>>

\* A write to a daemon that has gone: the process dies of SIGPIPE or, with the signal
\* ignored, the thread writes for ever.
WriteToNobody(s) ==
    /\ ~peer
    /\ \/ fd # None /\ fault' = "SIGPIPE" /\ UNCHANGED sock
       \/ MoveTo(s, "writing") /\ UNCHANGED fault

\* SendMsgToSocket: the daemon has room for the requests, or send waits for it to read.
SendMsgToSocket(s) ==
    /\ sock[s] = "io"
    /\ \E a \in App : where[a] = "buffered"
    /\ \/ /\ peer
          /\ where' = [a \in App |-> IF where[a] = "buffered" THEN "sent" ELSE where[a]]
          /\ UNCHANGED sock \/ MoveTo(s, "sending")
          /\ UNCHANGED fault
       \/ WriteToNobody(s) /\ UNCHANGED where
    /\ UNCHANGED <<pc, goal, status, sockets, threadInfo, joining, waiting, req, answered, history>>

\* The send that waited goes on: the daemon has read, or has gone.
GoOnSending(s) ==
    /\ sock[s] = "sending"
    /\ \/ peer /\ MoveTo(s, "io") /\ UNCHANGED fault
       \/ WriteToNobody(s)
    /\ UNCHANGED <<pc, goal, status, sockets, threadInfo, joining, callVars, history>>

\* select finds the beginning of a message, and recv waits for the rest.
BeginToRecv(s) ==
    /\ sock[s] = "io"
    /\ fd # None /\ peer
    /\ MoveTo(s, "receiving")
    /\ UNCHANGED <<pc, goal, status, sockets, threadInfo, joining, callVars, history, fault>>

\* Nothing has come, or a message that is dropped or handed to the callback, or an answer for
\* a call, which is woken.
RecvMsgFromSocket(s) ==
    /\ sock[s] \in {"io", "receiving"}
    /\ MoveTo(s, "loop")
    /\ \/ UNCHANGED <<where, waiting, answered>>
       \/ \E a \in waiting :
             /\ where[a] = "sent" /\ peer
             /\ where' = [where EXCEPT ![a] = "nowhere"]
             /\ waiting' = waiting \ {a}
             /\ answered' = [answered EXCEPT ![a] = TRUE]
    /\ UNCHANGED <<pc, goal, status, sockets, threadInfo, joining, req, history, fault>>

\* ReadMsg meets the end of the stream and forgets g_sockFd without closing it, or recv
\* fails and it is closed.  The message it was read for is released with a data pointer
\* nobody has set, or that the daemon sent.
NoticeClosed(s) ==
    /\ sock[s] \in {"io", "receiving"}
    /\ fd # None /\ ~peer
    /\ \/ lost' = lost \union {fd} /\ UNCHANGED open
       \/ lost' = lost \ {fd} /\ open' = open \ {fd}
    /\ fd' = None
    /\ where' = Forget("sent")
    /\ MoveTo(s, "loop")
    /\ fault' \in {fault, "freed garbage"}
    /\ UNCHANGED <<pc, goal, status, peer, threadInfo, joining, waiting, req, answered,
                   doubled, overlapped, unlisted>>

SockStep(s) ==
    \/ Loop(s)
    \/ Reconnect(s)
    \/ SendMsgToSocket(s)
    \/ GoOnSending(s)
    \/ BeginToRecv(s)
    \/ RecvMsgFromSocket(s)
    \/ NoticeClosed(s)

\* The daemon stops, or drops the client.
DaemonCloses ==
    /\ peer
    /\ peer' = FALSE
    /\ UNCHANGED <<pc, goal, status, fd, open, threadInfo, joining, sock, callVars, history, fault>>

Next ==
    /\ fault = "none"
    /\ \/ \E a \in App : PWR_Register(a) \/ PWR_UnRegister(a) \/ BeginCall(a) \/ AppStep(a)
       \/ \E s \in Sock : SockStep(s)
       \/ DaemonCloses

\* connect, send and recv have no time-out: what the socket thread does next depends on the
\* daemon, which need not accept, read or write ever.  At the end of the connection send and
\* recv return, if it is the connection of g_sockFd they wait at.
DependsOnDaemon(s) ==
    \/ sock[s] = "connecting"
    \/ sock[s] \in {"sending", "receiving"} /\ (peer \/ doubled)

\* Threads run; select, the wait for an answer and the sleep before a reconnection end by
\* themselves, and pthread_join when the thread has ended.  Nothing is assumed of the daemon.
Fairness ==
    /\ \A a \in App : WF_vars(fault = "none" /\ pc[a] # "connect" /\ AppStep(a))
    /\ \A s \in Sock : WF_vars(fault = "none" /\ ~DependsOnDaemon(s) /\ SockStep(s))

Spec == Init /\ [][Next]_vars /\ Fairness

(***************************************************************************)
(* Properties.                                                             *)
(***************************************************************************)
TypeOK ==
    /\ pc \in [App -> {"out", "connect", "create", "mark", "stop", "join", "close", "reset", "unmark",
                       "send", "enlist", "wait", "return", "grant"}]
    /\ goal \in [App -> {"register", "unregister", "call", "auth"}]
    /\ status \in {"unregistered", "registered", "authed"}
    /\ fd \in Fd \union {None} /\ peer \in BOOLEAN
    /\ open \subseteq Fd
    /\ keepRunning \in BOOLEAN /\ thread \in Sock \union {None}
    /\ joining \in [App -> Sock \union {None}]
    /\ sock \in [Sock -> {"none", "loop", "connecting", "io", "sending", "receiving",
                           "writing"}]
    /\ where \in [App -> {"nowhere", "buffered", "sent"}]
    /\ waiting \subseteq App
    /\ req \in [App -> {"none", "live", "freed"}]
    /\ answered \in [App -> BOOLEAN]
    /\ lost \subseteq Fd
    /\ doubled \in BOOLEAN /\ overlapped \in BOOLEAN /\ unlisted \in BOOLEAN
    /\ fault \in {"none", "freed twice", "SIGPIPE", "freed garbage"}

\* An app that takes its calls one after the other, registers once before it unregisters,
\* and is between two of them: while it is registered the one socket thread there is, the
\* one that can be joined, serves it; once it has unregistered no thread is left, and no
\* connection but those that the daemon closed.
QuietAfterUnRegister ==
    (~doubled /\ ~overlapped /\ Changing = {}) =>
        /\ status # "unregistered" => keepRunning /\ Running = {thread}
        /\ status = "unregistered" => Running = {} /\ fd = None /\ open \subseteq lost

\* A request is freed once, by the call or by UnRegister, in every order of calls, answers,
\* time-outs and reconnections.  Two things free it under the hands of its call: a Register or
\* UnRegister beside the call, and a node that could not be created, for which SendMsgSyn
\* releases the request (sockclient.c:302) that its callers read and release again (327, 425).
RequestFreedOnce == fault = "freed twice" => overlapped \/ unlisted

\* App thread a joins a socket thread that waits for the daemon.
HeldByDaemon(a) == pc[a] = "join" /\ \E s \in Sock : joining[a] = s /\ DependsOnDaemon(s)

\* PWR_UnRegister returns: the socket thread it joins ends, even asleep before it
\* reconnects, unless it stays in a connect, send or recv that the daemon does not answer,
\* or writes for ever to a daemon that has gone, or another app thread registers in the
\* meantime, which sets keepRunning again.
UnRegisterReturns ==
    \A a \in App : pc[a] = "join" ~>
        (\/ pc[a] # "join" \/ overlapped \/ fault # "none"
         \/ \E s \in Sock : sock[s] = "writing"
         \/ []HeldByDaemon(a))
=============================================================================
