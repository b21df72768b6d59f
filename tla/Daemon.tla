------------------------------- MODULE Daemon -------------------------------
(***************************************************************************)
(* Start and stop of the daemon around its tasks: main (main_frame.c), the *)
(* service and socket threads it creates and joins in StartServer and      *)
(* StopServer (server.c), and the task service it initialises after them   *)
(* and takes down before them.  The configuration main polls is in Config, *)
(* the logger in Logger.  A death of the process leaves nothing; systemd   *)
(* starts another, which begins with Init.                                 *)
(***************************************************************************)
EXTENDS TaskService

VARIABLES
    main,       \* where the main thread is
    proc,       \* the service thread and the socket thread: "none" or "runs"
    keep,       \* keepRunning of both
    keepMain,   \* g_keepMainRunning
    left,       \* entries FiniAllTask has still to visit
    stray,      \* entries whose collectors run on although InitTaskService cleared the list
    broken,     \* InitTaskService cleared the list while a thread was inside it, or two
                \* threads were in the list after its mutex had been destroyed: history
    early,      \* a task was created before InitTaskService: history
    late        \* a task was created after FiniTaskService: history

history == <<broken, early, late>>
mainVars == <<main, proc, keep, keepMain, left, stray, history>>
allVars == <<vars, mainVars>>

Server == {"service", "socket"}

DaemonInit ==
    /\ Init
    /\ main = "base"
    /\ proc = [t \in Server |-> "none"]
    /\ keep = [t \in Server |-> FALSE]
    /\ keepMain = FALSE
    /\ left = {} /\ stray = {}
    /\ broken = FALSE /\ early = FALSE /\ late = FALSE

Go(next) == main' = next

\* The process is over, with all its threads.
Exit ==
    /\ Go("exited")
    /\ proc' = [t \in Server |-> "none"]
    /\ thread' = [t \in Thread |-> Idle]
    /\ coll' = [i \in Index |-> NoThread]
    /\ holder' = Nobody
    /\ left' = {} /\ stray' = {}
    /\ UNCHANGED <<clients, tasks, taskNum, mutex, keep, keepMain, history>>

(***************************************************************************)
(* Start.                                                                  *)
(***************************************************************************)
\* BaseInit, and StartServer up to the listening socket; any failure is exit(-1).
StartUnxListen ==
    /\ main = "base"
    /\ \/ Go("service") /\ UNCHANGED <<vars, proc, keep, keepMain, left, stray, history>>
       \/ Exit

\* CreateThread for the service thread, then for the socket thread.
CreateServerThread(t) ==
    /\ main = t
    /\ \/ /\ proc' = [proc EXCEPT ![t] = "runs"]
          /\ keep' = [keep EXCEPT ![t] = TRUE]
          /\ Go(IF t = "service" THEN "socket" ELSE "init")
          /\ UNCHANGED <<vars, keepMain, left, stray, history>>
       \/ Exit

\* The list is cleared and the mutex made anew, in use or not: the service thread may have
\* handled requests by now.  The collector of a task that was in the list runs on, with a
\* task nobody knows any more, unless its type has no action and its thread ends by itself.
InitTaskService ==
    /\ main = "init"
    /\ stray' = {i \in Index : coll[i].at # "none" /\ tasks[i].dataType \in Collectable}
    /\ coll' = [i \in Index |-> NoThread]
    /\ tasks' = [i \in Index |-> NoTask]
    /\ taskNum' = 0
    /\ holder' = Nobody
    /\ broken' = (holder # Nobody)
    /\ Go("signals")
    /\ UNCHANGED <<clients, mutex, thread, proc, keep, keepMain, left, early, late>>

SetupSignal ==
    /\ main = "signals"
    /\ Go("enter")
    /\ UNCHANGED <<vars, proc, keep, keepMain, left, stray, history>>

\* g_keepMainRunning = KEEP_RUN, also if a signal has just cleared it.
EnterLoop ==
    /\ main = "enter"
    /\ keepMain' = TRUE
    /\ Go("loop")
    /\ UNCHANGED <<vars, proc, keep, left, stray, history>>

\* A signal ends the process until SetupSignal; from then on it clears the flag.
SignalHandler ==
    /\ main # "exited"
    /\ IF main \in {"base", "service", "socket", "init", "signals"}
       THEN Exit
       ELSE keepMain' = FALSE /\ UNCHANGED <<vars, main, proc, keep, left, stray, history>>

(***************************************************************************)
(* Stop.                                                                   *)
(***************************************************************************)
\* The loop condition after a sleep and a poll of the configuration.
LeaveLoop ==
    /\ main = "loop"
    /\ ~keepMain
    /\ Go("fini")
    /\ UNCHANGED <<vars, proc, keep, keepMain, left, stray, history>>

\* FiniAllTask locks the task list ...
FiniTaskService ==
    /\ main = "fini"
    /\ Lock("main")
    /\ left' = Index
    /\ Go("visit")
    /\ UNCHANGED <<clients, tasks, taskNum, mutex, thread, coll, proc, keep, keepMain, stray, history>>

\* ... and ends every task it finds, subscribers or not.
VisitAll ==
    /\ main = "visit" /\ left # {}
    /\ LET i == Least(left)
       IN  IF i \in Used
           THEN /\ coll' = [coll EXCEPT ![i].keepRunning = FALSE]
                /\ Go("join")
                /\ UNCHANGED left
           ELSE left' = left \ {i} /\ UNCHANGED <<coll, main>>
    /\ UNCHANGED <<clients, tasks, taskNum, lock, thread, proc, keep, keepMain, stray, history>>

FiniEach_NoJoin ==
    /\ main = "join"
    /\ tasks' = [tasks EXCEPT ![Least(left)] = NoTask]
    /\ taskNum' = taskNum - 1
    /\ left' = left \ {Least(left)}
    /\ Go("visit")
    /\ UNCHANGED <<clients, lock, thread, coll, proc, keep, keepMain, stray, history>>

FiniEach ==
    /\ main = "join"
    /\ coll[Least(left)].at = "none"
    /\ tasks' = [tasks EXCEPT ![Least(left)] = NoTask]
    /\ taskNum' = taskNum - 1
    /\ left' = left \ {Least(left)}
    /\ Go("visit")
    /\ UNCHANGED <<clients, lock, thread, coll, proc, keep, keepMain, stray, history>>

UnlockAll ==
    /\ main = "visit" /\ left = {}
    /\ holder' = Nobody
    /\ Go("destroy")
    /\ UNCHANGED <<clients, tasks, taskNum, mutex, thread, coll, proc, keep, keepMain, left, stray, history>>

\* The count is reset, whatever is in the list again, and then comes pthread_mutex_destroy,
\* which a mutex that is held again withstands.
DestroyMutex ==
    /\ main = "destroy"
    /\ taskNum' = 0
    /\ mutex' = (holder # Nobody)
    /\ Go("stop socket")
    /\ UNCHANGED <<clients, tasks, holder, thread, coll, proc, keep, keepMain, left, stray, history>>

StopThread_KeepsRunning(t, join) ==
    /\ Go(join)
    /\ UNCHANGED <<vars, proc, keep, keepMain, left, stray, history>>

\* FiniThreadInfo of the socket thread and then of the service thread.
StopThread(t, join) ==
    /\ keep' = [keep EXCEPT ![t] = FALSE]
    /\ Go(join)
    /\ UNCHANGED <<vars, proc, keepMain, left, stray, history>>

JoinThread(t, next) ==
    /\ proc[t] = "none"
    /\ Go(next)
    /\ UNCHANGED <<vars, proc, keep, keepMain, left, stray, history>>

StopServer ==
    \/ main = "stop socket" /\ StopThread("socket", "join socket")
    \/ main = "join socket" /\ JoinThread("socket", "stop service")
    \/ main = "stop service" /\ StopThread("service", "join service")
    \/ main = "join service" /\ JoinThread("service", "clear")

\* StopListen, the buffers, ClearLogger, and the return from main.
ClearEnv ==
    /\ main = "clear"
    /\ Exit

MainStep ==
    \/ StartUnxListen
    \/ \E t \in Server : CreateServerThread(t)
    \/ InitTaskService
    \/ SetupSignal
    \/ EnterLoop
    \/ LeaveLoop
    \/ FiniTaskService
    \/ VisitAll
    \/ FiniEach
    \/ UnlockAll
    \/ DestroyMutex
    \/ StopServer
    \/ ClearEnv

(***************************************************************************)
(* The threads main creates.                                               *)
(***************************************************************************)
Runs(t) == proc[t] = "runs"
Starting == {"base", "service", "socket", "init"}
Finished == {"destroy", "stop socket", "join socket", "stop service", "join service", "clear"}

\* The end of the loops RunServiceProcess and RunServerSocketProcess.
EndThread(t) ==
    /\ Runs(t) /\ ~keep[t] /\ thread[t].at = "idle"
    /\ proc' = [proc EXCEPT ![t] = "none"]
    /\ UNCHANGED <<vars, main, keep, keepMain, left, stray, history>>

\* A request is taken; the service thread is in the list beside the socket thread.
ServiceStep ==
    /\ Runs("service")
    /\ CreateTask \/ DeleteTask
    /\ early' = (early \/ (taskNum' > taskNum /\ main \in Starting))
    /\ late' = (late \/ (taskNum' > taskNum /\ main \in Finished))
    /\ broken' = (thread["socket"].at # "idle" /\ ~mutex)
    /\ UNCHANGED <<main, proc, keep, keepMain, left, stray>>

SocketStep ==
    /\ Runs("socket")
    /\ \/ (\E c \in Client : Connect(c) \/ SendRequest(c)) /\ UNCHANGED broken
       \/ /\ \E i \in Slot : CleanClientResource(i)
          /\ broken' = (thread["service"].at # "idle" /\ ~mutex)
    /\ UNCHANGED <<main, proc, keep, keepMain, left, stray, early, late>>

DeletionStep(t) == Runs(t) /\ ListStep(t) /\ UNCHANGED mainVars
CollectStep(i) == CollectorStep(i) /\ UNCHANGED mainVars

\* What becomes of a list that is broken is not followed: a thread goes on in what was
\* cleared under it, or two threads change the list at once.
DaemonNext ==
    /\ ~broken
    /\ \/ MainStep
       \/ SignalHandler
       \/ \E t \in Server : EndThread(t) \/ DeletionStep(t)
       \/ ServiceStep
       \/ SocketStep
       \/ \E c \in Client : Leave(c) /\ UNCHANGED mainVars
       \/ \E i \in Index : CollectStep(i)

\* Main goes on after sleeps of a few seconds, and gets a mutex that others release again
\* and again (SF); threads inside the list and collectors go on, as in TaskService.  A
\* server thread looks at keepRunning in every turn of its loop (SF), because a turn ends:
\* clients read what the daemon sends them.
DaemonFairness ==
    /\ SF_allVars(~broken /\ MainStep)
    /\ \A t \in Server :
          SF_allVars(~broken /\ EndThread(t)) /\ WF_allVars(~broken /\ DeletionStep(t))
    /\ \A i \in Index : WF_allVars(~broken /\ CollectStep(i))

DaemonSpec == DaemonInit /\ [][DaemonNext]_allVars /\ DaemonFairness

(***************************************************************************)
(* Properties.                                                             *)
(***************************************************************************)
\* A deletion or a clean-up comes to its end: the thread that holds the mutex and joins a
\* collector waits for none that waits for it, also when main takes the tasks down.
DeletionsEnd ==
    \A t \in Server : thread[t].at # "idle" ~> (thread[t].at = "idle" \/ broken)

\* A signal that comes when main has entered its loop ends the daemon: no thread it joins,
\* and no task it ends, waits for main or for the mutex main holds, whatever requests,
\* connections and clean-ups are under way.
StopEnds == (main = "loop" /\ ~keepMain) ~> (main = "exited" \/ broken)

\* When main clears the environment no task is left and nothing of the daemon runs any more
\* that main does not know of: no collector logs to a closed file or queues data in a buffer
\* that is gone.  There are three exceptions.  The collector of a task that was created
\* before InitTaskService cleared the list runs on, and there is none but of such a task; a
\* task may be created after FiniTaskService; and nothing is said once the list is broken.
NothingLeftRunning ==
    (main = "clear" /\ ~late /\ ~broken) =>
        /\ Used = {}
        /\ \A i \in Index : coll[i].at = "none"
        /\ \A t \in Server : thread[t].at = "idle"
        /\ ~early => stray = {}
=============================================================================
