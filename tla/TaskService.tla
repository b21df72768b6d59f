---------------------------- MODULE TaskService ----------------------------
(***************************************************************************)
(* Data collection tasks of the daemon (pwrapis/src/taskservice.c).  There *)
(* is one task per data type; clients subscribe to it with an interval,    *)
(* and a collector thread of its own reads the data and sends it to the    *)
(* subscribers.  The service thread creates and deletes subscriptions on   *)
(* request, the socket thread deletes those of a client that went away     *)
(* (server.c), both under g_taskListMutex; a collector reads its task      *)
(* without it, and is joined by the thread that ends the task while that   *)
(* thread holds the mutex.                                                 *)
(***************************************************************************)
EXTENDS Naturals, Sequences, FiniteSets

CONSTANTS
    Client,             \* sysIds of the processes that use the library
    NoClient,           \* sysId 0
    DataType,           \* PWR_COM_COL_DATATYPE
    Collectable,        \* data types GetActionByDataType knows
    Interval,           \* intervals PWR_CreateDcTask lets through
    MAX_DC_INTERVAL,
    MAX_TASK_NUM,       \* 10 in the code
    MAX_CLIENT_NUM,     \* 3 in the code
    MaxRequests         \* bound: requests in the receive buffer

ASSUME TaskServiceAssumption ==
    /\ NoClient \notin Client
    /\ Collectable \subseteq DataType
    /\ "none" \notin DataType
    /\ MAX_DC_INTERVAL \in Nat \ {0}
    /\ Interval \subseteq 1 .. MAX_DC_INTERVAL
    /\ MAX_TASK_NUM \in Nat \ {0}
    /\ MAX_CLIENT_NUM \in Nat \ {0}
    /\ MaxRequests \in Nat \ {0}

VARIABLES
    online,     \* clients whose end of the connection is open
    slot,       \* g_pwrClients, the sysId of each slot
    recvBuff,   \* requests for the service thread
    tasks,      \* g_collTaskList
    taskNum,    \* g_taskNum
    holder,     \* the thread that holds g_taskListMutex
    mutex,      \* g_taskListMutex has not been destroyed
    thread,     \* where the service thread and the socket thread are
    coll        \* the collector thread of each task

lock == <<holder, mutex>>
vars == <<online, slot, recvBuff, tasks, taskNum, lock, thread, coll>>
clients == <<online, slot, recvBuff>>

Slot == 1 .. MAX_CLIENT_NUM
Index == 1 .. MAX_TASK_NUM
Thread == {"service", "socket"}
Nobody == "nobody"

NoSub == [sysId |-> NoClient, interval |-> 0]
NoTask == [dataType |-> "none", interval |-> 0, subNum |-> 0, sub |-> [j \in Slot |-> NoSub]]

\* left: entries of the task list still to be visited; at "join", its least entry is ending.
Idle == [at |-> "idle", client |-> NoClient, left |-> {}, slot |-> 0]
NoThread == [at |-> "none", keepRunning |-> FALSE]

Least(S) == CHOOSE i \in S : \A j \in S : i <= j

Init ==
    /\ online = {}
    /\ slot = [i \in Slot |-> NoClient]
    /\ recvBuff = <<>>
    /\ tasks = [i \in Index |-> NoTask]
    /\ taskNum = 0
    /\ holder = Nobody
    /\ mutex = TRUE
    /\ thread = [t \in Thread |-> Idle]
    /\ coll = [i \in Index |-> NoThread]

\* pthread_mutex_lock; a destroyed mutex locks nobody out and is held by nobody.
CanLock == mutex => holder = Nobody
Lock(t) == CanLock /\ holder' = IF mutex THEN t ELSE holder

(***************************************************************************)
(* Clients and their connections.                                          *)
(***************************************************************************)
\* A client connects, or connects again before the daemon saw it go, and is accepted.
Connect(c) ==
    /\ c \notin online
    /\ thread["socket"].at = "idle"
    /\ \/ \E i \in Slot : slot[i] = c /\ UNCHANGED slot
       \/ /\ \A i \in Slot : slot[i] # c
          /\ \E i \in Slot : slot[i] = NoClient
          /\ slot' = [slot EXCEPT ![Least({i \in Slot : slot[i] = NoClient})] = c]
    /\ online' = online \union {c}
    /\ UNCHANGED <<recvBuff, tasks, taskNum, lock, thread, coll>>

Leave(c) ==
    /\ c \in online
    /\ online' = online \ {c}
    /\ UNCHANGED <<slot, recvBuff, tasks, taskNum, lock, thread, coll>>

\* PWR_CreateDcTask or PWR_DeleteDcTask, up to the receive buffer of the daemon.
SendRequest(c) ==
    /\ c \in online
    /\ Len(recvBuff) < MaxRequests
    /\ \E d \in DataType, op \in {"create", "delete"}, v \in Interval \union {0} :
          /\ v = 0 <=> op = "delete"
          /\ recvBuff' = Append(recvBuff, [op |-> op, client |-> c, type |-> d, interval |-> v])
    /\ UNCHANGED <<online, slot, tasks, taskNum, lock, thread, coll>>

(***************************************************************************)
(* The task list.                                                          *)
(***************************************************************************)
Used == {i \in Index : tasks[i] # NoTask}

\* FindCollTaskByType looks only if g_taskNum says there is a task.
OfType(d) == IF taskNum = 0 THEN {} ELSE {i \in Used : tasks[i].dataType = d}

SubsOf(task, c) == {j \in Slot : task.sub[j].sysId = c}

\* UpdataTaskInterval for one subscriber, and for all entries of the list.
Lower(task, v) == IF task.interval > v THEN [task EXCEPT !.interval = v] ELSE task
Recompute(task) ==
    [task EXCEPT !.interval = Least({MAX_DC_INTERVAL} \union {task.sub[j].interval : j \in Slot})]

AddSubscriber_NoUpdate(task, c, v) ==
    IF SubsOf(task, c) # {}
    THEN [task EXCEPT !.sub[Least(SubsOf(task, c))].interval = v]
    ELSE IF SubsOf(task, NoClient) # {}
    THEN [task EXCEPT !.sub[Least(SubsOf(task, NoClient))] = [sysId |-> c, interval |-> v],
                      !.subNum = @ + 1]
    ELSE task

AddSubscriber_FirstEntry(task, c, v) ==
    IF SubsOf(task, c) # {}
    THEN Lower([task EXCEPT !.sub[1].interval = v], v)
    ELSE IF SubsOf(task, NoClient) # {}
    THEN Lower([task EXCEPT !.sub[Least(SubsOf(task, NoClient))] = [sysId |-> c, interval |-> v],
                            !.subNum = @ + 1], v)
    ELSE task

\* A subscriber changes its interval, or takes the first free entry; with no entry free the
\* request fails.
AddSubscriber(task, c, v) ==
    IF SubsOf(task, c) # {}
    THEN Lower([task EXCEPT !.sub[Least(SubsOf(task, c))].interval = v], v)
    ELSE IF SubsOf(task, NoClient) # {}
    THEN Lower([task EXCEPT !.sub[Least(SubsOf(task, NoClient))] = [sysId |-> c, interval |-> v],
                            !.subNum = @ + 1], v)
    ELSE task

\* The first half of DeleteSubscriber: the entry is cleared, if there is one.
RemoveEntry_KeepsCount(task, c) ==
    IF SubsOf(task, c) = {} THEN task
    ELSE [task EXCEPT !.sub[Least(SubsOf(task, c))] = NoSub]
RemoveEntry(task, c) ==
    IF SubsOf(task, c) = {} THEN task
    ELSE [task EXCEPT !.sub[Least(SubsOf(task, c))] = NoSub, !.subNum = @ - 1]

NewTask(c, d, v) ==
    [dataType |-> d, interval |-> v, subNum |-> 1,
     sub |-> [j \in Slot |-> IF j = 1 THEN [sysId |-> c, interval |-> v] ELSE NoSub]]

(***************************************************************************)
(* The service thread.                                                     *)
(***************************************************************************)
\* CreateDataCollTask: one section under the mutex.  A task whose type is not collectable
\* is kept, although its thread ends at once.  Without a free entry, or if the thread
\* cannot be created, there is no task.
CreateTask ==
    /\ thread["service"].at = "idle"
    /\ recvBuff # <<>> /\ Head(recvBuff).op = "create"
    /\ CanLock
    /\ LET req == Head(recvBuff)
           same == OfType(req.type)
           free == Index \ Used
       IN  \/ /\ same # {}
              /\ tasks' = [tasks EXCEPT ![Least(same)] = AddSubscriber(@, req.client, req.interval)]
              /\ UNCHANGED <<taskNum, coll>>
           \/ /\ same = {} /\ free # {}
              /\ tasks' = [tasks EXCEPT ![Least(free)] = NewTask(req.client, req.type, req.interval)]
              /\ taskNum' = taskNum + 1
              /\ coll' = [coll EXCEPT ![Least(free)] = [at |-> "top", keepRunning |-> TRUE]]
           \/ same = {} /\ UNCHANGED <<tasks, taskNum, coll>>
    /\ recvBuff' = Tail(recvBuff)
    /\ UNCHANGED <<online, slot, lock, thread>>

\* DeleteDataCollTask locks the list to delete one subscription.
DeleteTask ==
    /\ thread["service"].at = "idle"
    /\ recvBuff # <<>> /\ Head(recvBuff).op = "delete"
    /\ Lock("service")
    /\ LET req == Head(recvBuff)
           same == OfType(req.type)
       IN  thread' = [thread EXCEPT !["service"] =
              [Idle EXCEPT !.at = "visit", !.client = req.client,
                           !.left = IF same = {} THEN {} ELSE {Least(same)}]]
    /\ recvBuff' = Tail(recvBuff)
    /\ UNCHANGED <<online, slot, tasks, taskNum, mutex, coll>>

(***************************************************************************)
(* The socket thread.                                                      *)
(***************************************************************************)
\* The end of the stream of slot i: CleanClientResource(g_pwrClients, i) passes the sysId
\* of the first slot to CleanDataCollTaskByClient.
CleanClientResource(i) ==
    /\ thread["socket"].at = "idle"
    /\ slot[i] # NoClient /\ slot[i] \notin online
    /\ Lock("socket")
    /\ thread' = [thread EXCEPT !["socket"] =
          [Idle EXCEPT !.at = "visit", !.client = slot[1], !.slot = i,
                       !.left = IF taskNum = 0 THEN {} ELSE Index]]
    /\ UNCHANGED <<clients, tasks, taskNum, mutex, coll>>

(***************************************************************************)
(* DeleteSubscriber, in either thread, with the mutex held.                *)
(***************************************************************************)
\* An empty entry is passed over; the empty first slot has a sysId no subscriber has.
VisitTask(t) ==
    /\ thread[t].at = "visit"
    /\ thread[t].left # {}
    /\ LET i == Least(thread[t].left)
           c == thread[t].client
           task == IF c = NoClient THEN tasks[i] ELSE RemoveEntry(tasks[i], c)
       IN  \/ /\ i \notin Used
              /\ thread' = [thread EXCEPT ![t].left = @ \ {i}]
              /\ UNCHANGED <<tasks, coll>>
           \/ /\ i \in Used /\ task.subNum > 0
              /\ tasks' = [tasks EXCEPT ![i] = Recompute(task)]
              /\ thread' = [thread EXCEPT ![t].left = @ \ {i}]
              /\ UNCHANGED coll
           \/ /\ i \in Used /\ task.subNum = 0
              /\ tasks' = [tasks EXCEPT ![i] = task]
              /\ coll' = [coll EXCEPT ![i].keepRunning = FALSE]
              /\ thread' = [thread EXCEPT ![t].at = "join"]
    /\ UNCHANGED <<clients, taskNum, lock>>

FiniTask_NoJoin(t) ==
    /\ thread[t].at = "join"
    /\ LET i == Least(thread[t].left)
       IN  /\ tasks' = [tasks EXCEPT ![i] = NoTask]
           /\ thread' = [thread EXCEPT ![t].at = "visit", ![t].left = @ \ {i}]
    /\ taskNum' = taskNum - 1
    /\ UNCHANGED <<clients, lock, coll>>

\* pthread_join returns when the collector has ended; then the task is freed.
FiniTask(t) ==
    /\ thread[t].at = "join"
    /\ LET i == Least(thread[t].left)
       IN  /\ coll[i].at = "none"
           /\ tasks' = [tasks EXCEPT ![i] = NoTask]
           /\ thread' = [thread EXCEPT ![t].at = "visit", ![t].left = @ \ {i}]
    /\ taskNum' = taskNum - 1
    /\ UNCHANGED <<clients, lock, coll>>

\* The mutex is released; the socket thread clears the slot (DeleteFromClientList), the
\* service thread answers.
UnlockTaskList(t) ==
    /\ thread[t].at = "visit"
    /\ thread[t].left = {}
    /\ holder' = IF mutex THEN Nobody ELSE holder
    /\ thread' = [thread EXCEPT ![t] = Idle]
    /\ slot' = IF t = "socket" THEN [slot EXCEPT ![thread[t].slot] = NoClient] ELSE slot
    /\ UNCHANGED <<online, recvBuff, tasks, taskNum, mutex, coll>>

ListStep(t) == VisitTask(t) \/ FiniTask(t) \/ UnlockTaskList(t)

(***************************************************************************)
(* The collector of task i: RunDcTaskProcess.                              *)
(***************************************************************************)
\* The loop condition, the sleep, and the data that is read; the thread of a task whose
\* type has no action ends.
CollectorLoop(i) ==
    /\ coll[i].at = "top"
    /\ IF coll[i].keepRunning /\ tasks[i].dataType \in Collectable
       THEN coll' = [coll EXCEPT ![i].at = "send"]
       ELSE coll' = [coll EXCEPT ![i].at = "none"]
    /\ UNCHANGED <<clients, tasks, taskNum, lock, thread>>

SendMetadataToSubscribers_Locked(i) ==
    /\ coll[i].at = "send"
    /\ CanLock
    /\ coll' = [coll EXCEPT ![i].at = "top"]
    /\ UNCHANGED <<clients, tasks, taskNum, lock, thread>>

\* The subscriber list is looked through, without the mutex, and the data queued for the
\* subscribers it is due to.
SendMetadataToSubscribers(i) ==
    /\ coll[i].at = "send"
    /\ coll' = [coll EXCEPT ![i].at = "top"]
    /\ UNCHANGED <<clients, tasks, taskNum, lock, thread>>

CollectorStep(i) == CollectorLoop(i) \/ SendMetadataToSubscribers(i)

Next ==
    \/ \E c \in Client : Connect(c) \/ Leave(c) \/ SendRequest(c)
    \/ CreateTask
    \/ DeleteTask
    \/ \E i \in Slot : CleanClientResource(i)
    \/ \E t \in Thread : ListStep(t)
    \/ \E i \in Index : CollectorStep(i)

\* The threads run: a thread inside the list goes on when it can, and so does a collector,
\* whose sleep is at most MAX_DC_INTERVAL.
Fairness ==
    /\ \A t \in Thread : WF_vars(ListStep(t))
    /\ \A i \in Index : WF_vars(CollectorStep(i))

Spec == Init /\ [][Next]_vars /\ Fairness

(***************************************************************************)
(* Properties.                                                             *)
(***************************************************************************)
Subscribers(task) == {task.sub[j].sysId : j \in Slot} \ {NoClient}

TypeOK ==
    /\ online \subseteq Client
    /\ slot \in [Slot -> Client \union {NoClient}]
    /\ \A i \in Used :
          /\ tasks[i].dataType \in DataType
          /\ tasks[i].interval \in 0 .. MAX_DC_INTERVAL
          /\ tasks[i].subNum \in 0 .. MAX_CLIENT_NUM
          /\ Subscribers(tasks[i]) \subseteq Client
    /\ taskNum \in 0 .. MAX_TASK_NUM
    /\ holder \in Thread \union {Nobody} /\ mutex \in BOOLEAN
    /\ \A t \in Thread : thread[t].at \in {"idle", "visit", "join"} /\ thread[t].left \subseteq Index
    /\ \A i \in Index : coll[i].at \in {"none", "top", "send"}

\* The entry a thread is ending, between clearing its last subscriber and freeing it.
Ending == {Least(thread[t].left) : t \in {u \in Thread : thread[u].at = "join"}}

\* The counters and the lists agree after any sequence of subscriptions, repeated
\* subscriptions, deletions and clean-ups by the two threads: g_taskNum counts the tasks,
\* no data type is collected twice, subNum counts the subscribers, no client is subscribed
\* twice to a task, and only a task that is ending has no subscriber.
TaskListIsConsistent ==
    /\ taskNum = Cardinality(Used)
    /\ \A i, k \in Used : tasks[i].dataType = tasks[k].dataType => i = k
    /\ \A i \in Used :
          /\ tasks[i].subNum = Cardinality({j \in Slot : tasks[i].sub[j].sysId # NoClient})
          /\ tasks[i].subNum = Cardinality(Subscribers(tasks[i]))
          /\ tasks[i].subNum = 0 <=> i \in Ending

\* A task never runs at a longer interval than one of its subscribers asked for, whoever
\* else subscribes, changes its interval or leaves.
ServedOftenEnough ==
    \A i \in Used \ Ending : \A j \in Slot :
        tasks[i].sub[j].sysId # NoClient => tasks[i].interval <= tasks[i].sub[j].interval

\* "Must stop thread first" (taskservice.c:77): a collector thread that has not ended has
\* its task, so it never reads a task that was freed or belongs to another subscription.
CollectorHasTask == \A i \in Index : coll[i].at # "none" => i \in Used

(***************************************************************************)
(* The list of tasks is a table of subscriptions: a task stands for those  *)
(* of its subscribers, a task that is ending for none.  A removal is       *)
(* what the thread inside the list has still to visit.                     *)
(***************************************************************************)
Entries(task) == {task.sub[j] : j \in {k \in Slot : task.sub[k].sysId # NoClient}}

TableOfTasks ==
    [d \in DataType |->
        UNION {Entries(tasks[i]) : i \in {k \in Index : tasks[k].dataType = d}}]

RemovalOfThreads ==
    [client |-> IF thread["socket"].at # "idle" THEN thread["socket"].client
                                                ELSE thread["service"].client,
     types |-> {tasks[i].dataType : i \in thread["socket"].left \union thread["service"].left}
                   \ {NoTask.dataType}]

Table == INSTANCE Subscriptions WITH
    requests <- recvBuff, subs <- TableOfTasks, removal <- RemovalOfThreads,
    Capacity <- MAX_CLIENT_NUM, MaxTypes <- MAX_TASK_NUM

\* Whatever the two threads do to the list entry by entry, who asks is served as it asked, an
\* unsubscription or clean-up is complete before the next request is served, and neither
\* changes a subscription of somebody else (taskservice.c: AddSubscriber, DeleteSubscriber,
\* FiniTask).
ImplementsSubscriptions == Table!Spec
=============================================================================
