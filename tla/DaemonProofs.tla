---------------------------- MODULE DaemonProofs ----------------------------
(***************************************************************************)
(* Proofs about the data collection tasks (module TaskService) and about   *)
(* the start and the stop of the daemon around them (module Daemon), for   *)
(* any number of clients, data types, tasks and subscribers of a task; and *)
(* about the configuration that main loads and polls (module Config), for  *)
(* any contents of the file, values and defaults.                          *)
(***************************************************************************)
EXTENDS Daemon, Config, FiniteSetTheorems, TLAPS

(***************************************************************************)
(* Part 1: the tasks.                                                      *)
(***************************************************************************)

(***************************************************************************)
(* The least element of a set of naturals.                                 *)
(***************************************************************************)
LEMMA LeastExists ==
    ASSUME NEW S, S \subseteq Nat, S # {}
    PROVE  Least(S) \in S /\ \A y \in S : Least(S) <= y
  <1> DEFINE R == {ss \in Nat \X Nat : ss[1] < ss[2]}
  <1>1. IsWellFoundedOn(R, Nat)
    BY NatLessThanWellFounded DEF OpToRel
  <1> HIDE DEF R
  <1>2. PICK x \in S : \A y \in S : <<y, x>> \notin R
    BY <1>1, WFMin
  <1>3. \A y \in S : x <= y
    <2>1. \A a, b \in Nat : a < b => <<a, b>> \in R
      BY DEF R
    <2>2. ASSUME NEW y \in S, y < x PROVE FALSE
      <3>1. <<y, x>> \in R
        BY <2>1, <2>2
      <3> QED
        BY <1>2, <3>1
    <2> QED
      BY <2>2
  <1> QED
    BY <1>3 DEF Least

LEMMA LeastSlot ==
    ASSUME NEW S, S \subseteq Slot, S # {}
    PROVE  Least(S) \in S
  <1>1. S \subseteq Nat
    BY TaskServiceAssumption DEF Slot
  <1> QED
    BY <1>1, LeastExists

LEMMA LeastIndex ==
    ASSUME NEW S, S \subseteq Index, S # {}
    PROVE  Least(S) \in S
  <1>1. S \subseteq Nat
    BY TaskServiceAssumption DEF Index
  <1> QED
    BY <1>1, LeastExists

(***************************************************************************)
(* One task: its counter counts its subscribers, nobody subscribes twice,  *)
(* and its interval is no longer than any of theirs.                       *)
(***************************************************************************)
Bounded == 0 .. MAX_DC_INTERVAL
SubType == [sysId : Client \union {NoClient}, interval : Bounded]
TaskType == [dataType : DataType \union {"none"}, interval : Bounded, subNum : Nat,
             sub : [Slot -> SubType]]

Taken(sub) == {j \in Slot : sub[j].sysId # NoClient}

GoodTask(task) ==
    /\ task \in TaskType
    /\ task.subNum = Cardinality(Taken(task.sub))
    /\ \A j, k \in Slot : (task.sub[j].sysId = task.sub[k].sysId /\ task.sub[j].sysId # NoClient)
                             => j = k
    /\ \A j \in Slot : task.sub[j].sysId # NoClient => task.interval <= task.sub[j].interval

LEMMA TakenFinite ==
    ASSUME NEW sub
    PROVE  /\ IsFiniteSet(Taken(sub)) /\ Cardinality(Taken(sub)) \in Nat
           /\ Cardinality(Taken(sub)) <= MAX_CLIENT_NUM
  <1>1. IsFiniteSet(Slot) /\ Cardinality(Slot) = MAX_CLIENT_NUM
    BY FS_Interval, TaskServiceAssumption DEF Slot
  <1>2. Taken(sub) \in SUBSET Slot
    BY DEF Taken
  <1> QED
    BY <1>1, <1>2, FS_Subset, FS_CardinalityType

LEMMA EmptyTask == GoodTask(NoTask)
  <1>1. NoTask \in TaskType
    BY TaskServiceAssumption DEF NoTask, NoSub, TaskType, SubType, Bounded
  <1>2. Taken(NoTask.sub) = {}
    BY DEF Taken, NoTask, NoSub
  <1>3. \A j \in Slot : NoTask.sub[j].sysId = NoClient
    BY DEF NoTask, NoSub
  <1>4. NoTask.subNum = Cardinality(Taken(NoTask.sub))
    BY <1>2, FS_EmptySet DEF NoTask
  <1> QED
    BY <1>1, <1>3, <1>4 DEF GoodTask

LEMMA NewTaskGood ==
    ASSUME NEW c \in Client, NEW d \in DataType, NEW v \in Bounded
    PROVE  /\ GoodTask(NewTask(c, d, v))
           /\ NewTask(c, d, v).dataType = d /\ NewTask(c, d, v).subNum > 0
  <1> DEFINE task == NewTask(c, d, v)
  <1>1. /\ task.dataType = d /\ task.interval = v /\ task.subNum = 1
        /\ task.sub = [j \in Slot |-> IF j = 1 THEN [sysId |-> c, interval |-> v] ELSE NoSub]
    BY DEF NewTask
  <1>2. 1 \in Slot /\ c # NoClient
    BY TaskServiceAssumption DEF Slot
  <1>3. task \in TaskType
    BY TaskServiceAssumption DEF NewTask, NoSub, TaskType, SubType, Bounded
  <1>4. \A j \in Slot : task.sub[j] = IF j = 1 THEN [sysId |-> c, interval |-> v] ELSE NoSub
    BY <1>1
  <1>5. \A j \in Slot : task.sub[j].sysId # NoClient => j = 1
    BY <1>4 DEF NoSub
  <1>6. task.sub[1].sysId = c /\ task.sub[1].interval = v
    BY <1>2, <1>4
  <1>7. Taken(task.sub) = {1}
    BY <1>2, <1>5, <1>6 DEF Taken
  <1>8. task.subNum = Cardinality(Taken(task.sub))
    BY <1>1, <1>7, FS_Singleton
  <1>9. v <= v
    BY TaskServiceAssumption DEF Bounded
  <1> HIDE DEF task
  <1>10. GoodTask(task)
    BY <1>1, <1>3, <1>5, <1>6, <1>8, <1>9 DEF GoodTask
  <1> QED
    BY <1>1, <1>10 DEF task

\* UpdataTaskInterval for one subscriber: the interval is lowered to v.
LEMMA LowerTask ==
    ASSUME NEW task \in TaskType, NEW v \in Bounded
    PROVE  /\ Lower(task, v) \in TaskType
           /\ Lower(task, v).dataType = task.dataType /\ Lower(task, v).subNum = task.subNum
           /\ Lower(task, v).sub = task.sub
           /\ Lower(task, v).interval <= v /\ Lower(task, v).interval <= task.interval
  <1> USE TaskServiceAssumption DEF Bounded
  <1>1. task.interval \in Bounded
    BY DEF TaskType
  <1>2. CASE task.interval > v
    <2>1. Lower(task, v) = [task EXCEPT !.interval = v]
      BY <1>2 DEF Lower
    <2> QED
      BY <1>1, <1>2, <2>1 DEF TaskType
  <1>3. CASE ~(task.interval > v)
    BY <1>1, <1>3 DEF Lower
  <1> QED
    BY <1>2, <1>3

LEMMA AddSubscriberGood ==
    ASSUME NEW task, GoodTask(task), NEW c \in Client, NEW v \in Bounded
    PROVE  /\ GoodTask(AddSubscriber(task, c, v))
           /\ AddSubscriber(task, c, v).dataType = task.dataType
           /\ AddSubscriber(task, c, v).subNum >= task.subNum
  <1> DEFINE new == AddSubscriber(task, c, v)
             req == [sysId |-> c, interval |-> v]
  <1>0. /\ c # NoClient /\ task \in TaskType /\ task.sub \in [Slot -> SubType]
        /\ task.subNum \in Nat /\ task.interval \in Bounded
    BY TaskServiceAssumption DEF GoodTask, TaskType
  <1>1. CASE SubsOf(task, c) # {}
    <2> DEFINE i == Least(SubsOf(task, c))
               changed == [task EXCEPT !.sub[i].interval = v]
    <2>1. i \in Slot /\ task.sub[i].sysId = c
      BY <1>1, LeastSlot DEF SubsOf
    <2> HIDE DEF i
    <2>2. /\ changed.dataType = task.dataType /\ changed.subNum = task.subNum
          /\ changed.interval = task.interval
          /\ changed.sub = [task.sub EXCEPT ![i].interval = v]
          /\ changed \in TaskType
      BY <1>0, <2>1 DEF TaskType, SubType
    <2> DEFINE sub == changed.sub
    <2>3. /\ \A j \in Slot : sub[j].sysId = task.sub[j].sysId
          /\ \A j \in Slot \ {i} : sub[j].interval = task.sub[j].interval
          /\ sub[i].interval = v
      BY <1>0, <2>1, <2>2 DEF SubType
    <2>4. Taken(sub) = Taken(task.sub)
      BY <2>3 DEF Taken
    <2>5. new = Lower(changed, v)
      BY <1>1 DEF AddSubscriber, i
    <2> HIDE DEF changed, new
    <2>6. /\ new \in TaskType /\ new.dataType = task.dataType /\ new.subNum = task.subNum
          /\ new.sub = sub /\ new.interval <= v /\ new.interval <= task.interval
      BY <2>2, <2>5, LowerTask
    <2>7. new.subNum = Cardinality(Taken(new.sub))
      BY <2>4, <2>6 DEF GoodTask
    <2>8. \A j, k \in Slot : (new.sub[j].sysId = new.sub[k].sysId /\ new.sub[j].sysId # NoClient)
                                 => j = k
      BY <2>3, <2>6 DEF GoodTask
    <2>9. ASSUME NEW j \in Slot, new.sub[j].sysId # NoClient
          PROVE  new.interval <= new.sub[j].interval
      <3>1. CASE j = i
        BY <2>3, <2>6, <3>1
      <3>2. CASE j # i
        <4>1. task.interval <= task.sub[j].interval /\ new.sub[j].interval = task.sub[j].interval
          BY <2>3, <2>6, <2>9, <3>2 DEF GoodTask
        <4>2. task.sub[j].interval \in Bounded /\ new.interval \in Bounded
          BY <1>0, <2>6 DEF SubType, TaskType
        <4> QED
          BY <1>0, <2>6, <4>1, <4>2, TaskServiceAssumption DEF Bounded
      <3> QED
        BY <3>1, <3>2
    <2>10. GoodTask(new)
      BY <2>6, <2>7, <2>8, <2>9 DEF GoodTask
    <2> QED
      BY <1>0, <2>6, <2>10 DEF new
  <1>2. CASE SubsOf(task, c) = {} /\ SubsOf(task, NoClient) # {}
    <2> DEFINE i == Least(SubsOf(task, NoClient))
               changed == [task EXCEPT !.sub[i] = req, !.subNum = @ + 1]
    <2>1. i \in Slot /\ task.sub[i].sysId = NoClient
      BY <1>2, LeastSlot DEF SubsOf
    <2> HIDE DEF i
    <2>2. /\ changed.dataType = task.dataType /\ changed.subNum = task.subNum + 1
          /\ changed.interval = task.interval
          /\ changed.sub = [task.sub EXCEPT ![i] = req]
          /\ changed \in TaskType
      <3>1. req \in SubType
        BY DEF SubType
      <3> HIDE DEF req
      <3>2. task.subNum + 1 \in Nat /\ [task.sub EXCEPT ![i] = req] \in [Slot -> SubType]
        BY <1>0, <2>1, <3>1
      <3>3. /\ changed.dataType = task.dataType /\ changed.subNum = task.subNum + 1
            /\ changed.interval = task.interval
            /\ changed.sub = [task.sub EXCEPT ![i] = req]
        BY <1>0 DEF TaskType
      <3>4. changed \in TaskType
        BY <1>0, <3>2 DEF TaskType
      <3> QED
        BY <3>3, <3>4
    <2> DEFINE sub == changed.sub
    <2>3. (\A j \in Slot \ {i} : sub[j] = task.sub[j]) /\ sub[i].sysId = c /\ sub[i].interval = v
      BY <1>0, <2>1, <2>2
    <2>4. Taken(sub) = Taken(task.sub) \union {i} /\ i \notin Taken(task.sub)
      BY <1>0, <2>1, <2>3 DEF Taken
    <2>5. new = Lower(changed, v)
      BY <1>2 DEF AddSubscriber, i
    <2> HIDE DEF changed, new
    <2>6. /\ new \in TaskType /\ new.dataType = task.dataType /\ new.subNum = task.subNum + 1
          /\ new.sub = sub /\ new.interval <= v /\ new.interval <= task.interval
      BY <2>2, <2>5, LowerTask
    <2>7. new.subNum = Cardinality(Taken(new.sub))
      BY <2>4, <2>6, TakenFinite, FS_AddElement DEF GoodTask
    <2>8. ASSUME NEW j \in Slot, NEW k \in Slot,
                 new.sub[j].sysId = new.sub[k].sysId, new.sub[j].sysId # NoClient
          PROVE  j = k
      <3>1. \A l \in Slot \ {i} : new.sub[l].sysId # c
        BY <1>2, <2>3, <2>6 DEF SubsOf
      <3> QED
        BY <2>3, <2>6, <2>8, <3>1 DEF GoodTask
    <2>9. ASSUME NEW j \in Slot, new.sub[j].sysId # NoClient
          PROVE  new.interval <= new.sub[j].interval
      <3>1. CASE j = i
        BY <2>3, <2>6, <3>1
      <3>2. CASE j # i
        <4>1. task.interval <= task.sub[j].interval /\ new.sub[j].interval = task.sub[j].interval
          BY <2>3, <2>6, <2>9, <3>2 DEF GoodTask
        <4>2. task.sub[j].interval \in Bounded /\ new.interval \in Bounded
          BY <1>0, <2>6 DEF SubType, TaskType
        <4> QED
          BY <1>0, <2>6, <4>1, <4>2, TaskServiceAssumption DEF Bounded
      <3> QED
        BY <3>1, <3>2
    <2>10. GoodTask(new)
      BY <2>6, <2>7, <2>8, <2>9 DEF GoodTask
    <2> QED
      BY <1>0, <2>6, <2>10 DEF new
  <1>3. CASE SubsOf(task, c) = {} /\ SubsOf(task, NoClient) = {}
    BY <1>0, <1>3 DEF AddSubscriber
  <1> QED
    BY <1>1, <1>2, <1>3

LEMMA RemoveEntryGood ==
    ASSUME NEW task, GoodTask(task), NEW c \in Client
    PROVE  GoodTask(RemoveEntry(task, c)) /\ RemoveEntry(task, c).dataType = task.dataType
  <1> DEFINE new == RemoveEntry(task, c)
  <1>0. /\ c # NoClient /\ task \in TaskType /\ task.sub \in [Slot -> SubType]
        /\ task.subNum \in Nat /\ task.interval \in Bounded
    BY TaskServiceAssumption DEF GoodTask, TaskType
  <1>1. CASE SubsOf(task, c) # {}
    <2> DEFINE i == Least(SubsOf(task, c))
    <2>1. i \in Slot /\ task.sub[i].sysId = c
      BY <1>1, LeastSlot DEF SubsOf
    <2>2. new = [task EXCEPT !.sub[i] = NoSub, !.subNum = @ - 1]
      BY <1>1 DEF RemoveEntry
    <2> HIDE DEF i, new
    <2>3. i \in Taken(task.sub)
      BY <1>0, <2>1 DEF Taken
    <2>4. /\ task.subNum - 1 = Cardinality(Taken(task.sub) \ {i})
          /\ Cardinality(Taken(task.sub) \ {i}) \in Nat
      BY <2>3, TakenFinite, FS_RemoveElement, FS_CardinalityType DEF GoodTask
    <2>5. NoSub \in SubType
      BY TaskServiceAssumption DEF NoSub, SubType, Bounded
    <2>6. /\ new.dataType = task.dataType /\ new.subNum = task.subNum - 1
          /\ new.interval = task.interval /\ new.sub = [task.sub EXCEPT ![i] = NoSub]
          /\ new \in TaskType
      BY <1>0, <2>1, <2>2, <2>4, <2>5 DEF TaskType
    <2>7. (\A j \in Slot \ {i} : new.sub[j] = task.sub[j]) /\ new.sub[i].sysId = NoClient
      BY <1>0, <2>1, <2>6 DEF NoSub
    <2>8. Taken(new.sub) = Taken(task.sub) \ {i}
      BY <2>7 DEF Taken
    <2>9. \A j \in Slot : new.sub[j].sysId # NoClient => j # i
      BY <2>7
    <2>10. new.subNum = Cardinality(Taken(new.sub))
      BY <2>4, <2>6, <2>8
    <2>11. \A j, k \in Slot : (new.sub[j].sysId = new.sub[k].sysId /\ new.sub[j].sysId # NoClient)
                                  => j = k
      BY <2>7, <2>9 DEF GoodTask
    <2>12. \A j \in Slot : new.sub[j].sysId # NoClient => new.interval <= new.sub[j].interval
      BY <2>6, <2>7, <2>9 DEF GoodTask
    <2>13. GoodTask(new)
      BY <2>6, <2>10, <2>11, <2>12 DEF GoodTask
    <2> QED
      BY <2>6, <2>13 DEF new
  <1>2. CASE SubsOf(task, c) = {}
    BY <1>2 DEF RemoveEntry
  <1> QED
    BY <1>1, <1>2

LEMMA RecomputeGood ==
    ASSUME NEW task, GoodTask(task)
    PROVE  /\ GoodTask(Recompute(task))
           /\ Recompute(task).dataType = task.dataType /\ Recompute(task).subNum = task.subNum
  <1> DEFINE S == {MAX_DC_INTERVAL} \union {task.sub[j].interval : j \in Slot}
             new == Recompute(task)
  <1>0. task \in TaskType /\ task.sub \in [Slot -> SubType]
    BY DEF GoodTask, TaskType
  <1>1. S \subseteq Bounded /\ S \subseteq Nat /\ S # {}
    BY <1>0, TaskServiceAssumption DEF SubType, Bounded
  <1>2. Least(S) \in Bounded /\ \A y \in S : Least(S) <= y
    BY <1>1, LeastExists
  <1>3. new = [task EXCEPT !.interval = Least(S)]
    BY DEF Recompute
  <1> HIDE DEF new
  <1>4. /\ new \in TaskType /\ new.dataType = task.dataType /\ new.subNum = task.subNum
        /\ new.sub = task.sub /\ new.interval = Least(S)
    BY <1>0, <1>2, <1>3 DEF TaskType
  <1>5. \A j \in Slot : new.interval <= new.sub[j].interval
    BY <1>2, <1>4
  <1>6. GoodTask(new)
    BY <1>4, <1>5 DEF GoodTask
  <1> QED
    BY <1>4, <1>6 DEF new

(***************************************************************************)
(* The inductive invariant.  The list is what TaskListIsConsistent says of *)
(* it; a thread that is inside it holds the mutex, so that there is one;   *)
(* and the task that thread is ending is the only one without subscribers. *)
(***************************************************************************)
Request == [op : {"create", "delete"}, client : Client, type : DataType, interval : Bounded]
ThreadType == [at : {"idle", "visit", "join"}, client : Client \union {NoClient},
               left : SUBSET Index, slot : Slot \union {0}]

StateTypes ==
    /\ online \subseteq Client
    /\ slot \in [Slot -> Client \union {NoClient}]
    /\ recvBuff \in Seq(Request)
    /\ thread \in [Thread -> ThreadType]
    /\ coll \in [Index -> [at : {"none", "top", "send"}, keepRunning : BOOLEAN]]

ListGood ==
    /\ tasks \in [Index -> TaskType]
    /\ \A i \in Index : GoodTask(tasks[i])
    /\ \A i \in Index : tasks[i].dataType = "none" => tasks[i] = NoTask
    /\ \A i, k \in Used : tasks[i].dataType = tasks[k].dataType => i = k
    /\ taskNum = Cardinality(Used)

OneInList == \A t \in Thread : thread[t].at # "idle" => holder = t

EndsAt(t, i) == thread[t].at = "join" /\ i = Least(thread[t].left)

EndingGood ==
    /\ \A t \in Thread : thread[t].at = "join" =>
          /\ thread[t].left # {}
          /\ Least(thread[t].left) \in Used
          /\ tasks[Least(thread[t].left)].subNum = 0
    /\ \A i \in Used : tasks[i].subNum = 0 => \E t \in Thread : EndsAt(t, i)

MutexThere == mutex = TRUE

Inv == StateTypes /\ MutexThere /\ ListGood /\ OneInList /\ EndingGood /\ CollectorHasTask

LEMMA UsedFacts ==
    ASSUME ListGood
    PROVE  /\ Used \subseteq Index /\ IsFiniteSet(Used)
           /\ Cardinality(Used) \in Nat /\ Cardinality(Used) <= MAX_TASK_NUM
           /\ \A i \in Index : i \in Used <=> tasks[i].dataType # "none"
           /\ \A i \in Index : i \in Used <=> tasks[i].dataType \in DataType
  <1>1. IsFiniteSet(Index) /\ Cardinality(Index) = MAX_TASK_NUM
    BY FS_Interval, TaskServiceAssumption DEF Index
  <1>2. Used \in SUBSET Index
    BY DEF Used
  <1>3. NoTask.dataType = "none"
    BY DEF NoTask
  <1>4. \A i \in Index : i \in Used <=> tasks[i].dataType # "none"
    BY <1>3 DEF Used, ListGood
  <1>5. \A i \in Index : tasks[i].dataType \in DataType \union {"none"}
    BY DEF ListGood, TaskType
  <1>6. \A i \in Index : i \in Used <=> tasks[i].dataType \in DataType
    BY <1>4, <1>5, TaskServiceAssumption
  <1> QED
    BY <1>1, <1>2, <1>4, <1>6, FS_Subset, FS_CardinalityType

LEMMA ReplaceTask ==
    ASSUME ListGood, NEW i \in Used, NEW new, GoodTask(new),
           new.dataType = tasks[i].dataType,
           tasks' = [tasks EXCEPT ![i] = new], taskNum' = taskNum
    PROVE  /\ ListGood' /\ Used' = Used /\ tasks'[i] = new
           /\ \A k \in Index \ {i} : tasks'[k] = tasks[k]
  <1>0. i \in Index /\ new \in TaskType /\ tasks \in [Index -> TaskType]
    BY UsedFacts DEF GoodTask, ListGood
  <1>1. tasks'[i] = new /\ (\A k \in Index \ {i} : tasks'[k] = tasks[k])
    BY <1>0
  <1>2. tasks' \in [Index -> TaskType] /\ \A k \in Index : GoodTask(tasks'[k])
    BY <1>0, <1>1 DEF ListGood
  <1>3. \A k \in Index : tasks'[k].dataType = tasks[k].dataType
    BY <1>1
  <1>4. new # NoTask
    BY <1>0, UsedFacts DEF NoTask
  <1>5. Used' = Used
    BY <1>0, <1>1, <1>4 DEF Used
  <1>6. \A k \in Index : tasks'[k].dataType = "none" => tasks'[k] = NoTask
    BY <1>0, <1>1, <1>3, UsedFacts DEF ListGood
  <1>7. ListGood'
    BY <1>2, <1>3, <1>5, <1>6, UsedFacts DEF ListGood
  <1> QED
    BY <1>1, <1>5, <1>7

LEMMA InsertTask ==
    ASSUME ListGood, NEW i \in Index \ Used, NEW new, GoodTask(new),
           new.dataType \in DataType, \A k \in Used : tasks[k].dataType # new.dataType,
           tasks' = [tasks EXCEPT ![i] = new], taskNum' = taskNum + 1
    PROVE  /\ ListGood' /\ Used' = Used \union {i} /\ tasks'[i] = new
           /\ \A k \in Index \ {i} : tasks'[k] = tasks[k]
  <1>0. i \in Index /\ new \in TaskType /\ tasks \in [Index -> TaskType]
    BY DEF GoodTask, ListGood
  <1>1. tasks'[i] = new /\ (\A k \in Index \ {i} : tasks'[k] = tasks[k])
    BY <1>0
  <1>2. tasks' \in [Index -> TaskType] /\ \A k \in Index : GoodTask(tasks'[k])
    BY <1>0, <1>1 DEF ListGood
  <1>3. new # NoTask /\ new.dataType # "none"
    BY TaskServiceAssumption DEF NoTask
  <1>4. Used' = Used \union {i}
    BY <1>0, <1>1, <1>3 DEF Used
  <1>5. \A k \in Index : tasks'[k].dataType = "none" => tasks'[k] = NoTask
    BY <1>1, <1>3 DEF ListGood
  <1>6. taskNum' = Cardinality(Used')
    BY <1>4, UsedFacts, FS_AddElement DEF ListGood
  <1>7. \A k, l \in Used' : tasks'[k].dataType = tasks'[l].dataType => k = l
    BY <1>1, <1>4, UsedFacts DEF ListGood
  <1>8. ListGood'
    BY <1>2, <1>5, <1>6, <1>7 DEF ListGood
  <1> QED
    BY <1>1, <1>4, <1>8

LEMMA FreeTask ==
    ASSUME ListGood, NEW i \in Used,
           tasks' = [tasks EXCEPT ![i] = NoTask], taskNum' = taskNum - 1
    PROVE  /\ ListGood' /\ Used' = Used \ {i}
           /\ \A k \in Index \ {i} : tasks'[k] = tasks[k]
  <1>0. i \in Index /\ NoTask \in TaskType /\ tasks \in [Index -> TaskType]
    BY UsedFacts, EmptyTask DEF GoodTask, ListGood
  <1>1. tasks'[i] = NoTask /\ (\A k \in Index \ {i} : tasks'[k] = tasks[k])
    BY <1>0
  <1>2. tasks' \in [Index -> TaskType] /\ \A k \in Index : GoodTask(tasks'[k])
    BY <1>0, <1>1, EmptyTask DEF ListGood
  <1>3. Used' = Used \ {i}
    BY <1>0, <1>1 DEF Used
  <1>4. \A k \in Index : tasks'[k].dataType = "none" => tasks'[k] = NoTask
    BY <1>1 DEF ListGood
  <1>5. taskNum' = Cardinality(Used')
    BY <1>3, UsedFacts, FS_RemoveElement DEF ListGood
  <1>6. \A k, l \in Used' : tasks'[k].dataType = tasks'[l].dataType => k = l
    BY <1>1, <1>3, UsedFacts DEF ListGood
  <1>7. ListGood'
    BY <1>2, <1>4, <1>5, <1>6 DEF ListGood
  <1> QED
    BY <1>1, <1>3, <1>7

\* The list, the collectors and the ends of tasks stand while only the rest changes.
LEMMA ListUnchanged ==
    ASSUME ListGood, UNCHANGED <<tasks, taskNum>>
    PROVE  ListGood' /\ Used' = Used
  BY DEF ListGood, Used

LEMMA NobodyIn ==
    ASSUME MutexThere, OneInList, EndingGood, CanLock
    PROVE  /\ \A t \in Thread : thread[t].at = "idle"
           /\ \A i \in Used : tasks[i].subNum # 0
  <1>1. holder = Nobody /\ Nobody \notin Thread
    BY DEF CanLock, MutexThere, Nobody, Thread
  <1>2. \A t \in Thread : thread[t].at = "idle"
    BY <1>1 DEF OneInList
  <1> QED
    BY <1>2 DEF EndingGood, EndsAt

LEMMA SameType ==
    ASSUME ListGood, NEW d, OfType(d) = {}
    PROVE  \A k \in Used : tasks[k].dataType # d
  <1>1. CASE taskNum = 0
    BY <1>1, UsedFacts, FS_EmptySet DEF ListGood
  <1>2. CASE taskNum # 0
    BY <1>2 DEF OfType
  <1> QED
    BY <1>1, <1>2

(***************************************************************************)
(* Each step keeps the invariant.                                          *)
(***************************************************************************)
LEMMA ClientTypes ==
    ASSUME StateTypes, NEW c \in Client, Connect(c) \/ Leave(c) \/ SendRequest(c)
    PROVE  StateTypes'
  <1>1. online' \subseteq Client /\ slot' \in [Slot -> Client \union {NoClient}]
    <2>1. CASE Connect(c)
      BY <2>1 DEF Connect, StateTypes
    <2>2. CASE Leave(c) \/ SendRequest(c)
      BY <2>2 DEF Leave, SendRequest, StateTypes
    <2> QED
      BY <2>1, <2>2
  <1>2. recvBuff' \in Seq(Request)
    <2>1. CASE Connect(c) \/ Leave(c)
      BY <2>1 DEF Connect, Leave, StateTypes
    <2>2. CASE SendRequest(c)
      <3>1. Interval \union {0} \subseteq Bounded
        BY TaskServiceAssumption DEF Bounded
      <3>2. PICK req \in Request : recvBuff' = Append(recvBuff, req)
        BY <2>2, <3>1 DEF SendRequest, Request
      <3> QED
        BY <3>2 DEF StateTypes
    <2> QED
      BY <2>1, <2>2
  <1>3. UNCHANGED <<thread, coll>>
    BY DEF Connect, Leave, SendRequest
  <1> QED
    BY <1>1, <1>2, <1>3 DEF StateTypes

LEMMA ClientInv ==
    ASSUME Inv, NEW c \in Client, Connect(c) \/ Leave(c) \/ SendRequest(c)
    PROVE  Inv'
  <1> USE DEF Inv, lock
  <1>1. UNCHANGED <<tasks, taskNum, holder, mutex, thread, coll>>
    BY DEF Connect, Leave, SendRequest
  <1>2. ListGood' /\ Used' = Used
    BY <1>1, ListUnchanged
  <1>3. OneInList' /\ EndingGood' /\ CollectorHasTask' /\ MutexThere'
    BY <1>1, <1>2 DEF OneInList, EndingGood, EndsAt, CollectorHasTask, MutexThere
  <1> QED
    BY <1>2, <1>3, ClientTypes

LEMMA FirstRequest ==
    ASSUME StateTypes, recvBuff # <<>>
    PROVE  Head(recvBuff) \in Request /\ Tail(recvBuff) \in Seq(Request)
  BY DEF StateTypes

LEMMA CreateTaskInv ==
    ASSUME Inv, CreateTask
    PROVE  Inv'
  <1> USE DEF Inv, MutexThere, lock
  <1> DEFINE req == Head(recvBuff)
             same == OfType(req.type)
             free == Index \ Used
  <1>1. /\ req.client \in Client /\ req.type \in DataType /\ req.interval \in Bounded
        /\ recvBuff' \in Seq(Request)
    BY FirstRequest DEF CreateTask, Request
  <1>2. UNCHANGED <<online, slot, holder, mutex, thread>>
    BY DEF CreateTask
  <1>3. /\ \A t \in Thread : thread[t].at = "idle"
        /\ \A i \in Used : tasks[i].subNum # 0
    BY NobodyIn DEF CreateTask
  <1>4. OneInList'
    BY <1>2 DEF OneInList
  <1>mutex. MutexThere'
    BY <1>2
  <1>5. CASE /\ same # {}
             /\ tasks' = [tasks EXCEPT ![Least(same)] = AddSubscriber(@, req.client, req.interval)]
             /\ UNCHANGED <<taskNum, coll>>
    <2> DEFINE i == Least(same)
               new == AddSubscriber(tasks[i], req.client, req.interval)
    <2>1. i \in Used
      BY <1>5, LeastIndex, UsedFacts DEF OfType
    <2>2. i \in Index /\ GoodTask(tasks[i]) /\ tasks[i].subNum \in Nat
      BY <2>1, UsedFacts DEF ListGood, GoodTask, TaskType
    <2> HIDE DEF i
    <2>3. GoodTask(new) /\ new.dataType = tasks[i].dataType /\ new.subNum >= tasks[i].subNum
      BY <1>1, <2>2, AddSubscriberGood
    <2>4. tasks' = [tasks EXCEPT ![i] = new]
      BY <1>5 DEF i
    <2> HIDE DEF new
    <2>5. /\ ListGood' /\ Used' = Used /\ tasks'[i] = new
          /\ \A k \in Index \ {i} : tasks'[k] = tasks[k]
      BY <1>5, <2>1, <2>3, <2>4, ReplaceTask
    <2>6. new.subNum # 0
      BY <1>3, <2>1, <2>2, <2>3 DEF GoodTask, TaskType
    <2>7. EndingGood'
      BY <1>2, <1>3, <2>5, <2>6, UsedFacts DEF EndingGood
    <2>8. CollectorHasTask' /\ StateTypes'
      BY <1>1, <1>2, <1>5, <2>5 DEF CollectorHasTask, StateTypes
    <2> QED
      BY <1>mutex, <1>4, <2>5, <2>7, <2>8
  <1>6. CASE /\ same = {} /\ free # {}
             /\ tasks' = [tasks EXCEPT ![Least(free)] = NewTask(req.client, req.type, req.interval)]
             /\ taskNum' = taskNum + 1
             /\ coll' = [coll EXCEPT ![Least(free)] = [at |-> "top", keepRunning |-> TRUE]]
    <2> DEFINE i == Least(free)
               new == NewTask(req.client, req.type, req.interval)
    <2>1. i \in free
      BY <1>6, LeastIndex
    <2>2. \A k \in Used : tasks[k].dataType # req.type
      BY <1>6, SameType
    <2> HIDE DEF i
    <2>3. GoodTask(new) /\ new.dataType = req.type /\ new.subNum > 0
      BY <1>1, NewTaskGood
    <2>4. tasks' = [tasks EXCEPT ![i] = new]
      BY <1>6 DEF i
    <2> HIDE DEF new
    <2>5. /\ ListGood' /\ Used' = Used \union {i} /\ tasks'[i] = new
          /\ \A k \in Index \ {i} : tasks'[k] = tasks[k]
      BY <1>1, <1>6, <2>1, <2>2, <2>3, <2>4, InsertTask
    <2>6. new.subNum # 0
      BY <2>3 DEF GoodTask, TaskType
    <2>7. EndingGood'
      BY <1>2, <1>3, <2>1, <2>5, <2>6, UsedFacts DEF EndingGood
    <2>8. coll' = [coll EXCEPT ![i] = [at |-> "top", keepRunning |-> TRUE]]
      BY <1>6 DEF i
    <2>9. CollectorHasTask'
      BY <2>1, <2>5, <2>8 DEF CollectorHasTask, StateTypes
    <2>10. StateTypes'
      BY <1>1, <1>2, <2>1, <2>8 DEF StateTypes
    <2> QED
      BY <1>mutex, <1>4, <2>5, <2>7, <2>9, <2>10
  <1>7. CASE same = {} /\ UNCHANGED <<tasks, taskNum, coll>>
    <2>1. ListGood' /\ Used' = Used
      BY <1>7, ListUnchanged
    <2> QED
      BY <1>mutex, <1>1, <1>2, <1>4, <1>7, <2>1 DEF EndingGood, EndsAt, CollectorHasTask, StateTypes
  <1> QED
    BY <1>5, <1>6, <1>7 DEF CreateTask

LEMMA IdleType == Idle \in ThreadType
  BY DEF Idle, ThreadType

\* What a thread does first when it enters the list.
Enters(t) ==
    /\ Lock(t)
    /\ \E r \in ThreadType : r.at = "visit" /\ thread' = [thread EXCEPT ![t] = r]
    /\ recvBuff' \in Seq(Request)
    /\ UNCHANGED <<online, slot, tasks, taskNum, mutex, coll>>

LEMMA DeleteTaskEnters ==
    ASSUME StateTypes, DeleteTask
    PROVE  Enters("service")
  <1> DEFINE req == Head(recvBuff)
             same == OfType(req.type)
             S == IF same = {} THEN {} ELSE {Least(same)}
  <1>1. req.client \in Client /\ recvBuff' \in Seq(Request)
    BY FirstRequest DEF DeleteTask, Request
  <1>2. S \in SUBSET Index
    BY LeastIndex DEF OfType, Used
  <1> HIDE DEF S
  <1> DEFINE r == [Idle EXCEPT !.at = "visit", !.client = req.client, !.left = S]
  <1>3. r \in ThreadType /\ r.at = "visit"
    BY <1>1, <1>2, IdleType DEF ThreadType
  <1>4. thread' = [thread EXCEPT !["service"] = r]
    BY DEF DeleteTask, S
  <1> HIDE DEF r
  <1>5. Lock("service") /\ UNCHANGED <<online, slot, tasks, taskNum, mutex, coll>>
    BY DEF DeleteTask
  <1> QED
    BY <1>1, <1>3, <1>4, <1>5 DEF Enters

LEMMA CleanEnters ==
    ASSUME StateTypes, NEW i \in Slot, CleanClientResource(i)
    PROVE  Enters("socket")
  <1> DEFINE S == IF taskNum = 0 THEN {} ELSE Index
  <1>1. slot[1] \in Client \union {NoClient} /\ recvBuff' \in Seq(Request)
    BY TaskServiceAssumption DEF CleanClientResource, StateTypes, Slot, clients
  <1>2. S \in SUBSET Index
    OBVIOUS
  <1> HIDE DEF S
  <1> DEFINE r == [Idle EXCEPT !.at = "visit", !.client = slot[1], !.slot = i, !.left = S]
  <1>3. r \in ThreadType /\ r.at = "visit"
    BY <1>1, <1>2, IdleType DEF ThreadType
  <1>4. thread' = [thread EXCEPT !["socket"] = r]
    BY DEF CleanClientResource, S
  <1> HIDE DEF r
  <1>5. Lock("socket") /\ UNCHANGED <<online, slot, tasks, taskNum, mutex, coll>>
    BY DEF CleanClientResource, clients
  <1> QED
    BY <1>1, <1>3, <1>4, <1>5 DEF Enters

LEMMA EntersTypes ==
    ASSUME StateTypes, NEW t \in Thread, Enters(t)
    PROVE  StateTypes' /\ thread'[t].at = "visit" /\ \A u \in Thread \ {t} : thread'[u] = thread[u]
  BY DEF Enters, StateTypes

\* A thread that enters the list is the only one in it, and no task is ending.
LEMMA EnterInv ==
    ASSUME Inv, NEW t \in Thread, Enters(t)
    PROVE  Inv'
  <1> USE DEF Inv, Enters, MutexThere
  <1>1. /\ \A u \in Thread : thread[u].at = "idle"
        /\ \A k \in Used : tasks[k].subNum # 0
    BY NobodyIn DEF Lock
  <1>2. ListGood' /\ Used' = Used
    BY ListUnchanged
  <1>3. holder' = t
    BY DEF Lock
  <1>4. StateTypes' /\ thread'[t].at = "visit" /\ \A u \in Thread \ {t} : thread'[u].at = "idle"
    BY <1>1, EntersTypes
  <1>5. OneInList' /\ EndingGood' /\ CollectorHasTask'
    BY <1>1, <1>2, <1>3, <1>4 DEF OneInList, EndingGood, CollectorHasTask
  <1> QED
    BY <1>2, <1>4, <1>5

LEMMA DeleteTaskInv ==
    ASSUME Inv, DeleteTask
    PROVE  Inv'
  BY DeleteTaskEnters, EnterInv DEF Inv, Thread

LEMMA CleanInv ==
    ASSUME Inv, NEW i \in Slot, CleanClientResource(i)
    PROVE  Inv'
  BY CleanEnters, EnterInv DEF Inv, Thread

LEMMA VisitTaskInv ==
    ASSUME Inv, NEW t \in Thread, VisitTask(t)
    PROVE  Inv'
  <1> USE DEF Inv, MutexThere, clients, lock
  <1> DEFINE i == Least(thread[t].left)
             c == thread[t].client
             task == IF c = NoClient THEN tasks[i] ELSE RemoveEntry(tasks[i], c)
  <1>1. /\ thread[t].at = "visit" /\ thread[t].left \subseteq Index /\ thread[t].left # {}
        /\ thread[t] \in ThreadType
    BY DEF VisitTask, StateTypes, ThreadType
  <1>2. i \in Index /\ i \in thread[t].left
    BY <1>1, LeastIndex
  <1>3. \A u \in Thread \ {t} : thread[u].at = "idle"
    BY <1>1 DEF OneInList
  <1>4. \A k \in Used : tasks[k].subNum # 0
    BY <1>1, <1>3 DEF EndingGood, EndsAt
  <1>5. GoodTask(task) /\ task.dataType = tasks[i].dataType
    BY <1>1, <1>2, RemoveEntryGood DEF ListGood, ThreadType
  <1>6. UNCHANGED <<online, slot, recvBuff, taskNum, holder, mutex>>
    BY DEF VisitTask
  <1>mutex. MutexThere'
    BY <1>6
  <1> DEFINE next == [thread EXCEPT ![t].left = @ \ {i}]
  <1>7. /\ next \in [Thread -> ThreadType]
        /\ next[t].at = "visit" /\ \A u \in Thread \ {t} : next[u] = thread[u]
    BY <1>1 DEF StateTypes, ThreadType
  <1>8. CASE /\ i \notin Used
             /\ thread' = next
             /\ UNCHANGED <<tasks, coll>>
    <2>1. ListGood' /\ Used' = Used
      BY <1>6, <1>8, ListUnchanged
    <2>2. OneInList' /\ EndingGood'
      BY <1>1, <1>3, <1>4, <1>6, <1>7, <1>8, <2>1 DEF OneInList, EndingGood
    <2>3. StateTypes' /\ CollectorHasTask'
      BY <1>6, <1>7, <1>8, <2>1 DEF StateTypes, CollectorHasTask
    <2> QED
      BY <1>mutex, <2>1, <2>2, <2>3
  <1>9. CASE /\ i \in Used /\ task.subNum > 0
             /\ tasks' = [tasks EXCEPT ![i] = Recompute(task)]
             /\ thread' = next
             /\ UNCHANGED coll
    <2> HIDE DEF task, i
    <2>1. /\ GoodTask(Recompute(task)) /\ Recompute(task).dataType = tasks[i].dataType
          /\ Recompute(task).subNum # 0
      BY <1>5, <1>9, RecomputeGood DEF GoodTask, TaskType
    <2>2. /\ ListGood' /\ Used' = Used /\ tasks'[i] = Recompute(task)
          /\ \A k \in Index \ {i} : tasks'[k] = tasks[k]
      BY <1>6, <1>9, <2>1, ReplaceTask
    <2>3. OneInList' /\ EndingGood'
      BY <1>1, <1>3, <1>4, <1>6, <1>7, <1>9, <2>1, <2>2, UsedFacts DEF OneInList, EndingGood
    <2>4. StateTypes' /\ CollectorHasTask'
      BY <1>6, <1>7, <1>9, <2>2 DEF StateTypes, CollectorHasTask
    <2> QED
      BY <1>mutex, <2>2, <2>3, <2>4
  <1>10. CASE /\ i \in Used /\ task.subNum = 0
              /\ tasks' = [tasks EXCEPT ![i] = task]
              /\ coll' = [coll EXCEPT ![i].keepRunning = FALSE]
              /\ thread' = [thread EXCEPT ![t].at = "join"]
    <2> HIDE DEF task
    <2>1. /\ ListGood' /\ Used' = Used /\ tasks'[i] = task
          /\ \A k \in Index \ {i} : tasks'[k] = tasks[k]
      BY <1>5, <1>6, <1>10, ReplaceTask
    <2>2. /\ thread' \in [Thread -> ThreadType]
          /\ thread'[t].at = "join" /\ thread'[t].left = thread[t].left
          /\ \A u \in Thread \ {t} : thread'[u] = thread[u]
      BY <1>1, <1>10 DEF StateTypes, ThreadType
    <2>3. OneInList'
      BY <1>1, <1>6, <2>2 DEF OneInList
    <2>4. EndingGood'
      <3>1. EndsAt(t, i)'
        BY <2>2 DEF EndsAt
      <3>2. \A k \in Used' : k # i => tasks'[k].subNum # 0
        BY <1>4, <2>1, UsedFacts
      <3> QED
        BY <1>1, <1>3, <1>10, <2>1, <2>2, <3>1, <3>2 DEF EndingGood
    <2>5. coll' \in [Index -> [at : {"none", "top", "send"}, keepRunning : BOOLEAN]]
          /\ \A k \in Index : coll'[k].at = coll[k].at
      BY <1>2, <1>10 DEF StateTypes
    <2>6. StateTypes' /\ CollectorHasTask'
      BY <1>6, <2>1, <2>2, <2>5 DEF StateTypes, CollectorHasTask
    <2> QED
      BY <1>mutex, <2>1, <2>3, <2>4, <2>6
  <1> QED
    BY <1>8, <1>9, <1>10 DEF VisitTask

LEMMA FiniTaskInv ==
    ASSUME Inv, NEW t \in Thread, FiniTask(t)
    PROVE  Inv'
  <1> USE DEF Inv, MutexThere, clients, lock
  <1> DEFINE i == Least(thread[t].left)
  <1>1. /\ thread[t].at = "join" /\ coll[i].at = "none" /\ i \in Used
        /\ tasks' = [tasks EXCEPT ![i] = NoTask] /\ taskNum' = taskNum - 1
        /\ thread' = [thread EXCEPT ![t].at = "visit", ![t].left = @ \ {i}]
        /\ UNCHANGED <<online, slot, recvBuff, holder, mutex, coll>>
    BY DEF FiniTask, EndingGood
  <1>2. \A u \in Thread \ {t} : thread[u].at = "idle"
    BY <1>1 DEF OneInList
  <1>3. \A k \in Used \ {i} : tasks[k].subNum # 0
    BY <1>1, <1>2 DEF EndingGood, EndsAt
  <1> HIDE DEF i
  <1>4. /\ ListGood' /\ Used' = Used \ {i}
        /\ \A k \in Index \ {i} : tasks'[k] = tasks[k]
    BY <1>1, FreeTask
  <1>5. /\ thread' \in [Thread -> ThreadType]
        /\ thread'[t].at = "visit" /\ \A u \in Thread \ {t} : thread'[u] = thread[u]
    <2>1. thread \in [Thread -> ThreadType]
      BY DEF StateTypes
    <2>2. [thread[t] EXCEPT !.at = "visit", !.left = @ \ {i}] \in ThreadType
      BY <2>1 DEF ThreadType
    <2>3. thread' = [thread EXCEPT ![t] = [thread[t] EXCEPT !.at = "visit", !.left = @ \ {i}]]
      BY <1>1, <2>1 DEF ThreadType
    <2> QED
      BY <2>1, <2>2, <2>3 DEF ThreadType
  <1>6. OneInList' /\ EndingGood'
    BY <1>1, <1>2, <1>3, <1>4, <1>5, UsedFacts DEF OneInList, EndingGood
  <1>7. StateTypes' /\ CollectorHasTask'
    BY <1>1, <1>4, <1>5 DEF StateTypes, CollectorHasTask
  <1>mutex. MutexThere'
    BY <1>1
  <1> QED
    BY <1>mutex, <1>4, <1>6, <1>7

LEMMA UnlockInv ==
    ASSUME Inv, NEW t \in Thread, UnlockTaskList(t)
    PROVE  Inv'
  <1> USE DEF Inv, MutexThere
  <1>1. /\ thread[t].at = "visit" /\ holder' = Nobody
        /\ thread' = [thread EXCEPT ![t] = Idle]
        /\ UNCHANGED <<online, recvBuff, tasks, taskNum, mutex, coll>>
    BY DEF UnlockTaskList, StateTypes
  <1>2. \A u \in Thread \ {t} : thread[u].at = "idle"
    BY <1>1 DEF OneInList
  <1>3. \A k \in Used : tasks[k].subNum # 0
    BY <1>1, <1>2 DEF EndingGood, EndsAt
  <1>4. ListGood' /\ Used' = Used
    BY <1>1, ListUnchanged
  <1>5. thread' \in [Thread -> ThreadType] /\ \A u \in Thread : thread'[u].at = "idle"
    BY <1>1, <1>2, IdleType DEF StateTypes, Idle
  <1>6. OneInList' /\ EndingGood'
    BY <1>1, <1>3, <1>4, <1>5 DEF OneInList, EndingGood
  <1>7. slot' \in [Slot -> Client \union {NoClient}]
    BY DEF UnlockTaskList, StateTypes
  <1>8. StateTypes' /\ CollectorHasTask'
    BY <1>1, <1>4, <1>5, <1>7 DEF StateTypes, CollectorHasTask
  <1>mutex. MutexThere'
    BY <1>1
  <1> QED
    BY <1>mutex, <1>4, <1>6, <1>8

LEMMA CollectorInv ==
    ASSUME Inv, NEW i \in Index, CollectorStep(i)
    PROVE  Inv'
  <1> USE DEF Inv, MutexThere, clients, lock
  <1>1. /\ UNCHANGED <<online, slot, recvBuff, tasks, taskNum, holder, mutex, thread>>
        /\ coll[i].at # "none"
    BY DEF CollectorStep, CollectorLoop, SendMetadataToSubscribers
  <1>2. /\ coll' \in [Index -> [at : {"none", "top", "send"}, keepRunning : BOOLEAN]]
        /\ \A k \in Index \ {i} : coll'[k] = coll[k]
    <2>1. \E p \in {"none", "top", "send"} : coll' = [coll EXCEPT ![i].at = p]
      BY DEF CollectorStep, CollectorLoop, SendMetadataToSubscribers
    <2>2. coll \in [Index -> [at : {"none", "top", "send"}, keepRunning : BOOLEAN]]
      BY DEF StateTypes
    <2> QED
      BY <2>1, <2>2
  <1>3. ListGood' /\ Used' = Used
    BY <1>1, ListUnchanged
  <1>4. OneInList' /\ EndingGood'
    BY <1>1, <1>3 DEF OneInList, EndingGood, EndsAt
  <1>5. StateTypes' /\ CollectorHasTask'
    BY <1>1, <1>2, <1>3 DEF StateTypes, CollectorHasTask
  <1>mutex. MutexThere'
    BY <1>1
  <1> QED
    BY <1>mutex, <1>3, <1>4, <1>5

LEMMA NextInv == Inv /\ [Next]_vars => Inv'
  <1> SUFFICES ASSUME Inv, [Next]_vars PROVE Inv'
    OBVIOUS
  <1>1. ASSUME NEW c \in Client, Connect(c) \/ Leave(c) \/ SendRequest(c) PROVE Inv'
    BY <1>1, ClientInv
  <1>2. ASSUME NEW t \in Thread, ListStep(t) PROVE Inv'
    BY <1>2, VisitTaskInv, FiniTaskInv, UnlockInv DEF ListStep
  <1>3. CASE UNCHANGED vars
    <2>1. UNCHANGED <<online, slot, recvBuff, tasks, taskNum, holder, mutex, thread, coll>>
      BY <1>3 DEF vars, lock
    <2>2. ListGood' /\ Used' = Used
      BY <2>1, ListUnchanged DEF Inv
    <2> QED
      BY <2>1, <2>2 DEF Inv, MutexThere, StateTypes, OneInList, EndingGood, EndsAt, CollectorHasTask
  <1> QED
    BY <1>1, <1>2, <1>3, CreateTaskInv, DeleteTaskInv, CleanInv, CollectorInv DEF Next

LEMMA InitInv == Init => Inv
  <1> SUFFICES ASSUME Init PROVE Inv
    OBVIOUS
  <1>1. tasks \in [Index -> TaskType] /\ \A i \in Index : tasks[i] = NoTask /\ GoodTask(tasks[i])
    BY EmptyTask DEF Init, GoodTask
  <1>2. Used = {}
    BY <1>1 DEF Used
  <1>3. ListGood
    BY <1>1, <1>2, FS_EmptySet DEF Init, ListGood
  <1>4. \A t \in Thread : thread[t] = Idle /\ thread[t].at = "idle"
    BY DEF Init, Idle
  <1>5. OneInList /\ EndingGood
    BY <1>2, <1>4 DEF OneInList, EndingGood
  <1>6. CollectorHasTask
    BY DEF Init, NoThread, CollectorHasTask
  <1>7. recvBuff \in Seq(Request) /\ coll \in [Index -> [at : {"none", "top", "send"},
                                                         keepRunning : BOOLEAN]]
    BY DEF Init, NoThread
  <1>8. thread \in [Thread -> ThreadType]
    BY IdleType DEF Init
  <1>9. StateTypes
    BY <1>7, <1>8 DEF Init, StateTypes
  <1> QED
    BY <1>3, <1>5, <1>6, <1>9 DEF Init, Inv, MutexThere

LEMMA SpecInv == Spec => []Inv
  BY InitInv, NextInv, PTL DEF Spec

HolderType == holder \in Thread \union {Nobody}

LEMMA SpecHolder == Spec => []HolderType
  <1>1. Init => HolderType
    BY DEF Init, HolderType
  <1>2. HolderType /\ [Next]_vars => HolderType'
    <2> SUFFICES ASSUME HolderType, [Next]_vars PROVE holder' \in Thread \union {Nobody}
      BY DEF HolderType
    <2> USE DEF HolderType, lock, vars
    <2>1. CASE CreateTask \/ DeleteTask \/ UNCHANGED vars
      BY <2>1 DEF CreateTask, DeleteTask, Lock, Thread
    <2>2. ASSUME NEW c \in Client, Connect(c) \/ Leave(c) \/ SendRequest(c)
          PROVE  holder' = holder
      BY <2>2 DEF Connect, Leave, SendRequest
    <2>3. ASSUME NEW i \in Slot, CleanClientResource(i)
          PROVE  holder' \in {holder, "socket"}
      BY <2>3 DEF CleanClientResource, Lock
    <2>4. ASSUME NEW t \in Thread, ListStep(t)
          PROVE  holder' \in {holder, Nobody}
      BY <2>4 DEF ListStep, VisitTask, FiniTask, UnlockTaskList
    <2>5. ASSUME NEW i \in Index, CollectorStep(i)
          PROVE  holder' = holder
      BY <2>5 DEF CollectorStep, CollectorLoop, SendMetadataToSubscribers
    <2> QED
      BY <2>1, <2>2, <2>3, <2>4, <2>5 DEF Next, Thread
  <1> QED
    BY <1>1, <1>2, PTL DEF Spec

(***************************************************************************)
(* What follows from the invariant.                                        *)
(***************************************************************************)
LEMMA InvTypes == Inv /\ HolderType => TypeOK
  <1> SUFFICES ASSUME Inv, HolderType PROVE TypeOK
    OBVIOUS
  <1>1. taskNum \in 0 .. MAX_TASK_NUM
    BY UsedFacts, TaskServiceAssumption DEF Inv, ListGood
  <1>2. ASSUME NEW i \in Used
        PROVE  /\ tasks[i].dataType \in DataType
               /\ tasks[i].interval \in 0 .. MAX_DC_INTERVAL
               /\ tasks[i].subNum \in 0 .. MAX_CLIENT_NUM
               /\ Subscribers(tasks[i]) \subseteq Client
    <2>1. i \in Index /\ tasks[i].dataType \in DataType
      BY <1>2, UsedFacts DEF Inv
    <2>2. /\ tasks[i] \in TaskType /\ tasks[i].sub \in [Slot -> SubType]
          /\ tasks[i].subNum = Cardinality(Taken(tasks[i].sub))
      BY <2>1 DEF Inv, ListGood, GoodTask, TaskType
    <2>3. tasks[i].subNum \in 0 .. MAX_CLIENT_NUM
      BY <2>2, TakenFinite, TaskServiceAssumption
    <2>4. \A j \in Slot : tasks[i].sub[j].sysId \in Client \union {NoClient}
      BY <2>2 DEF SubType
    <2>5. Subscribers(tasks[i]) \subseteq Client
      BY <2>4 DEF Subscribers
    <2> QED
      BY <2>1, <2>2, <2>3, <2>5 DEF TaskType, Bounded
  <1>3. StateTypes /\ mutex \in BOOLEAN /\ holder \in Thread \union {Nobody}
    BY DEF Inv, MutexThere, HolderType
  <1> QED
    BY <1>1, <1>2, <1>3 DEF TypeOK, StateTypes, ThreadType

\* Entries that are taken and clients that are subscribed are as many.
LEMMA SubscribersCounted ==
    ASSUME NEW task, GoodTask(task)
    PROVE  task.subNum = Cardinality(Subscribers(task))
  <1> DEFINE T == Taken(task.sub)
             S == Subscribers(task)
             f == [j \in T |-> task.sub[j].sysId]
  <1>1. f \in Bijection(T, S)
    <2>1. \A j \in T : j \in Slot /\ f[j] = task.sub[j].sysId /\ f[j] # NoClient
      BY DEF Taken
    <2>2. f \in [T -> S]
      BY <2>1 DEF Subscribers
    <2>3. \A j, k \in T : f[j] = f[k] => j = k
      BY <2>1 DEF GoodTask
    <2>4. \A c \in S : \E j \in T : f[j] = c
      BY DEF Subscribers, Taken
    <2> QED
      BY <2>2, <2>3, <2>4 DEF Bijection, Injection, Surjection, IsInjective
  <1>2. ExistsBijection(T, S)
    BY <1>1 DEF ExistsBijection
  <1>3. Cardinality(S) = Cardinality(T)
    BY <1>2, TakenFinite, FS_Bijection
  <1> QED
    BY <1>3 DEF GoodTask

LEMMA InvConsistent == Inv => TaskListIsConsistent
  <1> SUFFICES ASSUME Inv PROVE TaskListIsConsistent
    OBVIOUS
  <1>1. ASSUME NEW i \in Used
        PROVE  /\ tasks[i].subNum = Cardinality({j \in Slot : tasks[i].sub[j].sysId # NoClient})
               /\ tasks[i].subNum = Cardinality(Subscribers(tasks[i]))
               /\ tasks[i].subNum = 0 <=> i \in Ending
    <2>1. GoodTask(tasks[i])
      BY <1>1, UsedFacts DEF Inv, ListGood
    <2>2. tasks[i].subNum = Cardinality({j \in Slot : tasks[i].sub[j].sysId # NoClient})
      BY <2>1 DEF GoodTask, Taken
    <2>3. tasks[i].subNum = 0 <=> i \in Ending
      BY DEF Inv, EndingGood, EndsAt, Ending
    <2> QED
      BY <2>1, <2>2, <2>3, SubscribersCounted
  <1> QED
    BY <1>1 DEF Inv, ListGood, TaskListIsConsistent

LEMMA InvServed == Inv => ServedOftenEnough
  <1> SUFFICES ASSUME Inv PROVE ServedOftenEnough
    OBVIOUS
  <1>1. \A i \in Used : GoodTask(tasks[i])
    BY UsedFacts DEF Inv, ListGood
  <1> QED
    BY <1>1 DEF GoodTask, ServedOftenEnough

\* The task list keeps its types and its capacities: no task beyond MAX_TASK_NUM and no
\* subscriber beyond MAX_CLIENT_NUM is ever counted, for any number of each.
THEOREM TypeCorrect == Spec => []TypeOK
  BY SpecInv, SpecHolder, InvTypes, PTL

\* The counters of taskservice.c agree with the lists, no type is collected twice, nobody
\* is subscribed twice and only a task that is ending is without subscriber, for any number
\* of clients, types, tasks and subscribers, whatever the order in which the service thread
\* and the socket thread change the list.
THEOREM ListCorrect == Spec => []TaskListIsConsistent
  BY SpecInv, InvConsistent, PTL

\* The interval of a task is never longer than one that a subscriber asked for, whatever
\* CreateDataCollTask and DeleteSubscriber have done to it before.
THEOREM ServedCorrect == Spec => []ServedOftenEnough
  BY SpecInv, InvServed, PTL

\* A collector that has not ended has its task: FiniTask frees no task whose thread runs,
\* and CreateDataCollTask starts no thread without a task, for any number of tasks.
THEOREM CollectorCorrect == Spec => []CollectorHasTask
  <1>1. Inv => CollectorHasTask
    BY DEF Inv
  <1> QED
    BY <1>1, SpecInv, PTL

(***************************************************************************)
(* The list implements the table of subscriptions.  A data type has one    *)
(* task at most, so what the table says of it is what that task's entries  *)
(* say, and a step that replaces a task changes the table there only.      *)
(***************************************************************************)
TableOf(ts) ==
    [d \in DataType |->
        UNION {Entries(ts[i]) : i \in {k \in Index : ts[k].dataType = d}}]

LEMMA TableIsOfTheTasks == TableOfTasks = TableOf(tasks)
  BY DEF TableOfTasks, TableOf

LEMMA NoEntries ==
    ASSUME NEW task, \A j \in Slot : task.sub[j].sysId = NoClient
    PROVE  Entries(task) = {}
  BY DEF Entries

LEMMA EntriesOfNoTask == Entries(NoTask) = {}
  <1>1. \A j \in Slot : NoTask.sub[j].sysId = NoClient
    BY DEF NoTask, NoSub
  <1> QED
    BY <1>1, NoEntries

\* Task i is of type d or no task, and no other is of type d.
OnlyTaskOf(ts, i, d) ==
    /\ ts[i].dataType = d \/ ts[i] = NoTask
    /\ \A k \in Index \ {i} : ts[k].dataType # d

LEMMA NoTaskType == NoTask.dataType = "none" /\ NoTask.dataType \notin DataType
  BY TaskServiceAssumption DEF NoTask

LEMMA TableEntry ==
    ASSUME NEW ts, NEW i \in Index, NEW d \in DataType, OnlyTaskOf(ts, i, d)
    PROVE  TableOf(ts)[d] = Entries(ts[i])
  <1> DEFINE K == {k \in Index : ts[k].dataType = d}
  <1>1. TableOf(ts)[d] = UNION {Entries(ts[k]) : k \in K}
    BY DEF TableOf
  <1>2. CASE ts[i].dataType = d
    <2>1. K = {i}
      BY <1>2 DEF OnlyTaskOf
    <2> QED
      BY <1>1, <2>1
  <1>3. CASE ts[i] = NoTask
    <2>1. K = {}
      BY <1>3, NoTaskType DEF OnlyTaskOf
    <2> QED
      BY <1>1, <1>3, <2>1, EntriesOfNoTask
  <1> QED
    BY <1>2, <1>3 DEF OnlyTaskOf

DifferAt(ts, us, i, d) ==
    /\ \A k \in Index \ {i} : us[k] = ts[k]
    /\ OnlyTaskOf(ts, i, d) /\ OnlyTaskOf(us, i, d)

LEMMA TableElsewhere ==
    ASSUME NEW ts, NEW us, NEW i \in Index, NEW d \in DataType, NEW e \in DataType \ {d},
           DifferAt(ts, us, i, d)
    PROVE  TableOf(us)[e] = TableOf(ts)[e]
  <1> \A k \in Index \ {i} : us[k] = ts[k]
    BY DEF DifferAt
  <1>0. ts[i].dataType # e /\ us[i].dataType # e
    BY NoTaskType DEF DifferAt, OnlyTaskOf
  <1>1. {k \in Index : us[k].dataType = e} = {k \in Index : ts[k].dataType = e}
    <2>1. ASSUME NEW k \in Index PROVE us[k].dataType = e <=> ts[k].dataType = e
      BY <1>0, <2>1
    <2> QED
      BY <2>1
  <1> DEFINE K == {k \in Index : ts[k].dataType = e}
  <1>2. i \notin K
    BY <1>0
  <1>3. \A k \in K : us[k] = ts[k]
    BY <1>2
  <1>4. TableOf(ts)[e] = UNION {Entries(ts[k]) : k \in K}
    BY DEF TableOf
  <1>5. TableOf(us)[e] = UNION {Entries(us[k]) : k \in K}
    BY <1>1 DEF TableOf
  <1> HIDE DEF K
  <1>6. {Entries(us[k]) : k \in K} = {Entries(ts[k]) : k \in K}
    BY <1>3
  <1> QED
    BY <1>4, <1>5, <1>6

\* The step that replaces task i, which is of type d or no task, by one that is, too.
LEMMA TableStep ==
    ASSUME ListGood, NEW i \in Index, NEW d \in DataType, NEW new,
           OnlyTaskOf(tasks, i, d), new.dataType = d \/ new = NoTask,
           tasks' = [tasks EXCEPT ![i] = new]
    PROVE  /\ TableOfTasks[d] = Entries(tasks[i])
           /\ TableOfTasks' = [TableOfTasks EXCEPT ![d] = Entries(new)]
  <1>1. tasks'[i] = new /\ \A k \in Index \ {i} : tasks'[k] = tasks[k]
    BY DEF ListGood
  <1>2. TableOfTasks = TableOf(tasks) /\ TableOfTasks' = TableOf(tasks')
    BY TableIsOfTheTasks DEF TableOfTasks, TableOf
  <1>3. OnlyTaskOf(tasks', i, d)
    BY <1>1 DEF OnlyTaskOf
  <1>4. TableOf(tasks)[d] = Entries(tasks[i])
    BY TableEntry
  <1>5. TableOf(tasks')[d] = Entries(new)
    <2>1. TableOf(tasks')[d] = Entries(tasks'[i])
      BY <1>3, TableEntry
    <2> QED
      BY <1>1, <2>1
  <1>6. \A e \in DataType \ {d} : TableOf(tasks')[e] = TableOf(tasks)[e]
    <2>1. DifferAt(tasks, tasks', i, d)
      BY <1>1, <1>3 DEF DifferAt
    <2> QED
      BY <2>1, TableElsewhere
  <1>7. TableOf(tasks') = [TableOf(tasks) EXCEPT ![d] = Entries(new)]
    <2>1. TableOf(tasks') = [e \in DataType |-> TableOf(tasks')[e]]
      BY DEF TableOf
    <2>2. DOMAIN TableOf(tasks) = DataType
      BY DEF TableOf
    <2> QED
      BY <1>5, <1>6, <2>1, <2>2
  <1> QED
    BY <1>2, <1>4, <1>7

LEMMA TableUnchanged ==
    ASSUME tasks' = tasks
    PROVE  TableOfTasks' = TableOfTasks
  BY DEF TableOfTasks

LEMMA OneOfAType ==
    ASSUME ListGood, NEW i \in Used
    PROVE  /\ i \in Index /\ tasks[i].dataType \in DataType /\ GoodTask(tasks[i])
           /\ OnlyTaskOf(tasks, i, tasks[i].dataType)
           /\ TableOfTasks[tasks[i].dataType] = Entries(tasks[i])
  <1>1. i \in Index /\ tasks[i].dataType \in DataType /\ GoodTask(tasks[i])
    BY UsedFacts DEF ListGood
  <1>2. OnlyTaskOf(tasks, i, tasks[i].dataType)
    <2>1. ASSUME NEW k \in Index \ {i} PROVE tasks[k].dataType # tasks[i].dataType
      BY <1>1, <2>1, UsedFacts DEF ListGood
    <2> QED
      BY <2>1 DEF OnlyTaskOf
  <1> QED
    BY <1>1, <1>2, TableEntry, TableIsOfTheTasks

LEMMA NoneOfAType ==
    ASSUME ListGood, NEW d \in DataType, \A i \in Used : tasks[i].dataType # d
    PROVE  TableOfTasks[d] = {} /\ \A i \in Index : tasks[i].dataType # d
  <1>1. \A i \in Index : tasks[i].dataType # d
    BY UsedFacts
  <1> QED
    BY <1>1 DEF TableOfTasks

(***************************************************************************)
(* The entries of one task.                                                *)
(***************************************************************************)
WithoutClient(E, c) == {s \in E : s.sysId # c}

\* Entry i, of client c or of nobody, is written over; c has no other.
WritesEntry(task, new, c, i) ==
    /\ \A j \in Slot \ {i} : new.sub[j] = task.sub[j] /\ task.sub[j].sysId # c
    /\ task.sub[i].sysId \in {c, NoClient}

LEMMA EntriesOthers ==
    ASSUME NEW task, NEW new, NEW c, NEW i \in Slot, WritesEntry(task, new, c, i)
    PROVE  /\ new.sub[i].sysId # NoClient =>
                  Entries(new) = WithoutClient(Entries(task), c) \union {new.sub[i]}
           /\ new.sub[i].sysId = NoClient => Entries(new) = WithoutClient(Entries(task), c)
  <1> USE DEF WritesEntry
  <1> DEFINE O == {j \in Slot \ {i} : task.sub[j].sysId # NoClient}
  <1>1. WithoutClient(Entries(task), c) = {task.sub[j] : j \in O}
    BY DEF WithoutClient, Entries
  <1>2. {task.sub[j] : j \in O} = {new.sub[j] : j \in O}
    OBVIOUS
  <1>3. \A j \in Slot \ {i} : j \in O <=> new.sub[j].sysId # NoClient
    OBVIOUS
  <1>4. ASSUME new.sub[i].sysId # NoClient
        PROVE  Entries(new) = {new.sub[j] : j \in O} \union {new.sub[i]}
    <2>1. {k \in Slot : new.sub[k].sysId # NoClient} = O \union {i}
      BY <1>3, <1>4
    <2> QED
      BY <2>1 DEF Entries
  <1>5. ASSUME new.sub[i].sysId = NoClient
        PROVE  Entries(new) = {new.sub[j] : j \in O}
    <2>1. {k \in Slot : new.sub[k].sysId # NoClient} = O
      BY <1>3, <1>5
    <2> QED
      BY <2>1 DEF Entries
  <1> QED
    BY <1>1, <1>2, <1>4, <1>5

LEMMA EntriesSame ==
    ASSUME NEW task, NEW new, new.sub = task.sub
    PROVE  Entries(new) = Entries(task)
  BY DEF Entries

LEMMA EntriesOfNewTask ==
    ASSUME NEW c \in Client, NEW d \in DataType, NEW v \in Bounded
    PROVE  Entries(NewTask(c, d, v)) = {[sysId |-> c, interval |-> v]}
  <1> DEFINE new == NewTask(c, d, v)
  <1>1. 1 \in Slot /\ c # NoClient
    BY TaskServiceAssumption DEF Slot
  <1>2. \A j \in Slot : new.sub[j] = IF j = 1 THEN [sysId |-> c, interval |-> v] ELSE NoSub
    BY DEF NewTask
  <1>3. {k \in Slot : new.sub[k].sysId # NoClient} = {1}
    BY <1>1, <1>2 DEF NoSub
  <1> QED
    BY <1>1, <1>2, <1>3 DEF Entries

\* Entries that are taken are different, so the table counts what the task counts.
LEMMA EntriesCounted ==
    ASSUME NEW task, GoodTask(task)
    PROVE  /\ IsFiniteSet(Entries(task)) /\ Cardinality(Entries(task)) = Cardinality(Taken(task.sub))
           /\ task.subNum = 0 <=> Entries(task) = {}
  <1> DEFINE T == Taken(task.sub)
             S == Entries(task)
             f == [j \in T |-> task.sub[j]]
  <1>1. f \in Bijection(T, S)
    <2>1. \A j \in T : j \in Slot /\ f[j] = task.sub[j] /\ task.sub[j].sysId # NoClient
      BY DEF Taken
    <2>2. f \in [T -> S]
      BY <2>1 DEF Entries
    <2>3. \A j, k \in T : f[j] = f[k] => j = k
      BY <2>1 DEF GoodTask
    <2>4. \A x \in S : \E j \in T : f[j] = x
      BY DEF Entries, Taken
    <2> QED
      BY <2>2, <2>3, <2>4 DEF Bijection, Injection, Surjection, IsInjective
  <1>2. ExistsBijection(T, S)
    BY <1>1 DEF ExistsBijection
  <1>3. IsFiniteSet(S) /\ Cardinality(S) = Cardinality(T)
    BY <1>2, TakenFinite, FS_Bijection
  <1>4. task.subNum = 0 <=> S = {}
    BY <1>3, FS_EmptySet DEF GoodTask
  <1> QED
    BY <1>3, <1>4

LEMMA EntriesAdded ==
    ASSUME NEW task, GoodTask(task), NEW c \in Client, NEW v \in Bounded
    PROVE  \/ Entries(AddSubscriber(task, c, v))
                 = WithoutClient(Entries(task), c) \union {[sysId |-> c, interval |-> v]}
           \/ /\ AddSubscriber(task, c, v) = task
              /\ WithoutClient(Entries(task), c) = Entries(task)
              /\ Cardinality(Entries(task)) = MAX_CLIENT_NUM
  <1> DEFINE new == AddSubscriber(task, c, v)
             req == [sysId |-> c, interval |-> v]
  <1>0. c # NoClient /\ task \in TaskType /\ task.sub \in [Slot -> SubType] /\ task.subNum \in Nat
    BY TaskServiceAssumption DEF GoodTask, TaskType
  <1>1. ASSUME NEW i \in Slot, NEW changed \in TaskType, new = Lower(changed, v),
               task.sub[i].sysId \in {c, NoClient},
               \A j \in Slot \ {i} : task.sub[j].sysId # c,
               changed.sub = [task.sub EXCEPT ![i] = req]
        PROVE  Entries(new) = WithoutClient(Entries(task), c) \union {req}
    <2> HIDE DEF req
    <2>1. Entries(changed) = WithoutClient(Entries(task), c) \union {req}
      <3>1. WritesEntry(task, changed, c, i)
        BY <1>0, <1>1 DEF WritesEntry
      <3>2. changed.sub[i] = req
        BY <1>0, <1>1
      <3>3. changed.sub[i].sysId # NoClient
        BY <1>0, <3>2 DEF req
      <3>4. Entries(changed) = WithoutClient(Entries(task), c) \union {changed.sub[i]}
        BY <3>1, <3>3, EntriesOthers
      <3> QED
        BY <3>2, <3>4
    <2>2. new.sub = changed.sub
      BY <1>1, LowerTask
    <2> QED
      BY <2>1, <2>2, EntriesSame
  <1>2. CASE SubsOf(task, c) # {}
    <2> DEFINE i == Least(SubsOf(task, c))
               changed == [task EXCEPT !.sub[i].interval = v]
    <2>1. i \in Slot /\ task.sub[i].sysId = c
      BY <1>2, LeastSlot DEF SubsOf
    <2>2. new = Lower(changed, v)
      BY <1>2 DEF AddSubscriber
    <2> HIDE DEF i, new
    <2>3. changed \in TaskType /\ changed.sub = [task.sub EXCEPT ![i].interval = v]
      BY <1>0, <2>1 DEF TaskType, SubType
    <2>4. [task.sub EXCEPT ![i].interval = v] = [task.sub EXCEPT ![i] = req]
      <3>1. [task.sub[i] EXCEPT !.interval = v] = req
        BY <1>0, <2>1 DEF SubType
      <3> QED
        BY <1>0, <2>1, <3>1
    <2>5. \A j \in Slot \ {i} : task.sub[j].sysId # c
      BY <1>0, <2>1 DEF GoodTask
    <2> HIDE DEF changed, req
    <2>6. Entries(new) = WithoutClient(Entries(task), c) \union {req}
      BY <1>1, <2>1, <2>2, <2>3, <2>4, <2>5
    <2> QED
      BY <2>6 DEF req, new
  <1>3. CASE SubsOf(task, c) = {} /\ SubsOf(task, NoClient) # {}
    <2> DEFINE i == Least(SubsOf(task, NoClient))
               changed == [task EXCEPT !.sub[i] = req, !.subNum = @ + 1]
    <2>1. i \in Slot /\ task.sub[i].sysId = NoClient
      BY <1>3, LeastSlot DEF SubsOf
    <2>2. new = Lower(changed, v)
      BY <1>3 DEF AddSubscriber
    <2> HIDE DEF i, new
    <2>3. req \in SubType
      BY DEF SubType
    <2> HIDE DEF req
    <2>4. task.subNum + 1 \in Nat /\ [task.sub EXCEPT ![i] = req] \in [Slot -> SubType]
      BY <1>0, <2>1, <2>3
    <2>5. changed \in TaskType /\ changed.sub = [task.sub EXCEPT ![i] = req]
      BY <1>0, <2>4 DEF TaskType
    <2>6. \A j \in Slot : task.sub[j].sysId # c
      BY <1>3 DEF SubsOf
    <2> HIDE DEF changed
    <2>7. Entries(new) = WithoutClient(Entries(task), c) \union {req}
      BY <1>1, <2>1, <2>2, <2>5, <2>6
    <2> QED
      BY <2>7 DEF req, new
  <1>4. CASE SubsOf(task, c) = {} /\ SubsOf(task, NoClient) = {}
    <2>1. new = task
      BY <1>4 DEF AddSubscriber
    <2>2. WithoutClient(Entries(task), c) = Entries(task)
      BY <1>4 DEF WithoutClient, Entries, SubsOf
    <2>3. Taken(task.sub) = Slot
      BY <1>4 DEF Taken, SubsOf
    <2>4. Cardinality(Slot) = MAX_CLIENT_NUM
      BY FS_Interval, TaskServiceAssumption DEF Slot
    <2>5. Cardinality(Entries(task)) = MAX_CLIENT_NUM
      BY <2>3, <2>4, EntriesCounted
    <2> QED
      BY <2>1, <2>2, <2>5
  <1> QED
    BY <1>2, <1>3, <1>4

LEMMA EntriesRemoved ==
    ASSUME NEW task, GoodTask(task), NEW c \in Client
    PROVE  Entries(RemoveEntry(task, c)) = WithoutClient(Entries(task), c)
  <1> DEFINE new == RemoveEntry(task, c)
  <1>0. c # NoClient /\ task \in TaskType /\ task.sub \in [Slot -> SubType]
    BY TaskServiceAssumption DEF GoodTask, TaskType
  <1>1. CASE SubsOf(task, c) # {}
    <2> DEFINE i == Least(SubsOf(task, c))
    <2>1. i \in Slot /\ task.sub[i].sysId = c
      BY <1>1, LeastSlot DEF SubsOf
    <2>2. new = [task EXCEPT !.sub[i] = NoSub, !.subNum = @ - 1]
      BY <1>1 DEF RemoveEntry
    <2> HIDE DEF i, new
    <2>3. new.sub = [task.sub EXCEPT ![i] = NoSub]
      BY <1>0, <2>2 DEF TaskType
    <2>4. new.sub[i].sysId = NoClient /\ \A j \in Slot \ {i} : new.sub[j] = task.sub[j]
      BY <1>0, <2>1, <2>3 DEF NoSub
    <2>5. \A j \in Slot \ {i} : task.sub[j].sysId # c
      BY <1>0, <2>1 DEF GoodTask
    <2>6. WritesEntry(task, new, c, i)
      BY <2>1, <2>4, <2>5 DEF WritesEntry
    <2>7. Entries(new) = WithoutClient(Entries(task), c)
      BY <2>1, <2>4, <2>6, EntriesOthers
    <2> QED
      BY <2>7 DEF new
  <1>2. CASE SubsOf(task, c) = {}
    <2>1. new = task
      BY <1>2 DEF RemoveEntry
    <2>2. WithoutClient(Entries(task), c) = Entries(task)
      BY <1>2 DEF WithoutClient, Entries, SubsOf
    <2> QED
      BY <2>1, <2>2
  <1> QED
    BY <1>1, <1>2

LEMMA EntriesRecomputed ==
    ASSUME NEW task, GoodTask(task)
    PROVE  Entries(Recompute(task)) = Entries(task)
  <1>1. Recompute(task).sub = task.sub
    BY DEF Recompute, GoodTask, TaskType
  <1> QED
    BY <1>1, EntriesSame

(***************************************************************************)
(* There is always room in the table.                                      *)
(***************************************************************************)
LEMMA SameCardinality == \A S : Table!Cardinality(S) = Cardinality(S)
  BY DEF Table!Cardinality, Cardinality

LEMMA ImageBound ==
    ASSUME NEW S, IsFiniteSet(S), NEW f
    PROVE  /\ IsFiniteSet({f[x] : x \in S})
           /\ Cardinality({f[x] : x \in S}) <= Cardinality(S)
  <1> DEFINE T == {f[x] : x \in S}
             g == [x \in S |-> f[x]]
  <1>1. g \in Surjection(S, T)
    BY DEF Surjection
  <1> QED
    BY <1>1, FS_Surjection

LEMMA RoomInTheTable == Inv => Table!HasRoom
  <1> SUFFICES ASSUME Inv PROVE Table!HasRoom
    OBVIOUS
  <1>0. ListGood
    BY DEF Inv
  <1>1. ASSUME NEW d \in DataType
        PROVE  Cardinality(TableOfTasks[d]) <= MAX_CLIENT_NUM
    <2>1. CASE \E i \in Used : tasks[i].dataType = d
      <3>1. PICK i \in Used : tasks[i].dataType = d
        BY <2>1
      <3>2. TableOfTasks[d] = Entries(tasks[i]) /\ GoodTask(tasks[i])
        BY <1>0, <3>1, OneOfAType
      <3> QED
        BY <3>2, EntriesCounted, TakenFinite
    <2>2. CASE \A i \in Used : tasks[i].dataType # d
      <3>1. TableOfTasks[d] = {}
        BY <1>0, <2>2, NoneOfAType
      <3> QED
        BY <3>1, FS_EmptySet, TaskServiceAssumption
    <2> QED
      BY <2>1, <2>2
  <1>2. Cardinality({d \in DataType : TableOfTasks[d] # {}}) <= MAX_TASK_NUM
    <2> DEFINE D == {d \in DataType : TableOfTasks[d] # {}}
               f == [i \in Used |-> tasks[i].dataType]
               T == {f[i] : i \in Used}
    <2>1. \A d \in D : \E i \in Used : tasks[i].dataType = d
      BY <1>0, NoneOfAType
    <2>2. D \in SUBSET T
      BY <2>1
    <2>3. IsFiniteSet(Used) /\ Cardinality(Used) \in Nat /\ Cardinality(Used) <= MAX_TASK_NUM
      BY <1>0, UsedFacts
    <2> HIDE DEF D, f
    <2>4. IsFiniteSet(T) /\ Cardinality(T) <= Cardinality(Used)
      BY <2>3, ImageBound
    <2> HIDE DEF T
    <2>5. IsFiniteSet(D) /\ Cardinality(D) <= Cardinality(T)
      BY <2>2, <2>4, FS_Subset
    <2>6. Cardinality(T) \in Nat /\ Cardinality(D) \in Nat
      BY <2>4, <2>5, FS_CardinalityType
    <2> QED
      BY <2>3, <2>4, <2>5, <2>6, TaskServiceAssumption DEF D
  <1> QED
    BY <1>1, <1>2, SameCardinality DEF Table!HasRoom

(***************************************************************************)
(* A removal is that of the one thread inside the list; the other one is   *)
(* as it was left by UnlockTaskList.                                       *)
(***************************************************************************)
IdleThreads == \A t \in Thread : thread[t].at = "idle" => thread[t] = Idle

LEMMA IdleThreadsStay ==
    ASSUME Inv, IdleThreads, [Next]_vars
    PROVE  IdleThreads'
  <1>0. thread \in [Thread -> ThreadType]
    BY DEF Inv, StateTypes
  <1>1. ASSUME NEW t \in Thread, Enters(t) PROVE IdleThreads'
    BY <1>0, <1>1 DEF Enters, IdleThreads
  <1>2. ASSUME NEW t \in Thread, VisitTask(t) PROVE IdleThreads'
    BY <1>0, <1>2 DEF VisitTask, IdleThreads, ThreadType
  <1>3. ASSUME NEW t \in Thread, FiniTask(t) PROVE IdleThreads'
    BY <1>0, <1>3 DEF FiniTask, IdleThreads, ThreadType
  <1>4. ASSUME NEW t \in Thread, UnlockTaskList(t) PROVE IdleThreads'
    BY <1>0, <1>4 DEF UnlockTaskList, IdleThreads
  <1>5. ASSUME thread' = thread PROVE IdleThreads'
    BY <1>5 DEF IdleThreads
  <1>6. ASSUME NEW c \in Client, Connect(c) \/ Leave(c) \/ SendRequest(c) PROVE thread' = thread
    BY <1>6 DEF Connect, Leave, SendRequest
  <1>7. ASSUME NEW i \in Index, CollectorStep(i) PROVE thread' = thread
    BY <1>7 DEF CollectorStep, CollectorLoop, SendMetadataToSubscribers
  <1>8. CreateTask \/ UNCHANGED vars => thread' = thread
    BY DEF CreateTask, vars
  <1>9. ASSUME NEW i \in Slot, CleanClientResource(i) PROVE IdleThreads'
    BY <1>1, <1>9, CleanEnters DEF Inv, Thread
  <1>10. DeleteTask => IdleThreads'
    BY <1>1, DeleteTaskEnters DEF Inv, Thread
  <1> QED
    BY <1>2, <1>3, <1>4, <1>5, <1>6, <1>7, <1>8, <1>9, <1>10 DEF Next, ListStep

LEMMA InitIdle == Init => IdleThreads
  BY DEF Init, IdleThreads

RemovalOf(ts, th) ==
    [client |-> IF th["socket"].at # "idle" THEN th["socket"].client ELSE th["service"].client,
     types |-> {ts[i].dataType : i \in th["socket"].left \union th["service"].left}
                   \ {NoTask.dataType}]

LEMMA RemovalIsOfTheThreads ==
    RemovalOfThreads = RemovalOf(tasks, thread) /\ RemovalOfThreads' = RemovalOf(tasks', thread')
  BY DEF RemovalOfThreads, RemovalOf, NoTask, NoSub

LEMMA NoRemoval ==
    ASSUME NEW ts, NEW th, \A u \in Thread : th[u] = Idle
    PROVE  RemovalOf(ts, th) = Table!Nobody
  <1>1. \A u \in {"service", "socket"} : th[u].left = {} /\ th[u].client = NoClient
    BY DEF Idle, Thread
  <1> QED
    BY <1>1 DEF RemovalOf, Table!Nobody

\* Thread t of th is inside the list, the other one is not.
OnlyInList(th, t) == th[t].at # "idle" /\ \A u \in Thread \ {t} : th[u] = Idle

LEMMA RemovalOfOne ==
    ASSUME NEW ts, NEW th, NEW t \in Thread, OnlyInList(th, t)
    PROVE  RemovalOf(ts, th) =
              [client |-> th[t].client,
               types |-> {ts[i].dataType : i \in th[t].left} \ {NoTask.dataType}]
  <1>0. Idle.at = "idle" /\ Idle.left = {}
    BY DEF Idle
  <1>1. CASE t = "socket"
    <2>1. th["service"].left = {}
      BY <1>0, <1>1 DEF OnlyInList, Thread
    <2>2. th["socket"].left \union th["service"].left = th[t].left
      BY <1>1, <2>1
    <2> QED
      BY <1>1, <2>2 DEF OnlyInList, RemovalOf
  <1>2. CASE t = "service"
    <2>1. th["socket"].left = {} /\ th["socket"].at = "idle"
      BY <1>0, <1>2 DEF OnlyInList, Thread
    <2>2. th["socket"].left \union th["service"].left = th[t].left
      BY <1>2, <2>1
    <2> QED
      BY <1>2, <2>1, <2>2 DEF RemovalOf
  <1> QED
    BY <1>1, <1>2 DEF Thread

\* While a thread is inside the list, that is the one.
LEMMA OneThread ==
    ASSUME Inv, IdleThreads, NEW t \in Thread, thread[t].at # "idle"
    PROVE  OnlyInList(thread, t)
  BY DEF Inv, OneInList, IdleThreads, OnlyInList

(***************************************************************************)
(* Each step is a step of the table, or none.                              *)
(***************************************************************************)
LEMMA TableType == TableOfTasks = [d \in DataType |-> TableOfTasks[d]]
  BY DEF TableOfTasks

\* Before a request is served or a clean-up begins nobody is inside the list.
LEMMA NobodyYet ==
    ASSUME Inv, IdleThreads, CanLock
    PROVE  /\ \A t \in Thread : thread[t] = Idle
           /\ RemovalOfThreads = Table!Nobody
           /\ \A i \in Used : tasks[i].subNum # 0
  <1>1. /\ \A t \in Thread : thread[t] = Idle
        /\ \A i \in Used : tasks[i].subNum # 0
    BY NobodyIn DEF Inv, IdleThreads
  <1> QED
    BY <1>1, NoRemoval, RemovalIsOfTheThreads

LEMMA ServesOne ==
    ASSUME Inv, IdleThreads, NEW op, CanLock, recvBuff # <<>>, Head(recvBuff).op = op,
           recvBuff' = Tail(recvBuff)
    PROVE  Table!Serve(op)
  BY NobodyYet DEF Table!Serve

LEMMA CreateSubscribes ==
    ASSUME Inv, IdleThreads, Table!HasRoom', CreateTask
    PROVE  Table!Subscribe \/ Table!Refuse
  <1> DEFINE req == Head(recvBuff)
             c == req.client
             d == req.type
             v == req.interval
             same == OfType(d)
             free == Index \ Used
             entry == [sysId |-> c, interval |-> v]
  <1>1. c \in Client /\ d \in DataType /\ v \in Bounded
    BY FirstRequest DEF Inv, Request, CreateTask
  <1>2. ListGood
    BY DEF Inv
  <1>3. Table!Serve("create")
    BY ServesOne DEF CreateTask
  <1>4. UNCHANGED RemovalOfThreads
    <2>1. \A t \in Thread : thread'[t] = Idle
      BY NobodyYet DEF CreateTask
    <2> QED
      BY <2>1, NobodyYet, NoRemoval, RemovalIsOfTheThreads DEF CreateTask
  <1>5. ASSUME TableOfTasks' = [TableOfTasks EXCEPT ![d] =
                                   WithoutClient(TableOfTasks[d], c) \union {entry}]
        PROVE  Table!Subscribe
    BY <1>3, <1>4, <1>5 DEF Table!Subscribe, Table!Others, WithoutClient
  <1>6. ASSUME UNCHANGED TableOfTasks,
               WithoutClient(TableOfTasks[d], c) = TableOfTasks[d],
               TableOfTasks[d] = {} \/ Cardinality(TableOfTasks[d]) = MAX_CLIENT_NUM
        PROVE  Table!Refuse
    BY <1>3, <1>4, <1>6, SameCardinality DEF Table!Refuse, Table!Others, WithoutClient
  <1>7. CASE /\ same # {}
             /\ tasks' = [tasks EXCEPT ![Least(same)] = AddSubscriber(@, c, v)]
    <2> DEFINE i == Least(same)
               new == AddSubscriber(tasks[i], c, v)
    <2>1. i \in Used /\ tasks[i].dataType = d
      BY <1>7, LeastIndex, UsedFacts DEF OfType, Used
    <2>2. tasks' = [tasks EXCEPT ![i] = new]
      BY <1>7
    <2> HIDE DEF i
    <2>3. /\ i \in Index /\ GoodTask(tasks[i]) /\ OnlyTaskOf(tasks, i, d)
          /\ TableOfTasks[d] = Entries(tasks[i])
      BY <1>2, <2>1, OneOfAType
    <2>4. new.dataType = d
      BY <1>1, <2>1, <2>3, AddSubscriberGood
    <2>5. \/ Entries(new) = WithoutClient(Entries(tasks[i]), c) \union {entry}
          \/ /\ new = tasks[i]
             /\ WithoutClient(Entries(tasks[i]), c) = Entries(tasks[i])
             /\ Cardinality(Entries(tasks[i])) = MAX_CLIENT_NUM
      BY <1>1, <2>3, EntriesAdded
    <2> HIDE DEF new, d
    <2>6. TableOfTasks' = [TableOfTasks EXCEPT ![d] = Entries(new)]
      <3>1. i \in Index /\ d \in DataType /\ OnlyTaskOf(tasks, i, d)
        BY <1>1, <2>3
      <3> QED
        BY ONLY <1>2, <2>2, <2>4, <3>1, TableStep
    <2> HIDE DEF c, entry
    <2>7. CASE Entries(new) = WithoutClient(Entries(tasks[i]), c) \union {entry}
      BY <1>5, <2>3, <2>6, <2>7
    <2>8. CASE /\ new = tasks[i]
               /\ WithoutClient(Entries(tasks[i]), c) = Entries(tasks[i])
               /\ Cardinality(Entries(tasks[i])) = MAX_CLIENT_NUM
      <3>1. UNCHANGED TableOfTasks
        BY <1>1, <2>3, <2>6, <2>8, TableType
      <3> QED
        BY <1>6, <2>3, <2>8, <3>1
    <2> QED
      BY <2>5, <2>7, <2>8
  <1>8. CASE same = {}
    <2>1. TableOfTasks[d] = {} /\ \A k \in Index : tasks[k].dataType # d
      BY <1>1, <1>2, <1>8, SameType, NoneOfAType
    <2>2. WithoutClient(TableOfTasks[d], c) = {}
      BY <2>1 DEF WithoutClient
    <2>3. CASE free # {} /\ tasks' = [tasks EXCEPT ![Least(free)] = NewTask(c, d, v)]
      <3> DEFINE i == Least(free)
                 new == NewTask(c, d, v)
      <3>1. i \in Index /\ i \notin Used
        BY <2>3, LeastIndex
      <3>2. tasks' = [tasks EXCEPT ![i] = new]
        BY <2>3
      <3> HIDE DEF i
      <3>3. new.dataType = d /\ Entries(new) = {entry}
        BY <1>1, NewTaskGood, EntriesOfNewTask
      <3>4. OnlyTaskOf(tasks, i, d)
        BY <2>1, <3>1 DEF OnlyTaskOf, Used
      <3> HIDE DEF new, d
      <3>5. TableOfTasks' = [TableOfTasks EXCEPT ![d] = Entries(new)]
        BY <1>1, <1>2, <3>1, <3>2, <3>3, <3>4, TableStep
      <3> HIDE DEF entry, c
      <3>6. Entries(new) = WithoutClient(TableOfTasks[d], c) \union {entry}
        BY <2>2, <3>3
      <3> QED
        BY <1>5, <3>5, <3>6
    <2>4. CASE UNCHANGED tasks
      BY <1>6, <2>1, <2>2, <2>4, TableUnchanged
    <2> QED
      BY <1>8, <2>3, <2>4 DEF CreateTask
  <1> QED
    BY <1>7, <1>8 DEF CreateTask

\* The types of the tasks that a thread has to visit when it enters the list.
LEMMA TypesToVisit ==
    ASSUME Inv, \A i \in Used : tasks[i].subNum # 0,
           NEW T \in SUBSET DataType, NEW S \in SUBSET Index,
           \A i \in Used : i \in S <=> tasks[i].dataType \in T
    PROVE  {tasks[i].dataType : i \in S} \ {NoTask.dataType} = {d \in T : TableOfTasks[d] # {}}
  <1>0. ListGood
    BY DEF Inv
  <1>1. ASSUME NEW i \in S, tasks[i].dataType # NoTask.dataType
        PROVE  tasks[i].dataType \in {d \in T : TableOfTasks[d] # {}}
    <2>1. i \in Used
      BY <1>0, <1>1, NoTaskType, UsedFacts
    <2>2. TableOfTasks[tasks[i].dataType] # {}
      BY <1>0, <2>1, OneOfAType, EntriesCounted
    <2> QED
      BY <2>1, <2>2
  <1>2. ASSUME NEW d \in T, TableOfTasks[d] # {}
        PROVE  d \in {tasks[i].dataType : i \in S} \ {NoTask.dataType}
    <2>1. PICK i \in Used : tasks[i].dataType = d
      BY <1>0, <1>2, NoneOfAType
    <2> QED
      BY <2>1, NoTaskType
  <1> QED
    BY <1>1, <1>2

LEMMA DeleteBegins ==
    ASSUME Inv, IdleThreads, DeleteTask
    PROVE  Table!Unsubscribe
  <1> DEFINE req == Head(recvBuff)
             c == req.client
             d == req.type
             same == OfType(d)
             S == IF same = {} THEN {} ELSE {Least(same)}
             r == [Idle EXCEPT !.at = "visit", !.client = c, !.left = S]
  <1>1. d \in DataType /\ ListGood
    BY FirstRequest DEF Inv, Request, DeleteTask
  <1>2. CanLock /\ Table!Serve("delete") /\ tasks' = tasks
    BY ServesOne DEF DeleteTask, Lock
  <1>3. S \in SUBSET Index /\ \A i \in Used : i \in S <=> tasks[i].dataType \in {d}
    <2>1. CASE same = {}
      BY <1>1, <2>1, SameType
    <2>2. CASE same # {}
      <3>1. Least(same) \in Used /\ tasks[Least(same)].dataType = d
        BY <2>2, LeastIndex DEF OfType, Used
      <3> QED
        BY <1>1, <2>2, <3>1, OneOfAType DEF ListGood
    <2> QED
      BY <2>1, <2>2
  <1> HIDE DEF S
  <1>4. {tasks[i].dataType : i \in S} \ {NoTask.dataType} = {e \in {d} : TableOfTasks[e] # {}}
    BY <1>1, <1>2, <1>3, NobodyYet, TypesToVisit
  <1>5. thread' = [thread EXCEPT !["service"] = r]
    BY DEF DeleteTask, S
  <1>6. r.at = "visit" /\ r.client = c /\ r.left = S
    BY DEF Idle
  <1> HIDE DEF r
  <1>7. OnlyInList(thread', "service") /\ thread'["service"] = r
    BY <1>2, <1>5, <1>6, NobodyYet DEF OnlyInList, Inv, StateTypes, Thread
  <1>8. RemovalOf(tasks, thread') =
            [client |-> c, types |-> {tasks[i].dataType : i \in S} \ {NoTask.dataType}]
    BY <1>6, <1>7, RemovalOfOne DEF Thread
  <1>9. Table!Begin(c, {d})
    BY <1>2, <1>4, <1>8, RemovalIsOfTheThreads DEF Table!Begin
  <1> QED
    BY <1>2, <1>9, TableUnchanged DEF Table!Unsubscribe

LEMMA CleanBegins ==
    ASSUME Inv, IdleThreads, NEW n \in Slot, CleanClientResource(n)
    PROVE  Table!CleanUp
  <1> DEFINE c == slot[1]
             S == IF taskNum = 0 THEN {} ELSE Index
             r == [Idle EXCEPT !.at = "visit", !.client = c, !.slot = n, !.left = S]
  <1>1. c \in Client \union {NoClient} /\ ListGood
    BY TaskServiceAssumption DEF Inv, StateTypes, Slot
  <1>2. CanLock /\ tasks' = tasks /\ recvBuff' = recvBuff
    BY DEF CleanClientResource, Lock, clients
  <1>3. S \in SUBSET Index /\ \A i \in Used : i \in S <=> tasks[i].dataType \in DataType
    <2>1. taskNum = 0 => Used = {}
      BY <1>1, UsedFacts, FS_EmptySet DEF ListGood
    <2> QED
      BY <1>1, <2>1, UsedFacts
  <1> HIDE DEF S
  <1>4. {tasks[i].dataType : i \in S} \ {NoTask.dataType} = {e \in DataType : TableOfTasks[e] # {}}
    BY <1>2, <1>3, NobodyYet, TypesToVisit
  <1>5. thread' = [thread EXCEPT !["socket"] = r]
    BY DEF CleanClientResource, S
  <1>6. r.at = "visit" /\ r.client = c /\ r.left = S
    BY DEF Idle
  <1> HIDE DEF r
  <1>7. OnlyInList(thread', "socket") /\ thread'["socket"] = r
    BY <1>2, <1>5, <1>6, NobodyYet DEF OnlyInList, Inv, StateTypes, Thread
  <1>8. RemovalOf(tasks, thread') =
            [client |-> c, types |-> {tasks[i].dataType : i \in S} \ {NoTask.dataType}]
    BY <1>6, <1>7, RemovalOfOne DEF Thread
  <1>9. Table!Begin(c, DataType)
    BY <1>2, <1>4, <1>8, RemovalIsOfTheThreads DEF Table!Begin
  <1>10. RemovalOfThreads = Table!Nobody
    BY <1>2, NobodyYet
  <1> QED
    BY <1>1, <1>2, <1>9, <1>10, TableUnchanged DEF Table!CleanUp

LEMMA VisitEndsOne ==
    ASSUME Inv, IdleThreads, NEW t \in Thread, VisitTask(t)
    PROVE  (\E e \in DataType : Table!EndIn(e)) \/ UNCHANGED <<TableOfTasks, RemovalOfThreads>>
  <1> DEFINE i == Least(thread[t].left)
             c == thread[t].client
             d == tasks[i].dataType
             L == thread[t].left
             task == IF c = NoClient THEN tasks[i] ELSE RemoveEntry(tasks[i], c)
             TypesOf(ts, M) == {ts[k].dataType : k \in M} \ {NoTask.dataType}
  <1>1. /\ ListGood /\ i \in L /\ L \subseteq Index /\ c \in Client \union {NoClient}
        /\ thread \in [Thread -> ThreadType]
    <2>1. L \subseteq Index /\ L # {} /\ thread[t] \in ThreadType
      BY DEF Inv, VisitTask, StateTypes, ThreadType
    <2> QED
      BY <2>1, LeastIndex DEF Inv, StateTypes, ThreadType
  <1>2. OnlyInList(thread, t) /\ RemovalOfThreads = [client |-> c, types |-> TypesOf(tasks, L)]
    <2>1. OnlyInList(thread, t)
      BY OneThread DEF VisitTask
    <2> QED
      BY <2>1, RemovalOfOne, RemovalIsOfTheThreads
  <1> DEFINE M == thread'[t].left
  <1>3. OnlyInList(thread', t) /\ thread'[t].client = c /\ M \in {L, L \ {i}}
    BY <1>1, <1>2 DEF VisitTask, OnlyInList, ThreadType
  <1>4. RemovalOfThreads' = [client |-> c, types |-> TypesOf(tasks', M)]
    BY <1>3, RemovalOfOne, RemovalIsOfTheThreads
  <1>5. CASE i \notin Used /\ UNCHANGED tasks
    <2>1. tasks[i].dataType = NoTask.dataType
      BY <1>1, <1>5 DEF Used
    <2> HIDE DEF M, L, i
    <2>2. TypesOf(tasks, M) = TypesOf(tasks, L)
      BY <1>1, <1>3, <2>1
    <2> QED
      BY <1>2, <1>4, <1>5, <2>2, TableUnchanged
  <1>6. CASE i \in Used /\ tasks' \in {[tasks EXCEPT ![i] = new] : new \in {task, Recompute(task)}}
    <2>1. PICK new \in {task, Recompute(task)} : tasks' = [tasks EXCEPT ![i] = new]
      BY <1>6
    <2> HIDE DEF M, L, i
    <2>2. /\ i \in Index /\ GoodTask(tasks[i]) /\ d \in DataType /\ OnlyTaskOf(tasks, i, d)
          /\ TableOfTasks[d] = Entries(tasks[i])
      BY <1>1, <1>6, OneOfAType
    <2>3. GoodTask(task) /\ task.dataType = d
      BY <1>1, <2>2, RemoveEntryGood
    <2>4. Entries(task) = WithoutClient(Entries(tasks[i]), c)
      <3>1. CASE c = NoClient
        BY <3>1 DEF WithoutClient, Entries
      <3>2. CASE c # NoClient
        BY <1>1, <2>2, <3>2, EntriesRemoved
      <3> QED
        BY <3>1, <3>2
    <2> HIDE DEF task
    <2>5. new.dataType = d /\ Entries(new) = Entries(task)
      BY <2>1, <2>3, EntriesRecomputed, RecomputeGood
    <2>6. \A k \in Index : tasks'[k].dataType = tasks[k].dataType
      BY <1>1, <2>1, <2>5 DEF ListGood
    <2>7. TypesOf(tasks', M) = TypesOf(tasks, M)
      BY <1>1, <1>3, <2>6
    <2>8. d \in TypesOf(tasks, L)
      BY <1>1, <2>2, NoTaskType
    <2>9. TypesOf(tasks, L \ {i}) = TypesOf(tasks, L) \ {d}
      BY <1>1, <2>2 DEF OnlyTaskOf
    <2> HIDE DEF d
    <2>10. TableOfTasks' = [TableOfTasks EXCEPT ![d] = Entries(new)]
      <3>1. ListGood /\ i \in Index /\ d \in DataType /\ OnlyTaskOf(tasks, i, d)
        BY <1>1, <2>2
      <3>2. new.dataType = d \/ new = NoTask
        BY <2>5
      <3>3. tasks' = [tasks EXCEPT ![i] = new]
        BY <2>1
      <3> QED
        BY <3>1, <3>2, <3>3, TableStep
    <2> HIDE DEF c, TypesOf
    <2>11. Table!EndIn(d)
      <3>1. RemovalOfThreads.client = c /\ RemovalOfThreads.types = TypesOf(tasks, L)
        BY <1>2
      <3>2. TableOfTasks' = [TableOfTasks EXCEPT ![d] = Table!Others(d, RemovalOfThreads.client)]
        BY <2>2, <2>4, <2>5, <2>10, <3>1 DEF Table!Others, WithoutClient
      <3>3. RemovalOfThreads' = [RemovalOfThreads EXCEPT !.types = TypesOf(tasks, M)]
        BY <1>2, <1>4, <2>7
      <3>4. TypesOf(tasks, M) \in {RemovalOfThreads.types, RemovalOfThreads.types \ {d}}
        BY <1>3, <2>9, <3>1
      <3>5. recvBuff' = recvBuff
        BY DEF VisitTask, clients
      <3> QED
        BY <2>8, <3>1, <3>2, <3>3, <3>4, <3>5 DEF Table!EndIn
    <2> QED
      BY <2>2, <2>11
  <1> QED
    BY <1>5, <1>6 DEF VisitTask

LEMMA FiniEndsOne ==
    ASSUME Inv, IdleThreads, NEW t \in Thread, FiniTask(t)
    PROVE  \E e \in DataType : Table!EndIn(e)
  <1> DEFINE i == Least(thread[t].left)
             c == thread[t].client
             d == tasks[i].dataType
             L == thread[t].left
             TypesOf(ts, M) == {ts[k].dataType : k \in M} \ {NoTask.dataType}
  <1>1. /\ ListGood /\ i \in Used /\ tasks[i].subNum = 0 /\ thread[t].at = "join"
        /\ i \in L /\ L \subseteq Index /\ thread \in [Thread -> ThreadType]
        /\ tasks' = [tasks EXCEPT ![i] = NoTask] /\ recvBuff' = recvBuff
    <2>1. /\ ListGood /\ i \in Used /\ tasks[i].subNum = 0 /\ thread[t].at = "join"
          /\ L # {} /\ thread \in [Thread -> ThreadType]
          /\ tasks' = [tasks EXCEPT ![i] = NoTask] /\ recvBuff' = recvBuff
      BY DEF Inv, FiniTask, EndingGood, StateTypes, clients
    <2>2. L \subseteq Index
      BY <2>1 DEF ThreadType
    <2> QED
      BY <2>1, <2>2, LeastIndex
  <1>2. OnlyInList(thread, t) /\ RemovalOfThreads = [client |-> c, types |-> TypesOf(tasks, L)]
    <2>1. OnlyInList(thread, t)
      BY <1>1, OneThread
    <2> QED
      BY <2>1, RemovalOfOne, RemovalIsOfTheThreads
  <1>3. OnlyInList(thread', t) /\ thread'[t].client = c /\ thread'[t].left = L \ {i}
    BY <1>1, <1>2 DEF FiniTask, OnlyInList, ThreadType
  <1>4. RemovalOfThreads' = [client |-> c, types |-> TypesOf(tasks', L \ {i})]
    BY <1>3, RemovalOfOne, RemovalIsOfTheThreads
  <1> HIDE DEF L, i
  <1>5. /\ i \in Index /\ GoodTask(tasks[i]) /\ d \in DataType /\ OnlyTaskOf(tasks, i, d)
        /\ TableOfTasks[d] = Entries(tasks[i])
    BY <1>1, OneOfAType
  <1>6. Entries(tasks[i]) = {} /\ Entries(NoTask) = {}
    BY <1>1, <1>5, EntriesCounted, EntriesOfNoTask
  <1>7. TypesOf(tasks', L \ {i}) = TypesOf(tasks, L) \ {d}
    <2>1. \A k \in L \ {i} : tasks'[k] = tasks[k] /\ tasks[k].dataType # d
      BY <1>1, <1>5 DEF ListGood, OnlyTaskOf
    <2> QED
      BY <1>1, <2>1
  <1>8. d \in TypesOf(tasks, L)
    BY <1>1, <1>5, NoTaskType
  <1> HIDE DEF d
  <1>9. TableOfTasks' = [TableOfTasks EXCEPT ![d] = {}]
    BY <1>1, <1>5, <1>6, TableStep
  <1> HIDE DEF c, TypesOf
  <1>10. Table!EndIn(d)
    <2>1. RemovalOfThreads.client = c /\ RemovalOfThreads.types = TypesOf(tasks, L)
      BY <1>2
    <2>2. Table!Others(d, RemovalOfThreads.client) = {}
      BY <1>5, <1>6 DEF Table!Others
    <2>3. RemovalOfThreads' = [RemovalOfThreads EXCEPT !.types = RemovalOfThreads.types \ {d}]
      BY <1>2, <1>4, <1>7
    <2> QED
      BY <1>1, <1>8, <1>9, <2>1, <2>2, <2>3 DEF Table!EndIn
  <1> QED
    BY <1>5, <1>10

LEMMA UnlockFinishes ==
    ASSUME Inv, IdleThreads, NEW t \in Thread, UnlockTaskList(t)
    PROVE  Table!Finish
  <1>1. /\ thread[t].at = "visit" /\ thread[t].left = {} /\ thread' = [thread EXCEPT ![t] = Idle]
        /\ tasks' = tasks /\ recvBuff' = recvBuff
    BY DEF UnlockTaskList
  <1>2. OnlyInList(thread, t)
    BY <1>1, OneThread
  <1>3. RemovalOfThreads.types = {}
    BY <1>1, <1>2, RemovalOfOne, RemovalIsOfTheThreads
  <1>4. \A u \in Thread : thread'[u] = Idle
    BY <1>1, <1>2 DEF OnlyInList, Inv, StateTypes
  <1>5. RemovalOfThreads' = Table!Nobody
    BY <1>4, NoRemoval, RemovalIsOfTheThreads
  <1> QED
    BY <1>1, <1>3, <1>5, TableUnchanged DEF Table!Finish

LEMMA SendAsks ==
    ASSUME NEW c \in Client, SendRequest(c)
    PROVE  Table!Ask
  <1>1. PICK d \in DataType, op \in {"create", "delete"}, v \in Interval \union {0} :
            recvBuff' = Append(recvBuff, [op |-> op, client |-> c, type |-> d, interval |-> v])
    BY DEF SendRequest
  <1>2. [op |-> op, client |-> c, type |-> d, interval |-> v] \in Table!Request
    BY DEF Table!Request
  <1>3. UNCHANGED <<TableOfTasks, RemovalOfThreads>>
    BY DEF SendRequest, TableOfTasks, RemovalOfThreads
  <1> QED
    BY <1>1, <1>2, <1>3 DEF Table!Ask

LEMMA StepOfTheTable ==
    Inv /\ IdleThreads /\ Table!HasRoom' /\ [Next]_vars => [Table!Next]_Table!vars
  <1> SUFFICES ASSUME Inv, IdleThreads, Table!HasRoom', [Next]_vars
               PROVE  Table!Next \/ UNCHANGED Table!vars
    OBVIOUS
  <1>1. ASSUME UNCHANGED <<recvBuff, tasks, thread>> PROVE UNCHANGED Table!vars
    BY <1>1 DEF Table!vars, TableOfTasks, RemovalOfThreads
  <1>2. ASSUME NEW c \in Client, Connect(c) \/ Leave(c)
        PROVE  UNCHANGED <<recvBuff, tasks, thread>>
    BY <1>2 DEF Connect, Leave
  <1>3. ASSUME NEW i \in Index, CollectorStep(i)
        PROVE  UNCHANGED <<recvBuff, tasks, thread>>
    BY <1>3 DEF CollectorStep, CollectorLoop, SendMetadataToSubscribers, clients
  <1>4. UNCHANGED vars => UNCHANGED <<recvBuff, tasks, thread>>
    BY DEF vars
  <1>5. ASSUME NEW t \in Thread, ListStep(t) PROVE Table!Next \/ UNCHANGED Table!vars
    <2>1. CASE VisitTask(t)
      <3>1. recvBuff' = recvBuff
        BY <2>1 DEF VisitTask, clients
      <3> QED
        BY <2>1, <3>1, VisitEndsOne DEF Table!Next, Table!vars
    <2>2. CASE FiniTask(t)
      BY <2>2, FiniEndsOne DEF Table!Next
    <2>3. CASE UnlockTaskList(t)
      BY <2>3, UnlockFinishes DEF Table!Next
    <2> QED
      BY <1>5, <2>1, <2>2, <2>3 DEF ListStep
  <1>6. ASSUME NEW c \in Client, SendRequest(c) PROVE Table!Next
    BY <1>6, SendAsks DEF Table!Next
  <1>7. CreateTask => Table!Next
    BY CreateSubscribes DEF Table!Next
  <1>8. DeleteTask => Table!Next
    BY DeleteBegins DEF Table!Next
  <1>9. ASSUME NEW n \in Slot, CleanClientResource(n) PROVE Table!Next
    BY <1>9, CleanBegins DEF Table!Next
  <1> QED
    BY <1>1, <1>2, <1>3, <1>4, <1>5, <1>6, <1>7, <1>8, <1>9 DEF Next

LEMMA InitialTable == Init => Table!Init
  <1> SUFFICES ASSUME Init PROVE Table!Init
    OBVIOUS
  <1>1. \A i \in Index : tasks[i] = NoTask
    BY DEF Init
  <1>2. TableOfTasks = [d \in DataType |-> {}]
    BY <1>1, NoTaskType DEF TableOfTasks
  <1>3. \A t \in Thread : thread[t] = Idle
    BY DEF Init
  <1>4. RemovalOfThreads = Table!Nobody
    BY <1>3, NoRemoval, RemovalIsOfTheThreads
  <1> QED
    BY <1>2, <1>4 DEF Table!Init, Init

\* The list of tasks with its counters, its mutex and its two threads implements the table of
\* subscriptions (taskservice.c), for any number of clients, types, tasks and subscribers: who
\* subscribes gets what it asked for unless the type is full or nobody has it yet, a deletion
\* or clean-up is complete before anything else is served, no step changes a subscription of
\* anybody else, and the end of a task (FiniTask) takes no subscription with it.
THEOREM ListIsATable == Spec => ImplementsSubscriptions
  <1>1. Spec => []Inv
    BY SpecInv
  <1>2. Spec => []IdleThreads
    BY <1>1, InitIdle, IdleThreadsStay, PTL DEF Spec
  <1>3. Spec => Table!Init
    BY InitialTable DEF Spec
  <1> QED
    BY <1>1, <1>2, <1>3, RoomInTheTable, StepOfTheTable, PTL
    DEF Spec, ImplementsSubscriptions, Table!Spec

(***************************************************************************)
(* Part 2: the daemon.  While main has not taken the task service down,    *)
(* the invariant Inv of part 1 holds of the list; while it takes it down,  *)
(* main holds the mutex and every task is one it has still to visit; and   *)
(* after that the list stays empty, unless a late task is created, until   *)
(* both server threads have been joined.  InitTaskService leaves           *)
(* collectors without a task only if there was a task before it.           *)
(***************************************************************************)

(***************************************************************************)
(* The inductive invariant.                                                *)
(***************************************************************************)
Before == {"base", "service", "socket", "init", "signals", "enter", "loop", "fini"}
During == {"visit", "join"}

\* A thread that does not run is not in the list, and main stops the threads one by one.
ThreadsGood ==
    /\ proc \in [Server -> {"none", "runs"}]
    /\ \A t \in Server : proc[t] = "none" => thread[t].at = "idle"
    /\ main \in {"stop service", "join service", "clear"} => proc["socket"] = "none"
    /\ main = "clear" => proc["service"] = "none"

\* FiniAllTask has still to visit every task there is.
Taking ==
    /\ holder = "main"
    /\ left \subseteq Index /\ Used \subseteq left
    /\ main = "join" => Least(left) \in Used

Emptied ==
    /\ Used = {} /\ taskNum = 0
    /\ \A i \in Index : coll[i].at = "none"
    /\ \A t \in Thread : thread[t].at # "join"

Whole ==
    /\ StateTypes /\ ThreadsGood
    /\ main \in Before \union During => Inv
    /\ main \in During => Taking
    /\ main \in Finished => Emptied

\* A collector loses its task only if the task was created before InitTaskService.
StrayGood ==
    ~early =>
        /\ stray = {}
        /\ main \in Starting => Used = {}

DaemonInv == ~late /\ ~broken => Whole /\ StrayGood

LEMMA Places ==
    /\ Before \cap During = {} /\ Before \cap Finished = {} /\ During \cap Finished = {}
    /\ "exited" \notin Before \union During \union Finished
  BY DEF Before, During, Finished

(***************************************************************************)
(* Steps of main.                                                          *)
(***************************************************************************)
LEMMA InvStays == Inv /\ UNCHANGED vars => Inv'
  BY NextInv

LEMMA TypesStay == StateTypes /\ UNCHANGED vars => StateTypes'
  BY DEF StateTypes, vars, lock

\* Nothing but main and its flags changes.
LEMMA MainMoves ==
    ASSUME Whole, UNCHANGED vars, ThreadsGood',
           \/ main' = main /\ UNCHANGED left
           \/ main \in Before /\ main' \in Before
           \/ main \in Finished /\ main' \in Finished
    PROVE  Whole'
  <1>1. UNCHANGED <<tasks, taskNum, thread, coll, holder>> /\ Used' = Used
    BY DEF vars, lock, Used
  <1>2. StateTypes' /\ (Inv => Inv')
    BY InvStays, TypesStay DEF Whole
  <1>3. main' \in Before \union During => Inv'
    BY <1>2, Places DEF Whole
  <1>4. main' \in During => Taking'
    BY <1>1, Places DEF Whole, Taking
  <1>5. main' \in Finished => Emptied'
    BY <1>1, Places DEF Whole, Emptied
  <1> QED
    BY <1>2, <1>3, <1>4, <1>5 DEF Whole

LEMMA ExitWhole ==
    ASSUME Whole, Exit
    PROVE  Whole'
  <1>1. main' = "exited" /\ proc' = [t \in Server |-> "none"]
    BY DEF Exit, Go
  <1>2. thread' \in [Thread -> ThreadType] /\ \A t \in Thread : thread'[t].at = "idle"
    BY IdleType DEF Exit, Idle
  <1>3. StateTypes'
    BY <1>2 DEF Whole, Exit, StateTypes, NoThread, clients
  <1>4. ThreadsGood'
    BY <1>1, <1>2 DEF ThreadsGood, Server, Thread
  <1> QED
    BY <1>1, <1>3, <1>4, Places DEF Whole

LEMMA StartWhole ==
    ASSUME Whole, StartUnxListen \/ (\E t \in Server : CreateServerThread(t))
    PROVE  Whole'
  <1>1. CASE Exit
    BY <1>1, ExitWhole
  <1>2. CASE /\ main = "base" /\ main' = "service"
             /\ UNCHANGED <<vars, proc, keep, keepMain, left>>
    <2>1. ThreadsGood'
      BY <1>2 DEF Whole, ThreadsGood, vars
    <2> QED
      BY <1>2, <2>1, MainMoves DEF Before
  <1>3. ASSUME NEW t \in Server, main = t, proc' = [proc EXCEPT ![t] = "runs"],
               main' = IF t = "service" THEN "socket" ELSE "init",
               UNCHANGED <<vars, keepMain, left>>
        PROVE  Whole'
    <2>1. main \in Before /\ main' \in Before
      BY <1>3 DEF Before, Server
    <2>2. ThreadsGood'
      BY <1>3 DEF Whole, ThreadsGood, vars, Server
    <2> QED
      BY <1>3, <2>1, <2>2, MainMoves
  <1> QED
    BY <1>1, <1>2, <1>3 DEF StartUnxListen, CreateServerThread, Go

\* Nobody is in the list that InitTaskService clears: it is as at the very start.
LEMMA InitWhole ==
    ASSUME Whole, InitTaskService, ~broken'
    PROVE  Whole'
  <1>1. main = "init" /\ main' = "signals" /\ Inv /\ holder = Nobody
    BY DEF InitTaskService, Go, Whole, Before
  <1>2. /\ tasks' = [i \in Index |-> NoTask] /\ taskNum' = 0
        /\ coll' = [i \in Index |-> NoThread] /\ holder' = Nobody
        /\ UNCHANGED <<online, slot, recvBuff, mutex, thread, proc>>
    BY DEF InitTaskService, clients
  <1>3. \A t \in Thread : thread'[t].at = "idle"
    <2>1. Nobody \notin Thread
      BY DEF Nobody, Thread
    <2> QED
      BY <1>1, <1>2, <2>1 DEF Inv, OneInList
  <1>4. Used' = {}
    BY <1>2 DEF Used
  <1>5. ListGood'
    <2>1. NoTask \in TaskType /\ GoodTask(NoTask)
      BY EmptyTask DEF GoodTask
    <2>2. tasks' \in [Index -> TaskType] /\ \A i \in Index : tasks'[i] = NoTask /\ GoodTask(tasks'[i])
      BY <1>2, <2>1
    <2> QED
      BY <1>2, <1>4, <2>2, FS_EmptySet DEF ListGood
  <1>6. OneInList' /\ EndingGood'
    BY <1>3, <1>4 DEF OneInList, EndingGood
  <1>7. StateTypes'
    BY <1>1, <1>2 DEF Inv, StateTypes, NoThread
  <1>8. CollectorHasTask' /\ MutexThere'
    BY <1>1, <1>2 DEF CollectorHasTask, NoThread, Inv, MutexThere
  <1>9. ThreadsGood'
    BY <1>1, <1>2 DEF Whole, ThreadsGood
  <1> QED
    BY <1>1, <1>5, <1>6, <1>7, <1>8, <1>9, Places DEF Whole, Inv, Before

LEMMA LoopWhole ==
    ASSUME Whole, SetupSignal \/ EnterLoop \/ LeaveLoop \/ SignalHandler
    PROVE  Whole'
  <1>1. CASE Exit
    BY <1>1, ExitWhole
  <1>2. CASE main \in Before /\ main' \in Before /\ UNCHANGED <<vars, proc>>
    <2>1. ThreadsGood'
      BY <1>2 DEF Whole, ThreadsGood, vars, Before
    <2> QED
      BY <1>2, <2>1, MainMoves
  <1>3. CASE UNCHANGED <<vars, main, proc, left>>
    <2>1. ThreadsGood'
      BY <1>3 DEF Whole, ThreadsGood, vars
    <2> QED
      BY <1>3, <2>1, MainMoves
  <1> QED
    BY <1>1, <1>2, <1>3 DEF SetupSignal, EnterLoop, LeaveLoop, SignalHandler, Go, Before

LEMMA FiniServiceWhole ==
    ASSUME Whole, FiniTaskService
    PROVE  Whole'
  <1>1. main = "fini" /\ main' = "visit" /\ left' = Index /\ Inv
    BY DEF FiniTaskService, Go, Whole, Before
  <1>2. /\ UNCHANGED <<online, slot, recvBuff, tasks, taskNum, thread, coll, proc>>
        /\ mutex' = mutex
    BY DEF FiniTaskService, clients
  <1>3. holder' = "main" /\ CanLock
    BY <1>1 DEF FiniTaskService, Lock, Inv, MutexThere
  <1>4. /\ \A t \in Thread : thread[t].at = "idle"
        /\ \A i \in Used : tasks[i].subNum # 0
    BY <1>1, <1>3, NobodyIn DEF Inv
  <1>5. ListGood' /\ Used' = Used
    BY <1>1, <1>2, ListUnchanged DEF Inv
  <1>6. StateTypes' /\ OneInList' /\ EndingGood' /\ CollectorHasTask' /\ MutexThere'
    BY <1>1, <1>2, <1>4, <1>5
    DEF Inv, StateTypes, OneInList, EndingGood, CollectorHasTask, MutexThere
  <1>7. Taking'
    BY <1>1, <1>3, <1>5, UsedFacts DEF Taking, Inv
  <1>8. ThreadsGood'
    BY <1>1, <1>2 DEF Whole, ThreadsGood
  <1> QED
    BY <1>1, <1>5, <1>6, <1>7, <1>8, Places DEF Whole, Inv, During

\* While main is in the list nobody else is.
LEMMA MainAlone ==
    ASSUME Inv, Taking
    PROVE  /\ \A t \in Thread : thread[t].at = "idle"
           /\ \A i \in Used : tasks[i].subNum # 0
           /\ ~CanLock
  <1>1. \A t \in Thread : thread[t].at = "idle"
    BY DEF Inv, Taking, OneInList, Thread
  <1>2. ~CanLock
    BY DEF Inv, Taking, CanLock, MutexThere, Nobody
  <1> QED
    BY <1>1, <1>2 DEF Inv, EndingGood, EndsAt

LEMMA VisitAllWhole ==
    ASSUME Whole, VisitAll
    PROVE  Whole'
  <1> DEFINE i == Least(left)
  <1>1. main = "visit" /\ left # {} /\ Inv /\ Taking
    BY DEF VisitAll, Whole, During
  <1>2. UNCHANGED <<online, slot, recvBuff, tasks, taskNum, holder, mutex, thread, proc>>
    BY DEF VisitAll, clients, lock
  <1>3. i \in Index /\ i \in left
    BY <1>1, LeastIndex DEF Taking
  <1>4. ListGood' /\ Used' = Used
    BY <1>1, <1>2, ListUnchanged DEF Inv
  <1>5. /\ coll' \in [Index -> [at : {"none", "top", "send"}, keepRunning : BOOLEAN]]
        /\ \A k \in Index : coll'[k].at = coll[k].at
    <2>1. CASE coll' = [coll EXCEPT ![i].keepRunning = FALSE]
      BY <1>1, <1>3, <2>1 DEF Inv, StateTypes
    <2>2. CASE coll' = coll
      BY <1>1, <2>2 DEF Inv, StateTypes
    <2> QED
      BY <2>1, <2>2 DEF VisitAll
  <1>6. /\ main' \in During
        /\ left' \subseteq Index /\ Used \subseteq left'
        /\ main' = "join" => Least(left') \in Used
    <2>1. CASE i \in Used /\ main' = "join" /\ left' = left
      BY <1>1, <2>1 DEF Taking, During
    <2>2. CASE i \notin Used /\ left' = left \ {i} /\ main' = main
      BY <1>1, <2>2 DEF Taking, During
    <2> QED
      BY <2>1, <2>2 DEF VisitAll, Go
  <1>7. StateTypes' /\ OneInList' /\ EndingGood' /\ CollectorHasTask' /\ MutexThere'
    <2>1. OneInList' /\ EndingGood' /\ MutexThere'
      BY <1>1, <1>2, <1>4 DEF Inv, OneInList, EndingGood, EndsAt, MutexThere
    <2> QED
      BY <1>1, <1>2, <1>4, <1>5, <2>1 DEF Inv, StateTypes, CollectorHasTask
  <1>8. Taking'
    BY <1>1, <1>2, <1>4, <1>6 DEF Taking
  <1>9. ThreadsGood'
    BY <1>2, <1>6 DEF Whole, ThreadsGood, During
  <1> QED
    BY <1>4, <1>6, <1>7, <1>8, <1>9, Places DEF Whole, Inv

LEMMA FiniEachWhole ==
    ASSUME Whole, FiniEach
    PROVE  Whole'
  <1> DEFINE i == Least(left)
  <1>1. main = "join" /\ main' = "visit" /\ Inv /\ Taking
    BY DEF FiniEach, Go, Whole, During
  <1>2. /\ i \in Used /\ coll[i].at = "none" /\ left' = left \ {i}
        /\ tasks' = [tasks EXCEPT ![i] = NoTask] /\ taskNum' = taskNum - 1
        /\ UNCHANGED <<online, slot, recvBuff, holder, mutex, thread, coll, proc>>
    BY <1>1 DEF FiniEach, Taking, clients, lock
  <1> HIDE DEF i
  <1>3. ListGood' /\ Used' = Used \ {i} /\ \A k \in Index \ {i} : tasks'[k] = tasks[k]
    BY <1>1, <1>2, FreeTask DEF Inv
  <1>4. \A t \in Thread : thread'[t].at = "idle"
    BY <1>1, <1>2, MainAlone
  <1>5. \A k \in Used' : tasks'[k].subNum # 0
    BY <1>1, <1>3, MainAlone, UsedFacts DEF Inv
  <1>6. OneInList' /\ EndingGood'
    BY <1>4, <1>5 DEF OneInList, EndingGood
  <1>7. StateTypes' /\ CollectorHasTask' /\ MutexThere'
    BY <1>1, <1>2, <1>3 DEF Inv, StateTypes, CollectorHasTask, MutexThere
  <1>8. Taking'
    BY <1>1, <1>2, <1>3 DEF Taking
  <1>9. ThreadsGood'
    BY <1>1, <1>2 DEF Whole, ThreadsGood
  <1> QED
    BY <1>1, <1>3, <1>6, <1>7, <1>8, <1>9, Places DEF Whole, Inv, During

\* When main releases the mutex the list is empty and every collector has ended.
LEMMA UnlockAllWhole ==
    ASSUME Whole, UnlockAll
    PROVE  Whole'
  <1>1. main = "visit" /\ main' = "destroy" /\ left = {} /\ Inv /\ Taking
    BY DEF UnlockAll, Go, Whole, During
  <1>2. UNCHANGED <<online, slot, recvBuff, tasks, thread, coll, proc>>
    BY DEF UnlockAll, clients
  <1>3. Used = {} /\ Used' = Used
    BY <1>1, <1>2 DEF Taking, Used
  <1>7. taskNum' = 0
    BY <1>1, <1>3, FS_EmptySet DEF UnlockAll, Inv, ListGood
  <1>4. Emptied'
    BY <1>1, <1>2, <1>3, <1>7, MainAlone DEF Emptied, Inv, CollectorHasTask
  <1>5. StateTypes' /\ ThreadsGood'
    BY <1>1, <1>2 DEF Whole, StateTypes, ThreadsGood
  <1>6. main' \in Finished
    BY <1>1 DEF Finished
  <1> QED
    BY <1>4, <1>5, <1>6, Places DEF Whole

LEMMA DestroyWhole ==
    ASSUME Whole, DestroyMutex
    PROVE  Whole'
  <1>1. main = "destroy" /\ main' = "stop socket"
    BY DEF DestroyMutex, Go
  <1>2. UNCHANGED <<online, slot, recvBuff, tasks, thread, coll, proc>> /\ Used' = Used
    BY DEF DestroyMutex, clients, Used
  <1>3. main \in Finished /\ main' \in Finished
    BY <1>1 DEF Finished
  <1>4. Emptied'
    BY <1>2, <1>3 DEF Whole, Emptied, DestroyMutex
  <1>5. StateTypes' /\ ThreadsGood'
    BY <1>1, <1>2 DEF Whole, StateTypes, ThreadsGood
  <1> QED
    BY <1>3, <1>4, <1>5, Places DEF Whole

LEMMA StopWhole ==
    ASSUME Whole, StopServer
    PROVE  Whole'
  <1>1. main \in Finished /\ main' \in Finished /\ UNCHANGED <<vars, proc, left>>
    BY DEF StopServer, StopThread, JoinThread, Go, Finished
  <1>2. ThreadsGood'
    BY DEF Whole, ThreadsGood, StopServer, StopThread, JoinThread, Go, vars
  <1> QED
    BY <1>1, <1>2, MainMoves

(***************************************************************************)
(* Steps of the other threads.                                             *)
(***************************************************************************)
\* What every such step leaves alone, and what it shows of the thread that takes it.
LEMMA OthersWhole ==
    ASSUME Whole, StateTypes', UNCHANGED <<main, left>>, ThreadsGood',
           [Next]_vars,
           main \in During => Used' = Used /\ holder' = holder,
           main \in Finished => Emptied'
    PROVE  Whole'
  <1>1. main' \in Before \union During => Inv'
    BY NextInv DEF Whole
  <1>2. main' \in During => Taking'
    BY DEF Whole, Taking
  <1> QED
    BY <1>1, <1>2 DEF Whole

LEMMA EndThreadWhole ==
    ASSUME Whole, NEW t \in Server, EndThread(t)
    PROVE  Whole'
  <1>1. /\ proc' = [proc EXCEPT ![t] = "none"] /\ thread[t].at = "idle"
        /\ UNCHANGED <<vars, main, left>>
    BY DEF EndThread
  <1>2. ThreadsGood'
    <2>1. proc \in [Server -> {"none", "runs"}] /\ thread' = thread
      BY <1>1 DEF Whole, ThreadsGood, vars
    <2>2. /\ proc' \in [Server -> {"none", "runs"}] /\ proc'[t] = "none"
          /\ \A u \in Server \ {t} : proc'[u] = proc[u]
      BY <1>1, <2>1
    <2>3. \A u \in Server : proc'[u] = "none" => thread'[u].at = "idle"
      BY <1>1, <2>1, <2>2 DEF Whole, ThreadsGood
    <2>4. \A u \in Server : proc[u] = "none" => proc'[u] = "none"
      BY <2>2
    <2> QED
      BY <1>1, <2>2, <2>3, <2>4 DEF Whole, ThreadsGood, Server
  <1> QED
    BY <1>1, <1>2, MainMoves

\* Only a thread that runs can enter the list or go on in it.
LEMMA ThreadsStay ==
    ASSUME Whole, NEW t \in Server, Runs(t), UNCHANGED <<main, proc>>,
           \A u \in Thread \ {t} : thread'[u] = thread[u]
    PROVE  ThreadsGood'
  BY DEF Whole, ThreadsGood, Runs, Server, Thread

LEMMA ClientStepWhole ==
    ASSUME Whole, NEW c \in Client, Connect(c) \/ Leave(c) \/ SendRequest(c),
           UNCHANGED <<main, proc, left>>
    PROVE  Whole'
  <1>1. UNCHANGED <<tasks, taskNum, holder, thread, coll>> /\ Used' = Used
    BY DEF Connect, Leave, SendRequest, lock, Used
  <1>2. StateTypes'
    BY ClientTypes DEF Whole
  <1>3. ThreadsGood'
    BY <1>1 DEF Whole, ThreadsGood
  <1>4. main \in Finished => Emptied'
    BY <1>1 DEF Whole, Emptied
  <1>5. [Next]_vars
    BY DEF Next
  <1> QED
    BY <1>1, <1>2, <1>3, <1>4, <1>5, OthersWhole

\* CreateDataCollTask after FiniTaskService is the late task; before it, the list is as in
\* part 1, and during it the mutex is main's.
LEMMA CreateWhole ==
    ASSUME Whole, CreateTask, ~(taskNum' > taskNum /\ main \in Finished), Runs("service"),
           UNCHANGED <<main, proc, left>>
    PROVE  Whole'
  <1>1. StateTypes'
    <2>1. Head(recvBuff) \in Request /\ recvBuff' \in Seq(Request)
      BY FirstRequest DEF CreateTask, Whole
    <2>2. UNCHANGED <<online, slot, thread>>
      BY DEF CreateTask
    <2>3. coll' \in [Index -> [at : {"none", "top", "send"}, keepRunning : BOOLEAN]]
      <3>1. CASE UNCHANGED coll
        BY <3>1 DEF Whole, StateTypes
      <3>2. CASE coll' = [coll EXCEPT ![Least(Index \ Used)] = [at |-> "top", keepRunning |-> TRUE]]
        BY <3>2 DEF Whole, StateTypes
      <3> QED
        BY <3>1, <3>2 DEF CreateTask
    <2> QED
      BY <2>1, <2>2, <2>3 DEF Whole, StateTypes
  <1>2. main \notin During
    BY MainAlone DEF Whole, CreateTask
  <1>3. thread' = thread
    BY DEF CreateTask
  <1>4. ThreadsGood'
    BY <1>3 DEF Whole, ThreadsGood
  <1>5. [Next]_vars
    BY DEF Next
  <1>6. ASSUME main \in Finished PROVE Emptied'
    <2>1. Emptied /\ ~(taskNum' > taskNum)
      BY <1>6 DEF Whole
    <2>2. OfType(Head(recvBuff).type) = {}
      BY <2>1 DEF OfType, Emptied
    <2>3. UNCHANGED <<tasks, taskNum, coll>>
      BY <2>1, <2>2 DEF CreateTask, Emptied
    <2> QED
      BY <1>3, <2>1, <2>3 DEF Emptied, Used
  <1> QED
    BY <1>1, <1>2, <1>4, <1>5, <1>6, OthersWhole

\* A thread that enters the list, for a deletion or a clean-up.
LEMMA EnterWhole ==
    ASSUME Whole, NEW t \in Server, Enters(t), Runs(t), UNCHANGED <<main, proc, left>>, Next
    PROVE  Whole'
  <1>1. t \in Thread
    BY DEF Server, Thread
  <1>2. StateTypes' /\ thread'[t].at = "visit" /\ \A u \in Thread \ {t} : thread'[u] = thread[u]
    BY <1>1, EntersTypes DEF Whole
  <1>3. main \notin During
    BY MainAlone DEF Whole, Enters, Lock
  <1>4. ThreadsGood'
    BY <1>2, ThreadsStay
  <1>5. UNCHANGED <<tasks, taskNum, coll>> /\ Used' = Used
    BY DEF Enters, Used
  <1>6. main \in Finished => Emptied'
    BY <1>2, <1>5 DEF Whole, Emptied
  <1> QED
    BY <1>2, <1>3, <1>4, <1>6, OthersWhole

LEMMA VisitTypes ==
    ASSUME StateTypes, NEW t \in Thread, ListStep(t)
    PROVE  StateTypes' /\ \A u \in Thread \ {t} : thread'[u] = thread[u]
  <1> DEFINE i == Least(thread[t].left)
  <1>1. thread[t] \in ThreadType
    BY DEF StateTypes
  <1>2. CASE VisitTask(t)
    <2>1. UNCHANGED <<online, slot, recvBuff>>
      BY <1>2 DEF VisitTask, clients
    <2>2. \/ thread' = [thread EXCEPT ![t].left = @ \ {i}]
          \/ thread' = [thread EXCEPT ![t].at = "join"]
      BY <1>2 DEF VisitTask
    <2>3. coll' = coll \/ coll' = [coll EXCEPT ![i].keepRunning = FALSE]
      BY <1>2 DEF VisitTask
    <2> HIDE DEF i
    <2>4. coll' \in [Index -> [at : {"none", "top", "send"}, keepRunning : BOOLEAN]]
      BY <2>3 DEF StateTypes
    <2>5. thread' \in [Thread -> ThreadType]
      <3>1. CASE thread' = [thread EXCEPT ![t].left = @ \ {i}]
        <4>1. [thread[t] EXCEPT !.left = @ \ {i}] \in ThreadType
          BY <1>1 DEF ThreadType
        <4> QED
          BY <3>1, <4>1 DEF StateTypes
      <3>2. CASE thread' = [thread EXCEPT ![t].at = "join"]
        <4>1. [thread[t] EXCEPT !.at = "join"] \in ThreadType
          BY <1>1 DEF ThreadType
        <4> QED
          BY <3>2, <4>1 DEF StateTypes
      <3> QED
        BY <2>2, <3>1, <3>2
    <2>6. \A u \in Thread \ {t} : thread'[u] = thread[u]
      BY <2>2 DEF StateTypes
    <2> QED
      BY <2>1, <2>4, <2>5, <2>6 DEF StateTypes
  <1>3. CASE FiniTask(t)
    <2>1. UNCHANGED <<online, slot, recvBuff, coll>>
      BY <1>3 DEF FiniTask, clients
    <2>2. thread' = [thread EXCEPT ![t].at = "visit", ![t].left = @ \ {i}]
      BY <1>3 DEF FiniTask
    <2> HIDE DEF i
    <2>3. /\ thread' \in [Thread -> ThreadType]
          /\ \A u \in Thread \ {t} : thread'[u] = thread[u]
      BY <1>1, <2>2 DEF StateTypes, ThreadType
    <2> QED
      BY <2>1, <2>3 DEF StateTypes
  <1>4. CASE UnlockTaskList(t)
    <2>1. UNCHANGED <<online, recvBuff, coll>> /\ thread' = [thread EXCEPT ![t] = Idle]
      BY <1>4 DEF UnlockTaskList
    <2>2. slot' \in [Slot -> Client \union {NoClient}]
      BY <1>4 DEF UnlockTaskList, StateTypes
    <2>3. /\ thread' \in [Thread -> ThreadType]
          /\ \A u \in Thread \ {t} : thread'[u] = thread[u]
      BY <2>1, IdleType DEF StateTypes
    <2> QED
      BY <2>1, <2>2, <2>3 DEF StateTypes
  <1> QED
    BY <1>2, <1>3, <1>4 DEF ListStep

\* In an empty list a thread only passes over entries and unlocks.
LEMMA EmptiedStays ==
    ASSUME Emptied, StateTypes, NEW t \in Thread, ListStep(t)
    PROVE  Emptied'
  <1>1. UNCHANGED <<tasks, taskNum, coll>> /\ thread'[t].at \in {"visit", "idle"}
    BY DEF Emptied, ListStep, VisitTask, FiniTask, UnlockTaskList, StateTypes, ThreadType, Idle
  <1>2. \A u \in Thread : thread'[u].at # "join"
    BY <1>1, VisitTypes DEF Emptied
  <1> QED
    BY <1>1, <1>2 DEF Emptied, Used

LEMMA DeletionWhole ==
    ASSUME Whole, NEW t \in Server, DeletionStep(t)
    PROVE  Whole'
  <1>1. t \in Thread /\ Runs(t) /\ ListStep(t) /\ UNCHANGED <<main, proc, left>>
    BY DEF DeletionStep, mainVars, Server, Thread
  <1>2. StateTypes' /\ ThreadsGood'
    BY <1>1, VisitTypes, ThreadsStay DEF Whole
  <1>3. thread[t].at # "idle"
    BY <1>1 DEF ListStep, VisitTask, FiniTask, UnlockTaskList
  <1>4. main \notin During
    BY <1>1, <1>3, MainAlone DEF Whole
  <1>5. main \in Finished => Emptied'
    BY <1>1, EmptiedStays DEF Whole
  <1> QED
    BY <1>1, <1>2, <1>4, <1>5, OthersWhole DEF Next

LEMMA CollectWhole ==
    ASSUME Whole, NEW i \in Index, CollectStep(i)
    PROVE  Whole'
  <1>1. /\ CollectorStep(i) /\ UNCHANGED <<main, proc, left>>
        /\ UNCHANGED <<online, slot, recvBuff, tasks, holder, thread>> /\ Used' = Used
    BY DEF CollectStep, CollectorStep, CollectorLoop, SendMetadataToSubscribers, mainVars,
           clients, lock, Used
  <1>2. coll' \in [Index -> [at : {"none", "top", "send"}, keepRunning : BOOLEAN]]
    BY <1>1 DEF CollectorStep, CollectorLoop, SendMetadataToSubscribers, Whole, StateTypes
  <1>3. StateTypes' /\ ThreadsGood'
    BY <1>1, <1>2 DEF Whole, StateTypes, ThreadsGood
  <1>4. main \notin Finished
    BY <1>1 DEF Whole, Emptied, CollectorStep, CollectorLoop, SendMetadataToSubscribers
  <1> QED
    BY <1>1, <1>3, <1>4, OthersWhole DEF Next

LEMMA ServiceWhole ==
    ASSUME Whole, ServiceStep, ~late'
    PROVE  Whole'
  <1>1. Runs("service") /\ UNCHANGED <<main, proc, left>> /\ "service" \in Server
    BY DEF ServiceStep, Server
  <1>2. CASE CreateTask
    BY <1>1, <1>2, CreateWhole DEF ServiceStep
  <1>3. CASE DeleteTask
    BY <1>1, <1>3, DeleteTaskEnters, EnterWhole DEF Whole, Next
  <1> QED
    BY <1>2, <1>3 DEF ServiceStep

LEMMA SocketWhole ==
    ASSUME Whole, SocketStep
    PROVE  Whole'
  <1>1. Runs("socket") /\ UNCHANGED <<main, proc, left>> /\ "socket" \in Server
    BY DEF SocketStep, Server
  <1>2. ASSUME NEW c \in Client, Connect(c) \/ SendRequest(c) PROVE Whole'
    BY <1>1, <1>2, ClientStepWhole
  <1>3. ASSUME NEW i \in Slot, CleanClientResource(i) PROVE Whole'
    BY <1>1, <1>3, CleanEnters, EnterWhole DEF Whole, Next
  <1> QED
    BY <1>2, <1>3 DEF SocketStep

(***************************************************************************)
(* The invariant.                                                          *)
(***************************************************************************)
LEMMA StepWhole ==
    ASSUME Whole, DaemonNext, ~broken', ~late'
    PROVE  Whole'
  <1>1. CASE MainStep
    BY <1>1, StartWhole, InitWhole, LoopWhole, FiniServiceWhole, VisitAllWhole, FiniEachWhole,
       UnlockAllWhole, DestroyWhole, StopWhole, ExitWhole DEF MainStep, ClearEnv
  <1>2. ASSUME NEW t \in Server, EndThread(t) \/ DeletionStep(t) PROVE Whole'
    BY <1>2, EndThreadWhole, DeletionWhole
  <1>3. ASSUME NEW c \in Client, Leave(c), UNCHANGED mainVars PROVE Whole'
    BY <1>3, ClientStepWhole DEF mainVars
  <1> QED
    BY <1>1, <1>2, <1>3, LoopWhole, ServiceWhole, SocketWhole, CollectWhole DEF DaemonNext

\* What has happened stays so.
LEMMA HistoryStays == DaemonNext => (late => late') /\ (early => early')
  <1> SUFFICES ASSUME DaemonNext PROVE (late => late') /\ (early => early')
    OBVIOUS
  <1> USE DEF history, mainVars
  <1>1. CASE ServiceStep
    <2>1. /\ early' = (early \/ (taskNum' > taskNum /\ main \in Starting))
          /\ late' = (late \/ (taskNum' > taskNum /\ main \in Finished))
      BY <1>1 DEF ServiceStep
    <2> QED
      BY <2>1, Zenon
  <1>2. CASE ~ServiceStep
    <2>1. UNCHANGED <<early, late>>
      <3>1. CASE MainStep
        <4>1. CASE Exit
          BY <4>1 DEF Exit
        <4>2. CASE InitTaskService
          BY <4>2 DEF InitTaskService
        <4> QED
          BY <3>1, <4>1, <4>2 DEF MainStep, StartUnxListen, CreateServerThread, SetupSignal,
             EnterLoop, LeaveLoop, FiniTaskService, VisitAll, FiniEach, UnlockAll, DestroyMutex,
             StopServer, StopThread, JoinThread, ClearEnv
      <3>2. CASE SignalHandler
        BY <3>2 DEF SignalHandler, Exit
      <3>3. CASE SocketStep
        BY <3>3 DEF SocketStep
      <3>4. CASE \E t \in Server : EndThread(t) \/ DeletionStep(t)
        BY <3>4 DEF EndThread, DeletionStep
      <3>5. CASE (\E i \in Index : CollectStep(i)) \/ \E c \in Client : Leave(c) /\ UNCHANGED mainVars
        BY <3>5 DEF CollectStep
      <3> QED
        BY <1>2, <3>1, <3>2, <3>3, <3>4, <3>5 DEF DaemonNext
    <2> QED
      BY <2>1
  <1> QED
    BY <1>1, <1>2

\* Main gets to another place among Starting only from one of them, and a step that is not
\* the clearing or the end leaves the stray collectors alone.
LEMMA MainStray ==
    ASSUME MainStep \/ SignalHandler
    PROVE  \/ main' \notin Starting /\ stray' = {}
           \/ main' \notin Starting /\ UNCHANGED stray
           \/ main \in Starting /\ UNCHANGED <<tasks, stray>>
           \/ UNCHANGED <<main, tasks, stray>>
           \/ InitTaskService
  <1> USE DEF Starting, Go, vars, history
  <1>1. CASE Exit
    BY <1>1 DEF Exit
  <1>2. CASE SignalHandler /\ ~Exit
    BY <1>2 DEF SignalHandler
  <1>3. CASE StartUnxListen /\ ~Exit
    BY <1>3 DEF StartUnxListen
  <1>4. ASSUME NEW t \in Server, CreateServerThread(t), ~Exit
        PROVE  main \in Starting /\ UNCHANGED <<tasks, stray>>
    BY <1>4 DEF CreateServerThread, Server
  <1>5. CASE VisitAll
    BY <1>5 DEF VisitAll
  <1>6. CASE SetupSignal \/ EnterLoop \/ LeaveLoop \/ FiniTaskService \/ FiniEach \/ UnlockAll
             \/ DestroyMutex
    BY <1>6 DEF SetupSignal, EnterLoop, LeaveLoop, FiniTaskService, FiniEach, UnlockAll, DestroyMutex
  <1>7. CASE StopServer
    BY <1>7 DEF StopServer, StopThread, JoinThread
  <1> QED
    BY <1>1, <1>2, <1>3, <1>4, <1>5, <1>6, <1>7 DEF MainStep, ClearEnv

\* Steps of the other threads leave main and the stray collectors alone, and bring no task
\* into an empty list but a new one.
LEMMA OthersStray ==
    ASSUME StateTypes, DaemonNext, ~MainStep, ~SignalHandler
    PROVE  /\ UNCHANGED <<main, stray>>
           /\ ListGood =>
                 \/ Used' \subseteq Used
                 \/ ServiceStep /\ CreateTask /\ taskNum' = taskNum + 1
                 \/ OfType(Head(recvBuff).type) # {}
  <1> USE DEF mainVars
  <1>1. CASE ServiceStep
    <2>1. CASE DeleteTask
      BY <1>1, <2>1 DEF ServiceStep, DeleteTask, Used
    <2>2. CASE CreateTask
      <3>1. OfType(Head(recvBuff).type) # {} \/ taskNum' = taskNum + 1 \/ UNCHANGED tasks
        BY <2>2 DEF CreateTask
      <3> QED
        BY <1>1, <2>2, <3>1 DEF ServiceStep, Used
    <2> QED
      BY <1>1, <2>1, <2>2 DEF ServiceStep
  <1>2. CASE SocketStep
    BY <1>2 DEF SocketStep, Connect, SendRequest, CleanClientResource, Used
  <1>3. ASSUME NEW t \in Server, EndThread(t)
        PROVE  UNCHANGED <<main, stray>> /\ Used' \subseteq Used
    BY <1>3 DEF EndThread, vars, Used
  <1>4. ASSUME NEW t \in Server, DeletionStep(t)
        PROVE  UNCHANGED <<main, stray>> /\ (ListGood => Used' \subseteq Used)
    <2>1. ListStep(t) /\ UNCHANGED <<main, stray>>
      BY <1>4 DEF DeletionStep
    <2>2. CASE VisitTask(t)
      <3> DEFINE i == Least(thread[t].left)
      <3>1. \/ tasks' = tasks
            \/ i \in Used /\ \E new : tasks' = [tasks EXCEPT ![i] = new]
        BY <2>2 DEF VisitTask
      <3> HIDE DEF i
      <3> QED
        BY <2>1, <3>1 DEF Used, ListGood
    <2>3. CASE FiniTask(t)
      <3> DEFINE i == Least(thread[t].left)
      <3>1. tasks' = [tasks EXCEPT ![i] = NoTask]
        BY <2>3 DEF FiniTask
      <3> HIDE DEF i
      <3> QED
        BY <2>1, <3>1 DEF Used, ListGood
    <2>4. CASE UnlockTaskList(t)
      BY <2>1, <2>4 DEF UnlockTaskList, Used
    <2> QED
      BY <2>1, <2>2, <2>3, <2>4 DEF ListStep
  <1>5. ASSUME NEW c \in Client, Leave(c), UNCHANGED mainVars
        PROVE  UNCHANGED <<main, stray>> /\ Used' \subseteq Used
    BY <1>5 DEF Leave, Used
  <1>6. ASSUME NEW i \in Index, CollectStep(i)
        PROVE  UNCHANGED <<main, stray>> /\ Used' \subseteq Used
    BY <1>6 DEF CollectStep, CollectorStep, CollectorLoop, SendMetadataToSubscribers, Used
  <1> QED
    BY <1>1, <1>2, <1>3, <1>4, <1>5, <1>6 DEF DaemonNext

LEMMA StrayStays ==
    ASSUME Whole, StrayGood, DaemonNext
    PROVE  StrayGood'
  <1> SUFFICES ASSUME ~early' PROVE stray' = {} /\ (main' \in Starting => Used' = {})
    BY DEF StrayGood
  <1>1. stray = {} /\ (main \in Starting => Used = {})
    BY HistoryStays DEF StrayGood
  <1>2. CASE InitTaskService
    <2>1. main = "init" /\ main' = "signals"
      BY <1>2 DEF InitTaskService, Go
    <2>2. Used = {} /\ CollectorHasTask
      BY <1>1, <2>1 DEF Starting, Whole, Before, Inv
    <2>3. stray' = {}
      BY <1>2, <2>2 DEF InitTaskService, CollectorHasTask
    <2> QED
      BY <2>1, <2>3 DEF Starting
  <1>3. CASE (MainStep \/ SignalHandler) /\ ~InitTaskService
    <2>1. tasks' = tasks => Used' = Used
      BY DEF Used
    <2> QED
      BY <1>1, <1>3, <2>1, MainStray
  <1>4. CASE ~MainStep /\ ~SignalHandler
    <2>1. UNCHANGED <<main, stray>>
      BY <1>4, OthersStray DEF Whole
    <2>2. ASSUME main \in Starting PROVE Used' = {}
      <3>1. Used = {} /\ OfType(Head(recvBuff).type) = {}
        BY <1>1, <2>2 DEF OfType
      <3>2. ListGood
        BY <2>2 DEF Whole, Starting, Before, Inv
      <3>3. Used' \subseteq Used \/ (ServiceStep /\ taskNum' = taskNum + 1)
        BY <1>4, <3>1, <3>2, OthersStray DEF Whole
      <3>4. taskNum \in Nat
        BY <3>2, UsedFacts DEF ListGood
      <3>5. ServiceStep => ~(taskNum' > taskNum)
        BY <2>2 DEF ServiceStep
      <3> QED
        BY <3>1, <3>3, <3>4, <3>5
    <2> QED
      BY <1>1, <2>1, <2>2
  <1> QED
    BY <1>2, <1>3, <1>4

LEMMA DaemonInitInv == DaemonInit => DaemonInv
  <1> SUFFICES ASSUME DaemonInit PROVE Whole /\ StrayGood
    BY DEF DaemonInv
  <1>1. Inv
    BY InitInv DEF DaemonInit
  <1>2. main = "base" /\ proc = [t \in Server |-> "none"]
        /\ \A t \in Thread : thread[t].at = "idle"
    BY DEF DaemonInit, Init, Idle
  <1>3. ThreadsGood
    BY <1>2 DEF ThreadsGood, Server, Thread
  <1>4. StrayGood
    BY DEF DaemonInit, Init, Used, StrayGood
  <1> QED
    BY <1>1, <1>2, <1>3, <1>4, Places DEF Whole, Inv, Before

LEMMA DaemonNextInv == DaemonInv /\ [DaemonNext]_allVars => DaemonInv'
  <1> SUFFICES ASSUME DaemonInv, [DaemonNext]_allVars, ~late', ~broken'
               PROVE  Whole' /\ StrayGood'
    BY DEF DaemonInv
  <1>1. CASE DaemonNext
    <2>1. ~late /\ ~broken
      BY <1>1, HistoryStays DEF DaemonNext
    <2>2. Whole /\ StrayGood
      BY <2>1 DEF DaemonInv
    <2> QED
      BY <1>1, <2>2, StepWhole, StrayStays
  <1>2. CASE UNCHANGED allVars
    <2>1. UNCHANGED <<vars, main, proc, left, stray, broken, early, late>>
      BY <1>2 DEF allVars, mainVars, history
    <2>2. Whole /\ StrayGood
      BY <2>1 DEF DaemonInv
    <2>3. ThreadsGood'
      BY <2>1, <2>2 DEF Whole, ThreadsGood, vars
    <2>4. StrayGood'
      BY <2>1, <2>2 DEF StrayGood, vars, Used
    <2> QED
      BY <2>1, <2>2, <2>3, <2>4, MainMoves
  <1> QED
    BY <1>1, <1>2

LEMMA DaemonSpecInv == DaemonSpec => []DaemonInv
  BY DaemonInitInv, DaemonNextInv, PTL DEF DaemonSpec

LEMMA InvNothingLeft == DaemonInv => NothingLeftRunning
  <1> SUFFICES ASSUME DaemonInv, main = "clear", ~late, ~broken
               PROVE  /\ Used = {} /\ \A i \in Index : coll[i].at = "none"
                      /\ \A t \in Server : thread[t].at = "idle"
                      /\ ~early => stray = {}
    BY DEF NothingLeftRunning
  <1>1. Whole /\ StrayGood /\ main \in Finished
    BY DEF DaemonInv, Finished
  <1> QED
    BY <1>1 DEF Whole, StrayGood, Emptied, ThreadsGood, Server

\* When main clears the environment no task, no collector of a task and no server thread is
\* left, unless a task was created after FiniTaskService or the list was broken; and no
\* collector runs on without a task, unless one was created before InitTaskService: whatever
\* requests, connections, clean-ups and signals came while main started and stopped the
\* services, for any number of clients and tasks.
THEOREM StopCorrect == DaemonSpec => []NothingLeftRunning
  BY DaemonSpecInv, InvNothingLeft, PTL

(***************************************************************************)
(* Part 3: the configuration.                                              *)
(***************************************************************************)

(***************************************************************************)
(* The two ways to read a file.                                            *)
(***************************************************************************)
LEMMA MaxIs ==
    ASSUME NEW S \in SUBSET Nat, NEW m \in S, \A n \in S : n <= m
    PROVE  Max(S) = m
  <1>1. \A x \in S : (\A y \in S : x >= y) => x = m
    OBVIOUS
  <1> QED
    BY <1>1 DEF Max

ByPoll(f) == {l \in DOMAIN f : ValidInPoll(f[l])}
AtLoad(f) == {l \in DOMAIN f : ValidAtLoad(f[l])}

\* When line m is the last that is taken for an item, the item has its value.
LEMMA LastCounts ==
    ASSUME NEW c, NEW f \in Contents, NEW taken \in SUBSET DOMAIN f, NEW k \in Item,
           NEW m \in taken, f[m].key = k, \A l \in taken : f[l].key = k => l <= m
    PROVE  Updated(c, f, taken)[k] = f[m].value
  <1> DEFINE own == {l \in taken : f[l].key = k}
  <1>1. taken \subseteq Nat
    BY ConfigAssumption
  <1>2. own \in SUBSET Nat /\ m \in own /\ \A l \in own : l <= m
    BY <1>1
  <1>3. own # {} /\ Max(own) = m
    <2> HIDE DEF own
    <2> QED
      BY <1>2, MaxIs
  <1> QED
    BY <1>3 DEF Updated

\* What a content settles does not depend on which of the two has read it: the poll, on top
\* of any configuration, or the start.
LEMMA PollIsAStart ==
    ASSUME NEW c, NEW f \in Contents, NEW k \in Settles(f)
    PROVE  Updated(c, f, ByPoll(f))[k] = Loaded(f)[k]
  <1>1. PICK m \in DOMAIN f :
            /\ f[m].key = k /\ f[m].value \in Nat
            /\ k \in {"file_size", "cmp_cnt"} => f[m].value # 0
            /\ \A n \in m + 1 .. Len(f) : f[n].key = k => f[n].value \notin Nat
    BY DEF Settles
  <1>2. k \in Dynamic /\ k \in Item
    BY DEF Settles, Item
  <1>3. f \in Seq([key : Item, value : Value])
    BY ConfigAssumption
  <1>4. \A l \in DOMAIN f : f[l].key = k /\ f[l].value \in Nat => l <= m
    BY <1>1, <1>3
  <1>5. m \in ByPoll(f) /\ \A l \in ByPoll(f) : f[l].key = k => l <= m
    BY <1>1, <1>2, <1>4 DEF ByPoll, ValidInPoll
  <1>6. m \in AtLoad(f) /\ \A l \in AtLoad(f) : f[l].key = k => l <= m
    <2>1. m \in AtLoad(f)
      BY <1>1, <1>2 DEF AtLoad, ValidAtLoad, Dynamic
    <2>2. \A l \in AtLoad(f) : f[l].key = k => f[l].value \in Nat
      BY <1>2 DEF AtLoad, ValidAtLoad, Dynamic
    <2> QED
      BY <1>4, <2>1, <2>2 DEF AtLoad
  <1>7. ByPoll(f) \in SUBSET DOMAIN f /\ AtLoad(f) \in SUBSET DOMAIN f
    BY DEF ByPoll, AtLoad
  <1>8. f[m].key = k
    BY <1>1
  <1>9. Updated(c, f, ByPoll(f))[k] = f[m].value
    BY ONLY <1>2, <1>5, <1>7, <1>8, LastCounts, f \in Contents
  <1>10. Updated(Default, f, AtLoad(f))[k] = f[m].value
    BY ONLY <1>2, <1>6, <1>7, <1>8, LastCounts, f \in Contents
  <1> QED
    BY <1>9, <1>10 DEF Loaded, AtLoad

\* The poll leaves the fixed items alone.
LEMMA PollKeepsFixed ==
    ASSUME NEW c, NEW f, NEW k \in Fixed
    PROVE  Updated(c, f, ByPoll(f))[k] = c[k]
  <1>1. k \in Item /\ k \notin Dynamic
    BY DEF Item, Fixed, Dynamic
  <1>2. {l \in ByPoll(f) : f[l].key = k} = {}
    BY <1>1 DEF ByPoll, ValidInPoll
  <1> QED
    BY <1>1, <1>2 DEF Updated

(***************************************************************************)
(* The inductive invariant.                                                *)
(***************************************************************************)
\* A content is noticed when it is the content of the file, or the file has had it and
\* will not have it again without going back.
Noticed(f) == f = file \/ f \in past

ConfigTyped ==
    /\ file \in Contents \union {None}
    /\ past \subseteq Contents
    /\ pc \in {"off", "init", "load", "sleep", "read"}

\* The md5 that is known belongs to the content in force, or to one the file has left
\* behind: a file that changes between md5 and reading leaves the md5 of the past, and
\* the next poll reads it again.
Md5Good ==
    /\ pc \in {"load", "sleep", "read"} => lastMd5 \in Contents /\ Noticed(lastMd5)
    /\ pc = "read" => curMd5 \in Contents /\ Noticed(curMd5)
    /\ pc \in {"sleep", "read"} => lastMd5 \in past \/ InForce(lastMd5)

ConfigInv == ConfigTyped /\ Md5Good /\ FixedSinceStart

LEMMA ConfigInitInv ==
    ASSUME ConfigInit PROVE ConfigInv
  BY DEF ConfigInit, ConfigInv, ConfigTyped, Md5Good, FixedSinceStart

LEMMA ChangeFileInv ==
    ASSUME ConfigInv, ChangeFile PROVE ConfigInv'
  <1>1. ConfigTyped' /\ past \subseteq past' /\ (file \in Contents => file \in past')
    BY ConfigAssumption DEF ConfigInv, ConfigTyped, ChangeFile
  <1>2. \A f \in Contents : Noticed(f) => Noticed(f)'
    BY <1>1 DEF Noticed
  <1>3. \A f : InForce(f) => InForce(f)'
    BY DEF InForce, ChangeFile
  <1>4. Md5Good'
    BY <1>1, <1>2, <1>3 DEF ConfigInv, Md5Good, ChangeFile
  <1>5. FixedSinceStart'
    BY DEF ConfigInv, FixedSinceStart, ChangeFile
  <1> QED
    BY <1>1, <1>4, <1>5 DEF ConfigInv

LEMMA LoadInv ==
    ASSUME ConfigInv, LoadConfigFile PROVE ConfigInv'
  <1>1. file \in Contents /\ ConfigTyped'
    BY DEF ConfigInv, ConfigTyped, LoadConfigFile
  <1>2. lastMd5 \in Contents /\ Noticed(lastMd5)
    BY DEF ConfigInv, Md5Good, LoadConfigFile
  <1>3. InForce(file)'
    BY DEF InForce, LoadConfigFile
  <1>4. lastMd5' \in past' \/ InForce(lastMd5)'
    BY <1>2, <1>3 DEF Noticed, LoadConfigFile
  <1>5. Md5Good'
    BY <1>2, <1>4 DEF Md5Good, Noticed, LoadConfigFile
  <1>6. FixedSinceStart'
    BY DEF FixedSinceStart, LoadConfigFile
  <1> QED
    BY <1>1, <1>5, <1>6 DEF ConfigInv

LEMMA ReadInv ==
    ASSUME ConfigInv, ReadConfigFile PROVE ConfigInv'
  <1>1. file \in Contents /\ ConfigTyped'
    BY DEF ConfigInv, ConfigTyped, ReadConfigFile
  <1>2. cfg' = Updated(cfg, file, ByPoll(file)) /\ UNCHANGED <<file, past, loaded>>
    BY DEF ReadConfigFile, ByPoll
  <1>3. lastMd5' \in Contents /\ Noticed(lastMd5')
    BY DEF ConfigInv, Md5Good, ReadConfigFile
  <1>4. InForce(file)'
    BY <1>1, <1>2, PollIsAStart DEF InForce
  <1>5. lastMd5' \in past' \/ InForce(lastMd5)'
    BY <1>2, <1>3, <1>4 DEF Noticed
  <1>6. Md5Good'
    BY <1>2, <1>3, <1>5 DEF Md5Good, Noticed, ReadConfigFile
  <1>7. FixedSinceStart'
    BY <1>2, PollKeepsFixed DEF ConfigInv, FixedSinceStart, ReadConfigFile
  <1> QED
    BY <1>1, <1>6, <1>7 DEF ConfigInv

\* The other steps leave the file and the configuration alone.
LEMMA OtherInv ==
    ASSUME ConfigInv,
           Killed \/ Start \/ InitMd5 \/ CheckMd5 \/ OpenFails \/ NormalizeMissing
               \/ UNCHANGED configVars
    PROVE  ConfigInv'
  <1>1. UNCHANGED <<file, past, cfg, loaded>>
    BY DEF Killed, Start, InitMd5, CheckMd5, OpenFails, NormalizeMissing, configVars
  <1>2. ConfigTyped'
    BY <1>1 DEF ConfigInv, ConfigTyped, Killed, Start, InitMd5, CheckMd5, OpenFails, NormalizeMissing, configVars
  <1>3. \A f : (Noticed(f) => Noticed(f)') /\ (InForce(f) => InForce(f)')
    BY <1>1 DEF Noticed, InForce
  <1>4. file # None => file \in Contents /\ Noticed(file)'
    BY <1>1 DEF ConfigInv, ConfigTyped, Noticed
  <1>5. Md5Good'
    BY <1>1, <1>3, <1>4
       DEF ConfigInv, Md5Good, Killed, Start, InitMd5, CheckMd5, OpenFails, NormalizeMissing, configVars
  <1>6. FixedSinceStart'
    BY <1>1
       DEF ConfigInv, FixedSinceStart, Killed, Start, InitMd5, CheckMd5, OpenFails, NormalizeMissing, configVars
  <1> QED
    BY <1>2, <1>5, <1>6 DEF ConfigInv

LEMMA ConfigNextInv ==
    ASSUME ConfigInv, [ConfigNext]_configVars PROVE ConfigInv'
  BY ChangeFileInv, LoadInv, ReadInv, OtherInv DEF ConfigNext, Main

LEMMA ConfigSpecInv == ConfigSpec => []ConfigInv
  BY ConfigInitInv, ConfigNextInv, PTL DEF ConfigSpec

(***************************************************************************)
(* The theorems.                                                           *)
(***************************************************************************)
\* When the main thread finds the md5 it knows, what the file settles is in force:
\* whenever the file was changed or removed, and whatever reading has failed.
THEOREM UnchangedCorrect == ConfigSpec => []UnchangedIsInForce
  <1>1. ConfigInv => UnchangedIsInForce
    BY DEF ConfigInv, Md5Good, UnchangedIsInForce, OnlyNewContents
  <1> QED
    BY <1>1, ConfigSpecInv, PTL

\* The fixed items are those of the last start, however often the file has been polled.
THEOREM FixedCorrect == ConfigSpec => []FixedSinceStart
  <1>1. ConfigInv => FixedSinceStart
    BY DEF ConfigInv
  <1> QED
    BY <1>1, ConfigSpecInv, PTL
=============================================================================
