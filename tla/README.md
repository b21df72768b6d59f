# PowerAPI in TLA+

Models, model-checking runs and machine-checked proofs for PowerAPI: the client
library `pwrapic`, the daemon `pwrapis`, and the code in `common` both are
built from. Paths below are relative to the repository.

## The system

An app links the library and calls `PWR_*`. Every call becomes one request
message to the daemon over a Unix socket and, normally, one answer. The daemon
runs two threads: the *socket thread* accepts, reads and writes connections,
the *service thread* handles requests one at a time. Each data collection task
adds a *collector thread*. The library adds one socket thread to the app's own
threads.

| component | code | state | operations | interacts with |
|---|---|---|---|---|
| message ring | `common/src/pwrbuffer.c` (first half) | head, tail, slots, mutex | add (drops the oldest when full), pop, look, init, reset | used three times: send buffer of the library, receive and send buffer of the daemon |
| waiting list | `common/src/pwrbuffer.c` (second half) | doubly linked list of nodes, a mutex and a condition per node | join, find and move by seqId, move out, wait, signal | app threads and the library's socket thread |
| socket client | `pwrapic/src/sockclient.c` | socket, buffers, list, thread | send and wait, receive, reconnect, init, fini | ring, waiting list, daemon |
| API | `pwrapic/src/powerapi.c` and wrappers | `g_status` | register, unregister, request and release control, set and get | socket client |
| server | `pwrapis/src/server.c`, `pwrclient.c` | client slots, buffers, listening socket, two threads | accept, receive, send, clean up, dispatch, start, stop | all services |
| control authority | `pwrapis/src/comservice.c` | `g_authed`, `g_authOwner` (no lock) | request, release, clean | service thread and socket thread |
| tasks | `pwrapis/src/taskservice.c` | task list, counter, mutex, collectors | create, delete, clean by client, collect | service thread, socket thread, collectors, send buffer |
| CPU service | `pwrapis/src/cpuservice.c` | none of its own; sysfs files | read and set frequency, range, governor; read usage, performance data | service thread, collectors, kernel |
| configuration | `pwrapis/src/config.c` | log and server configuration, last md5 | load, poll and update | main thread; read by all |
| logger | `pwrapis/src/log.c` | file pointer, size (no lock) | log, rotate | every thread |
| main frame | `pwrapis/src/main_frame.c` | run flag | start, poll, stop | configuration, server |
| system service, disk service, utilities | `sysservice.c`, `diskservice.c`, `utils.c`, `list.h` | none | shell commands, file reads | - |

What is hard: unlocked looks and reads next to locked ones; answers that come
before, during or after the call that waits for them; a lossy ring; a condition
variable without a predicate; state of a client kept in three places (app,
slots, services) that learn of a disconnect at different times; two threads
of the daemon changing the control authority without a lock; threads joined
under a mutex; SIGPIPE, which nobody handles, and a daemon that systemd starts
again (`Restart=always`). `hazards` in `PROJECT.json` lists each of these at
its line with the properties that would notice it going wrong.

## Modules

`LossyQueue` - what a message buffer promises: a FIFO of `Capacity` messages
that drops its oldest one when full, one message in the consumer's hand, and
a `Clear` that empties it.

`PwrMsgBuffer` - the ring. Producers are the action `AddToBufferTail(m)`, for
any number of threads, since a mutex section is one step; the consumer is a
small program (`cpc`): two unlocked reads of `IsEmptyBuffer` in either order,
then a pop under the mutex, then the release of the message. Messages are
addresses: `allocated` is what `malloc` has given out, so a double free, a use
after free and a leak are visible, and an address comes back after a free.
`ResetPwrMsgBuffer` and `InitPwrMsgBuffer` are the shutdown and restart of the
owner, which joins the consumer first. The ring implements `LossyQueue` under
the mapping `Contents` (the live slots in order, or nothing after a reset).

`SockClient` - synchronous calls: each call of `SendMsgSyn` is a process with
a `pc`; the socket thread is another (`spc`). A call stands for its request,
node, seqId and answer, because nodes are never freed. Each section under
the list's mutex is a step, and so is each access outside it: `ReadHead` before
the lock, the store of the answer after it, the clearing and releasing of the
node. A call that gets no memory for its node has its request released by
`SendMsgSyn` and then by its caller again, which may end the process
(`ReleaseTwice`). The send buffer is the lossy queue; the daemon and the socket are
external (`Answer`, `Close`). `fault` is the death of the process. A write to a
closed peer either kills it (SIGPIPE) or, if the app ignores the signal, loops
for ever (`spc = "writing"`).

`ControlAuth` - apps, connections and the daemon composed around the control
authority. `status` is `g_status`, `slot` is `g_pwrClients`, `thread` says where
each daemon thread is in `DoAuthRequest` or `DoAuthRelease`: each read of
`g_authed` and `g_authOwner` is a step, and each of the two writes too, in either
order. The socket thread's cleanup follows the code in taking the sysId of the
first slot. `Restart` is the death of the daemon on SIGPIPE and its start by
systemd. `upset` is history only: no guard reads it. It collects the apps whose
grant a release that timed out, a restart or a cleanup may have undone. An app
makes its calls one after the other.

`TaskService` - the task list, subscriptions and collectors. `thread` holds the
loop state of a deletion (`left`, the entries still to visit), so that a
collector and the other thread can run between visits and while a collector is
joined; `holder` is the mutex. `coll` is the thread of each task. The data itself, and whether
it is due to a subscriber, are left out: the collector's turn is one step that
takes the list as it is. The list implements `Subscriptions` under the mapping
`TableOfTasks` (for each type, what the entries of its task say) and
`RemovalOfThreads` (for whom, and in which tasks, a thread still has to look).

`Subscriptions` - what the task service promises: a table of who is subscribed to
which type of data at which interval. Requests are served in order and one at a time.
Who asks gets the interval it asked for, unless it has none yet and the type is full
or nobody has that type. An unsubscription, or the end of all that a client has, is
complete before the next request is served, leaves the others as they are, and the
table keeps within its capacities.

`CpuFreq` - governor, frequency range and frequency of the cpufreq policies, the
operations of the CPU service that change something. `at` is where the service
thread is in its handler: the checks (of `policy0` only, as in the code), then
the list `Writes(req)`, one file per step, because the daemon may die (`Restart`)
and other processes may write (`ChangeOutside`) between two of them. What the
kernel makes of a write is external. `mixed` and `disturbed` are history that no
guard reads: `mixed` has the settings that a request left half written or others
wrote and no request has set for all policies since; `disturbed` says that
something interfered since the last request came. The files hold kHz; ranges of the
interface are whole MHz and its frequencies doubles, taken in steps of a kHz. `Whole` is
what a conversion to an int of MHz leaves: `Writes` drops the rest of a frequency, and
`RangeOfPolicy0` that of the limits the frequency was checked against.

`Config` - the configuration file, which others write, remove and create, and
the main thread that loads it and then polls it. Reading goes in two steps, the
md5 and the content. The values in force are `cfg`; `loaded` and `past` are
history. A line is a pair of a key and a value. The code goes through the lines
twice, by one set of rules at the start and by another in the poll: `ValidAtLoad` and
`ValidInPoll` say which lines each takes, and in `Updated` the last line taken for
an item counts, as a later line overwrites an earlier one.

`Daemon` - extends `TaskService` with the main thread: start, the threads it
creates, the loop, a signal, and the stop, which takes the task service down,
joins the socket thread, then the service thread, and then clears the
environment. `main` is where it is; `proc`, `keep` are the two server threads and
their `keepRunning`; `mutex` (of `TaskService`) is FALSE after
`pthread_mutex_destroy`, from which time a lock keeps nobody out. `InitTaskService`
clears whatever is in the list by then: the tasks of requests that came before it are
forgotten, and their collectors run on (`stray`). `early` and `late` are history: a task
was created before `InitTaskService` or after `FiniTaskService`. `broken` marks a list
that was cleared while a thread was inside it, or that two threads were in after the mutex
was gone; it is not followed further. The handler of a creation is one step, so that a
list is cleared before or after it, and in the middle only of a deletion or cleanup.

`Library` - the library in an app: app threads that register, unregister and
call, and the socket threads they make. `status`, `fd`, `keepRunning`, `thread`
are the globals of the library; `open` are the descriptors of the process;
`where` says where the request of a call is, `req` who has freed it. A socket
thread stands where `RunSocketProcess` is (`sock`): also in a `connect`, `send` or `recv`
that waits for the daemon. `doubled` (a Register while a
socket thread runs), `overlapped` (a Register or UnRegister beside another
function), `unlisted` (a call got no memory for its node, and its request is freed twice)
and `lost` are history. They bound the model: after an overlap or an unlisted call nothing
more is called, and after a doubled Register neither Register nor RequestControlAuth.

`Logger` - `log.c`: each access of the unlocked `g_pFile` is a step of a thread,
the shell command of a rotation is one step that may fail half way, and
`SpaceChkAndDel` reads the names once (`surplus`) and then deletes one file per step, from
the newest that is too many to the oldest, each of which may fail. A size is a
number of lines and the name of a backup the second of its rotation. `logged`,
`trimmed`, `failed`, `raced` are history that no guard reads (but for the bound
on lines).

`Queries` - the public interface from end to end, as tables and readers. Each
call is a row of `Checks` (the status it needs and the arguments it refuses),
of `Wrappers` (what its wrapper makes of the size of the answer) and of
`Handlers` or `FirstStep` (what the daemon does), or it has no handler. A reader
is a thread of the daemon inside `CPUUsageRead`, `CpuInfoRead`, `PerfDataRead`
or `GetCpuFreqAbility`; `perfFile` and `rest`, the static position of
`strtok`, are what readers share. `Entries` is what a usage is reported with: an entry
for each configured core, of which those without a line in `/proc/stat` are never written.
`fresh` and `mixed` are history.

`MC*` modules only give constants their values (and symmetry sets).
`PwrMsgBufferProofs`, `SockClientProofs`, `ControlAuthProofs`, `DaemonProofs` (for
`TaskService`, `Daemon` and `Config`, which main polls), `LibraryProofs`,
`CpuFreqProofs`, `LoggerProofs` and `QueriesProofs` hold the theorems.

Operators whose names end in a suffix after `_` (`Succ_NoWrap`,
`FiniTask_NoJoin`, ...) are wrong variants of the definition they are named
after. No specification uses them; each breaks the property it is listed with
in `PROJECT.json`, which shows that the property depends on that code.

## Runs

| run | instance | states | shows |
|---|---|---|---|
| `buffer` | ring of 4 slots, 4 addresses | 17 thousand | slots, memory, pops after a look, progress, refinement of `LossyQueue` |
| `calls` | 3 calls, send buffer of 2, spurious wake-ups, symmetric | 599 thousand | a call gets its own answer; the list is whole; answers are dropped only when early or late |
| `calls_return` | 2 calls | 24 thousand | a call that has begun returns |
| `auth` | 2 apps, 2 slots, 3 connections, 2 calls each, symmetric | 2 million | who believes to have control has it, except when upset; one slot per app |
| `library` | 2 app threads, 2 descriptors, 2 socket threads | 932 thousand | after UnRegister nothing is left; requests are freed once unless a node could not be made or calls overlap; UnRegister returns unless the daemon holds the socket thread |
| `tasks` | 2 apps, 2 data types, 2 intervals, 2 tasks, symmetric | 2 million | counters and lists agree; a task is frequent enough for each subscriber; a collector has its task; refinement of `Subscriptions` |
| `daemon` | 1 app, 2 data types of which 1 is collected, 1 interval, 2 tasks | 160 thousand | deletions and cleanups end; a signal ends the daemon; nothing is left running but the collectors of tasks created too early or too late |
| `cpufreq` | 3 policies listed as 0, 10, 2 of 12 processors, ids 0, 1, 2, 99, 2 limits and 2 frequencies with and without a part of a MHz, 3 governors of which 2 are available, 2 targets | 1.25 million | SUCCESS means all policies, to the MHz; failures leave only what they began mixed; reads are true |
| `config` | 5 contents of up to 5 lines | 160 thousand | what is in force is what the file says; no change is lost; fixed items stay |
| `logger` | 2 threads, files of 1 line, 1 backup, 6 lines, 3 seconds, symmetric | 1.2 million | no line is lost; silence only after a failure; the newest backups stay |
| `log_rotation` | 1 thread | - | violation: the daemon dies at the end of a rotation |
| `queries` | 3 cores, 0 or 3 policies, 2 governors, room for 0, 2 or 3 entries | 583 thousand | the usage of an on-line core is its own, the entries of the others are never written; figures and governors are true beside a collector; counts are of entries that were copied |

Why the bounds are enough. A ring of 4 slots holds 3 messages: every relation
of head and tail occurs (empty, one, full, wrapped or not), and four addresses
are enough for a full ring and one in the consumer's hand. The waiting list
changes only locally, at the head, the tail or in the middle, and three nodes
have all of them.
With two apps there is an owner and another, and one of them is not in the
first slot; with three connections either app reconnects; two calls each give a
request and a release, or a request and its repetition, with late answers.
Two intervals below
`MAX_DC_INTERVAL` are needed for a lower and a higher one, two data types for a
list with an entry to pass over, to free or to keep before another. `tasks` collects both
types; the thread of one that is not ends by itself, as in `daemon`. `daemon` takes one app, as one thread only is inside the list whoever
asked, two tasks, of which one can be created before and the other after the list is
cleared, and one with a collector that has to be joined and one without, and one
interval, since the intervals do not matter to who waits for whom. In `library` a second descriptor and a second socket thread
are there when the first is lost or forgotten; two app threads are enough for a
function beside another. In `logger` six lines are three rotations: a
backup is deleted while another thread logs or rotates, and after a death before the
deletion the next rotation finds two that are too many. In `queries` three cores
and one more line in `/proc/stat` let two readings differ in their last line, in a
line between, or in length. In `cpufreq`, a failure after the first, between and
before the last of three writes leaves policies on both sides; the listing is
not in the order of the ids, so the sort has work to do; the ids have a policy,
a processor without one, and no processor; two targets can be the same or not,
in either order. With 2 kHz in a MHz, the limits 2 and 5 and the frequencies 3 and 4 are a
whole MHz and one with a rest each, so that a frequency that is cut falls below the minimum,
and a maximum that is cut below a frequency. The contents in `config` raise and lower the same items,
repeat an item, and have numbers only the start or only the poll refuses, words,
and names of files that exist or not. `MaxTargets`, `MaxConn`, `MaxCalls` and `MaxRequests` are bounds of
the models, not of the code.

Deadlock is checked in `buffer`, `cpufreq`, `config`, `tasks`, `logger` and
`queries`, where something can always happen. The calls of `SockClient` and the
connections and calls of `ControlAuth` run out; a process that has died ends `Library`, a daemon
that has exited ends `Daemon`; there the system stops.

Symmetry is used for invariants, action properties and the refinement of
`Subscriptions`, which states no fairness and treats apps, and types, alike.

Fairness. `PwrMsgBuffer`: the consumer's loop goes on. `SockClient`: a
call that has begun takes its next step, because each takes finite time and the
wait is bounded by two seconds; nothing is assumed of the socket thread or the
daemon. `TaskService`: a thread inside the list goes on when it can, and so do
collectors, whose sleep is bounded by `MAX_DC_INTERVAL`. `Config`: the main
thread goes on, since it only sleeps and reads, and the reading of the file
succeeds at last if it is tried again and again (`SF`): `fopen` and `realpath`
fail for a missing file or for want of descriptors, and each poll tries again.
`Daemon`: as in `TaskService`, and main goes on, with a mutex that others take and
release again and again (`SF`); a server thread looks at `keepRunning` in every turn
of its loop (`SF`), because a turn ends: a client reads what is sent to it.
`Library`: app threads inside a function and socket threads go on (`WF`) but where
they wait for the daemon, of which nothing is assumed: `connect`, `send` and `recv` have no
time-out, so that a thread in one of them may stay there for ever (`pc = "connect"`,
`DependsOnDaemon`). `UnRegisterReturns` excepts an UnRegister that joins such a thread. The
metadata callback of the app is taken to return and to call nothing of the library. `ControlAuth`, `CpuFreq`, `Logger` and
`Queries` state none, and no liveness.

Defects of the code. `log_rotation` exhibits one: `RotateFile` moves the log file
away, and `OpenLogFile` then asks `realpath` for a file that is not there, so the
daemon dies in `strlen(NULL)` after every rotation that succeeds. Others are part of
the models, and a property says where it leaves them out:

- `MoveOutWaitingMsg` reads the head before it locks the list: a node may be taken
  out twice or left in. `ListIsWhole` and `DroppedOnlyEarlyOrLate` speak of
  lists without a node left behind.
- The cleanup after an app uses the first slot: another app loses its control and
  its tasks; and unlocked writes of the two threads can mix so that control is
  taken and nobody has it. `ControlIsHeld` speaks of apps that are not `upset`.
- The cycle of a task becomes 0 when one of two subscribers leaves.
  `ServedOftenEnough` holds, but the collector no longer sleeps.
- A second Register, or one beside a call, frees requests twice and leaves threads:
  the exceptions of `QuietAfterUnRegister` and `RequestFreedOnce`.
- A call without memory for its node has its request freed by `SendMsgSyn` and by its caller
  (`sockclient.c:302`, 425): `unlisted` in `RequestFreedOnce`.
- The socket thread waits in `connect`, `send` and `recv` without a time-out, and UnRegister
  joins it: a daemon that does not answer holds the app (`UnRegisterReturns`).
- The task service is initialised after the threads that use it and taken down
  before them: `early`, `late` and `broken` in `NothingLeftRunning`.
- A frequency is cut to whole MHz, and so are the limits it is checked against: after
  SUCCESS a policy runs within the MHz of what was asked for, and not always at it
  (`SuccessSetsFrequencies`).
- Surplus backups are deleted from the newest down, so that a failure or a death leaves an
  older one while a newer one is gone. `NewestAreKept` says what remains true: a backup goes
  only while `MaxCmpCnt` newer ones stay.
- A usage is answered for all configured cores with SUCCESS, though nothing was written
  for those off-line, and what the answer has there is not even cleared
  (`cpuservice.c:720`). `RegisterOkCpuTest.cpp:121-132` expects a usage of every core that
  is counted; it holds only while all are on-line. `ReadingsAreTrue` says which entries are
  usages.
- `GetCpuFreqAbility` corrects the count after a failure instead of a success, and
  divides by zero without policies; the shared position of `strtok` can cut the
  list of governors: the exceptions of `CountIsOfTheBuffer` and `ReadingsAreTrue`.
- A request can leave policies with different settings, and a file that goes back
  to what it was is not read again: `SuccessSetsFrequencies`, `UnchangedIsInForce`.

## Proofs

All theorems hold for every value of the constants that the assumptions allow.
They ask for little: `BufferAssumption` (the ring has at least two slots, NULL is
no message), `SockClientAssumption` (finitely many calls, room for a message),
`ControlAuthAssumption` (there is a slot and a
connection; who is nobody, and the mark of an empty slot, are no apps), `TaskServiceAssumption` (there is room for a
task and a subscriber, intervals do not exceed `MAX_DC_INTERVAL`, markers of
empty entries are no apps and no data types), `LibraryAssumption` and
`LoggerAssumption` (bounds are numbers, and what marks "none" is not),
`ConfigAssumption` (a content is a sequence of lines, every item has a default),
`CpuFreqAssumption` (policies are processors, `ls` lists each once, there is a
`policy0`, which the code takes for granted, and limits and frequencies are whole numbers of
kHz), and `QueriesAssumption` (there is a core,
the governors are a list of at least one, what is no governor is not in it, and the
array the code reads them into has room for them).

`PwrMsgBufferProofs`: `TypeCorrect`, `SlotsCorrect`, `SeenIsPopped`,
`LeakIsNewest`, `RingIsLossyQueue`. `SlotsHoldOwnMessages` is not inductive as it
stands: it has to know what the consumer has seen (a look that saw a message
implies that the ring is not empty until the pop, because producers never empty
it), and that the slots are NULL outside the live part also during the drop of the
oldest message. `LeakIsNewest` needs `NewestRemains`: after a reset, only the slot
at the tail may still hold a message.
The refinement rests on lemmas about `Slot` and `Count`: adding appends to
`Contents` and drops its head if full, a pop takes its head. The proof covers
the initial state and the steps; `LossyQueue` states no fairness.

`SockClientProofs`: `TypeCorrect`, `OwnAnswer`, `ListCorrect` and `DropsCorrect`.
For the second, the strengthening says that
the answer the socket thread holds is the answer to the node it holds it
for, and that each node's `rspMsg` is its own or NULL; it is preserved although
the node may be in any state when the answer is stored.
For the other two, `Order(q)` says that the pointers of the list are those of the
sequence q, and lemmas say what becomes of q when a node joins, is found and moved by
the socket thread, or is moved out. `ListGood`, that there is such a q unless a node
was left behind, is inductive only with `CallsGood`, which says from the step of a call whether its
node is in the list, and `FlightGood`: one message of a call is in one place, so its answer
cannot be received twice. `DropsCorrect` then needs that a walk of
`FindAndMoveWaitingMsg` along q meets every node. `Reach`, a recursive function bounded by
the number of calls, stays within the types by the same lemmas.

`ControlAuthProofs`: `TypeCorrect`, `SlotsCorrect`, `ControlCorrect`. `ConnGood`
says that an app has one slot, and that its newer connections stand behind its
older ones. `ControlIsHeld` is not inductive without the order of requests: an old
release that is still on its way behind a granted request would undo the grant.
`Flow` has that order: the numbers of an app's requests grow from what the service
thread handles, over what is in a connection, to what the app sends next, through
any number of connections. `Claims` then says of an app that is not `upset` what
its claim is at each step of a request, a release and their answers: it keeps
what it was granted until it asks for something else.

`DaemonProofs`, first part: `TypeCorrect`, `ListCorrect`, `ServedCorrect` and
`CollectorCorrect` of `TaskService`, all from one invariant `Inv`. `ListGood` says of each task that
its counter is the number of its subscribers, that nobody is in it twice and that
its interval is no longer than that of any of them; `EndingGood` that the only task
without a subscriber is the one which the thread inside the list is ending;
`OneInList` that a thread inside the list holds the mutex.
`ListIsATable` is the refinement of `Subscriptions`, initial state and steps. As a type
has one task at most, the table says of a type what the entries of that task say
(`TableEntry`), and a step that replaces the task changes the table at that type only
(`TableStep`). What remains is what becomes of the entries when one is added, written
over or cleared (`EntriesAdded`, `EntriesRemoved`); recomputing the interval
and freeing a task without subscribers leave the table as it is. A thread that is idle
has nothing left to visit (`IdleThreads`) and only one is inside the list, so a removal
is that thread's (`RemovalOfOne`), and the types it still concerns are those of the
tasks it has to visit (`TypesToVisit`). `RoomInTheTable` counts entries and tasks.

`DaemonProofs`, second part: `StopCorrect`, by extension of the above. Until main takes the
task service down, `Inv` holds; while it does so (`Taking`), main holds the mutex
and every task that is left is one it has still to visit; afterwards (`Emptied`)
there is no task and no collector. `ThreadsGood` ties the two server threads to where
main is in the stop. `StrayGood` says that collectors are forgotten only if a task was
created early, which nothing after `InitTaskService` changes (`StrayStays`). All of this
unless `broken` or `late`, as the property says.

`LibraryProofs`: `TypeCorrect`, `FreedOnce`, `QuietCorrect`. `WhoInv`: without an
overlap, whoever is in Register or UnRegister is alone in the library. `FreedInv`:
the nodes in the list are of calls that wait, and nobody has freed the request of
a call that still has to free it, unless calls overlapped or one was `unlisted`. `QuietInv` says for each step of Register and
UnRegister which socket thread and which descriptor exist there (`Settled`), and
between functions that they match `status` (`Between`).

`CpuFreqProofs`: `TypeCorrect`, `UniformCorrect`, `SuccessCorrect`,
`ReadsCorrect`, `FrequenciesCorrect` and `ReadingCorrect`. None of the properties is inductive alone:
the answer SUCCESS after the last write says something of all policies only because
`Progress` holds before it (the policies before the next write have the new setting;
in the list of a range with n policies, write number n + k is the maximum of policy
k), and a handler that stops before its first write leaves nothing mixed only
because of `NothingWritten`. `HandlerOK` ties the position in the handler to the
request. `ReadsCorrect` then follows from `NothingWritten` at `policy0`.
`FrequenciesCorrect` rests on `SpeedProgress`: while nothing is mixed, the
governor and range of `policy0`, which alone the code checks, are those of every
policy, so the kernel takes each frequency as it is written, and every target before
the next write has the last frequency the request gives for it, to the MHz. `ClampFacts`
says what the kernel makes of a frequency whose rest was cut: it lies in the same MHz if it
passed the check against the limits that were cut too.

`ReadingCorrect` includes that `FreqSortByPolicy`, a bubble sort, sorts any list and
keeps its entries. The folds that stand for its two loops are defined by recursion over
sets of indices. `FoldsExist` and `FoldedAgree` say that this recursion has one solution,
so that a loop is a sequence of states each of which comes from the one before
(`SwapsRun`, `PassesRun`). The two loop invariants are `Bubbled` (the greatest of the
first j + 1 entries is the last of them) and `Passed` (the last k entries are in order,
and none before them is greater). `MergeFacts` says that the
merge leaves as many targets as there are different valid ones, and `PolicyCount` that
the list of all policies has each once.

`DaemonProofs`, third part: `UnchangedCorrect` and `FixedCorrect`. `PollIsAStart`: what a content
settles (`Settles`) comes out the same whether the start or a poll has read it, on top of
whatever. `UnchangedIsInForce` is not inductive alone, because the file may change
between the md5 and the reading: `Md5Good` says that the md5 which is known belongs
to the content in force or to one that the file has left behind.

`LoggerProofs`: `TypeCorrect`, `LinesCorrect`, `LoggingCorrect` and `NewestCorrect`.
`PointerGood`: whoever has
closed or forgotten `g_pFile` is on its way to open it again, and without a race there
is one such thread. `BackupsGood`: no backup is newer than now, and to each name that a
thread has still to delete there are `MaxCmpCnt` newer backups. Deleting one backup takes a newer one away from
those that are older, and still leaves them the `MaxCmpCnt` that are newer than itself
(`NewerStay`). `GreatestExists`
and `OldestGo` are about the sets of numbers that a trim keeps and takes for deletion.
`LinesInv` counts: until something fails or races, the lines logged are those in the
log file, in a file left in the log directory, in the backups and in what was deleted
(`Kept`); the lemmas on sums say how the sum over the backups changes when one
is added and when one is deleted.

`QueriesProofs`: `ReadingsCorrect` and `CountCorrect`. `StateGood` says of a reader, by its
step, what it has and what it can rely on. `JobGood`: only the service thread asks for the
frequency ability, so that one reader at a time takes words from `rest`, though
another may put something else there. `Scanning`: between two words, those taken and
those left are all the governors in order, unless `mixed`. `PerfGood`: who is about to read
`perf.txt` began before it was last written (it is in `fresh`), and the file is empty only
if the other reader has emptied it since. A usage is reported only of two readings with
the same lines; `LineFacts` says that the place of a core among those on-line
is a bijection from cores to lines, and `UsageFacts` that with equal lines the entry of
each on-line core is therefore its own and no other entry is written. Each step is of one reader, who ends in a good state (`Moves`), while the others
stay as they were or become `mixed` (`OtherGood`, `MixedGood`). `CountIsOfTheBuffer`
is about the row of a call in `Wrappers`. `CountFacts` goes through the rows: the calls
that correct the count only after a failure are ones no request of which is handled, or
`CpuGetFreqAbility`. `ReturnFacts` has the rest.

Induction. The induction theorems of the library take an operator as a parameter and
cannot be used; where a proof is by induction over data (the folds, the sums, the order
of a list), it takes a least counterexample of an order that is well founded
(`WFMin`), over numbers (`LeastExists`) or over the subsets of a finite set
(`SubsetInduction`), and the claim is a set of the values it holds for.

Only model-checked: liveness (`MessagesLeave`, `CallsReturn`, `DeletionsEnd`, `StopEnds`,
`UnRegisterReturns`, `FollowsFile`), which the prover does not handle. Every
invariant, action property and refinement a run checks is a theorem. The type invariant of
`TaskService` is the other way round: the theorem `TypeCorrect` proves it, and no run
checks it. `Config` has no type
invariant of its own: `UnchangedIsInForce` says more of the same variables.

## Not modelled

Message bytes and their parsing (a request arrives whole), the figures in
answers, the text and level of log lines, malloc failures outside `SendMsgSyn`, columns that
`UsageToLong` stores past the end of its array (`cpuservice.c:160`), `FD_ISSET` of
descriptor -1 (taken to be false), several messages in one turn of the loops
(each is a turn of its own), requests with a payload the library does not
produce, negative policy ids, the pace at which collected data is queued
(`lastSent`), the width of the seqId counter (16 bits; an answer would have to be
65536 requests late) and of `maxFileSize`, configuration lines with a key the code
does not know (the function that looks it up then has no return value), late
answers in `Queries` (they are `SockClient`'s subject), and the components listed
as `not_modelled` in `PROJECT.json`: no request reaches the disk service, and the
utilities are string, file and time helpers without state.

## Plan

What is left, in the order of its worth: the pace of the data a collector queues
and the metadata callback, which runs in the socket thread of the app; several
messages in one turn of the loops; the bounded seqId counter; refinement of
`SockClient` by the calls of `Library`.
