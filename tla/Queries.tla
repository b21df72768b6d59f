------------------------------ MODULE Queries ------------------------------
(***************************************************************************)
(* The calls of the public interface from end to end: what PWR_... checks, *)
(* what the wrapper of the client library makes of the answer, which       *)
(* requests the daemon handles, and how its handlers read the machine.     *)
(* The service thread reads for requests while the collectors of the data  *)
(* collection tasks read too: they share perf.txt and the static position  *)
(* of strtok, and the kernel takes cores off-line at any time.             *)
(*                                                                         *)
(* How a call travels is SockClient's subject, who has control is          *)
(* ControlAuth's, and what a setter writes is CpuFreq's: here a call that  *)
(* is not answered times out, and such a handler is one step.              *)
(***************************************************************************)
EXTENDS Integers, FiniteSets, Sequences, FiniteSetsExt, SequencesExt

CONSTANTS
    CoreNum,        \* configured cores (_SC_NPROCESSORS_CONF)
    OtherLines,     \* lines of /proc/stat after those of the cores
    Available,      \* scaling_available_governors, in order
    Foreign,        \* a word that is no governor
    Rooms,          \* entries an app may have room for
    MaxWords,       \* bound: words taken for governors in one answer
    None

ASSUME QueriesAssumption ==
    /\ CoreNum \in Nat \ {0} /\ OtherLines \in Nat
    /\ Available \in Seq(ToSet(Available)) /\ Available # <<>>
    /\ Foreign \notin ToSet(Available)
    /\ Rooms \subseteq Nat /\ MaxWords \in Nat /\ Len(Available) <= MaxWords
    /\ None \notin Nat

Core == 0 .. CoreNum - 1

VARIABLES
    policies,   \* the number of cpufreq policies of the machine
    online,     \* the cores that are on-line
    status,     \* g_status of the app
    call,       \* the app's call: [fn, room, at]
    result,     \* of the call that just returned: [fn, code, room, copied, count]
    alive,      \* the daemon runs
    reader,     \* the threads of the daemon that read the machine
    rest,       \* the words from the static position of strtok on
    perfFile,   \* what perf.txt holds
    fresh       \* the readers that began before perf.txt was last written: history

client == <<status, call, result>>
machine == <<policies, online>>
vars == <<machine, client, alive, reader, rest, perfFile, fresh>>

\* The service thread, and a collector, which stands for the one of each data type in turn.
Service == "service"
Collector == "collector"
Reader == {Service, Collector}

NoCall == [fn |-> "none", room |-> 0, at |-> "idle"]
Stage(at, job, code) ==
    [at |-> at, job |-> job, code |-> code, first |-> {}, second |-> {},
     govs |-> <<>>, figures |-> "none", mixed |-> FALSE]
Idle == Stage("idle", "none", "SUCCESS")

Init ==
    /\ policies \in {0, CoreNum}
    /\ online = Core
    /\ status \in {"UNREGISTERED", "REGISTERED"}
    /\ call = NoCall
    /\ result = None
    /\ alive = TRUE
    /\ reader = [r \in Reader |-> Idle]
    /\ rest = <<>>
    /\ perfFile = "empty"
    /\ fresh = {}

-----------------------------------------------------------------------------
(***************************************************************************)
(* The interface, a row for the calls "fns" that check the same: "needs"   *)
(* is the status a call checks, "bad" the kinds of argument it refuses: a  *)
(* null pointer, too small a buffer, an empty list or name, a value out of *)
(* range, too long a name, or (in the wrapper GetCpuCurFreq) too many      *)
(* entries.                                                                *)
(***************************************************************************)
Checked(fns, needs, bad) == [fns |-> fns, needs |-> needs, bad |-> bad]

ComChecks ==
    {Checked({"CreateDcTask"}, "REGISTERED", {"null", "value", "callback"}),
     Checked({"DeleteDcTask", "RequestControlAuth"}, "REGISTERED", {}),
     Checked({"ReleaseControlAuth"}, "AUTHED", {})}

SysChecks ==
    {Checked({"SysSetPowerState"}, "AUTHED", {"value"}),
     Checked({"SysGetRtPowerInfo"}, "REGISTERED", {"null"})}

CpuChecks ==
    {Checked({"CpuGetInfo", "CpuGetPerfData", "CpuGetFreqRange", "CpuDmaGetLatency"},
             "REGISTERED", {"null"}),
     Checked({"CpuGetUsage", "CpuGetFreqAbility", "CpuGetFreqGovernor"},
             "REGISTERED", {"null", "small"}),
     Checked({"CpuGetFreq"}, "REGISTERED", {"null", "empty", "value", "many"}),
     Checked({"CpuSetFreqRange"}, "AUTHED", {"null"}),
     Checked({"CpuSetFreqGovernor"}, "AUTHED", {"null", "empty", "long"}),
     Checked({"CpuSetFreq"}, "AUTHED", {"null", "empty"}),
     Checked({"CpuDmaSetLatency"}, "AUTHED", {"value"})}

DiskChecks ==
    {Checked({"DiskGetList"}, "REGISTERED", {"null", "empty"}),
     Checked({"DiskGetLoad", "DiskGetPwrLevel", "DiskGetScsiPolicy"},
             "REGISTERED", {"null", "empty", "value"}),
     Checked({"DiskSetPwrLevel", "DiskSetScsiPolicy"}, "AUTHED", {"null", "empty"})}

NetUsbChecks ==
    {Checked({"NetGetInfo"}, "REGISTERED", {"null", "small"}),
     Checked({"NetGetThrouth", "NetGetSpeedMod"}, "REGISTERED", {"null", "empty", "long"}),
     Checked({"NetSetSpeedMod"}, "AUTHED", {"null"}),
     Checked({"UsbGetAutoSuspend"}, "REGISTERED", {"null", "empty"}),
     Checked({"UsbSetAutoSuspend"}, "AUTHED", {"null", "empty"})}

Checks == ComChecks \union SysChecks \union CpuChecks \union DiskChecks \union NetUsbChecks
Fn == UNION {row.fns : row \in Checks}

ErrorOf(bad) ==
    CASE bad = "null" -> "ERR_NULL_POINTER"
      [] bad = "callback" -> "ERR_CALLBACK_FUNCTION_SHOULD_BE_SET_FIRST"
      [] bad = "many" -> "ERR_INPUT_OVERSIZE"
      [] OTHER -> "ERR_INVALIDE_PARAM"

Level == [UNREGISTERED |-> 0, REGISTERED |-> 1, AUTHED |-> 2]

CheckStatus(needs) ==
    CASE Level[needs] <= Level[status] -> "SUCCESS"
      [] needs = "REGISTERED" -> "ERR_NOT_REGISTED"
      [] OTHER -> "ERR_NOT_AUTHED"

-----------------------------------------------------------------------------
(***************************************************************************)
(* The wrappers of the client library.  With "copied" entries in the app's *)
(* buffer, what does the wrapper say is there?  The calls that count       *)
(* entries (n in the answer, room in the buffer), by the rule they follow. *)
(***************************************************************************)
Counting(fns, rule) == [fns |-> fns, rule |-> rule]

CpuReadWrappers ==
    {Counting({"CpuGetInfo", "CpuGetPerfData"}, "none"),
     Counting({"CpuGetUsage"}, "remediated"),
     Counting({"CpuGetFreqAbility"}, "remediatedOnFailure")}
CpuFreqWrappers ==
    {Counting({"CpuGetFreqRange", "CpuSetFreqRange", "CpuGetFreqGovernor",
               "CpuSetFreqGovernor", "CpuSetFreq"}, "none"),
     Counting({"CpuGetFreq"}, "always")}
DiskWrappers ==
    {Counting({"DiskSetPwrLevel", "DiskSetScsiPolicy"}, "none"),
     Counting({"DiskGetList", "DiskGetLoad", "DiskGetPwrLevel", "DiskGetScsiPolicy"},
              "onFailure")}
NetWrappers ==
    {Counting({"NetGetThrouth", "NetGetSpeedMod", "NetSetSpeedMod"}, "none"),
     Counting({"NetGetInfo"}, "remediated")}
UsbWrappers ==
    {Counting({"UsbSetAutoSuspend"}, "none"), Counting({"UsbGetAutoSuspend"}, "onFailure")}
ComWrappers == {Counting({"RequestControlAuth", "ReleaseControlAuth"}, "none")}
TaskWrappers == {Counting({"CreateDcTask", "DeleteDcTask"}, "none")}
SysWrappers == {Counting({"SysSetPowerState", "SysGetRtPowerInfo"}, "none")}
CpuDmaWrappers == {Counting({"CpuDmaGetLatency", "CpuDmaSetLatency"}, "none")}

Wrappers == ComWrappers \union TaskWrappers \union SysWrappers \union CpuReadWrappers
            \union CpuFreqWrappers \union CpuDmaWrappers \union DiskWrappers
            \union NetWrappers \union UsbWrappers

Follows(fn, rule) == \E row \in Wrappers : fn \in row.fns /\ row.rule = rule

\* The answer is cut to the size of the buffer; without one the size stays what it was.
Copied(code, n, room) == IF code = "SUCCESS" THEN Min({n, room}) ELSE room

Counts_NotRemediated(fn, code, n, room) ==
    IF Follows(fn, "remediated") /\ code = "SUCCESS" THEN {n}
    ELSE {IF Follows(fn, "always") THEN Copied(code, n, room) ELSE None}

\* The count the app finds, None where the wrapper leaves what was there.  After a failure
\* GetCpuFreqAbility looks at freqDomainStep of the app's own buffer.
CountsBy(rule, code, n, room) ==
    LET done == code = "SUCCESS"
    IN  CASE rule = "always" -> {Copied(code, n, room)}
          [] rule = "remediated" -> {IF done THEN Copied(code, n, room) ELSE None}
          [] rule = "remediatedOnFailure" -> IF done THEN {n} ELSE {None, room}
          [] rule = "onFailure" -> {room}
          [] OTHER -> {None}

Counts(fn, code, n, room) ==
    UNION {CountsBy(row.rule, code, n, room) : row \in {w \in Wrappers : fn \in w.fns}}

\* What the wrapper returns.  The daemon sends all MAX_ELEMENT_NAME_LEN bytes of a governor, of
\* which those after its terminator were never written: with a buffer of just that size (room 0
\* stands for it) the last byte decides.
Codes(fn, code, n) ==
    IF code # "SUCCESS" THEN {code}
    ELSE CASE ~Follows(fn, "none") /\ n = 0 -> {"ERR_WRONG_RESPONSE_FROM_SERVER"}
           [] fn = "CpuGetFreqGovernor" /\ call.room = 0 ->
                {"SUCCESS", "ERR_ANSWER_LONGER_THAN_SIZE"}
           [] OTHER -> {"SUCCESS"}

\* The call returns to the app, with an answer of n entries.
Return(fn, code, n) ==
    \E c \in Codes(fn, code, n) : \E k \in Counts(fn, c, n, call.room) :
        /\ result' = [fn |-> fn, code |-> c, room |-> call.room,
                      copied |-> Copied(c, n, call.room), count |-> k]
        /\ call' = NoCall
        /\ status' = CASE fn = "RequestControlAuth" /\ c = "SUCCESS" -> "AUTHED"
                       [] fn = "ReleaseControlAuth" /\ c = "SUCCESS" -> "REGISTERED"
                       [] OTHER -> status

\* A call of the app: the status, then the arguments, then the request.
Call(fn) ==
    /\ call.at = "idle"
    /\ \E row \in {r \in Checks : fn \in r.fns} : \E bad \in row.bad \union {"none"},
          room \in IF Follows(fn, "none") /\ fn # "CpuGetFreqGovernor" THEN {1}
                   ELSE Rooms :
        LET checked == CheckStatus(row.needs)
            refused == IF checked # "SUCCESS" THEN checked
                       ELSE IF bad # "none" THEN ErrorOf(bad) ELSE "SUCCESS"
        IN  \* a list has a place at least, and so has a PWR_NET_Info
            /\ Follows(fn, "always") \/ Follows(fn, "onFailure") \/ fn = "NetGetInfo" => room > 0
            /\ IF refused # "SUCCESS"
               THEN /\ result' = [fn |-> "none", code |-> refused, room |-> 0,
                                  copied |-> 0, count |-> None]
                    /\ UNCHANGED call
               ELSE /\ call' = [fn |-> fn, room |-> room, at |-> "sent"]
                    /\ result' = None
    /\ UNCHANGED <<machine, status, alive, reader, rest, perfFile, fresh>>

-----------------------------------------------------------------------------
(***************************************************************************)
(* How a thread of the daemon reads the machine.                           *)
(***************************************************************************)
GoOn(r, next) == reader' = [reader EXCEPT ![r].at = next]

Ends(r, code) == reader' = [reader EXCEPT ![r] = Stage("done", @.job, code)]
Fails(r) == Ends(r, "ERR_COMMON") /\ UNCHANGED rest

\* UsageToLong of line i of /proc/stat: -1 for the sum, then the number of each core that is
\* on-line in ascending order, -2 for other lines.
Line(cores, i) ==
    IF i = 0 THEN -1
    ELSE IF i > Cardinality(cores) THEN -2
    ELSE CHOOSE c \in cores : Cardinality({d \in cores : d < c}) = i - 1

SameLines_NotCompared(first, second) ==
    CoreNum < 1 + Cardinality(first) + OtherLines

\* CPUUsageRead compares two readings line by line, and wants a line for each configured core.
SameLines(first, second) ==
    \A i \in 0 .. CoreNum :
        /\ i < 1 + Cardinality(first) + OtherLines
        /\ i < 1 + Cardinality(second) + OtherLines
        /\ Line(first, i) = Line(second, i)

\* The memory the entries are written to: GetCpuUsage clears eight bytes of what malloc gave it,
\* CreateMedataObject all of it.
Memory(r) == IF r = Service THEN "garbage" ELSE "zeros"

\* The entry of each configured core after CalculateUsage of every line, with the cores whose
\* lines its usage was taken from.  Other lines write the last core's entry again, from columns
\* that UsageToLong left as they were.
Entries(r, first, second) ==
    [c \in Core |->
        LET places == {i \in 1 .. Cardinality(first) : Line(first, i) = c}
        IN  [holds |-> IF places = {} THEN Memory(r) ELSE "usage",
             of |-> {c1 \in Core : \E i \in places : c1 \in {Line(first, i), Line(second, i)}}]]

CPUUsageRead(r) ==
    /\ \/ /\ reader[r].at = "first"
          /\ reader' = [reader EXCEPT ![r].at = "second", ![r].first = online]
       \/ /\ reader[r].at = "second" /\ SameLines(reader[r].first, online)
          /\ reader' = [reader EXCEPT ![r].at = "done", ![r].second = online]
       \/ /\ reader[r].at = "second" /\ ~SameLines(reader[r].first, online)
          /\ Ends(r, "ERR_COMMON")
       \/ /\ reader[r].at \in {"first", "second"}   \* popen fails
          /\ Ends(r, "ERR_COMMON")
    /\ UNCHANGED <<rest, perfFile, fresh>>

\* CpuInfoRead splits each line of lscpu at the colon, with strtok: who is taking a list of
\* words apart meanwhile finds a piece of that line, or the end, at strtok(NULL).
SplitLine(r, next) ==
    LET scanning == {x \in Reader \ {r} : reader[x].at = "scan"}
    IN  /\ rest' \in IF scanning = {} THEN {rest} ELSE {<<Foreign>>, <<>>}
        /\ reader' = [x \in Reader |->
                IF x = r THEN [reader[x] EXCEPT !.at = next]
                ELSE IF x \in scanning THEN [reader[x] EXCEPT !.mixed = TRUE]
                ELSE reader[x]]

CpuInfoRead(r) ==
    /\ reader[r].at = "info"
    /\ SplitLine(r, "info") \/ SplitLine(r, "done") \/ Fails(r)
    /\ UNCHANGED <<perfFile, fresh>>

\* PerfDataRead asks for the architecture, lets the shell run perf into perf.txt, which empties
\* the file first, and reads it.
GetArch(r) ==
    /\ reader[r].at = "arch"
    /\ \/ SplitLine(r, "arch") \/ SplitLine(r, "run")
       \/ Fails(r)                      \* neither aarch64 nor x86_64
    /\ UNCHANGED <<perfFile, fresh>>

RunPerf(r) ==
    /\ reader[r].at = "run"
    /\ perfFile' = "empty"
    /\ reader' = [x \in Reader |->
            IF x = r THEN [reader[x] EXCEPT !.at = "running"]
            ELSE IF reader[x].at \in {"running", "read"} THEN [reader[x] EXCEPT !.mixed = TRUE]
            ELSE reader[x]]
    /\ UNCHANGED <<rest, fresh>>

PerfEnds(r) ==
    /\ reader[r].at = "running"
    /\ perfFile' \in {"figures", "text"}    \* "text" when perf cannot count
    /\ fresh' = {x \in Reader : reader[x].job = "perf" /\ reader[x].at # "done"}
    /\ GoOn(r, "read")
    /\ UNCHANGED rest

\* Without figures it divides 0 by 0 and reports SUCCESS.
ReadPerfFile(r) ==
    /\ reader[r].at = "read"
    /\ reader' = [reader EXCEPT ![r].at = "done",
          ![r].figures = IF perfFile = "figures" /\ r \notin fresh THEN "old" ELSE perfFile]
    /\ fresh' = fresh \ {r}
    /\ UNCHANGED <<rest, perfFile>>

PerfDataRead(r) == GetArch(r) \/ RunPerf(r) \/ PerfEnds(r) \/ ReadPerfFile(r)

\* GetCpuFreqAbility: the policies and the driver, the governors word by word, the domains.
\* Without a policy, the step of the domains is a division by zero.  FreqAbilityRead ends
\* without a return: any code may go out with complete data.
GetPolicys(r) ==
    /\ reader[r].at = "policys" /\ policies > 0
    /\ \/ GoOn(r, "governors") /\ UNCHANGED rest
       \/ Fails(r)
    /\ UNCHANGED <<perfFile, fresh>>

AllGovernorsRead(r) ==
    /\ \/ /\ reader[r].at = "governors"
          /\ \/ /\ reader' = [reader EXCEPT ![r].at = "scan", ![r].govs = <<Head(Available)>>]
                /\ rest' = Tail(Available)
             \/ Fails(r)
       \/ /\ reader[r].at = "scan" /\ rest # <<>>
          /\ Len(reader[r].govs) < MaxWords
          /\ reader' = [reader EXCEPT ![r].govs = Append(@, Head(rest))]
          /\ rest' = Tail(rest)
       \/ /\ reader[r].at = "scan"
          /\ rest = <<>> \/ Len(reader[r].govs) = MaxWords
          /\ GoOn(r, "domains")
          /\ UNCHANGED rest
    /\ UNCHANGED <<perfFile, fresh>>

FreqDomainRead(r) ==
    /\ reader[r].at = "domains"
    /\ \/ GoOn(r, "done")
       \/ \E c \in {"garbage", "ERR_COMMON"} : Ends(r, c)
    /\ rest' = <<>>
    /\ UNCHANGED <<perfFile, fresh>>

GetCpuFreqAbility(r) == GetPolicys(r) \/ AllGovernorsRead(r) \/ FreqDomainRead(r)

-----------------------------------------------------------------------------
(***************************************************************************)
(* The daemon.  ProcessReqMsg has no case for the DMA latency, for disks,  *)
(* network and USB: those requests are released without an answer.         *)
(***************************************************************************)
FirstStep == [CpuGetUsage |-> "first", CpuGetPerfData |-> "arch", CpuGetInfo |-> "info",
              CpuGetFreqAbility |-> "policys"]
JobOfRequest == [CpuGetUsage |-> "usage", CpuGetPerfData |-> "perf", CpuGetInfo |-> "info",
                 CpuGetFreqAbility |-> "ability"]

\* The handlers that are one step here, with the codes they answer.
Answering(fns, codes) == [fns |-> fns, codes |-> codes]

SysHandlers ==
    {Answering({"SysSetPowerState", "SysGetRtPowerInfo"}, {"SUCCESS", "ERR_COMMON"})}
ComHandlers ==
    {Answering({"CreateDcTask"}, {"SUCCESS", "ERR_SYS_EXCEPTION", "ERR_OVER_MAX_TASK_NUM"}),
     Answering({"DeleteDcTask", "ReleaseControlAuth"}, {"SUCCESS"}),
     Answering({"RequestControlAuth"}, {"SUCCESS", "ERR_CONTROL_AUTH_OWNED_BY_OTHERS"})}
CpuHandlers ==
    {Answering({"CpuGetFreqGovernor", "CpuGetFreqRange", "CpuSetFreqRange"},
               {"SUCCESS", "ERR_COMMON"}),
     Answering({"CpuGetFreq"}, {"SUCCESS", "ERR_COMMON", "ERR_POLICY_INVALIDE"}),
     Answering({"CpuSetFreqGovernor"}, {"SUCCESS", "ERR_COMMON", "ERR_INVALIDE_PARAM"}),
     Answering({"CpuSetFreq"}, {"SUCCESS", "ERR_COMMON", "ERR_POLICY_INVALIDE",
                                "ERR_GOVERNOR_INVALIDE", "ERR_FREQ_NOT_IN_RANGE"})}

Handlers == SysHandlers \union ComHandlers \union CpuHandlers
Handled == DOMAIN FirstStep \union UNION {row.fns : row \in Handlers}

Asked(fn) == alive /\ call.at = "sent" /\ call.fn = fn /\ reader[Service].at = "idle"

\* ProcessReqMsg begins a handler that reads in several steps.
BeginRead ==
    /\ \E fn \in DOMAIN FirstStep :
        /\ Asked(fn)
        /\ reader' = [reader EXCEPT ![Service] =
                Stage(FirstStep[fn], JobOfRequest[fn], "SUCCESS")]
    /\ call' = [call EXCEPT !.at = "taken"]
    /\ fresh' = fresh \ {Service}
    /\ UNCHANGED <<machine, status, result, alive, rest, perfFile>>

\* The answer of such a handler reaches the app: an entry for each configured core, also for
\* those whose entry was never written, or one for each policy.
AnswerRead ==
    /\ reader[Service].at = "done" /\ call.at = "taken"
    /\ Return(call.fn, reader[Service].code,
              IF call.fn = "CpuGetFreqAbility" THEN policies ELSE CoreNum)
    /\ reader' = [reader EXCEPT ![Service] = Idle]
    /\ UNCHANGED <<machine, alive, rest, perfFile, fresh>>

\* A handler that is one step; GetCpuFreq answers for the policies there are or, with
\* spec, for those that were named.
Answer ==
    /\ \E row \in Handlers : \E fn \in row.fns :
        /\ Asked(fn)
        /\ \E c \in row.codes :
            \E n \in IF fn # "CpuGetFreq" THEN {1} ELSE {policies} \union 1 .. Min({call.room, policies}) :
                Return(fn, c, n)
    /\ UNCHANGED <<machine, alive, reader, rest, perfFile, fresh>>

\* No handler, or the daemon has died: the call times out, or finds no connection.
NoAnswer ==
    /\ call.at # "idle"
    /\ \/ alive /\ call.fn \notin Handled
       \/ ~alive
    /\ \E c \in {"ERR_COMMON"} \union (IF alive THEN {} ELSE {"ERR_DISCONNECTED"}) :
        Return(call.fn, c, 0)
    /\ UNCHANGED <<machine, alive, reader, rest, perfFile, fresh>>

ServiceReads ==
    /\ \/ CPUUsageRead(Service) \/ CpuInfoRead(Service)
       \/ PerfDataRead(Service) \/ GetCpuFreqAbility(Service)
    /\ UNCHANGED <<machine, client, alive>>

\* step = (coreNum / poNum) * ... in GetCpuFreqAbility, with poNum = 0.
DivideByZero ==
    /\ reader[Service].at = "policys" /\ policies = 0
    /\ alive' = FALSE
    /\ reader' = [r \in Reader |-> Idle]
    /\ fresh' = {} /\ rest' = <<>>
    /\ UNCHANGED <<machine, client, perfFile>>

\* systemd starts the daemon again; the call of before is gone.
Restart ==
    /\ ~alive /\ call.at = "idle"
    /\ alive' = TRUE
    /\ UNCHANGED <<machine, client, reader, rest, perfFile, fresh>>

\* A collector reads for its task again and again.
BeginTask(first, job) ==
    /\ reader[Collector].at \in {"idle", "done"}
    /\ reader' = [reader EXCEPT ![Collector] = Stage(first, job, "SUCCESS")]
    /\ fresh' = fresh \ {Collector}
    /\ UNCHANGED <<rest, perfFile>>

TaskProcessCpuUsage ==
    /\ alive
    /\ BeginTask("first", "usage") \/ CPUUsageRead(Collector)
    /\ UNCHANGED <<machine, client, alive>>

TaskProcessCpuPerf ==
    /\ alive
    /\ BeginTask("arch", "perf") \/ PerfDataRead(Collector)
    /\ UNCHANGED <<machine, client, alive>>

\* A core is taken off-line or comes back.
Hotplug ==
    /\ \E c \in Core :
        online' \in {online \union {c}, online \ {c}} \ {{}}
    /\ online' # online
    /\ UNCHANGED <<policies, client, alive, reader, rest, perfFile, fresh>>

Next ==
    \/ \E fn \in Fn : Call(fn)
    \/ BeginRead \/ ServiceReads \/ AnswerRead \/ Answer \/ NoAnswer
    \/ DivideByZero \/ Restart
    \/ TaskProcessCpuUsage \/ TaskProcessCpuPerf
    \/ Hotplug

Spec == Init /\ [][Next]_vars

-----------------------------------------------------------------------------
Done(r, job) == reader[r].at = "done" /\ reader[r].job = job /\ reader[r].code = "SUCCESS"

(***************************************************************************)
(* CPUUsageRead pairs the lines of two readings by their place, with cores *)
(* going off-line and coming back between and before the two.  When it     *)
(* succeeds, every core that was on-line at either reading has a usage     *)
(* taken from lines of its own alone.  The other cores are reported with   *)
(* the rest, for coreNum is the number of configured cores: their entries  *)
(* hold what the memory held, zeros for a collector and anything at all    *)
(* for GetCpuUsage (cpuservice.c:716-722), although                        *)
(* RegisterOkCpuTest.cpp:121-132 expects every entry that is counted to    *)
(* have a number of its own and a usage from 0 to 1.                       *)
(***************************************************************************)
UsageIsOfOneCore ==
    \A r \in Reader : Done(r, "usage") =>
        LET first == reader[r].first
            second == reader[r].second
        IN  \A c \in Core :
                Entries(r, first, second)[c] =
                    IF c \in first \union second THEN [holds |-> "usage", of |-> {c}]
                    ELSE [holds |-> Memory(r), of |-> {}]

(***************************************************************************)
(* perf.txt is shared by the service thread and a collector.  The figures  *)
(* PerfDataRead reports come from a run that ended after it was asked, its *)
(* own or the other's.  It finds an empty file (and reports 0/0) only if   *)
(* the other one has just emptied it.                                      *)
(***************************************************************************)
FiguresAreNew ==
    \A r \in Reader : Done(r, "perf") =>
        reader[r].figures \in {"figures", "text"} \union
            (IF reader[r].mixed THEN {"empty"} ELSE {})

(***************************************************************************)
(* GetCpuFreqAbility reports the governors of the machine in their order,  *)
(* unless a collector used strtok between two words: then the list may end *)
(* early or hold a word of lscpu, and still begins with a true governor.   *)
(***************************************************************************)
GovernorsAreTrue ==
    Done(Service, "ability") =>
        /\ ~reader[Service].mixed => reader[Service].govs = Available
        /\ Head(reader[Service].govs) = Head(Available)

\* What the reading functions promise each other's users, whatever runs beside them.
ReadingsAreTrue == UsageIsOfOneCore /\ FiguresAreNew /\ GovernorsAreTrue

(***************************************************************************)
(* After SUCCESS the count an app finds is the number of entries that are  *)
(* in its buffer, also when it had less room than there was to say.  The   *)
(* exception is GetCpuFreqAbility, which corrects freqDomainNum only after *)
(* a failure: there, no more than what fits is promised when all fits.     *)
(***************************************************************************)
CountIsOfTheBuffer ==
    result # None /\ result.code = "SUCCESS" /\ result.count # None =>
        \/ result.count = result.copied
        \/ result.fn = "CpuGetFreqAbility" /\ result.room < policies
=============================================================================
