------------------------------- MODULE CpuFreq -------------------------------
(***************************************************************************)
(* The frequency operations of the CPU service                             *)
(* (pwrapis/src/cpuservice.c): governor, frequency range and frequency of  *)
(* the cpufreq policies, read and written through sysfs.                   *)
(*                                                                         *)
(* The service thread handles one request at a time.  It reads, decides,   *)
(* and then writes one file after the other; each write is a step, because *)
(* the daemon can die between two of them (SIGPIPE in the socket thread)   *)
(* and other processes may write the same files.  The files hold kHz; the  *)
(* API's ranges are whole MHz and its frequencies doubles in MHz, taken    *)
(* here in steps of a kHz.  The kernel behind the files is external.       *)
(***************************************************************************)
EXTENDS Naturals, Sequences, FiniteSets, SequencesExt

CONSTANTS
    Listing,        \* the policies as "ls | grep policy" lists them, by name
    CpuNum,         \* _SC_NPROCESSORS_CONF
    Id,             \* policy ids requests name, known or not
    Governor,       \* names of governors requests give, available or not
    Available,      \* scaling_available_governors
    Userspace,      \* the governor that lets frequencies be set
    THOUSAND,       \* kHz in a MHz
    Limit,          \* values of scaling_min_freq and scaling_max_freq
    Freq,           \* frequencies that apps give, in kHz
    MaxTargets,     \* bound on the targets of a request
    None

Policy == {Listing[k] : k \in DOMAIN Listing}

VARIABLES
    governor,       \* scaling_governor of each policy
    range,          \* scaling_min_freq and scaling_max_freq of each policy
    freq,           \* the frequency each policy runs at
    at,             \* where the service thread is in its handler
    req,            \* the request it handles
    code,           \* rspCode of SetCpuFreq
    i,              \* the write that comes next
    rsp,            \* the last answer: the request, the code and the data
    mixed,          \* files a request left half written, or others have written
    disturbed       \* another process has written, or a command did not do its work,
                    \* since the request came: history, no guard reads it

sysfs == <<governor, range, freq>>
vars == <<sysfs, at, req, code, i, rsp, mixed, disturbed>>

\* What is left of a frequency that is converted to an int of MHz and back.
Whole(f) == (f \div THOUSAND) * THOUSAND

\* The limits an app can give: whole MHz, the unit of PWR_CPU_FreqRange.
MHz == {f \div THOUSAND : f \in {l \in Limit : Whole(l) = l}}

\* A range in MHz as it is written to the files.
InKHz(r) == [min |-> r.min * THOUSAND, max |-> r.max * THOUSAND]

FreqRange == {r \in [min : Limit, max : Limit] : r.min <= r.max}
Target == [policyId : Id, curFreq : Freq]

\* What the API lets through: PWR_CPU_SetFreq and PWR_CPU_GetFreq refuse no targets
\* (GetFreq without targets is spec 0), SetFreqRange compares nothing.
Request ==
    [op : {"SetGovernor"}, arg : Governor]
      \union [op : {"SetRange"}, arg : [min : MHz, max : MHz]]
      \union [op : {"SetFreq"}, arg : BoundedSeq(Target, MaxTargets) \ {<<>>}]
      \union [op : {"GetFreq"}, arg : BoundedSeq(Id, MaxTargets)]
      \union [op : {"GetGovernor", "GetRange"}, arg : {<<>>}]

ASSUME CpuFreqAssumption ==
    /\ CpuNum \in Nat
    /\ Listing \in Seq(0 .. CpuNum - 1)
    /\ \A k, l \in DOMAIN Listing : Listing[k] = Listing[l] => k = l
    /\ 0 \in Policy
    /\ Id \subseteq Nat
    /\ Userspace \in Available
    /\ Available \subseteq Governor
    /\ THOUSAND \in Nat \ {0}
    /\ Limit \subseteq Nat
    /\ Freq \subseteq Nat
    /\ MaxTargets \in Nat
    /\ None \notin Request

\* The machine has booted: all policies have the same settings.
Init ==
    /\ governor \in {[p \in Policy |-> g] : g \in Available}
    /\ range \in {[p \in Policy |-> r] : r \in FreqRange}
    /\ freq = [p \in Policy |-> range[p].max]
    /\ at = "idle" /\ req = None /\ code = "SUCCESS" /\ i = 1
    /\ rsp = None
    /\ mixed = {}
    /\ disturbed = FALSE

(***************************************************************************)
(* The kernel.                                                             *)
(***************************************************************************)
Clamp(f, r) == IF f < r.min THEN r.min ELSE IF f > r.max THEN r.max ELSE f

\* The frequencies a policy may run at under a governor and a range: with userspace the
\* one it had, as far as the range allows; with another governor the maximum (performance)
\* or the minimum (powersave), which stand for those between as well.
Settled(f, g, r) == IF g = Userspace THEN {Clamp(f, r)} ELSE {r.min, r.max}

\* scaling_governor of p is written.
WriteGovernor(p, g) ==
    /\ governor' = [governor EXCEPT ![p] = g]
    /\ \E f \in Settled(freq[p], g, range[p]) : freq' = [freq EXCEPT ![p] = f]
    /\ UNCHANGED range

\* scaling_min_freq or scaling_max_freq of p is written; the kernel refuses a minimum
\* above the maximum.
WriteRange(p, r) ==
    /\ r.min <= r.max
    /\ range' = [range EXCEPT ![p] = r]
    /\ \E f \in Settled(freq[p], governor[p], r) : freq' = [freq EXCEPT ![p] = f]
    /\ UNCHANGED governor

\* scaling_setspeed of p is written, with effect only under userspace.
WriteSpeed(p, f) ==
    /\ freq' = IF p \in Policy /\ governor[p] = Userspace
               THEN [freq EXCEPT ![p] = Clamp(f, range[p])] ELSE freq
    /\ UNCHANGED <<governor, range>>

\* Another process changes the settings of a policy.
ChangeOutside ==
    /\ \E p \in Policy :
          \/ \E g \in Available : WriteGovernor(p, g)
          \/ \E r \in FreqRange : WriteRange(p, r)
    /\ disturbed' = TRUE
    /\ mixed' = {"governor", "range"}
    /\ UNCHANGED <<at, req, code, i, rsp>>

(***************************************************************************)
(* Requests and answers.                                                   *)
(***************************************************************************)
ReceiveRequest ==
    /\ at = "idle"
    /\ req' \in Request
    /\ at' = IF req'.op = "SetRange" THEN "write" ELSE "check"
    /\ code' = "SUCCESS" /\ i' = 1
    /\ rsp' = None
    /\ disturbed' = FALSE
    /\ UNCHANGED <<sysfs, mixed>>

\* SendRspToClient, and the thread waits for the next request.
Answer(c, data) ==
    /\ rsp' = [op |-> req.op, arg |-> req.arg, code |-> c, data |-> data]
    /\ at' = "idle" /\ req' = None /\ code' = "SUCCESS" /\ i' = 1

(***************************************************************************)
(* GetCpuFreq.                                                             *)
(***************************************************************************)
\* Bubble sort: n passes over neighbours, each one shorter than the one before.
Swap(s, j) ==
    IF s[j].policyId > s[j + 1].policyId
    THEN [s EXCEPT ![j] = s[j + 1], ![j + 1] = s[j]] ELSE s

FreqSortByPolicy_ShortPasses(s) ==
    LET Pass(t, k) == FoldLeft(Swap, t, [j \in 1 .. Len(s) - k - 1 |-> j])
    IN  FoldLeft(Pass, s, [k \in 1 .. Len(s) |-> k])

FreqSortByPolicy(s) ==
    LET Pass(t, k) == FoldLeft(Swap, t, [j \in 1 .. Len(s) - k |-> j])
    IN  FoldLeft(Pass, s, [k \in 1 .. Len(s) |-> k])

\* validId: the ids below cpuNum that are named, each once, ascending.
MergeDuplicatePolicys(ids) ==
    LET valid == {ids[k] : k \in DOMAIN ids} \intersect (0 .. CpuNum - 1)
    IN  CHOOSE s \in [1 .. Cardinality(valid) -> valid] :
            \A a, b \in DOMAIN s : a < b => s[a] < s[b]

\* CheckPolicys finds that all of them exist.
AllKnown(ids) == \A k \in DOMAIN ids : ids[k] \in Policy

\* InputTargetPolicys writes the id of the first target into every name.
InputTargetPolicys(ids) == [k \in DOMAIN ids |-> ids[1]]

\* FreqRead, which sorts what it has read.
FreqRead(policys) ==
    FreqSortByPolicy([k \in DOMAIN policys |->
        [policyId |-> policys[k], curFreq |-> freq[policys[k]]]])

\* With targets: those that remain after the merge must exist, and are read.  Without:
\* all policies are read.  A command that does not start ends it with an error.
GetCpuFreq ==
    /\ at = "check" /\ req.op = "GetFreq"
    /\ LET merged == MergeDuplicatePolicys(req.arg)
       IN  \/ req.arg = <<>> /\ Answer("SUCCESS", FreqRead(Listing))
           \/ /\ req.arg # <<>>
              /\ IF AllKnown(merged)
                 THEN Answer("SUCCESS", FreqRead(InputTargetPolicys(merged)))
                 ELSE Answer("ERR_POLICY_INVALIDE", <<>>)
           \/ \E c \in {"ERR_COMMON", "ERR_POLICY_INVALIDE"} : Answer(c, <<>>)
    /\ UNCHANGED <<sysfs, mixed, disturbed>>

(***************************************************************************)
(* GetCpuFreqGovernor and GetCpuFreqRange: what they read is policy0's.    *)
(***************************************************************************)
GetCpuFreqGovernor ==
    /\ at = "check" /\ req.op = "GetGovernor"
    /\ Answer("SUCCESS", governor[0]) \/ Answer("ERR_COMMON", <<>>)
    /\ UNCHANGED <<sysfs, mixed, disturbed>>

\* The range of policy0 as FreqRangeRead gives it: cut to whole MHz.
RangeOfPolicy0 ==
    [min |-> range[0].min \div THOUSAND, max |-> range[0].max \div THOUSAND]

GetCpuFreqRange ==
    /\ at = "check" /\ req.op = "GetRange"
    /\ Answer("SUCCESS", RangeOfPolicy0) \/ Answer("ERR_COMMON", <<>>)
    /\ UNCHANGED <<sysfs, mixed, disturbed>>

(***************************************************************************)
(* The checks of the requests that write.                                  *)
(***************************************************************************)
\* SetCpuFreqGovernor checks that the governor is available for every policy.  It does
\* not look whether GetPolicys could list them: the number of policies is undefined then,
\* and the answer may be SUCCESS with nothing written.
CheckAvailableGovernor ==
    /\ at = "check" /\ req.op = "SetGovernor"
    /\ \/ /\ req.arg \in Available
          /\ at' = "write"
          /\ UNCHANGED <<req, code, i, rsp, disturbed>>
       \/ Answer("ERR_INVALIDE_PARAM", <<>>) /\ UNCHANGED disturbed
       \/ Answer("SUCCESS", <<>>) /\ disturbed' = TRUE
    /\ UNCHANGED <<sysfs, mixed>>

CurrentGovernorRead_Unchecked ==
    /\ at = "check" /\ req.op = "SetFreq"
    /\ at' = "range"
    /\ UNCHANGED <<sysfs, req, code, i, rsp, mixed, disturbed>>

\* SetCpuFreq reads the governor of policy0 only.  The check of the policies counts only
\* if they could not be listed: CheckPolicys answers ERR_INVALIDE_PARAM for an unknown
\* policy, and the code asks for 1.
CurrentGovernorRead ==
    /\ at = "check" /\ req.op = "SetFreq"
    /\ at' = "range"
    /\ code' \in {"ERR_COMMON", "ERR_POLICY_INVALIDE",
                  IF governor[0] = Userspace THEN "SUCCESS" ELSE "ERR_GOVERNOR_INVALIDE"}
    /\ UNCHANGED <<sysfs, req, i, rsp, mixed, disturbed>>

\* CheckFreqInRange: the frequencies as they were given, against a range in whole MHz.
InRange(targets, r) ==
    \A k \in DOMAIN targets :
        /\ targets[k].curFreq >= InKHz(r).min
        /\ targets[k].curFreq <= InKHz(r).max

\* FreqRangeRead reads the range of policy0 only; what it finds wrong replaces the code of
\* the first check.
FreqRangeRead ==
    /\ at = "range"
    /\ \E c \in {"ERR_COMMON", IF InRange(req.arg, RangeOfPolicy0) THEN code ELSE "ERR_FREQ_NOT_IN_RANGE"} :
          IF c = "SUCCESS"
          THEN at' = "write" /\ UNCHANGED <<req, code, i, rsp>>
          ELSE Answer(c, <<>>)
    /\ UNCHANGED <<sysfs, mixed, disturbed>>

(***************************************************************************)
(* The writes: GovernorSet, FreqRangeSet, FreqSet.                         *)
(***************************************************************************)
Write(file, p, v) == [file |-> file, policy |-> p, value |-> v]

Writes_OnlyPolicy0(r) ==
    CASE r.op = "SetGovernor" -> <<Write("governor", 0, r.arg)>>
      [] r.op = "SetRange" ->
            [k \in DOMAIN Listing |-> Write("min", Listing[k], InKHz(r.arg).min)]
              \o [k \in DOMAIN Listing |-> Write("max", Listing[k], InKHz(r.arg).max)]
      [] r.op = "SetFreq" ->
            [k \in DOMAIN r.arg |-> Write("speed", r.arg[k].policyId, Whole(r.arg[k].curFreq))]

Writes_NoMaximum(r) ==
    CASE r.op = "SetGovernor" -> [k \in DOMAIN Listing |-> Write("governor", Listing[k], r.arg)]
      [] r.op = "SetRange" -> [k \in DOMAIN Listing |-> Write("min", Listing[k], InKHz(r.arg).min)]
      [] r.op = "SetFreq" ->
            [k \in DOMAIN r.arg |-> Write("speed", r.arg[k].policyId, Whole(r.arg[k].curFreq))]

\* The governor of every policy; the minimum of every policy, then every maximum; the
\* frequency of every target, of which the conversion to int drops what is below a MHz.
Writes(r) ==
    CASE r.op = "SetGovernor" -> [k \in DOMAIN Listing |-> Write("governor", Listing[k], r.arg)]
      [] r.op = "SetRange" ->
            [k \in DOMAIN Listing |-> Write("min", Listing[k], InKHz(r.arg).min)]
              \o [k \in DOMAIN Listing |-> Write("max", Listing[k], InKHz(r.arg).max)]
      [] r.op = "SetFreq" ->
            [k \in DOMAIN r.arg |-> Write("speed", r.arg[k].policyId, Whole(r.arg[k].curFreq))]

\* The settings a request makes uniform if it succeeds and may leave mixed if it fails.
Kind(r) == CASE r.op = "SetGovernor" -> {"governor"}
             [] r.op = "SetRange" -> {"range"}
             [] OTHER -> {}

\* The effect of a write on the files.
Apply(w) ==
    CASE w.file = "governor" -> WriteGovernor(w.policy, w.value)
      [] w.file = "min" -> WriteRange(w.policy, [range[w.policy] EXCEPT !.min = w.value])
      [] w.file = "max" -> WriteRange(w.policy, [range[w.policy] EXCEPT !.max = w.value])
      [] w.file = "speed" -> WriteSpeed(w.policy, w.value)

\* One write is done; after the last one the answer is SUCCESS.
GoOn_PastTheEnd ==
    /\ i' = i + 1
    /\ UNCHANGED <<at, req, code, rsp>>

GoOn_LeavesLastOut ==
    IF i < Len(Writes(req)) - 1
    THEN i' = i + 1 /\ UNCHANGED <<at, req, code, rsp>>
    ELSE Answer("SUCCESS", <<>>)

GoOn ==
    IF i < Len(Writes(req))
    THEN i' = i + 1 /\ UNCHANGED <<at, req, code, rsp>>
    ELSE Answer("SUCCESS", <<>>)

WriteFile ==
    /\ at = "write"
    /\ Apply(Writes(req)[i])
    /\ GoOn
    /\ mixed' = IF i = Len(Writes(req)) /\ ~disturbed THEN mixed \ Kind(req) ELSE mixed
    /\ UNCHANGED disturbed

\* The shell that runs "echo" does not tell whether the kernel took the value.
EchoIsRefused ==
    /\ at = "write" /\ req.op # "SetRange"
    /\ GoOn
    /\ disturbed' = TRUE
    /\ mixed' = mixed \union Kind(req)
    /\ UNCHANGED sysfs

\* A command does not start, or a file of the range refuses the value: the handler stops
\* there, and what it has written remains.
WriteFails ==
    /\ at = "write"
    /\ Answer("ERR_COMMON", <<>>)
    /\ mixed' = IF i = 1 THEN mixed ELSE mixed \union Kind(req)
    /\ UNCHANGED <<sysfs, disturbed>>

\* The daemon dies in the middle of a handler, and systemd starts it again.
Restart ==
    /\ at # "idle"
    /\ at' = "idle" /\ req' = None /\ code' = "SUCCESS" /\ i' = 1
    /\ mixed' = IF at = "write" /\ i > 1 THEN mixed \union Kind(req) ELSE mixed
    /\ UNCHANGED <<sysfs, rsp, disturbed>>

Handle ==
    \/ GetCpuFreq
    \/ GetCpuFreqGovernor
    \/ GetCpuFreqRange
    \/ CheckAvailableGovernor
    \/ CurrentGovernorRead
    \/ FreqRangeRead
    \/ WriteFile
    \/ EchoIsRefused
    \/ WriteFails

Next == ReceiveRequest \/ Handle \/ Restart \/ ChangeOutside

Spec == Init /\ [][Next]_vars

(***************************************************************************)
(* Properties.                                                             *)
(***************************************************************************)
Code == {"SUCCESS", "ERR_COMMON", "ERR_INVALIDE_PARAM", "ERR_POLICY_INVALIDE",
         "ERR_GOVERNOR_INVALIDE", "ERR_FREQ_NOT_IN_RANGE"}

TypeOK ==
    /\ governor \in [Policy -> Available]
    /\ range \in [Policy -> FreqRange]
    /\ freq \in [Policy -> Nat]
    /\ at \in {"idle", "check", "range", "write"}
    /\ req \in Request \union {None}
    /\ at = "idle" <=> req = None
    /\ code \in Code
    /\ i \in Nat \ {0}
    /\ at = "write" => i \in DOMAIN Writes(req)
    /\ mixed \subseteq {"governor", "range"}
    /\ disturbed \in BOOLEAN

BeingWritten == IF at = "write" THEN Kind(req) ELSE {}

\* The settings are the same for all policies, unless a request failed, or the daemon died,
\* after its first write, or another process wrote, and no request for that setting has
\* succeeded since: the checks of SetCpuFreq, which look at policy0, hold for all then.
UniformUnlessMixed ==
    \A p, q \in Policy :
        /\ ("governor" \notin mixed \union BeingWritten) => governor[p] = governor[q]
        /\ ("range" \notin mixed \union BeingWritten) => range[p] = range[q]

\* After SUCCESS every policy has the governor or the range that was asked for, even after
\* an earlier request failed half way, unless something else interfered meanwhile.
SuccessIsForAllPolicies ==
    (rsp # None /\ rsp.code = "SUCCESS" /\ ~disturbed) =>
        \A p \in Policy :
            /\ rsp.op = "SetGovernor" => governor[p] = rsp.arg
            /\ rsp.op = "SetRange" => range[p] = InKHz(rsp.arg)

\* GetCpuFreqGovernor and GetCpuFreqRange have no policy to name and read policy0, yet what
\* they answer is true of every policy, the range to the whole MHz below, unless an earlier
\* failure left the policies different or another process wrote.
ReadsHoldForAll ==
    (rsp # None /\ rsp.code = "SUCCESS" /\ ~disturbed) =>
        \A p \in Policy :
            /\ (rsp.op = "GetGovernor" /\ "governor" \notin mixed) => governor[p] = rsp.data
            /\ (rsp.op = "GetRange" /\ "range" \notin mixed) =>
                  /\ range[p].min \div THOUSAND = rsp.data.min
                  /\ range[p].max \div THOUSAND = rsp.data.max

\* Policy p runs within the MHz of f, and at exactly f if that and the minimum are whole.
RunsAt(p, f) ==
    /\ freq[p] \div THOUSAND = f \div THOUSAND
    /\ (Whole(f) = f /\ Whole(range[p].min) = range[p].min) => freq[p] = f

\* After SUCCESS of SetCpuFreq, each policy named runs within the same MHz as the last
\* frequency given for it, though governor and range were checked for policy0 only: provided
\* no earlier failure left them different for other policies.  It need not run at that
\* frequency: FreqSet drops what is below a MHz (cpuservice.c:542), and the range it was
\* checked against had been cut to whole MHz (643, 647), so that the kernel may raise it to
\* its minimum.  It runs at exactly the frequency given when that and the minimum are whole.
SuccessSetsFrequencies ==
    (rsp # None /\ rsp.op = "SetFreq" /\ rsp.code = "SUCCESS" /\ ~disturbed /\ mixed = {}) =>
        \A k \in DOMAIN rsp.arg :
            (/\ rsp.arg[k].policyId \in Policy
             /\ \A l \in DOMAIN rsp.arg : l > k => rsp.arg[l].policyId # rsp.arg[k].policyId)
              => RunsAt(rsp.arg[k].policyId, rsp.arg[k].curFreq)

\* The data of GetCpuFreq is in the order of the policies and true; without targets it has
\* each policy once, with targets as many entries as different ids below CpuNum were
\* named, all of policies that were named.
FrequenciesAreTrue ==
    (rsp # None /\ rsp.op = "GetFreq" /\ rsp.code = "SUCCESS") =>
        LET data == rsp.data
            asked == {rsp.arg[k] : k \in DOMAIN rsp.arg}
        IN  /\ \A k, l \in DOMAIN data : k < l => data[k].policyId <= data[l].policyId
            /\ \A k \in DOMAIN data : data[k].policyId \in Policy
            /\ ~disturbed => \A k \in DOMAIN data : data[k].curFreq = freq[data[k].policyId]
            /\ asked = {} => /\ Len(data) = Cardinality(Policy)
                             /\ \A p \in Policy : \E k \in DOMAIN data : data[k].policyId = p
            /\ asked # {} => /\ Len(data) = Cardinality(asked \intersect (0 .. CpuNum - 1))
                             /\ \A k \in DOMAIN data : data[k].policyId \in asked
=============================================================================
