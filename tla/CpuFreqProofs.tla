--------------------------- MODULE CpuFreqProofs ---------------------------
(***************************************************************************)
(* Proofs about the settings of module CpuFreq, for any number of policies *)
(* in any order of listing, any governors, frequencies and requests.       *)
(***************************************************************************)
EXTENDS CpuFreq, FiniteSetTheorems, TLAPS

(***************************************************************************)
(* The inductive invariant.  Progress: without interference, the policies  *)
(* before the next write have the new setting.  A handler that has written *)
(* nothing yet has changed nothing.                                        *)
(***************************************************************************)
HandlerOK ==
    /\ at = "write" => req.op \in {"SetGovernor", "SetRange", "SetFreq"}
    /\ (at = "write" /\ req.op = "SetGovernor") => req.arg \in Available
    /\ at # "idle" => rsp = None
    /\ at \in {"check", "range"} => i = 1
    /\ at = "range" => req.op = "SetFreq"
    /\ (at # "idle" /\ disturbed) => Kind(req) \subseteq mixed

Progress ==
    (at = "write" /\ ~disturbed) =>
        \A k \in DOMAIN Listing :
            /\ (req.op = "SetGovernor" /\ k < i) => governor[Listing[k]] = req.arg
            /\ (req.op = "SetRange" /\ k < i) => range[Listing[k]].min = InKHz(req.arg).min
            /\ (req.op = "SetRange" /\ Len(Listing) + k < i) =>
                  range[Listing[k]].max = InKHz(req.arg).max

NothingWritten ==
    (at # "write" \/ i = 1) =>
        \A p, q \in Policy :
            /\ "governor" \notin mixed => governor[p] = governor[q]
            /\ "range" \notin mixed => range[p] = range[q]

Inv == /\ TypeOK
       /\ HandlerOK
       /\ Progress
       /\ NothingWritten
       /\ UniformUnlessMixed
       /\ SuccessIsForAllPolicies
       /\ ReadsHoldForAll

\* The policies listed are processors, and there is one at least.
LEMMA ListingFacts ==
    /\ Len(Listing) \in Nat \ {0}
    /\ DOMAIN Listing = 1 .. Len(Listing)
    /\ \A k \in DOMAIN Listing : Listing[k] \in Policy
    /\ \A p \in Policy : \E k \in DOMAIN Listing : p = Listing[k]
    /\ Policy \subseteq Nat
  <1>1. Len(Listing) \in Nat /\ DOMAIN Listing = 1 .. Len(Listing)
    BY CpuFreqAssumption
  <1>2. \E k \in DOMAIN Listing : 0 = Listing[k]
    BY CpuFreqAssumption DEF Policy
  <1>3. Len(Listing) # 0
    BY <1>1, <1>2
  <1>4. \A k \in 1 .. Len(Listing) : Listing[k] \in 0 .. CpuNum - 1
    BY CpuFreqAssumption
  <1>5. Policy \subseteq Nat
    BY <1>1, <1>4, CpuFreqAssumption DEF Policy
  <1> QED
    BY <1>1, <1>3, <1>5 DEF Policy

(***************************************************************************)
(* Frequencies in kHz and in MHz.                                          *)
(***************************************************************************)
LEMMA QuotientFacts ==
    ASSUME NEW n \in Nat
    PROVE  /\ n \div THOUSAND \in Nat
           /\ Whole(n) \in Nat /\ Whole(n) <= n /\ n < Whole(n) + THOUSAND
  <1> QED
    BY CpuFreqAssumption DEF Whole

\* The quotient is the only number with these bounds.
LEMMA QuotientUnique ==
    ASSUME NEW n \in Nat, NEW q \in Nat, q * THOUSAND <= n, n < q * THOUSAND + THOUSAND
    PROVE  n \div THOUSAND = q
  <1> QED
    BY CpuFreqAssumption

\* The next MHz is THOUSAND kHz away.
LEMMA MHzOrder ==
    ASSUME NEW a \in Nat, NEW b \in Nat, a * THOUSAND < b * THOUSAND + THOUSAND
    PROVE  a <= b
  <1> QED
    BY CpuFreqAssumption

\* A frequency inside the range cut to whole MHz: what the kernel makes of its whole MHz
\* is in the same MHz.
LEMMA ClampFacts ==
    ASSUME NEW f \in Nat, NEW r, r.min \in Nat, r.max \in Nat,
           Whole(r.min) <= f, f <= Whole(r.max)
    PROVE  /\ Clamp(Whole(f), r) \div THOUSAND = f \div THOUSAND
           /\ (Whole(f) = f /\ Whole(r.min) = r.min) => Clamp(Whole(f), r) = f
  <1> DEFINE q == f \div THOUSAND
             m == r.min \div THOUSAND
  <1>1. q \in Nat /\ m \in Nat /\ Whole(f) = q * THOUSAND /\ Whole(r.min) = m * THOUSAND
    BY QuotientFacts DEF Whole
  <1>2. /\ Whole(f) \in Nat /\ Whole(f) <= f /\ f < Whole(f) + THOUSAND
        /\ Whole(r.min) \in Nat /\ Whole(r.min) <= r.min /\ r.min < Whole(r.min) + THOUSAND
        /\ Whole(r.max) \in Nat /\ Whole(r.max) <= r.max
    BY QuotientFacts
  <1>3. Whole(f) <= r.max /\ THOUSAND \in Nat \ {0}
    BY <1>2, CpuFreqAssumption
  <1>4. CASE Whole(f) < r.min
    <2>1. Clamp(Whole(f), r) = r.min
      BY <1>4 DEF Clamp
    <2>2. q <= m
      <3>1. q * THOUSAND < m * THOUSAND + THOUSAND
        BY <1>1, <1>2, <1>3, <1>4
      <3> QED
        BY ONLY <1>1, <3>1, MHzOrder
    <2>3. m <= q
      <3>1. m * THOUSAND < q * THOUSAND + THOUSAND
        BY <1>1, <1>2, <1>3
      <3> QED
        BY ONLY <1>1, <3>1, MHzOrder
    <2>4. m = q
      BY <1>1, <2>2, <2>3
    <2> QED
      BY <1>1, <1>2, <1>4, <2>1, <2>4
  <1>5. CASE ~(Whole(f) < r.min)
    <2>1. Clamp(Whole(f), r) = Whole(f)
      BY <1>2, <1>3, <1>5 DEF Clamp
    <2>2. Whole(f) \div THOUSAND = q
      <3>1. q * THOUSAND <= Whole(f) /\ Whole(f) < q * THOUSAND + THOUSAND
        BY <1>1, <1>2, <1>3
      <3> HIDE DEF q
      <3> QED
        BY <1>1, <1>2, <3>1, QuotientUnique
    <2> QED
      BY <2>1, <2>2
  <1> QED
    BY <1>4, <1>5

\* What a request's argument is.
LEMMA RequestFacts ==
    ASSUME NEW r \in Request
    PROVE  /\ r.op \in {"SetGovernor", "SetRange", "SetFreq", "GetFreq", "GetGovernor", "GetRange"}
           /\ r.op = "SetGovernor" => r.arg \in Governor
           /\ r.op = "SetRange" => InKHz(r.arg) \in [min : Limit, max : Limit]
           /\ r.op = "SetFreq" => r.arg \in Seq(Target) /\ r.arg # <<>>
  <1>1. \A s \in BoundedSeq(Target, MaxTargets) : s \in Seq(Target)
    BY CpuFreqAssumption DEF BoundedSeq, SeqOf
  <1>2. \A a \in [min : MHz, max : MHz] : InKHz(a) \in [min : Limit, max : Limit]
    BY DEF MHz, InKHz, Whole
  <1> QED
    BY <1>1, <1>2 DEF Request

\* Two sequences one after the other.
LEMMA ConcatFacts ==
    ASSUME NEW S, NEW T, NEW s \in Seq(S), NEW t \in Seq(T)
    PROVE  /\ Len(s \o t) = Len(s) + Len(t)
           /\ DOMAIN (s \o t) = 1 .. Len(s \o t)
           /\ \A k \in 1 .. Len(s) : (s \o t)[k] = s[k]
           /\ \A k \in 1 .. Len(t) : (s \o t)[Len(s) + k] = t[k]
  <1>1. s \in Seq(S \union T) /\ t \in Seq(S \union T)
    OBVIOUS
  <1> QED
    BY <1>1

\* The requests that write.
WritingOp == {"SetGovernor", "SetRange", "SetFreq"}

\* The writes of a request, one by one.
LEMMA WritesFacts ==
    ASSUME NEW r \in Request, r.op \in WritingOp
    PROVE  /\ DOMAIN Writes(r) = 1 .. Len(Writes(r)) /\ Len(Writes(r)) \in Nat \ {0}
           /\ r.op = "SetGovernor" =>
                 /\ Len(Writes(r)) = Len(Listing)
                 /\ \A k \in DOMAIN Listing : Writes(r)[k] = Write("governor", Listing[k], r.arg)
           /\ r.op = "SetRange" =>
                 /\ Len(Writes(r)) = Len(Listing) + Len(Listing)
                 /\ \A k \in DOMAIN Listing :
                       /\ Writes(r)[k] = Write("min", Listing[k], InKHz(r.arg).min)
                       /\ Writes(r)[Len(Listing) + k] = Write("max", Listing[k], InKHz(r.arg).max)
           /\ r.op = "SetFreq" =>
                 /\ Len(Writes(r)) = Len(r.arg)
                 /\ \A k \in DOMAIN r.arg :
                       Writes(r)[k] = Write("speed", r.arg[k].policyId, Whole(r.arg[k].curFreq))
  <1> USE ListingFacts, RequestFacts
  <1>1. CASE r.op = "SetGovernor"
    BY <1>1 DEF Writes
  <1>2. CASE r.op = "SetRange"
    <2> DEFINE lo == [k \in DOMAIN Listing |-> Write("min", Listing[k], InKHz(r.arg).min)]
               hi == [k \in DOMAIN Listing |-> Write("max", Listing[k], InKHz(r.arg).max)]
               S  == {lo[k] : k \in DOMAIN Listing}
               T  == {hi[k] : k \in DOMAIN Listing}
    <2>1. Writes(r) = lo \o hi
      BY <1>2 DEF Writes
    <2>2. lo \in Seq(S) /\ Len(lo) = Len(Listing)
      OBVIOUS
    <2>3. hi \in Seq(T) /\ Len(hi) = Len(Listing)
      OBVIOUS
    <2> HIDE DEF lo, hi, S, T
    <2>4. /\ Len(lo \o hi) = Len(Listing) + Len(Listing)
          /\ DOMAIN (lo \o hi) = 1 .. Len(lo \o hi)
          /\ \A k \in 1 .. Len(Listing) : (lo \o hi)[k] = lo[k] /\ (lo \o hi)[Len(Listing) + k] = hi[k]
      <3>1. /\ Len(lo \o hi) = Len(lo) + Len(hi)
            /\ DOMAIN (lo \o hi) = 1 .. Len(lo \o hi)
            /\ \A k \in 1 .. Len(lo) : (lo \o hi)[k] = lo[k]
            /\ \A k \in 1 .. Len(hi) : (lo \o hi)[Len(lo) + k] = hi[k]
        BY ONLY <2>2, <2>3, ConcatFacts, SMTT(30)
      <3> QED
        <4>1. /\ Len(lo \o hi) = Len(Listing) + Len(Listing)
              /\ DOMAIN (lo \o hi) = 1 .. Len(lo \o hi)
          BY <3>1, <2>2, <2>3
        <4>2. \A k \in 1 .. Len(Listing) : (lo \o hi)[k] = lo[k]
          BY <3>1, <2>2
        <4>3. \A k \in 1 .. Len(Listing) : (lo \o hi)[Len(Listing) + k] = hi[k]
          BY <3>1, <2>2, <2>3
        <4> QED
          BY <4>1, <4>2, <4>3
    <2> QED
      BY <1>2, <2>1, <2>4 DEF lo, hi
  <1>3. CASE r.op = "SetFreq"
    <2>1. r.arg \in Seq(Target) /\ Len(r.arg) \in Nat \ {0} /\ DOMAIN r.arg = 1 .. Len(r.arg)
      BY <1>3
    <2> QED
      BY <1>3, <2>1 DEF Writes
  <1> QED
    BY <1>1, <1>2, <1>3 DEF WritingOp

LEMMA InitInv == Init => Inv
  <1> SUFFICES ASSUME Init PROVE Inv
    OBVIOUS
  <1> USE CpuFreqAssumption, ListingFacts
  <1>1. PICK g \in Available : governor = [p \in Policy |-> g]
    BY DEF Init
  <1>2. PICK r \in FreqRange : range = [p \in Policy |-> r]
    BY DEF Init
  <1>3. \A p \in Policy : freq[p] \in Nat
    BY <1>2 DEF Init, FreqRange
  <1>4. TypeOK
    <2>1. governor \in [Policy -> Available] /\ range \in [Policy -> FreqRange]
      BY <1>1, <1>2
    <2>2. freq \in [Policy -> Nat]
      BY <1>3 DEF Init
    <2>3. at = "idle" /\ req = None /\ code \in Code /\ i \in Nat \ {0}
      BY DEF Init, Code
    <2>4. mixed \subseteq {"governor", "range"} /\ disturbed \in BOOLEAN
      BY DEF Init
    <2> QED
      BY ONLY <2>1, <2>2, <2>3, <2>4 DEF TypeOK
  <1> QED
    BY <1>1, <1>2, <1>4
       DEF Init, Inv, HandlerOK, Progress, NothingWritten, UniformUnlessMixed,
           BeingWritten, SuccessIsForAllPolicies, ReadsHoldForAll

(***************************************************************************)
(* The kernel keeps the types of the settings, and what a write touches.   *)
(***************************************************************************)
SysfsOK == /\ governor \in [Policy -> Available]
           /\ range \in [Policy -> FreqRange]
           /\ freq \in [Policy -> Nat]

LEMMA SettledFacts ==
    ASSUME NEW f \in Nat, NEW g, NEW r \in [min : Limit, max : Limit], r.min <= r.max
    PROVE  Settled(f, g, r) \subseteq Nat
  <1>1. r.min \in Nat /\ r.max \in Nat
    BY CpuFreqAssumption
  <1>2. Clamp(f, r) \in Nat
    BY <1>1 DEF Clamp
  <1> QED
    BY <1>1, <1>2 DEF Settled

LEMMA WriteGovernorFacts ==
    ASSUME SysfsOK, NEW p \in Policy, NEW g \in Available, WriteGovernor(p, g)
    PROVE  SysfsOK' /\ range' = range /\ governor' = [governor EXCEPT ![p] = g]
  <1>1. range[p] \in [min : Limit, max : Limit] /\ range[p].min <= range[p].max
    BY DEF SysfsOK, FreqRange
  <1>2. PICK f \in Settled(freq[p], g, range[p]) : freq' = [freq EXCEPT ![p] = f]
    BY DEF WriteGovernor
  <1>3. f \in Nat
    BY <1>1, <1>2, SettledFacts DEF SysfsOK
  <1> QED
    BY <1>2, <1>3 DEF SysfsOK, WriteGovernor

LEMMA WriteRangeFacts ==
    ASSUME SysfsOK, NEW p \in Policy, NEW r \in [min : Limit, max : Limit], WriteRange(p, r)
    PROVE  SysfsOK' /\ governor' = governor /\ range' = [range EXCEPT ![p] = r]
  <1>1. r \in FreqRange
    BY DEF WriteRange, FreqRange
  <1>2. PICK f \in Settled(freq[p], governor[p], r) : freq' = [freq EXCEPT ![p] = f]
    BY DEF WriteRange
  <1>3. f \in Nat
    BY <1>2, SettledFacts DEF SysfsOK, WriteRange
  <1> QED
    BY <1>1, <1>2, <1>3 DEF SysfsOK, WriteRange

LEMMA WriteSpeedFacts ==
    ASSUME SysfsOK, NEW p, NEW f \in Nat, WriteSpeed(p, f)
    PROVE  SysfsOK' /\ governor' = governor /\ range' = range
  <1>1. p \in Policy => Clamp(f, range[p]) \in Nat
    BY CpuFreqAssumption DEF SysfsOK, FreqRange, Clamp
  <1> QED
    BY <1>1 DEF SysfsOK, WriteSpeed

\* What the next write does.  In a range the write number k + n, n policies, is the
\* maximum of policy number k.
LEMMA ApplyFacts ==
    ASSUME Inv, at = "write", Apply(Writes(req)[i])
    PROVE  /\ SysfsOK'
           /\ req.op = "SetGovernor" =>
                 /\ range' = range
                 /\ i \in DOMAIN Listing
                 /\ governor' = [governor EXCEPT ![Listing[i]] = req.arg]
           /\ req.op = "SetRange" =>
                 /\ governor' = governor
                 /\ \A k \in DOMAIN Listing :
                       /\ i = k => range' = [range EXCEPT ![Listing[k]] =
                                                [range[Listing[k]] EXCEPT !.min = InKHz(req.arg).min]]
                       /\ i = Len(Listing) + k =>
                             range' = [range EXCEPT ![Listing[k]] =
                                                [range[Listing[k]] EXCEPT !.max = InKHz(req.arg).max]]
           /\ req.op = "SetFreq" => governor' = governor /\ range' = range
  <1> USE ListingFacts
  <1>0. SysfsOK /\ req \in Request /\ i \in DOMAIN Writes(req)
        /\ req.op \in {"SetGovernor", "SetRange", "SetFreq"} /\ i \in Nat
        /\ (req.op = "SetGovernor" => req.arg \in Available)
    BY CpuFreqAssumption DEF Inv, TypeOK, HandlerOK, SysfsOK
  <1>w. /\ DOMAIN Writes(req) = 1 .. Len(Writes(req))
        /\ req.op = "SetGovernor" =>
              /\ Len(Writes(req)) = Len(Listing)
              /\ \A k \in DOMAIN Listing : Writes(req)[k] = Write("governor", Listing[k], req.arg)
        /\ req.op = "SetRange" =>
              /\ Len(Writes(req)) = Len(Listing) + Len(Listing)
              /\ \A k \in DOMAIN Listing :
                    /\ Writes(req)[k] = Write("min", Listing[k], InKHz(req.arg).min)
                    /\ Writes(req)[Len(Listing) + k] = Write("max", Listing[k], InKHz(req.arg).max)
        /\ req.op = "SetFreq" =>
              /\ Len(Writes(req)) = Len(req.arg)
              /\ \A k \in DOMAIN req.arg :
                    Writes(req)[k] = Write("speed", req.arg[k].policyId, Whole(req.arg[k].curFreq))
    BY <1>0, WritesFacts DEF WritingOp
  <1>1. CASE req.op = "SetGovernor"
    <2>1. i \in DOMAIN Listing /\ Writes(req)[i] = Write("governor", Listing[i], req.arg)
      BY <1>0, <1>w, <1>1
    <2>2. WriteGovernor(Listing[i], req.arg)
      BY <2>1 DEF Apply, Write
    <2> QED
      BY <1>0, <1>1, <2>1, <2>2, WriteGovernorFacts
  <1>2. CASE req.op = "SetRange"
    <2>0. InKHz(req.arg) \in [min : Limit, max : Limit]
      BY <1>0, <1>2, RequestFacts
    <2>1. PICK k \in DOMAIN Listing : i = k \/ i = Len(Listing) + k
      <3>1. i \in DOMAIN Listing \/ i - Len(Listing) \in DOMAIN Listing
        BY <1>0, <1>w, <1>2
      <3>2. i = Len(Listing) + (i - Len(Listing))
        BY <1>0
      <3> QED
        BY <3>1, <3>2
    <2>2. range[Listing[k]] \in [min : Limit, max : Limit]
      BY <1>0 DEF SysfsOK, FreqRange
    <2>3. CASE i = k
      <3> DEFINE r == [range[Listing[k]] EXCEPT !.min = InKHz(req.arg).min]
      <3>1. WriteRange(Listing[k], r)
        <4>1. Writes(req)[i] = Write("min", Listing[k], InKHz(req.arg).min)
          BY <1>w, <1>2, <2>3
        <4> QED
          BY <4>1 DEF Apply, Write
      <3>2. r \in [min : Limit, max : Limit]
        BY <2>0, <2>2
      <3>3. SysfsOK' /\ governor' = governor /\ range' = [range EXCEPT ![Listing[k]] = r]
        BY <1>0, <3>1, <3>2, WriteRangeFacts
      <3>4. \A l \in DOMAIN Listing : (i = l => l = k) /\ i # Len(Listing) + l
        BY <2>3
      <3> QED
        BY <1>2, <3>3, <3>4
    <2>4. CASE i = Len(Listing) + k
      <3> DEFINE r == [range[Listing[k]] EXCEPT !.max = InKHz(req.arg).max]
      <3>1. WriteRange(Listing[k], r)
        <4>1. Writes(req)[i] = Write("max", Listing[k], InKHz(req.arg).max)
          BY <1>w, <1>2, <2>4
        <4> QED
          BY <4>1 DEF Apply, Write
      <3>2. r \in [min : Limit, max : Limit]
        BY <2>0, <2>2
      <3>3. SysfsOK' /\ governor' = governor /\ range' = [range EXCEPT ![Listing[k]] = r]
        BY <1>0, <3>1, <3>2, WriteRangeFacts
      <3>4. \A l \in DOMAIN Listing : (i = Len(Listing) + l => l = k) /\ i # l
        BY <2>4
      <3> QED
        BY <1>2, <3>3, <3>4
    <2> QED
      BY <2>1, <2>3, <2>4
  <1>3. CASE req.op = "SetFreq"
    <2>1. req.arg \in Seq(Target) /\ i \in DOMAIN req.arg
      BY <1>0, <1>w, <1>3, RequestFacts
    <2>2. req.arg[i] \in Target
      BY <2>1
    <2>3. Whole(req.arg[i].curFreq) \in Nat
      BY <2>2, QuotientFacts, CpuFreqAssumption DEF Target
    <2>4. WriteSpeed(req.arg[i].policyId, Whole(req.arg[i].curFreq))
      <3>1. Writes(req)[i] = Write("speed", req.arg[i].policyId, Whole(req.arg[i].curFreq))
        BY <1>w, <1>3, <2>1
      <3> QED
        BY <3>1 DEF Apply, Write
    <2> QED
      BY <1>0, <1>3, <2>3, <2>4, WriteSpeedFacts
  <1> QED
    BY <1>0, <1>1, <1>2, <1>3

(***************************************************************************)
(* The steps.                                                              *)
(***************************************************************************)
\* An answer that is an error, or one after interference, promises nothing; one to a request
\* that reads governor or range promises what policy0 has.
LEMMA AnswerStep ==
    ASSUME Inv, at # "idle", NEW c \in Code, NEW data, Answer(c, data),
           UNCHANGED <<sysfs, mixed>>, disturbed' \in BOOLEAN,
           c # "SUCCESS" \/ disturbed' \/ req.op \in {"GetFreq", "GetGovernor", "GetRange"},
           (c = "SUCCESS" /\ req.op = "GetGovernor") => data = governor[0],
           (c = "SUCCESS" /\ req.op = "GetRange") => data = RangeOfPolicy0,
           at # "write" \/ i = 1
    PROVE  Inv'
  <1> USE CpuFreqAssumption DEF Inv, sysfs
  <1>1. TypeOK'
    BY DEF TypeOK, Answer, Code
  <1>2. HandlerOK' /\ Progress'
    BY DEF HandlerOK, Progress, Answer
  <1>3. NothingWritten' /\ UniformUnlessMixed'
    BY DEF NothingWritten, UniformUnlessMixed, BeingWritten, Answer
  <1>4. SuccessIsForAllPolicies'
    BY DEF SuccessIsForAllPolicies, Answer
  <1>5. ReadsHoldForAll'
    <2>1. 0 \in Policy /\ NothingWritten
      OBVIOUS
    <2>2. /\ rsp' = [op |-> req.op, arg |-> req.arg, code |-> c, data |-> data]
          /\ UNCHANGED <<governor, range, mixed>>
      BY DEF Answer
    <2> QED
      BY <2>1, <2>2 DEF NothingWritten, ReadsHoldForAll, RangeOfPolicy0
  <1> QED
    BY <1>1, <1>2, <1>3, <1>4, <1>5

LEMMA ReceiveRequestStep ==
    ASSUME Inv, ReceiveRequest
    PROVE  Inv'
  <1> USE CpuFreqAssumption DEF Inv, ReceiveRequest, sysfs
  <1>1. req' \in Request /\ req' # None
    OBVIOUS
  <1>2. req'.op = "SetRange" => 1 \in DOMAIN Writes(req')
    BY <1>1, WritesFacts DEF WritingOp
  <1>3. TypeOK'
    <2>1. SysfsOK' /\ mixed' \subseteq {"governor", "range"}
      BY DEF TypeOK, SysfsOK
    <2>2. at' \in {"check", "write"} /\ (at' = "write" => i' \in DOMAIN Writes(req'))
      BY <1>2
    <2>3. at' # "idle" /\ i' \in Nat \ {0} /\ code' \in Code
      BY DEF Code
    <2>4. disturbed' \in BOOLEAN
      BY Zenon
    <2> HIDE DEF Inv, ReceiveRequest
    <2> QED
      BY <1>1, <2>1, <2>2, <2>3, <2>4 DEF TypeOK, SysfsOK
  <1>4. HandlerOK' /\ Progress'
    BY ListingFacts DEF HandlerOK, Progress
  <1>5. NothingWritten' /\ UniformUnlessMixed'
    BY DEF NothingWritten, UniformUnlessMixed, BeingWritten, TypeOK
  <1>6. SuccessIsForAllPolicies' /\ ReadsHoldForAll'
    BY DEF SuccessIsForAllPolicies, ReadsHoldForAll, HandlerOK
  <1> QED
    BY <1>3, <1>4, <1>5, <1>6

LEMMA GetCpuFreqStep ==
    ASSUME Inv, GetCpuFreq
    PROVE  Inv'
  <1>1. PICK c \in Code, data \in {<<>>, FreqRead(Listing),
                                  FreqRead(InputTargetPolicys(MergeDuplicatePolicys(req.arg)))} :
            Answer(c, data)
    BY DEF GetCpuFreq, Code
  <1>2. at = "check" /\ req.op = "GetFreq" /\ UNCHANGED <<sysfs, mixed, disturbed>>
    BY DEF GetCpuFreq
  <1>3. disturbed' \in BOOLEAN
    BY <1>2 DEF Inv, TypeOK
  <1> QED
    BY <1>1, <1>2, <1>3, AnswerStep

LEMMA GetCpuFreqGovernorStep ==
    ASSUME Inv, GetCpuFreqGovernor
    PROVE  Inv'
  <1>1. at = "check" /\ req.op = "GetGovernor" /\ UNCHANGED <<sysfs, mixed, disturbed>>
    BY DEF GetCpuFreqGovernor
  <1>2. disturbed' \in BOOLEAN
    BY <1>1 DEF Inv, TypeOK
  <1>3. CASE Answer("SUCCESS", governor[0])
    BY <1>1, <1>2, <1>3, AnswerStep DEF Code
  <1>4. CASE Answer("ERR_COMMON", <<>>)
    BY <1>1, <1>2, <1>4, AnswerStep DEF Code
  <1> QED
    BY <1>3, <1>4 DEF GetCpuFreqGovernor

LEMMA GetCpuFreqRangeStep ==
    ASSUME Inv, GetCpuFreqRange
    PROVE  Inv'
  <1>1. at = "check" /\ req.op = "GetRange" /\ UNCHANGED <<sysfs, mixed, disturbed>>
    BY DEF GetCpuFreqRange
  <1>2. disturbed' \in BOOLEAN
    BY <1>1 DEF Inv, TypeOK
  <1>3. CASE Answer("SUCCESS", RangeOfPolicy0)
    BY <1>1, <1>2, <1>3, AnswerStep DEF Code
  <1>4. CASE Answer("ERR_COMMON", <<>>)
    BY <1>1, <1>2, <1>4, AnswerStep DEF Code
  <1> QED
    BY <1>3, <1>4 DEF GetCpuFreqRange

\* A check that goes on to the writes, or to the next check.
LEMMA CheckStep ==
    ASSUME Inv, at \in {"check", "range"}, at' \in {"range", "write"}, code' \in Code,
           at' = "range" => req.op = "SetFreq",
           UNCHANGED <<sysfs, req, i, rsp, mixed, disturbed>>,
           req.op \in {"SetGovernor", "SetFreq"},
           req.op = "SetGovernor" => req.arg \in Available
    PROVE  Inv'
  <1> USE CpuFreqAssumption DEF Inv, sysfs
  <1>1. req \in Request /\ req # None /\ i = 1
    BY DEF TypeOK, HandlerOK
  <1>2. 1 \in DOMAIN Writes(req)
    BY <1>1, WritesFacts DEF WritingOp
  <1>3. TypeOK'
    BY <1>1, <1>2 DEF TypeOK
  <1>4. HandlerOK' /\ Progress'
    BY <1>1, ListingFacts DEF HandlerOK, Progress
  <1>5. NothingWritten' /\ UniformUnlessMixed'
    BY <1>1 DEF NothingWritten, UniformUnlessMixed, BeingWritten
  <1>6. SuccessIsForAllPolicies' /\ ReadsHoldForAll'
    BY DEF SuccessIsForAllPolicies, ReadsHoldForAll, HandlerOK
  <1> QED
    BY <1>3, <1>4, <1>5, <1>6

LEMMA CheckAvailableGovernorStep ==
    ASSUME Inv, CheckAvailableGovernor
    PROVE  Inv'
  <1>1. at = "check" /\ req.op = "SetGovernor" /\ UNCHANGED <<sysfs, mixed>>
    BY DEF CheckAvailableGovernor
  <1>2. CASE req.arg \in Available /\ at' = "write" /\ UNCHANGED <<req, code, i, rsp, disturbed>>
    BY <1>1, <1>2, CheckStep DEF Inv, TypeOK
  <1>3. CASE Answer("ERR_INVALIDE_PARAM", <<>>) /\ UNCHANGED disturbed
    BY <1>1, <1>3, AnswerStep DEF Inv, TypeOK, Code
  <1>4. CASE Answer("SUCCESS", <<>>) /\ disturbed' = TRUE
    BY <1>1, <1>4, AnswerStep DEF Code
  <1> QED
    BY <1>2, <1>3, <1>4 DEF CheckAvailableGovernor

LEMMA CurrentGovernorReadStep ==
    ASSUME Inv, CurrentGovernorRead
    PROVE  Inv'
  BY CheckStep DEF CurrentGovernorRead, Code

LEMMA FreqRangeReadStep ==
    ASSUME Inv, FreqRangeRead
    PROVE  Inv'
  <1>0. req.op = "SetFreq"
    BY DEF FreqRangeRead, Inv, HandlerOK
  <1>1. code \in Code
    BY DEF Inv, TypeOK
  <1>2. PICK c \in Code : IF c = "SUCCESS" THEN at' = "write" /\ UNCHANGED <<req, code, i, rsp>>
                          ELSE Answer(c, <<>>)
    BY <1>1 DEF FreqRangeRead, Code
  <1>3. at = "range" /\ UNCHANGED <<sysfs, mixed, disturbed>>
    BY DEF FreqRangeRead
  <1>4. CASE c = "SUCCESS"
    BY <1>0, <1>1, <1>2, <1>3, <1>4, CheckStep
  <1>5. CASE c # "SUCCESS"
    BY <1>2, <1>3, <1>5, AnswerStep DEF Inv, TypeOK
  <1> QED
    BY <1>4, <1>5

\* Where a handler that writes is.
LEMMA WriteContext ==
    ASSUME Inv, at = "write"
    PROVE  /\ req \in Request /\ req # None
           /\ req.op \in {"SetGovernor", "SetRange", "SetFreq"}
           /\ i \in Nat \ {0} /\ i <= Len(Writes(req)) /\ Len(Writes(req)) \in Nat
           /\ DOMAIN Writes(req) = 1 .. Len(Writes(req))
           /\ req.op = "SetGovernor" => Len(Writes(req)) = Len(Listing)
           /\ req.op = "SetRange" => /\ Len(Writes(req)) = Len(Listing) + Len(Listing)
                                     /\ InKHz(req.arg) \in [min : Limit, max : Limit]
  <1>1. /\ req \in Request /\ req # None /\ i \in DOMAIN Writes(req)
        /\ req.op \in {"SetGovernor", "SetRange", "SetFreq"}
    BY CpuFreqAssumption DEF Inv, TypeOK, HandlerOK
  <1> QED
    BY <1>1, WritesFacts, RequestFacts DEF WritingOp

\* After a write the policies written so far have the new setting.
LEMMA ProgressMade ==
    ASSUME Inv, at = "write", ~disturbed, Apply(Writes(req)[i])
    PROVE  \A k \in DOMAIN Listing :
              /\ (req.op = "SetGovernor" /\ k < i + 1) => governor'[Listing[k]] = req.arg
              /\ (req.op = "SetRange" /\ k < i + 1) => range'[Listing[k]].min = InKHz(req.arg).min
              /\ (req.op = "SetRange" /\ Len(Listing) + k < i + 1) =>
                    range'[Listing[k]].max = InKHz(req.arg).max
  <1> USE ListingFacts
  <1>0. SysfsOK /\ i \in Nat /\ Progress
    BY DEF Inv, TypeOK, SysfsOK
  <1> SUFFICES ASSUME NEW k \in DOMAIN Listing
               PROVE  /\ (req.op = "SetGovernor" /\ k < i + 1) => governor'[Listing[k]] = req.arg
                      /\ (req.op = "SetRange" /\ k < i + 1) => range'[Listing[k]].min = InKHz(req.arg).min
                      /\ (req.op = "SetRange" /\ Len(Listing) + k < i + 1) =>
                            range'[Listing[k]].max = InKHz(req.arg).max
    OBVIOUS
  <1>1. CASE req.op = "SetGovernor"
    <2>1. i \in DOMAIN Listing /\ governor' = [governor EXCEPT ![Listing[i]] = req.arg]
      BY <1>1, ApplyFacts
    <2>2. k < i + 1 => k < i \/ k = i
      BY <1>0
    <2>3. k < i => governor[Listing[k]] = req.arg
      BY <1>0, <1>1 DEF Progress
    <2> QED
      BY <1>0, <1>1, <2>1, <2>2, <2>3 DEF SysfsOK
  <1>2. CASE req.op = "SetRange"
    <2>1. PICK l \in DOMAIN Listing : i = l \/ i = Len(Listing) + l
      <3>1. i \in DOMAIN Listing \/ i - Len(Listing) \in DOMAIN Listing
        BY <1>0, <1>2, WriteContext
      <3>2. i = Len(Listing) + (i - Len(Listing))
        BY <1>0
      <3> QED
        BY <3>1, <3>2
    <2>2. range[Listing[l]] \in [min : Limit, max : Limit] /\ range \in [Policy -> FreqRange]
      BY <1>0 DEF SysfsOK, FreqRange
    <2>3. /\ k < i => range[Listing[k]].min = InKHz(req.arg).min
          /\ Len(Listing) + k < i => range[Listing[k]].max = InKHz(req.arg).max
      BY <1>0, <1>2 DEF Progress
    <2>4. CASE i = l
      <3>1. range' = [range EXCEPT ![Listing[l]] = [range[Listing[l]] EXCEPT !.min = InKHz(req.arg).min]]
        BY <1>2, <2>4, ApplyFacts
      <3>2. ~(Len(Listing) + k < i + 1) /\ (k < i + 1 => k < i \/ k = l)
        BY <1>0, <2>4
      <3>3. range'[Listing[k]].min = IF Listing[k] = Listing[l] THEN InKHz(req.arg).min
                                     ELSE range[Listing[k]].min
        BY <2>2, <3>1
      <3> QED
        BY <1>2, <2>3, <3>2, <3>3
    <2>5. CASE i = Len(Listing) + l
      <3>1. range' = [range EXCEPT ![Listing[l]] = [range[Listing[l]] EXCEPT !.max = InKHz(req.arg).max]]
        BY <1>2, <2>5, ApplyFacts
      <3>2. k < i /\ (Len(Listing) + k < i + 1 => Len(Listing) + k < i \/ k = l)
        BY <1>0, <2>5
      <3>3. /\ range'[Listing[k]].min = range[Listing[k]].min
            /\ range'[Listing[k]].max = IF Listing[k] = Listing[l] THEN InKHz(req.arg).max
                                        ELSE range[Listing[k]].max
        BY <2>2, <3>1
      <3> QED
        BY <1>2, <2>3, <3>2, <3>3
    <2> QED
      BY <2>1, <2>4, <2>5
  <1>3. CASE req.op = "SetFreq"
    BY <1>3
  <1> QED
    BY <1>1, <1>2, <1>3, WriteContext

\* After the last one, all policies have it.
LEMMA AllWritten ==
    ASSUME Inv, at = "write", ~disturbed, Apply(Writes(req)[i]), i = Len(Writes(req))
    PROVE  \A p \in Policy : /\ req.op = "SetGovernor" => governor'[p] = req.arg
                             /\ req.op = "SetRange" => range'[p] = InKHz(req.arg)
  <1> USE ListingFacts
  <1> SUFFICES ASSUME NEW p \in Policy
               PROVE  /\ req.op = "SetGovernor" => governor'[p] = req.arg
                      /\ req.op = "SetRange" => range'[p] = InKHz(req.arg)
    OBVIOUS
  <1>1. PICK k \in DOMAIN Listing : p = Listing[k]
    OBVIOUS
  <1>2. CASE req.op = "SetGovernor"
    <2>1. k < i + 1
      BY <1>2, WriteContext
    <2> QED
      BY <1>1, <1>2, <2>1, ProgressMade
  <1>3. CASE req.op = "SetRange"
    <2>1. k < i + 1 /\ Len(Listing) + k < i + 1 /\ InKHz(req.arg) \in [min : Limit, max : Limit]
      BY <1>3, WriteContext
    <2>2. range'[p].min = InKHz(req.arg).min /\ range'[p].max = InKHz(req.arg).max
      BY <1>1, <1>3, <2>1, ProgressMade
    <2>3. range'[p] \in [min : Limit, max : Limit]
      BY ApplyFacts DEF SysfsOK, FreqRange
    <2> QED
      BY <1>3, <2>1, <2>2, <2>3
  <1> QED
    BY <1>2, <1>3

\* A write touches only the setting of its request.
LEMMA OthersKept ==
    ASSUME Inv, at = "write", Apply(Writes(req)[i]), NEW p \in Policy, NEW q \in Policy
    PROVE  /\ "governor" \notin mixed \union Kind(req) => governor'[p] = governor'[q]
           /\ "range" \notin mixed \union Kind(req) => range'[p] = range'[q]
  <1>1. /\ "governor" \notin mixed \union Kind(req) => governor[p] = governor[q]
        /\ "range" \notin mixed \union Kind(req) => range[p] = range[q]
    BY DEF Inv, UniformUnlessMixed, BeingWritten
  <1>2. /\ req.op = "SetGovernor" => "governor" \in Kind(req) /\ range' = range
        /\ req.op = "SetRange" => "range" \in Kind(req) /\ governor' = governor
        /\ req.op = "SetFreq" => governor' = governor /\ range' = range
    BY ApplyFacts DEF Kind
  <1> QED
    BY <1>1, <1>2, WriteContext

LEMMA KindFacts == \A r : Kind(r) \subseteq {"governor", "range"}
  BY DEF Kind

LEMMA WriteFileStep ==
    ASSUME Inv, WriteFile
    PROVE  Inv'
  <1>0. at = "write" /\ Apply(Writes(req)[i]) /\ GoOn /\ UNCHANGED disturbed
        /\ mixed' = IF i = Len(Writes(req)) /\ ~disturbed THEN mixed \ Kind(req) ELSE mixed
    BY DEF WriteFile
  <1>w. i \in Nat \ {0} /\ i <= Len(Writes(req)) /\ Len(Writes(req)) \in Nat
        /\ DOMAIN Writes(req) = 1 .. Len(Writes(req))
    <2>1. at = "write"
      BY DEF WriteFile
    <2> QED
      BY <2>1, WriteContext
  <1>1. SysfsOK' /\ at \in {"idle", "check", "range", "write"} /\ code \in Code
        /\ mixed' \subseteq {"governor", "range"} /\ rsp = None
    BY <1>0, ApplyFacts DEF Inv, TypeOK, HandlerOK
  <1>2. disturbed' \in BOOLEAN
    BY <1>0 DEF Inv, TypeOK
  <1>3. CASE i < Len(Writes(req))
    <2>0. i # Len(Writes(req)) /\ i + 1 \in 1 .. Len(Writes(req)) /\ i + 1 # 1
      <3> DEFINE n == Len(Writes(req))
      <3>1. i \in Nat \ {0} /\ n \in Nat /\ i < n
        BY <1>w, <1>3
      <3> HIDE DEF n
      <3>2. i # n /\ i + 1 \in 1 .. n /\ i + 1 # 1
        BY <3>1
      <3> QED
        BY <3>2 DEF n
    <2>1. at' = "write" /\ req' = req /\ i' = i + 1 /\ rsp' = rsp /\ code' = code /\ mixed' = mixed
      BY <1>0, <1>3, <2>0 DEF GoOn
    <2>2. i' \in Nat \ {0} /\ i' # 1 /\ i' \in DOMAIN Writes(req')
      <3>1. DOMAIN Writes(req) = 1 .. Len(Writes(req))
        BY <1>w
      <3>2. i + 1 \in Nat \ {0}
        BY <1>w
      <3> QED
        BY <2>0, <2>1, <3>1, <3>2
    <2>3. TypeOK'
      BY <1>0, <1>1, <1>2, <2>1, <2>2, WriteContext DEF TypeOK, SysfsOK
    <2>4. HandlerOK'
      BY <1>0, <2>1 DEF Inv, HandlerOK
    <2>5. Progress'
      BY <1>0, <2>1, ProgressMade DEF Progress
    <2>6. NothingWritten' /\ SuccessIsForAllPolicies' /\ ReadsHoldForAll'
      BY <1>1, <2>1, <2>2 DEF NothingWritten, SuccessIsForAllPolicies, ReadsHoldForAll
    <2>7. UniformUnlessMixed'
      BY <1>0, <2>1, OthersKept DEF UniformUnlessMixed, BeingWritten
    <2> QED
      BY <2>3, <2>4, <2>5, <2>6, <2>7 DEF Inv
  <1>4. CASE ~(i < Len(Writes(req)))
    <2>0. i = Len(Writes(req))
      <3> DEFINE n == Len(Writes(req))
      <3>1. i \in Nat \ {0} /\ n \in Nat /\ i <= n /\ ~(i < n)
        BY <1>w, <1>4
      <3> HIDE DEF n
      <3>2. i = n
        BY <3>1
      <3> QED
        BY <3>2 DEF n
    <2>1. Answer("SUCCESS", <<>>) /\ i = Len(Writes(req))
      BY <1>0, <1>4, <2>0 DEF GoOn
    <2>2. /\ at' = "idle" /\ req' = None /\ code' = "SUCCESS" /\ i' = 1
          /\ rsp' = [op |-> req.op, arg |-> req.arg, code |-> "SUCCESS", data |-> <<>>]
      BY <2>1 DEF Answer
    <2>3. TypeOK'
      BY <1>1, <1>2, <2>2 DEF TypeOK, SysfsOK, Code
    <2>4. HandlerOK' /\ Progress'
      BY <2>2 DEF HandlerOK, Progress
    <2>5. ASSUME NEW p \in Policy, NEW q \in Policy
          PROVE  /\ "governor" \notin mixed' => governor'[p] = governor'[q]
                 /\ "range" \notin mixed' => range'[p] = range'[q]
      <3>1. CASE disturbed
        <4>1. mixed' = mixed /\ Kind(req) \subseteq mixed
          BY <1>0, <3>1 DEF Inv, HandlerOK
        <4> QED
          BY <1>0, <4>1, OthersKept
      <3>2. CASE ~disturbed
        <4>1. mixed' = mixed \ Kind(req)
          BY <1>0, <2>1, <3>2
        <4>2. /\ req.op = "SetGovernor" => governor'[p] = governor'[q]
              /\ req.op = "SetRange" => range'[p] = range'[q]
          BY <1>0, <2>1, <3>2, AllWritten
        <4>3. /\ "governor" \in Kind(req) => req.op = "SetGovernor"
              /\ "range" \in Kind(req) => req.op = "SetRange"
          BY DEF Kind
        <4> QED
          BY <1>0, <4>1, <4>2, <4>3, OthersKept
      <3> QED
        BY <3>1, <3>2
    <2>6. NothingWritten' /\ UniformUnlessMixed'
      BY <2>2, <2>5 DEF NothingWritten, UniformUnlessMixed, BeingWritten
    <2>7. SuccessIsForAllPolicies'
      BY <1>0, <2>1, <2>2, AllWritten DEF SuccessIsForAllPolicies
    <2>8. ReadsHoldForAll'
      BY <1>0, <2>2 DEF Inv, HandlerOK, ReadsHoldForAll
    <2> QED
      BY <2>3, <2>4, <2>6, <2>7, <2>8 DEF Inv
  <1> QED
    BY <1>3, <1>4

LEMMA EchoIsRefusedStep ==
    ASSUME Inv, EchoIsRefused
    PROVE  Inv'
  <1>0. /\ at = "write" /\ GoOn /\ disturbed' = TRUE /\ mixed' = mixed \union Kind(req)
        /\ UNCHANGED sysfs
    BY DEF EchoIsRefused
  <1>w. i \in Nat \ {0} /\ i <= Len(Writes(req)) /\ Len(Writes(req)) \in Nat
        /\ DOMAIN Writes(req) = 1 .. Len(Writes(req))
    <2>1. at = "write"
      BY DEF EchoIsRefused
    <2> QED
      BY <2>1, WriteContext
  <1>1. SysfsOK' /\ code \in Code /\ mixed' \subseteq {"governor", "range"} /\ rsp = None
    BY <1>0, KindFacts DEF Inv, TypeOK, HandlerOK, SysfsOK, sysfs
  <1>2. \A p, q \in Policy :
           /\ "governor" \notin mixed' => governor'[p] = governor'[q]
           /\ "range" \notin mixed' => range'[p] = range'[q]
    BY <1>0 DEF Inv, UniformUnlessMixed, BeingWritten, sysfs
  <1>3. Progress' /\ SuccessIsForAllPolicies' /\ ReadsHoldForAll'
    BY <1>0 DEF Progress, SuccessIsForAllPolicies, ReadsHoldForAll
  <1>4. NothingWritten' /\ UniformUnlessMixed'
    BY <1>2 DEF NothingWritten, UniformUnlessMixed
  <1>5. disturbed' \in BOOLEAN
    BY <1>0
  <1>6. CASE i < Len(Writes(req))
    <2>1. at' = "write" /\ req' = req /\ i' = i + 1 /\ rsp' = rsp /\ code' = code
      BY <1>0, <1>6 DEF GoOn
    <2>2. i' \in Nat \ {0} /\ i' \in DOMAIN Writes(req')
      <3>1. DOMAIN Writes(req) = 1 .. Len(Writes(req)) /\ i + 1 \in 1 .. Len(Writes(req))
        BY <1>w, <1>6
      <3>2. i + 1 \in Nat \ {0}
        BY <1>w
      <3> QED
        BY <2>1, <3>1, <3>2
    <2>3. TypeOK'
      BY <1>0, <1>1, <1>5, <2>1, <2>2, WriteContext DEF TypeOK, SysfsOK
    <2>4. HandlerOK'
      BY <1>0, <2>1 DEF Inv, HandlerOK
    <2> QED
      BY <1>3, <1>4, <2>3, <2>4 DEF Inv
  <1>7. CASE ~(i < Len(Writes(req)))
    <2>1. at' = "idle" /\ req' = None /\ code' = "SUCCESS" /\ i' = 1
      BY <1>0, <1>7 DEF GoOn, Answer
    <2>2. TypeOK' /\ HandlerOK'
      BY <1>1, <1>5, <2>1 DEF TypeOK, SysfsOK, Code, HandlerOK
    <2> QED
      BY <1>3, <1>4, <2>2 DEF Inv
  <1> QED
    BY <1>6, <1>7

\* A handler that ends early, by an error or by the death of the daemon.
LEMMA EndsEarly ==
    ASSUME Inv, at # "idle", at' = "idle", req' = None, code' = "SUCCESS", i' = 1,
           rsp' = None \/ rsp'.code # "SUCCESS", UNCHANGED <<sysfs, disturbed>>,
           mixed' = IF at = "write" /\ i > 1 THEN mixed \union Kind(req) ELSE mixed
    PROVE  Inv'
  <1>a. mixed' \subseteq {"governor", "range"}
    BY KindFacts DEF Inv, TypeOK
  <1>b. disturbed' \in BOOLEAN
    BY DEF Inv, TypeOK
  <1>c. SysfsOK'
    BY DEF Inv, TypeOK, SysfsOK, sysfs
  <1>d. TypeOK'
    BY <1>a, <1>b, <1>c DEF TypeOK, SysfsOK, Code
  <1>1. TypeOK' /\ HandlerOK' /\ Progress' /\ SuccessIsForAllPolicies' /\ ReadsHoldForAll'
    BY <1>d DEF HandlerOK, Progress, SuccessIsForAllPolicies, ReadsHoldForAll
  <1>2. \A p, q \in Policy :
           /\ "governor" \notin mixed' => governor'[p] = governor'[q]
           /\ "range" \notin mixed' => range'[p] = range'[q]
    <2>1. CASE at = "write" /\ i > 1
      BY <2>1 DEF Inv, UniformUnlessMixed, BeingWritten, sysfs
    <2>2. CASE ~(at = "write" /\ i > 1)
      <3>1. at # "write" \/ i = 1
        BY <2>2 DEF Inv, TypeOK
      <3> QED
        BY <2>2, <3>1 DEF Inv, NothingWritten, sysfs
    <2> QED
      BY <2>1, <2>2
  <1>3. NothingWritten' /\ UniformUnlessMixed'
    BY <1>2 DEF NothingWritten, UniformUnlessMixed
  <1> QED
    BY <1>1, <1>3 DEF Inv

LEMMA ChangeOutsideStep ==
    ASSUME Inv, ChangeOutside
    PROVE  Inv'
  <1>0. disturbed' = TRUE /\ mixed' = {"governor", "range"} /\ UNCHANGED <<at, req, code, i, rsp>>
    BY DEF ChangeOutside
  <1>1. SysfsOK'
    <2>1. PICK p \in Policy : \/ \E g \in Available : WriteGovernor(p, g)
                              \/ \E r \in FreqRange : WriteRange(p, r)
      BY DEF ChangeOutside
    <2>2. SysfsOK /\ FreqRange \subseteq [min : Limit, max : Limit]
      BY DEF Inv, TypeOK, SysfsOK, FreqRange
    <2> QED
      BY <2>1, <2>2, WriteGovernorFacts, WriteRangeFacts
  <1>2. disturbed' \in BOOLEAN
    BY <1>0
  <1>3. TypeOK'
    BY <1>0, <1>1, <1>2 DEF Inv, TypeOK, SysfsOK
  <1>4. HandlerOK' /\ Progress' /\ SuccessIsForAllPolicies' /\ ReadsHoldForAll'
    BY <1>0, KindFacts DEF Inv, HandlerOK, Progress, SuccessIsForAllPolicies, ReadsHoldForAll
  <1>5. NothingWritten' /\ UniformUnlessMixed'
    BY <1>0 DEF NothingWritten, UniformUnlessMixed
  <1> QED
    BY <1>3, <1>4, <1>5 DEF Inv

LEMMA NextInv == Inv /\ [Next]_vars => Inv'
  <1> SUFFICES ASSUME Inv, [Next]_vars PROVE Inv'
    OBVIOUS
  <1>1. CASE ReceiveRequest
    BY <1>1, ReceiveRequestStep
  <1>2. CASE GetCpuFreq
    BY <1>2, GetCpuFreqStep
  <1>3. CASE CheckAvailableGovernor
    BY <1>3, CheckAvailableGovernorStep
  <1>4. CASE CurrentGovernorRead
    BY <1>4, CurrentGovernorReadStep
  <1>5. CASE FreqRangeRead
    BY <1>5, FreqRangeReadStep
  <1>6. CASE WriteFile
    BY <1>6, WriteFileStep
  <1>7. CASE EchoIsRefused
    BY <1>7, EchoIsRefusedStep
  <1>8. CASE WriteFails
    <2>1. i > 1 <=> i # 1
      BY DEF Inv, TypeOK
    <2> QED
      BY <1>8, <2>1, EndsEarly DEF WriteFails, Answer
  <1>9. CASE Restart
    BY <1>9, EndsEarly DEF Restart, Inv, HandlerOK
  <1>10. CASE ChangeOutside
    BY <1>10, ChangeOutsideStep
  <1>11. CASE UNCHANGED vars
    BY <1>11 DEF vars, sysfs, Inv, TypeOK, HandlerOK, Progress, NothingWritten,
                 UniformUnlessMixed, BeingWritten, SuccessIsForAllPolicies, ReadsHoldForAll
  <1>12. CASE GetCpuFreqGovernor
    BY <1>12, GetCpuFreqGovernorStep
  <1>13. CASE GetCpuFreqRange
    BY <1>13, GetCpuFreqRangeStep
  <1> QED
    BY <1>1, <1>2, <1>3, <1>4, <1>5, <1>6, <1>7, <1>8, <1>9, <1>10, <1>11, <1>12, <1>13 DEF Next, Handle

LEMMA InvHolds == Spec => []Inv
  BY InitInv, NextInv, PTL DEF Spec

\* The settings keep their types and the handler stays inside its list of writes.
THEOREM TypeCorrect == Spec => []TypeOK
  <1>1. Inv => TypeOK
    BY DEF Inv
  <1> QED
    BY InvHolds, <1>1, PTL

\* Governor and range are the same for all policies, unless something left them mixed, for
\* any number of policies: what SetCpuFreq reads of policy0 is then true of all.
THEOREM UniformCorrect == Spec => []UniformUnlessMixed
  <1>1. Inv => UniformUnlessMixed
    BY DEF Inv
  <1> QED
    BY InvHolds, <1>1, PTL

\* SUCCESS means that every policy has the governor or the range asked for.
THEOREM SuccessCorrect == Spec => []SuccessIsForAllPolicies
  <1>1. Inv => SuccessIsForAllPolicies
    BY DEF Inv
  <1> QED
    BY InvHolds, <1>1, PTL

\* What GetCpuFreqGovernor and GetCpuFreqRange read of policy0 is true of every policy,
\* unless something left the policies different.
THEOREM ReadsCorrect == Spec => []ReadsHoldForAll
  <1>1. Inv => ReadsHoldForAll
    BY DEF Inv
  <1> QED
    BY InvHolds, <1>1, PTL

(***************************************************************************)
(* The frequencies of SetCpuFreq.  Governor and range are checked for      *)
(* policy0; if nothing is mixed the check holds for the policy of every    *)
(* target, so that the kernel takes each frequency as it is.               *)
(***************************************************************************)
\* RunsAt for given frequencies and ranges.
Runs(freqs, ranges, p, f) ==
    /\ freqs[p] \div THOUSAND = f \div THOUSAND
    /\ (Whole(f) = f /\ Whole(ranges[p].min) = ranges[p].min) => freqs[p] = f

LastBefore(k, n) ==
    \A l \in DOMAIN req.arg : (k < l /\ l < n) => req.arg[l].policyId # req.arg[k].policyId

SpeedProgress ==
    (at \in {"range", "write"} /\ req.op = "SetFreq" /\ ~disturbed /\ mixed = {}) =>
        /\ (at = "write" \/ code = "SUCCESS") => governor[0] = Userspace
        /\ at = "write" =>
              /\ InRange(req.arg, RangeOfPolicy0)
              /\ \A k \in DOMAIN req.arg :
                    (k < i /\ req.arg[k].policyId \in Policy /\ LastBefore(k, i)) =>
                        Runs(freq, range, req.arg[k].policyId, req.arg[k].curFreq)

SpeedInv == SpeedProgress /\ SuccessSetsFrequencies

\* A frequency is written: its policy runs within its MHz, and the others as before.
LEMMA SpeedWritten ==
    ASSUME Inv, SpeedProgress, at = "write", req.op = "SetFreq", ~disturbed, mixed = {},
           Apply(Writes(req)[i]),
           NEW k \in DOMAIN req.arg, k < i + 1, req.arg[k].policyId \in Policy,
           LastBefore(k, i + 1)
    PROVE  Runs(freq', range', req.arg[k].policyId, req.arg[k].curFreq)
  <1> DEFINE p == req.arg[i].policyId
             f == req.arg[i].curFreq
             q == req.arg[k].policyId
             g == req.arg[k].curFreq
  <1>1. req \in Request /\ i \in Nat /\ i \in DOMAIN Writes(req)
    BY CpuFreqAssumption DEF Inv, TypeOK
  <1>2. /\ req.arg \in Seq(Target) /\ i \in DOMAIN req.arg
        /\ Writes(req)[i] = Write("speed", p, Whole(f))
    BY <1>1, WritesFacts, RequestFacts DEF WritingOp
  <1>3. WriteSpeed(p, Whole(f))
    BY <1>2 DEF Apply, Write
  <1>4. k \in Nat /\ (k < i \/ k = i) /\ \A l \in DOMAIN req.arg : l \in Nat
    BY <1>1, <1>2
  <1>r. range' = range
    BY <1>3 DEF WriteSpeed
  <1>5. CASE k = i
    <2>1. governor[p] = governor[0] /\ range[p] = range[0]
      BY <1>5, CpuFreqAssumption DEF Inv, UniformUnlessMixed, BeingWritten, Kind
    <2>2. governor[0] = Userspace /\ InRange(req.arg, RangeOfPolicy0)
      BY DEF SpeedProgress
    <2>3. Whole(range[p].min) <= f /\ f <= Whole(range[p].max)
      <3>1. f >= InKHz(RangeOfPolicy0).min /\ f <= InKHz(RangeOfPolicy0).max
        BY <1>2, <2>2 DEF InRange
      <3>2. /\ InKHz(RangeOfPolicy0).min = Whole(range[0].min)
            /\ InKHz(RangeOfPolicy0).max = Whole(range[0].max)
        BY DEF InKHz, RangeOfPolicy0, Whole
      <3> QED
        BY <2>1, <3>1, <3>2
    <2>4. f \in Nat /\ range[p].min \in Nat /\ range[p].max \in Nat
      <3>1. req.arg[i] \in Target
        BY <1>2
      <3>2. range[p] \in FreqRange
        BY <1>5 DEF Inv, TypeOK
      <3> QED
        BY <3>1, <3>2, CpuFreqAssumption DEF Target, FreqRange
    <2>5. /\ Clamp(Whole(f), range[p]) \div THOUSAND = f \div THOUSAND
          /\ (Whole(f) = f /\ Whole(range[p].min) = range[p].min) => Clamp(Whole(f), range[p]) = f
      BY <2>3, <2>4, ClampFacts
    <2>6. freq'[p] = Clamp(Whole(f), range[p])
      BY <1>3, <1>5, <2>1, <2>2 DEF WriteSpeed, Inv, TypeOK
    <2> QED
      BY <1>5, <1>r, <2>5, <2>6 DEF Runs
  <1>6. CASE k < i
    <2>1. p # q
      BY <1>1, <1>2, <1>4, <1>6 DEF LastBefore
    <2>2. LastBefore(k, i)
      BY <1>1, <1>4 DEF LastBefore
    <2>3. Runs(freq, range, q, g)
      BY <1>6, <2>2 DEF SpeedProgress
    <2>4. freq \in [Policy -> Nat]
      BY DEF Inv, TypeOK
    <2>5. freq'[q] = freq[q]
      BY <1>3, <2>1, <2>4 DEF WriteSpeed
    <2> QED
      BY <1>r, <2>3, <2>5 DEF Runs
  <1> QED
    BY <1>4, <1>5, <1>6

LEMMA SpeedWriteStep ==
    ASSUME Inv, SpeedInv, WriteFile
    PROVE  SpeedInv'
  <1>1. at = "write" /\ Apply(Writes(req)[i]) /\ GoOn /\ disturbed' = disturbed
        /\ mixed' = IF i = Len(Writes(req)) /\ ~disturbed THEN mixed \ Kind(req) ELSE mixed
    BY DEF WriteFile
  <1>2. /\ req \in Request /\ req # None /\ rsp = None
        /\ i \in Nat /\ i <= Len(Writes(req)) /\ Len(Writes(req)) \in Nat
        /\ DOMAIN Writes(req) = 1 .. Len(Writes(req))
    BY <1>1, WriteContext DEF Inv, HandlerOK
  <1>3. CASE req.op # "SetFreq"
    <2>1. \/ at' = "write" /\ req' = req /\ rsp' = None
          \/ at' = "idle" /\ rsp'.op = req.op
      <3>1. CASE UNCHANGED <<at, req, code, rsp>>
        BY <1>1, <1>2, <3>1
      <3>2. CASE Answer("SUCCESS", <<>>)
        BY <3>2 DEF Answer
      <3> QED
        BY <1>1, <3>1, <3>2 DEF GoOn
    <2> QED
      BY <1>3, <2>1 DEF SpeedInv, SpeedProgress, SuccessSetsFrequencies
  <1>4. CASE disturbed
    BY <1>1, <1>4 DEF SpeedInv, SpeedProgress, SuccessSetsFrequencies
  <1>5. CASE mixed # {} /\ req.op = "SetFreq"
    <2>1. mixed' # {}
      BY <1>1, <1>5 DEF Kind
    <2> QED
      BY <2>1 DEF SpeedInv, SpeedProgress, SuccessSetsFrequencies
  <1>6. CASE req.op = "SetFreq" /\ ~disturbed /\ mixed = {}
    <2>1. governor' = governor /\ range' = range
      BY <1>1, <1>6, ApplyFacts
    <2>2. /\ governor[0] = Userspace /\ InRange(req.arg, RangeOfPolicy0)
      BY <1>1, <1>6 DEF SpeedInv, SpeedProgress
    <2>3. /\ req.arg \in Seq(Target) /\ Len(Writes(req)) = Len(req.arg)
          /\ DOMAIN req.arg = 1 .. Len(req.arg)
      BY <1>2, <1>6, WritesFacts, RequestFacts DEF WritingOp
    <2>4. CASE i < Len(Writes(req))
      <3>1. UNCHANGED <<at, req, code, rsp>> /\ i' = i + 1
        BY <1>1, <2>4 DEF GoOn
      <3>2. ASSUME NEW k \in DOMAIN req.arg, k < i + 1, req.arg[k].policyId \in Policy,
                   LastBefore(k, i + 1)
            PROVE  Runs(freq', range', req.arg[k].policyId, req.arg[k].curFreq)
        BY <1>1, <1>6, <3>2, SpeedWritten DEF SpeedInv
      <3>3. SpeedProgress'
        <4>1. RangeOfPolicy0' = RangeOfPolicy0
          BY <2>1 DEF RangeOfPolicy0
        <4> QED
          BY <2>1, <2>2, <3>1, <3>2, <4>1 DEF SpeedProgress, LastBefore, InRange
      <3> QED
        BY <1>2, <3>1, <3>3 DEF SpeedInv, SuccessSetsFrequencies
    <2>5. CASE ~(i < Len(Writes(req)))
      <3>1. Answer("SUCCESS", <<>>) /\ i = Len(req.arg)
        BY <1>1, <1>2, <2>3, <2>5 DEF GoOn
      <3>2. ASSUME NEW k \in DOMAIN req.arg, req.arg[k].policyId \in Policy,
                   \A l \in DOMAIN req.arg : l > k => req.arg[l].policyId # req.arg[k].policyId
            PROVE  Runs(freq', range', req.arg[k].policyId, req.arg[k].curFreq)
        <4>1. k < i + 1 /\ LastBefore(k, i + 1)
          BY <1>2, <2>3, <3>1, <3>2 DEF LastBefore
        <4> QED
          BY <1>1, <1>6, <3>2, <4>1, SpeedWritten DEF SpeedInv
      <3>3. rsp'.op = "SetFreq" /\ rsp'.arg = req.arg /\ at' = "idle"
        BY <1>6, <3>1 DEF Answer
      <3> QED
        BY <3>2, <3>3 DEF SpeedInv, SpeedProgress, SuccessSetsFrequencies, RunsAt, Runs
    <2> QED
      BY <2>4, <2>5
  <1> QED
    BY <1>3, <1>4, <1>5, <1>6

LEMMA SpeedStep == Inv /\ SpeedInv /\ [Next]_vars => SpeedInv'
  <1> SUFFICES ASSUME Inv, SpeedInv, [Next]_vars PROVE SpeedInv'
    OBVIOUS
  <1> USE DEF SpeedInv, SpeedProgress, SuccessSetsFrequencies
  <1>1. CASE ReceiveRequest
    <2>1. rsp' = None /\ (at' = "write" => req'.op = "SetRange") /\ at' \in {"check", "write"}
      BY <1>1 DEF ReceiveRequest
    <2> QED
      BY <2>1
  <1>2. CASE WriteFile
    BY <1>2, SpeedWriteStep
  <1>3. CASE EchoIsRefused \/ ChangeOutside
    <2>1. disturbed' = TRUE
      BY <1>3 DEF EchoIsRefused, ChangeOutside
    <2> QED
      BY <2>1
  <1>4. CASE WriteFails
    BY <1>4 DEF WriteFails, Answer
  <1>5. CASE Restart
    BY <1>5 DEF Restart, Inv, HandlerOK
  <1>6. CASE GetCpuFreq \/ GetCpuFreqGovernor \/ GetCpuFreqRange
    <2>1. at' = "idle" /\ rsp'.op # "SetFreq"
      BY <1>6 DEF GetCpuFreq, GetCpuFreqGovernor, GetCpuFreqRange, Answer
    <2> QED
      BY <2>1
  <1>7. CASE CheckAvailableGovernor
    <2>1. req.op = "SetGovernor" /\ at = "check"
      BY <1>7 DEF CheckAvailableGovernor
    <2>2. \/ at' = "write" /\ req' = req /\ rsp' = rsp
          \/ at' = "idle" /\ rsp'.op = req.op
      BY <1>7 DEF CheckAvailableGovernor, Answer
    <2> QED
      BY <2>1, <2>2 DEF Inv, HandlerOK
  <1>8. CASE CurrentGovernorRead
    <2>1. at' = "range" /\ rsp = None /\ UNCHANGED <<governor, rsp>>
      BY <1>8 DEF CurrentGovernorRead, sysfs, Inv, HandlerOK
    <2>2. code' = "SUCCESS" => governor[0] = Userspace
      BY <1>8 DEF CurrentGovernorRead
    <2> QED
      BY <2>1, <2>2
  <1>9. CASE FreqRangeRead
    <2>1. at = "range" /\ rsp = None /\ i = 1 /\ UNCHANGED <<governor, range, freq, mixed, disturbed>>
      BY <1>9 DEF FreqRangeRead, sysfs, Inv, HandlerOK
    <2>2. PICK c \in {"ERR_COMMON", IF InRange(req.arg, RangeOfPolicy0) THEN code
                                    ELSE "ERR_FREQ_NOT_IN_RANGE"} :
              IF c = "SUCCESS" THEN at' = "write" /\ UNCHANGED <<req, code, i, rsp>>
              ELSE Answer(c, <<>>)
      BY <1>9 DEF FreqRangeRead
    <2>3. CASE c = "SUCCESS"
      <3>1. InRange(req.arg, RangeOfPolicy0) /\ code = "SUCCESS"
        BY <2>2, <2>3
      <3>2. \A k \in DOMAIN req.arg : req.op = "SetFreq" => ~(k < 1)
        <4>1. req \in Request
          BY <2>1, CpuFreqAssumption DEF Inv, TypeOK
        <4> QED
          BY <4>1, RequestFacts
      <3> QED
        <4>1. RangeOfPolicy0' = RangeOfPolicy0
          BY <2>1 DEF RangeOfPolicy0
        <4> QED
          BY <2>1, <2>2, <2>3, <3>1, <3>2, <4>1 DEF InRange
    <2>4. CASE c # "SUCCESS"
      BY <2>2, <2>4 DEF Answer
    <2> QED
      BY <2>3, <2>4
  <1>10. CASE UNCHANGED vars
    <2>1. /\ UNCHANGED <<governor, range, freq, at, req, code, i, rsp, mixed, disturbed>>
          /\ RangeOfPolicy0' = RangeOfPolicy0
      BY <1>10 DEF vars, sysfs, RangeOfPolicy0
    <2> QED
      BY <2>1 DEF LastBefore, InRange, RunsAt
  <1> QED
    BY <1>1, <1>2, <1>3, <1>4, <1>5, <1>6, <1>7, <1>8, <1>9, <1>10 DEF Next, Handle

\* SUCCESS of SetCpuFreq means that each policy named runs at the last frequency given for
\* it, although CurrentGovernorRead and FreqRangeRead look at policy0 only, unless something
\* had left the policies different.
THEOREM FrequenciesCorrect == Spec => []SuccessSetsFrequencies
  <1>1. Init => SpeedInv
    BY DEF Init, SpeedInv, SpeedProgress, SuccessSetsFrequencies
  <1>2. SpeedInv => SuccessSetsFrequencies
    BY DEF SpeedInv
  <1> QED
    BY <1>1, <1>2, InitInv, NextInv, SpeedStep, PTL DEF Spec

(***************************************************************************)
(* A fold over 1, 2, .. n: FoldLeft is defined by a recursive function on  *)
(* the sets of indices, whose greatest element comes last.                 *)
(***************************************************************************)
LEMMA LeastExists ==
    ASSUME NEW S \in SUBSET Nat, S # {}
    PROVE  \E m \in S : \A n \in S : ~(n < m)
  <1> DEFINE R == {ss \in Nat \X Nat : ss[1] < ss[2]}
  <1>1. IsWellFoundedOn(R, Nat)
    BY NatLessThanWellFounded DEF OpToRel
  <1>2. \A m, n \in Nat : n < m => <<n, m>> \in R
    OBVIOUS
  <1> HIDE DEF R
  <1>3. PICK m \in S : \A n \in S : <<n, m>> \notin R
    BY <1>1, WFMin
  <1> QED
    BY <1>2, <1>3

\* Induction up to n: S is the set of the numbers the claim holds for.
LEMMA UpTo ==
    ASSUME NEW n \in Nat, NEW S, 0 \in S,
           \A k \in 0 .. n : k # 0 /\ k - 1 \in S => k \in S
    PROVE  \A k \in 0 .. n : k \in S
  <1> DEFINE T == {k \in 0 .. n : k \notin S}
  <1> SUFFICES ASSUME T # {} PROVE FALSE
    OBVIOUS
  <1>1. T \in SUBSET Nat
    OBVIOUS
  <1>2. PICK m \in T : \A k \in T : ~(k < m)
    <2> HIDE DEF T
    <2> QED
      BY <1>1, LeastExists
  <1>3. m \in 0 .. n /\ m # 0 /\ m - 1 \in 0 .. n /\ m - 1 < m
    OBVIOUS
  <1>4. m - 1 \in S
    BY <1>2, <1>3
  <1> QED
    BY <1>3, <1>4

\* Max, a CHOOSE, is what its name says for sets of bounded numbers.
LEMMA MaxFacts ==
    ASSUME NEW n \in Nat, NEW s \in SUBSET (0 .. n), s # {}
    PROVE  Max(s) \in s /\ \A y \in s : y <= Max(s)
  <1> DEFINE T == {n - x : x \in s}
  <1>1. T \in SUBSET Nat /\ T # {}
    <2>1. \A x \in s : n - x \in Nat
      OBVIOUS
    <2> QED
      BY <2>1
  <1>2. PICK m \in T : \A k \in T : ~(k < m)
    <2> HIDE DEF T
    <2> QED
      BY <1>1, LeastExists
  <1>3. PICK x \in s : m = n - x
    OBVIOUS
  <1>4. \A y \in s : x >= y
    <2> SUFFICES ASSUME NEW y \in s, y > x PROVE FALSE
      OBVIOUS
    <2>1. n - y \in T /\ n - y < m
      BY <1>3
    <2> HIDE DEF T
    <2> QED
      BY <1>2, <2>1
  <1> QED
    BY <1>3, <1>4 DEF Max

LEMMA MaxIs ==
    ASSUME NEW n \in Nat, NEW s \in SUBSET (1 .. n), s # {}
    PROVE  Max(s) \in s
  <1>1. s \in SUBSET (0 .. n)
    OBVIOUS
  <1> QED
    BY <1>1, MaxFacts

LEMMA MaxOfInterval ==
    ASSUME NEW m \in Nat, m # 0
    PROVE  Max(1 .. m) = m /\ (1 .. m) \ {Max(1 .. m)} = 1 .. m - 1 /\ 1 .. m # {}
  <1>1. m \in 1 .. m /\ \A y \in 1 .. m : m >= y
    OBVIOUS
  <1>2. \A x \in 1 .. m : (\A y \in 1 .. m : x >= y) => x = m
    BY <1>1
  <1>3. Max(1 .. m) = m
    BY <1>1, <1>2 DEF Max
  <1> QED
    BY <1>1, <1>3

\* Folds(F, b, D, g): g gives what folding F from b over each subset of D yields, the greatest
\* element last. Its step takes a pair, as a function can be used where an operator cannot.
FoldStep(F, b, s, g) == IF s = {} THEN b ELSE F[<<g[s \ {Max(s)}], Max(s)>>]
Folds(F, b, D, g) == g = [s \in SUBSET D |-> FoldStep(F, b, s, g)]
Folded(F, b, D) == CHOOSE g : Folds(F, b, D, g)

\* Induction over the subsets of a finite set: G is the set of those the claim holds for.
LEMMA SubsetInduction ==
    ASSUME NEW D, IsFiniteSet(D), NEW G,
           \A s \in SUBSET D : (\A r \in SUBSET s : r # s => r \in G) => s \in G
    PROVE  SUBSET D \subseteq G
  <1> SUFFICES ASSUME (SUBSET D) \ G # {} PROVE FALSE
    OBVIOUS
  <1> DEFINE Bad == (SUBSET D) \ G
             R == StrictSubsetOrdering(D)
  <1>1. FiniteSubsetsOf(D) = SUBSET D
    BY FS_FiniteSubsetsOfFinite
  <1>2. Bad \subseteq SUBSET D /\ Bad # {}
    OBVIOUS
  <1>3. IsWellFoundedOn(R, SUBSET D)
    <2>1. IsWellFoundedOn(R, FiniteSubsetsOf(D))
      BY FS_StrictSubsetOrderingWellFounded
    <2> HIDE DEF R
    <2> QED
      BY <1>1, <2>1
  <1>4. PICK s \in Bad : \A r \in Bad : <<r, s>> \notin R
    <2> HIDE DEF Bad, R
    <2> QED
      BY <1>2, <1>3, WFMin
  <1>5. ASSUME NEW r \in SUBSET s, r # s PROVE r \in G
    <2>1. r \in SUBSET D /\ s \in SUBSET D
      BY <1>2
    <2>2. <<r, s>> \in R
      BY <1>5, <2>1 DEF StrictSubsetOrdering
    <2> HIDE DEF R
    <2> QED
      BY <1>4, <2>1, <2>2
  <1> QED
    BY <1>2, <1>5

\* D and E, of which D is the greater, are sets of numbers from 1 to n.
Below(E, D, n) == D \in SUBSET (1 .. n) /\ E \in SUBSET D

\* Two folds agree where both are defined.
LEMMA FoldsAgree ==
    ASSUME NEW F, NEW b, NEW n \in Nat, NEW D, NEW E, Below(E, D, n),
           NEW g, NEW h, Folds(F, b, D, g), Folds(F, b, E, h)
    PROVE  \A s \in SUBSET E : g[s] = h[s]
  <1> DEFINE G == {s \in SUBSET E : g[s] = h[s]}
  <1>0. IsFiniteSet(E)
    <2>1. IsFiniteSet(1 .. n)
      BY FS_Interval
    <2>2. E \in SUBSET (1 .. n)
      BY DEF Below
    <2> QED
      BY <2>1, <2>2, FS_Subset
  <1>1. ASSUME NEW s \in SUBSET E, \A r \in SUBSET s : r # s => r \in G
        PROVE  s \in G
    <2>1. g[s] = FoldStep(F, b, s, g) /\ h[s] = FoldStep(F, b, s, h)
      BY DEF Below, Folds
    <2>2. CASE s = {}
      BY <2>1, <2>2 DEF FoldStep
    <2>3. CASE s # {}
      <3>1. s \ {Max(s)} \in G
        BY <1>1, <2>3, MaxIs DEF Below
      <3> QED
        BY <2>1, <2>3, <3>1 DEF FoldStep
    <2> QED
      BY <2>2, <2>3
  <1> HIDE DEF G
  <1>2. SUBSET E \subseteq G
    BY <1>0, <1>1, SubsetInduction
  <1> QED
    BY <1>2 DEF G

\* In particular the two that Folded names.
LEMMA FoldedAgree ==
    ASSUME NEW F, NEW b, NEW n \in Nat, NEW D, NEW E, Below(E, D, n),
           Folds(F, b, D, Folded(F, b, D)), Folds(F, b, E, Folded(F, b, E))
    PROVE  Folded(F, b, D)[E] = Folded(F, b, E)[E]
  <1>1. ASSUME NEW g, NEW h, Folds(F, b, D, g), Folds(F, b, E, h) PROVE g[E] = h[E]
    <2>1. \A s \in SUBSET E : g[s] = h[s]
      BY ONLY <1>1, FoldsAgree, n \in Nat, Below(E, D, n)
    <2> QED
      BY <2>1
  <1> QED
    BY <1>1

\* The recursive definition has a solution.
LEMMA FoldsExist ==
    ASSUME NEW F, NEW b, NEW n \in Nat
    PROVE  Folds(F, b, 1 .. n, Folded(F, b, 1 .. n))
  <1> DEFINE D == 1 .. n
             G == {s \in SUBSET D : Folds(F, b, s, Folded(F, b, s))}
  <1>0. IsFiniteSet(D)
    BY FS_Interval
  <1>1. ASSUME NEW s \in SUBSET D, \A r \in SUBSET s : r # s => r \in G
        PROVE  s \in G
    <2> DEFINE Total(r) == Folded(F, b, r)[r]
               g == [r \in SUBSET s |-> IF r = {} THEN b ELSE F[<<Total(r \ {Max(r)}), Max(r)>>]]
    <2>1. \A r \in SUBSET s : r # s => Folds(F, b, r, Folded(F, b, r))
      BY <1>1
    <2>2. ASSUME NEW r \in SUBSET s, r # s PROVE g[r] = Total(r)
      <3>1. Total(r) = FoldStep(F, b, r, Folded(F, b, r))
        BY <2>1, <2>2 DEF Folds
      <3>2. CASE r = {}
        BY <3>1, <3>2 DEF FoldStep
      <3>3. CASE r # {}
        <4> DEFINE q == r \ {Max(r)}
        <4>1. q \in SUBSET s /\ q # s /\ Below(q, r, n)
          BY <2>2 DEF Below
        <4>2. Folds(F, b, r, Folded(F, b, r)) /\ Folds(F, b, q, Folded(F, b, q))
          BY <2>1, <2>2, <4>1
        <4>3. Folded(F, b, r)[q] = Total(q)
          BY <4>1, <4>2, FoldedAgree
        <4> QED
          BY <3>1, <3>3, <4>3 DEF FoldStep
      <3> QED
        BY <3>2, <3>3
    <2>3. \A r \in SUBSET s : g[r] = FoldStep(F, b, r, g)
      <3> SUFFICES ASSUME NEW r \in SUBSET s, r # {} PROVE g[r] = FoldStep(F, b, r, g)
        BY DEF FoldStep
      <3>1. r \ {Max(r)} \in SUBSET s /\ r \ {Max(r)} # s
        BY MaxIs
      <3>2. g[r \ {Max(r)}] = Total(r \ {Max(r)})
        BY <2>2, <3>1
      <3> QED
        BY <3>2 DEF FoldStep
    <2>4. Folds(F, b, s, g)
      <3>1. g = [r \in SUBSET s |-> g[r]]
        OBVIOUS
      <3> HIDE DEF g
      <3> QED
        BY <2>3, <3>1 DEF Folds
    <2> QED
      BY <2>4 DEF Folded
  <1> HIDE DEF G, D
  <1>2. SUBSET D \subseteq G
    BY <1>0, <1>1, SubsetInduction
  <1>3. D \in G
    BY <1>2
  <1> QED
    BY <1>3 DEF G, D

\* A fold whose steps stay in V.
LEMMA FoldValues ==
    ASSUME NEW V, NEW b \in V, NEW n \in Nat, NEW F \in [V \X (1 .. n) -> V],
           NEW g, Folds(F, b, 1 .. n, g)
    PROVE  \A s \in SUBSET (1 .. n) : g[s] \in V
  <1> DEFINE D == 1 .. n
             G == {s \in SUBSET D : g[s] \in V}
  <1>1. IsFiniteSet(D)
    BY FS_Interval
  <1>2. ASSUME NEW s \in SUBSET D, \A r \in SUBSET s : r # s => r \in G
        PROVE  s \in G
    <2>1. g[s] = FoldStep(F, b, s, g)
      BY DEF Folds
    <2>2. CASE s = {}
      BY <2>1, <2>2 DEF FoldStep
    <2>3. CASE s # {}
      <3>1. Max(s) \in s /\ Max(s) \in 1 .. n
        BY <2>3, MaxIs
      <3>2. s \ {Max(s)} \in G
        BY <1>2, <3>1
      <3>3. <<g[s \ {Max(s)}], Max(s)>> \in V \X (1 .. n)
        BY <3>1, <3>2
      <3> QED
        BY <2>1, <2>3, <3>3 DEF FoldStep
    <2> QED
      BY <2>2, <2>3
  <1> HIDE DEF G, D
  <1>3. SUBSET D \subseteq G
    BY <1>1, <1>2, SubsetInduction
  <1> QED
    BY <1>3 DEF G, D

(***************************************************************************)
(* FreqSortByPolicy: each of its passes is a row of swaps.                 *)
(***************************************************************************)
\* An entry of the answer.
Entry == [policyId : Nat, curFreq : Nat]

\* One pass: m swaps of neighbours.
Swaps(t, m) == FoldLeft(Swap, t, [j \in 1 .. m |-> j])

LEMMA SwapStays ==
    ASSUME NEW n \in Nat, NEW t \in [1 .. n -> Entry], NEW j \in 1 .. n, j + 1 <= n
    PROVE  Swap(t, j) \in [1 .. n -> Entry]
  <1>1. j + 1 \in 1 .. n
    OBVIOUS
  <1> QED
    BY <1>1 DEF Swap

\* The sequences one pass goes through.
LEMMA SwapsRun ==
    ASSUME NEW n \in Nat, NEW t \in [1 .. n -> Entry], NEW m \in Nat, m + 1 <= n
    PROVE  \E w : /\ w[0] = t
                  /\ w[m] = Swaps(t, m)
                  /\ \A j \in 1 .. m : w[j] = Swap(w[j - 1], j)
  <1> DEFINE V == [1 .. n -> Entry]
             D == 1 .. m
             id == [j \in 1 .. m |-> j]
             F == [p \in V \X D |-> Swap(p[1], p[2])]
             h == Folded(F, t, D)
             It(g) == g = [s \in SUBSET DOMAIN id |->
                             IF s = {} THEN t ELSE Swap(g[s \ {Max(s)}], id[Max(s)])]
             c == CHOOSE g : It(g)
             w == [j \in 0 .. m |-> c[1 .. j]]
  <1>1. Swaps(t, m) = c[DOMAIN id]
    BY DEF Swaps, FoldLeft, MapThenFoldSet
  <1>2. DOMAIN id = D /\ \A j \in D : id[j] = j
    OBVIOUS
  <1>3. F \in [V \X D -> V]
    <2>1. \A v \in V : \A j \in D : Swap(v, j) \in V
      BY SwapStays
    <2> HIDE DEF V, D
    <2> QED
      BY <2>1
  <1>4. Folds(F, t, D, h)
    <2> HIDE DEF F
    <2> QED
      BY FoldsExist
  <1>5. \A s \in SUBSET D : h[s] \in V
    <2>1. t \in V
      OBVIOUS
    <2> HIDE DEF F, h, V
    <2> QED
      BY ONLY <1>3, <1>4, <2>1, FoldValues, m \in Nat
  <1>6. \A s \in SUBSET D : s # {} => Max(s) \in s /\ Max(s) \in D
    BY MaxIs
  <1>7. It(h)
    <2>1. ASSUME NEW s \in SUBSET D
          PROVE  FoldStep(F, t, s, h) = IF s = {} THEN t ELSE Swap(h[s \ {Max(s)}], id[Max(s)])
      <3>1. CASE s = {}
        BY <3>1 DEF FoldStep
      <3>2. CASE s # {}
        <4>1. <<h[s \ {Max(s)}], Max(s)>> \in V \X D
          <5> HIDE DEF V, D, h
          <5> QED
            BY <1>5, <1>6, <3>2
        <4>2. F[<<h[s \ {Max(s)}], Max(s)>>] = Swap(h[s \ {Max(s)}], Max(s))
          <5> HIDE DEF V, D, h
          <5> QED
            BY <4>1
        <4> QED
          BY <1>2, <1>6, <3>2, <4>2 DEF FoldStep
      <3> QED
        BY <3>1, <3>2
    <2>2. h = [s \in SUBSET D |-> FoldStep(F, t, s, h)]
      BY <1>4 DEF Folds
    <2> HIDE DEF F, D, id, h
    <2> QED
      BY <1>2, <2>1, <2>2
  <1>8. It(c)
    <2> HIDE DEF It
    <2> QED
      BY <1>7
  <1>9. c[1 .. 0] = t
    <2>1. 1 .. 0 = {} /\ 1 .. 0 \in SUBSET D
      OBVIOUS
    <2> HIDE DEF c, D, id
    <2> QED
      BY <1>2, <1>8, <2>1
  <1>10. ASSUME NEW j \in 1 .. m PROVE c[1 .. j] = Swap(c[1 .. j - 1], j)
    <2>1. 1 .. j \in SUBSET D /\ j \in Nat /\ j # 0 /\ j \in D
      OBVIOUS
    <2>2. Max(1 .. j) = j /\ (1 .. j) \ {Max(1 .. j)} = 1 .. j - 1 /\ 1 .. j # {}
      BY <2>1, MaxOfInterval
    <2>3. c[1 .. j] = IF 1 .. j = {} THEN t ELSE Swap(c[(1 .. j) \ {Max(1 .. j)}], id[Max(1 .. j)])
      <3> HIDE DEF c, D, id
      <3> QED
        BY <1>2, <1>8, <2>1
    <2> HIDE DEF c, id, D
    <2> QED
      BY <1>2, <2>1, <2>2, <2>3
  <1>11. /\ w[0] = t
         /\ w[m] = Swaps(t, m)
         /\ \A j \in 1 .. m : w[j] = Swap(w[j - 1], j)
    <2>1. 0 \in 0 .. m /\ m \in 0 .. m /\ \A j \in 1 .. m : j \in 0 .. m /\ j - 1 \in 0 .. m
      OBVIOUS
    <2> HIDE DEF c, id
    <2> QED
      BY <1>1, <1>2, <1>9, <1>10, <2>1
  <1> HIDE DEF w
  <1> QED
    BY <1>11

(***************************************************************************)
(* A pass, and the passes.                                                 *)
(***************************************************************************)
\* Each entry of either sequence is in the other.
SameEntries(n, t, u) ==
    /\ \A a \in 1 .. n : \E c \in 1 .. n : u[a] = t[c]
    /\ \A c \in 1 .. n : \E a \in 1 .. n : u[a] = t[c]

\* What j swaps make of t: u has the entries of t, the first j + 1 among themselves with
\* the greatest of them last, the others where they were.
Bubbled(n, t, u, j) ==
    /\ u \in [1 .. n -> Entry]
    /\ SameEntries(n, t, u)
    /\ \A a \in 1 .. n : a > j + 1 => u[a] = t[a]
    /\ \A a \in 1 .. j + 1 : u[a].policyId <= u[j + 1].policyId
    /\ \A a \in 1 .. j + 1 : \E c \in 1 .. j + 1 : u[a] = t[c]

LEMMA SameEntriesOf ==
    ASSUME NEW n, NEW t, NEW u, NEW v, SameEntries(n, t, u), SameEntries(n, u, v)
    PROVE  SameEntries(n, t, v)
  <1>1. ASSUME NEW a \in 1 .. n PROVE \E c \in 1 .. n : v[a] = t[c]
    <2>1. PICK b \in 1 .. n : v[a] = u[b]
      BY DEF SameEntries
    <2>2. PICK c \in 1 .. n : u[b] = t[c]
      BY DEF SameEntries
    <2> QED
      BY <2>1, <2>2
  <1>2. ASSUME NEW c \in 1 .. n PROVE \E a \in 1 .. n : v[a] = t[c]
    <2>1. PICK b \in 1 .. n : u[b] = t[c]
      BY DEF SameEntries
    <2>2. PICK a \in 1 .. n : v[a] = u[b]
      BY DEF SameEntries
    <2> QED
      BY <2>1, <2>2
  <1> QED
    BY <1>1, <1>2 DEF SameEntries

\* One more swap.
LEMMA BubbleStep ==
    ASSUME NEW n \in Nat, NEW t \in [1 .. n -> Entry], NEW j \in 1 .. n, j + 1 <= n,
           NEW u, Bubbled(n, t, u, j - 1)
    PROVE  Bubbled(n, t, Swap(u, j), j)
  <1> DEFINE v == Swap(u, j)
  <1>1. u \in [1 .. n -> Entry] /\ j + 1 \in 1 .. n /\ j - 1 + 1 = j
    BY DEF Bubbled
  <1>2. v \in [1 .. n -> Entry]
    BY <1>1, SwapStays
  <1>3. /\ \A a \in 1 .. n : a # j /\ a # j + 1 => v[a] = u[a]
        /\ \/ v[j] = u[j] /\ v[j + 1] = u[j + 1]
           \/ v[j] = u[j + 1] /\ v[j + 1] = u[j]
        /\ v[j].policyId <= v[j + 1].policyId
        /\ u[j].policyId <= v[j + 1].policyId
    <2>1. u[j] \in Entry /\ u[j + 1] \in Entry
      BY <1>1
    <2>2. u[j].policyId \in Nat /\ u[j + 1].policyId \in Nat
      BY <2>1 DEF Entry
    <2>3. CASE u[j].policyId > u[j + 1].policyId
      <3>1. v = [u EXCEPT ![j] = u[j + 1], ![j + 1] = u[j]]
        BY <2>3 DEF Swap
      <3>2. v[j] = u[j + 1] /\ v[j + 1] = u[j]
        BY <1>1, <3>1
      <3>3. \A a \in 1 .. n : a # j /\ a # j + 1 => v[a] = u[a]
        BY <1>1, <3>1
      <3> QED
        BY <2>2, <2>3, <3>2, <3>3
    <2>4. CASE ~(u[j].policyId > u[j + 1].policyId)
      BY <2>2, <2>4 DEF Swap
    <2> QED
      BY <2>3, <2>4
  <1> HIDE DEF v
  <1>4. SameEntries(n, t, v)
    <2>1. \A a \in 1 .. n : \E c \in 1 .. n : v[a] = u[c]
      BY <1>1, <1>3
    <2>2. \A c \in 1 .. n : \E a \in 1 .. n : v[a] = u[c]
      BY <1>1, <1>3
    <2>3. SameEntries(n, t, u)
      BY DEF Bubbled
    <2>4. SameEntries(n, u, v)
      BY <2>1, <2>2 DEF SameEntries
    <2> QED
      BY <2>3, <2>4, SameEntriesOf
  <1>5. \A a \in 1 .. n : a > j + 1 => v[a] = t[a]
    <2>1. \A a \in 1 .. n : a > j => u[a] = t[a]
      BY <1>1 DEF Bubbled
    <2> QED
      BY <1>3, <2>1
  <1>6. \A a \in 1 .. j + 1 : v[a].policyId <= v[j + 1].policyId
    <2> SUFFICES ASSUME NEW a \in 1 .. j + 1 PROVE v[a].policyId <= v[j + 1].policyId
      OBVIOUS
    <2>1. \A b \in 1 .. n : u[b].policyId \in Nat /\ v[b].policyId \in Nat
      BY <1>1, <1>2 DEF Entry
    <2>2. \A b \in 1 .. j : u[b].policyId <= u[j].policyId
      BY <1>1 DEF Bubbled
    <2>3. CASE a = j + 1
      BY <1>1, <2>1, <2>3
    <2>4. CASE a = j
      BY <1>3, <2>4
    <2>5. CASE a \in 1 .. j - 1
      <3>1. v[a] = u[a] /\ u[a].policyId <= u[j].policyId /\ a \in 1 .. n
        BY <1>3, <2>2, <2>5
      <3> QED
        BY <1>1, <1>3, <2>1, <3>1
    <2> QED
      BY <2>3, <2>4, <2>5
  <1>7. \A a \in 1 .. j + 1 : \E c \in 1 .. j + 1 : v[a] = t[c]
    <2> SUFFICES ASSUME NEW a \in 1 .. j + 1 PROVE \E c \in 1 .. j + 1 : v[a] = t[c]
      OBVIOUS
    <2>1. PICK b \in 1 .. j + 1 : v[a] = u[b]
      BY <1>1, <1>3
    <2>2. CASE b = j + 1
      BY <1>1, <2>1, <2>2 DEF Bubbled
    <2>3. CASE b \in 1 .. j
      BY <1>1, <2>1, <2>3 DEF Bubbled
    <2> QED
      BY <2>2, <2>3
  <1> QED
    BY <1>2, <1>4, <1>5, <1>6, <1>7 DEF Bubbled, v

\* A pass brings the greatest of the first m + 1 entries to their end.
LEMMA SwapsBubble ==
    ASSUME NEW n \in Nat, NEW t \in [1 .. n -> Entry], NEW m \in Nat, m + 1 <= n
    PROVE  Bubbled(n, t, Swaps(t, m), m)
  <1>1. PICK w : /\ w[0] = t
                 /\ w[m] = Swaps(t, m)
                 /\ \A j \in 1 .. m : w[j] = Swap(w[j - 1], j)
    BY SwapsRun
  <1> DEFINE G == {j \in 0 .. m : Bubbled(n, t, w[j], j)}
  <1>2. 0 \in G
    <2>1. \A a \in 1 .. 0 + 1 : a = 1
      OBVIOUS
    <2>2. t[1].policyId \in Nat
      BY DEF Entry
    <2> QED
      BY <1>1, <2>1, <2>2 DEF Bubbled, SameEntries
  <1>3. ASSUME NEW j \in 0 .. m, j # 0, j - 1 \in G PROVE j \in G
    <2>1. j \in 1 .. m /\ j \in 1 .. n /\ j + 1 <= n
      BY <1>3
    <2>2. Bubbled(n, t, Swap(w[j - 1], j), j)
      BY <1>3, <2>1, BubbleStep
    <2> QED
      BY <1>1, <2>1, <2>2
  <1> HIDE DEF G
  <1>4. \A j \in 0 .. m : j \in G
    BY <1>2, <1>3, UpTo
  <1>5. m \in G
    BY <1>4
  <1> QED
    BY <1>1, <1>5 DEF G

\* The sequences the passes go through.
LEMMA PassesRun ==
    ASSUME NEW n \in Nat, NEW s \in [1 .. n -> Entry], Len(s) = n
    PROVE  \E w : /\ w[0] = s
                  /\ w[n] = FreqSortByPolicy(s)
                  /\ \A k \in 1 .. n : w[k] = Swaps(w[k - 1], n - k)
  <1> DEFINE V == [1 .. n -> Entry]
             D == 1 .. n
             id == [k \in 1 .. Len(s) |-> k]
             F == [p \in V \X D |-> Swaps(p[1], n - p[2])]
             h == Folded(F, s, D)
             It(g) == g = [r \in SUBSET DOMAIN id |->
                             IF r = {} THEN s ELSE Swaps(g[r \ {Max(r)}], Len(s) - id[Max(r)])]
             c == CHOOSE g : It(g)
             w == [j \in 0 .. n |-> c[1 .. j]]
  <1>1. FreqSortByPolicy(s) = c[DOMAIN id]
    BY DEF FreqSortByPolicy, Swaps, FoldLeft, MapThenFoldSet
  <1>2. DOMAIN id = D /\ \A j \in D : id[j] = j
    OBVIOUS
  <1>3. F \in [V \X D -> V]
    <2>1. ASSUME NEW v \in V, NEW k \in D PROVE Swaps(v, n - k) \in V
      <3>1. n - k \in Nat /\ n - k + 1 <= n
        OBVIOUS
      <3> QED
        BY <3>1, SwapsBubble DEF Bubbled
    <2> HIDE DEF V, D
    <2> QED
      BY <2>1
  <1>4. Folds(F, s, D, h)
    <2> HIDE DEF F
    <2> QED
      BY FoldsExist
  <1>5. \A r \in SUBSET D : h[r] \in V
    <2>1. s \in V
      OBVIOUS
    <2> HIDE DEF F, h, V
    <2> QED
      BY ONLY <1>3, <1>4, <2>1, FoldValues, n \in Nat
  <1>6. \A r \in SUBSET D : r # {} => Max(r) \in r /\ Max(r) \in D
    BY MaxIs
  <1>7. It(h)
    <2>1. ASSUME NEW r \in SUBSET D
          PROVE  FoldStep(F, s, r, h) =
                   IF r = {} THEN s ELSE Swaps(h[r \ {Max(r)}], Len(s) - id[Max(r)])
      <3>1. CASE r = {}
        BY <3>1 DEF FoldStep
      <3>2. CASE r # {}
        <4>1. <<h[r \ {Max(r)}], Max(r)>> \in V \X D
          <5> HIDE DEF V, D, h
          <5> QED
            BY <1>5, <1>6, <3>2
        <4>2. F[<<h[r \ {Max(r)}], Max(r)>>] = Swaps(h[r \ {Max(r)}], n - Max(r))
          <5> HIDE DEF V, D, h
          <5> QED
            BY <4>1
        <4> QED
          BY <1>2, <1>6, <3>2, <4>2 DEF FoldStep
      <3> QED
        BY <3>1, <3>2
    <2>2. h = [r \in SUBSET D |-> FoldStep(F, s, r, h)]
      BY <1>4 DEF Folds
    <2> HIDE DEF F, D, id, h
    <2> QED
      BY <1>2, <2>1, <2>2
  <1>8. It(c)
    <2> HIDE DEF It
    <2> QED
      BY <1>7
  <1>9. c[1 .. 0] = s
    <2>1. 1 .. 0 = {} /\ 1 .. 0 \in SUBSET D
      OBVIOUS
    <2> HIDE DEF c, D, id
    <2> QED
      BY <1>2, <1>8, <2>1
  <1>10. ASSUME NEW k \in 1 .. n PROVE c[1 .. k] = Swaps(c[1 .. k - 1], n - k)
    <2>1. 1 .. k \in SUBSET D /\ k \in Nat /\ k # 0 /\ k \in D
      OBVIOUS
    <2>2. Max(1 .. k) = k /\ (1 .. k) \ {Max(1 .. k)} = 1 .. k - 1 /\ 1 .. k # {}
      BY <2>1, MaxOfInterval
    <2>3. c[1 .. k] = IF 1 .. k = {} THEN s
                      ELSE Swaps(c[(1 .. k) \ {Max(1 .. k)}], Len(s) - id[Max(1 .. k)])
      <3> HIDE DEF c, D, id
      <3> QED
        BY <1>2, <1>8, <2>1
    <2> HIDE DEF c, id, D
    <2> QED
      BY <1>2, <2>1, <2>2, <2>3
  <1>11. /\ w[0] = s
         /\ w[n] = FreqSortByPolicy(s)
         /\ \A k \in 1 .. n : w[k] = Swaps(w[k - 1], n - k)
    <2>1. 0 \in 0 .. n /\ n \in 0 .. n /\ \A j \in 1 .. n : j \in 0 .. n /\ j - 1 \in 0 .. n
      OBVIOUS
    <2> HIDE DEF c, id
    <2> QED
      BY <1>1, <1>2, <1>9, <1>10, <2>1
  <1> HIDE DEF w
  <1> QED
    BY <1>11

\* After k passes the last k entries are in order, and none before them is greater.
Passed(n, s, t, k) ==
    /\ t \in [1 .. n -> Entry]
    /\ SameEntries(n, s, t)
    /\ \A a, b \in 1 .. n : a < b /\ b > n - k => t[a].policyId <= t[b].policyId

\* One more pass.
LEMMA PassStep ==
    ASSUME NEW n \in Nat, NEW s \in [1 .. n -> Entry], NEW k \in 1 .. n,
           NEW t, Passed(n, s, t, k - 1)
    PROVE  Passed(n, s, Swaps(t, n - k), k)
  <1> DEFINE m == n - k
             u == Swaps(t, m)
  <1>1. t \in [1 .. n -> Entry] /\ m \in Nat /\ m + 1 <= n /\ m + 1 \in 1 .. n
    BY DEF Passed
  <1>2. Bubbled(n, t, u, m)
    <2> HIDE DEF m
    <2> QED
      BY <1>1, SwapsBubble
  <1> HIDE DEF u
  <1>3. u \in [1 .. n -> Entry] /\ SameEntries(n, s, u)
    <2>1. SameEntries(n, s, t) /\ SameEntries(n, t, u) /\ u \in [1 .. n -> Entry]
      BY <1>2 DEF Bubbled, Passed
    <2> QED
      BY <2>1, SameEntriesOf
  <1>4. ASSUME NEW a \in 1 .. n, NEW b \in 1 .. n, a < b, b > n - k
        PROVE  u[a].policyId <= u[b].policyId
    <2>1. CASE b = m + 1
      <3>1. a \in 1 .. m + 1
        BY <1>4, <2>1
      <3> QED
        BY <1>2, <2>1, <3>1 DEF Bubbled
    <2>2. CASE b # m + 1
      <3>1. b > m + 1 /\ b > n - (k - 1)
        BY <1>4, <2>2
      <3>2. u[b] = t[b]
        BY <1>2, <3>1 DEF Bubbled
      <3>3. PICK c \in 1 .. n : c < b /\ u[a] = t[c]
        <4>1. CASE a \in 1 .. m + 1
          <5>1. PICK c \in 1 .. m + 1 : u[a] = t[c]
            BY <1>2, <4>1 DEF Bubbled
          <5>2. c \in 1 .. n /\ c < b
            BY <3>1
          <5> QED
            BY <5>1, <5>2
        <4>2. CASE a > m + 1
          BY <1>2, <1>4, <4>2 DEF Bubbled
        <4> QED
          BY <1>4, <4>1, <4>2
      <3> QED
        BY <3>1, <3>2, <3>3 DEF Passed
    <2> QED
      BY <2>1, <2>2
  <1> QED
    BY <1>3, <1>4 DEF Passed, u

\* Bubble sort sorts.
LEMMA SortFacts ==
    ASSUME NEW n \in Nat, NEW s \in [1 .. n -> Entry], Len(s) = n
    PROVE  /\ FreqSortByPolicy(s) \in [1 .. n -> Entry]
           /\ SameEntries(n, s, FreqSortByPolicy(s))
           /\ \A a, b \in 1 .. n :
                 a < b => FreqSortByPolicy(s)[a].policyId <= FreqSortByPolicy(s)[b].policyId
  <1>1. PICK w : /\ w[0] = s
                 /\ w[n] = FreqSortByPolicy(s)
                 /\ \A k \in 1 .. n : w[k] = Swaps(w[k - 1], n - k)
    BY PassesRun
  <1> DEFINE G == {k \in 0 .. n : Passed(n, s, w[k], k)}
  <1>2. 0 \in G
    BY <1>1 DEF Passed, SameEntries
  <1>3. ASSUME NEW k \in 0 .. n, k # 0, k - 1 \in G PROVE k \in G
    <2>1. k \in 1 .. n
      BY <1>3
    <2>2. Passed(n, s, Swaps(w[k - 1], n - k), k)
      BY <1>3, <2>1, PassStep
    <2> QED
      BY <1>1, <2>1, <2>2
  <1> HIDE DEF G
  <1>4. \A k \in 0 .. n : k \in G
    BY <1>2, <1>3, UpTo
  <1>5. n \in G
    BY <1>4
  <1>6. Passed(n, s, FreqSortByPolicy(s), n)
    BY <1>1, <1>5 DEF G
  <1>7. \A b \in 1 .. n : b > n - n
    OBVIOUS
  <1> QED
    BY <1>6, <1>7 DEF Passed

(***************************************************************************)
(* What GetCpuFreq reads.                                                  *)
(***************************************************************************)
\* s lists the members of D, the smallest first; finite sets of numbers have such a list.
Ascending(D, s) ==
    /\ s \in [1 .. Cardinality(D) -> D]
    /\ \A a, b \in 1 .. Cardinality(D) : a < b => s[a] < s[b]

LEMMA AscendingExists ==
    ASSUME NEW n \in Nat, NEW D \in SUBSET (0 .. n)
    PROVE  Cardinality(D) \in Nat /\ \E s : Ascending(D, s)
  <1> DEFINE G == {r \in SUBSET D : \E s : Ascending(r, s)}
  <1>1. IsFiniteSet(0 .. n)
    BY FS_Interval
  <1>2. \A r \in SUBSET (0 .. n) : IsFiniteSet(r) /\ Cardinality(r) \in Nat
    BY <1>1, FS_Subset, FS_CardinalityType
  <1>3. ASSUME NEW r \in SUBSET D, \A q \in SUBSET r : q # r => q \in G
        PROVE  r \in G
    <2>1. CASE r = {}
      <3> DEFINE s == [a \in 1 .. 0 |-> 0]
      <3>1. Cardinality(r) = 0
        BY <2>1, FS_EmptySet
      <3>2. s \in [1 .. 0 -> r] /\ \A a \in 1 .. 0 : FALSE
        OBVIOUS
      <3> HIDE DEF s
      <3>3. Ascending(r, s)
        BY <3>1, <3>2 DEF Ascending
      <3> QED
        BY <3>3
    <2>2. CASE r # {}
      <3>1. r \in SUBSET (0 .. n)
        OBVIOUS
      <3>2. PICK m : m = Max(r)
        OBVIOUS
      <3>3. m \in r /\ \A y \in r : y <= m
        BY <2>2, <3>1, <3>2, MaxFacts
      <3> DEFINE q == r \ {m}
                 l == Cardinality(q)
      <3>4. q \in G
        BY <1>3, <3>3
      <3>5. l \in Nat /\ Cardinality(r) = l + 1
        <4>1. IsFiniteSet(r) /\ Cardinality(r) \in Nat /\ Cardinality(q) \in Nat
          BY <1>2, <3>1
        <4>2. Cardinality(r \ {m}) = Cardinality(r) - 1
          BY <3>3, <4>1, FS_RemoveElement
        <4> QED
          BY <4>1, <4>2
      <3>6. PICK s : Ascending(q, s)
        BY <3>4
      <3>7. s \in [1 .. l -> q] /\ \A a, b \in 1 .. l : a < b => s[a] < s[b]
        BY <3>6 DEF Ascending
      <3>8. \A y \in q : y \in r /\ y < m /\ y \in Nat
        BY <3>1, <3>3
      <3> HIDE DEF l, q
      <3> DEFINE t == [a \in 1 .. l + 1 |-> IF a = l + 1 THEN m ELSE s[a]]
      <3>9. \A a \in 1 .. l + 1 : a # l + 1 => a \in 1 .. l /\ t[a] = s[a] /\ s[a] \in q
        BY <3>5, <3>7
      <3>10. t[l + 1] = m /\ l + 1 \in 1 .. l + 1
        BY <3>5
      <3>11. t \in [1 .. l + 1 -> r]
        BY <3>3, <3>8, <3>9, <3>10
      <3> HIDE DEF t
      <3>12. ASSUME NEW a \in 1 .. l + 1, NEW b \in 1 .. l + 1, a < b PROVE t[a] < t[b]
        <4>1. a # l + 1
          BY <3>5, <3>12
        <4>2. CASE b = l + 1
          BY <3>8, <3>9, <3>10, <4>1, <4>2
        <4>3. CASE b # l + 1
          BY <3>7, <3>9, <3>12, <4>1, <4>3
        <4> QED
          BY <4>2, <4>3
      <3>13. Ascending(r, t)
        BY <3>5, <3>11, <3>12 DEF Ascending
      <3> QED
        BY <3>13
    <2> QED
      BY <2>1, <2>2
  <1>4. IsFiniteSet(D) /\ Cardinality(D) \in Nat
    BY <1>2
  <1> HIDE DEF G
  <1>5. SUBSET D \subseteq G
    BY <1>3, <1>4, SubsetInduction
  <1>6. D \in G
    BY <1>5
  <1> QED
    BY <1>4, <1>6 DEF G

\* The targets of a request, and those that are processors.
Named(ids) == {ids[k] : k \in DOMAIN ids}
Valid(ids) == Named(ids) \intersect (0 .. CpuNum - 1)

\* After the merge there are as many names as valid ids, all of them valid.
LEMMA MergeFacts ==
    ASSUME NEW ids
    PROVE  /\ Cardinality(Valid(ids)) \in Nat
           /\ MergeDuplicatePolicys(ids) \in [1 .. Cardinality(Valid(ids)) -> Valid(ids)]
  <1> DEFINE D == Valid(ids)
             n == Cardinality(D)
  <1>1. D \in SUBSET (0 .. CpuNum) /\ CpuNum \in Nat
    BY CpuFreqAssumption DEF Valid
  <1> HIDE DEF D
  <1>2. n \in Nat /\ \E s : Ascending(D, s)
    BY <1>1, AscendingExists
  <1> HIDE DEF n
  <1>3. MergeDuplicatePolicys(ids) =
            CHOOSE s \in [1 .. n -> D] : \A a, b \in DOMAIN s : a < b => s[a] < s[b]
    BY DEF MergeDuplicatePolicys, n, D, Valid, Named
  <1>4. \E s \in [1 .. n -> D] : \A a, b \in DOMAIN s : a < b => s[a] < s[b]
    <2>1. PICK s : Ascending(D, s)
      BY <1>2
    <2>2. s \in [1 .. n -> D] /\ \A a, b \in DOMAIN s : a < b => s[a] < s[b]
      BY <2>1 DEF Ascending, n
    <2> QED
      BY <2>2
  <1>5. MergeDuplicatePolicys(ids) \in [1 .. n -> D]
    BY <1>3, <1>4
  <1> QED
    BY <1>2, <1>5 DEF n, D

\* What is read of the policies ps, ordered.
Reading(n, ps, d) ==
    /\ d \in [1 .. n -> Entry] /\ Len(d) = n
    /\ \A a, b \in 1 .. n : a < b => d[a].policyId <= d[b].policyId
    /\ \A k \in 1 .. n : \E c \in 1 .. n : d[k] = [policyId |-> ps[c], curFreq |-> freq[ps[c]]]
    /\ \A c \in 1 .. n : \E k \in 1 .. n : d[k] = [policyId |-> ps[c], curFreq |-> freq[ps[c]]]

LEMMA FnLen ==
    ASSUME NEW S, NEW n \in Nat, NEW f \in [1 .. n -> S]
    PROVE  Len(f) = n
  OBVIOUS

\* FreqRead returns it.
LEMMA ReadFacts ==
    ASSUME Inv, NEW n \in Nat, NEW ps \in [1 .. n -> Policy]
    PROVE  Reading(n, ps, FreqRead(ps))
  <1> DEFINE s == [k \in 1 .. n |-> [policyId |-> ps[k], curFreq |-> freq[ps[k]]]]
  <1>1. FreqRead(ps) = FreqSortByPolicy(s)
    <2>1. DOMAIN ps = 1 .. n
      OBVIOUS
    <2> QED
      BY <2>1 DEF FreqRead
  <1>2. s \in [1 .. n -> Entry]
    <2>1. \A k \in 1 .. n : ps[k] \in Nat /\ freq[ps[k]] \in Nat
      BY ListingFacts DEF Inv, TypeOK
    <2> QED
      BY <2>1 DEF Entry
  <1>3. \A k \in 1 .. n : s[k] = [policyId |-> ps[k], curFreq |-> freq[ps[k]]]
    OBVIOUS
  <1>4. Len(s) = n
    <2> HIDE DEF s
    <2> QED
      BY <1>2, FnLen
  <1> HIDE DEF s
  <1>5. PICK d : d = FreqSortByPolicy(s)
    OBVIOUS
  <1>6. /\ d \in [1 .. n -> Entry]
        /\ SameEntries(n, s, d)
        /\ \A a, b \in 1 .. n : a < b => d[a].policyId <= d[b].policyId
    BY <1>2, <1>4, <1>5, SortFacts
  <1>7. Len(d) = n
    BY <1>6, FnLen
  <1>8. \A k \in 1 .. n : \E c \in 1 .. n : d[k] = [policyId |-> ps[c], curFreq |-> freq[ps[c]]]
    <2> SUFFICES ASSUME NEW k \in 1 .. n
                 PROVE  \E c \in 1 .. n : d[k] = [policyId |-> ps[c], curFreq |-> freq[ps[c]]]
      OBVIOUS
    <2>1. PICK c \in 1 .. n : d[k] = s[c]
      BY <1>6 DEF SameEntries
    <2> QED
      BY <1>3, <2>1
  <1>9. \A c \in 1 .. n : \E k \in 1 .. n : d[k] = [policyId |-> ps[c], curFreq |-> freq[ps[c]]]
    <2> SUFFICES ASSUME NEW c \in 1 .. n
                 PROVE  \E k \in 1 .. n : d[k] = [policyId |-> ps[c], curFreq |-> freq[ps[c]]]
      OBVIOUS
    <2>1. PICK k \in 1 .. n : d[k] = s[c]
      BY <1>6 DEF SameEntries
    <2> QED
      BY <1>3, <2>1
  <1>10. Reading(n, ps, d)
    BY <1>6, <1>7, <1>8, <1>9 DEF Reading
  <1> QED
    BY <1>1, <1>5, <1>10

\* ls lists each policy once.
LEMMA PolicyCount == Cardinality(Policy) = Len(Listing)
  <1> DEFINE n == Len(Listing)
  <1>1. n \in Nat /\ DOMAIN Listing = 1 .. n
    BY ListingFacts
  <1>2. Listing \in [1 .. n -> Policy]
    BY ListingFacts, CpuFreqAssumption
  <1>3. Listing \in Surjection(1 .. n, Policy)
    BY <1>1, <1>2, ListingFacts DEF Surjection
  <1>4. Listing \in Injection(1 .. n, Policy)
    BY <1>1, <1>2, CpuFreqAssumption DEF Injection, IsInjective
  <1>5. IsFiniteSet(1 .. n) /\ Cardinality(1 .. n) = n
    <2> HIDE DEF n
    <2>1. IsFiniteSet(1 .. n) /\ Cardinality(1 .. n) = IF 1 > n THEN 0 ELSE n - 1 + 1
      BY <1>1, FS_Interval
    <2> QED
      BY <1>1, <2>1
  <1> HIDE DEF n
  <1>6. Cardinality(Policy) = Cardinality(1 .. n)
    BY <1>3, <1>4, <1>5, FS_Surjection
  <1> QED
    BY <1>5, <1>6 DEF n

\* The parts of FrequenciesAreTrue: what an answer looks like, and that it is what the
\* policies run at.
Answered(r) == r # None /\ r.op = "GetFreq" /\ r.code = "SUCCESS"

Complete(r) ==
    /\ \A k, l \in DOMAIN r.data : k < l => r.data[k].policyId <= r.data[l].policyId
    /\ \A k \in DOMAIN r.data : r.data[k].policyId \in Policy
    /\ Named(r.arg) = {} => /\ Len(r.data) = Cardinality(Policy)
                            /\ \A p \in Policy : \E k \in DOMAIN r.data : r.data[k].policyId = p
    /\ Named(r.arg) # {} => /\ Len(r.data) = Cardinality(Valid(r.arg))
                            /\ \A k \in DOMAIN r.data : r.data[k].policyId \in Named(r.arg)

Current(r, f) == \A k \in DOMAIN r.data : r.data[k].curFreq = f[r.data[k].policyId]

LEMMA Parts ==
    /\ FrequenciesAreTrue <=>
         (Answered(rsp) => Complete(rsp) /\ (~disturbed => Current(rsp, freq)))
    /\ FrequenciesAreTrue' <=>
         (Answered(rsp') => Complete(rsp') /\ (~disturbed' => Current(rsp', freq')))
  BY DEF FrequenciesAreTrue, Answered, Complete, Current, Named, Valid

\* The answer of GetCpuFreq.
LEMMA GetCpuFreqReads ==
    ASSUME Inv, GetCpuFreq
    PROVE  FrequenciesAreTrue'
  <1>1. at = "check" /\ req.op = "GetFreq" /\ UNCHANGED <<governor, range, freq, disturbed>>
    BY DEF GetCpuFreq, sysfs
  <1>2. req \in Request
    BY <1>1 DEF Inv, TypeOK
  <1>3. req.arg = <<>> <=> Named(req.arg) = {}
    <2>1. req.arg \in BoundedSeq(Id, MaxTargets)
      BY <1>1, <1>2 DEF Request
    <2>2. req.arg \in Seq(Id)
      BY <2>1, CpuFreqAssumption DEF BoundedSeq, SeqOf
    <2>3. Len(req.arg) \in Nat /\ DOMAIN req.arg = 1 .. Len(req.arg)
      BY <2>2
    <2>4. req.arg = <<>> <=> Len(req.arg) = 0
      BY <2>2
    <2>5. Len(req.arg) = 0 <=> DOMAIN req.arg = {}
      <3>1. \A l \in Nat : l # 0 => 1 \in 1 .. l
        OBVIOUS
      <3>2. \A l \in Nat : l = 0 => 1 .. l = {}
        OBVIOUS
      <3> QED
        BY <2>3, <3>1, <3>2
    <2> QED
      BY <2>4, <2>5 DEF Named
  <1>4. CASE req.arg = <<>> /\ Answer("SUCCESS", FreqRead(Listing))
    <2> DEFINE n == Len(Listing)
    <2>1. n \in Nat /\ Listing \in [1 .. n -> Policy]
      BY ListingFacts, CpuFreqAssumption
    <2>2. PICK d : d = FreqRead(Listing)
      OBVIOUS
    <2>3. Reading(n, Listing, d)
      <3> HIDE DEF n
      <3> QED
        BY <2>1, <2>2, ReadFacts
    <2>4. rsp' = [op |-> req.op, arg |-> req.arg, code |-> "SUCCESS", data |-> d]
      BY <1>4, <2>2 DEF Answer
    <2>5. DOMAIN d = 1 .. n /\ Len(d) = n
      BY <2>3 DEF Reading
    <2>6. \A p \in Policy : \E k \in DOMAIN d : d[k].policyId = p
      <3> SUFFICES ASSUME NEW p \in Policy PROVE \E k \in DOMAIN d : d[k].policyId = p
        OBVIOUS
      <3>1. PICK c \in 1 .. n : p = Listing[c]
        BY ListingFacts
      <3>2. PICK k \in 1 .. n : d[k] = [policyId |-> Listing[c], curFreq |-> freq[Listing[c]]]
        BY <2>3 DEF Reading
      <3> QED
        BY <2>5, <3>1, <3>2
    <2>7. ASSUME NEW k \in DOMAIN d
          PROVE  d[k].policyId \in Policy /\ d[k].curFreq = freq[d[k].policyId]
      <3>1. PICK c \in 1 .. n : d[k] = [policyId |-> Listing[c], curFreq |-> freq[Listing[c]]]
        BY <2>3, <2>5 DEF Reading
      <3>2. Listing[c] \in Policy
        BY <2>1
      <3> QED
        BY <3>1, <3>2
    <2>8. \A k, l \in DOMAIN d : k < l => d[k].policyId <= d[l].policyId
      BY <2>3, <2>5 DEF Reading
    <2>9. rsp'.data = d /\ rsp'.arg = req.arg
      BY <2>4
    <2>10. Named(rsp'.arg) = {}
      BY <1>3, <1>4, <2>9
    <2>11. Complete(rsp')
      BY <2>5, <2>6, <2>7, <2>8, <2>9, <2>10, PolicyCount DEF Complete
    <2>12. Current(rsp', freq')
      BY <1>1, <2>7, <2>9 DEF Current
    <2> QED
      BY <2>11, <2>12, Parts
  <1>5. ASSUME NEW m, m = MergeDuplicatePolicys(req.arg), req.arg # <<>>, AllKnown(m),
               Answer("SUCCESS", FreqRead(InputTargetPolicys(m)))
        PROVE  FrequenciesAreTrue'
    <2> DEFINE n == Cardinality(Valid(req.arg))
               ps == InputTargetPolicys(m)
    <2>1. n \in Nat /\ m \in [1 .. n -> Valid(req.arg)]
      BY <1>5, MergeFacts
    <2> HIDE DEF n
    <2>2. ps \in [1 .. n -> Policy] /\ \A k \in 1 .. n : ps[k] \in Valid(req.arg)
      BY <1>5, <2>1 DEF AllKnown, InputTargetPolicys
    <2> HIDE DEF ps
    <2>3. PICK d : d = FreqRead(ps)
      OBVIOUS
    <2>4. Reading(n, ps, d)
      BY <2>1, <2>2, <2>3, ReadFacts
    <2>5. rsp' = [op |-> req.op, arg |-> req.arg, code |-> "SUCCESS", data |-> d]
      BY <1>5, <2>3 DEF Answer, ps
    <2>6. DOMAIN d = 1 .. n /\ Len(d) = n
      BY <2>4 DEF Reading
    <2>7. ASSUME NEW k \in DOMAIN d
          PROVE  /\ d[k].policyId \in Policy
                 /\ d[k].policyId \in Valid(req.arg)
                 /\ d[k].curFreq = freq[d[k].policyId]
      <3>1. PICK c \in 1 .. n : d[k] = [policyId |-> ps[c], curFreq |-> freq[ps[c]]]
        BY <2>4, <2>6 DEF Reading
      <3>2. ps[c] \in Policy /\ ps[c] \in Valid(req.arg)
        BY <2>2
      <3> QED
        BY <3>1, <3>2
    <2>8. \A k, l \in DOMAIN d : k < l => d[k].policyId <= d[l].policyId
      BY <2>4, <2>6 DEF Reading
    <2>9. rsp'.data = d /\ rsp'.arg = req.arg
      BY <2>5
    <2>10. Named(req.arg) # {}
      BY <1>3, <1>5
    <2>11. Complete(rsp')
      <3>1. Len(d) = Cardinality(Valid(req.arg))
        BY <2>6 DEF n
      <3>2. \A k \in DOMAIN d : d[k].policyId \in Policy /\ d[k].policyId \in Named(req.arg)
        BY <2>7 DEF Valid
      <3> QED
        BY <2>8, <2>9, <2>10, <3>1, <3>2 DEF Complete
    <2>12. Current(rsp', freq')
      BY <1>1, <2>7, <2>9 DEF Current
    <2> QED
      BY <2>11, <2>12, Parts
  <1>6. ASSUME NEW c, c # "SUCCESS", Answer(c, <<>>) PROVE FrequenciesAreTrue'
    BY <1>6, Parts DEF Answer, Answered
  <1> QED
    BY <1>4, <1>5, <1>6 DEF GetCpuFreq

\* No other step answers a GetFreq or, without being a disturbance, changes a frequency
\* while there is an answer.
LEMMA ReadStep == Inv /\ FrequenciesAreTrue /\ [Next]_vars => FrequenciesAreTrue'
  <1> SUFFICES ASSUME Inv, FrequenciesAreTrue, [Next]_vars PROVE FrequenciesAreTrue'
    OBVIOUS
  <1>1. CASE GetCpuFreq
    BY <1>1, GetCpuFreqReads
  <1>2. CASE ReceiveRequest
    BY <1>2, Parts DEF ReceiveRequest, Answered
  <1>3. CASE ChangeOutside
    <2>1. UNCHANGED rsp /\ disturbed' = TRUE
      BY <1>3 DEF ChangeOutside
    <2> QED
      BY <2>1, Parts
  <1>4. CASE UNCHANGED vars
    BY <1>4, Parts DEF vars, sysfs
  <1>5. ASSUME rsp = None, UNCHANGED rsp \/ rsp'.op # "GetFreq" PROVE FrequenciesAreTrue'
    BY <1>5, Parts DEF Answered
  <1>6. CASE Restart
    BY <1>5, <1>6 DEF Restart, Inv, HandlerOK
  <1>7. CASE GetCpuFreqGovernor \/ GetCpuFreqRange
    <2>1. rsp = None /\ rsp'.op # "GetFreq"
      BY <1>7 DEF GetCpuFreqGovernor, GetCpuFreqRange, Answer, Inv, HandlerOK
    <2> QED
      BY <1>5, <2>1
  <1>8. CASE CheckAvailableGovernor
    <2>1. rsp = None /\ (UNCHANGED rsp \/ rsp'.op = "SetGovernor")
      BY <1>8 DEF CheckAvailableGovernor, Answer, Inv, HandlerOK
    <2> QED
      BY <1>5, <2>1
  <1>9. CASE CurrentGovernorRead
    BY <1>5, <1>9 DEF CurrentGovernorRead, Inv, HandlerOK
  <1>10. CASE FreqRangeRead
    <2>1. rsp = None /\ (UNCHANGED rsp \/ rsp'.op = "SetFreq")
      BY <1>10 DEF FreqRangeRead, Answer, Inv, HandlerOK
    <2> QED
      BY <1>5, <2>1
  <1>11. CASE WriteFile \/ EchoIsRefused \/ WriteFails
    <2>1. rsp = None /\ (UNCHANGED rsp \/ rsp'.op = req.op) /\ req.op # "GetFreq"
      BY <1>11 DEF WriteFile, EchoIsRefused, WriteFails, GoOn, Answer, Inv, HandlerOK
    <2> QED
      BY <1>5, <2>1
  <1> QED
    BY <1>1, <1>2, <1>3, <1>4, <1>6, <1>7, <1>8, <1>9, <1>10, <1>11 DEF Next, Handle

\* What GetCpuFreq answers is true and in order, for any policies, in whatever order they
\* are listed, and any targets; FreqSortByPolicy is proved to sort on the way.
THEOREM ReadingCorrect == Spec => []FrequenciesAreTrue
  <1>1. Init => FrequenciesAreTrue
    BY DEF Init, FrequenciesAreTrue
  <1> QED
    BY <1>1, InitInv, NextInv, ReadStep, PTL DEF Spec
=============================================================================
