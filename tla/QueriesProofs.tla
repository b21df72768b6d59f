--------------------------- MODULE QueriesProofs ---------------------------
(***************************************************************************)
(* Proofs about the queries of module Queries, for any number of cores,    *)
(* lines, governors and sizes of buffers.                                  *)
(***************************************************************************)
EXTENDS Queries, FunctionTheorems, FiniteSetTheorems, TLAPS

(***************************************************************************)
(* The inductive invariant.                                                *)
(***************************************************************************)
Word == ToSet(Available) \union {Foreign}

At == {"idle", "first", "second", "info", "arch", "run", "running", "read", "policys",
       "governors", "scan", "domains", "done"}
Job == {"none", "usage", "perf", "info", "ability"}
Code == {"SUCCESS", "ERR_COMMON", "garbage"}
Figures == {"none", "figures", "text", "empty", "old"}

State == [at : At, job : Job, code : Code, first : SUBSET Core, second : SUBSET Core,
          govs : Seq(Word), figures : Figures, mixed : BOOLEAN]

MachineTyped ==
    /\ policies \in Nat /\ online \in SUBSET Core
    /\ rest \in Seq(Word)
    /\ perfFile \in {"empty", "figures", "text"}

CallTyped ==
    /\ call \in [fn : Fn \union {"none"}, room : Nat, at : {"idle", "sent", "taken"}]
    /\ call.at # "idle" => call.fn \in Fn
    /\ call.at = "taken" => call.fn \in DOMAIN FirstStep

Typed == MachineTyped /\ CallTyped /\ reader \in [Reader -> State]

\* Reader r does what it was begun for, and only the service thread asks for the frequency
\* ability.
JobGood(r, s) ==
    /\ s.at \in {"first", "second"} => s.job = "usage"
    /\ s.at = "info" => s.job = "info"
    /\ s.at \in {"arch", "run", "running", "read"} => s.job = "perf"
    /\ s.at \in {"policys", "governors", "scan", "domains"} => s.job = "ability"
    /\ s.job = "ability" => r = Service

Reported(s, job) == s.at = "done" /\ s.job = job /\ s.code = "SUCCESS"

\* Who is to read perf.txt began before it was last written, and unless the other one has
\* emptied it meanwhile there is something in it.
PerfGood(r, s, file, who) ==
    /\ s.at = "read" => r \in who /\ (s.mixed \/ file # "empty")
    /\ Reported(s, "perf") =>
          s.figures \in {"figures", "text"} \/ (s.mixed /\ s.figures = "empty")

\* Between two words of the governors, those taken and those left are all of them, unless
\* strtok was used meanwhile.
Scanning(s, left) ==
    /\ s.govs # <<>> /\ s.govs[1] = Available[1]
    /\ ~s.mixed =>
          /\ Len(s.govs) + Len(left) = Len(Available)
          /\ \A i \in 1 .. Len(s.govs) : s.govs[i] = Available[i]
          /\ \A i \in 1 .. Len(left) : left[i] = Available[Len(s.govs) + i]

GovernorsGood(s, left) ==
    /\ s.at = "scan" => Scanning(s, left)
    /\ s.at = "domains" => Scanning(s, <<>>)
    /\ Reported(s, "ability") => Scanning(s, <<>>)

\* Reader r in state s, with the rest of the words, perf.txt and those it is fresh for.
StateGood(r, s, left, file, who) ==
    /\ JobGood(r, s)
    /\ Reported(s, "usage") => SameLines(s.first, s.second)
    /\ PerfGood(r, s, file, who)
    /\ GovernorsGood(s, left)

ReadersGood == Typed /\ \A r \in Reader : StateGood(r, reader[r], rest, perfFile, fresh)

Inv == ReadersGood /\ CountIsOfTheBuffer

(***************************************************************************)
(* CPUUsageRead: the lines of cores in two readings.                       *)
(***************************************************************************)
\* The place of each core among those on-line is a bijection to the lines.
LEMMA LineFacts ==
    ASSUME NEW S \in SUBSET Core
    PROVE  /\ Cardinality(S) \in 0 .. CoreNum
           /\ \A i \in 1 .. Cardinality(S) : Line(S, i) \in S
           /\ \A c \in S : \E i \in 1 .. Cardinality(S) : Line(S, i) = c
  <1> DEFINE n == Cardinality(S)
             Before(c) == {d \in S : d < c}
             f == [c \in S |-> Cardinality(Before(c)) + 1]
  <1>1. IsFiniteSet(Core) /\ Cardinality(Core) = CoreNum
    <2>1. 0 \in Int /\ CoreNum - 1 \in Int /\ ~(0 > CoreNum - 1) /\ CoreNum - 1 - 0 + 1 = CoreNum
      BY QueriesAssumption
    <2>2. /\ IsFiniteSet(0 .. CoreNum - 1)
          /\ Cardinality(0 .. CoreNum - 1) =
                IF 0 > CoreNum - 1 THEN 0 ELSE CoreNum - 1 - 0 + 1
      BY ONLY <2>1, FS_Interval
    <2> QED
      BY <2>1, <2>2 DEF Core
  <1>2. IsFiniteSet(S) /\ n \in Nat /\ n <= CoreNum
    BY <1>1, FS_Subset, FS_CardinalityType
  <1>3. ASSUME NEW A \in SUBSET S, NEW B \in SUBSET A, NEW c \in A, c \notin B
        PROVE  /\ Cardinality(A) \in Nat /\ Cardinality(B) \in Nat
               /\ Cardinality(B) < Cardinality(A)
    <2>1. IsFiniteSet(A) /\ IsFiniteSet(B)
      BY <1>2, <1>3, FS_Subset
    <2>2. Cardinality(A) \in Nat /\ Cardinality(B) \in Nat
      BY <2>1, FS_CardinalityType
    <2>3. Cardinality(B) <= Cardinality(A) /\ Cardinality(A) # Cardinality(B)
      BY <1>3, <2>1, FS_Subset
    <2> QED
      BY <2>2, <2>3
  <1>4. S \subseteq Int
    BY QueriesAssumption DEF Core
  <1>5. ASSUME NEW c \in S PROVE f[c] \in 1 .. n
    <2>1. Before(c) \in SUBSET S /\ c \notin Before(c)
      BY <1>4
    <2>2. Cardinality(Before(c)) \in Nat /\ Cardinality(Before(c)) < n
      BY <1>3, <2>1
    <2> QED
      BY <1>2, <2>2
  <1>6. ASSUME NEW c \in S, NEW d \in S, c < d PROVE f[c] < f[d]
    <2>1. /\ Before(d) \in SUBSET S /\ Before(c) \in SUBSET Before(d)
          /\ c \in Before(d) /\ c \notin Before(c)
      <3>1. \A e \in S : e < c => e < d
        BY <1>4, <1>6
      <3>2. ~(c < c)
        BY <1>4
      <3> QED
        BY <1>6, <3>1, <3>2
    <2>2. /\ Cardinality(Before(c)) \in Nat /\ Cardinality(Before(d)) \in Nat
          /\ Cardinality(Before(c)) < Cardinality(Before(d))
      BY <1>3, <2>1
    <2> QED
      BY <2>2
  <1>7. f \in Injection(S, 1 .. n)
    <2>1. f \in [S -> 1 .. n]
      BY <1>5
    <2>2. \A c, d \in S : f[c] = f[d] => c = d
      <3> SUFFICES ASSUME NEW c \in S, NEW d \in S, f[c] = f[d], c # d PROVE FALSE
        OBVIOUS
      <3>1. c < d \/ d < c
        BY <1>4
      <3>2. f[c] \in Int /\ f[d] \in Int
        BY <1>5
      <3> HIDE DEF f
      <3> QED
        BY <1>6, <3>1, <3>2
    <2> HIDE DEF f
    <2> QED
      BY <2>1, <2>2 DEF Injection, IsInjective
  <1>8. f \in Surjection(S, 1 .. n)
    <2>1. IsFiniteSet(1 .. n) /\ Cardinality(1 .. n) = n
      <3> HIDE DEF n
      <3>1. IsFiniteSet(1 .. n) /\ Cardinality(1 .. n) = IF 1 > n THEN 0 ELSE n - 1 + 1
        BY <1>2, FS_Interval
      <3> QED
        BY <1>2, <3>1
    <2> HIDE DEF f, n
    <2> QED
      BY <1>7, <2>1, FS_Injection DEF n
  <1>9. ASSUME NEW c \in S PROVE Line(S, f[c]) = c
    <2>1. f[c] \in 1 .. n /\ f[c] - 1 = Cardinality(Before(c))
      <3>1. f[c] \in 1 .. n
        BY <1>5
      <3>2. Before(c) \in SUBSET S
        OBVIOUS
      <3>3. Cardinality(Before(c)) \in Nat
        BY <1>2, <3>2, FS_Subset, FS_CardinalityType
      <3> QED
        BY <3>1, <3>3
    <2>2. \A d \in S : Cardinality(Before(d)) = f[c] - 1 => d = c
      <3> SUFFICES ASSUME NEW d \in S, Cardinality(Before(d)) = Cardinality(Before(c)) PROVE d = c
        BY <2>1
      <3>1. f[d] = f[c]
        OBVIOUS
      <3> HIDE DEF f
      <3> QED
        BY <1>7, <3>1 DEF Injection, IsInjective
    <2>3. c = CHOOSE d \in S : Cardinality({e \in S : e < d}) = f[c] - 1
      <3>1. Cardinality({e \in S : e < c}) = f[c] - 1
        BY <2>1
      <3>2. \A d \in S : Cardinality({e \in S : e < d}) = f[c] - 1 => d = c
        BY <2>2
      <3> HIDE DEF f
      <3> QED
        BY <3>1, <3>2
    <2>4. f[c] # 0 /\ ~(f[c] > n)
      BY <1>2, <2>1
    <2> HIDE DEF f
    <2> QED
      BY <2>3, <2>4 DEF Line
  <1> HIDE DEF f, Before
  <1>10. \A i \in 1 .. n : Line(S, i) \in S
    <2> SUFFICES ASSUME NEW i \in 1 .. n PROVE Line(S, i) \in S
      OBVIOUS
    <2>1. PICK c \in S : f[c] = i
      BY <1>8 DEF Surjection
    <2> QED
      BY <1>9, <2>1
  <1>11. \A c \in S : \E i \in 1 .. n : Line(S, i) = c
    BY <1>5, <1>9
  <1> QED
    BY <1>2, <1>10, <1>11

LEMMA UsageFacts ==
    ASSUME NEW r \in Reader, NEW first \in SUBSET Core, NEW second \in SUBSET Core,
           SameLines(first, second), NEW c \in Core
    PROVE  Entries(r, first, second)[c] =
               IF c \in first \union second THEN [holds |-> "usage", of |-> {c}]
               ELSE [holds |-> Memory(r), of |-> {}]
  <1> DEFINE n == Cardinality(first)
             m == Cardinality(second)
  <1>1. /\ n \in 0 .. CoreNum
        /\ \A i \in 1 .. n : Line(first, i) \in first
        /\ \A d \in first : \E i \in 1 .. n : Line(first, i) = d
    BY LineFacts
  <1>2. /\ m \in 0 .. CoreNum
        /\ \A i \in 1 .. m : Line(second, i) \in second
        /\ \A d \in second : \E i \in 1 .. m : Line(second, i) = d
    BY LineFacts
  <1>3. \A i \in 0 .. CoreNum : Line(first, i) = Line(second, i)
    BY DEF SameLines
  <1>4. CoreNum \in Nat /\ \A d \in Core : d \in Nat
    BY QueriesAssumption DEF Core
  <1>5. \A i \in 1 .. n : i <= m
    <2> SUFFICES ASSUME NEW i \in 1 .. n, i > m PROVE FALSE
      BY <1>1, <1>2
    <2>1. Line(first, i) \in Nat /\ Line(first, i) = Line(second, i)
      BY <1>1, <1>3, <1>4
    <2>2. Line(second, i) = -2
      BY <1>1 DEF Line
    <2> QED
      BY <2>1, <2>2
  <1>6. \A i \in 1 .. m : i <= n
    <2> SUFFICES ASSUME NEW i \in 1 .. m, i > n PROVE FALSE
      BY <1>1, <1>2
    <2>1. Line(second, i) \in Nat /\ Line(first, i) = Line(second, i)
      BY <1>2, <1>3, <1>4
    <2>2. Line(first, i) = -2
      BY <1>2 DEF Line
    <2> QED
      BY <2>1, <2>2
  <1>7. n = m
    BY <1>1, <1>2, <1>5, <1>6
  <1>8. \A i \in 1 .. n : Line(first, i) = Line(second, i)
    BY <1>1, <1>3, <1>4
  <1> HIDE DEF n, m
  <1>9. \A d \in first : \E i \in 1 .. n : Line(first, i) = d
    BY <1>1
  <1>10. second = first
    <2>1. \A d \in second : d \in first
      BY <1>1, <1>2, <1>7, <1>8
    <2>2. \A d \in first : d \in second
      BY <1>2, <1>7, <1>8, <1>9
    <2> QED
      BY <2>1, <2>2
  <1> DEFINE places == {i \in 1 .. n : Line(first, i) = c}
             of == {d \in Core : \E i \in places : d \in {Line(first, i), Line(second, i)}}
  <1>11. Entries(r, first, second)[c] =
            [holds |-> IF places = {} THEN Memory(r) ELSE "usage", of |-> of]
    BY DEF Entries, n
  <1>12. \A i \in places : Line(first, i) = c /\ Line(second, i) = c
    BY <1>8
  <1>13. CASE c \in first
    <2>1. PICK i \in 1 .. n : Line(first, i) = c
      BY <1>9, <1>13
    <2>2. i \in places
      BY <2>1
    <2> HIDE DEF places
    <2>3. of = {c}
      BY <1>12, <2>2
    <2> HIDE DEF of
    <2>4. places # {}
      BY <2>2
    <2> QED
      BY <1>11, <1>13, <2>3, <2>4
  <1>14. CASE c \notin first
    <2>1. places = {}
      BY <1>1, <1>14
    <2> HIDE DEF places
    <2>2. of = {}
      BY <2>1
    <2> HIDE DEF of
    <2> QED
      BY <1>10, <1>11, <1>14, <2>1, <2>2
  <1> QED
    BY <1>13, <1>14

(***************************************************************************)
(* The interface and the counts.                                           *)
(***************************************************************************)
\* Which calls leave the count to a failure; the daemon handles none of the first kind.
LEMMA CountFacts ==
    ASSUME NEW fn
    PROVE  /\ Follows(fn, "onFailure") => fn \notin Handled
           /\ Follows(fn, "remediatedOnFailure") => fn = "CpuGetFreqAbility"
  <1> DEFINE NoHandler == {"DiskGetList", "DiskGetLoad", "DiskGetPwrLevel", "DiskGetScsiPolicy",
                           "UsbGetAutoSuspend"}
             Good(r) == /\ r.rule = "onFailure" => r.fns \subseteq NoHandler
                        /\ r.rule = "remediatedOnFailure" => r.fns = {"CpuGetFreqAbility"}
  <1>1. \A r \in Handlers : NoHandler \intersect r.fns = {}
    BY DEF Handlers, SysHandlers, ComHandlers, CpuHandlers, Answering
  <1>2. NoHandler \intersect Handled = {}
    <2>1. NoHandler \intersect DOMAIN FirstStep = {}
      BY DEF FirstStep
    <2>2. \A fn1 \in Handled : fn1 \in DOMAIN FirstStep \/ \E r \in Handlers : fn1 \in r.fns
      BY DEF Handled
    <2> HIDE DEF NoHandler
    <2> QED
      BY <1>1, <2>1, <2>2
  <1>3. ASSUME NEW r \in Wrappers PROVE Good(r)
    <2>1. CASE r \in ComWrappers \union TaskWrappers \union SysWrappers \union CpuDmaWrappers
      BY <2>1 DEF ComWrappers, TaskWrappers, SysWrappers, CpuDmaWrappers, Counting
    <2>2. CASE r \in CpuReadWrappers \union CpuFreqWrappers
      BY <2>2 DEF CpuReadWrappers, CpuFreqWrappers, Counting
    <2>3. CASE r \in DiskWrappers \union NetWrappers \union UsbWrappers
      BY <2>3 DEF DiskWrappers, NetWrappers, UsbWrappers, Counting
    <2> QED
      BY <1>3, <2>1, <2>2, <2>3 DEF Wrappers
  <1> HIDE DEF NoHandler
  <1> QED
    BY <1>2, <1>3 DEF Follows

LEMMA CopiedFacts ==
    ASSUME NEW n \in Nat, NEW room \in Nat
    PROVE  room >= n => Copied("SUCCESS", n, room) = n
  <1> SUFFICES ASSUME room >= n PROVE Min({n, room}) = n
    BY DEF Copied
  <1>1. n \in {n, room} /\ \A y \in {n, room} : n <= y
    OBVIOUS
  <1>2. \A x \in {n, room} : (\A y \in {n, room} : x <= y) => x = n
    OBVIOUS
  <1> QED
    BY <1>1, <1>2 DEF Min

\* Whatever comes back, the count the wrapper leaves is right.
LEMMA ReturnFacts ==
    ASSUME Typed, NEW fn \in Fn, NEW code, NEW n \in Nat, Return(fn, code, n),
           code = "SUCCESS" => fn \in Handled /\ (fn = "CpuGetFreqAbility" => n = policies),
           policies' = policies
    PROVE  CountIsOfTheBuffer'
  <1>1. PICK c \in Codes(fn, code, n) : \E k \in Counts(fn, c, n, call.room) :
            result' = [fn |-> fn, code |-> c, room |-> call.room,
                       copied |-> Copied(c, n, call.room), count |-> k]
    BY DEF Return
  <1>0. PICK k \in Counts(fn, c, n, call.room) :
            result' = [fn |-> fn, code |-> c, room |-> call.room,
                       copied |-> Copied(c, n, call.room), count |-> k]
    BY <1>1
  <1> SUFFICES ASSUME c = "SUCCESS", k # None
               PROVE  \/ k = Copied(c, n, call.room)
                      \/ fn = "CpuGetFreqAbility" /\ call.room < policies
    BY <1>0 DEF CountIsOfTheBuffer
  <1>2. code = "SUCCESS"
    BY <1>1 DEF Codes
  <1>3. PICK row \in Wrappers : fn \in row.fns /\ k \in CountsBy(row.rule, c, n, call.room)
    BY <1>0 DEF Counts
  <1>4. row.rule # "onFailure"
    BY <1>2, <1>3, CountFacts DEF Follows
  <1>5. CASE row.rule \in {"always", "remediated"}
    BY <1>3, <1>5 DEF CountsBy
  <1>6. CASE row.rule = "remediatedOnFailure"
    <2>1. fn = "CpuGetFreqAbility" /\ n = policies /\ policies \in Nat
      BY <1>2, <1>3, <1>6, CountFacts DEF Typed, MachineTyped, Follows
    <2>2. k = n
      BY <1>3, <1>6 DEF CountsBy
    <2>3. call.room \in Nat
      BY DEF Typed, CallTyped
    <2>4. call.room >= n => Copied(c, n, call.room) = n
      BY <2>3, CopiedFacts
    <2> QED
      BY <2>1, <2>2, <2>3, <2>4
  <1> QED
    BY <1>3, <1>4, <1>5, <1>6 DEF CountsBy

(***************************************************************************)
(* The steps of a reader.                                                  *)
(***************************************************************************)
LEMMA TwoReaders ==
    /\ Service \in Reader /\ Collector \in Reader /\ Service # Collector
    /\ \A r \in Reader : r = Service \/ r = Collector
  BY DEF Service, Collector, Reader

LEMMA WordFacts ==
    /\ Available \in Seq(Word) /\ Foreign \in Word /\ Available # <<>>
    /\ Head(Available) \in Word /\ Tail(Available) \in Seq(Word)
    /\ Head(Available) = Available[1] /\ Len(Available) \in Nat \ {0}
    /\ Len(Available) <= MaxWords /\ MaxWords \in Nat
  <1>1. Available \in Seq(Word)
    BY QueriesAssumption DEF Word
  <1> QED
    BY <1>1, QueriesAssumption DEF Word

\* How a state changes.
LEMMA NewState ==
    ASSUME NEW a \in At, NEW j \in Job, NEW c \in Code
    PROVE  /\ Stage(a, j, c) \in State
           /\ Stage(a, j, c).at = a /\ Stage(a, j, c).job = j /\ Stage(a, j, c).code = c
  BY DEF State, Stage, Figures

LEMMA AtState ==
    ASSUME NEW s \in State, NEW a \in At, NEW u, u = [s EXCEPT !.at = a]
    PROVE  /\ u \in State /\ u.at = a
           /\ u.job = s.job /\ u.code = s.code /\ u.first = s.first /\ u.second = s.second
           /\ u.govs = s.govs /\ u.figures = s.figures /\ u.mixed = s.mixed
  BY DEF State

LEMMA MixedState ==
    ASSUME NEW s \in State, NEW u, u = [s EXCEPT !.mixed = TRUE]
    PROVE  /\ u \in State /\ u.mixed = TRUE /\ u.at = s.at
           /\ u.job = s.job /\ u.code = s.code /\ u.first = s.first /\ u.second = s.second
           /\ u.govs = s.govs /\ u.figures = s.figures
  BY DEF State

\* One reader moves.
LEMMA Puts ==
    ASSUME reader \in [Reader -> State], NEW r \in Reader, NEW u \in State,
           reader' = [reader EXCEPT ![r] = u]
    PROVE  /\ reader' \in [Reader -> State]
           /\ reader'[r] = u /\ \A x \in Reader \ {r} : reader'[x] = reader[x]
  OBVIOUS

\* What another one's step leaves of a reader's state: only the service thread has words
\* left, and perf.txt is emptied by nobody who leaves it unmixed.
LEMMA OtherGood ==
    ASSUME NEW y \in Reader, NEW s, NEW left, NEW file, NEW who,
           StateGood(y, s, left, file, who),
           NEW left2, NEW file2, NEW who2,
           y = Service /\ s.at = "scan" => left2 = left,
           s.at = "read" /\ file2 = "empty" => file = "empty",
           s.at = "read" /\ y \in who => y \in who2
    PROVE  StateGood(y, s, left2, file2, who2)
  <1>1. PerfGood(y, s, file2, who2)
    BY DEF StateGood, PerfGood
  <1>2. GovernorsGood(s, left2)
    <2>1. y # Service => s.at # "scan"
      BY DEF StateGood, JobGood
    <2> QED
      BY <2>1 DEF StateGood, GovernorsGood
  <1> QED
    BY <1>1, <1>2 DEF StateGood

\* Who is told that it was disturbed may find anything left.
LEMMA MixedGood ==
    ASSUME NEW y \in Reader, NEW s \in State, NEW left, NEW file, NEW who,
           StateGood(y, s, left, file, who),
           NEW left2, NEW file2, NEW u, u = [s EXCEPT !.mixed = TRUE]
    PROVE  u \in State /\ StateGood(y, u, left2, file2, who)
  <1>1. /\ u \in State /\ u.mixed = TRUE /\ u.at = s.at
        /\ u.job = s.job /\ u.code = s.code /\ u.first = s.first /\ u.second = s.second
        /\ u.govs = s.govs /\ u.figures = s.figures
    BY MixedState
  <1>2. JobGood(y, u)
    BY <1>1 DEF StateGood, JobGood
  <1>3. Reported(u, "usage") => SameLines(u.first, u.second)
    BY <1>1 DEF StateGood, Reported
  <1>4. PerfGood(y, u, file2, who)
    BY <1>1 DEF StateGood, PerfGood, Reported
  <1>5. GovernorsGood(u, left2)
    BY <1>1 DEF StateGood, GovernorsGood, Scanning, Reported
  <1> QED
    BY <1>1, <1>2, <1>3, <1>4, <1>5 DEF StateGood

\* A step of one reader, after which its own state is good, and the other's still is.
LEMMA Moves ==
    ASSUME ReadersGood, CallTyped', MachineTyped',
           NEW r \in Reader, NEW u \in State, reader' = [reader EXCEPT ![r] = u],
           StateGood(r, u, rest', perfFile', fresh'),
           r = Service \/ rest' = rest,
           perfFile' = "empty" => perfFile = "empty",
           \A y \in Reader \ {r} : reader[y].at = "read" /\ y \in fresh => y \in fresh'
    PROVE  ReadersGood'
  <1>1. /\ reader' \in [Reader -> State]
        /\ reader'[r] = u /\ \A x \in Reader \ {r} : reader'[x] = reader[x]
    BY Puts DEF ReadersGood, Typed
  <1>2. ASSUME NEW y \in Reader \ {r} PROVE StateGood(y, reader[y], rest', perfFile', fresh')
    <2>1. StateGood(y, reader[y], rest, perfFile, fresh)
      BY DEF ReadersGood
    <2>2. y = Service => rest' = rest
      BY <1>2
    <2> QED
      BY <2>1, <2>2, OtherGood
  <1>3. ASSUME NEW y \in Reader PROVE StateGood(y, reader[y], rest, perfFile, fresh)'
    BY <1>1, <1>2
  <1> QED
    BY <1>1, <1>3 DEF ReadersGood, Typed

\* What a step of the reading functions leaves alone.
Apart == UNCHANGED <<policies, online, call>>

LEMMA EndsStep ==
    ASSUME ReadersGood, Apart, NEW r \in Reader, NEW code \in {"ERR_COMMON", "garbage"},
           Ends(r, code), UNCHANGED <<perfFile, fresh>>,
           rest' \in Seq(Word), r = Service \/ rest' = rest
    PROVE  ReadersGood'
  <1> DEFINE u == Stage("done", reader[r].job, code)
  <1>1. reader[r] \in State /\ StateGood(r, reader[r], rest, perfFile, fresh)
    BY DEF ReadersGood, Typed
  <1>2. reader[r].job \in Job
    BY <1>1 DEF State
  <1>3. u \in State /\ u.at = "done" /\ u.job = reader[r].job /\ u.code = code
    BY <1>2, NewState DEF At, Code
  <1>4. reader' = [reader EXCEPT ![r] = u]
    BY DEF Ends
  <1> HIDE DEF u
  <1>5. StateGood(r, u, rest', perfFile', fresh')
    BY <1>1, <1>3 DEF StateGood, JobGood, PerfGood, GovernorsGood, Reported
  <1>6. CallTyped' /\ MachineTyped'
    BY DEF ReadersGood, Typed, Apart, CallTyped, MachineTyped
  <1> QED
    BY <1>3, <1>4, <1>5, <1>6, Moves

LEMMA UsageStep ==
    ASSUME ReadersGood, Apart, NEW r \in Reader, CPUUsageRead(r)
    PROVE  ReadersGood'
  <1>1. /\ UNCHANGED <<rest, perfFile, fresh>>
        /\ reader[r] \in State /\ online \in SUBSET Core
        /\ CallTyped' /\ MachineTyped'
    BY DEF CPUUsageRead, ReadersGood, Typed, Apart, CallTyped, MachineTyped
  <1>2. StateGood(r, reader[r], rest, perfFile, fresh)
    BY DEF ReadersGood
  <1>3. reader[r].at \in {"first", "second"} /\ reader[r].job = "usage"
    BY <1>2 DEF CPUUsageRead, StateGood, JobGood
  <1>4. ASSUME NEW u \in State, reader' = [reader EXCEPT ![r] = u], u.job = "usage",
               u.at = "second" \/ (u.at = "done" /\ SameLines(u.first, u.second))
        PROVE  ReadersGood'
    <2>1. StateGood(r, u, rest', perfFile', fresh')
      BY <1>4 DEF StateGood, JobGood, PerfGood, GovernorsGood, Reported
    <2> QED
      BY <1>1, <1>4, <2>1, Moves
  <1>5. CASE reader' = [reader EXCEPT ![r].at = "second", ![r].first = online]
    <2>1. PICK u : u = [reader[r] EXCEPT !.at = "second", !.first = online]
      OBVIOUS
    <2>2. u \in State /\ u.at = "second" /\ u.job = "usage"
      BY <1>1, <1>3, <2>1 DEF State, At
    <2>3. reader' = [reader EXCEPT ![r] = u]
      BY <1>5, <2>1
    <2> QED
      BY <1>4, <2>2, <2>3
  <1>6. CASE /\ SameLines(reader[r].first, online)
             /\ reader' = [reader EXCEPT ![r].at = "done", ![r].second = online]
    <2>1. PICK u : u = [reader[r] EXCEPT !.at = "done", !.second = online]
      OBVIOUS
    <2>2. /\ u \in State /\ u.at = "done" /\ u.job = "usage"
          /\ u.first = reader[r].first /\ u.second = online
      BY <1>1, <1>3, <2>1 DEF State, At
    <2>3. reader' = [reader EXCEPT ![r] = u]
      BY <1>6, <2>1
    <2> QED
      BY <1>4, <1>6, <2>2, <2>3
  <1>7. CASE Ends(r, "ERR_COMMON")
    BY <1>1, <1>7, EndsStep DEF MachineTyped
  <1> QED
    BY <1>5, <1>6, <1>7 DEF CPUUsageRead

\* strtok in the middle of a line of lscpu: a list of governors that is being taken apart is
\* mixed from here on.
LEMMA SplitStep ==
    ASSUME ReadersGood, Apart, NEW r \in Reader, NEW next \in At, SplitLine(r, next),
           UNCHANGED <<perfFile, fresh>>, reader[r].at \in {"info", "arch"},
           \/ reader[r].job = "info" /\ next \in {"info", "done"}
           \/ reader[r].job = "perf" /\ next \in {"arch", "run"}
    PROVE  ReadersGood'
  <1> DEFINE scanning == {x \in Reader \ {r} : reader[x].at = "scan"}
  <1>1. /\ reader \in [Reader -> State]
        /\ \A x \in Reader : reader[x] \in State /\ StateGood(x, reader[x], rest, perfFile, fresh)
    BY DEF ReadersGood, Typed
  <1>2. /\ rest' \in IF scanning = {} THEN {rest} ELSE {<<Foreign>>, <<>>}
        /\ reader' = [x \in Reader |->
                IF x = r THEN [reader[x] EXCEPT !.at = next]
                ELSE IF x \in scanning THEN [reader[x] EXCEPT !.mixed = TRUE]
                ELSE reader[x]]
    BY DEF SplitLine
  <1>3. rest' \in Seq(Word)
    <2>1. <<Foreign>> \in Seq(Word) /\ <<>> \in Seq(Word) /\ rest \in Seq(Word)
      BY WordFacts DEF ReadersGood, Typed, MachineTyped
    <2> QED
      BY <1>2, <2>1
  <1>4. ASSUME NEW x \in Reader
        PROVE  reader'[x] \in State /\ StateGood(x, reader'[x], rest', perfFile, fresh)
    <2>1. CASE x = r
      <3>1. reader'[x] = [reader[x] EXCEPT !.at = next]
        BY <1>2, <2>1
      <3>2. reader'[x] \in State /\ reader'[x].at = next /\ reader'[x].job = reader[r].job
        BY <1>1, <2>1, <3>1, AtState
      <3> QED
        BY <1>1, <2>1, <3>2 DEF StateGood, JobGood, PerfGood, GovernorsGood, Reported
    <2>2. CASE x \in scanning
      <3>1. reader'[x] = [reader[x] EXCEPT !.mixed = TRUE]
        BY <1>2, <2>2
      <3> QED
        BY <1>1, <3>1, MixedGood
    <2>3. CASE x # r /\ x \notin scanning
      <3>1. reader'[x] = reader[x] /\ reader[x].at # "scan"
        BY <1>2, <2>3
      <3> QED
        BY <1>1, <3>1, OtherGood
    <2> QED
      BY <2>1, <2>2, <2>3
  <1>5. reader' \in [Reader -> State]
    BY <1>2, <1>4
  <1>6. CallTyped' /\ MachineTyped'
    BY <1>3 DEF ReadersGood, Typed, Apart, CallTyped, MachineTyped
  <1> QED
    BY <1>4, <1>5, <1>6 DEF ReadersGood, Typed

LEMMA InfoStep ==
    ASSUME ReadersGood, Apart, NEW r \in Reader, CpuInfoRead(r)
    PROVE  ReadersGood'
  <1>1. StateGood(r, reader[r], rest, perfFile, fresh) /\ rest \in Seq(Word)
    BY DEF ReadersGood, Typed, MachineTyped
  <1>2. reader[r].at = "info" /\ reader[r].job = "info" /\ UNCHANGED <<perfFile, fresh>>
    BY <1>1 DEF CpuInfoRead, StateGood, JobGood
  <1>3. CASE SplitLine(r, "info")
    BY <1>2, <1>3, SplitStep DEF At
  <1>4. CASE SplitLine(r, "done")
    BY <1>2, <1>4, SplitStep DEF At
  <1>5. CASE Fails(r)
    BY <1>1, <1>2, <1>5, EndsStep DEF Fails
  <1> QED
    BY <1>3, <1>4, <1>5 DEF CpuInfoRead

(***************************************************************************)
(* PerfDataRead.                                                           *)
(***************************************************************************)
LEMMA ArchStep ==
    ASSUME ReadersGood, Apart, NEW r \in Reader, GetArch(r)
    PROVE  ReadersGood'
  <1>1. StateGood(r, reader[r], rest, perfFile, fresh) /\ rest \in Seq(Word)
    BY DEF ReadersGood, Typed, MachineTyped
  <1>2. reader[r].at = "arch" /\ reader[r].job = "perf" /\ UNCHANGED <<perfFile, fresh>>
    BY <1>1 DEF GetArch, StateGood, JobGood
  <1>3. CASE SplitLine(r, "arch")
    BY <1>2, <1>3, SplitStep DEF At
  <1>4. CASE SplitLine(r, "run")
    BY <1>2, <1>4, SplitStep DEF At
  <1>5. CASE Fails(r)
    BY <1>1, <1>2, <1>5, EndsStep DEF Fails
  <1> QED
    BY <1>3, <1>4, <1>5 DEF GetArch

\* The shell empties perf.txt: who wanted to read it is mixed from here on.
LEMMA RunStep ==
    ASSUME ReadersGood, Apart, NEW r \in Reader, RunPerf(r)
    PROVE  ReadersGood'
  <1>1. /\ reader \in [Reader -> State]
        /\ \A x \in Reader : reader[x] \in State /\ StateGood(x, reader[x], rest, perfFile, fresh)
    BY DEF ReadersGood, Typed
  <1>2. /\ reader[r].at = "run" /\ reader[r].job = "perf"
        /\ perfFile' = "empty" /\ UNCHANGED <<rest, fresh>>
    BY <1>1 DEF RunPerf, StateGood, JobGood
  <1>3. reader' = [x \in Reader |->
            IF x = r THEN [reader[x] EXCEPT !.at = "running"]
            ELSE IF reader[x].at \in {"running", "read"} THEN [reader[x] EXCEPT !.mixed = TRUE]
            ELSE reader[x]]
    BY DEF RunPerf
  <1>4. ASSUME NEW x \in Reader
        PROVE  reader'[x] \in State /\ StateGood(x, reader'[x], rest, perfFile', fresh)
    <2>1. CASE x = r
      <3>1. reader'[x] = [reader[x] EXCEPT !.at = "running"]
        BY <1>3, <2>1
      <3>2. reader'[x] \in State /\ reader'[x].at = "running" /\ reader'[x].job = "perf"
        BY <1>1, <1>2, <2>1, <3>1, AtState DEF At
      <3> QED
        BY <3>2 DEF StateGood, JobGood, PerfGood, GovernorsGood, Reported
    <2>2. CASE x # r /\ reader[x].at \in {"running", "read"}
      <3>1. reader'[x] = [reader[x] EXCEPT !.mixed = TRUE]
        BY <1>3, <2>2
      <3> QED
        BY <1>1, <3>1, MixedGood
    <2>3. CASE x # r /\ reader[x].at \notin {"running", "read"}
      <3>1. reader'[x] = reader[x] /\ reader[x].at # "read"
        BY <1>3, <2>3
      <3> QED
        BY <1>1, <3>1, OtherGood
    <2> QED
      BY <2>1, <2>2, <2>3
  <1>5. reader' \in [Reader -> State]
    BY <1>3, <1>4
  <1>6. CallTyped' /\ MachineTyped'
    BY <1>2 DEF ReadersGood, Typed, Apart, CallTyped, MachineTyped
  <1> QED
    BY <1>2, <1>4, <1>5, <1>6 DEF ReadersGood, Typed

LEMMA EndStep ==
    ASSUME ReadersGood, Apart, NEW r \in Reader, PerfEnds(r)
    PROVE  ReadersGood'
  <1>1. \A x \in Reader : reader[x] \in State /\ StateGood(x, reader[x], rest, perfFile, fresh)
    BY DEF ReadersGood, Typed
  <1>2. /\ reader[r].at = "running" /\ reader[r].job = "perf"
        /\ perfFile' \in {"figures", "text"} /\ rest' = rest
        /\ fresh' = {x \in Reader : reader[x].job = "perf" /\ reader[x].at # "done"}
    BY <1>1 DEF PerfEnds, StateGood, JobGood
  <1>3. PICK u : u = [reader[r] EXCEPT !.at = "read"]
    OBVIOUS
  <1>4. u \in State /\ u.at = "read" /\ u.job = "perf" /\ reader' = [reader EXCEPT ![r] = u]
    BY <1>1, <1>2, <1>3, AtState DEF At, PerfEnds, GoOn
  <1>5. StateGood(r, u, rest', perfFile', fresh')
    BY <1>2, <1>4 DEF StateGood, JobGood, PerfGood, GovernorsGood, Reported
  <1>6. \A y \in Reader \ {r} : reader[y].at = "read" => y \in fresh'
    BY <1>1, <1>2 DEF StateGood, JobGood
  <1>7. CallTyped' /\ MachineTyped'
    BY <1>2 DEF ReadersGood, Typed, Apart, CallTyped, MachineTyped
  <1> QED
    BY <1>2, <1>4, <1>5, <1>6, <1>7, Moves

LEMMA ReadStep ==
    ASSUME ReadersGood, Apart, NEW r \in Reader, ReadPerfFile(r)
    PROVE  ReadersGood'
  <1>1. reader[r] \in State /\ StateGood(r, reader[r], rest, perfFile, fresh)
    BY DEF ReadersGood, Typed
  <1>2. /\ reader[r].at = "read" /\ reader[r].job = "perf"
        /\ UNCHANGED <<rest, perfFile>> /\ fresh' = fresh \ {r}
    BY <1>1 DEF ReadPerfFile, StateGood, JobGood
  <1>3. r \in fresh /\ (reader[r].mixed \/ perfFile # "empty")
    BY <1>1, <1>2 DEF StateGood, PerfGood
  <1>4. perfFile \in {"empty", "figures", "text"}
    BY DEF ReadersGood, Typed, MachineTyped
  <1>5. PICK u : u = [reader[r] EXCEPT !.at = "done", !.figures = perfFile]
    OBVIOUS
  <1>6. reader' = [reader EXCEPT ![r] = u]
    BY <1>3, <1>5 DEF ReadPerfFile
  <1>7. /\ u \in State /\ u.at = "done" /\ u.job = "perf"
        /\ u.figures = perfFile /\ u.mixed = reader[r].mixed
    BY <1>1, <1>2, <1>4, <1>5 DEF State, At, Figures
  <1>8. StateGood(r, u, rest', perfFile', fresh')
    BY <1>3, <1>4, <1>7 DEF StateGood, JobGood, PerfGood, GovernorsGood, Reported
  <1>9. CallTyped' /\ MachineTyped'
    BY <1>2 DEF ReadersGood, Typed, Apart, CallTyped, MachineTyped
  <1> QED
    BY <1>2, <1>6, <1>7, <1>8, <1>9, Moves

(***************************************************************************)
(* GetCpuFreqAbility: the governors, word by word.                         *)
(***************************************************************************)
LEMMA ScanBegins ==
    ASSUME NEW u, u.govs = <<Head(Available)>>
    PROVE  Scanning(u, Tail(Available))
  <1>1. /\ Available \in Seq(Word) /\ Available # <<>> /\ Head(Available) = Available[1]
        /\ Len(Available) \in Nat \ {0}
    BY WordFacts
  <1>2. /\ Len(Tail(Available)) = Len(Available) - 1
        /\ \A i \in 1 .. Len(Tail(Available)) : Tail(Available)[i] = Available[i + 1]
    BY <1>1
  <1>3. Len(u.govs) = 1 /\ u.govs[1] = Available[1] /\ u.govs # <<>>
    BY <1>1
  <1> QED
    BY <1>1, <1>2, <1>3 DEF Scanning

LEMMA ScanGoesOn ==
    ASSUME NEW s, NEW left \in Seq(Word), Scanning(s, left), left # <<>>, s.govs \in Seq(Word),
           NEW u, u.govs = Append(s.govs, Head(left)), u.mixed = s.mixed
    PROVE  Scanning(u, Tail(left))
  <1>1. Len(s.govs) \in Nat \ {0} /\ s.govs[1] = Available[1] /\ Len(left) \in Nat \ {0}
    BY DEF Scanning
  <1>2. /\ Len(u.govs) = Len(s.govs) + 1 /\ u.govs # <<>>
        /\ u.govs[Len(s.govs) + 1] = left[1]
        /\ \A i \in 1 .. Len(s.govs) : u.govs[i] = s.govs[i]
    BY <1>1
  <1>3. /\ Len(Tail(left)) = Len(left) - 1
        /\ \A i \in 1 .. Len(Tail(left)) : Tail(left)[i] = left[i + 1]
    BY <1>1
  <1>4. u.govs[1] = Available[1]
    BY <1>1, <1>2
  <1>5. ASSUME ~u.mixed
        PROVE  /\ Len(u.govs) + Len(Tail(left)) = Len(Available)
               /\ \A i \in 1 .. Len(u.govs) : u.govs[i] = Available[i]
               /\ \A i \in 1 .. Len(Tail(left)) : Tail(left)[i] = Available[Len(u.govs) + i]
    <2>1. /\ Len(s.govs) + Len(left) = Len(Available)
          /\ \A i \in 1 .. Len(s.govs) : s.govs[i] = Available[i]
          /\ \A i \in 1 .. Len(left) : left[i] = Available[Len(s.govs) + i]
      BY <1>5 DEF Scanning
    <2>2. Len(u.govs) + Len(Tail(left)) = Len(Available)
      BY <1>1, <1>2, <1>3, <2>1
    <2>3. ASSUME NEW i \in 1 .. Len(u.govs) PROVE u.govs[i] = Available[i]
      <3>1. CASE i \in 1 .. Len(s.govs)
        BY <1>2, <2>1, <3>1
      <3>2. CASE i = Len(s.govs) + 1
        <4>1. left[1] = Available[Len(s.govs) + 1]
          BY <1>1, <2>1
        <4> QED
          BY <1>2, <3>2, <4>1
      <3> QED
        BY <1>1, <1>2, <3>1, <3>2
    <2>4. ASSUME NEW i \in 1 .. Len(Tail(left)) PROVE Tail(left)[i] = Available[Len(u.govs) + i]
      <3>1. i + 1 \in 1 .. Len(left) /\ Tail(left)[i] = left[i + 1]
        BY <1>1, <1>3
      <3>2. left[i + 1] = Available[Len(s.govs) + (i + 1)]
        BY <2>1, <3>1
      <3>3. i \in Int /\ Len(u.govs) = Len(s.govs) + 1 /\ Len(s.govs) \in Int
        BY <1>1, <1>2
      <3>4. \A a, b, k \in Int : b = a + 1 => a + (k + 1) = b + k
        OBVIOUS
      <3>5. Len(u.govs) \in Int
        BY <1>1, <1>2
      <3> QED
        BY <3>1, <3>2, <3>3, <3>4, <3>5
    <2> QED
      BY <2>2, <2>3, <2>4
  <1> QED
    BY <1>2, <1>4, <1>5 DEF Scanning

LEMMA ScanEnds ==
    ASSUME NEW s, NEW left \in Seq(Word), Scanning(s, left), s.govs \in Seq(Word),
           left = <<>> \/ Len(s.govs) = MaxWords,
           NEW u, u.govs = s.govs, u.mixed = s.mixed
    PROVE  Scanning(u, <<>>)
  <1>1. /\ Len(s.govs) \in Nat /\ Len(left) \in Nat /\ Len(<<>>) = 0
        /\ Len(Available) \in Nat /\ Len(Available) <= MaxWords /\ MaxWords \in Nat
        /\ left = <<>> => Len(left) = 0
    BY WordFacts
  <1>2. ~s.mixed => Len(left) = 0
    BY <1>1 DEF Scanning
  <1> QED
    BY <1>1, <1>2 DEF Scanning

LEMMA PolicysStep ==
    ASSUME ReadersGood, Apart, NEW r \in Reader, GetPolicys(r)
    PROVE  ReadersGood'
  <1>1. reader[r] \in State /\ StateGood(r, reader[r], rest, perfFile, fresh)
    BY DEF ReadersGood, Typed
  <1>2. /\ reader[r].at = "policys" /\ reader[r].job = "ability" /\ r = Service
        /\ UNCHANGED <<perfFile, fresh>>
    BY <1>1 DEF GetPolicys, StateGood, JobGood
  <1>3. rest \in Seq(Word) /\ (rest' = rest => CallTyped' /\ MachineTyped')
    BY <1>2 DEF ReadersGood, Typed, Apart, CallTyped, MachineTyped
  <1>4. CASE GoOn(r, "governors") /\ UNCHANGED rest
    <2>1. PICK u : u = [reader[r] EXCEPT !.at = "governors"]
      OBVIOUS
    <2>2. u \in State /\ u.at = "governors" /\ u.job = "ability"
      BY <1>1, <1>2, <2>1, AtState DEF At
    <2>3. reader' = [reader EXCEPT ![r] = u]
      BY <1>4, <2>1 DEF GoOn
    <2>4. StateGood(r, u, rest', perfFile', fresh')
      BY <1>2, <2>2 DEF StateGood, JobGood, PerfGood, GovernorsGood, Reported
    <2> QED
      BY <1>2, <1>3, <1>4, <2>2, <2>3, <2>4, Moves
  <1>5. CASE Fails(r)
    BY <1>2, <1>3, <1>5, EndsStep DEF Fails
  <1> QED
    BY <1>4, <1>5 DEF GetPolicys

LEMMA GovernorsStep ==
    ASSUME ReadersGood, Apart, NEW r \in Reader, AllGovernorsRead(r)
    PROVE  ReadersGood'
  <1>1. reader[r] \in State /\ StateGood(r, reader[r], rest, perfFile, fresh)
    BY DEF ReadersGood, Typed
  <1>2. /\ reader[r].at \in {"governors", "scan"} /\ reader[r].job = "ability" /\ r = Service
        /\ UNCHANGED <<perfFile, fresh>>
    BY <1>1 DEF AllGovernorsRead, StateGood, JobGood
  <1>3. /\ rest \in Seq(Word) /\ reader[r].govs \in Seq(Word)
        /\ rest' \in Seq(Word) => CallTyped' /\ MachineTyped'
    BY <1>1, <1>2 DEF ReadersGood, Typed, Apart, CallTyped, MachineTyped, State
  <1>4. reader[r].at = "scan" => Scanning(reader[r], rest)
    BY <1>1 DEF StateGood, GovernorsGood
  <1>5. ASSUME NEW u \in State, u.job = "ability", reader' = [reader EXCEPT ![r] = u],
               rest' \in Seq(Word),
               \/ u.at = "scan" /\ Scanning(u, rest')
               \/ u.at = "domains" /\ Scanning(u, <<>>)
        PROVE  ReadersGood'
    <2>1. StateGood(r, u, rest', perfFile', fresh')
      BY <1>2, <1>5 DEF StateGood, JobGood, PerfGood, GovernorsGood, Reported
    <2> QED
      BY <1>2, <1>3, <1>5, <2>1, Moves
  <1>6. CASE /\ reader' = [reader EXCEPT ![r].at = "scan", ![r].govs = <<Head(Available)>>]
             /\ rest' = Tail(Available)
    <2>1. PICK u : u = [reader[r] EXCEPT !.at = "scan", !.govs = <<Head(Available)>>]
      OBVIOUS
    <2>2. <<Head(Available)>> \in Seq(Word) /\ rest' \in Seq(Word)
      BY <1>6, WordFacts
    <2>3. u \in State /\ u.at = "scan" /\ u.govs = <<Head(Available)>> /\ u.job = "ability"
      BY <1>1, <1>2, <2>1, <2>2 DEF State, At
    <2>4. reader' = [reader EXCEPT ![r] = u]
      BY <1>6, <2>1
    <2> QED
      BY <1>5, <1>6, <2>2, <2>3, <2>4, ScanBegins
  <1>7. CASE /\ reader[r].at = "scan" /\ rest # <<>>
             /\ reader' = [reader EXCEPT ![r].govs = Append(@, Head(rest))]
             /\ rest' = Tail(rest)
    <2>1. PICK u : u = [reader[r] EXCEPT !.govs = Append(reader[r].govs, Head(rest))]
      OBVIOUS
    <2>2. Append(reader[r].govs, Head(rest)) \in Seq(Word) /\ rest' \in Seq(Word)
      BY <1>3, <1>7
    <2>3. /\ u \in State /\ u.at = "scan" /\ u.job = "ability"
          /\ u.govs = Append(reader[r].govs, Head(rest)) /\ u.mixed = reader[r].mixed
      BY <1>1, <1>2, <1>7, <2>1, <2>2 DEF State
    <2>4. reader' = [reader EXCEPT ![r] = u]
      BY <1>7, <2>1
    <2>5. Scanning(u, Tail(rest))
      BY <1>3, <1>4, <1>7, <2>3, ScanGoesOn
    <2> QED
      BY <1>5, <1>7, <2>2, <2>3, <2>4, <2>5
  <1>8. CASE /\ reader[r].at = "scan" /\ (rest = <<>> \/ Len(reader[r].govs) = MaxWords)
             /\ GoOn(r, "domains") /\ UNCHANGED rest
    <2>1. PICK u : u = [reader[r] EXCEPT !.at = "domains"]
      OBVIOUS
    <2>2. /\ u \in State /\ u.at = "domains" /\ u.job = "ability"
          /\ u.govs = reader[r].govs /\ u.mixed = reader[r].mixed
      BY <1>1, <1>2, <2>1, AtState DEF At
    <2>3. reader' = [reader EXCEPT ![r] = u]
      BY <1>8, <2>1 DEF GoOn
    <2>4. Scanning(u, <<>>)
      BY <1>3, <1>4, <1>8, <2>2, ScanEnds
    <2> QED
      BY <1>3, <1>5, <1>8, <2>2, <2>3, <2>4
  <1>9. CASE Fails(r)
    BY <1>2, <1>3, <1>9, EndsStep DEF Fails
  <1> QED
    BY <1>6, <1>7, <1>8, <1>9 DEF AllGovernorsRead

LEMMA DomainStep ==
    ASSUME ReadersGood, Apart, NEW r \in Reader, FreqDomainRead(r)
    PROVE  ReadersGood'
  <1>1. reader[r] \in State /\ StateGood(r, reader[r], rest, perfFile, fresh)
    BY DEF ReadersGood, Typed
  <1>2. /\ reader[r].at = "domains" /\ reader[r].job = "ability" /\ r = Service
        /\ UNCHANGED <<perfFile, fresh>> /\ rest' \in Seq(Word)
    BY <1>1 DEF FreqDomainRead, StateGood, JobGood
  <1>3. CallTyped' /\ MachineTyped'
    BY <1>2 DEF ReadersGood, Typed, Apart, CallTyped, MachineTyped
  <1>4. CASE GoOn(r, "done")
    <2>1. PICK u : u = [reader[r] EXCEPT !.at = "done"]
      OBVIOUS
    <2>2. /\ u \in State /\ u.at = "done" /\ u.job = "ability"
          /\ u.govs = reader[r].govs /\ u.mixed = reader[r].mixed
      BY <1>1, <1>2, <2>1, AtState DEF At
    <2>3. reader' = [reader EXCEPT ![r] = u]
      BY <1>4, <2>1 DEF GoOn
    <2>4. Scanning(u, <<>>)
      BY <1>1, <1>2, <2>2 DEF StateGood, GovernorsGood, Scanning
    <2>5. StateGood(r, u, rest', perfFile', fresh')
      BY <1>2, <2>2, <2>4 DEF StateGood, JobGood, PerfGood, GovernorsGood, Reported
    <2> QED
      BY <1>2, <1>3, <2>2, <2>3, <2>5, Moves
  <1>5. CASE \E c \in {"garbage", "ERR_COMMON"} : Ends(r, c)
    BY <1>2, <1>5, EndsStep
  <1> QED
    BY <1>4, <1>5 DEF FreqDomainRead

LEMMA AnyStep ==
    ASSUME ReadersGood, Apart, NEW r \in Reader,
           CPUUsageRead(r) \/ CpuInfoRead(r) \/ PerfDataRead(r) \/ GetCpuFreqAbility(r)
    PROVE  ReadersGood'
  BY UsageStep, InfoStep, ArchStep, RunStep, EndStep, ReadStep,
     PolicysStep, GovernorsStep, DomainStep DEF PerfDataRead, GetCpuFreqAbility

(***************************************************************************)
(* The daemon and the app.                                                 *)
(***************************************************************************)
LEMMA IdleGood ==
    ASSUME NEW r \in Reader, NEW left, NEW file, NEW who
    PROVE  Idle \in State /\ StateGood(r, Idle, left, file, who)
  <1>1. Idle \in State /\ Idle.at = "idle" /\ Idle.job = "none"
    BY NewState DEF Idle, At, Job, Code
  <1> QED
    BY <1>1 DEF StateGood, JobGood, PerfGood, GovernorsGood, Reported

\* A reader begins to read.
LEMMA BeginStep ==
    ASSUME ReadersGood, CallTyped', MachineTyped', UNCHANGED <<rest, perfFile>>,
           NEW r \in Reader, fresh' = fresh \ {r}, NEW first, NEW job,
           reader' = [reader EXCEPT ![r] = Stage(first, job, "SUCCESS")],
           \/ first = "first" /\ job = "usage"
           \/ first = "arch" /\ job = "perf"
           \/ r = Service /\ first = "info" /\ job = "info"
           \/ r = Service /\ first = "policys" /\ job = "ability"
    PROVE  ReadersGood'
  <1> DEFINE u == Stage(first, job, "SUCCESS")
  <1>1. u \in State /\ u.at = first /\ u.job = job
    BY NewState DEF At, Job, Code
  <1> HIDE DEF u
  <1>2. StateGood(r, u, rest', perfFile', fresh')
    BY <1>1 DEF StateGood, JobGood, PerfGood, GovernorsGood, Reported
  <1>3. reader' = [reader EXCEPT ![r] = u]
    BY DEF u
  <1> QED
    BY <1>1, <1>2, <1>3, Moves

LEMMA BeginReadStep ==
    ASSUME ReadersGood, BeginRead
    PROVE  ReadersGood'
  <1>1. PICK fn \in DOMAIN FirstStep :
            /\ Asked(fn)
            /\ reader' = [reader EXCEPT ![Service] =
                    Stage(FirstStep[fn], JobOfRequest[fn], "SUCCESS")]
    BY DEF BeginRead
  <1>2. /\ call' = [call EXCEPT !.at = "taken"] /\ fresh' = fresh \ {Service}
        /\ UNCHANGED <<policies, online, rest, perfFile>>
    BY DEF BeginRead, machine
  <1>3. call.fn = fn /\ call.at = "sent"
    BY <1>1 DEF Asked
  <1>4. CallTyped'
    <2>1. CallTyped
      BY DEF ReadersGood, Typed
    <2>2. call'.fn = fn /\ call'.room = call.room /\ call'.at = "taken"
      BY <1>2, <1>3, <2>1 DEF CallTyped
    <2>3. call' \in [fn : Fn \union {"none"}, room : Nat, at : {"idle", "sent", "taken"}]
      BY <1>2, <2>1 DEF CallTyped
    <2> QED
      BY <1>1, <1>3, <2>1, <2>2, <2>3 DEF CallTyped
  <1>5. MachineTyped'
    BY <1>2 DEF ReadersGood, Typed, MachineTyped
  <1>6. \/ FirstStep[fn] = "first" /\ JobOfRequest[fn] = "usage"
        \/ FirstStep[fn] = "arch" /\ JobOfRequest[fn] = "perf"
        \/ FirstStep[fn] = "info" /\ JobOfRequest[fn] = "info"
        \/ FirstStep[fn] = "policys" /\ JobOfRequest[fn] = "ability"
    BY DEF FirstStep, JobOfRequest
  <1> QED
    BY <1>1, <1>2, <1>4, <1>5, <1>6, TwoReaders, BeginStep

LEMMA BeginTaskStep ==
    ASSUME ReadersGood, Apart,
           BeginTask("first", "usage") \/ BeginTask("arch", "perf")
    PROVE  ReadersGood'
  <1>1. UNCHANGED <<rest, perfFile>> /\ fresh' = fresh \ {Collector}
    BY DEF BeginTask
  <1>2. CallTyped' /\ MachineTyped'
    BY <1>1 DEF ReadersGood, Typed, Apart, CallTyped, MachineTyped
  <1> QED
    BY <1>1, <1>2, TwoReaders, BeginStep DEF BeginTask

\* Steps that leave the readers alone.
LEMMA ReadersStay ==
    ASSUME ReadersGood, CallTyped', policies' = policies, online' \in SUBSET Core,
           UNCHANGED <<reader, rest, perfFile, fresh>>
    PROVE  ReadersGood'
  <1>1. MachineTyped'
    BY DEF ReadersGood, Typed, MachineTyped
  <1> QED
    BY <1>1 DEF ReadersGood, Typed

LEMMA NoCallTyped ==
    ASSUME call' = NoCall
    PROVE  CallTyped'
  BY DEF NoCall, CallTyped

LEMMA CallStep ==
    ASSUME ReadersGood, NEW fn \in Fn, Call(fn)
    PROVE  ReadersGood' /\ CountIsOfTheBuffer'
  <1>1. UNCHANGED <<policies, online, reader, rest, perfFile, fresh>>
    BY DEF Call, machine
  <1> DEFINE room0 == IF Follows(fn, "none") /\ fn # "CpuGetFreqGovernor" THEN {1} ELSE Rooms
             Refuses(code) == /\ result' = [fn |-> "none", code |-> code, room |-> 0,
                                            copied |-> 0, count |-> None]
                              /\ UNCHANGED call
             Sends(room) == /\ call' = [fn |-> fn, room |-> room, at |-> "sent"]
                            /\ result' = None
  <1>2. \E row \in Checks : \E bad \in row.bad \union {"none"}, room \in room0 :
            LET checked == CheckStatus(row.needs)
                refused == IF checked # "SUCCESS" THEN checked
                           ELSE IF bad # "none" THEN ErrorOf(bad) ELSE "SUCCESS"
            IN  IF refused # "SUCCESS" THEN Refuses(refused) ELSE Sends(room)
    BY DEF Call
  <1>3. PICK room \in room0 : (\E code : Refuses(code)) \/ Sends(room)
    <2> HIDE DEF room0, Refuses, Sends
    <2> QED
      BY <1>2
  <1>4. CallTyped'
    BY <1>3, QueriesAssumption DEF ReadersGood, Typed, CallTyped
  <1>5. CountIsOfTheBuffer'
    BY <1>3 DEF CountIsOfTheBuffer
  <1> QED
    BY <1>1, <1>4, <1>5, ReadersStay DEF ReadersGood, Typed, MachineTyped

LEMMA AnswerReadStep ==
    ASSUME ReadersGood, AnswerRead
    PROVE  ReadersGood' /\ CountIsOfTheBuffer'
  <1> DEFINE fn == call.fn
             n == IF fn = "CpuGetFreqAbility" THEN policies ELSE CoreNum
  <1>1. /\ Return(fn, reader[Service].code, n) /\ call.at = "taken"
        /\ reader' = [reader EXCEPT ![Service] = Idle]
        /\ UNCHANGED <<policies, online, rest, perfFile, fresh>>
    BY DEF AnswerRead, machine
  <1>2. fn \in Fn /\ fn \in Handled /\ n \in Nat
    BY <1>1, QueriesAssumption DEF ReadersGood, Typed, CallTyped, MachineTyped, Handled
  <1>3. CountIsOfTheBuffer'
    BY <1>1, <1>2, ReturnFacts DEF ReadersGood
  <1>4. CallTyped'
    BY <1>1, NoCallTyped DEF Return
  <1>5. MachineTyped'
    BY <1>1 DEF ReadersGood, Typed, MachineTyped
  <1> QED
    BY <1>1, <1>3, <1>4, <1>5, TwoReaders, IdleGood, Moves

LEMMA AnswerStep ==
    ASSUME ReadersGood, Answer
    PROVE  ReadersGood' /\ CountIsOfTheBuffer'
  <1>0. PICK row \in Handlers : \E fn1 \in row.fns : Asked(fn1) /\ \E c1 \in row.codes :
            \E n1 \in IF fn1 # "CpuGetFreq" THEN {1}
                      ELSE {policies} \union 1 .. Min({call.room, policies}) :
                Return(fn1, c1, n1)
    BY DEF Answer
  <1>1. PICK fn \in row.fns : Asked(fn) /\ \E c1 \in row.codes :
            \E n1 \in IF fn # "CpuGetFreq" THEN {1}
                      ELSE {policies} \union 1 .. Min({call.room, policies}) :
                Return(fn, c1, n1)
    BY <1>0
  <1>2. PICK c \in row.codes,
             n \in IF fn # "CpuGetFreq" THEN {1}
                   ELSE {policies} \union 1 .. Min({call.room, policies}) :
            Return(fn, c, n)
    BY <1>1
  <1>3. /\ UNCHANGED <<policies, online, reader, rest, perfFile, fresh>>
        /\ call.at = "sent" /\ call.fn = fn
    BY <1>1 DEF Answer, machine, Asked
  <1>4. fn \in Fn /\ fn \in Handled /\ policies \in Nat
    BY <1>1, <1>3 DEF ReadersGood, Typed, CallTyped, MachineTyped, Handled
  <1>5. n \in Nat
    BY <1>2, <1>4
  <1>6. fn # "CpuGetFreqAbility"
    BY <1>1 DEF Handlers, SysHandlers, ComHandlers, CpuHandlers, Answering
  <1>7. CountIsOfTheBuffer'
    BY <1>2, <1>3, <1>4, <1>5, <1>6, ReturnFacts DEF ReadersGood
  <1>8. CallTyped'
    BY <1>2, NoCallTyped DEF Return
  <1> QED
    BY <1>3, <1>7, <1>8, ReadersStay DEF ReadersGood, Typed, MachineTyped

LEMMA NoAnswerStep ==
    ASSUME ReadersGood, NoAnswer
    PROVE  ReadersGood' /\ CountIsOfTheBuffer'
  <1>1. PICK c \in {"ERR_COMMON", "ERR_DISCONNECTED"} : Return(call.fn, c, 0)
    BY DEF NoAnswer
  <1>2. /\ UNCHANGED <<policies, online, reader, rest, perfFile, fresh>>
        /\ call.at # "idle"
    BY DEF NoAnswer, machine
  <1>3. call.fn \in Fn
    BY <1>2 DEF ReadersGood, Typed, CallTyped
  <1>4. CountIsOfTheBuffer'
    BY <1>1, <1>2, <1>3, ReturnFacts DEF ReadersGood
  <1>5. CallTyped'
    BY <1>1, NoCallTyped DEF Return
  <1> QED
    BY <1>2, <1>4, <1>5, ReadersStay DEF ReadersGood, Typed, MachineTyped

LEMMA DivideStep ==
    ASSUME ReadersGood, DivideByZero
    PROVE  ReadersGood'
  <1>1. /\ reader' = [r \in Reader |-> Idle] /\ rest' = <<>>
        /\ UNCHANGED <<policies, online, call, perfFile>>
    BY DEF DivideByZero, machine, client
  <1>2. CallTyped' /\ MachineTyped'
    BY <1>1 DEF ReadersGood, Typed, CallTyped, MachineTyped
  <1>3. ASSUME NEW r \in Reader
        PROVE  Idle \in State /\ reader'[r] = Idle /\ StateGood(r, Idle, rest', perfFile', fresh')
    BY <1>1, IdleGood
  <1>4. reader' \in [Reader -> State]
    BY <1>1, <1>3
  <1> QED
    BY <1>2, <1>3, <1>4 DEF ReadersGood, Typed

\* Nothing but a call that returns changes what the app has found.
LEMMA ResultStays ==
    ASSUME CountIsOfTheBuffer, UNCHANGED <<policies, result>>
    PROVE  CountIsOfTheBuffer'
  BY DEF CountIsOfTheBuffer

LEMMA InitInv == Init => Inv
  <1> SUFFICES ASSUME Init PROVE Inv
    OBVIOUS
  <1>1. reader = [r \in Reader |-> Idle] /\ \A r \in Reader : Idle \in State
    BY IdleGood DEF Init
  <1>2. \A r \in Reader : reader[r] = Idle /\ StateGood(r, Idle, rest, perfFile, fresh)
    BY <1>1, IdleGood
  <1>3. MachineTyped /\ CallTyped
    BY QueriesAssumption DEF Init, MachineTyped, CallTyped, NoCall
  <1>4. CountIsOfTheBuffer
    BY DEF Init, CountIsOfTheBuffer
  <1> QED
    BY <1>1, <1>2, <1>3, <1>4 DEF Inv, ReadersGood, Typed

LEMMA NextInv == Inv /\ [Next]_vars => Inv'
  <1> SUFFICES ASSUME Inv, [Next]_vars PROVE Inv'
    OBVIOUS
  <1> USE DEF Inv
  <1>1. ASSUME NEW fn \in Fn, Call(fn) PROVE Inv'
    BY <1>1, CallStep
  <1>2. CASE BeginRead
    BY <1>2, BeginReadStep, ResultStays DEF BeginRead, machine
  <1>3. CASE ServiceReads
    BY <1>3, AnyStep, ResultStays, TwoReaders DEF ServiceReads, Apart, machine, client
  <1>4. CASE AnswerRead
    BY <1>4, AnswerReadStep
  <1>5. CASE Answer
    BY <1>5, AnswerStep
  <1>6. CASE NoAnswer
    BY <1>6, NoAnswerStep
  <1>7. CASE DivideByZero
    BY <1>7, DivideStep, ResultStays DEF DivideByZero, machine, client
  <1>8. CASE Restart
    <2>1. UNCHANGED <<policies, online, call, result, reader, rest, perfFile, fresh>>
      BY <1>8 DEF Restart, machine, client
    <2>2. CallTyped' /\ online' \in SUBSET Core
      BY <2>1 DEF ReadersGood, Typed, CallTyped, MachineTyped
    <2> QED
      BY <2>1, <2>2, ReadersStay, ResultStays
  <1>9. CASE TaskProcessCpuUsage
    BY <1>9, AnyStep, BeginTaskStep, ResultStays, TwoReaders
       DEF TaskProcessCpuUsage, Apart, machine, client
  <1>10. CASE TaskProcessCpuPerf
    BY <1>10, AnyStep, BeginTaskStep, ResultStays, TwoReaders
       DEF TaskProcessCpuPerf, Apart, machine, client
  <1>11. CASE Hotplug
    <2>1. UNCHANGED <<policies, call, result, reader, rest, perfFile, fresh>>
      BY <1>11 DEF Hotplug, client
    <2>2. CallTyped' /\ online' \in SUBSET Core
      BY <1>11, <2>1 DEF Hotplug, ReadersGood, Typed, CallTyped, MachineTyped
    <2> QED
      BY <2>1, <2>2, ReadersStay, ResultStays
  <1>12. CASE UNCHANGED vars
    <2>1. UNCHANGED <<policies, online, call, result, reader, rest, perfFile, fresh>>
      BY <1>12 DEF vars, machine, client
    <2>2. CallTyped' /\ online' \in SUBSET Core
      BY <2>1 DEF ReadersGood, Typed, CallTyped, MachineTyped
    <2> QED
      BY <2>1, <2>2, ReadersStay, ResultStays
  <1> QED
    BY <1>1, <1>2, <1>3, <1>4, <1>5, <1>6, <1>7, <1>8, <1>9, <1>10, <1>11, <1>12 DEF Next

LEMMA SpecInv == Spec => []Inv
  BY InitInv, NextInv, PTL DEF Spec

LEMMA InvReadings == Inv => ReadingsAreTrue
  <1> SUFFICES ASSUME Inv PROVE ReadingsAreTrue
    OBVIOUS
  <1>1. ASSUME NEW r \in Reader
        PROVE  reader[r] \in State /\ StateGood(r, reader[r], rest, perfFile, fresh)
    BY DEF Inv, ReadersGood, Typed
  <1>2. UsageIsOfOneCore
    <2> SUFFICES ASSUME NEW r \in Reader, Done(r, "usage"), NEW c \in Core
                 PROVE  Entries(r, reader[r].first, reader[r].second)[c] =
                            IF c \in reader[r].first \union reader[r].second
                            THEN [holds |-> "usage", of |-> {c}]
                            ELSE [holds |-> Memory(r), of |-> {}]
      BY DEF UsageIsOfOneCore
    <2>1. reader[r].first \in SUBSET Core /\ reader[r].second \in SUBSET Core
      BY <1>1 DEF State
    <2>2. SameLines(reader[r].first, reader[r].second)
      BY <1>1 DEF StateGood, Reported, Done
    <2>3. \A f, g \in SUBSET Core : SameLines(f, g) =>
              Entries(r, f, g)[c] = IF c \in f \union g THEN [holds |-> "usage", of |-> {c}]
                                    ELSE [holds |-> Memory(r), of |-> {}]
      BY UsageFacts
    <2> QED
      BY ONLY <2>1, <2>2, <2>3
  <1>3. FiguresAreNew
    BY <1>1 DEF FiguresAreNew, StateGood, PerfGood, Reported, Done
  <1>4. GovernorsAreTrue
    <2> SUFFICES ASSUME Done(Service, "ability")
                 PROVE  /\ ~reader[Service].mixed => reader[Service].govs = Available
                        /\ Head(reader[Service].govs) = Head(Available)
      BY DEF GovernorsAreTrue
    <2> DEFINE govs == reader[Service].govs
    <2>1. Scanning(reader[Service], <<>>) /\ govs \in Seq(Word)
      BY <1>1, TwoReaders DEF StateGood, GovernorsGood, Reported, Done, State
    <2>2. /\ Available \in Seq(Word) /\ Head(Available) = Available[1]
          /\ Len(Available) \in Nat /\ Len(govs) \in Nat
      BY <2>1, WordFacts
    <2>3. ASSUME ~reader[Service].mixed PROVE govs = Available
      <3>1. Len(govs) = Len(Available) /\ \A i \in 1 .. Len(govs) : govs[i] = Available[i]
        BY <2>1, <2>2, <2>3 DEF Scanning
      <3> HIDE DEF govs
      <3> QED
        BY <2>1, <2>2, <3>1
    <2>4. Head(govs) = govs[1] /\ govs[1] = Available[1]
      BY <2>1 DEF Scanning
    <2> QED
      BY <2>2, <2>3, <2>4
  <1> QED
    BY <1>2, <1>3, <1>4 DEF ReadingsAreTrue

(***************************************************************************)
(* The theorems.                                                           *)
(***************************************************************************)
\* CPUUsageRead, PerfDataRead and GetCpuFreqAbility (cpuservice.c) run in the service thread
\* while a collector runs the first two and cores come and go: of the entries a usage is
\* reported with, those of the cores that were on-line are each of that core alone, and those
\* of all the others, which are counted as well, are memory nobody wrote; figures come from a run of perf that ended after they were asked for, and
\* the governors are those of the machine in their order unless a collector used strtok
\* between two words.
THEOREM ReadingsCorrect == Spec => []ReadingsAreTrue
  BY SpecInv, InvReadings, PTL

\* After SUCCESS of a wrapper of libpwrapi (powerapi.c, pwrcpu.c, ...) the count that it leaves
\* is the number of entries in the app's buffer, for every room the app may have; only
\* GetCpuFreqAbility may say more, when the room is less than the number of policies.
THEOREM CountCorrect == Spec => []CountIsOfTheBuffer
  <1>1. Inv => CountIsOfTheBuffer
    BY DEF Inv
  <1> QED
    BY <1>1, SpecInv, PTL

=============================================================================
