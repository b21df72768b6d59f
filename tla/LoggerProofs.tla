---------------------------- MODULE LoggerProofs ----------------------------
(***************************************************************************)
(* Proofs about the logger of module Logger, for any number of threads,    *)
(* lines and seconds, and any limit on the backups.                        *)
(***************************************************************************)
EXTENDS Logger, FiniteSetTheorems, TLAPS

(***************************************************************************)
(* Where g_pFile points.  Whoever closes the file or forgets it is on its  *)
(* way to open it again, and a file is only moved away under g_pFile when  *)
(* two rotations race.                                                     *)
(***************************************************************************)
Reopening == {"command", "trim", "delete", "open"}

PointerGood ==
    /\ pc \in [Thread -> LoggerPc]
    /\ pFile \in {"null", "log", "closed", "removed"}
    /\ ~up => \A t \in Thread : pc[t] = "idle"
    /\ up /\ ~failed /\ pFile = "closed" => \E t \in Thread : pc[t] = "forget"
    /\ up /\ ~failed /\ pFile = "null" => \E t \in Thread : pc[t] \in Reopening \union {"forget"}
    /\ ~raced =>
          /\ pFile # "removed"
          /\ \A t, u \in Rotating : t = u
          /\ \A t \in Thread : pc[t] \in Reopening => pFile = "null"

LEMMA InitPointer == Init => PointerGood
  BY DEF Init, PointerGood, LoggerPc, Rotating, Reopening

LEMMA DiePointer ==
    ASSUME PointerGood, Die, raced' = raced
    PROVE  PointerGood'
  <1>1. up' = FALSE /\ pFile' = "null" /\ \A t \in Thread : pc'[t] = "idle"
    BY DEF Die
  <1>2. pc' \in [Thread -> LoggerPc]
    BY DEF Die, LoggerPc
  <1> QED
    BY <1>1, <1>2 DEF PointerGood, Rotating, Reopening

RotatingPc == {"close", "forget", "command", "trim", "delete", "open", "size"}

\* A thread that does not rotate goes on without touching g_pFile.
LEMMA CalmStepPointer ==
    ASSUME PointerGood, UNCHANGED <<pFile, failed, raced>>, NEW t \in Thread,
           NEW next \in LoggerPc \ RotatingPc, pc[t] \notin RotatingPc, up, up', GoTo(t, next)
    PROVE  PointerGood'
  <1>1. /\ pc' \in [Thread -> LoggerPc] /\ pc'[t] = next
        /\ \A u \in Thread \ {t} : pc'[u] = pc[u]
    BY DEF GoTo, PointerGood
  <1>2. Rotating' = Rotating
    BY <1>1 DEF Rotating, RotatingPc
  <1>3. \A u \in Thread :
           pc[u] \in Reopening \union {"forget"} <=> pc'[u] \in Reopening \union {"forget"}
    BY <1>1 DEF Reopening, RotatingPc
  <1>4. \A u \in Thread : pc[u] = "forget" <=> pc'[u] = "forget"
    BY <1>1 DEF RotatingPc
  <1>5. \A u \in Thread : pc[u] \in Reopening <=> pc'[u] \in Reopening
    BY <1>1 DEF Reopening, RotatingPc
  <1> QED
    BY <1>1, <1>2, <1>3, <1>4, <1>5 DEF PointerGood

LEMMA LogStepPointer ==
    ASSUME PointerGood, NEW t \in Thread, LogStep(t)
    PROVE  PointerGood'
  <1> USE DEF GoTo, files, history, local
  <1>0. /\ pc[t] # "idle" => up
        /\ pc[t] \in LoggerPc
    BY DEF PointerGood
  <1>1. CASE StartLine(t)
    <2>1. "puts" \in LoggerPc \ RotatingPc /\ "idle" \notin RotatingPc
      BY DEF LoggerPc, RotatingPc
    <2> QED
      BY <1>1, <2>1, CalmStepPointer DEF StartLine
  <1>2. CASE Puts(t)
    <2>1. /\ "idle" \in LoggerPc \ RotatingPc /\ "flush" \in LoggerPc \ RotatingPc
          /\ "puts" \notin RotatingPc
      BY DEF LoggerPc, RotatingPc
    <2>2. pc[t] = "puts" /\ up /\ UNCHANGED <<failed, raced>>
      BY <1>0, <1>2 DEF Puts
    <2>3. CASE GoTo(t, "flush") /\ UNCHANGED <<up, pFile>>
      BY <2>1, <2>2, <2>3, CalmStepPointer
    <2>4. CASE GoTo(t, "idle") /\ UNCHANGED <<up, pFile>>
      BY <2>1, <2>2, <2>4, CalmStepPointer
    <2>5. CASE Die
      BY <2>2, <2>5, DiePointer
    <2> QED
      BY <1>2, <2>3, <2>4, <2>5 DEF Puts
  <1>3. CASE Flush(t)
    <2>1. /\ "idle" \in LoggerPc \ RotatingPc /\ "add" \in LoggerPc \ RotatingPc
          /\ "flush" \notin RotatingPc
      BY DEF LoggerPc, RotatingPc
    <2>2. pc[t] = "flush" /\ up /\ UNCHANGED <<failed, raced>>
      BY <1>0, <1>3 DEF Flush
    <2>3. CASE GoTo(t, "add") /\ UNCHANGED <<up, pFile>>
      BY <2>1, <2>2, <2>3, CalmStepPointer
    <2>4. CASE GoTo(t, "idle") /\ UNCHANGED <<up, pFile>>
      BY <2>1, <2>2, <2>4, CalmStepPointer
    <2>5. CASE Die
      BY <2>2, <2>5, DiePointer
    <2> QED
      BY <1>3, <2>3, <2>4, <2>5 DEF Flush
  <1>4. CASE AddSize(t)
    <2>1. /\ "idle" \in LoggerPc \ RotatingPc /\ "rotate" \in LoggerPc \ RotatingPc
          /\ "add" \notin RotatingPc
      BY DEF LoggerPc, RotatingPc
    <2>2. pc[t] = "add" /\ up /\ UNCHANGED <<up, pFile, failed, raced>>
      BY <1>0, <1>4 DEF AddSize
    <2>3. CASE GoTo(t, "rotate")
      BY <2>1, <2>2, <2>3, CalmStepPointer
    <2>4. CASE GoTo(t, "idle")
      BY <2>1, <2>2, <2>4, CalmStepPointer
    <2> QED
      BY <1>4, <2>3, <2>4 DEF AddSize
  <1>5. CASE StartRotation(t)
    <2>1. /\ pc[t] = "rotate" /\ up
          /\ pc'[t] = IF pFile = "null" THEN "command" ELSE "close"
          /\ \A u \in Thread \ {t} : pc'[u] = pc[u]
          /\ raced' = (raced \/ Rotating # {})
          /\ UNCHANGED <<up, pFile, failed>>
      BY <1>0, <1>5 DEF StartRotation, PointerGood
    <2>2. pc' \in [Thread -> LoggerPc]
      BY <1>5 DEF StartRotation, PointerGood, LoggerPc
    <2>3. ~raced' => Rotating = {} /\ Rotating' \subseteq {t}
      BY <2>1 DEF Rotating
    <2>4. ~raced' => \A u \in Thread : pc'[u] \in Reopening => pFile' = "null"
      BY <2>1, <2>3 DEF Reopening, Rotating
    <2>5. up' /\ ~failed' /\ pFile' = "closed" => \E u \in Thread : pc'[u] = "forget"
      BY <2>1 DEF PointerGood
    <2>6. up' /\ ~failed' /\ pFile' = "null"
             => \E u \in Thread : pc'[u] \in Reopening \union {"forget"}
      BY <2>1 DEF Reopening
    <2> QED
      BY <2>1, <2>2, <2>3, <2>4, <2>5, <2>6 DEF PointerGood
  <1>6. CASE CloseFile(t)
    <2>1. pc[t] = "close" /\ up /\ UNCHANGED <<failed, raced>>
      BY <1>0, <1>6 DEF CloseFile
    <2>2. CASE pFile' = "closed" /\ GoTo(t, "forget") /\ UNCHANGED up
      <3>1. /\ pc' \in [Thread -> LoggerPc] /\ pc'[t] = "forget"
            /\ \A u \in Thread \ {t} : pc'[u] = pc[u]
        BY <2>2 DEF PointerGood, LoggerPc
      <3>2. Rotating' = Rotating /\ t \in Rotating
        BY <2>1, <3>1 DEF Rotating
      <3>3. ~raced' => \A u \in Thread : pc'[u] \notin Reopening
        BY <2>1, <3>1, <3>2 DEF PointerGood, Rotating, Reopening
      <3> QED
        BY <2>1, <2>2, <3>1, <3>2, <3>3 DEF PointerGood
    <2>3. CASE Die
      BY <2>1, <2>3, DiePointer
    <2> QED
      BY <1>6, <2>2, <2>3 DEF CloseFile
  <1>7. CASE ForgetFile(t)
    <2>1. /\ pc[t] = "forget" /\ up /\ UNCHANGED <<up, failed, raced>> /\ pFile' = "null"
          /\ pc' \in [Thread -> LoggerPc] /\ pc'[t] = "command"
          /\ \A u \in Thread \ {t} : pc'[u] = pc[u]
      BY <1>0, <1>7 DEF ForgetFile, PointerGood, LoggerPc
    <2>2. Rotating' = Rotating
      BY <2>1 DEF Rotating
    <2> QED
      BY <2>1, <2>2 DEF PointerGood, Reopening
  <1>8. CASE RunCommand(t)
    <2>1. /\ pc[t] = "command" /\ up /\ UNCHANGED up
          /\ pc'[t] \in {"trim", "idle"} /\ (pc'[t] = "idle" => failed')
          /\ pc' \in [Thread -> LoggerPc]
          /\ \A u \in Thread \ {t} : pc'[u] = pc[u]
          /\ failed => failed'
      BY <1>0, <1>8 DEF RunCommand, PointerGood, LoggerPc
    <2>2. /\ raced => raced'
          /\ pFile' = pFile \/ (pFile = "log" /\ pFile' = "removed")
      <3>1. raced' = raced \/ raced' = (raced \/ stamp[t] \in DOMAIN bkp)
        BY <1>8 DEF RunCommand
      <3>2. MoveAway \/ pFile' = pFile
        BY <1>8 DEF RunCommand
      <3>3. raced => raced'
        BY <3>1
      <3>4. pFile' = pFile \/ (pFile = "log" /\ pFile' = "removed")
        BY <3>2 DEF MoveAway
      <3> QED
        BY <3>3, <3>4
    <2>3. ~raced' => pFile = "null" /\ pFile' = "null"
      BY <2>1, <2>2 DEF PointerGood, Reopening
    <2>4. Rotating' \subseteq Rotating
      BY <2>1 DEF Rotating
    <2>5. up' /\ ~failed' /\ pFile' = "closed" => \E u \in Thread : pc'[u] = "forget"
      BY <2>1, <2>2 DEF PointerGood
    <2>6. up' /\ ~failed' /\ pFile' = "null"
             => \E u \in Thread : pc'[u] \in Reopening \union {"forget"}
      BY <2>1 DEF Reopening
    <2> QED
      BY <2>1, <2>2, <2>3, <2>4, <2>5, <2>6 DEF PointerGood
  <1>9. CASE SpaceChkAndDel(t)
    <2>1. /\ pc[t] = "trim" /\ up /\ UNCHANGED <<up, pFile, failed, raced>>
          /\ pc' \in [Thread -> LoggerPc] /\ pc'[t] = "delete"
          /\ \A u \in Thread \ {t} : pc'[u] = pc[u]
      BY <1>0, <1>9 DEF SpaceChkAndDel, PointerGood, LoggerPc
    <2>2. Rotating' = Rotating
      BY <2>1 DEF Rotating
    <2> QED
      BY <2>1, <2>2 DEF PointerGood, Reopening
  <1>10. CASE Unlink(t)
    <2>1. UNCHANGED <<up, pc, pFile, failed, raced>>
      BY <1>10 DEF Unlink
    <2> QED
      BY <2>1 DEF PointerGood, Rotating
  <1>11. CASE DeletedAll(t)
    <2>1. /\ pc[t] = "delete" /\ up /\ UNCHANGED <<up, pFile, failed, raced>>
          /\ pc' \in [Thread -> LoggerPc] /\ pc'[t] = "open"
          /\ \A u \in Thread \ {t} : pc'[u] = pc[u]
      BY <1>0, <1>11 DEF DeletedAll, PointerGood, LoggerPc
    <2>2. Rotating' = Rotating
      BY <2>1 DEF Rotating
    <2> QED
      BY <2>1, <2>2 DEF PointerGood, Reopening
  <1>12. CASE OpenLogFile(t)
    <2>1. pc[t] = "open" /\ up /\ raced' = raced
      BY <1>0, <1>12 DEF OpenLogFile
    <2>2. CASE Die
      BY <2>1, <2>2, DiePointer
    <2>3. CASE pFile' = "log" /\ GoTo(t, "size") /\ UNCHANGED <<up, failed>>
      <3>1. /\ pc' \in [Thread -> LoggerPc] /\ pc'[t] = "size"
            /\ \A u \in Thread \ {t} : pc'[u] = pc[u]
        BY <2>3 DEF PointerGood, LoggerPc
      <3>2. Rotating' = Rotating /\ t \in Rotating
        BY <2>1, <3>1 DEF Rotating
      <3>3. ~raced' => \A u \in Thread : pc'[u] \notin Reopening
        BY <2>1, <3>1, <3>2 DEF PointerGood, Rotating, Reopening
      <3> QED
        BY <2>1, <2>3, <3>1, <3>2, <3>3 DEF PointerGood
    <2>4. CASE failed' = TRUE /\ GoTo(t, "idle") /\ UNCHANGED <<up, pFile>>
      <3>1. /\ pc' \in [Thread -> LoggerPc] /\ pc'[t] = "idle"
            /\ \A u \in Thread \ {t} : pc'[u] = pc[u]
        BY <2>4 DEF PointerGood, LoggerPc
      <3>2. Rotating' \subseteq Rotating
        BY <3>1 DEF Rotating
      <3> QED
        BY <2>1, <2>4, <3>1, <3>2 DEF PointerGood, Reopening
    <2> QED
      BY <1>12, <2>2, <2>3, <2>4 DEF OpenLogFile
  <1>13. CASE TakeSize(t)
    <2>1. /\ pc[t] = "size" /\ up /\ UNCHANGED <<up, pFile, raced>>
          /\ pc' \in [Thread -> LoggerPc] /\ pc'[t] = "idle"
          /\ \A u \in Thread \ {t} : pc'[u] = pc[u]
          /\ failed => failed'
      BY <1>0, <1>13 DEF TakeSize, PointerGood, LoggerPc
    <2>2. Rotating' \subseteq Rotating
      BY <2>1 DEF Rotating
    <2> QED
      BY <2>1, <2>2 DEF PointerGood, Reopening
  <1> QED
    BY <1>1, <1>2, <1>3, <1>4, <1>5, <1>6, <1>7, <1>8, <1>9, <1>10, <1>11, <1>12, <1>13
       DEF LogStep

LEMMA NextPointer == PointerGood /\ [Next]_vars => PointerGood'
  <1> SUFFICES ASSUME PointerGood, [Next]_vars PROVE PointerGood'
    OBVIOUS
  <1>1. CASE InitLogger
    <2>1. /\ UNCHANGED <<pc, raced>> /\ pFile' = "log" /\ up' = TRUE
          /\ \A t \in Thread : pc[t] = "idle"
      BY <1>1 DEF InitLogger, PointerGood
    <2> QED
      BY <2>1 DEF PointerGood, Rotating, Reopening
  <1>2. CASE ClearLogger
    BY <1>2, DiePointer DEF ClearLogger, history
  <1>3. CASE CreateLog \/ Tick \/ UNCHANGED vars
    <2>1. UNCHANGED <<up, pc, pFile, failed, raced>>
      BY <1>3 DEF CreateLog, Tick, vars, history
    <2> QED
      BY <2>1 DEF PointerGood, Rotating
  <1> QED
    BY <1>1, <1>2, <1>3, LogStepPointer DEF Next

\* The daemon never stops logging for good by itself: with no rotation under way and none
\* failed, g_pFile is not NULL and not closed (RotateFile, log.c), whatever the number of
\* threads that log and rotate.
THEOREM LoggingCorrect == Spec => []SilentOnlyAfterFailure
  <1>1. PointerGood => SilentOnlyAfterFailure
    BY DEF PointerGood, SilentOnlyAfterFailure, Rotating, Reopening
  <1> QED
    BY <1>1, InitPointer, NextPointer, PTL DEF Spec

(***************************************************************************)
(* The greatest element of a bounded set of naturals.                      *)
(***************************************************************************)
LEMMA GreatestExists ==
    ASSUME NEW n \in Nat, NEW S, S \subseteq 0 .. n, S # {}
    PROVE  \E x \in S : \A y \in S : y <= x
  <1> DEFINE R == {ss \in Nat \X Nat : ss[1] < ss[2]}
             T == {n - x : x \in S}
  <1>1. IsWellFoundedOn(R, Nat)
    BY NatLessThanWellFounded DEF OpToRel
  <1>2. T \subseteq Nat /\ T # {}
    <2>1. \A x \in S : n - x \in Nat
      OBVIOUS
    <2> QED
      BY <2>1
  <1> HIDE DEF R, T
  <1>3. \A a, b \in Nat : a < b => <<a, b>> \in R
    BY DEF R
  <1>4. PICK m \in T : \A y \in T : <<y, m>> \notin R
    BY <1>1, <1>2, WFMin
  <1>5. PICK x \in S : m = n - x
    BY DEF T
  <1>6. ASSUME NEW y \in S, y > x PROVE FALSE
    <2>1. n - y \in T /\ n - y \in Nat /\ m \in Nat /\ n - y < m
      BY <1>2, <1>5, <1>6 DEF T
    <2>2. <<n - y, m>> \in R
      BY <1>3, <2>1
    <2> QED
      BY <1>4, <2>1, <2>2
  <1>7. \A y \in S : y <= x
    BY <1>6
  <1> QED
    BY <1>7

(***************************************************************************)
(* The backups.                                                            *)
(***************************************************************************)
Newer(s) == {r \in DOMAIN bkp : r > s}

\* A list of surplus backups may be old, but each backup on it has MaxCmpCnt newer ones
\* still: when one of those goes, it has MaxCmpCnt newer ones itself.
BackupsGood ==
    /\ now \in Nat
    /\ stamp \in [Thread -> 0 .. now]
    /\ surplus \in [Thread -> SUBSET (0 .. now)]
    /\ DOMAIN bkp \subseteq 0 .. now
    /\ \A t \in Thread : \A s \in surplus[t] : Cardinality(Newer(s)) >= MaxCmpCnt

LEMMA InitBackups == Init => BackupsGood
  <1> SUFFICES ASSUME Init PROVE BackupsGood
    OBVIOUS
  <1>1. DOMAIN bkp = {}
    BY DEF Init
  <1> QED
    BY <1>1 DEF Init, BackupsGood

LEMMA NewerFinite ==
    ASSUME BackupsGood, NEW s
    PROVE  IsFiniteSet(Newer(s)) /\ Cardinality(Newer(s)) \in Nat
  <1>1. IsFiniteSet(0 .. now) /\ Newer(s) \in SUBSET (0 .. now)
    BY FS_Interval DEF BackupsGood, Newer
  <1> QED
    BY <1>1, FS_Subset, FS_CardinalityType

\* A step that deletes no backup, or deletes one that is on a list.
Deletes(x) == DOMAIN bkp' = DOMAIN bkp \ {x} /\ \E t \in Thread : x \in surplus[t]

LEMMA NewerStay ==
    ASSUME BackupsGood, NEW t \in Thread, NEW s \in surplus[t],
           \/ DOMAIN bkp \subseteq DOMAIN bkp' /\ IsFiniteSet(DOMAIN bkp')
           \/ \E x : Deletes(x)
    PROVE  Cardinality({r \in DOMAIN bkp' : r > s}) >= MaxCmpCnt
  <1> DEFINE After == {r \in DOMAIN bkp' : r > s}
  <1>1. Cardinality(Newer(s)) >= MaxCmpCnt /\ Cardinality(Newer(s)) \in Nat
    BY NewerFinite DEF BackupsGood
  <1>2. CASE DOMAIN bkp \subseteq DOMAIN bkp' /\ IsFiniteSet(DOMAIN bkp')
    <2>1. Newer(s) \subseteq After /\ IsFiniteSet(After)
      BY <1>2, FS_Subset DEF Newer
    <2>2. Cardinality(Newer(s)) <= Cardinality(After) /\ Cardinality(After) \in Nat
      BY <2>1, FS_Subset, FS_CardinalityType
    <2> QED
      BY <1>1, <2>2, LoggerAssumption
  <1>3. ASSUME NEW x, Deletes(x) PROVE Cardinality(After) >= MaxCmpCnt
    <2>1. DOMAIN bkp' = DOMAIN bkp \ {x} /\ x \in Nat /\ s \in Nat
      BY <1>3 DEF Deletes, BackupsGood
    <2>2. CASE x > s
      <3>1. Cardinality(Newer(x)) >= MaxCmpCnt /\ Cardinality(Newer(x)) \in Nat
        BY <1>3, NewerFinite DEF Deletes, BackupsGood
      <3>2. Newer(x) \subseteq After /\ After \subseteq Newer(s)
        BY <2>1, <2>2 DEF Newer, BackupsGood
      <3>3. IsFiniteSet(After)
        BY <3>2, NewerFinite, FS_Subset
      <3>4. Cardinality(Newer(x)) <= Cardinality(After) /\ Cardinality(After) \in Nat
        BY <3>2, <3>3, FS_Subset, FS_CardinalityType
      <3> QED
        BY <3>1, <3>4, LoggerAssumption
    <2>3. CASE ~(x > s)
      <3>1. After = Newer(s)
        BY <2>1, <2>3 DEF Newer
      <3> QED
        BY <1>1, <3>1
    <2> QED
      BY <2>2, <2>3
  <1> QED
    BY <1>2, <1>3

\* What a step of a thread does to the backups and the lists: it adds a backup, makes a
\* list, or deletes what is on its list.
LEMMA LogStepBackups ==
    ASSUME BackupsGood, NEW t \in Thread, LogStep(t)
    PROVE  /\ now' = now
           /\ stamp' \in [Thread -> 0 .. now]
           /\ DOMAIN bkp' \subseteq 0 .. now
           /\ surplus' \in [Thread -> SUBSET (0 .. now)]
           /\ \/ DOMAIN bkp \subseteq DOMAIN bkp'
              \/ \E x : Deletes(x)
           /\ \A u \in Thread : \A s \in surplus'[u] :
                 s \in surplus[u] \/ (s \in Oldest /\ bkp' = bkp)
  <1> USE DEF files, history, local
  <1>1. CASE SpaceChkAndDel(t)
    <2>1. /\ UNCHANGED <<now, stamp, bkp>> /\ surplus' = [surplus EXCEPT ![t] = Oldest]
          /\ Oldest \subseteq DOMAIN bkp
      BY <1>1 DEF SpaceChkAndDel, Oldest
    <2> QED
      BY <2>1 DEF BackupsGood
  <1>2. CASE Unlink(t)
    <2> DEFINE x == Max(surplus[t])
    <2>1. x \in surplus[t]
      <3>1. surplus[t] # {} /\ surplus[t] \subseteq 0 .. now /\ now \in Nat
        BY <1>2 DEF Unlink, BackupsGood
      <3>2. \E y \in surplus[t] : \A z \in surplus[t] : z <= y
        BY <3>1, GreatestExists
      <3>3. \E y \in surplus[t] : \A z \in surplus[t] : y >= z
        BY <3>1, <3>2
      <3> QED
        BY <3>3 DEF Max
    <2>2. /\ UNCHANGED <<now, stamp>> /\ surplus' = [surplus EXCEPT ![t] = @ \ {x}]
          /\ bkp' = bkp \/ bkp' = Restrict(bkp, DOMAIN bkp \ {x})
      BY <1>2 DEF Unlink
    <2> HIDE DEF x
    <2>3. bkp' = bkp \/ Deletes(x)
      BY <2>1, <2>2 DEF Restrict, Deletes
    <2>4. DOMAIN bkp' \subseteq DOMAIN bkp
      BY <2>2 DEF Restrict
    <2> QED
      BY <2>2, <2>3, <2>4 DEF BackupsGood
  <1>3. CASE RunCommand(t)
    <2>1. UNCHANGED <<now, stamp, surplus>>
      BY <1>3 DEF RunCommand
    <2>2. DOMAIN bkp \subseteq DOMAIN bkp' /\ DOMAIN bkp' \subseteq DOMAIN bkp \union {stamp[t]}
      BY <1>3 DEF RunCommand
    <2> QED
      BY <2>1, <2>2 DEF BackupsGood
  <1>4. ASSUME ~SpaceChkAndDel(t), ~Unlink(t), ~RunCommand(t)
        PROVE  /\ UNCHANGED <<now, bkp>>
               /\ stamp' \in {stamp, [stamp EXCEPT ![t] = now], [u \in Thread |-> 0]}
               /\ surplus' \in {surplus, [u \in Thread |-> {}]}
    BY <1>4 DEF LogStep, StartLine, Puts, Flush, AddSize, StartRotation, CloseFile, ForgetFile,
                DeletedAll, OpenLogFile, TakeSize, Die
  <1> QED
    BY <1>1, <1>2, <1>3, <1>4 DEF BackupsGood

LEMMA NextBackups == BackupsGood /\ [Next]_vars => BackupsGood'
  <1> SUFFICES ASSUME BackupsGood, [Next]_vars PROVE BackupsGood'
    OBVIOUS
  <1> USE DEF files, history, local
  <1>1. ASSUME NEW t \in Thread, LogStep(t) PROVE BackupsGood'
    <2>1. IsFiniteSet(DOMAIN bkp')
      <3>1. DOMAIN bkp' \subseteq 0 .. now
        BY <1>1, LogStepBackups
      <3>2. IsFiniteSet(0 .. now)
        BY FS_Interval DEF BackupsGood
      <3> QED
        BY <3>1, <3>2, FS_Subset
    <2>2. ASSUME NEW u \in Thread, NEW s \in surplus'[u]
          PROVE  Cardinality(Newer(s)') >= MaxCmpCnt
      <3>1. CASE s \in surplus[u]
        BY <1>1, <2>1, <3>1, LogStepBackups, NewerStay DEF Newer
      <3>2. CASE s \in Oldest /\ bkp' = bkp
        BY <3>2 DEF Oldest, Newer
      <3> QED
        BY <1>1, <2>2, <3>1, <3>2, LogStepBackups
    <2> QED
      BY <1>1, <2>2, LogStepBackups DEF BackupsGood
  <1>2. CASE InitLogger \/ CreateLog \/ UNCHANGED vars
    BY <1>2 DEF InitLogger, CreateLog, vars, BackupsGood, Newer
  <1>3. CASE ClearLogger
    <2>1. /\ stamp' = [t \in Thread |-> 0] /\ surplus' = [t \in Thread |-> {}]
          /\ UNCHANGED <<now, bkp>>
      BY <1>3 DEF ClearLogger, Die
    <2> QED
      BY <2>1 DEF BackupsGood
  <1>4. CASE Tick
    <2>1. now' = now + 1 /\ UNCHANGED <<stamp, surplus, bkp>>
      BY <1>4 DEF Tick
    <2>2. 0 .. now \subseteq 0 .. now'
      BY <2>1 DEF BackupsGood
    <2> QED
      BY <2>1, <2>2 DEF BackupsGood, Newer
  <1> QED
    BY <1>1, <1>2, <1>3, <1>4 DEF Next

LEMMA StepKeepsNewest ==
    ASSUME BackupsGood, [Next]_vars, NEW s \in DOMAIN bkp \ DOMAIN bkp'
    PROVE  Cardinality({r \in DOMAIN bkp' : r > s}) >= MaxCmpCnt
  <1>1. ~(InitLogger \/ ClearLogger \/ CreateLog \/ Tick \/ UNCHANGED vars)
    <2> SUFFICES ASSUME InitLogger \/ ClearLogger \/ CreateLog \/ Tick \/ UNCHANGED vars
                 PROVE  bkp' = bkp
      OBVIOUS
    <2> QED
      BY DEF InitLogger, ClearLogger, CreateLog, Tick, vars, files
  <1>2. PICK t \in Thread : LogStep(t)
    BY <1>1 DEF Next
  <1>3. PICK x : Deletes(x)
    BY <1>2, LogStepBackups
  <1>4. x = s /\ \E u \in Thread : s \in surplus[u]
    BY <1>3 DEF Deletes
  <1> QED
    BY <1>3, <1>4, NewerStay

\* A backup is deleted only while MaxCmpCnt newer ones stay (SpaceChkAndDel, log.c), for any
\* limit and any number of threads that make and delete backups one by one, of which any
\* deletion may fail and the daemon may die between two.
THEOREM NewestCorrect == Spec => NewestAreKept
  <1>1. BackupsGood /\ [Next]_vars =>
           [\A s \in DOMAIN bkp \ DOMAIN bkp' :
               Cardinality({r \in DOMAIN bkp' : r > s}) >= MaxCmpCnt]_vars
    BY StepKeepsNewest
  <1> QED
    BY <1>1, InitBackups, NextBackups, PTL DEF Spec, NewestAreKept

(***************************************************************************)
(* Sums over the elements of a finite set, by SumFunctionOnSet.            *)
(***************************************************************************)
\* Induction over the subsets of a finite set: G is the set of those the claim holds for.
LEMMA SubsetInduction ==
    ASSUME NEW D, IsFiniteSet(D), NEW G,
           \A s \in SUBSET D : (\A r \in SUBSET s : r # s => r \in G) => s \in G
    PROVE  SUBSET D \subseteq G
  <1> SUFFICES ASSUME (SUBSET D) \ G # {} PROVE FALSE
    OBVIOUS
  <1> DEFINE Bad == (SUBSET D) \ G
             R == StrictSubsetOrdering(D)
  <1>1. FiniteSubsetsOf(D) = SUBSET D
    BY FS_FiniteSubsetsOfFinite
  <1>2. Bad \subseteq SUBSET D /\ Bad # {}
    OBVIOUS
  <1>3. IsWellFoundedOn(R, SUBSET D)
    <2>1. IsWellFoundedOn(R, FiniteSubsetsOf(D))
      BY FS_StrictSubsetOrderingWellFounded
    <2> HIDE DEF R
    <2> QED
      BY <1>1, <2>1
  <1>4. PICK s \in Bad : \A r \in Bad : <<r, s>> \notin R
    <2> HIDE DEF Bad, R
    <2> QED
      BY <1>2, <1>3, WFMin
  <1>5. ASSUME NEW r \in SUBSET s, r # s PROVE r \in G
    <2>1. r \in SUBSET D /\ s \in SUBSET D
      BY <1>2
    <2>2. <<r, s>> \in R
      BY <1>5, <2>1 DEF StrictSubsetOrdering
    <2> HIDE DEF R
    <2> QED
      BY <1>4, <2>1, <2>2
  <1> QED
    BY <1>2, <1>5

Pick(s) == CHOOSE x \in s : TRUE
Step(f, s, g) == IF s = {} THEN 0 ELSE f[Pick(s)] + g[s \ {Pick(s)}]
Sums(f, D, g) == g = [s \in SUBSET D |-> Step(f, s, g)]
Partial(f, D) == CHOOSE g : Sums(f, D, g)

LEMMA PickIn == \A s : s # {} => Pick(s) \in s
  BY DEF Pick

\* The function of partial sums that SumFunctionOnSet is defined by.
LEMMA SumIsPartial ==
    ASSUME NEW f, NEW D
    PROVE  SumFunctionOnSet(f, D) = Partial(f, D)[D]
  BY DEF SumFunctionOnSet, FoldFunctionOnSet, MapThenFoldSet, Partial, Sums, Step, Pick

\* Two of them agree where both are defined.
LEMMA SumsAgree ==
    ASSUME NEW f, NEW D, NEW E, NEW g, NEW h, Sums(f, D, g), Sums(f, E, h),
           E \subseteq D, IsFiniteSet(E)
    PROVE  \A s \in SUBSET E : g[s] = h[s]
  <1> DEFINE G == {s \in SUBSET E : g[s] = h[s]}
  <1>1. ASSUME NEW s \in SUBSET E, \A r \in SUBSET s : r # s => r \in G
        PROVE  s \in G
    <2>1. g[s] = Step(f, s, g) /\ h[s] = Step(f, s, h)
      BY DEF Sums
    <2>2. CASE s = {}
      BY <2>1, <2>2 DEF Step
    <2>3. CASE s # {}
      <3>1. s \ {Pick(s)} \in G
        BY <1>1, <2>3, PickIn
      <3> QED
        BY <2>1, <2>3, <3>1 DEF Step
    <2> QED
      BY <2>2, <2>3
  <1> HIDE DEF G
  <1>2. SUBSET E \subseteq G
    BY <1>1, SubsetInduction
  <1> QED
    BY <1>2 DEF G

\* There is one for every finite set.
LEMMA SumsExist ==
    ASSUME NEW f, NEW D, IsFiniteSet(D)
    PROVE  Sums(f, D, Partial(f, D))
  <1> DEFINE G == {s \in SUBSET D : Sums(f, s, Partial(f, s))}
  <1>1. ASSUME NEW s \in SUBSET D, \A r \in SUBSET s : r # s => r \in G
        PROVE  s \in G
    <2> DEFINE Whole(r) == Partial(f, r)[r]
               g == [r \in SUBSET s |-> IF r = {} THEN 0
                                        ELSE f[Pick(r)] + Whole(r \ {Pick(r)})]
    <2>1. \A r \in SUBSET s : r # s => Sums(f, r, Partial(f, r)) /\ IsFiniteSet(r)
      BY <1>1, FS_Subset
    <2>2. ASSUME NEW r \in SUBSET s, r # s PROVE g[r] = Whole(r)
      <3>1. Whole(r) = Step(f, r, Partial(f, r)) /\ IsFiniteSet(r)
        BY <2>1, <2>2 DEF Sums
      <3>2. CASE r = {}
        BY <3>1, <3>2 DEF Step
      <3>3. CASE r # {}
        <4> DEFINE q == r \ {Pick(r)}
        <4>1. q \in SUBSET s /\ q # s /\ q \subseteq r
          BY <2>2
        <4>2. Sums(f, r, Partial(f, r)) /\ Sums(f, q, Partial(f, q)) /\ IsFiniteSet(q)
          BY <2>1, <2>2, <4>1
        <4>3. Partial(f, r)[q] = Whole(q)
          <5> HIDE DEF q
          <5> QED
            BY <4>1, <4>2, SumsAgree
        <4> QED
          BY <3>1, <3>3, <4>3 DEF Step
      <3> QED
        BY <3>2, <3>3
    <2>3. \A r \in SUBSET s : g[r] = Step(f, r, g)
      <3> SUFFICES ASSUME NEW r \in SUBSET s, r # {} PROVE g[r] = Step(f, r, g)
        BY DEF Step
      <3>1. r \ {Pick(r)} \in SUBSET s /\ r \ {Pick(r)} # s
        BY PickIn
      <3>2. g[r \ {Pick(r)}] = Whole(r \ {Pick(r)})
        BY <2>2, <3>1
      <3> QED
        BY <3>2 DEF Step
    <2>4. Sums(f, s, g)
      <3>1. g = [r \in SUBSET s |-> g[r]]
        OBVIOUS
      <3> HIDE DEF g
      <3> QED
        BY <2>3, <3>1 DEF Sums
    <2> QED
      BY <2>4 DEF Partial
  <1> HIDE DEF G
  <1>2. SUBSET D \subseteq G
    BY <1>1, SubsetInduction
  <1> QED
    BY <1>2 DEF G

LEMMA SumStep ==
    ASSUME NEW f, NEW D, IsFiniteSet(D)
    PROVE  /\ SumFunctionOnSet(f, {}) = 0
           /\ D # {} => SumFunctionOnSet(f, D) = f[Pick(D)] + SumFunctionOnSet(f, D \ {Pick(D)})
  <1>1. ASSUME NEW E, IsFiniteSet(E) PROVE SumFunctionOnSet(f, E) = Step(f, E, Partial(f, E))
    <2>1. Sums(f, E, Partial(f, E)) /\ E \in SUBSET E
      BY <1>1, SumsExist
    <2> QED
      BY <2>1, SumIsPartial DEF Sums
  <1>2. SumFunctionOnSet(f, {}) = 0
    BY <1>1, FS_EmptySet DEF Step
  <1>3. ASSUME D # {}
        PROVE  Partial(f, D)[D \ {Pick(D)}] = SumFunctionOnSet(f, D \ {Pick(D)})
    <2> DEFINE E == D \ {Pick(D)}
    <2>1. IsFiniteSet(E) /\ E \subseteq D /\ E \in SUBSET E
      BY FS_Subset
    <2> HIDE DEF E
    <2>2. Partial(f, D)[E] = Partial(f, E)[E]
      BY <2>1, SumsExist, SumsAgree
    <2> QED
      BY <2>2, SumIsPartial DEF E
  <1> QED
    BY <1>1, <1>2, <1>3 DEF Step

\* A sum of numbers is a number, and any element can be taken out of it.
LEMMA SumTakeOut ==
    ASSUME NEW f, NEW D, IsFiniteSet(D), \A x \in D : f[x] \in Nat
    PROVE  /\ SumFunctionOnSet(f, D) \in Nat
           /\ \A x \in D : SumFunctionOnSet(f, D) = f[x] + SumFunctionOnSet(f, D \ {x})
  <1> DEFINE Sum(s) == SumFunctionOnSet(f, s)
             G == {s \in SUBSET D : /\ Sum(s) \in Nat
                                    /\ \A x \in s : Sum(s) = f[x] + Sum(s \ {x})}
  <1>1. ASSUME NEW s \in SUBSET D, \A r \in SUBSET s : r # s => r \in G
        PROVE  s \in G
    <2>1. IsFiniteSet(s)
      BY FS_Subset
    <2>2. CASE s = {}
      <3>1. Sum({}) = 0
        BY SumStep
      <3> QED
        BY <2>2, <3>1
    <2>3. CASE s # {}
      <3> DEFINE p == Pick(s)
      <3>1. p \in s /\ p \in D
        BY <2>3, PickIn
      <3>2. Sum(s) = f[p] + Sum(s \ {p})
        BY <2>1, <2>3, SumStep
      <3> HIDE DEF p
      <3>3. s \ {p} \in G /\ f[p] \in Nat
        BY <1>1, <3>1
      <3>4. Sum(s) \in Nat
        BY <3>2, <3>3
      <3>5. ASSUME NEW x \in s, x # p PROVE Sum(s) = f[x] + Sum(s \ {x})
        <4>1. s \ {x} \in G /\ f[x] \in Nat
          BY <1>1
        <4>2. Sum(s \ {p}) = f[x] + Sum((s \ {p}) \ {x})
          BY <3>3, <3>5
        <4>3. Sum(s \ {x}) = f[p] + Sum((s \ {x}) \ {p})
          BY <3>1, <3>5, <4>1
        <4>4. (s \ {p}) \ {x} = (s \ {x}) \ {p} /\ (s \ {x}) \ {p} \in G
          BY <1>1, <3>1
        <4>5. Sum((s \ {x}) \ {p}) \in Nat
          BY <4>4
        <4>6. f[x] \in Nat /\ f[p] \in Nat
          BY <3>1, <3>3, <4>1
        <4>7. Sum(s) = f[p] + (f[x] + Sum((s \ {x}) \ {p}))
          BY <3>2, <4>2, <4>4
        <4> HIDE DEF Sum, G
        <4> QED
          BY <4>3, <4>5, <4>6, <4>7
      <3> QED
        BY <3>2, <3>4, <3>5
    <2> QED
      BY <2>2, <2>3
  <1> HIDE DEF G
  <1>2. SUBSET D \subseteq G
    BY <1>1, SubsetInduction
  <1> QED
    BY <1>2 DEF G

\* Only the values in the set matter.
LEMMA SumSame ==
    ASSUME NEW D, IsFiniteSet(D), NEW f, NEW g, \A x \in D : f[x] = g[x]
    PROVE  SumFunctionOnSet(f, D) = SumFunctionOnSet(g, D)
  <1> DEFINE G == {s \in SUBSET D : SumFunctionOnSet(f, s) = SumFunctionOnSet(g, s)}
  <1>1. ASSUME NEW s \in SUBSET D, \A r \in SUBSET s : r # s => r \in G
        PROVE  s \in G
    <2>1. IsFiniteSet(s)
      BY FS_Subset
    <2>2. CASE s = {}
      BY <2>2, SumStep, FS_EmptySet
    <2>3. CASE s # {}
      <3>1. Pick(s) \in s /\ s \ {Pick(s)} \in G
        BY <1>1, <2>3, PickIn
      <3> QED
        BY <2>1, <2>3, <3>1, SumStep
    <2> QED
      BY <2>2, <2>3
  <1> HIDE DEF G
  <1>2. SUBSET D \subseteq G
    BY <1>1, SubsetInduction
  <1> QED
    BY <1>2 DEF G

(***************************************************************************)
(* The lines.  Unless rotations race, what is buffered is on its way to    *)
(* the log file, and what is not in the log file any more is accounted     *)
(* for in the log directory, the backups or what was deleted.              *)
(***************************************************************************)
Kept == (IF log = None THEN 0 ELSE log) + stray + trimmed + SumFunctionOnSet(bkp, DOMAIN bkp)

Amounts ==
    /\ up \in BOOLEAN /\ failed \in BOOLEAN /\ raced \in BOOLEAN
    /\ buffered \in Nat /\ curSize \in Nat
    /\ log \in Nat \union {None} /\ stray \in Nat
    /\ \A s \in DOMAIN bkp : bkp[s] \in Nat
    /\ logged \in Nat /\ trimmed \in Nat

Written ==
    /\ pFile = "log" => log # None
    /\ ~raced => /\ pFile # "log" => buffered = 0
                 /\ \A t \in Thread : pc[t] = "forget" => pFile # "log"
                 /\ logged = Kept

LinesInv == PointerGood /\ BackupsGood /\ Amounts /\ Written

LEMMA LinesInvImplies == LinesInv => TypeOK /\ LinesAreKept
  <1> SUFFICES ASSUME LinesInv PROVE TypeOK /\ LinesAreKept
    OBVIOUS
  <1>1. stamp \in [Thread -> Nat]
    BY DEF LinesInv, BackupsGood
  <1>2. TypeOK
    BY <1>1 DEF LinesInv, PointerGood, BackupsGood, Amounts, TypeOK
  <1>3. LinesAreKept
    BY DEF LinesInv, Written, Kept, LinesAreKept
  <1> QED
    BY <1>2, <1>3

LEMMA InitLines == Init => LinesInv
  <1> SUFFICES ASSUME Init PROVE LinesInv
    OBVIOUS
  <1>1. DOMAIN bkp = {}
    BY DEF Init
  <1>2. SumFunctionOnSet(bkp, {}) = 0
    BY FS_EmptySet, SumStep
  <1>3. Amounts
    <2>1. \A s \in DOMAIN bkp : bkp[s] \in Nat
      BY <1>1
    <2>2. up \in BOOLEAN /\ failed \in BOOLEAN /\ raced \in BOOLEAN
      BY DEF Init
    <2>3. /\ buffered \in Nat /\ curSize \in Nat /\ stray \in Nat /\ logged \in Nat
          /\ trimmed \in Nat
      BY DEF Init
    <2>4. log \in Nat \union {None}
      BY DEF Init
    <2> QED
      BY <2>1, <2>2, <2>3, <2>4 DEF Amounts
  <1>4. Kept = 0
    BY <1>1, <1>2 DEF Init, Kept
  <1>5. Written
    BY <1>4 DEF Init, Written
  <1> QED
    BY <1>3, <1>5, InitPointer, InitBackups DEF LinesInv

\* The backups are finitely many, and so are their lines.
LEMMA BackupSum ==
    ASSUME BackupsGood, Amounts
    PROVE  IsFiniteSet(DOMAIN bkp) /\ SumFunctionOnSet(bkp, DOMAIN bkp) \in Nat
  <1>1. IsFiniteSet(0 .. now) /\ DOMAIN bkp \in SUBSET (0 .. now)
    BY FS_Interval DEF BackupsGood
  <1>2. IsFiniteSet(DOMAIN bkp)
    BY <1>1, FS_Subset
  <1> QED
    BY <1>2, SumTakeOut DEF Amounts

\* A flush moves the buffered lines to the log file, or there is nothing to flush.
LEMMA WriteOutLines ==
    ASSUME LinesInv, WriteOut, UNCHANGED <<stray, bkp, trimmed, raced>>
    PROVE  /\ buffered' = 0 /\ logged' \in Nat /\ log' \in Nat \union {None}
           /\ log' = None <=> log = None
           /\ ~raced' => logged' = Kept'
  <1>1. SumFunctionOnSet(bkp, DOMAIN bkp) \in Nat
    BY BackupSum DEF LinesInv
  <1>2. /\ log \in Nat \union {None} /\ buffered \in Nat /\ logged \in Nat /\ stray \in Nat
        /\ trimmed \in Nat /\ (pFile = "log" => log \in Nat)
    BY DEF LinesInv, Amounts, Written
  <1>3. /\ buffered' = 0 /\ logged' = logged + buffered
        /\ log' = IF pFile = "log" THEN log + buffered ELSE log
    BY DEF WriteOut
  <1>4. None \notin Nat
    BY LoggerAssumption
  <1>5. log' = None <=> log = None
    BY <1>2, <1>3, <1>4
  <1>6. ~raced => logged' = Kept'
    <2> DEFINE sum == SumFunctionOnSet(bkp, DOMAIN bkp)
    <2> SUFFICES ASSUME ~raced PROVE logged' = Kept'
      OBVIOUS
    <2>1. logged = (IF log = None THEN 0 ELSE log) + stray + trimmed + sum
      BY DEF LinesInv, Written, Kept
    <2>2. Kept' = (IF log' = None THEN 0 ELSE log') + stray + trimmed + sum
      BY DEF Kept
    <2>3. pFile # "log" => buffered = 0
      BY DEF LinesInv, Written
    <2>4. sum \in Nat
      BY <1>1
    <2> HIDE DEF sum
    <2>5. CASE pFile = "log"
      BY <1>2, <1>3, <1>4, <2>1, <2>2, <2>4, <2>5
    <2>6. CASE pFile # "log"
      BY <1>2, <1>3, <1>4, <2>1, <2>2, <2>3, <2>4, <2>6
    <2> QED
      BY <2>5, <2>6
  <1> QED
    BY <1>2, <1>3, <1>5, <1>6

LEMMA DieLines ==
    ASSUME LinesInv, Die, UNCHANGED <<log, stray, bkp, logged, trimmed, raced>>, failed' = failed
    PROVE  Amounts' /\ Written'
  <1>1. Kept' = Kept
    BY DEF Kept
  <1>2. /\ up' = FALSE /\ pFile' = "null" /\ buffered' = 0 /\ curSize' = 0
        /\ \A u \in Thread : pc'[u] = "idle"
    BY DEF Die
  <1> QED
    BY <1>1, <1>2 DEF LinesInv, Amounts, Written

\* A step of a thread that does not touch the files or g_pFile.
LEMMA QuietLines ==
    ASSUME LinesInv, UNCHANGED <<up, pFile, log, stray, bkp, logged, trimmed, raced, buffered>>,
           failed' \in BOOLEAN, curSize' \in Nat,
           \A t \in Thread : pc'[t] = "forget" => pc[t] = "forget"
    PROVE  Amounts' /\ Written'
  <1>1. Kept' = Kept
    BY DEF Kept
  <1> QED
    BY <1>1 DEF LinesInv, Amounts, Written

\* The log file becomes a backup with a name of its own.
LEMMA NewBackup ==
    ASSUME BackupsGood, Amounts, NEW t \in Thread, log # None, stamp[t] \notin DOMAIN bkp,
           bkp' = [s \in DOMAIN bkp \union {stamp[t]} |-> IF s = stamp[t] THEN log ELSE bkp[s]]
    PROVE  SumFunctionOnSet(bkp', DOMAIN bkp') = log + SumFunctionOnSet(bkp, DOMAIN bkp)
  <1> DEFINE n == stamp[t]
             D == DOMAIN bkp
             E == D \union {n}
  <1>1. DOMAIN bkp' = E /\ bkp'[n] = log /\ \A s \in D : bkp'[s] = bkp[s]
    OBVIOUS
  <1>2. IsFiniteSet(D) /\ IsFiniteSet(E)
    BY BackupSum, FS_AddElement
  <1>3. \A s \in E : bkp'[s] \in Nat
    BY <1>1 DEF Amounts
  <1>4. E \ {n} = D /\ n \in E
    OBVIOUS
  <1> HIDE DEF n, D, E
  <1>5. SumFunctionOnSet(bkp', E) = bkp'[n] + SumFunctionOnSet(bkp', E \ {n})
    <2>1. \A s \in E : SumFunctionOnSet(bkp', E) = bkp'[s] + SumFunctionOnSet(bkp', E \ {s})
      BY ONLY <1>2, <1>3, SumTakeOut
    <2> QED
      BY <1>4, <2>1
  <1>6. SumFunctionOnSet(bkp', D) = SumFunctionOnSet(bkp, D)
    BY <1>1, <1>2, SumSame
  <1> QED
    BY <1>1, <1>4, <1>5, <1>6 DEF D

\* A backup that is deleted and what stays add up to what was there.
LEMMA TrimmedBackups ==
    ASSUME BackupsGood, Amounts, NEW x \in DOMAIN bkp,
           bkp' = Restrict(bkp, DOMAIN bkp \ {x})
    PROVE  /\ SumFunctionOnSet(bkp', DOMAIN bkp') \in Nat
           /\ SumFunctionOnSet(bkp, DOMAIN bkp) = bkp[x] + SumFunctionOnSet(bkp', DOMAIN bkp')
  <1> DEFINE D == DOMAIN bkp
  <1>1. DOMAIN bkp' = D \ {x} /\ \A s \in D \ {x} : bkp'[s] = bkp[s]
    BY DEF Restrict
  <1>2. IsFiniteSet(D) /\ IsFiniteSet(D \ {x})
    BY BackupSum, FS_Subset
  <1>3. \A s \in D : bkp[s] \in Nat
    BY DEF Amounts
  <1> HIDE DEF D
  <1>4. SumFunctionOnSet(bkp', D \ {x}) = SumFunctionOnSet(bkp, D \ {x})
    BY <1>1, <1>2, SumSame
  <1>5. SumFunctionOnSet(bkp, D \ {x}) \in Nat
    BY <1>2, <1>3, SumTakeOut
  <1>6. SumFunctionOnSet(bkp, D) = bkp[x] + SumFunctionOnSet(bkp, D \ {x})
    BY <1>2, <1>3, SumTakeOut DEF D
  <1> QED
    BY <1>1, <1>4, <1>5, <1>6 DEF D

LEMMA RunCommandLines ==
    ASSUME LinesInv, NEW t \in Thread, RunCommand(t)
    PROVE  Amounts' /\ Written'
  <1> DEFINE sum == SumFunctionOnSet(bkp, DOMAIN bkp)
  <1>1. /\ pc[t] = "command" /\ UNCHANGED <<up, buffered, curSize, now, logged, trimmed>>
        /\ \A u \in Thread : pc'[u] = "forget" => pc[u] = "forget"
    BY DEF RunCommand, GoTo, LinesInv, PointerGood
  <1>2. ~raced => pFile = "null" /\ t \in Rotating
    BY <1>1 DEF LinesInv, PointerGood, Reopening, Rotating
  <1>3. sum \in Nat /\ None \notin Nat
    BY BackupSum, LoggerAssumption DEF LinesInv
  <1>4. /\ log \in Nat \union {None} /\ stray \in Nat /\ trimmed \in Nat /\ logged \in Nat
        /\ ~raced => logged = (IF log = None THEN 0 ELSE log) + stray + trimmed + sum
    BY DEF LinesInv, Amounts, Written, Kept
  <1>5. CASE log # None /\ MoveAway
    <2>1. log' = None /\ pFile' # "log" /\ (pFile = "null" => pFile' = "null")
      BY <1>5 DEF MoveAway
    <2>2. CASE /\ bkp' = [s \in DOMAIN bkp \union {stamp[t]} |-> IF s = stamp[t] THEN log ELSE bkp[s]]
               /\ raced' = (raced \/ stamp[t] \in DOMAIN bkp)
               /\ UNCHANGED <<stray, failed>>
      <3>1. Amounts'
        BY <1>1, <1>5, <2>1, <2>2 DEF LinesInv, Amounts
      <3>2. ASSUME ~raced' PROVE logged' = Kept'
        <4>1. SumFunctionOnSet(bkp', DOMAIN bkp') = log + sum
          BY <1>5, <2>2, <3>2, NewBackup DEF LinesInv
        <4>2. Kept' = stray + trimmed + (log + sum)
          BY <1>1, <1>4, <1>3, <1>5, <2>1, <2>2, <4>1 DEF Kept
        <4>3. ~raced /\ logged' = logged
          BY <1>1, <2>2, <3>2
        <4> HIDE DEF sum
        <4> QED
          BY <1>3, <1>4, <1>5, <4>2, <4>3
      <3> QED
        BY <1>1, <1>2, <2>1, <2>2, <3>1, <3>2 DEF LinesInv, Written
    <2>3. CASE stray' = stray + log /\ failed' = TRUE /\ UNCHANGED <<bkp, raced>>
      <3>1. Amounts'
        BY <1>1, <1>4, <1>5, <2>1, <2>3 DEF LinesInv, Amounts
      <3>2. ASSUME ~raced' PROVE logged' = Kept'
        <4>1. Kept' = (stray + log) + trimmed + sum
          BY <1>1, <1>3, <1>4, <1>5, <2>1, <2>3 DEF Kept
        <4> HIDE DEF sum
        <4> QED
          BY <1>1, <1>3, <1>4, <1>5, <2>3, <3>2, <4>1
      <3> QED
        BY <1>1, <1>2, <2>1, <2>3, <3>1, <3>2 DEF LinesInv, Written
    <2> QED
      BY <1>5, <2>1, <2>2, <2>3, <1>3 DEF RunCommand, files
  <1>6. CASE failed' = TRUE /\ UNCHANGED <<files, pFile, raced>>
    <2>1. failed' \in BOOLEAN /\ curSize' \in Nat
      BY <1>1, <1>6 DEF LinesInv, Amounts
    <2> QED
      BY <1>1, <1>6, <2>1, QuietLines DEF files
  <1> QED
    BY <1>5, <1>6 DEF RunCommand

LEMMA LogStepLines ==
    ASSUME LinesInv, NEW t \in Thread, LogStep(t)
    PROVE  Amounts' /\ Written'
  <1> USE DEF files, history, local
  <1>0. /\ pc \in [Thread -> LoggerPc]
        /\ curSize \in Nat /\ failed \in BOOLEAN /\ log \in Nat \union {None} /\ buffered \in Nat
    BY DEF LinesInv, PointerGood, Amounts
  <1>1. CASE StartLine(t)
    <2>1. \A u \in Thread : pc'[u] = "forget" => pc[u] = "forget"
      BY <1>0, <1>1 DEF StartLine, GoTo
    <2> QED
      BY <1>0, <1>1, <2>1, QuietLines DEF StartLine
  <1>2. CASE Puts(t)
    <2>1. UNCHANGED <<log, stray, bkp, logged, trimmed, raced, failed>>
      BY <1>2 DEF Puts
    <2>2. CASE /\ pFile \in {"log", "removed"} /\ buffered' = buffered + 1
               /\ GoTo(t, "flush") /\ UNCHANGED <<up, pFile, curSize>>
      <3>1. \A u \in Thread : pc'[u] = "forget" => pc[u] = "forget"
        BY <1>0, <2>2 DEF GoTo
      <3>2. ~raced => pFile = "log"
        BY <2>2 DEF LinesInv, PointerGood
      <3>3. Kept' = Kept
        BY <2>1 DEF Kept
      <3> QED
        BY <2>1, <2>2, <3>1, <3>2, <3>3 DEF LinesInv, Amounts, Written
    <2>3. CASE GoTo(t, "idle") /\ UNCHANGED <<up, pFile, buffered, curSize>>
      <3>1. \A u \in Thread : pc'[u] = "forget" => pc[u] = "forget"
        BY <1>0, <2>3 DEF GoTo
      <3> QED
        BY <1>0, <2>1, <2>3, <3>1, QuietLines
    <2>4. CASE Die
      BY <2>1, <2>4, DieLines
    <2> QED
      BY <1>2, <2>2, <2>3, <2>4 DEF Puts
  <1>3. CASE Flush(t)
    <2>1. UNCHANGED <<stray, bkp, trimmed, raced, failed>>
      BY <1>3 DEF Flush
    <2>2. CASE WriteOut /\ GoTo(t, "add") /\ UNCHANGED <<up, pFile, curSize>>
      <3>1. \A u \in Thread : pc'[u] = "forget" => pc[u] = "forget"
        BY <1>0, <2>2 DEF GoTo
      <3> QED
        BY <2>1, <2>2, <3>1, WriteOutLines DEF LinesInv, Amounts, Written
    <2>3. CASE GoTo(t, "idle") /\ UNCHANGED <<up, pFile, buffered, curSize, log, logged>>
      <3>1. \A u \in Thread : pc'[u] = "forget" => pc[u] = "forget"
        BY <1>0, <2>3 DEF GoTo
      <3> QED
        BY <1>0, <2>1, <2>3, <3>1, QuietLines
    <2>4. CASE Die /\ UNCHANGED <<log, logged>>
      BY <2>1, <2>4, DieLines
    <2> QED
      BY <1>3, <2>2, <2>3, <2>4 DEF Flush
  <1>4. CASE AddSize(t)
    <2>1. \A u \in Thread : pc'[u] = "forget" => pc[u] = "forget"
      BY <1>0, <1>4 DEF AddSize, GoTo
    <2>2. curSize' \in Nat
      BY <1>0, <1>4 DEF AddSize
    <2> QED
      BY <1>0, <1>4, <2>1, <2>2, QuietLines DEF AddSize
  <1>5. CASE StartRotation(t)
    <2>1. \A u \in Thread : pc'[u] = "forget" => pc[u] = "forget"
      BY <1>0, <1>5 DEF StartRotation, GoTo
    <2>2. Kept' = Kept
      BY <1>5 DEF StartRotation, Kept
    <2> QED
      BY <1>5, <2>1, <2>2 DEF StartRotation, LinesInv, Amounts, Written
  <1>6. CASE CloseFile(t)
    <2>1. UNCHANGED <<stray, bkp, trimmed, raced, failed>>
      BY <1>6 DEF CloseFile
    <2>2. CASE pFile' = "closed" /\ WriteOut /\ UNCHANGED <<up, curSize>>
      BY <2>1, <2>2, WriteOutLines DEF LinesInv, Amounts, Written
    <2>3. CASE Die /\ UNCHANGED <<log, logged>>
      BY <2>1, <2>3, DieLines
    <2> QED
      BY <1>6, <2>2, <2>3 DEF CloseFile
  <1>7. CASE ForgetFile(t)
    <2>1. Kept' = Kept
      BY <1>7 DEF ForgetFile, Kept
    <2>2. pc[t] = "forget"
      BY <1>7 DEF ForgetFile
    <2> QED
      BY <1>7, <2>1, <2>2 DEF ForgetFile, LinesInv, Amounts, Written
  <1>8. CASE RunCommand(t)
    BY <1>8, RunCommandLines
  <1>9. CASE SpaceChkAndDel(t) \/ DeletedAll(t)
    <2>1. /\ UNCHANGED <<up, pFile, log, stray, bkp, logged, trimmed, raced, buffered>>
          /\ UNCHANGED <<failed, curSize>>
          /\ \A u \in Thread : pc'[u] = "forget" => pc[u] = "forget"
      BY <1>0, <1>9 DEF SpaceChkAndDel, DeletedAll, GoTo
    <2> QED
      BY <1>0, <2>1, QuietLines
  <1>10. CASE Unlink(t)
    <2> DEFINE rest == SumFunctionOnSet(bkp', DOMAIN bkp')
               sum == SumFunctionOnSet(bkp, DOMAIN bkp)
    <2>1. UNCHANGED <<up, pc, pFile, buffered, curSize, log, stray, now, logged, failed, raced>>
      BY <1>10 DEF Unlink
    <2>2. CASE UNCHANGED <<bkp, trimmed>>
      BY <1>0, <2>1, <2>2, QuietLines
    <2>3. ASSUME NEW x \in DOMAIN bkp, bkp' = Restrict(bkp, DOMAIN bkp \ {x}),
                 trimmed' = trimmed + bkp[x]
          PROVE  Amounts' /\ Written'
      <3>1. rest \in Nat /\ sum = bkp[x] + rest
        BY <2>3, TrimmedBackups DEF LinesInv
      <3>2. bkp[x] \in Nat /\ \A s \in DOMAIN bkp' : bkp'[s] \in Nat
        BY <2>3 DEF Restrict, LinesInv, Amounts
      <3>3. Amounts'
        BY <2>1, <2>3, <3>2 DEF LinesInv, Amounts
      <3>4. Kept' = (IF log = None THEN 0 ELSE log) + stray + (trimmed + bkp[x]) + rest
        BY <2>1, <2>3 DEF Kept
      <3>5. Kept' = Kept
        <4>1. Kept = (IF log = None THEN 0 ELSE log) + stray + trimmed + sum
          BY DEF Kept
        <4>2. stray \in Nat /\ trimmed \in Nat /\ log \in Nat \union {None}
          BY DEF LinesInv, Amounts
        <4> HIDE DEF rest, sum
        <4> QED
          BY <3>1, <3>2, <3>4, <4>1, <4>2
      <3> QED
        BY <2>1, <3>3, <3>5 DEF LinesInv, Written
    <2> QED
      BY <1>10, <2>2, <2>3 DEF Unlink
  <1>11. CASE OpenLogFile(t)
    <2>1. UNCHANGED <<log, stray, bkp, logged, trimmed, raced>> /\ pc[t] = "open"
      BY <1>11 DEF OpenLogFile
    <2>2. CASE Die /\ UNCHANGED failed
      BY <2>1, <2>2, DieLines
    <2>3. CASE /\ log # None /\ pFile' = "log" /\ buffered' = 0
               /\ GoTo(t, "size") /\ UNCHANGED <<up, curSize, failed>>
      <3>1. \A u \in Thread : ~raced => pc'[u] # "forget"
        BY <1>0, <2>1, <2>3 DEF GoTo, LinesInv, PointerGood, Rotating
      <3>2. Kept' = Kept
        BY <2>1 DEF Kept
      <3> QED
        BY <2>1, <2>3, <3>1, <3>2 DEF LinesInv, Amounts, Written
    <2>4. CASE failed' = TRUE /\ GoTo(t, "idle") /\ UNCHANGED <<up, pFile, buffered, curSize>>
      <3>1. \A u \in Thread : pc'[u] = "forget" => pc[u] = "forget"
        BY <1>0, <2>4 DEF GoTo
      <3> QED
        BY <1>0, <2>1, <2>4, <3>1, QuietLines
    <2> QED
      BY <1>11, <2>2, <2>3, <2>4 DEF OpenLogFile
  <1>12. CASE TakeSize(t)
    <2>1. \A u \in Thread : pc'[u] = "forget" => pc[u] = "forget"
      BY <1>0, <1>12 DEF TakeSize, GoTo
    <2>2. curSize' \in Nat /\ failed' \in BOOLEAN
      BY <1>0, <1>12 DEF TakeSize
    <2> QED
      BY <1>12, <2>1, <2>2, QuietLines DEF TakeSize
  <1> QED
    BY <1>1, <1>2, <1>3, <1>4, <1>5, <1>6, <1>7, <1>8, <1>9, <1>10, <1>11, <1>12 DEF LogStep

LEMMA NextLines == LinesInv /\ [Next]_vars => LinesInv'
  <1> SUFFICES ASSUME LinesInv, [Next]_vars PROVE Amounts' /\ Written'
    BY NextPointer, NextBackups DEF LinesInv
  <1> USE DEF files, history
  <1>1. CASE InitLogger
    <2>1. /\ UNCHANGED <<pc, buffered, log, stray, bkp, logged, trimmed, raced>> /\ log # None
          /\ up' = TRUE /\ pFile' = "log" /\ curSize' = log /\ failed' = FALSE
          /\ \A t \in Thread : pc[t] = "idle"
      BY <1>1 DEF InitLogger, LinesInv, PointerGood
    <2>2. Kept' = Kept
      BY <2>1 DEF Kept
    <2> QED
      BY <2>1, <2>2 DEF LinesInv, Amounts, Written
  <1>2. CASE ClearLogger
    BY <1>2, DieLines DEF ClearLogger
  <1>3. CASE CreateLog
    <2>1. /\ UNCHANGED <<up, pc, pFile, buffered, curSize, stray, bkp, logged, trimmed, failed, raced>>
          /\ log = None /\ log' = 0
      BY <1>3 DEF CreateLog
    <2>2. Kept' = Kept
      BY <2>1, LoggerAssumption DEF Kept
    <2> QED
      BY <2>1, <2>2 DEF LinesInv, Amounts, Written
  <1>4. CASE Tick \/ UNCHANGED vars
    <2>1. /\ UNCHANGED <<up, pc, pFile, log, stray, bkp, logged, trimmed, raced, buffered>>
          /\ UNCHANGED <<failed, curSize>>
      BY <1>4 DEF Tick, vars
    <2>2. failed' \in BOOLEAN /\ curSize' \in Nat
      BY <2>1 DEF LinesInv, Amounts
    <2> QED
      BY <2>1, <2>2, QuietLines
  <1> QED
    BY <1>1, <1>2, <1>3, <1>4, LogStepLines DEF Next

LEMMA LinesInvariance == Spec => []LinesInv
  BY InitLines, NextLines, PTL DEF Spec

\* The variables of the logger keep their types, and no backup has a name of the future.
THEOREM TypeCorrect == Spec => []TypeOK
  BY LinesInvariance, LinesInvImplies, PTL

\* No line that reached a file is lost (Logger and RotateFile, log.c): with any number of
\* threads, limits and rotations, whichever command fails and whenever the daemon dies.
THEOREM LinesCorrect == Spec => []LinesAreKept
  BY LinesInvariance, LinesInvImplies, PTL
=============================================================================
