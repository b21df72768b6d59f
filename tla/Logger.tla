------------------------------- MODULE Logger -------------------------------
(***************************************************************************)
(* The logger of the daemon (pwrapis/src/log.c): any thread writes a line  *)
(* to g_pFile, and the thread whose line makes the file too long rotates   *)
(* it.  Nothing is locked ("todo" at log.c:36), so each access of g_pFile  *)
(* is a step.  The shell command that moves, compresses and stores the     *)
(* file is one step that may fail half way.  A size is a number of lines,  *)
(* and the name of a backup is the second of its rotation.                 *)
(*                                                                         *)
(* The daemon is started by systemd, again and again (RestartSec=5).  The  *)
(* file itself is created by somebody else or not at all: OpenLogFile only *)
(* opens a file that is there.                                             *)
(***************************************************************************)
EXTENDS Naturals, FiniteSets, FiniteSetsExt, Functions

CONSTANTS
    Thread,         \* threads of the daemon that log
    MaxFileSize,    \* a longer file is rotated
    MaxCmpCnt,      \* backups that are kept
    MaxLines,       \* bound: lines ever logged
    MaxTime,        \* bound: seconds
    None

ASSUME LoggerAssumption ==
    /\ MaxFileSize \in Nat
    /\ MaxCmpCnt \in Nat
    /\ MaxLines \in Nat
    /\ MaxTime \in Nat
    /\ None \notin Nat

VARIABLES
    up,         \* the daemon runs
    pc,         \* where each thread is in Logger
    pFile,      \* g_pFile: NULL, the log file, a closed FILE, or a file that was removed
    buffered,   \* lines in the FILE that are not flushed yet
    curSize,    \* g_curSize
    stamp,      \* the name a rotating thread has chosen
    surplus,    \* the backups a rotating thread has still to delete
    log,        \* lines in the log file, None if there is no such file
    stray,      \* lines in files a failed rotation left in the log directory
    bkp,        \* lines of each backup
    now,        \* the time in seconds
    logged,     \* lines that reached a file so far: history
    trimmed,    \* lines in backups that were deleted for space: history
    failed,     \* since the daemon started, a rotation failed: history
    raced       \* two rotations overlapped or chose the same name: history

files == <<log, stray, bkp>>
history == <<logged, trimmed, failed, raced>>
local == <<stamp, surplus>>
vars == <<up, pc, pFile, buffered, curSize, local, files, now, history>>

Init ==
    /\ up = FALSE
    /\ pc = [t \in Thread |-> "idle"]
    /\ pFile = "null" /\ buffered = 0 /\ curSize = 0
    /\ stamp = [t \in Thread |-> 0] /\ surplus = [t \in Thread |-> {}]
    /\ log \in {None, 0} /\ stray = 0 /\ bkp = <<>>
    /\ now = 0
    /\ logged = 0 /\ trimmed = 0 /\ failed = FALSE /\ raced = FALSE

\* The process dies, with its threads and what it has not flushed.
Die ==
    /\ up' = FALSE
    /\ pc' = [t \in Thread |-> "idle"]
    /\ pFile' = "null" /\ buffered' = 0 /\ curSize' = 0
    /\ stamp' = [t \in Thread |-> 0] /\ surplus' = [t \in Thread |-> {}]

GoTo(t, next) == pc' = [pc EXCEPT ![t] = next]

(***************************************************************************)
(* Logger.                                                                 *)
(***************************************************************************)
\* The level and g_pFile are looked at ...
StartLine(t) ==
    /\ up /\ pc[t] = "idle"
    /\ logged + buffered + Cardinality({u \in Thread : pc[u] = "puts"}) < MaxLines
    /\ pFile # "null"
    /\ GoTo(t, "puts")
    /\ UNCHANGED <<up, pFile, buffered, curSize, local, files, now, history>>

\* ... and g_pFile is read again to write the line.  By now it may be NULL or closed.
Puts(t) ==
    /\ pc[t] = "puts"
    /\ \/ /\ pFile \in {"log", "removed"}
          /\ buffered' = buffered + 1
          /\ GoTo(t, "flush")
          /\ UNCHANGED <<up, pFile, curSize, local>>
       \/ pFile = "closed" /\ GoTo(t, "idle") /\ UNCHANGED <<up, pFile, buffered, curSize, local>>
       \/ pFile \in {"closed", "null"} /\ Die
    /\ UNCHANGED <<files, now, history>>

\* The buffered lines of all threads go to the file, if it is still there.
WriteOut ==
    /\ log' = IF pFile = "log" THEN log + buffered ELSE log
    /\ logged' = logged + buffered
    /\ buffered' = 0

\* Flushing NULL flushes everything; flushing a closed file is undefined.
Flush(t) ==
    /\ pc[t] = "flush"
    /\ \/ pFile # "closed" /\ WriteOut /\ GoTo(t, "add") /\ UNCHANGED <<up, pFile, curSize, local>>
       \/ /\ pFile = "closed"
          /\ GoTo(t, "idle")
          /\ UNCHANGED <<up, pFile, buffered, curSize, local, log, logged>>
       \/ pFile = "closed" /\ Die /\ UNCHANGED <<log, logged>>
    /\ UNCHANGED <<stray, bkp, now, trimmed, failed, raced>>

\* g_curSize += logLen loses a line when two threads do it at once.
AddSize(t) ==
    /\ pc[t] = "add"
    /\ \/ curSize' = curSize + 1
       \/ curSize' = curSize /\ \E u \in Thread \ {t} : pc[u] = "add"
    /\ GoTo(t, IF curSize' > MaxFileSize THEN "rotate" ELSE "idle")
    /\ UNCHANGED <<up, pFile, buffered, local, files, now, history>>

(***************************************************************************)
(* RotateFile.                                                             *)
(***************************************************************************)
Rotating == {t \in Thread : pc[t] \in {"close", "forget", "command", "trim", "delete", "open", "size"}}

\* if (g_pFile != NULL)
StartRotation(t) ==
    /\ pc[t] = "rotate"
    /\ GoTo(t, IF pFile = "null" THEN "command" ELSE "close")
    /\ stamp' = [stamp EXCEPT ![t] = now]
    /\ raced' = (raced \/ Rotating # {})
    /\ UNCHANGED <<up, pFile, buffered, curSize, surplus, files, now, logged, trimmed, failed>>

\* fclose(g_pFile), which another thread may have closed or forgotten in the meantime.
CloseFile(t) ==
    /\ pc[t] = "close"
    /\ \/ /\ pFile # "null"
          /\ pFile' = "closed"
          /\ WriteOut
          /\ GoTo(t, "forget")
          /\ UNCHANGED <<up, curSize, local>>
       \/ pFile \in {"closed", "null"} /\ Die /\ UNCHANGED <<log, logged>>
    /\ UNCHANGED <<stray, bkp, now, trimmed, failed, raced>>

\* g_pFile = NULL, and the name is made from the time.
ForgetFile(t) ==
    /\ pc[t] = "forget"
    /\ pFile' = "null"
    /\ stamp' = [stamp EXCEPT ![t] = now]
    /\ GoTo(t, "command")
    /\ UNCHANGED <<up, buffered, curSize, surplus, files, now, history>>

\* The file leaves the log directory; whoever has it open writes to it in vain.
MoveAway == log' = None /\ pFile' = IF pFile = "log" THEN "removed" ELSE pFile

RunCommand_RemovesAnyway(t) ==
    /\ pc[t] = "command"
    /\ \/ /\ log # None
          /\ MoveAway
          /\ bkp' = [s \in DOMAIN bkp \union {stamp[t]} |-> IF s = stamp[t] THEN log ELSE bkp[s]]
          /\ raced' = (raced \/ stamp[t] \in DOMAIN bkp)
          /\ GoTo(t, "trim")
          /\ UNCHANGED <<stray, failed>>
       \/ /\ log # None
          /\ MoveAway
          /\ failed' = TRUE
          /\ GoTo(t, "idle")
          /\ UNCHANGED <<stray, bkp, raced>>
    /\ UNCHANGED <<up, buffered, curSize, local, now, logged, trimmed>>

\* "cd && mv && tar && rm && mv": the log file becomes a backup; or the command fails after
\* the first mv and leaves the lines in the log directory; or it fails at once.
RunCommand(t) ==
    /\ pc[t] = "command"
    /\ \/ /\ log # None
          /\ MoveAway
          /\ bkp' = [s \in DOMAIN bkp \union {stamp[t]} |-> IF s = stamp[t] THEN log ELSE bkp[s]]
          /\ raced' = (raced \/ stamp[t] \in DOMAIN bkp)
          /\ GoTo(t, "trim")
          /\ UNCHANGED <<stray, failed>>
       \/ /\ log # None
          /\ MoveAway
          /\ stray' = stray + log
          /\ failed' = TRUE
          /\ GoTo(t, "idle")
          /\ UNCHANGED <<bkp, raced>>
       \/ /\ failed' = TRUE
          /\ GoTo(t, "idle")
          /\ UNCHANGED <<files, pFile, raced>>
    /\ UNCHANGED <<up, buffered, curSize, local, now, logged, trimmed>>

Oldest_TooMany == {s \in DOMAIN bkp : Cardinality({r \in DOMAIN bkp : r > s}) + 1 >= MaxCmpCnt}

\* The names sorted, all but the last MaxCmpCnt.
Oldest == {s \in DOMAIN bkp : Cardinality({r \in DOMAIN bkp : r > s}) >= MaxCmpCnt}

\* SpaceChkAndDel reads the directory, once, ...
SpaceChkAndDel(t) ==
    /\ pc[t] = "trim"
    /\ surplus' = [surplus EXCEPT ![t] = Oldest]
    /\ GoTo(t, "delete")
    /\ UNCHANGED <<up, pFile, buffered, curSize, stamp, files, now, history>>

\* ... and deletes one file after the other, from the newest that is too many to the oldest.
\* An unlink may fail, or find nothing any more.
Unlink(t) ==
    /\ pc[t] = "delete" /\ surplus[t] # {}
    /\ LET s == Max(surplus[t])
       IN  /\ \/ /\ s \in DOMAIN bkp
                /\ bkp' = Restrict(bkp, DOMAIN bkp \ {s})
                /\ trimmed' = trimmed + bkp[s]
             \/ UNCHANGED <<bkp, trimmed>>
           /\ surplus' = [surplus EXCEPT ![t] = @ \ {s}]
    /\ UNCHANGED <<up, pc, pFile, buffered, curSize, stamp, log, stray, now, logged, failed, raced>>

DeletedAll(t) ==
    /\ pc[t] = "delete" /\ surplus[t] = {}
    /\ GoTo(t, "open")
    /\ UNCHANGED <<up, pFile, buffered, curSize, local, files, now, history>>

OpenLogFile_IgnoresMissing(t) ==
    /\ pc[t] = "open"
    /\ GoTo(t, IF log = None THEN "idle" ELSE "size")
    /\ pFile' = IF log = None THEN pFile ELSE "log"
    /\ UNCHANGED <<up, buffered, curSize, local, files, now, history>>

\* OpenLogFile resolves the name before it opens the file, and dies in strlen(NULL) if
\* there is none; a file it may not write to is a failure of the rotation.
OpenLogFile(t) ==
    /\ pc[t] = "open"
    /\ \/ log = None /\ Die /\ UNCHANGED failed
       \/ /\ log # None
          /\ pFile' = "log" /\ buffered' = 0
          /\ GoTo(t, "size")
          /\ UNCHANGED <<up, curSize, local, failed>>
       \/ /\ log # None
          /\ failed' = TRUE
          /\ GoTo(t, "idle")
          /\ UNCHANGED <<up, pFile, buffered, curSize, local>>
    /\ UNCHANGED <<files, now, logged, trimmed, raced>>

TakeSize_Unchecked(t) ==
    /\ pc[t] = "size"
    /\ curSize' = log
    /\ GoTo(t, "idle")
    /\ UNCHANGED <<up, pFile, buffered, local, files, now, history>>

\* g_curSize = st.st_size, if the file has not been moved away.
TakeSize(t) ==
    /\ pc[t] = "size"
    /\ curSize' = IF log = None THEN curSize ELSE log
    /\ failed' = (failed \/ log = None)
    /\ GoTo(t, "idle")
    /\ UNCHANGED <<up, pFile, buffered, local, files, now, logged, trimmed, raced>>

LogStep(t) ==
    \/ StartLine(t)
    \/ Puts(t)
    \/ Flush(t)
    \/ AddSize(t)
    \/ StartRotation(t)
    \/ CloseFile(t)
    \/ ForgetFile(t)
    \/ RunCommand(t)
    \/ SpaceChkAndDel(t)
    \/ Unlink(t)
    \/ DeletedAll(t)
    \/ OpenLogFile(t)
    \/ TakeSize(t)

(***************************************************************************)
(* The daemon's life, and what others do.                                  *)
(***************************************************************************)
\* InitLogger at the start: without a log file the daemon dies before it is up.
InitLogger ==
    /\ ~up
    /\ log # None
    /\ up' = TRUE
    /\ pFile' = "log" /\ curSize' = log
    /\ failed' = FALSE
    /\ UNCHANGED <<pc, buffered, local, files, now, logged, trimmed, raced>>

\* ClearLogger when the daemon stops, or the daemon dies of something else.
ClearLogger ==
    /\ up
    /\ Die
    /\ UNCHANGED <<files, now, history>>

\* Somebody creates the log file.
CreateLog ==
    /\ log = None
    /\ log' = 0
    /\ UNCHANGED <<up, pc, pFile, buffered, curSize, local, stray, bkp, now, history>>

Tick ==
    /\ now < MaxTime
    /\ now' = now + 1
    /\ UNCHANGED <<up, pc, pFile, buffered, curSize, local, files, history>>

Next ==
    \/ \E t \in Thread : LogStep(t)
    \/ InitLogger
    \/ ClearLogger
    \/ CreateLog
    \/ Tick

Spec == Init /\ [][Next]_vars

(***************************************************************************)
(* Properties.                                                             *)
(***************************************************************************)
LoggerPc == {"idle", "puts", "flush", "add", "rotate", "close", "forget", "command", "trim",
             "delete", "open", "size"}

TypeOK ==
    /\ up \in BOOLEAN
    /\ pc \in [Thread -> LoggerPc]
    /\ pFile \in {"null", "log", "closed", "removed"}
    /\ buffered \in Nat
    /\ curSize \in Nat
    /\ stamp \in [Thread -> Nat]
    /\ surplus \in [Thread -> SUBSET (0 .. now)]
    /\ log \in Nat \union {None}
    /\ stray \in Nat
    /\ DOMAIN bkp \subseteq 0 .. now /\ \A s \in DOMAIN bkp : bkp[s] \in Nat
    /\ now \in Nat
    /\ logged \in Nat
    /\ trimmed \in Nat
    /\ failed \in BOOLEAN
    /\ raced \in BOOLEAN

\* Every line that reached a file is in the log file, in what a failed rotation left beside it, in a
\* backup, or was in a backup deleted for space, whichever command of a rotation fails and
\* whenever the daemon dies: unless two threads rotate at once, or within a second.
LinesAreKept ==
    ~raced => logged = (IF log = None THEN 0 ELSE log) + stray + trimmed
                       + SumFunctionOnSet(bkp, DOMAIN bkp)

\* The daemon logs on: while it runs, g_pFile is the log file except during a rotation and
\* after one that failed, whatever other threads log or rotate.  Rotations that race may
\* leave it at a file that has been removed, but not at NULL.
SilentOnlyAfterFailure ==
    (up /\ ~failed /\ Rotating = {}) => pFile = "log" \/ (raced /\ pFile = "removed")

\* "Release space by deleting the earlier compressed files" (log.c:79): a backup goes only
\* while MaxCmpCnt newer ones stay, though several threads work off lists of different age,
\* make backups meanwhile, fail to delete some, or die between two and leave older ones.
NewestAreKept ==
    [][\A s \in DOMAIN bkp \ DOMAIN bkp' :
          Cardinality({r \in DOMAIN bkp' : r > s}) >= MaxCmpCnt]_vars

\* "Create new log file" (log.c:135): the rotation whose commands succeeded opens a new log
\* file in the end, or gives up, and the daemon goes on either way.
RotationCreatesLog == [][\A t \in Thread : OpenLogFile(t) => up']_vars
=============================================================================
