------------------------------- MODULE Config -------------------------------
(***************************************************************************)
(* The configuration of the daemon (pwrapis/src/config.c), which the main  *)
(* thread (main_frame.c) loads at the start and then polls: when the md5   *)
(* of the file has changed, the file is read again.  The file is written   *)
(* by others at any time, and may be missing for a while, for instance     *)
(* while an editor replaces it.  The md5 of a file stands for its content. *)
(* Its specification is called ConfigSpec, for those who take this module  *)
(* together with TaskService and Daemon.                                   *)
(***************************************************************************)
EXTENDS Naturals, Sequences, FiniteSetsExt

CONSTANTS
    Contents,       \* what the file may contain: sequences of lines, key = value
    Value,          \* values in the file: numbers and words
    Existing,       \* names of files that exist
    Default,        \* the values of InitLogCfg and InitServCfg
    None

Dynamic == {"file_size", "cmp_cnt", "log_level"}
Fixed == {"log_path", "bak_log_path", "log_pfx", "port", "sock_file"}
Item == Dynamic \union Fixed

MAX_SERVER_PORT == 65535

\* Comments, empty lines and lines without key or value are left out.  A key that is none
\* of the Items is excluded: StringToEnum then has no return value.
ASSUME ConfigAssumption ==
    /\ Contents \subseteq Seq([key : Item, value : Value])
    /\ DOMAIN Default = Item
    /\ None \notin Contents

VARIABLES
    file,           \* the content of the file at g_configPath, None if it is missing
    past,           \* contents the file has had: history
    pc,             \* where the main thread is
    cfg,            \* g_logCfg and g_servCfg
    lastMd5,        \* g_lastMd5
    curMd5,         \* curMd5 of CheckAndUpdateConfig
    loaded          \* what LoadConfigFile read at the last start: history

configVars == <<file, past, pc, cfg, lastMd5, curMd5, loaded>>

ConfigInit ==
    /\ file \in Contents
    /\ past = {}
    /\ pc = "off"
    /\ cfg = Default
    /\ lastMd5 = None /\ curMd5 = None /\ loaded = None

\* The file is written, removed, or created.
ChangeFile ==
    /\ file' \in (Contents \union {None}) \ {file}
    /\ past' = past \union ({file} \ {None})
    /\ UNCHANGED <<pc, cfg, lastMd5, curMd5, loaded>>

(***************************************************************************)
(* The start.                                                              *)
(***************************************************************************)
\* systemd starts the daemon, and UpdateConfigPath finds the file.
Start ==
    /\ pc = "off" /\ file # None
    /\ pc' = "init"
    /\ UNCHANGED <<file, past, cfg, lastMd5, curMd5, loaded>>

\* The process is gone: by a signal, or because something else failed.
Killed ==
    /\ pc # "off"
    /\ pc' = "off"
    /\ UNCHANGED <<file, past, cfg, lastMd5, curMd5, loaded>>

\* InitConfig: the md5 first.
InitMd5 ==
    /\ pc = "init" /\ file # None
    /\ lastMd5' = file
    /\ pc' = "load"
    /\ UNCHANGED <<file, past, cfg, curMd5, loaded>>

\* UpdateLogCfg and UpdateServCfg.
ValidAtLoad(line) ==
    CASE line.key \in {"file_size", "cmp_cnt"} -> line.value \in Nat /\ line.value # 0
      [] line.key = "log_level" -> line.value \in Nat
      [] line.key = "port" -> line.value \in 0 .. MAX_SERVER_PORT
      [] line.key = "sock_file" -> line.value \in Existing
      [] OTHER -> TRUE

\* What the lines taken from f, one after the other, make of the configuration c.  Whether
\* a line is taken does not depend on the others and each sets its own item only, so the
\* last one taken for an item counts.
Updated(c, f, taken) ==
    [k \in Item |->
        LET own == {l \in taken : f[l].key = k}
        IN  IF own = {} THEN c[k] ELSE f[Max(own)].value]

\* What a start makes of the file: the defaults, then its lines.
Loaded(f) == Updated(Default, f, {l \in DOMAIN f : ValidAtLoad(f[l])})

LoadConfigFile ==
    /\ pc = "load" /\ file # None
    /\ cfg' = Loaded(file)
    /\ loaded' = file
    /\ pc' = "sleep"
    /\ UNCHANGED <<file, past, lastMd5, curMd5>>

(***************************************************************************)
(* The poll: CheckAndUpdateConfig.                                         *)
(***************************************************************************)
CheckMd5_RecordsEarly ==
    /\ pc = "sleep" /\ file \notin {None, lastMd5}
    /\ curMd5' = file /\ lastMd5' = file
    /\ pc' = "read"
    /\ UNCHANGED <<file, past, cfg, loaded>>

CheckMd5_OnlyOnce ==
    /\ pc = "sleep" /\ file \notin {None, lastMd5} /\ curMd5 = None
    /\ curMd5' = file
    /\ pc' = "read"
    /\ UNCHANGED <<file, past, cfg, lastMd5, loaded>>

CheckMd5 ==
    /\ pc = "sleep" /\ file \notin {None, lastMd5}
    /\ curMd5' = file
    /\ pc' = "read"
    /\ UNCHANGED <<file, past, cfg, lastMd5, loaded>>

ValidInPoll_AllItems(line) == line.key \in Fixed \/ line.value \in Nat

\* UpdateConfig: a number for a dynamic item takes effect, 0 included; what is refused is
\* counted for a result that nobody uses.
ValidInPoll(line) == line.key \in Dynamic /\ line.value \in Nat

ReadConfigFile ==
    /\ pc = "read" /\ file # None
    /\ cfg' = Updated(cfg, file, {l \in DOMAIN file : ValidInPoll(file[l])})
    /\ lastMd5' = curMd5
    /\ pc' = "sleep"
    /\ UNCHANGED <<file, past, curMd5, loaded>>

\* The file is not opened: it went after realpath, or there is no descriptor left.
OpenFails ==
    /\ pc = "read"
    /\ pc' = "sleep"
    /\ UNCHANGED <<file, past, cfg, lastMd5, curMd5, loaded>>

\* Without a file InitConfig finds no md5 and the process exits; later on
\* NormalizeAndVerifyFilepath passes the NULL that realpath returns to strlen, and it dies.
NormalizeMissing ==
    /\ pc \in {"init", "load", "read"} /\ file = None
    /\ pc' = "off"
    /\ UNCHANGED <<file, past, cfg, lastMd5, curMd5, loaded>>

Main == Start \/ InitMd5 \/ LoadConfigFile \/ CheckMd5 \/ ReadConfigFile \/ NormalizeMissing

ConfigNext == ChangeFile \/ Killed \/ OpenFails \/ Main

\* The main thread goes on, and opening the file does not fail for ever.
ConfigFairness == WF_configVars(Main) /\ SF_configVars(ReadConfigFile)

ConfigSpec == ConfigInit /\ [][ConfigNext]_configVars /\ ConfigFairness

(***************************************************************************)
(* Properties.                                                             *)
(***************************************************************************)
\* The dynamic items a content settles: its last number for them is one that a start
\* accepts too (the start refuses a size or a count of 0, the poll does not).
Settles(f) ==
    {k \in Dynamic :
        \E l \in DOMAIN f :
            /\ f[l].key = k /\ f[l].value \in Nat
            /\ k \in {"file_size", "cmp_cnt"} => f[l].value # 0
            /\ \A n \in l + 1 .. Len(f) : f[n].key = k => f[n].value \notin Nat}

\* What is in force is what a restart would load.
InForce(f) == \A k \in Settles(f) : cfg[k] = Loaded(f)[k]

\* The file never went back to what it was before.  If it did between the md5 and the
\* reading, the poll would not notice.
OnlyNewContents == file \notin past

\* When the main thread finds the md5 it knows, the content is in force, whatever happened
\* to the file between the md5 and the reading, and whatever reading failed.
UnchangedIsInForce ==
    (pc = "sleep" /\ file = lastMd5 /\ OnlyNewContents) => InForce(file)

\* A file that stays as it is comes into force, unless the daemon is stopped again and again.
FollowsFile ==
    \A f \in Contents :
        <>[](file = f /\ OnlyNewContents) => ([]<>(pc = "off") \/ <>[]InForce(f))

\* The items the poll may not change stay as the last start loaded them, however often the
\* file changes.
FixedSinceStart ==
    pc \in {"sleep", "read"} => \A k \in Fixed : cfg[k] = Loaded(loaded)[k]
=============================================================================
