---------------------------- MODULE LoggingProofs ---------------------------
(***************************************************************************)
(* What a step of a thread in DousiLog keeps true, for the modules that    *)
(* say which threads log.                                                  *)
(***************************************************************************)
EXTENDS Logging, TLAPS

(* A thread that does not log.                                             *)
LEMMA IdleLogType == IdleLog \in [at : LogSteps, severity : LOG_LEVEL]
BY DEF IdleLog, LogSteps, LOG_LEVEL, DEBUG, NOLEVEL

(* The types hold before anything is logged.                               *)
LEMMA LogInitType == LogInit => LogTypeOK
<1>1. NOLEVEL \in LOG_LEVEL
    BY DEF LOG_LEVEL, DEBUG, NOLEVEL
<1> QED BY <1>1, IdleLogType DEF LogInit, LogTypeOK

(* The steps of StartDousiLog and of a log statement keep the types.       *)
LEMMA LogTypeStep ==
  ASSUME LogTypeOK, NEW t \in LogThreads, NEW level \in LOG_LEVEL,
         \/ StartDousiLog(t, level) \/ DousiLog(t, level)
         \/ StartNext(t) \/ StatementNext(t)
  PROVE  LogTypeOK'
<1> USE DEF LogTypeOK, LogSteps, StartSteps
<1>1. ASSUME NEW place \in LogSteps, Goto(t, place)
      PROVE  log' \in [LogThreads -> [at : LogSteps, severity : LOG_LEVEL]]
    BY <1>1, IdleLogType DEF Goto
<1>2. CASE StartDousiLog(t, level)
    BY <1>2 DEF StartDousiLog
<1>3. CASE DousiLog(t, level)
    BY <1>3 DEF DousiLog, loggerVars
<1>4. CASE StartNext(t)
    <2>1. CASE CheckProvider(t)
        BY <1>1, <2>1 DEF CheckProvider, loggerVars
    <2>2. CASE CreateLogger(t)
        BY <1>1, <2>2 DEF CreateLogger
    <2>3. CASE CreateThrows(t)
        BY <1>1, <2>3 DEF CreateThrows
    <2>4. CASE AssignProvider(t)
        BY <1>1, <2>4 DEF AssignProvider
    <2> QED BY <1>4, <2>1, <2>2, <2>3, <2>4 DEF StartNext
<1>5. CASE StatementNext(t)
    <2>1. CASE Construct(t)
        BY <1>1, <2>1 DEF Construct, loggerVars
    <2>2. CASE Emit(t)
        BY <1>1, <2>2 DEF Emit
    <2> QED BY <1>5, <2>1, <2>2 DEF StatementNext
<1> QED BY <1>2, <1>3, <1>4, <1>5

-----------------------------------------------------------------------------
(* Thread t is inside StartDousiLog, or inside a log statement.            *)
Starting(t) == log[t].at \in StartSteps
Logs(t)     == log[t].at \in {"construct", "emit"}

(* A logger is there, or one of the two things has happened that excuse    *)
(* its absence.                                                            *)
LoggerOrExcuse == logging_provider = "set" \/ open_failed \/ raced

(* While there is no logger, two threads in StartDousiLog have raced; and  *)
(* if its name is taken, then by a thread that is about to assign it.      *)
FirstStart ==
  logging_provider = "null" =>
    /\ \A t, u \in LogThreads : t # u /\ Starting(t) /\ Starting(u) => raced
    /\ dousi_log => \E t \in LogThreads : log[t].at = "assign"

(* What a step of a thread in DousiLog does to the others: they stay where *)
(* they are, and keep their logger or excuse.                              *)
OthersKept(t) ==
  /\ FirstStart'
  /\ LoggerOrExcuse => LoggerOrExcuse'
  /\ \A u \in LogThreads \ {t} : log'[u] = log[u]

(* Where Goto takes a thread.                                              *)
LEMMA GotoGoes ==
  ASSUME LogTypeOK, NEW t \in LogThreads, NEW place \in LogSteps, Goto(t, place)
  PROVE  /\ log'[t].at = place
         /\ place = "idle" => log'[t] = IdleLog
         /\ \A u \in LogThreads \ {t} : log'[u] = log[u]
BY DEF Goto, LogTypeOK, IdleLog

(* A thread that enters StartDousiLog.                                     *)
LEMMA StartKeeps ==
  ASSUME LogTypeOK, FirstStart, NEW t \in LogThreads, NEW level \in LOG_LEVEL,
         StartDousiLog(t, level)
  PROVE  OthersKept(t) /\ log'[t].at = "check" /\ process' = process
<1> USE DEF LogTypeOK, StartDousiLog
<1>1. log'[t].at = "check" /\ Idle(t) /\ \A u \in LogThreads \ {t} : log'[u] = log[u]
    OBVIOUS
<1>2. LoggerOrExcuse => LoggerOrExcuse'
    BY DEF LoggerOrExcuse
<1>3. ASSUME logging_provider = "null", NEW u \in LogThreads, NEW w \in LogThreads,
             u # w, Starting(u)', Starting(w)'
      PROVE  raced'
    <2>1. CASE u # t /\ w # t
        BY <1>1, <1>3, <2>1 DEF FirstStart, Starting
    <2>2. CASE u = t \/ w = t
        <3>1. \E x \in LogThreads \ {t} : log[x].at \in StartSteps
            BY <1>1, <1>3, <2>2 DEF Starting
        <3> QED BY <1>3, <3>1
    <2> QED BY <2>1, <2>2
<1>4. ASSUME logging_provider = "null", dousi_log
      PROVE  \E u \in LogThreads : log'[u].at = "assign"
    <2>1. PICK u \in LogThreads : log[u].at = "assign"
        BY <1>4 DEF FirstStart
    <2>2. u # t
        BY <1>1, <2>1 DEF Idle, IdleLog
    <2> QED BY <1>1, <2>1, <2>2
<1>5. FirstStart'
    BY <1>3, <1>4 DEF FirstStart
<1> QED BY <1>1, <1>2, <1>5 DEF OthersKept

(* A thread inside StartDousiLog: when it leaves, there is a logger or an  *)
(* excuse.                                                                 *)
LEMMA StartLeaves ==
  ASSUME LogTypeOK, FirstStart, NEW t \in LogThreads, StartNext(t)
  PROVE  /\ OthersKept(t) /\ process' = process
         /\ Starting(t)
         /\ Starting(t)' \/ (Idle(t)' /\ LoggerOrExcuse')
<1> USE DEF LogSteps, StartSteps
<1>1. ASSUME logging_provider' = logging_provider, raced' = raced,
             Starting(t), \A u \in LogThreads \ {t} : log'[u] = log[u]
      PROVE  logging_provider' = "null" =>
               \A u, w \in LogThreads : u # w /\ Starting(u)' /\ Starting(w)' => raced'
    <2> SUFFICES ASSUME logging_provider = "null", NEW u \in LogThreads, NEW w \in LogThreads,
                        u # w, Starting(u)', Starting(w)'
                 PROVE  raced
        BY <1>1
    <2>1. Starting(u) /\ Starting(w)
        BY <1>1 DEF Starting
    <2> QED BY <2>1 DEF FirstStart
<1>2. CASE CheckProvider(t)
    <2>1. UNCHANGED <<logging_provider, dousi_log, process, open_failed, raced>> /\ Starting(t)
        BY <1>2 DEF CheckProvider, loggerVars, Starting
    <2>2. PICK place \in {"create", "idle"} :
            Goto(t, place) /\ (place = "idle" => logging_provider # "null")
        BY <1>2 DEF CheckProvider
    <2>3. log'[t].at = place /\ (place = "idle" => log'[t] = IdleLog)
            /\ \A u \in LogThreads \ {t} : log'[u] = log[u]
        BY <2>2, GotoGoes
    <2>4. FirstStart'
        <3>1. dousi_log' /\ logging_provider' = "null" => \E u \in LogThreads : log'[u].at = "assign"
            BY <1>2, <2>1, <2>3 DEF FirstStart, CheckProvider
        <3> QED BY <1>1, <2>1, <2>3, <3>1 DEF FirstStart
    <2>5. Starting(t)' \/ (Idle(t)' /\ LoggerOrExcuse')
        BY <2>1, <2>2, <2>3 DEF Starting, Idle, LoggerOrExcuse, LogTypeOK
    <2> QED BY <2>1, <2>3, <2>4, <2>5 DEF OthersKept, LoggerOrExcuse
<1>3. CASE CreateLogger(t)
    <2>1. UNCHANGED <<logging_provider, process, open_failed, raced>> /\ Starting(t)
        BY <1>3 DEF CreateLogger, Starting
    <2>2. log'[t].at = "assign" /\ \A u \in LogThreads \ {t} : log'[u] = log[u]
        BY <1>3, GotoGoes DEF CreateLogger
    <2>3. FirstStart'
        BY <1>1, <2>1, <2>2 DEF FirstStart
    <2> QED BY <2>1, <2>2, <2>3 DEF OthersKept, LoggerOrExcuse, Starting
<1>4. CASE CreateThrows(t)
    <2>1. UNCHANGED <<logging_provider, dousi_log, process, raced>> /\ Starting(t)
            /\ (open_failed => open_failed')
        BY <1>4 DEF CreateThrows, Starting
    <2>2. log'[t] = IdleLog /\ \A u \in LogThreads \ {t} : log'[u] = log[u]
        BY <1>4, GotoGoes DEF CreateThrows
    <2>3. ASSUME logging_provider = "null", dousi_log
          PROVE  raced /\ \E u \in LogThreads : log'[u].at = "assign"
        <3>1. PICK u \in LogThreads : log[u].at = "assign"
            BY <2>3 DEF FirstStart
        <3>2. u # t /\ Starting(u)
            BY <1>4, <3>1 DEF CreateThrows, Starting
        <3> QED BY <2>1, <2>2, <2>3, <3>1, <3>2 DEF FirstStart
    <2>4. FirstStart'
        BY <1>1, <2>1, <2>2, <2>3 DEF FirstStart
    <2>5. LoggerOrExcuse'
        <3>1. ~dousi_log => open_failed'
            BY <1>4, Zenon DEF CreateThrows
        <3>2. logging_provider # "null" => logging_provider = "set"
            BY DEF LogTypeOK
        <3> QED BY <2>1, <2>3, <3>1, <3>2 DEF LoggerOrExcuse
    <2> QED BY <2>1, <2>2, <2>4, <2>5 DEF OthersKept, Idle
<1>5. CASE AssignProvider(t)
    <2>1. logging_provider' = "set" /\ UNCHANGED <<process, open_failed, raced>> /\ Starting(t)
        BY <1>5 DEF AssignProvider, Starting
    <2>2. log'[t] = IdleLog /\ \A u \in LogThreads \ {t} : log'[u] = log[u]
        BY <1>5, GotoGoes DEF AssignProvider
    <2> QED BY <2>1, <2>2 DEF OthersKept, FirstStart, LoggerOrExcuse, Idle
<1> QED BY <1>2, <1>3, <1>4, <1>5 DEF StartNext

(* A log statement moves only its own thread, which neither enters nor     *)
(* leaves StartDousiLog.                                                   *)
LEMMA StatementKeeps ==
  ASSUME LogTypeOK, FirstStart, NEW t \in LogThreads, NEW level \in LOG_LEVEL,
         DousiLog(t, level) \/ StatementNext(t)
  PROVE  /\ OthersKept(t)
         /\ ~Starting(t) /\ ~Starting(t)'
         /\ Logs(t)' => DousiLog(t, level) \/ Logs(t)
         /\ process' # process => Logs(t) /\ logging_provider = "null"
<1> USE DEF LogSteps, StartSteps
<1>1. ASSUME UNCHANGED <<logging_provider, dousi_log, open_failed, raced>>,
             ~Starting(t), ~Starting(t)',
             \A u \in LogThreads \ {t} : log'[u] = log[u]
      PROVE  OthersKept(t)
    <2>1. ASSUME NEW u \in LogThreads, Starting(u) \/ Starting(u)'
          PROVE  log'[u] = log[u]
        BY <1>1, <2>1
    <2>2. ASSUME NEW u \in LogThreads, log[u].at = "assign" PROVE log'[u].at = "assign"
        BY <2>1, <2>2 DEF Starting
    <2>3. ASSUME NEW u \in LogThreads, Starting(u)' PROVE Starting(u)
        BY <2>1, <2>3 DEF Starting
    <2>4. FirstStart'
        BY <1>1, <2>2, <2>3 DEF FirstStart
    <2> QED BY <1>1, <2>4 DEF OthersKept, LoggerOrExcuse
<1>2. CASE DousiLog(t, level)
    BY <1>1, <1>2 DEF DousiLog, loggerVars, Starting, Idle, IdleLog, LogTypeOK
<1>3. CASE Construct(t)
    <2>1. PICK place \in {"emit", "idle"} : Goto(t, place)
        BY <1>3 DEF Construct
    <2>2. log'[t].at = place /\ \A u \in LogThreads \ {t} : log'[u] = log[u]
        BY <2>1, GotoGoes
    <2>3. UNCHANGED <<logging_provider, dousi_log, open_failed, raced, process>> /\ Logs(t)
        BY <1>3 DEF Construct, loggerVars, Logs
    <2> QED BY <1>1, <2>2, <2>3 DEF Starting, Logs
<1>4. CASE Emit(t)
    <2>1. log'[t].at = "idle" /\ \A u \in LogThreads \ {t} : log'[u] = log[u]
        BY <1>4, GotoGoes DEF Emit
    <2>2. UNCHANGED <<logging_provider, dousi_log, open_failed, raced>> /\ Logs(t)
            /\ (process' # process => logging_provider = "null")
        BY <1>4 DEF Emit, Logs
    <2> QED BY <1>1, <2>1, <2>2 DEF Starting, Logs
<1> QED BY <1>2, <1>3, <1>4 DEF StatementNext
=============================================================================
