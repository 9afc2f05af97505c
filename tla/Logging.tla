------------------------------- MODULE Logging ------------------------------
(***************************************************************************)
(* DousiLog (common/logging.h and .cc): a threshold and a logger shared by *)
(* every thread of the process, without a lock.  StartDousiLog and a log   *)
(* statement are split where they read or write that shared state, so that *)
(* they interleave as they do in the program.  The text of a message and   *)
(* the file it goes to are left out.                                       *)
(*                                                                         *)
(* The module is open: Server and JavaClient say which threads start the   *)
(* log and what they log.                                                  *)
(***************************************************************************)
EXTENDS Naturals

CONSTANT LogThreads   \* the threads that call StartDousiLog or log

VARIABLES
  severity_threshold_,
  logging_provider,    \* "null" or "set"
  dousi_log,           \* spdlog's registry has a logger of that name
  log,                 \* where each thread is in StartDousiLog or a statement
  process,             \* "running", or why the process ended
  open_failed,         \* history: a log file could not be opened
  raced                \* history: two first StartDousiLog overlapped

loggerVars == <<severity_threshold_, logging_provider, dousi_log>>
logVars == <<severity_threshold_, logging_provider, dousi_log, log, process,
             open_failed, raced>>

(* enum LOG_LEVEL                                                          *)
DEBUG   == 0
INFO    == 1
WARNING == 2
FATAL   == 3
NOLEVEL == 4
LOG_LEVEL == DEBUG .. NOLEVEL

StartSteps == {"check", "create", "assign"}
LogSteps == {"idle", "construct", "emit"} \cup StartSteps

LogTypeOK ==
  /\ severity_threshold_ \in LOG_LEVEL
  /\ logging_provider \in {"null", "set"}
  /\ dousi_log \in BOOLEAN
  /\ log \in [LogThreads -> [at : LogSteps, severity : LOG_LEVEL]]
  /\ open_failed \in BOOLEAN
  /\ raced \in BOOLEAN

IdleLog == [at |-> "idle", severity |-> NOLEVEL]

LogInit ==
  /\ severity_threshold_ = NOLEVEL
  /\ logging_provider = "null"
  /\ dousi_log = FALSE
  /\ log = [t \in LogThreads |-> IdleLog]
  /\ process = "running"
  /\ open_failed = FALSE
  /\ raced = FALSE

Idle(t) == log[t] = IdleLog
Goto(t, place) ==
  log' = [log EXCEPT ![t] = IF place = "idle" THEN IdleLog ELSE [@ EXCEPT !.at = place]]

(* The process ends in the middle of what a thread does.                   *)
ProcessEnds(reason) ==
  /\ process' = reason
  /\ UNCHANGED <<loggerVars, log, open_failed, raced>>

-----------------------------------------------------------------------------
(* StartDousiLog lowers the threshold before it looks for a logger.        *)
StartDousiLog(t, severity) ==
  /\ Idle(t)
  /\ severity_threshold_' = severity
  /\ log' = [log EXCEPT ![t] = [at |-> "check", severity |-> severity]]
  /\ raced' = (raced \/ /\ logging_provider = "null"
                        /\ \E u \in LogThreads \ {t} : log[u].at \in StartSteps)
  /\ UNCHANGED <<logging_provider, dousi_log, process, open_failed>>

(* Mutant: every StartDousiLog makes a new logger, dropping the old one.   *)
CheckProviderRenews(t) ==
  /\ log[t].at = "check"
  /\ logging_provider' = "null"
  /\ dousi_log' = FALSE
  /\ Goto(t, "create")
  /\ UNCHANGED <<severity_threshold_, process, open_failed, raced>>

(* A logger that exists is kept, with its file and its own level.          *)
CheckProvider(t) ==
  /\ log[t].at = "check"
  /\ Goto(t, IF logging_provider = "null" THEN "create" ELSE "idle")
  /\ UNCHANGED <<loggerVars, process, open_failed, raced>>

(* rotating_logger_mt registers the logger under its name ...              *)
CreateLogger(t) ==
  /\ log[t].at = "create"
  /\ ~dousi_log
  /\ dousi_log' = TRUE
  /\ Goto(t, "assign")
  /\ UNCHANGED <<severity_threshold_, logging_provider, process, open_failed, raced>>

(* ... or throws, because the file does not open or the name is taken; the *)
(* exception is caught, printed and forgotten.                             *)
CreateThrows(t) ==
  /\ log[t].at = "create"
  /\ Goto(t, "idle")
  /\ open_failed' = (open_failed \/ ~dousi_log)
  /\ UNCHANGED <<severity_threshold_, logging_provider, dousi_log, process, raced>>

AssignProvider(t) ==
  /\ log[t].at = "assign"
  /\ logging_provider' = "set"
  /\ Goto(t, "idle")
  /\ UNCHANGED <<severity_threshold_, dousi_log, process, open_failed, raced>>

StartNext(t) ==
  /\ process = "running"
  /\ CheckProvider(t) \/ CreateLogger(t) \/ CreateThrows(t) \/ AssignProvider(t)

-----------------------------------------------------------------------------
IsLevelEnabled(level) == level >= severity_threshold_

(* DOUSI_LOG(level): nothing is built for a level that is not enabled.     *)
DousiLog(t, level) ==
  /\ Idle(t)
  /\ log' = IF IsLevelEnabled(level)
              THEN [log EXCEPT ![t] = [at |-> "construct", severity |-> level]]
              ELSE log
  /\ UNCHANGED <<loggerVars, process, open_failed, raced>>

(* The constructor of DousiLog compares with the threshold again.          *)
Construct(t) ==
  /\ log[t].at = "construct"
  /\ Goto(t, IF IsLevelEnabled(log[t].severity) THEN "emit" ELSE "idle")
  /\ UNCHANGED <<loggerVars, process, open_failed, raced>>

(* The destructor logs through logging_provider, without a test for null.  *)
Emit(t) ==
  /\ log[t].at = "emit"
  /\ process' = IF logging_provider = "null" THEN "null logger" ELSE process
  /\ Goto(t, "idle")
  /\ UNCHANGED <<severity_threshold_, logging_provider, dousi_log, open_failed, raced>>

StatementNext(t) ==
  /\ process = "running"
  /\ Construct(t) \/ Emit(t)

-----------------------------------------------------------------------------
(* A message reaches a null logger only if a log file could not be opened  *)
(* or two threads were in their first StartDousiLog at once: no later      *)
(* StartDousiLog, at any level, takes the logger from the threads that     *)
(* are using it.                                                           *)
LoggerKept == process = "null logger" => open_failed \/ raced
=============================================================================
