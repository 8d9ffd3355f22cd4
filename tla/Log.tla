-------------------------------- MODULE Log --------------------------------
(***************************************************************************)
(* Logger and LoggerManager, and threads that log through the macros.      *)
(*                                                                         *)
(* A logger object is an index of heap; loggers is the manager's map (0    *)
(* for a name it lacks) and root its root_.  The operations under          *)
(* Logger::mu_ and LoggerManager::mu_ are single steps.                    *)
(***************************************************************************)
EXTENDS Integers, Sequences

CONSTANTS
    Threads,   \* threads that log
    Names,     \* logger names, among them "root"
    Levels     \* event levels used, numbers: DEBUG = 1 ... FATAL = 5

ASSUME LogAssumption ==
    "root" \in Names /\ "GetRoot" \notin Names /\ Levels \subseteq 1 .. 5

VARIABLES heap, loggers, root, threads

logVars == <<heap, loggers, root, threads>>

\* Which expression the macro is used with: SYLAR_LOG_ROOT or SYLAR_LOG_NAME.
Vias == Names \cup {"GetRoot"}

\* pc: the next thing the macro does; obj: the wrapper's logger_; calm: history,
\* the configuration has not been touched since the macro began; out: what
\* became of the last message.
Idle == [pc |-> "idle", via |-> "GetRoot", level |-> 1, obj |-> 0, calm |-> FALSE,
         out |-> "none"]

LogInit ==
    /\ heap = <<[name |-> "root", max |-> 5, appenders |-> <<"std">>]>>
    /\ loggers = [n \in Names |-> IF n = "root" THEN 1 ELSE 0]
    /\ root = 1
    /\ threads = [t \in Threads |-> Idle]

-----------------------------------------------------------------------------
(* LoggerManager.                                                          *)

\* The logger of an expression, 0 when GetLogger throws.
Evaluated(via) == IF via = "GetRoot" THEN root ELSE loggers[via]

\* NewLogger returns the logger of that name if there is one.
NewLogger(name) ==
    IF loggers[name] # 0 THEN UNCHANGED <<heap, loggers>>
    ELSE /\ heap' = Append(heap, [name |-> name, max |-> 1, appenders |-> <<>>])
         /\ loggers' = [loggers EXCEPT ![name] = Len(heap) + 1]

\* Mutant: the map is left alone.
DelLoggerNot(name) == UNCHANGED loggers

DelLogger(name) == loggers' = [loggers EXCEPT ![name] = 0]

-----------------------------------------------------------------------------
(* SYLAR_LOG: the macro evaluates its argument three times.                *)

Ends(t, out) == threads' = [threads EXCEPT ![t].pc = "idle", ![t].out = out]

\* logger->GetMaxLevel() >= level
LogCheck(t, via, level, quiet) ==
    LET obj == Evaluated(via)
        start == [Idle EXCEPT !.via = via, !.level = level, !.calm = quiet]
    IN  /\ threads[t].pc = "idle"
        /\ threads' = [threads EXCEPT ![t] =
             IF obj = 0 THEN [start EXCEPT !.out = "thrown"]
             ELSE IF heap[obj].max < level THEN [start EXCEPT !.out = "filtered"]
             ELSE [start EXCEPT !.pc = "wrapper"]]
        /\ UNCHANGED <<heap, loggers, root>>

\* The arguments of LogEventWrapper: logger, and logger->GetName().
LogArgument(t) ==
    LET obj == Evaluated(threads[t].via)
    IN  /\ threads[t].pc \in {"wrapper", "name"}
        /\ IF obj = 0 THEN Ends(t, "thrown")
           ELSE threads' = [threads EXCEPT
                  ![t].pc = IF @ = "wrapper" THEN "name" ELSE "log",
                  ![t].obj = IF threads[t].pc = "wrapper" THEN obj ELSE @]
        /\ UNCHANGED <<heap, loggers, root>>

\* What Logger::Log can make of an event.  A file appender whose file cannot be
\* opened, when it is constructed or again before it writes, drops the event.
Outcomes(lg, level) ==
    IF lg.appenders = <<>> THEN {"lost"}
    ELSE IF lg.max < level THEN {"filtered"}
    ELSE IF \E i \in DOMAIN lg.appenders : lg.appenders[i] = "std" THEN {"written"}
    ELSE {"written", "dropped"}

\* ~LogEventWrapper: Logger::Log gives the event to every appender.
LogWrite(t) ==
    /\ threads[t].pc = "log"
    /\ \E out \in Outcomes(heap[threads[t].obj], threads[t].level) : Ends(t, out)
    /\ UNCHANGED <<heap, loggers, root>>
=============================================================================
