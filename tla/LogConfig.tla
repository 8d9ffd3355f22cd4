----------------------------- MODULE LogConfig -----------------------------
(***************************************************************************)
(* Config::LoadFromYaml on a thread that owns the configuration, with two  *)
(* variables: "logs", whose listener LogConfInit rebuilds the loggers, and *)
(* a scalar "port" with listeners of its own; and threads that log         *)
(* meanwhile.                                                              *)
(*                                                                         *)
(* The value of "logs" is a sequence of [name, level, appenders], in the   *)
(* order of std::set<LoggerConf>, each name once.                          *)
(***************************************************************************)
EXTENDS Config, Log, LogFormatter

CONSTANTS
    Docs,        \* documents the program loads
    Ports,       \* arguments of SetValue
    MaxLoggers,  \* bound: no document is loaded when there are that many objects,
    MaxAppenders \* or one of them has that many appenders

\* "nofile" stands for a file appender without a path and for unknown types.
Types == {"std", "file", "nofile"}
UsedTypes == {"std", "file"}

\* A std::set<LoggerConf>: every name once.
LogSet(s) ==
    /\ s \in Seq([name : Names, level : 0 .. 5, appenders : Seq(Types)])
    /\ \A i, j \in DOMAIN s : s[i].name = s[j].name => i = j

ASSUME DocsAssumption ==
    \A doc \in Docs :
      /\ doc \in Seq({doc[i] : i \in DOMAIN doc})
      /\ \A i \in DOMAIN doc : doc[i].key = "logs" => LogSet(doc[i].val)

VARIABLES
    port,        \* the scalar variable
    logs,        \* value_ of "logs"
    list,        \* the nodes LoadFromYaml has not come to yet
    at,          \* where a SetValue of "logs" is
    lg,          \* the listener's lg
    status,      \* "ok", "thrown" (LoadFromYaml was left) or "null" (crash)
    torn,        \* history: the latest change of "logs" was left by an exception
    strays       \* history: the names of loggers that such a change has left behind

cfgVars == <<port, logs, list, at, lg, status, torn, strays>>
vars == <<logVars, cfgVars>>

RootConf == [name |-> "root", level |-> 5, appenders |-> <<"std">>]

\* pc: what the listener or SetValue does next, "idle" outside of a SetValue;
\* i: the element of old_val or new_val it is at; j: the one of its appenders_;
\* new: new_val.
Position(pc, i, j, new) == [pc |-> pc, i |-> i, j |-> j, new |-> new]
Resting == Position("idle", 0, 0, <<>>)

\* LogConfInit stores the value before it adds the listener.
Init ==
    /\ LogInit
    /\ port = NewVar
    /\ logs = <<RootConf>>
    /\ list = <<>> /\ at = Resting /\ lg = 0 /\ status = "ok"
    /\ torn = FALSE /\ strays = {}

-----------------------------------------------------------------------------
(* The listener: the heads of its three loops, then its steps.             *)

ToNew(new, i) ==
    IF i <= Len(new) THEN Position("new", i, 0, new) ELSE Position("store", 0, 0, new)

ToDel(new, i) ==
    IF i <= Len(logs) THEN Position("del", i, 0, new) ELSE ToNew(new, 1)

ToRoot(new, i) ==
    IF new[i].name = "root" THEN Position("root", i, 0, new) ELSE ToNew(new, i + 1)

ToAppender(new, i, j) ==
    IF j <= Len(new[i].appenders) THEN Position("appender", i, j, new)
    ELSE ToRoot(new, i)

\* SetValue: nothing if the value is the same.
SetLogs(new) == at' = IF new = logs THEN Resting ELSE ToDel(new, 1)

\* At the step pc.  No message that is under way is undisturbed from here on.
Reaches(pc) ==
    /\ at.pc = pc
    /\ threads' = [t \in Threads |-> [threads[t] EXCEPT !.calm = FALSE]]
    /\ UNCHANGED port

\* The step goes well.
Does(pc) == Reaches(pc) /\ UNCHANGED <<list, status>>

\* All old names are deleted first, those that stay among them.
DelOld ==
    /\ Does("del")
    /\ DelLogger(logs[at.i].name)
    /\ strays' = strays \ {logs[at.i].name}
    /\ at' = ToDel(at.new, at.i + 1)
    /\ UNCHANGED <<heap, root, logs, lg, torn>>

\* Mutant: root_ is replaced before the new logger has its appenders.
AddNewAsRoot ==
    LET name == at.new[at.i].name
    IN  /\ Does("new")
        /\ NewLogger(name)
        /\ lg' = loggers'[name]
        /\ root' = IF name = "root" THEN lg' ELSE root
        /\ at' = Position("level", at.i, 0, at.new)
        /\ UNCHANGED <<logs, torn, strays>>

AddNew ==
    LET name == at.new[at.i].name
    IN  /\ Does("new")
        /\ NewLogger(name)
        /\ lg' = loggers'[name]
        /\ at' = Position("level", at.i, 0, at.new)
        /\ UNCHANGED <<root, logs, torn, strays>>

SetMaxLevel ==
    /\ Does("level")
    /\ heap' = [heap EXCEPT ![lg].max = at.new[at.i].level]
    /\ at' = ToAppender(at.new, at.i, 1)
    /\ UNCHANGED <<loggers, root, logs, lg, torn, strays>>

AddAppender ==
    LET a == at.new[at.i].appenders[at.j]
    IN  /\ Does("appender")
        /\ heap' = IF a \in UsedTypes THEN [heap EXCEPT ![lg].appenders = Append(@, a)] ELSE heap
        /\ at' = ToAppender(at.new, at.i, at.j + 1)
        /\ UNCHANGED <<loggers, root, logs, lg, torn, strays>>

\* The constructor of a file appender throws (std::filesystem): the exception
\* leaves the listener, SetValue before its store, and LoadFromYaml.
AppenderThrows ==
    /\ Reaches("appender")
    /\ at.new[at.i].appenders[at.j] = "file"
    /\ torn' = TRUE
    /\ strays' = strays \cup {at.new[k].name : k \in 1 .. at.i}
    /\ at' = Resting /\ lg' = 0
    /\ list' = <<>> /\ status' = "thrown"
    /\ UNCHANGED <<heap, loggers, root, logs>>

SetRoot ==
    /\ Does("root")
    /\ root' = lg
    /\ at' = ToNew(at.new, at.i + 1)
    /\ UNCHANGED <<heap, loggers, logs, lg, torn, strays>>

\* Mutant: the old names are deleted last.
StoreDelLast ==
    /\ Does("store")
    /\ loggers' = [n \in Names |->
         IF \E i \in DOMAIN logs : logs[i].name = n THEN 0 ELSE loggers[n]]
    /\ logs' = at.new /\ lg' = 0 /\ torn' = FALSE
    /\ at' = Resting
    /\ UNCHANGED <<heap, root, strays>>

\* The listener is back: value_ = val.
Store ==
    /\ Does("store")
    /\ logs' = at.new /\ lg' = 0 /\ torn' = FALSE
    /\ at' = Resting
    /\ UNCHANGED <<heap, loggers, root, strays>>

ListenerStep ==
    DelOld \/ AddNew \/ SetMaxLevel \/ AddAppender \/ AppenderThrows \/ SetRoot \/ Store

-----------------------------------------------------------------------------
(* The thread that owns the configuration.                                 *)

Free == at.pc = "idle" /\ list = <<>> /\ status # "null"

LoadFromYaml(doc) ==
    /\ Free /\ Len(heap) < MaxLoggers
    /\ \A x \in DOMAIN heap : Len(heap[x].appenders) < MaxAppenders
    /\ list' = YamlToList(doc)
    /\ status' = "ok"
    /\ UNCHANGED <<logVars, port, logs, at, lg, torn, strays>>

\* One turn of its loop.
LoadNode ==
    /\ at.pc = "idle" /\ list # <<>>
    /\ LET n == Head(list)
           known == {"logs"} \cup (IF port.type = "none" THEN {} ELSE {"port"})
           outcome == NodeOutcome(n, known)
           result == IF outcome = "set" /\ n.key = "port" THEN SetValue(port, n.val)
                     ELSE [var |-> port, thrown |-> outcome = "throws"]
       IN  /\ port' = result.var
           /\ status' = IF result.thrown THEN "thrown"
                        ELSE IF outcome = "null" THEN "null" ELSE "ok"
           /\ list' = IF status' = "ok" THEN Tail(list) ELSE <<>>
           /\ IF outcome = "set" /\ n.key = "logs" THEN SetLogs(n.val)
              ELSE UNCHANGED at
    /\ UNCHANGED <<logVars, logs, lg, torn, strays>>

\* The program's own calls on the scalar variable.
UsePort(new) ==
    Free /\ port' = new /\ UNCHANGED <<logVars, logs, list, at, lg, status, torn, strays>>

PortCalls ==
    \/ UsePort(Lookup(port, "int", 0))
    \/ /\ port.type # "none"
       /\ \/ \E v \in Ports : UsePort(SetValue(port, v).var)
          \/ \E k \in Keys, kind \in Kinds : UsePort(AddListener(port, k, kind))
          \/ \E k \in Keys : UsePort(GetListener(port, k))
          \/ \E k \in Keys : UsePort(DelListener(port, k))
          \/ UsePort(ClearListener(port))

LogCalls ==
    \E t \in Threads :
      \/ \E via \in Vias, level \in Levels : LogCheck(t, via, level, at.pc = "idle")
      \/ LogArgument(t)
      \/ LogWrite(t)

Next ==
    \/ ListenerStep
    \/ \E doc \in Docs : LoadFromYaml(doc)
    \/ LoadNode
    \/ PortCalls
    \/ LogCalls /\ UNCHANGED cfgVars

Spec == Init /\ [][Next]_vars

-----------------------------------------------------------------------------
\* The appenders that a logger has when it is built.
Used(appenders) == Kept(appenders, UsedTypes)[Len(appenders)]

\* A message through SYLAR_LOG_ROOT always finds a logger with an appender, in
\* whatever moment of a reload it comes and however many reloads have failed half
\* way: root_ is replaced by a logger that has its appenders, and stays when a
\* configuration has no root.  (Every root of the documents has an appender that
\* is used.)
RootSpeaks ==
    \A t \in Threads :
      threads[t].via = "GetRoot" => threads[t].out \notin {"lost", "thrown"}

\* A message to a logger of the configuration finds no appender, or its GetLogger
\* throws, only when a reload ran between the three evaluations of the macro's
\* argument or around them, when the latest reload was left by an exception, or
\* when the logger has no appender that is used.  One reload that succeeds is
\* enough to be heard again.
LostOnlyInReload ==
    \A t \in Threads, i \in DOMAIN logs :
      /\ threads[t].calm /\ threads[t].via = logs[i].name /\ ~torn
      /\ threads[t].out \in {"lost", "thrown"}
      => threads[t].out = "lost" /\ Used(logs[i].appenders) = <<>>

\* After a load that succeeds the manager has the configured loggers, each with
\* its level and its appenders once, whatever came before, and besides them only
\* loggers that a failed load has left behind: such a logger stays until a
\* configuration with its name is replaced, and while it is configured it has its
\* earlier appenders too.  Between a failed load and the next that succeeds the
\* manager has these leftovers alone.
LoggersMatchConfig ==
    at.pc = "idle" =>
      /\ \A n \in Names :
           loggers[n] # 0 <=> n \in strays \/ (~torn /\ \E i \in DOMAIN logs : logs[i].name = n)
      /\ ~torn => \A i \in DOMAIN logs :
           LET obj == heap[loggers[logs[i].name]]
           IN  /\ obj.name = logs[i].name /\ obj.max = logs[i].level
               /\ obj.name \notin strays => obj.appenders = Used(logs[i].appenders)

\* What a listener was last told is the value, unless a listener has thrown or
\* set the value itself during the latest change.
ObserversAgree ==
    port.crossed \/ \A k \in Keys : port.told[k] \in {None, port.value}

Pieces == {Lit("-"), Lit("x"), Lit("%"), Item(<<"m">>, <<>>), Item(<<"d">>, <<>>),
           Item(<<"d">>, <<"%", "x">>)}

\* The formatter of an appender has the pieces the pattern was made of, in order,
\* except for the text after the last item, which LogFormatter::Init never
\* stores.  (Looked at while nothing has happened yet.)
PatternsParsed ==
    port = NewVar /\ threads = [t \in Threads |-> Idle] =>
      \A n \in 0 .. 4 : \A pieces \in [1 .. n -> Pieces] :
        Separable(pieces) =>
          Items(PatternOf(pieces)) = SubSeq(pieces, 1, LastItem(pieces))
=============================================================================
