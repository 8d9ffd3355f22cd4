----------------------------- MODULE MCLogConfig ----------------------------
(* Instances of LogConfig for TLC. *)
EXTENDS LogConfig

Conf1(name, level, appenders) ==
    [name |-> name, level |-> level, appenders |-> appenders]
Node(key, val) == [key |-> key, upper |-> FALSE, valid |-> TRUE,
                   scalar |-> key = "port", bad |-> FALSE, val |-> val]

\* Configurations with and without root, with a logger that stays, changes or
\* goes, and one whose appenders are not used.
Logs1 == <<Conf1("net", 4, <<"std", "file">>), Conf1("root", 3, <<"file">>)>>
Logs2 == <<Conf1("net", 2, <<"nofile">>)>>

\* A change of both variables, in either order; one that fails between the two;
\* a path that is left out, and one in upper case.
SmallDocs ==
    {<<Node("logs", Logs1), Node("port", 2)>>,
     <<Node("port", 1), Node("logs", Logs2)>>,
     <<Node("logs", <<RootConf>>), [Node("port", 0) EXCEPT !.bad = TRUE],
       Node("logs", Logs2)>>,
     <<[Node("logs", Logs2) EXCEPT !.valid = FALSE], Node("host", 0),
       [Node("port", 2) EXCEPT !.upper = TRUE]>>}
=============================================================================
