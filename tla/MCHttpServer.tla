---------------------------- MODULE MCHttpServer ----------------------------
(***************************************************************************)
(* TLC instances of HttpServer.                                            *)
(***************************************************************************)
EXTENDS HttpServer

CONSTANTS k1, k2

KeepAliveHdr == Hdr("Connection", "keep-alive")

\* The handlers of the program: one that answers, and one each for what std::stoi
\* throws for a bad parameter and for one that is too large.
SomeHandlers == {[path |-> "/", method |-> "GET", throws |-> "none"],
                 [path |-> "/add", method |-> "GET", throws |-> "invalid_argument"],
                 [path |-> "/add", method |-> "PUT", throws |-> "out_of_range"]}

EarlyHandlers == {h \in SomeHandlers : h.path = "/add"}

Text(m, p, v, hdrs, body) ==
    <<StartLine(m, p, v), EOL>> \o hdrs \o <<EOL>> \o body

Kept == <<KeepAliveHdr, EOL>>

\* A page; a parameter that does not parse, with a body; a method nobody
\* handles; a version that is not supported; a parameter that is too large.
Page  == [text |-> Text("GET", <<"/">>, "HTTP/1.1", Kept, <<>>),
          cuts |-> {}, status |-> 200, keep_alive |-> TRUE]
Add   == [text |-> Text("GET", <<"/add", "q">>, "HTTP/1.1", Kept, <<Body>>),
          cuts |-> {5}, status |-> 400, keep_alive |-> TRUE]
Probe == [text |-> Text("HEAD", <<"/add">>, "HTTP/1.0", <<>>, <<>>),
          cuts |-> {}, status |-> 405, keep_alive |-> FALSE]
Two   == [text |-> Text("HEAD", <<"/none">>, "HTTP/2.0", Kept, <<>>),
          cuts |-> {}, status |-> 505, keep_alive |-> FALSE]
Big   == [text |-> Text("PUT", <<"/add", "q">>, "HTTP/1.1", <<>>, <<>>),
          cuts |-> {}, status |-> 505, keep_alive |-> FALSE]

\* k1 stays, asks twice, and the network may cut its text before the body; k2 asks
\* once and leaves when it likes.
SomeRequests == [c \in Clients |-> IF c = k1 THEN {Page, Add} ELSE {Probe, Two, Big}]
Twice == [c \in Clients |-> IF c = k1 THEN 2 ELSE 1]
=============================================================================
