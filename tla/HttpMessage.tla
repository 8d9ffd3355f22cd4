---------------------------- MODULE HttpMessage ----------------------------
(***************************************************************************)
(* Requests and responses of src/http_message.cc, and what HttpServer      *)
(* answers to a request.                                                   *)
(*                                                                         *)
(* A text is a sequence of tokens: a start line, header lines, pieces of a *)
(* body, and the line ends between them.  recv may cut it between any two. *)
(***************************************************************************)
EXTENDS Integers, Sequences, FiniteSets, FiniteSetsExt

EOL == [tok |-> "eol"]
StartLine(m, p, v) == [tok |-> "start", method |-> m, path |-> p, version |-> v]
Hdr(k, v) == [tok |-> "hdr", key |-> k, val |-> v]
Body == [tok |-> "body"]

Methods  == {"GET", "HEAD", "POST", "PUT", "DELETE", "CONNECT", "OPTIONS", "TRACE",
             "PATCH"}
Versions == {"HTTP/0.9", "HTTP/1.0", "HTTP/1.1"}

\* path.substr(0, path.find('?')): a path is <<name>> or <<name, query>>.
WithoutQuery(path) == path[1]

-----------------------------------------------------------------------------
\* A request after its constructor; error is the exception FromString ends with.
NewRequest == [error |-> "none", method |-> "GET", path |-> <<"">>, headers |-> <<>>]

\* headers_[key] = val for each line, in order: the last of two equal keys
\* stays, and SetContentLength overwrites what the client said.
HeadersOf(lines, content) ==
    LET keys == {lines[i].key : i \in DOMAIN lines}
        last(k) == Max({i \in DOMAIN lines : lines[i].key = k})
    IN  [k \in keys \cup {"Content-Length"} |->
           IF k = "Content-Length" THEN Len(content) ELSE lines[last(k)].val]

\* Where "\r\n\r\n" is found from a position on, 0 if nowhere.
HeaderEnd(text, from) ==
    LET ends == {i \in from .. Len(text) - 1 : text[i] = EOL /\ text[i + 1] = EOL}
    IN  IF ends = {} THEN 0 ELSE Min(ends)

FromString(text) ==
    LET eols  == {i \in DOMAIN text : text[i] = EOL}
        first == Min(eols)
        end   == HeaderEnd(text, first + 1)
        start == text[1]
        lines == IF end = 0 THEN <<>>
                 ELSE SelectSeq(SubSeq(text, first + 1, end - 1),
                                LAMBDA t : t.tok = "hdr")
        body  == IF end = 0 THEN <<>> ELSE SubSeq(text, end + 2, Len(text))
        bad(m, e) == [NewRequest EXCEPT !.method = m, !.error = e]
    IN  CASE eols = {} \/ start.tok # "start" -> bad("GET", "invalid_argument")
          [] start.tok = "start" /\ start.method \notin Methods
               -> bad("GET", "invalid_argument")
          [] start.tok = "start" /\ start.method \in Methods
                /\ start.version \notin Versions \cup {"HTTP/2.0"}
               -> bad(start.method, "invalid_argument")
          [] start.tok = "start" /\ start.method \in Methods
                /\ start.version = "HTTP/2.0"
               -> bad(start.method, "logic_error")
          [] OTHER -> [error |-> "none", method |-> start.method,
                       path |-> start.path, headers |-> HeadersOf(lines, body)]

\* GetHeader: an empty string for a header that is not there.
GetHeader(req, key) == IF key \in DOMAIN req.headers THEN req.headers[key] ELSE ""

-----------------------------------------------------------------------------
\* The classes derived from std::logic_error that are not caught on their own.
LogicErrors == {"logic_error", "out_of_range", "domain_error", "length_error"}

\* Mutant: logic_error, the base class of invalid_argument, is caught first.
StatusOfBaseFirst(error) ==
    IF error \in LogicErrors \cup {"invalid_argument"} THEN 505 ELSE 500

\* What an exception of parsing or of a handler turns into.
StatusOf(error) ==
    CASE error = "invalid_argument" -> 400
      [] error \in LogicErrors     -> 505
      [] OTHER                      -> 500

\* request_handlers_ by path, then by method; a handler returns 200 or throws.
HandleRequestMessage(req, handlers) ==
    LET named == {h \in handlers : h.path = WithoutQuery(req.path)}
        found == {h \in named : h.method = req.method}
    IN  CASE named = {} -> 404
          [] named # {} /\ found = {} -> 405
          [] OTHER -> LET h == CHOOSE h \in found : TRUE
                      IN  IF h.throws = "none" THEN 200 ELSE StatusOf(h.throws)

\* HandleRequestData: the answer to what one recv returned.  The body, and the
\* "\r\n" after it, are left out for HEAD; keep_alive_ needs the header.
HandleRequestData(text, handlers) ==
    LET req == FromString(text)
    IN  [status     |-> IF req.error # "none" THEN StatusOf(req.error)
                        ELSE HandleRequestMessage(req, handlers),
         parts      |-> IF req.method = "HEAD" THEN <<"head">> ELSE <<"head", "body">>,
         keep_alive |-> GetHeader(req, "Connection") = "keep-alive"]
=============================================================================
