---------------------------------- MODULE Http ----------------------------------
(***************************************************************************)
(* A browser's connection to the HTTPS port (engine/http.c): GET requests, *)
(* answered from a file, and the WebSocket that relays its frames to the   *)
(* engine's own command port, over a second connection that the engine     *)
(* makes to itself and secures.  The other end of it is a client that has  *)
(* yet to log in (engine/command.c).                                       *)
(*                                                                         *)
(* Without a certificate lion_ssl_set does nothing: the browser's           *)
(* connection is a plain one, and so is the relay's.                       *)
(*                                                                         *)
(* A handle that is closed or disconnected has no more events but the one  *)
(* that says so, which may come later.                                     *)
(***************************************************************************)
EXTENDS Naturals, Sequences, FiniteSets

CONSTANTS
  SslOnly,      \* whether command_ssl_only is YES
  Sizes,        \* lengths of what the engine answers to a command
  MaxRequests,  \* bound: requests of the browser
  MaxFrames     \* bound: frames of the browser

ASSUME HttpAssumption ==
  /\ SslOnly \in BOOLEAN /\ Sizes \subseteq Nat
  /\ MaxRequests \in Nat /\ MaxFrames \in Nat

\* A request: an upgrade to a WebSocket of a version that will do or that is too
\* old, or a GET whose connection is kept or not, of a file that exists or not.
Request ==
  [upgrade: {"none", "good", "old"}, keep: BOOLEAN, found: BOOLEAN]

\* Its lines as they are read: GET, the headers, a blank line.
Line == [line: {"GET", "header", "blank"}, of: Request]

\* What a frame of the browser says, or that it is unmasked or of an unknown kind,
\* or closes.  ASK stands for the commands that need a login.
Frame == {"AUTH", "ASK", "QUIT", "CLOSE", "BAD"}

\* Frames to the browser: the bytes after the first that tell the length, and the
\* number of those that follow.
Frames == [text: {"WELCOME", "SSL", "AUTH", "GOODBYE", "ASK"}, length: Seq(0 .. 255), size: Nat]

VARIABLES
  http,     \* the browser's handle: its state and handler, whether it is read, what
            \* its user_data points to, and whether it is an HTTPS connection
  parser,   \* whether there is one, its request so far, and whether its file_handle
            \* is set
  file,     \* the file's handle and whether its user_data is the parser
  relay,    \* whether there is one, its two handles, ssl_negotiating
  engine,   \* the handle to the command port, its user_data, its security
  auth,     \* whether the engine has let the client in
  input,    \* lines or frames that the browser has sent and nobody has read
  toEngine, toRelay,  \* lines on their way
  output,   \* frames sent to the browser
  asked, got,  \* the commands that it gave, and that the engine has read
  requests, answered,  \* how many it made; what was answered to them
  leaked,   \* strings of headers that nothing points to any more
  odd       \* what the relay is not prepared for, and "upgrade" once one was asked for

vars == <<http, parser, file, relay, engine, auth, input, toEngine, toRelay, output, asked, got,
          requests, answered, leaked, odd>>
wire == <<engine, auth, toEngine, toRelay, got>>
browser == <<asked, requests>>

NoRequest == [upgrade |-> "none", keep |-> FALSE, found |-> FALSE]
NoParser == [live |-> FALSE, request |-> NoRequest, file |-> FALSE]
NoFile == [st |-> "none", data |-> FALSE]
NoRelay == [live |-> FALSE, http |-> FALSE, engine |-> FALSE, ssl |-> FALSE]

Init ==
  /\ \E ssl \in BOOLEAN :
       http = [st |-> IF ssl THEN "tls" ELSE "open", handler |-> "http", reads |-> TRUE,
               data |-> "NULL", ssl |-> ssl]
  /\ parser = NoParser /\ file = NoFile /\ relay = NoRelay
  /\ engine = [st |-> "none", data |-> FALSE, tls |-> "plain"]
  /\ auth = FALSE /\ input = <<>> /\ toEngine = <<>> /\ toRelay = <<>> /\ output = <<>>
  /\ asked = <<>> /\ got = <<>> /\ requests = 0 /\ answered = <<>> /\ leaked = {} /\ odd = {}

-----------------------------------------------------------------------------
(* The browser. *)

Open == http.st = "open"

\* Requests may be sent before the last is answered.
Asks(r) ==
  /\ Open /\ http.handler # "framed" /\ requests < MaxRequests
  /\ \A i \in DOMAIN input : input[i].of.upgrade = "none"
  /\ requests' = requests + 1
  /\ input' = input \o <<[line |-> "GET", of |-> r], [line |-> "header", of |-> r],
                         [line |-> "blank", of |-> r]>>
  /\ odd' = IF r.upgrade = "none" THEN odd ELSE odd \cup {"upgrade"}
  /\ UNCHANGED <<http, parser, file, relay, wire, output, asked, answered, leaked>>

\* A frame, once the upgrade has been answered.
Sends(f) ==
  /\ Open /\ http.handler = "framed" /\ Len(asked) < MaxFrames
  /\ asked' = Append(asked, f)
  /\ input' = Append(input, f)
  /\ UNCHANGED <<http, parser, file, relay, wire, output, requests, answered, odd, leaked>>

-----------------------------------------------------------------------------
(* http_handler: the lines of a request. *)

Reads(line) == Open /\ http.handler = "http" /\ http.reads /\ input # <<>> /\ Head(input).line = line

\* http_parser_free, which does not free the string of the Upgrade header.
FreeParser ==
  /\ parser' = NoParser
  /\ leaked' = IF parser.request.upgrade = "none" THEN leaked ELSE leaked \cup {"upgrade"}

\* LION_CONNECTION_SECURE_ENABLED; a failure disconnects.
Secured ==
  /\ http.st = "tls"
  /\ \E st \in {"open", "closing"} : http' = [http EXCEPT !.st = st]
  /\ UNCHANGED <<parser, file, relay, wire, input, output, browser, answered, odd, leaked>>

GetLine ==
  /\ Reads("GET") /\ ~parser.live
  /\ parser' = [NoParser EXCEPT !.live = TRUE]
  /\ http' = [http EXCEPT !.data = "parser"]
  /\ input' = Tail(input)
  /\ UNCHANGED <<file, relay, wire, output, browser, answered, odd, leaked>>

\* The version of a WebSocket takes the place of that of the GET, which is not freed.
HeaderLine ==
  /\ Reads("header") /\ parser.live
  /\ parser' = [parser EXCEPT !.request = Head(input).of]
  /\ leaked' = IF Head(input).of.upgrade = "none" THEN leaked ELSE leaked \cup {"version"}
  /\ input' = Tail(input)
  /\ UNCHANGED <<http, file, relay, wire, output, browser, answered, odd>>

\* The end of the headers of a GET: its file is opened, or there is none.
BlankGet ==
  /\ Reads("blank") /\ parser.live /\ parser.request.upgrade = "none"
  /\ IF parser.request.found
     THEN /\ file' = [st |-> "opening", data |-> TRUE]
          /\ parser' = [parser EXCEPT !.file = TRUE]
          /\ http' = [http EXCEPT !.handler = "get", !.reads = FALSE]
          /\ UNCHANGED answered
     ELSE /\ http' = [http EXCEPT !.st = "closing"]
          /\ answered' = Append(answered, "404")
          /\ UNCHANGED <<file, parser>>
  /\ input' = Tail(input)
  /\ UNCHANGED <<relay, wire, output, browser, odd, leaked>>

\* Of an upgrade that will not do, which is not answered.
BlankOld ==
  /\ Reads("blank") /\ parser.live /\ parser.request.upgrade = "old"
  /\ FreeParser
  /\ http' = [http EXCEPT !.data = "NULL"]
  /\ input' = Tail(input)
  /\ UNCHANGED <<file, relay, wire, output, browser, answered, odd>>

\* Mutant: the browser is read at once.
BlankUpgradeRead ==
  /\ Reads("blank") /\ parser.live /\ parser.request.upgrade = "good"
  /\ FreeParser
  /\ relay' = [live |-> TRUE, http |-> TRUE, engine |-> TRUE, ssl |-> FALSE]
  /\ http' = [http EXCEPT !.handler = "framed", !.data = "relay"]
  /\ engine' = [st |-> "connecting", data |-> TRUE, tls |-> "plain"]
  /\ input' = Tail(input)
  /\ answered' = Append(answered, "101")
  /\ UNCHANGED <<file, auth, toEngine, toRelay, got, output, browser, odd>>

\* Of one that will: the browser is not read until the relay is ready.
BlankUpgrade ==
  /\ Reads("blank") /\ parser.live /\ parser.request.upgrade = "good"
  /\ FreeParser
  /\ relay' = [live |-> TRUE, http |-> TRUE, engine |-> TRUE, ssl |-> FALSE]
  /\ http' = [http EXCEPT !.handler = "framed", !.data = "relay", !.reads = FALSE]
  /\ engine' = [st |-> "connecting", data |-> TRUE, tls |-> "plain"]
  /\ input' = Tail(input)
  /\ answered' = Append(answered, "101")
  /\ UNCHANGED <<file, auth, toEngine, toRelay, got, output, browser, odd>>

\* The connection is lost, at any time.
Lost ==
  /\ http.st \in {"tls", "open"}
  /\ http' = [http EXCEPT !.st = "closing"]
  /\ UNCHANGED <<parser, file, relay, wire, input, output, browser, answered, odd, leaked>>

\* LION_CONNECTION_CLOSED and LION_CONNECTION_LOST in http_handler.
ClosedHttp ==
  /\ http.st = "closing" /\ http.handler = "http"
  /\ FreeParser
  /\ http' = [http EXCEPT !.st = "closed"]
  /\ UNCHANGED <<file, relay, wire, input, output, browser, answered, odd>>

-----------------------------------------------------------------------------
(* http_get_handler: the file, and the browser's handle meanwhile. *)

FileOpen ==
  /\ file.st = "opening" /\ file.data
  /\ file' = [file EXCEPT !.st = "open"]
  /\ answered' = Append(answered, "200")
  /\ UNCHANGED <<http, parser, relay, wire, input, output, browser, odd, leaked>>

\* Mutant: a connection that is kept is not read again.
FileClosedUnread ==
  /\ file.st \in {"open", "closing"}
  /\ file' = NoFile
  /\ IF ~file.data
     THEN UNCHANGED <<parser, http, leaked>>
     ELSE IF parser.request.keep
          THEN /\ http' = [http EXCEPT !.handler = "http", !.data = "NULL"]
               /\ FreeParser
          ELSE /\ http' = [http EXCEPT !.st = "closing"]
               /\ parser' = [parser EXCEPT !.file = FALSE]
               /\ UNCHANGED leaked
  /\ UNCHANGED <<relay, wire, input, output, browser, answered, odd>>

\* LION_FILE_CLOSED: it has been sent, or was disconnected.
FileClosed ==
  /\ file.st \in {"open", "closing"}
  /\ file' = NoFile
  /\ IF ~file.data
     THEN UNCHANGED <<parser, http, leaked>>
     ELSE IF parser.request.keep
          THEN /\ http' = [http EXCEPT !.handler = "http", !.reads = TRUE, !.data = "NULL"]
               /\ FreeParser
          ELSE /\ http' = [http EXCEPT !.st = "closing"]
               /\ parser' = [parser EXCEPT !.file = FALSE]
               /\ UNCHANGED leaked
  /\ UNCHANGED <<relay, wire, input, output, browser, answered, odd>>

\* LION_FILE_FAILED, which is not looked at: the pointer to the handle stays.
FileFailed ==
  /\ file.st \in {"opening", "open"}
  /\ file' = NoFile
  /\ odd' = odd \cup {"failed"}
  /\ UNCHANGED <<http, parser, relay, wire, input, output, browser, answered, leaked>>

\* Mutant: the file is left to be sent to the parser that is freed.
ClosedGetLeft ==
  /\ http.st = "closing" /\ http.handler = "get"
  /\ file' = IF parser.file THEN [file EXCEPT !.st = "closing"] ELSE file
  /\ FreeParser
  /\ http' = [http EXCEPT !.st = "closed"]
  /\ UNCHANGED <<relay, wire, input, output, browser, answered, odd>>

ClosedGet ==
  /\ http.st = "closing" /\ http.handler = "get"
  /\ file' = IF parser.file /\ file.st # "none" THEN [st |-> "closing", data |-> FALSE] ELSE file
  /\ FreeParser
  /\ http' = [http EXCEPT !.st = "closed"]
  /\ UNCHANGED <<relay, wire, input, output, browser, answered, odd>>

-----------------------------------------------------------------------------
(* http_framed_handler: from the browser to the engine. *)

ReadsFrame == Open /\ http.handler = "framed" /\ http.reads /\ input # <<>>

\* The line that is passed on, if there is anyone to pass it to.
Passed(f) ==
  toEngine' = IF relay.engine /\ f \in {"AUTH", "ASK", "QUIT"} THEN Append(toEngine, f) ELSE toEngine

\* Mutant: a frame of an unknown kind is skipped.
ReadFrameLenient ==
  /\ ReadsFrame
  /\ Passed(Head(input))
  /\ http' = IF Head(input) = "CLOSE" THEN [http EXCEPT !.st = "closing"] ELSE http
  /\ input' = Tail(input)
  /\ UNCHANGED <<parser, file, relay, engine, auth, toRelay, got, output, browser, answered, odd,
                 leaked>>

ReadFrame ==
  /\ ReadsFrame
  /\ Passed(Head(input))
  /\ http' = IF Head(input) \in {"CLOSE", "BAD"} THEN [http EXCEPT !.st = "closing"] ELSE http
  /\ input' = Tail(input)
  /\ UNCHANGED <<parser, file, relay, engine, auth, toRelay, got, output, browser, answered, odd,
                 leaked>>

\* A buffer that holds two frames: only the first is looked at.
ReadTwo ==
  /\ ReadsFrame /\ Len(input) > 1
  /\ Passed(Head(input))
  /\ http' = IF Head(input) \in {"CLOSE", "BAD"} THEN [http EXCEPT !.st = "closing"] ELSE http
  /\ input' = Tail(Tail(input))
  /\ odd' = odd \cup {"two"}
  /\ UNCHANGED <<parser, file, relay, engine, auth, toRelay, got, output, browser, answered,
                 leaked>>

\* A buffer that holds the beginning of a frame: it is dropped, and its rest is
\* taken for a frame that is dropped too or ends the connection.
ReadPart ==
  /\ ReadsFrame
  /\ input' = Tail(input)
  /\ \E st \in {"open", "closing"} : http' = [http EXCEPT !.st = st]
  /\ odd' = odd \cup {"part"}
  /\ UNCHANGED <<parser, file, relay, wire, output, browser, answered, leaked>>

\* The browser has gone: so does the connection to the engine.
ClosedFramed ==
  /\ http.st = "closing" /\ http.handler = "framed"
  /\ engine' = IF relay.engine THEN [engine EXCEPT !.st = "closing", !.data = FALSE] ELSE engine
  /\ relay' = NoRelay
  /\ http' = [http EXCEPT !.st = "closed", !.data = "NULL"]
  /\ UNCHANGED <<parser, file, auth, toEngine, toRelay, got, input, output, browser, answered,
                 odd, leaked>>

-----------------------------------------------------------------------------
(* http_engine_handler: from the engine to the browser. *)

\* The connection is there, and the other end greets.
Connected ==
  /\ engine.st = "connecting"
  /\ engine' = [engine EXCEPT !.st = "open"]
  /\ toRelay' = Append(toRelay, "WELCOME")
  /\ IF engine.data /\ relay.http
     THEN IF http.ssl
          THEN /\ relay' = [relay EXCEPT !.ssl = TRUE]
               /\ toEngine' = Append(toEngine, "SSL")
               /\ UNCHANGED http
          ELSE http' = [http EXCEPT !.reads = TRUE] /\ UNCHANGED <<relay, toEngine>>
     ELSE UNCHANGED <<http, relay, toEngine>>
  /\ UNCHANGED <<parser, file, auth, input, got, output, browser, answered, odd, leaked>>

\* Mutant: 125 bytes and less go in the short form, whatever is added to them.
LengthBytesShort(size) ==
  IF size < 126 THEN <<(size + 2) % 256>> ELSE <<126, (size + 2) \div 256, (size + 2) % 256>>

\* The length of a line with what ends it, in the short form or the long.
LengthBytes(size) ==
  IF size < 124 THEN <<size + 2>> ELSE <<126, (size + 2) \div 256, (size + 2) % 256>>

\* Lines of 65534 bytes and more are dropped.
Framed(text, size) ==
  output' = IF size < 65534
            THEN Append(output, [text |-> text, length |-> LengthBytes(size), size |-> size + 2])
            ELSE output

RelayLine ==
  /\ engine.st = "open" /\ engine.data /\ engine.tls # "negotiating" /\ toRelay # <<>>
  /\ toRelay' = Tail(toRelay)
  /\ LET text == Head(toRelay)
     IN  IF text = "SSL" /\ relay.ssl
         THEN engine' = [engine EXCEPT !.tls = "negotiating"] /\ UNCHANGED output
         ELSE /\ \E size \in IF text = "ASK" THEN Sizes ELSE {10} :
                   IF relay.http THEN Framed(text, size) ELSE UNCHANGED output
              /\ UNCHANGED engine
  /\ UNCHANGED <<http, parser, file, relay, auth, input, toEngine, got, browser, answered, odd,
                 leaked>>

EngineSecured ==
  /\ engine.st = "open" /\ engine.tls = "negotiating"
  /\ engine' = [engine EXCEPT !.tls = "secure"]
  /\ IF engine.data
     THEN /\ relay' = [relay EXCEPT !.ssl = FALSE]
          /\ http' = IF relay.http THEN [http EXCEPT !.reads = TRUE] ELSE http
     ELSE UNCHANGED <<relay, http>>
  /\ UNCHANGED <<parser, file, auth, input, toEngine, toRelay, got, output, browser, answered,
                 odd, leaked>>

\* A negotiation that fails disconnects; the connection cannot be made, or is lost.
EngineLost ==
  /\ engine.st \in {"connecting", "open"}
  /\ engine' = [engine EXCEPT !.st = "closing"]
  /\ UNCHANGED <<http, parser, file, relay, auth, input, toEngine, toRelay, got, output, browser,
                 answered, odd, leaked>>

\* The browser's connection is disconnected with it.
EngineClosed ==
  /\ engine.st = "closing"
  /\ engine' = [engine EXCEPT !.st = "closed"]
  /\ IF engine.data
     THEN /\ relay' = [relay EXCEPT !.engine = FALSE]
          /\ http' = IF relay.http THEN [http EXCEPT !.st = "closing"] ELSE http
     ELSE UNCHANGED <<relay, http>>
  /\ UNCHANGED <<parser, file, auth, input, toEngine, toRelay, got, output, browser, answered,
                 odd, leaked>>

-----------------------------------------------------------------------------
(* command_handler: the other end. *)

EngineReads ==
  /\ engine.st = "open" /\ engine.tls # "negotiating" /\ toEngine # <<>>
  /\ toEngine' = Tail(toEngine)
  /\ LET line == Head(toEngine)
     IN  /\ got' = IF line = "SSL" THEN got ELSE Append(got, line)
         /\ CASE line = "SSL" -> toRelay' = Append(toRelay, "SSL") /\ UNCHANGED <<auth, engine>>
              [] line = "AUTH" ->
                   /\ toRelay' = Append(toRelay, "AUTH")
                   /\ auth' \in {auth, auth \/ ~SslOnly \/ engine.tls = "secure"}
                   /\ UNCHANGED engine
              [] line = "ASK" ->
                   /\ toRelay' = IF auth THEN Append(toRelay, "ASK") ELSE toRelay
                   /\ UNCHANGED <<auth, engine>>
              [] line = "QUIT" ->
                   /\ toRelay' = Append(toRelay, "GOODBYE")
                   /\ engine' = [engine EXCEPT !.st = "closing"]
                   /\ UNCHANGED auth
  /\ UNCHANGED <<http, parser, file, relay, input, output, browser, answered, odd, leaked>>

-----------------------------------------------------------------------------

Browser == (\E r \in Request : Asks(r)) \/ (\E f \in Frame : Sends(f)) \/ Lost
HttpHandler == Secured \/ GetLine \/ HeaderLine \/ BlankGet \/ BlankOld \/ BlankUpgrade \/ ClosedHttp
GetHandler == FileOpen \/ FileClosed \/ FileFailed \/ ClosedGet
FramedHandler == ReadFrame \/ ReadTwo \/ ReadPart \/ ClosedFramed
EngineHandler == Connected \/ RelayLine \/ EngineSecured \/ EngineLost \/ EngineClosed

Next == Browser \/ HttpHandler \/ GetHandler \/ FramedHandler \/ EngineHandler \/ EngineReads

Spec == Init /\ [][Next]_vars

\* The poll delivers what has come and what has closed; connections are made or
\* refused, files read to their end.
Fairness ==
  /\ WF_vars(Secured) /\ WF_vars(GetLine \/ HeaderLine \/ BlankGet \/ BlankOld \/ BlankUpgrade)
  /\ WF_vars(FileOpen) /\ WF_vars(FileClosed) /\ WF_vars(ReadFrame)
  /\ WF_vars(ClosedHttp \/ ClosedGet \/ ClosedFramed)
  /\ WF_vars(Connected) /\ WF_vars(RelayLine) /\ WF_vars(EngineReads)
  /\ WF_vars(EngineSecured) /\ WF_vars(EngineClosed)

FairSpec == Spec /\ Fairness

-----------------------------------------------------------------------------
(* Properties. *)

\* Every variable keeps its type.
TypeOK ==
  /\ http \in [st: {"tls", "open", "closing", "closed"}, handler: {"http", "get", "framed"},
               reads: BOOLEAN, data: {"NULL", "parser", "relay"}, ssl: BOOLEAN]
  /\ parser \in [live: BOOLEAN, request: Request, file: BOOLEAN]
  /\ file \in [st: {"none", "opening", "open", "closing"}, data: BOOLEAN]
  /\ relay \in [live: BOOLEAN, http: BOOLEAN, engine: BOOLEAN, ssl: BOOLEAN]
  /\ engine \in [st: {"none", "connecting", "open", "closing", "closed"}, data: BOOLEAN,
                 tls: {"plain", "negotiating", "secure"}]
  /\ auth \in BOOLEAN /\ requests \in 0 .. MaxRequests
  /\ \A i \in DOMAIN input :
       input[i] \in IF http.handler = "framed" THEN Frame ELSE Line
  /\ \A i \in DOMAIN output : output[i] \in Frames
  /\ answered \in Seq({"101", "200", "404"})
  /\ leaked \subseteq {"upgrade", "version"} /\ odd \subseteq {"failed", "two", "part", "upgrade"}

\* No handle that will still have an event points to a parser or a relay that was
\* freed, and neither of these to a handle that is gone: over every order of the
\* ends of browser, file and engine.
PointersAlive ==
  /\ http.st # "closed" =>
       /\ http.data = "parser" => parser.live
       /\ http.data = "relay" => relay.live
  /\ file.st # "none" /\ file.data => parser.live
  /\ engine.st \in {"connecting", "open", "closing"} /\ engine.data => relay.live
  /\ parser.live /\ parser.file /\ "failed" \notin odd => file.st # "none"
  /\ relay.live => /\ (relay.http => http.st # "closed")
                   /\ (relay.engine => engine.st \in {"connecting", "open", "closing"})

\* Parser, relay and file are given up with the connection, and the engine never
\* keeps its end of one whose browser has gone.  A browser that only asks for files
\* costs no memory; one that asks for an upgrade leaves strings behind.
NothingLeaked ==
  /\ http.st = "closed" =>
       /\ ~parser.live /\ ~relay.live
       /\ engine.st \in {"none", "closing", "closed"} /\ file.st \in {"none", "closing"}
  /\ "upgrade" \notin odd => leaked = {}

\* The memory of a connection is neither used after it is freed nor kept, but for the
\* strings of an upgrade.
MemoryRight == TypeOK /\ PointersAlive /\ NothingLeaked

\* Nothing that a browser says which came by HTTPS goes to the engine over a connection
\* that is not secured, so that command_ssl_only can let it in; and that lets in nobody
\* who came by a plain one.
RelaySecure ==
  /\ http.ssl /\ (\E i \in DOMAIN toEngine : toEngine[i] # "SSL") => engine.tls = "secure"
  /\ auth /\ (http.ssl \/ SslOnly) => engine.tls = "secure"

\* The length of a frame is that of what follows (RFC 6455, 5.2: the short form
\* says 125 at most).
Length(bytes) ==
  IF bytes[1] < 126 THEN bytes[1] ELSE IF Len(bytes) = 3 THEN bytes[2] * 256 + bytes[3] ELSE 0
FramesRight == \A i \in DOMAIN output : Length(output[i].length) = output[i].size

\* The engine reads what the browser says, in order and without gaps, unless two
\* frames came in one buffer or one in two.
InOrder ==
  odd \cap {"two", "part"} = {} => got = SubSeq(asked, 1, Len(got))

\* Whatever is sent is read in the end, or the connection is closed: no answer and
\* no relay leaves the handle unread, unless the file that is asked for fails.
ReadInTheEnd ==
  (input # <<>>) ~> (input = <<>> \/ http.st = "closed" \/ "failed" \in odd)
=============================================================================
