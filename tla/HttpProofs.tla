------------------------------- MODULE HttpProofs -------------------------------
(***************************************************************************)
(* Theorems about a browser's connection, for every answer of the engine,  *)
(* every number of requests and of frames, with or without a certificate   *)
(* and command_ssl_only: nothing that a browser says over HTTPS reaches    *)
(* the engine over a connection that is not secured, memory is not used    *)
(* after it is freed and none is kept but strings of an upgrade, frames    *)
(* say how long they are, and what the engine reads is what the browser    *)
(* said.  The invariant that carries them is IInv.                         *)
(***************************************************************************)
EXTENDS Http, SequenceTheorems, TLAPS

\* The lines that the relay passes on, and those that it receives.
EngineLine == {"AUTH", "ASK", "QUIT"}
RelayText  == {"WELCOME", "SSL", "AUTH", "GOODBYE", "ASK"}

\* The records of the connections, of the parser, of the file and of the relay.
HttpRecord ==
  [st: {"tls", "open", "closing", "closed"}, handler: {"http", "get", "framed"},
   reads: BOOLEAN, data: {"NULL", "parser", "relay"}, ssl: BOOLEAN]
ParserRecord == [live: BOOLEAN, request: Request, file: BOOLEAN]
FileRecord == [st: {"none", "opening", "open", "closing"}, data: BOOLEAN]
RelayRecord == [live: BOOLEAN, http: BOOLEAN, engine: BOOLEAN, ssl: BOOLEAN]
EngineRecord ==
  [st: {"none", "connecting", "open", "closing", "closed"}, data: BOOLEAN,
   tls: {"plain", "negotiating", "secure"}]

\* The connections, the parser and the relay have their types,
RecordsInv ==
  /\ http \in HttpRecord /\ parser \in ParserRecord /\ file \in FileRecord
  /\ relay \in RelayRecord /\ engine \in EngineRecord
  /\ auth \in BOOLEAN /\ requests \in 0 .. MaxRequests
  /\ odd \subseteq {"failed", "two", "part", "upgrade"}

\* what is on its way too,
LinesType ==
  /\ http.handler # "framed" => input \in Seq(Line) /\ asked = <<>>
  /\ http.handler = "framed" => input \in Seq(Frame)
  /\ asked \in Seq(Frame) /\ got \in Seq(EngineLine)
  /\ toEngine \in Seq({"SSL"} \cup EngineLine) /\ toRelay \in Seq(RelayText)
  /\ answered \in Seq({"101", "200", "404"})

\* and what was sent to the browser is framed right.
OutputInv ==
  /\ output \in Seq(Frames)
  /\ FramesRight

\* The lines of a request follow each other, and nothing follows an upgrade.
Ordered(q) ==
  \A i \in DOMAIN q :
    /\ q[i].line \in {"GET", "header"} =>
         i + 1 \in DOMAIN q /\ q[i + 1].of = q[i].of
    /\ q[i].line = "GET" => q[i + 1].line = "header"
    /\ q[i].line = "header" => q[i + 1].line = "blank"
    /\ q[i].line = "blank" /\ i # Len(q) =>
         q[i].of.upgrade = "none" /\ q[i + 1].line = "GET"

AtRequest == input # <<>> => Head(input).line = "GET"

\* The parser has read what comes before the lines that are left.
ReadInv ==
  /\ http.handler # "framed" => Ordered(input)
  /\ http.st = "tls" => input = <<>> /\ ~parser.live /\ http.handler = "http"
  /\ http.st = "open" /\ http.handler = "http" /\ parser.live =>
       /\ input # <<>> /\ Head(input).line \in {"header", "blank"}
       /\ Head(input).line = "blank" => Head(input).of = parser.request
  /\ http.st = "open" /\ http.handler = "http" /\ ~parser.live => AtRequest
  /\ http.st = "open" /\ http.handler = "get" => AtRequest

\* What points to what, while the handler is that of requests,
NoEngine == engine.st = "none" /\ ~engine.data /\ engine.tls = "plain"

HttpInv ==
  http.handler = "http" =>
    /\ file.st = "none" /\ relay = NoRelay /\ NoEngine /\ ~parser.file
    /\ http.st # "closed" =>
         /\ http.data = "parser" <=> parser.live
         /\ http.data # "relay"
    /\ http.st = "closed" => ~parser.live

\* while a file is sent,
GetInv ==
  http.handler = "get" =>
    /\ relay = NoRelay /\ NoEngine /\ http.st # "tls"
    /\ http.st # "closed" =>
         /\ http.data = "parser" /\ parser.live /\ file.st # "closing"
         /\ file.st # "none" => parser.file /\ file.data
         /\ parser.file /\ "failed" \notin odd => file.st # "none"
    /\ http.st = "closed" =>
         /\ ~parser.live /\ file.st \in {"none", "closing"}
         /\ file.st # "none" => ~file.data

\* and while there is a relay.
Live(st) == st \in {"connecting", "open", "closing"}

FramedInv ==
  http.handler = "framed" =>
    /\ file.st = "none" /\ ~parser.live /\ ~parser.file /\ http.st # "tls"
    /\ engine.st # "none"
    /\ http.st # "closed" =>
         /\ http.data = "relay" /\ relay.live /\ relay.http /\ engine.data
         /\ relay.engine <=> Live(engine.st)
         /\ http.st = "open" => relay.engine
    /\ http.st = "closed" =>
         /\ http.data = "NULL" /\ relay = NoRelay /\ engine.st \in {"closing", "closed"}
         /\ engine.st = "closing" => ~engine.data

\* Before its connection to the engine is secured the relay of an HTTPS browser has
\* only sent SSL, and it negotiates once; that of a plain one never does.
SecureInv ==
  /\ engine.tls # "secure" /\ http.ssl =>
       /\ got = <<>> /\ ~auth /\ toEngine \in {<<>>, <<"SSL">>}
       /\ http.handler = "framed" => ~http.reads
  /\ engine.tls = "secure" => toEngine \in Seq(EngineLine) /\ ~relay.ssl
  /\ engine.tls = "negotiating" => toEngine = <<>>
  /\ http.ssl /\ engine.tls = "plain" /\ toEngine # <<>> =>
       \A i \in DOMAIN toRelay : toRelay[i] # "SSL"
  /\ engine.st \in {"none", "connecting"} =>
       /\ engine.tls = "plain" /\ toEngine = <<>> /\ toRelay = <<>> /\ got = <<>> /\ ~auth
       /\ http.handler = "framed" => ~http.reads
  /\ ~http.ssl =>
       /\ engine.tls = "plain" /\ ~relay.ssl /\ toEngine \in Seq(EngineLine)
       /\ auth => ~SslOnly

\* What the engine has read, what is on its way and what is left to read are
\* what the browser said.
OnWay == IF engine.tls = "secure" \/ ~http.ssl THEN toEngine ELSE <<>>

OrderInv ==
  odd \cap {"two", "part"} = {} =>
    /\ Len(got) + Len(OnWay) <= Len(asked)
    /\ \A i \in 1 .. Len(got) : got[i] = asked[i]
    /\ \A i \in 1 .. Len(OnWay) : OnWay[i] = asked[Len(got) + i]
    /\ http.handler = "framed" /\ http.st = "open" =>
         /\ Len(got) + Len(OnWay) + Len(input) = Len(asked)
         /\ \A i \in 1 .. Len(input) : input[i] = asked[Len(got) + Len(OnWay) + i]

PointersInv == HttpInv /\ GetInv /\ FramedInv

\* A browser that asked for files only has given no string that is not freed.
LeakInv ==
  /\ leaked \subseteq {"upgrade", "version"}
  /\ "upgrade" \notin odd =>
       /\ leaked = {} /\ parser.request.upgrade = "none" /\ http.handler # "framed"
       /\ \A i \in DOMAIN input : input[i].of.upgrade = "none"

IInv ==
  /\ RecordsInv /\ LinesType /\ OutputInv /\ ReadInv /\ PointersInv /\ SecureInv /\ OrderInv
  /\ LeakInv

-----------------------------------------------------------------------------
(* Frames and lines. *)

\* The length of a frame, in the short form or the long, is that of the line
\* with what ends it.
LEMMA LengthRight ==
  ASSUME NEW size \in Nat, size < 65534
  PROVE  LengthBytes(size) \in Seq(0 .. 255) /\ Length(LengthBytes(size)) = size + 2
<1>1. CASE size < 124
  BY <1>1 DEF LengthBytes, Length
<1>2. CASE size >= 124
  <2> DEFINE n == size + 2
             hi == n \div 256
             lo == n % 256
  <2>1. n \in Nat /\ n < 65536
    OBVIOUS
  <2>2. hi \in 0 .. 255 /\ lo \in 0 .. 255 /\ hi * 256 + lo = n
    BY <2>1
  <2>3. LengthBytes(size) = <<126, hi, lo>>
    BY <1>2 DEF LengthBytes
  <2> HIDE DEF hi, lo, n
  <2>4. <<126, hi, lo>> \in Seq(0 .. 255) /\ Length(<<126, hi, lo>>) = hi * 256 + lo
    BY <2>2 DEF Length
  <2> QED
    BY <2>2, <2>3, <2>4 DEF n
<1> QED
  BY <1>1, <1>2

\* The lines that are left after one is read are in order.
LEMMA OrderedTail ==
  ASSUME NEW q \in Seq(Line), q # <<>>, Ordered(q)
  PROVE  /\ Tail(q) \in Seq(Line) /\ Ordered(Tail(q)) /\ Head(q) \in Line
         /\ Head(q).line = "GET" =>
              Tail(q) # <<>> /\ Head(Tail(q)).line = "header"
         /\ Head(q).line = "header" =>
              /\ Tail(q) # <<>> /\ Head(Tail(q)).line = "blank"
              /\ Head(Tail(q)).of = Head(q).of
         /\ Head(q).line = "blank" /\ Tail(q) # <<>> =>
              Head(Tail(q)).line = "GET" /\ Head(q).of.upgrade = "none"
<1> DEFINE r == Tail(q)
<1>1. /\ r \in Seq(Line) /\ Len(r) = Len(q) - 1 /\ Len(q) \in Nat \ {0}
      /\ Head(q) = q[1] /\ q[1] \in Line
      /\ DOMAIN q = 1 .. Len(q) /\ DOMAIN r = 1 .. Len(q) - 1
  OBVIOUS
<1>2. \A i \in DOMAIN r : r[i] = q[i + 1] /\ i + 1 \in DOMAIN q
  BY <1>1
<1>3. r # <<>> => Head(r) = q[2] /\ Len(q) > 1
  BY <1>1, <1>2
<1> HIDE DEF r
<1>4. Len(q) > 1 => r # <<>>
  BY <1>1
<1>5. Ordered(r)
  BY <1>1, <1>2 DEF Ordered
<1>6. 1 \in DOMAIN q /\ Len(q) \in Nat
  BY <1>1
<1>7. /\ q[1].line \in {"GET", "header"} => 2 \in DOMAIN q /\ q[2].of = q[1].of
      /\ q[1].line = "GET" => q[2].line = "header"
      /\ q[1].line = "header" => q[2].line = "blank"
      /\ q[1].line = "blank" /\ 1 # Len(q) =>
           q[1].of.upgrade = "none" /\ q[2].line = "GET"
  <2> DEFINE Next2(i, j) ==
        /\ q[i].line \in {"GET", "header"} => j \in DOMAIN q /\ q[j].of = q[i].of
        /\ q[i].line = "GET" => q[j].line = "header"
        /\ q[i].line = "header" => q[j].line = "blank"
        /\ q[i].line = "blank" /\ i # Len(q) =>
             q[i].of.upgrade = "none" /\ q[j].line = "GET"
  <2>1. \A i \in DOMAIN q : Next2(i, i + 1)
    BY DEF Ordered
  <2> HIDE DEF Next2
  <2>2. Next2(1, 2)
    BY <1>6, <2>1
  <2> QED
    BY <2>2 DEF Next2
<1>8. 2 \in DOMAIN q => Len(q) > 1 /\ 1 # Len(q)
  BY <1>1
<1>9. Head(q).line = "GET" => r # <<>> /\ Head(r).line = "header"
  BY <1>1, <1>3, <1>4, <1>7, <1>8
<1>10. Head(q).line = "header" => /\ r # <<>> /\ Head(r).line = "blank"
                                 /\ Head(r).of = Head(q).of
  BY <1>1, <1>3, <1>4, <1>7, <1>8
<1>11. Head(q).line = "blank" /\ r # <<>> =>
         Head(r).line = "GET" /\ Head(q).of.upgrade = "none"
  BY <1>1, <1>3, <1>7
<1> QED
  BY <1>1, <1>5, <1>9, <1>10, <1>11 DEF r

\* A request that follows one that is no upgrade leaves the lines in order.
LEMMA OrderedAsk ==
  ASSUME NEW q \in Seq(Line), NEW r \in Request, Ordered(q),
         \A i \in DOMAIN q : q[i].of.upgrade = "none"
  PROVE  LET new == <<[line |-> "GET", of |-> r], [line |-> "header", of |-> r],
                      [line |-> "blank", of |-> r]>>
         IN  /\ q \o new \in Seq(Line) /\ Ordered(q \o new) /\ q \o new # <<>>
             /\ Head(q \o new) = IF q = <<>> THEN [line |-> "GET", of |-> r] ELSE Head(q)
<1> DEFINE a == [line |-> "GET", of |-> r]
           b == [line |-> "header", of |-> r]
           c == [line |-> "blank", of |-> r]
           new == <<a, b, c>>
           x == q \o new
<1>1. /\ a \in Line /\ b \in Line /\ c \in Line
      /\ a.line = "GET" /\ b.line = "header" /\ c.line = "blank"
      /\ a.of = b.of /\ b.of = c.of
  BY DEF Line
<1> HIDE DEF a, b, c
<1>2. /\ x \in Seq(Line) /\ Len(x) = Len(q) + 3 /\ Len(q) \in Nat
      /\ x[Len(q) + 1] = a /\ x[Len(q) + 2] = b /\ x[Len(q) + 3] = c
      /\ \A i \in 1 .. Len(q) : x[i] = q[i]
      /\ DOMAIN q = 1 .. Len(q) /\ DOMAIN x = 1 .. Len(q) + 3
  BY <1>1
<1> HIDE DEF x
<1>3. Ordered(x)
  <2>1. SUFFICES ASSUME NEW i \in DOMAIN x
                 PROVE  /\ x[i].line \in {"GET", "header"} =>
                             i + 1 \in DOMAIN x /\ x[i + 1].of = x[i].of
                        /\ x[i].line = "GET" => x[i + 1].line = "header"
                        /\ x[i].line = "header" => x[i + 1].line = "blank"
                        /\ x[i].line = "blank" /\ i # Len(x) =>
                             x[i].of.upgrade = "none" /\ x[i + 1].line = "GET"
    BY DEF Ordered
  <2>2. CASE i < Len(q)
    <3>1. i \in DOMAIN q /\ i + 1 \in DOMAIN q /\ x[i] = q[i] /\ x[i + 1] = q[i + 1]
          /\ i # Len(q) /\ i + 1 \in DOMAIN x
      BY <1>2, <2>2
    <3> QED
      BY <3>1 DEF Ordered
  <2>3. CASE i = Len(q)
    <3>1. i \in DOMAIN q /\ i + 1 \notin DOMAIN q /\ x[i] = q[i] /\ x[i + 1] = a
      BY <1>2, <2>3
    <3> QED
      BY <1>1, <3>1 DEF Ordered
  <2>4. CASE i = Len(q) + 1
    BY <1>1, <1>2, <2>4
  <2>5. CASE i = Len(q) + 2
    BY <1>1, <1>2, <2>5
  <2>6. CASE i = Len(q) + 3
    BY <1>1, <1>2, <2>6
  <2> QED
    BY <1>2, <2>2, <2>3, <2>4, <2>5, <2>6
<1>4. x # <<>> /\ Head(x) = x[1]
  BY <1>2
<1>5. Head(x) = IF q = <<>> THEN a ELSE Head(q)
  <2>1. CASE q = <<>>
    BY <1>2, <1>4, <2>1
  <2>2. CASE q # <<>>
    BY <1>2, <1>4, <2>2
  <2> QED
    BY <2>1, <2>2
<1> QED
  BY <1>2, <1>3, <1>4, <1>5 DEF x, a, b, c

-----------------------------------------------------------------------------
(* Types. *)

\* The records that are made, and what a changed field leaves them.
LEMMA Records ==
  /\ NoParser \in ParserRecord /\ [NoParser EXCEPT !.live = TRUE] \in ParserRecord
  /\ NoFile \in FileRecord /\ NoRelay \in RelayRecord
  /\ ~NoParser.live /\ ~NoParser.file /\ NoParser.request.upgrade = "none"
BY DEF NoParser, NoRequest, Request, ParserRecord, NoFile, FileRecord, NoRelay, RelayRecord

\* What stands first in a queue has the type of its members.
LEMMA FirstOf ==
  ASSUME NEW S, NEW q \in Seq(S), q # <<>>
  PROVE  /\ Head(q) \in S /\ Tail(q) \in Seq(S) /\ Head(q) = q[1]
         /\ Len(q) \in Nat \ {0} /\ Len(Tail(q)) = Len(q) - 1
         /\ \A i \in 1 .. Len(q) - 1 : Tail(q)[i] = q[i + 1]
OBVIOUS

\* A queue to which something is added.
LEMMA AtTheEnd ==
  ASSUME NEW S, NEW q \in Seq(S), NEW e \in S
  PROVE  /\ Append(q, e) \in Seq(S) /\ Append(q, e) # <<>>
         /\ Len(q) \in Nat /\ Len(Append(q, e)) = Len(q) + 1
         /\ \A i \in 1 .. Len(q) : Append(q, e)[i] = q[i]
         /\ Append(q, e)[Len(q) + 1] = e
OBVIOUS

\* A browser's connection is an HTTPS one or a plain one for good.
LEMMA SslKept ==
  ASSUME RecordsInv, Next
  PROVE  http'.ssl = http.ssl
<1> USE DEF RecordsInv, HttpRecord
<1>1. CASE Browser
  BY <1>1 DEF Browser, Asks, Sends, Lost
<1>2. CASE HttpHandler
  BY <1>2 DEF HttpHandler, Secured, GetLine, HeaderLine, BlankGet, BlankOld, BlankUpgrade,
              ClosedHttp
<1>3. CASE GetHandler
  BY <1>3 DEF GetHandler, FileOpen, FileClosed, FileFailed, ClosedGet
<1>4. CASE FramedHandler
  BY <1>4 DEF FramedHandler, ReadFrame, ReadTwo, ReadPart, ClosedFramed
<1>5. CASE EngineHandler \/ EngineReads
  BY <1>5 DEF EngineHandler, Connected, RelayLine, EngineSecured, EngineLost, EngineClosed,
              EngineReads
<1> QED
  BY <1>1, <1>2, <1>3, <1>4, <1>5 DEF Next

\* Every step keeps the types of the connections, the parser and the relay.
LEMMA RecordsStep ==
  ASSUME RecordsInv, LinesType, Next
  PROVE  RecordsInv'
<1> USE DEF RecordsInv
<1>1. CASE Browser
  <2>1. ASSUME NEW r \in Request, Asks(r) PROVE RecordsInv'
    BY <2>1, HttpAssumption DEF Asks, wire
  <2>2. ASSUME NEW f \in Frame, Sends(f) PROVE RecordsInv'
    BY <2>2 DEF Sends, wire
  <2>3. CASE Lost
    BY <2>3 DEF Lost, wire, browser, HttpRecord
  <2> QED
    BY <1>1, <2>1, <2>2, <2>3 DEF Browser
<1>2. CASE HttpHandler
  <2>1. CASE Secured
    BY <2>1 DEF Secured, wire, browser, HttpRecord
  <2>2. CASE GetLine
    <3>1. parser' \in ParserRecord
      BY <2>2, Records DEF GetLine
    <3>2. http' \in HttpRecord
      BY <2>2 DEF GetLine, HttpRecord
    <3> QED
      BY <2>2, <3>1, <3>2 DEF GetLine, wire, browser
  <2>3. CASE HeaderLine
    <3>1. input \in Seq(Line) /\ input # <<>>
      BY <2>3 DEF HeaderLine, Reads, LinesType
    <3>2. Head(input).of \in Request
      <4>1. Head(input) \in Line
        BY <3>1, FirstOf
      <4> QED
        BY <4>1 DEF Line
    <3>3. parser' \in ParserRecord
      BY <2>3, <3>2 DEF HeaderLine, ParserRecord
    <3> QED
      BY <2>3, <3>3 DEF HeaderLine, wire, browser
  <2>4. CASE BlankGet
    <3>1. http' \in HttpRecord
      BY <2>4 DEF BlankGet, HttpRecord
    <3>2. parser' \in ParserRecord
      BY <2>4 DEF BlankGet, ParserRecord
    <3>3. file' \in FileRecord
      <4>1. file' = [st |-> "opening", data |-> TRUE] \/ file' = file
        BY <2>4 DEF BlankGet
      <4>2. [st |-> "opening", data |-> TRUE] \in FileRecord
        BY DEF FileRecord
      <4> QED
        BY <4>1, <4>2
    <3> QED
      BY <2>4, <3>1, <3>2, <3>3 DEF BlankGet, wire, browser
  <2>5. CASE BlankOld
    BY <2>5, Records DEF BlankOld, FreeParser, wire, browser, HttpRecord
  <2>6. CASE BlankUpgrade
    BY <2>6, Records DEF BlankUpgrade, FreeParser, browser, HttpRecord, RelayRecord, EngineRecord
  <2>7. CASE ClosedHttp
    BY <2>7, Records DEF ClosedHttp, FreeParser, wire, browser, HttpRecord
  <2> QED
    BY <1>2, <2>1, <2>2, <2>3, <2>4, <2>5, <2>6, <2>7 DEF HttpHandler
<1>3. CASE GetHandler
  <2>1. CASE FileOpen
    BY <2>1 DEF FileOpen, wire, browser, FileRecord
  <2>2. CASE FileClosed
    <3>1. http' \in HttpRecord
      BY <2>2 DEF FileClosed, HttpRecord
    <3>2. parser' \in ParserRecord
      BY <2>2, Records DEF FileClosed, FreeParser, ParserRecord
    <3> QED
      BY <2>2, <3>1, <3>2, Records DEF FileClosed, wire, browser
  <2>3. CASE FileFailed
    BY <2>3, Records DEF FileFailed, wire, browser
  <2>4. CASE ClosedGet
    BY <2>4, Records DEF ClosedGet, FreeParser, wire, browser, HttpRecord, FileRecord
  <2> QED
    BY <1>3, <2>1, <2>2, <2>3, <2>4 DEF GetHandler
<1>4. CASE FramedHandler
  <2>1. CASE ReadFrame
    BY <2>1 DEF ReadFrame, browser, HttpRecord
  <2>2. CASE ReadTwo
    BY <2>2 DEF ReadTwo, browser, HttpRecord
  <2>3. CASE ReadPart
    BY <2>3 DEF ReadPart, wire, browser, HttpRecord
  <2>4. CASE ClosedFramed
    BY <2>4, Records DEF ClosedFramed, browser, HttpRecord, EngineRecord
  <2> QED
    BY <1>4, <2>1, <2>2, <2>3, <2>4 DEF FramedHandler
<1>5. CASE EngineHandler
  <2>1. CASE Connected
    <3>1. relay' \in RelayRecord
      BY <2>1 DEF Connected, RelayRecord
    <3>2. engine' \in EngineRecord
      BY <2>1 DEF Connected, EngineRecord
    <3>3. http' \in HttpRecord
      BY <2>1 DEF Connected, HttpRecord
    <3> QED
      BY <2>1, <3>1, <3>2, <3>3 DEF Connected, browser
  <2>2. CASE RelayLine
    <3>1. UNCHANGED engine \/ engine' = [engine EXCEPT !.tls = "negotiating"]
      BY <2>2 DEF RelayLine
    <3>2. engine' \in EngineRecord
      BY <3>1 DEF EngineRecord
    <3> QED
      BY <2>2, <3>2 DEF RelayLine, browser
  <2>3. CASE EngineSecured
    <3>1. relay' \in RelayRecord
      BY <2>3 DEF EngineSecured, RelayRecord
    <3>2. http' \in HttpRecord
      BY <2>3 DEF EngineSecured, HttpRecord
    <3>3. engine' \in EngineRecord
      BY <2>3 DEF EngineSecured, EngineRecord
    <3> QED
      BY <2>3, <3>1, <3>2, <3>3 DEF EngineSecured, browser
  <2>4. CASE EngineLost
    BY <2>4 DEF EngineLost, browser, EngineRecord
  <2>5. CASE EngineClosed
    <3>1. relay' \in RelayRecord
      BY <2>5 DEF EngineClosed, RelayRecord
    <3>2. http' \in HttpRecord
      BY <2>5 DEF EngineClosed, HttpRecord
    <3>3. engine' \in EngineRecord
      BY <2>5 DEF EngineClosed, EngineRecord
    <3> QED
      BY <2>5, <3>1, <3>2, <3>3 DEF EngineClosed, browser
  <2> QED
    BY <1>5, <2>1, <2>2, <2>3, <2>4, <2>5 DEF EngineHandler
<1>6. CASE EngineReads
  <2>1. Head(toEngine) \in {"SSL"} \cup EngineLine
    BY <1>6, FirstOf DEF EngineReads, LinesType
  <2>2. auth' \in BOOLEAN
    BY <1>6, <2>1 DEF EngineReads, EngineLine
  <2>3. UNCHANGED engine \/ engine' = [engine EXCEPT !.st = "closing"]
    BY <1>6, <2>1 DEF EngineReads, EngineLine
  <2>4. engine' \in EngineRecord
    BY <2>3 DEF EngineRecord
  <2> QED
    BY <1>6, <2>2, <2>4 DEF EngineReads, browser
<1> QED
  BY <1>1, <1>2, <1>3, <1>4, <1>5, <1>6 DEF Next

-----------------------------------------------------------------------------
(* What points to what. *)

\* Every step leaves no pointer to what was freed or is gone.
LEMMA PointersStep ==
  ASSUME RecordsInv, LinesType, PointersInv, ReadInv, SecureInv, Next
  PROVE  PointersInv'
<1> USE DEF RecordsInv, HttpRecord, ParserRecord, FileRecord, RelayRecord, EngineRecord,
            PointersInv, HttpInv, GetInv, FramedInv, NoEngine, Live
<1>1. CASE Browser
  <2>1. ASSUME NEW r \in Request, Asks(r) PROVE PointersInv'
    BY <2>1 DEF Asks, wire
  <2>2. ASSUME NEW f \in Frame, Sends(f) PROVE PointersInv'
    BY <2>2 DEF Sends, wire
  <2>3. CASE Lost
    BY <2>3 DEF Lost, wire, browser
  <2> QED
    BY <1>1, <2>1, <2>2, <2>3 DEF Browser
<1>2. CASE HttpHandler
  <2>1. CASE Secured
    BY <2>1 DEF Secured, wire, browser
  <2>2. CASE GetLine
    BY <2>2 DEF GetLine, Reads, Open, wire, browser, NoParser
  <2>3. CASE HeaderLine
    BY <2>3 DEF HeaderLine, Reads, Open, wire, browser
  <2>4. CASE BlankGet
    <3>1. /\ http.st = "open" /\ http.handler = "http" /\ parser.live
          /\ UNCHANGED <<relay, engine, odd>>
      BY <2>4 DEF BlankGet, Reads, Open, wire, browser
    <3>2. CASE parser.request.found
      <4>1. /\ file' = [st |-> "opening", data |-> TRUE]
            /\ parser' = [parser EXCEPT !.file = TRUE]
            /\ http' = [http EXCEPT !.handler = "get", !.reads = FALSE]
        BY <2>4, <3>2 DEF BlankGet
      <4>2. /\ file'.st = "opening" /\ file'.data /\ parser'.file /\ parser'.live
            /\ http'.st = "open" /\ http'.handler = "get" /\ http'.data = "parser"
        BY <3>1, <4>1
      <4> QED
        BY <3>1, <4>2
    <3>3. CASE ~parser.request.found
      <4>1. http' = [http EXCEPT !.st = "closing"] /\ UNCHANGED <<file, parser>>
        BY <2>4, <3>3 DEF BlankGet
      <4> QED
        BY <3>1, <4>1
    <3> QED
      BY <3>2, <3>3
  <2>5. CASE BlankOld
    BY <2>5 DEF BlankOld, FreeParser, Reads, Open, wire, browser, NoParser
  <2>6. CASE BlankUpgrade
    BY <2>6 DEF BlankUpgrade, FreeParser, Reads, Open, browser, NoParser
  <2>7. CASE ClosedHttp
    BY <2>7 DEF ClosedHttp, FreeParser, wire, browser, NoParser
  <2> QED
    BY <1>2, <2>1, <2>2, <2>3, <2>4, <2>5, <2>6, <2>7 DEF HttpHandler
<1>3. CASE GetHandler
  <2>1. CASE FileOpen
    BY <2>1 DEF FileOpen, wire, browser
  <2>2. CASE FileClosed
    <3>1. /\ file.st \in {"open", "closing"} /\ file'.st = "none"
          /\ UNCHANGED <<relay, engine, odd>> /\ http.handler = "get"
      BY <2>2 DEF FileClosed, wire, browser, NoFile
    <3>2. CASE ~file.data
      BY <2>2, <3>1, <3>2 DEF FileClosed
    <3>3. CASE file.data /\ parser.request.keep
      <4>1. /\ http' = [http EXCEPT !.handler = "http", !.reads = TRUE, !.data = "NULL"]
            /\ parser' = NoParser
        BY <2>2, <3>3 DEF FileClosed, FreeParser
      <4>2. ~parser'.live /\ ~parser'.file
        BY <4>1, Records
      <4>3. http'.handler = "http" /\ http'.data = "NULL" /\ http'.st = http.st
        BY <4>1
      <4> QED
        BY <3>1, <4>2, <4>3
    <3>4. CASE file.data /\ ~parser.request.keep
      <4>1. http' = [http EXCEPT !.st = "closing"] /\ parser' = [parser EXCEPT !.file = FALSE]
        BY <2>2, <3>4 DEF FileClosed
      <4>2. ~parser'.file /\ parser'.live = parser.live
        BY <4>1
      <4>3. http'.handler = "get" /\ http'.data = http.data /\ http'.st = "closing"
        BY <3>1, <4>1
      <4> QED
        BY <3>1, <3>4, <4>2, <4>3
    <3> QED
      BY <3>2, <3>3, <3>4
  <2>3. CASE FileFailed
    BY <2>3 DEF FileFailed, wire, browser, NoFile
  <2>4. CASE ClosedGet
    BY <2>4 DEF ClosedGet, FreeParser, wire, browser, NoParser
  <2> QED
    BY <1>3, <2>1, <2>2, <2>3, <2>4 DEF GetHandler
<1>4. CASE FramedHandler
  <2>1. CASE ReadFrame
    BY <2>1 DEF ReadFrame, ReadsFrame, Open, browser
  <2>2. CASE ReadTwo
    BY <2>2 DEF ReadTwo, ReadsFrame, Open, browser
  <2>3. CASE ReadPart
    BY <2>3 DEF ReadPart, ReadsFrame, Open, wire, browser
  <2>4. CASE ClosedFramed
    <3>1. /\ http.st = "closing" /\ http.handler = "framed" /\ relay' = NoRelay
          /\ http'.st = "closed" /\ http'.data = "NULL" /\ http'.handler = "framed"
          /\ UNCHANGED <<parser, file, odd>>
      BY <2>4 DEF ClosedFramed, browser
    <3>2. engine'.st \in {"closing", "closed"} /\ (engine'.st = "closing" => ~engine'.data)
      BY <2>4, <3>1 DEF ClosedFramed
    <3>3. ~relay'.live /\ ~relay'.engine
      BY <3>1 DEF NoRelay
    <3> QED
      BY <3>1, <3>2, <3>3
  <2> QED
    BY <1>4, <2>1, <2>2, <2>3, <2>4 DEF FramedHandler
<1>5. CASE EngineHandler
  <2>0. engine.st # "none" => http.handler = "framed"
    OBVIOUS
  <2>1. CASE Connected
    <3>1. /\ engine.st = "connecting" /\ engine' = [engine EXCEPT !.st = "open"]
          /\ UNCHANGED <<parser, file, odd>>
      BY <2>1 DEF Connected, browser
    <3>2. engine'.st = "open" /\ engine'.data = engine.data /\ http.handler = "framed"
      BY <2>0, <3>1
    <3>3. \/ UNCHANGED <<http, relay>>
          \/ UNCHANGED http /\ relay' = [relay EXCEPT !.ssl = TRUE]
          \/ http' = [http EXCEPT !.reads = TRUE] /\ UNCHANGED relay
      BY <2>1 DEF Connected
    <3>4. /\ relay'.live = relay.live /\ relay'.http = relay.http /\ relay'.engine = relay.engine
          /\ http'.st = http.st /\ http'.handler = "framed" /\ http'.data = http.data
          /\ (relay = NoRelay /\ http.st = "closed" => relay' = NoRelay)
      BY <3>1, <3>2, <3>3
    <3> QED
      BY <3>1, <3>2, <3>4
  <2>2. CASE RelayLine
    <3>1. UNCHANGED engine \/ engine' = [engine EXCEPT !.tls = "negotiating"]
      BY <2>2 DEF RelayLine
    <3>2. engine'.st = engine.st /\ engine'.data = engine.data
      BY <3>1
    <3>3. engine.st = "open" /\ UNCHANGED <<http, parser, file, relay, odd>>
      BY <2>2 DEF RelayLine, browser
    <3>4. http.handler = "framed"
      BY <2>0, <3>3
    <3> QED
      BY <3>2, <3>3, <3>4
  <2>3. CASE EngineSecured
    <3>1. /\ engine.st = "open" /\ engine' = [engine EXCEPT !.tls = "secure"]
          /\ UNCHANGED <<parser, file, odd>>
      BY <2>3 DEF EngineSecured, browser
    <3>2. engine'.st = "open" /\ engine'.data = engine.data /\ http.handler = "framed"
      BY <2>0, <3>1
    <3>3. http.st # "closed" /\ engine.data /\ relay.http
      BY <3>1, <3>2
    <3>4. relay' = [relay EXCEPT !.ssl = FALSE] /\ http' = [http EXCEPT !.reads = TRUE]
      BY <2>3, <3>3 DEF EngineSecured
    <3>5. /\ relay'.live = relay.live /\ relay'.http = relay.http /\ relay'.engine = relay.engine
          /\ http'.st = http.st /\ http'.handler = "framed" /\ http'.data = http.data
      BY <3>2, <3>4
    <3> QED
      BY <3>1, <3>2, <3>3, <3>5
  <2>4. CASE EngineLost
    <3>1. /\ engine.st \in {"connecting", "open"} /\ engine'.st = "closing"
          /\ engine'.data = engine.data /\ UNCHANGED <<http, parser, file, relay, odd>>
      BY <2>4 DEF EngineLost, browser
    <3>2. http.handler = "framed"
      BY <2>0, <3>1
    <3> QED
      BY <3>1, <3>2
  <2>5. CASE EngineClosed
    <3>1. /\ engine.st = "closing" /\ engine' = [engine EXCEPT !.st = "closed"]
          /\ UNCHANGED <<parser, file, odd>>
      BY <2>5 DEF EngineClosed, browser
    <3>2. engine'.st = "closed" /\ engine'.data = engine.data /\ http.handler = "framed"
      BY <2>0, <3>1
    <3>3. CASE http.st = "closed"
      BY <2>5, <3>1, <3>2, <3>3 DEF EngineClosed
    <3>4. CASE http.st # "closed"
      <4>1. relay' = [relay EXCEPT !.engine = FALSE] /\ http' = [http EXCEPT !.st = "closing"]
        BY <2>5, <3>1, <3>2, <3>4 DEF EngineClosed
      <4>2. /\ relay'.live = relay.live /\ relay'.http = relay.http /\ ~relay'.engine
            /\ http'.st = "closing" /\ http'.handler = "framed" /\ http'.data = http.data
        BY <3>2, <4>1
      <4> QED
        BY <3>1, <3>2, <3>4, <4>2
    <3> QED
      BY <3>3, <3>4
  <2> QED
    BY <1>5, <2>1, <2>2, <2>3, <2>4, <2>5 DEF EngineHandler
<1>6. CASE EngineReads
  <2>1. UNCHANGED <<http, parser, file, relay, odd>>
    BY <1>6 DEF EngineReads, browser
  <2>2. Head(toEngine) \in {"SSL"} \cup EngineLine
    BY <1>6, FirstOf DEF EngineReads, LinesType
  <2>3. UNCHANGED engine \/ engine' = [engine EXCEPT !.st = "closing"]
    BY <1>6, <2>2 DEF EngineReads, EngineLine
  <2>4. /\ engine.st = "open" /\ engine'.st \in {"open", "closing"}
        /\ engine'.data = engine.data
    BY <1>6, <2>3 DEF EngineReads
  <2>5. http.handler = "framed"
    BY <2>4
  <2> QED
    BY <2>1, <2>4, <2>5
<1> QED
  BY <1>1, <1>2, <1>3, <1>4, <1>5, <1>6 DEF Next

-----------------------------------------------------------------------------
(* What is on its way. *)

\* Nothing is left to read after an upgrade.
LEMMA UpgradeLast ==
  ASSUME LinesType, ReadInv, BlankUpgrade
  PROVE  input \in Seq(Line) /\ Tail(input) = <<>>
<1>1. /\ http.st = "open" /\ http.handler = "http" /\ parser.live /\ input # <<>>
      /\ Head(input).line = "blank" /\ parser.request.upgrade = "good"
  BY DEF BlankUpgrade, Reads, Open
<1>2. input \in Seq(Line) /\ Ordered(input) /\ Head(input).of = parser.request
  BY <1>1 DEF LinesType, ReadInv
<1> QED
  BY <1>1, <1>2, OrderedTail

\* Every step keeps the types of what is on its way.
LEMMA LinesStep ==
  ASSUME RecordsInv, LinesType, PointersInv, ReadInv, SecureInv, Next
  PROVE  LinesType'
<1> USE DEF RecordsInv, HttpRecord, LinesType
<1>1. CASE Browser
  <2>1. ASSUME NEW r \in Request, Asks(r) PROVE LinesType'
    <3>1. http.handler # "framed" /\ \A i \in DOMAIN input : input[i].of.upgrade = "none"
      BY <2>1 DEF Asks
    <3>2. input' \in Seq(Line)
      BY <2>1, <3>1, OrderedAsk DEF Asks, ReadInv
    <3> QED
      BY <2>1, <3>1, <3>2 DEF Asks, wire
  <2>2. ASSUME NEW f \in Frame, Sends(f) PROVE LinesType'
    BY <2>2 DEF Sends, wire
  <2>3. CASE Lost
    BY <2>3 DEF Lost, wire, browser
  <2> QED
    BY <1>1, <2>1, <2>2, <2>3 DEF Browser
<1>2. CASE HttpHandler
  <2>0. ASSUME NEW S, input \in Seq(S), input # <<>> PROVE Tail(input) \in Seq(S)
    BY <2>0
  <2>1. CASE Secured
    BY <2>1 DEF Secured, wire, browser
  <2>2. CASE GetLine
    BY <2>0, <2>2 DEF GetLine, Reads, Open, wire, browser
  <2>3. CASE HeaderLine
    BY <2>0, <2>3 DEF HeaderLine, Reads, Open, wire, browser
  <2>4. CASE BlankGet
    <3>1. /\ http.handler = "http" /\ input \in Seq(Line) /\ input # <<>>
          /\ asked = <<>> /\ input' = Tail(input)
      BY <2>4 DEF BlankGet, Reads
    <3>2. http'.handler # "framed"
      BY <2>4, <3>1 DEF BlankGet
    <3>3. answered' \in Seq({"101", "200", "404"})
      <4>1. answered' = answered \/ answered' = Append(answered, "404")
        BY <2>4 DEF BlankGet
      <4>2. "404" \in {"101", "200", "404"} /\ answered \in Seq({"101", "200", "404"})
        OBVIOUS
      <4>3. Append(answered, "404") \in Seq({"101", "200", "404"})
        BY <4>2, AtTheEnd
      <4> QED
        BY <4>1, <4>2, <4>3, Zenon
    <3>4. UNCHANGED <<asked, got, toEngine, toRelay>>
      BY <2>4 DEF BlankGet, wire, browser
    <3> QED
      BY <2>0, <3>1, <3>2, <3>3, <3>4
  <2>5. CASE BlankOld
    BY <2>0, <2>5 DEF BlankOld, Reads, Open, wire, browser
  <2>6. CASE BlankUpgrade
    <3>1. input' = <<>>
      BY <2>6, UpgradeLast DEF BlankUpgrade
    <3>2. http'.handler = "framed"
      BY <2>6 DEF BlankUpgrade
    <3>3. answered' \in Seq({"101", "200", "404"})
      BY <2>6, AtTheEnd DEF BlankUpgrade
    <3>4. input' \in Seq(Frame)
      BY <3>1
    <3>5. UNCHANGED <<asked, got, toEngine, toRelay>>
      BY <2>6 DEF BlankUpgrade, browser
    <3> QED
      BY <3>2, <3>3, <3>4, <3>5
  <2>7. CASE ClosedHttp
    BY <2>7 DEF ClosedHttp, wire, browser
  <2> QED
    BY <1>2, <2>1, <2>2, <2>3, <2>4, <2>5, <2>6, <2>7 DEF HttpHandler
<1>3. CASE GetHandler
  <2>1. CASE FileOpen
    BY <2>1 DEF FileOpen, wire, browser
  <2>2. CASE FileClosed
    <3>1. http.handler = "get" /\ http'.handler # "framed"
      BY <2>2 DEF FileClosed, PointersInv, HttpInv, FramedInv
    <3> QED
      BY <2>2, <3>1 DEF FileClosed, wire, browser
  <2>3. CASE FileFailed
    BY <2>3 DEF FileFailed, wire, browser
  <2>4. CASE ClosedGet
    BY <2>4 DEF ClosedGet, wire, browser
  <2> QED
    BY <1>3, <2>1, <2>2, <2>3, <2>4 DEF GetHandler
<1>4. CASE FramedHandler
  <2>0. ASSUME Passed(Head(input)), http.handler = "framed", input # <<>>
        PROVE  toEngine' \in Seq({"SSL"} \cup EngineLine)
    BY <2>0 DEF Passed, EngineLine
  <2>1. CASE ReadFrame
    <3>1. http.handler = "framed" /\ input # <<>> /\ http'.handler = "framed"
      BY <2>1 DEF ReadFrame, ReadsFrame
    <3> QED
      BY <2>0, <2>1, <3>1, FirstOf DEF ReadFrame, browser
  <2>2. CASE ReadTwo
    <3>1. http.handler = "framed" /\ input # <<>> /\ http'.handler = "framed"
      BY <2>2 DEF ReadTwo, ReadsFrame
    <3>2. Tail(Tail(input)) \in Seq(Frame)
      <4>1. input \in Seq(Frame) /\ Len(input) > 1
        BY <2>2, <3>1 DEF ReadTwo
      <4> DEFINE rest == Tail(input)
      <4>2. rest \in Seq(Frame) /\ Len(rest) > 0
        BY <4>1
      <4> HIDE DEF rest
      <4>3. rest # <<>>
        BY <4>2
      <4>4. Tail(rest) \in Seq(Frame)
        BY <4>2, <4>3, FirstOf
      <4> QED
        BY <4>4 DEF rest
    <3> QED
      BY <2>0, <2>2, <3>1, <3>2 DEF ReadTwo, browser
  <2>3. CASE ReadPart
    <3>1. http.handler = "framed" /\ input # <<>> /\ http'.handler = "framed"
      BY <2>3 DEF ReadPart, ReadsFrame
    <3> QED
      BY <2>3, <3>1, FirstOf DEF ReadPart, wire, browser
  <2>4. CASE ClosedFramed
    BY <2>4 DEF ClosedFramed, browser
  <2> QED
    BY <1>4, <2>1, <2>2, <2>3, <2>4 DEF FramedHandler
<1>5. CASE EngineHandler
  <2>1. CASE Connected
    <3>1. toRelay' \in Seq(RelayText)
      BY <2>1 DEF Connected, RelayText
    <3>2. toEngine' \in Seq({"SSL"} \cup EngineLine)
      <4>1. toEngine' = toEngine \/ toEngine' = Append(toEngine, "SSL")
        BY <2>1 DEF Connected
      <4>2. "SSL" \in {"SSL"} \cup EngineLine /\ toEngine \in Seq({"SSL"} \cup EngineLine)
        OBVIOUS
      <4>3. Append(toEngine, "SSL") \in Seq({"SSL"} \cup EngineLine)
        BY <4>2, AtTheEnd, Zenon
      <4> QED
        BY <4>1, <4>2, <4>3, Zenon
    <3> QED
      BY <2>1, <3>1, <3>2 DEF Connected, browser
  <2>2. CASE RelayLine
    BY <2>2, FirstOf DEF RelayLine, browser
  <2>3. CASE EngineSecured
    <3>1. http'.handler = http.handler
      BY <2>3 DEF EngineSecured
    <3> QED
      BY <2>3, <3>1 DEF EngineSecured, browser
  <2>4. CASE EngineLost
    BY <2>4 DEF EngineLost, browser
  <2>5. CASE EngineClosed
    <3>1. http'.handler = http.handler
      BY <2>5 DEF EngineClosed
    <3> QED
      BY <2>5, <3>1 DEF EngineClosed, browser
  <2> QED
    BY <1>5, <2>1, <2>2, <2>3, <2>4, <2>5 DEF EngineHandler
<1>6. CASE EngineReads
  <2>1. Head(toEngine) \in {"SSL"} \cup EngineLine /\ toEngine' \in Seq({"SSL"} \cup EngineLine)
    BY <1>6, FirstOf DEF EngineReads
  <2>2. \/ got' = got
        \/ Head(toEngine) \in EngineLine /\ got' = Append(got, Head(toEngine))
    <3>1. got' = IF Head(toEngine) = "SSL" THEN got ELSE Append(got, Head(toEngine))
      BY <1>6 DEF EngineReads
    <3>2. Head(toEngine) = "SSL" \/ Head(toEngine) \in EngineLine
      BY <2>1
    <3> QED
      BY <3>1, <3>2
  <2>3. \/ UNCHANGED toRelay
        \/ \E text \in RelayText : toRelay' = Append(toRelay, text)
    BY <1>6, <2>1 DEF EngineReads, EngineLine, RelayText
  <2>4. got' \in Seq(EngineLine)
    <3>1. CASE got' = got
      BY <3>1
    <3>2. CASE Head(toEngine) \in EngineLine /\ got' = Append(got, Head(toEngine))
      BY <3>2, AtTheEnd
    <3> QED
      BY <2>2, <3>1, <3>2
  <2>5. toRelay' \in Seq(RelayText)
    <3>1. CASE UNCHANGED toRelay
      BY <3>1
    <3>2. ASSUME NEW text \in RelayText, toRelay' = Append(toRelay, text)
          PROVE  toRelay' \in Seq(RelayText)
      BY <3>2, AtTheEnd
    <3> QED
      BY <2>3, <3>1, <3>2
  <2>6. UNCHANGED <<http, input, asked, answered>>
    BY <1>6 DEF EngineReads, browser
  <2> QED
    BY <2>1, <2>4, <2>5, <2>6
<1> QED
  BY <1>1, <1>2, <1>3, <1>4, <1>5, <1>6 DEF Next

\* Every frame that is added says how long it is.
LEMMA OutputStep ==
  ASSUME LinesType, OutputInv, Next
  PROVE  OutputInv'
<1>1. CASE ~RelayLine
  <2>1. UNCHANGED output
    BY <1>1 DEF Next, Browser, Asks, Sends, Lost, HttpHandler, Secured, GetLine, HeaderLine,
         BlankGet, BlankOld, BlankUpgrade, ClosedHttp, GetHandler, FileOpen, FileClosed, FileFailed,
         ClosedGet, FramedHandler, ReadFrame, ReadTwo, ReadPart, ClosedFramed, EngineHandler,
         Connected, EngineSecured, EngineLost, EngineClosed, EngineReads
  <2> QED
    BY <2>1 DEF OutputInv, FramesRight
<1>2. CASE RelayLine
  <2>1. CASE UNCHANGED output
    BY <2>1 DEF OutputInv, FramesRight
  <2>2. CASE output' # output
    <3>1. PICK size \in IF Head(toRelay) = "ASK" THEN Sizes ELSE {10} :
                 Framed(Head(toRelay), size)
      BY <1>2, <2>2 DEF RelayLine
    <3>2. size \in Nat
      BY HttpAssumption
    <3>3. Head(toRelay) \in RelayText
      BY <1>2, FirstOf DEF RelayLine, LinesType
    <3> DEFINE f == [text |-> Head(toRelay), length |-> LengthBytes(size), size |-> size + 2]
    <3>4. size < 65534 /\ output' = Append(output, f)
      BY <2>2, <3>1 DEF Framed
    <3>5. LengthBytes(size) \in Seq(0 .. 255) /\ Length(LengthBytes(size)) = size + 2
      BY <3>2, <3>4, LengthRight
    <3>6. f \in Frames /\ Length(f.length) = f.size
      BY <3>2, <3>3, <3>5 DEF Frames, RelayText
    <3> HIDE DEF f
    <3>7. /\ output \in Seq(Frames)
          /\ \A i \in DOMAIN output : Length(output[i].length) = output[i].size
      BY DEF OutputInv, FramesRight
    <3>8. /\ output' \in Seq(Frames) /\ DOMAIN output' = 1 .. Len(output) + 1
          /\ DOMAIN output = 1 .. Len(output) /\ Len(output) \in Nat
          /\ output'[Len(output) + 1] = f /\ \A i \in 1 .. Len(output) : output'[i] = output[i]
      BY <3>4, <3>6, <3>7
    <3>9. \A i \in DOMAIN output' : Length(output'[i].length) = output'[i].size
      <4>1. SUFFICES ASSUME NEW i \in DOMAIN output'
                     PROVE  Length(output'[i].length) = output'[i].size
        OBVIOUS
      <4>2. i \in 1 .. Len(output) \/ i = Len(output) + 1
        BY <3>8
      <4> QED
        BY <3>6, <3>7, <3>8, <4>2
    <3> QED
      BY <3>8, <3>9 DEF OutputInv, FramesRight
  <2> QED
    BY <2>1, <2>2
<1> QED
  BY <1>1, <1>2

-----------------------------------------------------------------------------
(* What is left to read. *)

\* Every step leaves the lines that belong to what the parser has read.
LEMMA ReadStep ==
  ASSUME RecordsInv, LinesType, PointersInv, ReadInv, Next
  PROVE  ReadInv'
<1> USE DEF RecordsInv, HttpRecord, ParserRecord, ReadInv, AtRequest
<1>1. CASE Browser
  <2>1. ASSUME NEW r \in Request, Asks(r) PROVE ReadInv'
    <3> DEFINE new == <<[line |-> "GET", of |-> r], [line |-> "header", of |-> r],
                        [line |-> "blank", of |-> r]>>
    <3>1. /\ http.st = "open" /\ http.handler # "framed" /\ input' = input \o new
          /\ \A i \in DOMAIN input : input[i].of.upgrade = "none"
          /\ UNCHANGED <<http, parser>>
      BY <2>1 DEF Asks, Open
    <3>2. input \in Seq(Line) /\ Ordered(input)
      BY <3>1 DEF LinesType
    <3>3. /\ Ordered(input \o new) /\ input \o new # <<>>
          /\ Head(input \o new) = IF input = <<>> THEN [line |-> "GET", of |-> r] ELSE Head(input)
      BY <3>1, <3>2, OrderedAsk
    <3> HIDE DEF new
    <3>4. Ordered(input') /\ input' # <<>>
      BY <3>1, <3>3
    <3>5. input # <<>> => Head(input') = Head(input)
      BY <3>1, <3>3
    <3>6. input = <<>> => Head(input').line = "GET"
      BY <3>1, <3>3
    <3> QED
      BY <3>1, <3>4, <3>5, <3>6
  <2>2. ASSUME NEW f \in Frame, Sends(f) PROVE ReadInv'
    BY <2>2 DEF Sends, Open
  <2>3. CASE Lost
    BY <2>3 DEF Lost
  <2> QED
    BY <1>1, <2>1, <2>2, <2>3 DEF Browser
<1>2. CASE HttpHandler
  <2>0. ASSUME NEW line, Reads(line)
        PROVE  /\ http.st = "open" /\ http.handler = "http" /\ Head(input).line = line
               /\ input # <<>> /\ Ordered(Tail(input))
               /\ line = "GET" => Tail(input) # <<>> /\ Head(Tail(input)).line = "header"
               /\ line = "header" => /\ Tail(input) # <<>> /\ Head(Tail(input)).line = "blank"
                                     /\ Head(Tail(input)).of = Head(input).of
               /\ line = "blank" /\ Tail(input) # <<>> => Head(Tail(input)).line = "GET"
    <3>1. /\ http.st = "open" /\ http.handler = "http" /\ Head(input).line = line
          /\ input # <<>>
      BY <2>0 DEF Reads, Open
    <3>2. input \in Seq(Line) /\ Ordered(input)
      BY <3>1 DEF LinesType
    <3> QED
      BY <3>1, <3>2, OrderedTail
  <2>1. CASE Secured
    BY <2>1 DEF Secured
  <2>2. CASE GetLine
    <3>1. /\ Reads("GET") /\ input' = Tail(input) /\ http' = [http EXCEPT !.data = "parser"]
      BY <2>2 DEF GetLine
    <3>2. http'.st = "open" /\ http'.handler = "http"
      BY <2>0, <3>1
    <3>3. parser'.live
      BY <2>2 DEF GetLine, NoParser
    <3> QED
      BY <2>0, <3>1, <3>2, <3>3
  <2>3. CASE HeaderLine
    <3>1. /\ Reads("header") /\ input' = Tail(input) /\ UNCHANGED http
          /\ parser' = [parser EXCEPT !.request = Head(input).of]
      BY <2>3 DEF HeaderLine
    <3>2. parser'.live = parser.live /\ parser'.request = Head(input).of
      BY <3>1
    <3>3. parser.live
      BY <2>3 DEF HeaderLine
    <3> QED
      BY <2>0, <3>1, <3>2, <3>3
  <2>4. CASE BlankGet
    <3>1. Reads("blank") /\ input' = Tail(input)
      BY <2>4 DEF BlankGet
    <3>2. \/ http' = [http EXCEPT !.handler = "get", !.reads = FALSE]
          \/ http' = [http EXCEPT !.st = "closing"]
      BY <2>4 DEF BlankGet
    <3>3. \/ http'.st = "open" /\ http'.handler = "get"
          \/ http'.st = "closing"
      BY <2>0, <3>1, <3>2
    <3> QED
      BY <2>0, <3>1, <3>3
  <2>5. CASE BlankOld
    <3>1. /\ Reads("blank") /\ input' = Tail(input) /\ parser' = NoParser
          /\ http' = [http EXCEPT !.data = "NULL"]
      BY <2>5 DEF BlankOld, FreeParser
    <3>2. http'.st = "open" /\ http'.handler = "http"
      BY <2>0, <3>1
    <3> QED
      BY <2>0, <3>1, <3>2, Records
  <2>6. CASE BlankUpgrade
    <3>1. http'.handler = "framed" /\ http'.st = "open"
      BY <2>6 DEF BlankUpgrade, Reads, Open
    <3> QED
      BY <3>1
  <2>7. CASE ClosedHttp
    BY <2>7 DEF ClosedHttp
  <2> QED
    BY <1>2, <2>1, <2>2, <2>3, <2>4, <2>5, <2>6, <2>7 DEF HttpHandler
<1>3. CASE GetHandler
  <2>1. CASE FileOpen
    BY <2>1 DEF FileOpen
  <2>2. CASE FileClosed
    <3>1. http.handler = "get" /\ http.st # "tls" /\ UNCHANGED input
      BY <2>2 DEF FileClosed, PointersInv, HttpInv, FramedInv, GetInv
    <3>2. CASE UNCHANGED <<parser, http>>
      BY <3>1, <3>2
    <3>3. CASE http' = [http EXCEPT !.handler = "http", !.reads = TRUE, !.data = "NULL"]
               /\ parser' = NoParser
      <4>1. http'.handler = "http" /\ http'.st = http.st
        BY <3>3
      <4>2. ~parser'.live
        BY <3>3, Records
      <4> QED
        BY <3>1, <4>1, <4>2
    <3>4. CASE http' = [http EXCEPT !.st = "closing"]
      BY <3>1, <3>4
    <3> QED
      BY <2>2, <3>2, <3>3, <3>4 DEF FileClosed, FreeParser
  <2>3. CASE FileFailed
    BY <2>3 DEF FileFailed
  <2>4. CASE ClosedGet
    BY <2>4 DEF ClosedGet
  <2> QED
    BY <1>3, <2>1, <2>2, <2>3, <2>4 DEF GetHandler
<1>4. CASE FramedHandler
  <2>1. http.handler = "framed" /\ http'.handler = "framed" /\ http.st # "tls" /\ http'.st # "tls"
    <3>1. http.handler = "framed" /\ http.st # "tls"
      BY <1>4 DEF FramedHandler, ReadFrame, ReadTwo, ReadPart, ReadsFrame, ClosedFramed,
                  PointersInv, FramedInv
    <3>2. CASE ReadFrame
      BY <3>1, <3>2 DEF ReadFrame
    <3>3. CASE ReadTwo
      BY <3>1, <3>3 DEF ReadTwo
    <3>4. CASE ReadPart
      BY <3>1, <3>4 DEF ReadPart
    <3>5. CASE ClosedFramed
      BY <3>1, <3>5 DEF ClosedFramed
    <3> QED
      BY <1>4, <3>1, <3>2, <3>3, <3>4, <3>5 DEF FramedHandler
  <2> QED
    BY <2>1
<1>5. CASE EngineHandler \/ EngineReads
  <2>1. UNCHANGED <<input, parser>>
    BY <1>5 DEF EngineHandler, Connected, RelayLine, EngineSecured, EngineLost, EngineClosed,
                EngineReads, browser
  <2>2. \/ UNCHANGED http \/ http' = [http EXCEPT !.reads = TRUE]
        \/ http' = [http EXCEPT !.st = "closing"]
    BY <1>5 DEF EngineHandler, Connected, RelayLine, EngineSecured, EngineLost, EngineClosed,
                EngineReads, browser
  <2>3. http'.handler = http.handler /\ http'.st \in {http.st, "closing"}
    BY <2>2
  <2> QED
    BY <2>1, <2>3
<1> QED
  BY <1>1, <1>2, <1>3, <1>4, <1>5 DEF Next

-----------------------------------------------------------------------------
(* Before the relay is secured. *)

\* The relay says nothing but SSL until its connection is secured, and the browser
\* is not read until then.
LEMMA SecureStep ==
  ASSUME RecordsInv, LinesType, PointersInv, SecureInv, Next
  PROVE  SecureInv'
<1> USE DEF RecordsInv, HttpRecord, RelayRecord, EngineRecord, SecureInv
<1>0. /\ engine.st # "none" => http.handler = "framed"
      /\ http.st # "closed" /\ engine.st # "none" => engine.data /\ relay.http
      /\ http.st = "closed" => ~relay.ssl \/ relay = NoRelay
      /\ engine.st \in {"connecting", "open"} => http.st # "closed"
  BY DEF PointersInv, HttpInv, GetInv, FramedInv, NoEngine, NoRelay
<1>ssl. http'.ssl = http.ssl
  BY SslKept
<1>1. ASSUME UNCHANGED <<engine, auth, toEngine, toRelay, got>>,
             http'.reads /\ http'.handler = "framed" => http.reads /\ http.handler = "framed",
             relay'.ssl <=> relay.ssl
      PROVE  SecureInv'
  BY <1>1, <1>ssl
<1>2. CASE Browser
  <2>1. ASSUME NEW r \in Request, Asks(r) PROVE SecureInv'
    BY <1>1, <2>1 DEF Asks, wire
  <2>2. ASSUME NEW f \in Frame, Sends(f) PROVE SecureInv'
    BY <1>1, <2>2 DEF Sends, wire
  <2>3. CASE Lost
    BY <1>1, <2>3 DEF Lost, wire
  <2> QED
    BY <1>2, <2>1, <2>2, <2>3 DEF Browser
<1>3. CASE HttpHandler
  <2>1. CASE Secured
    BY <1>1, <2>1 DEF Secured, wire
  <2>2. CASE GetLine
    BY <1>1, <2>2 DEF GetLine, wire
  <2>3. CASE HeaderLine
    BY <1>1, <2>3 DEF HeaderLine, wire
  <2>4. CASE BlankGet
    <3>1. http.handler = "http" /\ UNCHANGED <<relay, engine, auth, toEngine, toRelay, got>>
      BY <2>4 DEF BlankGet, Reads, wire
    <3>2. \/ http' = [http EXCEPT !.handler = "get", !.reads = FALSE]
          \/ http' = [http EXCEPT !.st = "closing"]
      BY <2>4 DEF BlankGet
    <3>3. http'.handler # "framed"
      BY <3>1, <3>2
    <3> QED
      BY <1>1, <3>1, <3>3
  <2>5. CASE BlankOld
    BY <1>1, <2>5 DEF BlankOld, wire
  <2>6. CASE BlankUpgrade
    <3>1. http.handler = "http" /\ UNCHANGED <<auth, toEngine, toRelay, got>>
      BY <2>6 DEF BlankUpgrade, Reads
    <3>2. engine.st = "none" /\ engine.tls = "plain" /\ toEngine = <<>> /\ toRelay = <<>>
      BY <3>1 DEF PointersInv, HttpInv, NoEngine
    <3>3. engine'.st = "connecting" /\ engine'.tls = "plain" /\ ~http'.reads /\ ~relay'.ssl
      BY <2>6 DEF BlankUpgrade
    <3>4. <<>> \in Seq(EngineLine)
      OBVIOUS
    <3> QED
      BY <1>ssl, <3>1, <3>2, <3>3, <3>4
  <2>7. CASE ClosedHttp
    BY <1>1, <2>7 DEF ClosedHttp, wire
  <2> QED
    BY <1>3, <2>1, <2>2, <2>3, <2>4, <2>5, <2>6, <2>7 DEF HttpHandler
<1>4. CASE GetHandler
  <2>1. CASE FileOpen
    BY <1>1, <2>1 DEF FileOpen, wire
  <2>2. CASE FileClosed
    <3>1. http.handler = "get" /\ UNCHANGED <<relay, engine, auth, toEngine, toRelay, got>>
      BY <2>2 DEF FileClosed, wire, PointersInv, HttpInv, FramedInv
    <3>2. \/ UNCHANGED http \/ http' = [http EXCEPT !.st = "closing"]
          \/ http' = [http EXCEPT !.handler = "http", !.reads = TRUE, !.data = "NULL"]
      BY <2>2 DEF FileClosed
    <3>3. http'.handler # "framed"
      BY <3>1, <3>2
    <3> QED
      BY <1>1, <3>1, <3>3
  <2>3. CASE FileFailed
    BY <1>1, <2>3 DEF FileFailed, wire
  <2>4. CASE ClosedGet
    BY <1>1, <2>4 DEF ClosedGet, wire
  <2> QED
    BY <1>4, <2>1, <2>2, <2>3, <2>4 DEF GetHandler
<1>5. CASE FramedHandler
  <2>1. ASSUME ReadsFrame, Passed(Head(input)),
               UNCHANGED <<engine, auth, toRelay, got, relay>>,
               http' = IF Head(input) \in {"CLOSE", "BAD"}
                       THEN [http EXCEPT !.st = "closing"] ELSE http
        PROVE  SecureInv'
    <3>1. http.handler = "framed" /\ http.reads
      BY <2>1 DEF ReadsFrame
    <3>2. toEngine \in Seq(EngineLine) /\ engine.tls = (IF http.ssl THEN "secure" ELSE "plain")
      BY <3>1
    <3>3. toEngine' \in Seq(EngineLine)
      <4>1. \/ toEngine' = toEngine
            \/ Head(input) \in EngineLine /\ toEngine' = Append(toEngine, Head(input))
        BY <2>1 DEF Passed, EngineLine
      <4> QED
        BY <3>2, <4>1, AtTheEnd
    <3>4. engine.st \notin {"none", "connecting"}
      BY <3>1
    <3> QED
      BY <1>ssl, <2>1, <3>2, <3>3, <3>4
  <2>2. CASE ReadFrame
    BY <2>1, <2>2 DEF ReadFrame
  <2>3. CASE ReadTwo
    BY <2>1, <2>3 DEF ReadTwo
  <2>4. CASE ReadPart
    BY <1>1, <2>4 DEF ReadPart, wire
  <2>5. CASE ClosedFramed
    <3>1. UNCHANGED <<auth, toEngine, toRelay, got>>
          /\ http.handler = "framed" /\ engine.st # "none"
      BY <2>5 DEF ClosedFramed, PointersInv, FramedInv
    <3>2. UNCHANGED engine \/ engine' = [engine EXCEPT !.st = "closing", !.data = FALSE]
      BY <2>5 DEF ClosedFramed
    <3>3. engine'.tls = engine.tls /\ engine'.st \in {"closing", engine.st}
      BY <3>2
    <3>4. ~relay'.ssl /\ http'.reads = http.reads
      BY <2>5 DEF ClosedFramed, NoRelay
    <3> QED
      BY <1>ssl, <3>1, <3>3, <3>4
  <2> QED
    BY <1>5, <2>2, <2>3, <2>4, <2>5 DEF FramedHandler
<1>6. CASE EngineHandler
  <2>1. CASE Connected
    <3>1. /\ engine.st = "connecting" /\ engine' = [engine EXCEPT !.st = "open"]
          /\ toRelay' = Append(toRelay, "WELCOME") /\ UNCHANGED <<auth, got>>
      BY <2>1 DEF Connected
    <3>2. /\ engine.data /\ relay.http /\ engine.tls = "plain" /\ toEngine = <<>>
          /\ toRelay = <<>> /\ ~auth /\ got = <<>> /\ (http.handler = "framed" => ~http.reads)
      BY <1>0, <3>1
    <3>3. engine'.st = "open" /\ engine'.tls = "plain" /\ toRelay' = <<"WELCOME">>
      BY <3>1, <3>2
    <3>4. \A i \in DOMAIN toRelay' : toRelay'[i] # "SSL"
      BY <3>3
    <3>5. CASE http.ssl
      <4>1. toEngine' = <<"SSL">> /\ UNCHANGED http
        BY <2>1, <3>2, <3>5 DEF Connected
      <4> QED
        BY <3>1, <3>2, <3>3, <3>4, <3>5, <4>1
    <3>6. CASE ~http.ssl
      <4>1. UNCHANGED <<toEngine, relay>>
        BY <2>1, <3>2, <3>6 DEF Connected
      <4> QED
        BY <1>ssl, <3>1, <3>2, <3>3, <3>4, <3>6, <4>1
    <3> QED
      BY <3>5, <3>6
  <2>2. CASE RelayLine
    <3>1. /\ engine.st = "open" /\ engine.tls # "negotiating" /\ toRelay # <<>>
          /\ toRelay' = Tail(toRelay) /\ UNCHANGED <<http, relay, auth, toEngine, got>>
      BY <2>2 DEF RelayLine
    <3>2. /\ Head(toRelay) = toRelay[1] /\ 1 \in DOMAIN toRelay
          /\ \A i \in DOMAIN toRelay' : toRelay'[i] = toRelay[i + 1] /\ i + 1 \in DOMAIN toRelay
      BY <3>1 DEF LinesType
    <3>3. CASE Head(toRelay) = "SSL" /\ relay.ssl
      <4>1. engine' = [engine EXCEPT !.tls = "negotiating"]
        BY <2>2, <3>3 DEF RelayLine
      <4>2. engine'.tls = "negotiating" /\ engine'.st = "open"
        BY <3>1, <4>1
      <4>3. engine.tls = "plain"
        BY <3>1, <3>3
      <4>4. toEngine = <<>> /\ http.ssl
        BY <3>2, <3>3, <4>3
      <4> QED
        BY <3>1, <4>2, <4>3, <4>4
    <3>4. CASE ~(Head(toRelay) = "SSL" /\ relay.ssl)
      <4>1. UNCHANGED engine
        BY <2>2, <3>4 DEF RelayLine
      <4>2. http.ssl /\ engine.tls = "plain" /\ toEngine # <<>> =>
              \A i \in DOMAIN toRelay' : toRelay'[i] # "SSL"
        BY <3>2
      <4> QED
        BY <3>1, <4>1, <4>2
    <3> QED
      BY <3>3, <3>4
  <2>3. CASE EngineSecured
    <3>1. /\ engine.st = "open" /\ engine.tls = "negotiating"
          /\ engine' = [engine EXCEPT !.tls = "secure"]
          /\ UNCHANGED <<auth, toEngine, toRelay, got>>
      BY <2>3 DEF EngineSecured
    <3>2. engine.data /\ toEngine = <<>>
      BY <1>0, <3>1
    <3>3. relay' = [relay EXCEPT !.ssl = FALSE]
      BY <2>3, <3>2 DEF EngineSecured
    <3>4. ~relay'.ssl /\ engine'.st = "open" /\ engine'.tls = "secure" /\ http.ssl
      BY <3>1, <3>3
    <3>5. <<>> \in Seq(EngineLine)
      OBVIOUS
    <3> QED
      BY <1>ssl, <3>1, <3>2, <3>4, <3>5
  <2>4. CASE EngineLost
    <3>1. /\ engine' = [engine EXCEPT !.st = "closing"]
          /\ UNCHANGED <<http, relay, auth, toEngine, toRelay, got>>
      BY <2>4 DEF EngineLost
    <3>2. engine'.st = "closing" /\ engine'.tls = engine.tls
      BY <3>1
    <3> QED
      BY <3>1, <3>2
  <2>5. CASE EngineClosed
    <3>1. /\ engine' = [engine EXCEPT !.st = "closed"]
          /\ UNCHANGED <<auth, toEngine, toRelay, got>>
      BY <2>5 DEF EngineClosed
    <3>2. engine'.st = "closed" /\ engine'.tls = engine.tls
      BY <3>1
    <3>3. UNCHANGED relay \/ relay' = [relay EXCEPT !.engine = FALSE]
      BY <2>5 DEF EngineClosed
    <3>4. relay'.ssl = relay.ssl
      BY <3>3
    <3>5. UNCHANGED http \/ http' = [http EXCEPT !.st = "closing"]
      BY <2>5 DEF EngineClosed
    <3>6. http'.reads = http.reads /\ http'.handler = http.handler
      BY <3>5
    <3> QED
      BY <1>ssl, <3>1, <3>2, <3>4, <3>6
  <2> QED
    BY <1>6, <2>1, <2>2, <2>3, <2>4, <2>5 DEF EngineHandler
<1>7. CASE EngineReads
  <2>1. /\ engine.st = "open" /\ engine.tls # "negotiating" /\ toEngine # <<>>
        /\ toEngine' = Tail(toEngine) /\ UNCHANGED <<http, relay>>
    BY <1>7 DEF EngineReads
  <2>2. CASE engine.tls = "plain" /\ http.ssl
    <3>1. toEngine = <<"SSL">>
      BY <2>1, <2>2
    <3>2. Head(toEngine) = "SSL" /\ toEngine' = <<>>
      BY <2>1, <3>1
    <3>3. UNCHANGED <<engine, auth, got>>
      BY <1>7, <3>2 DEF EngineReads
    <3> QED
      BY <2>1, <2>2, <3>2, <3>3
  <2>3. CASE engine.tls = "secure" \/ ~http.ssl
    <3>1. toEngine \in Seq(EngineLine)
      BY <2>3
    <3>2. toEngine' \in Seq(EngineLine) /\ Head(toEngine) \in EngineLine
      BY <2>1, <3>1, FirstOf
    <3>3. UNCHANGED engine \/ engine' = [engine EXCEPT !.st = "closing"]
      BY <1>7, <3>2 DEF EngineReads, EngineLine
    <3>4. engine'.tls = engine.tls /\ engine'.st \in {"open", "closing"}
      BY <2>1, <3>3
    <3>5. auth' => auth \/ ~SslOnly \/ engine.tls = "secure"
      BY <1>7, <3>2 DEF EngineReads, EngineLine
    <3> QED
      BY <2>1, <2>3, <3>2, <3>4, <3>5
  <2> QED
    BY <2>1, <2>2, <2>3
<1> QED
  BY <1>2, <1>3, <1>4, <1>5, <1>6, <1>7 DEF Next

-----------------------------------------------------------------------------
(* What the engine reads. *)

\* Every step leaves what the engine has read, what is on its way and what is
\* left to read in the order in which the browser said it.
LEMMA OrderStep ==
  ASSUME RecordsInv, LinesType, PointersInv, ReadInv, SecureInv, OrderInv, Next
  PROVE  OrderInv'
<1> USE DEF RecordsInv, HttpRecord, EngineRecord
<1> DEFINE Odd == odd \cap {"two", "part"} # {}
<1>0. /\ engine.st # "none" => http.handler = "framed"
      /\ http.st = "open" /\ http.handler = "framed" => relay.engine
      /\ got \in Seq(EngineLine) /\ asked \in Seq(Frame) /\ OnWay \in Seq({"SSL"} \cup EngineLine)
  BY DEF PointersInv, HttpInv, GetInv, FramedInv, NoEngine, LinesType, OnWay
<1>ssl. http'.ssl = http.ssl
  BY SslKept
<1>1. ASSUME UNCHANGED <<got, asked, OnWay>>,
             odd' \cap {"two", "part"} = odd \cap {"two", "part"},
             http'.handler = "framed" /\ http'.st = "open" =>
               UNCHANGED input /\ http.handler = "framed" /\ http.st = "open"
      PROVE  OrderInv'
  BY <1>1, Zenon DEF OrderInv
<1>2. ASSUME UNCHANGED <<engine, toEngine>> PROVE UNCHANGED OnWay
  BY <1>2, <1>ssl DEF OnWay
<1>3. CASE Browser
  <2>1. ASSUME NEW r \in Request, Asks(r) PROVE OrderInv'
    <3>1. UNCHANGED <<got, asked, engine, toEngine, http>> /\ http.handler # "framed"
      BY <2>1 DEF Asks, wire
    <3>2. odd' \cap {"two", "part"} = odd \cap {"two", "part"}
      BY <2>1 DEF Asks
    <3> QED
      BY <1>1, <1>2, <3>1, <3>2
  <2>2. ASSUME NEW f \in Frame, Sends(f) PROVE OrderInv'
    <3>1. /\ http.st = "open" /\ http.handler = "framed"
          /\ asked' = Append(asked, f) /\ input' = Append(input, f)
          /\ UNCHANGED <<http, got, OnWay, odd>>
      BY <1>2, <2>2 DEF Sends, Open, wire
    <3>2. CASE Odd
      BY <3>1, <3>2 DEF OrderInv
    <3>3. CASE ~Odd
      <4> DEFINE n == Len(got) + Len(OnWay)
      <4>1. /\ Len(got) \in Nat /\ Len(OnWay) \in Nat /\ Len(asked) \in Nat
            /\ n + Len(input) = Len(asked) /\ input \in Seq(Frame)
            /\ \A i \in 1 .. Len(got) : got[i] = asked[i]
            /\ \A i \in 1 .. Len(OnWay) : OnWay[i] = asked[Len(got) + i]
            /\ \A i \in 1 .. Len(input) : input[i] = asked[n + i]
        BY <1>0, <3>1, <3>3, SMTT(30) DEF OrderInv, LinesType
      <4>2. /\ Len(asked') = Len(asked) + 1 /\ asked'[Len(asked) + 1] = f
            /\ \A i \in 1 .. Len(asked) : asked'[i] = asked[i]
        BY <1>0, <3>1, AtTheEnd
      <4>3. /\ Len(input') = Len(input) + 1 /\ input'[Len(input) + 1] = f
            /\ \A i \in 1 .. Len(input) : input'[i] = input[i] /\ Len(input) \in Nat
        BY <3>1, <4>1, AtTheEnd
      <4> HIDE DEF n
      <4>0. n \in Nat /\ Len(input) \in Nat /\ n + Len(input) = Len(asked)
        BY <4>1, <4>3 DEF n
      <4>4. \A i \in 1 .. Len(got) : got[i] = asked'[i]
        <5>1. TAKE i \in 1 .. Len(got)
        <5>2. i \in 1 .. Len(asked)
          BY <4>0, <4>1 DEF n
        <5> QED
          BY <4>1, <4>2, <5>2
      <4>5. \A i \in 1 .. Len(OnWay) : OnWay[i] = asked'[Len(got) + i]
        <5>1. TAKE i \in 1 .. Len(OnWay)
        <5>2. Len(got) + i \in 1 .. Len(asked)
          BY <4>0, <4>1 DEF n
        <5> QED
          BY <4>1, <4>2, <5>2
      <4>6. \A i \in 1 .. Len(input') : input'[i] = asked'[n + i]
        <5>1. TAKE i \in 1 .. Len(input')
        <5>2. CASE i \in 1 .. Len(input)
          <6>1. n + i \in 1 .. Len(asked)
            BY <4>0, <5>2
          <6> QED
            BY <4>1, <4>2, <4>3, <5>2, <6>1
        <5>3. CASE i = Len(input) + 1
          <6>1. n + i = Len(asked) + 1
            BY <4>0, <5>3
          <6> QED
            BY <4>2, <4>3, <5>3, <6>1
        <5> QED
          BY <4>3, <5>2, <5>3
      <4>7. n <= Len(asked') /\ n + Len(input') = Len(asked')
        BY <4>0, <4>2, <4>3
      <4>8. UNCHANGED <<http, got, OnWay>>
        BY <3>1
      <4> QED
        BY <4>4, <4>5, <4>6, <4>7, <4>8, Zenon DEF OrderInv, n
    <3> QED
      BY <3>2, <3>3
  <2>3. CASE Lost
    <3>1. UNCHANGED <<got, asked, OnWay, odd>> /\ http'.st = "closing"
      BY <1>2, <2>3 DEF Lost, wire, browser
    <3> QED
      BY <1>1, <3>1
  <2> QED
    BY <1>3, <2>1, <2>2, <2>3 DEF Browser
<1>4. CASE HttpHandler /\ ~BlankUpgrade
  <2>1. UNCHANGED <<got, asked, engine, toEngine, odd>>
    BY <1>4 DEF HttpHandler, Secured, GetLine, HeaderLine, BlankGet, BlankOld, ClosedHttp, wire,
                browser
  <2>2. http'.handler # "framed"
    <3>1. http.handler = "http"
      BY <1>4 DEF HttpHandler, Secured, GetLine, HeaderLine, BlankGet, BlankOld, ClosedHttp,
                  Reads, ReadInv
    <3>2. \/ UNCHANGED http
          \/ \E st \in {"open", "closing", "closed"} : http' = [http EXCEPT !.st = st]
          \/ \E data \in {"NULL", "parser"} : http' = [http EXCEPT !.data = data]
          \/ http' = [http EXCEPT !.handler = "get", !.reads = FALSE]
      BY <1>4 DEF HttpHandler, Secured, GetLine, HeaderLine, BlankGet, BlankOld, ClosedHttp
    <3> QED
      BY <3>1, <3>2
  <2> QED
    BY <1>1, <1>2, <2>1, <2>2
<1>5. CASE BlankUpgrade
  <2>1. http.handler = "http" /\ UNCHANGED <<toEngine, got, asked, odd>> /\ engine'.tls = "plain"
    BY <1>5 DEF BlankUpgrade, Reads, browser
  <2>2. input' = <<>>
    BY <1>5, UpgradeLast DEF BlankUpgrade
  <2>3. engine.st = "none" /\ engine.tls = "plain" /\ asked = <<>>
    BY <2>1 DEF PointersInv, HttpInv, NoEngine, LinesType
  <2>4. got = <<>> /\ OnWay = <<>> /\ OnWay' = <<>>
    BY <1>ssl, <2>1, <2>3 DEF SecureInv, OnWay
  <2> QED
    BY <2>1, <2>2, <2>3, <2>4 DEF OrderInv
<1>6. CASE GetHandler
  <2>1. UNCHANGED <<got, asked, engine, toEngine>>
    BY <1>6 DEF GetHandler, FileOpen, FileClosed, FileFailed, ClosedGet, wire, browser
  <2>2. CASE FileFailed
    <3>1. http.handler # "framed" /\ UNCHANGED http
      BY <2>2 DEF FileFailed, PointersInv, FramedInv
    <3>2. odd' = odd \cup {"failed"}
      BY <2>2 DEF FileFailed
    <3>3. UNCHANGED OnWay
      BY <1>2, <2>1
    <3>4. odd' \cap {"two", "part"} = odd \cap {"two", "part"}
      BY <3>2
    <3> QED
      BY <2>1, <3>1, <3>3, <3>4, Zenon DEF OrderInv
  <2>3. CASE ~FileFailed
    <3>1. UNCHANGED odd
      BY <1>6, <2>3 DEF GetHandler, FileOpen, FileClosed, ClosedGet
    <3>2. CASE UNCHANGED http
      <4>1. http.handler # "framed" \/ UNCHANGED input
        BY <1>6, <2>3 DEF GetHandler, FileOpen, FileClosed, ClosedGet
      <4> QED
        BY <1>1, <1>2, <2>1, <3>1, <3>2, <4>1
    <3>3. CASE \/ http' = [http EXCEPT !.st = "closing"] \/ http' = [http EXCEPT !.st = "closed"]
      <4>1. http'.st # "open"
        BY <3>3
      <4> QED
        BY <1>1, <1>2, <2>1, <3>1, <4>1
    <3>4. CASE http' = [http EXCEPT !.handler = "http", !.reads = TRUE, !.data = "NULL"]
      <4>1. http'.handler # "framed"
        BY <3>4
      <4> QED
        BY <1>1, <1>2, <2>1, <3>1, <4>1
    <3> QED
      BY <1>6, <2>3, <3>2, <3>3, <3>4 DEF GetHandler, FileOpen, FileClosed, ClosedGet
  <2> QED
    BY <2>2, <2>3
<1>7. CASE FramedHandler
  <2>1. CASE ReadFrame
    <3> DEFINE f == Head(input)
               n == Len(got) + Len(OnWay)
    <3>1. /\ http.st = "open" /\ http.handler = "framed" /\ http.reads /\ input # <<>>
          /\ input' = Tail(input) /\ UNCHANGED <<engine, got, asked, odd>> /\ Passed(f)
      BY <2>1 DEF ReadFrame, ReadsFrame, Open, browser
    <3>2. /\ input \in Seq(Frame) /\ f \in Frame /\ relay.engine
          /\ engine.tls = "secure" \/ ~http.ssl
      BY <1>0, <3>1, FirstOf DEF LinesType, SecureInv
    <3>3. OnWay = toEngine /\ OnWay' = toEngine'
      BY <1>ssl, <3>1, <3>2 DEF OnWay
    <3>4. CASE f \in {"CLOSE", "BAD"}
      <4>1. http' = [http EXCEPT !.st = "closing"]
        BY <2>1, <3>4 DEF ReadFrame
      <4>2. http'.st = "closing"
        BY <4>1
      <4>3. toEngine' = toEngine
        BY <3>1, <3>4 DEF Passed
      <4> QED
        BY <1>1, <3>1, <3>3, <4>2, <4>3
    <3>5. CASE f \in EngineLine
      <4>1. UNCHANGED http /\ OnWay' = Append(OnWay, f)
        BY <2>1, <3>1, <3>2, <3>3, <3>5 DEF ReadFrame, Passed, EngineLine
      <4>2. CASE Odd
        BY <3>1, <4>2 DEF OrderInv
      <4>3. CASE ~Odd
        <5>1. /\ Len(got) \in Nat /\ Len(OnWay) \in Nat /\ Len(asked) \in Nat
              /\ n + Len(input) = Len(asked)
              /\ \A i \in 1 .. Len(got) : got[i] = asked[i]
              /\ \A i \in 1 .. Len(OnWay) : OnWay[i] = asked[Len(got) + i]
              /\ \A i \in 1 .. Len(input) : input[i] = asked[n + i]
          BY <1>0, <3>1, <4>3 DEF OrderInv
        <5>2. /\ f = input[1] /\ Len(input) \in Nat \ {0} /\ Len(input') = Len(input) - 1
              /\ \A i \in 1 .. Len(input) - 1 : input'[i] = input[i + 1]
          BY <3>1, <3>2, FirstOf
        <5>3. /\ Len(OnWay') = Len(OnWay) + 1 /\ OnWay'[Len(OnWay) + 1] = f
              /\ \A i \in 1 .. Len(OnWay) : OnWay'[i] = OnWay[i]
          <6>1. OnWay \in Seq(EngineLine)
            BY <3>2, <3>3 DEF SecureInv
          <6> DEFINE Longer(w, e, z) ==
                /\ Len(z) = Len(w) + 1 /\ z[Len(w) + 1] = e
                /\ \A i \in 1 .. Len(w) : z[i] = w[i]
          <6>2. ASSUME NEW w \in Seq(EngineLine), NEW e \in EngineLine
                PROVE  Longer(w, e, Append(w, e))
            BY AtTheEnd
          <6> HIDE DEF Longer
          <6>3. Longer(OnWay, f, Append(OnWay, f))
            BY <3>5, <6>1, <6>2, Zenon
          <6>4. Longer(OnWay, f, OnWay')
            BY <4>1, <6>3, Zenon
          <6> QED
            BY <6>4 DEF Longer
        <5>4. f = asked[Len(got) + Len(OnWay) + 1]
          BY <5>1, <5>2, SMTT(30)
        <5>5. \A i \in 1 .. Len(OnWay') : OnWay'[i] = asked[Len(got) + i]
          <6>1. TAKE i \in 1 .. Len(OnWay')
          <6>2. CASE i \in 1 .. Len(OnWay)
            BY <5>1, <5>3, <6>2
          <6>3. CASE i = Len(OnWay) + 1
            <7>1. Len(got) + i = Len(got) + Len(OnWay) + 1
              BY <5>1, <6>3
            <7> QED
              BY <5>3, <5>4, <6>3, <7>1
          <6> QED
            BY <5>1, <5>3, <6>2, <6>3
        <5>6. \A i \in 1 .. Len(input') : input'[i] = asked[Len(got) + Len(OnWay') + i]
          BY <5>1, <5>2, <5>3
        <5>7. /\ Len(got) + Len(OnWay') <= Len(asked)
              /\ Len(got) + Len(OnWay') + Len(input') = Len(asked)
          <6>1. /\ Len(got) \in Nat /\ Len(OnWay) \in Nat /\ Len(input) \in Nat \ {0}
                /\ Len(got) + Len(OnWay) + Len(input) = Len(asked)
                /\ Len(input') = Len(input) - 1 /\ Len(OnWay') = Len(OnWay) + 1
            BY <5>1, <5>2, <5>3
          <6> HIDE DEF n, f
          <6> QED
            BY <6>1
        <5>8. UNCHANGED <<http, got, asked>>
          BY <3>1, <4>1
        <5> HIDE DEF n, f
        <5> QED
          BY <5>1, <5>5, <5>6, <5>7, <5>8, Zenon DEF OrderInv
      <4> QED
        BY <4>2, <4>3
    <3> QED
      BY <3>2, <3>4, <3>5 DEF Frame, EngineLine
  <2>2. CASE ReadTwo \/ ReadPart
    <3>1. odd' \cap {"two", "part"} # {}
      BY <2>2 DEF ReadTwo, ReadPart
    <3> QED
      BY <3>1 DEF OrderInv
  <2>3. CASE ClosedFramed
    <3>1. UNCHANGED <<got, asked, toEngine, odd>> /\ http'.st = "closed"
      BY <2>3 DEF ClosedFramed, browser
    <3>2. UNCHANGED engine \/ engine' = [engine EXCEPT !.st = "closing", !.data = FALSE]
      BY <2>3 DEF ClosedFramed
    <3>3. engine'.tls = engine.tls
      BY <3>2
    <3>4. UNCHANGED OnWay
      BY <1>ssl, <3>1, <3>3 DEF OnWay
    <3> QED
      BY <1>1, <3>1, <3>4
  <2> QED
    BY <1>7, <2>1, <2>2, <2>3 DEF FramedHandler
<1>8. CASE EngineHandler
  <2>1. UNCHANGED <<got, asked, input, odd>>
    BY <1>8 DEF EngineHandler, Connected, RelayLine, EngineSecured, EngineLost, EngineClosed,
                browser
  <2>2. http'.handler = http.handler /\ (http'.st = "open" => http.st = "open")
    <3>1. \/ UNCHANGED http \/ http' = [http EXCEPT !.reads = TRUE]
          \/ http' = [http EXCEPT !.st = "closing"]
      BY <1>8 DEF EngineHandler, Connected, RelayLine, EngineSecured, EngineLost, EngineClosed
    <3> QED
      BY <3>1
  <2>3. UNCHANGED OnWay
    <3>1. CASE Connected
      <4>1. /\ engine.tls = "plain" /\ engine' = [engine EXCEPT !.st = "open"]
            /\ http.ssl \/ UNCHANGED toEngine
        BY <3>1 DEF Connected, SecureInv
      <4>2. engine'.tls = "plain"
        BY <4>1
      <4> QED
        BY <1>ssl, <4>1, <4>2 DEF OnWay
    <3>2. CASE RelayLine
      <4>1. UNCHANGED engine \/ engine' = [engine EXCEPT !.tls = "negotiating"]
        BY <3>2 DEF RelayLine
      <4>2. UNCHANGED toEngine
        BY <3>2 DEF RelayLine
      <4>3. CASE UNCHANGED engine
        BY <1>2, <4>2, <4>3
      <4>4. CASE engine' # engine
        <5>1. relay.ssl /\ engine'.tls = "negotiating"
          BY <3>2, <4>1, <4>4 DEF RelayLine
        <5>2. engine.tls # "secure" /\ http.ssl
          BY <5>1 DEF SecureInv
        <5> QED
          BY <1>ssl, <5>1, <5>2 DEF OnWay
      <4> QED
        BY <4>3, <4>4
    <3>3. CASE EngineSecured
      <4>1. engine.tls = "negotiating" /\ UNCHANGED toEngine
        BY <3>3 DEF EngineSecured
      <4>2. toEngine = <<>>
        BY <4>1 DEF SecureInv
      <4>3. OnWay = <<>> /\ OnWay' = <<>>
        BY <4>1, <4>2 DEF OnWay
      <4> QED
        BY <4>3
    <3>4. CASE EngineLost \/ EngineClosed
      <4>1. /\ UNCHANGED toEngine
            /\ \E st \in {"closing", "closed"} : engine' = [engine EXCEPT !.st = st]
        BY <3>4 DEF EngineLost, EngineClosed
      <4>2. engine'.tls = engine.tls
        BY <4>1
      <4> QED
        BY <1>ssl, <4>1, <4>2 DEF OnWay
    <3> QED
      BY <1>8, <3>1, <3>2, <3>3, <3>4 DEF EngineHandler
  <2> QED
    BY <1>1, <2>1, <2>2, <2>3
<1>9. CASE EngineReads
  <2>1. /\ engine.st = "open" /\ engine.tls # "negotiating" /\ toEngine # <<>>
        /\ toEngine' = Tail(toEngine) /\ UNCHANGED <<http, input, asked, odd>>
    BY <1>9 DEF EngineReads, browser
  <2>2. CASE engine.tls = "plain" /\ http.ssl
    <3>1. toEngine = <<"SSL">>
      BY <2>1, <2>2 DEF SecureInv
    <3>2. Head(toEngine) = "SSL"
      BY <3>1
    <3>3. UNCHANGED <<engine, got>>
      BY <1>9, <3>2 DEF EngineReads
    <3>4. UNCHANGED OnWay
      BY <1>ssl, <2>2, <3>3 DEF OnWay
    <3> QED
      BY <1>1, <2>1, <3>3, <3>4
  <2>3. CASE engine.tls = "secure" \/ ~http.ssl
    <3> DEFINE f == Head(toEngine)
    <3>1. toEngine \in Seq(EngineLine) /\ OnWay = toEngine
      BY <2>3 DEF SecureInv, OnWay
    <3>2. f \in EngineLine
      BY <2>1, <3>1, FirstOf
    <3>3. UNCHANGED engine \/ engine' = [engine EXCEPT !.st = "closing"]
      BY <1>9, <3>2 DEF EngineReads, EngineLine
    <3>4. engine'.tls = engine.tls
      BY <3>3
    <3>5. OnWay' = Tail(OnWay) /\ f = Head(OnWay) /\ OnWay # <<>> /\ OnWay \in Seq(EngineLine)
      BY <1>ssl, <2>1, <2>3, <3>1, <3>4 DEF OnWay
    <3>6. got' = Append(got, f)
      BY <1>9, <3>2 DEF EngineReads, EngineLine
    <3>7. CASE Odd
      BY <2>1, <3>7 DEF OrderInv
    <3>8. CASE ~Odd
      <4>1. /\ Len(got) \in Nat /\ Len(OnWay) \in Nat \ {0} /\ Len(asked) \in Nat
            /\ Len(got) + Len(OnWay) <= Len(asked)
            /\ \A i \in 1 .. Len(got) : got[i] = asked[i]
            /\ \A i \in 1 .. Len(OnWay) : OnWay[i] = asked[Len(got) + i]
        BY <1>0, <3>5, <3>8, FirstOf DEF OrderInv
      <4>2. /\ f = OnWay[1] /\ Len(OnWay') = Len(OnWay) - 1
            /\ \A i \in 1 .. Len(OnWay) - 1 : OnWay'[i] = OnWay[i + 1]
        BY <3>5, FirstOf
      <4>3. /\ Len(got') = Len(got) + 1 /\ got'[Len(got) + 1] = f
            /\ \A i \in 1 .. Len(got) : got'[i] = got[i]
        BY <1>0, <3>2, <3>6, AtTheEnd
      <4>4. f = asked[Len(got) + 1]
        BY <4>1, <4>2
      <4>5. \A i \in 1 .. Len(got') : got'[i] = asked[i]
        BY <4>1, <4>3, <4>4
      <4>6. \A i \in 1 .. Len(OnWay') : OnWay'[i] = asked[Len(got') + i]
        BY <4>1, <4>2, <4>3
      <4>7. Len(got') + Len(OnWay') = Len(got) + Len(OnWay)
        BY <4>1, <4>2, <4>3
      <4>8. CASE http.handler = "framed" /\ http.st = "open"
        <5>1. /\ Len(got) + Len(OnWay) + Len(input) = Len(asked)
              /\ \A i \in 1 .. Len(input) : input[i] = asked[Len(got) + Len(OnWay) + i]
          BY <3>8, <4>8 DEF OrderInv
        <5>2. /\ Len(got') + Len(OnWay') + Len(input') = Len(asked')
              /\ \A i \in 1 .. Len(input') : input'[i] = asked'[Len(got') + Len(OnWay') + i]
          BY <2>1, <4>7, <5>1
        <5> QED
          BY <2>1, <4>1, <4>5, <4>6, <4>7, <5>2 DEF OrderInv
      <4>9. CASE ~(http.handler = "framed" /\ http.st = "open")
        BY <2>1, <4>1, <4>5, <4>6, <4>7, <4>9 DEF OrderInv
      <4> QED
        BY <4>8, <4>9
    <3> QED
      BY <3>7, <3>8
  <2> QED
    BY <2>1, <2>2, <2>3
<1> QED
  BY <1>3, <1>4, <1>5, <1>6, <1>7, <1>8, <1>9 DEF Next

-----------------------------------------------------------------------------
(* What is never freed. *)

\* A string is lost only after an upgrade was asked for.
LEMMA LeakStep ==
  ASSUME RecordsInv, LinesType, LeakInv, Next
  PROVE  LeakInv'
<1> USE DEF LeakInv
<1> DEFINE Free(q) == \A i \in DOMAIN q : q[i].of.upgrade = "none"
<1>1. leaked' \subseteq {"upgrade", "version"}
  <2>1. leaked' \subseteq leaked \cup {"upgrade", "version"}
    BY DEF Next, Browser, Asks, Sends, Lost, HttpHandler, Secured, GetLine, HeaderLine, BlankGet,
           BlankOld, BlankUpgrade, ClosedHttp, FreeParser, GetHandler, FileOpen, FileClosed,
           FileFailed, ClosedGet, FramedHandler, ReadFrame, ReadTwo, ReadPart, ClosedFramed,
           EngineHandler, Connected, RelayLine, EngineSecured, EngineLost, EngineClosed,
           EngineReads, browser
  <2> QED
    BY <2>1
<1>2. SUFFICES ASSUME "upgrade" \notin odd'
               PROVE  /\ leaked' = {} /\ parser'.request.upgrade = "none"
                      /\ http'.handler # "framed" /\ Free(input')
  BY <1>1
<1>3. odd \subseteq odd'
  BY DEF Next, Browser, Asks, Sends, Lost, HttpHandler, Secured, GetLine, HeaderLine, BlankGet,
         BlankOld, BlankUpgrade, ClosedHttp, GetHandler, FileOpen, FileClosed,
         FileFailed, ClosedGet, FramedHandler, ReadFrame, ReadTwo, ReadPart, ClosedFramed,
         EngineHandler, Connected, RelayLine, EngineSecured, EngineLost, EngineClosed,
         EngineReads
<1>4. /\ leaked = {} /\ parser.request.upgrade = "none" /\ http.handler # "framed"
      /\ Free(input) /\ input \in Seq(Line)
  BY <1>2, <1>3 DEF LinesType
<1>5. ASSUME input # <<>> PROVE Free(Tail(input)) /\ Head(input).of.upgrade = "none"
  <2>1. /\ Head(input) = input[1] /\ 1 \in DOMAIN input
        /\ \A i \in DOMAIN Tail(input) : Tail(input)[i] = input[i + 1] /\ i + 1 \in DOMAIN input
    BY <1>4, <1>5
  <2> QED
    BY <1>4, <2>1
<1>6. CASE Browser
  <2>1. ASSUME NEW r \in Request, Asks(r) PROVE LeakInv'
    <3>1. r.upgrade = "none"
      BY <1>2, <2>1 DEF Asks
    <3> DEFINE new == <<[line |-> "GET", of |-> r], [line |-> "header", of |-> r],
                        [line |-> "blank", of |-> r]>>
    <3>2. input' = input \o new /\ UNCHANGED <<leaked, parser, http>>
      BY <2>1 DEF Asks
    <3>3. Len(new) = 3 /\ new[1].of = r /\ new[2].of = r /\ new[3].of = r
      OBVIOUS
    <3>4. new \in Seq(Line)
      BY DEF Line
    <3> HIDE DEF new
    <3>5. \A i \in DOMAIN new : new[i].of.upgrade = "none"
      BY <3>1, <3>3, <3>4
    <3>6. \A i \in DOMAIN input' :
            \/ i \in DOMAIN input /\ input'[i] = input[i]
            \/ i - Len(input) \in DOMAIN new /\ input'[i] = new[i - Len(input)]
      BY <1>4, <3>2, <3>4
    <3>7. Free(input')
      BY <1>4, <3>5, <3>6
    <3> QED
      BY <1>1, <1>4, <3>2, <3>7
  <2>2. ASSUME NEW f \in Frame, Sends(f) PROVE LeakInv'
    BY <1>4, <2>2 DEF Sends
  <2>3. CASE Lost
    <3>1. UNCHANGED <<parser, input, leaked>> /\ http' = [http EXCEPT !.st = "closing"]
      BY <2>3 DEF Lost
    <3>2. http'.handler # "framed"
      BY <1>4, <3>1 DEF RecordsInv, HttpRecord
    <3> QED
      BY <1>1, <1>4, <3>1, <3>2
  <2> QED
    BY <1>2, <1>6, <2>1, <2>2, <2>3 DEF Browser
<1>7. CASE HttpHandler \/ GetHandler
  <2>1. parser'.request.upgrade = "none" /\ leaked' = {}
    <3>1. CASE HeaderLine
      <4>1. /\ parser' = [parser EXCEPT !.request = Head(input).of]
            /\ Head(input).of.upgrade = "none" /\ leaked' = leaked
        BY <1>5, <3>1 DEF HeaderLine, Reads
      <4> QED
        BY <1>4, <4>1 DEF RecordsInv, ParserRecord
    <3>2. CASE ~HeaderLine
      <4>1. \/ UNCHANGED parser \/ \E b \in BOOLEAN : parser' = [parser EXCEPT !.file = b]
            \/ parser' = NoParser \/ parser' = [NoParser EXCEPT !.live = TRUE]
        <5>1. CASE Secured \/ GetLine \/ BlankOld \/ BlankUpgrade \/ ClosedHttp
          BY <5>1, Zenon DEF Secured, GetLine, BlankOld, BlankUpgrade, ClosedHttp, FreeParser
        <5>2. CASE BlankGet
          <6>1. parser' = [parser EXCEPT !.file = TRUE] \/ UNCHANGED parser
            BY <5>2, Zenon DEF BlankGet
          <6> QED
            BY <6>1
        <5>3. CASE FileClosed
          <6>1. \/ UNCHANGED parser \/ parser' = NoParser \/ parser' = [parser EXCEPT !.file = FALSE]
            BY <5>3, Zenon DEF FileClosed, FreeParser
          <6> QED
            BY <6>1
        <5>4. CASE FileOpen \/ FileFailed \/ ClosedGet
          BY <5>4, Zenon DEF FileOpen, FileFailed, ClosedGet, FreeParser
        <5> QED
          BY <1>7, <3>2, <5>1, <5>2, <5>3, <5>4, Zenon DEF HttpHandler, GetHandler
      <4>2. leaked' = leaked
        BY <1>4, <1>7, <3>2 DEF HttpHandler, Secured, GetLine, BlankGet, BlankOld, BlankUpgrade,
                          ClosedHttp, FreeParser, GetHandler, FileOpen, FileClosed, FileFailed,
                          ClosedGet
      <4>3. [NoParser EXCEPT !.live = TRUE].request = NoParser.request
        BY DEF NoParser
      <4> QED
        BY <1>4, <4>1, <4>2, <4>3, Records DEF RecordsInv, ParserRecord
    <3> QED
      BY <3>1, <3>2
  <2>2. Free(input')
    <3>1. UNCHANGED input \/ (input # <<>> /\ input' = Tail(input))
      <4>1. CASE GetLine \/ HeaderLine \/ BlankGet \/ BlankOld \/ BlankUpgrade
        BY <4>1, Zenon DEF GetLine, HeaderLine, BlankGet, BlankOld, BlankUpgrade, Reads
      <4>2. CASE Secured \/ ClosedHttp
        BY <4>2 DEF Secured, ClosedHttp
      <4>3. CASE GetHandler
        <5>1. UNCHANGED input
          BY <4>3 DEF GetHandler, FileOpen, FileClosed, FileFailed, ClosedGet
        <5> QED
          BY <5>1
      <4> QED
        BY <1>7, <4>1, <4>2, <4>3, Zenon DEF HttpHandler
    <3> QED
      BY <1>4, <1>5, <3>1
  <2>3. http'.handler # "framed"
    <3>1. ~BlankUpgrade
      BY <1>4 DEF BlankUpgrade
    <3>2. \/ UNCHANGED http
          \/ \E st \in {"open", "closing", "closed"} : http' = [http EXCEPT !.st = st]
          \/ \E data \in {"NULL", "parser"} : http' = [http EXCEPT !.data = data]
          \/ http' = [http EXCEPT !.handler = "get", !.reads = FALSE]
          \/ http' = [http EXCEPT !.handler = "http", !.reads = TRUE, !.data = "NULL"]
      BY <1>7, <3>1 DEF HttpHandler, Secured, GetLine, HeaderLine, BlankGet, BlankOld, ClosedHttp,
                        GetHandler, FileOpen, FileClosed, FileFailed, ClosedGet
    <3> QED
      BY <1>4, <3>2 DEF RecordsInv, HttpRecord
  <2> QED
    BY <2>1, <2>2, <2>3
<1>8. CASE FramedHandler
  BY <1>4, <1>8 DEF FramedHandler, ReadFrame, ReadTwo, ReadPart, ClosedFramed, ReadsFrame
<1>9. CASE EngineHandler \/ EngineReads
  <2>1. UNCHANGED <<parser, input, leaked>>
    BY <1>9 DEF EngineHandler, Connected, RelayLine, EngineSecured, EngineLost, EngineClosed,
                EngineReads
  <2>2. \/ UNCHANGED http \/ http' = [http EXCEPT !.reads = TRUE]
        \/ http' = [http EXCEPT !.st = "closing"]
    BY <1>9 DEF EngineHandler, Connected, RelayLine, EngineSecured, EngineLost, EngineClosed,
                EngineReads
  <2> QED
    BY <1>4, <2>1, <2>2 DEF RecordsInv, HttpRecord
<1> QED
  BY <1>2, <1>6, <1>7, <1>8, <1>9 DEF Next

-----------------------------------------------------------------------------
(* The theorems. *)

\* A connection starts as the invariant says.
LEMMA InitInv == Init => IInv
<1> SUFFICES ASSUME Init PROVE IInv
  OBVIOUS
<1>1. RecordsInv
  <2>1. http \in HttpRecord /\ engine \in EngineRecord
    BY DEF Init, HttpRecord, EngineRecord
  <2>2. parser \in ParserRecord /\ file \in FileRecord /\ relay \in RelayRecord
    BY Records DEF Init
  <2>3. auth \in BOOLEAN
    BY Zenon DEF Init
  <2>4. requests \in 0 .. MaxRequests
    BY HttpAssumption DEF Init
  <2>5. odd \subseteq {"failed", "two", "part", "upgrade"}
    BY Zenon DEF Init
  <2> QED
    BY <2>1, <2>2, <2>3, <2>4, <2>5, Zenon DEF RecordsInv
<1>2. LinesType
  BY DEF Init, LinesType
<1>3. OutputInv
  BY DEF Init, OutputInv, FramesRight
<1>4. ReadInv
  BY Records DEF Init, ReadInv, Ordered, AtRequest
<1>5. PointersInv
  BY Records DEF Init, PointersInv, HttpInv, GetInv, FramedInv, NoEngine, NoFile
<1>6. SecureInv
  <2>1. <<>> \in Seq(EngineLine)
    OBVIOUS
  <2>2. /\ relay = NoRelay /\ toEngine = <<>> /\ toRelay = <<>> /\ auth = FALSE /\ got = <<>>
        /\ engine = [st |-> "none", data |-> FALSE, tls |-> "plain"]
    BY Zenon DEF Init
  <2>3. http.handler = "http"
    BY DEF Init
  <2> QED
    BY <2>1, <2>2, <2>3 DEF SecureInv, NoRelay
<1>7. OrderInv
  BY DEF Init, OrderInv, OnWay
<1>8. LeakInv
  <2>1. leaked = {} /\ input = <<>> /\ parser = NoParser
    BY Zenon DEF Init
  <2>2. http.handler = "http"
    BY DEF Init
  <2> QED
    BY <2>1, <2>2, Records DEF LeakInv
<1> QED
  BY <1>1, <1>2, <1>3, <1>4, <1>5, <1>6, <1>7, <1>8 DEF IInv

\* The types, the pointers, the lines and the order that a connection keeps: the
\* invariant of every step, for every answer of the engine and any number of
\* requests and frames.
THEOREM Invariance == Spec => []IInv
<1>1. Init => IInv
  BY InitInv
<1>2. IInv /\ [Next]_vars => IInv'
  <2> SUFFICES ASSUME IInv, [Next]_vars PROVE IInv'
    OBVIOUS
  <2>1. CASE Next
    <3>1. RecordsInv' /\ LinesType'
      BY <2>1, RecordsStep, LinesStep DEF IInv
    <3>2. OutputInv' /\ ReadInv' /\ PointersInv'
      BY <2>1, OutputStep, ReadStep, PointersStep DEF IInv
    <3>3. SecureInv' /\ OrderInv' /\ LeakInv'
      BY <2>1, SecureStep, OrderStep, LeakStep DEF IInv
    <3> QED
      BY <3>1, <3>2, <3>3 DEF IInv
  <2>2. CASE UNCHANGED vars
    BY <2>2 DEF IInv, vars, RecordsInv, LinesType, OutputInv, FramesRight, ReadInv, AtRequest,
                PointersInv, HttpInv, GetInv, FramedInv, NoEngine, SecureInv, OrderInv, OnWay,
                LeakInv
  <2> QED
    BY <2>1, <2>2
<1> QED
  BY <1>1, <1>2, PTL DEF Spec

\* What a browser says goes to the engine over a secured connection only, and the
\* engine lets it in only there: http_framed_handler is not called before
\* http_engine_handler has read that the negotiation is over.
THEOREM RelayAlwaysSecure == Spec => []RelaySecure
<1>1. IInv => RelaySecure
  <2> SUFFICES ASSUME IInv, engine.tls # "secure"
               PROVE  /\ http.ssl => ~auth /\ \A i \in DOMAIN toEngine : toEngine[i] = "SSL"
                      /\ ~http.ssl => ~(auth /\ SslOnly)
    BY DEF RelaySecure
  <2>1. http.ssl => ~auth /\ toEngine \in {<<>>, <<"SSL">>}
    BY DEF IInv, SecureInv
  <2>2. ~http.ssl => ~(auth /\ SslOnly)
    BY DEF IInv, SecureInv
  <2> QED
    BY <2>1, <2>2
<1> QED
  BY <1>1, Invariance, PTL

\* Over every order of the ends of browser, file and engine, and whatever fails,
\* no handle points to a parser or a relay that is freed, neither of these to a
\* handle that is gone, and a connection that is closed leaves nothing behind but
\* what http_parser_free forgets of an upgrade.
THEOREM MemoryAlwaysRight == Spec => []MemoryRight
<1>1. IInv => MemoryRight
  <2> SUFFICES ASSUME IInv PROVE MemoryRight
    OBVIOUS
  <2>1. TypeOK
    <3>1. \A i \in DOMAIN input : input[i] \in IF http.handler = "framed" THEN Frame ELSE Line
      <4>1. CASE http.handler = "framed"
        BY <4>1 DEF IInv, LinesType
      <4>2. CASE http.handler # "framed"
        BY <4>2 DEF IInv, LinesType
      <4> QED
        BY <4>1, <4>2
    <3>2. \A i \in DOMAIN output : output[i] \in Frames
      BY DEF IInv, OutputInv
    <3> QED
      BY <3>1, <3>2 DEF IInv, RecordsInv, LinesType, LeakInv, TypeOK, HttpRecord, ParserRecord,
                        FileRecord,
                        RelayRecord, EngineRecord
  <2>2. /\ http.handler \in {"http", "get", "framed"}
        /\ file.st \in {"none", "opening", "open", "closing"}
    BY DEF IInv, RecordsInv, HttpRecord, FileRecord
  <2>3. ~NoRelay.live
    BY DEF NoRelay
  <2>4. PointersAlive
    BY <2>2, <2>3 DEF IInv, PointersInv, HttpInv, GetInv, FramedInv, NoEngine, Live, PointersAlive
  <2>5. NothingLeaked
    BY <2>2, <2>3 DEF IInv, PointersInv, HttpInv, GetInv, FramedInv, NoEngine, Live, LeakInv,
                      NothingLeaked
  <2> QED
    BY <2>1, <2>4, <2>5 DEF MemoryRight
<1> QED
  BY <1>1, Invariance, PTL

\* The length of a frame is that of what follows it, for every line of less than
\* 65534 bytes, the bounds between the short form and the long included.
THEOREM FramesAlwaysRight == Spec => []FramesRight
<1>1. IInv => FramesRight
  BY DEF IInv, OutputInv
<1> QED
  BY <1>1, Invariance, PTL

\* The engine reads what the browser says in order and without gaps, through two
\* connections and whatever is lost of them, unless a buffer held two frames or a
\* part of one.
THEOREM AlwaysInOrder == Spec => []InOrder
<1>1. IInv => InOrder
  <2> SUFFICES ASSUME IInv, odd \cap {"two", "part"} = {}
               PROVE  got = SubSeq(asked, 1, Len(got))
    BY DEF InOrder
  <2>1. /\ Len(got) + Len(OnWay) <= Len(asked)
        /\ \A i \in 1 .. Len(got) : got[i] = asked[i]
    BY DEF IInv, OrderInv
  <2>2. /\ got \in Seq(EngineLine) /\ asked \in Seq(Frame)
        /\ OnWay \in Seq({"SSL"} \cup EngineLine)
    BY DEF IInv, LinesType, OnWay
  <2>3. Len(got) \in Nat /\ Len(asked) \in Nat /\ Len(got) <= Len(asked)
    BY <2>1, <2>2
  <2> DEFINE first == SubSeq(asked, 1, Len(got))
  <2>4. /\ first \in Seq(Frame) /\ Len(first) = Len(got)
        /\ \A i \in 1 .. Len(got) : first[i] = asked[i]
    BY <2>2, <2>3
  <2> HIDE DEF first
  <2>5. got \in Seq(Frame)
    BY <2>2 DEF EngineLine, Frame
  <2>6. Len(got) = Len(first) /\ \A i \in 1 .. Len(got) : got[i] = first[i]
    BY <2>1, <2>4
  <2>7. got = first
    BY <2>4, <2>5, <2>6, SeqEqual
  <2> QED
    BY <2>7 DEF first
<1> QED
  BY <1>1, Invariance, PTL
=============================================================================
