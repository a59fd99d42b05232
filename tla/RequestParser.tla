----------------------------- MODULE RequestParser -----------------------------
(***************************************************************************)
(* httpHelper::PrepareResponse: the text of one request, as far as it has  *)
(* arrived, turned into the fields of an HttpObject.                       *)
(*                                                                         *)
(* A text is a sequence of tokens: every character the code looks for is a *)
(* token of its own, and so is a letter; the method and the version are    *)
(* one token each, for nothing ever stops inside them.  The text is one    *)
(* that a client may send, cut off anywhere: receiveData hands over one    *)
(* TLS record, and where a record ends is the client's choice.             *)
(***************************************************************************)
EXTENDS Integers, Sequences, SequencesExt, Functions, TLC

CONSTANTS
  Methods, Versions,   \* tokens
  Names,          \* what follows the first "/" of a target, up to the query
  Queries,        \* sequences of <<name, value>>
  HeaderLists     \* sequences of <<key, value>>

Without(tokens) == {s \in Seq(STRING) : \A j \in DOMAIN s : s[j] \notin tokens}

(* HTTP: a blank ends a method and a target, a colon the key of a header,  *)
(* and the end of a line a version or a header.                            *)
ASSUME ParserAssumption ==
  /\ Methods \subseteq STRING \ {" "} /\ Versions \subseteq STRING \ {"\n"}
  /\ \A name \in Names : name \in Without({" "})
  /\ \A query \in Queries : query \in Seq(Without({" "}) \X Without({" "}))
  /\ \A list \in HeaderLists :
       list \in Seq(Without({":", "\r", "\n"}) \X Without({"\r", "\n"}))

VARIABLES
  request,        \* what the client means to send
  text,           \* what arrived
  is,             \* the istringstream: position, eofbit, failbit
  at,             \* where PrepareResponse is, "accepted" or "rejected"
  secondBuffer, i, argumentStartOffset,
  mDest, mContentType, mHttpVersion, mHttpURLArguments, mHttpHeaders,
  turns           \* history: turns of the loop over the headers

fields == <<mDest, mContentType, mHttpVersion, mHttpURLArguments, mHttpHeaders>>
offsets == <<i, argumentStartOffset>>
parserVars == <<request, text, is, at, secondBuffer, offsets, fields, turns>>

-----------------------------------------------------------------------------
(* What the client sends *)

EndOfLine == <<"\r", "\n">>

Argument(a) == a[1] \o <<"=">> \o a[2]

Query(arguments) ==
  FlattenSeq([n \in 1 .. Len(arguments) |->
                <<IF n = 1 THEN "?" ELSE "&">> \o Argument(arguments[n])])

RequestLine(r) ==
  <<r.method, " ", "/">> \o r.name \o Query(r.arguments)
    \o <<" ", r.version>> \o EndOfLine

HeaderLine(h) == h[1] \o <<":", " ">> \o h[2] \o EndOfLine

HeaderLines(headers) ==
  FlattenSeq([n \in 1 .. Len(headers) |-> HeaderLine(headers[n])])

Text(r) == RequestLine(r) \o HeaderLines(r.headers) \o EndOfLine

Requests ==
  [method : Methods, version : Versions, name : Names,
   arguments : Queries, headers : HeaderLists]

-----------------------------------------------------------------------------
(* The parts of the C++ library that the code relies on *)

Position(s, c) == SelectInSeq(s, LAMBDA x : x = c)
LastPosition(s, c) == SelectLastInSeq(s, LAMBDA x : x = c)
From(s, n) == SubSeq(s, n, Len(s))

(* unordered_map::insert keeps the value of a key that is there. *)
Insert(map, k, v) ==
  [x \in DOMAIN map \union {k} |-> IF x \in DOMAIN map THEN map[x] ELSE v]

Good(s) == ~s.eof /\ ~s.fail

(* std::getline into a string that holds str: a stream that is not good    *)
(* fails and leaves the string as it is; the end of the text ends a line,  *)
(* and fails only when there was nothing left.                             *)
GetLine(s, str, delim) ==
  LET rest == From(text, s.pos)
      n    == Position(rest, delim)
  IN IF ~Good(s) THEN [is |-> [s EXCEPT !.fail = TRUE], str |-> str]
     ELSE IF n # 0
     THEN [is |-> [s EXCEPT !.pos = @ + n], str |-> SubSeq(rest, 1, n - 1)]
     ELSE [is |-> [pos |-> Len(text) + 1, eof |-> TRUE, fail |-> rest = <<>>],
           str |-> rest]

IgnoreOne(s) ==
  IF ~Good(s) THEN [s EXCEPT !.fail = TRUE]
  ELSE IF s.pos > Len(text) THEN [s EXCEPT !.eof = TRUE]
  ELSE [s EXCEPT !.pos = @ + 1]

IgnoreLine(s) ==
  LET n == Position(From(text, s.pos), "\n")
  IN IF ~Good(s) THEN [s EXCEPT !.fail = TRUE]
     ELSE IF n = 0 THEN [s EXCEPT !.pos = Len(text) + 1, !.eof = TRUE]
     ELSE [s EXCEPT !.pos = @ + n]

Cleared(s) == [s EXCEPT !.eof = FALSE, !.fail = FALSE]

-----------------------------------------------------------------------------
(* PrepareResponse *)

Init ==
  /\ request \in Requests
  /\ \E n \in 0 .. Len(Text(request)) : text = SubSeq(Text(request), 1, n)
  /\ is = [pos |-> 1, eof |-> FALSE, fail |-> FALSE]
  /\ at = "method"
  /\ secondBuffer = <<>> /\ i = 1 /\ argumentStartOffset = 1
  /\ mDest = <<>> /\ mContentType = "" /\ mHttpVersion = "Http_UNKNOWN"
  /\ mHttpURLArguments = <<>> /\ mHttpHeaders = <<>>
  /\ turns = 0

Reject ==
  at' = "rejected" /\ UNCHANGED <<secondBuffer, offsets, fields>>

ReadMethod ==
  LET line == GetLine(is, <<>>, " ")
  IN /\ at = "method"
     /\ is' = line.is
     /\ IF line.is.fail \/ line.str # <<"GET">>
          THEN Reject
          ELSE at' = "target" /\ UNCHANGED <<secondBuffer, offsets, fields>>
     /\ UNCHANGED <<request, text, turns>>

ContentType(dest) ==
  LET ext == From(dest, LastPosition(dest, ".") + 1)
  IN CASE ext = <<"js">>  -> "text/javascript"
       [] ext = <<"css">> -> "text/css"
       [] ext = <<"png">> -> "image/png"
       [] ext = <<"html">> \/ dest = <<>> -> "text/html"
       [] OTHER -> "application/json"

(* Where the path ends: everything up to the last "/" of the target is     *)
(* dropped, the query included if it holds one.                            *)
(* Mutant: up to the first one. *)
FirstSlash(target) == Position(target, "/")

PathEnd(target) == LastPosition(target, "/")

ReadTarget ==
  LET line == GetLine(is, <<>>, " ")
      name == From(line.str, PathEnd(line.str) + 1)
      mark == LastPosition(name, "?")
  IN /\ at = "target"
     /\ is' = line.is
     /\ IF line.is.fail \/ PathEnd(line.str) = 0
          THEN Reject
          ELSE /\ at' = "arguments"
               /\ secondBuffer' = From(name, mark + 1)
               /\ mDest' = IF mark = 0 THEN name ELSE SubSeq(name, 1, mark - 1)
               /\ mContentType' = ContentType(mDest')
               /\ UNCHANGED <<offsets, mHttpVersion, mHttpURLArguments,
                              mHttpHeaders>>
     /\ UNCHANGED <<request, text, turns>>

(* Mutant: past the delimiter, and one more. *)
PastEnd(end) == end + 2

ArgumentAfter(end) == end + 1

(* A "=" at i: the name reaches from where the argument starts up to i (to *)
(* the end of the buffer, if the start is past i already), the value up to *)
(* the next "&" or the end.                                                *)
InsertArgument ==
  LET rest  == From(secondBuffer, i + 1)
      n     == Position(rest, "&")
      name  == SubSeq(secondBuffer, argumentStartOffset,
                 IF argumentStartOffset <= i THEN i - 1 ELSE Len(secondBuffer))
      value == IF n = 0 THEN rest ELSE SubSeq(rest, 1, n - 1)
  IN /\ mHttpURLArguments' = Insert(mHttpURLArguments, name, value)
     /\ argumentStartOffset' =
          IF n = 0 THEN argumentStartOffset ELSE ArgumentAfter(i + n)

ReadArguments ==
  /\ at = "arguments"
  /\ IF i > Len(secondBuffer)
       THEN /\ at' = "version"
            /\ UNCHANGED <<i, argumentStartOffset, mHttpURLArguments>>
       ELSE /\ i' = i + 1
            /\ IF secondBuffer[i] = "="
                 THEN InsertArgument
                 ELSE UNCHANGED <<argumentStartOffset, mHttpURLArguments>>
            /\ UNCHANGED at
  /\ UNCHANGED <<request, text, is, secondBuffer, mDest, mContentType,
                 mHttpVersion, mHttpHeaders, turns>>

(* HttpObject::SetHttpVersion reads a number from the sixth character on.  *)
KnownVersions ==
  "HTTP/1.0" :> "Http1_0" @@ "HTTP/1.1" :> "Http1_1" @@ "HTTP/2" :> "Http2_0"

Version(line) ==
  IF line # <<>> /\ Head(line) \in DOMAIN KnownVersions
  THEN KnownVersions[Head(line)] ELSE "Http_UNKNOWN"

(* The line after the version, whatever it is, is dropped with it. *)
ReadVersion ==
  LET line == GetLine(is, <<>>, "\n")
  IN /\ at = "version"
     /\ IF line.is.fail
          THEN is' = line.is /\ Reject
          ELSE /\ at' = "headers"
               /\ is' = IgnoreLine(line.is)
               /\ mHttpVersion' = Version(line.str)
               /\ UNCHANGED <<secondBuffer, offsets, mDest, mContentType,
                              mHttpURLArguments, mHttpHeaders>>
     /\ UNCHANGED <<request, text, turns>>

(* Mutant: without is.ignore the cleared stream is where it was. *)
SkipNothing(s) == Cleared(s)

SkipLine(s) == IgnoreLine(Cleared(s))

(* Mutant: no blank after the colon is skipped. *)
ValueWithBlank(s) == GetLine(s, secondBuffer, "\n")

ValueAfter(s) == GetLine(IgnoreOne(s), secondBuffer, "\n")

(* Mutant: the line feed alone ends a value. *)
UntilLineFeed(s) == s

UntilReturn(s) == IF Position(s, "\r") = 0 THEN s
                  ELSE SubSeq(s, 1, Position(s, "\r") - 1)

(* One turn of the loop that reads the headers. *)
ReadHeader ==
  LET line  == GetLine(is, <<>>, ":")
      value == ValueAfter(line.is)
  IN /\ at = "headers" /\ ~is.eof
     /\ CASE line.str = EndOfLine ->
               is' = line.is /\ UNCHANGED <<secondBuffer, mHttpHeaders>>
          [] line.str # EndOfLine /\ line.is.fail ->
               is' = SkipLine(line.is) /\ UNCHANGED <<secondBuffer, mHttpHeaders>>
          [] OTHER ->
               /\ is' = value.is
               /\ secondBuffer' = value.str
               /\ mHttpHeaders' =
                    Insert(mHttpHeaders, line.str, UntilReturn(value.str))
     /\ turns' = turns + 1
     /\ UNCHANGED <<request, text, at, offsets, mDest, mContentType,
                    mHttpVersion, mHttpURLArguments>>

Accept ==
  /\ at = "headers" /\ is.eof
  /\ at' = "accepted"
  /\ UNCHANGED <<request, text, is, secondBuffer, offsets, fields, turns>>

Ended == at \in {"accepted", "rejected"}

PrepareResponse ==
  \/ ReadMethod \/ ReadTarget \/ ReadArguments \/ ReadVersion
  \/ ReadHeader \/ Accept

Next == PrepareResponse \/ (Ended /\ UNCHANGED parserVars)

Spec == Init /\ [][Next]_parserVars

-----------------------------------------------------------------------------
(* No offset ever leaves its string (std::string::substr would throw), and *)
(* the loop over the headers starts each turn with a good stream.          *)
TypeOK ==
  /\ is.pos \in 1 .. Len(text) + 1 /\ is.eof \in BOOLEAN /\ is.fail \in BOOLEAN
  /\ at \in {"method", "target", "arguments", "version", "headers",
             "accepted", "rejected"}
  /\ i \in 1 .. Len(secondBuffer) + 1 \/ at # "arguments"
  /\ argumentStartOffset \in 1 .. Len(secondBuffer) + 1 \/ at # "arguments"
  /\ at = "headers" => Good(is) \/ is.eof

(* The map that pairs make when the first value of a key counts. *)
FirstValues(pairs) ==
  [k \in {p[1] : p \in Range(pairs)} |->
     pairs[SelectInSeq(pairs, LAMBDA p : p[1] = k)][2]]

(* The header lines that arrived whole. *)
Arrived ==
  LET Upto(n) == SubSeq(request.headers, 1, n)
      Ends(n) == Len(RequestLine(request) \o HeaderLines(Upto(n)))
  IN Upto(Cardinality({n \in 1 .. Len(request.headers) : Ends(n) <= Len(text)}))

(* However the record was cut, PrepareResponse returns: a turn of the loop *)
(* over the headers takes something from the text, or finds its end.       *)
TurnsAdvance ==
  [][turns' # turns => is'.eof \/ is'.pos > is.pos]_parserVars

PlainTokens(s) == Range(s) \cap {"=", "&", "/", "?"} = {}

Plain(r) ==
  /\ \A a \in Range(r.arguments) : PlainTokens(a[1]) /\ PlainTokens(a[2])
  /\ Range(r.name) \cap {"=", "?"} = {}

(* The service is called with the arguments the client wrote, and looked   *)
(* up by the last segment of the path, for every query of plain names and  *)
(* values, names that come twice and empty ones included.                  *)
TargetAsSent ==
  at = "accepted" /\ Plain(request) =>
    /\ mHttpURLArguments = FirstValues(request.arguments)
    /\ \E dir \in {SubSeq(request.name, 1, n) : n \in 0 .. Len(request.name)} :
         /\ request.name = dir \o mDest
         /\ dir = <<>> \/ Last(dir) = "/"
         /\ "/" \notin Range(mDest)

(* When the text ends with a line, whichever, each header after the first  *)
(* that arrived has its own value, and there are no others.                *)
HeadersAsSent ==
  at = "accepted" /\ Last(text) = "\n" =>
    mHttpHeaders = IF Arrived = <<>> THEN <<>> ELSE FirstValues(Tail(Arrived))

(* Wherever the text ends, at most one of the headers is not as the client *)
(* sent it after the first: the line that was cut.                         *)
OneHeaderCut ==
  at = "accepted" =>
    LET sent == FirstValues(SubSeq(request.headers, 2, Len(request.headers)))
        Wrong(k) == k \notin DOMAIN sent \/ mHttpHeaders[k] # sent[k]
    IN \A j, k \in DOMAIN mHttpHeaders : Wrong(j) /\ Wrong(k) => j = k

(* HttpObject.h: "contain http informations(method, destination, http      *)
(* version, http headers)" - all the headers of a request that is whole.   *)
AllHeadersRead ==
  at = "accepted" /\ text = Text(request) =>
    mHttpHeaders = FirstValues(request.headers)
=============================================================================
