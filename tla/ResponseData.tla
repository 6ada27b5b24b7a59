---------------------------- MODULE ResponseData ----------------------------
(***************************************************************************)
(* What becomes of the bytes of a response: the buffers of Curl are merged *)
(* and decoded (lib/mergeChunks.ts, lib/Curl.ts), header lines are parsed  *)
(* (lib/parseHeaders.ts), curly chooses a parser for the body and lowers   *)
(* the case of the names (lib/curly.ts), decodeData() inflates the body    *)
(* (lib/decodeData.ts).                                                    *)
(*                                                                         *)
(* A step is the end of the request of any Curl.  The StringDecoder is one *)
(* for all of them and keeps the bytes of an unfinished character, so what *)
(* one request ends with is found by the next one.                         *)
(***************************************************************************)
EXTENDS Integers, Sequences, FiniteSets, SequencesExt

CONSTANTS
  MaxBody,   \* bound of the model: bytes of a body
  MaxLines   \* bound of the model: header lines after a status line

ASSUME BoundsAreNatural == MaxBody \in Nat /\ MaxLines \in Nat

\* Bytes: a character of one byte, and the first and second byte of another one.
Bytes == {"a", "lead", "trail"}

\* Names of headers: each in two spellings, but for Set-Cookie that the parser
\* itself spells; what a name is in lower case.
LowerOf ==
  [type |-> "type", Type |-> "type", encoding |-> "encoding", Encoding |-> "encoding",
   SetCookie |-> "setcookie", setcookie |-> "setcookie"]
Names == DOMAIN LowerOf
ValuesOf(name) ==
  CASE LowerOf[name] = "type" -> {"json", "text", "image"}
    [] LowerOf[name] = "encoding" -> {"gzip"}
    [] OTHER -> {"1", "2"}

\* A line: its kind, and the code of a status line or the name and value.
Status(code) == [kind |-> "status", name |-> "", value |-> code]
Header(name, value) == [kind |-> "header", name |-> name, value |-> value]
Blank == [kind |-> "blank", name |-> "", value |-> ""]
HeaderLines == UNION {{Header(name, value) : value \in ValuesOf(name)} : name \in Names}

LinesUpTo(n) == UNION {[1 .. k -> HeaderLines] : k \in 0 .. n}

\* What libcurl delivers: a redirect or interim response and a final one, each
\* with its header lines; a transfer without headers; and trailer lines, which
\* come after the body and have no blank line after them (bound of the model: not
\* after a redirect).
Group(code, lines) == [code |-> code, lines |-> lines]
GroupsOf ==
  {<<>>} \cup {<<Group("200", h)>> : h \in LinesUpTo(MaxLines)}
    \cup {<<Group("301", g), Group("200", h)>> : g \in LinesUpTo(1), h \in LinesUpTo(MaxLines)}
TrailersOf(groups) == IF Len(groups) = 1 THEN LinesUpTo(1) ELSE {<<>>}

Plain == <<Group("200", <<Header("Type", "text")>>)>>
Bodies == UNION {[1 .. n -> Bytes] : n \in 0 .. MaxBody}
SplitsOf(body) ==
  {<<SubSeq(body, 1, n), SubSeq(body, n + 1, Len(body))>> : n \in 0 .. Len(body)}

VARIABLES
  lastChar,   \* the decoder holds the first byte of a character
  response,   \* the request that ended: its groups, trailers, chunks and options
  found,      \* lastChar before it
  data, headers, parser, decoded  \* what its caller gets

dataVars == <<lastChar, response, found, data, headers, parser, decoded>>

----------------------------------------------------------------------------
(* StringDecoder (Node.js) *)

Utf8Step(acc, byte) ==
  LET unfinished == IF acc.kept /\ byte # "trail" THEN Append(acc.text, "?") ELSE acc.text
  IN CASE byte = "lead" -> [text |-> unfinished, kept |-> TRUE]
       [] byte = "a"    -> [text |-> Append(unfinished, "a"), kept |-> FALSE]
       [] byte = "trail" ->
            [text |-> Append(acc.text, IF acc.kept THEN "two" ELSE "?"), kept |-> FALSE]

Write(kept, bytes) == FoldLeft(Utf8Step, [text |-> <<>>, kept |-> kept], bytes)

----------------------------------------------------------------------------
(* mergeChunks *)

\* [mutant] the length of the first chunk only.
FirstLength(chunks) == IF chunks = <<>> THEN 0 ELSE Len(Head(chunks))

\* chunksLength, summed by defaultWriteFunction.
ChunksLength(chunks) == FoldLeft(LAMBDA sum, chunk : sum + Len(chunk), 0, chunks)

\* copy() of a chunk, which stops at the end of the buffer.
Copy(acc, chunk) ==
  [buffer |-> [i \in DOMAIN acc.buffer |->
                 IF i - acc.pos \in DOMAIN chunk THEN chunk[i - acc.pos] ELSE acc.buffer[i]],
   pos |-> acc.pos + Len(chunk)]

MergeChunks(chunks, length) ==
  FoldLeft(Copy, [buffer |-> [i \in 1 .. length |-> "garbage"], pos |-> 0], chunks).buffer

----------------------------------------------------------------------------
(* parseHeaders *)

\* An object keeps its keys in the order they came; a key set again stays.
SetEntry(entries, name, value) ==
  IF \E i \in DOMAIN entries : entries[i].name = name
    THEN [i \in DOMAIN entries |->
            IF entries[i].name = name THEN [name |-> name, value |-> value] ELSE entries[i]]
    ELSE Append(entries, [name |-> name, value |-> value])

ValueOf(entries, name) ==
  IF \E i \in DOMAIN entries : entries[i].name = name
    THEN entries[CHOOSE i \in DOMAIN entries : entries[i].name = name].value
    ELSE <<>>

\* Set-Cookie, however it is spelled, collects its values.
AddHeader(entries, line) ==
  IF LowerOf[line.name] = "setcookie"
    THEN SetEntry(entries, "SetCookie", Append(ValueOf(entries, "SetCookie"), line.value))
    ELSE SetEntry(entries, line.name, <<line.value>>)

NoInfo == [code |-> "", entries |-> <<>>]

\* [mutant] the entries of a group stay for the next one.
KeepEntries(acc, line) ==
  CASE acc.status -> [acc EXCEPT !.status = FALSE,
                        !.current.code = IF line.kind = "status" THEN line.value ELSE "NaN"]
    [] ~acc.status /\ line.kind = "blank" ->
         [acc EXCEPT !.status = TRUE, !.result = Append(@, acc.current)]
    [] OTHER -> [acc EXCEPT !.current.entries = AddHeader(@, line)]

\* The first line of a group is its status line whatever it says; a blank line
\* ends the group.
ParseLine(acc, line) ==
  CASE acc.status -> [acc EXCEPT !.status = FALSE,
                        !.current.code = IF line.kind = "status" THEN line.value ELSE "NaN"]
    [] ~acc.status /\ line.kind = "blank" ->
         [acc EXCEPT !.status = TRUE, !.current = NoInfo, !.result = Append(@, acc.current)]
    [] OTHER -> [acc EXCEPT !.current.entries = AddHeader(@, line)]

ParseHeaders(lines) ==
  FoldLeft(ParseLine, [status |-> TRUE, current |-> NoInfo, result |-> <<>>], lines).result

\* The text ends with a line end: split() finds a last, blank line.
LinesOf(groups, trailers) ==
  FlattenSeq([i \in DOMAIN groups |->
    <<Status(groups[i].code)>> \o groups[i].lines \o <<Blank>>]) \o trailers \o <<Blank>>

----------------------------------------------------------------------------
(* curly and decodeData *)

\* curly.defaultResponseBodyParsers with curlyResponseBodyParsers merged into
\* it: a format that is there keeps its place, another one comes last.
Formats(own) ==
  LET defaults == <<"json", "text", "any">> IN
  [i \in DOMAIN defaults |-> [format |-> defaults[i], own |-> defaults[i] \in own]]
    \o SetToSeq({[format |-> f, own |-> TRUE] : f \in own \ {"json", "text", "any"}})

\* The first format that matches.
FindParser(own, type) ==
  LET formats == Formats(own)
      matches == {i \in DOMAIN formats : formats[i].format \in {type, "any"}}
  IN formats[CHOOSE i \in matches : \A j \in matches : i <= j]

IsType(entry) == LowerOf[entry.name] = "type"

\* [mutant] the header of the first response.
FirstType(infos) ==
  LET entries == IF infos = <<>> THEN <<>> ELSE infos[1].entries
      first   == SelectInSeq(entries, IsType)
  IN IF first = 0 THEN "none" ELSE entries[first].value[1]

\* The content type of the last group, under whatever spelling comes first.
ContentType(infos) ==
  LET entries == IF infos = <<>> THEN <<>> ELSE infos[Len(infos)].entries
      first   == SelectInSeq(entries, IsType)
  IN IF first = 0 THEN "none" ELSE entries[first].value[1]

Delete(entries, name) == RemoveFirstMatch(entries, LAMBDA x : x.name = name)

\* [mutant] set first and deleted then.
SetThenDelete(acc, x) == Delete(SetEntry(acc, LowerOf[x.name], x.value), x.name)

\* A name is deleted and set again.
Lower(acc, x) == SetEntry(Delete(acc, x.name), LowerOf[x.name], x.value)

\* In place, over the entries there were.
LowerCase(entries) == FoldLeft(Lower, entries, entries)

\* decodeData(): only a name in lower case is looked at; without any group it
\* reads a property of undefined.
DecodeData(infos) ==
  IF infos = <<>> THEN "throws"
    ELSE IF ValueOf(infos[Len(infos)].entries, "encoding") = <<"gzip">> THEN "inflated" ELSE "as is"

----------------------------------------------------------------------------
(* onEnd *)

NoResponse ==
  [groups |-> <<>>, trailers |-> <<>>, chunks |-> <<>>, parsing |-> FALSE, lower |-> FALSE,
   own |-> {}]

Nothing ==
  /\ response' = NoResponse /\ found' = FALSE
  /\ data' = <<>> /\ headers' = <<>> /\ parser' = [format |-> "any", own |-> FALSE]
  /\ decoded' = "as is"

DataInit ==
  /\ lastChar = FALSE /\ response = NoResponse /\ found = FALSE
  /\ data = <<>> /\ headers = <<>> /\ parser = [format |-> "any", own |-> FALSE]
  /\ decoded = "as is"

\* The body is decoded before the headers; both go through the one decoder.  A
\* byte it holds then spoils the first status line.
End(r) ==
  LET raw   == MergeChunks(r.chunks, ChunksLength(r.chunks))
      text  == Write(lastChar, raw)
      kept  == IF r.parsing THEN text.kept ELSE lastChar
      parsed == ParseHeaders(LinesOf(r.groups, r.trailers))
      infos == IF parsed # <<>> /\ kept THEN [parsed EXCEPT ![1].code = "?"] ELSE parsed
      shown == IF r.lower
                 THEN [i \in DOMAIN infos |-> [infos[i] EXCEPT !.entries = LowerCase(@)]]
                 ELSE infos
  IN
  /\ response' = r /\ found' = lastChar
  /\ data' = IF r.parsing THEN text.text ELSE raw
  /\ lastChar' = (kept /\ r.groups = <<>>)
  /\ headers' = shown
  /\ parser' = FindParser(r.own, ContentType(infos))
  /\ decoded' = DecodeData(shown)

\* A request through curly: the body stays a buffer.
CurlyEnds ==
  \E groups \in GroupsOf, lower \in BOOLEAN, own \in SUBSET {"json", "image"} :
    \E trailers \in TrailersOf(groups) :
      End([groups |-> groups, trailers |-> trailers, chunks |-> <<<<"a">>>>, parsing |-> FALSE,
           lower |-> lower, own |-> own])

\* A request of a Curl, with and without NoDataParsing.
CurlEnds ==
  \E body \in Bodies, groups \in {<<>>, Plain}, parsing \in BOOLEAN :
    \E chunks \in SplitsOf(body) :
      End([groups |-> groups, trailers |-> <<>>, chunks |-> chunks, parsing |-> parsing,
           lower |-> FALSE, own |-> {}])

Idle == response = NoResponse

DataNext ==
  \/ Idle /\ CurlyEnds
  \/ Idle /\ CurlEnds
  \/ ~Idle /\ Nothing /\ UNCHANGED lastChar

DataSpec == DataInit /\ [][DataNext]_dataVars

----------------------------------------------------------------------------
(* Properties *)

Ended == ~Idle

\* Values stay in their ranges, and no header object has a name twice.
DataTypeOK ==
  /\ lastChar \in BOOLEAN /\ found \in BOOLEAN
  /\ \A i \in DOMAIN data : data[i] \in Bytes \cup {"two", "?"}
  /\ decoded \in {"inflated", "as is", "throws"}
  /\ parser.format \in {"json", "text", "image", "any"} /\ parser.own \in BOOLEAN
  /\ \A k \in DOMAIN headers : \A i, j \in DOMAIN headers[k].entries :
       headers[k].entries[i].name = headers[k].entries[j].name => i = j

\* What the lines of a group say of a name: all values of Set-Cookie, else the last.
Collect(values, line) ==
  IF LowerOf[line.name] = "setcookie" THEN Append(values, line.value) ELSE values

Given(lines, name) ==
  LET places == {i \in DOMAIN lines : lines[i].name = name}
  IN IF name = "SetCookie" THEN FoldLeft(Collect, <<>>, lines)
     ELSE IF places = {} THEN <<>> ELSE <<lines[Max(places)].value>>

\* "an array of parsed headers for each request libcurl made" (lib/Curl.ts:1261):
\* each response has its code and exactly its own headers.  Trailers add one more
\* object that no response has, and a character that an earlier text left
\* unfinished spoils the first code.
HeadersPerResponse ==
  DataTypeOK /\ (Ended =>
    /\ Len(headers) = Len(response.groups) + (IF response.trailers = <<>> THEN 0 ELSE 1)
    /\ \A k \in DOMAIN response.groups :
         /\ headers[k].code \in {response.groups[k].code, "?"}
         /\ k > 1 => headers[k].code # "?"
         /\ ~response.lower => \A name \in Names \ {"setcookie"} :
              ValueOf(headers[k].entries, name) = Given(response.groups[k].lines, name))

\* "it will be a string, with the result of decoding the received data as a UTF8
\* string" (lib/Curl.ts:1256), and as a buffer it is what was received, however it
\* was cut into chunks: unless another request left a byte with the decoder.
DataIsOwn ==
  Ended =>
    LET bytes == FlattenSeq(response.chunks) IN
    IF response.parsing THEN ~found => data = Write(FALSE, bytes).text ELSE data = bytes

\* After a redirect and whatever the case of its name, the body goes to the
\* parser of the content type of the final response, the caller's own one where
\* there is one in place of a default: if there are no trailers.
ParsedByFinalType ==
  Ended /\ response.trailers = <<>> /\ response.groups # <<>> =>
    LET lines == response.groups[Len(response.groups)].lines
        types == {lines[i].value : i \in {j \in DOMAIN lines : LowerOf[lines[j].name] = "type"}}
    IN /\ parser.format \in {"json", "text"} => parser.format \in types
       /\ types = {"json"} => parser = [format |-> "json", own |-> "json" \in response.own]
       /\ types = {"text"} => parser.format = "text"

\* With curlyLowerCaseHeaders, where two spellings meet, and without trailers:
\* decodeData() inflates exactly when the final response is encoded.
InflatesWhatIsEncoded ==
  Ended /\ response.lower /\ response.trailers = <<>> /\ response.groups # <<>> =>
    LET lines == response.groups[Len(response.groups)].lines IN
    (decoded = "inflated") <=> (\E i \in DOMAIN lines : LowerOf[lines[i].name] = "encoding")
=============================================================================
