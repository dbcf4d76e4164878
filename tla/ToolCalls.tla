------------------------------ MODULE ToolCalls ------------------------------
(* Tool calls as text: how ToolPromptBuilder::detect_tool_call() of types.hpp
   finds them in what the model wrote, the JSON it makes of their arguments, how
   JsonValue::parse() of http_server.cpp reads that JSON back, and how
   build_chat_prompt() of forge_server.cpp writes a call into the next prompt.

   Text is a row of tokens: "<function", a whole name="..." with the name as its
   characters, ">", "<param", "</param>", "</function>", a piece of text, a text
   of more than 100 characters ("far"), and a name=" that the end of the output
   leaves open ("open").  A tag never stands inside the value of a parameter.
   Characters matter only where the JSON is built and read; no value with a quote
   has a comma or a brace as well. *)
EXTENDS Integers, Sequences, FiniteSets, SequencesExt

CONSTANT MaxCalls  \* 10: detect_tool_call() looks for no more
ASSUME ToolCallsAssumption == MaxCalls \in Nat

Tok(kind, chars) == [t |-> kind, v |-> chars]
Tag(kind) == Tok(kind, <<>>)

-----------------------------------------------------------------------------
(* find(): the first token of these kinds in out[from .. upto], or 0. *)
Find(out, kinds, from, upto) ==
    LET at == {i \in from .. upto : out[i].t \in kinds}
    IN  IF at = {} THEN 0 ELSE CHOOSE i \in at : \A j \in at : i <= j

TooFar(out, from, upto) == \E i \in from .. upto - 1 : out[i].t = "far"

Chars(out, from, upto) == FlattenSeq([i \in 1 .. upto - from + 1 |-> out[from + i - 1].v])

\* The parameters in out[from .. upto], the inside of one call: a round of the loop
\* over them, from its state, and the whole loop.  It is given a round for every
\* token and one more.
NewParams(from) == [pos |-> from, found |-> <<>>, over |-> FALSE]

ParamStep(out, upto, s) ==
    LET start == Find(out, {"<param"}, s.pos, upto)
        name  == Find(out, {"name", "open"}, start, upto)
        body  == Find(out, {">", "</param>"}, name + 1, upto)
        close == Find(out, {"</param>"}, body + 1, upto)
        param == [name |-> out[name].v, value |-> Chars(out, body + 1, close - 1)]
        stop  == [s EXCEPT !.over = TRUE]
    IN  IF start = 0 THEN stop
        ELSE IF name = 0 \/ TooFar(out, start, name) THEN [s EXCEPT !.pos = start + 1]
        ELSE IF out[name].t = "open" \/ body = 0 \/ close = 0 THEN stop
        ELSE [s EXCEPT !.pos = close + 1, !.found = Append(@, param)]

Params(out, from, upto) ==
    LET P[n \in 0 .. upto - from + 2] ==
          IF n = 0 THEN NewParams(from)
          ELSE LET s == P[n - 1] IN IF s.over THEN s ELSE ParamStep(out, upto, s)
    IN  P[upto - from + 2].found

-----------------------------------------------------------------------------
(* One round of the loop of detect_tool_call().  The state of the scan is the
   position, the calls found, and whether the loop has been left. *)
NewScan == [pos |-> 1, calls |-> <<>>, over |-> FALSE]

ArgsJson(params) ==
    <<"{">>
    \o FlattenSeq([i \in DOMAIN params |->
           (IF i > 1 THEN <<",">> ELSE <<>>)
           \o <<"QUOTE">> \o params[i].name \o <<"QUOTE", ":", "QUOTE">>
           \o params[i].value \o <<"QUOTE">>])
    \o <<"}">>

\* Bug form: one call too many is looked for.
AtLimit_OffByOne(s) == Len(s.calls) > MaxCalls

AtLimit(s) == Len(s.calls) = MaxCalls

\* Bug form: a call without a name is not stepped over.
SkipUnnamed_Stay(s, name) == s

SkipUnnamed(s, name) == [s EXCEPT !.pos = name + 1]

Take(s, call, close) == [s EXCEPT !.pos = close + 1, !.calls = Append(@, call)]

ScanStep(out, s) ==
    LET end   == Len(out)
        fn    == Find(out, {"<function"}, s.pos, end)
        name  == Find(out, {"name", "open"}, fn, end)
        close == Find(out, {"</function>"}, fn, end)
        body  == Find(out, {">", "</param>", "</function>"}, fn, end)
        stop  == [s EXCEPT !.over = TRUE]
    IN  IF AtLimit(s) \/ fn = 0 THEN stop
        ELSE IF name = 0 \/ TooFar(out, fn, name) THEN [s EXCEPT !.pos = fn + 1]
        ELSE IF out[name].t = "open" THEN stop
        ELSE IF out[name].v = <<>> THEN SkipUnnamed(s, name)
        ELSE IF close = 0 \/ body = 0 \/ body >= close THEN stop
        ELSE Take(s, [name |-> out[name].v,
                      args |-> ArgsJson(Params(out, body + 1, close - 1))], close)

\* The whole loop.  It is given a round for every token and one more; whether it
\* has ended by then is for a property to say.
Scanned(out) ==
    LET S[n \in 0 .. Len(out) + 1] ==
          IF n = 0 THEN NewScan
          ELSE LET s == S[n - 1] IN IF s.over THEN s ELSE ScanStep(out, s)
    IN  S[Len(out) + 1]

-----------------------------------------------------------------------------
(* JsonValue::parse() *)

\* A string the client sends: it escapes, and the parser drops the backslash of
\* every escape and keeps the letter, so that a line break arrives as "n".
Received(chars) == [i \in DOMAIN chars |-> IF chars[i] = "NEWLINE" THEN "n" ELSE chars[i]]

\* The inside of a string literal that opens before position from, and the
\* position after its closing quote.
ReadString(s, from) ==
    LET With(c, rest) == [chars |-> <<c>> \o rest.chars, next |-> rest.next]
        R[i \in Nat \ {0}] ==
          IF i > Len(s) THEN [chars |-> <<>>, next |-> i]
          ELSE IF s[i] = "QUOTE" \/ (s[i] = "BACKSLASH" /\ i = Len(s))
            THEN [chars |-> <<>>, next |-> i + 1]
          ELSE IF s[i] = "BACKSLASH" THEN With(s[i + 1], R[i + 2])
          ELSE With(s[i], R[i + 1])
    IN  R[from]

First(s, chars, from) ==
    LET at == {i \in from .. Len(s) : s[i] \in chars}
    IN  IF at = {} THEN Len(s) + 1 ELSE CHOOSE i \in at : \A j \in at : i <= j

\* The members of an object of strings, from position from on: what follows a
\* value up to the next comma or brace is passed over.
ReadMembers(s, from) ==
    LET M[i \in Nat \ {0}] ==
          LET key   == ReadString(s, i + 1)
              value == ReadString(s, key.next + 2)
              next  == First(s, {",", "}"}, value.next)
          IN  IF i > Len(s) \/ s[i] # "QUOTE" THEN <<>>
              ELSE <<[name |-> key.chars, value |-> value.chars]>>
                   \o IF next <= Len(s) /\ s[next] = "," THEN M[next + 1] ELSE <<>>
    IN  M[from]

\* std::map: the last member of a name wins.
AsMap(members) ==
    [n \in {members[i].name : i \in DOMAIN members} |->
        LET last == CHOOSE i \in DOMAIN members :
                       /\ members[i].name = n
                       /\ \A j \in DOMAIN members : members[j].name = n => j <= i
        IN  members[last].value]

ReadArgs(s) == AsMap(ReadMembers(s, 2))

-----------------------------------------------------------------------------
(* build_chat_prompt(): the calls of an assistant message *)

ParamMarkup(name, value) ==
    <<Tag("<param"), Tok("name", name), Tag(">"), Tok("text", value), Tag("</param>")>>

CallMarkup(name, params) ==
    <<Tag("<function"), Tok("name", name), Tag(">")>>
    \o FlattenSeq([i \in DOMAIN params |-> ParamMarkup(params[i].name, params[i].value)])
    \o <<Tag("</function>")>>

MapMarkup(name, args) ==
    LET names == SetToSeq(DOMAIN args)
    IN  CallMarkup(name, [i \in DOMAIN names |-> [name |-> names[i], value |-> args[names[i]]]])

\* Bug form: the JSON text itself is the only parameter.
WrittenCall_Raw(call) ==
    CallMarkup(call.name, <<[name |-> <<"arguments">>, value |-> call.args]>>)

WrittenCall(call) == MapMarkup(Received(call.name), ReadArgs(Received(call.args)))

WrittenCalls(calls) == FlattenSeq([i \in DOMAIN calls |-> WrittenCall(calls[i])])
=============================================================================
