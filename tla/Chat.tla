-------------------------------- MODULE Chat --------------------------------
(* The handler of /v1/chat/completions in forge_server.cpp and a client in a
   conversation with tools: the client sends all messages so far, the server
   builds the prompt, the model writes any of the Outputs, the server looks for
   tool calls and answers with calls or with text, the client appends the answer
   and, after calls, the results of its tools, and asks again.

   The model's output is a script, a row of pieces, cut off where max_tokens ends
   it.  The server keeps nothing of a conversation but what the client sends. *)
EXTENDS ToolCalls

CONSTANTS
    Scripts,     \* what the model may set out to write: rows of pieces
    Tools,       \* whether the client offers tools: a set of BOOLEANs
    Policies,    \* tool_choice: "auto", "none" or "required"
    MaxReplies   \* bound: answers of a conversation

VARIABLES
    phase,     \* "client", "generate", "scan" or "reply"
    messages,  \* what the client has: user, assistant and tool messages; history:
               \* made, the calls the model made, as its script says
    tools, choice, \* of the request being served
    script, output, \* what the model set out to write, and wrote
    scan,      \* state of detect_tool_call()
    prompt,    \* what build_chat_prompt() made of the calls: per message, tokens
    status     \* HTTP status of the last answer

vars == <<phase, messages, tools, choice, script, output, scan, prompt, status>>
request == <<tools, choice>>

-----------------------------------------------------------------------------
(* What the model writes *)

Call(name, params) == [kind |-> "call", name |-> name, params |-> params]
Prose == [kind |-> "prose"]   \* text without a tag
Stray == [kind |-> "stray"]   \* "<function" and a long text

Pieces ==
    [kind : {"call"}, name : Seq(STRING),
     params : Seq([name : Seq(STRING), value : Seq(STRING)])]
    \cup {Prose, Stray}

ASSUME ChatAssumption ==
    /\ Scripts \subseteq Seq(Pieces)
    /\ Tools \subseteq BOOLEAN /\ Policies \subseteq {"auto", "none", "required"}
    /\ MaxReplies \in Nat

Markup(piece) ==
    CASE piece.kind = "call"  -> CallMarkup(piece.name, piece.params)
      [] piece.kind = "prose" -> <<Tag("text")>>
      [] piece.kind = "stray" -> <<Tag("<function"), Tag("far")>>

Written(pieces) == FlattenSeq([i \in DOMAIN pieces |-> Markup(pieces[i])])

\* The first n tokens; a name that stands last may be left open.
Cuts(pieces) ==
    LET text == Written(pieces)
        cut(n) == SubSeq(text, 1, n)
        opened(n) == [cut(n) EXCEPT ![n] = Tag("open")]
    IN  {cut(n) : n \in 0 .. Len(text)}
        \cup {opened(n) : n \in {k \in 1 .. Len(text) : text[k].t = "name"}}

\* The calls with a name that the output has to their end, at most MaxCalls.
IsWhole(k) ==
    /\ script[k].kind = "call" /\ script[k].name # <<>>
    /\ Len(Written(SubSeq(script, 1, k))) <= Len(output)
CallsMade ==
    LET made[k \in 0 .. Len(script)] ==
          IF k = 0 THEN <<>>
          ELSE IF IsWhole(k) /\ Len(made[k - 1]) < MaxCalls
            THEN Append(made[k - 1], [name |-> script[k].name, params |-> script[k].params])
            ELSE made[k - 1]
    IN  made[Len(script)]

-----------------------------------------------------------------------------
Init ==
    /\ phase = "client" /\ messages = <<>>
    /\ tools \in Tools /\ choice \in Policies
    /\ script = <<>> /\ output = <<>> /\ scan = NewScan
    /\ prompt = <<>> /\ status = 200

Message(role, calls, made) == [role |-> role, calls |-> calls, made |-> made]

LastRole == messages[Len(messages)].role
Replies == Cardinality({i \in DOMAIN messages : messages[i].role = "assistant"})

\* The calls of the last assistant message that have no result yet.
Unanswered ==
    LET from == CHOOSE i \in 0 .. Len(messages) :
                    /\ i > 0 => messages[i].role = "assistant"
                    /\ \A j \in i + 1 .. Len(messages) : messages[j].role # "assistant"
        answers == Cardinality({j \in from + 1 .. Len(messages) : messages[j].role = "tool"})
    IN  IF from = 0 THEN 0 ELSE Len(messages[from].calls) - answers

\* The client: a question, with tools or without.
AskUser ==
    /\ phase = "client" /\ Replies < MaxReplies
    /\ messages # <<>> => LastRole = "assistant" /\ Unanswered = 0
    /\ messages' = Append(messages, Message("user", <<>>, <<>>))
    /\ tools' \in Tools /\ choice' \in Policies
    /\ phase' = "generate"
    /\ UNCHANGED <<script, output, scan, prompt, status>>

\* The client: the result of one call.
ToolResult ==
    /\ phase = "client" /\ messages # <<>> /\ Unanswered > 0
    /\ messages' = Append(messages, Message("tool", <<>>, <<>>))
    /\ UNCHANGED <<phase, request, script, output, scan, prompt, status>>

\* The client: the same question again, with the results.
AskAgain ==
    /\ phase = "client" /\ Replies < MaxReplies
    /\ messages # <<>> /\ LastRole = "tool" /\ Unanswered = 0
    /\ phase' = "generate"
    /\ UNCHANGED <<messages, request, script, output, scan, prompt, status>>

\* The client sends no message: 400, and nothing is generated.
AskNothing ==
    /\ phase = "client" /\ messages = <<>>
    /\ status' = 400
    /\ UNCHANGED <<phase, messages, request, script, output, scan, prompt>>

-----------------------------------------------------------------------------
Detecting == tools /\ choice # "none"

\* The server: the prompt, and what the model makes of it.
Generate ==
    /\ phase = "generate"
    /\ prompt' = [i \in DOMAIN messages |-> WrittenCalls(messages[i].calls)]
    /\ script' \in Scripts
    /\ output' \in Cuts(script')
    /\ scan' = NewScan
    /\ phase' = IF Detecting THEN "scan" ELSE "reply"
    /\ UNCHANGED <<messages, request, status>>

Scan ==
    /\ phase = "scan"
    /\ scan' = Scanned(output)
    /\ phase' = "reply"
    /\ UNCHANGED <<messages, request, script, output, prompt, status>>

\* Calls, and no content; or the text as it is.
Reply ==
    /\ phase = "reply"
    /\ messages' = Append(messages, Message("assistant", scan.calls,
                                            IF Detecting THEN CallsMade ELSE <<>>))
    /\ status' = 200
    /\ phase' = "client"
    /\ UNCHANGED <<request, script, output, scan, prompt>>

Client == AskUser \/ ToolResult \/ AskAgain \/ AskNothing
Server == Generate \/ Scan \/ Reply
Next == Client \/ Server
Spec == Init /\ [][Next]_vars
-----------------------------------------------------------------------------
TypeOK ==
    /\ phase \in {"client", "generate", "scan", "reply"}
    /\ tools \in Tools /\ choice \in Policies
    /\ \A i \in DOMAIN messages : messages[i].role \in {"user", "assistant", "tool"}
    /\ Replies <= MaxReplies /\ Unanswered >= 0
    /\ script \in Scripts \cup {<<>>}
    /\ scan.pos \in 1 .. Len(output) + 1 /\ Len(scan.calls) <= MaxCalls
    /\ Len(prompt) <= Len(messages)
    /\ status \in {200, 400}

(* Wherever max_tokens cuts the output, and whatever stands around them, the
   scan ends: every way round its loop moves it forward.  It has then found the
   calls that are there to their end, in order, each once, with their arguments,
   up to the limit, and no other (types.hpp:156). *)
CompleteCallsDetected ==
    phase = "reply" /\ Detecting =>
        scan.over /\ scan.calls = [i \in DOMAIN CallsMade |->
                         [name |-> CallsMade[i].name, args |-> ArgsJson(CallsMade[i].params)]]

IsPlain(text) == \A j \in DOMAIN text : text[j] \notin {"QUOTE", "BACKSLASH", "NEWLINE"}
AllPlain(call) ==
    /\ IsPlain(call.name)
    /\ \A i \in DOMAIN call.params : IsPlain(call.params[i].name) /\ IsPlain(call.params[i].value)

(* A call survives the turn: from the markup of the model through the JSON of
   the answer, the client, and the JSON of the next request, the prompt shows
   the model the calls it made, of two parameters of one name the last.  It does
   so for texts without quote, backslash and line break; args_json does not
   escape them and parse() does not take them back (types.hpp:190,
   http_server.cpp:74). *)
CallsSurviveTheTurn ==
    \A i \in DOMAIN prompt :
        LET made == messages[i].made
        IN  (\A k \in DOMAIN made : AllPlain(made[k])) =>
                prompt[i] = FlattenSeq([k \in DOMAIN made |->
                                MapMarkup(made[k].name, AsMap(made[k].params))])
=============================================================================
