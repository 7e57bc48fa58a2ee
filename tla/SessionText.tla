----------------------------- MODULE SessionText -----------------------------
(***************************************************************************)
(* The two texts a session is kept in, and the conversions between them    *)
(* (src/src/context.rs, transform.rs, format.rs, types.rs): the records of *)
(* a JSONL file, the events they stand for, and the lines of a .ctx file.  *)
(* A line is a tuple that starts with its kind, a text is a sequence of    *)
(* lines, so a text may contain a line that looks like markup.  An event   *)
(* is modelled without its timestamp and working directory, which come     *)
(* back as they were written, and without the format version and the token *)
(* counts, which do not: parse gives version 0 and no counts, to_wire      *)
(* drops the counts.  Left out: the cut of an argument longer than 120     *)
(* bytes (a panic inside a character), a result whose own first line       *)
(* starts with "error: " (read back as an error), and the panics of parse  *)
(* at the line "--- ---" and of to_wire at a timestamp under 19 bytes.     *)
(***************************************************************************)
EXTENDS Naturals, Sequences, SequencesExt

CONSTANT MaxToolResultLines   \* MAX_TOOL_RESULT_LINES; even, 20 in the code

ASSUME MaxAssumption == /\ MaxToolResultLines \in Nat \ {0}
                        /\ MaxToolResultLines % 2 = 0

Blank      == <<"blank">>
Up         == <<"up">>
EndUp      == <<"/up">>
TurnLine   == <<"sep", "turn">>
CompactSep == <<"sep", "compaction">>
Tokens     == <<"tokens">>    \* "[tokens: ... total]"
Word(w)    == <<"text", w>>

\* A line that starts with "--- " and ends with " ---".
IsSep(l) == l[1] \in {"session", "sep"}

\* The text without the blank lines at its ends: trim.
Trim(text) ==
    LET full == {i \in DOMAIN text : text[i] # Blank}
    IN  IF full = {} THEN <<>>
        ELSE SubSeq(text, CHOOSE i \in full : \A j \in full : i <= j,
                          CHOOSE i \in full : \A j \in full : i >= j)

\* What a text occupies once '\n' is pushed behind it.
Written(text) == IF text = <<>> THEN <<Blank>> ELSE text

----------------------------------------------------------------------------
\* Records to events.  A record is a header, a change of model or thinking
\* level, a compaction, a custom record, or a message with its blocks.

Mark(type, of)  == [type |-> type, of |-> of]
Compaction(text) == [type |-> "compaction", text |-> text]
TurnOf(role, contents) == [type |-> "turn", role |-> role, contents |-> contents]
Says(text)      == [type |-> "text", text |-> text]
Thinking(text)  == [type |-> "thinking", text |-> text]
Tool(name, args, result) ==
    [type |-> "tool", name |-> name, args |-> args, result |-> result]
Result(text, error) == [text |-> text, error |-> error]

IsMessage(r) == r.type = "message"
IsResult(r)  == IsMessage(r) /\ r.role = "toolResult"
CallsOf(r)   == IF IsMessage(r) /\ ~IsResult(r)
                THEN {j \in DOMAIN r.blocks : r.blocks[j].type = "toolCall"}
                ELSE {}

\* Mutant of ResultOf: the last result recorded, whoever called.
ResultOfAnyCall(rs, id) ==
    LET found == {i \in DOMAIN rs : IsResult(rs[i])}
    IN  IF found = {} THEN <<>>
        ELSE LET r == rs[CHOOSE i \in found : \A j \in found : i >= j]
             IN  <<Result(r.text, r.error)>>

\* The last result recorded for the id; a call takes it out of the index.
ResultOf(rs, id) ==
    LET found == {i \in DOMAIN rs : IsResult(rs[i]) /\ rs[i].call = id}
    IN  IF found = {} THEN <<>>
        ELSE LET r == rs[CHOOSE i \in found : \A j \in found : i >= j]
             IN  <<Result(r.text, r.error)>>

\* A call before block j of record i that already took the result of id.
Taken(rs, i, j, id) ==
    \E i2 \in 1..i : \E j2 \in CallsOf(rs[i2]) :
        /\ rs[i2].blocks[j2].id = id
        /\ i2 < i \/ j2 < j

BlockContents(rs, i, j) ==
    LET b == rs[i].blocks[j]
    IN  CASE b.type = "string"   -> <<Says(b.text)>>
          [] b.type = "text"     -> IF Trim(b.text) = <<>> THEN <<>>
                                    ELSE <<Says(Trim(b.text))>>
          [] b.type = "thinking" -> <<Thinking(b.text)>>
          [] b.type = "toolCall" ->
                <<Tool(b.name, b.args,
                       IF Taken(rs, i, j, b.id) THEN <<>> ELSE ResultOf(rs, b.id))>>
          [] OTHER               -> <<>>

ContentsOf(rs, i) ==
    FlattenSeq([j \in DOMAIN rs[i].blocks |-> BlockContents(rs, i, j)])

RecordEvents(rs, i) ==
    IF IsResult(rs[i]) \/ rs[i].type = "custom" THEN <<>>
    ELSE IF ~IsMessage(rs[i]) THEN <<rs[i]>>
    ELSE LET contents == ContentsOf(rs, i)
         IN  IF contents = <<>> THEN <<>> ELSE <<TurnOf(rs[i].role, contents)>>

transform(rs) == FlattenSeq([i \in DOMAIN rs |-> RecordEvents(rs, i)])

----------------------------------------------------------------------------
\* Events to lines.  The arguments of a call are a key and a value; the
\* summary of a tool the code knows is the value alone, otherwise key=value.

Known == {"read", "write", "bash", "glob"}
Summary(name, args) == IF args = <<>> \/ name \notin Known THEN args ELSE <<args[2]>>

Arrow(error, l) == <<"arrow", error, l>>

\* A short result gets one arrow however many lines it has; a long one an
\* arrow per line shown, without the word "error".
ResultLines(r, raw) ==
    LET n    == Len(r.text)
        show == MaxToolResultLines \div 2
        text == Written(Trim(r.text))
        All(ls) == [i \in DOMAIN ls |-> Arrow(FALSE, ls[i])]
    IN  IF raw \/ n <= MaxToolResultLines
        THEN <<Arrow(r.error, Head(text))>> \o Tail(text)
        ELSE All(SubSeq(r.text, 1, show)) \o << <<"omitted">> >>
                \o All(SubSeq(r.text, n - show + 1, n))

emit_tool(c, opts) ==
    << <<"tool", c.name, Summary(c.name, c.args)>> >>
        \o (IF c.result = <<>> THEN <<>> ELSE ResultLines(c.result[1], opts.raw))

ContentLines(c, opts) ==
    CASE c.type = "text" -> Written(c.text)
      [] c.type = "thinking" ->
            IF opts.thinking
            THEN << <<"thinking", Head(Written(c.text))>> >> \o Tail(Written(c.text))
            ELSE <<>>
      [] c.type = "tool" -> emit_tool(c, opts)

AllContents(cs, opts) == FlattenSeq([j \in DOMAIN cs |-> ContentLines(cs[j], opts)])

\* The token counts, for the roles whose messages carry some (opts.usage, empty
\* without include_usage).  They come behind </up>.
UsageLines(e, opts) == IF e.role \in opts.usage THEN <<Tokens>> ELSE <<>>

EventLines(e, opts) ==
    CASE e.type = "session" -> << <<"session", e.of>>, Blank >>
      [] e.type \in {"model", "level"} -> << <<"sep", e.type, e.of>>, Blank >>
      [] e.type = "compaction" -> <<CompactSep>> \o e.text \o <<Blank>>
      [] e.type = "turn" /\ e.role = "user" ->
            <<TurnLine, Up>> \o AllContents(e.contents, opts) \o <<EndUp>>
                \o UsageLines(e, opts) \o <<Blank>>
      [] e.type = "turn" /\ e.role # "user" ->
            <<TurnLine>> \o AllContents(e.contents, opts) \o UsageLines(e, opts) \o <<Blank>>

emit(events, opts) == FlattenSeq([i \in DOMAIN events |-> EventLines(events[i], opts)])

\* The transcript for a reader: the same tool lines, roles in the separators,
\* no <up>, summaries cut short; --summary leaves the turns out.
format_session(events, opts) ==
    FlattenSeq([i \in DOMAIN events |->
        LET e == events[i] IN
        CASE e.type = "turn" -> IF opts.summary THEN <<>>
                ELSE << <<"role", e.role>> >> \o AllContents(e.contents, opts)
                        \o UsageLines(e, opts) \o <<Blank>>
          [] e.type = "compaction" ->
                << <<"compacted">> >> \o SubSeq(e.text, 1, IF Len(e.text) > 30 THEN 30 ELSE Len(e.text))
                    \o (IF Len(e.text) > 30 THEN << <<"more">> >> ELSE <<>>) \o <<Blank>>
          [] OTHER -> << <<e.type, e.of>>, Blank >>])

\* The first turn of a new .ctx file: the context files, a blank line between
\* two of them, outside <up>.
init_session(id, files) ==
    << <<"session", id>>, Blank >>
        \o (IF files = <<>> THEN <<>>
            ELSE <<TurnLine>>
                 \o FlattenSeq([i \in DOMAIN files |->
                        Written(files[i]) \o (IF i < Len(files) THEN <<Blank>> ELSE <<>>)])
                 \o <<Blank>>)

\* The text appended for an assistant message; nothing for any other record.
from_wire_response(r) ==
    IF ~IsMessage(r) THEN <<>> ELSE IF r.role # "assistant" THEN <<>> ELSE
    <<TurnLine>>
      \o FlattenSeq([j \in DOMAIN r.blocks |->
            LET b == r.blocks[j] IN
            CASE b.type = "text" -> Written(b.text)
              [] b.type = "thinking" ->
                    << <<"thinking", Head(Written(b.text))>> >> \o Tail(Written(b.text))
              [] b.type = "toolCall" -> << <<"tool", b.name, Summary(b.name, b.args)>> >>
              [] OTHER -> <<>>])
      \o <<Blank>>

----------------------------------------------------------------------------
\* Lines to events: parse.

\* The arguments rebuilt from a summary.
Arguments(name, summary) ==
    IF summary = <<>> THEN <<>>
    ELSE IF name \in Known THEN <<"key", summary[1]>> ELSE <<"summary">> \o summary

\* One line of a turn.  open holds while the last content is a tool call and
\* only its result lines have followed: parse_tool_block.
WithLine(text, l) == IF text = <<>> THEN <<l>> ELSE Append(text, l)
ToolResult(c, l) ==
    [c EXCEPT !.result = IF c.result = <<>> THEN <<Result(<<l[3]>>, l[2])>>
                         ELSE <<Result(Append(c.result[1].text, l[3]), c.result[1].error)>>]

TakeLine(isUser, acc, l) ==
    LET cs == acc.contents IN
    CASE acc.open /\ l[1] = "arrow" ->
            [acc EXCEPT !.contents[Len(cs)] = ToolResult(cs[Len(cs)], l)]
      [] acc.open /\ l[1] = "omitted" -> acc
      [] l[1] = "thinking" ->
            [contents |-> Append(cs, Thinking(<<l[2]>>)), open |-> FALSE]
      [] l[1] = "tool" ->
            [contents |-> Append(cs, Tool(l[2], Arguments(l[2], l[3]), <<>>)), open |-> TRUE]
      [] l[1] = "tokens" -> [contents |-> cs, open |-> FALSE]
      [] OTHER ->
            [open |-> FALSE, contents |->
                IF l = Blank /\ (isUser \/ cs = <<>>) THEN cs
                ELSE IF cs # <<>> /\ Last(cs).type = "text"
                     THEN [cs EXCEPT ![Len(cs)].text = WithLine(@, l)]
                ELSE IF l = Blank THEN cs ELSE Append(cs, Says(<<l>>))]

TurnContents(isUser, body) ==
    LET upTo[k \in 0..Len(body)] ==
            IF k = 0 THEN [contents |-> <<>>, open |-> FALSE]
            ELSE TakeLine(isUser, upTo[k - 1], body[k])
    IN  upTo[Len(body)].contents

\* The first of some positions in ls, or the position past the end.
FirstOf(ls, found) ==
    IF found = {} THEN Len(ls) + 1 ELSE CHOOSE j \in found : \A k \in found : j <= k

SkipBlank(ls, i) == IF i <= Len(ls) /\ ls[i] = Blank THEN i + 1 ELSE i

\* Mutant of ClosesTurn: any blank line ends the turn.
AnyBlankCloses(ls, i) == ls[i] = Blank

\* The blank line that closes a turn of the model, at i.
ClosesTurn(ls, i) == ls[i] = Blank /\ (i = Len(ls) \/ IsSep(ls[i + 1]))

ParsedTurn(ls, i) ==
    LET isUser == i < Len(ls) /\ ls[i + 1] = Up
        first  == IF isUser THEN i + 2 ELSE i + 1
        end    == FirstOf(ls, {j \in first..Len(ls) :
                     IsSep(ls[j]) \/ (IF isUser THEN ls[j] = EndUp ELSE ClosesTurn(ls, j))})
        cs     == TurnContents(isUser, SubSeq(ls, first, end - 1))
    IN  [events |-> IF cs = <<>> THEN <<>>
                    ELSE <<TurnOf(IF isUser THEN "user" ELSE "assistant", cs)>>,
         next   |-> SkipBlank(ls, IF end <= Len(ls) /\ ~IsSep(ls[end]) THEN end + 1 ELSE end)]

ParsedCompaction(ls, i) ==
    LET end == FirstOf(ls, {j \in i + 1..Len(ls) :
                  IsSep(ls[j]) \/ (ls[j] = Blank /\ j < Len(ls) /\ IsSep(ls[j + 1]))})
    IN  [events |-> <<Compaction(SubSeq(ls, i + 1, end - 1))>>, next |-> SkipBlank(ls, end)]

ParsedAt(ls, i) ==
    LET l == ls[i] IN
    CASE l[1] = "session" ->
            [events |-> <<Mark("session", l[2])>>,
             next   |-> FirstOf(ls, {j \in i + 1..Len(ls) : ls[j] = Blank}) + 1]
      [] l[1] = "sep" /\ l[2] \in {"model", "level"} ->
            [events |-> <<Mark(l[2], l[3])>>, next |-> SkipBlank(ls, i + 1)]
      [] l = CompactSep -> ParsedCompaction(ls, i)
      [] l = TurnLine -> ParsedTurn(ls, i)
      [] OTHER -> [events |-> <<>>, next |-> i + 1]

parse(ls) ==
    LET from[i \in 1..(Len(ls) + 2)] ==
            IF i > Len(ls) THEN <<>>
            ELSE ParsedAt(ls, i).events \o from[ParsedAt(ls, i).next]
    IN  from[1]

----------------------------------------------------------------------------
\* Events to the records of a request: the id of a call is made of its tool's
\* name, the results follow the turn.

MessageOf(role, blocks) == [type |-> "message", role |-> role, blocks |-> blocks]
ResultMessage(call, text, error) ==
    [type |-> "message", role |-> "toolResult", call |-> call, text |-> text, error |-> error]

WireBlock(c) ==
    IF c.type = "tool"
    THEN [type |-> "toolCall", id |-> <<"tc", c.name>>, name |-> c.name, args |-> c.args]
    ELSE c

\* Mutant of WireResults: isError is left out.
ResultsWithoutError(cs) ==
    FlattenSeq([j \in DOMAIN cs |->
        IF cs[j].type # "tool" THEN <<>>
        ELSE IF cs[j].result = <<>> THEN <<>>
        ELSE <<ResultMessage(<<"tc", cs[j].name>>, cs[j].result[1].text, FALSE)>>])

WireResults(cs) ==
    FlattenSeq([j \in DOMAIN cs |->
        IF cs[j].type # "tool" THEN <<>>
        ELSE IF cs[j].result = <<>> THEN <<>>
        ELSE <<ResultMessage(<<"tc", cs[j].name>>, cs[j].result[1].text,
                             cs[j].result[1].error)>>])

to_wire(events) ==
    FlattenSeq([i \in DOMAIN events |->
        LET e == events[i] IN
        IF e.type # "turn" THEN <<e>>
        ELSE <<MessageOf(e.role, [j \in DOMAIN e.contents |-> WireBlock(e.contents[j])])>>
                \o WireResults(e.contents)])
=============================================================================
