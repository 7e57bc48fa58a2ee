----------------------------- MODULE SessionWatch -----------------------------
(***************************************************************************)
(* agenticlaw --watch (src/src/main.rs, parser.rs, openclaw.rs,            *)
(* context.rs): once a second the command looks at the modification time   *)
(* of a session file another process is writing, reads it, converts it and *)
(* writes the result into the output directory.  One file is followed; its *)
(* writer appends a message in two writes, so that the command may read it *)
(* in between.  Time stands for the modification times, which two writes   *)
(* never share.                                                            *)
(***************************************************************************)
EXTENDS SessionText

CONSTANTS Openings,        \* the records a file may hold when the command starts
          Records,      \* what the writer may append
          MaxRecords,   \* how often
          Kinds,        \* a subset of {"jsonl", "ctx"}: the file's extension
          Commands,     \* how the command may be started: an output, "ctx" (--ctx),
                        \* "jsonl" (--wire) or "txt", and the options
          MaxRestarts

\* A record is one of the kinds the parser knows; a message is a list of blocks,
\* and a text a list of lines.
IsList(s) == s \in Seq(ToSet(s))
IsRecord(r) ==
    /\ r.type \in {"session", "model", "level", "compaction", "custom", "message"}
    /\ r.type \in {"session", "model", "level"} => r = Mark(r.type, r.of)
    /\ r.type = "compaction" => r = Compaction(r.text) /\ IsList(r.text)
    /\ IsResult(r) => IsList(r.text)
    /\ IsMessage(r) /\ ~IsResult(r) =>
         /\ IsList(r.blocks)
         /\ \A b \in ToSet(r.blocks) :
              b.type \in {"string", "text", "thinking"} => IsList(b.text)
ASSUME RecordsAssumption ==
    /\ \A r \in Records : IsRecord(r)
    /\ \A rs \in Openings : IsList(rs) /\ \A r \in ToSet(rs) : IsRecord(r)

VARIABLES
    kind, output, opts,   \* fixed when the command starts
    source,     \* the file: whole records, or lines
    records,    \* what was written so far, the last one perhaps in part
    appends,    \* how much of it since the command started
    unwritten,  \* what of the last record is not in the file yet
    mtime,      \* the file's modification time
    seen,       \* the time remembered for it; 0 for none
    got,        \* the time read in this round
    read,       \* what the file held when this round read it
    written,    \* what the output file was made of; <<>> before the first
    phase,      \* "sleep", "read", "write" or "down"
    restarts

watched == <<kind, output, opts, source, records, appends, unwritten, mtime, seen, got,
          read, written, phase, restarts>>
config == <<kind, output, opts>>
file   == <<source, records, appends, unwritten, mtime>>

----------------------------------------------------------------------------
\* process_file.

OpenclawEvents(rs) == transform(rs)
CleanContextEvents(ls) == parse(ls)
EventsOf(content) ==
    IF kind = "ctx" THEN CleanContextEvents(content) ELSE OpenclawEvents(content)

process_file(content) ==
    CASE output = "ctx"   -> emit(EventsOf(content), opts)
      [] output = "jsonl" -> to_wire(EventsOf(content))
      [] output = "txt"   -> format_session(EventsOf(content), opts)

----------------------------------------------------------------------------
\* The writer.  Its .ctx lines for a record: the answer of the model, or the
\* text of anybody else between <up> and </up>.

UpBlock(r) == <<TurnLine, Up>>
    \o (IF IsResult(r) THEN r.text
        ELSE FlattenSeq([j \in DOMAIN r.blocks |->
                IF r.blocks[j].type \in {"string", "text"} THEN r.blocks[j].text ELSE <<>>]))
    \o <<EndUp, Blank>>
CtxLines(r) == IF IsMessage(r) /\ r.role # "assistant" THEN UpBlock(r) ELSE from_wire_response(r)

\* Ids are given out once: no two calls share one, a call has one result.
Ids(r) == {r.blocks[j].id : j \in CallsOf(r)}
FreshIn(r, rs) ==
    \A i \in DOMAIN rs : /\ Ids(r) \cap Ids(rs[i]) = {}
                         /\ IsResult(r) /\ IsResult(rs[i]) => r.call # rs[i].call

BeginAppend(r) ==
    /\ unwritten = <<>> /\ appends < MaxRecords
    /\ FreshIn(r, records)
    /\ kind = "ctx" => IsMessage(r)
    /\ records' = Append(records, r)
    /\ appends' = appends + 1
    /\ mtime' = mtime + 1
    /\ IF kind = "ctx"
       THEN /\ source'  = Append(source, Head(CtxLines(r)))
            /\ unwritten' = Tail(CtxLines(r))
       ELSE /\ source'  = source        \* half a line: an error, no record
            /\ unwritten' = <<r>>
    /\ UNCHANGED <<config, seen, got, read, written, phase, restarts>>

EndAppend ==
    /\ unwritten # <<>>
    /\ source'  = source \o unwritten
    /\ unwritten' = <<>>
    /\ mtime'   = mtime + 1
    /\ UNCHANGED <<config, records, appends, seen, got, read, written, phase, restarts>>

----------------------------------------------------------------------------
\* The command.

WatchInit ==
    /\ kind \in Kinds
    /\ \E c \in Commands : output = c.output /\ opts = c.opts
    /\ records \in Openings
    /\ appends = 0 /\ unwritten = <<>>
    /\ source = IF kind = "ctx"
                THEN init_session("s", <<<<Word("soul")>>, <<Word("tools")>>>>)
                        \o FlattenSeq([i \in DOMAIN records |-> CtxLines(records[i])])
                ELSE <<Mark("session", "s")>> \o records
    /\ mtime = 1
    /\ seen = 0 /\ got = 0
    /\ read = <<>> /\ written = <<>>
    /\ phase = "sleep"
    /\ restarts = 0

\* The file is listed and its modification time differs from the one known.
Stat ==
    /\ phase = "sleep"
    /\ seen # mtime
    /\ got' = mtime
    /\ phase' = "read"
    /\ UNCHANGED <<config, file, seen, read, written, restarts>>

Read ==
    /\ phase = "read"
    /\ read' = source
    /\ phase' = "write"
    /\ UNCHANGED <<config, file, seen, got, written, restarts>>

\* A line cut inside a character is no text: the error is printed, the file
\* stays unknown, the next round tries again.
ReadFails ==
    /\ phase = "read"
    /\ unwritten # <<>>
    /\ phase' = "sleep"
    /\ got' = 0
    /\ UNCHANGED <<config, file, seen, read, written, restarts>>

\* Mutant of write_output: remembers the time the file has after the work.
RemembersLaterTime ==
    /\ phase = "write"
    /\ written' = process_file(read)
    /\ seen' = mtime
    /\ got' = 0 /\ read' = <<>>
    /\ phase' = "sleep"
    /\ UNCHANGED <<config, file, restarts>>

\* write_output, then the time is remembered.
write_output ==
    /\ phase = "write"
    /\ written' = process_file(read)
    /\ seen' = got
    /\ got' = 0 /\ read' = <<>>
    /\ phase' = "sleep"
    /\ UNCHANGED <<config, file, restarts>>

\* The output cannot be written: expect ends the command.
WriteFails ==
    /\ phase = "write"
    /\ restarts < MaxRestarts
    /\ phase' = "down"
    /\ UNCHANGED <<config, file, seen, got, read, written, restarts>>

Restart ==
    /\ phase = "down"
    /\ seen' = 0 /\ got' = 0 /\ read' = <<>>
    /\ phase' = "sleep"
    /\ restarts' = restarts + 1
    /\ UNCHANGED <<config, file, written>>

Writer  == (\E r \in Records : BeginAppend(r)) \/ EndAppend
Command == Stat \/ Read \/ ReadFails \/ write_output \/ WriteFails \/ Restart
WatchNext == Writer \/ Command

WatchSpec == WatchInit /\ [][WatchNext]_watched

----------------------------------------------------------------------------
\* While the command sleeps with the file's present modification time in its
\* memory, the output is what the file's present content converts to: nothing
\* written while the file was being read or converted is missed
\* (main.rs:196-206, the time is taken before the content is).
UpToDate == phase = "sleep" /\ seen = mtime => written = process_file(source)

\* A text whose lines the parser gives back unchanged in a turn of that kind.
Markup == {"sep", "session", "thinking", "tool", "tokens"}
PlainText(isUser, text) ==
    /\ text # <<>> /\ text[1] # Blank
    /\ \A i \in DOMAIN text :
          /\ text[i][1] \notin Markup
          /\ isUser => text[i] \notin {Blank, EndUp}
PlainContent(isUser, c) ==
    CASE c.type = "text" -> PlainText(isUser, c.text)
      [] c.type = "thinking" -> opts.thinking /\ Len(c.text) = 1
      [] c.type = "tool" ->
            /\ c.args # <<>> => c.name \in Known /\ c.args = <<"key", c.args[2]>>
            /\ c.result # <<>> => /\ Len(c.result[1].text) = 1
                                 /\ c.result[1].text[1] # Blank
PlainEvent(e) ==
    CASE e.type = "compaction" -> \A i \in DOMAIN e.text : ~IsSep(e.text[i])
      [] e.type = "turn" ->
            /\ e.role \in {"user", "assistant"}
            /\ \A j \in DOMAIN e.contents : PlainContent(e.role = "user", e.contents[j])
            /\ \A j \in 2..Len(e.contents) : e.contents[j].type = "text" =>
                 /\ e.contents[j - 1].type # "text"      \* it would join that one
                 /\ e.contents[j - 1].type = "tool" =>   \* or be read as its result
                      e.contents[j].text[1][1] \notin {"arrow", "omitted"}
            /\ e.role = "assistant" /\ e.contents[1].type = "text" =>
                 e.contents[1].text[1] # Up
      [] OTHER -> TRUE
Plain(events) == /\ \A i \in DOMAIN events : PlainEvent(events[i])
                 /\ events # <<>> => Last(events).type # "compaction"

\* "Parsable back into SessionEvent for round-trip fidelity" (context.rs:63):
\* what the .ctx output says parses back to the events it was made of, save for
\* the format version and the token counts, whatever order turns, thinking,
\* calls, results and lines of token counts come in, as long as every text is
\* plain.
RoundTrip ==
    phase = "write" /\ output = "ctx" =>
        LET events == EventsOf(read)
        IN  Plain(events) => parse(process_file(read)) = events

\* The request keeps every result with its call: reading the JSONL output back
\* gives the same events, save for the token counts, provided no two calls of
\* the session name the same tool (context.rs:690 makes the id of a call out of
\* the name alone) and every text is trimmed (transform.rs:113 trims it again).
ToolsOf(e) == IF e.type = "turn" THEN {j \in DOMAIN e.contents : e.contents[j].type = "tool"}
              ELSE {}
OneCallEach(events) ==
    \A i, k \in DOMAIN events : \A j \in ToolsOf(events[i]), l \in ToolsOf(events[k]) :
        events[i].contents[j].name = events[k].contents[l].name => i = k /\ j = l
Trimmed(events) ==
    \A i \in DOMAIN events : events[i].type = "turn" =>
        \A j \in DOMAIN events[i].contents : events[i].contents[j].type = "text" =>
            LET text == events[i].contents[j].text IN text # <<>> /\ Trim(text) = text
WireKeepsResults ==
    phase = "write" /\ output = "jsonl" =>
        LET events == EventsOf(read)
        IN  OneCallEach(events) /\ Trimmed(events) => transform(process_file(read)) = events

\* What the file says of the session only grows: an event keeps its place and
\* its contents, except that a call without a result may get one; a result,
\* once there, stays (transform.rs:56-67, 126).
SameButResult(c, d) ==
    IF c.type = "tool" /\ d.type = "tool" /\ c.result = <<>>
    THEN [d EXCEPT !.result = <<>>] = c ELSE d = c
Grown(e, f) ==
    IF e.type = "turn" /\ f.type = "turn"
    THEN /\ e.role = f.role /\ DOMAIN e.contents = DOMAIN f.contents
         /\ \A j \in DOMAIN e.contents : SameButResult(e.contents[j], f.contents[j])
    ELSE e = f
AllGrown(es, fs) ==
    Len(es) <= Len(fs) /\ \A i \in DOMAIN es : Grown(es[i], fs[i])
OnlyGrows ==
    [][kind = "jsonl" /\ source' # source =>
          AllGrown(transform(source), transform(source'))]_source
=============================================================================
