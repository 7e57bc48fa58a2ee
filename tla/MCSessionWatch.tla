--------------------------- MODULE MCSessionWatch ---------------------------
\* Instances of SessionWatch for TLC: two calls and their results, texts with
\* blank lines and with markup in them.
EXTENDS SessionWatch

A == Word("a")
B == Word("b")
TextBlock(text) == [type |-> "text", text |-> text]
ThinkingBlock(text) == [type |-> "thinking", text |-> text]
CallBlock(id, name, args) == [type |-> "toolCall", id |-> id, name |-> name, args |-> args]

Ask     == MessageOf("user", <<[type |-> "string", text |-> <<A>>]>>)
AskOdd  == MessageOf("user", <<TextBlock(<<A, EndUp, B>>)>>)
Answer  == MessageOf("assistant",
    <<TextBlock(<<A, Blank, Arrow(FALSE, B)>>), CallBlock("c1", "read", <<"key", "x">>)>>)
Answers == MessageOf("assistant", <<ThinkingBlock(<<A>>), CallBlock("c2", "read", <<>>),
                                  CallBlock("c3", "find", <<>>)>>)
Failed  == ResultMessage("c1", <<A>>, TRUE)
Long    == ResultMessage("c3", <<A, B, A>>, FALSE)

AllRecords == {Ask, AskOdd, Answer, Answers, Failed, Long, Compaction(<<A, Blank>>), Mark("model", "m")}
Begins     == {<<>>, <<Ask, Answer>>, <<Answers, Failed>>}

BothKinds == {"jsonl", "ctx"}
Full  == [thinking |-> TRUE,  raw |-> FALSE, summary |-> FALSE, usage |-> {"user", "assistant"}]
Short == [thinking |-> FALSE, raw |-> TRUE,  summary |-> TRUE,  usage |-> {}]
FourCommands == { [output |-> "ctx", opts |-> Full], [output |-> "ctx", opts |-> Short],
                  [output |-> "jsonl", opts |-> Full], [output |-> "txt", opts |-> Short] }
=============================================================================
