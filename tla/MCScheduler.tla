----------------------------- MODULE MCScheduler -----------------------------
(* Prompts over the tokens 1 and 2 (2 ends a text), requests 1, 2, ...     *)
EXTENDS ForwardPlan

Msg(p, n, e) == [prompt |-> p, maxTokens |-> n, ignoreEos |-> e]

MCToken == {1, 2}
MCBlock == [1..PageSize -> MCToken]
MCKey   == SeqOf(MCBlock, MaxRow)

\* Two prompts that share a token, one of them longer than the budget of 2.
SharedMsgs == {Msg(<<1, 2>>, 3, TRUE), Msg(<<1, 1, 2>>, 1, TRUE)}

\* A long prompt beside a short one with a longer answer, so that admission has to
\* count precisely, and a prompt that leaves no room for output with MaxSeqLen = 5.
TooLongMsg == Msg(<<1, 1, 1, 1, 1>>, 1, TRUE)
ShortMsg   == Msg(<<2>>, 3, FALSE)
TightMsgs  == {Msg(<<1, 1, 1, 2>>, 1, TRUE), ShortMsg, TooLongMsg}
AllMsgs    == SharedMsgs \cup TightMsgs

\* Prompts of two pages of two tokens and a half, of one page and of half a page, a
\* request for no output at all, and a prompt that is too long.
PagesMsgs == {Msg(<<1, 1, 2, 2, 1>>, 1, TRUE), Msg(<<1, 1>>, 3, FALSE), Msg(<<2>>, 0, TRUE),
              Msg(<<1>>, 2, TRUE), Msg(<<1, 1, 1, 1, 1, 1>>, 1, TRUE)}

\* One prompt, so that a request finds its own prompt cached by another one.
SamePrompt == {Msg(<<1, 2>>, 2, TRUE)}
=============================================================================
