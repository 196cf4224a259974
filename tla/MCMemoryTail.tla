---------------------------- MODULE MCMemoryTail ----------------------------
EXTENDS MemoryTail, TLC

Whole ==
    [text |-> "prose", finished |-> TRUE, holed |-> FALSE,
     paired |-> TRUE, traffic |-> FALSE, history |-> TRUE]

\* A whole reply, one that was cut, none, one to a picture, one to OpenWebUI.
MCReplies ==
    {Whole, [Whole EXCEPT !.finished = FALSE],
     [Whole EXCEPT !.text = "none", !.history = FALSE],
     [Whole EXCEPT !.paired = FALSE, !.history = FALSE],
     [Whole EXCEPT !.traffic = TRUE, !.history = FALSE]}
=============================================================================
