------------------------------ MODULE MCPrompt ------------------------------
EXTENDS Prompt

Tokens(local, cost) == [local |-> local, cost |-> cost]

\* One size for the turns of the user, one for the replies, one for the
\* newest turn; the model charges up to twice what is counted, and for one
\* newest turn so much more that the arithmetic of the guard misleads it.
MCSizings ==
    {[i \in 1 .. N |-> IF i = N THEN new ELSE IF i % 2 = 1 THEN user ELSE reply] :
        user \in {Tokens(1, 1), Tokens(2, 2)}, reply \in {Tokens(1, 1), Tokens(1, 2)},
        new \in {Tokens(1, 1), Tokens(2, 4), Tokens(1, 22)}}

MCCallerSize == Tokens(1, 1)
MCStandinSizes == {Tokens(1, 2), Tokens(3, 4)}
=============================================================================
