------------------------------ MODULE MCTraceLab ------------------------------
EXTENDS TraceLab
CONSTANTS analyst, creative, pragmatist, observer, judge
MCThinkers == <<analyst, creative, pragmatist, observer>>
MCRetriers == {{}, {creative}, Agent}
MCResponses == {[size |-> n, blank |-> n \in {0, 3}] : n \in 0..3}
MCJudgeTexts == {<<>>, <<"text">>, <<"selected">>, <<"reasoning", "final">>, <<"reasoning", "text">>,
                 <<"reasoning", "text", "final", "text", "selected">>}
==============================================================================
