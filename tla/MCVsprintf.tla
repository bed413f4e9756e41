---------------------------- MODULE MCVsprintf ----------------------------
\* Every short string over Alphabet, and every full directive over a few values of each part.
EXTENDS Vsprintf, SequencesExt
Alphabet == {"%", "-", "0", "2", ".", "*", "l", "d", "z"}
Short == SeqOf(Alphabet, 3)
Parts(S) == S \cup {<<>>}
Directives ==
    {<<"%">> \o a \o w \o p \o q \o <<c>> :
        a \in Parts({<<"-">>, <<"+">>, <<"#">>, <<"0">>, <<"#", "0">>, <<"+", "-">>, <<"-", "0">>, <<" ">>}),
        w \in Parts({<<"1", "0">>, <<"4">>}), p \in Parts({<<".">>, <<".", "3">>}),
        q \in Parts({<<"l">>, <<"h">>}), c \in Conversions}
AllFormats == Short \cup Directives \cup {<<"%", "2", "d", "%", "d">>, <<"%", "-", "s", "%", "2", "c">>}
StarArgs == {-3, 0, 3}
StringLengths == {-1, 0, 5}
=============================================================================
