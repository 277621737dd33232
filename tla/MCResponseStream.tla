-------------------------- MODULE MCResponseStream --------------------------
EXTENDS ResponseStream

Call(b) == <<"<", "call>">> \o b \o <<"</", "call>">>
Container(b) == <<"<", "calls>">> \o b \o <<"</", "calls>">>

\* One block, alone or between texts, two blocks, words, and blocks that are not complete.
MCAnswers ==
    {t \o b \o u : t \in {<<>>, <<"x", "<">>}, u \in {<<>>, <<"<">>, <<"y">>},
        b \in {<<>>, Call(<<"f">>), Call(<<"y">>), Container(<<"f">>)}}
    \cup {<<"x">> \o Container(Call(<<"f">>)) \o <<"y">>,
          Container(Call(<<"f">>) \o Call(<<"g">>))}
    \cup {b \o Call(<<"g">>) : b \in {Call(<<"f">>), Call(<<"g">>)}}
    \cup {<<"x", " ", "y">>, <<"captcha">>, <<"x", "captcha">>, <<"<", "</", "call>", "call>">>}
    \cup {<<"x", " ">> \o Call(<<"f">>) \o <<" ", "y", " ", "z">>}
    \cup {SubSeq(Container(Call(<<"f">>)), m, n) : m \in 1 .. 4, n \in {5, 8}}
=============================================================================
