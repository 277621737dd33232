--------------------------- MODULE MCAdminConsole ---------------------------
EXTENDS AdminConsole

CONSTANTS e1, e2, k1, k2

ApiKeyLine == [NoLines EXCEPT !.key = {"keys"}]

\* A file with an earlier control prompt, and one with settings written by hand; the
\* environment gives nothing, or the keys, a prompt and a switch.
MCFiles ==
    {[ApiKeyLine EXCEPT !.prompt = {"quoted"}],
     [ApiKeyLine EXCEPT !.think = {TRUE}, !.concurrency = {0}, !.overrides = {Prompt(Control, "plain")}]}
MCGiven == {NoLines, [ApiKeyLine EXCEPT !.prompt = {"plain"}, !.think = {TRUE}]}

MCPools == {{}, {e1}}
MCLists == {<<e1, Malformed, e1, e2>>}

MCApiKeys == {<<Bare(k1), Bare(k2)>>}
=============================================================================
