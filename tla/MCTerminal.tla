----------------------------- MODULE MCTerminal -----------------------------
\* Two commands, of the ones that take arguments. The boot leaves the screen empty, wrapped, with
\* tabs and erased characters, or with a line begun below the bottom.
EXTENDS Terminal
MCNames == <<<<"i">>, <<"v">>>>
MCBootTexts ==
    {<<>>, <<"a", "TAB", "TAB", "TAB", "TAB", "b", "BS", "BS">>, <<"a", "NL", "b", "CR", "NL", "ESC", "TAB", "BS">>}
=============================================================================
