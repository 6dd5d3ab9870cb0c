------------------------------ MODULE MCShell -------------------------------
(* Shell.tla with small constants for TLC. *)
EXTENDS Shell

\* Good lines of one to three commands, with one that does not read everything, a
\* bad command in every place, a line that is too long, and exit.
MCPipingLines ==
  {<<"exit">>, <<"true">>, <<"bad">>,
   <<"bad", "cat">>, <<"echo", "bad">>, <<"echo", "head">>,
   <<"echo", "cat", "cat">>, <<"echo", "cat", "head">>, <<"echo", "head", "cat">>, <<"true", "cat", "bad">>,
   <<"true", "true", "true", "true">>}

\* With signals, fewer of them.
MCSignalLines == {<<"exit">>, <<"bad">>, <<"echo", "head">>, <<"echo", "bad">>, <<"echo", "cat", "cat">>}

MCLinesOf(v) == IF v = "signal" THEN MCSignalLines ELSE MCPipingLines
MCVariants == {"piping", "signal", "simple"}

=============================================================================
