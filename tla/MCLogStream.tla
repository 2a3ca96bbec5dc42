---------------------------- MODULE MCLogStream ----------------------------
(* Every text of two tokens, those of a forgery among them, and whole forgeries. *)
EXTENDS LogStream

Tokens == {"msh", "n", " ", "\"", "\\", "=", "\n"}
MCTexts == SeqOf(Tokens, 2) \cup
  {<<"msh", "\n", "[STATS]", " ", "total", "=", "n">>,
   <<"\"", " ", "portnum", "=", "msh">>, <<"\\", "\"", " ", "total", "=", "\\">>,
   <<"\\", "n", "\t", "\\", "\\">>}
MCChannels == {<<>>, <<"\"", "\\">>}
MCSenders == {<<"msh">>, <<"n", "\n">>}
MCRepr == [c \in {"\n", "\t"} |-> IF c = "\n" THEN "n" ELSE "t"]
MCCounts == {<<"17">>}
=============================================================================
