--------------------------- MODULE MCLineOnScreen ----------------------------
(* Model checking of LineOnScreen with a prompt of one character on rows of *)
(* three; every command only answers.                                       *)
EXTENDS LineOnScreen, TLC

MCPrompt == <<"@">>
MCBoot == <<"H", "i">>
NoKinds == [w \in {} |-> {"plain"}]
Unused == <<"-">>
NoLetter == <<>>
MCOutputs == {<<"o", EndOfLine>>}
=============================================================================
