----------------------------- MODULE MCConsole ------------------------------
(* Model checking of Console with words of one letter, of which command and *)
(* a row of args hold two: get_time is "g", div-zero "gg", "-c" is "g", and *)
(* sleep, all that only answer and "-h" are the word of no letter.          *)
EXTENDS Console, TLC

OneLetter == <<"g">>
NoLetter == <<>>

AllKinds ==
    OneLetter :> {"continuous"} @@ NoLetter :> {"sleep", "plain"}
      @@ <<"g", "g">> :> {"fault"}
=============================================================================
