------------------------------- MODULE MCLogger -------------------------------
(* Texts for the arguments of a format, and lengths on both sides of the   *)
(* limits of a line and of a section's name.                               *)
EXTENDS Logger

MCStrings == {<<>>, <<"x">>, <<"x", "y">>}
MCLines == {0, 6, 12} \X (0..300)
MCTitles == 0..70
=============================================================================
