------------------------------ MODULE MCUtLog -------------------------------
(***************************************************************************)
(* UtLog on small instances.  What a line begins with has a colour code,   *)
(* or is longer than a line, whose end cuts its code in two; the text      *)
(* loses what follows its code.  The default name fits its buffer, a       *)
(* longer one is cut; from one second to the next both digits change.      *)
(***************************************************************************)
EXTENDS UtLog, TLC

LinePrefixes == {<<"L", "ESC", "r", "m">>,
                 <<"L", "o", "n", "g", "e", "r", "!", "ESC", "r", "m">>}
LineTexts == {<<"a", "ESC", "b", "m", "c">>}
DefaultDirectory == <<"/">>
Directories == {<<"h", "o">>}
MCStamp == [second \in 0 .. 1 |-> IF second = 0 THEN <<"0", "9">> ELSE <<"1", "0">>]
ThreadSymmetry == Permutations(Thread)
=============================================================================
