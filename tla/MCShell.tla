------------------------------- MODULE MCShell -------------------------------
(***************************************************************************)
(* Single keys, the arrows, and pasted lines: one of each shape a command  *)
(* can have.  "^A" stands for the control bytes that are not white, "\n"   *)
(* for those that are; a paste ends its lines with both CR and "\n".       *)
(***************************************************************************)
EXTENDS Shell

MCWords == {"write", "ls", "mkdir", "hello", "timer", "bench", "7"}
MCControls == {"^A", "\n"}
MCWhite == {Space, "\n"}
Single == {<<"^A">>, <<Space>>, <<"A">>, <<ESC>>, <<DEL>>, <<CR>>}
Arrows == {<<ESC, "[", "A">>, <<ESC, "[", "B">>, <<ESC, "[">>}
Lines == {<<"write">>, <<"write", Space, "A", Space, Space, "B">>,
          <<Space, "mkdir", Space, Slash, "A">>, <<"mkdir", CR>>, <<"mkdir", Space, Space, "A">>,
          <<"hello", CR>>, <<"hello", CR, "ls", CR, "\n">>, <<"timer", Space, "7", CR>>, <<"bench", Space, "7", CR>>,
          <<"bench", Space, "7", Space, "7", CR>>}
MCBursts == Single \cup Arrows \cup Lines
==============================================================================
