------------------------------ MODULE MCShell ------------------------------
(* TLC instance of the shell: one letter stands for a command's name,
   and a word of two letters is no command. *)
EXTENDS Shell

MCCommands ==
    [w \in {<<">">>, <<"h">>, <<"m">>, <<"c">>, <<"r">>} |->
        CASE w = <<">">> -> "echo"
          [] w = <<"h">> -> "history"
          [] w = <<"m">> -> "taskmon"
          [] w = <<"c">> -> "clear"
          [] w = <<"r">> -> "reboot"]

(* A line with an empty line after it. *)
MCTexts == {<<">", LineFeed, LineFeed>>}
============================================================================
