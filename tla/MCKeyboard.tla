---------------------------- MODULE MCKeyboard ----------------------------
(* TLC instances of the keyboard driver, and what its documentation claims. *)
EXTENDS Keyboard

(* "Only generate repeat after initial delay" (keyboard.c:143): whenever
   read_char is about to repeat, the held key has been down that long. *)
RepeatOnlyAfterDelay == pc = "stamp" => age = InitialDelay
============================================================================
