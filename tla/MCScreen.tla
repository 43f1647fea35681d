------------------------------ MODULE MCScreen ------------------------------
(* A letter and a newline from kernel_main; from the handlers the dot of   *)
(* timer_handler and a line of keyboard_handler.                           *)
EXTENDS Screen

MCChars == {"a", NEWLINE}
MCHandlerStrings == {<<".">>, <<"k", NEWLINE>>}
=============================================================================
