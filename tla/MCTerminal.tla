----------------------------- MODULE MCTerminal -----------------------------
(* The terminal on a screen of two rows, with the keys of the cfg and a    *)
(* splash screen of one line.                                              *)
EXTENDS Terminal

MCSplash == <<"tab", MESSAGE, "newline">>
=============================================================================
