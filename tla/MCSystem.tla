------------------------------ MODULE MCSystem ------------------------------
(* Instances of System for TLC: init.sys, shell.sys and the handlers of two *)
(* keystrokes.                                                              *)
EXTENDS System

MCMasks == {{"CONSOLE"}}
MCDwords == {"key"}
=============================================================================
