---------------------------- MODULE MCTesterWindow -----------------------------
(* The window, the listener, and the UART test on one port, for TLC. *)
EXTENDS TesterWindow
=============================================================================
