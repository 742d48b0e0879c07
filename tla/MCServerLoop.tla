---------------------------- MODULE MCServerLoop ----------------------------
(***************************************************************************)
(* A small instance of ServerLoop for TLC: three descriptors, fewer and    *)
(* more slots than these (the listener has one), and a tick as long as     *)
(* WebTimeout, by which the clock can be set at once.                      *)
(***************************************************************************)
EXTENDS ServerLoop

MCObjects == {1, 2, 3, 4}
MCTimeouts == {WebTimeout, RealTimeout}
=============================================================================
