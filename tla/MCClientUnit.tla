---------------------------- MODULE MCClientUnit ----------------------------
(***************************************************************************)
(* Small instances of ClientUnit for TLC.                                  *)
(***************************************************************************)
EXTENDS ClientUnit

Request(size, kind) == [size |-> size, kind |-> kind]

(* Four requests of which the last is handled, refused or bad. *)
MCStreams ==
    {<<Request(2, "data"), Request(3, "data"), Request(2, "data"), Request(3, kind)>> :
       kind \in Kinds}
=============================================================================
