-------------------------------- MODULE MCChat --------------------------------
(* Small instances of Chat for TLC.                                          *)
EXTENDS Chat

CONSTANTS c1, c2, c3

(* The clients that are connected at the start.                              *)
NoneConnected == <<>>
TwoConnected == <<c1, c2>>
ThreeConnected == <<c1, c2, c3>>
===============================================================================
