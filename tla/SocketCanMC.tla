----------------------------- MODULE SocketCanMC ------------------------------
(* Small instances of SocketCan for TLC: a hard-coded node's event and a   *)
(* standard frame from the bus; an event for everybody and one for a node. *)
EXTENDS SocketCan

CONSTANTS a, b

BusFrames ==
  {[id |-> 2^28 + 2^25 + 20 * 2^16 + 9 * 2^8 + 7, ext |-> TRUE, data |-> a],
   [id |-> 5 * 2^8 + 3, ext |-> FALSE, data |-> b]}
Queued ==
  {[head |-> 240, class |-> 511, type |-> 255, node |-> 1, size |-> 3, data |-> a],
   [head |-> 96, class |-> 512, type |-> 6, node |-> 5, size |-> 18, data |-> b]}
=============================================================================
