--------------------------- MODULE EventRouterMC ---------------------------
(* Small instances of EventRouter for TLC.                                 *)
EXTENDS EventRouter

CONSTANTS a, b, dev, k1

(* The filters a session may set: everything, or nothing passes.           *)
AllOrNothing == {Kinds, {}}
OnlyAll == {Kinds}
=============================================================================
