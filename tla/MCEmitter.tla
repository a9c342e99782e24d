----------------------------- MODULE MCEmitter -----------------------------
(* One sub-module, and handwritten modules of its name and of another one, for Emitter. *)
EXTENDS Emitter

CONSTANTS generated, sub, hand, x, y

OneSub     == <<sub>>
HandAndSub == {hand, sub}
TwoSources == {x, y}
=============================================================================
