------------------------------ MODULE MCRumble ------------------------------
(* A small instance of Rumble: readers are alike, and so are callers.        *)
EXTENDS Rumble, TLC

Alike == Permutations(Reader) \cup Permutations(Caller)
=============================================================================
