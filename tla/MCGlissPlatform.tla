-------------------------- MODULE MCGlissPlatform --------------------------
(* Two platforms, two states, one simulator and four host descriptors. *)
EXTENDS GlissPlatform, TLC

Symmetry == Permutations(Platforms) \cup Permutations(States)
=============================================================================
