----------------------------- MODULE MCPlayback -----------------------------
(***************************************************************************)
(* Two inputs that compete for the one decoder are interchangeable, and the *)
(* results of the latest calls of the buffer say nothing the properties ask. *)
(***************************************************************************)
EXTENDS Playback, TLC

Symmetry == Permutations(Inputs)
View == <<queue, player, decoder, eofLost>>
=============================================================================
