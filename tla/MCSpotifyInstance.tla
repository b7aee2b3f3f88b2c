-------------------------- MODULE MCSpotifyInstance --------------------------
(***************************************************************************)
(* Two workers, each with the scope of its request and that of a wait.     *)
(***************************************************************************)
EXTENDS SpotifyInstance

CONSTANTS w1, w2

MCWorkers == {w1, w2}
MCScopes == MCWorkers \X {"wait", "request"}
=============================================================================
