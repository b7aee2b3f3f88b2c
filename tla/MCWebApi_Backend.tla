--------------------------- MODULE MCWebApi_Backend ---------------------------
(***************************************************************************)
(* Two threads that call again and again: one that adds a list of two      *)
(* pages, prefetches a playlist, asks for a relinked track and shows an    *)
(* image, and one that asks for the top tracks of an artist and for the    *)
(* image.  GetTrack without a relink takes the second half of the steps of *)
(* the top tracks.                                                         *)
(***************************************************************************)
EXTENDS WebApi_Backend

CONSTANTS prefetch, input, a, b, c

MCCalls ==
    [t \in {prefetch, input} |->
        IF t = prefetch
        THEN {[op |-> "pages", pages |-> <<{a}, {b}>>], [op |-> "tracks", ids |-> <<a, b>>],
              [op |-> "image"]}
        ELSE {[op |-> "relinked", id |-> b], [op |-> "top", tracks |-> {a}], [op |-> "image"]}]

\* A playlist longer than a chunk.
MCRefresh == [t \in {prefetch} |-> {[op |-> "tracks", ids |-> <<a, b, c>>]}]
=============================================================================
