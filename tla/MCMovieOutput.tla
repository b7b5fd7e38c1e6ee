---------------------------- MODULE MCMovieOutput ----------------------------
(* Slices, threshold and retries as the game has them, movies of a few frames. *)
EXTENDS MovieOutputProperties
=============================================================================
