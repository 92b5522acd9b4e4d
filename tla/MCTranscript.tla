---------------------------- MODULE MCTranscript ----------------------------
(***************************************************************************)
(* Instance of Transcript for TLC: handles are interchangeable.            *)
(***************************************************************************)
EXTENDS Transcript, TLC

Symmetry == Permutations(Handle)
=============================================================================
