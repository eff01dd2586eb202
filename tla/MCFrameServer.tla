--------------------------- MODULE MCFrameServer ---------------------------
(***************************************************************************)
(* FrameServer for TLC.  FIFOs are told apart only by their names and      *)
(* connections not at all, so safety is checked up to renaming both.       *)
(***************************************************************************)
EXTENDS FrameServer, TLC

Renaming == Permutations(Fifos) \cup Permutations(Clients)
============================================================================
