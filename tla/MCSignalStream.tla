--------------------------- MODULE MCSignalStream ---------------------------
(***************************************************************************)
(* SignalStream with few topics, emissions and streams, for TLC.           *)
(***************************************************************************)
EXTENDS SignalStream
=============================================================================
