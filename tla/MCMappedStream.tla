--------------------------- MODULE MCMappedStream ---------------------------
(* MappedStream on small streams: every pair of wires, calls interleaved.  *)
EXTENDS MappedStream
=============================================================================
