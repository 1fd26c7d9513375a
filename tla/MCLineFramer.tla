---------------------------- MODULE MCLineFramer ----------------------------
(* Every stream of up to MaxStream bytes, in every division into chunks.   *)
EXTENDS LineFramer

CONSTANT MaxStream

MCStreams == UNION { [1..n -> Byte] : n \in 0..MaxStream }
=============================================================================
