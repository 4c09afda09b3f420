--------------------------- MODULE MCDecoderBackends ---------------------------
(* Instances of DecoderBackends for TLC.  The third packet shows nothing,  *)
(* as an altref frame does, and the fourth completes two frames.           *)
EXTENDS DecoderBackends

AltrefStream == <<<<1>>, <<2>>, <<>>, <<3, 4>>, <<5>>>>

=============================================================================
