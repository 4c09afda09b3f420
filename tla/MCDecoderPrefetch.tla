-------------------------- MODULE MCDecoderPrefetch --------------------------
(* Instances of DecoderPrefetch for TLC: the clients as model values.      *)
EXTENDS DecoderPrefetch

CONSTANTS c1, c2, c3

=============================================================================
