--------------------------- MODULE MCEncoderBackends --------------------------
(* Instances of EncoderBackends for TLC: the .cfg files choose the backends. *)
EXTENDS EncoderBackends

=============================================================================
