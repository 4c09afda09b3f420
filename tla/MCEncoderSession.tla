-------------------------- MODULE MCEncoderSession --------------------------
(* Instances of EncoderSession for TLC.                                    *)
EXTENDS EncoderSession, TLC

CONSTANTS c1, c2, c3, s1, s2

\* Clients are interchangeable and so are buffers; only for safety runs.
Symmetric == Permutations(Clients) \cup Permutations(Slots)

=============================================================================
