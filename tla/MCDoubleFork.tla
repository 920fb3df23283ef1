----------------------------- MODULE MCDoubleFork -----------------------------
(* A four-byte v in a size_t that wraps at 16, for TLC.                    *)
EXTENDS DoubleFork

AllFaults == {"pipe", "fork", "kill", "create"}

=============================================================================
