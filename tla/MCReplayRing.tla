----------------------------- MODULE MCReplayRing -----------------------------
(* Two requests and their blocks.                                           *)
EXTENDS ReplayRing, TLC

CONSTANTS r1, r2, b1

Symmetric == Permutations(Reqs)

\* 1 << n.bit_length(): the smallest power of two above n.
PowerAbove(n) == CHOOSE p \in {2 ^ i : i \in 0 .. n} : p > n /\ p <= 2 * n

ASSUME RingIsPowerOfTwo == CacheBufLen = PowerAbove(BufferLen + NumSpec)
=============================================================================
