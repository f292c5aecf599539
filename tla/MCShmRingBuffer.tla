-------------------------- MODULE MCShmRingBuffer ---------------------------
(* The ring for TLC: which readers there are, which of them time out and
which messages overflow a chunk. *)
EXTENDS ShmRingBuffer

CONSTANTS r1, r2

MCReaders == {r1, r2}
MCTimed == {r2}
MCLarge == {2}
=============================================================================
