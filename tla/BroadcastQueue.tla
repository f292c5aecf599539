--------------------------- MODULE BroadcastQueue ---------------------------
(***************************************************************************)
(* What a MessageQueue promises to its users: one writer, several readers, *)
(* every reader gets every message once and in order, and the writer is    *)
(* never more than max_chunks messages ahead of the slowest reader.        *)
(* Messages are numbered in the order in which they are written.           *)
(***************************************************************************)
EXTENDS Integers

CONSTANTS Readers,      \* the local readers
          max_chunks,   \* chunks of the ring
          MaxMessages   \* bound: messages written in a behaviour

VARIABLES sent,         \* number of messages readers may see
          taken         \* for every reader, the number of messages it has read

vars == <<sent, taken>>

Init == sent = 0 /\ taken = [r \in Readers |-> 0]

Put == /\ sent < MaxMessages
       /\ \A r \in Readers : sent - taken[r] < max_chunks
       /\ sent' = sent + 1
       /\ UNCHANGED taken

Take(r) == /\ taken[r] < sent
           /\ taken' = [taken EXCEPT ![r] = @ + 1]
           /\ UNCHANGED sent

Next == Put \/ \E r \in Readers : Take(r)

Spec == Init /\ [][Next]_vars
=============================================================================
