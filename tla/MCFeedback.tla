----------------------------- MODULE MCFeedback -----------------------------
(* Small instances of Feedback for TLC. *)
EXTENDS Feedback

\* Every slot differs from the others.
MCOrdinary ==
    [k \in 0 .. 7 |-> [position |-> 1000 * (k + 1), velocity |-> 300 * k, current |-> k,
                       status |-> 32 * k + 17, alarm |-> k]]

\* Values at the edges: of the stroke, of a byte, of a word, of int16 times ten.
MCEdges ==
    [k \in 0 .. 7 |->
        [position |-> (<<0, 65535, 10000, 10001, 20000, 20001, 19999, 256>>)[k + 1],
         velocity |-> (<<65535, 3276, 62260, 3277, 32768, 32767, 1, 0>>)[k + 1],
         current |-> (<<65535, 32767, 32768, 255, 256, 0, 1, 2>>)[k + 1],
         status |-> (<<255, 0, 196, 36, 228, 4, 1, 8>>)[k + 1],
         alarm |-> (<<255, 16, 15, 17, 0, 128, 1, 2>>)[k + 1]]]

MCProfiles == {MCOrdinary, MCEdges}
MCLengths == {1, 2, 8, 12, 16, 48, 64}
MCSlots == {0, 5, 6, 8, 9, 31, 32}
MCTypes == {0, 80, 81, 90, 112, 208, 218}
=============================================================================
