---------------------------- MODULE MCMessageQueue ----------------------------
(* MessageQueue for TLC: two producers, elements of length 1 and 2.        *)
EXTENDS MessageQueue, TLC

CONSTANTS p1, p2

MCProducers == {p1, p2}
MCSymmetry == Permutations(MCProducers)
MCSizeOf == [m \in Message |-> 1 + (m[2] % 2)]
=============================================================================
