------------------------------ MODULE MCStream ------------------------------
(* Instances of Stream for TLC: A writes, B answers little or nothing.      *)
EXTENDS Stream, TLC

CONSTANTS DataA, TailA, DataB, Stoppable, BothClose

MCMaxData == [e \in Endpoint |-> IF e = A THEN DataA ELSE DataB]
MCClosing == IF BothClose THEN {A, B} ELSE {A}
MCTail == [e \in Endpoint |-> IF e = A THEN TailA ELSE {}]
MCStopping == IF Stoppable THEN {A} ELSE {}

CloserSymmetry == Permutations(Closer)
=============================================================================
