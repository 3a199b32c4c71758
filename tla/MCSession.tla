---------------------------- MODULE MCSession ----------------------------
EXTENDS Session
CONSTANTS a, b
TwoNodes == {a, b}
BRestarts == [n \in Node |-> IF n = b THEN 2 ELSE 1]
FirstCopied == {<<a, 1>>}
OneSender == [n \in Node |-> IF n = a THEN 2 ELSE 0]
=============================================================================
