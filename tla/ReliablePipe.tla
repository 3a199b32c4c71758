---------------------------- MODULE ReliablePipe ----------------------------
(***************************************************************************)
(* What a stream promises its two applications, without sequence numbers,  *)
(* packets or timers: each side's input is a growing prefix of what the    *)
(* other side sent, and an end of input that is reported as clean comes    *)
(* only after everything sent before the other side's close.               *)
(***************************************************************************)
EXTENDS Integers, Sequences

CONSTANTS A, B

VARIABLES sent,      \* sent[e]: what e has written
          got,       \* got[e]: what e's application can read
          closedAt,  \* how much e had written when it closed, -1 before that
          ended      \* how e's input ended: "open" until it does

pipeVars == <<sent, got, closedAt, ended>>

Side == {A, B}
Other(e) == IF e = A THEN B ELSE A

PipeInit ==
  /\ sent = [e \in Side |-> <<>>]
  /\ got = [e \in Side |-> <<>>]
  /\ closedAt = [e \in Side |-> -1]
  /\ ended = [e \in Side |-> "open"]

Put(e) ==
  /\ sent' = [sent EXCEPT ![e] = Append(@, Len(@) + 1)]
  /\ UNCHANGED <<got, closedAt, ended>>

(* The next value arrives; a clean end is final.                           *)
Arrive(e) ==
  /\ ended[e] # "fin"
  /\ Len(got[e]) < Len(sent[Other(e)])
  /\ got' = [got EXCEPT ![e] = Append(@, sent[Other(e)][Len(@) + 1])]
  /\ UNCHANGED <<sent, closedAt, ended>>

Shut(e) ==
  /\ closedAt[e] = -1
  /\ closedAt' = [closedAt EXCEPT ![e] = Len(sent[e])]
  /\ UNCHANGED <<sent, got, ended>>

(* The end of the other side's stream, all of it delivered.                *)
EndClean(e) ==
  /\ ended[e] = "open"
  /\ closedAt[Other(e)] # -1
  /\ Len(got[e]) >= closedAt[Other(e)]
  /\ ended' = [ended EXCEPT ![e] = "fin"]
  /\ UNCHANGED <<sent, got, closedAt>>

(* A local close, an abort or a peer that vanished.                        *)
EndCut(e) ==
  /\ ended[e] = "open"
  /\ \E why \in {"expired", "cut"} : ended' = [ended EXCEPT ![e] = why]
  /\ UNCHANGED <<sent, got, closedAt>>

(* A daemon that stops closes and cuts its own input in one step.          *)
Vanish(e) ==
  /\ closedAt[e] = -1
  /\ ended[e] = "open"
  /\ closedAt' = [closedAt EXCEPT ![e] = Len(sent[e])]
  /\ ended' = [ended EXCEPT ![e] = "cut"]
  /\ UNCHANGED <<sent, got>>

PipeNext ==
  \E e \in Side : Put(e) \/ Arrive(e) \/ Shut(e) \/ EndClean(e) \/ EndCut(e) \/ Vanish(e)

PipeSpec == PipeInit /\ [][PipeNext]_pipeVars
=============================================================================
