---------------------------- MODULE MCStreamCases ----------------------------
(***************************************************************************)
(* Stream on five small connections, one of which is chosen at the start:  *)
(* the one the constants describe (a close right after data that may be    *)
(* lost), and four that differ in some of them.  The state space is the    *)
(* sum of the five.                                                        *)
(***************************************************************************)
EXTENDS Stream

VARIABLE case

\* B writes nothing.
Writes(n) == [e \in Endpoint |-> IF e = A THEN n ELSE 0]
NoTail == [e \in Endpoint |-> {}]
AllButFirst == [e \in Endpoint |-> {2, 3}]
OneSegment == Writes(1)
OnlyA == {A}
None == {}

\* Both sides close, FINs and FIN-ACKs crossing and repeated.
Cross == INSTANCE Stream WITH
  MaxData <- Writes(0), Closing <- Endpoint, Keep <- TRUE
\* A burst of segments, repeated and reordered, and a writer that probes.
Burst == INSTANCE Stream WITH
  MaxData <- Writes(4), Closer <- None, Probing <- TRUE, Keep <- TRUE
\* Two tails past the window: more than the reorder buffer takes.
Past == INSTANCE Stream WITH
  MaxData <- Writes(3), Tails <- AllButFirst, MaxSegmentsOutstanding <- 1, MaxOOOBuf <- 1,
  Closer <- None, Keep <- TRUE
\* Data under loss.
Lossy == INSTANCE Stream WITH
  MaxData <- Writes(2), MaxRetxAttempts <- 2, Closer <- None

MCInit ==
  \/ case = "ending" /\ Init
  \/ case = "cross" /\ Cross!Init
  \/ case = "burst" /\ Burst!Init
  \/ case = "past" /\ Past!Init
  \/ case = "lossy" /\ Lossy!Init
MCNext ==
  /\ \/ case = "ending" /\ Next
     \/ case = "cross" /\ Cross!Next
     \/ case = "burst" /\ Burst!Next
     \/ case = "past" /\ Past!Next
     \/ case = "lossy" /\ Lossy!Next
  /\ UNCHANGED case

\* The fairness of Stream, for the cases with a liveness property.
MCFairness ==
  \A e \in Endpoint :
    /\ WF_vars(IF case = "lossy"
               THEN Lossy!Push(e) \/ Lossy!Commit(e) \/ Lossy!PacketLoopAccepts(e)
               ELSE case = "ending" /\ (Push(e) \/ Commit(e) \/ PacketLoopAccepts(e)))
    /\ WF_vars(IF case = "lossy" THEN Lossy!RetxLoop(e)
               ELSE case = "ending" /\ RetxLoop(e))
    /\ WF_vars(IF case = "lossy" THEN Lossy!SendDelayedACK(e)
               ELSE case = "ending" /\ SendDelayedACK(e))
    /\ WF_vars(IF case = "lossy" THEN Lossy!ExpireHeldFIN(e)
               ELSE case = "ending" /\ ExpireHeldFIN(e))
    /\ WF_vars(IF case = "lossy" THEN Lossy!HoldTimerAccepts(e)
               ELSE case = "ending" /\ HoldTimerAccepts(e))

MCSpec == MCInit /\ [][MCNext]_<<case, vars>> /\ MCFairness

\* ReorderRoom of Stream: what a reorder buffer has to take (WindowAvailable,
\* and the tails of flushHeldTail that go past it).
MCReorderRoom == IF case = "past" THEN Past!ReorderRoom ELSE ReorderRoom

\* WrittenArrives of Stream: a segment written arrives or the stream ends
\* (retxLoop, retransmitUnacked).
MCWrittenArrives == case = "lossy" => Lossy!WrittenArrives

\* HeldFinEnds of Stream: a held FIN ends the reader's stream
\* (expireHeldFIN).
MCHeldFinEnds == case = "ending" => HeldFinEnds
=============================================================================
