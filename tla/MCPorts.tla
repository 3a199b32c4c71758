------------------------------ MODULE MCPorts ------------------------------
(***************************************************************************)
(* Ports on four small instances, one of which is chosen at the start:     *)
(* the one the constants describe, where d1 dials and a peer stops         *)
(* talking, for what must happen in the end; the same, unswept, where an   *)
(* application binds an ephemeral port; Dials, two dials and a datagram    *)
(* over a single ephemeral port; and Rebound, a listener that is unbound   *)
(* and bound again.                                                        *)
(***************************************************************************)
EXTENDS Ports

CONSTANTS d1, d2
VARIABLE case

AllStates == State
Dials == INSTANCE Ports WITH EphMax <- EphMin, AckIn <- AllStates, MaxBind <- 0
Rebound == INSTANCE Ports WITH EphMax <- EphMin, AckIn <- AllStates, MaxBind <- 2

MCInit ==
  \/ case \in {"calm", "taken"} /\ Init
  \/ case = "dials" /\ Dials!Init
  \/ case = "rebound" /\ Rebound!Init
MCNext ==
  /\ \/ case = "calm" /\ Next /\ dial'[d2] = dial[d2] /\ dg' = dg /\ lis'[EphMin] = lis[EphMin]
     \/ case = "taken" /\ Next /\ dial'[d2] = dial[d2] /\ old' = old /\ sw' = sw
                       /\ \A p \in ListenPort \ Eph : lis'[p] = lis[p]
     \/ case = "dials" /\ Dials!Next
     \/ case = "rebound" /\ Rebound!Next /\ dial' = dial /\ dg' = dg /\ lis'[EphMin] = lis[EphMin]
  /\ UNCHANGED case

\* The fairness of Ports, for the case with a liveness property.
MCFairness ==
  /\ WF_vars(case = "calm" /\ DialStep(d1))
  /\ WF_vars(case = "calm" /\ SynStep)
  /\ WF_vars(case = "calm" /\ SweepStep)
  /\ \A c \in Id : WF_vars(case = "calm" /\ c \in DOMAIN conn /\ Age(c))
MCSpec == MCInit /\ [][MCNext]_<<vars, case>> /\ MCFairness

\* Reaped of Ports: an ended connection leaves the table though the peer
\* repeats its FIN (acceptFIN, StaleConnections).
MCReaped == \A c \in Id : (case = "calm" /\ Ended(c)) ~> (c \notin table)
=============================================================================
