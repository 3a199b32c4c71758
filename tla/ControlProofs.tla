--------------------------- MODULE ControlProofs ---------------------------
(***************************************************************************)
(* Two parts of the control plane, for every value of their constants.     *)
(*                                                                         *)
(* The replay window is right for every window size, every number of       *)
(* frames and every number of concurrent callers of DecryptFrame.          *)
(*                                                                         *)
(* HandshakePoll (the instance H) loses an answer only with a reply that   *)
(* does not arrive or to the deadline of the shutdown, for every set of    *)
(* peers and every bound, however polls, pokes, clients and the shutdown   *)
(* interleave, and its schedule keeps within its limits.                   *)
(***************************************************************************)
EXTENDS ReplayWindow, FiniteSetTheorems, TLAPS

CONSTANTS Peer, MaxParked, MaxRequests, MaxFailed, handshakeMaxWaiting, handshakePokeBurst
VARIABLES inbox, parked, asked, failed, since, pokeDue, tokens, closed, waiting, poll, extra, wake,
          settling, client, trusted, stop, owed, answers, lost

H == INSTANCE HandshakePoll

-----------------------------------------------------------------------------
(* The replay window.                                                      *)

\* The multiples of W are W apart.
LEMMA Multiples ==
    ASSUME NEW d \in Int, W * d < W, W * d > 0 - W
    PROVE  d = 0
<1>1. W \in Nat /\ W > 0
  BY WindowAssumption
<1>2. CASE d <= 0 - 1
  <2>1. W * d <= W * (0 - 1)
    BY <1>1, <1>2
  <2>. QED BY <1>1, <2>1
<1>3. CASE d >= 1
  <2>1. W * d >= W * 1
    BY <1>1, <1>3
  <2>. QED BY <1>1, <2>1
<1>. QED BY <1>2, <1>3

\* Division with remainder by the window size.
LEMMA Division ==
    ASSUME NEW a \in Nat
    PROVE  /\ a \div W \in Int
           /\ Bit(a) \in 0 .. (W - 1)
           /\ a = W * (a \div W) + Bit(a)
<1>1. W \in Nat /\ W > 0
  BY WindowAssumption
<1>. QED BY <1>1 DEF Bit

\* Two numbers less than W apart never share a bit of the window.
LEMMA BitsDistinct ==
    ASSUME NEW a \in Nat, NEW b \in Nat, a < b, b - a < W
    PROVE  Bit(a) # Bit(b)
<1>1. W \in Nat /\ W > 0
  BY WindowAssumption
<1>2. SUFFICES ASSUME Bit(a) = Bit(b) PROVE FALSE
  OBVIOUS
<1>3. PICK q \in Int : a = W * q + Bit(a)
  BY Division
<1>4. PICK p \in Int : b = W * p + Bit(b)
  BY Division
<1>5. W * (p - q) = b - a
  <2>1. W * (p - q) = W * p - W * q
    BY <1>1
  <2>2. W * p \in Int /\ W * q \in Int /\ Bit(a) \in Int /\ Bit(b) \in Int
    BY <1>1, Division
  <2>. QED BY <1>2, <1>3, <1>4, <2>1, <2>2
<1>6. p - q = 0
  BY <1>1, <1>5, Multiples
<1>. QED BY <1>1, <1>5, <1>6

\* A number and the one W above it share their bit.
LEMMA BitPeriodic ==
    ASSUME NEW a \in Nat
    PROVE  Bit(a + W) = Bit(a)
<1>1. W \in Nat /\ W > 0
  BY WindowAssumption
<1>2. PICK q \in Int : a = W * q + Bit(a)
  BY Division
<1>3. a + W \in Nat
  BY <1>1
<1>4. PICK p \in Int : a + W = W * p + Bit(a + W)
  BY <1>3, Division
<1>5. Bit(a) \in 0 .. (W - 1) /\ Bit(a + W) \in 0 .. (W - 1)
  BY <1>3, Division
<1>6. W * (p - q - 1) = Bit(a) - Bit(a + W)
  <2>1. W * (p - q - 1) = W * p - W * q - W
    BY <1>1
  <2>2. W * p \in Int /\ W * q \in Int
    BY <1>1
  <2>. QED BY <1>1, <1>2, <1>4, <1>5, <2>1, <2>2
<1>7. p - q - 1 = 0
  BY <1>1, <1>5, <1>6, Multiples
<1>8. Bit(a) - Bit(a + W) = 0
  BY <1>1, <1>6, <1>7
<1>. QED BY <1>1, <1>5, <1>8

-----------------------------------------------------------------------------
\* What a caller inside DecryptFrame knows about the number it holds: it is
\* one the sender used, and if it was refused then for a reason.
Held ==
    \A r \in Reader :
        /\ rd[r].pc = "open" => rd[r].c > 0
        /\ (rd[r].pc = "open" /\ ~rd[r].accept) \/ rd[r].pc = "reject"
              => rd[r].c \in accepted \/ IsOutside(rd[r].c, rd[r].maxN)

\* The inductive invariant.
IInv == TypeOK /\ WindowExact /\ AtMostOnce /\ ReplayIsReplay /\ Held

\* Both verdicts refuse a number only when it was admitted before or lies
\* outside the window.
LEMMA RefusedForReason ==
    ASSUME TypeOK, WindowExact, NEW c \in Nat, ~Admits(c)
    PROVE  c \in accepted \/ IsOutside(c, max)
<1>1. W \in Nat /\ W > 0 /\ max \in Nat /\ accepted \subseteq Nat
  BY WindowAssumption DEF TypeOK
<1>2. max # 0 /\ c <= max /\ (max - c >= W \/ Bit(c) \in bitmap)
  BY <1>1 DEF Admits
<1>3. CASE max - c >= W
  BY <1>1, <1>3 DEF IsOutside
<1>4. CASE max - c < W /\ Bit(c) \in bitmap
  <2>1. Bit(c) \in 0 .. (W - 1)
    BY Division
  <2>2. PICK a \in accepted : a > max - W /\ Bit(a) = Bit(c)
    BY <1>4, <2>1 DEF WindowExact
  <2>3. a \in Nat /\ a <= max
    BY <1>1 DEF WindowExact
  <2>4. CASE a = c
    BY <2>4
  <2>5. CASE a < c
    BY <1>1, <1>2, <2>2, <2>3, <2>5, BitsDistinct
  <2>6. CASE a > c
    BY <1>1, <1>4, <2>2, <2>3, <2>6, BitsDistinct
  <2>. QED BY <2>3, <2>4, <2>5, <2>6
<1>. QED BY <1>1, <1>2, <1>3, <1>4

\* A number the commit admits was never admitted before.
LEMMA AdmittedIsFresh ==
    ASSUME TypeOK, WindowExact, NEW c \in Nat, Admits(c)
    PROVE  c \notin accepted
<1>1. W \in Nat /\ W > 0 /\ max \in Nat
  BY WindowAssumption DEF TypeOK
<1>2. CASE max = 0
  BY <1>2 DEF WindowExact
<1>3. CASE c > max
  BY <1>1, <1>3 DEF WindowExact
<1>4. CASE c <= max /\ max - c < W /\ Bit(c) \notin bitmap
  <2>1. Bit(c) \in 0 .. (W - 1)
    BY Division
  <2>2. c > max - W
    BY <1>1, <1>4
  <2>. QED BY <1>4, <2>1, <2>2 DEF WindowExact
<1>. QED BY <1>1, <1>2, <1>3, <1>4 DEF Admits

\* Recording an admitted number keeps the window exact.
LEMMA RecordKeepsExact ==
    ASSUME TypeOK, WindowExact, NEW c \in Nat, c > 0, Admits(c),
           max' = (IF max = 0 \/ c > max THEN c ELSE max),
           bitmap' = Recorded(c),
           accepted' = accepted \cup {c}
    PROVE  WindowExact' /\ max' \in Nat /\ bitmap' \subseteq 0 .. (W - 1)
<1>1. W \in Nat /\ W > 0 /\ max \in Nat /\ accepted \subseteq Nat
      /\ bitmap \subseteq 0 .. (W - 1)
  BY WindowAssumption DEF TypeOK
<1>2. Bit(c) \in 0 .. (W - 1)
  BY Division
<1>3. max' \in Nat /\ max' # 0 /\ max' \in accepted'
      /\ \A a \in accepted' : a <= max'
  BY <1>1 DEF WindowExact
<1>4. accepted' # {}
  OBVIOUS
<1>5. bitmap' \subseteq 0 .. (W - 1)
  BY <1>1, <1>2 DEF Recorded, SetReplayBit
<1>6. ASSUME NEW i \in 0 .. (W - 1)
      PROVE  i \in bitmap' <=> \E a \in accepted' : a > max' - W /\ Bit(a) = i
  <2>1. CASE max = 0
    <3>1. accepted = {} /\ max' = c
      BY <2>1 DEF WindowExact
    <3>2. i \notin bitmap
      BY <3>1 DEF WindowExact
    <3>3. i \in bitmap' <=> i = Bit(c)
      BY <2>1, <3>2 DEF Recorded, SetReplayBit
    <3>. QED BY <1>1, <3>1, <3>3
  <2>2. CASE max # 0 /\ c <= max
    <3>1. max' = max /\ bitmap' = bitmap \cup {Bit(c)} /\ c > max - W
      BY <1>1, <2>2 DEF Recorded, SetReplayBit, Admits
    <3>. QED BY <3>1 DEF WindowExact
  <2>3. CASE max # 0 /\ c > max /\ c - max >= W
    <3>1. max' = c /\ bitmap' = {Bit(c)}
      BY <1>1, <2>3 DEF Recorded
    <3>2. \A a \in accepted : ~(a > c - W)
      BY <1>1, <2>3 DEF WindowExact
    <3>. QED BY <1>1, <3>1, <3>2
  <2>4. CASE max # 0 /\ c > max /\ c - max < W
    <3>1. max' = c /\ bitmap' = (bitmap \ Uncovered(c)) \cup {Bit(c)}
      BY <1>1, <2>4 DEF Recorded, SetReplayBit
    <3>2. ASSUME NEW a \in accepted, a > c - W, Bit(a) = i
          PROVE  i \in bitmap'
      <4>1. a \in Nat /\ a <= max /\ a > max - W
        BY <1>1, <2>4, <3>2 DEF WindowExact
      <4>2. i \in bitmap
        BY <3>2, <4>1 DEF WindowExact
      <4>3. ASSUME NEW x \in (max + 1) .. c PROVE Bit(x) # i
        <5>1. x \in Nat /\ a < x /\ x - a < W
          BY <1>1, <3>2, <4>1
        <5>. QED BY <3>2, <4>1, <5>1, BitsDistinct
      <4>. QED BY <3>1, <4>2, <4>3 DEF Uncovered
    <3>3. ASSUME i \in bitmap, i \notin Uncovered(c)
          PROVE  \E a \in accepted : a > c - W /\ Bit(a) = i
      <4>1. PICK a \in accepted : a > max - W /\ Bit(a) = i
        BY <3>3 DEF WindowExact
      <4>2. a \in Nat
        BY <1>1
      <4>3. CASE a <= c - W
        <5>1. a + W \in (max + 1) .. c
          BY <1>1, <2>4, <4>1, <4>2, <4>3
        <5>2. Bit(a + W) = i
          BY <4>1, <4>2, BitPeriodic
        <5>. QED BY <3>3, <5>1, <5>2 DEF Uncovered
      <4>. QED BY <1>1, <4>1, <4>2, <4>3
    <3>4. c > c - W
      BY <1>1
    <3>. QED BY <3>1, <3>2, <3>3, <3>4
  <2>. QED BY <1>1, <2>1, <2>2, <2>3, <2>4
<1>. QED BY <1>3, <1>4, <1>5, <1>6 DEF WindowExact

\* An empty window describes the empty set of admitted numbers.
LEMMA InitInv == Init => IInv
<1>1. W \in Nat /\ W > 0
  BY WindowAssumption
<1>2. MaxNonce \in Nat
  BY BoundAssumption
<1>. QED BY <1>1, <1>2 DEF Init, IInv, TypeOK, WindowExact, AtMostOnce,
            ReplayIsReplay, Held, Idle, Phase

\* Every region of DecryptFrame keeps the invariant; only Commit moves the
\* window, and it does so through RecordKeepsExact.
LEMMA StepInv == IInv /\ [Next]_vars => IInv'
<1>. SUFFICES ASSUME IInv, [Next]_vars PROVE IInv'
  OBVIOUS
<1>1. TypeOK /\ WindowExact /\ AtMostOnce /\ ReplayIsReplay /\ Held
  BY DEF IInv
<1>2. MaxNonce \in Nat
  BY BoundAssumption
<1>3. CASE EncryptWith
  BY <1>1, <1>2, <1>3, SMTT(30) DEF EncryptWith, IInv, TypeOK, WindowExact, AtMostOnce,
     ReplayIsReplay, Held, IsOutside
<1>4. ASSUME NEW r \in Reader, NEW c \in 1 .. nonce, Precheck(r, c)
      PROVE  IInv'
  <2>1. c \in Nat /\ c > 0 /\ max \in Nat
    BY <1>1 DEF TypeOK
  <2>2. WouldAcceptNonce(c) \in BOOLEAN /\ (~WouldAcceptNonce(c) => ~Admits(c))
    BY DEF WouldAcceptNonce, Admits
  <2>3. ~WouldAcceptNonce(c) => c \in accepted \/ IsOutside(c, max)
    BY <1>1, <2>1, <2>2, RefusedForReason
  <2>4. TypeOK'
    BY <1>1, <1>4, <2>1, <2>2 DEF Precheck, TypeOK, Phase
  <2>5. Held'
    BY <1>1, <1>4, <2>1, <2>3 DEF Precheck, Held, TypeOK, IsOutside
  <2>. QED BY <1>1, <1>4, <2>4, <2>5 DEF Precheck, IInv, WindowExact,
              AtMostOnce, ReplayIsReplay
<1>5. ASSUME NEW r \in Reader, OpenFails(r)
      PROVE  IInv'
  BY <1>1, <1>5, SMTT(30) DEF OpenFails, IInv, TypeOK, WindowExact, AtMostOnce,
     ReplayIsReplay, Held, IsOutside
<1>6. ASSUME NEW r \in Reader, Commit(r)
      PROVE  IInv'
  <2>. DEFINE c == rd[r].c
  <2>1. c \in Nat /\ c > 0 /\ max \in Nat
    BY <1>1, <1>6 DEF Commit, TypeOK, Held
  <2>2. CASE Admits(c)
    <3>1. /\ max' = (IF max = 0 \/ c > max THEN c ELSE max)
          /\ bitmap' = Recorded(c)
          /\ accepted' = accepted \cup {c}
          /\ twice' = (IF c \in accepted THEN twice \cup {c} ELSE twice)
          /\ rd' = [rd EXCEPT ![r].pc = "reset"]
      BY <1>6, <2>2 DEF Commit
    <3>2. WindowExact' /\ max' \in Nat /\ bitmap' \subseteq 0 .. (W - 1)
      BY <1>1, <2>1, <2>2, <3>1, RecordKeepsExact
    <3>3. c \notin accepted
      BY <1>1, <2>1, <2>2, AdmittedIsFresh
    <3>4. twice' = {}
      BY <1>1, <3>1, <3>3 DEF AtMostOnce
    <3>5. TypeOK'
      BY <1>1, <1>6, <2>1, <3>1, <3>2, <3>4 DEF Commit, TypeOK, Phase
    <3>6. Held'
      BY <1>1, <3>1 DEF Held, TypeOK, IsOutside
    <3>. QED BY <1>1, <1>6, <3>2, <3>4, <3>5, <3>6 DEF Commit, IInv,
                AtMostOnce, ReplayIsReplay
  <2>3. CASE ~Admits(c)
    <3>1. rd' = [rd EXCEPT ![r].pc = "reject", ![r].maxN = max]
          /\ UNCHANGED <<max, bitmap, accepted, twice>>
      BY <1>6, <2>3 DEF Commit
    <3>2. c \in accepted \/ IsOutside(c, max)
      BY <1>1, <2>1, <2>3, RefusedForReason
    <3>3. TypeOK'
      BY <1>1, <1>6, <2>1, <3>1 DEF Commit, TypeOK, Phase
    <3>4. Held'
      BY <1>1, <3>1, <3>2 DEF Held, TypeOK, IsOutside
    <3>. QED BY <1>1, <1>6, <3>1, <3>3, <3>4 DEF Commit, IInv, WindowExact,
                AtMostOnce, ReplayIsReplay
  <2>. QED BY <2>2, <2>3
<1>7. ASSUME NEW r \in Reader, Reject(r)
      PROVE  IInv'
  <2>1. rd[r].c \in accepted \/ IsOutside(rd[r].c, rd[r].maxN)
    BY <1>1, <1>7 DEF Reject, Held
  <2>2. misjudged' = {}
    BY <1>1, <1>7, <2>1 DEF Reject, ReplayIsReplay
  <2>3. TypeOK'
    BY <1>1, <1>7, <2>2 DEF Reject, TypeOK, Idle, Phase
  <2>4. Held'
    BY <1>1, <1>7 DEF Reject, Held, TypeOK, Idle, IsOutside
  <2>. QED BY <1>1, <1>7, <2>2, <2>3, <2>4 DEF Reject, IInv, WindowExact,
              AtMostOnce, ReplayIsReplay
<1>8. ASSUME NEW r \in Reader, Reset(r)
      PROVE  IInv'
  <2>1. TypeOK'
    BY <1>1, <1>8 DEF Reset, TypeOK, Idle, Phase
  <2>2. Held'
    BY <1>1, <1>8 DEF Reset, Held, TypeOK, Idle, IsOutside
  <2>. QED BY <1>1, <1>8, <2>1, <2>2 DEF Reset, IInv, WindowExact,
              AtMostOnce, ReplayIsReplay
<1>9. CASE UNCHANGED vars
  BY <1>1, <1>9 DEF vars, IInv, TypeOK, WindowExact, AtMostOnce,
     ReplayIsReplay, Held, IsOutside
<1>. QED BY <1>3, <1>4, <1>5, <1>6, <1>7, <1>8, <1>9 DEF Next

\* The invariant holds throughout.
LEMMA Invariant == Spec => []IInv
BY InitInv, StepInv, PTL DEF Spec

\* For every window size, every number of frames and every set of concurrent
\* callers of DecryptFrame, no frame's plaintext is handed up twice.
THEOREM NoFrameTwice == Spec => []AtMostOnce
<1>1. IInv => AtMostOnce
  BY DEF IInv
<1>. QED BY <1>1, Invariant, PTL

\* The bitmap and the high-water mark always describe exactly the numbers of
\* the last W that were admitted, also across jumps and wraps of the window,
\* and a frame counts as a replay towards dropping the session only when its
\* number was admitted before.
THEOREM WindowIsSound == Spec => []ReplaySound
<1>1. IInv => ReplaySound
  BY DEF IInv, ReplaySound
<1>. QED BY <1>1, Invariant, PTL

-----------------------------------------------------------------------------
(* NothingLost needs to know that the shutdown closes the schedule before  *)
(* it looks for a poll: with the schedule closed none starts, so that none *)
(* is in flight once it is done, to bring answers to a stopped manager.    *)

Handed ==
  /\ inbox \subseteq Peer
  /\ stop # "no" => closed
  /\ stop \in {"no", "waits", "cut", "done"}
  /\ stop = "done" => poll = H!None
  /\ answers \subseteq Peer
  /\ stop # "cut" => answers \subseteq inbox \cup H!Brought \cup trusted \cup lost

LEMMA HandedInit == H!Init => Handed
  BY SMTT(30) DEF H!Init, Handed, H!None

(* begin starts a poll only when none is in flight and the schedule open.  *)
LEMMA PollBegins ==
  ASSUME NEW gap, H!pollHandshakes(gap)
  PROVE  poll' = poll \/ (poll = H!None /\ ~closed /\ poll' = {"called"})
  BY Zenon DEF H!pollHandshakes, H!begin, H!Running

(* A step that leaves the answers alone and starts a poll at most.         *)
LEMMA BeginStep ==
  ASSUME Handed, UNCHANGED <<stop, closed, answers, lost, trusted, inbox>>,
         poll' = poll \/ (poll = H!None /\ ~closed /\ poll' = {"called"})
  PROVE  Handed'
<1>1. CASE poll' = poll
  BY <1>1, Zenon DEF Handed, H!None, H!Brought
<1>2. CASE poll = H!None /\ ~closed /\ poll' = {"called"}
  <2>1. "got" \notin poll
    BY <1>2, SMTT(30) DEF H!None
  <2>2. H!Brought = {}
    BY <2>1, Zenon DEF H!Brought
  <2>3. stop = "no"
    BY <1>2, Zenon DEF Handed
  <2>4. answers' \subseteq inbox' \cup H!Brought' \cup trusted' \cup lost'
    <3>1. answers \subseteq inbox \cup trusted \cup lost
      BY <2>2, <2>3, SMTT(30) DEF Handed
    <3> QED BY <3>1, Zenon
  <2>5. stop' # "done"
    BY <2>3, SMTT(30)
  <2> QED BY <2>3, <2>4, <2>5, Zenon DEF Handed
<1> QED BY <1>1, <1>2, Zenon

(* The registry's answer, or the failed call, moves the answers from the   *)
(* inbox to the poll or to what is lost.                                   *)
LEMMA AnswerStep ==
  ASSUME Handed, poll = {"called"}, UNCHANGED <<closed, trusted, stop, answers>>,
         H!Replies \/ H!Fails
  PROVE  Handed'
<1>1. "got" \notin poll /\ poll # H!None
  BY SMTT(30) DEF H!None
<1>2. H!Brought = {} /\ stop # "done"
  BY <1>1, Zenon DEF H!Brought, Handed
<1>3. "got" \in poll' /\ H!Brought' = poll'
  BY Zenon DEF H!Replies, H!Fails, H!Brought
<1>4. inbox' \subseteq Peer
  BY Zenon DEF H!Replies, H!Fails, Handed
<1>5. inbox \cup lost \subseteq inbox' \cup H!Brought' \cup lost'
  <2>1. CASE H!Replies
    <3>1. poll' = {"got"} \cup inbox /\ lost' = lost
      BY <2>1, Zenon DEF H!Replies
    <3> QED BY <1>3, <3>1, Zenon
  <2>2. CASE H!Fails
    <3>1. (inbox' = inbox /\ lost' = lost) \/ lost' = lost \cup inbox
      BY <2>2, Zenon DEF H!Fails
    <3> QED BY <3>1, Zenon
  <2> QED BY <2>1, <2>2, Zenon
<1>6. stop # "cut" => answers' \subseteq inbox' \cup H!Brought' \cup trusted' \cup lost'
  <2> SUFFICES ASSUME stop # "cut"
               PROVE  answers' \subseteq inbox' \cup H!Brought' \cup trusted' \cup lost'
    BY Zenon
  <2>1. answers \subseteq inbox \cup H!Brought \cup trusted \cup lost
    BY Zenon DEF Handed
  <2>2. answers \subseteq (inbox \cup lost) \cup trusted
    BY <1>2, <2>1, Zenon
  <2> QED BY <1>5, <2>2, Zenon
<1> QED BY <1>2, <1>4, <1>6, Zenon DEF Handed

LEMMA HandedNext == Handed /\ [H!Next]_(H!vars) => Handed'
<1> SUFFICES ASSUME Handed, [H!Next]_(H!vars) PROVE Handed'
  BY SMTT(30)
<1>1. ASSUME NEW p \in Peer, NEW e \in BOOLEAN, H!handshakeRequestSent(p, e)
      PROVE  Handed'
  BY <1>1, BeginStep, Zenon DEF H!handshakeRequestSent
<1>2. ASSUME NEW p \in Peer, NEW e \in BOOLEAN, H!Parks(p, e)
      PROVE  Handed'
  <2>1. /\ inbox' = inbox \cup {p} /\ answers' = answers \cup {p}
        /\ UNCHANGED <<stop, closed, trusted, poll, lost>>
    BY <1>2, Zenon DEF H!Parks
  <2>2. inbox' \subseteq Peer /\ answers' \subseteq Peer
    BY <2>1, Zenon DEF Handed
  <2>3. H!Brought' = H!Brought
    BY <2>1, Zenon DEF H!Brought
  <2>4. stop # "cut" => answers' \subseteq inbox' \cup H!Brought' \cup trusted' \cup lost'
    <3> SUFFICES ASSUME stop # "cut"
                 PROVE  answers' \subseteq inbox' \cup H!Brought' \cup trusted' \cup lost'
      BY Zenon
    <3>1. answers \subseteq inbox \cup H!Brought \cup trusted \cup lost
      BY Zenon DEF Handed
    <3> QED BY <2>1, <2>3, <3>1, Zenon
  <2> QED BY <2>1, <2>2, <2>4, Zenon DEF Handed, H!None
<1>3. ASSUME NEW p \in Peer, H!WindowPasses(p)
      PROVE  Handed'
  BY <1>3, BeginStep, Zenon DEF H!WindowPasses, H!world
<1>4. CASE H!RegistryAnswers
  <2>1. poll = {"called"} /\ UNCHANGED <<closed, trusted, stop, answers>> /\ (H!Replies \/ H!Fails)
    BY <1>4, Zenon DEF H!RegistryAnswers, H!sched
  <2> QED BY <2>1, AnswerStep, Zenon
<1>5. CASE H!PollProcesses
  <2>1. /\ "got" \in poll /\ poll' = H!None /\ UNCHANGED <<closed, stop, answers, lost, inbox>>
        /\ trusted' = IF stop \in {"no", "waits"} THEN trusted \cup (poll \cap Peer) ELSE trusted
    BY <1>5, Zenon DEF H!PollProcesses, H!end, H!world
  <2>2. poll # H!None /\ H!Brought = poll
    <3>1. poll # H!None
      BY <2>1, SMTT(30) DEF H!None
    <3> QED BY <2>1, <3>1, Zenon DEF H!Brought
  <2>3. stop # "cut" => answers \subseteq inbox \cup trusted' \cup lost
    <3> SUFFICES ASSUME stop # "cut" PROVE answers \subseteq inbox \cup trusted' \cup lost
      BY Zenon
    <3>1. answers \subseteq inbox \cup poll \cup trusted \cup lost /\ answers \subseteq Peer
      BY <2>2, Zenon DEF Handed
    <3>2. stop \in {"no", "waits"}
      BY <2>2, Zenon DEF Handed
    <3> QED BY <2>1, <3>1, <3>2, Zenon
  <2>4. stop # "cut" => answers' \subseteq inbox' \cup H!Brought' \cup trusted' \cup lost'
    BY <2>1, <2>3, Zenon
  <2> QED BY <2>1, <2>4, Zenon DEF Handed, H!None
<1>6. CASE H!WakeRound \/ H!ExtraRound \/ H!TickRound \/ H!ClientBegins
  <2>1. UNCHANGED <<stop, closed, answers, lost, trusted, inbox>>
    BY <1>6, Zenon DEF H!WakeRound, H!ExtraRound, H!TickRound, H!ClientBegins, H!world
  <2>2. poll' = poll \/ (poll = H!None /\ ~closed /\ poll' = {"called"})
    BY <1>6, PollBegins, Zenon DEF H!WakeRound, H!ExtraRound, H!TickRound, H!ClientBegins
  <2> QED BY <2>1, <2>2, BeginStep, Zenon
<1>7. CASE H!Settle \/ H!TimePasses \/ H!ClientAsks \/ H!ClientDone \/ UNCHANGED H!vars
  <2>1. UNCHANGED <<stop, closed, answers, lost, trusted, inbox, poll>>
    BY <1>7, Zenon DEF H!Settle, H!TimePasses, H!ClientAsks, H!ClientDone, H!world, H!sched, H!vars
  <2> QED BY <2>1, BeginStep, Zenon
<1>8. CASE H!shutdown \/ H!shutdownReturns
  <2>1. /\ stop \in {"no", "waits"} /\ stop' \in {"waits", "cut", "done"} /\ closed'
        /\ stop' = "done" => poll = H!None
        /\ UNCHANGED <<inbox, poll, trusted, answers, lost>>
    BY <1>8, SMTT(30) DEF H!shutdown, H!shutdownReturns, H!world, H!sched, H!Running, Handed
  <2>2. H!Brought' = H!Brought
    BY <2>1, Zenon DEF H!Brought
  <2>3. stop # "cut"
    BY <2>1, SMTT(30)
  <2>4. stop' \in {"no", "waits", "cut", "done"}
    BY <2>1, Zenon
  <2> QED BY <2>1, <2>2, <2>3, <2>4, Zenon DEF Handed, H!None
<1> QED BY <1>1, <1>2, <1>3, <1>4, <1>5, <1>6, <1>7, <1>8, Zenon DEF H!Next

(* An answer parked for this node is lost only in a reply that does not    *)
(* arrive, or to a poll still in flight at the shutdown's deadline: begin  *)
(* and end hand every other one to the handshake manager before doStop     *)
(* stops it.                                                               *)
THEOREM AnswersAreKept == H!Spec => []H!NothingLost
<1>1. Handed => H!NothingLost
  BY Zenon DEF Handed, H!NothingLost
<1> QED BY <1>1, HandedInit, HandedNext, PTL DEF H!Spec

-----------------------------------------------------------------------------
(* The limits of the schedule: the entries of waiting and the tokens.      *)

Entries(f) == {p \in Peer : f[p] # "none"}
Windows == waiting \in [Peer -> {"none", "open", "held"}] /\ Cardinality(Entries(waiting)) <= handshakeMaxWaiting
Limits ==
  /\ tokens \in 0 .. handshakePokeBurst
  /\ since \in {"recent", "almost", "old"} /\ extra \in {"off", "armed", "ripe"}

(* The instance counts as this module does.                                *)
LEMMA SameCard == ASSUME NEW S PROVE H!Cardinality(S) = Cardinality(S)
  BY Zenon DEF H!Cardinality, Cardinality

LEMMA EntriesCounted ==
  ASSUME IsFiniteSet(Peer), NEW f
  PROVE  IsFiniteSet(Entries(f)) /\ Cardinality(Entries(f)) \in Nat
<1>1. Entries(f) \subseteq Peer
  BY Zenon DEF Entries
<1> QED BY <1>1, FS_Subset, FS_CardinalityType, Zenon

(* Fewer entries, or the same ones, stay within the cap.                   *)
LEMMA FewerEntries ==
  ASSUME IsFiniteSet(Peer), handshakeMaxWaiting \in Nat, Windows,
         waiting' \in [Peer -> {"none", "open", "held"}], Entries(waiting') \subseteq Entries(waiting)
  PROVE  Windows'
<1>1. Cardinality(Entries(waiting')) <= Cardinality(Entries(waiting))
  BY EntriesCounted, FS_Subset, Zenon
<1>2. Cardinality(Entries(waiting')) \in Nat /\ Cardinality(Entries(waiting)) \in Nat
  BY EntriesCounted, Zenon
<1>3. Cardinality(Entries(waiting')) <= handshakeMaxWaiting
  BY <1>1, <1>2, SMTT(30) DEF Windows
<1> QED BY <1>3, Zenon DEF Windows

LEMMA RequestStep ==
  ASSUME IsFiniteSet(Peer), handshakeMaxWaiting \in Nat, Windows, NEW p \in Peer, NEW e,
         H!requestSent(p, e)
  PROVE  Windows'
<1> DEFINE E == Entries(waiting)
<1>1. IsFiniteSet(E) /\ Cardinality(E) \in Nat /\ Cardinality(E) <= handshakeMaxWaiting
      /\ waiting \in [Peer -> {"none", "open", "held"}]
  BY EntriesCounted, Zenon DEF Windows
<1>2. CASE /\ waiting[p] = "none" /\ ~(Cardinality(E) >= handshakeMaxWaiting)
           /\ waiting' = [waiting EXCEPT ![p] = "open"]
  <2>1. Entries(waiting') = E \cup {p} /\ p \notin E
    BY <1>1, <1>2, SMTT(30) DEF Entries
  <2> HIDE DEF E
  <2>2. Cardinality(E \cup {p}) = Cardinality(E) + 1
    BY <1>1, <2>1, FS_AddElement, Zenon
  <2> DEFINE c == Cardinality(E)
  <2>5. c \in Nat /\ ~(c >= handshakeMaxWaiting) /\ Cardinality(Entries(waiting')) = c + 1
    BY <1>1, <1>2, <2>1, <2>2, Zenon
  <2> HIDE DEF c
  <2>3. Cardinality(Entries(waiting')) <= handshakeMaxWaiting
    BY <2>5, SMTT(30)
  <2>4. waiting' \in [Peer -> {"none", "open", "held"}]
    BY <1>1, <1>2, Zenon
  <2> QED BY <2>3, <2>4, Zenon DEF Windows
<1>3. ASSUME NEW q \in Peer, waiting[q] = "held", waiting[p] = "none",
             waiting' = [waiting EXCEPT ![q] = "none", ![p] = "open"]
      PROVE  Windows'
  <2>1. Entries(waiting') = (E \ {q}) \cup {p} /\ p \notin E \ {q} /\ q \in E
    BY <1>1, <1>3, SMTT(30) DEF Entries
  <2> HIDE DEF E
  <2>2. IsFiniteSet(E \ {q}) /\ Cardinality(E \ {q}) = Cardinality(E) - 1
    BY <1>1, <2>1, FS_RemoveElement, Zenon
  <2>3. Cardinality((E \ {q}) \cup {p}) = Cardinality(E \ {q}) + 1
    BY <2>1, <2>2, FS_AddElement, Zenon
  <2>4. Cardinality(Entries(waiting')) <= handshakeMaxWaiting
    BY <1>1, <2>1, <2>2, <2>3, SMTT(30)
  <2>5. waiting' \in [Peer -> {"none", "open", "held"}]
    BY <1>1, <1>3, SMTT(30)
  <2> QED BY <2>4, <2>5, Zenon DEF Windows
<1>4. CASE waiting[p] = "held" /\ waiting' = [waiting EXCEPT ![p] = "open"]
  <2>1. Entries(waiting') \subseteq E /\ waiting' \in [Peer -> {"none", "open", "held"}]
    BY <1>1, <1>4, SMTT(30) DEF Entries
  <2> QED BY <2>1, FewerEntries, Zenon
<1>5. CASE waiting' = waiting
  BY <1>5, Zenon DEF Windows, Entries
<1> HIDE DEF E
<1>6. \/ /\ waiting[p] = "none" /\ ~(Cardinality(E) >= handshakeMaxWaiting)
         /\ waiting' = [waiting EXCEPT ![p] = "open"]
      \/ \E q \in Peer : /\ waiting[q] = "held" /\ waiting[p] = "none"
                         /\ waiting' = [waiting EXCEPT ![q] = "none", ![p] = "open"]
      \/ waiting[p] = "held" /\ waiting' = [waiting EXCEPT ![p] = "open"]
      \/ waiting' = waiting
  BY SameCard, Zenon DEF H!requestSent, E, Entries
<1> QED BY <1>2, <1>3, <1>4, <1>5, <1>6, Zenon

LEMMA WindowsNext ==
  ASSUME IsFiniteSet(Peer), handshakeMaxWaiting \in Nat, Windows, [H!Next]_(H!vars)
  PROVE  Windows'
<1> DEFINE Kinds == {"none", "open", "held"}
<1>0. waiting \in [Peer -> Kinds]
  BY Zenon DEF Windows
<1>1. ASSUME NEW p \in Peer, NEW e \in BOOLEAN, H!handshakeRequestSent(p, e)
      PROVE  Windows'
  BY <1>1, RequestStep, Zenon DEF H!handshakeRequestSent
<1>2. ASSUME NEW p \in Peer, H!WindowPasses(p)
      PROVE  Windows'
  <2>1. waiting' = [waiting EXCEPT ![p] = IF @ = "open" THEN "held" ELSE "none"] /\ waiting[p] # "none"
    BY <1>2, Zenon DEF H!WindowPasses
  <2>2. waiting' \in [Peer -> Kinds] /\ Entries(waiting') \subseteq Entries(waiting)
    BY <1>0, <2>1, SMTT(30) DEF Entries
  <2> QED BY <2>2, FewerEntries, Zenon
<1>3. CASE H!PollProcesses
  <2> DEFINE from == poll \cap Peer
  <2>1. waiting' = [p \in Peer |-> IF p \in from /\ waiting[p] = "open" THEN "held" ELSE waiting[p]]
    BY <1>3, Zenon DEF H!PollProcesses
  <2> HIDE DEF from
  <2>2. waiting' \in [Peer -> Kinds] /\ Entries(waiting') \subseteq Entries(waiting)
    BY <1>0, <2>1, SMTT(30) DEF Entries
  <2> QED BY <2>2, FewerEntries, Zenon
<1>4. CASE H!Settle
  <2>1. waiting' = [p \in Peer |-> IF p \in settling /\ waiting[p] # "none" THEN "held" ELSE waiting[p]]
    BY <1>4, Zenon DEF H!Settle
  <2>2. waiting' \in [Peer -> Kinds] /\ Entries(waiting') \subseteq Entries(waiting)
    BY <1>0, <2>1, SMTT(30) DEF Entries
  <2> QED BY <2>2, FewerEntries, Zenon
<1>5. CASE waiting' = waiting
  BY <1>5, Zenon DEF Windows, Entries
<1>6. \/ \E p \in Peer, e \in BOOLEAN : H!handshakeRequestSent(p, e)
      \/ \E p \in Peer : H!WindowPasses(p)
      \/ H!PollProcesses \/ H!Settle \/ waiting' = waiting
  BY Zenon DEF H!Next, H!vars, H!Parks, H!RegistryAnswers, H!WakeRound, H!ExtraRound, H!TickRound, H!TimePasses,
               H!ClientAsks, H!ClientBegins, H!ClientDone, H!shutdown, H!shutdownReturns, H!sched
<1> QED BY <1>1, <1>2, <1>3, <1>4, <1>5, <1>6, Zenon

LEMMA LimitsNext ==
  ASSUME handshakePokeBurst \in Nat, Limits, [H!Next]_(H!vars)
  PROVE  Limits'
<1>1. since' = since \/ since' \in {"recent", "almost", "old"}
  BY Zenon DEF H!Next, H!vars, H!handshakeRequestSent, H!Parks, H!WindowPasses, H!RegistryAnswers, H!PollProcesses,
               H!WakeRound, H!ExtraRound, H!TickRound, H!Settle, H!TimePasses, H!ClientAsks, H!ClientBegins,
               H!ClientDone, H!shutdown, H!shutdownReturns, H!sched, H!pollHandshakes
<1>2. extra' = extra \/ extra' \in {"off", "armed", "ripe"}
  <2>1. ASSUME NEW x, NEW due, extra' = H!Armed(x, due)
        PROVE  extra' = x \/ extra' \in {"off", "armed", "ripe"}
    BY <2>1, Zenon DEF H!Armed
  <2>2. \/ extra' = extra \/ extra' = H!Armed(extra, pokeDue') \/ extra' = H!Armed("off", pokeDue')
        \/ extra' = "ripe"
    BY Zenon DEF H!Next, H!vars, H!handshakeRequestSent, H!Parks, H!WindowPasses, H!RegistryAnswers, H!PollProcesses,
                 H!WakeRound, H!ExtraRound, H!TickRound, H!Settle, H!TimePasses, H!ClientAsks, H!ClientBegins,
                 H!ClientDone, H!shutdown, H!shutdownReturns
  <2> QED BY <2>1, <2>2, Zenon
<1>3. \/ tokens' = tokens
      \/ tokens # 0 /\ tokens' = tokens - 1
      \/ tokens < handshakePokeBurst /\ tokens' = tokens + 1
  <2>1. ASSUME NEW p \in Peer, NEW e \in BOOLEAN, H!Parks(p, e)
        PROVE  tokens' = tokens \/ (tokens # 0 /\ tokens' = tokens - 1)
    BY <2>1, Zenon DEF H!Parks, H!poke
  <2>2. H!TimePasses => tokens' = tokens \/ (tokens < handshakePokeBurst /\ tokens' = tokens + 1)
    BY Zenon DEF H!TimePasses
  <2>3. \/ \E p \in Peer, e \in BOOLEAN : H!Parks(p, e)
        \/ H!TimePasses \/ tokens' = tokens
    BY Zenon DEF H!Next, H!vars, H!handshakeRequestSent, H!WindowPasses, H!RegistryAnswers, H!PollProcesses,
                 H!WakeRound, H!ExtraRound, H!TickRound, H!Settle, H!ClientAsks, H!ClientBegins,
                 H!ClientDone, H!shutdown, H!shutdownReturns, H!sched
  <2> QED BY <2>1, <2>2, <2>3, Zenon
<1>4. tokens' \in 0 .. handshakePokeBurst
  BY <1>3, SMTT(30) DEF Limits
<1> QED BY <1>1, <1>2, <1>4, Zenon DEF Limits

(***************************************************************************)
(* handshakePollSched keeps within its limits for every set of peers: the  *)
(* windows it holds never exceed handshakeMaxWaiting, though a request at  *)
(* the cap takes over the entry of another peer, and the bucket of poke    *)
(* tokens neither goes below zero nor above handshakePokeBurst.            *)
(***************************************************************************)
THEOREM ScheduleWithinLimits ==
  ASSUME IsFiniteSet(Peer), handshakeMaxWaiting \in Nat, handshakePokeBurst \in Nat
  PROVE  H!Spec => []H!TypeOK
<1>1. H!Init => Windows /\ Limits
  <2> SUFFICES ASSUME H!Init PROVE Windows /\ Limits
    BY SMTT(30)
  <2>1. Entries(waiting) = {} /\ waiting \in [Peer -> {"none", "open", "held"}]
    BY SMTT(30) DEF H!Init, Entries
  <2>2. Cardinality(Entries(waiting)) = 0
    BY <2>1, FS_EmptySet, Zenon
  <2>3. Windows
    BY <2>1, <2>2, SMTT(30) DEF Windows
  <2>4. Limits
    BY SMTT(30) DEF H!Init, Limits
  <2> QED BY <2>3, <2>4, Zenon
<1>2. Windows /\ Limits /\ [H!Next]_(H!vars) => (Windows /\ Limits)'
  BY WindowsNext, LimitsNext, Zenon
<1>3. Windows /\ Limits => H!TypeOK
  BY SameCard, Zenon DEF Windows, Limits, H!TypeOK, Entries
<1> QED BY <1>1, <1>2, <1>3, PTL DEF H!Spec
=============================================================================
