--------------------------- MODULE ReplayWindow ---------------------------
(***************************************************************************)
(* One encrypted session as its two ends see it (pkg/daemon/envelope over  *)
(* keyexchange.Crypto): the sender numbers its frames, the network may     *)
(* lose, duplicate, delay and reorder them, and the receiver's             *)
(* DecryptFrame admits every number at most once with a sliding bitmap     *)
(* that covers the last W numbers.                                         *)
(*                                                                         *)
(* DecryptFrame takes the replay lock three times: to look, to record, and *)
(* to clear or count the faults.  Between two of them another caller may   *)
(* run, so each of these regions is an action, and Reader is the set of    *)
(* callers that can be inside DecryptFrame at once.                        *)
(***************************************************************************)
EXTENDS Integers, FiniteSets

CONSTANTS Reader,    \* callers of DecryptFrame for this session
          W,         \* ReplayWindowSize
          MaxNonce,  \* bound: how many frames the sender seals
          MaxFault   \* bound: how far the consecutive-fault counters run

ASSUME WindowAssumption == W \in Nat \ {0}
ASSUME BoundAssumption == MaxNonce \in Nat /\ MaxFault \in Nat

VARIABLES nonce,     \* Crypto.Nonce of the sender: frames 1..nonce are out
          max,       \* MaxRecvNonce of the receiver
          bitmap,    \* ReplayBitmap: the residues modulo W that are set
          rd,        \* what each caller of DecryptFrame holds
          fails,     \* DecryptFailCount
          outside,   \* OutsideWindowCount
          replays,   \* ReplayCount
          accepted,  \* history: the numbers whose plaintext was handed up
          twice,     \* history: those handed up more than once
          misjudged  \* history: fresh numbers reported as ErrReplay

vars == <<nonce, max, bitmap, rd, fails, outside, replays, accepted, twice,
          misjudged>>

Phase == {"idle", "open", "reject", "reset"}

Idle == [pc |-> "idle", c |-> 0, accept |-> FALSE, maxN |-> 0]

-----------------------------------------------------------------------------
(* The window (keyexchange/crypto.go) *)

Bit(c) == c % W

\* SetReplayBit on a bitmap b.
SetReplayBit(b, c) == b \cup {Bit(c)}

\* The read-only verdict taken before the frame is authenticated.
WouldAcceptNonce(c) ==
    \/ max = 0
    \/ c > max
    \/ max - c < W /\ Bit(c) \notin bitmap

\* The bits that a window moving up to c uncovers.
Uncovered(c) == {Bit(x) : x \in (max + 1) .. c}

Admits_NoBitmap(c) ==
    \/ max = 0
    \/ c > max
    \/ max - c < W

\* CheckAndRecordNonce, its verdict ...
Admits(c) ==
    \/ max = 0
    \/ c > max
    \/ max - c < W /\ Bit(c) \notin bitmap

Recorded_ForgetsLate(c) ==
    IF max = 0 THEN SetReplayBit(bitmap, c)
    ELSE IF c <= max THEN bitmap
    ELSE IF c - max >= W THEN {Bit(c)}
    ELSE SetReplayBit(bitmap \ Uncovered(c), c)

\* ... and the bitmap it leaves when it admits c.
Recorded(c) ==
    IF max = 0 \/ c <= max THEN SetReplayBit(bitmap, c)
    ELSE IF c - max >= W THEN {Bit(c)}
    ELSE SetReplayBit(bitmap \ Uncovered(c), c)

\* rejectResult: a number this far below the mark it was held against is
\* outside the window, any other rejected number is a replay.
IsOutside(c, maxN) == c < maxN /\ maxN - c >= W

-----------------------------------------------------------------------------
Init ==
    /\ nonce = 0 /\ max = 0 /\ bitmap = {}
    /\ rd = [r \in Reader |-> Idle]
    /\ fails = 0 /\ outside = 0 /\ replays = 0
    /\ accepted = {} /\ twice = {} /\ misjudged = {}

\* EncryptWith: every frame takes the next number.
EncryptWith ==
    /\ nonce < MaxNonce
    /\ nonce' = nonce + 1
    /\ UNCHANGED <<max, bitmap, rd, fails, outside, replays, accepted, twice,
                   misjudged>>

\* DecryptFrame up to AEAD.Open, for a frame of the peer: any frame sent so
\* far, for the first time or again.
Precheck(r, c) ==
    /\ rd[r].pc = "idle"
    /\ rd' = [rd EXCEPT ![r] = [pc |-> "open", c |-> c,
                                accept |-> WouldAcceptNonce(c), maxN |-> max]]
    /\ UNCHANGED <<nonce, max, bitmap, fails, outside, replays, accepted,
                   twice, misjudged>>

\* DecryptFrame for a frame that AEAD.Open refuses (damaged, or sealed under
\* another key): the verdict of the pre-check is not used.
OpenFails(r) ==
    /\ rd[r].pc = "idle" /\ fails < MaxFault
    /\ fails' = fails + 1
    /\ UNCHANGED <<nonce, max, bitmap, rd, outside, replays, accepted, twice,
                   misjudged>>

\* The frame opened and the pre-check had admitted it: CheckAndRecordNonce.
Commit(r) ==
    LET c == rd[r].c IN
    /\ rd[r].pc = "open" /\ rd[r].accept
    /\ \/ /\ Admits(c)
          /\ max' = (IF max = 0 \/ c > max THEN c ELSE max)
          /\ bitmap' = Recorded(c)
          /\ accepted' = accepted \cup {c}
          /\ twice' = IF c \in accepted THEN twice \cup {c} ELSE twice
          /\ rd' = [rd EXCEPT ![r].pc = "reset"]
       \/ /\ ~Admits(c)
          /\ rd' = [rd EXCEPT ![r].pc = "reject", ![r].maxN = max]
          /\ UNCHANGED <<max, bitmap, accepted, twice>>
    /\ UNCHANGED <<nonce, fails, outside, replays, misjudged>>

\* The frame opened but the pre-check or the commit refused its number:
\* rejectResult classifies and counts it.
Reject(r) ==
    LET c == rd[r].c IN
    /\ \/ rd[r].pc = "open" /\ ~rd[r].accept
       \/ rd[r].pc = "reject"
    /\ \/ /\ IsOutside(c, rd[r].maxN) /\ outside < MaxFault
          /\ outside' = outside + 1
          /\ UNCHANGED <<replays, misjudged>>
       \/ /\ ~IsOutside(c, rd[r].maxN) /\ replays < MaxFault
          /\ replays' = replays + 1
          /\ misjudged' = IF c \in accepted THEN misjudged
                          ELSE misjudged \cup {c}
          /\ UNCHANGED outside
    /\ rd' = [rd EXCEPT ![r] = Idle]
    /\ UNCHANGED <<nonce, max, bitmap, fails, accepted, twice>>

\* The number was recorded: the three fault counters start over and the
\* plaintext is returned.
Reset(r) ==
    /\ rd[r].pc = "reset"
    /\ fails' = 0 /\ outside' = 0 /\ replays' = 0
    /\ rd' = [rd EXCEPT ![r] = Idle]
    /\ UNCHANGED <<nonce, max, bitmap, accepted, twice, misjudged>>

Next ==
    \/ EncryptWith
    \/ \E r \in Reader :
          \/ \E c \in 1 .. nonce : Precheck(r, c)
          \/ OpenFails(r) \/ Commit(r) \/ Reject(r) \/ Reset(r)

Spec == Init /\ [][Next]_vars

-----------------------------------------------------------------------------
TypeOK ==
    /\ nonce \in 0 .. MaxNonce /\ max \in Nat
    /\ bitmap \subseteq 0 .. (W - 1)
    /\ rd \in [Reader -> [pc : Phase, c : Nat, accept : BOOLEAN, maxN : Nat]]
    /\ fails \in Nat /\ outside \in Nat /\ replays \in Nat
    /\ accepted \subseteq Nat /\ twice \subseteq Nat /\ misjudged \subseteq Nat

\* No number's plaintext is handed up twice, however often its frame arrives
\* and however the callers of DecryptFrame interleave between the look and
\* the record.
AtMostOnce == twice = {}

\* The bitmap is exact: max is the largest admitted number, and a bit is set
\* just when the one number of the last W that it stands for was admitted.  So
\* a window that moved on carries no stale bit of an older number.
WindowExact ==
    /\ max = 0 <=> accepted = {}
    /\ max # 0 => max \in accepted
    /\ \A a \in accepted : a <= max
    /\ \A i \in 0 .. (W - 1) :
          i \in bitmap <=> \E a \in accepted : a > max - W /\ Bit(a) = i

\* A frame is reported as a replay, which counts towards dropping the
\* session, only when its number really was admitted before.
ReplayIsReplay == misjudged = {}

\* Both: what is remembered is exact, and so is the verdict drawn from it.
ReplaySound == WindowExact /\ ReplayIsReplay

=============================================================================
