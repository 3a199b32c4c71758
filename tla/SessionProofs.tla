---------------------------- MODULE SessionProofs ----------------------------
(***************************************************************************)
(* No session hands up a packet twice, and no process one whose frames the *)
(* network did not copy, for any number of restarts, session drops and     *)
(* faults, and whatever the sizes of queue and ring.                       *)
(***************************************************************************)
EXTENDS Session, TLAPS

Frame ==
  [t : {"pila", "pilk"}, k : Nat \ {0}]
    \cup [t : {"pils"}, k : Nat \ {0}, to : Nat, c : Nat, p : Packet]

Els(s) == {s[i] : i \in 1 .. Len(s)}
Once(s) == \A i, j \in 1 .. Len(s) : s[i] = s[j] => i = j

(* Two frames that carry one packet to one process: equal frames, since a  *)
(* packet is sealed once for a process; two in flight are copies, which    *)
(* the network makes of echoed packets only.                               *)
Carries(f, p) == f.t = "pils" /\ f.p = p
Same(f, g) == f.t = "pils" /\ g.t = "pils" /\ f.p = g.p /\ f.to = g.to
Clash(f, g) == Same(f, g) /\ f.p \notin Echoed
Novel(O, W, g, k) ==
  /\ \A f \in O, h \in W : ~Same(f, h) /\ ~Same(h, f)
  /\ \A f \in O : ~(g[f.p] > 0 /\ f.to = k)
Twins(W) == \A f, g \in W : Same(f, g) => f = g
Apart(s) == \A i, j \in 1 .. Len(s) : Clash(s[i], s[j]) => i = j

(* What a sender holds against what is on its way and what arrived.  P:    *)
(* its packets so far; sd, q, sv: those between SendTo's two steps, in the *)
(* queue and in the salvage ring of the session with the key j; W: the     *)
(* frames in flight; g: what the process k of the receiver was handed.     *)
(* A waiting packet was never sealed; a packet in the ring was sealed only *)
(* for j; a packet handed over is not on its way to that process again,    *)
(* unless it is echoed.                                                    *)
Hold(P, sd, q, sv, j, W, g, k) ==
  /\ Els(sd) \subseteq P /\ Els(q) \subseteq P /\ Els(sv) \subseteq P
  /\ \A p \in Packet : g[p] > 0 => p \in P
  /\ \A f \in W : f.t = "pils" => f.p \in P
  /\ Once(sd) /\ Once(q) /\ Once(sv)
  /\ Els(sd) \cap Els(q) = {} /\ Els(sd) \cap Els(sv) = {} /\ Els(q) \cap Els(sv) = {}
  /\ \A p \in Els(sd) \cup Els(q) : g[p] = 0 /\ \A f \in W : ~Carries(f, p)
  /\ \A p \in Els(sv) : (g[p] > 0 => k = j) /\ \A f \in W : Carries(f, p) => f.to = j
  /\ \A p \in Packet \ Echoed : g[p] <= 1 /\ (g[p] > 0 => \A f \in W : Carries(f, p) => f.to # k)

(* The session r of the process k: what it was handed it was handed once,  *)
(* and frames in flight that carry it again have a counter it has seen.    *)
Screened(r, g, k, W) ==
  \A p \in Packet :
    /\ r.up[p] <= 1
    /\ r.up[p] > 0 => /\ g[p] > 0
                      /\ \A f \in W : Carries(f, p) /\ f.to = k /\ f.k = r.peer => f.c \in r.seen

(* No two frames in flight clash.                                          *)
Spread(ch, lt) ==
  /\ Apart(ch)
  /\ \A f \in lt, h \in Els(ch) : ~Clash(f, h)
  /\ \A f, h \in lt : Clash(f, h) => f = h

Salvage(n) == IF Has(n) THEN crypto[n].salvage ELSE <<>>
SentBy(n) == {<<n, i>> : i \in 1 .. sent[n]}
Flying(n) == Els(chan[n]) \cup late[n]

Types ==
  /\ key \in [Node -> Nat] /\ \A n \in Node : key[n] \in 1 .. MaxKey[n]
  /\ crypto \in [Node -> Session \cup {NoCrypto}]
  /\ pend \in [Node -> 0 .. MaxRekeyAttempts + 1]
  /\ reset \in [Node -> {"no", "due", "cooling"}]
  /\ queue \in [Node -> Seq(Packet)] /\ \A n \in Node : Len(queue[n]) <= maxPendingPerPeer
  /\ sending \in [Node -> Seq(Packet)]
  /\ sent \in [Node -> Nat] /\ \A n \in Node : sent[n] <= SendBound[n]
  /\ got \in [Node -> [Packet -> Nat]]
  /\ chan \in [Node -> Seq(Frame)] /\ late \in [Node -> SUBSET Frame]

Ways ==
  \A m \in Node :
    /\ Hold(SentBy(m), sending[m], queue[m], Salvage(m), crypto[m].peer,
            Flying(Peer(m)), got[Peer(m)], key[Peer(m)])
    /\ Spread(chan[m], late[m])
    /\ Twins(Flying(m))
    /\ Has(m) => Screened(crypto[m], got[m], key[m], Flying(m))

IInv == Types /\ Ways

-----------------------------------------------------------------------------
(* Sequences and what they hold.                                           *)

LEMMA TailFacts ==
  ASSUME NEW S, NEW s \in Seq(S), s # <<>>
  PROVE  /\ Tail(s) \in Seq(S) /\ Head(s) \in S /\ Len(s) \in Nat /\ Len(s) >= 1
         /\ Len(Tail(s)) = Len(s) - 1 /\ \A i \in 1 .. Len(Tail(s)) : Tail(s)[i] = s[i + 1]
         /\ Head(s) = s[1]
  BY SMTT(30)

LEMMA CatFacts ==
  ASSUME NEW S, NEW s \in Seq(S), NEW t \in Seq(S)
  PROVE  /\ s \o t \in Seq(S) /\ Len(s) \in Nat /\ Len(t) \in Nat /\ Len(s \o t) = Len(s) + Len(t)
         /\ \A i \in 1 .. Len(s) : (s \o t)[i] = s[i]
         /\ \A i \in Len(s) + 1 .. Len(s) + Len(t) : (s \o t)[i] = t[i - Len(s)]
  BY SMTT(30)

LEMMA ElsTail ==
  ASSUME NEW S, NEW s \in Seq(S), s # <<>>
  PROVE  Els(Tail(s)) \subseteq Els(s) /\ Head(s) \in Els(s) /\ Els(s) = {Head(s)} \cup Els(Tail(s))
<1> DEFINE n == Len(s)
           t == Tail(s)
<1>1. n \in Nat /\ n >= 1 /\ Len(t) = n - 1 /\ (\A i \in 1 .. n - 1 : t[i] = s[i + 1]) /\ Head(s) = s[1]
  BY TailFacts, Zenon
<1> HIDE DEF n, t
<1>2. Els(s) = {s[i] : i \in 1 .. n} /\ Els(t) = {t[i] : i \in 1 .. n - 1}
  BY <1>1, Zenon DEF Els, n
<1>3. Head(s) \in Els(s)
  BY <1>1, <1>2, SMTT(30)
<1>4. ASSUME NEW x \in Els(t) PROVE x \in Els(s)
  <2>1. PICK i \in 1 .. n - 1 : x = t[i]
    BY <1>2, Zenon
  <2>2. i + 1 \in 1 .. n /\ x = s[i + 1]
    BY <1>1, <2>1, SMTT(30)
  <2> QED BY <1>2, <2>2, Zenon
<1>5. ASSUME NEW x \in Els(s), x # Head(s) PROVE x \in Els(t)
  <2>1. PICK i \in 1 .. n : x = s[i]
    BY <1>2, Zenon
  <2>2. i # 1
    BY <1>1, <1>5, <2>1, Zenon
  <2>3. i - 1 \in 1 .. n - 1 /\ t[i - 1] = s[(i - 1) + 1] /\ (i - 1) + 1 = i
    BY <1>1, <2>2, SMTT(30)
  <2> QED BY <1>2, <2>1, <2>3, Zenon
<1> QED BY <1>3, <1>4, <1>5, Zenon DEF t

LEMMA ElsCat ==
  ASSUME NEW S, NEW s \in Seq(S), NEW t \in Seq(S)
  PROVE  Els(s \o t) = Els(s) \cup Els(t)
<1> DEFINE m == Len(s)
           n == Len(t)
           u == s \o t
<1>1. m \in Nat /\ n \in Nat /\ Len(u) = m + n /\ (\A i \in 1 .. m : u[i] = s[i])
      /\ \A i \in m + 1 .. m + n : u[i] = t[i - m]
  BY CatFacts, Zenon
<1> HIDE DEF m, n, u
<1>2. Els(s) = {s[i] : i \in 1 .. m} /\ Els(t) = {t[i] : i \in 1 .. n} /\ Els(u) = {u[i] : i \in 1 .. m + n}
  BY <1>1, Zenon DEF Els, m, n
<1>3. ASSUME NEW x \in Els(u) PROVE x \in Els(s) \cup Els(t)
  <2>1. PICK i \in 1 .. m + n : x = u[i]
    BY <1>2, Zenon
  <2>2. CASE i <= m
    BY <1>1, <1>2, <2>1, <2>2, SMTT(30)
  <2>3. CASE i > m
    <3>1. i \in m + 1 .. m + n /\ i - m \in 1 .. n
      BY <1>1, <2>3, SMTT(30)
    <3> QED BY <1>1, <1>2, <2>1, <3>1, Zenon
  <2> QED BY <1>1, <2>2, <2>3, SMTT(30)
<1>4. ASSUME NEW x \in Els(s) PROVE x \in Els(u)
  <2>1. PICK i \in 1 .. m : x = s[i]
    BY <1>2, Zenon
  <2>2. i \in 1 .. m + n /\ u[i] = x
    BY <1>1, <2>1, SMTT(30)
  <2> QED BY <1>2, <2>2, Zenon
<1>5. ASSUME NEW x \in Els(t) PROVE x \in Els(u)
  <2>1. PICK i \in 1 .. n : x = t[i]
    BY <1>2, Zenon
  <2>2. i + m \in 1 .. m + n /\ i + m \in m + 1 .. m + n /\ (i + m) - m = i
    BY <1>1, SMTT(30)
  <2>3. u[i + m] = x
    BY <1>1, <2>1, <2>2, Zenon
  <2> QED BY <1>2, <2>2, <2>3, Zenon
<1> QED BY <1>3, <1>4, <1>5, Zenon DEF u

LEMMA FramesCat ==
  ASSUME NEW s \in Seq(Frame), NEW t \in Seq(Frame) PROVE Els(s \o t) = Els(s) \cup Els(t)
  BY ElsCat, SMTT(30)

LEMMA ElsOne == ASSUME NEW x PROVE Els(<<x>>) = {x} /\ Els(<<>>) = {} /\ Once(<<x>>) /\ Once(<<>>)
  BY SMTT(30) DEF Els, Once

LEMMA Appended ==
  ASSUME NEW S, NEW s \in Seq(S), NEW x \in S
  PROVE  Els(Append(s, x)) = Els(s) \cup {x}
<1>1. <<x>> \in Seq(S) /\ Append(s, x) = s \o <<x>>
  BY SMTT(30)
<1>2. Els(s \o <<x>>) = Els(s) \cup Els(<<x>>)
  BY <1>1, ElsCat, ZenonT(30)
<1>3. Els(<<x>>) = {x}
  BY ElsOne, Zenon
<1> QED BY <1>1, <1>2, <1>3, Zenon

LEMMA AppendFits ==
  ASSUME NEW S, NEW s \in Seq(S), NEW x \in S
  PROVE  Append(s, x) \in Seq(S) /\ Append(s, x) # <<>>
<1>1. Append(s, x) \in Seq(S) /\ Len(Append(s, x)) = Len(s) + 1 /\ Len(s) \in Nat
  BY SMTT(30)
<1>2. Len(<<>>) = 0
  BY Zenon
<1>3. Len(s) + 1 # 0
  BY <1>1, SMTT(30)
<1> QED BY <1>1, <1>2, <1>3, Zenon

LEMMA OnceTail ==
  ASSUME NEW S, NEW s \in Seq(S), s # <<>>, Once(s)
  PROVE  Once(Tail(s)) /\ Head(s) \notin Els(Tail(s))
<1> DEFINE n == Len(s)
           t == Tail(s)
<1>1. n \in Nat /\ n >= 1 /\ Len(t) = n - 1 /\ (\A i \in 1 .. n - 1 : t[i] = s[i + 1]) /\ Head(s) = s[1]
  BY TailFacts, Zenon
<1>2. \A i, j \in 1 .. n : s[i] = s[j] => i = j
  BY Zenon DEF Once
<1> HIDE DEF n, t
<1>3. ASSUME NEW i \in 1 .. n - 1, NEW j \in 1 .. n - 1, t[i] = t[j] PROVE i = j
  <2>1. i + 1 \in 1 .. n /\ j + 1 \in 1 .. n /\ s[i + 1] = s[j + 1]
    BY <1>1, <1>3, SMTT(30)
  <2> QED BY <1>1, <1>2, <2>1, SMTT(30)
<1>4. ASSUME NEW i \in 1 .. n - 1, t[i] = Head(s) PROVE FALSE
  <2>1. i + 1 \in 1 .. n /\ 1 \in 1 .. n /\ s[i + 1] = s[1]
    BY <1>1, <1>4, SMTT(30)
  <2> QED BY <1>1, <1>2, <2>1, SMTT(30)
<1>5. Once(t)
  BY <1>1, <1>3, Zenon DEF Once
<1>6. Head(s) \notin Els(t)
  BY <1>1, <1>4, Zenon DEF Els
<1> QED BY <1>5, <1>6, Zenon DEF t

LEMMA OnceCat ==
  ASSUME NEW S, NEW s \in Seq(S), NEW t \in Seq(S), Once(s), Once(t), Els(s) \cap Els(t) = {}
  PROVE  Once(s \o t)
<1> DEFINE m == Len(s)
           n == Len(t)
           u == s \o t
<1>1. m \in Nat /\ n \in Nat /\ Len(u) = m + n /\ (\A i \in 1 .. m : u[i] = s[i])
      /\ \A i \in m + 1 .. m + n : u[i] = t[i - m]
  BY CatFacts, SMTT(30)
<1>2. (\A i, j \in 1 .. m : s[i] = s[j] => i = j) /\ (\A i, j \in 1 .. n : t[i] = t[j] => i = j)
      /\ \A i \in 1 .. m, j \in 1 .. n : s[i] # t[j]
  <2>1. ASSUME NEW i \in 1 .. m, NEW j \in 1 .. n PROVE s[i] # t[j]
    <3>1. s[i] \in Els(s) /\ t[j] \in Els(t)
      BY Zenon DEF Els
    <3> QED BY <3>1, Zenon
  <2> QED BY <2>1, Zenon DEF Once
<1> HIDE DEF m, n, u
<1>3. ASSUME NEW i \in 1 .. m + n, NEW j \in 1 .. m + n, u[i] = u[j] PROVE i = j
  <2>1. CASE i <= m /\ j <= m
    BY <1>1, <1>2, <1>3, <2>1, SMTT(30)
  <2>2. CASE i > m /\ j > m
    <3>1. i \in m + 1 .. m + n /\ j \in m + 1 .. m + n /\ i - m \in 1 .. n /\ j - m \in 1 .. n
      BY <1>1, <2>2, SMTT(30)
    <3>2. i - m = j - m
      BY <1>1, <1>2, <1>3, <3>1, Zenon
    <3> QED BY <1>1, <3>2, SMTT(30)
  <2>3. CASE i <= m /\ j > m
    <3>1. i \in 1 .. m /\ j \in m + 1 .. m + n /\ j - m \in 1 .. n
      BY <1>1, <2>3, SMTT(30)
    <3> QED BY <1>1, <1>2, <1>3, <3>1, ZenonT(30)
  <2>4. CASE i > m /\ j <= m
    <3>1. j \in 1 .. m /\ i \in m + 1 .. m + n /\ i - m \in 1 .. n
      BY <1>1, <2>4, SMTT(30)
    <3> QED BY <1>1, <1>2, <1>3, <3>1, SMTT(30)
  <2> QED BY <1>1, <2>1, <2>2, <2>3, <2>4, SMTT(30)
<1> QED BY <1>1, <1>3, Zenon DEF Once, u

LEMMA ApartTail ==
  ASSUME NEW S, NEW s \in Seq(S), s # <<>>, Apart(s)
  PROVE  Apart(Tail(s)) /\ \A h \in Els(Tail(s)) : ~Clash(Head(s), h)
<1> DEFINE n == Len(s)
           t == Tail(s)
<1>1. n \in Nat /\ n >= 1 /\ Len(t) = n - 1 /\ (\A i \in 1 .. n - 1 : t[i] = s[i + 1]) /\ Head(s) = s[1]
  BY TailFacts, Zenon
<1>2. \A i, j \in 1 .. n : Clash(s[i], s[j]) => i = j
  BY Zenon DEF Apart
<1> HIDE DEF n, t
<1>3. ASSUME NEW i \in 1 .. n - 1, NEW j \in 1 .. n - 1, Clash(t[i], t[j]) PROVE i = j
  <2>1. i + 1 \in 1 .. n /\ j + 1 \in 1 .. n /\ Clash(s[i + 1], s[j + 1])
    BY <1>1, <1>3, SMTT(30)
  <2> QED BY <1>1, <1>2, <2>1, SMTT(30)
<1>4. ASSUME NEW i \in 1 .. n - 1, Clash(Head(s), t[i]) PROVE FALSE
  <2>1. i + 1 \in 1 .. n /\ 1 \in 1 .. n /\ Clash(s[1], s[i + 1])
    BY <1>1, <1>4, SMTT(30)
  <2> QED BY <1>1, <1>2, <2>1, SMTT(30)
<1>5. Apart(t)
  BY <1>1, <1>3, Zenon DEF Apart
<1>6. \A h \in Els(t) : ~Clash(Head(s), h)
  BY <1>1, <1>4, Zenon DEF Els
<1> QED BY <1>5, <1>6, Zenon DEF t

LEMMA ApartCat ==
  ASSUME NEW S, NEW s \in Seq(S), NEW t \in Seq(S), Apart(s), Apart(t),
         \A f \in Els(s), h \in Els(t) : ~Clash(f, h)
  PROVE  Apart(s \o t)
<1> DEFINE m == Len(s)
           n == Len(t)
           u == s \o t
<1>1. m \in Nat /\ n \in Nat /\ Len(u) = m + n /\ (\A i \in 1 .. m : u[i] = s[i])
      /\ \A i \in m + 1 .. m + n : u[i] = t[i - m]
  BY CatFacts, Zenon
<1>2. (\A i, j \in 1 .. m : Clash(s[i], s[j]) => i = j) /\ (\A i, j \in 1 .. n : Clash(t[i], t[j]) => i = j)
      /\ \A i \in 1 .. m, j \in 1 .. n : ~Clash(s[i], t[j]) /\ ~Clash(t[j], s[i])
  <2>1. ASSUME NEW i \in 1 .. m, NEW j \in 1 .. n PROVE ~Clash(s[i], t[j])
    BY Zenon DEF Els
  <2> QED BY <2>1, Zenon DEF Apart, Clash, Same
<1> HIDE DEF m, n, u
<1>3. ASSUME NEW i \in 1 .. m + n, NEW j \in 1 .. m + n, Clash(u[i], u[j]) PROVE i = j
  <2>1. CASE i <= m /\ j <= m
    BY <1>1, <1>2, <1>3, <2>1, SMTT(30)
  <2>2. CASE i > m /\ j > m
    <3>1. i \in m + 1 .. m + n /\ j \in m + 1 .. m + n /\ i - m \in 1 .. n /\ j - m \in 1 .. n
      BY <1>1, <2>2, SMTT(30)
    <3>2. i - m = j - m
      BY <1>1, <1>2, <1>3, <3>1, Zenon
    <3> QED BY <1>1, <3>2, SMTT(30)
  <2>3. CASE i <= m /\ j > m
    <3>1. i \in 1 .. m /\ j \in m + 1 .. m + n /\ j - m \in 1 .. n
      BY <1>1, <2>3, SMTT(30)
    <3> QED BY <1>1, <1>2, <1>3, <3>1, Zenon
  <2>4. CASE i > m /\ j <= m
    <3>1. j \in 1 .. m /\ i \in m + 1 .. m + n /\ i - m \in 1 .. n
      BY <1>1, <2>4, SMTT(30)
    <3> QED BY <1>1, <1>2, <1>3, <3>1, Zenon
  <2> QED BY <1>1, <2>1, <2>2, <2>3, <2>4, SMTT(30)
<1> QED BY <1>1, <1>3, Zenon DEF Apart, u


-----------------------------------------------------------------------------
(* What each kind of step does to what a sender holds.                     *)

(* Frames that carry no packet come and go; other frames only go.          *)
LEMMA HoldFrames ==
  ASSUME NEW P, NEW sd, NEW q, NEW sv, NEW j, NEW W, NEW V, NEW g, NEW k,
         Hold(P, sd, q, sv, j, W, g, k), \A f \in V : f.t = "pils" => f \in W
  PROVE  Hold(P, sd, q, sv, j, V, g, k)
<1>1. \A f \in V : \A p : Carries(f, p) => f \in W
  BY Zenon DEF Carries
<1> QED BY <1>1, Zenon DEF Hold

(* The sender forgets packets, or a whole session.                         *)
LEMMA HoldForgets ==
  ASSUME NEW P, NEW sd, NEW q, NEW sv, NEW j, NEW W, NEW g, NEW k,
         NEW sd2, NEW q2, NEW sv2, NEW i, Hold(P, sd, q, sv, j, W, g, k),
         Once(sd2), Once(q2), Once(sv2), Els(sd2) \subseteq Els(sd), Els(q2) \subseteq Els(q),
         Els(sv2) \subseteq Els(sv), i = j \/ Els(sv2) = {}
  PROVE  Hold(P, sd2, q2, sv2, i, W, g, k)
<1>1. /\ Els(sd2) \subseteq P /\ Els(q2) \subseteq P /\ Els(sv2) \subseteq P
      /\ Els(sd2) \cap Els(q2) = {} /\ Els(sd2) \cap Els(sv2) = {} /\ Els(q2) \cap Els(sv2) = {}
  BY Zenon DEF Hold
<1>2. \A p \in Els(sd2) \cup Els(q2) : g[p] = 0 /\ \A f \in W : ~Carries(f, p)
  BY Zenon DEF Hold
<1>3. \A p \in Els(sv2) : (g[p] > 0 => k = i) /\ \A f \in W : Carries(f, p) => f.to = i
  BY Zenon DEF Hold
<1> QED BY <1>1, <1>2, <1>3, Zenon DEF Hold

(* The receiver is a new process.                                          *)
LEMMA HoldRestarts ==
  ASSUME NEW P, NEW sd, NEW q, NEW sv, NEW j, NEW W, NEW g, NEW k, NEW h, NEW i,
         Hold(P, sd, q, sv, j, W, g, k), \A p \in Packet : h[p] = 0, P \subseteq Packet
  PROVE  Hold(P, sd, q, sv, j, W, h, i)
<1>1. \A p \in P : h[p] = 0
  BY Zenon
<1>2. \A p \in Packet : ~(h[p] > 0) /\ h[p] <= 1
  BY SMTT(30)
<1>3. \A p \in Els(sd) \cup Els(q) \cup Els(sv) : h[p] = 0 /\ ~(h[p] > 0)
  BY <1>1, SMTT(30) DEF Hold
<1> QED BY <1>2, <1>3, Zenon DEF Hold

(* A frame for the running process is opened.                              *)
LEMMA HoldOpens ==
  ASSUME NEW P, NEW sd, NEW q, NEW sv, NEW j, NEW W, NEW V, NEW g \in [Packet -> Nat], NEW k,
         NEW f \in W, f.t = "pils", f.p \in Packet, f.to = k,
         Hold(P, sd, q, sv, j, W, g, k), V \subseteq W, \A h \in V : ~Clash(f, h)
  PROVE  Hold(P, sd, q, sv, j, V, [g EXCEPT ![f.p] = @ + 1], k)
<1> DEFINE x == f.p
           e == [g EXCEPT ![x] = @ + 1]
<1>1. Carries(f, x) /\ x \in Packet /\ x \in P /\ x \notin Els(sd) /\ x \notin Els(q)
  BY Zenon DEF Carries, Hold
<1>2. ASSUME x \notin Echoed PROVE g[x] = 0
  <2>1. g[x] \in Nat /\ ~(g[x] > 0)
    BY <1>1, <1>2, Zenon DEF Hold
  <2> QED BY <2>1, SMTT(30)
<1>3. x \in Els(sv) => k = j
  BY <1>1, Zenon DEF Hold
<1>4. (x \notin Echoed => e[x] = 1) /\ \A p \in Packet : p # x => e[p] = g[p]
  BY <1>1, <1>2, SMTT(30)
<1>5. x \notin Echoed => \A h \in V : Carries(h, x) => h.to # k
  BY <1>1, Zenon DEF Carries, Clash, Same
<1>6. Els(sd) \subseteq P /\ Els(q) \subseteq P /\ Els(sv) \subseteq P
  BY Zenon DEF Hold
<1>7. \A p : p # x /\ p \in DOMAIN g => e[p] = g[p]
  BY Zenon
<1>8. \A p : p \notin Packet => e[p] = g[p]
  BY SMTT(30)
<1> HIDE DEF e, x
<1>9. \A p \in Packet : e[p] > 0 => p \in P
  BY <1>1, <1>4, Zenon DEF Hold
<1>10. \A p \in Els(sd) \cup Els(q) : e[p] = 0 /\ \A h \in V : ~Carries(h, p)
  BY <1>1, <1>4, <1>8, Zenon DEF Hold
<1>11. \A p \in Els(sv) : (e[p] > 0 => k = j) /\ \A h \in V : Carries(h, p) => h.to = j
  BY <1>3, <1>4, <1>8, Zenon DEF Hold
<1>12. \A p \in Packet \ Echoed : e[p] <= 1 /\ (e[p] > 0 => \A h \in V : Carries(h, p) => h.to # k)
  BY <1>4, <1>5, SMTT(30) DEF Hold
<1>13. Hold(P, sd, q, sv, j, V, e, k)
  BY <1>9, <1>10, <1>11, <1>12, Zenon DEF Hold
<1> QED BY <1>13, Zenon DEF e, x

(* A new packet is sealed in the session with j, and may enter its ring.   *)
LEMMA HoldSeals ==
  ASSUME NEW P, NEW sd, NEW q, NEW sv, NEW j, NEW W, NEW g \in [Packet -> Nat], NEW k,
         NEW x \in Packet, NEW O, NEW sv2, Hold(P, sd, q, sv, j, W, g, k), x \notin P,
         \A f \in O : f.t = "pils" /\ f.p = x /\ f.to = j, Once(sv2), Els(sv2) \subseteq Els(sv) \cup {x}
  PROVE  /\ Hold(P \cup {x}, sd, q, sv2, j, W \cup O, g, k)
         /\ Novel(O, W, g, k)
<1>1. g[x] = 0 /\ ~(g[x] > 0) /\ \A h \in W : ~Carries(h, x)
  <2>1. g[x] \in Nat /\ ~(g[x] > 0)
    BY Zenon DEF Hold
  <2> QED BY <2>1, SMTT(30) DEF Hold, Carries
<1>2. \A f \in O : \A p : Carries(f, p) => p = x
  BY Zenon DEF Carries
<1>3. x \notin Els(sd) /\ x \notin Els(q) /\ x \notin Els(sv)
  BY Zenon DEF Hold
<1>4. Els(sd) \subseteq P \cup {x} /\ Els(q) \subseteq P \cup {x} /\ Els(sv2) \subseteq P \cup {x}
      /\ Els(sd) \cap Els(q) = {} /\ Els(sd) \cap Els(sv2) = {} /\ Els(q) \cap Els(sv2) = {}
  BY <1>3, Zenon DEF Hold
<1>5. \A p \in Els(sd) \cup Els(q) : g[p] = 0 /\ \A h \in W \cup O : ~Carries(h, p)
  BY <1>2, <1>3, Zenon DEF Hold
<1>6. \A p \in Els(sv2) : (g[p] > 0 => k = j) /\ \A h \in W \cup O : Carries(h, p) => h.to = j
  BY <1>1, <1>2, SMTT(30) DEF Hold
<1>7. \A p \in Packet \ Echoed : g[p] <= 1 /\ (g[p] > 0 => \A h \in W \cup O : Carries(h, p) => h.to # k)
  BY <1>1, <1>2, Zenon DEF Hold
<1>8. (\A p \in Packet : g[p] > 0 => p \in P \cup {x}) /\ \A h \in W \cup O : h.t = "pils" => h.p \in P \cup {x}
  BY Zenon DEF Hold
<1>9. Hold(P \cup {x}, sd, q, sv2, j, W \cup O, g, k)
  <2>1. Once(sd) /\ Once(q)
    BY Zenon DEF Hold
  <2> QED BY <1>4, <1>5, <1>6, <1>7, <1>8, <2>1, Zenon DEF Hold
<1> QED BY <1>1, <1>9, Zenon DEF Same, Carries, Novel

(* A new packet goes on to the queue, or is refused.                       *)
LEMMA HoldTakes ==
  ASSUME NEW P, NEW sd, NEW q, NEW sv, NEW j, NEW W, NEW g \in [Packet -> Nat], NEW k,
         NEW x \in Packet, NEW sd2, Hold(P, sd, q, sv, j, W, g, k), x \notin P,
         Once(sd2), Els(sd2) \subseteq Els(sd) \cup {x}
  PROVE  Hold(P \cup {x}, sd2, q, sv, j, W, g, k)
<1>1. g[x] = 0 /\ \A h \in W : ~Carries(h, x)
  <2>1. g[x] \in Nat /\ ~(g[x] > 0)
    BY Zenon DEF Hold
  <2> QED BY <2>1, SMTT(30) DEF Hold, Carries
<1>3. x \notin Els(sd) /\ x \notin Els(q) /\ x \notin Els(sv)
  BY Zenon DEF Hold
<1>4. Els(sd2) \subseteq P \cup {x} /\ Els(q) \subseteq P \cup {x} /\ Els(sv) \subseteq P \cup {x}
      /\ Els(sd2) \cap Els(q) = {} /\ Els(sd2) \cap Els(sv) = {} /\ Els(q) \cap Els(sv) = {}
  BY <1>3, Zenon DEF Hold
<1>5. \A p \in Els(sd2) \cup Els(q) : g[p] = 0 /\ \A h \in W : ~Carries(h, p)
  BY <1>1, Zenon DEF Hold
<1>8. (\A p \in Packet : g[p] > 0 => p \in P \cup {x}) /\ \A h \in W : h.t = "pils" => h.p \in P \cup {x}
  BY Zenon DEF Hold
<1> QED BY <1>4, <1>5, <1>8, Zenon DEF Hold

(* A packet moves on into the queue.                                       *)
LEMMA HoldQueues ==
  ASSUME NEW P, NEW sd, NEW q, NEW sv, NEW j, NEW W, NEW g, NEW k, NEW x \in Els(sd), NEW sd2, NEW q2,
         Hold(P, sd, q, sv, j, W, g, k), Once(sd2), Els(sd2) \subseteq Els(sd), x \notin Els(sd2),
         Once(q2), Els(q2) \subseteq Els(q) \cup {x}
  PROVE  Hold(P, sd2, q2, sv, j, W, g, k)
<1>4. Els(sd2) \subseteq P /\ Els(q2) \subseteq P
      /\ Els(sd2) \cap Els(q2) = {} /\ Els(sd2) \cap Els(sv) = {} /\ Els(q2) \cap Els(sv) = {}
  BY Zenon DEF Hold
<1>5. \A p \in Els(sd2) \cup Els(q2) : g[p] = 0 /\ \A h \in W : ~Carries(h, p)
  BY Zenon DEF Hold
<1> QED BY <1>4, <1>5, Zenon DEF Hold

(* A session with a new key i: ring and queue are sealed for it.           *)
LEMMA HoldReplays ==
  ASSUME NEW P, NEW sd, NEW q, NEW sv, NEW j, NEW W, NEW g, NEW k, NEW i, NEW O, P \subseteq Packet,
         Hold(P, sd, q, sv, j, W, g, k), i # j \/ Els(sv) = {},
         \A f \in O : f.t = "pils" /\ f.p \in Els(sv) \cup Els(q) /\ f.to = i
  PROVE  /\ Hold(P, sd, <<>>, <<>>, i, W \cup O, g, k)
         /\ Novel(O, W, g, k)
<1>1. Els(<<>>) = {} /\ Once(<<>>)
  BY SMTT(30) DEF Els, Once
<1>2. \A f \in O : \A p : Carries(f, p) => p \in Els(sv) \cup Els(q) /\ f.to = i
  BY Zenon DEF Carries
<1>3. \A p \in Els(sv) \cup Els(q) : p \notin Els(sd) /\ p \in P
  BY Zenon DEF Hold
<1>4. \A p \in Els(sd) : g[p] = 0 /\ \A h \in W \cup O : ~Carries(h, p)
  BY <1>2, <1>3, Zenon DEF Hold
<1>5. \A p \in Els(sv) \cup Els(q) : g[p] > 0 => k # i
  BY SMTT(30) DEF Hold
<1>6. \A p \in Packet \ Echoed : g[p] <= 1 /\ (g[p] > 0 => \A h \in W \cup O : Carries(h, p) => h.to # k)
  BY <1>2, <1>5, Zenon DEF Hold
<1>7. \A h \in W \cup O : h.t = "pils" => h.p \in P
  BY <1>3, Zenon DEF Hold
<1>8. Hold(P, sd, <<>>, <<>>, i, W \cup O, g, k)
  <2>1. Els(sd) \subseteq P /\ Once(sd) /\ \A p \in Packet : g[p] > 0 => p \in P
    BY Zenon DEF Hold
  <2> QED BY <1>1, <1>4, <1>6, <1>7, <2>1, Zenon DEF Hold
<1>9. ASSUME NEW f \in O, NEW h \in W, Same(f, h) \/ Same(h, f) PROVE FALSE
  <2>1. Carries(h, f.p) /\ h.to = i /\ f.p \in Els(sv) \cup Els(q)
    BY <1>9, Zenon DEF Same, Carries
  <2> QED BY <2>1, Zenon DEF Hold
<1> QED BY <1>5, <1>8, <1>9, Zenon DEF Novel

(* The session with j is confirmed: the queue is sealed for j.             *)
LEMMA HoldFlushes ==
  ASSUME NEW P, NEW sd, NEW q, NEW sv, NEW j, NEW W, NEW g, NEW k, NEW O, P \subseteq Packet,
         Hold(P, sd, q, sv, j, W, g, k),
         \A f \in O : f.t = "pils" /\ f.p \in Els(q) /\ f.to = j
  PROVE  /\ Hold(P, sd, <<>>, sv, j, W \cup O, g, k)
         /\ Novel(O, W, g, k)
<1>1. Els(<<>>) = {} /\ Once(<<>>)
  BY SMTT(30) DEF Els, Once
<1>2. \A f \in O : \A p : Carries(f, p) => p \in Els(q) /\ f.to = j
  BY Zenon DEF Carries
<1>3. \A p \in Els(q) : p \notin Els(sd) /\ p \notin Els(sv) /\ p \in P /\ g[p] = 0
  BY Zenon DEF Hold
<1>4. \A p \in Els(sd) : g[p] = 0 /\ \A h \in W \cup O : ~Carries(h, p)
  BY <1>2, <1>3, Zenon DEF Hold
<1>5. \A p \in Els(sv) : (g[p] > 0 => k = j) /\ \A h \in W \cup O : Carries(h, p) => h.to = j
  BY <1>2, Zenon DEF Hold
<1>6. \A p \in Packet \ Echoed : g[p] <= 1 /\ (g[p] > 0 => \A h \in W \cup O : Carries(h, p) => h.to # k)
  <2>1. \A p \in Packet : g[p] > 0 => \A h \in O : ~Carries(h, p)
    BY <1>2, <1>3, SMTT(30)
  <2> QED BY <2>1, Zenon DEF Hold
<1>7. \A h \in W \cup O : h.t = "pils" => h.p \in P
  BY <1>3, Zenon DEF Hold
<1>8. Hold(P, sd, <<>>, sv, j, W \cup O, g, k)
  <2>1. Els(sd) \subseteq P /\ Els(sv) \subseteq P /\ Once(sd) /\ Once(sv) /\ Els(sd) \cap Els(sv) = {}
        /\ \A p \in Packet : g[p] > 0 => p \in P
    BY Zenon DEF Hold
  <2> QED BY <1>1, <1>4, <1>5, <1>6, <1>7, <2>1, Zenon DEF Hold
<1>9. ASSUME NEW f \in O, NEW h \in W, Same(f, h) \/ Same(h, f) PROVE FALSE
  <2>1. Carries(h, f.p) /\ f.p \in Els(q)
    BY <1>9, Zenon DEF Same, Carries
  <2> QED BY <2>1, Zenon DEF Hold
<1>10. \A f \in O : ~(g[f.p] > 0)
  BY <1>3, SMTT(30)
<1> QED BY <1>8, <1>9, <1>10, Zenon DEF Novel


-----------------------------------------------------------------------------
(* Frames in flight stay apart.                                            *)

LEMMA SpreadSends ==
  ASSUME NEW s \in Seq(Frame), NEW out \in Seq(Frame), NEW lt, Spread(s, lt), Apart(out),
         \A f \in Els(out), h \in Els(s) \cup lt : ~Clash(f, h) /\ ~Clash(h, f)
  PROVE  Spread(s \o out, lt) /\ Els(s \o out) = Els(s) \cup Els(out) /\ s \o out \in Seq(Frame)
<1>1. Els(s \o out) = Els(s) \cup Els(out) /\ s \o out \in Seq(Frame)
  BY ElsCat, SMTT(30)
<1>2. Apart(s \o out)
  BY ApartCat, Zenon DEF Spread
<1>3. \A f \in lt, h \in Els(s \o out) : ~Clash(f, h)
  BY <1>1, Zenon DEF Spread
<1> QED BY <1>1, <1>2, <1>3, Zenon DEF Spread

LEMMA SpreadTail ==
  ASSUME NEW s \in Seq(Frame), NEW lt, Spread(s, lt), s # <<>>
  PROVE  /\ Spread(Tail(s), lt) /\ Spread(Tail(s), lt \cup {Head(s)})
         /\ \A h \in Els(Tail(s)) \cup lt : ~Clash(Head(s), h)
         /\ Els(s) = {Head(s)} \cup Els(Tail(s)) /\ Tail(s) \in Seq(Frame) /\ Head(s) \in Frame
<1>1. Els(s) = {Head(s)} \cup Els(Tail(s)) /\ Tail(s) \in Seq(Frame) /\ Head(s) \in Frame
  BY ElsTail, TailFacts, Zenon
<1>2. Apart(Tail(s)) /\ \A h \in Els(Tail(s)) : ~Clash(Head(s), h)
  BY ApartTail, Zenon DEF Spread
<1>3. \A f, h : Clash(f, h) => Clash(h, f)
  BY Zenon DEF Clash, Same
<1>4. \A h \in lt : ~Clash(Head(s), h)
  BY <1>1, <1>3, Zenon DEF Spread
<1>5. \A f \in lt, h \in Els(Tail(s)) : ~Clash(f, h)
  BY <1>1, Zenon DEF Spread
<1>6. Spread(Tail(s), lt)
  BY <1>2, <1>5, Zenon DEF Spread
<1>7. Spread(Tail(s), lt \cup {Head(s)})
  BY <1>2, <1>3, <1>4, <1>5, Zenon DEF Spread
<1> QED BY <1>1, <1>2, <1>4, <1>6, <1>7, Zenon

LEMMA SpreadArrives ==
  ASSUME NEW s \in Seq(Frame), NEW lt \in SUBSET Frame, NEW f \in lt, Spread(s, lt)
  PROVE  Spread(<<f>> \o s, lt \ {f}) /\ Els(<<f>> \o s) = {f} \cup Els(s) /\ <<f>> \o s \in Seq(Frame)
<1>1. <<f>> \in Seq(Frame)
  BY SMTT(30)
<1>2. Els(<<f>> \o s) = Els(<<f>>) \cup Els(s) /\ Els(<<f>>) = {f}
  <2>1. Els(<<f>> \o s) = Els(<<f>>) \cup Els(s)
    <3> DEFINE u == <<f>>
    <3>1. u \in Seq(Frame)
      BY <1>1, Zenon
    <3> HIDE DEF u
    <3>2. Els(u \o s) = Els(u) \cup Els(s)
      BY <3>1, ElsCat, SMTT(30)
    <3> QED BY <3>2, Zenon DEF u
  <2>2. Els(<<f>>) = {f}
    BY ElsOne, Zenon
  <2> QED BY <2>1, <2>2, Zenon
<1>3. Apart(<<f>>)
  BY SMTT(30) DEF Apart
<1>4. \A x \in Els(<<f>>), h \in Els(s) : ~Clash(x, h)
  BY <1>2, Zenon DEF Spread
<1>5. Apart(<<f>> \o s)
  BY <1>1, <1>3, <1>4, ApartCat, Zenon DEF Spread
<1>6. \A x \in lt \ {f}, h \in Els(<<f>> \o s) : ~Clash(x, h)
  BY <1>2, Zenon DEF Spread
<1> QED BY <1>1, <1>2, <1>5, <1>6, SMTT(30) DEF Spread

(* Sealed frames that only go leave twins twins; new ones that share no    *)
(* packet and process with the others join them.                           *)
LEMMA TwinsGo ==
  ASSUME NEW W, NEW V, Twins(W), \A f \in V : f.t = "pils" => f \in W
  PROVE  Twins(V)
  BY Zenon DEF Twins, Same

LEMMA TwinsJoin ==
  ASSUME NEW W, NEW O, Twins(W), Twins(O), \A f \in O, h \in W : ~Same(f, h) /\ ~Same(h, f)
  PROVE  Twins(W \cup O)
  BY Zenon DEF Twins

(* A session that is handed nothing, with new frames that carry nothing    *)
(* its process was handed; a session just made; one that opens a frame.    *)
Alike(r, s) == r.up = s.up /\ r.seen = s.seen /\ r.peer = s.peer
LEMMA ScreenKeeps ==
  ASSUME NEW r, NEW s, NEW g, NEW k, NEW W, NEW V, Screened(r, g, k, W), Alike(s, r),
         \A f \in V : f.t = "pils" => f \in W \/ ~(g[f.p] > 0 /\ f.to = k)
  PROVE  Screened(s, g, k, V)
<1> SUFFICES ASSUME NEW p \in Packet
             PROVE  /\ s.up[p] <= 1
                    /\ s.up[p] > 0 => /\ g[p] > 0
                                      /\ \A f \in V : Carries(f, p) /\ f.to = k /\ f.k = s.peer => f.c \in s.seen
  BY Zenon DEF Screened
<1>1. /\ s.up[p] <= 1
      /\ s.up[p] > 0 => /\ g[p] > 0
                        /\ \A f \in W : Carries(f, p) /\ f.to = k /\ f.k = s.peer => f.c \in s.seen
  BY Zenon DEF Screened, Alike
<1>2. ASSUME g[p] > 0, NEW f \in V, Carries(f, p), f.to = k PROVE f \in W
  BY <1>2, Zenon DEF Carries
<1> QED BY <1>1, <1>2, Zenon

LEMMA ScreenNew ==
  ASSUME NEW r, NEW g, NEW k, NEW W, \A p \in Packet : r.up[p] = 0
  PROVE  Screened(r, g, k, W)
<1>1. \A p \in Packet : r.up[p] <= 1 /\ ~(r.up[p] > 0)
  BY SMTT(30)
<1> QED BY <1>1, Zenon DEF Screened

Opens(r, s, f) ==
  /\ f.k = r.peer /\ f.c \notin r.seen
  /\ s.peer = r.peer /\ s.seen = r.seen \cup {f.c} /\ s.up = [r.up EXCEPT ![f.p] = @ + 1]
LEMMA ScreenOpens ==
  ASSUME NEW r, NEW s, NEW g \in [Packet -> Nat], NEW k, NEW W, NEW V, NEW f \in W,
         Screened(r, g, k, W), r.up \in [Packet -> Nat], f.t = "pils", f.p \in Packet, f.to = k,
         Opens(r, s, f), V \subseteq W, Twins(W)
  PROVE  Screened(s, [g EXCEPT ![f.p] = @ + 1], k, V)
<1> DEFINE x == f.p
           h == [g EXCEPT ![x] = @ + 1]
           u == r.up
           v == s.up
<1>1. x \in Packet /\ u \in [Packet -> Nat] /\ v = [u EXCEPT ![x] = u[x] + 1] /\ Carries(f, x)
  BY Zenon DEF Opens, Carries
<1>2. \A p \in Packet : u[p] <= 1 /\ (u[p] > 0 => g[p] > 0
         /\ \A e \in W : Carries(e, p) /\ e.to = k /\ e.k = r.peer => e.c \in r.seen)
  BY Zenon DEF Screened
<1>3. ~(u[x] > 0)
  BY <1>1, <1>2, Zenon DEF Opens
<1>4. \A e \in V : Carries(e, x) /\ e.to = k => e = f
  BY <1>1, Zenon DEF Twins, Same, Carries
<1>5. s.peer = r.peer /\ r.seen \subseteq s.seen /\ f.c \in s.seen
  BY Zenon DEF Opens
<1> HIDE DEF x, u, v
<1>6. v[x] <= 1 /\ h[x] > 0 /\ \A p \in Packet : p # x => v[p] = u[p] /\ h[p] = g[p]
  BY <1>1, <1>3, SMTT(30)
<1> HIDE DEF h
<1>7. \A p \in Packet : v[p] <= 1
  BY <1>2, <1>6, Zenon
<1>8. ASSUME NEW p \in Packet, v[p] > 0, NEW e \in V, Carries(e, p), e.to = k, e.k = s.peer
      PROVE  e.c \in s.seen
  <2>1. CASE p = x
    BY <1>4, <1>5, <1>8, <2>1, Zenon
  <2>2. CASE p # x
    BY <1>2, <1>5, <1>6, <1>8, <2>2, Zenon
  <2> QED BY <2>1, <2>2, Zenon
<1>9. \A p \in Packet : v[p] > 0 => h[p] > 0
  BY <1>2, <1>6, Zenon
<1>10. Screened(s, h, k, V)
  BY <1>7, <1>8, <1>9, Zenon DEF Screened, v
<1> QED BY <1>10, Zenon DEF h, x

(* The frames of a key exchange carry no packet.                           *)
LEMMA KeyFrames ==
  ASSUME NEW out \in Seq(Frame), \A f \in Els(out) : f.t # "pils"
  PROVE  Apart(out) /\ Twins(Els(out)) /\ \A f \in Els(out) : \A h : ~Same(f, h) /\ ~Same(h, f)
<1>1. \A i \in 1 .. Len(out) : out[i] \in Els(out)
  BY Zenon DEF Els
<1> QED BY <1>1, Zenon DEF Apart, Twins, Clash, Same

(* The frames that seal packets.                                           *)
LEMMA SealFacts ==
  ASSUME NEW k \in Nat \ {0}, NEW n, key[n] = k, NEW c, c.peer \in Nat, c.ctr \in Nat, NEW ps \in Seq(Packet)
  PROVE  /\ Seal(n, c, ps) \in Seq(Frame)
         /\ \A f \in Els(Seal(n, c, ps)) : f.t = "pils" /\ f.p \in Els(ps) /\ f.to = c.peer
         /\ Once(ps) => Apart(Seal(n, c, ps)) /\ Twins(Els(Seal(n, c, ps)))
<1> DEFINE l == Len(ps)
           F(i) == Pils(k, c.peer, c.ctr + i, ps[i])
           s == [i \in 1 .. l |-> F(i)]
<1>1. Seal(n, c, ps) = s /\ l \in Nat
  BY SMTT(30) DEF Seal
<1>2. ASSUME NEW i \in 1 .. l
      PROVE  F(i) \in Frame /\ F(i).t = "pils" /\ F(i).p = ps[i] /\ F(i).to = c.peer
  <2>1. ps[i] \in Packet /\ c.ctr + i \in Nat
    BY SMTT(30)
  <2> HIDE DEF l
  <2> QED BY <2>1, Zenon DEF Pils, Frame
<1> HIDE DEF l, F
<1>3. s \in [1 .. l -> Frame] /\ \A i \in 1 .. l : s[i] = F(i)
  BY <1>2, Zenon
<1>4. s \in Seq(Frame) /\ Len(s) = l
  <2> HIDE DEF s
  <2>1. s \in Seq(Frame)
    BY <1>1, <1>3, SMTT(30)
  <2>2. Len(s) = l
    BY <1>1, <1>3, <2>1, SMTT(30) DEF s
  <2> QED BY <2>1, <2>2, Zenon
<1> HIDE DEF s
<1>5. \A f \in Els(s) : f.t = "pils" /\ f.p \in Els(ps) /\ f.to = c.peer
  BY <1>2, <1>3, <1>4, SMTT(30) DEF Els, l
<1>6. ASSUME Once(ps), NEW i \in 1 .. l, NEW j \in 1 .. l, Same(s[i], s[j]) PROVE i = j
  BY <1>2, <1>3, <1>6, SMTT(30) DEF Once, Same, l
<1>7. Once(ps) => Apart(s)
  BY <1>4, <1>6, Zenon DEF Apart, Clash
<1>8. Once(ps) => Twins(Els(s))
  BY <1>4, <1>6, Zenon DEF Twins, Els
<1> QED BY <1>7, <1>8, <1>1, <1>4, <1>5, <1>6, Zenon

LEMMA Peers ==
  ASSUME NEW n \in Node
  PROVE  Peer(n) \in Node /\ Peer(n) # n /\ Node = {n, Peer(n)} /\ Peer(Peer(n)) = n
<1>1. PICK a, b \in Node : a # b /\ Node = {a, b}
  BY NodeAssumption, Zenon
<1>2. \E p \in Node : p # n
  BY <1>1, SMTT(30)
<1>3. Peer(n) \in Node /\ Peer(n) # n
  BY <1>2, Zenon DEF Peer
<1>4. \E p \in Node : p # Peer(n)
  BY <1>3, Zenon
<1>5. Peer(Peer(n)) \in Node /\ Peer(Peer(n)) # Peer(n)
  BY <1>4, Zenon DEF Peer
<1> QED BY <1>1, <1>3, <1>5, Zenon


-----------------------------------------------------------------------------
(* The pieces of the actions.                                              *)

LEMMA MarkFits ==
  ASSUME NEW a \in 0 .. MaxRekeyAttempts + 1, NEW c
  PROVE  MarkPendingRekey(a, c) \in 0 .. MaxRekeyAttempts + 1
  BY BoundAssumption, SMTT(30) DEF MarkPendingRekey

LEMMA KeyOut ==
  ASSUME NEW n, key[n] \in Nat \ {0}, NEW has, NEW a, NEW d
  PROVE  /\ SendKeyExchangeToNode(n, has, a, d) \in Seq(Frame)
         /\ \A f \in Els(SendKeyExchangeToNode(n, has, a, d)) : f.t # "pils"
<1>1. Pila(key[n]) \in Frame /\ Pilk(key[n]) \in Frame /\ Pila(key[n]).t = "pila" /\ Pilk(key[n]).t = "pilk"
  BY Zenon DEF Pila, Pilk, Frame
<1> DEFINE x == Pila(key[n])
           y == Pilk(key[n])
<1> HIDE DEF x, y
<1>2. <<x>> \in Seq(Frame) /\ <<x, y>> \in Seq(Frame) /\ Els(<<x>>) = {x} /\ Els(<<x, y>>) = {x, y}
  BY <1>1, SMTT(30) DEF Els, x, y
<1>3. x.t # "pils" /\ y.t # "pils"
  BY <1>1, Zenon DEF x, y
<1>4. SendKeyExchangeToNode(n, has, a, d) \in {<<x>>, <<x, y>>}
  BY Zenon DEF SendKeyExchangeToNode, x, y
<1> QED BY <1>2, <1>3, <1>4, Zenon

LEMMA Nothing == <<>> \in Seq(Frame) /\ Els(<<>>) = {} /\ \A s \in Seq(Frame) : s \o <<>> = s
  BY SMTT(30) DEF Els

LEMMA Transmits ==
  ASSUME NEW n \in Node, NEW took \in BOOLEAN, NEW out \in Seq(Frame), Transmit(n, took, out),
         chan \in [Node -> Seq(Frame)], took => chan[n] # <<>>
  PROVE  /\ chan' \in [Node -> Seq(Frame)]
         /\ chan'[n] = chan[n] \/ (chan[n] # <<>> /\ chan'[n] = Tail(chan[n]))
         /\ took => chan'[n] = Tail(chan[n])
         /\ chan'[Peer(n)] = chan[Peer(n)] \o out
<1>1. Peer(n) \in Node /\ Peer(n) # n
  BY Peers, Zenon
<1>2. chan' = [m \in Node |-> IF m = n THEN IF took THEN Tail(chan[n]) ELSE chan[n] ELSE chan[m] \o out]
  BY Zenon DEF Transmit
<1>3. chan'[Peer(n)] = chan[Peer(n)] \o out
  BY <1>1, <1>2, Zenon
<1>4. chan'[n] = (IF took THEN Tail(chan[n]) ELSE chan[n])
  BY <1>2, Zenon
<1>5. ASSUME NEW m \in Node PROVE (IF m = n THEN IF took THEN Tail(chan[n]) ELSE chan[n] ELSE chan[m] \o out) \in Seq(Frame)
  <2>1. chan[n] \in Seq(Frame) /\ chan[m] \in Seq(Frame)
    BY Zenon
  <2>2. took => Tail(chan[n]) \in Seq(Frame)
    BY <2>1, TailFacts, Zenon
  <2>3. chan[m] \o out \in Seq(Frame)
    BY <2>1, CatFacts, Zenon
  <2> QED BY <2>1, <2>2, <2>3, Zenon
<1>6. chan' \in [Node -> Seq(Frame)]
  BY <1>2, <1>5, Zenon
<1> QED BY <1>3, <1>4, <1>6, Zenon

(* What n is handed in a step: nothing, with its session kept, gone or     *)
(* new, or the packet of the frame at the head, which its session opens.   *)
Takes(n) ==
  \/ /\ got'[n] = got[n]
     /\ Has(n)' => (\A p \in Packet : crypto'[n].up[p] = 0) \/ (Has(n) /\ Alike(crypto'[n], crypto[n]))
  \/ LET f == Head(chan[n])
     IN  /\ chan[n] # <<>> /\ chan'[n] = Tail(chan[n])
         /\ f.t = "pils" /\ f.p \in Packet /\ f.to = key[n]
         /\ got'[n] = [got[n] EXCEPT ![f.p] = @ + 1]
         /\ Has(n) /\ Opens(crypto[n], crypto'[n], f)

(* The peer does not move, and what the node sends and holds fits.         *)
Still(b) ==
  /\ sending'[b] = sending[b] /\ queue'[b] = queue[b] /\ crypto'[b] = crypto[b] /\ sent'[b] = sent[b]
  /\ got'[b] = got[b] /\ key'[b] = key[b]

LEMMA WaysStep ==
  ASSUME Types, Ways, NEW n \in Node, NEW out \in Seq(Frame), late' = late,
         chan'[n] = chan[n] \/ (chan[n] # <<>> /\ chan'[n] = Tail(chan[n])),
         chan'[Peer(n)] = chan[Peer(n)] \o out, Still(Peer(n)), key'[n] = key[n], Apart(out),
         Twins(Els(out)), \A f \in Els(out), h \in Flying(Peer(n)) : ~Same(f, h) /\ ~Same(h, f),
         \A f \in Els(out) : f.t = "pils" => ~(got[Peer(n)][f.p] > 0 /\ f.to = key[Peer(n)]),
         Hold(SentBy(n)', sending'[n], queue'[n], Salvage(n)', crypto'[n].peer,
              Flying(Peer(n)) \cup Els(out), got[Peer(n)], key[Peer(n)]),
         Takes(n)
  PROVE  Ways'
<1> DEFINE b == Peer(n)
<1>1. b \in Node /\ b # n /\ Node = {n, b} /\ Peer(b) = n
  BY Peers, Zenon
<1> HIDE DEF b
<1>2. chan[n] \in Seq(Frame) /\ chan[b] \in Seq(Frame) /\ late \in [Node -> SUBSET Frame]
      /\ got[n] \in [Packet -> Nat]
  BY <1>1, Zenon DEF Types
<1>3. /\ Spread(chan[n], late[n]) /\ Spread(chan[b], late[b])
      /\ Hold(SentBy(b), sending[b], queue[b], Salvage(b), crypto[b].peer, Flying(n), got[n], key[n])
      /\ Twins(Flying(n)) /\ Twins(Flying(b))
      /\ (Has(n) => Screened(crypto[n], got[n], key[n], Flying(n)))
      /\ (Has(b) => Screened(crypto[b], got[b], key[b], Flying(b)))
  BY <1>1, Zenon DEF Ways
<1>4. Spread(chan'[b], late'[b]) /\ Flying(b)' = Flying(b) \cup Els(out)
  <2>1. \A f \in Els(out), h \in Els(chan[b]) \cup late[b] : ~Clash(f, h) /\ ~Clash(h, f)
    BY Zenon DEF Flying, Clash, b
  <2>2. chan'[b] = chan[b] \o out
    BY Zenon DEF b
  <2>3. Spread(chan[b] \o out, late[b]) /\ Els(chan[b] \o out) = Els(chan[b]) \cup Els(out)
    BY <1>2, <1>3, <2>1, SpreadSends, Zenon
  <2> QED BY <2>2, <2>3, Zenon DEF Flying
<1>5. Spread(chan'[n], late'[n]) /\ Flying(n)' \subseteq Flying(n)
  <2>1. CASE chan'[n] = chan[n]
    BY <1>3, <2>1, Zenon DEF Flying
  <2>2. CASE chan[n] # <<>> /\ chan'[n] = Tail(chan[n])
    <3>1. Spread(Tail(chan[n]), late[n]) /\ Els(chan[n]) = {Head(chan[n])} \cup Els(Tail(chan[n]))
      BY <1>2, <1>3, <2>2, SpreadTail, Zenon
    <3> QED BY <2>2, <3>1, Zenon DEF Flying
  <2> QED BY <2>1, <2>2, Zenon
<1>6. Hold(SentBy(n)', sending'[n], queue'[n], Salvage(n)', crypto'[n].peer, Flying(b)', got'[b], key'[b])
  BY <1>4, Zenon DEF Still, b
<1>7. Salvage(b)' = Salvage(b) /\ SentBy(b)' = SentBy(b) /\ crypto'[b].peer = crypto[b].peer
      /\ sending'[b] = sending[b] /\ queue'[b] = queue[b]
  BY Zenon DEF Still, Salvage, SentBy, Has, b
<1>8. Hold(SentBy(b)', sending'[b], queue'[b], Salvage(b)', crypto'[b].peer, Flying(n)', got'[n], key'[n])
  <2>1. CASE got'[n] = got[n]
    <3>1. \A f \in Flying(n)' : f.t = "pils" => f \in Flying(n)
      BY <1>5, Zenon
    <3> DEFINE V == Flying(n)'
    <3> HIDE DEF V
    <3>2. Hold(SentBy(b), sending[b], queue[b], Salvage(b), crypto[b].peer, V, got[n], key[n])
      BY <1>3, <3>1, HoldFrames, Zenon DEF V
    <3> QED BY <1>7, <2>1, <3>2, Zenon DEF V
  <2>2. CASE got'[n] # got[n]
    <3> DEFINE f == Head(chan[n])
               V == Els(Tail(chan[n])) \cup late[n]
    <3>1. /\ chan[n] # <<>> /\ chan'[n] = Tail(chan[n])
          /\ f.t = "pils" /\ f.p \in Packet /\ f.to = key[n]
          /\ got'[n] = [got[n] EXCEPT ![f.p] = @ + 1]
      BY <2>2, Zenon DEF Takes
    <3>2. Els(chan[n]) = {f} \cup Els(Tail(chan[n])) /\ \A h \in V : ~Clash(f, h)
      BY <1>2, <1>3, <3>1, SpreadTail, Zenon
    <3>3. f \in Flying(n) /\ V \subseteq Flying(n)
      BY <3>2, Zenon DEF Flying
    <3>4. Flying(n)' = V
      BY <3>1, Zenon DEF Flying
    <3> HIDE DEF f, V
    <3>5. Hold(SentBy(b), sending[b], queue[b], Salvage(b), crypto[b].peer, V, [got[n] EXCEPT ![f.p] = @ + 1], key[n])
      BY <1>2, <1>3, <3>1, <3>2, <3>3, HoldOpens, Zenon
    <3> QED BY <1>7, <3>1, <3>4, <3>5, Zenon
  <2> QED BY <2>1, <2>2, Zenon
<1>9. Peer(n) = b
  BY Zenon DEF b
<1>10. Twins(Flying(n)') /\ Twins(Flying(b)')
  <2> DEFINE O == Els(out)
             W == Flying(b)
             V == Flying(n)'
  <2>1. Twins(W) /\ Twins(O) /\ \A f \in O, h \in W : ~Same(f, h) /\ ~Same(h, f)
    BY <1>3, <1>9, Zenon
  <2>2. \A f \in V : f.t = "pils" => f \in Flying(n)
    BY <1>5, Zenon
  <2> HIDE DEF O, W, V
  <2>3. Twins(W \cup O)
    BY <2>1, TwinsJoin, Zenon
  <2>4. Twins(V)
    BY <1>3, <2>2, TwinsGo, Zenon
  <2> QED BY <1>4, <2>3, <2>4, Zenon DEF O, W, V
<1>11. ASSUME Has(b)' PROVE Screened(crypto'[b], got'[b], key'[b], Flying(b)')
  <2>1. Has(b) /\ crypto'[b] = crypto[b] /\ got'[b] = got[b] /\ key'[b] = key[b]
    BY <1>9, <1>11, Zenon DEF Still, Has
  <2> DEFINE r == crypto[b]
             g == got[b]
             k == key[b]
             W == Flying(b)
             V == W \cup Els(out)
  <2>2. Screened(r, g, k, W) /\ Alike(r, r)
    BY <1>3, <2>1, Zenon DEF Alike
  <2>3. \A f \in V : f.t = "pils" => f \in W \/ ~(g[f.p] > 0 /\ f.to = k)
    BY <1>9, Zenon
  <2> HIDE DEF r, g, k, W, V
  <2>4. Screened(r, g, k, V)
    BY <2>2, <2>3, ScreenKeeps, Zenon
  <2> QED BY <1>4, <2>1, <2>4, Zenon DEF r, g, k, W, V
<1>12. ASSUME Has(n)' PROVE Screened(crypto'[n], got'[n], key'[n], Flying(n)')
  <2> DEFINE r == crypto[n]
             s == crypto'[n]
             g == got[n]
             k == key[n]
             W == Flying(n)
             V == Flying(n)'
  <2>1. V \subseteq W /\ key'[n] = k
    BY <1>5, Zenon
  <2>2. CASE got'[n] = g /\ \A p \in Packet : s.up[p] = 0
    <3> HIDE DEF r, s, g, k, W, V
    <3>1. Screened(s, g, k, V)
      BY <2>2, ScreenNew, Zenon
    <3> QED BY <2>1, <2>2, <3>1, Zenon DEF s, g, k, V
  <2>3. CASE got'[n] = g /\ Has(n) /\ Alike(s, r)
    <3>1. Screened(r, g, k, W)
      BY <1>3, <2>3, Zenon
    <3> HIDE DEF r, s, g, k, W, V
    <3>2. Screened(s, g, k, V)
      BY <2>1, <2>3, <3>1, ScreenKeeps, Zenon
    <3> QED BY <2>1, <2>3, <3>2, Zenon DEF s, g, k, V
  <2>4. CASE LET f == Head(chan[n])
             IN  /\ chan[n] # <<>> /\ chan'[n] = Tail(chan[n])
                 /\ f.t = "pils" /\ f.p \in Packet /\ f.to = key[n]
                 /\ got'[n] = [got[n] EXCEPT ![f.p] = @ + 1]
                 /\ Has(n) /\ Opens(crypto[n], crypto'[n], f)
    <3> DEFINE f == Head(chan[n])
    <3>1. /\ f.t = "pils" /\ f.p \in Packet /\ f.to = k /\ got'[n] = [g EXCEPT ![f.p] = @ + 1]
          /\ Opens(r, s, f) /\ chan[n] # <<>> /\ Has(n)
      BY <2>4, Zenon
    <3>2. Screened(r, g, k, W) /\ Twins(W) /\ g \in [Packet -> Nat]
      BY <1>2, <1>3, <3>1, Zenon
    <3>3. r.up \in [Packet -> Nat]
      <4>1. r \in Session
        BY <3>1, Zenon DEF Types, Has
      <4> HIDE DEF r
      <4> QED BY <4>1, Zenon DEF Session
    <3>4. f \in W
      <4>1. f \in Els(chan[n])
        BY <1>2, <3>1, ElsTail, Zenon
      <4> QED BY <4>1, Zenon DEF Flying
    <3> HIDE DEF r, s, g, k, W, V, f
    <3>5. Screened(s, [g EXCEPT ![f.p] = @ + 1], k, V)
      BY <2>1, <3>1, <3>2, <3>3, <3>4, ScreenOpens, Zenon
    <3> QED BY <2>1, <3>1, <3>5, Zenon DEF s, k, V
  <2> QED BY <1>12, <2>2, <2>3, <2>4, Zenon DEF Takes
<1> HIDE DEF b
<1> QED BY <1>1, <1>4, <1>5, <1>6, <1>8, <1>9, <1>10, <1>11, <1>12, Zenon DEF Ways

(* A step of n that sends at most key-exchange frames.                     *)
LEMMA QuietStep ==
  ASSUME Types, Ways, NEW n \in Node, NEW out \in Seq(Frame), \A f \in Els(out) : f.t # "pils",
         late' = late,
         chan'[n] = chan[n] \/ (chan[n] # <<>> /\ chan'[n] = Tail(chan[n])),
         chan'[Peer(n)] = chan[Peer(n)] \o out, Still(Peer(n)), key'[n] = key[n],
         Hold(SentBy(n)', sending'[n], queue'[n], Salvage(n)', crypto'[n].peer,
              Flying(Peer(n)), got[Peer(n)], key[Peer(n)]),
         Takes(n)
  PROVE  Ways'
<1>1. /\ Apart(out) /\ Twins(Els(out))
      /\ \A f \in Els(out), h \in Flying(Peer(n)) : ~Same(f, h) /\ ~Same(h, f)
      /\ \A f \in Els(out) : f.t = "pils" => ~(got[Peer(n)][f.p] > 0 /\ f.to = key[Peer(n)])
  BY KeyFrames, Zenon
<1>2. Hold(SentBy(n)', sending'[n], queue'[n], Salvage(n)', crypto'[n].peer,
           Flying(Peer(n)) \cup Els(out), got[Peer(n)], key[Peer(n)])
  <2> DEFINE P == SentBy(n)'
             sd == sending'[n]
             q == queue'[n]
             sv == Salvage(n)'
             j == crypto'[n].peer
             W == Flying(Peer(n))
             V == Flying(Peer(n)) \cup Els(out)
  <2>1. Hold(P, sd, q, sv, j, W, got[Peer(n)], key[Peer(n)])
    BY Zenon
  <2>2. \A f \in V : f.t = "pils" => f \in W
    BY Zenon
  <2> HIDE DEF P, sd, q, sv, j, W, V
  <2>3. Hold(P, sd, q, sv, j, V, got[Peer(n)], key[Peer(n)])
    BY <2>1, <2>2, HoldFrames, Zenon
  <2> QED BY <2>3, Zenon DEF P, sd, q, sv, j, W, V
<1> QED BY <1>1, <1>2, WaysStep, Zenon

(* The session of n goes, or stays with its ring or an empty one.          *)
Soft(n) ==
  /\ crypto' \in [Node -> Session \cup {NoCrypto}]
  /\ \A m \in Node : m # n => crypto'[m] = crypto[m]
  /\ \/ crypto'[n] = NoCrypto
     \/ /\ Has(n) /\ crypto'[n] \in Session
        /\ crypto'[n].peer = crypto[n].peer /\ crypto'[n].salvage \in {<<>>, crypto[n].salvage}

(* The same of a step that makes no session: n is handed nothing, or what  *)
(* is at the head.                                                         *)
Spared(n) == got' = got /\ (Has(n)' => Has(n) /\ Alike(crypto'[n], crypto[n]))
Screens(n) ==
  \/ Spared(n)
  \/ LET f == Head(chan[n])
     IN  /\ f.t = "pils" /\ f.to = key[n] /\ got' = [got EXCEPT ![n][f.p] = @ + 1]
         /\ Has(n) /\ Opens(crypto[n], crypto'[n], f)

LEMMA Real == ASSUME NEW c \in Session PROVE c # NoCrypto /\ c.peer \in Nat \ {0} /\ c.ctr \in Nat
                                             /\ c.salvage \in Seq(Packet)
  BY SMTT(30) DEF Session, NoCrypto

(* A step of n that seals nothing and takes no packet in.                  *)
LEMMA CalmStep ==
  ASSUME Types, Ways, NEW n \in Node, NEW took \in BOOLEAN, took => chan[n] # <<>>,
         NEW out \in Seq(Frame), \A f \in Els(out) : f.t # "pils", Transmit(n, took, out),
         Soft(n), key' = key, sending' = sending, sent' = sent, late' = late,
         queue' \in [Node -> Seq(Packet)], \A m \in Node : m # n => queue'[m] = queue[m],
         queue'[n] \in {<<>>, queue[n]},
         pend' \in [Node -> 0 .. MaxRekeyAttempts + 1], reset' \in [Node -> {"no", "due", "cooling"}],
         Spared(n) \/ (took /\ Screens(n))
  PROVE  IInv'
<1> DEFINE b == Peer(n)
           f == Head(chan[n])
<1>1. b \in Node /\ b # n
  BY Peers, Zenon
<1>2. chan \in [Node -> Seq(Frame)] /\ got \in [Node -> [Packet -> Nat]]
  BY Zenon DEF Types
<1>3. /\ chan' \in [Node -> Seq(Frame)]
      /\ chan'[n] = chan[n] \/ (chan[n] # <<>> /\ chan'[n] = Tail(chan[n]))
      /\ took => chan'[n] = Tail(chan[n])
      /\ chan'[b] = chan[b] \o out
  BY <1>2, Transmits, ZenonT(30)
<1>4. f.t = "pils" /\ took => f.p \in Packet
  <2>1. took => f \in Frame
    BY <1>2, TailFacts, Zenon
  <2> QED BY <2>1, Zenon DEF Frame
<1>5. got' \in [Node -> [Packet -> Nat]] /\ got'[b] = got[b] /\ Takes(n)
  <2>1. CASE Spared(n)
    BY <1>2, <2>1, Zenon DEF Takes, Spared
  <2>2. CASE /\ took /\ f.t = "pils" /\ f.to = key[n] /\ got' = [got EXCEPT ![n][f.p] = @ + 1]
             /\ Has(n) /\ Opens(crypto[n], crypto'[n], f)
    <3>1. took /\ f.t = "pils" /\ f.to = key[n] /\ got' = [got EXCEPT ![n][f.p] = @ + 1] /\ f.p \in Packet
          /\ Has(n) /\ Opens(crypto[n], crypto'[n], f)
      BY <1>4, <2>2, Zenon
    <3>2. got' = [got EXCEPT ![n] = [got[n] EXCEPT ![f.p] = got[n][f.p] + 1]]
      BY <3>1, Zenon
    <3> DEFINE x == f.p
    <3>3. x \in Packet /\ got[n] \in [Packet -> Nat]
      BY <1>2, <3>1, Zenon
    <3> HIDE DEF f, x
    <3>4. [got[n] EXCEPT ![x] = got[n][x] + 1] \in [Packet -> Nat]
      BY <3>3, SMTT(30)
    <3>5. got' \in [Node -> [Packet -> Nat]] /\ got'[n] = [got[n] EXCEPT ![x] = got[n][x] + 1] /\ got'[b] = got[b]
      BY <1>1, <1>2, <3>2, <3>4, Zenon DEF x
    <3> QED BY <1>3, <3>1, <3>5, Zenon DEF x, f, Takes
  <2> QED BY <2>1, <2>2, Zenon DEF Screens
<1> HIDE DEF b, f
<1>6. Still(b)
  BY <1>1, <1>5, Zenon DEF Still, Soft
<1>7. SentBy(n)' = SentBy(n)
  BY Zenon DEF SentBy
<1>8. Hold(SentBy(n), sending[n], queue[n], Salvage(n), crypto[n].peer, Flying(b), got[b], key[b])
  BY Zenon DEF Ways, b
<1>9. Once(queue'[n]) /\ Els(queue'[n]) \subseteq Els(queue[n])
  <2>1. Once(<<>>) /\ Els(<<>>) = {}
    BY SMTT(30) DEF Once, Els
  <2> QED BY <1>8, <2>1, Zenon DEF Hold
<1>10. /\ Once(Salvage(n)') /\ Els(Salvage(n)') \subseteq Els(Salvage(n))
       /\ crypto'[n].peer = crypto[n].peer \/ Els(Salvage(n)') = {}
  <2>1. Once(<<>>) /\ Els(<<>>) = {}
    BY SMTT(30) DEF Once, Els
  <2>2. CASE crypto'[n] = NoCrypto
    BY <2>1, <2>2, Zenon DEF Salvage, Has
  <2>3. CASE crypto'[n] \in Session /\ Has(n)
             /\ crypto'[n].peer = crypto[n].peer /\ crypto'[n].salvage \in {<<>>, crypto[n].salvage}
    <3>1. Salvage(n)' \in {<<>>, Salvage(n)}
      BY <2>3, Real, Zenon DEF Salvage, Has
    <3>2. Once(Salvage(n))
      BY <1>8, Zenon DEF Hold
    <3> QED BY <2>1, <2>3, <3>1, <3>2, Zenon
  <2> QED BY <2>2, <2>3, Zenon DEF Soft
<1>11. Hold(SentBy(n), sending[n], queue'[n], Salvage(n)', crypto'[n].peer, Flying(b), got[b], key[b])
  <2> DEFINE q == queue'[n]
             sv == Salvage(n)'
             i == crypto'[n].peer
  <2>1. Once(sending[n])
    BY <1>8, Zenon DEF Hold
  <2>2. Once(q) /\ Els(q) \subseteq Els(queue[n]) /\ Once(sv) /\ Els(sv) \subseteq Els(Salvage(n))
        /\ (i = crypto[n].peer \/ Els(sv) = {})
    BY <1>9, <1>10, Zenon
  <2> HIDE DEF q, sv, i
  <2>3. Hold(SentBy(n), sending[n], q, sv, i, Flying(b), got[b], key[b])
    BY <1>8, <2>1, <2>2, HoldForgets, SMTT(30)
  <2> QED BY <2>3, Zenon DEF q, sv, i
<1>12. Hold(SentBy(n)', sending'[n], queue'[n], Salvage(n)', crypto'[n].peer, Flying(b), got[b], key[b])
  BY <1>7, <1>11, Zenon
<1>13. key'[n] = key[n]
  BY Zenon
<1>14. Ways'
  BY <1>3, <1>5, <1>6, <1>12, <1>13, QuietStep, Zenon DEF b, f
<1>15. Types'
  <2>1. \A m \in Node : Len(queue'[m]) <= maxPendingPerPeer
    <3>1. Len(<<>>) = 0 /\ 0 <= maxPendingPerPeer
      BY BoundAssumption, SMTT(30)
    <3> QED BY <3>1, Zenon DEF Types
  <2> QED BY <1>3, <1>5, <2>1, Zenon DEF Types, Soft
<1> QED BY <1>14, <1>15, Zenon DEF IInv

LEMMA StillNet ==
  ASSUME Types, NEW n \in Node, chan' = chan
  PROVE  Transmit(n, FALSE, <<>>)
<1>1. chan \in [Node -> Seq(Frame)] /\ \A m \in Node : chan[m] \o <<>> = chan[m]
  BY Nothing, Zenon DEF Types
<1>2. chan = [m \in Node |-> IF m = n THEN chan[n] ELSE chan[m] \o <<>>]
  BY <1>1, Zenon
<1> QED BY <1>2, Zenon DEF Transmit


-----------------------------------------------------------------------------
(* The actions that seal nothing.                                          *)

(* DropCrypto, and the session of a node as it was.                        *)
LEMMA Softens ==
  ASSUME Types, NEW n \in Node,
         \/ crypto' = crypto
         \/ crypto' = [crypto EXCEPT ![n] = NoCrypto]
         \/ \E c \in Session : /\ Has(n) /\ crypto' = [crypto EXCEPT ![n] = c]
                               /\ c.peer = crypto[n].peer /\ c.salvage \in {<<>>, crypto[n].salvage}
  PROVE  Soft(n)
<1>1. crypto \in [Node -> Session \cup {NoCrypto}]
  BY Zenon DEF Types
<1>2. Has(n) => crypto[n] \in Session
  BY <1>1, Zenon DEF Has
<1>3. CASE crypto' = crypto
  BY <1>1, <1>2, <1>3, Zenon DEF Soft, Has
<1>4. CASE crypto' = [crypto EXCEPT ![n] = NoCrypto]
  BY <1>1, <1>4, Zenon DEF Soft
<1>5. CASE \E c \in Session : /\ Has(n) /\ crypto' = [crypto EXCEPT ![n] = c]
                              /\ c.peer = crypto[n].peer /\ c.salvage \in {<<>>, crypto[n].salvage}
  <2>1. PICK c \in Session : /\ Has(n) /\ crypto' = [crypto EXCEPT ![n] = c]
                             /\ c.peer = crypto[n].peer /\ c.salvage \in {<<>>, crypto[n].salvage}
    BY <1>5, Zenon
  <2> HIDE DEF Session
  <2> QED BY <1>1, <2>1, Zenon DEF Soft
<1> QED BY <1>3, <1>4, <1>5, Zenon

LEMMA Spares ==
  ASSUME Types, NEW n \in Node, got' = got,
         \/ crypto' = crypto
         \/ crypto' = [crypto EXCEPT ![n] = NoCrypto]
         \/ \E c : Has(n) /\ crypto' = [crypto EXCEPT ![n] = c] /\ Alike(c, crypto[n])
  PROVE  Spared(n)
<1>1. crypto \in [Node -> Session \cup {NoCrypto}]
  BY Zenon DEF Types
<1>2. Alike(crypto[n], crypto[n])
  BY Zenon DEF Alike
<1> QED BY <1>1, <1>2, Zenon DEF Spared, Has

LEMMA Keys == ASSUME Types, NEW n \in Node PROVE key[n] \in Nat \ {0}
<1>1. key[n] \in 1 .. MaxKey[n] /\ MaxKey[n] \in Nat
  BY BoundAssumption, Zenon DEF Types
<1> QED BY <1>1, SMTT(30)

LEMMA DropStep ==
  ASSUME Types, Ways, NEW n \in Node, DropCrypto(n)
  PROVE  IInv'
<1>1. Transmit(n, FALSE, <<>>)
  BY StillNet, Zenon DEF DropCrypto
<1>2. Soft(n)
  <2>1. crypto' = [crypto EXCEPT ![n] = NoCrypto]
    BY Zenon DEF DropCrypto
  <2> QED BY <2>1, Softens, Zenon
<1>0. Spared(n)
  <2>1. crypto' = [crypto EXCEPT ![n] = NoCrypto] /\ got' = got
    BY Zenon DEF DropCrypto
  <2> QED BY <2>1, Spares, Zenon
<1>3. <<>> \in Seq(Frame) /\ \A f \in Els(<<>>) : f.t # "pils"
  BY Nothing, Zenon
<1>4. /\ key' = key /\ sending' = sending /\ sent' = sent /\ late' = late /\ got' = got /\ queue' = queue
      /\ pend' = [pend EXCEPT ![n] = 0] /\ reset' = reset
  BY Zenon DEF DropCrypto
<1>5. /\ queue' \in [Node -> Seq(Packet)] /\ (\A m \in Node : m # n => queue'[m] = queue[m])
      /\ queue'[n] \in {<<>>, queue[n]} /\ reset' \in [Node -> {"no", "due", "cooling"}]
  BY <1>4, Zenon DEF Types
<1>6. pend' \in [Node -> 0 .. MaxRekeyAttempts + 1]
  BY <1>4, BoundAssumption, SMTT(30) DEF Types
<1> DEFINE out == <<>>
           took == FALSE
<1>7. took \in BOOLEAN /\ (took => chan[n] # <<>>) /\ out \in Seq(Frame)
      /\ (\A f \in Els(out) : f.t # "pils") /\ Transmit(n, took, out)
  BY <1>1, <1>3, Zenon
<1> HIDE DEF out, took
<1> QED BY <1>0, <1>2, <1>4, <1>5, <1>6, <1>7, CalmStep, Zenon

LEMMA ResetStep ==
  ASSUME Types, Ways, NEW n \in Node, ResetPath(n), reset' \in [Node -> {"no", "due", "cooling"}]
  PROVE  IInv'
<1>1. key[n] \in Nat \ {0}
  BY Keys, Zenon
<1> DEFINE x == SendKeyExchangeToNode(n, FALSE, 0, FALSE)
           y == SendKeyExchangeToNode(n, FALSE, 1, FALSE)
           out == x \o y
           took == FALSE
<1>2. x \in Seq(Frame) /\ (\A f \in Els(x) : f.t # "pils")
  BY <1>1, KeyOut, Zenon
<1>3. y \in Seq(Frame) /\ (\A f \in Els(y) : f.t # "pils")
  BY <1>1, KeyOut, Zenon
<1>4. Transmit(n, took, out) /\ took \in BOOLEAN /\ (took => chan[n] # <<>>)
  BY Zenon DEF ResetPath
<1> HIDE DEF x, y, took
<1>5. out \in Seq(Frame) /\ Els(out) = Els(x) \cup Els(y)
  <2>1. out \in Seq(Frame)
    BY <1>2, <1>3, CatFacts, Zenon
  <2>2. Els(x \o y) = Els(x) \cup Els(y)
    BY <1>2, <1>3, ElsCat, SMTT(30)
  <2> QED BY <2>1, <2>2, Zenon
<1>6. \A f \in Els(out) : f.t # "pils"
  BY <1>2, <1>3, <1>5, Zenon
<1> HIDE DEF out
<1>7. Soft(n)
  <2>1. crypto' = [crypto EXCEPT ![n] = NoCrypto]
    BY Zenon DEF ResetPath
  <2> QED BY <2>1, Softens, Zenon
<1>0. Spared(n)
  <2>1. crypto' = [crypto EXCEPT ![n] = NoCrypto] /\ got' = got
    BY Zenon DEF ResetPath
  <2> QED BY <2>1, Spares, Zenon
<1>8. /\ key' = key /\ sending' = sending /\ sent' = sent /\ late' = late /\ got' = got /\ queue' = queue
      /\ pend' = [pend EXCEPT ![n] = MarkPendingRekey(MarkPendingRekey(0, FALSE), FALSE)]
  BY Zenon DEF ResetPath
<1>9. /\ queue' \in [Node -> Seq(Packet)] /\ (\A m \in Node : m # n => queue'[m] = queue[m])
      /\ queue'[n] \in {<<>>, queue[n]}
  BY <1>8, Zenon DEF Types
<1>10. pend' \in [Node -> 0 .. MaxRekeyAttempts + 1]
  <2> DEFINE a == MarkPendingRekey(0, FALSE)
             c == MarkPendingRekey(a, FALSE)
  <2>1. 0 \in 0 .. MaxRekeyAttempts + 1
    BY BoundAssumption, SMTT(30)
  <2>2. a \in 0 .. MaxRekeyAttempts + 1
    BY <2>1, MarkFits, Zenon
  <2> HIDE DEF a
  <2>3. c \in 0 .. MaxRekeyAttempts + 1
    BY <2>2, MarkFits, Zenon
  <2> HIDE DEF c
  <2> QED BY <1>8, <2>3, Zenon DEF Types, a, c
<1> QED BY <1>0, <1>4, <1>5, <1>6, <1>7, <1>8, <1>9, <1>10, CalmStep, Zenon

LEMMA TickStep ==
  ASSUME Types, Ways, NEW n \in Node, Tick(n)
  PROVE  IInv'
<1>1. key[n] \in Nat \ {0}
  BY Keys, Zenon
<1>2. Soft(n) /\ Spared(n)
  <2>0. got' = got
    BY Zenon DEF Tick
  <2>1. PICK c \in Older(crypto[n]) : crypto' = [crypto EXCEPT ![n] = c]
    BY Zenon DEF Tick, Age
  <2>2. crypto \in [Node -> Session \cup {NoCrypto}]
    BY Zenon DEF Types
  <2>3. CASE crypto[n] = NoCrypto
    <3>1. c = NoCrypto
      BY <2>1, <2>3, Zenon DEF Older
    <3> QED BY <2>0, <2>1, <3>1, Softens, Spares, Zenon
  <2>4. CASE crypto[n] # NoCrypto
    <3> DEFINE d == crypto[n]
    <3>1. d \in Session
      BY <2>2, <2>4, Zenon
    <3>2. c \in {[d EXCEPT !.age = a, !.salvage = <<>>] : a \in IF d.age = 0 THEN {1} ELSE {d.age, 2}}
      BY <2>1, <2>4, Zenon DEF Older
    <3>3. PICK a \in IF d.age = 0 THEN {1} ELSE {d.age, 2} : c = [d EXCEPT !.age = a, !.salvage = <<>>]
      BY <3>2, Zenon
    <3> HIDE DEF d
    <3>4. a \in 0 .. 2
      BY <3>1, SMTT(30) DEF Session
    <3>5. <<>> \in Seq(Packet)
      BY SMTT(30)
    <3>6. c \in Session /\ c.peer = d.peer /\ c.salvage = <<>> /\ Alike(c, d)
      BY <3>1, <3>3, <3>4, <3>5, Zenon DEF Session, Alike
    <3>7. Soft(n)
      BY <2>1, <2>4, <3>6, Softens, Zenon DEF Has, d
    <3>8. Spared(n)
      BY <2>0, <2>1, <2>4, <3>6, Spares, Zenon DEF Has, d
    <3> QED BY <3>7, <3>8, Zenon
  <2> QED BY <2>3, <2>4, Zenon
<1>3. /\ key' = key /\ sending' = sending /\ sent' = sent /\ late' = late /\ got' = got
      /\ queue' = [queue EXCEPT ![n] = IF waited[n] >= pendingMaxAge THEN <<>> ELSE @]
  BY Zenon DEF Tick, Age, reapStalePending
<1>4. /\ queue' \in [Node -> Seq(Packet)] /\ (\A m \in Node : m # n => queue'[m] = queue[m])
      /\ queue'[n] \in {<<>>, queue[n]}
  <2>1. <<>> \in Seq(Packet) /\ queue \in [Node -> Seq(Packet)]
    BY SMTT(30) DEF Types
  <2> QED BY <1>3, <2>1, Zenon
<1>5. pend[n] \in 0 .. MaxRekeyAttempts + 1 /\ 0 \in 0 .. MaxRekeyAttempts + 1
      /\ pend \in [Node -> 0 .. MaxRekeyAttempts + 1] /\ reset \in [Node -> {"no", "due", "cooling"}]
  BY BoundAssumption, SMTT(30) DEF Types
<1>6. reset' \in [Node -> {"no", "due", "cooling"}]
  BY <1>5, Zenon DEF Tick, onRekeyGaveUp
<1>7. pend' \in [Node -> 0 .. MaxRekeyAttempts + 1]
  <2>1. MarkPendingRekey(pend[n], FALSE) \in 0 .. MaxRekeyAttempts + 1
    BY <1>5, MarkFits, Zenon
  <2>2. \/ pend' = pend \/ pend' = [pend EXCEPT ![n] = 0]
        \/ pend' = [pend EXCEPT ![n] = MarkPendingRekey(pend[n], FALSE)]
    BY <1>5, Zenon DEF Tick
  <2> DEFINE c == MarkPendingRekey(pend[n], FALSE)
  <2> HIDE DEF c
  <2> QED BY <1>5, <2>1, <2>2, Zenon DEF c
<1>8. \E out \in Seq(Frame) : (\A f \in Els(out) : f.t # "pils") /\ Transmit(n, FALSE, out)
  <2>1. CASE chan' = chan
    <3>1. Transmit(n, FALSE, <<>>)
      BY <2>1, StillNet, Zenon
    <3> QED BY <3>1, Nothing, Zenon
  <2>2. CASE Transmit(n, FALSE, SendKeyExchangeToNode(n, Has(n), pend[n], due[n]))
    <3> DEFINE x == SendKeyExchangeToNode(n, Has(n), pend[n], due[n])
    <3>1. x \in Seq(Frame) /\ (\A f \in Els(x) : f.t # "pils")
      BY <1>1, KeyOut, Zenon
    <3> HIDE DEF x
    <3> QED BY <2>2, <3>1, Zenon DEF x
  <2> QED BY <2>1, <2>2, Zenon DEF Tick
<1>9. PICK out \in Seq(Frame) : (\A f \in Els(out) : f.t # "pils") /\ Transmit(n, FALSE, out)
  BY <1>8, Zenon
<1> DEFINE took == FALSE
<1>10. took \in BOOLEAN /\ (took => chan[n] # <<>>) /\ Transmit(n, took, out)
  BY <1>9, Zenon
<1> HIDE DEF took
<1> QED BY <1>2, <1>3, <1>4, <1>6, <1>7, <1>9, <1>10, CalmStep, Zenon

(* A handler that consumes the head and sends at most a key exchange.      *)
Consumes(n) ==
  \E out \in Seq(Frame) : (\A f \in Els(out) : f.t # "pils") /\ Transmit(n, TRUE, out)

LEMMA ConsumeStep ==
  ASSUME Types, Ways, NEW n \in Node, chan[n] # <<>>, Consumes(n), Soft(n), key' = key, sending' = sending,
         sent' = sent, late' = late, queue' = queue, reset' = reset,
         pend' \in [Node -> 0 .. MaxRekeyAttempts + 1], Screens(n)
  PROVE  IInv'
<1>1. PICK out \in Seq(Frame) : (\A f \in Els(out) : f.t # "pils") /\ Transmit(n, TRUE, out)
  BY Zenon DEF Consumes
<1> DEFINE took == TRUE
<1>2. took \in BOOLEAN /\ (took => chan[n] # <<>>) /\ Transmit(n, took, out) /\ took
  BY <1>1, Zenon
<1>3. took /\ Screens(n)
  BY <1>2, Zenon
<1> HIDE DEF took
<1>4. /\ queue' \in [Node -> Seq(Packet)] /\ (\A m \in Node : m # n => queue'[m] = queue[m])
      /\ queue'[n] \in {<<>>, queue[n]} /\ reset' \in [Node -> {"no", "due", "cooling"}]
  BY Zenon DEF Types
<1> QED BY <1>1, <1>2, <1>3, <1>4, CalmStep, Zenon

LEMMA ConsumesNothing ==
  ASSUME NEW n \in Node, Transmit(n, TRUE, <<>>)
  PROVE  Consumes(n)
  BY Nothing, Zenon DEF Consumes

LEMMA ConsumesKey ==
  ASSUME NEW n \in Node, key[n] \in Nat \ {0}, NEW has, NEW a, NEW d,
         Transmit(n, TRUE, SendKeyExchangeToNode(n, has, a, d))
  PROVE  Consumes(n)
<1> DEFINE x == SendKeyExchangeToNode(n, has, a, d)
<1>1. x \in Seq(Frame) /\ (\A f \in Els(x) : f.t # "pils")
  BY KeyOut, Zenon
<1> HIDE DEF x
<1> QED BY <1>1, Zenon DEF Consumes, x

LEMMA Requests ==
  ASSUME Types, NEW n \in Node, RequestRekey(n)
  PROVE  Consumes(n) /\ pend' \in [Node -> 0 .. MaxRekeyAttempts + 1]
<1>1. pend \in [Node -> 0 .. MaxRekeyAttempts + 1]
  BY Zenon DEF Types
<1>2. CASE asked[n]
  BY <1>1, <1>2, ConsumesNothing, Zenon DEF RequestRekey
<1>3. CASE ~asked[n]
  <2> DEFINE c == MarkPendingRekey(pend[n], gaveUp[n])
  <2>1. Transmit(n, TRUE, SendKeyExchangeToNode(n, FALSE, pend[n], TRUE)) /\ pend' = [pend EXCEPT ![n] = c]
    BY <1>3, Zenon DEF RequestRekey
  <2>2. c \in 0 .. MaxRekeyAttempts + 1
    BY <1>1, MarkFits, Zenon
  <2> HIDE DEF c
  <2>3. key[n] \in Nat \ {0}
    BY Keys, Zenon
  <2>4. Consumes(n)
    BY <2>1, <2>3, ConsumesKey, Zenon
  <2> QED BY <1>1, <2>1, <2>2, <2>4, Zenon
<1> QED BY <1>2, <1>3, Zenon

LEMMA Rejects ==
  ASSUME Types, NEW n \in Node, Has(n), NEW c \in Session, NEW drop, Rejected(n, c, drop),
         c.peer = crypto[n].peer, c.salvage = crypto[n].salvage, Alike(c, crypto[n]), got' = got
  PROVE  Consumes(n) /\ pend' \in [Node -> 0 .. MaxRekeyAttempts + 1] /\ Soft(n) /\ Screens(n)
<1>1. CASE drop
  <2>1. RequestRekey(n) /\ crypto' = [crypto EXCEPT ![n] = NoCrypto]
    BY <1>1, Zenon DEF Rejected
  <2>2. Consumes(n) /\ pend' \in [Node -> 0 .. MaxRekeyAttempts + 1]
    BY <2>1, Requests, Zenon
  <2>3. Soft(n)
    BY <2>1, Softens, Zenon
  <2>4. Spared(n)
    BY <2>1, Spares, Zenon
  <2> QED BY <2>2, <2>3, <2>4, Zenon DEF Screens
<1>2. CASE ~drop
  <2>1. Transmit(n, TRUE, <<>>) /\ crypto' = [crypto EXCEPT ![n] = c] /\ pend' = pend
    BY <1>2, Zenon DEF Rejected
  <2>2. Consumes(n)
    BY <2>1, ConsumesNothing, Zenon
  <2>3. pend' \in [Node -> 0 .. MaxRekeyAttempts + 1]
    BY <2>1, Zenon DEF Types
  <2>4. Soft(n)
    BY <2>1, Softens, Zenon
  <2>5. Spared(n)
    BY <2>1, Spares, Zenon
  <2> QED BY <2>2, <2>3, <2>4, <2>5, Zenon DEF Screens
<1> QED BY <1>1, <1>2, Zenon

LEMMA RejectFits ==
  ASSUME NEW x \in Session
  PROVE  /\ LET c == [x EXCEPT !.fails = IF @ < DropThreshold THEN @ + 1 ELSE @]
            IN  c \in Session /\ c.peer = x.peer /\ c.salvage = x.salvage /\ Alike(c, x)
         /\ LET c == [x EXCEPT !.rejects = IF @ < DropThreshold THEN @ + 1 ELSE @]
            IN  c \in Session /\ c.peer = x.peer /\ c.salvage = x.salvage /\ Alike(c, x)
<1> DEFINE v == IF x.fails < DropThreshold THEN x.fails + 1 ELSE x.fails
           w == IF x.rejects < DropThreshold THEN x.rejects + 1 ELSE x.rejects
<1>1. x.fails \in 0 .. DropThreshold /\ x.rejects \in 0 .. DropThreshold
  BY Zenon DEF Session
<1>2. v \in 0 .. DropThreshold /\ w \in 0 .. DropThreshold
  BY <1>1, BoundAssumption, SMTT(30)
<1> HIDE DEF v, w
<1> DEFINE R == 0 .. DropThreshold
           U == [Packet -> Nat]
           S == [peer : Nat \ {0}, ctr : Nat, seen : SUBSET Nat, rejects : R, fails : R, age : 0 .. 2,
                 salvage : Seq(Packet), up : U]
<1>3. x \in S /\ v \in R /\ w \in R
  BY <1>2, Zenon DEF Session
<1> HIDE DEF R, U
<1>4. [x EXCEPT !.fails = v] \in S /\ [x EXCEPT !.fails = v].peer = x.peer
      /\ [x EXCEPT !.fails = v].salvage = x.salvage /\ Alike([x EXCEPT !.fails = v], x)
  BY <1>3, Zenon DEF Alike
<1>5. [x EXCEPT !.rejects = w] \in S /\ [x EXCEPT !.rejects = w].peer = x.peer
      /\ [x EXCEPT !.rejects = w].salvage = x.salvage /\ Alike([x EXCEPT !.rejects = w], x)
  BY <1>3, Zenon DEF Alike
<1> QED BY <1>4, <1>5, Zenon DEF Session, R, U, v, w

LEMMA OpenFits ==
  ASSUME NEW x \in Session, NEW f, f.c \in Nat, f.p \in Packet
  PROVE  LET d == Took(x, f)
         IN  /\ d \in Session /\ d.peer = x.peer /\ d.salvage = x.salvage
             /\ d.seen = x.seen \cup {f.c} /\ d.up = [x.up EXCEPT ![f.p] = @ + 1]
<1> DEFINE e == f.c
           p == f.p
           u == x.seen \cup {e}
           y == x.up
           z == [y EXCEPT ![p] = y[p] + 1]
           R == 0 .. DropThreshold
           U == [Packet -> Nat]
           S == [peer : Nat \ {0}, ctr : Nat, seen : SUBSET Nat, rejects : R, fails : R, age : 0 .. 2,
                 salvage : Seq(Packet), up : U]
<1>1. x \in S /\ e \in Nat /\ p \in Packet
  BY Zenon DEF Session
<1> HIDE DEF e, p
<1>2. u \in SUBSET Nat /\ y \in U
  BY <1>1, Zenon
<1>3. 0 \in R
  BY BoundAssumption, SMTT(30)
<1> HIDE DEF y
<1>4. z \in U
  BY <1>1, <1>2, SMTT(30)
<1> HIDE DEF u, z, R, U
<1> DEFINE d == [x EXCEPT !.seen = u, !.rejects = 0, !.fails = 0, !.up = z]
<1>5. d \in S /\ d.peer = x.peer /\ d.salvage = x.salvage /\ d.seen = u /\ d.up = z
  BY <1>1, <1>2, <1>3, <1>4, Zenon
<1>6. Took(x, f) = d
  BY Zenon DEF Took, u, z, y, e, p
<1> HIDE DEF d
<1> QED BY <1>5, <1>6, Zenon DEF Session, R, U, u, z, y, e, p

LEMMA EncryptedStep ==
  ASSUME Types, Ways, NEW n \in Node, handleEncrypted(n)
  PROVE  IInv'
<1> DEFINE f == Head(chan[n])
           x == crypto[n]
<1>1. /\ chan[n] # <<>> /\ f.t = "pils" /\ key' = key /\ sending' = sending /\ sent' = sent /\ late' = late
      /\ queue' = queue /\ reset' = reset
      /\ NoKey(n) \/ OpenFails(n, f) \/ IsReplay(n, f) \/ Opened(n, f)
  BY Zenon DEF handleEncrypted
<1>2. f \in Frame /\ (Has(n) => x \in Session) /\ DropThreshold \in Nat
  <2>1. chan[n] \in Seq(Frame)
    BY Zenon DEF Types
  <2>2. f \in Frame
    BY <1>1, <2>1, TailFacts, Zenon
  <2>3. Has(n) => x \in Session
    BY Zenon DEF Types, Has
  <2> QED BY <2>2, <2>3, BoundAssumption, Zenon
<1>3. f.c \in Nat /\ f.p \in Packet
  BY <1>1, <1>2, Zenon DEF Frame
<1>4. Consumes(n) /\ pend' \in [Node -> 0 .. MaxRekeyAttempts + 1] /\ Soft(n) /\ Screens(n)
  <2>1. CASE NoKey(n)
    <3>1. RequestRekey(n) /\ crypto' = crypto /\ got' = got
      BY <2>1, Zenon DEF NoKey
    <3>2. Consumes(n) /\ pend' \in [Node -> 0 .. MaxRekeyAttempts + 1]
      BY <3>1, Requests, Zenon
    <3>3. Soft(n)
      BY <3>1, Softens, Zenon
    <3>4. Spared(n)
      BY <3>1, Spares, Zenon
    <3> QED BY <3>2, <3>3, <3>4, Zenon DEF Screens
  <2>2. CASE OpenFails(n, f)
    <3> DEFINE c == [crypto[n] EXCEPT !.fails = IF @ < DropThreshold THEN @ + 1 ELSE @]
    <3>1. Has(n) /\ got' = got /\ \E over \in GraceOver(c) : Rejected(n, c, ShouldDropOnDecryptFail(c, over))
      BY <2>2, Zenon DEF OpenFails
    <3>2. c \in Session /\ c.peer = crypto[n].peer /\ c.salvage = crypto[n].salvage /\ Alike(c, crypto[n])
      BY <1>2, <3>1, RejectFits, Zenon
    <3> HIDE DEF c
    <3>3. PICK over \in GraceOver(c) : Rejected(n, c, ShouldDropOnDecryptFail(c, over))
      BY <3>1, Zenon
    <3>4. Consumes(n) /\ pend' \in [Node -> 0 .. MaxRekeyAttempts + 1] /\ Soft(n) /\ Screens(n)
      BY <3>1, <3>2, <3>3, Rejects, Zenon
    <3> QED BY <3>1, <3>4, Zenon
  <2>3. CASE IsReplay(n, f)
    <3> DEFINE c == [crypto[n] EXCEPT !.rejects = IF @ < DropThreshold THEN @ + 1 ELSE @]
    <3>1. Has(n) /\ got' = got /\ \E over \in GraceOver(c) : Rejected(n, c, ShouldDropOnReplay(c, over))
      BY <2>3, Zenon DEF IsReplay
    <3>2. c \in Session /\ c.peer = crypto[n].peer /\ c.salvage = crypto[n].salvage /\ Alike(c, crypto[n])
      BY <1>2, <3>1, RejectFits, Zenon
    <3> HIDE DEF c
    <3>3. PICK over \in GraceOver(c) : Rejected(n, c, ShouldDropOnReplay(c, over))
      BY <3>1, Zenon
    <3>4. Consumes(n) /\ pend' \in [Node -> 0 .. MaxRekeyAttempts + 1] /\ Soft(n) /\ Screens(n)
      BY <3>1, <3>2, <3>3, Rejects, Zenon
    <3> QED BY <3>1, <3>4, Zenon
  <2>4. CASE Opened(n, f)
    <3>1. /\ Has(n) /\ f.to = key[n] /\ got' = [got EXCEPT ![n][f.p] = @ + 1] /\ Transmit(n, TRUE, <<>>)
          /\ pend' = [pend EXCEPT ![n] = 0] /\ f.k = crypto[n].peer /\ f.c \notin crypto[n].seen
          /\ crypto' = [crypto EXCEPT ![n] = Took(crypto[n], f)]
      BY <2>4, Zenon DEF Opened
    <3> DEFINE c == Took(x, f)
    <3>3. /\ c \in Session /\ c.peer = x.peer /\ c.salvage = x.salvage
          /\ c.seen = x.seen \cup {f.c} /\ c.up = [x.up EXCEPT ![f.p] = @ + 1]
      <4>1. x \in Session
        BY <1>2, <3>1, Zenon
      <4> HIDE DEF x, f
      <4> QED BY <1>3, <4>1, OpenFits, Zenon
    <3>2. crypto' = [crypto EXCEPT ![n] = c] /\ crypto'[n] = c
      <4>1. crypto \in [Node -> Session \cup {NoCrypto}]
        BY Zenon DEF Types
      <4> QED BY <3>1, <4>1, Zenon
    <3> HIDE DEF c
    <3>4. Soft(n)
      BY <3>1, <3>2, <3>3, Softens, Zenon
    <3>7. Opens(crypto[n], crypto'[n], f)
      BY <3>1, <3>2, <3>3, Zenon DEF Opens
    <3>8. Screens(n)
      <4>1. /\ f.t = "pils" /\ f.to = key[n] /\ got' = [got EXCEPT ![n][f.p] = @ + 1]
            /\ Has(n) /\ Opens(crypto[n], crypto'[n], f)
        BY <1>1, <3>1, <3>7, Zenon
      <4> HIDE DEF Has, Opens
      <4> QED BY <4>1, Zenon DEF Screens
    <3>5. pend' \in [Node -> 0 .. MaxRekeyAttempts + 1]
      BY <3>1, BoundAssumption, SMTT(30) DEF Types
    <3>6. Consumes(n)
      BY <3>1, ConsumesNothing, Zenon
    <3> QED BY <3>4, <3>5, <3>6, <3>8, Zenon
  <2> QED BY <1>1, <2>1, <2>2, <2>3, <2>4, Zenon
<1> QED BY <1>1, <1>4, ConsumeStep, Zenon


-----------------------------------------------------------------------------
(* The network, and a restart.                                             *)

(* The network moves frames to n and adds none that carries a packet.      *)
LEMMA NetStep ==
  ASSUME Types, Ways, NEW n \in Node, NetUnchanged, NEW s \in Seq(Frame), NEW lt \in SUBSET Frame,
         chan' = [chan EXCEPT ![n] = s], late' = [late EXCEPT ![n] = lt], Spread(s, lt),
         \A f \in Els(s) \cup lt : f.t = "pils" => f \in Flying(n)
  PROVE  IInv'
<1> DEFINE b == Peer(n)
<1>1. b \in Node /\ b # n /\ Node = {n, b} /\ Peer(b) = n
  BY Peers, Zenon
<1>2. chan \in [Node -> Seq(Frame)] /\ late \in [Node -> SUBSET Frame]
  BY Zenon DEF Types
<1>3. chan'[n] = s /\ late'[n] = lt /\ chan'[b] = chan[b] /\ late'[b] = late[b]
      /\ chan' \in [Node -> Seq(Frame)] /\ late' \in [Node -> SUBSET Frame]
  BY <1>1, <1>2, Zenon
<1>4. Types'
  BY <1>3, Zenon DEF Types, NetUnchanged
<1>5. \A m \in Node : SentBy(m)' = SentBy(m) /\ sending'[m] = sending[m] /\ queue'[m] = queue[m]
         /\ Salvage(m)' = Salvage(m) /\ crypto'[m].peer = crypto[m].peer /\ got'[m] = got[m] /\ key'[m] = key[m]
  BY Zenon DEF NetUnchanged, SentBy, Salvage, Has
<1>6. Flying(b)' = Flying(b) /\ Flying(n)' = Els(s) \cup lt
  BY <1>3, Zenon DEF Flying
<1>7. Hold(SentBy(n), sending[n], queue[n], Salvage(n), crypto[n].peer, Flying(b), got[b], key[b])
      /\ Hold(SentBy(b), sending[b], queue[b], Salvage(b), crypto[b].peer, Flying(n), got[n], key[n])
      /\ Spread(chan[b], late[b]) /\ Twins(Flying(n)) /\ Twins(Flying(b))
      /\ (Has(n) => Screened(crypto[n], got[n], key[n], Flying(n)))
      /\ (Has(b) => Screened(crypto[b], got[b], key[b], Flying(b)))
  BY <1>1, Zenon DEF Ways
<1>8. /\ Hold(SentBy(b), sending[b], queue[b], Salvage(b), crypto[b].peer, Els(s) \cup lt, got[n], key[n])
      /\ Twins(Els(s) \cup lt) /\ (Has(n) => Screened(crypto[n], got[n], key[n], Els(s) \cup lt))
  <2> DEFINE V == Els(s) \cup lt
  <2>1. \A f \in V : f.t = "pils" => f \in Flying(n)
    BY Zenon
  <2> HIDE DEF V
  <2>2. Hold(SentBy(b), sending[b], queue[b], Salvage(b), crypto[b].peer, V, got[n], key[n])
    BY <1>7, <2>1, HoldFrames, Zenon
  <2>3. Twins(V)
    BY <1>7, <2>1, TwinsGo, Zenon
  <2>4. ASSUME Has(n) PROVE Screened(crypto[n], got[n], key[n], V)
    <3> DEFINE t == crypto[n]
    <3>1. Screened(t, got[n], key[n], Flying(n)) /\ Alike(t, t)
      BY <1>7, <2>4, Zenon DEF Alike
    <3> HIDE DEF t
    <3>2. Screened(t, got[n], key[n], V)
      BY <2>1, <3>1, ScreenKeeps, Zenon
    <3> QED BY <3>2, Zenon DEF t
  <2> QED BY <2>2, <2>3, <2>4, Zenon DEF V
<1>9. Peer(n) = b
  BY Zenon
<1> HIDE DEF b
<1>10. Ways'
  <2>1. Hold(SentBy(n)', sending'[n], queue'[n], Salvage(n)', crypto'[n].peer, Flying(b)', got'[b], key'[b])
    BY <1>1, <1>5, <1>6, <1>7, Zenon
  <2>2. Hold(SentBy(b)', sending'[b], queue'[b], Salvage(b)', crypto'[b].peer, Flying(n)', got'[n], key'[n])
    BY <1>1, <1>5, <1>6, <1>8, Zenon
  <2>3. Spread(chan'[n], late'[n]) /\ Spread(chan'[b], late'[b])
    BY <1>3, <1>7, Zenon
  <2>4. Twins(Flying(n)') /\ Twins(Flying(b)')
    BY <1>6, <1>7, <1>8, Zenon
  <2>5. /\ (Has(n)' => Screened(crypto'[n], got'[n], key'[n], Flying(n)'))
        /\ (Has(b)' => Screened(crypto'[b], got'[b], key'[b], Flying(b)'))
    <3>1. crypto' = crypto /\ got' = got /\ key' = key
      BY Zenon DEF NetUnchanged
    <3> QED BY <1>6, <1>7, <1>8, <3>1, Zenon DEF Has
  <2> QED BY <1>1, <1>9, <2>1, <2>2, <2>3, <2>4, <2>5, Zenon DEF Ways
<1> QED BY <1>4, <1>10, Zenon DEF IInv

LEMMA NetworkStep ==
  ASSUME Types, Ways, NEW n \in Node, Lose(n) \/ Delay(n) \/ Arrive(n) \/ RelayCopy(n)
  PROVE  IInv'
<1> DEFINE s == chan[n]
           lt == late[n]
<1>1. chan \in [Node -> Seq(Frame)] /\ late \in [Node -> SUBSET Frame]
      /\ s \in Seq(Frame) /\ lt \in SUBSET Frame /\ Spread(s, lt) /\ Flying(n) = Els(s) \cup lt
  BY Zenon DEF Types, Ways, Flying
<1>2. late = [late EXCEPT ![n] = lt]
  BY <1>1, Zenon
<1>3. NetUnchanged
  BY Zenon DEF Lose, Delay, Arrive, RelayCopy
<1>4. CASE Lose(n)
  <2>1. s # <<>> /\ chan' = [chan EXCEPT ![n] = Tail(s)] /\ late' = late
    BY <1>4, Zenon DEF Lose
  <2> DEFINE u == Tail(s)
  <2>2. u \in Seq(Frame) /\ Spread(u, lt) /\ Els(u) \subseteq Els(s)
    BY <1>1, <2>1, SpreadTail, Zenon
  <2>3. \A f \in Els(u) \cup lt : f.t = "pils" => f \in Flying(n)
    BY <1>1, <2>2, Zenon
  <2>4. chan' = [chan EXCEPT ![n] = u] /\ late' = [late EXCEPT ![n] = lt]
    BY <1>2, <2>1, Zenon
  <2> HIDE DEF u, s, lt
  <2> QED BY <1>1, <1>3, <2>2, <2>3, <2>4, NetStep, Zenon
<1>5. CASE Delay(n)
  <2>1. s # <<>> /\ chan' = [chan EXCEPT ![n] = Tail(s)] /\ late' = [late EXCEPT ![n] = lt \cup {Head(s)}]
    BY <1>5, Zenon DEF Delay
  <2> DEFINE u == Tail(s)
             v == lt \cup {Head(s)}
  <2>2. u \in Seq(Frame) /\ Spread(u, v) /\ Els(s) = {Head(s)} \cup Els(u) /\ Head(s) \in Frame
    BY <1>1, <2>1, SpreadTail, Zenon
  <2>3. \A f \in Els(u) \cup v : f.t = "pils" => f \in Flying(n)
    BY <1>1, <2>2, Zenon
  <2>4. chan' = [chan EXCEPT ![n] = u] /\ late' = [late EXCEPT ![n] = v] /\ v \in SUBSET Frame
    BY <1>1, <2>1, <2>2, Zenon
  <2> HIDE DEF u, v, s, lt
  <2> QED BY <1>3, <2>2, <2>3, <2>4, NetStep, Zenon
<1>6. CASE Arrive(n)
  <2>1. PICK f \in lt : late' = [late EXCEPT ![n] = lt \ {f}] /\ chan' = [chan EXCEPT ![n] = <<f>> \o s]
    BY <1>6, Zenon DEF Arrive
  <2> DEFINE u == <<f>> \o s
             v == lt \ {f}
  <2>2. u \in Seq(Frame) /\ Spread(u, v) /\ Els(u) = {f} \cup Els(s)
    BY <1>1, SpreadArrives, Zenon
  <2>3. \A h \in Els(u) \cup v : h.t = "pils" => h \in Flying(n)
    BY <1>1, <2>2, Zenon
  <2>4. chan' = [chan EXCEPT ![n] = u] /\ late' = [late EXCEPT ![n] = v] /\ v \in SUBSET Frame
    BY <1>1, <2>1, Zenon
  <2> HIDE DEF u, v, s, lt
  <2> QED BY <1>3, <2>2, <2>3, <2>4, NetStep, Zenon
<1>7. CASE RelayCopy(n)
  <2> DEFINE x == Head(s)
             out == <<x>>
             u == s \o out
  <2>1. s # <<>> /\ (x.t = "pils" => x.p \in Echoed) /\ chan' = [chan EXCEPT ![n] = u] /\ late' = late
    BY <1>7, Zenon DEF RelayCopy
  <2>2. x \in Frame /\ x \in Els(s)
    BY <1>1, <2>1, TailFacts, ElsTail, Zenon
  <2> HIDE DEF x
  <2>3. out \in Seq(Frame) /\ Els(out) = {x}
    <3>1. Els(<<x>>) = {x}
      BY ElsOne, Zenon
    <3> QED BY <2>2, <3>1, SMTT(30)
  <2> HIDE DEF out
  <2>4. Apart(out) /\ \A f \in Els(out) : \A h : ~Clash(f, h) /\ ~Clash(h, f)
    <3>1. \A i \in 1 .. Len(out) : out[i] \in Els(out)
      BY Zenon DEF Els
    <3> QED BY <2>1, <2>3, <3>1, Zenon DEF Apart, Clash, Same
  <2> HIDE DEF s, lt
  <2>5. Spread(u, lt) /\ Els(u) = Els(s) \cup Els(out) /\ u \in Seq(Frame)
    BY <1>1, <2>3, <2>4, SpreadSends, Zenon
  <2>6. \A f \in Els(u) \cup lt : f.t = "pils" => f \in Flying(n)
    BY <1>1, <2>2, <2>3, <2>5, Zenon
  <2>7. late' = [late EXCEPT ![n] = lt]
    BY <1>2, <2>1, Zenon
  <2> HIDE DEF u
  <2> QED BY <1>1, <1>3, <2>1, <2>5, <2>6, <2>7, NetStep, Zenon
<1> QED BY <1>4, <1>5, <1>6, <1>7, Zenon

LEMMA Sends ==
  ASSUME Types, NEW n \in Node
  PROVE  SentBy(n) \subseteq Packet /\ sent[n] \in Nat /\ SendBound[n] \in Nat
<1>1. sent[n] \in Nat /\ SendBound[n] \in Nat /\ sent[n] <= SendBound[n]
  BY BoundAssumption, Zenon DEF Types
<1>2. \A i \in 1 .. sent[n] : i \in 1 .. SendBound[n]
  BY <1>1, SMTT(30)
<1> QED BY <1>1, <1>2, SMTT(30) DEF SentBy, Packet

LEMMA RestartStep ==
  ASSUME Types, Ways, NEW n \in Node, Restart(n)
  PROVE  IInv'
<1> DEFINE b == Peer(n)
<1>1. b \in Node /\ b # n /\ Node = {n, b} /\ Peer(b) = n
  BY Peers, Zenon
<1>2. /\ key[n] < MaxKey[n] /\ key' = [key EXCEPT ![n] = @ + 1] /\ crypto' = [crypto EXCEPT ![n] = NoCrypto]
      /\ pend' = [pend EXCEPT ![n] = 0] /\ reset' = [reset EXCEPT ![n] = "no"]
      /\ queue' = [queue EXCEPT ![n] = <<>>] /\ sending' = [sending EXCEPT ![n] = <<>>]
      /\ got' = [got EXCEPT ![n] = [p \in Packet |-> 0]] /\ sent' = sent /\ chan' = chan /\ late' = late
  BY Zenon DEF Restart
<1>3. Types'
  <2>1. key' \in [Node -> Nat] /\ \A m \in Node : key'[m] \in 1 .. MaxKey'[m]
    <3>1. key \in [Node -> Nat] /\ \A m \in Node : key[m] \in 1 .. MaxKey[m] /\ MaxKey[m] \in Nat
      BY BoundAssumption, Zenon DEF Types
    <3>2. key[n] + 1 \in 1 .. MaxKey[n] /\ key[n] + 1 \in Nat
      BY <1>2, <3>1, SMTT(30)
    <3> QED BY <1>2, <3>1, <3>2, Zenon
  <2>2. crypto' \in [Node -> Session \cup {NoCrypto}]
    BY <1>2, Zenon DEF Types
  <2>3. pend' \in [Node -> 0 .. MaxRekeyAttempts + 1] /\ reset' \in [Node -> {"no", "due", "cooling"}]
    BY <1>2, BoundAssumption, SMTT(30) DEF Types
  <2>4. <<>> \in Seq(Packet) /\ Len(<<>>) = 0 /\ 0 <= maxPendingPerPeer
    BY BoundAssumption, SMTT(30)
  <2>5. queue' \in [Node -> Seq(Packet)] /\ sending' \in [Node -> Seq(Packet)]
        /\ \A m \in Node : Len(queue'[m]) <= maxPendingPerPeer
    BY <1>2, <2>4, Zenon DEF Types
  <2>6. got' \in [Node -> [Packet -> Nat]]
    <3>1. [p \in Packet |-> 0] \in [Packet -> Nat]
      BY Zenon
    <3> QED BY <1>2, <3>1, Zenon DEF Types
  <2> QED BY <1>2, <2>1, <2>2, <2>3, <2>5, <2>6, Zenon DEF Types
<1>4. /\ crypto'[n] = NoCrypto /\ queue'[n] = <<>> /\ sending'[n] = <<>> /\ got'[n] = [p \in Packet |-> 0]
      /\ crypto'[b] = crypto[b] /\ queue'[b] = queue[b] /\ sending'[b] = sending[b] /\ got'[b] = got[b]
      /\ key'[b] = key[b]
  BY <1>1, <1>2, Zenon DEF Types
<1>5. \A m \in Node : SentBy(m)' = SentBy(m) /\ Flying(m)' = Flying(m)
  BY <1>2, Zenon DEF SentBy, Flying
<1>6. Salvage(n)' = <<>> /\ Salvage(b)' = Salvage(b)
  BY <1>4, Zenon DEF Salvage, Has
<1>7. Hold(SentBy(n), sending[n], queue[n], Salvage(n), crypto[n].peer, Flying(b), got[b], key[b])
      /\ Hold(SentBy(b), sending[b], queue[b], Salvage(b), crypto[b].peer, Flying(n), got[n], key[n])
      /\ Spread(chan[b], late[b]) /\ Spread(chan[n], late[n]) /\ Twins(Flying(n)) /\ Twins(Flying(b))
      /\ (Has(b) => Screened(crypto[b], got[b], key[b], Flying(b)))
  BY <1>1, Zenon DEF Ways
<1>8. Peer(n) = b
  BY Zenon
<1> HIDE DEF b
<1>9. Hold(SentBy(n)', sending'[n], queue'[n], Salvage(n)', crypto'[n].peer, Flying(b)', got'[b], key'[b])
  <2>1. Once(<<>>) /\ Els(<<>>) = {}
    BY SMTT(30) DEF Once, Els
  <2> DEFINE e == <<>>
             j == crypto'[n].peer
  <2>2. Once(e) /\ Els(e) = {}
    BY <2>1, Zenon
  <2> HIDE DEF e, j
  <2>3. Hold(SentBy(n), e, e, e, j, Flying(b), got[b], key[b])
    BY <1>7, <2>2, HoldForgets, Zenon
  <2> QED BY <1>1, <1>4, <1>5, <1>6, <2>3, Zenon DEF e, j
<1>10. Hold(SentBy(b)', sending'[b], queue'[b], Salvage(b)', crypto'[b].peer, Flying(n)', got'[n], key'[n])
  <2> DEFINE h == got'[n]
             i == key'[n]
  <2>1. \A p \in Packet : h[p] = 0
    BY <1>4, Zenon
  <2>2. SentBy(b) \subseteq Packet
    BY <1>1, Sends, Zenon
  <2> HIDE DEF h, i
  <2>3. Hold(SentBy(b), sending[b], queue[b], Salvage(b), crypto[b].peer, Flying(n), h, i)
    BY <1>7, <2>1, <2>2, HoldRestarts, Zenon
  <2> QED BY <1>1, <1>4, <1>5, <1>6, <2>3, Zenon DEF h, i
<1>11. Spread(chan'[n], late'[n]) /\ Spread(chan'[b], late'[b])
  BY <1>2, <1>7, Zenon
<1>12. Twins(Flying(n)') /\ Twins(Flying(b)') /\ ~Has(n)'
       /\ (Has(b)' => Screened(crypto'[b], got'[b], key'[b], Flying(b)'))
  BY <1>1, <1>4, <1>5, <1>7, Zenon DEF Has
<1> QED BY <1>1, <1>3, <1>8, <1>9, <1>10, <1>11, <1>12, Zenon DEF Ways, IInv


-----------------------------------------------------------------------------
(* The actions that take packets in and seal them.                         *)

LEMMA OnceAppend ==
  ASSUME NEW S, NEW s \in Seq(S), NEW x \in S, Once(s), x \notin Els(s)
  PROVE  Once(Append(s, x))
<1> DEFINE t == <<x>>
<1>1. t \in Seq(S) /\ Append(s, x) = s \o t
  BY SMTT(30)
<1>2. Once(t) /\ Els(t) = {x}
  BY ElsOne, Zenon
<1> HIDE DEF t
<1>3. Once(s \o t)
  BY <1>1, <1>2, OnceCat, Zenon
<1> QED BY <1>1, <1>3, Zenon

LEMMA EnqueueStep ==
  ASSUME Types, Ways, NEW n \in Node, Enqueue(n)
  PROVE  IInv'
<1> DEFINE b == Peer(n)
           sd == sending[n]
           q == queue[n]
           x == Head(sd)
           sd2 == Tail(sd)
           q2 == IF HasRoom(q) THEN Append(q, x) ELSE q
<1>1. b \in Node /\ b # n
  BY Peers, Zenon
<1>2. /\ sd # <<>> /\ sending' = [sending EXCEPT ![n] = sd2] /\ queue' = [queue EXCEPT ![n] = q2]
      /\ key' = key /\ crypto' = crypto /\ pend' = pend /\ reset' = reset /\ sent' = sent /\ got' = got
      /\ chan' = chan /\ late' = late
  BY Zenon DEF Enqueue
<1>3. sending \in [Node -> Seq(Packet)] /\ queue \in [Node -> Seq(Packet)] /\ sd \in Seq(Packet) /\ q \in Seq(Packet)
      /\ Len(q) <= maxPendingPerPeer
  BY Zenon DEF Types
<1>4. Hold(SentBy(n), sd, q, Salvage(n), crypto[n].peer, Flying(b), got[b], key[b])
  BY Zenon DEF Ways
<1>5. Once(sd) /\ Once(q) /\ Els(sd) \cap Els(q) = {}
  BY <1>4, Zenon DEF Hold
<1> HIDE DEF b, sd, q
<1>6. x \in Packet /\ sd2 \in Seq(Packet)
  BY <1>2, <1>3, TailFacts, Zenon
<1>7. Els(sd2) \subseteq Els(sd) /\ x \in Els(sd)
  BY <1>2, <1>3, ElsTail, Zenon
<1>8. Once(sd2) /\ x \notin Els(sd2)
  BY <1>2, <1>3, <1>5, OnceTail, Zenon
<1> HIDE DEF x, sd2
<1>9. q2 \in Seq(Packet) /\ Els(q2) \subseteq Els(q) \cup {x} /\ Once(q2) /\ Len(q2) <= maxPendingPerPeer
  <2>1. CASE HasRoom(q)
    <3>1. Append(q, x) \in Seq(Packet) /\ Len(Append(q, x)) = Len(q) + 1 /\ Len(q) \in Nat
      BY <1>3, <1>6, SMTT(30)
    <3>2. Els(Append(q, x)) = Els(q) \cup {x}
      BY <1>3, <1>6, Appended, SMTT(30)
    <3>3. x \notin Els(q)
      BY <1>5, <1>7, Zenon
    <3>4. Once(Append(q, x))
      BY <1>3, <1>5, <1>6, <3>3, OnceAppend, Zenon
    <3>5. Len(Append(q, x)) <= maxPendingPerPeer
      BY <2>1, <3>1, BoundAssumption, SMTT(30) DEF HasRoom
    <3> QED BY <2>1, <3>1, <3>2, <3>4, <3>5, Zenon
  <2>2. CASE ~HasRoom(q)
    BY <1>3, <1>5, <2>2, Zenon
  <2> QED BY <2>1, <2>2, Zenon
<1> HIDE DEF q2
<1>10. Types'
  <2>1. sending' \in [Node -> Seq(Packet)]
    BY <1>2, <1>3, <1>6, Zenon
  <2>2. queue' \in [Node -> Seq(Packet)] /\ \A m \in Node : Len(queue'[m]) <= maxPendingPerPeer
    BY <1>2, <1>3, <1>9, Zenon DEF Types
  <2> QED BY <1>2, <2>1, <2>2, Zenon DEF Types
<1>11. Hold(SentBy(n), sd2, q2, Salvage(n), crypto[n].peer, Flying(b), got[b], key[b])
  BY <1>4, <1>7, <1>8, <1>9, HoldQueues, Zenon
<1>12. sending'[n] = sd2 /\ queue'[n] = q2 /\ Still(b)
  BY <1>1, <1>2, <1>3, Zenon DEF Still
<1>13. SentBy(n)' = SentBy(n) /\ Salvage(n)' = Salvage(n)
  BY <1>2, Zenon DEF SentBy, Salvage, Has
<1>14. Hold(SentBy(n)', sending'[n], queue'[n], Salvage(n)', crypto'[n].peer, Flying(b), got[b], key[b])
  BY <1>2, <1>11, <1>12, <1>13, Zenon
<1>15. Ways'
  <2> DEFINE out == <<>>
  <2>1. out \in Seq(Frame) /\ (\A f \in Els(out) : f.t # "pils") /\ chan'[b] = chan[b] \o out
    <3>1. chan[b] \in Seq(Frame)
      BY <1>1, Zenon DEF Types
    <3> QED BY <1>2, <3>1, Nothing, Zenon
  <2> HIDE DEF out
  <2>2. chan'[n] = chan[n] /\ got'[n] = got[n] /\ key'[n] = key[n] /\ late' = late
    BY <1>2, Zenon
  <2>3. Takes(n)
    BY <1>2, Zenon DEF Takes, Alike, Has
  <2> QED BY <1>12, <1>14, <2>1, <2>2, <2>3, QuietStep, Zenon DEF b
<1> QED BY <1>10, <1>15, Zenon DEF IInv

(* A session that records and seals a packet.                              *)
LEMMA Records ==
  ASSUME NEW c \in Session, NEW p \in Packet, Once(c.salvage), p \notin Els(c.salvage)
  PROVE  LET r == RecordSalvage(c, p)
         IN  /\ r \in Session /\ r.peer = c.peer /\ Alike(r, c)
             /\ Once(r.salvage) /\ Els(r.salvage) \subseteq Els(c.salvage) \cup {p}
<1> DEFINE s == Append(c.salvage, p)
           v == IF Len(s) > SalvageMaxEntries THEN Tail(s) ELSE s
<1>1. c.salvage \in Seq(Packet)
  BY Real, Zenon
<1>2. s \in Seq(Packet) /\ s # <<>> /\ Els(s) = Els(c.salvage) \cup {p}
  <2> DEFINE w == c.salvage
  <2>1. w \in Seq(Packet)
    BY <1>1, Zenon
  <2> HIDE DEF w
  <2>2. Append(w, p) \in Seq(Packet) /\ Append(w, p) # <<>>
    BY <2>1, AppendFits, Zenon
  <2>3. Els(Append(w, p)) = Els(w) \cup {p}
    BY <2>1, Appended, SMTT(30)
  <2> QED BY <2>2, <2>3, Zenon DEF w
<1>3. Once(s)
  BY <1>1, OnceAppend, Zenon
<1> HIDE DEF s
<1>4. Tail(s) \in Seq(Packet) /\ Els(Tail(s)) \subseteq Els(s)
  BY <1>2, ElsTail, TailFacts, Zenon
<1>5. Once(Tail(s))
  BY <1>2, <1>3, OnceTail, Zenon
<1>6. v \in Seq(Packet) /\ Once(v) /\ Els(v) \subseteq Els(c.salvage) \cup {p}
  BY <1>2, <1>3, <1>4, <1>5, Zenon
<1>7. RecordSalvage(c, p) = [c EXCEPT !.salvage = v]
  BY Zenon DEF RecordSalvage, s
<1> HIDE DEF v
<1>8. [c EXCEPT !.salvage = v] \in Session /\ [c EXCEPT !.salvage = v].peer = c.peer
      /\ [c EXCEPT !.salvage = v].salvage = v /\ Alike([c EXCEPT !.salvage = v], c)
  BY <1>6, Zenon DEF Session, Alike
<1> QED BY <1>6, <1>7, <1>8, Zenon

LEMMA SealedFits ==
  ASSUME NEW c \in Session, NEW ps \in Seq(Packet)
  PROVE  LET r == Sealed(c, ps)
         IN  r \in Session /\ r.peer = c.peer /\ r.salvage = c.salvage /\ Alike(r, c)
<1> DEFINE v == c.ctr + Len(ps)
<1>1. v \in Nat
  BY Real, SMTT(30)
<1>2. Sealed(c, ps) = [c EXCEPT !.ctr = v]
  BY Zenon DEF Sealed
<1> HIDE DEF v
<1> QED BY <1>1, <1>2, Zenon DEF Session, Alike

LEMMA SendStep ==
  ASSUME Types, Ways, NEW n \in Node, SendTo(n)
  PROVE  IInv'
<1> DEFINE b == Peer(n)
           p == <<n, sent[n] + 1>>
           x == crypto[n]
<1>1. b \in Node /\ b # n
  BY Peers, Zenon
<1>2. sent[n] \in Nat /\ SendBound[n] \in Nat /\ sent[n] < SendBound[n] /\ SentBy(n) \subseteq Packet
  BY Sends, Zenon DEF SendTo
<1>3. p \in Packet /\ p \notin SentBy(n) /\ (sent'[n] = sent[n] + 1 => SentBy(n)' = SentBy(n) \cup {p})
  <2>1. sent[n] + 1 \in 1 .. SendBound[n] /\ sent[n] + 1 \notin 1 .. sent[n]
    BY <1>2, SMTT(30)
  <2>2. 1 .. sent[n] + 1 = 1 .. sent[n] \cup {sent[n] + 1}
    BY <1>2, SMTT(30)
  <2>3. p \in Packet
    BY <2>1, SMTT(30) DEF Packet
  <2>4. p \notin SentBy(n)
    BY <2>1, Zenon DEF SentBy
  <2>5. ASSUME sent'[n] = sent[n] + 1 PROVE SentBy(n)' = SentBy(n) \cup {p}
    BY <2>2, <2>5, Zenon DEF SentBy
  <2> QED BY <2>3, <2>4, <2>5, Zenon
<1>4. /\ sent' = [sent EXCEPT ![n] = @ + 1] /\ key' = key /\ reset' = reset /\ queue' = queue
      /\ got' = got /\ late' = late
  BY Zenon DEF SendTo
<1>5. sent' \in [Node -> Nat] /\ (\A m \in Node : sent'[m] <= SendBound'[m]) /\ sent'[n] = sent[n] + 1
      /\ sent'[b] = sent[b]
  <2>1. sent \in [Node -> Nat] /\ \A m \in Node : sent[m] <= SendBound[m]
    BY Zenon DEF Types
  <2>2. sent[n] + 1 \in Nat /\ sent[n] + 1 <= SendBound[n]
    BY <1>2, SMTT(30)
  <2> QED BY <1>1, <1>4, <2>1, <2>2, Zenon
<1>6. /\ Hold(SentBy(n), sending[n], queue[n], Salvage(n), crypto[n].peer, Flying(b), got[b], key[b])
      /\ got[b] \in [Packet -> Nat]
  BY <1>1, Zenon DEF Ways, Types
<1>7. crypto \in [Node -> Session \cup {NoCrypto}] /\ sending \in [Node -> Seq(Packet)]
      /\ pend \in [Node -> 0 .. MaxRekeyAttempts + 1] /\ chan \in [Node -> Seq(Frame)]
  BY Zenon DEF Types
<1>8. key[n] \in Nat \ {0}
  BY Keys, Zenon
<1>9. SentBy(n)' = SentBy(n) \cup {p}
  BY <1>3, <1>5, Zenon
<1>10. chan[b] \in Seq(Frame) /\ Peer(n) = b
  BY <1>1, <1>7, Zenon
<1> HIDE DEF b, p
<1>11. CASE /\ Has(n)
            /\ crypto' = [crypto EXCEPT ![n] = Sealed(RecordSalvage(@, p), <<p>>)]
            /\ Transmit(n, FALSE, Seal(n, crypto[n], <<p>>))
            /\ UNCHANGED <<pend, due, sending>>
  <2> DEFINE r == RecordSalvage(x, p)
             ps == <<p>>
             e == Sealed(r, ps)
             out == Seal(n, x, ps)
  <2>1. x \in Session /\ Salvage(n) = x.salvage
    BY <1>7, <1>11, Zenon DEF Has, Salvage
  <2>2. Once(x.salvage) /\ p \notin Els(x.salvage)
    BY <1>3, <1>6, <2>1, Zenon DEF Hold
  <2> HIDE DEF x
  <2>3. /\ r \in Session /\ r.peer = x.peer /\ Alike(r, x)
        /\ Once(r.salvage) /\ Els(r.salvage) \subseteq Els(x.salvage) \cup {p}
    BY <1>3, <2>1, <2>2, Records, Zenon
  <2>4. ps \in Seq(Packet)
    BY <1>3, SMTT(30)
  <2>5. Els(ps) = {p} /\ Once(ps)
    BY ElsOne, Zenon
  <2> HIDE DEF r, ps
  <2>6. e \in Session /\ e.peer = r.peer /\ e.salvage = r.salvage /\ Alike(e, r)
    BY <2>3, <2>4, SealedFits, Zenon
  <2>7. x.peer \in Nat /\ x.ctr \in Nat
    BY <2>1, Real, Zenon
  <2>8. out \in Seq(Frame) /\ (\A f \in Els(out) : f.t = "pils" /\ f.p \in Els(ps) /\ f.to = x.peer) /\ Apart(out)
        /\ Twins(Els(out))
    BY <1>8, <2>4, <2>5, <2>7, SealFacts, SMTT(30)
  <2>9. crypto' = [crypto EXCEPT ![n] = e] /\ Transmit(n, FALSE, out) /\ pend' = pend /\ sending' = sending
    BY <1>11, Zenon DEF r, ps, x
  <2> HIDE DEF e, out
  <2>10. /\ chan' \in [Node -> Seq(Frame)]
         /\ chan'[n] = chan[n] \/ (chan[n] # <<>> /\ chan'[n] = Tail(chan[n]))
         /\ chan'[b] = chan[b] \o out
    <3> DEFINE took == FALSE
    <3>1. took \in BOOLEAN /\ (took => chan[n] # <<>>) /\ Transmit(n, took, out)
      BY <2>9, Zenon
    <3> HIDE DEF took
    <3> QED BY <1>7, <2>8, <3>1, Transmits, Zenon DEF b
  <2>11. crypto' \in [Node -> Session \cup {NoCrypto}] /\ crypto'[n] = e /\ crypto'[b] = crypto[b]
    <3> HIDE DEF Session
    <3> QED BY <1>1, <1>7, <2>6, <2>9, Zenon
  <2>12. Types'
    BY <1>4, <1>5, <2>9, <2>10, <2>11, Zenon DEF Types
  <2>13. Salvage(n)' = e.salvage /\ crypto'[n].peer = x.peer
    <3>1. e # NoCrypto
      BY <2>6, Real, Zenon
    <3> QED BY <2>3, <2>6, <2>11, <3>1, Zenon DEF Salvage, Has
  <2>14. Hold(SentBy(n) \cup {p}, sending[n], queue[n], e.salvage, x.peer, Flying(b) \cup Els(out), got[b], key[b])
         /\ (\A f \in Els(out), h \in Flying(b) : ~Same(f, h) /\ ~Same(h, f))
         /\ \A f \in Els(out) : ~(got[b][f.p] > 0 /\ f.to = key[b])
    <3> DEFINE sv2 == e.salvage
               O == Els(out)
    <3>1. Once(sv2) /\ Els(sv2) \subseteq Els(Salvage(n)) \cup {p}
      BY <2>1, <2>3, <2>6, Zenon
    <3>2. \A f \in O : f.t = "pils" /\ f.p = p /\ f.to = x.peer
      BY <2>5, <2>8, Zenon
    <3>3. Hold(SentBy(n), sending[n], queue[n], Salvage(n), x.peer, Flying(b), got[b], key[b])
      BY <1>6, Zenon DEF x
    <3> DEFINE P == SentBy(n)
               g == got[b]
               sd == sending[n]
               q == queue[n]
               sv == Salvage(n)
               W == Flying(b)
               k == key[b]
               j == x.peer
    <3>5. g \in [Packet -> Nat] /\ p \in Packet /\ p \notin P
      BY <1>3, <1>6, Zenon
    <3>6. Once(sv2) /\ Els(sv2) \subseteq Els(sv) \cup {p}
      BY <3>1, Zenon
    <3>7. Hold(P, sd, q, sv, j, W, g, k) /\ \A f \in O : f.t = "pils" /\ f.p = p /\ f.to = j
      BY <3>2, <3>3, Zenon
    <3> HIDE DEF sv2, O, P, g, sd, q, sv, W, k, j
    <3>8. Hold(P \cup {p}, sd, q, sv2, j, W \cup O, g, k) /\ Novel(O, W, g, k)
      BY <3>5, <3>6, <3>7, HoldSeals, Zenon
    <3>4. Hold(SentBy(n) \cup {p}, sending[n], queue[n], sv2, x.peer, Flying(b) \cup O, got[b], key[b])
          /\ (\A f \in O, h \in Flying(b) : ~Same(f, h) /\ ~Same(h, f))
          /\ \A f \in O : ~(got[b][f.p] > 0 /\ f.to = key[b])
      BY <3>8, Zenon DEF P, g, sd, q, sv, W, k, j, Novel
    <3> QED BY <3>4, Zenon DEF sv2, O
  <2>15. Hold(SentBy(n)', sending'[n], queue'[n], Salvage(n)', crypto'[n].peer,
              Flying(b) \cup Els(out), got[b], key[b])
    BY <1>4, <1>9, <2>9, <2>13, <2>14, Zenon
  <2>16. Still(b) /\ key'[n] = key[n] /\ got'[n] = got[n]
    BY <1>4, <1>5, <2>9, <2>11, Zenon DEF Still
  <2>18. Takes(n)
    BY <1>11, <2>3, <2>6, <2>11, <2>16, Zenon DEF Takes, Alike, x
  <2>17. Ways'
    BY <1>4, <1>10, <2>8, <2>10, <2>14, <2>15, <2>16, <2>18, WaysStep, Zenon
  <2> QED BY <2>12, <2>17, Zenon DEF IInv
<1>12. CASE /\ crypto' = crypto /\ sending' = [sending EXCEPT ![n] = IF gaveUp[n] THEN @ ELSE Append(@, p)]
            /\ pend' \in [Node -> 0 .. MaxRekeyAttempts + 1]
            /\ \E out \in Seq(Frame) : (\A f \in Els(out) : f.t # "pils") /\ Transmit(n, FALSE, out)
  <2> DEFINE sd == sending[n]
             sd2 == IF gaveUp[n] THEN sd ELSE Append(sd, p)
             took == FALSE
  <2>1. PICK out \in Seq(Frame) : (\A f \in Els(out) : f.t # "pils") /\ Transmit(n, took, out)
    BY <1>12, Zenon
  <2>2. took \in BOOLEAN /\ (took => chan[n] # <<>>)
    BY Zenon
  <2> HIDE DEF took
  <2>3. /\ chan' \in [Node -> Seq(Frame)]
        /\ chan'[n] = chan[n] \/ (chan[n] # <<>> /\ chan'[n] = Tail(chan[n]))
        /\ chan'[b] = chan[b] \o out
    BY <1>7, <2>1, <2>2, Transmits, Zenon DEF b
  <2>4. sd \in Seq(Packet) /\ Once(sd) /\ p \notin Els(sd)
    BY <1>3, <1>6, <1>7, Zenon DEF Hold
  <2>5. sending' = [sending EXCEPT ![n] = sd2]
    BY <1>12, Zenon
  <2>6. Hold(SentBy(n), sd, queue[n], Salvage(n), crypto[n].peer, Flying(b), got[b], key[b])
    BY <1>6, Zenon
  <2> HIDE DEF sd
  <2>7. sd2 \in Seq(Packet) /\ Once(sd2) /\ Els(sd2) \subseteq Els(sd) \cup {p}
    <3>0. Append(sd, p) \in Seq(Packet)
      BY <1>3, <2>4, SMTT(30)
    <3>1. Els(Append(sd, p)) = Els(sd) \cup {p}
      BY <1>3, <2>4, Appended, SMTT(30)
    <3>2. Once(Append(sd, p))
      BY <1>3, <2>4, OnceAppend, Zenon
    <3> QED BY <2>4, <3>0, <3>1, <3>2, Zenon
  <2> HIDE DEF sd2
  <2>8. sending' \in [Node -> Seq(Packet)] /\ sending'[n] = sd2 /\ sending'[b] = sending[b]
    BY <1>1, <1>7, <2>5, <2>7, Zenon
  <2>9. Types'
    BY <1>4, <1>5, <1>12, <2>3, <2>8, Zenon DEF Types
  <2>10. Hold(SentBy(n) \cup {p}, sd2, queue[n], Salvage(n), crypto[n].peer, Flying(b), got[b], key[b])
    BY <1>3, <1>6, <2>6, <2>7, HoldTakes, Zenon
  <2>11. Salvage(n)' = Salvage(n) /\ crypto'[n].peer = crypto[n].peer
    BY <1>12, Zenon DEF Salvage, Has
  <2>12. Hold(SentBy(n)', sending'[n], queue'[n], Salvage(n)', crypto'[n].peer, Flying(b), got[b], key[b])
    BY <1>4, <1>9, <2>8, <2>10, <2>11, Zenon
  <2>13. Still(b) /\ key'[n] = key[n] /\ got'[n] = got[n]
    BY <1>4, <1>5, <1>12, <2>8, Zenon DEF Still
  <2>15. Takes(n)
    BY <1>12, <2>13, Zenon DEF Takes, Alike, Has
  <2>14. Ways'
    BY <1>4, <1>10, <2>1, <2>3, <2>12, <2>13, <2>15, QuietStep, Zenon
  <2> QED BY <2>9, <2>14, Zenon DEF IInv
<1>13. ASSUME ~Has(n), pend[n] = 0,
              Transmit(n, FALSE, SendKeyExchangeToNode(n, FALSE, 0, due[n])),
              pend' = [pend EXCEPT ![n] = MarkPendingRekey(0, gaveUp[n])]
       PROVE  /\ pend' \in [Node -> 0 .. MaxRekeyAttempts + 1]
              /\ \E out \in Seq(Frame) : (\A f \in Els(out) : f.t # "pils") /\ Transmit(n, FALSE, out)
  <2> DEFINE y == SendKeyExchangeToNode(n, FALSE, 0, due[n])
             c == MarkPendingRekey(0, gaveUp[n])
  <2>1. y \in Seq(Frame) /\ (\A f \in Els(y) : f.t # "pils")
    BY <1>8, KeyOut, Zenon
  <2>2. 0 \in 0 .. MaxRekeyAttempts + 1
    BY BoundAssumption, SMTT(30)
  <2>3. c \in 0 .. MaxRekeyAttempts + 1
    BY <2>2, MarkFits, Zenon
  <2> HIDE DEF y, c
  <2>4. Transmit(n, FALSE, y) /\ pend' = [pend EXCEPT ![n] = c]
    BY <1>13, Zenon DEF y, c
  <2> QED BY <1>7, <2>1, <2>3, <2>4, Zenon
<1>14. ASSUME chan' = chan
       PROVE  \E out \in Seq(Frame) : (\A f \in Els(out) : f.t # "pils") /\ Transmit(n, FALSE, out)
  <2>1. Transmit(n, FALSE, <<>>)
    BY <1>14, StillNet, Zenon
  <2> QED BY <2>1, Nothing, Zenon
<1>15. \/ /\ Has(n)
          /\ crypto' = [crypto EXCEPT ![n] = Sealed(RecordSalvage(@, p), <<p>>)]
          /\ Transmit(n, FALSE, Seal(n, crypto[n], <<p>>))
          /\ UNCHANGED <<pend, due, sending>>
       \/ /\ ~Has(n) /\ pend[n] = 0
          /\ Transmit(n, FALSE, SendKeyExchangeToNode(n, FALSE, 0, due[n]))
          /\ pend' = [pend EXCEPT ![n] = MarkPendingRekey(0, gaveUp[n])]
          /\ sending' = [sending EXCEPT ![n] = IF gaveUp[n] THEN @ ELSE Append(@, p)]
          /\ crypto' = crypto
       \/ /\ sending' = [sending EXCEPT ![n] = IF gaveUp[n] THEN @ ELSE Append(@, p)]
          /\ crypto' = crypto /\ pend' = pend /\ chan' = chan
  BY Zenon DEF SendTo, p
<1> QED BY <1>7, <1>11, <1>12, <1>13, <1>14, <1>15, Zenon

SealsApart(n, c, ps) ==
  /\ Seal(n, c, ps) \in Seq(Frame) /\ Apart(Seal(n, c, ps)) /\ Twins(Els(Seal(n, c, ps)))
  /\ \A f \in Els(Seal(n, c, ps)) : f.t = "pils" /\ f.p \in Els(ps) /\ f.to = c.peer

LEMMA SealsSession ==
  ASSUME NEW n, key[n] \in Nat \ {0}, NEW c \in Session, NEW ps \in Seq(Packet), Once(ps)
  PROVE  SealsApart(n, c, ps)
<1>1. c.peer \in Nat /\ c.ctr \in Nat
  BY Real, Zenon
<1>2. /\ Seal(n, c, ps) \in Seq(Frame)
      /\ \A f \in Els(Seal(n, c, ps)) : f.t = "pils" /\ f.p \in Els(ps) /\ f.to = c.peer
      /\ Once(ps) => Apart(Seal(n, c, ps)) /\ Twins(Els(Seal(n, c, ps)))
  BY <1>1, SealFacts, Zenon
<1> QED BY <1>2, Zenon DEF SealsApart

(* The node is left with what Hold asks for once ps is sealed for k.       *)
SealsWell(n, k, dup, ps) ==
  LET b == Peer(n)
      c == Installed(n, k)
      O == Els(Seal(n, c, ps))
  IN  /\ c \in Session /\ c.peer = k /\ ps \in Seq(Packet)
      /\ Seal(n, c, ps) \in Seq(Frame) /\ Apart(Seal(n, c, ps)) /\ Twins(O)
      /\ Hold(SentBy(n), sending[n], IF dup THEN queue[n] ELSE <<>>, c.salvage, k,
              Flying(b) \cup O, got[b], key[b])
      /\ Novel(O, Flying(b), got[b], key[b])

(* What the hook of an installed key seals, and what is left to hold.  By  *)
(* cases: a coalesced frame seals nothing; a fresh session seals the ring  *)
(* of the session it replaces, whose packets went to another key only, and *)
(* the queue, whose packets went to none; a session kept seals the queue.  *)
LEMMA Seals ==
  ASSUME Types, Ways, NEW n \in Node, NEW k \in Nat \ {0}, NEW dup \in BOOLEAN, Duplicate(n, k, dup),
         NEW ps, ps = IF dup THEN <<>> ELSE Replayed(n, k) \o flushPending(n)
  PROVE  SealsWell(n, k, dup, ps)
<1> DEFINE b == Peer(n)
           c == Installed(n, k)
           fr == Seal(n, c, ps)
           O == Els(fr)
           P == SentBy(n)
           sd == sending[n]
           q == queue[n]
           q2 == IF dup THEN q ELSE <<>>
           sv == Salvage(n)
           j == crypto[n].peer
           W == Flying(b)
           g == got[b]
           i == key[b]
           e == <<>>
<1>1. Hold(P, sd, q, sv, j, W, g, i) /\ P \subseteq Packet
  BY Sends, Zenon DEF Ways
<1>2. key[n] \in Nat \ {0}
  BY Keys, Zenon
<1>3. /\ crypto[n] \in Session \cup {NoCrypto} /\ q \in Seq(Packet) /\ e \in Seq(Packet)
      /\ (Has(n) => crypto[n] \in Session)
  BY SMTT(30) DEF Types, Has
<1>4. c \in Session /\ c.peer = k /\ c.ctr \in Nat
  <2>1. CASE Has(n) /\ crypto[n].peer = k
    BY <1>3, <2>1, Real, Zenon DEF Installed
  <2>2. CASE ~(Has(n) /\ crypto[n].peer = k)
    <3>1. c = NewCrypto(k)
      BY <2>2, Zenon DEF Installed
    <3>2. 0 \in 0 .. DropThreshold /\ 0 \in 0 .. 2 /\ {} \in SUBSET Nat /\ <<>> \in Seq(Packet) /\ 0 \in Nat
      BY BoundAssumption, SMTT(30)
    <3> DEFINE z == [p \in Packet |-> 0]
               U == [Packet -> Nat]
    <3>3. z \in U
      BY <3>2, Zenon
    <3>4. c = [peer |-> k, ctr |-> 0, seen |-> {}, rejects |-> 0, fails |-> 0, age |-> 0,
               salvage |-> <<>>, up |-> z]
      BY <3>1, Zenon DEF NewCrypto
    <3>5. Session = [peer : Nat \ {0}, ctr : Nat, seen : SUBSET Nat, rejects : 0 .. DropThreshold,
                     fails : 0 .. DropThreshold, age : 0 .. 2, salvage : Seq(Packet), up : U]
      BY Zenon DEF Session
    <3> HIDE DEF z, U, c
    <3> QED BY <3>2, <3>3, <3>4, <3>5, SMTT(30)
  <2> QED BY <2>1, <2>2, Zenon
<1>5. sv \in Seq(Packet)
  BY <1>3, Real, Zenon DEF Salvage
<1>6. Once(e) /\ Els(e) = {} /\ Once(q) /\ Once(sv) /\ Els(sv) \cap Els(q) = {}
  <2>1. Once(e) /\ Els(e) = {}
    BY SMTT(30) DEF Once, Els
  <2> QED BY <1>1, <2>1, Zenon DEF Hold
<1> HIDE DEF b, P, sd, W, g, i
<1>7. ASSUME ps \in Seq(Packet), Once(ps)
      PROVE  fr \in Seq(Frame) /\ Apart(fr) /\ Twins(O) /\ \A f \in O : f.t = "pils" /\ f.p \in Els(ps) /\ f.to = k
  <2> HIDE DEF c
  <2>1. SealsApart(n, c, ps)
    BY <1>2, <1>4, <1>7, SealsSession, Zenon
  <2> QED BY <1>4, <2>1, Zenon DEF SealsApart
<1>8. CASE dup
  <2>1. ps = e /\ q2 = q /\ Has(n) /\ j = k
    BY <1>8, Zenon DEF Duplicate
  <2>2. ps \in Seq(Packet) /\ Once(ps) /\ Els(ps) = {}
    BY <1>3, <1>6, <2>1, Zenon
  <2>3. c.salvage = sv
    BY <2>1, Zenon DEF Installed, Salvage
  <2>4. fr \in Seq(Frame) /\ Apart(fr) /\ Twins(O) /\ O = {}
    BY <1>7, <2>2, Zenon
  <2> HIDE DEF fr, c, j, q, sv
  <2>5. Hold(P, sd, q2, c.salvage, k, W \cup O, g, i) /\ Novel(O, W, g, i)
    BY <1>1, <2>1, <2>3, <2>4, Zenon DEF Novel
  <2> QED BY <1>4, <2>2, <2>4, <2>5, Zenon DEF b, P, sd, W, g, i, fr, q, c, SealsWell
<1>9. CASE ~dup /\ Fresh(n, k)
  <2>1. Replayed(n, k) = sv /\ (k # j \/ sv = e) /\ c.salvage = e
    <3>1. CASE ~Has(n)
      BY <3>1, Zenon DEF Replayed, KeyChanged, Salvage, Installed, NewCrypto
    <3>2. CASE Has(n) /\ crypto[n].peer # k
      BY <3>2, Zenon DEF Replayed, KeyChanged, Salvage, Installed, NewCrypto
    <3> QED BY <1>9, <3>1, <3>2, Zenon DEF Fresh, KeyChanged
  <2>2. ps = sv \o q /\ q2 = e
    BY <1>9, <2>1, Zenon DEF flushPending
  <2>3. k # j \/ Els(sv) = {}
    BY <1>6, <2>1, Zenon
  <2> HIDE DEF sv, q, j, e
  <2>4. ps \in Seq(Packet) /\ Els(ps) = Els(sv) \cup Els(q)
    <3>1. sv \o q \in Seq(Packet)
      BY <1>3, <1>5, CatFacts, Zenon
    <3>2. Els(sv \o q) = Els(sv) \cup Els(q)
      BY <1>3, <1>5, ElsCat, SMTT(30)
    <3> QED BY <2>2, <3>1, <3>2, Zenon
  <2>5. Once(ps)
    BY <1>3, <1>5, <1>6, <2>2, OnceCat, Zenon
  <2>6. fr \in Seq(Frame) /\ Apart(fr) /\ Twins(O) /\ \A f \in O : f.t = "pils" /\ f.p \in Els(ps) /\ f.to = k
    BY <1>7, <2>4, <2>5, Zenon
  <2> HIDE DEF O
  <2>7. \A f \in O : f.t = "pils" /\ f.p \in Els(sv) \cup Els(q) /\ f.to = k
    BY <2>4, <2>6, Zenon
  <2>9. q2 = <<>> /\ c.salvage = <<>>
    BY <2>1, <2>2, Zenon DEF e
  <2> HIDE DEF q2, c, fr
  <2>8. Hold(P, sd, <<>>, <<>>, k, W \cup O, g, i) /\ Novel(O, W, g, i)
    <3>1. Hold(P, sd, q, sv, j, W, g, i) /\ P \subseteq Packet
      BY <1>1, Zenon
    <3> QED BY ONLY <3>1, <2>3, <2>7, HoldReplays, ZenonT(40)
  <2>10. Hold(P, sd, q2, c.salvage, k, W \cup O, g, i)
    BY <2>8, <2>9, Zenon
  <2> QED BY <1>4, <2>4, <2>6, <2>8, <2>10, Zenon DEF b, P, sd, W, g, i, fr, q2, q, c, O, e, SealsWell
<1>10. CASE ~dup /\ ~Fresh(n, k)
  <2>1. Has(n) /\ j = k /\ c.salvage = sv /\ Replayed(n, k) = e
    BY <1>10, Zenon DEF Fresh, KeyChanged, Installed, Salvage, Replayed
  <2>2. ps = q /\ q2 = e
    <3>1. ps = e \o q /\ q2 = e
      BY <1>10, <2>1, Zenon DEF flushPending
    <3>2. e \o q = q
      BY <1>3, SMTT(30)
    <3> QED BY <3>1, <3>2, Zenon
  <2>3. fr \in Seq(Frame) /\ Apart(fr) /\ Twins(O) /\ \A f \in O : f.t = "pils" /\ f.p \in Els(ps) /\ f.to = k
    BY <1>3, <1>6, <1>7, <2>2, Zenon
  <2> HIDE DEF sv, q, j, O
  <2>4. \A f \in O : f.t = "pils" /\ f.p \in Els(q) /\ f.to = j
    BY <2>1, <2>2, <2>3, Zenon
  <2>5. Hold(P, sd, <<>>, sv, j, W \cup O, g, i) /\ Novel(O, W, g, i)
    BY <1>1, <2>4, HoldFlushes, Zenon
  <2> HIDE DEF q2, c, fr
  <2>6. Hold(P, sd, q2, c.salvage, k, W \cup O, g, i) /\ ps \in Seq(Packet)
    BY <1>3, <2>1, <2>2, <2>5, Zenon
  <2> QED BY <1>4, <2>3, <2>5, <2>6, Zenon DEF b, P, sd, W, g, i, fr, q2, q, c, O, e, SealsWell
<1> QED BY <1>8, <1>9, <1>10, Zenon

LEMMA InstallStep ==
  ASSUME Types, Ways, NEW n \in Node, NEW k \in Nat \ {0}, NEW dup \in BOOLEAN, NEW reply, Duplicate(n, k, dup),
         onKeyInstalled(n, k, dup, reply), chan[n] # <<>>, pend' = [pend EXCEPT ![n] = 0],
         key' = key, reset' = reset, sending' = sending, sent' = sent, got' = got, late' = late
  PROVE  IInv'
<1> DEFINE b == Peer(n)
           c == Installed(n, k)
           ps == IF dup THEN <<>> ELSE Replayed(n, k) \o flushPending(n)
           fr == Seal(n, c, ps)
           tl == IF reply THEN <<Pila(key[n])>> ELSE <<>>
           out == fr \o tl
           e == Sealed(c, ps)
           q2 == IF dup THEN queue[n] ELSE <<>>
           W == Flying(b)
<1>1. /\ crypto' = [crypto EXCEPT ![n] = e] /\ queue' = [queue EXCEPT ![n] = q2]
      /\ Transmit(n, TRUE, out)
  BY Zenon DEF onKeyInstalled
<1>2. b \in Node /\ b # n /\ b = Peer(n)
  BY Peers, Zenon
<1>3. /\ c \in Session /\ c.peer = k /\ ps \in Seq(Packet)
      /\ fr \in Seq(Frame) /\ Apart(fr) /\ Twins(Els(fr))
      /\ Hold(SentBy(n), sending[n], q2, c.salvage, k, W \cup Els(fr), got[b], key[b])
      /\ \A f \in Els(fr), h \in W : ~Same(f, h) /\ ~Same(h, f)
      /\ \A f \in Els(fr) : ~(got[b][f.p] > 0 /\ f.to = key[b])
  <2> DEFINE z == ps
  <2>1. z = IF dup THEN <<>> ELSE Replayed(n, k) \o flushPending(n)
    BY Zenon
  <2> HIDE DEF z
  <2>2. SealsWell(n, k, dup, z)
    BY <2>1, Seals, Zenon
  <2> QED BY <2>2, Zenon DEF z, SealsWell, Novel
<1>4. tl \in Seq(Frame) /\ \A f \in Els(tl) : f.t # "pils"
  <2> DEFINE y == Pila(key[n])
  <2>1. key[n] \in Nat \ {0}
    BY Keys, Zenon
  <2>2. y \in Frame /\ y.t # "pils"
    BY <2>1, Zenon DEF Pila, Frame
  <2> HIDE DEF y
  <2>3. <<y>> \in Seq(Frame) /\ Els(<<y>>) = {y}
    BY <2>2, ElsOne, SMTT(30)
  <2>4. tl = <<y>> \/ tl = <<>>
    BY Zenon DEF y
  <2> HIDE DEF tl
  <2>5. CASE tl = <<y>>
    BY <2>2, <2>3, <2>5, Zenon
  <2>6. CASE tl = <<>>
    BY <2>6, Nothing, Zenon
  <2> QED BY <2>4, <2>5, <2>6, Zenon
<1>19. (\A p \in Packet : c.up[p] = 0) \/ (Has(n) /\ Alike(c, crypto[n]))
  <2>1. \A p \in Packet : NewCrypto(k).up[p] = 0
    BY Zenon DEF NewCrypto
  <2> QED BY <2>1, Zenon DEF Installed, Alike
<1> HIDE DEF b, c, ps, fr, tl, W
<1>5. Apart(tl) /\ Twins(Els(tl)) /\ \A f \in Els(tl) : \A h : ~Same(f, h) /\ ~Same(h, f)
  BY <1>4, KeyFrames, Zenon
<1>6. out \in Seq(Frame) /\ Els(out) = Els(fr) \cup Els(tl)
  <2>1. fr \o tl \in Seq(Frame)
    BY <1>3, <1>4, CatFacts, Zenon
  <2>2. Els(fr \o tl) = Els(fr) \cup Els(tl)
    <3>1. fr \in Seq(Frame) /\ tl \in Seq(Frame)
      BY <1>3, <1>4, Zenon
    <3> QED BY <3>1, FramesCat, Zenon
  <2> QED BY <2>1, <2>2, Zenon
<1>7. Apart(out)
  <2>1. \A f \in Els(fr), h \in Els(tl) : ~Clash(f, h)
    BY <1>5, Zenon DEF Clash
  <2> QED BY <1>3, <1>4, <1>5, <2>1, ApartCat, Zenon
<1> HIDE DEF out
<1>8. /\ \A f \in Els(out), h \in W : ~Same(f, h) /\ ~Same(h, f)
      /\ \A f \in Els(out) : f.t = "pils" => ~(got[b][f.p] > 0 /\ f.to = key[b])
  BY <1>3, <1>4, <1>5, <1>6, Zenon
<1>20. Twins(Els(out))
  <2> DEFINE A == Els(fr)
             B == Els(tl)
  <2>1. Twins(A) /\ Twins(B) /\ \A f \in B, h \in A : ~Same(f, h) /\ ~Same(h, f)
    BY <1>3, <1>5, Zenon
  <2> HIDE DEF A, B
  <2>2. Twins(A \cup B)
    BY <2>1, TwinsJoin, Zenon
  <2> QED BY <1>6, <2>2, Zenon DEF A, B
<1>9. e \in Session /\ e.peer = k /\ e.salvage = c.salvage /\ Alike(e, c)
  BY <1>3, SealedFits, Zenon
<1> HIDE DEF e
<1>10. crypto' \in [Node -> Session \cup {NoCrypto}] /\ crypto'[n] = e /\ crypto'[b] = crypto[b]
  <2> HIDE DEF Session
  <2> QED BY <1>1, <1>2, <1>9, Zenon DEF Types
<1>11. /\ queue' \in [Node -> Seq(Packet)] /\ queue'[n] = q2 /\ queue'[b] = queue[b]
       /\ \A m \in Node : Len(queue'[m]) <= maxPendingPerPeer
  <2>1. queue \in [Node -> Seq(Packet)] /\ \A m \in Node : Len(queue[m]) <= maxPendingPerPeer
    BY Zenon DEF Types
  <2>2. <<>> \in Seq(Packet) /\ Len(<<>>) = 0 /\ 0 <= maxPendingPerPeer
    BY BoundAssumption, SMTT(30)
  <2>3. q2 \in Seq(Packet) /\ Len(q2) <= maxPendingPerPeer
    BY <2>1, <2>2, Zenon
  <2> HIDE DEF q2
  <2> QED BY <1>1, <1>2, <2>1, <2>3, Zenon
<1> HIDE DEF q2
<1>12. /\ chan' \in [Node -> Seq(Frame)]
       /\ chan'[n] = chan[n] \/ (chan[n] # <<>> /\ chan'[n] = Tail(chan[n]))
       /\ chan'[b] = chan[b] \o out
  <2> DEFINE took == TRUE
  <2>1. took \in BOOLEAN /\ (took => chan[n] # <<>>) /\ Transmit(n, took, out) /\ chan \in [Node -> Seq(Frame)]
    BY <1>1, Zenon DEF Types
  <2> HIDE DEF took
  <2> QED BY <1>2, <1>6, <2>1, Transmits, Zenon
<1>13. pend' \in [Node -> 0 .. MaxRekeyAttempts + 1]
  BY BoundAssumption, SMTT(30) DEF Types
<1>14. Types'
  BY <1>10, <1>11, <1>12, <1>13, Zenon DEF Types
<1>15. Salvage(n)' = c.salvage /\ crypto'[n].peer = k /\ SentBy(n)' = SentBy(n)
  <2>1. e # NoCrypto
    BY <1>9, Real, Zenon
  <2> QED BY <1>9, <1>10, <2>1, Zenon DEF Salvage, Has, SentBy
<1>16. Hold(SentBy(n)', sending'[n], queue'[n], Salvage(n)', crypto'[n].peer, W \cup Els(out), got[b], key[b])
  <2> DEFINE V == W \cup Els(out)
             U == W \cup Els(fr)
  <2>1. \A f \in V : f.t = "pils" => f \in U
    BY <1>4, <1>6, Zenon
  <2>2. Hold(SentBy(n), sending[n], q2, c.salvage, k, U, got[b], key[b])
    BY <1>3, Zenon
  <2> HIDE DEF V, U
  <2>3. Hold(SentBy(n), sending[n], q2, c.salvage, k, V, got[b], key[b])
    BY <2>1, <2>2, HoldFrames, Zenon
  <2> QED BY <1>11, <1>15, <2>3, Zenon DEF V
<1>17. Still(b)
  BY <1>10, <1>11, Zenon DEF Still
<1>21. Takes(n)
  BY <1>9, <1>10, <1>19, Zenon DEF Takes, Alike
<1>18. Ways'
  BY <1>2, <1>6, <1>7, <1>8, <1>12, <1>16, <1>17, <1>20, <1>21, WaysStep, Zenon DEF W
<1> QED BY <1>14, <1>18, Zenon DEF IInv

LEMMA KeyFrameStep ==
  ASSUME Types, Ways, NEW n \in Node, HandleAuthFrame(n) \/ HandleUnauthFrame(n)
  PROVE  IInv'
<1> DEFINE k == Head(chan[n]).k
<1>1. chan[n] # <<>> /\ Head(chan[n]).t \in {"pila", "pilk"} /\ key' = key /\ reset' = reset /\ sending' = sending
      /\ sent' = sent /\ got' = got /\ late' = late
  BY Zenon DEF HandleAuthFrame, HandleUnauthFrame
<1>2. k \in Nat \ {0}
  <2>1. chan[n] \in Seq(Frame)
    BY Zenon DEF Types
  <2>2. Head(chan[n]) \in Frame
    BY <1>1, <2>1, TailFacts, Zenon
  <2> QED BY <1>1, <2>2, Zenon DEF Frame
<1>3. \/ \E dup \in BOOLEAN, reply \in BOOLEAN :
           Duplicate(n, k, dup) /\ onKeyInstalled(n, k, dup, reply) /\ pend' = [pend EXCEPT ![n] = 0]
      \/ Transmit(n, TRUE, <<>>) /\ crypto' = crypto /\ queue' = queue /\ pend' = pend
      \/ /\ Transmit(n, TRUE, SendKeyExchangeToNode(n, Has(n), pend[n], due[n]))
         /\ pend' = [pend EXCEPT ![n] = MarkPendingRekey(@, gaveUp[n])] /\ crypto' = crypto /\ queue' = queue
  <2>1. \A dup : ReplyDue(n, k, dup) \in BOOLEAN
    BY Zenon DEF ReplyDue
  <2>2. Fresh(n, k) \in BOOLEAN
    BY Zenon DEF Fresh
  <2>3. CASE HandleAuthFrame(n)
    BY <2>1, <2>3, Zenon DEF HandleAuthFrame
  <2>4. CASE HandleUnauthFrame(n)
    BY <2>2, <2>4, Zenon DEF HandleUnauthFrame
  <2> QED BY <2>3, <2>4, Zenon
<1> HIDE DEF k
<1>4. CASE \E dup \in BOOLEAN, reply \in BOOLEAN :
             Duplicate(n, k, dup) /\ onKeyInstalled(n, k, dup, reply) /\ pend' = [pend EXCEPT ![n] = 0]
  <2>1. PICK dup \in BOOLEAN, reply \in BOOLEAN :
             Duplicate(n, k, dup) /\ onKeyInstalled(n, k, dup, reply) /\ pend' = [pend EXCEPT ![n] = 0]
    BY <1>4, Zenon
  <2> QED BY <1>1, <1>2, <2>1, InstallStep, Zenon
<1>5. pend \in [Node -> 0 .. MaxRekeyAttempts + 1]
  BY Zenon DEF Types
<1>6. CASE Transmit(n, TRUE, <<>>) /\ crypto' = crypto /\ queue' = queue /\ pend' = pend
  <2>1. Consumes(n)
    BY <1>6, ConsumesNothing, Zenon
  <2>2. Soft(n)
    BY <1>6, Softens, Zenon
  <2>3. Screens(n)
    BY <1>1, <1>6, Spares, Zenon DEF Screens
  <2> QED BY <1>1, <1>5, <1>6, <2>1, <2>2, <2>3, ConsumeStep, Zenon
<1>7. CASE /\ Transmit(n, TRUE, SendKeyExchangeToNode(n, Has(n), pend[n], due[n]))
           /\ pend' = [pend EXCEPT ![n] = MarkPendingRekey(@, gaveUp[n])] /\ crypto' = crypto /\ queue' = queue
  <2>1. key[n] \in Nat \ {0}
    BY Keys, Zenon
  <2>2. Consumes(n)
    BY <1>7, <2>1, ConsumesKey, Zenon
  <2>3. Soft(n)
    BY <1>7, Softens, Zenon
  <2> DEFINE c == MarkPendingRekey(pend[n], gaveUp[n])
  <2>4. c \in 0 .. MaxRekeyAttempts + 1
    BY <1>5, MarkFits, Zenon
  <2>5. pend' = [pend EXCEPT ![n] = c]
    BY <1>7, Zenon
  <2> HIDE DEF c
  <2>6. pend' \in [Node -> 0 .. MaxRekeyAttempts + 1]
    BY <1>5, <2>4, <2>5, Zenon
  <2>7. Screens(n)
    BY <1>1, <1>7, Spares, Zenon DEF Screens
  <2> QED BY <1>1, <1>7, <2>2, <2>3, <2>6, <2>7, ConsumeStep, Zenon
<1> QED BY <1>3, <1>4, <1>6, <1>7, Zenon

-----------------------------------------------------------------------------
LEMMA Start == Init => IInv
<1> SUFFICES ASSUME Init PROVE IInv
  BY Zenon
<1>1. Types
  <2>1. \A n \in Node : 1 \in 1 .. MaxKey[n] /\ 0 <= SendBound[n]
    BY BoundAssumption, SMTT(30)
  <2>2. <<>> \in Seq(Packet) /\ <<>> \in Seq(Frame) /\ Len(<<>>) = 0 /\ 0 <= maxPendingPerPeer
        /\ 0 \in 0 .. MaxRekeyAttempts + 1
    BY BoundAssumption, SMTT(30)
  <2>3. [p \in Packet |-> 0] \in [Packet -> Nat]
    BY Zenon
  <2> QED BY <2>1, <2>2, <2>3, Zenon DEF Init, Types
<1>2. Ways
  <2> SUFFICES ASSUME NEW m \in Node
               PROVE  /\ Hold(SentBy(m), sending[m], queue[m], Salvage(m), crypto[m].peer,
                              Flying(Peer(m)), got[Peer(m)], key[Peer(m)])
                      /\ Spread(chan[m], late[m]) /\ Twins(Flying(m)) /\ ~Has(m)
    BY Zenon DEF Ways
  <2>1. Peer(m) \in Node
    BY Peers, Zenon
  <2>2. Once(<<>>) /\ Els(<<>>) = {} /\ Apart(<<>>)
    BY SMTT(30) DEF Once, Els, Apart
  <2>3. /\ sending[m] = <<>> /\ queue[m] = <<>> /\ Salvage(m) = <<>> /\ Flying(Peer(m)) = {}
        /\ got[Peer(m)] = [p \in Packet |-> 0] /\ chan[m] = <<>> /\ late[m] = {}
    BY <2>1, <2>2, Zenon DEF Init, Salvage, Has, Flying
  <2>4. \A p \in Packet : got[Peer(m)][p] = 0 /\ ~(got[Peer(m)][p] > 0) /\ got[Peer(m)][p] <= 1
    BY <2>3, SMTT(30)
  <2>5. Flying(m) = {} /\ ~Has(m)
    BY <2>2, Zenon DEF Init, Has, Flying
  <2> QED BY <2>2, <2>3, <2>4, <2>5, Zenon DEF Hold, Spread, Twins
<1> QED BY <1>1, <1>2, Zenon DEF IInv

LEMMA Step == IInv /\ [Next]_vars => IInv'
<1> SUFFICES ASSUME IInv, [Next]_vars PROVE IInv'
  BY Zenon
<1>1. Types /\ Ways
  BY Zenon DEF IInv
<1>2. CASE UNCHANGED vars
  BY <1>1, <1>2, Zenon DEF vars, IInv, Types, Ways, SentBy, Salvage, Has, Flying
<1>3. ASSUME NEW n \in Node, SendTo(n) PROVE IInv'
  BY <1>1, <1>3, SendStep, Zenon
<1>4. ASSUME NEW n \in Node, Enqueue(n) PROVE IInv'
  BY <1>1, <1>4, EnqueueStep, Zenon
<1>5. ASSUME NEW n \in Node, HandleAuthFrame(n) \/ HandleUnauthFrame(n) PROVE IInv'
  BY <1>1, <1>5, KeyFrameStep, Zenon
<1>6. ASSUME NEW n \in Node, handleEncrypted(n) PROVE IInv'
  BY <1>1, <1>6, EncryptedStep, Zenon
<1>7. ASSUME NEW n \in Node, Tick(n) PROVE IInv'
  BY <1>1, <1>7, TickStep, Zenon
<1>8. ASSUME NEW n \in Node, GaveUpReset(n) \/ PathWatch(n) PROVE IInv'
  <2>1. ResetPath(n) /\ reset' \in [Node -> {"no", "due", "cooling"}]
    BY <1>1, <1>8, Zenon DEF GaveUpReset, PathWatch, Types
  <2> QED BY <1>1, <2>1, ResetStep, Zenon
<1>9. ASSUME NEW n \in Node, DropCrypto(n) PROVE IInv'
  BY <1>1, <1>9, DropStep, Zenon
<1>10. ASSUME NEW n \in Node, Restart(n) PROVE IInv'
  BY <1>1, <1>10, RestartStep, Zenon
<1>11. ASSUME NEW n \in Node, Lose(n) \/ Delay(n) \/ Arrive(n) \/ RelayCopy(n) PROVE IInv'
  BY <1>1, <1>11, NetworkStep, Zenon
<1> QED BY <1>2, <1>3, <1>4, <1>5, <1>6, <1>7, <1>8, <1>9, <1>10, <1>11, Zenon DEF Next, Receive

LEMMA Sound == IInv => SessionSound
<1> SUFFICES ASSUME IInv PROVE SessionSound
  BY Zenon
<1>1. Types /\ Ways
  BY Zenon DEF IInv
<1>2. TypeOK
  BY <1>1, Zenon DEF Types, TypeOK, Has
<1>3. ASSUME NEW n \in Node, NEW p \in Packet \ Echoed PROVE got[n][p] <= 1
  <2>1. Peer(n) \in Node /\ Peer(Peer(n)) = n
    BY Peers, Zenon
  <2> DEFINE m == Peer(n)
  <2>2. Hold(SentBy(m), sending[m], queue[m], Salvage(m), crypto[m].peer, Flying(Peer(m)), got[Peer(m)], key[Peer(m)])
    BY <1>1, <2>1, Zenon DEF Ways
  <2>3. \A x \in Packet \ Echoed : got[Peer(m)][x] <= 1
    <3> HIDE DEF m
    <3> QED BY <2>2, Zenon DEF Hold
  <2> QED BY <2>1, <2>3, Zenon
<1>4. AtMostOncePerSession
  BY <1>1, Zenon DEF Ways, Screened, AtMostOncePerSession
<1> QED BY <1>2, <1>3, <1>4, Zenon DEF SessionSound, AtMostOncePerProcess

(* Whatever the network loses, delays or copies, however often sessions    *)
(* are dropped and processes restarted, and whatever the sizes of the      *)
(* queue and the ring: a session hands up each packet at most once, a      *)
(* process is handed each packet at most once whose sealed frames the      *)
(* network does not copy (replaySalvage, flushPending, DecryptFrame), and  *)
(* the queue keeps its limit.                                              *)
THEOREM SessionIsSound == Spec => []SessionSound
  BY Start, Step, Sound, PTL DEF Spec

=============================================================================
