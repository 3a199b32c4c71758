---------------------------- MODULE PortsProofs ----------------------------
(***************************************************************************)
(* The bookkeeping of ephemeral ports is right, and no accepted connection *)
(* is lost, for every range of ports and every number of dials, datagrams, *)
(* peers and connections.                                                  *)
(*                                                                         *)
(* The argument: what the bitmap has to be depends only on the ports that  *)
(* dials, listed connections and datagrams hold.  Every action is one of   *)
(* a few kinds of change to those (a port allocated, handed from a dial to *)
(* its connection, released, a connection removed), and each kind keeps    *)
(* the bitmap exact because no port has two holders.  A port an            *)
(* application binds drops out of what is claimed, and accepted            *)
(* connections are on such ports only.                                     *)
(***************************************************************************)
EXTENDS Ports, TLAPS

(* The types of the state the bitmap depends on, and of what leads to it.  *)
AnyRemote == Remote \cup {CHOOSE r \in Remote : TRUE}
Typed ==
  /\ conn \in Seq(Conn)
  /\ table \subseteq DOMAIN conn
  /\ dial \in [Dialer -> [pc : {"idle", "create", "syn", "wait"}, port : Nat,
                          rem : AnyRemote, id : Nat]]
  /\ dg \in [Datagram -> Eph \cup {-1}]
  /\ rl \in [pc : {"idle", "create", "answer", "queue"}, port : Nat, rem : AnyRemote,
             gen : Nat, id : Nat]
  /\ sw \in [pc : {"idle", "stale", "idleConns"}, todo : SUBSET DOMAIN conn]
  /\ lis \in [ListenPort -> [bound : BOOLEAN, gen : Nat, q : Seq(Nat)]]

(* A dial that is being set up holds an ephemeral port, the packet loop    *)
(* creates connections on ports an application has bound, and both keep    *)
(* the ID of the connection they made.                                     *)
Ready ==
  /\ \A d \in Dialer : dial[d].pc = "create" => dial[d].port \in Eph /\ dial[d].rem \in Remote
  /\ \A d \in Dialer : dial[d].pc \in {"syn", "wait"} => dial[d].id \in DOMAIN conn
  /\ \A p \in ListenPort : lis[p].bound => lis[p].gen # 0
  /\ rl.pc = "create" => rl.port \in ListenPort /\ lis[rl.port].gen # 0 /\ rl.rem \in Remote
  /\ rl.pc \in {"answer", "queue"} => rl.id \in DOMAIN conn /\ rl.port \in ListenPort

(* The inductive invariant.                                                *)
PInv == Typed /\ Ready /\ PortsSound

(* Every step but Bind leaves the ports no application has bound.          *)
SameGens == \A p \in ListenPort : lis'[p].gen = lis[p].gen

LEMMA PrivateKept == ASSUME SameGens PROVE Private' = Private
BY Zenon DEF SameGens, Private

LEMMA SameLis == ASSUME UNCHANGED lis PROVE SameGens
BY Zenon DEF SameGens

LEMMA NoneIsNotPrivate == -1 \notin Private
BY RangeAssumption, SMTT(30) DEF Private, Eph

\* A connection keeps its port: nothing but the state of the connections changes.
SamePorts ==
  /\ DOMAIN conn' = DOMAIN conn
  /\ \A c \in DOMAIN conn : conn'[c].lport = conn[c].lport

\* SetState, AcceptFIN, CloseConnection and a FIN that is held change the state
\* of a connection and not its port.
LEMMA StateStep ==
  ASSUME Typed, NEW c \in DOMAIN conn, NEW s \in State, NEW h \in BOOLEAN,
         \/ conn' = [conn EXCEPT ![c].st = s]
         \/ conn' = [conn EXCEPT ![c].held = h]
         \/ conn' = [conn EXCEPT ![c].st = s, ![c].held = h]
  PROVE  conn' \in Seq(Conn) /\ SamePorts
<1>1. conn \in Seq(Conn) /\ \A b \in DOMAIN conn : conn[b] \in Conn
  BY SMTT(30) DEF Typed
<1>2. ASSUME NEW r \in Conn
      PROVE  /\ [r EXCEPT !.st = s] \in Conn
             /\ [r EXCEPT !.held = h] \in Conn
             /\ [r EXCEPT !.st = s].lport = r.lport
             /\ [r EXCEPT !.held = h].lport = r.lport
  BY <1>2, Zenon DEF Conn
<1>. DEFINE r1 == [conn[c] EXCEPT !.st = s]
            r2 == [conn[c] EXCEPT !.held = h]
            r3 == [r1 EXCEPT !.held = h]
<1>3. r1 \in Conn /\ r2 \in Conn /\ r1.lport = conn[c].lport /\ r2.lport = conn[c].lport
  BY <1>1, <1>2, Zenon
<1>4. r3 \in Conn /\ r3.lport = conn[c].lport
  <2>. HIDE DEF r1
  <2>. QED BY <1>2, <1>3, Zenon
<1>5. PICK r \in {r1, r2, r3} : conn' = [conn EXCEPT ![c] = r]
  BY Zenon
<1>6. r \in Conn /\ r.lport = conn[c].lport
  <2>. HIDE DEF r1, r2, r3
  <2>. QED BY <1>3, <1>4, Zenon
<1>7. conn' \in Seq(Conn) /\ DOMAIN conn' = DOMAIN conn
  BY <1>1, <1>5, <1>6, SMTT(30)
<1>8. \A b \in DOMAIN conn : conn'[b].lport = conn[b].lport
  BY <1>1, <1>5, <1>6, Zenon
<1>. QED BY <1>7, <1>8, Zenon DEF SamePorts

\* The dials that are being set up, and their ports, stay the same.
DialsKept ==
  \A d \in Dialer : /\ dial'[d].pc = "create" <=> dial[d].pc = "create"
                    /\ dial[d].pc = "create" => dial'[d].port = dial[d].port

\* A step that neither takes, hands over nor gives back a port.
LEMMA FrameSound ==
  ASSUME Typed, PortsSound, SamePorts, SameGens, DialsKept, UNCHANGED <<bitmap, table, dg>>
  PROVE  PortsSound'
<1>0. Private' = Private
  BY PrivateKept, Zenon
<1>1. DialPorts' = DialPorts
  BY <1>0, Zenon DEF DialPorts, DialsKept
<1>2. ConnPorts' = ConnPorts
  <2>1. \A c \in table : conn'[c].lport = conn[c].lport
    BY Zenon DEF SamePorts, Typed
  <2>. QED BY <1>0, <2>1, Zenon DEF ConnPorts
<1>3. DgPorts' = DgPorts
  BY <1>0, Zenon DEF DgPorts
<1>4. BitmapExact'
  BY <1>0, <1>1, <1>2, <1>3, Zenon DEF PortsSound, BitmapExact
<1>5. \A b \in table' : b \in table /\ conn'[b].lport = conn[b].lport
  BY Zenon DEF SamePorts, Typed
<1>6. PortsExclusive'
  BY <1>0, <1>1, <1>2, <1>3, <1>5, SMTT(30) DEF PortsSound, PortsExclusive, DialsKept
<1>. QED BY <1>4, <1>6, Zenon DEF PortsSound

\* RemoveConnection: the port of a listed connection has no other holder, so
\* clearEphPortLocked frees just that one; an unlisted one frees nothing.
LEMMA RemoveSound ==
  ASSUME Typed, PortsSound, SamePorts, SameGens, DialsKept, UNCHANGED dg,
         NEW c \in DOMAIN conn, RemoveConnection(c)
  PROVE  PortsSound'
<1>0. Private' = Private
  BY PrivateKept, Zenon
<1>1. CASE c \notin table
  <2>1. bitmap' = bitmap /\ table' = table
    BY <1>1, Zenon DEF RemoveConnection
  <2>. QED BY <2>1, FrameSound, Zenon
<1>2. CASE c \in table
  <2>. DEFINE p == conn[c].lport
  <2>1. table' = table \ {c}
    BY Zenon DEF RemoveConnection
  <2>2. bitmap' = Cleared({p}, table \ {c})
    BY <1>2, Zenon DEF RemoveConnection
  <2>3. p \in Private => \A b \in table \ {c} : conn[b].lport # p
    BY <1>2, Zenon DEF PortsSound, PortsExclusive
  <2>5. bitmap' \cap Private = (bitmap \cap Private) \ {p}
    BY <2>2, <2>3, Zenon DEF Cleared
  <2>6. DialPorts' = DialPorts
    BY <1>0, Zenon DEF DialPorts, DialsKept
  <2>7. DgPorts' = DgPorts
    BY <1>0, Zenon DEF DgPorts
  <2>8. ConnPorts' = ConnPorts \ {p}
    <3>1. \A b \in table : conn'[b].lport = conn[b].lport
      BY Zenon DEF SamePorts, Typed
    <3>. HIDE DEF p
    <3>2. conn[c].lport = p
      BY Zenon DEF p
    <3>. QED BY <1>0, <1>2, <2>1, <2>3, <3>1, <3>2, Zenon DEF ConnPorts
  <2>9. BitmapExact'
    <3>1. p \in Private => p \notin DialPorts \cup DgPorts
      BY <1>2, Zenon DEF PortsSound, PortsExclusive, ConnPorts
    <3>2. p \notin DialPorts \cup DgPorts
      BY <3>1, Zenon DEF DialPorts, DgPorts
    <3>. HIDE DEF p
    <3>. QED BY <1>0, <2>5, <2>6, <2>7, <2>8, <3>2, Zenon DEF PortsSound, BitmapExact
  <2>10. \A b \in table' : b \in table /\ conn'[b].lport = conn[b].lport
    BY <2>1, Zenon DEF SamePorts, Typed
  <2>11. PortsExclusive'
    BY <1>0, <2>6, <2>7, <2>8, <2>10, SMTT(30) DEF PortsSound, PortsExclusive, DialsKept
  <2>. QED BY <2>9, <2>11, Zenon DEF PortsSound
<1>. QED BY <1>1, <1>2, Zenon

\* The connections keep their ports when only the table and they themselves stay.
LEMMA ConnPortsKept ==
  ASSUME UNCHANGED <<conn, table>>, Private' = Private
  PROVE  ConnPorts' = ConnPorts
BY Zenon DEF ConnPorts

\* AllocEphemeralPort for a dial: the port was nobody's.
LEMMA DialAllocSound ==
  ASSUME Typed, PortsSound, NEW d \in Dialer, DialAlloc(d)
  PROVE  PortsSound'
<1>1. PICK r \in Remote, p \in NextFree :
        /\ AllocEphemeralPort(p)
        /\ dial' = [dial EXCEPT ![d] = [pc |-> "create", port |-> p, rem |-> r, id |-> 0]]
  BY Zenon DEF DialAlloc
<1>. DEFINE P == {p} \cap Private
<1>2. p \notin bitmap /\ bitmap' = bitmap \cup {p}
  BY <1>1, Zenon DEF NextFree, AllocEphemeralPort
<1>3. dial[d].pc = "idle" /\ UNCHANGED <<conn, table, dg, lis>>
  BY Zenon DEF DialAlloc
<1>0. Private' = Private
  BY <1>3, SameLis, PrivateKept, Zenon
<1>4. ConnPorts' = ConnPorts /\ DgPorts' = DgPorts
  BY <1>0, <1>3, ConnPortsKept, Zenon DEF DgPorts
<1>5. \A f \in Dialer : f # d => dial'[f] = dial[f]
  BY <1>1, Zenon DEF Typed
<1>6. dial'[d].pc = "create" /\ dial'[d].port = p
  BY <1>1, Zenon DEF Typed
<1>7. DialPorts' = DialPorts \cup P
  BY <1>0, <1>3, <1>5, <1>6, SMTT(30) DEF DialPorts
<1>8. P \cap (DialPorts \cup ConnPorts \cup DgPorts) = {}
  BY <1>2, Zenon DEF PortsSound, BitmapExact
<1>9. BitmapExact'
  BY <1>0, <1>2, <1>4, <1>7, Zenon DEF PortsSound, BitmapExact
<1>10. \A f \in Dialer : dial[f].pc = "create" /\ p \in Private => dial[f].port # p
  BY <1>8, Zenon DEF DialPorts
<1>11. \A e, f \in Dialer : e # f /\ dial'[e].pc = "create" /\ dial'[f].pc = "create"
                               /\ dial'[e].port \in Private
                              => dial'[e].port # dial'[f].port
  BY <1>5, <1>6, <1>10, SMTT(30) DEF PortsSound, PortsExclusive
<1>. HIDE DEF P
<1>12. PortsExclusive'
  BY <1>0, <1>3, <1>4, <1>7, <1>8, <1>11, Zenon DEF PortsSound, PortsExclusive
<1>. QED BY <1>9, <1>12, Zenon DEF PortsSound

\* AllocEphemeralPort for a datagram.
LEMMA DatagramAllocSound ==
  ASSUME Typed, PortsSound, NEW g \in Datagram, DatagramAlloc(g)
  PROVE  PortsSound'
<1>1. PICK p \in NextFree : AllocEphemeralPort(p) /\ dg' = [dg EXCEPT ![g] = p]
  BY Zenon DEF DatagramAlloc
<1>. DEFINE P == {p} \cap Private
<1>2. p \notin bitmap /\ bitmap' = bitmap \cup {p}
  BY <1>1, Zenon DEF NextFree, AllocEphemeralPort
<1>3. dg[g] = -1 /\ UNCHANGED <<conn, table, dial, lis>>
  BY Zenon DEF DatagramAlloc
<1>0. Private' = Private
  BY <1>3, SameLis, PrivateKept, Zenon
<1>4. ConnPorts' = ConnPorts /\ DialPorts' = DialPorts
  BY <1>0, <1>3, ConnPortsKept, Zenon DEF DialPorts
<1>6. dg'[g] = p /\ \A h \in Datagram : h # g => dg'[h] = dg[h]
  BY <1>1, Zenon DEF Typed
<1>7. DgPorts' = DgPorts \cup P
  BY <1>0, <1>3, <1>6, NoneIsNotPrivate, Zenon DEF DgPorts
<1>8. P \cap (DialPorts \cup ConnPorts \cup DgPorts) = {}
  BY <1>2, Zenon DEF PortsSound, BitmapExact
<1>9. BitmapExact'
  BY <1>0, <1>2, <1>4, <1>7, Zenon DEF PortsSound, BitmapExact
<1>10. p \in Private => \A h \in Datagram : dg[h] # p
  BY <1>8, Zenon DEF DgPorts
<1>11. \A h, k \in Datagram : h # k /\ dg'[h] \in Private => dg'[h] # dg'[k]
  BY <1>6, <1>10, SMTT(30) DEF PortsSound, PortsExclusive
<1>. HIDE DEF P
<1>12. PortsExclusive'
  BY <1>0, <1>3, <1>4, <1>7, <1>8, <1>11, Zenon DEF PortsSound, PortsExclusive
<1>. QED BY <1>9, <1>12, Zenon DEF PortsSound

\* ReleaseEphemeralPort: no listed connection has the datagram's port, unless
\* an application bound it.
LEMMA DatagramReleaseSound ==
  ASSUME Typed, PortsSound, NEW g \in Datagram, DatagramRelease(g)
  PROVE  PortsSound'
<1>. DEFINE p == dg[g]
<1>1. bitmap' = Cleared({p}, table) /\ dg' = [dg EXCEPT ![g] = -1]
      /\ UNCHANGED <<conn, table, dial, lis>>
  BY Zenon DEF DatagramRelease
<1>0. Private' = Private
  BY <1>1, SameLis, PrivateKept, Zenon
<1>2. p \in Private => p \in DgPorts
  BY Zenon DEF DgPorts
<1>3. p \in Private => \A c \in table : conn[c].lport # p
  BY <1>2, Zenon DEF PortsSound, PortsExclusive, ConnPorts
<1>4. bitmap' \cap Private = (bitmap \cap Private) \ {p}
  BY <1>1, <1>3, Zenon DEF Cleared
<1>5. ConnPorts' = ConnPorts /\ DialPorts' = DialPorts
  BY <1>0, <1>1, ConnPortsKept, Zenon DEF DialPorts
<1>6. dg'[g] = -1 /\ \A h \in Datagram : h # g => dg'[h] = dg[h]
  BY <1>1, Zenon DEF Typed
<1>7. \A h \in Datagram : h # g /\ dg[h] \in Private => dg[h] # p
  BY Zenon DEF PortsSound, PortsExclusive
<1>8. DgPorts' = DgPorts \ {p}
  BY <1>0, <1>6, <1>7, NoneIsNotPrivate, Zenon DEF DgPorts
<1>9. BitmapExact'
  <2>1. p \notin DialPorts \cup ConnPorts
    BY <1>2, Zenon DEF DialPorts, ConnPorts, PortsSound, PortsExclusive
  <2>. HIDE DEF p
  <2>. QED BY <1>0, <1>4, <1>5, <1>8, <2>1, Zenon DEF PortsSound, BitmapExact
<1>11. \A h, k \in Datagram : h # k /\ dg'[h] \in Private => dg'[h] # dg'[k]
  BY <1>6, NoneIsNotPrivate, SMTT(30) DEF PortsSound, PortsExclusive
<1>. HIDE DEF p
<1>10. PortsExclusive'
  BY <1>0, <1>1, <1>5, <1>8, <1>11, Zenon DEF PortsSound, PortsExclusive
<1>. QED BY <1>9, <1>10, Zenon DEF PortsSound

\* NewConnection: the next ID, and the other connections as they were.
LEMMA NewFacts ==
  ASSUME Typed, NEW p \in Nat, NEW r \in Remote, NEW b \in BOOLEAN, NewConnection(p, r, b)
  PROVE  /\ conn' \in Seq(Conn)
         /\ Len(conn) + 1 \in Nat /\ Len(conn) + 1 \notin DOMAIN conn
         /\ DOMAIN conn' = DOMAIN conn \cup {Len(conn) + 1}
         /\ conn'[Len(conn) + 1].lport = p
         /\ \A c \in DOMAIN conn : conn'[c] = conn[c]
         /\ table' = table \cup {Len(conn) + 1}
         /\ bitmap' = IF p \in Eph THEN bitmap \cup {p} ELSE bitmap
<1>. DEFINE new == [lport |-> p, rem |-> r, st |-> "closed", in |-> b, held |-> FALSE]
<1>1. new \in Conn /\ new.lport = p
  BY Zenon DEF Conn, State
<1>2. conn' = Append(conn, new)
  BY Zenon DEF NewConnection
<1>3. conn \in Seq(Conn)
  BY Zenon DEF Typed
<1>. HIDE DEF new
<1>4. /\ conn' \in Seq(Conn)
      /\ Len(conn) + 1 \in Nat /\ Len(conn) + 1 \notin DOMAIN conn
      /\ DOMAIN conn' = DOMAIN conn \cup {Len(conn) + 1}
      /\ conn'[Len(conn) + 1] = new
      /\ \A c \in DOMAIN conn : conn'[c] = conn[c]
  BY <1>1, <1>2, <1>3, SMTT(30)
<1>5. /\ table' = table \cup {Len(conn) + 1}
      /\ bitmap' = IF p \in Eph THEN bitmap \cup {p} ELSE bitmap
  BY Zenon DEF NewConnection
<1>. QED BY <1>1, <1>4, <1>5, Zenon

\* The dial hands its port to the connection.
LEMMA DialCreateSound ==
  ASSUME Typed, Ready, PortsSound, NEW d \in Dialer, DialCreate(d)
  PROVE  PortsSound'
<1>. DEFINE p == dial[d].port
            n == Len(conn) + 1
            P == {p} \cap Private
<1>1. /\ dial[d].pc = "create" /\ p \in Eph /\ p \in Nat /\ dial[d].rem \in Remote
      /\ NewConnection(p, dial[d].rem, FALSE)
      /\ UNCHANGED <<dg, lis>>
  BY Zenon DEF DialCreate, Ready, Typed
<1>0. Private' = Private
  BY <1>1, SameLis, PrivateKept, Zenon
<1>2. /\ n \notin DOMAIN conn
      /\ conn'[n].lport = p
      /\ \A c \in DOMAIN conn : conn'[c] = conn[c]
      /\ table' = table \cup {n}
      /\ bitmap' = bitmap \cup {p}
  BY <1>1, NewFacts, Zenon
<1>3. table \subseteq DOMAIN conn
  BY Zenon DEF Typed
<1>4. dial'[d].pc = "syn" /\ \A f \in Dialer : f # d => dial'[f] = dial[f]
  BY SMTT(30) DEF DialCreate, Typed
<1>. HIDE DEF n
<1>5. P \subseteq DialPorts
  BY <1>1, Zenon DEF DialPorts
<1>6. \A f \in Dialer : f # d /\ dial[f].pc = "create" /\ p \in Private => dial[f].port # p
  BY <1>1, Zenon DEF PortsSound, PortsExclusive
<1>7. DialPorts' = DialPorts \ P
  BY <1>0, <1>1, <1>4, <1>6, SMTT(30) DEF DialPorts
<1>8. ConnPorts' = ConnPorts \cup P
  BY <1>0, <1>1, <1>2, <1>3, Zenon DEF ConnPorts
<1>9. DgPorts' = DgPorts
  BY <1>0, <1>1, Zenon DEF DgPorts
<1>10. BitmapExact'
  BY <1>0, <1>2, <1>5, <1>7, <1>8, <1>9, Zenon DEF PortsSound, BitmapExact
<1>11. p \in Private => \A c \in table : conn[c].lport # p
  BY <1>1, <1>5, Zenon DEF PortsSound, PortsExclusive, ConnPorts
<1>12. \A b, c \in table' : b # c /\ conn'[b].lport \in Private => conn'[b].lport # conn'[c].lport
  BY <1>2, <1>3, <1>11, SMTT(30) DEF PortsSound, PortsExclusive
<1>13. \A e, f \in Dialer : e # f /\ dial'[e].pc = "create" /\ dial'[f].pc = "create"
                               /\ dial'[e].port \in Private
                              => dial'[e].port # dial'[f].port
  BY <1>4, SMTT(30) DEF PortsSound, PortsExclusive
<1>. HIDE DEF P, p
<1>14. PortsExclusive'
  BY <1>0, <1>1, <1>5, <1>7, <1>8, <1>9, <1>12, <1>13, Zenon DEF PortsSound, PortsExclusive
<1>. QED BY <1>10, <1>14, Zenon DEF PortsSound

\* A connection accepted on a listener's port holds no port of its own.
LEMMA SynCreateSound ==
  ASSUME Typed, Ready, PortsSound, SynCreate
  PROVE  PortsSound'
<1>. DEFINE n == Len(conn) + 1
<1>1. /\ rl.port \in ListenPort /\ lis[rl.port].gen # 0 /\ rl.port \in Nat /\ rl.rem \in Remote
      /\ NewConnection(rl.port, rl.rem, TRUE)
      /\ UNCHANGED <<dial, dg, lis>>
  BY Zenon DEF SynCreate, Ready, Typed
<1>0. Private' = Private
  BY <1>1, SameLis, PrivateKept, Zenon
<1>2. rl.port \notin Private
  BY <1>1, Zenon DEF Private
<1>3. /\ n \notin DOMAIN conn
      /\ conn'[n].lport = rl.port
      /\ \A c \in DOMAIN conn : conn'[c] = conn[c]
      /\ table' = table \cup {n}
      /\ bitmap' \cap Private = bitmap \cap Private
  BY <1>1, <1>2, NewFacts, Zenon
<1>4. table \subseteq DOMAIN conn
  BY Zenon DEF Typed
<1>. HIDE DEF n
<1>5. ConnPorts' = ConnPorts
  BY <1>0, <1>2, <1>3, <1>4, Zenon DEF ConnPorts
<1>6. DialPorts' = DialPorts /\ DgPorts' = DgPorts
  BY <1>0, <1>1, Zenon DEF DialPorts, DgPorts
<1>7. BitmapExact'
  BY <1>0, <1>3, <1>5, <1>6, Zenon DEF PortsSound, BitmapExact
<1>8. \A b, c \in table' : b # c /\ conn'[b].lport \in Private => conn'[b].lport # conn'[c].lport
  BY <1>2, <1>3, <1>4, SMTT(30) DEF PortsSound, PortsExclusive
<1>9. PortsExclusive'
  BY <1>0, <1>1, <1>5, <1>6, <1>8, Zenon DEF PortsSound, PortsExclusive
<1>. QED BY <1>7, <1>9, Zenon DEF PortsSound

\* Bind: the port bound is no longer anybody's, and nothing is claimed of it.
LEMMA BindSound ==
  ASSUME Typed, PortsSound, NEW p \in ListenPort, Bind(p)
  PROVE  PortsSound'
<1>1. /\ lis' = [lis EXCEPT ![p] = [bound |-> TRUE, gen |-> lis[p].gen + 1, q |-> <<>>]]
      /\ UNCHANGED <<bitmap, conn, table, dial, dg>>
  BY Zenon DEF Bind
<1>2. \A q \in ListenPort : q # p => lis'[q] = lis[q]
  BY <1>1, Zenon DEF Typed
<1>3. lis'[p].gen # 0
  BY <1>1, SMTT(30) DEF Typed
<1>4. Private' \subseteq Private
  BY <1>2, <1>3, Zenon DEF Private
<1>5. DialPorts' = DialPorts \cap Private'
  BY <1>1, <1>4, Zenon DEF DialPorts
<1>6. ConnPorts' = ConnPorts \cap Private'
  BY <1>1, <1>4, Zenon DEF ConnPorts
<1>7. DgPorts' = DgPorts \cap Private'
  BY <1>1, <1>4, Zenon DEF DgPorts
<1>8. BitmapExact'
  <2>1. bitmap \cap Private = DialPorts \cup ConnPorts \cup DgPorts
    BY Zenon DEF PortsSound, BitmapExact
  <2>2. bitmap \cap Private' = (DialPorts \cup ConnPorts \cup DgPorts) \cap Private'
    BY <1>4, <2>1, Zenon
  <2>. QED BY <1>1, <1>5, <1>6, <1>7, <2>2, Zenon DEF BitmapExact
<1>9. PortsExclusive'
  BY <1>1, <1>4, <1>5, <1>6, <1>7, Zenon DEF PortsSound, PortsExclusive
<1>. QED BY <1>8, <1>9, Zenon DEF PortsSound

\* The invariant holds at the start.
LEMMA InitSound == Init => PInv
<1>. SUFFICES ASSUME Init PROVE PInv
  BY Zenon
<1>1. NoDial \in [pc : {"idle", "create", "syn", "wait"}, port : Nat, rem : AnyRemote, id : Nat]
  BY Zenon DEF NoDial, AnyRemote
<1>2. NoRl \in [pc : {"idle", "create", "answer", "queue"}, port : Nat, rem : AnyRemote,
                gen : Nat, id : Nat]
  BY Zenon DEF NoRl, AnyRemote
<1>3. Typed
  BY <1>1, <1>2, SMTT(30) DEF Init, Typed
<1>4. \A d \in Dialer : dial[d].pc = "idle"
  BY Zenon DEF Init, NoDial
<1>5. rl.pc = "idle"
  BY Zenon DEF Init, NoRl
<1>6. Ready
  BY <1>4, <1>5, Zenon DEF Init, Ready
<1>7. DialPorts = {} /\ ConnPorts = {} /\ DgPorts = {}
  BY <1>4, NoneIsNotPrivate, Zenon DEF Init, DialPorts, ConnPorts, DgPorts
<1>8. PortsSound
  BY <1>4, <1>7, NoneIsNotPrivate, Zenon DEF Init, PortsSound, BitmapExact, PortsExclusive
<1>. QED BY <1>3, <1>6, <1>8, Zenon DEF PInv

\* The types of the control state.
DialType == [pc : {"idle", "create", "syn", "wait"}, port : Nat, rem : AnyRemote, id : Nat]
RlType == [pc : {"idle", "create", "answer", "queue"}, port : Nat, rem : AnyRemote,
           gen : Nat, id : Nat]

\* A step that takes no port: it may change the state of connections, remove
\* one, and move the dials, the packet loop and the sweep on.
LEMMA QuietStep ==
  ASSUME PInv, conn' \in Seq(Conn), SamePorts, SameGens, DialsKept, UNCHANGED dg,
         dial' \in [Dialer -> DialType], rl' \in RlType, Ready',
         lis' \in [ListenPort -> [bound : BOOLEAN, gen : Nat, q : Seq(Nat)]],
         sw' \in [pc : {"idle", "stale", "idleConns"}, todo : SUBSET DOMAIN conn],
         \/ UNCHANGED <<bitmap, table>>
         \/ \E c \in DOMAIN conn : RemoveConnection(c)
  PROVE  PInv'
<1>1. PortsSound'
  BY FrameSound, RemoveSound, Zenon DEF PInv
<1>2. table' \subseteq table
  BY Zenon DEF RemoveConnection
<1>3. Typed'
  BY <1>2, Zenon DEF PInv, Typed, SamePorts, DialType, RlType
<1>. QED BY <1>1, <1>3, Zenon DEF PInv

\* The case in which the control state stays as it is.
LEMMA StillStep ==
  ASSUME PInv, conn' \in Seq(Conn), SamePorts, UNCHANGED <<dial, dg, rl, sw, lis>>,
         \/ UNCHANGED <<bitmap, table>>
         \/ \E c \in DOMAIN conn : RemoveConnection(c)
  PROVE  PInv'
<1>1. DialsKept
  BY Zenon DEF DialsKept
<1>2. Ready'
  BY Zenon DEF PInv, Ready, SamePorts
<1>3. /\ dial' \in [Dialer -> DialType] /\ rl' \in RlType
      /\ lis' \in [ListenPort -> [bound : BOOLEAN, gen : Nat, q : Seq(Nat)]]
      /\ sw' \in [pc : {"idle", "stale", "idleConns"}, todo : SUBSET DOMAIN conn]
  BY Zenon DEF PInv, Typed, DialType, RlType
<1>. QED BY <1>1, <1>2, <1>3, SameLis, QuietStep, Zenon

\* Unchanged connections keep their types and ports.
LEMMA SameConn == ASSUME PInv, UNCHANGED conn PROVE conn' \in Seq(Conn) /\ SamePorts
BY Zenon DEF PInv, Typed, SamePorts

\* The steps of a dial.
LEMMA DialInv ==
  ASSUME PInv, NEW d \in Dialer, DialAlloc(d) \/ DialStep(d)
  PROVE  PInv'
<1>. USE DEF PInv
<1>0. /\ dial \in [Dialer -> DialType] /\ rl \in RlType
      /\ lis \in [ListenPort -> [bound : BOOLEAN, gen : Nat, q : Seq(Nat)]]
      /\ sw \in [pc : {"idle", "stale", "idleConns"}, todo : SUBSET DOMAIN conn]
  BY Zenon DEF Typed, DialType, RlType
<1>1. CASE DialAlloc(d)
  <2>1. PICK r \in Remote, p \in NextFree :
          dial' = [dial EXCEPT ![d] = [pc |-> "create", port |-> p, rem |-> r, id |-> 0]]
    BY <1>1, Zenon DEF DialAlloc
  <2>2. p \in Eph /\ p \in Nat
    BY RangeAssumption, SMTT(30) DEF NextFree, Eph
  <2>3. dial' \in [Dialer -> DialType]
    BY <1>0, <2>1, <2>2, Zenon DEF DialType, AnyRemote
  <2>4. UNCHANGED <<conn, table, dg, rl, sw, lis>>
    BY <1>1, Zenon DEF DialAlloc
  <2>5. Typed'
    BY <2>3, <2>4, Zenon DEF Typed, DialType
  <2>6. \A f \in Dialer : f # d => dial'[f] = dial[f]
    BY <1>0, <2>1, Zenon
  <2>7. dial'[d] = [pc |-> "create", port |-> p, rem |-> r, id |-> 0]
    BY <1>0, <2>1, Zenon
  <2>8. Ready'
    BY <2>2, <2>4, <2>6, <2>7, SMTT(30) DEF Ready
  <2>9. PortsSound'
    BY <1>1, DialAllocSound, Zenon
  <2>. QED BY <2>5, <2>8, <2>9, Zenon
<1>2. CASE DialCreate(d)
  <2>1. PortsSound'
    BY <1>2, DialCreateSound, Zenon
  <2>2. /\ dial[d].port \in Nat /\ dial[d].rem \in Remote
        /\ NewConnection(dial[d].port, dial[d].rem, FALSE)
        /\ UNCHANGED <<dg, rl, sw, lis>>
        /\ dial' = [dial EXCEPT ![d].pc = "syn", ![d].id = Len(conn) + 1]
    BY <1>0, <1>2, Zenon DEF DialCreate, Ready, DialType
  <2>3. /\ conn' \in Seq(Conn)
        /\ Len(conn) + 1 \in Nat
        /\ DOMAIN conn' = DOMAIN conn \cup {Len(conn) + 1}
        /\ table' = table \cup {Len(conn) + 1}
    BY <2>2, NewFacts, Zenon
  <2>4. dial' \in [Dialer -> DialType]
    <3>. DEFINE x == [[dial[d] EXCEPT !.pc = "syn"] EXCEPT !.id = Len(conn) + 1]
    <3>1. \A y \in DialType, n \in Nat : [[y EXCEPT !.pc = "syn"] EXCEPT !.id = n] \in DialType
      BY Zenon DEF DialType
    <3>2. x \in DialType
      BY <1>0, <2>3, <3>1, Zenon
    <3>3. dial' = [dial EXCEPT ![d] = x]
      BY <2>2, Zenon
    <3>. HIDE DEF x
    <3>. QED BY <1>0, <3>2, <3>3, Zenon
  <2>5. Typed'
    BY <2>2, <2>3, <2>4, Zenon DEF Typed, DialType
  <2>6. /\ \A f \in Dialer : f # d => dial'[f] = dial[f]
        /\ dial'[d].pc = "syn" /\ dial'[d].id = Len(conn) + 1
    BY <1>0, <2>2, Zenon DEF DialType
  <2>7. Ready'
    BY <2>2, <2>3, <2>6, Zenon DEF Ready
  <2>. QED BY <2>1, <2>5, <2>7, Zenon
<1>3. CASE DialSyn(d)
  <2>1. /\ dial[d].pc = "syn" /\ dial[d].id \in DOMAIN conn
        /\ conn' = [conn EXCEPT ![dial[d].id].st = "synSent"]
        /\ dial' = [dial EXCEPT ![d].pc = "wait"]
        /\ UNCHANGED <<bitmap, table, dg, rl, sw, lis>>
    BY <1>3, Zenon DEF DialSyn, SetState, Ready
  <2>2. conn' \in Seq(Conn) /\ SamePorts
    BY <2>1, StateStep, Zenon DEF State
  <2>3. dial' \in [Dialer -> DialType]
    BY <1>0, <2>1, ZenonT(30) DEF DialType
  <2>4. /\ \A f \in Dialer : f # d => dial'[f] = dial[f]
        /\ dial'[d].pc = "wait" /\ dial'[d].id = dial[d].id
    BY <1>0, <2>1, Zenon DEF DialType
  <2>5. DialsKept
    BY <2>1, <2>4, Zenon DEF DialsKept
  <2>6. Ready'
    BY <2>1, <2>2, <2>4, Zenon DEF Ready, SamePorts
  <2>. QED BY <1>0, <2>1, <2>2, <2>3, <2>5, <2>6, SameLis, QuietStep, Zenon
<1>4. CASE DialSucceeds(d) \/ DialFails(d)
  <2>1. /\ dial[d].pc = "wait" /\ dial[d].id \in DOMAIN conn
        /\ dial' = [dial EXCEPT ![d] = NoDial]
        /\ UNCHANGED <<conn, dg, rl, sw, lis>>
        /\ UNCHANGED <<bitmap, table>> \/ RemoveConnection(dial[d].id)
    BY <1>4, Zenon DEF DialSucceeds, DialFails, Ready
  <2>2. conn' \in Seq(Conn) /\ SamePorts
    BY <2>1, SameConn, Zenon
  <2>3. NoDial \in DialType /\ NoDial.pc = "idle"
    BY Zenon DEF NoDial, DialType, AnyRemote
  <2>4. dial' \in [Dialer -> DialType]
    BY <1>0, <2>1, <2>3, Zenon
  <2>5. dial'[d].pc = "idle" /\ \A f \in Dialer : f # d => dial'[f] = dial[f]
    BY <1>0, <2>1, <2>3, Zenon
  <2>6. DialsKept
    BY <2>1, <2>5, Zenon DEF DialsKept
  <2>7. Ready'
    BY <2>1, <2>5, Zenon DEF Ready
  <2>. QED BY <1>0, <2>1, <2>2, <2>4, <2>6, <2>7, SameLis, QuietStep, Zenon
<1>. QED BY <1>1, <1>2, <1>3, <1>4, Zenon DEF DialStep

\* The steps of a datagram.
LEMMA DatagramInv ==
  ASSUME PInv, NEW g \in Datagram, DatagramAlloc(g) \/ DatagramRelease(g)
  PROVE  PInv'
<1>1. PortsSound'
  BY DatagramAllocSound, DatagramReleaseSound, Zenon DEF PInv
<1>2. UNCHANGED <<conn, table, dial, rl, sw, lis>>
  BY Zenon DEF DatagramAlloc, DatagramRelease
<1>3. dg' \in [Datagram -> Eph \cup {-1}]
  <2>1. CASE DatagramAlloc(g)
    <3>1. PICK p \in Eph : dg' = [dg EXCEPT ![g] = p]
      BY <2>1, Zenon DEF DatagramAlloc, NextFree
    <3>. QED BY <3>1, Zenon DEF PInv, Typed
  <2>2. CASE DatagramRelease(g)
    BY <2>2, Zenon DEF DatagramRelease, PInv, Typed
  <2>. QED BY <2>1, <2>2, Zenon
<1>4. Typed' /\ Ready'
  BY <1>2, <1>3, Zenon DEF PInv, Typed, Ready
<1>. QED BY <1>1, <1>4, Zenon DEF PInv

\* The steps of an application on its listener.
LEMMA ListenerInv ==
  ASSUME PInv, NEW p \in ListenPort, Bind(p) \/ Unbind(p) \/ Accept(p)
  PROVE  PInv'
<1>. DEFINE L == [bound : BOOLEAN, gen : Nat, q : Seq(Nat)]
<1>1. UNCHANGED <<bitmap, conn, table, dial, dg, rl, sw>>
  BY Zenon DEF Bind, Unbind, Accept
<1>2. lis \in [ListenPort -> L]
  BY Zenon DEF PInv, Typed
<1>3. lis' \in [ListenPort -> L]
  <2>1. CASE Bind(p)
    BY <1>2, <2>1, SMTT(30) DEF Bind
  <2>2. CASE Unbind(p)
    <3>0. <<>> \in Seq(Nat)
      BY SMTT(30)
    <3>1. \A x \in L, e \in Seq(Nat) : [[x EXCEPT !.bound = FALSE] EXCEPT !.q = e] \in L
      BY Zenon
    <3>. DEFINE y == [[lis[p] EXCEPT !.bound = FALSE] EXCEPT !.q = <<>>]
    <3>2. y \in L
      BY <1>2, <3>0, <3>1, Zenon
    <3>3. lis' = [lis EXCEPT ![p] = y]
      BY <2>2, Zenon DEF Unbind
    <3>. HIDE DEF y, L
    <3>. QED BY <1>2, <3>2, <3>3, Zenon
  <2>3. CASE Accept(p)
    <3>1. lis[p].q \in Seq(Nat) /\ lis[p].q # <<>>
      BY <1>2, <2>3, Zenon DEF Accept
    <3>2. Tail(lis[p].q) \in Seq(Nat)
      BY <3>1, SMTT(30)
    <3>3. lis' = [lis EXCEPT ![p].q = Tail(lis[p].q)]
      BY <2>3, Zenon DEF Accept
    <3>. QED BY <1>2, <3>2, <3>3, Zenon
  <2>. QED BY <2>1, <2>2, <2>3, Zenon
<1>4. conn' \in Seq(Conn) /\ SamePorts
  BY <1>1, SameConn, Zenon
<1>5. DialsKept
  BY <1>1, Zenon DEF DialsKept
<1>7. /\ dial' \in [Dialer -> DialType] /\ rl' \in RlType
      /\ sw' \in [pc : {"idle", "stale", "idleConns"}, todo : SUBSET DOMAIN conn]
  BY <1>1, Zenon DEF PInv, Typed, DialType, RlType
<1>8. CASE Bind(p)
  <2>1. lis'[p].gen # 0
    BY <1>2, <1>8, SMTT(30) DEF Bind
  <2>2. \A q \in ListenPort : q # p => lis'[q] = lis[q]
    BY <1>2, <1>8, Zenon DEF Bind
  <2>3. \A q \in ListenPort : lis[q].gen # 0 => lis'[q].gen # 0
    BY <2>1, <2>2, Zenon
  <2>4. \A q \in ListenPort : lis'[q].bound => lis'[q].gen # 0
    BY <2>1, <2>2, Zenon DEF PInv, Ready
  <2>5. Ready'
    BY <1>1, <2>3, <2>4, Zenon DEF PInv, Ready
  <2>6. PortsSound'
    BY <1>8, BindSound, Zenon DEF PInv
  <2>7. Typed'
    BY <1>1, <1>3, <1>4, <1>7, Zenon DEF PInv, Typed, SamePorts, DialType, RlType
  <2>. QED BY <2>5, <2>6, <2>7, Zenon DEF PInv
<1>9. CASE Unbind(p) \/ Accept(p)
  <2>1. /\ \A q \in ListenPort : q # p => lis'[q] = lis[q]
        /\ lis'[p].gen = lis[p].gen /\ (lis'[p].bound => lis[p].bound)
    <3>1. lis[p] \in L /\ DOMAIN lis = ListenPort
      BY <1>2, Zenon
    <3>. QED BY <1>9, <3>1, SMTT(30) DEF Unbind, Accept
  <2>2. SameGens /\ \A q \in ListenPort : lis'[q].bound => lis[q].bound
    BY <2>1, Zenon DEF SameGens
  <2>3. Ready'
    BY <1>1, <2>2, Zenon DEF PInv, Ready, SameGens
  <2>. QED BY <1>1, <1>3, <1>4, <1>5, <1>7, <2>2, <2>3, QuietStep, Zenon
<1>. QED BY <1>8, <1>9, Zenon

\* A SYN is admitted; a restarted peer's old connection ends.
LEMMA SynArrivesInv ==
  ASSUME PInv, NEW p \in ListenPort, NEW r \in Remote, SynArrives(p, r)
  PROVE  PInv'
<1>1. UNCHANGED <<dial, dg, sw, lis>>
  BY Zenon DEF SynArrives
<1>2. rl' = [pc |-> "create", port |-> p, rem |-> r, gen |-> lis[p].gen, id |-> 0]
  BY Zenon DEF SynArrives
<1>3. rl' \in RlType /\ rl'.pc = "create" /\ rl'.port \in ListenPort /\ rl'.rem \in Remote
      /\ lis'[rl'.port].gen # 0
  <2>1. rl' \in RlType /\ rl'.pc = "create" /\ rl'.port = p /\ rl'.rem = r
    BY <1>2, ListenAssumption, Zenon DEF PInv, Typed, RlType, AnyRemote
  <2>2. lis[p].gen # 0
    BY Zenon DEF SynArrives, PInv, Ready
  <2>. QED BY <1>1, <2>1, <2>2, Zenon
<1>4. \/ UNCHANGED <<bitmap, conn, table>>
      \/ \E c \in FindConnection(p, r) :
           conn' = [conn EXCEPT ![c].st = "closed"] /\ RemoveConnection(c)
  BY Zenon DEF SynArrives, SetState
<1>5. FindConnection(p, r) \subseteq DOMAIN conn
  BY Zenon DEF FindConnection, Matching, PInv, Typed
<1>6. /\ conn' \in Seq(Conn) /\ SamePorts
      /\ UNCHANGED <<bitmap, table>> \/ \E c \in DOMAIN conn : RemoveConnection(c)
  <2>1. CASE UNCHANGED <<bitmap, conn, table>>
    BY <2>1, SameConn, Zenon
  <2>2. ASSUME NEW c \in FindConnection(p, r),
               conn' = [conn EXCEPT ![c].st = "closed"], RemoveConnection(c)
        PROVE  /\ conn' \in Seq(Conn) /\ SamePorts
               /\ \E b \in DOMAIN conn : RemoveConnection(b)
    <3>1. c \in DOMAIN conn
      BY <1>5, Zenon
    <3>2. "closed" \in State
      BY Zenon DEF State
    <3>3. conn' \in Seq(Conn) /\ SamePorts
      BY <2>2, <3>1, <3>2, StateStep, Zenon DEF PInv
    <3>. QED BY <2>2, <3>1, <3>3, Zenon
  <2>. QED BY <1>4, <2>1, <2>2, Zenon
<1>7. DialsKept
  BY <1>1, Zenon DEF DialsKept
<1>8. Ready'
  BY <1>1, <1>3, <1>6, Zenon DEF PInv, Ready, SamePorts
<1>9. /\ dial' \in [Dialer -> DialType]
      /\ lis' \in [ListenPort -> [bound : BOOLEAN, gen : Nat, q : Seq(Nat)]]
      /\ sw' \in [pc : {"idle", "stale", "idleConns"}, todo : SUBSET DOMAIN conn]
  BY <1>1, Zenon DEF PInv, Typed, DialType
<1>. QED BY <1>1, <1>3, <1>6, <1>7, <1>8, <1>9, SameLis, QuietStep, Zenon

\* The packet loop creates, answers and queues a connection.
LEMMA SynInv ==
  ASSUME PInv, SynStep
  PROVE  PInv'
<1>. USE DEF PInv
<1>0. /\ dial \in [Dialer -> DialType] /\ rl \in RlType
      /\ lis \in [ListenPort -> [bound : BOOLEAN, gen : Nat, q : Seq(Nat)]]
      /\ sw \in [pc : {"idle", "stale", "idleConns"}, todo : SUBSET DOMAIN conn]
  BY Zenon DEF Typed, DialType, RlType
<1>1. CASE SynCreate
  <2>1. PortsSound'
    BY <1>1, SynCreateSound, Zenon
  <2>2. /\ rl.port \in Nat /\ rl.port \in ListenPort /\ rl.rem \in Remote
        /\ NewConnection(rl.port, rl.rem, TRUE)
        /\ UNCHANGED <<dial, dg, sw, lis>>
        /\ rl' = [rl EXCEPT !.pc = "answer", !.id = Len(conn) + 1]
    BY <1>0, <1>1, Zenon DEF SynCreate, Ready, RlType
  <2>3. /\ conn' \in Seq(Conn)
        /\ Len(conn) + 1 \in Nat
        /\ DOMAIN conn' = DOMAIN conn \cup {Len(conn) + 1}
        /\ table' = table \cup {Len(conn) + 1}
    BY <2>2, NewFacts, Zenon
  <2>4. rl' \in RlType /\ rl'.pc = "answer" /\ rl'.id = Len(conn) + 1 /\ rl'.port = rl.port
    <3>. DEFINE n == Len(conn) + 1
    <3>1. n \in Nat /\ rl' = [rl EXCEPT !.pc = "answer", !.id = n]
      BY <2>2, <2>3, Zenon
    <3>. HIDE DEF n
    <3>2. rl' \in RlType /\ rl'.pc = "answer" /\ rl'.id = n /\ rl'.port = rl.port
      BY <1>0, <3>1, Zenon DEF RlType
    <3>. QED BY <3>2, Zenon DEF n
  <2>5. Typed'
    BY <1>0, <2>2, <2>3, <2>4, Zenon DEF Typed, DialType, RlType
  <2>6. Ready'
    BY <2>2, <2>3, <2>4, Zenon DEF Ready
  <2>. QED BY <2>1, <2>5, <2>6, Zenon
<1>2. CASE SynAnswer
  <2>1. /\ rl.pc = "answer" /\ rl.id \in DOMAIN conn /\ rl.port \in ListenPort
        /\ conn' = [conn EXCEPT ![rl.id].st = "established"]
        /\ rl' = [rl EXCEPT !.pc = "queue"]
        /\ UNCHANGED <<bitmap, table, dial, dg, sw, lis>>
    BY <1>2, Zenon DEF SynAnswer, SetState, Ready
  <2>2. conn' \in Seq(Conn) /\ SamePorts
    BY <2>1, StateStep, Zenon DEF State
  <2>3. rl' \in RlType /\ rl'.pc = "queue" /\ rl'.id = rl.id /\ rl'.port = rl.port
    BY <1>0, <2>1, Zenon DEF RlType
  <2>4. DialsKept
    BY <2>1, Zenon DEF DialsKept
  <2>5. Ready'
    BY <2>1, <2>2, <2>3, Zenon DEF Ready, SamePorts
  <2>. QED BY <1>0, <2>1, <2>2, <2>3, <2>4, <2>5, SameLis, QuietStep, Zenon
<1>3. CASE SynQueue
  <2>1. /\ rl.pc = "queue" /\ rl.id \in DOMAIN conn /\ rl.id \in Nat /\ rl.port \in ListenPort
        /\ rl' = NoRl
        /\ UNCHANGED <<dial, dg, sw>>
    BY <1>0, <1>3, Zenon DEF SynQueue, Ready, RlType
  <2>2. rl' \in RlType /\ rl'.pc = "idle"
    BY <2>1, Zenon DEF NoRl, RlType, AnyRemote
  <2>3. DialsKept
    BY <2>1, Zenon DEF DialsKept
  <2>4. CASE CanQueue
    <3>1. /\ lis' = [lis EXCEPT ![rl.port].q = Append(lis[rl.port].q, rl.id)]
          /\ UNCHANGED <<bitmap, conn, table>>
      BY <1>3, <2>4, Zenon DEF SynQueue
    <3>2. Append(lis[rl.port].q, rl.id) \in Seq(Nat)
      BY <1>0, <2>1, SMTT(30)
    <3>3. lis' \in [ListenPort -> [bound : BOOLEAN, gen : Nat, q : Seq(Nat)]]
      BY <1>0, <3>1, <3>2, ZenonT(30)
    <3>4. conn' \in Seq(Conn) /\ SamePorts
      BY <3>1, SameConn, Zenon
    <3>6. \A p \in ListenPort : lis'[p].gen = lis[p].gen /\ lis'[p].bound = lis[p].bound
      BY <1>0, <3>1, SMTT(30)
    <3>5. Ready'
      BY <2>1, <2>2, <3>1, <3>6, Zenon DEF Ready
    <3>7. SameGens
      BY <3>6, Zenon DEF SameGens
    <3>. QED BY <1>0, <2>1, <2>2, <2>3, <3>1, <3>3, <3>4, <3>5, <3>7, QuietStep, Zenon
  <2>5. CASE ~CanQueue
    <3>1. /\ conn' = [conn EXCEPT ![rl.id].st = "closed"]
          /\ RemoveConnection(rl.id)
          /\ UNCHANGED lis
      BY <1>3, <2>5, Zenon DEF SynQueue, SetState
    <3>2. conn' \in Seq(Conn) /\ SamePorts
      BY <2>1, <3>1, StateStep, Zenon DEF State
    <3>3. Ready'
      BY <2>1, <2>2, <3>1, <3>2, Zenon DEF Ready, SamePorts
    <3>. QED BY <1>0, <2>1, <2>2, <2>3, <3>1, <3>2, <3>3, SameLis, QuietStep, Zenon
  <2>. QED BY <2>4, <2>5, Zenon
<1>. QED BY <1>1, <1>2, <1>3, Zenon DEF SynStep

\* The packets, timers and closes of one connection.
LEMMA ConnInv ==
  ASSUME PInv, NEW c \in DOMAIN conn, ConnStep(c)
  PROVE  PInv'
<1>1. UNCHANGED <<dial, dg, rl, sw, lis>>
  BY Zenon DEF ConnStep, PacketStep, RecvSynAck, RecvEarlyFin, RecvFin, RecvAck, RecvRst,
         HeldFinExpires, AppCloses, RetxGivesUp, Age
<1>2. UNCHANGED <<bitmap, table>> \/ RemoveConnection(c)
  BY Zenon DEF ConnStep, PacketStep, RecvSynAck, RecvEarlyFin, RecvFin, RecvAck, RecvRst,
         HeldFinExpires, AppCloses, RetxGivesUp, Age
<1>3. \/ UNCHANGED conn
      \/ \E s \in State, h \in BOOLEAN :
           \/ conn' = [conn EXCEPT ![c].st = s]
           \/ conn' = [conn EXCEPT ![c].held = h]
           \/ conn' = [conn EXCEPT ![c].st = s, ![c].held = h]
  <2>1. {"closed", "established", "finWait", "timeWait"} \subseteq State
    BY Zenon DEF State
  <2>. QED BY <2>1, Zenon
       DEF ConnStep, PacketStep, RecvSynAck, RecvEarlyFin, RecvFin, RecvAck, RecvRst,
           HeldFinExpires, AppCloses, RetxGivesUp, Age, AcceptFIN, CloseConnection, SetState
<1>4. conn' \in Seq(Conn) /\ SamePorts
  BY <1>3, SameConn, StateStep, Zenon DEF PInv
<1>. QED BY <1>1, <1>2, <1>4, StillStep, Zenon

\* The idle sweep, on the list it took.
LEMMA SweepInv ==
  ASSUME PInv, SweepStep
  PROVE  PInv'
<1>. DEFINE S == [pc : {"idle", "stale", "idleConns"}, todo : SUBSET DOMAIN conn]
<1>0. /\ dial \in [Dialer -> DialType] /\ rl \in RlType
      /\ lis \in [ListenPort -> [bound : BOOLEAN, gen : Nat, q : Seq(Nat)]]
      /\ sw \in S /\ table \subseteq DOMAIN conn
  BY Zenon DEF PInv, Typed, DialType, RlType
<1>1. UNCHANGED <<dial, dg, rl, lis>>
  BY Zenon DEF SweepStep, SweepStale, SweepIdle, SweepEnds, SweepReaps, SweepCloses
<1>2. DialsKept
  BY <1>1, Zenon DEF DialsKept
<1>3. sw' \in S
  <2>1. CASE SweepStale \/ SweepIdle \/ SweepEnds
    BY <1>0, <2>1, SMTT(30) DEF SweepStale, SweepIdle, SweepEnds
  <2>2. ASSUME NEW c \in sw.todo, SweepReaps(c) \/ SweepCloses(c) PROVE sw' \in S
    BY <1>0, <2>2, SMTT(30) DEF SweepReaps, SweepCloses
  <2>. QED BY <2>1, <2>2, Zenon DEF SweepStep
<1>4. /\ conn' \in Seq(Conn) /\ SamePorts
      /\ UNCHANGED <<bitmap, table>> \/ \E c \in DOMAIN conn : RemoveConnection(c)
  <2>1. CASE SweepStale \/ SweepIdle \/ SweepEnds
    BY <2>1, SameConn, Zenon DEF SweepStale, SweepIdle, SweepEnds
  <2>2. ASSUME NEW c \in sw.todo, SweepReaps(c)
        PROVE  conn' \in Seq(Conn) /\ SamePorts /\ c \in DOMAIN conn /\ RemoveConnection(c)
    BY <1>0, <2>2, SameConn, Zenon DEF SweepReaps
  <2>3. ASSUME NEW c \in sw.todo, SweepCloses(c)
        PROVE  conn' \in Seq(Conn) /\ SamePorts /\ UNCHANGED <<bitmap, table>>
    <3>1. c \in DOMAIN conn /\ "finWait" \in State
      BY <1>0, Zenon DEF State
    <3>2. conn' = [conn EXCEPT ![c].st = "finWait", ![c].held = FALSE]
          /\ UNCHANGED <<bitmap, table>>
      BY <2>3, Zenon DEF SweepCloses, CloseConnection
    <3>. QED BY <3>1, <3>2, StateStep, Zenon DEF PInv
  <2>. QED BY <2>1, <2>2, <2>3, Zenon DEF SweepStep
<1>5. Ready'
  BY <1>1, <1>4, Zenon DEF PInv, Ready, SamePorts
<1>. QED BY <1>0, <1>1, <1>2, <1>3, <1>4, <1>5, SameLis, QuietStep, Zenon

\* Every step keeps the invariant.
LEMMA StepSound == PInv /\ [Next]_vars => PInv'
<1>. SUFFICES ASSUME PInv, [Next]_vars PROVE PInv'
  BY Zenon
<1>1. ASSUME NEW d \in Dialer, DialAlloc(d) \/ DialStep(d) PROVE PInv'
  BY <1>1, DialInv, Zenon
<1>2. ASSUME NEW g \in Datagram, DatagramAlloc(g) \/ DatagramRelease(g) PROVE PInv'
  BY <1>2, DatagramInv, Zenon
<1>3. ASSUME NEW p \in ListenPort, Bind(p) \/ Unbind(p) \/ Accept(p) PROVE PInv'
  BY <1>3, ListenerInv, Zenon
<1>4. ASSUME NEW c \in left, AcceptLeft(c) PROVE PInv'
  <2>1. UNCHANGED <<bitmap, conn, table, dial, dg, rl, sw, lis>>
    BY <1>4, Zenon DEF AcceptLeft
  <2>. QED BY <2>1, SameConn, StillStep, Zenon
<1>5. ASSUME NEW p \in ListenPort, NEW r \in Remote, SynArrives(p, r) PROVE PInv'
  BY <1>5, SynArrivesInv, Zenon
<1>6. CASE SynStep
  BY <1>6, SynInv, Zenon
<1>7. ASSUME NEW c \in DOMAIN conn, ConnStep(c) PROVE PInv'
  BY <1>7, ConnInv, Zenon
<1>8. CASE SweepStep
  BY <1>8, SweepInv, Zenon
<1>9. CASE UNCHANGED vars
  <2>1. UNCHANGED <<bitmap, conn, table, dial, dg, rl, sw, lis>>
    BY <1>9, Zenon DEF vars
  <2>. QED BY <2>1, SameConn, StillStep, Zenon
<1>. QED BY <1>1, <1>2, <1>3, <1>4, <1>5, <1>6, <1>7, <1>8, <1>9, Zenon DEF Next

\* Of the ephemeral ports no application has bound, the bitmap marks exactly
\* those in use and each has one holder, for every range of ports, whatever
\* ports applications bind, and for any number of dials, datagrams, listeners
\* and connections (AllocEphemeralPort, ReleaseEphemeralPort, NewConnection,
\* RemoveConnection, Bind).
THEOREM PortsAreSound == Spec => []PortsSound
<1>1. PInv => PortsSound
  BY Zenon DEF PInv
<1>. QED BY <1>1, InitSound, StepSound, PTL DEF Spec

-----------------------------------------------------------------------------
(* Accepted connections.  Where an application gets an accepted connection *)
(* from changes hands without a gap: packet loop, queue, closed queue,     *)
(* application.  No listener is rebound with connections in its queue, and *)
(* only dials make connections that wait for a SYN-ACK.                    *)

(* The types that Typed leaves open.                                       *)
Ranges ==
  /\ bitmap \subseteq Eph /\ cursor \in Eph /\ Len(conn) <= MaxId
  /\ old \subseteq DOMAIN conn /\ owned \subseteq DOMAIN conn /\ left \subseteq DOMAIN conn
  /\ \A p \in ListenPort : lis[p].q \in Seq(DOMAIN conn)
  /\ \A d \in Dialer : dial[d].id \in {0} \cup DOMAIN conn
  /\ rl.id \in {0} \cup DOMAIN conn

Sides ==
  /\ \A p \in ListenPort : ~lis[p].bound => lis[p].q = <<>>
  /\ \A d \in Dialer : dial[d].pc \in {"syn", "wait"} => ~conn[dial[d].id].in
  /\ \A c \in DOMAIN conn : conn[c].in => conn[c].st # "synSent"

Within(c) == c \in Queued \cup left \cup owned \/ (rl.pc = "queue" /\ rl.id = c)

AInv == Ranges /\ Sides /\ NoOrphan

(* What an edit of one connection leaves alone.                            *)
LEMMA EditFacts ==
  ASSUME Typed, NEW c \in DOMAIN conn, NEW s \in State, NEW h \in BOOLEAN,
         \/ conn' = [conn EXCEPT ![c].st = s]
         \/ conn' = [conn EXCEPT ![c].held = h]
         \/ conn' = [conn EXCEPT ![c].st = s, ![c].held = h]
  PROVE  /\ DOMAIN conn' = DOMAIN conn /\ Len(conn') = Len(conn)
         /\ \A b \in DOMAIN conn : b # c => conn'[b] = conn[b]
         /\ conn'[c].in = conn[c].in
         /\ conn'[c].st = s \/ (conn'[c].st = conn[c].st /\ conn' = [conn EXCEPT ![c].held = h])
<1>1. conn \in Seq(Conn) /\ conn[c] \in Conn
  BY SMTT(30) DEF Typed
<1>2. ASSUME NEW r \in Conn
      PROVE  /\ [r EXCEPT !.st = s].in = r.in /\ [r EXCEPT !.held = h].in = r.in
             /\ [r EXCEPT !.st = s].st = s /\ [r EXCEPT !.held = h].st = r.st
             /\ [r EXCEPT !.st = s] \in Conn
  BY <1>2, Zenon DEF Conn
<1> DEFINE r1 == [conn[c] EXCEPT !.st = s]
           r2 == [conn[c] EXCEPT !.held = h]
           r3 == [r1 EXCEPT !.held = h]
<1>3. r1 \in Conn /\ r1.in = conn[c].in /\ r2.in = conn[c].in /\ r1.st = s /\ r2.st = conn[c].st
  BY <1>1, <1>2, Zenon
<1>4. r3.in = conn[c].in /\ r3.st = s
  <2> HIDE DEF r1
  <2> QED BY <1>2, <1>3, Zenon
<1>5. PICK r \in {r1, r2, r3} : conn' = [conn EXCEPT ![c] = r]
  BY Zenon
<1>6. [conn EXCEPT ![c].held = h] = [conn EXCEPT ![c] = r2]
  BY Zenon
<1> HIDE DEF r1, r2, r3
<1>7. r.in = conn[c].in /\ (r.st = s \/ (r.st = conn[c].st /\ r = r2))
  BY <1>3, <1>4, <1>5, Zenon
<1>8. /\ DOMAIN conn' = DOMAIN conn /\ Len(conn') = Len(conn) /\ conn'[c] = r
      /\ \A b \in DOMAIN conn : b # c => conn'[b] = conn[b]
  BY <1>1, <1>5, SMTT(30)
<1>9. r = r2 => conn' = [conn EXCEPT ![c].held = h]
  BY <1>5, <1>6, Zenon
<1> QED BY <1>7, <1>8, <1>9, Zenon

(* A step that makes no connection and takes none from where an            *)
(* application gets it.                                                    *)
LEMMA KeptStep ==
  ASSUME Typed, Ready, AInv, Typed',
         DOMAIN conn' = DOMAIN conn, Len(conn') = Len(conn),
         \A c \in DOMAIN conn : conn'[c].in = conn[c].in,
         \A c \in DOMAIN conn : conn[c].in =>
           conn'[c].st = conn[c].st \/ conn'[c].st \notin {"established", "synSent"},
         table' \subseteq table, bitmap' \subseteq Eph, cursor' \in Eph,
         old' \subseteq DOMAIN conn, owned' \subseteq DOMAIN conn,
         UNCHANGED <<lis, left>>,
         \A d \in Dialer : \/ dial'[d].id = dial[d].id /\ (dial'[d].pc = dial[d].pc \/ dial[d].pc = "syn")
                           \/ dial'[d].id = 0 /\ dial'[d].pc \notin {"syn", "wait"},
         rl' = rl \/ (rl.pc # "queue" /\ rl'.id \in {0} \cup DOMAIN conn),
         \A c \in owned \ owned' : conn'[c].st # "established"
  PROVE  AInv'
<1>1. Ranges'
  BY Zenon DEF AInv, Ranges
<1>2. Sides'
  <2>1. \A d \in Dialer : dial'[d].pc \in {"syn", "wait"} => ~conn'[dial'[d].id].in
    <3> SUFFICES ASSUME NEW d \in Dialer, dial'[d].pc \in {"syn", "wait"}
                 PROVE  ~conn'[dial'[d].id].in
      BY Zenon
    <3>1. dial'[d].id = dial[d].id /\ dial[d].pc \in {"syn", "wait"}
      BY Zenon
    <3>2. dial[d].id \in DOMAIN conn /\ ~conn[dial[d].id].in
      BY <3>1, Zenon DEF Ready, AInv, Sides
    <3> QED BY <3>1, <3>2, Zenon
  <2>2. \A c \in DOMAIN conn' : conn'[c].in => conn'[c].st # "synSent"
    BY Zenon DEF AInv, Sides
  <2> QED BY <2>1, <2>2, Zenon DEF AInv, Sides
<1>3. NoOrphan'
  <2> SUFFICES ASSUME NEW c \in table', conn'[c].in, conn'[c].st = "established"
               PROVE  Within(c)'
    BY Zenon DEF NoOrphan, Within
  <2>1. c \in table /\ c \in DOMAIN conn /\ conn[c].in /\ conn[c].st = "established"
    BY Zenon DEF Typed
  <2>2. Within(c)
    BY <2>1, Zenon DEF AInv, NoOrphan, Within
  <2>3. Queued' = Queued
    BY SMTT(30) DEF Queued
  <2> QED BY <2>2, <2>3, Zenon DEF Within
<1> QED BY <1>1, <1>2, <1>3, Zenon DEF AInv

(* Ports allocated and released.                                           *)
LEMMA PortStep ==
  ASSUME Typed, Ready, AInv, Typed', UNCHANGED <<conn, table, old, owned, lis, left, rl>>,
         bitmap' \subseteq Eph, cursor' \in Eph,
         dial' = dial \/ \E d \in Dialer, p \in Nat, r \in Remote : dial' = [dial EXCEPT
                           ![d] = [pc |-> "create", port |-> p, rem |-> r, id |-> 0]]
  PROVE  AInv'
<1>1. \A d \in Dialer : \/ dial'[d].id = dial[d].id /\ (dial'[d].pc = dial[d].pc \/ dial[d].pc = "syn")
                        \/ dial'[d].id = 0 /\ dial'[d].pc \notin {"syn", "wait"}
  BY SMTT(30) DEF Typed
<1>2. table' \subseteq table /\ old' \subseteq DOMAIN conn /\ owned' \subseteq DOMAIN conn
  BY Zenon DEF AInv, Ranges
<1> QED BY <1>1, <1>2, KeptStep, Zenon

LEMMA AllocRange ==
  ASSUME Ranges, NEW p \in NextFree, AllocEphemeralPort(p)
  PROVE  bitmap' \subseteq Eph /\ cursor' \in Eph /\ p \in Nat
<1>1. p \in Eph /\ bitmap \subseteq Eph
      /\ bitmap' = bitmap \cup {p} /\ cursor' = IF p >= EphMax THEN EphMin ELSE p + 1
  BY Zenon DEF Ranges, AllocEphemeralPort, NextFree
<1>2. bitmap' \subseteq Eph
  BY <1>1, Zenon
<1>3. p \in Nat /\ cursor' \in Eph
  BY <1>1, RangeAssumption, SMTT(30) DEF Eph
<1> QED BY <1>2, <1>3, Zenon

LEMMA RemoveRange ==
  ASSUME Ranges, NEW c, RemoveConnection(c)
  PROVE  bitmap' \subseteq Eph /\ table' \subseteq table
BY Zenon DEF Ranges, RemoveConnection, Cleared

(* A new connection is closed, so nobody has to have it yet.               *)
LEMMA MadeStep ==
  ASSUME Typed, Ready, AInv, Typed', NEW p \in Nat, NEW r \in Remote, NEW b \in BOOLEAN,
         NewConnection(p, r, b), UNCHANGED <<cursor, old, owned, lis, left>>,
         \A d \in Dialer : \/ dial'[d] = dial[d]
                           \/ dial'[d].id = Len(conn) + 1 /\ ~b,
         rl' = rl \/ (rl.pc # "queue" /\ rl'.id = Len(conn) + 1)
  PROVE  AInv'
<1> DEFINE n == Len(conn) + 1
           new == [lport |-> p, rem |-> r, st |-> "closed", in |-> b, held |-> FALSE]
<1>1. conn \in Seq(Conn) /\ conn' = Append(conn, new) /\ Len(conn) < MaxId /\ MaxId \in Nat
      /\ table' = table \cup {n} /\ (bitmap' = bitmap \/ (p \in Eph /\ bitmap' = bitmap \cup {p}))
  BY CountAssumption, Zenon DEF NewConnection, Typed
<1>2. new.in = b /\ new.st = "closed"
  BY Zenon
<1> HIDE DEF new
<1>3. /\ n \in Nat \ {0} /\ DOMAIN conn' = DOMAIN conn \cup {n} /\ Len(conn') = n /\ n <= MaxId
      /\ conn'[n] = new /\ \A c \in DOMAIN conn : conn'[c] = conn[c]
  BY <1>1, SMTT(30)
<1>4. n \notin DOMAIN conn /\ table \subseteq DOMAIN conn
  BY <1>1, SMTT(30) DEF Typed
<1> HIDE DEF n
<1>5. Ranges'
  <2>1. bitmap' \subseteq Eph
    BY <1>1, Zenon DEF AInv, Ranges
  <2>2. \A l \in ListenPort : lis'[l].q \in Seq(DOMAIN conn')
    <3> SUFFICES ASSUME NEW l \in ListenPort PROVE lis[l].q \in Seq(DOMAIN conn')
      BY Zenon
    <3>1. lis[l].q \in Seq(DOMAIN conn)
      BY Zenon DEF AInv, Ranges
    <3> QED BY <1>3, <3>1, SMTT(30)
  <2>3. \A d \in Dialer : dial'[d].id \in {0} \cup DOMAIN conn'
    BY <1>3, Zenon DEF n, AInv, Ranges
  <2>4. rl'.id \in {0} \cup DOMAIN conn'
    BY <1>3, Zenon DEF n, AInv, Ranges
  <2> QED BY <1>3, <2>1, <2>2, <2>3, <2>4, Zenon DEF AInv, Ranges
<1>6. Sides'
  <2>1. ASSUME NEW d \in Dialer, dial'[d].pc \in {"syn", "wait"} PROVE ~conn'[dial'[d].id].in
    <3>1. CASE dial'[d] = dial[d]
      BY <1>3, <2>1, <3>1, Zenon DEF Ready, AInv, Sides
    <3>2. CASE dial'[d].id = n /\ ~b
      BY <1>2, <1>3, <3>2, Zenon
    <3> QED BY <3>1, <3>2, Zenon DEF n
  <2>2. \A c \in DOMAIN conn' : conn'[c].in => conn'[c].st # "synSent"
    BY <1>2, <1>3, Zenon DEF AInv, Sides
  <2> QED BY <2>1, <2>2, Zenon DEF AInv, Sides
<1>7. NoOrphan'
  <2> SUFFICES ASSUME NEW c \in table', conn'[c].in, conn'[c].st = "established"
               PROVE  Within(c)'
    BY Zenon DEF NoOrphan, Within
  <2>1. c \in table /\ conn[c].in /\ conn[c].st = "established"
    BY <1>1, <1>2, <1>3, <1>4, Zenon
  <2>2. Within(c)
    BY <2>1, Zenon DEF AInv, NoOrphan, Within
  <2>3. Queued' = Queued
    BY SMTT(30) DEF Queued
  <2> QED BY <2>2, <2>3, Zenon DEF Within
<1> QED BY <1>5, <1>6, <1>7, Zenon DEF AInv

(* An accepted connection is handed on.                                    *)
LEMMA HandStep ==
  ASSUME Typed, AInv, Ranges', UNCHANGED <<conn, table, dial>>,
         \A p \in ListenPort : ~lis'[p].bound => lis'[p].q = <<>>,
         \A c \in DOMAIN conn : Within(c) => Within(c)'
  PROVE  AInv'
<1>1. Sides'
  BY Zenon DEF AInv, Sides
<1>2. NoOrphan'
  BY Zenon DEF AInv, NoOrphan, Within, Typed
<1> QED BY <1>1, <1>2, Zenon DEF AInv

(* The steps of dials and datagrams.                                       *)
LEMMA DialReach ==
  ASSUME PInv, PInv', AInv, NEW d \in Dialer, DialAlloc(d) \/ DialStep(d)
  PROVE  AInv'
<1>0. /\ Typed /\ Ready /\ Typed' /\ Ranges /\ dial \in [Dialer -> DialType]
      /\ old \subseteq DOMAIN conn /\ owned \subseteq DOMAIN conn
      /\ bitmap \subseteq Eph /\ cursor \in Eph
  BY Zenon DEF PInv, AInv, Ranges, Typed, DialType
<1>1. CASE DialAlloc(d)
  <2>1. PICK r \in Remote, p \in NextFree :
          /\ AllocEphemeralPort(p)
          /\ dial' = [dial EXCEPT ![d] = [pc |-> "create", port |-> p, rem |-> r, id |-> 0]]
    BY <1>1, Zenon DEF DialAlloc
  <2>2. bitmap' \subseteq Eph /\ cursor' \in Eph /\ p \in Nat
    BY <1>0, <2>1, AllocRange, Zenon
  <2>3. UNCHANGED <<conn, table, old, owned, lis, left, rl>>
    BY <1>1, Zenon DEF DialAlloc
  <2> QED BY <1>0, <2>1, <2>2, <2>3, PortStep, Zenon
<1>2. CASE DialCreate(d)
  <2>1. /\ dial[d].port \in Nat /\ dial[d].rem \in Remote
        /\ NewConnection(dial[d].port, dial[d].rem, FALSE)
        /\ UNCHANGED <<cursor, old, owned, lis, left, rl>>
        /\ dial' = [dial EXCEPT ![d].pc = "syn", ![d].id = Len(conn) + 1]
    BY <1>0, <1>2, Zenon DEF DialCreate, Ready, DialType
  <2>2. \A e \in Dialer : dial'[e] = dial[e] \/ (dial'[e].id = Len(conn) + 1 /\ ~FALSE)
    BY <1>0, <2>1, Zenon DEF DialType
  <2> QED BY <1>0, <2>1, <2>2, MadeStep, Zenon
<1>3. CASE DialSyn(d)
  <2> DEFINE c == dial[d].id
  <2>1. /\ c \in DOMAIN conn /\ ~conn[c].in /\ conn' = [conn EXCEPT ![c].st = "synSent"]
        /\ dial' = [dial EXCEPT ![d].pc = "wait"] /\ dial[d].pc = "syn"
        /\ UNCHANGED <<bitmap, cursor, table, old, owned, lis, left, rl>>
    BY <1>0, <1>3, Zenon DEF DialSyn, SetState, Ready, AInv, Sides
  <2>2. \A e \in Dialer : dial'[e].id = dial[e].id /\ (dial'[e].pc = dial[e].pc \/ dial[e].pc = "syn")
    BY <1>0, <2>1, Zenon DEF DialType
  <2> HIDE DEF c
  <2>3. "synSent" \in State /\ TRUE \in BOOLEAN
    BY Zenon DEF State
  <2>4. /\ DOMAIN conn' = DOMAIN conn /\ Len(conn') = Len(conn)
        /\ \A b \in DOMAIN conn : b # c => conn'[b] = conn[b]
        /\ conn'[c].in = conn[c].in
    BY <1>0, <2>1, <2>3, EditFacts, Zenon
  <2> QED BY <1>0, <2>1, <2>2, <2>4, KeptStep, Zenon
<1>4. CASE DialSucceeds(d) \/ DialFails(d)
  <2>1. /\ dial' = [dial EXCEPT ![d] = NoDial] /\ UNCHANGED <<cursor, conn, old, lis, left, rl>>
        /\ dial[d].id \in DOMAIN conn
    BY <1>0, <1>4, Zenon DEF DialSucceeds, DialFails, Ready
  <2>2. \A e \in Dialer : \/ dial'[e].id = dial[e].id /\ dial'[e].pc = dial[e].pc
                          \/ dial'[e].id = 0 /\ dial'[e].pc \notin {"syn", "wait"}
    BY <1>0, <2>1, Zenon DEF NoDial
  <2>3. owned' = owned \/ owned' = owned \cup {dial[d].id}
    BY <1>4, Zenon DEF DialSucceeds, DialFails
  <2>4. bitmap' \subseteq Eph /\ table' \subseteq table
    BY <1>0, <1>4, RemoveRange, Zenon DEF DialSucceeds, DialFails
  <2> QED BY <1>0, <2>1, <2>2, <2>3, <2>4, KeptStep, Zenon
<1> QED BY <1>1, <1>2, <1>3, <1>4, Zenon DEF DialStep

LEMMA DatagramReach ==
  ASSUME PInv, PInv', AInv, NEW g \in Datagram, DatagramAlloc(g) \/ DatagramRelease(g)
  PROVE  AInv'
<1>0. Typed /\ Ready /\ Typed' /\ Ranges /\ bitmap \subseteq Eph /\ cursor \in Eph
  BY Zenon DEF PInv, AInv, Ranges
<1>1. UNCHANGED <<conn, table, old, owned, lis, left, rl, dial>>
  BY Zenon DEF DatagramAlloc, DatagramRelease
<1>2. bitmap' \subseteq Eph /\ cursor' \in Eph
  <2>1. CASE DatagramAlloc(g)
    BY <1>0, <2>1, AllocRange, Zenon DEF DatagramAlloc
  <2>2. CASE DatagramRelease(g)
    BY <1>0, <2>2, Zenon DEF DatagramRelease, Cleared
  <2> QED BY <2>1, <2>2, Zenon
<1> QED BY <1>0, <1>1, <1>2, PortStep, Zenon

(* The steps of an application on its listener, and on one that is gone.   *)
LEMMA ListenerReach ==
  ASSUME PInv, PInv', AInv, NEW p \in ListenPort, Bind(p) \/ Unbind(p) \/ Accept(p)
  PROVE  AInv'
<1> DEFINE L == [bound : BOOLEAN, gen : Nat, q : Seq(Nat)]
           Els(l) == {l.q[i] : i \in DOMAIN l.q}
<1>0. /\ Typed /\ Ranges /\ lis \in [ListenPort -> L]
      /\ lis[p].q \in Seq(DOMAIN conn) /\ (~lis[p].bound => lis[p].q = <<>>)
  BY Zenon DEF PInv, AInv, Typed, Ranges, Sides
<1>1. UNCHANGED <<bitmap, cursor, conn, table, old, dial, rl>>
  BY Zenon DEF Bind, Unbind, Accept
<1>2. \E l : /\ lis' = [lis EXCEPT ![p] = l] /\ l.q \in Seq(DOMAIN conn) /\ (~l.bound => l.q = <<>>)
             /\ left \subseteq left' /\ left' \subseteq DOMAIN conn
             /\ owned \subseteq owned' /\ owned' \subseteq DOMAIN conn
             /\ Els(lis[p]) \subseteq Els(l) \cup left' \cup owned'
  <2>1. CASE Bind(p)
    <3> DEFINE l == [bound |-> TRUE, gen |-> lis[p].gen + 1, q |-> <<>>]
    <3>1. lis' = [lis EXCEPT ![p] = l] /\ UNCHANGED <<left, owned>> /\ ~lis[p].bound
      BY <2>1, Zenon DEF Bind
    <3>2. l.q \in Seq(DOMAIN conn) /\ (~l.bound => l.q = <<>>) /\ Els(lis[p]) = {}
      BY <1>0, <3>1, SMTT(30)
    <3> HIDE DEF l
    <3> QED BY <1>0, <3>1, <3>2, Zenon DEF Ranges
  <2>2. CASE Unbind(p)
    <3> DEFINE l == [[lis[p] EXCEPT !.bound = FALSE] EXCEPT !.q = <<>>]
    <3>1. lis' = [lis EXCEPT ![p] = l]
      BY <2>2, Zenon DEF Unbind
    <3>2. l.q = <<>>
      BY <1>0, Zenon
    <3>3. left' = left \cup Els(lis[p]) /\ owned' = owned
      BY <2>2, Zenon DEF Unbind
    <3>4. Els(lis[p]) \subseteq DOMAIN conn /\ <<>> \in Seq(DOMAIN conn)
      BY <1>0, SMTT(30)
    <3> HIDE DEF l, Els
    <3> QED BY <1>0, <3>1, <3>2, <3>3, <3>4, Zenon DEF Ranges
  <2>3. CASE Accept(p)
    <3> DEFINE q == lis[p].q
               l == [lis[p] EXCEPT !.q = Tail(q)]
    <3>1. lis' = [lis EXCEPT ![p] = l] /\ q # <<>> /\ left' = left /\ owned' = owned \cup {Head(q)}
      BY <2>3, Zenon DEF Accept
    <3>2. l.q = Tail(q) /\ l.bound = lis[p].bound
      BY <1>0, Zenon
    <3>3. q \in Seq(DOMAIN conn) /\ lis[p].bound
      BY <1>0, <3>1, Zenon
    <3> HIDE DEF q
    <3>4. Tail(q) \in Seq(DOMAIN conn) /\ Head(q) \in DOMAIN conn
      BY <3>1, <3>3, SMTT(30)
    <3>5. \A i \in DOMAIN q : q[i] = Head(q) \/ \E j \in DOMAIN Tail(q) : q[i] = Tail(q)[j]
      <4> SUFFICES ASSUME NEW i \in DOMAIN q, i # 1 PROVE \E j \in DOMAIN Tail(q) : q[i] = Tail(q)[j]
        BY <3>1, <3>3, SMTT(30)
      <4>1. i - 1 \in DOMAIN Tail(q) /\ q[i] = Tail(q)[i - 1]
        BY <3>1, <3>3, SMTT(30)
      <4> QED BY <4>1, Zenon
    <3>6. Els(lis[p]) \subseteq {Tail(q)[j] : j \in DOMAIN Tail(q)} \cup {Head(q)}
      BY <3>5, Zenon DEF q
    <3> HIDE DEF l
    <3>7. Els(l) = {Tail(q)[j] : j \in DOMAIN Tail(q)}
      BY <3>2, Zenon
    <3> HIDE DEF Els
    <3> QED BY <1>0, <3>1, <3>2, <3>3, <3>4, <3>6, <3>7, ZenonT(30) DEF Ranges
  <2> QED BY <2>1, <2>2, <2>3, Zenon
<1>3. PICK l : /\ lis' = [lis EXCEPT ![p] = l] /\ l.q \in Seq(DOMAIN conn) /\ (~l.bound => l.q = <<>>)
               /\ left \subseteq left' /\ left' \subseteq DOMAIN conn
               /\ owned \subseteq owned' /\ owned' \subseteq DOMAIN conn
               /\ Els(lis[p]) \subseteq Els(l) \cup left' \cup owned'
  BY <1>2, Zenon
<1>4. lis'[p] = l /\ \A k \in ListenPort : k # p => lis'[k] = lis[k]
  BY <1>0, <1>3, Zenon
<1>5. Ranges'
  BY <1>0, <1>1, <1>3, <1>4, Zenon DEF Ranges
<1>6. \A k \in ListenPort : ~lis'[k].bound => lis'[k].q = <<>>
  BY <1>3, <1>4, Zenon DEF AInv, Sides
<1>7. \A c \in Queued : c \in Queued' \cup left' \cup owned'
  <2> SUFFICES ASSUME NEW c, NEW k \in ListenPort, c \in Els(lis[k])
               PROVE  c \in Queued' \cup left' \cup owned'
    BY Zenon DEF Queued
  <2>1. Queued' = UNION {Els(lis'[m]) : m \in ListenPort}
    BY Zenon DEF Queued
  <2> HIDE DEF Els
  <2> QED BY <1>3, <1>4, <2>1, Zenon
<1>8. \A c \in DOMAIN conn : Within(c) => Within(c)'
  BY <1>1, <1>3, <1>7, Zenon DEF Within
<1> QED BY <1>0, <1>1, <1>5, <1>6, <1>8, HandStep, Zenon

LEMMA LeftReach ==
  ASSUME PInv, AInv, NEW c \in left, AcceptLeft(c)
  PROVE  AInv'
<1>0. Typed /\ Ranges /\ c \in DOMAIN conn
  BY Zenon DEF PInv, AInv, Ranges
<1>1. /\ UNCHANGED <<bitmap, cursor, conn, table, old, lis, dial, rl>>
      /\ left' = left \ {c} /\ owned' = owned \cup {c}
  BY Zenon DEF AcceptLeft
<1>2. Ranges'
  BY <1>0, <1>1, Zenon DEF Ranges
<1>3. \A k \in ListenPort : ~lis'[k].bound => lis'[k].q = <<>>
  BY <1>1, Zenon DEF AInv, Sides
<1>4. Queued' = Queued
  BY <1>1, SMTT(30) DEF Queued
<1>5. \A b \in DOMAIN conn : Within(b) => Within(b)'
  BY <1>1, <1>4, Zenon DEF Within
<1> QED BY <1>0, <1>1, <1>2, <1>3, <1>5, HandStep, Zenon

(* The packet loop: a SYN is admitted, answered, and its connection queued *)
(* or closed again.                                                        *)
LEMMA ArriveReach ==
  ASSUME PInv, PInv', AInv, NEW p \in ListenPort, NEW r \in Remote, SynArrives(p, r)
  PROVE  AInv'
<1>0. /\ Typed /\ Ready /\ Typed' /\ Ranges /\ bitmap \subseteq Eph /\ cursor \in Eph
      /\ old \subseteq DOMAIN conn /\ owned \subseteq DOMAIN conn
  BY Zenon DEF PInv, AInv, Ranges
<1>1. /\ UNCHANGED <<cursor, old, owned, lis, left, dial>> /\ rl.pc = "idle" /\ rl'.id = 0
  BY Zenon DEF SynArrives
<1>2. CASE UNCHANGED <<bitmap, conn, table>>
  BY <1>0, <1>1, <1>2, KeptStep, Zenon
<1>3. ASSUME NEW c \in FindConnection(p, r), SetState(c, "closed"), RemoveConnection(c) PROVE AInv'
  <2>1. c \in DOMAIN conn /\ conn' = [conn EXCEPT ![c].st = "closed"] /\ "closed" \in State /\ TRUE \in BOOLEAN
    BY <1>0, <1>3, Zenon DEF FindConnection, Matching, Typed, SetState, State
  <2>2. /\ DOMAIN conn' = DOMAIN conn /\ Len(conn') = Len(conn)
        /\ \A b \in DOMAIN conn : b # c => conn'[b] = conn[b]
        /\ conn'[c].in = conn[c].in /\ (conn'[c].st = "closed" \/ conn'[c].st = conn[c].st)
    BY <1>0, <2>1, EditFacts, Zenon
  <2>3. bitmap' \subseteq Eph /\ table' \subseteq table
    BY <1>0, <1>3, RemoveRange, Zenon
  <2> QED BY <1>0, <1>1, <2>1, <2>2, <2>3, KeptStep, Zenon
<1> QED BY <1>2, <1>3, Zenon DEF SynArrives

LEMMA SynReach ==
  ASSUME PInv, PInv', AInv, SynStep
  PROVE  AInv'
<1>0. /\ Typed /\ Ready /\ Typed' /\ Ranges /\ Sides /\ rl \in RlType
      /\ lis \in [ListenPort -> [bound : BOOLEAN, gen : Nat, q : Seq(Nat)]]
      /\ table \subseteq DOMAIN conn
  BY Zenon DEF PInv, AInv, Typed, RlType
<1>1. CASE SynCreate
  <2>1. /\ rl.port \in Nat /\ rl.rem \in Remote /\ rl.pc = "create"
        /\ NewConnection(rl.port, rl.rem, TRUE)
        /\ UNCHANGED <<cursor, old, owned, lis, left, dial>>
        /\ rl' = [rl EXCEPT !.pc = "answer", !.id = Len(conn) + 1]
    BY <1>0, <1>1, Zenon DEF SynCreate, Ready, RlType
  <2>2. rl'.id = Len(conn) + 1
    BY <1>0, <2>1, Zenon DEF RlType
  <2> QED BY <1>0, <2>1, <2>2, MadeStep, Zenon
<1>2. CASE SynAnswer
  <2> DEFINE c == rl.id
  <2>1. /\ c \in DOMAIN conn /\ conn' = [conn EXCEPT ![c].st = "established"] /\ rl.pc = "answer"
        /\ rl' = [rl EXCEPT !.pc = "queue"]
        /\ UNCHANGED <<bitmap, cursor, table, old, owned, lis, left, dial>>
    BY <1>0, <1>2, Zenon DEF SynAnswer, SetState, Ready
  <2>2. rl'.id = c /\ rl'.pc = "queue"
    BY <1>0, <2>1, Zenon DEF RlType
  <2> HIDE DEF c
  <2>3. "established" \in State /\ TRUE \in BOOLEAN
    BY Zenon DEF State
  <2>4. /\ DOMAIN conn' = DOMAIN conn /\ Len(conn') = Len(conn)
        /\ \A b \in DOMAIN conn : b # c => conn'[b] = conn[b]
        /\ conn'[c].in = conn[c].in
        /\ conn'[c].st = "established" \/ conn'[c].st = conn[c].st
    BY <1>0, <2>1, <2>3, EditFacts, Zenon
  <2>5. Ranges'
    BY <1>0, <2>1, <2>2, <2>4, Zenon DEF Ranges, c
  <2>6. Sides'
    BY <1>0, <2>1, <2>4, SMTT(30) DEF Sides, Ready
  <2>7. NoOrphan'
    <3> SUFFICES ASSUME NEW b \in table', conn'[b].in, conn'[b].st = "established" PROVE Within(b)'
      BY Zenon DEF NoOrphan, Within
    <3>1. CASE b = c
      BY <2>2, <3>1, Zenon DEF Within
    <3>2. CASE b # c
      <4>1. Within(b)
        BY <1>0, <2>1, <2>4, <3>2, Zenon DEF AInv, NoOrphan, Within
      <4>2. Queued' = Queued
        BY <2>1, SMTT(30) DEF Queued
      <4> QED BY <2>1, <4>1, <4>2, Zenon DEF Within
    <3> QED BY <3>1, <3>2, Zenon
  <2> QED BY <2>5, <2>6, <2>7, Zenon DEF AInv
<1>3. CASE SynQueue
  <2> DEFINE c == rl.id
             p == rl.port
  <2>1. /\ rl.pc = "queue" /\ c \in DOMAIN conn /\ p \in ListenPort /\ rl' = NoRl
        /\ UNCHANGED <<cursor, old, owned, left, dial>>
    BY <1>0, <1>3, Zenon DEF SynQueue, Ready
  <2>2. rl'.id = 0
    BY <2>1, Zenon DEF NoRl
  <2>3. CASE CanQueue
    <3>1. /\ lis[p].bound /\ UNCHANGED <<bitmap, conn, table>>
          /\ lis' = [lis EXCEPT ![p].q = Append(lis[p].q, c)]
      BY <1>3, <2>3, Zenon DEF SynQueue, CanQueue
    <3>2. lis[p].q \in Seq(DOMAIN conn)
      BY <1>0, <2>1, Zenon DEF Ranges
    <3> HIDE DEF c, p
    <3>3. /\ lis'[p].q = Append(lis[p].q, c) /\ lis'[p].bound
          /\ \A k \in ListenPort : k # p => lis'[k] = lis[k]
      BY <1>0, <2>1, <3>1, Zenon
    <3>4. Append(lis[p].q, c) \in Seq(DOMAIN conn)
      BY <2>1, <3>2, SMTT(30)
    <3>5. Ranges'
      BY <1>0, <2>1, <2>2, <3>1, <3>3, <3>4, Zenon DEF Ranges
    <3>6. \A k \in ListenPort : ~lis'[k].bound => lis'[k].q = <<>>
      BY <1>0, <3>3, Zenon DEF Sides
    <3> DEFINE q == lis[p].q
               Els(l) == {l.q[i] : i \in DOMAIN l.q}
    <3>7. Els(lis[p]) \cup {c} \subseteq Els(lis'[p])
      <4> DEFINE a == Append(q, c)
      <4>1. /\ \A i \in DOMAIN q : i \in DOMAIN a /\ a[i] = q[i]
            /\ Len(q) + 1 \in DOMAIN a /\ a[Len(q) + 1] = c
        BY <2>1, <3>2, SMTT(30)
      <4>2. lis'[p].q = a
        BY <3>3, Zenon
      <4> HIDE DEF a
      <4> QED BY <4>1, <4>2, Zenon
    <3>8. Queued = UNION {Els(lis[k]) : k \in ListenPort} /\ Queued' = UNION {Els(lis'[k]) : k \in ListenPort}
      BY Zenon DEF Queued
    <3> HIDE DEF Els
    <3>9. Queued \cup {c} \subseteq Queued'
      BY <2>1, <3>3, <3>7, <3>8, SMTT(30)
    <3>10. \A b \in DOMAIN conn : Within(b) => Within(b)'
      BY <2>1, <3>9, Zenon DEF Within, c
    <3> QED BY <1>0, <2>1, <3>1, <3>5, <3>6, <3>10, HandStep, Zenon
  <2>4. CASE ~CanQueue
    <3>1. conn' = [conn EXCEPT ![c].st = "closed"] /\ RemoveConnection(c) /\ UNCHANGED lis
      BY <1>3, <2>4, Zenon DEF SynQueue, SetState
    <3> HIDE DEF c
    <3>2. "closed" \in State /\ TRUE \in BOOLEAN
      BY Zenon DEF State
    <3>3. /\ DOMAIN conn' = DOMAIN conn /\ Len(conn') = Len(conn)
          /\ \A b \in DOMAIN conn : b # c => conn'[b] = conn[b]
          /\ conn'[c].in = conn[c].in
          /\ conn'[c].st = "closed" \/ conn'[c].st = conn[c].st
      BY <1>0, <2>1, <3>1, <3>2, EditFacts, Zenon
    <3>4. bitmap' \subseteq Eph /\ table' = table \ {c}
      BY <1>0, <3>1, RemoveRange, Zenon DEF RemoveConnection
    <3>5. Ranges'
      BY <1>0, <2>1, <2>2, <3>1, <3>3, <3>4, Zenon DEF Ranges
    <3>6. Sides'
      BY <1>0, <2>1, <3>1, <3>3, SMTT(30) DEF Sides, Ready
    <3>7. NoOrphan'
      <4> SUFFICES ASSUME NEW b \in table', conn'[b].in, conn'[b].st = "established" PROVE Within(b)'
        BY Zenon DEF NoOrphan, Within
      <4>1. b \in table /\ b # c /\ conn'[b] = conn[b]
        BY <1>0, <3>3, <3>4, Zenon
      <4>2. Within(b)
        BY <4>1, Zenon DEF AInv, NoOrphan, Within
      <4>3. Queued' = Queued
        BY <3>1, SMTT(30) DEF Queued
      <4> QED BY <2>1, <4>1, <4>2, <4>3, Zenon DEF Within, c
    <3> QED BY <3>5, <3>6, <3>7, Zenon DEF AInv
  <2> QED BY <2>3, <2>4, Zenon
<1> QED BY <1>1, <1>2, <1>3, Zenon DEF SynStep

(* An edit of one connection with everything around it.                    *)
LEMMA EditReach ==
  ASSUME Typed, Ready, AInv, Typed', NEW c \in DOMAIN conn, NEW s \in State, NEW h \in BOOLEAN,
         \/ conn' = [conn EXCEPT ![c].st = s]
         \/ conn' = [conn EXCEPT ![c].held = h]
         \/ conn' = [conn EXCEPT ![c].st = s, ![c].held = h],
         conn[c].in => s \notin {"established", "synSent"},
         bitmap' \subseteq Eph, table' \subseteq table, old' \subseteq old,
         UNCHANGED <<cursor, lis, left, dial, rl>>,
         owned' = owned \/ (owned' = owned \ {c} /\ conn'[c].st = "finWait")
  PROVE  AInv'
<1>1. /\ DOMAIN conn' = DOMAIN conn /\ Len(conn') = Len(conn)
      /\ \A b \in DOMAIN conn : b # c => conn'[b] = conn[b]
      /\ conn'[c].in = conn[c].in
      /\ conn'[c].st = s \/ conn'[c].st = conn[c].st
  BY EditFacts, Zenon
<1>2. /\ old' \subseteq DOMAIN conn /\ owned' \subseteq DOMAIN conn
      /\ cursor' \in Eph
  BY Zenon DEF AInv, Ranges
<1>3. \A b \in owned \ owned' : conn'[b].st # "established"
  BY Zenon
<1> QED BY <1>1, <1>2, <1>3, KeptStep, Zenon

LEMMA ConnReach ==
  ASSUME PInv, PInv', AInv, NEW c \in DOMAIN conn, ConnStep(c)
  PROVE  AInv'
<1>0. /\ Typed /\ Ready /\ Typed' /\ Ranges /\ bitmap \subseteq Eph /\ cursor \in Eph
      /\ old \subseteq DOMAIN conn /\ owned \subseteq DOMAIN conn /\ table \subseteq DOMAIN conn
  BY Zenon DEF PInv, AInv, Ranges, Typed
<1>1. {"closed", "established", "finWait", "timeWait"} \subseteq State
  BY Zenon DEF State
<1>2. CASE RecvSynAck(c)
  <2>1. /\ conn' = [conn EXCEPT ![c].st = "established"] /\ conn[c].st = "synSent"
        /\ UNCHANGED <<bitmap, cursor, table, old, owned, lis, left, dial, rl>>
    BY <1>2, Zenon DEF RecvSynAck, SetState
  <2>2. ~conn[c].in
    BY <2>1, Zenon DEF AInv, Sides
  <2> QED BY <1>0, <1>1, <2>1, <2>2, EditReach, Zenon
<1>3. CASE RecvEarlyFin(c)
  <2>1. /\ conn' = [conn EXCEPT ![c].held = TRUE]
        /\ UNCHANGED <<bitmap, cursor, table, old, owned, lis, left, dial, rl>>
    BY <1>3, Zenon DEF RecvEarlyFin
  <2> QED BY <1>0, <1>1, <2>1, EditReach, Zenon
<1>4. CASE RecvFin(c) \/ HeldFinExpires(c)
  <2>1. /\ conn' = [conn EXCEPT ![c].st = "timeWait", ![c].held = FALSE] /\ old' \subseteq old
        /\ UNCHANGED <<bitmap, cursor, table, owned, lis, left, dial, rl>>
    BY <1>4, Zenon DEF RecvFin, HeldFinExpires, AcceptFIN
  <2> QED BY <1>0, <1>1, <2>1, EditReach, Zenon
<1>5. CASE RecvRst(c) \/ RetxGivesUp(c)
  <2>1. /\ \/ conn' = [conn EXCEPT ![c].st = "closed", ![c].held = FALSE]
           \/ conn' = [conn EXCEPT ![c].st = "closed"]
        /\ RemoveConnection(c)
        /\ UNCHANGED <<cursor, old, owned, lis, left, dial, rl>>
    BY <1>5, Zenon DEF RecvRst, RetxGivesUp, SetState
  <2>2. bitmap' \subseteq Eph /\ table' \subseteq table
    BY <1>0, <2>1, RemoveRange, Zenon
  <2> QED BY <1>0, <1>1, <2>1, <2>2, EditReach, Zenon
<1>6. CASE AppCloses(c)
  <2>1. /\ conn' = [conn EXCEPT ![c].st = "finWait", ![c].held = FALSE]
        /\ old' = old \ {c} /\ owned' = owned \ {c}
        /\ UNCHANGED <<bitmap, cursor, table, lis, left, dial, rl>>
    BY <1>6, Zenon DEF AppCloses, CloseConnection
  <2>2. conn'[c].st = "finWait"
    BY <1>0, <2>1, SMTT(30) DEF Typed, Conn
  <2> QED BY <1>0, <1>1, <2>1, <2>2, EditReach, Zenon
<1>7. CASE RecvAck(c) \/ Age(c)
  <2>1. /\ UNCHANGED <<bitmap, cursor, conn, table, owned, lis, left, dial, rl>>
        /\ old' \subseteq DOMAIN conn
    BY <1>0, <1>7, Zenon DEF RecvAck, Age
  <2> QED BY <1>0, <2>1, KeptStep, Zenon
<1> QED BY <1>2, <1>3, <1>4, <1>5, <1>6, <1>7, Zenon DEF ConnStep, PacketStep

LEMMA SweepReach ==
  ASSUME PInv, PInv', AInv, SweepStep
  PROVE  AInv'
<1>0. /\ Typed /\ Ready /\ Typed' /\ Ranges /\ bitmap \subseteq Eph /\ cursor \in Eph
      /\ old \subseteq DOMAIN conn /\ owned \subseteq DOMAIN conn /\ sw.todo \subseteq DOMAIN conn
  BY Zenon DEF PInv, AInv, Ranges, Typed
<1>1. CASE SweepStale \/ SweepIdle \/ SweepEnds
  <2>1. UNCHANGED <<bitmap, cursor, conn, table, old, owned, lis, left, dial, rl>>
    BY <1>1, Zenon DEF SweepStale, SweepIdle, SweepEnds
  <2> QED BY <1>0, <2>1, KeptStep, Zenon
<1>2. ASSUME NEW c \in sw.todo, SweepReaps(c) PROVE AInv'
  <2>1. RemoveConnection(c) /\ UNCHANGED <<cursor, conn, old, owned, lis, left, dial, rl>>
    BY <1>2, Zenon DEF SweepReaps
  <2>2. bitmap' \subseteq Eph /\ table' \subseteq table
    BY <1>0, <2>1, RemoveRange, Zenon
  <2> QED BY <1>0, <2>1, <2>2, KeptStep, Zenon
<1>3. ASSUME NEW c \in sw.todo, SweepCloses(c) PROVE AInv'
  <2>1. /\ conn' = [conn EXCEPT ![c].st = "finWait", ![c].held = FALSE]
        /\ old' = old \ {c} /\ UNCHANGED <<bitmap, cursor, table, owned, lis, left, dial, rl>>
    BY <1>3, Zenon DEF SweepCloses, CloseConnection
  <2>2. c \in DOMAIN conn /\ "finWait" \in State
    BY <1>0, Zenon DEF State
  <2> QED BY <1>0, <2>1, <2>2, EditReach, Zenon
<1> QED BY <1>1, <1>2, <1>3, Zenon DEF SweepStep

LEMMA StepReach == PInv /\ PInv' /\ AInv /\ [Next]_vars => AInv'
<1> SUFFICES ASSUME PInv, PInv', AInv, [Next]_vars PROVE AInv'
  BY Zenon
<1>1. CASE UNCHANGED vars
  BY <1>1, SMTT(30) DEF vars, AInv, Ranges, Sides, NoOrphan, Queued
<1> QED BY <1>1, DialReach, DatagramReach, ListenerReach, LeftReach, ArriveReach, SynReach,
           ConnReach, SweepReach, Zenon DEF Next

LEMMA InitReach == Init => AInv
<1> SUFFICES ASSUME Init PROVE AInv
  BY Zenon
<1>1. conn = <<>> /\ table = {} /\ \A p \in ListenPort : lis[p].q = <<>>
  BY Zenon DEF Init
<1>2. (\A d \in Dialer : dial[d].pc = "idle" /\ dial[d].id = 0) /\ rl.id = 0
  BY Zenon DEF Init, NoDial, NoRl
<1>3. Ranges
  <2>1. bitmap = {} /\ old = {} /\ owned = {} /\ left = {} /\ cursor \in Eph
    BY RangeAssumption, SMTT(30) DEF Init, Eph
  <2>2. Len(conn) <= MaxId
    BY <1>1, CountAssumption, SMTT(30)
  <2>3. ASSUME NEW S PROVE <<>> \in Seq(S)
    BY SMTT(30)
  <2>4. <<>> \in Seq(DOMAIN conn)
    BY <2>3, Zenon
  <2> QED BY <1>1, <1>2, <2>1, <2>2, <2>4, Zenon DEF Ranges
<1> QED BY <1>1, <1>2, <1>3, SMTT(30) DEF AInv, Sides, NoOrphan

LEMMA AcceptTypes == PInv /\ AInv => AcceptSound
<1> SUFFICES ASSUME PInv, AInv PROVE TypeOK
  BY Zenon DEF AInv, AcceptSound
<1>1. AnyRemote = Remote
  BY RemoteAssumption, Zenon DEF AnyRemote
<1>2. /\ Typed /\ Ranges
  BY Zenon DEF PInv, AInv
<1>3. lis \in [ListenPort -> [bound : BOOLEAN, gen : Nat, q : Seq(DOMAIN conn)]]
  BY <1>2, Zenon DEF Typed, Ranges
<1>4. dial \in [Dialer -> [pc : {"idle", "create", "syn", "wait"}, port : Nat,
                           rem : Remote, id : {0} \cup DOMAIN conn]]
  BY <1>1, <1>2, Zenon DEF Typed, Ranges
<1>5. rl \in [pc : {"idle", "create", "answer", "queue"}, port : Nat, rem : Remote,
              gen : Nat, id : {0} \cup DOMAIN conn]
  BY <1>1, <1>2, Zenon DEF Typed, Ranges
<1> QED BY <1>2, <1>3, <1>4, <1>5, Zenon DEF TypeOK, Typed, Ranges

\* An accepted connection that is listed and established is in a queue an
\* application reads, or an application has it, however listeners are unbound
\* and bound again under the packet loop, and whatever ports applications bind
\* (TrySend, Unbind, the range over AcceptCh); with it, the types of the port
\* manager's state.
THEOREM AcceptIsSound == Spec => []AcceptSound
<1> DEFINE J == PInv /\ AInv
<1>1. Init => J
  BY InitSound, InitReach, Zenon
<1>2. J /\ [Next]_vars => J'
  BY StepSound, StepReach, Zenon
<1>3. J => AcceptSound
  BY AcceptTypes, Zenon
<1> HIDE DEF J
<1> QED BY <1>1, <1>2, <1>3, PTL DEF Spec
=============================================================================
