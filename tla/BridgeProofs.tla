---------------------------- MODULE BridgeProofs ----------------------------
(***************************************************************************)
(* For every number of peers, every buffer and cell size and whatever the  *)
(* consumer and the peers do: a port has one reader at a time, what a peer *)
(* is sent has no hole and no byte of another peer's, and the consumer     *)
(* hears the peers in turn.                                                *)
(***************************************************************************)
EXTENDS MCBridge, WireCellsProofs

\* The values the loop, the tasks and the connections range over.
LoopTypeOK ==
  /\ mode \in Modes
  /\ loop \in {"next", "joining", "session"}
  /\ drain \in {"none", "spawned", "running", "aborted"}
  /\ session \in 0..MaxPeers
  /\ conn \in [Peers -> {"absent", "queued", "served", "over"}]
  /\ life \in [Peers -> {"open", "half", "gone"}]
  /\ up \in {"none", "running", "ended"} /\ down \in {"none", "running", "ended"}
  /\ loop = "session" <=> drain = "none"

DataTypeOK ==
  /\ inbox \in [Peers -> Seq(PortByte)] /\ outbox \in [Peers -> Seq(PortByte)]
  /\ \A k \in Peers : Len(inbox[k]) <= PtyBuf /\ Len(outbox[k]) <= PtyBuf
  /\ keys \in Seq(PortByte) /\ Len(keys) <= PtyBuf
  /\ pty \in Seq(PortByte) /\ Len(pty) <= PtyBuf
  /\ upcells \in Seq(Seq(PortByte)) /\ downcells \in Seq(Seq(PortByte))
  /\ faults \in Nat /\ typed \in Nat /\ sent \in [Peers -> Nat]
  /\ heard \in Seq(PortByte) /\ served \in [Peers -> Seq(PortByte)]

\* Connections are over in the order they came; a session's two tasks exist
\* while the loop is in it, and only a running one has cells to write.
Turns ==
  /\ \A k \in Peers :
       /\ conn[k] = "over" <=> k < session \/ (k = session /\ loop # "session")
       /\ conn[k] = "served" <=> \/ loop = "session" /\ k = session
                                 \/ loop = "joining" /\ k = session + 1
  /\ loop = "joining" => session < MaxPeers
  /\ loop = "session" => session > 0
  /\ loop = "session" <=> up # "none"
  /\ loop = "session" <=> down # "none"
  /\ up # "running" => upcells = << >>
  /\ down # "running" => downcells = << >>

LEMMA TypeParts == TypeOK /\ Turns <=> LoopTypeOK /\ DataTypeOK /\ Turns
BY DEF TypeOK, LoopTypeOK, DataTypeOK, Turns

LEMMA LoopInit == Init => LoopTypeOK /\ Turns
BY BridgeAssumption DEF Init, LoopTypeOK, Turns, Peers

LEMMA DataInit == Init => DataTypeOK
BY BridgeAssumption, BytesAssumption DEF Init, DataTypeOK, Peers

\* A session starts only when the drain has been joined and ends only with
\* both tasks; no step of a task or of the environment touches the turns.
LEMMA LoopStep ==
  ASSUME LoopTypeOK, Turns, [Next]_vars
  PROVE  LoopTypeOK' /\ Turns'
<1> USE BridgeAssumption DEF LoopTypeOK, Turns, Peers
<1>1. CASE Drain
  BY <1>1 DEF Drain, DrainStarts, DrainReads, wire, peers, port
<1>2. CASE StartSession
  BY <1>2 DEF StartSession, peers, port
<1>3. CASE EndSession
  BY <1>3 DEF EndSession, peers, port
<1>4. CASE Up
  BY <1>4 DEF Up, UpReads, UpWrites, UpFails, peers, port
<1>5. CASE Down \/ DownFails
  BY <1>5 DEF Down, DownReads, DownEnds, DownWrites, DownFails, peers, port
<1>6. CASE ConsumerTypes \/ ConsumerReads
  BY <1>6 DEF ConsumerTypes, ConsumerReads, wire, peers
<1>7. ASSUME NEW k \in Peers, NextPeer(k)
      PROVE  LoopTypeOK' /\ Turns'
  <2>1. k = session + 1
    <3>1. \A j \in 1..(k - 1) : j <= session
      BY <1>7 DEF NextPeer
    <3>2. k > session
      BY <1>7 DEF NextPeer
    <3>. QED BY <3>1, <3>2
  <2>. QED BY <1>7, <2>1 DEF NextPeer, wire, port
<1>8. ASSUME NEW k \in Peers,
             PeerConnects(k) \/ PeerSends(k) \/ PeerReads(k) \/ PeerLeaves(k)
      PROVE  LoopTypeOK' /\ Turns'
  BY <1>8, ZenonT(40) DEF PeerConnects, PeerSends, PeerReads, PeerLeaves, wire, port
<1>9. CASE UNCHANGED vars
  BY <1>9 DEF vars, wire, peers, port
<1>. QED BY <1>1, <1>2, <1>3, <1>4, <1>5, <1>6, <1>7, <1>8, <1>9 DEF Next

\* Every step keeps the types and the bounds of the buffers.
LEMMA DataStep ==
  ASSUME LoopTypeOK, DataTypeOK, Turns, [Next]_vars
  PROVE  DataTypeOK'
<1> USE BridgeAssumption, BytesAssumption
<1>0. /\ keys \in Seq(PortByte) /\ ReadOf(keys) \in Seq(PortByte)
      /\ LeftBy(keys) \in Seq(PortByte) /\ Len(LeftBy(keys)) <= Len(keys)
  BY ReadSplits, LeftByShorter DEF DataTypeOK
<1>1. CASE Drain
  <2>1. << >> \in Seq(PortByte) /\ Len(<< >>) <= PtyBuf
    BY EmptySeq
  <2>2. DrainReads => DataTypeOK'
    BY <2>1 DEF DrainReads, wire, peers, DataTypeOK
  <2>3. DrainStarts => DataTypeOK'
    BY DEF DrainStarts, wire, peers, port, DataTypeOK
  <2>. QED BY <1>1, <2>2, <2>3 DEF Drain
<1>2. CASE StartSession
  BY <1>2 DEF StartSession, peers, port, DataTypeOK
<1>3. CASE EndSession
  BY <1>3, EmptySeq DEF EndSession, peers, port, DataTypeOK
<1>4. CASE UpReads
  BY <1>0, <1>4, CellsType DEF UpReads, peers, port, DataTypeOK
<1>5. CASE UpWrites
  <2>1. session \in Peers
    BY <1>5 DEF UpWrites, Turns, LoopTypeOK, Peers
  <2>2. /\ outbox[session] \in Seq(PortByte) /\ Len(outbox[session]) <= PtyBuf
        /\ upcells \in Seq(Seq(PortByte)) /\ upcells # << >>
        /\ Head(upcells) \in Seq(PortByte)
    BY <1>5, <2>1, HeadTailProperties DEF UpWrites, DataTypeOK
  <2>3. /\ Filled(outbox[session], Head(upcells)) \in Seq(PortByte)
        /\ Len(Filled(outbox[session], Head(upcells))) <= PtyBuf
    BY <2>2, WriteSplits
  <2>4. CellsLeft(upcells, outbox[session]) \in Seq(Seq(PortByte))
    BY <2>2, CellsLeftType
  <2>. QED BY <1>5, <2>1, <2>3, <2>4 DEF UpWrites, port, DataTypeOK
<1>6. CASE UpFails
  BY <1>6, EmptySeq DEF UpFails, peers, port, DataTypeOK
<1>7. CASE DownReads
  <2>1. session \in Peers
    BY <1>7 DEF DownReads, Turns, LoopTypeOK, Peers
  <2>2. /\ inbox[session] \in Seq(PortByte) /\ Len(inbox[session]) <= PtyBuf
    BY <2>1 DEF DataTypeOK
  <2>3. /\ ReadOf(inbox[session]) \in Seq(PortByte)
        /\ LeftBy(inbox[session]) \in Seq(PortByte)
        /\ Len(LeftBy(inbox[session])) <= PtyBuf
    BY <2>2, ReadSplits, LeftByShorter, LenProperties
  <2>4. Cells(ReadOf(inbox[session])) \in Seq(Seq(PortByte))
    BY <2>3, CellsType
  <2>. QED BY <1>7, <2>1, <2>3, <2>4 DEF DownReads, port, DataTypeOK
<1>8. CASE DownEnds
  BY <1>8 DEF DownEnds, peers, port, DataTypeOK
<1>9. CASE DownWrites
  <2>1. /\ pty \in Seq(PortByte) /\ Len(pty) <= PtyBuf
        /\ downcells \in Seq(Seq(PortByte)) /\ downcells # << >>
        /\ Head(downcells) \in Seq(PortByte)
    BY <1>9, HeadTailProperties DEF DownWrites, DataTypeOK
  <2>2. Filled(pty, Head(downcells)) \in Seq(PortByte) /\ Len(Filled(pty, Head(downcells))) <= PtyBuf
    BY <2>1, WriteSplits
  <2>3. CellsLeft(downcells, pty) \in Seq(Seq(PortByte))
    BY <2>1, CellsLeftType
  <2>. QED BY <1>9, <2>2, <2>3 DEF DownWrites, peers, DataTypeOK
<1>10. CASE DownFails
  BY <1>10, EmptySeq DEF DownFails, peers, port, DataTypeOK
<1>11. CASE ConsumerTypes
  <2>1. Byte(IF loop = "session" THEN session ELSE 0, typed + 1) \in PortByte
    BY DEF Byte, PortByte, LoopTypeOK, DataTypeOK
  <2>2. /\ keys' \in Seq(PortByte) /\ Len(keys') = Len(keys) + 1
    BY <1>11, <2>1, AppendProperties DEF ConsumerTypes, DataTypeOK
  <2>3. Len(keys) + 1 <= PtyBuf
    BY <1>11, LenProperties DEF ConsumerTypes, Room, DataTypeOK
  <2>. QED BY <1>11, <2>2, <2>3 DEF ConsumerTypes, wire, peers, DataTypeOK
<1>12. CASE ConsumerReads
  BY <1>12, ConcatProperties, EmptySeq DEF ConsumerReads, wire, peers, DataTypeOK
<1>13. ASSUME NEW k \in Peers, NextPeer(k) \/ PeerConnects(k) \/ PeerLeaves(k)
       PROVE  DataTypeOK'
  BY <1>13 DEF NextPeer, PeerConnects, PeerLeaves, wire, port, DataTypeOK
<1>14. ASSUME NEW k \in Peers, PeerSends(k)
       PROVE  DataTypeOK'
  <2>1. Byte(k, sent[k] + 1) \in PortByte /\ sent[k] + 1 \in Nat
    <3>1. sent[k] \in Nat
      BY DEF DataTypeOK
    <3>2. k \in 0..MaxPeers
      BY DEF Peers
    <3>. QED BY <3>1, <3>2 DEF Byte, PortByte
  <2>2. inbox[k] \in Seq(PortByte) /\ Len(inbox[k]) + 1 <= PtyBuf
    BY <1>14, LenProperties DEF PeerSends, Room, DataTypeOK
  <2> DEFINE more == Append(inbox[k], Byte(k, sent[k] + 1))
  <2>3. more \in Seq(PortByte) /\ Len(more) <= PtyBuf
    BY <2>1, <2>2, AppendProperties
  <2>4. /\ inbox' = [inbox EXCEPT ![k] = more] /\ sent' = [sent EXCEPT ![k] = sent[k] + 1]
        /\ UNCHANGED <<wire, outbox, served, port, faults>>
    BY <1>14 DEF PeerSends
  <2> HIDE DEF more
  <2>. QED BY <2>1, <2>3, <2>4 DEF wire, port, DataTypeOK
<1>15. ASSUME NEW k \in Peers, PeerReads(k)
       PROVE  DataTypeOK'
  <2>1. served[k] \o outbox[k] \in Seq(PortByte)
    BY ConcatProperties DEF DataTypeOK
  <2>. QED BY <1>15, <2>1, EmptySeq DEF PeerReads, wire, port, DataTypeOK
<1>16. CASE UNCHANGED vars
  BY <1>16 DEF vars, wire, peers, port, DataTypeOK
<1>. QED BY <1>1, <1>2, <1>3, <1>4, <1>5, <1>6, <1>7, <1>8, <1>9, <1>10,
            <1>11, <1>12, <1>13, <1>14, <1>15, <1>16 DEF Next, Up, Down

\* At all times the values are in their types, the kernel's buffers hold what
\* they can, and the port has one reader: the drain, or the session's task,
\* never both (bridge.rs:153-159, 231-234).
THEOREM TypeCorrect == Spec => [](TypeOK /\ Turns)
<1>1. Init => TypeOK /\ Turns
  BY LoopInit, DataInit, TypeParts
<1>2. TypeOK /\ Turns /\ [Next]_vars => (TypeOK /\ Turns)'
  <2>1. TypeOK' /\ Turns' <=> LoopTypeOK' /\ DataTypeOK' /\ Turns'
    BY DEF TypeOK, LoopTypeOK, DataTypeOK, Turns
  <2>. QED BY <2>1, LoopStep, DataStep, TypeParts
<1>. QED BY <1>1, <1>2, PTL DEF Spec

-----------------------------------------------------------------------------
(* Port to peer.                                                           *)

\* How many of the bytes typed have left the port's buffer; those in it are
\* the ones typed since.
Passed == typed - Len(keys)

KeysNumbered == Passed \in Nat /\ \A i \in 1..Len(keys) : keys[i].n = Passed + i

ToPeers == [k \in Peers |-> ToPeer(k)]

\* What is sent to the peers, P, when s sessions have started, u is the state
\* of the last one's task and passed bytes have left the port.
UpSound(P, s, u, passed) ==
  /\ P \in [Peers -> Seq(PortByte)]
  /\ \A k \in Peers : Consecutive(P[k])
  /\ \A k \in Peers : \A i \in 1..Len(P[k]) : P[k][i].n <= passed
  /\ \A k \in Peers : k > s => P[k] = << >>
  /\ \A j, k \in Peers : j < k =>
       \A i \in 1..Len(P[j]), m \in 1..Len(P[k]) : P[j][i].n < P[k][m].n
  /\ u = "running" /\ P[s] # << >> => P[s][Len(P[s])].n = passed

UpInv == KeysNumbered /\ UpSound(ToPeers, session, up, Passed)

\* A byte of a sequence of them is numbered.
LEMMA ByteNumbered ==
  ASSUME NEW w \in Seq(PortByte), NEW i \in 1..Len(w)
  PROVE  w[i] \in PortByte /\ w[i].n \in Nat
<1>1. w[i] \in PortByte
  BY ElementOfSeq
<1>. QED BY <1>1 DEF PortByte

Begins(q, p) == Len(q) <= Len(p) /\ \A i \in 1..Len(q) : q[i] = p[i]

\* A step that only cuts off the ends of what the peers are sent keeps it
\* sound, and so does a session that starts with nothing to send.
LEMMA SoundShrinks ==
  ASSUME NEW P, NEW s \in Nat, NEW u, NEW passed \in Nat,
         UpSound(P, s, u, passed),
         NEW Q \in [Peers -> Seq(PortByte)], NEW t \in Nat, NEW v,
         NEW later \in Nat,
         \A k \in Peers : Begins(Q[k], P[k]),
         passed <= later, s <= t,
         v = "running" => \/ Q[t] = << >>
                          \/ u = "running" /\ s = t /\ passed = later /\ Q[t] = P[t]
  PROVE  UpSound(Q, t, v, later)
<1>1. \A k \in Peers : /\ P[k] \in Seq(PortByte) /\ Q[k] \in Seq(PortByte)
                       /\ Len(P[k]) \in Nat /\ Len(Q[k]) \in Nat
                       /\ Len(Q[k]) <= Len(P[k])
                       /\ \A i \in 1..Len(Q[k]) : Q[k][i] = P[k][i]
  BY LenProperties DEF UpSound, Begins
<1>2. \A k \in Peers : Consecutive(Q[k])
  <2> SUFFICES ASSUME NEW k \in Peers, NEW i \in 1..(Len(Q[k]) - 1)
               PROVE  Q[k][i + 1].n = Q[k][i].n + 1
    BY DEF Consecutive
  <2>1. i \in 1..(Len(P[k]) - 1) /\ i \in 1..Len(Q[k]) /\ i + 1 \in 1..Len(Q[k])
    BY <1>1
  <2>2. P[k][i + 1].n = P[k][i].n + 1
    BY <2>1 DEF UpSound, Consecutive
  <2>. QED BY <1>1, <2>1, <2>2
<1>3. \A k \in Peers : \A i \in 1..Len(Q[k]) : Q[k][i].n <= later
  <2> SUFFICES ASSUME NEW k \in Peers, NEW i \in 1..Len(Q[k])
               PROVE  Q[k][i].n <= later
    OBVIOUS
  <2>1. i \in 1..Len(P[k]) /\ Q[k][i] = P[k][i]
    BY <1>1
  <2>2. P[k][i].n <= passed /\ P[k][i].n \in Nat
    BY <1>1, <2>1, ByteNumbered DEF UpSound
  <2>. QED BY <2>1, <2>2
<1>4. \A k \in Peers : k > t => Q[k] = << >>
  <2> SUFFICES ASSUME NEW k \in Peers, k > t PROVE Q[k] = << >>
    OBVIOUS
  <2>1. P[k] = << >>
    BY DEF UpSound, Peers
  <2>2. Len(Q[k]) = 0
    BY <1>1, <2>1
  <2>. QED BY <1>1, <2>2, EmptySeq
<1>5. \A j, k \in Peers : j < k =>
        \A i \in 1..Len(Q[j]), m \in 1..Len(Q[k]) : Q[j][i].n < Q[k][m].n
  <2> SUFFICES ASSUME NEW j \in Peers, NEW k \in Peers, j < k,
                      NEW i \in 1..Len(Q[j]), NEW m \in 1..Len(Q[k])
               PROVE  Q[j][i].n < Q[k][m].n
    OBVIOUS
  <2>1. i \in 1..Len(P[j]) /\ m \in 1..Len(P[k])
    BY <1>1
  <2>. QED BY <1>1, <2>1 DEF UpSound
<1>6. v = "running" /\ Q[t] # << >> => Q[t][Len(Q[t])].n = later
  BY DEF UpSound
<1>. QED BY <1>2, <1>3, <1>4, <1>5, <1>6 DEF UpSound

\* Reading the port sends its peer the next bytes typed.
LEMMA SoundGrows ==
  ASSUME NEW P, NEW s \in Peers, NEW passed \in Nat,
         UpSound(P, s, "running", passed),
         NEW chunk \in Seq(PortByte),
         \A i \in 1..Len(chunk) : chunk[i].n = passed + i
  PROVE  UpSound([P EXCEPT ![s] = P[s] \o chunk], s, "running", passed + Len(chunk))
<1> DEFINE w == P[s]
           x == P[s] \o chunk
           Q == [P EXCEPT ![s] = x]
           a == Len(w)
           b == Len(chunk)
<1>1. /\ w \in Seq(PortByte) /\ a \in Nat /\ b \in Nat /\ s \in Nat
      /\ x \in Seq(PortByte) /\ Len(x) = a + b
      /\ \A i \in 1..a : x[i] = w[i] /\ w[i] \in PortByte
      /\ \A i \in 1..b : x[a + i] = chunk[i]
  BY LenProperties, ConcatProperties DEF UpSound, Peers
<1>2. /\ \A i \in 1..(a - 1) : w[i + 1].n = w[i].n + 1
      /\ \A i \in 1..a : w[i].n <= passed
      /\ a # 0 => w[a].n = passed
  BY <1>1, EmptySeq DEF UpSound, Consecutive
<1>3. /\ Q \in [Peers -> Seq(PortByte)] /\ Q[s] = x
      /\ \A k \in Peers \ {s} : Q[k] = P[k]
  BY <1>1 DEF UpSound
<1> HIDE DEF w, x, Q, a, b
<1>4. /\ \A i \in 1..a : x[i].n = w[i].n /\ w[i].n \in Nat
      /\ \A i \in (a + 1)..(a + b) : x[i].n = (passed + i) - a
  <2>1. \A i \in 1..a : x[i].n = w[i].n /\ w[i].n \in Nat
    BY <1>1, ByteNumbered DEF a
  <2>2. ASSUME NEW i \in (a + 1)..(a + b)
        PROVE  x[i].n = (passed + i) - a
    <3> DEFINE m == i - a
    <3>1. m \in 1..b /\ a + m = i /\ passed + m = (passed + i) - a
      BY <1>1
    <3> HIDE DEF m
    <3>2. x[a + m] = chunk[m] /\ chunk[m].n = passed + m
      BY <1>1, <3>1 DEF b
    <3>. QED BY <3>1, <3>2
  <2>. QED BY <2>1, <2>2
<1>5. Consecutive(x)
  <2> SUFFICES ASSUME NEW i \in 1..((a + b) - 1)
               PROVE  x[i + 1].n = x[i].n + 1
    BY <1>1 DEF Consecutive
  <2>0. i \in 1..(a + b) /\ i + 1 \in 1..(a + b) /\ i \in Nat
    BY <1>1
  <2>1. CASE i < a
    BY <1>1, <1>2, <1>4, <2>0, <2>1
  <2>2. CASE i = a
    BY <1>1, <1>2, <1>4, <2>0, <2>2
  <2>3. CASE i > a
    <3>1. i \in (a + 1)..(a + b) /\ i + 1 \in (a + 1)..(a + b)
      BY <1>1, <2>0, <2>3
    <3>2. x[i].n = (passed + i) - a /\ x[i + 1].n = (passed + (i + 1)) - a
      BY <1>4, <3>1
    <3>. QED BY <1>1, <2>0, <3>2
  <2>. QED BY <1>1, <2>0, <2>1, <2>2, <2>3
<1>6. \A i \in 1..(a + b) : x[i].n <= passed + b
  <2> SUFFICES ASSUME NEW i \in 1..(a + b) PROVE x[i].n <= passed + b
    OBVIOUS
  <2>1. CASE i \in 1..a
    <3>1. x[i].n = w[i].n /\ w[i].n \in Nat /\ w[i].n <= passed
      BY <1>2, <1>4, <2>1
    <3>. QED BY <1>1, <3>1
  <2>2. CASE i \in (a + 1)..(a + b)
    BY <1>1, <1>4, <2>2
  <2>. QED BY <1>1, <2>1, <2>2
<1>7. a + b # 0 => x[a + b].n = passed + b
  <2>1. CASE b = 0
    BY <1>1, <1>2, <1>4, <2>1
  <2>2. CASE b # 0
    <3>1. a + b \in (a + 1)..(a + b)
      BY <1>1, <2>2
    <3>2. x[a + b].n = (passed + (a + b)) - a
      BY <1>4, <3>1
    <3>. QED BY <1>1, <3>2
  <2>. QED BY <2>1, <2>2
<1>8. ASSUME NEW j \in Peers, NEW k \in Peers, j < k,
             NEW i \in 1..Len(Q[j]), NEW m \in 1..Len(Q[k])
      PROVE  Q[j][i].n < Q[k][m].n
  <2>1. CASE j # s /\ k # s
    BY <1>3, <1>8, <2>1 DEF UpSound
  <2>2. CASE j = s
    <3>1. k > s /\ Q[k] = P[k]
      BY <1>3, <1>8, <2>2 DEF Peers
    <3>2. P[k] = << >>
      BY <3>1 DEF UpSound
    <3>. QED BY <1>8, <3>1, <3>2
  <2>3. CASE k = s
    <3>1. j # s /\ Q[j] = P[j] /\ Q[k] = x
      BY <1>3, <1>8, <2>3 DEF Peers
    <3>2. P[j][i].n <= passed /\ P[j][i].n \in Nat
      <4>1. P[j] \in Seq(PortByte) /\ i \in 1..Len(P[j])
        BY <1>8, <3>1 DEF UpSound
      <4>. QED BY <4>1, ByteNumbered DEF UpSound
    <3>3. m \in 1..(a + b)
      BY <1>1, <1>8, <3>1
    <3>4. CASE m \in 1..a
      BY <1>4, <1>8, <2>3, <3>1, <3>3, <3>4, <1>1 DEF UpSound, w, a
    <3>5. CASE m > a
      <4>1. m \in (a + 1)..(a + b) /\ m \in Nat
        BY <1>1, <3>3, <3>5
      <4>2. x[m].n = (passed + m) - a
        BY <1>4, <4>1
      <4>3. (passed + m) - a > passed
        BY <1>1, <4>1
      <4>4. (passed + m) - a \in Int
        BY <1>1, <4>1
      <4>. QED BY <3>1, <3>2, <4>2, <4>3, <4>4
    <3>. QED BY <1>1, <3>3, <3>4, <3>5
  <2>. QED BY <2>1, <2>2, <2>3
<1>9. \A k \in Peers : Consecutive(Q[k])
  BY <1>3, <1>5 DEF UpSound
<1>10. \A k \in Peers : \A i \in 1..Len(Q[k]) : Q[k][i].n <= passed + b
  <2> SUFFICES ASSUME NEW k \in Peers, k # s, NEW i \in 1..Len(P[k])
               PROVE  P[k][i].n <= passed + b
    BY <1>1, <1>3, <1>6
  <2>1. P[k][i].n <= passed /\ P[k][i].n \in Nat
    <3>1. P[k] \in Seq(PortByte)
      BY DEF UpSound
    <3>. QED BY <3>1, ByteNumbered DEF UpSound
  <2>. QED BY <1>1, <2>1
<1>11. \A k \in Peers : k > s => Q[k] = << >>
  BY <1>1, <1>3 DEF UpSound, Peers
<1>12. Q[s] # << >> => Q[s][Len(Q[s])].n = passed + b
  BY <1>1, <1>3, <1>7, EmptySeq
<1>13. UpSound(Q, s, "running", passed + b)
  BY <1>3, <1>8, <1>9, <1>10, <1>11, <1>12 DEF UpSound
<1>. QED BY <1>13 DEF Q, b, x

LEMMA BeginsItself ==
  ASSUME NEW S, NEW p \in Seq(S), NEW q \in Seq(S)
  PROVE  Begins(p, p) /\ Begins(p, p \o q)
BY ConcatProperties, LenProperties DEF Begins

\* What a read returns, and what it leaves, are numbered as they were typed.
LEMMA ReadNumbers ==
  ASSUME NEW bytes \in Seq(PortByte), NEW p \in Nat,
         \A i \in 1..Len(bytes) : bytes[i].n = p + i
  PROVE  /\ Len(ReadOf(bytes)) \in Nat
         /\ Len(ReadOf(bytes)) + Len(LeftBy(bytes)) = Len(bytes)
         /\ \A i \in 1..Len(ReadOf(bytes)) : ReadOf(bytes)[i].n = p + i
         /\ \A i \in 1..Len(LeftBy(bytes)) :
              LeftBy(bytes)[i].n = (p + Len(ReadOf(bytes))) + i
<1> DEFINE r == ReadOf(bytes)
           l == LeftBy(bytes)
           a == Len(r)
           b == Len(l)
           c == Len(bytes)
<1>1. /\ a \in Nat /\ b \in Nat /\ c = a + b
      /\ \A i \in 1..a : r[i] = bytes[i]
      /\ \A i \in 1..b : l[i] = bytes[a + i]
      /\ \A i \in 1..c : bytes[i].n = p + i
  BY ReadIndices
<1> HIDE DEF r, l, a, b, c
<1>2. \A i \in 1..a : r[i].n = p + i
  BY <1>1
<1>3. ASSUME NEW i \in 1..b
      PROVE  l[i].n = (p + a) + i
  <2>1. a + i \in 1..c /\ p + (a + i) = (p + a) + i
    BY <1>1
  <2>. QED BY <1>1, <2>1
<1>. QED BY <1>1, <1>2, <1>3 DEF r, l, a, b, c

\* What a peer is sent is bytes.
LEMMA ToPeersType == DataTypeOK => ToPeers \in [Peers -> Seq(PortByte)]
<1> SUFFICES ASSUME DataTypeOK, NEW k \in Peers
             PROVE  ToPeer(k) \in Seq(PortByte)
  BY DEF ToPeers
<1>1. served[k] \in Seq(PortByte) /\ outbox[k] \in Seq(PortByte)
  BY DEF DataTypeOK
<1>2. Flat(upcells) \in Seq(PortByte)
  BY FlatType DEF Flat, DataTypeOK
<1>3. << >> \in Seq(PortByte)
  OBVIOUS
<1>. QED BY <1>1, <1>2, <1>3, ConcatProperties DEF ToPeer

\* A step other than reading the port sends nobody more than was being sent.
LEMMA UpShrinks ==
  ASSUME LoopTypeOK, DataTypeOK, UpInv, LoopTypeOK', DataTypeOK', KeysNumbered',
         \A k \in Peers : Begins(ToPeers'[k], ToPeers[k]),
         Passed <= Passed', session <= session',
         up' = "running" => \/ ToPeers'[session'] = << >>
                            \/ /\ up = "running" /\ session' = session
                               /\ Passed' = Passed
                               /\ ToPeers'[session] = ToPeers[session]
  PROVE  UpInv'
<1>1. ToPeers' \in [Peers -> Seq(PortByte)]
  <2>1. (DataTypeOK => ToPeers \in [Peers -> Seq(PortByte)])'
    BY ToPeersType, PTL
  <2>. QED BY <2>1 DEF PortByte, Peers
<1>2. /\ Passed \in Nat /\ Passed' \in Nat /\ session \in Nat /\ session' \in Nat
      /\ UpSound(ToPeers, session, up, Passed)
  BY BridgeAssumption DEF UpInv, KeysNumbered, LoopTypeOK
<1>3. UpSound(ToPeers', session', up', Passed')
  BY <1>1, <1>2, SoundShrinks
<1>. QED BY <1>3 DEF UpInv, UpSound, Peers, PortByte, Consecutive

LEMMA ToPeersSame ==
  UNCHANGED <<served, outbox, upcells, session>> => ToPeers' = ToPeers
BY DEF ToPeers, ToPeer, Flat

\* Nothing is being sent at the start.
LEMMA UpInit == Init => UpInv
<1> SUFFICES ASSUME Init PROVE UpInv
  OBVIOUS
<1>1. typed = 0 /\ keys = << >> /\ session = 0 /\ up = "none"
  BY DEF Init
<1>2. Len(keys) = 0 /\ Passed = 0
  <2>1. Len(keys) = 0
    BY <1>1, EmptySeq
  <2>2. Passed = 0 - 0
    BY <1>1, <2>1 DEF Passed
  <2>. QED BY <2>1, <2>2
<1>3. \A k \in Peers : ToPeer(k) = << >>
  BY FlatEmpty DEF Init, ToPeer, Flat, Peers
<1>4. /\ ToPeers \in [Peers -> Seq(PortByte)]
      /\ \A k \in Peers : ToPeers[k] = << >> /\ Len(ToPeers[k]) = 0
  BY <1>3, EmptySeq DEF ToPeers
<1>5. UpSound(ToPeers, session, up, Passed)
  BY <1>1, <1>4 DEF UpSound, Consecutive
<1>. QED BY <1>2, <1>5 DEF UpInv, KeysNumbered

\* The drain empties the port; the bytes dropped have left it.
LEMMA UpDrain ==
  ASSUME LoopTypeOK, DataTypeOK, Turns, UpInv, LoopTypeOK', DataTypeOK', DrainReads
  PROVE  UpInv'
<1>1. /\ keys' = << >> /\ typed' = typed /\ session' = session /\ up' = up
      /\ ToPeers' = ToPeers /\ up = "none"
  BY ToPeersSame DEF DrainReads, wire, peers, Turns, LoopTypeOK
<1>2. Len(keys') = 0 /\ Passed' = typed /\ typed \in Nat
  BY <1>1, EmptySeq DEF Passed, DataTypeOK
<1>3. Passed <= Passed' /\ KeysNumbered'
  BY <1>1, <1>2, LenProperties DEF Passed, KeysNumbered, UpInv, DataTypeOK
<1>4. \A k \in Peers : Begins(ToPeers'[k], ToPeers[k])
  BY <1>1, BeginsItself DEF UpInv, UpSound
<1>. QED BY <1>1, <1>3, <1>4, UpShrinks DEF LoopTypeOK

\* A session starts with nothing to send.
LEMMA UpStart ==
  ASSUME LoopTypeOK, DataTypeOK, Turns, UpInv, LoopTypeOK', DataTypeOK', StartSession
  PROVE  UpInv'
<1>1. /\ keys' = keys /\ typed' = typed /\ session' = session + 1
      /\ UNCHANGED <<served, outbox, upcells>> /\ upcells = << >>
      /\ session + 1 \in Peers
  BY BridgeAssumption DEF StartSession, peers, port, Turns, LoopTypeOK, Peers
<1>2. /\ Flat(upcells) = << >> /\ Flat(upcells') = << >>
      /\ \A k \in Peers : (served[k] \o outbox[k]) \o << >> = served[k] \o outbox[k]
  <2>1. \A k \in Peers : served[k] \o outbox[k] \in Seq(PortByte)
    BY ConcatProperties DEF DataTypeOK
  <2>. QED BY <1>1, <2>1, FlatEmpty, ConcatEmptySeq DEF Flat
<1>3. \A k \in Peers : /\ ToPeer(k) = served[k] \o outbox[k]
                       /\ ToPeer(k)' = served[k] \o outbox[k]
  BY <1>1, <1>2 DEF ToPeer
<1>4. ToPeers' = ToPeers
  BY <1>3 DEF ToPeers, Peers
<1>5. Passed' = Passed /\ KeysNumbered'
  BY <1>1 DEF Passed, KeysNumbered, UpInv
<1>6. ToPeers'[session'] = << >>
  BY <1>1, <1>4 DEF UpInv, UpSound, LoopTypeOK
<1>7. \A k \in Peers : Begins(ToPeers'[k], ToPeers[k])
  BY <1>4, BeginsItself DEF UpInv, UpSound
<1>8. Passed <= Passed' /\ session <= session'
  BY <1>1, <1>5 DEF UpInv, KeysNumbered, LoopTypeOK
<1>. QED BY <1>5, <1>6, <1>7, <1>8, UpShrinks

\* The end of a session, or of its task, drops what was read and not written.
LEMMA UpStops ==
  ASSUME LoopTypeOK, DataTypeOK, Turns, UpInv, LoopTypeOK', DataTypeOK',
         EndSession \/ UpFails
  PROVE  UpInv'
<1>1. /\ keys' = keys /\ typed' = typed /\ session' = session
      /\ UNCHANGED <<served, outbox>> /\ upcells' = << >> /\ up' # "running"
  BY DEF EndSession, UpFails, peers, port
<1>2. \A k \in Peers : /\ served[k] \o outbox[k] \in Seq(PortByte)
                       /\ Flat(upcells) \in Seq(PortByte)
  BY ConcatProperties, FlatType DEF Flat, DataTypeOK
<1>3. \A k \in Peers : ToPeer(k)' = served[k] \o outbox[k]
  BY <1>1, <1>2, FlatEmpty, ConcatEmptySeq DEF ToPeer, Flat
<1>4. \A k \in Peers : \/ ToPeer(k) = served[k] \o outbox[k]
                       \/ ToPeer(k) = (served[k] \o outbox[k]) \o Flat(upcells)
  BY <1>2, ConcatEmptySeq DEF ToPeer
<1>5. \A k \in Peers : Begins(ToPeers'[k], ToPeers[k])
  <2> SUFFICES ASSUME NEW k \in Peers PROVE Begins(ToPeers'[k], ToPeers[k])
    OBVIOUS
  <2>1. ToPeers'[k] = ToPeer(k)' /\ ToPeers[k] = ToPeer(k)
    BY DEF ToPeers, Peers
  <2>. QED BY <1>2, <1>3, <1>4, <2>1, BeginsItself
<1>6. Passed' = Passed /\ KeysNumbered'
  BY <1>1 DEF Passed, KeysNumbered, UpInv
<1>7. Passed <= Passed' /\ session <= session'
  BY <1>1, <1>6 DEF UpInv, KeysNumbered, LoopTypeOK
<1>. QED BY <1>1, <1>5, <1>6, <1>7, UpShrinks

\* What the session reads from the port is what comes next after all it sent.
LEMMA UpReading ==
  ASSUME LoopTypeOK, DataTypeOK, Turns, UpInv, UpReads
  PROVE  UpInv'
<1> DEFINE chunk == ReadOf(keys)
<1>1. /\ session \in Peers /\ up = "running" /\ upcells = << >>
      /\ keys \in Seq(PortByte) /\ Passed \in Nat
      /\ UpSound(ToPeers, session, "running", Passed)
  BY DEF UpReads, Turns, LoopTypeOK, DataTypeOK, Peers, UpInv, KeysNumbered
<1>2. /\ upcells' = Cells(chunk) /\ keys' = LeftBy(keys)
      /\ UNCHANGED <<served, outbox, session, up, typed>>
  BY DEF UpReads, peers
<1>3. chunk \in Seq(PortByte) /\ LeftBy(keys) \in Seq(PortByte)
  BY <1>1, ReadSplits
<1>4. /\ Len(chunk) \in Nat /\ Len(chunk) + Len(LeftBy(keys)) = Len(keys)
      /\ \A i \in 1..Len(chunk) : chunk[i].n = Passed + i
      /\ \A i \in 1..Len(LeftBy(keys)) : LeftBy(keys)[i].n = (Passed + Len(chunk)) + i
  BY <1>1, ReadNumbers DEF UpInv, KeysNumbered
<1>5. Flat(upcells') = chunk /\ Flat(upcells) = << >>
  BY <1>1, <1>2, <1>3, CellsWhole, FlatEmpty DEF Flat
<1> HIDE DEF chunk
<1>6. Passed' = Passed + Len(chunk)
  <2> DEFINE a == Len(chunk)
             b == Len(LeftBy(keys))
             c == Len(keys)
  <2>1. a \in Nat /\ b \in Nat /\ c \in Nat /\ typed \in Nat /\ a + b = c
    BY <1>1, <1>3, <1>4, LenProperties DEF DataTypeOK
  <2>2. Passed = typed - c /\ Passed' = typed - b
    BY <1>2 DEF Passed
  <2> HIDE DEF a, b, c
  <2>3. typed - b = (typed - c) + a
    BY <2>1
  <2>. QED BY <2>2, <2>3 DEF a
<1>7. KeysNumbered'
  BY <1>1, <1>2, <1>4, <1>6 DEF KeysNumbered
<1>8. \A k \in Peers : served[k] \o outbox[k] \in Seq(PortByte)
  BY ConcatProperties DEF DataTypeOK
<1>9. /\ ToPeer(session) = served[session] \o outbox[session]
      /\ ToPeer(session)' = (served[session] \o outbox[session]) \o chunk
      /\ \A k \in Peers \ {session} : ToPeer(k)' = ToPeer(k)
  BY <1>1, <1>2, <1>5, <1>8, ConcatEmptySeq DEF ToPeer
<1>10. ToPeers' = [ToPeers EXCEPT ![session] = ToPeers[session] \o chunk]
  <2>1. ToPeers[session] = ToPeer(session)
    BY <1>1 DEF ToPeers
  <2>2. ToPeer(session)' = ToPeers[session] \o chunk
    BY <1>9, <2>1
  <2>3. ToPeers' = [k \in Peers |-> ToPeer(k)']
    BY DEF ToPeers, Peers
  <2>4. ToPeers = [k \in Peers |-> ToPeer(k)]
    BY DEF ToPeers
  <2> HIDE DEF ToPeers
  <2>5. ToPeers' = [k \in Peers |-> IF k = session THEN ToPeers[session] \o chunk
                                                   ELSE ToPeer(k)]
    BY <1>2, <1>9, <2>2, <2>3
  <2>. QED BY <2>4, <2>5
<1>11. UpSound([ToPeers EXCEPT ![session] = ToPeers[session] \o chunk],
               session, "running", Passed + Len(chunk))
  BY <1>1, <1>3, <1>4, SoundGrows
<1>12. UpSound(ToPeers', session', up', Passed')
  BY <1>1, <1>2, <1>6, <1>10, <1>11
<1>. QED BY <1>7, <1>12 DEF UpInv, UpSound, Peers, PortByte, Consecutive

\* A write moves bytes from the task to the connection, a read of the peer's
\* from there to the peer.
LEMMA ToPeersMoved ==
  ASSUME LoopTypeOK, DataTypeOK, Turns,
         UpWrites \/ \E k \in Peers : PeerReads(k)
  PROVE  ToPeers' = ToPeers
<1> USE DEF Flat
<1>1. CASE UpWrites
  <2> DEFINE full == Filled(outbox[session], Head(upcells))
             left == FlattenSeq(CellsLeft(upcells, outbox[session]))
             flat == FlattenSeq(upcells)
  <2>1. /\ session \in Peers /\ upcells # << >> /\ upcells \in Seq(Seq(PortByte))
        /\ outbox[session] \in Seq(PortByte) /\ Len(outbox[session]) <= PtyBuf
        /\ served[session] \in Seq(PortByte)
    <3>1. session \in Peers
      BY <1>1 DEF UpWrites, Turns, LoopTypeOK, Peers
    <3>. QED BY <1>1, <3>1 DEF UpWrites, DataTypeOK
  <2>2. Head(upcells) \in Seq(PortByte)
    BY <2>1, HeadTailProperties
  <2>3. full \in Seq(PortByte) /\ left \in Seq(PortByte) /\ flat \in Seq(PortByte)
    BY <2>1, <2>2, WriteSplits, CellsLeftType, FlatType
  <2>4. full \o left = outbox[session] \o flat
    BY <2>1, CellsWritten
  <2>5. /\ outbox' = [outbox EXCEPT ![session] = full]
        /\ FlattenSeq(upcells') = left
        /\ UNCHANGED <<session, served>>
    BY <1>1 DEF UpWrites
  <2> HIDE DEF full, left, flat
  <2>6. (served[session] \o full) \o left = (served[session] \o outbox[session]) \o flat
    <3>1. \A a, b, c \in Seq(PortByte) : (a \o b) \o c = a \o (b \o c)
      <4>1. Associative(PortByte)
        BY Regrouped, Zenon
      <4>. QED BY <4>1, Zenon DEF Associative
    <3>2. (served[session] \o full) \o left = served[session] \o (full \o left)
      BY <2>1, <2>3, <3>1, Zenon
    <3>3. (served[session] \o outbox[session]) \o flat
            = served[session] \o (outbox[session] \o flat)
      BY <2>1, <2>3, <3>1, Zenon
    <3>. QED BY <2>4, <3>2, <3>3, Zenon
  <2>7. ToPeer(session)' = ToPeer(session)
    <3>1. ToPeer(session) = (served[session] \o outbox[session]) \o flat
      BY DEF ToPeer, flat
    <3>2. ToPeer(session)' = (served[session] \o full) \o left
      BY <2>1, <2>5 DEF ToPeer, DataTypeOK
    <3>. QED BY <2>6, <3>1, <3>2
  <2>8. \A k \in Peers \ {session} : ToPeer(k)' = ToPeer(k)
    BY <2>1, <2>5 DEF ToPeer, DataTypeOK
  <2>9. \A k \in Peers : ToPeer(k)' = ToPeer(k)
    BY <2>5, <2>7, <2>8
  <2>. QED BY <2>9 DEF ToPeers, Peers
<1>2. ASSUME NEW k \in Peers, PeerReads(k)
      PROVE  ToPeers' = ToPeers
  <2>1. /\ served' = [served EXCEPT ![k] = served[k] \o outbox[k]]
        /\ outbox' = [outbox EXCEPT ![k] = << >>]
        /\ UNCHANGED <<session, upcells>>
    BY <1>2 DEF PeerReads, wire
  <2>2. served[k] \o outbox[k] \in Seq(PortByte)
    BY ConcatProperties DEF DataTypeOK
  <2>3. (served[k] \o outbox[k]) \o << >> = served[k] \o outbox[k]
    BY <2>2, ConcatEmptySeq
  <2>4. \A j \in Peers : served'[j] \o outbox'[j] = served[j] \o outbox[j]
    BY <2>1, <2>3 DEF DataTypeOK
  <2>5. \A j \in Peers : ToPeer(j)' = ToPeer(j)
    BY <2>1, <2>4 DEF ToPeer
  <2>. QED BY <2>5 DEF ToPeers, Peers
<1>. QED BY <1>1, <1>2

\* Every step keeps what is sent to the peers sound.
LEMMA UpStep ==
  ASSUME LoopTypeOK, DataTypeOK, Turns, UpInv, LoopTypeOK', DataTypeOK', [Next]_vars
  PROVE  UpInv'
<1>1. ASSUME ToPeers' = ToPeers, UNCHANGED <<keys, typed, session, up>>
      PROVE  UpInv'
  <2>1. Passed' = Passed /\ KeysNumbered'
    BY <1>1 DEF Passed, KeysNumbered, UpInv
  <2>2. UpSound(ToPeers', session', up', Passed')
    BY <1>1, <2>1 DEF UpInv
  <2>. QED BY <2>1, <2>2 DEF UpInv, UpSound, Peers, PortByte, Consecutive
<1>2. CASE UpWrites
  BY <1>1, <1>2, ToPeersMoved DEF UpWrites, port
<1>3. ASSUME NEW k \in Peers, PeerReads(k)
      PROVE  UpInv'
  BY <1>1, <1>3, ToPeersMoved DEF PeerReads, wire, port
<1>4. CASE ConsumerTypes
  <2>1. /\ keys \in Seq(PortByte) /\ typed \in Nat /\ typed' = typed + 1
        /\ ToPeers' = ToPeers /\ session' = session /\ up' = up
    BY <1>4, ToPeersSame DEF ConsumerTypes, wire, peers, DataTypeOK
  <2> DEFINE b == Byte(IF loop = "session" THEN session ELSE 0, typed + 1)
  <2>2. keys' = Append(keys, b) /\ b.n = typed + 1
    BY <1>4 DEF ConsumerTypes, Byte
  <2> HIDE DEF b
  <2>3. /\ Len(keys') = Len(keys) + 1 /\ Len(keys) \in Nat
        /\ keys'[Len(keys) + 1] = b
        /\ \A i \in 1..Len(keys) : keys'[i] = keys[i]
    BY <2>1, <2>2, LenProperties, AppendProperties
  <2>4. Passed' = Passed /\ Passed \in Nat /\ Passed = typed - Len(keys)
    BY <2>1, <2>3 DEF Passed, UpInv, KeysNumbered
  <2>5. \A i \in 1..Len(keys') : keys'[i].n = Passed + i
    <3> SUFFICES ASSUME NEW i \in 1..Len(keys') PROVE keys'[i].n = Passed + i
      OBVIOUS
    <3>1. CASE i \in 1..Len(keys)
      BY <2>3, <3>1 DEF UpInv, KeysNumbered
    <3>2. CASE i = Len(keys) + 1
      BY <2>1, <2>2, <2>3, <2>4, <3>2
    <3>. QED BY <2>3, <3>1, <3>2
  <2>6. UpSound(ToPeers', session', up', Passed')
    BY <2>1, <2>4 DEF UpInv
  <2>. QED BY <2>4, <2>5, <2>6 DEF UpInv, UpSound, KeysNumbered, Peers, PortByte, Consecutive
<1>5. CASE Drain
  <2>1. DrainStarts => UNCHANGED <<served, outbox, upcells, keys, typed, session, up>>
    BY DEF DrainStarts, wire, peers, port
  <2>. QED BY <1>1, <1>5, <2>1, UpDrain, ToPeersSame DEF Drain
<1>6. CASE DownFails \/ Down \/ ConsumerReads \/ UNCHANGED vars
  <2>1. UNCHANGED <<served, outbox, upcells, keys, typed, session, up>>
    BY <1>6 DEF DownFails, Down, DownReads, DownEnds, DownWrites, ConsumerReads,
       vars, wire, peers, port
  <2>. QED BY <1>1, <2>1, ToPeersSame
<1>7. ASSUME NEW k \in Peers,
             NextPeer(k) \/ PeerConnects(k) \/ PeerSends(k) \/ PeerLeaves(k)
      PROVE  UpInv'
  <2>1. UNCHANGED <<served, outbox, upcells, keys, typed, session, up>>
    BY <1>7 DEF NextPeer, PeerConnects, PeerSends, PeerLeaves, wire, port
  <2>. QED BY <1>1, <2>1, ToPeersSame
<1>. QED BY <1>2, <1>3, <1>4, <1>5, <1>6, <1>7, UpStart, UpStops, UpReading DEF Next, Up

\* While the session's task runs, what it holds and what waits in the port are
\* numbered without a gap.
LEMMA HeldThenKeys ==
  ASSUME LoopTypeOK, DataTypeOK, Turns, UpInv, up = "running"
  PROVE  Consecutive(Flat(upcells) \o keys)
<1> DEFINE pre == served[session] \o outbox[session]
           f == Flat(upcells)
           w == pre \o f
           a == Len(pre)
           b == Len(f)
           c == Len(keys)
           x == f \o keys
<1>1. session \in Peers
  BY DEF Turns, LoopTypeOK, Peers
<1>2. /\ pre \in Seq(PortByte) /\ f \in Seq(PortByte) /\ keys \in Seq(PortByte)
      /\ ToPeers[session] = w
  <2>1. served[session] \in Seq(PortByte) /\ outbox[session] \in Seq(PortByte)
    BY <1>1 DEF DataTypeOK
  <2>. QED BY <1>1, <2>1, ConcatProperties, FlatType DEF Flat, DataTypeOK, ToPeers, ToPeer
<1> HIDE DEF pre, f
<1>3. /\ a \in Nat /\ b \in Nat /\ c \in Nat /\ w \in Seq(PortByte) /\ Len(w) = a + b
      /\ \A i \in 1..b : w[a + i] = f[i]
  BY <1>2, LenProperties, ConcatProperties
<1>4. /\ Len(x) = b + c
      /\ \A i \in 1..b : x[i] = f[i]
      /\ \A i \in 1..c : x[b + i] = keys[i]
  BY <1>2, LenProperties, ConcatProperties
<1>5. /\ Passed \in Nat
      /\ Consecutive(w)
      /\ w # << >> => w[Len(w)].n = Passed
      /\ \A i \in 1..c : keys[i].n = Passed + i
  BY <1>1, <1>2 DEF UpInv, UpSound, KeysNumbered
<1> HIDE DEF w, a, b, c, x
<1>6. ASSUME NEW i \in 1..((b + c) - 1)
      PROVE  x[i + 1].n = x[i].n + 1
  <2>0. i \in Nat /\ i # 0
    BY <1>3
  <2>1. CASE i < b
    <3>1. i \in 1..b /\ i + 1 \in 1..b /\ a + i \in 1..((a + b) - 1) /\ a + (i + 1) = (a + i) + 1
      BY <1>3, <2>0, <2>1
    <3>2. w[(a + i) + 1].n = w[a + i].n + 1
      BY <1>3, <1>5, <3>1 DEF Consecutive
    <3>. QED BY <1>3, <1>4, <3>1, <3>2
  <2>2. CASE i = b
    <3>1. b \in 1..b /\ 1 \in 1..c
      BY <1>3, <2>0, <2>2
    <3>2. w # << >>
      <4>1. a + b # 0
        BY <1>3, <3>1
      <4>. QED BY <1>3, <4>1, EmptySeq
    <3>3. w[a + b].n = Passed
      BY <1>3, <1>5, <3>2
    <3>4. x[b].n = Passed /\ x[b + 1].n = Passed + 1
      BY <1>3, <1>4, <1>5, <3>1, <3>3
    <3>. QED BY <2>2, <3>4
  <2>3. CASE i > b
    <3> DEFINE m == i - b
    <3>1. m \in 1..c /\ m + 1 \in 1..c /\ b + m = i /\ b + (m + 1) = i + 1 /\ m \in Nat
      BY <1>3, <2>0, <2>3
    <3> HIDE DEF m
    <3>2. x[i] = keys[m] /\ x[i + 1] = keys[m + 1]
      BY <1>4, <3>1
    <3>3. keys[m].n = Passed + m /\ keys[m + 1].n = Passed + (m + 1)
      BY <1>5, <3>1
    <3>. QED BY <1>5, <3>1, <3>2, <3>3
  <2>. QED BY <1>3, <2>0, <2>1, <2>2, <2>3
<1>. QED BY <1>4, <1>6 DEF Consecutive, x, f

LEMMA UpAlways == Spec => [](LoopTypeOK /\ DataTypeOK /\ Turns /\ UpInv)
<1>1. Init => LoopTypeOK /\ DataTypeOK /\ Turns /\ UpInv
  BY LoopInit, DataInit, UpInit
<1>2. LoopTypeOK /\ DataTypeOK /\ Turns /\ UpInv /\ [Next]_vars
        => (LoopTypeOK /\ DataTypeOK /\ Turns /\ UpInv)'
  BY LoopStep, DataStep, UpStep
<1>. QED BY <1>1, <1>2, PTL DEF Spec

\* At all times what a peer is sent is an unbroken run of what was typed, and
\* so is what the session holds with what still waits in the port
\* (bridge.rs:153-159, 231-234).
THEOREM NothingMissing == Spec => []NoHoles
<1>1. LoopTypeOK /\ DataTypeOK /\ Turns /\ UpInv => NoHoles
  <2> SUFFICES ASSUME LoopTypeOK, DataTypeOK, Turns, UpInv
               PROVE  NoHoles
    OBVIOUS
  <2>1. \A k \in Peers : Consecutive(ToPeer(k))
    BY DEF UpInv, UpSound, ToPeers
  <2>. QED BY <2>1, HeldThenKeys DEF NoHoles
<1>. QED BY <1>1, UpAlways, PTL

\* At all times a byte sent to one peer was typed before every byte sent to a
\* later one: none is sent to two (bridge.rs:411-413).
THEOREM NothingReplayed == Spec => []NoReplay
<1>1. LoopTypeOK /\ DataTypeOK /\ Turns /\ UpInv => NoReplay
  <2> SUFFICES ASSUME UpInv,
                      NEW j \in Peers, NEW k \in Peers, j < k,
                      NEW a \in ToSet(ToPeer(j)), NEW b \in ToSet(ToPeer(k))
               PROVE  a.n < b.n
    BY DEF NoReplay
  <2>1. /\ ToPeers[j] = ToPeer(j) /\ ToPeers[k] = ToPeer(k)
        /\ ToPeer(j) \in Seq(PortByte) /\ ToPeer(k) \in Seq(PortByte)
    BY DEF UpInv, UpSound, ToPeers
  <2>2. PICK i \in 1..Len(ToPeer(j)) : a = ToPeer(j)[i]
    BY <2>1, LenProperties DEF ToSet
  <2>3. PICK m \in 1..Len(ToPeer(k)) : b = ToPeer(k)[m]
    BY <2>1, LenProperties DEF ToSet
  <2>. QED BY <2>1, <2>2, <2>3 DEF UpInv, UpSound
<1>. QED BY <1>1, UpAlways, PTL

-----------------------------------------------------------------------------
(* Peer to port.                                                           *)

\* Everything the consumer has heard or is about to.
ToConsumer == heard \o pty \o Flat(downcells)

InTurn(a) ==
  \A i \in 1..Len(a) :
    \/ a[i].n = 1 /\ (i > 1 => a[i - 1].from < a[i].from)
    \/ i > 1 /\ a[i].from = a[i - 1].from /\ a[i].n = a[i - 1].n + 1

\* How much of the s-th peer's stream is in a, which ends with it.
Got(a, s) == IF a # << >> /\ a[Len(a)].from = s THEN a[Len(a)].n ELSE 0

\* A connection's buffer once got of the peer's bytes have been read from it.
Waiting(box, k, got) == \A i \in 1..Len(box) : box[i] = Byte(k, got + i)

\* What the consumer hears, a, when s sessions have started.
DownSound(a, s) ==
  /\ a \in Seq(PortByte) /\ InTurn(a)
  /\ \A i \in 1..Len(a) : a[i].from \in 1..s

DownInv ==
  /\ DownSound(ToConsumer, session)
  /\ \A k \in Peers : k > session => Waiting(inbox[k], k, 0) /\ sent[k] = Len(inbox[k])
  /\ down = "running" =>
       LET got == Got(ToConsumer, session)
       IN  Waiting(inbox[session], session, got) /\ sent[session] = got + Len(inbox[session])

LEMMA GotType ==
  ASSUME NEW a \in Seq(PortByte), NEW s
  PROVE  Got(a, s) \in Nat
<1>1. a # << >> => Len(a) \in 1..Len(a)
  BY LenProperties, EmptySeq
<1>. QED BY <1>1, ByteNumbered DEF Got

\* The end of a session may cut what the consumer hears short; it stays in turn.
LEMMA SoundCut ==
  ASSUME NEW a, NEW s \in Nat, NEW b \in Seq(PortByte), DownSound(a, s), Begins(b, a)
  PROVE  DownSound(b, s)
<1>1. Len(a) \in Nat /\ Len(b) \in Nat /\ Len(b) <= Len(a) /\ \A i \in 1..Len(b) : b[i] = a[i]
  BY LenProperties DEF DownSound, Begins
<1>2. ASSUME NEW i \in 1..Len(b)
      PROVE  /\ i \in 1..Len(a) /\ b[i] = a[i]
             /\ i > 1 => b[i - 1] = a[i - 1]
  BY <1>1
<1>. QED BY <1>2 DEF DownSound, InTurn

\* The next bytes of the peer in service go on where the consumer's stream ends.
LEMMA SoundGoesOn ==
  ASSUME NEW a, NEW s \in Peers, DownSound(a, s), NEW chunk \in Seq(PortByte),
         Waiting(chunk, s, Got(a, s))
  PROVE  /\ DownSound(a \o chunk, s)
         /\ Got(a \o chunk, s) = Got(a, s) + Len(chunk)
<1> DEFINE x == a \o chunk
           m == Len(a)
           b == Len(chunk)
           g == Got(a, s)
<1>1. /\ m \in Nat /\ b \in Nat /\ g \in Nat /\ x \in Seq(PortByte) /\ Len(x) = m + b
      /\ \A i \in 1..m : x[i] = a[i]
      /\ \A i \in 1..b : x[m + i] = chunk[i]
  BY LenProperties, ConcatProperties, GotType DEF DownSound
<1>2. \A i \in 1..b : x[m + i].n = g + i /\ x[m + i].from = s
  <2>1. \A i \in 1..b : chunk[i] = Byte(s, g + i)
    BY DEF Waiting
  <2>2. \A i \in 1..b : chunk[i].n = g + i /\ chunk[i].from = s
    <3> SUFFICES ASSUME NEW i \in 1..b
                 PROVE  chunk[i].n = g + i /\ chunk[i].from = s
      OBVIOUS
    <3> HIDE DEF g, b
    <3>1. chunk[i] = Byte(s, g + i)
      BY <2>1
    <3>2. Byte(s, g + i).n = g + i /\ Byte(s, g + i).from = s
      BY DEF Byte
    <3>. QED BY <3>1, <3>2
  <2> HIDE DEF x, m, g, b
  <2>. QED BY <1>1, <2>2
<1>3. /\ s \in Nat \ {0}
      /\ m # 0 => /\ a[m].from \in 1..s
                  /\ IF a[m].from = s THEN g = a[m].n ELSE g = 0
      /\ m = 0 => g = 0
  BY <1>1, EmptySeq DEF DownSound, Got, Peers
<1>4. InTurn(a) /\ \A i \in 1..m : a[i].from \in 1..s
  BY DEF DownSound
<1> HIDE DEF x, m, b, g
<1>5. ASSUME NEW i \in 1..(m + b)
      PROVE  /\ x[i].from \in 1..s
             /\ \/ x[i].n = 1 /\ (i > 1 => x[i - 1].from < x[i].from)
                \/ i > 1 /\ x[i].from = x[i - 1].from /\ x[i].n = x[i - 1].n + 1
  <2>1. CASE i <= m
    <3>1. i \in 1..m /\ (i > 1 => i - 1 \in 1..m)
      BY <1>1, <2>1
    <3>. QED BY <1>1, <1>4, <3>1 DEF InTurn, m
  <2>2. CASE i = m + 1
    <3>1. 1 \in 1..b /\ x[i].n = g + 1 /\ x[i].from = s
      BY <1>1, <1>2, <2>2
    <3>2. CASE m = 0
      BY <1>1, <1>3, <2>2, <3>1, <3>2
    <3>3. CASE m # 0
      <4>1. m \in 1..m /\ i > 1 /\ i - 1 = m /\ x[m] = a[m]
        BY <1>1, <2>2, <3>3
      <4>. QED BY <1>1, <1>3, <3>1, <3>3, <4>1
    <3>. QED BY <3>2, <3>3
  <2>3. CASE i > m + 1
    <3> DEFINE j == i - m
    <3>1. j \in 1..b /\ j - 1 \in 1..b /\ m + j = i /\ m + (j - 1) = i - 1 /\ i > 1
      BY <1>1, <2>3
    <3> HIDE DEF j
    <3>2. x[i].n = g + j /\ x[i].from = s /\ x[i - 1].n = g + (j - 1) /\ x[i - 1].from = s
      BY <1>2, <3>1
    <3>3. g + j = (g + (j - 1)) + 1
      BY <1>1, <3>1
    <3>. QED BY <1>3, <3>1, <3>2, <3>3
  <2>. QED BY <1>1, <2>1, <2>2, <2>3
<1>6. DownSound(x, s)
  BY <1>1, <1>5 DEF DownSound, InTurn
<1>7. Got(x, s) = g + b
  <2>1. CASE b = 0
    <3>1. chunk = << >>
      BY <2>1, EmptySeq DEF b
    <3>2. x = a
      BY <3>1, ConcatEmptySeq DEF x, DownSound
    <3>. QED BY <1>1, <2>1, <3>2 DEF g
  <2>2. CASE b # 0
    <3>1. b \in 1..b /\ Len(x) = m + b /\ m + b # 0
      BY <1>1, <2>2
    <3>2. x[m + b].n = g + b /\ x[m + b].from = s /\ x # << >>
      BY <1>2, <3>1, EmptySeq
    <3>. QED BY <3>1, <3>2 DEF Got
  <2>. QED BY <2>1, <2>2
<1>. QED BY <1>6, <1>7 DEF x, g, b

\* Nothing is heard at the start.
LEMMA DownInit == Init => DownInv
<1> SUFFICES ASSUME Init PROVE DownInv
  OBVIOUS
<1>1. ToConsumer = << >> /\ down = "none" /\ session = 0
  BY FlatEmpty DEF Init, ToConsumer, Flat
<1>2. DownSound(ToConsumer, session)
  BY <1>1, EmptySeq DEF DownSound, InTurn
<1>3. \A k \in Peers : Waiting(inbox[k], k, 0) /\ sent[k] = Len(inbox[k])
  BY EmptySeq DEF Init, Waiting
<1>. QED BY <1>1, <1>2, <1>3 DEF DownInv

\* What the consumer hears is bytes.
LEMMA ToConsumerType ==
  DataTypeOK => /\ ToConsumer \in Seq(PortByte)
                /\ heard \o pty \in Seq(PortByte) /\ Flat(downcells) \in Seq(PortByte)
BY ConcatProperties, FlatType DEF DataTypeOK, ToConsumer, Flat

\* A write moves bytes from the task to the port, a read of the consumer's from
\* there to the consumer.
LEMMA ToConsumerMoved ==
  ASSUME DataTypeOK, DownWrites \/ ConsumerReads
  PROVE  ToConsumer' = ToConsumer
<1> USE DEF Flat
<1>1. CASE DownWrites
  <2> DEFINE full == Filled(pty, Head(downcells))
             left == FlattenSeq(CellsLeft(downcells, pty))
             flat == FlattenSeq(downcells)
  <2>1. /\ downcells # << >> /\ downcells \in Seq(Seq(PortByte))
        /\ pty \in Seq(PortByte) /\ Len(pty) <= PtyBuf /\ heard \in Seq(PortByte)
    BY <1>1 DEF DownWrites, DataTypeOK
  <2>2. Head(downcells) \in Seq(PortByte)
    BY <2>1, HeadTailProperties
  <2>3. full \in Seq(PortByte) /\ left \in Seq(PortByte) /\ flat \in Seq(PortByte)
    BY <2>1, <2>2, WriteSplits, CellsLeftType, FlatType
  <2>4. full \o left = pty \o flat
    BY <2>1, CellsWritten
  <2>5. pty' = full /\ FlattenSeq(downcells') = left /\ heard' = heard
    BY <1>1 DEF DownWrites, port
  <2> HIDE DEF full, left, flat
  <2>6. /\ pty \in Seq(PortByte) /\ heard \in Seq(PortByte) /\ full \in Seq(PortByte)
        /\ left \in Seq(PortByte) /\ flat \in Seq(PortByte)
    BY <2>1, <2>3
  <2>7. (heard \o full) \o left = (heard \o pty) \o flat
    <3>1. \A a, b, c \in Seq(PortByte) : (a \o b) \o c = a \o (b \o c)
      <4>1. Associative(PortByte)
        BY Regrouped, Zenon
      <4>. QED BY <4>1, Zenon DEF Associative
    <3>2. (heard \o full) \o left = heard \o (full \o left)
      BY <2>6, <3>1, ZenonT(40)
    <3>3. (heard \o pty) \o flat = heard \o (pty \o flat)
      BY <2>6, <3>1, ZenonT(40)
    <3>. QED BY <2>4, <3>2, <3>3, Zenon
  <2>. QED BY <2>5, <2>7 DEF ToConsumer, flat
<1>2. CASE ConsumerReads
  <2>1. heard' = heard \o pty /\ pty' = << >> /\ downcells' = downcells
    BY <1>2 DEF ConsumerReads, wire
  <2>2. (heard \o pty) \o << >> = heard \o pty
    BY ToConsumerType, ConcatEmptySeq
  <2>. QED BY <2>1, <2>2 DEF ToConsumer
<1>. QED BY <1>1, <1>2

\* A step that ends the session's task, or finds it ended, and leaves the
\* connections alone.
LEMMA DownStops ==
  ASSUME LoopTypeOK, DataTypeOK, DownInv, DataTypeOK',
         Begins(ToConsumer', ToConsumer), down' # "running",
         UNCHANGED <<inbox, sent, session>>
  PROVE  DownInv'
<1>1. ToConsumer' \in Seq(PortByte)
  <2>1. (DataTypeOK => ToConsumer \in Seq(PortByte))'
    BY ToConsumerType, PTL
  <2>. QED BY <2>1 DEF PortByte
<1>2. session \in Nat
  BY BridgeAssumption DEF LoopTypeOK
<1>3. DownSound(ToConsumer', session)
  BY <1>1, <1>2, SoundCut DEF DownInv
<1>. QED BY <1>3 DEF DownInv, DownSound, InTurn, PortByte, Waiting, Peers

\* A session's stream starts where the peer's does.
LEMMA DownStarts ==
  ASSUME LoopTypeOK, DataTypeOK, Turns, DownInv, StartSession
  PROVE  DownInv'
<1>1. /\ session' = session + 1 /\ session + 1 \in Peers /\ session \in Nat
      /\ UNCHANGED <<heard, pty, downcells, inbox, sent>>
  BY BridgeAssumption DEF StartSession, peers, port, Turns, LoopTypeOK, Peers
<1>2. ToConsumer' = ToConsumer
  BY <1>1 DEF ToConsumer, Flat
<1>3. DownSound(ToConsumer, session + 1)
  BY <1>1 DEF DownInv, DownSound
<1>4. Got(ToConsumer, session + 1) = 0
  <2> SUFFICES ASSUME ToConsumer # << >>
               PROVE  ToConsumer[Len(ToConsumer)].from # session + 1
    BY DEF Got
  <2>1. Len(ToConsumer) \in 1..Len(ToConsumer)
    BY ToConsumerType, LenProperties, EmptySeq
  <2>2. ToConsumer[Len(ToConsumer)].from \in 1..session
    BY <2>1 DEF DownInv, DownSound
  <2>. QED BY <1>1, <2>2
<1>5. /\ Waiting(inbox[session + 1], session + 1, 0)
      /\ sent[session + 1] = Len(inbox[session + 1])
  BY <1>1 DEF DownInv
<1>6. Len(inbox[session + 1]) \in Nat
  BY <1>1, LenProperties DEF DataTypeOK
<1>7. /\ Waiting(inbox'[session'], session', Got(ToConsumer', session'))
      /\ sent'[session'] = Got(ToConsumer', session') + Len(inbox'[session'])
  BY <1>1, <1>2, <1>4, <1>5, <1>6
<1>8. \A k \in Peers : k > session' => Waiting(inbox'[k], k, 0) /\ sent'[k] = Len(inbox'[k])
  BY <1>1 DEF DownInv, Peers
<1>9. DownSound(ToConsumer', session')
  BY <1>1, <1>2, <1>3
<1>. QED BY <1>7, <1>8, <1>9 DEF DownInv, DownSound, InTurn, PortByte, Waiting, Got, Byte, Peers

\* What the session reads from the connection is what comes next of it.
LEMMA DownReading ==
  ASSUME LoopTypeOK, DataTypeOK, Turns, DownInv, DownReads
  PROVE  DownInv'
<1> DEFINE box == inbox[session]
           chunk == ReadOf(box)
           left == LeftBy(box)
           got == Got(ToConsumer, session)
<1>1. /\ session \in Peers /\ session \in Nat /\ down = "running" /\ downcells = << >>
      /\ box \in Seq(PortByte) /\ got \in Nat
      /\ inbox \in [Peers -> Seq(PortByte)]
  <2>1. session \in Peers /\ session \in Nat /\ down = "running" /\ downcells = << >>
    BY DEF DownReads, Turns, LoopTypeOK, Peers
  <2>. QED BY <2>1, ToConsumerType, GotType DEF DataTypeOK
<1>2. /\ downcells' = Cells(chunk) /\ inbox' = [inbox EXCEPT ![session] = left]
      /\ UNCHANGED <<heard, pty, session, sent, down>>
  BY DEF DownReads, port
<1>3. /\ Waiting(box, session, got) /\ sent[session] = got + Len(box)
      /\ DownSound(ToConsumer, session)
  BY <1>1 DEF DownInv
<1>4. chunk \in Seq(PortByte) /\ left \in Seq(PortByte)
  BY <1>1, ReadSplits
<1>5. /\ Len(chunk) \in Nat /\ Len(left) \in Nat /\ Len(chunk) + Len(left) = Len(box)
      /\ \A i \in 1..Len(chunk) : chunk[i] = box[i]
      /\ \A i \in 1..Len(left) : left[i] = box[Len(chunk) + i]
  BY <1>1, ReadIndices
<1>6. ToConsumer' = ToConsumer \o chunk
  <2>1. Flat(downcells') = chunk /\ Flat(downcells) = << >>
    BY <1>1, <1>2, <1>4, CellsWhole, FlatEmpty DEF Flat
  <2>2. (heard \o pty) \o << >> = heard \o pty
    BY ToConsumerType, ConcatEmptySeq
  <2> HIDE DEF chunk
  <2>. QED BY <1>2, <2>1, <2>2 DEF ToConsumer
<1> HIDE DEF chunk, left, box, got
<1>7. Waiting(chunk, session, got)
  BY <1>3, <1>5 DEF Waiting
<1>8. /\ DownSound(ToConsumer \o chunk, session)
      /\ Got(ToConsumer \o chunk, session) = got + Len(chunk)
  BY <1>1, <1>3, <1>4, <1>7, SoundGoesOn DEF got
<1>9. Waiting(left, session, got + Len(chunk))
  <2> SUFFICES ASSUME NEW i \in 1..Len(left)
               PROVE  left[i] = Byte(session, (got + Len(chunk)) + i)
    BY DEF Waiting
  <2>1. Len(chunk) + i \in 1..Len(box) /\ got + (Len(chunk) + i) = (got + Len(chunk)) + i
    BY <1>1, <1>5
  <2>2. box[Len(chunk) + i] = Byte(session, got + (Len(chunk) + i))
    BY <1>3, <2>1 DEF Waiting
  <2>. QED BY <1>5, <2>1, <2>2
<1>10. sent[session] = (got + Len(chunk)) + Len(left)
  <2> DEFINE a == Len(chunk)
             b == Len(left)
             c == Len(box)
  <2>1. a \in Nat /\ b \in Nat /\ c = a + b /\ got \in Nat /\ sent[session] = got + c
    BY <1>1, <1>3, <1>5
  <2> HIDE DEF a, b, c
  <2>2. got + (a + b) = (got + a) + b
    BY <2>1
  <2>. QED BY <2>1, <2>2 DEF a, b
<1>11. inbox'[session'] = left /\ \A k \in Peers \ {session} : inbox'[k] = inbox[k]
  BY <1>1, <1>2
<1>12. /\ Waiting(inbox'[session'], session', Got(ToConsumer', session'))
       /\ sent'[session'] = Got(ToConsumer', session') + Len(inbox'[session'])
  BY <1>2, <1>6, <1>8, <1>9, <1>10, <1>11
<1>13. \A k \in Peers : k > session' => Waiting(inbox'[k], k, 0) /\ sent'[k] = Len(inbox'[k])
  <2> SUFFICES ASSUME NEW k \in Peers, k > session'
               PROVE  Waiting(inbox'[k], k, 0) /\ sent'[k] = Len(inbox'[k])
    OBVIOUS
  <2>1. k # session /\ k > session
    BY <1>1, <1>2 DEF Peers
  <2>. QED BY <1>2, <1>11, <2>1 DEF DownInv
<1>14. DownSound(ToConsumer', session')
  BY <1>2, <1>6, <1>8
<1>. QED BY <1>12, <1>13, <1>14 DEF DownInv, DownSound, InTurn, PortByte, Waiting, Got, Byte, Peers

\* A peer's next byte goes to the end of its connection's buffer.
LEMMA DownSent ==
  ASSUME LoopTypeOK, DataTypeOK, Turns, DownInv, NEW k \in Peers, PeerSends(k)
  PROVE  DownInv'
<1> DEFINE b == Byte(k, sent[k] + 1)
           box == Append(inbox[k], b)
<1>1. /\ inbox' = [inbox EXCEPT ![k] = box] /\ sent' = [sent EXCEPT ![k] = sent[k] + 1]
      /\ UNCHANGED <<heard, pty, downcells, session, down>>
  BY DEF PeerSends, wire, port
<1>2. b \in PortByte
  <2>1. sent[k] \in Nat
    BY DEF DataTypeOK
  <2>2. k \in 0..MaxPeers
    BY BridgeAssumption DEF Peers
  <2>. QED BY <2>1, <2>2 DEF Byte, PortByte
<1>3. /\ inbox[k] \in Seq(PortByte) /\ Len(inbox[k]) \in Nat /\ sent[k] \in Nat
      /\ inbox \in [Peers -> Seq(PortByte)] /\ sent \in [Peers -> Nat] /\ session \in Nat
  BY BridgeAssumption, LenProperties DEF DataTypeOK, LoopTypeOK
<1> HIDE DEF b
<1>4. /\ Len(box) = Len(inbox[k]) + 1 /\ box[Len(inbox[k]) + 1] = b
      /\ \A i \in 1..Len(inbox[k]) : box[i] = inbox[k][i]
  BY <1>2, <1>3, AppendProperties
<1> HIDE DEF box
<1>5. ToConsumer' = ToConsumer
  BY <1>1 DEF ToConsumer, Flat
<1>6. ASSUME NEW got \in Nat, Waiting(inbox[k], k, got), sent[k] = got + Len(inbox[k])
      PROVE  Waiting(box, k, got) /\ sent'[k] = got + Len(box)
  <2>1. sent[k] + 1 = got + Len(box)
    BY <1>3, <1>4, <1>6
  <2>2. ASSUME NEW i \in 1..Len(box)
        PROVE  box[i] = Byte(k, got + i)
    <3>1. CASE i \in 1..Len(inbox[k])
      BY <1>4, <1>6, <3>1 DEF Waiting
    <3>2. CASE i = Len(inbox[k]) + 1
      BY <1>3, <1>4, <2>1, <3>2 DEF b
    <3>. QED BY <1>3, <1>4, <3>1, <3>2
  <2>. QED BY <1>1, <1>3, <2>1, <2>2 DEF Waiting
<1>7. /\ inbox'[k] = box
      /\ \A j \in Peers \ {k} : inbox'[j] = inbox[j] /\ sent'[j] = sent[j]
  BY <1>1, <1>3
<1>8. \A j \in Peers : j > session' => Waiting(inbox'[j], j, 0) /\ sent'[j] = Len(inbox'[j])
  <2> SUFFICES ASSUME NEW j \in Peers, j > session
               PROVE  Waiting(inbox'[j], j, 0) /\ sent'[j] = Len(inbox'[j])
    BY <1>1
  <2>1. Waiting(inbox[j], j, 0) /\ sent[j] = Len(inbox[j])
    BY DEF DownInv
  <2>2. CASE j = k
    <3>1. sent[k] = 0 + Len(inbox[k])
      BY <1>3, <2>1, <2>2
    <3>2. Waiting(box, k, 0) /\ sent'[k] = 0 + Len(box)
      BY <1>6, <2>1, <2>2, <3>1
    <3>3. 0 + Len(box) = Len(box)
      BY <1>3, <1>4
    <3>. QED BY <1>7, <2>2, <3>2, <3>3
  <2>3. CASE j # k
    BY <1>7, <2>1, <2>3
  <2>. QED BY <2>2, <2>3
<1>9. down' = "running" =>
        /\ Waiting(inbox'[session'], session', Got(ToConsumer', session'))
        /\ sent'[session'] = Got(ToConsumer', session') + Len(inbox'[session'])
  <2> SUFFICES ASSUME down = "running"
               PROVE  /\ Waiting(inbox'[session], session, Got(ToConsumer, session))
                      /\ sent'[session] = Got(ToConsumer, session) + Len(inbox'[session])
    BY <1>1, <1>5
  <2>1. /\ Waiting(inbox[session], session, Got(ToConsumer, session))
        /\ sent[session] = Got(ToConsumer, session) + Len(inbox[session])
        /\ Got(ToConsumer, session) \in Nat /\ session \in Peers
    BY ToConsumerType, GotType DEF DownInv, Turns, LoopTypeOK, Peers
  <2>2. CASE session = k
    BY <1>6, <1>7, <2>1, <2>2
  <2>3. CASE session # k
    BY <1>7, <2>1, <2>3
  <2>. QED BY <2>2, <2>3
<1>10. DownSound(ToConsumer', session')
  BY <1>1, <1>5 DEF DownInv
<1>. QED BY <1>8, <1>9, <1>10 DEF DownInv, DownSound, InTurn, PortByte, Waiting, Got, Byte, Peers

\* Every step keeps the peers' streams sound.
LEMMA DownStep ==
  ASSUME LoopTypeOK, DataTypeOK, Turns, DownInv, LoopTypeOK', DataTypeOK', Turns',
         [Next]_vars
  PROVE  DownInv'
<1>1. ASSUME ToConsumer' = ToConsumer, UNCHANGED <<inbox, sent, session, down>>
      PROVE  DownInv'
  BY <1>1 DEF DownInv, DownSound, InTurn, PortByte, Waiting, Got, Byte, Peers
<1>2. UNCHANGED <<heard, pty, downcells>> => ToConsumer' = ToConsumer
  BY DEF ToConsumer, Flat
<1>3. CASE DownWrites \/ ConsumerReads
  BY <1>1, <1>3, ToConsumerMoved DEF DownWrites, ConsumerReads, wire, peers
<1>4. CASE DownEnds
  <2>1. UNCHANGED <<heard, pty, downcells, inbox, sent, session>> /\ down' = "ended"
    BY <1>4 DEF DownEnds, peers, port
  <2>2. Begins(ToConsumer', ToConsumer)
    BY <1>2, <2>1, ToConsumerType, BeginsItself
  <2>. QED BY <2>1, <2>2, DownStops
<1>5. CASE DownFails \/ EndSession
  <2>1. /\ UNCHANGED <<heard, pty, inbox, sent, session>>
        /\ downcells' = << >> /\ down' # "running"
    BY <1>5 DEF DownFails, EndSession, peers, port
  <2>2. ToConsumer' = heard \o pty
    BY <2>1, FlatEmpty, ToConsumerType, ConcatEmptySeq DEF ToConsumer, Flat
  <2>3. Begins(ToConsumer', ToConsumer)
    BY <2>2, ToConsumerType, BeginsItself DEF ToConsumer
  <2>. QED BY <2>1, <2>3, DownStops
<1>6. CASE Drain \/ Up \/ ConsumerTypes \/ UNCHANGED vars
  <2>1. UNCHANGED <<heard, pty, downcells, inbox, sent, session, down>>
    BY <1>6 DEF Drain, DrainStarts, DrainReads, Up, UpReads, UpWrites, UpFails,
       ConsumerTypes, vars, wire, peers, port
  <2>. QED BY <1>1, <1>2, <2>1
<1>7. ASSUME NEW k \in Peers,
             NextPeer(k) \/ PeerConnects(k) \/ PeerReads(k) \/ PeerLeaves(k)
      PROVE  DownInv'
  <2>1. UNCHANGED <<heard, pty, downcells, inbox, sent, session, down>>
    BY <1>7 DEF NextPeer, PeerConnects, PeerReads, PeerLeaves, wire, port
  <2>. QED BY <1>1, <1>2, <2>1
<1>. QED BY <1>3, <1>4, <1>5, <1>6, <1>7, DownStarts, DownReading, DownSent DEF Next, Down

\* At all times what the consumer hears is the peers one after the other, and
\* of each an unbroken beginning of what it sent (bridge.rs:213-262, 437-443).
THEOREM PeersHeardInTurn == Spec => []PeersInTurn
<1>1. Init => LoopTypeOK /\ DataTypeOK /\ Turns /\ DownInv
  BY LoopInit, DataInit, DownInit
<1>2. LoopTypeOK /\ DataTypeOK /\ Turns /\ DownInv /\ [Next]_vars
        => (LoopTypeOK /\ DataTypeOK /\ Turns /\ DownInv)'
  BY LoopStep, DataStep, DownStep
<1>3. DownInv => PeersInTurn
  BY DEF DownInv, DownSound, InTurn, PeersInTurn, ToConsumer
<1>. QED BY <1>1, <1>2, <1>3, PTL DEF Spec
=============================================================================
