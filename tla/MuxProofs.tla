----------------------------- MODULE MuxProofs -----------------------------
(***************************************************************************)
(* For every number of consumers and every capacity: Mux's types, its      *)
(* bounds, and that its bounded buffer with per-consumer cursors keeps the *)
(* promise stated in FanOut; that its streams are intact, and a write that *)
(* fits a cell and a buffer arrives in one piece.                          *)
(***************************************************************************)
EXTENDS MCMux, WireCellsProofs

\* A consumer's write is bytes of the TX direction.
LEMMA WriteType ==
  ASSUME NEW c \in Consumers, NEW w \in Nat
  PROVE  Write(c, w) \in Seq(TxByte) /\ Len(Write(c, w)) = WriteLen
<1>1. \A i \in 1..WriteLen : Byte(c, w, i) \in TxByte
  BY MuxAssumption DEF Byte, TxByte
<1>. QED BY <1>1, MuxAssumption DEF Write

\* The types hold at the start.
LEMMA TypeInit == Init => TypeOK /\ Bounded
BY MuxAssumption, BytesAssumption DEF Init, TypeOK, Bounded

\* What a step of the stream's direction leaves of the other one's types.
RxTypeOK ==
  /\ line \in Seq(Nat) /\ sent \in Nat
  /\ window \in Seq(Seq(Nat)) /\ tail \in Nat
  /\ cursor \in [Consumers -> Nat]
  /\ copy \in [Consumers -> Seq(Seq(Nat))]
  /\ pty \in [Consumers -> Seq(Nat)]
  /\ heard \in [Consumers -> Seq(Nat)]
  /\ stream \in Seq(Seq(Nat))
  /\ got \in [Consumers -> Seq(Seq(Nat))]
  /\ told \in [Consumers -> Nat]
  /\ Len(window) <= Backlog /\ Len(line) <= PtyBuf
  /\ \A c \in Consumers : Len(pty[c]) <= PtyBuf

TxTypeOK ==
  /\ keys \in [Consumers -> Seq(TxByte)]
  /\ outgoing \in [Consumers -> Seq(Seq(TxByte))]
  /\ queue \in Seq(Seq(TxByte)) /\ inhand \in Seq(TxByte)
  /\ devbuf \in Seq(TxByte) /\ devgot \in Seq(TxByte)
  /\ writes \in [Consumers -> Nat]
  /\ Len(queue) <= TxQueue /\ Len(devbuf) <= PtyBuf
  /\ \A c \in Consumers : Len(keys[c]) <= PtyBuf

RestTypeOK ==
  /\ phase \in {"ready", "serving", "down"}
  /\ faults \in Nat
  /\ spilt \in [Consumers -> SUBSET Nat] /\ cut \subseteq TxByte

\* The three parts are the whole.
LEMMA TypeParts == TypeOK /\ Bounded <=> RxTypeOK /\ TxTypeOK /\ RestTypeOK
BY DEF TypeOK, Bounded, RxTypeOK, TxTypeOK, RestTypeOK

\* Every action of the device-to-consumers direction keeps its types.
LEMMA RxTypeStep ==
  ASSUME RxTypeOK, RestTypeOK, Next
  PROVE  RxTypeOK'
<1> USE MuxAssumption, BytesAssumption
<1>1. CASE Spawn
  BY <1>1 DEF Spawn, RxTypeOK
<1>2. CASE DeviceSends
  <2>1. line' \in Seq(Nat) /\ Len(line') <= PtyBuf
    BY <1>2 DEF DeviceSends, RxTypeOK
  <2>. QED BY <1>2, <2>1 DEF DeviceSends, RxTypeOK
<1>3. CASE DeviceReader
  <2> DEFINE chunk == ReadOf(line)
  <2>1. chunk \in Seq(Nat) /\ LeftBy(line) \in Seq(Nat)
    BY ReadSplits DEF RxTypeOK
  <2>2. Len(LeftBy(line)) <= PtyBuf
    <3>1. Len(chunk \o LeftBy(line)) = Len(chunk) + Len(LeftBy(line))
      BY <2>1, ConcatProperties
    <3>2. chunk \o LeftBy(line) = line
      BY ReadSplits DEF RxTypeOK
    <3>. QED BY <2>1, <3>1, <3>2, LenProperties DEF RxTypeOK
  <2> HIDE DEF chunk
  <2>3. window' \in Seq(Seq(Nat)) /\ Len(window') <= Backlog
    <3>1. window' = IF Len(window) < Backlog THEN Append(window, chunk)
                                             ELSE Append(Tail(window), chunk)
      BY <1>3 DEF DeviceReader, chunk
    <3>2. CASE Len(window) < Backlog
      BY <2>1, <3>1, <3>2 DEF RxTypeOK
    <3>3. CASE Len(window) = Backlog
      BY <2>1, <3>1, <3>3 DEF RxTypeOK
    <3>. QED BY <3>2, <3>3, LenProperties DEF RxTypeOK
  <2>4. stream' \in Seq(Seq(Nat))
    BY <1>3, <2>1 DEF DeviceReader, RxTypeOK, chunk
  <2>5. line' \in Seq(Nat) /\ Len(line') <= PtyBuf /\ tail' \in Nat
    BY <1>3, <2>1, <2>2 DEF DeviceReader, RxTypeOK
  <2>6. UNCHANGED <<sent, cursor, copy, pty, heard, got, told>>
    BY <1>3 DEF DeviceReader
  <2>. QED BY <2>3, <2>4, <2>5, <2>6 DEF RxTypeOK
<1>4. ASSUME NEW c \in Consumers, Receive(c)
      PROVE  RxTypeOK'
  <2> DEFINE chunk == window[cursor[c] - Oldest + 1]
  <2>1. chunk \in Seq(Nat)
    <3>1. /\ window \in Seq(Seq(Nat)) /\ tail \in Nat /\ cursor[c] \in Nat
          /\ Oldest = tail - Len(window)
          /\ cursor[c] < tail /\ cursor[c] >= Oldest
      BY <1>4 DEF Receive, RxTypeOK, Oldest
    <3>2. cursor[c] - Oldest + 1 \in 1..Len(window)
      BY <3>1
    <3>. QED BY <3>1, <3>2, ElementOfSeq
  <2>2. Cells(chunk) \in Seq(Seq(Nat))
    BY <2>1, CellsType
  <2>3. /\ copy' = [copy EXCEPT ![c] = Cells(chunk)]
        /\ got' = [got EXCEPT ![c] = Append(@, chunk)]
    BY <1>4 DEF Receive
  <2>4. cursor' \in [Consumers -> Nat]
    <3>1. cursor' = [cursor EXCEPT ![c] = @ + 1]
      BY <1>4 DEF Receive
    <3>2. cursor \in [Consumers -> Nat]
      BY DEF RxTypeOK
    <3>. QED BY <3>1, <3>2
  <2> HIDE DEF chunk
  <2>5. copy' \in [Consumers -> Seq(Seq(Nat))]
    BY <2>2, <2>3 DEF RxTypeOK
  <2>6. got' \in [Consumers -> Seq(Seq(Nat))]
    BY <2>1, <2>3 DEF RxTypeOK
  <2>7. UNCHANGED <<line, sent, window, tail, pty, heard, stream, told>>
    BY <1>4 DEF Receive
  <2>. QED BY <2>4, <2>5, <2>6, <2>7 DEF RxTypeOK
<1>5. ASSUME NEW c \in Consumers, Lagged(c)
      PROVE  RxTypeOK'
  <2>1. Oldest \in Int /\ cursor[c] \in Nat /\ cursor[c] < Oldest
    BY <1>5 DEF Lagged, RxTypeOK, Oldest
  <2>2. Oldest \in Nat /\ Oldest - cursor[c] \in Nat
    BY <2>1
  <2>3. cursor' \in [Consumers -> Nat] /\ told' \in [Consumers -> Nat]
    BY <1>5, <2>2 DEF Lagged, RxTypeOK
  <2>4. UNCHANGED <<line, sent, window, tail, copy, pty, heard, stream, got>>
    BY <1>5 DEF Lagged
  <2>. QED BY <2>3, <2>4 DEF RxTypeOK
<1>6. ASSUME NEW c \in Consumers, PortWrite(c)
      PROVE  RxTypeOK'
  <2>1. Head(copy[c]) \in Seq(Nat)
    BY <1>6 DEF PortWrite, RxTypeOK
  <2>2. /\ Filled(pty[c], Head(copy[c])) \in Seq(Nat)
        /\ Len(Filled(pty[c], Head(copy[c]))) <= PtyBuf
    BY <2>1, WriteSplits DEF RxTypeOK
  <2>3. CellsLeft(copy[c], pty[c]) \in Seq(Seq(Nat))
    <3>1. /\ copy[c] \in Seq(Seq(Nat)) /\ copy[c] # << >>
          /\ pty[c] \in Seq(Nat) /\ Len(pty[c]) <= PtyBuf
      BY <1>6 DEF PortWrite, RxTypeOK
    <3>. QED BY <3>1, CellsLeftType
  <2>. QED BY <1>6, <2>2, <2>3 DEF PortWrite, RxTypeOK
<1>7. ASSUME NEW c \in Consumers, PortWriteFails(c)
      PROVE  RxTypeOK'
  <2>1. /\ copy' = [copy EXCEPT ![c] = << >>]
        /\ UNCHANGED <<line, sent, window, tail, cursor, pty, heard, stream,
                       got, told>>
    BY <1>7 DEF PortWriteFails
  <2>. QED BY <2>1 DEF RxTypeOK
<1>8. ASSUME NEW c \in Consumers, ConsumerReads(c)
      PROVE  RxTypeOK'
  <2>1. heard[c] \o pty[c] \in Seq(Nat)
    BY ConcatProperties DEF RxTypeOK
  <2>. QED BY <1>8, <2>1, SMTT(30) DEF ConsumerReads, RxTypeOK
<1>9. CASE UNCHANGED rxvars
  BY <1>9 DEF rxvars, RxTypeOK
<1>. QED
  BY <1>1, <1>2, <1>3, <1>4, <1>5, <1>6, <1>7, <1>8, <1>9
  DEF Next, ToConsumer, CarryWrites, Stop, DeviceWriter, DeviceWrite,
      DeviceWriteFails, DeviceTakes, ConsumerWrites, FromConsumer, SendCell

\* Every action of the consumers-to-device direction keeps its types.
LEMMA TxTypeStep ==
  ASSUME TxTypeOK, Next
  PROVE  TxTypeOK'
<1> USE MuxAssumption, BytesAssumption
<1>1. CASE UNCHANGED txvars
  BY <1>1 DEF txvars, TxTypeOK
<1>2. ASSUME NEW c \in Consumers, ConsumerWrites(c)
      PROVE  TxTypeOK'
  <2>1. writes[c] + 1 \in Nat /\ keys[c] \in Seq(TxByte)
    BY DEF TxTypeOK
  <2> DEFINE w == Write(c, writes[c] + 1)
  <2>2. w \in Seq(TxByte) /\ Len(w) = WriteLen
    BY <2>1, WriteType
  <2>3. keys' = [keys EXCEPT ![c] = keys[c] \o w]
    BY <1>2 DEF ConsumerWrites
  <2> HIDE DEF w
  <2>4. keys[c] \o w \in Seq(TxByte) /\ Len(keys[c] \o w) = Len(keys[c]) + WriteLen
    BY <2>1, <2>2, ConcatProperties
  <2>5. Len(keys[c] \o w) <= PtyBuf
    BY <1>2, <2>1, <2>4, LenProperties DEF ConsumerWrites, Room
  <2>6. UNCHANGED <<outgoing, queue, inhand, devbuf, devgot>>
        /\ writes' = [writes EXCEPT ![c] = @ + 1]
    BY <1>2 DEF ConsumerWrites
  <2>. QED BY <2>1, <2>3, <2>4, <2>5, <2>6 DEF TxTypeOK
<1>3. ASSUME NEW c \in Consumers, FromConsumer(c)
      PROVE  TxTypeOK'
  <2>1. /\ keys[c] \in Seq(TxByte) /\ Len(keys[c]) <= PtyBuf
    BY DEF TxTypeOK
  <2>2. /\ ReadOf(keys[c]) \in Seq(TxByte) /\ LeftBy(keys[c]) \in Seq(TxByte)
        /\ ReadOf(keys[c]) \o LeftBy(keys[c]) = keys[c]
    BY <2>1, ReadSplits
  <2>3. Len(LeftBy(keys[c])) <= PtyBuf
    BY <2>1, <2>2, ConcatProperties, LenProperties
  <2>4. Cells(ReadOf(keys[c])) \in Seq(Seq(TxByte))
    BY <2>2, CellsType
  <2>5. UNCHANGED <<queue, inhand, devbuf, devgot, writes>>
        /\ keys' = [keys EXCEPT ![c] = LeftBy(keys[c])]
        /\ outgoing' = [outgoing EXCEPT ![c] = Cells(ReadOf(keys[c]))]
    BY <1>3 DEF FromConsumer
  <2>. QED BY <2>2, <2>3, <2>4, <2>5 DEF TxTypeOK
<1>4. ASSUME NEW c \in Consumers, SendCell(c)
      PROVE  TxTypeOK'
  BY <1>4 DEF SendCell, TxTypeOK
<1>5. CASE DeviceWriter
  BY <1>5 DEF DeviceWriter, TxTypeOK
<1>6. CASE DeviceWrite
  <2>1. /\ Filled(devbuf, inhand) \in Seq(TxByte)
        /\ Len(Filled(devbuf, inhand)) <= PtyBuf
        /\ Unwritten(inhand, devbuf) \in Seq(TxByte)
    BY WriteSplits DEF TxTypeOK
  <2>. QED BY <1>6, <2>1 DEF DeviceWrite, TxTypeOK
<1>7. CASE DeviceWriteFails
  <2>1. inhand' = << >> /\ UNCHANGED <<keys, outgoing, queue, devbuf, devgot, writes>>
    BY <1>7 DEF DeviceWriteFails
  <2>. QED BY <2>1 DEF TxTypeOK
<1>8. CASE DeviceTakes
  <2>1. devgot \o devbuf \in Seq(TxByte)
    BY ConcatProperties DEF TxTypeOK
  <2>. QED BY <1>8, <2>1 DEF DeviceTakes, TxTypeOK
<1>. QED
  BY <1>1, <1>2, <1>3, <1>4, <1>5, <1>6, <1>7, <1>8
  DEF Next, ToConsumer, CarryWrites, Spawn, Stop, DeviceSends, DeviceReader,
      Receive, Lagged, PortWrite, PortWriteFails, ConsumerReads

\* The phase, the failure count and what failures lost stay what they are.
LEMMA RestTypeStep ==
  ASSUME RxTypeOK, TxTypeOK, RestTypeOK, Next
  PROVE  RestTypeOK'
<1>1. CASE UNCHANGED lost /\ phase' \in {"ready", "serving", "down"}
  BY <1>1 DEF lost, RestTypeOK
<1>2. ASSUME NEW c \in Consumers, PortWriteFails(c)
      PROVE  RestTypeOK'
  <2> DEFINE gone == UNION {ToSet(copy[c][i]) : i \in DOMAIN copy[c]}
  <2>1. ASSUME NEW i \in DOMAIN copy[c]
        PROVE  ToSet(copy[c][i]) \subseteq Nat
    <3>1. copy[c][i] \in Seq(Nat)
      BY <2>1 DEF RxTypeOK
    <3>. QED BY <3>1, LenProperties DEF ToSet
  <2>2. gone \subseteq Nat
    BY <2>1
  <2>3. /\ spilt' = [spilt EXCEPT ![c] = spilt[c] \cup gone]
        /\ faults' = faults + 1 /\ UNCHANGED <<phase, cut>>
    BY <1>2 DEF PortWriteFails
  <2> HIDE DEF gone
  <2>4. spilt[c] \cup gone \in SUBSET Nat
    BY <2>2 DEF RestTypeOK
  <2>5. spilt' \in [Consumers -> SUBSET Nat]
    BY <2>3, <2>4 DEF RestTypeOK
  <2>. QED BY <2>3, <2>5 DEF RestTypeOK
<1>3. CASE DeviceWriteFails
  <2>1. ToSet(inhand) \subseteq TxByte
    BY LenProperties DEF TxTypeOK, ToSet
  <2>. QED BY <1>3, <2>1 DEF DeviceWriteFails, RestTypeOK
<1>4. ASSUME NEW c \in Consumers
      PROVE  (ConsumerWrites(c) \/ CarryWrites(c) \/ ToConsumer(c) \/ ConsumerReads(c))
               => UNCHANGED <<phase, lost>>
  BY DEF CarryWrites, ToConsumer, ConsumerWrites, FromConsumer, SendCell,
         Receive, Lagged, PortWrite, ConsumerReads
<1>5. (DeviceSends \/ DeviceReader \/ DeviceWriter \/ DeviceWrite \/ DeviceTakes)
        => UNCHANGED <<phase, lost>>
  BY DEF DeviceSends, DeviceReader, DeviceWriter, DeviceWrite, DeviceTakes
<1>6. (Spawn \/ Stop) => UNCHANGED lost /\ phase' \in {"ready", "serving", "down"}
  BY DEF Spawn, Stop
<1>. QED BY <1>1, <1>2, <1>3, <1>4, <1>5, <1>6 DEF Next, RestTypeOK

-----------------------------------------------------------------------------
\* Every variable keeps its type, and no buffer outgrows its capacity.
THEOREM TypeCorrect == Spec => [](TypeOK /\ Bounded)
<1>1. Init => TypeOK /\ Bounded
  BY TypeInit
<1>2. TypeOK /\ Bounded /\ [Next]_vars => (TypeOK /\ Bounded)'
  <2>1. ASSUME RxTypeOK, TxTypeOK, RestTypeOK, Next
        PROVE  RxTypeOK' /\ TxTypeOK' /\ RestTypeOK'
    BY <2>1, RxTypeStep, TxTypeStep, RestTypeStep
  <2>2. ASSUME RxTypeOK, TxTypeOK, RestTypeOK, UNCHANGED vars
        PROVE  RxTypeOK' /\ TxTypeOK' /\ RestTypeOK'
    BY <2>2 DEF vars, rxvars, txvars, lost, RxTypeOK, TxTypeOK, RestTypeOK
  <2>3. (TypeOK /\ Bounded)' <=> RxTypeOK' /\ TxTypeOK' /\ RestTypeOK'
    BY DEF TypeOK, Bounded, RxTypeOK, TxTypeOK, RestTypeOK
  <2>. QED BY <2>1, <2>2, <2>3, TypeParts
<1>. QED BY <1>1, <1>2, PTL DEF Spec

-----------------------------------------------------------------------------
\* What the buffer retains, and where the cursors are, at the start.
LEMMA RetainedInit == Init => Retained
BY MuxAssumption DEF Init, Retained, Least, Oldest

\* The buffer after any step is the newest reads published, and no cursor has
\* passed them.
LEMMA RetainedStep ==
  ASSUME TypeOK, Bounded, Retained, Next
  PROVE  Retained'
<1> USE MuxAssumption
<1>1. CASE UNCHANGED <<window, tail, stream, cursor>> /\ (phase' = "ready" => phase = "ready")
  BY <1>1 DEF Retained, Oldest, Least
<1>2. CASE Spawn
  BY <1>2 DEF Spawn, Retained, Oldest, Least, TypeOK
<1>3. CASE DeviceReader
  <2> DEFINE chunk == ReadOf(line)
  <2>1. /\ chunk \in Seq(Nat) /\ tail \in Nat /\ tail = Len(stream)
        /\ window \in Seq(Seq(Nat)) /\ stream \in Seq(Seq(Nat))
        /\ Len(window) = IF tail < Backlog THEN tail ELSE Backlog
    BY ReadSplits DEF TypeOK, Retained, Least
  <2>2. /\ stream' = Append(stream, chunk) /\ tail' = tail + 1
        /\ window' = IF Len(window) < Backlog THEN Append(window, chunk)
                                              ELSE Append(Tail(window), chunk)
        /\ cursor' = cursor /\ phase' = "serving"
    BY <1>3 DEF DeviceReader
  <2> HIDE DEF chunk
  <2>3. tail' = Len(stream')
    BY <2>1, <2>2
  <2>4. Len(window') = Least(tail', Backlog)
    BY <2>1, <2>2 DEF Least
  <2>5. \A i \in 1..Len(window) : window[i] = stream[tail - Len(window) + i]
    BY DEF Retained, Oldest
  <2>6. \A i \in 1..Len(window') : window'[i] = stream'[tail' - Len(window') + i]
    <3>1. CASE tail < Backlog
      <4>1. /\ window' = Append(window, chunk) /\ Len(window) = tail
            /\ Len(window') = tail + 1
        BY <2>1, <2>2, <3>1
      <4>2. ASSUME NEW i \in 1..(tail + 1)
            PROVE  window'[i] = stream'[i]
        <5>1. CASE i = tail + 1
          BY <2>1, <2>2, <4>1, <5>1
        <5>2. CASE i \in 1..tail
          <6>1. window'[i] = window[i] /\ stream'[i] = stream[i]
            BY <2>1, <2>2, <4>1, <5>2
          <6>2. window[i] = stream[i]
            <7>1. tail \in Int /\ i \in Int /\ i \in 1..tail
              BY <2>1, <5>2
            <7>2. tail - tail + i = i
              BY <7>1
            <7>. QED BY <2>5, <4>1, <7>1, <7>2
          <6>. QED BY <6>1, <6>2
        <5>. QED BY <2>1, <5>1, <5>2
      <4>3. ASSUME NEW i \in 1..(tail + 1)
            PROVE  tail' - Len(window') + i = i
        <5>1. tail \in Int /\ i \in Int /\ tail' = tail + 1 /\ Len(window') = tail + 1
          BY <2>1, <2>2, <4>1
        <5>2. (tail + 1) - (tail + 1) + i = i
          BY <5>1
        <5>. QED BY <5>1, <5>2
      <4>4. ASSUME NEW i \in 1..Len(window')
            PROVE  window'[i] = stream'[tail' - Len(window') + i]
        <5>1. i \in 1..(tail + 1)
          BY <4>1
        <5>. QED BY <4>2, <4>3, <5>1
      <4>. QED BY <4>4
    <3>2. CASE tail >= Backlog
      <4>1. window' = Append(Tail(window), chunk) /\ Len(window) = Backlog
        BY <2>1, <2>2, <3>2
      <4>2. /\ Tail(window) \in Seq(Seq(Nat)) /\ Len(Tail(window)) = Backlog - 1
            /\ \A i \in 1..(Backlog - 1) : Tail(window)[i] = window[i + 1]
        BY <2>1, <4>1
      <4>3. Len(window') = Backlog
        BY <4>1, <4>2
      <4>4. ASSUME NEW i \in 1..Backlog
            PROVE  window'[i] = stream'[tail' - Backlog + i]
        <5>1. CASE i = Backlog
          BY <2>1, <2>2, <4>1, <4>2, <5>1
        <5>2. CASE i < Backlog
          <6>1. window'[i] = window[i + 1]
            BY <4>1, <4>2, <5>2
          <6>2. window[i + 1] = stream[tail - Backlog + (i + 1)]
            BY <2>5, <4>1, <5>2
          <6>3. tail' - Backlog + i = tail - Backlog + (i + 1)
            BY <2>1, <2>2
          <6>4. tail - Backlog + (i + 1) \in 1..Len(stream)
            BY <2>1, <3>2, <5>2
          <6>5. stream'[tail - Backlog + (i + 1)] = stream[tail - Backlog + (i + 1)]
            BY <2>1, <2>2, <6>4
          <6>. QED BY <6>1, <6>2, <6>3, <6>5
        <5>. QED BY <5>1, <5>2
      <4>. QED BY <4>3, <4>4
    <3>. QED BY <2>1, <3>1, <3>2
  <2>7. \A c \in Consumers : cursor'[c] <= tail'
    <3>1. \A c \in Consumers : cursor[c] \in Nat /\ cursor[c] <= tail
      BY DEF Retained, TypeOK
    <3>. QED BY <2>1, <2>2, <3>1
  <2>. QED BY <2>2, <2>3, <2>4, <2>6, <2>7 DEF Retained, Oldest
<1>4. ASSUME NEW c \in Consumers, Receive(c)
      PROVE  Retained'
  <2>1. /\ cursor' = [cursor EXCEPT ![c] = cursor[c] + 1] /\ cursor[c] < tail
        /\ phase' = "serving" /\ UNCHANGED <<window, tail, stream>>
    BY <1>4 DEF Receive
  <2>2. \A d \in Consumers : cursor'[d] <= tail'
    BY <2>1, SMTT(30) DEF Retained, TypeOK
  <2>. QED BY <2>1, <2>2 DEF Retained, Oldest
<1>5. ASSUME NEW c \in Consumers, Lagged(c)
      PROVE  Retained'
  <2>1. /\ cursor' = [cursor EXCEPT ![c] = Oldest] /\ cursor[c] < Oldest
        /\ phase' = "serving" /\ UNCHANGED <<window, tail, stream>>
    BY <1>5 DEF Lagged
  <2>2. Oldest <= tail
    BY DEF TypeOK, Oldest
  <2>. QED BY <2>1, <2>2 DEF Retained, TypeOK, Oldest, Least
<1>6. ASSUME NEW c \in Consumers,
             PortWrite(c) \/ PortWriteFails(c) \/ ConsumerReads(c)
               \/ ConsumerWrites(c) \/ CarryWrites(c)
      PROVE  UNCHANGED <<window, tail, stream, cursor, phase>>
  BY <1>6 DEF PortWrite, PortWriteFails, ConsumerReads, ConsumerWrites,
     CarryWrites, FromConsumer, SendCell, rxvars
<1>7. ASSUME DeviceSends \/ DeviceWriter \/ DeviceWrite \/ DeviceWriteFails
               \/ DeviceTakes
      PROVE  UNCHANGED <<window, tail, stream, cursor, phase>>
  BY <1>7 DEF DeviceSends, DeviceWriter, DeviceWrite, DeviceWriteFails,
     DeviceTakes, rxvars
<1>8. Stop => UNCHANGED <<window, tail, stream, cursor>> /\ phase' = "down"
  BY DEF Stop, rxvars
<1>. QED BY <1>1, <1>2, <1>3, <1>4, <1>5, <1>6, <1>7, <1>8 DEF Next, ToConsumer

\* At all times the fan-out buffer is the newest Backlog reads published and
\* no consumer is past the stream (mux.rs:94, BACKLOG; the channel's cursors).
THEOREM Retention == Spec => []Retained
<1>1. Init => TypeOK /\ Bounded /\ Retained
  BY TypeInit, RetainedInit
<1>2. TypeOK /\ Bounded /\ Retained /\ [Next]_vars => Retained'
  <2>1. UNCHANGED vars /\ Retained => Retained'
    BY DEF vars, rxvars, Retained, Oldest, Least
  <2>. QED BY <2>1, RetainedStep
<1>. QED BY <1>1, <1>2, TypeCorrect, PTL DEF Spec

-----------------------------------------------------------------------------
\* What mux.rs:14-22 promises of the device's stream, for any number of
\* consumers and any backlog: every step of Mux is a step of FanOut or leaves
\* FanOut's state alone.
THEOREM FanOutKept == Spec => PromisedFanOut
<1>1. Init => FO!FInit
  BY DEF Init, FO!FInit
<1>2. TypeOK /\ Bounded /\ Retained /\ [Next]_vars => [FO!FNext]_(FO!fvars)
  <2> SUFFICES ASSUME TypeOK, Bounded, Retained, [Next]_vars
               PROVE  FO!FNext \/ UNCHANGED <<stream, cursor, got, told>>
    BY DEF FO!fvars
  <2> USE MuxAssumption
  <2>1. CASE DeviceReader
    <3>1. ReadOf(line) \in Seq(Nat)
      BY ReadSplits DEF TypeOK
    <3>2. stream' = Append(stream, ReadOf(line)) /\ UNCHANGED <<cursor, got, told>>
      BY <2>1 DEF DeviceReader
    <3>3. FO!Publish
      BY <3>1, <3>2 DEF FO!Publish, TypeOK
    <3>. QED BY <3>3 DEF FO!FNext
  <2>2. ASSUME NEW c \in Consumers, Receive(c)
        PROVE  FO!FNext
    <3>1. window[cursor[c] - Oldest + 1] = stream[cursor[c] + 1]
      <4> DEFINE i == cursor[c] - Oldest + 1
      <4>1. /\ Oldest \in Int /\ cursor[c] \in Nat /\ tail \in Nat
            /\ Len(window) \in Nat /\ Oldest = tail - Len(window)
        BY DEF Oldest, TypeOK
      <4>2. i \in 1..Len(window) /\ Oldest + i = cursor[c] + 1
        BY <2>2, <4>1 DEF Receive
      <4> HIDE DEF i
      <4>3. window[i] = stream[Oldest + i]
        BY <4>2 DEF Retained
      <4>. QED BY <4>2, <4>3 DEF i
    <3>2. cursor[c] < Len(stream)
      BY <2>2 DEF Receive, Retained
    <3>3. FO!Take(c)
      BY <2>2, <3>1, <3>2 DEF Receive, FO!Take
    <3>. QED BY <3>3 DEF FO!FNext
  <2>3. ASSUME NEW c \in Consumers, Lagged(c)
        PROVE  FO!FNext
    <3>1. Oldest = Len(stream) - Backlog
      BY <2>3, SMTT(30) DEF Lagged, Retained, Oldest, TypeOK, Least
    <3>2. cursor[c] + Backlog < Len(stream)
      BY <2>3, <3>1, SMTT(30) DEF Lagged, TypeOK
    <3>3. FO!Skip(c)
      BY <2>3, <3>1, <3>2 DEF Lagged, FO!Skip
    <3>. QED BY <3>3 DEF FO!FNext
  <2>4. CASE Spawn
    <3>1. cursor' = cursor
      BY <2>4 DEF Spawn, Retained, TypeOK
    <3>. QED BY <2>4, <3>1 DEF Spawn
  <2>5. ASSUME NEW c \in Consumers,
               PortWrite(c) \/ PortWriteFails(c) \/ ConsumerReads(c)
                 \/ ConsumerWrites(c) \/ CarryWrites(c)
        PROVE  UNCHANGED <<stream, cursor, got, told>>
    BY <2>5 DEF PortWrite, PortWriteFails, ConsumerReads, ConsumerWrites,
       CarryWrites, FromConsumer, SendCell, rxvars
  <2>6. ASSUME DeviceSends \/ DeviceWriter \/ DeviceWrite \/ DeviceWriteFails
                 \/ DeviceTakes \/ Stop
        PROVE  UNCHANGED <<stream, cursor, got, told>>
    BY <2>6 DEF DeviceSends, DeviceWriter, DeviceWrite, DeviceWriteFails,
       DeviceTakes, Stop, rxvars
  <2>7. CASE UNCHANGED vars
    BY <2>7 DEF vars, rxvars
  <2>. QED BY <2>1, <2>2, <2>3, <2>4, <2>5, <2>6, <2>7 DEF Next, ToConsumer
<1>. QED BY <1>1, <1>2, TypeCorrect, Retention, PTL DEF Spec, PromisedFanOut, FO!FSpec

\* At all times every read a consumer is past was handed to it or announced to
\* it as lost: a slow consumer never loses a read silently (mux.rs:20-22).
THEOREM NothingLostSilently == Spec => []FO!Accounted
<1>1. Init => FO!Accounted
  BY DEF Init, FO!Accounted
<1>2. TypeOK /\ Bounded /\ Retained /\ FO!Accounted /\ [Next]_vars => FO!Accounted'
  <2> SUFFICES ASSUME TypeOK, Bounded, Retained, FO!Accounted, [Next]_vars,
                      NEW d \in Consumers
               PROVE  (Len(got[d]) + told[d] = cursor[d] /\ cursor[d] <= Len(stream))'
    BY DEF FO!Accounted
  <2>0. /\ got \in [Consumers -> Seq(Seq(Nat))] /\ told \in [Consumers -> Nat]
        /\ cursor \in [Consumers -> Nat]
        /\ window \in Seq(Seq(Nat)) /\ stream \in Seq(Seq(Nat))
        /\ line \in Seq(Nat) /\ tail \in Nat /\ tail = Len(stream)
        /\ Len(got[d]) + told[d] = cursor[d] /\ cursor[d] <= Len(stream)
    BY DEF TypeOK, Retained, FO!Accounted
  <2>1. CASE UNCHANGED <<stream, cursor, got, told>>
    BY <2>0, <2>1
  <2>2. CASE DeviceReader
    <3>1. Len(stream') = Len(stream) + 1 /\ UNCHANGED <<cursor, got, told>>
      BY <2>0, <2>2, ReadSplits DEF DeviceReader
    <3>. QED BY <2>0, <3>1
  <2>3. ASSUME NEW c \in Consumers, Receive(c)
        PROVE  (Len(got[d]) + told[d] = cursor[d] /\ cursor[d] <= Len(stream))'
    <3> DEFINE chunk == window[cursor[c] - Oldest + 1]
    <3>1. chunk \in Seq(Nat)
      <4>1. cursor[c] - Oldest + 1 \in 1..Len(window)
        <5>1. Len(window) \in Nat /\ cursor[c] \in Nat /\ tail \in Nat
          BY <2>0
        <5>2. cursor[c] < tail /\ cursor[c] >= tail - Len(window)
          BY <2>3 DEF Receive, Oldest
        <5>3. cursor[c] - (tail - Len(window)) + 1 \in 1..Len(window)
          BY <5>1, <5>2
        <5>. QED BY <5>3 DEF Oldest
      <4>. QED BY <2>0, <4>1
    <3>2. /\ got' = [got EXCEPT ![c] = Append(got[c], chunk)] /\ UNCHANGED <<stream, told>>
          /\ cursor' = [cursor EXCEPT ![c] = cursor[c] + 1] /\ cursor[c] < Len(stream)
      BY <2>3 DEF Receive, Retained
    <3> HIDE DEF chunk
    <3>3. Len(Append(got[c], chunk)) = Len(got[c]) + 1
      BY <2>0, <3>1
    <3>4. CASE d = c
      <4>1. /\ got'[d] = Append(got[d], chunk) /\ told'[d] = told[d]
            /\ cursor'[d] = cursor[d] + 1 /\ stream' = stream
        BY <2>0, <3>2, <3>4
      <4>2. Len(got[d]) \in Nat /\ told[d] \in Nat /\ cursor[d] \in Nat
        BY <2>0
      <4>. QED BY <2>0, <3>2, <3>3, <3>4, <4>1, <4>2
    <3>5. CASE d # c
      BY <2>0, <3>2, <3>5
    <3>. QED BY <3>4, <3>5
  <2>4. ASSUME NEW c \in Consumers, Lagged(c)
        PROVE  (Len(got[d]) + told[d] = cursor[d] /\ cursor[d] <= Len(stream))'
    <3>1. /\ told' = [told EXCEPT ![c] = told[c] + (Oldest - cursor[c])]
          /\ cursor' = [cursor EXCEPT ![c] = Oldest] /\ UNCHANGED <<stream, got>>
      BY <2>4 DEF Lagged
    <3>2. Oldest \in Int /\ Oldest <= Len(stream)
      <4>1. Len(window) \in Nat /\ tail \in Nat /\ tail = Len(stream)
        BY <2>0
      <4>. QED BY <4>1 DEF Oldest
    <3>3. CASE d = c
      <4>1. /\ got'[d] = got[d] /\ cursor'[d] = Oldest
            /\ told'[d] = told[d] + (Oldest - cursor[d])
        BY <2>0, <3>1, <3>3
      <4>2. Len(got[d]) \in Nat /\ told[d] \in Nat /\ cursor[d] \in Nat
        BY <2>0
      <4>. QED BY <2>0, <3>1, <3>2, <4>1, <4>2
    <3>4. CASE d # c
      BY <2>0, <3>1, <3>4
    <3>. QED BY <3>3, <3>4
  <2>5. CASE Spawn
    <3>1. cursor' = cursor
      BY <2>0, <2>5 DEF Spawn, Retained
    <3>. QED BY <2>1, <2>5, <3>1 DEF Spawn
  <2>6. ASSUME NEW c \in Consumers,
               PortWrite(c) \/ PortWriteFails(c) \/ ConsumerReads(c)
                 \/ ConsumerWrites(c) \/ CarryWrites(c)
        PROVE  UNCHANGED <<stream, cursor, got, told>>
    BY <2>6 DEF PortWrite, PortWriteFails, ConsumerReads, ConsumerWrites,
       CarryWrites, FromConsumer, SendCell, rxvars
  <2>7. ASSUME DeviceSends \/ DeviceWriter \/ DeviceWrite \/ DeviceWriteFails
                 \/ DeviceTakes \/ Stop \/ UNCHANGED vars
        PROVE  UNCHANGED <<stream, cursor, got, told>>
    BY <2>7 DEF DeviceSends, DeviceWriter, DeviceWrite, DeviceWriteFails,
       DeviceTakes, Stop, vars, rxvars
  <2>. QED BY <2>1, <2>2, <2>3, <2>4, <2>5, <2>6, <2>7 DEF Next, ToConsumer
<1>. QED BY <1>1, <1>2, TypeCorrect, Retention, PTL DEF Spec

-----------------------------------------------------------------------------
(* One reader of the device.                                               *)

\* The bytes 1..n in order.
Numbers(n) == [i \in 1..n |-> i]

\* One number more goes at the end, and none comes twice.
LEMMA NumbersGrow ==
  ASSUME NEW n \in Nat
  PROVE  /\ Numbers(n) \in Seq(Nat) /\ Once(Numbers(n))
         /\ Append(Numbers(n), n + 1) = Numbers(n + 1)
<1>1. \A m \in Nat : Numbers(m) \in Seq(Nat) /\ Len(Numbers(m)) = m
                      /\ \A i \in 1..m : Numbers(m)[i] = i
  BY DEF Numbers
<1> DEFINE a == Numbers(n)
           b == Numbers(n + 1)
<1>2. /\ a \in Seq(Nat) /\ Len(a) = n /\ \A i \in 1..n : a[i] = i
      /\ b \in Seq(Nat) /\ Len(b) = n + 1 /\ \A i \in 1..(n + 1) : b[i] = i
  BY <1>1
<1> HIDE DEF a, b
<1>3. /\ Append(a, n + 1) \in Seq(Nat) /\ Len(Append(a, n + 1)) = n + 1
      /\ Append(a, n + 1)[n + 1] = n + 1
      /\ \A i \in 1..n : Append(a, n + 1)[i] = a[i]
  BY <1>2, AppendProperties
<1>4. \A i \in 1..(n + 1) : Append(a, n + 1)[i] = b[i]
  <2>1. \A i \in 1..(n + 1) : i = n + 1 \/ i \in 1..n
    OBVIOUS
  <2>. QED BY <1>2, <1>3, <2>1
<1>5. Append(a, n + 1) = b
  BY <1>2, <1>3, <1>4, SeqEqual
<1>6. Once(a)
  BY <1>2 DEF Once
<1>. QED BY <1>2, <1>5, <1>6 DEF a, b

\* A byte from the device waits behind the others, a read takes the first of
\* those that wait and publishes them behind the others published.
LEMMA StreamStep ==
  ASSUME TypeOK, DeviceStreamIntact, [Next]_vars
  PROVE  DeviceStreamIntact'
<1> DEFINE f == FlattenSeq(stream)
<1>1. /\ stream \in Seq(Seq(Nat)) /\ f \in Seq(Nat) /\ line \in Seq(Nat) /\ sent \in Nat
      /\ f \o line = Numbers(sent)
  BY FlatType DEF TypeOK, DeviceStreamIntact, Numbers
<1>2. CASE DeviceSends
  <2>1. line' = Append(line, sent + 1) /\ sent' = sent + 1 /\ FlattenSeq(stream') = f
    BY <1>2 DEF DeviceSends
  <2> HIDE DEF f
  <2>2. f \o Append(line, sent + 1) = Append(f \o line, sent + 1)
    BY <1>1, ConcatAppended, SMTT(30)
  <2>3. f \o line' = Numbers(sent')
    BY <1>1, <2>1, <2>2, NumbersGrow
  <2>. QED BY <2>1, <2>3 DEF DeviceStreamIntact, Numbers
<1>3. CASE DeviceReader
  <2> DEFINE r == ReadOf(line)
             l == LeftBy(line)
  <2>1. r \in Seq(Nat) /\ l \in Seq(Nat) /\ r \o l = line
    BY <1>1, ReadSplits
  <2>2. stream' = Append(stream, r) /\ line' = l /\ sent' = sent
    BY <1>3 DEF DeviceReader
  <2> HIDE DEF r, l
  <2>3. FlattenSeq(Append(stream, r)) = f \o r
    BY <1>1, <2>1, FlatAppend
  <2> HIDE DEF f
  <2>4. (f \o r) \o l = f \o (r \o l)
    <3>1. \A a, b, c \in Seq(Nat) : (a \o b) \o c = a \o (b \o c)
      <4>1. Associative(Nat)
        BY Regrouped, Zenon
      <4>. QED BY <4>1, Zenon DEF Associative
    <3>. QED BY <1>1, <2>1, <3>1, Zenon
  <2>5. FlattenSeq(stream') \o line' = Numbers(sent')
    BY <1>1, <2>1, <2>2, <2>3, <2>4
  <2>. QED BY <2>5 DEF DeviceStreamIntact, Numbers
<1>4. ASSUME NEW c \in Consumers,
             ToConsumer(c) \/ PortWriteFails(c) \/ ConsumerReads(c)
               \/ ConsumerWrites(c) \/ CarryWrites(c)
      PROVE  UNCHANGED <<stream, line, sent>>
  BY <1>4 DEF ToConsumer, Receive, Lagged, PortWrite, PortWriteFails, ConsumerReads,
     ConsumerWrites, CarryWrites, FromConsumer, SendCell, rxvars
<1>5. ASSUME Spawn \/ Stop \/ DeviceWriter \/ DeviceWrite \/ DeviceWriteFails
               \/ DeviceTakes \/ UNCHANGED vars
      PROVE  UNCHANGED <<stream, line, sent>>
  BY <1>5 DEF Spawn, Stop, DeviceWriter, DeviceWrite, DeviceWriteFails, DeviceTakes,
     vars, rxvars
<1>6. UNCHANGED <<stream, line, sent>> => DeviceStreamIntact'
  BY DEF DeviceStreamIntact
<1>. QED BY <1>2, <1>3, <1>4, <1>5, <1>6 DEF Next

\* Rule 1 (mux.rs:16-18): however the consumers fare, what was published and
\* what still waits at the device is exactly what it sent, in order.
THEOREM OneReader == Spec => []DeviceStreamIntact
<1>1. Init => DeviceStreamIntact
  <2> SUFFICES ASSUME Init PROVE DeviceStreamIntact
    OBVIOUS
  <2>1. << >> \in Seq(Nat) /\ [i \in 1..0 |-> i] = << >>
    BY EmptySeq
  <2>2. << >> \o << >> = << >>
    BY <2>1, ConcatEmptySeq
  <2>3. stream = << >> /\ line = << >> /\ sent = 0
    BY DEF Init
  <2>. QED BY <2>1, <2>2, <2>3, FlatEmpty DEF DeviceStreamIntact
<1>. QED BY <1>1, StreamStep, TypeCorrect, PTL DEF Spec

-----------------------------------------------------------------------------
(* A consumer's copy.                                                      *)

\* What a consumer was handed, read by read, joined.
Handed(c) == FlattenSeq(got[c])

\* No byte was read twice: not within a read, not in two of them.
ReadsOnce ==
  /\ \A j \in 1..Len(stream) : Once(stream[j])
  /\ \A j, k \in 1..Len(stream) : j # k => ToSet(stream[j]) \cap ToSet(stream[k]) = {}

\* A consumer was handed no byte twice and none it is not past, and gave up
\* only bytes it was handed.
HandedOnce(c) ==
  /\ Once(Handed(c)) /\ ToSet(Handed(c)) \subseteq ToSet(FlattenSeq(stream))
  /\ spilt[c] \subseteq ToSet(Handed(c))
  /\ \A j \in 1..Len(stream) :
       j > cursor[c] => ToSet(stream[j]) \cap ToSet(Handed(c)) = {}

\* The bytes of a consumer's copy, whole and in the order they were sent.
Copied(c) == heard[c] \o pty[c] \o Bytes(copy[c])
CopyOf(c) == Copied(c) = Kept(Handed(c), Nat \ spilt[c])

\* What a receive hands to the consumer is the read after its position.
LEMMA NextRead ==
  ASSUME TypeOK, Retained, NEW c \in Consumers, Receive(c)
  PROVE  LET next == stream[cursor[c] + 1]
         IN  /\ cursor[c] + 1 \in 1..Len(stream) /\ next \in Seq(Nat) /\ copy[c] = << >>
             /\ got' = [got EXCEPT ![c] = Append(got[c], next)]
             /\ copy' = [copy EXCEPT ![c] = Cells(next)]
             /\ cursor' = [cursor EXCEPT ![c] = cursor[c] + 1]
             /\ UNCHANGED <<stream, line, spilt, heard, pty>>
<1> DEFINE i == cursor[c] - Oldest + 1
<1>1. /\ Oldest \in Int /\ cursor[c] \in Nat /\ tail \in Nat
      /\ Len(window) \in Nat /\ Oldest = tail - Len(window)
  BY DEF Oldest, TypeOK
<1>2. i \in 1..Len(window) /\ Oldest + i = cursor[c] + 1
  BY <1>1 DEF Receive
<1>3. cursor[c] + 1 \in 1..Len(stream)
  <2>1. cursor[c] < tail /\ tail = Len(stream)
    BY DEF Receive, Retained
  <2>. QED BY <1>1, <2>1
<1>4. window[i] = stream[cursor[c] + 1]
  <2> HIDE DEF i
  <2>1. window[i] = stream[Oldest + i]
    BY <1>2 DEF Retained
  <2>. QED BY <1>2, <2>1
<1>5. /\ got' = [got EXCEPT ![c] = Append(got[c], window[i])] /\ copy[c] = << >>
      /\ copy' = [copy EXCEPT ![c] = Cells(window[i])]
      /\ cursor' = [cursor EXCEPT ![c] = cursor[c] + 1]
      /\ UNCHANGED <<stream, line, spilt, heard, pty>>
  BY DEF Receive, lost
<1>6. stream[cursor[c] + 1] \in Seq(Nat)
  BY <1>3, ElementOfSeq DEF TypeOK
<1> HIDE DEF i
<1>. QED BY <1>3, <1>4, <1>5, <1>6

\* A read that is published brings bytes no read had.
LEMMA PublishOnce ==
  ASSUME TypeOK, DeviceStreamIntact, ReadsOnce, DeviceReader
  PROVE  /\ ReadsOnce'
         /\ ReadOf(line) \in Seq(Nat) /\ stream' = Append(stream, ReadOf(line))
         /\ ToSet(FlattenSeq(stream)) \cap ToSet(ReadOf(line)) = {}
         /\ ToSet(FlattenSeq(stream')) = ToSet(FlattenSeq(stream)) \cup ToSet(ReadOf(line))
<1> DEFINE f == FlattenSeq(stream)
           r == ReadOf(line)
           l == LeftBy(line)
           n == Len(stream)
<1>1. /\ stream \in Seq(Seq(Nat)) /\ f \in Seq(Nat) /\ line \in Seq(Nat)
      /\ sent \in Nat /\ n \in Nat
      /\ f \o line = Numbers(sent)
  BY FlatType, LenProperties DEF TypeOK, DeviceStreamIntact, Numbers
<1>2. r \in Seq(Nat) /\ l \in Seq(Nat) /\ r \o l = line /\ stream' = Append(stream, r)
  BY <1>1, ReadSplits DEF DeviceReader
<1>3. FlattenSeq(Append(stream, r)) = f \o r /\ ToSet(f) = UNION {ToSet(stream[i]) : i \in DOMAIN stream}
  <2> HIDE DEF r, f
  <2>1. FlattenSeq(Append(stream, r)) = f \o r
    BY <1>1, <1>2, FlatAppend DEF f
  <2>2. ToSet(f) = UNION {ToSet(stream[i]) : i \in DOMAIN stream}
    BY <1>1, ToSetFlat DEF f
  <2>. QED BY <2>1, <2>2
<1>4. DOMAIN stream = 1..n
  BY <1>1, LenProperties
<1> HIDE DEF f, r, l, n
<1>5. Once(f) /\ Once(line) /\ ToSet(f) \cap ToSet(line) = {}
  BY <1>1, NumbersGrow, OnceConcat, ZenonT(40)
<1>6. Once(r) /\ ToSet(line) = ToSet(r) \cup ToSet(l)
  <2>1. Once(r \o l)
    BY <1>2, <1>5
  <2>2. r \in Seq(Nat) /\ l \in Seq(Nat)
    BY <1>2
  <2>3. Once(r)
    BY <2>1, <2>2, OnceConcat
  <2>4. ToSet(r \o l) = ToSet(r) \cup ToSet(l)
    BY <2>2, ToSetConcat
  <2>. QED BY <1>2, <2>3, <2>4
<1>7. ToSet(f) \cap ToSet(r) = {} /\ ToSet(f \o r) = ToSet(f) \cup ToSet(r)
  BY <1>1, <1>2, <1>5, <1>6, ToSetConcat
<1>8. \A j \in 1..n : ToSet(stream[j]) \cap ToSet(r) = {}
  BY <1>3, <1>4, <1>7
<1>9. /\ Len(stream') = n + 1 /\ stream'[n + 1] = r
      /\ \A j \in 1..n : stream'[j] = stream[j]
  BY <1>1, <1>2, AppendProperties DEF n
<1>10. \A j \in 1..(n + 1) : j = n + 1 \/ j \in 1..n
  BY <1>1
<1>11. ReadsOnce'
  <2>1. \A j \in 1..Len(stream') : Once(stream'[j])
    BY <1>6, <1>9, <1>10 DEF ReadsOnce, n
  <2>2. ASSUME NEW j \in 1..(n + 1), NEW k \in 1..(n + 1), j # k
        PROVE  ToSet(stream'[j]) \cap ToSet(stream'[k]) = {}
    <3>1. CASE j = n + 1
      <4>1. k \in 1..n /\ stream'[k] = stream[k] /\ stream'[j] = r
        BY <1>9, <1>10, <2>2, <3>1
      <4>. QED BY <1>8, <4>1
    <3>2. CASE k = n + 1
      <4>1. j \in 1..n /\ stream'[j] = stream[j] /\ stream'[k] = r
        BY <1>9, <1>10, <2>2, <3>2
      <4>. QED BY <1>8, <4>1
    <3>3. CASE j \in 1..n /\ k \in 1..n
      BY <1>9, <2>2, <3>3 DEF ReadsOnce, n
    <3>. QED BY <1>10, <3>1, <3>2, <3>3
  <2>. QED BY <1>9, <2>1, <2>2 DEF ReadsOnce, Once
<1>. QED BY <1>2, <1>3, <1>7, <1>11 DEF f, r

\* A consumer that only moves on, and reads, keeps what it was handed.
LEMMA HandedKept ==
  ASSUME TypeOK, NEW c \in Consumers, HandedOnce(c),
         UNCHANGED <<got[c], spilt[c], stream>>,
         cursor'[c] \in Nat, cursor[c] <= cursor'[c]
  PROVE  HandedOnce(c)'
<1>1. Handed(c)' = Handed(c)
  BY DEF Handed
<1>2. /\ Len(stream) \in Nat /\ cursor[c] \in Nat
      /\ stream' = stream /\ spilt'[c] = spilt[c]
  BY LenProperties DEF TypeOK
<1>3. \A j \in 1..Len(stream) : j > cursor'[c] => j > cursor[c]
  BY <1>2
<1>4. /\ Once(Handed(c)) /\ ToSet(Handed(c)) \subseteq ToSet(FlattenSeq(stream))
      /\ spilt[c] \subseteq ToSet(Handed(c))
      /\ \A j \in 1..Len(stream) :
           j > cursor[c] => ToSet(stream[j]) \cap ToSet(Handed(c)) = {}
  BY DEF HandedOnce
<1>. QED BY <1>1, <1>2, <1>3, <1>4 DEF HandedOnce, Once

\* A read that is published was handed to nobody.
LEMMA HandedPublish ==
  ASSUME TypeOK, TypeOK', Retained, DeviceStreamIntact, ReadsOnce, DeviceReader,
         NEW c \in Consumers, HandedOnce(c)
  PROVE  HandedOnce(c)'
<1> DEFINE r == ReadOf(line)
           n == Len(stream)
           h == ToSet(Handed(c))
           f == ToSet(FlattenSeq(stream))
<1>1. /\ r \in Seq(Nat) /\ stream' = Append(stream, r)
      /\ f \cap ToSet(r) = {}
      /\ ToSet(FlattenSeq(stream')) = f \cup ToSet(r)
  BY PublishOnce
<1>2. /\ UNCHANGED <<got, cursor, spilt>>
      /\ Handed(c)' = Handed(c)
  BY DEF DeviceReader, Handed, lost
<1>3. stream \in Seq(Seq(Nat)) /\ n \in Nat
  BY LenProperties DEF TypeOK
<1>4. /\ Once(Handed(c)) /\ h \subseteq f /\ spilt[c] \subseteq h
      /\ \A j \in 1..n : j > cursor[c] => ToSet(stream[j]) \cap h = {}
  BY DEF HandedOnce
<1> HIDE DEF r, n, h, f
<1>5. /\ Len(stream') = n + 1 /\ stream'[n + 1] = r
      /\ \A j \in 1..n : stream'[j] = stream[j]
  BY <1>1, <1>3, AppendProperties DEF n
<1>6. \A j \in 1..(n + 1) : j = n + 1 \/ j \in 1..n
  BY <1>3
<1>7. ToSet(r) \cap h = {}
  BY <1>1, <1>4
<1>8. \A j \in 1..(n + 1) : j > cursor[c] => ToSet(stream'[j]) \cap h = {}
  BY <1>4, <1>5, <1>6, <1>7
<1>. QED BY <1>1, <1>2, <1>4, <1>5, <1>8 DEF HandedOnce, h, Once

\* A read that is handed over was not, and no later one is.
LEMMA HandedReceive ==
  ASSUME TypeOK, TypeOK', Retained, ReadsOnce,
         NEW c \in Consumers, Receive(c), HandedOnce(c)
  PROVE  /\ HandedOnce(c)'
         /\ Handed(c)' = Handed(c) \o stream[cursor[c] + 1]
         /\ ToSet(stream[cursor[c] + 1]) \cap spilt[c] = {}
<1> DEFINE k == cursor[c] + 1
           x == stream[k]
           g == Handed(c)
           f == ToSet(FlattenSeq(stream))
           n == Len(stream)
<1>1. /\ k \in 1..n /\ x \in Seq(Nat) /\ got'[c] = Append(got[c], x)
      /\ cursor'[c] = k /\ UNCHANGED <<stream, spilt>>
      /\ got[c] \in Seq(Seq(Nat)) /\ cursor[c] \in Nat /\ n \in Nat
      /\ stream \in Seq(Seq(Nat)) /\ DOMAIN stream = 1..n
  <2>1. /\ k \in 1..n /\ x \in Seq(Nat) /\ UNCHANGED <<stream, spilt>>
        /\ got' = [got EXCEPT ![c] = Append(got[c], x)]
        /\ cursor' = [cursor EXCEPT ![c] = k]
    BY NextRead
  <2>2. /\ got \in [Consumers -> Seq(Seq(Nat))] /\ cursor \in [Consumers -> Nat]
        /\ stream \in Seq(Seq(Nat))
    BY DEF TypeOK
  <2>3. n \in Nat /\ DOMAIN stream = 1..n
    BY <2>2, LenProperties
  <2> HIDE DEF x, n, k
  <2>. QED BY <2>1, <2>2, <2>3
<1>2. Handed(c)' = g \o x /\ g \in Seq(Nat)
  <2> HIDE DEF x
  <2>. QED BY <1>1, FlatAppend, FlatType DEF Handed
<1>3. /\ Once(g) /\ ToSet(g) \subseteq f /\ spilt[c] \subseteq ToSet(g)
      /\ \A j \in 1..n : j > cursor[c] => ToSet(stream[j]) \cap ToSet(g) = {}
  BY DEF HandedOnce
<1>4. ToSet(x) \cap ToSet(g) = {} /\ Once(x)
  <2>1. k > cursor[c]
    BY <1>1
  <2>2. Once(x)
    BY <1>1 DEF ReadsOnce
  <2> HIDE DEF k
  <2>. QED BY <1>1, <1>3, <2>1, <2>2
<1>5. ToSet(x) \subseteq f
  <2>1. f = UNION {ToSet(stream[i]) : i \in DOMAIN stream}
    <3> HIDE DEF f
    <3>. QED BY <1>1, ToSetFlat DEF f
  <2>. QED BY <1>1, <2>1
<1>6. \A j \in 1..n : j > k => ToSet(stream[j]) \cap ToSet(x) = {}
  <2>1. \A j \in 1..n : j > k => j # k
    BY <1>1
  <2>. QED BY <1>1, <2>1 DEF ReadsOnce
<1>7. \A j \in 1..n : j > k => j > cursor[c]
  BY <1>1
<1> HIDE DEF k, x, g, f, n
<1>8. Once(g \o x) /\ ToSet(g \o x) = ToSet(g) \cup ToSet(x)
  BY <1>1, <1>2, <1>3, <1>4, OnceConcat, ToSetConcat
<1>9. \A j \in 1..n : j > k => ToSet(stream[j]) \cap ToSet(g \o x) = {}
  BY <1>3, <1>6, <1>7, <1>8
<1>10. HandedOnce(c)'
  <2>1. /\ Once(g \o x) /\ ToSet(g \o x) \subseteq f /\ spilt[c] \subseteq ToSet(g \o x)
    BY <1>3, <1>5, <1>8
  <2>. QED BY <1>1, <1>2, <1>9, <2>1 DEF HandedOnce, f, n, Once
<1>. QED BY <1>2, <1>3, <1>4, <1>10 DEF x, g, k

\* The parts of a consumer's copy are bytes.
LEMMA CopyType ==
  ASSUME TypeOK, NEW c \in Consumers
  PROVE  /\ heard[c] \in Seq(Nat) /\ pty[c] \in Seq(Nat) /\ heard[c] \o pty[c] \in Seq(Nat)
         /\ copy[c] \in Seq(Seq(Nat)) /\ Bytes(copy[c]) \in Seq(Nat)
         /\ got[c] \in Seq(Seq(Nat)) /\ Handed(c) \in Seq(Nat)
<1>1. /\ heard[c] \in Seq(Nat) /\ pty[c] \in Seq(Nat)
      /\ copy[c] \in Seq(Seq(Nat)) /\ got[c] \in Seq(Seq(Nat))
  BY DEF TypeOK
<1>. QED BY <1>1, ConcatProperties, FlatType DEF Bytes, Handed

\* What is given up with a failed write was handed over and not yet in the port.
LEMMA CopySpilt ==
  ASSUME TypeOK, NEW c \in Consumers, PortWriteFails(c), HandedOnce(c), CopyOf(c)
  PROVE  HandedOnce(c)' /\ CopyOf(c)'
<1> DEFINE a == heard[c] \o pty[c]
           b == Bytes(copy[c])
           g == Handed(c)
           X == Nat \ spilt[c]
           Y == Nat \ (spilt[c] \cup ToSet(b))
<1>1. /\ spilt'[c] = spilt[c] \cup UNION {ToSet(copy[c][i]) : i \in DOMAIN copy[c]}
      /\ copy'[c] = << >>
      /\ UNCHANGED <<heard, pty, got, stream, cursor>>
  BY DEF PortWriteFails, TypeOK
<1>2. /\ a \in Seq(Nat) /\ b \in Seq(Nat) /\ g \in Seq(Nat)
      /\ copy[c] \in Seq(Seq(Nat))
  BY CopyType
<1>3. spilt'[c] = spilt[c] \cup ToSet(b)
  BY <1>1, <1>2, ToSetFlat DEF Bytes
<1>4. Kept(g, X) = a \o b /\ Handed(c)' = g
  BY <1>1 DEF CopyOf, Copied, Handed
<1>5. Copied(c)' = a \o << >>
  BY <1>1, FlatEmpty DEF Copied, Bytes
<1>6. Kept(Handed(c)', Nat \ spilt'[c]) = Kept(g, Y)
  BY <1>3, <1>4
<1>7. Once(g) /\ ToSet(g) \cap Y = (ToSet(g) \cap X) \ ToSet(b)
  BY <1>2, ToSetType DEF HandedOnce
<1>8. spilt[c] \subseteq ToSet(g) /\ ToSet(g) \subseteq ToSet(FlattenSeq(stream))
  BY DEF HandedOnce
<1> HIDE DEF a, b, g, X, Y
<1>9. << >> \in Seq(Nat) /\ (a \o b) \o << >> = a \o b
  <2>1. a \o b \in Seq(Nat)
    BY <1>2, ConcatProperties
  <2>. QED BY <2>1, ConcatEmptySeq, EmptySeq
<1>10. Kept(g, Y) = a \o << >>
  <2> DEFINE e == << >>
  <2>1. ThreeParts(g, X, a, b, e) /\ Less(g, X, Y, b) /\ e \in Seq(Nat)
    BY <1>4, <1>7, <1>9 DEF ThreeParts, Less, Without
  <2> HIDE DEF e
  <2>2. TwoParts(g, Y, a, e)
    BY <1>2, <1>7, <2>1, KeptLess
  <2>. QED BY <2>2 DEF TwoParts, e
<1>11. ToSet(b) \subseteq ToSet(g)
  <2>1. ToSet(Kept(g, X)) = ToSet(g) \cap X
    BY <1>2, KeptMembers
  <2>2. ToSet(a \o b) = ToSet(a) \cup ToSet(b)
    BY <1>2, ToSetConcat
  <2>. QED BY <1>4, <2>1, <2>2
<1>12. CopyOf(c)'
  BY <1>5, <1>6, <1>10 DEF CopyOf
<1>13. HandedOnce(c)'
  <2>1. \A j \in 1..Len(stream) :
          j > cursor[c] => ToSet(stream[j]) \cap ToSet(g) = {}
    BY DEF HandedOnce, g
  <2>2. spilt'[c] \subseteq ToSet(g)
    BY <1>3, <1>8, <1>11
  <2>. QED BY <1>1, <1>4, <1>7, <1>8, <2>1, <2>2 DEF HandedOnce, Once
<1>. QED BY <1>12, <1>13

\* A read that is handed over joins the copy, whole.
LEMMA CopyReceives ==
  ASSUME TypeOK, TypeOK', Retained, ReadsOnce, NEW c \in Consumers, Receive(c),
         HandedOnce(c), CopyOf(c)
  PROVE  CopyOf(c)'
<1> DEFINE x == stream[cursor[c] + 1]
           a == heard[c] \o pty[c]
           g == Handed(c)
           X == Nat \ spilt[c]
<1>1. /\ x \in Seq(Nat) /\ copy[c] = << >> /\ copy' = [copy EXCEPT ![c] = Cells(x)]
      /\ UNCHANGED <<heard, pty, spilt>>
  BY NextRead
<1>2. Handed(c)' = g \o x /\ ToSet(x) \cap spilt[c] = {}
  BY HandedReceive
<1>3. a \in Seq(Nat) /\ g \in Seq(Nat) /\ copy \in [Consumers -> Seq(Seq(Nat))]
  BY CopyType DEF TypeOK
<1>4. a = Kept(g, X)
  <2>1. Copied(c) = a \o << >>
    BY <1>1, FlatEmpty DEF Copied, Bytes
  <2>2. a \o << >> = a
    <3> HIDE DEF a
    <3>. QED BY <1>3, ConcatEmptySeq
  <2>. QED BY <2>1, <2>2 DEF CopyOf
<1>5. ToSet(x) \subseteq X
  <2> HIDE DEF x
  <2>. QED BY <1>1, <1>2, ToSetType
<1>6. Copied(c)' = a \o x
  <2> HIDE DEF x
  <2>1. copy'[c] = Cells(x) /\ FlattenSeq(Cells(x)) = x
    BY <1>1, <1>3, CellsWhole
  <2>. QED BY <1>1, <2>1 DEF Copied, Bytes
<1>7. Kept(g \o x, X) = a \o x
  <2> HIDE DEF x, g, X
  <2>1. Kept(g \o x, X) = Kept(g, X) \o Kept(x, X)
    BY <1>1, <1>3, KeptConcat
  <2>2. Kept(x, X) = x
    BY <1>1, <1>5, KeptAll
  <2>. QED BY <1>4, <2>1, <2>2
<1>. QED BY <1>1, <1>2, <1>6, <1>7 DEF CopyOf

\* A write to the port and a read of the consumer's move the copy on.
LEMMA CopyMoves ==
  ASSUME TypeOK, Bounded, NEW c \in Consumers, CopyOf(c),
         PortWrite(c) \/ ConsumerReads(c)
  PROVE  CopyOf(c)'
<1>0. UNCHANGED <<got, spilt>> /\ Handed(c)' = Handed(c)
  BY DEF PortWrite, ConsumerReads, Handed, lost
<1>1. CASE PortWrite(c)
  <2> DEFINE full == Filled(pty[c], Head(copy[c]))
             left == FlattenSeq(CellsLeft(copy[c], pty[c]))
             flat == FlattenSeq(copy[c])
             h == heard[c]
             p == pty[c]
  <2>1. /\ copy[c] # << >> /\ copy[c] \in Seq(Seq(Nat)) /\ p \in Seq(Nat)
        /\ Len(p) <= PtyBuf /\ h \in Seq(Nat)
    BY <1>1 DEF PortWrite, TypeOK, Bounded
  <2>2. Head(copy[c]) \in Seq(Nat)
    BY <2>1, HeadTailProperties
  <2>3. full \in Seq(Nat) /\ left \in Seq(Nat) /\ flat \in Seq(Nat)
    BY <2>1, <2>2, WriteSplits, CellsLeftType, FlatType
  <2>4. full \o left = p \o flat
    BY <2>1, CellsWritten
  <2>5. pty'[c] = full /\ FlattenSeq(copy'[c]) = left /\ heard'[c] = h
    BY <1>1 DEF PortWrite, TypeOK
  <2>6. Copied(c) = (h \o p) \o flat
    BY DEF Copied, Bytes
  <2> HIDE DEF full, left, flat, h, p
  <2>7. (h \o full) \o left = (h \o p) \o flat
    <3>1. \A a, b, d \in Seq(Nat) : (a \o b) \o d = a \o (b \o d)
      <4>1. Associative(Nat)
        BY Regrouped, Zenon
      <4>. QED BY <4>1, Zenon DEF Associative
    <3>2. (h \o full) \o left = h \o (full \o left)
      BY <2>1, <2>3, <3>1, Zenon
    <3>3. (h \o p) \o flat = h \o (p \o flat)
      BY <2>1, <2>3, <3>1, Zenon
    <3>. QED BY <2>4, <3>2, <3>3, Zenon
  <2>8. Copied(c)' = Copied(c)
    BY <2>5, <2>6, <2>7 DEF Copied, Bytes
  <2>. QED BY <1>0, <2>8 DEF CopyOf
<1>2. CASE ConsumerReads(c)
  <2> DEFINE a == heard[c] \o pty[c]
  <2>1. heard'[c] = a /\ pty'[c] = << >> /\ copy' = copy /\ a \in Seq(Nat)
    BY <1>2, CopyType DEF ConsumerReads, TypeOK
  <2>2. Copied(c) = a \o Bytes(copy[c])
    BY DEF Copied
  <2> HIDE DEF a
  <2>3. a \o << >> = a
    BY <2>1, ConcatEmptySeq
  <2>4. Copied(c)' = Copied(c)
    BY <2>1, <2>2, <2>3 DEF Copied, Bytes
  <2>. QED BY <1>0, <2>4 DEF CopyOf
<1>. QED BY <1>1, <1>2

\* Neither a read nor a byte of one comes twice on the way to a consumer, and
\* its copy is what it was handed but for what a failed write gave up.
CopyInv == ReadsOnce /\ \A c \in Consumers : HandedOnce(c) /\ CopyOf(c)

\* At the start nothing was read.
LEMMA CopyInit == Init => CopyInv
<1> SUFFICES ASSUME Init PROVE CopyInv
  OBVIOUS
<1>1. stream = << >> /\ Len(stream) = 0
  BY DEF Init
<1>2. ReadsOnce
  BY <1>1 DEF ReadsOnce
<1>3. ASSUME NEW c \in Consumers
      PROVE  HandedOnce(c) /\ CopyOf(c)
  <2>1. /\ got[c] = << >> /\ heard[c] = << >> /\ pty[c] = << >> /\ copy[c] = << >>
        /\ spilt[c] = {}
    BY DEF Init
  <2>2. Handed(c) = << >> /\ Bytes(copy[c]) = << >>
    BY <2>1, FlatEmpty DEF Handed, Bytes
  <2>3. ToSet(Handed(c)) = {} /\ Once(Handed(c)) /\ Kept(Handed(c), Nat \ spilt[c]) = << >>
    BY <2>2, ToSetEmpty, KeptEmpty DEF Once
  <2>4. << >> \o << >> = << >>
    <3>1. << >> \in Seq(Nat)
      BY EmptySeq
    <3>. QED BY <3>1, ConcatEmptySeq
  <2>5. Copied(c) = << >>
    BY <2>1, <2>2, <2>4 DEF Copied
  <2>. QED BY <1>1, <2>1, <2>3, <2>5 DEF HandedOnce, CopyOf
<1>. QED BY <1>2, <1>3 DEF CopyInv

\* Every step keeps each consumer's copy.
LEMMA CopyStep ==
  ASSUME TypeOK, Bounded, Retained, DeviceStreamIntact, CopyInv, TypeOK', [Next]_vars
  PROVE  CopyInv'
<1>1. CASE DeviceReader
  <2>1. ReadsOnce'
    BY <1>1, PublishOnce DEF CopyInv
  <2>2. ASSUME NEW c \in Consumers
        PROVE  HandedOnce(c)' /\ CopyOf(c)'
    <3>1. HandedOnce(c)'
      BY <1>1, HandedPublish DEF CopyInv
    <3>2. UNCHANGED <<got, spilt, heard, pty, copy>>
      BY <1>1 DEF DeviceReader, lost
    <3>. QED BY <3>1, <3>2 DEF CopyInv, CopyOf, Copied, Handed
  <2>. QED BY <2>1, <2>2 DEF CopyInv
<1>2. ASSUME UNCHANGED stream
      PROVE  ReadsOnce'
  BY <1>2, ZenonT(40) DEF CopyInv, ReadsOnce, Once
<1>3. ASSUME NEW c \in Consumers,
             UNCHANGED <<stream, got[c], spilt[c], cursor[c], heard[c], pty[c], copy[c]>>
      PROVE  HandedOnce(c)' /\ CopyOf(c)'
  BY <1>3 DEF CopyInv, CopyOf, Copied, Handed, HandedOnce, Once
<1>4. ASSUME NEW c \in Consumers,
             Receive(c) \/ Lagged(c) \/ PortWrite(c) \/ PortWriteFails(c) \/ ConsumerReads(c)
      PROVE  CopyInv'
  <2>1. UNCHANGED stream
    BY <1>4 DEF Receive, Lagged, PortWrite, PortWriteFails, ConsumerReads
  <2>2. ASSUME NEW d \in Consumers, d # c
        PROVE  HandedOnce(d)' /\ CopyOf(d)'
    <3>1. UNCHANGED <<stream, got[d], spilt[d], cursor[d], heard[d], pty[d], copy[d]>>
      BY <1>4, <2>2 DEF Receive, Lagged, PortWrite, PortWriteFails, ConsumerReads, lost, TypeOK
    <3>. QED BY <1>3, <3>1
  <2>3. HandedOnce(c) /\ CopyOf(c) /\ ReadsOnce
    BY DEF CopyInv
  <2>4. HandedOnce(c)' /\ CopyOf(c)'
    <3>1. CASE Receive(c)
      BY <2>3, <3>1, HandedReceive, CopyReceives
    <3>2. CASE Lagged(c)
      <4>1. cursor' = [cursor EXCEPT ![c] = Oldest] /\ cursor[c] < Oldest
            /\ UNCHANGED <<stream, got, spilt, heard, pty, copy>>
        BY <3>2 DEF Lagged, lost
      <4>2. cursor'[c] \in Nat /\ cursor[c] <= cursor'[c]
        <5>1. Oldest \in Int /\ cursor[c] \in Nat /\ cursor'[c] = Oldest
          BY <4>1 DEF TypeOK, Oldest
        <5>. QED BY <4>1, <5>1
      <4>3. HandedOnce(c)'
        BY <2>3, <4>1, <4>2, HandedKept
      <4>. QED BY <2>3, <4>1, <4>3 DEF CopyOf, Copied, Handed
    <3>3. CASE PortWriteFails(c)
      BY <2>3, <3>3, CopySpilt
    <3>4. CASE PortWrite(c) \/ ConsumerReads(c)
      <4>1. UNCHANGED <<stream, got, spilt, cursor>>
        BY <3>4 DEF PortWrite, ConsumerReads, lost
      <4>2. HandedOnce(c)'
        BY <2>3, <4>1 DEF HandedOnce, Handed, Once
      <4>. QED BY <2>3, <3>4, <4>2, CopyMoves
    <3>. QED BY <1>4, <3>1, <3>2, <3>3, <3>4
  <2>5. ReadsOnce'
    BY <1>2, <2>1
  <2>. QED BY <2>2, <2>4, <2>5 DEF CopyInv
<1>5. ASSUME UNCHANGED <<stream, got, spilt, cursor, heard, pty, copy>>
      PROVE  CopyInv'
  BY <1>2, <1>3, <1>5 DEF CopyInv
<1>6. ASSUME NEW c \in Consumers, ConsumerWrites(c) \/ CarryWrites(c)
      PROVE  UNCHANGED <<stream, got, spilt, cursor, heard, pty, copy>>
  BY <1>6 DEF ConsumerWrites, CarryWrites, FromConsumer, SendCell, rxvars, lost
<1>7. ASSUME DeviceSends \/ Stop \/ DeviceWriter \/ DeviceWrite \/ DeviceWriteFails
               \/ DeviceTakes \/ UNCHANGED vars
      PROVE  UNCHANGED <<stream, got, spilt, cursor, heard, pty, copy>>
  BY <1>7 DEF DeviceSends, Stop, DeviceWriter, DeviceWrite, DeviceWriteFails, DeviceTakes,
     vars, rxvars, lost
<1>8. CASE Spawn
  <2>1. UNCHANGED <<stream, got, spilt, heard, pty, copy>> /\ cursor' = cursor
    BY <1>8 DEF Spawn, lost, Retained, TypeOK
  <2>. QED BY <1>5, <2>1
<1>. QED BY <1>1, <1>4, <1>5, <1>6, <1>7, <1>8 DEF Next, ToConsumer

\* A consumer reads the bytes of the reads handed to it, in order, none twice
\* and none missing but those a failed write gave up, however slow it and the
\* others are (deliver and write_all, wire.rs:206-212, pty.rs:276-294).
THEOREM CopiesWhole == Spec => []CopyInOrder
<1>1. CopyInv => CopyInOrder
  BY DEF CopyInv, CopyOf, Copied, Handed, CopyInOrder
<1>. QED BY <1>1, CopyInit, CopyStep, TypeCorrect, Retention, OneReader, PTL DEF Spec

-----------------------------------------------------------------------------
(* What a consumer types.                                                  *)

\* The first n writes of a consumer, joined.
Writes(c, n) == [w \in 1..n |-> Write(c, w)]

\* A consumer's writes are its own bytes, numbered as it made them, and no byte
\* of them comes twice.
LEMMA WritesOnce ==
  ASSUME NEW c \in Consumers, NEW m \in Nat
  PROVE  /\ Writes(c, m) \in Seq(Seq(TypedBy(c)))
         /\ Once(FlattenSeq(Writes(c, m)))
         /\ \A b \in ToSet(FlattenSeq(Writes(c, m))) : b.from = c /\ b.write \in 1..m
         /\ Write(c, m + 1) \in Seq(TypedBy(c))
         /\ \A b \in ToSet(Write(c, m + 1)) : b.from = c /\ b.write = m + 1
         /\ FlattenSeq(Writes(c, m + 1)) = FlattenSeq(Writes(c, m)) \o Write(c, m + 1)
<1> DEFINE S == TypedBy(c)
<1>1. ASSUME NEW w \in Nat
      PROVE  /\ Write(c, w) \in Seq(S) /\ Once(Write(c, w))
             /\ \A b \in ToSet(Write(c, w)) : b.from = c /\ b.write = w
  <2>1. \A i \in 1..WriteLen : /\ Byte(c, w, i) \in S /\ Byte(c, w, i).at = i
                               /\ Byte(c, w, i).from = c /\ Byte(c, w, i).write = w
    BY MuxAssumption DEF Byte, TypedBy
  <2> HIDE DEF S
  <2>2. /\ Write(c, w) \in Seq(S) /\ Len(Write(c, w)) = WriteLen
        /\ DOMAIN Write(c, w) = 1..WriteLen
        /\ \A i \in 1..WriteLen : Write(c, w)[i] = Byte(c, w, i)
    BY <2>1, MuxAssumption DEF Write
  <2>3. Once(Write(c, w))
    <3> SUFFICES ASSUME NEW i \in 1..WriteLen, NEW j \in 1..WriteLen,
                        Write(c, w)[i] = Write(c, w)[j]
                 PROVE  i = j
      BY <2>2 DEF Once
    <3>1. Byte(c, w, i) = Byte(c, w, j)
      BY <2>2
    <3>. QED BY <2>1, <3>1
  <2>4. \A b \in ToSet(Write(c, w)) : b.from = c /\ b.write = w
    BY <2>1, <2>2 DEF ToSet
  <2>. QED BY <2>2, <2>3, <2>4
<1>2. \A n \in Nat : /\ Writes(c, n) \in Seq(Seq(S)) /\ Len(Writes(c, n)) = n
                     /\ \A i \in 1..n : Writes(c, n)[i] = Write(c, i)
  <2> HIDE DEF S
  <2>. QED BY <1>1 DEF Writes
<1>3. ASSUME NEW n \in Nat
      PROVE  Writes(c, n + 1) = Append(Writes(c, n), Write(c, n + 1))
  <2> DEFINE a == Append(Writes(c, n), Write(c, n + 1))
             b == Writes(c, n + 1)
  <2>1. /\ b \in Seq(Seq(S)) /\ Len(b) = n + 1 /\ \A i \in 1..(n + 1) : b[i] = Write(c, i)
    BY <1>2
  <2>2. /\ a \in Seq(Seq(S)) /\ Len(a) = n + 1 /\ a[n + 1] = Write(c, n + 1)
        /\ \A i \in 1..n : a[i] = Writes(c, n)[i]
    <3>1. Writes(c, n) \in Seq(Seq(S)) /\ Len(Writes(c, n)) = n /\ Write(c, n + 1) \in Seq(S)
      BY <1>1, <1>2
    <3> HIDE DEF S
    <3>. QED BY <3>1, AppendProperties
  <2>3. \A i \in 1..n : Writes(c, n)[i] = Write(c, i)
    BY <1>2
  <2> HIDE DEF a, b, S
  <2>4. \A i \in 1..(n + 1) : i = n + 1 \/ i \in 1..n
    OBVIOUS
  <2>5. \A i \in 1..(n + 1) : a[i] = b[i]
    BY <2>1, <2>2, <2>3, <2>4
  <2>6. a = b
    BY <2>1, <2>2, <2>5, SeqEqual
  <2>. QED BY <2>6 DEF a, b
<1>4. ASSUME NEW n \in Nat
      PROVE  FlattenSeq(Writes(c, n + 1)) = FlattenSeq(Writes(c, n)) \o Write(c, n + 1)
  <2> HIDE DEF S
  <2>1. Writes(c, n) \in Seq(Seq(S)) /\ Write(c, n + 1) \in Seq(S)
    BY <1>1, <1>2
  <2>2. FlattenSeq(Append(Writes(c, n), Write(c, n + 1)))
          = FlattenSeq(Writes(c, n)) \o Write(c, n + 1)
    BY <2>1, FlatAppend
  <2>. QED BY <1>3, <2>2
<1> DEFINE Good(n) == /\ Once(FlattenSeq(Writes(c, n)))
                      /\ \A b \in ToSet(FlattenSeq(Writes(c, n))) :
                           b.from = c /\ b.write \in 1..n
           T == {n \in Nat : Good(n)}
<1>5. 0 \in T
  <2>1. Writes(c, 0) = << >>
    BY <1>2, EmptySeq
  <2>2. FlattenSeq(Writes(c, 0)) = << >>
    BY <2>1, FlatEmpty
  <2>3. Once(<< >>) /\ ToSet(<< >>) = {}
    BY ToSetEmpty DEF Once
  <2>4. Good(0)
    BY <2>2, <2>3
  <2>. QED BY <2>4
<1>6. ASSUME NEW n \in Nat, Good(n)
      PROVE  Good(n + 1)
  <2> DEFINE f == FlattenSeq(Writes(c, n))
             x == Write(c, n + 1)
  <2>1. f \in Seq(S) /\ x \in Seq(S) /\ FlattenSeq(Writes(c, n + 1)) = f \o x
    <3>1. Writes(c, n) \in Seq(Seq(S)) /\ x \in Seq(S)
      BY <1>1, <1>2
    <3>2. FlattenSeq(Writes(c, n + 1)) = f \o x
      BY <1>4
    <3> HIDE DEF S, x
    <3>. QED BY <3>1, <3>2, FlatType
  <2>2. /\ Once(f) /\ Once(x)
        /\ \A b \in ToSet(f) : b.from = c /\ b.write \in 1..n
        /\ \A b \in ToSet(x) : b.from = c /\ b.write = n + 1
    BY <1>1, <1>6
  <2> HIDE DEF f, x, S
  <2>3. ToSet(f) \cap ToSet(x) = {}
    <3>1. \A k \in 1..n : k # n + 1
      OBVIOUS
    <3>. QED BY <2>2, <3>1
  <2>4. Once(f \o x) /\ ToSet(f \o x) = ToSet(f) \cup ToSet(x)
    BY <2>1, <2>2, <2>3, OnceConcat, ToSetConcat
  <2>5. \A b \in ToSet(f \o x) : b.from = c /\ b.write \in 1..(n + 1)
    <3>1. n + 1 \in 1..(n + 1) /\ \A k \in 1..n : k \in 1..(n + 1)
      OBVIOUS
    <3>. QED BY <2>2, <2>4, <3>1
  <2>. QED BY <2>1, <2>4, <2>5
<1>7. T = Nat
  <2>1. T \in SUBSET Nat /\ \A n \in T : n + 1 \in T
    <3> HIDE DEF Good
    <3>. QED BY <1>6
  <2> HIDE DEF T
  <2>. QED BY <1>5, <2>1, NatSet
<1>8. Good(m)
  <2> HIDE DEF Good
  <2>. QED BY <1>7
<1>9. m + 1 \in Nat
  OBVIOUS
<1>10. /\ Write(c, m + 1) \in Seq(S)
       /\ \A b \in ToSet(Write(c, m + 1)) : b.from = c /\ b.write = m + 1
  <2> DEFINE k == m + 1
  <2>1. k \in Nat
    BY <1>9
  <2> HIDE DEF k, S
  <2>2. Write(c, k) \in Seq(S) /\ \A b \in ToSet(Write(c, k)) : b.from = c /\ b.write = k
    BY <1>1, <2>1
  <2>. QED BY <2>2 DEF k
<1>11. Writes(c, m) \in Seq(Seq(S))
  BY <1>2
<1>12. FlattenSeq(Writes(c, m + 1)) = FlattenSeq(Writes(c, m)) \o Write(c, m + 1)
  BY <1>4
<1>. QED BY <1>8, <1>10, <1>11, <1>12

\* The bytes at the device and on the way to it, and a consumer's among them
\* with what it still has to send.
Pipe    == devgot \o devbuf \o inhand \o Bytes(queue)
Flow(c) == Kept(Pipe, TypedBy(c)) \o Bytes(outgoing[c]) \o keys[c]

\* The parts of the pipe are bytes of the consumers.
LEMMA PipeType ==
  ASSUME TypeOK
  PROVE  /\ devgot \in Seq(TxByte) /\ devbuf \in Seq(TxByte) /\ inhand \in Seq(TxByte)
         /\ queue \in Seq(Seq(TxByte)) /\ Bytes(queue) \in Seq(TxByte)
         /\ devgot \o devbuf \in Seq(TxByte)
         /\ (devgot \o devbuf) \o inhand \in Seq(TxByte)
         /\ Pipe \in Seq(TxByte)
<1>1. /\ devgot \in Seq(TxByte) /\ devbuf \in Seq(TxByte) /\ inhand \in Seq(TxByte)
      /\ queue \in Seq(Seq(TxByte))
  BY DEF TypeOK
<1>2. Bytes(queue) \in Seq(TxByte)
  BY <1>1, FlatType DEF Bytes
<1>3. devgot \o devbuf \in Seq(TxByte)
  BY <1>1, ConcatProperties
<1>4. (devgot \o devbuf) \o inhand \in Seq(TxByte)
  BY <1>1, <1>3, ConcatProperties
<1>5. Pipe \in Seq(TxByte)
  BY <1>2, <1>4, ConcatProperties DEF Pipe
<1>. QED BY <1>1, <1>2, <1>3, <1>4, <1>5

\* The device's writer only moves bytes along the pipe.
LEMMA PipeMoves ==
  ASSUME TypeOK, Bounded, DeviceWriter \/ DeviceWrite \/ DeviceTakes
  PROVE  Pipe' = Pipe
<1> DEFINE a == devgot
           b == devbuf
           c == inhand
           q == Bytes(queue)
           ab == devgot \o devbuf
<1>0. /\ a \in Seq(TxByte) /\ b \in Seq(TxByte) /\ c \in Seq(TxByte) /\ q \in Seq(TxByte)
      /\ ab \in Seq(TxByte) /\ queue \in Seq(Seq(TxByte))
  BY PipeType
<1>1. Pipe = (ab \o c) \o q /\ ab = a \o b
  BY DEF Pipe
<1>2. \A e, f, g \in Seq(TxByte) : (e \o f) \o g = e \o (f \o g)
  <2>1. Associative(TxByte)
    BY Regrouped, Zenon
  <2>. QED BY <2>1, Zenon DEF Associative
<1>3. CASE DeviceWriter
  <2> DEFINE x == Head(queue)
             y == FlattenSeq(Tail(queue))
  <2>1. /\ c = << >> /\ queue # << >> /\ inhand' = x /\ Bytes(queue') = y
        /\ UNCHANGED <<devgot, devbuf>>
    BY <1>3 DEF DeviceWriter, Bytes
  <2>2. x \in Seq(TxByte) /\ Tail(queue) \in Seq(Seq(TxByte))
    BY <1>0, <2>1, HeadTailProperties
  <2>3. y \in Seq(TxByte)
    BY <2>2, FlatType
  <2>4. q = x \o y
    BY <1>0, <2>1, FlatHead DEF Bytes
  <2>5. Pipe' = (ab \o x) \o y
    BY <2>1 DEF Pipe
  <2>6. Pipe = ab \o q
    <3>1. Pipe = (ab \o << >>) \o q
      BY <1>1, <2>1
    <3>2. ab \o << >> = ab
      <4> HIDE DEF ab
      <4>. QED BY <1>0, ConcatEmptySeq
    <3>. QED BY <3>1, <3>2
  <2> HIDE DEF ab, q, x, y
  <2>7. (ab \o x) \o y = ab \o (x \o y)
    BY <1>0, <1>2, <2>2, <2>3, ZenonT(40)
  <2>. QED BY <2>4, <2>5, <2>6, <2>7, Zenon
<1>4. CASE DeviceWrite
  <2> DEFINE x == Filled(devbuf, inhand)
             y == Unwritten(inhand, devbuf)
  <2>1. devbuf' = x /\ inhand' = y /\ UNCHANGED <<devgot, queue>>
    BY <1>4 DEF DeviceWrite
  <2>2. Len(devbuf) <= PtyBuf
    BY DEF Bounded
  <2>3. x \in Seq(TxByte) /\ y \in Seq(TxByte) /\ x \o y = b \o c
    BY <1>0, <2>2, WriteSplits
  <2>4. Pipe' = ((a \o x) \o y) \o q
    BY <2>1 DEF Pipe, Bytes
  <2> HIDE DEF a, b, c, q, x, y, ab
  <2>5. (a \o x) \o y = a \o (x \o y)
    BY <1>0, <1>2, <2>3, ZenonT(40)
  <2>6. (a \o b) \o c = a \o (b \o c)
    BY <1>0, <1>2, ZenonT(40)
  <2>. QED BY <1>1, <2>3, <2>4, <2>5, <2>6, Zenon
<1>5. CASE DeviceTakes
  <2>1. devgot' = ab /\ devbuf' = << >> /\ UNCHANGED <<inhand, queue>>
    BY <1>5 DEF DeviceTakes
  <2>2. ab \o << >> = ab
    <3> HIDE DEF ab
    <3>. QED BY <1>0, ConcatEmptySeq
  <2>3. Pipe' = ((ab \o << >>) \o c) \o q
    BY <2>1 DEF Pipe, Bytes
  <2> HIDE DEF ab, c, q
  <2>. QED BY <1>1, <2>2, <2>3
<1>. QED BY <1>3, <1>4, <1>5

\* A consumer's bytes are bytes of the TX direction.
LEMMA TypedByTx ==
  ASSUME NEW c \in Consumers
  PROVE  /\ TypedBy(c) \subseteq TxByte
         /\ \A s \in Seq(TypedBy(c)) : s \in Seq(TxByte)
         /\ \A s \in Seq(TxByte) : (\A b \in ToSet(s) : b.from = c) => ToSet(s) \subseteq TypedBy(c)
<1>1. TypedBy(c) \subseteq TxByte
  BY DEF TypedBy, TxByte
<1>2. \A s \in Seq(TypedBy(c)) : s \in Seq(TxByte)
  BY <1>1, SeqMonotonic
<1>3. \A b \in TxByte : b.from = c => b \in TypedBy(c)
  BY DEF TypedBy, TxByte
<1>4. \A s \in Seq(TxByte) : ToSet(s) \subseteq TxByte
  BY ToSetType
<1>. QED BY <1>1, <1>2, <1>3, <1>4

\* What a consumer has sent on and not sent yet is its own.
OwnBytes(c) == outgoing[c] \in Seq(Seq(TypedBy(c))) /\ keys[c] \in Seq(TypedBy(c))

\* What it typed is at the device or on its way, but for what a failed device
\* write gave up.
FlowOf(c) == Flow(c) = Kept(Typed(c), TxByte \ cut)

\* Only bytes that were typed are given up.
CutTyped == \A b \in cut : b.write <= writes[b.from]

\* The parts of a consumer's flow, and what it typed.
LEMMA FlowType ==
  ASSUME TypeOK, NEW c \in Consumers
  PROVE  /\ Kept(Pipe, TypedBy(c)) \in Seq(TxByte)
         /\ outgoing[c] \in Seq(Seq(TxByte)) /\ Bytes(outgoing[c]) \in Seq(TxByte)
         /\ keys[c] \in Seq(TxByte)
         /\ Typed(c) \in Seq(TxByte) /\ Typed(c) = FlattenSeq(Writes(c, writes[c]))
         /\ Once(Typed(c)) /\ ToSet(Typed(c)) \subseteq TypedBy(c)
         /\ \A b \in ToSet(Typed(c)) : b.from = c /\ b.write <= writes[c]
<1>1. outgoing[c] \in Seq(Seq(TxByte)) /\ keys[c] \in Seq(TxByte) /\ writes[c] \in Nat
  BY DEF TypeOK
<1>2. Kept(Pipe, TypedBy(c)) \in Seq(TxByte) /\ Bytes(outgoing[c]) \in Seq(TxByte)
  BY <1>1, PipeType, KeptType, FlatType DEF Bytes
<1>3. Typed(c) = FlattenSeq(Writes(c, writes[c]))
  BY DEF Typed, Writes
<1>4. /\ Writes(c, writes[c]) \in Seq(Seq(TypedBy(c)))
      /\ Once(FlattenSeq(Writes(c, writes[c])))
      /\ \A b \in ToSet(FlattenSeq(Writes(c, writes[c]))) : b.from = c /\ b.write \in 1..writes[c]
  BY <1>1, WritesOnce
<1>5. FlattenSeq(Writes(c, writes[c])) \in Seq(TypedBy(c))
  BY <1>4, FlatType
<1>6. ToSet(FlattenSeq(Writes(c, writes[c]))) \subseteq TypedBy(c)
  BY <1>5, ToSetType
<1>7. Typed(c) \in Seq(TxByte)
  BY <1>3, <1>5, TypedByTx
<1>8. \A b \in ToSet(Typed(c)) : b.from = c /\ b.write <= writes[c]
  <2>1. \A k \in 1..writes[c] : k <= writes[c]
    BY <1>1
  <2>. QED BY <1>3, <1>4, <2>1
<1>. QED BY <1>1, <1>2, <1>3, <1>4, <1>6, <1>7, <1>8

\* A cell put in the queue goes from the end of its consumer's flow to the end
\* of the pipe, and is nobody else's.
LEMMA FlowSends ==
  ASSUME TypeOK, NEW c \in Consumers, SendCell(c), OwnBytes(c), NEW d \in Consumers
  PROVE  Flow(d)' = Flow(d) /\ OwnBytes(c)'
<1> DEFINE h == Head(outgoing[c])
           t == FlattenSeq(Tail(outgoing[c]))
           S == TxByte
           a == devgot \o devbuf \o inhand
           q == FlattenSeq(queue)
           p == Pipe
           k == Kept(Pipe, TypedBy(d))
           D == TypedBy(d)
<1>1. /\ outgoing[c] # << >> /\ outgoing' = [outgoing EXCEPT ![c] = Tail(outgoing[c])]
      /\ queue' = Append(queue, h) /\ UNCHANGED <<keys, devgot, devbuf, inhand>>
  BY DEF SendCell
<1>2. /\ outgoing \in [Consumers -> Seq(Seq(S))] /\ outgoing[c] \in Seq(Seq(S))
      /\ queue \in Seq(Seq(S)) /\ a \in Seq(S) /\ k \in Seq(S) /\ p \in Seq(S)
  BY PipeType, FlowType DEF TypeOK
<1>3. h \in Seq(S) /\ Tail(outgoing[c]) \in Seq(Seq(S)) /\ h \in Seq(TypedBy(c))
      /\ Tail(outgoing[c]) \in Seq(Seq(TypedBy(c)))
  BY <1>1, <1>2, HeadTailProperties DEF OwnBytes
<1>4. t \in Seq(S) /\ q \in Seq(S)
  BY <1>2, <1>3, FlatType
<1>5. FlattenSeq(outgoing[c]) = h \o t
  <2> HIDE DEF S
  <2>. QED BY <1>1, <1>2, FlatHead
<1>6. FlattenSeq(Append(queue, h)) = q \o h
  <2> HIDE DEF S, h
  <2>. QED BY <1>2, <1>3, FlatAppend
<1>7. Pipe' = a \o (q \o h) /\ p = a \o q
  BY <1>1, <1>6 DEF Pipe, Bytes
<1>8. OwnBytes(c)'
  BY <1>1, <1>2, <1>3 DEF OwnBytes, TypedBy
<1>9. ToSet(h) \subseteq TypedBy(c)
  BY <1>3, ToSetType
<1>10. d # c => ToSet(h) \cap D = {}
  BY <1>9 DEF TypedBy
<1>11. d = c => ToSet(h) \subseteq D
  BY <1>9
<1>12. Flow(d) = (k \o FlattenSeq(outgoing[d])) \o keys[d]
  BY DEF Flow, Bytes
<1>13. Flow(d)' = (Kept(Pipe', D) \o FlattenSeq(outgoing'[d])) \o keys[d]
  BY <1>1 DEF Flow, Bytes, TypedBy
<1> HIDE DEF h, t, a, q, p, k, S, D
<1>14. \A x, y, z \in Seq(S) : (x \o y) \o z = x \o (y \o z)
  <2>1. Associative(S)
    BY Regrouped, Zenon
  <2>. QED BY <2>1, Zenon DEF Associative
<1>15. Pipe' = p \o h
  <2>1. (a \o q) \o h = a \o (q \o h)
    BY <1>2, <1>3, <1>4, <1>14, ZenonT(40)
  <2>. QED BY <1>7, <2>1, Zenon
<1>16. Kept(p \o h, D) = Kept(p, D) \o Kept(h, D)
  BY <1>2, <1>3, KeptConcat
<1>17. Kept(p, D) = k
  BY DEF p, k, D
<1>18. CASE d = c
  <2>1. Kept(h, D) = h
    BY <1>3, <1>11, <1>18, KeptAll
  <2>2. Kept(Pipe', D) = k \o h
    BY <1>15, <1>16, <1>17, <2>1
  <2>3. outgoing'[d] = Tail(outgoing[c])
    BY <1>1, <1>2, <1>18
  <2>4. (k \o h) \o t = k \o (h \o t)
    BY <1>2, <1>3, <1>4, <1>14, ZenonT(40)
  <2>5. Kept(Pipe', D) \o FlattenSeq(outgoing'[d]) = k \o FlattenSeq(outgoing[d])
    BY <1>5, <1>18, <2>2, <2>3, <2>4, Zenon DEF t
  <2>. QED BY <1>8, <1>12, <1>13, <2>5, Zenon
<1>19. CASE d # c
  <2>1. Kept(h, D) = << >>
    BY <1>3, <1>10, <1>19, KeptNone
  <2>2. k \o << >> = k
    BY <1>2, ConcatEmptySeq
  <2>3. Kept(Pipe', D) = k
    BY <1>15, <1>16, <1>17, <2>1, <2>2
  <2>4. outgoing'[d] = outgoing[d]
    BY <1>1, <1>2, <1>19
  <2>. QED BY <1>8, <1>12, <1>13, <2>3, <2>4
<1>. QED BY <1>18, <1>19

\* What is read from a consumer's port, planned, is what comes next of its flow.
LEMMA FlowReads ==
  ASSUME TypeOK, NEW c \in Consumers, FromConsumer(c), OwnBytes(c)
  PROVE  Flow(c)' = Flow(c) /\ OwnBytes(c)'
<1> DEFINE S == TxByte
           k == Kept(Pipe, TypedBy(c))
           r == ReadOf(keys[c])
           l == LeftBy(keys[c])
<1>1. /\ outgoing[c] = << >> /\ outgoing' = [outgoing EXCEPT ![c] = Cells(r)]
      /\ keys' = [keys EXCEPT ![c] = l] /\ UNCHANGED <<devgot, devbuf, inhand, queue>>
  BY DEF FromConsumer
<1>2. /\ outgoing \in [Consumers -> Seq(Seq(S))] /\ keys \in [Consumers -> Seq(S)]
      /\ keys[c] \in Seq(S) /\ k \in Seq(S) /\ keys[c] \in Seq(TypedBy(c))
  BY FlowType DEF TypeOK, OwnBytes
<1>3. r \in Seq(S) /\ l \in Seq(S) /\ r \o l = keys[c]
  BY <1>2, ReadSplits
<1>4. r \in Seq(TypedBy(c)) /\ l \in Seq(TypedBy(c))
  BY <1>2, ReadSplits
<1> HIDE DEF r, l, k, S
<1>5. FlattenSeq(Cells(r)) = r /\ Cells(r) \in Seq(Seq(TypedBy(c)))
  BY <1>3, <1>4, CellsWhole, CellsType
<1>6. OwnBytes(c)'
  BY <1>1, <1>2, <1>4, <1>5 DEF OwnBytes, TypedBy
<1>7. k \o << >> = k
  BY <1>2, ConcatEmptySeq
<1>8. (k \o r) \o l = k \o (r \o l)
  <2>1. \A x, y, z \in Seq(S) : (x \o y) \o z = x \o (y \o z)
    <3>1. Associative(S)
      BY Regrouped, Zenon
    <3>. QED BY <3>1, Zenon DEF Associative
  <2>. QED BY <1>2, <1>3, <2>1, Zenon
<1>9. Flow(c) = k \o keys[c]
  BY <1>1, <1>7, FlatEmpty DEF Flow, Bytes, k
<1>10. outgoing'[c] = Cells(r) /\ keys'[c] = l /\ Pipe' = Pipe
  BY <1>1, <1>2 DEF Pipe, Bytes
<1>11. Flow(c)' = (k \o r) \o l
  BY <1>5, <1>10 DEF Flow, Bytes, TypedBy, k
<1>. QED BY <1>3, <1>6, <1>8, <1>9, <1>11

\* What a consumer writes comes last of its flow and of what it typed.
LEMMA FlowTyped ==
  ASSUME TypeOK, NEW c \in Consumers, ConsumerWrites(c), OwnBytes(c), FlowOf(c), CutTyped
  PROVE  FlowOf(c)' /\ OwnBytes(c)' /\ CutTyped'
<1> DEFINE S == TxByte
           k == Kept(Pipe, TypedBy(c)) \o Bytes(outgoing[c])
           y == keys[c]
           w == Write(c, writes[c] + 1)
           t == Typed(c)
           Z == TxByte \ cut
<1>1. /\ writes' = [writes EXCEPT ![c] = writes[c] + 1]
      /\ keys' = [keys EXCEPT ![c] = y \o w]
      /\ UNCHANGED <<devgot, devbuf, inhand, queue, outgoing, cut>>
  BY DEF ConsumerWrites, lost
<1>2. /\ keys \in [Consumers -> Seq(S)] /\ writes \in [Consumers -> Nat] /\ cut \subseteq S
      /\ y \in Seq(TypedBy(c)) /\ outgoing[c] \in Seq(Seq(TypedBy(c)))
      /\ writes[c] \in Nat
  BY DEF TypeOK, OwnBytes
<1>3. /\ k \in Seq(S) /\ y \in Seq(S) /\ t \in Seq(S)
      /\ t = FlattenSeq(Writes(c, writes[c]))
  BY FlowType, ConcatProperties
<1>4. /\ w \in Seq(TypedBy(c))
      /\ \A b \in ToSet(w) : b.from = c /\ b.write = writes[c] + 1
      /\ FlattenSeq(Writes(c, writes[c] + 1)) = t \o w
  BY <1>2, <1>3, WritesOnce
<1>5. w \in Seq(S)
  BY <1>4, TypedByTx
<1>6. writes'[c] = writes[c] + 1 /\ keys'[c] = y \o w /\ outgoing'[c] = outgoing[c]
  BY <1>1, <1>2
<1>7. Typed(c)' = t \o w
  BY <1>4, <1>6 DEF Typed, Writes, Write, Byte
<1>8. OwnBytes(c)'
  <2>1. y \o w \in Seq(TypedBy(c))
    BY <1>2, <1>4, ConcatProperties
  <2>. QED BY <1>2, <1>6, <2>1 DEF OwnBytes, TypedBy
<1>9. CutTyped'
  <2> SUFFICES ASSUME NEW b \in cut PROVE b.write <= writes'[b.from]
    BY <1>1 DEF CutTyped
  <2>1. b.write <= writes[b.from] /\ b.from \in Consumers /\ b.write \in Nat
    BY <1>2 DEF CutTyped, TxByte
  <2>2. writes[b.from] \in Nat /\ writes'[b.from] \in Nat /\ writes[b.from] <= writes'[b.from]
    BY <1>1, <1>2, <2>1
  <2>. QED BY <2>1, <2>2
<1>10. ToSet(w) \subseteq Z
  <2>1. ToSet(w) \subseteq S
    BY <1>5, ToSetType
  <2>2. ASSUME NEW b \in ToSet(w) PROVE b \notin cut
    <3>1. b.from = c /\ b.write = writes[c] + 1
      BY <1>4
    <3>2. ~(writes[c] + 1 <= writes[c])
      BY <1>2
    <3>. QED BY <3>1, <3>2 DEF CutTyped
  <2>. QED BY <2>1, <2>2
<1>11. Flow(c) = k \o y /\ Flow(c)' = k \o (y \o w)
  BY <1>1, <1>6 DEF Flow, Pipe, Bytes, TypedBy
<1>12. k \o y = Kept(t, Z)
  BY <1>11 DEF FlowOf
<1> HIDE DEF S, k, y, w, t, Z
<1>13. (k \o y) \o w = k \o (y \o w)
  <2>1. \A e, f, g \in Seq(S) : (e \o f) \o g = e \o (f \o g)
    <3>1. Associative(S)
      BY Regrouped, Zenon
    <3>. QED BY <3>1, Zenon DEF Associative
  <2>. QED BY <1>3, <1>5, <2>1, ZenonT(40)
<1>14. Kept(t \o w, Z) = Kept(t, Z) \o Kept(w, Z)
  BY <1>3, <1>5, KeptConcat
<1>15. Kept(w, Z) = w
  BY <1>5, <1>10, KeptAll
<1>16. Flow(c)' = Kept(t \o w, Z)
  BY <1>11, <1>12, <1>13, <1>14, <1>15, Zenon
<1>17. TxByte \ cut' = Z
  BY <1>1 DEF Z
<1>18. FlowOf(c)'
  BY <1>7, <1>16, <1>17 DEF FlowOf, TxByte
<1>. QED BY <1>8, <1>9, <1>18

\* What a failed device write gives up was typed, and only that is missing.
LEMMA FlowCut ==
  ASSUME TypeOK, DeviceWriteFails, NEW d \in Consumers, FlowOf(d)
  PROVE  /\ FlowOf(d)'
         /\ \A x \in ToSet(inhand) : x.from = d => x.write <= writes[d]
<1> DEFINE S == TxByte
           D == TypedBy(d)
           A == devgot \o devbuf
           h == inhand
           Q == Bytes(queue)
           O == Bytes(outgoing[d])
           y == keys[d]
           t == Typed(d)
           a == Kept(A, D)
           b == Kept(h, D)
           q == Kept(Q, D)
           ab == a \o b
           qO == q \o O
           c == qO \o y
           Z == S \ cut
           Y == S \ (cut \cup ToSet(h))
<1>1. /\ cut' = cut \cup ToSet(h) /\ inhand' = << >>
      /\ UNCHANGED <<devgot, devbuf, queue, outgoing, keys, writes>>
  BY DEF DeviceWriteFails
<1>2. /\ A \in Seq(S) /\ h \in Seq(S) /\ Q \in Seq(S) /\ O \in Seq(S) /\ y \in Seq(S)
      /\ t \in Seq(S) /\ Once(t) /\ ToSet(t) \subseteq D
      /\ \A x \in ToSet(t) : x.from = d /\ x.write <= writes[d]
  BY PipeType, FlowType
<1>3. Pipe = (A \o h) \o Q /\ Pipe' = (A \o << >>) \o Q
  BY <1>1 DEF Pipe, Bytes
<1>4. Flow(d) = (Kept(Pipe, D) \o O) \o y /\ Flow(d)' = (Kept(Pipe', D) \o O) \o y
  BY <1>1 DEF Flow, Bytes, TypedBy
<1>5. Flow(d) = Kept(t, Z)
  BY DEF FlowOf
<1>6. Typed(d)' = t /\ TxByte \ cut' = Y
  BY <1>1 DEF Typed, Write, Byte
<1>7. \A x \in ToSet(h) : x.from = d => x \in D
  <2>1. ToSet(h) \subseteq S
    BY <1>2, ToSetType
  <2>2. \A x \in S : x.from = d => x \in D
    BY DEF TypedBy, TxByte
  <2>. QED BY <2>1, <2>2
<1> HIDE DEF S, D, A, h, Q, O, y, t, a, b, q, ab, qO, c, Z, Y
<1>8. a \in Seq(S) /\ b \in Seq(S) /\ q \in Seq(S) /\ ToSet(b) = ToSet(h) \cap D
  BY <1>2, KeptType, KeptMembers DEF a, b, q
<1>9. ab \in Seq(S) /\ qO \in Seq(S) /\ c \in Seq(S)
  <2>1. ab \in Seq(S) /\ qO \in Seq(S)
    BY <1>2, <1>8, ConcatProperties DEF ab, qO
  <2>. QED BY <1>2, <2>1, ConcatProperties DEF c
<1>10. \A e, f, g \in Seq(S) : (e \o f) \o g = e \o (f \o g)
  <2>1. Associative(S)
    BY Regrouped, Zenon
  <2>. QED BY <2>1, Zenon DEF Associative
<1>11. A \o h \in Seq(S) /\ A \o << >> = A
  BY <1>2, ConcatProperties, ConcatEmptySeq
<1>12. Kept(Pipe, D) = ab \o q
  <2>1. Kept((A \o h) \o Q, D) = Kept(A \o h, D) \o q
    BY <1>2, <1>11, KeptConcat DEF q
  <2>2. Kept(A \o h, D) = ab
    BY <1>2, KeptConcat DEF a, b, ab
  <2>. QED BY <1>3, <2>1, <2>2
<1>13. Kept(Pipe', D) = a \o q
  <2>1. Kept(A \o Q, D) = a \o q
    BY <1>2, KeptConcat DEF a, q
  <2>. QED BY <1>3, <1>11, <2>1
<1>14. qO = q \o O /\ c = qO \o y
  BY DEF qO, c
<1>15. Flow(d) = ab \o c
  <2>1. ab \in Seq(S) /\ q \in Seq(S) /\ O \in Seq(S) /\ qO \in Seq(S) /\ y \in Seq(S)
    BY <1>2, <1>8, <1>9
  <2>2. (ab \o q) \o O = ab \o (q \o O)
    BY <1>10, <2>1, ZenonT(40)
  <2>3. (ab \o qO) \o y = ab \o (qO \o y)
    BY <1>10, <2>1, ZenonT(40)
  <2>. QED BY <1>4, <1>12, <1>14, <2>2, <2>3, Zenon
<1>16. Flow(d)' = a \o c
  <2>1. a \in Seq(S) /\ q \in Seq(S) /\ O \in Seq(S) /\ qO \in Seq(S) /\ y \in Seq(S)
    BY <1>2, <1>8, <1>9
  <2>2. (a \o q) \o O = a \o (q \o O)
    BY <1>10, <2>1, ZenonT(40)
  <2>3. (a \o qO) \o y = a \o (qO \o y)
    BY <1>10, <2>1, ZenonT(40)
  <2>. QED BY <1>4, <1>13, <1>14, <2>2, <2>3, Zenon
<1>17. ThreeParts(t, Z, a, b, c)
  BY <1>5, <1>15, Zenon DEF ThreeParts, ab
<1>18. Less(t, Z, Y, b)
  BY <1>2, <1>8 DEF Less, Without, Z, Y
<1>19. TwoParts(t, Y, a, c)
  BY <1>2, <1>8, <1>9, <1>17, <1>18, KeptLess
<1>20. FlowOf(d)'
  <2>1. Flow(d)' = Kept(t, Y)
    BY <1>16, <1>19, Zenon DEF TwoParts
  <2>. QED BY <1>6, <2>1 DEF FlowOf, TxByte
<1>21. ASSUME NEW x \in ToSet(h), x.from = d
       PROVE  x.write <= writes[d]
  <2>1. x \in ToSet(b)
    BY <1>7, <1>8, <1>21
  <2>2. ToSet(ab \o c) = (ToSet(a) \cup ToSet(b)) \cup ToSet(c)
    <3>1. ToSet(ab \o c) = ToSet(ab) \cup ToSet(c)
      BY <1>9, ToSetConcat
    <3>2. ToSet(ab) = ToSet(a) \cup ToSet(b)
      BY <1>8, ToSetConcat DEF ab
    <3>. QED BY <3>1, <3>2
  <2>3. ToSet(Kept(t, Z)) = ToSet(t) \cap Z
    BY <1>2, KeptMembers
  <2>4. x \in ToSet(t)
    BY <1>5, <1>15, <2>1, <2>2, <2>3
  <2>. QED BY <1>2, <2>4
<1>. QED BY <1>20, <1>21 DEF h

\* Every consumer's flow is its own and whole.
TypedInv == CutTyped /\ \A c \in Consumers : OwnBytes(c) /\ FlowOf(c)

\* At the start nothing was typed.
LEMMA TypedInit == Init => TypedInv
<1> SUFFICES ASSUME Init, NEW c \in Consumers PROVE CutTyped /\ OwnBytes(c) /\ FlowOf(c)
  BY DEF TypedInv, Init, CutTyped
<1>1. /\ devgot = << >> /\ devbuf = << >> /\ inhand = << >> /\ queue = << >>
      /\ outgoing[c] = << >> /\ keys[c] = << >> /\ writes[c] = 0 /\ cut = {}
  BY DEF Init
<1>2. << >> \o << >> = << >>
  <2>1. << >> \in Seq(Nat)
    BY EmptySeq
  <2>. QED BY <2>1, ConcatEmptySeq
<1>3. Pipe = << >> /\ Bytes(outgoing[c]) = << >>
  BY <1>1, <1>2, FlatEmpty DEF Pipe, Bytes
<1>4. Flow(c) = << >>
  BY <1>1, <1>2, <1>3, KeptEmpty DEF Flow
<1>5. Typed(c) = << >>
  <2>1. [w \in 1..0 |-> Write(c, w)] = << >>
    OBVIOUS
  <2>. QED BY <1>1, <2>1, FlatEmpty DEF Typed
<1>6. FlowOf(c)
  BY <1>4, <1>5, KeptEmpty DEF FlowOf
<1>. QED BY <1>1, <1>6, EmptySeq DEF OwnBytes, CutTyped

\* Every step keeps every consumer's flow.
LEMMA TypedStep ==
  ASSUME TypeOK, Bounded, TypedInv, [Next]_vars
  PROVE  TypedInv'
<1>1. ASSUME NEW c \in Consumers, Pipe' = Pipe,
             UNCHANGED <<outgoing[c], keys[c], writes[c], cut>>
      PROVE  OwnBytes(c)' /\ FlowOf(c)'
  <2>1. OwnBytes(c)'
    BY <1>1 DEF TypedInv, OwnBytes, TypedBy
  <2>2. Flow(c)' = Flow(c)
    BY <1>1 DEF Flow, Bytes, TypedBy
  <2>3. Typed(c)' = Typed(c)
    BY <1>1 DEF Typed, Write, Byte
  <2>. QED BY <1>1, <2>1, <2>2, <2>3 DEF TypedInv, FlowOf, TxByte
<1>2. ASSUME UNCHANGED <<cut, writes>>
      PROVE  CutTyped'
  BY <1>2 DEF TypedInv, CutTyped
<1>3. ASSUME UNCHANGED <<devgot, devbuf, inhand, queue, outgoing, keys, writes, cut>>
      PROVE  TypedInv'
  <2>1. Pipe' = Pipe
    BY <1>3 DEF Pipe, Bytes
  <2>. QED BY <1>1, <1>2, <1>3, <2>1 DEF TypedInv
<1>4. CASE DeviceWriter \/ DeviceWrite \/ DeviceTakes
  <2>1. UNCHANGED <<outgoing, keys, writes, cut>>
    BY <1>4 DEF DeviceWriter, DeviceWrite, DeviceTakes, lost
  <2>2. Pipe' = Pipe
    BY <1>4, PipeMoves
  <2>. QED BY <1>1, <1>2, <2>1, <2>2 DEF TypedInv
<1>5. CASE DeviceWriteFails
  <2>1. /\ UNCHANGED <<outgoing, keys, writes>> /\ cut' = cut \cup ToSet(inhand)
        /\ ToSet(inhand) \subseteq TxByte
    BY <1>5, ToSetType DEF DeviceWriteFails, TypeOK
  <2>2. \A d \in Consumers : FlowOf(d)' /\ \A x \in ToSet(inhand) : x.from = d => x.write <= writes[d]
    BY <1>5, FlowCut DEF TypedInv
  <2>3. \A d \in Consumers : OwnBytes(d)'
    BY <2>1 DEF TypedInv, OwnBytes, TypedBy
  <2>4. \A x \in ToSet(inhand) : x.from \in Consumers
    BY <2>1 DEF TxByte
  <2>5. CutTyped'
    BY <2>1, <2>2, <2>4 DEF TypedInv, CutTyped
  <2>. QED BY <2>2, <2>3, <2>5 DEF TypedInv
<1>6. ASSUME NEW c \in Consumers, SendCell(c)
      PROVE  TypedInv'
  <2>1. /\ UNCHANGED <<keys, writes, cut>>
        /\ outgoing' = [outgoing EXCEPT ![c] = Tail(outgoing[c])]
    BY <1>6 DEF SendCell, lost
  <2>2. OwnBytes(c)
    BY DEF TypedInv
  <2>3. \A d \in Consumers : Flow(d)' = Flow(d)
    BY <1>6, <2>2, FlowSends
  <2>4. OwnBytes(c)'
    BY <1>6, <2>2, FlowSends
  <2>5. \A d \in Consumers : d # c => OwnBytes(d)'
    BY <2>1 DEF TypedInv, OwnBytes, TypedBy, TypeOK
  <2>6. \A d \in Consumers : Typed(d)' = Typed(d)
    BY <2>1 DEF Typed, Write, Byte
  <2>7. \A d \in Consumers : FlowOf(d)'
    BY <2>1, <2>3, <2>6 DEF TypedInv, FlowOf, TxByte
  <2>. QED BY <1>2, <2>1, <2>4, <2>5, <2>7 DEF TypedInv
<1>7. ASSUME NEW c \in Consumers, FromConsumer(c)
      PROVE  TypedInv'
  <2>1. /\ UNCHANGED <<devgot, devbuf, inhand, queue, writes, cut>>
        /\ outgoing' = [outgoing EXCEPT ![c] = Cells(ReadOf(keys[c]))]
        /\ keys' = [keys EXCEPT ![c] = LeftBy(keys[c])]
    BY <1>7 DEF FromConsumer, lost
  <2>2. Pipe' = Pipe
    BY <2>1 DEF Pipe, Bytes
  <2>3. OwnBytes(c) /\ FlowOf(c)
    BY DEF TypedInv
  <2>4. OwnBytes(c)' /\ Flow(c)' = Flow(c)
    BY <1>7, <2>3, FlowReads
  <2>5. Typed(c)' = Typed(c)
    BY <2>1 DEF Typed, Write, Byte
  <2>6. FlowOf(c)'
    BY <2>1, <2>3, <2>4, <2>5 DEF FlowOf, TxByte
  <2>7. \A d \in Consumers : d # c => OwnBytes(d)' /\ FlowOf(d)'
    <3>1. \A d \in Consumers : d # c => UNCHANGED <<outgoing[d], keys[d], writes[d], cut>>
      BY <2>1 DEF TypeOK
    <3>. QED BY <1>1, <2>2, <3>1
  <2>. QED BY <1>2, <2>1, <2>4, <2>6, <2>7 DEF TypedInv
<1>8. ASSUME NEW c \in Consumers, ConsumerWrites(c)
      PROVE  TypedInv'
  <2>1. /\ UNCHANGED <<devgot, devbuf, inhand, queue, outgoing, cut>>
        /\ writes' = [writes EXCEPT ![c] = writes[c] + 1]
        /\ keys' = [keys EXCEPT ![c] = keys[c] \o Write(c, writes[c] + 1)]
    BY <1>8 DEF ConsumerWrites, lost
  <2>2. Pipe' = Pipe
    BY <2>1 DEF Pipe, Bytes
  <2>3. OwnBytes(c) /\ FlowOf(c) /\ CutTyped
    BY DEF TypedInv
  <2>4. OwnBytes(c)' /\ FlowOf(c)' /\ CutTyped'
    BY <1>8, <2>3, FlowTyped
  <2>5. \A d \in Consumers : d # c => OwnBytes(d)' /\ FlowOf(d)'
    <3>1. \A d \in Consumers : d # c => UNCHANGED <<outgoing[d], keys[d], writes[d], cut>>
      BY <2>1 DEF TypeOK
    <3>. QED BY <1>1, <2>2, <3>1
  <2>. QED BY <2>4, <2>5 DEF TypedInv
<1>9. ASSUME NEW c \in Consumers, ToConsumer(c) \/ PortWriteFails(c) \/ ConsumerReads(c)
      PROVE  UNCHANGED <<devgot, devbuf, inhand, queue, outgoing, keys, writes, cut>>
  BY <1>9 DEF ToConsumer, Receive, Lagged, PortWrite, PortWriteFails, ConsumerReads, txvars, lost
<1>10. ASSUME Spawn \/ Stop \/ DeviceSends \/ DeviceReader \/ UNCHANGED vars
       PROVE  UNCHANGED <<devgot, devbuf, inhand, queue, outgoing, keys, writes, cut>>
  BY <1>10 DEF Spawn, Stop, DeviceSends, DeviceReader, vars, txvars, lost
<1>. QED BY <1>3, <1>4, <1>5, <1>6, <1>7, <1>8, <1>9, <1>10 DEF Next, CarryWrites

\* What a consumer typed is, in the order it typed it, at the device, on its way
\* there or still in its port, whatever the others type in between; only a
\* failed device write loses any (from_consumer and device_writer).
THEOREM TypedKept == Spec => []TypedInOrder
<1>1. TypedInv => TypedInOrder
  BY DEF TypedInv, FlowOf, Flow, Pipe, TypedInOrder
<1>. QED BY <1>1, TypedInit, TypedStep, TypeCorrect, PTL DEF Spec

-----------------------------------------------------------------------------
(* Whole writes.                                                           *)

SameWrite(x, y) == x.from = y.from /\ x.write = y.write

\* Between two bytes of one write there is no byte of another.
Whole(s) == \A i, k \in DOMAIN s : \A j \in i..k :
              SameWrite(s[i], s[k]) => SameWrite(s[i], s[j])

\* No write has bytes in both.
Foreign(s, t) == \A x \in ToSet(s), y \in ToSet(t) : ~SameWrite(x, y)

\* What is nobody's is whole, and has no write in common with anything.
LEMMA WholeEmpty == Whole(<< >>) /\ \A s : Foreign(s, << >>) /\ Foreign(<< >>, s)
BY ToSetEmpty DEF Whole, Foreign

\* A sequence joined to one it shares no write with keeps its writes whole.
LEMMA WholeConcat ==
  ASSUME NEW S, NEW s \in Seq(S), NEW t \in Seq(S), Whole(s), Whole(t), Foreign(s, t)
  PROVE  Whole(s \o t)
<1> DEFINE u == s \o t
           m == Len(s)
<1>1. /\ u \in Seq(S) /\ m \in Nat /\ Len(t) \in Nat /\ Len(u) = m + Len(t)
      /\ \A i \in 1..m : u[i] = s[i]
      /\ \A i \in 1..Len(t) : u[m + i] = t[i]
      /\ DOMAIN u = 1..(m + Len(t)) /\ DOMAIN s = 1..m /\ DOMAIN t = 1..Len(t)
  BY LenProperties, ConcatProperties
<1>2. \A i \in 1..m : s[i] \in ToSet(s)
  BY <1>1 DEF ToSet
<1>3. \A i \in 1..Len(t) : t[i] \in ToSet(t)
  BY <1>1 DEF ToSet
<1> HIDE DEF u, m
<1> SUFFICES ASSUME NEW i \in 1..(m + Len(t)), NEW k \in 1..(m + Len(t)), NEW j \in i..k,
                    SameWrite(u[i], u[k])
             PROVE  SameWrite(u[i], u[j])
  BY <1>1 DEF Whole, u
<1>4. CASE k \in 1..m
  <2>1. i \in 1..m /\ j \in 1..m
    BY <1>1, <1>4
  <2>. QED BY <1>1, <1>4, <2>1 DEF Whole
<1>5. CASE i \notin 1..m
  <2> DEFINE p == i - m
             q == k - m
             r == j - m
  <2>1. /\ p \in 1..Len(t) /\ q \in 1..Len(t) /\ r \in p..q /\ r \in 1..Len(t)
        /\ i = m + p /\ k = m + q /\ j = m + r
    BY <1>1, <1>5
  <2> HIDE DEF p, q, r
  <2>2. u[i] = t[p] /\ u[k] = t[q] /\ u[j] = t[r]
    BY <1>1, <2>1
  <2>. QED BY <1>1, <2>1, <2>2 DEF Whole
<1>6. CASE i \in 1..m /\ k \notin 1..m
  <2> DEFINE q == k - m
  <2>1. q \in 1..Len(t) /\ k = m + q
    BY <1>1, <1>6
  <2> HIDE DEF q
  <2>2. u[i] \in ToSet(s) /\ u[k] \in ToSet(t)
    BY <1>1, <1>2, <1>3, <1>6, <2>1
  <2>. QED BY <2>2 DEF Foreign
<1>. QED BY <1>4, <1>5, <1>6

\* What is taken out of a sequence leaves its writes whole.
LEMMA WholeMiddle ==
  ASSUME NEW S, NEW a \in Seq(S), NEW h \in Seq(S), NEW q \in Seq(S), Whole((a \o h) \o q)
  PROVE  Whole(a \o q)
<1> DEFINE s == (a \o h) \o q
           t == a \o q
           n == Len(a)
           m == Len(h)
           l == Len(q)
           f(i) == IF i <= n THEN i ELSE i + m
<1>1. /\ n \in Nat /\ m \in Nat /\ l \in Nat /\ t \in Seq(S) /\ s \in Seq(S)
      /\ DOMAIN t = 1..(n + l) /\ DOMAIN s = 1..((n + m) + l)
      /\ \A i \in 1..n : t[i] = a[i]
      /\ \A i \in 1..l : t[n + i] = q[i]
  BY LenProperties, ConcatProperties
<1>2. /\ \A i \in 1..n : s[i] = a[i]
      /\ \A i \in 1..l : s[(n + m) + i] = q[i]
  <2> DEFINE ah == a \o h
  <2>1. /\ ah \in Seq(S) /\ Len(ah) = n + m /\ \A i \in 1..n : ah[i] = a[i]
    BY ConcatProperties
  <2> HIDE DEF ah
  <2>2. /\ \A i \in 1..(n + m) : (ah \o q)[i] = ah[i]
        /\ \A i \in 1..l : (ah \o q)[(n + m) + i] = q[i]
    BY <2>1, ConcatProperties
  <2>3. s = ah \o q
    BY DEF ah
  <2> HIDE DEF s, n, m, l
  <2>4. \A i \in 1..n : i \in 1..(n + m)
    BY <1>1
  <2>. QED BY <2>1, <2>2, <2>3, <2>4
<1> HIDE DEF s, t, n, m, l
<1>3. \A i \in 1..(n + l) : f(i) \in 1..((n + m) + l) /\ t[i] = s[f(i)]
  <2> SUFFICES ASSUME NEW i \in 1..(n + l)
               PROVE  f(i) \in 1..((n + m) + l) /\ t[i] = s[f(i)]
    OBVIOUS
  <2>1. CASE i <= n
    <3>1. i \in 1..n /\ f(i) = i /\ i \in 1..((n + m) + l)
      BY <1>1, <2>1
    <3>. QED BY <1>1, <1>2, <3>1
  <2>2. CASE ~(i <= n)
    <3> DEFINE p == i - n
    <3>1. p \in 1..l /\ i = n + p /\ f(i) = (n + m) + p /\ f(i) \in 1..((n + m) + l)
      BY <1>1, <2>2
    <3> HIDE DEF p, f
    <3>. QED BY <1>1, <1>2, <3>1
  <2>. QED BY <2>1, <2>2
<1>4. \A i, k \in 1..(n + l) : \A j \in i..k : j \in 1..(n + l) /\ f(j) \in f(i)..f(k)
  BY <1>1
<1> HIDE DEF f
<1>5. \A i, k \in 1..((n + m) + l) : \A j \in i..k :
        SameWrite(s[i], s[k]) => SameWrite(s[i], s[j])
  BY <1>1 DEF Whole, s
<1>6. \A i, k \in 1..(n + l) : \A j \in i..k :
        SameWrite(t[i], t[k]) => SameWrite(t[i], t[j])
  BY <1>3, <1>4, <1>5
<1>. QED BY <1>1, <1>6 DEF Whole, t

\* A consumer's bytes on their way, read and unread, hold no write in parts.
WholeFor(c) ==
  /\ Len(outgoing[c]) <= 1
  /\ Whole(Bytes(outgoing[c])) /\ Whole(keys[c])
  /\ Foreign(Pipe, Bytes(outgoing[c])) /\ Foreign(Pipe, keys[c])
  /\ Foreign(Bytes(outgoing[c]), keys[c])
WholeInv == Whole(Pipe) /\ \A c \in Consumers : WholeFor(c)

\* No byte on its way is of a write its consumer has yet to make.
LEMMA FlowMade ==
  ASSUME TypeOK, NEW c \in Consumers, FlowOf(c)
  PROVE  \A x \in ToSet(Pipe) \cup ToSet(Bytes(outgoing[c])) \cup ToSet(keys[c]) :
            x.from = c => x.write <= writes[c]
<1> DEFINE k == Kept(Pipe, TypedBy(c))
           o == Bytes(outgoing[c])
           y == keys[c]
           t == Typed(c)
           Z == TxByte \ cut
<1>1. /\ k \in Seq(TxByte) /\ o \in Seq(TxByte) /\ y \in Seq(TxByte) /\ t \in Seq(TxByte)
      /\ Pipe \in Seq(TxByte) /\ \A b \in ToSet(t) : b.write <= writes[c]
  BY FlowType, PipeType
<1>2. ToSet(k) = ToSet(Pipe) \cap TypedBy(c)
  BY <1>1, KeptMembers
<1>3. (k \o o) \o y = Kept(t, Z)
  BY DEF FlowOf, Flow
<1>4. \A x \in ToSet(Pipe) : x.from = c => x \in TypedBy(c)
  <2>1. ToSet(Pipe) \subseteq TxByte
    BY <1>1, ToSetType
  <2>. QED BY <2>1 DEF TypedBy, TxByte
<1> HIDE DEF k, o, y, t, Z
<1>5. ToSet((k \o o) \o y) = (ToSet(k) \cup ToSet(o)) \cup ToSet(y)
  <2> DEFINE ko == k \o o
  <2>1. ko \in Seq(TxByte) /\ ToSet(ko) = ToSet(k) \cup ToSet(o)
    BY <1>1, ConcatProperties, ToSetConcat
  <2> HIDE DEF ko
  <2>2. ToSet(ko \o y) = ToSet(ko) \cup ToSet(y)
    BY <1>1, <2>1, ToSetConcat
  <2>. QED BY <2>1, <2>2 DEF ko
<1>6. ToSet(Kept(t, Z)) = ToSet(t) \cap Z
  BY <1>1, KeptMembers
<1>7. ASSUME NEW x \in ToSet(Pipe) \cup ToSet(o) \cup ToSet(y), x.from = c
      PROVE  x \in ToSet(t)
  BY <1>2, <1>3, <1>4, <1>5, <1>6, <1>7
<1>. QED BY <1>1, <1>7 DEF o, y

\* At the start nothing was written.
LEMMA WholeInit == Init => WholeInv
<1> SUFFICES ASSUME Init PROVE WholeInv
  OBVIOUS
<1>1. devgot = << >> /\ devbuf = << >> /\ inhand = << >> /\ queue = << >>
  BY DEF Init
<1>2. << >> \o << >> = << >>
  <2>1. << >> \in Seq(Nat)
    BY EmptySeq
  <2>. QED BY <2>1, ConcatEmptySeq
<1>3. Pipe = << >>
  BY <1>1, <1>2, FlatEmpty DEF Pipe, Bytes
<1>4. ASSUME NEW c \in Consumers
      PROVE  outgoing[c] = << >> /\ Bytes(outgoing[c]) = << >> /\ keys[c] = << >> /\ Len(<< >>) <= 1
  <2>1. outgoing[c] = << >> /\ keys[c] = << >>
    BY DEF Init
  <2>2. Len(<< >>) = 0
    OBVIOUS
  <2>. QED BY <2>1, <2>2, FlatEmpty DEF Bytes
<1>. QED BY <1>3, <1>4, WholeEmpty DEF WholeInv, WholeFor

\* What is foreign to a joined sequence is foreign to its parts.
LEMMA ForeignConcat ==
  ASSUME NEW S, NEW s \in Seq(S), NEW t \in Seq(S), NEW u
  PROVE  /\ Foreign(s \o t, u) <=> Foreign(s, u) /\ Foreign(t, u)
         /\ Foreign(u, s \o t) <=> Foreign(u, s) /\ Foreign(u, t)
<1>1. ToSet(s \o t) = ToSet(s) \cup ToSet(t)
  BY ToSetConcat
<1>. QED BY <1>1 DEF Foreign

\* The pipe without the chunk being written has fewer bytes of the same writes.
LEMMA PipeCut ==
  ASSUME TypeOK, DeviceWriteFails, Whole(Pipe)
  PROVE  Whole(Pipe') /\ ToSet(Pipe') \subseteq ToSet(Pipe)
<1> DEFINE A == devgot \o devbuf
           h == inhand
           Q == Bytes(queue)
<1>1. A \in Seq(TxByte) /\ h \in Seq(TxByte) /\ Q \in Seq(TxByte) /\ A \o h \in Seq(TxByte)
  BY PipeType
<1>2. Pipe = (A \o h) \o Q /\ Pipe' = (A \o << >>) \o Q
  BY DEF DeviceWriteFails, Pipe, Bytes
<1> HIDE DEF A, h, Q
<1>3. A \o << >> = A
  BY <1>1, ConcatEmptySeq
<1>4. Whole(A \o Q)
  BY <1>1, <1>2, WholeMiddle
<1>5. ToSet(A \o Q) = ToSet(A) \cup ToSet(Q)
  BY <1>1, ToSetConcat
<1>6. ToSet((A \o h) \o Q) = (ToSet(A) \cup ToSet(h)) \cup ToSet(Q)
  <2> DEFINE Ah == A \o h
  <2>1. Ah \in Seq(TxByte) /\ ToSet(Ah) = ToSet(A) \cup ToSet(h)
    BY <1>1, ToSetConcat
  <2> HIDE DEF Ah
  <2>2. ToSet(Ah \o Q) = ToSet(Ah) \cup ToSet(Q)
    BY <1>1, <2>1, ToSetConcat
  <2>. QED BY <2>1, <2>2 DEF Ah
<1>. QED BY <1>2, <1>3, <1>4, <1>5, <1>6

\* A sequence of at most one, and not empty, is its head.
LEMMA OnlyOne ==
  ASSUME NEW S, NEW s \in Seq(S), s # << >>, Len(s) <= 1
  PROVE  Head(s) \in S /\ s = <<Head(s)>> /\ Tail(s) = << >>
<1>1. /\ Head(s) \in S /\ Tail(s) \in Seq(S) /\ Head(s) = s[1]
      /\ Len(Tail(s)) = Len(s) - 1 /\ Len(s) \in Nat /\ Len(s) # 0
  BY HeadTailProperties, EmptySeq, LenProperties
<1>2. Len(s) = 1 /\ Len(Tail(s)) = 0
  BY <1>1
<1>3. Tail(s) = << >>
  BY <1>1, <1>2, EmptySeq
<1>4. s = <<s[1]>>
  <2> DEFINE t == <<s[1]>>
  <2>1. t \in Seq(S) /\ Len(t) = 1 /\ t[1] = s[1]
    BY <1>1
  <2> HIDE DEF t
  <2>2. s = t
    BY <1>2, <2>1, SeqEqual
  <2>. QED BY <2>2 DEF t
<1>. QED BY <1>1, <1>3, <1>4

\* A cell put in the queue takes with it all its consumer has to send, which the
\* pipe has nothing of.
LEMMA WholeSends ==
  ASSUME TypeOK, TypedInv, WholeInv, NEW c \in Consumers, SendCell(c)
  PROVE  WholeInv'
<1> DEFINE S == TxByte
           x == Head(outgoing[c])
           A == (devgot \o devbuf) \o inhand
           Q == Bytes(queue)
<1>1. /\ outgoing[c] # << >> /\ outgoing' = [outgoing EXCEPT ![c] = Tail(outgoing[c])]
      /\ queue' = Append(queue, x) /\ UNCHANGED <<devgot, devbuf, inhand, keys>>
  BY DEF SendCell
<1>2. /\ outgoing \in [Consumers -> Seq(Seq(S))] /\ queue \in Seq(Seq(S))
      /\ A \in Seq(S) /\ Q \in Seq(S) /\ Pipe \in Seq(S) /\ keys \in [Consumers -> Seq(S)]
  BY PipeType DEF TypeOK
<1>3. Len(outgoing[c]) <= 1
  BY DEF WholeInv, WholeFor
<1>4. outgoing[c] = <<x>> /\ Tail(outgoing[c]) = << >> /\ x \in Seq(S)
  <2> DEFINE o == outgoing[c]
  <2>1. o \in Seq(Seq(S)) /\ o # << >> /\ Len(o) <= 1
    BY <1>1, <1>2, <1>3
  <2> HIDE DEF o, S
  <2>2. Head(o) \in Seq(S) /\ o = <<Head(o)>> /\ Tail(o) = << >>
    BY <2>1, OnlyOne
  <2>. QED BY <2>2 DEF o
<1>5. Bytes(outgoing[c]) = x
  BY <1>4, FlatOne DEF Bytes
<1>6. outgoing'[c] = << >> /\ \A d \in Consumers : d # c => outgoing'[d] = outgoing[d]
  BY <1>1, <1>2, <1>4
<1>7. Pipe' = Pipe \o x
  <2>1. Bytes(queue') = Q \o x
    BY <1>1, <1>2, <1>4, FlatAppend DEF Bytes
  <2>2. Pipe' = A \o (Q \o x) /\ Pipe = A \o Q
    BY <1>1, <2>1 DEF Pipe, Bytes
  <2>3. \A e, f, g \in Seq(S) : (e \o f) \o g = e \o (f \o g)
    <3>1. Associative(S)
      BY Regrouped, Zenon
    <3>. QED BY <3>1, Zenon DEF Associative
  <2> HIDE DEF A, Q, x
  <2>. QED BY <1>2, <1>4, <2>2, <2>3, ZenonT(40)
<1>8. /\ Whole(Pipe) /\ Whole(x) /\ Foreign(Pipe, x)
      /\ \A d \in Consumers : WholeFor(d)
      /\ Foreign(x, keys[c])
  BY <1>5 DEF WholeInv, WholeFor
<1>9. x \in Seq(TypedBy(c))
  BY <1>4, FlatType DEF TypedInv, OwnBytes
<1>10. \A b \in ToSet(x) : b.from = c
  <2>1. ToSet(x) \subseteq TypedBy(c)
    BY <1>9, ToSetType
  <2>. QED BY <2>1 DEF TypedBy
<1> HIDE DEF x, S
<1>11. Whole(Pipe')
  BY <1>2, <1>4, <1>7, <1>8, WholeConcat
<1>12. Len(<< >>) <= 1
  <2>1. Len(<< >>) = 0
    OBVIOUS
  <2>. QED BY <2>1
<1>13. WholeFor(c)'
  <2>1. Bytes(outgoing[c])' = << >>
    BY <1>6, FlatEmpty DEF Bytes
  <2>2. Foreign(Pipe', keys[c])
    BY <1>2, <1>4, <1>7, <1>8, ForeignConcat DEF WholeFor
  <2>3. Whole(keys[c])
    BY <1>8 DEF WholeFor
  <2>. QED BY <1>1, <1>6, <1>12, <2>1, <2>2, <2>3, WholeEmpty DEF WholeFor
<1>14. ASSUME NEW d \in Consumers, d # c
       PROVE  WholeFor(d)'
  <2>1. WholeFor(d)
    BY <1>8
  <2>2. \A b \in ToSet(Bytes(outgoing[d])) \cup ToSet(keys[d]) : b.from = d
    <3>1. outgoing[d] \in Seq(Seq(TypedBy(d))) /\ keys[d] \in Seq(TypedBy(d))
      BY DEF TypedInv, OwnBytes
    <3>2. Bytes(outgoing[d]) \in Seq(TypedBy(d))
      BY <3>1, FlatType DEF Bytes
    <3>3. ToSet(Bytes(outgoing[d])) \subseteq TypedBy(d) /\ ToSet(keys[d]) \subseteq TypedBy(d)
      BY <3>1, <3>2, ToSetType
    <3>. QED BY <3>3 DEF TypedBy
  <2>3. Foreign(x, Bytes(outgoing[d])) /\ Foreign(x, keys[d])
    BY <1>10, <1>14, <2>2 DEF Foreign, SameWrite
  <2>4. Foreign(Pipe', Bytes(outgoing[d])) /\ Foreign(Pipe', keys[d])
    BY <1>2, <1>4, <1>7, <2>1, <2>3, ForeignConcat DEF WholeFor
  <2>5. outgoing'[d] = outgoing[d] /\ keys'[d] = keys[d]
    BY <1>1, <1>6, <1>14
  <2>6. Bytes(outgoing[d])' = Bytes(outgoing[d])
    BY <2>5 DEF Bytes
  <2>. QED BY <2>1, <2>4, <2>5, <2>6 DEF WholeFor
<1>. QED BY <1>11, <1>13, <1>14 DEF WholeInv

\* A read that takes all the port holds, and is planned as one cell, hands on
\* every write it took whole.
LEMMA WholeReads ==
  ASSUME PtyBuf <= ReadMax, PtyBuf <= CellBytes,
         TypeOK, Bounded, WholeInv, NEW c \in Consumers, FromConsumer(c)
  PROVE  WholeInv'
<1> DEFINE S == TxByte
           k == keys[c]
           m == Len(k)
<1>1. /\ outgoing[c] = << >> /\ outgoing' = [outgoing EXCEPT ![c] = Cells(ReadOf(k))]
      /\ keys' = [keys EXCEPT ![c] = LeftBy(k)] /\ k # << >>
      /\ UNCHANGED <<devgot, devbuf, inhand, queue>>
  BY DEF FromConsumer
<1>2. /\ outgoing \in [Consumers -> Seq(Seq(S))] /\ keys \in [Consumers -> Seq(S)]
      /\ k \in Seq(S) /\ m <= PtyBuf
  BY DEF TypeOK, Bounded
<1>3. ReadOf(k) = k /\ LeftBy(k) = << >>
  <2>1. m \in Nat /\ PtyBuf \in Nat /\ ReadMax \in Nat /\ m <= ReadMax
    BY <1>2, BytesAssumption
  <2>2. Least(ReadMax, m) = m
    BY <2>1 DEF Least
  <2>3. ReadOf(k) \in Seq(S) /\ LeftBy(k) \in Seq(S) /\ ReadOf(k) \o LeftBy(k) = k
    BY <1>2, ReadSplits
  <2>4. LeftBy(k) = SubSeq(k, m + 1, m)
    BY <2>2 DEF LeftBy
  <2> HIDE DEF S, k, m
  <2>5. Len(SubSeq(k, m + 1, m)) = 0
    BY <1>2, <2>1 DEF m
  <2>6. LeftBy(k) = << >>
    BY <2>3, <2>4, <2>5, EmptySeq
  <2>. QED BY <2>3, <2>6, ConcatEmptySeq
<1>4. Cells(k) \in Seq(Seq(S)) /\ Bytes(Cells(k)) = k
  BY <1>2, CellsType, CellsWhole DEF Bytes
<1>5. Len(Cells(k)) <= 1
  <2> DEFINE n == (m + CellBytes - 1) \div CellBytes
  <2>1. m \in Nat /\ CellBytes \in Nat \ {0} /\ m <= CellBytes
    BY <1>2, BytesAssumption
  <2> HIDE DEF m
  <2>2. n \in Nat /\ (n # 0 => (n - 1) * CellBytes < m)
    BY <2>1, DivFacts
  <2>3. Len(Cells(k)) = n
    BY <2>2 DEF Cells, m
  <2> HIDE DEF n
  <2>4. CASE n > 1
    <3>1. n - 1 \in Nat /\ 1 <= n - 1 /\ CellBytes \in Nat
      BY <2>1, <2>2, <2>4
    <3>2. 1 * CellBytes <= (n - 1) * CellBytes /\ (n - 1) * CellBytes \in Nat
      BY <3>1, MulMono
    <3>. QED BY <2>1, <2>2, <2>4, <3>1, <3>2
  <2>. QED BY <2>2, <2>3, <2>4
<1> HIDE DEF k, m, S
<1>6. Pipe' = Pipe
  BY <1>1 DEF Pipe, Bytes
<1>7. outgoing'[c] = Cells(k) /\ keys'[c] = << >> /\ Bytes(outgoing[c])' = k
  BY <1>1, <1>2, <1>3, <1>4 DEF Bytes
<1>8. WholeFor(c)'
  <2>1. Whole(k) /\ Foreign(Pipe, k)
    BY DEF WholeInv, WholeFor, k
  <2>. QED BY <1>5, <1>6, <1>7, <2>1, WholeEmpty DEF WholeFor
<1>9. ASSUME NEW d \in Consumers, d # c
      PROVE  WholeFor(d)'
  <2>1. outgoing'[d] = outgoing[d] /\ keys'[d] = keys[d]
    BY <1>1, <1>2, <1>9
  <2>2. Bytes(outgoing[d])' = Bytes(outgoing[d])
    BY <2>1 DEF Bytes
  <2>. QED BY <1>6, <2>1, <2>2 DEF WholeInv, WholeFor
<1>. QED BY <1>6, <1>8, <1>9 DEF WholeInv

\* A new write is whole, and nothing of it is on its way yet.
LEMMA WholeWrites ==
  ASSUME TypeOK, TypedInv, WholeInv, NEW c \in Consumers, ConsumerWrites(c)
  PROVE  WholeInv'
<1> DEFINE S == TxByte
           y == keys[c]
           w == Write(c, writes[c] + 1)
           o == Bytes(outgoing[c])
<1>1. /\ keys' = [keys EXCEPT ![c] = y \o w]
      /\ UNCHANGED <<devgot, devbuf, inhand, queue, outgoing>>
  BY DEF ConsumerWrites
<1>2. /\ keys \in [Consumers -> Seq(S)] /\ y \in Seq(S) /\ writes[c] \in Nat
  BY DEF TypeOK
<1>3. w \in Seq(TypedBy(c)) /\ \A b \in ToSet(w) : b.from = c /\ b.write = writes[c] + 1
  BY <1>2, WritesOnce
<1>4. w \in Seq(S)
  BY <1>3, TypedByTx
<1>5. Whole(w)
  <2>1. \A i \in DOMAIN w : w[i] \in ToSet(w)
    BY DEF ToSet
  <2> HIDE DEF w
  <2>2. DOMAIN w = 1..Len(w) /\ Len(w) \in Nat
    BY <1>4, LenProperties
  <2> SUFFICES ASSUME NEW i \in DOMAIN w, NEW k \in DOMAIN w, NEW j \in i..k
               PROVE  SameWrite(w[i], w[j])
    BY DEF Whole
  <2>3. j \in DOMAIN w
    BY <2>2
  <2>. QED BY <1>3, <2>1, <2>3 DEF SameWrite
<1>6. \A x \in ToSet(Pipe) \cup ToSet(o) \cup ToSet(y) : x.from = c => x.write <= writes[c]
  BY FlowMade DEF TypedInv
<1> HIDE DEF w, y, o, S
<1>7. Foreign(Pipe, w) /\ Foreign(o, w) /\ Foreign(y, w)
  <2> SUFFICES ASSUME NEW x \in ToSet(Pipe) \cup ToSet(o) \cup ToSet(y), NEW b \in ToSet(w),
                      SameWrite(x, b)
               PROVE  FALSE
    BY DEF Foreign
  <2>1. x.write <= writes[c] /\ x.write = writes[c] + 1
    BY <1>3, <1>6 DEF SameWrite
  <2>. QED BY <1>2, <2>1
<1>8. Pipe' = Pipe
  BY <1>1 DEF Pipe, Bytes
<1>9. \A d \in Consumers : Bytes(outgoing[d])' = Bytes(outgoing[d])
  BY <1>1 DEF Bytes
<1>10. WholeFor(c)'
  <2>1. Whole(y) /\ Foreign(Pipe, y) /\ Foreign(o, y) /\ WholeFor(c)
    BY DEF WholeInv, WholeFor, y, o
  <2>2. Whole(y \o w)
    BY <1>2, <1>4, <1>5, <1>7, <2>1, WholeConcat
  <2>3. Foreign(Pipe, y \o w) /\ Foreign(o, y \o w)
    BY <1>2, <1>4, <1>7, <2>1, ForeignConcat
  <2>4. keys'[c] = y \o w
    BY <1>1, <1>2
  <2>. QED BY <1>1, <1>8, <1>9, <2>1, <2>2, <2>3, <2>4 DEF WholeFor, o
<1>11. ASSUME NEW d \in Consumers, d # c
       PROVE  WholeFor(d)'
  <2>1. keys'[d] = keys[d]
    BY <1>1, <1>2, <1>11
  <2>. QED BY <1>1, <1>8, <1>9, <2>1 DEF WholeInv, WholeFor
<1>. QED BY <1>8, <1>10, <1>11 DEF WholeInv

\* Every step keeps every write whole.
LEMMA WholeStep ==
  ASSUME PtyBuf <= ReadMax, PtyBuf <= CellBytes,
         TypeOK, Bounded, TypedInv, WholeInv, [Next]_vars
  PROVE  WholeInv'
<1>1. ASSUME Whole(Pipe'), ToSet(Pipe') \subseteq ToSet(Pipe), UNCHANGED <<outgoing, keys>>
      PROVE  WholeInv'
  <2>1. \A d \in Consumers : Bytes(outgoing[d])' = Bytes(outgoing[d])
    BY <1>1 DEF Bytes
  <2>2. \A s : Foreign(Pipe, s) => Foreign(Pipe', s)
    BY <1>1 DEF Foreign
  <2>. QED BY <1>1, <2>1, <2>2 DEF WholeInv, WholeFor
<1>2. ASSUME UNCHANGED <<devgot, devbuf, inhand, queue, outgoing, keys>>
      PROVE  WholeInv'
  <2>1. Pipe' = Pipe
    BY <1>2 DEF Pipe, Bytes
  <2>. QED BY <1>1, <1>2, <2>1 DEF WholeInv
<1>3. CASE DeviceWriter \/ DeviceWrite \/ DeviceTakes
  <2>1. Pipe' = Pipe /\ UNCHANGED <<outgoing, keys>>
    BY <1>3, PipeMoves DEF DeviceWriter, DeviceWrite, DeviceTakes
  <2>. QED BY <1>1, <2>1 DEF WholeInv
<1>4. CASE DeviceWriteFails
  <2>1. UNCHANGED <<outgoing, keys>>
    BY <1>4 DEF DeviceWriteFails
  <2>. QED BY <1>1, <1>4, <2>1, PipeCut DEF WholeInv
<1>5. ASSUME NEW c \in Consumers, ToConsumer(c) \/ PortWriteFails(c) \/ ConsumerReads(c)
      PROVE  UNCHANGED <<devgot, devbuf, inhand, queue, outgoing, keys>>
  BY <1>5 DEF ToConsumer, Receive, Lagged, PortWrite, PortWriteFails, ConsumerReads, txvars
<1>6. ASSUME Spawn \/ Stop \/ DeviceSends \/ DeviceReader \/ UNCHANGED vars
      PROVE  UNCHANGED <<devgot, devbuf, inhand, queue, outgoing, keys>>
  BY <1>6 DEF Spawn, Stop, DeviceSends, DeviceReader, vars, txvars
<1>. QED
  BY <1>2, <1>3, <1>4, <1>5, <1>6, WholeSends, WholeReads, WholeWrites DEF Next, CarryWrites

\* Where a read takes all a port holds and no baud cuts it into cells (a read's
\* buffer is larger than the port's, mux.rs:205; cell_bytes is usize::MAX without
\* a baud, wire.rs:105-109), every consumer's write arrives whole, whoever else
\* types and whichever device writes fail.
THEOREM WritesWhole ==
  ASSUME PtyBuf <= ReadMax, PtyBuf <= CellBytes
  PROVE  Spec => []WritesArriveWhole
<1>1. TypeOK /\ WholeInv => WritesArriveWhole
  <2> SUFFICES ASSUME TypeOK, Whole(Pipe) PROVE WritesArriveWhole
    BY DEF WholeInv
  <2> DEFINE A == (devgot \o devbuf) \o inhand
             Q == Bytes(queue)
  <2>1. A \in Seq(TxByte) /\ Q \in Seq(TxByte) /\ Pipe = A \o Q
    BY PipeType DEF Pipe
  <2> HIDE DEF A, Q
  <2>2. (A \o Q) \o << >> = A \o Q /\ << >> \in Seq(TxByte) /\ A \o << >> = A
    BY <2>1, ConcatEmptySeq, ConcatProperties, EmptySeq
  <2>3. Whole(A \o << >>)
    BY <2>1, <2>2, WholeMiddle
  <2>4. Whole(A)
    BY <2>2, <2>3
  <2>. QED BY <2>4 DEF WritesArriveWhole, Whole, SameWrite, A
<1>2. WholeInv /\ TypeOK /\ Bounded /\ TypedInv /\ [Next]_vars => WholeInv'
  BY WholeStep
<1>3. TypedInv /\ TypeOK /\ Bounded /\ [Next]_vars => TypedInv'
  BY TypedStep
<1>. QED BY <1>1, <1>2, <1>3, TypedInit, WholeInit, TypeCorrect, PTL DEF Spec
=============================================================================
