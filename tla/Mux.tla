-------------------------------- MODULE Mux --------------------------------
(***************************************************************************)
(* `ttyforge mux` once its ports are announced (src/src/forge/mux.rs): one  *)
(* task reads the device and publishes each read in a bounded fan-out      *)
(* buffer, one task per consumer copies it to that consumer's port, one    *)
(* per consumer carries its writes into a bounded queue, and one drains    *)
(* the queue into the device.  Tasks share one thread and interleave at    *)
(* their awaits, so every action below runs from one await to the next.    *)
(***************************************************************************)
EXTENDS WireCells, FiniteSets

CONSTANTS Consumers,   \* one per --link
          Backlog,     \* BACKLOG: reads the fan-out buffer retains
          TxQueue,     \* TX_QUEUE: chunks waiting for the device writer
          Attentive,   \* the consumers that keep draining their port
          WriteLen,    \* bytes in one write of a consumer
          MaxRx, MaxWrites, MaxFaults, \* bounds: bytes the device sends,
                       \* writes of one consumer, failures
          MaxTraffic   \* bound on both together, a byte as 2, a write as 3

ASSUME MuxAssumption == /\ Backlog \in Nat \ {0}
                        /\ TxQueue \in Nat \ {0}
                        /\ Attentive \subseteq Consumers
                        /\ WriteLen \in Nat \ {0}

VARIABLES
  phase,      \* "ready" (announced), "serving" (tasks spawned), "down"
  line, sent, \* bytes waiting at the device's fd; how many it has sent
  window, tail, cursor, \* the fan-out buffer: reads retained, reads ever
                        \* published, and each consumer's position
  copy, pty, heard,     \* cells to_consumer still has to write, bytes in the
                        \* port, bytes the consumer has read
  keys, outgoing,       \* bytes in the port, cells from_consumer has to queue
  queue, inhand,        \* the mpsc queue; what device_writer is writing
  devbuf, devgot,       \* bytes in the device's buffer; bytes it has taken
  writes, faults,       \* how many writes each consumer made; failures
  stream, got, told,    \* history: reads published; reads received and
                        \* reads announced as lost, per consumer
  spilt, cut  \* history: bytes given up with a failed write, per consumer
              \* and toward the device

rxvars == <<line, sent, window, tail, cursor, copy, pty, heard, stream, got, told>>
txvars == <<keys, outgoing, queue, inhand, devbuf, devgot, writes>>
lost   == <<faults, spilt, cut>>
vars   == <<phase, rxvars, txvars, lost>>

Byte(c, w, i) == [from |-> c, write |-> w, at |-> i]
Write(c, w)   == [i \in 1..WriteLen |-> Byte(c, w, i)]
Typed(c)      == FlattenSeq([w \in 1..writes[c] |-> Write(c, w)])
Traffic       == 2 * sent + 3 * FoldFunction(+, 0, writes)

Oldest        == tail - Len(window)    \* reads that have left the buffer

Init == /\ phase = "ready"
        /\ line = << >> /\ sent = 0
        /\ window = << >> /\ tail = 0
        /\ cursor = [c \in Consumers |-> 0]
        /\ copy = [c \in Consumers |-> << >>]
        /\ pty = [c \in Consumers |-> << >>]
        /\ heard = [c \in Consumers |-> << >>]
        /\ keys = [c \in Consumers |-> << >>]
        /\ outgoing = [c \in Consumers |-> << >>]
        /\ queue = << >> /\ inhand = << >>
        /\ devbuf = << >> /\ devgot = << >>
        /\ writes = [c \in Consumers |-> 0]
        /\ faults = 0 /\ cut = {}
        /\ spilt = [c \in Consumers |-> {}]
        /\ stream = << >>
        /\ got = [c \in Consumers |-> << >>]
        /\ told = [c \in Consumers |-> 0]

-----------------------------------------------------------------------------
(* The forge's main task.                                                  *)

\* The channels, and every task, with no await in between: all receivers
\* subscribe before the device reader first runs.
Spawn == /\ phase = "ready"
         /\ phase' = "serving"
         /\ cursor' = [c \in Consumers |-> tail]
         /\ UNCHANGED <<line, sent, window, tail, copy, pty, heard, stream, got,
                        told, txvars, lost>>

\* SIGTERM or Ctrl-C reaches the select loop: every task is aborted where it
\* stands and the process ends.
Stop == /\ phase = "serving"
        /\ phase' = "down"
        /\ UNCHANGED <<rxvars, txvars, lost>>

-----------------------------------------------------------------------------
(* Device to consumers.                                                    *)

DeviceSends == /\ phase # "down"
               /\ sent < MaxRx /\ Traffic + 2 <= MaxTraffic
               /\ Len(line) < PtyBuf
               /\ sent' = sent + 1
               /\ line' = Append(line, sent + 1)
               /\ UNCHANGED <<phase, window, tail, cursor, copy, pty, heard,
                              stream, got, told, txvars, lost>>

\* Mutant of DeviceReader: a read that some consumer has no room for is dropped
\* for everybody.
DeviceReaderTries ==
  /\ phase = "serving"
  /\ line # << >>
  /\ IF \A c \in Consumers : tail - cursor[c] < Backlog
     THEN /\ window' = <<ReadOf(line)>>
          /\ stream' = Append(stream, ReadOf(line))
          /\ tail' = tail + 1
     ELSE UNCHANGED <<window, stream, tail>>
  /\ line' = LeftBy(line)
  /\ UNCHANGED <<phase, sent, cursor, copy, pty, heard, got, told, txvars, lost>>

\* Mutant of DeviceReader: backpressure, no read until every port has taken
\* its copy of the last one.
DeviceReaderWaits ==
  /\ phase = "serving"
  /\ line # << >>
  /\ \A c \in Consumers : cursor[c] = tail /\ copy[c] = << >>
  /\ window' = <<ReadOf(line)>>
  /\ stream' = Append(stream, ReadOf(line))
  /\ tail' = tail + 1
  /\ line' = LeftBy(line)
  /\ UNCHANGED <<phase, sent, cursor, copy, pty, heard, got, told, txvars, lost>>

DeviceReader ==
  /\ phase = "serving"
  /\ line # << >>
  /\ LET chunk == ReadOf(line)
     IN  /\ window' = IF Len(window) < Backlog
                      THEN Append(window, chunk)
                      ELSE Append(Tail(window), chunk)
         /\ stream' = Append(stream, chunk)
  /\ tail' = tail + 1
  /\ line' = LeftBy(line)
  /\ UNCHANGED <<phase, sent, cursor, copy, pty, heard, got, told, txvars,
                 lost>>

\* rx.recv() returns the next read, and deliver plans it.
Receive(c) ==
  /\ phase = "serving"
  /\ copy[c] = << >>
  /\ cursor[c] < tail /\ cursor[c] >= Oldest
  /\ LET chunk == window[cursor[c] - Oldest + 1]
     IN  /\ copy' = [copy EXCEPT ![c] = Cells(chunk)]
         /\ got' = [got EXCEPT ![c] = Append(@, chunk)]
  /\ cursor' = [cursor EXCEPT ![c] = @ + 1]
  /\ UNCHANGED <<phase, line, sent, window, tail, pty, heard, stream, told,
                 txvars, lost>>

\* Mutant of Lagged: the count is taken the wrong way round.
LaggedReversed(c) ==
  /\ phase = "serving"
  /\ copy[c] = << >>
  /\ cursor[c] < Oldest
  /\ told' = [told EXCEPT ![c] = @ + (cursor[c] - Oldest)]
  /\ cursor' = [cursor EXCEPT ![c] = Oldest]
  /\ UNCHANGED <<phase, line, sent, window, tail, copy, pty, heard, stream, got,
                 txvars, lost>>

\* Mutant of Lagged: the task resubscribes, and what the buffer still retains is
\* dropped along with what it lost.
LaggedResubscribes(c) ==
  /\ phase = "serving"
  /\ copy[c] = << >>
  /\ cursor[c] < Oldest
  /\ told' = [told EXCEPT ![c] = @ + (Oldest - cursor[c])]
  /\ cursor' = [cursor EXCEPT ![c] = tail]
  /\ UNCHANGED <<phase, line, sent, window, tail, copy, pty, heard, stream, got,
                 txvars, lost>>

\* rx.recv() returns Lagged(n): the consumer is told n and resumes at the
\* oldest read still retained.
Lagged(c) ==
  /\ phase = "serving"
  /\ copy[c] = << >>
  /\ cursor[c] < Oldest
  /\ told' = [told EXCEPT ![c] = @ + (Oldest - cursor[c])]
  /\ cursor' = [cursor EXCEPT ![c] = Oldest]
  /\ UNCHANGED <<phase, line, sent, window, tail, copy, pty, heard, stream, got,
                 txvars, lost>>

PortWrite(c) ==
  /\ phase = "serving"
  /\ copy[c] # << >>
  /\ Room(pty[c]) > 0
  /\ pty' = [pty EXCEPT ![c] = Filled(@, Head(copy[c]))]
  /\ copy' = [copy EXCEPT ![c] = CellsLeft(@, pty[c])]
  /\ UNCHANGED <<phase, line, sent, window, tail, cursor, heard, stream, got,
                 told, txvars, lost>>

\* deliver returns an error: what is left of this read is given up.
PortWriteFails(c) ==
  /\ phase = "serving"
  /\ faults < MaxFaults
  /\ copy[c] # << >>
  /\ spilt' = [spilt EXCEPT ![c] = @ \cup UNION {ToSet(copy[c][i]) : i \in DOMAIN copy[c]}]
  /\ copy' = [copy EXCEPT ![c] = << >>]
  /\ faults' = faults + 1
  /\ UNCHANGED <<phase, line, sent, window, tail, cursor, pty, heard, stream,
                 got, told, txvars, cut>>

ConsumerReads(c) ==
  /\ phase # "down"
  /\ pty[c] # << >>
  /\ heard' = [heard EXCEPT ![c] = @ \o pty[c]]
  /\ pty' = [pty EXCEPT ![c] = << >>]
  /\ UNCHANGED <<phase, line, sent, window, tail, cursor, copy, stream, got,
                 told, txvars, lost>>

-----------------------------------------------------------------------------
(* Consumers to device.                                                    *)

ConsumerWrites(c) ==
  /\ phase # "down"
  /\ writes[c] < MaxWrites /\ Traffic + 3 <= MaxTraffic
  /\ Room(keys[c]) >= WriteLen
  /\ writes' = [writes EXCEPT ![c] = @ + 1]
  /\ keys' = [keys EXCEPT ![c] = @ \o Write(c, writes[c] + 1)]
  /\ UNCHANGED <<phase, rxvars, outgoing, queue, inhand, devbuf, devgot,
                 lost>>

\* from_consumer reads the port and plans what it read.
FromConsumer(c) ==
  /\ phase = "serving"
  /\ outgoing[c] = << >>
  /\ keys[c] # << >>
  /\ outgoing' = [outgoing EXCEPT ![c] = Cells(ReadOf(keys[c]))]
  /\ keys' = [keys EXCEPT ![c] = LeftBy(@)]
  /\ UNCHANGED <<phase, rxvars, queue, inhand, devbuf, devgot, writes, lost>>

\* Mutant of SendCell: try_send, so a cell that finds the queue full is lost.
SendCellTries(c) ==
  /\ phase = "serving"
  /\ outgoing[c] # << >>
  /\ queue' = IF Len(queue) < TxQueue THEN Append(queue, Head(outgoing[c]))
                                      ELSE queue
  /\ outgoing' = [outgoing EXCEPT ![c] = Tail(@)]
  /\ UNCHANGED <<phase, rxvars, keys, inhand, devbuf, devgot, writes, lost>>

\* Mutant of SendCell: the queue's last slot is never used.
SendCellLeavesSlot(c) ==
  /\ phase = "serving"
  /\ outgoing[c] # << >>
  /\ Len(queue) < TxQueue - 1
  /\ queue' = Append(queue, Head(outgoing[c]))
  /\ outgoing' = [outgoing EXCEPT ![c] = Tail(@)]
  /\ UNCHANGED <<phase, rxvars, keys, inhand, devbuf, devgot, writes, lost>>

\* One cell, due, into the queue; send waits while the queue is full.
SendCell(c) ==
  /\ phase = "serving"
  /\ outgoing[c] # << >>
  /\ Len(queue) < TxQueue
  /\ queue' = Append(queue, Head(outgoing[c]))
  /\ outgoing' = [outgoing EXCEPT ![c] = Tail(@)]
  /\ UNCHANGED <<phase, rxvars, keys, inhand, devbuf, devgot, writes, lost>>

DeviceWriter ==
  /\ phase = "serving"
  /\ inhand = << >>
  /\ queue # << >>
  /\ inhand' = Head(queue)
  /\ queue' = Tail(queue)
  /\ UNCHANGED <<phase, rxvars, keys, outgoing, devbuf, devgot, writes, lost>>

DeviceWrite ==
  /\ phase = "serving"
  /\ inhand # << >>
  /\ Room(devbuf) > 0
  /\ devbuf' = Filled(devbuf, inhand)
  /\ inhand' = Unwritten(inhand, devbuf)
  /\ UNCHANGED <<phase, rxvars, keys, outgoing, queue, devgot, writes, lost>>

\* dev.write_all fails: the rest of the chunk is dropped, the next one tried.
DeviceWriteFails ==
  /\ phase = "serving"
  /\ faults < MaxFaults
  /\ inhand # << >>
  /\ cut' = cut \cup ToSet(inhand)
  /\ inhand' = << >>
  /\ faults' = faults + 1
  /\ UNCHANGED <<phase, rxvars, keys, outgoing, queue, devbuf, devgot, writes,
                 spilt>>

DeviceTakes == /\ phase # "down"
               /\ devbuf # << >>
               /\ devgot' = devgot \o devbuf
               /\ devbuf' = << >>
               /\ UNCHANGED <<phase, rxvars, keys, outgoing, queue, inhand,
                              writes, lost>>

-----------------------------------------------------------------------------
ToConsumer(c)  == Receive(c) \/ Lagged(c) \/ PortWrite(c)
CarryWrites(c) == FromConsumer(c) \/ SendCell(c)

Next == \/ Spawn \/ Stop
        \/ DeviceSends \/ DeviceReader
        \/ DeviceWriter \/ DeviceWrite \/ DeviceWriteFails \/ DeviceTakes
        \/ \E c \in Consumers :
             \/ ToConsumer(c) \/ PortWriteFails(c) \/ ConsumerReads(c)
             \/ ConsumerWrites(c) \/ CarryWrites(c)

Spec == Init /\ [][Next]_vars

\* The runtime polls every woken task; a signal, a failure, what the device
\* and the tools send, and a device or tool that drains, are promised by
\* nobody, except that the Attentive consumers keep reading.
Fairness == /\ WF_vars(Spawn) /\ WF_vars(DeviceReader)
            /\ WF_vars(DeviceWriter \/ DeviceWrite)
            /\ \A c \in Consumers : WF_vars(ToConsumer(c)) /\ WF_vars(FromConsumer(c))
            /\ \A c \in Consumers : SF_vars(SendCell(c))
            /\ \A c \in Attentive : WF_vars(ConsumerReads(c))

LiveSpec == Spec /\ Fairness

-----------------------------------------------------------------------------
TxByte == [from : Consumers, write : Nat, at : Nat]

TypeOK ==
  /\ phase \in {"ready", "serving", "down"}
  /\ line \in Seq(Nat) /\ sent \in Nat
  /\ window \in Seq(Seq(Nat)) /\ tail \in Nat
  /\ cursor \in [Consumers -> Nat]
  /\ copy \in [Consumers -> Seq(Seq(Nat))]
  /\ pty \in [Consumers -> Seq(Nat)]
  /\ heard \in [Consumers -> Seq(Nat)]
  /\ keys \in [Consumers -> Seq(TxByte)]
  /\ outgoing \in [Consumers -> Seq(Seq(TxByte))]
  /\ queue \in Seq(Seq(TxByte)) /\ inhand \in Seq(TxByte)
  /\ devbuf \in Seq(TxByte) /\ devgot \in Seq(TxByte)
  /\ writes \in [Consumers -> Nat] /\ faults \in Nat
  /\ stream \in Seq(Seq(Nat))
  /\ got \in [Consumers -> Seq(Seq(Nat))]
  /\ told \in [Consumers -> Nat]
  /\ spilt \in [Consumers -> SUBSET Nat] /\ cut \subseteq TxByte

\* No buffer on either path outgrows its capacity, however long anyone stalls
\* (BACKLOG, TX_QUEUE and the kernel's).
Bounded == /\ Len(window) <= Backlog /\ Len(queue) <= TxQueue
           /\ Len(line) <= PtyBuf /\ Len(devbuf) <= PtyBuf
           /\ \A c \in Consumers : Len(pty[c]) <= PtyBuf /\ Len(keys[c]) <= PtyBuf

\* What the reads, the buffer and the cursors have to do with each other: the
\* buffer retains the newest Backlog reads published, no cursor is past them,
\* and none has moved before the tasks are spawned.
Retained == /\ tail = Len(stream)
            /\ Len(window) = Least(tail, Backlog)
            /\ \A i \in 1..Len(window) : window[i] = stream[Oldest + i]
            /\ \A c \in Consumers : cursor[c] <= tail
            /\ phase = "ready" => \A c \in Consumers : cursor[c] = tail

FO == INSTANCE FanOut WITH Reads <- Seq(Nat), Slack <- Backlog, place <- cursor

\* What mux promises about the device's stream (mux.rs:14-22): the bounded
\* buffer, its overwriting and the per-consumer cursors hand every consumer
\* the reads as published, in order, and announce each one it skips.
PromisedFanOut == FO!FSpec
=============================================================================
