------------------------------- MODULE MCMux -------------------------------
(***************************************************************************)
(* Mux with two consumers, one of which never drains its port, and the     *)
(* properties TLC checks of it.                                            *)
(***************************************************************************)
EXTENDS Mux

\* Rule 1, one reader of the device: what was published and what still waits
\* at the fd is exactly what the device sent, in order.
DeviceStreamIntact == FlattenSeq(stream) \o line = [i \in 1..sent |-> i]

\* A consumer reads the bytes of the reads handed to it, in order, none twice
\* and none missing but those of a read whose write failed (deliver and
\* write_all, wire.rs:206-212, pty.rs:276-294).
CopyInOrder ==
  \A c \in Consumers :
    heard[c] \o pty[c] \o Bytes(copy[c])
      = Kept(FlattenSeq(got[c]), Nat \ spilt[c])

\* The bytes a consumer may type.
TypedBy(c) == [from : {c}, write : Nat, at : Nat]

\* What a consumer typed is, in the order it typed it, at the device, on its
\* way there, or still in its port; only a failed device write loses any
\* (from_consumer and device_writer).
TypedInOrder ==
  \A c \in Consumers :
    Kept(devgot \o devbuf \o inhand \o Bytes(queue), TypedBy(c))
        \o Bytes(outgoing[c]) \o keys[c]
      = Kept(Typed(c), TxByte \ cut)

\* "a consumer's write arrives whole ... but never mid-chunk"
\* (tests/mux.rs:176-178): between two bytes of one write the device gets no
\* byte of another.
WritesArriveWhole ==
  LET out == devgot \o devbuf \o inhand
      SameWrite(x, y) == x.from = y.from /\ x.write = y.write
  IN  \A i, k \in DOMAIN out : \A j \in i..k :
        SameWrite(out[i], out[k]) => SameWrite(out[i], out[j])

\* Rule 2: whatever the other consumers and the device's own input do, every byte the
\* device sends is read and published, and a consumer that keeps draining gets past it,
\* however far behind its siblings are.
AttentiveServed ==
  \A c \in Attentive : \A n \in 1..MaxRx :
    (sent >= n) ~> (\/ phase = "down"
                    \/ /\ Len(FlattenSeq(SubSeq(stream, 1, cursor[c]))) >= n
                       /\ copy[c] = << >> /\ pty[c] = << >>)

\* A device that keeps draining gets everything typed, both consumers' writes
\* queueing for it.
TypedArrives ==
  []<>(devbuf = << >>) =>
    \A c \in Consumers : \A n \in 1..MaxWrites :
      (writes[c] >= n) ~>
         (\/ phase = "down"
          \/ ToSet(Write(c, n)) \subseteq ToSet(devgot) \cup cut)
=============================================================================
