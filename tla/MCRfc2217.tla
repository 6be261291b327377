----------------------------- MODULE MCRfc2217 -----------------------------
(***************************************************************************)
(* RFC2217 sessions with two peers one after the other, and what TLC       *)
(* checks of them.                                                         *)
(***************************************************************************)
EXTENDS Rfc2217

Tio(speed, two) == [speed |-> speed, csize |-> 8, parenb |-> FALSE, parodd |-> FALSE,
                    cstopb |-> two, crtscts |-> FALSE, ixon |-> FALSE, ixoff |-> FALSE]
Forged == Tio(0, FALSE)
Chosen == {Forged, Tio(9600, TRUE)}   \* so a choice may be taken back

\* A subnegotiation with an escaped 0xFF in it, the refusal of COM-PORT-OPTION, a
\* second thought with an escaped data byte after it, the offer of an unknown option.
Heard(bytes, data) == [bytes |-> bytes, data |-> data]
Said == {Heard(<<IAC, SB, IAC, IAC, IAC, SE>>, << >>),
         Heard(<<IAC, DONT, COM_PORT>>, << >>),
         Heard(<<IAC, DO, COM_PORT, IAC, IAC>>, <<IAC>>),
         Heard(<<IAC, WILL, 1>>, << >>)}

Pending == (IF lock = "down" THEN reply ELSE << >>)
             \o (IF lock = "up" THEN Head(upwork) ELSE << >>)

\* The last octets of typed bytes.
DataEnd == [msg : [is : {"data"}, byte : KeyBytes, n : Nat, at : Nat \ {0}], left : {0}]

\* What the far end's line is set to if it stood at `before` when the peer came.
FarEnd(before) == [f \in ToSet(Fields) |-> IF told[f] = Nothing THEN before[f] ELSE told[f]]

\* "What a freshly forged port looks like before any consumer touches it."
AsForged == FromTermios(Factory)

TypeOK ==
  /\ loop \in {"spawned", "next", "offer", "session"} /\ session \in 0..MaxPeers
  /\ lock \in {"free", "up", "down"}
  /\ up \in {"none", "select", "sync", "work", "ended"}
  /\ down \in {"none", "running", "ended"} /\ life \in {"open", "half", "gone"}
  /\ lock = "up" => up = "work" /\ upwork # << >>
  /\ lock = "down" => down = "running" /\ reply # << >>
  /\ up = "work" <=> upwork # << >>
  /\ loop = "session" <=> up # "none" /\ down # "none"
  /\ telnet.state \in {"Data", "Iac", "Negotiate", "Sub", "SubIac"}
  /\ telnet.agreed \in [Slots -> BOOLEAN]
  /\ Len(outbox) <= PtyBuf /\ Len(pty) <= PtyBuf /\ Len(keys) <= PtyBuf

\* "a subnegotiation spliced into the middle of an escaped chunk would corrupt the
\* stream" (bridge.rs:251-253): whatever a peer that is still there reads, and whatever is
\* about to follow, is one whole message after another, typed bytes in their order.
MessagesWhole ==
  LET stream == (IF heard = NoOctet THEN << >> ELSE <<heard>>) \o outbox \o Pending
      data == Kept(stream, DataEnd)
  IN  life # "gone" =>
      /\ \A i \in 1..(Len(stream) - 1) :
           stream[i].left # 0 => stream[i + 1] = [stream[i] EXCEPT !.left = @ - 1]
      /\ loop = "session" /\ stream # << >> => stream[Len(stream)].left = 0
      /\ \A i \in 1..(Len(data) - 1) : data[i + 1].msg.n = data[i].msg.n + 1

\* "Safe to call with input split at any boundary" (rfc2217.rs:148-150), through
\* the whole path: what the port got, is about to get and will get from the bytes
\* still unread is the data the peer said, wherever the reads are cut.
PortGetsData ==
  loop = "session" /\ down = "running" =>
    delivered \o Bytes(downcells) \o Decode(telnet, inbox).data = meant

\* "a settings change reaches the peer before the bytes that follow it"
\* (bridge.rs:274-277): by the time the peer reads a byte, its line, had it stood
\* as the loop first found the port, is set to something chosen no earlier than the
\* byte was typed.  That the loop may have found it set already is for EverythingTold.
TypedAfterSettings ==
  heard.msg.is = "data" /\ com_ok /\ loop = "session" =>
    \E w \in heard.msg.at..Len(chosen) : FarEnd(pristine) = FromTermios(chosen[w])

Serving == loop = "session" /\ com_ok /\ life # "gone"

\* A peer "that arrives late - or second" (bridge.rs:146-148) is told whatever makes
\* the port other than the loop first found it: a session that lasts tells its peer
\* all of that, in the end, whether or not anyone reads the port, and also after a
\* choice is taken back.  It does not promise what was chosen before the loop looked.
ChangesArrive == <>[]Serving => <>[](Serving /\ FarEnd(pristine) = Config)

\* What the comment there promises, and a run refutes: "a peer that arrives late -
\* or second - is still told everything the consumer has chosen", from a freshly
\* forged port on.  The port has its path (bridge.rs:77) before the loop first runs
\* (bridge.rs:105, 149): a consumer who sets it in between moves `pristine` itself,
\* and no peer is told.
EverythingTold == <>[]Serving => <>[](Serving /\ FarEnd(AsForged) = Config)

\* "never acknowledge an acknowledgement" (rfc2217.rs:95-96): with a peer that
\* answers every command about a known option the answering stops.
NegotiationEnds == <>[](reply = << >>)
=============================================================================
