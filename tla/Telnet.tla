------------------------------- MODULE Telnet -------------------------------
(***************************************************************************)
(* The RFC2217 client's codec (src/src/forge/rfc2217.rs): the telnet        *)
(* decoder that a session feeds whatever a read returned, the negotiation   *)
(* of options, and the difference between two line settings as commands.    *)
(* Bytes are numbers.  What a subnegotiation says is only logged, so the    *)
(* decoder remembers where it is in one but not what it holds.              *)
(***************************************************************************)
EXTENDS Integers, Sequences, SequencesExt

IAC  == 255
DONT == 254
DO   == 253
WONT == 252
WILL == 251
SB   == 250
SE   == 240

BINARY   == 0
SGA      == 3
COM_PORT == 44

Verbs == {WILL, WONT, DO, DONT}
Known == {BINARY, SGA, COM_PORT}

\* One flag per option and side; COM-PORT-OPTION has a single one.
Slots == ({BINARY, SGA} \X {"us", "them"}) \cup {<<COM_PORT, "both">>}
Slot(cmd, opt) ==
  <<opt, CASE opt = COM_PORT -> "both"
           [] cmd \in {WILL, WONT} -> "them"
           [] OTHER -> "us">>

\* The flags start as what start() offers, before the peer has agreed.
New == [state |-> "Data", cmd |-> WILL, agreed |-> [s \in Slots |-> TRUE]]
ComPortOk(telnet) == telnet.agreed[<<COM_PORT, "both">>]

\* The verb that answers cmd: DO or DONT to an offer, WILL or WONT to a request.
Answer(cmd, agreed) == IF cmd \in {WILL, WONT} THEN (IF agreed THEN DO ELSE DONT)
                                               ELSE (IF agreed THEN WILL ELSE WONT)

\* Mutant of Negotiate: the peer's word is answered and not remembered.
NegotiateForgets(telnet, cmd, opt) ==
  LET agreed == cmd \in {WILL, DO}
  IN  [telnet |-> telnet,
       reply  |-> IF opt \in Known /\ telnet.agreed[Slot(cmd, opt)] = agreed
                  THEN << >> ELSE <<Answer(cmd, agreed /\ opt \in Known), opt>>]

\* An option the client does not know is refused each time; a known one is
\* answered when the peer's word changes its flag.
Negotiate(telnet, cmd, opt) ==
  LET agreed == cmd \in {WILL, DO}
  IN  IF opt \notin Known
      THEN [telnet |-> telnet, reply |-> <<Answer(cmd, FALSE), opt>>]
      ELSE IF telnet.agreed[Slot(cmd, opt)] = agreed
      THEN [telnet |-> telnet, reply |-> << >>]
      ELSE [telnet |-> [telnet EXCEPT !.agreed[Slot(cmd, opt)] = agreed],
            reply  |-> <<Answer(cmd, agreed), opt>>]

\* One byte into decode's loop: d holds the decoder, the data and the replies.
DecodeByte(d, b) ==
  LET state == d.telnet.state
      To(s) == [d EXCEPT !.telnet.state = s]
      Told  == Negotiate(d.telnet, d.telnet.cmd, b)
  IN  CASE state = "Data" /\ b # IAC -> [d EXCEPT !.data = Append(@, b)]
        [] state = "Data" /\ b = IAC -> To("Iac")
        [] state = "Iac" /\ b = IAC  -> [To("Data") EXCEPT !.data = Append(@, IAC)]
        [] state = "Iac" /\ b \in Verbs -> [To("Negotiate") EXCEPT !.telnet.cmd = b]
        [] state = "Iac" /\ b = SB   -> To("Sub")
        [] state = "Negotiate" ->
             [d EXCEPT !.telnet = [Told.telnet EXCEPT !.state = "Data"],
                       !.reply  = IF Told.reply = << >> THEN @ ELSE Append(@, Told.reply)]
        [] state = "Sub"    -> To(IF b = IAC THEN "SubIac" ELSE "Sub")
        [] state = "SubIac" -> To(IF b = IAC THEN "Sub" ELSE "Data")
        [] OTHER -> To("Data")

\* Mutant of Decode: a read is decoded as if it began a new stream.
DecodeAfresh(telnet, input) ==
  FoldLeft(DecodeByte, [telnet |-> [telnet EXCEPT !.state = "Data"],
                        data |-> << >>, reply |-> << >>], input)

Decode(telnet, input) ==
  LET d[i \in 0..Len(input)] ==
        IF i = 0 THEN [telnet |-> telnet, data |-> << >>, reply |-> << >>]
                 ELSE DecodeByte(d[i - 1], input[i])
  IN  d[Len(input)]

\* 0xFF is doubled, so that the peer takes it as data.
Escape(data) == FlattenSeq([i \in DOMAIN data |->
                              IF data[i] = IAC THEN <<IAC, IAC>> ELSE <<data[i]>>])

-----------------------------------------------------------------------------
\* A termios (its speed decoded to bits per second) as far as RFC2217 carries it.
FromTermios(tio) ==
  [baud      |-> tio.speed,
   data_bits |-> IF tio.csize \in 5..7 THEN tio.csize ELSE 8,
   parity    |-> IF ~tio.parenb THEN 1 ELSE IF tio.parodd THEN 2 ELSE 3,
   stop_bits |-> IF tio.cstopb THEN 2 ELSE 1,
   flow      |-> IF tio.crtscts THEN 3 ELSE IF tio.ixon \/ tio.ixoff THEN 2 ELSE 1]

Fields == <<"baud", "data_bits", "parity", "stop_bits", "flow">>

\* One command per setting that differs, in the order of Fields.
CommandsTo(old, new) ==
  FlattenSeq([i \in DOMAIN Fields |->
                LET f == Fields[i] IN
                IF new[f] = old[f] THEN << >>
                                   ELSE <<[is |-> "set", field |-> f, value |-> new[f]]>>])
=============================================================================
