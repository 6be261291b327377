--------------------------- MODULE Rfc2217Proofs ---------------------------
(***************************************************************************)
(* For every way reads and writes are cut, and whatever peer and consumer  *)
(* do: the decoder does not notice where its input is cut, the port gets   *)
(* exactly what a peer meant, the peer whole messages, and its line is set *)
(* before the bytes typed after the setting; answers never draw answers.   *)
(***************************************************************************)
EXTENDS MCRfc2217, WireCellsProofs

-----------------------------------------------------------------------------
(* The decoder.                                                            *)

Decoder == [state : {"Data", "Iac", "Negotiate", "Sub", "SubIac"}, cmd : Verbs,
            agreed : [Slots -> BOOLEAN]]
Word    == Verbs \X Octet
Decoded == [telnet : Decoder, data : Seq(Octet), reply : Seq(Word)]

Start(decoder) == [telnet |-> decoder, data |-> << >>, reply |-> << >>]

LEMMA StartType ==
  ASSUME NEW decoder \in Decoder
  PROVE  Start(decoder) \in Decoded
BY EmptySeq DEF Start, Decoded

\* What an option is answered with.
LEMMA NegotiateType ==
  ASSUME NEW decoder \in Decoder, NEW cmd \in Verbs, NEW opt \in Octet
  PROVE  /\ Negotiate(decoder, cmd, opt).telnet \in Decoder
         /\ \/ Negotiate(decoder, cmd, opt).reply = << >>
            \/ Negotiate(decoder, cmd, opt).reply \in Word
<1>1. \A agreed \in BOOLEAN : Answer(cmd, agreed) \in Verbs
  BY DEF Answer, Verbs
<1>2. ASSUME NEW s, NEW v \in BOOLEAN
      PROVE  [decoder EXCEPT !.agreed[s] = v] \in Decoder
  BY DEF Decoder
<1> DEFINE agreed == cmd \in {WILL, DO}
           slot   == Slot(cmd, opt)
<1>3. agreed \in BOOLEAN
  OBVIOUS
<1>4. [decoder EXCEPT !.agreed[slot] = agreed] \in Decoder
  BY <1>2, <1>3
<1> HIDE DEF agreed, slot
<1>5. \A v \in Verbs : <<v, opt>> \in Word
  BY DEF Word
<1>6. <<Answer(cmd, FALSE), opt>> \in Word /\ <<Answer(cmd, agreed), opt>> \in Word
  BY <1>1, <1>3, <1>5
<1>7. CASE opt \notin Known
  BY <1>6, <1>7 DEF Negotiate
<1>8. CASE opt \in Known /\ decoder.agreed[slot] = agreed
  BY <1>8, Zenon DEF Negotiate, agreed, slot
<1>9. CASE opt \in Known /\ decoder.agreed[slot] # agreed
  <2>1. Negotiate(decoder, cmd, opt)
          = [telnet |-> [decoder EXCEPT !.agreed[slot] = agreed],
             reply  |-> <<Answer(cmd, agreed), opt>>]
    BY <1>9, Zenon DEF Negotiate, agreed, slot
  <2>. QED BY <1>4, <1>6, <2>1
<1>. QED BY <1>7, <1>8, <1>9

\* A byte leaves a decoder, and adds to the data and the replies; what it adds
\* depends on the decoder only.
LEMMA ByteType ==
  ASSUME NEW d \in Decoded, NEW b \in Octet
  PROVE  DecodeByte(d, b) \in Decoded
<1>1. /\ d.telnet \in Decoder /\ d.data \in Seq(Octet) /\ d.reply \in Seq(Word)
      /\ d.telnet.cmd \in Verbs /\ Verbs \subseteq Octet /\ IAC \in Octet
  BY DEF Decoded, Decoder, Verbs, Octet, WILL, WONT, DO, DONT, IAC
<1> DEFINE answer == Negotiate(d.telnet, d.telnet.cmd, b)
<1>2. answer.telnet \in Decoder /\ (answer.reply = << >> \/ answer.reply \in Word)
  BY <1>1, NegotiateType
<1> HIDE DEF answer
<1>3. /\ Append(d.data, b) \in Seq(Octet) /\ Append(d.data, IAC) \in Seq(Octet)
      /\ answer.reply # << >> => Append(d.reply, answer.reply) \in Seq(Word)
  BY <1>1, <1>2, AppendProperties
<1>4. \A s \in {"Data", "Iac", "Negotiate", "Sub", "SubIac"} :
        [d EXCEPT !.telnet.state = s] \in Decoded
  BY DEF Decoded, Decoder
<1>5. \A s \in {"Data", "Iac", "Negotiate", "Sub", "SubIac"}, e \in Seq(Octet) :
        [[d EXCEPT !.telnet.state = s] EXCEPT !.data = e] \in Decoded
  BY DEF Decoded, Decoder
<1>6. [[d EXCEPT !.telnet.state = "Negotiate"] EXCEPT !.telnet.cmd = b] \in Decoded
        \/ b \notin Verbs
  BY DEF Decoded, Decoder
<1>7. \A r \in Seq(Word) :
        [d EXCEPT !.telnet = [answer.telnet EXCEPT !.state = "Data"], !.reply = r] \in Decoded
  BY <1>2 DEF Decoded, Decoder
<1>8. \A e \in Seq(Octet) : [d EXCEPT !.data = e] \in Decoded
  BY DEF Decoded
<1> DEFINE s == d.telnet.state
<1>9. s \in {"Data", "Iac", "Negotiate", "Sub", "SubIac"}
  BY <1>1 DEF Decoder
<1>10. CASE s = "Data"
  BY <1>3, <1>4, <1>8, <1>10 DEF DecodeByte
<1>11. CASE s = "Iac" /\ b = IAC
  <2>1. DecodeByte(d, b) = [[d EXCEPT !.telnet.state = "Data"] EXCEPT !.data = Append(d.data, IAC)]
    BY <1>11 DEF DecodeByte, Decoded, IAC, SB, Verbs, WILL, WONT, DO, DONT
  <2>. QED BY <1>3, <1>5, <2>1
<1>12. CASE s = "Iac" /\ b # IAC
  BY <1>4, <1>6, <1>12 DEF DecodeByte
<1>13. CASE s = "Negotiate"
  <2>1. DecodeByte(d, b) = [d EXCEPT !.telnet = [answer.telnet EXCEPT !.state = "Data"],
                                     !.reply = IF answer.reply = << >> THEN d.reply
                                               ELSE Append(d.reply, answer.reply)]
    BY <1>13 DEF DecodeByte, answer
  <2>. QED BY <1>1, <1>3, <1>7, <2>1
<1>14. CASE s = "Sub" \/ s = "SubIac"
  BY <1>4, <1>14 DEF DecodeByte
<1>. QED BY <1>9, <1>10, <1>11, <1>12, <1>13, <1>14

\* The data a byte adds, and the decoder after it, are the decoder's affair: what
\* was decoded before has no part in them.
Emits(decoder, b) == \/ decoder.state = "Data" /\ b # IAC
                     \/ decoder.state = "Iac" /\ b = IAC

LEMMA ByteAdds ==
  ASSUME NEW d \in Decoded, NEW b \in Octet
  PROVE  /\ DecodeByte(d, b).data = IF Emits(d.telnet, b) THEN Append(d.data, b) ELSE d.data
         /\ DecodeByte(d, b).telnet = DecodeByte(Start(d.telnet), b).telnet
<1> DEFINE s == d.telnet.state
           e == Start(d.telnet)
<1>1. d.telnet \in Decoder /\ e.telnet = d.telnet
  BY DEF Decoded, Start
<1>2. s \in {"Data", "Iac", "Negotiate", "Sub", "SubIac"}
  BY <1>1 DEF Decoder
<1>3. \A x \in {d, e} : x = [telnet |-> x.telnet, data |-> x.data, reply |-> x.reply]
  BY DEF Decoded, Start
<1> HIDE DEF e
<1>4. ASSUME NEW x \in {d, e}
      PROVE  /\ DecodeByte(x, b).data = IF Emits(d.telnet, b) THEN Append(x.data, b) ELSE x.data
             /\ DecodeByte(x, b).telnet
                  = CASE s = "Data" /\ b # IAC -> d.telnet
                      [] s = "Data" /\ b = IAC -> [d.telnet EXCEPT !.state = "Iac"]
                      [] s = "Iac" /\ b \in Verbs ->
                           [[d.telnet EXCEPT !.state = "Negotiate"] EXCEPT !.cmd = b]
                      [] s = "Iac" /\ b = SB -> [d.telnet EXCEPT !.state = "Sub"]
                      [] s = "Negotiate" ->
                           [Negotiate(d.telnet, d.telnet.cmd, b).telnet EXCEPT !.state = "Data"]
                      [] s = "Sub" -> [d.telnet EXCEPT !.state = IF b = IAC THEN "SubIac" ELSE "Sub"]
                      [] s = "SubIac" -> [d.telnet EXCEPT !.state = IF b = IAC THEN "Sub" ELSE "Data"]
                      [] OTHER -> [d.telnet EXCEPT !.state = "Data"]
  <2> USE DEF IAC, SB, Verbs, WILL, WONT, DO, DONT
  <2>1. x = [telnet |-> d.telnet, data |-> x.data, reply |-> x.reply]
    BY <1>1, <1>3
  <2>2. CASE s = "Data"
    BY <2>1, <2>2 DEF DecodeByte, Emits
  <2>0. x.telnet = d.telnet
    BY <1>1, <1>3
  <2>3. CASE s = "Iac"
    <3>1. CASE b = IAC
      <4>1. DecodeByte(x, b) = [[x EXCEPT !.telnet.state = "Data"] EXCEPT !.data = Append(x.data, IAC)]
        BY <2>1, <2>3, <3>1 DEF DecodeByte
      <4>2. /\ DecodeByte(x, b).data = Append(x.data, IAC)
            /\ DecodeByte(x, b).telnet = [d.telnet EXCEPT !.state = "Data"]
        BY <2>1, <4>1
      <4>. QED BY <2>3, <3>1, <4>2 DEF Emits
    <3>2. CASE b \in Verbs
      <4>1. DecodeByte(x, b) = [[x EXCEPT !.telnet.state = "Negotiate"] EXCEPT !.telnet.cmd = b]
        BY <2>1, <2>3, <3>2 DEF DecodeByte
      <4>2. /\ DecodeByte(x, b).data = x.data
            /\ DecodeByte(x, b).telnet = [[d.telnet EXCEPT !.state = "Negotiate"] EXCEPT !.cmd = b]
        <5> DEFINE y == [x EXCEPT !.telnet.state = "Negotiate"]
                   z == [d.telnet EXCEPT !.state = "Negotiate"]
        <5>1. y = [telnet |-> z, data |-> x.data, reply |-> x.reply]
          BY <2>1
        <5>2. DecodeByte(x, b) = [y EXCEPT !.telnet.cmd = b]
          BY <4>1
        <5> HIDE DEF y, z
        <5>3. /\ DecodeByte(x, b).data = x.data
              /\ DecodeByte(x, b).telnet = [z EXCEPT !.cmd = b]
          BY <5>1, <5>2
        <5>. QED BY <5>3 DEF z
      <4>. QED BY <2>3, <3>2, <4>2 DEF Emits
    <3>3. CASE b # IAC /\ b \notin Verbs
      BY <2>1, <2>3, <3>3 DEF DecodeByte, Emits
    <3>. QED BY <3>1, <3>2, <3>3
  <2>4. CASE s = "Negotiate"
    <3> DEFINE answer == Negotiate(d.telnet, d.telnet.cmd, b)
    <3>1. DecodeByte(x, b)
            = [x EXCEPT !.telnet = [answer.telnet EXCEPT !.state = "Data"],
                        !.reply = IF answer.reply = << >> THEN x.reply
                                  ELSE Append(x.reply, answer.reply)]
      BY <2>0, <2>4 DEF DecodeByte
    <3> HIDE DEF answer
    <3>2. /\ DecodeByte(x, b).data = x.data
          /\ DecodeByte(x, b).telnet = [answer.telnet EXCEPT !.state = "Data"]
      BY <2>1, <3>1
    <3>. QED BY <2>4, <3>2 DEF answer, Emits
  <2>5. CASE s = "Sub" \/ s = "SubIac"
    BY <2>1, <2>5 DEF DecodeByte, Emits
  <2>. QED BY <1>2, <2>2, <2>3, <2>4, <2>5
<1>. QED BY <1>4 DEF e

\* f[i] is what the first i bytes of s decode to: what Decode computes with.
Runs(f, decoder, s) ==
  f = [i \in 0..Len(s) |-> IF i = 0 THEN [telnet |-> decoder, data |-> << >>, reply |-> << >>]
                                    ELSE DecodeByte(f[i - 1], s[i])]

LEMMA DecodeDef ==
  ASSUME NEW decoder, NEW s
  PROVE  Decode(decoder, s) = (CHOOSE f : Runs(f, decoder, s))[Len(s)]
BY Zenon DEF Decode, Runs

\* Some f is, whatever the bytes.
LEMMA RunsExists ==
  ASSUME NEW decoder \in Decoder, NEW s \in Seq(Octet)
  PROVE  \E f \in [0..Len(s) -> Decoded] : Runs(f, decoder, s)
<1> DEFINE T == {u \in Seq(Octet) : \E f \in [0..Len(u) -> Decoded] : Runs(f, decoder, u)}
           d0 == [telnet |-> decoder, data |-> << >>, reply |-> << >>]
<1>0. d0 \in Decoded
  BY StartType DEF Start
<1>1. << >> \in T
  <2> DEFINE f == [i \in 0..0 |-> d0]
  <2>1. f \in [0..Len(<< >>) -> Decoded] /\ Runs(f, decoder, << >>)
    BY <1>0, EmptySeq DEF Runs
  <2>. QED BY <2>1, EmptySeq
<1>2. ASSUME NEW u \in T, NEW b \in Octet
      PROVE  Append(u, b) \in T
  <2>1. PICK f \in [0..Len(u) -> Decoded] : Runs(f, decoder, u)
    OBVIOUS
  <2> DEFINE n == Len(u)
             w == Append(u, b)
             g == [i \in 0..(n + 1) |-> IF i <= n THEN f[i] ELSE DecodeByte(f[n], b)]
  <2>2. /\ n \in Nat /\ w \in Seq(Octet) /\ Len(w) = n + 1 /\ w[n + 1] = b
        /\ \A i \in 1..n : w[i] = u[i]
    BY AppendProperties, LenProperties
  <2>3. f[n] \in Decoded /\ DecodeByte(f[n], b) \in Decoded
    BY <2>2, ByteType, SMTT(30)
  <2>4. g \in [0..Len(w) -> Decoded]
    BY <2>2, <2>3
  <2>5. ASSUME NEW i \in 0..(n + 1)
        PROVE  g[i] = IF i = 0 THEN d0 ELSE DecodeByte(g[i - 1], w[i])
    <3>1. \A j \in 0..n : f[j] = IF j = 0 THEN d0 ELSE DecodeByte(f[j - 1], u[j])
      BY <2>1, Zenon DEF Runs
    <3>2. CASE i = 0
      BY <2>2, <3>1, <3>2
    <3>3. CASE i \in 1..n
      <4>1. g[i] = f[i] /\ g[i - 1] = f[i - 1] /\ w[i] = u[i] /\ i \in 0..n /\ i # 0
        BY <2>2, <3>3
      <4>. QED BY <3>1, <4>1
    <3>4. CASE i = n + 1
      <4>1. g[i] = DecodeByte(f[n], b) /\ g[i - 1] = f[n] /\ w[i] = b /\ i # 0
        BY <2>2, <3>4
      <4>. QED BY <4>1
    <3>. QED BY <2>2, <3>2, <3>3, <3>4
  <2>6. Runs(g, decoder, w)
    <3>1. g = [i \in 0..(n + 1) |-> g[i]]
      OBVIOUS
    <3>. QED BY <2>2, <2>5, <3>1 DEF Runs
  <2>. QED BY <2>2, <2>4, <2>6
<1>3. T = Seq(Octet)
  <2>1. T \in SUBSET Seq(Octet) /\ \A u \in T, b \in Octet : Append(u, b) \in T
    BY <1>2
  <2> HIDE DEF T
  <2>. QED BY <1>1, <2>1, SeqSet
<1>. QED BY <1>3

\* It depends on nothing that comes later.
LEMMA RunsAgree ==
  ASSUME NEW decoder, NEW s, NEW t, Len(s) \in Nat, Len(t) \in Nat, Len(s) <= Len(t),
         \A i \in 1..Len(s) : s[i] = t[i],
         NEW f, NEW g, Runs(f, decoder, s), Runs(g, decoder, t)
  PROVE  f[Len(s)] = g[Len(s)]
<1> DEFINE T == {k \in Nat : k <= Len(s) => f[k] = g[k]}
           d0 == [telnet |-> decoder, data |-> << >>, reply |-> << >>]
<1>0. /\ \A i \in 0..Len(s) : f[i] = IF i = 0 THEN d0 ELSE DecodeByte(f[i - 1], s[i])
      /\ \A i \in 0..Len(t) : g[i] = IF i = 0 THEN d0 ELSE DecodeByte(g[i - 1], t[i])
  BY Zenon DEF Runs
<1> HIDE DEF d0
<1>1. 0 \in T
  BY <1>0
<1>2. ASSUME NEW k \in T PROVE k + 1 \in T
  <2> SUFFICES ASSUME k + 1 <= Len(s) PROVE f[k + 1] = g[k + 1]
    OBVIOUS
  <2>1. /\ k + 1 \in 0..Len(s) /\ k + 1 \in 0..Len(t) /\ k + 1 # 0 /\ (k + 1) - 1 = k
        /\ s[k + 1] = t[k + 1] /\ f[k] = g[k]
    OBVIOUS
  <2>2. f[k + 1] = DecodeByte(f[k], s[k + 1]) /\ g[k + 1] = DecodeByte(g[k], t[k + 1])
    BY <1>0, <2>1
  <2>. QED BY <2>1, <2>2
<1> HIDE DEF T
<1>3. T = Nat
  <2>1. T \in SUBSET Nat
    BY DEF T
  <2>. QED BY <1>1, <1>2, <2>1, NatSet
<1>4. Len(s) \in T
  BY <1>3
<1>. QED BY <1>4 DEF T

\* What Decode computes: nothing from no byte, and from a byte more what
\* DecodeByte makes of what came before it.
LEMMA DecodeStep ==
  ASSUME NEW decoder \in Decoder
  PROVE  /\ Decode(decoder, << >>) = Start(decoder)
         /\ \A s \in Seq(Octet) : Decode(decoder, s) \in Decoded
         /\ \A s \in Seq(Octet), b \in Octet :
              Decode(decoder, Append(s, b)) = DecodeByte(Decode(decoder, s), b)
<1> DEFINE run(s) == CHOOSE f : Runs(f, decoder, s)
<1>1. ASSUME NEW s \in Seq(Octet)
      PROVE  /\ Runs(run(s), decoder, s) /\ Decode(decoder, s) = run(s)[Len(s)]
             /\ Decode(decoder, s) \in Decoded
  <2>1. PICK f \in [0..Len(s) -> Decoded] : Runs(f, decoder, s)
    BY RunsExists
  <2>2. Runs(run(s), decoder, s)
    BY <2>1
  <2>3. Decode(decoder, s) = run(s)[Len(s)]
    BY DecodeDef, Zenon
  <2> HIDE DEF run
  <2>4. Len(s) \in Nat /\ Len(s) \in 0..Len(s) /\ Len(s) <= Len(s)
    BY LenProperties
  <2>5. run(s)[Len(s)] = f[Len(s)]
    BY <2>1, <2>2, <2>4, RunsAgree
  <2>. QED BY <2>1, <2>2, <2>3, <2>4, <2>5
<1> HIDE DEF run
<1>2. << >> \in Seq(Octet) /\ Len(<< >>) = 0
  OBVIOUS
<1>3. Decode(decoder, << >>) = Start(decoder)
  <2>1. ASSUME NEW f, Runs(f, decoder, << >>)
        PROVE  f[0] = Start(decoder)
    BY <1>2, <2>1 DEF Runs, Start
  <2>. QED BY <1>1, <1>2, <2>1, Zenon
<1>4. ASSUME NEW s \in Seq(Octet), NEW b \in Octet
      PROVE  Decode(decoder, Append(s, b)) = DecodeByte(Decode(decoder, s), b)
  <2> DEFINE n == Len(s)
             w == Append(s, b)
             f == run(s)
             g == run(w)
  <2>1. /\ n \in Nat /\ w \in Seq(Octet) /\ Len(w) = n + 1 /\ w[n + 1] = b
        /\ \A i \in 1..n : w[i] = s[i]
    BY AppendProperties, LenProperties
  <2>2. Runs(f, decoder, s) /\ Runs(g, decoder, w)
    BY <1>1, <2>1
  <2>3. Decode(decoder, s) = f[n] /\ Decode(decoder, w) = g[n + 1]
    BY <1>1, <2>1
  <2> HIDE DEF w, f, g
  <2>4. f[n] = g[n]
    BY <2>1, <2>2, RunsAgree
  <2>5. g[n + 1] = DecodeByte(g[n], b)
    <3>1. n + 1 \in 0..Len(w) /\ n + 1 # 0 /\ (n + 1) - 1 = n
      BY <2>1
    <3>. QED BY <2>1, <2>2, <3>1 DEF Runs
  <2>. QED BY <2>3, <2>4, <2>5 DEF w
<1>. QED BY <1>1, <1>3, <1>4

\* Wherever the input is cut, the second part decoded by what the first left
\* gives what the whole gives (rfc2217.rs:148-150).
LEMMA DecodeSplits ==
  ASSUME NEW decoder \in Decoder, NEW a \in Seq(Octet), NEW b \in Seq(Octet)
  PROVE  LET first == Decode(decoder, a)
             then  == Decode(first.telnet, b)
             whole == Decode(decoder, a \o b)
         IN  whole.telnet = then.telnet /\ whole.data = first.data \o then.data
<1> DEFINE first == Decode(decoder, a)
           then(u)  == Decode(first.telnet, u)
           whole(u) == Decode(decoder, a \o u)
           Same(u) == whole(u).telnet = then(u).telnet /\ whole(u).data = first.data \o then(u).data
           T == {u \in Seq(Octet) : Same(u)}
<1>0. first \in Decoded /\ first.telnet \in Decoder /\ first.data \in Seq(Octet)
  BY DecodeStep DEF Decoded
<1>1. ASSUME NEW u \in Seq(Octet)
      PROVE  /\ a \o u \in Seq(Octet) /\ then(u) \in Decoded /\ whole(u) \in Decoded
             /\ then(u).data \in Seq(Octet)
             /\ \A x \in Octet : /\ then(Append(u, x)) = DecodeByte(then(u), x)
                                 /\ whole(Append(u, x)) = DecodeByte(whole(u), x)
  <2>1. a \o u \in Seq(Octet)
    BY ConcatProperties
  <2>2. then(u) \in Decoded /\ \A x \in Octet : then(Append(u, x)) = DecodeByte(then(u), x)
    BY <1>0, DecodeStep
  <2>3. /\ whole(u) \in Decoded
        /\ \A x \in Octet : Decode(decoder, Append(a \o u, x)) = DecodeByte(whole(u), x)
    BY <2>1, DecodeStep
  <2>4. \A x \in Octet : a \o Append(u, x) = Append(a \o u, x)
    BY ConcatAppended
  <2>. QED BY <2>1, <2>2, <2>3, <2>4 DEF Decoded
<1>2. << >> \in T
  <2>1. a \o << >> = a /\ first.data \o << >> = first.data
    BY <1>0, ConcatEmptySeq
  <2>2. then(<< >>) = Start(first.telnet)
    BY <1>0, DecodeStep
  <2>3. whole(<< >>) = first
    BY <2>1, Zenon
  <2> HIDE DEF first, then, whole
  <2>4. Start(first.telnet).telnet = first.telnet /\ Start(first.telnet).data = << >>
    BY DEF Start
  <2>5. Same(<< >>)
    BY <2>1, <2>2, <2>3, <2>4
  <2>6. << >> \in Seq(Octet)
    OBVIOUS
  <2>. QED BY <2>5, <2>6
<1> HIDE DEF first, then, whole
<1>3. ASSUME NEW u \in Seq(Octet), Same(u), NEW x \in Octet
      PROVE  Same(Append(u, x))
  <2>1. /\ whole(Append(u, x)) = DecodeByte(whole(u), x)
        /\ then(Append(u, x)) = DecodeByte(then(u), x)
    BY <1>1
  <2>2. DecodeByte(whole(u), x).telnet = DecodeByte(Start(whole(u).telnet), x).telnet
    BY <1>1, ByteAdds
  <2>3. DecodeByte(then(u), x).telnet = DecodeByte(Start(then(u).telnet), x).telnet
    BY <1>1, ByteAdds
  <2>4. whole(u).telnet = then(u).telnet /\ whole(u).data = first.data \o then(u).data
    BY <1>3
  <2>5. /\ DecodeByte(whole(u), x).data = IF Emits(then(u).telnet, x)
             THEN Append(whole(u).data, x) ELSE whole(u).data
        /\ DecodeByte(then(u), x).data = IF Emits(then(u).telnet, x)
             THEN Append(then(u).data, x) ELSE then(u).data
    BY <1>1, <2>4, ByteAdds
  <2>6. first.data \o Append(then(u).data, x) = Append(first.data \o then(u).data, x)
    <3>1. \A v, w \in Seq(Octet) : v \o Append(w, x) = Append(v \o w, x)
      BY ConcatAppended
    <3>. QED BY <1>0, <1>1, <3>1, Zenon
  <2>. QED BY <2>1, <2>2, <2>3, <2>4, <2>5, <2>6
<1>4. T = Seq(Octet)
  <2>1. T \in SUBSET Seq(Octet) /\ \A u \in T, x \in Octet : Append(u, x) \in T
    BY <1>3, AppendProperties
  <2> HIDE DEF T
  <2>. QED BY <1>2, <2>1, SeqSet
<1>5. Same(b)
  BY <1>4
<1>. QED BY <1>5 DEF first, then, whole

-----------------------------------------------------------------------------
(* Messages and their octets.                                              *)

DataMsg  == [is : {"data"}, byte : KeyBytes, n : Nat, at : Nat \ {0}]
SetMsg   == [is : {"set"}, field : ToSet(Fields), value : Nat]
ReplyMsg == [is : {"reply"}, verb : Verbs, opt : Octet]
Msg  == DataMsg \cup SetMsg \cup ReplyMsg \cup {[is |-> "offer"]}
Unit == [msg : Msg, left : 0..1]

\* An octet is followed by the next of its message, if one is to come, and a
\* stream ends where a message does.
Joined(s) == \A i \in 1..(Len(s) - 1) :
               s[i].left # 0 => s[i + 1] = [s[i] EXCEPT !.left = @ - 1]
Closed(s) == s # << >> => s[Len(s)].left = 0

LEMMA EscapedSize ==
  ASSUME NEW b \in Octet
  PROVE  Len(Escape(<<b>>)) \in {1, 2}
<1> DEFINE e == IF b = IAC THEN <<IAC, IAC>> ELSE <<b>>
<1>1. IAC \in Octet
  BY DEF IAC, Octet
<1>2. e \in Seq(Octet) /\ Len(e) \in {1, 2}
  BY <1>1
<1>3. [i \in DOMAIN <<b>> |-> IF <<b>>[i] = IAC THEN <<IAC, IAC>> ELSE <<<<b>>[i]>>] = <<e>>
  OBVIOUS
<1> HIDE DEF e
<1>4. FlattenSeq(<<e>>) = e
  BY <1>2, FlatOne
<1>. QED BY <1>2, <1>3, <1>4 DEF Escape

\* A message has one octet or two.
LEMMA OctetsShape ==
  ASSUME NEW m \in Msg
  PROVE  /\ Octets(m) \in Seq(Unit) /\ Len(Octets(m)) \in {1, 2}
         /\ Octets(m)[Len(Octets(m))] = [msg |-> m, left |-> 0]
         /\ Len(Octets(m)) = 2 => Octets(m)[1] = [msg |-> m, left |-> 1]
<1>1. Size(m) \in {1, 2}
  <2>1. CASE m.is = "data"
    <3>1. m \in DataMsg
      BY <2>1 DEF Msg, SetMsg, ReplyMsg
    <3>2. m.byte \in Octet
      BY <3>1, RfcAssumption DEF DataMsg
    <3>. QED BY <2>1, <3>2, EscapedSize DEF Size
  <2>2. CASE m.is # "data"
    BY <2>2 DEF Size
  <2>. QED BY <2>1, <2>2
<1> DEFINE k == Size(m)
<1>2. Octets(m) = [i \in 1..k |-> [msg |-> m, left |-> k - i]]
  BY DEF Octets
<1> HIDE DEF k
<1>3. \A i \in 1..k : [msg |-> m, left |-> k - i] \in Unit
  BY <1>1 DEF Unit, k
<1>4. Octets(m) \in Seq(Unit) /\ Len(Octets(m)) = k
  BY <1>1, <1>2, <1>3 DEF k
<1>. QED BY <1>1, <1>2, <1>4 DEF k

LEMMA OctetsJoined ==
  ASSUME NEW m \in Msg
  PROVE  Joined(Octets(m)) /\ Closed(Octets(m))
<1>1. [[msg |-> m, left |-> 1] EXCEPT !.left = @ - 1] = [msg |-> m, left |-> 0]
  OBVIOUS
<1>. QED BY <1>1, OctetsShape DEF Joined, Closed

\* Whole messages one after the other are whole messages.
LEMMA JoinedConcat ==
  ASSUME NEW a \in Seq(Unit), NEW b \in Seq(Unit), Joined(a), Closed(a), Joined(b)
  PROVE  Joined(a \o b)
<1> DEFINE w == a \o b
           m == Len(a)
           n == Len(b)
<1>1. /\ m \in Nat /\ n \in Nat /\ Len(w) = m + n
      /\ \A i \in 1..m : w[i] = a[i]
      /\ \A i \in 1..n : w[m + i] = b[i]
  BY LenProperties, ConcatProperties
<1>2. a = << >> <=> m = 0
  BY EmptySeq
<1> SUFFICES ASSUME NEW i \in 1..(Len(w) - 1), w[i].left # 0
             PROVE  w[i + 1] = [w[i] EXCEPT !.left = @ - 1]
  BY DEF Joined
<1> HIDE DEF w, m, n
<1>3. CASE i < m
  <2>1. i \in 1..(m - 1) /\ i \in 1..m /\ i + 1 \in 1..m
    BY <1>1, <1>3
  <2>. QED BY <1>1, <2>1 DEF Joined, m
<1>4. CASE i = m
  BY <1>1, <1>2, <1>4 DEF Closed, m
<1>5. CASE i > m
  <2>1. i - m \in 1..(n - 1) /\ i - m \in 1..n /\ (i - m) + 1 \in 1..n
    BY <1>1, <1>5
  <2>2. w[i] = b[i - m] /\ w[i + 1] = b[(i - m) + 1]
    <3>1. m + (i - m) = i /\ m + ((i - m) + 1) = i + 1
      BY <1>1
    <3>. QED BY <1>1, <2>1, <3>1
  <2>. QED BY <2>1, <2>2 DEF Joined, n
<1>. QED BY <1>1, <1>3, <1>4, <1>5

LEMMA ClosedConcat ==
  ASSUME NEW a \in Seq(Unit), NEW b \in Seq(Unit)
  PROVE  /\ Closed(a) /\ Closed(b) => Closed(a \o b)
         /\ Closed(a \o b) => Closed(b)
<1> DEFINE w == a \o b
           m == Len(a)
           n == Len(b)
<1>1. /\ m \in Nat /\ n \in Nat /\ Len(w) = m + n
      /\ \A i \in 1..m : w[i] = a[i]
      /\ \A i \in 1..n : w[m + i] = b[i]
  BY LenProperties, ConcatProperties
<1>2. /\ (a = << >> <=> m = 0) /\ (b = << >> <=> n = 0)
      /\ (a = << >> => w = b) /\ (b = << >> => w = a)
  BY EmptySeq, ConcatEmptySeq
<1>3. n # 0 => w # << >> /\ w[Len(w)] = b[n]
  BY <1>1
<1>. QED BY <1>2, <1>3 DEF Closed

LEMMA JoinedParts ==
  ASSUME NEW a \in Seq(Unit), NEW b \in Seq(Unit), Joined(a \o b)
  PROVE  Joined(a) /\ Joined(b)
<1> DEFINE w == a \o b
           m == Len(a)
           n == Len(b)
<1>1. /\ m \in Nat /\ n \in Nat /\ Len(w) = m + n
      /\ \A i \in 1..m : w[i] = a[i]
      /\ \A i \in 1..n : w[m + i] = b[i]
  BY LenProperties, ConcatProperties
<1>2. \A i \in 1..(m + n - 1) : w[i].left # 0 => w[i + 1] = [w[i] EXCEPT !.left = @ - 1]
  <2>1. Joined(w)
    OBVIOUS
  <2> HIDE DEF w, m, n
  <2>2. Len(w) - 1 = m + n - 1
    BY <1>1
  <2>. QED BY <2>1, <2>2 DEF Joined
<1> HIDE DEF w, m, n
<1>3. ASSUME NEW i \in 1..(m - 1), a[i].left # 0
      PROVE  a[i + 1] = [a[i] EXCEPT !.left = @ - 1]
  <2>1. i \in 1..m /\ i + 1 \in 1..m /\ i \in 1..(m + n - 1)
    BY <1>1
  <2>. QED BY <1>1, <1>2, <1>3, <2>1
<1>4. ASSUME NEW i \in 1..(n - 1), b[i].left # 0
      PROVE  b[i + 1] = [b[i] EXCEPT !.left = @ - 1]
  <2>1. i \in 1..n /\ i + 1 \in 1..n /\ m + i \in 1..(m + n - 1) /\ (m + i) + 1 = m + (i + 1)
    BY <1>1
  <2>2. w[m + i] = b[i] /\ w[(m + i) + 1] = b[i + 1]
    BY <1>1, <2>1
  <2>. QED BY <1>2, <1>4, <2>1, <2>2
<1>. QED BY <1>3, <1>4 DEF Joined, m, n

\* Messages framed: nothing of none, and the octets of one more at the end.
LEMMA FramedStep ==
  /\ Framed(<< >>) = << >>
  /\ \A s \in Seq(Msg) : Framed(s) \in Seq(Unit)
  /\ \A s \in Seq(Msg), m \in Msg : Framed(Append(s, m)) = Framed(s) \o Octets(m)
<1> DEFINE frames(s) == [i \in DOMAIN s |-> Octets(s[i])]
<1>1. \A s : Framed(s) = FlattenSeq(frames(s))
  BY DEF Framed
<1>2. ASSUME NEW s \in Seq(Msg)
      PROVE  /\ frames(s) \in Seq(Seq(Unit)) /\ Len(frames(s)) = Len(s)
             /\ \A i \in 1..Len(s) : frames(s)[i] = Octets(s[i])
  <2>1. Len(s) \in Nat /\ DOMAIN s = 1..Len(s) /\ \A i \in 1..Len(s) : s[i] \in Msg
    BY LenProperties, ElementOfSeq
  <2>2. \A i \in 1..Len(s) : Octets(s[i]) \in Seq(Unit)
    BY <2>1, OctetsShape
  <2>. QED BY <2>1, <2>2
<1>3. ASSUME NEW s \in Seq(Msg), NEW m \in Msg
      PROVE  frames(Append(s, m)) = Append(frames(s), Octets(m))
  <2> DEFINE n == Len(s)
             w == Append(s, m)
             f == frames(s)
             g == frames(w)
             o == Octets(m)
  <2>1. /\ w \in Seq(Msg) /\ Len(w) = n + 1 /\ w[n + 1] = m /\ n \in Nat
        /\ \A i \in 1..n : w[i] = s[i]
    BY AppendProperties, LenProperties
  <2>2. o \in Seq(Unit)
    BY OctetsShape
  <2>3. /\ f \in Seq(Seq(Unit)) /\ Len(f) = n
        /\ \A i \in 1..n : f[i] = Octets(s[i])
    BY <1>2
  <2>4. /\ g \in Seq(Seq(Unit)) /\ Len(g) = n + 1
        /\ \A i \in 1..(n + 1) : g[i] = Octets(w[i])
    BY <1>2, <2>1
  <2> HIDE DEF n, w, f, g, o, frames
  <2>5. /\ Append(f, o) \in Seq(Seq(Unit)) /\ Len(Append(f, o)) = n + 1
        /\ \A i \in 1..n : Append(f, o)[i] = f[i]
        /\ Append(f, o)[n + 1] = o
    BY <2>2, <2>3, AppendProperties
  <2>6. \A i \in 1..(n + 1) : g[i] = Append(f, o)[i]
    <3>1. g[n + 1] = o
      BY <2>1, <2>4 DEF o
    <3>2. \A i \in 1..n : i \in 1..(n + 1) /\ g[i] = f[i]
      BY <2>1, <2>3, <2>4
    <3>3. \A i \in 1..(n + 1) : i = n + 1 \/ i \in 1..n
      BY <2>1
    <3>. QED BY <2>5, <3>1, <3>2, <3>3
  <2>7. g = Append(f, o)
    BY <2>4, <2>5, <2>6, SeqEqual
  <2>. QED BY <2>7 DEF f, g, o, w
<1>4. frames(<< >>) = << >>
  OBVIOUS
<1> HIDE DEF frames
<1>5. \A s \in Seq(Msg) : Framed(s) \in Seq(Unit)
  BY <1>1, <1>2, FlatType
<1>6. ASSUME NEW s \in Seq(Msg), NEW m \in Msg
      PROVE  Framed(Append(s, m)) = Framed(s) \o Octets(m)
  <2>1. frames(s) \in Seq(Seq(Unit)) /\ Octets(m) \in Seq(Unit)
    BY <1>2, OctetsShape
  <2>2. FlattenSeq(Append(frames(s), Octets(m))) = FlattenSeq(frames(s)) \o Octets(m)
    BY <2>1, FlatAppend
  <2>. QED BY <1>1, <1>3, <2>2
<1>. QED BY <1>1, <1>4, <1>5, <1>6, FlatEmpty

LEMMA FramedOne ==
  ASSUME NEW m \in Msg
  PROVE  Framed(<<m>>) = Octets(m)
<1>1. <<m>> = Append(<< >>, m) /\ << >> \in Seq(Msg)
  OBVIOUS
<1>2. Framed(Append(<< >>, m)) = Framed(<< >>) \o Octets(m)
  BY <1>1, FramedStep
<1>3. << >> \o Octets(m) = Octets(m)
  BY OctetsShape, ConcatEmptySeq
<1>. QED BY <1>1, <1>2, <1>3, FramedStep

\* Messages framed are whole, and hold no octet of another.
LEMMA FramedJoined ==
  ASSUME NEW s \in Seq(Msg)
  PROVE  /\ Joined(Framed(s)) /\ Closed(Framed(s))
         /\ \A u \in ToSet(Framed(s)) : u.msg \in ToSet(s)
<1> DEFINE Good(t) == /\ Joined(Framed(t)) /\ Closed(Framed(t))
                      /\ \A u \in ToSet(Framed(t)) : u.msg \in ToSet(t)
           T == {t \in Seq(Msg) : Good(t)}
<1>1. << >> \in T
  <2>1. << >> \in Seq(Msg) /\ Joined(<< >>) /\ Closed(<< >>)
    BY DEF Joined, Closed
  <2>. QED BY <2>1, FramedStep, ToSetEmpty
<1>2. ASSUME NEW t \in Seq(Msg), Good(t), NEW m \in Msg
      PROVE  Good(Append(t, m))
  <2> DEFINE o == Octets(m)
             f == Framed(t)
  <2>1. f \in Seq(Unit) /\ o \in Seq(Unit) /\ Framed(Append(t, m)) = f \o o
    BY FramedStep, OctetsShape
  <2>2. Joined(o) /\ Closed(o)
    BY OctetsJoined
  <2>3. \A u \in ToSet(o) : u.msg = m
    BY DEF Octets, ToSet
  <2>4. ToSet(Append(t, m)) = ToSet(t) \cup {m}
    BY ToSetAppend
  <2> HIDE DEF o, f
  <2>5. Joined(f \o o) /\ Closed(f \o o) /\ ToSet(f \o o) = ToSet(f) \cup ToSet(o)
    BY <1>2, <2>1, <2>2, JoinedConcat, ClosedConcat, ToSetConcat DEF f
  <2>. QED BY <1>2, <2>1, <2>3, <2>4, <2>5 DEF f
<1>3. T = Seq(Msg)
  <2>1. T \in SUBSET Seq(Msg) /\ \A t \in T, m \in Msg : Append(t, m) \in T
    BY <1>2, AppendProperties
  <2> HIDE DEF T
  <2>. QED BY <1>1, <2>1, SeqSet
<1>4. Good(s)
  BY <1>3
<1>. QED BY <1>4

\* Framing one part after the other.
LEMMA FramedConcat ==
  ASSUME NEW s \in Seq(Msg), NEW t \in Seq(Msg)
  PROVE  Framed(s \o t) = Framed(s) \o Framed(t)
<1> DEFINE T == {u \in Seq(Msg) : Framed(s \o u) = Framed(s) \o Framed(u)}
<1>0. Framed(s) \in Seq(Unit)
  BY FramedStep
<1>1. << >> \in T
  <2>1. s \o << >> = s /\ Framed(s) \o << >> = Framed(s) /\ << >> \in Seq(Msg)
    BY <1>0, ConcatEmptySeq
  <2>. QED BY <2>1, FramedStep
<1>2. ASSUME NEW u \in Seq(Msg), Framed(s \o u) = Framed(s) \o Framed(u), NEW m \in Msg
      PROVE  Framed(s \o Append(u, m)) = Framed(s) \o Framed(Append(u, m))
  <2> DEFINE a == Framed(s)
             b == Framed(u)
             c == Octets(m)
             w == s \o u
  <2>1. a \in Seq(Unit) /\ b \in Seq(Unit) /\ c \in Seq(Unit) /\ w \in Seq(Msg)
    BY FramedStep, OctetsShape, ConcatProperties
  <2>2. Framed(Append(u, m)) = b \o c
    BY FramedStep
  <2>3. s \o Append(u, m) = Append(w, m)
    BY ConcatAppended
  <2> HIDE DEF w
  <2>4. Framed(Append(w, m)) = Framed(w) \o c
    BY <2>1, FramedStep
  <2>5. Framed(w) = a \o b
    BY <1>2 DEF w
  <2> HIDE DEF a, b, c
  <2>6. \A x, y, z \in Seq(Unit) : (x \o y) \o z = x \o (y \o z)
    <3>1. Associative(Unit)
      BY Regrouped, Zenon
    <3>. QED BY <3>1, Zenon DEF Associative
  <2>7. (a \o b) \o c = a \o (b \o c)
    BY <2>1, <2>6, Zenon
  <2>. QED BY <2>2, <2>3, <2>4, <2>5, <2>7, Zenon DEF a
<1>3. T = Seq(Msg)
  <2>1. T \in SUBSET Seq(Msg) /\ \A u \in T, m \in Msg : Append(u, m) \in T
    BY <1>2, AppendProperties
  <2> HIDE DEF T
  <2>. QED BY <1>1, <2>1, SeqSet
<1>. QED BY <1>3

\* Cells framed one by one, one after the other, are all that is in them framed.
FramedCells(u) == [i \in DOMAIN u |-> Framed(u[i])]

LEMMA FramedCellsShape ==
  ASSUME NEW u \in Seq(Seq(Msg))
  PROVE  /\ FramedCells(u) \in Seq(Seq(Unit)) /\ Len(FramedCells(u)) = Len(u)
         /\ \A i \in 1..Len(u) : FramedCells(u)[i] = Framed(u[i])
<1>1. Len(u) \in Nat /\ DOMAIN u = 1..Len(u) /\ \A i \in 1..Len(u) : u[i] \in Seq(Msg)
  BY LenProperties, ElementOfSeq
<1>2. \A i \in 1..Len(u) : Framed(u[i]) \in Seq(Unit)
  BY <1>1, FramedStep
<1>. QED BY <1>1, <1>2 DEF FramedCells

LEMMA FramedFlat ==
  ASSUME NEW u \in Seq(Seq(Msg))
  PROVE  FlattenSeq(FramedCells(u)) = Framed(FlattenSeq(u))
<1> DEFINE Good(v) == FlattenSeq(FramedCells(v)) = Framed(FlattenSeq(v))
           T == {v \in Seq(Seq(Msg)) : Good(v)}
<1>1. << >> \in T
  <2>1. FramedCells(<< >>) = << >> /\ << >> \in Seq(Seq(Msg))
    BY DEF FramedCells
  <2>. QED BY <2>1, FlatEmpty, FramedStep
<1>2. ASSUME NEW v \in Seq(Seq(Msg)), Good(v), NEW x \in Seq(Msg)
      PROVE  Good(Append(v, x))
  <2> DEFINE n == Len(v)
             w == Append(v, x)
             f == FramedCells(v)
             g == FramedCells(w)
             o == Framed(x)
  <2>1. /\ w \in Seq(Seq(Msg)) /\ Len(w) = n + 1 /\ w[n + 1] = x /\ n \in Nat
        /\ \A i \in 1..n : w[i] = v[i]
    BY AppendProperties, LenProperties
  <2>2. o \in Seq(Unit)
    BY FramedStep
  <2>3. /\ f \in Seq(Seq(Unit)) /\ Len(f) = n
        /\ \A i \in 1..n : f[i] = Framed(v[i])
    BY FramedCellsShape
  <2>4. /\ g \in Seq(Seq(Unit)) /\ Len(g) = n + 1
        /\ \A i \in 1..(n + 1) : g[i] = Framed(w[i])
    BY <2>1, FramedCellsShape
  <2>5. FlattenSeq(w) = FlattenSeq(v) \o x /\ FlattenSeq(v) \in Seq(Msg)
    BY FlatAppend, FlatType
  <2> HIDE DEF n, w, f, g, o
  <2>6. /\ Append(f, o) \in Seq(Seq(Unit)) /\ Len(Append(f, o)) = n + 1
        /\ \A i \in 1..n : Append(f, o)[i] = f[i]
        /\ Append(f, o)[n + 1] = o
    BY <2>2, <2>3, AppendProperties
  <2>7. g = Append(f, o)
    <3>1. g[n + 1] = o
      BY <2>1, <2>4 DEF o
    <3>2. \A i \in 1..n : i \in 1..(n + 1) /\ g[i] = f[i]
      <4>1. \A i \in 1..n : i \in 1..(n + 1) /\ w[i] = v[i]
        BY <2>1
      <4>. QED BY <2>3, <2>4, <4>1, Zenon
    <3>3. \A i \in 1..(n + 1) : i = n + 1 \/ i \in 1..n
      BY <2>1
    <3>4. \A i \in 1..(n + 1) : g[i] = Append(f, o)[i]
      BY <2>6, <3>1, <3>2, <3>3
    <3>. QED BY <2>4, <2>6, <3>4, SeqEqual
  <2>8. FlattenSeq(g) = FlattenSeq(f) \o o
    BY <2>2, <2>3, <2>7, FlatAppend
  <2>9. Framed(FlattenSeq(v) \o x) = Framed(FlattenSeq(v)) \o o
    BY <2>5, FramedConcat DEF o
  <2>10. FlattenSeq(f) = Framed(FlattenSeq(v))
    BY <1>2 DEF f
  <2>. QED BY <2>5, <2>8, <2>9, <2>10, Zenon DEF g, w
<1>3. T = Seq(Seq(Msg))
  <2>1. T \in SUBSET Seq(Seq(Msg)) /\ \A v \in T, x \in Seq(Msg) : Append(v, x) \in T
    BY <1>2, AppendProperties
  <2> HIDE DEF T
  <2>. QED BY <1>1, <2>1, SeqSet
<1>. QED BY <1>3

-----------------------------------------------------------------------------
(* Settings and the commands that tell a peer of them.                     *)

Setting == [baud : Nat, data_bits : Nat, parity : Nat, stop_bits : Nat, flow : Nat]

FieldSet == {"baud", "data_bits", "parity", "stop_bits", "flow"}

LEMMA FieldsAre ==
  /\ ToSet(Fields) = FieldSet /\ Len(Fields) = 5 /\ DOMAIN Fields = 1..5
  /\ \A i \in 1..5 : Fields[i] \in FieldSet
BY DEF Fields, ToSet, FieldSet

LEMMA SettingType ==
  /\ \A tio \in Termios : FromTermios(tio) \in Setting
  /\ \A s \in Setting, f \in FieldSet : s[f] \in Nat
  /\ \A s, t \in Setting : (\A f \in FieldSet : s[f] = t[f]) => s = t
<1>1. ASSUME NEW tio \in Termios
      PROVE  FromTermios(tio) \in Setting
  BY DEF Termios, FromTermios, Setting
<1>2. ASSUME NEW s \in Setting, NEW f \in FieldSet
      PROVE  s[f] \in Nat
  BY DEF Setting, FieldSet
<1>3. ASSUME NEW s \in Setting, NEW t \in Setting, \A f \in FieldSet : s[f] = t[f]
      PROVE  s = t
  BY <1>3 DEF Setting, FieldSet
<1>. QED BY <1>1, <1>2, <1>3

\* The commands for a change set each field that differs to its new value, and
\* no other.
LEMMA CommandsType ==
  ASSUME NEW old \in Setting, NEW new \in Setting
  PROVE  /\ CommandsTo(old, new) \in Seq(SetMsg)
         /\ \A m \in ToSet(CommandsTo(old, new)) : m.value = new[m.field]
         /\ \A f \in FieldSet :
              new[f] # old[f]
                => [is |-> "set", field |-> f, value |-> new[f]] \in ToSet(CommandsTo(old, new))
<1> DEFINE cmd(f) == [is |-> "set", field |-> f, value |-> new[f]]
           part(f) == IF new[f] = old[f] THEN << >> ELSE <<cmd(f)>>
           parts == [i \in 1..5 |-> part(Fields[i])]
<1>1. CommandsTo(old, new) = FlattenSeq(parts)
  BY FieldsAre DEF CommandsTo
<1>2. \A f \in FieldSet : cmd(f) \in SetMsg
  BY SettingType, FieldsAre DEF SetMsg
<1>3. \A f \in FieldSet : part(f) \in Seq(SetMsg)
  BY <1>2
<1>4. parts \in Seq(Seq(SetMsg)) /\ DOMAIN parts = 1..5
  BY <1>3, FieldsAre
<1>5. ToSet(FlattenSeq(parts)) = UNION {ToSet(parts[i]) : i \in 1..5}
  BY <1>4, ToSetFlat
<1>6. \A f \in FieldSet : ToSet(part(f)) = IF new[f] = old[f] THEN {} ELSE {cmd(f)}
  BY DEF ToSet
<1>7. \A i \in 1..5 : Fields[i] \in FieldSet /\ parts[i] = part(Fields[i])
  BY FieldsAre
<1>8. \A f \in FieldSet : \E i \in 1..5 : Fields[i] = f
  BY DEF FieldSet, Fields
<1> HIDE DEF parts
<1>9. ASSUME NEW m \in ToSet(CommandsTo(old, new))
      PROVE  m.value = new[m.field]
  <2>1. PICK i \in 1..5 : m \in ToSet(parts[i])
    BY <1>1, <1>5, <1>9
  <2>2. m = cmd(Fields[i])
    BY <1>6, <1>7, <2>1
  <2>. QED BY <2>2
<1>10. ASSUME NEW f \in FieldSet, new[f] # old[f]
       PROVE  cmd(f) \in ToSet(CommandsTo(old, new))
  <2>1. PICK i \in 1..5 : Fields[i] = f
    BY <1>8
  <2>2. cmd(f) \in ToSet(parts[i])
    BY <1>6, <1>7, <1>10, <2>1
  <2>. QED BY <1>1, <1>5, <2>2
<1>11. CommandsTo(old, new) \in Seq(SetMsg)
  BY <1>1, <1>4, FlatType
<1>. QED BY <1>9, <1>10, <1>11

-----------------------------------------------------------------------------
(* Types, and what state goes with what state.                             *)

ReplyUnit == [msg : ReplyMsg, left : 0..1]

LoopTypeOK ==
  /\ loop \in {"spawned", "next", "offer", "session"} /\ session \in 0..MaxPeers
  /\ lock \in {"free", "up", "down"}
  /\ up \in {"none", "select", "sync", "work", "ended"}
  /\ down \in {"none", "running", "ended"} /\ life \in {"open", "half", "gone"}

PortTypeOK ==
  /\ chosen \in Seq(Termios) /\ chosen # << >>
  /\ pristine \in Setting \cup {Nothing} /\ last \in Setting \cup {Nothing}
  /\ keys \in Seq(DataMsg) /\ Len(keys) <= PtyBuf
  /\ pty \in Seq(Octet) /\ Len(pty) <= PtyBuf
  /\ typed \in Nat

PeerTypeOK ==
  /\ inbox \in Seq(Octet) /\ outbox \in Seq(Unit) /\ Len(outbox) <= PtyBuf
  /\ heard \in Unit \cup {NoOctet} /\ told \in [FieldSet -> Nat \cup {Nothing}]
  /\ said \in Nat /\ meant \in Seq(Octet)

TaskTypeOK ==
  /\ upread \in Seq(Seq(DataMsg)) /\ upwork \in Seq(Seq(Unit))
  /\ reply \in Seq(ReplyUnit) /\ downcells \in Seq(Seq(Octet))
  /\ telnet \in Decoder /\ com_ok \in BOOLEAN /\ delivered \in Seq(Octet)

\* A session has its two tasks and no other time has; each holds the lock only
\* while it has something to write, and a connection is empty until then.
Turns ==
  /\ loop = "session" => up # "none" /\ down # "none"
  /\ loop # "session" => up = "none" /\ down = "none" /\ outbox = << >>
  /\ up = "sync" <=> upread # << >>
  /\ up = "work" <=> upwork # << >>
  /\ down # "running" => reply = << >> /\ downcells = << >>
  /\ lock = "up" => up = "work"
  /\ lock = "down" => reply # << >>
  /\ loop \in {"spawned", "next"} => life = "gone"
  /\ loop # "spawned" => pristine \in Setting
  /\ loop = "session" => last \in Setting

Untold == [f \in FieldSet |-> Nothing]

\* A connection just made: the peer has heard and been told nothing.
Fresh == loop = "offer" => /\ heard = NoOctet /\ told = Untold
                           /\ delivered = << >> /\ com_ok

TypeParts == LoopTypeOK /\ PortTypeOK /\ PeerTypeOK /\ TaskTypeOK /\ Turns /\ Fresh

LEMMA PartsAreTypes == TypeParts => TypeOK
<1> SUFFICES ASSUME TypeParts PROVE TypeOK
  OBVIOUS
<1>1. lock = "down" => down = "running" /\ reply # << >>
  BY DEF TypeParts, Turns
<1>2. telnet.state \in {"Data", "Iac", "Negotiate", "Sub", "SubIac"}
         /\ telnet.agreed \in [Slots -> BOOLEAN]
  BY DEF TypeParts, TaskTypeOK, Decoder
<1>. QED BY <1>1, <1>2 DEF TypeParts, TypeOK, LoopTypeOK, PortTypeOK, PeerTypeOK, Turns

\* What a buffer with something in it gives, and what is cut into cells, is
\* something.
LEMMA SomethingRead ==
  ASSUME NEW S, NEW s \in Seq(S), s # << >>
  PROVE  Cells(ReadOf(s)) # << >>
<1>1. ReadOf(s) # << >>
  <2>1. Len(s) \in Nat \ {0}
    BY EmptySeq
  <2>2. Least(ReadMax, Len(s)) \in 1..Len(s)
    BY <2>1, BytesAssumption DEF Least
  <2>. QED BY <2>1, <2>2, CutInTwo, EmptySeq DEF ReadOf
<1>2. ReadOf(s) \in Seq(S)
  BY ReadSplits
<1>3. FlattenSeq(Cells(ReadOf(s))) = ReadOf(s)
  BY <1>2, CellsWhole
<1>. QED BY <1>1, <1>3, FlatEmpty

LEMMA NewType == New \in Decoder
<1>1. [s \in Slots |-> TRUE] \in [Slots -> BOOLEAN]
  OBVIOUS
<1>. QED BY <1>1 DEF New, Decoder, Verbs

LEMMA TypeInit == Init => TypeParts
<1> SUFFICES ASSUME Init PROVE TypeParts
  OBVIOUS
<1>1. LoopTypeOK /\ Turns /\ Fresh
  BY RfcAssumption DEF Init, LoopTypeOK, Turns, Fresh
<1>2. PortTypeOK
  BY RfcAssumption, BytesAssumption DEF Init, PortTypeOK
<1>3. PeerTypeOK
  BY FieldsAre, BytesAssumption DEF Init, PeerTypeOK
<1>4. TaskTypeOK
  BY NewType DEF Init, TaskTypeOK
<1>. QED BY <1>1, <1>2, <1>3, <1>4 DEF TypeParts

LEMMA ConfigType ==
  ASSUME PortTypeOK
  PROVE  Config \in Setting
<1>1. Len(chosen) \in 1..Len(chosen)
  BY LenProperties, EmptySeq DEF PortTypeOK
<1>2. chosen[Len(chosen)] \in Termios
  BY <1>1, ElementOfSeq DEF PortTypeOK
<1>. QED BY <1>2, SettingType DEF Config

LEMMA RelayedType ==
  ASSUME PortTypeOK, last \in Setting
  PROVE  Relayed \in Seq(Seq(Unit)) /\ Latest \in Setting
<1>1. Config \in Setting
  BY ConfigType
<1>2. CommandsTo(last, Config) \in Seq(Msg)
  <2>1. CommandsTo(last, Config) \in Seq(SetMsg)
    BY <1>1, CommandsType
  <2>2. SetMsg \subseteq Msg
    BY DEF Msg
  <2>. QED BY <2>1, <2>2, SeqMonotonic
<1>3. Framed(CommandsTo(last, Config)) \in Seq(Unit)
  BY <1>2, FramedStep
<1>. QED BY <1>1, <1>3 DEF Relayed, Latest

\* The read's replies are whole replies.
LEMMA RepliesType ==
  ASSUME NEW words \in Seq(Word)
  PROVE  LET out == Framed([i \in DOMAIN words |-> Reply(words[i])])
         IN  out \in Seq(ReplyUnit) /\ Joined(out) /\ Closed(out)
<1> DEFINE ms == [i \in DOMAIN words |-> Reply(words[i])]
           s == Framed(ms)
<1>1. /\ Len(words) \in Nat /\ DOMAIN words = 1..Len(words)
      /\ \A i \in 1..Len(words) : words[i] \in Word
  BY LenProperties, ElementOfSeq
<1>2. \A w \in Word : Reply(w) \in ReplyMsg
  BY DEF Reply, ReplyMsg, Word
<1>3. ms \in Seq(ReplyMsg)
  BY <1>1, <1>2
<1>4. ms \in Seq(Msg)
  BY <1>3, SeqMonotonic DEF Msg
<1>5. ToSet(ms) \subseteq ReplyMsg
  BY <1>3, ToSetType
<1> HIDE DEF ms
<1>6. s \in Seq(Unit) /\ Joined(s) /\ Closed(s) /\ \A u \in ToSet(s) : u.msg \in ToSet(ms)
  BY <1>4, FramedStep, FramedJoined
<1> HIDE DEF s
<1>7. \A i \in 1..Len(s) : s[i] \in ReplyUnit
  <2>1. Len(s) \in Nat /\ DOMAIN s = 1..Len(s) /\ \A i \in 1..Len(s) : s[i] \in Unit
    BY <1>6, LenProperties, ElementOfSeq
  <2>2. \A i \in 1..Len(s) : s[i] \in ToSet(s)
    BY <2>1 DEF ToSet
  <2>. QED BY <1>5, <1>6, <2>1, <2>2 DEF Unit, ReplyUnit
<1>8. s \in Seq(ReplyUnit)
  BY <1>6, <1>7, LenProperties
<1>. QED BY <1>6, <1>8 DEF s, ms

\* The loop's own steps.
LEMMA TypeLoop ==
  ASSUME TypeParts, Loop \/ Connect
  PROVE  TypeParts'
<1> USE DEF TypeParts
<1>0. ToSet(Fields) = FieldSet /\ Config \in Setting /\ << >> \in Seq(Octet)
  BY FieldsAre, ConfigType
<1>1. CASE TakePristine
  <2>1. (LoopTypeOK /\ Turns /\ Fresh)'
    BY <1>0, <1>1 DEF TakePristine, LoopTypeOK, Turns, Fresh, port, upTask, downTask, peer
  <2>2. (PortTypeOK /\ PeerTypeOK /\ TaskTypeOK)'
    BY <1>0, <1>1 DEF TakePristine, PortTypeOK, PeerTypeOK, TaskTypeOK, port, upTask,
       downTask, peer
  <2>. QED BY <2>1, <2>2
<1>2. CASE DrainReads
  <2>1. (LoopTypeOK /\ Turns /\ Fresh)'
    BY <1>2 DEF DrainReads, LoopTypeOK, Turns, Fresh, loops, upTask, downTask, peer
  <2>2. (PortTypeOK /\ PeerTypeOK /\ TaskTypeOK)'
    BY <1>2, BytesAssumption DEF DrainReads, PortTypeOK, PeerTypeOK, TaskTypeOK, loops,
       upTask, downTask, peer
  <2>. QED BY <2>1, <2>2
<1>3. CASE Connect
  <2>1. (LoopTypeOK /\ Turns /\ Fresh)'
    BY <1>0, <1>3, RfcAssumption DEF Connect, LoopTypeOK, Turns, Fresh, Untold, port, upTask
  <2>2. (PortTypeOK /\ PeerTypeOK /\ TaskTypeOK)'
    <3>1. telnet' \in Decoder
      BY <1>3, NewType DEF Connect
    <3>2. TaskTypeOK'
      BY <1>3, <3>1 DEF Connect, TaskTypeOK, upTask
    <3>3. PeerTypeOK'
      BY <1>0, <1>3, BytesAssumption DEF Connect, PeerTypeOK
    <3>4. PortTypeOK'
      BY <1>3 DEF Connect, PortTypeOK, port, upTask
    <3>. QED BY <3>2, <3>3, <3>4
  <2>. QED BY <2>1, <2>2
<1>4. CASE Offer
  <2>1. (LoopTypeOK /\ Turns /\ Fresh)'
    BY <1>4 DEF Offer, LoopTypeOK, Turns, Fresh, peer
  <2>2. outbox' \in Seq(Unit) /\ Len(outbox') <= PtyBuf
    <3> DEFINE m == [is |-> "offer"]
    <3>1. m \in Msg /\ Size(m) = 1
      BY DEF Msg, Size
    <3>2. Octets(m) \in Seq(Unit)
      BY <3>1, OctetsShape
    <3>3. Len(Octets(m)) = 1
      BY <3>1 DEF Octets
    <3>4. outbox' = Octets(m)
      BY <1>4 DEF Offer
    <3> HIDE DEF m
    <3>5. 1 <= PtyBuf
      BY BytesAssumption
    <3>. QED BY <3>2, <3>3, <3>4, <3>5
  <2>3. (PortTypeOK /\ PeerTypeOK /\ TaskTypeOK)'
    BY <1>4, <2>2 DEF Offer, PortTypeOK, PeerTypeOK, TaskTypeOK, port, peer
  <2>. QED BY <2>1, <2>3
<1>5. CASE OfferFails
  <2>1. (LoopTypeOK /\ Turns /\ Fresh)'
    BY <1>5 DEF OfferFails, LoopTypeOK, Turns, Fresh, port, upTask, downTask, peer
  <2>2. (PortTypeOK /\ PeerTypeOK /\ TaskTypeOK)'
    BY <1>5 DEF OfferFails, PortTypeOK, PeerTypeOK, TaskTypeOK, port, upTask, downTask, peer
  <2>. QED BY <2>1, <2>2
<1>6. CASE EndSession
  <2>1. (LoopTypeOK /\ Turns /\ Fresh)'
    BY <1>6 DEF EndSession, LoopTypeOK, Turns, Fresh, port
  <2>2. (PortTypeOK /\ PeerTypeOK /\ TaskTypeOK)'
    BY <1>6, BytesAssumption DEF EndSession, PortTypeOK, PeerTypeOK, TaskTypeOK, port
  <2>. QED BY <2>1, <2>2
<1>. QED BY <1>1, <1>2, <1>3, <1>4, <1>5, <1>6 DEF Loop

\* The task that reads the port.
LEMMA TypeUp ==
  ASSUME TypeParts, Up
  PROVE  TypeParts'
<1> USE DEF TypeParts
<1>1. CASE UpReads
  <2>1. keys \in Seq(DataMsg) /\ keys # << >>
    BY <1>1 DEF UpReads, PortTypeOK
  <2>2. /\ LeftBy(keys) \in Seq(DataMsg) /\ ReadOf(keys) \in Seq(DataMsg)
        /\ Len(LeftBy(keys)) <= Len(keys) /\ Cells(ReadOf(keys)) # << >>
    BY <2>1, ReadSplits, LeftByShorter, SomethingRead
  <2>3. Cells(ReadOf(keys)) \in Seq(Seq(DataMsg))
    BY <2>2, CellsType
  <2>4. Len(LeftBy(keys)) <= PtyBuf
    BY <2>1, <2>2, LenProperties, BytesAssumption DEF PortTypeOK
  <2>5. (LoopTypeOK /\ Turns /\ Fresh)'
    BY <1>1, <2>2 DEF UpReads, LoopTypeOK, Turns, Fresh, loops, downTask, peer
  <2>6. (PortTypeOK /\ PeerTypeOK /\ TaskTypeOK)'
    BY <1>1, <2>2, <2>3, <2>4 DEF UpReads, PortTypeOK, PeerTypeOK, TaskTypeOK, loops,
       downTask, peer
  <2>. QED BY <2>5, <2>6
<1>2. CASE UpSyncs
  <2>0. last \in Setting /\ upread # << >> /\ upread \in Seq(Seq(DataMsg))
    BY <1>2 DEF UpSyncs, Turns, LoopTypeOK, TaskTypeOK
  <2>1. Relayed \in Seq(Seq(Unit)) /\ Latest \in Setting
    BY <2>0, RelayedType
  <2>2. upread \in Seq(Seq(Msg))
    <3>1. Seq(DataMsg) \subseteq Seq(Msg)
      BY SeqMonotonic DEF Msg
    <3>. QED BY <2>0, <3>1, SeqMonotonic
  <2>3. /\ FramedCells(upread) \in Seq(Seq(Unit))
        /\ Len(FramedCells(upread)) = Len(upread)
    BY <2>2, FramedCellsShape
  <2>4. upwork' = Relayed \o FramedCells(upread)
    BY <1>2 DEF UpSyncs, FramedCells
  <2>5. upwork' \in Seq(Seq(Unit))
    BY <2>1, <2>3, <2>4, ConcatProperties
  <2>6. FramedCells(upread) # << >>
    BY <2>0, <2>3, EmptySeq
  <2>7. upwork' # << >>
    BY <2>1, <2>3, <2>4, <2>6, ConcatEqualIffEmpty
  <2>8. (LoopTypeOK /\ Turns /\ Fresh)'
    BY <1>2, <2>1, <2>7 DEF UpSyncs, LoopTypeOK, Turns, Fresh, loops, downTask, peer
  <2>9. (PortTypeOK /\ PeerTypeOK /\ TaskTypeOK)'
    BY <1>2, <2>1, <2>5 DEF UpSyncs, PortTypeOK, PeerTypeOK, TaskTypeOK, loops, port,
       downTask, peer
  <2>. QED BY <2>8, <2>9
<1>3. CASE PollTick
  <2>0. last \in Setting
    BY <1>3 DEF PollTick, Turns, LoopTypeOK
  <2>1. Relayed \in Seq(Seq(Unit)) /\ Latest \in Setting
    BY <2>0, RelayedType
  <2>2. Relayed # << >>
    BY <1>3 DEF PollTick, Relayed
  <2>3. (LoopTypeOK /\ Turns /\ Fresh)'
    BY <1>3, <2>1, <2>2 DEF PollTick, LoopTypeOK, Turns, Fresh, loops, downTask, peer
  <2>4. (PortTypeOK /\ PeerTypeOK /\ TaskTypeOK)'
    BY <1>3, <2>1 DEF PollTick, PortTypeOK, PeerTypeOK, TaskTypeOK, loops, port,
       downTask, peer
  <2>. QED BY <2>3, <2>4
<1>4. CASE UpLocks
  <2>1. (LoopTypeOK /\ Turns /\ Fresh)'
    BY <1>4 DEF UpLocks, LoopTypeOK, Turns, Fresh, loops, port, upTask, downTask, peer
  <2>2. (PortTypeOK /\ PeerTypeOK /\ TaskTypeOK)'
    BY <1>4 DEF UpLocks, PortTypeOK, PeerTypeOK, TaskTypeOK, loops, port, upTask,
       downTask, peer
  <2>. QED BY <2>1, <2>2
<1>5. CASE UpWrites
  <2>1. /\ outbox \in Seq(Unit) /\ Len(outbox) <= PtyBuf
        /\ upwork \in Seq(Seq(Unit)) /\ upwork # << >> /\ Head(upwork) \in Seq(Unit)
    BY <1>5, HeadTailProperties DEF UpWrites, Turns, PeerTypeOK, TaskTypeOK
  <2>2. /\ Filled(outbox, Head(upwork)) \in Seq(Unit)
        /\ Len(Filled(outbox, Head(upwork))) <= PtyBuf
        /\ CellsLeft(upwork, outbox) \in Seq(Seq(Unit))
    BY <2>1, WriteSplits, CellsLeftType
  <2>3. Unwritten(Head(upwork), outbox) # << >> => CellsLeft(upwork, outbox) # << >>
    <3> DEFINE rest == Unwritten(Head(upwork), outbox)
    <3>1. rest \in Seq(Unit) /\ Tail(upwork) \in Seq(Seq(Unit))
      BY <2>1, WriteSplits, HeadTailProperties
    <3>2. rest # << >> => CellsLeft(upwork, outbox) = <<rest>> \o Tail(upwork)
      BY DEF CellsLeft
    <3> HIDE DEF rest
    <3>3. <<rest>> \in Seq(Seq(Unit)) /\ <<rest>> # << >>
      BY <3>1
    <3>4. <<rest>> \o Tail(upwork) # << >>
      BY <3>1, <3>3, ConcatEqualIffEmpty
    <3>. QED BY <3>2, <3>4 DEF rest
  <2>4. (LoopTypeOK /\ Turns /\ Fresh)'
    BY <1>5, <2>3 DEF UpWrites, LoopTypeOK, Turns, Fresh, loops, downTask, peer
  <2>5. (PortTypeOK /\ PeerTypeOK /\ TaskTypeOK)'
    BY <1>5, <2>2 DEF UpWrites, PortTypeOK, PeerTypeOK, TaskTypeOK, loops, port,
       downTask, peer
  <2>. QED BY <2>4, <2>5
<1>6. CASE UpFails
  <2>1. (LoopTypeOK /\ Turns /\ Fresh)'
    BY <1>6 DEF UpFails, LoopTypeOK, Turns, Fresh, loops, downTask, peer
  <2>2. (PortTypeOK /\ PeerTypeOK /\ TaskTypeOK)'
    BY <1>6 DEF UpFails, PortTypeOK, PeerTypeOK, TaskTypeOK, loops, port, downTask, peer
  <2>. QED BY <2>1, <2>2
<1>. QED BY <1>1, <1>2, <1>3, <1>4, <1>5, <1>6 DEF Up

\* The bytes of a read decoded, and what is then held.
LEMMA DecodedRead ==
  ASSUME TypeParts, NEW n \in 1..Least(ReadMax, Len(inbox))
  PROVE  LET a == SubSeq(inbox, 1, n)
             b == SubSeq(inbox, n + 1, Len(inbox))
             decoded == Decode(telnet, a)
         IN  /\ a \in Seq(Octet) /\ b \in Seq(Octet) /\ a \o b = inbox
             /\ decoded.telnet \in Decoder /\ decoded.data \in Seq(Octet)
             /\ decoded.reply \in Seq(Word)
             /\ Cells(decoded.data) \in Seq(Seq(Octet))
<1>1. inbox \in Seq(Octet) /\ telnet \in Decoder
  BY DEF TypeParts, PeerTypeOK, TaskTypeOK
<1>2. n \in 0..Len(inbox)
  BY <1>1, LenProperties, BytesAssumption DEF Least
<1> DEFINE a == SubSeq(inbox, 1, n)
           b == SubSeq(inbox, n + 1, Len(inbox))
           decoded == Decode(telnet, a)
<1>3. a \in Seq(Octet) /\ b \in Seq(Octet) /\ a \o b = inbox
  BY <1>1, <1>2, CutInTwo
<1> HIDE DEF a, b
<1>4. decoded \in Decoded
  BY <1>1, <1>3, DecodeStep
<1> HIDE DEF decoded
<1>5. /\ decoded.telnet \in Decoder /\ decoded.data \in Seq(Octet)
      /\ decoded.reply \in Seq(Word)
  BY <1>4 DEF Decoded
<1>6. Cells(decoded.data) \in Seq(Seq(Octet))
  BY <1>5, CellsType
<1>. QED BY <1>3, <1>5, <1>6 DEF a, b, decoded

\* The task that reads the peer.
LEMMA TypeDown ==
  ASSUME TypeParts, Down \/ DownFails
  PROVE  TypeParts'
<1> USE DEF TypeParts
<1>1. CASE DownReads
  <2>1. PICK n \in 1..Least(ReadMax, Len(inbox)) :
          LET decoded == Decode(telnet, SubSeq(inbox, 1, n)) IN
            /\ inbox' = SubSeq(inbox, n + 1, Len(inbox))
            /\ telnet' = decoded.telnet
            /\ reply' = Framed([i \in DOMAIN decoded.reply |-> Reply(decoded.reply[i])])
            /\ downcells' = Cells(decoded.data)
            /\ com_ok' = (com_ok /\ ComPortOk(decoded.telnet))
    BY <1>1, Zenon DEF DownReads
  <2>2. /\ Idle /\ up # "sync"
        /\ UNCHANGED <<loops, port, upTask, down, delivered, lock, outbox, peer>>
    BY <1>1 DEF DownReads
  <2> DEFINE decoded == Decode(telnet, SubSeq(inbox, 1, n))
  <2>3. /\ inbox' \in Seq(Octet) /\ decoded.telnet \in Decoder
        /\ decoded.reply \in Seq(Word) /\ Cells(decoded.data) \in Seq(Seq(Octet))
    BY <2>1, DecodedRead
  <2>4. com_ok' \in BOOLEAN
    BY <2>1 DEF TaskTypeOK
  <2> HIDE DEF decoded
  <2>5. reply' \in Seq(ReplyUnit)
    BY <2>1, <2>3, RepliesType DEF decoded
  <2>6. telnet' \in Decoder /\ downcells' \in Seq(Seq(Octet))
    BY <2>1, <2>3 DEF decoded
  <2>7. (LoopTypeOK /\ Turns /\ Fresh)'
    BY <2>2 DEF Idle, LoopTypeOK, Turns, Fresh, loops, port, upTask, peer
  <2>8. (PortTypeOK /\ PeerTypeOK /\ TaskTypeOK)'
    BY <2>2, <2>3, <2>4, <2>5, <2>6 DEF PortTypeOK, PeerTypeOK, TaskTypeOK, loops,
       port, upTask, peer
  <2>. QED BY <2>7, <2>8
<1>2. CASE DownLocks
  <2>1. (LoopTypeOK /\ Turns /\ Fresh)'
    BY <1>2 DEF DownLocks, LoopTypeOK, Turns, Fresh, loops, port, upTask, downTask, peer
  <2>2. (PortTypeOK /\ PeerTypeOK /\ TaskTypeOK)'
    BY <1>2 DEF DownLocks, PortTypeOK, PeerTypeOK, TaskTypeOK, loops, port, upTask,
       downTask, peer
  <2>. QED BY <2>1, <2>2
<1>3. CASE DownReplies
  <2>1. /\ outbox \in Seq(Unit) /\ Len(outbox) <= PtyBuf /\ reply \in Seq(ReplyUnit)
        /\ reply \in Seq(Unit)
    <3>1. ReplyUnit \subseteq Unit
      BY DEF ReplyUnit, Unit, Msg
    <3>. QED BY <3>1, SeqMonotonic DEF PeerTypeOK, TaskTypeOK
  <2>2. /\ Filled(outbox, reply) \in Seq(Unit) /\ Len(Filled(outbox, reply)) <= PtyBuf
    BY <2>1, WriteSplits
  <2>3. Unwritten(reply, outbox) \in Seq(ReplyUnit)
    <3>1. Taken(reply, outbox) \in 0..Len(reply)
      BY <2>1, BytesAssumption, LenProperties DEF Taken, Room, Least
    <3>. QED BY <2>1, <3>1, CutInTwo DEF Unwritten
  <2>4. (LoopTypeOK /\ Turns /\ Fresh)'
    BY <1>3 DEF DownReplies, LoopTypeOK, Turns, Fresh, loops, port, upTask, peer
  <2>5. (PortTypeOK /\ PeerTypeOK /\ TaskTypeOK)'
    BY <1>3, <2>2, <2>3 DEF DownReplies, PortTypeOK, PeerTypeOK, TaskTypeOK, loops,
       port, upTask, peer
  <2>. QED BY <2>4, <2>5
<1>4. CASE DownReplyFails
  <2>1. (LoopTypeOK /\ Turns /\ Fresh)'
    BY <1>4 DEF DownReplyFails, LoopTypeOK, Turns, Fresh, loops, port, upTask, peer
  <2>2. (PortTypeOK /\ PeerTypeOK /\ TaskTypeOK)'
    BY <1>4 DEF DownReplyFails, PortTypeOK, PeerTypeOK, TaskTypeOK, loops, port, upTask,
       peer
  <2>. QED BY <2>1, <2>2
<1>5. CASE DownWrites
  <2>1. /\ pty \in Seq(Octet) /\ Len(pty) <= PtyBuf /\ downcells \in Seq(Seq(Octet))
        /\ downcells # << >> /\ Head(downcells) \in Seq(Octet)
    BY <1>5, HeadTailProperties DEF DownWrites, PortTypeOK, TaskTypeOK
  <2>2. /\ Filled(pty, Head(downcells)) \in Seq(Octet)
        /\ Len(Filled(pty, Head(downcells))) <= PtyBuf
        /\ CellsLeft(downcells, pty) \in Seq(Seq(Octet))
    BY <2>1, WriteSplits, CellsLeftType
  <2>3. delivered' \in Seq(Octet)
    <3> DEFINE h == Head(downcells)
               k == Taken(h, pty)
    <3>1. k \in 0..Len(h)
      BY <2>1, BytesAssumption, LenProperties DEF Taken, Room, Least
    <3>2. SubSeq(h, 1, k) \in Seq(Octet)
      BY <2>1, <3>1, CutInTwo
    <3>3. delivered \in Seq(Octet) /\ delivered' = delivered \o SubSeq(h, 1, k)
      BY <1>5 DEF DownWrites, TaskTypeOK
    <3>. QED BY <3>2, <3>3, ConcatProperties
  <2>4. (LoopTypeOK /\ Turns /\ Fresh)'
    BY <1>5 DEF DownWrites, LoopTypeOK, Turns, Fresh, loops, upTask, peer
  <2>5. (PortTypeOK /\ PeerTypeOK /\ TaskTypeOK)'
    BY <1>5, <2>2, <2>3 DEF DownWrites, PortTypeOK, PeerTypeOK, TaskTypeOK, loops,
       upTask, peer
  <2>. QED BY <2>4, <2>5
<1>6. CASE DownEnds
  <2>1. (LoopTypeOK /\ Turns /\ Fresh)'
    BY <1>6 DEF DownEnds, Idle, LoopTypeOK, Turns, Fresh, loops, port, upTask, peer
  <2>2. (PortTypeOK /\ PeerTypeOK /\ TaskTypeOK)'
    BY <1>6 DEF DownEnds, PortTypeOK, PeerTypeOK, TaskTypeOK, loops, port, upTask, peer
  <2>. QED BY <2>1, <2>2
<1>7. CASE DownFails
  <2>1. (LoopTypeOK /\ Turns /\ Fresh)'
    BY <1>7 DEF DownFails, LoopTypeOK, Turns, Fresh, loops, port, upTask, peer
  <2>2. (PortTypeOK /\ PeerTypeOK /\ TaskTypeOK)'
    BY <1>7 DEF DownFails, PortTypeOK, PeerTypeOK, TaskTypeOK, loops, port, upTask, peer
  <2>. QED BY <2>1, <2>2
<1>. QED BY <1>1, <1>2, <1>3, <1>4, <1>5, <1>6, <1>7 DEF Down

\* What an acknowledgement is made of.
Acked(octet) == <<IAC, Answer(octet.msg.verb, octet.msg.verb \in {WILL, DO}), octet.msg.opt>>

LEMMA AckedType ==
  ASSUME NEW octet \in Unit, octet.msg.is = "reply"
  PROVE  /\ octet.msg \in ReplyMsg /\ Acked(octet) \in Seq(Octet)
         /\ Answer(octet.msg.verb, octet.msg.verb \in {WILL, DO}) \in Verbs
<1>1. octet.msg \in ReplyMsg
  BY DEF Unit, Msg, DataMsg, SetMsg
<1>2. octet.msg.verb \in Verbs /\ octet.msg.opt \in Octet
  BY <1>1 DEF ReplyMsg
<1>3. Verbs \subseteq Octet /\ IAC \in Octet
  BY DEF Verbs, WILL, WONT, DO, DONT, IAC, Octet
<1>4. Answer(octet.msg.verb, octet.msg.verb \in {WILL, DO}) \in Verbs
  BY DEF Answer, Verbs
<1>. QED BY <1>1, <1>2, <1>3, <1>4 DEF Acked

\* The consumer and the peer.
LEMMA TypeEnv ==
  ASSUME TypeParts,
         ConsumerTypes \/ ConsumerConfigures \/ ConsumerReads \/ PeerSays \/ PeerReads
           \/ PeerLeaves
  PROVE  TypeParts'
<1> USE DEF TypeParts
<1>1. CASE ConsumerTypes
  <2>1. PICK b \in KeyBytes :
          keys' = Append(keys, [is |-> "data", byte |-> b, n |-> typed + 1, at |-> Len(chosen)])
    BY <1>1 DEF ConsumerTypes
  <2>2. /\ keys \in Seq(DataMsg) /\ Len(chosen) \in Nat \ {0} /\ typed \in Nat
        /\ Len(keys) < PtyBuf
    BY <1>1, LenProperties, EmptySeq, BytesAssumption DEF ConsumerTypes, PortTypeOK, Room
  <2>3. [is |-> "data", byte |-> b, n |-> typed + 1, at |-> Len(chosen)] \in DataMsg
    BY <2>2 DEF DataMsg
  <2>4. keys' \in Seq(DataMsg) /\ Len(keys') <= PtyBuf
    BY <2>1, <2>2, <2>3, AppendProperties, LenProperties, BytesAssumption
  <2>5. (LoopTypeOK /\ Turns /\ Fresh)'
    BY <1>1 DEF ConsumerTypes, LoopTypeOK, Turns, Fresh, loops, upTask, downTask, peer
  <2>6. (PortTypeOK /\ PeerTypeOK /\ TaskTypeOK)'
    BY <1>1, <2>2, <2>4 DEF ConsumerTypes, PortTypeOK, PeerTypeOK, TaskTypeOK, loops,
       upTask, downTask, peer
  <2>. QED BY <2>5, <2>6
<1>2. CASE ConsumerConfigures
  <2>1. PICK tio \in Termioses : chosen' = Append(chosen, tio)
    BY <1>2 DEF ConsumerConfigures
  <2>2. tio \in Termios
    BY <2>1, RfcAssumption
  <2>3. chosen' \in Seq(Termios) /\ chosen' # << >>
    BY <2>1, <2>2, AppendProperties, EmptySeq DEF PortTypeOK
  <2>4. (LoopTypeOK /\ Turns /\ Fresh)'
    BY <1>2 DEF ConsumerConfigures, LoopTypeOK, Turns, Fresh, loops, upTask, downTask, peer
  <2>5. (PortTypeOK /\ PeerTypeOK /\ TaskTypeOK)'
    BY <1>2, <2>3 DEF ConsumerConfigures, PortTypeOK, PeerTypeOK, TaskTypeOK, loops,
       upTask, downTask, peer
  <2>. QED BY <2>4, <2>5
<1>3. CASE ConsumerReads
  <2>1. (LoopTypeOK /\ Turns /\ Fresh)'
    BY <1>3 DEF ConsumerReads, LoopTypeOK, Turns, Fresh, loops, upTask, downTask, peer
  <2>2. (PortTypeOK /\ PeerTypeOK /\ TaskTypeOK)'
    BY <1>3, BytesAssumption DEF ConsumerReads, PortTypeOK, PeerTypeOK, TaskTypeOK, loops,
       upTask, downTask, peer
  <2>. QED BY <2>1, <2>2
<1>4. CASE PeerSays
  <2>1. PICK s \in Sayings : inbox' = inbox \o s.bytes /\ meant' = meant \o s.data
    BY <1>4 DEF PeerSays
  <2>2. s.bytes \in Seq(Octet) /\ s.data \in Seq(Octet)
    BY <2>1, SayingsAssumption
  <2>3. inbox' \in Seq(Octet) /\ meant' \in Seq(Octet)
    BY <2>1, <2>2, ConcatProperties DEF PeerTypeOK
  <2>4. (LoopTypeOK /\ Turns /\ Fresh)'
    BY <1>4 DEF PeerSays, LoopTypeOK, Turns, Fresh, loops, port, upTask, downTask
  <2>5. (PortTypeOK /\ PeerTypeOK /\ TaskTypeOK)'
    BY <1>4, <2>3 DEF PeerSays, PortTypeOK, PeerTypeOK, TaskTypeOK, loops, port, upTask,
       downTask
  <2>. QED BY <2>4, <2>5
<1>5. CASE PeerReads
  <2> DEFINE octet == Head(outbox)
             whole == octet.left = 0
  <2>1. /\ outbox \in Seq(Unit) /\ outbox # << >> /\ octet \in Unit
        /\ Tail(outbox) \in Seq(Unit) /\ Len(Tail(outbox)) <= PtyBuf
    <3>1. /\ outbox \in Seq(Unit) /\ outbox # << >> /\ Len(outbox) <= PtyBuf
          /\ Len(outbox) \in Nat
      BY <1>5, LenProperties DEF PeerReads, PeerTypeOK
    <3>. QED BY <3>1, HeadTailProperties, BytesAssumption
  <2> HIDE DEF octet
  <2>2. /\ heard' = octet /\ outbox' = Tail(outbox)
        /\ told' = IF whole /\ octet.msg.is = "set"
                   THEN [told EXCEPT ![octet.msg.field] = octet.msg.value] ELSE told
        /\ inbox' = IF whole /\ octet.msg.is = "reply" /\ life = "open"
                          /\ octet.msg.opt \in Acknowledged
                    THEN inbox \o Acked(octet) ELSE inbox
        /\ UNCHANGED <<loops, port, upTask, downTask, lock, life, said, meant>>
    BY <1>5, Zenon DEF PeerReads, octet, Acked
  <2>3. told' \in [FieldSet -> Nat \cup {Nothing}]
    <3>1. octet.msg.is = "set" => octet.msg.field \in FieldSet /\ octet.msg.value \in Nat
      BY <2>1, FieldsAre DEF Unit, Msg, DataMsg, SetMsg, ReplyMsg
    <3>. QED BY <2>2, <3>1 DEF PeerTypeOK
  <2>4. inbox' \in Seq(Octet)
    <3>1. octet.msg.is = "reply" => Acked(octet) \in Seq(Octet)
      BY <2>1, AckedType
    <3>2. inbox \in Seq(Octet)
      BY DEF PeerTypeOK
    <3>3. octet.msg.is = "reply" => inbox \o Acked(octet) \in Seq(Octet)
      BY <3>1, <3>2, ConcatProperties
    <3>. QED BY <2>2, <3>2, <3>3
  <2>5. (LoopTypeOK /\ Turns /\ Fresh)'
    BY <2>1, <2>2 DEF LoopTypeOK, Turns, Fresh, loops, port, upTask, downTask
  <2>6. (PortTypeOK /\ PeerTypeOK /\ TaskTypeOK)'
    BY <2>1, <2>2, <2>3, <2>4 DEF PortTypeOK, PeerTypeOK, TaskTypeOK, loops, port, upTask,
       downTask
  <2>. QED BY <2>5, <2>6
<1>6. CASE PeerLeaves
  <2>1. (LoopTypeOK /\ Turns /\ Fresh)'
    BY <1>6 DEF PeerLeaves, LoopTypeOK, Turns, Fresh, loops, port, upTask, downTask
  <2>2. (PortTypeOK /\ PeerTypeOK /\ TaskTypeOK)'
    BY <1>6 DEF PeerLeaves, PortTypeOK, PeerTypeOK, TaskTypeOK, loops, port, upTask, downTask
  <2>. QED BY <2>1, <2>2
<1>. QED BY <1>1, <1>2, <1>3, <1>4, <1>5, <1>6

LEMMA TypeStep ==
  ASSUME TypeParts, [Next]_vars
  PROVE  TypeParts'
<1>1. CASE UNCHANGED vars
  BY <1>1 DEF vars, loops, port, upTask, downTask, peer, TypeParts, LoopTypeOK, PortTypeOK,
     PeerTypeOK, TaskTypeOK, Turns, Fresh, Untold
<1>. QED BY <1>1, TypeLoop, TypeUp, TypeDown, TypeEnv DEF Next

LEMMA TypesAlways == Spec => []TypeParts
<1>1. TypeParts /\ [Next]_vars => TypeParts'
  BY TypeStep
<1>. QED BY <1>1, TypeInit, PTL DEF Spec

\* At all times the values are in their types, each task holds the lock only
\* while it has something to write behind it, and nothing outgrows its buffer
\* (run_session, bridge.rs:213-310).
THEOREM TypeCorrect == Spec => []TypeOK
BY TypesAlways, PartsAreTypes, PTL

-----------------------------------------------------------------------------
(* What a peer says reaches the port.                                      *)

\* While a session lasts, what its decoder has still to read leads it back to
\* data, and makes up what was meant and is not delivered.
StillDecodes ==
  loop \in {"offer", "session"} /\ down # "ended" =>
    /\ delivered \o (Bytes(downcells) \o Decode(telnet, inbox).data) = meant
    /\ Decode(telnet, inbox).telnet.state = "Data"

\* Of more to read that leads back to data, the decoder finds what it would alone.
LEMMA SaidMore ==
  ASSUME NEW t \in Decoder, NEW a \in Seq(Octet), NEW b \in Seq(Octet),
         NEW data, Decode(t, a).telnet.state = "Data",
         \A u \in Decoder : u.state = "Data" =>
           Decode(u, b).data = data /\ Decode(u, b).telnet.state = "Data"
  PROVE  /\ Decode(t, a \o b).data = Decode(t, a).data \o data
         /\ Decode(t, a \o b).telnet.state = "Data"
<1>1. Decode(t, a).telnet \in Decoder
  BY DecodeStep DEF Decoded
<1>2. /\ Decode(Decode(t, a).telnet, b).data = data
      /\ Decode(Decode(t, a).telnet, b).telnet.state = "Data"
  BY <1>1
<1>. QED BY <1>2, DecodeSplits

\* A saying is such.
LEMMA SayingDecodes ==
  ASSUME NEW s \in Sayings, NEW u \in Decoder, u.state = "Data"
  PROVE  Decode(u, s.bytes).data = s.data /\ Decode(u, s.bytes).telnet.state = "Data"
<1>1. /\ u = [state |-> "Data", cmd |-> u.cmd, agreed |-> u.agreed]
      /\ u.cmd \in Verbs /\ u.agreed \in [Slots -> BOOLEAN]
  BY DEF Decoder
<1>. QED BY <1>1, SayingsAssumption

\* A command about an option is such, and holds no data.
LEMMA CommandDecodes ==
  ASSUME NEW v \in Verbs, NEW o \in Octet, NEW u \in Decoder, u.state = "Data"
  PROVE  /\ Decode(u, <<IAC, v, o>>).data = << >>
         /\ Decode(u, <<IAC, v, o>>).telnet.state = "Data"
<1> DEFINE a == Append(<< >>, IAC)
           b == Append(a, v)
           c == Append(b, o)
           d0 == Start(u)
           d1 == DecodeByte(d0, IAC)
           d2 == DecodeByte(d1, v)
           d3 == DecodeByte(d2, o)
<1>0. Verbs \subseteq Octet /\ IAC \in Octet /\ IAC \notin Verbs /\ SB \notin Verbs
  BY DEF Verbs, WILL, WONT, DO, DONT, IAC, SB, Octet
<1>1. /\ a \in Seq(Octet) /\ b \in Seq(Octet) /\ << >> \in Seq(Octet)
      /\ c = <<IAC, v, o>>
  <2>1. /\ a \in Seq(Octet) /\ Len(a) = 1 /\ a[1] = IAC
        /\ << >> \in Seq(Octet)
    BY <1>0
  <2>0. \A q \in Seq(Octet), x \in Octet :
          /\ Append(q, x) \in Seq(Octet) /\ Len(Append(q, x)) = Len(q) + 1
          /\ Append(q, x)[Len(q) + 1] = x
          /\ \A i \in 1..Len(q) : Append(q, x)[i] = q[i]
    BY AppendProperties
  <2>2. /\ b \in Seq(Octet) /\ Len(b) = 2 /\ b[1] = IAC /\ b[2] = v
    <3> HIDE DEF a
    <3>1. v \in Octet /\ 1 \in 1..1 /\ 1 + 1 = 2
      BY <1>0
    <3>2. /\ b \in Seq(Octet) /\ Len(b) = Len(a) + 1 /\ b[Len(a) + 1] = v
          /\ \A i \in 1..Len(a) : b[i] = a[i]
      BY <2>0, <2>1, <3>1
    <3> HIDE DEF b
    <3>. QED BY <2>1, <3>1, <3>2
  <2>3. /\ c \in Seq(Octet) /\ Len(c) = 3 /\ c[1] = IAC /\ c[2] = v /\ c[3] = o
    <3> HIDE DEF b
    <3>1. 1 \in 1..2 /\ 2 \in 1..2 /\ 2 + 1 = 3
      OBVIOUS
    <3>2. /\ c \in Seq(Octet) /\ Len(c) = Len(b) + 1 /\ c[Len(b) + 1] = o
          /\ \A i \in 1..Len(b) : c[i] = b[i]
      BY <2>0, <2>2
    <3> HIDE DEF c
    <3>. QED BY <2>2, <3>1, <3>2
  <2> DEFINE w == <<IAC, v, o>>
  <2>4. w \in Seq(Octet) /\ Len(w) = 3 /\ w[1] = IAC /\ w[2] = v /\ w[3] = o
    BY <1>0
  <2> HIDE DEF a, b, c, w
  <2>5. c = w
    BY <2>3, <2>4, SeqEqual
  <2>. QED BY <2>1, <2>2, <2>5 DEF w
<1>2. Decode(u, c) = d3
  <2> HIDE DEF a, b, c, d0, d1, d2, d3
  <2>1. Decode(u, << >>) = d0
    BY DecodeStep DEF d0
  <2>2. Decode(u, a) = DecodeByte(Decode(u, << >>), IAC)
    BY <1>0, <1>1, DecodeStep DEF a
  <2>3. Decode(u, b) = DecodeByte(Decode(u, a), v)
    BY <1>0, <1>1, DecodeStep DEF b
  <2>4. Decode(u, c) = DecodeByte(Decode(u, b), o)
    BY <1>1, DecodeStep DEF c
  <2>. QED BY <2>1, <2>2, <2>3, <2>4 DEF d1, d2, d3
<1>3. d0 \in Decoded /\ d1 \in Decoded /\ d2 \in Decoded /\ d3 \in Decoded
  BY <1>0, StartType, ByteType
<1> HIDE DEF c, d1, d2, d3
<1>4. d0.telnet.state = "Data" /\ d0.data = << >>
  BY DEF Start
<1>5. d1.telnet.state = "Iac" /\ d1.data = << >>
  <2>1. d1 = [d0 EXCEPT !.telnet.state = "Iac"]
    BY <1>4 DEF DecodeByte, d1
  <2>2. d0 = [telnet |-> u, data |-> << >>, reply |-> << >>]
    BY DEF Start
  <2>. QED BY <2>1, <2>2 DEF Decoder
<1>6. d2.telnet.state = "Negotiate" /\ d2.data = << >>
  <2>1. d2 = [[d1 EXCEPT !.telnet.state = "Negotiate"] EXCEPT !.telnet.cmd = v]
    BY <1>0, <1>5 DEF DecodeByte, d2
  <2>2. d1 = [telnet |-> d1.telnet, data |-> d1.data, reply |-> d1.reply] /\ d1.telnet \in Decoder
    BY <1>3 DEF Decoded
  <2>3. d2 = [telnet |-> [[d1.telnet EXCEPT !.state = "Negotiate"] EXCEPT !.cmd = v],
              data |-> d1.data, reply |-> d1.reply]
    BY <2>1, <2>2
  <2>. QED BY <1>5, <2>2, <2>3 DEF Decoder
<1>7. d3.telnet.state = "Data" /\ d3.data = << >>
  <2> DEFINE word == Negotiate(d2.telnet, d2.telnet.cmd, o)
  <2>1. d3 = [d2 EXCEPT !.telnet = [word.telnet EXCEPT !.state = "Data"],
                        !.reply = IF word.reply = << >> THEN d2.reply
                                  ELSE Append(d2.reply, word.reply)]
    BY <1>6 DEF DecodeByte, d3
  <2>2. word.telnet \in Decoder
    BY <1>3, NegotiateType DEF Decoded, Decoder
  <2> HIDE DEF word
  <2>3. d3.telnet = [word.telnet EXCEPT !.state = "Data"] /\ d3.data = d2.data
    BY <1>3, <2>1 DEF Decoded
  <2>. QED BY <1>6, <2>2, <2>3 DEF Decoder
<1>. QED BY <1>1, <1>2, <1>7

\* Concatenations of bytes regrouped.
LEMMA OctetsRegrouped ==
  \A a, b, c \in Seq(Octet) : (a \o b) \o c = a \o (b \o c)
<1>1. Associative(Octet)
  BY Regrouped, Zenon
<1>. QED BY <1>1, Zenon DEF Associative

\* A step adds to what is to be read exactly what it adds to what was meant.
LEMMA SaidStep ==
  ASSUME TypeParts, StillDecodes, NEW b \in Seq(Octet), NEW data \in Seq(Octet),
         inbox' = inbox \o b, meant' = meant \o data,
         \A u \in Decoder : u.state = "Data" =>
           Decode(u, b).data = data /\ Decode(u, b).telnet.state = "Data",
         UNCHANGED <<loop, downTask>>
  PROVE  StillDecodes'
<1> SUFFICES ASSUME loop' \in {"offer", "session"} /\ down' # "ended"
             PROVE  /\ delivered' \o (Bytes(downcells') \o Decode(telnet', inbox').data) = meant'
                    /\ Decode(telnet', inbox').telnet.state = "Data"
  BY DEF StillDecodes
<1>1. /\ telnet \in Decoder /\ inbox \in Seq(Octet) /\ delivered \in Seq(Octet)
      /\ downcells \in Seq(Seq(Octet))
  BY DEF TypeParts, TaskTypeOK, PeerTypeOK
<1> DEFINE d == Decode(telnet, inbox).data
           c == Bytes(downcells)
<1>2. d \in Seq(Octet) /\ c \in Seq(Octet)
  BY <1>1, DecodeStep, FlatType DEF Decoded, Bytes
<1>3. /\ delivered \o (c \o d) = meant
      /\ Decode(telnet, inbox).telnet.state = "Data"
  BY DEF StillDecodes, downTask
<1>4. /\ Decode(telnet, inbox \o b).data = d \o data
      /\ Decode(telnet, inbox \o b).telnet.state = "Data"
  BY <1>1, <1>3, SaidMore
<1>5. UNCHANGED <<delivered, downcells, telnet>>
  BY DEF downTask
<1> HIDE DEF d, c
<1>6. c \o d \in Seq(Octet)
  BY <1>2, ConcatProperties
<1>7. c \o (d \o data) = (c \o d) \o data
  BY <1>2, OctetsRegrouped, Zenon
<1>8. delivered \o ((c \o d) \o data) = (delivered \o (c \o d)) \o data
  BY <1>1, <1>6, OctetsRegrouped, ZenonT(40)
<1>9. delivered \o (c \o (d \o data)) = meant \o data
  BY <1>3, <1>7, <1>8, Zenon
<1>. QED BY <1>4, <1>5, <1>9 DEF c

LEMMA DecodesStep ==
  ASSUME TypeParts, StillDecodes, [Next]_vars
  PROVE  StillDecodes'
<1>1. CASE Connect
  <2>1. /\ telnet' = New /\ inbox' = << >> /\ delivered' = << >> /\ meant' = << >>
        /\ downcells' = << >>
    BY <1>1 DEF Connect, TypeParts, Turns
  <2>2. Decode(New, << >>) = Start(New)
    BY NewType, DecodeStep
  <2>3. Bytes(<< >>) = << >>
    BY FlatEmpty DEF Bytes
  <2>4. << >> \o (<< >> \o << >>) = << >>
    BY EmptySeq, ConcatEmptySeq
  <2>5. Start(New).data = << >> /\ Start(New).telnet.state = "Data"
    BY DEF Start, New
  <2>. QED BY <2>1, <2>2, <2>3, <2>4, <2>5 DEF StillDecodes
<1>2. CASE Offer
  <2>1. down = "none" /\ UNCHANGED <<telnet, inbox, delivered, meant, downcells>>
    BY <1>2 DEF Offer, peer, TypeParts, Turns
  <2>. QED BY <1>2, <2>1 DEF Offer, StillDecodes
<1>3. CASE TakePristine \/ DrainReads \/ OfferFails \/ EndSession
  BY <1>3 DEF TakePristine, DrainReads, OfferFails, EndSession, StillDecodes, loops
<1>4. CASE Up
  BY <1>4 DEF Up, UpReads, UpSyncs, PollTick, UpLocks, UpWrites, UpFails, StillDecodes,
     loops, downTask, peer
<1>5. CASE DownReads
  <2> SUFFICES ASSUME loop' \in {"offer", "session"} /\ down' # "ended"
               PROVE  /\ delivered' \o (Bytes(downcells') \o Decode(telnet', inbox').data) = meant'
                      /\ Decode(telnet', inbox').telnet.state = "Data"
    BY DEF StillDecodes
  <2>1. PICK n \in 1..Least(ReadMax, Len(inbox)) :
          LET decoded == Decode(telnet, SubSeq(inbox, 1, n)) IN
            /\ inbox' = SubSeq(inbox, n + 1, Len(inbox))
            /\ telnet' = decoded.telnet
            /\ downcells' = Cells(decoded.data)
    BY <1>5 DEF DownReads
  <2>2. downcells = << >> /\ UNCHANGED <<loop, down, delivered, meant>>
    BY <1>5 DEF DownReads, Idle, loops, peer
  <2> DEFINE a == SubSeq(inbox, 1, n)
             b == SubSeq(inbox, n + 1, Len(inbox))
             first == Decode(telnet, a)
             rest == Decode(first.telnet, b)
  <2>3. /\ a \in Seq(Octet) /\ b \in Seq(Octet) /\ a \o b = inbox
        /\ first.telnet \in Decoder /\ first.data \in Seq(Octet) /\ telnet \in Decoder
    BY <2>1, DecodedRead DEF TypeParts, TaskTypeOK
  <2>4. inbox' = b /\ telnet' = first.telnet /\ downcells' = Cells(first.data)
    BY <2>1
  <2> HIDE DEF a, b
  <2>5. /\ Decode(telnet, inbox).telnet = rest.telnet
        /\ Decode(telnet, inbox).data = first.data \o rest.data
        /\ rest.data \in Seq(Octet)
    <3>1. rest \in Decoded
      BY <2>3, DecodeStep
    <3>. QED BY <2>3, <3>1, DecodeSplits DEF Decoded
  <2>6. Bytes(Cells(first.data)) = first.data /\ Bytes(<< >>) = << >>
    BY <2>3, CellsWhole, FlatEmpty DEF Bytes
  <2>7. /\ delivered \o (Bytes(downcells) \o Decode(telnet, inbox).data) = meant
        /\ Decode(telnet, inbox).telnet.state = "Data"
    BY <2>2 DEF StillDecodes
  <2> HIDE DEF first, rest
  <2>8. << >> \o (first.data \o rest.data) = first.data \o rest.data
    BY <2>3, <2>5, ConcatProperties, ConcatEmptySeq
  <2>. QED BY <2>2, <2>4, <2>5, <2>6, <2>7, <2>8 DEF rest
<1>6. CASE DownLocks \/ DownReplies
  BY <1>6 DEF DownLocks, DownReplies, StillDecodes, loops, downTask, peer
<1>7. CASE DownReplyFails \/ DownFails \/ DownEnds
  BY <1>7 DEF DownReplyFails, DownFails, DownEnds, StillDecodes
<1>8. CASE DownWrites
  <2> SUFFICES ASSUME loop' \in {"offer", "session"} /\ down' # "ended"
               PROVE  /\ delivered' \o (Bytes(downcells') \o Decode(telnet', inbox').data) = meant'
                      /\ Decode(telnet', inbox').telnet.state = "Data"
    BY DEF StillDecodes
  <2> DEFINE h == Head(downcells)
             k == Taken(h, pty)
             took == SubSeq(h, 1, k)
             left == CellsLeft(downcells, pty)
             d == Decode(telnet, inbox).data
  <2>1. /\ delivered' = delivered \o took /\ downcells' = left
        /\ UNCHANGED <<loop, down, telnet, inbox, meant>>
    BY <1>8 DEF DownWrites, loops, peer
  <2>2. /\ downcells \in Seq(Seq(Octet)) /\ downcells # << >> /\ pty \in Seq(Octet)
        /\ Len(pty) <= PtyBuf /\ delivered \in Seq(Octet) /\ telnet \in Decoder
        /\ inbox \in Seq(Octet) /\ h \in Seq(Octet)
    BY <1>8, HeadTailProperties DEF DownWrites, TypeParts, TaskTypeOK, PortTypeOK, PeerTypeOK
  <2>3. /\ took \in Seq(Octet) /\ left \in Seq(Seq(Octet)) /\ Bytes(left) \in Seq(Octet)
        /\ d \in Seq(Octet)
    <3>1. k \in 0..Len(h)
      BY <2>2, BytesAssumption, LenProperties DEF Taken, Room, Least
    <3>2. took \in Seq(Octet)
      BY <2>2, <3>1, CutInTwo
    <3>3. left \in Seq(Seq(Octet))
      BY <2>2, CellsLeftType
    <3>4. Bytes(left) \in Seq(Octet)
      BY <3>3, FlatType DEF Bytes
    <3>5. d \in Seq(Octet)
      BY <2>2, DecodeStep DEF Decoded
    <3>. QED BY <3>2, <3>3, <3>4, <3>5
  <2>4. took \o Bytes(left) = Bytes(downcells)
    BY <2>2, CellsTaken DEF Bytes
  <2>5. delivered \o (Bytes(downcells) \o d) = meant /\ Decode(telnet, inbox).telnet.state = "Data"
    BY <2>1 DEF StillDecodes
  <2> HIDE DEF took, left, d
  <2>6. Bytes(left) \o d \in Seq(Octet)
    BY <2>3, ConcatProperties
  <2>7. (delivered \o took) \o (Bytes(left) \o d) = delivered \o (took \o (Bytes(left) \o d))
    <3>1. delivered \in Seq(Octet) /\ took \in Seq(Octet)
      BY <2>2, <2>3
    <3>. QED BY <2>6, <3>1, OctetsRegrouped, Zenon
  <2>8. took \o (Bytes(left) \o d) = (took \o Bytes(left)) \o d
    BY <2>3, OctetsRegrouped, Zenon
  <2>. QED BY <2>1, <2>4, <2>5, <2>7, <2>8 DEF d
<1>9. CASE ConsumerTypes \/ ConsumerConfigures \/ ConsumerReads \/ PeerLeaves
  BY <1>9 DEF ConsumerTypes, ConsumerConfigures, ConsumerReads, PeerLeaves, StillDecodes,
     loops, downTask, peer
<1>10. CASE PeerSays
  <2>1. PICK s \in Sayings : inbox' = inbox \o s.bytes /\ meant' = meant \o s.data
    BY <1>10 DEF PeerSays
  <2>2. s.bytes \in Seq(Octet) /\ s.data \in Seq(Octet)
    BY SayingsAssumption
  <2>3. UNCHANGED <<loop, downTask>>
    BY <1>10 DEF PeerSays, loops
  <2>. QED BY <2>1, <2>2, <2>3, SayingDecodes, SaidStep
<1>11. CASE PeerReads
  <2> DEFINE octet == Head(outbox)
  <2>1. /\ \/ inbox' = inbox
           \/ octet.msg.is = "reply" /\ inbox' = inbox \o Acked(octet)
        /\ meant' = meant /\ UNCHANGED <<loop, downTask>>
    BY <1>11, Zenon DEF PeerReads, Acked, loops
  <2>2. CASE inbox' = inbox
    BY <2>1, <2>2 DEF StillDecodes, downTask
  <2>3. CASE octet.msg.is = "reply" /\ inbox' = inbox \o Acked(octet)
    <3>1. octet \in Unit
      BY <1>11, HeadTailProperties DEF PeerReads, TypeParts, PeerTypeOK
    <3> HIDE DEF octet
    <3>2. /\ octet.msg \in ReplyMsg /\ Acked(octet) \in Seq(Octet)
          /\ Answer(octet.msg.verb, octet.msg.verb \in {WILL, DO}) \in Verbs
      BY <2>3, <3>1, AckedType
    <3>3. \A u \in Decoder : u.state = "Data" =>
            /\ Decode(u, Acked(octet)).data = << >>
            /\ Decode(u, Acked(octet)).telnet.state = "Data"
      BY <3>2, CommandDecodes DEF Acked, ReplyMsg
    <3>4. meant' = meant \o << >> /\ << >> \in Seq(Octet)
      BY <2>1, ConcatEmptySeq DEF TypeParts, PeerTypeOK
    <3>. QED BY <2>1, <2>3, <3>2, <3>3, <3>4, SaidStep
  <2>. QED BY <2>1, <2>2, <2>3
<1>12. CASE UNCHANGED vars
  BY <1>12 DEF vars, loops, downTask, peer, StillDecodes
<1>. QED BY <1>1, <1>2, <1>3, <1>4, <1>5, <1>6, <1>7, <1>8, <1>9, <1>10, <1>11, <1>12
     DEF Next, Loop, Down

LEMMA DecodesAlways == Spec => []StillDecodes
<1>1. Init => StillDecodes
  BY DEF Init, StillDecodes
<1>2. TypeParts /\ StillDecodes /\ [Next]_vars => StillDecodes'
  BY DecodesStep
<1>. QED BY <1>1, <1>2, TypesAlways, PTL DEF Spec

\* Wherever the reads are cut and however little the port takes at a time, what
\* it got, is about to get and will get from the bytes still unread is the data
\* the peer meant (decode, rfc2217.rs:148-220; the session's reader, bridge.rs:327-368).
THEOREM PortGets == Spec => []PortGetsData
<1>1. TypeParts /\ StillDecodes => PortGetsData
  <2> SUFFICES ASSUME TypeParts, StillDecodes, loop = "session" /\ down = "running"
               PROVE  delivered \o Bytes(downcells) \o Decode(telnet, inbox).data = meant
    BY DEF PortGetsData
  <2> DEFINE d == Decode(telnet, inbox).data
             c == Bytes(downcells)
  <2>1. d \in Seq(Octet) /\ c \in Seq(Octet) /\ delivered \in Seq(Octet)
    BY DecodeStep, FlatType DEF Decoded, Bytes, TypeParts, TaskTypeOK, PeerTypeOK
  <2>2. delivered \o (c \o d) = meant
    BY DEF StillDecodes
  <2> HIDE DEF c, d
  <2>3. (delivered \o c) \o d = delivered \o (c \o d)
    BY <2>1, OctetsRegrouped, Zenon
  <2>. QED BY <2>2, <2>3 DEF c, d
<1>. QED BY <1>1, TypesAlways, DecodesAlways, PTL

-----------------------------------------------------------------------------
(* The peer reads whole messages.                                          *)

HeardPart == IF heard = NoOctet THEN << >> ELSE <<heard>>
Stream    == (HeardPart \o outbox) \o Pending

\* What waits to be written is whole messages, or the rest of them.
WorkWhole == /\ \A i \in 1..Len(upwork) : Joined(upwork[i]) /\ Closed(upwork[i])
             /\ Joined(reply) /\ Closed(reply)

StreamWhole == life # "gone" => Joined(Stream) /\ (loop = "session" => Closed(Stream))

\* The rest of whole messages goes on to their end.
LEMMA SuffixWhole ==
  ASSUME NEW a \in Seq(Unit), NEW b \in Seq(Unit), Joined(a \o b), Closed(a \o b)
  PROVE  Joined(b) /\ Closed(b)
BY JoinedParts, ClosedConcat

LEMMA CellsLeftWhole ==
  ASSUME NEW cells \in Seq(Seq(Unit)), cells # << >>,
         \A i \in 1..Len(cells) : Joined(cells[i]) /\ Closed(cells[i]),
         NEW buffer \in Seq(Unit), Len(buffer) <= PtyBuf
  PROVE  LET left == CellsLeft(cells, buffer)
         IN  \A i \in 1..Len(left) : Joined(left[i]) /\ Closed(left[i])
<1> DEFINE h == Head(cells)
           t == Tail(cells)
           k == Taken(h, buffer)
           rest == Unwritten(h, buffer)
           left == CellsLeft(cells, buffer)
<1>1. /\ h \in Seq(Unit) /\ t \in Seq(Seq(Unit)) /\ Len(cells) \in Nat \ {0} /\ h = cells[1]
      /\ Len(t) = Len(cells) - 1 /\ \A i \in 1..Len(t) : t[i] = cells[i + 1]
  BY HeadTailProperties, EmptySeq
<1>2. \A i \in 1..Len(t) : Joined(t[i]) /\ Closed(t[i])
  BY <1>1
<1>3. Joined(h) /\ Closed(h)
  BY <1>1
<1>4. rest \in Seq(Unit) /\ Joined(rest) /\ Closed(rest)
  <2>1. k \in 0..Len(h)
    BY <1>1, BytesAssumption, LenProperties DEF Taken, Room, Least
  <2>2. /\ SubSeq(h, 1, k) \in Seq(Unit) /\ rest \in Seq(Unit)
        /\ SubSeq(h, 1, k) \o rest = h
    BY <1>1, <2>1, CutInTwo DEF Unwritten
  <2>. QED BY <1>3, <2>2, SuffixWhole
<1>5. CASE rest = << >>
  <2>1. left = t
    BY <1>5 DEF CellsLeft
  <2>. QED BY <1>2, <2>1
<1>6. CASE rest # << >>
  <2>1. left = <<rest>> \o t
    BY <1>6 DEF CellsLeft
  <2> HIDE DEF left, rest, t
  <2>2. <<rest>> \in Seq(Seq(Unit)) /\ Len(<<rest>>) = 1 /\ <<rest>>[1] = rest
    BY <1>4
  <2>3. /\ Len(left) = 1 + Len(t) /\ left[1] = rest /\ Len(t) \in Nat
        /\ \A i \in 1..Len(t) : left[1 + i] = t[i]
    BY <1>1, <2>1, <2>2, ConcatProperties, LenProperties
  <2>4. SUFFICES ASSUME NEW i \in 1..Len(left) PROVE Joined(left[i]) /\ Closed(left[i])
    BY DEF left
  <2>5. CASE i = 1
    BY <1>4, <2>3, <2>5
  <2>6. CASE i # 1
    <3>1. i - 1 \in 1..Len(t) /\ 1 + (i - 1) = i
      BY <2>3, <2>6
    <3>. QED BY <1>2, <2>3, <3>1
  <2>. QED BY <2>5, <2>6
<1>. QED BY <1>5, <1>6

\* What is relayed: nothing, or the commands for what changed as one piece.
LEMMA RelayedShape ==
  ASSUME PortTypeOK, last \in Setting
  PROVE  LET s == CommandsTo(last, Config)
         IN  /\ s \in Seq(Msg) /\ ToSet(s) \subseteq SetMsg
             /\ Framed(s) \in Seq(Unit)
             /\ Relayed = << >> \/ Relayed = <<Framed(s)>>
<1>1. Config \in Setting
  BY ConfigType
<1>2. CommandsTo(last, Config) \in Seq(SetMsg)
  BY <1>1, CommandsType
<1>3. CommandsTo(last, Config) \in Seq(Msg) /\ ToSet(CommandsTo(last, Config)) \subseteq SetMsg
  <2>1. SetMsg \subseteq Msg
    BY DEF Msg
  <2>. QED BY <1>2, <2>1, SeqMonotonic, ToSetType
<1>. QED BY <1>3, FramedStep DEF Relayed

LEMMA WorkStep ==
  ASSUME TypeParts, TypeParts', WorkWhole, [Next]_vars
  PROVE  WorkWhole'
<1>0. ASSUME UNCHANGED <<upwork, reply>> PROVE WorkWhole'
  BY <1>0 DEF WorkWhole
<1>1. Joined(<< >>) /\ Closed(<< >>) /\ Len(<< >>) = 0
  BY DEF Joined, Closed
<1>2. CASE TakePristine \/ DrainReads \/ Offer \/ OfferFails \/ Connect
  BY <1>0, <1>2 DEF TakePristine, DrainReads, Offer, OfferFails, Connect, upTask, downTask
<1>3. CASE EndSession
  BY <1>1, <1>3 DEF EndSession, WorkWhole
<1>4. CASE UpReads \/ UpLocks
  BY <1>0, <1>4 DEF UpReads, UpLocks, upTask, downTask
<1>5. CASE UpSyncs \/ PollTick
  <2>1. PortTypeOK /\ last \in Setting
    BY <1>5 DEF UpSyncs, PollTick, TypeParts, Turns, LoopTypeOK
  <2> DEFINE s == CommandsTo(last, Config)
  <2>2. s \in Seq(Msg) /\ (Relayed = << >> \/ Relayed = <<Framed(s)>>) /\ Framed(s) \in Seq(Unit)
    BY <2>1, RelayedShape
  <2>3. Joined(Framed(s)) /\ Closed(Framed(s))
    BY <2>2, FramedJoined
  <2> HIDE DEF s
  <2>4. /\ Relayed \in Seq(Seq(Unit))
        /\ \A i \in 1..Len(Relayed) : Joined(Relayed[i]) /\ Closed(Relayed[i])
    <3>1. CASE Relayed = << >>
      BY <3>1
    <3>2. CASE Relayed = <<Framed(s)>>
      <4>1. Relayed \in Seq(Seq(Unit)) /\ Len(Relayed) = 1 /\ Relayed[1] = Framed(s)
        BY <2>2, <3>2
      <4>2. \A i \in 1..Len(Relayed) : Relayed[i] = Framed(s)
        BY <4>1
      <4>. QED BY <2>3, <4>1, <4>2
    <3>. QED BY <2>2, <3>1, <3>2
  <2>5. CASE PollTick
    BY <2>4, <2>5 DEF PollTick, WorkWhole, downTask
  <2>6. CASE UpSyncs
    <3> DEFINE f == FramedCells(upread)
    <3>1. upwork' = Relayed \o f /\ reply' = reply
      BY <2>6 DEF UpSyncs, FramedCells, downTask
    <3>2. upread \in Seq(Seq(Msg))
      <4>1. Seq(DataMsg) \subseteq Seq(Msg)
        BY SeqMonotonic DEF Msg
      <4>2. upread \in Seq(Seq(DataMsg))
        BY DEF TypeParts, TaskTypeOK
      <4>. QED BY <4>1, <4>2, SeqMonotonic
    <3>3. /\ f \in Seq(Seq(Unit)) /\ Len(f) = Len(upread)
          /\ \A i \in 1..Len(f) : f[i] = Framed(upread[i]) /\ upread[i] \in Seq(Msg)
      BY <3>2, FramedCellsShape, ElementOfSeq
    <3>4. \A i \in 1..Len(f) : Joined(f[i]) /\ Closed(f[i])
      BY <3>3, FramedJoined
    <3> DEFINE w == Relayed \o f
    <3> HIDE DEF f
    <3>5. /\ Len(w) = Len(Relayed) + Len(f) /\ Len(Relayed) \in Nat /\ Len(f) \in Nat
          /\ \A i \in 1..Len(Relayed) : w[i] = Relayed[i]
          /\ \A i \in 1..Len(f) : w[Len(Relayed) + i] = f[i]
      <4>1. Relayed \in Seq(Seq(Unit)) /\ f \in Seq(Seq(Unit))
        BY <2>4, <3>3
      <4>. QED BY <4>1, ConcatProperties, LenProperties
    <3> HIDE DEF w
    <3>6. ASSUME NEW i \in 1..Len(w) PROVE Joined(w[i]) /\ Closed(w[i])
      <4>1. CASE i <= Len(Relayed)
        BY <2>4, <3>5, <4>1
      <4>2. CASE i > Len(Relayed)
        <5>1. i - Len(Relayed) \in 1..Len(f) /\ Len(Relayed) + (i - Len(Relayed)) = i
          BY <3>5, <4>2
        <5>. QED BY <3>4, <3>5, <5>1
      <4>. QED BY <3>5, <4>1, <4>2
    <3>. QED BY <3>1, <3>6 DEF WorkWhole, w
  <2>. QED BY <1>5, <2>5, <2>6
<1>6. CASE UpWrites
  <2>1. /\ upwork' = CellsLeft(upwork, outbox) /\ reply' = reply
        /\ upwork \in Seq(Seq(Unit)) /\ upwork # << >>
        /\ outbox \in Seq(Unit) /\ Len(outbox) <= PtyBuf
    BY <1>6 DEF UpWrites, downTask, TypeParts, TaskTypeOK, PeerTypeOK, Turns
  <2>2. \A i \in 1..Len(upwork') : Joined(upwork'[i]) /\ Closed(upwork'[i])
    BY <2>1, CellsLeftWhole DEF WorkWhole
  <2>. QED BY <2>1, <2>2 DEF WorkWhole
<1>7. CASE UpFails
  BY <1>1, <1>7 DEF UpFails, downTask, WorkWhole
<1>8. CASE DownReads
  <2>1. PICK n \in 1..Least(ReadMax, Len(inbox)) :
          LET decoded == Decode(telnet, SubSeq(inbox, 1, n)) IN
            reply' = Framed([i \in DOMAIN decoded.reply |-> Reply(decoded.reply[i])])
    BY <1>8 DEF DownReads
  <2> DEFINE words == Decode(telnet, SubSeq(inbox, 1, n)).reply
  <2>2. words \in Seq(Word)
    BY DecodedRead
  <2>3. reply' = Framed([i \in DOMAIN words |-> Reply(words[i])])
    BY <2>1
  <2> HIDE DEF words
  <2>4. Joined(reply') /\ Closed(reply')
    BY <2>2, <2>3, RepliesType
  <2>. QED BY <1>8, <2>4 DEF DownReads, upTask, WorkWhole
<1>9. CASE DownReplies
  <2>1. /\ reply' = Unwritten(reply, outbox) /\ upwork' = upwork /\ reply \in Seq(Unit)
        /\ outbox \in Seq(Unit) /\ Len(outbox) <= PtyBuf
    <3>1. ReplyUnit \subseteq Unit
      BY DEF ReplyUnit, Unit, Msg
    <3>. QED BY <1>9, <3>1, SeqMonotonic DEF DownReplies, upTask, TypeParts, TaskTypeOK, PeerTypeOK
  <2> DEFINE k == Taken(reply, outbox)
  <2>2. k \in 0..Len(reply)
    BY <2>1, BytesAssumption, LenProperties DEF Taken, Room, Least
  <2> DEFINE a == SubSeq(reply, 1, k)
             b == Unwritten(reply, outbox)
  <2>3. a \in Seq(Unit) /\ b \in Seq(Unit) /\ a \o b = reply
    BY <2>1, <2>2, CutInTwo DEF Unwritten
  <2> HIDE DEF a, b
  <2>4. Joined(a \o b) /\ Closed(a \o b)
    BY <2>3 DEF WorkWhole
  <2>5. Joined(b) /\ Closed(b)
    BY <2>3, <2>4, SuffixWhole
  <2>. QED BY <2>1, <2>5 DEF WorkWhole, b
<1>10. CASE DownReplyFails
  BY <1>1, <1>10 DEF DownReplyFails, upTask, WorkWhole
<1>11. CASE DownLocks \/ DownWrites \/ DownFails \/ DownEnds
  BY <1>0, <1>11 DEF DownLocks, DownWrites, DownFails, DownEnds, upTask, downTask
<1>12. CASE ConsumerTypes \/ ConsumerConfigures \/ ConsumerReads \/ PeerSays \/ PeerReads
              \/ PeerLeaves
  BY <1>0, <1>12 DEF ConsumerTypes, ConsumerConfigures, ConsumerReads, PeerSays, PeerReads,
     PeerLeaves, upTask, downTask
<1>13. CASE UNCHANGED vars
  BY <1>0, <1>13 DEF vars, upTask, downTask
<1>. QED BY <1>2, <1>3, <1>4, <1>5, <1>6, <1>7, <1>8, <1>9, <1>10, <1>11, <1>12, <1>13
     DEF Next, Loop, Up, Down

\* The parts of the stream are octets.
LEMMA StreamType ==
  ASSUME TypeParts
  PROVE  /\ HeardPart \in Seq(Unit) /\ outbox \in Seq(Unit) /\ Pending \in Seq(Unit)
         /\ HeardPart \o outbox \in Seq(Unit) /\ Stream \in Seq(Unit)
         /\ reply \in Seq(Unit)
<1>1. HeardPart \in Seq(Unit) /\ outbox \in Seq(Unit)
  BY DEF TypeParts, PeerTypeOK, HeardPart
<1>2. reply \in Seq(Unit)
  <2>1. ReplyUnit \subseteq Unit
    BY DEF ReplyUnit, Unit, Msg
  <2>. QED BY <2>1, SeqMonotonic DEF TypeParts, TaskTypeOK
<1>3. lock = "up" => Head(upwork) \in Seq(Unit)
  BY HeadTailProperties DEF TypeParts, TaskTypeOK, Turns
<1>4. Pending \in Seq(Unit)
  <2> DEFINE a == IF lock = "down" THEN reply ELSE << >>
             b == IF lock = "up" THEN Head(upwork) ELSE << >>
  <2>1. a \in Seq(Unit) /\ b \in Seq(Unit)
    BY <1>2, <1>3
  <2>. QED BY <2>1, ConcatProperties DEF Pending
<1>. QED BY <1>1, <1>2, <1>4, ConcatProperties DEF Stream

\* What is being written, by who writes.
LEMMA PendingIs ==
  ASSUME TypeParts
  PROVE  Pending = IF lock = "down" THEN reply ELSE IF lock = "up" THEN Head(upwork) ELSE << >>
<1>1. reply \in Seq(Unit)
  BY StreamType
<1>2. lock = "up" => Head(upwork) \in Seq(Unit)
  BY HeadTailProperties DEF TypeParts, TaskTypeOK, Turns
<1>3. << >> \o << >> = << >>
  OBVIOUS
<1>4. reply \o << >> = reply
  BY <1>1, ConcatEmptySeq
<1>5. lock = "up" => << >> \o Head(upwork) = Head(upwork)
  BY <1>2, ConcatEmptySeq
<1>. QED BY <1>3, <1>4, <1>5 DEF Pending

\* A write moves octets from what is being written to the connection.
LEMMA WriteStep ==
  ASSUME TypeParts, TypeParts', UpWrites \/ DownReplies
  PROVE  outbox' \o Pending' = outbox \o Pending
<1>0. /\ outbox \in Seq(Unit) /\ Len(outbox) <= PtyBuf /\ upwork \in Seq(Seq(Unit))
      /\ reply \in Seq(Unit)
  BY StreamType DEF TypeParts, PeerTypeOK, TaskTypeOK
<1>1. Pending' = IF lock' = "down" THEN reply' ELSE IF lock' = "up" THEN Head(upwork') ELSE << >>
  <2>1. (TypeParts => Pending = IF lock = "down" THEN reply
                                ELSE IF lock = "up" THEN Head(upwork) ELSE << >>)'
    BY PendingIs, PTL
  <2>. QED BY <2>1
<1>2. CASE UpWrites
  <2> DEFINE h == Head(upwork)
             rest == Unwritten(h, outbox)
             full == Filled(outbox, h)
  <2>1. /\ lock = "up" /\ upwork # << >> /\ h \in Seq(Unit) /\ Tail(upwork) \in Seq(Seq(Unit))
    BY <1>0, <1>2, HeadTailProperties DEF UpWrites, TypeParts, Turns
  <2>2. /\ outbox' = full /\ upwork' = CellsLeft(upwork, outbox)
        /\ lock' = IF rest = << >> THEN "free" ELSE "up"
    BY <1>2 DEF UpWrites
  <2>3. full \in Seq(Unit) /\ rest \in Seq(Unit) /\ full \o rest = outbox \o h
    BY <1>0, <2>1, WriteSplits
  <2>4. Pending = h
    BY <2>1, PendingIs
  <2>5. Pending' = rest
    <3>1. CASE rest = << >>
      BY <1>1, <2>2, <3>1
    <3>2. CASE rest # << >>
      <4>1. upwork' = <<rest>> \o Tail(upwork)
        BY <2>2, <3>2 DEF CellsLeft
      <4> HIDE DEF rest
      <4>2. <<rest>> \in Seq(Seq(Unit)) /\ Len(<<rest>>) = 1 /\ <<rest>>[1] = rest
        BY <2>3
      <4> DEFINE x == <<rest>>
                 y == Tail(upwork)
      <4>3. x \in Seq(Seq(Unit)) /\ y \in Seq(Seq(Unit)) /\ Len(x) = 1 /\ x[1] = rest
        BY <2>1, <4>2
      <4> HIDE DEF x, y
      <4>4. x \o y \in Seq(Seq(Unit)) /\ (x \o y)[1] = rest /\ x \o y # << >>
        <5>1. 1 \in 1..Len(x) /\ Len(y) \in Nat
          BY <4>3, LenProperties
        <5>2. /\ x \o y \in Seq(Seq(Unit)) /\ Len(x \o y) = Len(x) + Len(y)
              /\ \A i \in 1..Len(x) : (x \o y)[i] = x[i]
          <6>1. x \in Seq(Seq(Unit)) /\ y \in Seq(Seq(Unit))
            BY <4>3
          <6>. QED BY <6>1, ConcatProperties
        <5>3. (x \o y)[1] = rest /\ Len(x \o y) # 0
          BY <4>3, <5>1, <5>2
        <5>. QED BY <5>2, <5>3, EmptySeq
      <4>5. Head(x \o y) = rest
        BY <4>4, HeadTailProperties
      <4>. QED BY <1>1, <2>2, <3>2, <4>1, <4>5 DEF x, y
    <3>. QED BY <3>1, <3>2
  <2>. QED BY <2>2, <2>3, <2>4, <2>5
<1>3. CASE DownReplies
  <2> DEFINE rest == Unwritten(reply, outbox)
             full == Filled(outbox, reply)
  <2>1. /\ lock = "down" /\ outbox' = full /\ reply' = rest
        /\ lock' = IF rest = << >> THEN "free" ELSE "down"
    BY <1>3 DEF DownReplies
  <2>2. full \in Seq(Unit) /\ rest \in Seq(Unit) /\ full \o rest = outbox \o reply
    BY <1>0, WriteSplits
  <2>3. Pending = reply
    BY <2>1, PendingIs
  <2>4. Pending' = rest
    BY <1>1, <2>1
  <2>. QED BY <2>1, <2>2, <2>3, <2>4
<1>. QED BY <1>2, <1>3

LEMMA UnitsRegrouped ==
  \A a, b, c \in Seq(Unit) : (a \o b) \o c = a \o (b \o c)
<1>1. Associative(Unit)
  BY Regrouped, Zenon
<1>. QED BY <1>1, Zenon DEF Associative

\* What the peer reads was at the front of the stream.
LEMMA ReadStep ==
  ASSUME TypeParts, TypeParts', PeerReads
  PROVE  /\ HeardPart' = <<Head(outbox)>> /\ HeardPart' \o outbox' = outbox
         /\ HeardPart \o outbox = HeardPart \o (HeardPart' \o outbox')
         /\ Pending' = Pending /\ Stream = HeardPart \o Stream'
<1>1. /\ outbox \in Seq(Unit) /\ outbox # << >> /\ heard' = Head(outbox)
      /\ outbox' = Tail(outbox) /\ Pending' = Pending
  BY DEF PeerReads, TypeParts, PeerTypeOK, Pending, upTask, downTask
<1>2. Head(outbox) \in Unit /\ outbox = <<Head(outbox)>> \o Tail(outbox)
  <2>1. /\ Head(outbox) \in Unit /\ Head(outbox) = outbox[1] /\ Tail(outbox) \in Seq(Unit)
        /\ Len(outbox) \in Nat \ {0} /\ Len(Tail(outbox)) = Len(outbox) - 1
        /\ \A i \in 1..Len(Tail(outbox)) : Tail(outbox)[i] = outbox[i + 1]
    BY <1>1, HeadTailProperties, EmptySeq
  <2> DEFINE x == <<Head(outbox)>>
             y == Tail(outbox)
  <2>2. x \in Seq(Unit) /\ Len(x) = 1 /\ x[1] = outbox[1]
    BY <2>1
  <2> HIDE DEF x, y
  <2>3. /\ x \o y \in Seq(Unit) /\ Len(x \o y) = Len(outbox)
        /\ (x \o y)[1] = outbox[1]
        /\ \A i \in 1..Len(y) : (x \o y)[1 + i] = outbox[i + 1]
    <3>1. y \in Seq(Unit) /\ 1 \in 1..Len(x)
      BY <2>1, <2>2 DEF y
    <3>2. /\ x \o y \in Seq(Unit) /\ Len(x \o y) = Len(x) + Len(y)
          /\ \A i \in 1..Len(x) : (x \o y)[i] = x[i]
          /\ \A i \in 1..Len(y) : (x \o y)[Len(x) + i] = y[i]
      BY <2>2, <3>1, ConcatProperties
    <3>. QED BY <2>1, <2>2, <3>1, <3>2 DEF y
  <2>4. \A i \in 1..Len(outbox) : (x \o y)[i] = outbox[i]
    <3>1. SUFFICES ASSUME NEW i \in 1..Len(outbox), i # 1 PROVE (x \o y)[i] = outbox[i]
      BY <2>3
    <3>2. i - 1 \in 1..Len(y) /\ 1 + (i - 1) = i /\ (i - 1) + 1 = i
      BY <2>1, <3>1 DEF y
    <3>. QED BY <2>3, <3>2
  <2>5. x \o y = outbox
    BY <1>1, <2>3, <2>4, SeqEqual
  <2>. QED BY <2>1, <2>5 DEF x, y
<1>3. HeardPart' = <<Head(outbox)>>
  <2>1. Head(outbox) # NoOctet
    BY <1>2 DEF Unit, Msg, DataMsg, SetMsg, ReplyMsg, NoOctet
  <2>. QED BY <1>1, <2>1 DEF HeardPart
<1>4. HeardPart' \o outbox' = outbox
  BY <1>1, <1>2, <1>3
<1>5. HeardPart \in Seq(Unit) /\ Pending \in Seq(Unit) /\ outbox \in Seq(Unit)
  BY StreamType
<1>6. (HeardPart \o outbox) \o Pending = HeardPart \o (outbox \o Pending)
  BY <1>5, UnitsRegrouped, Zenon
<1>7. Stream' = outbox \o Pending
  BY <1>1, <1>4, Zenon DEF Stream
<1>. QED BY <1>1, <1>3, <1>4, <1>6, <1>7 DEF Stream

LEMMA StreamStep ==
  ASSUME TypeParts, TypeParts', WorkWhole, StreamWhole, [Next]_vars
  PROVE  StreamWhole'
<1>0. /\ HeardPart \in Seq(Unit) /\ outbox \in Seq(Unit) /\ Pending \in Seq(Unit)
      /\ HeardPart \o outbox \in Seq(Unit) /\ Stream \in Seq(Unit)
  BY StreamType
<1>1. ASSUME Stream' = Stream, loop' = "session" => loop = "session",
             life' # "gone" => life # "gone"
      PROVE  StreamWhole'
  BY <1>1 DEF StreamWhole
<1>2. ASSUME UNCHANGED <<heard, outbox, Pending, loop>>, life' # "gone" => life # "gone"
      PROVE  StreamWhole'
  BY <1>1, <1>2 DEF Stream, HeardPart
<1>3. ASSUME UNCHANGED <<heard, outbox, upwork, reply, lock, loop>>,
             life' # "gone" => life # "gone"
      PROVE  StreamWhole'
  BY <1>2, <1>3 DEF Pending
<1>4. ASSUME life' = "gone" PROVE StreamWhole'
  BY <1>4 DEF StreamWhole
<1>5. CASE TakePristine \/ OfferFails \/ EndSession
  BY <1>4, <1>5 DEF TakePristine, OfferFails, EndSession, peer, TypeParts, Turns
<1>6. CASE DrainReads \/ UpReads
  BY <1>3, <1>6 DEF DrainReads, UpReads, loops, upTask, downTask, peer
<1>7. CASE Connect
  <2>1. up = "none" /\ down = "none" /\ reply = << >>
    BY <1>7 DEF Connect, TypeParts, Turns
  <2>2. lock # "up" /\ lock # "down"
    BY <2>1 DEF TypeParts, Turns
  <2>3. Pending' = << >>
    BY <1>7, <2>2 DEF Connect, Pending
  <2>4. HeardPart' = << >> /\ outbox' = << >>
    BY <1>7 DEF Connect, HeardPart
  <2>5. Stream' = << >>
    BY <2>3, <2>4 DEF Stream
  <2>. QED BY <2>5 DEF StreamWhole, Joined, Closed
<1>8. CASE Offer
  <2> DEFINE m == [is |-> "offer"]
  <2>1. m \in Msg
    BY DEF Msg
  <2>2. Octets(m) \in Seq(Unit) /\ Joined(Octets(m)) /\ Closed(Octets(m))
    BY <2>1, OctetsShape, OctetsJoined
  <2>3. heard' = NoOctet /\ outbox' = Octets(m) /\ lock' = lock /\ up = "none" /\ reply = << >>
    BY <1>8 DEF Offer, peer, TypeParts, Fresh, Turns
  <2>4. lock # "up" /\ lock # "down"
    BY <2>3 DEF TypeParts, Turns
  <2> HIDE DEF m
  <2>5. HeardPart' = << >> /\ Pending' = << >>
    BY <2>3, <2>4 DEF HeardPart, Pending
  <2>6. Stream' = Octets(m)
    <3>1. (<< >> \o Octets(m)) \o << >> = Octets(m)
      BY <2>2, ConcatEmptySeq
    <3>. QED BY <2>3, <2>5, <3>1 DEF Stream
  <2>. QED BY <2>2, <2>6 DEF StreamWhole
<1>9. CASE UpSyncs \/ PollTick
  <2>1. lock # "up" /\ lock' = lock /\ reply' = reply
    BY <1>9 DEF UpSyncs, PollTick, downTask, TypeParts, Turns
  <2>2. Pending' = Pending
    BY <2>1 DEF Pending
  <2>. QED BY <1>2, <1>9, <2>2 DEF UpSyncs, PollTick, loops, peer
<1>10. CASE UpLocks \/ DownLocks
  <2>1. /\ lock = "free" /\ UNCHANGED <<heard, outbox, upwork, reply, loop, life>>
        /\ lock' \in {"up", "down"} /\ (lock' = "up" => upwork # << >>)
    BY <1>10 DEF UpLocks, DownLocks, loops, upTask, downTask, peer, TypeParts, Turns
  <2>2. Pending = << >>
    BY <2>1, PendingIs
  <2>3. Pending' = IF lock' = "down" THEN reply ELSE Head(upwork)
    <3>1. (TypeParts => Pending = IF lock = "down" THEN reply
                                  ELSE IF lock = "up" THEN Head(upwork) ELSE << >>)'
      BY PendingIs, PTL
    <3>. QED BY <2>1, <3>1
  <2> DEFINE b == HeardPart \o outbox
  <2>4. Stream = b /\ b \in Seq(Unit)
    BY <1>0, <2>2, ConcatEmptySeq DEF Stream
  <2>5. Stream' = b \o Pending'
    BY <2>1 DEF Stream, HeardPart
  <2>6. Joined(Pending') /\ Closed(Pending')
    <3>1. CASE lock' = "down"
      BY <2>3, <3>1 DEF WorkWhole
    <3>2. CASE lock' = "up"
      <4>1. upwork \in Seq(Seq(Unit)) /\ upwork # << >>
        BY <2>1, <3>2 DEF TypeParts, TaskTypeOK
      <4>2. Head(upwork) = upwork[1] /\ 1 \in 1..Len(upwork)
        BY <4>1, HeadTailProperties, EmptySeq
      <4>. QED BY <2>3, <3>2, <4>2 DEF WorkWhole
    <3>. QED BY <2>1, <3>1, <3>2
  <2>7. Pending' \in Seq(Unit)
    <3>1. (TypeParts => Pending \in Seq(Unit))'
      BY StreamType, PTL
    <3>. QED BY <3>1
  <2>8. loop = "session"
    BY <1>10 DEF UpLocks, DownLocks, TypeParts, Turns
  <2> DEFINE p == Pending'
  <2> HIDE DEF b, p
  <2>9. ASSUME Joined(b), Closed(b) PROVE Joined(b \o p) /\ Closed(b \o p)
    BY <2>4, <2>6, <2>7, <2>9, JoinedConcat, ClosedConcat DEF p
  <2>. QED BY <2>1, <2>4, <2>5, <2>8, <2>9 DEF StreamWhole, p
<1>11. CASE UpWrites \/ DownReplies
  <2>1. outbox' \o Pending' = outbox \o Pending
    BY <1>11, WriteStep
  <2>2. UNCHANGED <<heard, loop, life>>
    BY <1>11 DEF UpWrites, DownReplies, loops, peer
  <2>3. outbox' \in Seq(Unit) /\ Pending' \in Seq(Unit)
    <3>1. (TypeParts => outbox \in Seq(Unit) /\ Pending \in Seq(Unit))'
      BY StreamType, PTL
    <3>. QED BY <3>1
  <2> DEFINE o == outbox'
             p == Pending'
             h == HeardPart
  <2>4. Stream' = (h \o o) \o p
    BY <2>2 DEF Stream, HeardPart
  <2>5. Stream = (h \o outbox) \o Pending
    BY DEF Stream
  <2>6. o \in Seq(Unit) /\ p \in Seq(Unit) /\ h \in Seq(Unit)
    BY <1>0, <2>3
  <2>7. o \o p = outbox \o Pending
    BY <2>1
  <2> HIDE DEF o, p, h
  <2>8. (h \o o) \o p = h \o (o \o p)
    BY <2>6, UnitsRegrouped, Zenon
  <2>9. (h \o outbox) \o Pending = h \o (outbox \o Pending)
    <3>1. outbox \in Seq(Unit) /\ Pending \in Seq(Unit)
      BY <1>0
    <3>. QED BY <2>6, <3>1, UnitsRegrouped, Zenon
  <2>10. Stream' = Stream
    BY <2>4, <2>5, <2>7, <2>8, <2>9, Zenon
  <2>. QED BY <1>1, <2>2, <2>10
<1>12. CASE UpFails \/ DownReplyFails
  BY <1>4, <1>12 DEF UpFails, DownReplyFails, peer
<1>13. CASE DownReads
  <2>1. reply = << >> /\ UNCHANGED <<heard, outbox, upwork, lock, loop, life>>
    BY <1>13 DEF DownReads, Idle, loops, upTask, peer
  <2>2. lock # "down"
    BY <2>1 DEF TypeParts, Turns
  <2>3. Pending' = Pending
    BY <2>1, <2>2 DEF Pending
  <2>. QED BY <1>2, <2>1, <2>3
<1>14. CASE DownWrites \/ DownFails \/ DownEnds
  BY <1>3, <1>14 DEF DownWrites, DownFails, DownEnds, loops, upTask, peer
<1>15. CASE ConsumerTypes \/ ConsumerConfigures \/ ConsumerReads \/ PeerSays \/ PeerLeaves
  BY <1>3, <1>15 DEF ConsumerTypes, ConsumerConfigures, ConsumerReads, PeerSays,
     PeerLeaves, loops, upTask, downTask, peer
<1>16. CASE PeerReads
  <2>1. Stream = HeardPart \o Stream' /\ UNCHANGED <<loop, life>>
    BY <1>16, ReadStep DEF PeerReads, loops
  <2>2. Stream' \in Seq(Unit)
    <3>1. (TypeParts => Stream \in Seq(Unit))'
      BY StreamType, PTL
    <3>. QED BY <3>1
  <2> DEFINE x == Stream'
             h == HeardPart
  <2>3. x \in Seq(Unit) /\ h \in Seq(Unit) /\ Stream = h \o x
    BY <1>0, <2>1, <2>2
  <2> HIDE DEF x, h
  <2>4. /\ Joined(Stream) => Joined(x)
        /\ Closed(Stream) => Closed(x)
    BY <2>3, JoinedParts, ClosedConcat
  <2>. QED BY <2>1, <2>4 DEF StreamWhole, x
<1>17. CASE UNCHANGED vars
  BY <1>3, <1>17 DEF vars, loops, upTask, downTask, peer
<1>. QED BY <1>5, <1>6, <1>7, <1>8, <1>9, <1>10, <1>11, <1>12, <1>13, <1>14, <1>15, <1>16,
     <1>17 DEF Next, Loop, Up, Down

-----------------------------------------------------------------------------
(* Typed bytes keep their order.                                           *)

\* The last octet of a typed byte is the one that stands for it.
EndOf(m) == [msg |-> m, left |-> 0]

LEMMA DataOfOctets ==
  ASSUME NEW m \in DataMsg
  PROVE  EndOf(m) \in DataEnd /\ Kept(Octets(m), DataEnd) = <<EndOf(m)>>
<1> DEFINE u == EndOf(m)
           v == [msg |-> m, left |-> 1]
           e == << >>
           a == Append(e, v)
           b == Append(a, u)
           c == Append(e, u)
           o == Octets(m)
<1>1. m \in Msg /\ u \in DataEnd /\ v \notin DataEnd /\ u \in Unit /\ v \in Unit
  BY DEF Msg, Unit, DataEnd, DataMsg, EndOf
<1>2. /\ o \in Seq(Unit) /\ Len(o) \in {1, 2} /\ o[Len(o)] = u
      /\ Len(o) = 2 => o[1] = v
  BY <1>1, OctetsShape DEF EndOf
<1>3. \A q \in Seq(Unit), x \in Unit :
        /\ Append(q, x) \in Seq(Unit) /\ Len(Append(q, x)) = Len(q) + 1
        /\ Append(q, x)[Len(q) + 1] = x
        /\ \A i \in 1..Len(q) : Append(q, x)[i] = q[i]
  BY AppendProperties
<1>4. e \in Seq(Unit) /\ Len(e) = 0
  OBVIOUS
<1> HIDE DEF u, v, e, o
<1>5. c \in Seq(Unit) /\ Len(c) = 1 /\ c[1] = u
  BY <1>1, <1>3, <1>4
<1>6. a \in Seq(Unit) /\ Len(a) = 1 /\ a[1] = v
  BY <1>1, <1>3, <1>4
<1>7. b \in Seq(Unit) /\ Len(b) = 2 /\ b[1] = v /\ b[2] = u
  <2> HIDE DEF a
  <2>1. /\ b \in Seq(Unit) /\ Len(b) = Len(a) + 1 /\ b[Len(a) + 1] = u
        /\ \A i \in 1..Len(a) : b[i] = a[i]
    BY <1>1, <1>3, <1>6
  <2> HIDE DEF b
  <2>2. 1 \in 1..1 /\ 1 + 1 = 2
    OBVIOUS
  <2>. QED BY <1>6, <2>1, <2>2
<1>8. Kept(e, DataEnd) = << >>
  BY KeptEmpty DEF e
<1>9. Kept(c, DataEnd) = Append(<< >>, u)
  BY <1>1, <1>4, <1>8, KeptAppend
<1>10. Kept(b, DataEnd) = Append(<< >>, u)
  <2>1. Kept(a, DataEnd) = << >>
    <3>1. v \in Unit /\ e \in Seq(Unit)
      BY <1>1, <1>4
    <3>2. Kept(Append(e, v), DataEnd) = IF v \in DataEnd THEN Append(Kept(e, DataEnd), v)
                                        ELSE Kept(e, DataEnd)
      BY <3>1, KeptAppend
    <3>. QED BY <1>1, <1>8, <3>2, Zenon
  <2> HIDE DEF a
  <2>. QED BY <1>1, <1>6, <2>1, KeptAppend
<1> HIDE DEF a, b, c
<1>11. o = c \/ o = b
  <2>1. CASE Len(o) = 1
    <3>1. \A i \in 1..Len(o) : o[i] = c[i]
      BY <1>2, <1>5, <2>1
    <3>. QED BY <1>2, <1>5, <2>1, <3>1, SeqEqual
  <2>2. CASE Len(o) = 2
    <3>1. \A i \in 1..Len(o) : o[i] = b[i]
      BY <1>2, <1>7, <2>2
    <3>. QED BY <1>2, <1>7, <2>2, <3>1, SeqEqual
  <2>. QED BY <1>2, <2>1, <2>2
<1>12. Append(<< >>, u) = <<u>>
  OBVIOUS
<1>. QED BY <1>1, <1>9, <1>10, <1>11, <1>12 DEF u, o

LEMMA FramedData ==
  /\ Kept(Framed(<< >>), DataEnd) = << >>
  /\ \A s \in Seq(DataMsg) : Framed(s) \in Seq(Unit) /\ Kept(Framed(s), DataEnd) \in Seq(Unit)
  /\ \A s \in Seq(DataMsg), m \in DataMsg :
       Kept(Framed(Append(s, m)), DataEnd) = Append(Kept(Framed(s), DataEnd), EndOf(m))
<1>0. Seq(DataMsg) \subseteq Seq(Msg) /\ DataMsg \subseteq Msg
  BY SeqMonotonic DEF Msg
<1>1. \A s \in Seq(DataMsg) : Framed(s) \in Seq(Unit) /\ Kept(Framed(s), DataEnd) \in Seq(Unit)
  BY <1>0, FramedStep, KeptType
<1>2. ASSUME NEW s \in Seq(DataMsg), NEW m \in DataMsg
      PROVE  Kept(Framed(Append(s, m)), DataEnd) = Append(Kept(Framed(s), DataEnd), EndOf(m))
  <2> DEFINE f == Framed(s)
             o == Octets(m)
             k == Kept(f, DataEnd)
             u == EndOf(m)
  <2>1. f \in Seq(Unit) /\ o \in Seq(Unit) /\ Framed(Append(s, m)) = f \o o
    BY <1>0, FramedStep, OctetsShape
  <2>2. Kept(o, DataEnd) = <<u>> /\ u \in Unit
    <3>1. u \in Unit
      BY <1>0 DEF Unit, EndOf
    <3>. QED BY <3>1, DataOfOctets
  <2>3. k \in Seq(Unit)
    BY <1>1
  <2> HIDE DEF f, o, u
  <2>4. Kept(f \o o, DataEnd) = k \o Kept(o, DataEnd)
    BY <2>1, KeptConcat
  <2> HIDE DEF k
  <2>5. k \o <<u>> = Append(k, u)
    BY <2>2, <2>3, AppendIsConcat
  <2>. QED BY <2>1, <2>2, <2>4, <2>5 DEF f, k, u
<1>3. Kept(Framed(<< >>), DataEnd) = << >>
  BY FramedStep, KeptEmpty
<1>. QED BY <1>1, <1>2, <1>3

\* Replies, commands and offers are no typed bytes.
LEMMA NoData ==
  /\ ReplyUnit \cap DataEnd = {}
  /\ \A s \in Seq(Msg) : ToSet(s) \cap DataMsg = {} => Kept(Framed(s), DataEnd) = << >>
<1>1. ReplyUnit \cap DataEnd = {}
  BY DEF ReplyUnit, ReplyMsg, DataEnd
<1>2. ASSUME NEW s \in Seq(Msg), ToSet(s) \cap DataMsg = {}
      PROVE  Kept(Framed(s), DataEnd) = << >>
  <2> DEFINE f == Framed(s)
  <2>1. f \in Seq(Unit) /\ \A u \in ToSet(f) : u.msg \in ToSet(s)
    BY FramedStep, FramedJoined
  <2>2. \A u \in DataEnd : u.msg \in DataMsg
    BY DEF DataEnd, DataMsg
  <2>3. ToSet(f) \cap DataEnd = {}
    BY <1>2, <2>1, <2>2
  <2>. QED BY <2>1, <2>3, KeptNone
<1>. QED BY <1>1, <1>2

\* Numbers that go up by one, to n.
Counted(s, n) == \A i \in 1..Len(s) : s[i].msg.n = (n - Len(s)) + i

LEMMA CountedParts ==
  ASSUME NEW a \in Seq(Unit), NEW b \in Seq(Unit), NEW n \in Nat, Counted(a \o b, n)
  PROVE  /\ Counted(b, n)
         /\ \A i \in 1..(Len(a) - 1) : a[i + 1].msg.n = a[i].msg.n + 1
<1> DEFINE w == a \o b
<1>1. /\ Len(a) \in Nat /\ Len(b) \in Nat /\ Len(w) = Len(a) + Len(b)
      /\ \A i \in 1..Len(a) : w[i] = a[i]
      /\ \A i \in 1..Len(b) : w[Len(a) + i] = b[i]
  BY LenProperties, ConcatProperties
<1>2. \A i \in 1..Len(w) : w[i].msg.n = (n - Len(w)) + i
  BY Zenon DEF Counted
<1> HIDE DEF w
<1>3. ASSUME NEW i \in 1..Len(b) PROVE b[i].msg.n = (n - Len(b)) + i
  <2>1. Len(a) + i \in 1..Len(w) /\ (n - Len(w)) + (Len(a) + i) = (n - Len(b)) + i
    BY <1>1
  <2>2. w[Len(a) + i].msg.n = (n - Len(w)) + (Len(a) + i)
    BY <1>2, <2>1
  <2>. QED BY <1>1, <2>1, <2>2
<1>4. ASSUME NEW i \in 1..(Len(a) - 1) PROVE a[i + 1].msg.n = a[i].msg.n + 1
  <2>1. i \in 1..Len(w) /\ i + 1 \in 1..Len(w) /\ i \in 1..Len(a) /\ i + 1 \in 1..Len(a)
    BY <1>1
  <2>2. /\ w[i].msg.n = (n - Len(w)) + i /\ w[i + 1].msg.n = (n - Len(w)) + (i + 1)
        /\ w[i] = a[i] /\ w[i + 1] = a[i + 1]
    BY <1>1, <1>2, <2>1
  <2>3. (n - Len(w)) + (i + 1) = ((n - Len(w)) + i) + 1
    BY <1>1
  <2>. QED BY <2>2, <2>3
<1>. QED BY <1>3, <1>4 DEF Counted

LEMMA CountedAppend ==
  ASSUME NEW a \in Seq(Unit), NEW x \in Unit, NEW n \in Nat, Counted(a, n), x.msg.n = n + 1
  PROVE  Counted(Append(a, x), n + 1)
<1> DEFINE w == Append(a, x)
<1>1. /\ Len(a) \in Nat /\ Len(w) = Len(a) + 1 /\ w[Len(a) + 1] = x
      /\ \A i \in 1..Len(a) : w[i] = a[i]
  BY LenProperties, AppendProperties
<1> HIDE DEF w
<1>2. ASSUME NEW i \in 1..Len(w) PROVE w[i].msg.n = ((n + 1) - Len(w)) + i
  <2>1. CASE i = Len(a) + 1
    <3>1. ((n + 1) - Len(w)) + i = n + 1
      BY <1>1, <2>1
    <3>. QED BY <1>1, <2>1, <3>1
  <2>2. CASE i \in 1..Len(a)
    <3>1. ((n + 1) - Len(w)) + i = (n - Len(a)) + i
      BY <1>1
    <3>2. a[i].msg.n = (n - Len(a)) + i
      BY <2>2 DEF Counted
    <3>. QED BY <1>1, <2>2, <3>1, <3>2
  <2>. QED BY <1>1, <2>1, <2>2
<1>. QED BY <1>2 DEF Counted, w

\* The typed bytes on their way: what the peer last heard and the connection
\* holds, what waits to be written, what was read, and what nobody has read.
OnLine  == Kept(HeardPart \o outbox, DataEnd)
InWork  == Kept(FlattenSeq(upwork), DataEnd)
InRead  == Kept(Framed(FlattenSeq(upread)), DataEnd)
InKeys  == Kept(Framed(keys), DataEnd)
OnTheWay == OnLine \o (InWork \o (InRead \o InKeys))

TypedCounted == Counted(InKeys, typed) /\ (life # "gone" => Counted(OnTheWay, typed))

LEMMA OnTheWayType ==
  ASSUME TypeParts
  PROVE  /\ OnLine \in Seq(Unit) /\ InWork \in Seq(Unit) /\ InRead \in Seq(Unit)
         /\ InKeys \in Seq(Unit) /\ InRead \o InKeys \in Seq(Unit)
         /\ InWork \o (InRead \o InKeys) \in Seq(Unit) /\ OnTheWay \in Seq(Unit)
<1>1. OnLine \in Seq(Unit)
  BY StreamType, KeptType DEF OnLine
<1>2. InWork \in Seq(Unit)
  BY FlatType, KeptType DEF InWork, TypeParts, TaskTypeOK
<1>3. FlattenSeq(upread) \in Seq(DataMsg) /\ keys \in Seq(DataMsg)
  BY FlatType DEF TypeParts, TaskTypeOK, PortTypeOK
<1>4. InRead \in Seq(Unit) /\ InKeys \in Seq(Unit)
  BY <1>3, FramedData DEF InRead, InKeys
<1>5. InRead \o InKeys \in Seq(Unit)
  BY <1>4, ConcatProperties
<1>6. InWork \o (InRead \o InKeys) \in Seq(Unit)
  BY <1>2, <1>5, ConcatProperties
<1>. QED BY <1>1, <1>2, <1>4, <1>5, <1>6, ConcatProperties DEF OnTheWay

\* What a write takes of the work, the connection has.
LEMMA UpTakes ==
  ASSUME TypeParts, UpWrites
  PROVE  \E took \in Seq(Unit) : /\ outbox' = outbox \o took
                                 /\ FlattenSeq(upwork) = took \o FlattenSeq(upwork')
<1>1. /\ upwork \in Seq(Seq(Unit)) /\ upwork # << >> /\ outbox \in Seq(Unit)
      /\ Len(outbox) <= PtyBuf /\ upwork' = CellsLeft(upwork, outbox)
      /\ outbox' = Filled(outbox, Head(upwork))
  BY DEF UpWrites, TypeParts, TaskTypeOK, PeerTypeOK, Turns
<1> DEFINE took == SubSeq(Head(upwork), 1, Taken(Head(upwork), outbox))
<1>2. took \in Seq(Unit) /\ took \o FlattenSeq(CellsLeft(upwork, outbox)) = FlattenSeq(upwork)
  BY <1>1, CellsTaken
<1>3. outbox' = outbox \o took
  BY <1>1 DEF Filled
<1>. QED BY <1>1, <1>2, <1>3

LEMMA ReplyTakes ==
  ASSUME TypeParts, DownReplies
  PROVE  \E took \in Seq(ReplyUnit) : outbox' = outbox \o took
<1>1. reply \in Seq(ReplyUnit) /\ outbox \in Seq(Unit) /\ Len(outbox) <= PtyBuf
  BY DEF TypeParts, TaskTypeOK, PeerTypeOK
<1>2. Taken(reply, outbox) \in 0..Len(reply)
  BY <1>1, BytesAssumption, LenProperties DEF Taken, Room, Least
<1>3. SubSeq(reply, 1, Taken(reply, outbox)) \in Seq(ReplyUnit)
  BY <1>1, <1>2, CutInTwo
<1>. QED BY <1>3 DEF DownReplies, Filled

\* Commands are no typed bytes.
LEMMA RelayedNoData ==
  ASSUME PortTypeOK, last \in Setting
  PROVE  Relayed \in Seq(Seq(Unit)) /\ Kept(FlattenSeq(Relayed), DataEnd) = << >>
<1> DEFINE s == CommandsTo(last, Config)
<1>1. /\ s \in Seq(Msg) /\ ToSet(s) \subseteq SetMsg /\ Framed(s) \in Seq(Unit)
      /\ Relayed = << >> \/ Relayed = <<Framed(s)>>
  BY RelayedShape
<1>2. ToSet(s) \cap DataMsg = {}
  BY <1>1 DEF SetMsg, DataMsg
<1> HIDE DEF s
<1>3. Kept(Framed(s), DataEnd) = << >>
  BY <1>1, <1>2, NoData
<1>4. FlattenSeq(<<Framed(s)>>) = Framed(s)
  BY <1>1, FlatOne
<1>5. Kept(FlattenSeq(Relayed), DataEnd) = << >>
  BY <1>1, <1>3, <1>4, FlatEmpty, KeptEmpty
<1>. QED BY <1>5, RelayedType

LEMMA CountedStep ==
  ASSUME TypeParts, TypeParts', TypedCounted, [Next]_vars
  PROVE  TypedCounted'
<1>0. /\ OnLine \in Seq(Unit) /\ InWork \in Seq(Unit) /\ InRead \in Seq(Unit)
      /\ InKeys \in Seq(Unit) /\ InRead \o InKeys \in Seq(Unit)
      /\ InWork \o (InRead \o InKeys) \in Seq(Unit) /\ OnTheWay \in Seq(Unit)
      /\ typed \in Nat
  BY OnTheWayType DEF TypeParts, PortTypeOK
<1>00. /\ OnLine' \in Seq(Unit) /\ InWork' \in Seq(Unit) /\ InRead' \in Seq(Unit)
       /\ InKeys' \in Seq(Unit) /\ OnTheWay' \in Seq(Unit)
  <2>1. (TypeParts => /\ OnLine \in Seq(Unit) /\ InWork \in Seq(Unit) /\ InRead \in Seq(Unit)
                      /\ InKeys \in Seq(Unit) /\ OnTheWay \in Seq(Unit))'
    BY OnTheWayType, PTL
  <2>. QED BY <2>1
<1>e. \A s \in Seq(Unit) : << >> \o s = s
  BY ConcatEmptySeq
<1>1. ASSUME UNCHANGED <<InKeys, OnTheWay, typed>>, life' # "gone" => life # "gone"
      PROVE  TypedCounted'
  BY <1>1 DEF TypedCounted
<1>2. ASSUME UNCHANGED <<keys, typed>>, life' = "gone"
      PROVE  TypedCounted'
  BY <1>2 DEF TypedCounted, InKeys
<1>3. ASSUME UNCHANGED <<heard, outbox, upwork, upread, keys, typed>>,
             life' # "gone" => life # "gone"
      PROVE  TypedCounted'
  <2>1. UNCHANGED <<OnLine, InWork, InRead, InKeys>>
    BY <1>3 DEF OnLine, InWork, InRead, InKeys, HeardPart
  <2>2. UNCHANGED OnTheWay
    BY <2>1 DEF OnTheWay
  <2>. QED BY <1>1, <1>3, <2>1, <2>2
<1>4. CASE TakePristine \/ OfferFails \/ EndSession
  BY <1>2, <1>4 DEF TakePristine, OfferFails, EndSession, port, peer, TypeParts, Turns
<1>5. CASE DrainReads
  <2>1. life' = "gone" /\ keys' = << >>
    BY <1>5 DEF DrainReads, peer, TypeParts, Turns
  <2>2. InKeys' = << >>
    BY <2>1, FramedData DEF InKeys
  <2>3. Counted(<< >>, typed')
    BY DEF Counted
  <2>. QED BY <2>1, <2>2, <2>3 DEF TypedCounted
<1>6. CASE Connect
  <2>1. /\ upwork' = << >> /\ upread' = << >> /\ heard' = NoOctet /\ outbox' = << >>
        /\ UNCHANGED <<keys, typed>>
    BY <1>6 DEF Connect, port, upTask, TypeParts, Turns
  <2>2. OnLine' = << >>
    <3>1. HeardPart' \o outbox' = << >>
      BY <2>1 DEF HeardPart
    <3>. QED BY <3>1, KeptEmpty DEF OnLine
  <2>3. InWork' = << >> /\ InRead' = << >> /\ InKeys' = InKeys
    BY <2>1, FlatEmpty, KeptEmpty, FramedData DEF InWork, InRead, InKeys
  <2>4. OnTheWay' = InKeys
    <3>1. << >> \o (<< >> \o (<< >> \o InKeys)) = InKeys
      BY <1>0, <1>e
    <3>. QED BY <2>2, <2>3, <3>1 DEF OnTheWay
  <2>. QED BY <2>1, <2>3, <2>4 DEF TypedCounted
<1>7. CASE Offer
  <2> DEFINE m == [is |-> "offer"]
             o == Octets(m)
  <2>1. /\ heard = NoOctet /\ heard' = NoOctet /\ outbox = << >> /\ outbox' = o
        /\ UNCHANGED <<upwork, upread, keys, typed, life>>
    BY <1>7 DEF Offer, port, peer, TypeParts, Fresh, Turns
  <2>2. m \in Msg
    BY DEF Msg
  <2>3. o \in Seq(Unit) /\ ToSet(o) \cap DataEnd = {}
    <3>1. o \in Seq(Unit)
      BY <2>2, OctetsShape
    <3>2. \A u \in ToSet(o) : u.msg.is = "offer"
      BY DEF Octets, ToSet
    <3>3. \A u \in DataEnd : u.msg.is = "data"
      BY DEF DataEnd
    <3>. QED BY <3>1, <3>2, <3>3
  <2> HIDE DEF m, o
  <2>4. OnLine = << >> /\ OnLine' = << >>
    <3>1. << >> \o << >> = << >> /\ << >> \o o = o
      BY <2>3, <1>e
    <3>2. HeardPart \o outbox = << >> /\ HeardPart' \o outbox' = o
      BY <2>1, <3>1 DEF HeardPart
    <3>3. Kept(o, DataEnd) = << >> /\ Kept(<< >>, DataEnd) = << >>
      BY <2>3, KeptNone, KeptEmpty
    <3>. QED BY <3>2, <3>3 DEF OnLine
  <2>5. UNCHANGED <<InWork, InRead, InKeys>>
    BY <2>1 DEF InWork, InRead, InKeys
  <2>. QED BY <1>1, <2>1, <2>4, <2>5 DEF OnTheWay
<1>8. CASE UpReads
  <2> DEFINE r == ReadOf(keys)
             l == LeftBy(keys)
  <2>1. /\ keys' = l /\ upread' = Cells(r) /\ upread = << >>
        /\ UNCHANGED <<heard, outbox, upwork, typed, life>>
    BY <1>8 DEF UpReads, loops, peer, TypeParts, Turns
  <2>2. keys \in Seq(DataMsg)
    BY DEF TypeParts, PortTypeOK
  <2>3. r \in Seq(DataMsg) /\ l \in Seq(DataMsg) /\ r \o l = keys
    BY <2>2, ReadSplits
  <2> HIDE DEF r, l
  <2>4. FlattenSeq(Cells(r)) = r
    BY <2>3, CellsWhole
  <2>5. Framed(r \o l) = Framed(r) \o Framed(l)
    <3>1. r \in Seq(Msg) /\ l \in Seq(Msg)
      BY <2>3, SeqMonotonic DEF Msg
    <3>. QED BY <3>1, FramedConcat
  <2>6. Kept(Framed(r) \o Framed(l), DataEnd) = Kept(Framed(r), DataEnd) \o Kept(Framed(l), DataEnd)
    <3>1. Framed(r) \in Seq(Unit) /\ Framed(l) \in Seq(Unit)
      BY <2>3, FramedData
    <3>. QED BY <3>1, KeptConcat
  <2>7. InKeys = InRead' \o InKeys'
    BY <2>1, <2>3, <2>4, <2>5, <2>6 DEF InKeys, InRead
  <2>8. InRead = << >>
    BY <2>1, FlatEmpty, FramedData DEF InRead
  <2>9. UNCHANGED <<OnLine, InWork>>
    BY <2>1 DEF OnLine, InWork, HeardPart
  <2>10. InRead \o InKeys = InKeys
    BY <1>0, <1>e, <2>8
  <2>11. OnTheWay' = OnTheWay
    BY <2>7, <2>9, <2>10 DEF OnTheWay
  <2> DEFINE x == InRead'
             y == InKeys'
  <2>12. x \in Seq(Unit) /\ y \in Seq(Unit) /\ InKeys = x \o y
    BY <1>00, <2>7
  <2> HIDE DEF x, y
  <2>13. Counted(x \o y, typed)
    BY <2>12 DEF TypedCounted
  <2>14. Counted(y, typed)
    BY <1>0, <2>12, <2>13, CountedParts
  <2>. QED BY <2>1, <2>11, <2>14 DEF TypedCounted, y
<1>9. CASE UpSyncs
  <2>1. /\ upwork' = Relayed \o FramedCells(upread) /\ upread' = << >> /\ upwork = << >>
        /\ UNCHANGED <<heard, outbox, keys, typed, life>>
        /\ PortTypeOK /\ last \in Setting
    BY <1>9 DEF UpSyncs, FramedCells, loops, port, peer, TypeParts, Turns, LoopTypeOK
  <2>2. upread \in Seq(Seq(Msg))
    <3>1. Seq(DataMsg) \subseteq Seq(Msg)
      BY SeqMonotonic DEF Msg
    <3>2. upread \in Seq(Seq(DataMsg))
      BY DEF TypeParts, TaskTypeOK
    <3>. QED BY <3>1, <3>2, SeqMonotonic
  <2> DEFINE a == Relayed
             b == FramedCells(upread)
  <2>3. a \in Seq(Seq(Unit)) /\ Kept(FlattenSeq(a), DataEnd) = << >>
    BY <2>1, RelayedNoData
  <2>4. b \in Seq(Seq(Unit)) /\ Kept(FlattenSeq(b), DataEnd) = InRead
    BY <2>2, FramedCellsShape, FramedFlat DEF InRead
  <2> HIDE DEF a, b
  <2>5. FlattenSeq(a \o b) = FlattenSeq(a) \o FlattenSeq(b)
    BY <2>3, <2>4, FlatConcat
  <2>6. Kept(FlattenSeq(a) \o FlattenSeq(b), DataEnd) = << >> \o InRead
    <3>1. FlattenSeq(a) \in Seq(Unit) /\ FlattenSeq(b) \in Seq(Unit)
      BY <2>3, <2>4, FlatType
    <3>2. Kept(FlattenSeq(a) \o FlattenSeq(b), DataEnd)
            = Kept(FlattenSeq(a), DataEnd) \o Kept(FlattenSeq(b), DataEnd)
      BY <3>1, KeptConcat
    <3>. QED BY <2>3, <2>4, <3>2
  <2>7. InWork' = InRead
    BY <1>0, <1>e, <2>1, <2>5, <2>6 DEF InWork, a, b
  <2>8. InWork = << >> /\ InRead' = << >>
    BY <2>1, FlatEmpty, KeptEmpty, FramedData DEF InWork, InRead
  <2>9. UNCHANGED <<OnLine, InKeys>>
    BY <2>1 DEF OnLine, InKeys, HeardPart
  <2>10. InWork \o (InRead \o InKeys) = InRead \o InKeys
    BY <1>0, <1>e, <2>8
  <2>11. InRead' \o InKeys' = InKeys
    BY <1>0, <1>e, <2>8, <2>9
  <2>12. OnTheWay' = OnTheWay
    BY <2>7, <2>9, <2>10, <2>11 DEF OnTheWay
  <2>. QED BY <1>1, <2>1, <2>9, <2>12
<1>10. CASE PollTick
  <2>1. /\ upwork' = Relayed /\ upwork = << >>
        /\ UNCHANGED <<heard, outbox, upread, keys, typed, life>>
        /\ PortTypeOK /\ last \in Setting
    BY <1>10 DEF PollTick, loops, port, peer, TypeParts, Turns, LoopTypeOK
  <2>2. Kept(FlattenSeq(Relayed), DataEnd) = << >>
    BY <2>1, RelayedNoData
  <2>3. InWork' = << >> /\ InWork = << >>
    BY <2>1, <2>2, FlatEmpty, KeptEmpty DEF InWork
  <2>4. UNCHANGED <<OnLine, InRead, InKeys>>
    BY <2>1 DEF OnLine, InRead, InKeys, HeardPart
  <2>. QED BY <1>1, <2>1, <2>3, <2>4 DEF OnTheWay
<1>11. CASE UpWrites
  <2>1. PICK took \in Seq(Unit) : /\ outbox' = outbox \o took
                                  /\ FlattenSeq(upwork) = took \o FlattenSeq(upwork')
    BY <1>11, UpTakes
  <2>2. UNCHANGED <<heard, upread, keys, typed, life>>
    BY <1>11 DEF UpWrites, loops, port, peer
  <2>3. /\ HeardPart \in Seq(Unit) /\ outbox \in Seq(Unit) /\ HeardPart \o outbox \in Seq(Unit)
        /\ FlattenSeq(upwork') \in Seq(Unit)
    BY StreamType, FlatType DEF TypeParts, TaskTypeOK
  <2> DEFINE k == Kept(took, DataEnd)
             h == HeardPart
             more == FlattenSeq(upwork')
  <2>4. k \in Seq(Unit)
    BY KeptType
  <2>5. OnLine' = OnLine \o k
    <3>1. h \o (outbox \o took) = (h \o outbox) \o took
      <4>1. h \in Seq(Unit) /\ outbox \in Seq(Unit) /\ took \in Seq(Unit)
        BY <2>3
      <4> HIDE DEF h
      <4>. QED BY <4>1, UnitsRegrouped, Zenon
    <3>2. HeardPart' \o outbox' = (h \o outbox) \o took
      BY <2>1, <2>2, <3>1 DEF HeardPart
    <3> DEFINE w == h \o outbox
    <3>3. w \in Seq(Unit) /\ OnLine = Kept(w, DataEnd) /\ OnLine' = Kept(w \o took, DataEnd)
      BY <2>3, <3>2 DEF OnLine
    <3> HIDE DEF w
    <3>. QED BY <3>3, KeptConcat
  <2>6. InWork = k \o InWork'
    <3>1. more \in Seq(Unit) /\ InWork = Kept(took \o more, DataEnd) /\ InWork' = Kept(more, DataEnd)
      BY <2>1, <2>3 DEF InWork
    <3> HIDE DEF more
    <3>. QED BY <3>1, KeptConcat
  <2>7. UNCHANGED <<InRead, InKeys>>
    BY <2>2 DEF InRead, InKeys
  <2> DEFINE w == InWork'
             r == InRead \o InKeys
             n == OnLine
  <2>8. OnTheWay = n \o ((k \o w) \o r) /\ OnTheWay' = (n \o k) \o (w \o r)
    BY <2>5, <2>6, <2>7 DEF OnTheWay
  <2>9. k \in Seq(Unit) /\ w \in Seq(Unit) /\ r \in Seq(Unit) /\ n \in Seq(Unit)
    BY <1>0, <1>00, <2>4
  <2> HIDE DEF k, w, r, n
  <2>10. w \o r \in Seq(Unit)
    BY <2>9, ConcatProperties
  <2>11. (k \o w) \o r = k \o (w \o r)
    BY <2>9, UnitsRegrouped, ZenonT(40)
  <2>12. (n \o k) \o (w \o r) = n \o (k \o (w \o r))
    BY <2>9, <2>10, UnitsRegrouped, Zenon
  <2>13. OnTheWay' = OnTheWay
    BY <2>8, <2>11, <2>12, Zenon
  <2>. QED BY <1>1, <2>2, <2>7, <2>13
<1>12. CASE DownReplies
  <2>1. PICK took \in Seq(ReplyUnit) : outbox' = outbox \o took
    BY <1>12, ReplyTakes
  <2>2. UNCHANGED <<heard, upwork, upread, keys, typed, life>>
    BY <1>12 DEF DownReplies, loops, port, upTask, peer
  <2>3. HeardPart \in Seq(Unit) /\ outbox \in Seq(Unit) /\ HeardPart \o outbox \in Seq(Unit)
    BY StreamType
  <2>4. took \in Seq(Unit) /\ ToSet(took) \cap DataEnd = {}
    <3>1. took \in Seq(Unit)
      <4>1. ReplyUnit \subseteq Unit
        BY DEF ReplyUnit, Unit, Msg
      <4>. QED BY <4>1, SeqMonotonic
    <3>2. ToSet(took) \subseteq ReplyUnit
      BY ToSetType
    <3>. QED BY <3>1, <3>2, NoData
  <2> DEFINE h == HeardPart
             w == h \o outbox
  <2>5. h \o (outbox \o took) = w \o took
    <3>1. h \in Seq(Unit) /\ outbox \in Seq(Unit) /\ took \in Seq(Unit)
      BY <2>3, <2>4
    <3> HIDE DEF h
    <3>. QED BY <3>1, UnitsRegrouped, Zenon
  <2>6. OnLine = Kept(w, DataEnd) /\ OnLine' = Kept(w \o took, DataEnd) /\ w \in Seq(Unit)
    BY <2>1, <2>2, <2>3, <2>5 DEF OnLine, HeardPart
  <2> HIDE DEF w
  <2>7. Kept(w \o took, DataEnd) = Kept(w, DataEnd) \o << >>
    <3>1. Kept(w \o took, DataEnd) = Kept(w, DataEnd) \o Kept(took, DataEnd)
      BY <2>4, <2>6, KeptConcat
    <3>2. Kept(took, DataEnd) = << >>
      BY <2>4, KeptNone
    <3>. QED BY <3>1, <3>2
  <2>8. OnLine' = OnLine
    BY <1>0, <2>6, <2>7, ConcatEmptySeq
  <2>9. UNCHANGED <<InWork, InRead, InKeys>>
    BY <2>2 DEF InWork, InRead, InKeys
  <2>. QED BY <1>1, <2>2, <2>8, <2>9 DEF OnTheWay
<1>13. CASE PeerReads
  <2>1. HeardPart \o outbox = HeardPart \o (HeardPart' \o outbox')
    BY <1>13, ReadStep
  <2>2. UNCHANGED <<upwork, upread, keys, typed, life>>
    BY <1>13 DEF PeerReads, loops, port, upTask
  <2> DEFINE h == HeardPart
             x == HeardPart' \o outbox'
             k == Kept(h, DataEnd)
  <2>3. h \in Seq(Unit) /\ x \in Seq(Unit) /\ k \in Seq(Unit)
    <3>1. (TypeParts => HeardPart \o outbox \in Seq(Unit))'
      BY StreamType, PTL
    <3>. QED BY <3>1, StreamType, KeptType
  <2>4. OnLine = Kept(h \o x, DataEnd) /\ OnLine' = Kept(x, DataEnd)
    BY <2>1 DEF OnLine
  <2> HIDE DEF h, x
  <2>5. OnLine = k \o OnLine'
    BY <2>3, <2>4, KeptConcat
  <2>6. UNCHANGED <<InWork, InRead, InKeys>>
    BY <2>2 DEF InWork, InRead, InKeys
  <2> DEFINE n == OnLine'
             r == InWork \o (InRead \o InKeys)
  <2>7. OnTheWay = (k \o n) \o r /\ OnTheWay' = n \o r
    BY <2>5, <2>6 DEF OnTheWay
  <2>8. k \in Seq(Unit) /\ n \in Seq(Unit) /\ r \in Seq(Unit)
    BY <1>0, <1>00, <2>3
  <2> HIDE DEF k, n, r
  <2>9. (k \o n) \o r = k \o (n \o r)
    BY <2>8, UnitsRegrouped, Zenon
  <2> DEFINE y == n \o r
  <2>10. y \in Seq(Unit) /\ OnTheWay = k \o y
    BY <2>7, <2>8, <2>9, ConcatProperties
  <2>11. OnTheWay' = y
    BY <2>7
  <2> HIDE DEF y
  <2>12. Counted(OnTheWay, typed) => Counted(y, typed)
    BY <1>0, <2>8, <2>10, CountedParts
  <2>. QED BY <2>2, <2>6, <2>11, <2>12 DEF TypedCounted
<1>14. CASE ConsumerTypes
  <2>1. PICK b \in KeyBytes :
          keys' = Append(keys, [is |-> "data", byte |-> b, n |-> typed + 1, at |-> Len(chosen)])
    BY <1>14 DEF ConsumerTypes
  <2> DEFINE m == [is |-> "data", byte |-> b, n |-> typed + 1, at |-> Len(chosen)]
             u == EndOf(m)
  <2>2. /\ typed' = typed + 1 /\ keys' = Append(keys, m)
        /\ UNCHANGED <<heard, outbox, upwork, upread, life>>
    BY <1>14, <2>1 DEF ConsumerTypes, loops, upTask, peer
  <2>3. keys \in Seq(DataMsg) /\ Len(chosen) \in Nat \ {0}
    BY LenProperties, EmptySeq DEF TypeParts, PortTypeOK
  <2>4. m \in DataMsg /\ u.msg.n = typed + 1 /\ u \in Unit
    <3>1. m \in DataMsg
      BY <1>0, <2>3 DEF DataMsg
    <3>. QED BY <3>1 DEF EndOf, Unit, Msg
  <2> HIDE DEF m, u
  <2>5. InKeys' = Append(InKeys, u)
    BY <2>2, <2>3, <2>4, FramedData DEF InKeys, u
  <2>6. UNCHANGED <<OnLine, InWork, InRead>>
    BY <2>2 DEF OnLine, InWork, InRead, HeardPart
  <2>7. \A s, t \in Seq(Unit) : s \o Append(t, u) = Append(s \o t, u)
    BY <2>4, ConcatAppended
  <2>8. InRead \o Append(InKeys, u) = Append(InRead \o InKeys, u)
    BY <1>0, <2>7, Zenon
  <2>9. InWork \o Append(InRead \o InKeys, u) = Append(InWork \o (InRead \o InKeys), u)
    BY <1>0, <2>7, Zenon
  <2>10. OnLine \o Append(InWork \o (InRead \o InKeys), u)
           = Append(OnLine \o (InWork \o (InRead \o InKeys)), u)
    BY <1>0, <2>7, Zenon
  <2>11. OnTheWay' = Append(OnTheWay, u)
    BY <2>5, <2>6, <2>8, <2>9, <2>10, Zenon DEF OnTheWay
  <2>12. \A s \in Seq(Unit) : Counted(s, typed) => Counted(Append(s, u), typed + 1)
    BY <1>0, <2>4, CountedAppend
  <2>. QED BY <1>0, <2>2, <2>5, <2>11, <2>12 DEF TypedCounted
<1>15. CASE UpFails \/ DownReplyFails
  BY <1>2, <1>15 DEF UpFails, DownReplyFails, port, peer
<1>16. CASE UpLocks \/ DownReads \/ DownLocks \/ DownWrites \/ DownFails \/ DownEnds
  BY <1>3, <1>16 DEF UpLocks, DownReads, DownLocks, DownWrites, DownFails, DownEnds, loops,
     port, upTask, peer
<1>17. CASE ConsumerConfigures \/ ConsumerReads \/ PeerSays \/ PeerLeaves
  BY <1>3, <1>17 DEF ConsumerConfigures, ConsumerReads, PeerSays, PeerLeaves, loops, port,
     upTask, peer
<1>18. CASE UNCHANGED vars
  BY <1>3, <1>18 DEF vars, loops, port, upTask, peer
<1>. QED BY <1>4, <1>5, <1>6, <1>7, <1>8, <1>9, <1>10, <1>11, <1>12, <1>13, <1>14, <1>15,
     <1>16, <1>17, <1>18 DEF Next, Loop, Up, Down

WholeParts == WorkWhole /\ StreamWhole /\ TypedCounted

LEMMA WholeAlways == Spec => []WholeParts
<1>1. Init => WholeParts
  <2> SUFFICES ASSUME Init PROVE WholeParts
    OBVIOUS
  <2>1. life = "gone" /\ keys = << >> /\ upwork = << >> /\ reply = << >>
    BY DEF Init
  <2>2. Counted(InKeys, typed)
    BY <2>1, FramedData DEF InKeys, Counted
  <2>. QED BY <2>1, <2>2 DEF WholeParts, WorkWhole, StreamWhole, TypedCounted, Joined, Closed
<1>2. TypeParts /\ WholeParts /\ [Next]_vars => WholeParts'
  <2> SUFFICES ASSUME TypeParts, WholeParts, [Next]_vars PROVE WholeParts'
    OBVIOUS
  <2>1. TypeParts'
    BY TypeStep
  <2>. QED BY <2>1, WorkStep, StreamStep, CountedStep DEF WholeParts
<1>. QED BY <1>1, <1>2, TypesAlways, PTL DEF Spec

\* What the peer was about to read before it left the numbers in order.
LEMMA PartsAreWhole ==
  ASSUME TypeParts, WholeParts
  PROVE  MessagesWhole
<1> SUFFICES ASSUME life # "gone"
             PROVE  LET data == Kept(Stream, DataEnd)
                    IN  /\ Joined(Stream) /\ (loop = "session" => Closed(Stream))
                        /\ \A i \in 1..(Len(data) - 1) : data[i + 1].msg.n = data[i].msg.n + 1
  BY DEF MessagesWhole, Stream, HeardPart, Joined, Closed
<1>1. /\ HeardPart \o outbox \in Seq(Unit) /\ Pending \in Seq(Unit) /\ Stream \in Seq(Unit)
      /\ OnLine \in Seq(Unit) /\ InWork \in Seq(Unit) /\ InRead \o InKeys \in Seq(Unit)
      /\ InWork \o (InRead \o InKeys) \in Seq(Unit) /\ typed \in Nat
      /\ reply \in Seq(ReplyUnit) /\ upwork \in Seq(Seq(Unit))
  BY StreamType, OnTheWayType DEF TypeParts, PortTypeOK, TaskTypeOK
<1> DEFINE p == Kept(Pending, DataEnd)
           data == Kept(Stream, DataEnd)
           rest == InRead \o InKeys
<1>2. data = OnLine \o p /\ p \in Seq(Unit) /\ data \in Seq(Unit)
  <2>1. data = OnLine \o p
    <3> DEFINE w == HeardPart \o outbox
    <3>1. w \in Seq(Unit) /\ Stream = w \o Pending /\ OnLine = Kept(w, DataEnd)
      BY <1>1 DEF Stream, OnLine
    <3> HIDE DEF w
    <3>. QED BY <1>1, <3>1, KeptConcat, ZenonT(40)
  <2>. QED BY <1>1, <2>1, KeptType
<1>3. \E q \in Seq(Unit) : OnTheWay = data \o q
  <2>1. CASE lock = "up"
    <3> DEFINE h == Head(upwork)
               t == FlattenSeq(Tail(upwork))
               k == Kept(t, DataEnd)
    <3>1. upwork # << >> /\ Pending = h
      BY <2>1, PendingIs DEF TypeParts, Turns
    <3>2. h \in Seq(Unit) /\ t \in Seq(Unit) /\ FlattenSeq(upwork) = h \o t
      BY <1>1, <3>1, HeadTailProperties, FlatType, FlatHead
    <3>3. k \in Seq(Unit)
      BY <3>2, KeptType
    <3> HIDE DEF h, t
    <3>4. InWork = p \o k
      BY <3>1, <3>2, KeptConcat DEF InWork
    <3>5. OnTheWay = OnLine \o ((p \o k) \o rest)
      BY <3>4 DEF OnTheWay
    <3>6. p \in Seq(Unit) /\ rest \in Seq(Unit) /\ OnLine \in Seq(Unit)
      BY <1>1, <1>2
    <3> HIDE DEF k, p, rest
    <3>7. k \o rest \in Seq(Unit)
      BY <3>3, <3>6, ConcatProperties
    <3>8. (p \o k) \o rest = p \o (k \o rest)
      BY <3>3, <3>6, UnitsRegrouped, Zenon
    <3>9. (OnLine \o p) \o (k \o rest) = OnLine \o (p \o (k \o rest))
      BY <3>6, <3>7, UnitsRegrouped, Zenon
    <3>10. OnTheWay = data \o (k \o rest)
      BY <1>2, <3>5, <3>8, <3>9, Zenon
    <3>. QED BY <3>7, <3>10
  <2>2. CASE lock # "up"
    <3>1. Pending = IF lock = "down" THEN reply ELSE << >>
      BY <2>2, PendingIs
    <3>2. p = << >>
      <4>1. reply \in Seq(Unit) /\ ToSet(reply) \cap DataEnd = {}
        <5>1. ToSet(reply) \subseteq ReplyUnit
          BY <1>1, ToSetType
        <5>. QED BY <5>1, StreamType, NoData
      <4>. QED BY <3>1, <4>1, KeptNone, KeptEmpty
    <3> HIDE DEF data, p, rest
    <3>3. data = OnLine
      BY <1>1, <1>2, <3>2, ConcatEmptySeq
    <3>. QED BY <1>1, <3>3 DEF OnTheWay
  <2>. QED BY <2>1, <2>2
<1> HIDE DEF data
<1>4. \A i \in 1..(Len(data) - 1) : data[i + 1].msg.n = data[i].msg.n + 1
  <2>1. PICK q \in Seq(Unit) : OnTheWay = data \o q
    BY <1>3
  <2>2. Counted(data \o q, typed)
    BY <2>1 DEF WholeParts, TypedCounted
  <2>. QED BY <1>1, <1>2, <2>2, CountedParts
<1>. QED BY <1>4 DEF WholeParts, StreamWhole, data

\* Whoever holds the lock and however little the connection takes at a time, a
\* peer that is still there reads whole messages one after the other, and typed
\* bytes in their order (run_rfc2217_session, bridge.rs:251-375).
THEOREM WholeMessages == Spec => []MessagesWhole
<1>1. TypeParts /\ WholeParts => MessagesWhole
  BY PartsAreWhole
<1>. QED BY <1>1, TypesAlways, WholeAlways, PTL

-----------------------------------------------------------------------------
(* Settings reach the peer before the bytes typed after them.              *)

\* The last octets of commands that set f, and what a far end is set to by s when
\* it was set to far.
SetEnd(f) == {u \in Unit : u.msg.is = "set" /\ u.msg.field = f /\ u.left = 0}
LastSet(s, f) == Kept(s, SetEnd(f))
FarAfter(far, s) ==
  [f \in FieldSet |-> IF LastSet(s, f) = << >> THEN far[f]
                      ELSE LastSet(s, f)[Len(LastSet(s, f))].msg.value]

\* Settings are functions of their fields.
LEMMA SettingIsFunction ==
  /\ \A g \in [FieldSet -> Nat] : g \in Setting
  /\ \A g \in Setting : g \in [FieldSet -> Nat]
  /\ \A g, h \in Setting : (\A f \in FieldSet : g[f] = h[f]) => g = h
<1>1. ASSUME NEW g \in [FieldSet -> Nat] PROVE g \in Setting
  BY DEF Setting, FieldSet
<1>2. ASSUME NEW g \in Setting PROVE g \in [FieldSet -> Nat]
  BY DEF Setting, FieldSet
<1>. QED BY <1>1, <1>2, SettingType

LEMMA LastSetType ==
  ASSUME NEW s \in Seq(Unit), NEW f
  PROVE  /\ LastSet(s, f) \in Seq(Unit)
         /\ \A i \in 1..Len(LastSet(s, f)) : LastSet(s, f)[i] \in ToSet(s) \cap SetEnd(f)
         /\ LastSet(s, f) # << >> =>
              /\ Len(LastSet(s, f)) \in 1..Len(LastSet(s, f))
              /\ LastSet(s, f)[Len(LastSet(s, f))] \in ToSet(s) \cap SetEnd(f)
              /\ LastSet(s, f)[Len(LastSet(s, f))].msg.value \in Nat
<1> DEFINE k == LastSet(s, f)
<1>1. k \in Seq(Unit) /\ ToSet(k) = ToSet(s) \cap SetEnd(f)
  BY KeptType, KeptMembers DEF LastSet
<1> HIDE DEF k
<1>2. \A i \in 1..Len(k) : k[i] \in ToSet(s) \cap SetEnd(f)
  BY <1>1, LenProperties DEF ToSet
<1>3. k # << >> => Len(k) \in 1..Len(k)
  BY <1>1, EmptySeq, LenProperties
<1>4. \A u \in SetEnd(f) : u.msg.value \in Nat
  BY DEF SetEnd, Unit, Msg, DataMsg, SetMsg, ReplyMsg
<1>. QED BY <1>1, <1>2, <1>3, <1>4 DEF k

LEMMA FarAfterType ==
  ASSUME NEW far \in Setting, NEW s \in Seq(Unit)
  PROVE  /\ FarAfter(far, s) \in Setting
         /\ \A f \in FieldSet : FarAfter(far, s)[f]
              = IF LastSet(s, f) = << >> THEN far[f]
                ELSE LastSet(s, f)[Len(LastSet(s, f))].msg.value
<1>1. \A f \in FieldSet : far[f] \in Nat
  BY SettingType
<1>2. \A f \in FieldSet : LastSet(s, f) # << >> => LastSet(s, f)[Len(LastSet(s, f))].msg.value \in Nat
  BY LastSetType
<1>3. FarAfter(far, s) \in [FieldSet -> Nat]
  BY <1>1, <1>2 DEF FarAfter
<1>4. \A f \in FieldSet : FarAfter(far, s)[f]
              = IF LastSet(s, f) = << >> THEN far[f]
                ELSE LastSet(s, f)[Len(LastSet(s, f))].msg.value
  BY DEF FarAfter
<1>. QED BY <1>3, <1>4, SettingIsFunction

\* One part after the other.
LEMMA FarAfterConcat ==
  ASSUME NEW far \in Setting, NEW a \in Seq(Unit), NEW b \in Seq(Unit)
  PROVE  FarAfter(far, a \o b) = FarAfter(FarAfter(far, a), b)
<1> DEFINE mid == FarAfter(far, a)
           x == FarAfter(far, a \o b)
           y == FarAfter(mid, b)
<1>1. a \o b \in Seq(Unit)
  BY ConcatProperties
<1>2. /\ mid \in Setting
      /\ \A f \in FieldSet : mid[f] = IF LastSet(a, f) = << >> THEN far[f]
                                      ELSE LastSet(a, f)[Len(LastSet(a, f))].msg.value
  BY FarAfterType
<1>3. /\ x \in Setting
      /\ \A f \in FieldSet : x[f] = IF LastSet(a \o b, f) = << >> THEN far[f]
                                    ELSE LastSet(a \o b, f)[Len(LastSet(a \o b, f))].msg.value
  BY <1>1, FarAfterType
<1> HIDE DEF mid
<1>4. /\ y \in Setting
      /\ \A f \in FieldSet : y[f] = IF LastSet(b, f) = << >> THEN mid[f]
                                    ELSE LastSet(b, f)[Len(LastSet(b, f))].msg.value
  BY <1>2, FarAfterType
<1> HIDE DEF x, y
<1>5. ASSUME NEW f \in FieldSet PROVE x[f] = y[f]
  <2> DEFINE p == LastSet(a, f)
             q == LastSet(b, f)
             r == LastSet(a \o b, f)
  <2>1. p \in Seq(Unit) /\ q \in Seq(Unit) /\ r = p \o q
    BY LastSetType, KeptConcat DEF LastSet
  <2>2. /\ x[f] = IF r = << >> THEN far[f] ELSE r[Len(r)].msg.value
        /\ y[f] = IF q = << >> THEN mid[f] ELSE q[Len(q)].msg.value
        /\ mid[f] = IF p = << >> THEN far[f] ELSE p[Len(p)].msg.value
    BY <1>2, <1>3, <1>4
  <2> HIDE DEF p, q, r
  <2>3. /\ Len(p) \in Nat /\ Len(q) \in Nat /\ Len(r) = Len(p) + Len(q) /\ r \in Seq(Unit)
        /\ \A i \in 1..Len(q) : r[Len(p) + i] = q[i]
    BY <2>1, ConcatProperties, LenProperties
  <2>4. CASE q = << >>
    <3>1. r = p
      BY <2>1, <2>4, ConcatEmptySeq
    <3>. QED BY <2>2, <2>4, <3>1
  <2>5. CASE q # << >>
    <3>1. Len(q) \in 1..Len(q) /\ Len(r) # 0
      BY <2>1, <2>3, <2>5, EmptySeq
    <3>2. r # << >> /\ r[Len(r)] = q[Len(q)]
      BY <2>3, <3>1, EmptySeq
    <3>. QED BY <2>2, <2>5, <3>2
  <2>. QED BY <2>4, <2>5
<1>6. x = y
  BY <1>3, <1>4, <1>5, SettingIsFunction
<1>. QED BY <1>6 DEF x, y, mid

\* Octets that end no command change nothing.
LEMMA FarAfterSame ==
  ASSUME NEW far \in Setting, NEW s \in Seq(Unit),
         \A u \in ToSet(s) : ~(u.msg.is = "set" /\ u.left = 0)
  PROVE  FarAfter(far, s) = far
<1>1. \A f \in FieldSet : LastSet(s, f) = << >>
  <2>1. SUFFICES ASSUME NEW f \in FieldSet PROVE LastSet(s, f) = << >>
    OBVIOUS
  <2>2. ToSet(s) \cap SetEnd(f) = {}
    BY DEF SetEnd
  <2>. QED BY <2>2, KeptNone DEF LastSet
<1>2. \A f \in FieldSet : FarAfter(far, s)[f] = far[f]
  BY <1>1, FarAfterType
<1>. QED BY <1>2, FarAfterType, SettingIsFunction

\* The end of a command sets its field.
LEMMA FarAfterOne ==
  ASSUME NEW far \in Setting, NEW u \in Unit
  PROVE  /\ <<u>> \in Seq(Unit)
         /\ u.msg.is = "set" /\ u.left = 0 =>
              /\ u.msg.field \in FieldSet /\ u.msg.value \in Nat
              /\ FarAfter(far, <<u>>) = [far EXCEPT ![u.msg.field] = u.msg.value]
         /\ ~(u.msg.is = "set" /\ u.left = 0) => FarAfter(far, <<u>>) = far
<1> DEFINE s == <<u>>
<1>1. s \in Seq(Unit) /\ ToSet(s) = {u}
  BY DEF ToSet
<1>2. ASSUME ~(u.msg.is = "set" /\ u.left = 0) PROVE FarAfter(far, s) = far
  <2>1. \A x \in ToSet(s) : ~(x.msg.is = "set" /\ x.left = 0)
    BY <1>1, <1>2
  <2>. QED BY <1>1, <2>1, FarAfterSame
<1>3. ASSUME u.msg.is = "set", u.left = 0
      PROVE  /\ u.msg.field \in FieldSet /\ u.msg.value \in Nat
             /\ FarAfter(far, s) = [far EXCEPT ![u.msg.field] = u.msg.value]
  <2>1. u.msg.field \in FieldSet /\ u.msg.value \in Nat
    BY <1>3, FieldsAre DEF Unit, Msg, DataMsg, SetMsg, ReplyMsg
  <2> DEFINE g == [far EXCEPT ![u.msg.field] = u.msg.value]
             x == FarAfter(far, s)
  <2>2. far \in [FieldSet -> Nat]
    BY SettingIsFunction
  <2>3. g \in [FieldSet -> Nat] /\ \A f \in FieldSet : g[f] = IF f = u.msg.field THEN u.msg.value ELSE far[f]
    BY <2>1, <2>2
  <2>4. g \in Setting
    BY <2>3, SettingIsFunction
  <2>5. /\ x \in Setting
        /\ \A f \in FieldSet : x[f] = IF LastSet(s, f) = << >> THEN far[f]
                                      ELSE LastSet(s, f)[Len(LastSet(s, f))].msg.value
    BY <1>1, FarAfterType
  <2> HIDE DEF g, x
  <2>6. ASSUME NEW f \in FieldSet PROVE x[f] = g[f]
    <3> DEFINE k == LastSet(s, f)
    <3>1. u \in SetEnd(f) <=> f = u.msg.field
      BY <1>3 DEF SetEnd
    <3>2. k \in Seq(Unit) /\ ToSet(k) = {u} \cap SetEnd(f)
      BY <1>1, KeptType, KeptMembers DEF LastSet
    <3>3. k # << >> => Len(k) \in 1..Len(k) /\ k[Len(k)] \in {u} \cap SetEnd(f)
      BY <1>1, LastSetType
    <3> HIDE DEF k
    <3>4. CASE f = u.msg.field
      <4>1. k # << >>
        BY <3>1, <3>2, <3>4, ToSetEmpty
      <4>. QED BY <2>3, <2>5, <3>3, <3>4, <4>1 DEF k
    <3>5. CASE f # u.msg.field
      <4>1. k = << >>
        BY <3>1, <3>3, <3>5
      <4>. QED BY <2>3, <2>5, <3>5, <4>1 DEF k
    <3>. QED BY <3>4, <3>5
  <2>7. x = g
    BY <2>4, <2>5, <2>6, SettingIsFunction
  <2>. QED BY <2>1, <2>7 DEF x, g
<1>. QED BY <1>1, <1>2, <1>3

\* The end of every message is among its octets.
LEMMA FramedEnds ==
  ASSUME NEW s \in Seq(Msg)
  PROVE  \A m \in ToSet(s) : EndOf(m) \in ToSet(Framed(s))
<1> DEFINE Good(t) == \A m \in ToSet(t) : EndOf(m) \in ToSet(Framed(t))
           T == {t \in Seq(Msg) : Good(t)}
<1>1. << >> \in T
  BY ToSetEmpty
<1>2. ASSUME NEW t \in Seq(Msg), Good(t), NEW m \in Msg
      PROVE  Good(Append(t, m))
  <2> DEFINE o == Octets(m)
             f == Framed(t)
  <2>1. f \in Seq(Unit) /\ o \in Seq(Unit) /\ Framed(Append(t, m)) = f \o o
    BY FramedStep, OctetsShape
  <2>2. EndOf(m) \in ToSet(o)
    <3>1. o[Len(o)] = EndOf(m) /\ Len(o) \in {1, 2} /\ o \in Seq(Unit)
      BY OctetsShape DEF EndOf
    <3> HIDE DEF o
    <3>2. Len(o) \in DOMAIN o
      <4>1. DOMAIN o = 1..Len(o)
        BY <3>1, LenProperties
      <4>. QED BY <3>1, <4>1
    <3>. QED BY <3>1, <3>2 DEF ToSet
  <2>3. ToSet(Append(t, m)) = ToSet(t) \cup {m}
    BY ToSetAppend
  <2> HIDE DEF o, f
  <2>4. ToSet(f \o o) = ToSet(f) \cup ToSet(o)
    BY <2>1, ToSetConcat
  <2>. QED BY <1>2, <2>1, <2>2, <2>3, <2>4 DEF f
<1>3. T = Seq(Msg)
  <2>1. T \in SUBSET Seq(Msg) /\ \A t \in T, m \in Msg : Append(t, m) \in T
    BY <1>2, AppendProperties
  <2> HIDE DEF T
  <2>. QED BY <1>1, <2>1, SeqSet
<1>4. Good(s)
  BY <1>3
<1>. QED BY <1>4

\* The commands for a change make it.
LEMMA FarAfterCommands ==
  ASSUME NEW old \in Setting, NEW new \in Setting
  PROVE  FarAfter(old, Framed(CommandsTo(old, new))) = new
<1> DEFINE s == CommandsTo(old, new)
           o == Framed(s)
           x == FarAfter(old, o)
<1>1. /\ s \in Seq(SetMsg) /\ s \in Seq(Msg)
      /\ \A m \in ToSet(s) : m.value = new[m.field]
      /\ \A f \in FieldSet :
           new[f] # old[f] => [is |-> "set", field |-> f, value |-> new[f]] \in ToSet(s)
  <2>1. SetMsg \subseteq Msg
    BY DEF Msg
  <2>. QED BY <2>1, CommandsType, SeqMonotonic
<1>2. /\ o \in Seq(Unit) /\ \A u \in ToSet(o) : u.msg \in ToSet(s)
      /\ \A m \in ToSet(s) : EndOf(m) \in ToSet(o)
  BY <1>1, FramedStep, FramedJoined, FramedEnds
<1> HIDE DEF s, o
<1>3. /\ x \in Setting
      /\ \A f \in FieldSet : x[f] = IF LastSet(o, f) = << >> THEN old[f]
                                    ELSE LastSet(o, f)[Len(LastSet(o, f))].msg.value
  BY <1>2, FarAfterType
<1> HIDE DEF x
<1>4. ASSUME NEW f \in FieldSet PROVE x[f] = new[f]
  <2> DEFINE k == LastSet(o, f)
  <2>1. /\ k \in Seq(Unit) /\ ToSet(k) = ToSet(o) \cap SetEnd(f)
        /\ k # << >> => k[Len(k)] \in ToSet(o) \cap SetEnd(f)
    BY <1>2, LastSetType, KeptMembers DEF LastSet
  <2>2. x[f] = IF k = << >> THEN old[f] ELSE k[Len(k)].msg.value
    BY <1>3
  <2> HIDE DEF k
  <2>3. CASE k # << >>
    <3>1. k[Len(k)].msg \in ToSet(s) /\ k[Len(k)].msg.field = f
      BY <1>2, <2>1, <2>3 DEF SetEnd
    <3>. QED BY <1>1, <2>2, <2>3, <3>1
  <2>4. CASE k = << >>
    <3>1. ASSUME new[f] # old[f] PROVE FALSE
      <4> DEFINE m == [is |-> "set", field |-> f, value |-> new[f]]
      <4>1. m \in ToSet(s)
        BY <1>1, <3>1
      <4>2. EndOf(m) \in ToSet(o)
        BY <1>2, <4>1
      <4>3. EndOf(m) \in SetEnd(f)
        <5>1. EndOf(m) \in Unit
          BY <1>2, <4>2, ToSetType
        <5>. QED BY <5>1 DEF SetEnd, EndOf
      <4>4. ToSet(k) = {}
        BY <2>4, ToSetEmpty
      <4>. QED BY <2>1, <4>2, <4>3, <4>4
    <3>. QED BY <2>2, <2>4, <3>1
  <2>. QED BY <2>3, <2>4
<1>5. x = new
  BY <1>3, <1>4, SettingIsFunction
<1>. QED BY <1>5 DEF x, o, s

\* What was set no earlier than the n-th choice of c.
Since(n, c) == {FromTermios(c[w]) : w \in n..Len(c)}

\* A far end set to far reads each typed byte of s when it is set to something
\* chosen no earlier than the byte was typed.
InOrder(far, s, c) ==
  \A i \in 1..Len(s) :
    s[i].msg.is = "data" => FarAfter(far, SubSeq(s, 1, i - 1)) \in Since(s[i].msg.at, c)

\* The octets before one of a stream in two parts.
LEMMA BeforeConcat ==
  ASSUME NEW a \in Seq(Unit), NEW b \in Seq(Unit)
  PROVE  /\ \A i \in 1..Len(a) : SubSeq(a \o b, 1, i - 1) = SubSeq(a, 1, i - 1)
         /\ \A i \in 1..Len(b) :
              SubSeq(a \o b, 1, (Len(a) + i) - 1) = a \o SubSeq(b, 1, i - 1)
<1> DEFINE w == a \o b
           m == Len(a)
           n == Len(b)
<1>1. /\ w \in Seq(Unit) /\ m \in Nat /\ n \in Nat /\ Len(w) = m + n
      /\ \A i \in 1..m : w[i] = a[i]
      /\ \A i \in 1..n : w[m + i] = b[i]
  BY ConcatProperties, LenProperties
<1>0. \A s \in Seq(Unit) : \A k \in 0..Len(s) :
        /\ SubSeq(s, 1, k) \in Seq(Unit) /\ Len(SubSeq(s, 1, k)) = k
        /\ \A j \in 1..k : SubSeq(s, 1, k)[j] = s[j]
  BY SubSeqProperties, LenProperties
<1>2. ASSUME NEW i \in 1..m PROVE SubSeq(w, 1, i - 1) = SubSeq(a, 1, i - 1)
  <2> DEFINE k == i - 1
             x == SubSeq(w, 1, k)
             y == SubSeq(a, 1, k)
  <2> HIDE DEF w, m, n
  <2>1. k \in 0..Len(w) /\ k \in 0..Len(a) /\ \A j \in 1..k : j \in 1..m
    BY <1>1 DEF m
  <2> HIDE DEF k
  <2>2. /\ x \in Seq(Unit) /\ Len(x) = k /\ \A j \in 1..k : x[j] = w[j]
    BY <1>0, <1>1, <2>1
  <2>3. /\ y \in Seq(Unit) /\ Len(y) = k /\ \A j \in 1..k : y[j] = a[j]
    BY <1>0, <2>1
  <2> HIDE DEF x, y
  <2>4. \A j \in 1..Len(x) : x[j] = y[j]
    BY <1>1, <2>1, <2>2, <2>3
  <2>5. x = y
    BY <2>2, <2>3, <2>4, SeqEqual
  <2>. QED BY <2>5 DEF x, y, k
<1>3. ASSUME NEW i \in 1..n PROVE SubSeq(w, 1, (m + i) - 1) = a \o SubSeq(b, 1, i - 1)
  <2> DEFINE k == i - 1
             l == (m + i) - 1
             x == SubSeq(w, 1, l)
             y == SubSeq(b, 1, k)
             z == a \o y
  <2> HIDE DEF w, m, n
  <2>1. /\ l \in 0..Len(w) /\ k \in 0..Len(b) /\ l = m + k /\ k \in Nat
        /\ \A j \in 1..k : j \in 1..n
    BY <1>1 DEF n
  <2> HIDE DEF k, l
  <2>2. /\ x \in Seq(Unit) /\ Len(x) = l /\ \A j \in 1..l : x[j] = w[j]
    BY <1>0, <1>1, <2>1
  <2>3. /\ y \in Seq(Unit) /\ Len(y) = k /\ \A j \in 1..k : y[j] = b[j]
    BY <1>0, <2>1
  <2> HIDE DEF x, y
  <2>4. /\ z \in Seq(Unit) /\ Len(z) = m + k
        /\ \A j \in 1..m : z[j] = a[j]
        /\ \A j \in 1..k : z[m + j] = y[j]
    <3>1. /\ z \in Seq(Unit) /\ Len(z) = Len(a) + Len(y)
          /\ \A j \in 1..Len(a) : z[j] = a[j]
          /\ \A j \in 1..Len(y) : z[Len(a) + j] = y[j]
      <4>1. a \in Seq(Unit) /\ y \in Seq(Unit)
        BY <2>3
      <4>. QED BY <4>1, ConcatProperties
    <3>. QED BY <2>3, <3>1 DEF m
  <2> HIDE DEF z
  <2>5. ASSUME NEW j \in 1..Len(x) PROVE x[j] = z[j]
    <3>1. CASE j \in 1..m
      BY <1>1, <2>1, <2>2, <2>4, <3>1
    <3>2. CASE j \notin 1..m
      <4>1. j - m \in 1..k /\ m + (j - m) = j /\ j \in 1..l
        BY <1>1, <2>1, <2>2, <3>2
      <4>2. x[j] = w[j] /\ w[m + (j - m)] = b[j - m] /\ z[m + (j - m)] = y[j - m]
        BY <1>1, <2>1, <2>2, <2>4, <4>1
      <4>. QED BY <2>3, <4>1, <4>2
    <3>. QED BY <3>1, <3>2
  <2>6. x = z
    BY <2>1, <2>2, <2>4, <2>5, SeqEqual
  <2>. QED BY <2>6 DEF x, z, y, k, l
<1>. QED BY <1>2, <1>3

LEMMA InOrderConcat ==
  ASSUME NEW far \in Setting, NEW a \in Seq(Unit), NEW b \in Seq(Unit), NEW c
  PROVE  InOrder(far, a \o b, c) <=> InOrder(far, a, c) /\ InOrder(FarAfter(far, a), b, c)
<1> DEFINE w == a \o b
           m == Len(a)
           n == Len(b)
           Fine(s, i, e) == s[i].msg.is = "data" => e \in Since(s[i].msg.at, c)
<1>1. /\ w \in Seq(Unit) /\ m \in Nat /\ n \in Nat /\ Len(w) = m + n
      /\ \A i \in 1..m : w[i] = a[i]
      /\ \A i \in 1..n : w[m + i] = b[i]
  BY ConcatProperties, LenProperties
<1>2. \A i \in 1..m : Fine(w, i, FarAfter(far, SubSeq(w, 1, i - 1)))
                        <=> Fine(a, i, FarAfter(far, SubSeq(a, 1, i - 1)))
  <2>1. \A i \in 1..m : SubSeq(w, 1, i - 1) = SubSeq(a, 1, i - 1)
    BY BeforeConcat
  <2>. QED BY <1>1, <2>1
<1>3. \A i \in 1..n : Fine(w, m + i, FarAfter(far, SubSeq(w, 1, (m + i) - 1)))
                        <=> Fine(b, i, FarAfter(FarAfter(far, a), SubSeq(b, 1, i - 1)))
  <2>1. \A i \in 1..n : SubSeq(w, 1, (m + i) - 1) = a \o SubSeq(b, 1, i - 1)
    BY BeforeConcat
  <2>2. \A i \in 1..n : SubSeq(b, 1, i - 1) \in Seq(Unit)
    BY <1>1, SubSeqProperties
  <2>3. \A i \in 1..n : FarAfter(far, a \o SubSeq(b, 1, i - 1))
                          = FarAfter(FarAfter(far, a), SubSeq(b, 1, i - 1))
    BY <2>2, FarAfterConcat
  <2>. QED BY <1>1, <2>1, <2>3
<1>4. InOrder(far, w, c) <=> \A i \in 1..Len(w) : Fine(w, i, FarAfter(far, SubSeq(w, 1, i - 1)))
  BY DEF InOrder
<1>5. InOrder(far, a, c) <=> \A i \in 1..m : Fine(a, i, FarAfter(far, SubSeq(a, 1, i - 1)))
  BY DEF InOrder
<1>6. InOrder(FarAfter(far, a), b, c)
        <=> \A i \in 1..n : Fine(b, i, FarAfter(FarAfter(far, a), SubSeq(b, 1, i - 1)))
  BY DEF InOrder
<1> DEFINE FineW(i) == Fine(w, i, FarAfter(far, SubSeq(w, 1, i - 1)))
<1>7. (\A i \in 1..Len(w) : FineW(i))
        <=> (\A i \in 1..m : FineW(i)) /\ (\A i \in 1..n : FineW(m + i))
  <2> HIDE DEF w, m, n, FineW
  <2>1. /\ \A i \in 1..m : i \in 1..Len(w)
        /\ \A i \in 1..n : m + i \in 1..Len(w)
        /\ \A i \in 1..Len(w) : i \in 1..m \/ (i - m \in 1..n /\ m + (i - m) = i)
    BY <1>1
  <2>. QED BY <2>1
<1>8. (\A i \in 1..m : FineW(i)) <=> InOrder(far, a, c)
  BY <1>2, <1>5
<1>9. (\A i \in 1..n : FineW(m + i)) <=> InOrder(FarAfter(far, a), b, c)
  BY <1>3, <1>6
<1>. QED BY <1>4, <1>7, <1>8, <1>9

\* Octets of no typed byte are in any order; and if none ends a command, what they
\* go to must be set to something recent enough for each typed byte.
LEMMA InOrderSimple ==
  ASSUME NEW far \in Setting, NEW s \in Seq(Unit), NEW c
  PROVE  /\ (\A u \in ToSet(s) : u.msg.is # "data") => InOrder(far, s, c)
         /\ (\A u \in ToSet(s) : u.msg.is = "data" /\ far \in Since(u.msg.at, c))
              => InOrder(far, s, c)
<1>1. /\ Len(s) \in Nat /\ \A i \in 1..Len(s) : s[i] \in ToSet(s)
  BY LenProperties DEF ToSet
<1>2. ASSUME \A u \in ToSet(s) : u.msg.is # "data"
      PROVE  InOrder(far, s, c)
  BY <1>1, <1>2 DEF InOrder
<1>3. ASSUME \A u \in ToSet(s) : u.msg.is = "data" /\ far \in Since(u.msg.at, c)
      PROVE  InOrder(far, s, c)
  <2>1. ASSUME NEW i \in 1..Len(s)
        PROVE  FarAfter(far, SubSeq(s, 1, i - 1)) = far
    <3> DEFINE x == SubSeq(s, 1, i - 1)
    <3>1. i - 1 \in 0..Len(s)
      BY <1>1
    <3>2. x \in Seq(Unit) /\ SubSeq(s, (i - 1) + 1, Len(s)) \in Seq(Unit)
             /\ x \o SubSeq(s, (i - 1) + 1, Len(s)) = s
      BY <3>1, CutInTwo
    <3> DEFINE y == SubSeq(s, (i - 1) + 1, Len(s))
    <3>3. ToSet(x) \subseteq ToSet(s)
      <4>1. x \in Seq(Unit) /\ y \in Seq(Unit) /\ x \o y = s
        BY <3>2
      <4> HIDE DEF x, y
      <4>2. ToSet(x \o y) = ToSet(x) \cup ToSet(y)
        BY <4>1, ToSetConcat
      <4>. QED BY <4>1, <4>2
    <3> HIDE DEF x
    <3>4. \A u \in ToSet(x) : ~(u.msg.is = "set" /\ u.left = 0)
      BY <1>3, <3>3
    <3>. QED BY <3>2, <3>4, FarAfterSame DEF x
  <2>. QED BY <1>1, <1>3, <2>1 DEF InOrder
<1>. QED BY <1>2, <1>3

\* More choices make nothing late.
LEMMA SinceMore ==
  ASSUME NEW c \in Seq(Termios), NEW t \in Termios, NEW n \in Nat \ {0}
  PROVE  Since(n, c) \subseteq Since(n, Append(c, t))
<1> DEFINE d == Append(c, t)
<1>1. /\ Len(c) \in Nat /\ Len(d) = Len(c) + 1 /\ \A i \in 1..Len(c) : d[i] = c[i]
  BY AppendProperties, LenProperties
<1> HIDE DEF d
<1>2. ASSUME NEW x \in Since(n, c) PROVE x \in Since(n, d)
  <2>1. PICK w \in n..Len(c) : x = FromTermios(c[w])
    BY DEF Since
  <2>2. w \in 1..Len(c) /\ w \in n..Len(d)
    BY <1>1
  <2>. QED BY <1>1, <2>1, <2>2 DEF Since
<1>. QED BY <1>2 DEF d

LEMMA InOrderMore ==
  ASSUME NEW far \in Setting, NEW s \in Seq(Unit), NEW c \in Seq(Termios), NEW t \in Termios,
         InOrder(far, s, c)
  PROVE  InOrder(far, s, Append(c, t))
<1> SUFFICES ASSUME NEW i \in 1..Len(s), s[i].msg.is = "data"
             PROVE  FarAfter(far, SubSeq(s, 1, i - 1)) \in Since(s[i].msg.at, Append(c, t))
  BY DEF InOrder
<1>1. s[i].msg.at \in Nat \ {0}
  <2>1. s[i] \in Unit
    BY ElementOfSeq
  <2>. QED BY <2>1 DEF Unit, Msg, DataMsg, SetMsg, ReplyMsg
<1>2. FarAfter(far, SubSeq(s, 1, i - 1)) \in Since(s[i].msg.at, c)
  BY DEF InOrder
<1>. QED BY <1>1, <1>2, SinceMore

\* What is still to come to the far end's line: the stream but for the replies.
NotReply == Unit \ ReplyUnit
ToCome   == Kept(outbox, NotReply) \o Kept(FlattenSeq(upwork), NotReply)

\* Nothing typed is from the future.
KeysSince == /\ \A m \in ToSet(keys) : m.at <= Len(chosen)
             /\ \A m \in ToSet(FlattenSeq(upread)) : m.at <= Len(chosen)

\* The far end's line, had it stood as the loop first found the port.
FarLine == FarEnd(pristine)

\* When all of it has come the far end is set to what was last relayed, and each
\* typed byte comes when it is set to something recent enough.
FarFollows == loop = "session" /\ life # "gone" =>
                /\ FarAfter(FarLine, ToCome) = last
                /\ com_ok => InOrder(FarLine, ToCome, chosen)

HeardAfter == heard.msg.is = "data" /\ com_ok /\ loop = "session" =>
                FarLine \in Since(heard.msg.at, chosen)

LEMMA FarLineType ==
  ASSUME TypeParts, loop # "spawned"
  PROVE  /\ FarLine \in Setting
         /\ \A f \in FieldSet : FarLine[f] = IF told[f] = Nothing THEN pristine[f] ELSE told[f]
<1>1. pristine \in Setting /\ told \in [FieldSet -> Nat \cup {Nothing}]
  BY DEF TypeParts, Turns, PeerTypeOK
<1>2. \A f \in FieldSet : pristine[f] \in Nat
  BY <1>1, SettingType
<1>3. FarLine = [f \in FieldSet |-> IF told[f] = Nothing THEN pristine[f] ELSE told[f]]
  BY FieldsAre DEF FarLine, FarEnd
<1>4. FarLine \in [FieldSet -> Nat]
  BY <1>1, <1>2, <1>3
<1>. QED BY <1>3, <1>4, SettingIsFunction

LEMMA SinceStep ==
  ASSUME TypeParts, KeysSince, [Next]_vars
  PROVE  KeysSince'
<1>0. /\ keys \in Seq(DataMsg) /\ upread \in Seq(Seq(DataMsg)) /\ chosen \in Seq(Termios)
      /\ Len(chosen) \in Nat /\ FlattenSeq(upread) \in Seq(DataMsg)
  BY LenProperties, FlatType DEF TypeParts, PortTypeOK, TaskTypeOK
<1>1. ASSUME UNCHANGED <<keys, upread, chosen>> PROVE KeysSince'
  BY <1>1 DEF KeysSince
<1>2. ASSUME UNCHANGED <<keys, chosen>>, upread' = << >> PROVE KeysSince'
  BY <1>2, FlatEmpty, ToSetEmpty DEF KeysSince
<1>3. CASE TakePristine \/ Connect \/ Offer \/ OfferFails
  BY <1>1, <1>3 DEF TakePristine, Connect, Offer, OfferFails, port, upTask
<1>4. CASE DrainReads
  BY <1>4, ToSetEmpty DEF DrainReads, upTask, KeysSince
<1>5. CASE EndSession \/ UpSyncs
  BY <1>2, <1>5 DEF EndSession, UpSyncs, port
<1>6. CASE UpReads
  <2> DEFINE r == ReadOf(keys)
             l == LeftBy(keys)
  <2>1. keys' = l /\ upread' = Cells(r) /\ chosen' = chosen
    BY <1>6 DEF UpReads
  <2>2. r \in Seq(DataMsg) /\ l \in Seq(DataMsg) /\ r \o l = keys
    BY <1>0, ReadSplits
  <2> HIDE DEF r, l
  <2>3. FlattenSeq(Cells(r)) = r
    BY <2>2, CellsWhole
  <2>4. ToSet(r \o l) = ToSet(r) \cup ToSet(l)
    BY <2>2, ToSetConcat
  <2>. QED BY <2>1, <2>2, <2>3, <2>4 DEF KeysSince
<1>7. CASE PollTick \/ UpLocks \/ UpWrites \/ UpFails
  BY <1>1, <1>7 DEF PollTick, UpLocks, UpWrites, UpFails, port, upTask
<1>8. CASE DownReads \/ DownLocks \/ DownReplies \/ DownReplyFails \/ DownWrites \/ DownFails
             \/ DownEnds
  BY <1>1, <1>8 DEF DownReads, DownLocks, DownReplies, DownReplyFails, DownWrites, DownFails,
     DownEnds, port, upTask
<1>9. CASE ConsumerTypes
  <2>1. PICK b \in KeyBytes :
          keys' = Append(keys, [is |-> "data", byte |-> b, n |-> typed + 1, at |-> Len(chosen)])
    BY <1>9 DEF ConsumerTypes
  <2> DEFINE m == [is |-> "data", byte |-> b, n |-> typed + 1, at |-> Len(chosen)]
  <2>2. keys' = Append(keys, m) /\ UNCHANGED <<upread, chosen>>
    BY <1>9, <2>1 DEF ConsumerTypes, upTask
  <2>3. m \in DataMsg /\ m.at <= Len(chosen)
    <3>1. Len(chosen) \in Nat \ {0} /\ typed \in Nat
      BY <1>0, EmptySeq DEF TypeParts, PortTypeOK
    <3>. QED BY <3>1 DEF DataMsg
  <2> HIDE DEF m
  <2>4. ToSet(keys') = ToSet(keys) \cup {m}
    BY <1>0, <2>2, <2>3, ToSetAppend
  <2>. QED BY <2>2, <2>3, <2>4 DEF KeysSince
<1>10. CASE ConsumerConfigures
  <2>1. PICK tio \in Termioses : chosen' = Append(chosen, tio)
    BY <1>10 DEF ConsumerConfigures
  <2>2. Len(chosen') = Len(chosen) + 1 /\ UNCHANGED <<keys, upread>>
    BY <1>0, <1>10, <2>1, RfcAssumption, AppendProperties DEF ConsumerConfigures, upTask
  <2>3. \A m \in DataMsg : m.at <= Len(chosen) => m.at <= Len(chosen')
    BY <1>0, <2>2 DEF DataMsg
  <2>4. ToSet(keys) \subseteq DataMsg /\ ToSet(FlattenSeq(upread)) \subseteq DataMsg
    BY <1>0, ToSetType
  <2>. QED BY <2>2, <2>3, <2>4 DEF KeysSince
<1>11. CASE ConsumerReads \/ PeerSays \/ PeerReads \/ PeerLeaves
  BY <1>1, <1>11 DEF ConsumerReads, PeerSays, PeerReads, PeerLeaves, port, upTask
<1>12. CASE UNCHANGED vars
  BY <1>1, <1>12 DEF vars, port, upTask
<1>. QED BY <1>3, <1>4, <1>5, <1>6, <1>7, <1>8, <1>9, <1>10, <1>11, <1>12
     DEF Next, Loop, Up, Down

\* What is relayed brings the far end to what then counts as relayed.
LEMMA RelayedFollows ==
  ASSUME PortTypeOK, last \in Setting, com_ok \in BOOLEAN
  PROVE  LET r == Kept(FlattenSeq(Relayed), NotReply)
         IN  /\ r \in Seq(Unit) /\ FarAfter(last, r) = Latest
             /\ \A u \in ToSet(r) : u.msg.is # "data"
<1> DEFINE s == CommandsTo(last, Config)
           r == Kept(FlattenSeq(Relayed), NotReply)
<1>1. /\ s \in Seq(Msg) /\ ToSet(s) \subseteq SetMsg /\ Framed(s) \in Seq(Unit)
  BY RelayedShape
<1>2. Config \in Setting
  BY ConfigType
<1>3. CASE com_ok /\ Config # last
  <2>1. Relayed = <<Framed(s)>> /\ Latest = Config
    BY <1>3 DEF Relayed, Latest
  <2>2. FlattenSeq(<<Framed(s)>>) = Framed(s)
    BY <1>1, FlatOne
  <2>3. \A u \in ToSet(Framed(s)) : u \in Unit /\ u.msg \in SetMsg
    BY <1>1, FramedJoined, ToSetType
  <2>4. ToSet(Framed(s)) \subseteq NotReply
    BY <2>3 DEF NotReply, ReplyUnit, ReplyMsg, SetMsg
  <2>5. FarAfter(last, Framed(s)) = Config
    BY <1>2, FarAfterCommands
  <2> HIDE DEF s
  <2>6. r = Framed(s)
    BY <1>1, <2>1, <2>2, <2>4, KeptAll
  <2>7. \A u \in ToSet(r) : u.msg.is # "data"
    BY <2>3, <2>6 DEF SetMsg
  <2>. QED BY <1>1, <2>1, <2>5, <2>6, <2>7
<1>4. CASE ~(com_ok /\ Config # last)
  <2>1. Relayed = << >> /\ Latest = last
    BY <1>4 DEF Relayed, Latest
  <2>2. r = << >>
    BY <2>1, FlatEmpty, KeptEmpty
  <2>3. << >> \in Seq(Unit) /\ \A u \in ToSet(<< >>) : FALSE
    BY ToSetEmpty
  <2>4. FarAfter(last, << >>) = last
    BY <2>3, FarAfterSame
  <2>. QED BY <2>1, <2>2, <2>3, <2>4
<1>. QED BY <1>3, <1>4

\* The settings now are recent enough for whatever was typed.
LEMMA ConfigSince ==
  ASSUME PortTypeOK, NEW n \in Nat, n <= Len(chosen)
  PROVE  Config \in Since(n, chosen)
<1>1. Len(chosen) \in n..Len(chosen)
  BY LenProperties DEF PortTypeOK
<1>. QED BY <1>1 DEF Config, Since

LEMMA ToComeType ==
  ASSUME TypeParts
  PROVE  /\ outbox \in Seq(Unit) /\ FlattenSeq(upwork) \in Seq(Unit)
         /\ Kept(outbox, NotReply) \in Seq(Unit)
         /\ Kept(FlattenSeq(upwork), NotReply) \in Seq(Unit)
         /\ ToCome \in Seq(Unit)
<1>1. outbox \in Seq(Unit) /\ upwork \in Seq(Seq(Unit))
  BY DEF TypeParts, PeerTypeOK, TaskTypeOK
<1>2. FlattenSeq(upwork) \in Seq(Unit)
  BY <1>1, FlatType
<1>3. Kept(outbox, NotReply) \in Seq(Unit) /\ Kept(FlattenSeq(upwork), NotReply) \in Seq(Unit)
  BY <1>1, <1>2, KeptType
<1>. QED BY <1>1, <1>2, <1>3, ConcatProperties DEF ToCome

\* Nothing added to what is to come, and nothing read.
LEMMA FollowsSame ==
  ASSUME FarFollows, HeardAfter, ToCome' = ToCome, com_ok' => com_ok,
         UNCHANGED <<loop, pristine, chosen, last, heard, told>>,
         life' # "gone" => life # "gone"
  PROVE  FarFollows' /\ HeardAfter'
<1>1. FarLine' = FarLine
  BY DEF FarLine, FarEnd
<1>2. FarFollows'
  BY <1>1 DEF FarFollows
<1>. QED BY <1>1, <1>2 DEF HeardAfter

\* More work: the commands for what changed, then what was read.
LEMMA WorkFollows ==
  ASSUME TypeParts, TypeParts', KeysSince, FarFollows, HeardAfter,
         loop = "session", upwork = << >>, upwork' = Relayed \o FramedCells(upread),
         last' = Latest,
         UNCHANGED <<loop, life, pristine, chosen, com_ok, outbox, heard, told>>
  PROVE  FarFollows' /\ HeardAfter'
<1>0. FarLine' = FarLine
  BY DEF FarLine, FarEnd
<1>1. HeardAfter'
  BY <1>0 DEF HeardAfter
<1>2. SUFFICES ASSUME life # "gone"
               PROVE  FarFollows'
  BY <1>1 DEF FarFollows
<1>3. /\ PortTypeOK /\ last \in Setting /\ com_ok \in BOOLEAN /\ FarLine \in Setting
      /\ upread \in Seq(Seq(DataMsg)) /\ Latest \in Setting
  BY FarLineType, RelayedType DEF TypeParts, Turns, TaskTypeOK
<1> DEFINE ko == Kept(outbox, NotReply)
           r  == Kept(FlattenSeq(Relayed), NotReply)
           q  == Kept(Framed(FlattenSeq(upread)), NotReply)
<1>4. /\ r \in Seq(Unit) /\ FarAfter(last, r) = Latest
      /\ \A u \in ToSet(r) : u.msg.is # "data"
  BY <1>3, RelayedFollows
<1>5. ko \in Seq(Unit) /\ ToCome = ko
  <2>1. ko \in Seq(Unit)
    BY ToComeType
  <2>2. Kept(FlattenSeq(upwork), NotReply) = << >>
    BY FlatEmpty, KeptEmpty
  <2>. QED BY <2>1, <2>2, ConcatEmptySeq DEF ToCome
<1>6. FlattenSeq(upread) \in Seq(DataMsg) /\ FlattenSeq(upread) \in Seq(Msg)
      /\ upread \in Seq(Seq(Msg))
  <2>1. Seq(DataMsg) \subseteq Seq(Msg)
    BY SeqMonotonic DEF Msg
  <2>2. FlattenSeq(upread) \in Seq(DataMsg)
    BY <1>3, FlatType
  <2>3. upread \in Seq(Seq(Msg))
    BY <1>3, <2>1, SeqMonotonic
  <2>. QED BY <2>1, <2>2, <2>3
<1>7. /\ q \in Seq(Unit)
      /\ \A u \in ToSet(q) : u.msg \in ToSet(FlattenSeq(upread)) /\ u.msg \in DataMsg
  <2> DEFINE o == Framed(FlattenSeq(upread))
  <2>1. o \in Seq(Unit) /\ \A u \in ToSet(o) : u.msg \in ToSet(FlattenSeq(upread))
    BY <1>6, FramedStep, FramedJoined
  <2>2. ToSet(FlattenSeq(upread)) \subseteq DataMsg
    BY <1>6, ToSetType
  <2> HIDE DEF o
  <2>3. Kept(o, NotReply) \in Seq(Unit) /\ ToSet(Kept(o, NotReply)) \subseteq ToSet(o)
    BY <2>1, KeptType, KeptMembers
  <2>. QED BY <2>1, <2>2, <2>3 DEF o
<1>8. ToCome' = ko \o (r \o q)
  <2> DEFINE a == Relayed
             b == FramedCells(upread)
  <2>1. a \in Seq(Seq(Unit)) /\ b \in Seq(Seq(Unit))
        /\ FlattenSeq(b) = Framed(FlattenSeq(upread))
    BY <1>3, <1>6, RelayedType, FramedCellsShape, FramedFlat
  <2> HIDE DEF a, b
  <2>2. FlattenSeq(a \o b) = FlattenSeq(a) \o FlattenSeq(b)
    BY <2>1, FlatConcat
  <2>3. FlattenSeq(a) \in Seq(Unit) /\ FlattenSeq(b) \in Seq(Unit)
    BY <2>1, FlatType
  <2>4. Kept(FlattenSeq(a) \o FlattenSeq(b), NotReply)
          = Kept(FlattenSeq(a), NotReply) \o Kept(FlattenSeq(b), NotReply)
    BY <2>3, KeptConcat
  <2>5. Kept(FlattenSeq(upwork'), NotReply) = r \o q
    BY <2>1, <2>2, <2>4 DEF a, b
  <2>. QED BY <2>5 DEF ToCome
<1> HIDE DEF ko, r, q
<1>9. FarAfter(FarLine, ko) = last /\ (com_ok => InOrder(FarLine, ko, chosen))
  BY <1>2, <1>5 DEF FarFollows
<1>10. r \o q \in Seq(Unit)
  BY <1>4, <1>7, ConcatProperties
<1>11. FarAfter(Latest, q) = Latest
  <2>1. \A u \in ToSet(q) : ~(u.msg.is = "set" /\ u.left = 0)
    BY <1>7 DEF DataMsg
  <2>. QED BY <1>3, <1>7, <2>1, FarAfterSame
<1>12. FarAfter(FarLine, ko \o (r \o q)) = Latest
  <2>1. FarAfter(FarLine, ko \o (r \o q)) = FarAfter(FarAfter(FarLine, ko), r \o q)
    BY <1>3, <1>5, <1>10, FarAfterConcat
  <2>2. FarAfter(last, r \o q) = FarAfter(FarAfter(last, r), q)
    BY <1>3, <1>4, <1>7, FarAfterConcat
  <2>. QED BY <1>4, <1>9, <1>11, <2>1, <2>2
<1>13. ASSUME com_ok PROVE InOrder(FarLine, ko \o (r \o q), chosen)
  <2>1. InOrder(last, r, chosen)
    BY <1>3, <1>4, InOrderSimple
  <2>2. \A u \in ToSet(q) : u.msg.is = "data" /\ Latest \in Since(u.msg.at, chosen)
    <3> SUFFICES ASSUME NEW u \in ToSet(q)
                 PROVE  u.msg.is = "data" /\ Latest \in Since(u.msg.at, chosen)
      OBVIOUS
    <3>1. u.msg \in ToSet(FlattenSeq(upread)) /\ u.msg \in DataMsg
      BY <1>7
    <3>2. u.msg.is = "data" /\ u.msg.at \in Nat /\ u.msg.at <= Len(chosen)
      BY <3>1 DEF DataMsg, KeysSince
    <3>3. Config \in Since(u.msg.at, chosen)
      BY <1>3, <3>2, ConfigSince
    <3>. QED BY <1>13, <3>2, <3>3 DEF Latest
  <2>3. InOrder(Latest, q, chosen)
    BY <1>3, <1>7, <2>2, InOrderSimple
  <2>4. InOrder(last, r \o q, chosen)
    BY <1>3, <1>4, <1>7, <2>1, <2>3, InOrderConcat
  <2>. QED BY <1>3, <1>5, <1>9, <1>10, <1>13, <2>4, InOrderConcat
<1>. QED BY <1>0, <1>8, <1>12, <1>13 DEF FarFollows

\* The peer reads the next octet of the stream.
LEMMA ReadFollows ==
  ASSUME TypeParts, TypeParts', FarFollows, HeardAfter, PeerReads
  PROVE  FarFollows' /\ HeardAfter'
<1> DEFINE u == Head(outbox)
           t == outbox'
           w == Kept(FlattenSeq(upwork), NotReply)
           ko == Kept(t, NotReply)
<1>1. /\ life # "gone" /\ outbox # << >> /\ heard' = u /\ t = Tail(outbox)
      /\ told' = IF u.left = 0 /\ u.msg.is = "set"
                 THEN [told EXCEPT ![u.msg.field] = u.msg.value] ELSE told
      /\ UNCHANGED <<loop, pristine, chosen, last, upwork, com_ok, life>>
  BY DEF PeerReads, loops, port, upTask, downTask
<1>2. u \in Unit /\ t \in Seq(Unit) /\ outbox = <<u>> \o t
  <2>1. outbox \in Seq(Unit)
    BY ToComeType
  <2>. QED BY <1>1, <2>1, HeadTailProperties
<1>3. loop = "session" /\ loop # "spawned"
  BY <1>1 DEF TypeParts, Turns
<1>4. /\ FarLine \in Setting /\ FarLine' \in Setting
      /\ \A f \in FieldSet : FarLine'[f] = IF told'[f] = Nothing THEN pristine'[f] ELSE told'[f]
  <2>1. (TypeParts /\ loop # "spawned" =>
           /\ FarLine \in Setting
           /\ \A f \in FieldSet : FarLine[f] = IF told[f] = Nothing THEN pristine[f] ELSE told[f])'
    BY FarLineType, PTL
  <2>2. loop' # "spawned"
    BY <1>1, <1>3
  <2>. QED BY <1>3, <2>1, <2>2, FarLineType
<1> HIDE DEF u, t
<1>5. FarLine' = FarAfter(FarLine, <<u>>)
  <2>1. /\ told \in [FieldSet -> Nat \cup {Nothing}]
        /\ \A f \in FieldSet : FarLine[f] = IF told[f] = Nothing THEN pristine[f] ELSE told[f]
    BY <1>3, FarLineType DEF TypeParts, PeerTypeOK
  <2>2. \A f \in FieldSet : FarLine'[f] = IF told'[f] = Nothing THEN pristine[f] ELSE told'[f]
    BY <1>1, <1>4
  <2>3. CASE u.msg.is = "set" /\ u.left = 0
    <3> DEFINE g == FarAfter(FarLine, <<u>>)
    <3>1. /\ u.msg.field \in FieldSet /\ u.msg.value \in Nat
          /\ g = [FarLine EXCEPT ![u.msg.field] = u.msg.value]
      BY <1>2, <1>4, <2>3, FarAfterOne
    <3>2. FarLine \in [FieldSet -> Nat]
      BY <1>4, SettingIsFunction
    <3> HIDE DEF g
    <3>3. g \in [FieldSet -> Nat]
          /\ \A f \in FieldSet : g[f] = IF f = u.msg.field THEN u.msg.value ELSE FarLine[f]
      BY <3>1, <3>2
    <3>4. \A f \in FieldSet : told'[f] = IF f = u.msg.field THEN u.msg.value ELSE told[f]
      BY <1>1, <2>1, <2>3
    <3>5. u.msg.value # Nothing
      BY <3>1, RfcAssumption
    <3>6. \A f \in FieldSet : FarLine'[f] = g[f]
      BY <2>1, <2>2, <3>3, <3>4, <3>5
    <3>7. g \in Setting
      BY <3>3, SettingIsFunction
    <3>. QED BY <1>4, <3>6, <3>7, SettingIsFunction DEF g
  <2>4. CASE ~(u.msg.is = "set" /\ u.left = 0)
    <3>1. FarAfter(FarLine, <<u>>) = FarLine
      BY <1>2, <1>4, <2>4, FarAfterOne
    <3>2. told' = told
      BY <1>1, <2>4
    <3>3. FarLine' = FarLine
      BY <1>1, <3>2 DEF FarLine, FarEnd
    <3>. QED BY <3>1, <3>3
  <2>. QED BY <2>3, <2>4
<1>6. w \in Seq(Unit) /\ ko \in Seq(Unit) /\ ToCome' = ko \o w /\ ko \o w \in Seq(Unit)
  <2>1. w \in Seq(Unit) /\ ko \in Seq(Unit)
    BY <1>2, ToComeType, KeptType
  <2>2. ToCome' = ko \o w
    BY <1>1 DEF ToCome, t
  <2>. QED BY <2>1, <2>2, ConcatProperties
<1>7. <<u>> \in Seq(Unit) /\ ToSet(<<u>>) = {u}
  BY <1>2 DEF ToSet
<1>8. ToCome = (Kept(<<u>>, NotReply) \o ko) \o w
  <2>1. Kept(<<u>> \o t, NotReply) = Kept(<<u>>, NotReply) \o Kept(t, NotReply)
    BY <1>2, <1>7, KeptConcat
  <2>. QED BY <1>2, <2>1 DEF ToCome
<1> DEFINE x == ko \o w
<1>9. CASE u \notin NotReply
  <2>1. u.msg.is = "reply"
    BY <1>2, <1>9 DEF NotReply, ReplyUnit, ReplyMsg
  <2>2. Kept(<<u>>, NotReply) = << >>
    BY <1>7, <1>9, KeptNone
  <2>3. ToCome = x
    <3>1. << >> \o ko = ko
      BY <1>6, ConcatEmptySeq
    <3>. QED BY <1>8, <2>2, <3>1
  <2>4. FarLine' = FarLine
    BY <1>2, <1>4, <1>5, <2>1, FarAfterOne
  <2>5. HeardAfter'
    BY <1>1, <2>1 DEF HeardAfter
  <2>6. ToCome' = ToCome
    BY <1>6, <2>3
  <2>. QED BY <1>1, <2>4, <2>5, <2>6 DEF FarFollows
<1>10. CASE u \in NotReply
  <2>1. Kept(<<u>>, NotReply) = <<u>>
    BY <1>7, <1>10, KeptAll
  <2>2. ToCome = <<u>> \o x
    <3>1. (<<u>> \o ko) \o w = <<u>> \o (ko \o w)
      BY <1>6, <1>7, UnitsRegrouped, Zenon
    <3>. QED BY <1>8, <2>1, <3>1
  <2>3. FarAfter(FarLine, <<u>> \o x) = last
        /\ (com_ok => InOrder(FarLine, <<u>> \o x, chosen))
    BY <1>1, <1>3, <2>2 DEF FarFollows
  <2> HIDE DEF x
  <2>4. x \in Seq(Unit) /\ ToCome' = x
    BY <1>6 DEF x
  <2>5. FarAfter(FarLine', x) = last
    <3>1. FarAfter(FarLine, <<u>> \o x) = FarAfter(FarAfter(FarLine, <<u>>), x)
      BY <1>4, <1>7, <2>4, FarAfterConcat
    <3>. QED BY <1>5, <2>3, <3>1
  <2>6. com_ok => InOrder(FarLine, <<u>>, chosen) /\ InOrder(FarLine', x, chosen)
    <3>1. InOrder(FarLine, <<u>> \o x, chosen)
            <=> InOrder(FarLine, <<u>>, chosen) /\ InOrder(FarAfter(FarLine, <<u>>), x, chosen)
      BY <1>4, <1>7, <2>4, InOrderConcat
    <3>. QED BY <1>5, <2>3, <3>1
  <2>7. FarFollows'
    BY <1>1, <2>4, <2>5, <2>6 DEF FarFollows
  <2>8. ASSUME u.msg.is = "data", com_ok
        PROVE  FarLine' \in Since(u.msg.at, chosen)
    <3>1. FarLine' = FarLine
      BY <1>2, <1>4, <1>5, <2>8, FarAfterOne
    <3>2. FarAfter(FarLine, SubSeq(<<u>>, 1, 1 - 1)) \in Since(u.msg.at, chosen)
      <4>1. Len(<<u>>) = 1 /\ <<u>>[1] = u
        OBVIOUS
      <4>. QED BY <2>6, <2>8, <4>1 DEF InOrder
    <3>3. SubSeq(<<u>>, 1, 1 - 1) = << >>
      BY <1>7, CutInTwo, EmptySeq
    <3>4. FarAfter(FarLine, << >>) = FarLine
      <4>1. << >> \in Seq(Unit) /\ \A v \in ToSet(<< >>) : FALSE
        BY ToSetEmpty
      <4>. QED BY <1>4, <4>1, FarAfterSame
    <3>. QED BY <3>1, <3>2, <3>3, <3>4
  <2>9. HeardAfter'
    BY <1>1, <2>8 DEF HeardAfter
  <2>. QED BY <2>7, <2>9
<1>. QED BY <1>9, <1>10

LEMMA FollowsStep ==
  ASSUME TypeParts, TypeParts', KeysSince, FarFollows, HeardAfter, [Next]_vars
  PROVE  FarFollows' /\ HeardAfter'
<1>1. ASSUME loop' # "session" PROVE FarFollows' /\ HeardAfter'
  BY <1>1 DEF FarFollows, HeardAfter
<1>2. ASSUME UNCHANGED <<loop, pristine, chosen, last, heard, told, upwork, outbox>>,
             com_ok' => com_ok, life' # "gone" => life # "gone"
      PROVE  FarFollows' /\ HeardAfter'
  <2>1. ToCome' = ToCome
    BY <1>2 DEF ToCome
  <2>. QED BY <1>2, <2>1, FollowsSame
<1>3. CASE TakePristine \/ DrainReads \/ OfferFails \/ EndSession \/ Connect
  BY <1>1, <1>3 DEF TakePristine, DrainReads, OfferFails, EndSession, Connect, loops
<1>4. CASE Offer
  <2> DEFINE m == [is |-> "offer"]
             o == Octets(m)
             k == Kept(o, NotReply)
  <2>1. /\ heard' = NoOctet /\ told' = Untold /\ upwork' = << >> /\ outbox' = o
        /\ pristine \in Setting /\ pristine' = pristine /\ last' = pristine
    BY <1>4 DEF Offer, peer, TypeParts, Turns, LoopTypeOK, Fresh
  <2>2. m \in Msg
    BY DEF Msg
  <2>3. o \in Seq(Unit) /\ \A u \in ToSet(o) : u.msg.is = "offer"
    <3>1. o \in Seq(Unit)
      BY <2>2, OctetsShape
    <3>2. \A u \in ToSet(o) : u.msg.is = "offer"
      BY DEF Octets, ToSet
    <3>. QED BY <3>1, <3>2
  <2> HIDE DEF m, o
  <2>4. k \in Seq(Unit) /\ \A u \in ToSet(k) : u.msg.is = "offer"
    BY <2>3, KeptType, KeptMembers
  <2>5. ToCome' = k
    <3>1. Kept(FlattenSeq(upwork'), NotReply) = << >>
      BY <2>1, FlatEmpty, KeptEmpty
    <3>. QED BY <2>1, <2>4, <3>1, ConcatEmptySeq DEF ToCome
  <2>6. FarLine' = pristine
    <3>1. \A f \in FieldSet : pristine[f] \in Nat
      BY <2>1, SettingType
    <3>2. FarLine' = [f \in FieldSet |-> pristine[f]]
      BY <2>1, FieldsAre DEF FarLine, FarEnd, Untold
    <3>3. pristine \in [FieldSet -> Nat]
      BY <2>1, SettingIsFunction
    <3>. QED BY <3>2, <3>3
  <2> HIDE DEF k
  <2>7. FarAfter(pristine, k) = pristine
    <3>1. \A u \in ToSet(k) : ~(u.msg.is = "set" /\ u.left = 0)
      BY <2>4
    <3>. QED BY <2>1, <2>4, <3>1, FarAfterSame
  <2>8. InOrder(pristine, k, chosen')
    <3>1. \A u \in ToSet(k) : u.msg.is # "data"
      BY <2>4
    <3>. QED BY <2>1, <2>4, <3>1, InOrderSimple
  <2>9. HeardAfter'
    BY <2>1 DEF HeardAfter, NoOctet
  <2>. QED BY <2>1, <2>5, <2>6, <2>7, <2>8, <2>9 DEF FarFollows
<1>5. CASE UpReads \/ UpLocks \/ DownLocks \/ DownWrites \/ DownFails \/ DownEnds
  BY <1>2, <1>5 DEF UpReads, UpLocks, DownLocks, DownWrites, DownFails, DownEnds, loops, port,
     upTask, downTask, peer
<1>6. CASE ConsumerTypes \/ ConsumerReads \/ PeerSays \/ UNCHANGED vars
  BY <1>2, <1>6 DEF ConsumerTypes, ConsumerReads, PeerSays, vars, loops, port, upTask, downTask,
     peer
<1>7. CASE PeerLeaves
  BY <1>2, <1>7 DEF PeerLeaves, loops, port, upTask, downTask
<1>8. CASE DownReads
  <2>1. com_ok' => com_ok
    <3>1. com_ok \in BOOLEAN
      BY DEF TypeParts, TaskTypeOK
    <3>2. PICK n \in 1..Least(ReadMax, Len(inbox)) :
            com_ok' = (com_ok /\ ComPortOk(Decode(telnet, SubSeq(inbox, 1, n)).telnet))
      BY <1>8, Zenon DEF DownReads
    <3>. QED BY <3>1, <3>2, Zenon
  <2>2. UNCHANGED <<loop, pristine, chosen, last, heard, told, upwork, outbox, life>>
    BY <1>8 DEF DownReads, loops, port, upTask, peer
  <2>. QED BY <1>2, <2>1, <2>2
<1>9. CASE UpSyncs
  <2>1. /\ loop = "session" /\ upwork = << >> /\ upwork' = Relayed \o FramedCells(upread)
        /\ last' = Latest
        /\ UNCHANGED <<loop, life, pristine, chosen, com_ok, outbox, heard, told>>
    BY <1>9 DEF UpSyncs, FramedCells, loops, port, downTask, peer, TypeParts, Turns, LoopTypeOK
  <2>. QED BY <2>1, WorkFollows
<1>10. CASE PollTick
  <2>1. /\ loop = "session" /\ upwork = << >> /\ upwork' = Relayed /\ upread = << >>
        /\ last' = Latest /\ PortTypeOK /\ last \in Setting
        /\ UNCHANGED <<loop, life, pristine, chosen, com_ok, outbox, heard, told>>
    BY <1>10 DEF PollTick, loops, port, downTask, peer, TypeParts, Turns, LoopTypeOK
  <2>2. Relayed \o FramedCells(upread) = Relayed
    <3>1. FramedCells(<< >>) = << >>
      BY DEF FramedCells
    <3>. QED BY <2>1, <3>1, RelayedType, ConcatEmptySeq
  <2>3. upwork' = Relayed \o FramedCells(upread)
    BY <2>1, <2>2
  <2>. QED BY <2>1, <2>3, WorkFollows
<1>11. CASE UpWrites
  <2>1. PICK took \in Seq(Unit) : /\ outbox' = outbox \o took
                                  /\ FlattenSeq(upwork) = took \o FlattenSeq(upwork')
    BY <1>11, UpTakes
  <2> DEFINE rest == FlattenSeq(upwork')
             p == Kept(outbox, NotReply)
             q == Kept(took, NotReply)
             r == Kept(rest, NotReply)
  <2>2. upwork' \in Seq(Seq(Unit)) /\ outbox \in Seq(Unit)
    BY ToComeType DEF TypeParts, TaskTypeOK
  <2>3. rest \in Seq(Unit)
    BY <2>2, FlatType
  <2> HIDE DEF rest
  <2>4. /\ Kept(outbox \o took, NotReply) = p \o q
        /\ Kept(took \o rest, NotReply) = q \o r
    BY <2>2, <2>3, KeptConcat
  <2>5. p \in Seq(Unit) /\ q \in Seq(Unit) /\ r \in Seq(Unit)
    BY <2>2, <2>3, KeptType
  <2>6. ToCome = p \o (q \o r) /\ ToCome' = (p \o q) \o r
    BY <2>1, <2>4 DEF ToCome, rest
  <2> HIDE DEF p, q, r
  <2>7. ToCome' = ToCome
    BY <2>5, <2>6, UnitsRegrouped, Zenon
  <2>8. UNCHANGED <<loop, life, pristine, chosen, last, com_ok, heard, told>>
    BY <1>11 DEF UpWrites, loops, port, downTask, peer
  <2>. QED BY <2>7, <2>8, FollowsSame
<1>12. CASE DownReplies
  <2>1. PICK took \in Seq(ReplyUnit) : outbox' = outbox \o took
    BY <1>12, ReplyTakes
  <2>2. took \in Seq(Unit) /\ ToSet(took) \cap NotReply = {} /\ outbox \in Seq(Unit)
    <3>1. ReplyUnit \subseteq Unit
      BY DEF ReplyUnit, Unit, Msg
    <3>2. ToSet(took) \subseteq ReplyUnit
      BY ToSetType
    <3>. QED BY <3>1, <3>2, SeqMonotonic, ToComeType DEF NotReply
  <2>3. Kept(outbox \o took, NotReply) = Kept(outbox, NotReply) \o Kept(took, NotReply)
    BY <2>2, KeptConcat
  <2>4. Kept(took, NotReply) = << >> /\ Kept(outbox, NotReply) \in Seq(Unit)
    BY <2>2, KeptNone, KeptType
  <2>5. Kept(outbox', NotReply) = Kept(outbox, NotReply)
    BY <2>1, <2>3, <2>4, ConcatEmptySeq
  <2>6. UNCHANGED <<loop, life, pristine, chosen, last, com_ok, heard, told, upwork>>
    BY <1>12 DEF DownReplies, loops, port, upTask, peer
  <2>7. ToCome' = ToCome
    BY <2>5, <2>6 DEF ToCome
  <2>. QED BY <2>6, <2>7, FollowsSame
<1>13. CASE UpFails \/ DownReplyFails
  <2>1. /\ life' = "gone" /\ com_ok' = com_ok
        /\ UNCHANGED <<loop, pristine, chosen, heard, told>>
    BY <1>13 DEF UpFails, DownReplyFails, loops, port, downTask, peer
  <2>2. FarLine' = FarLine
    BY <2>1 DEF FarLine, FarEnd
  <2>. QED BY <2>1, <2>2 DEF FarFollows, HeardAfter
<1>14. CASE ConsumerConfigures
  <2>1. PICK tio \in Termioses : chosen' = Append(chosen, tio)
    BY <1>14 DEF ConsumerConfigures
  <2>2. tio \in Termios /\ chosen \in Seq(Termios)
    BY RfcAssumption DEF TypeParts, PortTypeOK
  <2>3. UNCHANGED <<loop, life, pristine, last, com_ok, heard, told, upwork, outbox>>
    BY <1>14 DEF ConsumerConfigures, loops, upTask, downTask, peer
  <2>4. FarLine' = FarLine /\ ToCome' = ToCome
    BY <2>3 DEF FarLine, FarEnd, ToCome
  <2>5. HeardAfter'
    <3>1. SUFFICES ASSUME heard.msg.is = "data", com_ok, loop = "session"
                   PROVE  FarLine \in Since(heard.msg.at, chosen')
      BY <2>3, <2>4 DEF HeardAfter
    <3>2. heard.msg.at \in Nat \ {0}
      BY <3>1 DEF TypeParts, PeerTypeOK, NoOctet, Unit, Msg, DataMsg, SetMsg, ReplyMsg
    <3>3. FarLine \in Since(heard.msg.at, chosen)
      BY <3>1 DEF HeardAfter
    <3>. QED BY <2>1, <2>2, <3>2, <3>3, SinceMore
  <2>6. SUFFICES ASSUME loop = "session", life # "gone"
                 PROVE  FarFollows'
    BY <2>3, <2>5 DEF FarFollows
  <2>7. FarLine \in Setting /\ ToCome \in Seq(Unit)
    BY <2>6, FarLineType, ToComeType
  <2>8. FarAfter(FarLine, ToCome) = last /\ (com_ok => InOrder(FarLine, ToCome, chosen))
    BY <2>6 DEF FarFollows
  <2>9. com_ok => InOrder(FarLine, ToCome, chosen')
    BY <2>1, <2>2, <2>7, <2>8, InOrderMore
  <2>. QED BY <2>3, <2>4, <2>8, <2>9 DEF FarFollows
<1>15. CASE PeerReads
  BY <1>15, ReadFollows
<1>. QED BY <1>3, <1>4, <1>5, <1>6, <1>7, <1>8, <1>9, <1>10, <1>11, <1>12, <1>13, <1>14, <1>15
     DEF Next, Loop, Up, Down

\* While a session relays settings, a peer that has read all that is on its way has
\* its line set as was relayed last, and any byte it reads finds the line set to
\* something chosen since the byte was typed (bridge.rs:274-277).
THEOREM FollowsAlways == Spec => [](FarFollows /\ HeardAfter)
<1>1. Init => KeysSince /\ FarFollows /\ HeardAfter
  BY FlatEmpty, ToSetEmpty DEF Init, KeysSince, FarFollows, HeardAfter
<1>2. TypeParts /\ KeysSince /\ FarFollows /\ HeardAfter /\ [Next]_vars
        => KeysSince' /\ FarFollows' /\ HeardAfter'
  <2> SUFFICES ASSUME TypeParts, KeysSince, FarFollows, HeardAfter, [Next]_vars
               PROVE  KeysSince' /\ FarFollows' /\ HeardAfter'
    OBVIOUS
  <2>1. TypeParts'
    BY TypeStep
  <2>. QED BY <2>1, SinceStep, FollowsStep
<1>. QED BY <1>1, <1>2, TypesAlways, PTL DEF Spec

\* A setting reaches the peer before the bytes typed after it (bridge.rs:251-375):
\* when the peer reads a byte its line is set to something chosen no earlier than
\* the byte was typed, in whatever pieces reads and writes are cut.
THEOREM TypedAfter == Spec => []TypedAfterSettings
<1>1. HeardAfter => TypedAfterSettings
  BY DEF HeardAfter, TypedAfterSettings, FarLine, Since
<1>. QED BY <1>1, FollowsAlways, PTL

-----------------------------------------------------------------------------
(* What the codec promises whatever it is fed.                             *)

\* Escaping goes byte by byte.
EscapedByte(b) == IF b = IAC THEN <<IAC, IAC>> ELSE <<b>>

LEMMA EscapeStep ==
  /\ Escape(<< >>) = << >>
  /\ \A s \in Seq(Octet) : Escape(s) \in Seq(Octet)
  /\ \A s \in Seq(Octet), b \in Octet : Escape(Append(s, b)) = Escape(s) \o EscapedByte(b)
<1> DEFINE parts(s) == [i \in DOMAIN s |-> EscapedByte(s[i])]
<1>1. \A s : Escape(s) = FlattenSeq(parts(s))
  BY DEF Escape, EscapedByte
<1>2. \A b \in Octet : EscapedByte(b) \in Seq(Octet)
  <2>1. IAC \in Octet
    BY DEF IAC, Octet
  <2>. QED BY <2>1 DEF EscapedByte
<1>3. ASSUME NEW s \in Seq(Octet)
      PROVE  /\ parts(s) \in Seq(Seq(Octet)) /\ Len(parts(s)) = Len(s)
             /\ \A i \in 1..Len(s) : parts(s)[i] = EscapedByte(s[i])
  <2>1. Len(s) \in Nat /\ DOMAIN s = 1..Len(s) /\ \A i \in 1..Len(s) : s[i] \in Octet
    BY LenProperties, ElementOfSeq
  <2>2. \A i \in 1..Len(s) : EscapedByte(s[i]) \in Seq(Octet)
    BY <1>2, <2>1
  <2>. QED BY <2>1, <2>2
<1>4. ASSUME NEW s \in Seq(Octet), NEW b \in Octet
      PROVE  parts(Append(s, b)) = Append(parts(s), EscapedByte(b))
  <2> DEFINE n == Len(s)
             w == Append(s, b)
             f == parts(s)
             g == parts(w)
             o == EscapedByte(b)
  <2>1. /\ w \in Seq(Octet) /\ Len(w) = n + 1 /\ w[n + 1] = b /\ n \in Nat
        /\ \A i \in 1..n : w[i] = s[i]
    BY AppendProperties, LenProperties
  <2>2. o \in Seq(Octet)
    BY <1>2
  <2>3. /\ f \in Seq(Seq(Octet)) /\ Len(f) = n
        /\ \A i \in 1..n : f[i] = EscapedByte(s[i])
    BY <1>3
  <2>4. /\ g \in Seq(Seq(Octet)) /\ Len(g) = n + 1
        /\ \A i \in 1..(n + 1) : g[i] = EscapedByte(w[i])
    BY <1>3, <2>1
  <2> HIDE DEF n, w, f, g, o, parts
  <2>5. /\ Append(f, o) \in Seq(Seq(Octet)) /\ Len(Append(f, o)) = n + 1
        /\ \A i \in 1..n : Append(f, o)[i] = f[i]
        /\ Append(f, o)[n + 1] = o
    BY <2>2, <2>3, AppendProperties
  <2>6. \A i \in 1..(n + 1) : g[i] = Append(f, o)[i]
    <3>1. g[n + 1] = o
      BY <2>1, <2>4 DEF o
    <3>2. \A i \in 1..n : i \in 1..(n + 1) /\ g[i] = f[i]
      BY <2>1, <2>3, <2>4
    <3>3. \A i \in 1..(n + 1) : i = n + 1 \/ i \in 1..n
      BY <2>1
    <3>. QED BY <2>5, <3>1, <3>2, <3>3
  <2>7. g = Append(f, o)
    BY <2>4, <2>5, <2>6, SeqEqual
  <2>. QED BY <2>7 DEF f, g, o, w
<1>5. parts(<< >>) = << >>
  OBVIOUS
<1> HIDE DEF parts
<1>6. \A s \in Seq(Octet) : Escape(s) \in Seq(Octet)
  BY <1>1, <1>3, FlatType
<1>7. ASSUME NEW s \in Seq(Octet), NEW b \in Octet
      PROVE  Escape(Append(s, b)) = Escape(s) \o EscapedByte(b)
  <2>1. parts(s) \in Seq(Seq(Octet)) /\ EscapedByte(b) \in Seq(Octet)
    BY <1>2, <1>3
  <2>2. FlattenSeq(Append(parts(s), EscapedByte(b))) = FlattenSeq(parts(s)) \o EscapedByte(b)
    BY <2>1, FlatAppend
  <2>. QED BY <1>1, <1>4, <2>2
<1>. QED BY <1>1, <1>5, <1>6, <1>7, FlatEmpty

\* A second 0xFF is data.
LEMMA SecondIac ==
  ASSUME NEW e, e.telnet.state = "Iac"
  PROVE  DecodeByte(e, IAC)
           = [[e EXCEPT !.telnet.state = "Data"] EXCEPT !.data = Append(e.data, IAC)]
BY DEF DecodeByte, IAC, SB, Verbs, WILL, WONT, DO, DONT

\* What setting the state leaves as it is.
LEMMA StateSet ==
  ASSUME NEW u, NEW data, NEW owed, NEW s
  PROVE  [[telnet |-> u, data |-> data, reply |-> owed] EXCEPT !.telnet.state = s]
           = [telnet |-> [u EXCEPT !.state = s], data |-> data, reply |-> owed]
OBVIOUS

\* One byte escaped, and then read, is that byte of data and nothing else.
LEMMA EscapedByteDecodes ==
  ASSUME NEW t \in Decoder, t.state = "Data", NEW data \in Seq(Octet), NEW b \in Octet,
         NEW s \in Seq(Octet),
         Decode(t, s) = [telnet |-> t, data |-> data, reply |-> << >>]
  PROVE  Decode(t, s \o EscapedByte(b))
           = [telnet |-> t, data |-> Append(data, b), reply |-> << >>]
<1> DEFINE d == [telnet |-> t, data |-> data, reply |-> << >>]
           e == [telnet |-> [t EXCEPT !.state = "Iac"], data |-> data, reply |-> << >>]
<1>1. \A q \in Seq(Octet), x \in Octet : q \o <<x>> = Append(q, x) /\ Append(q, x) \in Seq(Octet)
  BY AppendIsConcat, AppendProperties
<1>2. \A q \in Seq(Octet), x \in Octet :
        Decode(t, Append(q, x)) = DecodeByte(Decode(t, q), x)
  BY DecodeStep
<1>3. CASE b # IAC
  <2>1. EscapedByte(b) = <<b>>
    BY <1>3 DEF EscapedByte
  <2>2. Decode(t, s \o <<b>>) = DecodeByte(d, b)
    BY <1>1, <1>2
  <2>3. DecodeByte(d, b) = [d EXCEPT !.data = Append(d.data, b)]
    BY <1>3 DEF DecodeByte
  <2>. QED BY <2>1, <2>2, <2>3
<1>4. CASE b = IAC
  <2>0. IAC \in Octet
    BY DEF IAC, Octet
  <2>1. s \o <<IAC, IAC>> = Append(Append(s, IAC), IAC)
    <3>1. /\ <<IAC, IAC>> = Append(<<IAC>>, IAC) /\ <<IAC>> \in Seq(Octet)
      BY <2>0
    <3>2. s \o Append(<<IAC>>, IAC) = Append(s \o <<IAC>>, IAC)
      BY <2>0, <3>1, ConcatAppended
    <3>. QED BY <1>1, <2>0, <3>1, <3>2
  <2>2. EscapedByte(b) = <<IAC, IAC>>
    BY <1>4 DEF EscapedByte
  <2>3. Decode(t, Append(Append(s, IAC), IAC)) = DecodeByte(DecodeByte(d, IAC), IAC)
    <3> HIDE DEF d
    <3>1. Append(s, IAC) \in Seq(Octet)
      BY <1>1, <2>0
    <3>2. Decode(t, Append(s, IAC)) = DecodeByte(d, IAC)
      BY <1>2, <2>0 DEF d
    <3>. QED BY <1>2, <2>0, <3>1, <3>2
  <2>4. DecodeByte(d, IAC) = e
    <3>1. DecodeByte(d, IAC) = [d EXCEPT !.telnet.state = "Iac"]
      BY DEF DecodeByte
    <3>. QED BY <3>1
  <2>5. DecodeByte(e, IAC) = [telnet |-> t, data |-> Append(data, IAC), reply |-> << >>]
    <3>1. e.telnet.state = "Iac" /\ e.data = data /\ e.reply = << >>
      BY DEF Decoder
    <3>2. [e EXCEPT !.telnet.state = "Data"]
            = [telnet |-> [[t EXCEPT !.state = "Iac"] EXCEPT !.state = "Data"],
               data |-> data, reply |-> << >>]
      BY StateSet
    <3>3. [[t EXCEPT !.state = "Iac"] EXCEPT !.state = "Data"] = t
      BY DEF Decoder
    <3>4. [e EXCEPT !.telnet.state = "Data"] = [telnet |-> t, data |-> data, reply |-> << >>]
      BY <3>2, <3>3
    <3> HIDE DEF e
    <3>5. DecodeByte(e, IAC) = [[e EXCEPT !.telnet.state = "Data"] EXCEPT !.data = Append(e.data, IAC)]
      BY <3>1, SecondIac
    <3>. QED BY <3>1, <3>4, <3>5
  <2> HIDE DEF d, e
  <2>. QED BY <1>4, <2>1, <2>2, <2>3, <2>4, <2>5
<1>. QED BY <1>3, <1>4

\* "0xFF doubled ... and come back collapsed" (rfc2217.rs:12-13, the test at 410):
\* whatever data a peer escapes, a decoder that reads data finds exactly that, owes no
\* answer and is as it was, wherever the reads are cut.
THEOREM EscapeTransparent ==
  ASSUME NEW t \in Decoder, t.state = "Data", NEW data \in Seq(Octet)
  PROVE  /\ Decode(t, Escape(data)) = [telnet |-> t, data |-> data, reply |-> << >>]
         /\ \A a, b \in Seq(Octet) : a \o b = Escape(data) =>
              LET first == Decode(t, a)
                  then  == Decode(first.telnet, b)
              IN  first.data \o then.data = data /\ then.telnet = t
<1> DEFINE Good(s) == Decode(t, Escape(s)) = [telnet |-> t, data |-> s, reply |-> << >>]
           T == {s \in Seq(Octet) : Good(s)}
<1>1. << >> \in T
  <2>1. << >> \in Seq(Octet)
    OBVIOUS
  <2>2. Decode(t, Escape(<< >>)) = Start(t)
    BY DecodeStep, EscapeStep
  <2>. QED BY <2>1, <2>2 DEF Start
<1>2. ASSUME NEW s \in Seq(Octet), Good(s), NEW b \in Octet
      PROVE  Good(Append(s, b))
  <2>1. Escape(s) \in Seq(Octet) /\ Escape(Append(s, b)) = Escape(s) \o EscapedByte(b)
    BY EscapeStep
  <2>2. Decode(t, Escape(s)) = [telnet |-> t, data |-> s, reply |-> << >>]
    BY <1>2
  <2>3. Decode(t, Escape(s) \o EscapedByte(b))
          = [telnet |-> t, data |-> Append(s, b), reply |-> << >>]
    BY <2>1, <2>2, EscapedByteDecodes
  <2>. QED BY <2>1, <2>3
<1>3. T = Seq(Octet)
  <2>1. T \in SUBSET Seq(Octet) /\ \A s \in T, b \in Octet : Append(s, b) \in T
    BY <1>2, AppendProperties
  <2> HIDE DEF T
  <2>. QED BY <1>1, <2>1, SeqSet
<1>4. Good(data)
  BY <1>3
<1>5. ASSUME NEW a \in Seq(Octet), NEW b \in Seq(Octet), a \o b = Escape(data)
      PROVE  /\ Decode(t, a).data \o Decode(Decode(t, a).telnet, b).data = data
             /\ Decode(Decode(t, a).telnet, b).telnet = t
  <2>1. Decode(t, a \o b).telnet = t /\ Decode(t, a \o b).data = data
    BY <1>4, <1>5
  <2>. QED BY <2>1, DecodeSplits
<1>. QED BY <1>4, <1>5

-----------------------------------------------------------------------------
(* What a peer may say: SayingsAssumption is about whole units.            *)

\* Bytes that any decoder of data reads as this data, to be then one of data again:
\* what SayingsAssumption asks of a saying.
ReadAs(bytes, data) ==
  /\ bytes \in Seq(Octet) /\ data \in Seq(Octet)
  /\ \A u \in Decoder : u.state = "Data" =>
       Decode(u, bytes).data = data /\ Decode(u, bytes).telnet.state = "Data"

\* A decoder in a state of its own, which has found nothing.
At(u, s) == [telnet |-> [u EXCEPT !.state = s], data |-> << >>, reply |-> << >>]

\* The ways in, around and out of a subnegotiation.
LEMMA SubSteps ==
  ASSUME NEW u \in Decoder
  PROVE  /\ DecodeByte(At(u, "Data"), IAC) = At(u, "Iac")
         /\ DecodeByte(At(u, "Iac"), SB) = At(u, "Sub")
         /\ \A b \in Octet : b # IAC => DecodeByte(At(u, "Sub"), b) = At(u, "Sub")
         /\ DecodeByte(At(u, "Sub"), IAC) = At(u, "SubIac")
         /\ DecodeByte(At(u, "SubIac"), IAC) = At(u, "Sub")
         /\ DecodeByte(At(u, "SubIac"), SE) = At(u, "Data")
<1> DEFINE States == {"Data", "Iac", "Sub", "SubIac"}
<1>1. ASSUME NEW s \in States, NEW r \in States
      PROVE  At(u, s).telnet.state = s /\ [At(u, s) EXCEPT !.telnet.state = r] = At(u, r)
  <2> DEFINE v(x) == [u EXCEPT !.state = x]
  <2>1. v(s).state = s /\ [v(s) EXCEPT !.state = r] = v(r)
    BY DEF Decoder
  <2> HIDE DEF v
  <2>2. At(u, s) = [telnet |-> v(s), data |-> << >>, reply |-> << >>]
    BY DEF At, v
  <2>3. At(u, r) = [telnet |-> v(r), data |-> << >>, reply |-> << >>]
    BY DEF At, v
  <2>4. /\ At(u, s).telnet = v(s)
        /\ [At(u, s) EXCEPT !.telnet.state = r]
             = [telnet |-> [v(s) EXCEPT !.state = r], data |-> << >>, reply |-> << >>]
    BY <2>2
  <2>. QED BY <2>1, <2>3, <2>4
<1>2. ASSUME NEW d, NEW b \in Octet
      PROVE  /\ d.telnet.state = "Data" /\ b = IAC =>
                  DecodeByte(d, b) = [d EXCEPT !.telnet.state = "Iac"]
             /\ d.telnet.state = "Iac" /\ b = SB =>
                  DecodeByte(d, b) = [d EXCEPT !.telnet.state = "Sub"]
             /\ d.telnet.state = "Sub" =>
                  DecodeByte(d, b) = [d EXCEPT !.telnet.state = IF b = IAC THEN "SubIac" ELSE "Sub"]
             /\ d.telnet.state = "SubIac" =>
                  DecodeByte(d, b) = [d EXCEPT !.telnet.state = IF b = IAC THEN "Sub" ELSE "Data"]
  BY DEF DecodeByte, IAC, SB, Verbs, WILL, WONT, DO, DONT
<1>3. IAC \in Octet /\ SB \in Octet /\ SE \in Octet /\ SE # IAC
  BY DEF IAC, SB, SE, Octet
<1>4. \A s \in States : At(u, s).telnet.state = s
  BY <1>1
<1>5. {"Data", "Iac", "Sub", "SubIac"} = States
  OBVIOUS
<1> HIDE DEF States
<1>6. ASSUME NEW s \in States, NEW r \in States, NEW b \in Octet,
             DecodeByte(At(u, s), b) = [At(u, s) EXCEPT !.telnet.state = r]
      PROVE  DecodeByte(At(u, s), b) = At(u, r)
  BY <1>1, <1>6
<1>7. /\ "Data" \in States /\ "Iac" \in States /\ "Sub" \in States /\ "SubIac" \in States
  BY <1>5
<1>8. DecodeByte(At(u, "Data"), IAC) = At(u, "Iac")
  BY <1>2, <1>3, <1>4, <1>6, <1>7
<1>9. DecodeByte(At(u, "Iac"), SB) = At(u, "Sub")
  BY <1>2, <1>3, <1>4, <1>6, <1>7
<1>10. ASSUME NEW b \in Octet, b # IAC
       PROVE  DecodeByte(At(u, "Sub"), b) = At(u, "Sub")
  BY <1>2, <1>4, <1>6, <1>7, <1>10
<1>11. DecodeByte(At(u, "Sub"), IAC) = At(u, "SubIac")
  BY <1>2, <1>3, <1>4, <1>6, <1>7
<1>12. DecodeByte(At(u, "SubIac"), IAC) = At(u, "Sub")
  BY <1>2, <1>3, <1>4, <1>6, <1>7
<1>13. DecodeByte(At(u, "SubIac"), SE) = At(u, "Data")
  BY <1>2, <1>3, <1>4, <1>6, <1>7
<1>. QED BY <1>8, <1>9, <1>10, <1>11, <1>12, <1>13

\* Whatever a subnegotiation holds, escaped, the decoder stays in it.
LEMMA SubHolds ==
  ASSUME NEW u \in Decoder, NEW s \in Seq(Octet), Decode(u, s) = At(u, "Sub"),
         NEW b \in Octet
  PROVE  Decode(u, s \o EscapedByte(b)) = At(u, "Sub")
<1>1. \A q \in Seq(Octet), x \in Octet : q \o <<x>> = Append(q, x) /\ Append(q, x) \in Seq(Octet)
  BY AppendIsConcat, AppendProperties
<1>2. \A q \in Seq(Octet), x \in Octet :
        Decode(u, Append(q, x)) = DecodeByte(Decode(u, q), x)
  BY DecodeStep
<1>3. CASE b # IAC
  <2>1. EscapedByte(b) = <<b>> /\ s \o <<b>> = Append(s, b)
    BY <1>1, <1>3 DEF EscapedByte
  <2>2. Decode(u, Append(s, b)) = DecodeByte(At(u, "Sub"), b)
    BY <1>2
  <2>. QED BY <1>3, <2>1, <2>2, SubSteps
<1>4. CASE b = IAC
  <2>0. IAC \in Octet
    BY DEF IAC, Octet
  <2>1. s \o <<IAC, IAC>> = Append(Append(s, IAC), IAC)
    <3>1. /\ <<IAC, IAC>> = Append(<<IAC>>, IAC) /\ <<IAC>> \in Seq(Octet)
      BY <2>0
    <3>2. s \o Append(<<IAC>>, IAC) = Append(s \o <<IAC>>, IAC)
      BY <2>0, <3>1, ConcatAppended
    <3>. QED BY <1>1, <2>0, <3>1, <3>2
  <2>2. EscapedByte(b) = <<IAC, IAC>>
    BY <1>4 DEF EscapedByte
  <2>3. Append(s, IAC) \in Seq(Octet) /\ Decode(u, Append(s, IAC)) = At(u, "SubIac")
    BY <1>1, <1>2, <2>0, SubSteps
  <2>4. Decode(u, Append(Append(s, IAC), IAC)) = At(u, "Sub")
    BY <1>2, <2>0, <2>3, SubSteps
  <2>. QED BY <2>1, <2>2, <2>4
<1>. QED BY <1>3, <1>4

\* So a whole one is read as no data.
LEMMA SubnegotiationRead ==
  ASSUME NEW c \in Seq(Octet)
  PROVE  ReadAs((<<IAC, SB>> \o Escape(c)) \o <<IAC, SE>>, << >>)
<1>0. /\ IAC \in Octet /\ SB \in Octet /\ SE \in Octet
      /\ <<IAC, SB>> \in Seq(Octet) /\ <<IAC, SE>> \in Seq(Octet) /\ << >> \in Seq(Octet)
      /\ <<IAC, SB>> = Append(Append(<< >>, IAC), SB) /\ Append(<< >>, IAC) \in Seq(Octet)
      /\ <<IAC, SE>> = Append(<<IAC>>, SE) /\ <<IAC>> \in Seq(Octet)
  BY DEF IAC, SB, SE, Octet
<1>1. \A q \in Seq(Octet) : <<IAC, SB>> \o q \in Seq(Octet)
  BY <1>0, ConcatProperties
<1>2. ASSUME NEW u \in Decoder, u.state = "Data"
      PROVE  Decode(u, (<<IAC, SB>> \o Escape(c)) \o <<IAC, SE>>) = At(u, "Data")
  <2>0. \A q \in Seq(Octet), x \in Octet :
          /\ Decode(u, Append(q, x)) = DecodeByte(Decode(u, q), x)
          /\ Append(q, x) \in Seq(Octet) /\ q \o <<x>> = Append(q, x)
    BY DecodeStep, AppendIsConcat, AppendProperties
  <2>1. Decode(u, <<IAC, SB>>) = At(u, "Sub")
    <3>1. Decode(u, << >>) = At(u, "Data")
      BY <1>2, DecodeStep DEF At, Start, Decoder
    <3>2. Decode(u, Append(<< >>, IAC)) = At(u, "Iac")
      BY <1>0, <2>0, <3>1, SubSteps
    <3>3. Decode(u, Append(Append(<< >>, IAC), SB)) = At(u, "Sub")
      BY <1>0, <2>0, <3>2, SubSteps
    <3>. QED BY <1>0, <3>3
  <2> DEFINE Good(q) == Decode(u, <<IAC, SB>> \o Escape(q)) = At(u, "Sub")
             T == {q \in Seq(Octet) : Good(q)}
  <2>2. << >> \in T
    <3>1. <<IAC, SB>> \o Escape(<< >>) = <<IAC, SB>>
      BY <1>0, EscapeStep, ConcatEmptySeq
    <3>. QED BY <1>0, <2>1, <3>1
  <2>3. ASSUME NEW q \in Seq(Octet), Good(q), NEW b \in Octet
        PROVE  Good(Append(q, b))
    <3>1. Escape(q) \in Seq(Octet) /\ Escape(Append(q, b)) = Escape(q) \o EscapedByte(b)
      BY EscapeStep
    <3>2. EscapedByte(b) \in Seq(Octet)
      BY <1>0 DEF EscapedByte
    <3>3. <<IAC, SB>> \o (Escape(q) \o EscapedByte(b))
            = (<<IAC, SB>> \o Escape(q)) \o EscapedByte(b)
      <4>1. <<IAC, SB>> \in Seq(Octet)
        BY <1>0
      <4>. QED BY <3>1, <3>2, <4>1, OctetsRegrouped, Zenon
    <3>4. Decode(u, (<<IAC, SB>> \o Escape(q)) \o EscapedByte(b)) = At(u, "Sub")
      BY <1>1, <2>3, <3>1, SubHolds
    <3>. QED BY <3>1, <3>3, <3>4
  <2>4. T = Seq(Octet)
    <3>1. T \in SUBSET Seq(Octet) /\ \A q \in T, b \in Octet : Append(q, b) \in T
      BY <2>3, AppendProperties
    <3> HIDE DEF T
    <3>. QED BY <2>2, <3>1, SeqSet
  <2> DEFINE r == <<IAC, SB>> \o Escape(c)
  <2>5. r \in Seq(Octet) /\ Decode(u, r) = At(u, "Sub")
    BY <1>1, <2>4, EscapeStep
  <2> HIDE DEF r, T
  <2>6. r \o <<IAC, SE>> = Append(Append(r, IAC), SE)
    <3>1. r \o Append(<<IAC>>, SE) = Append(r \o <<IAC>>, SE)
      BY <1>0, <2>5, ConcatAppended
    <3>. QED BY <1>0, <2>0, <2>5, <3>1
  <2>7. Append(r, IAC) \in Seq(Octet) /\ Decode(u, Append(r, IAC)) = At(u, "SubIac")
    BY <1>0, <2>0, <2>5, SubSteps
  <2>8. Decode(u, Append(Append(r, IAC), SE)) = At(u, "Data")
    BY <1>0, <2>0, <2>7, SubSteps
  <2>. QED BY <2>6, <2>8 DEF r
<1>3. (<<IAC, SB>> \o Escape(c)) \o <<IAC, SE>> \in Seq(Octet)
  BY <1>0, <1>1, EscapeStep, ConcatProperties
<1>4. \A u \in Decoder : u.state = "Data" => At(u, "Data").data = << >> /\ At(u, "Data").telnet.state = "Data"
  BY DEF At, Decoder
<1>. QED BY <1>0, <1>2, <1>3, <1>4 DEF ReadAs

\* SayingsAssumption is no more than that a peer speaks telnet: it holds of data
\* escaped, of commands about options, of subnegotiations whatever they hold, and of
\* all these one after the other; no read has to end where one of them does.
THEOREM SayingsAreTelnet ==
  /\ \A data \in Seq(Octet) : ReadAs(Escape(data), data)
  /\ \A v \in Verbs, o \in Octet : ReadAs(<<IAC, v, o>>, << >>)
  /\ \A c \in Seq(Octet) : ReadAs((<<IAC, SB>> \o Escape(c)) \o <<IAC, SE>>, << >>)
  /\ \A a, b, x, y : ReadAs(a, x) /\ ReadAs(b, y) => ReadAs(a \o b, x \o y)
<1>1. ASSUME NEW data \in Seq(Octet)
      PROVE  ReadAs(Escape(data), data)
  <2>1. ASSUME NEW u \in Decoder, u.state = "Data"
        PROVE  Decode(u, Escape(data)).data = data /\ Decode(u, Escape(data)).telnet.state = "Data"
    <3>1. Decode(u, Escape(data)) = [telnet |-> u, data |-> data, reply |-> << >>]
      BY <2>1, EscapeTransparent
    <3>. QED BY <2>1, <3>1
  <2>. QED BY <2>1, EscapeStep DEF ReadAs
<1>2. ASSUME NEW v \in Verbs, NEW o \in Octet
      PROVE  ReadAs(<<IAC, v, o>>, << >>)
  <2>1. <<IAC, v, o>> \in Seq(Octet) /\ << >> \in Seq(Octet)
    BY DEF Verbs, WILL, WONT, DO, DONT, IAC, Octet
  <2>. QED BY <2>1, CommandDecodes DEF ReadAs
<1>3. ASSUME NEW a, NEW b, NEW x, NEW y, ReadAs(a, x), ReadAs(b, y)
      PROVE  ReadAs(a \o b, x \o y)
  <2>1. a \in Seq(Octet) /\ b \in Seq(Octet) /\ x \in Seq(Octet) /\ y \in Seq(Octet)
    BY <1>3 DEF ReadAs
  <2>2. a \o b \in Seq(Octet) /\ x \o y \in Seq(Octet)
    BY <2>1, ConcatProperties
  <2>3. ASSUME NEW u \in Decoder, u.state = "Data"
        PROVE  Decode(u, a \o b).data = x \o y /\ Decode(u, a \o b).telnet.state = "Data"
    <3>1. Decode(u, a).data = x /\ Decode(u, a).telnet.state = "Data"
      BY <1>3, <2>3 DEF ReadAs
    <3>2. \A w \in Decoder : w.state = "Data" =>
             Decode(w, b).data = y /\ Decode(w, b).telnet.state = "Data"
      BY <1>3 DEF ReadAs
    <3>3. /\ Decode(u, a \o b).data = Decode(u, a).data \o y
          /\ Decode(u, a \o b).telnet.state = "Data"
      <4>1. Decode(u, a).telnet \in Decoder
        BY <2>1, DecodeStep DEF Decoded
      <4>2. /\ Decode(Decode(u, a).telnet, b).data = y
            /\ Decode(Decode(u, a).telnet, b).telnet.state = "Data"
        BY <3>1, <3>2, <4>1
      <4>. QED BY <2>1, <4>2, DecodeSplits
    <3>. QED BY <3>1, <3>3
  <2>. QED BY <2>2, <2>3 DEF ReadAs
<1>. QED BY <1>1, <1>2, <1>3, SubnegotiationRead

-----------------------------------------------------------------------------
(* What a peer is answered.                                                *)

\* What an answer is about, and whether it agrees.
Answered(x) == {w \in Word : /\ w[2] \in Known
                             /\ Slot(IF w[1] \in {DO, DONT} THEN WILL ELSE DO, w[2]) = x}
Agrees(w)   == w[1] \in {DO, WILL}

\* Answers of which each says the opposite of the one before, and the first the
\* opposite of what was agreed before them; the last says what is agreed after them.
Alternate(s, before, after) ==
  /\ \A i \in 1..Len(s) : Agrees(s[i]) # IF i = 1 THEN before ELSE Agrees(s[i - 1])
  /\ after = IF s = << >> THEN before ELSE Agrees(s[Len(s)])

\* A command changes one flag, and says so, or changes none and says nothing of any.
LEMMA NegotiateAnswers ==
  ASSUME NEW t \in Decoder, NEW cmd \in Verbs, NEW opt \in Octet, NEW x \in Slots
  PROVE  LET new  == Negotiate(t, cmd, opt).telnet.agreed[x]
             word == Negotiate(t, cmd, opt).reply
         IN  IF word \in Answered(x)
             THEN word # << >> /\ new = Agrees(word) /\ new # t.agreed[x]
             ELSE new = t.agreed[x]
<1> USE DEF Verbs, WILL, WONT, DO, DONT, Known, BINARY, SGA, COM_PORT
<1> DEFINE agreed == cmd \in {WILL, DO}
           slot   == Slot(cmd, opt)
           verb   == Answer(cmd, agreed)
<1>1. agreed \in BOOLEAN /\ verb \in Verbs
  BY DEF Answer
<1>2. CASE opt \notin Known
  <2>1. /\ Negotiate(t, cmd, opt).telnet = t
        /\ Negotiate(t, cmd, opt).reply = <<Answer(cmd, FALSE), opt>>
    BY <1>2 DEF Negotiate
  <2>2. <<Answer(cmd, FALSE), opt>> \notin Answered(x)
    BY <1>2 DEF Answered
  <2>. QED BY <2>1, <2>2
<1>3. CASE opt \in Known /\ t.agreed[slot] = agreed
  <2>1. /\ Negotiate(t, cmd, opt).telnet = t
        /\ Negotiate(t, cmd, opt).reply = << >>
    BY <1>3, Zenon DEF Negotiate
  <2>2. << >> \notin Answered(x)
    BY DEF Answered, Word
  <2>. QED BY <2>1, <2>2
<1>4. CASE opt \in Known /\ t.agreed[slot] # agreed
  <2>1. /\ Negotiate(t, cmd, opt).telnet = [t EXCEPT !.agreed[slot] = agreed]
        /\ Negotiate(t, cmd, opt).reply = <<verb, opt>>
    BY <1>4, Zenon DEF Negotiate
  <2>2. (verb \in {DO, DONT} <=> cmd \in {WILL, WONT}) /\ Agrees(<<verb, opt>>) = agreed
    BY DEF Answer, Agrees
  <2>3. Slot(IF verb \in {DO, DONT} THEN WILL ELSE DO, opt) = slot
    BY <2>2 DEF Slot
  <2>4. <<verb, opt>> \in Word /\ <<verb, opt>> # << >>
    BY <1>1 DEF Word
  <2>5. <<verb, opt>> \in Answered(x) <=> slot = x
    BY <1>4, <2>3, <2>4 DEF Answered
  <2>6. [t EXCEPT !.agreed[slot] = agreed].agreed[x] = IF slot = x THEN agreed ELSE t.agreed[x]
    BY DEF Decoder
  <2> HIDE DEF slot, agreed, verb
  <2>. QED BY <1>4, <2>1, <2>2, <2>4, <2>5, <2>6
<1>. QED BY <1>2, <1>3, <1>4

\* What a byte is answered with, and what is agreed after it.
WordFor(t, b)  == IF t.state = "Negotiate" THEN Negotiate(t, t.cmd, b).reply ELSE << >>
AgreedBy(t, b) == IF t.state = "Negotiate" THEN Negotiate(t, t.cmd, b).telnet.agreed
                                          ELSE t.agreed

\* Answers are added at the end, one at a time.
LEMMA ByteAnswers ==
  ASSUME NEW d \in Decoded, NEW b \in Octet
  PROVE  /\ DecodeByte(d, b).reply = IF WordFor(d.telnet, b) = << >> THEN d.reply
                                     ELSE Append(d.reply, WordFor(d.telnet, b))
         /\ DecodeByte(d, b).telnet.agreed = AgreedBy(d.telnet, b)
         /\ WordFor(d.telnet, b) # << >> => WordFor(d.telnet, b) \in Word
<1> DEFINE t == d.telnet
           s == d.telnet.state
<1>1. /\ t \in Decoder /\ s \in {"Data", "Iac", "Negotiate", "Sub", "SubIac"} /\ t.cmd \in Verbs
      /\ d = [telnet |-> t, data |-> d.data, reply |-> d.reply]
      /\ t = [state |-> s, cmd |-> t.cmd, agreed |-> t.agreed]
  BY DEF Decoded, Decoder
<1>2. CASE s = "Negotiate"
  <2> DEFINE answer == Negotiate(t, t.cmd, b)
  <2>1. DecodeByte(d, b) = [d EXCEPT !.telnet = [answer.telnet EXCEPT !.state = "Data"],
                                     !.reply = IF answer.reply = << >> THEN d.reply
                                               ELSE Append(d.reply, answer.reply)]
    BY <1>2 DEF DecodeByte
  <2>2. answer.telnet \in Decoder /\ (answer.reply = << >> \/ answer.reply \in Word)
    BY <1>1, NegotiateType
  <2>3. WordFor(t, b) = answer.reply /\ AgreedBy(t, b) = answer.telnet.agreed
    BY <1>2 DEF WordFor, AgreedBy
  <2> HIDE DEF answer, t
  <2>4. /\ DecodeByte(d, b).reply = IF answer.reply = << >> THEN d.reply
                                    ELSE Append(d.reply, answer.reply)
        /\ DecodeByte(d, b).telnet = [answer.telnet EXCEPT !.state = "Data"]
    BY <1>1, <2>1
  <2>5. [answer.telnet EXCEPT !.state = "Data"].agreed = answer.telnet.agreed
    BY <2>2 DEF Decoder
  <2>. QED BY <2>2, <2>3, <2>4, <2>5 DEF t
<1>3. CASE s # "Negotiate"
  <2>1. WordFor(t, b) = << >> /\ AgreedBy(t, b) = t.agreed
    BY <1>3 DEF WordFor, AgreedBy
  <2>2. ASSUME NEW r, NEW y, y = [d EXCEPT !.telnet.state = r]
        PROVE  y.reply = d.reply /\ y.telnet.agreed = t.agreed
               /\ y = [telnet |-> [t EXCEPT !.state = r], data |-> d.data, reply |-> d.reply]
               /\ y.telnet = [t EXCEPT !.state = r]
    BY <1>1, <2>2
  <2>3. ASSUME NEW r, NEW e
        PROVE  /\ [[d EXCEPT !.telnet.state = r] EXCEPT !.data = e].reply = d.reply
               /\ [[d EXCEPT !.telnet.state = r] EXCEPT !.data = e].telnet.agreed = t.agreed
    <3> DEFINE y == [d EXCEPT !.telnet.state = r]
    <3>1. /\ y.reply = d.reply /\ y.telnet.agreed = t.agreed
          /\ y = [telnet |-> [t EXCEPT !.state = r], data |-> d.data, reply |-> d.reply]
      BY <2>2
    <3>2. [y EXCEPT !.data = e].reply = y.reply /\ [y EXCEPT !.data = e].telnet = y.telnet
      <4> HIDE DEF y
      <4>. QED BY <3>1
    <3>. QED BY <3>1, <3>2
  <2>4. /\ [[d EXCEPT !.telnet.state = "Negotiate"] EXCEPT !.telnet.cmd = b].reply = d.reply
        /\ [[d EXCEPT !.telnet.state = "Negotiate"] EXCEPT !.telnet.cmd = b].telnet.agreed = t.agreed
    BY <1>1, <2>2
  <2>5. ASSUME NEW e
        PROVE  [d EXCEPT !.data = e].reply = d.reply /\ [d EXCEPT !.data = e].telnet.agreed = t.agreed
    BY <1>1
  <2>6. DecodeByte(d, b).reply = d.reply /\ DecodeByte(d, b).telnet.agreed = t.agreed
    <3>1. CASE s = "Data" /\ b # IAC
      <4>1. DecodeByte(d, b) = [d EXCEPT !.data = Append(d.data, b)]
        BY <3>1 DEF DecodeByte
      <4>. QED BY <2>5, <4>1
    <3>2. CASE s = "Iac" /\ b = IAC
      <4>1. DecodeByte(d, b) = [[d EXCEPT !.telnet.state = "Data"] EXCEPT !.data = Append(d.data, IAC)]
        BY <3>2 DEF DecodeByte, IAC, SB, Verbs, WILL, WONT, DO, DONT
      <4>. QED BY <2>3, <4>1
    <3>3. CASE s = "Iac" /\ b \in Verbs
      <4>1. DecodeByte(d, b) = [[d EXCEPT !.telnet.state = "Negotiate"] EXCEPT !.telnet.cmd = b]
        BY <3>3 DEF DecodeByte, IAC, SB, Verbs, WILL, WONT, DO, DONT
      <4>. QED BY <2>4, <4>1
    <3>4. CASE \/ s = "Data" /\ b = IAC
               \/ s = "Iac" /\ b # IAC /\ b \notin Verbs
               \/ s \in {"Sub", "SubIac"}
      <4>1. \E r : DecodeByte(d, b) = [d EXCEPT !.telnet.state = r]
        BY <3>4 DEF DecodeByte
      <4>. QED BY <2>2, <4>1
    <3>. QED BY <1>1, <1>3, <3>1, <3>2, <3>3, <3>4
  <2>. QED BY <2>1, <2>6
<1>. QED BY <1>2, <1>3

\* "Safe to call with input split at any boundary" (rfc2217.rs:148-150, the test at
\* 421): two reads decoded one after the other leave the decoder as one read of both
\* would, find its data and owe its answers, wherever the cut is.
THEOREM CutsUnnoticed ==
  ASSUME NEW t \in Decoder, NEW a \in Seq(Octet), NEW b \in Seq(Octet)
  PROVE  LET first == Decode(t, a)
             then  == Decode(first.telnet, b)
         IN  Decode(t, a \o b) = [telnet |-> then.telnet, data |-> first.data \o then.data,
                                  reply  |-> first.reply \o then.reply]
<1> DEFINE first == Decode(t, a)
           then(u)  == Decode(first.telnet, u)
           whole(u) == Decode(t, a \o u)
           T == {u \in Seq(Octet) : whole(u).reply = first.reply \o then(u).reply}
<1>0. first \in Decoded /\ first.telnet \in Decoder /\ first.reply \in Seq(Word)
  BY DecodeStep DEF Decoded
<1>1. ASSUME NEW u \in Seq(Octet)
      PROVE  /\ a \o u \in Seq(Octet) /\ then(u) \in Decoded /\ whole(u) \in Decoded
             /\ then(u).reply \in Seq(Word)
             /\ whole(u).telnet = then(u).telnet
             /\ whole(u).data = first.data \o then(u).data
             /\ \A x \in Octet : /\ then(Append(u, x)) = DecodeByte(then(u), x)
                                 /\ whole(Append(u, x)) = DecodeByte(whole(u), x)
  <2>1. a \o u \in Seq(Octet)
    BY ConcatProperties
  <2>2. then(u) \in Decoded /\ \A x \in Octet : then(Append(u, x)) = DecodeByte(then(u), x)
    BY <1>0, DecodeStep
  <2>3. /\ whole(u) \in Decoded
        /\ \A x \in Octet : Decode(t, Append(a \o u, x)) = DecodeByte(whole(u), x)
    BY <2>1, DecodeStep
  <2>4. \A x \in Octet : a \o Append(u, x) = Append(a \o u, x)
    BY ConcatAppended
  <2>5. whole(u).telnet = then(u).telnet /\ whole(u).data = first.data \o then(u).data
    BY DecodeSplits
  <2>. QED BY <2>1, <2>2, <2>3, <2>4, <2>5 DEF Decoded
<1>2. << >> \in T
  <2>1. a \o << >> = a /\ first.reply \o << >> = first.reply /\ << >> \in Seq(Octet)
    BY <1>0, ConcatEmptySeq
  <2>2. then(<< >>).reply = << >>
    BY <1>0, DecodeStep DEF Start
  <2>3. whole(<< >>) = first
    BY <2>1, Zenon
  <2> HIDE DEF first, then, whole
  <2>. QED BY <2>1, <2>2, <2>3
<1>3. \A v, w \in Seq(Word), x \in Word : v \o Append(w, x) = Append(v \o w, x)
  BY ConcatAppended
<1> HIDE DEF first, then, whole
<1>4. ASSUME NEW u \in T, NEW x \in Octet
      PROVE  Append(u, x) \in T
  <2> DEFINE word == WordFor(then(u).telnet, x)
  <2>0. u \in Seq(Octet) /\ Append(u, x) \in Seq(Octet)
    BY AppendProperties
  <2>1. /\ whole(Append(u, x)).reply = IF word = << >> THEN whole(u).reply
                                       ELSE Append(whole(u).reply, word)
        /\ then(Append(u, x)).reply = IF word = << >> THEN then(u).reply
                                      ELSE Append(then(u).reply, word)
        /\ word # << >> => word \in Word
    <3>1. /\ whole(Append(u, x)) = DecodeByte(whole(u), x) /\ whole(u) \in Decoded
          /\ then(Append(u, x)) = DecodeByte(then(u), x) /\ then(u) \in Decoded
          /\ whole(u).telnet = then(u).telnet
      BY <1>1, <2>0
    <3>2. DecodeByte(whole(u), x).reply = IF WordFor(whole(u).telnet, x) = << >> THEN whole(u).reply
                                          ELSE Append(whole(u).reply, WordFor(whole(u).telnet, x))
      BY <3>1, ByteAnswers
    <3>3. /\ DecodeByte(then(u), x).reply = IF word = << >> THEN then(u).reply
                                            ELSE Append(then(u).reply, word)
          /\ word # << >> => word \in Word
      BY <3>1, ByteAnswers
    <3>. QED BY <3>1, <3>2, <3>3
  <2>2. whole(u).reply = first.reply \o then(u).reply /\ then(u).reply \in Seq(Word)
    BY <1>1, <2>0
  <2> HIDE DEF word
  <2>3. word \in Word => first.reply \o Append(then(u).reply, word)
                            = Append(first.reply \o then(u).reply, word)
    BY <1>0, <1>3, <2>2
  <2>4. whole(Append(u, x)).reply = first.reply \o then(Append(u, x)).reply
    BY <2>1, <2>2, <2>3
  <2>. QED BY <2>0, <2>4
<1>5. T = Seq(Octet)
  <2>1. T \in SUBSET Seq(Octet) /\ \A u \in T, x \in Octet : Append(u, x) \in T
    BY <1>4
  <2> HIDE DEF T
  <2>. QED BY <1>2, <2>1, SeqSet
<1>6. whole(b).reply = first.reply \o then(b).reply
  BY <1>5
<1>7. whole(b) = [telnet |-> whole(b).telnet, data |-> whole(b).data, reply |-> whole(b).reply]
  BY <1>1 DEF Decoded
<1>8. whole(b) = [telnet |-> then(b).telnet, data |-> first.data \o then(b).data,
                  reply |-> first.reply \o then(b).reply]
  BY <1>1, <1>6, <1>7
<1>. QED BY <1>8, Zenon DEF first, then, whole

\* One answer more alternates when it says the opposite of what was agreed.
LEMMA AlternateAppend ==
  ASSUME NEW s \in Seq(Word), NEW before \in BOOLEAN, NEW between \in BOOLEAN,
         Alternate(s, before, between), NEW w \in Word, Agrees(w) # between
  PROVE  Alternate(Append(s, w), before, Agrees(w))
<1> DEFINE n == Len(s)
           r == Append(s, w)
<1>1. /\ n \in Nat /\ Len(r) = n + 1 /\ r[n + 1] = w /\ r # << >>
      /\ \A i \in 1..n : r[i] = s[i]
      /\ s = << >> <=> n = 0
  BY LenProperties, AppendProperties, EmptySeq
<1>2. /\ \A i \in 1..n : Agrees(s[i]) # IF i = 1 THEN before ELSE Agrees(s[i - 1])
      /\ between = IF n = 0 THEN before ELSE Agrees(s[n])
  BY <1>1 DEF Alternate
<1> HIDE DEF n, r
<1>3. ASSUME NEW i \in 1..(n + 1)
      PROVE  Agrees(r[i]) # IF i = 1 THEN before ELSE Agrees(r[i - 1])
  <2>1. CASE i \in 1..n
    <3>1. r[i] = s[i] /\ (i # 1 => i - 1 \in 1..n /\ r[i - 1] = s[i - 1])
      BY <1>1, <2>1
    <3>. QED BY <1>2, <2>1, <3>1
  <2>2. CASE i = n + 1
    <3>1. r[i] = w /\ (i = 1 <=> n = 0) /\ (n # 0 => r[i - 1] = s[n])
      BY <1>1, <2>2
    <3>. QED BY <1>2, <3>1
  <2>. QED BY <1>1, <2>1, <2>2
<1>. QED BY <1>1, <1>3 DEF Alternate, r

\* "so we never acknowledge an acknowledgement (RFC 854's negotiation loop trap)"
\* (rfc2217.rs:95-96, 213-214): whatever a peer says, wherever it is cut, the answers
\* about an option it knows alternate between agreeing and refusing, begin with the
\* opposite of what was agreed, and the last of them is what is agreed in the end.  A
\* peer that repeats itself, or that confirms an answer, is told nothing.
THEOREM AnswersAlternate ==
  ASSUME NEW t \in Decoder, NEW x \in Slots, NEW s \in Seq(Octet)
  PROVE  LET d == Decode(t, s)
         IN  Alternate(Kept(d.reply, Answered(x)), t.agreed[x], d.telnet.agreed[x])
<1> DEFINE kept(u) == Kept(Decode(t, u).reply, Answered(x))
           now(u)  == Decode(t, u).telnet.agreed[x]
           Good(u) == Alternate(kept(u), t.agreed[x], now(u))
           T == {u \in Seq(Octet) : Good(u)}
<1>0. ASSUME NEW u \in Seq(Octet)
      PROVE  /\ Decode(t, u) \in Decoded /\ Decode(t, u).telnet \in Decoder
             /\ Decode(t, u).reply \in Seq(Word) /\ now(u) \in BOOLEAN
             /\ kept(u) \in Seq(Word)
  <2>1. Decode(t, u) \in Decoded
    BY DecodeStep
  <2>2. /\ Decode(t, u).telnet \in Decoder /\ Decode(t, u).reply \in Seq(Word)
        /\ Decode(t, u).telnet.agreed \in [Slots -> BOOLEAN]
    BY <2>1 DEF Decoded, Decoder
  <2>. QED BY <2>1, <2>2, KeptType
<1>4. \A X : \A r \in Seq(Word), w \in Word :
        Kept(Append(r, w), X) = IF w \in X THEN Append(Kept(r, X), w) ELSE Kept(r, X)
  BY KeptAppend
<1>1. << >> \in T
  <2>1. << >> \in Seq(Octet)
    OBVIOUS
  <2>2. Decode(t, << >>).telnet = t /\ Decode(t, << >>).reply = << >>
    BY DecodeStep DEF Start
  <2>3. kept(<< >>) = << >> /\ now(<< >>) = t.agreed[x]
    BY <2>2, KeptEmpty
  <2>. QED BY <2>1, <2>3 DEF Alternate
<1>2. ASSUME NEW u \in Seq(Octet), Good(u), NEW b \in Octet
      PROVE  Good(Append(u, b))
  <2> DEFINE d == Decode(t, u)
             word == WordFor(d.telnet, b)
             next == AgreedBy(d.telnet, b)[x]
  <2>1. /\ Decode(t, Append(u, b)) = DecodeByte(d, b) /\ Append(u, b) \in Seq(Octet)
        /\ d \in Decoded /\ d.telnet \in Decoder /\ d.reply \in Seq(Word)
    BY <1>0, DecodeStep, AppendProperties
  <2>2. /\ DecodeByte(d, b).reply = IF word = << >> THEN d.reply ELSE Append(d.reply, word)
        /\ DecodeByte(d, b).telnet.agreed = AgreedBy(d.telnet, b)
        /\ word # << >> => word \in Word
    BY <2>1, ByteAnswers
  <2>3. IF word \in Answered(x)
        THEN word # << >> /\ next = Agrees(word) /\ next # now(u)
        ELSE next = now(u)
    <3>1. CASE d.telnet.state = "Negotiate"
      <4>1. d.telnet.cmd \in Verbs
        BY <2>1 DEF Decoder
      <4>. QED BY <2>1, <3>1, <4>1, NegotiateAnswers DEF WordFor, AgreedBy
    <3>2. CASE d.telnet.state # "Negotiate"
      <4>1. word = << >> /\ next = now(u) /\ << >> \notin Answered(x)
        BY <3>2 DEF WordFor, AgreedBy, Answered, Word
      <4>. QED BY <4>1
    <3>. QED BY <3>1, <3>2
  <2>4. now(Append(u, b)) = next
    BY <2>1, <2>2
  <2>5. kept(Append(u, b)) = IF word \in Answered(x) THEN Append(kept(u), word) ELSE kept(u)
    <3>1. CASE word = << >>
      <4>1. word \notin Answered(x)
        BY <3>1 DEF Answered, Word
      <4>. QED BY <2>1, <2>2, <3>1, <4>1
    <3>2. CASE word # << >>
      <4>1. DecodeByte(d, b).reply = Append(d.reply, word) /\ word \in Word
        BY <2>2, <3>2
      <4>2. Kept(Append(d.reply, word), Answered(x))
              = IF word \in Answered(x) THEN Append(Kept(d.reply, Answered(x)), word)
                                        ELSE Kept(d.reply, Answered(x))
        <5>1. d.reply \in Seq(Word) /\ word \in Word
          BY <2>1, <4>1
        <5> HIDE DEF d, word
        <5>. QED BY <1>4, <5>1
      <4>. QED BY <2>1, <4>1, <4>2, Zenon
    <3>. QED BY <3>1, <3>2
  <2>6. /\ kept(u) \in Seq(Word) /\ now(u) \in BOOLEAN /\ t.agreed[x] \in BOOLEAN
        /\ Alternate(kept(u), t.agreed[x], now(u))
    BY <1>0, <1>2 DEF Decoder
  <2>7. word \in Answered(x) => word \in Word
    BY DEF Answered
  <2> HIDE DEF kept, now, word, next, d
  <2>8. CASE word \in Answered(x)
    <3>1. Alternate(Append(kept(u), word), t.agreed[x], Agrees(word))
      BY <2>3, <2>6, <2>7, <2>8, AlternateAppend
    <3>. QED BY <2>3, <2>4, <2>5, <2>8, <3>1
  <2>9. CASE word \notin Answered(x)
    BY <2>3, <2>4, <2>5, <2>6, <2>9
  <2>. QED BY <2>8, <2>9
<1>3. T = Seq(Octet)
  <2>1. T \in SUBSET Seq(Octet) /\ \A u \in T, b \in Octet : Append(u, b) \in T
    BY <1>2, AppendProperties
  <2> HIDE DEF T
  <2>. QED BY <1>1, <2>1, SeqSet
<1>. QED BY <1>3
=============================================================================
