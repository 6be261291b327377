----------------------------- MODULE PairProofs -----------------------------
(***************************************************************************)
(* For every line rate, latency, jitter and cell size, and whatever noise   *)
(* eats: no byte crosses the wire sooner than the line can carry it (with a *)
(* Horizon that no line time reaches beyond), and none overtakes another.   *)
(***************************************************************************)
EXTENDS Pair, WireCellsProofs

LineTime(k) == k * ByteTime

\* Line time adds up.
LEMMA LineTimeAdds ==
  /\ \A k \in Nat : LineTime(k) \in Nat
  /\ \A j, k \in Nat : LineTime(j + k) = LineTime(j) + LineTime(k)
  /\ \A j, k \in Nat : j <= k => LineTime(j) <= LineTime(k)
<1> USE PairAssumption
<1>1. \A k \in Nat : LineTime(k) \in Nat
  BY DEF LineTime
<1>2. \A j, k \in Nat : LineTime(j + k) = LineTime(j) + LineTime(k)
  BY DEF LineTime
<1>3. ASSUME NEW j \in Nat, NEW k \in Nat, j <= k
      PROVE  LineTime(j) <= LineTime(k)
  <2>1. k - j \in Nat /\ k = j + (k - j)
    BY <1>3
  <2>2. LineTime(k) = LineTime(j) + LineTime(k - j)
    BY <1>2, <2>1
  <2>. QED BY <1>1, <2>1, <2>2
<1>. QED BY <1>1, <1>2, <1>3

Timed == [data : Seq(Nat), due : Nat]

\* The types of what the line's timing depends on.
TimingTypes ==
  /\ keys \in [Sides -> Seq(Nat)] /\ pty \in [Sides -> Seq(Nat)]
  /\ cells \in [Sides -> Seq(Timed)]
  /\ cursor \in [Sides -> Int] /\ age \in [Sides -> Seq(Nat)]
  /\ typed \in [Sides -> 0..MaxTyped]

\* The bytes read so far are numbered on by those that wait to be read.
Numbered(s) ==
  /\ Len(age[s]) + Len(keys[s]) = typed[s]
  /\ \A k \in 1..Len(keys[s]) : keys[s][k] = Len(age[s]) + k

\* When the line is free, it has had time for all it was given since any byte.
LineSpent(s) ==
  \A i \in 1..Len(age[s]) :
    LineFree(s) + age[s][i] >= LineTime(Len(age[s]) - i + 1)

\* When a cell of a plan is due, the line has had time for all up to each byte in it.
RipeCells(plan, ages) ==
  \A k \in 1..Len(plan) : \A q \in 1..Len(plan[k].data) :
    /\ plan[k].data[q] \in 1..Len(ages)
    /\ \A i \in 1..plan[k].data[q] :
         ages[i] + plan[k].due >= LineTime(plan[k].data[q] - i + 1) + Latency

Ripe(s) == RipeCells(cells[s], age[s])

\* A plan that is cut from another one: each byte is in that one, due as late.
CutFrom(plan, was) ==
  \A k \in 1..Len(plan) : \A q \in 1..Len(plan[k].data) :
    \E j \in 1..Len(was) : \E r \in 1..Len(was[j].data) :
      plan[k].data[q] = was[j].data[r] /\ plan[k].due = was[j].due

OnTime(s) == Numbered(s) /\ LineSpent(s) /\ Ripe(s)

TimingInv == TimingTypes /\ \A s \in Sides : OnTime(s)

Reach == Horizon >= LineTime(MaxTyped) + Latency

-----------------------------------------------------------------------------
\* What planning a chunk leaves of each of its bytes (wire.rs:126-145): the cell it
\* is in is due once the line has carried the chunk up to it.
LEMMA CellsAt ==
  ASSUME NEW chunk \in Seq(Nat), NEW k \in DOMAIN Cells(chunk),
         NEW q \in 1..Len(Cells(chunk)[k])
  PROVE  \E p \in 1..Len(chunk) :
           /\ Cells(chunk)[k][q] = chunk[p]
           /\ Least(k * CellBytes, Len(chunk)) \in Nat
           /\ p <= Least(k * CellBytes, Len(chunk))
<1> DEFINE a == (k - 1) * CellBytes
           b == k * CellBytes
           m == Least(b, Len(chunk))
<1>1. k \in Nat \ {0} /\ Len(chunk) \in Nat
  BY LenProperties DEF Cells
<1>2. a \in Nat /\ b \in Nat
  BY <1>1, BytesAssumption
<1>3. m \in Nat /\ m <= Len(chunk)
  BY <1>1, <1>2, LeastType
<1>4. Cells(chunk)[k] = SubSeq(chunk, a + 1, m)
  BY DEF Cells
<1> HIDE DEF a, b, m
<1>5. \A j \in (a + 1)..m : chunk[j] \in Nat
  BY <1>1, <1>2, <1>3, LenProperties
<1>6. /\ Len(SubSeq(chunk, a + 1, m)) = IF a + 1 <= m THEN m - (a + 1) + 1 ELSE 0
      /\ \A j \in 1..(m - (a + 1) + 1) : SubSeq(chunk, a + 1, m)[j] = chunk[a + 1 + j - 1]
  BY <1>2, <1>3, <1>5, SubSeqProperties
<1>7. q <= m - a /\ a + 1 <= m
  BY <1>2, <1>3, <1>4, <1>6
<1>8. SubSeq(chunk, a + 1, m)[q] = chunk[a + q]
  BY <1>2, <1>3, <1>6, <1>7
<1>9. a + q \in 1..Len(chunk) /\ a + q <= m
  BY <1>1, <1>2, <1>3, <1>7
<1>. QED BY <1>3, <1>4, <1>8, <1>9 DEF b, m

\* A read takes the bytes at the head of a buffer and leaves the others, in their
\* order (read_fd, pty.rs:258-274).
LEMMA ReadAt ==
  ASSUME NEW buffer \in Seq(Nat)
  PROVE  /\ ReadOf(buffer) \in Seq(Nat) /\ LeftBy(buffer) \in Seq(Nat)
         /\ Len(ReadOf(buffer)) \in Nat /\ Len(LeftBy(buffer)) \in Nat
         /\ Len(ReadOf(buffer)) + Len(LeftBy(buffer)) = Len(buffer)
         /\ \A p \in 1..Len(ReadOf(buffer)) : ReadOf(buffer)[p] = buffer[p]
         /\ \A p \in 1..Len(LeftBy(buffer)) :
              LeftBy(buffer)[p] = buffer[Len(ReadOf(buffer)) + p]
<1> DEFINE m == Least(ReadMax, Len(buffer))
           l == Len(buffer)
<1>1. m \in 0..l /\ l \in Nat
  BY BytesAssumption, LenProperties DEF Least
<1>2. \A i \in 1..l : buffer[i] \in Nat
  BY LenProperties
<1> HIDE DEF m, l
<1> DEFINE first == SubSeq(buffer, 1, m)
           d == m + 1
           rest == SubSeq(buffer, d, l)
<1>3. /\ first \in Seq(Nat) /\ Len(first) = m
      /\ \A i \in 1..m : first[i] = buffer[i]
  <2>1. \A i \in 1..m : buffer[i] \in Nat
    BY <1>1, <1>2
  <2>2. /\ first \in Seq(Nat)
        /\ Len(first) = IF 1 <= m THEN m - 1 + 1 ELSE 0
        /\ \A i \in 1..(m - 1 + 1) : first[i] = buffer[1 + i - 1]
    BY <1>1, <2>1, SubSeqProperties
  <2>3. ASSUME NEW i \in 1..m PROVE i \in 1..(m - 1 + 1) /\ 1 + i - 1 = i
    BY <1>1
  <2> HIDE DEF first
  <2>. QED BY <1>1, <2>2, <2>3
<1>4. /\ rest \in Seq(Nat) /\ Len(rest) = l - m
      /\ \A i \in 1..(l - m) : rest[i] = buffer[m + i]
  <2>1. d \in Int /\ l \in Int
    BY <1>1
  <2>2. \A i \in d..l : buffer[i] \in Nat
    BY <1>1, <1>2
  <2> HIDE DEF d
  <2>3. /\ rest \in Seq(Nat)
        /\ Len(rest) = IF d <= l THEN l - d + 1 ELSE 0
        /\ \A i \in 1..(l - d + 1) : rest[i] = buffer[d + i - 1]
    BY <2>1, <2>2, SubSeqProperties
  <2> HIDE DEF rest
  <2>4. Len(rest) = l - m
    BY <1>1, <2>3 DEF d
  <2>5. ASSUME NEW i \in 1..(l - m) PROVE i \in 1..(l - d + 1) /\ d + i - 1 = m + i
    BY <1>1 DEF d
  <2>. QED BY <2>3, <2>4, <2>5
<1>5. ReadOf(buffer) = first /\ LeftBy(buffer) = rest
  BY DEF ReadOf, LeftBy, m, l
<1> HIDE DEF first, rest
<1>6. m \in Nat /\ l - m \in Nat /\ m + (l - m) = Len(buffer)
  BY <1>1 DEF l
<1>. QED BY <1>3, <1>4, <1>5, <1>6

\* A write adds bytes of the cell to the buffer and leaves bytes of the cell
\* (write_all_fd, pty.rs:276-294).
LEMMA WriteAt ==
  ASSUME NEW buffer \in Seq(Nat), NEW bytes \in Seq(Nat), Room(buffer) > 0
  PROVE  /\ Filled(buffer, bytes) \in Seq(Nat) /\ Unwritten(bytes, buffer) \in Seq(Nat)
         /\ \A n \in ToSet(Filled(buffer, bytes)) \ ToSet(buffer) :
              \E q \in 1..Len(bytes) : n = bytes[q]
         /\ \A p \in 1..Len(Unwritten(bytes, buffer)) :
              \E q \in 1..Len(bytes) : Unwritten(bytes, buffer)[p] = bytes[q]
<1> DEFINE m == Taken(bytes, buffer)
           l == Len(bytes)
<1>1. m \in 0..l /\ l \in Nat
  BY BytesAssumption, LenProperties DEF Taken, Room, Least
<1>2. \A i \in 1..l : bytes[i] \in Nat
  BY LenProperties
<1> HIDE DEF m, l
<1> DEFINE first == SubSeq(bytes, 1, m)
           rest == SubSeq(bytes, m + 1, l)
<1>3. /\ first \in Seq(Nat) /\ Len(first) = m
      /\ \A i \in 1..m : first[i] = bytes[i]
  <2>1. \A i \in 1..m : bytes[i] \in Nat
    BY <1>1, <1>2
  <2>2. /\ first \in Seq(Nat)
        /\ Len(first) = IF 1 <= m THEN m - 1 + 1 ELSE 0
        /\ \A i \in 1..(m - 1 + 1) : first[i] = bytes[1 + i - 1]
    BY <1>1, <2>1, SubSeqProperties
  <2>3. ASSUME NEW i \in 1..m PROVE i \in 1..(m - 1 + 1) /\ 1 + i - 1 = i
    BY <1>1
  <2> HIDE DEF first
  <2>. QED BY <1>1, <2>2, <2>3
<1>4. rest \in Seq(Nat) /\ \A i \in 1..Len(rest) : \E q \in 1..l : rest[i] = bytes[q]
  <2>1. \A i \in (m + 1)..l : bytes[i] \in Nat
    BY <1>1, <1>2
  <2>2. /\ rest \in Seq(Nat)
        /\ Len(rest) = IF m + 1 <= l THEN l - (m + 1) + 1 ELSE 0
        /\ \A i \in 1..(l - (m + 1) + 1) : rest[i] = bytes[(m + 1) + i - 1]
    BY <1>1, <2>1, SubSeqProperties
  <2>3. ASSUME NEW i \in 1..Len(rest) PROVE \E q \in 1..l : rest[i] = bytes[q]
    <3> HIDE DEF rest
    <3>1. i \in 1..(l - (m + 1) + 1) /\ (m + 1) + i - 1 \in 1..l
      BY <1>1, <2>2
    <3>. QED BY <2>2, <3>1
  <2>. QED BY <2>2, <2>3
<1> HIDE DEF first, rest
<1>5. /\ buffer \o first \in Seq(Nat)
      /\ Len(buffer \o first) = Len(buffer) + m
      /\ \A i \in 1..(Len(buffer) + m) :
           (buffer \o first)[i] = IF i <= Len(buffer) THEN buffer[i] ELSE first[i - Len(buffer)]
  BY <1>3, ConcatProperties
<1>6. ASSUME NEW n \in ToSet(buffer \o first) \ ToSet(buffer)
      PROVE  \E q \in 1..l : n = bytes[q]
  <2>1. /\ Len(buffer) \in Nat /\ DOMAIN buffer = 1..Len(buffer)
        /\ DOMAIN (buffer \o first) = 1..(Len(buffer) + m)
    BY <1>5, LenProperties
  <2>2. PICK i \in 1..(Len(buffer) + m) : n = (buffer \o first)[i]
    BY <2>1 DEF ToSet
  <2>3. ~(i <= Len(buffer))
    <3>1. SUFFICES ASSUME i <= Len(buffer) PROVE FALSE
      OBVIOUS
    <3>2. i \in 1..Len(buffer) /\ n = buffer[i]
      BY <1>1, <1>5, <2>1, <2>2, <3>1
    <3>. QED BY <2>1, <3>2 DEF ToSet
  <2>4. i - Len(buffer) \in 1..m /\ n = first[i - Len(buffer)]
    BY <1>1, <1>5, <2>1, <2>2, <2>3
  <2>5. i - Len(buffer) \in 1..l
    BY <1>1, <2>1, <2>4
  <2>. QED BY <1>3, <2>4, <2>5
<1>7. Filled(buffer, bytes) = buffer \o first /\ Unwritten(bytes, buffer) = rest
  BY DEF Filled, Unwritten, first, rest, m, l
<1>. QED BY <1>4, <1>5, <1>6, <1>7 DEF l

\* What is cut from a ripe plan is ripe.
LEMMA RipeCut ==
  ASSUME NEW was, NEW plan, NEW ages, RipeCells(was, ages), CutFrom(plan, was)
  PROVE  RipeCells(plan, ages)
<1> SUFFICES ASSUME NEW k \in 1..Len(plan), NEW q \in 1..Len(plan[k].data)
             PROVE  /\ plan[k].data[q] \in 1..Len(ages)
                    /\ \A i \in 1..plan[k].data[q] :
                         ages[i] + plan[k].due >= LineTime(plan[k].data[q] - i + 1) + Latency
  BY DEF RipeCells
<1>1. PICK j \in 1..Len(was) : \E r \in 1..Len(was[j].data) :
        plan[k].data[q] = was[j].data[r] /\ plan[k].due = was[j].due
  BY DEF CutFrom
<1>2. PICK r \in 1..Len(was[j].data) :
        plan[k].data[q] = was[j].data[r] /\ plan[k].due = was[j].due
  BY <1>1
<1>. QED BY <1>2 DEF RipeCells

\* Noise (wire.rs:137-143) only takes bytes out of a plan.
LEMMA ThinnedCut ==
  ASSUME NEW plan \in Seq(Timed), NEW eaten
  PROVE  Thinned(plan, eaten) \in Seq(Timed) /\ CutFrom(Thinned(plan, eaten), plan)
<1> DEFINE thin(c) == [c EXCEPT !.data = Kept(@, ToSet(@) \ eaten)]
           left == [i \in DOMAIN plan |-> thin(plan[i])]
           ink == {c \in ToSet(left) : c.data # << >>}
           result == Kept(left, ink)
<1>1. /\ DOMAIN plan = 1..Len(plan) /\ Len(plan) \in Nat
      /\ \A i \in 1..Len(plan) : plan[i] \in Timed
  BY LenProperties, ElementOfSeq
<1>2. ASSUME NEW i \in 1..Len(plan)
      PROVE  /\ thin(plan[i]) \in Timed /\ thin(plan[i]).due = plan[i].due
             /\ ToSet(thin(plan[i]).data) \subseteq ToSet(plan[i].data)
  <2>1. plan[i] \in Timed /\ plan[i].data \in Seq(Nat)
    BY <1>1 DEF Timed
  <2> DEFINE Y == ToSet(plan[i].data) \ eaten
             data == Kept(plan[i].data, Y)
  <2>2. data \in Seq(Nat)
    BY <2>1, KeptType
  <2>3. ToSet(data) = ToSet(plan[i].data) \cap Y
    BY <2>1, KeptMembers
  <2>4. thin(plan[i]) = [plan[i] EXCEPT !.data = data]
    OBVIOUS
  <2>5. ToSet(data) \subseteq ToSet(plan[i].data)
    BY <2>3
  <2> HIDE DEF data, thin
  <2>. QED BY <2>1, <2>2, <2>4, <2>5 DEF Timed
<1> HIDE DEF thin
<1>3. left \in Seq(Timed) /\ Len(left) = Len(plan)
  BY <1>1, <1>2
<1>4. \A i \in 1..Len(plan) : left[i] = thin(plan[i])
  BY <1>1
<1>5. result \in Seq(Timed) /\ ToSet(result) \subseteq ToSet(left)
  <2> HIDE DEF left, ink
  <2>. QED BY <1>3, KeptType, KeptMembers
<1>6. result = Thinned(plan, eaten)
  BY DEF Thinned, thin
<1> HIDE DEF left, result
<1>7. ASSUME NEW k \in 1..Len(result), NEW q \in 1..Len(result[k].data)
      PROVE  \E j \in 1..Len(plan) : \E r \in 1..Len(plan[j].data) :
               result[k].data[q] = plan[j].data[r] /\ result[k].due = plan[j].due
  <2>1. result[k] \in ToSet(left) /\ result[k] \in Timed
    <3>1. DOMAIN result = 1..Len(result)
      BY <1>5, LenProperties
    <3>. QED BY <1>5, <3>1, ElementOfSeq DEF ToSet
  <2>2. PICK j \in 1..Len(plan) : result[k] = left[j]
    <3>1. DOMAIN left = 1..Len(plan)
      BY <1>3, LenProperties
    <3>. QED BY <2>1, <3>1 DEF ToSet
  <2>3. result[k].due = plan[j].due /\ ToSet(result[k].data) \subseteq ToSet(plan[j].data)
    BY <1>2, <1>4, <2>2
  <2>4. result[k].data[q] \in ToSet(result[k].data)
    <3>1. result[k].data \in Seq(Nat)
      BY <2>1 DEF Timed
    <3>2. DOMAIN result[k].data = 1..Len(result[k].data)
      BY <3>1, LenProperties
    <3>. QED BY <3>2 DEF ToSet
  <2>5. PICK r \in 1..Len(plan[j].data) : result[k].data[q] = plan[j].data[r]
    <3>1. plan[j].data \in Seq(Nat)
      BY <1>1 DEF Timed
    <3>2. DOMAIN plan[j].data = 1..Len(plan[j].data)
      BY <3>1, LenProperties
    <3>. QED BY <2>3, <2>4, <3>2 DEF ToSet
  <2>. QED BY <2>3, <2>5
<1>. QED BY <1>5, <1>6, <1>7 DEF CutFrom

-----------------------------------------------------------------------------
(* The bytes of plans.                                                     *)

\* The bytes 1 to n, as they are typed.
Typing(n) == [m \in 1..n |-> m]

\* One byte more.
LEMMA TypingMore ==
  ASSUME NEW n \in Nat
  PROVE  /\ Typing(n) \in Seq(Nat) /\ ToSet(Typing(n)) = 1..n /\ Once(Typing(n))
         /\ Typing(n + 1) = Append(Typing(n), n + 1)
<1>1. \A k \in Nat : Typing(k) \in Seq(Nat) /\ Len(Typing(k)) = k /\ DOMAIN Typing(k) = 1..k
  BY DEF Typing
<1>2. ToSet(Typing(n)) = 1..n /\ Once(Typing(n))
  BY <1>1 DEF Typing, ToSet, Once
<1>3. Typing(n + 1) = Append(Typing(n), n + 1)
  <2> DEFINE t == Typing(n)
             u == Append(t, n + 1)
             w == Typing(n + 1)
  <2>1. t \in Seq(Nat) /\ Len(t) = n /\ \A i \in 1..n : t[i] = i
    BY <1>1 DEF Typing
  <2>2. w \in Seq(Nat) /\ Len(w) = n + 1 /\ \A i \in 1..(n + 1) : w[i] = i
    BY <1>1 DEF Typing
  <2> HIDE DEF t, w
  <2>3. /\ u \in Seq(Nat) /\ Len(u) = n + 1 /\ u[n + 1] = n + 1
        /\ \A i \in 1..n : u[i] = t[i]
    BY <2>1, AppendProperties
  <2> HIDE DEF u
  <2>4. \A i \in 1..(n + 1) : u[i] = w[i]
    BY <2>1, <2>2, <2>3
  <2>5. u = w
    BY <2>2, <2>3, <2>4, SeqEqual
  <2>. QED BY <2>5 DEF u, w, t
<1>. QED BY <1>1, <1>2, <1>3

\* The bytes of a plan are its cells' one after the other.
LEMMA DataOfType ==
  ASSUME NEW plan \in Seq(Timed)
  PROVE  /\ DataOf(plan) \in Seq(Seq(Nat)) /\ Len(DataOf(plan)) = Len(plan)
         /\ \A i \in 1..Len(plan) : DataOf(plan)[i] = plan[i].data
         /\ Bytes(DataOf(plan)) \in Seq(Nat)
<1>1. /\ Len(plan) \in Nat /\ DOMAIN plan = 1..Len(plan)
      /\ \A i \in 1..Len(plan) : plan[i].data \in Seq(Nat)
  <2>1. \A i \in 1..Len(plan) : plan[i] \in Timed
    BY LenProperties, ElementOfSeq
  <2>. QED BY <2>1, LenProperties DEF Timed
<1>2. DataOf(plan) = [i \in 1..Len(plan) |-> plan[i].data]
  BY <1>1 DEF DataOf
<1>3. DataOf(plan) \in Seq(Seq(Nat)) /\ Len(DataOf(plan)) = Len(plan)
  BY <1>1, <1>2
<1>. QED BY <1>2, <1>3, FlatType DEF Bytes

LEMMA DataOfEmpty == DataOf(<< >>) = << >> /\ Bytes(DataOf(<< >>)) = << >>
<1>1. DataOf(<< >>) = << >>
  BY DEF DataOf
<1>. QED BY <1>1, FlatEmpty DEF Bytes

\* A cell more.
LEMMA DataOfAppend ==
  ASSUME NEW plan \in Seq(Timed), NEW c \in Timed
  PROVE  Bytes(DataOf(Append(plan, c))) = Bytes(DataOf(plan)) \o c.data
<1> DEFINE w == Append(plan, c)
           d == DataOf(plan)
           e == Append(d, c.data)
<1>1. /\ w \in Seq(Timed) /\ Len(w) = Len(plan) + 1 /\ Len(plan) \in Nat
      /\ w[Len(plan) + 1] = c /\ \A i \in 1..Len(plan) : w[i] = plan[i]
  BY AppendProperties, LenProperties
<1>2. /\ d \in Seq(Seq(Nat)) /\ Len(d) = Len(plan) /\ c.data \in Seq(Nat)
      /\ \A i \in 1..Len(plan) : d[i] = plan[i].data
  BY DataOfType DEF Timed
<1> HIDE DEF d, w
<1>3. /\ e \in Seq(Seq(Nat)) /\ Len(e) = Len(d) + 1 /\ e[Len(d) + 1] = c.data
      /\ \A i \in 1..Len(d) : e[i] = d[i]
  BY <1>2, AppendProperties
<1>4. /\ DataOf(w) \in Seq(Seq(Nat)) /\ Len(DataOf(w)) = Len(w)
      /\ \A i \in 1..Len(w) : DataOf(w)[i] = w[i].data
  BY <1>1, DataOfType
<1> HIDE DEF e
<1>5. ASSUME NEW i \in 1..Len(e) PROVE DataOf(w)[i] = e[i]
  <2>1. CASE i = Len(plan) + 1
    BY <1>1, <1>2, <1>3, <1>4, <2>1
  <2>2. CASE i # Len(plan) + 1
    <3>1. i \in 1..Len(plan)
      BY <1>1, <1>2, <1>3, <2>2
    <3>. QED BY <1>1, <1>2, <1>3, <1>4, <3>1, ZenonT(40)
  <2>. QED BY <2>1, <2>2
<1>6. DataOf(w) = e
  BY <1>1, <1>2, <1>3, <1>4, <1>5, SeqEqual
<1>7. FlattenSeq(e) = FlattenSeq(d) \o c.data
  BY <1>2, FlatAppend DEF e
<1>. QED BY <1>6, <1>7 DEF Bytes, d, w

\* A cell in front.
LEMMA DataOfFirst ==
  ASSUME NEW plan \in Seq(Timed), NEW c \in Timed
  PROVE  <<c>> \o plan \in Seq(Timed) /\ DataOf(<<c>> \o plan) = <<c.data>> \o DataOf(plan)
<1> DEFINE w == <<c>> \o plan
           d == DataOf(plan)
           b == c.data
           e == <<b>> \o d
<1>1. /\ w \in Seq(Timed) /\ Len(w) = 1 + Len(plan) /\ Len(plan) \in Nat /\ w[1] = c
      /\ \A i \in 2..(1 + Len(plan)) : w[i] = plan[i - 1]
  <2>1. <<c>> \in Seq(Timed) /\ Len(<<c>>) = 1 /\ <<c>>[1] = c
    OBVIOUS
  <2>. QED BY <2>1, ConcatProperties, LenProperties
<1>2. d \in Seq(Seq(Nat)) /\ Len(d) = Len(plan) /\ \A i \in 1..Len(plan) : d[i] = plan[i].data
  BY DataOfType
<1>3. b \in Seq(Nat)
  BY DEF Timed
<1> HIDE DEF w, d, b
<1>4. /\ e \in Seq(Seq(Nat)) /\ Len(e) = 1 + Len(d) /\ e[1] = b
      /\ \A i \in 2..(1 + Len(d)) : e[i] = d[i - 1]
  <2>1. <<b>> \in Seq(Seq(Nat)) /\ Len(<<b>>) = 1 /\ <<b>>[1] = b
    BY <1>3
  <2>2. /\ <<b>> \o d \in Seq(Seq(Nat)) /\ Len(<<b>> \o d) = Len(<<b>>) + Len(d)
        /\ \A i \in 1..(Len(<<b>>) + Len(d)) :
             (<<b>> \o d)[i] = IF i <= Len(<<b>>) THEN <<b>>[i] ELSE d[i - Len(<<b>>)]
    <3> DEFINE q == <<b>>
    <3> HIDE DEF q
    <3>. QED BY <1>2, <2>1, ConcatProperties DEF q
  <2>. QED BY <1>1, <1>2, <2>1, <2>2
<1> HIDE DEF e
<1>5. /\ DataOf(w) \in Seq(Seq(Nat)) /\ Len(DataOf(w)) = Len(w)
      /\ \A i \in 1..Len(w) : DataOf(w)[i] = w[i].data
  BY <1>1, DataOfType
<1>6. ASSUME NEW i \in 1..Len(e) PROVE DataOf(w)[i] = e[i]
  <2>1. CASE i = 1
    BY <1>1, <1>2, <1>4, <1>5, <2>1 DEF b
  <2>2. CASE i # 1
    <3>1. i \in 2..(1 + Len(plan)) /\ i - 1 \in 1..Len(plan) /\ i \in 1..Len(w)
      BY <1>1, <1>2, <1>4, <2>2
    <3>. QED BY <1>1, <1>2, <1>4, <1>5, <3>1
  <2>. QED BY <2>1, <2>2
<1>7. DataOf(w) = e
  BY <1>1, <1>2, <1>4, <1>5, <1>6, SeqEqual
<1>. QED BY <1>1, <1>7 DEF w, e, d, b

-----------------------------------------------------------------------------
(* Noise.                                                                  *)

\* What noise leaves of a cell, and the cells of which it leaves something.
Thin(c, eaten) == [c EXCEPT !.data = Kept(@, Nat \ eaten)]
Thins(plan, eaten) == [i \in 1..Len(plan) |-> Thin(plan[i], eaten)]
Inked == {c \in Timed : c.data # << >>}

LEMMA ThinType ==
  ASSUME NEW c \in Timed, NEW eaten
  PROVE  Thin(c, eaten) \in Timed /\ Thin(c, eaten).data = Kept(c.data, Nat \ eaten)
<1>1. c.data \in Seq(Nat)
  BY DEF Timed
<1>2. Kept(c.data, Nat \ eaten) \in Seq(Nat)
  BY <1>1, KeptType
<1>. QED BY <1>2 DEF Timed, Thin

LEMMA ThinsType ==
  ASSUME NEW plan \in Seq(Timed), NEW eaten
  PROVE  Thins(plan, eaten) \in Seq(Timed) /\ Len(Thins(plan, eaten)) = Len(plan)
<1>1. Len(plan) \in Nat /\ \A i \in 1..Len(plan) : plan[i] \in Timed
  BY LenProperties, ElementOfSeq
<1>2. \A i \in 1..Len(plan) : Thin(plan[i], eaten) \in Timed
  BY <1>1, ThinType
<1>. QED BY <1>1, <1>2 DEF Thins

LEMMA ThinsAppend ==
  ASSUME NEW plan \in Seq(Timed), NEW c \in Timed, NEW eaten
  PROVE  Thins(Append(plan, c), eaten) = Append(Thins(plan, eaten), Thin(c, eaten))
<1> DEFINE w == Append(plan, c)
           t == Thins(plan, eaten)
           x == Thin(c, eaten)
           e == Append(t, x)
<1>1. /\ w \in Seq(Timed) /\ Len(w) = Len(plan) + 1 /\ Len(plan) \in Nat
      /\ w[Len(plan) + 1] = c /\ \A i \in 1..Len(plan) : w[i] = plan[i]
  BY AppendProperties, LenProperties
<1>2. /\ t \in Seq(Timed) /\ Len(t) = Len(plan) /\ x \in Timed
      /\ \A i \in 1..Len(plan) : t[i] = Thin(plan[i], eaten)
  BY ThinsType, ThinType DEF Thins
<1> HIDE DEF w, t
<1>3. /\ Thins(w, eaten) \in Seq(Timed) /\ Len(Thins(w, eaten)) = Len(w)
      /\ \A i \in 1..Len(w) : Thins(w, eaten)[i] = Thin(w[i], eaten)
  BY <1>1, ThinsType DEF Thins
<1>4. /\ e \in Seq(Timed) /\ Len(e) = Len(t) + 1 /\ e[Len(t) + 1] = x
      /\ \A i \in 1..Len(t) : e[i] = t[i]
  <2> HIDE DEF x
  <2>. QED BY <1>2, AppendProperties
<1> HIDE DEF e
<1>5. ASSUME NEW i \in 1..Len(e) PROVE Thins(w, eaten)[i] = e[i]
  <2>1. CASE i = Len(plan) + 1
    BY <1>1, <1>2, <1>3, <1>4, <2>1
  <2>2. CASE i # Len(plan) + 1
    <3>1. i \in 1..Len(plan)
      BY <1>1, <1>2, <1>4, <2>2
    <3>. QED BY <1>1, <1>2, <1>3, <1>4, <3>1
  <2>. QED BY <2>1, <2>2
<1> HIDE DEF x
<1>6. Thins(w, eaten) = e
  BY <1>1, <1>2, <1>3, <1>4, <1>5, SeqEqual
<1>. QED BY <1>6 DEF e, w, t, x

\* Thinned, told with sets that do not depend on the plan.
LEMMA ThinnedAs ==
  ASSUME NEW plan \in Seq(Timed), NEW eaten
  PROVE  Thinned(plan, eaten) = Kept(Thins(plan, eaten), Inked)
<1> DEFINE thin(c) == [c EXCEPT !.data = Kept(@, ToSet(@) \ eaten)]
           left == [i \in DOMAIN plan |-> thin(plan[i])]
           t == Thins(plan, eaten)
<1>1. DOMAIN plan = 1..Len(plan) /\ \A i \in 1..Len(plan) : plan[i] \in Timed
  BY LenProperties, ElementOfSeq
<1>2. ASSUME NEW i \in 1..Len(plan) PROVE thin(plan[i]) = Thin(plan[i], eaten)
  <2> DEFINE d == plan[i].data
  <2>1. d \in Seq(Nat)
    BY <1>1 DEF Timed
  <2>2. ToSet(d) \cap (ToSet(d) \ eaten) = ToSet(d) \cap (Nat \ eaten)
    BY <2>1, ToSetType
  <2> HIDE DEF d
  <2>3. Kept(d, ToSet(d) \ eaten) = Kept(d, Nat \ eaten)
    BY <2>1, <2>2, KeptSame
  <2>. QED BY <2>3 DEF d, Thin
<1>3. left = t
  BY <1>1, <1>2 DEF Thins
<1>4. t \in Seq(Timed)
  BY ThinsType
<1> HIDE DEF t
<1>5. ToSet(t) \cap {c \in ToSet(t) : c.data # << >>} = ToSet(t) \cap Inked
  BY <1>4, ToSetType DEF Inked
<1>6. Kept(t, {c \in ToSet(t) : c.data # << >>}) = Kept(t, Inked)
  BY <1>4, <1>5, KeptSame
<1>7. Thinned(plan, eaten) = Kept(left, {c \in ToSet(left) : c.data # << >>})
  BY DEF Thinned
<1> HIDE DEF left
<1>. QED BY <1>3, <1>6, <1>7 DEF t

\* Noise takes what it eats out of the bytes of a plan, and keeps the others in order.
LEMMA ThinnedBytes ==
  ASSUME NEW plan \in Seq(Timed), NEW eaten
  PROVE  /\ Thinned(plan, eaten) \in Seq(Timed)
         /\ Bytes(DataOf(Thinned(plan, eaten))) = Kept(Bytes(DataOf(plan)), Nat \ eaten)
<1> DEFINE X == Nat \ eaten
           K(u) == Kept(Thins(u, eaten), Inked)
           T == {u \in Seq(Timed) : Bytes(DataOf(K(u))) = Kept(Bytes(DataOf(u)), X)}
<1>1. << >> \in T
  <2>1. Thins(<< >>, eaten) = << >>
    BY DEF Thins
  <2>. QED BY <2>1, KeptEmpty, DataOfEmpty
<1>2. ASSUME NEW u \in Seq(Timed), Bytes(DataOf(K(u))) = Kept(Bytes(DataOf(u)), X),
             NEW c \in Timed
      PROVE  Bytes(DataOf(K(Append(u, c)))) = Kept(Bytes(DataOf(Append(u, c))), X)
  <2> DEFINE k == K(u)
             t == Thin(c, eaten)
             b == Bytes(DataOf(u))
  <2>1. /\ k \in Seq(Timed) /\ t \in Timed /\ t.data = Kept(c.data, X)
        /\ b \in Seq(Nat) /\ c.data \in Seq(Nat) /\ t.data \in Seq(Nat)
    BY ThinsType, ThinType, KeptType, DataOfType DEF Timed
  <2>2. K(Append(u, c)) = IF t \in Inked THEN Append(k, t) ELSE k
    <3> DEFINE v == Thins(u, eaten)
    <3>1. v \in Seq(Timed) /\ Thins(Append(u, c), eaten) = Append(v, t)
      BY ThinsType, ThinsAppend
    <3> HIDE DEF v, t
    <3>2. Kept(Append(v, t), Inked) = IF t \in Inked THEN Append(Kept(v, Inked), t) ELSE Kept(v, Inked)
      BY <2>1, <3>1, KeptAppend
    <3>. QED BY <3>1, <3>2 DEF v
  <2>3. Bytes(DataOf(k)) = Kept(b, X) /\ Kept(b, X) \in Seq(Nat)
    BY <1>2, <2>1, KeptType
  <2>4. Bytes(DataOf(Append(u, c))) = b \o c.data
    BY DataOfAppend
  <2> HIDE DEF k, t, b, X, K
  <2>5. Kept(b \o c.data, X) = Kept(b, X) \o t.data
    <3>1. \A p, q \in Seq(Nat) : Kept(p \o q, X) = Kept(p, X) \o Kept(q, X)
      BY KeptConcat
    <3>2. Kept(b \o c.data, X) = Kept(b, X) \o Kept(c.data, X)
      BY <2>1, <3>1, Zenon
    <3>. QED BY <2>1, <3>2
  <2>6. CASE t \in Inked
    <3>1. Bytes(DataOf(Append(k, t))) = Bytes(DataOf(k)) \o t.data
      BY <2>1, DataOfAppend
    <3>. QED BY <2>2, <2>3, <2>4, <2>5, <2>6, <3>1
  <2>7. CASE t \notin Inked
    <3>1. t.data = << >>
      BY <2>1, <2>7 DEF Inked
    <3>2. Kept(b, X) \o << >> = Kept(b, X)
      BY <2>3, ConcatEmptySeq
    <3>. QED BY <2>2, <2>3, <2>4, <2>5, <2>7, <3>1, <3>2
  <2>. QED BY <2>6, <2>7
<1>3. T \in SUBSET Seq(Timed) /\ \A u \in T, c \in Timed : Append(u, c) \in T
  <2> HIDE DEF X, K
  <2>. QED BY <1>2, AppendProperties
<1>4. T = Seq(Timed)
  <2> HIDE DEF T
  <2>. QED BY <1>1, <1>3, SeqSet
<1>. QED BY <1>4, ThinnedAs, ThinsType, KeptType

-----------------------------------------------------------------------------
(* Streams.                                                                *)

\* Without noise a plan has all the bytes of its chunk (Wire::plan).
LEMMA PlannedBytes ==
  ASSUME NEW from \in Nat, NEW chunk \in Seq(Nat), NEW jitter \in Jitters
  PROVE  /\ Planned(from, chunk, jitter) \in Seq(Timed)
         /\ Bytes(DataOf(Planned(from, chunk, jitter))) = chunk
<1> DEFINE cut == Cells(chunk)
           due(i) == from + ByteTime * Least(i * CellBytes, Len(chunk)) + Latency + jitter
           plan == [i \in DOMAIN cut |-> [data |-> cut[i], due |-> due(i)]]
<1>1. cut \in Seq(Seq(Nat)) /\ FlattenSeq(cut) = chunk
  BY CellsType, CellsWhole
<1>2. /\ DOMAIN cut = 1..Len(cut) /\ Len(cut) \in Nat
      /\ \A i \in 1..Len(cut) : cut[i] \in Seq(Nat)
  BY <1>1, LenProperties, ElementOfSeq
<1>3. ASSUME NEW i \in 1..Len(cut) PROVE due(i) \in Nat
  <2>1. i * CellBytes \in Nat /\ Len(chunk) \in Nat
    BY <1>2, BytesAssumption, LenProperties
  <2>2. Least(i * CellBytes, Len(chunk)) \in Nat
    BY <2>1, LeastType
  <2>3. jitter \in Nat /\ Latency \in Nat /\ ByteTime \in Nat
    BY PairAssumption
  <2> DEFINE m == Least(i * CellBytes, Len(chunk))
  <2> HIDE DEF m
  <2>4. ByteTime * m \in Nat
    BY <2>2, <2>3 DEF m
  <2>. QED BY <2>3, <2>4 DEF m
<1> HIDE DEF due, cut
<1>4. \A i \in 1..Len(cut) : [data |-> cut[i], due |-> due(i)] \in Timed
  BY <1>2, <1>3 DEF Timed
<1>5. plan \in Seq(Timed)
  BY <1>2, <1>4
<1>6. DataOf(plan) = cut
  <2>1. DataOf(plan) = [i \in DOMAIN cut |-> cut[i]]
    BY DEF DataOf
  <2>. QED BY <1>1, <2>1, LenProperties
<1>7. Planned(from, chunk, jitter) = plan
  BY DEF Planned, cut, due
<1> HIDE DEF plan
<1>. QED BY <1>1, <1>5, <1>6, <1>7 DEF Bytes

\* A write moves bytes from the head cell to the buffer.
LEMMA WrittenBytes ==
  ASSUME NEW plan \in Seq(Timed), plan # << >>, NEW buffer \in Seq(Nat), Len(buffer) <= PtyBuf
  PROVE  LET rest == Unwritten(Head(plan).data, buffer)
             left == (IF rest = << >> THEN << >> ELSE <<[data |-> rest, due |-> 0]>>) \o Tail(plan)
         IN  /\ left \in Seq(Timed) /\ Filled(buffer, Head(plan).data) \in Seq(Nat)
             /\ Filled(buffer, Head(plan).data) \o Bytes(DataOf(left))
                  = buffer \o Bytes(DataOf(plan))
<1> DEFINE h == Head(plan)
           t == Tail(plan)
           d == DataOf(plan)
           rest == Unwritten(h.data, buffer)
           kept == <<[data |-> rest, due |-> 0]>>
           left == (IF rest = << >> THEN << >> ELSE kept) \o t
<1>1. /\ h \in Timed /\ t \in Seq(Timed) /\ h.data \in Seq(Nat)
      /\ Len(plan) \in Nat \ {0} /\ Len(t) = Len(plan) - 1 /\ h = plan[1]
      /\ \A i \in 1..Len(t) : t[i] = plan[i + 1]
  <2>1. /\ h \in Timed /\ t \in Seq(Timed) /\ Len(t) = Len(plan) - 1 /\ h = plan[1]
        /\ \A i \in 1..Len(t) : t[i] = plan[i + 1]
    BY HeadTailProperties
  <2>2. Len(plan) \in Nat \ {0}
    BY EmptySeq, LenProperties
  <2>. QED BY <2>1, <2>2 DEF Timed
<1>2. /\ d \in Seq(Seq(Nat)) /\ d # << >> /\ Head(d) = h.data /\ Tail(d) = DataOf(t)
  <2>1. /\ d \in Seq(Seq(Nat)) /\ Len(d) = Len(plan) /\ \A i \in 1..Len(plan) : d[i] = plan[i].data
    BY DataOfType
  <2>2. /\ DataOf(t) \in Seq(Seq(Nat)) /\ Len(DataOf(t)) = Len(t)
        /\ \A i \in 1..Len(t) : DataOf(t)[i] = t[i].data
    BY <1>1, DataOfType
  <2> HIDE DEF d, h, t
  <2>3. d # << >>
    BY <1>1, <2>1, EmptySeq
  <2>4. /\ Head(d) = d[1] /\ Tail(d) \in Seq(Seq(Nat)) /\ Len(Tail(d)) = Len(d) - 1
        /\ \A i \in 1..Len(Tail(d)) : Tail(d)[i] = d[i + 1]
    BY <2>1, <2>3, HeadTailProperties
  <2>5. Head(d) = h.data
    BY <1>1, <2>1, <2>4
  <2>6. ASSUME NEW i \in 1..Len(Tail(d)) PROVE Tail(d)[i] = DataOf(t)[i]
    <3>1. i \in 1..Len(t) /\ i + 1 \in 1..Len(plan)
      BY <1>1, <2>1, <2>4
    <3>. QED BY <1>1, <2>1, <2>2, <2>4, <3>1
  <2>7. Tail(d) = DataOf(t)
    BY <1>1, <2>1, <2>2, <2>4, <2>6, SeqEqual
  <2>. QED BY <2>1, <2>3, <2>5, <2>7
<1>3. Filled(buffer, h.data) \in Seq(Nat) /\ rest \in Seq(Nat)
  BY <1>1, WriteSplits
<1>4. Filled(buffer, h.data) \o FlattenSeq(CellsLeft(d, buffer)) = buffer \o FlattenSeq(d)
  <2> HIDE DEF d, h
  <2>1. Filled(buffer, Head(d)) \o FlattenSeq(CellsLeft(d, buffer)) = buffer \o FlattenSeq(d)
    BY <1>2, CellsWritten
  <2>. QED BY <1>2, <2>1
<1>5. CellsLeft(d, buffer) = IF rest = << >> THEN DataOf(t) ELSE <<rest>> \o DataOf(t)
  <2> HIDE DEF d, h, t
  <2>. QED BY <1>2 DEF CellsLeft
<1>6. left \in Seq(Timed) /\ Bytes(DataOf(left)) = FlattenSeq(CellsLeft(d, buffer))
  <2> HIDE DEF d, h, t, rest
  <2>1. CASE rest = << >>
    <3>1. left = t
      BY <1>1, <2>1, ConcatEmptySeq
    <3>. QED BY <1>1, <1>5, <2>1, <3>1 DEF Bytes
  <2>2. CASE rest # << >>
    <3> DEFINE r == [data |-> rest, due |-> 0]
    <3>1. r \in Timed /\ r.data = rest
      BY <1>3 DEF Timed
    <3> HIDE DEF r
    <3>2. left = <<r>> \o t
      BY <2>2 DEF r
    <3>3. DataOf(<<r>> \o t) = <<rest>> \o DataOf(t) /\ <<r>> \o t \in Seq(Timed)
      BY <1>1, <1>3, <3>1, DataOfFirst
    <3>. QED BY <1>5, <2>2, <3>2, <3>3 DEF Bytes
  <2>. QED BY <2>1, <2>2
<1> HIDE DEF left, d
<1>. QED BY <1>3, <1>4, <1>6 DEF left, d, Bytes

-----------------------------------------------------------------------------
(* Types.                                                                  *)

\* A tick keeps ages and due times what they are.
LEMMA TypesTick ==
  ASSUME TimingTypes, Tick
  PROVE  TimingTypes'
<1> USE PairAssumption
<1>1. cursor' \in [Sides -> Int]
  <2>1. \A s \in Sides : Latest(cursor[s] - 1, -Horizon) \in Int
    BY DEF TimingTypes, Latest
  <2>. QED BY <2>1 DEF Tick
<1>2. ASSUME NEW s \in Sides
      PROVE  [n \in DOMAIN age[s] |-> Least(age[s][n] + 1, Horizon)] \in Seq(Nat)
  <2>1. age[s] \in Seq(Nat)
    BY DEF TimingTypes
  <2>2. /\ DOMAIN age[s] = 1..Len(age[s]) /\ Len(age[s]) \in Nat
        /\ \A n \in DOMAIN age[s] : age[s][n] \in Nat
    BY <2>1, LenProperties
  <2>3. \A n \in DOMAIN age[s] : Least(age[s][n] + 1, Horizon) \in Nat
    BY <2>2 DEF Least
  <2>. QED BY <2>2, <2>3
<1>3. age' \in [Sides -> Seq(Nat)]
  BY <1>2 DEF Tick
<1>4. ASSUME NEW s \in Sides
      PROVE  [i \in DOMAIN cells[s] |->
                [cells[s][i] EXCEPT !.due = Latest(cells[s][i].due - 1, 0)]]
               \in Seq(Timed)
  <2>1. cells[s] \in Seq(Timed)
    BY DEF TimingTypes
  <2>2. /\ DOMAIN cells[s] = 1..Len(cells[s]) /\ Len(cells[s]) \in Nat
        /\ \A i \in DOMAIN cells[s] : cells[s][i] \in Timed
    BY <2>1, LenProperties
  <2>3. ASSUME NEW i \in DOMAIN cells[s]
        PROVE  [cells[s][i] EXCEPT !.due = Latest(cells[s][i].due - 1, 0)]
                 \in Timed
    <3>1. cells[s][i] \in Timed
      BY <2>2
    <3>2. Latest(cells[s][i].due - 1, 0) \in Nat
      BY <3>1 DEF Latest, Timed
    <3>. QED BY <3>1, <3>2 DEF Timed
  <2>. QED BY <2>2, <2>3
<1>5. cells' \in [Sides -> Seq(Timed)]
  BY <1>4 DEF Tick
<1>. QED BY <1>1, <1>3, <1>5 DEF TimingTypes, Tick

\* A read leaves a plan of cells.
LEMMA TypesReads ==
  ASSUME TimingTypes, NEW s \in Sides, PumpReads(s)
  PROVE  TimingTypes'
<1> DEFINE chunk == ReadOf(keys[s])
           zeros == [i \in DOMAIN chunk |-> 0]
<1>1. chunk \in Seq(Nat) /\ LeftBy(keys[s]) \in Seq(Nat)
  BY ReadSplits DEF TimingTypes
<1>2. LineFree(s) \in Nat
  BY DEF TimingTypes, LineFree, Latest
<1>3. DOMAIN chunk = 1..Len(chunk) /\ Len(chunk) \in Nat
  BY <1>1, LenProperties
<1>4. age[s] \o zeros \in Seq(Nat)
  <2>1. zeros \in Seq(Nat)
    BY <1>3
  <2> HIDE DEF zeros
  <2>. QED BY <2>1, ConcatProperties DEF TimingTypes
<1>5. LineFree(s) + ByteTime * Len(chunk) \in Int
  BY <1>2, <1>3, PairAssumption
<1> HIDE DEF chunk
<1>6. cells' \in [Sides -> Seq(Timed)]
  <2>1. PICK jitter \in Jitters, eaten \in SUBSET ToSet(chunk) :
          \/ cells' = [cells EXCEPT ![s] = Planned(LineFree(s), chunk, jitter)]
          \/ cells' = [cells EXCEPT ![s] = Thinned(Planned(LineFree(s), chunk, jitter), eaten)]
    BY DEF PumpReads, Takes, chunk
  <2> DEFINE plan == Planned(LineFree(s), chunk, jitter)
  <2>2. plan \in Seq(Timed)
    BY <1>1, <1>2, PlannedBytes
  <2> HIDE DEF plan
  <2>3. Thinned(plan, eaten) \in Seq(Timed)
    BY <2>2, ThinnedCut
  <2>. QED BY <2>1, <2>2, <2>3 DEF TimingTypes, plan
<1>7. /\ cursor' = [cursor EXCEPT ![s] = LineFree(s) + ByteTime * Len(chunk)]
      /\ age' = [age EXCEPT ![s] = @ \o zeros]
      /\ keys' = [keys EXCEPT ![s] = LeftBy(@)]
      /\ UNCHANGED <<pty, typed>>
  BY DEF PumpReads, Takes, chunk
<1> HIDE DEF zeros
<1>. QED BY <1>1, <1>4, <1>5, <1>6, <1>7 DEF TimingTypes

\* A write takes bytes of the head cell, and leaves the others as due as they were.
LEMMA WriteCuts ==
  ASSUME TimingTypes, NEW s \in Sides, PumpWrites(s)
  PROVE  /\ pty'[Other(s)] \in Seq(Nat) /\ cells'[s] \in Seq(Timed)
         /\ pty' = [pty EXCEPT ![Other(s)] = pty'[Other(s)]]
         /\ cells' = [cells EXCEPT ![s] = cells'[s]]
         /\ \A n \in ToSet(pty'[Other(s)]) \ ToSet(pty[Other(s)]) :
              \E r \in 1..Len(cells[s][1].data) : n = cells[s][1].data[r]
         /\ CutFrom(cells'[s], cells[s])
<1> DEFINE head == cells[s][1]
           buffer == pty[Other(s)]
           rest == Unwritten(head.data, buffer)
           tail == Tail(cells[s])
           kept == <<[data |-> rest, due |-> 0]>>
<1>1. /\ cells[s] \in Seq(Timed) /\ cells[s] # << >> /\ Other(s) \in Sides
      /\ buffer \in Seq(Nat) /\ Head(cells[s]).due = 0 /\ Room(buffer) > 0
  BY DEF TimingTypes, PumpWrites, Due, Sides, Other
<1>2. /\ Len(cells[s]) \in Nat \ {0} /\ Head(cells[s]) = head /\ head \in Timed
      /\ tail \in Seq(Timed) /\ Len(tail) = Len(cells[s]) - 1
      /\ \A k \in 1..Len(tail) : tail[k] = cells[s][k + 1]
  <2>1. Len(cells[s]) \in Nat \ {0}
    BY <1>1, EmptySeq
  <2>2. 1 \in 1..Len(cells[s])
    BY <2>1
  <2>3. head \in Timed
    BY <1>1, <2>2, ElementOfSeq
  <2>. QED BY <1>1, <2>1, <2>3, HeadTailProperties
<1>3. head.data \in Seq(Nat) /\ head.due = 0
  BY <1>1, <1>2 DEF Timed
<1>4. /\ pty' = [pty EXCEPT ![Other(s)] = Filled(@, head.data)]
      /\ cells' = [cells EXCEPT ![s] = (IF rest = << >> THEN << >> ELSE kept) \o tail]
  BY <1>2 DEF PumpWrites
<1> HIDE DEF head, buffer, rest, tail
<1>5. /\ Filled(buffer, head.data) \in Seq(Nat) /\ rest \in Seq(Nat)
      /\ \A n \in ToSet(Filled(buffer, head.data)) \ ToSet(buffer) :
           \E r \in 1..Len(head.data) : n = head.data[r]
      /\ \A q \in 1..Len(rest) : \E r \in 1..Len(head.data) : rest[q] = head.data[r]
  BY <1>1, <1>3, WriteAt DEF rest
<1>6. /\ pty'[Other(s)] = Filled(buffer, head.data)
      /\ pty' = [pty EXCEPT ![Other(s)] = pty'[Other(s)]]
  BY <1>1, <1>4 DEF buffer, TimingTypes
<1>7. /\ cells'[s] = (IF rest = << >> THEN << >> ELSE kept) \o tail
      /\ cells' = [cells EXCEPT ![s] = cells'[s]]
  BY <1>4 DEF TimingTypes
\* Of the cells behind the head nothing changes.
<1>8. ASSUME NEW k \in 1..Len(tail), NEW q \in 1..Len(tail[k].data)
      PROVE  \E j \in 1..Len(cells[s]) : \E r \in 1..Len(cells[s][j].data) :
               tail[k].data[q] = cells[s][j].data[r] /\ tail[k].due = cells[s][j].due
  <2>1. k + 1 \in 1..Len(cells[s]) /\ tail[k] = cells[s][k + 1]
    BY <1>2
  <2>. QED BY <2>1
<1>9. CASE rest = << >>
  <2>1. cells'[s] = tail
    BY <1>2, <1>7, <1>9, ConcatEmptySeq
  <2>2. pty'[Other(s)] \in Seq(Nat)
    BY <1>5, <1>6
  <2>3. \A n \in ToSet(pty'[Other(s)]) \ ToSet(pty[Other(s)]) :
          \E r \in 1..Len(cells[s][1].data) : n = cells[s][1].data[r]
    BY <1>5, <1>6 DEF head, buffer
  <2>4. \A k \in 1..Len(cells'[s]) : \A q \in 1..Len(cells'[s][k].data) :
          \E j \in 1..Len(cells[s]) : \E r \in 1..Len(cells[s][j].data) :
            cells'[s][k].data[q] = cells[s][j].data[r] /\ cells'[s][k].due = cells[s][j].due
    BY <1>8, <2>1, Zenon
  <2>5. CutFrom(cells'[s], cells[s])
    BY <2>4 DEF CutFrom
  <2>. QED BY <1>2, <1>6, <1>7, <2>1, <2>2, <2>3, <2>5
<1>10. CASE rest # << >>
  <2>1. kept \in Seq(Timed) /\ Len(kept) = 1 /\ kept[1] = [data |-> rest, due |-> 0]
    BY <1>5 DEF Timed
  <2>2. cells'[s] = kept \o tail
    BY <1>7, <1>10
  <2> HIDE DEF kept
  <2>3. /\ cells'[s] \in Seq(Timed) /\ Len(cells'[s]) = 1 + Len(tail)
        /\ \A k \in 1..(1 + Len(tail)) :
             cells'[s][k] = IF k <= 1 THEN kept[k] ELSE tail[k - 1]
    <3>1. /\ kept \o tail \in Seq(Timed) /\ Len(kept \o tail) = Len(kept) + Len(tail)
          /\ \A k \in 1..(Len(kept) + Len(tail)) :
               (kept \o tail)[k] = IF k <= Len(kept) THEN kept[k] ELSE tail[k - Len(kept)]
      BY <1>2, <2>1, ConcatProperties
    <3>. QED BY <2>1, <2>2, <3>1
  <2>4. ASSUME NEW k \in 1..Len(cells'[s]), NEW q \in 1..Len(cells'[s][k].data)
        PROVE  \E j \in 1..Len(cells[s]) : \E r \in 1..Len(cells[s][j].data) :
                 cells'[s][k].data[q] = cells[s][j].data[r] /\ cells'[s][k].due = cells[s][j].due
    <3>1. CASE k = 1
      <4>1. cells'[s][k] = kept[1]
        BY <1>2, <2>3, <3>1
      <4>2. cells'[s][k].data = rest /\ cells'[s][k].due = head.due
        BY <1>3, <2>1, <4>1
      <4>3. PICK r \in 1..Len(head.data) : rest[q] = head.data[r]
        BY <1>5, <4>2
      <4>. QED BY <1>2, <4>2, <4>3 DEF head
    <3>2. CASE k # 1
      <4>1. k - 1 \in 1..Len(tail) /\ cells'[s][k] = tail[k - 1]
        BY <1>2, <2>3, <3>2
      <4>2. q \in 1..Len(tail[k - 1].data)
        BY <4>1
      <4>3. \E j \in 1..Len(cells[s]) : \E r \in 1..Len(cells[s][j].data) :
              tail[k - 1].data[q] = cells[s][j].data[r] /\ tail[k - 1].due = cells[s][j].due
        BY <1>8, <4>1, <4>2
      <4>. QED BY <4>1, <4>3, Zenon
    <3>. QED BY <3>1, <3>2
  <2>5. CutFrom(cells'[s], cells[s])
    BY <2>4 DEF CutFrom
  <2>. QED BY <1>5, <1>6, <1>7, <2>3, <2>5 DEF head, buffer
<1>. QED BY <1>9, <1>10

\* Every step keeps the types.
LEMMA TypesStep == TimingTypes /\ [Next]_vars => TimingTypes'
<1> SUFFICES ASSUME TimingTypes, [Next]_vars PROVE TimingTypes'
  OBVIOUS
<1>1. CASE Tick
  BY <1>1, TypesTick
<1>2. ASSUME NEW s \in Sides, PumpReads(s) PROVE TimingTypes'
  BY <1>2, TypesReads
<1>3. ASSUME NEW s \in Sides, PumpWrites(s) PROVE TimingTypes'
  BY <1>3, WriteCuts DEF TimingTypes, PumpWrites
<1>4. ASSUME NEW s \in Sides, PumpFails(s) PROVE TimingTypes'
  BY <1>4 DEF TimingTypes, PumpFails
<1>5. ASSUME NEW s \in Sides, ConsumerTypes(s) PROVE TimingTypes'
  <2>0. typed[s] \in 0..MaxTyped /\ typed[s] < MaxTyped /\ MaxTyped \in Nat
    BY <1>5, PairAssumption DEF TimingTypes, ConsumerTypes
  <2>1. typed[s] + 1 \in Nat /\ typed[s] + 1 \in 0..MaxTyped
    BY <2>0
  <2>2. Append(keys[s], typed[s] + 1) \in Seq(Nat)
    BY <2>1, AppendProperties DEF TimingTypes
  <2>. QED BY <1>5, <2>1, <2>2 DEF TimingTypes, ConsumerTypes
<1>6. ASSUME NEW s \in Sides, ConsumerReads(s) PROVE TimingTypes'
  BY <1>6 DEF TimingTypes, ConsumerReads
<1>7. CASE UNCHANGED vars
  BY <1>7 DEF TimingTypes, vars
<1>. QED BY <1>1, <1>2, <1>3, <1>4, <1>5, <1>6, <1>7 DEF Next, Pump

-----------------------------------------------------------------------------
(* Timing.                                                                 *)

\* A timing of the other side that a step leaves alone stays in order.
LEMMA Untouched ==
  ASSUME NEW s \in Sides, OnTime(s),
         age'[s] = age[s], keys'[s] = keys[s], typed'[s] = typed[s],
         cells'[s] = cells[s], cursor'[s] = cursor[s]
  PROVE  OnTime(s)'
<1>1. Numbered(s)'
  BY DEF OnTime, Numbered
<1>2. LineSpent(s)'
  BY DEF OnTime, LineSpent, LineFree, LineTime
<1>3. Ripe(s)'
  BY DEF OnTime, Ripe, RipeCells, LineTime
<1>. QED BY <1>1, <1>2, <1>3 DEF OnTime

\* Nothing is on its way at the start.
LEMMA TimingInit == Init => TimingInv
<1> SUFFICES ASSUME Init PROVE TimingInv
  OBVIOUS
<1>1. TimingTypes
  BY PairAssumption DEF Init, TimingTypes
<1>2. ASSUME NEW s \in Sides PROVE OnTime(s)
  BY <1>2 DEF Init, OnTime, Numbered, LineSpent, Ripe, RipeCells
<1>. QED BY <1>1, <1>2 DEF TimingInv

\* A tick brings what is due nearer by no more than it makes the bytes older, but for
\* those older than Horizon, which have had time enough.
LEMMA TimingTick ==
  ASSUME Reach, TimingInv, Tick
  PROVE  TimingInv'
<1> USE PairAssumption
<1>1. TimingTypes'
  BY TypesStep DEF TimingInv, Next
<1>2. ASSUME NEW s \in Sides PROVE OnTime(s)'
  <2> DEFINE N == Len(age[s])
  <2>1. /\ age[s] \in Seq(Nat) /\ cells[s] \in Seq(Timed)
        /\ cursor[s] \in Int /\ keys[s] \in Seq(Nat) /\ typed[s] \in 0..MaxTyped
        /\ OnTime(s)
    BY DEF TimingInv, TimingTypes
  <2>a. /\ DOMAIN age[s] = 1..N /\ N \in Nat
        /\ DOMAIN cells[s] = 1..Len(cells[s]) /\ Len(cells[s]) \in Nat
        /\ \A i \in 1..N : age[s][i] \in Nat
        /\ \A k \in 1..Len(cells[s]) : cells[s][k] \in Timed
    BY <2>1, LenProperties
  <2>2. N \in Nat /\ N <= MaxTyped
    <3>1. Len(keys[s]) \in Nat
      BY <2>1, LenProperties
    <3>2. N + Len(keys[s]) = typed[s]
      BY <2>1 DEF OnTime, Numbered
    <3>3. MaxTyped \in Nat /\ typed[s] \in Nat /\ typed[s] <= MaxTyped
      BY <2>1
    <3> HIDE DEF N
    <3>. QED BY <2>a, <3>1, <3>2, <3>3
  <2>3. Len(age'[s]) = N /\ \A i \in 1..N : age'[s][i] = Least(age[s][i] + 1, Horizon)
    <3>1. age'[s] = [n \in DOMAIN age[s] |-> Least(age[s][n] + 1, Horizon)]
      BY DEF Tick
    <3>. QED BY <2>a, <3>1
  <2>4. /\ Len(cells'[s]) = Len(cells[s])
        /\ \A k \in 1..Len(cells[s]) : /\ cells'[s][k].data = cells[s][k].data
                                       /\ cells'[s][k].due = Latest(cells[s][k].due - 1, 0)
    <3>1. cells'[s] = [i \in DOMAIN cells[s] |->
                         [cells[s][i] EXCEPT !.due = Latest(cells[s][i].due - 1, 0)]]
      BY DEF Tick
    <3>. QED BY <2>a, <3>1
  <2>5. cursor'[s] = Latest(cursor[s] - 1, -Horizon)
    BY DEF Tick
  <2>6. \A j \in 0..MaxTyped : LineTime(j) \in Nat /\ Horizon >= LineTime(j) + Latency
    <3> SUFFICES ASSUME NEW j \in 0..MaxTyped
                 PROVE  LineTime(j) \in Nat /\ Horizon >= LineTime(j) + Latency
      OBVIOUS
    <3>1. j \in Nat /\ MaxTyped \in Nat /\ j <= MaxTyped
      OBVIOUS
    <3>2. LineTime(j) \in Nat /\ LineTime(MaxTyped) \in Nat /\ LineTime(j) <= LineTime(MaxTyped)
      BY <3>1, LineTimeAdds
    <3>. QED BY <3>2 DEF Reach
  <2>7. Numbered(s)'
    BY <2>1, <2>3 DEF OnTime, Numbered, Tick
  <2>8. LineSpent(s)'
    <3> SUFFICES ASSUME NEW i \in 1..N
                 PROVE  LineFree(s)' + age'[s][i] >= LineTime(N - i + 1)
      BY <2>3 DEF LineSpent, LineTime
    <3>1. age[s][i] \in Nat /\ LineFree(s) + age[s][i] >= LineTime(N - i + 1)
      BY <2>1, SMTT(30) DEF OnTime, LineSpent
    <3>2. N - i + 1 \in 0..MaxTyped
      BY <2>2
    <3> DEFINE spent == LineTime(N - i + 1)
    <3>3. Horizon >= spent + Latency /\ spent \in Nat
      BY <2>6, <3>2
    <3>4. age'[s][i] = Least(age[s][i] + 1, Horizon)
      BY <2>3
    <3>5. LineFree(s)' = Latest(Latest(cursor[s] - 1, -Horizon), 0)
      BY <2>5 DEF LineFree, Latest
    <3>6. cursor[s] \in Int /\ LineFree(s) = Latest(cursor[s], 0)
      BY <2>1 DEF LineFree
    <3>7. LineFree(s) + age[s][i] >= spent
      BY <3>1
    <3> HIDE DEF spent
    <3>8. LineFree(s)' + age'[s][i] >= spent
      BY <3>1, <3>3, <3>4, <3>5, <3>6, <3>7, SMTT(30) DEF Latest, Least
    <3>. QED BY <3>8 DEF spent
  <2>9. Ripe(s)'
    <3> SUFFICES ASSUME NEW k \in 1..Len(cells[s]), NEW q \in 1..Len(cells[s][k].data)
                 PROVE  /\ cells[s][k].data[q] \in 1..N
                        /\ \A i \in 1..cells[s][k].data[q] :
                             age'[s][i] + cells'[s][k].due
                               >= LineTime(cells[s][k].data[q] - i + 1) + Latency
      BY <2>3, <2>4 DEF Ripe, RipeCells, LineTime
    <3> DEFINE n == cells[s][k].data[q]
    <3>1. n \in 1..N
      BY <2>1 DEF OnTime, Ripe, RipeCells
    <3>2. ASSUME NEW i \in 1..n
          PROVE  age'[s][i] + cells'[s][k].due >= LineTime(n - i + 1) + Latency
      <4> DEFINE spent == LineTime(n - i + 1)
                 old == age[s][i]
                 due == cells[s][k].due
      <4>1. n - i + 1 \in 0..MaxTyped /\ i \in 1..N
        <5> HIDE DEF n, N
        <5>. QED BY <2>2, <3>1
      <4>2. old \in Nat
        BY <2>a, <4>1
      <4>3. due \in Nat
        <5>1. cells[s][k] \in Timed
          BY <2>a
        <5>. QED BY <5>1 DEF Timed
      <4>4. old + due >= spent + Latency
        BY <2>1 DEF OnTime, Ripe, RipeCells
      <4>5. Horizon >= spent + Latency /\ spent \in Nat
        BY <2>6, <4>1
      <4>6. age'[s][i] = Least(old + 1, Horizon)
        BY <2>3, <4>1
      <4>7. cells'[s][k].due = Latest(due - 1, 0)
        BY <2>4
      <4> HIDE DEF spent, old, due
      <4>8. Least(old + 1, Horizon) + Latest(due - 1, 0) >= spent + Latency
        BY <4>2, <4>3, <4>4, <4>5 DEF Latest, Least
      <4>. QED BY <4>6, <4>7, <4>8 DEF spent
    <3>. QED BY <3>1, <3>2
  <2>. QED BY <2>7, <2>8, <2>9 DEF OnTime
<1>. QED BY <1>1, <1>2 DEF TimingInv

\* A read gives its bytes their place after all the line was given before.
LEMMA TimingReads ==
  ASSUME TimingInv, NEW s \in Sides, PumpReads(s)
  PROVE  TimingInv'
<1> DEFINE chunk == ReadOf(keys[s])
           M == Len(chunk)
           N == Len(age[s])
           free == LineFree(s)
           cut == Cells(chunk)
<1>1. /\ age[s] \in Seq(Nat) /\ cells[s] \in Seq(Timed)
      /\ cursor[s] \in Int /\ keys[s] \in Seq(Nat) /\ typed[s] \in 0..MaxTyped
      /\ OnTime(s)
  BY DEF TimingInv, TimingTypes
<1>2. /\ chunk \in Seq(Nat) /\ M \in Nat /\ LeftBy(keys[s]) \in Seq(Nat)
      /\ Len(LeftBy(keys[s])) \in Nat /\ M + Len(LeftBy(keys[s])) = Len(keys[s])
      /\ \A p \in 1..M : chunk[p] = keys[s][p]
      /\ \A p \in 1..Len(LeftBy(keys[s])) : LeftBy(keys[s])[p] = keys[s][M + p]
  BY <1>1, ReadAt
<1>3. N \in Nat /\ \A i \in 1..N : age[s][i] \in Nat
  BY <1>1, LenProperties
<1>4. free \in Nat
  BY <1>1 DEF LineFree, Latest
<1>5. PICK jitter \in Jitters :
        \/ cells' = [cells EXCEPT ![s] = Planned(free, chunk, jitter)]
        \/ \E eaten : cells' = [cells EXCEPT ![s] = Thinned(Planned(free, chunk, jitter), eaten)]
  BY DEF PumpReads, Takes
<1> DEFINE plan == Planned(free, chunk, jitter)
<1>6. /\ cursor' = [cursor EXCEPT ![s] = free + ByteTime * M]
      /\ age' = [age EXCEPT ![s] = @ \o [i \in DOMAIN chunk |-> 0]]
      /\ keys' = [keys EXCEPT ![s] = LeftBy(@)]
      /\ pty' = pty /\ typed' = typed
  BY DEF PumpReads, Takes
<1>7. jitter \in Nat /\ Latency \in Nat /\ ByteTime \in Nat
  BY PairAssumption
<1>8. /\ age'[s] = age[s] \o [i \in 1..M |-> 0]
      /\ keys'[s] = LeftBy(keys[s]) /\ cursor'[s] = free + ByteTime * M
      /\ cells'[s] = plan \/ (\E eaten : cells'[s] = Thinned(plan, eaten))
      /\ cells' = [cells EXCEPT ![s] = cells'[s]] /\ typed'[s] = typed[s]
  <2>1. DOMAIN chunk = 1..M
    BY <1>2, LenProperties
  <2>2. \/ cells' = [cells EXCEPT ![s] = plan]
        \/ \E eaten : cells' = [cells EXCEPT ![s] = Thinned(plan, eaten)]
    BY <1>5
  <2> HIDE DEF chunk, M, free, plan
  <2>. QED BY <1>6, <2>1, <2>2 DEF TimingInv, TimingTypes
<1> HIDE DEF chunk, M, N, free, plan
<1>9. /\ age'[s] \in Seq(Nat) /\ Len(age'[s]) = N + M
      /\ \A i \in 1..N : age'[s][i] = age[s][i]
      /\ \A i \in (N + 1)..(N + M) : age'[s][i] = 0
  <2> DEFINE new == [i \in 1..M |-> 0]
  <2>1. new \in Seq(Nat) /\ Len(new) = M /\ \A i \in 1..M : new[i] = 0
    BY <1>2
  <2> HIDE DEF new
  <2>2. /\ age[s] \o new \in Seq(Nat) /\ Len(age[s] \o new) = Len(age[s]) + M
        /\ \A i \in 1..(Len(age[s]) + M) : (age[s] \o new)[i] =
              IF i <= Len(age[s]) THEN age[s][i] ELSE new[i - Len(age[s])]
    <3>1. age[s] \in Seq(Nat)
      BY <1>1
    <3> DEFINE old == age[s]
    <3>2. old \in Seq(Nat)
      BY <3>1
    <3> HIDE DEF old
    <3>3. /\ old \o new \in Seq(Nat) /\ Len(old \o new) = Len(old) + M
          /\ \A i \in 1..(Len(old) + M) : (old \o new)[i] =
                IF i <= Len(old) THEN old[i] ELSE new[i - Len(old)]
      <4>1. /\ old \o new \in Seq(Nat) /\ Len(old \o new) = Len(old) + Len(new)
            /\ \A i \in 1..(Len(old) + Len(new)) : (old \o new)[i] =
                  IF i <= Len(old) THEN old[i] ELSE new[i - Len(old)]
        BY <2>1, <3>2, ConcatProperties, ZenonT(30)
      <4>. QED BY <2>1, <4>1, ZenonT(30)
    <3>. QED BY <3>3 DEF old
  <2>3. age'[s] = age[s] \o new
    BY <1>8 DEF new
  <2>4. ASSUME NEW i \in (N + 1)..(N + M) PROVE age'[s][i] = 0
    <3>1. i \in 1..(N + M) /\ ~(i <= N) /\ i - N \in 1..M
      BY <1>2, <1>3
    <3>. QED BY <2>1, <2>2, <2>3, <3>1 DEF N
  <2>5. ASSUME NEW i \in 1..N PROVE age'[s][i] = age[s][i]
    <3>1. i \in 1..(N + M) /\ i <= N
      BY <1>2, <1>3
    <3>. QED BY <2>2, <2>3, <3>1 DEF N
  <2>. QED BY <2>2, <2>3, <2>4, <2>5 DEF N
<1>10. /\ cut \in Seq(Seq(Nat)) /\ Len(cut) \in Nat /\ DOMAIN cut = 1..Len(cut)
       /\ \A k \in 1..Len(cut) : cut[k] \in Seq(Nat)
  <2>1. cut \in Seq(Seq(Nat))
    BY <1>2, CellsType
  <2>. QED BY <2>1, LenProperties
<1>11. ASSUME NEW k \in 1..Len(cut)
       PROVE  /\ Least(k * CellBytes, M) \in Nat
              /\ LineTime(Least(k * CellBytes, M)) \in Nat
              /\ ByteTime * Least(k * CellBytes, M) = LineTime(Least(k * CellBytes, M))
  <2>1. k * CellBytes \in Nat
    BY <1>10, BytesAssumption
  <2>2. Least(k * CellBytes, M) \in Nat
    BY <1>2, <2>1, LeastType
  <2>. QED BY <1>7, <2>2 DEF LineTime
<1>12. /\ DOMAIN plan = 1..Len(cut) /\ Len(plan) = Len(cut)
       /\ plan \in Seq(Timed)
       /\ \A k \in 1..Len(cut) :
            /\ plan[k].data = cut[k]
            /\ plan[k].due = free + LineTime(Least(k * CellBytes, M)) + Latency + jitter
  <2>1. plan = [k \in 1..Len(cut) |->
          [data |-> cut[k], due |-> free + ByteTime * Least(k * CellBytes, M) + Latency + jitter]]
    BY <1>10 DEF plan, Planned, M
  <2> HIDE DEF cut
  <2>2. ASSUME NEW k \in 1..Len(cut)
        PROVE  free + ByteTime * Least(k * CellBytes, M) + Latency + jitter \in Nat
    BY <1>4, <1>7, <1>11, SMTT(30)
  <2>3. ASSUME NEW k \in 1..Len(cut)
        PROVE  plan[k] \in Timed
    BY <1>10, <2>1, <2>2 DEF Timed
  <2>4. plan \in Seq(Timed) /\ Len(plan) = Len(cut)
    BY <1>10, <2>1, <2>3
  <2>. QED BY <1>11, <2>1, <2>4
\* Noise takes bytes out of the plan and changes nothing about the others.
<1>21. cells'[s] \in Seq(Timed) /\ CutFrom(cells'[s], plan)
  <2>1. CASE cells'[s] = plan
    BY <1>12, <2>1 DEF CutFrom
  <2>2. ASSUME NEW eaten, cells'[s] = Thinned(plan, eaten)
        PROVE  cells'[s] \in Seq(Timed) /\ CutFrom(cells'[s], plan)
    BY <1>12, <2>2, ThinnedCut
  <2>. QED BY <1>8, <2>1, <2>2
<1>13. TimingTypes'
  BY TypesStep DEF TimingInv, Next, Pump
<1>14. Numbered(s)'
  <2>1. N + Len(keys[s]) = typed[s] /\ \A k \in 1..Len(keys[s]) : keys[s][k] = N + k
    BY <1>1 DEF OnTime, Numbered, N
  <2>2. Len(keys[s]) \in Nat
    BY <1>1, LenProperties
  <2>3. Len(age'[s]) + Len(keys'[s]) = typed'[s]
    <3> DEFINE L == Len(LeftBy(keys[s]))
    <3>1. Len(age'[s]) = N + M /\ Len(keys'[s]) = L /\ typed'[s] = typed[s]
      BY <1>8, <1>9
    <3>2. L \in Nat /\ M \in Nat /\ N \in Nat /\ M + L = Len(keys[s])
      BY <1>2, <1>3
    <3> DEFINE K == Len(keys[s])
               n == typed[s]
    <3>3. N + K = n /\ K \in Nat
      BY <2>1, <2>2
    <3>4. M + L = K
      BY <3>2
    <3> HIDE DEF L, K, n
    <3>5. (N + M) + L = n
      BY <3>2, <3>3, <3>4
    <3>. QED BY <3>1, <3>5 DEF n
  <2>4. ASSUME NEW k \in 1..Len(LeftBy(keys[s])) PROVE LeftBy(keys[s])[k] = (N + M) + k
    <3>1. M + k \in 1..Len(keys[s])
      BY <1>2, <2>2
    <3>2. keys[s][M + k] = N + (M + k)
      BY <2>1, <3>1
    <3>. QED BY <1>2, <1>3, <3>2
  <2>. QED BY <1>8, <1>9, <2>3, <2>4 DEF Numbered
<1>15. /\ \A k \in Nat : LineTime(k) \in Nat
       /\ \A j, k \in Nat : LineTime(j + k) = LineTime(j) + LineTime(k)
       /\ \A j, k \in Nat : j <= k => LineTime(j) <= LineTime(k)
  BY LineTimeAdds
\* After p bytes of the chunk the line has had time for all up to the p-th.
<1>16. ASSUME NEW i \in 1..(N + M), NEW p \in 0..M, i <= N + p, NEW m \in Nat, p <= m
       PROVE  /\ free + LineTime(m) + age'[s][i] >= LineTime((N + p) - i + 1)
              /\ age'[s][i] \in Nat
  <2>1. CASE i <= N
    <3>1. i \in 1..N /\ N - i + 1 \in Nat /\ p \in Nat /\ (N - i + 1) + p = (N + p) - i + 1
      BY <1>2, <1>3, <2>1
    <3>2. free + age[s][i] >= LineTime(N - i + 1)
      BY <1>1, <3>1 DEF OnTime, LineSpent, N, free
    <3>3. LineTime((N + p) - i + 1) = LineTime(N - i + 1) + LineTime(p)
      BY <1>15, <3>1
    <3>4. LineTime(p) <= LineTime(m)
      BY <1>15, <3>1, <1>16
    <3>5. age'[s][i] = age[s][i] /\ age[s][i] \in Nat
      BY <1>3, <1>9, <3>1
    <3>6. LineTime(N - i + 1) \in Nat /\ LineTime(p) \in Nat /\ LineTime(m) \in Nat
      BY <1>15, <3>1
    <3>. QED BY <1>4, <3>2, <3>3, <3>4, <3>5, <3>6
  <2>2. CASE ~(i <= N)
    <3>1. i \in (N + 1)..(N + M) /\ (N + p) - i + 1 \in Nat /\ (N + p) - i + 1 <= m
      BY <1>2, <1>3, <1>16, <2>2
    <3>2. LineTime((N + p) - i + 1) <= LineTime(m) /\ age'[s][i] = 0
      BY <1>9, <1>15, <3>1
    <3>3. LineTime((N + p) - i + 1) \in Nat /\ LineTime(m) \in Nat
      BY <1>15, <3>1
    <3>. QED BY <1>4, <3>2, <3>3
  <2>. QED BY <2>1, <2>2
<1>17. LineSpent(s)'
  <2>1. LineFree(s)' = free + LineTime(M)
    <3>1. LineTime(M) \in Nat /\ LineTime(M) = ByteTime * M
      BY <1>2, <1>7 DEF LineTime
    <3>. QED BY <1>4, <1>8, <3>1 DEF LineFree, Latest
  <2>2. ASSUME NEW i \in 1..(N + M)
        PROVE  LineFree(s)' + age'[s][i] >= LineTime((N + M) - i + 1)
    <3>1. M \in 0..M /\ M \in Nat /\ M <= M /\ i <= N + M
      BY <1>2, <1>3
    <3>2. free + LineTime(M) + age'[s][i] >= LineTime((N + M) - i + 1)
      BY <1>16, <3>1
    <3>. QED BY <2>1, <3>2
  <2>. QED BY <1>9, <2>2 DEF LineSpent, LineTime
<1>18. RipeCells(plan, age'[s])
  <2> SUFFICES ASSUME NEW k \in 1..Len(cut), NEW q \in 1..Len(cut[k])
               PROVE  /\ cut[k][q] \in 1..(N + M)
                      /\ \A i \in 1..cut[k][q] :
                           age'[s][i] + plan[k].due >= LineTime(cut[k][q] - i + 1) + Latency
    BY <1>9, <1>12 DEF RipeCells
  <2> DEFINE m == Least(k * CellBytes, M)
  <2>1. PICK p \in 1..M : cut[k][q] = chunk[p] /\ m \in Nat /\ p <= m
    BY <1>2, <1>10, CellsAt DEF M
  <2>2. cut[k][q] = N + p
    <3>1. p \in 1..Len(keys[s])
      BY <1>2
    <3>. QED BY <1>1, <1>2, <2>1, <3>1 DEF OnTime, Numbered, N
  <2>3. plan[k].due = free + LineTime(m) + Latency + jitter /\ LineTime(m) \in Nat
    BY <1>11, <1>12
  <2> HIDE DEF m, cut
  <2>4. ASSUME NEW i \in 1..(N + p)
        PROVE  age'[s][i] + plan[k].due >= LineTime((N + p) - i + 1) + Latency
    <3>1. i \in 1..(N + M) /\ p \in 0..M /\ i <= N + p /\ (N + p) - i + 1 \in Nat
      BY <1>2, <1>3
    <3>2. free + LineTime(m) + age'[s][i] >= LineTime((N + p) - i + 1) /\ age'[s][i] \in Nat
      BY <1>16, <2>1, <3>1
    <3>3. LineTime((N + p) - i + 1) \in Nat
      BY <1>15, <3>1
    <3> DEFINE sent == LineTime(m)
               spent == LineTime((N + p) - i + 1)
    <3>4. /\ plan[k].due = free + sent + Latency + jitter /\ sent \in Nat
          /\ free + sent + age'[s][i] >= spent /\ spent \in Nat /\ age'[s][i] \in Nat
      BY <2>3, <3>2, <3>3
    <3> HIDE DEF sent, spent
    <3>5. age'[s][i] + plan[k].due >= spent + Latency
      BY <1>4, <1>7, <3>4
    <3>. QED BY <3>5 DEF spent
  <2>5. N + p \in 1..(N + M)
    BY <1>2, <1>3
  <2>. QED BY <2>2, <2>4, <2>5
<1>22. Ripe(s)'
  <2>1. RipeCells(cells'[s], age'[s])
    BY <1>18, <1>21, RipeCut
  <2>. QED BY <2>1 DEF Ripe, RipeCells, LineTime
<1>19. OnTime(s)'
  BY <1>14, <1>17, <1>22 DEF OnTime
<1>20. ASSUME NEW r \in Sides, r # s PROVE OnTime(r)'
  <2>1. /\ age'[r] = age[r] /\ keys'[r] = keys[r] /\ typed'[r] = typed[r]
        /\ cells'[r] = cells[r] /\ cursor'[r] = cursor[r]
    BY <1>6, <1>8, <1>20 DEF TimingInv, TimingTypes
  <2>. QED BY <2>1, Untouched DEF TimingInv
<1>. QED BY <1>13, <1>19, <1>20 DEF TimingInv

\* A write leaves the timing of what is still to write.
LEMMA TimingWrites ==
  ASSUME TimingInv, NEW s \in Sides, PumpWrites(s)
  PROVE  TimingInv'
<1>1. UNCHANGED <<keys, cursor, age, typed>>
  BY DEF PumpWrites
<1>2. TimingTypes'
  BY TypesStep DEF TimingInv, Next, Pump
<1>3. OnTime(s)'
  <2>0. RipeCells(cells'[s], age[s])
    BY WriteCuts, RipeCut DEF TimingInv, OnTime, Ripe
  <2>1. Ripe(s)'
    BY <1>1, <2>0 DEF Ripe, RipeCells, LineTime
  <2>2. Numbered(s)' /\ LineSpent(s)'
    BY <1>1 DEF TimingInv, OnTime, Numbered, LineSpent, LineFree, LineTime
  <2>. QED BY <2>1, <2>2 DEF OnTime
<1>4. ASSUME NEW r \in Sides, r # s PROVE OnTime(r)'
  <2>1. cells'[r] = cells[r]
    BY <1>4, WriteCuts DEF TimingInv, TimingTypes
  <2>. QED BY <1>1, <2>1, Untouched DEF TimingInv
<1>. QED BY <1>2, <1>3, <1>4 DEF TimingInv

\* What a failed write drops is due no more.
LEMMA TimingFails ==
  ASSUME TimingInv, NEW s \in Sides, PumpFails(s)
  PROVE  TimingInv'
<1>1. UNCHANGED <<keys, pty, cursor, age, typed>> /\ cells' = [cells EXCEPT ![s] = << >>]
  BY DEF PumpFails
<1>2. TimingTypes'
  BY TypesStep DEF TimingInv, Next, Pump
<1>3. OnTime(s)'
  <2>1. cells'[s] = << >>
    BY <1>1 DEF TimingInv, TimingTypes
  <2>2. Ripe(s)'
    BY <2>1 DEF Ripe, RipeCells
  <2>3. Numbered(s)' /\ LineSpent(s)'
    BY <1>1 DEF TimingInv, OnTime, Numbered, LineSpent, LineFree, LineTime
  <2>. QED BY <2>2, <2>3 DEF OnTime
<1>4. ASSUME NEW r \in Sides, r # s PROVE OnTime(r)'
  <2>1. cells'[r] = cells[r]
    BY <1>1, <1>4 DEF TimingInv, TimingTypes
  <2>. QED BY <1>1, <2>1, Untouched DEF TimingInv
<1>. QED BY <1>2, <1>3, <1>4 DEF TimingInv

\* A byte typed waits behind the others.
LEMMA TimingTyped ==
  ASSUME TimingInv, NEW s \in Sides, ConsumerTypes(s)
  PROVE  TimingInv'
<1>1. /\ UNCHANGED <<pty, cells, cursor, age>> /\ typed[s] < MaxTyped
      /\ typed' = [typed EXCEPT ![s] = @ + 1]
      /\ keys' = [keys EXCEPT ![s] = Append(@, typed[s] + 1)]
  BY DEF ConsumerTypes
<1>2. /\ keys[s] \in Seq(Nat) /\ typed[s] \in 0..MaxTyped /\ MaxTyped \in Nat
      /\ OnTime(s) /\ age[s] \in Seq(Nat)
  BY PairAssumption DEF TimingInv, TimingTypes
<1>3. /\ keys'[s] = Append(keys[s], typed[s] + 1) /\ typed'[s] = typed[s] + 1
      /\ typed[s] + 1 \in 0..MaxTyped /\ typed[s] + 1 \in Nat
  BY <1>1, <1>2 DEF TimingInv, TimingTypes
<1>4. /\ keys'[s] \in Seq(Nat) /\ Len(keys'[s]) = Len(keys[s]) + 1
      /\ \A k \in 1..Len(keys[s]) : keys'[s][k] = keys[s][k]
      /\ keys'[s][Len(keys[s]) + 1] = typed[s] + 1
  BY <1>2, <1>3, AppendProperties
<1>5. TimingTypes'
  BY TypesStep DEF TimingInv, Next
<1>6. Numbered(s)'
  <2> DEFINE N == Len(age[s])
             K == Len(keys[s])
             n == typed[s]
  <2>1. N \in Nat /\ K \in Nat /\ n \in Nat
    BY <1>2, LenProperties
  <2>2. N + K = n /\ \A k \in 1..K : keys[s][k] = N + k
    BY <1>2 DEF OnTime, Numbered
  <2>3. /\ Len(age'[s]) = N /\ typed'[s] = n + 1 /\ Len(keys'[s]) = K + 1
        /\ keys'[s][K + 1] = n + 1 /\ \A k \in 1..K : keys'[s][k] = keys[s][k]
    BY <1>1, <1>3, <1>4
  <2> HIDE DEF N, K, n
  <2>4. N + (K + 1) = n + 1
    BY <2>1, <2>2
  <2>5. ASSUME NEW k \in 1..(K + 1) PROVE keys'[s][k] = N + k
    <3>1. CASE k = K + 1
      BY <2>3, <2>4, <3>1
    <3>2. CASE k # K + 1
      <4>1. k \in 1..K
        BY <2>1, <3>2
      <4>. QED BY <2>2, <2>3, <4>1
    <3>. QED BY <3>1, <3>2
  <2>. QED BY <2>3, <2>4, <2>5 DEF Numbered
<1>7. OnTime(s)'
  <2>1. LineSpent(s)' /\ Ripe(s)'
    BY <1>1, <1>2 DEF OnTime, LineSpent, Ripe, RipeCells, LineFree, LineTime
  <2>. QED BY <1>6, <2>1 DEF OnTime
<1>8. ASSUME NEW r \in Sides, r # s PROVE OnTime(r)'
  <2>1. keys'[r] = keys[r] /\ typed'[r] = typed[r]
    BY <1>1, <1>8 DEF TimingInv, TimingTypes
  <2>. QED BY <1>1, <2>1, Untouched DEF TimingInv
<1>. QED BY <1>5, <1>7, <1>8 DEF TimingInv

-----------------------------------------------------------------------------
\* Every step keeps what is on its way on time.
LEMMA TimingStep == ASSUME Reach
                    PROVE  TimingInv /\ [Next]_vars => TimingInv'
<1> SUFFICES ASSUME TimingInv, [Next]_vars PROVE TimingInv'
  OBVIOUS
<1>1. CASE Tick
  BY <1>1, TimingTick
<1>2. ASSUME NEW s \in Sides, Pump(s) PROVE TimingInv'
  BY <1>2, TimingReads, TimingWrites DEF Pump
<1>3. ASSUME NEW s \in Sides, PumpFails(s) PROVE TimingInv'
  BY <1>3, TimingFails
<1>4. ASSUME NEW s \in Sides, ConsumerTypes(s) PROVE TimingInv'
  BY <1>4, TimingTyped
<1>5. ASSUME NEW s \in Sides, ConsumerReads(s) PROVE TimingInv'
  <2>1. UNCHANGED <<keys, cells, cursor, age, typed>> /\ pty' = [pty EXCEPT ![s] = << >>]
    BY <1>5 DEF ConsumerReads
  <2>2. TimingTypes'
    BY TypesStep DEF TimingInv
  <2>3. ASSUME NEW r \in Sides PROVE OnTime(r)'
    BY <2>1, Untouched DEF TimingInv
  <2>. QED BY <2>2, <2>3 DEF TimingInv
<1>6. CASE UNCHANGED vars
  <2>1. TimingTypes'
    BY TypesStep DEF TimingInv
  <2>2. ASSUME NEW r \in Sides PROVE OnTime(r)'
    BY <1>6, Untouched DEF vars, TimingInv
  <2>. QED BY <2>1, <2>2 DEF TimingInv
<1>. QED BY <1>1, <1>2, <1>3, <1>4, <1>5, <1>6 DEF Next

\* A byte reaches the far port only by a write, and its cell was due then.
LEMMA ArrivesOnTime ==
  ASSUME TimingInv, [Next]_vars,
         NEW s \in Sides, NEW n \in ToSet(pty'[Other(s)]) \ ToSet(pty[Other(s)]),
         NEW i \in 1..n
  PROVE  age[s][i] >= (n - i + 1) * ByteTime + Latency
<1>1. PumpWrites(s)
  <2>1. pty'[Other(s)] # pty[Other(s)]
    OBVIOUS
  <2>2. ~Tick /\ ~UNCHANGED vars /\ \A r \in Sides : ~PumpReads(r) /\ ~PumpFails(r) /\ ~ConsumerTypes(r)
    BY <2>1 DEF Tick, vars, PumpReads, Takes, PumpFails, ConsumerTypes
  <2>3. ASSUME NEW r \in Sides, ConsumerReads(r) PROVE FALSE
    <3>1. r = Other(s) /\ pty'[r] = << >>
      BY <2>1, <2>3 DEF ConsumerReads, TimingInv, TimingTypes, Sides, Other
    <3>. QED BY <3>1 DEF ToSet
  <2>4. ASSUME NEW r \in Sides, PumpWrites(r) PROVE r = s
    BY <2>1, <2>4 DEF PumpWrites, TimingInv, TimingTypes, Sides, Other
  <2>. QED BY <2>2, <2>3, <2>4 DEF Next, Pump
<1>2. PICK r \in 1..Len(cells[s][1].data) : n = cells[s][1].data[r]
  BY <1>1, WriteCuts DEF TimingInv
<1>3. cells[s] \in Seq(Timed) /\ cells[s] # << >> /\ Head(cells[s]).due = 0
  BY <1>1 DEF PumpWrites, Due, TimingInv, TimingTypes
<1>4. 1 \in 1..Len(cells[s]) /\ cells[s][1].due = 0
  <2>1. Len(cells[s]) \in Nat \ {0}
    BY <1>3, EmptySeq
  <2>. QED BY <1>3, <2>1
<1>5. /\ n \in 1..Len(age[s])
      /\ age[s][i] + cells[s][1].due >= LineTime(n - i + 1) + Latency
  BY <1>2, <1>4 DEF TimingInv, OnTime, Ripe, RipeCells
<1>6. age[s][i] \in Nat
  <2>1. age[s] \in Seq(Nat) /\ Len(age[s]) \in Nat
    BY LenProperties DEF TimingInv, TimingTypes
  <2>2. i \in 1..Len(age[s])
    BY <1>5, <2>1
  <2>. QED BY <2>1, <2>2, ElementOfSeq
<1>. QED BY <1>4, <1>5, <1>6 DEF LineTime

\* Whatever noise eats, the line rate, latency and jitter, the cells and the
\* buffers: no byte reaches the far port before the line has had time for it and all
\* read before it, and the latency has passed (Wire::plan, wire.rs:126-173).
THEOREM LineRateKept == ASSUME Reach PROVE Spec => LineRate
<1>1. Init => TimingInv
  BY TimingInit
<1>2. TimingInv /\ [Next]_vars => TimingInv'
  BY TimingStep
<1>3. TimingInv /\ [Next]_vars =>
        [\A s \in Sides :
           \A n \in ToSet(pty'[Other(s)]) \ ToSet(pty[Other(s)]) :
             \A i \in 1..n : age[s][i] >= (n - i + 1) * ByteTime + Latency]_vars
  BY ArrivesOnTime
<1>. QED BY <1>1, <1>2, <1>3, PTL DEF Spec, LineRate

-----------------------------------------------------------------------------
(* What is on its way.                                                     *)

OnItsWay(s) == heard[Other(s)] \o pty[Other(s)] \o Bytes(DataOf(cells[s])) \o keys[s]
Wanted(s)   == (1..typed[s]) \ lost[s]
Flows(s)    == OnItsWay(s) = Kept(Typing(typed[s]), Wanted(s)) /\ lost[s] \subseteq 1..typed[s]

FlowTypes == /\ TimingTypes /\ heard \in [Sides -> Seq(Nat)] /\ lost \in [Sides -> SUBSET Nat]
FlowInv == FlowTypes /\ \A s \in Sides : Flows(s)

\* The types of one way, and what all of it is as a whole.
LEMMA FlowFacts ==
  ASSUME FlowTypes, NEW s \in Sides
  PROVE  /\ Other(s) \in Sides /\ Other(s) # s /\ Other(Other(s)) = s
         /\ heard[Other(s)] \in Seq(Nat) /\ pty[Other(s)] \in Seq(Nat) /\ keys[s] \in Seq(Nat)
         /\ cells[s] \in Seq(Timed) /\ Bytes(DataOf(cells[s])) \in Seq(Nat)
         /\ heard[Other(s)] \o pty[Other(s)] \in Seq(Nat)
         /\ typed[s] \in Nat /\ lost[s] \subseteq Nat
         /\ Typing(typed[s]) \in Seq(Nat) /\ ToSet(Typing(typed[s])) = 1..typed[s]
         /\ Once(Typing(typed[s]))
<1>1. /\ Other(s) \in Sides /\ Other(s) # s /\ Other(Other(s)) = s
  BY DEF Sides, Other
<1>2. /\ heard[Other(s)] \in Seq(Nat) /\ pty[Other(s)] \in Seq(Nat) /\ keys[s] \in Seq(Nat)
      /\ cells[s] \in Seq(Timed) /\ typed[s] \in Nat /\ lost[s] \subseteq Nat
  BY <1>1, PairAssumption DEF FlowTypes, TimingTypes
<1>3. heard[Other(s)] \o pty[Other(s)] \in Seq(Nat)
  BY <1>2, ConcatProperties
<1>. QED BY <1>1, <1>2, <1>3, DataOfType, TypingMore

\* A way that a step leaves alone.
LEMMA FlowUntouched ==
  ASSUME NEW s \in Sides, Flows(s), heard'[Other(s)] = heard[Other(s)],
         pty'[Other(s)] = pty[Other(s)], cells'[s] = cells[s], keys'[s] = keys[s],
         typed'[s] = typed[s], lost'[s] = lost[s]
  PROVE  Flows(s)'
BY DEF Flows, OnItsWay, Wanted, Typing

LEMMA FlowInit == Init => FlowInv
<1> SUFFICES ASSUME Init PROVE FlowInv
  OBVIOUS
<1>1. FlowTypes
  BY TimingInit DEF TimingInv, FlowTypes, Init
<1>2. ASSUME NEW s \in Sides PROVE Flows(s)
  <2>1. /\ Other(s) \in Sides /\ heard[Other(s)] = << >> /\ pty[Other(s)] = << >>
        /\ cells[s] = << >> /\ keys[s] = << >> /\ typed[s] = 0 /\ lost[s] = {}
    BY DEF Init, Sides, Other
  <2>2. Typing(0) = << >>
    BY DEF Typing
  <2>3. << >> \o << >> = << >>
    OBVIOUS
  <2>4. OnItsWay(s) = << >>
    BY <2>1, <2>3, DataOfEmpty DEF OnItsWay
  <2>. QED BY <2>1, <2>2, <2>4, KeptEmpty DEF Flows
<1>. QED BY <1>1, <1>2 DEF FlowInv

\* A tick changes no bytes.
LEMMA FlowTick ==
  ASSUME FlowInv, Tick, NEW s \in Sides
  PROVE  Flows(s)'
<1>1. cells[s] \in Seq(Timed)
  BY FlowFacts DEF FlowInv
<1> DEFINE later == [i \in DOMAIN cells[s] |-> [cells[s][i] EXCEPT !.due = Latest(@ - 1, 0)]]
<1>2. DOMAIN cells[s] = 1..Len(cells[s]) /\ \A i \in 1..Len(cells[s]) : cells[s][i] \in Timed
  BY <1>1, LenProperties, ElementOfSeq
<1>3. \A i \in 1..Len(cells[s]) : later[i].data = cells[s][i].data
  BY <1>2 DEF Timed
<1>4. DataOf(later) = DataOf(cells[s])
  BY <1>2, <1>3 DEF DataOf
<1>5. cells'[s] = later
  BY DEF Tick
<1> HIDE DEF later
<1>6. OnItsWay(s)' = OnItsWay(s) /\ typed' = typed /\ lost' = lost
  BY <1>4, <1>5 DEF Tick, OnItsWay
<1>. QED BY <1>6 DEF FlowInv, Flows, Wanted

\* A part of what was kept is of the stream.
LEMMA PartKept ==
  ASSUME NEW S, NEW s \in Seq(S), NEW X,
         NEW a \in Seq(S), NEW b \in Seq(S), NEW c \in Seq(S), ThreeParts(s, X, a, b, c)
  PROVE  ToSet(b) \subseteq ToSet(s)
<1> DEFINE ab == a \o b
<1>1. ab \in Seq(S) /\ ToSet(ab) = ToSet(a) \cup ToSet(b)
  BY ConcatProperties, ToSetConcat
<1>2. Kept(s, X) = ab \o c
  BY DEF ThreeParts
<1> HIDE DEF ab
<1>3. ToSet(ab \o c) = ToSet(ab) \cup ToSet(c)
  BY <1>1, ToSetConcat
<1>4. ToSet(Kept(s, X)) \subseteq ToSet(s)
  BY KeptMembers
<1>. QED BY <1>1, <1>2, <1>3, <1>4

\* A read puts its bytes into cells, but for those that noise eats.
LEMMA FlowReads ==
  ASSUME FlowInv, NEW s \in Sides, PumpReads(s)
  PROVE  Flows(s)' /\ cells' = [cells EXCEPT ![s] = cells'[s]] /\ cells'[s] \in Seq(Timed)
<1> DEFINE hp == heard[Other(s)] \o pty[Other(s)]
           chunk == ReadOf(keys[s])
           left == LeftBy(keys[s])
           whole == Typing(typed[s])
           X == Wanted(s)
<1>1. /\ hp \in Seq(Nat) /\ keys[s] \in Seq(Nat) /\ cells[s] = << >> /\ whole \in Seq(Nat)
      /\ Once(whole) /\ ToSet(whole) = 1..typed[s] /\ lost[s] \subseteq 1..typed[s]
      /\ OnItsWay(s) = Kept(whole, X)
  BY FlowFacts DEF FlowInv, Flows, PumpReads
<1>2. chunk \in Seq(Nat) /\ left \in Seq(Nat) /\ chunk \o left = keys[s]
  BY <1>1, ReadSplits
<1>3. LineFree(s) \in Nat
  BY DEF FlowInv, FlowTypes, TimingTypes, LineFree, Latest
<1>4. PICK jitter \in Jitters, eaten \in SUBSET ToSet(chunk) :
        \/ cells' = [cells EXCEPT ![s] = Planned(LineFree(s), chunk, jitter)]
           /\ lost' = lost /\ eaten = {}
        \/ cells' = [cells EXCEPT ![s] = Thinned(Planned(LineFree(s), chunk, jitter), eaten)]
           /\ lost' = [lost EXCEPT ![s] = @ \cup eaten]
  BY DEF PumpReads, Takes
<1>5. /\ keys'[s] = left /\ pty' = pty /\ typed' = typed /\ heard' = heard
  BY DEF PumpReads, Takes, FlowInv, FlowTypes, TimingTypes
<1> DEFINE plan == Planned(LineFree(s), chunk, jitter)
<1>6. plan \in Seq(Timed) /\ Bytes(DataOf(plan)) = chunk
  BY <1>2, <1>3, PlannedBytes
<1>7. /\ (cells'[s] = plan /\ eaten = {}) \/ cells'[s] = Thinned(plan, eaten)
      /\ cells' = [cells EXCEPT ![s] = cells'[s]]
      /\ lost'[s] = lost[s] \cup eaten
  BY <1>4 DEF FlowInv, FlowTypes, TimingTypes
<1> HIDE DEF hp, chunk, left, whole, X, plan
<1>8. cells'[s] \in Seq(Timed) /\ Bytes(DataOf(cells'[s])) = Kept(chunk, Nat \ eaten)
  <2>1. CASE cells'[s] = plan /\ eaten = {}
    <3>1. ToSet(chunk) \subseteq Nat \ eaten
      BY <1>2, <2>1, ToSetType
    <3>2. Kept(chunk, Nat \ eaten) = chunk
      BY <1>2, <3>1, KeptAll
    <3>. QED BY <1>6, <2>1, <3>2
  <2>2. CASE cells'[s] = Thinned(plan, eaten)
    BY <1>6, <2>2, ThinnedBytes
  <2>. QED BY <1>7, <2>1, <2>2
\* Before, all was in the port, and all of it was typed.
<1>9. ThreeParts(whole, X, hp, chunk, left)
  <2>1. Associative(Nat)
    BY Regrouped, Zenon
  <2>2. (hp \o chunk) \o left = hp \o (chunk \o left)
    BY <1>1, <1>2, <2>1, Zenon DEF Associative
  <2>3. hp \o << >> = hp
    BY <1>1, ConcatEmptySeq
  <2>4. OnItsWay(s) = (hp \o Bytes(DataOf(cells[s]))) \o keys[s]
    BY DEF OnItsWay, hp
  <2>5. OnItsWay(s) = hp \o keys[s]
    BY <1>1, <2>3, <2>4, DataOfEmpty
  <2>. QED BY <1>1, <1>2, <2>2, <2>5 DEF ThreeParts
<1>10. ToSet(chunk) \subseteq 1..typed[s]
  BY <1>1, <1>2, <1>9, PartKept
<1> DEFINE Y == (1..typed[s]) \ (lost[s] \cup eaten)
<1>11. Without(whole, X, Y, eaten)
  BY <1>1 DEF Without, X, Wanted
<1> HIDE DEF Y
<1>12. ThreeParts(whole, Y, hp, Kept(chunk, Nat \ eaten), left)
  BY <1>1, <1>2, <1>9, <1>11, KeptThinner
<1>13. OnItsWay(s)' = (hp \o Kept(chunk, Nat \ eaten)) \o left
  BY <1>5, <1>8 DEF OnItsWay, hp
<1>14. Wanted(s)' = Y /\ Typing(typed[s])' = whole
  BY <1>5, <1>7 DEF Wanted, Y, whole, Typing
<1>15. lost'[s] \subseteq 1..typed'[s]
  BY <1>1, <1>5, <1>7, <1>10
<1>. QED BY <1>7, <1>8, <1>12, <1>13, <1>14, <1>15 DEF Flows, ThreeParts

\* A write moves bytes from the head cell to the port.
LEMMA FlowWrites ==
  ASSUME FlowInv, NEW s \in Sides, PumpWrites(s)
  PROVE  /\ Flows(s)' /\ cells' = [cells EXCEPT ![s] = cells'[s]] /\ cells'[s] \in Seq(Timed)
         /\ pty' = [pty EXCEPT ![Other(s)] = pty'[Other(s)]] /\ pty'[Other(s)] \in Seq(Nat)
<1> DEFINE o == Other(s)
           buffer == pty[o]
           h == Head(cells[s])
           rest == Unwritten(h.data, buffer)
           left == (IF rest = << >> THEN << >> ELSE <<[data |-> rest, due |-> 0]>>) \o Tail(cells[s])
           filled == Filled(buffer, h.data)
           b == Bytes(DataOf(cells[s]))
           c == Bytes(DataOf(left))
<1>1. /\ o \in Sides /\ heard[o] \in Seq(Nat) /\ buffer \in Seq(Nat) /\ keys[s] \in Seq(Nat)
      /\ cells[s] \in Seq(Timed) /\ b \in Seq(Nat)
  BY FlowFacts DEF FlowInv
<1>2. cells[s] # << >> /\ Len(buffer) <= PtyBuf
  <2>1. cells[s] # << >> /\ Room(buffer) > 0
    BY DEF PumpWrites, Due
  <2>2. Len(buffer) \in Nat /\ PtyBuf \in Nat
    BY <1>1, LenProperties, BytesAssumption
  <2> HIDE DEF buffer
  <2>. QED BY <2>1, <2>2 DEF Room
<1>3. left \in Seq(Timed) /\ filled \in Seq(Nat) /\ filled \o c = buffer \o b
  <2> HIDE DEF buffer
  <2>. QED BY <1>1, <1>2, WrittenBytes
<1>4. /\ pty' = [pty EXCEPT ![o] = filled] /\ cells' = [cells EXCEPT ![s] = left]
      /\ UNCHANGED <<keys, typed, heard, lost>>
  BY DEF PumpWrites
<1>5. pty'[o] = filled /\ cells'[s] = left
  <2> HIDE DEF filled, left
  <2>. QED BY <1>1, <1>4 DEF FlowInv, FlowTypes, TimingTypes
<1>6. c \in Seq(Nat)
  <2> HIDE DEF left
  <2>. QED BY <1>3, DataOfType
<1> HIDE DEF filled, left, buffer, b, c
<1>7. (heard[o] \o filled) \o c = (heard[o] \o buffer) \o b
  <2>1. Associative(Nat)
    BY Regrouped, Zenon
  <2>2. (heard[o] \o filled) \o c = heard[o] \o (filled \o c)
    BY <1>1, <1>3, <1>6, <2>1, ZenonT(40) DEF Associative
  <2>3. (heard[o] \o buffer) \o b = heard[o] \o (buffer \o b)
    BY <1>1, <2>1, Zenon DEF Associative
  <2>. QED BY <1>3, <2>2, <2>3
<1>8. OnItsWay(s)' = OnItsWay(s)
  <2>1. OnItsWay(s) = ((heard[o] \o buffer) \o b) \o keys[s]
    BY DEF OnItsWay, buffer, b
  <2>2. OnItsWay(s)' = ((heard[o] \o filled) \o c) \o keys[s]
    BY <1>4, <1>5 DEF OnItsWay, c
  <2>. QED BY <1>7, <2>1, <2>2
<1>9. Flows(s)'
  BY <1>4, <1>8 DEF FlowInv, Flows, Wanted
<1>. QED BY <1>3, <1>4, <1>5, <1>9

\* A failed write drops all that is planned.
LEMMA FlowFails ==
  ASSUME FlowInv, NEW s \in Sides, PumpFails(s)
  PROVE  Flows(s)'
<1> DEFINE hp == heard[Other(s)] \o pty[Other(s)]
           b == Bytes(DataOf(cells[s]))
           whole == Typing(typed[s])
           X == Wanted(s)
           Y == (1..typed[s]) \ (lost[s] \cup ToSet(b))
<1>1. /\ hp \in Seq(Nat) /\ keys[s] \in Seq(Nat) /\ b \in Seq(Nat) /\ whole \in Seq(Nat)
      /\ Once(whole) /\ ToSet(whole) = 1..typed[s] /\ lost[s] \subseteq 1..typed[s]
      /\ OnItsWay(s) = Kept(whole, X)
  BY FlowFacts DEF FlowInv, Flows
<1>2. /\ cells'[s] = << >> /\ lost'[s] = lost[s] \cup ToSet(b)
      /\ UNCHANGED <<keys, pty, typed, heard>>
  BY DEF PumpFails, FlowInv, FlowTypes, TimingTypes
<1>3. ThreeParts(whole, X, hp, b, keys[s])
  BY <1>1 DEF ThreeParts, OnItsWay
<1> HIDE DEF hp, b, whole, X
<1>4. Less(whole, X, Y, b)
  BY <1>1 DEF Less, Without, X, Wanted
<1> HIDE DEF Y
<1>5. TwoParts(whole, Y, hp, keys[s])
  BY <1>1, <1>3, <1>4, KeptLess
<1>6. ToSet(b) \subseteq 1..typed[s]
  BY <1>1, <1>3, PartKept
<1>7. OnItsWay(s)' = hp \o keys[s]
  <2>1. OnItsWay(s)' = (hp \o << >>) \o keys[s]
    BY <1>2, DataOfEmpty DEF OnItsWay, hp
  <2>2. hp \o << >> = hp
    BY <1>1, ConcatEmptySeq
  <2>. QED BY <2>1, <2>2
<1>8. Wanted(s)' = Y /\ Typing(typed[s])' = whole
  BY <1>2 DEF Wanted, Y, whole, Typing
<1>. QED BY <1>1, <1>2, <1>5, <1>6, <1>7, <1>8 DEF Flows, TwoParts

\* A byte typed is the next number, and not lost.
LEMMA FlowTyped ==
  ASSUME FlowInv, NEW s \in Sides, ConsumerTypes(s)
  PROVE  Flows(s)'
<1> DEFINE n == typed[s]
           k == keys[s]
           p == heard[Other(s)] \o pty[Other(s)] \o Bytes(DataOf(cells[s]))
           X == Wanted(s)
           Y == (1..(n + 1)) \ lost[s]
<1>1. /\ n \in Nat /\ k \in Seq(Nat) /\ Typing(n) \in Seq(Nat) /\ ToSet(Typing(n)) = 1..n
      /\ lost[s] \subseteq 1..n /\ OnItsWay(s) = Kept(Typing(n), X)
  BY FlowFacts DEF FlowInv, Flows
<1>2. p \in Seq(Nat)
  BY FlowFacts, ConcatProperties DEF FlowInv
<1>3. /\ keys'[s] = Append(k, n + 1) /\ typed'[s] = n + 1
      /\ UNCHANGED <<pty, cells, heard, lost>>
  BY DEF ConsumerTypes, FlowInv, FlowTypes, TimingTypes
<1>4. OnItsWay(s) = p \o k
  BY DEF OnItsWay
<1>5. OnItsWay(s)' = p \o Append(k, n + 1)
  BY <1>3 DEF OnItsWay
<1>6. Wanted(s)' = Y /\ Typing(typed[s])' = Typing(n + 1) /\ X = (1..n) \ lost[s]
  BY <1>3 DEF Wanted, Typing
<1> HIDE DEF n, k, p, X, Y
<1>7. n + 1 \in Nat /\ Typing(n + 1) = Append(Typing(n), n + 1)
  <2>1. n + 1 \in Nat
    BY <1>1
  <2>. QED BY <1>1, <2>1, TypingMore, Zenon
<1>8. Kept(Append(Typing(n), n + 1), Y) = Append(Kept(Typing(n), Y), n + 1)
  <2>1. n + 1 \in Y
    BY <1>1 DEF Y
  <2>. QED BY <1>1, <1>7, <2>1, KeptAppend
<1>9. Kept(Typing(n), Y) = Kept(Typing(n), X)
  <2>1. ToSet(Typing(n)) \cap Y = ToSet(Typing(n)) \cap X
    BY <1>1, <1>6 DEF Y
  <2> DEFINE t == Typing(n)
  <2>2. t \in Seq(Nat) /\ ToSet(t) \cap Y = ToSet(t) \cap X
    BY <1>1, <2>1
  <2> HIDE DEF t
  <2>3. Kept(t, Y) = Kept(t, X)
    BY <2>2, KeptSame
  <2>. QED BY <2>3 DEF t
<1>10. p \o Append(k, n + 1) = Append(p \o k, n + 1)
  BY <1>1, <1>2, <1>7, ConcatAppended, SMTT(30)
<1>11. OnItsWay(s)' = Kept(Typing(typed[s])', Wanted(s)')
  BY <1>1, <1>4, <1>5, <1>6, <1>7, <1>8, <1>9, <1>10
<1>12. lost'[s] \subseteq 1..typed'[s]
  BY <1>1, <1>3
<1>. QED BY <1>11, <1>12 DEF Flows

\* A consumer's read takes bytes from the port in order.
LEMMA FlowHeard ==
  ASSUME FlowInv, NEW s \in Sides, ConsumerReads(Other(s))
  PROVE  Flows(s)'
<1> DEFINE o == Other(s)
<1>1. o \in Sides /\ heard[o] \in Seq(Nat) /\ pty[o] \in Seq(Nat) /\ heard[o] \o pty[o] \in Seq(Nat)
  BY FlowFacts DEF FlowInv
<1>2. /\ heard'[o] = heard[o] \o pty[o] /\ pty'[o] = << >>
      /\ UNCHANGED <<keys, cells, typed, lost>>
  BY <1>1 DEF ConsumerReads, FlowInv, FlowTypes, TimingTypes
<1>3. (heard[o] \o pty[o]) \o << >> = heard[o] \o pty[o]
  BY <1>1, ConcatEmptySeq
<1>4. OnItsWay(s)' = OnItsWay(s)
  BY <1>2, <1>3 DEF OnItsWay
<1>. QED BY <1>2, <1>4 DEF FlowInv, Flows, Wanted

\* Every step keeps every way whole.
LEMMA FlowStep == FlowInv /\ [Next]_vars => FlowInv'
<1> SUFFICES ASSUME FlowInv, [Next]_vars PROVE FlowInv'
  OBVIOUS
<1>1. FlowTypes'
  <2>1. TimingTypes'
    BY TypesStep DEF FlowInv, FlowTypes
  <2>2. heard' \in [Sides -> Seq(Nat)]
    <3>1. ASSUME NEW s \in Sides, ConsumerReads(s) PROVE heard' \in [Sides -> Seq(Nat)]
      <4>1. heard[s] \o pty[s] \in Seq(Nat)
        BY ConcatProperties DEF FlowInv, FlowTypes, TimingTypes
      <4>. QED BY <3>1, <4>1 DEF ConsumerReads, FlowInv, FlowTypes
    <3>2. CASE UNCHANGED heard
      BY <3>2 DEF FlowInv, FlowTypes
    <3>. QED BY <3>1, <3>2 DEF Next, Tick, Pump, PumpReads, Takes, PumpWrites, PumpFails,
                               ConsumerTypes, vars
  <2>3. lost' \in [Sides -> SUBSET Nat]
    <3>1. ASSUME NEW s \in Sides, Flows(s)' PROVE lost'[s] \subseteq Nat
      <4>1. typed'[s] \in Nat
        BY <2>1, PairAssumption DEF TimingTypes
      <4>. QED BY <3>1, <4>1 DEF Flows
    <3>2. ASSUME NEW s \in Sides, PumpReads(s) PROVE lost' = [lost EXCEPT ![s] = lost'[s]]
      BY <3>2 DEF PumpReads, Takes, FlowInv, FlowTypes
    <3>3. ASSUME NEW s \in Sides, PumpFails(s) PROVE lost' = [lost EXCEPT ![s] = lost'[s]]
      BY <3>3 DEF PumpFails, FlowInv, FlowTypes
    <3>4. ASSUME NEW s \in Sides, PumpReads(s) \/ PumpFails(s)
          PROVE  lost' \in [Sides -> SUBSET Nat]
      <4>1. lost'[s] \subseteq Nat
        BY <3>1, <3>4, FlowReads, FlowFails
      <4>. QED BY <3>2, <3>3, <3>4, <4>1 DEF FlowInv, FlowTypes
    <3>5. CASE UNCHANGED lost
      BY <3>5 DEF FlowInv, FlowTypes
    <3>. QED BY <3>4, <3>5 DEF Next, Tick, Pump, PumpWrites, ConsumerTypes, ConsumerReads, vars
  <2>. QED BY <2>1, <2>2, <2>3 DEF FlowTypes
\* What a step does at side s leaves the bytes on the way from the other side alone.
<1>2. ASSUME NEW s \in Sides PROVE Other(s) \in Sides /\ Other(s) # s /\ Other(Other(s)) = s
  BY DEF Sides, Other
<1>3. \A r, s \in Sides : r = s \/ r = Other(s)
  BY DEF Sides, Other
<1>4. ASSUME NEW s \in Sides, PumpReads(s), NEW r \in Sides PROVE Flows(r)'
  <2>1. CASE r = s
    BY <1>4, <2>1, FlowReads
  <2>2. CASE r # s
    BY <1>4, <2>2, FlowReads, FlowUntouched
       DEF PumpReads, Takes, FlowInv, FlowTypes, TimingTypes
  <2>. QED BY <2>1, <2>2
<1>5. ASSUME NEW s \in Sides, PumpWrites(s), NEW r \in Sides PROVE Flows(r)'
  <2>1. CASE r = s
    BY <1>5, <2>1, FlowWrites
  <2>2. CASE r # s
    <3>1. Other(r) # Other(s) /\ Other(r) \in Sides
      BY <2>2, <1>2
    <3>2. /\ cells' = [cells EXCEPT ![s] = cells'[s]]
          /\ pty' = [pty EXCEPT ![Other(s)] = pty'[Other(s)]]
      BY <1>5, FlowWrites
    <3>3. cells'[r] = cells[r] /\ pty'[Other(r)] = pty[Other(r)]
      BY <2>2, <3>1, <3>2 DEF FlowInv, FlowTypes, TimingTypes
    <3>4. UNCHANGED <<heard, keys, typed, lost>>
      BY <1>5 DEF PumpWrites
    <3>5. Flows(r)
      BY DEF FlowInv
    <3>. QED BY <3>3, <3>4, <3>5, FlowUntouched
  <2>. QED BY <2>1, <2>2
<1>6. ASSUME NEW s \in Sides, PumpFails(s), NEW r \in Sides PROVE Flows(r)'
  <2>1. CASE r = s
    BY <1>6, <2>1, FlowFails
  <2>2. CASE r # s
    BY <1>6, <2>2, FlowUntouched DEF PumpFails, FlowInv, FlowTypes, TimingTypes
  <2>. QED BY <2>1, <2>2
<1>7. ASSUME NEW s \in Sides, ConsumerTypes(s), NEW r \in Sides PROVE Flows(r)'
  <2>1. CASE r = s
    BY <1>7, <2>1, FlowTyped
  <2>2. CASE r # s
    BY <1>7, <2>2, FlowUntouched DEF ConsumerTypes, FlowInv, FlowTypes, TimingTypes
  <2>. QED BY <2>1, <2>2
<1>8. ASSUME NEW s \in Sides, ConsumerReads(s), NEW r \in Sides PROVE Flows(r)'
  <2>1. CASE s = Other(r)
    BY <1>8, <2>1, FlowHeard
  <2>2. CASE s # Other(r)
    BY <1>2, <1>8, <2>2, FlowUntouched DEF ConsumerReads, FlowInv, FlowTypes, TimingTypes
  <2>. QED BY <2>1, <2>2
<1>9. ASSUME NEW r \in Sides PROVE Flows(r)'
  <2>1. CASE Tick
    BY <2>1, FlowTick
  <2>2. CASE UNCHANGED vars
    <3>1. Flows(r) /\ UNCHANGED <<keys, pty, cells, typed, heard, lost>>
      BY <2>2 DEF vars, FlowInv
    <3>. QED BY <3>1, FlowUntouched
  <2>. QED BY <1>4, <1>5, <1>6, <1>7, <1>8, <2>1, <2>2 DEF Next, Pump
<1>. QED BY <1>1, <1>9 DEF FlowInv

\* Whatever the line rate, the latency, what noise eats and which writes fail: what is
\* typed at one end arrives at the other in order and once, but for what was lost
\* (pump, wire.rs:176-202).
THEOREM OrderKept == Spec => []NothingOvertakes
<1>1. FlowInv => NothingOvertakes
  BY DEF FlowInv, Flows, OnItsWay, Wanted, Typing, NothingOvertakes
<1>. QED BY <1>1, FlowInit, FlowStep, PTL DEF Spec
=============================================================================
