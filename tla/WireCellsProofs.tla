-------------------------- MODULE WireCellsProofs --------------------------
(***************************************************************************)
(* What the shared byte-path operators return, whatever the bytes are.     *)
(***************************************************************************)
EXTENDS WireCells, SequenceTheorems, WellFoundedInduction, TLAPS

-----------------------------------------------------------------------------
(* Induction, and joining a sequence of sequences.                          *)

\* The order of the natural numbers.
NatOrder == {ss \in Nat \X Nat : ss[1] < ss[2]}

\* A set of naturals with 0 and every successor is all of them.
LEMMA NatSet ==
  ASSUME NEW T \in SUBSET Nat, 0 \in T, \A n \in T : n + 1 \in T
  PROVE  T = Nat
<1> SUFFICES ASSUME Nat \ T # {} PROVE FALSE
  OBVIOUS
<1>1. IsWellFoundedOn(NatOrder, Nat)
  BY NatLessThanWellFounded DEF OpToRel, NatOrder
<1>2. PICK x \in Nat \ T : \A y \in Nat \ T : ~ (<<y, x>> \in NatOrder)
  BY <1>1, WFMin
<1>3. \A y \in Nat : y < x => <<y, x>> \in NatOrder
  BY <1>2 DEF NatOrder
<1>4. x # 0 /\ x - 1 \in Nat /\ x - 1 < x
  BY <1>2
<1>5. x - 1 \in T
  BY <1>2, <1>3, <1>4
<1>. QED BY <1>2, <1>5

\* f[i] is the first i sequences of s, joined: what FlattenSeq computes with.
Joins(f, s) == f = [i \in 1..Len(s) |-> IF i = 1 THEN s[i] ELSE f[i-1] \o s[i]]

\* FlattenSeq picks the last of such running joins.
LEMMA FlattenDef ==
  ASSUME NEW s, Len(s) # 0
  PROVE  FlattenSeq(s) = (CHOOSE f : Joins(f, s))[Len(s)]
BY Zenon DEF FlattenSeq, Joins

\* No sequences join to no elements.
LEMMA FlatEmpty == FlattenSeq(<< >>) = << >>
BY DEF FlattenSeq

\* Running joins of the first k sequences.
Totals(f, s, k, S) ==
  /\ f \in [1..k -> Seq(S)]
  /\ \A i \in 1..k : f[i] = IF i = 1 THEN s[i] ELSE f[i-1] \o s[i]

\* They can be carried one sequence further.
LEMMA TotalsStep ==
  ASSUME NEW S, NEW s \in Seq(Seq(S)), NEW k \in Nat, k + 1 <= Len(s),
         NEW f, Totals(f, s, k, S)
  PROVE  \E g : Totals(g, s, k + 1, S)
<1> DEFINE g == [i \in 1..(k + 1) |-> IF i <= k THEN f[i] ELSE
                   IF i = 1 THEN s[i] ELSE f[i-1] \o s[i]]
<1>0. Len(s) \in Nat /\ \A i \in 1..Len(s) : s[i] \in Seq(S)
  BY LenProperties
<1>1. ASSUME NEW i \in 1..(k + 1)
      PROVE  g[i] \in Seq(S) /\ g[i] = IF i = 1 THEN s[i] ELSE g[i-1] \o s[i]
  <2>1. i # 1 => i - 1 \in 1..k /\ g[i-1] = f[i-1]
    OBVIOUS
  <2>2. CASE i <= k
    <3>1. i \in 1..k /\ g[i] = f[i]
      BY <2>2
    <3> HIDE DEF g
    <3>. QED BY <2>1, <3>1 DEF Totals
  <2>3. CASE i = k + 1
    <3>1. g[i] = IF i = 1 THEN s[i] ELSE f[i-1] \o s[i]
      BY <2>3
    <3>2. i \in 1..Len(s)
      BY <1>0, <2>3
    <3> HIDE DEF g
    <3>3. i # 1 => f[i-1] \o s[i] \in Seq(S)
      <4>1. i # 1 => f[i-1] \in Seq(S) /\ s[i] \in Seq(S)
        BY <1>0, <2>1, <3>2 DEF Totals
      <4>. QED BY <4>1, ConcatProperties
    <3>. QED BY <1>0, <2>1, <3>1, <3>2, <3>3
  <2>. QED BY <2>2, <2>3
<1>2. g = [i \in 1..(k+1) |-> g[i]]
  OBVIOUS
<1> HIDE DEF g
<1>3. g \in [1..(k+1) -> Seq(S)]
  BY <1>1, <1>2
<1>. QED BY <1>1, <1>3 DEF Totals

\* Every sequence of sequences has its running joins.
LEMMA JoinsExists ==
  ASSUME NEW S, NEW s \in Seq(Seq(S))
  PROVE  \E f : Joins(f, s) /\ f \in [1..Len(s) -> Seq(S)]
<1> DEFINE T == {k \in Nat : k <= Len(s) => \E f : Totals(f, s, k, S)}
<1>0. Len(s) \in Nat
  BY LenProperties
<1>1. 0 \in T
  <2>1. 1..0 = {}
    OBVIOUS
  <2>2. [i \in 1..0 |-> << >>] \in [1..0 -> Seq(S)]
    BY <2>1
  <2>3. Totals([i \in 1..0 |-> << >>], s, 0, S)
    BY <2>1, <2>2 DEF Totals
  <2>. QED BY <2>3
<1>2. ASSUME NEW k \in T PROVE k + 1 \in T
  <2> SUFFICES ASSUME k + 1 <= Len(s) PROVE \E f : Totals(f, s, k + 1, S)
    OBVIOUS
  <2>. QED BY <1>0, TotalsStep
<1> HIDE DEF T
<1>3. T = Nat
  <2>1. T \in SUBSET Nat
    BY DEF T
  <2>. QED BY <1>1, <1>2, <2>1, NatSet
<1>4. PICK f : Totals(f, s, Len(s), S)
  BY <1>0, <1>3 DEF T
<1>5. f = [i \in 1..Len(s) |-> f[i]]
  BY <1>4 DEF Totals
<1>6. f = [i \in 1..Len(s) |-> IF i = 1 THEN s[i] ELSE f[i-1] \o s[i]]
  BY <1>4, <1>5 DEF Totals
<1>. QED BY <1>4, <1>6 DEF Joins, Totals

\* They depend on nothing that comes later.
LEMMA JoinsAgree ==
  ASSUME NEW s, NEW t, Len(s) \in Nat, Len(t) \in Nat, Len(s) <= Len(t),
         \A i \in 1..Len(s) : s[i] = t[i],
         NEW f, NEW g, Joins(f, s), Joins(g, t)
  PROVE  \A i \in 1..Len(s) : f[i] = g[i]
<1> DEFINE T == {k \in Nat : \A i \in 1..k : i <= Len(s) => f[i] = g[i]}
<1>1. 0 \in T
  OBVIOUS
<1>2. ASSUME NEW k \in T PROVE k + 1 \in T
  <2> SUFFICES ASSUME k + 1 <= Len(s) PROVE f[k+1] = g[k+1]
    OBVIOUS
  <2>1. k + 1 \in 1..Len(s) /\ k + 1 \in 1..Len(t)
    OBVIOUS
  <2>2. /\ f[k+1] = IF k + 1 = 1 THEN s[k+1] ELSE f[(k+1)-1] \o s[k+1]
        /\ g[k+1] = IF k + 1 = 1 THEN t[k+1] ELSE g[(k+1)-1] \o t[k+1]
    BY <2>1 DEF Joins
  <2>3. s[k+1] = t[k+1]
    BY <2>1
  <2>4. k # 0 => f[k] = g[k]
    OBVIOUS
  <2>5. (k + 1) - 1 = k
    OBVIOUS
  <2>. QED BY <2>2, <2>3, <2>4, <2>5
<1> HIDE DEF T
<1>3. T = Nat
  <2>1. T \in SUBSET Nat
    BY DEF T
  <2>. QED BY <1>1, <1>2, <2>1, NatSet
<1>4. Len(s) \in T
  BY <1>3
<1>. QED BY <1>4 DEF T

\* There is one such function for each s.
LEMMA JoinsUnique ==
  ASSUME NEW s, Len(s) \in Nat, NEW f, NEW g, Joins(f, s), Joins(g, s)
  PROVE  \A i \in 1..Len(s) : f[i] = g[i]
<1>1. PICK t : t = s
  OBVIOUS
<1>2. /\ Len(t) \in Nat /\ Len(s) <= Len(t) /\ Joins(g, t)
      /\ \A i \in 1..Len(s) : s[i] = t[i]
  BY <1>1
<1>. QED BY <1>2, JoinsAgree

\* The value of FlattenSeq, from any running totals of its argument.
LEMMA FlatValue ==
  ASSUME NEW S, NEW s \in Seq(Seq(S)), Len(s) # 0, NEW f, Joins(f, s)
  PROVE  FlattenSeq(s) = f[Len(s)] /\ FlattenSeq(s) \in Seq(S)
<1> DEFINE h == CHOOSE h : Joins(h, s)
<1>0. Len(s) \in Nat /\ Len(s) \in 1..Len(s)
  BY LenProperties
<1>1. PICK g : Joins(g, s) /\ g \in [1..Len(s) -> Seq(S)]
  BY JoinsExists
<1>2. Joins(h, s)
  BY <1>1
<1>3. FlattenSeq(s) = h[Len(s)]
  BY FlattenDef, Zenon
<1> HIDE DEF h
<1>5. \A i \in 1..Len(s) : h[i] = f[i]
  BY <1>0, <1>2, JoinsUnique
<1>6. \A i \in 1..Len(s) : h[i] = g[i]
  BY <1>0, <1>1, <1>2, JoinsUnique
<1>. QED BY <1>0, <1>1, <1>3, <1>5, <1>6

\* Sequences of elements of S join to one.
LEMMA FlatType ==
  ASSUME NEW S, NEW s \in Seq(Seq(S))
  PROVE  FlattenSeq(s) \in Seq(S)
<1>1. CASE Len(s) = 0
  <2>1. s = << >>
    BY <1>1, EmptySeq
  <2>2. << >> \in Seq(S)
    OBVIOUS
  <2>. QED BY <2>1, <2>2, FlatEmpty, Zenon
<1>2. CASE Len(s) # 0
  BY <1>2, JoinsExists, FlatValue
<1>. QED BY <1>1, <1>2

\* One more sequence at the end adds its elements at the end.
LEMMA FlatAppend ==
  ASSUME NEW S, NEW s \in Seq(Seq(S)), NEW x \in Seq(S)
  PROVE  FlattenSeq(Append(s, x)) = FlattenSeq(s) \o x
<1> DEFINE t == Append(s, x)
           n == Len(s)
<1>0. /\ n \in Nat /\ t \in Seq(Seq(S)) /\ Len(t) = n + 1
      /\ \A i \in 1..n : t[i] = s[i] 
      /\ t[n + 1] = x
  BY LenProperties, AppendProperties
<1> HIDE DEF t
<1>1. PICK g : Joins(g, t)
  BY <1>0, JoinsExists
<1>2. PICK f : Joins(f, s)
  BY JoinsExists
<1>3. FlattenSeq(t) = g[n + 1]
  BY <1>0, <1>1, FlatValue
<1>4. g[n + 1] = IF n + 1 = 1 THEN t[n + 1] ELSE g[(n + 1) - 1] \o t[n + 1]
  <2>1. n + 1 \in 1..Len(t)
    BY <1>0
  <2> HIDE DEF n
  <2>. QED BY <1>1, <2>1, Zenon DEF Joins
<1>5. CASE n = 0
  <2>1. s = << >>
    BY <1>5, EmptySeq
  <2>2. FlattenSeq(s) \o x = x
    BY <2>1, FlatEmpty, ConcatEmptySeq
  <2>. QED BY <1>0, <1>3, <1>4, <1>5, <2>2 DEF t
<1>6. CASE n # 0
  <2>1. FlattenSeq(s) = f[n]
    BY <1>2, <1>6, FlatValue
  <2>2. n \in 1..n
    BY <1>0, <1>6
  <2>3. f[n] = g[n]
    <3>1. Len(s) \in Nat /\ Len(t) \in Nat /\ Len(s) <= Len(t) /\ \A i \in 1..Len(s) : s[i] = t[i]
      BY <1>0
    <3>2. \A i \in 1..Len(s) : f[i] = g[i]
      BY <1>1, <1>2, <3>1, JoinsAgree, SMTT(30)
    <3>. QED BY <2>2, <3>2
  <2>4. (n + 1) - 1 = n /\ n + 1 # 1
    BY <1>0, <1>6
  <2> HIDE DEF n
  <2>. QED BY <1>0, <1>3, <1>4, <2>1, <2>3, <2>4 DEF t
<1>. QED BY <1>5, <1>6

\* A sequence that is not empty is another and a last element.
LEMMA SplitLast ==
  ASSUME NEW S, NEW u \in Seq(S), u # << >>
  PROVE  \E v \in Seq(S), x \in S :
            u = Append(v, x) /\ Len(u) = Len(v) + 1
<1> DEFINE k == Len(u) - 1
           v == SubSeq(u, 1, k)
<1>1. k \in 0..Len(u) /\ k + 1 = Len(u) /\ \A i \in 1..Len(u) : u[i] \in S
  BY LenProperties, EmptySeq
<1>2. v \in Seq(S) /\ Len(v) = k /\ \A i \in 1..k : v[i] = u[i]
  BY <1>1, SubSeqProperties
<1>3. u[k+1] \in S
  BY <1>1
<1> HIDE DEF v, k
<1>4. u = Append(v, u[k+1])
  BY <1>1, <1>2, <1>3, AppendProperties, SeqEqual
<1>. QED BY <1>1, <1>2, <1>3, <1>4

\* One more sequence joined after s \o v.
LEMMA FlatConcatStep ==
  ASSUME NEW S, NEW s \in Seq(Seq(S)), NEW v \in Seq(Seq(S)), NEW x \in Seq(S),
         FlattenSeq(s \o v) = FlattenSeq(s) \o FlattenSeq(v)
  PROVE  FlattenSeq(s \o Append(v, x)) = FlattenSeq(s) \o FlattenSeq(Append(v, x))
<1>1. s \o v \in Seq(Seq(S)) /\ s \o Append(v, x) = Append(s \o v, x)
  BY ConcatProperties, AppendProperties, SeqEqual
<1>2. FlattenSeq(s \o Append(v, x)) = FlattenSeq(s \o v) \o x
  BY <1>1, FlatAppend
<1>3. FlattenSeq(Append(v, x)) = FlattenSeq(v) \o x
  BY FlatAppend
<1>4. FlattenSeq(s) \in Seq(S) /\ FlattenSeq(v) \in Seq(S)
  BY FlatType
<1>5. (FlattenSeq(s) \o FlattenSeq(v)) \o x = FlattenSeq(s) \o (FlattenSeq(v) \o x)
  BY <1>4, ConcatAssociative
<1>. QED BY <1>2, <1>3, <1>5

\* Joining distributes over concatenation.
LEMMA FlatConcat ==
  ASSUME NEW S, NEW s \in Seq(Seq(S)), NEW t \in Seq(Seq(S))
  PROVE  FlattenSeq(s \o t) = FlattenSeq(s) \o FlattenSeq(t)
<1> DEFINE Holds(u) == FlattenSeq(s \o u) = FlattenSeq(s) \o FlattenSeq(u)
           T == {k \in Nat : \A u \in Seq(Seq(S)) : Len(u) = k => Holds(u)}
<1>1. 0 \in T
  <2> SUFFICES ASSUME NEW u \in Seq(Seq(S)), Len(u) = 0
               PROVE  FlattenSeq(s \o u) = FlattenSeq(s) \o FlattenSeq(u)
    OBVIOUS
  <2>1. u = << >> /\ s \o u = s
    BY EmptySeq, ConcatEmptySeq
  <2>2. FlattenSeq(s) \o << >> = FlattenSeq(s)
    BY FlatType, ConcatEmptySeq
  <2>. QED BY <2>1, <2>2, FlatEmpty
<1>2. ASSUME NEW k \in Nat, \A u \in Seq(Seq(S)) : Len(u) = k => Holds(u),
             NEW u \in Seq(Seq(S)), Len(u) = k + 1
      PROVE  Holds(u)
  <2>1. u # << >>
    BY <1>2
  <2>2. PICK v \in Seq(Seq(S)), x \in Seq(S) : u = Append(v, x) /\ Len(u) = Len(v) + 1
    BY <2>1, SplitLast
  <2>3. Holds(v)
    BY <1>2, <2>2
  <2>. QED BY <2>2, <2>3, FlatConcatStep
<1> HIDE DEF Holds
<1>3. T = Nat
  <2>1. ASSUME NEW k \in T PROVE k + 1 \in T
    <3>1. k \in Nat /\ \A u \in Seq(Seq(S)) : Len(u) = k => Holds(u)
      OBVIOUS
    <3>2. \A u \in Seq(Seq(S)) : Len(u) = k + 1 => Holds(u)
      BY <1>2, <3>1
    <3>. QED BY <3>1, <3>2
  <2> HIDE DEF T
  <2>2. T \in SUBSET Nat
    BY DEF T
  <2>. QED BY <1>1, <2>1, <2>2, NatSet
<1>4. Len(t) \in T
  BY <1>3
<1>. QED BY <1>4 DEF Holds

\* One sequence joins to itself.
LEMMA FlatOne ==
  ASSUME NEW S, NEW x \in Seq(S)
  PROVE  FlattenSeq(<<x>>) = x
<1>1. <<x>> = Append(<< >>, x) /\ << >> \in Seq(Seq(S)) /\ << >> \o x = x
  BY ConcatEmptySeq
<1>. QED BY <1>1, FlatAppend, FlatEmpty

\* The first sequence's elements come first.
LEMMA FlatHead ==
  ASSUME NEW S, NEW s \in Seq(Seq(S)), s # << >>
  PROVE  FlattenSeq(s) = Head(s) \o FlattenSeq(Tail(s))
<1>1. /\ Head(s) \in Seq(S) /\ Tail(s) \in Seq(Seq(S)) /\ <<Head(s)>> \in Seq(Seq(S))
      /\ s = <<Head(s)>> \o Tail(s)
  BY HeadTailProperties, ConcatProperties, SeqEqual
<1>2. FlattenSeq(<<Head(s)>> \o Tail(s)) = FlattenSeq(<<Head(s)>>) \o FlattenSeq(Tail(s))
  BY <1>1, FlatConcat
<1>. QED BY <1>1, <1>2, FlatOne

-----------------------------------------------------------------------------
(* Buffers, reads, writes and cells.                                       *)

\* The lesser of two numbers is one of them and not above either.
LEMMA LeastType ==
  ASSUME NEW a \in Nat, NEW b \in Nat
  PROVE  /\ Least(a, b) \in Nat
         /\ Least(a, b) <= a /\ Least(a, b) <= b
         /\ Least(a, b) = a \/ Least(a, b) = b
BY DEF Least

\* A sequence cut in two is its two parts.
LEMMA CutInTwo ==
  ASSUME NEW S, NEW s \in Seq(S), NEW n \in 0..Len(s)
  PROVE  /\ SubSeq(s, 1, n) \in Seq(S) /\ Len(SubSeq(s, 1, n)) = n
         /\ SubSeq(s, n + 1, Len(s)) \in Seq(S)
         /\ Len(SubSeq(s, n + 1, Len(s))) = Len(s) - n
         /\ SubSeq(s, 1, n) \o SubSeq(s, n + 1, Len(s)) = s
<1>1. Len(s) \in Nat /\ \A i \in 1..Len(s) : s[i] \in S
  BY LenProperties
<1>2. SubSeq(s, 1, n) \in Seq(S) /\ Len(SubSeq(s, 1, n)) = n
  BY <1>1, SubSeqProperties
<1>3. /\ SubSeq(s, n + 1, Len(s)) \in Seq(S)
      /\ Len(SubSeq(s, n + 1, Len(s))) = Len(s) - n
  BY <1>1, SubSeqProperties
<1>4. SubSeq(s, 1, n) \o SubSeq(s, n + 1, Len(s)) = SubSeq(s, 1, Len(s))
  <2>1. 1 \in 1..(Len(s) + 1) /\ n \in (1 - 1)..Len(s) /\ Len(s) \in n..Len(s)
    BY <1>1
  <2>. QED BY <2>1, ConcatAdjacentSubSeq, Zenon
<1>5. SubSeq(s, 1, Len(s)) = s
  BY SubSeqFull
<1>. QED BY <1>2, <1>3, <1>4, <1>5

\* A read and what it leaves are byte sequences that make up the buffer read
\* (read_fd, pty.rs:258-274).
LEMMA ReadSplits ==
  ASSUME NEW S, NEW buffer \in Seq(S)
  PROVE  /\ ReadOf(buffer) \in Seq(S)
         /\ LeftBy(buffer) \in Seq(S)
         /\ ReadOf(buffer) \o LeftBy(buffer) = buffer
<1> DEFINE n == Least(ReadMax, Len(buffer))
<1>1. n \in 0..Len(buffer)
  BY BytesAssumption, LenProperties DEF Least
<1>. QED BY <1>1, CutInTwo DEF ReadOf, LeftBy

\* Bytes moved from one stage to the next stay where they were in the whole.
Associative(S) == \A a, b, c \in Seq(S) : (a \o b) \o c = a \o (b \o c)

LEMMA Regrouped ==
  ASSUME NEW S
  PROVE  Associative(S)
BY ConcatAssociative DEF Associative

\* Where the bytes of a read, and of what it leaves, were in the buffer.
LEMMA ReadIndices ==
  ASSUME NEW S, NEW buffer \in Seq(S)
  PROVE  /\ Len(ReadOf(buffer)) \in Nat /\ Len(LeftBy(buffer)) \in Nat
         /\ Len(ReadOf(buffer)) + Len(LeftBy(buffer)) = Len(buffer)
         /\ \A i \in 1..Len(ReadOf(buffer)) : ReadOf(buffer)[i] = buffer[i]
         /\ \A i \in 1..Len(LeftBy(buffer)) :
              LeftBy(buffer)[i] = buffer[Len(ReadOf(buffer)) + i]
<1> DEFINE r == ReadOf(buffer)
           l == LeftBy(buffer)
<1>1. r \in Seq(S) /\ l \in Seq(S) /\ r \o l = buffer
  BY ReadSplits
<1> HIDE DEF r, l
<1>2. /\ Len(r) \in Nat /\ Len(l) \in Nat /\ Len(r \o l) = Len(r) + Len(l)
      /\ \A i \in 1..Len(r) : (r \o l)[i] = r[i]
      /\ \A i \in 1..Len(l) : (r \o l)[Len(r) + i] = l[i]
  BY <1>1, LenProperties, ConcatProperties
<1>. QED BY <1>1, <1>2 DEF r, l

\* What a read leaves is no longer than what was there.
LEMMA LeftByShorter ==
  ASSUME NEW S, NEW buffer \in Seq(S)
  PROVE  Len(LeftBy(buffer)) <= Len(buffer)
<1> DEFINE n == Least(ReadMax, Len(buffer))
<1>1. n \in 0..Len(buffer)
  BY BytesAssumption, LenProperties DEF Least
<1>. QED BY <1>1, CutInTwo DEF LeftBy

\* A write takes a prefix of the bytes, never overfills the buffer and leaves
\* the rest: nothing is lost or repeated (write_all_fd, pty.rs:276-294).
LEMMA WriteSplits ==
  ASSUME NEW S, NEW buffer \in Seq(S), NEW bytes \in Seq(S),
         Len(buffer) <= PtyBuf
  PROVE  /\ Filled(buffer, bytes) \in Seq(S)
         /\ Len(Filled(buffer, bytes)) <= PtyBuf
         /\ Unwritten(bytes, buffer) \in Seq(S)
         /\ Filled(buffer, bytes) \o Unwritten(bytes, buffer) = buffer \o bytes
<1> DEFINE n == Taken(bytes, buffer)
           first == SubSeq(bytes, 1, n)
           rest == SubSeq(bytes, n + 1, Len(bytes))
<1>1. n \in 0..Len(bytes) /\ n <= PtyBuf - Len(buffer)
  BY BytesAssumption, LenProperties DEF Taken, Room, Least
<1>2. /\ first \in Seq(S) /\ Len(first) = n /\ rest \in Seq(S)
      /\ first \o rest = bytes
  BY <1>1, CutInTwo
<1> HIDE DEF n, first, rest
<1>3. buffer \o first \in Seq(S) /\ Len(buffer \o first) = Len(buffer) + n
  BY <1>2, ConcatProperties
<1>4. Len(buffer \o first) <= PtyBuf
  BY <1>1, <1>3, BytesAssumption, LenProperties
<1>5. (buffer \o first) \o rest = buffer \o (first \o rest)
  <2>1. buffer \in Seq(S) /\ first \in Seq(S) /\ rest \in Seq(S)
    BY <1>2
  <2>2. Associative(S)
    BY Regrouped, Zenon
  <2>. QED BY <2>1, <2>2, Zenon DEF Associative
<1>. QED BY <1>2, <1>3, <1>4, <1>5 DEF Filled, Unwritten, n, first, rest

\* Planning a chunk gives cells that hold bytes of the chunk (wire.rs:126-145).
LEMMA CellsType ==
  ASSUME NEW S, NEW chunk \in Seq(S)
  PROVE  Cells(chunk) \in Seq(Seq(S))
<1> DEFINE n == (Len(chunk) + CellBytes - 1) \div CellBytes
           cell(i) == SubSeq(chunk, (i - 1) * CellBytes + 1,
                             Least(i * CellBytes, Len(chunk)))
<1>1. n \in Nat
  BY BytesAssumption, LenProperties
<1>2. ASSUME NEW i \in 1..n
      PROVE  cell(i) \in Seq(S)
  <2> DEFINE a == (i - 1) * CellBytes
             b == i * CellBytes
  <2>1. a \in Nat /\ b \in Nat
    BY BytesAssumption
  <2>2. Least(b, Len(chunk)) \in 0..Len(chunk)
    BY <2>1, LenProperties DEF Least
  <2>3. \A k \in (a + 1)..Least(b, Len(chunk)) : chunk[k] \in S
    BY <2>1, <2>2, LenProperties
  <2>. QED BY <2>1, <2>2, <2>3, SubSeqProperties
<1> HIDE DEF n, cell
<1>3. [i \in 1..n |-> cell(i)] \in Seq(Seq(S))
  BY <1>1, <1>2
<1>. QED BY <1>3 DEF Cells, n, cell

\* Writing some of the head cell leaves cells of the same kind.
LEMMA CellsLeftType ==
  ASSUME NEW S, NEW cells \in Seq(Seq(S)), cells # << >>,
         NEW buffer \in Seq(S), Len(buffer) <= PtyBuf
  PROVE  CellsLeft(cells, buffer) \in Seq(Seq(S))
<1>1. Head(cells) \in Seq(S) /\ Tail(cells) \in Seq(Seq(S))
  OBVIOUS
<1>2. Unwritten(Head(cells), buffer) \in Seq(S)
  BY <1>1, WriteSplits
<1>. QED BY <1>1, <1>2 DEF CellsLeft

\* How many cells of C bytes hold L bytes.
LEMMA DivFacts ==
  ASSUME NEW L \in Nat, NEW C \in Nat \ {0}
  PROVE  LET n == (L + C - 1) \div C
         IN  /\ n \in Nat /\ L <= n * C
             /\ n # 0 => (n - 1) * C < L
             /\ n = 0 <=> L = 0
<1> DEFINE n == (L + C - 1) \div C
<1>1. n \in Int /\ C * n <= L + C - 1 /\ L + C - 1 < C * n + C
  OBVIOUS
<1>2. n \in Nat
  OBVIOUS
<1> HIDE DEF n
<1>3. C * n = n * C /\ (n - 1) * C = n * C - C
  BY <1>2
<1>4. L <= n * C /\ (n - 1) * C < L
  BY <1>1, <1>2, <1>3
<1>5. n = 0 <=> L = 0
  <2>1. n = 0 => n * C = 0
    BY <1>2
  <2>2. L = 0 => (n - 1) * C < 0
    BY <1>4
  <2>3. n # 0 => (n - 1) * C >= 0
    BY <1>2
  <2>. QED BY <1>2, <1>4, <2>1, <2>2, <2>3
<1>. QED BY <1>2, <1>4, <1>5 DEF n

\* Multiplying keeps the order.
LEMMA MulMono ==
  ASSUME NEW i \in Nat, NEW n \in Nat, i <= n, NEW C \in Nat
  PROVE  i * C \in Nat /\ i * C <= n * C
OBVIOUS

\* The cells of a chunk, joined, are the chunk: none is lost, none repeated.
LEMMA CellsWhole ==
  ASSUME NEW S, NEW chunk \in Seq(S)
  PROVE  FlattenSeq(Cells(chunk)) = chunk
<1> DEFINE L == Len(chunk)
           C == CellBytes
           n == (L + C - 1) \div C
           cell(i) == SubSeq(chunk, (i - 1) * C + 1, Least(i * C, L))
           upto(i) == SubSeq(chunk, 1, Least(i * C, L))
<1>1. /\ L \in Nat /\ C \in Nat \ {0} /\ n \in Nat /\ L <= n * C
      /\ n # 0 => (n - 1) * C < L
      /\ n = 0 <=> L = 0
  BY BytesAssumption, LenProperties, DivFacts
<1>2. Cells(chunk) = [i \in 1..n |-> cell(i)]
  BY DEF Cells
<1> HIDE DEF L, C, n
<1>3. CASE n = 0
  <2>1. Cells(chunk) = << >> /\ chunk = << >>
    <3>1. chunk = << >>
      BY <1>1, <1>3, EmptySeq DEF L
    <3>2. Cells(chunk) \in Seq(Seq(S))
      BY CellsType
    <3> HIDE DEF cell
    <3>3. Len(Cells(chunk)) = 0
      BY <1>2, <1>3
    <3>. QED BY <3>1, <3>2, <3>3, EmptySeq
  <2>. QED BY <2>1, FlatEmpty
<1>4. CASE n # 0
  <2>1. cell(1) = upto(1)
    <3>1. (1 - 1) * C + 1 = 1
      BY <1>1
    <3>. QED BY <3>1
  <2>2. ASSUME NEW i \in 1..n, i # 1
        PROVE  upto(i - 1) \o cell(i) = upto(i)
    <3> DEFINE a == (i - 1) * C
               b == Least(i * C, L)
    <3>1. a \in Nat /\ a < L /\ i * C \in Nat /\ a <= i * C
      <4>1. i - 1 \in Nat /\ n - 1 \in Nat /\ i - 1 <= n - 1 /\ i \in Nat /\ i - 1 <= i
        BY <1>1
      <4>2. a \in Nat /\ a <= (n - 1) * C
        BY <1>1, <4>1, MulMono
      <4>3. (n - 1) * C \in Nat
        BY <1>1, <4>1
      <4>4. i * C \in Nat /\ a <= i * C
        BY <1>1, <4>1, MulMono
      <4> HIDE DEF a
      <4>. QED BY <1>1, <1>4, <4>2, <4>3, <4>4
    <3>2. Least(a, L) = a /\ b \in a..L
      BY <1>1, <3>1 DEF Least
    <3>3. upto(i - 1) = SubSeq(chunk, 1, a) /\ upto(i) = SubSeq(chunk, 1, b)
          /\ cell(i) = SubSeq(chunk, a + 1, b)
      BY <3>2
    <3> HIDE DEF a, b, upto, cell
    <3>4. 1 \in 1..(Len(chunk) + 1) /\ a \in (1 - 1)..Len(chunk) /\ b \in a..Len(chunk)
      BY <1>1, <3>1, <3>2 DEF L
    <3>5. SubSeq(chunk, 1, a) \o SubSeq(chunk, a + 1, b) = SubSeq(chunk, 1, b)
      BY <3>4, ConcatAdjacentSubSeq, Zenon
    <3>. QED BY <3>3, <3>5
  <2>3. upto(n) = chunk
    <3>1. Least(n * C, L) = L
      BY <1>1 DEF Least
    <3>. QED BY <3>1, SubSeqFull DEF L
  <2> HIDE DEF cell, upto
  <2> DEFINE f == [i \in 1..n |-> upto(i)]
  <2>4. Len(Cells(chunk)) = n /\ n \in 1..n
    BY <1>1, <1>2, <1>4
  <2>5. Joins(f, Cells(chunk))
    <3>1. \A i \in 1..n : f[i] = IF i = 1 THEN cell(i) ELSE f[i - 1] \o cell(i)
      BY <1>1, <2>1, <2>2
    <3>2. \A i \in 1..n : f[i] = IF i = 1 THEN Cells(chunk)[i] ELSE f[i - 1] \o Cells(chunk)[i]
      BY <3>1, <1>2
    <3>3. f = [i \in 1..n |-> f[i]]
      OBVIOUS
    <3> HIDE DEF f
    <3>4. f = [i \in 1..n |-> IF i = 1 THEN Cells(chunk)[i] ELSE f[i - 1] \o Cells(chunk)[i]]
      BY <3>2, <3>3
    <3>. QED BY <2>4, <3>4 DEF Joins
  <2>6. FlattenSeq(Cells(chunk)) = f[n]
    <3> HIDE DEF f
    <3>. QED BY <1>4, <2>4, <2>5, CellsType, FlatValue
  <2>. QED BY <2>3, <2>4, <2>6
<1>. QED BY <1>3, <1>4

\* Writing the head cell as far as it goes: buffer and cells keep their bytes.
LEMMA CellsWritten ==
  ASSUME NEW S, NEW buffer \in Seq(S), NEW cells \in Seq(Seq(S)),
         cells # << >>, Len(buffer) <= PtyBuf
  PROVE  Filled(buffer, Head(cells)) \o FlattenSeq(CellsLeft(cells, buffer))
           = buffer \o FlattenSeq(cells)
<1> DEFINE first == Head(cells)
           rest  == Unwritten(first, buffer)
           more  == FlattenSeq(Tail(cells))
           full  == Filled(buffer, first)
<1>1. first \in Seq(S) /\ Tail(cells) \in Seq(Seq(S)) /\ more \in Seq(S)
  BY HeadTailProperties, FlatType
<1>2. full \in Seq(S) /\ rest \in Seq(S) /\ full \o rest = buffer \o first
  BY <1>1, WriteSplits
<1>3. FlattenSeq(cells) = first \o more
  BY FlatHead
<1>4. FlattenSeq(CellsLeft(cells, buffer)) = rest \o more
  <2>1. CASE rest = << >>
    <3>1. CellsLeft(cells, buffer) = Tail(cells)
      BY <2>1 DEF CellsLeft
    <3>2. << >> \o more = more
      BY <1>1, ConcatEmptySeq
    <3>. QED BY <2>1, <3>1, <3>2
  <2>2. CASE rest # << >>
    <3>1. CellsLeft(cells, buffer) = <<rest>> \o Tail(cells)
      BY <2>2 DEF CellsLeft
    <3> HIDE DEF rest, first
    <3>2. <<rest>> \in Seq(Seq(S))
      BY <1>2
    <3>3. FlattenSeq(<<rest>> \o Tail(cells)) = FlattenSeq(<<rest>>) \o more
      BY <1>1, <3>2, FlatConcat
    <3>. QED BY <1>2, <3>1, <3>3, FlatOne
  <2>. QED BY <2>1, <2>2
<1> HIDE DEF first, rest, more, full
<1>5. (full \o rest) \o more = full \o (rest \o more)
  <2>1. full \in Seq(S) /\ rest \in Seq(S) /\ more \in Seq(S)
    BY <1>1, <1>2
  <2>2. Associative(S)
    BY Regrouped, Zenon
  <2>. QED BY <2>1, <2>2, Zenon DEF Associative
<1>6. (buffer \o first) \o more = buffer \o (first \o more)
  <2>1. buffer \in Seq(S) /\ first \in Seq(S) /\ more \in Seq(S)
    BY <1>1
  <2>2. Associative(S)
    BY Regrouped, Zenon
  <2>. QED BY <2>1, <2>2, Zenon DEF Associative
<1>. QED BY <1>2, <1>3, <1>4, <1>5, <1>6 DEF full, first

\* What is written of the head cell, and the cells then left, are the cells.
LEMMA CellsTaken ==
  ASSUME NEW S, NEW buffer \in Seq(S), NEW cells \in Seq(Seq(S)),
         cells # << >>, Len(buffer) <= PtyBuf
  PROVE  LET took == SubSeq(Head(cells), 1, Taken(Head(cells), buffer))
         IN  /\ took \in Seq(S)
             /\ took \o FlattenSeq(CellsLeft(cells, buffer)) = FlattenSeq(cells)
<1> DEFINE first == Head(cells)
           took  == SubSeq(first, 1, Taken(first, buffer))
           rest  == Unwritten(first, buffer)
           more  == FlattenSeq(Tail(cells))
<1>1. first \in Seq(S) /\ Tail(cells) \in Seq(Seq(S)) /\ more \in Seq(S)
  BY HeadTailProperties, FlatType
<1>2. Taken(first, buffer) \in 0..Len(first)
  BY <1>1, BytesAssumption, LenProperties DEF Taken, Room, Least
<1>3. took \in Seq(S) /\ rest \in Seq(S) /\ took \o rest = first
  BY <1>1, <1>2, CutInTwo DEF Unwritten
<1>4. FlattenSeq(cells) = first \o more
  BY FlatHead
<1>5. FlattenSeq(CellsLeft(cells, buffer)) = rest \o more
  <2>1. CASE rest = << >>
    <3>1. CellsLeft(cells, buffer) = Tail(cells)
      BY <2>1 DEF CellsLeft
    <3>2. << >> \o more = more
      BY <1>1, ConcatEmptySeq
    <3>. QED BY <2>1, <3>1, <3>2
  <2>2. CASE rest # << >>
    <3>1. CellsLeft(cells, buffer) = <<rest>> \o Tail(cells)
      BY <2>2 DEF CellsLeft
    <3> HIDE DEF rest, first
    <3>2. <<rest>> \in Seq(Seq(S))
      BY <1>3
    <3>3. FlattenSeq(<<rest>> \o Tail(cells)) = FlattenSeq(<<rest>>) \o more
      BY <1>1, <3>2, FlatConcat
    <3>. QED BY <1>3, <3>1, <3>3, FlatOne
  <2>. QED BY <2>1, <2>2
<1> HIDE DEF first, rest, more, took
<1>6. (took \o rest) \o more = took \o (rest \o more)
  <2>1. took \in Seq(S) /\ rest \in Seq(S) /\ more \in Seq(S)
    BY <1>1, <1>3
  <2>2. Associative(S)
    BY Regrouped, Zenon
  <2>. QED BY <2>1, <2>2, Zenon DEF Associative
<1>. QED BY <1>3, <1>4, <1>5, <1>6 DEF took, first

-----------------------------------------------------------------------------
(* What is in a sequence, and what of it is kept.                          *)

\* A set of sequences that has the empty one and grows with every append has
\* them all: how what follows is shown for streams of any length.
LEMMA SeqSet ==
  ASSUME NEW S, NEW T \in SUBSET Seq(S), << >> \in T,
         \A s \in T, x \in S : Append(s, x) \in T
  PROVE  T = Seq(S)
<1> DEFINE N == {n \in Nat : \A s \in Seq(S) : Len(s) = n => s \in T}
<1>1. 0 \in N
  BY EmptySeq
<1>2. ASSUME NEW n \in N
      PROVE  n + 1 \in N
  <2> SUFFICES ASSUME NEW s \in Seq(S), Len(s) = n + 1
               PROVE  s \in T
    OBVIOUS
  <2>1. n \in Nat /\ n + 1 # 0
    OBVIOUS
  <2>2. s # << >>
    BY <2>1, EmptySeq
  <2>3. PICK v \in Seq(S), x \in S : s = Append(v, x) /\ Len(s) = Len(v) + 1
    BY <2>2, SplitLast
  <2>4. Len(v) = n
    BY <2>1, <2>3, LenProperties
  <2>5. v \in T
    BY <2>3, <2>4
  <2>. QED BY <2>3, <2>5
<1>3. N = Nat
  <2>1. N \in SUBSET Nat
    OBVIOUS
  <2> HIDE DEF N
  <2>. QED BY <1>1, <1>2, <2>1, NatSet
<1>4. ASSUME NEW s \in Seq(S)
      PROVE  s \in T
  <2>1. Len(s) \in N
    BY <1>3, LenProperties
  <2>. QED BY <2>1
<1>. QED BY <1>4

\* The elements of a sequence that grew.
LEMMA ToSetAppend ==
  ASSUME NEW S, NEW s \in Seq(S), NEW x \in S
  PROVE  ToSet(Append(s, x)) = ToSet(s) \cup {x}
<1>1. /\ Append(s, x) \in Seq(S) /\ Len(Append(s, x)) = Len(s) + 1
      /\ Append(s, x)[Len(s) + 1] = x /\ \A i \in 1..Len(s) : Append(s, x)[i] = s[i]
  BY AppendProperties
<1>2. Len(s) \in Nat
  BY LenProperties
<1>3. DOMAIN s = 1..Len(s) /\ DOMAIN Append(s, x) = 1..(Len(s) + 1)
  BY <1>1, LenProperties
<1>4. 1..(Len(s) + 1) = 1..Len(s) \cup {Len(s) + 1}
  BY <1>2
<1>. HIDE DEF Append
<1>. QED BY <1>1, <1>3, <1>4 DEF ToSet

\* The elements of two sequences joined are those of either.
LEMMA ToSetConcat ==
  ASSUME NEW S, NEW s \in Seq(S), NEW t \in Seq(S)
  PROVE  ToSet(s \o t) = ToSet(s) \cup ToSet(t)
<1> DEFINE w == s \o t
           m == Len(s)
           n == Len(t)
<1>1. /\ w \in Seq(S) /\ Len(w) = m + n
      /\ \A i \in 1..m : w[i] = s[i]
      /\ \A i \in 1..n : w[m + i] = t[i]
  BY ConcatProperties
<1>2. m \in Nat /\ n \in Nat
  BY LenProperties
<1>3. DOMAIN s = 1..m /\ DOMAIN t = 1..n /\ DOMAIN w = 1..(m + n)
  BY <1>1, LenProperties
<1> HIDE DEF w, m, n
<1>4. ASSUME NEW i \in 1..(m + n)
      PROVE  w[i] \in ToSet(s) \cup ToSet(t)
  <2>1. CASE i <= m
    <3>1. i \in 1..m
      BY <1>2, <2>1
    <3>. QED BY <1>1, <1>3, <3>1 DEF ToSet
  <2>2. CASE i > m
    <3>1. i - m \in 1..n /\ m + (i - m) = i
      BY <1>2, <2>2
    <3>2. w[i] = t[i - m]
      BY <1>1, <3>1
    <3>. QED BY <1>3, <3>1, <3>2 DEF ToSet
  <2>. QED BY <1>2, <2>1, <2>2
<1>5. \A i \in 1..m : s[i] \in ToSet(w)
  <2>1. \A i \in 1..m : i \in 1..(m + n)
    BY <1>2
  <2>. QED BY <1>1, <1>3, <2>1 DEF ToSet
<1>6. \A i \in 1..n : t[i] \in ToSet(w)
  <2>1. \A i \in 1..n : m + i \in 1..(m + n)
    BY <1>2
  <2>. QED BY <1>1, <1>3, <2>1 DEF ToSet
<1>7. ToSet(w) \subseteq ToSet(s) \cup ToSet(t)
  BY <1>3, <1>4 DEF ToSet
<1>8. ToSet(s) \subseteq ToSet(w) /\ ToSet(t) \subseteq ToSet(w)
  BY <1>3, <1>5, <1>6 DEF ToSet
<1>. QED BY <1>7, <1>8 DEF w

\* The empty sequence has none.
LEMMA ToSetEmpty == ToSet(<< >>) = {}
BY EmptySeq DEF ToSet

\* The elements of a sequence are of its kind.
LEMMA ToSetType ==
  ASSUME NEW S, NEW s \in Seq(S)
  PROVE  ToSet(s) \subseteq S
BY ElementOfSeq, LenProperties DEF ToSet

\* Of the sequences joined there is nothing else in the join.
LEMMA ToSetFlat ==
  ASSUME NEW S, NEW s \in Seq(Seq(S))
  PROVE  ToSet(FlattenSeq(s)) = UNION {ToSet(s[i]) : i \in DOMAIN s}
<1> DEFINE All(u) == UNION {ToSet(u[i]) : i \in DOMAIN u}
           T == {u \in Seq(Seq(S)) : ToSet(FlattenSeq(u)) = All(u)}
<1>1. << >> \in T
  BY ToSetEmpty, FlatEmpty, EmptySeq
<1>2. ASSUME NEW u \in T, NEW x \in Seq(S)
      PROVE  Append(u, x) \in T
  <2>1. /\ u \in Seq(Seq(S)) /\ ToSet(FlattenSeq(u)) = All(u)
        /\ Append(u, x) \in Seq(Seq(S))
    BY AppendProperties
  <2>2. ToSet(FlattenSeq(Append(u, x))) = ToSet(FlattenSeq(u)) \cup ToSet(x)
    <3>1. FlattenSeq(u) \in Seq(S)
      BY <2>1, FlatType
    <3>2. FlattenSeq(Append(u, x)) = FlattenSeq(u) \o x
      BY <2>1, FlatAppend
    <3>3. ToSet(FlattenSeq(u) \o x) = ToSet(FlattenSeq(u)) \cup ToSet(x)
      BY <3>1, ToSetConcat
    <3>. QED BY <3>2, <3>3
  <2>3. All(Append(u, x)) = All(u) \cup ToSet(x)
    <3>1. Len(u) \in Nat
      BY <2>1, LenProperties
    <3>2. DOMAIN u = 1..Len(u) /\ DOMAIN Append(u, x) = 1..(Len(u) + 1)
      BY <2>1, AppendProperties, LenProperties
    <3>3. /\ Append(u, x)[Len(u) + 1] = x
          /\ \A i \in 1..Len(u) : Append(u, x)[i] = u[i]
      BY <2>1, AppendProperties
    <3>4. 1..(Len(u) + 1) = 1..Len(u) \cup {Len(u) + 1}
      BY <3>1
    <3>5. {ToSet(Append(u, x)[i]) : i \in DOMAIN Append(u, x)}
            = {ToSet(u[i]) : i \in DOMAIN u} \cup {ToSet(x)}
      BY <3>2, <3>3, <3>4
    <3>. QED BY <3>5
  <2>. QED BY <2>1, <2>2, <2>3
<1>3. T = Seq(Seq(S))
  <2>1. T \in SUBSET Seq(Seq(S))
    OBVIOUS
  <2> HIDE DEF T
  <2>. QED BY <1>1, <1>2, <2>1, SeqSet
<1>. QED BY <1>3

-----------------------------------------------------------------------------
(* What is kept of a stream.                                               *)

\* The sequences whose join is what is kept.
Picked(s, X) == [i \in 1..Len(s) |-> IF s[i] \in X THEN <<s[i]>> ELSE << >>]

\* A sequence for each element, of one element or none.
LEMMA PickedType ==
  ASSUME NEW S, NEW X, NEW s \in Seq(S)
  PROVE  Picked(s, X) \in Seq(Seq(S)) /\ Len(Picked(s, X)) = Len(s)
<1>1. Len(s) \in Nat /\ \A i \in 1..Len(s) : s[i] \in S
  BY ElementOfSeq, LenProperties
<1>2. \A i \in 1..Len(s) : (IF s[i] \in X THEN <<s[i]>> ELSE << >>) \in Seq(S)
  BY <1>1
<1>3. Picked(s, X) \in [1..Len(s) -> Seq(S)]
  BY <1>2 DEF Picked
<1>. QED BY <1>1, <1>3

\* What is kept is of the same kind.
LEMMA KeptType ==
  ASSUME NEW S, NEW X, NEW s \in Seq(S)
  PROVE  Kept(s, X) \in Seq(S)
BY PickedType, FlatType DEF Kept, Picked

\* Nothing is kept of nothing.
LEMMA KeptEmpty ==
  ASSUME NEW X
  PROVE  Kept(<< >>, X) = << >>
<1>1. Picked(<< >>, X) \in Seq(Seq({})) /\ Len(Picked(<< >>, X)) = 0
  <2>1. << >> \in Seq({})
    OBVIOUS
  <2>. QED BY <2>1, PickedType, EmptySeq
<1>2. Picked(<< >>, X) = << >>
  BY <1>1, EmptySeq
<1>. QED BY <1>2, FlatEmpty DEF Kept, Picked

\* One element more is kept, or is not.
LEMMA KeptAppend ==
  ASSUME NEW S, NEW X, NEW s \in Seq(S), NEW x \in S
  PROVE  Kept(Append(s, x), X) = IF x \in X THEN Append(Kept(s, X), x) ELSE Kept(s, X)
<1> DEFINE p == Picked(s, X)
           y == IF x \in X THEN <<x>> ELSE << >>
<1>1. p \in Seq(Seq(S)) /\ Len(p) = Len(s) /\ y \in Seq(S)
  BY PickedType
<1>2. Picked(Append(s, x), X) = Append(p, y)
  <2> DEFINE q == Picked(Append(s, x), X)
             r == Append(p, y)
  <2>1. /\ Append(s, x) \in Seq(S) /\ Len(Append(s, x)) = Len(s) + 1
        /\ Append(s, x)[Len(s) + 1] = x /\ \A i \in 1..Len(s) : Append(s, x)[i] = s[i]
        /\ Len(s) \in Nat
    BY AppendProperties, LenProperties
  <2>2. q \in Seq(Seq(S)) /\ Len(q) = Len(s) + 1
    BY <2>1, PickedType
  <2>3. /\ r \in Seq(Seq(S)) /\ Len(r) = Len(s) + 1
        /\ r[Len(s) + 1] = y /\ \A i \in 1..Len(s) : r[i] = p[i]
    <3> HIDE DEF p, y
    <3>. QED BY <1>1, AppendProperties
  <2>4. q[Len(s) + 1] = y
    <3>1. Len(s) + 1 \in 1..Len(Append(s, x))
      BY <2>1
    <3>. QED BY <2>1, <3>1 DEF Picked
  <2>5. \A i \in 1..Len(s) : q[i] = p[i]
    <3>1. \A i \in 1..Len(s) : i \in 1..Len(Append(s, x))
      BY <2>1
    <3>. QED BY <2>1, <3>1 DEF Picked
  <2> HIDE DEF q, r, p, y
  <2>6. \A i \in 1..Len(q) : q[i] = r[i]
    <3>1. \A i \in 1..(Len(s) + 1) : i = Len(s) + 1 \/ i \in 1..Len(s)
      BY <2>1
    <3>. QED BY <2>2, <2>3, <2>4, <2>5, <3>1
  <2>7. q = r
    BY <2>2, <2>3, <2>6, SeqEqual
  <2>. QED BY <2>7 DEF q, r
<1>3. FlattenSeq(Append(p, y)) = FlattenSeq(p) \o y
  <2> HIDE DEF p, y
  <2>. QED BY <1>1, FlatAppend
<1>4. FlattenSeq(p) \in Seq(S)
  <2> HIDE DEF p
  <2>. QED BY <1>1, FlatType
<1>5. /\ Kept(Append(s, x), X) = FlattenSeq(p) \o y
      /\ Kept(s, X) = FlattenSeq(p)
  BY <1>2, <1>3 DEF Kept, Picked
<1> DEFINE f == FlattenSeq(p)
<1> HIDE DEF f
<1>6. f \o << >> = f /\ f \o <<x>> = Append(f, x) /\ f \in Seq(S)
  <2>1. f \in Seq(S)
    BY <1>4 DEF f
  <2>. QED BY <2>1, ConcatEmptySeq, AppendIsConcat
<1>. QED BY <1>5, <1>6 DEF f

\* Appending to the second of two joined is appending to the join.
LEMMA ConcatAppended ==
  ASSUME NEW S, NEW s \in Seq(S), NEW t \in Seq(S), NEW x \in S
  PROVE  s \o Append(t, x) = Append(s \o t, x)
<1>1. <<x>> \in Seq(S) /\ s \o t \in Seq(S)
  BY ConcatProperties
<1>2. Append(t, x) = t \o <<x>> /\ Append(s \o t, x) = (s \o t) \o <<x>>
  BY <1>1, AppendIsConcat
<1>3. (s \o t) \o <<x>> = s \o (t \o <<x>>)
  <2>1. \A a, b, c \in Seq(S) : (a \o b) \o c = a \o (b \o c)
    <3>1. Associative(S)
      BY Regrouped, Zenon
    <3>. QED BY <3>1, Zenon DEF Associative
  <2>. QED BY <1>1, <2>1, Zenon
<1>. QED BY <1>2, <1>3, Zenon

\* What is kept of two streams joined.
LEMMA KeptConcat ==
  ASSUME NEW S, NEW X, NEW s \in Seq(S), NEW t \in Seq(S)
  PROVE  Kept(s \o t, X) = Kept(s, X) \o Kept(t, X)
<1> DEFINE T == {u \in Seq(S) : Kept(s \o u, X) = Kept(s, X) \o Kept(u, X)}
<1>0. Kept(s, X) \in Seq(S)
  BY KeptType
<1>1. << >> \in T
  BY <1>0, KeptEmpty, ConcatEmptySeq
<1>2. ASSUME NEW u \in Seq(S), Kept(s \o u, X) = Kept(s, X) \o Kept(u, X), NEW x \in S
      PROVE  Kept(s \o Append(u, x), X) = Kept(s, X) \o Kept(Append(u, x), X)
  <2> DEFINE a == Kept(s, X)
             b == Kept(u, X)
             v == s \o u
  <2>1. a \in Seq(S) /\ b \in Seq(S) /\ v \in Seq(S)
    BY <1>0, KeptType, ConcatProperties
  <2>2. s \o Append(u, x) = Append(v, x)
    BY ConcatAppended
  <2>3. Kept(v, X) = a \o b
    BY <1>2
  <2>4. Kept(Append(u, x), X) = IF x \in X THEN Append(b, x) ELSE b
    BY KeptAppend
  <2> HIDE DEF a, b, v
  <2>5. Kept(Append(v, x), X) = IF x \in X THEN Append(Kept(v, X), x) ELSE Kept(v, X)
    BY <2>1, KeptAppend
  <2>6. a \o Append(b, x) = Append(a \o b, x)
    BY <2>1, ConcatAppended
  <2>7. Kept(s \o Append(u, x), X) = a \o Kept(Append(u, x), X)
    BY <2>2, <2>3, <2>4, <2>5, <2>6
  <2>. QED BY <2>7 DEF a
<1>3. T \in SUBSET Seq(S) /\ \A u \in T, x \in S : Append(u, x) \in T
  BY <1>2, AppendProperties
<1>4. T = Seq(S)
  <2> HIDE DEF T
  <2>. QED BY <1>1, <1>3, SeqSet
<1>. QED BY <1>4

\* All is kept when all of it is in the set.
LEMMA KeptAll ==
  ASSUME NEW S, NEW X, NEW t \in Seq(S), ToSet(t) \subseteq X
  PROVE  Kept(t, X) = t
<1> DEFINE T == {u \in Seq(S) : ToSet(u) \subseteq X => Kept(u, X) = u}
<1>1. << >> \in T
  BY KeptEmpty
<1>2. ASSUME NEW u \in Seq(S), ToSet(u) \subseteq X => Kept(u, X) = u, NEW x \in S,
             ToSet(Append(u, x)) \subseteq X
      PROVE  Kept(Append(u, x), X) = Append(u, x)
  <2>1. ToSet(u) \subseteq X /\ x \in X
    BY <1>2, ToSetAppend
  <2>2. Kept(Append(u, x), X) = IF x \in X THEN Append(Kept(u, X), x) ELSE Kept(u, X)
    BY KeptAppend
  <2>. QED BY <1>2, <2>1, <2>2
<1>3. T \in SUBSET Seq(S) /\ \A u \in T, x \in S : Append(u, x) \in T
  BY <1>2, AppendProperties
<1>4. T = Seq(S)
  <2> HIDE DEF T
  <2>. QED BY <1>1, <1>3, SeqSet
<1>. QED BY <1>4

\* Nothing is kept when none of it is in the set.
LEMMA KeptNone ==
  ASSUME NEW S, NEW X, NEW t \in Seq(S), ToSet(t) \cap X = {}
  PROVE  Kept(t, X) = << >>
<1> DEFINE T == {u \in Seq(S) : ToSet(u) \cap X = {} => Kept(u, X) = << >>}
<1>1. << >> \in T
  BY KeptEmpty
<1>2. ASSUME NEW u \in Seq(S), ToSet(u) \cap X = {} => Kept(u, X) = << >>, NEW x \in S,
             ToSet(Append(u, x)) \cap X = {}
      PROVE  Kept(Append(u, x), X) = << >>
  <2>1. ToSet(u) \cap X = {} /\ x \notin X
    BY <1>2, ToSetAppend
  <2>2. Kept(Append(u, x), X) = IF x \in X THEN Append(Kept(u, X), x) ELSE Kept(u, X)
    BY KeptAppend
  <2>. QED BY <1>2, <2>1, <2>2
<1>3. T \in SUBSET Seq(S) /\ \A u \in T, x \in S : Append(u, x) \in T
  BY <1>2, AppendProperties
<1>4. T = Seq(S)
  <2> HIDE DEF T
  <2>. QED BY <1>1, <1>3, SeqSet
<1>. QED BY <1>4

\* Only which elements of the stream are in the set matters.
LEMMA KeptSame ==
  ASSUME NEW S, NEW X, NEW Y, NEW t \in Seq(S), ToSet(t) \cap X = ToSet(t) \cap Y
  PROVE  Kept(t, X) = Kept(t, Y)
<1>1. \A i \in 1..Len(t) : t[i] \in X <=> t[i] \in Y
  <2>1. \A i \in 1..Len(t) : t[i] \in ToSet(t)
    BY LenProperties DEF ToSet
  <2>. QED BY <2>1
<1>2. [i \in 1..Len(t) |-> IF t[i] \in X THEN <<t[i]>> ELSE << >>]
        = [i \in 1..Len(t) |-> IF t[i] \in Y THEN <<t[i]>> ELSE << >>]
  BY <1>1
<1>. QED BY <1>2 DEF Kept

\* What is kept are the elements in the set.
LEMMA KeptMembers ==
  ASSUME NEW S, NEW X, NEW t \in Seq(S)
  PROVE  ToSet(Kept(t, X)) = ToSet(t) \cap X
<1> DEFINE T == {u \in Seq(S) : ToSet(Kept(u, X)) = ToSet(u) \cap X}
<1>1. << >> \in T
  BY KeptEmpty, ToSetEmpty
<1>2. ASSUME NEW u \in Seq(S), ToSet(Kept(u, X)) = ToSet(u) \cap X, NEW x \in S
      PROVE  ToSet(Kept(Append(u, x), X)) = ToSet(Append(u, x)) \cap X
  <2> DEFINE k == Kept(u, X)
  <2>1. k \in Seq(S)
    BY KeptType
  <2>2. Kept(Append(u, x), X) = IF x \in X THEN Append(k, x) ELSE k
    BY KeptAppend
  <2>3. ToSet(Append(u, x)) = ToSet(u) \cup {x}
    BY ToSetAppend
  <2>4. ToSet(k) = ToSet(u) \cap X
    BY <1>2
  <2> HIDE DEF k
  <2>5. ToSet(Append(k, x)) = ToSet(k) \cup {x}
    BY <2>1, ToSetAppend
  <2>. QED BY <2>2, <2>3, <2>4, <2>5
<1>3. T \in SUBSET Seq(S) /\ \A u \in T, x \in S : Append(u, x) \in T
  BY <1>2, AppendProperties
<1>4. T = Seq(S)
  <2> HIDE DEF T
  <2>. QED BY <1>1, <1>3, SeqSet
<1>. QED BY <1>4

\* Keeping twice is keeping what is in both sets.
LEMMA KeptTwice ==
  ASSUME NEW S, NEW X, NEW Y, NEW t \in Seq(S)
  PROVE  Kept(Kept(t, X), Y) = Kept(t, X \cap Y)
<1> DEFINE T == {u \in Seq(S) : Kept(Kept(u, X), Y) = Kept(u, X \cap Y)}
<1>1. << >> \in T
  BY KeptEmpty
<1>2. ASSUME NEW u \in Seq(S), Kept(Kept(u, X), Y) = Kept(u, X \cap Y), NEW x \in S
      PROVE  Kept(Kept(Append(u, x), X), Y) = Kept(Append(u, x), X \cap Y)
  <2> DEFINE k == Kept(u, X)
             m == Kept(u, X \cap Y)
             Z == X \cap Y
  <2>1. k \in Seq(S) /\ Kept(k, Y) = m
    BY <1>2, KeptType
  <2>2. Kept(Append(u, x), X) = IF x \in X THEN Append(k, x) ELSE k
    BY KeptAppend
  <2>3. Kept(Append(u, x), Z) = IF x \in Z THEN Append(m, x) ELSE m
    <3> HIDE DEF Z
    <3>1. Kept(Append(u, x), Z) = IF x \in Z THEN Append(Kept(u, Z), x) ELSE Kept(u, Z)
      BY KeptAppend
    <3>. QED BY <3>1 DEF Z
  <2> HIDE DEF k, m
  <2>4. Kept(Append(k, x), Y) = IF x \in Y THEN Append(Kept(k, Y), x) ELSE Kept(k, Y)
    BY <2>1, KeptAppend
  <2>. QED BY <2>1, <2>2, <2>3, <2>4
<1>3. T \in SUBSET Seq(S) /\ \A u \in T, x \in S : Append(u, x) \in T
  BY <1>2, AppendProperties
<1>4. T = Seq(S)
  <2> HIDE DEF T
  <2>. QED BY <1>1, <1>3, SeqSet
<1>. QED BY <1>4

\* No element comes twice.
Once(s) == \A i, j \in 1..Len(s) : s[i] = s[j] => i = j

\* An element more that was not there comes once too.
LEMMA OnceAppend ==
  ASSUME NEW S, NEW s \in Seq(S), NEW x \in S
  PROVE  Once(Append(s, x)) <=> Once(s) /\ x \notin ToSet(s)
<1> DEFINE w == Append(s, x)
           n == Len(s)
<1>1. /\ Len(w) = n + 1 /\ w[n + 1] = x /\ \A i \in 1..n : w[i] = s[i]
      /\ n \in Nat /\ DOMAIN s = 1..n
  BY AppendProperties, LenProperties
<1> HIDE DEF w, n
<1>2. \A i \in 1..(n + 1) : i = n + 1 \/ i \in 1..n
  BY <1>1
<1>3. \A i \in 1..n : i \in 1..(n + 1) /\ i # n + 1
  BY <1>1
<1>4. n + 1 \in 1..(n + 1)
  BY <1>1
<1>5. ToSet(s) = {s[i] : i \in 1..n}
  BY <1>1 DEF ToSet
<1>6. ASSUME Once(s), x \notin ToSet(s)
      PROVE  Once(w)
  BY <1>1, <1>2, <1>5, <1>6 DEF Once, n
<1>7. ASSUME Once(w)
      PROVE  Once(s) /\ x \notin ToSet(s)
  <2>1. Once(s)
    BY <1>1, <1>3, <1>7 DEF Once, n
  <2>2. \A i \in 1..n : s[i] # x
    BY <1>1, <1>3, <1>4, <1>7 DEF Once
  <2>. QED BY <1>5, <2>1, <2>2
<1>. QED BY <1>6, <1>7 DEF w

\* Two sequences joined have each element once when each has, and none in common.
LEMMA OnceConcat ==
  ASSUME NEW S, NEW s \in Seq(S), NEW t \in Seq(S)
  PROVE  Once(s \o t) <=> Once(s) /\ Once(t) /\ ToSet(s) \cap ToSet(t) = {}
<1> DEFINE T == {u \in Seq(S) : Once(s \o u) <=> Once(s) /\ Once(u)
                                                  /\ ToSet(s) \cap ToSet(u) = {}}
<1>1. << >> \in T
  <2>1. s \o << >> = s /\ ToSet(<< >>) = {} /\ Once(<< >>)
    BY ConcatEmptySeq, ToSetEmpty, EmptySeq DEF Once
  <2>. QED BY <2>1
<1>2. ASSUME NEW u \in Seq(S), NEW x \in S,
             Once(s \o u) <=> Once(s) /\ Once(u) /\ ToSet(s) \cap ToSet(u) = {}
      PROVE  Once(s \o Append(u, x))
               <=> Once(s) /\ Once(Append(u, x)) /\ ToSet(s) \cap ToSet(Append(u, x)) = {}
  <2> DEFINE v == s \o u
  <2>1. v \in Seq(S) /\ ToSet(v) = ToSet(s) \cup ToSet(u)
    BY ConcatProperties, ToSetConcat
  <2>2. s \o Append(u, x) = Append(v, x)
    BY ConcatAppended
  <2>3. Once(Append(u, x)) <=> Once(u) /\ x \notin ToSet(u)
    BY OnceAppend
  <2>4. ToSet(Append(u, x)) = ToSet(u) \cup {x}
    BY ToSetAppend
  <2>5. Once(v) <=> Once(s) /\ Once(u) /\ ToSet(s) \cap ToSet(u) = {}
    BY <1>2
  <2> HIDE DEF v
  <2>6. Once(Append(v, x)) <=> Once(v) /\ x \notin ToSet(v)
    BY <2>1, OnceAppend
  <2>. QED BY <2>1, <2>2, <2>3, <2>4, <2>5, <2>6
<1>3. T \in SUBSET Seq(S) /\ \A u \in T, x \in S : Append(u, x) \in T
  BY <1>2, AppendProperties
<1>4. T = Seq(S)
  <2> HIDE DEF T
  <2>. QED BY <1>1, <1>3, SeqSet
<1>. QED BY <1>4

\* What is kept has no element twice either.
LEMMA KeptOnce ==
  ASSUME NEW S, NEW X, NEW t \in Seq(S), Once(t)
  PROVE  Once(Kept(t, X))
<1> DEFINE T == {u \in Seq(S) : Once(u) => Once(Kept(u, X))}
<1>1. << >> \in T
  BY KeptEmpty
<1>2. ASSUME NEW u \in Seq(S), Once(u) => Once(Kept(u, X)), NEW x \in S,
             Once(Append(u, x))
      PROVE  Once(Kept(Append(u, x), X))
  <2> DEFINE k == Kept(u, X)
  <2>1. k \in Seq(S) /\ ToSet(k) = ToSet(u) \cap X
    BY KeptType, KeptMembers
  <2>2. Kept(Append(u, x), X) = IF x \in X THEN Append(k, x) ELSE k
    BY KeptAppend
  <2>3. Once(u) /\ x \notin ToSet(u)
    BY <1>2, OnceAppend
  <2>4. Once(k)
    BY <1>2, <2>3
  <2> HIDE DEF k
  <2>5. Once(Append(k, x)) <=> Once(k) /\ x \notin ToSet(k)
    BY <2>1, OnceAppend
  <2>. QED BY <2>1, <2>2, <2>3, <2>4, <2>5
<1>3. T \in SUBSET Seq(S) /\ \A u \in T, x \in S : Append(u, x) \in T
  BY <1>2, AppendProperties
<1>4. T = Seq(S)
  <2> HIDE DEF T
  <2>. QED BY <1>1, <1>3, SeqSet
<1>. QED BY <1>4

\* Of a stream in which nothing comes twice, some of the middle part is given up.
LostFrom(a, b, c, S, E) == Kept((a \o b) \o c, S \ E) = (a \o Kept(b, S \ E)) \o c

LEMMA KeptMiddle ==
  ASSUME NEW S, NEW a \in Seq(S), NEW b \in Seq(S), NEW c \in Seq(S),
         Once((a \o b) \o c), NEW E, E \subseteq ToSet(b)
  PROVE  LostFrom(a, b, c, S, E)
<1> DEFINE Z == S \ E
           ab == a \o b
<1>1. ab \in Seq(S)
  BY ConcatProperties
<1>2. /\ ToSet(a) \cap ToSet(b) = {} /\ ToSet(ab) \cap ToSet(c) = {}
      /\ ToSet(ab) = ToSet(a) \cup ToSet(b)
  <2>1. Once(ab) /\ ToSet(ab) \cap ToSet(c) = {}
    <3>1. Once(ab \o c)
      OBVIOUS
    <3> HIDE DEF ab
    <3>. QED BY <1>1, <3>1, OnceConcat
  <2>2. ToSet(a) \cap ToSet(b) = {}
    BY <2>1, OnceConcat
  <2>. QED BY <2>1, <2>2, ToSetConcat
<1>3. ToSet(a) \subseteq Z /\ ToSet(c) \subseteq Z
  BY <1>2, ToSetType
<1>4. Kept(ab, Z) = Kept(a, Z) \o Kept(b, Z)
  <2> HIDE DEF Z
  <2>. QED BY KeptConcat
<1> HIDE DEF Z, ab
<1>5. Kept(ab \o c, Z) = Kept(ab, Z) \o Kept(c, Z)
  BY <1>1, KeptConcat
<1>6. Kept(a, Z) = a /\ Kept(c, Z) = c
  BY <1>3, KeptAll
<1>7. Kept(ab \o c, Z) = (a \o Kept(b, Z)) \o c
  BY <1>4, <1>5, <1>6
<1>. QED BY <1>7 DEF Z, ab, LostFrom

\* What X keeps of a stream is in two parts, or in three, and Y has of it what X
\* has but for E.  (As operators of their own the provers match the equations as
\* they are.)
TwoParts(s, X, a, c)      == Kept(s, X) = a \o c
ThreeParts(s, X, a, b, c) == Kept(s, X) = (a \o b) \o c
Without(s, X, Y, E)       == \A x \in ToSet(s) : x \in Y <=> x \in X /\ x \notin E
Less(s, X, Y, b)          == Without(s, X, Y, ToSet(b))

\* Some of a part of what was kept is given up: the rest is kept as it was, for no
\* element comes twice.
LEMMA KeptThinner ==
  ASSUME NEW S, NEW s \in Seq(S), Once(s), NEW X, NEW Y,
         NEW a \in Seq(S), NEW b \in Seq(S), NEW c \in Seq(S), NEW E \in SUBSET ToSet(b),
         ThreeParts(s, X, a, b, c), Without(s, X, Y, E)
  PROVE  ThreeParts(s, Y, a, Kept(b, S \ E), c)
<1> DEFINE Z == S \ E
<1>1. LostFrom(a, b, c, S, E)
  <2>1. Once(Kept(s, X))
    BY KeptOnce
  <2>2. Once((a \o b) \o c)
    BY <2>1 DEF ThreeParts
  <2>. QED BY <2>2, KeptMiddle
<1>2. Kept(s, Y) = Kept(s, X \cap Z)
  <2> DEFINE W == X \cap Z
  <2>1. ToSet(s) \cap Y = ToSet(s) \cap W
    BY ToSetType DEF Without
  <2> HIDE DEF W
  <2>2. Kept(s, Y) = Kept(s, W)
    BY <2>1, KeptSame
  <2>. QED BY <2>2 DEF W
<1>3. Kept(s, X \cap Z) = Kept(Kept(s, X), Z)
  <2>1. \A V, W : Kept(Kept(s, V), W) = Kept(s, V \cap W)
    BY KeptTwice
  <2>. QED BY <2>1, Zenon
<1>. QED BY <1>1, <1>2, <1>3 DEF ThreeParts, LostFrom

\* All of it is given up.
LEMMA KeptLess ==
  ASSUME NEW S, NEW s \in Seq(S), Once(s), NEW X, NEW Y,
         NEW a \in Seq(S), NEW b \in Seq(S), NEW c \in Seq(S),
         ThreeParts(s, X, a, b, c), Less(s, X, Y, b)
  PROVE  TwoParts(s, Y, a, c)
<1> DEFINE E == ToSet(b)
           none == Kept(b, S \ E)
<1>1. E \in SUBSET ToSet(b) /\ none = << >>
  BY KeptNone
<1>2. a \o << >> = a
  BY ConcatEmptySeq
<1>3. ThreeParts(s, Y, a, none, c)
  <2> HIDE DEF E
  <2>. QED BY <1>1, KeptThinner DEF Less, E
<1> HIDE DEF none
<1>. QED BY <1>1, <1>2, <1>3 DEF ThreeParts, TwoParts
=============================================================================
