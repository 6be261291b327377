----------------------------- MODULE SimProofs -----------------------------
(***************************************************************************)
(* Proofs about Sim: types, the streams of presets and of a child, what    *)
(* the screen shows of the line being typed, and what serial-tether's      *)
(* marker is answered.  The work is in Feed, a fold of FeedByte, which     *)
(* folds over the commands of a line and those over its characters: that   *)
(* what a device was fed before and what it has answered changes nothing   *)
(* about what it does next but through its state.                          *)
(***************************************************************************)
EXTENDS MCSim, WireCellsProofs, FiniteSetTheorems

(* Folds: what FoldLeft makes of a sequence, for any function F of what has *)
(* been made so far and the next element.                                   *)

\* Max is the largest of some indices.
LEMMA MaxIsLast ==
  \A n \in Nat : \A t \in SUBSET (1..n) :
    t # {} => /\ Max(t) \in t /\ \A i \in t : i <= Max(t)
              /\ \A m \in t : (\A i \in t : i <= m) => Max(t) = m
<1> DEFINE Bound(n) == \A t \in SUBSET (1..n) : t # {} => \E m \in t : \A i \in t : i <= m
           T == {n \in Nat : Bound(n)}
<1>1. 0 \in T
  <2>1. 1..0 = {}
    OBVIOUS
  <2>2. \A t \in SUBSET (1..0) : t = {}
    BY <2>1
  <2>. QED BY <2>2
<1>2. ASSUME NEW n \in Nat, Bound(n)
      PROVE  Bound(n + 1)
  <2> SUFFICES ASSUME NEW t \in SUBSET (1..(n + 1)), t # {}
               PROVE  \E m \in t : \A i \in t : i <= m
    OBVIOUS
  <2>1. CASE n + 1 \in t
    BY <2>1
  <2>2. CASE n + 1 \notin t
    <3>1. t \in SUBSET (1..n)
      BY <2>2
    <3>. QED BY <1>2, <3>1
  <2>. QED BY <2>1, <2>2
<1>3. T = Nat
  <2>1. T \in SUBSET Nat /\ \A n \in T : n + 1 \in T
    BY <1>2
  <2> HIDE DEF T
  <2>. QED BY <1>1, <2>1, NatSet
<1> SUFFICES ASSUME NEW n \in Nat, NEW t \in SUBSET (1..n), t # {}
             PROVE  /\ Max(t) \in t /\ \A i \in t : i <= Max(t)
                    /\ \A m \in t : (\A i \in t : i <= m) => Max(t) = m
  OBVIOUS
<1>4. PICK m \in t : \A i \in t : i <= m
  BY <1>3
<1>5. \A i \in t : i \in Nat
  OBVIOUS
<1>6. Max(t) \in t /\ \A i \in t : Max(t) >= i
  BY <1>4, <1>5 DEF Max
<1> DEFINE x == Max(t)
<1>7. x \in t /\ x \in Nat /\ \A i \in t : x >= i
  BY <1>5, <1>6
<1> HIDE DEF x
<1>8. \A i \in t : i <= x
  BY <1>5, <1>7
<1>9. ASSUME NEW k \in t, \A i \in t : i <= k
      PROVE  x = k
  <2>1. x <= k /\ x >= k /\ k \in Nat
    BY <1>5, <1>7, <1>9
  <2>. QED BY <1>7, <2>1
<1>. QED BY <1>7, <1>8, <1>9 DEF x

\* The last of the first n + 1 indices, and the others.
LEMMA MaxOfFirst ==
  \A n \in Nat : /\ Max(1..(n + 1)) = n + 1 /\ (1..(n + 1)) \ {n + 1} = 1..n
                 /\ 1..(n + 1) # {} /\ 1..0 = {}
<1> SUFFICES ASSUME NEW n \in Nat
             PROVE  /\ Max(1..(n + 1)) = n + 1 /\ (1..(n + 1)) \ {n + 1} = 1..n
                    /\ 1..(n + 1) # {} /\ 1..0 = {}
  OBVIOUS
<1> DEFINE t == 1..(n + 1)
<1>1. t \in SUBSET (1..(n + 1)) /\ n + 1 \in t /\ n + 1 \in Nat /\ \A i \in t : i <= n + 1
  OBVIOUS
<1>2. Max(t) = n + 1
  <2> HIDE DEF t
  <2>. QED BY <1>1, MaxIsLast
<1>. QED BY <1>2

\* f[t] is what the elements of s at the indices t make.
Folding(f, F, x, s) ==
  f = [t \in SUBSET DOMAIN s |->
         IF t = {} THEN x ELSE F[<<f[t \ {Max(t)}], s[Max(t)]>>]]

\* There is such a function for every F and sequence.
LEMMA FoldingExists ==
  ASSUME NEW S, NEW B, NEW F \in [S \X B -> S], NEW x \in S, NEW s \in Seq(B)
  PROVE  \E f \in [SUBSET DOMAIN s -> S] : Folding(f, F, x, s)
<1> DEFINE T == {u \in Seq(B) : \E f \in [SUBSET DOMAIN u -> S] : Folding(f, F, x, u)}
<1>1. << >> \in T
  <2> DEFINE f == [t \in SUBSET {} |-> x]
  <2>1. DOMAIN << >> = {} /\ \A t \in SUBSET {} : t = {}
    OBVIOUS
  <2>2. f \in [SUBSET {} -> S] /\ f = [t \in SUBSET {} |->
          IF t = {} THEN x ELSE F[<<f[t \ {Max(t)}], << >>[Max(t)]>>]]
    BY <2>1
  <2>. QED BY <2>1, <2>2, EmptySeq DEF Folding
<1>2. ASSUME NEW u \in T, NEW b \in B
      PROVE  Append(u, b) \in T
  <2>1. PICK f \in [SUBSET DOMAIN u -> S] : Folding(f, F, x, u)
    OBVIOUS
  <2> DEFINE n == Len(u)
             w == Append(u, b)
             g == [t \in SUBSET (1..(n + 1)) |->
                     IF n + 1 \in t THEN F[<<f[t \ {n + 1}], b>>] ELSE f[t]]
  <2>2. /\ n \in Nat /\ w \in Seq(B) /\ Len(w) = n + 1 /\ w[n + 1] = b
        /\ \A i \in 1..n : w[i] = u[i] /\ u[i] \in B
    BY AppendProperties, LenProperties, ElementOfSeq
  <2>3. DOMAIN u = 1..n /\ DOMAIN w = 1..(n + 1)
    BY <2>2, LenProperties
  <2> HIDE DEF w, n
  <2>4. \A t \in SUBSET (1..(n + 1)) : n + 1 \notin t => t \in SUBSET (1..n)
    BY <2>2
  <2>5. \A t \in SUBSET (1..(n + 1)) : t \ {n + 1} \in SUBSET (1..n)
    BY <2>2
  <2>6. g \in [SUBSET (1..(n + 1)) -> S]
    <3>1. \A t \in SUBSET (1..n) : f[t] \in S
      BY <2>3
    <3>2. \A a \in S : F[<<a, b>>] \in S
      OBVIOUS
    <3>. QED BY <2>4, <2>5, <3>1, <3>2
  <2>7. ASSUME NEW t \in SUBSET (1..(n + 1))
        PROVE  g[t] = IF t = {} THEN x ELSE F[<<g[t \ {Max(t)}], w[Max(t)]>>]
    <3>1. \A r \in SUBSET (1..n) : f[r] = IF r = {} THEN x ELSE F[<<f[r \ {Max(r)}], u[Max(r)]>>]
      BY <2>1, <2>3, Zenon DEF Folding
    <3>2. n + 1 \in Nat /\ \A i \in t : i <= n + 1
      <4>1. \A i \in t : i \in 1..(n + 1)
        OBVIOUS
      <4>. QED BY <2>2, <4>1
    <3>3. CASE n + 1 \in t
      <4>1. Max(t) = n + 1
        BY <3>2, <3>3, MaxIsLast
      <4>2. t \ {n + 1} \in SUBSET (1..(n + 1)) /\ n + 1 \notin t \ {n + 1}
        BY <2>5
      <4>3. g[t \ {n + 1}] = f[t \ {n + 1}]
        BY <4>2
      <4>4. g[t] = F[<<f[t \ {n + 1}], b>>] /\ t # {}
        BY <3>3
      <4> HIDE DEF g
      <4>. QED BY <2>2, <4>1, <4>3, <4>4
    <3>4. CASE n + 1 \notin t
      <4>1. t \in SUBSET (1..n)
        BY <2>4, <3>4
      <4>2. g[t] = f[t]
        BY <3>4
      <4>3. t # {} => Max(t) \in 1..n
        BY <2>2, <4>1, MaxIsLast
      <4>4. t \ {Max(t)} \in SUBSET (1..(n + 1)) /\ n + 1 \notin t \ {Max(t)}
        BY <3>4
      <4>5. g[t \ {Max(t)}] = f[t \ {Max(t)}]
        BY <4>4
      <4> HIDE DEF g
      <4>. QED BY <2>2, <3>1, <4>1, <4>2, <4>3, <4>5
    <3>. QED BY <3>3, <3>4
  <2>8. Folding(g, F, x, w)
    <3>1. g = [t \in SUBSET (1..(n + 1)) |-> g[t]]
      OBVIOUS
    <3>2. g = [t \in SUBSET (1..(n + 1)) |->
                 IF t = {} THEN x ELSE F[<<g[t \ {Max(t)}], w[Max(t)]>>]]
      <4> HIDE DEF g
      <4>. QED BY <2>7, <3>1
    <3>. QED BY <2>3, <3>2 DEF Folding
  <2>. QED BY <2>2, <2>3, <2>6, <2>8 DEF w
<1>3. T = Seq(B)
  <2>1. T \in SUBSET Seq(B) /\ \A u \in T, b \in B : Append(u, b) \in T
    BY <1>2
  <2> HIDE DEF T
  <2>. QED BY <1>1, <2>1, SeqSet
<1>. QED BY <1>3

\* fold[s] is what some f makes of s that does as F on what it reaches.
FoldsAs(fold, F, x, S, B) ==
  \A s \in Seq(B) : \E f :
    /\ fold[s] = f[DOMAIN s] /\ f[{}] = x
    /\ \A t \in SUBSET DOMAIN s : t # {} /\ f[t \ {Max(t)}] \in S =>
         f[t] = F[<<f[t \ {Max(t)}], s[Max(t)]>>]

\* Then nothing makes x, and one element more what F makes of it.
Folds(fold, F, x, S, B) ==
  /\ fold[<< >>] = x /\ \A s \in Seq(B) : fold[s] \in S
  /\ \A s \in Seq(B), b \in B : fold[Append(s, b)] = F[<<fold[s], b>>]

\* A fold is then worked out one element after the other.
LEMMA FoldSteps ==
  ASSUME NEW S, NEW B, NEW F \in [S \X B -> S], NEW x \in S, NEW fold,
         FoldsAs(fold, F, x, S, B)
  PROVE  Folds(fold, F, x, S, B)
<1> DEFINE Does(f, s) == /\ fold[s] = f[DOMAIN s] /\ f[{}] = x
                         /\ \A t \in SUBSET DOMAIN s : t # {} /\ f[t \ {Max(t)}] \in S =>
                              f[t] = F[<<f[t \ {Max(t)}], s[Max(t)]>>]
<1>1. ASSUME NEW s \in Seq(B), NEW f, Does(f, s)
      PROVE  /\ fold[s] = f[1..Len(s)] /\ f[1..0] = x
             /\ \A k \in 0..Len(s) : f[1..k] \in S
             /\ \A k \in Nat : k + 1 <= Len(s) => f[1..(k + 1)] = F[<<f[1..k], s[k + 1]>>]
  <2>1. Len(s) \in Nat /\ DOMAIN s = 1..Len(s) /\ \A i \in 1..Len(s) : s[i] \in B
    BY LenProperties, ElementOfSeq
  <2>2. fold[s] = f[1..Len(s)] /\ f[1..0] = x
    BY <1>1, <2>1, MaxOfFirst
  <2>3. ASSUME NEW k \in Nat, k + 1 <= Len(s), f[1..k] \in S
        PROVE  f[1..(k + 1)] = F[<<f[1..k], s[k + 1]>>] /\ f[1..(k + 1)] \in S
    <3> DEFINE t == 1..(k + 1)
    <3>1. t \in SUBSET DOMAIN s /\ t # {} /\ Max(t) = k + 1 /\ t \ {k + 1} = 1..k
      <4>1. t # {} /\ Max(t) = k + 1 /\ t \ {k + 1} = 1..k
        BY <2>3, MaxOfFirst
      <4>2. t \subseteq 1..Len(s)
        BY <2>1, <2>3
      <4>. QED BY <2>1, <4>1, <4>2
    <3> HIDE DEF t
    <3>2. f[t] = F[<<f[1..k], s[k + 1]>>]
      BY <1>1, <2>3, <3>1
    <3>3. s[k + 1] \in B
      BY <2>1, <2>3
    <3>. QED BY <2>3, <3>2, <3>3 DEF t
  <2> DEFINE T == {k \in Nat : k <= Len(s) => f[1..k] \in S}
  <2>4. 0 \in T
    BY <2>2
  <2>5. ASSUME NEW k \in T PROVE k + 1 \in T
    <3> SUFFICES ASSUME k + 1 <= Len(s) PROVE f[1..(k + 1)] \in S
      OBVIOUS
    <3>1. k \in Nat /\ k <= Len(s)
      BY <2>1
    <3>. QED BY <2>3, <3>1
  <2>6. T = Nat
    <3>1. T \in SUBSET Nat
      OBVIOUS
    <3> HIDE DEF T
    <3>. QED BY <2>4, <2>5, <3>1, NatSet
  <2>7. \A k \in 0..Len(s) : f[1..k] \in S
    BY <2>1, <2>6
  <2>. QED BY <2>1, <2>2, <2>3, <2>7
<1>2. \A s \in Seq(B) : \E f : Does(f, s)
  BY DEF FoldsAs
<1> HIDE DEF Does
<1>3. fold[<< >>] = x
  <2>1. << >> \in Seq(B) /\ 1..Len(<< >>) = 1..0
    BY EmptySeq
  <2>2. PICK f : Does(f, << >>)
    BY <1>2, <2>1
  <2>3. fold[<< >>] = f[1..Len(<< >>)] /\ f[1..0] = x
    BY <1>1, <2>1, <2>2
  <2>. QED BY <2>1, <2>3
<1>4. \A s \in Seq(B) : fold[s] \in S
  <2>1. \A s \in Seq(B) : Len(s) \in 0..Len(s)
    BY LenProperties
  <2>. QED BY <1>1, <1>2, <2>1
<1>5. ASSUME NEW s \in Seq(B), NEW b \in B
      PROVE  fold[Append(s, b)] = F[<<fold[s], b>>]
  <2> DEFINE n == Len(s)
             w == Append(s, b)
  <2>1. /\ n \in Nat /\ w \in Seq(B) /\ Len(w) = n + 1 /\ w[n + 1] = b
        /\ \A i \in 1..n : w[i] = s[i]
    BY AppendProperties, LenProperties
  <2> HIDE DEF w
  <2>2. PICK f : Does(f, s)
    BY <1>2
  <2>3. PICK g : Does(g, w)
    BY <1>2, <2>1
  <2>4. /\ fold[s] = f[1..n] /\ f[1..0] = x
        /\ \A k \in Nat : k + 1 <= n => f[1..(k + 1)] = F[<<f[1..k], s[k + 1]>>]
    BY <1>1, <2>2
  <2>5. /\ fold[w] = g[1..(n + 1)] /\ g[1..0] = x
        /\ \A k \in Nat : k + 1 <= n + 1 => g[1..(k + 1)] = F[<<g[1..k], w[k + 1]>>]
    BY <1>1, <2>1, <2>3
  <2> DEFINE T == {k \in Nat : k <= n => f[1..k] = g[1..k]}
  <2>6. 0 \in T
    BY <2>4, <2>5
  <2>7. ASSUME NEW k \in T PROVE k + 1 \in T
    <3> SUFFICES ASSUME k + 1 <= n PROVE f[1..(k + 1)] = g[1..(k + 1)]
      OBVIOUS
    <3>1. k \in Nat /\ k + 1 <= n + 1 /\ w[k + 1] = s[k + 1] /\ f[1..k] = g[1..k]
      BY <2>1
    <3>. QED BY <2>4, <2>5, <3>1
  <2>8. T = Nat
    <3>1. T \in SUBSET Nat
      OBVIOUS
    <3> HIDE DEF T
    <3>. QED BY <2>6, <2>7, <3>1, NatSet
  <2>9. f[1..n] = g[1..n]
    BY <2>1, <2>8
  <2>10. g[1..(n + 1)] = F[<<g[1..n], w[n + 1]>>]
    <3>1. n \in Nat /\ n + 1 <= n + 1
      BY <2>1
    <3> HIDE DEF n
    <3>. QED BY <2>5, <3>1
  <2>. QED BY <2>1, <2>4, <2>5, <2>9, <2>10 DEF w
<1>. QED BY <1>3, <1>4, <1>5 DEF Folds

-----------------------------------------------------------------------------
(* Devices, their answers, and what Same says of two of them: that what was*)
(* answered before makes no difference.                                    *)

\* The texts that only answers are made of (console texts of sim.rs).
Fixed == {"CRLF", "RUB", "^C", "$ ", "=> ", "$", " ", "=", "2", "bootdelay", "OK", "ERROR",
          "environment", "U-Boot", "not defined: ", "unknown: "}
\* What answers are written in: typed bytes, fixed texts and numbers, the last as
\* a child writes them and as `$?` shows them.
Token == Key \cup Fixed \cup Nat \cup {Digits(n) : n \in Nat}
Text  == Seq(Token)
Env   == UNION {[D -> Text] : D \in SUBSET Text}
Device == [kind : Kinds, line : Seq(Key), was_cr : BOOLEAN, dead : BOOLEAN,
           status : Nat, env : Env]
Answers == [device : Device, out : Text]

\* d is e with o answered before; both are of m's kind, and their line is m's.
Same(o, m, d, e) == /\ o \in Text /\ d \in Answers /\ e \in Answers
                    /\ d.device = e.device /\ d.out = o \o e.out
                    /\ d.device.kind = m.kind /\ d.device.line = m.line

\* Every answer is the same as itself with nothing before it.
LEMMA SameType ==
  ASSUME NEW d \in Answers
  PROVE  Same(<< >>, d.device, d, d)
<1>1. << >> \in Text /\ d.out \in Text
  BY EmptySeq DEF Text, Answers
<1>2. << >> \o d.out = d.out
  BY <1>1, ConcatEmptySeq DEF Text
<1>. QED BY <1>1, <1>2 DEF Same

\* It stays the same when both answer x,
LEMMA AnsweredSame ==
  ASSUME NEW o, NEW m, NEW d, NEW e, Same(o, m, d, e), NEW x \in Text
  PROVE  Same(o, m, Answered(d, x), Answered(e, x))
<1>1. /\ o \in Text /\ d.out \in Text /\ e.out \in Text /\ d.device \in Device
      /\ d.device = e.device /\ d.out = o \o e.out
      /\ d \in Answers /\ e \in Answers
      /\ d.device.kind = m.kind /\ d.device.line = m.line
  BY DEF Same, Answers
<1>2. d.out \o x \in Text /\ e.out \o x \in Text
  BY <1>1, ConcatProperties DEF Text
<1>3. (o \o e.out) \o x = o \o (e.out \o x)
  <2>1. Associative(Token)
    BY Regrouped, Zenon
  <2>. QED BY <1>1, <2>1, Zenon DEF Associative, Text
<1>4. /\ Answered(d, x) = [device |-> d.device, out |-> d.out \o x]
      /\ Answered(e, x) = [device |-> e.device, out |-> e.out \o x]
  <2>1. \A a \in Answers : \A z : [a EXCEPT !.out = z] = [device |-> a.device, out |-> z]
    BY DEF Answers
  <2>. QED BY <1>1, <2>1, Zenon DEF Answered
<1> DEFINE dd == d.device
           ed == e.device
           dx == d.out \o x
           ex == e.out \o x
<1>5. /\ dd.kind = m.kind /\ dd.line = m.line
      /\ dd \in Device /\ dd = ed /\ dx \in Text /\ ex \in Text /\ dx = o \o ex
  BY <1>1, <1>2, <1>3
<1>6. Answered(d, x) = [device |-> dd, out |-> dx] /\ Answered(e, x) = [device |-> ed, out |-> ex]
  BY <1>4
<1> HIDE DEF dd, ed, dx, ex
<1>. QED BY <1>1, <1>5, <1>6 DEF Same, Answers

\* or when the status of both becomes s.
LEMMA StatusSame ==
  ASSUME NEW o, NEW m, NEW d, NEW e, Same(o, m, d, e), NEW s \in Nat
  PROVE  Same(o, m, Status(d, s), Status(e, s))
<1>1. /\ o \in Text /\ d \in Answers /\ e \in Answers /\ d.device \in Device
      /\ d.device = e.device /\ d.out = o \o e.out
      /\ d.device.kind = m.kind /\ d.device.line = m.line
  BY DEF Same, Answers
<1> DEFINE dev == [d.device EXCEPT !.status = s]
<1>2. dev \in Device /\ dev.kind = m.kind /\ dev.line = m.line
  BY <1>1 DEF Device
<1>3. Status(d, s) = [d EXCEPT !.device = dev] /\ Status(e, s) = [e EXCEPT !.device = dev]
  BY <1>1 DEF Status, Answers
<1> HIDE DEF dev
<1>. QED BY <1>1, <1>2, <1>3 DEF Same, Answers

-----------------------------------------------------------------------------
(* The folds of the presets, unfolded.                                     *)

\* PrintVar for one name after the other.
PrintVarAll(x, s) == FoldLeft(PrintVar, x, s)

\* f is the function in terms of which FoldLeft(PrintVar, x, s) is defined.
PrintVarIter(f, x, s) ==
  f = [t \in SUBSET DOMAIN s |->
         IF t = {} THEN x ELSE LET last == Max(t) IN PrintVar(f[t \ {last}], s[last])]

\* FoldLeft takes it at all the indices of s.
LEMMA PrintVarAllDef ==
  ASSUME NEW x, NEW s
  PROVE  PrintVarAll(x, s) = (CHOOSE f : PrintVarIter(f, x, s))[DOMAIN s]
BY Zenon DEF PrintVarAll, FoldLeft, MapThenFoldSet, PrintVarIter

\* PrintVar one element at a time: of nothing, typed, of one element more.
LEMMA PrintVarFold ==
  ASSUME \A d \in Answers, b \in Text : PrintVar(d, b) \in Answers, NEW x \in Answers
  PROVE  /\ PrintVarAll(x, << >>) = x
         /\ \A s \in Seq(Text) : PrintVarAll(x, s) \in Answers
         /\ \A s \in Seq(Text), b \in Text :
              PrintVarAll(x, Append(s, b)) = PrintVar(PrintVarAll(x, s), b)
<1> DEFINE F == [p \in Answers \X Text |-> PrintVar(p[1], p[2])]
           fold == [s \in Seq(Text) |-> PrintVarAll(x, s)]
<1>1. F \in [Answers \X Text -> Answers]
      /\ \A d \in Answers, b \in Text : F[<<d, b>>] = PrintVar(d, b)
  OBVIOUS
<1> HIDE DEF F
<1>2. ASSUME NEW s \in Seq(Text)
      PROVE  \E f : /\ fold[s] = f[DOMAIN s] /\ f[{}] = x
                    /\ \A t \in SUBSET DOMAIN s : t # {} /\ f[t \ {Max(t)}] \in Answers =>
                         f[t] = F[<<f[t \ {Max(t)}], s[Max(t)]>>]
  <2> DEFINE f == CHOOSE f : PrintVarIter(f, x, s)
  <2>1. DOMAIN s = 1..Len(s) /\ Len(s) \in Nat /\ \A i \in DOMAIN s : s[i] \in Text
    BY LenProperties, ElementOfSeq
  <2>2. \A t \in SUBSET DOMAIN s : t # {} =>
          Max(t) \in DOMAIN s /\ t \ {Max(t)} \in SUBSET DOMAIN s
    BY <2>1, MaxIsLast
  <2>3. PICK g \in [SUBSET DOMAIN s -> Answers] : Folding(g, F, x, s)
    BY <1>1, FoldingExists
  <2>4. g = [t \in SUBSET DOMAIN s |->
               IF t = {} THEN x ELSE F[<<g[t \ {Max(t)}], s[Max(t)]>>]]
    BY <2>3 DEF Folding
  <2>5. \A t \in SUBSET DOMAIN s : t # {} =>
          F[<<g[t \ {Max(t)}], s[Max(t)]>>] = PrintVar(g[t \ {Max(t)}], s[Max(t)])
    BY <1>1, <2>1, <2>2, <2>3
  <2>6. g = [t \in SUBSET DOMAIN s |->
               IF t = {} THEN x ELSE PrintVar(g[t \ {Max(t)}], s[Max(t)])]
    <3>1. [t \in SUBSET DOMAIN s |->
             IF t = {} THEN x ELSE F[<<g[t \ {Max(t)}], s[Max(t)]>>]]
            = [t \in SUBSET DOMAIN s |->
                 IF t = {} THEN x ELSE PrintVar(g[t \ {Max(t)}], s[Max(t)])]
      BY <2>5
    <3>. QED BY <2>4, <3>1, Zenon
  <2>7. PrintVarIter(g, x, s)
    BY <2>6 DEF PrintVarIter
  <2>8. PrintVarIter(f, x, s)
    BY <2>7, Zenon
  <2>9. fold[s] = f[DOMAIN s]
    <3>1. PrintVarAll(x, s) = f[DOMAIN s]
      BY PrintVarAllDef, Zenon
    <3>2. fold[s] = PrintVarAll(x, s)
      OBVIOUS
    <3>. QED BY <3>1, <3>2, Zenon
  <2> HIDE DEF f, fold
  <2>10. \A t \in SUBSET DOMAIN s :
           f[t] = IF t = {} THEN x ELSE PrintVar(f[t \ {Max(t)}], s[Max(t)])
    BY <2>8, Zenon DEF PrintVarIter
  <2>11. f[{}] = x
    BY <2>10
  <2>12. \A t \in SUBSET DOMAIN s : t # {} /\ f[t \ {Max(t)}] \in Answers =>
           f[t] = F[<<f[t \ {Max(t)}], s[Max(t)]>>]
    <3>1. \A t \in SUBSET DOMAIN s : t # {} => s[Max(t)] \in Text
      BY <2>1, <2>2
    <3>. QED BY <1>1, <2>10, <3>1
  <2>. QED BY <2>9, <2>11, <2>12, Zenon
<1>3. \A s \in Seq(Text) : fold[s] = PrintVarAll(x, s)
  OBVIOUS
<1> HIDE DEF fold
<1>8. FoldsAs(fold, F, x, Answers, Text)
  BY <1>2, Zenon DEF FoldsAs
<1>9. Folds(fold, F, x, Answers, Text)
  <2>1. F \in [Answers \X Text -> Answers] /\ x \in Answers
    BY <1>1
  <2>. QED BY <1>8, <2>1, FoldSteps, Zenon
<1>4. /\ fold[<< >>] = x /\ \A s \in Seq(Text) : fold[s] \in Answers
      /\ \A s \in Seq(Text), b \in Text : fold[Append(s, b)] = F[<<fold[s], b>>]
  BY <1>9, Zenon DEF Folds
<1>5. << >> \in Seq(Text) /\ \A s \in Seq(Text), b \in Text : Append(s, b) \in Seq(Text)
  BY AppendProperties, EmptySeq
<1>6. PrintVarAll(x, << >>) = x /\ \A s \in Seq(Text) : PrintVarAll(x, s) \in Answers
  BY <1>3, <1>4, <1>5
<1>7. ASSUME NEW s \in Seq(Text), NEW b \in Text
      PROVE  PrintVarAll(x, Append(s, b)) = PrintVar(PrintVarAll(x, s), b)
  BY <1>1, <1>3, <1>4, <1>5
<1>. QED BY <1>6, <1>7

\* The states of splitting a line and of expanding a command (SplitChar, ExpandChar).
SplitState == [cmds : Seq(Seq(Key)), cur : Seq(Key), in_s : BOOLEAN, in_d : BOOLEAN]
Expanding  == [words : Seq(Text), cur : Text, has : BOOLEAN, mode : {"bare", "single", "double"},
               dollar : {"no", "start", "name"}, name : Text]
\* SplitChar for one character of a line after the other.
SplitCharAll(x, s) == FoldLeft(SplitChar, x, s)

\* f is the function in terms of which FoldLeft(SplitChar, x, s) is defined.
SplitCharIter(f, x, s) ==
  f = [t \in SUBSET DOMAIN s |->
         IF t = {} THEN x ELSE LET last == Max(t) IN SplitChar(f[t \ {last}], s[last])]

\* FoldLeft takes it at all the indices of s.
LEMMA SplitCharAllDef ==
  ASSUME NEW x, NEW s
  PROVE  SplitCharAll(x, s) = (CHOOSE f : SplitCharIter(f, x, s))[DOMAIN s]
BY Zenon DEF SplitCharAll, FoldLeft, MapThenFoldSet, SplitCharIter

\* SplitChar one element at a time: of nothing, typed, of one element more.
LEMMA SplitCharFold ==
  ASSUME \A d \in SplitState, b \in Key : SplitChar(d, b) \in SplitState, NEW x \in SplitState
  PROVE  /\ SplitCharAll(x, << >>) = x
         /\ \A s \in Seq(Key) : SplitCharAll(x, s) \in SplitState
         /\ \A s \in Seq(Key), b \in Key :
              SplitCharAll(x, Append(s, b)) = SplitChar(SplitCharAll(x, s), b)
<1> DEFINE F == [p \in SplitState \X Key |-> SplitChar(p[1], p[2])]
           fold == [s \in Seq(Key) |-> SplitCharAll(x, s)]
<1>1. F \in [SplitState \X Key -> SplitState]
      /\ \A d \in SplitState, b \in Key : F[<<d, b>>] = SplitChar(d, b)
  OBVIOUS
<1> HIDE DEF F
<1>2. ASSUME NEW s \in Seq(Key)
      PROVE  \E f : /\ fold[s] = f[DOMAIN s] /\ f[{}] = x
                    /\ \A t \in SUBSET DOMAIN s : t # {} /\ f[t \ {Max(t)}] \in SplitState =>
                         f[t] = F[<<f[t \ {Max(t)}], s[Max(t)]>>]
  <2> DEFINE f == CHOOSE f : SplitCharIter(f, x, s)
  <2>1. DOMAIN s = 1..Len(s) /\ Len(s) \in Nat /\ \A i \in DOMAIN s : s[i] \in Key
    BY LenProperties, ElementOfSeq
  <2>2. \A t \in SUBSET DOMAIN s : t # {} =>
          Max(t) \in DOMAIN s /\ t \ {Max(t)} \in SUBSET DOMAIN s
    BY <2>1, MaxIsLast
  <2>3. PICK g \in [SUBSET DOMAIN s -> SplitState] : Folding(g, F, x, s)
    BY <1>1, FoldingExists
  <2>4. g = [t \in SUBSET DOMAIN s |->
               IF t = {} THEN x ELSE F[<<g[t \ {Max(t)}], s[Max(t)]>>]]
    BY <2>3 DEF Folding
  <2>5. \A t \in SUBSET DOMAIN s : t # {} =>
          F[<<g[t \ {Max(t)}], s[Max(t)]>>] = SplitChar(g[t \ {Max(t)}], s[Max(t)])
    BY <1>1, <2>1, <2>2, <2>3
  <2>6. g = [t \in SUBSET DOMAIN s |->
               IF t = {} THEN x ELSE SplitChar(g[t \ {Max(t)}], s[Max(t)])]
    <3>1. [t \in SUBSET DOMAIN s |->
             IF t = {} THEN x ELSE F[<<g[t \ {Max(t)}], s[Max(t)]>>]]
            = [t \in SUBSET DOMAIN s |->
                 IF t = {} THEN x ELSE SplitChar(g[t \ {Max(t)}], s[Max(t)])]
      BY <2>5
    <3>. QED BY <2>4, <3>1, Zenon
  <2>7. SplitCharIter(g, x, s)
    BY <2>6 DEF SplitCharIter
  <2>8. SplitCharIter(f, x, s)
    BY <2>7, Zenon
  <2>9. fold[s] = f[DOMAIN s]
    <3>1. SplitCharAll(x, s) = f[DOMAIN s]
      BY SplitCharAllDef, Zenon
    <3>2. fold[s] = SplitCharAll(x, s)
      OBVIOUS
    <3>. QED BY <3>1, <3>2, Zenon
  <2> HIDE DEF f, fold
  <2>10. \A t \in SUBSET DOMAIN s :
           f[t] = IF t = {} THEN x ELSE SplitChar(f[t \ {Max(t)}], s[Max(t)])
    BY <2>8, Zenon DEF SplitCharIter
  <2>11. f[{}] = x
    BY <2>10
  <2>12. \A t \in SUBSET DOMAIN s : t # {} /\ f[t \ {Max(t)}] \in SplitState =>
           f[t] = F[<<f[t \ {Max(t)}], s[Max(t)]>>]
    <3>1. \A t \in SUBSET DOMAIN s : t # {} => s[Max(t)] \in Key
      BY <2>1, <2>2
    <3>. QED BY <1>1, <2>10, <3>1
  <2>. QED BY <2>9, <2>11, <2>12, Zenon
<1>3. \A s \in Seq(Key) : fold[s] = SplitCharAll(x, s)
  OBVIOUS
<1> HIDE DEF fold
<1>8. FoldsAs(fold, F, x, SplitState, Key)
  BY <1>2, Zenon DEF FoldsAs
<1>9. Folds(fold, F, x, SplitState, Key)
  <2>1. F \in [SplitState \X Key -> SplitState] /\ x \in SplitState
    BY <1>1
  <2>. QED BY <1>8, <2>1, FoldSteps, Zenon
<1>4. /\ fold[<< >>] = x /\ \A s \in Seq(Key) : fold[s] \in SplitState
      /\ \A s \in Seq(Key), b \in Key : fold[Append(s, b)] = F[<<fold[s], b>>]
  BY <1>9, Zenon DEF Folds
<1>5. << >> \in Seq(Key) /\ \A s \in Seq(Key), b \in Key : Append(s, b) \in Seq(Key)
  BY AppendProperties, EmptySeq
<1>6. SplitCharAll(x, << >>) = x /\ \A s \in Seq(Key) : SplitCharAll(x, s) \in SplitState
  BY <1>3, <1>4, <1>5
<1>7. ASSUME NEW s \in Seq(Key), NEW b \in Key
      PROVE  SplitCharAll(x, Append(s, b)) = SplitChar(SplitCharAll(x, s), b)
  BY <1>1, <1>3, <1>4, <1>5
<1>. QED BY <1>6, <1>7

\* ExpandChar for one character of a command after the other.
ExpandCharAll(x, s, env, status) ==
  LET Char(y, c) == ExpandChar(y, c, env, status)
  IN  FoldLeft(Char, x, s)

\* f is the function in terms of which FoldLeft(ExpandChar, x, s) is defined.
ExpandCharIter(f, x, s, env, status) ==
  f = [t \in SUBSET DOMAIN s |->
         IF t = {} THEN x
         ELSE LET last == Max(t) IN ExpandChar(f[t \ {last}], s[last], env, status)]

\* FoldLeft takes it at all the indices of s.
LEMMA ExpandCharAllDef ==
  ASSUME NEW x, NEW s, NEW env, NEW status
  PROVE  ExpandCharAll(x, s, env, status)
      = (CHOOSE f : ExpandCharIter(f, x, s, env, status))[DOMAIN s]
BY Zenon DEF ExpandCharAll, FoldLeft, MapThenFoldSet, ExpandCharIter

\* ExpandChar keeps to its states.
Expands(env, status) ==
  \A d \in Expanding, b \in Key : ExpandChar(d, b, env, status) \in Expanding

\* After s comes b.
ExpandsNext(x, s, b, env, status) ==
  ExpandCharAll(x, Append(s, b), env, status)
    = ExpandChar(ExpandCharAll(x, s, env, status), b, env, status)

\* ExpandChar one element at a time: of nothing, typed, of one element more.
LEMMA ExpandCharFold ==
  ASSUME NEW env, NEW status, NEW x \in Expanding, Expands(env, status)
  PROVE  /\ ExpandCharAll(x, << >>, env, status) = x
         /\ \A s \in Seq(Key) : ExpandCharAll(x, s, env, status) \in Expanding
         /\ \A s \in Seq(Key), b \in Key : ExpandsNext(x, s, b, env, status)
<1> DEFINE F == [p \in Expanding \X Key |-> ExpandChar(p[1], p[2], env, status)]
           fold == [s \in Seq(Key) |-> ExpandCharAll(x, s, env, status)]
<1>1. F \in [Expanding \X Key -> Expanding]
      /\ \A d \in Expanding, b \in Key : F[<<d, b>>] = ExpandChar(d, b, env, status)
  BY DEF Expands
<1> HIDE DEF F
<1>2. ASSUME NEW s \in Seq(Key)
      PROVE  \E f : /\ fold[s] = f[DOMAIN s] /\ f[{}] = x
                    /\ \A t \in SUBSET DOMAIN s : t # {} /\ f[t \ {Max(t)}] \in Expanding =>
                         f[t] = F[<<f[t \ {Max(t)}], s[Max(t)]>>]
  <2> DEFINE f == CHOOSE f : ExpandCharIter(f, x, s, env, status)
  <2>1. DOMAIN s = 1..Len(s) /\ Len(s) \in Nat /\ \A i \in DOMAIN s : s[i] \in Key
    BY LenProperties, ElementOfSeq
  <2>2. \A t \in SUBSET DOMAIN s : t # {} =>
          Max(t) \in DOMAIN s /\ t \ {Max(t)} \in SUBSET DOMAIN s
    BY <2>1, MaxIsLast
  <2>3. PICK g \in [SUBSET DOMAIN s -> Expanding] : Folding(g, F, x, s)
    BY <1>1, FoldingExists
  <2>4. g = [t \in SUBSET DOMAIN s |->
               IF t = {} THEN x ELSE F[<<g[t \ {Max(t)}], s[Max(t)]>>]]
    BY <2>3 DEF Folding
  <2>5. \A t \in SUBSET DOMAIN s : t # {} =>
          F[<<g[t \ {Max(t)}], s[Max(t)]>>] = ExpandChar(g[t \ {Max(t)}], s[Max(t)], env, status)
    BY <1>1, <2>1, <2>2, <2>3
  <2>6. g = [t \in SUBSET DOMAIN s |->
               IF t = {} THEN x ELSE ExpandChar(g[t \ {Max(t)}], s[Max(t)], env, status)]
    <3>1. [t \in SUBSET DOMAIN s |->
             IF t = {} THEN x ELSE F[<<g[t \ {Max(t)}], s[Max(t)]>>]]
            = [t \in SUBSET DOMAIN s |->
                 IF t = {} THEN x ELSE ExpandChar(g[t \ {Max(t)}], s[Max(t)], env, status)]
      BY <2>5
    <3>. QED BY <2>4, <3>1, Zenon
  <2>7. ExpandCharIter(g, x, s, env, status)
    BY <2>6 DEF ExpandCharIter
  <2>8. ExpandCharIter(f, x, s, env, status)
    BY <2>7, Zenon
  <2>9. fold[s] = f[DOMAIN s]
    <3>1. ExpandCharAll(x, s, env, status) = f[DOMAIN s]
      BY ExpandCharAllDef, Zenon
    <3>2. fold[s] = ExpandCharAll(x, s, env, status)
      OBVIOUS
    <3>. QED BY <3>1, <3>2, Zenon
  <2> HIDE DEF f, fold
  <2>10. \A t \in SUBSET DOMAIN s :
           f[t] = IF t = {} THEN x ELSE ExpandChar(f[t \ {Max(t)}], s[Max(t)], env, status)
    BY <2>8, Zenon DEF ExpandCharIter
  <2>11. f[{}] = x
    BY <2>10
  <2>12. \A t \in SUBSET DOMAIN s : t # {} /\ f[t \ {Max(t)}] \in Expanding =>
           f[t] = F[<<f[t \ {Max(t)}], s[Max(t)]>>]
    <3>1. \A t \in SUBSET DOMAIN s : t # {} => s[Max(t)] \in Key
      BY <2>1, <2>2
    <3>. QED BY <1>1, <2>10, <3>1
  <2>. QED BY <2>9, <2>11, <2>12, Zenon
<1>3. \A s \in Seq(Key) : fold[s] = ExpandCharAll(x, s, env, status)
  OBVIOUS
<1> HIDE DEF fold
<1>8. FoldsAs(fold, F, x, Expanding, Key)
  BY <1>2, Zenon DEF FoldsAs
<1>9. Folds(fold, F, x, Expanding, Key)
  <2>1. F \in [Expanding \X Key -> Expanding] /\ x \in Expanding
    BY <1>1
  <2>. QED BY <1>8, <2>1, FoldSteps, Zenon
<1>4. /\ fold[<< >>] = x /\ \A s \in Seq(Key) : fold[s] \in Expanding
      /\ \A s \in Seq(Key), b \in Key : fold[Append(s, b)] = F[<<fold[s], b>>]
  BY <1>9, Zenon DEF Folds
<1>5. << >> \in Seq(Key) /\ \A s \in Seq(Key), b \in Key : Append(s, b) \in Seq(Key)
  BY AppendProperties, EmptySeq
<1>6. ExpandCharAll(x, << >>, env, status) = x
      /\ \A s \in Seq(Key) : ExpandCharAll(x, s, env, status) \in Expanding
  BY <1>3, <1>4, <1>5
<1>7. ASSUME NEW s \in Seq(Key), NEW b \in Key
      PROVE  ExpandCharAll(x, Append(s, b), env, status)
          = ExpandChar(ExpandCharAll(x, s, env, status), b, env, status)
  BY <1>1, <1>3, <1>4, <1>5
<1>. QED BY <1>6, <1>7, Zenon DEF ExpandsNext

\* RunOne for one command of a line after the other.
RunOneAll(x, s) == FoldLeft(RunOne, x, s)

\* f is the function in terms of which FoldLeft(RunOne, x, s) is defined.
RunOneIter(f, x, s) ==
  f = [t \in SUBSET DOMAIN s |->
         IF t = {} THEN x ELSE LET last == Max(t) IN RunOne(f[t \ {last}], s[last])]

\* FoldLeft takes it at all the indices of s.
LEMMA RunOneAllDef ==
  ASSUME NEW x, NEW s
  PROVE  RunOneAll(x, s) = (CHOOSE f : RunOneIter(f, x, s))[DOMAIN s]
BY Zenon DEF RunOneAll, FoldLeft, MapThenFoldSet, RunOneIter

\* RunOne one element at a time: of nothing, typed, of one element more.
LEMMA RunOneFold ==
  ASSUME \A d \in Answers, b \in Seq(Key) : RunOne(d, b) \in Answers, NEW x \in Answers
  PROVE  /\ RunOneAll(x, << >>) = x
         /\ \A s \in Seq(Seq(Key)) : RunOneAll(x, s) \in Answers
         /\ \A s \in Seq(Seq(Key)), b \in Seq(Key) :
              RunOneAll(x, Append(s, b)) = RunOne(RunOneAll(x, s), b)
<1> DEFINE F == [p \in Answers \X Seq(Key) |-> RunOne(p[1], p[2])]
           fold == [s \in Seq(Seq(Key)) |-> RunOneAll(x, s)]
<1>1. F \in [Answers \X Seq(Key) -> Answers]
      /\ \A d \in Answers, b \in Seq(Key) : F[<<d, b>>] = RunOne(d, b)
  OBVIOUS
<1> HIDE DEF F
<1>2. ASSUME NEW s \in Seq(Seq(Key))
      PROVE  \E f : /\ fold[s] = f[DOMAIN s] /\ f[{}] = x
                    /\ \A t \in SUBSET DOMAIN s : t # {} /\ f[t \ {Max(t)}] \in Answers =>
                         f[t] = F[<<f[t \ {Max(t)}], s[Max(t)]>>]
  <2> DEFINE f == CHOOSE f : RunOneIter(f, x, s)
  <2>1. DOMAIN s = 1..Len(s) /\ Len(s) \in Nat /\ \A i \in DOMAIN s : s[i] \in Seq(Key)
    BY LenProperties, ElementOfSeq
  <2>2. \A t \in SUBSET DOMAIN s : t # {} =>
          Max(t) \in DOMAIN s /\ t \ {Max(t)} \in SUBSET DOMAIN s
    BY <2>1, MaxIsLast
  <2>3. PICK g \in [SUBSET DOMAIN s -> Answers] : Folding(g, F, x, s)
    BY <1>1, FoldingExists
  <2>4. g = [t \in SUBSET DOMAIN s |->
               IF t = {} THEN x ELSE F[<<g[t \ {Max(t)}], s[Max(t)]>>]]
    BY <2>3 DEF Folding
  <2>5. \A t \in SUBSET DOMAIN s : t # {} =>
          F[<<g[t \ {Max(t)}], s[Max(t)]>>] = RunOne(g[t \ {Max(t)}], s[Max(t)])
    BY <1>1, <2>1, <2>2, <2>3
  <2>6. g = [t \in SUBSET DOMAIN s |->
               IF t = {} THEN x ELSE RunOne(g[t \ {Max(t)}], s[Max(t)])]
    <3>1. [t \in SUBSET DOMAIN s |->
             IF t = {} THEN x ELSE F[<<g[t \ {Max(t)}], s[Max(t)]>>]]
            = [t \in SUBSET DOMAIN s |->
                 IF t = {} THEN x ELSE RunOne(g[t \ {Max(t)}], s[Max(t)])]
      BY <2>5
    <3>. QED BY <2>4, <3>1, Zenon
  <2>7. RunOneIter(g, x, s)
    BY <2>6 DEF RunOneIter
  <2>8. RunOneIter(f, x, s)
    BY <2>7, Zenon
  <2>9. fold[s] = f[DOMAIN s]
    <3>1. RunOneAll(x, s) = f[DOMAIN s]
      BY RunOneAllDef, Zenon
    <3>2. fold[s] = RunOneAll(x, s)
      OBVIOUS
    <3>. QED BY <3>1, <3>2, Zenon
  <2> HIDE DEF f, fold
  <2>10. \A t \in SUBSET DOMAIN s :
           f[t] = IF t = {} THEN x ELSE RunOne(f[t \ {Max(t)}], s[Max(t)])
    BY <2>8, Zenon DEF RunOneIter
  <2>11. f[{}] = x
    BY <2>10
  <2>12. \A t \in SUBSET DOMAIN s : t # {} /\ f[t \ {Max(t)}] \in Answers =>
           f[t] = F[<<f[t \ {Max(t)}], s[Max(t)]>>]
    <3>1. \A t \in SUBSET DOMAIN s : t # {} => s[Max(t)] \in Seq(Key)
      BY <2>1, <2>2
    <3>. QED BY <1>1, <2>10, <3>1
  <2>. QED BY <2>9, <2>11, <2>12, Zenon
<1>3. \A s \in Seq(Seq(Key)) : fold[s] = RunOneAll(x, s)
  OBVIOUS
<1> HIDE DEF fold
<1>8. FoldsAs(fold, F, x, Answers, Seq(Key))
  BY <1>2, Zenon DEF FoldsAs
<1>9. Folds(fold, F, x, Answers, Seq(Key))
  <2>1. F \in [Answers \X Seq(Key) -> Answers] /\ x \in Answers
    BY <1>1
  <2>. QED BY <1>8, <2>1, FoldSteps, Zenon
<1>4. /\ fold[<< >>] = x /\ \A s \in Seq(Seq(Key)) : fold[s] \in Answers
      /\ \A s \in Seq(Seq(Key)), b \in Seq(Key) : fold[Append(s, b)] = F[<<fold[s], b>>]
  BY <1>9, Zenon DEF Folds
<1>5. << >> \in Seq(Seq(Key))
      /\ \A s \in Seq(Seq(Key)), b \in Seq(Key) : Append(s, b) \in Seq(Seq(Key))
  BY AppendProperties, EmptySeq
<1>6. RunOneAll(x, << >>) = x /\ \A s \in Seq(Seq(Key)) : RunOneAll(x, s) \in Answers
  BY <1>3, <1>4, <1>5
<1>7. ASSUME NEW s \in Seq(Seq(Key)), NEW b \in Seq(Key)
      PROVE  RunOneAll(x, Append(s, b)) = RunOne(RunOneAll(x, s), b)
  BY <1>1, <1>3, <1>4, <1>5
<1>. QED BY <1>6, <1>7

\* FeedByte for one byte after the other.
FeedByteAll(x, s) == FoldLeft(FeedByte, x, s)

\* f is the function in terms of which FoldLeft(FeedByte, x, s) is defined.
FeedByteIter(f, x, s) ==
  f = [t \in SUBSET DOMAIN s |->
         IF t = {} THEN x ELSE LET last == Max(t) IN FeedByte(f[t \ {last}], s[last])]

\* FoldLeft takes it at all the indices of s.
LEMMA FeedByteAllDef ==
  ASSUME NEW x, NEW s
  PROVE  FeedByteAll(x, s) = (CHOOSE f : FeedByteIter(f, x, s))[DOMAIN s]
BY Zenon DEF FeedByteAll, FoldLeft, MapThenFoldSet, FeedByteIter

\* FeedByte one element at a time: of nothing, typed, of one element more.
LEMMA FeedByteFold ==
  ASSUME \A d \in Answers, b \in Key : FeedByte(d, b) \in Answers, NEW x \in Answers
  PROVE  /\ FeedByteAll(x, << >>) = x
         /\ \A s \in Seq(Key) : FeedByteAll(x, s) \in Answers
         /\ \A s \in Seq(Key), b \in Key :
              FeedByteAll(x, Append(s, b)) = FeedByte(FeedByteAll(x, s), b)
<1> DEFINE F == [p \in Answers \X Key |-> FeedByte(p[1], p[2])]
           fold == [s \in Seq(Key) |-> FeedByteAll(x, s)]
<1>1. F \in [Answers \X Key -> Answers]
      /\ \A d \in Answers, b \in Key : F[<<d, b>>] = FeedByte(d, b)
  OBVIOUS
<1> HIDE DEF F
<1>2. ASSUME NEW s \in Seq(Key)
      PROVE  \E f : /\ fold[s] = f[DOMAIN s] /\ f[{}] = x
                    /\ \A t \in SUBSET DOMAIN s : t # {} /\ f[t \ {Max(t)}] \in Answers =>
                         f[t] = F[<<f[t \ {Max(t)}], s[Max(t)]>>]
  <2> DEFINE f == CHOOSE f : FeedByteIter(f, x, s)
  <2>1. DOMAIN s = 1..Len(s) /\ Len(s) \in Nat /\ \A i \in DOMAIN s : s[i] \in Key
    BY LenProperties, ElementOfSeq
  <2>2. \A t \in SUBSET DOMAIN s : t # {} =>
          Max(t) \in DOMAIN s /\ t \ {Max(t)} \in SUBSET DOMAIN s
    BY <2>1, MaxIsLast
  <2>3. PICK g \in [SUBSET DOMAIN s -> Answers] : Folding(g, F, x, s)
    BY <1>1, FoldingExists
  <2>4. g = [t \in SUBSET DOMAIN s |->
               IF t = {} THEN x ELSE F[<<g[t \ {Max(t)}], s[Max(t)]>>]]
    BY <2>3 DEF Folding
  <2>5. \A t \in SUBSET DOMAIN s : t # {} =>
          F[<<g[t \ {Max(t)}], s[Max(t)]>>] = FeedByte(g[t \ {Max(t)}], s[Max(t)])
    BY <1>1, <2>1, <2>2, <2>3
  <2>6. g = [t \in SUBSET DOMAIN s |->
               IF t = {} THEN x ELSE FeedByte(g[t \ {Max(t)}], s[Max(t)])]
    <3>1. [t \in SUBSET DOMAIN s |->
             IF t = {} THEN x ELSE F[<<g[t \ {Max(t)}], s[Max(t)]>>]]
            = [t \in SUBSET DOMAIN s |->
                 IF t = {} THEN x ELSE FeedByte(g[t \ {Max(t)}], s[Max(t)])]
      BY <2>5
    <3>. QED BY <2>4, <3>1, Zenon
  <2>7. FeedByteIter(g, x, s)
    BY <2>6 DEF FeedByteIter
  <2>8. FeedByteIter(f, x, s)
    BY <2>7, Zenon
  <2>9. fold[s] = f[DOMAIN s]
    <3>1. FeedByteAll(x, s) = f[DOMAIN s]
      BY FeedByteAllDef, Zenon
    <3>2. fold[s] = FeedByteAll(x, s)
      OBVIOUS
    <3>. QED BY <3>1, <3>2, Zenon
  <2> HIDE DEF f, fold
  <2>10. \A t \in SUBSET DOMAIN s :
           f[t] = IF t = {} THEN x ELSE FeedByte(f[t \ {Max(t)}], s[Max(t)])
    BY <2>8, Zenon DEF FeedByteIter
  <2>11. f[{}] = x
    BY <2>10
  <2>12. \A t \in SUBSET DOMAIN s : t # {} /\ f[t \ {Max(t)}] \in Answers =>
           f[t] = F[<<f[t \ {Max(t)}], s[Max(t)]>>]
    <3>1. \A t \in SUBSET DOMAIN s : t # {} => s[Max(t)] \in Key
      BY <2>1, <2>2
    <3>. QED BY <1>1, <2>10, <3>1
  <2>. QED BY <2>9, <2>11, <2>12, Zenon
<1>3. \A s \in Seq(Key) : fold[s] = FeedByteAll(x, s)
  OBVIOUS
<1> HIDE DEF fold
<1>8. FoldsAs(fold, F, x, Answers, Key)
  BY <1>2, Zenon DEF FoldsAs
<1>9. Folds(fold, F, x, Answers, Key)
  <2>1. F \in [Answers \X Key -> Answers] /\ x \in Answers
    BY <1>1
  <2>. QED BY <1>8, <2>1, FoldSteps, Zenon
<1>4. /\ fold[<< >>] = x /\ \A s \in Seq(Key) : fold[s] \in Answers
      /\ \A s \in Seq(Key), b \in Key : fold[Append(s, b)] = F[<<fold[s], b>>]
  BY <1>9, Zenon DEF Folds
<1>5. << >> \in Seq(Key) /\ \A s \in Seq(Key), b \in Key : Append(s, b) \in Seq(Key)
  BY AppendProperties, EmptySeq
<1>6. FeedByteAll(x, << >>) = x /\ \A s \in Seq(Key) : FeedByteAll(x, s) \in Answers
  BY <1>3, <1>4, <1>5
<1>7. ASSUME NEW s \in Seq(Key), NEW b \in Key
      PROVE  FeedByteAll(x, Append(s, b)) = FeedByte(FeedByteAll(x, s), b)
  BY <1>1, <1>3, <1>4, <1>5
<1>. QED BY <1>6, <1>7

\* What a screen can show.
Shown == Seq(Token \cup {"damage"})

\* ShowChar for one token after the other.
ShowCharAll(x, s) == FoldLeft(ShowChar, x, s)

\* f is the function in terms of which FoldLeft(ShowChar, x, s) is defined.
ShowCharIter(f, x, s) ==
  f = [t \in SUBSET DOMAIN s |->
         IF t = {} THEN x ELSE LET last == Max(t) IN ShowChar(f[t \ {last}], s[last])]

\* FoldLeft takes it at all the indices of s.
LEMMA ShowCharAllDef ==
  ASSUME NEW x, NEW s
  PROVE  ShowCharAll(x, s) = (CHOOSE f : ShowCharIter(f, x, s))[DOMAIN s]
BY Zenon DEF ShowCharAll, FoldLeft, MapThenFoldSet, ShowCharIter

\* ShowChar one element at a time: of nothing, typed, of one element more.
LEMMA ShowCharFold ==
  ASSUME \A d \in Shown, b \in Token : ShowChar(d, b) \in Shown, NEW x \in Shown
  PROVE  /\ ShowCharAll(x, << >>) = x
         /\ \A s \in Seq(Token) : ShowCharAll(x, s) \in Shown
         /\ \A s \in Seq(Token), b \in Token :
              ShowCharAll(x, Append(s, b)) = ShowChar(ShowCharAll(x, s), b)
<1> DEFINE F == [p \in Shown \X Token |-> ShowChar(p[1], p[2])]
           fold == [s \in Seq(Token) |-> ShowCharAll(x, s)]
<1>1. F \in [Shown \X Token -> Shown]
      /\ \A d \in Shown, b \in Token : F[<<d, b>>] = ShowChar(d, b)
  OBVIOUS
<1> HIDE DEF F
<1>2. ASSUME NEW s \in Seq(Token)
      PROVE  \E f : /\ fold[s] = f[DOMAIN s] /\ f[{}] = x
                    /\ \A t \in SUBSET DOMAIN s : t # {} /\ f[t \ {Max(t)}] \in Shown =>
                         f[t] = F[<<f[t \ {Max(t)}], s[Max(t)]>>]
  <2> DEFINE f == CHOOSE f : ShowCharIter(f, x, s)
  <2>1. DOMAIN s = 1..Len(s) /\ Len(s) \in Nat /\ \A i \in DOMAIN s : s[i] \in Token
    BY LenProperties, ElementOfSeq
  <2>2. \A t \in SUBSET DOMAIN s : t # {} =>
          Max(t) \in DOMAIN s /\ t \ {Max(t)} \in SUBSET DOMAIN s
    BY <2>1, MaxIsLast
  <2>3. PICK g \in [SUBSET DOMAIN s -> Shown] : Folding(g, F, x, s)
    BY <1>1, FoldingExists
  <2>4. g = [t \in SUBSET DOMAIN s |->
               IF t = {} THEN x ELSE F[<<g[t \ {Max(t)}], s[Max(t)]>>]]
    BY <2>3 DEF Folding
  <2>5. \A t \in SUBSET DOMAIN s : t # {} =>
          F[<<g[t \ {Max(t)}], s[Max(t)]>>] = ShowChar(g[t \ {Max(t)}], s[Max(t)])
    BY <1>1, <2>1, <2>2, <2>3
  <2>6. g = [t \in SUBSET DOMAIN s |->
               IF t = {} THEN x ELSE ShowChar(g[t \ {Max(t)}], s[Max(t)])]
    <3>1. [t \in SUBSET DOMAIN s |->
             IF t = {} THEN x ELSE F[<<g[t \ {Max(t)}], s[Max(t)]>>]]
            = [t \in SUBSET DOMAIN s |->
                 IF t = {} THEN x ELSE ShowChar(g[t \ {Max(t)}], s[Max(t)])]
      BY <2>5
    <3>. QED BY <2>4, <3>1, Zenon
  <2>7. ShowCharIter(g, x, s)
    BY <2>6 DEF ShowCharIter
  <2>8. ShowCharIter(f, x, s)
    BY <2>7, Zenon
  <2>9. fold[s] = f[DOMAIN s]
    <3>1. ShowCharAll(x, s) = f[DOMAIN s]
      BY ShowCharAllDef, Zenon
    <3>2. fold[s] = ShowCharAll(x, s)
      OBVIOUS
    <3>. QED BY <3>1, <3>2, Zenon
  <2> HIDE DEF f, fold
  <2>10. \A t \in SUBSET DOMAIN s :
           f[t] = IF t = {} THEN x ELSE ShowChar(f[t \ {Max(t)}], s[Max(t)])
    BY <2>8, Zenon DEF ShowCharIter
  <2>11. f[{}] = x
    BY <2>10
  <2>12. \A t \in SUBSET DOMAIN s : t # {} /\ f[t \ {Max(t)}] \in Shown =>
           f[t] = F[<<f[t \ {Max(t)}], s[Max(t)]>>]
    <3>1. \A t \in SUBSET DOMAIN s : t # {} => s[Max(t)] \in Token
      BY <2>1, <2>2
    <3>. QED BY <1>1, <2>10, <3>1
  <2>. QED BY <2>9, <2>11, <2>12, Zenon
<1>3. \A s \in Seq(Token) : fold[s] = ShowCharAll(x, s)
  OBVIOUS
<1> HIDE DEF fold
<1>8. FoldsAs(fold, F, x, Shown, Token)
  BY <1>2, Zenon DEF FoldsAs
<1>9. Folds(fold, F, x, Shown, Token)
  <2>1. F \in [Shown \X Token -> Shown] /\ x \in Shown
    BY <1>1
  <2>. QED BY <1>8, <2>1, FoldSteps, Zenon
<1>4. /\ fold[<< >>] = x /\ \A s \in Seq(Token) : fold[s] \in Shown
      /\ \A s \in Seq(Token), b \in Token : fold[Append(s, b)] = F[<<fold[s], b>>]
  BY <1>9, Zenon DEF Folds
<1>5. << >> \in Seq(Token) /\ \A s \in Seq(Token), b \in Token : Append(s, b) \in Seq(Token)
  BY AppendProperties, EmptySeq
<1>6. ShowCharAll(x, << >>) = x /\ \A s \in Seq(Token) : ShowCharAll(x, s) \in Shown
  BY <1>3, <1>4, <1>5
<1>7. ASSUME NEW s \in Seq(Token), NEW b \in Token
      PROVE  ShowCharAll(x, Append(s, b)) = ShowChar(ShowCharAll(x, s), b)
  BY <1>1, <1>3, <1>4, <1>5
<1>. QED BY <1>6, <1>7

-----------------------------------------------------------------------------
(* Types of what a line is made into.                                      *)

\* A byte, a name and what answers are written in.
LEMMA Tokens ==
  /\ Key \subseteq Token /\ Nat \subseteq Token /\ Fixed \subseteq Token
  /\ Seq(Key) \subseteq Text /\ << >> \in Text
  /\ \A n \in Nat : Digits(n) \in Token
  /\ \A x \in Token : <<x>> \in Text
<1>1. Key \subseteq Token /\ Fixed \subseteq Token /\ Nat \subseteq Token
      /\ \A n \in Nat : Digits(n) \in Token
  BY Zenon DEF Token
<1>2. Seq(Key) \subseteq Seq(Token)
  <2>1. \A A, B : A \subseteq B => Seq(A) \subseteq Seq(B)
    OBVIOUS
  <2>. QED BY <1>1, <2>1
<1>3. \A S : \A x \in S : <<x>> \in Seq(S)
  OBVIOUS
<1>. QED BY <1>1, <1>2, <1>3, EmptySeq, Zenon DEF Text

\* The names and values of variables are texts.
LEMMA EnvValue ==
  ASSUME NEW env \in Env, NEW n \in DOMAIN env
  PROVE  n \in Text /\ env[n] \in Text
BY DEF Env

\* A function of texts to texts is such an environment.
LEMMA EnvMade ==
  ASSUME NEW D \in SUBSET Text, NEW f \in [D -> Text]
  PROVE  f \in Env
BY DEF Env

\* A device starts as one, and its prompt is a text (run_preset, Preset::prompt).
LEMMA NewDeviceType ==
  ASSUME NEW kind \in Kinds
  PROVE  NewDevice(kind) \in Device /\ Prompt(kind) \in Text
<1> DEFINE D == IF kind = "uboot" THEN {BootDelay} ELSE {}
           env == [n \in D |-> <<"2">>]
<1>1. /\ BootDelay \in Text /\ <<"2">> \in Text /\ <<"$ ">> \in Text /\ <<"=> ">> \in Text
      /\ << >> \in Text
  <2>1. {"bootdelay", "2", "$ ", "=> "} \subseteq Fixed
    BY Zenon DEF Fixed
  <2>2. \A x \in Fixed : <<x>> \in Text
    BY Tokens
  <2>. QED BY <2>1, <2>2, Tokens, Zenon DEF BootDelay
<1>2. D \in SUBSET Text /\ env \in [D -> Text]
  BY <1>1
<1>3. env \in Env
  BY <1>2, EnvMade, Zenon
<1>4. << >> \in Seq(Key)
  BY EmptySeq
<1> HIDE DEF env
<1>5. NewDevice(kind) = [kind |-> kind, line |-> << >>, was_cr |-> FALSE, dead |-> FALSE,
                         status |-> 0, env |-> env]
  BY DEF NewDevice, env
<1>6. NewDevice(kind) \in Device
  BY <1>3, <1>4, <1>5 DEF Device
<1>7. Prompt(kind) \in Text
  BY <1>1 DEF Prompt
<1>. QED BY <1>6, <1>7

\* Splitting keeps to its states.
LEMMA SplitType ==
  ASSUME NEW s \in SplitState, NEW c \in Key
  PROVE  SplitChar(s, c) \in SplitState
<1>1. s.cmds \in Seq(Seq(Key)) /\ s.cur \in Seq(Key) /\ s.in_s \in BOOLEAN /\ s.in_d \in BOOLEAN
  BY DEF SplitState
<1>2. << >> \in Seq(Key) /\ Append(s.cmds, s.cur) \in Seq(Seq(Key))
      /\ Append(s.cur, c) \in Seq(Key)
  BY <1>1, EmptySeq, AppendProperties
<1>. QED BY <1>1, <1>2 DEF SplitChar, SplitState

\* A line is split into commands, each of the bytes that were typed.
LEMMA SplitCommandsType ==
  ASSUME NEW line \in Seq(Key)
  PROVE  SplitCommands(line) \in Seq(Seq(Key))
<1> DEFINE end == SplitCharAll(SplitStart, line)
           cmds == Append(end.cmds, end.cur)
           inked == {cmd \in ToSet(cmds) : ToSet(cmd) \ {" "} # {}}
<1>1. SplitStart \in SplitState
  BY EmptySeq DEF SplitStart, SplitState
<1>2. end \in SplitState
  BY <1>1, SplitType, SplitCharFold
<1> HIDE DEF end
<1>3. cmds \in Seq(Seq(Key))
  BY <1>2, AppendProperties DEF SplitState
<1>4. SplitCommands(line) = NotBlank(cmds)
  BY Zenon DEF SplitCommands, SplitCharAll, end
<1> HIDE DEF cmds
<1>5. NotBlank(cmds) = Kept(cmds, inked)
  BY Zenon DEF NotBlank
<1> HIDE DEF inked
<1>6. Kept(cmds, inked) \in Seq(Seq(Key))
  BY <1>3, KeptType
<1>. QED BY <1>4, <1>5, <1>6

\* Expanding keeps to its states: Push,
LEMMA PushType ==
  ASSUME NEW x \in Expanding, NEW s \in Text
  PROVE  Push(x, s) \in Expanding
<1>1. x.cur \o s \in Text
  BY ConcatProperties DEF Expanding, Text
<1>2. (x.has \/ s # << >>) \in BOOLEAN
  OBVIOUS
<1>3. \A c \in Text, h \in BOOLEAN :
        [x EXCEPT !.cur = c, !.has = h, !.dollar = "no"] \in Expanding
  BY DEF Expanding
<1>. QED BY <1>1, <1>2, <1>3, Zenon DEF Push

\* a dollar that waited,
LEMMA SettledType ==
  ASSUME NEW x \in Expanding, NEW env \in Env
  PROVE  Settled(x, env) \in Expanding
<1>1. <<"$">> \in Text
  BY Tokens DEF Fixed
<1>2. << >> \in Text
  BY Tokens
<1>3. \A n \in DOMAIN env : env[n] \in Text
  BY EnvValue
<1> DEFINE value == IF x.name \in DOMAIN env THEN env[x.name] ELSE << >>
<1>4. value \in Text
  BY <1>2, <1>3
<1> HIDE DEF value
<1>5. Settled(x, env) \in {Push(x, <<"$">>), Push(x, value), x}
  BY DEF Settled, value
<1>6. Push(x, <<"$">>) \in Expanding /\ Push(x, value) \in Expanding
  BY <1>1, <1>4, PushType, Zenon
<1>. QED BY <1>5, <1>6, Zenon

\* a word that ends,
LEMMA EndWordType ==
  ASSUME NEW x \in Expanding
  PROVE  EndWord(x) \in Expanding
<1>1. x.words \in Seq(Text) /\ x.cur \in Text /\ << >> \in Text
  BY Tokens DEF Expanding
<1>2. Append(x.words, x.cur) \in Seq(Text)
  BY <1>1, AppendProperties
<1>. QED BY <1>1, <1>2 DEF EndWord, Expanding

\* quotes and dollars,
LEMMA QuotedType ==
  ASSUME NEW x \in Expanding
  PROVE  /\ \A mode \in {"single", "double"} : Quoted(x, mode) \in Expanding
         /\ Dollar(x) \in Expanding /\ [x EXCEPT !.mode = "bare"] \in Expanding
<1>1. << >> \in Text
  BY Tokens
<1>. QED BY <1>1 DEF Quoted, Dollar, Expanding

\* a name that goes on,
LEMMA NamedType ==
  ASSUME NEW x \in Expanding, NEW c \in Key
  PROVE  [x EXCEPT !.dollar = "name", !.name = Append(@, c)] \in Expanding
<1>1. x.name \in Text /\ c \in Token
  BY Tokens DEF Expanding
<1>2. Append(x.name, c) \in Text
  BY <1>1, AppendProperties DEF Text
<1>. QED BY <1>2 DEF Expanding

\* hence any character.
LEMMA ExpandType ==
  ASSUME NEW x \in Expanding, NEW c \in Key, NEW env \in Env, NEW status \in Nat
  PROVE  ExpandChar(x, c, env, status) \in Expanding
<1> DEFINE y == Settled(x, env)
<1>1. <<c>> \in Text /\ <<Digits(status)>> \in Text
  BY Tokens
<1>2. y \in Expanding
  BY SettledType
<1> DEFINE z == Push(x, <<Digits(status)>>)
           n == [x EXCEPT !.dollar = "name", !.name = Append(@, c)]
           p == Push(y, <<c>>)
           m == [y EXCEPT !.mode = "bare"]
<1> HIDE DEF y
<1>3. z \in Expanding /\ p \in Expanding
  BY <1>1, <1>2, PushType, Zenon
<1>4. n \in Expanding
  BY NamedType, Zenon
<1>5. m \in Expanding /\ Dollar(y) \in Expanding
  BY <1>2, QuotedType, Zenon
<1>6. Quoted(y, "single") \in Expanding /\ Quoted(y, "double") \in Expanding
  BY <1>2, QuotedType
<1>7. EndWord(y) \in Expanding
  BY <1>2, EndWordType, Zenon
<1>8. ExpandChar(x, c, env, status) \in
        {z, n, p, m, Dollar(y), Quoted(y, "single"), Quoted(y, "double"), EndWord(y)}
  BY Zenon DEF ExpandChar, y
<1> HIDE DEF z, n, p, m
<1>. QED BY <1>3, <1>4, <1>5, <1>6, <1>7, <1>8, Zenon

\* A command is expanded into words.
LEMMA ExpandWordsType ==
  ASSUME NEW cmd \in Seq(Key), NEW env \in Env, NEW status \in Nat
  PROVE  ExpandWords(cmd, env, status) \in Seq(Text)
<1> DEFINE end == ExpandCharAll(ExpandStart, cmd, env, status)
           x == EndWord(Settled(end, env))
<1>1. ExpandStart \in Expanding
  BY EmptySeq, Tokens DEF ExpandStart, Expanding
<1>2. end \in Expanding
  <2>1. Expands(env, status)
    BY ExpandType DEF Expands
  <2>. QED BY <1>1, <2>1, ExpandCharFold
<1>3. ExpandWords(cmd, env, status) = x.words
  BY Zenon DEF ExpandWords, ExpandCharAll
<1> HIDE DEF end
<1>4. Settled(end, env) \in Expanding
  BY <1>2, SettledType
<1>5. x \in Expanding
  BY <1>4, EndWordType, Zenon
<1> HIDE DEF x
<1>. QED BY <1>3, <1>5 DEF Expanding

\* Words with blanks between them are a text.
LEMMA SpacedType ==
  ASSUME NEW words \in Seq(Text)
  PROVE  Spaced(words) \in Text
<1> DEFINE parts == [i \in DOMAIN words |-> IF i = 1 THEN words[i] ELSE <<" ">> \o words[i]]
<1>1. <<" ">> \in Text
  BY Tokens DEF Fixed
<1>2. DOMAIN words = 1..Len(words) /\ Len(words) \in Nat
      /\ \A i \in DOMAIN words : words[i] \in Text
  BY LenProperties, ElementOfSeq
<1>3. \A t \in Text : <<" ">> \o t \in Text
  BY <1>1, ConcatProperties DEF Text
<1>4. \A i \in DOMAIN words : parts[i] \in Text
  BY <1>2, <1>3
<1>5. parts \in Seq(Seq(Token))
  <2>1. parts \in [1..Len(words) -> Text]
    BY <1>2, <1>4
  <2>2. Len(words) \in Nat
    BY <1>2
  <2> HIDE DEF parts
  <2>3. \A S : \A f \in [1..Len(words) -> S] : f \in Seq(S)
    BY <2>2
  <2>. QED BY <2>1, <2>3 DEF Text
<1> HIDE DEF parts
<1>6. FlattenSeq(parts) \in Text
  BY <1>5, FlatType DEF Text
<1>. QED BY <1>6 DEF Spaced, parts

-----------------------------------------------------------------------------
(* What commands and lines do does not depend on what was answered before. *)

\* What Same says, with the parts of the device.
LEMMA SameFacts ==
  ASSUME NEW o, NEW m, NEW d, NEW e, Same(o, m, d, e)
  PROVE  /\ d \in Answers /\ e \in Answers /\ o \in Text /\ d.device \in Device
         /\ d.device = e.device /\ d.out \in Text /\ e.out \in Text /\ d.out = o \o e.out
         /\ d.device.env \in Env /\ d.device.status \in Nat /\ d.device.line \in Seq(Key)
         /\ d.device.kind \in Kinds /\ d.device.dead \in BOOLEAN
         /\ d.device.kind = m.kind /\ d.device.line = m.line
BY DEF Same, Answers, Device

\* What printenv, setenv and each command do and answer does not depend on what was
\* answered before: `printenv name`,
LEMMA PrintVarSame ==
  ASSUME NEW o, NEW m, NEW d, NEW e, Same(o, m, d, e), NEW name \in Text
  PROVE  Same(o, m, PrintVar(d, name), PrintVar(e, name))
<1> DEFINE env == d.device.env
           defined == name \o <<"=">> \o env[name] \o <<"CRLF">>
           missing == <<"not defined: ">> \o name \o <<"CRLF">>
<1>1. d.device.env = e.device.env /\ env \in Env
  BY SameFacts
<1>2. \A a, b \in Text : a \o b \in Text
  BY ConcatProperties DEF Text
<1>3. <<"=">> \in Text /\ <<"CRLF">> \in Text /\ <<"not defined: ">> \in Text
  BY Tokens DEF Fixed
<1> HIDE DEF env
<1>4. missing \in Text
  BY <1>2, <1>3
<1>5. name \in DOMAIN env => defined \in Text
  <2>1. name \in DOMAIN env => env[name] \in Text
    BY <1>1, EnvValue
  <2>. QED BY <1>2, <1>3, <2>1
<1>6. /\ PrintVar(d, name) = IF name \in DOMAIN env THEN Answered(d, defined)
                             ELSE Status(Answered(d, missing), 1)
      /\ PrintVar(e, name) = IF name \in DOMAIN env THEN Answered(e, defined)
                             ELSE Status(Answered(e, missing), 1)
  BY <1>1, Zenon DEF PrintVar, env
<1> HIDE DEF defined, missing
<1>7. name \in DOMAIN env => Same(o, m, Answered(d, defined), Answered(e, defined))
  BY <1>5, AnsweredSame, Zenon
<1>8. Same(o, m, Answered(d, missing), Answered(e, missing))
  BY <1>4, AnsweredSame, Zenon
<1>9. 1 \in Nat
  OBVIOUS
<1>10. Same(o, m, Status(Answered(d, missing), 1), Status(Answered(e, missing), 1))
  BY <1>8, <1>9, StatusSame, Zenon
<1>. QED BY <1>6, <1>7, <1>10, Zenon

\* several names,
LEMMA PrintVarsSame ==
  ASSUME NEW o, NEW m, NEW d, NEW e, Same(o, m, d, e), NEW names \in Seq(Text)
  PROVE  Same(o, m, PrintVarAll(d, names), PrintVarAll(e, names))
<1> DEFINE T == {s \in Seq(Text) : Same(o, m, PrintVarAll(d, s), PrintVarAll(e, s))}
<1>1. \A x \in Answers, n \in Text : PrintVar(x, n) \in Answers
  <2> SUFFICES ASSUME NEW x \in Answers, NEW n \in Text PROVE PrintVar(x, n) \in Answers
    OBVIOUS
  <2>1. Same(<< >>, x.device, PrintVar(x, n), PrintVar(x, n))
    BY SameType, PrintVarSame, Zenon
  <2>. QED BY <2>1 DEF Same
<1>2. d \in Answers /\ e \in Answers
  BY SameFacts
<1>3. /\ PrintVarAll(d, << >>) = d /\ PrintVarAll(e, << >>) = e
      /\ \A s \in Seq(Text), b \in Text :
           /\ PrintVarAll(d, Append(s, b)) = PrintVar(PrintVarAll(d, s), b)
           /\ PrintVarAll(e, Append(s, b)) = PrintVar(PrintVarAll(e, s), b)
  BY <1>1, <1>2, PrintVarFold
<1>4. << >> \in T
  BY <1>3, EmptySeq
<1>5. ASSUME NEW s \in T, NEW b \in Text PROVE Append(s, b) \in T
  <2>1. s \in Seq(Text) /\ Same(o, m, PrintVarAll(d, s), PrintVarAll(e, s))
        /\ Append(s, b) \in Seq(Text)
    BY AppendProperties
  <2>2. Same(o, m, PrintVar(PrintVarAll(d, s), b), PrintVar(PrintVarAll(e, s), b))
    BY <2>1, PrintVarSame, Zenon
  <2>. QED BY <1>3, <2>1, <2>2
<1>6. T = Seq(Text)
  <2>1. T \in SUBSET Seq(Text) /\ \A s \in T, b \in Text : Append(s, b) \in T
    BY <1>5
  <2> HIDE DEF T
  <2>. QED BY <1>4, <2>1, SeqSet
<1>. QED BY <1>6

\* all of printenv,
LEMMA PrintEnvSame ==
  ASSUME NEW o, NEW m, NEW d, NEW e, Same(o, m, d, e), NEW names \in Seq(Text)
  PROVE  Same(o, m, PrintEnv(d, names), PrintEnv(e, names))
<1>1. <<"environment", "CRLF">> \in Text
  <2>1. \A S : \A x, y \in S : <<x, y>> \in Seq(S)
    OBVIOUS
  <2>. QED BY <2>1, Tokens DEF Fixed, Text
<1>2. 0 \in Nat
  OBVIOUS
<1>3. Same(o, m, Answered(d, <<"environment", "CRLF">>), Answered(e, <<"environment", "CRLF">>))
  BY <1>1, AnsweredSame, Zenon
<1>4. Same(o, m, Status(Answered(d, <<"environment", "CRLF">>), 0),
              Status(Answered(e, <<"environment", "CRLF">>), 0))
  BY <1>2, <1>3, StatusSame, Zenon
<1>5. Same(o, m, Status(d, 0), Status(e, 0))
  BY <1>2, StatusSame, Zenon
<1>6. Same(o, m, PrintVarAll(Status(d, 0), names), PrintVarAll(Status(e, 0), names))
  BY <1>5, PrintVarsSame, Zenon
<1>. QED BY <1>4, <1>6, Zenon DEF PrintEnv, PrintVarAll

\* setenv,
LEMMA SetEnvSame ==
  ASSUME NEW o, NEW m, NEW d, NEW e, Same(o, m, d, e), NEW args \in Seq(Text)
  PROVE  Same(o, m, SetEnv(d, args), SetEnv(e, args))
<1> DEFINE env == d.device.env
           to(x) == CASE args = << >>   -> x
                    [] Len(args) = 1  -> [n \in DOMAIN x \ {args[1]} |-> x[n]]
                    [] OTHER          -> [n \in DOMAIN x \cup {args[1]} |->
                              IF n = args[1] THEN Spaced(Tail(args)) ELSE x[n]]
<1>1. env \in Env /\ e.device.env = env
  BY SameFacts
<1> HIDE DEF env
<1>2. to(env) \in Env
  <2>1. CASE args = << >>
    BY <1>1, <2>1
  <2>2. CASE args # << >>
    <3>1. args[1] \in Text /\ Tail(args) \in Seq(Text)
      BY <2>2, HeadTailProperties, EmptySeq, ElementOfSeq
    <3>2. Spaced(Tail(args)) \in Text
      BY <3>1, SpacedType
    <3>3. \A n \in DOMAIN env : n \in Text /\ env[n] \in Text
      BY <1>1, EnvValue
    <3> DEFINE del == [n \in DOMAIN env \ {args[1]} |-> env[n]]
               add == [n \in DOMAIN env \cup {args[1]} |->
                         IF n = args[1] THEN Spaced(Tail(args)) ELSE env[n]]
    <3>4. del \in Env
      <4>1. DOMAIN env \ {args[1]} \in SUBSET Text /\ del \in [DOMAIN env \ {args[1]} -> Text]
        BY <3>3
      <4> HIDE DEF del
      <4>. QED BY <4>1, EnvMade, Zenon
    <3>5. add \in Env
      <4>1. /\ DOMAIN env \cup {args[1]} \in SUBSET Text
            /\ add \in [DOMAIN env \cup {args[1]} -> Text]
        BY <3>1, <3>2, <3>3
      <4> HIDE DEF add
      <4>. QED BY <4>1, EnvMade, Zenon
    <3>6. to(env) = IF Len(args) = 1 THEN del ELSE add
      BY <2>2
    <3> HIDE DEF to, del, add
    <3>. QED BY <3>4, <3>5, <3>6
  <2>. QED BY <2>1, <2>2
<1> DEFINE env2 == to(env)
           dev == [d.device EXCEPT !.env = env2]
           d2 == [d EXCEPT !.device = dev]
           e2 == [e EXCEPT !.device = dev]
<1>3. [d EXCEPT !.device.env = env2] = d2 /\ [e EXCEPT !.device.env = env2] = e2
  <2>1. d \in Answers /\ e \in Answers /\ d.device = e.device
    BY SameFacts
  <2> HIDE DEF to
  <2>. QED BY <2>1 DEF Answers
<1>4. SetEnv(d, args) = Status([d EXCEPT !.device.env = env2], 0)
  BY Zenon DEF SetEnv, env
<1>5. SetEnv(e, args) = Status([e EXCEPT !.device.env = env2], 0)
  BY <1>1, Zenon DEF SetEnv
<1>6. env2 \in Env
  BY <1>2
<1> HIDE DEF env2, to
<1>7. dev \in Device /\ dev.kind = m.kind /\ dev.line = m.line
  BY <1>6, SameFacts DEF Device
<1> HIDE DEF dev
<1>8. Same(o, m, d2, e2)
  <2>1. /\ d \in Answers /\ e \in Answers /\ o \in Text /\ d.out = o \o e.out
    BY SameFacts
  <2>. QED BY <1>7, <2>1 DEF Answers, Same
<1> HIDE DEF d2, e2
<1>9. 0 \in Nat
  OBVIOUS
<1>10. Same(o, m, Status(d2, 0), Status(e2, 0))
  BY <1>8, <1>9, StatusSame, Zenon
<1>. QED BY <1>3, <1>4, <1>5, <1>10, Zenon

\* Texts joined, and texts of one or two fixed tokens, are texts.
LEMMA Texts ==
  /\ \A a, b \in Text : a \o b \in Text
  /\ \A x \in Fixed : <<x>> \in Text
  /\ \A x, y \in Fixed : <<x, y>> \in Text
<1>1. \A a, b \in Text : a \o b \in Text
  BY ConcatProperties DEF Text
<1>2. \A S : \A x, y \in S : <<x, y>> \in Seq(S)
  OBVIOUS
<1>. QED BY <1>1, <1>2, Tokens DEF Text

\* an answer with a status,
LEMMA ToldSame ==
  ASSUME NEW o, NEW m, NEW d, NEW e, Same(o, m, d, e), NEW t \in Text, NEW s \in Nat
  PROVE  Same(o, m, Status(Answered(d, t), s), Status(Answered(e, t), s))
<1>1. Same(o, m, Answered(d, t), Answered(e, t))
  BY AnsweredSame, Zenon
<1>. QED BY <1>1, StatusSame, Zenon

\* any one command (run_one),
LEMMA RunOneSame ==
  ASSUME NEW o, NEW m, NEW d, NEW e, Same(o, m, d, e), NEW cmd \in Seq(Key)
  PROVE  Same(o, m, RunOne(d, cmd), RunOne(e, cmd))
<1> DEFINE words == ExpandWords(cmd, d.device.env, d.device.status)
           args  == Tail(words)
           said  == Spaced(args) \o <<"CRLF">>
           no    == <<"unknown: ">> \o words[1] \o <<"CRLF">>
           code  == IF d.device.kind = "uboot" THEN 1 ELSE 127
<1>1. words \in Seq(Text) /\ d.device = e.device
  BY SameFacts, ExpandWordsType
<1>2. CASE words = << >>
  <2>1. RunOne(d, cmd) = d /\ RunOne(e, cmd) = e
    BY <1>1, <1>2 DEF RunOne
  <2>. QED BY <2>1
<1>3. CASE words # << >>
  <2> HIDE DEF words
  <2>1. words[1] \in Text /\ args \in Seq(Text)
    BY <1>1, <1>3, HeadTailProperties, EmptySeq, ElementOfSeq
  <2>2. <<"CRLF">> \in Text /\ <<"unknown: ">> \in Text /\ <<"U-Boot", "CRLF">> \in Text
    BY Texts DEF Fixed
  <2>3. said \in Text /\ no \in Text
    BY <2>1, <2>2, SpacedType, Texts
  <2>4. 0 \in Nat /\ 1 \in Nat /\ code \in Nat
    OBVIOUS
  <2> HIDE DEF args, said, no, code
  <2>5. /\ Same(o, m, Status(Answered(d, said), 0), Status(Answered(e, said), 0))
        /\ Same(o, m, Status(Answered(d, <<"U-Boot", "CRLF">>), 0),
                      Status(Answered(e, <<"U-Boot", "CRLF">>), 0))
        /\ Same(o, m, Status(Answered(d, no), code), Status(Answered(e, no), code))
    BY <2>2, <2>3, <2>4, ToldSame, Zenon
  <2>6. /\ Same(o, m, Status(d, 0), Status(e, 0))
        /\ Same(o, m, Status(d, 1), Status(e, 1))
    BY <2>4, StatusSame, Zenon
  <2>7. Same(o, m, PrintEnv(d, args), PrintEnv(e, args))
    BY <2>1, PrintEnvSame, Zenon
  <2>8. Same(o, m, SetEnv(d, args), SetEnv(e, args))
    BY <2>1, SetEnvSame, Zenon
  <2> DEFINE c1 == words[1] = <<"echo">>
             c2 == words[1] = <<"true">>
             c3 == words[1] = <<"false">>
             c4 == words[1] = <<"printenv">> /\ d.device.kind = "uboot"
             c5 == words[1] = <<"setenv">> /\ d.device.kind = "uboot"
             c6 == words[1] = <<"version">> /\ d.device.kind = "uboot"
             Does(x) == CASE c1 -> Status(Answered(x, said), 0)
                          [] c2 -> Status(x, 0)
                          [] c3 -> Status(x, 1)
                          [] c4 -> PrintEnv(x, args)
                          [] c5 -> SetEnv(x, args)
                          [] c6 -> Status(Answered(x, <<"U-Boot", "CRLF">>), 0)
                          [] OTHER -> Status(Answered(x, no), code)
  <2>9. RunOne(d, cmd) = Does(d)
    BY <1>3, Zenon DEF RunOne, words, args, said, no, code
  <2>10. RunOne(e, cmd) = Does(e)
    BY <1>1, <1>3, Zenon DEF RunOne, words, args, said, no, code
  <2>11. /\ c1 => ~c2 /\ ~c3 /\ ~c4 /\ ~c5 /\ ~c6
         /\ c2 => ~c3 /\ ~c4 /\ ~c5 /\ ~c6
         /\ c3 => ~c4 /\ ~c5 /\ ~c6
         /\ c4 => ~c5 /\ ~c6
         /\ c5 => ~c6
    OBVIOUS
  <2> HIDE DEF c1, c2, c3, c4, c5, c6
  <2>12. Same(o, m, Does(d), Does(e))
    BY <2>5, <2>6, <2>7, <2>8, <2>11
  <2> HIDE DEF Does
  <2>. QED BY <2>9, <2>10, <2>12, Zenon
<1>. QED BY <1>2, <1>3

\* and the commands of a line.
LEMMA RunSame ==
  ASSUME NEW o, NEW m, NEW d, NEW e, Same(o, m, d, e), NEW cmds \in Seq(Seq(Key))
  PROVE  Same(o, m, RunOneAll(d, cmds), RunOneAll(e, cmds))
<1> DEFINE T == {s \in Seq(Seq(Key)) : Same(o, m, RunOneAll(d, s), RunOneAll(e, s))}
<1>1. \A x \in Answers, n \in Seq(Key) : RunOne(x, n) \in Answers
  <2> SUFFICES ASSUME NEW x \in Answers, NEW n \in Seq(Key) PROVE RunOne(x, n) \in Answers
    OBVIOUS
  <2>1. Same(<< >>, x.device, RunOne(x, n), RunOne(x, n))
    BY SameType, RunOneSame, Zenon
  <2>. QED BY <2>1 DEF Same
<1>2. d \in Answers /\ e \in Answers
  BY SameFacts
<1>3. /\ RunOneAll(d, << >>) = d /\ RunOneAll(e, << >>) = e
      /\ \A s \in Seq(Seq(Key)), b \in Seq(Key) :
           /\ RunOneAll(d, Append(s, b)) = RunOne(RunOneAll(d, s), b)
           /\ RunOneAll(e, Append(s, b)) = RunOne(RunOneAll(e, s), b)
  BY <1>1, <1>2, RunOneFold
<1>4. << >> \in T
  BY <1>3, EmptySeq
<1>5. ASSUME NEW s \in T, NEW b \in Seq(Key) PROVE Append(s, b) \in T
  <2>1. s \in Seq(Seq(Key)) /\ Same(o, m, RunOneAll(d, s), RunOneAll(e, s))
        /\ Append(s, b) \in Seq(Seq(Key))
    BY AppendProperties
  <2>2. Same(o, m, RunOne(RunOneAll(d, s), b), RunOne(RunOneAll(e, s), b))
    BY <2>1, RunOneSame, Zenon
  <2>. QED BY <1>3, <2>1, <2>2
<1>6. T = Seq(Seq(Key))
  <2>1. T \in SUBSET Seq(Seq(Key)) /\ \A s \in T, b \in Seq(Key) : Append(s, b) \in T
    BY <1>5
  <2> HIDE DEF T
  <2>. QED BY <1>4, <2>1, SeqSet
<1>. QED BY <1>6

\* So for the modem (at_line),
LEMMA AtLineSame ==
  ASSUME NEW o, NEW m, NEW d, NEW e, Same(o, m, d, e), NEW line
  PROVE  Same(o, m, AtLine(d, line), AtLine(e, line))
<1>1. <<"OK", "CRLF">> \in Text /\ <<"ERROR", "CRLF">> \in Text
  BY Texts DEF Fixed
<1> DEFINE t == Trimmed(line)
           at == Len(t) >= 2 /\ t[1] \in {"A", "a"} /\ t[2] \in {"T", "t"}
           ff == \E i \in DOMAIN t \cap 1..2 : t[i] = "FF"
           d2 == [d EXCEPT !.device.dead = TRUE]
           e2 == [e EXCEPT !.device.dead = TRUE]
<1>2. Same(o, m, d2, e2)
  <2> DEFINE dev == [d.device EXCEPT !.dead = TRUE]
  <2>1. /\ d \in Answers /\ e \in Answers /\ o \in Text /\ d.out = o \o e.out
        /\ d.device = e.device /\ d.device \in Device
        /\ d.device.kind = m.kind /\ d.device.line = m.line
    BY SameFacts
  <2>2. dev \in Device /\ dev.kind = m.kind /\ dev.line = m.line
    BY <2>1 DEF Device
  <2>3. d2 = [d EXCEPT !.device = dev] /\ e2 = [e EXCEPT !.device = dev]
    BY <2>1 DEF Answers
  <2> HIDE DEF dev, d2, e2
  <2>. QED BY <2>1, <2>2, <2>3 DEF Answers, Same
<1>3. /\ Same(o, m, Answered(d, <<"OK", "CRLF">>), Answered(e, <<"OK", "CRLF">>))
      /\ Same(o, m, Answered(d, <<"ERROR", "CRLF">>), Answered(e, <<"ERROR", "CRLF">>))
  BY <1>1, AnsweredSame, Zenon
<1> DEFINE Does(x, x2) == CASE t = << >> -> x
                        [] t # << >> /\ ff -> x2
                        [] OTHER -> Answered(x, IF at THEN <<"OK", "CRLF">>
                                                ELSE <<"ERROR", "CRLF">>)
<1>4. AtLine(d, line) = Does(d, d2) /\ AtLine(e, line) = Does(e, e2)
  BY Zenon DEF AtLine
<1> HIDE DEF t, at, ff, d2, e2
<1>5. Same(o, m, Does(d, d2), Does(e, e2))
  BY <1>2, <1>3, Zenon
<1> HIDE DEF Does
<1>. QED BY <1>4, <1>5, Zenon

\* and for every line of an interactive preset.
LEMMA OnLineSame ==
  ASSUME NEW o, NEW m, NEW d, NEW e, Same(o, m, d, e), NEW line \in Seq(Key)
  PROVE  Same(o, m, OnLine(d, line), OnLine(e, line))
<1>1. d.device = e.device
  BY SameFacts
<1>2. Same(o, m, AtLine(d, line), AtLine(e, line))
  BY AtLineSame, Zenon
<1>3. Same(o, m, RunOneAll(d, SplitCommands(line)), RunOneAll(e, SplitCommands(line)))
  BY SplitCommandsType, RunSame, Zenon
<1>. QED BY <1>1, <1>2, <1>3, Zenon DEF OnLine, RunOneAll

-----------------------------------------------------------------------------
(* Nor does what the line discipline does.                                 *)

\* d with another line, and having or not having just read a CR.
Lined(d, line) == [d EXCEPT !.device.line = line]
Returned(d, cr) == [d EXCEPT !.device.was_cr = cr]

\* All but the last element of a sequence.
LEMMA FrontType ==
  ASSUME NEW S, NEW s \in Seq(S), s # << >>
  PROVE  Front(s) \in Seq(S) /\ \E x \in S : s = Append(Front(s), x)
<1>1. PICK v \in Seq(S), x \in S : s = Append(v, x) /\ Len(s) = Len(v) + 1
  BY SplitLast
<1> DEFINE n == Len(v)
<1>2. n \in Nat /\ \A i \in 1..n : s[i] = v[i]
  BY <1>1, AppendProperties, LenProperties
<1>3. Front(s) = SubSeq(s, 1, n)
  <2>1. Len(s) - 1 = n
    BY <1>1, <1>2
  <2>. QED BY <2>1, Zenon DEF Front
<1>4. SubSeq(s, 1, n) = v
  <2>1. n \in 0..Len(s)
    BY <1>1, <1>2
  <2>2. SubSeq(s, 1, n) \in Seq(S) /\ Len(SubSeq(s, 1, n)) = n
    BY <2>1, CutInTwo
  <2>3. \A i \in 1..n : SubSeq(s, 1, n)[i] = s[i]
    BY <1>1, <1>2
  <2>. QED BY <1>2, <2>2, <2>3, SeqEqual
<1>. QED BY <1>1, <1>3, <1>4

\* The kind of m with another line.
Lines(m, line) == [kind |-> m.kind, line |-> line]

\* Editing the line and noting a CR do not depend on earlier answers,
LEMMA EditSame ==
  ASSUME NEW o, NEW m, NEW d, NEW e, Same(o, m, d, e)
  PROVE  /\ \A line \in Seq(Key) :
               Same(o, Lines(m, line), Lined(d, line), Lined(e, line))
         /\ \A cr \in BOOLEAN : Same(o, m, Returned(d, cr), Returned(e, cr))
<1>1. /\ d \in Answers /\ e \in Answers /\ o \in Text /\ d.out = o \o e.out
      /\ d.device = e.device /\ d.device \in Device
      /\ d.device.kind = m.kind /\ d.device.line = m.line
  BY SameFacts
<1>2. ASSUME NEW dev \in Device, NEW n, dev.kind = n.kind, dev.line = n.line
      PROVE  Same(o, n, [d EXCEPT !.device = dev], [e EXCEPT !.device = dev])
  BY <1>1, <1>2 DEF Answers, Same
<1>3. ASSUME NEW line \in Seq(Key)
      PROVE  Same(o, Lines(m, line), Lined(d, line), Lined(e, line))
  <2> DEFINE dev == [d.device EXCEPT !.line = line]
             n == Lines(m, line)
  <2>1. dev \in Device /\ dev.kind = n.kind /\ dev.line = n.line
    BY <1>1 DEF Device, Lines
  <2>2. Lined(d, line) = [d EXCEPT !.device = dev] /\ Lined(e, line) = [e EXCEPT !.device = dev]
    BY <1>1 DEF Answers, Lined
  <2> HIDE DEF dev, n
  <2>. QED BY <1>2, <2>1, <2>2 DEF n
<1>4. ASSUME NEW cr \in BOOLEAN
      PROVE  Same(o, m, Returned(d, cr), Returned(e, cr))
  <2> DEFINE dev == [d.device EXCEPT !.was_cr = cr]
  <2>1. dev \in Device /\ dev.kind = m.kind /\ dev.line = m.line
    BY <1>1 DEF Device
  <2>2. Returned(d, cr) = [d EXCEPT !.device = dev] /\ Returned(e, cr) = [e EXCEPT !.device = dev]
    BY <1>1, Zenon DEF Answers, Returned
  <2> HIDE DEF dev
  <2>. QED BY <1>2, <2>1, <2>2
<1>. QED BY <1>3, <1>4

\* nor does the end of a line, after which the line is empty.
LEMMA EnterSame ==
  ASSUME NEW o, NEW m, NEW d, NEW e, Same(o, m, d, e), NEW b
  PROVE  Same(o, Lines(m, << >>), EnterLine(d, b), EnterLine(e, b))
<1> DEFINE n == Lines(m, << >>)
           line == d.device.line
           kind == d.device.kind
           d1 == Answered(Lined(d, << >>), <<"CRLF">>)
           e1 == Answered(Lined(e, << >>), <<"CRLF">>)
           d2 == Answered(OnLine(d1, line), Prompt(kind))
           e2 == Answered(OnLine(e1, line), Prompt(kind))
           cr == b = "CR"
<1>1. line \in Seq(Key) /\ e.device.line = line /\ Prompt(kind) \in Text /\ e.device.kind = kind
  BY SameFacts, NewDeviceType
<1>2. Same(o, n, d1, e1)
  <2>1. << >> \in Seq(Key) /\ <<"CRLF">> \in Text
    BY EmptySeq, Texts DEF Fixed
  <2>2. Same(o, n, Lined(d, << >>), Lined(e, << >>))
    BY <2>1, EditSame
  <2> HIDE DEF n
  <2>. QED BY <2>1, <2>2, AnsweredSame, Zenon
<1> HIDE DEF n, line, kind, d1, e1
<1>3. Same(o, n, OnLine(d1, line), OnLine(e1, line))
  BY <1>1, <1>2, OnLineSame, Zenon
<1>4. Same(o, n, d2, e2)
  BY <1>1, <1>3, AnsweredSame, Zenon
<1>5. cr \in BOOLEAN
  OBVIOUS
<1>6. EnterLine(d, b) = Returned(d2, cr)
  BY Zenon DEF EnterLine, Returned, Lined, line, kind, d1
<1>7. EnterLine(e, b) = Returned(e2, cr)
  BY <1>1, Zenon DEF EnterLine, Returned, Lined, e1
<1> HIDE DEF cr, d2, e2
<1>8. Same(o, n, Returned(d2, cr), Returned(e2, cr))
  BY <1>4, <1>5, EditSame, Zenon
<1>. QED BY <1>6, <1>7, <1>8 DEF n

\* The same, whatever the line has become.
Alike(o, m, d, e) == \E line \in Seq(Key) : Same(o, Lines(m, line), d, e)

\* What is the same is alike.
LEMMA SameAlike ==
  ASSUME NEW o, NEW m, NEW d, NEW e, Same(o, m, d, e)
  PROVE  Alike(o, m, d, e)
<1>1. d.device.line \in Seq(Key)
  BY SameFacts
<1>2. Same(o, Lines(m, d.device.line), d, e)
  BY DEF Same, Lines
<1>. QED BY <1>1, <1>2, Zenon DEF Alike

\* A key that rubs out,
LEMMA RubOutSame ==
  ASSUME NEW o, NEW m, NEW d, NEW e, Same(o, m, d, e)
  PROVE  Alike(o, m, RubOut(d), RubOut(e))
<1> DEFINE line == d.device.line
           less == Front(line)
<1>1. line \in Seq(Key) /\ e.device.line = line
  BY SameFacts
<1>2. CASE line = << >>
  <2>1. RubOut(d) = d /\ RubOut(e) = e
    BY <1>1, <1>2, Zenon DEF RubOut
  <2>. QED BY <2>1, SameAlike
<1>3. CASE line # << >>
  <2>1. less \in Seq(Key)
    BY <1>1, <1>3, FrontType
  <2>2. <<"RUB">> \in Text
    BY Texts DEF Fixed
  <2>3. RubOut(d) = Answered(Lined(d, less), <<"RUB">>)
    BY <1>3, Zenon DEF RubOut, Lined
  <2>4. RubOut(e) = Answered(Lined(e, less), <<"RUB">>)
    BY <1>1, <1>3, Zenon DEF RubOut, Lined
  <2> HIDE DEF less
  <2>5. Same(o, Lines(m, less), Lined(d, less), Lined(e, less))
    BY <2>1, EditSame
  <2>6. Same(o, Lines(m, less), Answered(Lined(d, less), <<"RUB">>),
                                Answered(Lined(e, less), <<"RUB">>))
    BY <2>2, <2>5, AnsweredSame, Zenon
  <2>. QED BY <2>1, <2>3, <2>4, <2>6 DEF Alike
<1>. QED BY <1>2, <1>3

\* ^C, and
LEMMA AbandonSame ==
  ASSUME NEW o, NEW m, NEW d, NEW e, Same(o, m, d, e)
  PROVE  Same(o, Lines(m, << >>), Abandon(d), Abandon(e))
<1> DEFINE said == <<"^C", "CRLF">> \o Prompt(d.device.kind)
<1>1. said \in Text
  <2>1. <<"^C", "CRLF">> \in Text
    BY Texts DEF Fixed
  <2>2. Prompt(d.device.kind) \in Text
    BY SameFacts, NewDeviceType
  <2>. QED BY <2>1, <2>2, Texts
<1>2. Same(o, Lines(m, << >>), Lined(d, << >>), Lined(e, << >>))
  BY EmptySeq, EditSame
<1>3. Abandon(d) = Answered(Lined(d, << >>), said)
  BY Zenon DEF Abandon, Lined
<1>4. Abandon(e) = Answered(Lined(e, << >>), said)
  <2>1. d.device.kind = e.device.kind
    BY SameFacts
  <2>. QED BY <2>1, Zenon DEF Abandon, Lined
<1> HIDE DEF said
<1>. QED BY <1>1, <1>2, <1>3, <1>4, AnsweredSame, Zenon

\* any byte: what a device becomes and answers does not depend on what was answered
\* before (Device::feed, sim.rs).
LEMMA FeedByteSame ==
  ASSUME NEW o, NEW m, NEW d, NEW e, Same(o, m, d, e), NEW b \in Key
  PROVE  Alike(o, m, FeedByte(d, b), FeedByte(e, b))
<1> DEFINE d1 == Returned(d, FALSE)
           e1 == Returned(e, FALSE)
           line == Append(d.device.line, b)
<1>1. d.device = e.device /\ d.device.line \in Seq(Key)
  BY SameFacts
<1>2. <<b>> \in Text
  BY Tokens
<1>3. Alike(o, m, d, e) /\ Alike(o, m, Answered(d, <<b>>), Answered(e, <<b>>))
  BY <1>2, AnsweredSame, SameAlike, Zenon
<1>4. Same(o, m, d1, e1)
  BY EditSame
<1>5. line \in Seq(Key)
  BY <1>1, AppendProperties
<1>6. d1.device.line = d.device.line /\ e1.device.line = d.device.line
  BY <1>1, SameFacts DEF Returned, Answers, Device
<1>7. /\ Lined(d1, line) = [d1 EXCEPT !.device.line = Append(@, b)]
      /\ Lined(e1, line) = [e1 EXCEPT !.device.line = Append(@, b)]
  BY <1>6, Zenon DEF Lined
<1>8. /\ d1 = [d EXCEPT !.device.was_cr = FALSE]
      /\ e1 = [e EXCEPT !.device.was_cr = FALSE]
  BY Zenon DEF Returned
<1> HIDE DEF d1, e1, line
<1>9. Alike(o, m, Answered(Lined(d1, line), <<b>>), Answered(Lined(e1, line), <<b>>))
  <2>1. Same(o, Lines(m, line), Lined(d1, line), Lined(e1, line))
    BY <1>4, <1>5, EditSame
  <2>2. Same(o, Lines(m, line), Answered(Lined(d1, line), <<b>>),
                                Answered(Lined(e1, line), <<b>>))
    BY <1>2, <2>1, AnsweredSame, Zenon
  <2>. QED BY <1>5, <2>2, Zenon DEF Alike
<1>10. /\ Alike(o, m, d1, e1)
       /\ Alike(o, m, EnterLine(d1, b), EnterLine(e1, b))
       /\ Alike(o, m, RubOut(d1), RubOut(e1))
       /\ Alike(o, m, Abandon(d1), Abandon(e1))
  <2>1. << >> \in Seq(Key)
    BY EmptySeq
  <2>. QED BY <1>4, <2>1, SameAlike, EnterSame, RubOutSame, AbandonSame, Zenon DEF Alike
<1> DEFINE dev == d.device
           a1 == dev.kind = "echo"
           a2 == b = "LF" /\ dev.was_cr
           a3 == b = "CR" \/ (b = "LF" /\ ~dev.was_cr)
           a4 == b = "BS"
           a5 == b = "ETX"
           Does(x, x1) ==
             CASE a1 -> Answered(x, <<b>>)
               [] ~a1 /\ dev.dead -> x
               [] ~a1 /\ ~dev.dead ->
                    CASE a2 -> x1
                      [] a3 -> EnterLine(x1, b)
                      [] a4 -> RubOut(x1)
                      [] a5 -> Abandon(x1)
                      [] OTHER -> Answered(Lined(x1, line), <<b>>)
<1>11. FeedByte(d, b) = Does(d, d1)
  BY <1>7, <1>8, Zenon DEF FeedByte
<1>12. FeedByte(e, b) = Does(e, e1)
  <2> DEFINE Did(of) ==
             CASE of.kind = "echo" -> Answered(e, <<b>>)
               [] ~(of.kind = "echo") /\ of.dead -> e
               [] ~(of.kind = "echo") /\ ~of.dead ->
                    CASE b = "LF" /\ of.was_cr -> e1
                      [] b = "CR" \/ (b = "LF" /\ ~of.was_cr) -> EnterLine(e1, b)
                      [] a4 -> RubOut(e1)
                      [] a5 -> Abandon(e1)
                      [] OTHER -> Answered(Lined(e1, line), <<b>>)
  <2>1. FeedByte(e, b) = Did(e.device)
    BY <1>7, <1>8, Zenon DEF FeedByte
  <2>2. Did(dev) = Does(e, e1)
    OBVIOUS
  <2> HIDE DEF Did, Does
  <2>. QED BY <1>1, <2>1, <2>2
<1>13. (a2 => ~a3 /\ ~a4 /\ ~a5) /\ (a3 => ~a4 /\ ~a5) /\ (a4 => ~a5)
  OBVIOUS
<1> HIDE DEF a1, a2, a3, a4, a5
<1>14. Alike(o, m, Does(d, d1), Does(e, e1))
  BY <1>3, <1>9, <1>10, <1>13
<1> HIDE DEF Does
<1>. QED BY <1>11, <1>12, <1>14

-----------------------------------------------------------------------------
(* Feeding.                                                                *)

\* Fed a byte, a device stays one and its answers texts.
LEMMA FeedByteType == \A x \in Answers, b \in Key : FeedByte(x, b) \in Answers
<1> SUFFICES ASSUME NEW x \in Answers, NEW b \in Key PROVE FeedByte(x, b) \in Answers
  OBVIOUS
<1>1. Alike(<< >>, x.device, FeedByte(x, b), FeedByte(x, b))
  BY SameType, FeedByteSame, Zenon
<1>. QED BY <1>1 DEF Alike, Same

\* Alike stays alike when both are fed a byte.
LEMMA AlikeFed ==
  ASSUME NEW o, NEW m, NEW d, NEW e, Alike(o, m, d, e), NEW b \in Key
  PROVE  Alike(o, m, FeedByte(d, b), FeedByte(e, b))
<1>1. PICK line \in Seq(Key) : Same(o, Lines(m, line), d, e)
  BY DEF Alike
<1>2. Alike(o, Lines(m, line), FeedByte(d, b), FeedByte(e, b))
  BY <1>1, FeedByteSame, Zenon
<1>3. \A l : Lines(Lines(m, line), l) = Lines(m, l)
  BY DEF Lines
<1>. QED BY <1>2, <1>3, Zenon DEF Alike

\* Feeding byte after byte.
LEMMA FeedAll ==
  ASSUME NEW x \in Answers
  PROVE  /\ FeedByteAll(x, << >>) = x
         /\ \A s \in Seq(Key) : FeedByteAll(x, s) \in Answers
         /\ \A s \in Seq(Key), b \in Key :
              FeedByteAll(x, Append(s, b)) = FeedByte(FeedByteAll(x, s), b)
BY FeedByteType, FeedByteFold

\* Alike stays alike when both are fed the same bytes.
LEMMA FeedAllSame ==
  ASSUME NEW o, NEW m, NEW d, NEW e, Same(o, m, d, e), NEW input \in Seq(Key)
  PROVE  Alike(o, m, FeedByteAll(d, input), FeedByteAll(e, input))
<1> DEFINE T == {s \in Seq(Key) : Alike(o, m, FeedByteAll(d, s), FeedByteAll(e, s))}
<1>1. d \in Answers /\ e \in Answers
  BY SameFacts
<1>2. << >> \in T
  BY <1>1, FeedAll, EmptySeq, SameAlike
<1>3. ASSUME NEW s \in T, NEW b \in Key PROVE Append(s, b) \in T
  <2>1. s \in Seq(Key) /\ Alike(o, m, FeedByteAll(d, s), FeedByteAll(e, s))
        /\ Append(s, b) \in Seq(Key)
    BY AppendProperties
  <2>2. Alike(o, m, FeedByte(FeedByteAll(d, s), b), FeedByte(FeedByteAll(e, s), b))
    BY <2>1, AlikeFed, Zenon
  <2>. QED BY <1>1, <2>1, <2>2, FeedAll
<1>4. T = Seq(Key)
  <2>1. T \in SUBSET Seq(Key) /\ \A s \in T, b \in Key : Append(s, b) \in T
    BY <1>3
  <2> HIDE DEF T
  <2>. QED BY <1>2, <2>1, SeqSet
<1>. QED BY <1>4

\* Bytes fed at once or in two parts.
LEMMA FeedAllSplits ==
  ASSUME NEW x \in Answers, NEW a \in Seq(Key), NEW b \in Seq(Key)
  PROVE  FeedByteAll(x, a \o b) = FeedByteAll(FeedByteAll(x, a), b)
<1> DEFINE y == FeedByteAll(x, a)
           T == {s \in Seq(Key) : FeedByteAll(x, a \o s) = FeedByteAll(y, s)}
<1>1. y \in Answers
  BY FeedAll
<1> HIDE DEF y
<1>2. << >> \in T
  <2>1. a \o << >> = a
    BY ConcatEmptySeq
  <2>. QED BY <1>1, <2>1, FeedAll, EmptySeq DEF y
<1>3. ASSUME NEW s \in T, NEW k \in Key PROVE Append(s, k) \in T
  <2>1. s \in Seq(Key) /\ Append(s, k) \in Seq(Key) /\ a \o s \in Seq(Key)
    BY AppendProperties, ConcatProperties
  <2>2. a \o Append(s, k) = Append(a \o s, k)
    BY <2>1, ConcatAppended
  <2>3. FeedByteAll(x, a \o s) = FeedByteAll(y, s)
    OBVIOUS
  <2>4. FeedByteAll(x, Append(a \o s, k)) = FeedByte(FeedByteAll(x, a \o s), k)
    BY <2>1, FeedAll
  <2>5. FeedByteAll(y, Append(s, k)) = FeedByte(FeedByteAll(y, s), k)
    BY <1>1, <2>1, FeedAll
  <2>. QED BY <2>1, <2>2, <2>3, <2>4, <2>5
<1>4. T = Seq(Key)
  <2>1. T \in SUBSET Seq(Key) /\ \A s \in T, k \in Key : Append(s, k) \in T
    BY <1>3
  <2> HIDE DEF T
  <2>. QED BY <1>2, <2>1, SeqSet
<1>. QED BY <1>4 DEF y

\* Nothing answered yet.
Unanswered(dev) == [device |-> dev, out |-> << >>]

\* Feed is that fold.
LEMMA FeedFacts ==
  ASSUME NEW dev \in Device, NEW input \in Seq(Key)
  PROVE  /\ Unanswered(dev) \in Answers
         /\ Feed(dev, input) = FeedByteAll(Unanswered(dev), input)
         /\ Feed(dev, input) \in Answers
         /\ Feed(dev, input).device \in Device /\ Feed(dev, input).out \in Text
         /\ Feed(dev, << >>) = Unanswered(dev)
<1>1. Unanswered(dev) \in Answers
  BY Tokens DEF Unanswered, Answers
<1>2. \A s : Feed(dev, s) = FeedByteAll(Unanswered(dev), s)
  BY Zenon DEF Feed, FeedByteAll, Unanswered
<1>3. Feed(dev, input) \in Answers
  BY <1>1, <1>2, FeedAll
<1>4. Feed(dev, << >>) = Unanswered(dev)
  BY <1>1, <1>2, FeedAll
<1>. QED BY <1>1, <1>2, <1>3, <1>4 DEF Answers

\* However input is cut in two, the device ends up the same and its answers are those
\* to the first part and then those to the second.
THEOREM FeedSplits ==
  ASSUME NEW dev \in Device, NEW a \in Seq(Key), NEW b \in Seq(Key)
  PROVE  LET first == Feed(dev, a)
             then == Feed(first.device, b)
         IN  /\ first \in Answers /\ then \in Answers
             /\ Feed(dev, a \o b).device = then.device
             /\ Feed(dev, a \o b).out = first.out \o then.out
<1> DEFINE first == Feed(dev, a)
           then == Feed(first.device, b)
<1>1. /\ first \in Answers /\ first.device \in Device /\ first.out \in Text
      /\ first = FeedByteAll(Unanswered(dev), a) /\ Unanswered(dev) \in Answers
  BY FeedFacts
<1> HIDE DEF first
<1>2. /\ then \in Answers /\ then = FeedByteAll(Unanswered(first.device), b)
      /\ Unanswered(first.device) \in Answers
  BY <1>1, FeedFacts
<1> HIDE DEF then
<1>3. Same(first.out, first.device, first, Unanswered(first.device))
  <2>1. first.out \o << >> = first.out
    BY <1>1, ConcatEmptySeq DEF Text
  <2>2. Unanswered(first.device).device = first.device /\ Unanswered(first.device).out = << >>
    BY DEF Unanswered
  <2>. QED BY <1>1, <1>2, <2>1, <2>2 DEF Same
<1>4. Alike(first.out, first.device, FeedByteAll(first, b), then)
  BY <1>2, <1>3, FeedAllSame
<1>5. Feed(dev, a \o b) = FeedByteAll(first, b)
  <2>1. a \o b \in Seq(Key)
    BY ConcatProperties
  <2>2. Feed(dev, a \o b) = FeedByteAll(Unanswered(dev), a \o b)
    BY <2>1, FeedFacts
  <2>. QED BY <1>1, <2>2, FeedAllSplits
<1>. QED BY <1>1, <1>2, <1>4, <1>5 DEF Alike, Same, first, then

-----------------------------------------------------------------------------
(* The screen.                                                             *)

\* What a screen shows after t.
Screen(t) == ShowCharAll(<< >>, t)

\* A screen keeps to what it can show.
LEMMA ShowType ==
  ASSUME NEW x \in Shown, NEW c \in Token
  PROVE  ShowChar(x, c) \in Shown
<1>1. << >> \in Shown /\ <<"damage">> \in Shown
  <2>1. \A S : \A y \in S : <<y>> \in Seq(S)
    OBVIOUS
  <2>2. "damage" \in Token \cup {"damage"}
    OBVIOUS
  <2>. QED BY <2>1, <2>2, EmptySeq DEF Shown
<1>2. x # << >> => Front(x) \in Shown
  BY FrontType DEF Shown
<1>3. Append(x, c) \in Shown
  BY AppendProperties DEF Shown
<1>4. ShowChar(x, c) \in {<< >>, <<"damage">>, Front(x), Append(x, c)}
      /\ (ShowChar(x, c) = Front(x) =>
            x # << >> \/ ShowChar(x, c) \in {<< >>, <<"damage">>, Append(x, c)})
  BY Zenon DEF ShowChar
<1>. QED BY <1>1, <1>2, <1>3, <1>4

\* Showing one token more.
LEMMA Screens ==
  /\ Screen(<< >>) = << >>
  /\ \A t \in Text, c \in Token : /\ Screen(t) \in Shown
                                  /\ Screen(Append(t, c)) = ShowChar(Screen(t), c)
<1>1. << >> \in Shown /\ \A x \in Shown, c \in Token : ShowChar(x, c) \in Shown
  BY ShowType, EmptySeq DEF Shown
<1>. QED BY <1>1, ShowCharFold DEF Screen, Text

\* Joining one token,
LEMMA AppendsOne ==
  ASSUME NEW t \in Text, NEW c \in Token
  PROVE  t \o <<c>> = Append(t, c)
<1>1. \A S : \A s \in Seq(S), x \in S : s \o <<x>> = Append(s, x)
  OBVIOUS
<1>. QED BY <1>1 DEF Text

\* or joining and then appending.
LEMMA AppendsLater ==
  ASSUME NEW t \in Text, NEW u \in Text, NEW c \in Token
  PROVE  t \o Append(u, c) = Append(t \o u, c)
BY ConcatAppended DEF Text

\* A text whose last token starts a new line on the screen.
Ends(t) == \E u \in Text, c \in {"CRLF", "$ ", "=> "} : t = Append(u, c)

\* It leaves nothing shown, whatever came before.
LEMMA EndsClear ==
  /\ \A t \in Text : Ends(t) => Screen(t) = << >>
  /\ \A t, u \in Text : Ends(u) => Ends(t \o u)
<1>1. {"CRLF", "$ ", "=> "} \subseteq Token
  BY Tokens DEF Fixed
<1>2. ASSUME NEW t \in Text, Ends(t)
      PROVE  Screen(t) = << >>
  <2>1. PICK u \in Text, c \in {"CRLF", "$ ", "=> "} : t = Append(u, c)
    BY <1>2 DEF Ends
  <2>2. Screen(t) = ShowChar(Screen(u), c)
    BY <1>1, <2>1, Screens
  <2>3. ShowChar(Screen(u), c) = << >>
    BY DEF ShowChar
  <2>. QED BY <2>2, <2>3
<1>3. ASSUME NEW t \in Text, NEW u \in Text, Ends(u)
      PROVE  Ends(t \o u)
  <2>1. PICK v \in Text, c \in {"CRLF", "$ ", "=> "} : u = Append(v, c)
    BY <1>3 DEF Ends
  <2>2. c \in Token
    BY <1>1
  <2>3. t \o Append(v, c) = Append(t \o v, c)
    BY <2>2, AppendsLater, Zenon
  <2>4. t \o u = Append(t \o v, c) /\ t \o v \in Text
    BY <2>1, <2>3, Texts
  <2>. QED BY <2>4 DEF Ends
<1>. QED BY <1>2, <1>3

\* The ends of lines and the prompts are such texts.
LEMMA EndTexts ==
  /\ Ends(<<"CRLF">>) /\ Ends(<<"OK", "CRLF">>) /\ Ends(<<"ERROR", "CRLF">>)
  /\ Ends(<<"^C", "CRLF">>)
  /\ \A kind \in Shells : Ends(Prompt(kind))
<1>1. \A c \in {"CRLF", "$ ", "=> "} : Ends(<<c>>)
  <2>1. \A c : <<c>> = Append(<< >>, c)
    OBVIOUS
  <2>. QED BY <2>1, Tokens DEF Ends
<1>2. \A x \in Fixed : Ends(<<x, "CRLF">>)
  <2>1. \A x, c : <<x, c>> = Append(<<x>>, c)
    OBVIOUS
  <2>. QED BY <2>1, Texts DEF Ends
<1>3. "OK" \in Fixed /\ "ERROR" \in Fixed /\ "^C" \in Fixed
  BY DEF Fixed
<1>4. Prompt("posix") = <<"$ ">> /\ Prompt("uboot") = <<"=> ">>
  BY DEF Prompt
<1>. QED BY <1>1, <1>2, <1>3, <1>4 DEF Shells

\* What a screen shows after what was shown before and the answers is the line.
Shows(pre, d) == d.device.dead \/ Screen(pre \o d.out) = d.device.line
\* The presets with a line to edit.
Interactive == {"at", "posix", "uboot"}

\* What answering, editing the line and noting a CR change.
LEMMA AnswerFacts ==
  ASSUME NEW d \in Answers
  PROVE  /\ d.device \in Device /\ d.out \in Text
         /\ d.device.kind \in Kinds /\ d.device.line \in Seq(Key)
         /\ \A t : Answered(d, t).device = d.device /\ Answered(d, t).out = d.out \o t
         /\ \A l : /\ Lined(d, l).out = d.out /\ Lined(d, l).device.line = l
                   /\ Lined(d, l).device.kind = d.device.kind
                   /\ Lined(d, l).device.dead = d.device.dead
         /\ \A c : /\ Returned(d, c).out = d.out /\ Returned(d, c).device.line = d.device.line
                   /\ Returned(d, c).device.kind = d.device.kind
                   /\ Returned(d, c).device.dead = d.device.dead
<1>1. d.device \in Device /\ d.out \in Text /\ d.device.kind \in Kinds
      /\ d.device.line \in Seq(Key)
  BY DEF Answers, Device
<1>2. ASSUME NEW t
      PROVE  Answered(d, t).device = d.device /\ Answered(d, t).out = d.out \o t
  <2>1. \A z : [d EXCEPT !.out = z] = [device |-> d.device, out |-> z]
    BY DEF Answers
  <2>2. Answered(d, t) = [device |-> d.device, out |-> d.out \o t]
    BY <2>1, Zenon DEF Answered
  <2>. QED BY <2>2
<1>3. ASSUME NEW l
      PROVE  /\ Lined(d, l).out = d.out /\ Lined(d, l).device.line = l
             /\ Lined(d, l).device.kind = d.device.kind
             /\ Lined(d, l).device.dead = d.device.dead
  BY DEF Lined, Answers, Device
<1>4. ASSUME NEW c
      PROVE  /\ Returned(d, c).out = d.out /\ Returned(d, c).device.line = d.device.line
             /\ Returned(d, c).device.kind = d.device.kind
             /\ Returned(d, c).device.dead = d.device.dead
  BY DEF Returned, Answers, Device
<1>. QED BY <1>1, <1>2, <1>3, <1>4

\* The modem answers whole lines, or nothing, or panics.
LEMMA OnLineOut ==
  ASSUME NEW d \in Answers, d.device.kind = "at", NEW line, Ends(d.out)
  PROVE  OnLine(d, line).device.dead \/ Ends(OnLine(d, line).out)
<1>1. <<"OK", "CRLF">> \in Text /\ <<"ERROR", "CRLF">> \in Text
  BY Texts DEF Fixed
<1>2. OnLine(d, line) \in {d, [d EXCEPT !.device.dead = TRUE], Answered(d, <<"OK", "CRLF">>),
                           Answered(d, <<"ERROR", "CRLF">>)}
  BY Zenon DEF OnLine, AtLine
<1>3. [d EXCEPT !.device.dead = TRUE].device.dead
  BY DEF Answers, Device
<1>4. /\ Ends(Answered(d, <<"OK", "CRLF">>).out)
      /\ Ends(Answered(d, <<"ERROR", "CRLF">>).out)
  <2>1. /\ Answered(d, <<"OK", "CRLF">>).out = d.out \o <<"OK", "CRLF">>
        /\ Answered(d, <<"ERROR", "CRLF">>).out = d.out \o <<"ERROR", "CRLF">>
        /\ d.out \in Text
    BY AnswerFacts
  <2>. QED BY <1>1, <2>1, EndTexts, EndsClear, Zenon
<1>. QED BY <1>2, <1>3, <1>4, Zenon

\* After the end of a line screen and line are empty.
LEMMA EnterShows ==
  ASSUME NEW d \in Answers, d.device.kind \in Interactive, NEW b, NEW pre \in Text
  PROVE  Shows(pre, EnterLine(d, b))
<1> DEFINE line == d.device.line
           kind == d.device.kind
           d1 == Answered(Lined(d, << >>), <<"CRLF">>)
           ran == OnLine(d1, line)
           d2 == Answered(ran, Prompt(kind))
           cr == b = "CR"
           e == EnterLine(d, b)
           n == Lines(d.device, << >>)
<1>1. Same(<< >>, n, EnterLine(d, b), EnterLine(d, b))
  <2>1. Same(<< >>, d.device, d, d)
    BY SameType
  <2>. QED BY <2>1, EnterSame, Zenon
<1>2. e \in Answers /\ e.device.line = << >>
  BY <1>1 DEF Same, Lines
<1>3. /\ line \in Seq(Key) /\ << >> \in Seq(Key) /\ <<"CRLF">> \in Text
      /\ kind \in Kinds
  BY AnswerFacts, EmptySeq, Texts DEF Fixed
<1>4. Prompt(kind) \in Text
  BY <1>3, NewDeviceType
<1>5. Same(<< >>, n, d1, d1)
  <2>1. Same(<< >>, n, Lined(d, << >>), Lined(d, << >>))
    BY <1>3, SameType, EditSame, Zenon
  <2>. QED BY <1>3, <2>1, AnsweredSame, Zenon
<1>6. Same(<< >>, n, ran, ran)
  BY <1>3, <1>5, OnLineSame, Zenon
<1>7. Same(<< >>, n, d2, d2)
  BY <1>4, <1>6, AnsweredSame, Zenon
<1>8. e = Returned(d2, cr)
  BY Zenon DEF EnterLine, Returned, Lined
<1>9. d1 \in Answers /\ ran \in Answers /\ d2 \in Answers
  BY <1>5, <1>6, <1>7 DEF Same
<1>10. d1.device.kind = kind /\ Ends(d1.out)
  <2>1. Same(<< >>, n, Lined(d, << >>), Lined(d, << >>))
    BY <1>3, SameType, EditSame, Zenon
  <2>2. Lined(d, << >>) \in Answers /\ Lined(d, << >>).out \in Text
    BY <2>1 DEF Same, Answers
  <2>3. d1.device = Lined(d, << >>).device /\ d1.out = Lined(d, << >>).out \o <<"CRLF">>
    BY <2>2, AnswerFacts
  <2>4. Lined(d, << >>).device.kind = kind
    BY AnswerFacts
  <2>. QED BY <1>3, <2>2, <2>3, <2>4, EndTexts, EndsClear
<1>11. e.device.dead \/ Ends(e.out)
  <2>1. d2.device = ran.device /\ d2.out = ran.out \o Prompt(kind) /\ ran.out \in Text
    BY <1>9, AnswerFacts
  <2>2. e.out = d2.out /\ e.device.dead = d2.device.dead
    <3> HIDE DEF d2, cr, e
    <3>. QED BY <1>8, <1>9, AnswerFacts
  <2>3. CASE kind \in Shells
    BY <1>4, <2>1, <2>2, <2>3, EndTexts, EndsClear
  <2>4. CASE kind \notin Shells
    <3>1. kind = "at"
      BY <2>4 DEF Interactive, Shells
    <3>2. Prompt(kind) = << >>
      BY <3>1 DEF Prompt
    <3>3. ran.out \o << >> = ran.out
      BY <2>1, ConcatEmptySeq DEF Text
    <3>4. ran.device.dead \/ Ends(ran.out)
      <4> HIDE DEF d1
      <4>. QED BY <1>9, <1>10, <3>1, OnLineOut
    <3>. QED BY <2>1, <2>2, <3>2, <3>3, <3>4
  <2>. QED BY <2>3, <2>4
<1>12. Ends(e.out) => Screen(pre \o e.out) = << >>
  <2>1. e.out \in Text
    BY <1>2 DEF Answers
  <2>. QED BY <2>1, EndsClear, Texts
<1>. QED BY <1>2, <1>11, <1>12 DEF Shows

\* The screen after one token more.
LEMMA ShowMore ==
  ASSUME NEW pre \in Text, NEW t \in Text, NEW c \in Token
  PROVE  Screen(pre \o (t \o <<c>>)) = ShowChar(Screen(pre \o t), c)
<1>1. t \o <<c>> = Append(t, c) /\ pre \o t \in Text
  BY AppendsOne, Texts
<1>2. pre \o Append(t, c) = Append(pre \o t, c)
  BY AppendsLater
<1>3. Screen(Append(pre \o t, c)) = ShowChar(Screen(pre \o t), c)
  BY <1>1, Screens
<1>. QED BY <1>1, <1>2, <1>3

\* A new line with an answer to it.
LEMMA EditedShows ==
  ASSUME NEW d \in Answers, NEW line \in Seq(Key), NEW t \in Text
  PROVE  /\ Answered(Lined(d, line), t).out = d.out \o t
         /\ Answered(Lined(d, line), t).device.line = line
<1>1. Same(<< >>, Lines(d.device, line), Lined(d, line), Lined(d, line))
  BY SameType, EditSame, Zenon
<1>2. Lined(d, line) \in Answers
  BY <1>1 DEF Same
<1>3. Lined(d, line).out = d.out /\ Lined(d, line).device.line = line
  BY AnswerFacts
<1> DEFINE e == Lined(d, line)
<1> HIDE DEF e
<1>4. e \in Answers /\ e.out = d.out /\ e.device.line = line
  BY <1>2, <1>3 DEF e
<1>5. Answered(e, t).device = e.device /\ Answered(e, t).out = e.out \o t
  BY <1>4, AnswerFacts
<1>. QED BY <1>4, <1>5 DEF e

\* Every byte changes screen and line alike.
LEMMA FeedByteShows ==
  ASSUME NEW d \in Answers, d.device.kind \in Interactive, NEW b \in Key, NEW pre \in Text,
         Shows(pre, d)
  PROVE  /\ FeedByte(d, b) \in Answers /\ FeedByte(d, b).device.kind = d.device.kind
         /\ Shows(pre, FeedByte(d, b))
<1> DEFINE d1 == Returned(d, FALSE)
           line == d.device.line
           kind == d.device.kind
           more == Append(line, b)
           typed1 == Answered(Lined(d1, more), <<b>>)
           said == <<"^C", "CRLF">> \o Prompt(kind)
<1>1. Alike(<< >>, d.device, FeedByte(d, b), FeedByte(d, b))
  BY SameType, FeedByteSame, Zenon
<1>2. FeedByte(d, b) \in Answers /\ FeedByte(d, b).device.kind = d.device.kind
  BY <1>1 DEF Alike, Same, Lines
<1>3. Same(<< >>, d.device, d1, d1)
  BY SameType, EditSame, Zenon
<1>4. /\ d1 \in Answers /\ d1.device.kind = kind /\ d1.device.line = line /\ d1.out = d.out
      /\ d1.device.dead = d.device.dead
      /\ d.out \in Text /\ line \in Seq(Key) /\ kind \in Kinds
  BY <1>3, AnswerFacts DEF Same
<1>5. Shows(pre, d1)
  BY <1>4 DEF Shows
<1>6. d1 = [d EXCEPT !.device.was_cr = FALSE]
  BY Zenon DEF Returned
<1> HIDE DEF d1
<1>7. FeedByte(d, b) \in {d, d1, EnterLine(d1, b), RubOut(d1), Abandon(d1), typed1}
      /\ (d.device.dead => FeedByte(d, b) = d)
  <2>1. kind # "echo" /\ line = d1.device.line
    BY <1>4 DEF Interactive
  <2>2. Lined(d1, more) = [d1 EXCEPT !.device.line = Append(@, b)]
    BY <2>1, Zenon DEF Lined
  <2> HIDE DEF more
  <2>. QED BY <1>6, <2>1, <2>2, Zenon DEF FeedByte
<1>8. ASSUME ~d.device.dead
      PROVE  Screen(pre \o d.out) = line /\ pre \o d.out \in Text
  BY <1>4, <1>8, Texts DEF Shows
<1>9. Shows(pre, EnterLine(d1, b))
  BY <1>4, EnterShows
<1>10. ASSUME ~d.device.dead
       PROVE  Shows(pre, RubOut(d1))
  <2>1. CASE line = << >>
    <3>1. RubOut(d1) = d1
      BY <1>4, <2>1, Zenon DEF RubOut
    <3>. QED BY <1>5, <3>1
  <2>2. CASE line # << >>
    <3> DEFINE less == Front(line)
               r == Answered(Lined(d1, less), <<"RUB">>)
    <3>1. less \in Seq(Key)
      BY <1>4, <2>2, FrontType
    <3>2. RubOut(d1) = r
      BY <1>4, <2>2, Zenon DEF RubOut, Lined
    <3>3. "RUB" \in Token /\ <<"RUB">> \in Text
      BY Tokens DEF Fixed
    <3>4. r.out = d.out \o <<"RUB">> /\ r.device.line = less
      <4>1. r.out = d1.out \o <<"RUB">> /\ r.device.line = less
        BY <1>4, <3>1, <3>3, EditedShows, Zenon
      <4>. QED BY <1>4, <4>1, Zenon
    <3> HIDE DEF r, less
    <3>5. Screen(pre \o r.out) = ShowChar(line, "RUB")
      BY <1>4, <1>8, <1>10, <3>3, <3>4, ShowMore
    <3>6. ShowChar(line, "RUB") = less
      BY <2>2 DEF ShowChar, less
    <3>7. Shows(pre, r)
      BY <3>4, <3>5, <3>6 DEF Shows
    <3>. QED BY <3>2, <3>7
  <2>. QED BY <2>1, <2>2
<1>11. Shows(pre, Abandon(d1))
  <2> DEFINE r == Answered(Lined(d1, << >>), said)
  <2>1. <<"^C", "CRLF">> \in Text /\ Prompt(kind) \in Text /\ << >> \in Seq(Key)
    BY <1>4, Texts, NewDeviceType, EmptySeq DEF Fixed
  <2>2. said \in Text /\ Ends(said)
    <3>1. CASE kind \in Shells
      BY <2>1, <3>1, Texts, EndTexts, EndsClear
    <3>2. CASE kind \notin Shells
      <4>1. Prompt(kind) = << >>
        BY <3>2 DEF Prompt, Shells
      <4>2. said = <<"^C", "CRLF">>
        BY <2>1, <4>1, ConcatEmptySeq DEF Text
      <4>. QED BY <2>1, <4>2, EndTexts
    <3>. QED BY <3>1, <3>2
  <2>3. Abandon(d1) = r
    BY <1>4, Zenon DEF Abandon, Lined
  <2> HIDE DEF said
  <2>4. r.out = d.out \o said /\ r.device.line = << >>
    <3>1. r.out = d1.out \o said /\ r.device.line = << >>
      BY <1>4, <2>1, <2>2, EditedShows, Zenon
    <3>. QED BY <1>4, <3>1, Zenon
  <2> HIDE DEF r
  <2>5. Ends(d.out \o said) /\ d.out \o said \in Text
    BY <1>4, <2>2, EndsClear, Texts
  <2>6. Screen(pre \o (d.out \o said)) = << >>
    BY <2>5, EndsClear, Texts
  <2>. QED BY <2>3, <2>4, <2>6 DEF Shows
<1>12. ASSUME ~d.device.dead
       PROVE  Shows(pre, typed1)
  <2>1. b \in Token /\ <<b>> \in Text
    BY Tokens
  <2>2. more \in Seq(Key)
    BY <1>4, AppendProperties
  <2>3. typed1.out = d.out \o <<b>> /\ typed1.device.line = more
    <3>1. typed1.out = d1.out \o <<b>> /\ typed1.device.line = more
      BY <1>4, <2>1, <2>2, EditedShows, Zenon
    <3>. QED BY <1>4, <3>1, Zenon
  <2> HIDE DEF typed1
  <2>4. Screen(pre \o typed1.out) = ShowChar(line, b)
    BY <1>4, <1>8, <1>12, <2>1, <2>3, ShowMore
  <2>5. ShowChar(line, b) = more
    BY DEF ShowChar, Key
  <2>. QED BY <2>3, <2>4, <2>5 DEF Shows
<1> HIDE DEF typed1
<1>13. CASE d.device.dead
  BY <1>2, <1>7, <1>13
<1>14. CASE ~d.device.dead
  BY <1>2, <1>5, <1>7, <1>9, <1>10, <1>11, <1>12, <1>14
<1>. QED BY <1>13, <1>14

\* So does everything fed.
LEMMA FeedShows ==
  ASSUME NEW dev \in Device, dev.kind \in Interactive, NEW pre \in Text,
         dev.dead \/ Screen(pre) = dev.line, NEW input \in Seq(Key)
  PROVE  /\ Feed(dev, input).device.kind = dev.kind
         /\ Shows(pre, Feed(dev, input))
<1> DEFINE x == Unanswered(dev)
           Held(s) == /\ FeedByteAll(x, s).device.kind = dev.kind
                      /\ Shows(pre, FeedByteAll(x, s))
           T == {s \in Seq(Key) : Held(s)}
<1>1. x \in Answers /\ x.device = dev /\ x.out = << >>
  BY FeedFacts DEF Unanswered
<1> HIDE DEF x
<1>2. << >> \in T
  <2>1. pre \o << >> = pre
    BY ConcatEmptySeq DEF Text
  <2>2. FeedByteAll(x, << >>) = x
    BY <1>1, FeedAll
  <2>. QED BY <1>1, <2>1, <2>2, EmptySeq DEF Shows
<1>3. ASSUME NEW s \in T, NEW b \in Key PROVE Append(s, b) \in T
  <2>1. s \in Seq(Key) /\ Append(s, b) \in Seq(Key)
    BY AppendProperties
  <2>2. /\ FeedByteAll(x, s) \in Answers /\ FeedByteAll(x, s).device.kind = dev.kind
        /\ Shows(pre, FeedByteAll(x, s))
    BY <1>1, <2>1, FeedAll
  <2>3. FeedByteAll(x, Append(s, b)) = FeedByte(FeedByteAll(x, s), b)
    BY <1>1, <2>1, FeedAll
  <2>. QED BY <2>1, <2>2, <2>3, FeedByteShows
<1>4. T = Seq(Key)
  <2>1. T \in SUBSET Seq(Key) /\ \A s \in T, b \in Key : Append(s, b) \in T
    BY <1>3
  <2> HIDE DEF T
  <2>. QED BY <1>2, <2>1, SeqSet
<1>5. Feed(dev, input) = FeedByteAll(x, input)
  BY FeedFacts DEF x
<1>6. Held(input)
  BY <1>4
<1>. QED BY <1>5, <1>6

-----------------------------------------------------------------------------
(* Types.                                                                  *)

\* The types of the state, strong enough to be inductive.
PortType == /\ script \in Scripts /\ typed \in 0..Len(script.keys)
            /\ keys \in Seq(Key) /\ Len(keys) <= PtyBuf
            /\ pty \in Text /\ Len(pty) <= PtyBuf /\ heard \in Text
LoopType == /\ loop \in {"select", "dead", "done"}
            /\ incells \in Seq(Seq(Key)) /\ outcells \in Seq(Text)
            /\ device \in Device
            /\ device.dead => loop = "dead"
            /\ Preset => device.kind = script.kind
TaskType == /\ toChild \in {"none", "running", "ended"}
            /\ fromChild \in {"none", "running", "ended", "failed"}
            /\ Preset => toChild = "none" /\ fromChild = "none"
KidType  == /\ child \in {"none", "running", "exited"}
            /\ stdin \in Seq(Key) /\ Len(stdin) <= PtyBuf
            /\ stdout \in Text /\ Len(stdout) <= PtyBuf
            /\ childgot \in Seq(Key) /\ wrote \in Nat
            /\ Preset => child = "none" /\ stdin = << >> /\ stdout = << >>
Typed == PortType /\ LoopType /\ TaskType /\ KidType

\* A script is for one preset or for a program, and has bytes to type.
LEMMA Kindly ==
  ASSUME NEW s \in Scripts
  PROVE  /\ s.keys \in Seq(Key) /\ s.kind \in Kinds \cup {"exec"}
         /\ Len(s.keys) \in Nat /\ ~(s.kind \in Kinds /\ s.kind = "exec")
BY ScriptsAssumption, LenProperties DEF Kinds

\* The types hold at first.
LEMMA TypedInit == Init => Typed
<1> SUFFICES ASSUME Init PROVE Typed
  OBVIOUS
<1> DEFINE kind == IF Preset THEN script.kind ELSE "echo"
<1>1. script \in Scripts /\ script.keys \in Seq(Key) /\ Len(script.keys) \in Nat
      /\ ~(Preset /\ Exec)
  BY Kindly DEF Init, Preset, Exec
<1>2. kind \in Kinds /\ (Preset => kind = script.kind)
  BY DEF Preset, Kinds
<1> HIDE DEF kind
<1>3. device = NewDevice(kind) /\ outcells = Cells(Prompt(device.kind))
  BY DEF Init, kind
<1>4. device \in Device /\ Prompt(kind) \in Text /\ device.kind = kind /\ ~device.dead
  BY <1>2, <1>3, NewDeviceType DEF NewDevice
<1>5. outcells \in Seq(Text)
  BY <1>3, <1>4, CellsType DEF Text
<1>6. << >> \in Seq(Key) /\ << >> \in Seq(Seq(Key)) /\ << >> \in Text /\ Len(<< >>) <= PtyBuf
  BY EmptySeq, Tokens, BytesAssumption
<1>7. PortType
  BY <1>1, <1>6 DEF Init, PortType
<1>8. LoopType
  BY <1>2, <1>4, <1>5, <1>6 DEF Init, LoopType
<1>9. TaskType
  BY <1>1 DEF Init, TaskType
<1>10. KidType
  BY <1>1, <1>6 DEF Init, KidType
<1>. QED BY <1>7, <1>8, <1>9, <1>10 DEF Typed

\* A read cut into cells loses nothing, nor
LEMMA Reading ==
  ASSUME NEW S, NEW buffer \in Seq(S), Len(buffer) <= PtyBuf
  PROVE  /\ Cells(ReadOf(buffer)) \in Seq(Seq(S)) /\ LeftBy(buffer) \in Seq(S)
         /\ Len(LeftBy(buffer)) <= PtyBuf
         /\ Bytes(Cells(ReadOf(buffer))) \o LeftBy(buffer) = buffer
<1>1. /\ ReadOf(buffer) \in Seq(S) /\ LeftBy(buffer) \in Seq(S)
      /\ ReadOf(buffer) \o LeftBy(buffer) = buffer
  BY ReadSplits
<1>2. Bytes(Cells(ReadOf(buffer))) = ReadOf(buffer)
  BY <1>1, CellsWhole DEF Bytes
<1>3. Cells(ReadOf(buffer)) \in Seq(Seq(S))
  BY <1>1, CellsType
<1>4. Len(LeftBy(buffer)) <= PtyBuf
  <2>1. Len(LeftBy(buffer)) <= Len(buffer) /\ Len(LeftBy(buffer)) \in Nat /\ Len(buffer) \in Nat
    BY <1>1, LeftByShorter, LenProperties
  <2>. QED BY <2>1, BytesAssumption
<1>. QED BY <1>1, <1>2, <1>3, <1>4

\* does a write that takes as many bytes as there is room for.
LEMMA Writing ==
  ASSUME NEW S, NEW buffer \in Seq(S), Len(buffer) <= PtyBuf,
         NEW cells \in Seq(Seq(S)), cells # << >>
  PROVE  /\ Filled(buffer, Head(cells)) \in Seq(S)
         /\ Len(Filled(buffer, Head(cells))) <= PtyBuf
         /\ CellsLeft(cells, buffer) \in Seq(Seq(S))
         /\ Filled(buffer, Head(cells)) \o Bytes(CellsLeft(cells, buffer))
              = buffer \o Bytes(cells)
<1>1. Head(cells) \in Seq(S)
  BY HeadTailProperties
<1>2. /\ Filled(buffer, Head(cells)) \in Seq(S)
      /\ Len(Filled(buffer, Head(cells))) <= PtyBuf
  BY <1>1, WriteSplits
<1>3. CellsLeft(cells, buffer) \in Seq(Seq(S))
  BY CellsLeftType
<1>4. Filled(buffer, Head(cells)) \o FlattenSeq(CellsLeft(cells, buffer))
        = buffer \o FlattenSeq(cells)
  BY CellsWritten
<1>. QED BY <1>2, <1>3, <1>4, Zenon DEF Bytes

\* A device stays of its kind.
LEMMA FeedKind ==
  ASSUME NEW dev \in Device, NEW input \in Seq(Key)
  PROVE  Feed(dev, input).device.kind = dev.kind
<1> DEFINE x == Unanswered(dev)
<1>1. x \in Answers /\ x.device = dev
  BY FeedFacts DEF Unanswered
<1> HIDE DEF x
<1>2. Same(<< >>, dev, x, x)
  BY <1>1, SameType
<1>3. Alike(<< >>, dev, FeedByteAll(x, input), FeedByteAll(x, input))
  BY <1>2, FeedAllSame, Zenon
<1>4. FeedByteAll(x, input).device.kind = dev.kind
  BY <1>3 DEF Alike, Same, Lines
<1>5. Feed(dev, input) = FeedByteAll(x, input)
  BY FeedFacts DEF x
<1>. QED BY <1>4, <1>5

\* Every step keeps them.
LEMMA TypedStep == Typed /\ [Next]_vars => Typed'
<1> SUFFICES ASSUME Typed, [Next]_vars PROVE Typed'
  OBVIOUS
<1> USE DEF Typed
<1>1. << >> \in Seq(Key) /\ << >> \in Seq(Seq(Key)) /\ << >> \in Seq(Text) /\ << >> \in Text
      /\ Len(<< >>) = 0 /\ PtyBuf \in Nat \ {0}
  BY EmptySeq, Tokens, BytesAssumption
<1>2. script.keys \in Seq(Key) /\ Len(script.keys) \in Nat /\ ~(Preset /\ Exec)
  BY Kindly DEF PortType, Preset, Exec
<1>3. Len(keys) \in Nat /\ Len(stdin) \in Nat /\ Len(stdout) \in Nat /\ Len(pty) \in Nat
  BY LenProperties DEF PortType, KidType, Text
<1>4. script' = script => (Preset' <=> Preset) /\ (Exec' <=> Exec)
  BY DEF Preset, Exec
<1>5. CASE UNCHANGED vars
  BY <1>4, <1>5 DEF vars, port, tasks, kid, PortType, LoopType, TaskType, KidType
<1>6. CASE PresetReads \/ ToChildReads
  <2>1. /\ incells' = Cells(ReadOf(keys)) /\ keys' = LeftBy(keys)
        /\ UNCHANGED <<script, typed, pty, heard, loop, outcells, device, tasks, kid>>
    BY <1>6 DEF PresetReads, ToChildReads
  <2>2. incells' \in Seq(Seq(Key)) /\ keys' \in Seq(Key) /\ Len(keys') <= PtyBuf
    BY <2>1, Reading DEF PortType
  <2>. QED BY <1>4, <2>1, <2>2 DEF tasks, kid, PortType, LoopType, TaskType, KidType
<1>7. CASE PresetFeeds
  <2> DEFINE fed == Feed(device, Head(incells))
  <2>1. Head(incells) \in Seq(Key) /\ Tail(incells) \in Seq(Seq(Key)) /\ device \in Device
    BY <1>7, HeadTailProperties DEF PresetFeeds, LoopType
  <2>2. fed.device \in Device /\ fed.out \in Text /\ fed.device.kind = device.kind
    BY <2>1, FeedFacts, FeedKind
  <2>3. /\ device' = fed.device
        /\ loop' = IF fed.device.dead THEN "dead" ELSE loop
        /\ outcells' = IF fed.device.dead THEN << >> ELSE Cells(fed.out)
        /\ incells' = Tail(incells) /\ UNCHANGED <<port, tasks, kid>>
    BY <1>7, Zenon DEF PresetFeeds
  <2> HIDE DEF fed
  <2>4. Cells(fed.out) \in Seq(Text)
    BY <2>2, CellsType DEF Text
  <2>5. script' = script
    BY <2>3 DEF port
  <2>6. LoopType'
    BY <1>1, <1>4, <2>1, <2>2, <2>3, <2>4, <2>5 DEF LoopType
  <2>. QED BY <1>4, <2>3, <2>5, <2>6 DEF port, tasks, kid, PortType, TaskType, KidType
<1>8. CASE Delivers
  <2>1. pty' \in Text /\ Len(pty') <= PtyBuf /\ outcells' \in Seq(Text)
    BY <1>8, Writing DEF Delivers, PortType, LoopType, Text
  <2>. QED BY <1>4, <1>8, <2>1 DEF Delivers, tasks, kid, PortType, LoopType, TaskType, KidType
<1>9. CASE PresetFails
  BY <1>1, <1>4, <1>9 DEF PresetFails, port, tasks, kid, PortType, LoopType, TaskType, KidType
<1>10. CASE ToChildWrites
  <2>1. stdin' \in Seq(Key) /\ Len(stdin') <= PtyBuf /\ incells' \in Seq(Seq(Key))
    BY <1>10, Writing DEF ToChildWrites, KidType, LoopType
  <2>. QED BY <1>2, <1>4, <1>10, <2>1
           DEF ToChildWrites, port, tasks, PortType, LoopType, TaskType, KidType
<1>11. CASE ToChildEnds
  BY <1>1, <1>2, <1>4, <1>11 DEF ToChildEnds, port, kid, PortType, LoopType, TaskType, KidType
<1>12. CASE FromChildReads
  <2>1. /\ Cells(ReadOf(stdout)) \in Seq(Text) /\ LeftBy(stdout) \in Text
        /\ Len(LeftBy(stdout)) <= PtyBuf
    BY Reading DEF KidType, Text
  <2>. QED BY <1>2, <1>4, <1>12, <2>1
           DEF FromChildReads, port, tasks, PortType, LoopType, TaskType, KidType
<1>13. CASE FromChildEnds
  BY <1>2, <1>4, <1>13 DEF FromChildEnds, port, kid, PortType, LoopType, TaskType, KidType
<1>14. CASE FromChildFails
  BY <1>1, <1>2, <1>4, <1>14 DEF FromChildFails, port, PortType, LoopType, TaskType, KidType
<1>15. CASE ChildReaped
  BY <1>1, <1>2, <1>4, <1>15 DEF ChildReaped, port, PortType, LoopType, TaskType, KidType
<1>16. CASE ConsumerTypes
  <2>1. typed + 1 \in 1..Len(script.keys)
    BY <1>2, <1>16 DEF ConsumerTypes, PortType
  <2>2. script.keys[typed + 1] \in Key
    BY <1>2, <2>1, ElementOfSeq
  <2>3. keys' \in Seq(Key) /\ Len(keys') = Len(keys) + 1
    BY <1>16, <2>2, AppendProperties DEF ConsumerTypes, PortType
  <2>4. Len(keys) + 1 <= PtyBuf
    BY <1>1, <1>3, <1>16 DEF ConsumerTypes, Room
  <2>. QED BY <1>4, <1>16, <2>1, <2>3, <2>4
           DEF ConsumerTypes, tasks, kid, PortType, LoopType, TaskType, KidType
<1>17. CASE ConsumerReads
  <2>1. heard \o pty \in Text
    BY Texts DEF PortType
  <2>. QED BY <1>1, <1>4, <1>17, <2>1
           DEF ConsumerReads, tasks, kid, PortType, LoopType, TaskType, KidType
<1>18. CASE ChildReads
  <2>1. /\ Append(childgot, Head(stdin)) \in Seq(Key) /\ Tail(stdin) \in Seq(Key)
        /\ Len(Tail(stdin)) <= PtyBuf
    BY <1>1, <1>3, <1>18, HeadTailProperties, AppendProperties DEF ChildReads, KidType
  <2>. QED BY <1>4, <1>18, <2>1 DEF ChildReads, port, tasks, PortType, LoopType, TaskType, KidType
<1>19. CASE ChildWrites
  <2>1. wrote + 1 \in Nat /\ wrote + 1 \in Token
    BY Tokens DEF KidType
  <2>2. Append(stdout, wrote + 1) \in Text /\ Len(Append(stdout, wrote + 1)) = Len(stdout) + 1
    BY <2>1, AppendProperties DEF KidType, Text
  <2>3. Len(stdout) + 1 <= PtyBuf
    BY <1>1, <1>3, <1>19 DEF ChildWrites, Room
  <2>. QED BY <1>4, <1>19, <2>1, <2>2, <2>3
           DEF ChildWrites, port, tasks, PortType, LoopType, TaskType, KidType
<1>20. CASE ChildCloses \/ ChildExits
  BY <1>4, <1>20 DEF ChildCloses, ChildExits, port, tasks, PortType, LoopType, TaskType, KidType
<1>. QED BY <1>5, <1>6, <1>7, <1>8, <1>9, <1>10, <1>11, <1>12, <1>13, <1>14, <1>15, <1>16,
            <1>17, <1>18, <1>19, <1>20 DEF Next, PresetLoop, ToChild, FromChild

\* Every variable has its type, no kernel buffer or pipe holds more than it can, a
\* preset has no child, and a device that panicked has ended the loop (run, sim.rs).
THEOREM TypeCorrect == Spec => []TypeOK
<1>1. Typed => TypeOK
  BY DEF Typed, PortType, LoopType, TaskType, KidType, TypeOK
<1>. QED BY <1>1, TypedInit, TypedStep, PTL DEF Spec

-----------------------------------------------------------------------------
(* Presets: the transcript.                                                *)

\* A new device of that kind was fed all of what was said but pend: that is how dev got
\* to where it is, and what it was answered is out.
Agree(dev, pend, out, kind, said) ==
  \E fed \in Seq(Key) : LET first == Feed(NewDevice(kind), fed)
                        IN  /\ fed \o pend = said
                            /\ dev = first.device /\ out = Prompt(kind) \o first.out

\* A new device agrees.
LEMMA AgreeStart ==
  ASSUME NEW kind \in Kinds
  PROVE  Agree(NewDevice(kind), << >>, Prompt(kind), kind, << >>)
<1> DEFINE first == Feed(NewDevice(kind), << >>)
<1>1. << >> \in Seq(Key) /\ << >> \o << >> = << >>
  BY EmptySeq, ConcatEmptySeq
<1>2. Prompt(kind) \in Text /\ Prompt(kind) \o << >> = Prompt(kind)
  BY NewDeviceType, ConcatEmptySeq DEF Text
<1>3. first = Unanswered(NewDevice(kind))
  BY <1>1, NewDeviceType, FeedFacts
<1>4. first.device = NewDevice(kind) /\ first.out = << >>
  BY <1>3 DEF Unanswered
<1>. QED BY <1>1, <1>2, <1>4, Zenon DEF Agree

\* Feeding it the first of what is to come changes nothing about that,
LEMMA AgreeFeeds ==
  ASSUME NEW dev \in Device, NEW h \in Seq(Key), NEW pend \in Seq(Key),
         NEW kind \in Kinds, NEW out, NEW said, Agree(dev, h \o pend, out, kind, said)
  PROVE  Agree(Feed(dev, h).device, pend, out \o Feed(dev, h).out, kind, said)
<1> DEFINE new == NewDevice(kind)
<1>1. PICK fed \in Seq(Key) : /\ fed \o (h \o pend) = said
                              /\ dev = Feed(new, fed).device
                              /\ out = Prompt(kind) \o Feed(new, fed).out
  BY Zenon DEF Agree
<1>2. new \in Device /\ Prompt(kind) \in Text
  BY NewDeviceType
<1>3. fed \o h \in Seq(Key) /\ (fed \o h) \o pend = said
  <2>1. fed \o h \in Seq(Key)
    BY ConcatProperties
  <2>2. Associative(Key)
    BY Regrouped, Zenon
  <2>3. (fed \o h) \o pend = fed \o (h \o pend)
    BY <2>2, Zenon DEF Associative
  <2>. QED BY <1>1, <2>1, <2>3, Zenon
<1> DEFINE first == Feed(new, fed)
           then == Feed(dev, h)
           both == Feed(new, fed \o h)
<1>4. /\ first \in Answers /\ then \in Answers
      /\ both.device = then.device /\ both.out = first.out \o then.out
  BY <1>1, <1>2, FeedSplits
<1>5. out = Prompt(kind) \o first.out
  BY <1>1
<1> HIDE DEF first, then, both
<1>6. out \o then.out = Prompt(kind) \o both.out
  <2>1. Associative(Token)
    BY Regrouped, Zenon
  <2>2. first.out \in Text /\ then.out \in Text
    BY <1>4 DEF Answers
  <2>3. (Prompt(kind) \o first.out) \o then.out = Prompt(kind) \o (first.out \o then.out)
    BY <1>2, <2>1, <2>2, Zenon DEF Associative, Text
  <2>. QED BY <1>4, <1>5, <2>3, Zenon
<1>. QED BY <1>3, <1>4, <1>6, Zenon DEF Agree, then, both

\* nor does typing one byte more.
LEMMA AgreeTypes ==
  ASSUME NEW dev, NEW pend \in Seq(Key), NEW out, NEW kind, NEW said,
         Agree(dev, pend, out, kind, said), NEW k \in Key
  PROVE  Agree(dev, Append(pend, k), out, kind, Append(said, k))
<1>1. PICK fed \in Seq(Key) : /\ fed \o pend = said
                              /\ dev = Feed(NewDevice(kind), fed).device
                              /\ out = Prompt(kind) \o Feed(NewDevice(kind), fed).out
  BY Zenon DEF Agree
<1>2. fed \o Append(pend, k) = Append(said, k)
  BY <1>1, ConcatAppended
<1>. QED BY <1>1, <1>2, Zenon DEF Agree

\* What was typed and not yet fed, and the inductive form of PresetTranscript.
Pending == Bytes(incells) \o keys
Answering == Preset /\ loop = "select" =>
               Agree(device, Pending, Output, script.kind, TypedSoFar)

\* Whoever reads, what was sent stays, and a write moves bytes from cells to port.
LEMMA OutputFacts ==
  ASSUME Typed, [Next]_vars
  PROVE  /\ Output \in Text /\ Pending \in Seq(Key)
         /\ UNCHANGED <<heard, pty, outcells>> => Output' = Output
         /\ Delivers \/ ConsumerReads => Output' = Output
<1>1. heard \in Text /\ pty \in Text /\ outcells \in Seq(Text) /\ Len(pty) <= PtyBuf
      /\ incells \in Seq(Seq(Key)) /\ keys \in Seq(Key)
  BY DEF Typed, PortType, LoopType
<1>2. Bytes(outcells) \in Text /\ Bytes(incells) \in Seq(Key)
  BY <1>1, FlatType DEF Bytes, Text
<1>3. Output \in Text /\ Pending \in Seq(Key)
  <2>1. Bytes(incells) \o keys \in Seq(Key)
    BY <1>1, <1>2, ConcatProperties
  <2>. QED BY <1>1, <1>2, <2>1, Texts DEF Output, Sent, Pending
<1>4. UNCHANGED <<heard, pty, outcells>> => Output' = Output
  BY DEF Output, Sent
<1>5. Associative(Token)
  BY Regrouped, Zenon
<1>6. ASSUME Delivers PROVE Output' = Output
  <2>1. /\ pty' = Filled(pty, Head(outcells)) /\ outcells' = CellsLeft(outcells, pty)
        /\ heard' = heard /\ outcells # << >>
    BY <1>6 DEF Delivers
  <2>2. pty' \in Text /\ Bytes(outcells') \in Text
        /\ pty' \o Bytes(outcells') = pty \o Bytes(outcells)
    <3>1. pty' \in Text /\ outcells' \in Seq(Text)
          /\ pty' \o Bytes(outcells') = pty \o Bytes(outcells)
      BY <1>1, <2>1, Writing DEF Text
    <3>. QED BY <3>1, FlatType DEF Bytes, Text
  <2>3. (heard \o pty') \o Bytes(outcells') = heard \o (pty' \o Bytes(outcells'))
    BY <1>1, <1>5, <2>2, Zenon DEF Associative, Text
  <2>4. (heard \o pty) \o Bytes(outcells) = heard \o (pty \o Bytes(outcells))
    BY <1>1, <1>2, <1>5, Zenon DEF Associative, Text
  <2>5. Output' = (heard \o pty') \o Bytes(outcells')
    BY <2>1 DEF Output, Sent, Bytes
  <2>. QED BY <2>2, <2>3, <2>4, <2>5, Zenon DEF Output, Sent
<1>7. ASSUME ConsumerReads PROVE Output' = Output
  <2>1. heard' = heard \o pty /\ pty' = << >> /\ outcells' = outcells
    BY <1>7 DEF ConsumerReads
  <2>2. heard \o pty \in Text
    BY <1>1, Texts
  <2>3. (heard \o pty) \o << >> = heard \o pty
    BY <2>2, ConcatEmptySeq DEF Text
  <2>. QED BY <2>1, <2>3 DEF Output, Sent
<1>. QED BY <1>3, <1>4, <1>6, <1>7

\* The device feeds on what was read first.
LEMMA FeedsPending ==
  ASSUME NEW cells \in Seq(Seq(Key)), cells # << >>, NEW more \in Seq(Key)
  PROVE  /\ Head(cells) \in Seq(Key) /\ Bytes(Tail(cells)) \o more \in Seq(Key)
         /\ Bytes(cells) \o more = Head(cells) \o (Bytes(Tail(cells)) \o more)
<1>1. Head(cells) \in Seq(Key) /\ Tail(cells) \in Seq(Seq(Key))
  BY HeadTailProperties
<1>2. Bytes(Tail(cells)) \in Seq(Key) /\ Bytes(cells) = Head(cells) \o Bytes(Tail(cells))
  BY <1>1, FlatType, FlatHead DEF Bytes
<1>3. Associative(Key)
  BY Regrouped, Zenon
<1>4. (Head(cells) \o Bytes(Tail(cells))) \o more = Head(cells) \o (Bytes(Tail(cells)) \o more)
  BY <1>1, <1>2, <1>3, Zenon DEF Associative
<1>5. Bytes(Tail(cells)) \o more \in Seq(Key)
  BY <1>2, ConcatProperties
<1>. QED BY <1>1, <1>2, <1>4, <1>5, Zenon

\* What was typed is the keys of the script up to there.
LEMMA TypedMore ==
  ASSUME Typed
  PROVE  /\ TypedSoFar \in Seq(Key)
         /\ UNCHANGED <<script, typed>> => TypedSoFar' = TypedSoFar
         /\ ConsumerTypes =>
              /\ script.keys[typed + 1] \in Key
              /\ TypedSoFar' = Append(TypedSoFar, script.keys[typed + 1])
<1> DEFINE all == script.keys
           n == Len(all)
<1>1. all \in Seq(Key) /\ n \in Nat /\ typed \in 0..n
  BY Kindly DEF Typed, PortType
<1>2. TypedSoFar \in Seq(Key)
  BY <1>1, CutInTwo DEF TypedSoFar
<1>3. UNCHANGED <<script, typed>> => TypedSoFar' = TypedSoFar
  BY DEF TypedSoFar
<1>4. ASSUME ConsumerTypes
      PROVE  /\ all[typed + 1] \in Key
             /\ TypedSoFar' = Append(TypedSoFar, all[typed + 1])
  <2>1. typed < n /\ typed' = typed + 1 /\ script' = script
    BY <1>4 DEF ConsumerTypes
  <2>2. all[typed + 1] \in Key
    BY <1>1, <2>1, ElementOfSeq
  <2>3. TypedSoFar' = SubSeq(all, 1, typed + 1)
    BY <2>1 DEF TypedSoFar
  <2> HIDE DEF all
  <2>4. SubSeq(all, 1, typed + 1) = Append(SubSeq(all, 1, typed), all[typed + 1])
    <3>1. typed + 1 \in 0..n
      BY <1>1, <2>1
    <3> DEFINE u == SubSeq(all, 1, typed + 1)
               v == SubSeq(all, 1, typed)
    <3>2. u \in Seq(Key) /\ Len(u) = typed + 1 /\ v \in Seq(Key) /\ Len(v) = typed
      BY <1>1, <3>1, CutInTwo
    <3>3. \A i \in 1..(typed + 1) : u[i] = all[i]
      BY <1>1, <3>1
    <3>4. \A i \in 1..typed : v[i] = all[i]
      BY <1>1
    <3> HIDE DEF u, v
    <3> DEFINE w == Append(v, all[typed + 1])
    <3>5. w \in Seq(Key) /\ Len(w) = typed + 1 /\ w[typed + 1] = all[typed + 1]
          /\ \A i \in 1..typed : w[i] = v[i]
      BY <2>2, <3>2, AppendProperties
    <3> HIDE DEF w
    <3>6. \A i \in 1..(typed + 1) : u[i] = w[i]
      BY <1>1, <3>3, <3>4, <3>5
    <3>7. u = w
      BY <3>2, <3>5, <3>6, SeqEqual
    <3>. QED BY <3>7 DEF u, v, w
  <2>. QED BY <2>2, <2>3, <2>4 DEF TypedSoFar, all
<1>. QED BY <1>2, <1>3, <1>4

\* It holds at first,
LEMMA AnsweringInit == Init => Answering
<1> SUFFICES ASSUME Init, Preset, loop = "select"
             PROVE  Agree(device, Pending, Output, script.kind, TypedSoFar)
  BY Zenon DEF Answering
<1> DEFINE kind == script.kind
<1>1. kind \in Kinds /\ device = NewDevice(kind) /\ outcells = Cells(Prompt(device.kind))
  BY DEF Init, Preset
<1>2. device.kind = kind /\ Prompt(kind) \in Text
  BY <1>1, NewDeviceType DEF NewDevice
<1>3. Bytes(outcells) = Prompt(kind)
  BY <1>1, <1>2, CellsWhole DEF Bytes, Text
<1>4. /\ heard = << >> /\ pty = << >> /\ incells = << >> /\ keys = << >> /\ typed = 0
  BY DEF Init
<1>5. Output = Prompt(kind)
  <2>1. (<< >> \o << >>) \o Prompt(kind) = Prompt(kind)
    <3>1. << >> \o << >> = << >> /\ << >> \o Prompt(kind) = Prompt(kind)
      BY <1>2, ConcatEmptySeq, EmptySeq DEF Text
    <3>. QED BY <3>1
  <2>. QED BY <1>3, <1>4, <2>1 DEF Output, Sent
<1>6. Pending = << >>
  <2>1. << >> \o << >> = << >>
    BY ConcatEmptySeq, EmptySeq
  <2>. QED BY <1>4, <2>1, FlatEmpty DEF Pending, Bytes
<1>7. TypedSoFar = << >>
  <2>1. script.keys \in Seq(Key) /\ 0 \in 0..Len(script.keys)
    BY Kindly DEF Init
  <2>2. SubSeq(script.keys, 1, 0) \in Seq(Key) /\ Len(SubSeq(script.keys, 1, 0)) = 0
    BY <2>1, CutInTwo
  <2>. QED BY <1>4, <2>2, EmptySeq DEF TypedSoFar
<1>. QED BY <1>1, <1>5, <1>6, <1>7, AgreeStart

\* and however reads, cells, writes and typing follow each other;
LEMMA AnsweringStep == Typed /\ Answering /\ [Next]_vars => Answering'
<1> SUFFICES ASSUME Typed, Answering, [Next]_vars, Preset', loop' = "select"
             PROVE  Agree(device, Pending, Output, script.kind, TypedSoFar)'
  BY Zenon DEF Answering
<1>1. script' = script /\ loop = "select"
  BY DEF Next, PresetLoop, PresetReads, PresetFeeds, PresetFails, Delivers, ToChild, FromChild,
         ToChildReads, ToChildWrites, ToChildEnds, FromChildReads, FromChildEnds, FromChildFails,
         ChildReaped, ConsumerTypes, ConsumerReads, ChildReads, ChildWrites, ChildCloses,
         ChildExits, port, vars
<1>2. Preset /\ ~Exec /\ child = "none"
  BY <1>1, Kindly DEF Preset, Exec, Typed, PortType, KidType
<1>3. /\ Agree(device, Pending, Output, script.kind, TypedSoFar)
      /\ script.kind \in Kinds
  BY <1>1, <1>2 DEF Answering, Preset
<1>4. /\ Output \in Text /\ Pending \in Seq(Key) /\ device \in Device
      /\ TypedSoFar \in Seq(Key)
      /\ incells \in Seq(Seq(Key)) /\ keys \in Seq(Key)
  BY OutputFacts, TypedMore DEF Typed, LoopType, PortType
<1>5. UNCHANGED <<script, typed>> => TypedSoFar' = TypedSoFar
  BY TypedMore
<1>6. CASE UNCHANGED vars
  <2>1. UNCHANGED <<script, typed, heard, pty, incells, outcells, keys, device>>
    BY <1>6 DEF vars, port
  <2>2. Pending' = Pending /\ Output' = Output
    BY <2>1, OutputFacts DEF Pending
  <2>. QED BY <1>3, <1>5, <2>1, <2>2
<1>7. CASE PresetReads
  <2>1. /\ incells' = Cells(ReadOf(keys)) /\ keys' = LeftBy(keys) /\ incells = << >>
        /\ UNCHANGED <<script, typed, heard, pty, outcells, device>>
    BY <1>7 DEF PresetReads
  <2>2. Bytes(Cells(ReadOf(keys))) \o LeftBy(keys) = keys
    BY <1>4, Reading DEF Typed, PortType
  <2>3. Pending = keys
    <3>1. << >> \o keys = keys
      BY <1>4, ConcatEmptySeq
    <3>. QED BY <2>1, <3>1, FlatEmpty DEF Pending, Bytes
  <2>4. Pending' = Pending
    <3>1. Pending' = Bytes(incells') \o keys'
      BY DEF Pending, Bytes
    <3>. QED BY <2>1, <2>2, <2>3, <3>1
  <2>5. Output' = Output
    BY <2>1, OutputFacts
  <2>. QED BY <1>3, <1>5, <2>1, <2>4, <2>5
<1>8. CASE PresetFeeds
  <2> DEFINE h == Head(incells)
             fed == Feed(device, h)
             left == Bytes(Tail(incells)) \o keys
  <2>1. /\ device' = fed.device
        /\ loop' = IF fed.device.dead THEN "dead" ELSE loop
        /\ outcells' = IF fed.device.dead THEN << >> ELSE Cells(fed.out)
        /\ incells' = Tail(incells) /\ incells # << >> /\ outcells = << >>
        /\ UNCHANGED <<script, typed, keys, heard, pty>>
    BY <1>8, Zenon DEF PresetFeeds, port
  <2>2. h \in Seq(Key) /\ left \in Seq(Key) /\ Pending = h \o left
    BY <1>4, <2>1, FeedsPending DEF Pending
  <2>3. Pending' = left
    BY <2>1 DEF Pending, Bytes
  <2>4. fed.out \in Text
    BY <1>4, <2>2, FeedFacts
  <2> HIDE DEF fed
  <2>5. ~fed.device.dead
    BY <2>1
  <2>6. outcells' = Cells(fed.out)
    BY <2>1, <2>5
  <2>7. Output' = Output \o fed.out
    <3>1. heard \o pty \in Text
      BY Texts DEF Typed, PortType
    <3>2. Output = heard \o pty
      <4>1. (heard \o pty) \o << >> = heard \o pty
        BY <3>1, ConcatEmptySeq DEF Text
      <4>. QED BY <2>1, <4>1, FlatEmpty DEF Output, Sent, Bytes
    <3>3. Bytes(Cells(fed.out)) = fed.out
      BY <2>4, CellsWhole DEF Bytes, Text
    <3>4. Output' = (heard \o pty) \o Bytes(outcells')
      BY <2>1 DEF Output, Sent, Bytes
    <3>. QED BY <2>6, <3>2, <3>3, <3>4
  <2> HIDE DEF left, h
  <2>8. Agree(fed.device, left, Output \o fed.out, script.kind, TypedSoFar)
    <3>1. Agree(device, h \o left, Output, script.kind, TypedSoFar)
      BY <1>3, <2>2
    <3>. QED BY <1>3, <1>4, <2>2, <3>1, AgreeFeeds, Zenon DEF fed
  <2>. QED BY <1>5, <2>1, <2>3, <2>7, <2>8
<1>9. CASE Delivers \/ ConsumerReads
  <2>1. UNCHANGED <<script, typed, incells, keys, device>>
    BY <1>9 DEF Delivers, ConsumerReads
  <2>2. Pending' = Pending /\ Output' = Output
    BY <1>9, <2>1, OutputFacts DEF Pending
  <2>. QED BY <1>3, <1>5, <2>1, <2>2
<1>10. CASE ConsumerTypes
  <2> DEFINE k == script.keys[typed + 1]
  <2>1. k \in Key /\ TypedSoFar' = Append(TypedSoFar, k)
    BY <1>10, TypedMore
  <2>2. keys' = Append(keys, k) /\ UNCHANGED <<script, heard, pty, incells, outcells, device>>
    BY <1>10 DEF ConsumerTypes
  <2> HIDE DEF k
  <2>3. Pending' = Append(Pending, k)
    <3>1. Bytes(incells) \in Seq(Key)
      BY <1>4, FlatType DEF Bytes
    <3>2. Bytes(incells) \o Append(keys, k) = Append(Bytes(incells) \o keys, k)
      BY <1>4, <2>1, <3>1, ConcatAppended
    <3>3. Pending' = Bytes(incells) \o keys'
      BY <2>2 DEF Pending
    <3>. QED BY <2>2, <3>2, <3>3 DEF Pending
  <2>4. Output' = Output
    BY <2>2, OutputFacts
  <2>5. Agree(device, Append(Pending, k), Output, script.kind, Append(TypedSoFar, k))
    BY <1>3, <1>4, <2>1, AgreeTypes, Zenon
  <2>. QED BY <2>1, <2>2, <2>3, <2>4, <2>5
<1>11. CASE \/ PresetFails \/ ToChild \/ FromChild \/ FromChildFails \/ ChildReaped
            \/ ChildReads \/ ChildWrites \/ ChildCloses \/ ChildExits
  BY <1>2, <1>11 DEF PresetFails, ToChild, FromChild, ToChildReads, ToChildWrites, ToChildEnds,
         FromChildReads, FromChildEnds, FromChildFails, ChildReaped, ChildReads, ChildWrites,
         ChildCloses, ChildExits
<1>. QED BY <1>6, <1>7, <1>8, <1>9, <1>10, <1>11 DEF Next, PresetLoop

\* and it says what PresetTranscript says.
LEMMA AnsweringMeans == Typed /\ Answering => PresetTranscript
<1> SUFFICES ASSUME Typed, Answering, Preset, loop = "select"
             PROVE  Output \o Feed(device, Bytes(incells) \o keys).out
                      = Prompt(script.kind) \o Transcript.out
  BY Zenon DEF PresetTranscript
<1> DEFINE kind == script.kind
           new == NewDevice(kind)
<1>1. PICK fed \in Seq(Key) : /\ fed \o Pending = TypedSoFar
                              /\ device = Feed(new, fed).device
                              /\ Output = Prompt(kind) \o Feed(new, fed).out
  BY Zenon DEF Answering, Agree
<1>2. new \in Device /\ Prompt(kind) \in Text
  BY NewDeviceType DEF Preset
<1>3. Pending \in Seq(Key)
  <2>1. Bytes(incells) \in Seq(Key) /\ keys \in Seq(Key)
    BY FlatType DEF Bytes, Typed, LoopType, PortType
  <2>. QED BY <2>1, ConcatProperties DEF Pending
<1> DEFINE first == Feed(new, fed)
           rest == Feed(device, Pending)
           both == Feed(new, fed \o Pending)
<1>4. first \in Answers /\ rest \in Answers /\ both.out = first.out \o rest.out
  BY <1>1, <1>2, <1>3, FeedSplits
<1>5. Output = Prompt(kind) \o first.out /\ Transcript = both
  BY <1>1 DEF Transcript
<1> HIDE DEF first, rest, both
<1>6. Output \o rest.out = Prompt(kind) \o both.out
  <2>1. Associative(Token)
    BY Regrouped, Zenon
  <2>2. first.out \in Text /\ rest.out \in Text
    BY <1>4 DEF Answers
  <2>3. (Prompt(kind) \o first.out) \o rest.out = Prompt(kind) \o (first.out \o rest.out)
    BY <1>2, <2>1, <2>2, Zenon DEF Associative, Text
  <2>. QED BY <1>4, <1>5, <2>3, Zenon
<1>. QED BY <1>5, <1>6, Zenon DEF rest, Pending

-----------------------------------------------------------------------------
(* The streams of a child.                                                 *)

\* What was typed, wherever it has got to; what the child has written.
ToGo   == childgot \o stdin \o Bytes(incells) \o keys
Counted(n) == [i \in 1..n |-> i]

\* The bytes 1 to n and one more.
LEMMA CountedMore ==
  ASSUME NEW n \in Nat
  PROVE  Counted(n + 1) = Append(Counted(n), n + 1) /\ Counted(0) = << >>
<1>1. Counted(n) \in Seq(Nat) /\ Len(Counted(n)) = n /\ \A i \in 1..n : Counted(n)[i] = i
  BY DEF Counted
<1>2. /\ Counted(n + 1) \in Seq(Nat) /\ Len(Counted(n + 1)) = n + 1
      /\ \A i \in 1..(n + 1) : Counted(n + 1)[i] = i
  BY DEF Counted
<1> DEFINE w == Append(Counted(n), n + 1)
<1>3. w \in Seq(Nat) /\ Len(w) = n + 1 /\ w[n + 1] = n + 1 /\ \A i \in 1..n : w[i] = Counted(n)[i]
  BY <1>1, AppendProperties
<1> HIDE DEF w
<1>4. \A i \in 1..(n + 1) : Counted(n + 1)[i] = w[i]
  BY <1>1, <1>2, <1>3
<1>5. Counted(n + 1) = w
  BY <1>2, <1>3, <1>4, SeqEqual
<1>6. Counted(0) = << >>
  <2>1. 1..0 = {}
    OBVIOUS
  <2>. QED BY <2>1 DEF Counted
<1>. QED BY <1>5, <1>6 DEF w

\* At first both streams of a child are empty,
LEMMA StreamsInit == Init => ExecStreams
<1> SUFFICES ASSUME Init, Exec, loop = "select"
             PROVE  ToGo = TypedSoFar /\ Output \o stdout = Counted(wrote)
  BY Zenon DEF ExecStreams, ToGo, Counted
<1>1. << >> \o << >> = << >> /\ Bytes(<< >>) = << >>
  BY ConcatEmptySeq, EmptySeq, FlatEmpty DEF Bytes
<1>2. ToGo = << >>
  BY <1>1 DEF Init, ToGo
<1>3. TypedSoFar = << >>
  <2>1. script.keys \in Seq(Key) /\ 0 \in 0..Len(script.keys) /\ typed = 0
    BY Kindly DEF Init
  <2>2. SubSeq(script.keys, 1, 0) \in Seq(Key) /\ Len(SubSeq(script.keys, 1, 0)) = 0
    BY <2>1, CutInTwo
  <2>. QED BY <2>1, <2>2, EmptySeq DEF TypedSoFar
<1>4. Output = << >>
  <2>1. ~Preset
    BY Kindly DEF Init, Preset, Exec
  <2>2. device = NewDevice("echo") /\ outcells = Cells(Prompt(device.kind))
    BY <2>1 DEF Init
  <2>3. Prompt(device.kind) = << >> /\ << >> \in Text
    BY <2>2, Tokens DEF NewDevice, Prompt
  <2>4. Bytes(outcells) = << >>
    BY <2>2, <2>3, CellsWhole DEF Bytes, Text
  <2>. QED BY <1>1, <2>4 DEF Init, Output, Sent
<1>5. stdout = << >> /\ wrote = 0
  BY DEF Init
<1>. QED BY <1>1, <1>2, <1>3, <1>4, <1>5, CountedMore

\* and no step of either task, the child or the consumer loses or swaps a byte.
LEMMA StreamsStep == Typed /\ ExecStreams /\ [Next]_vars => ExecStreams'
<1> SUFFICES ASSUME Typed, ExecStreams, [Next]_vars, Exec', loop' = "select"
             PROVE  /\ toChild' = "running" => ToGo' = TypedSoFar'
                    /\ fromChild' = "running" => Output' \o stdout' = Counted(wrote')
  BY Zenon DEF ExecStreams, ToGo, Counted
<1>1. script' = script /\ loop = "select"
  BY DEF Next, PresetLoop, PresetReads, PresetFeeds, PresetFails, Delivers, ToChild, FromChild,
         ToChildReads, ToChildWrites, ToChildEnds, FromChildReads, FromChildEnds, FromChildFails,
         ChildReaped, ConsumerTypes, ConsumerReads, ChildReads, ChildWrites, ChildCloses,
         ChildExits, port, vars
<1>2. Exec /\ ~Preset
  BY <1>1, Kindly DEF Preset, Exec, Typed, PortType
<1>3. /\ toChild = "running" => ToGo = TypedSoFar
      /\ fromChild = "running" => Output \o stdout = Counted(wrote)
  BY <1>1, <1>2, Zenon DEF ExecStreams, ToGo, Counted
<1>4. /\ Output \in Text /\ TypedSoFar \in Seq(Key)
      /\ incells \in Seq(Seq(Key)) /\ keys \in Seq(Key) /\ Len(keys) <= PtyBuf
      /\ stdin \in Seq(Key) /\ Len(stdin) <= PtyBuf /\ childgot \in Seq(Key)
      /\ stdout \in Text /\ Len(stdout) <= PtyBuf /\ wrote \in Nat
  BY OutputFacts, TypedMore DEF Typed, LoopType, PortType, KidType
<1>5. UNCHANGED <<script, typed>> => TypedSoFar' = TypedSoFar
  BY TypedMore
<1>6. UNCHANGED <<heard, pty, outcells>> => Output' = Output
  BY OutputFacts
<1>7. UNCHANGED <<childgot, stdin, incells, keys>> => ToGo' = ToGo
  BY DEF ToGo
<1>8. Associative(Key) /\ Associative(Token)
  BY Regrouped, Zenon
<1>9. /\ Bytes(incells) \in Seq(Key) /\ childgot \o stdin \in Seq(Key)
      /\ childgot \o stdin \o Bytes(incells) \in Seq(Key)
  <2>1. Bytes(incells) \in Seq(Key)
    BY <1>4, FlatType DEF Bytes
  <2>. QED BY <1>4, <2>1, ConcatProperties
<1>10. CASE UNCHANGED vars
  BY <1>3, <1>5, <1>6, <1>7, <1>10 DEF vars, port, tasks, kid
<1>11. CASE \/ ToChildEnds \/ FromChildEnds \/ FromChildFails \/ ChildCloses \/ ChildExits
  BY <1>3, <1>5, <1>6, <1>7, <1>11
     DEF ToChildEnds, FromChildEnds, FromChildFails, ChildCloses, ChildExits, port, tasks, kid
<1>12. CASE PresetLoop \/ PresetFails \/ ChildReaped
  BY <1>2, <1>12 DEF PresetLoop, PresetReads, PresetFeeds, PresetFails, ChildReaped
<1>13. CASE Delivers \/ ConsumerReads
  <2>1. Output' = Output
    BY <1>13, OutputFacts
  <2>. QED BY <1>3, <1>5, <1>7, <1>13, <2>1 DEF Delivers, ConsumerReads, tasks, kid
<1>14. CASE ToChildReads
  <2>1. /\ incells = << >> /\ incells' = Cells(ReadOf(keys)) /\ keys' = LeftBy(keys)
        /\ UNCHANGED <<script, typed, pty, heard, outcells, tasks, kid>>
    BY <1>14 DEF ToChildReads
  <2> DEFINE a == childgot \o stdin
             b == Bytes(Cells(ReadOf(keys)))
  <2>2. b \in Seq(Key) /\ LeftBy(keys) \in Seq(Key) /\ b \o LeftBy(keys) = keys
    BY <1>4, Reading, FlatType DEF Bytes
  <2>3. ToGo' = (a \o b) \o LeftBy(keys)
    BY <2>1 DEF ToGo, kid, Bytes
  <2>4. ToGo = a \o keys
    <3>1. Bytes(incells) = << >>
      BY <2>1, FlatEmpty DEF Bytes
    <3>2. a \o << >> = a
      BY <1>9, ConcatEmptySeq
    <3>. QED BY <3>1, <3>2 DEF ToGo
  <2> HIDE DEF a, b
  <2>5. a \in Seq(Key)
    BY <1>9 DEF a
  <2>6. (a \o b) \o LeftBy(keys) = a \o (b \o LeftBy(keys))
    BY <1>8, <2>2, <2>5, Zenon DEF Associative
  <2>7. ToGo' = ToGo
    BY <2>2, <2>3, <2>4, <2>6
  <2>. QED BY <1>3, <1>5, <1>6, <2>1, <2>7 DEF tasks, kid
<1>15. CASE ToChildWrites
  <2>1. /\ incells # << >> /\ stdin' = Filled(stdin, Head(incells))
        /\ incells' = CellsLeft(incells, stdin)
        /\ UNCHANGED <<port, outcells, tasks, childgot, stdout, wrote>>
    BY <1>15 DEF ToChildWrites
  <2> DEFINE f == Filled(stdin, Head(incells))
             l == Bytes(CellsLeft(incells, stdin))
  <2>2. f \in Seq(Key) /\ l \in Seq(Key) /\ f \o l = stdin \o Bytes(incells)
    <3>1. f \in Seq(Key) /\ CellsLeft(incells, stdin) \in Seq(Seq(Key))
          /\ f \o l = stdin \o Bytes(incells)
      BY <1>4, <2>1, Writing
    <3>. QED BY <3>1, FlatType DEF Bytes
  <2>3. ToGo' = ((childgot \o f) \o l) \o keys
    BY <2>1 DEF ToGo, port, Bytes
  <2> HIDE DEF f, l
  <2>4. (childgot \o f) \o l = childgot \o (f \o l)
    BY <1>4, <1>8, <2>2, ZenonT(40) DEF Associative
  <2>5. (childgot \o stdin) \o Bytes(incells) = childgot \o (stdin \o Bytes(incells))
    BY <1>4, <1>8, <1>9, ZenonT(40) DEF Associative
  <2>6. ToGo' = ToGo
    BY <2>2, <2>3, <2>4, <2>5 DEF ToGo
  <2>. QED BY <1>3, <1>5, <1>6, <2>1, <2>6 DEF port, tasks
<1>16. CASE ChildReads
  <2>1. /\ stdin # << >> /\ childgot' = Append(childgot, Head(stdin)) /\ stdin' = Tail(stdin)
        /\ UNCHANGED <<port, incells, outcells, tasks, stdout, wrote>>
    BY <1>16 DEF ChildReads
  <2>2. childgot' \o stdin' = childgot \o stdin
    <3> DEFINE x == Head(stdin)
               r == Tail(stdin)
    <3>1. x \in Key /\ r \in Seq(Key) /\ stdin = <<x>> \o r /\ <<x>> \in Seq(Key)
      BY <1>4, <2>1, HeadTailProperties, SeqEqual
    <3>2. Append(childgot, x) = childgot \o <<x>>
      BY <1>4
    <3> HIDE DEF x, r
    <3>3. (childgot \o <<x>>) \o r = childgot \o (<<x>> \o r)
      <4>1. childgot \in Seq(Key)
        BY <1>4
      <4> DEFINE one == <<x>>
      <4>2. one \in Seq(Key)
        BY <3>1
      <4> HIDE DEF one
      <4>3. (childgot \o one) \o r = childgot \o (one \o r)
        BY <1>8, <3>1, <4>1, <4>2, Zenon DEF Associative
      <4>. QED BY <4>3 DEF one
    <3>4. childgot' = Append(childgot, x) /\ stdin' = r
      BY <2>1 DEF x, r
    <3>. QED BY <3>1, <3>2, <3>3, <3>4
  <2>3. ToGo' = ToGo
    BY <2>1, <2>2 DEF ToGo, port, Bytes
  <2>. QED BY <1>3, <1>5, <1>6, <2>1, <2>3 DEF port, tasks
<1>17. CASE ConsumerTypes
  <2> DEFINE k == script.keys[typed + 1]
             a == childgot \o stdin \o Bytes(incells)
  <2>1. k \in Key /\ TypedSoFar' = Append(TypedSoFar, k)
    BY <1>17, TypedMore
  <2>2. keys' = Append(keys, k)
        /\ UNCHANGED <<script, heard, pty, incells, outcells, tasks, kid>>
    BY <1>17 DEF ConsumerTypes
  <2>3. ToGo' = a \o Append(keys, k) /\ ToGo = a \o keys
    BY <2>2 DEF ToGo, kid, Bytes
  <2>4. a \in Seq(Key)
    BY <1>9
  <2> HIDE DEF k, a
  <2>5. a \o Append(keys, k) = Append(a \o keys, k)
    BY <1>4, <2>1, <2>4, ConcatAppended
  <2>6. toChild' = "running" => ToGo' = TypedSoFar'
    BY <1>3, <2>1, <2>2, <2>3, <2>5 DEF tasks
  <2>. QED BY <1>3, <1>6, <2>2, <2>6 DEF tasks, kid
<1>18. CASE FromChildReads
  <2>1. /\ outcells = << >> /\ outcells' = Cells(ReadOf(stdout)) /\ stdout' = LeftBy(stdout)
        /\ UNCHANGED <<port, incells, tasks, stdin, childgot, wrote>>
    BY <1>18 DEF FromChildReads
  <2> DEFINE b == Bytes(Cells(ReadOf(stdout)))
             l == LeftBy(stdout)
  <2>2. b \in Text /\ l \in Text /\ b \o l = stdout
    <3>1. /\ Cells(ReadOf(stdout)) \in Seq(Seq(Token)) /\ l \in Seq(Token) /\ b \o l = stdout
      BY <1>4, Reading DEF Text
    <3>. QED BY <3>1, FlatType DEF Bytes, Text
  <2>3. Sent \in Text /\ Output' = Sent \o b
    <3>1. Sent \in Text
      BY Texts DEF Sent, Typed, PortType
    <3>2. Output' = Sent \o b
      BY <2>1 DEF Output, Sent, port, Bytes
    <3>. QED BY <3>1, <3>2
  <2>4. Output = Sent
    <3>1. Sent \o << >> = Sent
      BY <2>3, ConcatEmptySeq DEF Text
    <3>. QED BY <2>1, <3>1, FlatEmpty DEF Output, Bytes
  <2> HIDE DEF b
  <2>5. (Sent \o b) \o l = Sent \o (b \o l)
    BY <1>8, <2>2, <2>3, Zenon DEF Associative, Text
  <2>6. Output' \o stdout' = Output \o stdout
    BY <2>1, <2>2, <2>3, <2>4, <2>5
  <2>. QED BY <1>3, <1>5, <1>7, <2>1, <2>6 DEF port, tasks
<1>19. CASE ChildWrites
  <2>1. /\ wrote' = wrote + 1 /\ stdout' = Append(stdout, wrote + 1)
        /\ UNCHANGED <<port, incells, outcells, tasks, stdin, childgot>>
    BY <1>19 DEF ChildWrites
  <2>2. wrote + 1 \in Token
    BY <1>4, Tokens
  <2>3. Output \o Append(stdout, wrote + 1) = Append(Output \o stdout, wrote + 1)
    BY <1>4, <2>2, AppendsLater
  <2>4. Counted(wrote + 1) = Append(Counted(wrote), wrote + 1)
    BY <1>4, CountedMore
  <2>5. fromChild' = "running" => Output' \o stdout' = Counted(wrote')
    BY <1>3, <1>6, <2>1, <2>3, <2>4 DEF port, tasks
  <2>. QED BY <1>3, <1>5, <1>7, <2>1, <2>5 DEF port, tasks
<1>. QED BY <1>10, <1>11, <1>12, <1>13, <1>14, <1>15, <1>16, <1>17, <1>18, <1>19
     DEF Next, ToChild, FromChild

\* A preset has answered what it would answer to all its input at once, however that
\* was read and cut (preset_loop); a child gets what was typed and the port what the
\* child wrote, in order, while their tasks run (exec_loop).
THEOREM StreamsWhole == Spec => []PortStreams
<1>1. Typed /\ Answering /\ ExecStreams => PortStreams
  BY AnsweringMeans DEF PortStreams
<1>2. Spec => [](Typed /\ Answering /\ ExecStreams)
  BY TypedInit, TypedStep, AnsweringInit, AnsweringStep, StreamsInit, StreamsStep, PTL DEF Spec
<1>. QED BY <1>1, <1>2, PTL

-----------------------------------------------------------------------------
(* What the screen shows is the line.                                      *)

\* The inductive form of ScreenShowsLine.
ScreenHeld == script.kind \in Interactive /\ loop = "select" => Screen(Output) = device.line

\* The greeting leaves an empty line,
LEMMA ScreenInit == Init => ScreenHeld
<1> SUFFICES ASSUME Init, script.kind \in Interactive
             PROVE  Screen(Output) = device.line
  BY DEF ScreenHeld
<1> DEFINE kind == script.kind
<1>1. Preset /\ kind \in Kinds
  BY DEF Preset, Interactive, Kinds
<1>2. device = NewDevice(kind) /\ outcells = Cells(Prompt(kind)) /\ device.line = << >>
  BY <1>1 DEF Init, NewDevice
<1>3. Prompt(kind) \in Text
  BY <1>1, NewDeviceType
<1>4. Bytes(outcells) = Prompt(kind)
  BY <1>2, <1>3, CellsWhole DEF Bytes, Text
<1>5. Output = Prompt(kind)
  <2>1. << >> \o << >> = << >> /\ << >> \o Prompt(kind) = Prompt(kind)
    BY <1>3, ConcatEmptySeq, EmptySeq DEF Text
  <2>. QED BY <1>4, <2>1 DEF Init, Output, Sent
<1>6. Screen(Prompt(kind)) = << >>
  <2>1. CASE kind \in Shells
    BY <1>3, <2>1, EndTexts, EndsClear
  <2>2. CASE kind \notin Shells
    <3>1. Prompt(kind) = << >>
      BY <2>2 DEF Prompt, Shells
    <3>. QED BY <3>1, Screens
  <2>. QED BY <2>1, <2>2
<1>. QED BY <1>2, <1>5, <1>6

\* and every step leaves the screen as it is or changes it as the line changes.
LEMMA ScreenStep == Typed /\ ScreenHeld /\ [Next]_vars => ScreenHeld'
<1> SUFFICES ASSUME Typed, ScreenHeld, [Next]_vars, script'.kind \in Interactive, loop' = "select"
             PROVE  Screen(Output') = device'.line
  BY DEF ScreenHeld, Screen, ShowCharAll
<1>1. script' = script /\ loop = "select"
  BY DEF Next, PresetLoop, PresetReads, PresetFeeds, PresetFails, Delivers, ToChild, FromChild,
         ToChildReads, ToChildWrites, ToChildEnds, FromChildReads, FromChildEnds, FromChildFails,
         ChildReaped, ConsumerTypes, ConsumerReads, ChildReads, ChildWrites, ChildCloses,
         ChildExits, port, vars
<1>2. Preset /\ ~Exec /\ child = "none"
  BY <1>1, Kindly DEF Interactive, Kinds, Preset, Exec, Typed, PortType, KidType
<1>3. Screen(Output) = device.line /\ device.kind \in Interactive /\ device \in Device
  BY <1>1, <1>2 DEF ScreenHeld, Typed, LoopType
<1>4. CASE UNCHANGED vars \/ PresetReads \/ ConsumerTypes
  <2>1. UNCHANGED <<heard, pty, outcells, device>>
    BY <1>4 DEF vars, port, PresetReads, ConsumerTypes
  <2>. QED BY <1>3, <2>1, OutputFacts
<1>5. CASE Delivers \/ ConsumerReads
  <2>1. Output' = Output /\ device' = device
    BY <1>5, OutputFacts DEF Delivers, ConsumerReads
  <2>. QED BY <1>3, <2>1
<1>6. CASE PresetFeeds
  <2> DEFINE h == Head(incells)
             fed == Feed(device, h)
  <2>1. /\ device' = fed.device
        /\ loop' = IF fed.device.dead THEN "dead" ELSE loop
        /\ outcells' = IF fed.device.dead THEN << >> ELSE Cells(fed.out)
        /\ incells # << >> /\ outcells = << >> /\ UNCHANGED <<heard, pty>>
    BY <1>6, Zenon DEF PresetFeeds, port
  <2>2. h \in Seq(Key) /\ Sent \in Text
    BY <2>1, HeadTailProperties, Texts DEF Typed, LoopType, PortType, Sent
  <2>3. Output = Sent
    <3>1. Sent \o << >> = Sent
      BY <2>2, ConcatEmptySeq DEF Text
    <3>. QED BY <2>1, <3>1, FlatEmpty DEF Output, Bytes
  <2>4. fed.out \in Text /\ Shows(Sent, fed)
    <3>1. Screen(Sent) = device.line
      BY <1>3, <2>3
    <3>. QED BY <1>3, <2>2, <3>1, FeedFacts, FeedShows
  <2> HIDE DEF fed
  <2>5. ~fed.device.dead /\ outcells' = Cells(fed.out)
    BY <2>1
  <2>6. Output' = Sent \o fed.out
    <3>1. Bytes(Cells(fed.out)) = fed.out
      BY <2>4, CellsWhole DEF Bytes, Text
    <3>2. Output' = Sent \o Bytes(outcells')
      BY <2>1 DEF Output, Sent, Bytes
    <3>. QED BY <2>5, <3>1, <3>2
  <2>. QED BY <2>1, <2>4, <2>5, <2>6 DEF Shows
<1>7. CASE \/ PresetFails \/ ToChild \/ FromChild \/ FromChildFails \/ ChildReaped
            \/ ChildReads \/ ChildWrites \/ ChildCloses \/ ChildExits
  BY <1>2, <1>7 DEF PresetFails, ToChild, FromChild, ToChildReads, ToChildWrites, ToChildEnds,
         FromChildReads, FromChildEnds, FromChildFails, ChildReaped, ChildReads, ChildWrites,
         ChildCloses, ChildExits
<1>. QED BY <1>4, <1>5, <1>6, <1>7 DEF Next, PresetLoop

\* What an interactive preset has put on the screen since the last line end or prompt is
\* the line the next CR will execute (LineDevice::feed).
THEOREM ScreenIsLine == Spec => []ScreenShowsLine
<1>1. ScreenHeld => ScreenShowsLine
  BY Zenon DEF ScreenHeld, ScreenShowsLine, Screen, ShowCharAll, Interactive
<1>. QED BY <1>1, TypedInit, TypedStep, ScreenInit, ScreenStep, PTL DEF Spec

-----------------------------------------------------------------------------
(* The status of what was typed.                                           *)

\* serial-tether's trailing command, the start of it, and what is typed of it.
Marker == <<"echo", " ", "\"", "B", "\"", "\"", "G", "$", "?", "\"">>
Markers == {"echo", " ", "\"", "B", "G", "$", "?"}

\* The quotes of a command are closed (split_commands).
Closed(cmd) == LET s == FoldLeft(SplitChar, SplitStart, cmd) IN ~s.in_s /\ ~s.in_d

\* The marker, one character after the other.
LEMMA MarkerParts ==
  /\ Marker = Append(Append(Append(Append(Append(Append(Append(Append(Append(<<"echo">>,
                " "), "\""), "B"), "\""), "\""), "G"), "$"), "?"), "\"")
  /\ \A S : Markers \subseteq S => Marker \in Seq(S)
  /\ "echo" \in ToSet(Marker)
<1>2. \A S : \A a, b, c, d, e, f, g, h, i, j \in S :
        <<a, b, c, d, e, f, g, h, i, j>> \in Seq(S)
  OBVIOUS
<1>3. \A S : Markers \subseteq S => Marker \in Seq(S)
  BY <1>2 DEF Markers, Marker
<1>4. Marker = Append(Append(Append(Append(Append(Append(Append(Append(Append(<<"echo">>,
                " "), "\""), "B"), "\""), "\""), "G"), "$"), "?"), "\"")
  <2> DEFINE e == "echo"
             b == " "
             q == "\""
             l == "B"
             g == "G"
             d == "$"
             m == "?"
  <2>0. Marker = <<e, b, q, l, q, q, g, d, m, q>>
    BY Zenon DEF Marker
  <2> HIDE DEF e, b, q, l, g, d, m
  <2>1. <<e, b>> = Append(<<e>>, b)
    OBVIOUS
  <2>2. <<e, b, q>> = Append(<<e, b>>, q)
    OBVIOUS
  <2>3. <<e, b, q, l>> = Append(<<e, b, q>>, l)
    OBVIOUS
  <2>4. <<e, b, q, l, q>> = Append(<<e, b, q, l>>, q)
    OBVIOUS
  <2>5. <<e, b, q, l, q, q>> = Append(<<e, b, q, l, q>>, q)
    OBVIOUS
  <2>6. <<e, b, q, l, q, q, g>> = Append(<<e, b, q, l, q, q>>, g)
    OBVIOUS
  <2>7. <<e, b, q, l, q, q, g, d>> = Append(<<e, b, q, l, q, q, g>>, d)
    OBVIOUS
  <2>8. <<e, b, q, l, q, q, g, d, m>> = Append(<<e, b, q, l, q, q, g, d>>, m)
    OBVIOUS
  <2>9. <<e, b, q, l, q, q, g, d, m, q>> = Append(<<e, b, q, l, q, q, g, d, m>>, q)
    OBVIOUS
  <2>10. Marker = Append(Append(Append(Append(Append(Append(Append(Append(Append(<<e>>,
                    b), q), l), q), q), g), d), m), q)
    BY <2>0, <2>1, <2>2, <2>3, <2>4, <2>5, <2>6, <2>7, <2>8, <2>9, Zenon
  <2>. QED BY <2>10, Zenon DEF e, b, q, l, g, d, m
<1>5. \A a, b, c, d, e, f, g, h, i, j :
         /\ 1 \in DOMAIN <<a, b, c, d, e, f, g, h, i, j>>
         /\ <<a, b, c, d, e, f, g, h, i, j>>[1] = a
  OBVIOUS
<1>6. 1 \in DOMAIN Marker /\ Marker[1] = "echo"
  BY <1>5, Zenon DEF Marker
<1>7. "echo" \in ToSet(Marker)
  BY <1>6, Zenon DEF ToSet
<1>. QED BY <1>3, <1>4, <1>7

\* A line being read outside quotes, and inside double ones.
Outside(cmds, cur) == [cmds |-> cmds, cur |-> cur, in_s |-> FALSE, in_d |-> FALSE]
Inside(cmds, cur)  == [cmds |-> cmds, cur |-> cur, in_s |-> FALSE, in_d |-> TRUE]

\* What is neither a semicolon nor a single quote is read, and a double quote opens
\* or closes.
LEMMA SplitReads ==
  ASSUME NEW cmds, NEW cur, NEW c, c # "'", c # ";"
  PROVE  /\ c = "\"" =>
              /\ SplitChar(Outside(cmds, cur), c) = Inside(cmds, Append(cur, c))
              /\ SplitChar(Inside(cmds, cur), c) = Outside(cmds, Append(cur, c))
         /\ c # "\"" =>
              /\ SplitChar(Outside(cmds, cur), c) = Outside(cmds, Append(cur, c))
              /\ SplitChar(Inside(cmds, cur), c) = Inside(cmds, Append(cur, c))
BY DEF SplitChar, Outside, Inside

\* A line that goes on is split where it was left.
LEMMA SplitGoesOn ==
  ASSUME NEW x \in SplitState, NEW a \in Seq(Key), NEW b \in Seq(Key)
  PROVE  SplitCharAll(x, a \o b) = SplitCharAll(SplitCharAll(x, a), b)
<1> DEFINE y == SplitCharAll(x, a)
           T == {s \in Seq(Key) : SplitCharAll(x, a \o s) = SplitCharAll(y, s)}
<1>0. /\ \A z \in SplitState : SplitCharAll(z, << >>) = z
      /\ \A z \in SplitState : \A s \in Seq(Key) : SplitCharAll(z, s) \in SplitState
      /\ \A z \in SplitState : \A s \in Seq(Key), c \in Key :
           SplitCharAll(z, Append(s, c)) = SplitChar(SplitCharAll(z, s), c)
  BY SplitType, SplitCharFold
<1>1. y \in SplitState
  BY <1>0
<1> HIDE DEF y
<1>2. << >> \in T
  <2>1. a \o << >> = a
    BY ConcatEmptySeq
  <2>. QED BY <1>0, <1>1, <2>1, EmptySeq DEF y
<1>3. ASSUME NEW s \in T, NEW k \in Key PROVE Append(s, k) \in T
  <2>1. s \in Seq(Key) /\ Append(s, k) \in Seq(Key) /\ a \o s \in Seq(Key)
    BY AppendProperties, ConcatProperties
  <2>2. a \o Append(s, k) = Append(a \o s, k)
    BY <2>1, ConcatAppended
  <2>3. SplitCharAll(x, a \o s) = SplitCharAll(y, s)
    OBVIOUS
  <2>4. SplitCharAll(x, Append(a \o s, k)) = SplitChar(SplitCharAll(x, a \o s), k)
    BY <1>0, <2>1
  <2>5. SplitCharAll(y, Append(s, k)) = SplitChar(SplitCharAll(y, s), k)
    BY <1>0, <1>1, <2>1
  <2>. QED BY <2>1, <2>2, <2>3, <2>4, <2>5
<1>4. T = Seq(Key)
  <2>1. T \in SUBSET Seq(Key) /\ \A s \in T, b1 \in Key : Append(s, b1) \in T
    BY <1>3
  <2> HIDE DEF T
  <2>. QED BY <1>2, <2>1, SeqSet
<1>. QED BY <1>4 DEF y

\* The marker is read whole, its own quotes closed.
LEMMA SplitMarker ==
  ASSUME Markers \subseteq Key, NEW cmds \in Seq(Seq(Key))
  PROVE  SplitCharAll(Outside(cmds, << >>), Marker) = Outside(cmds, Marker)
<1> DEFINE x == Outside(cmds, << >>)
           m1 == <<"echo">>
           m2 == Append(m1, " ")
           m3 == Append(m2, "\"")
           m4 == Append(m3, "B")
           m5 == Append(m4, "\"")
           m6 == Append(m5, "\"")
           m7 == Append(m6, "G")
           m8 == Append(m7, "$")
           m9 == Append(m8, "?")
<1>1. m1 = Append(<< >>, "echo") /\ Marker = Append(m9, "\"")
  <2>1. Marker = Append(m9, "\"")
    BY MarkerParts, Zenon
  <2>2. m1 = Append(<< >>, "echo")
    OBVIOUS
  <2>. QED BY <2>1, <2>2, Zenon
<1>2. /\ "echo" \in Key /\ " " \in Key /\ "\"" \in Key /\ "B" \in Key /\ "G" \in Key
      /\ "$" \in Key /\ "?" \in Key
  BY DEF Markers
<1>3. x \in SplitState
  BY EmptySeq DEF Outside, SplitState
<1>4. /\ SplitCharAll(x, << >>) = x
      /\ \A s \in Seq(Key), c \in Key : SplitCharAll(x, Append(s, c)) = SplitChar(SplitCharAll(x, s), c)
  BY <1>3, SplitType, SplitCharFold
<1>5. \A s \in Seq(Key), c \in Key : Append(s, c) \in Seq(Key)
  BY AppendProperties
<1> HIDE DEF x, m1
<1>6. m1 \in Seq(Key)
  BY <1>1, <1>2, <1>5, EmptySeq
<1>7. m2 \in Seq(Key)
  BY <1>2, <1>5, <1>6
<1> HIDE DEF m2
<1>8. m3 \in Seq(Key)
  BY <1>2, <1>5, <1>7
<1> HIDE DEF m3
<1>9. m4 \in Seq(Key)
  BY <1>2, <1>5, <1>8
<1> HIDE DEF m4
<1>10. m5 \in Seq(Key)
  BY <1>2, <1>5, <1>9
<1> HIDE DEF m5
<1>11. m6 \in Seq(Key)
  BY <1>2, <1>5, <1>10
<1> HIDE DEF m6
<1>12. m7 \in Seq(Key)
  BY <1>2, <1>5, <1>11
<1> HIDE DEF m7
<1>13. m8 \in Seq(Key)
  BY <1>2, <1>5, <1>12
<1> HIDE DEF m8
<1>14. m9 \in Seq(Key)
  BY <1>2, <1>5, <1>13
<1> HIDE DEF m9
<1> DEFINE Out(m) == SplitCharAll(x, m) = Outside(cmds, m)
           In(m)  == SplitCharAll(x, m) = Inside(cmds, m)
<1>15. ASSUME NEW m \in Seq(Key), NEW c \in Markers
       PROVE  /\ c = "\"" => (Out(m) => In(Append(m, c))) /\ (In(m) => Out(Append(m, c)))
              /\ c # "\"" => (Out(m) => Out(Append(m, c))) /\ (In(m) => In(Append(m, c)))
  <2>1. c \in Key /\ c # "'" /\ c # ";"
    BY DEF Markers
  <2>2. SplitCharAll(x, Append(m, c)) = SplitChar(SplitCharAll(x, m), c)
    BY <1>4, <2>1
  <2>3. /\ c = "\"" =>
             /\ SplitChar(Outside(cmds, m), c) = Inside(cmds, Append(m, c))
             /\ SplitChar(Inside(cmds, m), c) = Outside(cmds, Append(m, c))
        /\ c # "\"" =>
             /\ SplitChar(Outside(cmds, m), c) = Outside(cmds, Append(m, c))
             /\ SplitChar(Inside(cmds, m), c) = Inside(cmds, Append(m, c))
    BY <2>1, SplitReads, Zenon
  <2>. QED BY <2>2, <2>3, Zenon
<1> HIDE DEF Out, In
<1>16. \A m \in Seq(Key) :
         /\ Out(m) => In(Append(m, "\"")) /\ Out(Append(m, "echo")) /\ Out(Append(m, " "))
         /\ In(m) => /\ Out(Append(m, "\"")) /\ In(Append(m, "B")) /\ In(Append(m, "G"))
                     /\ In(Append(m, "$")) /\ In(Append(m, "?"))
  BY <1>15 DEF Markers
<1>17. Out(<< >>)
  BY <1>4 DEF Out, x
<1>18. Out(m1) /\ Out(m2)
  BY <1>1, <1>6, <1>16, <1>17, EmptySeq DEF m2
<1>19. In(m3) /\ In(m4)
  BY <1>7, <1>8, <1>16, <1>18 DEF m3, m4
<1>20. Out(m5) /\ In(m6)
  BY <1>9, <1>10, <1>16, <1>19 DEF m5, m6
<1>21. In(m7) /\ In(m8) /\ In(m9)
  BY <1>11, <1>12, <1>13, <1>16, <1>20 DEF m7, m8, m9
<1>22. Out(Marker)
  BY <1>1, <1>14, <1>16, <1>21
<1>. QED BY <1>22 DEF Out, x

\* One element more is kept.
LEMMA KeptMore ==
  ASSUME NEW S, NEW X, NEW Y, NEW s \in Seq(S), NEW x \in S, x \in X,
         ToSet(s) \cap X = ToSet(s) \cap Y
  PROVE  Kept(Append(s, x), X) = Append(Kept(s, Y), x)
<1>1. Kept(s, X) = Kept(s, Y)
  BY KeptSame
<1>2. Kept(Append(s, x), X) = Append(Kept(s, X), x)
  BY KeptAppend
<1>. QED BY <1>1, <1>2

\* An element appended is a sequence joined.
LEMMA JoinsOne ==
  ASSUME NEW S, NEW s \in Seq(S), NEW x \in S
  PROVE  s \o <<x>> = Append(s, x) /\ Append(s, x) \in Seq(S)
<1>1. \A T : \A t \in Seq(T), y \in T : t \o <<y>> = Append(t, y)
  OBVIOUS
<1>. QED BY <1>1, AppendProperties

\* Of commands and one more that is not blank, those that are not blank.
LEMMA NotBlankMore ==
  ASSUME NEW cmds \in Seq(Seq(Key)), NEW cmd \in Seq(Key), ToSet(cmd) \ {" "} # {}
  PROVE  NotBlank(Append(cmds, cmd)) = Append(NotBlank(cmds), cmd)
<1> DEFINE S == Seq(Key)
           more == Append(cmds, cmd)
           X == {c \in ToSet(more) : ToSet(c) \ {" "} # {}}
           Y == {c \in ToSet(cmds) : ToSet(c) \ {" "} # {}}
<1>0. cmds \in Seq(S) /\ cmd \in S
  OBVIOUS
<1>3. NotBlank(more) = Kept(more, X) /\ NotBlank(cmds) = Kept(cmds, Y)
  BY Zenon DEF NotBlank
<1> HIDE DEF S
<1>1. ToSet(more) = ToSet(cmds) \cup {cmd}
  <2>1. \A s \in Seq(S), x \in S : ToSet(Append(s, x)) = ToSet(s) \cup {x}
    BY ToSetAppend
  <2>. QED BY <1>0, <2>1, Zenon
<1>2. cmd \in X /\ ToSet(cmds) \cap X = ToSet(cmds) \cap Y
  BY <1>1
<1> HIDE DEF X, Y
<1>4. Kept(more, X) = Append(Kept(cmds, Y), cmd)
  <2> HIDE DEF more
  <2>1. ToSet(cmds) \cap X = ToSet(cmds) \cap Y
    BY <1>2
  <2>2. Kept(cmds, X) = Kept(cmds, Y)
    <3>1. \A V, W : \A t \in Seq(Seq(Key)) :
             ToSet(t) \cap V = ToSet(t) \cap W => Kept(t, V) = Kept(t, W)
      BY KeptSame
    <3>. QED BY <2>1, <3>1
  <2>3. Kept(Append(cmds, cmd), X) = Append(Kept(cmds, X), cmd)
    <3>1. \A V : \A t \in Seq(Seq(Key)), c \in Seq(Key) : c \in V =>
             Kept(Append(t, c), V) = Append(Kept(t, V), c)
      BY KeptAppend
    <3>. QED BY <1>2, <3>1
  <2>. QED BY <2>2, <2>3 DEF more
<1>. QED BY <1>3, <1>4

\* The marker is a command of its own after what was typed before it.
LEMMA MarkerLast ==
  ASSUME Markers \cup {";"} \subseteq Key, NEW cmd \in Seq(Key), Closed(cmd)
  PROVE  /\ (cmd \o <<";">>) \o Marker \in Seq(Key)
         /\ SplitCommands((cmd \o <<";">>) \o Marker) = Append(SplitCommands(cmd), Marker)
<1> DEFINE s == SplitCharAll(SplitStart, cmd)
           cmds == Append(s.cmds, s.cur)
           line == cmd \o <<";">>
<1>1. SplitStart \in SplitState
  BY EmptySeq DEF SplitStart, SplitState
<1>2. Marker \in Seq(Key) /\ ";" \in Key
  BY MarkerParts
<1>3. line \in Seq(Key) /\ line = Append(cmd, ";") /\ line \o Marker \in Seq(Key)
  <2>2. line = Append(cmd, ";") /\ line \in Seq(Key)
    BY <1>2, JoinsOne
  <2> HIDE DEF line
  <2>. QED BY <1>2, <2>2, ConcatProperties
<1>4. s \in SplitState /\ SplitCharAll(SplitStart, line) = SplitChar(s, ";")
  <2>1. /\ \A t \in Seq(Key) : SplitCharAll(SplitStart, t) \in SplitState
        /\ \A t \in Seq(Key), c \in Key :
             SplitCharAll(SplitStart, Append(t, c)) = SplitChar(SplitCharAll(SplitStart, t), c)
    BY <1>1, SplitType, SplitCharFold
  <2>. QED BY <1>2, <1>3, <2>1, Zenon
<1>5. ~s.in_s /\ ~s.in_d
  BY Zenon DEF Closed, SplitCharAll
<1> HIDE DEF s, line
<1>6. SplitChar(s, ";") = Outside(cmds, << >>) /\ cmds \in Seq(Seq(Key))
  BY <1>4, <1>5, AppendProperties DEF SplitState, SplitChar, Outside
<1> HIDE DEF cmds
<1>7. SplitCharAll(SplitStart, line \o Marker) = Outside(cmds, Marker)
  <2>1. SplitCharAll(SplitStart, line \o Marker)
          = SplitCharAll(SplitCharAll(SplitStart, line), Marker)
    BY <1>1, <1>2, <1>3, SplitGoesOn
  <2>2. SplitCharAll(Outside(cmds, << >>), Marker) = Outside(cmds, Marker)
    BY <1>6, SplitMarker
  <2>. QED BY <1>4, <1>6, <2>1, <2>2
<1>8. SplitCommands(line \o Marker) = NotBlank(Append(cmds, Marker))
  <2> DEFINE end == SplitCharAll(SplitStart, line \o Marker)
  <2>1. SplitCommands(line \o Marker) = NotBlank(Append(end.cmds, end.cur))
    BY Zenon DEF SplitCommands, SplitCharAll
  <2>2. Outside(cmds, Marker).cmds = cmds /\ Outside(cmds, Marker).cur = Marker
    BY DEF Outside
  <2>3. end.cmds = cmds /\ end.cur = Marker
    BY <1>7, <2>2, Zenon
  <2>. QED BY <2>1, <2>3, Zenon
<1>9. SplitCommands(cmd) = NotBlank(cmds)
  BY Zenon DEF SplitCommands, SplitCharAll, s, cmds
<1>10. ToSet(Marker) \ {" "} # {}
  <2>1. "echo" \in ToSet(Marker) /\ "echo" # " "
    BY MarkerParts
  <2>. QED BY <2>1, Zenon
<1>11. NotBlank(Append(cmds, Marker)) = Append(NotBlank(cmds), Marker)
  BY <1>2, <1>6, <1>10, NotBlankMore
<1>. QED BY <1>3, <1>8, <1>9, <1>11 DEF line

-----------------------------------------------------------------------------
(* What the marker reads as.                                               *)

\* A command being expanded, no name read of it.
Reads(w, c, h, m, d) ==
  [words : {w}, cur : {c}, has : {h}, mode : {m}, dollar : {d}, name : {<< >>}]

\* Its parts,
LEMMA ReadsParts ==
  ASSUME NEW w, NEW c, NEW h, NEW m, NEW d, NEW x \in Reads(w, c, h, m, d)
  PROVE  x.words = w /\ x.cur = c /\ x.has = h /\ x.mode = m /\ x.dollar = d
BY DEF Reads

\* what is pushed,
LEMMA ReadsPushed ==
  ASSUME NEW w, NEW c, NEW h, NEW m, NEW d, NEW x \in Reads(w, c, h, m, d),
         NEW s, s # << >>, NEW yes, yes = TRUE
  PROVE  Push(x, s) \in Reads(w, c \o s, yes, m, "no")
<1>1. (x.has \/ s # << >>) = yes
  BY Zenon
<1>2. \A c2, h2, d2 : [x EXCEPT !.cur = c2, !.has = h2, !.dollar = d2]
                              \in Reads(w, c2, h2, m, d2)
  BY DEF Reads
<1>3. x.cur = c
  BY ReadsParts
<1>4. Push(x, s) = [x EXCEPT !.cur = c \o s, !.has = yes, !.dollar = "no"]
  BY <1>1, <1>3, Zenon DEF Push
<1>5. [x EXCEPT !.cur = c \o s, !.has = yes, !.dollar = "no"] \in Reads(w, c \o s, yes, m, "no")
  BY <1>2
<1>. QED BY <1>4, <1>5

\* a word ended,
LEMMA ReadsEnded ==
  ASSUME NEW w, NEW c, NEW m, NEW yes, yes = TRUE, NEW no, no = FALSE,
         NEW x \in Reads(w, c, yes, m, "no")
  PROVE  EndWord(x) \in Reads(Append(w, c), << >>, no, m, "no")
<1>1. \A w2, c2, h2 : [x EXCEPT !.words = w2, !.cur = c2, !.has = h2]
                        \in Reads(w2, c2, h2, m, "no")
  BY DEF Reads
<1>2. x.has = yes /\ x.words = w /\ x.cur = c
  <2>1. \A v : \A y \in Reads(w, c, v, m, "no") : y.has = v /\ y.words = w /\ y.cur = c
    BY ReadsParts
  <2>. QED BY <2>1, Zenon
<1>3. EndWord(x) = [x EXCEPT !.words = Append(w, c), !.cur = << >>, !.has = no]
  BY <1>2, Zenon DEF EndWord
<1>. QED BY <1>1, <1>3, Zenon

\* quotes opened, and a dollar.
LEMMA ReadsMode ==
  ASSUME NEW w, NEW c, NEW h, NEW m, NEW yes, yes = TRUE,
         NEW x \in Reads(w, c, h, m, "no")
  PROVE  /\ Quoted(x, "double") \in Reads(w, c, yes, "double", "no")
         /\ Dollar(x) \in Reads(w, c, h, m, "start")
<1>1. Quoted(x, "double") \in Reads(w, c, yes, "double", "no")
  <2>1. \A h2, m2 : [x EXCEPT !.mode = m2, !.has = h2] \in Reads(w, c, h2, m2, "no")
    BY DEF Reads
  <2>2. Quoted(x, "double") = [x EXCEPT !.mode = "double", !.has = yes]
    BY Zenon DEF Quoted
  <2>. QED BY <2>1, <2>2, Zenon
<1>2. Dollar(x) \in Reads(w, c, h, m, "start")
  BY DEF Reads, Dollar
<1>. QED BY <1>1, <1>2

\* What the marker's characters do to a command being expanded.
LEMMA MarkerReads ==
  ASSUME NEW w, NEW c, NEW h, NEW m, NEW d, NEW x \in Reads(w, c, h, m, d),
         NEW a, NEW env, NEW status, NEW yes, yes = TRUE, NEW no, no = FALSE
  PROVE  /\ d = "no" /\ Alphanumeric(a) /\ m \in {"bare", "double"} =>
              ExpandChar(x, a, env, status) \in Reads(w, c \o <<a>>, yes, m, "no")
         /\ d = "no" /\ m = "bare" /\ h = yes /\ a = " " =>
              ExpandChar(x, a, env, status) \in Reads(Append(w, c), << >>, no, "bare", "no")
         /\ d = "no" /\ m = "bare" /\ a = "\"" =>
              ExpandChar(x, a, env, status) \in Reads(w, c, yes, "double", "no")
         /\ d = "no" /\ m = "double" /\ a = "\"" =>
              ExpandChar(x, a, env, status) \in Reads(w, c, h, "bare", "no")
         /\ d = "no" /\ m = "double" /\ a = "$" =>
              ExpandChar(x, a, env, status) \in Reads(w, c, h, "double", "start")
         /\ d = "start" /\ a = "?" =>
              ExpandChar(x, a, env, status) \in Reads(w, c \o <<Digits(status)>>, yes, m, "no")
<1>1. \A z : <<z>> # << >>
  OBVIOUS
<1>2. x.mode = m /\ x.dollar = d /\ x.has = h
  BY ReadsParts
<1>3. d = "no" => Settled(x, env) = x
  BY <1>2, Zenon DEF Settled
<1>4. Alphanumeric(a) => a # "'" /\ a # "\"" /\ a # " " /\ a # "$"
  BY DEF Alphanumeric, Special
<1>5. ASSUME d = "no", Alphanumeric(a), m \in {"bare", "double"}
      PROVE  ExpandChar(x, a, env, status) \in Reads(w, c \o <<a>>, yes, m, "no")
  <2>1. ExpandChar(x, a, env, status) = Push(x, <<a>>)
    BY <1>2, <1>3, <1>4, <1>5 DEF ExpandChar
  <2>. QED BY <1>1, <2>1, ReadsPushed
<1>6. ASSUME d = "no", m = "bare", h = yes, a = " "
      PROVE  ExpandChar(x, a, env, status) \in Reads(Append(w, c), << >>, no, "bare", "no")
  <2>1. ExpandChar(x, a, env, status) = EndWord(x)
    BY <1>2, <1>3, <1>6 DEF ExpandChar, Alphanumeric, Special
  <2>. QED BY <1>6, <2>1, ReadsEnded, Zenon
<1>7. ASSUME d = "no", m = "bare", a = "\""
      PROVE  ExpandChar(x, a, env, status) \in Reads(w, c, yes, "double", "no")
  <2>1. ExpandChar(x, a, env, status) = Quoted(x, "double")
    BY <1>2, <1>3, <1>7 DEF ExpandChar
  <2>. QED BY <1>7, <2>1, ReadsMode, Zenon
<1>8. ASSUME d = "no", m = "double", a = "\""
      PROVE  ExpandChar(x, a, env, status) \in Reads(w, c, h, "bare", "no")
  <2>1. ExpandChar(x, a, env, status) = [x EXCEPT !.mode = "bare"]
    BY <1>2, <1>3, <1>8 DEF ExpandChar
  <2>2. x \in Reads(w, c, h, m, "no")
    BY <1>8
  <2>3. [x EXCEPT !.mode = "bare"] \in Reads(w, c, h, "bare", "no")
    BY <2>2 DEF Reads
  <2>. QED BY <2>1, <2>3
<1>9. ASSUME d = "no", m = "double", a = "$"
      PROVE  ExpandChar(x, a, env, status) \in Reads(w, c, h, "double", "start")
  <2>1. ExpandChar(x, a, env, status) = Dollar(x)
    BY <1>2, <1>3, <1>9 DEF ExpandChar
  <2>2. x \in Reads(w, c, h, "double", "no")
    BY <1>9
  <2>3. Dollar(x) \in Reads(w, c, h, "double", "start")
    BY <2>2, ReadsMode, Zenon
  <2>. QED BY <2>1, <2>3, Zenon
<1>10. ASSUME d = "start", a = "?"
       PROVE  ExpandChar(x, a, env, status) \in Reads(w, c \o <<Digits(status)>>, yes, m, "no")
  <2>1. ExpandChar(x, a, env, status) = Push(x, <<Digits(status)>>)
    BY <1>2, <1>10 DEF ExpandChar, Alphanumeric, Special
  <2>. QED BY <1>1, <2>1, ReadsPushed
<1>. QED BY <1>5, <1>6, <1>7, <1>8, <1>9, <1>10

\* echo's words of the marker: its name, and the marker's letters with the status.
LEMMA MarkerExpands ==
  ASSUME Markers \subseteq Key, NEW env \in Env, NEW status \in Nat
  PROVE  ExpandWords(Marker, env, status) = <<<<"echo">>, <<"B", "G", Digits(status)>>>>
<1> DEFINE E(s) == ExpandCharAll(ExpandStart, s, env, status)
           At(s, w, c, h, m, d) == s \in Seq(Key) /\ E(s) \in Reads(w, c, h, m, d)
           yes == TRUE
           no == FALSE
           e == << >> \o <<"echo">>
           w1 == Append(<< >>, e)
           c1 == << >> \o <<"B">>
           c2 == c1 \o <<"G">>
           c3 == c2 \o <<Digits(status)>>
           m1 == <<"echo">>
           m2 == Append(m1, " ")
           m3 == Append(m2, "\"")
           m4 == Append(m3, "B")
           m5 == Append(m4, "\"")
           m6 == Append(m5, "\"")
           m7 == Append(m6, "G")
           m8 == Append(m7, "$")
           m9 == Append(m8, "?")
<1>1. m1 = Append(<< >>, "echo") /\ Marker = Append(m9, "\"")
  <2>1. Marker = Append(m9, "\"")
    BY MarkerParts, Zenon
  <2>2. m1 = Append(<< >>, "echo")
    OBVIOUS
  <2>. QED BY <2>1, <2>2, Zenon
<1>2. /\ "echo" \in Key /\ " " \in Key /\ "\"" \in Key /\ "B" \in Key /\ "G" \in Key
      /\ "$" \in Key /\ "?" \in Key
  BY DEF Markers
<1>3. ExpandStart \in Expanding
  BY EmptySeq, Tokens DEF ExpandStart, Expanding
<1>4. /\ E(<< >>) = ExpandStart
      /\ \A s \in Seq(Key), k \in Key :
           E(Append(s, k)) = ExpandChar(E(s), k, env, status)
  <2>1. Expands(env, status)
    BY ExpandType DEF Expands
  <2>2. ExpandCharAll(ExpandStart, << >>, env, status) = ExpandStart
    BY <1>3, <2>1, ExpandCharFold
  <2>3. \A s \in Seq(Key), k \in Key : ExpandsNext(ExpandStart, s, k, env, status)
    BY <1>3, <2>1, ExpandCharFold
  <2>. QED BY <2>2, <2>3, Zenon DEF ExpandsNext
<1>5. yes = TRUE /\ no = FALSE
  BY Zenon
<1> HIDE DEF yes, no, E
<1>6. ASSUME NEW s, NEW w, NEW c, NEW h, NEW m, NEW d, At(s, w, c, h, m, d), NEW k \in Key
      PROVE  /\ d = "no" /\ Alphanumeric(k) /\ m \in {"bare", "double"} =>
                   At(Append(s, k), w, c \o <<k>>, yes, m, "no")
             /\ d = "no" /\ m = "bare" /\ h = yes /\ k = " " =>
                   At(Append(s, k), Append(w, c), << >>, no, "bare", "no")
             /\ d = "no" /\ m = "bare" /\ k = "\"" =>
                   At(Append(s, k), w, c, yes, "double", "no")
             /\ d = "no" /\ m = "double" /\ k = "\"" =>
                   At(Append(s, k), w, c, h, "bare", "no")
             /\ d = "no" /\ m = "double" /\ k = "$" =>
                   At(Append(s, k), w, c, h, "double", "start")
             /\ d = "start" /\ k = "?" =>
                   At(Append(s, k), w, c \o <<Digits(status)>>, yes, m, "no")
  <2>1. Append(s, k) \in Seq(Key)
    BY <1>6, AppendProperties
  <2>2. E(Append(s, k)) = ExpandChar(E(s), k, env, status)
    BY <1>4, <1>6
  <2>3. E(s) \in Reads(w, c, h, m, d)
    BY <1>6
  <2> DEFINE x == E(s)
             y == ExpandChar(x, k, env, status)
  <2>5. \A v, t, i, n, l : y \in Reads(v, t, i, n, l) => At(Append(s, k), v, t, i, n, l)
    BY <2>1, <2>2
  <2>6. /\ d = "no" /\ Alphanumeric(k) /\ m \in {"bare", "double"} =>
              y \in Reads(w, c \o <<k>>, yes, m, "no")
        /\ d = "no" /\ m = "bare" /\ h = yes /\ k = " " =>
              y \in Reads(Append(w, c), << >>, no, "bare", "no")
        /\ d = "no" /\ m = "bare" /\ k = "\"" => y \in Reads(w, c, yes, "double", "no")
        /\ d = "no" /\ m = "double" /\ k = "\"" => y \in Reads(w, c, h, "bare", "no")
        /\ d = "no" /\ m = "double" /\ k = "$" => y \in Reads(w, c, h, "double", "start")
        /\ d = "start" /\ k = "?" => y \in Reads(w, c \o <<Digits(status)>>, yes, m, "no")
    BY <1>5, <2>3, MarkerReads
  <2> HIDE DEF y, At
  <2>. QED BY <2>5, <2>6, Zenon
<1> HIDE DEF At
<1>7. At(<< >>, << >>, << >>, no, "bare", "no")
  <2>1. ExpandStart \in Reads(<< >>, << >>, no, "bare", "no")
    BY <1>5 DEF ExpandStart, Reads
  <2>. QED BY <1>4, <2>1, EmptySeq DEF At
<1>8. /\ Alphanumeric("echo") /\ Alphanumeric("B") /\ Alphanumeric("G")
      /\ \A m \in {"bare", "double"} : m = "bare" \/ m = "double"
  BY DEF Alphanumeric, Special
<1> HIDE DEF e, w1, c1, c2, c3, m1, m2, m3, m4, m5, m6, m7, m8, m9
<1>11. At(m1, << >>, e, yes, "bare", "no")
  BY <1>1, <1>2, <1>6, <1>7, <1>8 DEF e
<1>12. At(m2, w1, << >>, no, "bare", "no")
  BY <1>2, <1>6, <1>11 DEF m2, w1
<1>13. At(m3, w1, << >>, yes, "double", "no")
  BY <1>2, <1>6, <1>12 DEF m3
<1>14. At(m4, w1, c1, yes, "double", "no")
  BY <1>2, <1>6, <1>8, <1>13 DEF m4, c1
<1>15. At(m5, w1, c1, yes, "bare", "no")
  BY <1>2, <1>6, <1>14 DEF m5
<1>16. At(m6, w1, c1, yes, "double", "no")
  BY <1>2, <1>6, <1>15 DEF m6
<1>17. At(m7, w1, c2, yes, "double", "no")
  BY <1>2, <1>6, <1>8, <1>16 DEF m7, c2
<1>18. At(m8, w1, c2, yes, "double", "start")
  BY <1>2, <1>6, <1>17 DEF m8
<1>19. At(m9, w1, c3, yes, "double", "no")
  BY <1>2, <1>6, <1>18 DEF m9, c3
<1>20. At(Marker, w1, c3, yes, "bare", "no")
  BY <1>1, <1>2, <1>6, <1>19
<1>21. ExpandWords(Marker, env, status) = Append(w1, c3)
  <2>1. E(Marker) \in Reads(w1, c3, yes, "bare", "no")
    BY <1>20 DEF At
  <2>2. ExpandWords(Marker, env, status) = EndWord(Settled(E(Marker), env)).words
    BY Zenon DEF ExpandWords, ExpandCharAll, E
  <2>3. E(Marker).dollar = "no"
    BY <2>1, ReadsParts
  <2>4. Settled(E(Marker), env) = E(Marker)
    BY <2>3, Zenon DEF Settled
  <2>5. EndWord(E(Marker)) \in Reads(Append(w1, c3), << >>, no, "bare", "no")
    BY <1>5, <2>1, ReadsEnded
  <2>6. EndWord(E(Marker)).words = Append(w1, c3)
    <3>1. \A v, t, i : \A y \in Reads(v, t, i, "bare", "no") : y.words = v
      BY ReadsParts
    <3>. QED BY <2>5, <3>1, Zenon
  <2>. QED BY <2>2, <2>4, <2>6
<1>22. Append(w1, c3) = <<<<"echo">>, <<"B", "G", Digits(status)>>>>
  <2>1. \A x : << >> \o <<x>> = <<x>>
    OBVIOUS
  <2>2. \A x, y : <<x, y>> = Append(<<x>>, y) /\ <<x>> = Append(<< >>, x)
    OBVIOUS
  <2>3. \A x, y : <<x>> \o <<y>> = <<x, y>>
    <3> SUFFICES ASSUME NEW x, NEW y PROVE <<x>> \o <<y>> = <<x, y>>
      OBVIOUS
    <3> DEFINE S == {x, y}
    <3>1. <<x>> \in Seq(S) /\ y \in S
      OBVIOUS
    <3> HIDE DEF S
    <3>2. <<x>> \o <<y>> = Append(<<x>>, y)
      BY <3>1, JoinsOne
    <3>. QED BY <2>2, <3>2
  <2>4. \A x, y, z : <<x, y, z>> = <<x, y>> \o <<z>>
    OBVIOUS
  <2>5. \A x, y : Append(Append(<< >>, x), y) = <<x, y>>
    BY <2>2
  <2>6. c3 = <<"B", "G", Digits(status)>>
    <3>1. ASSUME NEW x, NEW y, NEW z
          PROVE  ((<< >> \o <<x>>) \o <<y>>) \o <<z>> = <<x, y, z>>
      <4>1. (<< >> \o <<x>>) \o <<y>> = <<x, y>>
        BY <2>1, <2>3, Zenon
      <4>. QED BY <4>1, <2>4, Zenon
    <3>. QED BY <3>1, Zenon DEF c1, c2, c3
  <2>. QED BY <2>1, <2>5, <2>6, Zenon DEF e, w1
<1>. QED BY <1>21, <1>22

-----------------------------------------------------------------------------
(* What the marker answers.                                                *)

\* What the marker answers when the last status was n.
Telling(n) == <<"B", "G", Digits(n)>> \o <<"CRLF">>

\* One word is answered as it is.
LEMMA SpacedOne ==
  ASSUME NEW t \in Text
  PROVE  Spaced(<<t>>) = t
<1> DEFINE S == Text
           parts == [i \in DOMAIN <<t>> |-> IF i = 1 THEN <<t>>[i] ELSE <<" ">> \o <<t>>[i]]
<1>1. parts = <<t>>
  <2>1. DOMAIN <<t>> = {1} /\ <<t>>[1] = t
    OBVIOUS
  <2>2. parts = [i \in {1} |-> t]
    BY <2>1
  <2>3. <<t>> = [i \in {1} |-> t]
    OBVIOUS
  <2>. QED BY <2>2, <2>3, Zenon
<1>2. FlattenSeq(<<t>>) = t
  BY FlatOne DEF Text
<1>. QED BY <1>1, <1>2, Zenon DEF Spaced

\* The marker answers the status it finds, and leaves none.
LEMMA RunMarker ==
  ASSUME Markers \subseteq Key, NEW d \in Answers
  PROVE  RunOne(d, Marker) = Status(Answered(d, Telling(d.device.status)), 0)
<1> DEFINE e == <<"echo">>
           t == <<"B", "G", Digits(d.device.status)>>
           words == ExpandWords(Marker, d.device.env, d.device.status)
           uboot == d.device.kind = "uboot"
<1>1. d.device.env \in Env /\ d.device.status \in Nat
  BY DEF Answers, Device
<1>2. words = <<e, t>>
  BY <1>1, MarkerExpands, Zenon
<1>3. t \in Text
  <2> DEFINE b == "B"
             g == "G"
             n == Digits(d.device.status)
  <2>1. b \in Token /\ g \in Token /\ n \in Token
    BY <1>1, Tokens DEF Markers
  <2> HIDE DEF b, g, n
  <2>2. \A S : \A x, y, z \in S : <<x, y, z>> \in Seq(S)
    OBVIOUS
  <2>3. <<b, g, n>> \in Text
    BY <2>1, <2>2 DEF Text
  <2>. QED BY <2>3, Zenon DEF b, g, n
<1>4. /\ <<e, t>> # << >> /\ <<e, t>>[1] = e /\ Tail(<<e, t>>) = <<t>>
  <2> HIDE DEF e, t
  <2>. QED OBVIOUS
<1>5. Spaced(<<t>>) = t
  BY <1>3, SpacedOne, Zenon
<1> HIDE DEF t, words
<1>6. RunOne(d, Marker) =
        CASE words = << >> -> d
          [] words # << >> ->
               CASE words[1] = <<"echo">>  -> Status(Answered(d, Spaced(Tail(words)) \o <<"CRLF">>), 0)
                 [] words[1] = <<"true">>  -> Status(d, 0)
                 [] words[1] = <<"false">> -> Status(d, 1)
                 [] words[1] = <<"printenv">> /\ uboot -> PrintEnv(d, Tail(words))
                 [] words[1] = <<"setenv">> /\ uboot   -> SetEnv(d, Tail(words))
                 [] words[1] = <<"version">> /\ uboot  -> Status(Answered(d, <<"U-Boot", "CRLF">>), 0)
                 [] OTHER -> Status(Answered(d, <<"unknown: ">> \o words[1] \o <<"CRLF">>),
                                    IF uboot THEN 1 ELSE 127)
  BY Zenon DEF RunOne, words
<1>7. words # << >> /\ words[1] = <<"echo">> /\ Tail(words) = <<t>>
  BY <1>2, <1>4, Zenon
<1>8. <<"echo">> # <<"true">> /\ <<"echo">> # <<"false">> /\ <<"echo">> # <<"printenv">>
      /\ <<"echo">> # <<"setenv">> /\ <<"echo">> # <<"version">>
  OBVIOUS
<1>9. RunOne(d, Marker) = Status(Answered(d, Spaced(Tail(words)) \o <<"CRLF">>), 0)
  BY <1>6, <1>7, <1>8, Zenon
<1>. QED BY <1>5, <1>7, <1>9, Zenon DEF t, Telling

\* After a line's commands the marker answers the status of the last.
LEMMA MarkerRuns ==
  ASSUME Markers \cup {";"} \subseteq Key, NEW d \in Answers, d.device.kind # "at",
         NEW cmd \in Seq(Key), Closed(cmd)
  PROVE  LET run == OnLine(d, cmd)
             wrapped == OnLine(d, (cmd \o <<";">>) \o Marker)
         IN  run \in Answers /\ wrapped.out = run.out \o Telling(run.device.status)
<1> DEFINE run == OnLine(d, cmd)
           line == (cmd \o <<";">>) \o Marker
<1>1. SplitCommands(line) = Append(SplitCommands(cmd), Marker)
  BY MarkerLast
<1>2. SplitCommands(cmd) \in Seq(Seq(Key)) /\ Marker \in Seq(Key)
  BY SplitCommandsType, MarkerParts
<1>3. \A x \in Answers, n \in Seq(Key) : RunOne(x, n) \in Answers
  <2> SUFFICES ASSUME NEW x \in Answers, NEW n \in Seq(Key) PROVE RunOne(x, n) \in Answers
    OBVIOUS
  <2>1. Same(<< >>, x.device, RunOne(x, n), RunOne(x, n))
    BY SameType, RunOneSame, Zenon
  <2>. QED BY <2>1 DEF Same
<1>4. run = RunOneAll(d, SplitCommands(cmd)) /\ OnLine(d, line) = RunOneAll(d, SplitCommands(line))
  BY Zenon DEF OnLine, RunOneAll
<1> HIDE DEF run, line
<1>5. /\ RunOneAll(d, SplitCommands(cmd)) \in Answers
      /\ RunOneAll(d, Append(SplitCommands(cmd), Marker)) = RunOne(RunOneAll(d, SplitCommands(cmd)), Marker)
  BY <1>2, <1>3, RunOneFold
<1>6. run \in Answers /\ OnLine(d, line) = RunOne(run, Marker)
  BY <1>1, <1>4, <1>5, Zenon
<1>7. OnLine(d, line) = Status(Answered(run, Telling(run.device.status)), 0)
  BY <1>6, RunMarker
<1> DEFINE told == Telling(run.device.status)
<1> HIDE DEF told
<1>8. Status(Answered(run, told), 0).out = run.out \o told
  BY <1>6 DEF Status, Answered, Answers
<1>. QED BY <1>6, <1>7, <1>8 DEF told, run, line

-----------------------------------------------------------------------------
(* A line typed at a waiting shell.                                        *)

\* The bytes that do something to a line; a shell that waits for one.
LineKeys == {"CR", "LF", "BS", "ETX"}
Waits(dev) == dev \in Device /\ dev.kind \in Shells /\ ~dev.dead /\ dev.line = << >>

\* Any other byte is echoed and joins the line.
LEMMA PlainByte ==
  ASSUME NEW d \in Answers, d.device.kind \in Shells, ~d.device.dead,
         NEW b \in Key, b \notin LineKeys
  PROVE  FeedByte(d, b)
           = Answered(Lined(Returned(d, FALSE), Append(d.device.line, b)), <<b>>)
<1> DEFINE e == [d EXCEPT !.device.was_cr = FALSE]
<1>1. d.device.kind # "echo" /\ ~d.device.dead
  BY DEF Shells
<1>2. b # "CR" /\ b # "LF" /\ b # "BS" /\ b # "ETX"
  BY DEF LineKeys
<1>3. FeedByte(d, b) = Answered([e EXCEPT !.device.line = Append(@, b)], <<b>>)
  BY <1>1, <1>2, Zenon DEF FeedByte
<1>4. e.device.line = d.device.line
  BY DEF Answers, Device
<1> HIDE DEF e
<1>5. [e EXCEPT !.device.line = Append(@, b)] = [e EXCEPT !.device.line = Append(d.device.line, b)]
  BY <1>4, Zenon
<1>. QED BY <1>3, <1>5, Zenon DEF e, Lined, Returned

\* What is left of a device when its line and its last CR are set aside.
Kin(d, e) == /\ d.kind = e.kind /\ d.dead = e.dead /\ d.status = e.status /\ d.env = e.env

\* Its parts after an edit.
LEMMA EditedParts ==
  ASSUME NEW d \in Answers, NEW line \in Seq(Key), NEW t \in Text
  PROVE  LET e == Answered(Lined(Returned(d, FALSE), line), t)
         IN  /\ e \in Answers /\ Kin(e.device, d.device)
             /\ e.device.line = line /\ ~e.device.was_cr /\ e.out = d.out \o t
<1> DEFINE r == Returned(d, FALSE)
           l == Lined(r, line)
           e == Answered(l, t)
<1>1. r \in Answers /\ r.out = d.out /\ Kin(r.device, d.device) /\ ~r.device.was_cr
  BY DEF Returned, Answers, Device, Kin
<1> HIDE DEF r
<1>2. l \in Answers /\ l.out = r.out /\ Kin(l.device, r.device) /\ ~l.device.was_cr
      /\ l.device.line = line
  BY <1>1 DEF Lined, Answers, Device, Kin
<1> HIDE DEF l
<1>3. l.out \o t \in Text
  BY <1>2, Texts DEF Answers
<1>4. e \in Answers /\ e.out = l.out \o t /\ e.device = l.device
  BY <1>2, <1>3 DEF Answered, Answers
<1> HIDE DEF e
<1>5. Kin(e.device, d.device)
  BY <1>1, <1>2, <1>4 DEF Kin
<1>. QED BY <1>1, <1>2, <1>4, <1>5 DEF e, l, r

\* A line typed so far: echoed, kept, nothing done.
LEMMA PlainLine ==
  ASSUME NEW dev, Waits(dev), NEW s \in Seq(Key), ToSet(s) \cap LineKeys = {}
  PROVE  LET y == Feed(dev, s)
         IN  /\ y \in Answers /\ y.out = s /\ y.device.line = s /\ Kin(y.device, dev)
             /\ ~dev.was_cr => ~y.device.was_cr
<1> DEFINE x == Unanswered(dev)
           Held(y, u) == y \in Answers /\ y.out = u /\ y.device.line = u /\ Kin(y.device, dev)
                         /\ (~dev.was_cr => ~y.device.was_cr)
           T == {u \in Seq(Key) : ToSet(u) \cap LineKeys = {} => Held(FeedByteAll(x, u), u)}
<1>1. dev \in Device /\ dev.kind \in Shells /\ ~dev.dead /\ dev.line = << >>
  BY DEF Waits
<1>2. x \in Answers /\ x.device = dev /\ x.out = << >>
  BY <1>1, FeedFacts DEF Unanswered
<1> HIDE DEF x
<1>3. /\ FeedByteAll(x, << >>) = x
      /\ \A u \in Seq(Key), b \in Key :
           FeedByteAll(x, Append(u, b)) = FeedByte(FeedByteAll(x, u), b)
  BY <1>2, FeedAll
<1>4. << >> \in T
  BY <1>1, <1>2, <1>3, EmptySeq DEF Kin
<1>5. ASSUME NEW u \in T, NEW b \in Key PROVE Append(u, b) \in T
  <2> DEFINE y == FeedByteAll(x, u)
             more == Append(u, b)
             z == Answered(Lined(Returned(y, FALSE), more), <<b>>)
  <2>1. u \in Seq(Key) /\ Append(u, b) \in Seq(Key)
    BY AppendProperties
  <2>2. ToSet(Append(u, b)) = ToSet(u) \cup {b}
    BY <2>1, ToSetAppend
  <2>3. SUFFICES ASSUME ToSet(Append(u, b)) \cap LineKeys = {}
                 PROVE  Held(FeedByteAll(x, Append(u, b)), Append(u, b))
    BY <2>1
  <2>4. ToSet(u) \cap LineKeys = {} /\ b \notin LineKeys
    BY <2>2, <2>3
  <2>5. Held(y, u)
    BY <2>4
  <2>6. FeedByteAll(x, Append(u, b)) = FeedByte(y, b)
    BY <1>3, <2>1
  <2> HIDE DEF y
  <2>7. y \in Answers /\ y.device.kind \in Shells /\ ~y.device.dead /\ y.device.line = u /\ y.out = u
        /\ Kin(y.device, dev)
    BY <1>1, <2>5 DEF Kin
  <2>8. FeedByte(y, b) = z
    BY <2>4, <2>7, PlainByte
  <2>9. <<b>> \in Text
    BY Tokens
  <2>10. more \in Seq(Key)
    BY <2>1
  <2> HIDE DEF more
  <2>11. z \in Answers /\ Kin(z.device, y.device) /\ z.device.line = more
         /\ z.out = y.out \o <<b>> /\ ~z.device.was_cr
    BY <2>7, <2>9, <2>10, EditedParts
  <2>12. u \o <<b>> = Append(u, b)
    BY <2>1, JoinsOne
  <2> HIDE DEF z
  <2>13. Held(z, Append(u, b))
    BY <2>7, <2>11, <2>12 DEF Kin, more
  <2>. QED BY <2>6, <2>8, <2>13
<1>6. T = Seq(Key)
  <2>1. T \in SUBSET Seq(Key) /\ \A u \in T, b \in Key : Append(u, b) \in T
    BY <1>5
  <2> HIDE DEF T
  <2>. QED BY <1>4, <2>1, SeqSet
<1>7. Feed(dev, s) = FeedByteAll(x, s)
  BY <1>1, FeedFacts DEF x
<1>. QED BY <1>6, <1>7

\* A shell that waits, with no CR just read.
Settling(dev) == [dev EXCEPT !.was_cr = FALSE]

\* A line typed and ended runs, whatever was answered before.
LEMMA LineRuns ==
  ASSUME "CR" \in Key, NEW dev, Waits(dev), NEW s \in Seq(Key), ToSet(s) \cap LineKeys = {}
  PROVE  LET run == OnLine(Unanswered(Settling(dev)), s)
             fed == Feed(dev, Append(s, "CR"))
         IN  /\ Unanswered(Settling(dev)) \in Answers
             /\ run \in Answers
             /\ fed.out = ((s \o <<"CRLF">>) \o run.out) \o Prompt(dev.kind)
             /\ fed.device.status = run.device.status /\ fed.device.was_cr
<1> DEFINE base == Settling(dev)
           b0 == Unanswered(base)
           run == OnLine(b0, s)
           y == Feed(dev, s)
           y1 == Answered(Lined(Returned(y, FALSE), << >>), <<"CRLF">>)
           o == s \o <<"CRLF">>
           ran == OnLine(y1, s)
           prompt == Prompt(dev.kind)
<1>1. dev \in Device /\ dev.kind \in Shells /\ ~dev.dead /\ dev.line = << >>
  BY DEF Waits
<1>2. base \in Device /\ Kin(base, dev) /\ base.line = << >> /\ ~base.was_cr
  BY <1>1 DEF Settling, Device, Kin
<1>3. b0 \in Answers /\ b0.device = base /\ b0.out = << >>
  BY <1>2, FeedFacts DEF Unanswered
<1>4. y \in Answers /\ y.out = s /\ y.device.line = s /\ Kin(y.device, dev)
  BY PlainLine
<1>5. << >> \in Seq(Key) /\ <<"CRLF">> \in Text
  BY EmptySeq, Texts DEF Fixed
<1> HIDE DEF y, base, b0
<1>6. y1 \in Answers /\ Kin(y1.device, y.device) /\ y1.device.line = << >> /\ ~y1.device.was_cr
      /\ y1.out = y.out \o <<"CRLF">>
  BY <1>4, <1>5, EditedParts
<1> HIDE DEF y1
<1>7. y1.device = base
  <2>1. \A d, e \in Device : Kin(d, e) /\ d.line = e.line /\ d.was_cr = e.was_cr => d = e
    BY DEF Device, Kin
  <2>2. y1.device \in Device /\ Kin(y1.device, base) /\ y1.device.line = base.line
    BY <1>2, <1>4, <1>6 DEF Kin, Answers
  <2>3. y1.device.was_cr \in BOOLEAN /\ base.was_cr \in BOOLEAN
    BY <1>2, <1>6 DEF Device, Answers
  <2>4. y1.device.was_cr = base.was_cr
    BY <1>2, <1>6, <2>3
  <2>. QED BY <1>2, <2>1, <2>2, <2>4
<1>8. o \in Text /\ y1.out = o
  BY <1>4, <1>5, <1>6, Tokens, Texts
<1> HIDE DEF o
<1>9. Same(o, base, y1, b0)
  <2>1. o \o << >> = o
    BY <1>8, ConcatEmptySeq DEF Text
  <2>. QED BY <1>3, <1>6, <1>7, <1>8, <2>1 DEF Same
<1>10. Same(o, base, ran, run)
  BY <1>9, OnLineSame, Zenon
<1> HIDE DEF ran, run
<1>11. ran \in Answers /\ run \in Answers /\ ran.out = o \o run.out /\ ran.device = run.device
  BY <1>10 DEF Same
<1>12. Feed(dev, Append(s, "CR")) = FeedByte(y, "CR")
  <2>1. Append(s, "CR") \in Seq(Key)
    BY AppendProperties
  <2>2. Feed(dev, Append(s, "CR")) = FeedByteAll(Unanswered(dev), Append(s, "CR"))
        /\ y = FeedByteAll(Unanswered(dev), s) /\ Unanswered(dev) \in Answers
    BY <1>1, <2>1, FeedFacts DEF y
  <2>. QED BY <2>2, FeedAll
<1>13. FeedByte(y, "CR") = EnterLine(Returned(y, FALSE), "CR")
  <2>1. y.device.kind # "echo" /\ ~y.device.dead
    BY <1>1, <1>4 DEF Kin, Shells
  <2>2. "CR" # "LF"
    OBVIOUS
  <2>. QED BY <2>1, <2>2, Zenon DEF FeedByte, Returned
<1>14. EnterLine(Returned(y, FALSE), "CR") = Returned(Answered(ran, prompt), "CR" = "CR")
  <2> DEFINE r == Returned(y, FALSE)
  <2>1. r.device.line = s /\ r.device.kind = dev.kind
    BY <1>4 DEF Returned, Answers, Device, Kin
  <2> HIDE DEF r
  <2>2. EnterLine(r, "CR")
          = Returned(Answered(OnLine(Answered(Lined(r, << >>), <<"CRLF">>), r.device.line),
                              Prompt(r.device.kind)), "CR" = "CR")
    BY Zenon DEF EnterLine, Returned, Lined
  <2>3. Answered(Lined(r, << >>), <<"CRLF">>) = y1
    BY Zenon DEF y1, r
  <2>. QED BY <2>1, <2>2, <2>3, Zenon DEF ran, r
<1>15. prompt \in Text
  BY <1>1, NewDeviceType DEF Device
<1> HIDE DEF prompt
<1> DEFINE z == Answered(ran, prompt)
           cr == "CR" = "CR"
<1>16. z \in Answers /\ z.out = ran.out \o prompt /\ z.device = ran.device
  <2>1. ran.out \o prompt \in Text
    BY <1>11, <1>15, Texts DEF Answers
  <2>. QED BY <1>11, <2>1 DEF Answered, Answers
<1> HIDE DEF z, cr
<1>17. /\ Returned(z, cr).out = z.out /\ Returned(z, cr).device.status = z.device.status
       /\ Returned(z, cr).device.was_cr = cr
  BY <1>16 DEF Returned, Answers, Device
<1>18. Feed(dev, Append(s, "CR")) = Returned(z, cr)
  BY <1>12, <1>13, <1>14, Zenon DEF z, cr
<1>19. cr
  BY Zenon DEF cr
<1>. QED BY <1>3, <1>11, <1>16, <1>17, <1>18, <1>19 DEF run, b0, base, o, prompt

-----------------------------------------------------------------------------
(* A command with the marker after it.                                     *)

\* What is typed when a command is followed by the marker.
WithMarker(cmd) == (cmd \o <<";">>) \o Marker

\* None of it ends or edits the line.
LEMMA WithMarkerPlain ==
  ASSUME Markers \cup {";"} \subseteq Key, NEW cmd \in Seq(Key), ToSet(cmd) \cap LineKeys = {}
  PROVE  WithMarker(cmd) \in Seq(Key) /\ ToSet(WithMarker(cmd)) \cap LineKeys = {}
<1> DEFINE line == cmd \o <<";">>
<1>1. line = Append(cmd, ";") /\ line \in Seq(Key)
  BY JoinsOne
<1>2. ToSet(line) = ToSet(cmd) \cup {";"}
  BY <1>1, ToSetAppend
<1>3. Marker \in Seq(Key) /\ Marker \in Seq(Markers)
  BY MarkerParts
<1>4. ToSet(Marker) \subseteq Markers
  BY <1>3, ToSetType
<1> HIDE DEF line
<1>5. ToSet(line \o Marker) = ToSet(line) \cup ToSet(Marker)
  <2>1. \A s, t \in Seq(Key) : ToSet(s \o t) = ToSet(s) \cup ToSet(t)
    BY ToSetConcat
  <2>. QED BY <1>1, <1>3, <2>1
<1>6. line \o Marker \in Seq(Key)
  BY <1>1, <1>3, ConcatProperties
<1>7. Markers \cap LineKeys = {} /\ ";" \notin LineKeys
  BY DEF Markers, LineKeys
<1>8. ToSet(line \o Marker) \cap LineKeys = {}
  BY <1>2, <1>4, <1>5, <1>7
<1>. QED BY <1>6, <1>8 DEF WithMarker, line

\* "the `$?` in serial-tether's trailing echo sees the status of the user command
\* that ran just before it" (sim.rs:405-407), for every command line typed at a shell's
\* prompt whose quotes are closed: with the marker after it the shell answers all it
\* would have answered without, and then the status it would have been left with.
THEOREM StatusTold ==
  ASSUME Markers \cup {";", "CR"} \subseteq Key, NEW dev, Waits(dev),
         NEW cmd \in Seq(Key), ToSet(cmd) \cap LineKeys = {}, Closed(cmd)
  PROVE  LET alone   == Feed(dev, Append(cmd, "CR"))
             wrapped == Feed(dev, Append(WithMarker(cmd), "CR"))
         IN  \E answer \in Text :
               /\ alone.out = ((cmd \o <<"CRLF">>) \o answer) \o Prompt(dev.kind)
               /\ wrapped.out = ((WithMarker(cmd) \o <<"CRLF">>)
                                   \o (answer \o Telling(alone.device.status)))
                                 \o Prompt(dev.kind)
<1> DEFINE b0 == Unanswered(Settling(dev))
           run == OnLine(b0, cmd)
           after == OnLine(b0, WithMarker(cmd))
           alone == Feed(dev, Append(cmd, "CR"))
           wrapped == Feed(dev, Append(WithMarker(cmd), "CR"))
<1>1. WithMarker(cmd) \in Seq(Key) /\ ToSet(WithMarker(cmd)) \cap LineKeys = {}
  BY WithMarkerPlain
<1>2. /\ b0 \in Answers /\ run \in Answers
      /\ alone.out = ((cmd \o <<"CRLF">>) \o run.out) \o Prompt(dev.kind)
      /\ alone.device.status = run.device.status
  BY LineRuns
<1>3. wrapped.out = ((WithMarker(cmd) \o <<"CRLF">>) \o after.out) \o Prompt(dev.kind)
  BY <1>1, LineRuns
<1>4. b0.device.kind # "at"
  BY DEF Unanswered, Settling, Waits, Device, Shells
<1>5. after.out = run.out \o Telling(run.device.status)
  BY <1>2, <1>4, MarkerRuns DEF WithMarker
<1>6. run.out \in Text
  BY <1>2 DEF Answers
<1> HIDE DEF run, after, alone, wrapped
<1>7. wrapped.out = ((WithMarker(cmd) \o <<"CRLF">>)
                       \o (run.out \o Telling(alone.device.status))) \o Prompt(dev.kind)
  BY <1>2, <1>3, <1>5, Zenon
<1>. QED BY <1>2, <1>6, <1>7, Zenon DEF alone, wrapped

-----------------------------------------------------------------------------
(* The marker heard.                                                       *)

\* Where t has a marker; t may be followed by anything and the marker is where it was.
MarksOf(t) == {i \in 1..(Len(t) - 2) : t[i] = "B" /\ t[i + 1] = "G"}
Quiet(t) == \A i \in 1..(Len(t) - 1) : ~(t[i] = "B" /\ t[i + 1] = "G")
Clean(t) == /\ t \in Text /\ Quiet(t)
            /\ Len(t) > 0 => t[Len(t)] # "B"

\* Where the elements of two texts are in their join.
LEMMA JoinedAt ==
  ASSUME NEW s \in Text, NEW t \in Text
  PROVE  /\ s \o t \in Text /\ Len(s) \in Nat /\ Len(t) \in Nat
         /\ Len(s \o t) = Len(s) + Len(t)
         /\ \A i \in 1..Len(s) : (s \o t)[i] = s[i]
         /\ \A i \in 1..Len(t) : (s \o t)[Len(s) + i] = t[i]
<1> DEFINE w == s \o t
           m == Len(s)
           n == Len(t)
<1>1. w \in Text /\ m \in Nat /\ n \in Nat /\ Len(w) = m + n
      /\ \A i \in 1..(m + n) : w[i] = IF i <= m THEN s[i] ELSE t[i - m]
  BY LenProperties, ConcatProperties DEF Text
<1> HIDE DEF w, m, n
<1>2. \A i \in 1..m : w[i] = s[i]
  BY <1>1
<1>3. \A i \in 1..n : w[m + i] = t[i]
  <2> SUFFICES ASSUME NEW i \in 1..n PROVE w[m + i] = t[i]
    OBVIOUS
  <2>1. m + i \in 1..(m + n) /\ ~(m + i <= m) /\ (m + i) - m = i
    BY <1>1
  <2>. QED BY <1>1, <2>1
<1>. QED BY <1>1, <1>2, <1>3 DEF w, m, n

\* A text without the letter is clean,
LEMMA CleanWithout ==
  ASSUME NEW t \in Text, "B" \notin ToSet(t)
  PROVE  Clean(t)
<1>1. Len(t) \in Nat /\ DOMAIN t = 1..Len(t)
  BY LenProperties DEF Text
<1>2. \A i \in 1..Len(t) : t[i] # "B"
  BY <1>1 DEF ToSet
<1>. QED BY <1>1, <1>2 DEF Clean, Quiet

\* two clean texts joined are, and
LEMMA CleanJoined ==
  ASSUME NEW s, NEW t, Clean(s), Clean(t)
  PROVE  Clean(s \o t)
<1> DEFINE m == Len(s)
           n == Len(t)
           w == s \o t
<1>1. s \in Text /\ t \in Text /\ w \in Text
  BY Texts DEF Clean
<1>2. m \in Nat /\ n \in Nat /\ Len(w) = m + n
      /\ \A i \in 1..(m + n) : w[i] = IF i <= m THEN s[i] ELSE t[i - m]
  BY <1>1, LenProperties, ConcatProperties DEF Text
<1>3. /\ \A i \in 1..(m - 1) : ~(s[i] = "B" /\ s[i + 1] = "G")
      /\ \A i \in 1..(n - 1) : ~(t[i] = "B" /\ t[i + 1] = "G")
      /\ m > 0 => s[m] # "B"
      /\ n > 0 => t[n] # "B"
  BY DEF Clean, Quiet
<1> HIDE DEF m, n, w
<1>4. ASSUME NEW i \in 1..(m + n - 1), w[i] = "B", w[i + 1] = "G"
      PROVE  FALSE
  <2>1. CASE i < m
    BY <1>2, <1>3, <1>4, <2>1
  <2>2. CASE i = m
    BY <1>2, <1>3, <1>4, <2>2
  <2>3. CASE i > m
    <3>1. i - m \in 1..(n - 1) /\ (i - m) + 1 = (i + 1) - m
      BY <1>2, <2>3
    <3>2. w[i] = t[i - m] /\ w[i + 1] = t[(i + 1) - m]
      BY <1>2, <2>3
    <3>. QED BY <1>3, <1>4, <3>1, <3>2
  <2>. QED BY <1>2, <2>1, <2>2, <2>3
<1>5. m + n > 0 => w[m + n] # "B"
  <2>1. CASE n = 0
    BY <1>2, <1>3, <2>1
  <2>2. CASE n > 0
    <3>1. w[m + n] = t[n]
      BY <1>2, <2>2
    <3>. QED BY <1>3, <2>2, <3>1
  <2>. QED BY <1>2, <2>1, <2>2
<1>. QED BY <1>1, <1>2, <1>4, <1>5 DEF Clean, Quiet, w

\* so is the start of a clean text quiet, which is to have no mark.
LEMMA QuietStart ==
  ASSUME NEW s \in Text, NEW t \in Text, Quiet(s \o t)
  PROVE  Quiet(s) /\ MarksOf(s) = {}
<1> DEFINE m == Len(s)
           n == Len(t)
           w == s \o t
<1>2. m \in Nat /\ n \in Nat /\ Len(w) = m + n
      /\ \A i \in 1..(m + n) : w[i] = IF i <= m THEN s[i] ELSE t[i - m]
  BY LenProperties, ConcatProperties DEF Text
<1>3. \A i \in 1..(m + n - 1) : ~(w[i] = "B" /\ w[i + 1] = "G")
  BY <1>2 DEF Quiet
<1> HIDE DEF w, n
<1>4. \A i \in 1..(m - 1) : ~(s[i] = "B" /\ s[i + 1] = "G")
  <2> SUFFICES ASSUME NEW i \in 1..(m - 1) PROVE ~(s[i] = "B" /\ s[i + 1] = "G")
    OBVIOUS
  <2>1. w[i] = s[i] /\ w[i + 1] = s[i + 1]
    BY <1>2
  <2>. QED BY <1>2, <1>3, <2>1
<1>. QED BY <1>2, <1>4 DEF Quiet, MarksOf

\* A clean text, a marker with what it tells, and a text without the letter, which goes on
\* with a line end: one mark.
LEMMA OneMark ==
  ASSUME NEW s, Clean(s), NEW d \in Token, NEW r, NEW t \in Text, t = <<"CRLF">> \o r,
         r \in Text, "B" \notin ToSet(r), {"B", "G"} \subseteq Token
  PROVE  LET w == s \o (<<"B", "G", d>> \o t)
         IN  /\ MarksOf(w) = {Len(s) + 1}
             /\ w[Len(s) + 3] = d
<1> DEFINE k == <<"B", "G", d>>
           u == k \o t
           m == Len(s)
           n == Len(t)
           w == s \o u
<1>1. k \in Text /\ Len(k) = 3 /\ k[1] = "B" /\ k[2] = "G" /\ k[3] = d
  <2>1. \A x, y, z : /\ Len(<<x, y, z>>) = 3 /\ <<x, y, z>>[1] = x /\ <<x, y, z>>[2] = y
                     /\ <<x, y, z>>[3] = z
    OBVIOUS
  <2>2. \A S : \A x, y, z \in S : <<x, y, z>> \in Seq(S)
    OBVIOUS
  <2>3. k \in Seq(Token)
    BY <2>2
  <2>. QED BY <2>1, <2>3, Zenon DEF Text
<1> HIDE DEF k
<1>2. n \in Nat /\ u \in Text /\ Len(u) = 3 + n
      /\ (\A i \in 1..3 : u[i] = k[i]) /\ (\A i \in 1..n : u[3 + i] = t[i])
  <2>1. /\ u \in Text /\ n \in Nat /\ Len(u) = Len(k) + n
        /\ \A i \in 1..Len(k) : u[i] = k[i]
        /\ \A i \in 1..n : u[Len(k) + i] = t[i]
    BY <1>1, JoinedAt
  <2> HIDE DEF n, u
  <2>. QED BY <1>1, <2>1
<1>3. n > 0 /\ t[1] = "CRLF" /\ \A i \in 1..n : t[i] # "B"
  <2>1. <<"CRLF">> \in Text /\ Len(<<"CRLF">>) = 1 /\ <<"CRLF">>[1] = "CRLF"
    BY Texts DEF Fixed
  <2>2. Len(r) \in Nat /\ DOMAIN r = 1..Len(r)
    BY LenProperties DEF Text
  <2>3. \A i \in 1..Len(r) : r[i] # "B"
    BY <2>2 DEF ToSet
  <2> DEFINE e == <<"CRLF">>
  <2>4. Len(e \o r) = Len(e) + Len(r)
        /\ \A i \in 1..(Len(e) + Len(r)) : (e \o r)[i] = IF i <= Len(e) THEN e[i] ELSE r[i - Len(e)]
    BY <2>1, ConcatProperties DEF Text
  <2> DEFINE x == e \o r
  <2>5. x = t
    OBVIOUS
  <2> HIDE DEF x, e
  <2>6. Len(e) = 1 /\ e[1] = "CRLF"
    BY <2>1 DEF e
  <2>. QED BY <2>2, <2>3, <2>4, <2>5, <2>6 DEF x
<1> HIDE DEF n, u
<1>4. /\ u[1] = "B" /\ u[2] = "G" /\ u[3] = d /\ u[4] = "CRLF"
      /\ \A i \in 4..(3 + n) : u[i] # "B"
  <2>1. u[1] = k[1] /\ u[2] = k[2] /\ u[3] = k[3]
    BY <1>2
  <2>2. u[3 + 1] = t[1]
    BY <1>2, <1>3
  <2>3. ASSUME NEW i \in 4..(3 + n) PROVE u[i] # "B"
    <3>1. PICK j \in 1..n : i = 3 + j
      <4>1. i - 3 \in 1..n /\ i = 3 + (i - 3)
        BY <1>2, <2>3
      <4>. QED BY <4>1, Zenon
    <3>2. u[3 + j] = t[j] /\ t[j] # "B"
      BY <1>2, <1>3
    <3>. QED BY <3>1, <3>2, Zenon
  <2>. QED BY <1>1, <1>3, <2>1, <2>2, <2>3
<1>5. s \in Text /\ m \in Nat /\ Len(w) = m + 3 + n
      /\ \A i \in 1..(m + 3 + n) : w[i] = IF i <= m THEN s[i] ELSE u[i - m]
  <2>1. s \in Text
    BY DEF Clean
  <2>2. m \in Nat /\ Len(w) = m + Len(u)
        /\ \A i \in 1..(m + Len(u)) : w[i] = IF i <= m THEN s[i] ELSE u[i - m]
    BY <1>2, <2>1, LenProperties, ConcatProperties DEF Text
  <2> HIDE DEF m, w
  <2>. QED BY <1>2, <2>1, <2>2
<1>6. /\ \A i \in 1..(m - 1) : ~(s[i] = "B" /\ s[i + 1] = "G")
      /\ m > 0 => s[m] # "B"
  BY DEF Clean, Quiet
<1> HIDE DEF m, w
<1>7. w[m + 1] = "B" /\ w[m + 2] = "G" /\ w[m + 3] = d /\ w[m + 4] = "CRLF"
  BY <1>2, <1>3, <1>4, <1>5
<1>8. ASSUME NEW i \in 1..(m + 1 + n), w[i] = "B", w[i + 1] = "G"
      PROVE  i = m + 1
  <2>1. CASE i < m
    <3>1. i \in 1..(m - 1) /\ i \in 1..(m + 3 + n) /\ i + 1 \in 1..(m + 3 + n)
          /\ i <= m /\ i + 1 <= m
      BY <1>2, <1>5, <2>1
    <3>2. w[i] = s[i] /\ w[i + 1] = s[i + 1]
      BY <1>5, <3>1
    <3>. QED BY <1>6, <1>8, <3>1, <3>2, Zenon
  <2>2. CASE i = m
    <3>1. m > 0 /\ i \in 1..(m + 3 + n) /\ i <= m
      BY <1>2, <1>5, <2>2
    <3>2. w[m] = s[m]
      BY <1>5, <2>2, <3>1
    <3>. QED BY <1>6, <1>8, <2>2, <3>1, <3>2, Zenon
  <2>3. CASE i = m + 2
    <3>1. "G" # "B"
      OBVIOUS
    <3>. QED BY <1>7, <1>8, <2>3, <3>1, Zenon
  <2>4. CASE i = m + 3
    <3>1. w[i + 1] = "CRLF"
      BY <1>5, <1>7, <2>4
    <3>. QED BY <1>8, <3>1
  <2>5. CASE i > m + 3
    <3>1. i - m \in 4..(3 + n) /\ w[i] = u[i - m]
      BY <1>2, <1>5, <2>5
    <3>. QED BY <1>4, <1>8, <3>1
  <2>. QED BY <1>2, <1>5, <2>1, <2>2, <2>3, <2>4, <2>5
<1>9. MarksOf(w) = {m + 1}
  <2>1. Len(w) - 2 = m + 1 + n /\ m + 1 \in 1..(m + 1 + n) /\ (m + 1) + 1 = m + 2
    BY <1>2, <1>3, <1>5
  <2>2. MarksOf(w) = {i \in 1..(m + 1 + n) : w[i] = "B" /\ w[i + 1] = "G"}
    BY <2>1, Zenon DEF MarksOf
  <2>3. m + 1 \in MarksOf(w)
    BY <1>7, <2>1, <2>2, Zenon
  <2>4. \A i \in MarksOf(w) : i = m + 1
    BY <1>8, <2>2, Zenon
  <2>. QED BY <2>3, <2>4, Zenon
<1>. QED BY <1>7, <1>9 DEF w, u, m, k

\* A tuple is a sequence, and its elements are where they stand.
LEMMA Tuples ==
  /\ \A x : DOMAIN <<x>> = {1} /\ <<x>>[1] = x
  /\ \A S : \A x, y, z \in S : <<x, y, z>> \in Seq(S)
  /\ \A a, b, c, d, e, f, g, h, i, j :
       LET m == <<a, b, c, d, e, f, g, h, i, j>>
       IN  /\ Len(m) = 10 /\ m[1] = a /\ m[2] = b /\ m[3] = c /\ m[4] = d /\ m[5] = e
           /\ m[6] = f /\ m[7] = g /\ m[8] = h /\ m[9] = i /\ m[10] = j
<1>1. \A x : DOMAIN <<x>> = {1} /\ <<x>>[1] = x
  OBVIOUS
<1>2. \A S : \A x, y, z \in S : <<x, y, z>> \in Seq(S)
  OBVIOUS
<1>3. ASSUME NEW a, NEW b, NEW c, NEW d, NEW e, NEW f, NEW g, NEW h, NEW i, NEW j
      PROVE  LET m == <<a, b, c, d, e, f, g, h, i, j>>
             IN  /\ Len(m) = 10 /\ m[1] = a /\ m[2] = b /\ m[3] = c /\ m[4] = d /\ m[5] = e
                 /\ m[6] = f /\ m[7] = g /\ m[8] = h /\ m[9] = i /\ m[10] = j
  OBVIOUS
<1>. QED BY <1>1, <1>2, <1>3, Zenon

\* The first nine numbers, and two numbers from where a text ends.
LEMMA Numbers ==
  /\ \A i \in 1..9 :
       i = 1 \/ i = 2 \/ i = 3 \/ i = 4 \/ i = 5 \/ i = 6 \/ i = 7 \/ i = 8 \/ i = 9
  /\ \A m \in Nat : m + 1 \in Nat /\ m + 3 = (m + 1) + 2
  /\ 4 + 1 = 5 /\ 10 - 1 = 9
OBVIOUS

\* The texts of a command with the marker are clean, if the command is.
LEMMA MarkerClean ==
  ASSUME Markers \cup {";"} \subseteq Key
  PROVE  /\ {"B", "G"} \subseteq Token
         /\ \A kind \in Shells : Clean(Prompt(kind)) /\ "B" \notin ToSet(Prompt(kind))
         /\ Clean(<<"CRLF">>) /\ Clean(Marker)
         /\ \A cmd \in Seq(Key) : "B" \notin ToSet(cmd) => Clean(WithMarker(cmd))
<1>1. \A x \in Token : x # "B" => Clean(<<x>>) /\ "B" \notin ToSet(<<x>>)
  <2> SUFFICES ASSUME NEW x \in Token, x # "B" PROVE Clean(<<x>>) /\ "B" \notin ToSet(<<x>>)
    OBVIOUS
  <2>1. DOMAIN <<x>> = {1} /\ <<x>>[1] = x
    BY Tuples, Zenon
  <2>2. "B" \notin ToSet(<<x>>)
    BY <2>1 DEF ToSet
  <2>. QED BY <2>2, Tokens, CleanWithout
<1>2. {"B", "G", ";"} \subseteq Token /\ {"CRLF", "$ ", "=> "} \subseteq Token
  BY Tokens DEF Markers, Fixed
<1>3. \A kind \in Shells : Prompt(kind) = <<"$ ">> \/ Prompt(kind) = <<"=> ">>
  BY DEF Shells, Prompt
<1>4. Clean(Marker)
  <2>1. Marker \in Text
    BY MarkerParts, Tokens
  <2>3. /\ Len(Marker) = 10 /\ Marker[1] = "echo" /\ Marker[2] = " " /\ Marker[3] = "\""
        /\ Marker[5] = "\"" /\ Marker[6] = "\"" /\ Marker[7] = "G" /\ Marker[8] = "$"
        /\ Marker[9] = "?" /\ Marker[10] = "\""
    BY Tuples, Zenon DEF Marker
  <2>4. Quiet(Marker)
    <3>1. ASSUME NEW i \in 1..9, Marker[i] = "B" PROVE i = 4
      <4>1. i = 1 \/ i = 2 \/ i = 3 \/ i = 4 \/ i = 5 \/ i = 6 \/ i = 7 \/ i = 8 \/ i = 9
        BY Numbers, Zenon
      <4>2. /\ "echo" # "B" /\ " " # "B" /\ "\"" # "B" /\ "G" # "B" /\ "$" # "B"
            /\ "?" # "B"
        OBVIOUS
      <4>. QED BY <2>3, <3>1, <4>1, <4>2, Zenon
    <3>2. Marker[5] # "G" /\ 4 + 1 = 5 /\ Len(Marker) - 1 = 9
      <4>1. "\"" # "G"
        OBVIOUS
      <4>. QED BY <2>3, <4>1, Numbers, Zenon
    <3>. QED BY <3>1, <3>2, Zenon DEF Quiet
  <2>5. Marker[Len(Marker)] # "B"
    BY <2>3
  <2>. QED BY <2>1, <2>4, <2>5 DEF Clean
<1>5. ASSUME NEW cmd \in Seq(Key), "B" \notin ToSet(cmd) PROVE Clean(WithMarker(cmd))
  <2>1. cmd \in Text
    BY Tokens
  <2>2. Clean(cmd) /\ Clean(<<";">>)
    BY <1>1, <1>2, <1>5, <2>1, CleanWithout
  <2>3. Clean(cmd \o <<";">>)
    BY <2>2, CleanJoined
  <2>. QED BY <1>4, <2>3, CleanJoined DEF WithMarker
<1>. QED BY <1>1, <1>2, <1>3, <1>4, <1>5

\* Until the line is ended there is no mark.
LEMMA TypingQuiet ==
  ASSUME Markers \cup {";"} \subseteq Key, NEW kind \in Shells, NEW cmd \in Seq(Key),
         "B" \notin ToSet(cmd), ToSet(cmd) \cap LineKeys = {},
         NEW fed \in Seq(Key), NEW r \in Seq(Key), fed \o r = WithMarker(cmd)
  PROVE  LET first == Feed(NewDevice(kind), fed)
         IN  ~first.device.was_cr /\ MarksOf(Prompt(kind) \o first.out) = {}
<1> DEFINE new == NewDevice(kind)
           first == Feed(new, fed)
<1>1. kind \in Kinds /\ Prompt(kind) \in Text
  <2>1. kind \in Kinds
    BY DEF Shells, Kinds
  <2>. QED BY <2>1, NewDeviceType
<1>2. Waits(new) /\ ~new.was_cr
  <2>1. new \in Device
    BY <1>1, NewDeviceType
  <2>. QED BY <2>1 DEF Waits, NewDevice
<1>3. ToSet(fed) \cap LineKeys = {}
  <2>1. ToSet(fed \o r) = ToSet(fed) \cup ToSet(r)
    <3>1. \A u, v \in Seq(Key) : ToSet(u \o v) = ToSet(u) \cup ToSet(v)
      BY ToSetConcat
    <3>. QED BY <3>1
  <2>2. ToSet(WithMarker(cmd)) \cap LineKeys = {}
    BY WithMarkerPlain
  <2>. QED BY <2>1, <2>2
<1>4. first.out = fed /\ ~first.device.was_cr
  BY <1>2, <1>3, PlainLine
<1>5. fed \in Text /\ r \in Text /\ Clean(Prompt(kind)) /\ Clean(WithMarker(cmd))
  BY Tokens, MarkerClean
<1> DEFINE p == Prompt(kind)
<1> HIDE DEF p, first
<1>6. Quiet(p \o (fed \o r))
  <2>1. Clean(p \o WithMarker(cmd))
    BY <1>5, CleanJoined DEF p
  <2>. QED BY <2>1 DEF Clean
<1>7. p \o (fed \o r) = (p \o fed) \o r /\ p \o fed \in Text
  <2>1. Associative(Token)
    BY Regrouped, Zenon
  <2>2. (p \o fed) \o r = p \o (fed \o r)
    BY <1>1, <1>5, <2>1, Zenon DEF Associative, Text, p
  <2>. QED BY <1>1, <1>5, <2>2, Texts DEF p
<1>8. MarksOf(p \o fed) = {}
  BY <1>5, <1>6, <1>7, QuietStart
<1>. QED BY <1>4, <1>8 DEF p, first

\* What comes before a marker, and what after it.
Around(p, x, a, k, c, q) ==
  p \o ((x \o (a \o (k \o c))) \o q) = (p \o (x \o a)) \o (k \o (c \o q))

\* Texts are joined so, whichever are joined first.
LEMMA AroundMarker ==
  ASSUME NEW p \in Text, NEW x \in Text, NEW a \in Text, NEW k \in Text, NEW c \in Text,
         NEW q \in Text
  PROVE  Around(p, x, a, k, c, q)
<1> DEFINE Regroups(u, v, w) == (u \o v) \o w = u \o (v \o w)
<1>1. \A u, v, w \in Text : Regroups(u, v, w)
  <2>1. Associative(Token)
    BY Regrouped, Zenon
  <2>. QED BY <2>1, Zenon DEF Associative, Text
<1>2. \A u, v \in Text : u \o v \in Text
  BY Texts
<1> DEFINE kc == k \o c
           akc == a \o kc
           cq == c \o q
           kcq == k \o cq
           akcq == a \o kcq
           xa == x \o a
<1>3. kc \in Text /\ cq \in Text /\ xa \in Text
  BY <1>2, Zenon
<1> HIDE DEF kc, cq, xa
<1>4. akc \in Text /\ kcq \in Text
  BY <1>2, <1>3, Zenon
<1> HIDE DEF akc, kcq, akcq, Regroups
<1>5. /\ Regroups(x, akc, q) /\ Regroups(a, kc, q) /\ Regroups(k, c, q)
      /\ Regroups(x, a, kcq) /\ Regroups(p, xa, kcq)
  BY <1>1, <1>3, <1>4
<1>6. akc \o q = akcq
  BY <1>5, Zenon DEF Regroups, akc, kc, akcq, kcq, cq
<1>7. xa \o kcq = x \o akcq
  BY <1>5, Zenon DEF Regroups, xa, akcq
<1>8. (p \o xa) \o kcq = p \o (xa \o kcq) /\ (x \o akc) \o q = x \o (akc \o q)
  BY <1>5, Zenon DEF Regroups
<1>9. p \o ((x \o akc) \o q) = (p \o xa) \o kcq
  BY <1>6, <1>7, <1>8, Zenon
<1>. QED BY <1>9, Zenon DEF Around, kc, akc, cq, kcq, xa

\* Once it is there is one, and it tells the status.
RunsMarked(kind, cmd) ==
  LET alone == Feed(NewDevice(kind), Append(cmd, "CR"))
      wrapped == Feed(NewDevice(kind), Append(WithMarker(cmd), "CR"))
      all == Prompt(kind) \o wrapped.out
  IN  /\ wrapped.device.was_cr /\ "B" \notin ToSet(cmd)
      /\ \E n \in Nat : MarksOf(all) = {n} /\ all[n + 2] = Digits(alone.device.status)

\* So it is after a command whose own letters and answers are not the marker's.
LEMMA RunMarked ==
  ASSUME Markers \cup {";", "CR"} \subseteq Key, NEW kind \in Shells, NEW cmd \in Seq(Key),
         ToSet(cmd) \cap LineKeys = {}, Closed(cmd),
         "B" \notin ToSet(Feed(NewDevice(kind), Append(cmd, "CR")).out)
  PROVE  RunsMarked(kind, cmd)
<1> DEFINE new == NewDevice(kind)
           alone == Feed(new, Append(cmd, "CR"))
           wrapped == Feed(new, Append(WithMarker(cmd), "CR"))
           p == Prompt(kind)
           line == WithMarker(cmd)
           c == <<"CRLF">>
           told == Digits(alone.device.status)
           k == <<"B", "G", told>>
<1>1. kind \in Kinds /\ p \in Text
  <2>1. kind \in Kinds
    BY DEF Shells, Kinds
  <2>. QED BY <2>1, NewDeviceType
<1>2. Waits(new) /\ new.kind = kind
  <2>1. new \in Device
    BY <1>1, NewDeviceType
  <2>. QED BY <2>1 DEF Waits, NewDevice
<1>3. line \in Seq(Key) /\ ToSet(line) \cap LineKeys = {}
  BY WithMarkerPlain
<1>4. wrapped.device.was_cr
  BY <1>2, <1>3, LineRuns
<1>5. PICK answer \in Text :
        /\ alone.out = ((cmd \o c) \o answer) \o p
        /\ wrapped.out = ((line \o c) \o (answer \o Telling(alone.device.status))) \o p
  BY <1>2, StatusTold
<1>6. told \in Token /\ {"B", "G"} \subseteq Token /\ k \in Text
  <2>1. alone \in Answers
    BY <1>2, AppendProperties, FeedFacts DEF Waits
  <2>2. told \in Token
    BY <2>1, Tokens DEF Answers, Device
  <2>3. {"B", "G"} \subseteq Token
    BY MarkerClean
  <2> HIDE DEF told
  <2>5. k \in Seq(Token)
    <3>1. "B" \in Token /\ "G" \in Token
      BY <2>3
    <3>. QED BY <2>2, <3>1, Tuples, Zenon
  <2>. QED BY <2>2, <2>3, <2>5 DEF Text
<1>7. cmd \in Text /\ line \in Text /\ c \in Text
  BY <1>3, Tokens, Texts DEF Fixed
<1>8. Telling(alone.device.status) = k \o c
  BY Zenon DEF Telling
<1> HIDE DEF alone, wrapped, line, c, k, told, p, new
<1>9. "B" \notin ToSet(cmd) /\ "B" \notin ToSet(answer)
  <2>1. cmd \o c \in Text /\ (cmd \o c) \o answer \in Text
    BY <1>7, Texts
  <2>2. \A u, v \in Text : ToSet(u \o v) = ToSet(u) \cup ToSet(v)
    BY ToSetConcat DEF Text
  <2>3. "B" \notin ToSet(alone.out)
    BY DEF alone, new
  <2>4. alone.out = ((cmd \o c) \o answer) \o p /\ p \in Text
    BY <1>1, <1>5
  <2>5. ToSet(((cmd \o c) \o answer) \o p) = ToSet((cmd \o c) \o answer) \cup ToSet(p)
    BY <2>1, <2>2, <2>4, Zenon
  <2>6. ToSet((cmd \o c) \o answer) = ToSet(cmd \o c) \cup ToSet(answer)
    BY <2>1, <2>2, Zenon
  <2>7. ToSet(cmd \o c) = ToSet(cmd) \cup ToSet(c)
    BY <1>7, <2>2, Zenon
  <2>8. "B" \notin ToSet(((cmd \o c) \o answer) \o p)
    BY <2>3, <2>4, Zenon
  <2>. QED BY <2>5, <2>6, <2>7, <2>8
<1>10. Clean(line) /\ Clean(c) /\ Clean(p) /\ "B" \notin ToSet(p)
  BY <1>9, MarkerClean DEF line, c, p
<1> DEFINE x == line \o c
           before == p \o (x \o answer)
           after == c \o p
<1>11. Clean(before)
  <2>1. Clean(answer) /\ Clean(x)
    BY <1>9, <1>10, CleanWithout, CleanJoined
  <2> HIDE DEF x
  <2>2. Clean(x \o answer)
    BY <2>1, CleanJoined
  <2>. QED BY <1>10, <2>2, CleanJoined
<1>12. x \in Text /\ after \in Text
  BY <1>1, <1>7, Texts
<1>13. p \o wrapped.out = before \o (k \o after)
  <2> HIDE DEF x
  <2>1. wrapped.out = (x \o (answer \o (k \o c))) \o p
    BY <1>5, <1>8 DEF x
  <2>2. Around(p, x, answer, k, c, p)
    BY <1>1, <1>6, <1>7, <1>12, AroundMarker
  <2>. QED BY <2>1, <2>2, Zenon DEF Around
<1> HIDE DEF before, after
<1>14. /\ MarksOf(before \o (k \o after)) = {Len(before) + 1}
       /\ (before \o (k \o after))[Len(before) + 3] = told
  <2>1. after = <<"CRLF">> \o p
    BY DEF after, c
  <2>. QED BY <1>1, <1>6, <1>10, <1>11, <1>12, <2>1, OneMark DEF k
<1>15. Len(before) + 1 \in Nat /\ Len(before) + 3 = (Len(before) + 1) + 2
  <2>1. before \in Seq(Token)
    BY <1>11 DEF Clean, Text
  <2> DEFINE m == Len(before)
  <2>2. m \in Nat
    BY <2>1, LenProperties
  <2> HIDE DEF m
  <2>3. m + 1 \in Nat /\ m + 3 = (m + 1) + 2
    BY <2>2, Numbers, Zenon
  <2>. QED BY <2>3 DEF m
<1>16. \E n \in Nat : MarksOf(p \o wrapped.out) = {n} /\ (p \o wrapped.out)[n + 2] = told
  BY <1>13, <1>14, <1>15
<1>. QED BY <1>4, <1>9, <1>16, Zenon DEF RunsMarked, p, wrapped, new, told, alone

-----------------------------------------------------------------------------
(* A script with the marker.                                               *)

\* A script that types a command with the marker after it at a shell, where neither
\* the command nor what it answers holds the marker's letter.
Marked(s) ==
  /\ s.kind \in Shells
  /\ \E cmd \in Seq(Key) :
       LET alone == Feed(NewDevice(s.kind), Append(cmd, "CR"))
       IN  /\ s.keys = Append(WithMarker(cmd), "CR")
           /\ ToSet(cmd) \cap LineKeys = {} /\ Closed(cmd)
           /\ "B" \notin ToSet(alone.out)
           /\ s.tells = Digits(alone.device.status)

\* The start of a line and its end is the whole or a start of the line.
LEMMA StartOfLine ==
  ASSUME NEW line \in Seq(Key), NEW k \in Key, NEW fed \in Seq(Key), NEW rest \in Seq(Key),
         fed \o rest = Append(line, k)
  PROVE  fed = Append(line, k) \/ \E r \in Seq(Key) : fed \o r = line
<1>1. CASE rest = << >>
  <2>1. fed \o << >> = fed
    BY ConcatEmptySeq
  <2>. QED BY <1>1, <2>1
<1>2. CASE rest # << >>
  <2>1. PICK r \in Seq(Key), x \in Key : rest = Append(r, x)
    BY <1>2, SplitLast
  <2>2. fed \o rest = Append(fed \o r, x) /\ fed \o r \in Seq(Key)
    <3>1. fed \o Append(r, x) = Append(fed \o r, x)
      BY ConcatAppended
    <3>2. fed \o r \in Seq(Key)
      BY ConcatProperties
    <3>. QED BY <2>1, <3>1, <3>2, Zenon
  <2> DEFINE u == fed \o r
  <2> HIDE DEF u
  <2>3. Append(u, x) = Append(line, k) /\ u \in Seq(Key)
    BY <2>2 DEF u
  <2>4. u = line
    BY <2>3, AppendInjective
  <2>. QED BY <2>4 DEF u
<1>. QED BY <1>1, <1>2

\* What Answering says of such a script.
LEMMA MarkedMeans ==
  ASSUME Markers \cup {";", "CR"} \subseteq Key, Typed, Answering, Marked(script)
  PROVE  MarkerTellsStatus
<1> SUFFICES ASSUME loop = "select"
             PROVE  /\ \A i \in Marks : Output[i + 2] = script.tells
                    /\ Cardinality(Marks) = IF device.was_cr THEN 1 ELSE 0
  BY Zenon DEF MarkerTellsStatus
<1> DEFINE kind == script.kind
           new == NewDevice(kind)
<1>1. kind \in Shells /\ Preset
  BY DEF Marked, Preset, Shells, Kinds
<1>2. PICK cmd \in Seq(Key) :
        LET alone == Feed(new, Append(cmd, "CR"))
        IN  /\ script.keys = Append(WithMarker(cmd), "CR")
            /\ ToSet(cmd) \cap LineKeys = {} /\ Closed(cmd)
            /\ "B" \notin ToSet(alone.out)
            /\ script.tells = Digits(alone.device.status)
  BY Zenon DEF Marked
<1> DEFINE line == WithMarker(cmd)
<1>3. PICK fed \in Seq(Key) : /\ fed \o Pending = TypedSoFar
                              /\ device = Feed(new, fed).device
                              /\ Output = Prompt(kind) \o Feed(new, fed).out
  BY <1>1, Zenon DEF Answering, Agree
<1>4. Marks = MarksOf(Output)
  BY Zenon DEF Marks, MarksOf
<1>5. line \in Seq(Key) /\ "CR" \in Key
  BY <1>2, WithMarkerPlain
<1>6. PICK rest \in Seq(Key) : fed \o rest = Append(line, "CR")
  <2> DEFINE all == script.keys
             later == SubSeq(all, typed + 1, Len(all))
  <2>1. all \in Seq(Key) /\ typed \in 0..Len(all)
    BY Kindly DEF Typed, PortType
  <2>2. later \in Seq(Key) /\ TypedSoFar \o later = all /\ TypedSoFar \in Seq(Key)
    BY <2>1, CutInTwo DEF TypedSoFar
  <2>3. Pending \in Seq(Key)
    <3>1. Bytes(incells) \in Seq(Key) /\ keys \in Seq(Key)
      BY FlatType DEF Bytes, Typed, LoopType, PortType
    <3>. QED BY <3>1, ConcatProperties DEF Pending
  <2> HIDE DEF later
  <2>4. (fed \o Pending) \o later = fed \o (Pending \o later)
    <3>1. Associative(Key)
      BY Regrouped, Zenon
    <3>. QED BY <2>2, <2>3, <3>1, Zenon DEF Associative
  <2>5. Pending \o later \in Seq(Key)
    BY <2>2, <2>3, ConcatProperties
  <2>6. fed \o (Pending \o later) = Append(line, "CR")
    BY <1>2, <1>3, <2>2, <2>4, Zenon
  <2>. QED BY <2>5, <2>6
<1> HIDE DEF line
<1>7. RunsMarked(kind, cmd)
  BY <1>1, <1>2, RunMarked
<1>8. CASE fed = Append(line, "CR")
  <2> DEFINE all == Feed(new, fed)
  <2>1. all.device.was_cr /\ \E n \in Nat : /\ MarksOf(Prompt(kind) \o all.out) = {n}
                                         /\ (Prompt(kind) \o all.out)[n + 2] = script.tells
    BY <1>2, <1>7, <1>8, Zenon DEF line, RunsMarked
  <2> HIDE DEF all
  <2>2. PICK n \in Nat : MarksOf(Output) = {n} /\ Output[n + 2] = script.tells
    BY <1>3, <2>1 DEF all
  <2>3. Cardinality({n}) = 1
    BY FS_Singleton
  <2>4. device.was_cr
    BY <1>3, <2>1 DEF all
  <2>. QED BY <1>4, <2>2, <2>3, <2>4
<1>9. CASE \E r \in Seq(Key) : fed \o r = line
  <2> DEFINE first == Feed(new, fed)
  <2>1. PICK r \in Seq(Key) : fed \o r = WithMarker(cmd)
    BY <1>9 DEF line
  <2>2. "B" \notin ToSet(cmd)
    BY <1>7, Zenon DEF RunsMarked
  <2>3. ~first.device.was_cr /\ MarksOf(Prompt(kind) \o first.out) = {}
    BY <1>1, <1>2, <2>1, <2>2, TypingQuiet
  <2> HIDE DEF first
  <2>4. MarksOf(Output) = {} /\ ~device.was_cr
    BY <1>3, <2>3 DEF first
  <2>5. Cardinality({}) = 0
    BY FS_EmptySet
  <2>. QED BY <1>4, <2>4, <2>5
<1>10. fed = Append(line, "CR") \/ \E r \in Seq(Key) : fed \o r = line
  BY <1>5, <1>6, StartOfLine
<1>. QED BY <1>8, <1>9, <1>10

\* "the `$?` in serial-tether's trailing echo sees the status of the user command"
\* (sim.rs:405-407), as the tool that waits for the marker sees it: however reads, cells
\* and writes cut the typing and the answers, until the line is ended nothing it reads
\* holds the marker, not the echo either, and then one place does, followed by the status.
THEOREM MarkerHeard ==
  ASSUME Markers \cup {";", "CR"} \subseteq Key
  PROVE  Spec => [](Marked(script) => MarkerTellsStatus)
<1>1. Typed /\ Answering => (Marked(script) => MarkerTellsStatus)
  BY MarkedMeans
<1>. QED BY <1>1, TypedInit, TypedStep, AnsweringInit, AnsweringStep, PTL DEF Spec
=============================================================================
