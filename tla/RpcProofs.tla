---- MODULE RpcProofs ----
(***************************************************************************)
(* Proofs about Rpc, for any threads, calls, responses and bounds.         *)
(*                                                                         *)
(* First what the loops of the generated code compute: a message that was  *)
(* serialized is parsed again in every field, and whatever bytes arrive    *)
(* for a reply, its fields hold values of their types.  Then what a piece  *)
(* of a stream is, and what each step does to the connections and threads. *)
(* The inductive invariant has a part for each property: a request is at   *)
(* one place only and whole behind its size; replies are typed; and of a   *)
(* channel with one thread whose messages arrive whole, the connection     *)
(* holds the request of the call that waits, or its reply, or nothing.     *)
(***************************************************************************)
EXTENDS Rpc, SequenceTheorems, FiniteSetTheorems, NaturalsInduction, WellFoundedInduction, TLAPS

-----------------------------------------------------------------------------
(* Sequences, and functions that are defined by recursion                  *)

\* Every non-empty set of naturals has a least element.
LEMMA LeastNatural ==
  ASSUME NEW S, S \subseteq Nat, S # {}
  PROVE  \E n \in S : \A m \in S : n <= m
<1>1. PICK n \in S : \A m \in S : <<m, n>> \notin OpToRel(<, Nat)
  BY NatLessThanWellFounded, WFMin, Zenon
<1>2. ASSUME NEW m \in S PROVE n <= m
  <2>1. <<m, n>> \notin OpToRel(<, Nat)
    BY <1>1
  <2>2. ~(m < n)
    BY <2>1 DEF OpToRel
  <2> QED BY <2>2
<1> QED BY <1>1, <1>2

\* Of a set of naturals without a least element: what holds whenever it holds before, holds.
LEMMA NoLeast ==
  ASSUME NEW n \in Nat, NEW Holds \in SUBSET (0 .. n),
         \A k \in 0 .. n : (\A l \in 0 .. n : l < k => l \in Holds) => k \in Holds
  PROVE  Holds = 0 .. n
<1> DEFINE Left == (0 .. n) \ Holds
<1>1. SUFFICES ASSUME Left # {} PROVE FALSE
  OBVIOUS
<1>2. PICK k \in Left : \A m \in Left : k <= m
  <2>1. Left \subseteq Nat
    OBVIOUS
  <2> HIDE DEF Left
  <2> QED BY <1>1, <2>1, LeastNatural
<1>3. \A l \in 0 .. n : l < k => l \in Holds
  BY <1>2
<1> QED BY <1>2, <1>3

LEMMA SequenceOf ==
  ASSUME NEW S, NEW s \in Seq(S)
  PROVE  IsSequence(s) /\ Len(s) \in Nat /\ DOMAIN s = 1 .. Len(s) /\ \A k \in DOMAIN s : s[k] \in S
BY DEF IsSequence

LEMMA SequenceIn ==
  ASSUME NEW s, IsSequence(s)
  PROVE  /\ Len(s) \in Nat /\ DOMAIN s = 1 .. Len(s)
         /\ \A S : (\A k \in DOMAIN s : s[k] \in S) => s \in Seq(S)
<1>1. Len(s) \in Nat /\ s = [k \in 1 .. Len(s) |-> s[k]]
  BY DEF IsSequence
<1>2. DOMAIN s = 1 .. Len(s)
  BY <1>1
<1>3. ASSUME NEW S, \A k \in DOMAIN s : s[k] \in S PROVE s \in Seq(S)
  <2>1. s \in [1 .. Len(s) -> S]
    BY <1>1, <1>2, <1>3
  <2> QED BY <2>1, <1>1, SeqDef
<1> QED BY <1>1, <1>2, <1>3

\* The values of g follow each from the one before.
Follows(g, X, base, n, step) ==
  g \in [0 .. n -> X] /\ g[0] = base /\ \A k \in 1 .. n : g[k] = step[k][g[k - 1]]

LEMMA Recursion ==
  ASSUME NEW X, NEW base \in X, NEW n \in Nat, NEW step \in [1 .. n -> [X -> X]]
  PROVE  \E g : Follows(g, X, base, n, step)
<1> DEFINE Solves(g, m) == Follows(g, X, base, m, step)
           Solved == {m \in 0 .. n : \E g : Solves(g, m)}
<1>1. ASSUME NEW m \in 0 .. n, \A l \in 0 .. n : l < m => l \in Solved
      PROVE  m \in Solved
  <2>1. CASE m = 0
    <3>1. Solves([k \in 0 .. 0 |-> base], 0)
      BY DEF Follows
    <3> QED BY <3>1, <2>1
  <2>2. CASE m # 0
    <3>1. m - 1 \in 0 .. n /\ m - 1 < m /\ m \in 1 .. n
      BY <2>2
    <3>2. PICK g : Solves(g, m - 1)
      BY <3>1, <1>1
    <3> DEFINE h == [k \in 0 .. m |-> IF k = m THEN step[m][g[m - 1]] ELSE g[k]]
    <3>3. g[m - 1] \in X
      BY <3>1, <3>2 DEF Follows
    <3>4. step[m][g[m - 1]] \in X
      BY <3>1, <3>3
    <3>5. h \in [0 .. m -> X] /\ h[0] = base
      BY <3>1, <3>2, <3>4 DEF Follows
    <3>6. ASSUME NEW k \in 1 .. m PROVE h[k] = step[k][h[k - 1]]
      <4>1. CASE k = m
        BY <4>1, <3>1
      <4>2. CASE k # m
        <5>1. k \in 1 .. m - 1 /\ k - 1 # m /\ k \in 0 .. m /\ k - 1 \in 0 .. m
          BY <4>2
        <5> QED BY <5>1, <3>2, <4>2 DEF Follows
      <4> QED BY <4>1, <4>2
    <3>7. Solves(h, m)
      <4> HIDE DEF h
      <4> QED BY <3>5, <3>6 DEF Follows
    <3> QED BY <3>7, <3>1
  <2> QED BY <2>1, <2>2
<1>2. Solved = 0 .. n
  <2> HIDE DEF Solved
  <2>1. Solved \in SUBSET (0 .. n)
    BY DEF Solved
  <2> QED BY <1>1, <2>1, NoLeast
<1>3. n \in Solved
  BY <1>2
<1> QED BY <1>3

\* The function in FlattenSeq.
IsFlatten(f, seqs) == f = [i \in 1 .. Len(seqs) |-> IF i = 1 THEN seqs[i] ELSE f[i - 1] \o seqs[i]]

LEMMA FlattenIsLast ==
  ASSUME NEW seqs, Len(seqs) \in Nat, Len(seqs) # 0, NEW g, g[1] = seqs[1],
         \A k \in 2 .. Len(seqs) : g[k] = g[k - 1] \o seqs[k]
  PROVE  FlattenSeq(seqs) = g[Len(seqs)]
<1> DEFINE n == Len(seqs)
<1> DEFINE f == [k \in 1 .. n |-> g[k]]
           flatten == CHOOSE h : IsFlatten(h, seqs)
<1>1. IsFlatten(f, seqs)
  <2>1. ASSUME NEW k \in 1 .. n PROVE g[k] = IF k = 1 THEN seqs[k] ELSE f[k - 1] \o seqs[k]
    <3>1. CASE k = 1
      BY <3>1
    <3>2. CASE k # 1
      <4>1. k \in 2 .. n /\ k - 1 \in 1 .. n
        BY <3>2
      <4>2. f[k - 1] = g[k - 1]
        BY <4>1
      <4> HIDE DEF f
      <4> QED BY <4>1, <4>2, <3>2
    <3> QED BY <3>1, <3>2
  <2> QED BY <2>1 DEF IsFlatten
<1>2. IsFlatten(flatten, seqs)
  <2> HIDE DEF f
  <2> QED BY <1>1
<1>3. FlattenSeq(seqs) = flatten[n]
  BY Zenon DEF FlattenSeq, IsFlatten
<1> HIDE DEF flatten
<1>4. \A k \in 1 .. n : flatten[k] = IF k = 1 THEN seqs[k] ELSE flatten[k - 1] \o seqs[k]
  BY <1>2, Zenon DEF IsFlatten
<1> DEFINE Same == {k \in 0 .. n : k = 0 \/ flatten[k] = g[k]}
<1>5. ASSUME NEW k \in 0 .. n, \A l \in 0 .. n : l < k => l \in Same
      PROVE  k \in Same
  <2>1. CASE k = 0 \/ k = 1
    BY <2>1, <1>4
  <2>2. CASE ~(k = 0 \/ k = 1)
    <3>1. k \in 1 .. n /\ k - 1 \in 0 .. n /\ k - 1 < k /\ k - 1 # 0
      BY <2>2
    <3>2. flatten[k - 1] = g[k - 1]
      BY <3>1, <1>5
    <3>3. k \in 2 .. n
      BY <2>2
    <3> QED BY <3>1, <3>2, <3>3, <1>4, <2>2
  <2> QED BY <2>1, <2>2
<1>6. Same = 0 .. n
  <2> HIDE DEF Same
  <2>1. Same \in SUBSET (0 .. n)
    BY DEF Same
  <2> QED BY <1>5, <2>1, NoLeast
<1>7. flatten[n] = g[n]
  BY <1>6
<1> QED BY <1>3, <1>7

\* What FlattenSeq has put together of the first k sequences.
IsFlattening(g, S, seqs) ==
  /\ g \in [0 .. Len(seqs) -> Seq(S)]
  /\ g[0] = <<>> /\ FlattenSeq(seqs) = g[Len(seqs)]
  /\ \A k \in 1 .. Len(seqs) : g[k] = g[k - 1] \o seqs[k]

LEMMA FlattenSteps ==
  ASSUME NEW S, NEW seqs, IsSequence(seqs), \A k \in DOMAIN seqs : seqs[k] \in Seq(S)
  PROVE  \E g : IsFlattening(g, S, seqs)
<1> DEFINE n == Len(seqs)
           step == [k \in 1 .. n |-> [x \in Seq(S) |-> x \o seqs[k]]]
<1>0. n \in Nat /\ DOMAIN seqs = 1 .. n /\ \A k \in 1 .. n : seqs[k] \in Seq(S)
  BY SequenceIn
<1>1. PICK g \in [0 .. n -> Seq(S)] : g[0] = <<>> /\ \A k \in 1 .. n : g[k] = step[k][g[k - 1]]
  <2> DEFINE empty == <<>>
             X == Seq(S)
  <2>1. step \in [1 .. n -> [X -> X]]
    BY <1>0
  <2>2. empty \in X /\ n \in Nat
    BY <1>0
  <2> HIDE DEF step, n, X, empty
  <2>3. \E g : Follows(g, X, empty, n, step)
    BY <2>1, <2>2, Recursion
  <2> QED BY <2>3 DEF X, empty, Follows
<1>2. ASSUME NEW k \in 1 .. n PROVE g[k] = g[k - 1] \o seqs[k]
  <2>1. k - 1 \in 0 .. n
    BY <1>0
  <2>2. g[k - 1] \in Seq(S) /\ g[k] = step[k][g[k - 1]]
    BY <1>1, <2>1
  <2>3. step[k] = [x \in Seq(S) |-> x \o seqs[k]]
    OBVIOUS
  <2> HIDE DEF step
  <2> QED BY <2>2, <2>3
<1>3. CASE n = 0
  <2>1. FlattenSeq(seqs) = seqs
    BY <1>3 DEF FlattenSeq
  <2>2. seqs = <<>>
    BY <1>3 DEF IsSequence
  <2> QED BY <2>1, <2>2, <1>1, <1>2, <1>3 DEF IsFlattening
<1>4. CASE n # 0
  <2> HIDE DEF step
  <2>1. seqs[1] \in Seq(S) /\ g[1] = g[1 - 1] \o seqs[1]
    BY <1>0, <1>2, <1>4
  <2>2. g[1] = seqs[1]
    <3>1. g[1 - 1] = <<>>
      BY <1>1
    <3>2. <<>> \o seqs[1] = seqs[1]
      BY <2>1
    <3> QED BY <2>1, <3>1, <3>2, Zenon
  <2>3. \A k \in 2 .. n : g[k] = g[k - 1] \o seqs[k]
    BY <1>2, SMTT(30)
  <2>4. FlattenSeq(seqs) = g[n]
    BY <1>0, <1>4, <2>2, <2>3, FlattenIsLast
  <2> QED BY <2>4, <1>1, <1>2 DEF IsFlattening
<1> QED BY <1>3, <1>4

\* The function in ReadField.
IsReading(h, proto, name, wire) ==
  h = [n \in 0 .. Len(wire) |->
         IF n = 0 THEN <<>>
         ELSE IF IsField(wire[n], proto, name) THEN Append(h[n - 1], wire[n].value)
         ELSE h[n - 1]]

\* What the loop of ReadField has collected from the first k fields.
IsReadingOf(g, V, proto, name, wire) ==
  /\ g \in [0 .. Len(wire) -> Seq(V)]
  /\ g[0] = <<>> /\ ReadField(proto, name, wire) = g[Len(wire)]
  /\ \A k \in 1 .. Len(wire) :
       g[k] = IF IsField(wire[k], proto, name) THEN Append(g[k - 1], wire[k].value) ELSE g[k - 1]

LEMMA ReadSteps ==
  ASSUME NEW proto, NEW name, NEW V, NEW wire, IsSequence(wire),
         \A k \in DOMAIN wire : IsField(wire[k], proto, name) => wire[k].value \in V
  PROVE  \E g : IsReadingOf(g, V, proto, name, wire)
<1> DEFINE n == Len(wire)
           Own(k) == IsField(wire[k], proto, name)
           step == [k \in 1 .. n |-> [x \in Seq(V) |-> IF Own(k) THEN Append(x, wire[k].value) ELSE x]]
           read == CHOOSE h : IsReading(h, proto, name, wire)
<1>0. n \in Nat /\ \A k \in 1 .. n : Own(k) => wire[k].value \in V
  BY SequenceIn
<1> HIDE DEF Own
<1>1. PICK g \in [0 .. n -> Seq(V)] : g[0] = <<>> /\ \A k \in 1 .. n : g[k] = step[k][g[k - 1]]
  <2> DEFINE empty == <<>>
             X == Seq(V)
  <2>1. step \in [1 .. n -> [X -> X]]
    BY <1>0
  <2>2. empty \in X /\ n \in Nat
    BY <1>0
  <2> HIDE DEF step, n, X, empty
  <2>3. \E g : Follows(g, X, empty, n, step)
    BY <2>1, <2>2, Recursion
  <2> QED BY <2>3 DEF X, empty, Follows
<1>2. ASSUME NEW k \in 1 .. n
      PROVE  g[k - 1] \in Seq(V) /\ g[k] = IF Own(k) THEN Append(g[k - 1], wire[k].value) ELSE g[k - 1]
  <2>1. k - 1 \in 0 .. n
    BY <1>0
  <2>2. g[k - 1] \in Seq(V) /\ g[k] = step[k][g[k - 1]]
    BY <1>1, <2>1
  <2>3. step[k] = [x \in Seq(V) |-> IF Own(k) THEN Append(x, wire[k].value) ELSE x]
    OBVIOUS
  <2> HIDE DEF step
  <2> QED BY <2>2, <2>3
<1>3. IsReading(g, proto, name, wire)
  <2>1. \A k \in 0 .. n : g[k] = IF k = 0 THEN <<>> ELSE IF Own(k) THEN Append(g[k - 1], wire[k].value) ELSE g[k - 1]
    <3>1. ASSUME NEW k \in 0 .. n, k # 0 PROVE k \in 1 .. n
      BY <1>0, <3>1
    <3> HIDE DEF n, step
    <3> QED BY <1>1, <1>2, <3>1
  <2>2. g = [k \in 0 .. n |-> g[k]]
    BY <1>1
  <2> QED BY <2>1, <2>2, Zenon DEF IsReading, Own
<1>4. IsReading(read, proto, name, wire)
  BY <1>3
<1>5. ReadField(proto, name, wire) = read[n]
  BY Zenon DEF ReadField, IsReading
<1> HIDE DEF read
<1>6. \A k \in 0 .. n : read[k] =
        IF k = 0 THEN <<>> ELSE IF Own(k) THEN Append(read[k - 1], wire[k].value) ELSE read[k - 1]
  BY <1>4, Zenon DEF IsReading, Own
<1> DEFINE Same == {k \in 0 .. n : read[k] = g[k]}
<1>7. ASSUME NEW k \in 0 .. n, \A l \in 0 .. n : l < k => l \in Same
      PROVE  k \in Same
  <2>1. CASE k = 0
    BY <2>1, <1>6, <1>1
  <2>2. CASE k # 0
    <3>1. k \in 1 .. n /\ k - 1 \in 0 .. n /\ k - 1 < k
      BY <2>2
    <3> QED BY <3>1, <1>7, <1>6, <1>2, <2>2
  <2> QED BY <2>1, <2>2
<1>8. Same = 0 .. n
  <2> HIDE DEF Same
  <2>1. Same \in SUBSET (0 .. n)
    BY DEF Same
  <2> QED BY <1>7, <2>1, <1>0, NoLeast
<1>9. read[n] = g[n]
  BY <1>8, <1>0
<1> QED BY <1>1, <1>2, <1>5, <1>9 DEF Own, IsReadingOf

ValuesOf(s) == [k \in DOMAIN s |-> s[k].value]

\* Fields that come after others are read after them, or are passed over.
LEMMA ReadConcat ==
  ASSUME NEW proto, NEW name, NEW s, IsSequence(s), NEW t, IsSequence(t)
  PROVE  /\ (\A k \in DOMAIN t : ~IsField(t[k], proto, name))
              => ReadField(proto, name, s \o t) = ReadField(proto, name, s)
         /\ (\A k \in DOMAIN t : IsField(t[k], proto, name))
              => ReadField(proto, name, s \o t) = ReadField(proto, name, s) \o ValuesOf(t)
<1> DEFINE w == s \o t
           n == Len(s)
           m == Len(t)
           F == {s[k] : k \in 1 .. n} \cup {t[k] : k \in 1 .. m}
           V == {f.value : f \in F}
           Own(f) == IsField(f, proto, name)
<1>1. n \in Nat /\ m \in Nat /\ DOMAIN s = 1 .. n /\ DOMAIN t = 1 .. m
  BY SequenceIn
<1>2. s \in Seq(F) /\ t \in Seq(F)
  BY <1>1, SequenceIn
<1>3. w \in Seq(F) /\ Len(w) = n + m
  BY <1>2
<1>4. (\A k \in 1 .. n : w[k] = s[k]) /\ (\A k \in 1 .. m : w[n + k] = t[k])
  BY <1>2, <1>1
<1>5. \A f \in F : f.value \in V
  OBVIOUS
<1>6. \A x \in Seq(F) : IsSequence(x) /\ \A k \in DOMAIN x : x[k].value \in V
  <2> HIDE DEF F, V
  <2> QED BY <1>5, SequenceOf
<1> HIDE DEF F, V, Own, w, n, m
<1>7. PICK g : IsReadingOf(g, V, proto, name, s)
  BY <1>2, <1>6, ReadSteps
<1>8. PICK h : IsReadingOf(h, V, proto, name, w)
  BY <1>3, <1>6, ReadSteps
<1>g. /\ g \in [0 .. n -> Seq(V)] /\ g[0] = <<>> /\ ReadField(proto, name, s) = g[n]
      /\ \A k \in 1 .. n : g[k] = IF Own(s[k]) THEN Append(g[k - 1], s[k].value) ELSE g[k - 1]
  BY <1>7 DEF IsReadingOf, n, Own
<1>h. /\ h[0] = <<>> /\ ReadField(proto, name, w) = h[n + m]
      /\ \A k \in 1 .. n + m : h[k] = IF Own(w[k]) THEN Append(h[k - 1], w[k].value) ELSE h[k - 1]
  BY <1>3, <1>8 DEF IsReadingOf, Own
<1>9. h[n] = g[n] /\ g[n] \in Seq(V)
  <2> DEFINE Same == {k \in 0 .. n : h[k] = g[k]}
  <2>1. ASSUME NEW k \in 0 .. n, \A l \in 0 .. n : l < k => l \in Same
        PROVE  k \in Same
    <3>1. CASE k = 0
      BY <3>1, <1>g, <1>h
    <3>2. CASE k # 0
      <4>1. k \in 1 .. n /\ k \in 1 .. n + m /\ k - 1 \in 0 .. n /\ k - 1 < k
        BY <3>2, <1>1
      <4> QED BY <4>1, <2>1, <1>g, <1>h, <1>4
    <3> QED BY <3>1, <3>2
  <2>2. Same = 0 .. n
    <3> HIDE DEF Same
    <3>1. Same \in SUBSET (0 .. n)
      BY DEF Same
    <3> QED BY <2>1, <3>1, <1>1, NoLeast
  <2>3. n \in Same
    BY <2>2, <1>1
  <2> QED BY <2>3, <1>g
<1>10. ASSUME \A k \in DOMAIN t : ~Own(t[k])
       PROVE  h[n + m] = g[n]
  <2> DEFINE Same == {k \in 0 .. m : h[n + k] = g[n]}
  <2>1. ASSUME NEW k \in 0 .. m, \A l \in 0 .. m : l < k => l \in Same
        PROVE  k \in Same
    <3>1. CASE k = 0
      BY <3>1, <1>1, <1>9
    <3>2. CASE k # 0
      <4>1. k \in 1 .. m /\ n + k \in 1 .. n + m /\ k - 1 \in 0 .. m /\ k - 1 < k /\ n + k - 1 = n + (k - 1)
        BY <3>2, <1>1
      <4>2. ~Own(w[n + k])
        BY <4>1, <1>1, <1>4, <1>10
      <4>3. h[n + k] = h[n + k - 1]
        <5> DEFINE i == n + k
        <5>1. i \in 1 .. n + m /\ i - 1 = n + k - 1
          BY <4>1, <1>1
        <5> HIDE DEF i
        <5>2. h[i] = IF Own(w[i]) THEN Append(h[i - 1], w[i].value) ELSE h[i - 1]
          BY <5>1, <1>h
        <5> QED BY <5>1, <5>2, <4>2 DEF i
      <4>4. h[n + (k - 1)] = g[n]
        BY <4>1, <2>1
      <4> QED BY <4>1, <4>3, <4>4
    <3> QED BY <3>1, <3>2
  <2>2. Same = 0 .. m
    <3> HIDE DEF Same
    <3>1. Same \in SUBSET (0 .. m)
      BY DEF Same
    <3> QED BY <2>1, <3>1, <1>1, NoLeast
  <2>3. m \in Same
    <3> HIDE DEF Same
    <3> QED BY <2>2, <1>1
  <2> QED BY <2>3
<1>11. ASSUME \A k \in DOMAIN t : Own(t[k])
       PROVE  h[n + m] = g[n] \o ValuesOf(t)
  <2> DEFINE Read(k) == [l \in 1 .. k |-> t[l].value]
             Same == {k \in 0 .. m : h[n + k] = g[n] \o Read(k)}
  <2>0. \A k \in 1 .. m : t[k].value \in V
    BY <1>1, <1>2, <1>6
  <2>1. ASSUME NEW k \in 0 .. m, \A l \in 0 .. m : l < k => l \in Same
        PROVE  k \in Same
    <3>1. CASE k = 0
      BY <3>1, <1>1, <1>9
    <3>2. CASE k # 0
      <4>1. k \in 1 .. m /\ n + k \in 1 .. n + m /\ k - 1 \in 0 .. m /\ k - 1 < k /\ n + k - 1 = n + (k - 1)
        BY <3>2, <1>1
      <4>2. Own(w[n + k]) /\ w[n + k] = t[k]
        BY <4>1, <1>1, <1>4, <1>11
      <4>3. h[n + k] = Append(h[n + k - 1], t[k].value)
        <5> DEFINE i == n + k
        <5>1. i \in 1 .. n + m /\ i - 1 = n + k - 1
          BY <4>1, <1>1
        <5> HIDE DEF i
        <5>2. h[i] = IF Own(w[i]) THEN Append(h[i - 1], w[i].value) ELSE h[i - 1]
          BY <5>1, <1>h
        <5> QED BY <5>1, <5>2, <4>2 DEF i
      <4>4. h[n + (k - 1)] = g[n] \o Read(k - 1)
        BY <4>1, <2>1
      <4>5. Append(g[n] \o Read(k - 1), t[k].value) = g[n] \o Read(k)
        <5>1. Read(k - 1) \in Seq(V) /\ Read(k) \in Seq(V) /\ t[k].value \in V
          <6>1. \A l \in 1 .. k : t[l].value \in V
            BY <4>1, <2>0, <1>1
          <6>2. k \in Nat /\ k - 1 \in Nat
            BY <4>1, <1>1
          <6> QED BY <6>1, <6>2
        <5>2. Append(Read(k - 1), t[k].value) = Read(k)
          BY <4>1, <5>1
        <5> HIDE DEF Read
        <5>3. Append(g[n] \o Read(k - 1), t[k].value) = g[n] \o Append(Read(k - 1), t[k].value)
          <6> DEFINE x == Read(k - 1)
                     a == g[n]
                     v == t[k].value
          <6>1. x \in Seq(V) /\ a \in Seq(V) /\ v \in V
            BY <5>1, <1>9
          <6> HIDE DEF x, a, v
          <6>2. Append(a \o x, v) = a \o Append(x, v)
            <7>1. Append(a \o x, v) = (a \o x) \o <<v>> /\ Append(x, v) = x \o <<v>>
              BY <6>1, AppendIsConcat
            <7>2. <<v>> \in Seq(V)
              BY <6>1
            <7> QED BY <6>1, <7>1, <7>2, ConcatAssociative
          <6> QED BY <6>2 DEF x, a, v
        <5> QED BY <5>2, <5>3
      <4> HIDE DEF Read
      <4> QED BY <4>1, <4>3, <4>4, <4>5
    <3> QED BY <3>1, <3>2
  <2>2. Same = 0 .. m
    <3> HIDE DEF Same
    <3>1. Same \in SUBSET (0 .. m)
      BY DEF Same
    <3> QED BY <2>1, <3>1, <1>1, NoLeast
  <2>3. Read(m) = ValuesOf(t)
    BY <1>1 DEF ValuesOf
  <2>4. m \in Same
    <3> HIDE DEF Same
    <3> QED BY <2>2, <1>1
  <2> HIDE DEF Read
  <2> QED BY <2>3, <2>4
<1> QED BY <1>g, <1>h, <1>9, <1>10, <1>11 DEF w, Own

-----------------------------------------------------------------------------
(* What is parsed is what was serialized                                   *)

\* A class has each of its fields under one number.
IsPrototype(proto) ==
  /\ IsSequence(proto.fields)
  /\ \A n \in DOMAIN proto.fields :
       /\ proto.fields[n] \in DOMAIN proto.types
       /\ \A m \in DOMAIN proto.fields : proto.fields[n] = proto.fields[m] => n = m
  /\ \A name \in DOMAIN proto.types :
       /\ \E n \in DOMAIN proto.fields : proto.fields[n] = name
       /\ proto.types[name] \in {"bool", "int32", "uint32", "bytes", "LogEntry"}

\* Nothing is read of nothing.
LEMMA ReadNothing ==
  ASSUME NEW proto, NEW name
  PROVE  ReadField(proto, name, <<>>) = <<>>
<1>1. IsSequence(<<>>) /\ Len(<<>>) = 0 /\ \A k \in DOMAIN <<>> : <<>>[k].value \in {}
  BY DEF IsSequence
<1>2. PICK g : IsReadingOf(g, {}, proto, name, <<>>)
  BY <1>1, ReadSteps
<1> QED BY <1>1, <1>2 DEF IsReadingOf

\* Each field is read back with the values it was written with.
LEMMA ReadWritten ==
  ASSUME NEW proto, IsPrototype(proto), NEW values,
         \A n \in DOMAIN proto.fields : IsSequence(values[n])
  PROVE  /\ IsSequence(WriteFields(proto, values))
         /\ \A k \in DOMAIN WriteFields(proto, values) : \E n \in DOMAIN proto.fields : \E j \in DOMAIN values[n] :
              WriteFields(proto, values)[k] =
                [number |-> n, wire |-> WireType(proto.types[proto.fields[n]]), value |-> values[n][j]]
         /\ \A n \in DOMAIN proto.fields :
              ReadField(proto, proto.fields[n], WriteFields(proto, values)) = values[n]
<1> DEFINE N == Len(proto.fields)
           Wire(n) == WireType(proto.types[proto.fields[n]])
           part(n) == [k \in DOMAIN values[n] |-> [number |-> n, wire |-> Wire(n), value |-> values[n][k]]]
           parts == [n \in DOMAIN proto.fields |-> part(n)]
           S == UNION {{parts[n][k] : k \in DOMAIN parts[n]} : n \in 1 .. N}
<1>1. N \in Nat /\ DOMAIN proto.fields = 1 .. N
  BY SequenceIn DEF IsPrototype
<1>2. parts \in [1 .. N -> {part(n) : n \in 1 .. N}]
  BY <1>1
<1>3. IsSequence(parts) /\ Len(parts) = N /\ DOMAIN parts = 1 .. N
  <2> HIDE DEF part, parts, N
  <2> DEFINE P == {part(n) : n \in 1 .. N}
  <2>1. parts \in [1 .. N -> P]
    BY <1>2
  <2> HIDE DEF P
  <2>2. parts \in Seq(P)
    BY <1>1, <2>1, SeqDef
  <2>3. DOMAIN parts = 1 .. N
    BY <2>1
  <2>4. Len(parts) = N
    BY <1>1, <2>2, <2>3, LenProperties
  <2> QED BY <2>2, <2>3, <2>4, SequenceOf
<1>4. ASSUME NEW n \in 1 .. N
      PROVE  /\ IsSequence(parts[n]) /\ parts[n] \in Seq(S)
             /\ ValuesOf(parts[n]) = values[n]
             /\ \A m \in 1 .. N : \A k \in DOMAIN parts[n] : IsField(parts[n][k], proto, proto.fields[m]) <=> m = n
  <2>1. IsSequence(values[n]) /\ Len(values[n]) \in Nat /\ DOMAIN values[n] = 1 .. Len(values[n])
    BY <1>1, SequenceIn
  <2>2. parts[n] = part(n) /\ DOMAIN parts[n] = 1 .. Len(values[n])
    BY <1>1, <2>1
  <2>3. part(n) \in Seq({part(n)[k] : k \in 1 .. Len(values[n])})
    BY <2>1
  <2>4. IsSequence(parts[n])
    <3> HIDE DEF parts, part
    <3> QED BY <2>2, <2>3, SequenceOf
  <2>5. \A k \in DOMAIN parts[n] : parts[n][k] \in S
    <3> HIDE DEF parts
    <3> QED OBVIOUS
  <2>6. parts[n] \in Seq(S)
    <3> HIDE DEF parts, S
    <3> QED BY <2>4, <2>5, SequenceIn
  <2>7. ValuesOf(parts[n]) = values[n]
    <3>1. \A k \in 1 .. Len(values[n]) : parts[n][k].value = values[n][k]
      BY <2>1, <2>2
    <3>2. values[n] = [k \in 1 .. Len(values[n]) |-> values[n][k]]
      BY <2>1 DEF IsSequence
    <3> HIDE DEF parts
    <3> QED BY <2>2, <3>1, <3>2 DEF ValuesOf
  <2>8. ASSUME NEW m \in 1 .. N, NEW k \in DOMAIN parts[n]
        PROVE  IsField(parts[n][k], proto, proto.fields[m]) <=> m = n
    <3>1. parts[n][k].number = n /\ parts[n][k].wire = Wire(n)
      BY <2>1, <2>2
    <3> HIDE DEF parts
    <3> QED BY <3>1, <1>1 DEF IsPrototype, IsField
  <2> QED BY <2>4, <2>6, <2>7, <2>8
<1>s. \A x \in S : \E n \in 1 .. N : \E j \in DOMAIN parts[n] : x = parts[n][j]
  OBVIOUS
<1> HIDE DEF parts, S
<1>5. PICK g : IsFlattening(g, S, parts)
  BY <1>3, <1>4, FlattenSteps
<1>g. /\ g \in [0 .. N -> Seq(S)] /\ g[0] = <<>> /\ FlattenSeq(parts) = g[N]
      /\ \A k \in 1 .. N : g[k] = g[k - 1] \o parts[k]
  BY <1>3, <1>5 DEF IsFlattening
<1>6. WriteFields(proto, values) = g[N]
  BY <1>g DEF WriteFields, parts
<1> HIDE DEF N
<1>7. \A k \in 0 .. N : IsSequence(g[k])
  BY <1>g, SequenceOf
<1>8. ASSUME NEW n \in 1 .. N
      PROVE  ReadField(proto, proto.fields[n], g[N]) = values[n]
  <2> DEFINE Read(k) == ReadField(proto, proto.fields[n], g[k])
             Right == {k \in 0 .. N : Read(k) = IF k < n THEN <<>> ELSE values[n]}
  <2>0. <<>> \o values[n] = values[n]
    <3>1. values[n] \in Seq({values[n][k] : k \in DOMAIN values[n]})
      BY <1>1, SequenceIn
    <3> QED BY <3>1
  <2>1. ASSUME NEW k \in 0 .. N, \A l \in 0 .. N : l < k => l \in Right
        PROVE  k \in Right
    <3>1. CASE k = 0
      BY <3>1, <1>g, <1>1, ReadNothing
    <3>2. CASE k # 0
      <4>1. k \in 1 .. N /\ k - 1 \in 0 .. N /\ k - 1 < k
        BY <3>2, <1>1
      <4>2. Read(k - 1) = IF k - 1 < n THEN <<>> ELSE values[n]
        BY <4>1, <2>1
      <4>3. g[k] = g[k - 1] \o parts[k] /\ IsSequence(g[k - 1]) /\ IsSequence(parts[k])
        BY <4>1, <1>4, <1>g, <1>7
      <4>4. CASE k = n
        <5>1. Read(k) = Read(k - 1) \o ValuesOf(parts[k])
          BY <4>1, <4>3, <4>4, <1>4, ReadConcat
        <5>2. ValuesOf(parts[k]) = values[n] /\ Read(k - 1) = <<>>
          BY <4>1, <4>2, <4>4, <1>4
        <5>3. Read(k) = values[n]
          BY <5>1, <5>2, <2>0, Zenon
        <5> HIDE DEF Read
        <5> QED BY <5>3, <4>4
      <4>5. CASE k # n
        <5>1. Read(k) = Read(k - 1)
          BY <4>1, <4>3, <4>5, <1>4, ReadConcat
        <5> HIDE DEF Read
        <5> QED BY <5>1, <4>2, <4>1, <4>5
      <4> QED BY <4>4, <4>5
    <3> QED BY <3>1, <3>2
  <2>2. Right = 0 .. N
    <3> HIDE DEF Right
    <3>1. Right \in SUBSET (0 .. N)
      BY DEF Right
    <3> QED BY <2>1, <3>1, <1>1, NoLeast
  <2>3. N \in Right
    <3> HIDE DEF Right
    <3> QED BY <2>2, <1>1
  <2> QED BY <2>3, <1>1
<1>9. ASSUME NEW k \in DOMAIN g[N]
      PROVE  \E n \in DOMAIN proto.fields : \E j \in DOMAIN values[n] :
               g[N][k] = [number |-> n, wire |-> Wire(n), value |-> values[n][j]]
  <2>1. g[N] \in Seq(S)
    BY <1>1, <1>g
  <2>2. g[N][k] \in S
    BY <2>1, SequenceOf
  <2>3. PICK n \in 1 .. N : \E j \in DOMAIN parts[n] : g[N][k] = parts[n][j]
    BY <2>2, <1>s
  <2>4. parts[n] = part(n)
    BY <1>1 DEF parts
  <2> QED BY <2>3, <2>4, <1>1
<1> QED BY <1>1, <1>6, <1>7, <1>8, <1>9

\* A function from 1 .. n is a sequence.
LEMMA IsSequenceFrom ==
  ASSUME NEW f, NEW n \in Nat, f = [k \in 1 .. n |-> f[k]]
  PROVE  IsSequence(f) /\ Len(f) = n /\ DOMAIN f = 1 .. n
<1> DEFINE P == {f[k] : k \in 1 .. n}
<1>1. f \in [1 .. n -> P]
  OBVIOUS
<1>2. DOMAIN f = 1 .. n
  OBVIOUS
<1> HIDE DEF P
<1>3. f \in Seq(P)
  BY <1>1, SeqDef
<1>4. Len(f) = n
  BY <1>2, <1>3, LenProperties
<1> QED BY <1>2, <1>3, <1>4, SequenceOf

LEMMA ScalarRoundTrip ==
  ASSUME NEW type \in {"bool", "int32", "uint32", "bytes"}, NEW v, IsScalar(type, v)
  PROVE  /\ IsSequence(ScalarToWire(type, v))
         /\ ScalarFromWire(type, ScalarToWire(type, v)) = v
<1>1. IsSequence(<<>>)
  BY DEF IsSequence
<1>2. ASSUME NEW x PROVE IsSequence(<<x>>) /\ Last(<<x>>) = x /\ <<x>> # <<>>
  <2>1. <<x>> \in Seq({x}) /\ Len(<<x>>) = 1
    OBVIOUS
  <2> QED BY <2>1, SequenceOf DEF Last
<1>3. CASE v = DefaultOf(type)
  BY <1>1, <1>3 DEF ScalarToWire, ScalarFromWire
<1>4. CASE v # DefaultOf(type)
  <2>1. CASE type = "bool"
    <3>1. v = TRUE
      BY <1>4, <2>1 DEF IsScalar, DefaultOf
    <3>2. ASSUME NEW x PROVE ScalarFromWire(type, <<x>>) = (x # 0)
      BY <1>2, <2>1, Zenon DEF ScalarFromWire
    <3>3. ScalarToWire(type, v) = <<1>>
      BY <1>4, <2>1 DEF ScalarToWire
    <3>4. ScalarFromWire(type, <<1>>) = TRUE
      <4>1. (1 # 0) = TRUE
        OBVIOUS
      <4> QED BY <3>2, <4>1, Zenon
    <3>5. IsSequence(<<1>>)
      BY <1>2, Zenon
    <3> QED BY <3>1, <3>3, <3>4, <3>5, Zenon
  <2>2. CASE type # "bool"
    <3>1. ScalarToWire(type, v) = <<v>>
      BY <1>4, <2>2 DEF ScalarToWire
    <3>2. ScalarFromWire(type, <<v>>) = v
      BY <1>2, <2>2 DEF ScalarFromWire
    <3> QED BY <1>2, <3>1, <3>2
  <2> QED BY <2>1, <2>2
<1> QED BY <1>3, <1>4

\* Each class has each of its fields under one number.
LEMMA Classes ==
  /\ IsPrototype(Prototype(LogEntry, LogEntryFields))
  /\ IsPrototype(Prototype(RpcHeader, RpcHeaderFields))
  /\ IsPrototype(Prototype(AppendEntriesArgs, AppendEntriesArgsFields))
  /\ IsPrototype(Prototype(InstallSnapshotRequest, InstallSnapshotRequestFields))
  /\ IsPrototype(Prototype(RequestVoteArgs, RequestVoteArgsFields))
  /\ IsPrototype(Prototype(PutAppendArgs, PutAppendArgsFields))
  /\ IsPrototype(Prototype(GetArgs, GetArgsFields))
  /\ IsPrototype(Prototype(AppendEntriesReply, AppendEntriesReplyFields))
  /\ IsPrototype(Prototype(InstallSnapShotResponse, InstallSnapShotResponseFields))
  /\ IsPrototype(Prototype(RequestVoteReply, RequestVoteReplyFields))
  /\ IsPrototype(Prototype(PutAppendReply, PutAppendReplyFields))
  /\ IsPrototype(Prototype(GetReply, GetReplyFields))
<1>1. IsPrototype(Prototype(LogEntry, LogEntryFields))
  <2>1. LogEntryFields \in Seq(DOMAIN LogEntry) /\ DOMAIN LogEntryFields = 1 .. 3
    BY DEF LogEntry, LogEntryFields
  <2>2. IsSequence(LogEntryFields)
    BY <2>1, SequenceOf
  <2> QED BY <2>1, <2>2 DEF IsPrototype, Prototype, LogEntry, LogEntryFields
<1>2. IsPrototype(Prototype(RpcHeader, RpcHeaderFields))
  <2>1. RpcHeaderFields \in Seq(DOMAIN RpcHeader) /\ DOMAIN RpcHeaderFields = 1 .. 3
    BY DEF RpcHeader, RpcHeaderFields
  <2>2. IsSequence(RpcHeaderFields)
    BY <2>1, SequenceOf
  <2> QED BY <2>1, <2>2 DEF IsPrototype, Prototype, RpcHeader, RpcHeaderFields
<1>3. IsPrototype(Prototype(AppendEntriesArgs, AppendEntriesArgsFields))
  <2>1. AppendEntriesArgsFields \in Seq(DOMAIN AppendEntriesArgs) /\ DOMAIN AppendEntriesArgsFields = 1 .. 6
    BY DEF AppendEntriesArgs, AppendEntriesArgsFields
  <2>2. IsSequence(AppendEntriesArgsFields)
    BY <2>1, SequenceOf
  <2> QED BY <2>1, <2>2 DEF IsPrototype, Prototype, AppendEntriesArgs, AppendEntriesArgsFields
<1>4. IsPrototype(Prototype(InstallSnapshotRequest, InstallSnapshotRequestFields))
  <2>1. InstallSnapshotRequestFields \in Seq(DOMAIN InstallSnapshotRequest)
        /\ DOMAIN InstallSnapshotRequestFields = 1 .. 5
    BY DEF InstallSnapshotRequest, InstallSnapshotRequestFields
  <2>2. IsSequence(InstallSnapshotRequestFields)
    BY <2>1, SequenceOf
  <2> QED BY <2>1, <2>2 DEF IsPrototype, Prototype, InstallSnapshotRequest, InstallSnapshotRequestFields
<1>5. IsPrototype(Prototype(RequestVoteArgs, RequestVoteArgsFields))
  <2>1. RequestVoteArgsFields \in Seq(DOMAIN RequestVoteArgs) /\ DOMAIN RequestVoteArgsFields = 1 .. 4
    BY DEF RequestVoteArgs, RequestVoteArgsFields
  <2>2. IsSequence(RequestVoteArgsFields)
    BY <2>1, SequenceOf
  <2> QED BY <2>1, <2>2 DEF IsPrototype, Prototype, RequestVoteArgs, RequestVoteArgsFields
<1>6. IsPrototype(Prototype(PutAppendArgs, PutAppendArgsFields))
  <2>1. PutAppendArgsFields \in Seq(DOMAIN PutAppendArgs) /\ DOMAIN PutAppendArgsFields = 1 .. 5
    BY DEF PutAppendArgs, PutAppendArgsFields
  <2>2. IsSequence(PutAppendArgsFields)
    BY <2>1, SequenceOf
  <2> QED BY <2>1, <2>2 DEF IsPrototype, Prototype, PutAppendArgs, PutAppendArgsFields
<1>7. IsPrototype(Prototype(GetArgs, GetArgsFields))
  <2>1. GetArgsFields \in Seq(DOMAIN GetArgs) /\ DOMAIN GetArgsFields = 1 .. 3
    BY DEF GetArgs, GetArgsFields
  <2>2. IsSequence(GetArgsFields)
    BY <2>1, SequenceOf
  <2> QED BY <2>1, <2>2 DEF IsPrototype, Prototype, GetArgs, GetArgsFields
<1>8. IsPrototype(Prototype(AppendEntriesReply, AppendEntriesReplyFields))
  <2>1. AppendEntriesReplyFields \in Seq(DOMAIN AppendEntriesReply) /\ DOMAIN AppendEntriesReplyFields = 1 .. 4
    BY DEF AppendEntriesReply, AppendEntriesReplyFields
  <2>2. IsSequence(AppendEntriesReplyFields)
    BY <2>1, SequenceOf
  <2> QED BY <2>1, <2>2 DEF IsPrototype, Prototype, AppendEntriesReply, AppendEntriesReplyFields
<1>9. IsPrototype(Prototype(InstallSnapShotResponse, InstallSnapShotResponseFields))
  <2>1. InstallSnapShotResponseFields \in Seq(DOMAIN InstallSnapShotResponse)
        /\ DOMAIN InstallSnapShotResponseFields = 1 .. 1
    BY DEF InstallSnapShotResponse, InstallSnapShotResponseFields
  <2>2. IsSequence(InstallSnapShotResponseFields)
    BY <2>1, SequenceOf
  <2> QED BY <2>1, <2>2 DEF IsPrototype, Prototype, InstallSnapShotResponse, InstallSnapShotResponseFields
<1>10. IsPrototype(Prototype(RequestVoteReply, RequestVoteReplyFields))
  <2>1. RequestVoteReplyFields \in Seq(DOMAIN RequestVoteReply) /\ DOMAIN RequestVoteReplyFields = 1 .. 3
    BY DEF RequestVoteReply, RequestVoteReplyFields
  <2>2. IsSequence(RequestVoteReplyFields)
    BY <2>1, SequenceOf
  <2> QED BY <2>1, <2>2 DEF IsPrototype, Prototype, RequestVoteReply, RequestVoteReplyFields
<1>11. IsPrototype(Prototype(PutAppendReply, PutAppendReplyFields))
  <2>1. PutAppendReplyFields \in Seq(DOMAIN PutAppendReply) /\ DOMAIN PutAppendReplyFields = 1 .. 1
    BY DEF PutAppendReply, PutAppendReplyFields
  <2>2. IsSequence(PutAppendReplyFields)
    BY <2>1, SequenceOf
  <2> QED BY <2>1, <2>2 DEF IsPrototype, Prototype, PutAppendReply, PutAppendReplyFields
<1>12. IsPrototype(Prototype(GetReply, GetReplyFields))
  <2>1. GetReplyFields \in Seq(DOMAIN GetReply) /\ DOMAIN GetReplyFields = 1 .. 2
    BY DEF GetReply, GetReplyFields
  <2>2. IsSequence(GetReplyFields)
    BY <2>1, SequenceOf
  <2> QED BY <2>1, <2>2 DEF IsPrototype, Prototype, GetReply, GetReplyFields
<1> QED BY <1>1, <1>2, <1>3, <1>4, <1>5, <1>6, <1>7, <1>8, <1>9, <1>10, <1>11, <1>12

LEMMA Prototypes ==
  ASSUME NEW service \in DOMAIN Services, NEW method \in Services[service]
  PROVE  /\ IsPrototype(GetRequestPrototype(service, method))
         /\ IsPrototype(GetResponsePrototype(service, method))
<1>1. CASE service = "raftRpc" /\ method = "AppendEntries"
  BY <1>1, Classes DEF GetRequestPrototype, GetResponsePrototype, raftRpcRequest, raftRpcResponse
<1>2. CASE service = "raftRpc" /\ method = "InstallSnapShot"
  BY <1>2, Classes DEF GetRequestPrototype, GetResponsePrototype, raftRpcRequest, raftRpcResponse
<1>3. CASE service = "raftRpc" /\ method = "RequestVote"
  BY <1>3, Classes DEF GetRequestPrototype, GetResponsePrototype, raftRpcRequest, raftRpcResponse
<1>4. CASE service = "KvServerRpc" /\ method = "PutAppend"
  BY <1>4, Classes DEF GetRequestPrototype, GetResponsePrototype, KvServerRpcRequest, KvServerRpcResponse
<1>5. CASE service = "KvServerRpc" /\ method = "Get"
  BY <1>5, Classes DEF GetRequestPrototype, GetResponsePrototype, KvServerRpcRequest, KvServerRpcResponse
<1>6. \/ service = "raftRpc" /\ method \in {"AppendEntries", "InstallSnapShot", "RequestVote"}
      \/ service = "KvServerRpc" /\ method \in {"PutAppend", "Get"}
  BY DEF Services
<1> QED BY <1>1, <1>2, <1>3, <1>4, <1>5, <1>6

\* No reply holds log entries.
LEMMA RepliesAreScalar ==
  ASSUME NEW service \in DOMAIN Services, NEW method \in Services[service],
         NEW name \in DOMAIN GetResponsePrototype(service, method).types
  PROVE  GetResponsePrototype(service, method).types[name] \in {"bool", "int32", "bytes"}
<1>1. CASE service = "raftRpc" /\ method = "AppendEntries"
  BY <1>1 DEF GetResponsePrototype, raftRpcResponse, Prototype, AppendEntriesReply
<1>2. CASE service = "raftRpc" /\ method = "InstallSnapShot"
  BY <1>2 DEF GetResponsePrototype, raftRpcResponse, Prototype, InstallSnapShotResponse
<1>3. CASE service = "raftRpc" /\ method = "RequestVote"
  BY <1>3 DEF GetResponsePrototype, raftRpcResponse, Prototype, RequestVoteReply
<1>4. CASE service = "KvServerRpc" /\ method = "PutAppend"
  BY <1>4 DEF GetResponsePrototype, KvServerRpcResponse, Prototype, PutAppendReply
<1>5. CASE service = "KvServerRpc" /\ method = "Get"
  BY <1>5 DEF GetResponsePrototype, KvServerRpcResponse, Prototype, GetReply
<1>6. \/ service = "raftRpc" /\ method \in {"AppendEntries", "InstallSnapShot", "RequestVote"}
      \/ service = "KvServerRpc" /\ method \in {"PutAppend", "Get"}
  BY DEF Services
<1> QED BY <1>1, <1>2, <1>3, <1>4, <1>5, <1>6

\* An entry of an AppendEntries request is parsed as it was serialized.
LEMMA EntryRoundTrip ==
  ASSUME NEW v, IsEntry(v)
  PROVE  ParseEntry(SerializeEntry(v)) = v
<1> DEFINE proto == EntryPrototype
           written == [n \in DOMAIN LogEntryFields |->
                         ScalarToWire(LogEntry[LogEntryFields[n]], v[LogEntryFields[n]])]
<1>1. /\ IsPrototype(proto) /\ proto.fields = LogEntryFields /\ proto.types = LogEntry
      /\ \A name \in DOMAIN LogEntry : LogEntry[name] \in {"int32", "bytes"}
  BY Classes DEF EntryPrototype, Prototype, LogEntry
<1> HIDE DEF proto
<1>2. ASSUME NEW n \in DOMAIN LogEntryFields
      PROVE  /\ IsSequence(written[n])
             /\ ScalarFromWire(LogEntry[LogEntryFields[n]], written[n]) = v[LogEntryFields[n]]
  <2>1. LogEntryFields[n] \in DOMAIN LogEntry
    BY <1>1 DEF IsPrototype
  <2>2. IsScalar(LogEntry[LogEntryFields[n]], v[LogEntryFields[n]])
    BY <2>1 DEF IsEntry
  <2>3. written[n] = ScalarToWire(LogEntry[LogEntryFields[n]], v[LogEntryFields[n]])
    OBVIOUS
  <2> HIDE DEF written
  <2> QED BY <1>1, <2>1, <2>2, <2>3, ScalarRoundTrip
<1>3. SerializeEntry(v) = WriteFields(proto, written)
  BY DEF SerializeEntry, proto
<1> HIDE DEF written
<1>4. \A n \in DOMAIN LogEntryFields : ReadField(proto, LogEntryFields[n], SerializeEntry(v)) = written[n]
  BY <1>1, <1>2, <1>3, ReadWritten
<1>5. ASSUME NEW name \in DOMAIN LogEntry
      PROVE  ScalarFromWire(LogEntry[name], ReadField(proto, name, SerializeEntry(v))) = v[name]
  <2>1. PICK n \in DOMAIN LogEntryFields : LogEntryFields[n] = name
    BY <1>1 DEF IsPrototype
  <2> QED BY <2>1, <1>2, <1>4
<1>6. ParseEntry(SerializeEntry(v)) = [name \in DOMAIN LogEntry |-> v[name]]
  BY <1>5 DEF ParseEntry, proto
<1> QED BY <1>6 DEF IsEntry, OnlyFields

\* What a field of a message is written with is read back as the field.
LEMMA FieldRoundTrip ==
  ASSUME NEW type \in {"bool", "int32", "uint32", "bytes", "LogEntry"}, NEW v,
         IF type = "LogEntry" THEN IsSequence(v) /\ \A k \in DOMAIN v : IsEntry(v[k]) ELSE IsScalar(type, v)
  PROVE  IsSequence(ToWire(type, v)) /\ FromWire(type, ToWire(type, v)) = v
<1>1. CASE type # "LogEntry"
  BY <1>1, ScalarRoundTrip DEF ToWire, FromWire
<1>2. CASE type = "LogEntry"
  <2> DEFINE written == [k \in DOMAIN v |-> SerializeEntry(v[k])]
  <2>1. Len(v) \in Nat /\ DOMAIN v = 1 .. Len(v) /\ v = [k \in 1 .. Len(v) |-> v[k]]
    BY <1>2, SequenceIn DEF IsSequence
  <2>2. written = [k \in 1 .. Len(v) |-> written[k]] /\ DOMAIN written = DOMAIN v
    BY <2>1
  <2>3. ToWire(type, v) = written
    BY <1>2 DEF ToWire
  <2>4. \A k \in DOMAIN v : ParseEntry(written[k]) = v[k]
    BY <1>2, EntryRoundTrip
  <2> HIDE DEF written
  <2>5. IsSequence(written)
    BY <2>1, <2>2, IsSequenceFrom
  <2>6. FromWire(type, written) = [k \in 1 .. Len(v) |-> v[k]]
    BY <1>2, <2>1, <2>2, <2>4 DEF FromWire
  <2> QED BY <2>1, <2>3, <2>5, <2>6
<1> QED BY <1>1, <1>2

\* What is parsed is what was serialized, in every field.
THEOREM MessageRoundTrip ==
  ASSUME NEW proto, IsPrototype(proto), NEW m, IsMessage(proto, m)
  PROVE  IsSequence(Serialize(proto, m)) /\ Parse(proto, Serialize(proto, m)) = m
<1> DEFINE Type(name) == proto.types[name]
           written == [n \in DOMAIN proto.fields |-> ToWire(Type(proto.fields[n]), m[proto.fields[n]])]
<1>1. ASSUME NEW n \in DOMAIN proto.fields
      PROVE  /\ IsSequence(written[n])
             /\ FromWire(Type(proto.fields[n]), written[n]) = m[proto.fields[n]]
  <2>1. proto.fields[n] \in DOMAIN proto.types
    BY DEF IsPrototype
  <2>2. Type(proto.fields[n]) \in {"bool", "int32", "uint32", "bytes", "LogEntry"}
    BY <2>1 DEF IsPrototype
  <2>3. IF Type(proto.fields[n]) = "LogEntry"
        THEN IsSequence(m[proto.fields[n]]) /\ \A k \in DOMAIN m[proto.fields[n]] : IsEntry(m[proto.fields[n]][k])
        ELSE IsScalar(Type(proto.fields[n]), m[proto.fields[n]])
    BY <2>1 DEF IsMessage
  <2>4. written[n] = ToWire(Type(proto.fields[n]), m[proto.fields[n]])
    OBVIOUS
  <2> HIDE DEF written, Type
  <2> QED BY <2>2, <2>3, <2>4, FieldRoundTrip
<1>2. Serialize(proto, m) = WriteFields(proto, written)
  BY DEF Serialize
<1> HIDE DEF written
<1>3. /\ IsSequence(Serialize(proto, m))
      /\ \A n \in DOMAIN proto.fields : ReadField(proto, proto.fields[n], Serialize(proto, m)) = written[n]
  BY <1>1, <1>2, ReadWritten
<1>4. ASSUME NEW name \in DOMAIN proto.types
      PROVE  FromWire(Type(name), ReadField(proto, name, Serialize(proto, m))) = m[name]
  <2>1. PICK n \in DOMAIN proto.fields : proto.fields[n] = name
    BY DEF IsPrototype
  <2> HIDE DEF Type
  <2> QED BY <2>1, <1>1, <1>3
<1>5. Parse(proto, Serialize(proto, m)) = [name \in DOMAIN proto.types |-> m[name]]
  BY <1>4 DEF Parse
<1> QED BY <1>3, <1>5 DEF IsMessage, OnlyFields


-----------------------------------------------------------------------------
(* What is parsed of any bytes                                             *)

\* A varint is a number and a length-delimited field of a reply is a string.
WireTyped(f) == (f.wire = "varint" => f.value \in Int) /\ (f.wire = "len" => f.value \in Bytes)

LEMMA DefaultIsScalar ==
  ASSUME NEW type \in {"bool", "int32", "uint32", "bytes"}
  PROVE  IsScalar(type, DefaultOf(type))
<1>1. CASE type = "bytes"
  <2>1. DefaultOf(type) = "" /\ (IsScalar(type, "") <=> "" \in Bytes)
    BY <1>1 DEF IsScalar, DefaultOf
  <2> QED BY <2>1 DEF Bytes
<1>2. CASE type # "bytes"
  <2>1. DefaultOf(type) = IF type = "bool" THEN FALSE ELSE 0
    BY <1>2 DEF DefaultOf
  <2>2. CASE type = "bool"
    BY <2>1, <2>2 DEF IsScalar
  <2>3. CASE type # "bool"
    <3>1. DefaultOf(type) = 0
      BY <2>1, <2>3
    <3>2. IsScalar(type, 0) <=> 0 \in Int
      BY <1>2, <2>3 DEF IsScalar
    <3> QED BY <3>1, <3>2
  <2> QED BY <2>2, <2>3
<1> QED BY <1>1, <1>2

\* Whatever arrives for a reply, the fields hold values of their types.
LEMMA ReplyTyped ==
  ASSUME NEW service \in DOMAIN Services, NEW method \in Services[service],
         NEW wire, IsSequence(wire), \A k \in DOMAIN wire : WireTyped(wire[k])
  PROVE  IsMessage(GetResponsePrototype(service, method), Parse(GetResponsePrototype(service, method), wire))
<1> DEFINE proto == GetResponsePrototype(service, method)
           m == Parse(proto, wire)
<1>1. m = [name \in DOMAIN proto.types |-> m[name]]
  BY DEF Parse
<1>2. ASSUME NEW name \in DOMAIN proto.types
      PROVE  proto.types[name] # "LogEntry" /\ IsScalar(proto.types[name], m[name])
  <2> DEFINE type == proto.types[name]
             read == ReadField(proto, name, wire)
             V == IF type = "bytes" THEN Bytes ELSE Int
  <2>1. type \in {"bool", "int32", "bytes"}
    BY RepliesAreScalar
  <2>2. m[name] = ScalarFromWire(type, read)
    BY <2>1 DEF Parse, FromWire
  <2> HIDE DEF m, proto, type
  <2>3. ASSUME NEW k \in DOMAIN wire, IsField(wire[k], proto, name)
        PROVE  wire[k].value \in V
    BY <2>1, <2>3 DEF WireTyped, IsField, WireType, type
  <2>4. read \in Seq(V)
    <3> HIDE DEF V
    <3>1. PICK g : IsReadingOf(g, V, proto, name, wire)
      BY <2>3, ReadSteps
    <3>2. Len(wire) \in 0 .. Len(wire)
      BY SequenceIn
    <3> QED BY <3>1, <3>2 DEF IsReadingOf
  <2>5. CASE read = <<>>
    BY <2>1, <2>2, <2>5, DefaultIsScalar DEF ScalarFromWire, type
  <2>6. CASE read # <<>>
    <3>1. Last(read) \in V
      BY <2>4, <2>6 DEF Last
    <3> QED BY <3>1, <2>1, <2>2, <2>6 DEF ScalarFromWire, IsScalar, type
  <2> QED BY <2>1, <2>5, <2>6 DEF type
<1> QED BY <1>1, <1>2 DEF IsMessage, OnlyFields

\* What a response is written with is typed.
LEMMA ResponseTyped ==
  ASSUME NEW service \in DOMAIN Services, NEW method \in Services[service],
         NEW m, IsMessage(GetResponsePrototype(service, method), m)
  PROVE  LET wire == Serialize(GetResponsePrototype(service, method), m)
         IN IsSequence(wire) /\ \A k \in DOMAIN wire : WireTyped(wire[k])
<1> DEFINE proto == GetResponsePrototype(service, method)
           Type(n) == proto.types[proto.fields[n]]
           written == [n \in DOMAIN proto.fields |-> ToWire(Type(n), m[proto.fields[n]])]
           wire == WriteFields(proto, written)
<1>1. Serialize(proto, m) = wire
  BY DEF Serialize
<1>2. IsPrototype(proto)
  BY Prototypes
<1>3. ASSUME NEW n \in DOMAIN proto.fields
      PROVE  /\ Type(n) \in {"bool", "int32", "bytes"} /\ IsScalar(Type(n), m[proto.fields[n]])
             /\ written[n] = ScalarToWire(Type(n), m[proto.fields[n]])
  <2>1. proto.fields[n] \in DOMAIN proto.types
    BY <1>2 DEF IsPrototype
  <2>2. Type(n) \in {"bool", "int32", "bytes"}
    BY <2>1, RepliesAreScalar
  <2>3. written[n] = ToWire(Type(n), m[proto.fields[n]])
    OBVIOUS
  <2> HIDE DEF written
  <2>4. written[n] = ScalarToWire(Type(n), m[proto.fields[n]])
    BY <2>2, <2>3 DEF ToWire
  <2> QED BY <2>1, <2>2, <2>4 DEF IsMessage
<1> HIDE DEF written, proto, wire
<1>4. ASSUME NEW n \in DOMAIN proto.fields
      PROVE  IsSequence(written[n])
  BY <1>3, ScalarRoundTrip
<1>5. ASSUME NEW k \in DOMAIN wire
      PROVE  WireTyped(wire[k])
  <2>1. PICK n \in DOMAIN proto.fields : \E j \in DOMAIN written[n] :
          wire[k] = [number |-> n, wire |-> WireType(Type(n)), value |-> written[n][j]]
    BY <1>2, <1>4, ReadWritten DEF wire
  <2>2. PICK j \in DOMAIN written[n] :
          wire[k].wire = WireType(Type(n)) /\ wire[k].value = written[n][j]
    BY <2>1
  <2>3. Type(n) \in {"bool", "int32", "bytes"} /\ IsScalar(Type(n), m[proto.fields[n]])
    BY <1>3
  <2>4. written[n][j] \in IF Type(n) = "bytes" THEN Bytes ELSE Int
    <3> DEFINE type == Type(n)
               v == m[proto.fields[n]]
    <3>1. type \in {"bool", "int32", "bytes"} /\ IsScalar(type, v) /\ written[n] = ScalarToWire(type, v)
      BY <1>3
    <3> HIDE DEF type, v, Type
    <3>2. IsScalar(type, v) => v \in IF type = "bool" THEN BOOLEAN ELSE IF type = "bytes" THEN Bytes ELSE Int
      BY <3>1 DEF IsScalar
    <3>3. CASE v = DefaultOf(type)
      <4>1. written[n] = <<>>
        BY <3>1, <3>3 DEF ScalarToWire
      <4> QED BY <4>1
    <3>4. CASE v # DefaultOf(type)
      <4> DEFINE x == IF type = "bool" THEN 1 ELSE v
      <4>1. written[n] = <<x>>
        BY <3>1, <3>4 DEF ScalarToWire
      <4>2. x \in IF type = "bytes" THEN Bytes ELSE Int
        BY <3>1, <3>2
      <4> HIDE DEF x
      <4>3. \A i \in DOMAIN <<x>> : <<x>>[i] = x
        OBVIOUS
      <4> QED BY <4>1, <4>2, <4>3 DEF type
    <3> QED BY <3>3, <3>4
  <2> HIDE DEF Type
  <2> QED BY <2>2, <2>3, <2>4 DEF WireTyped, WireType
<1>6. IsSequence(wire)
  BY <1>2, <1>4, ReadWritten DEF wire
<1> QED BY <1>1, <1>5, <1>6 DEF proto


-----------------------------------------------------------------------------
(* The header                                                              *)

LEMMA SmallConcat ==
  ASSUME NEW a, NEW b, NEW c
  PROVE  /\ <<a>> \o <<b>> = <<a, b>> /\ <<a, b>> \o <<c>> = <<a, b, c>>
         /\ <<>> \o <<a>> = <<a>> /\ <<a, b>> \o <<>> = <<a, b>>
<1> DEFINE S == {a, b, c}
           u == <<a>>
           v == <<b>>
           w == <<c>>
           x == <<a, b>>
           y == <<a, b, c>>
<1>1. a \in S /\ b \in S /\ c \in S
  OBVIOUS
<1> HIDE DEF S
<1>2. /\ u \in Seq(S) /\ Len(u) = 1 /\ u[1] = a
      /\ v \in Seq(S) /\ Len(v) = 1 /\ v[1] = b
      /\ w \in Seq(S) /\ Len(w) = 1 /\ w[1] = c
      /\ x \in Seq(S) /\ Len(x) = 2 /\ x[1] = a /\ x[2] = b
      /\ y \in Seq(S) /\ Len(y) = 3 /\ y[1] = a /\ y[2] = b /\ y[3] = c
  BY <1>1
<1> HIDE DEF u, v, w, x, y
<1>3. u \o v = x
  <2>1. u \in Seq(S) /\ v \in Seq(S)
    BY <1>2
  <2>2. /\ u \o v \in Seq(S) /\ Len(u \o v) = Len(u) + Len(v)
        /\ \A i \in 1 .. Len(u) + Len(v) : (u \o v)[i] = IF i <= Len(u) THEN u[i] ELSE v[i - Len(u)]
    BY <2>1, ConcatProperties, Zenon
  <2>3. u \o v \in Seq(S) /\ Len(u \o v) = 2 /\ (u \o v)[1] = a /\ (u \o v)[2] = b
    BY <1>2, <2>2
  <2>4. \A i \in 1 .. 2 : (u \o v)[i] = x[i]
    <3>1. \A i \in 1 .. 2 : i = 1 \/ i = 2
      OBVIOUS
    <3> QED BY <3>1, <2>3, <1>2
  <2> QED BY <1>2, <2>3, <2>4, SeqEqual
<1>4. x \o w = y
  <2>1. x \in Seq(S) /\ w \in Seq(S)
    BY <1>2
  <2>2. /\ x \o w \in Seq(S) /\ Len(x \o w) = Len(x) + Len(w)
        /\ \A i \in 1 .. Len(x) + Len(w) : (x \o w)[i] = IF i <= Len(x) THEN x[i] ELSE w[i - Len(x)]
    BY <2>1, ConcatProperties, Zenon
  <2>3. x \o w \in Seq(S) /\ Len(x \o w) = 3 /\ (x \o w)[1] = a /\ (x \o w)[2] = b /\ (x \o w)[3] = c
    BY <1>2, <2>2
  <2>4. \A i \in 1 .. 3 : (x \o w)[i] = y[i]
    <3>1. \A i \in 1 .. 3 : i = 1 \/ i = 2 \/ i = 3
      OBVIOUS
    <3> QED BY <3>1, <2>3, <1>2
  <2> QED BY <1>2, <2>3, <2>4, SeqEqual
<1>5. <<>> \o u = u /\ x \o <<>> = x
  BY <1>2
<1> QED BY <1>3, <1>4, <1>5 DEF u, v, w, x, y

LEMMA FlattenThree ==
  ASSUME NEW p, Len(p) = 3
  PROVE  FlattenSeq(p) = (p[1] \o p[2]) \o p[3]
<1> DEFINE n == Len(p)
           a == p[1]
           b == a \o p[2]
           c == b \o p[3]
           G(g) == g[1] = p[1] /\ g[n] = c /\ \A k \in 2 .. n : g[k] = g[k - 1] \o p[k]
<1>1. \E g : G(g)
  <2>1. b = a \o p[2] /\ c = b \o p[3]
    OBVIOUS
  <2> HIDE DEF b, c
  <2>2. <<a, b, c>>[1] = a /\ <<a, b, c>>[2] = b /\ <<a, b, c>>[3] = c /\ \A k \in 2 .. 3 : k = 2 \/ k = 3
    OBVIOUS
  <2>3. 2 - 1 = 1 /\ 3 - 1 = 2 /\ n = 3
    OBVIOUS
  <2>4. <<a, b, c>>[2] = <<a, b, c>>[2 - 1] \o p[2] /\ <<a, b, c>>[3] = <<a, b, c>>[3 - 1] \o p[3]
    BY <2>1, <2>2, <2>3, Zenon
  <2>5. \A k \in 2 .. n : <<a, b, c>>[k] = <<a, b, c>>[k - 1] \o p[k]
    BY <2>2, <2>3, <2>4, Zenon
  <2>6. G(<<a, b, c>>)
    BY <2>2, <2>3, <2>5, Zenon
  <2> QED BY <2>6, Zenon
<1>2. PICK g : G(g)
  BY <1>1, Zenon
<1>3. n \in Nat /\ n = Len(p) /\ n # 0
  OBVIOUS
<1>4. g[1] = p[1] /\ \A k \in 2 .. n : g[k] = g[k - 1] \o p[k]
  BY <1>2, Zenon
<1>5. FlattenSeq(p) = g[n]
  BY <1>3, <1>4, FlattenIsLast
<1> QED BY <1>2, <1>5

LEMMA OneElement ==
  ASSUME NEW x
  PROVE  [k \in 1 .. 1 |-> x] = <<x>>
OBVIOUS

\* One more field is read, or passed over.
LEMMA ReadOneMore ==
  ASSUME NEW proto, NEW name, NEW s, IsSequence(s), NEW f
  PROVE  ReadField(proto, name, s \o <<f>>) =
           IF IsField(f, proto, name) THEN ReadField(proto, name, s) \o <<f.value>> ELSE ReadField(proto, name, s)
<1> DEFINE t == <<f>>
<1>1. t \in Seq({f}) /\ Len(t) = 1 /\ \A k \in DOMAIN t : t[k] = f
  OBVIOUS
<1>2. ValuesOf(t) = <<f.value>>
  BY DEF ValuesOf
<1> HIDE DEF t
<1>3. IsSequence(t) /\ DOMAIN t = 1 .. 1
  BY <1>1, SequenceOf
<1>4. CASE IsField(f, proto, name)
  <2>1. \A k \in DOMAIN t : IsField(t[k], proto, name)
    BY <1>1, <1>3, <1>4
  <2>2. ReadField(proto, name, s \o t) = ReadField(proto, name, s) \o <<f.value>>
    BY <1>2, <1>3, <2>1, ReadConcat
  <2> QED BY <1>4, <2>2, Zenon DEF t
<1>5. CASE ~IsField(f, proto, name)
  <2>1. \A k \in DOMAIN t : ~IsField(t[k], proto, name)
    BY <1>1, <1>3, <1>5
  <2>2. ReadField(proto, name, s \o t) = ReadField(proto, name, s)
    BY <1>3, <2>1, ReadConcat
  <2> QED BY <1>5, <2>2, Zenon DEF t
<1> QED BY <1>4, <1>5

\* The fields of the header of a call.
ServiceField(r) == [number |-> 1, wire |-> "len", value |-> r.service]
MethodField(r) == [number |-> 2, wire |-> "len", value |-> r.method]
SizeField(r) == [number |-> 3, wire |-> "varint", value |-> Len(Arguments[r])]

LEMMA ArgumentsSequence ==
  ASSUME NEW r \in Requests
  PROVE  /\ Arguments[r] = Serialize(GetRequestPrototype(r.service, r.method), r.request)
         /\ IsSequence(Arguments[r]) /\ Len(Arguments[r]) \in Nat
         /\ Parse(GetRequestPrototype(r.service, r.method), Arguments[r]) = r.request
<1>1. Arguments[r] = Serialize(GetRequestPrototype(r.service, r.method), r.request)
  BY DEF Arguments
<1>2. /\ IsPrototype(GetRequestPrototype(r.service, r.method))
      /\ IsMessage(GetRequestPrototype(r.service, r.method), r.request)
  BY Prototypes, MessagesAssumption
<1>3. IsSequence(Arguments[r]) /\ Parse(GetRequestPrototype(r.service, r.method), Arguments[r]) = r.request
  BY <1>1, <1>2, MessageRoundTrip
<1> QED BY <1>1, <1>3, SequenceIn

LEMMA HeaderFields ==
  ASSUME NEW r \in Requests
  PROVE  Header[r] = IF Len(Arguments[r]) = 0 THEN <<ServiceField(r), MethodField(r)>>
                     ELSE <<ServiceField(r), MethodField(r), SizeField(r)>>
<1> DEFINE size == Len(Arguments[r])
           h == [service_name |-> r.service, method_name |-> r.method, args_size |-> size]
           values == [n \in DOMAIN HeaderPrototype.fields |->
                        ToWire(HeaderPrototype.types[HeaderPrototype.fields[n]], h[HeaderPrototype.fields[n]])]
           part(n) == [k \in DOMAIN values[n] |->
                         [number |-> n, wire |-> WireType(HeaderPrototype.types[HeaderPrototype.fields[n]]),
                          value |-> values[n][k]]]
           parts == [n \in DOMAIN HeaderPrototype.fields |-> part(n)]
<1>1. /\ HeaderPrototype.fields = <<"service_name", "method_name", "args_size">>
      /\ HeaderPrototype.types = RpcHeader
      /\ DOMAIN HeaderPrototype.fields = 1 .. 3
      /\ HeaderPrototype.fields[1] = "service_name" /\ RpcHeader["service_name"] = "bytes"
      /\ HeaderPrototype.fields[2] = "method_name" /\ RpcHeader["method_name"] = "bytes"
      /\ HeaderPrototype.fields[3] = "args_size" /\ RpcHeader["args_size"] = "uint32"
  BY DEF HeaderPrototype, Prototype, RpcHeader, RpcHeaderFields
<1>2. Header[r] = FlattenSeq(parts)
  BY DEF Header, Serialize, WriteFields
<1>3. r.service # "" /\ r.method # ""
  <2>1. r.service \in DOMAIN Services /\ r.method \in Services[r.service]
    BY MessagesAssumption, Zenon
  <2>2. r.service = "raftRpc" \/ r.service = "KvServerRpc"
    BY <2>1 DEF Services
  <2>3. r.method \in {"AppendEntries", "InstallSnapShot", "RequestVote", "PutAppend", "Get"}
    BY <2>1, <2>2 DEF Services
  <2> QED BY <2>2, <2>3
<1>4. /\ values[1] = ScalarToWire("bytes", r.service) /\ values[2] = ScalarToWire("bytes", r.method)
      /\ values[3] = ScalarToWire("uint32", size)
  BY <1>1 DEF ToWire
<1>5. /\ values[1] = <<r.service>> /\ values[2] = <<r.method>>
      /\ values[3] = IF size = 0 THEN <<>> ELSE <<size>>
  BY <1>3, <1>4 DEF ScalarToWire, DefaultOf
<1> HIDE DEF values
<1>6. parts[1] = <<ServiceField(r)>>
  <2>1. parts[1] = [k \in 1 .. 1 |-> [number |-> 1, wire |-> "len", value |-> r.service]]
    BY <1>1, <1>5 DEF WireType
  <2> QED BY <2>1, OneElement, Zenon DEF ServiceField
<1>7. parts[2] = <<MethodField(r)>>
  <2>1. parts[2] = [k \in 1 .. 1 |-> [number |-> 2, wire |-> "len", value |-> r.method]]
    BY <1>1, <1>5 DEF WireType
  <2> QED BY <2>1, OneElement, Zenon DEF MethodField
<1>8. parts[3] = IF size = 0 THEN <<>> ELSE <<SizeField(r)>>
  <2>1. CASE size = 0
    BY <1>1, <1>5, <2>1
  <2>2. CASE size # 0
    <3>1. parts[3] = [k \in 1 .. 1 |-> [number |-> 3, wire |-> "varint", value |-> size]]
      BY <1>1, <1>5, <2>2 DEF WireType
    <3> QED BY <3>1, <2>2, OneElement, Zenon DEF SizeField
  <2> QED BY <2>1, <2>2
<1>9. parts = [n \in 1 .. 3 |-> parts[n]]
  BY <1>1
<1> HIDE DEF parts
<1>10. IsSequence(parts) /\ Len(parts) = 3
  BY <1>9, IsSequenceFrom
<1>11. FlattenSeq(parts) = (parts[1] \o parts[2]) \o parts[3]
  BY <1>10, FlattenThree
<1> QED BY <1>2, <1>6, <1>7, <1>8, <1>11, SmallConcat, Zenon


\* What is parsed of no, one, two and three fields of a header.
LEMMA HeaderParts ==
  ASSUME NEW r \in Requests
  PROVE  /\ Parse(HeaderPrototype, <<>>).method_name = ""
         /\ Parse(HeaderPrototype, <<ServiceField(r)>>).method_name = ""
         /\ Parse(HeaderPrototype, <<ServiceField(r), MethodField(r)>>) =
              [service_name |-> r.service, method_name |-> r.method, args_size |-> 0]
         /\ Parse(HeaderPrototype, <<ServiceField(r), MethodField(r), SizeField(r)>>) =
              [service_name |-> r.service, method_name |-> r.method, args_size |-> Len(Arguments[r])]
<1> DEFINE proto == HeaderPrototype
           Read(name, wire) == ReadField(proto, name, wire)
           a == ServiceField(r)
           b == MethodField(r)
           c == SizeField(r)
           size == Len(Arguments[r])
<1>1. /\ proto.types = RpcHeader /\ DOMAIN RpcHeader = {"service_name", "method_name", "args_size"}
      /\ RpcHeader["service_name"] = "bytes" /\ RpcHeader["method_name"] = "bytes"
      /\ RpcHeader["args_size"] = "uint32"
  BY DEF HeaderPrototype, Prototype, RpcHeader
<1>2. ASSUME NEW name \in {"service_name", "method_name", "args_size"}
      PROVE  /\ IsField(a, proto, name) <=> name = "service_name"
             /\ IsField(b, proto, name) <=> name = "method_name"
             /\ IsField(c, proto, name) <=> name = "args_size"
  <2>1. /\ proto.fields[1] = "service_name" /\ proto.fields[2] = "method_name"
        /\ proto.fields[3] = "args_size" /\ DOMAIN proto.fields = 1 .. 3
    BY DEF HeaderPrototype, Prototype, RpcHeaderFields
  <2>2. /\ a.number = 1 /\ a.wire = "len" /\ b.number = 2 /\ b.wire = "len"
        /\ c.number = 3 /\ c.wire = "varint"
    BY DEF ServiceField, MethodField, SizeField
  <2> HIDE DEF proto, a, b, c
  <2> QED BY <1>1, <2>1, <2>2 DEF IsField, WireType
<1>3. a.value = r.service /\ b.value = r.method /\ c.value = size
  BY DEF ServiceField, MethodField, SizeField
<1>4. IsSequence(<<>>) /\ IsSequence(<<a>>) /\ IsSequence(<<a, b>>)
  <2>1. <<>> \in Seq({a, b}) /\ <<a>> \in Seq({a, b}) /\ <<a, b>> \in Seq({a, b})
    OBVIOUS
  <2> QED BY <2>1, SequenceOf
<1>5. <<>> \o <<a>> = <<a>> /\ <<a>> \o <<b>> = <<a, b>> /\ <<a, b>> \o <<c>> = <<a, b, c>>
  BY SmallConcat, Zenon
<1> HIDE DEF a, b, c, proto
<1>6. ASSUME NEW name
      PROVE  /\ Read(name, <<>>) = <<>>
             /\ Read(name, <<a>>) =
                  IF IsField(a, proto, name) THEN Read(name, <<>>) \o <<a.value>> ELSE Read(name, <<>>)
             /\ Read(name, <<a, b>>) =
                  IF IsField(b, proto, name) THEN Read(name, <<a>>) \o <<b.value>> ELSE Read(name, <<a>>)
             /\ Read(name, <<a, b, c>>) =
                  IF IsField(c, proto, name) THEN Read(name, <<a, b>>) \o <<c.value>> ELSE Read(name, <<a, b>>)
  <2>1. Read(name, <<>>) = <<>>
    BY ReadNothing
  <2>2. Read(name, <<>> \o <<a>>) =
          IF IsField(a, proto, name) THEN Read(name, <<>>) \o <<a.value>> ELSE Read(name, <<>>)
    BY <1>4, ReadOneMore
  <2>3. Read(name, <<a>> \o <<b>>) =
          IF IsField(b, proto, name) THEN Read(name, <<a>>) \o <<b.value>> ELSE Read(name, <<a>>)
    BY <1>4, ReadOneMore
  <2>4. Read(name, <<a, b>> \o <<c>>) =
          IF IsField(c, proto, name) THEN Read(name, <<a, b>>) \o <<c.value>> ELSE Read(name, <<a, b>>)
    BY <1>4, ReadOneMore
  <2> QED BY <1>5, <2>1, <2>2, <2>3, <2>4, Zenon
<1> HIDE DEF Read
<1>7. \A x : <<>> \o <<x>> = <<x>>
  BY SmallConcat, Zenon
<1>8. /\ Read("service_name", <<a, b>>) = <<r.service>> /\ Read("service_name", <<a, b, c>>) = <<r.service>>
  BY <1>2, <1>3, <1>6, <1>7
<1>9. /\ Read("method_name", <<a>>) = <<>>
      /\ Read("method_name", <<a, b>>) = <<r.method>> /\ Read("method_name", <<a, b, c>>) = <<r.method>>
  BY <1>2, <1>3, <1>6, <1>7
<1>10. Read("args_size", <<a, b>>) = <<>> /\ Read("args_size", <<a, b, c>>) = <<size>>
  BY <1>2, <1>3, <1>6, <1>7
<1>11. ASSUME NEW type \in {"bytes", "uint32"}, NEW x
       PROVE  FromWire(type, <<>>) = DefaultOf(type) /\ FromWire(type, <<x>>) = x
  <2>1. Last(<<x>>) = x /\ <<x>> # <<>>
    BY DEF Last
  <2> QED BY <2>1 DEF FromWire, ScalarFromWire
<1>12. DefaultOf("bytes") = "" /\ DefaultOf("uint32") = 0
  BY DEF DefaultOf
<1>13. ASSUME NEW wire
       PROVE  Parse(proto, wire) =
                [service_name |-> FromWire("bytes", Read("service_name", wire)),
                 method_name |-> FromWire("bytes", Read("method_name", wire)),
                 args_size |-> FromWire("uint32", Read("args_size", wire))]
  BY <1>1 DEF Parse, Read
<1>14. Parse(proto, <<>>).method_name = "" /\ Parse(proto, <<a>>).method_name = ""
  <2>1. Read("method_name", <<>>) = <<>> /\ Read("method_name", <<a>>) = <<>>
    BY <1>6, <1>9
  <2>2. FromWire("bytes", <<>>) = ""
    BY <1>11, <1>12
  <2>3. ASSUME NEW wire, Read("method_name", wire) = <<>> PROVE Parse(proto, wire).method_name = ""
    <3>1. Parse(proto, wire).method_name = FromWire("bytes", Read("method_name", wire))
      BY <1>13
    <3> QED BY <2>2, <2>3, <3>1, Zenon
  <2> QED BY <2>1, <2>3, Zenon
<1>15. \A x : FromWire("bytes", <<x>>) = x /\ FromWire("uint32", <<x>>) = x
  BY <1>11
<1>16. Parse(proto, <<a, b>>) = [service_name |-> r.service, method_name |-> r.method, args_size |-> 0]
  <2>1. FromWire("uint32", <<>>) = 0
    BY <1>11, <1>12
  <2> QED BY <1>8, <1>9, <1>10, <1>13, <1>15, <2>1, Zenon
<1>17. Parse(proto, <<a, b, c>>) =
         [service_name |-> r.service, method_name |-> r.method, args_size |-> size]
  BY <1>8, <1>9, <1>10, <1>13, <1>15, Zenon
<1> QED BY <1>14, <1>16, <1>17, Zenon DEF a, b, c, proto

\* Of the first fields of a header, what a peer makes of them.
LEMMA HeaderPrefix ==
  ASSUME NEW r \in Requests, NEW h, IsSequence(h), Len(h) <= Len(Header[r]),
         \A k \in DOMAIN h : h[k] = Header[r][k], HasMethod(Parse(HeaderPrototype, h))
  PROVE  /\ 2 <= Len(h)
         /\ Parse(HeaderPrototype, h) =
              [service_name |-> r.service, method_name |-> r.method,
               args_size |-> IF Len(h) = Len(Header[r]) THEN Len(Arguments[r]) ELSE 0]
<1>1. Len(h) \in Nat /\ h = [k \in 1 .. Len(h) |-> h[k]] /\ DOMAIN h = 1 .. Len(h)
  BY SequenceIn DEF IsSequence
<1> DEFINE a == ServiceField(r)
           b == MethodField(r)
           c == SizeField(r)
           header == Parse(HeaderPrototype, h)
<1>2. Header[r] = IF Len(Arguments[r]) = 0 THEN <<a, b>> ELSE <<a, b, c>>
  BY HeaderFields
<1> HIDE DEF a, b, c
<1>3. /\ Len(Header[r]) = IF Len(Arguments[r]) = 0 THEN 2 ELSE 3
      /\ Header[r][1] = a /\ Header[r][2] = b /\ (Len(Header[r]) = 3 => Header[r][3] = c)
  BY <1>2
<1>4. Len(h) \in 0 .. 3
  BY <1>1, <1>3
<1>5. header.method_name # ""
  <2>1. ASSUME NEW service \in DOMAIN Services, NEW method \in Services[service] PROVE method # ""
    <3>1. service = "raftRpc" \/ service = "KvServerRpc"
      BY DEF Services
    <3>2. method \in {"AppendEntries", "InstallSnapShot", "RequestVote", "PutAppend", "Get"}
      BY <3>1 DEF Services
    <3> QED BY <3>2
  <2> HIDE DEF header
  <2> QED BY <2>1 DEF HasMethod, m_serviceMap, header
<1>6. Len(h) # 0
  <2>1. SUFFICES ASSUME Len(h) = 0 PROVE FALSE
    OBVIOUS
  <2>2. h = <<>>
    BY <1>1, <2>1
  <2> QED BY <2>2, <1>5, HeaderParts
<1>7. Len(h) # 1
  <2>1. SUFFICES ASSUME Len(h) = 1 PROVE FALSE
    OBVIOUS
  <2>2. h[1] = a
    BY <1>1, <1>3, <2>1
  <2>3. h = <<a>>
    BY <1>1, <2>1, <2>2
  <2> QED BY <2>3, <1>5, HeaderParts DEF a
<1>8. CASE Len(h) = 2
  <2>1. h[1] = a /\ h[2] = b
    BY <1>1, <1>3, <1>8
  <2>2. h = <<a, b>>
    BY <1>1, <1>8, <2>1
  <2>3. header = [service_name |-> r.service, method_name |-> r.method, args_size |-> 0]
    BY <2>2, HeaderParts DEF a, b
  <2> QED BY <1>3, <1>8, <2>3
<1>9. CASE Len(h) = 3
  <2>1. h[1] = a /\ h[2] = b /\ h[3] = c /\ Len(Header[r]) = 3
    BY <1>1, <1>3, <1>9
  <2>2. h = <<a, b, c>>
    BY <1>1, <1>9, <2>1
  <2>3. header = [service_name |-> r.service, method_name |-> r.method, args_size |-> Len(Arguments[r])]
    BY <2>2, HeaderParts DEF a, b, c
  <2> QED BY <1>9, <2>1, <2>3
<1> QED BY <1>4, <1>6, <1>7, <1>8, <1>9


-----------------------------------------------------------------------------
(* Sequences of items                                                      *)

\* st is s and then t.
IsConcat(st, s, t) ==
  /\ IsSequence(st) /\ Len(st) = Len(s) + Len(t) /\ DOMAIN st = 1 .. Len(s) + Len(t)
  /\ \A k \in DOMAIN s : st[k] = s[k]
  /\ \A k \in DOMAIN t : st[Len(s) + k] = t[k]

LEMMA ConcatIs ==
  ASSUME NEW s, IsSequence(s), NEW t, IsSequence(t)
  PROVE  IsConcat(s \o t, s, t) /\ s \o <<>> = s /\ <<>> \o s = s
<1> DEFINE S == {s[k] : k \in DOMAIN s} \cup {t[k] : k \in DOMAIN t}
<1>1. (\A k \in DOMAIN s : s[k] \in S) /\ (\A k \in DOMAIN t : t[k] \in S)
  OBVIOUS
<1> HIDE DEF S
<1>2. /\ s \in Seq(S) /\ Len(s) \in Nat /\ DOMAIN s = 1 .. Len(s)
      /\ t \in Seq(S) /\ Len(t) \in Nat /\ DOMAIN t = 1 .. Len(t)
  BY <1>1, SequenceIn
<1>3. /\ s \o t \in Seq(S) /\ Len(s \o t) = Len(s) + Len(t)
      /\ \A i \in 1 .. Len(s) + Len(t) : (s \o t)[i] = IF i <= Len(s) THEN s[i] ELSE t[i - Len(s)]
  BY <1>2, ConcatProperties
<1>4. s \o <<>> = s /\ <<>> \o s = s
  BY <1>2
<1>5. IsSequence(s \o t) /\ DOMAIN (s \o t) = 1 .. Len(s) + Len(t)
  BY <1>3, SequenceOf
<1> DEFINE st == s \o t
           n == Len(s)
           m == Len(t)
<1>6. n \in Nat /\ m \in Nat /\ \A i \in 1 .. n + m : st[i] = IF i <= n THEN s[i] ELSE t[i - n]
  BY <1>2, <1>3
<1> HIDE DEF st, n, m
<1>7. \A k \in 1 .. n : st[k] = s[k]
  BY <1>6
<1>8. ASSUME NEW k \in 1 .. m PROVE st[n + k] = t[k]
  <2> DEFINE i == n + k
  <2>1. i \in 1 .. n + m /\ ~(i <= n) /\ i - n = k
    BY <1>6
  <2> HIDE DEF i
  <2>2. st[i] = t[k]
    BY <1>6, <2>1
  <2> QED BY <2>2 DEF i
<1>9. IsConcat(s \o t, s, t)
  BY <1>2, <1>3, <1>5, <1>7, <1>8 DEF st, n, m, IsConcat
<1> QED BY <1>4, <1>9

\* sx is s and then x.
IsAppend(sx, s, x) ==
  /\ IsSequence(sx) /\ Len(sx) = Len(s) + 1 /\ Len(s) \in Nat
  /\ DOMAIN s = 1 .. Len(s) /\ DOMAIN sx = 1 .. Len(s) + 1
  /\ \A k \in DOMAIN s : sx[k] = s[k]
  /\ sx[Len(s) + 1] = x

LEMMA AppendIs ==
  ASSUME NEW s, IsSequence(s), NEW x
  PROVE  IsAppend(Append(s, x), s, x)
<1> DEFINE S == {s[k] : k \in DOMAIN s} \cup {x}
<1>1. (\A k \in DOMAIN s : s[k] \in S) /\ x \in S
  OBVIOUS
<1> HIDE DEF S
<1>2. s \in Seq(S) /\ Len(s) \in Nat /\ DOMAIN s = 1 .. Len(s)
  BY <1>1, SequenceIn
<1>3. Append(s, x) \in Seq(S) /\ Len(Append(s, x)) = Len(s) + 1
  BY <1>1, <1>2
<1>4. IsSequence(Append(s, x)) /\ DOMAIN Append(s, x) = 1 .. Len(s) + 1
  BY <1>3, SequenceOf
<1>5. (\A k \in 1 .. Len(s) : Append(s, x)[k] = s[k]) /\ Append(s, x)[Len(s) + 1] = x
  BY <1>1, <1>2
<1> QED BY <1>2, <1>3, <1>4, <1>5 DEF IsAppend

LEMMA SubSeqIs ==
  ASSUME NEW s, IsSequence(s), NEW m \in Nat, m >= 1, NEW n \in Nat, n <= Len(s)
  PROVE  /\ IsSequence(SubSeq(s, m, n)) /\ Len(SubSeq(s, m, n)) = IF m <= n THEN n - m + 1 ELSE 0
         /\ \A k \in 1 .. n - m + 1 : SubSeq(s, m, n)[k] = s[m + k - 1]
<1> DEFINE S == {s[k] : k \in DOMAIN s}
<1>1. \A k \in DOMAIN s : s[k] \in S
  OBVIOUS
<1> HIDE DEF S
<1>2. s \in Seq(S) /\ Len(s) \in Nat /\ DOMAIN s = 1 .. Len(s)
  BY <1>1, SequenceIn
<1>3. \A i \in m .. n : s[i] \in S
  BY <1>1, <1>2
<1>4. /\ SubSeq(s, m, n) \in Seq(S) /\ Len(SubSeq(s, m, n)) = IF m <= n THEN n - m + 1 ELSE 0
      /\ \A k \in 1 .. n - m + 1 : SubSeq(s, m, n)[k] = s[m + k - 1]
  BY <1>3, SubSeqProperties
<1> QED BY <1>4, SequenceOf

\* A piece of the stream s, and what is still to come.
IsSplit(s, e, piece, rest) ==
  /\ e[1] \in 0 .. Len(s) /\ e[2] \in BOOLEAN /\ (e[2] => e[1] < Len(s)) /\ (e[1] > 0 \/ e[2])
  /\ Len(s) \in Nat /\ DOMAIN s = 1 .. Len(s)
  /\ IsSequence(piece) /\ Len(piece) = IF e[2] THEN e[1] + 1 ELSE e[1]
  /\ \A k \in 1 .. e[1] : piece[k] = s[k]
  /\ e[2] => piece[e[1] + 1] = Broken(s[e[1] + 1])
  /\ IsSequence(rest) /\ Len(rest) = Len(s) - e[1]
  /\ e[2] => rest[1] = Broken(s[e[1] + 1])
  /\ \A k \in DOMAIN rest : k > 1 \/ ~e[2] => rest[k] = s[e[1] + k]

LEMMA PieceIs ==
  ASSUME NEW s, IsSequence(s), NEW e \in Ends(s)
  PROVE  IsSplit(s, e, Piece(s, e[1], e[2]), RestOf(s, e[1], e[2]))
<1> DEFINE n == e[1]
           inside == e[2]
           broken == <<Broken(s[n + 1])>>
           piece == Piece(s, n, inside)
           rest == RestOf(s, n, inside)
           before == SubSeq(s, 1, n)
           tail == SubSeq(s, IF inside THEN n + 2 ELSE n + 1, Len(s))
<1>1. n \in 0 .. Len(s) /\ inside \in BOOLEAN /\ (inside => n < Len(s)) /\ (n > 0 \/ inside)
  BY DEF Ends
<1>2. Len(s) \in Nat /\ DOMAIN s = 1 .. Len(s)
  BY SequenceIn
<1>3. IsSequence(before) /\ Len(before) = n /\ \A k \in 1 .. n : before[k] = s[k]
  <2> HIDE DEF n
  <2>1. n \in Nat /\ 1 \in Nat /\ n <= Len(s)
    BY <1>1, <1>2
  <2>2. IsSequence(before) /\ Len(before) = (IF 1 <= n THEN n - 1 + 1 ELSE 0)
        /\ \A k \in 1 .. n - 1 + 1 : before[k] = s[1 + k - 1]
    BY <2>1, SubSeqIs
  <2> QED BY <2>1, <2>2
<1>4. /\ IsSequence(tail) /\ Len(tail) = (IF inside THEN Len(s) - n - 1 ELSE Len(s) - n)
      /\ \A k \in 1 .. Len(tail) : tail[k] = s[IF inside THEN n + 1 + k ELSE n + k]
  <2> DEFINE m == IF inside THEN n + 2 ELSE n + 1
             l == Len(s)
             sub == SubSeq(s, m, l)
  <2> HIDE DEF n, inside
  <2>1. m \in Nat /\ m >= 1 /\ l \in Nat /\ l <= Len(s)
    BY <1>1, <1>2
  <2>2. l - m + 1 = (IF inside THEN Len(s) - n - 1 ELSE Len(s) - n) /\ m <= l + 1
    BY <1>1, <1>2
  <2>3. \A k \in 1 .. l - m + 1 : m + k - 1 = IF inside THEN n + 1 + k ELSE n + k
    BY <1>1, <1>2
  <2> HIDE DEF m, l
  <2>4. /\ IsSequence(sub) /\ Len(sub) = (IF m <= l THEN l - m + 1 ELSE 0)
        /\ \A k \in 1 .. l - m + 1 : sub[k] = s[m + k - 1]
    BY <2>1, SubSeqIs
  <2>5. Len(sub) = l - m + 1
    BY <2>1, <2>2, <2>4
  <2> HIDE DEF sub
  <2>6. \A k \in 1 .. Len(sub) : sub[k] = s[IF inside THEN n + 1 + k ELSE n + k]
    BY <2>3, <2>4, <2>5
  <2> QED BY <2>2, <2>4, <2>5, <2>6 DEF sub, m, l
<1>5. IsSequence(broken) /\ Len(broken) = 1 /\ DOMAIN broken = 1 .. 1 /\ broken[1] = Broken(s[n + 1])
  <2> DEFINE b == Broken(s[n + 1])
  <2> HIDE DEF b
  <2>1. <<b>> \in Seq({b}) /\ Len(<<b>>) = 1 /\ <<b>>[1] = b
    OBVIOUS
  <2>2. IsSequence(<<b>>) /\ DOMAIN <<b>> = 1 .. 1
    BY <2>1, SequenceOf
  <2> QED BY <2>1, <2>2 DEF b
<1>6. IsSequence(<<>>)
  BY DEF IsSequence
<1> HIDE DEF before, tail, broken, n, inside
<1>7. CASE inside
  <2>1. piece = before \o broken /\ rest = broken \o tail
    BY <1>7 DEF Piece, RestOf, before, tail, broken
  <2>2. DOMAIN before = 1 .. n /\ DOMAIN tail = 1 .. Len(tail) /\ Len(tail) \in Nat
    BY <1>3, <1>4, SequenceIn
  <2> HIDE DEF piece, rest
  <2>3. /\ IsSequence(piece) /\ Len(piece) = n + 1
        /\ (\A k \in 1 .. n : piece[k] = s[k]) /\ piece[n + 1] = broken[1]
    <3>1. /\ IsSequence(before \o broken) /\ Len(before \o broken) = Len(before) + Len(broken)
          /\ \A k \in DOMAIN before : (before \o broken)[k] = before[k]
          /\ \A k \in DOMAIN broken : (before \o broken)[Len(before) + k] = broken[k]
      <4>1. IsSequence(before) /\ IsSequence(broken)
        BY <1>3, <1>5
      <4>2. IsConcat(before \o broken, before, broken)
        BY <4>1, ConcatIs
      <4> QED BY <4>2 DEF IsConcat
    <3>2. piece[Len(before) + 1] = broken[1]
      BY <1>5, <2>1, <3>1
    <3> QED BY <1>3, <1>5, <2>1, <2>2, <3>1, <3>2
  <2>4. /\ IsSequence(rest) /\ Len(rest) = 1 + Len(tail) /\ DOMAIN rest = 1 .. 1 + Len(tail)
        /\ rest[1] = broken[1] /\ \A k \in 1 .. Len(tail) : rest[1 + k] = tail[k]
    <3>1. /\ IsSequence(broken \o tail) /\ Len(broken \o tail) = Len(broken) + Len(tail)
          /\ DOMAIN (broken \o tail) = 1 .. Len(broken) + Len(tail)
          /\ \A k \in DOMAIN broken : (broken \o tail)[k] = broken[k]
          /\ \A k \in DOMAIN tail : (broken \o tail)[Len(broken) + k] = tail[k]
      <4>1. IsSequence(tail) /\ IsSequence(broken)
        BY <1>4, <1>5
      <4>2. IsConcat(broken \o tail, broken, tail)
        BY <4>1, ConcatIs
      <4> QED BY <4>2 DEF IsConcat
    <3> QED BY <1>4, <1>5, <2>1, <2>2, <3>1
  <2>5. ASSUME NEW k \in DOMAIN rest, k > 1 PROVE rest[k] = s[n + k]
    <3>1. k - 1 \in 1 .. Len(tail) /\ 1 + (k - 1) = k /\ n + 1 + (k - 1) = n + k
      BY <2>2, <2>4, <2>5, <1>1
    <3>2. rest[1 + (k - 1)] = tail[k - 1] /\ tail[k - 1] = s[n + 1 + (k - 1)]
      BY <1>4, <1>7, <2>4, <3>1
    <3> QED BY <3>1, <3>2
  <2>6. Len(rest) = Len(s) - n
    BY <1>1, <1>2, <1>4, <1>7, <2>4
  <2> QED BY <1>1, <1>2, <1>5, <1>7, <2>3, <2>4, <2>5, <2>6 DEF n, inside, piece, rest, IsSplit
<1>8. CASE ~inside
  <2>1. piece = before /\ rest = tail
    <3>1. piece = before \o <<>> /\ rest = <<>> \o tail
      BY <1>8 DEF Piece, RestOf, before, tail
    <3> QED BY <1>3, <1>4, <1>6, <3>1, ConcatIs
  <2>2. DOMAIN tail = 1 .. Len(tail)
    BY <1>4, SequenceIn
  <2> HIDE DEF piece, rest
  <2> QED BY <1>1, <1>2, <1>3, <1>4, <1>8, <2>1, <2>2 DEF n, inside, piece, rest, IsSplit
<1> QED BY <1>1, <1>7, <1>8


-----------------------------------------------------------------------------
(* The inductive invariant: the shape of the state                         *)

IsItem(x) == x = [of |-> x.of, part |-> x.part, field |-> x.field]

IsStream(s, ids) == IsSequence(s) /\ \A k \in DOMAIN s : IsItem(s[k]) /\ s[k].of \in ids

IsConnection(x, ids) ==
  /\ x = [toServer |-> x.toServer, toClient |-> x.toClient, peer |-> x.peer, client |-> x.client]
  /\ IsStream(x.toServer, ids) /\ IsStream(x.toClient, ids)
  /\ x.peer \in {"open", "closed", "reset"} /\ x.client \in {"open", "closed"}

IsCall(x) ==
  x = [call |-> x.call, status |-> x.status, reply |-> x.reply, from |-> x.from] /\ x.call \in Requests

IsThread(x, ids, fds) ==
  /\ x = [at |-> x.at, call |-> x.call, fd |-> x.fd]
  /\ x.at \in {"idle", "connect", "send", "reconnect", "recv", "receiving", "giveUp"}
  /\ x.call \in {0} \cup ids /\ (x.at # "idle" => x.call \in ids)
  /\ x.at = "receiving" => x.fd \in fds

Shape ==
  /\ IsSequence(connections) /\ \A c \in DOMAIN connections : IsConnection(connections[c], DOMAIN callLog)
  /\ IsSequence(callLog) /\ \A n \in DOMAIN callLog : IsCall(callLog[n])
  /\ IsSequence(served) /\ \A n \in DOMAIN served : served[n].of \in DOMAIN callLog
  /\ m_clientFd \in {-1} \cup DOMAIN connections
  /\ threads = [t \in Thread |-> threads[t]]
  /\ \A t \in Thread : IsThread(threads[t], DOMAIN callLog, DOMAIN connections)
  /\ shared \in BOOLEAN /\ cut \in BOOLEAN

-----------------------------------------------------------------------------
(* The inductive invariant: requests                                       *)

\* What a request with the number id consists of on the wire.
RequestOf(id, r) ==
  <<Item(id, "size", Len(Header[r]))>> \o Items(id, "header", Header[r]) \o Items(id, "args", Arguments[r])

StartsAt(stream, k, request) ==
  k + Len(request) <= Len(stream) + 1 /\ \A j \in DOMAIN request : stream[k + j - 1] = request[j]

\* After the size of a request comes the whole of it, whatever the pieces before it were.
WholeRequests ==
  \A c \in DOMAIN connections : \A k \in DOMAIN connections[c].toServer :
    connections[c].toServer[k].part = "size" =>
      StartsAt(connections[c].toServer, k, RequestItems(connections[c].toServer[k].of))

SizeAt(stream, k, id) == k \in DOMAIN stream /\ stream[k].part = "size" /\ stream[k].of = id

IsUnderWay(id) ==
  \E c \in DOMAIN connections : \E k \in DOMAIN connections[c].toServer : SizeAt(connections[c].toServer, k, id)
WasServed(id) == \E n \in DOMAIN served : served[n].of = id

UnderWayOnce ==
  \A c, d \in DOMAIN connections : \A k, l, id :
    SizeAt(connections[c].toServer, k, id) /\ SizeAt(connections[d].toServer, l, id) => c = d /\ k = l

IsSending(t) == threads[t].at \in {"connect", "send", "reconnect"}
IsBusy(t) == threads[t].at # "idle"

\* A request is at one place only: with its thread, on the way, or served.
SentOnce ==
  /\ UnderWayOnce /\ ServedOnce
  /\ \A id : ~(IsUnderWay(id) /\ WasServed(id))
  /\ \A t \in Thread : IsSending(t) => ~IsUnderWay(threads[t].call) /\ ~WasServed(threads[t].call)
  /\ \A t, u \in Thread : IsBusy(t) /\ IsBusy(u) /\ threads[t].call = threads[u].call => t = u

-----------------------------------------------------------------------------
(* The inductive invariant: replies                                        *)

ReplyClass(r) == GetResponsePrototype(r.service, r.method)

RepliesTyped ==
  /\ \A c \in DOMAIN connections : \A k \in DOMAIN connections[c].toClient :
       WireTyped(connections[c].toClient[k].field)
  /\ \A n \in DOMAIN callLog : callLog[n].status = "ok" => IsMessage(ReplyClass(callLog[n].call), callLog[n].reply)

\* What a method responded is a message of the class of its own call.
ServedTyped ==
  \A n \in DOMAIN served : IsMessage(ReplyClass(callLog[served[n].of].call), served[n].response)

-----------------------------------------------------------------------------
(* The inductive invariant: a channel with one thread                      *)

OneCaller ==
  /\ \A t, u \in Thread : IsBusy(t) /\ IsBusy(u) => t = u
  /\ \A t \in Thread :
       /\ threads[t].at = "connect" => m_clientFd = -1
       /\ threads[t].at = "recv" => m_clientFd # -1
       /\ threads[t].at = "receiving" => threads[t].fd = m_clientFd
  /\ \A c \in DOMAIN connections : connections[c].client = "open" => c = m_clientFd

IsAwaiting(t) == threads[t].at \in {"recv", "receiving"}

\* The reply to call id, with what its service method responded.
IsReplyTo(s, id) ==
  \E n \in DOMAIN served :
    /\ served[n].of = id
    /\ s = Items(id, "reply", Serialize(ReplyClass(callLog[id].call), served[n].response))

RequestOnTheWay(x, id) == x.peer = "open" /\ x.toServer = RequestItems(id) /\ x.toClient = <<>>
ReplyOnTheWay(x, id) == x.peer # "reset" /\ x.toServer = <<>> /\ IsReplyTo(x.toClient, id)
NothingOnTheWay(x) == x.toServer = <<>> /\ x.toClient = <<>>

\* As long as every message arrives whole, the connection holds no more than the request of
\* the call that waits, or the reply to it.
LoneExchange ==
  m_clientFd # -1 =>
    /\ (\A t \in Thread : ~IsAwaiting(t)) => NothingOnTheWay(connections[m_clientFd])
    /\ \A t \in Thread : IsAwaiting(t) =>
         \/ RequestOnTheWay(connections[m_clientFd], threads[t].call)
         \/ ReplyOnTheWay(connections[m_clientFd], threads[t].call)
         \/ NothingOnTheWay(connections[m_clientFd]) /\ connections[m_clientFd].peer # "open"

IInv ==
  /\ Shape /\ WholeRequests /\ SentOnce /\ RepliesTyped /\ ServedAsSentOrEmpty /\ ServedTyped
  /\ ~shared => OneCaller
  /\ ~shared /\ ~cut => LoneExchange
  /\ OwnReplyUnlessShared


-----------------------------------------------------------------------------
(* Requests and replies as items                                           *)

LEMMA ItemsAre ==
  ASSUME NEW id, NEW part, NEW fields, IsSequence(fields)
  PROVE  /\ IsSequence(Items(id, part, fields)) /\ Len(Items(id, part, fields)) = Len(fields)
         /\ DOMAIN Items(id, part, fields) = 1 .. Len(fields) /\ Len(fields) \in Nat
         /\ \A k \in 1 .. Len(fields) : Items(id, part, fields)[k] = Item(id, part, fields[k])
<1> DEFINE s == Items(id, part, fields)
<1>1. Len(fields) \in Nat /\ DOMAIN fields = 1 .. Len(fields)
  BY SequenceIn
<1>2. s = [k \in 1 .. Len(fields) |-> Item(id, part, fields[k])]
  BY <1>1 DEF Items
<1>3. \A k \in 1 .. Len(fields) : s[k] = Item(id, part, fields[k])
  BY <1>2
<1>4. s = [k \in 1 .. Len(fields) |-> s[k]]
  BY <1>2
<1> HIDE DEF s
<1>5. IsSequence(s) /\ Len(s) = Len(fields) /\ DOMAIN s = 1 .. Len(fields)
  BY <1>1, <1>4, IsSequenceFrom
<1> QED BY <1>1, <1>3, <1>5 DEF s

\* The parts of a request.
IsRequest(request, id, h, args) ==
  /\ IsSequence(request) /\ Len(request) = 1 + Len(h) + Len(args) /\ DOMAIN request = 1 .. 1 + Len(h) + Len(args)
  /\ request[1] = Item(id, "size", Len(h))
  /\ \A k \in DOMAIN h : request[1 + k] = Item(id, "header", h[k])
  /\ \A k \in DOMAIN args : request[1 + Len(h) + k] = Item(id, "args", args[k])

LEMMA HeaderSequence ==
  ASSUME NEW r \in Requests
  PROVE  IsSequence(Header[r]) /\ Len(Header[r]) \in Nat /\ Len(Header[r]) \in {2, 3}
<1> DEFINE a == ServiceField(r)
           b == MethodField(r)
           c == SizeField(r)
           S == {a, b, c}
<1>1. Header[r] = IF Len(Arguments[r]) = 0 THEN <<a, b>> ELSE <<a, b, c>>
  BY HeaderFields
<1> HIDE DEF a, b, c
<1>2. <<a, b>> \in Seq(S) /\ <<a, b, c>> \in Seq(S) /\ Len(<<a, b>>) = 2 /\ Len(<<a, b, c>>) = 3
  OBVIOUS
<1> QED BY <1>1, <1>2, SequenceOf

LEMMA RequestIs ==
  ASSUME NEW id, NEW r \in Requests
  PROVE  IsRequest(RequestOf(id, r), id, Header[r], Arguments[r])
<1> DEFINE h == Header[r]
           args == Arguments[r]
           size == Item(id, "size", Len(h))
           x == <<size>>
           y == Items(id, "header", h)
           z == Items(id, "args", args)
<1>1. IsSequence(h) /\ IsSequence(args)
  BY HeaderSequence, ArgumentsSequence
<1>2. RequestOf(id, r) = (x \o y) \o z
  BY DEF RequestOf
<1> HIDE DEF h, args, size
<1>3. IsSequence(x) /\ Len(x) = 1 /\ DOMAIN x = 1 .. 1 /\ x[1] = size
  <2>1. x \in Seq({size}) /\ Len(x) = 1 /\ x[1] = size
    OBVIOUS
  <2> HIDE DEF x
  <2> QED BY <2>1, SequenceOf
<1> HIDE DEF x
<1>4. /\ IsSequence(y) /\ Len(y) = Len(h) /\ DOMAIN y = 1 .. Len(h) /\ Len(h) \in Nat
      /\ \A k \in 1 .. Len(h) : y[k] = Item(id, "header", h[k])
  BY <1>1, ItemsAre
<1>5. /\ IsSequence(z) /\ Len(z) = Len(args) /\ DOMAIN z = 1 .. Len(args) /\ Len(args) \in Nat
      /\ \A k \in 1 .. Len(args) : z[k] = Item(id, "args", args[k])
  BY <1>1, ItemsAre
<1>6. DOMAIN h = 1 .. Len(h) /\ DOMAIN args = 1 .. Len(args)
  BY <1>1, SequenceIn
<1> HIDE DEF y, z
<1> DEFINE xy == x \o y
<1>7. IsConcat(xy, x, y)
  BY <1>3, <1>4, ConcatIs
<1> HIDE DEF xy
<1>8. IsSequence(xy) /\ Len(xy) = 1 + Len(h) /\ DOMAIN xy = 1 .. 1 + Len(h) /\ xy[1] = size
  BY <1>3, <1>4, <1>7 DEF IsConcat
<1>9. \A k \in 1 .. Len(h) : xy[1 + k] = y[k]
  BY <1>3, <1>4, <1>7 DEF IsConcat
<1> DEFINE xyz == xy \o z
<1>10. IsConcat(xyz, xy, z)
  BY <1>8, <1>5, ConcatIs
<1> HIDE DEF xyz
<1>11. IsSequence(xyz) /\ Len(xyz) = 1 + Len(h) + Len(args) /\ DOMAIN xyz = 1 .. 1 + Len(h) + Len(args) /\ xyz[1] = size
  BY <1>4, <1>5, <1>8, <1>10 DEF IsConcat
<1>12. \A k \in 1 .. Len(h) : xyz[1 + k] = y[k]
  BY <1>4, <1>8, <1>9, <1>10 DEF IsConcat
<1>13. \A k \in 1 .. Len(args) : xyz[1 + Len(h) + k] = z[k]
  BY <1>5, <1>8, <1>10 DEF IsConcat
<1>14. IsRequest(xyz, id, h, args)
  BY <1>4, <1>5, <1>6, <1>11, <1>12, <1>13 DEF IsRequest, size
<1> QED BY <1>2, <1>14 DEF xyz, xy, h, args

\* All items of a request are of its call and whole, and the first only is a size.
LEMMA RequestItemsAre ==
  ASSUME NEW id, NEW r \in Requests, NEW k \in DOMAIN RequestOf(id, r)
  PROVE  LET item == RequestOf(id, r)[k] IN
         /\ IsItem(item) /\ item.of = id /\ item.part \in {"size", "header", "args"}
         /\ item.part = "size" <=> k = 1
<1> DEFINE h == Header[r]
           args == Arguments[r]
           request == RequestOf(id, r)
<1>1. IsRequest(request, id, h, args)
  BY RequestIs
<1>2. /\ Len(h) \in Nat /\ DOMAIN h = 1 .. Len(h)
      /\ Len(args) \in Nat /\ DOMAIN args = 1 .. Len(args)
  BY HeaderSequence, ArgumentsSequence, SequenceIn
<1> HIDE DEF h, args, request
<1>3. k \in 1 .. 1 + Len(h) + Len(args)
  BY <1>1 DEF IsRequest, request
<1>4. CASE k = 1
  <2>1. request[k] = Item(id, "size", Len(h))
    BY <1>1, <1>4 DEF IsRequest
  <2> QED BY <1>4, <2>1 DEF Item, IsItem, request
<1>5. CASE k # 1 /\ k <= 1 + Len(h)
  <2>1. k - 1 \in DOMAIN h /\ 1 + (k - 1) = k
    BY <1>2, <1>3, <1>5
  <2>2. request[1 + (k - 1)] = Item(id, "header", h[k - 1])
    BY <1>1, <2>1 DEF IsRequest
  <2>3. request[k] = Item(id, "header", h[k - 1])
    BY <2>1, <2>2
  <2> QED BY <1>5, <2>3 DEF Item, IsItem, request
<1>6. CASE k > 1 + Len(h)
  <2> DEFINE j == k - 1 - Len(h)
  <2>1. j \in DOMAIN args /\ 1 + Len(h) + j = k /\ k # 1
    BY <1>2, <1>3, <1>6, SMTT(30)
  <2> HIDE DEF j
  <2>2. request[1 + Len(h) + j] = Item(id, "args", args[j])
    BY <1>1, <2>1 DEF IsRequest
  <2>3. request[k] = Item(id, "args", args[j])
    BY <2>1, <2>2
  <2> QED BY <2>1, <2>3 DEF Item, IsItem, request
<1> QED BY <1>2, <1>3, <1>4, <1>5, <1>6


-----------------------------------------------------------------------------
(* The shape is kept                                                       *)

LEMMA StreamMonotone ==
  ASSUME NEW ids, NEW more, ids \subseteq more
  PROVE  /\ \A s : IsStream(s, ids) => IsStream(s, more)
         /\ \A x : IsConnection(x, ids) => IsConnection(x, more)
<1>1. \A s : IsStream(s, ids) => IsStream(s, more)
  BY DEF IsStream
<1> QED BY <1>1 DEF IsConnection

LEMMA EmptyStream ==
  ASSUME NEW ids
  PROVE  IsStream(<<>>, ids) /\ IsConnection(NewConnection, ids)
<1>1. IsStream(<<>>, ids)
  BY DEF IsStream, IsSequence
<1> QED BY <1>1 DEF IsConnection, NewConnection

LEMMA ConcatStream ==
  ASSUME NEW ids, NEW s, IsStream(s, ids), NEW t, IsStream(t, ids)
  PROVE  IsStream(s \o t, ids)
<1> DEFINE st == s \o t
<1>1. IsConcat(st, s, t)
  BY ConcatIs DEF IsStream
<1> HIDE DEF st
<1>2. /\ Len(s) \in Nat /\ DOMAIN s = 1 .. Len(s) /\ Len(t) \in Nat /\ DOMAIN t = 1 .. Len(t)
  BY SequenceIn DEF IsStream
<1>3. ASSUME NEW k \in DOMAIN st PROVE IsItem(st[k]) /\ st[k].of \in ids
  <2>1. k \in 1 .. Len(s) + Len(t)
    BY <1>1 DEF IsConcat
  <2>2. CASE k <= Len(s)
    <3>1. k \in DOMAIN s
      BY <1>2, <2>1, <2>2
    <3>2. st[k] = s[k]
      BY <1>1, <3>1 DEF IsConcat
    <3> QED BY <3>1, <3>2 DEF IsStream
  <2>3. CASE k > Len(s)
    <3> DEFINE j == k - Len(s)
    <3>1. j \in DOMAIN t /\ Len(s) + j = k
      BY <1>2, <2>1, <2>3
    <3> HIDE DEF j
    <3>2. st[Len(s) + j] = t[j]
      BY <1>1, <3>1 DEF IsConcat
    <3>3. st[k] = t[j]
      BY <3>1, <3>2
    <3> QED BY <3>1, <3>3 DEF IsStream
  <2> QED BY <1>2, <2>1, <2>2, <2>3
<1>4. IsSequence(st)
  BY <1>1 DEF IsConcat
<1> QED BY <1>3, <1>4 DEF IsStream, st

LEMMA RestStream ==
  ASSUME NEW ids, NEW s, IsStream(s, ids), NEW e \in Ends(s)
  PROVE  IsStream(RestOf(s, e[1], e[2]), ids)
<1> DEFINE rest == RestOf(s, e[1], e[2])
           piece == Piece(s, e[1], e[2])
<1>1. IsSplit(s, e, piece, rest)
  BY PieceIs DEF IsStream
<1> HIDE DEF rest, piece
<1>2. ASSUME NEW k \in DOMAIN rest PROVE IsItem(rest[k]) /\ rest[k].of \in ids
  <2>1. k \in 1 .. Len(rest) /\ Len(rest) = Len(s) - e[1] /\ e[1] \in 0 .. Len(s) /\ Len(s) \in Nat
    <3>1. IsSequence(rest)
      BY <1>1 DEF IsSplit
    <3> QED BY <1>1, <3>1, SequenceIn DEF IsSplit
  <2>2. e[1] + k \in DOMAIN s
    BY <1>1, <2>1 DEF IsSplit
  <2>3. CASE k > 1 \/ ~e[2]
    <3>1. rest[k] = s[e[1] + k]
      BY <1>1, <2>3 DEF IsSplit
    <3> QED BY <2>2, <3>1 DEF IsStream
  <2>4. CASE ~(k > 1 \/ ~e[2])
    <3>1. k = 1 /\ e[2]
      BY <2>1, <2>4
    <3>2. rest[k] = Broken(s[e[1] + 1]) /\ e[1] + 1 \in DOMAIN s
      BY <1>1, <2>2, <3>1 DEF IsSplit
    <3>3. IsItem(s[e[1] + 1]) /\ s[e[1] + 1].of \in ids
      BY <3>2 DEF IsStream
    <3> QED BY <3>2, <3>3 DEF Broken, IsItem
  <2> QED BY <2>3, <2>4
<1>3. IsSequence(rest)
  BY <1>1 DEF IsSplit
<1> QED BY <1>2, <1>3 DEF IsStream, rest

LEMMA RequestStream ==
  ASSUME NEW ids, NEW id \in ids, NEW r \in Requests
  PROVE  IsStream(RequestOf(id, r), ids)
<1>1. IsSequence(RequestOf(id, r))
  BY RequestIs DEF IsRequest
<1>2. \A k \in DOMAIN RequestOf(id, r) : IsItem(RequestOf(id, r)[k]) /\ RequestOf(id, r)[k].of = id
  BY RequestItemsAre
<1> QED BY <1>1, <1>2 DEF IsStream

LEMMA ReplyStream ==
  ASSUME NEW ids, NEW id \in ids, NEW fields, IsSequence(fields)
  PROVE  IsStream(Items(id, "reply", fields), ids)
<1> DEFINE s == Items(id, "reply", fields)
<1>1. IsSequence(s) /\ DOMAIN s = 1 .. Len(fields) /\ \A k \in 1 .. Len(fields) : s[k] = Item(id, "reply", fields[k])
  BY ItemsAre
<1> HIDE DEF s
<1>2. \A k \in DOMAIN s : IsItem(s[k]) /\ s[k].of = id
  BY <1>1 DEF IsItem, Item
<1> QED BY <1>1, <1>2 DEF IsStream, s

LEMMA RequestItemsOf ==
  ASSUME NEW id
  PROVE  RequestItems(id) = RequestOf(id, callLog[id].call)
BY DEF RequestItems, RequestOf

\* The parts of Shape that a step changes together.
CallsShape == IsSequence(callLog) /\ \A n \in DOMAIN callLog : IsCall(callLog[n])
ServedShape == IsSequence(served) /\ \A n \in DOMAIN served : served[n].of \in DOMAIN callLog
ConnectionsShape ==
  /\ IsSequence(connections) /\ \A c \in DOMAIN connections : IsConnection(connections[c], DOMAIN callLog)
  /\ m_clientFd \in {-1} \cup DOMAIN connections
ThreadsShape ==
  /\ threads = [t \in Thread |-> threads[t]]
  /\ \A t \in Thread : IsThread(threads[t], DOMAIN callLog, DOMAIN connections)

LEMMA ShapeParts ==
  Shape <=> CallsShape /\ ServedShape /\ ConnectionsShape /\ ThreadsShape /\ shared \in BOOLEAN /\ cut \in BOOLEAN
BY DEF Shape, CallsShape, ServedShape, ConnectionsShape, ThreadsShape

\* No call changes, whatever happens to it.
CallsKept ==
  DOMAIN callLog \subseteq DOMAIN callLog' /\ \A n \in DOMAIN callLog : callLog'[n].call = callLog[n].call

ServedKept == DOMAIN served \subseteq DOMAIN served' /\ \A n \in DOMAIN served : served'[n] = served[n]

\* A thread that returns.
LEMMA ReturnsShape ==
  ASSUME Shape, NEW t \in Thread, threads[t].at # "idle", NEW status, NEW reply, NEW from,
         Returns(t, status, reply, from)
  PROVE  /\ DOMAIN callLog' = DOMAIN callLog /\ CallsKept /\ CallsShape'
         /\ threads[t].call \in DOMAIN callLog
         /\ callLog'[threads[t].call] = [call |-> CallOf(t), status |-> status, reply |-> reply, from |-> from]
         /\ \A n \in DOMAIN callLog : n # threads[t].call => callLog'[n] = callLog[n]
         /\ threads' = [u \in Thread |-> threads'[u]]
         /\ threads'[t] = IdleThread /\ \A u \in Thread : u # t => threads'[u] = threads[u]
<1> DEFINE id == threads[t].call
<1>1. id \in DOMAIN callLog /\ IsCall(callLog[id])
  BY DEF Shape, IsThread
<1>2. Len(callLog) \in Nat /\ DOMAIN callLog = 1 .. Len(callLog) /\ callLog = [n \in 1 .. Len(callLog) |-> callLog[n]]
  BY SequenceIn DEF Shape, IsSequence
<1>3. threads' = [u \in Thread |-> threads'[u]] /\ threads'[t] = IdleThread
      /\ \A u \in Thread : u # t => threads'[u] = threads[u]
  BY DEF Returns, Shape
<1> DEFINE x == [callLog[id] EXCEPT !.status = status, !.reply = reply, !.from = from]
<1>4. x = [call |-> CallOf(t), status |-> status, reply |-> reply, from |-> from]
  <2> DEFINE c == callLog[id]
  <2>1. c = [call |-> c.call, status |-> c.status, reply |-> c.reply, from |-> c.from]
    BY <1>1 DEF IsCall
  <2>2. c.call = CallOf(t)
    BY DEF CallOf
  <2> HIDE DEF c
  <2>3. [c EXCEPT !.status = status, !.reply = reply, !.from = from]
          = [call |-> c.call, status |-> status, reply |-> reply, from |-> from]
    <3>1. PICK a, b, d, f : c = [call |-> a, status |-> b, reply |-> d, from |-> f]
      BY <2>1
    <3>2. c.call = a
      BY <3>1
    <3>3. [c EXCEPT !.status = status, !.reply = reply, !.from = from]
            = [call |-> a, status |-> status, reply |-> reply, from |-> from]
      <4>1. [c EXCEPT !.status = status] = [call |-> a, status |-> status, reply |-> d, from |-> f]
        BY <3>1
      <4>2. [[call |-> a, status |-> status, reply |-> d, from |-> f] EXCEPT !.reply = reply]
              = [call |-> a, status |-> status, reply |-> reply, from |-> f]
        OBVIOUS
      <4>3. [[call |-> a, status |-> status, reply |-> reply, from |-> f] EXCEPT !.from = from]
              = [call |-> a, status |-> status, reply |-> reply, from |-> from]
        OBVIOUS
      <4>4. [c EXCEPT !.status = status, !.reply = reply, !.from = from]
              = [[[c EXCEPT !.status = status] EXCEPT !.reply = reply] EXCEPT !.from = from]
        OBVIOUS
      <4> QED BY <4>1, <4>2, <4>3, <4>4, Zenon
    <3> QED BY <3>2, <3>3
  <2> QED BY <2>2, <2>3 DEF c
<1>5. callLog' = [callLog EXCEPT ![id] = x]
  BY DEF Returns
<1> HIDE DEF id, x
<1>6. /\ callLog' = [n \in 1 .. Len(callLog) |-> callLog'[n]]
      /\ callLog'[id] = x /\ \A n \in DOMAIN callLog : n # id => callLog'[n] = callLog[n]
  BY <1>1, <1>2, <1>5
<1>7. IsSequence(callLog') /\ DOMAIN callLog' = DOMAIN callLog
  BY <1>2, <1>6, IsSequenceFrom
<1>8. CallOf(t) \in Requests /\ callLog[id].call = CallOf(t)
  BY <1>1 DEF IsCall, CallOf, id
<1>9. CallsShape'
  <2>1. ASSUME NEW n \in DOMAIN callLog PROVE IsCall(callLog'[n])
    <3>1. CASE n = id
      BY <1>4, <1>6, <1>8, <3>1 DEF IsCall
    <3>2. CASE n # id
      BY <1>6, <3>2 DEF Shape
    <3> QED BY <3>1, <3>2
  <2> QED BY <1>7, <2>1 DEF CallsShape
<1>10. CallsKept
  BY <1>4, <1>6, <1>7, <1>8 DEF CallsKept
<1> QED BY <1>1, <1>3, <1>4, <1>6, <1>7, <1>9, <1>10 DEF id


-----------------------------------------------------------------------------
(* What the steps do to connections and threads                            *)

ConnectionOf(toServer, toClient, peer, client) ==
  [toServer |-> toServer, toClient |-> toClient, peer |-> peer, client |-> client]

\* Connection c is x now, and the others are as they were.
OnlyConnection(c, x) ==
  /\ IsSequence(connections') /\ DOMAIN connections' = DOMAIN connections
  /\ connections'[c] = x /\ \A d \in DOMAIN connections : d # c => connections'[d] = connections[d]

OnlyThread(t, x) ==
  /\ threads' = [u \in Thread |-> threads'[u]]
  /\ threads'[t] = x /\ \A u \in Thread : u # t => threads'[u] = threads[u]

LEMMA OneConnection ==
  ASSUME Shape, NEW c \in DOMAIN connections, NEW x, connections' = [connections EXCEPT ![c] = x]
  PROVE  OnlyConnection(c, x)
<1>1. /\ Len(connections) \in Nat /\ DOMAIN connections = 1 .. Len(connections)
      /\ connections = [n \in 1 .. Len(connections) |-> connections[n]]
  BY SequenceIn DEF Shape, IsSequence
<1>2. /\ connections' = [n \in 1 .. Len(connections) |-> connections'[n]]
      /\ connections'[c] = x /\ \A d \in DOMAIN connections : d # c => connections'[d] = connections[d]
  BY <1>1
<1>3. IsSequence(connections') /\ DOMAIN connections' = DOMAIN connections
  BY <1>1, <1>2, IsSequenceFrom
<1> QED BY <1>2, <1>3 DEF OnlyConnection

LEMMA FieldsOfConnection ==
  ASSUME Shape, NEW c \in DOMAIN connections
  PROVE  LET x == connections[c] IN
         /\ IsConnection(x, DOMAIN callLog)
         /\ x = ConnectionOf(x.toServer, x.toClient, x.peer, x.client)
         /\ \A v : [x EXCEPT !.toServer = v] = ConnectionOf(v, x.toClient, x.peer, x.client)
         /\ \A v : [x EXCEPT !.toClient = v] = ConnectionOf(x.toServer, v, x.peer, x.client)
         /\ \A v : [x EXCEPT !.peer = v] = ConnectionOf(x.toServer, x.toClient, v, x.client)
         /\ \A v : [x EXCEPT !.client = v] = ConnectionOf(x.toServer, x.toClient, x.peer, v)
         /\ \A v, w : [x EXCEPT !.peer = v, !.toServer = w] = ConnectionOf(w, x.toClient, v, x.client)
         /\ \A u, v, w : [x EXCEPT !.peer = u, !.toServer = v, !.toClient = w] = ConnectionOf(v, w, u, x.client)
<1> DEFINE x == connections[c]
<1>1. IsConnection(x, DOMAIN callLog)
  BY DEF Shape
<1>2. PICK a, b, p, q : x = ConnectionOf(a, b, p, q)
  BY <1>1 DEF IsConnection, ConnectionOf
<1> HIDE DEF x
<1>3. x.toServer = a /\ x.toClient = b /\ x.peer = p /\ x.client = q
  BY <1>2 DEF ConnectionOf
<1>4. ASSUME NEW v
      PROVE  /\ [x EXCEPT !.toServer = v] = ConnectionOf(v, b, p, q)
             /\ [x EXCEPT !.toClient = v] = ConnectionOf(a, v, p, q)
             /\ [x EXCEPT !.peer = v] = ConnectionOf(a, b, v, q)
             /\ [x EXCEPT !.client = v] = ConnectionOf(a, b, p, v)
  BY <1>2 DEF ConnectionOf
<1>5. ASSUME NEW k, NEW l, NEW m, NEW n, NEW v
      PROVE  /\ [ConnectionOf(k, l, m, n) EXCEPT !.toServer = v] = ConnectionOf(v, l, m, n)
             /\ [ConnectionOf(k, l, m, n) EXCEPT !.toClient = v] = ConnectionOf(k, v, m, n)
  BY DEF ConnectionOf
<1>6. ASSUME NEW v, NEW w
      PROVE  [x EXCEPT !.peer = v, !.toServer = w] = ConnectionOf(w, b, v, q)
  <2>1. [x EXCEPT !.peer = v, !.toServer = w] = [[x EXCEPT !.peer = v] EXCEPT !.toServer = w]
    OBVIOUS
  <2>2. [x EXCEPT !.peer = v] = ConnectionOf(a, b, v, q)
    BY <1>4
  <2>3. [ConnectionOf(a, b, v, q) EXCEPT !.toServer = w] = ConnectionOf(w, b, v, q)
    BY <1>5
  <2> QED BY <2>1, <2>2, <2>3
<1>7. ASSUME NEW u, NEW v, NEW w
      PROVE  [x EXCEPT !.peer = u, !.toServer = v, !.toClient = w] = ConnectionOf(v, w, u, q)
  <2>1. [x EXCEPT !.peer = u, !.toServer = v, !.toClient = w]
          = [[[x EXCEPT !.peer = u] EXCEPT !.toServer = v] EXCEPT !.toClient = w]
    OBVIOUS
  <2>2. [x EXCEPT !.peer = u] = ConnectionOf(a, b, u, q)
    BY <1>4
  <2>3. [ConnectionOf(a, b, u, q) EXCEPT !.toServer = v] = ConnectionOf(v, b, u, q)
    BY <1>5
  <2>4. [ConnectionOf(v, b, u, q) EXCEPT !.toClient = w] = ConnectionOf(v, w, u, q)
    BY DEF ConnectionOf
  <2> QED BY <2>1, <2>2, <2>3, <2>4
<1>8. /\ x = ConnectionOf(x.toServer, x.toClient, x.peer, x.client)
      /\ \A v : [x EXCEPT !.toServer = v] = ConnectionOf(v, x.toClient, x.peer, x.client)
      /\ \A v : [x EXCEPT !.toClient = v] = ConnectionOf(x.toServer, v, x.peer, x.client)
  BY <1>2, <1>3, <1>4
<1>9. /\ \A v : [x EXCEPT !.peer = v] = ConnectionOf(x.toServer, x.toClient, v, x.client)
      /\ \A v : [x EXCEPT !.client = v] = ConnectionOf(x.toServer, x.toClient, x.peer, v)
  BY <1>3, <1>4
<1>10. \A v, w : [x EXCEPT !.peer = v, !.toServer = w] = ConnectionOf(w, x.toClient, v, x.client)
  BY <1>3, <1>6
<1>11. \A u, v, w : [x EXCEPT !.peer = u, !.toServer = v, !.toClient = w] = ConnectionOf(v, w, u, x.client)
  BY <1>3, <1>7
<1> QED BY <1>1, <1>8, <1>9, <1>10, <1>11 DEF x

LEMMA RespondIs ==
  ASSUME Shape, NEW c \in DOMAIN connections, NEW rest, NEW response, Respond(c, rest, response)
  PROVE  LET x == connections[c] IN
         OnlyConnection(c, ConnectionOf(rest, x.toClient \o response, x.peer, x.client))
<1> DEFINE x == connections[c]
           mid == [connections EXCEPT ![c].toServer = rest]
           y == ConnectionOf(rest, x.toClient, x.peer, x.client)
           z == ConnectionOf(rest, x.toClient \o response, x.peer, x.client)
<1>1. connections' = [mid EXCEPT ![c].toClient = @ \o response]
  BY DEF Respond
<1>2. mid = [connections EXCEPT ![c] = [x EXCEPT !.toServer = rest]]
  OBVIOUS
<1>3. [x EXCEPT !.toServer = rest] = y
  BY FieldsOfConnection
<1>4. y.toClient = x.toClient /\ \A v : [y EXCEPT !.toClient = v] = ConnectionOf(rest, v, x.peer, x.client)
  BY DEF ConnectionOf
<1> HIDE DEF mid, x, y
<1>5. mid[c] = y /\ DOMAIN mid = DOMAIN connections /\ \A d \in DOMAIN connections : d # c => mid[d] = connections[d]
  BY <1>2, <1>3
<1>6. connections' = [mid EXCEPT ![c] = [y EXCEPT !.toClient = x.toClient \o response]]
  BY <1>1, <1>4, <1>5
<1>7. connections' = [mid EXCEPT ![c] = z]
  BY <1>4, <1>6
<1> HIDE DEF z
<1>8. connections' = [connections EXCEPT ![c] = z]
  BY <1>2, <1>7
<1>9. OnlyConnection(c, z)
  BY <1>8, OneConnection
<1> QED BY <1>9 DEF z, x

LEMMA CloseIs ==
  ASSUME Shape, Close
  PROVE  /\ m_clientFd' = -1
         /\ m_clientFd = -1 => connections' = connections
         /\ m_clientFd # -1 =>
              LET x == connections[m_clientFd] IN
              /\ m_clientFd \in DOMAIN connections
              /\ OnlyConnection(m_clientFd, ConnectionOf(x.toServer, x.toClient, x.peer, "closed"))
<1>1. m_clientFd' = -1 /\ (m_clientFd = -1 => connections' = connections)
  BY DEF Close
<1>2. ASSUME m_clientFd # -1
      PROVE  LET x == connections[m_clientFd] IN
             /\ m_clientFd \in DOMAIN connections
             /\ OnlyConnection(m_clientFd, ConnectionOf(x.toServer, x.toClient, x.peer, "closed"))
  <2> DEFINE x == connections[m_clientFd]
             y == ConnectionOf(x.toServer, x.toClient, x.peer, "closed")
  <2>1. m_clientFd \in DOMAIN connections
    BY <1>2 DEF Shape
  <2>2. connections' = [connections EXCEPT ![m_clientFd] = [x EXCEPT !.client = "closed"]]
    BY <1>2 DEF Close
  <2>3. [x EXCEPT !.client = "closed"] = y
    BY <2>1, FieldsOfConnection
  <2> HIDE DEF x, y
  <2>4. OnlyConnection(m_clientFd, y)
    BY <2>1, <2>2, <2>3, OneConnection
  <2> QED BY <2>1, <2>4 DEF x, y
<1> QED BY <1>1, <1>2

LEMMA SendIs ==
  ASSUME Shape, NEW t \in Thread, Send(t)
  PROVE  LET x == connections[m_clientFd] IN
         /\ m_clientFd \in DOMAIN connections
         /\ x.peer = "open" =>
              OnlyConnection(m_clientFd,
                ConnectionOf(x.toServer \o RequestItems(threads[t].call), x.toClient, "open", x.client))
         /\ x.peer # "open" => OnlyConnection(m_clientFd, ConnectionOf(x.toServer, x.toClient, "reset", x.client))
<1> DEFINE x == connections[m_clientFd]
           sent == x.toServer \o RequestItems(threads[t].call)
<1>1. m_clientFd \in DOMAIN connections
  BY DEF Shape, Send, IsUsable
<1>2. /\ connections' = [connections EXCEPT ![m_clientFd] = AfterSend(x, RequestItems(threads[t].call))]
      /\ AfterSend(x, RequestItems(threads[t].call)) =
           IF x.peer = "open" THEN [x EXCEPT !.toServer = sent] ELSE [x EXCEPT !.peer = "reset"]
  <2>1. connections' = [connections EXCEPT ![m_clientFd] = AfterSend(x, RequestItems(threads[t].call))]
    BY DEF Send
  <2>2. AfterSend(x, RequestItems(threads[t].call)) =
          IF x.peer = "open" THEN [x EXCEPT !.toServer = sent] ELSE [x EXCEPT !.peer = "reset"]
    BY DEF AfterSend
  <2> QED BY <2>1, <2>2
<1>3. /\ [x EXCEPT !.toServer = sent] = ConnectionOf(sent, x.toClient, x.peer, x.client)
      /\ [x EXCEPT !.peer = "reset"] = ConnectionOf(x.toServer, x.toClient, "reset", x.client)
  BY <1>1, FieldsOfConnection
<1> HIDE DEF x, sent
<1>4. CASE x.peer = "open"
  <2>1. connections' = [connections EXCEPT ![m_clientFd] = ConnectionOf(sent, x.toClient, "open", x.client)]
    BY <1>2, <1>3, <1>4
  <2>2. OnlyConnection(m_clientFd, ConnectionOf(sent, x.toClient, "open", x.client))
    BY <1>1, <2>1, OneConnection
  <2> QED BY <1>1, <1>4, <2>2 DEF x, sent
<1>5. CASE x.peer # "open"
  <2>1. connections' = [connections EXCEPT ![m_clientFd] = ConnectionOf(x.toServer, x.toClient, "reset", x.client)]
    BY <1>2, <1>3, <1>5
  <2>2. OnlyConnection(m_clientFd, ConnectionOf(x.toServer, x.toClient, "reset", x.client))
    BY <1>1, <2>1, OneConnection
  <2> QED BY <1>1, <1>5, <2>2 DEF x
<1> QED BY <1>4, <1>5

LEMMA MoveToIs ==
  ASSUME Shape, NEW t \in Thread
  PROVE  /\ threads[t] = [at |-> threads[t].at, call |-> threads[t].call, fd |-> threads[t].fd]
         /\ \A at : MoveTo(t, at) => OnlyThread(t, [at |-> at, call |-> threads[t].call, fd |-> threads[t].fd])
         /\ EnterRecv(t) =>
              OnlyThread(t, [at |-> IF m_clientFd = -1 THEN "giveUp" ELSE "receiving",
                             call |-> threads[t].call, fd |-> m_clientFd])
<1> DEFINE x == threads[t]
<1>1. threads = [u \in Thread |-> threads[u]] /\ x = [at |-> x.at, call |-> x.call, fd |-> x.fd]
  BY DEF Shape, IsThread
<1>2. PICK a, c, d : x = [at |-> a, call |-> c, fd |-> d]
  BY <1>1
<1>3. x.at = a /\ x.call = c /\ x.fd = d
  BY <1>2
<1>4. ASSUME NEW at, MoveTo(t, at) PROVE OnlyThread(t, [at |-> at, call |-> c, fd |-> d])
  <2>1. threads' = [threads EXCEPT ![t] = [x EXCEPT !.at = at]]
    BY <1>4 DEF MoveTo
  <2> HIDE DEF x
  <2>2. [x EXCEPT !.at = at] = [at |-> at, call |-> c, fd |-> d]
    BY <1>2
  <2>3. threads' = [threads EXCEPT ![t] = [at |-> at, call |-> c, fd |-> d]]
    BY <2>1, <2>2, Zenon
  <2> QED BY <1>1, <2>3 DEF OnlyThread
<1>5. ASSUME EnterRecv(t)
      PROVE  OnlyThread(t, [at |-> IF m_clientFd = -1 THEN "giveUp" ELSE "receiving", call |-> c, fd |-> m_clientFd])
  <2> DEFINE at == IF m_clientFd = -1 THEN "giveUp" ELSE "receiving"
             mid == [threads EXCEPT ![t].at = at]
  <2>1. threads' = [mid EXCEPT ![t].fd = m_clientFd]
    BY <1>5 DEF EnterRecv
  <2>2. mid = [threads EXCEPT ![t] = [x EXCEPT !.at = at]]
    OBVIOUS
  <2> HIDE DEF x, at, mid
  <2>3. [x EXCEPT !.at = at] = [at |-> at, call |-> c, fd |-> d]
    BY <1>2
  <2>4. mid = [threads EXCEPT ![t] = [at |-> at, call |-> c, fd |-> d]]
    BY <2>2, <2>3, Zenon
  <2>5. mid = [u \in Thread |-> mid[u]] /\ mid[t] = [at |-> at, call |-> c, fd |-> d]
        /\ \A u \in Thread : u # t => mid[u] = threads[u]
    BY <1>1, <2>4
  <2>6. threads'[t] = [mid[t] EXCEPT !.fd = m_clientFd] /\ threads' = [u \in Thread |-> threads'[u]]
        /\ \A u \in Thread : u # t => threads'[u] = mid[u]
    BY <2>1, <2>5
  <2>7. threads'[t] = [at |-> at, call |-> c, fd |-> m_clientFd]
    BY <2>5, <2>6
  <2> QED BY <2>5, <2>6, <2>7 DEF OnlyThread, at
<1> QED BY <1>1, <1>3, <1>4, <1>5, Zenon


-----------------------------------------------------------------------------
(* The shape is kept                                                       *)

\* Nothing is forgotten.
Grows == CallsKept /\ ServedKept /\ DOMAIN connections \subseteq DOMAIN connections'

LEMMA SameConnectionsShape ==
  ASSUME Shape, CallsKept, connections' = connections, m_clientFd' \in {-1, m_clientFd}
  PROVE  ConnectionsShape' /\ DOMAIN connections \subseteq DOMAIN connections'
<1>1. \A x : IsConnection(x, DOMAIN callLog) => IsConnection(x, DOMAIN callLog')
  BY StreamMonotone DEF CallsKept
<1> QED BY <1>1 DEF Shape, ConnectionsShape

LEMMA OneConnectionShape ==
  ASSUME Shape, CallsKept, NEW c \in DOMAIN connections, NEW x, OnlyConnection(c, x),
         IsConnection(x, DOMAIN callLog'), m_clientFd' \in {-1, m_clientFd}
  PROVE  ConnectionsShape' /\ DOMAIN connections \subseteq DOMAIN connections'
<1>1. \A y : IsConnection(y, DOMAIN callLog) => IsConnection(y, DOMAIN callLog')
  BY StreamMonotone DEF CallsKept
<1>2. ASSUME NEW d \in DOMAIN connections' PROVE IsConnection(connections'[d], DOMAIN callLog')
  <2>1. CASE d = c
    BY <2>1 DEF OnlyConnection
  <2>2. CASE d # c
    BY <1>1, <2>2 DEF OnlyConnection, Shape
  <2> QED BY <2>1, <2>2
<1> QED BY <1>2 DEF Shape, ConnectionsShape, OnlyConnection

LEMMA SameThreadsShape ==
  ASSUME Shape, Grows, threads' = threads
  PROVE  ThreadsShape'
BY DEF Shape, ThreadsShape, Grows, CallsKept, IsThread

LEMMA OneThreadShape ==
  ASSUME Shape, Grows, NEW t \in Thread, NEW x, OnlyThread(t, x),
         IsThread(x, DOMAIN callLog', DOMAIN connections')
  PROVE  ThreadsShape'
<1>1. ASSUME NEW u \in Thread PROVE IsThread(threads'[u], DOMAIN callLog', DOMAIN connections')
  <2>1. CASE u = t
    BY <2>1 DEF OnlyThread
  <2>2. CASE u # t
    <3>1. threads'[u] = threads[u] /\ IsThread(threads[u], DOMAIN callLog, DOMAIN connections)
      BY <2>2 DEF OnlyThread, Shape
    <3> QED BY <3>1 DEF IsThread, Grows, CallsKept
  <2> QED BY <2>1, <2>2
<1> QED BY <1>1 DEF ThreadsShape, OnlyThread

LEMMA SameCalls ==
  ASSUME Shape, callLog' = callLog
  PROVE  CallsShape' /\ CallsKept /\ (served' = served => ServedShape' /\ ServedKept)
BY DEF Shape, CallsShape, CallsKept, ServedShape, ServedKept

LEMMA KeptServed ==
  ASSUME Shape, CallsKept, served' = served
  PROVE  ServedShape' /\ ServedKept
BY DEF Shape, CallsKept, ServedShape, ServedKept

LEMMA BeginCallShape ==
  ASSUME Shape, NEW t \in Thread, BeginCall(t)
  PROVE  /\ Shape' /\ Grows
         /\ \E r \in Requests :
              IsAppend(callLog', callLog, [call |-> r, status |-> "on", reply |-> <<>>, from |-> {}])
         /\ OnlyThread(t, [at |-> IF m_clientFd = -1 THEN "connect" ELSE "send", call |-> Len(callLog) + 1, fd |-> -1])
<1>1. PICK r \in Requests :
        /\ callLog' = Append(callLog, [call |-> r, status |-> "on", reply |-> <<>>, from |-> {}])
        /\ threads' = [threads EXCEPT ![t] =
             [at |-> IF m_clientFd = -1 THEN "connect" ELSE "send", call |-> Len(callLog) + 1, fd |-> -1]]
  BY DEF BeginCall
<1> DEFINE x == [call |-> r, status |-> "on", reply |-> <<>>, from |-> {}]
           y == [at |-> IF m_clientFd = -1 THEN "connect" ELSE "send", call |-> Len(callLog) + 1, fd |-> -1]
<1>2. IsCall(x) /\ IsThread(y, 1 .. Len(callLog) + 1, DOMAIN connections)
  <2>1. Len(callLog) \in Nat
    BY SequenceIn DEF Shape
  <2> QED BY <2>1 DEF IsCall, IsThread
<1>3. OnlyThread(t, y)
  BY <1>1 DEF Shape, OnlyThread
<1> HIDE DEF x, y
<1>4. IsAppend(callLog', callLog, x)
  BY <1>1, AppendIs DEF Shape, x
<1>5. CallsKept
  BY <1>4 DEF IsAppend, CallsKept
<1>6. CallsShape'
  <2>1. ASSUME NEW n \in DOMAIN callLog' PROVE IsCall(callLog'[n])
    <3>1. CASE n \in DOMAIN callLog
      BY <1>4, <3>1 DEF IsAppend, Shape
    <3>2. CASE n \notin DOMAIN callLog
      <4>1. n = Len(callLog) + 1
        BY <1>4, <3>2 DEF IsAppend
      <4> QED BY <1>2, <1>4, <4>1 DEF IsAppend
    <3> QED BY <3>1, <3>2
  <2> QED BY <1>4, <2>1 DEF IsAppend, CallsShape
<1>7. connections' = connections /\ m_clientFd' = m_clientFd /\ served' = served /\ cut' = cut
      /\ shared' \in BOOLEAN
  BY DEF BeginCall, Shape
<1>8. ServedShape' /\ ServedKept
  BY <1>5, <1>7, KeptServed
<1>9. ConnectionsShape' /\ Grows
  BY <1>5, <1>7, <1>8, SameConnectionsShape DEF Grows
<1>10. ThreadsShape'
  <2>1. IsThread(y, DOMAIN callLog', DOMAIN connections')
    BY <1>2, <1>4, <1>7 DEF IsAppend
  <2> QED BY <1>3, <1>9, <2>1, OneThreadShape
<1>11. Shape'
  BY <1>6, <1>7, <1>8, <1>9, <1>10 DEF Shape, CallsShape, ServedShape, ConnectionsShape, ThreadsShape
<1> QED BY <1>3, <1>4, <1>9, <1>11 DEF x, y

\* Steps after which the thread is somewhere else, with the call it had.
LEMMA MoveShape ==
  ASSUME Shape, NEW t \in Thread, threads[t].at # "idle", callLog' = callLog, served' = served,
         ConnectionsShape', DOMAIN connections \subseteq DOMAIN connections',
         shared' = shared, cut' = cut, NEW at, NEW fd,
         at \in {"connect", "send", "reconnect", "recv", "receiving", "giveUp"},
         at = "receiving" => fd \in DOMAIN connections',
         OnlyThread(t, [at |-> at, call |-> threads[t].call, fd |-> fd])
  PROVE  Shape' /\ Grows
<1>1. CallsShape' /\ CallsKept /\ ServedShape' /\ ServedKept
  BY SameCalls
<1>2. Grows
  BY <1>1 DEF Grows
<1> DEFINE x == [at |-> at, call |-> threads[t].call, fd |-> fd]
<1>3. threads[t].call \in DOMAIN callLog
  BY DEF Shape, IsThread
<1>4. IsThread(x, DOMAIN callLog', DOMAIN connections')
  BY <1>3 DEF IsThread
<1> HIDE DEF x
<1>5. ThreadsShape'
  BY <1>2, <1>4, OneThreadShape DEF x
<1> QED BY <1>1, <1>2, <1>5 DEF Shape, CallsShape, ServedShape, ConnectionsShape, ThreadsShape

\* Steps after which the thread has returned.
LEMMA ReturnShape ==
  ASSUME Shape, NEW t \in Thread, threads[t].at # "idle", NEW status, NEW reply, NEW from,
         Returns(t, status, reply, from), served' = served, shared' = shared, cut' \in BOOLEAN,
         CallsKept => ConnectionsShape' /\ DOMAIN connections \subseteq DOMAIN connections'
  PROVE  Shape' /\ Grows
<1>1. CallsShape' /\ CallsKept
  BY ReturnsShape
<1>2. ServedShape' /\ ServedKept
  BY <1>1, KeptServed
<1>3. ConnectionsShape' /\ Grows
  BY <1>1, <1>2 DEF Grows
<1>4. OnlyThread(t, IdleThread)
  BY ReturnsShape DEF OnlyThread
<1>5. IsThread(IdleThread, DOMAIN callLog', DOMAIN connections')
  BY DEF IsThread, IdleThread
<1>6. ThreadsShape'
  BY <1>3, <1>4, <1>5, OneThreadShape
<1> QED BY <1>1, <1>2, <1>3, <1>6 DEF Shape, CallsShape, ServedShape, ConnectionsShape, ThreadsShape


LEMMA ClosedConnections ==
  ASSUME Shape, CallsKept, Close
  PROVE  ConnectionsShape' /\ DOMAIN connections \subseteq DOMAIN connections'
<1>1. CASE m_clientFd = -1
  <2>1. connections' = connections /\ m_clientFd' \in {-1, m_clientFd}
    BY <1>1, CloseIs
  <2> QED BY <2>1, SameConnectionsShape
<1>2. CASE m_clientFd # -1
  <2> DEFINE x == connections[m_clientFd]
             y == ConnectionOf(x.toServer, x.toClient, x.peer, "closed")
  <2>1. m_clientFd \in DOMAIN connections /\ OnlyConnection(m_clientFd, y) /\ m_clientFd' \in {-1, m_clientFd}
    BY <1>2, CloseIs
  <2>2. IsConnection(x, DOMAIN callLog) /\ IsConnection(x, DOMAIN callLog')
    BY <2>1, StreamMonotone DEF Shape, CallsKept
  <2>3. IsConnection(y, DOMAIN callLog')
    BY <2>2 DEF IsConnection, ConnectionOf
  <2> HIDE DEF x, y
  <2> QED BY <2>1, <2>3, OneConnectionShape
<1> QED BY <1>1, <1>2

LEMMA ConnectIs ==
  ASSUME Shape, NEW t \in Thread, Connect(t)
  PROVE  /\ IsAppend(connections', connections, NewConnection) /\ m_clientFd' = Len(connections) + 1
         /\ ConnectionsShape' /\ DOMAIN connections \subseteq DOMAIN connections'
<1>1. IsAppend(connections', connections, NewConnection) /\ m_clientFd' = Len(connections) + 1
  BY AppendIs DEF Shape, Connect
<1>2. ASSUME NEW c \in DOMAIN connections' PROVE IsConnection(connections'[c], DOMAIN callLog')
  <2>1. callLog' = callLog
    BY DEF Connect
  <2>2. CASE c \in DOMAIN connections
    BY <1>1, <2>1, <2>2 DEF IsAppend, Shape
  <2>3. CASE c \notin DOMAIN connections
    <3>1. connections'[c] = NewConnection
      BY <1>1, <2>3 DEF IsAppend
    <3> QED BY <3>1, EmptyStream
  <2> QED BY <2>2, <2>3
<1>3. m_clientFd' \in DOMAIN connections'
  BY <1>1 DEF IsAppend
<1> QED BY <1>1, <1>2, <1>3 DEF ConnectionsShape, IsAppend

LEMMA SentConnections ==
  ASSUME Shape, NEW t \in Thread, Send(t)
  PROVE  ConnectionsShape' /\ DOMAIN connections \subseteq DOMAIN connections'
<1> DEFINE x == connections[m_clientFd]
           id == threads[t].call
<1>1. m_clientFd \in DOMAIN connections /\ IsConnection(x, DOMAIN callLog) /\ m_clientFd' \in {-1, m_clientFd}
      /\ callLog' = callLog /\ CallsKept
  BY SendIs DEF Shape, Send, CallsKept
<1>2. id \in DOMAIN callLog /\ callLog[id].call \in Requests
  BY DEF Send, Shape, IsThread, IsCall
<1>3. IsStream(RequestItems(id), DOMAIN callLog)
  BY <1>2, RequestStream, RequestItemsOf
<1> DEFINE sent == x.toServer \o RequestItems(id)
           y == IF x.peer = "open" THEN ConnectionOf(sent, x.toClient, "open", x.client)
                ELSE ConnectionOf(x.toServer, x.toClient, "reset", x.client)
<1>4. OnlyConnection(m_clientFd, y)
  BY SendIs
<1>5. IsStream(sent, DOMAIN callLog)
  BY <1>1, <1>3, ConcatStream DEF IsConnection
<1> HIDE DEF sent, x
<1>6. IsConnection(y, DOMAIN callLog')
  BY <1>1, <1>5 DEF IsConnection, ConnectionOf
<1> HIDE DEF y
<1> QED BY <1>1, <1>4, <1>6, OneConnectionShape

LEMMA ReceiveIs ==
  ASSUME Shape, NEW t \in Thread, Receive(t)
  PROVE  LET c == threads[t].fd  x == connections[c] IN
         /\ c \in DOMAIN connections /\ Incoming(t) = x.toClient
         /\ \E e \in Ends(x.toClient) :
              LET piece == Piece(x.toClient, e[1], e[2])  rest == RestOf(x.toClient, e[1], e[2]) IN
              /\ OnlyConnection(c, ConnectionOf(x.toServer, rest, x.peer, x.client))
              /\ IF Whole(piece)
                 THEN Returns(t, "ok", Parse(ReplyPrototype(t), FieldsOf(piece)), CallsOf(piece))
                 ELSE SetFailed(t)
              /\ cut' = (cut \/ ~IsOneMessage(x.toClient, e))
<1> DEFINE c == threads[t].fd
           x == connections[c]
<1>1. c \in DOMAIN connections /\ Incoming(t) = x.toClient
  BY DEF Receive, Shape, IsThread, Incoming
<1>2. PICK e \in Ends(x.toClient) :
        /\ connections' = [connections EXCEPT ![c].toClient = AfterRecv(@, e)]
        /\ IF Whole(Piece(x.toClient, e[1], e[2]))
           THEN Returns(t, "ok", Parse(ReplyPrototype(t), FieldsOf(Piece(x.toClient, e[1], e[2]))),
                        CallsOf(Piece(x.toClient, e[1], e[2])))
           ELSE SetFailed(t)
        /\ cut' = (cut \/ ~IsOneMessage(x.toClient, e))
  BY <1>1, Zenon DEF Receive
<1> DEFINE rest == RestOf(x.toClient, e[1], e[2])
           y == ConnectionOf(x.toServer, rest, x.peer, x.client)
<1>3. connections' = [connections EXCEPT ![c] = [x EXCEPT !.toClient = AfterRecv(x.toClient, e)]]
  BY <1>2
<1>4. AfterRecv(x.toClient, e) = rest
  BY DEF AfterRecv
<1>5. [x EXCEPT !.toClient = rest] = y
  BY <1>1, FieldsOfConnection
<1>6. OnlyConnection(c, y)
  <2> HIDE DEF c, x, rest, y
  <2>1. connections' = [connections EXCEPT ![c] = y]
    BY <1>3, <1>4, <1>5
  <2> QED BY <1>1, <2>1, OneConnection
<1> QED BY <1>1, <1>2, <1>6

LEMMA ReceivedConnections ==
  ASSUME Shape, CallsKept, NEW t \in Thread, Receive(t)
  PROVE  ConnectionsShape' /\ DOMAIN connections \subseteq DOMAIN connections'
<1> DEFINE c == threads[t].fd
           x == connections[c]
           y(e) == ConnectionOf(x.toServer, RestOf(x.toClient, e[1], e[2]), x.peer, x.client)
<1>1. PICK e \in Ends(x.toClient) : c \in DOMAIN connections /\ OnlyConnection(c, y(e))
  BY ReceiveIs
<1>2. IsConnection(x, DOMAIN callLog) /\ IsConnection(x, DOMAIN callLog') /\ m_clientFd' \in {-1, m_clientFd}
  BY <1>1, StreamMonotone DEF Shape, CallsKept, Receive
<1>3. IsStream(RestOf(x.toClient, e[1], e[2]), DOMAIN callLog')
  BY <1>2, RestStream DEF IsConnection
<1>4. IsConnection(y(e), DOMAIN callLog')
  BY <1>2, <1>3 DEF IsConnection, ConnectionOf
<1> HIDE DEF c, x, y
<1> QED BY <1>1, <1>2, <1>4, OneConnectionShape

LEMMA ThreadStepShape ==
  ASSUME Shape, NEW t \in Thread, ThreadStep(t)
  PROVE  Shape' /\ Grows
<1> DEFINE moved(at) == [at |-> at, call |-> threads[t].call, fd |-> threads[t].fd]
<1>1. \A at : MoveTo(t, at) => OnlyThread(t, moved(at))
  BY MoveToIs
<1>2. connections' = connections /\ callLog' = callLog /\ m_clientFd' = m_clientFd
        => ConnectionsShape' /\ DOMAIN connections \subseteq DOMAIN connections'
  BY SameConnectionsShape, SameCalls
<1>3. CASE Connect(t)
  <2>1. OnlyThread(t, moved("send")) /\ threads[t].at # "idle"
    BY <1>1, <1>3 DEF Connect
  <2>2. callLog' = callLog /\ served' = served /\ shared' = shared /\ cut' = cut
    BY <1>3 DEF Connect
  <2>3. ConnectionsShape' /\ DOMAIN connections \subseteq DOMAIN connections'
    BY <1>3, ConnectIs
  <2> QED BY <2>1, <2>2, <2>3, MoveShape
<1>4. CASE ConnectFails(t)
  <2>1. Returns(t, "failed", <<>>, {}) /\ threads[t].at # "idle"
    BY <1>4 DEF ConnectFails, SetFailed
  <2>2. served' = served /\ shared' = shared /\ cut' \in BOOLEAN /\ connections' = connections
        /\ m_clientFd' \in {-1, m_clientFd}
    BY <1>4 DEF ConnectFails, Shape
  <2>3. CallsKept => ConnectionsShape' /\ DOMAIN connections \subseteq DOMAIN connections'
    BY <2>2, SameConnectionsShape
  <2> QED BY <2>1, <2>2, <2>3, ReturnShape
<1>5. CASE Send(t)
  <2>1. OnlyThread(t, moved("recv")) /\ threads[t].at # "idle"
    BY <1>1, <1>5 DEF Send
  <2>2. callLog' = callLog /\ served' = served /\ shared' = shared /\ cut' = cut
    BY <1>5 DEF Send
  <2>3. ConnectionsShape' /\ DOMAIN connections \subseteq DOMAIN connections'
    BY <1>5, SentConnections
  <2> QED BY <2>1, <2>2, <2>3, MoveShape
<1>6. CASE SendFails(t)
  <2>1. OnlyThread(t, moved("reconnect")) /\ threads[t].at # "idle"
    BY <1>1, <1>6 DEF SendFails
  <2>2. callLog' = callLog /\ served' = served /\ shared' = shared /\ cut' = cut
        /\ connections' = connections /\ m_clientFd' = m_clientFd
    BY <1>6 DEF SendFails
  <2> QED BY <1>2, <2>1, <2>2, MoveShape
<1>7. CASE CloseToReconnect(t)
  <2>1. OnlyThread(t, moved("connect")) /\ threads[t].at # "idle"
    BY <1>1, <1>7 DEF CloseToReconnect
  <2>2. callLog' = callLog /\ served' = served /\ shared' = shared /\ cut' = cut /\ Close
    BY <1>7 DEF CloseToReconnect
  <2>3. ConnectionsShape' /\ DOMAIN connections \subseteq DOMAIN connections'
    BY <2>2, ClosedConnections, SameCalls
  <2> QED BY <2>1, <2>2, <2>3, MoveShape
<1>8. CASE EnterRecv(t)
  <2> DEFINE at == IF m_clientFd = -1 THEN "giveUp" ELSE "receiving"
  <2>1. OnlyThread(t, [at |-> at, call |-> threads[t].call, fd |-> m_clientFd]) /\ threads[t].at # "idle"
    BY <1>8, MoveToIs DEF EnterRecv
  <2>2. callLog' = callLog /\ served' = served /\ shared' = shared /\ cut' = cut
        /\ connections' = connections /\ m_clientFd' = m_clientFd
    BY <1>8 DEF EnterRecv
  <2>3. at \in {"connect", "send", "reconnect", "recv", "receiving", "giveUp"}
        /\ (at = "receiving" => m_clientFd \in DOMAIN connections')
    BY <2>2 DEF Shape
  <2> HIDE DEF at
  <2> QED BY <1>2, <2>1, <2>2, <2>3, MoveShape
<1>9. CASE Receive(t)
  <2>1. threads[t].at # "idle" /\ served' = served /\ shared' = shared
    BY <1>9 DEF Receive
  <2>2. cut' \in BOOLEAN
    BY <1>9, ReceiveIs
  <2>3. CallsKept => ConnectionsShape' /\ DOMAIN connections \subseteq DOMAIN connections'
    BY <1>9, ReceivedConnections
  <2>4. \E status, reply, from : Returns(t, status, reply, from)
    BY <1>9, ReceiveIs DEF SetFailed
  <2> QED BY <2>1, <2>2, <2>3, <2>4, ReturnShape
<1>10. CASE ReceiveEnd(t)
  <2>1. Returns(t, "ok", Parse(ReplyPrototype(t), <<>>), {}) /\ threads[t].at # "idle"
    BY <1>10 DEF ReceiveEnd
  <2>2. served' = served /\ shared' = shared /\ cut' \in BOOLEAN /\ connections' = connections
        /\ m_clientFd' \in {-1, m_clientFd}
    BY <1>10 DEF ReceiveEnd, Shape
  <2>3. CallsKept => ConnectionsShape' /\ DOMAIN connections \subseteq DOMAIN connections'
    BY <2>2, SameConnectionsShape
  <2> QED BY <2>1, <2>2, <2>3, ReturnShape
<1>11. CASE ReceiveFails(t)
  <2>1. OnlyThread(t, moved("giveUp")) /\ threads[t].at # "idle"
    BY <1>1, <1>11 DEF ReceiveFails
  <2>2. callLog' = callLog /\ served' = served /\ shared' = shared /\ cut' = cut
        /\ connections' = connections /\ m_clientFd' = m_clientFd
    BY <1>11 DEF ReceiveFails
  <2> QED BY <1>2, <2>1, <2>2, MoveShape
<1>12. CASE CloseToFail(t)
  <2>1. Returns(t, "failed", <<>>, {}) /\ threads[t].at # "idle" /\ Close
    BY <1>12 DEF CloseToFail, SetFailed
  <2>2. served' = served /\ shared' = shared /\ cut' \in BOOLEAN
    BY <1>12 DEF CloseToFail, Shape
  <2>3. CallsKept => ConnectionsShape' /\ DOMAIN connections \subseteq DOMAIN connections'
    BY <2>1, ClosedConnections
  <2> QED BY <2>1, <2>2, <2>3, ReturnShape
<1> QED BY <1>3, <1>4, <1>5, <1>6, <1>7, <1>8, <1>9, <1>10, <1>11, <1>12 DEF ThreadStep



-----------------------------------------------------------------------------
(* What the steps of the peer do                                           *)

HeaderIn(piece) == Parse(HeaderPrototype, FieldsOf(HeaderOf(piece)))
ArgsIn(piece) == ArgsOf(piece, HeaderIn(piece))

IsHandled(piece) ==
  /\ piece[1].part = "size" /\ Whole(HeaderOf(piece))
  /\ HasMethod(HeaderIn(piece)) /\ ArgsComplete(ArgsIn(piece), HeaderIn(piece))

\* What is recorded of a piece that a service method is called for, and the reply.
ServedFor(piece, response) ==
  LET header == HeaderIn(piece) IN
  [of |-> piece[1].of, service |-> header.service_name, method |-> header.method_name,
   request |-> Parse(GetRequestPrototype(header.service_name, header.method_name), FieldsOf(ArgsIn(piece))),
   response |-> response]

ReplyFor(piece, response) ==
  LET header == HeaderIn(piece) IN
  Items(piece[1].of, "reply", Serialize(GetResponsePrototype(header.service_name, header.method_name), response))

\* The peer takes a piece of connection c, which ends at e.
Handles(c, e) ==
  LET x == connections[c]
      piece == Piece(x.toServer, e[1], e[2])
      rest == RestOf(x.toServer, e[1], e[2])
  IN /\ x.peer = "open" /\ cut' = (cut \/ ~IsOneMessage(x.toServer, e))
     /\ m_clientFd' = m_clientFd /\ threads' = threads /\ callLog' = callLog /\ shared' = shared
     /\ ~IsHandled(piece) =>
          served' = served /\ OnlyConnection(c, ConnectionOf(rest, x.toClient, x.peer, x.client))
     /\ IsHandled(piece) =>
          \E response \in Response(HeaderIn(piece).service_name, HeaderIn(piece).method_name) :
            /\ IsAppend(served', served, ServedFor(piece, response))
            /\ OnlyConnection(c, ConnectionOf(rest, x.toClient \o ReplyFor(piece, response), x.peer, x.client))

LEMMA ProviderIs ==
  ASSUME Shape, NEW c \in DOMAIN connections, ProviderStep(c)
  PROVE  \E e \in Ends(connections[c].toServer) : Handles(c, e)
<1> DEFINE x == connections[c]
<1>1. PICK e \in Ends(x.toServer) :
        /\ x.peer = "open"
        /\ OnMessage(c, Piece(x.toServer, e[1], e[2]), RestOf(x.toServer, e[1], e[2]))
        /\ cut' = (cut \/ ~IsOneMessage(x.toServer, e))
        /\ UNCHANGED <<m_clientFd, threads, callLog, shared>>
  BY DEF ProviderStep
<1> DEFINE piece == Piece(x.toServer, e[1], e[2])
           rest == RestOf(x.toServer, e[1], e[2])
<1>2. x.toClient \o <<>> = x.toClient
  <2>1. IsSequence(x.toClient) /\ IsSequence(<<>>)
    BY EmptyStream DEF Shape, IsConnection, IsStream
  <2> QED BY <2>1, ConcatIs
<1>3. ASSUME ~IsHandled(piece)
      PROVE  served' = served /\ OnlyConnection(c, ConnectionOf(rest, x.toClient, x.peer, x.client))
  <2>1. Ignore(c, rest)
    BY <1>1, <1>3 DEF OnMessage, IsHandled, HeaderIn, ArgsIn
  <2>2. Respond(c, rest, <<>>) /\ served' = served
    BY <2>1 DEF Ignore
  <2>3. OnlyConnection(c, ConnectionOf(rest, x.toClient \o <<>>, x.peer, x.client))
    BY <2>2, RespondIs
  <2> QED BY <1>2, <2>2, <2>3
<1>4. ASSUME IsHandled(piece)
      PROVE  \E response \in Response(HeaderIn(piece).service_name, HeaderIn(piece).method_name) :
               /\ IsAppend(served', served, ServedFor(piece, response))
               /\ OnlyConnection(c, ConnectionOf(rest, x.toClient \o ReplyFor(piece, response), x.peer, x.client))
  <2>1. CallService(c, piece[1].of, rest, HeaderIn(piece), ArgsIn(piece))
    BY <1>1, <1>4 DEF OnMessage, IsHandled, HeaderIn, ArgsIn
  <2>2. PICK response \in Response(HeaderIn(piece).service_name, HeaderIn(piece).method_name) :
          served' = Append(served, ServedFor(piece, response)) /\ Respond(c, rest, ReplyFor(piece, response))
    BY <2>1 DEF CallService, ServedFor, ReplyFor
  <2>3. OnlyConnection(c, ConnectionOf(rest, x.toClient \o ReplyFor(piece, response), x.peer, x.client))
    BY <2>2, RespondIs
  <2>4. IsAppend(served', served, ServedFor(piece, response))
    BY <2>2, AppendIs DEF Shape
  <2> QED BY <2>3, <2>4
<1> QED BY <1>1, <1>3, <1>4 DEF Handles

LEMMA PeerClosesIs ==
  ASSUME Shape, NEW c \in DOMAIN connections, PeerCloses(c)
  PROVE  LET x == connections[c] IN
         /\ x.peer = "open"
         /\ \/ OnlyConnection(c, ConnectionOf(<<>>, x.toClient, "closed", x.client))
            \/ OnlyConnection(c, ConnectionOf(<<>>, <<>>, "reset", x.client))
<1> DEFINE x == connections[c]
           y == ConnectionOf(x.toServer, x.toClient, "closed", x.client)
           z == ConnectionOf(<<>>, x.toClient, "closed", x.client)
           w == ConnectionOf(<<>>, <<>>, "reset", x.client)
           mid == [connections EXCEPT ![c].peer = "closed"]
<1>1. ASSUME connections' = [connections EXCEPT ![c].peer = "closed", ![c].toServer = <<>>]
      PROVE  OnlyConnection(c, z)
  <2>1. connections' = [mid EXCEPT ![c].toServer = <<>>]
    BY <1>1
  <2>2. mid = [connections EXCEPT ![c] = [x EXCEPT !.peer = "closed"]]
    OBVIOUS
  <2>3. [x EXCEPT !.peer = "closed"] = y
    BY FieldsOfConnection
  <2>4. [y EXCEPT !.toServer = <<>>] = z
    BY DEF ConnectionOf
  <2> HIDE DEF mid, x, y, z
  <2>5. mid = [connections EXCEPT ![c] = y]
    BY <2>2, <2>3
  <2>6. mid[c] = y
    BY <2>5
  <2>7. connections' = [mid EXCEPT ![c] = z]
    BY <2>1, <2>4, <2>6
  <2>8. connections' = [connections EXCEPT ![c] = z]
    BY <2>5, <2>7
  <2> QED BY <2>8, OneConnection
<1>2. ASSUME connections' = [connections EXCEPT
               ![c] = [@ EXCEPT !.peer = "reset", !.toServer = <<>>, !.toClient = <<>>]]
      PROVE  OnlyConnection(c, w)
  <2>1. connections' = [connections EXCEPT ![c] = [x EXCEPT !.peer = "reset", !.toServer = <<>>, !.toClient = <<>>]]
    BY <1>2
  <2>2. [x EXCEPT !.peer = "reset", !.toServer = <<>>, !.toClient = <<>>] = w
    <3>1. \A u, v, i : [x EXCEPT !.peer = u, !.toServer = v, !.toClient = i] = ConnectionOf(v, i, u, x.client)
      BY FieldsOfConnection
    <3> QED BY <3>1, Zenon
  <2> HIDE DEF x, w
  <2>3. connections' = [connections EXCEPT ![c] = w]
    BY <2>1, <2>2
  <2> QED BY <2>3, OneConnection
<1> QED BY <1>1, <1>2 DEF PeerCloses

\* The first item of a piece is the first of the stream, unless the piece ends inside it.
LEMMA FirstOfPiece ==
  ASSUME NEW s, IsSequence(s), NEW e \in Ends(s)
  PROVE  LET piece == Piece(s, e[1], e[2]) IN
         /\ 1 \in DOMAIN s /\ (IsItem(s[1]) => piece[1].of = s[1].of)
         /\ piece[1].part = "size" /\ IsItem(s[1]) => e[1] >= 1 /\ piece[1] = s[1]
<1> DEFINE piece == Piece(s, e[1], e[2])
           rest == RestOf(s, e[1], e[2])
<1>1. IsSplit(s, e, piece, rest)
  BY PieceIs
<1> HIDE DEF piece, rest
<1>2. CASE e[1] >= 1
  <2>1. piece[1] = s[1] /\ 1 \in DOMAIN s
    BY <1>1, <1>2 DEF IsSplit
  <2> QED BY <1>1, <1>2, <2>1 DEF IsSplit, piece
<1>3. CASE ~(e[1] >= 1)
  <2>1. e[1] = 0 /\ e[2] /\ 1 \in DOMAIN s
    BY <1>1, <1>3 DEF IsSplit
  <2>2. piece[1] = Broken(s[1])
    BY <1>1, <2>1 DEF IsSplit
  <2>3. IsItem(s[1]) => piece[1].of = s[1].of /\ piece[1].part = "broken"
    BY <2>2 DEF Broken, IsItem
  <2> QED BY <2>1, <2>3 DEF piece
<1> QED BY <1>2, <1>3


\* A reply is of the call whose size the piece begins with, and of the class of the method.
LEMMA ReplyIs ==
  ASSUME NEW piece, IsHandled(piece),
         NEW response \in Response(HeaderIn(piece).service_name, HeaderIn(piece).method_name)
  PROVE  LET service == HeaderIn(piece).service_name  method == HeaderIn(piece).method_name IN
         /\ service \in DOMAIN Services /\ method \in Services[service]
         /\ IsMessage(GetResponsePrototype(service, method), response)
         /\ \A ids : piece[1].of \in ids => IsStream(ReplyFor(piece, response), ids)
         /\ \A k \in DOMAIN ReplyFor(piece, response) :
              WireTyped(ReplyFor(piece, response)[k].field) /\ ReplyFor(piece, response)[k].of = piece[1].of
<1> DEFINE service == HeaderIn(piece).service_name
           method == HeaderIn(piece).method_name
           proto == GetResponsePrototype(service, method)
           fields == Serialize(proto, response)
           id == piece[1].of
<1>1. service \in DOMAIN Services /\ method \in Services[service]
  BY DEF IsHandled, HasMethod, m_serviceMap
<1>2. IsMessage(proto, response)
  BY <1>1, MessagesAssumption
<1>3. IsSequence(fields) /\ \A k \in DOMAIN fields : WireTyped(fields[k])
  BY <1>1, <1>2, ResponseTyped
<1>4. ReplyFor(piece, response) = Items(id, "reply", fields)
  BY DEF ReplyFor
<1> HIDE DEF fields, proto, id
<1>5. \A ids : id \in ids => IsStream(ReplyFor(piece, response), ids)
  BY <1>3, <1>4, ReplyStream
<1>6. /\ DOMAIN Items(id, "reply", fields) = 1 .. Len(fields) /\ DOMAIN fields = 1 .. Len(fields)
      /\ \A k \in 1 .. Len(fields) : Items(id, "reply", fields)[k] = Item(id, "reply", fields[k])
  BY <1>3, ItemsAre, SequenceIn
<1>7. \A k \in DOMAIN ReplyFor(piece, response) :
        WireTyped(ReplyFor(piece, response)[k].field) /\ ReplyFor(piece, response)[k].of = id
  <2>1. ASSUME NEW k \in 1 .. Len(fields)
        PROVE  WireTyped(Items(id, "reply", fields)[k].field) /\ Items(id, "reply", fields)[k].of = id
    <3>1. Items(id, "reply", fields)[k] = Item(id, "reply", fields[k]) /\ WireTyped(fields[k])
      BY <1>3, <1>6
    <3> QED BY <3>1 DEF Item
  <2> QED BY <1>4, <1>6, <2>1
<1> QED BY <1>1, <1>2, <1>5, <1>7 DEF proto, id

LEMMA ProviderShape ==
  ASSUME Shape, NEW c \in DOMAIN connections, NEW e \in Ends(connections[c].toServer), Handles(c, e)
  PROVE  Shape' /\ Grows
<1> DEFINE x == connections[c]
           piece == Piece(x.toServer, e[1], e[2])
           rest == RestOf(x.toServer, e[1], e[2])
           ids == DOMAIN callLog
<1>1. /\ m_clientFd' = m_clientFd /\ threads' = threads /\ callLog' = callLog /\ shared' = shared
      /\ cut' = (cut \/ ~IsOneMessage(x.toServer, e))
  BY DEF Handles
<1>2. CallsShape' /\ CallsKept /\ shared' \in BOOLEAN /\ cut' \in BOOLEAN
  BY <1>1, SameCalls DEF Shape
<1>3. /\ x = ConnectionOf(x.toServer, x.toClient, x.peer, x.client)
      /\ IsStream(x.toServer, ids) /\ IsStream(x.toClient, ids) /\ IsStream(rest, ids)
      /\ x.peer \in {"open", "closed", "reset"} /\ x.client \in {"open", "closed"}
  <2>1. IsConnection(x, ids)
    BY DEF Shape
  <2>2. IsStream(x.toServer, ids)
    BY <2>1 DEF IsConnection
  <2>3. IsStream(rest, ids)
    BY <2>2, RestStream
  <2> QED BY <2>1, <2>3 DEF IsConnection, ConnectionOf
<1>4. \A s : IsStream(s, ids) => IsConnection(ConnectionOf(rest, s, x.peer, x.client), DOMAIN callLog')
  BY <1>1, <1>3 DEF IsConnection, ConnectionOf
<1>5. ASSUME NEW s, IsStream(s, ids), OnlyConnection(c, ConnectionOf(rest, s, x.peer, x.client))
      PROVE  ConnectionsShape' /\ DOMAIN connections \subseteq DOMAIN connections'
  <2>1. IsConnection(ConnectionOf(rest, s, x.peer, x.client), DOMAIN callLog')
    BY <1>4, <1>5
  <2>2. m_clientFd' \in {-1, m_clientFd}
    BY <1>1
  <2> QED BY <1>2, <1>5, <2>1, <2>2, OneConnectionShape
<1>6. ConnectionsShape' /\ DOMAIN connections \subseteq DOMAIN connections' /\ ServedShape' /\ ServedKept
  <2>1. CASE IsHandled(piece)
    <3>1. PICK response \in Response(HeaderIn(piece).service_name, HeaderIn(piece).method_name) :
            /\ IsAppend(served', served, ServedFor(piece, response))
            /\ OnlyConnection(c, ConnectionOf(rest, x.toClient \o ReplyFor(piece, response), x.peer, x.client))
      BY <2>1 DEF Handles
    <3>2. piece[1].of \in ids
      <4>1. IsSequence(x.toServer)
        BY <1>3 DEF IsStream
      <4>2. 1 \in DOMAIN x.toServer /\ (IsItem(x.toServer[1]) => piece[1].of = x.toServer[1].of)
        BY <4>1, FirstOfPiece
      <4> QED BY <1>3, <4>2 DEF IsStream
    <3>3. IsStream(x.toClient \o ReplyFor(piece, response), ids)
      BY <1>3, <2>1, <3>2, ReplyIs, ConcatStream
    <3>4. ConnectionsShape' /\ DOMAIN connections \subseteq DOMAIN connections'
      BY <1>5, <3>1, <3>3
    <3>5. ServedFor(piece, response).of = piece[1].of
      BY DEF ServedFor
    <3> HIDE DEF piece
    <3>6. ServedShape' /\ ServedKept
      <4>1. ASSUME NEW n \in DOMAIN served' PROVE served'[n].of \in ids
        <5>1. n \in DOMAIN served \/ n = Len(served) + 1
          BY <3>1 DEF IsAppend
        <5> QED BY <3>1, <3>2, <3>5, <5>1 DEF IsAppend, Shape
      <4> QED BY <1>1, <3>1, <4>1 DEF ServedShape, ServedKept, IsAppend
    <3> QED BY <3>4, <3>6
  <2>2. CASE ~IsHandled(piece)
    <3>1. served' = served /\ OnlyConnection(c, ConnectionOf(rest, x.toClient, x.peer, x.client))
      BY <2>2 DEF Handles
    <3>2. ServedShape' /\ ServedKept
      BY <1>2, <3>1, KeptServed
    <3>3. ConnectionsShape' /\ DOMAIN connections \subseteq DOMAIN connections'
      BY <1>3, <1>5, <3>1
    <3> QED BY <3>2, <3>3
  <2> QED BY <2>1, <2>2
<1>7. Grows
  BY <1>2, <1>6 DEF Grows
<1>8. ThreadsShape'
  BY <1>1, <1>7, SameThreadsShape
<1> QED BY <1>2, <1>6, <1>7, <1>8 DEF Shape, CallsShape, ServedShape, ConnectionsShape, ThreadsShape

LEMMA PeerClosesShape ==
  ASSUME Shape, NEW c \in DOMAIN connections, PeerCloses(c)
  PROVE  Shape' /\ Grows
<1> DEFINE x == connections[c]
           y == ConnectionOf(<<>>, x.toClient, "closed", x.client)
           z == ConnectionOf(<<>>, <<>>, "reset", x.client)
<1>1. /\ m_clientFd' = m_clientFd /\ threads' = threads /\ callLog' = callLog /\ shared' = shared
      /\ cut' = cut /\ served' = served
  BY DEF PeerCloses
<1>2. CallsShape' /\ CallsKept /\ ServedShape' /\ ServedKept
  BY <1>1, SameCalls
<1>3. IsConnection(y, DOMAIN callLog') /\ IsConnection(z, DOMAIN callLog')
  <2>1. IsConnection(x, DOMAIN callLog')
    BY <1>1 DEF Shape
  <2> QED BY <2>1, EmptyStream DEF IsConnection, ConnectionOf
<1>4. OnlyConnection(c, y) \/ OnlyConnection(c, z)
  BY PeerClosesIs
<1>5. m_clientFd' \in {-1, m_clientFd}
  BY <1>1
<1> HIDE DEF y, z
<1>6. ConnectionsShape' /\ DOMAIN connections \subseteq DOMAIN connections'
  <2>1. CASE OnlyConnection(c, y)
    BY <1>2, <1>3, <1>5, <2>1, OneConnectionShape
  <2>2. CASE OnlyConnection(c, z)
    BY <1>2, <1>3, <1>5, <2>2, OneConnectionShape
  <2> QED BY <1>4, <2>1, <2>2
<1>7. Grows
  BY <1>2, <1>6 DEF Grows
<1>8. ThreadsShape'
  BY <1>1, <1>7, SameThreadsShape
<1>9. shared' \in BOOLEAN /\ cut' \in BOOLEAN
  BY <1>1 DEF Shape
<1> QED BY <1>2, <1>6, <1>7, <1>8, <1>9 DEF Shape, CallsShape, ServedShape, ConnectionsShape, ThreadsShape

LEMMA NextShape ==
  ASSUME Shape, Next
  PROVE  Shape' /\ Grows
<1>1. ASSUME NEW t \in Thread, BeginCall(t) PROVE Shape' /\ Grows
  BY <1>1, BeginCallShape
<1>2. ASSUME NEW t \in Thread, ThreadStep(t) PROVE Shape' /\ Grows
  BY <1>2, ThreadStepShape
<1>3. ASSUME NEW c \in DOMAIN connections, ProviderStep(c) PROVE Shape' /\ Grows
  BY <1>3, ProviderIs, ProviderShape
<1>4. ASSUME NEW c \in DOMAIN connections, PeerCloses(c) PROVE Shape' /\ Grows
  BY <1>4, PeerClosesShape
<1> QED BY <1>1, <1>2, <1>3, <1>4 DEF Next


-----------------------------------------------------------------------------
(* Requests stay whole                                                     *)

LEMMA StartsAtConcat ==
  ASSUME NEW s, IsSequence(s), NEW t, NEW st, IsConcat(st, s, t), Len(t) \in Nat,
         NEW request, IsSequence(request), NEW k \in DOMAIN s, StartsAt(s, k, request)
  PROVE  StartsAt(st, k, request)
<1>1. /\ Len(s) \in Nat /\ DOMAIN s = 1 .. Len(s)
      /\ Len(request) \in Nat /\ DOMAIN request = 1 .. Len(request)
  BY SequenceIn
<1>2. \A j \in DOMAIN request : k + j - 1 \in DOMAIN s
  BY <1>1 DEF StartsAt
<1>3. \A j \in DOMAIN request : st[k + j - 1] = request[j]
  BY <1>2 DEF StartsAt, IsConcat
<1>4. k + Len(request) <= Len(st) + 1
  BY <1>1 DEF StartsAt, IsConcat
<1> QED BY <1>3, <1>4 DEF StartsAt

LEMMA StartsAtEnd ==
  ASSUME NEW s, IsSequence(s), NEW request, IsSequence(request), NEW st, IsConcat(st, s, request)
  PROVE  StartsAt(st, Len(s) + 1, request)
<1> DEFINE n == Len(s)
           i(j) == n + 1 + j - 1
<1>1. n \in Nat /\ Len(request) \in Nat /\ DOMAIN request = 1 .. Len(request) /\ Len(st) = n + Len(request)
  BY SequenceIn DEF IsConcat
<1>2. \A j \in DOMAIN request : st[n + j] = request[j]
  BY DEF IsConcat
<1> HIDE DEF n
<1>3. \A j \in DOMAIN request : i(j) = n + j
  BY <1>1
<1>4. \A j \in DOMAIN request : st[i(j)] = request[j]
  BY <1>2, <1>3
<1>5. n + 1 + Len(request) <= Len(st) + 1
  BY <1>1
<1> QED BY <1>4, <1>5 DEF StartsAt, n

LEMMA StartsAtRest ==
  ASSUME NEW s, NEW e, NEW piece, NEW rest, IsSplit(s, e, piece, rest),
         NEW request, IsSequence(request), NEW k \in DOMAIN rest, k > 1 \/ ~e[2],
         StartsAt(s, e[1] + k, request)
  PROVE  StartsAt(rest, k, request)
<1> DEFINE n == e[1]
<1>1. /\ Len(request) \in Nat /\ DOMAIN request = 1 .. Len(request)
      /\ DOMAIN rest = 1 .. Len(rest) /\ Len(rest) \in Nat /\ Len(rest) = Len(s) - n
      /\ n \in 0 .. Len(s) /\ Len(s) \in Nat
  <2>1. IsSequence(rest)
    BY DEF IsSplit
  <2> QED BY <2>1, SequenceIn DEF IsSplit
<1>2. n + k + Len(request) <= Len(s) + 1 /\ \A j \in DOMAIN request : s[n + k + j - 1] = request[j]
  BY DEF StartsAt
<1>3. \A i \in DOMAIN rest : i > 1 \/ ~e[2] => rest[i] = s[n + i]
  BY DEF IsSplit
<1> HIDE DEF n
<1>4. ASSUME NEW j \in DOMAIN request PROVE rest[k + j - 1] = request[j]
  <2> DEFINE i == k + j - 1
  <2>1. i \in DOMAIN rest /\ (i > 1 \/ ~e[2]) /\ n + i = n + k + j - 1
    BY <1>1, <1>2
  <2> HIDE DEF i
  <2>2. rest[i] = s[n + i]
    BY <1>3, <2>1
  <2>3. rest[i] = request[j]
    BY <1>2, <2>1, <2>2
  <2> QED BY <2>3 DEF i
<1>5. k + Len(request) <= Len(rest) + 1
  BY <1>1, <1>2
<1> QED BY <1>4, <1>5 DEF StartsAt

\* Steps that send no request and handle none.
KeepsRequests ==
  /\ served' = served
  /\ \A c \in DOMAIN connections' :
       \/ c \in DOMAIN connections /\ connections'[c].toServer = connections[c].toServer
       \/ connections'[c].toServer = <<>>

\* Steps after which no thread has another call, or has to send it once more.
KeepsThreads ==
  \A t \in Thread :
    /\ IsBusy(t)' => IsBusy(t) /\ threads'[t].call = threads[t].call
    /\ IsSending(t)' => IsSending(t)

SendsRequest(t) ==
  LET x == connections[m_clientFd] IN
  /\ IsSending(t) /\ ~IsSending(t)' /\ KeepsThreads /\ served' = served
  /\ m_clientFd \in DOMAIN connections
  /\ OnlyConnection(m_clientFd, ConnectionOf(x.toServer \o RequestItems(threads[t].call), x.toClient, x.peer, x.client))

LEMMA KeptConnections ==
  ASSUME Shape, served' = served
  PROVE  /\ connections' = connections => KeepsRequests
         /\ IsAppend(connections', connections, NewConnection) => KeepsRequests
         /\ \A c \in DOMAIN connections : \A a, b, p, q :
              OnlyConnection(c, ConnectionOf(a, b, p, q)) /\ a \in {<<>>, connections[c].toServer} => KeepsRequests
<1>1. connections' = connections => KeepsRequests
  BY DEF KeepsRequests
<1>2. ASSUME IsAppend(connections', connections, NewConnection) PROVE KeepsRequests
  <2>1. \A c \in DOMAIN connections' : c \in DOMAIN connections \/ c = Len(connections) + 1
    BY <1>2 DEF IsAppend
  <2>2. NewConnection.toServer = <<>>
    BY DEF NewConnection
  <2> QED BY <1>2, <2>1, <2>2 DEF IsAppend, KeepsRequests
<1>3. ASSUME NEW c \in DOMAIN connections, NEW a, NEW b, NEW p, NEW q,
             OnlyConnection(c, ConnectionOf(a, b, p, q)), a \in {<<>>, connections[c].toServer}
      PROVE  KeepsRequests
  <2>1. connections'[c].toServer = a
    BY <1>3 DEF OnlyConnection, ConnectionOf
  <2> QED BY <1>3, <2>1 DEF OnlyConnection, KeepsRequests
<1> QED BY <1>1, <1>2, <1>3

LEMMA KeptThreads ==
  ASSUME Shape
  PROVE  /\ threads' = threads => KeepsThreads
         /\ \A t \in Thread : OnlyThread(t, IdleThread) => KeepsThreads
         /\ \A t \in Thread : \A at, fd :
              /\ OnlyThread(t, [at |-> at, call |-> threads[t].call, fd |-> fd])
              /\ threads[t].at # "idle"
              /\ at \in {"connect", "send", "reconnect"} => IsSending(t)
              => KeepsThreads
<1>1. threads' = threads => KeepsThreads
  BY DEF KeepsThreads, IsBusy, IsSending
<1>2. ASSUME NEW t \in Thread, OnlyThread(t, IdleThread) PROVE KeepsThreads
  BY <1>2 DEF KeepsThreads, IsBusy, IsSending, OnlyThread, IdleThread
<1>3. ASSUME NEW t \in Thread, NEW at, NEW fd, OnlyThread(t, [at |-> at, call |-> threads[t].call, fd |-> fd]),
             threads[t].at # "idle", at \in {"connect", "send", "reconnect"} => IsSending(t)
      PROVE  KeepsThreads
  <2>1. ASSUME NEW u \in Thread
        PROVE  (IsBusy(u)' => IsBusy(u) /\ threads'[u].call = threads[u].call) /\ (IsSending(u)' => IsSending(u))
    <3>1. CASE u = t
      <4>1. threads'[u].at = at /\ threads'[u].call = threads[u].call
        BY <1>3, <3>1 DEF OnlyThread
      <4> QED BY <1>3, <3>1, <4>1 DEF IsBusy, IsSending
    <3>2. CASE u # t
      BY <1>3, <3>2 DEF OnlyThread, IsBusy, IsSending
    <3> QED BY <3>1, <3>2
  <2> QED BY <2>1 DEF KeepsThreads
<1> QED BY <1>1, <1>2, <1>3


LEMMA RequestSteps ==
  ASSUME Shape, Next
  PROVE  \/ KeepsRequests /\ (KeepsThreads \/ \E t \in Thread : BeginCall(t))
         \/ \E t \in Thread : SendsRequest(t)
         \/ \E c \in DOMAIN connections : \E e \in Ends(connections[c].toServer) : Handles(c, e) /\ KeepsThreads
<1> DEFINE moved(t, at) == [at |-> at, call |-> threads[t].call, fd |-> threads[t].fd]
<1>1. /\ connections' = connections /\ served' = served => KeepsRequests
      /\ threads' = threads => KeepsThreads
  BY KeptConnections, KeptThreads
<1>2. \A t \in Thread : \A at : MoveTo(t, at) => OnlyThread(t, moved(t, at))
  BY MoveToIs
<1>3. ASSUME NEW t \in Thread, NEW at, OnlyThread(t, moved(t, at)), threads[t].at # "idle",
             at \in {"connect", "send", "reconnect"} => IsSending(t)
      PROVE  KeepsThreads
  BY <1>3, KeptThreads
<1>4. ASSUME NEW t \in Thread, threads[t].at # "idle", NEW status, NEW reply, NEW from, Returns(t, status, reply, from)
      PROVE  KeepsThreads
  <2>1. OnlyThread(t, IdleThread)
    BY <1>4, ReturnsShape DEF OnlyThread
  <2> QED BY <2>1, KeptThreads
<1>5. ASSUME Close, served' = served PROVE KeepsRequests
  <2>1. CASE m_clientFd = -1
    BY <1>1, <1>5, <2>1, CloseIs
  <2>2. CASE m_clientFd # -1
    BY <1>5, <2>2, CloseIs, KeptConnections
  <2> QED BY <2>1, <2>2
<1>6. ASSUME NEW t \in Thread, BeginCall(t) PROVE KeepsRequests
  BY <1>1, <1>6 DEF BeginCall
<1>7. ASSUME NEW t \in Thread, ThreadStep(t), ~Send(t) PROVE KeepsRequests /\ KeepsThreads
  <2> HIDE DEF moved
  <2>1. CASE Connect(t)
    <3>1. KeepsRequests
      BY <2>1, ConnectIs, KeptConnections DEF Connect
    <3>2. OnlyThread(t, moved(t, "send")) /\ threads[t].at # "idle" /\ IsSending(t)
      BY <1>2, <2>1 DEF Connect, IsSending
    <3> QED BY <1>3, <3>1, <3>2
  <2>2. CASE ConnectFails(t)
    <3>1. KeepsRequests
      BY <1>1, <2>2 DEF ConnectFails
    <3>2. Returns(t, "failed", <<>>, {}) /\ threads[t].at # "idle"
      BY <2>2 DEF ConnectFails, SetFailed
    <3> QED BY <1>4, <3>1, <3>2
  <2>3. CASE SendFails(t)
    <3>1. KeepsRequests
      BY <1>1, <2>3 DEF SendFails
    <3>2. OnlyThread(t, moved(t, "reconnect")) /\ threads[t].at # "idle" /\ IsSending(t)
      BY <1>2, <2>3 DEF SendFails, IsSending
    <3> QED BY <1>3, <3>1, <3>2
  <2>4. CASE CloseToReconnect(t)
    <3>1. KeepsRequests
      BY <1>5, <2>4 DEF CloseToReconnect
    <3>2. OnlyThread(t, moved(t, "connect")) /\ threads[t].at # "idle" /\ IsSending(t)
      BY <1>2, <2>4 DEF CloseToReconnect, IsSending
    <3> QED BY <1>3, <3>1, <3>2
  <2>5. CASE EnterRecv(t)
    <3> DEFINE at == IF m_clientFd = -1 THEN "giveUp" ELSE "receiving"
    <3>1. KeepsRequests
      BY <1>1, <2>5 DEF EnterRecv
    <3>2. OnlyThread(t, [at |-> at, call |-> threads[t].call, fd |-> m_clientFd]) /\ threads[t].at # "idle"
      BY <2>5, MoveToIs DEF EnterRecv
    <3>3. at \notin {"connect", "send", "reconnect"}
      OBVIOUS
    <3> HIDE DEF at
    <3> QED BY <3>1, <3>2, <3>3, KeptThreads
  <2>6. CASE Receive(t)
    <3> DEFINE c == threads[t].fd
               x == connections[c]
    <3>1. PICK e \in Ends(x.toClient) :
            /\ c \in DOMAIN connections
            /\ OnlyConnection(c, ConnectionOf(x.toServer, RestOf(x.toClient, e[1], e[2]), x.peer, x.client))
      BY <2>6, ReceiveIs
    <3>2. KeepsRequests
      <4>1. served' = served
        BY <2>6 DEF Receive
      <4> QED BY <3>1, <4>1, KeptConnections
    <3>3. (\E status, reply, from : Returns(t, status, reply, from)) /\ threads[t].at # "idle"
      BY <2>6, ReceiveIs DEF SetFailed, Receive
    <3> QED BY <1>4, <3>2, <3>3
  <2>7. CASE ReceiveEnd(t)
    <3>1. KeepsRequests
      BY <1>1, <2>7 DEF ReceiveEnd
    <3>2. (\E status, reply, from : Returns(t, status, reply, from)) /\ threads[t].at # "idle"
      BY <2>7 DEF ReceiveEnd
    <3> QED BY <1>4, <3>1, <3>2
  <2>8. CASE ReceiveFails(t)
    <3>1. KeepsRequests
      BY <1>1, <2>8 DEF ReceiveFails
    <3>2. OnlyThread(t, moved(t, "giveUp")) /\ threads[t].at # "idle"
      BY <1>2, <2>8 DEF ReceiveFails
    <3> QED BY <1>3, <3>1, <3>2
  <2>9. CASE CloseToFail(t)
    <3>1. KeepsRequests
      BY <1>5, <2>9 DEF CloseToFail
    <3>2. Returns(t, "failed", <<>>, {}) /\ threads[t].at # "idle"
      BY <2>9 DEF CloseToFail, SetFailed
    <3> QED BY <1>4, <3>1, <3>2
  <2> QED BY <1>7, <2>1, <2>2, <2>3, <2>4, <2>5, <2>6, <2>7, <2>8, <2>9 DEF ThreadStep
<1>8. ASSUME NEW t \in Thread, Send(t) PROVE (KeepsRequests /\ KeepsThreads) \/ SendsRequest(t)
  <2> DEFINE x == connections[m_clientFd]
  <2>1. OnlyThread(t, moved(t, "recv")) /\ threads[t].at = "send" /\ served' = served
    BY <1>2, <1>8 DEF Send
  <2>2. KeepsThreads
    BY <1>3, <2>1
  <2>3. IsSending(t) /\ ~IsSending(t)' /\ m_clientFd \in DOMAIN connections
    BY <1>8, <2>1, SendIs DEF IsSending, OnlyThread
  <2>4. CASE x.peer = "open"
    <3>1. OnlyConnection(m_clientFd,
            ConnectionOf(x.toServer \o RequestItems(threads[t].call), x.toClient, x.peer, x.client))
      BY <1>8, <2>4, SendIs
    <3> QED BY <2>1, <2>2, <2>3, <3>1 DEF SendsRequest
  <2>5. CASE x.peer # "open"
    BY <1>8, <2>1, <2>2, <2>3, <2>5, SendIs, KeptConnections
  <2> QED BY <2>4, <2>5
<1>9. ASSUME NEW c \in DOMAIN connections, ProviderStep(c)
      PROVE  (\E e \in Ends(connections[c].toServer) : Handles(c, e)) /\ KeepsThreads
  <2>1. threads' = threads
    BY <1>9 DEF ProviderStep
  <2> QED BY <1>1, <1>9, <2>1, ProviderIs
<1>10. ASSUME NEW c \in DOMAIN connections, PeerCloses(c) PROVE KeepsRequests /\ KeepsThreads
  <2>1. threads' = threads /\ served' = served
    BY <1>10 DEF PeerCloses
  <2> QED BY <1>1, <1>10, <2>1, PeerClosesIs, KeptConnections
<1> QED BY <1>6, <1>7, <1>8, <1>9, <1>10 DEF Next


\* What the request of a call consists of after the step.
RequestAfter(id) == RequestOf(id, callLog'[id].call)

LEMMA RequestItemsKept ==
  ASSUME Shape, Grows, NEW id \in DOMAIN callLog
  PROVE  /\ RequestAfter(id) = RequestItems(id) /\ RequestItems(id) = RequestOf(id, callLog[id].call)
         /\ callLog[id].call \in Requests /\ IsSequence(RequestItems(id))
<1>1. RequestAfter(id) = RequestItems(id) /\ RequestItems(id) = RequestOf(id, callLog[id].call)
  BY RequestItemsOf DEF RequestAfter, Grows, CallsKept
<1>2. callLog[id].call \in Requests
  BY DEF Shape, IsCall
<1> QED BY <1>1, <1>2, RequestIs DEF IsRequest

LEMMA WholeRequestsKept ==
  ASSUME Shape, Next, Shape', Grows, WholeRequests
  PROVE  WholeRequests'
<1>1. ASSUME NEW c \in DOMAIN connections
      PROVE  /\ IsSequence(connections[c].toServer)
             /\ \A k \in DOMAIN connections[c].toServer :
                  LET item == connections[c].toServer[k] IN
                  item.of \in DOMAIN callLog /\ RequestAfter(item.of) = RequestItems(item.of)
  <2>1. IsStream(connections[c].toServer, DOMAIN callLog)
    BY DEF Shape, IsConnection
  <2>2. \A id \in DOMAIN callLog : RequestAfter(id) = RequestItems(id)
    BY RequestItemsKept
  <2> QED BY <2>1, <2>2 DEF IsStream
<1> DEFINE SizesAreFollowed(s) == \A k \in DOMAIN s : s[k].part = "size" => StartsAt(s, k, RequestAfter(s[k].of))
<1>2. ASSUME NEW c \in DOMAIN connections PROVE SizesAreFollowed(connections[c].toServer)
  BY <1>1 DEF WholeRequests
<1>3. SizesAreFollowed(<<>>)
  OBVIOUS
<1>4. SUFFICES ASSUME NEW c \in DOMAIN connections' PROVE SizesAreFollowed(connections'[c].toServer)
  BY DEF WholeRequests, RequestAfter, RequestItems, RequestOf
<1> HIDE DEF SizesAreFollowed
<1>5. CASE KeepsRequests
  BY <1>2, <1>3, <1>5 DEF KeepsRequests
<1>6. ASSUME NEW d \in DOMAIN connections, c # d, NEW x, OnlyConnection(d, x)
      PROVE  SizesAreFollowed(connections'[c].toServer)
  BY <1>2, <1>6 DEF OnlyConnection
<1>7. CASE \E t \in Thread : SendsRequest(t)
  <2>1. PICK t \in Thread : SendsRequest(t)
    BY <1>7
  <2> DEFINE d == m_clientFd
             id == threads[t].call
             s == connections[d].toServer
             request == RequestItems(id)
             st == s \o request
  <2>2. d \in DOMAIN connections /\ (c # d => SizesAreFollowed(connections'[c].toServer))
        /\ connections'[d].toServer = st
    <3>1. PICK a, p, q : d \in DOMAIN connections /\ OnlyConnection(d, ConnectionOf(st, a, p, q))
      BY <2>1 DEF SendsRequest
    <3> HIDE DEF d, st
    <3>2. connections'[d].toServer = st
      BY <3>1 DEF OnlyConnection, ConnectionOf
    <3> QED BY <1>6, <3>1, <3>2, Zenon
  <2>3. id \in DOMAIN callLog /\ request = RequestOf(id, callLog[id].call) /\ callLog[id].call \in Requests
    <3>1. id \in DOMAIN callLog
      BY <2>1 DEF SendsRequest, IsSending, Shape, IsThread
    <3> QED BY <3>1, RequestItemsOf, RequestItemsKept
  <2>4. /\ IsSequence(request) /\ RequestAfter(id) = request
        /\ \A k \in DOMAIN request : request[k].of = id /\ (request[k].part = "size" <=> k = 1)
    <3>1. IsSequence(request) /\ RequestAfter(id) = request
      BY <2>3, RequestItemsKept
    <3>2. ASSUME NEW k \in DOMAIN request PROVE request[k].of = id /\ (request[k].part = "size" <=> k = 1)
      BY <2>3, RequestItemsAre
    <3> QED BY <3>1, <3>2
  <2>5. IsConcat(st, s, request) /\ IsSequence(s) /\ Len(request) \in Nat /\ Len(s) \in Nat
        /\ DOMAIN s = 1 .. Len(s) /\ DOMAIN request = 1 .. Len(request)
    BY <1>1, <2>2, <2>4, ConcatIs, SequenceIn
  <2>6. SizesAreFollowed(s)
    BY <1>2, <2>2
  <2> HIDE DEF id, s, request, st
  <2> USE DEF SizesAreFollowed
  <2>7. ASSUME NEW k \in DOMAIN st, st[k].part = "size" PROVE StartsAt(st, k, RequestAfter(st[k].of))
    <3>1. CASE k \in DOMAIN s
      <4>1. st[k] = s[k]
        BY <2>5, <3>1 DEF IsConcat
      <4>2. StartsAt(s, k, RequestAfter(st[k].of))
        BY <2>6, <2>7, <3>1, <4>1
      <4>3. IsSequence(RequestAfter(st[k].of))
        <5>1. st[k].of \in DOMAIN callLog
          BY <1>1, <2>2, <3>1, <4>1 DEF s
        <5>2. RequestAfter(st[k].of) = RequestItems(st[k].of) /\ callLog[st[k].of].call \in Requests
          BY <5>1, RequestItemsKept
        <5> QED BY <5>2, RequestItemsOf, RequestIs DEF IsRequest
      <4> QED BY <2>5, <3>1, <4>2, <4>3, StartsAtConcat
    <3>2. CASE k \notin DOMAIN s
      <4> DEFINE j == k - Len(s)
      <4>1. j \in DOMAIN request /\ Len(s) + j = k
        BY <2>5, <3>2 DEF IsConcat
      <4> HIDE DEF j
      <4>2. st[k] = request[j]
        BY <2>5, <4>1 DEF IsConcat
      <4>3. st[k].of = id /\ j = 1
        BY <2>4, <2>7, <4>1, <4>2
      <4>4. StartsAt(st, Len(s) + 1, request)
        BY <2>4, <2>5, StartsAtEnd
      <4> QED BY <2>4, <4>1, <4>3, <4>4
    <3> QED BY <3>1, <3>2
  <2> QED BY <2>2, <2>7
<1>8. CASE \E d \in DOMAIN connections : \E e \in Ends(connections[d].toServer) : Handles(d, e)
  <2>0. PICK d \in DOMAIN connections : \E e \in Ends(connections[d].toServer) : Handles(d, e)
    BY <1>8
  <2>1. PICK e \in Ends(connections[d].toServer) : Handles(d, e)
    BY <2>0
  <2> DEFINE s == connections[d].toServer
             piece == Piece(s, e[1], e[2])
             rest == RestOf(s, e[1], e[2])
  <2>2. (c # d => SizesAreFollowed(connections'[c].toServer)) /\ connections'[d].toServer = rest
    <3>1. PICK a, p, q : OnlyConnection(d, ConnectionOf(rest, a, p, q))
      BY <2>1 DEF Handles
    <3>2. connections'[d].toServer = rest
      BY <3>1 DEF OnlyConnection, ConnectionOf
    <3> HIDE DEF rest
    <3> QED BY <1>6, <3>1, <3>2, Zenon
  <2>3. IsSplit(s, e, piece, rest)
    BY <1>1, PieceIs
  <2>4. SizesAreFollowed(s)
    BY <1>2
  <2>5. \A k \in DOMAIN s : IsItem(s[k]) /\ IsSequence(RequestAfter(s[k].of))
    <3>1. ASSUME NEW k \in DOMAIN s PROVE IsItem(s[k])
      <4>1. IsStream(s, DOMAIN callLog)
        BY DEF Shape, IsConnection
      <4> QED BY <4>1 DEF IsStream
    <3>2. ASSUME NEW k \in DOMAIN s PROVE IsSequence(RequestAfter(s[k].of))
      <4>1. s[k].of \in DOMAIN callLog /\ RequestAfter(s[k].of) = RequestItems(s[k].of)
        BY <1>1
      <4>2. callLog[s[k].of].call \in Requests
        BY <4>1, RequestItemsKept
      <4> QED BY <4>1, <4>2, RequestItemsOf, RequestIs DEF IsRequest
    <3> QED BY <3>1, <3>2
  <2> HIDE DEF s, piece, rest
  <2> USE DEF SizesAreFollowed
  <2>6. ASSUME NEW k \in DOMAIN rest, rest[k].part = "size" PROVE StartsAt(rest, k, RequestAfter(rest[k].of))
    <3>1. k \in 1 .. Len(rest) /\ Len(rest) = Len(s) - e[1] /\ e[1] \in 0 .. Len(s) /\ Len(s) \in Nat
          /\ DOMAIN s = 1 .. Len(s)
      <4>1. IsSequence(rest)
        BY <2>3 DEF IsSplit
      <4> QED BY <2>3, <4>1, SequenceIn DEF IsSplit
    <3>2. k > 1 \/ ~e[2]
      <4>1. SUFFICES ASSUME k = 1, e[2] PROVE FALSE
        BY <3>1
      <4>2. rest[1] = Broken(s[e[1] + 1]) /\ e[1] + 1 \in DOMAIN s
        BY <2>3, <3>1, <4>1 DEF IsSplit
      <4>3. IsItem(s[e[1] + 1])
        BY <2>5, <4>2
      <4>4. rest[1].part = "broken"
        BY <4>2, <4>3 DEF Broken, IsItem
      <4> QED BY <2>6, <4>1, <4>4
    <3>3. rest[k] = s[e[1] + k] /\ e[1] + k \in DOMAIN s
      BY <2>3, <3>1, <3>2, SMTT(30) DEF IsSplit
    <3>4. StartsAt(s, e[1] + k, RequestAfter(rest[k].of)) /\ IsSequence(RequestAfter(rest[k].of))
      BY <2>4, <2>5, <2>6, <3>3
    <3> QED BY <2>3, <3>2, <3>4, StartsAtRest
  <2> QED BY <2>2, <2>6
<1> QED BY <1>5, <1>7, <1>8, RequestSteps


-----------------------------------------------------------------------------
(* Every request is at one place only                                      *)

\* The size of request id is the k-th item on the way to the peer of connection c.
WayAt(c, k, id) == c \in DOMAIN connections /\ SizeAt(connections[c].toServer, k, id)

LEMMA UnderWayIs ==
  /\ UnderWayOnce <=> \A c, d, k, l, id : WayAt(c, k, id) /\ WayAt(d, l, id) => c = d /\ k = l
  /\ \A id : IsUnderWay(id) <=> \E c, k : WayAt(c, k, id)
BY DEF UnderWayOnce, WayAt, IsUnderWay, SizeAt

LEMMA KeepsWay ==
  ASSUME KeepsRequests, NEW c, NEW k, NEW id, WayAt(c, k, id)'
  PROVE  WayAt(c, k, id)
BY DEF KeepsRequests, WayAt, SizeAt

LEMMA SendsWay ==
  ASSUME Shape, NEW t \in Thread, SendsRequest(t), NEW c, NEW k, NEW id, WayAt(c, k, id)'
  PROVE  \/ WayAt(c, k, id)
         \/ /\ c = m_clientFd /\ k = Len(connections[m_clientFd].toServer) + 1 /\ id = threads[t].call
<1> DEFINE d == m_clientFd
           s == connections[d].toServer
           request == RequestItems(threads[t].call)
           st == s \o request
<1>1. PICK a, p, q : OnlyConnection(d, ConnectionOf(st, a, p, q))
  BY DEF SendsRequest
<1>2. threads[t].call \in DOMAIN callLog /\ d \in DOMAIN connections
  BY DEF SendsRequest, IsSending, Shape, IsThread
<1>3. /\ IsSequence(request)
      /\ \A j \in DOMAIN request : request[j].of = threads[t].call /\ (request[j].part = "size" <=> j = 1)
  <2>1. request = RequestOf(threads[t].call, CallOf(t)) /\ CallOf(t) \in Requests
    BY <1>2, RequestItemsOf DEF CallOf, Shape, IsCall
  <2>2. IsSequence(request)
    BY <2>1, RequestIs DEF IsRequest
  <2>3. ASSUME NEW j \in DOMAIN request PROVE request[j].of = threads[t].call /\ (request[j].part = "size" <=> j = 1)
    BY <2>1, RequestItemsAre
  <2> QED BY <2>2, <2>3
<1>4. IsSequence(s)
  BY <1>2 DEF Shape, IsConnection, IsStream
<1>5. IsConcat(st, s, request)
  BY <1>3, <1>4, ConcatIs
<1> HIDE DEF d, s, request, st
<1>6. DOMAIN s = 1 .. Len(s) /\ Len(s) \in Nat /\ DOMAIN request = 1 .. Len(request) /\ Len(request) \in Nat
  BY <1>3, <1>4, SequenceIn
<1>7. connections'[d].toServer = st
  BY <1>1 DEF OnlyConnection, ConnectionOf
<1>8. CASE c # d
  BY <1>1, <1>8 DEF OnlyConnection, WayAt
<1>9. CASE c = d
  <2>1. k \in DOMAIN st /\ st[k].part = "size" /\ st[k].of = id
    BY <1>7, <1>9 DEF WayAt, SizeAt
  <2>2. CASE k \in DOMAIN s
    <3>1. st[k] = s[k]
      BY <1>5, <2>2 DEF IsConcat
    <3> QED BY <1>2, <1>9, <2>1, <2>2, <3>1 DEF WayAt, SizeAt, s
  <2>3. CASE k \notin DOMAIN s
    <3> DEFINE j == k - Len(s)
    <3>1. j \in DOMAIN request /\ Len(s) + j = k
      BY <1>5, <1>6, <2>1, <2>3 DEF IsConcat
    <3> HIDE DEF j
    <3>2. st[k] = request[j]
      BY <1>5, <3>1 DEF IsConcat
    <3>3. j = 1 /\ id = threads[t].call
      BY <1>3, <2>1, <3>1, <3>2
    <3> QED BY <1>9, <3>1, <3>3 DEF s, d
  <2> QED BY <2>2, <2>3
<1> QED BY <1>8, <1>9 DEF d, s

LEMMA HandlesWay ==
  ASSUME Shape, NEW d \in DOMAIN connections, NEW e \in Ends(connections[d].toServer), Handles(d, e)
  PROVE  /\ \A c, k, id : WayAt(c, k, id)' =>
              IF c = d THEN k \in Nat /\ k >= 1 /\ WayAt(c, e[1] + k, id) ELSE WayAt(c, k, id)
         /\ e[1] \in Nat
         /\ \/ served' = served
            \/ e[1] >= 1 /\ \E x : IsAppend(served', served, x) /\ WayAt(d, 1, x.of)
<1> DEFINE s == connections[d].toServer
           piece == Piece(s, e[1], e[2])
           rest == RestOf(s, e[1], e[2])
<1>1. IsSequence(s) /\ \A k \in DOMAIN s : IsItem(s[k])
  BY DEF Shape, IsConnection, IsStream
<1>2. IsSplit(s, e, piece, rest)
  BY <1>1, PieceIs
<1>3. PICK a, p, q : OnlyConnection(d, ConnectionOf(rest, a, p, q))
  BY DEF Handles
<1>4. \/ served' = served
      \/ e[1] >= 1 /\ \E x : IsAppend(served', served, x) /\ WayAt(d, 1, x.of)
  <2>1. CASE ~IsHandled(piece)
    BY <2>1 DEF Handles
  <2>2. CASE IsHandled(piece)
    <3>1. \E response : IsAppend(served', served, ServedFor(piece, response))
      BY <2>2 DEF Handles
    <3>2. \A response : ServedFor(piece, response).of = piece[1].of
      BY DEF ServedFor
    <3>3. e[1] >= 1 /\ piece[1] = s[1] /\ 1 \in DOMAIN s /\ piece[1].part = "size"
      BY <1>1, <2>2, FirstOfPiece DEF IsHandled
    <3>4. WayAt(d, 1, piece[1].of)
      BY <3>3 DEF WayAt, SizeAt
    <3> QED BY <3>1, <3>2, <3>3, <3>4
  <2> QED BY <2>1, <2>2
<1> HIDE DEF s, piece, rest
<1>5. connections'[d].toServer = rest /\ \A c \in DOMAIN connections : c # d => connections'[c] = connections[c]
  BY <1>3 DEF OnlyConnection, ConnectionOf
<1>6. ASSUME NEW c, NEW k, NEW id, WayAt(c, k, id)', c = d
      PROVE  k \in Nat /\ k >= 1 /\ WayAt(c, e[1] + k, id)
  <2>1. k \in DOMAIN rest /\ rest[k].part = "size" /\ rest[k].of = id
    BY <1>5, <1>6 DEF WayAt, SizeAt
  <2>2. k \in 1 .. Len(rest) /\ Len(rest) = Len(s) - e[1] /\ e[1] \in 0 .. Len(s) /\ Len(s) \in Nat
        /\ DOMAIN s = 1 .. Len(s)
    <3>1. IsSequence(rest)
      BY <1>2 DEF IsSplit
    <3> QED BY <1>2, <2>1, <3>1, SequenceIn DEF IsSplit
  <2>3. k > 1 \/ ~e[2]
    <3>1. SUFFICES ASSUME k = 1, e[2] PROVE FALSE
      BY <2>2
    <3>2. rest[1] = Broken(s[e[1] + 1]) /\ e[1] + 1 \in DOMAIN s
      BY <1>2, <2>2, <3>1 DEF IsSplit
    <3>3. rest[1].part = "broken"
      BY <1>1, <3>2 DEF Broken, IsItem
    <3> QED BY <2>1, <3>1, <3>3
  <2>4. rest[k] = s[e[1] + k] /\ e[1] + k \in DOMAIN s
    BY <1>2, <2>1, <2>2, <2>3 DEF IsSplit
  <2> QED BY <1>6, <2>1, <2>2, <2>4 DEF WayAt, SizeAt, s
<1>7. ASSUME NEW c, NEW k, NEW id, WayAt(c, k, id)', c # d
      PROVE  WayAt(c, k, id)
  BY <1>3, <1>5, <1>7 DEF WayAt, OnlyConnection
<1>8. e[1] \in Nat
  BY <1>2 DEF IsSplit
<1> QED BY <1>4, <1>6, <1>7, <1>8

LEMMA WayOfCalls ==
  ASSUME Shape
  PROVE  /\ \A id : IsUnderWay(id) \/ WasServed(id) => id \in DOMAIN callLog
         /\ \A t \in Thread : IsBusy(t) => threads[t].call \in DOMAIN callLog
BY DEF Shape, IsUnderWay, WasServed, SizeAt, IsConnection, IsStream, IsThread, IsBusy


LEMMA SentOnceKept ==
  ASSUME Shape, Next, SentOnce
  PROVE  SentOnce'
<1> DEFINE Once == \A c, d, k, l, id : WayAt(c, k, id)' /\ WayAt(d, l, id)' => c = d /\ k = l
           Apart == \A c, k, id : ~(WayAt(c, k, id)' /\ WasServed(id)')
           Fresh(t) == \A id : IsSending(t)' /\ threads'[t].call = id =>
             ~WasServed(id)' /\ \A c, k : ~WayAt(c, k, id)'
           OwnCalls == \A t, u \in Thread : IsBusy(t)' /\ IsBusy(u)' /\ threads'[t].call = threads'[u].call => t = u
<1>1. SUFFICES Once /\ ServedOnce' /\ Apart /\ (\A t \in Thread : Fresh(t)) /\ OwnCalls
  <2>1. Once => UnderWayOnce'
    BY DEF UnderWayOnce, WayAt, SizeAt
  <2>2. \A id : IsUnderWay(id)' => \E c, k : WayAt(c, k, id)'
    BY DEF IsUnderWay, WayAt, SizeAt
  <2>3. Apart => \A id : ~(IsUnderWay(id)' /\ WasServed(id)')
    BY <2>2
  <2>4. ASSUME NEW t \in Thread, Fresh(t), IsSending(t)'
        PROVE  \A id : threads'[t].call = id => ~IsUnderWay(id)' /\ ~WasServed(id)'
    BY <2>2, <2>4
  <2>5. (\A t \in Thread : Fresh(t))
          => \A t \in Thread : IsSending(t)' => ~IsUnderWay(threads[t].call)' /\ ~WasServed(threads[t].call)'
    BY <2>4 DEF IsUnderWay, WasServed, SizeAt
  <2> QED BY <2>1, <2>3, <2>5 DEF SentOnce
<1>2. /\ \A c, d, k, l, id : WayAt(c, k, id) /\ WayAt(d, l, id) => c = d /\ k = l
      /\ \A c, k, id : ~(WayAt(c, k, id) /\ WasServed(id))
      /\ \A t \in Thread : IsSending(t) => ~WasServed(threads[t].call) /\ \A c, k : ~WayAt(c, k, threads[t].call)
  BY UnderWayIs DEF SentOnce
<1>3. ServedOnce /\ \A t, u \in Thread : IsBusy(t) /\ IsBusy(u) /\ threads[t].call = threads[u].call => t = u
  BY DEF SentOnce
<1>4. \A t \in Thread : (IsSending(t) => IsBusy(t)) /\ (IsSending(t)' => IsBusy(t)')
  BY DEF IsSending, IsBusy
<1>5. KeepsThreads => OwnCalls
  BY <1>3 DEF KeepsThreads
<1>6. CASE KeepsRequests /\ (KeepsThreads \/ \E t \in Thread : BeginCall(t))
  <2>1. \A c, k, id : WayAt(c, k, id)' => WayAt(c, k, id)
    BY <1>6, KeepsWay
  <2>2. served' = served /\ \A id : WasServed(id)' <=> WasServed(id)
    BY <1>6 DEF KeepsRequests, WasServed
  <2>3. Once /\ Apart /\ ServedOnce'
    BY <1>2, <1>3, <2>1, <2>2 DEF ServedOnce
  <2>4. CASE KeepsThreads
    BY <1>2, <1>4, <1>5, <2>1, <2>2, <2>3, <2>4 DEF KeepsThreads, WasServed
  <2>5. CASE \E t \in Thread : BeginCall(t)
    <3>1. PICK t \in Thread : BeginCall(t)
      BY <2>5
    <3> DEFINE id == Len(callLog) + 1
    <3>2. threads'[t].call = id /\ \A u \in Thread : u # t => threads'[u] = threads[u]
      BY <3>1, BeginCallShape DEF OnlyThread
    <3>3. id \notin DOMAIN callLog
      BY SequenceIn DEF Shape
    <3> HIDE DEF id
    <3>4. \A c, k : ~WayAt(c, k, id)
      BY <3>3, WayOfCalls, UnderWayIs
    <3>5. ~WasServed(id)
      BY <3>3, WayOfCalls
    <3>6. Fresh(t)
      BY <2>1, <2>2, <3>2, <3>4, <3>5
    <3>7. ASSUME NEW u \in Thread, u # t PROVE Fresh(u)
      BY <1>2, <2>1, <2>2, <3>2, <3>7 DEF IsSending, WasServed
    <3>8. ASSUME NEW u \in Thread, u # t, IsBusy(u)'
          PROVE threads'[u].call # id /\ IsBusy(u) /\ threads'[u].call = threads[u].call
      <4>1. IsBusy(u) /\ threads'[u].call = threads[u].call
        BY <3>2, <3>8 DEF IsBusy
      <4> QED BY <3>3, <4>1, WayOfCalls
    <3>9. OwnCalls
      BY <1>3, <3>2, <3>8
    <3>10. \A u \in Thread : Fresh(u)
      <4> HIDE DEF Fresh
      <4> QED BY <3>6, <3>7
    <3> QED BY <2>3, <3>9, <3>10
  <2> QED BY <1>6, <2>4, <2>5
<1>7. ASSUME NEW t \in Thread, SendsRequest(t)
      PROVE  Once /\ ServedOnce' /\ Apart /\ (\A u \in Thread : Fresh(u)) /\ OwnCalls
  <2> DEFINE id == threads[t].call
             last == Len(connections[m_clientFd].toServer) + 1
  <2>1. \A c, k, i : WayAt(c, k, i)' => WayAt(c, k, i) \/ (c = m_clientFd /\ k = last /\ i = id)
    BY <1>7, SendsWay
  <2>2. /\ served' = served /\ KeepsThreads /\ IsSending(t) /\ ~IsSending(t)'
        /\ \A i : WasServed(i)' <=> WasServed(i)
    BY <1>7 DEF SendsRequest, WasServed
  <2> HIDE DEF last, id
  <2>3. ~WasServed(id) /\ \A c, k : ~WayAt(c, k, id)
    BY <1>2, <2>2 DEF id
  <2>4. Once
    BY <1>2, <2>1, <2>3
  <2>5. Apart
    BY <1>2, <2>1, <2>2, <2>3
  <2>6. ServedOnce'
    BY <1>3, <2>2 DEF ServedOnce
  <2>7. ASSUME NEW u \in Thread PROVE Fresh(u)
    <3>1. SUFFICES ASSUME NEW i, IsSending(u)', threads'[u].call = i PROVE ~WasServed(i)' /\ \A c, k : ~WayAt(c, k, i)'
      OBVIOUS
    <3>2. u # t /\ IsSending(u) /\ IsBusy(u) /\ IsBusy(t) /\ threads'[u].call = threads[u].call
      BY <1>4, <2>2, <3>1 DEF KeepsThreads
    <3>3. threads[u].call # id
      BY <1>3, <3>2 DEF id
    <3>4. i # id /\ ~WasServed(i) /\ \A c, k : ~WayAt(c, k, i)
      BY <1>2, <3>1, <3>2, <3>3
    <3> QED BY <2>1, <2>2, <3>4
  <2> QED BY <1>5, <2>2, <2>4, <2>5, <2>6, <2>7
<1>8. ASSUME NEW d \in DOMAIN connections, NEW e \in Ends(connections[d].toServer), Handles(d, e), KeepsThreads
      PROVE  Once /\ ServedOnce' /\ Apart /\ (\A u \in Thread : Fresh(u)) /\ OwnCalls
  <2> DEFINE n == e[1]
  <2>1. /\ \A c, k, id : WayAt(c, k, id)' =>
             IF c = d THEN k \in Nat /\ k >= 1 /\ WayAt(c, n + k, id) ELSE WayAt(c, k, id)
        /\ n \in Nat
        /\ \/ served' = served
           \/ n >= 1 /\ \E x : IsAppend(served', served, x) /\ WayAt(d, 1, x.of)
    BY <1>8, HandlesWay
  <2> HIDE DEF n
  <2>2. Once
    <3>1. SUFFICES ASSUME NEW c, NEW b, NEW k, NEW l, NEW id, WayAt(c, k, id)', WayAt(b, l, id)'
                   PROVE  c = b /\ k = l
      OBVIOUS
    <3>2. (\E i : WayAt(c, i, id)) /\ (\E i : WayAt(b, i, id))
      BY <2>1, <3>1
    <3>3. c = b
      BY <1>2, <3>2
    <3>4. CASE c = d
      <4>1. k \in Nat /\ l \in Nat /\ WayAt(c, n + k, id) /\ WayAt(c, n + l, id)
        BY <2>1, <3>1, <3>3, <3>4
      <4>2. n + k = n + l
        BY <1>2, <4>1
      <4> QED BY <2>1, <3>3, <4>1, <4>2
    <3>5. CASE c # d
      BY <1>2, <2>1, <3>1, <3>3, <3>5
    <3> QED BY <3>4, <3>5
  <2>3. \A c, k, id : WayAt(c, k, id)' => \E i : WayAt(c, i, id)
    BY <2>1
  <2>4. CASE served' = served
    <3>1. \A id : WasServed(id)' <=> WasServed(id)
      BY <2>4 DEF WasServed
    <3>2. Apart /\ ServedOnce'
      BY <1>2, <1>3, <2>3, <2>4, <3>1 DEF ServedOnce
    <3>3. \A u \in Thread : Fresh(u)
      BY <1>2, <1>8, <2>3, <2>4, <1>4 DEF KeepsThreads, WasServed
    <3> QED BY <1>5, <1>8, <2>2, <3>2, <3>3
  <2>5. CASE n >= 1 /\ \E x : IsAppend(served', served, x) /\ WayAt(d, 1, x.of)
    <3>1. PICK x : IsAppend(served', served, x) /\ WayAt(d, 1, x.of)
      BY <2>5
    <3>2. \A i \in DOMAIN served' :
          (i \in DOMAIN served /\ served'[i] = served[i]) \/ (i = Len(served) + 1 /\ served'[i] = x)
      BY <3>1 DEF IsAppend
    <3>3. ~WasServed(x.of) /\ \A c, k : ~WayAt(c, k, x.of)'
      <4>1. ASSUME NEW c, NEW k, WayAt(c, k, x.of)' PROVE FALSE
        <5>1. CASE c = d
          <6>1. k \in Nat /\ k >= 1 /\ WayAt(d, n + k, x.of)
            BY <2>1, <4>1, <5>1
          <6>2. n + k = 1
            BY <1>2, <3>1, <6>1
          <6> QED BY <2>1, <2>5, <6>1, <6>2
        <5>2. CASE c # d
          BY <1>2, <2>1, <3>1, <4>1, <5>2
        <5> QED BY <5>1, <5>2
      <4> QED BY <1>2, <3>1, <4>1
    <3>4. ServedOnce'
      <4>1. SUFFICES ASSUME NEW i \in DOMAIN served', NEW j \in DOMAIN served', served'[i].of = served'[j].of
                     PROVE  i = j
        BY DEF ServedOnce
      <4>2. (i \in DOMAIN served => served'[i] = served[i]) /\ (j \in DOMAIN served => served'[j] = served[j])
        BY <3>1 DEF IsAppend
      <4> QED BY <1>3, <3>2, <3>3, <4>1, <4>2 DEF ServedOnce, WasServed
    <3>5. \A id : WasServed(id)' => WasServed(id) \/ id = x.of
      BY <3>2 DEF WasServed
    <3>6. Apart
      BY <1>2, <2>3, <3>3, <3>5
    <3>7. ASSUME NEW u \in Thread PROVE Fresh(u)
      <4>1. SUFFICES ASSUME NEW i, IsSending(u)', threads'[u].call = i
            PROVE ~WasServed(i)' /\ \A c, k : ~WayAt(c, k, i)'
        OBVIOUS
      <4>2. IsSending(u) /\ threads'[u].call = threads[u].call
        BY <1>4, <1>8, <4>1 DEF KeepsThreads
      <4>3. threads[u].call # x.of
        BY <1>2, <3>1, <4>2
      <4>4. i # x.of /\ ~WasServed(i) /\ \A c, k : ~WayAt(c, k, i)
        BY <1>2, <4>1, <4>2, <4>3
      <4> QED BY <2>3, <3>5, <4>4
    <3> QED BY <1>5, <1>8, <2>2, <3>4, <3>6, <3>7
  <2> QED BY <2>1, <2>4, <2>5
<1> QED BY <1>6, <1>7, <1>8, RequestSteps


-----------------------------------------------------------------------------
(* What a service method is called with                                    *)

LEMMA LessOfTwo ==
  ASSUME NEW a \in Int, NEW b \in Int
  PROVE  Min({a, b}) = IF a <= b THEN a ELSE b
BY DEF Min

LEMMA FieldsAre ==
  ASSUME NEW s, IsSequence(s)
  PROVE  /\ IsSequence(FieldsOf(s)) /\ Len(FieldsOf(s)) = Len(s) /\ DOMAIN FieldsOf(s) = 1 .. Len(s)
         /\ Len(s) \in Nat /\ \A k \in 1 .. Len(s) : FieldsOf(s)[k] = s[k].field
<1> DEFINE f == FieldsOf(s)
<1>1. Len(s) \in Nat /\ DOMAIN s = 1 .. Len(s)
  BY SequenceIn
<1>2. f = [k \in 1 .. Len(s) |-> s[k].field]
  BY <1>1 DEF FieldsOf
<1>3. \A k \in 1 .. Len(s) : f[k] = s[k].field
  BY <1>2
<1>4. f = [k \in 1 .. Len(s) |-> f[k]]
  BY <1>2
<1> HIDE DEF f
<1>5. IsSequence(f) /\ Len(f) = Len(s) /\ DOMAIN f = 1 .. Len(s)
  BY <1>1, <1>4, IsSequenceFrom
<1> QED BY <1>1, <1>3, <1>5 DEF f

\* The items of the stream s from m to n.
IsPart(part, s, m, n) ==
  /\ IsSequence(part) /\ Len(part) = IF m <= n THEN n - m + 1 ELSE 0
  /\ \A k \in 1 .. Len(part) : part[k] = s[m + k - 1]

\* A part of a piece that has no broken item is a part of the stream.
LEMMA WholePart ==
  ASSUME NEW s, NEW e, NEW piece, NEW rest, IsSplit(s, e, piece, rest), \A k \in DOMAIN s : IsItem(s[k]),
         NEW m \in Nat, m >= 1, NEW n \in Nat, n <= Len(piece), Whole(SubSeq(piece, m, n))
  PROVE  IsPart(SubSeq(piece, m, n), s, m, n)
<1> DEFINE part == SubSeq(piece, m, n)
<1>1. /\ IsSequence(piece) /\ e[1] \in 0 .. Len(s) /\ Len(s) \in Nat /\ e[2] \in BOOLEAN /\ (e[2] => e[1] < Len(s))
      /\ Len(piece) = (IF e[2] THEN e[1] + 1 ELSE e[1]) /\ DOMAIN s = 1 .. Len(s)
  BY DEF IsSplit
<1>2. /\ IsSequence(part) /\ Len(part) = (IF m <= n THEN n - m + 1 ELSE 0)
      /\ \A k \in 1 .. n - m + 1 : part[k] = piece[m + k - 1]
  BY <1>1, SubSeqIs
<1> HIDE DEF part
<1>3. DOMAIN part = 1 .. Len(part) /\ Len(part) \in Nat
  BY <1>2, SequenceIn
<1>4. ASSUME NEW k \in 1 .. Len(part) PROVE part[k] = s[m + k - 1]
  <2> DEFINE i == m + k - 1
  <2>1. i \in 1 .. Len(piece) /\ part[k] = piece[i]
    BY <1>1, <1>2, <1>3
  <2> HIDE DEF i
  <2>2. i <= e[1]
    <3>1. SUFFICES ASSUME ~(i <= e[1]) PROVE FALSE
      OBVIOUS
    <3>2. e[2] /\ i = e[1] + 1 /\ i \in DOMAIN s
      BY <1>1, <2>1, <3>1
    <3>3. piece[i] = Broken(s[i])
      BY <3>2 DEF IsSplit
    <3>4. piece[i].part = "broken"
      BY <3>2, <3>3 DEF Broken, IsItem
    <3> QED BY <1>3, <2>1, <3>4 DEF Whole, IsBroken, part
  <2>3. i \in 1 .. e[1]
    BY <1>1, <2>1, <2>2
  <2>4. piece[i] = s[i]
    BY <2>3 DEF IsSplit
  <2> QED BY <2>1, <2>4 DEF i
<1> QED BY <1>2, <1>4 DEF part, IsPart

\* Of what a piece that is handled has of a request.
LEMMA HandledIs ==
  ASSUME Shape, WholeRequests, NEW d \in DOMAIN connections, NEW e \in Ends(connections[d].toServer),
         IsHandled(Piece(connections[d].toServer, e[1], e[2]))
  PROVE  LET piece == Piece(connections[d].toServer, e[1], e[2])
             r == callLog[piece[1].of].call
             proto == GetRequestPrototype(r.service, r.method)
             request == Parse(proto, FieldsOf(ArgsIn(piece)))
         IN /\ piece[1].of \in DOMAIN callLog /\ r \in Requests
            /\ HeaderIn(piece).service_name = r.service /\ HeaderIn(piece).method_name = r.method
            /\ \/ request = r.request
               \/ ~IsOneMessage(connections[d].toServer, e) /\ request = DefaultMessage(proto)
<1> DEFINE s == connections[d].toServer
           piece == Piece(s, e[1], e[2])
           rest == RestOf(s, e[1], e[2])
           id == piece[1].of
           r == callLog[id].call
           H == Header[r]
           A == Arguments[r]
           R == RequestItems(id)
           h == HeaderOf(piece)
           header == HeaderIn(piece)
           args == ArgsIn(piece)
           proto == GetRequestPrototype(r.service, r.method)
           L == Len(piece)
<1>1. IsSequence(s) /\ \A k \in DOMAIN s : IsItem(s[k]) /\ s[k].of \in DOMAIN callLog
  BY DEF Shape, IsConnection, IsStream
<1>2. IsSplit(s, e, piece, rest)
  BY <1>1, PieceIs
<1>3. e[1] >= 1 /\ piece[1] = s[1] /\ 1 \in DOMAIN s /\ s[1].part = "size"
  BY <1>1, FirstOfPiece DEF IsHandled
<1>4. id \in DOMAIN callLog /\ r \in Requests /\ R = RequestOf(id, r) /\ StartsAt(s, 1, R)
  <2>1. id = s[1].of /\ id \in DOMAIN callLog
    BY <1>1, <1>3
  <2>2. StartsAt(s, 1, R)
    BY <1>3, <2>1 DEF WholeRequests
  <2>3. r \in Requests
    BY <2>1 DEF Shape, IsCall
  <2> QED BY <2>1, <2>2, <2>3, RequestItemsOf
<1>5. Whole(h) /\ HasMethod(header) /\ ArgsComplete(args, header)
  BY DEF IsHandled
<1>6. /\ h = SubSeq(piece, 2, Min({L, 1 + piece[1].field}))
      /\ header = Parse(HeaderPrototype, FieldsOf(h))
      /\ args = SubSeq(piece, 2 + Len(h), Min({L, 2 + Len(h) + header.args_size - 1}))
  BY DEF HeaderOf, HeaderIn, ArgsIn, ArgsOf
<1> HIDE DEF s, piece, rest, h, header, args
<1>7. IsRequest(R, id, H, A)
  BY <1>4, RequestIs
<1>8. /\ IsSequence(H) /\ Len(H) \in Nat /\ DOMAIN H = 1 .. Len(H)
      /\ IsSequence(A) /\ Len(A) \in Nat /\ DOMAIN A = 1 .. Len(A)
      /\ Parse(proto, A) = r.request
  BY <1>4, HeaderSequence, ArgumentsSequence, SequenceIn
<1> HIDE DEF id, r, H, A, R, proto
<1>9. /\ Len(R) = 1 + Len(H) + Len(A) /\ Len(s) \in Nat /\ Len(R) <= Len(s)
      /\ \A j \in 1 .. Len(R) : s[j] = R[j]
  <2>1. Len(s) \in Nat
    BY <1>1, SequenceIn
  <2>2. Len(R) = 1 + Len(H) + Len(A) /\ DOMAIN R = 1 .. Len(R)
    BY <1>7 DEF IsRequest
  <2>3. 1 + Len(R) <= Len(s) + 1 /\ \A j \in DOMAIN R : s[1 + j - 1] = R[j]
    BY <1>4 DEF StartsAt
  <2>4. ASSUME NEW j \in DOMAIN R PROVE s[j] = R[j]
    <3>1. 1 + j - 1 = j
      BY <1>8, <2>2
    <3> QED BY <2>3, <3>1
  <2> QED BY <1>8, <2>1, <2>2, <2>3, <2>4
<1>10. /\ \A k \in 1 .. Len(H) : s[1 + k].field = H[k]
       /\ \A k \in 1 .. Len(A) : s[1 + Len(H) + k].field = A[k]
       /\ s[1].field = Len(H)
  <2>1. R[1] = Item(id, "size", Len(H)) /\ (\A k \in 1 .. Len(H) : R[1 + k] = Item(id, "header", H[k]))
        /\ \A k \in 1 .. Len(A) : R[1 + Len(H) + k] = Item(id, "args", A[k])
    BY <1>7, <1>8 DEF IsRequest
  <2>2. \A x, y, z : Item(x, y, z).field = z
    BY DEF Item
  <2>3. ASSUME NEW k \in 1 .. Len(H) PROVE s[1 + k].field = H[k]
    <3>1. 1 + k \in 1 .. Len(R)
      BY <1>8, <1>9
    <3>2. s[1 + k] = R[1 + k] /\ R[1 + k] = Item(id, "header", H[k])
      BY <1>9, <2>1, <3>1
    <3> QED BY <2>2, <3>2
  <2>4. ASSUME NEW k \in 1 .. Len(A) PROVE s[1 + Len(H) + k].field = A[k]
    <3>1. 1 + Len(H) + k \in 1 .. Len(R)
      BY <1>8, <1>9
    <3>2. s[1 + Len(H) + k] = R[1 + Len(H) + k] /\ R[1 + Len(H) + k] = Item(id, "args", A[k])
      BY <1>9, <2>1, <3>1
    <3> QED BY <2>2, <3>2
  <2>5. 1 \in 1 .. Len(R)
    BY <1>8, <1>9
  <2> QED BY <1>9, <2>1, <2>2, <2>3, <2>4, <2>5
<1>11. L \in Nat /\ e[1] \in Nat /\ e[1] <= L /\ L >= 1
  <2>1. IsSequence(piece)
    BY <1>2 DEF IsSplit
  <2>2. L \in Nat
    BY <2>1, SequenceIn
  <2>3. L = (IF e[2] THEN e[1] + 1 ELSE e[1]) /\ e[1] \in 0 .. Len(s)
    BY <1>2 DEF IsSplit
  <2> QED BY <1>3, <1>9, <2>2, <2>3
<1> HIDE DEF L
<1> DEFINE m == IF L <= 1 + Len(H) THEN L ELSE 1 + Len(H)
           l == m - 1
<1>12. /\ m \in Nat /\ l \in Nat /\ h = SubSeq(piece, 2, m) /\ m <= Len(piece)
  <2>1. piece[1].field = Len(H)
    BY <1>3, <1>10
  <2>2. Min({L, 1 + Len(H)}) = m
    BY <1>8, <1>11, LessOfTwo
  <2>3. h = SubSeq(piece, 2, m)
    BY <1>6, <2>1, <2>2
  <2>4. m \in Nat /\ l \in Nat /\ m <= L
    BY <1>8, <1>11
  <2> QED BY <2>3, <2>4 DEF L
<1>13. /\ IsSequence(h) /\ Len(h) = l
       /\ \A k \in 1 .. l : h[k].field = H[k]
  <2> HIDE DEF m
  <2>1. /\ IsSequence(h) /\ Len(h) = (IF 2 <= m THEN m - 2 + 1 ELSE 0)
        /\ \A k \in 1 .. Len(h) : h[k] = s[2 + k - 1]
    <3>1. 2 \in Nat /\ 2 >= 1 /\ Whole(SubSeq(piece, 2, m))
      BY <1>5, <1>12
    <3>2. IsPart(SubSeq(piece, 2, m), s, 2, m)
      BY <1>1, <1>2, <1>12, <3>1, WholePart
    <3> QED BY <1>12, <3>2 DEF IsPart
  <2>2. Len(h) = l
    BY <1>12, <2>1
  <2>3. ASSUME NEW k \in 1 .. l PROVE h[k].field = H[k]
    <3>1. 2 + k - 1 = 1 + k /\ k \in 1 .. Len(H)
      BY <1>8, <1>11, <1>12 DEF m
    <3>2. h[k] = s[1 + k]
      BY <2>1, <2>2, <3>1
    <3> QED BY <1>10, <3>1, <3>2
  <2> QED BY <2>1, <2>2, <2>3
<1>14. l <= Len(H) /\ (l = Len(H) <=> L >= 1 + Len(H)) /\ (l # Len(H) => m = L /\ l = L - 1)
  BY <1>8, <1>11
<1> HIDE DEF m, l
<1>15. /\ header = [service_name |-> r.service, method_name |-> r.method,
                    args_size |-> IF l = Len(H) THEN Len(A) ELSE 0]
  <2> DEFINE g == FieldsOf(h)
  <2>1. IsSequence(g) /\ Len(g) = l /\ DOMAIN g = 1 .. l /\ \A k \in 1 .. l : g[k] = h[k].field
    BY <1>13, FieldsAre
  <2> HIDE DEF g
  <2>2. Len(g) <= Len(H) /\ \A k \in DOMAIN g : g[k] = H[k]
    BY <1>13, <1>14, <2>1
  <2>3. HasMethod(Parse(HeaderPrototype, g)) /\ header = Parse(HeaderPrototype, g)
    BY <1>5, <1>6 DEF g
  <2>4. Parse(HeaderPrototype, g) =
          [service_name |-> r.service, method_name |-> r.method,
           args_size |-> IF Len(g) = Len(Header[r]) THEN Len(Arguments[r]) ELSE 0]
    BY <1>4, <2>1, <2>2, <2>3, HeaderPrefix DEF H
  <2> QED BY <2>1, <2>3, <2>4 DEF H, A
<1>16. CASE l = Len(H)
  <2> DEFINE first == 2 + Len(H)
             last == first + Len(A) - 1
             to == IF L <= last THEN L ELSE last
  <2>1. header.args_size = Len(A) /\ Len(args) = Len(A) /\ Whole(args)
    BY <1>5, <1>15, <1>16 DEF ArgsComplete
  <2>2. last \in Int /\ to \in Nat /\ to <= Len(piece) /\ first \in Nat /\ first >= 1
    BY <1>8, <1>11, <1>14, <1>16 DEF L
  <2>3. args = SubSeq(piece, first, to)
    <3>1. args = SubSeq(piece, first, Min({L, last}))
      BY <1>6, <1>13, <1>16, <2>1
    <3>2. Min({L, last}) = to
      BY <1>11, <2>2, LessOfTwo
    <3> QED BY <3>1, <3>2
  <2> HIDE DEF to
  <2>4. IsSequence(args) /\ \A k \in 1 .. Len(args) : args[k] = s[first + k - 1]
    <3> HIDE DEF first, last
    <3>1. first \in Nat /\ first >= 1 /\ to \in Nat /\ to <= Len(piece) /\ Whole(SubSeq(piece, first, to))
      BY <2>1, <2>2, <2>3
    <3>2. IsPart(SubSeq(piece, first, to), s, first, to)
      BY <1>1, <1>2, <3>1, WholePart
    <3> QED BY <2>3, <3>2 DEF IsPart
  <2>5. ASSUME NEW k \in 1 .. Len(A) PROVE args[k].field = A[k]
    <3>1. first + k - 1 = 1 + Len(H) + k
      BY <1>8
    <3>2. args[k] = s[1 + Len(H) + k]
      BY <2>1, <2>4, <3>1
    <3> QED BY <1>10, <3>2
  <2> DEFINE g == FieldsOf(args)
  <2>6. IsSequence(g) /\ Len(g) = Len(A) /\ \A k \in 1 .. Len(A) : g[k] = A[k]
    <3>1. IsSequence(g) /\ Len(g) = Len(args) /\ \A k \in 1 .. Len(args) : g[k] = args[k].field
      BY <2>4, FieldsAre
    <3> QED BY <2>1, <2>5, <3>1
  <2>7. g = A
    <3> HIDE DEF g
    <3> QED BY <1>8, <2>6 DEF IsSequence
  <2>8. Parse(proto, FieldsOf(args)) = r.request
    BY <1>8, <2>7
  <2> QED BY <1>4, <1>15, <2>8 DEF s, piece, id, r, proto, args, header
<1>17. CASE l # Len(H)
  <2> DEFINE first == 2 + Len(h)
  <2>1. header.args_size = 0 /\ first = L + 1
    BY <1>11, <1>13, <1>14, <1>15, <1>17
  <2>2. args = SubSeq(piece, L + 1, L)
    <3>1. args = SubSeq(piece, L + 1, Min({L, L + 1 + 0 - 1}))
      BY <1>6, <2>1
    <3>2. L + 1 + 0 - 1 = L /\ Min({L, L}) = L
      BY <1>11, LessOfTwo
    <3> QED BY <3>1, <3>2
  <2>3. IsSequence(args) /\ Len(args) = 0
    <3>1. IsSequence(piece) /\ L + 1 \in Nat /\ L + 1 >= 1 /\ L <= Len(piece) /\ ~(L + 1 <= L)
      BY <1>2, <1>11, SMTT(30) DEF IsSplit, L
    <3> QED BY <1>11, <2>2, <3>1, SubSeqIs
  <2> DEFINE g == FieldsOf(args)
  <2>4. IsSequence(g) /\ Len(g) = 0
    BY <2>3, FieldsAre
  <2>5. g = <<>>
    <3> HIDE DEF g
    <3> QED BY <2>4 DEF IsSequence
  <2>6. Parse(proto, FieldsOf(args)) = DefaultMessage(proto)
    BY <2>5 DEF DefaultMessage
  <2>7. ~IsOneMessage(s, e)
    <3>1. e[1] # Len(s)
      BY <1>8, <1>9, <1>11, <1>14, <1>17
    <3> QED BY <3>1 DEF IsOneMessage
  <2> QED BY <1>4, <1>15, <2>6, <2>7 DEF s, piece, id, r, proto, args, header
<1> QED BY <1>16, <1>17


LEMMA HistoryGrows ==
  ASSUME Shape, Next
  PROVE  (cut => cut') /\ (shared => shared')
<1>1. ASSUME NEW t \in Thread, BeginCall(t) PROVE (cut => cut') /\ (shared => shared')
  <2> DEFINE Other == \E u \in Thread : threads[u].at # "idle"
  <2>1. cut' = cut /\ shared' = (shared \/ Other)
    BY <1>1 DEF BeginCall
  <2> HIDE DEF Other
  <2> QED BY <2>1, Zenon
<1>2. ASSUME NEW t \in Thread, ThreadStep(t) PROVE (cut => cut') /\ (shared => shared')
  <2>1. CASE Receive(t)
    <3>1. PICK e : cut' = (cut \/ ~IsOneMessage(connections[threads[t].fd].toClient, e))
      BY <2>1, ReceiveIs
    <3>2. shared' = shared
      BY <2>1 DEF Receive
    <3> QED BY <3>1, <3>2, Zenon
  <2>2. CASE ~Receive(t)
    BY <1>2, <2>2 DEF ThreadStep, Connect, ConnectFails, Send, SendFails, CloseToReconnect, EnterRecv, ReceiveEnd,
                      ReceiveFails, CloseToFail
  <2> QED BY <2>1, <2>2
<1>3. ASSUME NEW c \in DOMAIN connections, ProviderStep(c) PROVE (cut => cut') /\ (shared => shared')
  <2>1. PICK e : cut' = (cut \/ ~IsOneMessage(connections[c].toServer, e))
    BY <1>3 DEF ProviderStep
  <2>2. shared' = shared
    BY <1>3 DEF ProviderStep
  <2> QED BY <2>1, <2>2, Zenon
<1>4. ASSUME NEW c \in DOMAIN connections, PeerCloses(c) PROVE (cut => cut') /\ (shared => shared')
  BY <1>4 DEF PeerCloses
<1> QED BY <1>1, <1>2, <1>3, <1>4 DEF Next

LEMMA ServedSteps ==
  ASSUME Shape, WholeRequests, Next
  PROVE  \/ served' = served
         \/ \E d \in DOMAIN connections : \E e \in Ends(connections[d].toServer) :
              LET piece == Piece(connections[d].toServer, e[1], e[2]) IN
              /\ Handles(d, e) /\ IsHandled(piece)
              /\ \E response \in Response(HeaderIn(piece).service_name, HeaderIn(piece).method_name) :
                   IsAppend(served', served, ServedFor(piece, response))
<1>1. CASE KeepsRequests
  BY <1>1 DEF KeepsRequests
<1>2. ASSUME NEW t \in Thread, SendsRequest(t) PROVE served' = served
  BY <1>2 DEF SendsRequest
<1>3. ASSUME NEW d \in DOMAIN connections, NEW e \in Ends(connections[d].toServer), Handles(d, e)
      PROVE  LET piece == Piece(connections[d].toServer, e[1], e[2]) IN
             \/ served' = served
             \/ /\ IsHandled(piece)
                /\ \E response \in Response(HeaderIn(piece).service_name, HeaderIn(piece).method_name) :
                     IsAppend(served', served, ServedFor(piece, response))
  BY <1>3 DEF Handles
<1> QED BY <1>1, <1>2, <1>3, RequestSteps

\* A new entry of served is of the call whose request was handled.
LEMMA NewlyServed ==
  ASSUME Shape, WholeRequests, NEW d \in DOMAIN connections, NEW e \in Ends(connections[d].toServer),
         IsHandled(Piece(connections[d].toServer, e[1], e[2])), Handles(d, e)
  PROVE  LET piece == Piece(connections[d].toServer, e[1], e[2])
             r == callLog[piece[1].of].call
         IN \A response \in Response(HeaderIn(piece).service_name, HeaderIn(piece).method_name) :
              LET x == ServedFor(piece, response) IN
              /\ x.of = piece[1].of /\ x.service = r.service /\ x.method = r.method /\ x.response = response
              /\ \/ x.request = r.request
                 \/ cut' /\ x.request = DefaultMessage(GetRequestPrototype(r.service, r.method))
              /\ IsMessage(ReplyClass(r), response)
<1> DEFINE s == connections[d].toServer
           piece == Piece(s, e[1], e[2])
           r == callLog[piece[1].of].call
           header == HeaderIn(piece)
           proto == GetRequestPrototype(r.service, r.method)
           request == Parse(proto, FieldsOf(ArgsIn(piece)))
<1>1. /\ header.service_name = r.service /\ header.method_name = r.method
      /\ request = r.request \/ (~IsOneMessage(s, e) /\ request = DefaultMessage(proto))
  BY HandledIs
<1>2. ~IsOneMessage(s, e) => cut'
  BY DEF Handles
<1>3. SUFFICES ASSUME NEW response \in Response(header.service_name, header.method_name)
               PROVE  LET x == ServedFor(piece, response) IN
                      /\ x.of = piece[1].of /\ x.service = r.service /\ x.method = r.method /\ x.response = response
                      /\ x.request = r.request \/ (cut' /\ x.request = DefaultMessage(proto))
                      /\ IsMessage(ReplyClass(r), response)
  OBVIOUS
<1>4. IsMessage(ReplyClass(r), response)
  BY <1>1, ReplyIs DEF ReplyClass
<1>5. ServedFor(piece, response) =
        [of |-> piece[1].of, service |-> r.service, method |-> r.method, request |-> request, response |-> response]
  BY <1>1 DEF ServedFor
<1> HIDE DEF piece, r, request, proto
<1> QED BY <1>1, <1>2, <1>4, <1>5

LEMMA ServedAsSentKept ==
  ASSUME Shape, Grows, Next, WholeRequests, ServedAsSentOrEmpty, ServedTyped
  PROVE  ServedAsSentOrEmpty' /\ ServedTyped'
<1> DEFINE Good(x) ==
      LET call == callLog'[x.of].call IN
      /\ x.service = call.service /\ x.method = call.method
      /\ \/ x.request = call.request
         \/ cut' /\ x.request = DefaultMessage(GetRequestPrototype(call.service, call.method))
      /\ IsMessage(ReplyClass(call), x.response)
<1>1. SUFFICES ASSUME NEW n \in DOMAIN served' PROVE Good(served'[n])
  BY DEF ServedAsSentOrEmpty, ServedTyped, ReplyClass
<1>2. cut => cut'
  BY HistoryGrows
<1>3. ASSUME NEW i \in DOMAIN served PROVE Good(served[i])
  <2>1. served[i].of \in DOMAIN callLog
    BY DEF Shape
  <2>2. callLog'[served[i].of].call = callLog[served[i].of].call
    BY <2>1 DEF Grows, CallsKept
  <2> QED BY <1>2, <2>2 DEF ServedAsSentOrEmpty, ServedTyped
<1>4. CASE served' = served
  BY <1>3, <1>4
<1>5. ASSUME NEW d \in DOMAIN connections, NEW e \in Ends(connections[d].toServer),
             LET piece == Piece(connections[d].toServer, e[1], e[2]) IN
             /\ Handles(d, e) /\ IsHandled(piece)
             /\ \E response \in Response(HeaderIn(piece).service_name, HeaderIn(piece).method_name) :
                  IsAppend(served', served, ServedFor(piece, response))
      PROVE  Good(served'[n])
  <2> DEFINE piece == Piece(connections[d].toServer, e[1], e[2])
             r == callLog[piece[1].of].call
  <2>1. PICK response \in Response(HeaderIn(piece).service_name, HeaderIn(piece).method_name) :
          IsAppend(served', served, ServedFor(piece, response))
    BY <1>5
  <2> DEFINE x == ServedFor(piece, response)
  <2>2. /\ x.of = piece[1].of /\ x.service = r.service /\ x.method = r.method /\ x.response = response
        /\ \/ x.request = r.request
           \/ cut' /\ x.request = DefaultMessage(GetRequestPrototype(r.service, r.method))
        /\ IsMessage(ReplyClass(r), response)
    BY <1>5, NewlyServed
  <2>3. callLog' = callLog
    BY <1>5 DEF Handles
  <2> HIDE DEF piece, x
  <2>4. Good(x)
    BY <2>2, <2>3
  <2>5. (n \in DOMAIN served /\ served'[n] = served[n]) \/ served'[n] = x
    <3>1. n \in DOMAIN served \/ n = Len(served) + 1
      BY <2>1 DEF IsAppend, x
    <3> QED BY <2>1, <3>1 DEF IsAppend, x
  <2> HIDE DEF Good
  <2> QED BY <1>3, <2>4, <2>5
<1> HIDE DEF Good
<1> QED BY <1>4, <1>5, ServedSteps


-----------------------------------------------------------------------------
(* Replies stay typed                                                      *)

\* A piece that does not end inside an item.
LEMMA WholePiece ==
  ASSUME NEW s, NEW e, NEW piece, NEW rest, IsSplit(s, e, piece, rest), \A k \in DOMAIN s : IsItem(s[k]), Whole(piece)
  PROVE  /\ IsSequence(piece) /\ ~e[2] /\ Len(piece) = e[1] /\ e[1] \in 1 .. Len(s) /\ DOMAIN piece = 1 .. e[1]
         /\ \A k \in DOMAIN piece : k \in DOMAIN s /\ piece[k] = s[k]
<1>1. /\ IsSequence(piece) /\ e[1] \in 0 .. Len(s) /\ Len(s) \in Nat /\ DOMAIN s = 1 .. Len(s)
      /\ e[2] \in BOOLEAN /\ (e[2] => e[1] < Len(s)) /\ (e[1] > 0 \/ e[2])
      /\ Len(piece) = (IF e[2] THEN e[1] + 1 ELSE e[1])
  BY DEF IsSplit
<1>2. DOMAIN piece = 1 .. Len(piece)
  BY <1>1, SequenceIn
<1>3. ~e[2]
  <2>1. SUFFICES ASSUME e[2] PROVE FALSE
    OBVIOUS
  <2>2. e[1] + 1 \in DOMAIN s /\ e[1] + 1 \in DOMAIN piece
    BY <1>1, <1>2, <2>1
  <2>3. piece[e[1] + 1] = Broken(s[e[1] + 1])
    BY <2>1 DEF IsSplit
  <2>4. piece[e[1] + 1].part = "broken"
    BY <2>2, <2>3 DEF Broken, IsItem
  <2> QED BY <2>2, <2>4 DEF Whole, IsBroken
<1>4. \A k \in 1 .. e[1] : piece[k] = s[k]
  BY DEF IsSplit
<1> QED BY <1>1, <1>2, <1>3, <1>4

LEMMA CallSteps ==
  ASSUME Shape, Next
  PROVE  \/ callLog' = callLog
         \/ \E t \in Thread : BeginCall(t)
         \/ \E t \in Thread : threads[t].at # "idle" /\ (SetFailed(t) \/ Receive(t) \/ ReceiveEnd(t))
<1>1. ASSUME NEW t \in Thread, ThreadStep(t)
      PROVE  \/ callLog' = callLog
             \/ threads[t].at # "idle" /\ (SetFailed(t) \/ Receive(t) \/ ReceiveEnd(t))
  BY <1>1 DEF ThreadStep, Connect, ConnectFails, Send, SendFails, CloseToReconnect, EnterRecv, Receive, ReceiveEnd,
              ReceiveFails, CloseToFail
<1>2. ASSUME NEW c \in DOMAIN connections, ProviderStep(c) \/ PeerCloses(c)
      PROVE  callLog' = callLog
  BY <1>2 DEF ProviderStep, PeerCloses
<1> QED BY <1>1, <1>2 DEF Next

\* Steps that send no reply and take none.
KeepsReplies ==
  \A c \in DOMAIN connections' :
    \/ c \in DOMAIN connections /\ connections'[c].toClient = connections[c].toClient
    \/ connections'[c].toClient = <<>>

LEMMA ReplySteps ==
  ASSUME Shape, Next
  PROVE  \/ KeepsReplies
         \/ \E t \in Thread : Receive(t)
         \/ \E d \in DOMAIN connections : \E e \in Ends(connections[d].toServer) : Handles(d, e)
<1>1. connections' = connections => KeepsReplies
  BY DEF KeepsReplies
<1>2. ASSUME NEW c \in DOMAIN connections, NEW a, NEW b, NEW p, NEW q,
             OnlyConnection(c, ConnectionOf(a, b, p, q)), b \in {<<>>, connections[c].toClient}
      PROVE  KeepsReplies
  <2>1. connections'[c].toClient = b
    BY <1>2 DEF OnlyConnection, ConnectionOf
  <2> QED BY <1>2, <2>1 DEF OnlyConnection, KeepsReplies
<1>3. ASSUME Close PROVE KeepsReplies
  <2>1. CASE m_clientFd = -1
    BY <1>1, <1>3, <2>1, CloseIs
  <2>2. CASE m_clientFd # -1
    BY <1>2, <1>3, <2>2, CloseIs
  <2> QED BY <2>1, <2>2
<1>4. ASSUME NEW t \in Thread, ThreadStep(t), ~Receive(t) PROVE KeepsReplies
  <2>1. CASE Connect(t)
    <3>1. IsAppend(connections', connections, NewConnection)
      BY <2>1, ConnectIs
    <3>2. \A c \in DOMAIN connections' : c \in DOMAIN connections \/ c = Len(connections) + 1
      BY <3>1 DEF IsAppend
    <3>3. NewConnection.toClient = <<>>
      BY DEF NewConnection
    <3> QED BY <3>1, <3>2, <3>3 DEF IsAppend, KeepsReplies
  <2>2. CASE Send(t)
    BY <1>2, <2>2, SendIs
  <2>3. CASE CloseToReconnect(t) \/ CloseToFail(t)
    BY <1>3, <2>3 DEF CloseToReconnect, CloseToFail
  <2>4. CASE ConnectFails(t) \/ SendFails(t) \/ EnterRecv(t) \/ ReceiveEnd(t) \/ ReceiveFails(t)
    BY <1>1, <2>4 DEF ConnectFails, SendFails, EnterRecv, ReceiveEnd, ReceiveFails
  <2> QED BY <1>4, <2>1, <2>2, <2>3, <2>4 DEF ThreadStep
<1>5. ASSUME NEW t \in Thread, BeginCall(t) PROVE KeepsReplies
  BY <1>1, <1>5 DEF BeginCall
<1>6. ASSUME NEW c \in DOMAIN connections, PeerCloses(c) PROVE KeepsReplies
  BY <1>2, <1>6, PeerClosesIs
<1> QED BY <1>4, <1>5, <1>6, ProviderIs DEF Next

LEMMA RepliesTypedKept ==
  ASSUME Shape, Next, Grows, RepliesTyped
  PROVE  RepliesTyped'
<1> DEFINE Typed(s) == \A k \in DOMAIN s : WireTyped(s[k].field)
           Good(x) == x.status = "ok" => IsMessage(ReplyClass(x.call), x.reply)
<1>1. /\ \A c \in DOMAIN connections : Typed(connections[c].toClient)
      /\ \A n \in DOMAIN callLog : Good(callLog[n])
  BY DEF RepliesTyped
<1>2. SUFFICES /\ \A c \in DOMAIN connections' : Typed(connections'[c].toClient)
               /\ \A n \in DOMAIN callLog' : Good(callLog'[n])
  BY DEF RepliesTyped, ReplyClass
<1>3. ASSUME NEW c \in DOMAIN connections
      PROVE  IsSequence(connections[c].toClient)
             /\ \A k \in DOMAIN connections[c].toClient : IsItem(connections[c].toClient[k])
  BY DEF Shape, IsConnection, IsStream
<1>4. Typed(<<>>)
  OBVIOUS
<1>5. ASSUME NEW c \in DOMAIN connections, NEW a, NEW b, NEW p, NEW q,
             OnlyConnection(c, ConnectionOf(a, b, p, q)), Typed(b)
      PROVE  \A d \in DOMAIN connections' : Typed(connections'[d].toClient)
  <2>1. connections'[c].toClient = b
    BY <1>5 DEF OnlyConnection, ConnectionOf
  <2> HIDE DEF Typed
  <2> QED BY <1>1, <1>5, <2>1 DEF OnlyConnection
<1>6. ASSUME NEW s, NEW e, NEW piece, NEW rest, IsSplit(s, e, piece, rest), \A k \in DOMAIN s : IsItem(s[k]), Typed(s)
      PROVE  Typed(rest)
  <2>1. ASSUME NEW k \in DOMAIN rest PROVE WireTyped(rest[k].field)
    <3>1. k \in 1 .. Len(rest) /\ Len(rest) = Len(s) - e[1] /\ e[1] \in 0 .. Len(s) /\ Len(s) \in Nat
      <4>1. IsSequence(rest)
        BY <1>6 DEF IsSplit
      <4> QED BY <1>6, <4>1, SequenceIn DEF IsSplit
    <3>2. e[1] + k \in DOMAIN s
      BY <1>6, <3>1 DEF IsSplit
    <3>3. CASE k > 1 \/ ~e[2]
      <4>1. rest[k] = s[e[1] + k]
        BY <1>6, <3>3 DEF IsSplit
      <4> QED BY <1>6, <3>2, <4>1
    <3>4. CASE ~(k > 1 \/ ~e[2])
      <4>1. k = 1 /\ e[2]
        BY <3>1, <3>4
      <4>2. rest[k] = Broken(s[e[1] + 1])
        BY <1>6, <4>1 DEF IsSplit
      <4>3. IsItem(s[e[1] + 1]) /\ WireTyped(s[e[1] + 1].field)
        BY <1>6, <3>2, <4>1
      <4>4. rest[k].field = s[e[1] + 1].field
        BY <4>2, <4>3 DEF Broken, IsItem
      <4> QED BY <4>3, <4>4
    <3> QED BY <3>3, <3>4
  <2> QED BY <2>1
<1>7. \A c \in DOMAIN connections' : Typed(connections'[c].toClient)
  <2>1. CASE KeepsReplies
    <3> HIDE DEF Typed
    <3> QED BY <1>1, <1>4, <2>1 DEF KeepsReplies
  <2>2. ASSUME NEW t \in Thread, Receive(t) PROVE \A c \in DOMAIN connections' : Typed(connections'[c].toClient)
    <3> DEFINE c == threads[t].fd
               x == connections[c]
    <3>1. PICK e \in Ends(x.toClient) :
            c \in DOMAIN connections
            /\ OnlyConnection(c, ConnectionOf(x.toServer, RestOf(x.toClient, e[1], e[2]), x.peer, x.client))
      BY <2>2, ReceiveIs
    <3>2. IsSplit(x.toClient, e, Piece(x.toClient, e[1], e[2]), RestOf(x.toClient, e[1], e[2]))
      BY <1>3, <3>1, PieceIs
    <3>3. Typed(RestOf(x.toClient, e[1], e[2]))
      <4>1. (\A k \in DOMAIN x.toClient : IsItem(x.toClient[k])) /\ Typed(x.toClient)
        BY <1>1, <1>3, <3>1
      <4> HIDE DEF Typed, x
      <4> QED BY <1>6, <3>2, <4>1
    <3> HIDE DEF Typed, x, c
    <3> QED BY <1>5, <3>1, <3>3
  <2>3. ASSUME NEW d \in DOMAIN connections, NEW e \in Ends(connections[d].toServer), Handles(d, e)
        PROVE  \A c \in DOMAIN connections' : Typed(connections'[c].toClient)
    <3> DEFINE x == connections[d]
               piece == Piece(x.toServer, e[1], e[2])
    <3>1. CASE ~IsHandled(piece)
      <4>1. PICK a, p, q : OnlyConnection(d, ConnectionOf(a, x.toClient, p, q))
        BY <2>3, <3>1 DEF Handles
      <4>2. Typed(x.toClient)
        BY <1>1
      <4> HIDE DEF Typed, x
      <4> QED BY <1>5, <4>1, <4>2
    <3>2. CASE IsHandled(piece)
      <4>1. PICK response \in Response(HeaderIn(piece).service_name, HeaderIn(piece).method_name) :
              \E a, p, q : OnlyConnection(d, ConnectionOf(a, x.toClient \o ReplyFor(piece, response), p, q))
        BY <2>3, <3>2 DEF Handles
      <4> DEFINE s == x.toClient
                 u == ReplyFor(piece, response)
                 su == s \o u
      <4>2. Typed(s) /\ Typed(u) /\ IsSequence(s) /\ IsSequence(u)
        <5>1. Typed(s) /\ IsSequence(s)
          BY <1>1, <1>3
        <5>2. Typed(u) /\ IsStream(u, {piece[1].of})
          BY <3>2, ReplyIs
        <5> QED BY <5>1, <5>2 DEF IsStream
      <4> HIDE DEF s, u
      <4>3. IsConcat(su, s, u) /\ DOMAIN s = 1 .. Len(s) /\ Len(s) \in Nat /\ DOMAIN u = 1 .. Len(u) /\ Len(u) \in Nat
        BY <4>2, ConcatIs, SequenceIn
      <4> HIDE DEF su
      <4>4. ASSUME NEW k \in DOMAIN su PROVE WireTyped(su[k].field)
        <5>1. CASE k \in DOMAIN s
          BY <4>2, <4>3, <5>1 DEF IsConcat
        <5>2. CASE k \notin DOMAIN s
          <6> DEFINE j == k - Len(s)
          <6>1. j \in DOMAIN u /\ Len(s) + j = k
            BY <4>3, <5>2 DEF IsConcat
          <6> HIDE DEF j
          <6>2. su[k] = u[j]
            BY <4>3, <6>1 DEF IsConcat
          <6> QED BY <4>2, <6>1, <6>2
        <5> QED BY <5>1, <5>2
      <4>5. Typed(su)
        BY <4>4
      <4>6. PICK a, p, q : OnlyConnection(d, ConnectionOf(a, su, p, q))
        BY <4>1 DEF su, s, u
      <4> HIDE DEF Typed
      <4> QED BY <1>5, <4>5, <4>6
    <3> QED BY <3>1, <3>2
  <2> QED BY <2>1, <2>2, <2>3, ReplySteps
<1>8. ASSUME NEW t \in Thread, threads[t].at # "idle", NEW status, NEW reply, NEW from,
             Returns(t, status, reply, from), status = "ok" => IsMessage(ReplyClass(CallOf(t)), reply)
      PROVE  \A n \in DOMAIN callLog' : Good(callLog'[n])
  <2>1. /\ DOMAIN callLog' = DOMAIN callLog
        /\ callLog'[threads[t].call] = [call |-> CallOf(t), status |-> status, reply |-> reply, from |-> from]
        /\ \A n \in DOMAIN callLog : n # threads[t].call => callLog'[n] = callLog[n]
    BY <1>8, ReturnsShape
  <2>2. Good(callLog'[threads[t].call])
    BY <1>8, <2>1
  <2> HIDE DEF Good
  <2> QED BY <1>1, <2>1, <2>2
<1>9. ASSUME NEW t \in Thread, threads[t].at # "idle"
      PROVE  \A wire : IsSequence(wire) /\ (\A k \in DOMAIN wire : WireTyped(wire[k]))
               => IsMessage(ReplyClass(CallOf(t)), Parse(ReplyPrototype(t), wire))
  <2>1. CallOf(t) \in Requests
    BY <1>9 DEF Shape, IsThread, IsCall, CallOf
  <2>2. CallOf(t).service \in DOMAIN Services /\ CallOf(t).method \in Services[CallOf(t).service]
    BY <2>1, MessagesAssumption
  <2> QED BY <2>2, ReplyTyped DEF ReplyClass, ReplyPrototype
<1>10. ASSUME NEW t \in Thread, threads[t].at # "idle", SetFailed(t)
       PROVE  \A n \in DOMAIN callLog' : Good(callLog'[n])
  <2>1. Returns(t, "failed", <<>>, {})
    BY <1>10 DEF SetFailed
  <2> HIDE DEF Good
  <2> QED BY <1>8, <1>10, <2>1
<1>11. ASSUME NEW t \in Thread, threads[t].at # "idle", Receive(t)
       PROVE  \A n \in DOMAIN callLog' : Good(callLog'[n])
  <2> DEFINE c == threads[t].fd
             s == connections[c].toClient
             piece(e) == Piece(s, e[1], e[2])
  <2>1. PICK e \in Ends(s) :
          /\ c \in DOMAIN connections
          /\ IF Whole(piece(e))
             THEN Returns(t, "ok", Parse(ReplyPrototype(t), FieldsOf(piece(e))), CallsOf(piece(e)))
             ELSE SetFailed(t)
    BY <1>11, ReceiveIs
  <2>2. CASE ~Whole(piece(e))
    BY <1>10, <1>11, <2>1, <2>2
  <2>3. CASE Whole(piece(e))
    <3> DEFINE wire == FieldsOf(piece(e))
    <3>1. IsSplit(s, e, piece(e), RestOf(s, e[1], e[2])) /\ (\A k \in DOMAIN s : IsItem(s[k])) /\ Typed(s)
      BY <1>1, <1>3, <2>1, PieceIs
    <3>2. IsSequence(piece(e)) /\ \A k \in DOMAIN piece(e) : k \in DOMAIN s /\ piece(e)[k] = s[k]
      <4> HIDE DEF s, piece
      <4> QED BY <2>3, <3>1, WholePiece
    <3>3. /\ IsSequence(wire) /\ DOMAIN wire = 1 .. Len(piece(e)) /\ DOMAIN piece(e) = 1 .. Len(piece(e))
          /\ \A k \in 1 .. Len(piece(e)) : wire[k] = piece(e)[k].field
      BY <3>2, FieldsAre, SequenceIn
    <3> HIDE DEF wire, piece, s
    <3>4. \A k \in DOMAIN wire : WireTyped(wire[k])
      BY <3>1, <3>2, <3>3
    <3>5. IsMessage(ReplyClass(CallOf(t)), Parse(ReplyPrototype(t), wire))
      BY <1>9, <1>11, <3>3, <3>4
    <3>6. Returns(t, "ok", Parse(ReplyPrototype(t), wire), CallsOf(piece(e)))
      BY <2>1, <2>3 DEF wire
    <3> HIDE DEF Good
    <3> QED BY <1>8, <1>11, <3>5, <3>6
  <2> QED BY <2>2, <2>3
<1>12. ASSUME NEW t \in Thread, threads[t].at # "idle", ReceiveEnd(t)
       PROVE  \A n \in DOMAIN callLog' : Good(callLog'[n])
  <2>1. Returns(t, "ok", Parse(ReplyPrototype(t), <<>>), {})
    BY <1>12 DEF ReceiveEnd
  <2>2. IsSequence(<<>>)
    BY DEF IsSequence
  <2>3. IsMessage(ReplyClass(CallOf(t)), Parse(ReplyPrototype(t), <<>>))
    BY <1>9, <1>12, <2>2
  <2> HIDE DEF Good
  <2> QED BY <1>8, <1>12, <2>1, <2>3
<1>13. ASSUME NEW t \in Thread, BeginCall(t)
       PROVE  \A n \in DOMAIN callLog' : Good(callLog'[n])
  <2>1. PICK r : IsAppend(callLog', callLog, [call |-> r, status |-> "on", reply |-> <<>>, from |-> {}])
    BY <1>13, BeginCallShape
  <2>2. Good([call |-> r, status |-> "on", reply |-> <<>>, from |-> {}])
    OBVIOUS
  <2>3. \A n \in DOMAIN callLog' : n \in DOMAIN callLog \/ n = Len(callLog) + 1
    BY <2>1 DEF IsAppend
  <2> HIDE DEF Good
  <2> QED BY <1>1, <2>1, <2>2, <2>3 DEF IsAppend
<1> QED BY <1>1, <1>7, <1>10, <1>11, <1>12, <1>13, CallSteps


-----------------------------------------------------------------------------
(* A channel with one thread                                               *)

Alone(t) == \A u \in Thread : u # t => threads[u].at = "idle"

\* What a thread that is alone has to do with the connection of the channel.
HasConnection(x, fd) ==
  /\ x.at = "connect" => fd = -1
  /\ x.at = "recv" => fd # -1
  /\ x.at = "receiving" => x.fd = fd

ClosedButOne(fd) == \A c \in DOMAIN connections : connections[c].client = "open" => c = fd

LEMMA OneCallerIs ==
  OneCaller <=> /\ \A t, u \in Thread : IsBusy(t) /\ IsBusy(u) => t = u
                /\ \A t \in Thread : HasConnection(threads[t], m_clientFd)
                /\ ClosedButOne(m_clientFd)
BY DEF OneCaller, HasConnection, ClosedButOne

LEMMA OneCallerAfter ==
  ASSUME NEW t \in Thread, Alone(t), NEW x, OnlyThread(t, x), HasConnection(x, m_clientFd'), ClosedButOne(m_clientFd)'
  PROVE  OneCaller'
<1>1. /\ \A u \in Thread : u # t => threads'[u].at = "idle"
      /\ threads'[t] = x
  BY DEF Alone, OnlyThread
<1>2. \A u, v \in Thread : IsBusy(u)' /\ IsBusy(v)' => u = v
  BY <1>1 DEF IsBusy
<1>3. ASSUME NEW u \in Thread PROVE HasConnection(threads'[u], m_clientFd')
  BY <1>1 DEF HasConnection
<1> QED BY <1>2, <1>3 DEF OneCaller, HasConnection, ClosedButOne

LEMMA ClosedButOneKept ==
  ASSUME Shape, ClosedButOne(m_clientFd), m_clientFd' = m_clientFd
  PROVE  /\ connections' = connections => ClosedButOne(m_clientFd)'
         /\ \A c \in DOMAIN connections : \A a, b, p :
              OnlyConnection(c, ConnectionOf(a, b, p, connections[c].client)) => ClosedButOne(m_clientFd)'
<1>1. connections' = connections => ClosedButOne(m_clientFd)'
  BY DEF ClosedButOne
<1>2. ASSUME NEW c \in DOMAIN connections, NEW a, NEW b, NEW p,
             OnlyConnection(c, ConnectionOf(a, b, p, connections[c].client))
      PROVE  ClosedButOne(m_clientFd)'
  <2>1. connections'[c].client = connections[c].client
    BY <1>2 DEF OnlyConnection, ConnectionOf
  <2> QED BY <1>2, <2>1 DEF OnlyConnection, ClosedButOne
<1> QED BY <1>1, <1>2

LEMMA CloseLeavesNone ==
  ASSUME Shape, ClosedButOne(m_clientFd), Close
  PROVE  ClosedButOne(m_clientFd)' /\ m_clientFd' = -1
<1>1. CASE m_clientFd = -1
  <2>1. connections' = connections /\ m_clientFd' = m_clientFd
    BY <1>1, CloseIs
  <2> QED BY <1>1, <2>1, ClosedButOneKept
<1>2. CASE m_clientFd # -1
  <2>1. PICK a, b, p : OnlyConnection(m_clientFd, ConnectionOf(a, b, p, "closed"))
    BY <1>2, CloseIs
  <2>2. connections'[m_clientFd].client = "closed"
    BY <2>1 DEF OnlyConnection, ConnectionOf
  <2>3. \A c \in DOMAIN connections' : connections'[c].client = "open" => FALSE
    BY <2>1, <2>2 DEF OnlyConnection, ClosedButOne
  <2> QED BY <2>3, CloseIs DEF ClosedButOne
<1> QED BY <1>1, <1>2

LEMMA OneCallerKept ==
  ASSUME Shape, Next, ~shared', ~shared => OneCaller
  PROVE  OneCaller'
<1> DEFINE moved(t, at) == [at |-> at, call |-> threads[t].call, fd |-> threads[t].fd]
<1>1. OneCaller /\ ClosedButOne(m_clientFd)
  <2>1. ~shared
    BY HistoryGrows
  <2> QED BY <2>1, OneCallerIs
<1>2. \A t \in Thread : threads[t].at # "idle" => Alone(t)
  BY <1>1 DEF OneCaller, IsBusy, Alone
<1>3. \A t \in Thread : \A at : MoveTo(t, at) => OnlyThread(t, moved(t, at))
  BY MoveToIs
<1>4. /\ m_clientFd' = m_clientFd /\ connections' = connections => ClosedButOne(m_clientFd)'
  BY <1>1, ClosedButOneKept
<1>5. ASSUME NEW t \in Thread, threads[t].at # "idle", NEW status, NEW reply, NEW from, Returns(t, status, reply, from),
             ClosedButOne(m_clientFd)'
      PROVE  OneCaller'
  <2>1. OnlyThread(t, IdleThread)
    BY <1>5, ReturnsShape DEF OnlyThread
  <2>2. HasConnection(IdleThread, m_clientFd')
    BY DEF HasConnection, IdleThread
  <2> QED BY <1>2, <1>5, <2>1, <2>2, OneCallerAfter
<1>6. ASSUME NEW t \in Thread, BeginCall(t) PROVE OneCaller'
  <2> DEFINE Other == \E u \in Thread : threads[u].at # "idle"
             x == [at |-> IF m_clientFd = -1 THEN "connect" ELSE "send", call |-> Len(callLog) + 1, fd |-> -1]
  <2>1. ~Other
    <3>1. shared' = (shared \/ Other)
      BY <1>6 DEF BeginCall
    <3> HIDE DEF Other
    <3> QED BY <3>1, Zenon
  <2>2. Alone(t)
    BY <2>1 DEF Alone
  <2>3. OnlyThread(t, x)
    BY <1>6, BeginCallShape
  <2>4. m_clientFd' = m_clientFd /\ connections' = connections
    BY <1>6 DEF BeginCall
  <2>5. HasConnection(x, m_clientFd')
    BY <2>4 DEF HasConnection
  <2> HIDE DEF x
  <2> QED BY <1>4, <2>2, <2>3, <2>4, <2>5, OneCallerAfter
<1>7. ASSUME NEW t \in Thread, ThreadStep(t) PROVE OneCaller'
  <2>1. CASE Connect(t)
    <3>1. IsAppend(connections', connections, NewConnection) /\ m_clientFd' = Len(connections) + 1
      BY <2>1, ConnectIs
    <3>2. m_clientFd = -1 /\ threads[t].at # "idle" /\ OnlyThread(t, moved(t, "send"))
      BY <1>1, <1>3, <2>1 DEF Connect, OneCaller
    <3>3. -1 \notin DOMAIN connections
      BY <3>1 DEF IsAppend
    <3>4. ClosedButOne(m_clientFd)'
      BY <1>1, <3>1, <3>2, <3>3 DEF ClosedButOne, IsAppend
    <3>5. HasConnection(moved(t, "send"), m_clientFd')
      BY DEF HasConnection
    <3> HIDE DEF moved
    <3> QED BY <1>2, <3>2, <3>4, <3>5, OneCallerAfter
  <2>2. CASE ConnectFails(t)
    <3>1. threads[t].at # "idle" /\ Returns(t, "failed", <<>>, {})
          /\ connections' = connections /\ m_clientFd' = m_clientFd
      BY <1>1, <2>2 DEF ConnectFails, SetFailed, OneCaller
    <3> QED BY <1>4, <1>5, <3>1
  <2>3. CASE Send(t)
    <3>1. /\ threads[t].at # "idle" /\ OnlyThread(t, moved(t, "recv"))
          /\ m_clientFd # -1 /\ m_clientFd' = m_clientFd
      BY <1>3, <2>3 DEF Send, IsUsable
    <3>2. ClosedButOne(m_clientFd)'
      BY <1>1, <2>3, <3>1, SendIs, ClosedButOneKept
    <3>3. HasConnection(moved(t, "recv"), m_clientFd')
      BY <3>1 DEF HasConnection
    <3> HIDE DEF moved
    <3> QED BY <1>2, <3>1, <3>2, <3>3, OneCallerAfter
  <2>4. CASE SendFails(t)
    <3>1. /\ threads[t].at # "idle" /\ OnlyThread(t, moved(t, "reconnect"))
          /\ connections' = connections /\ m_clientFd' = m_clientFd
      BY <1>3, <2>4 DEF SendFails
    <3>2. HasConnection(moved(t, "reconnect"), m_clientFd')
      BY DEF HasConnection
    <3> HIDE DEF moved
    <3> QED BY <1>2, <1>4, <3>1, <3>2, OneCallerAfter
  <2>5. CASE CloseToReconnect(t)
    <3>1. threads[t].at # "idle" /\ OnlyThread(t, moved(t, "connect")) /\ Close
      BY <1>3, <2>5 DEF CloseToReconnect
    <3>2. ClosedButOne(m_clientFd)' /\ m_clientFd' = -1
      BY <1>1, <3>1, CloseLeavesNone
    <3>3. HasConnection(moved(t, "connect"), m_clientFd')
      BY <3>2 DEF HasConnection
    <3> HIDE DEF moved
    <3> QED BY <1>2, <3>1, <3>2, <3>3, OneCallerAfter
  <2>6. CASE EnterRecv(t)
    <3> DEFINE x == [at |-> IF m_clientFd = -1 THEN "giveUp" ELSE "receiving",
                    call |-> threads[t].call, fd |-> m_clientFd]
    <3>1. threads[t].at # "idle" /\ OnlyThread(t, x) /\ connections' = connections /\ m_clientFd' = m_clientFd
      BY <2>6, MoveToIs DEF EnterRecv
    <3>2. HasConnection(x, m_clientFd')
      BY <3>1 DEF HasConnection
    <3> HIDE DEF x
    <3> QED BY <1>2, <1>4, <3>1, <3>2, OneCallerAfter
  <2>7. CASE Receive(t)
    <3> DEFINE c == threads[t].fd
    <3>1. threads[t].at # "idle" /\ m_clientFd' = m_clientFd
      BY <2>7 DEF Receive
    <3>2. c \in DOMAIN connections /\ \E a, b, p : OnlyConnection(c, ConnectionOf(a, b, p, connections[c].client))
      BY <2>7, ReceiveIs
    <3>3. \E status, reply, from : Returns(t, status, reply, from)
      BY <2>7, ReceiveIs DEF SetFailed
    <3>4. ClosedButOne(m_clientFd)'
      BY <1>1, <3>1, <3>2, ClosedButOneKept
    <3> QED BY <1>5, <3>1, <3>3, <3>4
  <2>8. CASE ReceiveEnd(t)
    <3>1. threads[t].at # "idle" /\ connections' = connections /\ m_clientFd' = m_clientFd
          /\ \E status, reply, from : Returns(t, status, reply, from)
      BY <2>8 DEF ReceiveEnd
    <3> QED BY <1>4, <1>5, <3>1
  <2>9. CASE ReceiveFails(t)
    <3>1. /\ threads[t].at # "idle" /\ OnlyThread(t, moved(t, "giveUp"))
          /\ connections' = connections /\ m_clientFd' = m_clientFd
      BY <1>3, <2>9 DEF ReceiveFails
    <3>2. HasConnection(moved(t, "giveUp"), m_clientFd')
      BY DEF HasConnection
    <3> HIDE DEF moved
    <3> QED BY <1>2, <1>4, <3>1, <3>2, OneCallerAfter
  <2>10. CASE CloseToFail(t)
    <3>1. threads[t].at # "idle" /\ Returns(t, "failed", <<>>, {}) /\ Close
      BY <2>10 DEF CloseToFail, SetFailed
    <3> QED BY <1>1, <1>5, <3>1, CloseLeavesNone
  <2> QED BY <1>7, <2>1, <2>2, <2>3, <2>4, <2>5, <2>6, <2>7, <2>8, <2>9, <2>10 DEF ThreadStep
<1>8. ASSUME NEW c \in DOMAIN connections, threads' = threads, m_clientFd' = m_clientFd,
             \E a, b, p : OnlyConnection(c, ConnectionOf(a, b, p, connections[c].client))
      PROVE  OneCaller'
  <2>1. ClosedButOne(m_clientFd)'
    BY <1>1, <1>8, ClosedButOneKept
  <2> QED BY <1>1, <1>8, <2>1 DEF OneCaller, ClosedButOne, IsBusy
<1>9. ASSUME NEW c \in DOMAIN connections, ProviderStep(c) PROVE OneCaller'
  <2>1. PICK e \in Ends(connections[c].toServer) : Handles(c, e)
    BY <1>9, ProviderIs
  <2>2. threads' = threads /\ m_clientFd' = m_clientFd
        /\ \E a, b, p : OnlyConnection(c, ConnectionOf(a, b, p, connections[c].client))
    BY <2>1 DEF Handles
  <2> QED BY <1>8, <2>2
<1>10. ASSUME NEW c \in DOMAIN connections, PeerCloses(c) PROVE OneCaller'
  <2>1. threads' = threads /\ m_clientFd' = m_clientFd
    BY <1>10 DEF PeerCloses
  <2> QED BY <1>8, <1>10, <2>1, PeerClosesIs
<1> QED BY <1>6, <1>7, <1>9, <1>10 DEF Next


-----------------------------------------------------------------------------
(* Messages that arrive whole                                              *)

LEMMA WholeMessage ==
  ASSUME NEW s, IsSequence(s), NEW e \in Ends(s)
  PROVE  /\ s # <<>>
         /\ IsOneMessage(s, e) => Piece(s, e[1], e[2]) = s /\ RestOf(s, e[1], e[2]) = <<>>
<1> DEFINE piece == Piece(s, e[1], e[2])
           rest == RestOf(s, e[1], e[2])
<1>1. IsSplit(s, e, piece, rest)
  BY PieceIs
<1>2. Len(s) \in Nat /\ s = [k \in 1 .. Len(s) |-> s[k]]
  BY DEF IsSequence
<1> HIDE DEF piece, rest
<1>3. s # <<>>
  BY <1>1 DEF IsSplit
<1>4. ASSUME IsOneMessage(s, e) PROVE piece = s /\ rest = <<>>
  <2>1. e[1] = Len(s) /\ ~e[2]
    BY <1>1, <1>2, <1>4 DEF IsSplit, IsOneMessage
  <2>2. IsSequence(piece) /\ Len(piece) = Len(s) /\ \A k \in 1 .. Len(s) : piece[k] = s[k]
    BY <1>1, <2>1 DEF IsSplit
  <2>3. IsSequence(rest) /\ Len(rest) = 0
    BY <1>1, <1>2, <2>1 DEF IsSplit
  <2>4. piece = s
    BY <1>2, <2>2 DEF IsSequence
  <2>5. rest = <<>>
    BY <2>3 DEF IsSequence
  <2> QED BY <2>4, <2>5
<1> QED BY <1>3, <1>4 DEF piece, rest

LEMMA HeaderWhole ==
  ASSUME NEW r \in Requests
  PROVE  Parse(HeaderPrototype, Header[r]) =
           [service_name |-> r.service, method_name |-> r.method, args_size |-> Len(Arguments[r])]
<1>1. Header[r] = IF Len(Arguments[r]) = 0 THEN <<ServiceField(r), MethodField(r)>>
                  ELSE <<ServiceField(r), MethodField(r), SizeField(r)>>
  BY HeaderFields
<1>2. CASE Len(Arguments[r]) = 0
  BY <1>1, <1>2, HeaderParts
<1>3. CASE Len(Arguments[r]) # 0
  BY <1>1, <1>3, HeaderParts
<1> QED BY <1>2, <1>3

\* A request that arrives whole is handled.
LEMMA WholeIsHandled ==
  ASSUME NEW id, NEW r \in Requests
  PROVE  IsHandled(RequestOf(id, r)) /\ RequestOf(id, r)[1].of = id
<1> DEFINE piece == RequestOf(id, r)
           H == Header[r]
           A == Arguments[r]
           L == Len(piece)
           h == HeaderOf(piece)
           header == HeaderIn(piece)
           args == ArgsIn(piece)
<1>1. IsRequest(piece, id, H, A)
  BY RequestIs
<1>2. /\ IsSequence(H) /\ Len(H) \in Nat /\ DOMAIN H = 1 .. Len(H)
      /\ IsSequence(A) /\ Len(A) \in Nat /\ DOMAIN A = 1 .. Len(A)
  BY HeaderSequence, ArgumentsSequence, SequenceIn
<1>3. \A k \in DOMAIN piece : ~IsBroken(piece[k])
  BY RequestItemsAre DEF IsBroken
<1>4. /\ h = SubSeq(piece, 2, Min({L, 1 + piece[1].field}))
      /\ header = Parse(HeaderPrototype, FieldsOf(h))
      /\ args = SubSeq(piece, 2 + Len(h), Min({L, 2 + Len(h) + header.args_size - 1}))
  BY DEF HeaderOf, HeaderIn, ArgsIn, ArgsOf
<1>5. Parse(HeaderPrototype, H) = [service_name |-> r.service, method_name |-> r.method, args_size |-> Len(A)]
  BY HeaderWhole
<1> HIDE DEF piece, H, A, h, header, args
<1>6. /\ IsSequence(piece) /\ L = 1 + Len(H) + Len(A) /\ DOMAIN piece = 1 .. L /\ L \in Nat
      /\ piece[1] = Item(id, "size", Len(H))
      /\ \A k \in 1 .. Len(H) : piece[1 + k] = Item(id, "header", H[k])
  BY <1>1, <1>2 DEF IsRequest
<1> HIDE DEF L
<1>7. piece[1].part = "size" /\ piece[1].of = id /\ piece[1].field = Len(H)
  BY <1>6 DEF Item
<1>8. ASSUME NEW m \in Nat, m >= 1, NEW n \in Nat, n <= L
      PROVE  Whole(SubSeq(piece, m, n)) /\ IsSequence(SubSeq(piece, m, n))
             /\ Len(SubSeq(piece, m, n)) = (IF m <= n THEN n - m + 1 ELSE 0)
             /\ \A k \in 1 .. n - m + 1 : SubSeq(piece, m, n)[k] = piece[m + k - 1]
  <2> DEFINE part == SubSeq(piece, m, n)
  <2>1. /\ IsSequence(part) /\ Len(part) = (IF m <= n THEN n - m + 1 ELSE 0)
        /\ \A k \in 1 .. n - m + 1 : part[k] = piece[m + k - 1]
    BY <1>6, <1>8, SubSeqIs DEF L
  <2> HIDE DEF part
  <2>2. DOMAIN part = 1 .. Len(part)
    BY <2>1, SequenceIn
  <2>3. ASSUME NEW k \in DOMAIN part PROVE ~IsBroken(part[k])
    <3>1. m + k - 1 \in DOMAIN piece /\ k \in 1 .. n - m + 1
      BY <1>6, <1>8, <2>1, <2>2
    <3> QED BY <1>3, <2>1, <3>1
  <2> QED BY <2>1, <2>3 DEF Whole, part
<1>9. h = SubSeq(piece, 2, 1 + Len(H))
  <2>1. Min({L, 1 + Len(H)}) = 1 + Len(H)
    BY <1>2, <1>6, LessOfTwo
  <2> QED BY <1>4, <1>7, <2>1
<1>10. Whole(h) /\ IsSequence(h) /\ Len(h) = Len(H) /\ \A k \in 1 .. Len(H) : h[k].field = H[k]
  <2> DEFINE n == 1 + Len(H)
  <2>1. n \in Nat /\ n <= L /\ n - 2 + 1 = Len(H) /\ 2 \in Nat /\ 2 >= 1
    BY <1>2, <1>6
  <2>2. h = SubSeq(piece, 2, n)
    BY <1>9
  <2> HIDE DEF n
  <2>3. Whole(h) /\ IsSequence(h) /\ Len(h) = (IF 2 <= n THEN Len(H) ELSE 0)
        /\ \A k \in 1 .. Len(H) : h[k] = piece[2 + k - 1]
    BY <1>8, <2>1, <2>2
  <2>4. Len(h) = Len(H)
    BY <1>2, <2>1, <2>3
  <2>5. ASSUME NEW k \in 1 .. Len(H) PROVE h[k].field = H[k]
    <3>1. 2 + k - 1 = 1 + k
      BY <1>2
    <3>2. h[k] = Item(id, "header", H[k])
      BY <1>6, <2>3, <3>1
    <3> QED BY <3>2 DEF Item
  <2> QED BY <2>3, <2>4, <2>5
<1>11. header = [service_name |-> r.service, method_name |-> r.method, args_size |-> Len(A)]
  <2> DEFINE g == FieldsOf(h)
  <2>1. IsSequence(g) /\ Len(g) = Len(H) /\ \A k \in 1 .. Len(H) : g[k] = H[k]
    <3>1. IsSequence(g) /\ Len(g) = Len(h) /\ \A k \in 1 .. Len(h) : g[k] = h[k].field
      BY <1>10, FieldsAre
    <3> QED BY <1>10, <3>1
  <2>2. g = H
    <3> HIDE DEF g
    <3> QED BY <1>2, <2>1 DEF IsSequence
  <2> QED BY <1>4, <1>5, <2>2
<1>12. HasMethod(header)
  <2>1. r.service \in DOMAIN Services /\ r.method \in Services[r.service]
    BY MessagesAssumption
  <2> QED BY <1>11, <2>1 DEF HasMethod, m_serviceMap
<1>13. ArgsComplete(args, header)
  <2> DEFINE first == 2 + Len(H)
             last == first + Len(A) - 1
  <2>1. first \in Nat /\ first >= 1 /\ last = L /\ (IF first <= L THEN L - first + 1 ELSE 0) = Len(A)
    BY <1>2, <1>6
  <2>2. args = SubSeq(piece, first, L)
    <3>1. args = SubSeq(piece, first, Min({L, last}))
      <4>1. Len(h) = Len(H) /\ header.args_size = Len(A)
        BY <1>10, <1>11
      <4>2. args = SubSeq(piece, 2 + Len(H), Min({L, 2 + Len(H) + header.args_size - 1}))
        BY <1>4, <4>1, Zenon
      <4>3. args = SubSeq(piece, 2 + Len(H), Min({L, 2 + Len(H) + Len(A) - 1}))
        BY <4>1, <4>2, Zenon
      <4> QED BY <4>3
    <3>2. Min({L, L}) = L
      BY <1>6, LessOfTwo
    <3> QED BY <2>1, <3>1, <3>2
  <2>3. header.args_size = Len(A)
    BY <1>11
  <2> HIDE DEF first, last
  <2>4. L \in Nat /\ L <= L
    BY <1>6
  <2>5. Whole(args) /\ Len(args) = Len(A)
    BY <1>8, <2>1, <2>2, <2>4
  <2> QED BY <2>3, <2>5 DEF ArgsComplete
<1> QED BY <1>7, <1>10, <1>12, <1>13 DEF IsHandled, piece, h, header, args


-----------------------------------------------------------------------------
(* What a channel with one thread has on its connection                    *)

\* What there is for the call id that waits on connection x.
Exchange(x, id) ==
  RequestOnTheWay(x, id) \/ ReplyOnTheWay(x, id) \/ (NothingOnTheWay(x) /\ x.peer # "open")

\* What is on its way stays what it is when calls and served methods are added.
LEMMA KeptExchange ==
  ASSUME Shape, Grows, NEW x, NEW id \in DOMAIN callLog
  PROVE  /\ RequestOnTheWay(x, id) => RequestOnTheWay(x, id)'
         /\ ReplyOnTheWay(x, id) => ReplyOnTheWay(x, id)'
         /\ Exchange(x, id) => Exchange(x, id)'
<1>1. callLog'[id].call = callLog[id].call
  BY DEF Grows, CallsKept
<1>2. RequestOnTheWay(x, id) => RequestOnTheWay(x, id)'
  BY <1>1 DEF RequestOnTheWay, RequestItems
<1>3. ReplyOnTheWay(x, id) => ReplyOnTheWay(x, id)'
  BY <1>1 DEF ReplyOnTheWay, IsReplyTo, Grows, ServedKept
<1> QED BY <1>2, <1>3 DEF Exchange, NothingOnTheWay

LEMMA NothingAfter ==
  ASSUME m_clientFd' # -1 => NothingOnTheWay(connections'[m_clientFd']),
         \A t \in Thread : threads'[t].at \notin {"recv", "receiving"}
  PROVE  LoneExchange'
BY DEF LoneExchange, NothingOnTheWay, IsAwaiting

LEMMA ExchangeAfter ==
  ASSUME NEW t \in Thread, Alone(t), NEW y, OnlyThread(t, y), y.at \in {"recv", "receiving"},
         NEW id, y.call = id, NEW x, connections'[m_clientFd'] = x, Exchange(x, id)'
  PROVE  LoneExchange'
<1>1. threads'[t] = y /\ \A u \in Thread : u # t => threads'[u].at = "idle"
  BY DEF OnlyThread, Alone
<1>2. \A u \in Thread : IsAwaiting(u)' => u = t
  BY <1>1 DEF IsAwaiting
<1>3. threads'[t].call = id /\ IsAwaiting(t)'
  BY <1>1 DEF IsAwaiting
<1>4. \/ RequestOnTheWay(x, threads[t].call)' \/ ReplyOnTheWay(x, threads[t].call)'
      \/ NothingOnTheWay(x) /\ x.peer # "open"
  BY <1>3 DEF Exchange, RequestOnTheWay, ReplyOnTheWay, NothingOnTheWay, IsReplyTo, RequestItems
<1>5. \/ RequestOnTheWay(connections[m_clientFd], threads[t].call)'
      \/ ReplyOnTheWay(connections[m_clientFd], threads[t].call)'
      \/ NothingOnTheWay(connections[m_clientFd])' /\ connections'[m_clientFd'].peer # "open"
  BY <1>4 DEF RequestOnTheWay, ReplyOnTheWay, NothingOnTheWay, IsReplyTo, RequestItems
<1> QED BY <1>2, <1>3, <1>5 DEF LoneExchange

\* What the exchange is for one thread, in terms of what the connection is.
LEMMA ExchangeBefore ==
  ASSUME LoneExchange, m_clientFd # -1, NEW x, connections[m_clientFd] = x
  PROVE  /\ (\A t \in Thread : threads[t].at \notin {"recv", "receiving"}) => NothingOnTheWay(x)
         /\ \A t \in Thread : \A id : threads[t].at \in {"recv", "receiving"} /\ threads[t].call = id => Exchange(x, id)
BY DEF LoneExchange, IsAwaiting, Exchange


\* The peer takes the request of the call that waits, whole, and the reply to it is under way.
LEMMA AnswersExchange ==
  ASSUME Shape, Shape', Grows, WholeRequests, NEW c \in DOMAIN connections,
         NEW e \in Ends(connections[c].toServer), Handles(c, e), ~cut',
         NEW x, connections[c] = x, NEW id \in DOMAIN callLog, Exchange(x, id),
         NEW y, connections'[c] = y
  PROVE  ReplyOnTheWay(y, id)'
<1> DEFINE piece == Piece(connections[c].toServer, e[1], e[2])
           rest == RestOf(connections[c].toServer, e[1], e[2])
           r == callLog[id].call
<1>1. x.toServer # <<>> /\ IsSequence(x.toServer) /\ IsOneMessage(x.toServer, e)
  <2>1. IsSequence(x.toServer)
    BY DEF Shape, IsConnection, IsStream
  <2>2. ~(cut \/ ~IsOneMessage(x.toServer, e))
    BY Zenon DEF Handles
  <2> QED BY <2>1, <2>2, WholeMessage
<1>2. x.peer = "open" /\ x.toServer = RequestItems(id) /\ x.toClient = <<>>
  BY <1>1 DEF Exchange, RequestOnTheWay, ReplyOnTheWay, NothingOnTheWay
<1>3. r \in Requests /\ RequestItems(id) = RequestOf(id, r)
  BY RequestItemsKept
<1>4. piece = RequestOf(id, r) /\ rest = <<>>
  BY <1>1, <1>2, <1>3, WholeMessage
<1>5. IsHandled(piece) /\ piece[1].of = id
  BY <1>3, <1>4, WholeIsHandled
<1>6. HeaderIn(piece).service_name = r.service /\ HeaderIn(piece).method_name = r.method
  BY <1>5, HandledIs
<1> DEFINE reply(response) == Items(id, "reply", Serialize(ReplyClass(r), response))
<1>7. PICK response \in Response(r.service, r.method) :
        /\ IsAppend(served', served, ServedFor(piece, response))
        /\ OnlyConnection(c, ConnectionOf(rest, x.toClient \o ReplyFor(piece, response), x.peer, x.client))
  BY <1>5, <1>6 DEF Handles
<1>8. ReplyFor(piece, response) = reply(response)
  BY <1>5, <1>6 DEF ReplyFor, ReplyClass
<1>9. IsSequence(reply(response))
  <2>1. IsStream(ReplyFor(piece, response), {id})
    BY <1>5, <1>6, ReplyIs
  <2> QED BY <1>8, <2>1 DEF IsStream
<1>10. <<>> \o reply(response) = reply(response)
  <2>1. IsSequence(<<>>)
    BY DEF IsSequence
  <2> HIDE DEF reply
  <2> QED BY <1>9, <2>1, ConcatIs
<1>11. y.peer = "open" /\ y.toServer = <<>> /\ y.toClient = reply(response)
  <2> HIDE DEF reply, piece, rest
  <2>1. y = ConnectionOf(<<>>, reply(response), "open", x.client)
    BY <1>2, <1>4, <1>7, <1>8, <1>10 DEF OnlyConnection
  <2> QED BY <2>1 DEF ConnectionOf
<1>12. ServedFor(piece, response).of = id /\ ServedFor(piece, response).response = response
  BY <1>5 DEF ServedFor
<1>13. \E n \in DOMAIN served' : served'[n].of = id /\ served'[n].response = response
  <2> HIDE DEF piece
  <2> QED BY <1>7, <1>12 DEF IsAppend
<1>14. callLog'[id].call = r
  BY DEF Grows, CallsKept
<1> HIDE DEF r
<1> QED BY <1>11, <1>13, <1>14 DEF ReplyOnTheWay, IsReplyTo, reply

LEMMA PeerExchangeKept ==
  ASSUME Shape, Shape', Grows, WholeRequests, OneCaller, LoneExchange, ~cut', threads' = threads,
         m_clientFd' = m_clientFd, NEW c \in DOMAIN connections,
         (\E e \in Ends(connections[c].toServer) : Handles(c, e)) \/ PeerCloses(c)
  PROVE  LoneExchange'
<1>1. CASE m_clientFd = -1
  BY <1>1 DEF LoneExchange
<1>2. CASE m_clientFd # -1
  <2>1. PICK x, y : x = connections[m_clientFd] /\ y = connections'[m_clientFd']
    OBVIOUS
  <2>2. \E z : OnlyConnection(c, z)
    BY PeerClosesIs DEF Handles
  <2>3. c # m_clientFd => y = x
    <3>1. m_clientFd \in DOMAIN connections
      BY <1>2 DEF Shape
    <3> QED BY <2>1, <2>2, <3>1 DEF OnlyConnection
  <2>4. ASSUME c = m_clientFd, PeerCloses(c)
        PROVE  y.peer # "open" /\ y.toServer = <<>>
               /\ y.toClient \in {<<>>, x.toClient} /\ (y.peer = "reset" => y.toClient = <<>>)
               /\ (y.peer # "reset" => y.toClient = x.toClient)
    <3>1. y = ConnectionOf(<<>>, x.toClient, "closed", x.client) \/ y = ConnectionOf(<<>>, <<>>, "reset", x.client)
      BY <2>1, <2>4, PeerClosesIs DEF OnlyConnection
    <3> QED BY <3>1 DEF ConnectionOf
  <2>5. CASE \A t \in Thread : threads[t].at \notin {"recv", "receiving"}
    <3>1. NothingOnTheWay(x)
      BY <1>2, <2>1, <2>5, ExchangeBefore
    <3>2. c = m_clientFd => PeerCloses(c)
      <4>1. ASSUME c = m_clientFd, NEW e \in Ends(connections[c].toServer) PROVE FALSE
        <5>1. connections[c].toServer = <<>> /\ IsSequence(<<>>)
          BY <2>1, <3>1, <4>1 DEF NothingOnTheWay, IsSequence
        <5> QED BY <4>1, <5>1, WholeMessage
      <4> QED BY <4>1
    <3>3. NothingOnTheWay(y)
      BY <2>3, <2>4, <3>1, <3>2 DEF NothingOnTheWay
    <3> QED BY <2>1, <2>5, <3>3, NothingAfter
  <2>6. ASSUME NEW t \in Thread, threads[t].at \in {"recv", "receiving"} PROVE LoneExchange'
    <3>1. PICK id, w : id = threads[t].call /\ w = threads[t]
      OBVIOUS
    <3>2. Alone(t) /\ OnlyThread(t, w) /\ id \in DOMAIN callLog
      BY <2>6, <3>1 DEF OneCaller, IsBusy, Alone, OnlyThread, Shape, IsThread
    <3>3. Exchange(x, id)
      BY <1>2, <2>1, <2>6, <3>1, ExchangeBefore
    <3>4. Exchange(y, id)'
      <4>1. CASE c # m_clientFd
        BY <2>3, <3>2, <3>3, <4>1, KeptExchange
      <4>2. CASE c = m_clientFd /\ \E e \in Ends(connections[c].toServer) : Handles(c, e)
        <5>1. ReplyOnTheWay(y, id)'
          BY <2>1, <3>2, <3>3, <4>2, AnswersExchange
        <5> QED BY <5>1 DEF Exchange
      <4>3. CASE c = m_clientFd /\ PeerCloses(c)
        <5>1. Exchange(y, id)
          BY <2>4, <3>3, <4>3 DEF Exchange, RequestOnTheWay, ReplyOnTheWay, NothingOnTheWay
        <5> QED BY <3>2, <5>1, KeptExchange
      <4> QED BY <4>1, <4>2, <4>3
    <3> QED BY <2>1, <2>6, <3>1, <3>2, <3>4, ExchangeAfter
  <2> QED BY <2>5, <2>6
<1> QED BY <1>1, <1>2


\* A thread of its own that receives, and what it has to do with the connection.
LEMMA ReceivingExchange ==
  ASSUME Shape, OneCaller, LoneExchange, NEW t \in Thread, threads[t].at \in {"recv", "receiving"}
  PROVE  /\ m_clientFd \in DOMAIN connections /\ m_clientFd # -1
         /\ threads[t].at = "receiving" => threads[t].fd = m_clientFd
         /\ \A x, id : x = connections[m_clientFd] /\ id = threads[t].call => Exchange(x, id) /\ id \in DOMAIN callLog
<1>1. DOMAIN connections = 1 .. Len(connections)
  BY SequenceIn DEF Shape
<1>2. IsThread(threads[t], DOMAIN callLog, DOMAIN connections)
  BY DEF Shape
<1>3. m_clientFd \in DOMAIN connections /\ m_clientFd # -1
  BY <1>1, <1>2 DEF OneCaller, IsThread, Shape
<1>4. threads[t].at = "receiving" => threads[t].fd = m_clientFd
  BY DEF OneCaller
<1>5. ASSUME NEW x, NEW id, x = connections[m_clientFd], id = threads[t].call
      PROVE  Exchange(x, id) /\ id \in DOMAIN callLog
  <2>1. Exchange(x, id)
    BY <1>3, <1>5, ExchangeBefore
  <2>2. id \in DOMAIN callLog
    BY <1>2, <1>5 DEF IsThread
  <2> QED BY <2>1, <2>2
<1> QED BY <1>3, <1>4, <1>5

LEMMA SendExchangeKept ==
  ASSUME Shape, Shape', Grows, OneCaller, LoneExchange, NEW t \in Thread, Send(t)
  PROVE  LoneExchange'
<1> DEFINE z == [at |-> "recv", call |-> threads[t].call, fd |-> threads[t].fd]
<1>1. threads[t].at = "send" /\ m_clientFd # -1 /\ m_clientFd' = m_clientFd /\ callLog' = callLog
  BY DEF Send, IsUsable
<1>2. Alone(t) /\ OnlyThread(t, z)
  BY <1>1, MoveToIs DEF OneCaller, IsBusy, Alone, Send
<1>3. PICK x, y, w, id : x = connections[m_clientFd] /\ y = connections'[m_clientFd'] /\ w = z /\ id = threads[t].call
  OBVIOUS
<1>4. NothingOnTheWay(x) /\ id \in DOMAIN callLog
  <2>1. \A u \in Thread : threads[u].at \notin {"recv", "receiving"}
    BY <1>1, <1>2 DEF Alone
  <2>2. id \in DOMAIN callLog
    BY <1>1, <1>3 DEF Shape, IsThread
  <2> QED BY <1>1, <1>3, <2>1, <2>2, ExchangeBefore
<1>5. Exchange(y, id)
  <2>1. CASE x.peer = "open"
    <3>1. y = ConnectionOf(<<>> \o RequestItems(id), <<>>, "open", x.client)
      BY <1>1, <1>3, <1>4, <2>1, SendIs DEF NothingOnTheWay, OnlyConnection
    <3>2. <<>> \o RequestItems(id) = RequestItems(id)
      <4>1. IsSequence(RequestItems(id)) /\ IsSequence(<<>>)
        BY <1>4, RequestItemsKept DEF IsSequence
      <4> QED BY <4>1, ConcatIs
    <3> QED BY <3>1, <3>2 DEF Exchange, RequestOnTheWay, ConnectionOf
  <2>2. CASE x.peer # "open"
    <3>1. y = ConnectionOf(<<>>, <<>>, "reset", x.client)
      BY <1>1, <1>3, <1>4, <2>2, SendIs DEF NothingOnTheWay, OnlyConnection
    <3> QED BY <3>1 DEF Exchange, NothingOnTheWay, ConnectionOf
  <2> QED BY <2>1, <2>2
<1>6. Exchange(y, id)'
  BY <1>4, <1>5, KeptExchange
<1>7. OnlyThread(t, w) /\ w.at \in {"recv", "receiving"} /\ w.call = id
  BY <1>2, <1>3
<1> QED BY <1>2, <1>3, <1>6, <1>7, ExchangeAfter

LEMMA EnterRecvExchangeKept ==
  ASSUME Shape, Shape', Grows, OneCaller, LoneExchange, NEW t \in Thread, EnterRecv(t)
  PROVE  LoneExchange'
<1> DEFINE z == [at |-> "receiving", call |-> threads[t].call, fd |-> m_clientFd]
<1>1. threads[t].at = "recv" /\ m_clientFd' = m_clientFd /\ connections' = connections
  BY DEF EnterRecv
<1>2. Alone(t) /\ m_clientFd # -1 /\ OnlyThread(t, z)
  BY <1>1, MoveToIs DEF OneCaller, IsBusy, Alone
<1>3. PICK x, w, id : x = connections[m_clientFd] /\ w = z /\ id = threads[t].call
  OBVIOUS
<1>4. Exchange(x, id) /\ id \in DOMAIN callLog
  BY <1>1, <1>3, ReceivingExchange
<1>5. Exchange(x, id)'
  BY <1>4, KeptExchange
<1>6. OnlyThread(t, w) /\ w.at \in {"recv", "receiving"} /\ w.call = id /\ connections'[m_clientFd'] = x
  BY <1>1, <1>2, <1>3
<1> QED BY <1>2, <1>5, <1>6, ExchangeAfter

\* Whatever the thread received, there is nothing left.
LEMMA ReceivedNothingLeft ==
  ASSUME Shape, OneCaller, LoneExchange, NEW t \in Thread, threads[t].at = "receiving", m_clientFd' = m_clientFd,
         (Receive(t) /\ ~cut') \/ ReceiveEnd(t) \/ ReceiveFails(t)
  PROVE  NothingOnTheWay(connections'[m_clientFd'])
<1>1. PICK x, y, id : x = connections[m_clientFd] /\ y = connections'[m_clientFd'] /\ id = threads[t].call
  OBVIOUS
<1>2. m_clientFd \in DOMAIN connections /\ threads[t].fd = m_clientFd /\ Exchange(x, id)
  BY <1>1, ReceivingExchange
<1>3. CASE Receive(t) /\ ~cut'
  <2>1. PICK e \in Ends(x.toClient) :
          /\ y = ConnectionOf(x.toServer, RestOf(x.toClient, e[1], e[2]), x.peer, x.client)
          /\ cut' = (cut \/ ~IsOneMessage(x.toClient, e))
    BY <1>1, <1>2, <1>3, ReceiveIs DEF OnlyConnection
  <2>2. IsOneMessage(x.toClient, e)
    BY <1>3, <2>1, Zenon
  <2>3. IsSequence(x.toClient)
    BY <1>1, <1>2 DEF Shape, IsConnection, IsStream
  <2>4. x.toClient # <<>> /\ RestOf(x.toClient, e[1], e[2]) = <<>>
    BY <2>2, <2>3, WholeMessage
  <2>5. x.toServer = <<>>
    BY <1>2, <2>4 DEF Exchange, RequestOnTheWay, ReplyOnTheWay, NothingOnTheWay
  <2>6. y.toServer = <<>> /\ y.toClient = <<>>
    BY <2>1, <2>4, <2>5 DEF ConnectionOf
  <2> QED BY <1>1, <2>6 DEF NothingOnTheWay
<1>4. CASE ReceiveEnd(t) \/ ReceiveFails(t)
  <2>1. y = x /\ (x.peer = "reset" \/ (x.peer = "closed" /\ x.toClient = <<>>))
    BY <1>1, <1>2, <1>4 DEF ReceiveEnd, ReceiveFails, Incoming
  <2>2. x.toServer = <<>> /\ x.toClient = <<>>
    BY <1>2, <2>1 DEF Exchange, RequestOnTheWay, ReplyOnTheWay, NothingOnTheWay
  <2> QED BY <1>1, <2>1, <2>2 DEF NothingOnTheWay
<1> QED BY <1>3, <1>4

LEMMA LoneExchangeKept ==
  ASSUME Shape, Shape', Grows, Next, WholeRequests, OneCaller, ~shared', ~cut', LoneExchange
  PROVE  LoneExchange'
<1> DEFINE moved(t, at) == [at |-> at, call |-> threads[t].call, fd |-> threads[t].fd]
<1>1. \A t \in Thread : threads[t].at # "idle" => Alone(t)
  BY DEF OneCaller, IsBusy, Alone
<1>2. \A t \in Thread : \A at : MoveTo(t, at) => OnlyThread(t, moved(t, at))
  BY MoveToIs
<1>3. m_clientFd' = -1 => LoneExchange'
  BY DEF LoneExchange
<1>4. ASSUME NEW t \in Thread, Alone(t), NEW y, OnlyThread(t, y), y.at \notin {"recv", "receiving"},
             m_clientFd' # -1 => NothingOnTheWay(connections'[m_clientFd'])
      PROVE  LoneExchange'
  <2>1. \A u \in Thread : threads'[u].at \notin {"recv", "receiving"}
    BY <1>4 DEF Alone, OnlyThread
  <2> QED BY <1>4, <2>1, NothingAfter
<1>5. ASSUME NEW t \in Thread, Alone(t), threads[t].at \notin {"recv", "receiving"},
             connections' = connections, m_clientFd' = m_clientFd
      PROVE  m_clientFd' # -1 => NothingOnTheWay(connections'[m_clientFd'])
  <2>1. \A u \in Thread : ~IsAwaiting(u)
    BY <1>5 DEF Alone, IsAwaiting
  <2> QED BY <1>5, <2>1 DEF LoneExchange
<1>6. ASSUME NEW t \in Thread, NEW status, NEW reply, NEW from, threads[t].at # "idle", Returns(t, status, reply, from)
      PROVE  Alone(t) /\ OnlyThread(t, IdleThread) /\ IdleThread.at \notin {"recv", "receiving"}
  BY <1>1, <1>6, ReturnsShape DEF OnlyThread, IdleThread
<1>7. ASSUME NEW t \in Thread, BeginCall(t) PROVE LoneExchange'
  <2> DEFINE Other == \E u \in Thread : threads[u].at # "idle"
             x == [at |-> IF m_clientFd = -1 THEN "connect" ELSE "send", call |-> Len(callLog) + 1, fd |-> -1]
  <2>1. ~Other
    <3>1. shared' = (shared \/ Other)
      BY <1>7 DEF BeginCall
    <3> HIDE DEF Other
    <3> QED BY <3>1, Zenon
  <2>2. Alone(t) /\ threads[t].at \notin {"recv", "receiving"}
    BY <2>1 DEF Alone
  <2>3. OnlyThread(t, x) /\ m_clientFd' = m_clientFd /\ connections' = connections
    BY <1>7, BeginCallShape DEF BeginCall
  <2>4. x.at \notin {"recv", "receiving"}
    OBVIOUS
  <2> HIDE DEF x
  <2> QED BY <1>4, <1>5, <2>2, <2>3, <2>4
<1>8. ASSUME NEW t \in Thread, ThreadStep(t) PROVE LoneExchange'
  <2>1. CASE Connect(t)
    <3>1. IsAppend(connections', connections, NewConnection) /\ m_clientFd' = Len(connections) + 1
      BY <2>1, ConnectIs
    <3>2. NothingOnTheWay(connections'[m_clientFd'])
      BY <3>1 DEF IsAppend, NothingOnTheWay, NewConnection
    <3>3. threads[t].at # "idle" /\ OnlyThread(t, moved(t, "send")) /\ moved(t, "send").at \notin {"recv", "receiving"}
      BY <1>2, <2>1 DEF Connect
    <3> HIDE DEF moved
    <3> QED BY <1>1, <1>4, <3>2, <3>3
  <2>2. CASE ConnectFails(t) \/ CloseToFail(t) \/ CloseToReconnect(t)
    BY <1>3, <2>2 DEF ConnectFails, CloseToFail, CloseToReconnect, Close
  <2>3. CASE Send(t)
    BY <2>3, SendExchangeKept
  <2>4. CASE SendFails(t)
    <3>1. /\ threads[t].at = "send" /\ OnlyThread(t, moved(t, "reconnect"))
          /\ moved(t, "reconnect").at \notin {"recv", "receiving"}
          /\ connections' = connections /\ m_clientFd' = m_clientFd
      BY <1>2, <2>4 DEF SendFails
    <3> HIDE DEF moved
    <3> QED BY <1>1, <1>4, <1>5, <3>1
  <2>5. CASE EnterRecv(t)
    BY <2>5, EnterRecvExchangeKept
  <2>6. CASE Receive(t) \/ ReceiveEnd(t)
    <3>1. threads[t].at = "receiving" /\ m_clientFd' = m_clientFd
      BY <2>6 DEF Receive, ReceiveEnd
    <3>2. \E status, reply, from : Returns(t, status, reply, from)
      BY <2>6, ReceiveIs DEF SetFailed, ReceiveEnd
    <3>3. NothingOnTheWay(connections'[m_clientFd'])
      BY <2>6, <3>1, ReceivedNothingLeft
    <3> QED BY <1>4, <1>6, <3>1, <3>2, <3>3
  <2>7. CASE ReceiveFails(t)
    <3>1. /\ threads[t].at = "receiving" /\ m_clientFd' = m_clientFd /\ OnlyThread(t, moved(t, "giveUp"))
          /\ moved(t, "giveUp").at \notin {"recv", "receiving"}
      BY <1>2, <2>7 DEF ReceiveFails
    <3>2. NothingOnTheWay(connections'[m_clientFd'])
      BY <2>7, <3>1, ReceivedNothingLeft
    <3> HIDE DEF moved
    <3> QED BY <1>1, <1>4, <3>1, <3>2
  <2> QED BY <1>8, <2>1, <2>2, <2>3, <2>4, <2>5, <2>6, <2>7 DEF ThreadStep
<1>9. ASSUME NEW c \in DOMAIN connections, ProviderStep(c) \/ PeerCloses(c) PROVE LoneExchange'
  <2>1. threads' = threads /\ m_clientFd' = m_clientFd
    BY <1>9 DEF ProviderStep, PeerCloses
  <2>2. (\E e \in Ends(connections[c].toServer) : Handles(c, e)) \/ PeerCloses(c)
    BY <1>9, ProviderIs
  <2> QED BY <2>1, <2>2, PeerExchangeKept
<1> QED BY <1>7, <1>8, <1>9 DEF Next


-----------------------------------------------------------------------------
(* What a call returns                                                     *)

\* A peer that is not open stays so.
LEMMA PeersStayClosed ==
  ASSUME Shape, Next, NEW c \in DOMAIN connections, connections[c].peer # "open"
  PROVE  c \in DOMAIN connections' /\ connections'[c].peer # "open"
<1> DEFINE Closed == c \in DOMAIN connections' /\ connections'[c].peer # "open"
<1>1. connections' = connections => Closed
  OBVIOUS
<1>2. ASSUME NEW d \in DOMAIN connections, NEW a, NEW b, NEW p, NEW q,
             OnlyConnection(d, ConnectionOf(a, b, p, q)), p \in {"closed", "reset", connections[d].peer}
      PROVE  Closed
  <2>1. connections'[d].peer = p
    BY <1>2 DEF OnlyConnection, ConnectionOf
  <2> QED BY <1>2, <2>1 DEF OnlyConnection
<1>3. ASSUME Close PROVE Closed
  <2>1. CASE m_clientFd = -1
    BY <1>1, <1>3, <2>1, CloseIs
  <2>2. CASE m_clientFd # -1
    BY <1>2, <1>3, <2>2, CloseIs
  <2> QED BY <2>1, <2>2
<1> HIDE DEF Closed
<1>4. ASSUME NEW t \in Thread, ThreadStep(t) PROVE Closed
  <2>1. CASE Connect(t)
    BY <2>1, ConnectIs DEF IsAppend, Closed
  <2>2. CASE Send(t)
    BY <1>2, <2>2, SendIs
  <2>3. CASE CloseToReconnect(t) \/ CloseToFail(t)
    BY <1>3, <2>3 DEF CloseToReconnect, CloseToFail
  <2>4. CASE Receive(t)
    BY <1>2, <2>4, ReceiveIs
  <2>5. CASE ConnectFails(t) \/ SendFails(t) \/ EnterRecv(t) \/ ReceiveEnd(t) \/ ReceiveFails(t)
    BY <1>1, <2>5 DEF ConnectFails, SendFails, EnterRecv, ReceiveEnd, ReceiveFails
  <2> QED BY <1>4, <2>1, <2>2, <2>3, <2>4, <2>5 DEF ThreadStep
<1>5. ASSUME NEW t \in Thread, BeginCall(t) PROVE Closed
  BY <1>1, <1>5 DEF BeginCall
<1>6. ASSUME NEW d \in DOMAIN connections, PeerCloses(d) PROVE Closed
  BY <1>2, <1>6, PeerClosesIs
<1>7. ASSUME NEW d \in DOMAIN connections, ProviderStep(d) PROVE Closed
  <2>1. PICK e \in Ends(connections[d].toServer) : Handles(d, e)
    BY <1>7, ProviderIs
  <2> QED BY <1>2, <2>1 DEF Handles
<1> QED BY <1>4, <1>5, <1>6, <1>7 DEF Next, Closed

\* What there is to receive as the reply to call id gives what was responded.
LEMMA ReplyParsed ==
  ASSUME Shape, ServedTyped, NEW id \in DOMAIN callLog, NEW s, IsReplyTo(s, id), s # <<>>
  PROVE  /\ CallsOf(s) = {id}
         /\ \E n \in DOMAIN served :
              served[n].of = id /\ Parse(ReplyClass(callLog[id].call), FieldsOf(s)) = served[n].response
<1> DEFINE r == callLog[id].call
           proto == ReplyClass(r)
<1>1. PICK n \in DOMAIN served : served[n].of = id /\ s = Items(id, "reply", Serialize(proto, served[n].response))
  BY DEF IsReplyTo
<1>2. r \in Requests /\ IsPrototype(proto)
  <2>1. r \in Requests
    BY DEF Shape, IsCall
  <2>2. r.service \in DOMAIN Services /\ r.method \in Services[r.service]
    BY <2>1, MessagesAssumption
  <2> QED BY <2>1, <2>2, Prototypes DEF ReplyClass
<1>3. IsMessage(proto, served[n].response)
  BY <1>1 DEF ServedTyped
<1> DEFINE wire == Serialize(proto, served[n].response)
<1>4. IsSequence(wire) /\ Parse(proto, wire) = served[n].response
  BY <1>2, <1>3, MessageRoundTrip
<1>5. s = Items(id, "reply", wire)
  BY <1>1
<1> HIDE DEF r, proto, wire
<1>6. /\ IsSequence(s) /\ Len(s) = Len(wire) /\ Len(s) \in Nat /\ DOMAIN s = 1 .. Len(wire)
      /\ \A k \in 1 .. Len(wire) : s[k].of = id /\ s[k].field = wire[k]
  <2>1. /\ IsSequence(s) /\ Len(s) = Len(wire) /\ Len(wire) \in Nat /\ DOMAIN s = 1 .. Len(wire)
        /\ \A k \in 1 .. Len(wire) : s[k] = Item(id, "reply", wire[k])
    BY <1>4, <1>5, ItemsAre
  <2> QED BY <2>1 DEF Item
<1>7. CallsOf(s) = {id}
  <2>1. Len(s) # 0
    BY <1>6 DEF IsSequence
  <2>2. 1 \in DOMAIN s
    BY <1>6, <2>1
  <2> QED BY <1>6, <2>2 DEF CallsOf
<1>8. FieldsOf(s) = wire
  <2> DEFINE g == FieldsOf(s)
  <2>1. IsSequence(g) /\ Len(g) = Len(wire) /\ \A k \in 1 .. Len(wire) : g[k] = wire[k]
    BY <1>6, FieldsAre
  <2> HIDE DEF g
  <2>2. g = wire
    BY <1>4, <2>1 DEF IsSequence
  <2> QED BY <2>2 DEF g
<1> QED BY <1>1, <1>4, <1>7, <1>8 DEF proto, r

\* The thread that is alone receives the reply to its own call.
LEMMA ReceivesOwnReply ==
  ASSUME Shape, OneCaller, LoneExchange, ServedTyped, NEW t \in Thread, Receive(t), ~cut',
         NEW id, id = threads[t].call
  PROVE  /\ id \in DOMAIN callLog
         /\ \E n \in DOMAIN served : served[n].of = id /\ Returns(t, "ok", served[n].response, {id})
<1>1. PICK x : x = connections[m_clientFd]
  OBVIOUS
<1>2. threads[t].fd = m_clientFd /\ m_clientFd \in DOMAIN connections /\ Exchange(x, id) /\ id \in DOMAIN callLog
  BY <1>1, ReceivingExchange DEF Receive
<1>3. PICK e \in Ends(x.toClient) :
        LET piece == Piece(x.toClient, e[1], e[2]) IN
        /\ IF Whole(piece)
           THEN Returns(t, "ok", Parse(ReplyPrototype(t), FieldsOf(piece)), CallsOf(piece))
           ELSE SetFailed(t)
        /\ cut' = (cut \/ ~IsOneMessage(x.toClient, e))
  BY <1>1, <1>2, ReceiveIs
<1>4. IsOneMessage(x.toClient, e)
  BY <1>3, Zenon
<1>5. IsSequence(x.toClient)
  BY <1>1, <1>2 DEF Shape, IsConnection, IsStream
<1>6. x.toClient # <<>> /\ Piece(x.toClient, e[1], e[2]) = x.toClient /\ Whole(x.toClient)
  BY <1>4, <1>5, WholeMessage DEF IsOneMessage
<1>7. IsReplyTo(x.toClient, id)
  BY <1>2, <1>6 DEF Exchange, RequestOnTheWay, ReplyOnTheWay, NothingOnTheWay
<1>8. Returns(t, "ok", Parse(ReplyPrototype(t), FieldsOf(x.toClient)), CallsOf(x.toClient))
  BY <1>3, <1>6
<1>9. CallsOf(x.toClient) = {id}
  BY <1>2, <1>6, <1>7, ReplyParsed
<1>10. PICK n \in DOMAIN served :
         served[n].of = id /\ Parse(ReplyClass(callLog[id].call), FieldsOf(x.toClient)) = served[n].response
  BY <1>2, <1>6, <1>7, ReplyParsed
<1>11. ReplyPrototype(t) = ReplyClass(callLog[id].call)
  BY DEF ReplyPrototype, ReplyClass, CallOf
<1>12. Returns(t, "ok", served[n].response, {id})
  BY <1>8, <1>9, <1>10, <1>11, Zenon
<1> QED BY <1>2, <1>10, <1>12

LEMMA OwnReplyKept ==
  ASSUME Shape, Grows, Next, ServedTyped, OwnReplyUnlessShared,
         ~shared /\ ~cut => OneCaller /\ LoneExchange
  PROVE  OwnReplyUnlessShared'
<1> DEFINE AnyClosed == \E c \in DOMAIN connections' : connections'[c].peer # "open"
           Own(x, n) == \E m \in DOMAIN served' : served'[m].of = n /\ x.reply = served'[m].response
           Good(x, n) == x.status = "ok" => (x.from = {} /\ AnyClosed) \/ (x.from = {n} /\ Own(x, n))
<1>1. SUFFICES ASSUME ~shared', ~cut', NEW n \in DOMAIN callLog' PROVE Good(callLog'[n], n)
  BY DEF OwnReplyUnlessShared
<1>2. ~shared /\ ~cut /\ OneCaller /\ LoneExchange
  BY <1>1, HistoryGrows
<1>3. \A m \in DOMAIN served : m \in DOMAIN served' /\ served'[m] = served[m]
  BY DEF Grows, ServedKept
<1>4. \A c \in DOMAIN connections : connections[c].peer # "open" => AnyClosed
  BY PeersStayClosed
<1>5. ASSUME NEW i \in DOMAIN callLog PROVE Good(callLog[i], i)
  BY <1>2, <1>3, <1>4 DEF OwnReplyUnlessShared
<1> HIDE DEF AnyClosed
<1>6. CASE callLog' = callLog
  BY <1>5, <1>6
<1>7. ASSUME NEW t \in Thread, BeginCall(t) PROVE Good(callLog'[n], n)
  <2>1. PICK r : IsAppend(callLog', callLog, [call |-> r, status |-> "on", reply |-> <<>>, from |-> {}])
    BY <1>7, BeginCallShape
  <2>2. Good([call |-> r, status |-> "on", reply |-> <<>>, from |-> {}], n)
    OBVIOUS
  <2>3. n \in DOMAIN callLog \/ n = Len(callLog) + 1
    BY <2>1 DEF IsAppend
  <2> HIDE DEF Good
  <2> QED BY <1>5, <2>1, <2>2, <2>3 DEF IsAppend
<1>8. ASSUME NEW t \in Thread, threads[t].at # "idle", NEW status, NEW reply, NEW from, Returns(t, status, reply, from),
             status = "ok" => \/ (from = {} /\ AnyClosed)
                              \/ (from = {threads[t].call} /\ \E m \in DOMAIN served : served[m].of = threads[t].call
                                             /\ reply = served[m].response)
      PROVE  Good(callLog'[n], n)
  <2> DEFINE id == threads[t].call
             x == [call |-> CallOf(t), status |-> status, reply |-> reply, from |-> from]
  <2>1. /\ callLog'[id] = x /\ DOMAIN callLog' = DOMAIN callLog
        /\ n # id => callLog'[n] = callLog[n]
    BY <1>8, ReturnsShape
  <2>2. Good(x, id)
    BY <1>3, <1>8
  <2> HIDE DEF Good, x, id
  <2> QED BY <1>5, <2>1, <2>2
<1>9. ASSUME NEW t \in Thread, threads[t].at # "idle", SetFailed(t) PROVE Good(callLog'[n], n)
  <2>1. Returns(t, "failed", <<>>, {})
    BY <1>9 DEF SetFailed
  <2> HIDE DEF Good
  <2> QED BY <1>8, <1>9, <2>1
<1>10. ASSUME NEW t \in Thread, threads[t].at # "idle", Receive(t) PROVE Good(callLog'[n], n)
  <2>1. PICK id : id = threads[t].call
    OBVIOUS
  <2>2. PICK m \in DOMAIN served : served[m].of = id /\ Returns(t, "ok", served[m].response, {id})
    BY <1>1, <1>2, <1>10, <2>1, ReceivesOwnReply
  <2> HIDE DEF Good
  <2> QED BY <1>8, <1>10, <2>1, <2>2
<1>11. ASSUME NEW t \in Thread, threads[t].at # "idle", ReceiveEnd(t) PROVE Good(callLog'[n], n)
  <2>1. Returns(t, "ok", Parse(ReplyPrototype(t), <<>>), {}) /\ connections[threads[t].fd].peer = "closed"
    BY <1>11 DEF ReceiveEnd
  <2>2. threads[t].fd \in DOMAIN connections
    BY <1>11 DEF ReceiveEnd, Shape, IsThread
  <2>3. AnyClosed
    BY <1>4, <2>1, <2>2
  <2> HIDE DEF Good
  <2> QED BY <1>8, <1>11, <2>1, <2>3
<1> HIDE DEF Good
<1> QED BY <1>6, <1>7, <1>9, <1>10, <1>11, CallSteps


-----------------------------------------------------------------------------
(* The inductive invariant holds                                           *)

LEMMA InitIInv ==
  ASSUME Init
  PROVE  IInv
<1>1. IsSequence(<<>>) /\ DOMAIN <<>> = {}
  BY DEF IsSequence
<1>2. /\ callLog = <<>> /\ served = <<>>
      /\ threads = [t \in Thread |-> IdleThread] /\ shared = FALSE /\ cut = FALSE
  BY DEF Init
<1>3. \A t \in Thread : threads[t] = IdleThread
  BY <1>2
<1>4. \A ids, fds : IsThread(IdleThread, ids, fds)
  BY DEF IsThread, IdleThread
<1>5. /\ IsSequence(connections) /\ \A c \in DOMAIN connections : connections[c] = NewConnection
      /\ \A c \in DOMAIN connections : c = m_clientFd
      /\ m_clientFd \in {-1} \cup DOMAIN connections
  <2>1. CASE m_clientFd = -1 /\ connections = <<>>
    BY <1>1, <2>1
  <2>2. CASE m_clientFd = 1 /\ connections = <<NewConnection>>
    <3>1. IsSequence(connections)
      BY <2>2 DEF IsSequence
    <3>2. DOMAIN connections = {1} /\ connections[1] = NewConnection
      BY <2>2
    <3> QED BY <2>2, <3>1, <3>2
  <2> QED BY <2>1, <2>2 DEF Init
<1>6. /\ NothingOnTheWay(NewConnection) /\ NewConnection.peer = "open" /\ NewConnection.client = "open"
      /\ \A ids : IsConnection(NewConnection, ids)
  BY <1>1 DEF NothingOnTheWay, NewConnection, IsConnection, IsStream
<1>7. Shape
  BY <1>1, <1>2, <1>3, <1>4, <1>5, <1>6 DEF Shape
<1>8. \A c \in DOMAIN connections :
        DOMAIN connections[c].toServer = {} /\ DOMAIN connections[c].toClient = {}
  BY <1>1, <1>5, <1>6 DEF NothingOnTheWay
<1>9. WholeRequests /\ RepliesTyped /\ ServedAsSentOrEmpty /\ ServedTyped /\ OwnReplyUnlessShared
  BY <1>1, <1>2, <1>8 DEF WholeRequests, RepliesTyped, ServedAsSentOrEmpty, ServedTyped, OwnReplyUnlessShared
<1>10. \A t \in Thread : threads[t].at = "idle"
  BY <1>3 DEF IdleThread
<1>11. SentOnce
  BY <1>1, <1>2, <1>8, <1>10
     DEF SentOnce, UnderWayOnce, ServedOnce, IsUnderWay, WasServed, SizeAt, IsSending, IsBusy
<1>12. OneCaller
  BY <1>5, <1>10 DEF OneCaller, IsBusy
<1>13. LoneExchange
  BY <1>5, <1>6, <1>10 DEF LoneExchange, IsAwaiting
<1> QED BY <1>7, <1>9, <1>11, <1>12, <1>13 DEF IInv

LEMMA NextIInv ==
  ASSUME IInv, Next
  PROVE  IInv'
<1>1. Shape /\ WholeRequests /\ SentOnce /\ RepliesTyped /\ ServedAsSentOrEmpty /\ ServedTyped /\ OwnReplyUnlessShared
  BY DEF IInv
<1>2. (~shared => OneCaller) /\ (~shared /\ ~cut => LoneExchange)
  BY DEF IInv
<1>3. Shape' /\ Grows
  BY <1>1, NextShape
<1>4. WholeRequests'
  BY <1>1, <1>3, WholeRequestsKept
<1>5. SentOnce'
  BY <1>1, SentOnceKept
<1>6. RepliesTyped'
  BY <1>1, <1>3, RepliesTypedKept
<1>7. ServedAsSentOrEmpty' /\ ServedTyped'
  BY <1>1, <1>3, ServedAsSentKept
<1>8. ~shared' => OneCaller'
  BY <1>1, <1>2, OneCallerKept
<1>9. ASSUME ~shared', ~cut' PROVE LoneExchange'
  <2>1. ~shared /\ ~cut
    BY <1>1, <1>9, HistoryGrows
  <2> QED BY <1>1, <1>2, <1>3, <1>9, <2>1, LoneExchangeKept
<1>10. OwnReplyUnlessShared'
  BY <1>1, <1>2, <1>3, OwnReplyKept
<1> QED BY <1>3, <1>4, <1>5, <1>6, <1>7, <1>8, <1>9, <1>10 DEF IInv

LEMMA StutterIInv ==
  ASSUME IInv, UNCHANGED vars
  PROVE  IInv'
<1>1. /\ m_clientFd' = m_clientFd /\ connections' = connections /\ threads' = threads
      /\ callLog' = callLog /\ served' = served /\ shared' = shared /\ cut' = cut
  BY DEF vars
<1>2. Shape' /\ WholeRequests' /\ RepliesTyped' /\ ServedAsSentOrEmpty' /\ ServedTyped' /\ OwnReplyUnlessShared'
  BY <1>1 DEF IInv, Shape, WholeRequests, RequestItems, RepliesTyped, ServedAsSentOrEmpty, ServedTyped,
              OwnReplyUnlessShared, ReplyClass
<1>3. SentOnce'
  BY <1>1 DEF IInv, SentOnce, UnderWayOnce, ServedOnce, IsUnderWay, WasServed, IsSending, IsBusy
<1>4. (~shared => OneCaller)'
  BY <1>1 DEF IInv, OneCaller, IsBusy
<1>5. (~shared /\ ~cut => LoneExchange)'
  BY <1>1 DEF IInv, LoneExchange, IsAwaiting, RequestOnTheWay, ReplyOnTheWay, NothingOnTheWay,
              IsReplyTo, RequestItems, ReplyClass
<1> QED BY <1>2, <1>3, <1>4, <1>5 DEF IInv

\* The inductive invariant: of requests, that each is at one place only and whole behind its size;
\* of replies, that they are typed; of a channel that one thread uses, what its connection holds.
THEOREM IInvHolds == Spec => []IInv
<1>1. Init => IInv
  BY InitIInv
<1>2. IInv /\ [Next]_vars => IInv'
  BY NextIInv, StutterIInv
<1> QED BY <1>1, <1>2, PTL DEF Spec


-----------------------------------------------------------------------------
(* The properties                                                          *)

LEMMA DefaultIsMessage ==
  ASSUME NEW r \in Requests
  PROVE  LET proto == GetRequestPrototype(r.service, r.method) IN IsMessage(proto, DefaultMessage(proto))
<1> DEFINE proto == GetRequestPrototype(r.service, r.method)
           m == DefaultMessage(proto)
<1>1. r.service \in DOMAIN Services /\ r.method \in Services[r.service]
  BY MessagesAssumption
<1>2. IsPrototype(proto)
  BY <1>1, Prototypes
<1> HIDE DEF proto
<1>3. OnlyFields(proto.types, m)
  BY DEF DefaultMessage, Parse, OnlyFields
<1>4. ASSUME NEW name \in DOMAIN proto.types
      PROVE  IF proto.types[name] = "LogEntry"
             THEN IsSequence(m[name]) /\ \A k \in DOMAIN m[name] : IsEntry(m[name][k])
             ELSE IsScalar(proto.types[name], m[name])
  <2> DEFINE type == proto.types[name]
  <2>1. m[name] = FromWire(type, <<>>)
    BY ReadNothing DEF DefaultMessage, Parse
  <2>2. type \in {"bool", "int32", "uint32", "bytes", "LogEntry"}
    BY <1>2 DEF IsPrototype
  <2> HIDE DEF type
  <2>3. CASE type = "LogEntry"
    <3>1. m[name] = <<>>
      BY <2>1, <2>3 DEF FromWire
    <3>2. IsSequence(<<>>) /\ DOMAIN <<>> = {}
      BY DEF IsSequence
    <3> QED BY <2>3, <3>1, <3>2 DEF type
  <2>4. CASE type # "LogEntry"
    <3>1. m[name] = DefaultOf(type)
      BY <2>1, <2>4 DEF FromWire, ScalarFromWire
    <3> QED BY <2>2, <2>4, <3>1, DefaultIsScalar DEF type
  <2> QED BY <2>3, <2>4
<1> HIDE DEF m
<1>5. IsMessage(proto, m)
  BY <1>3, <1>4 DEF IsMessage
<1> QED BY <1>5 DEF proto, m

\* Of a reply that is nothing, the response was all defaults.
LEMMA NothingToSend ==
  ASSUME Shape, ServedTyped, NEW id \in DOMAIN callLog, IsReplyTo(<<>>, id)
  PROVE  \E n \in DOMAIN served :
           served[n].of = id /\ served[n].response = DefaultMessage(ReplyClass(callLog[id].call))
<1> DEFINE r == callLog[id].call
           proto == ReplyClass(r)
<1>1. PICK n \in DOMAIN served : served[n].of = id /\ <<>> = Items(id, "reply", Serialize(proto, served[n].response))
  BY DEF IsReplyTo
<1>2. IsPrototype(proto)
  <2>1. r \in Requests
    BY DEF Shape, IsCall
  <2>2. r.service \in DOMAIN Services /\ r.method \in Services[r.service]
    BY <2>1, MessagesAssumption
  <2> QED BY <2>2, Prototypes DEF ReplyClass
<1>3. IsMessage(proto, served[n].response)
  BY <1>1 DEF ServedTyped
<1> DEFINE wire == Serialize(proto, served[n].response)
<1>4. IsSequence(wire) /\ Parse(proto, wire) = served[n].response
  BY <1>2, <1>3, MessageRoundTrip
<1> HIDE DEF proto, wire
<1>5. Len(wire) = 0
  <2>1. Len(<<>>) = Len(wire)
    BY <1>1, <1>4, ItemsAre DEF wire
  <2> QED BY <2>1
<1>6. wire = <<>>
  BY <1>4, <1>5 DEF IsSequence
<1> QED BY <1>1, <1>4, <1>6 DEF DefaultMessage, proto

\* Every field of the channel, its threads and connections has its type, and whatever was parsed, of
\* the bytes of whatever message, is a message of the class it was parsed for.
THEOREM TypeCorrect == Spec => []TypeOK
<1>1. ASSUME IInv PROVE TypeOK
  <2>1. DOMAIN callLog = 1 .. Len(callLog) /\ Len(callLog) \in Nat
    BY <1>1, SequenceIn DEF IInv, Shape
  <2>2. m_clientFd \in {-1} \cup DOMAIN connections
    BY <1>1 DEF IInv, Shape
  <2>3. \A c \in DOMAIN connections :
          connections[c].peer \in {"open", "closed", "reset"} /\ connections[c].client \in {"open", "closed"}
    BY <1>1 DEF IInv, Shape, IsConnection
  <2>4. \A t \in Thread :
          /\ threads[t].at \in {"idle", "connect", "send", "reconnect", "recv", "receiving", "giveUp"}
          /\ threads[t].call \in 0 .. Len(callLog)
          /\ threads[t].at = "receiving" => threads[t].fd \in DOMAIN connections
    BY <1>1, <2>1 DEF IInv, Shape, IsThread
  <2>5. \A n \in DOMAIN callLog : callLog[n].status = "ok" =>
          IsMessage(GetResponsePrototype(callLog[n].call.service, callLog[n].call.method), callLog[n].reply)
    BY <1>1 DEF IInv, RepliesTyped, ReplyClass
  <2>6. ASSUME NEW n \in DOMAIN served
        PROVE  IsMessage(GetRequestPrototype(served[n].service, served[n].method), served[n].request)
    <3> DEFINE r == callLog[served[n].of].call
               proto == GetRequestPrototype(r.service, r.method)
    <3>1. r \in Requests
      BY <1>1 DEF IInv, Shape, IsCall
    <3>2. /\ served[n].service = r.service /\ served[n].method = r.method
          /\ served[n].request = r.request \/ served[n].request = DefaultMessage(proto)
      BY <1>1 DEF IInv, ServedAsSentOrEmpty
    <3>3. IsMessage(proto, r.request)
      BY <3>1, MessagesAssumption
    <3>4. IsMessage(proto, DefaultMessage(proto))
      BY <3>1, DefaultIsMessage
    <3> QED BY <3>2, <3>3, <3>4
  <2> QED BY <2>2, <2>3, <2>4, <2>5, <2>6 DEF TypeOK
<1> QED BY <1>1, IInvHolds, PTL

\* No call is served twice: the channel sends a request again only when it was not sent.
THEOREM ServedAtMostOnce == Spec => []ServedOnce
<1>1. IInv => ServedOnce
  BY DEF IInv, SentOnce
<1> QED BY <1>1, IInvHolds, PTL

\* A method is called with what its stub was called with, in every field, or with all defaults, of a
\* request that was cut; wherever the pieces of the stream end.
THEOREM ServedAsSent == Spec => []ServedAsSentOrEmpty
<1>1. IInv => ServedAsSentOrEmpty
  BY DEF IInv
<1> QED BY <1>1, IInvHolds, PTL

\* A call of a channel that only one thread uses, and whose messages arrive whole, has the reply to
\* its own request, in every field, or the empty one of a peer that closed.
THEOREM OwnReply == Spec => []OwnReplyUnlessShared
<1>1. IInv => OwnReplyUnlessShared
  BY DEF IInv
<1> QED BY <1>1, IInvHolds, PTL

\* A channel that one thread uses closes what it no longer uses.
THEOREM NoConnectionLeft == Spec => []NoConnectionForgotten
<1>1. IInv => NoConnectionForgotten
  BY DEF IInv, OneCaller, NoConnectionForgotten
<1> QED BY <1>1, IInvHolds, PTL

\* A thread that is alone in recv waits for what is under way, or for a response that is all defaults
\* and of which nothing is ever sent.
THEOREM LoneCallAnswered == Spec => []LoneCallIsAnswered
<1>1. ASSUME IInv PROVE LoneCallIsAnswered
  <2>1. Shape /\ ServedTyped
    BY <1>1 DEF IInv
  <2>2. ASSUME NEW t \in Thread, threads[t].at = "receiving", ~shared, ~cut,
               NEW x, x = connections[threads[t].fd], x.peer = "open"
        PROVE  \/ \E n \in DOMAIN (x.toServer \o x.toClient) : (x.toServer \o x.toClient)[n].of = threads[t].call
               \/ \E n \in DOMAIN served :
                    served[n].of = threads[t].call /\ served[n].response = DefaultMessage(ReplyPrototype(t))
    <3>1. PICK id : id = threads[t].call
      OBVIOUS
    <3> DEFINE r == callLog[id].call
               stream == x.toServer \o x.toClient
    <3>2. Exchange(x, id) /\ id \in DOMAIN callLog /\ threads[t].fd \in DOMAIN connections
      <4>1. OneCaller /\ LoneExchange
        BY <1>1, <2>2 DEF IInv
      <4> QED BY <2>1, <2>2, <3>1, <4>1, ReceivingExchange
    <3>3. IsSequence(x.toServer) /\ IsSequence(x.toClient)
      BY <2>1, <2>2, <3>2 DEF Shape, IsConnection, IsStream
    <3>4. r \in Requests
      BY <2>1, <3>2 DEF Shape, IsCall
    <3>5. CASE RequestOnTheWay(x, id)
      <4>1. x.toServer = RequestOf(id, r) /\ x.toClient = <<>>
        BY <3>5, RequestItemsOf DEF RequestOnTheWay
      <4>2. stream = RequestOf(id, r)
        <5>1. x.toServer \o <<>> = x.toServer
          BY <3>3, <4>1, ConcatIs
        <5> QED BY <4>1, <5>1
      <4>3. 1 \in DOMAIN RequestOf(id, r)
        <5>1. IsRequest(RequestOf(id, r), id, Header[r], Arguments[r])
          BY <3>4, RequestIs
        <5>2. Len(Header[r]) \in Nat /\ Len(Arguments[r]) \in Nat
          BY <3>4, HeaderSequence, ArgumentsSequence, SequenceIn
        <5> HIDE DEF r
        <5>3. Len(RequestOf(id, r)) \in Nat /\ Len(RequestOf(id, r)) >= 1
          <6> DEFINE h == Len(Header[r])
                     a == Len(Arguments[r])
          <6>1. Len(RequestOf(id, r)) = 1 + h + a
            BY <5>1 DEF IsRequest
          <6>2. h \in Nat /\ a \in Nat
            BY <5>2
          <6> HIDE DEF h, a
          <6> QED BY <6>1, <6>2
        <5>4. DOMAIN RequestOf(id, r) = 1 .. Len(RequestOf(id, r))
          BY <5>1, SequenceIn DEF IsRequest
        <5> QED BY <5>3, <5>4
      <4>4. RequestOf(id, r)[1].of = id
        BY <3>4, <4>3, RequestItemsAre
      <4> HIDE DEF r, stream
      <4> QED BY <3>1, <4>2, <4>3, <4>4 DEF stream
    <3>6. CASE ReplyOnTheWay(x, id)
      <4>1. x.toServer = <<>> /\ IsReplyTo(x.toClient, id)
        BY <3>6 DEF ReplyOnTheWay
      <4>2. stream = x.toClient
        BY <3>3, <4>1, ConcatIs
      <4>3. CASE x.toClient # <<>>
        <5>1. CallsOf(x.toClient) = {id}
          BY <2>1, <3>2, <4>1, <4>3, ReplyParsed
        <5> HIDE DEF stream
        <5> QED BY <3>1, <4>2, <5>1 DEF CallsOf, stream
      <4>4. CASE x.toClient = <<>>
        <5>1. \E n \in DOMAIN served : served[n].of = id /\ served[n].response = DefaultMessage(ReplyClass(r))
          BY <2>1, <3>2, <4>1, <4>4, NothingToSend
        <5>2. ReplyPrototype(t) = ReplyClass(r)
          BY <3>1 DEF ReplyPrototype, ReplyClass, CallOf
        <5> QED BY <3>1, <5>1, <5>2
      <4> QED BY <4>3, <4>4
    <3> QED BY <2>2, <3>2, <3>5, <3>6 DEF Exchange
  <2> QED BY <2>2, Zenon DEF LoneCallIsAnswered
<1> QED BY <1>1, IInvHolds, PTL

====
