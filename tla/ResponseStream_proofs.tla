----------------------- MODULE ResponseStream_proofs -----------------------
(***************************************************************************)
(* For any answers and calls, cut into events in any way, held back,       *)
(* refused or broken off: the events an Anthropic client is sent are in    *)
(* order, every client is told to run tools exactly when it was sent       *)
(* calls, and every client of an answer with at most one block of calls    *)
(* is told all of it, once.  First what the operators on texts do, by      *)
(* inductions over sets of numbers; then the types, and the order of the   *)
(* events; then what markup and white space do to a text and the sieve to  *)
(* an answer that is on its way; at last what the client is told.          *)
(***************************************************************************)
EXTENDS ResponseStream, SequenceTheorems, FiniteSetTheorems, WellFoundedInduction, TLAPS

-----------------------------------------------------------------------------
(* Flattening and picking of sequences.                                      *)

LEMMA SetInduction ==
    ASSUME NEW S, 0 \in S, \A n \in Nat : n \in S => n + 1 \in S
    PROVE  \A n \in Nat : n \in S
<1>. SUFFICES ASSUME NEW m \in Nat, m \notin S PROVE FALSE
  OBVIOUS
<1>. DEFINE T == {n \in Nat : n \notin S}
            R == OpToRel(<, Nat)
<1>1. IsWellFoundedOn(R, Nat)
  BY NatLessThanWellFounded
<1>2. \A x, y \in Nat : x < y => <<x, y>> \in R
  BY DEF OpToRel
<1>3. T \subseteq Nat /\ T # {}
  OBVIOUS
<1>. HIDE DEF R, T
<1>4. PICK x \in T : \A y \in T : ~ (<<y, x>> \in R)
  BY <1>1, <1>3, WFMin
<1>5. x \in Nat /\ x # 0 /\ x - 1 \in Nat
  BY <1>3, <1>4 DEF T
<1>6. <<x - 1, x>> \in R
  BY <1>2, <1>5
<1>7. x - 1 \in S
  BY <1>4, <1>5, <1>6 DEF T
<1>8. x = (x - 1) + 1
  BY <1>5
<1>9. x \in S
  BY <1>5, <1>7, <1>8
<1>. QED  BY <1>4, <1>9 DEF T

\* FlattenSeq's function, of the first n sequences.
Flattening(f, seqs, n) ==
    f = [i \in 1 .. n |-> IF i = 1 THEN seqs[i] ELSE f[i - 1] \o seqs[i]]

LEMMA FlatteningExists ==
    ASSUME NEW seqs, NEW n \in Nat
    PROVE  \E f : Flattening(f, seqs, n)
<1>. DEFINE S == {k \in Nat : \E f : Flattening(f, seqs, k)}
<1>1. 0 \in S
  <2>. DEFINE g == [i \in 1 .. 0 |-> seqs[i]]
  <2>1. Flattening(g, seqs, 0)
    BY DEF Flattening
  <2>. QED  BY <2>1
<1>2. ASSUME NEW k \in Nat, k \in S PROVE k + 1 \in S
  <2>1. PICK f : Flattening(f, seqs, k)
    BY <1>2
  <2>. DEFINE last == IF k = 0 THEN seqs[1] ELSE f[k] \o seqs[k + 1]
              g == [i \in 1 .. k + 1 |-> IF i = k + 1 THEN last ELSE f[i]]
  <2>2. ASSUME NEW i \in 1 .. k + 1
        PROVE  g[i] = IF i = 1 THEN seqs[i] ELSE g[i - 1] \o seqs[i]
    <3>1. CASE i = k + 1
      <4>1. g[i] = last /\ (k # 0 => g[k] = f[k])
        BY <3>1
      <4>. HIDE DEF g
      <4>. QED  BY <3>1, <4>1
    <3>2. CASE i \in 1 .. k
      <4>1. g[i] = f[i] /\ (i # 1 => g[i - 1] = f[i - 1])
        BY <3>2
      <4>2. f[i] = IF i = 1 THEN seqs[i] ELSE f[i - 1] \o seqs[i]
        BY <2>1, <3>2 DEF Flattening
      <4>. HIDE DEF g
      <4>. QED  BY <3>2, <4>1, <4>2
    <3>. QED  BY <3>1, <3>2
  <2>3. Flattening(g, seqs, k + 1)
    BY <2>2 DEF Flattening
  <2>. HIDE DEF g
  <2>. QED  BY <2>3
<1>. HIDE DEF S
<1>3. n \in S
  BY <1>1, <1>2, SetInduction
<1>. QED  BY <1>3 DEF S

LEMMA FlatteningStep ==
    ASSUME NEW seqs, NEW n \in Nat, NEW f, Flattening(f, seqs, n), NEW i \in 1 .. n
    PROVE  f[i] = IF i = 1 THEN seqs[i] ELSE f[i - 1] \o seqs[i]
<1>. DEFINE h == [k \in 1 .. n |-> IF k = 1 THEN seqs[k] ELSE f[k - 1] \o seqs[k]]
<1>1. f = h
  BY DEF Flattening
<1>2. h[i] = IF i = 1 THEN seqs[i] ELSE f[i - 1] \o seqs[i]
  OBVIOUS
<1>. QED  BY <1>1, <1>2

LEMMA FlattenValue ==
    ASSUME NEW seqs, Len(seqs) \in Nat, Len(seqs) # 0
    PROVE  \E f : Flattening(f, seqs, Len(seqs)) /\ FlattenSeq(seqs) = f[Len(seqs)]
<1>. DEFINE flat == CHOOSE f : Flattening(f, seqs, Len(seqs))
<1>1. FlattenSeq(seqs) = flat[Len(seqs)]
  BY DEF FlattenSeq, Flattening
<1>2. Flattening(flat, seqs, Len(seqs))
  BY FlatteningExists
<1>. QED  BY <1>1, <1>2

LEMMA FlatteningAgrees ==
    ASSUME NEW s, NEW n \in Nat, NEW f, Flattening(f, s, n),
           NEW t, NEW m \in Nat, NEW g, Flattening(g, t, m),
           n <= m, \A i \in 1 .. n : s[i] = t[i], NEW j \in 1 .. n
    PROVE  f[j] = g[j]
<1>. DEFINE S == {k \in Nat : k \in 1 .. n => f[k] = g[k]}
<1>1. 0 \in S
  OBVIOUS
<1>2. ASSUME NEW k \in Nat, k \in S PROVE k + 1 \in S
  <2>. SUFFICES ASSUME k + 1 \in 1 .. n PROVE f[k + 1] = g[k + 1]
    OBVIOUS
  <2>1. k + 1 \in 1 .. m
    OBVIOUS
  <2>2. /\ f[k + 1] = IF k + 1 = 1 THEN s[k + 1] ELSE f[k + 1 - 1] \o s[k + 1]
        /\ g[k + 1] = IF k + 1 = 1 THEN t[k + 1] ELSE g[k + 1 - 1] \o t[k + 1]
    BY <2>1, FlatteningStep
  <2>3. k # 0 => f[k] = g[k] /\ k + 1 - 1 = k /\ k + 1 # 1
    BY <1>2
  <2>4. k = 0 => k + 1 = 1
    OBVIOUS
  <2>. QED  BY <2>2, <2>3, <2>4
<1>. HIDE DEF S
<1>3. \A k \in Nat : k \in S
  BY <1>1, <1>2, SetInduction
<1>. QED  BY <1>3 DEF S

\* FlattenSeq, one sequence after the other.
LEMMA FlattenAppend ==
    ASSUME NEW S, NEW seqs \in Seq(Seq(S)), NEW s \in Seq(S), FlattenSeq(seqs) \in Seq(S)
    PROVE  FlattenSeq(Append(seqs, s)) = FlattenSeq(seqs) \o s
<1>. DEFINE more == Append(seqs, s)
<1>1. more \in Seq(Seq(S)) /\ Len(more) = Len(seqs) + 1 /\ Len(seqs) \in Nat
      /\ (\A i \in 1 .. Len(seqs) : more[i] = seqs[i]) /\ more[Len(seqs) + 1] = s
  BY AppendProperties, LenProperties
<1>. HIDE DEF more
<1>2. PICK g : Flattening(g, more, Len(more)) /\ FlattenSeq(more) = g[Len(more)]
  BY <1>1, FlattenValue
<1>3. g[Len(more)] = IF Len(more) = 1 THEN more[1] ELSE g[Len(more) - 1] \o more[Len(more)]
  <2>1. Len(more) \in 1 .. Len(more)
    BY <1>1
  <2>. QED  BY <1>2, <2>1 DEF Flattening
<1>4. CASE Len(seqs) = 0
  <2>1. seqs = <<>> /\ FlattenSeq(seqs) = <<>>
    BY <1>4, EmptySeq DEF FlattenSeq
  <2>2. FlattenSeq(more) = s
    BY <1>1, <1>2, <1>3, <1>4
  <2>. QED  BY <2>1, <2>2, ConcatEmptySeq DEF more
<1>5. CASE Len(seqs) # 0
  <2>1. PICK f : Flattening(f, seqs, Len(seqs)) /\ FlattenSeq(seqs) = f[Len(seqs)]
    BY <1>1, <1>5, FlattenValue
  <2>2. \A i \in 1 .. Len(seqs) : seqs[i] = more[i]
    BY <1>1
  <2>3. f[Len(seqs)] = g[Len(seqs)]
    <3>1. Len(more) \in Nat /\ Len(seqs) \in Nat /\ Len(seqs) <= Len(more)
          /\ Len(seqs) \in 1 .. Len(seqs)
      BY <1>1, <1>5
    <3>2. Flattening(f, seqs, Len(seqs))
      BY <2>1
    <3>3. Flattening(g, more, Len(more))
      BY <1>2
    <3>. QED  BY <2>2, <3>1, <3>2, <3>3, FlatteningAgrees
  <2>4. g[Len(more)] = g[Len(seqs)] \o s
    <3>1. Len(more) \in 1 .. Len(more) /\ Len(more) # 1 /\ Len(more) - 1 = Len(seqs)
          /\ more[Len(more)] = s
      BY <1>1, <1>5
    <3>. QED  BY <1>3, <3>1
  <2>5. Len(seqs) \in 1 .. Len(seqs)
    BY <1>1, <1>5
  <2>. QED  BY <1>2, <2>1, <2>3, <2>4, <2>5 DEF more
<1>. QED  BY <1>4, <1>5

LEMMA FlattenEmpty == FlattenSeq(<<>>) = <<>>
BY DEF FlattenSeq

LEMMA OneMore ==
    ASSUME NEW S, NEW s \in Seq(S), NEW n \in 0 .. Len(s) - 1
    PROVE  /\ SubSeq(s, 1, n) \in Seq(S) /\ s[n + 1] \in S
           /\ SubSeq(s, 1, n + 1) = Append(SubSeq(s, 1, n), s[n + 1])
<1>1. Len(s) \in Nat /\ n + 1 \in 1 .. Len(s) /\ n \in Nat /\ n + 1 - 1 = n
  BY LenProperties
<1>2. s[n + 1] \in S
  BY <1>1, ElementOfSeq
<1>3. \A i \in 1 .. n : s[i] \in S
  BY <1>1, ElementOfSeq
<1>4. SubSeq(s, 1, n) \in Seq(S)
  BY <1>1, <1>3, SubSeqProperties
<1>5. SubSeq(s, 1, n + 1) = SubSeq(s, 1, n + 1 - 1) \o <<s[n + 1]>>
  BY <1>1, SubSeqRecursiveSecond
<1>. QED  BY <1>1, <1>2, <1>4, <1>5, AppendIsConcat

LEMMA FlattenOneMore ==
    ASSUME NEW S, NEW seqs \in Seq(Seq(S)), NEW n \in 0 .. Len(seqs) - 1,
           FlattenSeq(SubSeq(seqs, 1, n)) \in Seq(S)
    PROVE  /\ FlattenSeq(SubSeq(seqs, 1, n + 1)) = FlattenSeq(SubSeq(seqs, 1, n)) \o seqs[n + 1]
           /\ FlattenSeq(SubSeq(seqs, 1, n + 1)) \in Seq(S)
<1>1. /\ SubSeq(seqs, 1, n) \in Seq(Seq(S)) /\ seqs[n + 1] \in Seq(S)
      /\ SubSeq(seqs, 1, n + 1) = Append(SubSeq(seqs, 1, n), seqs[n + 1])
  BY OneMore
<1>2. FlattenSeq(SubSeq(seqs, 1, n + 1)) = FlattenSeq(SubSeq(seqs, 1, n)) \o seqs[n + 1]
  BY <1>1, FlattenAppend
<1>. QED  BY <1>1, <1>2, ConcatProperties

LEMMA FlattenPrefix ==
    ASSUME NEW S, NEW seqs \in Seq(Seq(S)), NEW k \in 0 .. Len(seqs)
    PROVE  FlattenSeq(SubSeq(seqs, 1, k)) \in Seq(S)
<1>. DEFINE T == {n \in Nat : n <= Len(seqs) => FlattenSeq(SubSeq(seqs, 1, n)) \in Seq(S)}
<1>1. 0 \in T
  <2>1. SubSeq(seqs, 1, 0) = <<>>
    BY SubSeqEmpty
  <2>. QED  BY <2>1, FlattenEmpty, EmptySeq
<1>2. ASSUME NEW n \in Nat, n \in T PROVE n + 1 \in T
  <2>. SUFFICES ASSUME n + 1 <= Len(seqs) PROVE FlattenSeq(SubSeq(seqs, 1, n + 1)) \in Seq(S)
    OBVIOUS
  <2>1. n \in 0 .. Len(seqs) - 1 /\ n <= Len(seqs)
    BY LenProperties
  <2>. QED  BY <1>2, <2>1, FlattenOneMore
<1>3. k \in Nat /\ k <= Len(seqs)
  BY LenProperties
<1>. HIDE DEF T
<1>4. k \in T
  BY <1>1, <1>2, <1>3, SetInduction
<1>. QED  BY <1>3, <1>4 DEF T

LEMMA FlattenType ==
    ASSUME NEW S, NEW seqs \in Seq(Seq(S))
    PROVE  FlattenSeq(seqs) \in Seq(S)
<1>1. Len(seqs) \in 0 .. Len(seqs)
  BY LenProperties
<1>. QED  BY <1>1, FlattenPrefix, SubSeqFull

\* FlattenSeq of n + 1 sequences, from that of n.
LEMMA FlattenNext ==
    ASSUME NEW S, NEW seqs \in Seq(Seq(S)), NEW n \in 0 .. Len(seqs) - 1
    PROVE  FlattenSeq(SubSeq(seqs, 1, n + 1)) = FlattenSeq(SubSeq(seqs, 1, n)) \o seqs[n + 1]
<1>1. n \in 0 .. Len(seqs)
  BY LenProperties
<1>. QED  BY <1>1, FlattenPrefix, FlattenOneMore

LEMMA FlattenConcatOne ==
    ASSUME NEW S, NEW s \in Seq(Seq(S)), NEW p \in Seq(Seq(S)), NEW x \in Seq(S)
    PROVE  FlattenSeq(s \o p) = FlattenSeq(s) \o FlattenSeq(p) =>
           FlattenSeq(s \o Append(p, x)) = FlattenSeq(s) \o FlattenSeq(Append(p, x))
<1>1. /\ FlattenSeq(s) \in Seq(S) /\ FlattenSeq(p) \in Seq(S)
      /\ s \o p \in Seq(Seq(S)) /\ FlattenSeq(s \o p) \in Seq(S)
  BY FlattenType, ConcatProperties
<1>2. s \o Append(p, x) = Append(s \o p, x)
  <2>1. Append(p, x) = p \o <<x>> /\ Append(s \o p, x) = (s \o p) \o <<x>>
    BY <1>1, AppendIsConcat
  <2>. QED  BY <2>1, ConcatAssociative
<1>3. /\ FlattenSeq(Append(s \o p, x)) = FlattenSeq(s \o p) \o x
      /\ FlattenSeq(Append(p, x)) = FlattenSeq(p) \o x
  BY <1>1, FlattenAppend
<1>4. PICK u \in Seq(S), v \in Seq(S) : u = FlattenSeq(s) /\ v = FlattenSeq(p)
  BY <1>1
<1>5. (u \o v) \o x = u \o (v \o x)
  BY ConcatAssociative, SMTT(30)
<1>. QED  BY <1>2, <1>3, <1>4, <1>5

LEMMA FlattenConcat ==
    ASSUME NEW S, NEW s \in Seq(Seq(S)), NEW t \in Seq(Seq(S))
    PROVE  FlattenSeq(s \o t) = FlattenSeq(s) \o FlattenSeq(t)
<1>. DEFINE Pre(n) == SubSeq(t, 1, n)
            T == {n \in Nat : n <= Len(t) =>
                    FlattenSeq(s \o Pre(n)) = FlattenSeq(s) \o FlattenSeq(Pre(n))}
<1>1. FlattenSeq(s) \in Seq(S) /\ Len(t) \in Nat
  BY FlattenType, LenProperties
<1>2. 0 \in T
  <2>1. Pre(0) = <<>>
    BY SubSeqEmpty
  <2>2. s \o <<>> = s /\ FlattenSeq(s) \o <<>> = FlattenSeq(s)
    BY <1>1, ConcatEmptySeq
  <2>. QED  BY <2>1, <2>2, FlattenEmpty
<1>3. ASSUME NEW n \in Nat, n \in T PROVE n + 1 \in T
  <2>. SUFFICES ASSUME n + 1 <= Len(t)
                PROVE  FlattenSeq(s \o Pre(n + 1)) = FlattenSeq(s) \o FlattenSeq(Pre(n + 1))
    OBVIOUS
  <2>1. n \in 0 .. Len(t) - 1
    BY <1>1
  <2>2. Pre(n) \in Seq(Seq(S)) /\ t[n + 1] \in Seq(S) /\ Pre(n + 1) = Append(Pre(n), t[n + 1])
    BY <2>1, OneMore
  <2>3. FlattenSeq(s \o Pre(n)) = FlattenSeq(s) \o FlattenSeq(Pre(n))
    BY <1>1, <1>3, <2>1
  <2>. QED  BY <2>2, <2>3, FlattenConcatOne, ZenonT(30)
<1>4. Len(t) \in T
  <2>. HIDE DEF T
  <2>. QED  BY <1>1, <1>2, <1>3, SetInduction
<1>5. SubSeq(t, 1, Len(t)) = t
  BY SubSeqFull
<1>6. FlattenSeq(s \o Pre(Len(t))) = FlattenSeq(s) \o FlattenSeq(Pre(Len(t)))
  BY <1>1, <1>4
<1>. QED  BY <1>5, <1>6

\* What Keep puts together.
Pieces(s, P) == [i \in 1 .. Len(s) |-> IF i \in P THEN <<s[i]>> ELSE <<>>]

LEMMA PiecesType ==
    ASSUME NEW S, NEW s \in Seq(S), NEW P
    PROVE  /\ Pieces(s, P) \in Seq(Seq(S)) /\ Len(Pieces(s, P)) = Len(s)
           /\ \A i \in 1 .. Len(s) : Pieces(s, P)[i] = IF i \in P THEN <<s[i]>> ELSE <<>>
<1>1. Len(s) \in Nat /\ \A i \in 1 .. Len(s) : s[i] \in S
  BY LenProperties, ElementOfSeq
<1>2. \A i \in 1 .. Len(s) : (IF i \in P THEN <<s[i]>> ELSE <<>>) \in Seq(S)
  BY <1>1
<1>. QED  BY <1>1, <1>2 DEF Pieces

LEMMA KeepType ==
    ASSUME NEW S, NEW s \in Seq(S), NEW P
    PROVE  Keep(s, P) \in Seq(S)
<1>1. Pieces(s, P) \in Seq(Seq(S))
  BY PiecesType
<1>2. FlattenSeq(Pieces(s, P)) \in Seq(S)
  BY <1>1, FlattenType
<1>. QED  BY <1>2 DEF Keep, Pieces

LEMMA KeepSame ==
    ASSUME NEW S, NEW s \in Seq(S), NEW P, NEW Q, \A i \in 1 .. Len(s) : i \in P <=> i \in Q
    PROVE  Keep(s, P) = Keep(s, Q)
<1>1. Pieces(s, P) = Pieces(s, Q)
  BY DEF Pieces
<1>. QED  BY <1>1 DEF Keep, Pieces

LEMMA KeepAll ==
    ASSUME NEW S, NEW s \in Seq(S), NEW P, \A i \in 1 .. Len(s) : i \in P
    PROVE  Keep(s, P) = s
<1>. DEFINE T == {n \in Nat : n <= Len(s) => FlattenSeq(SubSeq(Pieces(s, P), 1, n)) = SubSeq(s, 1, n)}
<1>1. /\ Pieces(s, P) \in Seq(Seq(S)) /\ Len(Pieces(s, P)) = Len(s) /\ Len(s) \in Nat
      /\ \A i \in 1 .. Len(s) : Pieces(s, P)[i] = <<s[i]>>
  BY PiecesType, LenProperties
<1>2. 0 \in T
  <2>1. SubSeq(Pieces(s, P), 1, 0) = <<>> /\ SubSeq(s, 1, 0) = <<>>
    BY SubSeqEmpty
  <2>. QED  BY <2>1, FlattenEmpty
<1>3. ASSUME NEW n \in Nat, n \in T PROVE n + 1 \in T
  <2>. SUFFICES ASSUME n + 1 <= Len(s)
                PROVE  FlattenSeq(SubSeq(Pieces(s, P), 1, n + 1)) = SubSeq(s, 1, n + 1)
    OBVIOUS
  <2>1. n \in 0 .. Len(s) - 1 /\ n <= Len(s) /\ n + 1 \in 1 .. Len(s)
    BY <1>1
  <2>2. SubSeq(s, 1, n) \in Seq(S) /\ s[n + 1] \in S /\ SubSeq(s, 1, n + 1) = Append(SubSeq(s, 1, n), s[n + 1])
    BY <2>1, OneMore
  <2>3. Append(SubSeq(s, 1, n), s[n + 1]) = SubSeq(s, 1, n) \o <<s[n + 1]>>
    BY <2>2, AppendIsConcat
  <2>4. FlattenSeq(SubSeq(Pieces(s, P), 1, n + 1)) = FlattenSeq(SubSeq(Pieces(s, P), 1, n)) \o <<s[n + 1]>>
    BY <1>1, <2>1, FlattenNext
  <2>. QED  BY <1>3, <2>1, <2>2, <2>3, <2>4
<1>4. Len(s) \in T
  <2>. HIDE DEF T
  <2>. QED  BY <1>1, <1>2, <1>3, SetInduction
<1>5. SubSeq(s, 1, Len(s)) = s /\ SubSeq(Pieces(s, P), 1, Len(s)) = Pieces(s, P)
  BY <1>1, SubSeqFull
<1>6. FlattenSeq(SubSeq(Pieces(s, P), 1, Len(s))) = SubSeq(s, 1, Len(s))
  BY <1>1, <1>4
<1>. QED  BY <1>5, <1>6 DEF Keep, Pieces

LEMMA PiecesConcat ==
    ASSUME NEW S, NEW s \in Seq(S), NEW t \in Seq(S), NEW P, NEW Q,
           \A i \in 1 .. Len(t) : i \in Q <=> Len(s) + i \in P
    PROVE  Pieces(s \o t, P) = Pieces(s, P) \o Pieces(t, Q)
<1>1. PICK w \in Seq(S) : w = s \o t
  BY ConcatProperties
<1>2. /\ Len(s) \in Nat /\ Len(t) \in Nat /\ Len(w) = Len(s) + Len(t)
      /\ \A i \in 1 .. Len(s) + Len(t) : w[i] = IF i <= Len(s) THEN s[i] ELSE t[i - Len(s)]
  BY <1>1, LenProperties, ConcatProperties
<1>3. PICK a \in Seq(Seq(S)) : /\ a = Pieces(s, P) /\ Len(a) = Len(s)
                               /\ \A i \in 1 .. Len(s) : a[i] = IF i \in P THEN <<s[i]>> ELSE <<>>
  BY PiecesType
<1>4. PICK b \in Seq(Seq(S)) : /\ b = Pieces(t, Q) /\ Len(b) = Len(t)
                               /\ \A i \in 1 .. Len(t) : b[i] = IF i \in Q THEN <<t[i]>> ELSE <<>>
  BY PiecesType
<1>5. PICK c \in Seq(Seq(S)) : /\ c = Pieces(w, P) /\ Len(c) = Len(w)
                               /\ \A i \in 1 .. Len(w) : c[i] = IF i \in P THEN <<w[i]>> ELSE <<>>
  BY PiecesType
<1>6. /\ a \o b \in Seq(Seq(S)) /\ Len(a \o b) = Len(w)
      /\ \A i \in 1 .. Len(w) : (a \o b)[i] = IF i <= Len(s) THEN a[i] ELSE b[i - Len(s)]
  <2>1. /\ a \o b \in Seq(Seq(S)) /\ Len(a \o b) = Len(a) + Len(b)
        /\ \A i \in 1 .. Len(a) + Len(b) : (a \o b)[i] = IF i <= Len(a) THEN a[i] ELSE b[i - Len(a)]
    BY ConcatProperties
  <2>. QED  BY <1>2, <1>3, <1>4, <2>1
<1>7. ASSUME NEW i \in 1 .. Len(w) PROVE c[i] = (a \o b)[i]
  <2>1. c[i] = IF i \in P THEN <<w[i]>> ELSE <<>>
    BY <1>5
  <2>2. CASE i <= Len(s)
    <3>1. i \in 1 .. Len(s) /\ i \in 1 .. Len(s) + Len(t)
      BY <1>2, <2>2
    <3>2. w[i] = s[i] /\ (a \o b)[i] = a[i]
      BY <1>2, <1>6, <2>2, <3>1
    <3>. QED  BY <1>3, <2>1, <3>1, <3>2
  <2>3. CASE ~ (i <= Len(s))
    <3>1. i - Len(s) \in 1 .. Len(t) /\ Len(s) + (i - Len(s)) = i /\ i \in 1 .. Len(s) + Len(t)
      BY <1>2, <2>3
    <3>2. w[i] = t[i - Len(s)] /\ (a \o b)[i] = b[i - Len(s)]
      BY <1>2, <1>6, <2>3, <3>1
    <3>3. i - Len(s) \in Q <=> i \in P
      BY <3>1
    <3>. QED  BY <1>4, <2>1, <3>1, <3>2, <3>3
  <2>. QED  BY <2>2, <2>3
<1>8. c = a \o b
  BY <1>5, <1>6, <1>7, SeqEqual
<1>. QED  BY <1>1, <1>3, <1>4, <1>5, <1>8

LEMMA KeepConcat ==
    ASSUME NEW S, NEW s \in Seq(S), NEW t \in Seq(S), NEW P, NEW Q,
           \A i \in 1 .. Len(t) : i \in Q <=> Len(s) + i \in P
    PROVE  Keep(s \o t, P) = Keep(s, P) \o Keep(t, Q)
<1>1. Pieces(s, P) \in Seq(Seq(S)) /\ Pieces(t, Q) \in Seq(Seq(S))
  BY PiecesType
<1>2. Pieces(s \o t, P) = Pieces(s, P) \o Pieces(t, Q)
  BY PiecesConcat
<1>3. FlattenSeq(Pieces(s, P) \o Pieces(t, Q)) = FlattenSeq(Pieces(s, P)) \o FlattenSeq(Pieces(t, Q))
  BY <1>1, FlattenConcat
<1>4. FlattenSeq(Pieces(s \o t, P)) = FlattenSeq(Pieces(s, P)) \o FlattenSeq(Pieces(t, Q))
  BY <1>2, <1>3
<1>5. \A x, X : Keep(x, X) = FlattenSeq(Pieces(x, X))
  BY DEF Keep, Pieces
<1>. QED  BY <1>4, <1>5

LEMMA MinOf ==
    ASSUME NEW X \in SUBSET Nat, X # {}
    PROVE  Min(X) \in X /\ \A y \in X : Min(X) <= y
<1>. DEFINE R == OpToRel(<, Nat)
<1>1. IsWellFoundedOn(R, Nat)
  BY NatLessThanWellFounded
<1>2. \A x, y \in Nat : x < y => <<x, y>> \in R
  BY DEF OpToRel
<1>. HIDE DEF R
<1>3. PICK x \in X : \A y \in X : ~ (<<y, x>> \in R)
  BY <1>1, WFMin
<1>4. \A y \in X : x <= y
  <2>. SUFFICES ASSUME NEW y \in X PROVE x <= y
    OBVIOUS
  <2>1. ~ (y < x)
    BY <1>2, <1>3
  <2>. QED  BY <2>1
<1>. QED  BY <1>4 DEF Min

LEMMA MaxOf ==
    ASSUME NEW n \in Nat, NEW X \in SUBSET (0 .. n), X # {}
    PROVE  Max(X) \in X /\ \A y \in X : y <= Max(X)
<1>. DEFINE Y == {n - x : x \in X}
<1>1. Y \in SUBSET Nat /\ Y # {}
  <2>1. \A x \in X : n - x \in Nat
    OBVIOUS
  <2>2. PICK x : x \in X
    OBVIOUS
  <2>3. n - x \in Y
    BY <2>2
  <2>. QED  BY <2>1, <2>3
<1>2. Min(Y) \in Y /\ \A y \in Y : Min(Y) <= y
  BY <1>1, MinOf
<1>3. PICK x \in X : Min(Y) = n - x
  BY <1>2
<1>4. \A y \in X : x >= y
  <2>. SUFFICES ASSUME NEW y \in X PROVE x >= y
    OBVIOUS
  <2>1. n - y \in Y
    OBVIOUS
  <2>. HIDE DEF Y
  <2>2. n - x <= n - y
    BY <1>2, <1>3, <2>1
  <2>. QED  BY <2>2
<1>. QED  BY <1>4 DEF Max

-----------------------------------------------------------------------------
\* The function of Blocks, of the first n symbols.
Finding(f, s, open, close, n) ==
    f = [i \in 0 .. n |-> IF i = 0 THEN <<>> ELSE Further(s, i, open, close, f[i - 1])]

LEMMA FindingExists ==
    ASSUME NEW s, NEW open, NEW close, NEW n \in Nat
    PROVE  \E f : Finding(f, s, open, close, n)
<1>. DEFINE S == {k \in Nat : \E f : Finding(f, s, open, close, k)}
<1>1. 0 \in S
  <2>. DEFINE g == [i \in 0 .. 0 |-> <<>>]
  <2>1. Finding(g, s, open, close, 0)
    BY DEF Finding
  <2>. QED  BY <2>1
<1>2. ASSUME NEW k \in Nat, k \in S PROVE k + 1 \in S
  <2>1. PICK f : Finding(f, s, open, close, k)
    BY <1>2
  <2>. DEFINE last == Further(s, k + 1, open, close, f[k])
              g == [i \in 0 .. k + 1 |-> IF i = k + 1 THEN last ELSE f[i]]
  <2>2. ASSUME NEW i \in 0 .. k + 1
        PROVE  g[i] = IF i = 0 THEN <<>> ELSE Further(s, i, open, close, g[i - 1])
    <3>1. CASE i = k + 1
      <4>1. g[i] = last /\ g[k] = f[k] /\ i - 1 = k /\ i # 0
        BY <3>1
      <4>. HIDE DEF g
      <4>. QED  BY <3>1, <4>1
    <3>2. CASE i \in 0 .. k
      <4>1. g[i] = f[i] /\ (i # 0 => g[i - 1] = f[i - 1])
        BY <3>2
      <4>2. f[i] = IF i = 0 THEN <<>> ELSE Further(s, i, open, close, f[i - 1])
        BY <2>1, <3>2 DEF Finding
      <4>. HIDE DEF g
      <4>. QED  BY <3>2, <4>1, <4>2
    <3>. QED  BY <3>1, <3>2
  <2>3. Finding(g, s, open, close, k + 1)
    BY <2>2 DEF Finding
  <2>. HIDE DEF g
  <2>. QED  BY <2>3
<1>. HIDE DEF S
<1>3. n \in S
  BY <1>1, <1>2, SetInduction
<1>. QED  BY <1>3 DEF S

LEMMA FindingStep ==
    ASSUME NEW s, NEW open, NEW close, NEW n \in Nat, NEW f, Finding(f, s, open, close, n)
    PROVE  /\ f[0] = <<>>
           /\ \A i \in 0 .. n - 1 : f[i + 1] = Further(s, i + 1, open, close, f[i])
<1>. DEFINE h == [k \in 0 .. n |-> IF k = 0 THEN <<>> ELSE Further(s, k, open, close, f[k - 1])]
<1>1. f = h
  BY DEF Finding
<1>2. h[0] = <<>>
  OBVIOUS
<1>3. ASSUME NEW i \in 0 .. n - 1 PROVE h[i + 1] = Further(s, i + 1, open, close, f[i])
  <2>1. i + 1 \in 0 .. n /\ i + 1 # 0 /\ i + 1 - 1 = i
    OBVIOUS
  <2>. QED  BY <2>1
<1>. HIDE DEF h
<1>. QED  BY <1>1, <1>2, <1>3

LEMMA BlocksValue ==
    ASSUME NEW s, NEW open, NEW close, Len(s) \in Nat
    PROVE  \E f : Finding(f, s, open, close, Len(s)) /\ Blocks(s, open, close) = f[Len(s)]
<1>. DEFINE found == CHOOSE f : Finding(f, s, open, close, Len(s))
<1>1. Blocks(s, open, close) = found[Len(s)]
  BY DEF Blocks, Finding
<1>2. Finding(found, s, open, close, Len(s))
  BY FindingExists
<1>. QED  BY <1>1, <1>2

\* First and last positions of what may be a block of s.
Spans(s) == {b \in (1 .. Len(s)) \X (1 .. Len(s)) : b[1] + 3 <= b[2]}

LEMMA FurtherType ==
    ASSUME NEW S, NEW s \in Seq(S), NEW i \in 1 .. Len(s), NEW open, NEW close,
           NEW found \in Seq(Spans(s))
    PROVE  Further(s, i, open, close, found) \in Seq(Spans(s))
<1>. DEFINE ends == {j \in i + 2 .. Len(s) : CloseAt(s, j, close)}
<1>1. Len(s) \in Nat /\ i \in Nat
  BY LenProperties
<1>2. CASE ends # {}
  <2>1. ends \in SUBSET Nat
    BY <1>1
  <2>2. Min(ends) \in ends
    BY <1>2, <2>1, MinOf
  <2>3. Min(ends) \in Nat /\ i + 2 <= Min(ends) /\ Min(ends) < Len(s)
    BY <1>1, <2>2 DEF CloseAt
  <2>. HIDE DEF ends
  <2>4. <<i, Min(ends) + 1>> \in Spans(s)
    BY <1>1, <2>3 DEF Spans
  <2>5. Append(found, <<i, Min(ends) + 1>>) \in Seq(Spans(s))
    BY <2>4, AppendProperties
  <2>. QED  BY <2>5 DEF Further, ends
<1>3. CASE ends = {}
  BY <1>3 DEF Further
<1>. QED  BY <1>2, <1>3

LEMMA FindingType ==
    ASSUME NEW S, NEW s \in Seq(S), NEW open, NEW close, NEW f,
           Finding(f, s, open, close, Len(s)), NEW n \in 0 .. Len(s)
    PROVE  f[n] \in Seq(Spans(s))
<1>. DEFINE T == {k \in Nat : k <= Len(s) => f[k] \in Seq(Spans(s))}
<1>1. Len(s) \in Nat
  BY LenProperties
<1>2. 0 \in T
  <2>1. f[0] = <<>>
    BY <1>1, FindingStep
  <2>. QED  BY <2>1, EmptySeq
<1>3. ASSUME NEW k \in Nat, k \in T PROVE k + 1 \in T
  <2>. SUFFICES ASSUME k + 1 <= Len(s) PROVE f[k + 1] \in Seq(Spans(s))
    OBVIOUS
  <2>1. k + 1 \in 1 .. Len(s) /\ k \in 0 .. Len(s) - 1
    BY <1>1
  <2>2. f[k + 1] = Further(s, k + 1, open, close, f[k])
    BY <1>1, <2>1, FindingStep
  <2>3. f[k] \in Seq(Spans(s))
    BY <1>1, <1>3
  <2>. QED  BY <2>1, <2>2, <2>3, FurtherType
<1>4. n \in T
  <2>. HIDE DEF T
  <2>. QED  BY <1>1, <1>2, <1>3, SetInduction
<1>. QED  BY <1>1, <1>4

LEMMA BlocksType ==
    ASSUME NEW S, NEW s \in Seq(S), NEW open, NEW close
    PROVE  Blocks(s, open, close) \in Seq(Spans(s))
<1>1. Len(s) \in Nat /\ Len(s) \in 0 .. Len(s)
  BY LenProperties
<1>2. PICK f : Finding(f, s, open, close, Len(s)) /\ Blocks(s, open, close) = f[Len(s)]
  BY <1>1, BlocksValue
<1>. QED  BY <1>1, <1>2, FindingType

-----------------------------------------------------------------------------
\* s has the tags that b has, d symbols further on, and no others.
Within(s, b, d, open, close) ==
    /\ d + Len(b) <= Len(s)
    /\ \A k \in 1 .. Len(s) :
          /\ OpenAt(s, k, open) <=> k - d \in 1 .. Len(b) /\ OpenAt(b, k - d, open)
          /\ CloseAt(s, k, close) <=> k - d \in 1 .. Len(b) /\ CloseAt(b, k - d, close)

Moved(x, y, d) ==
    Len(x) = Len(y) /\ \A n \in 1 .. Len(y) : x[n] = <<y[n][1] + d, y[n][2] + d>>

Ends(s, i, close) == {j \in i + 2 .. Len(s) : CloseAt(s, j, close)}

LEMMA EndsMove ==
    ASSUME NEW s, NEW b, NEW d \in Nat, NEW open, NEW close, Within(s, b, d, open, close),
           Len(s) \in Nat, Len(b) \in Nat, NEW k \in 1 .. Len(b)
    PROVE  /\ Ends(s, d + k, close) = {} <=> Ends(b, k, close) = {}
           /\ Ends(b, k, close) # {} =>
                 /\ Min(Ends(b, k, close)) \in Nat
                 /\ Min(Ends(s, d + k, close)) = Min(Ends(b, k, close)) + d
<1>. DEFINE E == Ends(s, d + k, close)
            F == Ends(b, k, close)
<1>. USE DEF Ends
<1>1. Len(s) \in Nat /\ Len(b) \in Nat /\ k \in Nat /\ d + Len(b) <= Len(s)
  BY DEF Within
<1>2. E \in SUBSET Nat /\ F \in SUBSET Nat
  BY <1>1
<1>3. ASSUME NEW j \in E PROVE j - d \in F
  <2>1. j \in 1 .. Len(s) /\ j \in d + k + 2 .. Len(s) /\ CloseAt(s, j, close)
    BY <1>1
  <2>2. j - d \in 1 .. Len(b) /\ CloseAt(b, j - d, close)
    BY <2>1 DEF Within
  <2>3. j - d \in k + 2 .. Len(b)
    BY <1>1, <2>1, <2>2
  <2>. QED  BY <2>2, <2>3
<1>4. ASSUME NEW j \in F PROVE j + d \in E
  <2>1. j \in k + 2 .. Len(b) /\ CloseAt(b, j, close)
    OBVIOUS
  <2>2. j + d \in 1 .. Len(s) /\ (j + d) - d = j /\ j \in 1 .. Len(b) /\ j + d \in d + k + 2 .. Len(s)
    BY <1>1, <2>1
  <2>3. CloseAt(s, j + d, close)
    BY <2>1, <2>2 DEF Within
  <2>. QED  BY <2>2, <2>3
<1>. HIDE DEF E, F
<1>5. ASSUME F # {} PROVE Min(F) \in Nat /\ Min(E) = Min(F) + d
  <2>1. Min(F) \in F /\ \A y \in F : Min(F) <= y
    BY <1>2, <1>5, MinOf
  <2>2. E # {}
    BY <1>4, <1>5
  <2>3. Min(E) \in E /\ \A y \in E : Min(E) <= y
    BY <1>2, <2>2, MinOf
  <2>4. Min(E) <= Min(F) + d
    BY <1>4, <2>1, <2>3
  <2>5. Min(F) <= Min(E) - d
    BY <1>3, <2>1, <2>3
  <2>6. Min(E) \in Nat /\ Min(F) \in Nat
    BY <1>2, <2>1, <2>3
  <2>7. \A p, q \in Nat : p <= q + d /\ q <= p - d => p = q + d
    OBVIOUS
  <2>. QED  BY <2>4, <2>5, <2>6, <2>7
<1>6. E = {} <=> F = {}
  BY <1>3, <1>4
<1>. QED  BY <1>5, <1>6 DEF E, F

LEMMA FurtherMoves ==
    ASSUME NEW S, NEW s \in Seq(S), NEW b \in Seq(S), NEW d \in Nat, NEW open, NEW close,
           Within(s, b, d, open, close), NEW k \in 1 .. Len(b),
           NEW x \in Seq(Spans(s)), NEW y \in Seq(Spans(b)), Moved(x, y, d)
    PROVE  Moved(Further(s, d + k, open, close, x), Further(b, k, open, close, y), d)
<1>l. Len(s) \in Nat /\ Len(b) \in Nat
  BY LenProperties
<1>1. /\ Ends(s, d + k, close) = {} <=> Ends(b, k, close) = {}
      /\ Ends(b, k, close) # {} =>
            /\ Min(Ends(b, k, close)) \in Nat
            /\ Min(Ends(s, d + k, close)) = Min(Ends(b, k, close)) + d
  BY EndsMove, <1>l
<1>. DEFINE E == Ends(s, d + k, close)
            F == Ends(b, k, close)
            Begins(t, i, ends, found) ==
                OpenAt(t, i, open) /\ ends # {} /\ (found = <<>> \/ Last(found)[2] < i)
<1>2. /\ Further(s, d + k, open, close, x) =
            IF Begins(s, d + k, E, x) THEN Append(x, <<d + k, Min(E) + 1>>) ELSE x
      /\ Further(b, k, open, close, y) =
            IF Begins(b, k, F, y) THEN Append(y, <<k, Min(F) + 1>>) ELSE y
  BY DEF Further, Ends
<1>3. Len(s) \in Nat /\ Len(b) \in Nat /\ d + Len(b) <= Len(s) /\ Len(x) \in Nat /\ Len(y) \in Nat
  BY LenProperties DEF Within
<1>4. (E = {} <=> F = {}) /\ (F # {} => Min(F) \in Nat /\ Min(E) = Min(F) + d)
  BY <1>1
<1>. HIDE DEF E, F
<1>5. OpenAt(s, d + k, open) <=> OpenAt(b, k, open)
  <2>1. d + k \in 1 .. Len(s) /\ (d + k) - d = k /\ k \in 1 .. Len(b)
    BY <1>3
  <2>. QED  BY <2>1 DEF Within
<1>6. (x = <<>> <=> y = <<>>) /\ Len(x) = Len(y)
  <2>1. Len(x) = Len(y)
    BY DEF Moved
  <2>2. (x = <<>> <=> Len(x) = 0) /\ (y = <<>> <=> Len(y) = 0)
    BY EmptySeq
  <2>. QED  BY <2>1, <2>2
<1>7. ASSUME y # <<>> PROVE Last(x)[2] < d + k <=> Last(y)[2] < k
  <2>1. Len(y) \in 1 .. Len(y)
    BY <1>3, <1>7, EmptySeq
  <2>2. x[Len(y)] = <<y[Len(y)][1] + d, y[Len(y)][2] + d>>
    BY <2>1 DEF Moved
  <2>3. Last(x) = x[Len(y)] /\ Last(y) = y[Len(y)]
    BY <1>6 DEF Last
  <2>4. y[Len(y)] \in Spans(b)
    BY <2>1, ElementOfSeq
  <2>5. y[Len(y)][2] \in Nat
    BY <1>3, <2>4 DEF Spans
  <2>6. Last(x)[2] = Last(y)[2] + d /\ Last(y)[2] \in Nat
    BY <2>2, <2>3, <2>5
  <2>. QED  BY <1>3, <2>6
<1>8. Begins(s, d + k, E, x) <=> Begins(b, k, F, y)
  BY <1>4, <1>5, <1>6, <1>7
<1>9. CASE ~Begins(b, k, F, y)
  BY <1>2, <1>8, <1>9
<1>10. CASE Begins(b, k, F, y)
  <2>1. F # {} /\ Min(F) \in Nat /\ Min(E) + 1 = Min(F) + 1 + d /\ d + k = k + d
    BY <1>3, <1>4, <1>10
  <2>. DEFINE e == <<d + k, Min(E) + 1>>   g == <<k, Min(F) + 1>>
  <2>2. e = <<g[1] + d, g[2] + d>>
    BY <2>1
  <2>. HIDE DEF e, g
  <2>3. /\ Len(Append(x, e)) = Len(x) + 1 /\ Append(x, e)[Len(x) + 1] = e
        /\ \A n \in 1 .. Len(x) : Append(x, e)[n] = x[n]
    OBVIOUS
  <2>4. /\ Len(Append(y, g)) = Len(y) + 1 /\ Append(y, g)[Len(y) + 1] = g
        /\ \A n \in 1 .. Len(y) : Append(y, g)[n] = y[n]
    OBVIOUS
  <2>5. Moved(Append(x, e), Append(y, g), d)
    <3>1. Len(Append(x, e)) = Len(Append(y, g))
      BY <1>6, <2>3, <2>4
    <3>2. ASSUME NEW n \in 1 .. Len(y) + 1
          PROVE  Append(x, e)[n] = <<Append(y, g)[n][1] + d, Append(y, g)[n][2] + d>>
      <4>1. CASE n = Len(y) + 1
        BY <1>6, <2>2, <2>3, <2>4, <4>1
      <4>2. CASE n \in 1 .. Len(y)
        <5>1. Append(x, e)[n] = x[n] /\ Append(y, g)[n] = y[n]
          BY <1>6, <2>3, <2>4, <4>2
        <5>. QED  BY <4>2, <5>1 DEF Moved
      <4>3. n = Len(y) + 1 \/ n \in 1 .. Len(y)
        BY <1>3
      <4>. QED  BY <4>1, <4>2, <4>3
    <3>. QED  BY <2>4, <3>1, <3>2 DEF Moved
  <2>. QED  BY <1>2, <1>8, <1>10, <2>5 DEF e, g
<1>. QED  BY <1>9, <1>10

\* No block begins where no tag opens one.
LEMMA FurtherSkips ==
    ASSUME NEW s, NEW k, NEW open, NEW close, NEW x, ~OpenAt(s, k, open)
    PROVE  Further(s, k, open, close, x) = x
BY DEF Further

LEMMA BlocksMove ==
    ASSUME NEW S, NEW s \in Seq(S), NEW b \in Seq(S), NEW d \in Nat, NEW open, NEW close,
           Within(s, b, d, open, close)
    PROVE  Moved(Blocks(s, open, close), Blocks(b, open, close), d)
<1>1. Len(s) \in Nat /\ Len(b) \in Nat /\ d + Len(b) <= Len(s)
  BY LenProperties DEF Within
<1>2. PICK f : Finding(f, s, open, close, Len(s)) /\ Blocks(s, open, close) = f[Len(s)]
  BY <1>1, BlocksValue
<1>3. PICK g : Finding(g, b, open, close, Len(b)) /\ Blocks(b, open, close) = g[Len(b)]
  BY <1>1, BlocksValue
<1>4. f[0] = <<>> /\ \A i \in 0 .. Len(s) - 1 : f[i + 1] = Further(s, i + 1, open, close, f[i])
  BY <1>1, <1>2, FindingStep, SMTT(30)
<1>5. g[0] = <<>> /\ \A i \in 0 .. Len(b) - 1 : g[i + 1] = Further(b, i + 1, open, close, g[i])
  <2>1. PICK m \in Nat : m = Len(b)
    BY <1>1
  <2>2. Finding(g, b, open, close, m)
    BY <1>3, <2>1
  <2>3. g[0] = <<>> /\ \A i \in 0 .. m - 1 : g[i + 1] = Further(b, i + 1, open, close, g[i])
    BY FindingStep, <2>2
  <2>. QED  BY <2>1, <2>3
<1>6. \A k \in 1 .. Len(s) : k - d \notin 1 .. Len(b) => ~OpenAt(s, k, open)
  BY DEF Within
<1>7. f[d] = <<>>
  <2>. DEFINE T == {n \in Nat : n <= d => f[n] = <<>>}
  <2>1. 0 \in T
    BY <1>4
  <2>2. ASSUME NEW n \in Nat, n \in T PROVE n + 1 \in T
    <3>. SUFFICES ASSUME n + 1 <= d PROVE f[n + 1] = <<>>
      OBVIOUS
    <3>1. n \in 0 .. Len(s) - 1 /\ n + 1 \in 1 .. Len(s) /\ (n + 1) - d \notin 1 .. Len(b) /\ n <= d
      BY <1>1
    <3>2. ~OpenAt(s, n + 1, open)
      BY <1>6, <3>1
    <3>3. f[n + 1] = Further(s, n + 1, open, close, f[n])
      BY <1>4, <3>1
    <3>4. Further(s, n + 1, open, close, f[n]) = f[n]
      BY <3>2, FurtherSkips
    <3>. QED  BY <2>2, <3>1, <3>3, <3>4
  <2>3. d \in T
    <3>. HIDE DEF T
    <3>. QED  BY <2>1, <2>2, SetInduction
  <2>. QED  BY <2>3
<1>8. Moved(f[d + Len(b)], g[Len(b)], d)
  <2>. DEFINE T == {n \in Nat : n <= Len(b) => Moved(f[d + n], g[n], d)}
  <2>1. 0 \in T
    <3>1. f[d + 0] = <<>> /\ g[0] = <<>>
      BY <1>5, <1>7
    <3>2. Moved(<<>>, <<>>, d)
      BY DEF Moved
    <3>. QED  BY <3>1, <3>2
  <2>2. ASSUME NEW n \in Nat, n \in T PROVE n + 1 \in T
    <3>. SUFFICES ASSUME n + 1 <= Len(b) PROVE Moved(f[d + (n + 1)], g[n + 1], d)
      OBVIOUS
    <3>1. /\ n \in 0 .. Len(b) - 1 /\ n \in 0 .. Len(b) /\ n + 1 \in 1 .. Len(b)
          /\ d + n \in 0 .. Len(s) - 1 /\ d + n \in 0 .. Len(s) /\ d + (n + 1) = d + n + 1
      BY <1>1
    <3>2. f[d + n] \in Seq(Spans(s)) /\ g[n] \in Seq(Spans(b))
      BY <1>2, <1>3, <3>1, FindingType
    <3>3. Moved(f[d + n], g[n], d)
      BY <1>1, <2>2, <3>1
    <3>4. /\ f[d + n + 1] = Further(s, d + n + 1, open, close, f[d + n])
          /\ g[n + 1] = Further(b, n + 1, open, close, g[n])
      BY <1>4, <1>5, <3>1
    <3>5. Moved(Further(s, d + (n + 1), open, close, f[d + n]), Further(b, n + 1, open, close, g[n]), d)
      BY <3>1, <3>2, <3>3, FurtherMoves
    <3>. QED  BY <3>1, <3>4, <3>5
  <2>3. Len(b) \in T
    <3>. HIDE DEF T
    <3>. QED  BY <1>1, <2>1, <2>2, SetInduction
  <2>. QED  BY <1>1, <2>3
<1>9. f[Len(s)] = f[d + Len(b)]
  <2>. DEFINE T == {n \in Nat : d + Len(b) + n <= Len(s) => f[d + Len(b) + n] = f[d + Len(b)]}
  <2>1. 0 \in T
    BY <1>1
  <2>2. ASSUME NEW n \in Nat, n \in T PROVE n + 1 \in T
    <3>. DEFINE m == d + Len(b) + n
    <3>. SUFFICES ASSUME m + 1 <= Len(s) PROVE f[m + 1] = f[d + Len(b)]
      <4>1. d + Len(b) + (n + 1) = m + 1
        BY <1>1
      <4>. QED  BY <4>1
    <3>1. m \in 0 .. Len(s) - 1 /\ m + 1 \in 1 .. Len(s) /\ (m + 1) - d \notin 1 .. Len(b) /\ m <= Len(s)
      BY <1>1
    <3>2. ~OpenAt(s, m + 1, open)
      BY <1>6, <3>1
    <3>3. f[m + 1] = Further(s, m + 1, open, close, f[m])
      BY <1>4, <3>1
    <3>4. Further(s, m + 1, open, close, f[m]) = f[m]
      BY <3>2, FurtherSkips
    <3>. QED  BY <2>2, <3>1, <3>3, <3>4
  <2>. DEFINE n == Len(s) - (d + Len(b))
  <2>3. n \in Nat /\ d + Len(b) + n = Len(s)
    BY <1>1
  <2>. HIDE DEF n
  <2>4. n \in T
    <3>. HIDE DEF T
    <3>. QED  BY <2>1, <2>2, <2>3, SetInduction
  <2>. QED  BY <1>1, <2>3, <2>4
<1>. QED  BY <1>2, <1>3, <1>8, <1>9

-----------------------------------------------------------------------------
\* b is in s, d symbols further on, with all the tags of s.
Marked(s, b, d) ==
    /\ d + Len(b) <= Len(s)
    /\ \A k \in 1 .. Len(b) : s[k + d] = b[k]
    /\ \A k \in 1 .. Len(s) : TagAt(s, k) => k - d \in 1 .. Len(b) - 1

LEMMA MarkedWithin ==
    ASSUME NEW s, NEW b, NEW d \in Nat, Len(s) \in Nat, Len(b) \in Nat, Marked(s, b, d),
           NEW open \in SUBSET Tags, NEW close \in SUBSET Tags
    PROVE  Within(s, b, d, open, close)
<1>1. d + Len(b) <= Len(s)
  BY DEF Marked
<1>2. ASSUME NEW k \in 1 .. Len(s), k - d \in 1 .. Len(b) - 1
      PROVE  /\ s[k] = b[k - d] /\ s[k + 1] = b[(k - d) + 1]
             /\ k < Len(s) /\ k - d < Len(b) /\ k - d \in 1 .. Len(b)
  <2>1. k - d \in 1 .. Len(b) /\ (k - d) + 1 \in 1 .. Len(b)
        /\ (k - d) + d = k /\ ((k - d) + 1) + d = k + 1
    BY <1>2
  <2>2. s[(k - d) + d] = b[k - d] /\ s[((k - d) + 1) + d] = b[(k - d) + 1]
    BY <2>1 DEF Marked
  <2>3. k < Len(s) /\ k - d < Len(b)
    BY <1>1, <1>2
  <2>. QED  BY <2>1, <2>2, <2>3
<1>3. ASSUME NEW k \in 1 .. Len(s)
      PROVE  /\ OpenAt(s, k, open) <=> k - d \in 1 .. Len(b) /\ OpenAt(b, k - d, open)
             /\ CloseAt(s, k, close) <=> k - d \in 1 .. Len(b) /\ CloseAt(b, k - d, close)
  <2>1. OpenAt(s, k, open) \/ CloseAt(s, k, close) => k - d \in 1 .. Len(b) - 1
    <3>1. OpenAt(s, k, open) \/ CloseAt(s, k, close) => TagAt(s, k)
      BY DEF OpenAt, CloseAt, TagAt
    <3>. QED  BY <3>1 DEF Marked
  <2>2. k - d \in 1 .. Len(b) /\ (OpenAt(b, k - d, open) \/ CloseAt(b, k - d, close))
            => k - d \in 1 .. Len(b) - 1
    BY DEF OpenAt, CloseAt
  <2>3. ASSUME k - d \in 1 .. Len(b) - 1
        PROVE  /\ OpenAt(s, k, open) <=> OpenAt(b, k - d, open)
               /\ CloseAt(s, k, close) <=> CloseAt(b, k - d, close)
               /\ k - d \in 1 .. Len(b)
    BY <1>2, <2>3 DEF OpenAt, CloseAt
  <2>. QED  BY <2>1, <2>2, <2>3
<1>. QED  BY <1>1, <1>3 DEF Within

LEMMA InsideMoves ==
    ASSUME NEW S, NEW s \in Seq(S), NEW b \in Seq(S), NEW d \in Nat,
           \A k \in 1 .. Len(b) : s[k + d] = b[k],
           NEW p \in Spans(b)
    PROVE  Inside(s, <<p[1] + d, p[2] + d>>) = Inside(b, p)
<1>1. PICK p1 \in Nat, p2 \in Nat : p1 = p[1] /\ p2 = p[2] /\ p1 \in 1 .. Len(b) /\ p2 \in 1 .. Len(b)
                                  /\ p1 + 3 <= p2
  BY LenProperties DEF Spans
<1>2. PICK m \in Nat, n \in Nat : m = p1 + 2 /\ n = p2 - 2
  BY <1>1, SMTT(30)
<1>3. (p1 + d) + 2 = m + d /\ (p2 + d) - 2 = n + d
  BY <1>2
<1>4. Len(b) \in Nat
  BY LenProperties
<1>5. SubSeq(s, m + d, n + d) = SubSeq(b, m, n)
  <2>1. \A i \in 1 .. (n - m + 1) : s[i + (m + d) - 1] = b[i + m - 1]
    <3>. SUFFICES ASSUME NEW i \in 1 .. (n - m + 1) PROVE s[i + (m + d) - 1] = b[i + m - 1]
      OBVIOUS
    <3>1. i + m - 1 \in 1 .. Len(b) /\ (i + m - 1) + d = i + (m + d) - 1
      <4>1. PICK l \in Nat : l = Len(b)
        BY <1>4
      <4>2. p2 <= l
        BY <1>1, <4>1
      <4>3. i \in Nat /\ 1 <= i /\ i <= n - m + 1
        BY <1>2
      <4>4. 1 <= i + m - 1 /\ i + m - 1 <= l /\ i + m - 1 \in Nat
        BY <1>2, <4>2, <4>3
      <4>. QED  BY <4>1, <4>3, <4>4
    <3>. QED  BY <3>1
  <2>2. SubSeq(s, m + d, n + d) = [i \in 1 .. (n - m + 1) |-> s[i + (m + d) - 1]]
    OBVIOUS
  <2>3. SubSeq(b, m, n) = [i \in 1 .. (n - m + 1) |-> b[i + m - 1]]
    OBVIOUS
  <2>. QED  BY <2>1, <2>2, <2>3
<1>6. Inside(b, p) = SubSeq(b, m, n)
  BY <1>1, <1>2 DEF Inside
<1>7. Inside(s, <<p[1] + d, p[2] + d>>) = SubSeq(s, m + d, n + d)
  <2>1. Inside(s, <<p1 + d, p2 + d>>) = SubSeq(s, (p1 + d) + 2, (p2 + d) - 2)
    BY DEF Inside
  <2>. QED  BY <1>1, <1>3, <2>1
<1>. QED  BY <1>5, <1>6, <1>7

LEMMA CallsInMove ==
    ASSUME NEW S, NEW s \in Seq(S), NEW b \in Seq(S), NEW d \in Nat, Marked(s, b, d)
    PROVE  CallsIn(s) = CallsIn(b)
<1>1. Len(s) \in Nat /\ Len(b) \in Nat /\ Tags \in SUBSET Tags /\ Inner \in SUBSET Tags
  BY LenProperties DEF Tags
<1>2. Within(s, b, d, Tags, Inner)
  BY MarkedWithin, <1>1
<1>. DEFINE x == Blocks(s, Tags, Inner)   y == Blocks(b, Tags, Inner)
<1>3. Moved(x, y, d)
  BY BlocksMove, <1>2
<1>4. y \in Seq(Spans(b)) /\ Len(y) \in Nat
  BY BlocksType, LenProperties
<1>. HIDE DEF x, y
<1>5. ASSUME NEW n \in 1 .. Len(y) PROVE Inside(s, x[n]) = Inside(b, y[n])
  <2>1. y[n] \in Spans(b)
    BY <1>4, ElementOfSeq
  <2>2. x[n] = <<y[n][1] + d, y[n][2] + d>>
    BY <1>3 DEF Moved
  <2>3. \A k \in 1 .. Len(b) : s[k + d] = b[k]
    BY DEF Marked
  <2>4. Inside(s, <<y[n][1] + d, y[n][2] + d>>) = Inside(b, y[n])
    BY InsideMoves, <2>1, <2>3
  <2>. QED  BY <2>2, <2>4
<1>6. Len(x) = Len(y)
  BY <1>3 DEF Moved
<1>7. [n \in 1 .. Len(x) |-> CallIn(Inside(s, x[n]))] = [n \in 1 .. Len(y) |-> CallIn(Inside(b, y[n]))]
  BY <1>5, <1>6
<1>. QED  BY <1>7 DEF CallsIn, x, y

LEMMA WrappedMove ==
    ASSUME NEW S, NEW s \in Seq(S), NEW b \in Seq(S), NEW d \in Nat, Marked(s, b, d)
    PROVE  Wrapped(s) = Wrapped(b)
<1>1. Len(s) \in Nat /\ Len(b) \in Nat /\ Outer \in SUBSET Tags
  BY LenProperties DEF Tags
<1>2. Within(s, b, d, Outer, Outer)
  BY MarkedWithin, <1>1
<1>. DEFINE x == Blocks(s, Outer, Outer)   y == Blocks(b, Outer, Outer)
<1>3. Moved(x, y, d)
  BY BlocksMove, <1>2
<1>4. y \in Seq(Spans(b)) /\ Len(y) \in Nat
  BY BlocksType, LenProperties
<1>. HIDE DEF x, y
<1>5. ASSUME NEW n \in 1 .. Len(y) PROVE Inside(s, x[n]) = Inside(b, y[n])
  <2>1. y[n] \in Spans(b)
    BY <1>4, ElementOfSeq
  <2>2. x[n] = <<y[n][1] + d, y[n][2] + d>>
    BY <1>3 DEF Moved
  <2>3. \A k \in 1 .. Len(b) : s[k + d] = b[k]
    BY DEF Marked
  <2>4. Inside(s, <<y[n][1] + d, y[n][2] + d>>) = Inside(b, y[n])
    BY InsideMoves, <2>1, <2>3
  <2>. QED  BY <2>2, <2>4
<1>6. Len(x) = Len(y)
  BY <1>3 DEF Moved
<1>7. [n \in 1 .. Len(x) |-> CallsIn(Inside(s, x[n]))] = [n \in 1 .. Len(y) |-> CallsIn(Inside(b, y[n]))]
  BY <1>5, <1>6
<1>. QED  BY <1>7 DEF Wrapped, x, y

\* The calls of a text are those of the part that has its tags.
LEMMA ParseCallsMove ==
    ASSUME NEW S, NEW s \in Seq(S), NEW b \in Seq(S), NEW d \in Nat, Marked(s, b, d)
    PROVE  ParseCalls(s) = ParseCalls(b)
<1>1. CallsIn(s) = CallsIn(b) /\ Wrapped(s) = Wrapped(b)
  BY CallsInMove, WrappedMove
<1>. QED  BY <1>1 DEF ParseCalls

LEMMA BlocksOfNothing ==
    ASSUME NEW open, NEW close
    PROVE  Blocks(<<>>, open, close) = <<>>
<1>1. PICK f : Finding(f, <<>>, open, close, Len(<<>>)) /\ Blocks(<<>>, open, close) = f[Len(<<>>)]
  BY BlocksValue
<1>2. Finding(f, <<>>, open, close, 0) /\ Blocks(<<>>, open, close) = f[0]
  BY <1>1
<1>. QED  BY FindingStep, <1>2

LEMMA UntaggedMarked ==
    ASSUME NEW s, Len(s) \in Nat, Untagged(s)
    PROVE  Marked(s, <<>>, 0)
BY DEF Untagged, Marked

LEMMA ParseCallsUntagged ==
    ASSUME NEW S, NEW s \in Seq(S), Untagged(s)
    PROVE  ParseCalls(s) = <<>>
<1>1. ParseCalls(s) = ParseCalls(<<>>)
  <2>1. Marked(s, <<>>, 0)
    BY UntaggedMarked, LenProperties
  <2>2. <<>> \in Seq(S)
    BY EmptySeq
  <2>. QED  BY ParseCallsMove, <2>1, <2>2
<1>2. CallsIn(<<>>) = <<>>
  <2>1. [n \in 1 .. Len(<<>>) |-> CallIn(Inside(<<>>, <<>>[n]))] = <<>>
    OBVIOUS
  <2>. QED  BY <2>1, BlocksOfNothing, FlattenEmpty DEF CallsIn
<1>3. Wrapped(<<>>) = <<>>
  <2>1. [n \in 1 .. Len(<<>>) |-> CallsIn(Inside(<<>>, <<>>[n]))] = <<>>
    OBVIOUS
  <2>. QED  BY <2>1, BlocksOfNothing, FlattenEmpty DEF Wrapped
<1>4. Dedupe(<<>>) = <<>>
  <2>1. \A P : Keep(<<>>, P) = <<>>
    <3>1. \A P : [i \in 1 .. Len(<<>>) |-> IF i \in P THEN <<<<>>[i]>> ELSE <<>>] = <<>>
      OBVIOUS
    <3>. QED  BY <3>1, FlattenEmpty DEF Keep
  <2>. QED  BY <2>1 DEF Dedupe
<1>. QED  BY <1>1, <1>2, <1>3, <1>4 DEF ParseCalls, Preferred

-----------------------------------------------------------------------------
\* Types.  A text is a sequence of symbols.
Symbols == STRING \cup {"text", "tool_use", "tool_calls", "stop", "thought", "error", "identifier", "nil"}
Text == Seq(Symbols)
Results == [content : Text, calls : Seq(Calls)]
StreamStates == [pending : Text, capturing : BOOLEAN, capture : Text]

LEMMA SubSeqType ==
    ASSUME NEW S, NEW s \in Seq(S), NEW m \in Nat \ {0}, NEW n \in Nat, n <= Len(s)
    PROVE  SubSeq(s, m, n) \in Seq(S)
<1>1. Len(s) \in Nat
  BY LenProperties
<1>2. \A i \in m .. n : s[i] \in S
  BY <1>1, ElementOfSeq
<1>3. m \in Int /\ n \in Int
  OBVIOUS
<1>. QED  BY <1>2, <1>3, SubSeqProperties

LEMMA InsideType ==
    ASSUME NEW S, NEW s \in Seq(S), NEW b \in Spans(s)
    PROVE  Inside(s, b) \in Seq(S)
<1>1. PICK l \in Nat : l = Len(s)
  BY LenProperties
<1>2. PICK m \in Nat, n \in Nat : m = b[1] + 2 /\ n = b[2] - 2 /\ m # 0 /\ n <= l
  <2>1. b[1] \in 1 .. l /\ b[2] \in 1 .. l /\ b[1] + 3 <= b[2]
    BY <1>1 DEF Spans
  <2>. QED  BY <2>1
<1>3. SubSeq(s, m, n) \in Seq(S)
  BY SubSeqType, <1>1, <1>2
<1>. QED  BY <1>2, <1>3 DEF Inside

LEMMA CallInType ==
    ASSUME NEW S, NEW s \in Seq(S)
    PROVE  CallIn(s) \in Seq(Calls)
<1>. DEFINE names == {i \in 1 .. Len(s) : s[i] \in Calls}
<1>1. CASE names = {}
  BY <1>1, EmptySeq DEF CallIn
<1>2. CASE names # {}
  <2>1. names \in SUBSET Nat
    OBVIOUS
  <2>2. Min(names) \in names
    BY <1>2, <2>1, MinOf
  <2>3. s[Min(names)] \in Calls
    BY <2>2
  <2>4. CallIn(s) = <<s[Min(names)]>>
    BY <1>2 DEF CallIn
  <2>. QED  BY <2>3, <2>4
<1>. QED  BY <1>1, <1>2

LEMMA CallsInType ==
    ASSUME NEW S, NEW s \in Seq(S)
    PROVE  CallsIn(s) \in Seq(Calls)
<1>. DEFINE x == Blocks(s, Tags, Inner)
<1>1. x \in Seq(Spans(s)) /\ Len(x) \in Nat
  BY BlocksType, LenProperties
<1>2. \A n \in 1 .. Len(x) : CallIn(Inside(s, x[n])) \in Seq(Calls)
  BY <1>1, ElementOfSeq, InsideType, CallInType
<1>. HIDE DEF x
<1>3. [n \in 1 .. Len(x) |-> CallIn(Inside(s, x[n]))] \in Seq(Seq(Calls))
  BY <1>1, <1>2
<1>4. FlattenSeq([n \in 1 .. Len(x) |-> CallIn(Inside(s, x[n]))]) \in Seq(Calls)
  BY <1>3, FlattenType
<1>. QED  BY <1>4 DEF CallsIn, x

LEMMA WrappedType ==
    ASSUME NEW S, NEW s \in Seq(S)
    PROVE  Wrapped(s) \in Seq(Calls)
<1>. DEFINE x == Blocks(s, Outer, Outer)
<1>1. x \in Seq(Spans(s)) /\ Len(x) \in Nat
  BY BlocksType, LenProperties
<1>2. \A n \in 1 .. Len(x) : CallsIn(Inside(s, x[n])) \in Seq(Calls)
  BY <1>1, ElementOfSeq, InsideType, CallsInType
<1>. HIDE DEF x
<1>3. [n \in 1 .. Len(x) |-> CallsIn(Inside(s, x[n]))] \in Seq(Seq(Calls))
  BY <1>1, <1>2
<1>4. FlattenSeq([n \in 1 .. Len(x) |-> CallsIn(Inside(s, x[n]))]) \in Seq(Calls)
  BY <1>3, FlattenType
<1>. QED  BY <1>4 DEF Wrapped, x

LEMMA ParseCallsType ==
    ASSUME NEW S, NEW s \in Seq(S)
    PROVE  ParseCalls(s) \in Seq(Calls)
<1>1. Preferred(Wrapped(s), CallsIn(s)) \in Seq(Calls)
  BY WrappedType, CallsInType DEF Preferred
<1>2. \A c \in Seq(Calls) : Dedupe(c) \in Seq(Calls)
  BY KeepType DEF Dedupe
<1>. QED  BY <1>1, <1>2 DEF ParseCalls

LEMMA RemoveMarkupType ==
    ASSUME NEW S, NEW s \in Seq(S)
    PROVE  RemoveMarkup(s) \in Seq(S)
<1>1. \A t \in Seq(S) : DropTags(t) \in Seq(S)
  BY KeepType DEF DropTags
<1>2. \A P : Keep(s, P) \in Seq(S)
  BY KeepType
<1>. QED  BY <1>1, <1>2 DEF RemoveMarkup

LEMMA Trimmed ==
    ASSUME NEW S, NEW s \in Seq(S), Solids(s) # {}
    PROVE  \E m, n \in 1 .. Len(s) :
              /\ m <= n /\ s[m] # " " /\ s[n] # " "
              /\ \A i \in 1 .. Len(s) : s[i] # " " => m <= i /\ i <= n
              /\ Trim(s) = SubSeq(s, m, n) /\ TrimLeft(s) = SubSeq(s, m, Len(s))
<1>1. PICK l \in Nat : l = Len(s)
  BY LenProperties
<1>2. Solids(s) \in SUBSET (0 .. l) /\ Solids(s) \in SUBSET Nat /\ Solids(s) \in SUBSET (1 .. l)
  <2>1. \A i \in Solids(s) : i \in 1 .. l
    BY <1>1 DEF Solids
  <2>2. \A i \in 1 .. l : i \in 0 .. l /\ i \in Nat
    OBVIOUS
  <2>. QED  BY <2>1, <2>2
<1>3. PICK m \in Solids(s) : m = Min(Solids(s)) /\ \A i \in Solids(s) : m <= i
  BY <1>2, MinOf
<1>4. PICK n \in Solids(s) : n = Max(Solids(s)) /\ \A i \in Solids(s) : i <= n
  BY <1>1, <1>2, MaxOf
<1>5. Trim(s) = SubSeq(s, m, n) /\ TrimLeft(s) = SubSeq(s, m, Len(s))
  BY <1>3, <1>4 DEF Trim, TrimLeft
<1>6. m \in 1 .. Len(s) /\ n \in 1 .. Len(s) /\ m <= n /\ s[m] # " " /\ s[n] # " "
  BY <1>1, <1>2, <1>3 DEF Solids
<1>7. \A i \in 1 .. Len(s) : s[i] # " " => i \in Solids(s)
  BY DEF Solids
<1>. QED  BY <1>3, <1>4, <1>5, <1>6, <1>7

LEMMA TrimType ==
    ASSUME NEW S, NEW s \in Seq(S)
    PROVE  Trim(s) \in Seq(S) /\ TrimLeft(s) \in Seq(S)
<1>1. CASE Solids(s) = {}
  BY <1>1, EmptySeq DEF Trim, TrimLeft
<1>2. CASE Solids(s) # {}
  <2>1. PICK m, n \in 1 .. Len(s) : Trim(s) = SubSeq(s, m, n) /\ TrimLeft(s) = SubSeq(s, m, Len(s))
    BY <1>2, Trimmed
  <2>2. Len(s) \in Nat
    BY LenProperties
  <2>. QED  BY SubSeqType, <2>1, <2>2
<1>. QED  BY <1>1, <1>2

LEMMA StripPreludeType ==
    ASSUME NEW S, NEW s \in Seq(S)
    PROVE  StripPrelude(s) \in Seq(S)
<1>. DEFINE run == {k \in 0 .. Len(s) : \A m \in 0 .. k - 1 : OpenAt(s, 2 * m + 1, Tags)}
<1>1. Len(s) \in Nat
  BY LenProperties
<1>2. 0 \in run
  BY <1>1
<1>3. run \in SUBSET (0 .. Len(s)) /\ run # {}
  BY <1>2
<1>4. Max(run) \in run
  BY <1>1, <1>3, MaxOf
<1>5. PICK m \in Nat \ {0} : m = 2 * Max(run) + 1
  <2>1. Max(run) \in 0 .. Len(s)
    BY <1>4
  <2>. HIDE DEF run
  <2>. QED  BY <1>1, <2>1
<1>6. SubSeq(s, m, Len(s)) \in Seq(S)
  BY SubSeqType, <1>1
<1>. QED  BY <1>5, <1>6, TrimType DEF StripPrelude

LEMMA ReleasedType ==
    ASSUME NEW s \in Text, NEW calls \in Seq(Calls)
    PROVE  Released(s, calls) \in Results
<1>1. Trim(RemoveMarkup(s)) \in Text /\ Trim(StripPrelude(s)) \in Text /\ <<>> \in Seq(Calls)
  BY RemoveMarkupType, StripPreludeType, TrimType DEF Text
<1>. QED  BY <1>1 DEF Released, Results, Result

LEMMA LeftoverType ==
    ASSUME NEW s \in Text
    PROVE  Leftover(s) \in Results
<1>1. Trim(StripPrelude(RemoveMarkup(s))) \in Text /\ <<>> \in Seq(Calls)
  BY RemoveMarkupType, StripPreludeType, TrimType DEF Text
<1>. QED  BY <1>1 DEF Leftover, Results, Result

LEMMA ConsumedType ==
    ASSUME NEW s \in Text, NEW tags, \E i \in 1 .. Len(s) : OpenAt(s, i, tags)
    PROVE  Consumed(s, tags) \in SUBSET Results
<1>. DEFINE opens == {i \in 1 .. Len(s) : OpenAt(s, i, tags)}
            closes == {i \in 1 .. Len(s) : CloseAt(s, i, tags)}
<1>1. PICK l \in Nat : l = Len(s)
  BY LenProperties DEF Text
<1>2. CASE closes = {}
  BY <1>2 DEF Consumed
<1>3. CASE closes # {}
  <2>1. Max(closes) \in closes
    <3>1. closes \in SUBSET (0 .. l)
      BY <1>1
    <3>. QED  BY <1>1, <1>3, <3>1, MaxOf
  <2>2. Min(opens) \in opens
    <3>1. opens \in SUBSET Nat /\ opens # {}
      OBVIOUS
    <3>. QED  BY <3>1, MinOf
  <2>3. PICK m \in Nat \ {0}, n \in Nat : m = Min(opens) /\ n = Max(closes) + 1 /\ n <= l
    <3>1. Max(closes) \in 1 .. l /\ Max(closes) < l /\ Min(opens) \in 1 .. l
      BY <1>1, <2>1, <2>2 DEF CloseAt
    <3>. HIDE DEF opens, closes
    <3>. QED  BY <3>1
  <2>4. SubSeq(s, m, n) \in Text
    BY SubSeqType, <1>1, <2>3 DEF Text
  <2>5. ParseCalls(SubSeq(s, m, n)) \in Seq(Calls)
    BY ParseCallsType, <2>4 DEF Text
  <2>6. Released(s, ParseCalls(SubSeq(s, m, n))) \in Results
    BY ReleasedType, <2>5
  <2>7. Consumed(s, tags) \in SUBSET {Released(s, ParseCalls(SubSeq(s, m, n)))}
    BY <2>3 DEF Consumed
  <2>. QED  BY <2>6, <2>7
<1>. QED  BY <1>2, <1>3

LEMMA TryConsumeType ==
    ASSUME NEW s \in Text
    PROVE  TryConsume(s) \in SUBSET Results
<1>1. Leftover(s) \in Results
  BY LeftoverType
<1>2. CASE \E i \in 1 .. Len(s) : OpenAt(s, i, Outer)
  BY <1>2, ConsumedType DEF TryConsume
<1>3. CASE ~ (\E i \in 1 .. Len(s) : OpenAt(s, i, Outer)) /\ \E i \in 1 .. Len(s) : OpenAt(s, i, Inner)
  BY <1>3, ConsumedType DEF TryConsume
<1>. QED  BY <1>1, <1>2, <1>3 DEF TryConsume

LEMMA NewStreamType == NewStream \in StreamStates
BY EmptySeq DEF NewStream, StreamStates, Text

LEMMA ProcessType ==
    ASSUME NEW stream \in StreamStates, NEW chunk \in Text
    PROVE  /\ ProcessStreamChunk(stream, chunk).state \in StreamStates
           /\ ProcessStreamChunk(stream, chunk).out \in Results
<1>. DEFINE text == stream.pending \o chunk
            held == stream.capture \o text
<1>1. text \in Text /\ held \in Text
  BY ConcatProperties DEF StreamStates, Text
<1>2. Nothing \in Results
  BY EmptySeq DEF Nothing, Result, Results, Text
<1>3. ASSUME NEW t \in Text
      PROVE  /\ Capturing(t, TryConsume(t)).state \in StreamStates
             /\ Capturing(t, TryConsume(t)).out \in Results
  <2>1. TryConsume(t) # {} => Consumable(TryConsume(t)) \in Results
    BY TryConsumeType DEF Consumable
  <2>2. Result(StripPrelude(t), <<>>) \in Results
    BY StripPreludeType DEF Result, Results, Text
  <2>3. [pending |-> <<>>, capturing |-> TRUE, capture |-> t] \in StreamStates
    BY EmptySeq DEF StreamStates, Text
  <2>. QED  BY <1>2, <2>1, <2>2, <2>3, NewStreamType DEF Capturing, Step
<1>4. ASSUME NEW t \in Text, NEW mark \in 0 .. Len(t), NEW cut \in 0 .. Len(t)
      PROVE  /\ Passing(t, mark, cut).state \in StreamStates
             /\ Passing(t, mark, cut).out \in Results
  <2>1. PICK l \in Nat : l = Len(t)
    BY LenProperties DEF Text
  <2>2. mark > 0 => SubSeq(t, mark, Len(t)) \in Text /\ SubSeq(t, 1, mark - 1) \in Text
    BY SubSeqType, <2>1 DEF Text
  <2>3. SubSeq(t, cut + 1, Len(t)) \in Text /\ SubSeq(t, 1, cut) \in Text
    BY SubSeqType, <2>1 DEF Text
  <2>4. CASE mark > 0
    BY <2>2, <2>4 DEF Passing, Step, Result, Results, StreamStates, Text
  <2>5. CASE ~ (mark > 0)
    <3>1. [NewStream EXCEPT !.pending = SubSeq(t, cut + 1, Len(t))] \in StreamStates
      BY <2>3, NewStreamType DEF StreamStates
    <3>. QED  BY <2>3, <2>5, <3>1 DEF Passing, Step, Result, Results, Text
  <2>. QED  BY <2>4, <2>5
<1>5. FirstMarker(text) \in 0 .. Len(text) /\ Len(text) - Held(text) \in 0 .. Len(text)
  <2>1. PICK l \in Nat : l = Len(text)
    BY <1>1, LenProperties DEF Text
  <2>. DEFINE marks == {i \in 1 .. Len(text) : OpenAt(text, i, Tags)}
  <2>2. marks # {} => Min(marks) \in marks
    <3>1. marks \in SUBSET Nat
      OBVIOUS
    <3>. QED  BY <3>1, MinOf
  <2>3. FirstMarker(text) = IF marks = {} THEN 0 ELSE Min(marks)
    BY DEF FirstMarker
  <2>4. marks \in SUBSET (1 .. l)
    BY <2>1
  <2>. HIDE DEF marks
  <2>5. FirstMarker(text) \in 0 .. Len(text)
    <3>1. CASE marks = {}
      BY <2>1, <2>3, <3>1
    <3>2. CASE marks # {}
      <4>1. Min(marks) \in 1 .. l
        BY <2>2, <2>4, <3>2
      <4>2. FirstMarker(text) = Min(marks)
        BY <2>3, <3>2
      <4>. QED  BY <2>1, <4>1, <4>2
    <3>. QED  BY <3>1, <3>2
  <2>6. text # <<>> => l # 0
    BY <1>1, <2>1, EmptySeq DEF Text
  <2>7. Held(text) \in 0 .. 1 /\ (Held(text) = 1 => text # <<>>)
    BY DEF Held
  <2>8. Len(text) - Held(text) \in 0 .. Len(text)
    BY <2>1, <2>6, <2>7
  <2>. QED  BY <2>5, <2>8
<1>. HIDE DEF text, held
<1>6. ProcessStreamChunk(stream, chunk) =
        IF stream.capturing THEN Capturing(held, TryConsume(held))
        ELSE Passing(text, FirstMarker(text), Len(text) - Held(text))
  BY DEF ProcessStreamChunk, held, text
<1>. QED  BY <1>1, <1>3, <1>4, <1>5, <1>6

LEMMA FinalizeType ==
    ASSUME NEW stream \in StreamStates
    PROVE  FinalizeStream(stream) \in Results
<1>. DEFINE text == stream.capture \o stream.pending
<1>1. text \in Text
  BY ConcatProperties DEF StreamStates, Text
<1>. HIDE DEF text
<1>2. FinalCapture(text, TryConsume(text)) \in Results
  <2>1. TryConsume(text) # {} => Consumable(TryConsume(text)) \in Results
    BY <1>1, TryConsumeType DEF Consumable
  <2>2. Leftover(text) \in Results
    BY <1>1, LeftoverType
  <2>. QED  BY <2>1, <2>2 DEF FinalCapture
<1>3. Released(text, ParseCalls(text)) \in Results
  <2>1. ParseCalls(text) \in Seq(Calls)
    BY <1>1, ParseCallsType DEF Text
  <2>. QED  BY <1>1, <2>1, ReleasedType
<1>. QED  BY <1>2, <1>3 DEF FinalizeStream, text

-----------------------------------------------------------------------------
Kinds == {"message_start", "block_start", "delta", "input", "block_stop", "message_stop",
          "content", "calls", "reasoning", "finish", "usage", "done", "error"}
Events == [kind : Kinds, index : Nat \cup {None}, item : Text]

HandlerType ==
    /\ body \in Text /\ sieve \in StreamStates
    /\ block \in Nat \cup {None} /\ next \in Nat
    /\ callsSent \in BOOLEAN
    /\ out \in Seq(Events)

StreamType ==
    /\ api \in Streamed \cup Whole /\ tools \in BOOLEAN /\ expose \in BOOLEAN
    /\ answer \in Answers /\ deltas \in {"full", "roleless", "hollow"}
    /\ sent \in 0 .. Len(answer) /\ ended \in BOOLEAN
    /\ state \in {"inspect", "serve", "done", "refused"}
    /\ buffered \in Seq(Text)
    /\ HandlerType

LEMMA EventType ==
    ASSUME NEW kind \in Kinds, NEW index \in Nat \cup {None}, NEW item \in Text
    PROVE  Event(kind, index, item) \in Events
BY DEF Event, Events

LEMMA OneType ==
    ASSUME NEW S, NEW x \in S
    PROVE  <<x>> \in Seq(S)
OBVIOUS

LEMMA WordType ==
    /\ <<"text">> \in Text /\ <<"tool_use">> \in Text /\ <<"tool_calls">> \in Text /\ <<"stop">> \in Text
    /\ Thought \in Text /\ Failure \in Text /\ Bare \in Text /\ Identifier \in Text
    /\ NoContent \in Text /\ <<>> \in Text
<1>1. /\ "text" \in Symbols /\ "tool_use" \in Symbols /\ "tool_calls" \in Symbols /\ "stop" \in Symbols
      /\ "thought" \in Symbols /\ "error" \in Symbols /\ "identifier" \in Symbols
      /\ "nil" \in Symbols
  BY DEF Symbols
<1>. QED  BY OneType, EmptySeq, <1>1 DEF Text, Thought, Failure, Bare, NoContent, Identifier

LEMMA KindType ==
    /\ "message_start" \in Kinds /\ "block_start" \in Kinds /\ "delta" \in Kinds
    /\ "input" \in Kinds /\ "block_stop" \in Kinds /\ "message_stop" \in Kinds
    /\ "content" \in Kinds /\ "calls" \in Kinds /\ "reasoning" \in Kinds
    /\ "finish" \in Kinds /\ "usage" \in Kinds /\ "done" \in Kinds /\ "error" \in Kinds
BY DEF Kinds

LEMMA UnlessType ==
    ASSUME NEW S, NEW s \in Seq(S), NEW cond
    PROVE  Unless(cond, s) \in Seq(S)
BY EmptySeq DEF Unless

LEMMA CallsAreTexts == \A calls \in Seq(Calls) : calls \in Text
BY StreamAssumption, SeqMonotonic DEF Text, Symbols

LEMMA ContentEventsType ==
    ASSUME NEW r \in Results
    PROVE  OpenAIContent(r) \in Seq(Events) /\ OpenAICalls(r) \in Seq(Events)
<1>1. r.content \in Text /\ r.calls \in Text
  BY CallsAreTexts DEF Results
<1>2. Event("content", None, r.content) \in Events /\ Event("calls", 0, r.calls) \in Events
  BY <1>1, EventType, KindType
<1>3. /\ Unless(r.content = <<>>, <<Event("content", None, r.content)>>) \in Seq(Events)
      /\ Unless(r.calls = <<>>, <<Event("calls", 0, r.calls)>>) \in Seq(Events)
  <2>1. <<Event("content", None, r.content)>> \in Seq(Events) /\ <<Event("calls", 0, r.calls)>> \in Seq(Events)
    BY <1>2
  <2>. QED  BY <2>1, UnlessType
<1>. QED  BY <1>3 DEF OpenAIContent, OpenAICalls

LEMMA StartedType == Started \in Seq(Events)
<1>1. Event("message_start", None, <<>>) \in Events
  BY EventType, KindType, WordType
<1>2. <<Event("message_start", None, <<>>)>> \in Seq(Events)
  BY <1>1
<1>. QED  BY <1>2, UnlessType DEF Started

LEMMA ToolUseType ==
    ASSUME NEW index \in Nat, NEW call \in Calls
    PROVE  ToolUse(index, call) \in Seq(Events)
<1>1. <<"tool_use">> \in Text /\ <<call>> \in Text /\ <<>> \in Text
  <2>1. call \in Symbols
    BY StreamAssumption DEF Symbols
  <2>. QED  BY WordType, OneType, <2>1 DEF Text
<1>2. /\ Event("block_start", index, <<"tool_use">>) \in Events
      /\ Event("input", index, <<call>>) \in Events
      /\ Event("block_stop", index, <<>>) \in Events
  BY <1>1, EventType, KindType
<1>. QED  BY <1>2 DEF ToolUse

\* The tool_use blocks of ToolUses.
Uses(calls, first) == [n \in 1 .. Len(calls) |-> ToolUse(first + n - 1, calls[n])]

LEMMA UsesType ==
    ASSUME NEW calls \in Seq(Calls), NEW first \in Nat
    PROVE  /\ Uses(calls, first) \in Seq(Seq(Events)) /\ Len(Uses(calls, first)) = Len(calls)
           /\ \A n \in 1 .. Len(calls) : Uses(calls, first)[n] = ToolUse(first + n - 1, calls[n])
<1>1. Len(calls) \in Nat /\ \A n \in 1 .. Len(calls) : calls[n] \in Calls /\ first + n - 1 \in Nat
  BY LenProperties, ElementOfSeq
<1>2. \A n \in 1 .. Len(calls) : ToolUse(first + n - 1, calls[n]) \in Seq(Events)
  BY <1>1, ToolUseType
<1>. QED  BY <1>1, <1>2 DEF Uses

LEMMA ToolUsesType ==
    ASSUME NEW r \in Results, NEW open \in Nat \cup {None}, NEW first \in Nat
    PROVE  ToolUses(r, open, first) \in Seq(Events)
<1>1. r.calls \in Seq(Calls)
  BY DEF Results
<1>2. FlattenSeq(Uses(r.calls, first)) \in Seq(Events)
  <2>1. Uses(r.calls, first) \in Seq(Seq(Events))
    BY <1>1, UsesType
  <2>. QED  BY <2>1, FlattenType
<1>3. Unless(r.calls = <<>> \/ open = None, <<Event("block_stop", open, <<>>)>>) \in Seq(Events)
  <2>1. Event("block_stop", open, <<>>) \in Events
    BY EventType, KindType, WordType
  <2>2. <<Event("block_stop", open, <<>>)>> \in Seq(Events)
    BY <2>1
  <2>. QED  BY <2>2, UnlessType
<1>. QED  BY <1>2, <1>3, ConcatProperties DEF ToolUses, Uses

LEMMA TextDeltaType ==
    ASSUME NEW r \in Results, block \in Nat \cup {None}, next \in Nat
    PROVE  TextDelta(r) \in Seq(Events) /\ TextBlock \in Nat
<1>1. TextBlock \in Nat
  BY DEF TextBlock
<1>2. r.content \in Text /\ <<"text">> \in Text
  BY WordType DEF Results
<1>3. Event("block_start", TextBlock, <<"text">>) \in Events /\ Event("delta", TextBlock, r.content) \in Events
  BY <1>1, <1>2, EventType, KindType
<1>4. <<Event("block_start", TextBlock, <<"text">>)>> \in Seq(Events) /\ <<Event("delta", TextBlock, r.content)>> \in Seq(Events)
  BY <1>3
<1>5. Unless(block # None, <<Event("block_start", TextBlock, <<"text">>)>>) \in Seq(Events)
  BY UnlessType, <1>4
<1>6. Unless(block # None, <<Event("block_start", TextBlock, <<"text">>)>>)
            \o <<Event("delta", TextBlock, r.content)>> \in Seq(Events)
  BY <1>4, <1>5, ConcatProperties
<1>. QED  BY <1>1, <1>6, UnlessType DEF TextDelta

LEMMA AfterType ==
    ASSUME NEW r \in Results, block \in Nat \cup {None}, next \in Nat
    PROVE  /\ OpenAfter(r) \in Nat \cup {None} /\ NextText(r) \in Nat /\ NextAfter(r) \in Nat
           /\ AnthropicEvents(r) \in Seq(Events)
<1>1. TextBlock \in Nat /\ TextDelta(r) \in Seq(Events)
  BY TextDeltaType
<1>2. NextText(r) \in Nat
  BY DEF NextText
<1>3. Len(r.calls) \in Nat
  BY LenProperties DEF Results
<1>4. NextAfter(r) \in Nat /\ OpenAfter(r) \in Nat \cup {None}
  BY <1>1, <1>2, <1>3 DEF NextAfter, OpenAfter
<1>5. ToolUses(r, IF r.content # <<>> THEN TextBlock ELSE block, NextText(r)) \in Seq(Events)
  <2>1. (IF r.content # <<>> THEN TextBlock ELSE block) \in Nat \cup {None}
    BY <1>1
  <2>. QED  BY <1>2, <2>1, ToolUsesType
<1>6. AnthropicEvents(r) \in Seq(Events)
  BY <1>1, <1>5, StartedType, ConcatProperties DEF AnthropicEvents
<1>. QED  BY <1>2, <1>4, <1>6

LEMMA VisibleType ==
    ASSUME NEW r \in Results
    PROVE  Visible(r) \in Results /\ Visible(r).calls = r.calls
<1>1. Unless(Skipped(RemoveMarkup(r.content)), RemoveMarkup(r.content)) \in Text
  BY RemoveMarkupType, EmptySeq DEF Unless, Results, Text
<1>. QED  BY <1>1 DEF Visible, Result, Results

LEMMA ContentType ==
    ASSUME NEW event \in Text
    PROVE  Content(event) \in Text
BY TrimType, WordType DEF Content, Text

LEMMA ThoughtShownType == ThoughtShown \in Seq(Events)
<1>1. Event("reasoning", None, Thought) \in Events
  BY EventType, KindType, WordType
<1>2. <<Event("reasoning", None, Thought)>> \in Seq(Events)
  BY <1>1
<1>. QED  BY <1>2, UnlessType DEF ThoughtShown

LEMMA TellsType ==
    ASSUME HandlerType, NEW r \in Results, Tells(r)
    PROVE  /\ callsSent' \in BOOLEAN /\ out' \in Seq(Events)
           /\ block' \in Nat \cup {None} /\ next' \in Nat /\ body' \in Text
<1>1. OpenAICalls(r) \in Seq(Events) /\ OpenAIContent(r) \in Seq(Events)
  BY ContentEventsType
<1>2. out \in Seq(Events) /\ callsSent \in BOOLEAN
  BY DEF HandlerType
<1>3. out \o OpenAICalls(r) \o OpenAIContent(r) \in Seq(Events)
  BY <1>1, <1>2, ConcatProperties
<1>4. /\ OpenAfter(r) \in Nat \cup {None} /\ NextAfter(r) \in Nat
      /\ AnthropicEvents(r) \in Seq(Events)
  BY AfterType DEF HandlerType
<1>5. out \o AnthropicEvents(r) \in Seq(Events)
  BY <1>2, <1>4, ConcatProperties
<1>6. AnyCalls(r) \in BOOLEAN
  BY <1>2 DEF AnyCalls
<1>. QED  BY <1>3, <1>4, <1>5, <1>6 DEF Tells, HandlerType

\* The events a handler adds, in any case.
LEMMA ShowsType ==
    ASSUME HandlerType, NEW e \in Seq(Events), Shows(e)
    PROVE  HandlerType'
<1>1. out \o e \in Seq(Events)
  BY ConcatProperties DEF HandlerType
<1>. QED  BY <1>1 DEF Shows, HandlerType

LEMMA SievedType ==
    ASSUME HandlerType, NEW chunk \in Text, Sieved(chunk)
    PROVE  HandlerType'
<1>1. PICK step : /\ step = ProcessStreamChunk(sieve, chunk)
                  /\ sieve' = step.state /\ Tells(Visible(step.out))
  BY DEF Sieved
<1>2. step.state \in StreamStates /\ step.out \in Results
  BY <1>1, ProcessType DEF HandlerType
<1>3. Visible(step.out) \in Results
  BY <1>2, VisibleType
<1>. QED  BY <1>1, <1>2, <1>3, TellsType DEF HandlerType

LEMMA HandleType ==
    ASSUME HandlerType, NEW event \in Text, Handle(event)
    PROVE  HandlerType'
<1>1. CASE HandleWhole(event)
  <2>1. body \o Content(event) \in Text
    BY ContentType, ConcatProperties DEF HandlerType, Text
  <2>. QED  BY <1>1, <2>1 DEF HandleWhole, HandlerType
<1>2. Shows(<<>>) => HandlerType'
  BY EmptySeq, ShowsType
<1>3. CASE HandleOpenAI(event)
  <2>1. Shows(ThoughtShown) => HandlerType'
    BY ThoughtShownType, ShowsType
  <2>2. Shows(<<Event("content", None, event)>>) => HandlerType'
    <3>1. <<Event("content", None, event)>> \in Seq(Events)
      BY EventType, KindType, OneType
    <3>. QED  BY <3>1, ShowsType
  <2>. QED  BY <1>2, <1>3, <2>1, <2>2, SievedType DEF HandleOpenAI
<1>4. CASE HandleAnthropic(event)
  BY <1>4, StartedType, ShowsType, SievedType DEF HandleAnthropic
<1>. QED  BY <1>1, <1>3, <1>4 DEF Handle

LEMMA AnswerType ==
    ASSUME answer \in Answers
    PROVE  answer \in Text /\ Len(answer) \in Nat
<1>1. answer \in Text
  BY StreamAssumption, SeqMonotonic DEF Text, Symbols
<1>. QED  BY <1>1, LenProperties DEF Text

LEMMA ComesType ==
    ASSUME StreamType, NEW event \in Text, Comes(event)
    PROVE  /\ api' = api /\ tools' = tools /\ expose' = expose /\ answer' = answer /\ deltas' = deltas
           /\ state' \in {"inspect", "serve", "done", "refused"}
           /\ buffered' \in Seq(Text)
           /\ HandlerType'
<1>1. HandlerType /\ buffered \in Seq(Text)
  BY DEF StreamType
<1>2. api' = api /\ tools' = tools /\ expose' = expose /\ answer' = answer /\ deltas' = deltas
  BY DEF Comes, request
<1>3. CASE state = "inspect" /\ Inspect(event)
  <2>1. Append(buffered, event) \in Seq(Text) /\ <<>> \in Seq(Text)
    BY <1>1, AppendProperties, EmptySeq
  <2>2. HandlerType'
    BY <1>1, <1>3 DEF Inspect, handler, HandlerType
  <2>. QED  BY <1>2, <1>3, <2>1, <2>2 DEF Inspect
<1>4. CASE Handle(event) /\ UNCHANGED <<state, buffered>>
  <2>1. HandlerType'
    BY <1>1, <1>4, HandleType
  <2>. QED  BY <1>2, <1>4, <2>1 DEF StreamType
<1>. QED  BY <1>3, <1>4 DEF Comes

LEMMA ReasonType == \A calls \in BOOLEAN : Reason(calls) \in Events
<1>1. /\ Event("finish", None, <<"tool_calls">>) \in Events
      /\ Event("finish", None, <<"stop">>) \in Events
  BY EventType, KindType, WordType
<1>. QED  BY <1>1 DEF Reason

\* What FinishStream tells, and what it leaves.
LEMMA TellsLastType ==
    ASSUME HandlerType, NEW r \in Results, NEW calls \in BOOLEAN, TellsLast(r, calls), body' = body
    PROVE  HandlerType'
<1>1. out \in Seq(Events) /\ AnthropicEvents(r) \in Seq(Events)
      /\ OpenAICalls(r) \in Seq(Events) /\ OpenAIContent(r) \in Seq(Events)
      /\ OpenAfter(r) \in Nat \cup {None} /\ NextAfter(r) \in Nat
  BY ContentEventsType, AfterType DEF HandlerType
<1>2. Reason(calls) \in Events /\ <<>> \in Text
  BY ReasonType, WordType
<1>3. /\ Event("usage", None, <<>>) \in Events /\ Event("done", None, <<>>) \in Events
      /\ Event("message_stop", None, <<>>) \in Events /\ Event("block_stop", OpenAfter(r), <<>>) \in Events
  BY <1>1, <1>2, EventType, KindType
<1>4. <<Reason(calls), Event("usage", None, <<>>), Event("done", None, <<>>)>> \in Seq(Events)
      /\ <<Reason(calls), Event("message_stop", None, <<>>)>> \in Seq(Events)
  BY <1>2, <1>3
<1>5. Unless(Blank(r.content), OpenAIContent(r)) \in Seq(Events)
  BY <1>1, UnlessType
<1>6. Unless(OpenAfter(r) = None, <<Event("block_stop", OpenAfter(r), <<>>)>>) \in Seq(Events)
  <2>1. <<Event("block_stop", OpenAfter(r), <<>>)>> \in Seq(Events)
    BY <1>3
  <2>. QED  BY <2>1, UnlessType
<1>7. out' \in Seq(Events)
  <2>1. \A x, y \in Seq(Events) : x \o y \in Seq(Events)
    BY ConcatProperties
  <2>2. CASE api = "openai"
    <3>1. PICK x \in Seq(Events), y \in Seq(Events), z \in Seq(Events) :
             out' = out \o x \o y \o z
      BY <1>1, <1>4, <1>5, <2>2 DEF TellsLast
    <3>. QED  BY <1>1, <2>1, <3>1
  <2>3. CASE api # "openai"
    <3>1. PICK x \in Seq(Events), y \in Seq(Events), z \in Seq(Events) :
             out' = out \o x \o y \o z
      BY <1>1, <1>4, <1>6, <2>3 DEF TellsLast
    <3>. QED  BY <1>1, <2>1, <3>1
  <2>. QED  BY <2>2, <2>3
<1>8. block' \in Nat \cup {None} /\ next' \in Nat
  BY <1>1 DEF TellsLast, HandlerType
<1>. QED  BY <1>7, <1>8 DEF TellsLast, HandlerType

LEMMA FullContentType ==
    ASSUME body \in Text
    PROVE  FullContent \in Text
<1>1. Without(body, ToSet(Thought \o Failure \o Identifier)) \in Text
  BY KeepType DEF Without, Text
<1>2. body # <<>> => <<body[1]>> \in Text
  <2>1. body # <<>> => body[1] \in Symbols
    BY ElementOfSeq, EmptySeq DEF Text
  <2>. QED  BY <2>1, OneType DEF Text
<1>. QED  BY <1>1, <1>2 DEF FullContent

LEMMA WholeEventsType ==
    ASSUME body \in Text, NEW calls \in Seq(Calls)
    PROVE  Completion(calls) \in Seq(Events) /\ Message(calls) \in Seq(Events)
<1>1. VisibleContent \in Text
  BY FullContentType, RemoveMarkupType, TrimType DEF VisibleContent, Text
<1>2. Result(VisibleContent, calls) \in Results /\ Result(<<>>, calls) \in Results
  BY <1>1, WordType DEF Result, Results
<1>3. OpenAIContent(Result(VisibleContent, calls)) \in Seq(Events)
      /\ OpenAICalls(Result(<<>>, calls)) \in Seq(Events)
  BY <1>2, ContentEventsType
<1>4. <<Reason(calls # <<>>)>> \in Seq(Events)
  BY ReasonType, OneType
<1>5. Unless(Thought[1] \notin ToSet(body), ThoughtShown) \in Seq(Events)
  BY UnlessType, ThoughtShownType
<1>6. Unless(VisibleContent = <<>> /\ calls # <<>>, <<Event("content", 0, VisibleContent)>>) \in Seq(Events)
  <2>1. Event("content", 0, VisibleContent) \in Events
    BY <1>1, EventType, KindType
  <2>. QED  BY <2>1, OneType, UnlessType
<1>. QED  BY <1>3, <1>4, <1>5, <1>6, ConcatProperties DEF Completion, Message

\* The calls FinishWhole may tell.
LEMMA WholeCalls ==
    ASSUME HandlerType, FinishWhole
    PROVE  \E calls \in Seq(Calls) :
              /\ \/ out' = <<Event("error", None, <<>>)>>
                 \/ out' = IF api = "completion" THEN Completion(calls) ELSE Message(calls)
              /\ callsSent' = (calls # <<>>)
<1>1. ParseCalls(FullContent) \in Seq(Calls) /\ <<>> \in Seq(Calls)
  BY FullContentType, ParseCallsType, EmptySeq DEF HandlerType, Text
<1>. QED  BY <1>1 DEF FinishWhole

LEMMA StreamLast ==
    ASSUME HandlerType, FinishStream
    PROVE  \E r \in Results : TellsLast(r, AnyCalls(r))
<1>1. Visible(FinalizeStream(sieve)) \in Results /\ Nothing \in Results
  BY FinalizeType, VisibleType, EmptySeq, WordType DEF HandlerType, Nothing, Result, Results
<1>. QED  BY <1>1 DEF FinishStream

LEMMA FinishType ==
    ASSUME HandlerType, FinishStream \/ FinishWhole
    PROVE  HandlerType'
<1>1. CASE FinishStream
  <2>1. PICK r \in Results : TellsLast(r, AnyCalls(r))
    BY <1>1, StreamLast
  <2>2. AnyCalls(r) \in BOOLEAN
    BY DEF AnyCalls, HandlerType
  <2>. QED  BY <1>1, <2>1, <2>2, TellsLastType DEF FinishStream, Done
<1>2. CASE FinishWhole
  <2>1. PICK calls \in Seq(Calls) :
              /\ \/ out' = <<Event("error", None, <<>>)>>
                 \/ out' = IF api = "completion" THEN Completion(calls) ELSE Message(calls)
              /\ callsSent' = (calls # <<>>)
    BY <1>2, WholeCalls
  <2>2. Completion(calls) \in Seq(Events) /\ Message(calls) \in Seq(Events)
    BY WholeEventsType DEF HandlerType
  <2>3. <<Event("error", None, <<>>)>> \in Seq(Events)
    BY EventType, KindType, WordType, OneType
  <2>4. out' \in Seq(Events) /\ callsSent' \in BOOLEAN
    BY <2>1, <2>2, <2>3
  <2>. QED  BY <1>2, <2>4 DEF FinishWhole, Done, HandlerType
<1>. QED  BY <1>1, <1>2

LEMMA StreamTypeStep ==
    ASSUME StreamType, [Next]_vars
    PROVE  StreamType'
<1>1. HandlerType /\ buffered \in Seq(Text) /\ answer \in Text /\ Len(answer) \in Nat
  BY AnswerType DEF StreamType
<1>2. ASSUME NEW n \in 1 .. Len(answer), Chunk(n) PROVE StreamType'
  <2>1. SubSeq(answer, sent + 1, n) \in Text
    <3>1. sent + 1 \in Nat \ {0} /\ n \in Nat /\ n <= Len(answer)
      BY <1>1 DEF StreamType
    <3>. QED  BY SubSeqType, <1>1, <3>1 DEF Text
  <2>2. Comes(SubSeq(answer, sent + 1, n)) /\ sent' = n /\ ended' = ended
    BY <1>2 DEF Chunk
  <2>3. n \in 0 .. Len(answer)
    BY <1>1
  <2>. QED  BY <2>1, <2>2, <2>3, ComesType DEF StreamType
<1>3. CASE Think
  BY <1>3, WordType, ComesType DEF Think, StreamType
<1>4. CASE Heartbeat
  BY <1>4, WordType, ComesType DEF Heartbeat, StreamType
<1>5. CASE Fails
  BY <1>5, WordType, ComesType DEF Fails, StreamType
<1>6. CASE InspectEnds
  <2>1. <<Failure>> \in Seq(Text)
    BY WordType, OneType
  <2>. QED  BY <1>1, <1>6, <2>1 DEF InspectEnds, StreamType, HandlerType, request, handler
<1>7. CASE InspectBreaks
  BY <1>1, <1>7 DEF InspectBreaks, StreamType, HandlerType, request, handler
<1>8. CASE Replay
  <2>1. buffered # <<>> /\ buffered' = Tail(buffered) /\ Handle(buffered[1])
    BY <1>8 DEF Replay
  <2>2. buffered[1] \in Text /\ Tail(buffered) \in Seq(Text)
    <3>1. 1 \in 1 .. Len(buffered)
      BY <1>1, <2>1, EmptySeq
    <3>. QED  BY <1>1, <2>1, <3>1, ElementOfSeq, HeadTailProperties
  <2>3. HandlerType'
    BY <1>1, <2>1, <2>2, HandleType
  <2>. QED  BY <1>8, <2>1, <2>2, <2>3 DEF Replay, StreamType, request
<1>9. CASE FinishStream \/ FinishWhole
  <2>1. HandlerType'
    BY <1>1, <1>9, FinishType
  <2>. QED  BY <1>9, <2>1 DEF FinishStream, FinishWhole, Done, StreamType, request
<1>10. CASE Hollow
  <2>1. ended' \in BOOLEAN
    BY <1>10 DEF Hollow
  <2>. QED  BY <1>10, <2>1, WordType, ComesType DEF Hollow, StreamType
<1>11. CASE UNCHANGED vars
  BY <1>1, <1>11 DEF vars, request, handler, StreamType, HandlerType
<1>. QED  BY <1>2, <1>3, <1>4, <1>5, <1>6, <1>7, <1>8, <1>9, <1>10, <1>11 DEF Next

LEMMA InitType == Init => StreamType
<1>. SUFFICES ASSUME Init PROVE StreamType
  OBVIOUS
<1>1. answer \in Text /\ Len(answer) \in Nat
  BY AnswerType DEF Init
<1>2. HandlerType
  BY WordType, NewStreamType, EmptySeq DEF Init, HandlerType
<1>3. <<>> \in Seq(Text)
  BY EmptySeq
<1>4. sent \in 0 .. Len(answer)
  BY <1>1 DEF Init
<1>. QED  BY <1>2, <1>3, <1>4 DEF Init, StreamType

-----------------------------------------------------------------------------
\* An element of s is in X.
Some(s, X) == \E i \in 1 .. Len(s) : s[i] \in X

LEMMA SomeConcat ==
    ASSUME NEW S, NEW s \in Seq(S), NEW t \in Seq(S), NEW X
    PROVE  Some(s \o t, X) <=> Some(s, X) \/ Some(t, X)
<1>1. PICK w \in Seq(S) : w = s \o t
  BY ConcatProperties
<1>2. PICK m \in Nat, n \in Nat : m = Len(s) /\ n = Len(t)
  BY LenProperties
<1>3. Len(w) = m + n /\ \A i \in 1 .. m + n : w[i] = IF i <= m THEN s[i] ELSE t[i - m]
  BY <1>1, <1>2, ConcatProperties
<1>4. ASSUME NEW i \in 1 .. m PROVE i \in 1 .. m + n /\ w[i] = s[i]
  BY <1>3
<1>5. ASSUME NEW i \in 1 .. n PROVE m + i \in 1 .. m + n /\ w[m + i] = t[i]
  <2>1. m + i \in 1 .. m + n /\ ~ (m + i <= m) /\ (m + i) - m = i
    OBVIOUS
  <2>. QED  BY <1>3, <2>1
<1>6. ASSUME NEW i \in 1 .. m + n
      PROVE  (i \in 1 .. m /\ w[i] = s[i]) \/ (i - m \in 1 .. n /\ w[i] = t[i - m])
  <2>1. (i \in 1 .. m /\ i <= m) \/ (i - m \in 1 .. n /\ ~ (i <= m))
    OBVIOUS
  <2>. QED  BY <1>3, <2>1
<1>7. Some(s, X) => Some(w, X)
  BY <1>2, <1>3, <1>4 DEF Some
<1>8. Some(t, X) => Some(w, X)
  BY <1>2, <1>3, <1>5 DEF Some
<1>9. Some(w, X) => Some(s, X) \/ Some(t, X)
  BY <1>2, <1>3, <1>6 DEF Some
<1>. QED  BY <1>1, <1>7, <1>8, <1>9

LEMMA SomeOfNone == \A X : ~ Some(<<>>, X)
BY DEF Some

LEMMA SomeOfOne == \A x, X : Some(<<x>>, X) <=> x \in X
BY DEF Some

LEMMA SomeFlatten ==
    ASSUME NEW S, NEW seqs \in Seq(Seq(S)), NEW X
    PROVE  Some(FlattenSeq(seqs), X) <=> \E n \in 1 .. Len(seqs) : Some(seqs[n], X)
<1>. DEFINE T == {k \in Nat : k <= Len(seqs) =>
                    (Some(FlattenSeq(SubSeq(seqs, 1, k)), X) <=> \E n \in 1 .. k : Some(seqs[n], X))}
<1>1. Len(seqs) \in Nat
  BY LenProperties
<1>2. 0 \in T
  <2>1. SubSeq(seqs, 1, 0) = <<>>
    BY SubSeqEmpty
  <2>2. ~ Some(FlattenSeq(SubSeq(seqs, 1, 0)), X)
    BY <2>1, FlattenEmpty, SomeOfNone
  <2>. QED  BY <2>2
<1>3. ASSUME NEW k \in Nat, k \in T PROVE k + 1 \in T
  <2>. SUFFICES ASSUME k + 1 <= Len(seqs)
                PROVE  Some(FlattenSeq(SubSeq(seqs, 1, k + 1)), X) <=> \E n \in 1 .. k + 1 : Some(seqs[n], X)
    OBVIOUS
  <2>1. k \in 0 .. Len(seqs) - 1 /\ k \in 0 .. Len(seqs) /\ k + 1 \in 1 .. Len(seqs) /\ k <= Len(seqs)
    BY <1>1
  <2>2. FlattenSeq(SubSeq(seqs, 1, k)) \in Seq(S) /\ seqs[k + 1] \in Seq(S)
    BY <2>1, FlattenPrefix, ElementOfSeq
  <2>3. FlattenSeq(SubSeq(seqs, 1, k + 1)) = FlattenSeq(SubSeq(seqs, 1, k)) \o seqs[k + 1]
    BY <2>1, FlattenNext
  <2>4. Some(FlattenSeq(SubSeq(seqs, 1, k + 1)), X) <=>
            Some(FlattenSeq(SubSeq(seqs, 1, k)), X) \/ Some(seqs[k + 1], X)
    <3>1. PICK x \in Seq(S), y \in Seq(S) : x = FlattenSeq(SubSeq(seqs, 1, k)) /\ y = seqs[k + 1]
      BY <2>2
    <3>2. Some(x \o y, X) <=> Some(x, X) \/ Some(y, X)
      BY SomeConcat
    <3>. QED  BY <2>3, <3>1, <3>2
  <2>5. Some(FlattenSeq(SubSeq(seqs, 1, k)), X) <=> \E n \in 1 .. k : Some(seqs[n], X)
    BY <1>3, <2>1
  <2>6. \A n \in 1 .. k + 1 : n \in 1 .. k \/ n = k + 1
    OBVIOUS
  <2>7. \A n \in 1 .. k : n \in 1 .. k + 1
    OBVIOUS
  <2>8. k + 1 \in 1 .. k + 1
    OBVIOUS
  <2>. HIDE DEF T
  <2>. QED  BY <2>4, <2>5, <2>6, <2>7, <2>8
<1>4. Len(seqs) \in T
  <2>. HIDE DEF T
  <2>. QED  BY <1>1, <1>2, <1>3, SetInduction
<1>5. SubSeq(seqs, 1, Len(seqs)) = seqs
  BY SubSeqFull
<1>6. Some(FlattenSeq(SubSeq(seqs, 1, Len(seqs))), X) <=> \E n \in 1 .. Len(seqs) : Some(seqs[n], X)
  BY <1>1, <1>4
<1>. QED  BY <1>5, <1>6

-----------------------------------------------------------------------------
\* ReasonTellsCalls.  Until the end no reason has been told, and a handler knows whether it
\* has sent calls.
Finishing == [kind : {"finish"}, index : Nat \cup {None}, item : Text]
Calling == [kind : {"calls", "input"}, index : Nat \cup {None}, item : Text]

ReasonInv ==
    /\ ReasonTellsCalls
    /\ state \in {"inspect", "serve"} =>
          /\ ~ Some(out, Finishing)
          /\ api \in Streamed => (callsSent <=> Some(out, Calling))
          /\ api \in Whole => out = <<>>

\* A lemma about each list of events: no reason in it, and calls if there are calls.
Plain(e) == e \in Seq(Events) /\ ~ Some(e, Finishing) /\ ~ Some(e, Calling)
Telling(e, calls) == e \in Seq(Events) /\ ~ Some(e, Finishing) /\ (Some(e, Calling) <=> calls # <<>>)

LEMMA EventKind ==
    ASSUME NEW kind, NEW index, NEW item
    PROVE  /\ Event(kind, index, item) \in Finishing => kind = "finish"
           /\ Event(kind, index, item) \in Calling => kind \in {"calls", "input"}
           /\ Event(kind, index, item) \in Events /\ kind \in {"calls", "input"} =>
                 Event(kind, index, item) \in Calling
BY DEF Event, Finishing, Calling, Events

LEMMA NonePlain == Plain(<<>>)
BY SomeOfNone, EmptySeq DEF Plain

LEMMA OnePlain ==
    ASSUME NEW kind \in Kinds \ {"finish", "calls", "input"}, NEW index \in Nat \cup {None}, NEW item \in Text
    PROVE  Plain(<<Event(kind, index, item)>>)
<1>1. Event(kind, index, item) \in Events
  BY EventType
<1>2. Event(kind, index, item) \notin Finishing /\ Event(kind, index, item) \notin Calling
  BY EventKind
<1>. QED  BY <1>1, <1>2, SomeOfOne, OneType DEF Plain

LEMMA UnlessPlain ==
    ASSUME NEW e, Plain(e), NEW cond
    PROVE  Plain(Unless(cond, e))
BY NonePlain DEF Unless

LEMMA ConcatPlain ==
    ASSUME NEW d, NEW e, Plain(d)
    PROVE  /\ Plain(e) => Plain(d \o e)
           /\ \A calls : Telling(e, calls) => Telling(d \o e, calls) /\ Telling(e \o d, calls)
<1>1. ASSUME e \in Seq(Events)
      PROVE  /\ d \o e \in Seq(Events) /\ e \o d \in Seq(Events)
             /\ \A X : Some(d \o e, X) <=> Some(d, X) \/ Some(e, X)
             /\ \A X : Some(e \o d, X) <=> Some(d, X) \/ Some(e, X)
  BY <1>1, SomeConcat, ConcatProperties DEF Plain
<1>. QED  BY <1>1 DEF Plain, Telling

LEMMA OpenAIPlain ==
    ASSUME NEW r \in Results
    PROVE  Plain(OpenAIContent(r)) /\ Telling(OpenAICalls(r), r.calls)
<1>1. r.content \in Text /\ r.calls \in Text
  BY CallsAreTexts DEF Results
<1>2. Plain(<<Event("content", None, r.content)>>)
  BY <1>1, OnePlain, KindType
<1>3. Plain(OpenAIContent(r))
  BY <1>2, UnlessPlain DEF OpenAIContent
<1>4. CASE r.calls = <<>>
  <2>1. OpenAICalls(r) = <<>> /\ <<>> \in Seq(Events)
    BY <1>4, EmptySeq DEF OpenAICalls, Unless
  <2>. QED  BY <1>3, <1>4, <2>1, SomeOfNone DEF Telling
<1>5. CASE r.calls # <<>>
  <2>1. Event("calls", 0, r.calls) \in Events
    BY <1>1, EventType, KindType
  <2>2. Event("calls", 0, r.calls) \notin Finishing /\ Event("calls", 0, r.calls) \in Calling
    BY <2>1, EventKind
  <2>. QED  BY <1>3, <1>5, <2>1, <2>2, SomeOfOne, OneType DEF OpenAICalls, Unless, Telling
<1>. QED  BY <1>3, <1>4, <1>5

LEMMA ToolUseTelling ==
    ASSUME NEW index \in Nat, NEW call \in Calls
    PROVE  ~ Some(ToolUse(index, call), Finishing) /\ Some(ToolUse(index, call), Calling)
<1>. DEFINE e1 == Event("block_start", index, <<"tool_use">>)
            e2 == Event("input", index, <<call>>)
            e3 == Event("block_stop", index, <<>>)
<1>1. ToolUse(index, call) = <<e1, e2, e3>>
  BY DEF ToolUse
<1>2. e1 \notin Finishing /\ e2 \notin Finishing /\ e3 \notin Finishing
  BY EventKind
<1>3. e2 \in Calling
  <2>1. <<call>> \in Text
    BY StreamAssumption, OneType DEF Text, Symbols
  <2>2. Event("input", index, <<call>>) \in Events
    BY <2>1, EventType, KindType
  <2>. QED  BY <2>2, EventKind
<1>. HIDE DEF e1, e2, e3
<1>4. PICK e : e = <<e1, e2, e3>>
  OBVIOUS
<1>5. Len(e) = 3 /\ e[1] = e1 /\ e[2] = e2 /\ e[3] = e3
  BY <1>4
<1>. QED  BY <1>1, <1>2, <1>3, <1>4, <1>5 DEF Some

LEMMA ToolUsesTelling ==
    ASSUME NEW r \in Results, NEW open \in Nat \cup {None}, NEW first \in Nat
    PROVE  Telling(ToolUses(r, open, first), r.calls)
<1>1. r.calls \in Seq(Calls) /\ Len(r.calls) \in Nat
  BY LenProperties DEF Results
<1>. DEFINE u == Uses(r.calls, first)
<1>2. /\ u \in Seq(Seq(Events)) /\ Len(u) = Len(r.calls)
      /\ \A n \in 1 .. Len(r.calls) : u[n] = ToolUse(first + n - 1, r.calls[n])
  BY <1>1, UsesType
<1>. HIDE DEF u
<1>3. \A n \in 1 .. Len(u) : ~ Some(u[n], Finishing) /\ Some(u[n], Calling)
  <2>. SUFFICES ASSUME NEW n \in 1 .. Len(u) PROVE ~ Some(u[n], Finishing) /\ Some(u[n], Calling)
    OBVIOUS
  <2>1. first + n - 1 \in Nat /\ r.calls[n] \in Calls /\ n \in 1 .. Len(r.calls)
    BY <1>1, <1>2, ElementOfSeq
  <2>. QED  BY <1>2, <2>1, ToolUseTelling
<1>4. Len(u) # 0 <=> r.calls # <<>>
  BY <1>1, <1>2, EmptySeq
<1>5. Telling(FlattenSeq(u), r.calls)
  <2>1. FlattenSeq(u) \in Seq(Events)
    BY <1>2, FlattenType
  <2>2. \A X : Some(FlattenSeq(u), X) <=> \E n \in 1 .. Len(u) : Some(u[n], X)
    BY <1>2, SomeFlatten
  <2>3. Some(FlattenSeq(u), Calling) <=> r.calls # <<>>
    BY <1>1, <1>2, <1>3, <1>4, <2>2
  <2>. QED  BY <1>3, <2>1, <2>2, <2>3 DEF Telling
<1>6. Plain(Unless(r.calls = <<>> \/ open = None, <<Event("block_stop", open, <<>>)>>))
  BY OnePlain, UnlessPlain, KindType, WordType
<1>. QED  BY <1>5, <1>6, ConcatPlain DEF ToolUses, Uses, u

LEMMA StartedPlain == Plain(Started)
<1>1. Plain(<<Event("message_start", None, <<>>)>>)
  BY OnePlain, KindType, WordType
<1>. QED  BY <1>1, UnlessPlain DEF Started

LEMMA AnthropicTelling ==
    ASSUME NEW r \in Results, block \in Nat \cup {None}, next \in Nat
    PROVE  Telling(AnthropicEvents(r), r.calls)
<1>1. TextBlock \in Nat /\ r.content \in Text /\ <<"text">> \in Text
  BY TextDeltaType, WordType DEF Results
<1>2. Plain(TextDelta(r))
  <2>1. Plain(<<Event("block_start", TextBlock, <<"text">>)>>)
    BY <1>1, OnePlain, KindType
  <2>2. Plain(<<Event("delta", TextBlock, r.content)>>)
    BY <1>1, OnePlain, KindType
  <2>3. Plain(Unless(block # None, <<Event("block_start", TextBlock, <<"text">>)>>))
    BY <2>1, UnlessPlain
  <2>. QED  BY <2>2, <2>3, ConcatPlain, UnlessPlain DEF TextDelta
<1>3. Plain(Started \o TextDelta(r))
  BY <1>2, StartedPlain, ConcatPlain
<1>4. NextText(r) \in Nat /\ (IF r.content # <<>> THEN TextBlock ELSE block) \in Nat \cup {None}
  BY <1>1, AfterType
<1>. QED  BY <1>3, <1>4, ToolUsesTelling, ConcatPlain DEF AnthropicEvents

\* What a handler knows of the events it has sent, o: no reason yet, and whether calls.
Known(o, calls) == o \in Seq(Events) /\ ~ Some(o, Finishing) /\ (calls <=> Some(o, Calling))

LEMMA KnownMore ==
    ASSUME NEW o, NEW c \in BOOLEAN, Known(o, c), NEW e
    PROVE  /\ Plain(e) => Known(o \o e, c)
           /\ \A calls : Telling(e, calls) => Known(o \o e, c \/ calls # <<>>)
<1>1. e \in Seq(Events) =>
        /\ o \o e \in Seq(Events)
        /\ \A X : Some(o \o e, X) <=> Some(o, X) \/ Some(e, X)
  BY SomeConcat, ConcatProperties DEF Known
<1>. QED  BY <1>1 DEF Known, Plain, Telling

Told(events) ==
    \A i \in 1 .. Len(events) : events[i].kind = "finish" =>
        (events[i].item = <<"tool_calls">> <=>
            \E j \in 1 .. i : events[j].kind \in {"calls", "input"})

LEMMA NoReasonTold ==
    ASSUME NEW o \in Seq(Events), ~ Some(o, Finishing)
    PROVE  Told(o)
<1>1. \A i \in 1 .. Len(o) : o[i] \in Events
  BY ElementOfSeq
<1>2. \A i \in 1 .. Len(o) : o[i].kind # "finish"
  BY <1>1 DEF Some, Events, Finishing
<1>. QED  BY <1>2 DEF Told

LEMMA ReasonTold ==
    ASSUME NEW o, NEW c \in BOOLEAN, Known(o, c), NEW t, Plain(t)
    PROVE  Told(o \o (<<Reason(c)>> \o t)) /\ o \o (<<Reason(c)>> \o t) \in Seq(Events)
<1>1. Reason(c) \in Events
  BY ReasonType
<1>2. PICK u \in Seq(Events) : u = <<Reason(c)>> \o t
  BY <1>1, OneType, ConcatProperties DEF Plain
<1>3. PICK w \in Seq(Events) : w = o \o u
  BY ConcatProperties DEF Known
<1>4. PICK m \in Nat, n \in Nat : m = Len(o) /\ n = Len(t)
  BY LenProperties DEF Known, Plain
<1>5. Len(u) = n + 1 /\ u[1] = Reason(c) /\ \A i \in 1 .. n : u[i + 1] = t[i]
  <2>1. <<Reason(c)>> \in Seq(Events) /\ Len(<<Reason(c)>>) = 1 /\ <<Reason(c)>>[1] = Reason(c)
    BY <1>1, OneType
  <2>. DEFINE one == <<Reason(c)>>
  <2>2. Len(one \o t) = Len(one) + Len(t)
        /\ \A i \in 1 .. Len(one) + Len(t) : (one \o t)[i] = IF i <= Len(one) THEN one[i] ELSE t[i - Len(one)]
    BY <2>1, ConcatProperties DEF Plain
  <2>. HIDE DEF one
  <2>3. Len(one) = 1 /\ one[1] = Reason(c) /\ u = one \o t
    BY <1>2, <2>1 DEF one
  <2>4. Len(u) = n + 1 /\ \A i \in 1 .. n + 1 : u[i] = IF i <= 1 THEN Reason(c) ELSE t[i - 1]
    BY <1>4, <2>2, <2>3
  <2>5. \A i \in 1 .. n : i + 1 \in 1 .. n + 1 /\ ~ (i + 1 <= 1) /\ (i + 1) - 1 = i
    OBVIOUS
  <2>6. 1 \in 1 .. n + 1
    OBVIOUS
  <2>. QED  BY <2>4, <2>5, <2>6
<1>6. Len(w) = m + (n + 1) /\ \A i \in 1 .. m + (n + 1) : w[i] = IF i <= m THEN o[i] ELSE u[i - m]
  <2>1. o \in Seq(Events)
    BY DEF Known
  <2>2. Len(o \o u) = Len(o) + Len(u)
        /\ \A i \in 1 .. Len(o) + Len(u) : (o \o u)[i] = IF i <= Len(o) THEN o[i] ELSE u[i - Len(o)]
    BY <2>1, ConcatProperties
  <2>. QED  BY <1>3, <1>4, <1>5, <2>2
<1>7. \A i \in 1 .. m : w[i] = o[i]
  <2>1. \A i \in 1 .. m : i \in 1 .. m + (n + 1) /\ i <= m
    OBVIOUS
  <2>. QED  BY <1>6, <2>1
<1>8. w[m + 1] = Reason(c)
  <2>1. m + 1 \in 1 .. m + (n + 1) /\ ~ (m + 1 <= m) /\ (m + 1) - m = 1
    OBVIOUS
  <2>. QED  BY <1>5, <1>6, <2>1
<1>9. ASSUME NEW i \in 1 .. Len(w), w[i].kind = "finish" PROVE i = m + 1
  <2>1. \A j \in 1 .. m : o[j].kind # "finish"
    <3>1. \A j \in 1 .. m : o[j] \in Events
      BY <1>4, ElementOfSeq DEF Known
    <3>. QED  BY <1>4, <3>1 DEF Known, Some, Events, Finishing
  <2>2. \A j \in 1 .. n : t[j].kind # "finish"
    <3>1. \A j \in 1 .. n : t[j] \in Events
      BY <1>4, ElementOfSeq DEF Plain
    <3>. QED  BY <1>4, <3>1 DEF Plain, Some, Events, Finishing
  <2>3. CASE i \in 1 .. m
    BY <1>7, <1>9, <2>1, <2>3
  <2>4. CASE i > m + 1
    <3>1. i - (m + 1) \in 1 .. n /\ (i - (m + 1)) + 1 = i - m /\ ~ (i <= m) /\ i \in 1 .. m + (n + 1)
      BY <1>6, <2>4
    <3>2. w[i] = t[i - (m + 1)]
      BY <1>5, <1>6, <3>1
    <3>. QED  BY <1>9, <2>2, <3>1, <3>2
  <2>5. i \in 1 .. m \/ i = m + 1 \/ i > m + 1
    BY <1>6
  <2>. QED  BY <2>3, <2>4, <2>5
<1>10. Reason(c).item = <<"tool_calls">> <=> c
  BY DEF Reason, Event
<1>11. (\E j \in 1 .. m + 1 : w[j].kind \in {"calls", "input"}) <=> c
  <2>1. w[m + 1].kind \notin {"calls", "input"}
    BY <1>8 DEF Reason, Event
  <2>2. \A j \in 1 .. m + 1 : j \in 1 .. m \/ j = m + 1
    OBVIOUS
  <2>3. \A j \in 1 .. m : j \in 1 .. m + 1
    OBVIOUS
  <2>4. \A j \in 1 .. m : o[j] \in Calling <=> o[j].kind \in {"calls", "input"}
    <3>1. \A j \in 1 .. m : o[j] \in Events
      BY <1>4, ElementOfSeq DEF Known
    <3>. QED  BY <3>1 DEF Events, Calling
  <2>5. c <=> \E j \in 1 .. m : o[j].kind \in {"calls", "input"}
    BY <1>4, <2>4 DEF Known, Some
  <2>. QED  BY <1>7, <2>1, <2>2, <2>3, <2>5
<1>12. Told(w)
  <2>. SUFFICES ASSUME NEW i \in 1 .. Len(w), w[i].kind = "finish"
                PROVE  w[i].item = <<"tool_calls">> <=> \E j \in 1 .. i : w[j].kind \in {"calls", "input"}
    BY DEF Told
  <2>1. i = m + 1
    BY <1>9
  <2>. QED  BY <1>8, <1>10, <1>11, <2>1
<1>. QED  BY <1>2, <1>3, <1>12

\* A handler goes on knowing.
LEMMA TellsKnown ==
    ASSUME HandlerType, NEW r \in Results, Tells(r), Known(out, callsSent)
    PROVE  Known(out', callsSent')
<1>1. callsSent' = (callsSent \/ r.calls # <<>>) /\ callsSent \in BOOLEAN
  BY DEF Tells, AnyCalls, HandlerType
<1>2. CASE api = "openai"
  <2>1. Plain(OpenAIContent(r)) /\ Telling(OpenAICalls(r), r.calls)
    BY OpenAIPlain
  <2>2. out' = (out \o OpenAICalls(r)) \o OpenAIContent(r)
    BY <1>2 DEF Tells
  <2>3. Known(out \o OpenAICalls(r), callsSent \/ r.calls # <<>>)
    BY <1>1, <2>1, KnownMore
  <2>. QED  BY <1>1, <2>1, <2>2, <2>3, KnownMore
<1>3. CASE api # "openai"
  <2>1. Telling(AnthropicEvents(r), r.calls)
    BY AnthropicTelling DEF HandlerType
  <2>2. out' = out \o AnthropicEvents(r)
    BY <1>3 DEF Tells
  <2>. QED  BY <1>1, <2>1, <2>2, KnownMore
<1>. QED  BY <1>2, <1>3

LEMMA HandleKnown ==
    ASSUME HandlerType, NEW event \in Text, Handle(event), api \in Streamed, Known(out, callsSent)
    PROVE  Known(out', callsSent')
<1>1. callsSent \in BOOLEAN
  BY DEF HandlerType
<1>2. ASSUME NEW e, Plain(e), Shows(e) PROVE Known(out', callsSent')
  BY <1>1, <1>2, KnownMore DEF Shows
<1>3. Sieved(event) => Known(out', callsSent')
  <2>. SUFFICES ASSUME Sieved(event) PROVE Known(out', callsSent')
    OBVIOUS
  <2>1. PICK step : step = ProcessStreamChunk(sieve, event) /\ Tells(Visible(step.out))
    BY DEF Sieved
  <2>2. Visible(step.out) \in Results
    BY <2>1, ProcessType, VisibleType DEF HandlerType
  <2>. QED  BY <2>1, <2>2, TellsKnown
<1>4. Plain(<<>>) /\ Plain(Started)
  BY NonePlain, StartedPlain
<1>5. CASE HandleOpenAI(event)
  <2>1. Plain(<<Event("reasoning", None, Thought)>>)
    BY OnePlain, KindType, WordType
  <2>2. Plain(ThoughtShown)
    BY <2>1, UnlessPlain DEF ThoughtShown
  <2>3. Plain(<<Event("content", None, event)>>)
    BY OnePlain, KindType
  <2>. QED  BY <1>2, <1>3, <1>4, <1>5, <2>2, <2>3 DEF HandleOpenAI
<1>6. CASE HandleAnthropic(event)
  BY <1>2, <1>3, <1>4, <1>6 DEF HandleAnthropic
<1>7. ~ HandleWhole(event)
  BY DEF HandleWhole, Streamed, Whole
<1>. QED  BY <1>5, <1>6, <1>7 DEF Handle

LEMMA TellsLastTold ==
    ASSUME HandlerType, NEW r \in Results, TellsLast(r, AnyCalls(r)), Known(out, callsSent)
    PROVE  Told(out')
<1>1. callsSent \in BOOLEAN
  BY DEF HandlerType
<1>2. PICK c \in BOOLEAN : c = AnyCalls(r) /\ c = (callsSent \/ r.calls # <<>>)
  BY <1>1 DEF AnyCalls
<1>. DEFINE reason == <<Reason(c)>>
<1>3. reason \in Seq(Events)
  BY ReasonType, OneType
<1>4. CASE api = "openai"
  <2>. DEFINE a == Unless(Blank(r.content), OpenAIContent(r))
              b == OpenAICalls(r)
              t == <<Event("usage", None, <<>>), Event("done", None, <<>>)>>
  <2>1. out' = out \o a \o b \o <<Reason(c), Event("usage", None, <<>>), Event("done", None, <<>>)>>
    BY <1>2, <1>4 DEF TellsLast
  <2>2. Plain(a) /\ Telling(b, r.calls)
    BY OpenAIPlain, UnlessPlain
  <2>3. Plain(t)
    <3>1. Plain(<<Event("usage", None, <<>>)>>) /\ Plain(<<Event("done", None, <<>>)>>)
      BY OnePlain, KindType, WordType
    <3>2. t = <<Event("usage", None, <<>>)>> \o <<Event("done", None, <<>>)>>
      OBVIOUS
    <3>. QED  BY <3>1, <3>2, ConcatPlain
  <2>4. <<Reason(c), Event("usage", None, <<>>), Event("done", None, <<>>)>> = reason \o t
    OBVIOUS
  <2>5. Known(out \o a, callsSent)
    BY <1>1, <2>2, KnownMore
  <2>6. Known(out \o a \o b, c)
    BY <1>1, <1>2, <2>2, <2>5, KnownMore
  <2>7. out' = (out \o a \o b) \o (reason \o t)
    BY <2>1, <2>4
  <2>. HIDE DEF a, b, t
  <2>. QED  BY <2>3, <2>6, <2>7, ReasonTold
<1>5. CASE api # "openai"
  <2>. DEFINE a == AnthropicEvents(r)
              b == Unless(OpenAfter(r) = None, <<Event("block_stop", OpenAfter(r), <<>>)>>)
              t == <<Event("message_stop", None, <<>>)>>
  <2>1. out' = out \o a \o b \o <<Reason(c), Event("message_stop", None, <<>>)>>
    BY <1>2, <1>5 DEF TellsLast
  <2>2. Telling(a, r.calls)
    BY AnthropicTelling DEF HandlerType
  <2>3. Plain(b)
    <3>1. OpenAfter(r) \in Nat \cup {None}
      BY AfterType DEF HandlerType
    <3>2. Plain(<<Event("block_stop", OpenAfter(r), <<>>)>>)
      BY <3>1, OnePlain, KindType, WordType
    <3>. QED  BY <3>2, UnlessPlain
  <2>4. Plain(t)
    BY OnePlain, KindType, WordType
  <2>5. <<Reason(c), Event("message_stop", None, <<>>)>> = reason \o t
    OBVIOUS
  <2>6. Known(out \o a, c)
    BY <1>1, <1>2, <2>2, KnownMore
  <2>7. Known(out \o a \o b, c)
    BY <2>3, <2>6, KnownMore
  <2>8. out' = (out \o a \o b) \o (reason \o t)
    BY <2>1, <2>5
  <2>. HIDE DEF a, b, t
  <2>. QED  BY <2>4, <2>7, <2>8, ReasonTold
<1>. QED  BY <1>4, <1>5

LEMMA WholeTold ==
    ASSUME HandlerType, FinishWhole
    PROVE  Told(out')
<1>1. PICK calls \in Seq(Calls) :
              /\ \/ out' = <<Event("error", None, <<>>)>>
                 \/ out' = IF api = "completion" THEN Completion(calls) ELSE Message(calls)
              /\ callsSent' = (calls # <<>>)
  BY WholeCalls
<1>2. CASE out' = <<Event("error", None, <<>>)>>
  <2>1. Plain(<<Event("error", None, <<>>)>>)
    BY OnePlain, KindType, WordType
  <2>. QED  BY <1>2, <2>1, NoReasonTold DEF Plain
<1>. DEFINE c == calls # <<>>
<1>3. VisibleContent \in Text /\ Result(<<>>, calls) \in Results /\ Result(VisibleContent, calls) \in Results
  <2>1. VisibleContent \in Text
    BY FullContentType, RemoveMarkupType, TrimType DEF VisibleContent, HandlerType, Text
  <2>. QED  BY <2>1, WordType DEF Result, Results
<1>4. Telling(OpenAICalls(Result(<<>>, calls)), calls)
  <2>1. Result(<<>>, calls).calls = calls
    BY DEF Result
  <2>. QED  BY <1>3, <2>1, OpenAIPlain
<1>5. ASSUME NEW e, Plain(e) PROVE Told(e \o OpenAICalls(Result(<<>>, calls)) \o <<Reason(c)>>)
  <2>1. Telling(e \o OpenAICalls(Result(<<>>, calls)), calls)
    BY <1>4, <1>5, ConcatPlain
  <2>2. Known(e \o OpenAICalls(Result(<<>>, calls)), c)
    BY <2>1 DEF Telling, Known
  <2>3. <<Reason(c)>> = <<Reason(c)>> \o <<>>
    OBVIOUS
  <2>4. c \in BOOLEAN
    OBVIOUS
  <2>. QED  BY <2>2, <2>3, <2>4, NonePlain, ReasonTold
<1>6. CASE out' = Completion(calls)
  <2>. DEFINE e == Unless(Thought[1] \notin ToSet(body), ThoughtShown)
                      \o OpenAIContent(Result(VisibleContent, calls))
  <2>1. Plain(e)
    <3>1. Plain(<<Event("reasoning", None, Thought)>>)
      BY OnePlain, KindType, WordType
    <3>2. Plain(ThoughtShown)
      BY <3>1, UnlessPlain DEF ThoughtShown
    <3>3. Plain(OpenAIContent(Result(VisibleContent, calls)))
      BY <1>3, OpenAIPlain
    <3>. QED  BY <3>2, <3>3, UnlessPlain, ConcatPlain
  <2>. QED  BY <1>5, <1>6, <2>1 DEF Completion
<1>7. CASE out' = Message(calls)
  <2>. DEFINE e == Unless(VisibleContent = <<>> /\ calls # <<>>, <<Event("content", 0, VisibleContent)>>)
  <2>1. Plain(e)
    BY <1>3, OnePlain, KindType, UnlessPlain
  <2>. QED  BY <1>5, <1>7, <2>1 DEF Message
<1>. QED  BY <1>1, <1>2, <1>6, <1>7

\* No event comes to a handler after the reason, and the reason says what came before it.
LEMMA ReasonStep ==
    ASSUME StreamType, ReasonInv, [Next]_vars
    PROVE  ReasonInv'
<1>1. HandlerType /\ buffered \in Seq(Text) /\ answer \in Text /\ Len(answer) \in Nat
      /\ out \in Seq(Events) /\ callsSent \in BOOLEAN
  BY AnswerType DEF StreamType, HandlerType
<1>2. ReasonTellsCalls <=> Told(out)
  BY DEF ReasonTellsCalls, Told
<1>3. ReasonTellsCalls' <=> Told(out')
  BY DEF ReasonTellsCalls, Told
<1>4. (api \in Streamed /\ state \in {"inspect", "serve"}) => Known(out, callsSent)
  BY <1>1 DEF ReasonInv, Known
<1>5. ASSUME NEW event \in Text, Handle(event), state = "serve", state' = state, api' = api
      PROVE  ReasonInv'
  <2>1. CASE api \in Streamed
    <3>1. Known(out', callsSent')
      BY <1>1, <1>4, <1>5, <2>1, HandleKnown
    <3>2. Told(out')
      BY <3>1, NoReasonTold DEF Known
    <3>3. api \notin Whole
      BY <2>1 DEF Streamed, Whole
    <3>. QED  BY <1>3, <1>5, <3>1, <3>2, <3>3 DEF ReasonInv, Known
  <2>2. CASE api \notin Streamed
    <3>1. out' = out /\ api \in Whole
      BY <1>5, <2>2 DEF Handle, HandleWhole, HandleOpenAI, HandleAnthropic, Streamed, Whole
    <3>. QED  BY <1>2, <1>3, <1>5, <2>2, <3>1 DEF ReasonInv
  <2>. QED  BY <2>1, <2>2
<1>6. ASSUME UNCHANGED handler, api' = api, state' \in {"inspect", "serve"} => state \in {"inspect", "serve"}
      PROVE  ReasonInv'
  BY <1>2, <1>3, <1>6 DEF handler, ReasonInv
<1>7. ASSUME NEW event \in Text, Comes(event) PROVE ReasonInv'
  <2>1. api' = api
    BY <1>7 DEF Comes, request
  <2>. QED  BY <1>5, <1>6, <1>7, <2>1 DEF Comes, Inspect
<1>8. ASSUME NEW n \in 1 .. Len(answer), Chunk(n) PROVE ReasonInv'
  <2>1. SubSeq(answer, sent + 1, n) \in Text
    <3>1. sent + 1 \in Nat \ {0} /\ n \in Nat /\ n <= Len(answer)
      BY <1>1 DEF StreamType
    <3>. QED  BY SubSeqType, <1>1, <3>1 DEF Text
  <2>. QED  BY <1>7, <1>8, <2>1 DEF Chunk
<1>9. CASE Think \/ Heartbeat \/ Hollow \/ Fails
  BY <1>7, <1>9, WordType DEF Think, Heartbeat, Hollow, Fails
<1>10. CASE InspectEnds \/ InspectBreaks
  BY <1>6, <1>10 DEF InspectEnds, InspectBreaks, request
<1>11. CASE Replay
  <2>1. buffered # <<>> /\ Handle(buffered[1]) /\ state = "serve" /\ state' = state /\ api' = api
    BY <1>11 DEF Replay, request
  <2>2. buffered[1] \in Text
    <3>1. 1 \in 1 .. Len(buffered)
      BY <1>1, <2>1, EmptySeq
    <3>. QED  BY <1>1, <2>1, <3>1, ElementOfSeq
  <2>. QED  BY <1>5, <2>1, <2>2
<1>12. CASE FinishStream
  <2>1. PICK r \in Results : TellsLast(r, AnyCalls(r))
    BY <1>1, <1>12, StreamLast
  <2>2. Known(out, callsSent)
    BY <1>4, <1>12 DEF FinishStream, Done
  <2>3. Told(out') /\ state' = "done"
    BY <1>1, <1>12, <2>1, <2>2, TellsLastTold DEF FinishStream, Done
  <2>. QED  BY <1>3, <2>3 DEF ReasonInv
<1>13. CASE FinishWhole
  <2>1. Told(out') /\ state' = "done"
    BY <1>1, <1>13, WholeTold DEF FinishWhole, Done
  <2>. QED  BY <1>3, <2>1 DEF ReasonInv
<1>14. CASE UNCHANGED vars
  BY <1>6, <1>14 DEF vars, request
<1>. QED  BY <1>8, <1>9, <1>10, <1>11, <1>12, <1>13, <1>14 DEF Next

\* Types.
THEOREM StreamTypes == Spec => []StreamType
BY InitType, StreamTypeStep, PTL DEF Spec

\* The client is told to run tools exactly when it was sent calls.
THEOREM ReasonAlwaysTellsCalls == Spec => []ReasonTellsCalls
<1>1. Init => ReasonInv
  BY SomeOfNone DEF Init, ReasonInv, ReasonTellsCalls
<1>2. StreamType /\ ReasonInv /\ [Next]_vars => ReasonInv'
  BY ReasonStep
<1>3. ReasonInv => ReasonTellsCalls
  BY DEF ReasonInv
<1>. QED  BY <1>1, <1>2, <1>3, StreamTypes, PTL DEF Spec

-----------------------------------------------------------------------------
\* EventsInOrder.
LEMMA CountNone == \A events, kind : Count(events, kind, 0) = 0
<1>. SUFFICES ASSUME NEW events, NEW kind PROVE Count(events, kind, 0) = 0
  OBVIOUS
<1>1. {j \in 1 .. 0 : events[j].kind = kind} = {}
  OBVIOUS
<1>. QED  BY <1>1, FS_EmptySet DEF Count

LEMMA CountStep ==
    ASSUME NEW events, NEW kind, NEW n \in Nat
    PROVE  /\ Count(events, kind, n) \in Nat
           /\ Count(events, kind, n + 1) =
                 IF events[n + 1].kind = kind THEN Count(events, kind, n) + 1 ELSE Count(events, kind, n)
<1>. DEFINE T == {j \in 1 .. n : events[j].kind = kind}
            U == {j \in 1 .. n + 1 : events[j].kind = kind}
<1>1. IsFiniteSet(T)
  <2>1. IsFiniteSet(1 .. n) /\ T \in SUBSET (1 .. n)
    BY FS_Interval
  <2>. QED  BY <2>1, FS_Subset
<1>2. n + 1 \notin T
  OBVIOUS
<1>3. U = IF events[n + 1].kind = kind THEN T \cup {n + 1} ELSE T
  <2>1. \A j : j \in 1 .. n + 1 <=> j \in 1 .. n \/ j = n + 1
    OBVIOUS
  <2>. QED  BY <2>1
<1>4. Cardinality(T) \in Nat /\ Cardinality(T \cup {n + 1}) = Cardinality(T) + 1
  <2>. HIDE DEF T
  <2>. QED  BY <1>1, <1>2, FS_CardinalityType, FS_AddElement
<1>5. Count(events, kind, n) = Cardinality(T) /\ Count(events, kind, n + 1) = Cardinality(U)
  BY DEF Count
<1>. HIDE DEF T, U
<1>. QED  BY <1>3, <1>4, <1>5

LEMMA CountSame ==
    ASSUME NEW d, NEW e, NEW kind, NEW n, \A j \in 1 .. n : d[j] = e[j]
    PROVE  Count(d, kind, n) = Count(e, kind, n)
<1>1. {j \in 1 .. n : d[j].kind = kind} = {j \in 1 .. n : e[j].kind = kind}
  OBVIOUS
<1>. QED  BY <1>1 DEF Count

\* The events o are in order, with the content block b open, or none, and x the next index.
InOrder(o, b, x) ==
    /\ o \in Seq(Events) /\ Len(o) # 0 /\ x \in Nat
    /\ \A i \in 1 .. Len(o) : o[i].kind = "message_start" <=> i = 1
    /\ \A i \in 1 .. Len(o) : o[i].kind \in Blocked => Placed(o, i)
    /\ Count(o, "block_start", Len(o)) = x
    /\ b = None => Count(o, "block_stop", Len(o)) = x
    /\ b # None => b \in Nat /\ x = b + 1 /\ Count(o, "block_stop", Len(o)) = b
    /\ \A n \in 0 .. x - 1 : n # b =>
          \E i \in 1 .. Len(o) : o[i].kind = "block_stop" /\ o[i].index = n

LEMMA BeginsInOrder == InOrder(<<Event("message_start", None, <<>>)>>, None, 0)
<1>. DEFINE e == Event("message_start", None, <<>>)
<1>1. e \in Events /\ e.kind = "message_start"
  BY EventType, KindType, WordType DEF Event
<1>. HIDE DEF e
<1>2. PICK o \in Seq(Events) : o = <<e>>
  BY <1>1, OneType
<1>3. Len(o) = 1 /\ o[1] = e
  BY <1>2
<1>4. Count(o, "block_start", 1) = 0 /\ Count(o, "block_stop", 1) = 0
  <2>1. \A k : Count(o, k, 0 + 1) = IF o[0 + 1].kind = k THEN Count(o, k, 0) + 1 ELSE Count(o, k, 0)
    <3>. SUFFICES ASSUME NEW k
                  PROVE  Count(o, k, 0 + 1) = IF o[0 + 1].kind = k THEN Count(o, k, 0) + 1 ELSE Count(o, k, 0)
      OBVIOUS
    <3>. QED  BY CountStep
  <2>2. 0 + 1 = 1
    OBVIOUS
  <2>. QED  BY <1>1, <1>3, <2>1, <2>2, CountNone
<1>5. InOrder(o, None, 0)
  BY <1>1, <1>3, <1>4 DEF InOrder, Blocked
<1>. QED  BY <1>2, <1>5 DEF e

\* One event more.
LEMMA OneEvent ==
    ASSUME NEW o \in Seq(Events), NEW e \in Events
    PROVE  /\ o \o <<e>> \in Seq(Events) /\ Len(o \o <<e>>) = Len(o) + 1
           /\ \A i \in 1 .. Len(o) : (o \o <<e>>)[i] = o[i]
           /\ (o \o <<e>>)[Len(o) + 1] = e
BY AppendProperties, AppendIsConcat

LEMMA OneInOrder ==
    ASSUME NEW o, NEW b, NEW x, InOrder(o, b, x), NEW e \in Events, e.kind # "message_start",
           NEW c, NEW y \in Nat,
           \/ e.kind \notin Blocked /\ c = b /\ y = x
           \/ e.kind = "block_start" /\ b = None /\ e.index = x /\ c = x /\ y = x + 1
           \/ e.kind \in {"delta", "input"} /\ b # None /\ e.index = b /\ c = b /\ y = x
           \/ e.kind = "block_stop" /\ b # None /\ e.index = b /\ c = None /\ y = x
    PROVE  InOrder(o \o <<e>>, c, y)
<1>1. o \in Seq(Events) /\ x \in Nat
  BY DEF InOrder
<1>2. PICK w \in Seq(Events), l \in Nat :
        /\ w = o \o <<e>> /\ l = Len(o) /\ Len(w) = l + 1
        /\ (\A i \in 1 .. l : w[i] = o[i]) /\ w[l + 1] = e
  <2>1. PICK w \in Seq(Events) : w = o \o <<e>>
    BY <1>1, OneEvent
  <2>2. PICK l \in Nat : l = Len(o)
    BY <1>1, LenProperties
  <2>3. Len(w) = l + 1 /\ (\A i \in 1 .. l : w[i] = o[i]) /\ w[l + 1] = e
    BY <1>1, <2>1, <2>2, OneEvent
  <2>. QED  BY <2>1, <2>2, <2>3
<1>3. l # 0
  BY <1>2 DEF InOrder
<1>4. \A k : \A n \in 0 .. l : Count(w, k, n) = Count(o, k, n)
  <2>. SUFFICES ASSUME NEW k, NEW n \in 0 .. l PROVE Count(w, k, n) = Count(o, k, n)
    OBVIOUS
  <2>1. \A j \in 1 .. n : w[j] = o[j]
    BY <1>2
  <2>. QED  BY <2>1, CountSame
<1>5. \A k : Count(w, k, l) \in Nat /\ Count(w, k, l + 1) = IF e.kind = k THEN Count(w, k, l) + 1 ELSE Count(w, k, l)
  <2>. SUFFICES ASSUME NEW k
                PROVE  /\ Count(w, k, l) \in Nat
                       /\ Count(w, k, l + 1) = IF w[l + 1].kind = k THEN Count(w, k, l) + 1 ELSE Count(w, k, l)
    BY <1>2
  <2>. QED  BY CountStep, SMTT(30)
<1>6. Count(w, "block_start", l) = x /\ (b = None => Count(w, "block_stop", l) = x)
      /\ (b # None => b \in Nat /\ x = b + 1 /\ Count(w, "block_stop", l) = b)
  <2>1. l \in 0 .. l
    OBVIOUS
  <2>. QED  BY <1>2, <1>4, <2>1 DEF InOrder
<1>7. \A i \in 1 .. l + 1 : i \in 1 .. l \/ i = l + 1
  OBVIOUS
<1>8. \A i \in 1 .. l + 1 : w[i].kind = "message_start" <=> i = 1
  <2>1. \A i \in 1 .. l : w[i].kind = "message_start" <=> i = 1
    BY <1>2 DEF InOrder
  <2>2. l + 1 # 1
    BY <1>3
  <2>. QED  BY <1>2, <1>7, <2>1, <2>2
<1>9. \A i \in 1 .. l + 1 : w[i].kind \in Blocked => Placed(w, i)
  <2>1. ASSUME NEW i \in 1 .. l, w[i].kind \in Blocked PROVE Placed(w, i)
    <3>1. i - 1 \in 0 .. l
      OBVIOUS
    <3>2. w[i] = o[i] /\ \A k : Count(w, k, i - 1) = Count(o, k, i - 1)
      BY <1>2, <1>4, <3>1
    <3>3. Placed(o, i)
      BY <1>2, <2>1, <3>2 DEF InOrder
    <3>. QED  BY <3>2, <3>3 DEF Placed
  <2>2. e.kind \in Blocked => Placed(w, l + 1)
    <3>1. (l + 1) - 1 = l
      OBVIOUS
    <3>2. e.kind = "block_start" => e.index = Count(w, "block_start", l)
             /\ Count(w, "block_start", l) = Count(w, "block_stop", l)
      BY <1>6 DEF Blocked
    <3>3. e.kind \in {"delta", "input", "block_stop"} => e.index = Count(w, "block_start", l) - 1
             /\ Count(w, "block_start", l) = Count(w, "block_stop", l) + 1
      BY <1>6 DEF Blocked
    <3>. QED  BY <1>2, <3>1, <3>2, <3>3 DEF Placed, Blocked
  <2>. QED  BY <1>2, <1>7, <2>1, <2>2
<1>10. Count(w, "block_start", l + 1) = y
  BY <1>1, <1>5, <1>6 DEF Blocked
<1>11. (c = None => Count(w, "block_stop", l + 1) = y)
       /\ (c # None => c \in Nat /\ y = c + 1 /\ Count(w, "block_stop", l + 1) = c)
  <2>1. x # None
    BY <1>1, StreamAssumption
  <2>2. e.kind # "block_stop" => Count(w, "block_stop", l + 1) = Count(w, "block_stop", l)
    BY <1>5
  <2>3. e.kind = "block_stop" => Count(w, "block_stop", l + 1) = Count(w, "block_stop", l) + 1
    BY <1>5
  <2>. QED  BY <1>1, <1>6, <2>1, <2>2, <2>3 DEF Blocked
<1>12. \A n \in 0 .. y - 1 : n # c =>
          \E i \in 1 .. l + 1 : w[i].kind = "block_stop" /\ w[i].index = n
  <2>. SUFFICES ASSUME NEW n \in 0 .. y - 1, n # c
                PROVE  \E i \in 1 .. l + 1 : w[i].kind = "block_stop" /\ w[i].index = n
    OBVIOUS
  <2>1. CASE n \in 0 .. x - 1 /\ n # b
    <3>1. PICK i \in 1 .. l : o[i].kind = "block_stop" /\ o[i].index = n
      BY <1>2, <2>1 DEF InOrder
    <3>2. i \in 1 .. l + 1 /\ w[i] = o[i]
      BY <1>2
    <3>. QED  BY <3>1, <3>2
  <2>2. CASE n = b
    <3>1. n \in Nat /\ n # None
      BY StreamAssumption
    <3>2. e.kind = "block_stop" /\ e.index = n
      BY <1>1, <2>2, <3>1
    <3>3. l + 1 \in 1 .. l + 1
      OBVIOUS
    <3>. QED  BY <1>2, <3>2, <3>3
  <2>3. n \in 0 .. x - 1
    BY <1>1
  <2>. QED  BY <2>1, <2>2, <2>3
<1>13. InOrder(w, c, y)
  <2>1. Len(w) = l + 1 /\ l + 1 # 0 /\ y \in Nat /\ w \in Seq(Events)
    BY <1>2
  <2>. QED  BY <1>8, <1>9, <1>10, <1>11, <1>12, <2>1 DEF InOrder
<1>. QED  BY <1>2, <1>13

LEMMA EventFields ==
    ASSUME NEW kind, NEW index, NEW item
    PROVE  Event(kind, index, item).kind = kind /\ Event(kind, index, item).index = index
BY DEF Event

\* Concatenation as an operator that the provers do not look into.
Cat(s, t) == s \o t

LEMMA CatAssociative ==
    ASSUME NEW S, NEW s \in Seq(S), NEW t \in Seq(S), NEW u \in Seq(S)
    PROVE  Cat(Cat(s, t), u) = Cat(s, Cat(t, u)) /\ Cat(s, t) \in Seq(S)
BY ConcatAssociative, ConcatProperties DEF Cat

LEMMA Pair ==
    ASSUME NEW S, NEW e \in S, NEW f \in S
    PROVE  <<e>> \o <<f>> = <<e, f>>
<1>1. <<e>> \in Seq(S) /\ <<f>> \in Seq(S) /\ <<e, f>> \in Seq(S)
  OBVIOUS
<1>2. PICK x \in Seq(S) : x = <<e>>
  BY <1>1
<1>3. PICK y \in Seq(S) : y = <<f>>
  BY <1>1
<1>4. PICK z \in Seq(S) : z = <<e, f>>
  BY <1>1
<1>5. Len(x) = 1 /\ x[1] = e
  BY <1>2
<1>6. Len(y) = 1 /\ y[1] = f
  BY <1>3
<1>7. Len(z) = 2 /\ z[1] = e /\ z[2] = f
  BY <1>4
<1>8. /\ x \o y \in Seq(S) /\ Len(x \o y) = Len(x) + Len(y)
      /\ \A i \in 1 .. Len(x) + Len(y) : (x \o y)[i] = IF i <= Len(x) THEN x[i] ELSE y[i - Len(x)]
  BY ConcatProperties
<1>9. PICK w \in Seq(S) : w = x \o y
  BY <1>8
<1>10. Len(w) = 2 /\ w[1] = e /\ w[2] = f
  BY <1>5, <1>6, <1>8, <1>9
<1>11. \A i \in 1 .. 2 : i = 1 \/ i = 2
  OBVIOUS
<1>12. w = z
  BY <1>7, <1>10, <1>11, SeqEqual
<1>. QED  BY <1>2, <1>3, <1>4, <1>9, <1>12

LEMMA Triple ==
    ASSUME NEW S, NEW e \in S, NEW f \in S, NEW g \in S
    PROVE  <<e>> \o <<f, g>> = <<e, f, g>>
<1>1. <<e>> \in Seq(S) /\ <<f, g>> \in Seq(S) /\ <<e, f, g>> \in Seq(S)
  OBVIOUS
<1>2. PICK x \in Seq(S) : x = <<e>>
  BY <1>1
<1>3. PICK y \in Seq(S) : y = <<f, g>>
  BY <1>1
<1>4. PICK z \in Seq(S) : z = <<e, f, g>>
  BY <1>1
<1>5. Len(x) = 1 /\ x[1] = e
  BY <1>2
<1>6. Len(y) = 2 /\ y[1] = f /\ y[2] = g
  BY <1>3
<1>7. Len(z) = 3 /\ z[1] = e /\ z[2] = f /\ z[3] = g
  BY <1>4
<1>8. /\ x \o y \in Seq(S) /\ Len(x \o y) = Len(x) + Len(y)
      /\ \A i \in 1 .. Len(x) + Len(y) : (x \o y)[i] = IF i <= Len(x) THEN x[i] ELSE y[i - Len(x)]
  BY ConcatProperties
<1>9. PICK w \in Seq(S) : w = x \o y
  BY <1>8
<1>10. Len(w) = 3 /\ w[1] = e /\ w[2] = f /\ w[3] = g
  BY <1>5, <1>6, <1>8, <1>9
<1>11. \A i \in 1 .. 3 : i = 1 \/ i = 2 \/ i = 3
  OBVIOUS
<1>12. w = z
  BY <1>7, <1>10, <1>11, SeqEqual
<1>. QED  BY <1>2, <1>3, <1>4, <1>9, <1>12

LEMMA NatNotNone == \A n \in Nat : n # None
BY StreamAssumption

\* The tool_use block of a call, from one index to the next.
LEMMA UseInOrder ==
    ASSUME NEW o, NEW x \in Nat, InOrder(o, None, x), NEW call \in Calls
    PROVE  InOrder(o \o ToolUse(x, call), None, x + 1)
<1>. DEFINE e1 == Event("block_start", x, <<"tool_use">>)
            e2 == Event("input", x, <<call>>)
            e3 == Event("block_stop", x, <<>>)
<1>1. e1 \in Events /\ e2 \in Events /\ e3 \in Events
  <2>1. call \in Symbols
    BY StreamAssumption DEF Symbols
  <2>2. <<call>> \in Text
    BY <2>1, OneType DEF Text
  <2>. QED  BY <2>2, EventType, KindType, WordType
<1>2. e1.kind = "block_start" /\ e1.index = x /\ e2.kind = "input" /\ e2.index = x
      /\ e3.kind = "block_stop" /\ e3.index = x
  BY EventFields
<1>3. ToolUse(x, call) = <<e1, e2, e3>>
  BY DEF ToolUse
<1>4. x # None /\ x + 1 \in Nat
  BY NatNotNone
<1>5. o \in Seq(Events)
  BY DEF InOrder
<1>. HIDE DEF e1, e2, e3
<1>6. InOrder(o \o <<e1>>, x, x + 1)
  BY <1>1, <1>2, <1>4, OneInOrder
<1>7. InOrder(o \o <<e1>> \o <<e2>>, x, x + 1)
  BY <1>1, <1>2, <1>4, <1>6, OneInOrder
<1>8. InOrder(o \o <<e1>> \o <<e2>> \o <<e3>>, None, x + 1)
  BY <1>1, <1>2, <1>4, <1>7, OneInOrder
<1>9. o \o <<e1>> \o <<e2>> \o <<e3>> = o \o <<e1, e2, e3>>
  <2>1. PICK a \in Seq(Events), b \in Seq(Events), c \in Seq(Events) : a = <<e1>> /\ b = <<e2>> /\ c = <<e3>>
    BY <1>1, OneType
  <2>2. <<e1>> \o <<e2, e3>> = <<e1, e2, e3>> /\ <<e2>> \o <<e3>> = <<e2, e3>>
    BY <1>1, Pair, Triple
  <2>3. Cat(Cat(Cat(o, a), b), c) = Cat(o, Cat(a, Cat(b, c)))
    BY <1>5, CatAssociative
  <2>4. ((o \o a) \o b) \o c = o \o (a \o (b \o c))
    BY <2>3 DEF Cat
  <2>. QED  BY <2>1, <2>2, <2>4
<1>. QED  BY <1>3, <1>8, <1>9

LEMMA UsesInOrder ==
    ASSUME NEW o, NEW first \in Nat, InOrder(o, None, first), NEW calls \in Seq(Calls)
    PROVE  InOrder(o \o FlattenSeq(Uses(calls, first)), None, first + Len(calls))
<1>. DEFINE u == Uses(calls, first)
            T == {k \in Nat : k <= Len(calls) =>
                    InOrder(o \o FlattenSeq(SubSeq(u, 1, k)), None, first + k)}
<1>1. /\ u \in Seq(Seq(Events)) /\ Len(u) = Len(calls) /\ Len(calls) \in Nat
      /\ \A n \in 1 .. Len(calls) : u[n] = ToolUse(first + n - 1, calls[n]) /\ calls[n] \in Calls
  BY UsesType, LenProperties, ElementOfSeq
<1>2. o \in Seq(Events)
  BY DEF InOrder
<1>. HIDE DEF u
<1>3. 0 \in T
  <2>1. SubSeq(u, 1, 0) = <<>>
    BY SubSeqEmpty
  <2>2. o \o FlattenSeq(SubSeq(u, 1, 0)) = o
    BY <1>2, <2>1, FlattenEmpty, ConcatEmptySeq
  <2>3. first + 0 = first
    OBVIOUS
  <2>4. InOrder(o \o FlattenSeq(SubSeq(u, 1, 0)), None, first + 0)
    BY <2>2, <2>3
  <2>. QED  BY <2>4
<1>4. ASSUME NEW k \in Nat, k \in T PROVE k + 1 \in T
  <2>. SUFFICES ASSUME k + 1 <= Len(calls)
                PROVE  InOrder(o \o FlattenSeq(SubSeq(u, 1, k + 1)), None, first + (k + 1))
    OBVIOUS
  <2>1. k \in 0 .. Len(u) - 1 /\ k \in 0 .. Len(u) /\ k + 1 \in 1 .. Len(calls) /\ k <= Len(calls)
    BY <1>1
  <2>2. PICK x \in Nat : x = first + k /\ x + 1 = first + (k + 1) /\ first + (k + 1) - 1 = x
    OBVIOUS
  <2>3. FlattenSeq(SubSeq(u, 1, k)) \in Seq(Events) /\ u[k + 1] \in Seq(Events)
    BY <1>1, <2>1, FlattenPrefix, ElementOfSeq
  <2>4. FlattenSeq(SubSeq(u, 1, k + 1)) = FlattenSeq(SubSeq(u, 1, k)) \o u[k + 1]
    BY <1>1, <2>1, FlattenNext
  <2>5. u[k + 1] = ToolUse(x, calls[k + 1]) /\ calls[k + 1] \in Calls
    BY <1>1, <2>1, <2>2
  <2>6. PICK p \in Seq(Events), q \in Seq(Events) : p = FlattenSeq(SubSeq(u, 1, k)) /\ q = u[k + 1]
    BY <2>3
  <2>7. InOrder(o \o p, None, x)
    BY <1>4, <2>1, <2>2, <2>6
  <2>8. InOrder((o \o p) \o q, None, x + 1)
    BY <2>5, <2>6, <2>7, UseInOrder
  <2>9. (o \o p) \o q = o \o (p \o q)
    BY <1>2, ConcatAssociative, SMTT(30)
  <2>. HIDE DEF T
  <2>. QED  BY <2>2, <2>4, <2>6, <2>8, <2>9
<1>5. Len(calls) \in T
  <2>. HIDE DEF T
  <2>. QED  BY <1>1, <1>3, <1>4, SetInduction
<1>6. SubSeq(u, 1, Len(calls)) = u
  BY <1>1, SubSeqFull
<1>7. InOrder(o \o FlattenSeq(SubSeq(u, 1, Len(calls))), None, first + Len(calls))
  BY <1>1, <1>5
<1>. QED  BY <1>6, <1>7 DEF u

LEMMA ToolUsesInOrder ==
    ASSUME NEW o, NEW open \in Nat \cup {None}, NEW first \in Nat, InOrder(o, open, first), NEW r \in Results
    PROVE  InOrder(o \o ToolUses(r, open, first), IF r.calls # <<>> THEN None ELSE open, first + Len(r.calls))
<1>1. r.calls \in Seq(Calls) /\ Len(r.calls) \in Nat /\ o \in Seq(Events)
  BY LenProperties DEF Results, InOrder
<1>. DEFINE stop == Unless(r.calls = <<>> \/ open = None, <<Event("block_stop", open, <<>>)>>)
            u == FlattenSeq(Uses(r.calls, first))
<1>2. ToolUses(r, open, first) = stop \o u
  BY DEF ToolUses, Uses
<1>3. Event("block_stop", open, <<>>) \in Events
  BY EventType, KindType, WordType
<1>4. stop \in Seq(Events) /\ u \in Seq(Events)
  <2>1. <<Event("block_stop", open, <<>>)>> \in Seq(Events)
    BY <1>3, OneType
  <2>2. stop \in Seq(Events)
    BY <2>1, UnlessType
  <2>3. Uses(r.calls, first) \in Seq(Seq(Events))
    BY <1>1, UsesType
  <2>. QED  BY <2>2, <2>3, FlattenType
<1>5. CASE r.calls = <<>>
  <2>1. stop = <<>>
    BY <1>5 DEF Unless
  <2>2. u = <<>>
    <3>1. Uses(r.calls, first) = <<>>
      BY <1>5 DEF Uses
    <3>. QED  BY <3>1, FlattenEmpty
  <2>3. o \o (stop \o u) = o /\ first + Len(r.calls) = first
    BY <1>1, <1>5, <2>1, <2>2, ConcatEmptySeq
  <2>. HIDE DEF stop, u
  <2>. QED  BY <1>2, <1>5, <2>3
<1>6. CASE r.calls # <<>>
  <2>1. InOrder(o \o stop, None, first)
    <3>1. CASE open = None
      <4>1. stop = <<>>
        BY <3>1 DEF Unless
      <4>2. o \o stop = o
        BY <1>1, <4>1, ConcatEmptySeq
      <4>. QED  BY <3>1, <4>2
    <3>2. CASE open # None
      <4>1. stop = <<Event("block_stop", open, <<>>)>>
        BY <1>6, <3>2 DEF Unless
      <4>2. InOrder(o \o <<Event("block_stop", open, <<>>)>>, None, first)
        BY <1>3, <3>2, EventFields, OneInOrder
      <4>. QED  BY <4>1, <4>2
    <3>. QED  BY <3>1, <3>2
  <2>2. InOrder((o \o stop) \o u, None, first + Len(r.calls))
    BY <1>1, <2>1, UsesInOrder
  <2>3. (o \o stop) \o u = o \o (stop \o u)
    <3>. HIDE DEF stop, u
    <3>1. PICK x \in Seq(Events), y \in Seq(Events) : x = stop /\ y = u
      BY <1>4
    <3>2. (o \o x) \o y = o \o (x \o y)
      BY <1>1, ConcatAssociative, SMTT(30)
    <3>. QED  BY <3>1, <3>2
  <2>. QED  BY <1>2, <1>6, <2>2, <2>3
<1>. QED  BY <1>5, <1>6

LEMMA TextInOrder ==
    ASSUME NEW o, block \in Nat \cup {None}, next \in Nat, InOrder(o, block, next), NEW r \in Results
    PROVE  InOrder(o \o TextDelta(r), IF r.content # <<>> THEN TextBlock ELSE block, NextText(r))
<1>1. o \in Seq(Events) /\ TextBlock \in Nat /\ TextBlock # None /\ <<"text">> \in Text /\ r.content \in Text
  BY TextDeltaType, NatNotNone, WordType DEF InOrder, Results
<1>. DEFINE e1 == Event("block_start", TextBlock, <<"text">>)
            e2 == Event("delta", TextBlock, r.content)
<1>2. e1 \in Events /\ e2 \in Events
  BY <1>1, EventType, KindType
<1>3. e1.kind = "block_start" /\ e1.index = TextBlock /\ e2.kind = "delta" /\ e2.index = TextBlock
  BY EventFields
<1>4. TextDelta(r) = Unless(r.content = <<>>, Unless(block # None, <<e1>>) \o <<e2>>)
  BY DEF TextDelta
<1>. HIDE DEF e1, e2
<1>5. CASE r.content = <<>>
  <2>1. TextDelta(r) = <<>>
    BY <1>4, <1>5 DEF Unless
  <2>. QED  BY <1>1, <1>5, <2>1, ConcatEmptySeq DEF NextText
<1>6. CASE r.content # <<>> /\ block # None
  <2>1. TextDelta(r) = <<>> \o <<e2>> /\ TextBlock = block /\ NextText(r) = next
    BY <1>4, <1>6 DEF Unless, TextBlock, NextText
  <2>2. InOrder(o \o <<e2>>, block, next)
    BY <1>2, <1>3, <1>6, <2>1, OneInOrder
  <2>3. <<>> \o <<e2>> = <<e2>>
    OBVIOUS
  <2>. QED  BY <1>6, <2>1, <2>2, <2>3
<1>7. CASE r.content # <<>> /\ block = None
  <2>1. TextDelta(r) = <<e1>> \o <<e2>> /\ TextBlock = next /\ NextText(r) = next + 1 /\ next + 1 \in Nat
    BY <1>4, <1>7 DEF Unless, TextBlock, NextText
  <2>2. InOrder(o \o <<e1>>, next, next + 1)
    BY <1>2, <1>3, <1>7, <2>1, OneInOrder
  <2>3. InOrder((o \o <<e1>>) \o <<e2>>, next, next + 1)
    BY <1>1, <1>2, <1>3, <2>1, <2>2, OneInOrder
  <2>4. PICK a \in Seq(Events), b \in Seq(Events) : a = <<e1>> /\ b = <<e2>>
    BY <1>2, OneType
  <2>5. (o \o a) \o b = o \o (a \o b)
    BY <1>1, ConcatAssociative, SMTT(30)
  <2>. QED  BY <1>7, <2>1, <2>3, <2>4, <2>5
<1>. QED  BY <1>5, <1>6, <1>7

\* The events a client of Anthropic's has been sent: none, or they are in order.
OrderInv ==
    api = "anthropic" =>
        /\ \/ out = <<>> /\ block = None /\ next = 0
           \/ InOrder(out, block, next)
        /\ state = "done" => block = None

LEMMA StartedInOrder ==
    ASSUME out \in Seq(Events), (out = <<>> /\ block = None /\ next = 0) \/ InOrder(out, block, next)
    PROVE  InOrder(out \o Started, block, next)
<1>1. CASE out = <<>>
  <2>1. ~ InOrder(out, block, next)
    BY <1>1, EmptySeq DEF InOrder
  <2>2. out \o Started = <<Event("message_start", None, <<>>)>>
    BY <1>1 DEF Started, Unless
  <2>. QED  BY <2>1, <2>2, BeginsInOrder
<1>2. CASE out # <<>>
  BY <1>2, ConcatEmptySeq DEF Started, Unless
<1>. QED  BY <1>1, <1>2

LEMMA AnthropicInOrder ==
    ASSUME HandlerType, (out = <<>> /\ block = None /\ next = 0) \/ InOrder(out, block, next),
           NEW r \in Results
    PROVE  InOrder(out \o AnthropicEvents(r), OpenAfter(r), NextAfter(r))
<1>1. block \in Nat \cup {None} /\ next \in Nat /\ out \in Seq(Events)
  BY DEF HandlerType
<1>. DEFINE open == IF r.content # <<>> THEN TextBlock ELSE block
<1>2. NextText(r) \in Nat /\ open \in Nat \cup {None}
  BY <1>1, AfterType, TextDeltaType
<1>3. PICK a \in Seq(Events), b \in Seq(Events), c \in Seq(Events) :
        a = Started /\ b = TextDelta(r) /\ c = ToolUses(r, open, NextText(r))
  BY <1>1, <1>2, StartedType, TextDeltaType, ToolUsesType
<1>4. InOrder(out \o a, block, next)
  BY <1>1, <1>3, StartedInOrder
<1>5. InOrder((out \o a) \o b, open, NextText(r))
  BY <1>1, <1>3, <1>4, TextInOrder
<1>6. InOrder(((out \o a) \o b) \o c, OpenAfter(r), NextAfter(r))
  <2>1. OpenAfter(r) = IF r.calls # <<>> THEN None ELSE open
    BY DEF OpenAfter
  <2>2. NextAfter(r) = NextText(r) + Len(r.calls)
    BY DEF NextAfter
  <2>. HIDE DEF open
  <2>. QED  BY <1>2, <1>3, <1>5, <2>1, <2>2, ToolUsesInOrder
<1>7. AnthropicEvents(r) = (a \o b) \o c
  BY <1>3 DEF AnthropicEvents
<1>8. ((out \o a) \o b) \o c = out \o ((a \o b) \o c)
  <2>1. Cat(Cat(Cat(out, a), b), c) = Cat(out, Cat(Cat(a, b), c))
    BY <1>1, CatAssociative
  <2>. QED  BY <2>1 DEF Cat
<1>. QED  BY <1>6, <1>7, <1>8

LEMMA HandleInOrder ==
    ASSUME HandlerType, NEW event \in Text, Handle(event), api = "anthropic",
           (out = <<>> /\ block = None /\ next = 0) \/ InOrder(out, block, next)
    PROVE  (out' = <<>> /\ block' = None /\ next' = 0) \/ InOrder(out', block', next')
<1>1. HandleAnthropic(event)
  BY DEF Handle, HandleWhole, HandleOpenAI, Whole
<1>2. CASE Shows(Started)
  <2>1. InOrder(out \o Started, block, next)
    BY StartedInOrder DEF HandlerType
  <2>. QED  BY <1>2, <2>1 DEF Shows
<1>3. CASE Sieved(event)
  <2>1. PICK step : step = ProcessStreamChunk(sieve, event) /\ Tells(Visible(step.out))
    BY <1>3 DEF Sieved
  <2>2. Visible(step.out) \in Results
    BY <2>1, ProcessType, VisibleType DEF HandlerType
  <2>. QED  BY <2>1, <2>2, AnthropicInOrder DEF Tells
<1>. QED  BY <1>1, <1>2, <1>3 DEF HandleAnthropic

LEMMA LastInOrder ==
    ASSUME HandlerType, NEW r \in Results, NEW calls \in BOOLEAN, TellsLast(r, calls), api = "anthropic",
           (out = <<>> /\ block = None /\ next = 0) \/ InOrder(out, block, next)
    PROVE  InOrder(out', block', next') /\ block' = None
<1>1. InOrder(out \o AnthropicEvents(r), OpenAfter(r), NextAfter(r))
  BY AnthropicInOrder
<1>2. OpenAfter(r) \in Nat \cup {None} /\ NextAfter(r) \in Nat
  BY AfterType DEF HandlerType
<1>. DEFINE o == out \o AnthropicEvents(r)
            stop == Event("block_stop", OpenAfter(r), <<>>)
            e == Reason(calls)
            f == Event("message_stop", None, <<>>)
            last == Unless(OpenAfter(r) = None, <<stop>>)
<1>3. stop \in Events /\ e \in Events /\ f \in Events
  BY <1>2, EventType, KindType, WordType, ReasonType
<1>4. stop.kind = "block_stop" /\ stop.index = OpenAfter(r) /\ e.kind = "finish" /\ f.kind = "message_stop"
  BY EventFields DEF Reason
<1>5. out' = o \o last \o <<e, f>> /\ block' = None /\ next' = NextAfter(r)
  BY DEF TellsLast
<1>6. o \in Seq(Events)
  BY <1>1 DEF InOrder
<1>. HIDE DEF o, stop, e, f
<1>7. InOrder(o \o last, None, NextAfter(r))
  <2>1. CASE OpenAfter(r) = None
    <3>1. o \o last = o
      BY <1>6, <2>1, ConcatEmptySeq DEF Unless
    <3>. QED  BY <1>1, <2>1, <3>1 DEF o
  <2>2. CASE OpenAfter(r) # None
    <3>1. last = <<stop>>
      BY <2>2 DEF Unless
    <3>2. InOrder(o \o <<stop>>, None, NextAfter(r))
      BY <1>1, <1>2, <1>3, <1>4, <2>2, OneInOrder DEF o
    <3>. QED  BY <3>1, <3>2
  <2>. QED  BY <2>1, <2>2
<1>8. o \o last \in Seq(Events)
  BY <1>7 DEF InOrder
<1>. HIDE DEF last
<1>9. InOrder((o \o last) \o <<e>>, None, NextAfter(r))
  BY <1>2, <1>3, <1>4, <1>7, OneInOrder DEF Blocked
<1>10. InOrder(((o \o last) \o <<e>>) \o <<f>>, None, NextAfter(r))
  BY <1>2, <1>3, <1>4, <1>9, OneInOrder DEF Blocked
<1>11. ((o \o last) \o <<e>>) \o <<f>> = (o \o last) \o <<e, f>>
  <2>1. PICK a \in Seq(Events), b \in Seq(Events), c \in Seq(Events) : a = o \o last /\ b = <<e>> /\ c = <<f>>
    BY <1>3, <1>8, OneType
  <2>2. (a \o b) \o c = a \o (b \o c)
    BY ConcatAssociative, SMTT(30)
  <2>3. <<e>> \o <<f>> = <<e, f>>
    BY <1>3, Pair
  <2>. QED  BY <2>1, <2>2, <2>3
<1>. QED  BY <1>5, <1>10, <1>11

LEMMA OrderStep ==
    ASSUME StreamType, OrderInv, [Next]_vars
    PROVE  OrderInv'
<1>1. HandlerType /\ buffered \in Seq(Text) /\ answer \in Text /\ Len(answer) \in Nat
  BY AnswerType DEF StreamType
<1>2. ASSUME NEW event \in Text, Handle(event), state' # "done", api' = api PROVE OrderInv'
  BY <1>1, <1>2, HandleInOrder DEF OrderInv
<1>3. ASSUME UNCHANGED handler, api' = api, state' = "done" => state = "done" PROVE OrderInv'
  BY <1>3 DEF handler, OrderInv
<1>4. ASSUME NEW event \in Text, Comes(event) PROVE OrderInv'
  <2>1. api' = api
    BY <1>4 DEF Comes, request
  <2>. QED  BY <1>2, <1>3, <1>4, <2>1 DEF Comes, Inspect
<1>5. ASSUME NEW n \in 1 .. Len(answer), Chunk(n) PROVE OrderInv'
  <2>1. SubSeq(answer, sent + 1, n) \in Text
    <3>1. sent + 1 \in Nat \ {0} /\ n \in Nat /\ n <= Len(answer)
      BY <1>1 DEF StreamType
    <3>. QED  BY SubSeqType, <1>1, <3>1 DEF Text
  <2>. QED  BY <1>4, <1>5, <2>1 DEF Chunk
<1>6. CASE Think \/ Heartbeat \/ Hollow \/ Fails
  BY <1>4, <1>6, WordType DEF Think, Heartbeat, Hollow, Fails
<1>7. CASE InspectEnds \/ InspectBreaks
  BY <1>3, <1>7 DEF InspectEnds, InspectBreaks, request
<1>8. CASE Replay
  <2>1. buffered # <<>> /\ Handle(buffered[1]) /\ state' # "done" /\ api' = api
    BY <1>8 DEF Replay, request
  <2>2. buffered[1] \in Text
    <3>1. 1 \in 1 .. Len(buffered)
      BY <1>1, <2>1, EmptySeq
    <3>. QED  BY <1>1, <2>1, <3>1, ElementOfSeq
  <2>. QED  BY <1>2, <2>1, <2>2
<1>9. CASE FinishStream
  <2>1. PICK r \in Results : TellsLast(r, AnyCalls(r))
    BY <1>1, <1>9, StreamLast
  <2>2. api' = api /\ AnyCalls(r) \in BOOLEAN
    BY <1>1, <1>9 DEF FinishStream, Done, request, AnyCalls, HandlerType
  <2>. QED  BY <1>1, <2>1, <2>2, LastInOrder DEF OrderInv
<1>10. CASE FinishWhole
  BY <1>10 DEF FinishWhole, Done, request, OrderInv, Whole
<1>11. CASE UNCHANGED vars
  BY <1>3, <1>11 DEF vars, request
<1>. QED  BY <1>5, <1>6, <1>7, <1>8, <1>9, <1>10, <1>11 DEF Next

LEMMA OrderIsEventsInOrder == OrderInv => EventsInOrder
<1>. SUFFICES ASSUME OrderInv, api = "anthropic" PROVE EventsInOrder
  BY DEF EventsInOrder
<1>1. CASE out = <<>> /\ next = 0
  BY <1>1 DEF EventsInOrder
<1>2. CASE InOrder(out, block, next)
  <2>1. \A n \in 0 .. next - 1 : n # None
    <3>1. \A n \in 0 .. next - 1 : n \in Nat
      BY <1>2 DEF InOrder
    <3>. QED  BY <3>1, NatNotNone
  <2>. QED  BY <1>2, <2>1 DEF EventsInOrder, InOrder, OrderInv
<1>. QED  BY <1>1, <1>2 DEF OrderInv

\* Anthropic's events come in the order of its protocol.
THEOREM EventsAlwaysInOrder == Spec => []EventsInOrder
<1>1. Init => OrderInv
  BY DEF Init, OrderInv
<1>2. StreamType /\ OrderInv /\ [Next]_vars => OrderInv'
  BY OrderStep
<1>. QED  BY <1>1, <1>2, OrderIsEventsInOrder, StreamTypes, PTL DEF Spec

-----------------------------------------------------------------------------
(* What the sieve makes of a text.                                           *)

LEMMA SplitAt ==
    ASSUME NEW S, NEW s \in Seq(S), NEW n \in 0 .. Len(s)
    PROVE  /\ SubSeq(s, 1, n) \in Seq(S) /\ SubSeq(s, n + 1, Len(s)) \in Seq(S)
           /\ Len(SubSeq(s, 1, n)) = n /\ Len(SubSeq(s, n + 1, Len(s))) = Len(s) - n
           /\ \A i \in 1 .. n : SubSeq(s, 1, n)[i] = s[i]
           /\ \A i \in 1 .. Len(s) - n : SubSeq(s, n + 1, Len(s))[i] = s[n + i]
           /\ s = SubSeq(s, 1, n) \o SubSeq(s, n + 1, Len(s))
<1>1. PICK l \in Nat : l = Len(s)
  BY LenProperties
<1>2. \A i \in 1 .. l : s[i] \in S
  BY <1>1, ElementOfSeq
<1>3. /\ SubSeq(s, 1, n) \in Seq(S) /\ Len(SubSeq(s, 1, n)) = n
      /\ \A i \in 1 .. n : SubSeq(s, 1, n)[i] = s[i]
  <2>1. \A i \in 1 .. n : s[i] \in S
    BY <1>1, <1>2
  <2>2. /\ SubSeq(s, 1, n) \in Seq(S) /\ Len(SubSeq(s, 1, n)) = IF 1 <= n THEN n - 1 + 1 ELSE 0
        /\ \A i \in 1 .. n - 1 + 1 : SubSeq(s, 1, n)[i] = s[1 + i - 1]
    BY <1>1, <2>1, SubSeqProperties
  <2>3. n - 1 + 1 = n /\ \A i \in 1 .. n : 1 + i - 1 = i
    BY <1>1
  <2>. QED  BY <1>1, <2>2, <2>3
<1>4. /\ SubSeq(s, n + 1, l) \in Seq(S) /\ Len(SubSeq(s, n + 1, l)) = l - n
      /\ \A i \in 1 .. l - n : SubSeq(s, n + 1, l)[i] = s[n + i]
  <2>1. \A i \in n + 1 .. l : s[i] \in S
    BY <1>1, <1>2
  <2>2. /\ SubSeq(s, n + 1, l) \in Seq(S)
        /\ Len(SubSeq(s, n + 1, l)) = IF n + 1 <= l THEN l - (n + 1) + 1 ELSE 0
        /\ \A i \in 1 .. l - (n + 1) + 1 : SubSeq(s, n + 1, l)[i] = s[(n + 1) + i - 1]
    BY <1>1, <2>1, SubSeqProperties
  <2>3. l - (n + 1) + 1 = l - n /\ \A i \in 1 .. l - n : (n + 1) + i - 1 = n + i
    BY <1>1
  <2>. QED  BY <1>1, <2>2, <2>3
<1>5. SubSeq(s, 1, n) \o SubSeq(s, n + 1, l) = s
  <2>1. 1 \in 1 .. Len(s) + 1 /\ n \in 1 - 1 .. Len(s) /\ l \in n .. Len(s)
    BY <1>1
  <2>2. SubSeq(s, 1, n) \o SubSeq(s, n + 1, l) = SubSeq(s, 1, l)
    BY <2>1, ConcatAdjacentSubSeq
  <2>3. SubSeq(s, 1, l) = s
    BY <1>1, SubSeqFull
  <2>. QED  BY <2>2, <2>3
<1>. QED  BY <1>1, <1>3, <1>4, <1>5

\* Of two ways to cut a sequence, the longer first part begins with the shorter.
LEMMA Levi ==
    ASSUME NEW S, NEW a \in Seq(S), NEW b \in Seq(S), NEW c \in Seq(S), NEW d \in Seq(S),
           Cat(a, b) = Cat(c, d), Len(a) <= Len(c)
    PROVE  \E e \in Seq(S) : c = Cat(a, e) /\ b = Cat(e, d)
<1>1. a \o b = c \o d
  BY DEF Cat
<1>2. PICK m \in Nat, n \in Nat : m = Len(a) /\ n = Len(c)
  BY LenProperties
<1>3. /\ a \o b \in Seq(S) /\ Len(a \o b) = Len(a) + Len(b)
      /\ \A i \in 1 .. Len(a) + Len(b) : (a \o b)[i] = IF i <= Len(a) THEN a[i] ELSE b[i - Len(a)]
  BY ConcatProperties
<1>4. /\ Len(c \o d) = Len(c) + Len(d)
      /\ \A i \in 1 .. Len(c) + Len(d) : (c \o d)[i] = IF i <= Len(c) THEN c[i] ELSE d[i - Len(c)]
  BY ConcatProperties
<1>5. Len(b) \in Nat /\ Len(d) \in Nat
  BY LenProperties
<1>6. PICK p \in Seq(S), e \in Seq(S) :
         /\ Len(p) = m /\ Len(e) = n - m /\ c = p \o e
         /\ \A i \in 1 .. m : p[i] = c[i]
  <2>1. m \in 0 .. Len(c)
    BY <1>2
  <2>2. /\ SubSeq(c, 1, m) \in Seq(S) /\ SubSeq(c, m + 1, Len(c)) \in Seq(S)
        /\ Len(SubSeq(c, 1, m)) = m /\ Len(SubSeq(c, m + 1, Len(c))) = Len(c) - m
        /\ \A i \in 1 .. m : SubSeq(c, 1, m)[i] = c[i]
        /\ c = SubSeq(c, 1, m) \o SubSeq(c, m + 1, Len(c))
    BY <2>1, SplitAt, ZenonT(30)
  <2>. QED  BY <1>2, <2>2
<1>7. p = a
  <2>1. \A i \in 1 .. Len(p) : p[i] = a[i]
    <3>. SUFFICES ASSUME NEW i \in 1 .. m PROVE c[i] = a[i]
      BY <1>6
    <3>. HIDE <1>6
    <3>1. i <= Len(a) /\ i <= Len(c) /\ i \in 1 .. Len(a) + Len(b) /\ i \in 1 .. Len(c) + Len(d)
      BY <1>2, <1>5
    <3>2. (a \o b)[i] = a[i] /\ (c \o d)[i] = c[i]
      BY <1>3, <1>4, <3>1
    <3>. QED  BY <1>1, <3>2
  <2>. QED  BY <1>2, <1>6, <2>1, SeqEqual
<1>8. a \o b = a \o (e \o d)
  <2>1. (a \o e) \o d = a \o (e \o d)
    BY ONLY a \in Seq(S), e \in Seq(S), d \in Seq(S), ConcatAssociative, SMTT(30)
  <2>. QED  BY <1>1, <1>6, <1>7, <2>1
<1>9. e \o d \in Seq(S)
  BY ConcatProperties
<1>10. b = e \o d
  <2>1. \A x, y, z \in Seq(S) : x \o y = x \o z => y = z
    BY ConcatSimplifications
  <2>. QED  BY <1>8, <1>9, <2>1
<1>11. c = a \o e
  BY <1>6, <1>7
<1>. QED  BY <1>10, <1>11 DEF Cat

LEMMA KeepNothing ==
    ASSUME NEW S, NEW s \in Seq(S), NEW P, \A i \in 1 .. Len(s) : i \notin P
    PROVE  Keep(s, P) = <<>>
<1>. DEFINE p == Pieces(s, P)
            T == {n \in Nat : n <= Len(s) => FlattenSeq(SubSeq(p, 1, n)) = <<>>}
<1>1. /\ p \in Seq(Seq(S)) /\ Len(p) = Len(s) /\ Len(s) \in Nat
      /\ \A i \in 1 .. Len(s) : p[i] = <<>>
  BY PiecesType, LenProperties
<1>. HIDE DEF p
<1>2. 0 \in T
  <2>1. SubSeq(p, 1, 0) = <<>>
    BY SubSeqEmpty
  <2>. QED  BY <2>1, FlattenEmpty
<1>3. ASSUME NEW n \in Nat, n \in T PROVE n + 1 \in T
  <2>. SUFFICES ASSUME n + 1 <= Len(s) PROVE FlattenSeq(SubSeq(p, 1, n + 1)) = <<>>
    OBVIOUS
  <2>1. n \in 0 .. Len(p) - 1 /\ n + 1 \in 1 .. Len(s) /\ n <= Len(s)
    BY <1>1
  <2>2. FlattenSeq(SubSeq(p, 1, n + 1)) = FlattenSeq(SubSeq(p, 1, n)) \o p[n + 1]
    BY <1>1, <2>1, FlattenNext
  <2>3. FlattenSeq(SubSeq(p, 1, n)) = <<>> /\ p[n + 1] = <<>>
    BY <1>1, <1>3, <2>1
  <2>4. <<>> \o <<>> = <<>>
    OBVIOUS
  <2>. QED  BY <2>2, <2>3, <2>4
<1>4. Len(s) \in T
  <2>. HIDE DEF T
  <2>. QED  BY <1>1, <1>2, <1>3, SetInduction
<1>5. SubSeq(p, 1, Len(s)) = p
  BY <1>1, SubSeqFull
<1>6. FlattenSeq(p) = <<>>
  <2>1. FlattenSeq(SubSeq(p, 1, Len(s))) = <<>>
    BY <1>1, <1>4
  <2>. QED  BY ONLY <1>5, <2>1
<1>. QED  BY <1>6 DEF Keep, Pieces, p

LEMMA WithoutType ==
    ASSUME NEW S, NEW s \in Seq(S), NEW X
    PROVE  Without(s, X) \in Seq(S)
BY KeepType DEF Without

LEMMA WithoutConcat ==
    ASSUME NEW S, NEW s \in Seq(S), NEW t \in Seq(S), NEW X
    PROVE  Without(s \o t, X) = Without(s, X) \o Without(t, X)
<1>. DEFINE P == {i \in 1 .. Len(s \o t) : (s \o t)[i] \notin X}
            L == {i \in 1 .. Len(s) : s[i] \notin X}
            Q == {i \in 1 .. Len(t) : t[i] \notin X}
<1>1. Len(s) \in Nat /\ Len(t) \in Nat /\ Len(s \o t) = Len(s) + Len(t)
  BY LenProperties, ConcatProperties
<1>2. \A i \in 1 .. Len(s) + Len(t) : (s \o t)[i] = IF i <= Len(s) THEN s[i] ELSE t[i - Len(s)]
  BY ConcatProperties
<1>3. ASSUME NEW i \in 1 .. Len(s) PROVE i \in P <=> i \in L
  <2>1. i \in 1 .. Len(s) + Len(t) /\ i <= Len(s)
    BY <1>1
  <2>2. (s \o t)[i] = s[i]
    BY <1>2, <2>1
  <2>. QED  BY <1>1, <2>1, <2>2
<1>4. ASSUME NEW i \in 1 .. Len(t) PROVE i \in Q <=> Len(s) + i \in P
  <2>1. Len(s) + i \in 1 .. Len(s) + Len(t) /\ ~ (Len(s) + i <= Len(s)) /\ (Len(s) + i) - Len(s) = i
    BY <1>1
  <2>2. (s \o t)[Len(s) + i] = t[i]
    BY <1>2, <2>1
  <2>. QED  BY <1>1, <2>1, <2>2
<1>5. Without(s \o t, X) = Keep(s \o t, P) /\ Without(s, X) = Keep(s, L) /\ Without(t, X) = Keep(t, Q)
  BY DEF Without
<1>. HIDE DEF P, L, Q
<1>6. Keep(s \o t, P) = Keep(s, P) \o Keep(t, Q)
  BY <1>4, KeepConcat
<1>7. Keep(s, P) = Keep(s, L)
  BY <1>3, KeepSame
<1>. QED  BY <1>5, <1>6, <1>7

LEMMA WithoutSame ==
    ASSUME NEW S, NEW s \in Seq(S), NEW X, \A i \in 1 .. Len(s) : s[i] \notin X
    PROVE  Without(s, X) = s
BY KeepAll DEF Without

LEMMA WithoutNothing ==
    ASSUME NEW S, NEW s \in Seq(S), NEW X, \A i \in 1 .. Len(s) : s[i] \in X
    PROVE  Without(s, X) = <<>>
BY KeepNothing DEF Without

\* Nothing but white space.
White(s) == \A i \in 1 .. Len(s) : s[i] = " "

LEMMA SolidType ==
    ASSUME NEW S, NEW s \in Seq(S)
    PROVE  Solid(s) \in Seq(S)
BY WithoutType DEF Solid

LEMMA SolidConcat ==
    ASSUME NEW S, NEW s \in Seq(S), NEW t \in Seq(S)
    PROVE  Solid(s \o t) = Solid(s) \o Solid(t)
<1>1. \A X : Without(s \o t, X) = Without(s, X) \o Without(t, X)
  BY WithoutConcat
<1>. QED  BY ONLY <1>1 DEF Solid

LEMMA SolidWhite ==
    ASSUME NEW S, NEW s \in Seq(S), White(s)
    PROVE  Solid(s) = <<>>
BY WithoutNothing DEF Solid, White

LEMMA BlankWhite ==
    ASSUME NEW S, NEW s \in Seq(S)
    PROVE  Blank(s) <=> White(s)
<1>1. DOMAIN s = 1 .. Len(s)
  BY LenProperties
<1>. QED  BY <1>1 DEF Blank, White, ToSet

\* What Trim takes away is white space, in front and behind.
LEMMA TrimParts ==
    ASSUME NEW S, NEW s \in Seq(S)
    PROVE  \E p, q \in Seq(S) :
              /\ White(p) /\ White(q) /\ Trim(s) \in Seq(S) /\ TrimLeft(s) \in Seq(S)
              /\ s = p \o TrimLeft(s) /\ TrimLeft(s) = Trim(s) \o q
<1>1. PICK l \in Nat : l = Len(s)
  BY LenProperties
<1>2. CASE Solids(s) = {}
  <2>1. White(s)
    BY <1>2 DEF Solids, White
  <2>2. Trim(s) = <<>> /\ TrimLeft(s) = <<>>
    BY <1>2 DEF Trim, TrimLeft
  <2>3. <<>> \in Seq(S) /\ White(<<>>) /\ s = s \o <<>> /\ <<>> = <<>> \o <<>>
    BY EmptySeq, ConcatEmptySeq DEF White
  <2>. QED  BY <2>1, <2>2, <2>3
<1>3. CASE Solids(s) # {}
  <2>1. PICK m \in 1 .. Len(s), n \in 1 .. Len(s) :
              /\ m <= n
              /\ \A i \in 1 .. Len(s) : s[i] # " " => m <= i /\ i <= n
              /\ Trim(s) = SubSeq(s, m, n) /\ TrimLeft(s) = SubSeq(s, m, Len(s))
    BY <1>3, Trimmed
  <2>2. m \in 1 .. l /\ n \in 1 .. l /\ m <= n
    BY <1>1, <2>1
  <2>3. \A i \in 1 .. l : s[i] # " " => m <= i /\ i <= n
    BY <1>1, <2>1
  <2>4. m - 1 \in 0 .. Len(s) /\ (m - 1) + 1 = m /\ n \in 0 .. Len(s)
    BY <1>1
  <2>5. /\ SubSeq(s, 1, m - 1) \in Seq(S) /\ Len(SubSeq(s, 1, m - 1)) = m - 1
        /\ \A i \in 1 .. m - 1 : SubSeq(s, 1, m - 1)[i] = s[i]
        /\ SubSeq(s, m, Len(s)) \in Seq(S)
        /\ s = SubSeq(s, 1, m - 1) \o SubSeq(s, m, Len(s))
    BY <2>4, SplitAt
  <2>6. /\ SubSeq(s, n + 1, Len(s)) \in Seq(S) /\ Len(SubSeq(s, n + 1, Len(s))) = Len(s) - n
        /\ \A i \in 1 .. Len(s) - n : SubSeq(s, n + 1, Len(s))[i] = s[n + i]
    BY <2>4, SplitAt
  <2>7. SubSeq(s, m, n) \o SubSeq(s, n + 1, Len(s)) = SubSeq(s, m, Len(s))
    <3>1. m \in 1 .. l + 1 /\ n \in m - 1 .. l /\ l \in n .. l
      BY ONLY l \in Nat, <2>2
    <3>. QED  BY <1>1, <3>1, ConcatAdjacentSubSeq
  <2>8. White(SubSeq(s, 1, m - 1))
    <3>. SUFFICES ASSUME NEW i \in 1 .. m - 1 PROVE s[i] = " "
      BY <2>5 DEF White
    <3>1. i \in 1 .. l /\ ~ (m <= i)
      BY ONLY l \in Nat, <2>2, i \in 1 .. m - 1
    <3>. QED  BY <2>3, <3>1
  <2>9. White(SubSeq(s, n + 1, Len(s)))
    <3>. SUFFICES ASSUME NEW i \in 1 .. l - n PROVE s[n + i] = " "
      BY <1>1, <2>6 DEF White
    <3>1. n + i \in 1 .. l /\ ~ (n + i <= n)
      BY ONLY l \in Nat, <2>2, i \in 1 .. l - n
    <3>. QED  BY <2>3, <3>1
  <2>. QED  BY <2>1, <2>5, <2>6, <2>7, <2>8, <2>9, TrimType
<1>. QED  BY <1>2, <1>3

LEMMA SolidTrim ==
    ASSUME NEW S, NEW s \in Seq(S)
    PROVE  Solid(Trim(s)) = Solid(s)
<1>1. PICK p \in Seq(S), q \in Seq(S) :
              /\ White(p) /\ White(q) /\ Trim(s) \in Seq(S) /\ TrimLeft(s) \in Seq(S)
              /\ s = p \o TrimLeft(s) /\ TrimLeft(s) = Trim(s) \o q
  BY TrimParts
<1>2. Solid(s) = Solid(p) \o Solid(TrimLeft(s))
  BY ONLY <1>1, SolidConcat
<1>3. Solid(TrimLeft(s)) = Solid(Trim(s)) \o Solid(q)
  BY ONLY <1>1, SolidConcat
<1>4. Solid(p) = <<>> /\ Solid(q) = <<>>
  BY <1>1, SolidWhite
<1>5. Solid(Trim(s)) \in Seq(S)
  BY <1>1, SolidType
<1>. QED  BY <1>2, <1>3, <1>4, <1>5, ConcatEmptySeq

LEMMA TrimLeftSame ==
    ASSUME NEW S, NEW s \in Seq(S), s = <<>> \/ s[1] # " "
    PROVE  TrimLeft(s) = s
<1>1. PICK l \in Nat : l = Len(s)
  BY LenProperties
<1>2. CASE s = <<>>
  <2>1. Solids(s) = {}
    BY <1>2 DEF Solids
  <2>. QED  BY <1>2, <2>1 DEF TrimLeft
<1>3. CASE s # <<>>
  <2>1. 1 \in 1 .. Len(s) /\ s[1] # " "
    <3>1. Len(s) \in Nat \ {0}
      BY <1>3, EmptySeq
    <3>2. 1 \in 1 .. Len(s)
      BY ONLY <3>1
    <3>. QED  BY <1>3, <3>2
  <2>2. Solids(s) # {}
    BY <2>1 DEF Solids
  <2>3. PICK m \in 1 .. Len(s) : (\A i \in 1 .. Len(s) : s[i] # " " => m <= i) /\ TrimLeft(s) = SubSeq(s, m, Len(s))
    BY <2>2, Trimmed
  <2>4. m = 1
    <3>1. m <= 1
      BY ONLY <2>1, <2>3
    <3>2. m \in 1 .. l
      BY ONLY <1>1, m \in 1 .. Len(s)
    <3>. QED  BY ONLY <1>1, <3>1, <3>2
  <2>. QED  BY <2>3, <2>4, SubSeqFull
<1>. QED  BY <1>2, <1>3

\* The tags of a text that is put together from two.
LEMMA TagInFirst ==
    ASSUME NEW S, NEW s \in Seq(S), NEW t \in Seq(S), NEW k \in 1 .. Len(s), k < Len(s), NEW tags
    PROVE  /\ OpenAt(s \o t, k, tags) <=> OpenAt(s, k, tags)
           /\ CloseAt(s \o t, k, tags) <=> CloseAt(s, k, tags)
<1>1. PICK m \in Nat, n \in Nat : m = Len(s) /\ n = Len(t)
  BY LenProperties
<1>2. Len(s \o t) = m + n /\ \A i \in 1 .. m + n : (s \o t)[i] = IF i <= m THEN s[i] ELSE t[i - m]
  BY <1>1, ConcatProperties
<1>3. k \in 1 .. m /\ k < m
  BY <1>1
<1>4. k < m + n /\ k \in 1 .. m + n /\ k + 1 \in 1 .. m + n /\ k + 1 <= m /\ k <= m
  BY ONLY <1>3, m \in Nat, n \in Nat
<1>5. (s \o t)[k] = s[k] /\ (s \o t)[k + 1] = s[k + 1]
  BY ONLY <1>2, <1>4
<1>. QED  BY <1>1, <1>2, <1>3, <1>4, <1>5 DEF OpenAt, CloseAt

LEMMA TagInSecond ==
    ASSUME NEW S, NEW s \in Seq(S), NEW t \in Seq(S), NEW k \in 1 .. Len(t), NEW tags
    PROVE  /\ OpenAt(s \o t, Len(s) + k, tags) <=> OpenAt(t, k, tags)
           /\ CloseAt(s \o t, Len(s) + k, tags) <=> CloseAt(t, k, tags)
<1>1. PICK m \in Nat, n \in Nat : m = Len(s) /\ n = Len(t)
  BY LenProperties
<1>2. Len(s \o t) = m + n /\ \A i \in 1 .. m + n : (s \o t)[i] = IF i <= m THEN s[i] ELSE t[i - m]
  BY <1>1, ConcatProperties
<1>3. k \in 1 .. n
  BY <1>1
<1>4. m + k < m + n <=> k < n
  BY ONLY <1>3, m \in Nat, n \in Nat
<1>5. m + k \in 1 .. m + n /\ ~ (m + k <= m) /\ (m + k) - m = k
  BY ONLY <1>3, m \in Nat, n \in Nat
<1>6. (s \o t)[m + k] = t[k]
  BY ONLY <1>2, <1>5
<1>7. k < n => (s \o t)[(m + k) + 1] = t[k + 1]
  <2>. SUFFICES ASSUME k < n PROVE (s \o t)[(m + k) + 1] = t[k + 1]
    OBVIOUS
  <2>1. (m + k) + 1 \in 1 .. m + n /\ ~ ((m + k) + 1 <= m) /\ ((m + k) + 1) - m = k + 1
    BY ONLY <1>3, m \in Nat, n \in Nat, k < n
  <2>. QED  BY ONLY <1>2, <2>1
<1>. QED  BY <1>1, <1>2, <1>4, <1>6, <1>7 DEF OpenAt, CloseAt

LEMMA TagBetween ==
    ASSUME NEW S, NEW s \in Seq(S), NEW t \in Seq(S), s # <<>>, TagAt(s \o t, Len(s))
    PROVE  t # <<>> /\ s[Len(s)] \in {"<", "</"} /\ t[1] \in Tags
<1>1. PICK m \in Nat, n \in Nat : m = Len(s) /\ n = Len(t) /\ m # 0
  <2>1. Len(s) \in Nat \ {0} /\ Len(t) \in Nat
    BY LenProperties, EmptySeq
  <2>. QED  BY <2>1
<1>2. Len(s \o t) = m + n /\ \A i \in 1 .. m + n : (s \o t)[i] = IF i <= m THEN s[i] ELSE t[i - m]
  BY <1>1, ConcatProperties
<1>3. m < m + n /\ (s \o t)[m] \in {"<", "</"} /\ (s \o t)[m + 1] \in Tags
  BY <1>1, <1>2 DEF TagAt, OpenAt, CloseAt
<1>4. n # 0 /\ m \in 1 .. m + n /\ m <= m /\ m + 1 \in 1 .. m + n /\ ~ (m + 1 <= m) /\ (m + 1) - m = 1
  BY ONLY <1>1, <1>3, m \in Nat, n \in Nat
<1>5. (s \o t)[m] = s[m] /\ (s \o t)[m + 1] = t[1]
  BY ONLY <1>2, <1>4
<1>6. t # <<>>
  BY <1>1, <1>4, EmptySeq
<1>. QED  BY <1>1, <1>3, <1>5, <1>6

LEMMA UntaggedParts ==
    ASSUME NEW S, NEW s \in Seq(S), NEW t \in Seq(S), Untagged(s \o t)
    PROVE  Untagged(s) /\ Untagged(t)
<1>1. PICK m \in Nat, n \in Nat : m = Len(s) /\ n = Len(t)
  BY LenProperties
<1>2. Len(s \o t) = m + n
  BY <1>1, ConcatProperties
<1>3. ASSUME NEW k \in 1 .. m PROVE ~ TagAt(s, k)
  <2>. SUFFICES ASSUME TagAt(s, k) PROVE FALSE
    OBVIOUS
  <2>1. k < Len(s) /\ k \in 1 .. Len(s)
    BY <1>1 DEF TagAt, OpenAt, CloseAt
  <2>2. TagAt(s \o t, k)
    BY <2>1, TagInFirst DEF TagAt
  <2>3. k \in 1 .. m + n
    BY ONLY m \in Nat, n \in Nat, k \in 1 .. m
  <2>. QED  BY <1>2, <2>2, <2>3 DEF Untagged
<1>4. ASSUME NEW k \in 1 .. n PROVE ~ TagAt(t, k)
  <2>. SUFFICES ASSUME TagAt(t, k) PROVE FALSE
    OBVIOUS
  <2>1. k \in 1 .. Len(t)
    BY <1>1
  <2>2. TagAt(s \o t, Len(s) + k)
    BY <2>1, TagInSecond DEF TagAt
  <2>3. m + k \in 1 .. m + n
    BY ONLY m \in Nat, n \in Nat, k \in 1 .. n
  <2>. QED  BY <1>1, <1>2, <2>2, <2>3 DEF Untagged
<1>. QED  BY <1>1, <1>3, <1>4 DEF Untagged

LEMMA UntaggedConcat ==
    ASSUME NEW S, NEW s \in Seq(S), NEW t \in Seq(S), Untagged(s), Untagged(t),
           s # <<>> => s[Len(s)] \notin {"<", "</"} \/ t = <<>> \/ t[1] \notin Tags
    PROVE  Untagged(s \o t)
<1>1. PICK m \in Nat, n \in Nat : m = Len(s) /\ n = Len(t)
  BY LenProperties
<1>2. Len(s \o t) = m + n
  BY <1>1, ConcatProperties
<1>3. ASSUME NEW k \in 1 .. m + n, TagAt(s \o t, k) PROVE FALSE
  <2>1. CASE k < m
    <3>1. k \in 1 .. Len(s) /\ k < Len(s)
      BY ONLY <1>1, <2>1, m \in Nat, k \in 1 .. m + n
    <3>2. TagAt(s, k)
      BY <1>3, <3>1, TagInFirst DEF TagAt
    <3>. QED  BY <3>1, <3>2 DEF Untagged
  <2>2. CASE k = m
    <3>1. m # 0
      BY ONLY <2>2, k \in 1 .. m + n, m \in Nat, n \in Nat
    <3>2. s # <<>>
      BY <1>1, <3>1, EmptySeq
    <3>. QED  BY <1>1, <1>3, <2>2, <3>2, TagBetween
  <2>3. CASE m < k
    <3>1. PICK j \in 1 .. n : k = m + j
      <4>1. k - m \in 1 .. n /\ k = m + (k - m)
        BY ONLY <2>3, k \in 1 .. m + n, m \in Nat, n \in Nat
      <4>. QED  BY <4>1
    <3>2. j \in 1 .. Len(t) /\ TagAt(s \o t, Len(s) + j)
      BY <1>1, <1>3, <3>1
    <3>3. TagAt(t, j)
      BY <3>2, TagInSecond DEF TagAt
    <3>. QED  BY <3>2, <3>3 DEF Untagged
  <2>4. k < m \/ k = m \/ m < k
    BY ONLY k \in 1 .. m + n, m \in Nat, n \in Nat
  <2>. QED  BY <2>1, <2>2, <2>3, <2>4
<1>. QED  BY <1>2, <1>3 DEF Untagged

LEMMA UntaggedSolid ==
    ASSUME NEW S, NEW s \in Seq(S), Untagged(Solid(s))
    PROVE  Untagged(s)
<1>. SUFFICES ASSUME NEW k \in 1 .. Len(s), TagAt(s, k) PROVE FALSE
  BY DEF Untagged
<1>1. PICK l \in Nat : l = Len(s) /\ k \in 1 .. l /\ k < l
  <2>1. k < Len(s) /\ Len(s) \in Nat
    BY LenProperties DEF TagAt, OpenAt, CloseAt
  <2>. QED  BY <2>1
<1>2. PICK p \in Seq(S), r \in Seq(S) : s = p \o r /\ Len(p) = k - 1 /\ Len(r) = l - (k - 1)
  <2>1. k - 1 \in 0 .. Len(s)
    BY <1>1
  <2>2. /\ SubSeq(s, 1, k - 1) \in Seq(S) /\ SubSeq(s, (k - 1) + 1, Len(s)) \in Seq(S)
        /\ Len(SubSeq(s, 1, k - 1)) = k - 1 /\ Len(SubSeq(s, (k - 1) + 1, Len(s))) = Len(s) - (k - 1)
        /\ s = SubSeq(s, 1, k - 1) \o SubSeq(s, (k - 1) + 1, Len(s))
    BY <2>1, SplitAt
  <2>. QED  BY <1>1, <2>2
<1>3. 1 \in 1 .. Len(r) /\ Len(p) + 1 = k /\ 2 \in 0 .. Len(r) /\ Len(r) \in Nat
  BY ONLY <1>1, <1>2, l \in Nat
<1>4. TagAt(r, 1)
  BY <1>2, <1>3, TagInSecond DEF TagAt
<1>5. PICK x \in Seq(S), y \in Seq(S) : r = x \o y /\ Len(x) = 2
  <2>1. /\ SubSeq(r, 1, 2) \in Seq(S) /\ SubSeq(r, 2 + 1, Len(r)) \in Seq(S) /\ Len(SubSeq(r, 1, 2)) = 2
        /\ r = SubSeq(r, 1, 2) \o SubSeq(r, 2 + 1, Len(r))
    BY <1>3, SplitAt
  <2>. QED  BY <2>1
<1>6. TagAt(x, 1)
  <2>1. 1 \in 1 .. Len(x) /\ 1 < Len(x)
    BY ONLY <1>5
  <2>. QED  BY <1>4, <1>5, <2>1, TagInFirst DEF TagAt
<1>7. Solid(x) = x
  <2>1. x[1] # " " /\ x[1 + 1] # " "
    BY <1>6 DEF TagAt, OpenAt, CloseAt, Tags, Outer, Inner
  <2>2. \A i \in 1 .. Len(x) : i = 1 \/ i = 1 + 1
    BY ONLY <1>5
  <2>. QED  BY <2>1, <2>2, WithoutSame DEF Solid
<1>8. PICK P \in Seq(S), Y \in Seq(S) : P = Solid(p) /\ Y = Solid(y)
  BY SolidType
<1>9. Solid(s) = P \o (x \o Y)
  <2>1. Solid(s) = Solid(p) \o Solid(r)
    BY ONLY <1>2, SolidConcat
  <2>2. Solid(r) = Solid(x) \o Solid(y)
    BY ONLY <1>5, SolidConcat
  <2>. QED  BY ONLY <2>1, <2>2, <1>7, <1>8
<1>10. Untagged(x \o Y)
  <2>1. x \o Y \in Seq(S)
    BY ConcatProperties
  <2>. QED  BY <1>9, <2>1, UntaggedParts
<1>11. Untagged(x)
  BY <1>10, UntaggedParts
<1>12. 1 \in 1 .. Len(x)
  BY ONLY <1>5
<1>. QED  BY <1>6, <1>11, <1>12 DEF Untagged

-----------------------------------------------------------------------------
(* A block in a text, and what becomes of it.                                *)

LEMMA RemoveUntagged ==
    ASSUME NEW S, NEW s \in Seq(S), Untagged(s)
    PROVE  RemoveMarkup(s) = s
<1>1. Len(s) \in Nat
  BY LenProperties
<1>2. Blocks(s, Tags, Tags) = <<>>
  <2>1. <<>> \in Seq(S) /\ Len(<<>>) = 0
    BY EmptySeq
  <2>2. Within(s, <<>>, 0, Tags, Tags)
    <3>1. Marked(s, <<>>, 0)
      BY <1>1, UntaggedMarked
    <3>. QED  BY ONLY <3>1, <2>1, <1>1, MarkedWithin
  <2>3. Moved(Blocks(s, Tags, Tags), Blocks(<<>>, Tags, Tags), 0)
    BY <2>1, <2>2, BlocksMove
  <2>4. Len(Blocks(s, Tags, Tags)) = 0
    BY <2>1, <2>3, BlocksOfNothing DEF Moved
  <2>5. Blocks(s, Tags, Tags) \in Seq(Spans(s))
    BY BlocksType
  <2>. QED  BY ONLY <2>4, <2>5, EmptySeq
<1>3. Keep(s, (1 .. Len(s)) \ UNION {b[1] .. b[2] : b \in ToSet(Blocks(s, Tags, Tags))}) = s
  <2>1. ToSet(<<>>) = {}
    BY DEF ToSet
  <2>2. UNION {b[1] .. b[2] : b \in {}} = {}
    OBVIOUS
  <2>3. Keep(s, (1 .. Len(s)) \ {}) = s
    BY KeepAll
  <2>. QED  BY <1>2, <2>1, <2>2, <2>3
<1>4. DropTags(s) = s
  <2>1. \A i \in 1 .. Len(s) : i \in {j \in 1 .. Len(s) : ~TagAt(s, j) /\ (j = 1 \/ ~TagAt(s, j - 1))}
    <3>. SUFFICES ASSUME NEW i \in 1 .. Len(s), i # 1 PROVE ~ TagAt(s, i - 1)
      BY DEF Untagged
    <3>1. i - 1 \in 1 .. Len(s)
      BY <1>1
    <3>. QED  BY <3>1 DEF Untagged
  <2>. QED  BY <2>1, KeepAll DEF DropTags
<1>. QED  BY <1>3, <1>4 DEF RemoveMarkup

LEMMA ThreeParts ==
    ASSUME NEW S, NEW u \in Seq(S), NEW b \in Seq(S), NEW v \in Seq(S)
    PROVE  /\ u \o (b \o v) \in Seq(S) /\ Len(u \o (b \o v)) = Len(u) + Len(b) + Len(v)
           /\ \A i \in 1 .. Len(u) : (u \o (b \o v))[i] = u[i]
           /\ \A i \in 1 .. Len(b) : (u \o (b \o v))[i + Len(u)] = b[i]
           /\ \A i \in 1 .. Len(v) : (u \o (b \o v))[i + Len(u) + Len(b)] = v[i]
<1>1. PICK l \in Nat, m \in Nat, n \in Nat : l = Len(u) /\ m = Len(b) /\ n = Len(v)
  BY LenProperties
<1>2. PICK t \in Seq(S) : t = b \o v
  BY ConcatProperties
<1>3. /\ Len(t) = m + n
      /\ \A i \in 1 .. m + n : t[i] = IF i <= m THEN b[i] ELSE v[i - m]
  BY <1>1, <1>2, ConcatProperties
<1>4. PICK s \in Seq(S) : s = u \o t
  BY ConcatProperties
<1>5. /\ Len(s) = l + (m + n)
      /\ \A i \in 1 .. l + (m + n) : s[i] = IF i <= l THEN u[i] ELSE t[i - l]
  <2>1. Len(u \o t) = Len(u) + Len(t)
       /\ \A i \in 1 .. Len(u) + Len(t) : (u \o t)[i] = IF i <= Len(u) THEN u[i] ELSE t[i - Len(u)]
    BY ConcatProperties
  <2>. QED  BY <1>1, <1>3, <1>4, <2>1
<1>6. \A i \in 1 .. l : s[i] = u[i]
  <2>. SUFFICES ASSUME NEW i \in 1 .. l PROVE s[i] = u[i]
    OBVIOUS
  <2>1. i \in 1 .. l + (m + n) /\ i <= l
    BY ONLY l \in Nat, m \in Nat, n \in Nat, i \in 1 .. l
  <2>. QED  BY ONLY <1>5, <2>1
<1>7. \A i \in 1 .. m : s[i + l] = b[i]
  <2>. SUFFICES ASSUME NEW i \in 1 .. m PROVE s[i + l] = b[i]
    OBVIOUS
  <2>1. /\ i + l \in 1 .. l + (m + n) /\ ~ (i + l <= l) /\ (i + l) - l = i
        /\ i \in 1 .. m + n /\ i <= m
    BY ONLY l \in Nat, m \in Nat, n \in Nat, i \in 1 .. m
  <2>2. s[i + l] = t[i] /\ t[i] = b[i]
    BY ONLY <1>3, <1>5, <2>1
  <2>. QED  BY ONLY <2>2
<1>8. \A i \in 1 .. n : s[i + l + m] = v[i]
  <2>. SUFFICES ASSUME NEW i \in 1 .. n PROVE s[i + l + m] = v[i]
    OBVIOUS
  <2>1. /\ i + l + m \in 1 .. l + (m + n) /\ ~ (i + l + m <= l) /\ (i + l + m) - l = i + m
        /\ i + m \in 1 .. m + n /\ ~ (i + m <= m) /\ (i + m) - m = i
    BY ONLY l \in Nat, m \in Nat, n \in Nat, i \in 1 .. n
  <2>2. s[i + l + m] = t[i + m] /\ t[i + m] = v[i]
    BY ONLY <1>3, <1>5, <2>1
  <2>. QED  BY ONLY <2>2
<1>9. Len(s) = l + m + n
  BY ONLY <1>5, l \in Nat, m \in Nat, n \in Nat
<1>. QED  BY <1>1, <1>2, <1>4, <1>6, <1>7, <1>8, <1>9

\* It begins as no tag ends, and ends as no tag begins.
Closed(b) == b # <<>> /\ b[1] \notin Tags /\ b[Len(b)] \notin {"<", "</"}

LEMMA TagsAround ==
    ASSUME NEW S, NEW u \in Seq(S), NEW b \in Seq(S), NEW v \in Seq(S), Untagged(u), Untagged(v), Closed(b),
           NEW k \in 1 .. Len(u \o (b \o v)), TagAt(u \o (b \o v), k)
    PROVE  k - Len(u) \in 1 .. Len(b) - 1
<1>1. PICK l \in Nat, m \in Nat \ {0}, n \in Nat : l = Len(u) /\ m = Len(b) /\ n = Len(v)
  <2>1. Len(u) \in Nat /\ Len(b) \in Nat \ {0} /\ Len(v) \in Nat
    BY LenProperties, EmptySeq DEF Closed
  <2>. QED  BY <2>1
<1>2. PICK s \in Seq(S) : s = u \o (b \o v)
  BY ThreeParts
<1>3. /\ Len(s) = l + m + n
      /\ \A i \in 1 .. l : s[i] = u[i]
      /\ \A i \in 1 .. m : s[i + l] = b[i]
      /\ \A i \in 1 .. n : s[i + l + m] = v[i]
  BY <1>1, <1>2, ThreeParts, SMTT(30)
<1>4. k \in 1 .. l + m + n /\ k < l + m + n /\ s[k] \in {"<", "</"} /\ s[k + 1] \in Tags
  BY <1>2, <1>3 DEF TagAt, OpenAt, CloseAt
<1>5. ~ (k < l)
  <2>. SUFFICES ASSUME k < l PROVE FALSE
    OBVIOUS
  <2>1. k \in 1 .. l /\ k + 1 \in 1 .. l
    BY ONLY <1>1, <1>4, k < l
  <2>2. s[k] = u[k] /\ s[k + 1] = u[k + 1]
    BY <1>3, <2>1
  <2>3. TagAt(u, k)
    BY <1>1, <1>4, <2>1, <2>2 DEF TagAt, OpenAt, CloseAt
  <2>. QED  BY <1>1, <2>1, <2>3 DEF Untagged
<1>6. k # l
  <2>. SUFFICES ASSUME k = l PROVE FALSE
    OBVIOUS
  <2>1. 1 \in 1 .. m /\ k + 1 = 1 + l
    BY ONLY <1>1, <1>4, k = l
  <2>2. s[k + 1] = b[1]
    BY <1>3, <2>1
  <2>. QED  BY <1>4, <2>2 DEF Closed
<1>7. k # l + m
  <2>. SUFFICES ASSUME k = l + m PROVE FALSE
    OBVIOUS
  <2>1. m \in 1 .. m /\ k = m + l
    BY ONLY <1>1, k = l + m
  <2>2. s[k] = b[m]
    BY <1>3, <2>1
  <2>. QED  BY <1>1, <1>4, <2>2 DEF Closed
<1>8. ~ (l + m < k)
  <2>. SUFFICES ASSUME l + m < k PROVE FALSE
    OBVIOUS
  <2>1. PICK j \in 1 .. n : k = j + l + m /\ j < n
    <3>1. k - (l + m) \in 1 .. n /\ k = (k - (l + m)) + l + m /\ k - (l + m) < n
      BY ONLY <1>1, <1>4, l + m < k
    <3>. QED  BY <3>1
  <2>2. j + 1 \in 1 .. n /\ k + 1 = (j + 1) + l + m
    BY ONLY <1>1, <2>1
  <2>3. s[k] = v[j] /\ s[k + 1] = v[j + 1]
    BY <1>3, <2>1, <2>2
  <2>4. TagAt(v, j)
    BY <1>1, <1>4, <2>1, <2>3 DEF TagAt, OpenAt, CloseAt
  <2>. QED  BY <1>1, <2>1, <2>4 DEF Untagged
<1>9. k - l \in 1 .. m - 1
  BY ONLY <1>1, <1>4, <1>5, <1>6, <1>7, <1>8
<1>. QED  BY <1>1, <1>9

LEMMA MarkedAround ==
    ASSUME NEW S, NEW u \in Seq(S), NEW b \in Seq(S), NEW v \in Seq(S), Untagged(u), Untagged(v), Closed(b)
    PROVE  Marked(u \o (b \o v), b, Len(u))
<1>1. PICK l \in Nat, m \in Nat, n \in Nat : l = Len(u) /\ m = Len(b) /\ n = Len(v)
  BY LenProperties
<1>2. /\ Len(u \o (b \o v)) = l + m + n
      /\ \A i \in 1 .. m : (u \o (b \o v))[i + l] = b[i]
  BY <1>1, ThreeParts
<1>3. \A k \in 1 .. Len(u \o (b \o v)) : TagAt(u \o (b \o v), k) => k - Len(u) \in 1 .. Len(b) - 1
  BY TagsAround
<1>4. l + m <= l + m + n
  BY ONLY l \in Nat, m \in Nat, n \in Nat
<1>. QED  BY <1>1, <1>2, <1>3, <1>4 DEF Marked

LEMMA ParseAround ==
    ASSUME NEW S, NEW u \in Seq(S), NEW b \in Seq(S), NEW v \in Seq(S), Untagged(u), Untagged(v), Closed(b)
    PROVE  ParseCalls(u \o (b \o v)) = ParseCalls(b)
<1>1. Marked(u \o (b \o v), b, Len(u))
  BY MarkedAround
<1>2. u \o (b \o v) \in Seq(S) /\ Len(u) \in Nat
  BY ThreeParts, LenProperties
<1>. QED  BY <1>1, <1>2, ParseCallsMove

LEMMA BlockShape ==
    ASSUME NEW S, NEW b \in Seq(S), CallBlock(b)
    PROVE  /\ Len(b) \in Nat /\ 4 <= Len(b)
           /\ b[1] = "<" /\ b[2] \in Tags
           /\ b[Len(b) - 1] = "</" /\ b[Len(b)] \in Tags
           /\ Closed(b)
<1>1. PICK m \in Nat : m = Len(b)
  BY LenProperties
<1>2. PICK tags \in {Outer, Inner} : OpenAt(b, 1, tags) /\ CloseAt(b, Len(b) - 1, tags)
  BY DEF CallBlock
<1>3. tags \subseteq Tags
  BY DEF Tags
<1>4. b[1] = "<" /\ b[2] \in Tags /\ 1 < m /\ b[m - 1] = "</" /\ b[m] \in Tags
  <2>1. 1 + 1 = 2 /\ (m - 1) + 1 = m
    BY <1>1
  <2>. QED  BY <1>1, <1>2, <1>3, <2>1 DEF OpenAt, CloseAt
<1>5. m - 1 # 1
  BY <1>4
<1>6. m - 1 # 2
  BY <1>4 DEF Tags, Outer, Inner
<1>7. 4 <= m
  BY ONLY <1>1, <1>4, <1>5, <1>6
<1>8. Closed(b)
  <2>1. b # <<>>
    BY <1>1, <1>7, EmptySeq
  <2>. QED  BY <1>1, <1>4, <2>1 DEF Closed, Tags, Outer, Inner
<1>. QED  BY <1>1, <1>4, <1>7, <1>8

LEMMA KeepNone ==
    ASSUME NEW S, NEW s \in Seq(S), NEW P, Keep(s, P) = <<>>, NEW i \in 1 .. Len(s)
    PROVE  i \notin P
<1>. SUFFICES ASSUME i \in P PROVE FALSE
  OBVIOUS
<1>1. PICK p \in Seq(Seq(S)) : p = Pieces(s, P) /\ Len(p) = Len(s) /\ p[i] = <<s[i]>>
  BY PiecesType
<1>2. FlattenSeq(p) = <<>>
  BY <1>1 DEF Keep, Pieces
<1>3. Some(p[i], {s[i]})
  BY <1>1, SomeOfOne
<1>4. Some(FlattenSeq(p), {s[i]})
  <2>1. \E n \in 1 .. Len(p) : Some(p[n], {s[i]})
    BY <1>1, <1>3
  <2>. QED  BY <2>1, SomeFlatten
<1>. QED  BY <1>2, <1>4, SomeOfNone

\* Positions after the first d.
After(P, d) == {i \in Nat : i + d \in P}

LEMMA KeepTwo ==
    ASSUME NEW S, NEW u \in Seq(S), NEW t \in Seq(S), NEW P
    PROVE  Keep(u \o t, P) = Keep(u, P) \o Keep(t, After(P, Len(u)))
<1>1. PICK Q : Q = After(P, Len(u))
  OBVIOUS
<1>2. \A i \in 1 .. Len(t) : i \in Q <=> Len(u) + i \in P
  BY <1>1, LenProperties DEF After
<1>3. Keep(u \o t, P) = Keep(u, P) \o Keep(t, Q)
  BY <1>2, KeepConcat
<1>. QED  BY <1>1, <1>3

LEMMA KeepThree ==
    ASSUME NEW S, NEW u \in Seq(S), NEW b \in Seq(S), NEW v \in Seq(S), NEW P
    PROVE  Keep(u \o (b \o v), P) =
              Keep(u, P) \o (Keep(b, After(P, Len(u))) \o Keep(v, After(After(P, Len(u)), Len(b))))
<1>1. b \o v \in Seq(S)
  BY ConcatProperties
<1>2. Keep(u \o (b \o v), P) = Keep(u, P) \o Keep(b \o v, After(P, Len(u)))
  BY ONLY KeepTwo, <1>1, u \in Seq(S)
<1>3. Keep(b \o v, After(P, Len(u))) = Keep(b, After(P, Len(u))) \o Keep(v, After(After(P, Len(u)), Len(b)))
  BY ONLY KeepTwo, b \in Seq(S), v \in Seq(S)
<1>. QED  BY ONLY <1>2, <1>3

\* What is in no block.
Uncovered(s) == (1 .. Len(s)) \ UNION {b[1] .. b[2] : b \in ToSet(Blocks(s, Tags, Tags))}

LEMMA UncoveredMeans ==
    ASSUME NEW S, NEW s \in Seq(S), NEW i \in 1 .. Len(s)
    PROVE  i \in Uncovered(s) <=>
              \A n \in 1 .. Len(Blocks(s, Tags, Tags)) :
                 ~ (Blocks(s, Tags, Tags)[n][1] <= i /\ i <= Blocks(s, Tags, Tags)[n][2])
<1>1. PICK B \in Seq(Spans(s)) : B = Blocks(s, Tags, Tags)
  BY BlocksType
<1>2. Len(s) \in Nat /\ DOMAIN B = 1 .. Len(B)
  BY LenProperties
<1>3. \A n \in 1 .. Len(B) : B[n][1] \in Nat /\ B[n][2] \in Nat
  <2>. SUFFICES ASSUME NEW n \in 1 .. Len(B) PROVE B[n][1] \in Nat /\ B[n][2] \in Nat
    OBVIOUS
  <2>1. B[n] \in Spans(s)
    BY ElementOfSeq
  <2>2. \A k \in 1 .. Len(s) : k \in Nat
    BY <1>2
  <2>. QED  BY <2>1, <2>2 DEF Spans
<1>4. \A n \in 1 .. Len(B) : i \in B[n][1] .. B[n][2] <=> B[n][1] <= i /\ i <= B[n][2]
  BY <1>2, <1>3
<1>5. i \in Uncovered(s) <=> \A n \in 1 .. Len(B) : ~ (i \in B[n][1] .. B[n][2])
  BY <1>1, <1>2 DEF Uncovered, ToSet
<1>. QED  BY <1>1, <1>4, <1>5

LEMMA KeepAround ==
    ASSUME NEW S, NEW u \in Seq(S), NEW b \in Seq(S), NEW v \in Seq(S), Untagged(u), Untagged(v), Closed(b)
    PROVE  Keep(u \o (b \o v), Uncovered(u \o (b \o v))) = u \o (Keep(b, Uncovered(b)) \o v)
<1>1. \A P : Keep(u \o (b \o v), P) =
         Keep(u, P) \o (Keep(b, After(P, Len(u))) \o Keep(v, After(After(P, Len(u)), Len(b))))
  BY KeepThree
<1>2. PICK l \in Nat, m \in Nat, n \in Nat : l = Len(u) /\ m = Len(b) /\ n = Len(v)
  BY LenProperties
<1>3. PICK s \in Seq(S) : s = u \o (b \o v) /\ Len(s) = l + m + n
  <2>1. u \o (b \o v) \in Seq(S) /\ Len(u \o (b \o v)) = Len(u) + Len(b) + Len(v)
    BY ThreeParts
  <2>. QED  BY ONLY <1>2, <2>1
<1>4. PICK B \in Seq(Spans(b)) : B = Blocks(b, Tags, Tags)
  BY BlocksType
<1>5. PICK D : D = Blocks(s, Tags, Tags)
  OBVIOUS
<1>6. Len(D) = Len(B) /\ \A k \in 1 .. Len(B) : D[k] = <<B[k][1] + l, B[k][2] + l>>
  <2>1. Marked(s, b, l)
    BY <1>2, <1>3, MarkedAround
  <2>2. Len(s) \in Nat /\ Len(b) \in Nat
    BY LenProperties
  <2>3. Within(s, b, l, Tags, Tags)
    BY ONLY <2>1, <2>2, l \in Nat, MarkedWithin
  <2>4. Moved(D, B, l)
    BY <1>4, <1>5, <2>3, BlocksMove
  <2>. QED  BY <2>4 DEF Moved
<1>7. \A k \in 1 .. Len(B) : B[k][1] \in 1 .. m /\ B[k][2] \in 1 .. m
  <2>. SUFFICES ASSUME NEW k \in 1 .. Len(B) PROVE B[k][1] \in 1 .. m /\ B[k][2] \in 1 .. m
    OBVIOUS
  <2>1. B[k] \in Spans(b)
    BY ElementOfSeq
  <2>. QED  BY <1>2, <2>1 DEF Spans
<1>8. \A i \in 1 .. l + m + n : i \in Uncovered(s) <=>
         \A k \in 1 .. Len(B) : ~ (B[k][1] + l <= i /\ i <= B[k][2] + l)
  <2>. SUFFICES ASSUME NEW i \in 1 .. l + m + n
                PROVE  i \in Uncovered(s) <=>
                          \A k \in 1 .. Len(B) : ~ (B[k][1] + l <= i /\ i <= B[k][2] + l)
    OBVIOUS
  <2>1. i \in Uncovered(s) <=> \A k \in 1 .. Len(D) : ~ (D[k][1] <= i /\ i <= D[k][2])
    <3>1. i \in 1 .. Len(s)
      BY <1>3
    <3>. QED  BY ONLY <1>5, <3>1, s \in Seq(S), UncoveredMeans
  <2>2. \A k \in 1 .. Len(B) : D[k][1] = B[k][1] + l /\ D[k][2] = B[k][2] + l
    BY ONLY <1>6
  <2>. QED  BY ONLY <1>6, <2>1, <2>2
<1>9. \A i \in 1 .. m : i \in Uncovered(b) <=> i + l \in Uncovered(s)
  <2>. SUFFICES ASSUME NEW i \in 1 .. m PROVE i \in Uncovered(b) <=> i + l \in Uncovered(s)
    OBVIOUS
  <2>1. i + l \in 1 .. l + m + n
    BY ONLY l \in Nat, m \in Nat, n \in Nat, i \in 1 .. m
  <2>2. i \in Uncovered(b) <=> \A k \in 1 .. Len(B) : ~ (B[k][1] <= i /\ i <= B[k][2])
    <3>1. i \in 1 .. Len(b)
      BY <1>2
    <3>. QED  BY ONLY <1>4, <3>1, b \in Seq(S), UncoveredMeans
  <2>3. \A k \in 1 .. Len(B) : (B[k][1] + l <= i + l <=> B[k][1] <= i) /\ (i + l <= B[k][2] + l <=> i <= B[k][2])
    BY ONLY <1>7, l \in Nat, m \in Nat, i \in 1 .. m, SMTT(30)
  <2>. QED  BY ONLY <1>8, <2>1, <2>2, <2>3
<1>10. \A i \in 1 .. l : i \in Uncovered(s)
  <2>. SUFFICES ASSUME NEW i \in 1 .. l PROVE i \in Uncovered(s)
    OBVIOUS
  <2>1. i \in 1 .. l + m + n
    BY ONLY l \in Nat, m \in Nat, n \in Nat, i \in 1 .. l
  <2>2. \A k \in 1 .. Len(B) : ~ (B[k][1] + l <= i)
    BY ONLY <1>7, l \in Nat, m \in Nat, i \in 1 .. l
  <2>. QED  BY ONLY <1>8, <2>1, <2>2
<1>11. \A i \in 1 .. n : i + l + m \in Uncovered(s)
  <2>. SUFFICES ASSUME NEW i \in 1 .. n PROVE i + l + m \in Uncovered(s)
    OBVIOUS
  <2>1. i + l + m \in 1 .. l + m + n
    BY ONLY l \in Nat, m \in Nat, n \in Nat, i \in 1 .. n
  <2>2. \A k \in 1 .. Len(B) : ~ (i + l + m <= B[k][2] + l)
    BY ONLY <1>7, l \in Nat, m \in Nat, i \in 1 .. n, n \in Nat
  <2>. QED  BY ONLY <1>8, <2>1, <2>2
<1>12. Keep(u, Uncovered(s)) = u
  BY <1>2, <1>10, KeepAll
<1>13. Keep(b, After(Uncovered(s), l)) = Keep(b, Uncovered(b))
  <2>1. \A i \in 1 .. Len(b) : i \in After(Uncovered(s), l) <=> i \in Uncovered(b)
    BY <1>2, <1>9 DEF After
  <2>. QED  BY ONLY <2>1, b \in Seq(S), KeepSame
<1>14. Keep(v, After(After(Uncovered(s), l), m)) = v
  <2>1. \A i \in 1 .. n : i + m \in Nat /\ (i + m) + l = i + l + m /\ i \in Nat
    BY ONLY l \in Nat, m \in Nat, n \in Nat
  <2>2. \A i \in 1 .. n : i \in After(After(Uncovered(s), l), m)
    BY <1>11, <2>1 DEF After
  <2>. QED  BY <1>2, <2>2, KeepAll
<1>. QED  BY ONLY <1>2, <1>3, <1>12, <1>13, <1>14, <1>1

\* Without a block of which nothing is left, the text around it is.
LEMMA RemoveAround ==
    ASSUME NEW S, NEW u \in Seq(S), NEW b \in Seq(S), NEW v \in Seq(S), Untagged(u \o v), Closed(b),
           RemoveMarkup(b) = <<>>
    PROVE  RemoveMarkup(u \o (b \o v)) = u \o v
<1>1. Untagged(u) /\ Untagged(v)
  BY UntaggedParts
<1>2. PICK k \in Seq(S) : k = Keep(b, Uncovered(b))
  BY KeepType
<1>3. \A P : Keep(u \o (k \o v), P) =
         Keep(u, P) \o (Keep(k, After(P, Len(u))) \o Keep(v, After(After(P, Len(u)), Len(k))))
  BY KeepThree
<1>4. \A s : RemoveMarkup(s) = DropTags(Keep(s, Uncovered(s)))
  BY DEF RemoveMarkup, Uncovered
<1>5. DropTags(k) = <<>>
  BY <1>2, <1>4
<1>6. RemoveMarkup(u \o (b \o v)) = DropTags(u \o (k \o v))
  <2>1. Keep(u \o (b \o v), Uncovered(u \o (b \o v))) = u \o (Keep(b, Uncovered(b)) \o v)
    BY <1>1, KeepAround, SMTT(30)
  <2>. QED  BY <1>2, <1>4, <2>1
<1>7. CASE k = <<>>
  <2>1. k \o v = v /\ u \o v \in Seq(S)
    BY <1>7, ConcatEmptySeq, ConcatProperties
  <2>2. RemoveMarkup(u \o v) = u \o v
    BY <2>1, RemoveUntagged
  <2>3. DropTags(u \o v) = u \o v
    <3>1. \A i \in 1 .. Len(u \o v) :
             i \in {j \in 1 .. Len(u \o v) : ~TagAt(u \o v, j) /\ (j = 1 \/ ~TagAt(u \o v, j - 1))}
      <4>. SUFFICES ASSUME NEW i \in 1 .. Len(u \o v), i # 1 PROVE ~ TagAt(u \o v, i - 1)
        BY DEF Untagged
      <4>1. i - 1 \in 1 .. Len(u \o v)
        <5>1. Len(u \o v) \in Nat
          BY <2>1, LenProperties
        <5>. QED  BY ONLY <5>1, i \in 1 .. Len(u \o v), i # 1
      <4>. QED  BY <4>1 DEF Untagged
    <3>. QED  BY <2>1, <3>1, KeepAll DEF DropTags
  <2>. QED  BY <1>6, <2>1, <2>3
<1>8. CASE k # <<>>
  <2>1. PICK l \in Nat, m \in Nat \ {0}, n \in Nat : l = Len(u) /\ m = Len(k) /\ n = Len(v)
    <3>1. Len(u) \in Nat /\ Len(k) \in Nat \ {0} /\ Len(v) \in Nat
      BY <1>8, LenProperties, EmptySeq
    <3>. QED  BY <3>1
  <2>. DEFINE Dropped == {j \in 1 .. Len(k) : ~TagAt(k, j) /\ (j = 1 \/ ~TagAt(k, j - 1))}
  <2>2. \A i \in 1 .. m : TagAt(k, i) \/ (i # 1 /\ TagAt(k, i - 1))
    <3>1. Keep(k, Dropped) = <<>>
      BY <1>5 DEF DropTags
    <3>2. \A i \in 1 .. Len(k) : i \notin Dropped
      <4>. HIDE DEF Dropped
      <4>. QED  BY <3>1, KeepNone
    <3>. QED  BY <2>1, <3>2
  <2>. HIDE DEF Dropped
  <2>3. k[1] \in {"<", "</"}
    <3>1. 1 \in 1 .. m
      BY <2>1
    <3>2. TagAt(k, 1)
      BY <2>2, <3>1
    <3>. QED  BY <3>2 DEF TagAt, OpenAt, CloseAt
  <2>4. k[m] \in Tags
    <3>1. m \in 1 .. m /\ ~ TagAt(k, m)
      BY <2>1 DEF TagAt, OpenAt, CloseAt
    <3>2. TagAt(k, m - 1)
      BY <2>2, <3>1
    <3>3. (m - 1) + 1 = m
      BY <2>1
    <3>. QED  BY <3>2, <3>3 DEF TagAt, OpenAt, CloseAt
  <2>5. Closed(k)
    BY <1>8, <2>1, <2>3, <2>4 DEF Closed, Tags, Outer, Inner
  <2>6. PICK s \in Seq(S) : s = u \o (k \o v) /\ Len(s) = l + m + n
    <3>1. u \o (k \o v) \in Seq(S) /\ Len(u \o (k \o v)) = Len(u) + Len(k) + Len(v)
      BY ThreeParts
    <3>. QED  BY ONLY <2>1, <3>1
  <2>7. Marked(s, k, l)
    BY <1>1, <2>1, <2>5, <2>6, MarkedAround
  <2>8. \A i \in 1 .. l + m + n : TagAt(s, i) <=> i - l \in 1 .. m - 1 /\ TagAt(k, i - l)
    <3>1. Within(s, k, l, Tags, Tags)
      <4>1. Len(s) \in Nat /\ Len(k) \in Nat
        BY LenProperties
      <4>. QED  BY ONLY <2>7, <4>1, l \in Nat, MarkedWithin
    <3>2. \A i \in 1 .. l + m + n : TagAt(s, i) <=> i - l \in 1 .. m /\ TagAt(k, i - l)
      BY <2>1, <2>6, <3>1 DEF Within, TagAt
    <3>3. \A i \in 1 .. l + m + n : TagAt(s, i) => i - l \in 1 .. m - 1
      BY <2>1, <2>6, <2>7 DEF Marked
    <3>4. \A j \in 1 .. m - 1 : j \in 1 .. m
      BY <2>1
    <3>. QED  BY ONLY <3>2, <3>3, <3>4
  <2>. DEFINE P == {j \in 1 .. Len(s) : ~TagAt(s, j) /\ (j = 1 \/ ~TagAt(s, j - 1))}
  <2>9. \A i \in 1 .. l : i \in P
    <3>. SUFFICES ASSUME NEW i \in 1 .. l PROVE i \in P
      OBVIOUS
    <3>1. i \in 1 .. l + m + n /\ i - l \notin 1 .. m - 1 /\ (i # 1 => i - 1 \in 1 .. l + m + n /\ (i - 1) - l \notin 1 .. m - 1)
      BY ONLY l \in Nat, m \in Nat, n \in Nat, i \in 1 .. l
    <3>. QED  BY <2>6, <2>8, <3>1
  <2>10. \A i \in 1 .. n : i + l + m \in P
    <3>. SUFFICES ASSUME NEW i \in 1 .. n PROVE i + l + m \in P
      OBVIOUS
    <3>1. /\ i + l + m \in 1 .. l + m + n /\ (i + l + m) - l \notin 1 .. m - 1
          /\ (i + l + m) - 1 \in 1 .. l + m + n /\ ((i + l + m) - 1) - l \notin 1 .. m - 1
      BY ONLY l \in Nat, m \in Nat \ {0}, n \in Nat, i \in 1 .. n
    <3>. QED  BY <2>6, <2>8, <3>1
  <2>11. \A i \in 1 .. m : i + l \notin P
    <3>. SUFFICES ASSUME NEW i \in 1 .. m PROVE TagAt(s, i + l) \/ (i + l # 1 /\ TagAt(s, (i + l) - 1))
      OBVIOUS
    <3>1. CASE TagAt(k, i)
      <4>1. i + l \in 1 .. l + m + n /\ (i + l) - l = i
        BY ONLY l \in Nat, m \in Nat \ {0}, n \in Nat, i \in 1 .. m
      <4>2. i \in 1 .. m - 1
        <5>1. i < m
          BY <2>1, <3>1 DEF TagAt, OpenAt, CloseAt
        <5>. QED  BY ONLY <5>1, m \in Nat, i \in 1 .. m
      <4>. QED  BY <2>8, <3>1, <4>1, <4>2
    <3>2. CASE i # 1 /\ TagAt(k, i - 1)
      <4>1. (i + l) - 1 \in 1 .. l + m + n /\ ((i + l) - 1) - l = i - 1 /\ i - 1 \in 1 .. m - 1 /\ i + l # 1
        BY ONLY l \in Nat, m \in Nat \ {0}, n \in Nat, i \in 1 .. m, <3>2
      <4>. QED  BY <2>8, <3>2, <4>1
    <3>. QED  BY <2>2, <3>1, <3>2
  <2>. HIDE DEF P
  <2>12. Keep(u \o (k \o v), P) =
           Keep(u, P) \o (Keep(k, After(P, Len(u))) \o Keep(v, After(After(P, Len(u)), Len(k))))
    BY <1>3
  <2>13. Keep(u, P) = u
    BY <2>1, <2>9, KeepAll
  <2>14. Keep(k, After(P, Len(u))) = <<>>
    <3>1. \A i \in 1 .. Len(k) : i \notin After(P, Len(u))
      BY <2>1, <2>11 DEF After
    <3>. QED  BY <3>1, KeepNothing
  <2>15. Keep(v, After(After(P, Len(u)), Len(k))) = v
    <3>1. \A i \in 1 .. n : i + m \in Nat /\ (i + m) + l = i + l + m /\ i \in Nat
      BY ONLY l \in Nat, m \in Nat, n \in Nat
    <3>2. \A i \in 1 .. n : i \in After(After(P, l), m)
      BY <2>10, <3>1 DEF After
    <3>. QED  BY <2>1, <3>2, KeepAll
  <2>16. DropTags(s) = Keep(s, P)
    BY DEF DropTags, P
  <2>17. <<>> \o v = v
    BY ConcatEmptySeq
  <2>. QED  BY ONLY <1>6, <2>6, <2>12, <2>13, <2>14, <2>15, <2>16, <2>17
<1>. QED  BY <1>7, <1>8

-----------------------------------------------------------------------------
\* While a block is not complete, the sieve holds it back.
LEMMA NotYet ==
    ASSUME NEW S, NEW b \in Seq(S), CallBlock(b), NEW h \in Seq(S), NEW e \in Seq(S), b = h \o e,
           e # <<>>, 2 <= Len(h)
    PROVE  TryConsume(h) = {} /\ ~ Malformed(h)
<1>1. PICK l \in Nat, m \in Nat : l = Len(h) /\ m = Len(b) /\ 2 <= l /\ l < m
  <2>1. Len(b) = Len(h) + Len(e) /\ Len(h) \in Nat /\ Len(e) \in Nat \ {0} /\ Len(b) \in Nat
    BY ConcatProperties, LenProperties, EmptySeq
  <2>2. Len(h) < Len(b)
    BY ONLY <2>1
  <2>. QED  BY <2>1, <2>2
<1>2. \A i \in 1 .. l : h[i] = b[i]
  <2>1. \A i \in 1 .. Len(h) + Len(e) : (h \o e)[i] = IF i <= Len(h) THEN h[i] ELSE e[i - Len(h)]
    BY ConcatProperties
  <2>2. \A i \in 1 .. l : i \in 1 .. Len(h) + Len(e) /\ i <= Len(h)
    <3>1. Len(e) \in Nat
      BY LenProperties
    <3>. QED  BY ONLY <1>1, <3>1
  <2>. QED  BY <2>1, <2>2
<1>3. PICK tags \in {Outer, Inner} :
         /\ OpenAt(b, 1, tags) /\ CloseAt(b, m - 1, tags)
         /\ \A k \in 2 .. m - 2 : TagAt(b, k) => tags = Outer /\ b[k + 1] \in Inner
  BY <1>1 DEF CallBlock
<1>4. b[3] \in {"<", "</"} \cup Calls /\ " " \notin ToSet(b)
  BY DEF CallBlock
<1>5. \A X : \A i \in 1 .. l :
         /\ OpenAt(h, i, X) <=> i < l /\ OpenAt(b, i, X)
         /\ CloseAt(h, i, X) <=> i < l /\ CloseAt(b, i, X)
  <2>. SUFFICES ASSUME NEW X, NEW i \in 1 .. l
                PROVE  /\ OpenAt(h, i, X) <=> i < l /\ OpenAt(b, i, X)
                       /\ CloseAt(h, i, X) <=> i < l /\ CloseAt(b, i, X)
    OBVIOUS
  <2>1. CASE i < l
    <3>1. i \in 1 .. l /\ i + 1 \in 1 .. l /\ i < m
      BY ONLY <1>1, <2>1, i \in 1 .. l
    <3>2. h[i] = b[i] /\ h[i + 1] = b[i + 1]
      BY <1>2, <3>1
    <3>. QED  BY <1>1, <2>1, <3>1, <3>2 DEF OpenAt, CloseAt
  <2>2. CASE ~ (i < l)
    BY <1>1, <2>2 DEF OpenAt, CloseAt
  <2>. QED  BY <2>1, <2>2
<1>6. 1 \in 1 .. l /\ OpenAt(h, 1, tags)
  <2>1. 1 \in 1 .. l /\ 1 < l
    BY ONLY <1>1
  <2>. QED  BY <1>3, <1>5, <2>1
<1>7. \A i \in 1 .. l : ~ CloseAt(h, i, tags)
  <2>. SUFFICES ASSUME NEW i \in 1 .. l, CloseAt(h, i, tags) PROVE FALSE
    OBVIOUS
  <2>1. i < l /\ CloseAt(b, i, tags)
    BY <1>5
  <2>2. i # 1
    BY <1>3, <2>1 DEF OpenAt, CloseAt
  <2>3. i \in 2 .. m - 2
    BY ONLY <1>1, <2>1, <2>2, i \in 1 .. l
  <2>4. TagAt(b, i)
    BY <2>1 DEF TagAt, CloseAt, Tags
  <2>5. tags = Outer /\ b[i + 1] \in Inner
    BY <1>3, <2>3, <2>4
  <2>. QED  BY <2>1, <2>5 DEF CloseAt, Outer, Inner
<1>8. Consumed(h, tags) = {}
  <2>1. {i \in 1 .. Len(h) : CloseAt(h, i, tags)} = {}
    BY <1>1, <1>7
  <2>. QED  BY <2>1 DEF Consumed
<1>9. TryConsume(h) = {}
  <2>1. CASE tags = Outer
    <3>1. \E i \in 1 .. Len(h) : OpenAt(h, i, Outer)
      BY <1>1, <1>6, <2>1
    <3>. QED  BY <1>8, <2>1, <3>1 DEF TryConsume
  <2>2. CASE tags = Inner
    <3>1. ~ \E i \in 1 .. Len(h) : OpenAt(h, i, Outer)
      <4>. SUFFICES ASSUME NEW i \in 1 .. l, OpenAt(h, i, Outer) PROVE FALSE
        BY <1>1
      <4>1. i < l /\ OpenAt(b, i, Outer)
        BY <1>5
      <4>2. i # 1
        BY <1>3, <2>2, <4>1 DEF OpenAt, Outer, Inner
      <4>3. i \in 2 .. m - 2
        BY ONLY <1>1, <4>1, <4>2, i \in 1 .. l
      <4>4. TagAt(b, i)
        BY <4>1 DEF TagAt, OpenAt, Tags
      <4>5. tags = Outer
        BY <1>3, <4>3, <4>4
      <4>. QED  BY <2>2, <4>5 DEF Outer, Inner
    <3>2. \E i \in 1 .. Len(h) : OpenAt(h, i, Inner)
      BY <1>1, <1>6, <2>2
    <3>. QED  BY <1>8, <2>2, <3>1, <3>2 DEF TryConsume
  <2>. QED  BY <2>1, <2>2
<1>10. ~ Malformed(h)
  <2>1. CASE l = 2
    <3>1. SubSeq(h, 3, Len(h)) = <<>>
      BY <1>1, <2>1, SubSeqEmpty
    <3>2. TrimLeft(<<>>) = <<>>
      <4>1. Solids(<<>>) = {}
        BY DEF Solids
      <4>. QED  BY <4>1 DEF TrimLeft
    <3>. QED  BY <3>1, <3>2 DEF Malformed
  <2>2. CASE l # 2
    <3>1. 2 \in 0 .. Len(h) /\ 2 + 1 = 3 /\ Len(h) - 2 \in Nat \ {0}
      BY <1>1, <2>2
    <3>2. PICK t \in Seq(S) : t = SubSeq(h, 3, Len(h)) /\ t # <<>> /\ t[1] = h[3]
      <4>1. /\ SubSeq(h, 2 + 1, Len(h)) \in Seq(S)
            /\ Len(SubSeq(h, 2 + 1, Len(h))) = Len(h) - 2
            /\ \A i \in 1 .. Len(h) - 2 : SubSeq(h, 2 + 1, Len(h))[i] = h[2 + i]
        BY <3>1, SplitAt, ZenonT(60)
      <4>2. 1 \in 1 .. Len(h) - 2
        <5>1. 1 \in 1 .. l - 2
          BY ONLY <1>1, <2>2
        <5>. QED  BY <1>1, <5>1
      <4>3. SubSeq(h, 3, Len(h)) # <<>>
        BY <3>1, <4>1, EmptySeq
      <4>. QED  BY <3>1, <4>1, <4>2, <4>3
    <3>3. 3 \in 1 .. l /\ 3 \in 1 .. m
      BY ONLY <1>1, <2>2
    <3>4. h[3] = b[3] /\ b[3] # " "
      <4>1. b[3] \in ToSet(b)
        BY <1>1, <3>3, LenProperties DEF ToSet
      <4>. QED  BY <1>2, <1>4, <3>3, <4>1
    <3>5. TrimLeft(t) = t
      BY <3>2, <3>4, TrimLeftSame
    <3>. QED  BY <1>4, <3>2, <3>4, <3>5 DEF Malformed
  <2>. QED  BY <2>1, <2>2
<1>. QED  BY <1>9, <1>10

\* When it is, all of it is a call, and what comes with its end is text.
LEMMA Consume ==
    ASSUME NEW S, NEW b \in Seq(S), CallBlock(b), NEW w \in Seq(S), Untagged(w)
    PROVE  TryConsume(b \o w) = {Result(Trim(w), ParseCalls(b))}
<1>1. PICK m \in Nat : m = Len(b) /\ 4 <= m
  BY BlockShape
<1>2. PICK n \in Nat : n = Len(w)
  BY LenProperties
<1>3. PICK s \in Seq(S) : s = b \o w
  BY ConcatProperties
<1>4. Len(s) = m + n
  BY <1>1, <1>2, <1>3, ConcatProperties
<1>5. PICK tags \in {Outer, Inner} :
         /\ OpenAt(b, 1, tags) /\ CloseAt(b, m - 1, tags)
         /\ \A k \in 2 .. m - 2 : TagAt(b, k) => tags = Outer /\ b[k + 1] \in Inner
  BY <1>1 DEF CallBlock
<1>6. <<>> \in Seq(S) /\ Len(<<>>) = 0 /\ Untagged(<<>>) /\ <<>> \o (b \o w) = b \o w /\ <<>> \o w = w /\ Closed(b)
  <2>1. <<>> \in Seq(S) /\ Len(<<>>) = 0 /\ Untagged(<<>>)
    BY EmptySeq DEF Untagged
  <2>2. <<>> \o (b \o w) = b \o w /\ <<>> \o w = w
    BY <1>3, ConcatEmptySeq
  <2>3. Closed(b)
    BY BlockShape
  <2>. QED  BY <2>1, <2>2, <2>3
<1>7. \A k \in 1 .. m + n : TagAt(s, k) => k \in 1 .. m - 1
  <2>1. Marked(<<>> \o (b \o w), b, Len(<<>>))
    BY ONLY MarkedAround, <1>6, b \in Seq(S), w \in Seq(S), Untagged(w)
  <2>2. Marked(s, b, 0)
    BY <1>3, <1>6, <2>1
  <2>. QED  BY <1>1, <1>4, <2>2 DEF Marked
<1>8. \A X : \A i \in 1 .. m - 1 :
         /\ OpenAt(s, i, X) <=> OpenAt(b, i, X)
         /\ CloseAt(s, i, X) <=> CloseAt(b, i, X)
  <2>. SUFFICES ASSUME NEW X, NEW i \in 1 .. m - 1
                PROVE  /\ OpenAt(s, i, X) <=> OpenAt(b, i, X)
                       /\ CloseAt(s, i, X) <=> CloseAt(b, i, X)
    OBVIOUS
  <2>1. i \in 1 .. Len(b) /\ i < Len(b)
    BY <1>1
  <2>. QED  BY <1>3, <2>1, TagInFirst
<1>9. /\ 1 \in 1 .. m - 1 /\ OpenAt(s, 1, tags) /\ 1 \in 1 .. Len(s)
      /\ m - 1 \in 1 .. m - 1 /\ CloseAt(s, m - 1, tags) /\ m - 1 \in 1 .. Len(s)
  <2>1. 1 \in 1 .. m - 1 /\ m - 1 \in 1 .. m - 1 /\ 1 \in 1 .. m + n /\ m - 1 \in 1 .. m + n
    BY ONLY <1>1, m \in Nat, n \in Nat
  <2>. QED  BY <1>4, <1>5, <1>8, <2>1
<1>10. PICK opens, closes : /\ opens = {i \in 1 .. Len(s) : OpenAt(s, i, tags)}
                            /\ closes = {i \in 1 .. Len(s) : CloseAt(s, i, tags)}
  OBVIOUS
<1>11. Min(opens) = 1
  <2>1. opens \in SUBSET Nat /\ 1 \in opens /\ \A i \in opens : 1 <= i /\ i \in Nat
    <3>1. opens \subseteq 1 .. m + n /\ 1 \in opens
      BY <1>4, <1>9, <1>10
    <3>2. \A i \in 1 .. m + n : i \in Nat /\ 1 <= i
      BY ONLY m \in Nat, n \in Nat
    <3>. QED  BY <3>1, <3>2
  <2>2. Min(opens) \in opens /\ Min(opens) <= 1
    BY <2>1, MinOf
  <2>3. 1 <= Min(opens) /\ Min(opens) \in Nat
    BY <2>1, <2>2
  <2>. QED  BY ONLY <2>2, <2>3
<1>12. Max(closes) = m - 1
  <2>1. m - 1 \in closes /\ closes \subseteq 1 .. m - 1
    <3>1. \A i \in closes : i \in 1 .. m + n /\ TagAt(s, i)
      <4>1. tags \subseteq Tags
        BY DEF Tags
      <4>2. \A i \in closes : i \in 1 .. m + n /\ CloseAt(s, i, tags)
        BY <1>4, <1>10
      <4>. QED  BY <4>1, <4>2 DEF CloseAt, TagAt
    <3>. QED  BY <1>7, <1>9, <1>10, <3>1
  <2>2. closes \in SUBSET (0 .. m - 1) /\ m - 1 \in Nat /\ closes # {}
    <3>1. 1 .. m - 1 \subseteq 0 .. m - 1 /\ m - 1 \in Nat
      BY ONLY <1>1, m \in Nat
    <3>. QED  BY <2>1, <3>1
  <2>3. Max(closes) \in closes /\ m - 1 <= Max(closes)
    BY <2>1, <2>2, MaxOf
  <2>4. Max(closes) \in 1 .. m - 1
    BY <2>1, <2>3
  <2>. QED  BY ONLY <1>1, <2>3, <2>4, m \in Nat
<1>13. SubSeq(s, 1, m) = b
  <2>1. m \in 0 .. Len(s)
    BY <1>1, <1>2, <1>4
  <2>2. /\ SubSeq(s, 1, m) \in Seq(S) /\ Len(SubSeq(s, 1, m)) = m
        /\ \A i \in 1 .. m : SubSeq(s, 1, m)[i] = s[i]
    BY <2>1, SplitAt
  <2>3. \A i \in 1 .. m : s[i] = b[i]
    <3>1. \A i \in 1 .. Len(b) + Len(w) : (b \o w)[i] = IF i <= Len(b) THEN b[i] ELSE w[i - Len(b)]
      BY ConcatProperties
    <3>2. \A i \in 1 .. m : i \in 1 .. m + n /\ i <= m
      BY ONLY m \in Nat, n \in Nat
    <3>. QED  BY <1>1, <1>2, <1>3, <3>1, <3>2
  <2>. QED  BY <1>1, <2>2, <2>3, SeqEqual
<1>14. Released(s, ParseCalls(b)) = Result(Trim(w), ParseCalls(b))
  <2>1. ParseCalls(b) # <<>> /\ RemoveMarkup(b) = <<>>
    BY DEF CallBlock
  <2>2. RemoveMarkup(<<>> \o (b \o w)) = <<>> \o w
    <3>1. Untagged(<<>> \o w)
      BY <1>6
    <3>. QED  BY ONLY RemoveAround, <1>6, <2>1, <3>1, b \in Seq(S), w \in Seq(S)
  <2>3. RemoveMarkup(s) = w
    BY <1>3, <1>6, <2>2
  <2>. QED  BY <2>1, <2>3 DEF Released
<1>15. Consumed(s, tags) = {Result(Trim(w), ParseCalls(b))}
  <2>1. closes # {} /\ ~ (Max(closes) < Min(opens)) /\ Max(closes) + 1 = m
    <3>1. ~ (m - 1 < 1) /\ (m - 1) + 1 = m
      BY ONLY <1>1, m \in Nat
    <3>. QED  BY <1>9, <1>10, <1>11, <1>12, <3>1
  <2>2. Consumed(s, tags) = {Released(s, ParseCalls(SubSeq(s, Min(opens), Max(closes) + 1)))}
    BY <1>10, <2>1 DEF Consumed
  <2>. QED  BY <1>11, <1>13, <1>14, <2>1, <2>2
<1>16. CASE tags = Outer
  <2>1. \E i \in 1 .. Len(s) : OpenAt(s, i, Outer)
    BY <1>9, <1>16
  <2>. QED  BY <1>3, <1>15, <1>16, <2>1 DEF TryConsume
<1>17. CASE tags = Inner
  <2>1. ~ \E i \in 1 .. Len(s) : OpenAt(s, i, Outer)
    <3>. SUFFICES ASSUME NEW i \in 1 .. m + n, OpenAt(s, i, Outer) PROVE FALSE
      BY <1>4
    <3>1. i \in 1 .. m - 1
      <4>1. TagAt(s, i)
        BY DEF TagAt, OpenAt, Tags
      <4>. QED  BY <1>7, <4>1
    <3>2. OpenAt(b, i, Outer)
      BY <1>8, <3>1
    <3>3. i # 1
      BY <1>5, <1>17, <3>2 DEF OpenAt, Outer, Inner
    <3>4. i # m - 1
      BY <1>5, <3>2 DEF OpenAt, CloseAt
    <3>5. i \in 2 .. m - 2
      BY ONLY <3>1, <3>3, <3>4, m \in Nat
    <3>6. TagAt(b, i)
      BY <3>2 DEF TagAt, OpenAt, Tags
    <3>7. tags = Outer
      BY <1>5, <3>5, <3>6
    <3>. QED  BY <1>17, <3>7 DEF Outer, Inner
  <2>2. \E i \in 1 .. Len(s) : OpenAt(s, i, Inner)
    BY <1>9, <1>17
  <2>. QED  BY <1>3, <1>15, <1>17, <2>1, <2>2 DEF TryConsume
<1>. QED  BY <1>16, <1>17

-----------------------------------------------------------------------------
(* How texts are cut, and what of it does not matter.                        *)

LEMMA CutAt ==
    ASSUME NEW S, NEW u \in Seq(S), NEW h \in Seq(S)
    PROVE  SubSeq(u \o h, 1, Len(u)) = u /\ SubSeq(u \o h, Len(u) + 1, Len(u \o h)) = h
<1>1. PICK l \in Nat, n \in Nat : l = Len(u) /\ n = Len(h)
  BY LenProperties
<1>2. PICK s \in Seq(S) : s = u \o h
  BY ConcatProperties
<1>3. Len(s) = l + n /\ \A i \in 1 .. l + n : s[i] = IF i <= l THEN u[i] ELSE h[i - l]
  <2>1. Len(u \o h) = Len(u) + Len(h)
        /\ \A i \in 1 .. Len(u) + Len(h) : (u \o h)[i] = IF i <= Len(u) THEN u[i] ELSE h[i - Len(u)]
    BY ConcatProperties
  <2>. QED  BY <1>1, <1>2, <2>1
<1>4. l \in 0 .. Len(s) /\ Len(s) - l = n
  BY ONLY <1>3, l \in Nat, n \in Nat
<1>5. /\ SubSeq(s, 1, l) \in Seq(S) /\ SubSeq(s, l + 1, Len(s)) \in Seq(S)
      /\ Len(SubSeq(s, 1, l)) = l /\ Len(SubSeq(s, l + 1, Len(s))) = Len(s) - l
      /\ \A i \in 1 .. l : SubSeq(s, 1, l)[i] = s[i]
      /\ \A i \in 1 .. Len(s) - l : SubSeq(s, l + 1, Len(s))[i] = s[l + i]
  BY <1>4, SplitAt
<1>6. SubSeq(s, 1, l) = u
  <2>1. \A i \in 1 .. l : i \in 1 .. l + n /\ i <= l
    BY ONLY l \in Nat, n \in Nat
  <2>2. \A i \in 1 .. l : SubSeq(s, 1, l)[i] = u[i]
    BY <1>3, <1>5, <2>1
  <2>. QED  BY <1>1, <1>5, <2>2, SeqEqual
<1>7. SubSeq(s, l + 1, Len(s)) = h
  <2>1. \A i \in 1 .. n : l + i \in 1 .. l + n /\ ~ (l + i <= l) /\ (l + i) - l = i
    BY ONLY l \in Nat, n \in Nat
  <2>2. \A i \in 1 .. n : SubSeq(s, l + 1, Len(s))[i] = h[i]
    BY <1>3, <1>4, <1>5, <2>1
  <2>. QED  BY <1>1, <1>4, <1>5, <2>2, SeqEqual
<1>. QED  BY <1>1, <1>2, <1>6, <1>7

LEMMA MiddlePart ==
    ASSUME NEW S, NEW u \in Seq(S), NEW b \in Seq(S), NEW v \in Seq(S)
    PROVE  \A i \in 1 .. Len(b) : (u \o (b \o v))[i + Len(u)] = b[i]
BY ThreeParts

NoWhite(s) == " " \notin ToSet(s)

LEMMA NoOverlap ==
    ASSUME NEW S, NEW u \in Seq(S), NEW b \in Seq(S), NEW v \in Seq(S), NoWhite(b), b # <<>>,
           NEW p \in Seq(S), NEW c \in Seq(S), NEW y \in Seq(S), White(c), c # <<>>,
           p \o (c \o y) = u \o (b \o v)
    PROVE  Len(p) + Len(c) <= Len(u) \/ Len(u) + Len(b) <= Len(p)
<1>1. \A i \in 1 .. Len(c) : (p \o (c \o y))[i + Len(p)] = c[i]
  BY ONLY MiddlePart, p \in Seq(S), c \in Seq(S), y \in Seq(S)
<1>2. \A i \in 1 .. Len(b) : (u \o (b \o v))[i + Len(u)] = b[i]
  BY ONLY MiddlePart, u \in Seq(S), b \in Seq(S), v \in Seq(S)
<1>3. \A i \in 1 .. Len(b) : b[i] # " "
  <2>1. \A i \in 1 .. Len(b) : b[i] \in ToSet(b)
    BY LenProperties DEF ToSet
  <2>. QED  BY <2>1 DEF NoWhite
<1>4. PICK lu \in Nat, lb \in Nat \ {0}, lp \in Nat, lc \in Nat \ {0} :
         lu = Len(u) /\ lb = Len(b) /\ lp = Len(p) /\ lc = Len(c)
  <2>1. Len(u) \in Nat /\ Len(b) \in Nat \ {0} /\ Len(p) \in Nat /\ Len(c) \in Nat \ {0}
    BY LenProperties, EmptySeq
  <2>. QED  BY <2>1
<1>5. ASSUME ~ (lp + lc <= lu), ~ (lu + lb <= lp) PROVE FALSE
  <2>1. PICK i \in 1 .. lc, j \in 1 .. lb : i + lp = j + lu
    <3>1. CASE lp <= lu
      <4>1. (lu - lp) + 1 \in 1 .. lc /\ 1 \in 1 .. lb /\ ((lu - lp) + 1) + lp = 1 + lu
        BY ONLY <1>5, <3>1, lu \in Nat, lb \in Nat \ {0}, lp \in Nat, lc \in Nat \ {0}
      <4>. QED  BY <4>1
    <3>2. CASE lu <= lp
      <4>1. 1 \in 1 .. lc /\ (lp - lu) + 1 \in 1 .. lb /\ 1 + lp = ((lp - lu) + 1) + lu
        BY ONLY <1>5, <3>2, lu \in Nat, lb \in Nat \ {0}, lp \in Nat, lc \in Nat \ {0}
      <4>. QED  BY <4>1
    <3>3. lp <= lu \/ lu <= lp
      BY ONLY lu \in Nat, lp \in Nat
    <3>. QED  BY ONLY <3>1, <3>2, <3>3
  <2>2. (p \o (c \o y))[i + lp] = c[i] /\ (u \o (b \o v))[j + lu] = b[j]
    BY ONLY <1>1, <1>2, <1>4, i \in 1 .. lc, j \in 1 .. lb
  <2>3. c[i] = " " /\ b[j] # " "
    BY ONLY White(c), <1>3, <1>4, i \in 1 .. lc, j \in 1 .. lb DEF White
  <2>. QED  BY ONLY <2>1, <2>2, <2>3, p \o (c \o y) = u \o (b \o v)
<1>. QED  BY <1>4, <1>5

-----------------------------------------------------------------------------
(* The texts of an answer, and Cat on them.                                  *)

Letters == Symbols \ {"thought", "error", "identifier", "nil"}
Clean == Seq(Letters)

LEMMA CleanNone == <<>> \in Clean /\ \A s \in Clean : Cat(s, <<>>) = s /\ Cat(<<>>, s) = s
BY EmptySeq, ConcatEmptySeq DEF Clean, Cat

LEMMA CleanCat == \A s, t \in Clean : Cat(s, t) \in Clean
BY ConcatProperties DEF Clean, Cat

LEMMA CleanAssoc == \A s, t, x \in Clean : Cat(Cat(s, t), x) = Cat(s, Cat(t, x))
BY CatAssociative DEF Clean

LEMMA CleanLen == \A s, t \in Clean : Len(s) \in Nat /\ Len(Cat(s, t)) = Len(s) + Len(t)
BY ConcatProperties, LenProperties DEF Clean, Cat

LEMMA CleanLevi ==
    ASSUME NEW s \in Clean, NEW t \in Clean, NEW x \in Clean, NEW y \in Clean,
           Cat(s, t) = Cat(x, y), Len(s) <= Len(x)
    PROVE  \E e \in Clean : x = Cat(s, e) /\ t = Cat(e, y)
BY Levi DEF Clean

LEMMA CleanSolid ==
    /\ \A s \in Clean : Solid(s) \in Clean
    /\ \A s, t \in Clean : Solid(Cat(s, t)) = Cat(Solid(s), Solid(t))
BY SolidType, SolidConcat DEF Clean, Cat

LEMMA CleanUntagged == \A s, t \in Clean : Untagged(Cat(s, t)) => Untagged(s) /\ Untagged(t)
BY UntaggedParts DEF Clean, Cat

LEMMA CleanWhite == \A s \in Clean : White(s) => Solid(s) = <<>>
BY SolidWhite DEF Clean

\* Only what is not white space counts.
LEMMA SolidDrop ==
    ASSUME NEW p \in Clean, NEW c \in Clean, NEW y \in Clean, White(c)
    PROVE  Solid(Cat(p, Cat(c, y))) = Solid(Cat(p, y))
<1>1. Solid(c) = <<>>
  BY CleanWhite
<1>2. Solid(Cat(p, Cat(c, y))) = Cat(Solid(p), Cat(Solid(c), Solid(y)))
  BY CleanSolid, CleanCat
<1>. QED  BY <1>1, <1>2, CleanSolid, CleanNone

\* White space that is taken out of a text with a block does not touch the block.
LEMMA BlockDrops ==
    ASSUME NEW u \in Clean, NEW b \in Clean, NEW v \in Clean, NoWhite(b), b # <<>>,
           NEW p \in Clean, NEW c \in Clean, NEW y \in Clean, White(c),
           Cat(p, Cat(c, y)) = Cat(u, Cat(b, v))
    PROVE  \E q, r \in Clean :
              /\ Cat(p, y) = Cat(q, Cat(b, r)) /\ Solid(Cat(q, r)) = Solid(Cat(u, v))
              /\ u = <<>> => q = <<>>
<1>1. CASE c = <<>>
  <2>1. Cat(p, y) = Cat(u, Cat(b, v))
    BY <1>1, CleanNone
  <2>. QED  BY <2>1
<1>2. CASE Len(p) + Len(c) <= Len(u)
  <2>1. Len(Cat(p, c)) <= Len(u) /\ Cat(p, c) \in Clean /\ Cat(b, v) \in Clean
    BY <1>2, CleanLen, CleanCat
  <2>2. Cat(Cat(p, c), y) = Cat(u, Cat(b, v))
    BY CleanAssoc
  <2>3. PICK e \in Clean : u = Cat(Cat(p, c), e) /\ y = Cat(e, Cat(b, v))
    BY <2>1, <2>2, CleanLevi
  <2>4. Cat(p, e) \in Clean /\ Cat(p, y) = Cat(Cat(p, e), Cat(b, v))
    BY <2>1, <2>3, CleanAssoc, CleanCat
  <2>5. Solid(u) = Solid(Cat(p, e))
    BY <2>3, CleanAssoc, SolidDrop
  <2>6. Solid(Cat(Cat(p, e), v)) = Solid(Cat(u, v))
    BY <2>4, <2>5, CleanSolid
  <2>7. u = <<>> => Cat(p, e) = <<>>
    <3>. SUFFICES ASSUME u = <<>> PROVE Cat(p, e) = <<>>
      OBVIOUS
    <3>1. Len(u) = 0 /\ Len(p) \in Nat /\ Len(c) \in Nat
      BY CleanLen
    <3>2. Len(c) = 0
      BY ONLY <1>2, <3>1
    <3>3. c = <<>>
      BY <3>2, EmptySeq DEF Clean
    <3>. QED  BY <2>3, <3>3, CleanNone
  <2>. QED  BY <2>4, <2>6, <2>7
<1>3. CASE Len(u) + Len(b) <= Len(p)
  <2>1. Len(Cat(u, b)) <= Len(p) /\ Cat(u, b) \in Clean /\ Cat(c, y) \in Clean
    BY <1>3, CleanLen, CleanCat
  <2>2. Cat(Cat(u, b), v) = Cat(p, Cat(c, y))
    BY CleanAssoc
  <2>3. PICK e \in Clean : p = Cat(Cat(u, b), e) /\ v = Cat(e, Cat(c, y))
    BY <2>1, <2>2, CleanLevi
  <2>4. Cat(e, y) \in Clean /\ Cat(p, y) = Cat(u, Cat(b, Cat(e, y)))
    BY <2>1, <2>3, CleanAssoc, CleanCat
  <2>5. Solid(v) = Solid(Cat(e, y))
    BY <2>3, SolidDrop
  <2>6. Solid(Cat(u, Cat(e, y))) = Solid(Cat(u, v))
    BY <2>4, <2>5, CleanSolid
  <2>. QED  BY <2>4, <2>6
<1>4. CASE c # <<>>
  <2>1. Len(p) + Len(c) <= Len(u) \/ Len(u) + Len(b) <= Len(p)
    BY <1>4, NoOverlap DEF Clean, Cat
  <2>. QED  BY <1>2, <1>3, <2>1
<1>. QED  BY <1>1, <1>4

-----------------------------------------------------------------------------
(* How far an answer has been told: told and calls have gone out, x is to    *)
(* come.  Exact asks that it be told to the letter.                          *)

Block(b, whole) == CallBlock(b) /\ ParseCalls(b) = ParseCalls(whole)

\* There is no markup in what is to come.
Free(whole, exact, told, calls, x) ==
    /\ calls = ParseCalls(whole) /\ Untagged(Solid(x))
    /\ Solid(Cat(told, x)) = Solid(RemoveMarkup(whole))
    /\ exact => Cat(told, x) = whole

\* A block is to come.
Ahead(whole, exact, told, calls, x) ==
    /\ ~ exact /\ calls = <<>>
    /\ \E u, b, v \in Clean :
          /\ x = Cat(u, Cat(b, v)) /\ Block(b, whole) /\ Untagged(Solid(Cat(u, v)))
          /\ Solid(Cat(told, Cat(u, v))) = Solid(RemoveMarkup(whole))

\* It begins with the block.
Captured(whole, exact, told, calls, x) ==
    /\ ~ exact /\ calls = <<>>
    /\ \E b, v \in Clean :
          /\ x = Cat(b, v) /\ Block(b, whole) /\ Untagged(Solid(v))
          /\ Solid(Cat(told, v)) = Solid(RemoveMarkup(whole))

Idle(q) == [pending |-> q, capturing |-> FALSE, capture |-> <<>>]
Busy(h) == [pending |-> <<>>, capturing |-> TRUE, capture |-> h]

\* The same with what the sieve holds back.
Streaming(whole, exact, told, calls, stream, rest) ==
    \/ \E q \in Clean :
          /\ stream = Idle(q) /\ q \in {<<>>, <<"<">>}
          /\ \/ Free(whole, exact, told, calls, Cat(q, rest))
             \/ Ahead(whole, exact, told, calls, Cat(q, rest))
    \/ \E h \in Clean :
          stream = Busy(h) /\ 2 <= Len(h) /\ Captured(whole, exact, told, calls, Cat(h, rest))

LEMMA BlockFacts ==
    ASSUME NEW b \in Clean, NEW whole, Block(b, whole)
    PROVE  /\ Len(b) \in Nat /\ 4 <= Len(b) /\ b # <<>> /\ NoWhite(b)
           /\ b[1] = "<" /\ b[2] \in Tags /\ Closed(b)
           /\ CallBlock(b) /\ RemoveMarkup(b) = <<>> /\ ParseCalls(b) = ParseCalls(whole) /\ ParseCalls(b) # <<>>
<1>1. CallBlock(b) /\ ParseCalls(b) = ParseCalls(whole)
  BY DEF Block
<1>2. NoWhite(b) /\ RemoveMarkup(b) = <<>> /\ ParseCalls(b) # <<>>
  BY <1>1 DEF CallBlock, NoWhite
<1>3. /\ Len(b) \in Nat /\ 4 <= Len(b) /\ b[1] = "<" /\ b[2] \in Tags
      /\ Closed(b)
  BY <1>1, BlockShape DEF Clean
<1>4. b # <<>>
  BY <1>3 DEF Closed
<1>. QED  BY <1>1, <1>2, <1>3, <1>4

LEMMA BlockLong ==
    ASSUME NEW u \in Clean, NEW b \in Clean, NEW v \in Clean, NEW whole, Block(b, whole)
    PROVE  4 <= Len(Cat(u, Cat(b, v)))
<1>1. PICK x \in Nat, y \in Nat, z \in Nat : x = Len(u) /\ y = Len(b) /\ z = Len(v) /\ 4 <= y
  BY CleanLen, BlockFacts
<1>2. PICK t \in Clean : t = Cat(b, v) /\ Len(t) = y + z
  BY <1>1, CleanLen, CleanCat
<1>3. Len(Cat(u, t)) = x + (y + z)
  BY <1>1, <1>2, CleanLen
<1>4. 4 <= x + (y + z)
  BY ONLY <1>1, x \in Nat, y \in Nat, z \in Nat
<1>. QED  BY <1>2, <1>3, <1>4

LEMMA CleanUntaggedSolid == \A s \in Clean : Untagged(Solid(s)) => Untagged(s)
BY UntaggedSolid DEF Clean

LEMMA FreeMoves ==
    ASSUME NEW whole, NEW exact, NEW calls, NEW told \in Clean, NEW p \in Clean, NEW y \in Clean,
           Free(whole, exact, told, calls, Cat(p, y))
    PROVE  Free(whole, exact, Cat(told, p), calls, y) /\ Untagged(p)
<1>1. Untagged(Cat(Solid(p), Solid(y))) /\ Solid(p) \in Clean /\ Solid(y) \in Clean
  BY CleanSolid DEF Free
<1>2. Untagged(Solid(p)) /\ Untagged(Solid(y))
  BY <1>1, CleanUntagged
<1>3. Untagged(p)
  BY <1>2, CleanUntaggedSolid
<1>4. Cat(Cat(told, p), y) = Cat(told, Cat(p, y))
  BY CleanAssoc
<1>. QED  BY <1>2, <1>3, <1>4 DEF Free

\* Some of the text before the block goes out.
LEMMA AheadMoves ==
    ASSUME NEW whole, NEW exact, ~ exact, NEW told \in Clean, NEW p \in Clean, NEW e \in Clean,
           NEW b \in Clean, NEW v \in Clean, Block(b, whole), Untagged(Solid(Cat(Cat(p, e), v))),
           Solid(Cat(told, Cat(Cat(p, e), v))) = Solid(RemoveMarkup(whole))
    PROVE  Ahead(whole, exact, Cat(told, p), <<>>, Cat(e, Cat(b, v))) /\ Untagged(p)
<1>1. Cat(Cat(p, e), v) = Cat(p, Cat(e, v)) /\ Cat(e, v) \in Clean
  BY CleanAssoc, CleanCat
<1>2. Untagged(Cat(Solid(p), Solid(Cat(e, v)))) /\ Solid(p) \in Clean /\ Solid(Cat(e, v)) \in Clean
  BY <1>1, CleanSolid
<1>3. Untagged(Solid(p)) /\ Untagged(Solid(Cat(e, v)))
  BY <1>2, CleanUntagged
<1>4. Cat(Cat(told, p), Cat(e, v)) = Cat(told, Cat(p, Cat(e, v)))
  BY <1>1, CleanAssoc
<1>5. Untagged(p)
  BY <1>3, CleanUntaggedSolid
<1>6. Solid(Cat(Cat(told, p), Cat(e, v))) = Solid(RemoveMarkup(whole))
  BY <1>1, <1>4
<1>. QED  BY <1>3, <1>5, <1>6 DEF Ahead

-----------------------------------------------------------------------------
(* What the sieve does.                                                      *)

LEMMA NewIdle == NewStream = Idle(<<>>)
BY DEF NewStream, Idle

LEMMA PendingIdle == ASSUME NEW q PROVE [NewStream EXCEPT !.pending = q] = Idle(q)
<1>. DEFINE s == [NewStream EXCEPT !.pending = q]
            t == Idle(q)
            fields == {"pending", "capturing", "capture"}
<1>1. DOMAIN s = fields /\ DOMAIN t = fields
  BY DEF NewStream, Idle
<1>2. s["pending"] = q /\ s["capturing"] = FALSE /\ s["capture"] = <<>>
  BY DEF NewStream
<1>3. t["pending"] = q /\ t["capturing"] = FALSE /\ t["capture"] = <<>>
  BY DEF Idle
<1>4. s = [x \in DOMAIN s |-> s[x]] /\ t = [x \in DOMAIN t |-> t[x]]
  BY DEF NewStream, Idle
<1>5. s = t
  <2>. HIDE DEF s, t
  <2>1. \A x \in DOMAIN s : s[x] = t[x]
    BY <1>1, <1>2, <1>3, Zenon
  <2>2. s = [x \in DOMAIN t |-> t[x]]
    BY <1>1, <1>4, <2>1, Zenon
  <2>. QED  BY <1>4, <2>2
<1>. QED  BY <1>5

LEMMA ProcessIdle ==
    ASSUME NEW q, NEW c
    PROVE  ProcessStreamChunk(Idle(q), c)
              = Passing(Cat(q, c), FirstMarker(Cat(q, c)), Len(Cat(q, c)) - Held(Cat(q, c)))
BY DEF ProcessStreamChunk, Idle, Cat

LEMMA ProcessBusy ==
    ASSUME NEW h, NEW c \in Clean
    PROVE  ProcessStreamChunk(Busy(h), c) = Capturing(Cat(h, c), TryConsume(Cat(h, c)))
<1>1. <<>> \o c = c
  BY ConcatEmptySeq DEF Clean
<1>2. Busy(h).pending = <<>> /\ Busy(h).capturing /\ Busy(h).capture = h
  BY DEF Busy
<1>. QED  BY <1>1, <1>2 DEF ProcessStreamChunk, Cat

LEMMA NoMarker ==
    ASSUME NEW s, Untagged(s)
    PROVE  FirstMarker(s) = 0
BY DEF Untagged, TagAt, FirstMarker

LEMMA MarkerAt ==
    ASSUME NEW u \in Clean, Untagged(u), NEW h \in Clean, OpenAt(h, 1, Tags)
    PROVE  FirstMarker(Cat(u, h)) = Len(u) + 1
<1>1. PICK l \in Nat, n \in Nat : l = Len(u) /\ n = Len(h)
  BY CleanLen
<1>2. 1 \in 1 .. n /\ h[1] \notin Tags
  <2>1. 1 < n /\ h[1] = "<"
    BY <1>1 DEF OpenAt
  <2>. QED  BY <1>1, <2>1 DEF Tags, Outer, Inner
<1>3. PICK s : s = Cat(u, h) /\ Len(s) = l + n
  BY <1>1, CleanLen
<1>4. OpenAt(s, l + 1, Tags)
  <2>1. OpenAt(u \o h, Len(u) + 1, Tags) <=> OpenAt(h, 1, Tags)
    BY <1>1, <1>2, TagInSecond DEF Clean
  <2>. QED  BY <1>1, <1>3, <2>1 DEF Cat
<1>5. ASSUME NEW i \in 1 .. l + n, OpenAt(s, i, Tags) PROVE l + 1 <= i
  <2>1. ~ (i < l)
    <3>. SUFFICES ASSUME i < l PROVE FALSE
      OBVIOUS
    <3>1. i \in 1 .. Len(u) /\ i < Len(u)
      BY <1>1
    <3>2. OpenAt(u \o h, i, Tags) <=> OpenAt(u, i, Tags)
      BY <3>1, TagInFirst DEF Clean
    <3>3. OpenAt(u, i, Tags)
      BY <1>3, <1>5, <3>2 DEF Cat
    <3>. QED  BY <3>1, <3>3 DEF Untagged, TagAt
  <2>2. i # l
    <3>. SUFFICES ASSUME i = l PROVE FALSE
      OBVIOUS
    <3>1. l # 0
      BY i = l
    <3>2. u # <<>>
      BY <1>1, <3>1, EmptySeq
    <3>3. TagAt(u \o h, Len(u))
      BY <1>1, <1>3, <1>5 DEF Cat, TagAt
    <3>4. h[1] \in Tags
      BY <3>2, <3>3, TagBetween DEF Clean
    <3>. QED  BY <1>2, <3>4
  <2>. QED  BY <2>1, <2>2
<1>6. PICK marks : marks = {i \in 1 .. Len(s) : OpenAt(s, i, Tags)}
  OBVIOUS
<1>7. marks \in SUBSET Nat /\ l + 1 \in marks /\ \A i \in marks : l + 1 <= i /\ i \in Nat
  <2>1. l + 1 \in 1 .. l + n
    BY ONLY <1>2, l \in Nat, n \in Nat
  <2>2. marks \subseteq 1 .. l + n
    BY <1>3, <1>6
  <2>. QED  BY <1>3, <1>4, <1>5, <1>6, <2>1, <2>2
<1>8. Min(marks) \in marks /\ Min(marks) <= l + 1
  BY <1>7, MinOf
<1>9. Min(marks) = l + 1
  <2>1. l + 1 <= Min(marks) /\ Min(marks) \in Nat
    BY <1>7, <1>8
  <2>. QED  BY ONLY <1>8, <2>1, l \in Nat
<1>. QED  BY <1>1, <1>3, <1>6, <1>7, <1>9 DEF FirstMarker

LEMMA OneLong ==
    ASSUME NEW S, NEW s \in Seq(S), Len(s) = 1
    PROVE  s = <<s[1]>>
<1>1. s[1] \in S
  BY ElementOfSeq
<1>2. <<s[1]>> \in Seq(S) /\ Len(<<s[1]>>) = 1 /\ <<s[1]>>[1] = s[1]
  BY <1>1
<1>3. \A i \in 1 .. 1 : i = 1
  OBVIOUS
<1>. QED  BY ONLY SeqEqual, <1>2, <1>3, Len(s) = 1, s \in Seq(S)

\* A text without an opening tag goes out, but for a less-than sign at its end.
LEMMA Passes ==
    ASSUME NEW s \in Clean, FirstMarker(s) = 0
    PROVE  \E p, q \in Clean :
              /\ s = Cat(p, q) /\ q \in {<<>>, <<"<">>}
              /\ q = <<>> /\ s # <<>> => s[Len(s)] # "<"
              /\ Passing(s, FirstMarker(s), Len(s) - Held(s)) = Step(Idle(q), Result(p, <<>>))
<1>1. PICK l \in Nat : l = Len(s)
  BY CleanLen
<1>2. PICK k \in 0 .. l : k = l - Held(s) /\ (k = l \/ k = l - 1)
  <2>1. CASE s # <<>> /\ s[Len(s)] = "<"
    <3>1. Held(s) = 1 /\ l # 0
      BY <1>1, <2>1, EmptySeq DEF Held, Clean
    <3>. QED  BY <3>1
  <2>2. CASE ~ (s # <<>> /\ s[Len(s)] = "<")
    <3>1. Held(s) = 0
      BY <2>2 DEF Held
    <3>. QED  BY <3>1
  <2>. QED  BY <2>1, <2>2
<1>3. PICK p, q : p = SubSeq(s, 1, k) /\ q = SubSeq(s, k + 1, Len(s))
  OBVIOUS
<1>4. /\ p \in Clean /\ q \in Clean /\ s = Cat(p, q)
      /\ Len(q) = l - k /\ \A i \in 1 .. l - k : q[i] = s[k + i]
  <2>1. k \in 0 .. Len(s) /\ s \in Seq(Letters)
    BY <1>1 DEF Clean
  <2>2. /\ SubSeq(s, 1, k) \in Seq(Letters) /\ SubSeq(s, k + 1, Len(s)) \in Seq(Letters)
        /\ Len(SubSeq(s, k + 1, Len(s))) = Len(s) - k
        /\ \A i \in 1 .. Len(s) - k : SubSeq(s, k + 1, Len(s))[i] = s[k + i]
        /\ s = SubSeq(s, 1, k) \o SubSeq(s, k + 1, Len(s))
    BY <2>1, SplitAt, ZenonT(30)
  <2>. QED  BY <1>1, <1>3, <2>2 DEF Clean, Cat
<1>5. q \in {<<>>, <<"<">>} /\ (q = <<>> /\ s # <<>> => s[Len(s)] # "<")
  <2>1. CASE s # <<>> /\ s[Len(s)] = "<"
    <3>1. Held(s) = 1 /\ l # 0
      BY <1>1, <2>1, EmptySeq DEF Held, Clean
    <3>2. k = l - 1 /\ l - k = 1 /\ k + 1 = l /\ 1 \in 1 .. 1
      BY ONLY <1>2, <3>1, l \in Nat
    <3>3. Len(q) = 1 /\ q[1] = s[l]
      BY <1>4, <3>2
    <3>4. q = <<"<">>
      BY <1>1, <1>4, <2>1, <3>3, OneLong DEF Clean
    <3>5. q # <<>>
      BY <3>3
    <3>. QED  BY <3>4, <3>5
  <2>2. CASE ~ (s # <<>> /\ s[Len(s)] = "<")
    <3>1. Held(s) = 0
      BY <2>2 DEF Held
    <3>2. l - k = 0
      BY ONLY <1>2, <3>1, l \in Nat
    <3>3. q = <<>>
      BY <1>4, <3>2, EmptySeq DEF Clean
    <3>. QED  BY <2>2, <3>3
  <2>. QED  BY <2>1, <2>2
<1>6. Passing(s, FirstMarker(s), Len(s) - Held(s)) = Step(Idle(q), Result(p, <<>>))
  <2>1. ~ (FirstMarker(s) > 0) /\ Len(s) - Held(s) = k
    BY <1>1, <1>2
  <2>2. [NewStream EXCEPT !.pending = q] = Idle(q)
    BY PendingIdle
  <2>. QED  BY <1>3, <2>1, <2>2 DEF Passing
<1>. QED  BY <1>4, <1>5, <1>6

-----------------------------------------------------------------------------
(* A chunk in the sieve: the answer remains told, as far as it is known.     *)

Goes(whole, exact, told, calls, step, rest) ==
    /\ step.out.content \in Clean /\ Untagged(step.out.content) /\ step.out.calls \in Seq(Calls)
    /\ Streaming(whole, exact, Cat(told, step.out.content), Cat(calls, step.out.calls), step.state, rest)

LEMMA CallsCat == \A k \in Seq(Calls) : Cat(k, <<>>) = k /\ Cat(<<>>, k) = k
BY ConcatEmptySeq DEF Cat

LEMMA StepFields ==
    ASSUME NEW stream, NEW content, NEW calls
    PROVE  /\ Step(stream, Result(content, calls)).state = stream
           /\ Step(stream, Result(content, calls)).out.content = content
           /\ Step(stream, Result(content, calls)).out.calls = calls
BY DEF Step, Result

\* Text goes out, without calls.
LEMMA GoesOn ==
    ASSUME NEW whole, NEW exact, NEW told, NEW k \in Seq(Calls), NEW stream, NEW p \in Clean, NEW rest,
           Untagged(p), Streaming(whole, exact, Cat(told, p), k, stream, rest)
    PROVE  Goes(whole, exact, told, k, Step(stream, Result(p, <<>>)), rest)
<1>1. <<>> \in Seq(Calls) /\ Cat(k, <<>>) = k
  BY CallsCat, EmptySeq
<1>2. PICK st : st = Step(stream, Result(p, <<>>))
  OBVIOUS
<1>3. st.state = stream /\ st.out.content = p /\ st.out.calls = <<>>
  BY <1>2, StepFields
<1>4. Goes(whole, exact, told, k, st, rest)
  BY <1>1, <1>3 DEF Goes
<1>. QED  BY <1>2, <1>4

LEMMA IdleFree ==
    ASSUME NEW whole, NEW exact, NEW told \in Clean, NEW k \in Seq(Calls), NEW q \in Clean,
           NEW c \in Clean, NEW rest \in Clean, Free(whole, exact, told, k, Cat(q, Cat(c, rest)))
    PROVE  Goes(whole, exact, told, k, ProcessStreamChunk(Idle(q), c), rest)
<1>1. PICK s \in Clean : s = Cat(q, c) /\ Cat(q, Cat(c, rest)) = Cat(s, rest)
  BY CleanCat, CleanAssoc
<1>2. Free(whole, exact, told, k, Cat(s, rest))
  BY <1>1
<1>3. Untagged(s)
  BY <1>2, FreeMoves
<1>4. PICK p \in Clean, r \in Clean :
        /\ s = Cat(p, r) /\ r \in {<<>>, <<"<">>}
        /\ Passing(s, FirstMarker(s), Len(s) - Held(s)) = Step(Idle(r), Result(p, <<>>))
  BY <1>3, NoMarker, Passes
<1>5. Cat(s, rest) = Cat(p, Cat(r, rest)) /\ Cat(r, rest) \in Clean
  BY <1>4, CleanAssoc, CleanCat
<1>6. Free(whole, exact, Cat(told, p), k, Cat(r, rest)) /\ Untagged(p)
  BY <1>2, <1>5, FreeMoves
<1>7. Streaming(whole, exact, Cat(told, p), k, Idle(r), rest)
  BY <1>4, <1>6 DEF Streaming
<1>8. Goes(whole, exact, told, k, Step(Idle(r), Result(p, <<>>)), rest)
  BY <1>6, <1>7, GoesOn
<1>. QED  BY <1>1, <1>4, <1>8, ProcessIdle

LEMMA FirstOf ==
    ASSUME NEW s \in Clean, NEW t \in Clean, NEW x \in Clean, NEW y \in Clean, Cat(s, t) = Cat(x, y),
           NEW n \in Nat, 1 <= n, n <= Len(s), n <= Len(x)
    PROVE  s[n] = x[n]
<1>1. Cat(s, t)[n] = s[n]
  BY ConcatProperties, LenProperties DEF Cat, Clean
<1>2. Cat(x, y)[n] = x[n]
  BY ConcatProperties, LenProperties DEF Cat, Clean
<1>. QED  BY <1>1, <1>2

LEMMA LastOf ==
    ASSUME NEW s \in Clean, NEW t \in Clean, Len(t) = 1
    PROVE  Cat(s, t)[Len(Cat(s, t))] = t[1]
<1>1. Len(s) \in Nat /\ Len(Cat(s, t)) = Len(s) + 1
  BY CleanLen
<1>. QED  BY <1>1, ConcatProperties DEF Cat, Clean

LEMMA CleanCancel ==
    ASSUME NEW s \in Clean, NEW t \in Clean, NEW x \in Clean, Cat(s, x) = Cat(t, x)
    PROVE  s = t
<1>1. PICK l, m \in Nat : l = Len(s) /\ m = Len(t)
  BY CleanLen
<1>2. l = m
  BY <1>1, CleanLen
<1>3. ASSUME NEW i \in 1 .. Len(s) PROVE s[i] = t[i]
  <2>1. i \in Nat /\ 1 <= i /\ i <= Len(s) /\ i <= Len(t)
    BY <1>1, <1>2
  <2>. QED  BY <2>1, FirstOf
<1>. QED  BY <1>1, <1>2, <1>3, SeqEqual DEF Clean

\* A less-than sign after a text without a tag is not one yet.
LEMMA UntaggedLess ==
    ASSUME NEW u \in Clean, Untagged(u), NEW e \in Clean, Len(e) = 1, e[1] = "<"
    PROVE  Untagged(Cat(u, e))
<1>1. Untagged(e)
  BY DEF Untagged, TagAt, OpenAt, CloseAt
<1>2. e[1] \notin Tags
  BY DEF Tags, Outer, Inner
<1>. QED  BY <1>1, <1>2, UntaggedConcat DEF Clean, Cat

\* The text ends before the block begins, or with its first symbol.
LEMMA IdleBefore ==
    ASSUME NEW whole, NEW exact, ~ exact, NEW told \in Clean, NEW s \in Clean, NEW rest \in Clean,
           NEW u \in Clean, NEW b \in Clean, NEW v \in Clean, Block(b, whole),
           Untagged(Solid(Cat(u, v))), Solid(Cat(told, Cat(u, v))) = Solid(RemoveMarkup(whole)),
           Cat(s, rest) = Cat(u, Cat(b, v)), Len(s) <= Len(u) + 1
    PROVE  Goes(whole, exact, told, <<>>, Passing(s, FirstMarker(s), Len(s) - Held(s)), rest)
<1>1. Untagged(u) /\ Cat(b, v) \in Clean
  <2>1. Untagged(Cat(Solid(u), Solid(v))) /\ Solid(u) \in Clean /\ Solid(v) \in Clean
    BY CleanSolid
  <2>. QED  BY <2>1, CleanUntagged, CleanUntaggedSolid, CleanCat
<1>2. PICK l \in Nat, n \in Nat : l = Len(u) /\ n = Len(s)
  BY CleanLen
<1>3. \E p, r, e \in Clean :
         /\ r \in {<<>>, <<"<">>} /\ u = Cat(p, e) /\ Cat(r, rest) = Cat(e, Cat(b, v))
         /\ Passing(s, FirstMarker(s), Len(s) - Held(s)) = Step(Idle(r), Result(p, <<>>))
  <2>1. CASE n <= l
    <3>1. PICK e \in Clean : u = Cat(s, e) /\ rest = Cat(e, Cat(b, v))
      BY <1>1, <1>2, <2>1, CleanLevi
    <3>2. Untagged(s)
      BY <1>1, <3>1, CleanUntagged
    <3>3. PICK p \in Clean, r \in Clean :
            /\ s = Cat(p, r) /\ r \in {<<>>, <<"<">>}
            /\ Passing(s, FirstMarker(s), Len(s) - Held(s)) = Step(Idle(r), Result(p, <<>>))
      BY <3>2, NoMarker, Passes
    <3>4. u = Cat(p, Cat(r, e)) /\ Cat(r, rest) = Cat(Cat(r, e), Cat(b, v)) /\ Cat(r, e) \in Clean
      BY <1>1, <3>1, <3>3, CleanAssoc, CleanCat
    <3>. QED  BY <3>3, <3>4
  <2>2. CASE n = l + 1
    <3>1. PICK e \in Clean : s = Cat(u, e) /\ Cat(b, v) = Cat(e, rest)
      <4>1. Len(u) <= Len(s)
        BY <1>2, <2>2
      <4>. QED  BY <1>1, <4>1, CleanLevi
    <3>2. Len(e) = 1
      <4>1. PICK m \in Nat : m = Len(e) /\ n = l + m
        BY <1>2, <3>1, CleanLen
      <4>2. m = 1
        BY ONLY <2>2, <4>1, l \in Nat, m \in Nat
      <4>. QED  BY <4>1, <4>2
    <3>3. e[1] = "<"
      <4>1. Len(b) \in Nat /\ 4 <= Len(b) /\ b[1] = "<"
        BY BlockFacts
      <4>2. 1 <= Len(b) /\ 1 <= Len(e) /\ 1 <= 1 /\ 1 \in Nat
        BY <3>2, <4>1
      <4>. QED  BY <3>1, <4>1, <4>2, FirstOf
    <3>4. Untagged(s)
      BY <1>1, <3>1, <3>2, <3>3, UntaggedLess
    <3>5. PICK p \in Clean, r \in Clean :
            /\ s = Cat(p, r) /\ r \in {<<>>, <<"<">>}
            /\ r = <<>> /\ s # <<>> => s[Len(s)] # "<"
            /\ Passing(s, FirstMarker(s), Len(s) - Held(s)) = Step(Idle(r), Result(p, <<>>))
      BY <3>4, NoMarker, Passes
    <3>6. s[Len(s)] = "<" /\ s # <<>>
      <4>1. s[Len(s)] = "<"
        BY <3>1, <3>2, <3>3, LastOf
      <4>2. n # 0
        BY ONLY <2>2, l \in Nat
      <4>. QED  BY <1>2, <4>1, <4>2, EmptySeq
    <3>7. r = <<"<">>
      BY <3>5, <3>6
    <3>8. e = <<"<">>
      BY <3>2, <3>3, OneLong DEF Clean
    <3>9. p = u
      <4>1. Cat(p, r) = Cat(u, e) /\ r = e
        BY <3>1, <3>5, <3>7, <3>8, Zenon
      <4>2. Cat(p, e) = Cat(u, e)
        BY ONLY <4>1, Zenon
      <4>. QED  BY ONLY <4>2, CleanCancel, p \in Clean, u \in Clean, e \in Clean, Zenon
    <3>10. u = Cat(p, <<>>) /\ Cat(r, rest) = Cat(<<>>, Cat(b, v)) /\ <<>> \in Clean
      BY <1>1, <3>1, <3>7, <3>8, <3>9, CleanNone
    <3>. QED  BY <3>5, <3>10
  <2>. QED  BY <1>2, <2>1, <2>2
<1>4. PICK p \in Clean, r \in Clean, e \in Clean :
         /\ r \in {<<>>, <<"<">>} /\ u = Cat(p, e) /\ Cat(r, rest) = Cat(e, Cat(b, v))
         /\ Passing(s, FirstMarker(s), Len(s) - Held(s)) = Step(Idle(r), Result(p, <<>>))
  BY <1>3
<1>5. Ahead(whole, exact, Cat(told, p), <<>>, Cat(e, Cat(b, v))) /\ Untagged(p)
  <2>1. /\ Untagged(Solid(Cat(Cat(p, e), v)))
        /\ Solid(Cat(told, Cat(Cat(p, e), v))) = Solid(RemoveMarkup(whole))
    BY <1>4
  <2>. QED  BY <2>1, AheadMoves
<1>6. Streaming(whole, exact, Cat(told, p), <<>>, Idle(r), rest)
  BY <1>4, <1>5 DEF Streaming
<1>7. <<>> \in Seq(Calls)
  BY EmptySeq
<1>. QED  BY <1>4, <1>5, <1>6, <1>7, GoesOn

LEMMA ParseType == \A s \in Clean : ParseCalls(s) \in Seq(Calls)
BY ParseCallsType DEF Clean

\* The text goes beyond the beginning of the block.
LEMMA IdleInto ==
    ASSUME NEW whole, NEW exact, ~ exact, NEW told \in Clean, NEW s \in Clean, NEW rest \in Clean,
           NEW u \in Clean, NEW b \in Clean, NEW v \in Clean, Block(b, whole),
           Untagged(Solid(Cat(u, v))), Solid(Cat(told, Cat(u, v))) = Solid(RemoveMarkup(whole)),
           Cat(s, rest) = Cat(u, Cat(b, v)), Len(u) + 2 <= Len(s)
    PROVE  Goes(whole, exact, told, <<>>, Passing(s, FirstMarker(s), Len(s) - Held(s)), rest)
<1>1. Untagged(u) /\ Untagged(Solid(v)) /\ Cat(b, v) \in Clean
  <2>1. Untagged(Cat(Solid(u), Solid(v))) /\ Solid(u) \in Clean /\ Solid(v) \in Clean
    BY CleanSolid
  <2>. QED  BY <2>1, CleanUntagged, CleanUntaggedSolid, CleanCat
<1>2. PICK l \in Nat, n \in Nat : l = Len(u) /\ n = Len(s)
  BY CleanLen
<1>3. l <= n
  BY <1>2
<1>4. PICK h \in Clean : s = Cat(u, h) /\ Cat(b, v) = Cat(h, rest)
  BY <1>1, <1>2, <1>3, CleanLevi
<1>5. PICK m \in Nat : m = Len(h) /\ n = l + m
  BY <1>2, <1>4, CleanLen
<1>6. 2 <= m /\ n # 0
  <2>1. l + 2 <= n
    BY <1>2
  <2>. QED  BY ONLY <1>5, <2>1, l \in Nat, m \in Nat
<1>7. OpenAt(h, 1, Tags)
  <2>1. Len(b) \in Nat /\ 4 <= Len(b) /\ b[1] = "<" /\ b[2] \in Tags
    BY BlockFacts
  <2>2. b[1] = h[1]
    BY <1>4, <1>5, <1>6, <2>1, FirstOf
  <2>3. b[2] = h[2]
    BY <1>4, <1>5, <1>6, <2>1, FirstOf
  <2>4. 1 < Len(h)
    BY <1>5, <1>6
  <2>. QED  BY <2>1, <2>2, <2>3, <2>4 DEF OpenAt
<1>8. FirstMarker(s) = l + 1 /\ SubSeq(s, 1, l) = u /\ SubSeq(s, l + 1, Len(s)) = h
  <2>1. FirstMarker(s) = l + 1
    BY <1>1, <1>2, <1>4, <1>7, MarkerAt
  <2>2. SubSeq(u \o h, 1, Len(u)) = u /\ SubSeq(u \o h, Len(u) + 1, Len(u \o h)) = h
    BY CutAt DEF Clean
  <2>. QED  BY <1>2, <1>4, <2>1, <2>2 DEF Cat
<1>9. Passing(s, FirstMarker(s), Len(s) - Held(s)) = Step(Busy(h), Result(u, <<>>))
  <2>1. FirstMarker(s) > 0 /\ FirstMarker(s) - 1 = l
    BY <1>8
  <2>. QED  BY <1>8, <2>1 DEF Passing, Busy
<1>10. Captured(whole, exact, Cat(told, u), <<>>, Cat(h, rest))
  <2>1. Solid(Cat(Cat(told, u), v)) = Solid(RemoveMarkup(whole))
    BY CleanAssoc
  <2>2. Cat(h, rest) = Cat(b, v)
    BY <1>4
  <2>. QED  BY <1>1, <2>1, <2>2 DEF Captured
<1>11. Streaming(whole, exact, Cat(told, u), <<>>, Busy(h), rest)
  BY <1>5, <1>6, <1>10 DEF Streaming
<1>12. <<>> \in Seq(Calls)
  BY EmptySeq
<1>. QED  BY <1>1, <1>9, <1>11, <1>12, GoesOn

LEMMA IdleAhead ==
    ASSUME NEW whole, NEW exact, NEW told \in Clean, NEW k, NEW q \in Clean,
           NEW c \in Clean, NEW rest \in Clean, Ahead(whole, exact, told, k, Cat(q, Cat(c, rest)))
    PROVE  Goes(whole, exact, told, k, ProcessStreamChunk(Idle(q), c), rest)
<1>1. PICK s \in Clean : s = Cat(q, c) /\ Cat(q, Cat(c, rest)) = Cat(s, rest)
  BY CleanCat, CleanAssoc
<1>2. ~ exact /\ k = <<>>
  BY DEF Ahead
<1>3. PICK u \in Clean, b \in Clean, v \in Clean :
        /\ Cat(s, rest) = Cat(u, Cat(b, v)) /\ Block(b, whole) /\ Untagged(Solid(Cat(u, v)))
        /\ Solid(Cat(told, Cat(u, v))) = Solid(RemoveMarkup(whole))
  BY <1>1 DEF Ahead
<1>4. Len(s) <= Len(u) + 1 \/ Len(u) + 2 <= Len(s)
  <2>1. PICK l \in Nat, n \in Nat : l = Len(u) /\ n = Len(s)
    BY CleanLen
  <2>2. n <= l + 1 \/ l + 2 <= n
    BY ONLY l \in Nat, n \in Nat
  <2>. QED  BY <2>1, <2>2
<1>5. Goes(whole, exact, told, <<>>, Passing(s, FirstMarker(s), Len(s) - Held(s)), rest)
  BY <1>2, <1>3, <1>4, IdleBefore, IdleInto
<1>. QED  BY <1>1, <1>2, <1>5, ProcessIdle

\* A block that is held back goes on, or ends.
LEMMA BusyMoves ==
    ASSUME NEW whole, NEW exact, NEW told \in Clean, NEW k, NEW h \in Clean, 2 <= Len(h),
           NEW c \in Clean, NEW rest \in Clean, Captured(whole, exact, told, k, Cat(h, Cat(c, rest)))
    PROVE  Goes(whole, exact, told, k, ProcessStreamChunk(Busy(h), c), rest)
<1>1. PICK s \in Clean : s = Cat(h, c) /\ Cat(h, Cat(c, rest)) = Cat(s, rest)
  BY CleanCat, CleanAssoc
<1>2. ~ exact /\ k = <<>>
  BY DEF Captured
<1>3. PICK b \in Clean, v \in Clean :
        /\ Cat(s, rest) = Cat(b, v) /\ Block(b, whole) /\ Untagged(Solid(v))
        /\ Solid(Cat(told, v)) = Solid(RemoveMarkup(whole))
  BY <1>1 DEF Captured
<1>4. PICK l \in Nat, n \in Nat, m \in Nat : l = Len(h) /\ n = Len(s) /\ m = Len(b) /\ n = l + Len(c)
  BY <1>1, CleanLen
<1>5. 2 <= n
  <2>1. PICK j \in Nat : j = Len(c)
    BY CleanLen
  <2>2. 2 <= l /\ n = l + j
    BY <1>4, <2>1
  <2>. QED  BY ONLY <2>2, l \in Nat, j \in Nat
<1>6. CallBlock(b) /\ ParseCalls(b) = ParseCalls(whole)
  BY <1>3 DEF Block
<1>7. <<>> \in Seq(Calls) /\ Cat(<<>>, <<>>) = <<>>
  BY CallsCat, EmptySeq
<1>8. CASE n < m
  <2>1. PICK e \in Clean : b = Cat(s, e) /\ rest = Cat(e, v)
    <3>1. Len(s) <= Len(b)
      BY <1>4, <1>8
    <3>. QED  BY <1>3, <3>1, CleanLevi
  <2>2. e # <<>>
    <3>. SUFFICES ASSUME e = <<>> PROVE FALSE
      OBVIOUS
    <3>1. b = s
      BY <2>1, CleanNone
    <3>2. m = n
      BY <1>4, <3>1
    <3>. QED  BY ONLY <1>8, <3>2, n \in Nat
  <2>3. TryConsume(s) = {} /\ ~ Malformed(s)
    BY <1>4, <1>5, <1>6, <2>1, <2>2, NotYet DEF Clean, Cat
  <2>4. Capturing(s, TryConsume(s)) = Step(Busy(s), Result(<<>>, <<>>))
    BY <2>3 DEF Capturing, Busy, Nothing
  <2>5. Captured(whole, exact, told, <<>>, Cat(s, rest))
    BY <1>2, <1>3 DEF Captured
  <2>6. Streaming(whole, exact, told, <<>>, Busy(s), rest)
    BY <1>4, <1>5, <2>5 DEF Streaming
  <2>7. <<>> \in Clean /\ Cat(told, <<>>) = told /\ Untagged(<<>>)
    BY CleanNone DEF Untagged
  <2>8. Goes(whole, exact, told, <<>>, Step(Busy(s), Result(<<>>, <<>>)), rest)
    BY <1>7, <2>6, <2>7, GoesOn
  <2>. QED  BY <1>1, <1>2, <2>4, <2>8, ProcessBusy
<1>9. CASE m <= n
  <2>1. PICK e \in Clean : s = Cat(b, e) /\ v = Cat(e, rest)
    <3>1. Len(b) <= Len(s) /\ Cat(b, v) = Cat(s, rest)
      BY <1>3, <1>4, <1>9
    <3>. QED  BY <3>1, CleanLevi
  <2>2. PICK t \in Clean : t = Trim(e) /\ Solid(t) = Solid(e)
    BY TrimType, SolidTrim DEF Clean
  <2>3. Untagged(Solid(e)) /\ Untagged(Solid(rest))
    <3>1. Untagged(Cat(Solid(e), Solid(rest))) /\ Solid(e) \in Clean /\ Solid(rest) \in Clean
      BY <1>3, <2>1, CleanSolid
    <3>. QED  BY <3>1, CleanUntagged
  <2>4. Untagged(e) /\ Untagged(t)
    BY <2>2, <2>3, CleanUntaggedSolid
  <2>5. TryConsume(s) = {Result(t, ParseCalls(b))}
    <3>1. TryConsume(b \o e) = {Result(Trim(e), ParseCalls(b))}
      BY <1>6, <2>4, Consume DEF Clean
    <3>. QED  BY <2>1, <2>2, <3>1 DEF Cat
  <2>6. Capturing(s, TryConsume(s)) = Step(Idle(<<>>), Result(t, ParseCalls(b)))
    BY <2>5, NewIdle DEF Capturing, Consumable
  <2>7. Solid(Cat(Cat(told, t), rest)) = Solid(RemoveMarkup(whole))
    <3>1. Cat(Cat(told, t), rest) = Cat(told, Cat(t, rest)) /\ Cat(t, rest) \in Clean /\ Cat(e, rest) \in Clean
      BY CleanAssoc, CleanCat
    <3>2. Solid(Cat(t, rest)) = Solid(Cat(e, rest))
      BY <2>2, CleanSolid
    <3>3. Solid(Cat(told, Cat(t, rest))) = Solid(Cat(told, Cat(e, rest)))
      BY <3>1, <3>2, CleanSolid
    <3>. QED  BY <1>3, <2>1, <3>1, <3>3
  <2>8. Free(whole, exact, Cat(told, t), ParseCalls(b), Cat(<<>>, rest))
    BY <1>2, <1>6, <2>3, <2>7, CleanNone DEF Free
  <2>9. Streaming(whole, exact, Cat(told, t), ParseCalls(b), Idle(<<>>), rest)
    BY <2>8, CleanNone DEF Streaming
  <2>10. ParseCalls(b) \in Seq(Calls) /\ Cat(<<>>, ParseCalls(b)) = ParseCalls(b)
    BY ParseType, CallsCat
  <2>11. Goes(whole, exact, told, <<>>, Step(Idle(<<>>), Result(t, ParseCalls(b))), rest)
    <3>1. PICK st : st = Step(Idle(<<>>), Result(t, ParseCalls(b)))
      OBVIOUS
    <3>2. st.state = Idle(<<>>) /\ st.out.content = t /\ st.out.calls = ParseCalls(b)
      BY <3>1, StepFields
    <3>3. Goes(whole, exact, told, <<>>, st, rest)
      BY <2>4, <2>9, <2>10, <3>2 DEF Goes
    <3>. QED  BY <3>1, <3>3
  <2>. QED  BY <1>1, <1>2, <2>6, <2>11, ProcessBusy
<1>. QED  BY <1>4, <1>8, <1>9

LEMMA Sieves ==
    ASSUME NEW whole, NEW exact, NEW told \in Clean, NEW k \in Seq(Calls), NEW stream,
           NEW c \in Clean, NEW rest \in Clean, Streaming(whole, exact, told, k, stream, Cat(c, rest))
    PROVE  Goes(whole, exact, told, k, ProcessStreamChunk(stream, c), rest)
<1>1. CASE \E q \in Clean : stream = Idle(q) /\ Free(whole, exact, told, k, Cat(q, Cat(c, rest)))
  BY <1>1, IdleFree
<1>2. CASE \E q \in Clean : stream = Idle(q) /\ Ahead(whole, exact, told, k, Cat(q, Cat(c, rest)))
  BY <1>2, IdleAhead
<1>3. CASE \E h \in Clean : stream = Busy(h) /\ 2 <= Len(h) /\ Captured(whole, exact, told, k, Cat(h, Cat(c, rest)))
  BY <1>3, BusyMoves
<1>. QED  BY <1>1, <1>2, <1>3 DEF Streaming

-----------------------------------------------------------------------------
(* The end of the stream.                                                    *)

LEMMA LessNoWhite == NoWhite(<<>>) /\ NoWhite(<<"<">>)
<1>1. ToSet(<<>>) = {} /\ ToSet(<<"<">>) = {"<"}
  BY DEF ToSet
<1>2. " " \notin {} /\ " " \notin {"<"}
  BY Zenon
<1>. QED  BY <1>1, <1>2, Zenon DEF NoWhite

LEMMA WhiteEmpty ==
    ASSUME NEW S, NEW p \in Seq(S), NEW x \in Seq(S), NEW w \in Seq(S), NoWhite(p \o (x \o w)),
           White(p), White(w)
    PROVE  p = <<>> /\ w = <<>>
<1>1. PICK s \in Seq(S) : s = p \o (x \o w)
  BY ConcatProperties
<1>2. \A i \in 1 .. Len(s) : s[i] \in ToSet(s)
  BY LenProperties DEF ToSet
<1>3. NoWhite(s)
  BY <1>1
<1>4. ASSUME p # <<>> PROVE FALSE
  <2>1. Len(p) \in Nat /\ Len(p) # 0
    BY <1>4, EmptySeq
  <2>2. 1 \in 1 .. Len(p) /\ 1 \in 1 .. Len(s) /\ s[1] = p[1]
    <3>1. /\ Len(s) = Len(p) + Len(x) + Len(w) /\ Len(x) \in Nat /\ Len(w) \in Nat
          /\ \A i \in 1 .. Len(p) : s[i] = p[i]
      BY ONLY ThreeParts, <1>1, p \in Seq(S), x \in Seq(S), w \in Seq(S), LenProperties
    <3>2. PICK a \in Nat, b \in Nat, c \in Nat : a = Len(p) /\ b = Len(x) /\ c = Len(w) /\ Len(s) = a + b + c
      BY <2>1, <3>1
    <3>3. 1 \in 1 .. a /\ 1 \in 1 .. a + b + c
      <4>1. a # 0
        BY <2>1, <3>2
      <4>. QED  BY ONLY <4>1, a \in Nat, b \in Nat, c \in Nat
    <3>. QED  BY <3>1, <3>2, <3>3
  <2>3. p[1] \in ToSet(s)
    BY <1>2, <2>2
  <2>. QED  BY <1>3, <1>4, <2>2, <2>3, Zenon DEF NoWhite, White
<1>5. ASSUME w # <<>> PROVE FALSE
  <2>1. Len(w) \in Nat /\ Len(w) # 0
    BY <1>5, EmptySeq
  <2>2. \E i \in 1 .. Len(s) : 1 \in 1 .. Len(w) /\ s[i] = w[1]
    <3>1. /\ Len(s) = Len(p) + Len(x) + Len(w) /\ Len(x) \in Nat /\ Len(p) \in Nat
          /\ \A i \in 1 .. Len(w) : s[i + Len(p) + Len(x)] = w[i]
      BY ONLY ThreeParts, <1>1, p \in Seq(S), x \in Seq(S), w \in Seq(S), LenProperties
    <3>2. PICK a \in Nat, b \in Nat, c \in Nat : a = Len(p) /\ b = Len(x) /\ c = Len(w) /\ Len(s) = a + b + c
      BY <2>1, <3>1
    <3>3. 1 \in 1 .. c /\ 1 + a + b \in 1 .. a + b + c
      <4>1. c # 0
        BY <2>1, <3>2
      <4>. QED  BY ONLY <4>1, a \in Nat, b \in Nat, c \in Nat
    <3>. QED  BY <3>1, <3>2, <3>3
  <2>3. w[1] \in ToSet(s)
    BY <1>2, <2>2
  <2>. QED  BY <1>3, <1>5, <2>2, <2>3, Zenon DEF NoWhite, White
<1>. QED  BY <1>4, <1>5

LEMMA TrimSame ==
    ASSUME NEW S, NEW s \in Seq(S), NoWhite(s)
    PROVE  Trim(s) = s /\ TrimLeft(s) = s
<1>1. PICK p \in Seq(S), w \in Seq(S) :
        /\ White(p) /\ White(w) /\ Trim(s) \in Seq(S) /\ TrimLeft(s) \in Seq(S)
        /\ s = p \o TrimLeft(s) /\ TrimLeft(s) = Trim(s) \o w
  BY TrimParts
<1>2. p = <<>> /\ w = <<>>
  <2>1. NoWhite(p \o (Trim(s) \o w))
    BY <1>1
  <2>. QED  BY <1>1, <2>1, WhiteEmpty
<1>3. \A t \in Seq(S) : <<>> \o t = t /\ t \o <<>> = t
  BY ConcatEmptySeq
<1>. QED  BY <1>1, <1>2, <1>3

LEMMA StripLess ==
    ASSUME NEW s \in Clean, s \in {<<>>, <<"<">>}
    PROVE  StripPrelude(s) = s /\ Untagged(s)
<1>1. PICK n \in {0, 1} : n = Len(s)
  BY EmptySeq
<1>2. Untagged(s) /\ ~ OpenAt(s, 1, Tags)
  BY <1>1 DEF Untagged, TagAt, OpenAt, CloseAt
<1>3. PICK run : run = {k \in 0 .. Len(s) : \A m \in 0 .. k - 1 : OpenAt(s, 2 * m + 1, Tags)}
  OBVIOUS
<1>4. \A k \in run : k = 0
  <2>. SUFFICES ASSUME NEW k \in run PROVE k = 0
    OBVIOUS
  <2>1. k \in {0, 1} /\ \A m \in 0 .. k - 1 : OpenAt(s, 2 * m + 1, Tags)
    BY <1>1, <1>3
  <2>2. k = 1 => 0 \in 0 .. k - 1 /\ 2 * 0 + 1 = 1
    OBVIOUS
  <2>. QED  BY <1>2, <2>1, <2>2
<1>5. 0 \in run
  <2>1. 0 \in 0 .. Len(s) /\ \A m \in 0 .. 0 - 1 : FALSE
    BY <1>1
  <2>. QED  BY <1>3, <2>1
<1>6. run \in SUBSET (0 .. 1)
  BY <1>4
<1>7. Max(run) = 0
  BY <1>4, <1>5, <1>6, MaxOf
<1>8. SubSeq(s, 2 * Max(run) + 1, Len(s)) = s
  <2>1. 2 * Max(run) + 1 = 1
    BY <1>7
  <2>2. SubSeq(s, 1, Len(s)) = s
    BY SubSeqProperties, LenProperties, SeqEqual DEF Clean
  <2>. QED  BY <2>1, <2>2
<1>9. TrimLeft(s) = s
  BY TrimSame, LessNoWhite DEF Clean
<1>. QED  BY <1>2, <1>3, <1>8, <1>9 DEF StripPrelude

LEMMA FinalIdle ==
    ASSUME NEW q \in Clean, q \in {<<>>, <<"<">>}
    PROVE  FinalizeStream(Idle(q)) = Result(q, <<>>)
<1>1. <<>> \o q = q
  BY ConcatEmptySeq DEF Clean
<1>2. Idle(q).pending = q /\ ~ Idle(q).capturing /\ Idle(q).capture = <<>>
  BY DEF Idle
<1>3. FinalizeStream(Idle(q)) = Released(q, ParseCalls(q))
  BY <1>1, <1>2 DEF FinalizeStream
<1>4. ParseCalls(q) = <<>>
  BY StripLess, ParseCallsUntagged DEF Clean
<1>5. Trim(StripPrelude(q)) = q
  BY StripLess, TrimSame, LessNoWhite DEF Clean
<1>. QED  BY <1>3, <1>4, <1>5 DEF Released

LEMMA FinalBusy ==
    ASSUME NEW b \in Clean, CallBlock(b), NEW w \in Clean, Untagged(w)
    PROVE  FinalizeStream(Busy(Cat(b, w))) = Result(Trim(w), ParseCalls(b))
<1>1. PICK h \in Clean : h = Cat(b, w)
  BY CleanCat
<1>2. h \o <<>> = h
  BY ConcatEmptySeq DEF Clean
<1>3. Busy(h).pending = <<>> /\ Busy(h).capturing /\ Busy(h).capture = h
  BY DEF Busy
<1>4. FinalizeStream(Busy(h)) = FinalCapture(h, TryConsume(h))
  BY <1>2, <1>3 DEF FinalizeStream
<1>5. TryConsume(h) = {Result(Trim(w), ParseCalls(b))}
  BY <1>1, Consume DEF Clean, Cat
<1>. QED  BY <1>1, <1>4, <1>5 DEF FinalCapture, Consumable

\* All has been told when the last of the sieve has gone out.
LEMMA Finals ==
    ASSUME NEW whole, NEW exact, NEW told \in Clean, NEW k \in Seq(Calls), NEW stream,
           Streaming(whole, exact, told, k, stream, <<>>)
    PROVE  \E t \in Clean, c \in Seq(Calls) :
              /\ FinalizeStream(stream) = Result(t, c) /\ Untagged(t)
              /\ Cat(k, c) = ParseCalls(whole)
              /\ Solid(Cat(told, t)) = Solid(RemoveMarkup(whole))
              /\ exact => Cat(told, t) = whole
<1>. DEFINE Final(t, c) ==
              /\ FinalizeStream(stream) = Result(t, c) /\ Untagged(t)
              /\ Cat(k, c) = ParseCalls(whole)
              /\ Solid(Cat(told, t)) = Solid(RemoveMarkup(whole))
              /\ exact => Cat(told, t) = whole
<1>1. ASSUME NEW q \in Clean, stream = Idle(q), q \in {<<>>, <<"<">>},
             Free(whole, exact, told, k, Cat(q, <<>>))
      PROVE  \E t \in Clean, c \in Seq(Calls) : Final(t, c)
  <2>1. Cat(q, <<>>) = q /\ Cat(k, <<>>) = k /\ <<>> \in Seq(Calls)
    BY CleanNone, CallsCat, EmptySeq
  <2>2. FinalizeStream(stream) = Result(q, <<>>) /\ Untagged(q)
    BY <1>1, FinalIdle, StripLess
  <2>3. Free(whole, exact, told, k, q)
    BY <1>1, <2>1
  <2>4. Final(q, <<>>)
    BY <2>1, <2>2, <2>3 DEF Free
  <2>. QED  BY <2>1, <2>4
<1>2. ASSUME NEW q \in Clean, stream = Idle(q), q \in {<<>>, <<"<">>},
             Ahead(whole, exact, told, k, Cat(q, <<>>))
      PROVE  FALSE
  <2>1. PICK u \in Clean, b \in Clean, v \in Clean : q = Cat(u, Cat(b, v)) /\ Block(b, whole)
    BY <1>2, CleanNone DEF Ahead
  <2>2. 4 <= Len(q)
    BY <2>1, BlockLong
  <2>3. Len(q) = 0 \/ Len(q) = 1
    BY <1>2
  <2>. QED  BY ONLY <2>2, <2>3, SMTT(30)
<1>3. ASSUME NEW h \in Clean, stream = Busy(h), Captured(whole, exact, told, k, Cat(h, <<>>))
      PROVE  \E t \in Clean, c \in Seq(Calls) : Final(t, c)
  <2>1. ~ exact /\ k = <<>> /\ Cat(h, <<>>) = h
    BY <1>3, CleanNone DEF Captured
  <2>2. PICK b \in Clean, v \in Clean :
          /\ h = Cat(b, v) /\ Block(b, whole) /\ Untagged(Solid(v))
          /\ Solid(Cat(told, v)) = Solid(RemoveMarkup(whole))
    BY <1>3, <2>1 DEF Captured
  <2>3. CallBlock(b) /\ ParseCalls(b) = ParseCalls(whole) /\ Untagged(v)
    BY <2>2, CleanUntaggedSolid DEF Block
  <2>4. PICK t \in Clean : t = Trim(v) /\ Solid(t) = Solid(v)
    BY TrimType, SolidTrim DEF Clean
  <2>5. FinalizeStream(stream) = Result(t, ParseCalls(b))
    BY <1>3, <2>2, <2>3, <2>4, FinalBusy
  <2>6. Untagged(t)
    BY <2>2, <2>4, CleanUntaggedSolid
  <2>7. Solid(Cat(told, t)) = Solid(RemoveMarkup(whole))
    BY <2>2, <2>4, CleanSolid
  <2>8. ParseCalls(b) \in Seq(Calls) /\ Cat(k, ParseCalls(b)) = ParseCalls(b)
    BY <2>1, ParseType, CallsCat
  <2>9. Final(t, ParseCalls(b))
    BY <2>1, <2>3, <2>5, <2>6, <2>7, <2>8
  <2>. QED  BY <2>8, <2>9
<1>. QED  BY <1>1, <1>2, <1>3 DEF Streaming

-----------------------------------------------------------------------------
(* White space that is not told.                                             *)

LEMMA FreeDrops ==
    ASSUME NEW whole, NEW exact, ~ exact, NEW told \in Clean, NEW k,
           NEW q \in Clean, NEW c \in Clean, White(c), NEW y \in Clean,
           Free(whole, exact, told, k, Cat(q, Cat(c, y)))
    PROVE  Free(whole, exact, told, k, Cat(q, y))
<1>1. Solid(Cat(q, Cat(c, y))) = Solid(Cat(q, y))
  BY SolidDrop
<1>2. Cat(q, y) \in Clean /\ Cat(q, Cat(c, y)) \in Clean
  BY CleanCat
<1>3. Solid(Cat(told, Cat(q, y))) = Solid(Cat(told, Cat(q, Cat(c, y))))
  BY <1>1, <1>2, CleanSolid
<1>. QED  BY <1>1, <1>3 DEF Free

LEMMA AheadDrops ==
    ASSUME NEW whole, NEW exact, ~ exact, NEW told \in Clean, NEW k,
           NEW q \in Clean, NEW c \in Clean, White(c), NEW y \in Clean,
           Ahead(whole, exact, told, k, Cat(q, Cat(c, y)))
    PROVE  Ahead(whole, exact, told, k, Cat(q, y))
<1>1. PICK u \in Clean, b \in Clean, v \in Clean :
        /\ Cat(q, Cat(c, y)) = Cat(u, Cat(b, v)) /\ Block(b, whole) /\ Untagged(Solid(Cat(u, v)))
        /\ Solid(Cat(told, Cat(u, v))) = Solid(RemoveMarkup(whole))
  BY DEF Ahead
<1>2. NoWhite(b) /\ b # <<>>
  BY <1>1, BlockFacts
<1>3. PICK g \in Clean, r \in Clean : Cat(q, y) = Cat(g, Cat(b, r)) /\ Solid(Cat(g, r)) = Solid(Cat(u, v))
  BY <1>1, <1>2, BlockDrops
<1>4. Solid(Cat(told, Cat(g, r))) = Solid(Cat(told, Cat(u, v)))
  BY <1>3, CleanSolid, CleanCat
<1>5. k = <<>>
  BY DEF Ahead
<1>. QED  BY <1>1, <1>3, <1>4, <1>5 DEF Ahead

LEMMA CapturedDrops ==
    ASSUME NEW whole, NEW exact, ~ exact, NEW told \in Clean, NEW k,
           NEW q \in Clean, NEW c \in Clean, White(c), NEW y \in Clean,
           Captured(whole, exact, told, k, Cat(q, Cat(c, y)))
    PROVE  Captured(whole, exact, told, k, Cat(q, y))
<1>1. PICK b \in Clean, v \in Clean :
        /\ Cat(q, Cat(c, y)) = Cat(b, v) /\ Block(b, whole) /\ Untagged(Solid(v))
        /\ Solid(Cat(told, v)) = Solid(RemoveMarkup(whole))
  BY DEF Captured
<1>2. NoWhite(b) /\ b # <<>>
  BY <1>1, BlockFacts
<1>3. PICK r \in Clean : Cat(q, y) = Cat(b, r) /\ Solid(r) = Solid(v)
  <2>1. <<>> \in Clean /\ Cat(q, Cat(c, y)) = Cat(<<>>, Cat(b, v)) /\ Cat(b, v) \in Clean
    BY <1>1, CleanNone, CleanCat
  <2>2. PICK g \in Clean, r \in Clean :
          /\ Cat(q, y) = Cat(g, Cat(b, r)) /\ Solid(Cat(g, r)) = Solid(Cat(<<>>, v))
          /\ <<>> = <<>> => g = <<>>
    BY <1>2, <2>1, BlockDrops
  <2>. QED  BY <2>2, CleanNone, CleanCat
<1>4. Solid(Cat(told, r)) = Solid(Cat(told, v))
  BY <1>3, CleanSolid
<1>5. k = <<>>
  BY DEF Captured
<1>. QED  BY <1>1, <1>3, <1>4, <1>5 DEF Captured

LEMMA StreamDrops ==
    ASSUME NEW whole, NEW exact, ~ exact, NEW told \in Clean, NEW k, NEW stream,
           NEW c \in Clean, White(c), NEW rest \in Clean, Streaming(whole, exact, told, k, stream, Cat(c, rest))
    PROVE  Streaming(whole, exact, told, k, stream, rest)
<1>1. ASSUME NEW q \in Clean, stream = Idle(q), q \in {<<>>, <<"<">>},
             \/ Free(whole, exact, told, k, Cat(q, Cat(c, rest)))
             \/ Ahead(whole, exact, told, k, Cat(q, Cat(c, rest)))
      PROVE  Streaming(whole, exact, told, k, stream, rest)
  <2>1. Free(whole, exact, told, k, Cat(q, rest)) \/ Ahead(whole, exact, told, k, Cat(q, rest))
    BY <1>1, FreeDrops, AheadDrops
  <2>. QED  BY <1>1, <2>1 DEF Streaming
<1>2. ASSUME NEW h \in Clean, stream = Busy(h), 2 <= Len(h),
             Captured(whole, exact, told, k, Cat(h, Cat(c, rest)))
      PROVE  Streaming(whole, exact, told, k, stream, rest)
  <2>1. Captured(whole, exact, told, k, Cat(h, rest))
    BY <1>2, CapturedDrops
  <2>. QED  BY <1>2, <2>1 DEF Streaming
<1>. QED  BY <1>1, <1>2 DEF Streaming

-----------------------------------------------------------------------------
(* What events say.                                                          *)

Worded == {"content", "delta"}
Called == {"calls", "input"}
Word(s) == Without(s, {"thought"})
Says(e, content, calls) ==
    e \in Seq(Events) /\ Word(Items(e, Worded)) = content /\ Items(e, Called) = calls

ItemOf(x, K) == IF x.kind \in K THEN x.item ELSE <<>>
ItemsOf(e, K) == [i \in 1 .. Len(e) |-> ItemOf(e[i], K)]

LEMMA ItemsOfType ==
    ASSUME NEW e \in Seq(Events), NEW K
    PROVE  /\ ItemsOf(e, K) \in Seq(Text) /\ Len(ItemsOf(e, K)) = Len(e)
           /\ \A i \in 1 .. Len(e) : ItemsOf(e, K)[i] = ItemOf(e[i], K)
           /\ Items(e, K) = FlattenSeq(ItemsOf(e, K)) /\ Items(e, K) \in Text
<1>. DEFINE f == ItemsOf(e, K)
<1>1. Len(e) \in Nat
  BY LenProperties
<1>2. ASSUME NEW i \in 1 .. Len(e) PROVE ItemOf(e[i], K) \in Text
  <2>1. e[i] \in Events
    BY ElementOfSeq
  <2>. QED  BY <2>1, WordType DEF Events, ItemOf
<1>3. f \in [1 .. Len(e) -> Text]
  BY <1>2 DEF ItemsOf
<1>4. f \in Seq(Text) /\ Len(f) = Len(e)
  BY <1>1, <1>3
<1>5. FlattenSeq(f) \in Text
  BY <1>4, FlattenType DEF Text
<1>6. Items(e, K) = FlattenSeq(f)
  BY DEF Items, ItemsOf, ItemOf
<1>7. \A i \in 1 .. Len(e) : f[i] = ItemOf(e[i], K)
  BY DEF ItemsOf
<1>. QED  BY <1>4, <1>5, <1>6, <1>7

LEMMA ItemsConcat ==
    ASSUME NEW d \in Seq(Events), NEW e \in Seq(Events), NEW K
    PROVE  Items(d \o e, K) = Items(d, K) \o Items(e, K)
<1>1. PICK w \in Seq(Events) : w = d \o e
  BY ConcatProperties
<1>2. /\ Len(d) \in Nat /\ Len(e) \in Nat /\ Len(w) = Len(d) + Len(e)
      /\ \A i \in 1 .. Len(d) + Len(e) : w[i] = IF i <= Len(d) THEN d[i] ELSE e[i - Len(d)]
  BY <1>1, LenProperties, ConcatProperties
<1>3. PICK x \in Seq(Text) :
        /\ x = ItemsOf(d, K) /\ Len(x) = Len(d) /\ \A i \in 1 .. Len(d) : x[i] = ItemOf(d[i], K)
  BY ItemsOfType
<1>4. PICK y \in Seq(Text) :
        /\ y = ItemsOf(e, K) /\ Len(y) = Len(e) /\ \A i \in 1 .. Len(e) : y[i] = ItemOf(e[i], K)
  BY ItemsOfType
<1>5. PICK z \in Seq(Text) :
        /\ z = ItemsOf(w, K) /\ Len(z) = Len(w) /\ \A i \in 1 .. Len(w) : z[i] = ItemOf(w[i], K)
  BY ItemsOfType
<1>6. /\ x \o y \in Seq(Text) /\ Len(x \o y) = Len(w)
      /\ \A i \in 1 .. Len(w) : (x \o y)[i] = IF i <= Len(d) THEN x[i] ELSE y[i - Len(d)]
  <2>1. /\ x \o y \in Seq(Text) /\ Len(x \o y) = Len(x) + Len(y)
        /\ \A i \in 1 .. Len(x) + Len(y) : (x \o y)[i] = IF i <= Len(x) THEN x[i] ELSE y[i - Len(x)]
    BY ConcatProperties
  <2>. QED  BY <1>2, <1>3, <1>4, <2>1
<1>7. ASSUME NEW i \in 1 .. Len(w) PROVE z[i] = (x \o y)[i]
  <2>1. CASE i <= Len(d)
    <3>1. i \in 1 .. Len(d) /\ i \in 1 .. Len(d) + Len(e)
      BY <1>2, <2>1
    <3>2. w[i] = d[i] /\ (x \o y)[i] = x[i]
      BY <1>2, <1>6, <2>1, <3>1
    <3>. QED  BY <1>3, <1>5, <3>1, <3>2
  <2>2. CASE ~ (i <= Len(d))
    <3>1. i - Len(d) \in 1 .. Len(e) /\ i \in 1 .. Len(d) + Len(e)
      BY <1>2, <2>2
    <3>2. w[i] = e[i - Len(d)] /\ (x \o y)[i] = y[i - Len(d)]
      BY <1>2, <1>6, <2>2, <3>1
    <3>. QED  BY <1>4, <1>5, <3>1, <3>2
  <2>. QED  BY <2>1, <2>2
<1>8. z = x \o y
  BY <1>5, <1>6, <1>7, SeqEqual
<1>9. FlattenSeq(x \o y) = FlattenSeq(x) \o FlattenSeq(y)
  BY FlattenConcat DEF Text
<1>10. Items(w, K) = FlattenSeq(z) /\ Items(d, K) = FlattenSeq(x) /\ Items(e, K) = FlattenSeq(y)
  BY <1>3, <1>4, <1>5, ItemsOfType
<1>. QED  BY <1>1, <1>8, <1>9, <1>10

LEMMA FlattenOne ==
    ASSUME NEW s \in Text
    PROVE  FlattenSeq(<<s>>) = s
<1>1. <<>> \in Seq(Seq(Symbols)) /\ s \in Seq(Symbols) /\ FlattenSeq(<<>>) \in Seq(Symbols)
  BY EmptySeq, FlattenEmpty DEF Text
<1>2. Append(<<>>, s) = <<s>>
  OBVIOUS
<1>3. FlattenSeq(<<s>>) = FlattenSeq(<<>>) \o s
  BY <1>1, <1>2, FlattenAppend
<1>. QED  BY <1>1, <1>3, FlattenEmpty, ConcatEmptySeq

LEMMA ItemsOne ==
    ASSUME NEW e \in Events, NEW K
    PROVE  Items(<<e>>, K) = IF e.kind \in K THEN e.item ELSE <<>>
<1>1. PICK x : x = ItemOf(e, K)
  OBVIOUS
<1>2. x \in Text
  BY <1>1, WordType DEF Events, ItemOf
<1>3. <<e>> \in Seq(Events) /\ Len(<<e>>) = 1 /\ <<e>>[1] = e
  BY OneType
<1>4. PICK w \in Seq(Events) : w = <<e>> /\ Len(w) = 1 /\ w[1] = e
  BY <1>3
<1>5. PICK z \in Seq(Text) : z = ItemsOf(w, K) /\ Len(z) = 1 /\ z[1] = x
  <2>1. /\ ItemsOf(w, K) \in Seq(Text) /\ Len(ItemsOf(w, K)) = Len(w)
        /\ \A i \in 1 .. Len(w) : ItemsOf(w, K)[i] = ItemOf(w[i], K)
    BY ItemsOfType
  <2>2. 1 \in 1 .. Len(w)
    BY <1>4
  <2>. QED  BY <1>1, <1>4, <2>1, <2>2
<1>6. z = <<x>>
  BY <1>5, OneLong
<1>7. FlattenSeq(<<x>>) = x
  BY <1>2, FlattenOne
<1>8. Items(w, K) = FlattenSeq(z)
  BY <1>5, ItemsOfType
<1>9. Items(w, K) = x
  BY <1>6, <1>7, <1>8
<1>. QED  BY <1>1, <1>4, <1>9 DEF ItemOf

LEMMA WordFacts ==
    /\ Word(<<>>) = <<>>
    /\ \A s \in Text : Word(s) \in Text
    /\ \A s, t \in Text : Word(s \o t) = Word(s) \o Word(t)
<1>1. \A s \in Seq(Symbols) : Without(s, {"thought"}) \in Seq(Symbols)
  BY WithoutType
<1>2. \A s, t \in Seq(Symbols) : Without(s \o t, {"thought"}) = Without(s, {"thought"}) \o Without(t, {"thought"})
  BY WithoutConcat
<1>3. Without(<<>>, {"thought"}) = <<>>
  <2>1. <<>> \in Seq(Symbols) /\ \A i \in 1 .. Len(<<>>) : FALSE
    BY EmptySeq
  <2>. QED  BY <2>1, WithoutSame
<1>. QED  BY <1>1, <1>2, <1>3 DEF Word, Text

LEMMA SaysNothing == Says(<<>>, <<>>, <<>>)
<1>1. <<>> \in Seq(Events)
  BY EmptySeq
<1>2. \A K : Items(<<>>, K) = <<>>
  <2>. TAKE K
  <2>1. PICK z \in Seq(Text) : z = ItemsOf(<<>>, K) /\ Len(z) = Len(<<>>)
    BY <1>1, ItemsOfType
  <2>2. z = <<>>
    BY <2>1, EmptySeq
  <2>. QED  BY <1>1, <2>1, <2>2, FlattenEmpty, ItemsOfType
<1>. QED  BY <1>1, <1>2, WordFacts DEF Says

LEMMA SaysConcat ==
    ASSUME NEW d, NEW e, NEW a, NEW k, NEW b, NEW l, Says(d, a, k), Says(e, b, l)
    PROVE  Says(d \o e, Cat(a, b), Cat(k, l))
<1>1. d \in Seq(Events) /\ e \in Seq(Events) /\ d \o e \in Seq(Events)
  BY ConcatProperties DEF Says
<1>2. Items(d \o e, Worded) = Items(d, Worded) \o Items(e, Worded)
      /\ Items(d \o e, Called) = Items(d, Called) \o Items(e, Called)
  BY <1>1, ItemsConcat
<1>3. Items(d, Worded) \in Text /\ Items(e, Worded) \in Text
  BY <1>1, ItemsOfType
<1>4. Word(Items(d, Worded) \o Items(e, Worded)) = Word(Items(d, Worded)) \o Word(Items(e, Worded))
  BY <1>3, WordFacts
<1>. QED  BY <1>1, <1>2, <1>4 DEF Says, Cat

LEMMA SaysOne ==
    ASSUME NEW kind \in Kinds, NEW index \in Nat \cup {None}, NEW item \in Text
    PROVE  /\ kind \in Worded => Says(<<Event(kind, index, item)>>, Word(item), <<>>)
           /\ kind \in Called => Says(<<Event(kind, index, item)>>, <<>>, item)
           /\ kind \notin Worded \cup Called => Says(<<Event(kind, index, item)>>, <<>>, <<>>)
<1>1. PICK e \in Events : e = Event(kind, index, item) /\ e.kind = kind /\ e.item = item
  BY EventType, EventFields DEF Event
<1>2. <<e>> \in Seq(Events)
  BY OneType
<1>3. /\ Items(<<e>>, Worded) = IF kind \in Worded THEN item ELSE <<>>
      /\ Items(<<e>>, Called) = IF kind \in Called THEN item ELSE <<>>
  BY <1>1, ItemsOne
<1>4. Word(<<>>) = <<>> /\ (kind \in Worded => kind \notin Called)
  BY WordFacts DEF Worded, Called
<1>. QED  BY <1>1, <1>2, <1>3, <1>4 DEF Says

-----------------------------------------------------------------------------
(* What the handlers tell of a result of the sieve.                          *)

LEMMA TextNone == \A s \in Text : Cat(s, <<>>) = s /\ Cat(<<>>, s) = s
BY ConcatEmptySeq DEF Text, Cat

LEMMA SaysType ==
    ASSUME NEW e, NEW a, NEW k, Says(e, a, k)
    PROVE  e \in Seq(Events) /\ a \in Text /\ k \in Text
<1>1. e \in Seq(Events)
  BY DEF Says
<1>2. Items(e, Worded) \in Text /\ Items(e, Called) \in Text
  BY <1>1, ItemsOfType
<1>. QED  BY <1>1, <1>2, WordFacts DEF Says

LEMMA SaysText ==
    ASSUME NEW d, NEW e, NEW a, NEW k, NEW b, Says(d, a, k), Says(e, b, <<>>)
    PROVE  Says(d \o e, Cat(a, b), k)
<1>1. Says(d \o e, Cat(a, b), Cat(k, <<>>))
  BY SaysConcat
<1>. QED  BY <1>1, SaysType, TextNone

LEMMA SaysCalls ==
    ASSUME NEW d, NEW e, NEW a, NEW k, NEW l, Says(d, a, k), Says(e, <<>>, l)
    PROVE  Says(d \o e, a, Cat(k, l))
<1>1. Says(d \o e, Cat(a, <<>>), Cat(k, l))
  BY SaysConcat
<1>. QED  BY <1>1, SaysType, TextNone

LEMMA SaysPlain ==
    ASSUME NEW d, NEW e, NEW a, NEW k, Says(d, a, k), Says(e, <<>>, <<>>)
    PROVE  Says(d \o e, a, k)
<1>1. Says(d \o e, Cat(a, <<>>), k)
  BY SaysText
<1>. QED  BY <1>1, SaysType, TextNone

LEMMA PlainSays ==
    ASSUME NEW d, NEW e, NEW a, NEW k, Says(d, <<>>, <<>>), Says(e, a, k)
    PROVE  Says(d \o e, a, k)
<1>1. Says(d \o e, Cat(<<>>, a), Cat(<<>>, k))
  BY SaysConcat
<1>. QED  BY <1>1, SaysType, TextNone

LEMMA UnlessSays ==
    ASSUME NEW e, NEW a, NEW k, Says(e, a, k), NEW cond, cond => a = <<>> /\ k = <<>>
    PROVE  Says(Unless(cond, e), a, k)
BY SaysNothing DEF Unless

LEMMA PlainEvent ==
    ASSUME NEW kind \in Kinds \ (Worded \cup Called), NEW index \in Nat \cup {None}, NEW item \in Text
    PROVE  Says(<<Event(kind, index, item)>>, <<>>, <<>>)
BY SaysOne

LEMMA PlainKinds ==
    /\ Worded \cup Called \subseteq Kinds
    /\ \A kind \in {"message_start", "block_start", "block_stop", "message_stop", "reasoning", "finish", "usage",
                    "done", "error"} : kind \in Kinds \ (Worded \cup Called)
BY KindType DEF Worded, Called

LEMMA ContentSays ==
    ASSUME NEW r \in Results
    PROVE  Says(OpenAIContent(r), Word(r.content), <<>>)
<1>1. r.content \in Text /\ None \in Nat \cup {None} /\ "content" \in Kinds /\ "content" \in Worded
  BY KindType DEF Results, Worded
<1>2. Says(<<Event("content", None, r.content)>>, Word(r.content), <<>>)
  BY <1>1, SaysOne
<1>3. r.content = <<>> => Word(r.content) = <<>>
  BY WordFacts
<1>. QED  BY <1>2, <1>3, UnlessSays DEF OpenAIContent

LEMMA CallsSay ==
    ASSUME NEW r \in Results
    PROVE  Says(OpenAICalls(r), <<>>, r.calls)
<1>1. r.calls \in Text /\ 0 \in Nat \cup {None} /\ "calls" \in Kinds /\ "calls" \in Called
  BY KindType, CallsAreTexts DEF Results, Called
<1>2. Says(<<Event("calls", 0, r.calls)>>, <<>>, r.calls)
  BY <1>1, SaysOne
<1>. QED  BY <1>2, UnlessSays DEF OpenAICalls

LEMMA StartedSays == Says(Started, <<>>, <<>>)
<1>1. Says(<<Event("message_start", None, <<>>)>>, <<>>, <<>>)
  BY PlainEvent, PlainKinds, WordType
<1>. QED  BY <1>1, UnlessSays DEF Started

LEMMA DeltaSays ==
    ASSUME NEW r \in Results, block \in Nat \cup {None}, next \in Nat
    PROVE  Says(TextDelta(r), Word(r.content), <<>>)
<1>1. TextBlock \in Nat \cup {None} /\ r.content \in Text /\ "delta" \in Kinds /\ "delta" \in Worded
  BY TextDeltaType, KindType DEF Results, Worded
<1>2. Says(<<Event("block_start", TextBlock, <<"text">>)>>, <<>>, <<>>)
  BY <1>1, PlainEvent, PlainKinds, WordType
<1>3. Says(Unless(block # None, <<Event("block_start", TextBlock, <<"text">>)>>), <<>>, <<>>)
  BY <1>2, UnlessSays
<1>4. Says(<<Event("delta", TextBlock, r.content)>>, Word(r.content), <<>>)
  BY <1>1, SaysOne
<1>5. r.content = <<>> => Word(r.content) = <<>>
  BY WordFacts
<1>. QED  BY <1>3, <1>4, <1>5, PlainSays, UnlessSays DEF TextDelta

LEMMA UseSays ==
    ASSUME NEW index \in Nat, NEW call \in Calls
    PROVE  Says(ToolUse(index, call), <<>>, <<call>>)
<1>. DEFINE a == Event("block_start", index, <<"tool_use">>)
            b == Event("input", index, <<call>>)
            c == Event("block_stop", index, <<>>)
<1>1. <<call>> \in Text /\ "input" \in Kinds /\ "input" \in Called /\ index \in Nat \cup {None}
  BY KindType, CallsAreTexts, OneType DEF Called
<1>2. a \in Events /\ b \in Events /\ c \in Events
  BY <1>1, EventType, KindType, WordType
<1>3. Says(<<a>>, <<>>, <<>>) /\ Says(<<c>>, <<>>, <<>>)
  BY <1>1, PlainEvent, PlainKinds, WordType
<1>4. Says(<<b>>, <<>>, <<call>>)
  BY <1>1, SaysOne
<1>5. <<a>> \o <<b, c>> = <<a, b, c>> /\ <<b>> \o <<c>> = <<b, c>>
  <2>. HIDE DEF a, b, c
  <2>. QED  BY <1>2, Pair, Triple
<1>6. Says(<<b>> \o <<c>>, <<>>, <<call>>)
  BY <1>3, <1>4, SaysPlain
<1>7. Says(<<a>> \o <<b, c>>, <<>>, <<call>>)
  BY <1>3, <1>5, <1>6, PlainSays
<1>. QED  BY <1>5, <1>7 DEF ToolUse

LEMMA UsesSay ==
    ASSUME NEW calls \in Seq(Calls), NEW first \in Nat
    PROVE  Says(FlattenSeq(Uses(calls, first)), <<>>, calls)
<1>. DEFINE u == Uses(calls, first)
            T == {k \in Nat : k <= Len(calls) =>
                    Says(FlattenSeq(SubSeq(u, 1, k)), <<>>, SubSeq(calls, 1, k))}
<1>1. /\ u \in Seq(Seq(Events)) /\ Len(u) = Len(calls) /\ Len(calls) \in Nat
      /\ \A n \in 1 .. Len(calls) : u[n] = ToolUse(first + n - 1, calls[n]) /\ calls[n] \in Calls
  BY UsesType, LenProperties, ElementOfSeq
<1>. HIDE DEF u
<1>2. 0 \in T
  <2>1. SubSeq(u, 1, 0) = <<>> /\ SubSeq(calls, 1, 0) = <<>>
    BY SubSeqEmpty
  <2>2. Says(FlattenSeq(SubSeq(u, 1, 0)), <<>>, SubSeq(calls, 1, 0))
    BY <2>1, FlattenEmpty, SaysNothing
  <2>. QED  BY <2>2
<1>3. ASSUME NEW k \in Nat, k \in T PROVE k + 1 \in T
  <2>. SUFFICES ASSUME k + 1 <= Len(calls)
                PROVE  Says(FlattenSeq(SubSeq(u, 1, k + 1)), <<>>, SubSeq(calls, 1, k + 1))
    OBVIOUS
  <2>1. k \in 0 .. Len(u) - 1 /\ k \in 0 .. Len(calls) - 1 /\ k + 1 \in 1 .. Len(calls) /\ k <= Len(calls)
    BY <1>1
  <2>2. PICK x \in Nat : x = first + (k + 1) - 1
    OBVIOUS
  <2>3. FlattenSeq(SubSeq(u, 1, k + 1)) = FlattenSeq(SubSeq(u, 1, k)) \o u[k + 1]
    BY <1>1, <2>1, FlattenNext
  <2>4. u[k + 1] = ToolUse(x, calls[k + 1]) /\ calls[k + 1] \in Calls
    BY <1>1, <2>1, <2>2
  <2>5. PICK p, c : p = SubSeq(calls, 1, k) /\ c = calls[k + 1]
    OBVIOUS
  <2>6. p \in Seq(Calls) /\ SubSeq(calls, 1, k + 1) = Cat(p, <<c>>)
    <3>1. p \in Seq(Calls) /\ c \in Calls /\ SubSeq(calls, 1, k + 1) = Append(p, c)
      BY <2>1, <2>5, OneMore
    <3>2. Append(p, c) = p \o <<c>>
      BY <3>1, AppendIsConcat
    <3>. QED  BY <3>1, <3>2 DEF Cat
  <2>7. Says(FlattenSeq(SubSeq(u, 1, k)), <<>>, p)
    BY <1>3, <2>1, <2>5
  <2>8. Says(u[k + 1], <<>>, <<c>>)
    BY <2>4, <2>5, UseSays
  <2>9. Says(FlattenSeq(SubSeq(u, 1, k)) \o u[k + 1], <<>>, Cat(p, <<c>>))
    BY <2>7, <2>8, SaysCalls
  <2>. QED  BY <2>3, <2>6, <2>9
<1>4. \A k \in Nat : k \in T
  <2>. HIDE DEF T
  <2>. QED  BY <1>2, <1>3, SetInduction
<1>5. Says(FlattenSeq(SubSeq(u, 1, Len(u))), <<>>, SubSeq(calls, 1, Len(calls)))
  BY <1>1, <1>4
<1>6. SubSeq(u, 1, Len(u)) = u /\ SubSeq(calls, 1, Len(calls)) = calls
  BY <1>1, SubSeqFull
<1>. QED  BY <1>5, <1>6 DEF u

LEMMA ToolUsesSay ==
    ASSUME NEW r \in Results, NEW open \in Nat \cup {None}, NEW first \in Nat
    PROVE  Says(ToolUses(r, open, first), <<>>, r.calls)
<1>1. r.calls \in Seq(Calls)
  BY DEF Results
<1>2. Says(<<Event("block_stop", open, <<>>)>>, <<>>, <<>>)
  BY PlainEvent, PlainKinds, WordType
<1>3. Says(Unless(r.calls = <<>> \/ open = None, <<Event("block_stop", open, <<>>)>>), <<>>, <<>>)
  BY <1>2, UnlessSays
<1>4. Says(FlattenSeq(Uses(r.calls, first)), <<>>, r.calls)
  BY <1>1, UsesSay
<1>. QED  BY <1>3, <1>4, PlainSays DEF ToolUses, Uses

LEMMA AnthropicSays ==
    ASSUME NEW r \in Results, block \in Nat \cup {None}, next \in Nat
    PROVE  Says(AnthropicEvents(r), Word(r.content), r.calls)
<1>1. Says(Started \o TextDelta(r), Word(r.content), <<>>)
  BY StartedSays, DeltaSays, PlainSays
<1>2. NextText(r) \in Nat /\ (IF r.content # <<>> THEN TextBlock ELSE block) \in Nat \cup {None}
  BY AfterType, TextDeltaType
<1>3. Says(ToolUses(r, IF r.content # <<>> THEN TextBlock ELSE block, NextText(r)), <<>>, r.calls)
  BY <1>2, ToolUsesSay
<1>4. Says(AnthropicEvents(r), Word(r.content), Cat(<<>>, r.calls))
  BY <1>1, <1>3, SaysCalls DEF AnthropicEvents
<1>. QED  BY <1>3, <1>4, SaysType, TextNone

LEMMA CleanWord == \A s \in Clean : s \in Text /\ Word(s) = s
<1>. SUFFICES ASSUME NEW s \in Clean PROVE s \in Text /\ Word(s) = s
  OBVIOUS
<1>1. s \in Seq(Symbols) /\ \A i \in 1 .. Len(s) : s[i] \in Letters
  <2>1. Letters \subseteq Symbols /\ s \in Seq(Letters)
    BY DEF Letters, Clean
  <2>. QED  BY <2>1, SeqMonotonic, ElementOfSeq
<1>2. \A i \in 1 .. Len(s) : s[i] \notin {"thought"}
  BY <1>1 DEF Letters
<1>. QED  BY <1>1, <1>2, WithoutSame DEF Word, Text

LEMMA VisibleSame ==
    ASSUME NEW S, NEW t \in Seq(S), Untagged(t), NEW k
    PROVE  Visible(Result(t, k)) = Result(t, k)
<1>1. Result(t, k).content = t /\ Result(t, k).calls = k
  BY DEF Result
<1>2. RemoveMarkup(t) = t
  BY RemoveUntagged
<1>3. ~ Skipped(t)
  <2>1. PICK p \in Seq(S), q \in Seq(S) :
          /\ White(p) /\ White(q) /\ Trim(t) \in Seq(S) /\ TrimLeft(t) \in Seq(S)
          /\ t = p \o TrimLeft(t) /\ TrimLeft(t) = Trim(t) \o q
    BY TrimParts
  <2>2. PICK r \in Seq(S), x \in Seq(S) : r = TrimLeft(t) /\ x = Trim(t) /\ t = p \o r /\ r = x \o q
    BY <2>1
  <2>3. Untagged(r)
    BY <2>2, UntaggedParts
  <2>4. Untagged(x)
    BY <2>2, <2>3, UntaggedParts
  <2>5. ~ TagAt(x, 1)
    <3>1. Len(x) \in Nat
      BY LenProperties
    <3>2. TagAt(x, 1) => 1 \in 1 .. Len(x)
      BY <3>1 DEF TagAt, OpenAt, CloseAt
    <3>. QED  BY <2>4, <3>2 DEF Untagged
  <2>. QED  BY <2>2, <2>5 DEF Skipped
<1>. QED  BY <1>1, <1>2, <1>3 DEF Visible, Unless

LEMMA ResultFields ==
    ASSUME NEW t \in Text, NEW k \in Seq(Calls)
    PROVE  Result(t, k) \in Results /\ Result(t, k).content = t /\ Result(t, k).calls = k
BY DEF Results, Result

LEMMA TellsSays ==
    ASSUME HandlerType, NEW r \in Results, Tells(r), NEW a, NEW k, Says(out, a, k)
    PROVE  Says(out', Cat(a, Word(r.content)), Cat(k, r.calls))
<1>1. CASE api = "openai"
  <2>1. Says(out \o OpenAICalls(r), a, Cat(k, r.calls))
    BY CallsSay, SaysCalls
  <2>2. Says((out \o OpenAICalls(r)) \o OpenAIContent(r), Cat(a, Word(r.content)), Cat(k, r.calls))
    BY <2>1, ContentSays, SaysText
  <2>3. out' = (out \o OpenAICalls(r)) \o OpenAIContent(r)
    BY <1>1 DEF Tells
  <2>. QED  BY <2>2, <2>3
<1>2. CASE api # "openai"
  <2>1. out' = out \o AnthropicEvents(r)
    BY <1>2 DEF Tells
  <2>2. Says(AnthropicEvents(r), Word(r.content), r.calls)
    BY AnthropicSays DEF HandlerType
  <2>. QED  BY <2>1, <2>2, SaysConcat
<1>. QED  BY <1>1, <1>2

\* A client has been told the answer as far as it has come and is not held back.
Underway(whole, exact, o, stream, rest) ==
    \E a \in Clean, k \in Seq(Calls) : Says(o, a, k) /\ Streaming(whole, exact, a, k, stream, rest)

LEMMA SievedTells ==
    ASSUME HandlerType, NEW whole, NEW exact, NEW c \in Clean, NEW rest \in Clean, Sieved(c),
           Underway(whole, exact, out, sieve, Cat(c, rest))
    PROVE  Underway(whole, exact, out', sieve', rest)
<1>1. PICK a \in Clean, k \in Seq(Calls) :
        Says(out, a, k) /\ Streaming(whole, exact, a, k, sieve, Cat(c, rest))
  BY DEF Underway
<1>2. PICK step : step = ProcessStreamChunk(sieve, c)
  OBVIOUS
<1>3. sieve' = step.state /\ Tells(Visible(step.out))
  BY <1>2 DEF Sieved
<1>4. Goes(whole, exact, a, k, step, rest)
  BY <1>1, <1>2, Sieves
<1>5. c \in Text /\ sieve \in StreamStates
  BY CleanWord DEF HandlerType
<1>6. step.out \in Results
  BY <1>2, <1>5, ProcessType
<1>7. PICK t \in Clean, l \in Seq(Calls) : t = step.out.content /\ l = step.out.calls /\ Untagged(t)
  BY <1>4 DEF Goes
<1>8. step.out = Result(t, l)
  BY <1>6, <1>7 DEF Results, Result
<1>9. Visible(step.out) = step.out
  BY <1>7, <1>8, VisibleSame DEF Clean
<1>10. Says(out', Cat(a, Word(t)), Cat(k, l))
  BY <1>1, <1>3, <1>6, <1>7, <1>9, TellsSays
<1>11. Says(out', Cat(a, t), Cat(k, l))
  BY <1>10, CleanWord
<1>12. Streaming(whole, exact, Cat(a, t), Cat(k, l), sieve', rest)
  BY <1>3, <1>4, <1>7 DEF Goes
<1>13. Cat(a, t) \in Clean /\ Cat(k, l) \in Seq(Calls)
  BY CleanCat, ConcatProperties DEF Cat
<1>. QED  BY <1>11, <1>12, <1>13 DEF Underway

\* A thought passes the sieve.
LEMMA ThoughtPasses == ProcessStreamChunk(NewStream, Thought) = Step(NewStream, Result(Thought, <<>>))
<1>1. <<>> \o Thought = Thought /\ Len(Thought) = 1 /\ Thought[1] = "thought"
  BY WordType, ConcatEmptySeq DEF Thought, Text
<1>2. NewStream.pending = <<>> /\ ~ NewStream.capturing
  BY DEF NewStream
<1>3. Untagged(Thought)
  BY <1>1 DEF Untagged, TagAt, OpenAt, CloseAt
<1>4. FirstMarker(Thought) = 0
  BY <1>3, NoMarker
<1>5. Held(Thought) = 0
  BY <1>1 DEF Held
<1>6. SubSeq(Thought, 1, 1) = Thought /\ SubSeq(Thought, 1 + 1, 1) = <<>>
  <2>1. SubSeq(Thought, 1, Len(Thought)) = Thought
    BY WordType, SubSeqFull DEF Text
  <2>2. SubSeq(Thought, 1 + 1, 1) = <<>>
    BY SubSeqEmpty
  <2>. QED  BY <1>1, <2>1, <2>2
<1>7. [NewStream EXCEPT !.pending = <<>>] = NewStream
  BY NewIdle, PendingIdle
<1>8. Len(Thought) - Held(Thought) = 1 /\ ~ (FirstMarker(Thought) > 0)
  BY <1>1, <1>4, <1>5
<1>9. Passing(Thought, FirstMarker(Thought), Len(Thought) - Held(Thought)) = Step(NewStream, Result(Thought, <<>>))
  BY <1>1, <1>6, <1>7, <1>8 DEF Passing
<1>. QED  BY <1>1, <1>2, <1>9 DEF ProcessStreamChunk

LEMMA ThoughtWord == Word(Thought) = <<>>
<1>1. Thought \in Seq(Symbols) /\ \A i \in 1 .. Len(Thought) : Thought[i] \in {"thought"}
  BY WordType DEF Thought, Text
<1>. QED  BY <1>1, WithoutNothing DEF Word

LEMMA ThoughtTells ==
    ASSUME HandlerType, sieve = NewStream, Sieved(Thought), NEW a, NEW k, Says(out, a, k)
    PROVE  Says(out', a, k) /\ sieve' = NewStream
<1>1. PICK r \in Results : r = Result(Thought, <<>>) /\ r.content = Thought /\ r.calls = <<>>
  <2>1. Thought \in Text /\ <<>> \in Seq(Calls)
    BY WordType, EmptySeq
  <2>. QED  BY <2>1, ResultFields
<1>2. sieve' = NewStream /\ Tells(Visible(r))
  BY <1>1, ThoughtPasses, StepFields DEF Sieved, Step
<1>3. Untagged(Thought) /\ Thought \in Seq(Symbols)
  BY WordType DEF Thought, Untagged, TagAt, OpenAt, CloseAt, Text
<1>4. Visible(r) = r
  BY <1>1, <1>3, VisibleSame
<1>5. Says(out', Cat(a, Word(r.content)), Cat(k, r.calls))
  BY <1>2, <1>4, TellsSays
<1>. QED  BY <1>1, <1>2, <1>5, ThoughtWord, SaysType, TextNone

-----------------------------------------------------------------------------
(* The last events of a stream.                                              *)

LEMMA ReasonSays == \A calls \in BOOLEAN : Says(<<Reason(calls)>>, <<>>, <<>>)
<1>. SUFFICES ASSUME NEW calls \in BOOLEAN PROVE Says(<<Reason(calls)>>, <<>>, <<>>)
  OBVIOUS
<1>1. PICK item \in Text : item = <<IF calls THEN "tool_calls" ELSE "stop">>
  BY WordType
<1>2. Says(<<Event("finish", None, item)>>, <<>>, <<>>)
  BY PlainEvent, PlainKinds
<1>. QED  BY <1>1, <1>2 DEF Reason

LEMMA PairSays ==
    ASSUME NEW e \in Events, NEW f \in Events, Says(<<e>>, <<>>, <<>>), Says(<<f>>, <<>>, <<>>)
    PROVE  Says(<<e, f>>, <<>>, <<>>)
<1>1. Says(<<e>> \o <<f>>, <<>>, <<>>)
  BY SaysPlain
<1>. QED  BY <1>1, Pair

LEMMA TripleSays ==
    ASSUME NEW e \in Events, NEW f \in Events, NEW g \in Events,
           Says(<<e>>, <<>>, <<>>), Says(<<f>>, <<>>, <<>>), Says(<<g>>, <<>>, <<>>)
    PROVE  Says(<<e, f, g>>, <<>>, <<>>)
<1>1. Says(<<f, g>>, <<>>, <<>>)
  BY PairSays
<1>2. Says(<<e>> \o <<f, g>>, <<>>, <<>>)
  BY <1>1, SaysPlain
<1>. QED  BY <1>2, Triple

\* What goes out of the text of the last result.
LastWord(r) == IF api = "openai" /\ Blank(r.content) THEN <<>> ELSE Word(r.content)

LEMMA TellsLastSays ==
    ASSUME HandlerType, NEW r \in Results, NEW calls \in BOOLEAN, TellsLast(r, calls),
           NEW a, NEW k, Says(out, a, k)
    PROVE  Says(out', Cat(a, LastWord(r)), Cat(k, r.calls))
<1>1. CASE api = "openai"
  <2>. DEFINE x == Unless(Blank(r.content), OpenAIContent(r))
              y == OpenAICalls(r)
              z == <<Reason(calls), Event("usage", None, <<>>), Event("done", None, <<>>)>>
  <2>1. Says(x, LastWord(r), <<>>)
    BY <1>1, ContentSays, SaysNothing DEF LastWord, Unless
  <2>2. Says(y, <<>>, r.calls)
    BY CallsSay
  <2>3. Says(z, <<>>, <<>>)
    <3>1. Reason(calls) \in Events /\ Event("usage", None, <<>>) \in Events /\ Event("done", None, <<>>) \in Events
      BY ReasonType, EventType, KindType, WordType
    <3>2. Says(<<Event("usage", None, <<>>)>>, <<>>, <<>>) /\ Says(<<Event("done", None, <<>>)>>, <<>>, <<>>)
      BY PlainEvent, PlainKinds, WordType
    <3>. QED  BY <3>1, <3>2, ReasonSays, TripleSays
  <2>4. out' = ((out \o x) \o y) \o z
    BY <1>1 DEF TellsLast
  <2>. HIDE DEF x, y, z
  <2>5. Says(out \o x, Cat(a, LastWord(r)), k)
    BY <2>1, SaysText
  <2>6. Says((out \o x) \o y, Cat(a, LastWord(r)), Cat(k, r.calls))
    BY <2>2, <2>5, SaysCalls
  <2>. QED  BY <2>3, <2>4, <2>6, SaysPlain
<1>2. CASE api # "openai"
  <2>. DEFINE x == AnthropicEvents(r)
              y == Unless(OpenAfter(r) = None, <<Event("block_stop", OpenAfter(r), <<>>)>>)
              z == <<Reason(calls), Event("message_stop", None, <<>>)>>
  <2>1. Says(x, LastWord(r), r.calls)
    BY <1>2, AnthropicSays DEF LastWord, HandlerType
  <2>2. Says(y, <<>>, <<>>)
    <3>1. OpenAfter(r) \in Nat \cup {None}
      BY AfterType DEF HandlerType
    <3>2. Says(<<Event("block_stop", OpenAfter(r), <<>>)>>, <<>>, <<>>)
      BY <3>1, PlainEvent, PlainKinds, WordType
    <3>. QED  BY <3>2, UnlessSays
  <2>3. Says(z, <<>>, <<>>)
    <3>1. Reason(calls) \in Events /\ Event("message_stop", None, <<>>) \in Events
      BY ReasonType, EventType, KindType, WordType
    <3>2. Says(<<Event("message_stop", None, <<>>)>>, <<>>, <<>>)
      BY PlainEvent, PlainKinds, WordType
    <3>. QED  BY <3>1, <3>2, ReasonSays, PairSays
  <2>4. out' = ((out \o x) \o y) \o z
    BY <1>2 DEF TellsLast
  <2>. HIDE DEF x, y, z
  <2>5. Says(out \o x, Cat(a, LastWord(r)), Cat(k, r.calls))
    BY <2>1, SaysConcat
  <2>6. Says((out \o x) \o y, Cat(a, LastWord(r)), Cat(k, r.calls))
    BY <2>2, <2>5, SaysPlain
  <2>. QED  BY <2>3, <2>4, <2>6, SaysPlain
<1>. QED  BY <1>1, <1>2

\* All of the answer has been told.
ToldAll(whole, exact, o) ==
    \E a \in Clean :
       /\ Says(o, a, ParseCalls(whole)) /\ Solid(a) = Solid(RemoveMarkup(whole))
       /\ exact => a = whole

LEMMA FinishTells ==
    ASSUME HandlerType, FinishStream, tools \/ api = "anthropic", NEW whole, NEW exact,
           exact => api = "anthropic", Underway(whole, exact, out, sieve, <<>>)
    PROVE  ToldAll(whole, exact, out')
<1>1. PICK a \in Clean, k \in Seq(Calls) :
        Says(out, a, k) /\ Streaming(whole, exact, a, k, sieve, <<>>)
  BY DEF Underway
<1>2. PICK t \in Clean, c \in Seq(Calls) :
        /\ FinalizeStream(sieve) = Result(t, c) /\ Untagged(t)
        /\ Cat(k, c) = ParseCalls(whole)
        /\ Solid(Cat(a, t)) = Solid(RemoveMarkup(whole))
        /\ exact => Cat(a, t) = whole
  BY <1>1, Finals
<1>3. PICK r \in Results : r = Result(t, c) /\ r.content = t /\ r.calls = c
  BY ResultFields, CleanWord
<1>4. Visible(r) = r
  BY <1>2, <1>3, VisibleSame DEF Clean
<1>5. TellsLast(r, AnyCalls(r))
  <2>1. ~ (api = "openai" /\ ~ tools)
    OBVIOUS
  <2>. QED  BY <1>2, <1>3, <1>4, <2>1 DEF FinishStream
<1>6. AnyCalls(r) \in BOOLEAN
  BY DEF AnyCalls, HandlerType
<1>7. Says(out', Cat(a, LastWord(r)), ParseCalls(whole))
  BY <1>1, <1>2, <1>3, <1>5, <1>6, TellsLastSays
<1>8. CASE api = "openai" /\ Blank(t)
  <2>1. LastWord(r) = <<>>
    BY <1>3, <1>8 DEF LastWord
  <2>2. Cat(a, <<>>) = a
    BY CleanNone
  <2>3. Solid(t) = <<>>
    BY <1>8, BlankWhite, CleanWhite DEF Clean
  <2>4. Solid(Cat(a, t)) = Solid(a)
    BY <2>3, CleanSolid, CleanNone
  <2>5. ~ exact
    BY <1>8
  <2>. QED  BY <1>2, <1>7, <2>1, <2>2, <2>4, <2>5 DEF ToldAll
<1>9. CASE ~ (api = "openai" /\ Blank(t))
  <2>1. LastWord(r) = t
    BY <1>3, <1>9, CleanWord DEF LastWord
  <2>2. Cat(a, t) \in Clean
    BY CleanCat
  <2>. QED  BY <1>2, <1>7, <2>1, <2>2 DEF ToldAll
<1>. QED  BY <1>8, <1>9

-----------------------------------------------------------------------------
(* What of the events is of the answer.                                      *)

Labels == {"thought", "error", "identifier"}
Specials == Labels \cup {"nil"}
Gist(s) == Without(s, Specials)
Read(s) == Without(s, Labels)
Others == {Thought, Failure, Bare, NoContent}

LEMMA GistClean == \A s \in Text : Gist(s) \in Clean
<1>. SUFFICES ASSUME NEW s \in Seq(Symbols) PROVE Gist(s) \in Seq(Letters)
  BY DEF Text, Clean
<1>1. PICK P : P = {i \in 1 .. Len(s) : s[i] \notin Specials}
  OBVIOUS
<1>2. PICK f : f = Pieces(s, P)
  OBVIOUS
<1>3. /\ f \in Seq(Seq(Symbols)) /\ Len(f) = Len(s)
      /\ \A i \in 1 .. Len(s) : f[i] = IF i \in P THEN <<s[i]>> ELSE <<>>
  BY <1>2, PiecesType
<1>4. ASSUME NEW i \in 1 .. Len(s) PROVE f[i] \in Seq(Letters)
  <2>1. CASE i \in P
    <3>1. s[i] \in Symbols
      BY ElementOfSeq
    <3>2. s[i] \in Letters
      BY <1>1, <2>1, <3>1 DEF Letters, Specials, Labels
    <3>3. <<s[i]>> \in Seq(Letters)
      BY <3>2, OneType
    <3>. QED  BY <1>3, <2>1, <3>3
  <2>2. CASE i \notin P
    <3>1. <<>> \in Seq(Letters)
      BY EmptySeq
    <3>. QED  BY <1>3, <2>2, <3>1
  <2>. QED  BY <2>1, <2>2
<1>5. f \in Seq(Seq(Letters))
  <2>1. Len(s) \in Nat /\ f = [i \in 1 .. Len(s) |-> f[i]]
    BY <1>3, LenProperties
  <2>2. f \in [1 .. Len(s) -> Seq(Letters)]
    BY <1>4, <2>1
  <2>. QED  BY <2>1, <2>2
<1>6. FlattenSeq(f) \in Seq(Letters)
  BY <1>5, FlattenType
<1>. QED  BY <1>2, <1>6, <1>1 DEF Gist, Without, Keep, Pieces

LEMMA GistSame == \A s \in Clean : Gist(s) = s
<1>. SUFFICES ASSUME NEW s \in Clean PROVE Gist(s) = s
  OBVIOUS
<1>1. s \in Seq(Letters) /\ \A i \in 1 .. Len(s) : s[i] \in Letters
  BY ElementOfSeq DEF Clean
<1>2. \A i \in 1 .. Len(s) : s[i] \notin Specials
  BY <1>1 DEF Letters, Specials, Labels
<1>. QED  BY <1>1, <1>2, WithoutSame DEF Gist

LEMMA GistConcat == \A s, t \in Text : Gist(s \o t) = Cat(Gist(s), Gist(t))
<1>1. \A s, t \in Seq(Symbols) : Without(s \o t, Specials) = Without(s, Specials) \o Without(t, Specials)
  BY WithoutConcat
<1>. QED  BY <1>1 DEF Text, Gist, Cat

LEMMA GistOthers ==
    /\ Gist(Thought) = <<>> /\ Gist(Failure) = <<>> /\ Gist(Bare) = <<>> /\ Gist(Identifier) = <<>>
    /\ Gist(NoContent) = <<>>
<1>1. \A s \in Seq(Symbols) : (\A i \in 1 .. Len(s) : s[i] \in Specials) => Without(s, Specials) = <<>>
  BY WithoutNothing
<1>2. \A i \in 1 .. Len(Thought) : Thought[i] \in Specials
  BY DEF Thought, Specials, Labels
<1>3. \A i \in 1 .. Len(Failure) : Failure[i] \in Specials
  BY DEF Failure, Specials, Labels
<1>4. \A i \in 1 .. Len(Identifier) : Identifier[i] \in Specials
  BY DEF Identifier, Specials, Labels
<1>5. \A i \in 1 .. Len(Bare) : Bare[i] \in Specials
  BY DEF Bare, Specials
<1>6. \A i \in 1 .. Len(NoContent) : NoContent[i] \in Specials
  BY DEF NoContent, Specials
<1>. QED  BY <1>1, <1>2, <1>3, <1>4, <1>5, <1>6, WordType DEF Gist, Text

LEMMA OthersApart ==
    /\ Thought \notin Clean /\ Failure \notin Clean /\ NoContent \notin Clean /\ Bare \in Clean
    /\ Thought # Failure /\ Thought # NoContent /\ Failure # NoContent
<1>1. ASSUME NEW s \in Clean, Len(s) = 1 PROVE s[1] \notin Specials
  <2>1. 1 \in 1 .. Len(s) /\ s \in Seq(Letters)
    BY <1>1 DEF Clean
  <2>2. s[1] \in Letters
    BY <2>1, ElementOfSeq
  <2>. QED  BY <2>2 DEF Letters, Specials, Labels
<1>2. /\ Len(Thought) = 1 /\ Thought[1] = "thought" /\ Len(Failure) = 1 /\ Failure[1] = "error"
      /\ Len(NoContent) = 1 /\ NoContent[1] = "nil"
  BY DEF Thought, Failure, NoContent
<1>3. /\ Thought[1] \in Specials /\ Failure[1] \in Specials /\ NoContent[1] \in Specials
      /\ Thought[1] # Failure[1] /\ Thought[1] # NoContent[1] /\ Failure[1] # NoContent[1]
  BY <1>2 DEF Specials, Labels
<1>. QED  BY <1>1, <1>2, <1>3, CleanNone DEF Bare

LEMMA LabelsInText == ToSet(Thought \o Failure \o Identifier) = Labels
<1>1. PICK a, b, c : a = "thought" /\ b = "error" /\ c = "identifier"
  OBVIOUS
<1>2. (<<a>> \o <<b>>) \o <<c>> = <<a, b, c>>
  <2>1. PICK S : S = {a, b, c}
    OBVIOUS
  <2>2. a \in S /\ b \in S /\ c \in S
    BY <2>1
  <2>3. <<b>> \o <<c>> = <<b, c>>
    BY <2>2, Pair
  <2>4. <<a>> \o <<b, c>> = <<a, b, c>>
    BY <2>2, Triple
  <2>5. <<a>> \in Seq(S) /\ <<b>> \in Seq(S) /\ <<c>> \in Seq(S)
    BY <2>2, OneType
  <2>6. (<<a>> \o <<b>>) \o <<c>> = <<a>> \o (<<b>> \o <<c>>)
    BY <2>5, ConcatAssociative
  <2>. QED  BY <2>3, <2>4, <2>6
<1>3. ToSet(<<a, b, c>>) = {a, b, c}
  BY DEF ToSet
<1>. QED  BY <1>1, <1>2, <1>3 DEF Thought, Failure, Identifier, Labels

LEMMA ReadOthers == Read(Thought) = <<>> /\ Read(Failure) = <<>> /\ Read(Identifier) = <<>>
<1>1. \A s \in Seq(Symbols) : (\A i \in 1 .. Len(s) : s[i] \in Labels) => Without(s, Labels) = <<>>
  BY WithoutNothing
<1>2. \A i \in 1 .. Len(Thought) : Thought[i] \in Labels
  BY DEF Thought, Labels
<1>3. \A i \in 1 .. Len(Failure) : Failure[i] \in Labels
  BY DEF Failure, Labels
<1>4. \A i \in 1 .. Len(Identifier) : Identifier[i] \in Labels
  BY DEF Identifier, Labels
<1>. QED  BY <1>1, <1>2, <1>3, <1>4, WordType DEF Read, Text

LEMMA ReadSame == \A s \in Clean : Read(s) = s
<1>. SUFFICES ASSUME NEW s \in Clean PROVE Read(s) = s
  OBVIOUS
<1>1. s \in Seq(Letters) /\ \A i \in 1 .. Len(s) : s[i] \in Letters
  BY ElementOfSeq DEF Clean
<1>2. \A i \in 1 .. Len(s) : s[i] \notin Labels
  BY <1>1 DEF Letters, Labels
<1>. QED  BY <1>1, <1>2, WithoutSame DEF Read

LEMMA ReadConcat == \A s, t \in Text : Read(s \o t) = Cat(Read(s), Read(t))
<1>1. \A s, t \in Seq(Symbols) : Without(s \o t, Labels) = Without(s, Labels) \o Without(t, Labels)
  BY WithoutConcat
<1>. QED  BY <1>1 DEF Text, Read, Cat

-----------------------------------------------------------------------------
(* The handler reads an event.                                               *)

LEMMA ShowsSays ==
    ASSUME NEW e, Says(e, <<>>, <<>>), Shows(e), NEW whole, NEW exact, NEW rest,
           Underway(whole, exact, out, sieve, rest)
    PROVE  Underway(whole, exact, out', sieve', rest) /\ sieve' = sieve
<1>1. out' = out \o e /\ sieve' = sieve
  BY DEF Shows
<1>2. \A a, k : Says(out, a, k) => Says(out', a, k)
  BY <1>1, SaysPlain
<1>. QED  BY <1>1, <1>2 DEF Underway

LEMMA ThoughtShownSays == Says(ThoughtShown, <<>>, <<>>)
<1>1. Says(<<Event("reasoning", None, Thought)>>, <<>>, <<>>)
  BY PlainEvent, PlainKinds, WordType
<1>. QED  BY <1>1, UnlessSays DEF ThoughtShown

\* Nothing of the answer.
LEMMA OtherTells ==
    ASSUME HandlerType, api \in Streamed, NEW event \in Others, event # NoContent, Handle(event),
           tools \/ api = "anthropic",
           event = Thought => sieve = NewStream, NEW whole, NEW exact, NEW rest,
           Underway(whole, exact, out, sieve, rest)
    PROVE  Underway(whole, exact, out', sieve', rest) /\ sieve' = sieve
<1>1. api \notin Whole
  BY DEF Streamed, Whole
<1>2. Says(<<>>, <<>>, <<>>) /\ Says(Started, <<>>, <<>>) /\ Says(ThoughtShown, <<>>, <<>>)
  BY SaysNothing, StartedSays, ThoughtShownSays
<1>3. CASE \E e : Shows(e) /\ Says(e, <<>>, <<>>)
  BY <1>3, ShowsSays
<1>4. CASE ~ \E e : Shows(e) /\ Says(e, <<>>, <<>>)
  <2>1. ~ Shows(<<>>) /\ ~ Shows(Started) /\ ~ Shows(ThoughtShown)
    BY <1>2, <1>4
  <2>2. event = Bare => Blank(event)
    BY DEF Bare, Blank, ToSet
  <2>3. event = Thought /\ Sieved(event)
    <3>1. CASE api = "openai"
      BY <1>1, <2>1, <2>2, <3>1 DEF Handle, HandleWhole, HandleOpenAI, HandleAnthropic, Others
    <3>2. CASE api = "anthropic"
      BY <1>1, <2>1, <3>2 DEF Handle, HandleWhole, HandleOpenAI, HandleAnthropic, Others
    <3>. QED  BY <3>1, <3>2 DEF Streamed
  <2>4. sieve = NewStream
    BY <2>3
  <2>5. Sieved(Thought)
    BY <2>3
  <2>6. sieve' = NewStream /\ \A a, k : Says(out, a, k) => Says(out', a, k)
    <3>1. \A a, k : Says(out, a, k) => Says(out', a, k) /\ sieve' = NewStream
      BY <2>4, <2>5, ThoughtTells
    <3>2. PICK a, k : Says(out, a, k)
      BY DEF Underway
    <3>. QED  BY <3>1, <3>2
  <2>. QED  BY <2>4, <2>6 DEF Underway
<1>. QED  BY <1>3, <1>4

\* Some of the answer.
LEMMA ChunkTells ==
    ASSUME HandlerType, api \in Streamed, NEW c \in Clean, Handle(c), tools \/ api = "anthropic",
           api = "openai" => deltas # "roleless",
           NEW whole, NEW exact, exact => api = "anthropic", NEW rest \in Clean,
           Underway(whole, exact, out, sieve, Cat(c, rest))
    PROVE  Underway(whole, exact, out', sieve', rest)
<1>1. api \notin Whole /\ c # Thought /\ c # Failure /\ c # NoContent
  BY OthersApart DEF Streamed, Whole
<1>2. CASE Sieved(c)
  BY <1>2, SievedTells
<1>3. CASE api = "openai" /\ Blank(c) /\ Shows(<<>>)
  <2>1. White(c) /\ ~ exact
    BY <1>3, BlankWhite DEF Clean
  <2>2. PICK a \in Clean, k \in Seq(Calls) :
          Says(out, a, k) /\ Streaming(whole, exact, a, k, sieve, Cat(c, rest))
    BY DEF Underway
  <2>3. Streaming(whole, exact, a, k, sieve, rest)
    BY <2>1, <2>2, StreamDrops
  <2>4. Underway(whole, exact, out, sieve, rest)
    BY <2>2, <2>3 DEF Underway
  <2>. QED  BY <1>3, <2>4, SaysNothing, ShowsSays
<1>4. CASE c = Bare /\ Shows(Started)
  <2>1. Cat(c, rest) = rest
    BY <1>4, CleanNone DEF Bare
  <2>2. Underway(whole, exact, out, sieve, rest)
    BY <2>1
  <2>. QED  BY <1>4, <2>2, StartedSays, ShowsSays
<1>5. Sieved(c) \/ (api = "openai" /\ Blank(c) /\ Shows(<<>>)) \/ (c = Bare /\ Shows(Started))
  <2>1. CASE api = "openai"
    BY <1>1, <2>1 DEF Handle, HandleWhole, HandleOpenAI, HandleAnthropic
  <2>2. CASE api = "anthropic"
    BY <1>1, <2>2 DEF Handle, HandleWhole, HandleOpenAI, HandleAnthropic
  <2>. QED  BY <2>1, <2>2 DEF Streamed
<1>. QED  BY <1>2, <1>3, <1>4, <1>5

-----------------------------------------------------------------------------
(* An answer with one block, as a whole.                                     *)

LEMMA CutClean ==
    ASSUME NEW s \in Clean, NEW m \in 1 .. Len(s) + 1, NEW k \in m - 1 .. Len(s), NEW n \in k .. Len(s)
    PROVE  /\ SubSeq(s, m, k) \in Clean /\ SubSeq(s, k + 1, n) \in Clean
           /\ SubSeq(s, m, n) = Cat(SubSeq(s, m, k), SubSeq(s, k + 1, n))
<1>1. Len(s) \in Nat /\ s \in Seq(Letters)
  BY LenProperties DEF Clean
<1>2. m \in Int /\ k \in Int /\ n \in Int /\ k + 1 \in Int /\ 1 <= m /\ 1 <= k + 1
      /\ k <= Len(s) /\ n <= Len(s)
  BY <1>1
<1>3. \A i \in 1 .. Len(s) : s[i] \in Letters
  BY <1>1, ElementOfSeq
<1>4. \A i \in m .. k : s[i] \in Letters
  <2>1. \A i \in m .. k : i \in 1 .. Len(s)
    BY <1>1, <1>2
  <2>. QED  BY <1>3, <2>1
<1>5. \A i \in k + 1 .. n : s[i] \in Letters
  <2>1. \A i \in k + 1 .. n : i \in 1 .. Len(s)
    BY <1>1, <1>2
  <2>. QED  BY <1>3, <2>1
<1>6. SubSeq(s, m, k) \in Seq(Letters)
  BY <1>2, <1>4, SubSeqProperties
<1>7. SubSeq(s, k + 1, n) \in Seq(Letters)
  BY <1>2, <1>5, SubSeqProperties
<1>8. SubSeq(s, m, k) \o SubSeq(s, k + 1, n) = SubSeq(s, m, n)
  BY <1>1, ConcatAdjacentSubSeq
<1>. QED  BY <1>6, <1>7, <1>8 DEF Clean, Cat

LEMMA OneBlockParts ==
    ASSUME NEW s \in Clean, OneBlock(s), ~ Untagged(Solid(s))
    PROVE  \E u, b, v \in Clean :
              s = Cat(u, Cat(b, v)) /\ CallBlock(b) /\ Untagged(Solid(Cat(u, v)))
<1>1. PICK i \in 1 .. Len(s), j \in 1 .. Len(s) :
        /\ i < j /\ CallBlock(SubSeq(s, i, j))
        /\ Untagged(Solid(SubSeq(s, 1, i - 1) \o SubSeq(s, j + 1, Len(s))))
  BY DEF OneBlock
<1>2. Len(s) \in Nat
  BY CleanLen
<1>3. PICK h \in Nat : h = i - 1 /\ h + 1 = i
  BY <1>2
<1>4. /\ 1 \in 1 .. Len(s) + 1 /\ h \in 1 - 1 .. Len(s) /\ Len(s) \in h .. Len(s)
      /\ i \in 1 .. Len(s) + 1 /\ j \in i - 1 .. Len(s) /\ Len(s) \in j .. Len(s)
  BY <1>1, <1>2, <1>3
<1>5. /\ SubSeq(s, 1, h) \in Clean
      /\ SubSeq(s, 1, Len(s)) = Cat(SubSeq(s, 1, h), SubSeq(s, i, Len(s)))
  BY <1>3, <1>4, CutClean, ZenonT(30)
<1>6. /\ SubSeq(s, i, j) \in Clean /\ SubSeq(s, j + 1, Len(s)) \in Clean
      /\ SubSeq(s, i, Len(s)) = Cat(SubSeq(s, i, j), SubSeq(s, j + 1, Len(s)))
  BY <1>4, CutClean
<1>7. SubSeq(s, 1, Len(s)) = s
  BY SubSeqFull DEF Clean
<1>8. Untagged(Solid(Cat(SubSeq(s, 1, h), SubSeq(s, j + 1, Len(s)))))
  BY <1>1, <1>3 DEF Cat
<1>. QED  BY <1>1, <1>5, <1>6, <1>7, <1>8

\* What the block is for the whole.
LEMMA AroundBlock ==
    ASSUME NEW u \in Clean, NEW b \in Clean, NEW v \in Clean, CallBlock(b), Untagged(Solid(Cat(u, v)))
    PROVE  ParseCalls(Cat(u, Cat(b, v))) = ParseCalls(b) /\ RemoveMarkup(Cat(u, Cat(b, v))) = Cat(u, v)
<1>1. Untagged(Cat(u, v)) /\ Untagged(u) /\ Untagged(v)
  <2>1. Cat(u, v) \in Clean
    BY CleanCat
  <2>. QED  BY <2>1, CleanUntaggedSolid, CleanUntagged
<1>2. Closed(b) /\ RemoveMarkup(b) = <<>>
  BY BlockShape DEF Clean, CallBlock
<1>3. ParseCalls(u \o (b \o v)) = ParseCalls(b)
  BY <1>1, <1>2, ParseAround DEF Clean
<1>4. RemoveMarkup(u \o (b \o v)) = u \o v
  BY <1>1, <1>2, RemoveAround DEF Clean, Cat
<1>. QED  BY <1>3, <1>4 DEF Cat

\* Before anything has come.
LEMMA Begins ==
    ASSUME NEW whole \in Clean, OneBlock(whole), NEW exact, exact => Untagged(Solid(whole))
    PROVE  /\ Free(whole, exact, <<>>, <<>>, whole) \/ Ahead(whole, exact, <<>>, <<>>, whole)
           /\ Untagged(Solid(whole)) => RemoveMarkup(whole) = whole
           /\ ~ Untagged(Solid(whole)) => ParseCalls(whole) # <<>>
<1>1. CASE Untagged(Solid(whole))
  <2>1. Untagged(whole)
    BY <1>1, CleanUntaggedSolid
  <2>2. RemoveMarkup(whole) = whole /\ ParseCalls(whole) = <<>>
    BY <2>1, RemoveUntagged, ParseCallsUntagged DEF Clean
  <2>. QED  BY <1>1, <2>2, CleanNone DEF Free
<1>2. CASE ~ Untagged(Solid(whole))
  <2>1. PICK u \in Clean, b \in Clean, v \in Clean :
          whole = Cat(u, Cat(b, v)) /\ CallBlock(b) /\ Untagged(Solid(Cat(u, v)))
    BY <1>2, OneBlockParts
  <2>2. ParseCalls(whole) = ParseCalls(b) /\ RemoveMarkup(whole) = Cat(u, v)
    BY <2>1, AroundBlock
  <2>3. Block(b, whole) /\ ParseCalls(b) # <<>>
    BY <2>1, <2>2 DEF Block, CallBlock
  <2>4. Cat(<<>>, Cat(u, v)) = Cat(u, v)
    BY CleanNone, CleanCat
  <2>5. ~ exact
    BY <1>2
  <2>6. Ahead(whole, exact, <<>>, <<>>, whole)
    BY <2>1, <2>2, <2>3, <2>4, <2>5 DEF Ahead
  <2>. QED  BY <1>2, <2>2, <2>3, <2>6
<1>. QED  BY <1>1, <1>2

\* What a client that is answered whole will be told of.
Left(whole, x) == Free(whole, FALSE, <<>>, <<>>, x) \/ Ahead(whole, FALSE, <<>>, <<>>, x)

LEMMA LeftDrops ==
    ASSUME NEW whole, NEW q \in Clean, NEW c \in Clean, White(c), NEW y \in Clean,
           Left(whole, Cat(q, Cat(c, y)))
    PROVE  Left(whole, Cat(q, y))
BY FreeDrops, AheadDrops, CleanNone DEF Left

LEMMA LeftTrims ==
    ASSUME NEW whole, NEW g \in Clean, NEW c \in Clean, NEW y \in Clean, Left(whole, Cat(g, Cat(c, y)))
    PROVE  Trim(c) \in Clean /\ Left(whole, Cat(Cat(g, Trim(c)), y))
<1>1. PICK p \in Clean, t \in Clean, w \in Clean :
        White(p) /\ White(w) /\ t = Trim(c) /\ c = Cat(p, Cat(t, w))
  <2>1. PICK p \in Seq(Letters), q \in Seq(Letters) :
          /\ White(p) /\ White(q) /\ Trim(c) \in Seq(Letters) /\ TrimLeft(c) \in Seq(Letters)
          /\ c = p \o TrimLeft(c) /\ TrimLeft(c) = Trim(c) \o q
    BY TrimParts DEF Clean
  <2>. QED  BY <2>1 DEF Clean, Cat
<1>2. /\ Cat(w, y) \in Clean /\ Cat(t, Cat(w, y)) \in Clean /\ Cat(t, w) \in Clean /\ Cat(g, t) \in Clean
  BY CleanCat
<1>3. Cat(c, y) = Cat(p, Cat(t, Cat(w, y)))
  BY <1>1, <1>2, CleanAssoc
<1>4. Left(whole, Cat(g, Cat(t, Cat(w, y))))
  BY <1>1, <1>2, <1>3, LeftDrops
<1>5. Cat(g, Cat(t, Cat(w, y))) = Cat(Cat(g, t), Cat(w, y))
  BY <1>2, CleanAssoc
<1>6. Left(whole, Cat(Cat(g, t), y))
  BY <1>1, <1>2, <1>4, <1>5, LeftDrops
<1>. QED  BY <1>1, <1>6

LEMMA WordNoWhite == NoWhite(Thought) /\ NoWhite(Failure)
<1>1. ToSet(Thought) = {"thought"} /\ ToSet(Failure) = {"error"}
  BY DEF ToSet, Thought, Failure
<1>2. " " \notin {"thought"} /\ " " \notin {"error"}
  BY Zenon
<1>. QED  BY <1>1, <1>2, Zenon DEF NoWhite

LEMMA WholeReads ==
    ASSUME HandlerType, api \in Whole, NEW event \in Text, event \in Others \cup Clean, Handle(event),
           NEW whole, NEW rest \in Clean, Left(whole, Cat(Gist(body), Cat(Gist(event), rest))),
           Read(body) = Gist(body)
    PROVE  Left(whole, Cat(Gist(body'), rest)) /\ sieve' = sieve /\ Read(body') = Gist(body')
<1>1. body' = body \o Content(event) /\ sieve' = sieve
  BY DEF Handle, HandleWhole, HandleOpenAI, HandleAnthropic, Whole
<1>2. body \in Text /\ Content(event) \in Text
  BY ContentType DEF HandlerType
<1>3. PICK g \in Clean : g = Gist(body)
  BY <1>2, GistClean
<1>4. Gist(body') = Cat(g, Gist(Content(event))) /\ Read(body') = Cat(g, Read(Content(event)))
  BY <1>1, <1>2, <1>3, GistConcat, ReadConcat
<1>5. CASE event \in Others
  <2>1. Gist(event) = <<>>
    BY <1>5, GistOthers DEF Others
  <2>2. Gist(Content(event)) = <<>> /\ Read(Content(event)) = <<>>
    <3>1. Trim(Thought) = Thought /\ Trim(Failure) = Failure
      BY TrimSame, WordNoWhite, WordType DEF Text
    <3>. QED  BY <1>5, <3>1, GistOthers, ReadOthers DEF Others, Content
  <2>3. Cat(<<>>, rest) = rest /\ Cat(g, <<>>) = g
    BY CleanNone
  <2>. QED  BY <1>1, <1>3, <1>4, <2>1, <2>2, <2>3
<1>6. CASE event \in Clean /\ event \notin Others
  <2>1. Gist(event) = event /\ Content(event) = Trim(event)
    BY <1>6, GistSame DEF Content, Others
  <2>2. Trim(event) \in Clean /\ Left(whole, Cat(Cat(g, Trim(event)), rest))
    BY <1>3, <1>6, <2>1, LeftTrims
  <2>3. Gist(Trim(event)) = Trim(event) /\ Read(Trim(event)) = Trim(event)
    BY <2>2, GistSame, ReadSame
  <2>. QED  BY <1>1, <1>4, <2>1, <2>2, <2>3
<1>. QED  BY <1>5, <1>6

LEMMA LeftGives ==
    ASSUME NEW whole, NEW x \in Clean, Left(whole, x)
    PROVE  /\ ParseCalls(x) = ParseCalls(whole)
           /\ \E t \in Clean : t = Trim(RemoveMarkup(x)) /\ Solid(t) = Solid(RemoveMarkup(whole))
<1>1. \A s \in Clean : Trim(s) \in Clean /\ Solid(Trim(s)) = Solid(s)
  BY TrimType, SolidTrim DEF Clean
<1>2. CASE Free(whole, FALSE, <<>>, <<>>, x)
  <2>1. ParseCalls(whole) = <<>> /\ Untagged(x) /\ Solid(x) = Solid(RemoveMarkup(whole))
    BY <1>2, CleanUntaggedSolid, CleanNone DEF Free
  <2>2. RemoveMarkup(x) = x /\ ParseCalls(x) = <<>>
    BY <2>1, RemoveUntagged, ParseCallsUntagged DEF Clean
  <2>. QED  BY <1>1, <2>1, <2>2
<1>3. CASE Ahead(whole, FALSE, <<>>, <<>>, x)
  <2>1. PICK u \in Clean, b \in Clean, v \in Clean :
          /\ x = Cat(u, Cat(b, v)) /\ Block(b, whole) /\ Untagged(Solid(Cat(u, v)))
          /\ Solid(Cat(<<>>, Cat(u, v))) = Solid(RemoveMarkup(whole))
    BY <1>3 DEF Ahead
  <2>2. ParseCalls(x) = ParseCalls(b) /\ RemoveMarkup(x) = Cat(u, v) /\ ParseCalls(b) = ParseCalls(whole)
    BY <2>1, AroundBlock DEF Block
  <2>3. Cat(u, v) \in Clean /\ Cat(<<>>, Cat(u, v)) = Cat(u, v)
    BY CleanCat, CleanNone
  <2>. QED  BY <1>1, <2>1, <2>2, <2>3
<1>. QED  BY <1>2, <1>3 DEF Left

LEMMA LeftSome ==
    ASSUME NEW whole \in Clean, OneBlock(whole), Solid(whole) # <<>>, Left(whole, <<>>)
    PROVE  FALSE
<1>1. CASE Free(whole, FALSE, <<>>, <<>>, <<>>)
  <2>1. ParseCalls(whole) = <<>> /\ Solid(Cat(<<>>, <<>>)) = Solid(RemoveMarkup(whole))
    BY <1>1 DEF Free
  <2>2. RemoveMarkup(whole) = whole
    BY <2>1, Begins
  <2>3. White(<<>>) /\ Cat(<<>>, <<>>) = <<>> /\ <<>> \in Clean
    BY CleanNone DEF White
  <2>4. Solid(<<>>) = <<>>
    BY <2>3, CleanWhite
  <2>. QED  BY <2>1, <2>2, <2>3, <2>4
<1>2. CASE Ahead(whole, FALSE, <<>>, <<>>, <<>>)
  <2>1. PICK u \in Clean, b \in Clean, v \in Clean : <<>> = Cat(u, Cat(b, v)) /\ Block(b, whole)
    BY <1>2 DEF Ahead
  <2>2. 4 <= Len(<<>>)
    BY <2>1, BlockLong
  <2>. QED  BY <2>2
<1>. QED  BY <1>1, <1>2 DEF Left

LEMMA MessageSays ==
    ASSUME NEW calls \in Seq(Calls), VisibleContent \in Clean
    PROVE  Says(Message(calls), VisibleContent, calls)
<1>1. PICK t \in Clean : t = VisibleContent /\ t \in Text /\ Word(t) = t
  BY CleanWord
<1>2. PICK r \in Results : r = Result(<<>>, calls) /\ r.calls = calls
  BY ResultFields, WordType
<1>3. 0 \in Nat \cup {None} /\ "content" \in Kinds /\ "content" \in Worded
  BY KindType DEF Worded
<1>4. Says(<<Event("content", 0, t)>>, t, <<>>)
  BY <1>1, <1>3, SaysOne
<1>5. Says(Unless(t = <<>> /\ calls # <<>>, <<Event("content", 0, t)>>), t, <<>>)
  BY <1>4, UnlessSays
<1>6. Says(OpenAICalls(r), <<>>, calls)
  BY <1>2, CallsSay
<1>7. Says(Unless(t = <<>> /\ calls # <<>>, <<Event("content", 0, t)>>) \o OpenAICalls(r), t, Cat(<<>>, calls))
  BY <1>5, <1>6, SaysCalls
<1>8. Cat(<<>>, calls) = calls
  BY CallsCat
<1>9. Says(<<Reason(calls # <<>>)>>, <<>>, <<>>)
  BY ReasonSays
<1>. QED  BY <1>1, <1>2, <1>7, <1>8, <1>9, SaysPlain DEF Message

LEMMA CompletionSays ==
    ASSUME NEW calls \in Seq(Calls), VisibleContent \in Clean
    PROVE  Says(Completion(calls), VisibleContent, calls)
<1>1. PICK t \in Clean : t = VisibleContent /\ t \in Text /\ Word(t) = t
  BY CleanWord
<1>2. PICK r \in Results : r = Result(<<>>, calls) /\ r.calls = calls
  BY ResultFields, WordType
<1>3. PICK q \in Results : q = Result(t, calls) /\ q.content = t
  BY <1>1, ResultFields
<1>4. Says(Unless(Thought[1] \notin ToSet(body), ThoughtShown), <<>>, <<>>)
  BY ThoughtShownSays, UnlessSays
<1>5. Says(OpenAIContent(q), t, <<>>)
  BY <1>1, <1>3, ContentSays
<1>6. Says(OpenAICalls(r), <<>>, calls)
  BY <1>2, CallsSay
<1>7. Says(Unless(Thought[1] \notin ToSet(body), ThoughtShown) \o OpenAIContent(q), t, <<>>)
  BY <1>4, <1>5, PlainSays
<1>8. Says((Unless(Thought[1] \notin ToSet(body), ThoughtShown) \o OpenAIContent(q)) \o OpenAICalls(r), t, Cat(<<>>, calls))
  BY <1>6, <1>7, SaysCalls
<1>9. Cat(<<>>, calls) = calls
  BY CallsCat
<1>10. Says(<<Reason(calls # <<>>)>>, <<>>, <<>>)
  BY ReasonSays
<1>. QED  BY <1>1, <1>2, <1>3, <1>8, <1>9, <1>10, SaysPlain DEF Completion

\* An answer that is told whole.
LEMMA WholeTells ==
    ASSUME HandlerType, FinishWhole, tools, NEW whole \in Clean, OneBlock(whole), Solid(whole) # <<>>,
           Left(whole, Gist(body)), Read(body) = Gist(body)
    PROVE  out' = <<Event("error", None, <<>>)>> \/ ToldAll(whole, FALSE, out')
<1>1. PICK x \in Clean : x = Gist(body) /\ x # <<>>
  BY GistClean, LeftSome DEF HandlerType
<1>2. FullContent = x
  <2>1. Without(body, ToSet(Thought \o Failure \o Identifier)) = x
    BY <1>1, LabelsInText DEF Read
  <2>. QED  BY <1>1, <2>1 DEF FullContent
<1>3. ParseCalls(x) = ParseCalls(whole)
      /\ \E t \in Clean : t = Trim(RemoveMarkup(x)) /\ Solid(t) = Solid(RemoveMarkup(whole))
  BY <1>1, LeftGives
<1>4. PICK t \in Clean : t = VisibleContent /\ Solid(t) = Solid(RemoveMarkup(whole))
  BY <1>2, <1>3 DEF VisibleContent
<1>5. PICK calls \in Seq(Calls) : calls = ParseCalls(whole) /\ calls = ParseCalls(x)
  BY <1>3, ParseType
<1>6. \/ out' = <<Event("error", None, <<>>)>>
      \/ out' = IF api = "completion" THEN Completion(calls) ELSE Message(calls)
  BY <1>2, <1>5 DEF FinishWhole
<1>7. Says(Completion(calls), t, calls) /\ Says(Message(calls), t, calls)
  BY <1>4, CompletionSays, MessageSays
<1>8. Says(out', t, ParseCalls(whole)) => ToldAll(whole, FALSE, out')
  BY <1>4 DEF ToldAll
<1>. QED  BY <1>5, <1>6, <1>7, <1>8

-----------------------------------------------------------------------------
(* The events that are held back.                                            *)

\* What is on the way to the client: b is held back, of the answer n symbols have come.
Coming(whole, who, exact, stream, o, text, x) ==
    /\ who \in Streamed => Underway(whole, exact, o, stream, x)
    /\ who \in Whole => Left(whole, Cat(Gist(text), x)) /\ Read(text) = Gist(text)

InBuffer(b, n, stream) ==
    /\ \A i \in 1 .. Len(b) : b[i] \in Others \cup Clean
    /\ \A i \in 1 .. Len(b) : b[i] = Thought => stream = NewStream /\ \A j \in 1 .. i - 1 : b[j] \in Others
    /\ n = 0 => stream = NewStream /\ \A i \in 1 .. Len(b) : b[i] \in Others

ToCome(whole, b, n) == Cat(Gist(FlattenSeq(b)), SubSeq(whole, n + 1, Len(whole)))

LEMMA BufferMore ==
    ASSUME NEW b \in Seq(Text), NEW n \in Nat, NEW m \in Nat, NEW stream, InBuffer(b, n, stream),
           NEW e \in Others \cup Clean, e = Thought => n = 0, m = 0 => n = 0 /\ e \in Others
    PROVE  InBuffer(Append(b, e), m, stream)
<1>1. PICK l \in Nat : l = Len(b)
  BY LenProperties
<1>2. e \in Text
  BY CleanWord, WordType DEF Others
<1>3. PICK c \in Seq(Text) :
        c = Append(b, e) /\ Len(c) = l + 1 /\ c[l + 1] = e /\ \A i \in 1 .. l : c[i] = b[i]
  <2>1. /\ Append(b, e) \in Seq(Text) /\ Len(Append(b, e)) = Len(b) + 1
        /\ \A i \in 1 .. Len(b) : Append(b, e)[i] = b[i]
        /\ Append(b, e)[Len(b) + 1] = e
    BY <1>2, AppendProperties
  <2>. QED  BY <1>1, <2>1
<1>4. \A i \in 1 .. l + 1 : i \in 1 .. l \/ i = l + 1
  OBVIOUS
<1>5. \A i \in 1 .. l + 1 : c[i] \in Others \cup Clean
  BY <1>1, <1>3, <1>4 DEF InBuffer
<1>6. ASSUME NEW i \in 1 .. l + 1, c[i] = Thought
      PROVE  stream = NewStream /\ \A j \in 1 .. i - 1 : c[j] \in Others
  <2>1. CASE i \in 1 .. l
    <3>1. \A j \in 1 .. i - 1 : j \in 1 .. l
      BY <2>1
    <3>2. b[i] = Thought
      BY <1>3, <1>6, <2>1
    <3>3. stream = NewStream /\ \A j \in 1 .. i - 1 : b[j] \in Others
      BY <1>1, <2>1, <3>2 DEF InBuffer
    <3>. QED  BY <1>3, <3>1, <3>3
  <2>2. CASE i = l + 1
    <3>1. n = 0
      BY <1>3, <1>6, <2>2
    <3>2. i - 1 = l
      BY <2>2
    <3>. QED  BY <1>1, <1>3, <3>1, <3>2 DEF InBuffer
  <2>. QED  BY <1>4, <2>1, <2>2
<1>7. ASSUME m = 0 PROVE stream = NewStream /\ \A i \in 1 .. l + 1 : c[i] \in Others
  BY <1>1, <1>3, <1>4, <1>7 DEF InBuffer
<1>. QED  BY <1>3, <1>5, <1>6, <1>7 DEF InBuffer

LEMMA BufferLess ==
    ASSUME NEW b \in Seq(Text), b # <<>>, NEW n, NEW old, NEW new, InBuffer(b, n, old),
           b[1] \in Others => new = old
    PROVE  /\ InBuffer(Tail(b), n, new) /\ b[1] \in Others \cup Clean
           /\ b[1] = Thought => old = NewStream
<1>1. PICK l \in Nat : l = Len(b) /\ l # 0
  BY LenProperties, EmptySeq
<1>2. PICK c \in Seq(Text) : c = Tail(b) /\ Len(c) = l - 1 /\ \A i \in 1 .. l - 1 : c[i] = b[i + 1]
  <2>1. /\ Tail(b) \in Seq(Text) /\ Len(Tail(b)) = Len(b) - 1
        /\ \A i \in 1 .. Len(Tail(b)) : Tail(b)[i] = b[i + 1]
    BY HeadTailProperties
  <2>. QED  BY <1>1, <2>1
<1>3. 1 \in 1 .. l /\ \A i \in 1 .. l - 1 : i + 1 \in 1 .. l
  BY <1>1
<1>4. b[1] \in Others \cup Clean /\ (b[1] = Thought => old = NewStream)
  BY <1>1, <1>3 DEF InBuffer
<1>5. \A i \in 1 .. l - 1 : c[i] \in Others \cup Clean
  BY <1>1, <1>2, <1>3 DEF InBuffer
<1>6. ASSUME NEW i \in 1 .. l - 1, c[i] = Thought
      PROVE  new = NewStream /\ \A j \in 1 .. i - 1 : c[j] \in Others
  <2>1. b[i + 1] = Thought /\ i + 1 \in 1 .. l
    BY <1>2, <1>3, <1>6
  <2>2. old = NewStream /\ \A j \in 1 .. (i + 1) - 1 : b[j] \in Others
    BY <1>1, <2>1 DEF InBuffer
  <2>3. 1 \in 1 .. (i + 1) - 1 /\ \A j \in 1 .. i - 1 : j + 1 \in 1 .. (i + 1) - 1 /\ j \in 1 .. l - 1
    BY <1>1
  <2>. QED  BY <1>2, <2>2, <2>3
<1>7. ASSUME n = 0 PROVE new = NewStream /\ \A i \in 1 .. l - 1 : c[i] \in Others
  BY <1>1, <1>2, <1>3, <1>7 DEF InBuffer
<1>. QED  BY <1>2, <1>4, <1>5, <1>6, <1>7 DEF InBuffer

-----------------------------------------------------------------------------
(* The answer on its way: what has been told, what the sieve holds back,     *)
(* what is held back of the events, and what has yet to come.                *)

OnTheWay(whole, who, exact, b, n, stream, o, text) ==
    InBuffer(b, n, stream) /\ Coming(whole, who, exact, stream, o, text, ToCome(whole, b, n))

LEMMA HeldText ==
    ASSUME NEW b \in Seq(Text)
    PROVE  FlattenSeq(b) \in Text /\ Gist(FlattenSeq(b)) \in Clean
BY FlattenType, GistClean DEF Text

LEMMA GistMore ==
    ASSUME NEW b \in Seq(Text), NEW e \in Text
    PROVE  Gist(FlattenSeq(Append(b, e))) = Cat(Gist(FlattenSeq(b)), Gist(e))
<1>1. FlattenSeq(Append(b, e)) = FlattenSeq(b) \o e
  BY HeldText, FlattenAppend DEF Text
<1>. QED  BY <1>1, HeldText, GistConcat

LEMMA GistLess ==
    ASSUME NEW b \in Seq(Text), b # <<>>
    PROVE  /\ b[1] \in Text /\ Tail(b) \in Seq(Text)
           /\ Gist(FlattenSeq(b)) = Cat(Gist(b[1]), Gist(FlattenSeq(Tail(b))))
<1>1. 1 \in 1 .. Len(b) /\ Len(b) \in 1 .. Len(b)
  BY LenProperties, EmptySeq
<1>2. b[1] \in Text /\ Tail(b) \in Seq(Text)
  BY <1>1, ElementOfSeq, HeadTailProperties
<1>3. b = <<b[1]>> \o Tail(b)
  <2>1. SubSeq(b, 1, Len(b)) = <<b[1]>> \o SubSeq(b, 1 + 1, Len(b))
    BY <1>1, SubSeqRecursiveFirst
  <2>2. SubSeq(b, 1, Len(b)) = b /\ Tail(b) = SubSeq(b, 2, Len(b)) /\ 1 + 1 = 2
    BY SubSeqFull, TailIsSubSeq
  <2>. QED  BY <2>1, <2>2
<1>4. PICK x \in Text, t \in Seq(Text) : x = b[1] /\ t = Tail(b)
  BY <1>2
<1>5. <<x>> \in Seq(Text)
  BY OneType
<1>6. FlattenSeq(<<x>> \o t) = FlattenSeq(<<x>>) \o FlattenSeq(t)
  BY <1>5, FlattenConcat DEF Text
<1>7. Gist(x \o FlattenSeq(t)) = Cat(Gist(x), Gist(FlattenSeq(t)))
  BY HeldText, GistConcat
<1>. QED  BY <1>2, <1>3, <1>4, <1>6, <1>7, FlattenOne

LEMMA RestSplits ==
    ASSUME NEW s \in Clean, NEW n \in Nat, NEW m \in Nat, n <= m, m <= Len(s)
    PROVE  /\ SubSeq(s, n + 1, m) \in Clean /\ SubSeq(s, m + 1, Len(s)) \in Clean
           /\ SubSeq(s, n + 1, Len(s)) = Cat(SubSeq(s, n + 1, m), SubSeq(s, m + 1, Len(s)))
<1>1. Len(s) \in Nat
  BY CleanLen
<1>2. n + 1 \in 1 .. Len(s) + 1 /\ m \in (n + 1) - 1 .. Len(s) /\ Len(s) \in m .. Len(s)
  BY <1>1
<1>. QED  BY <1>2, CutClean

LEMMA BuffersChunk ==
    ASSUME NEW whole \in Clean, NEW who, NEW exact, NEW b \in Seq(Text), NEW n \in Nat, NEW m \in Nat,
           n < m, m <= Len(whole), NEW stream, NEW o, NEW text,
           OnTheWay(whole, who, exact, b, n, stream, o, text)
    PROVE  OnTheWay(whole, who, exact, Append(b, SubSeq(whole, n + 1, m)), m, stream, o, text)
<1>1. n <= m /\ m # 0
  OBVIOUS
<1>2. PICK c \in Clean, y \in Clean :
        /\ c = SubSeq(whole, n + 1, m) /\ y = SubSeq(whole, m + 1, Len(whole))
        /\ SubSeq(whole, n + 1, Len(whole)) = Cat(c, y)
  BY <1>1, RestSplits
<1>3. c \in Text /\ c # Thought /\ Gist(c) = c
  BY CleanWord, GistSame, OthersApart
<1>4. InBuffer(Append(b, c), m, stream)
  BY <1>1, <1>3, BufferMore DEF OnTheWay
<1>5. PICK g \in Clean : g = Gist(FlattenSeq(b))
  BY HeldText
<1>6. Cat(Cat(g, c), y) = Cat(g, Cat(c, y))
  BY CleanAssoc
<1>7. ToCome(whole, Append(b, c), m) = ToCome(whole, b, n)
  BY <1>2, <1>3, <1>5, <1>6, GistMore DEF ToCome
<1>. QED  BY <1>2, <1>4, <1>7 DEF OnTheWay

LEMMA BuffersOther ==
    ASSUME NEW whole, NEW who, NEW exact, NEW b \in Seq(Text), NEW n \in Nat, NEW e \in Others,
           e = Thought => n = 0, NEW stream, NEW o, NEW text,
           OnTheWay(whole, who, exact, b, n, stream, o, text)
    PROVE  OnTheWay(whole, who, exact, Append(b, e), n, stream, o, text)
<1>1. e \in Text /\ Gist(e) = <<>>
  BY WordType, GistOthers DEF Others
<1>2. InBuffer(Append(b, e), n, stream)
  BY BufferMore DEF OnTheWay
<1>3. Gist(FlattenSeq(Append(b, e))) = Gist(FlattenSeq(b))
  BY <1>1, GistMore, HeldText, CleanNone
<1>. QED  BY <1>2, <1>3 DEF OnTheWay, ToCome

LEMMA HandlerReads ==
    ASSUME HandlerType, api \in Streamed \cup Whole, NEW event \in Others \cup Clean, Handle(event),
           event = Thought => sieve = NewStream, tools \/ api = "anthropic",
           api = "openai" => deltas # "roleless", event = NoContent => api \in Whole,
           NEW whole, NEW exact, exact => api = "anthropic", NEW y \in Clean,
           Coming(whole, api, exact, sieve, out, body, Cat(Gist(event), y))
    PROVE  Coming(whole, api, exact, sieve', out', body', y) /\ (event \in Others => sieve' = sieve)
<1>1. event \in Text
  BY CleanWord, WordType DEF Others
<1>2. Streamed \cap Whole = {}
  BY DEF Streamed, Whole
<1>3. CASE api \in Whole
  <2>1. Left(whole, Cat(Gist(body'), y)) /\ sieve' = sieve /\ Read(body') = Gist(body')
    BY <1>1, <1>3, WholeReads DEF Coming
  <2>. QED  BY <1>2, <1>3, <2>1 DEF Coming
<1>4. CASE api \in Streamed /\ event \in Others
  <2>1. Gist(event) = <<>> /\ Cat(<<>>, y) = y
    BY <1>4, GistOthers, CleanNone DEF Others
  <2>2. Underway(whole, exact, out, sieve, y)
    BY <1>4, <2>1 DEF Coming
  <2>3. Underway(whole, exact, out', sieve', y) /\ sieve' = sieve
    BY <1>2, <1>4, <2>2, OtherTells
  <2>. QED  BY <1>2, <1>4, <2>3 DEF Coming
<1>5. CASE api \in Streamed /\ event \notin Others
  <2>1. event \in Clean /\ Gist(event) = event
    BY <1>5, GistSame
  <2>2. Underway(whole, exact, out, sieve, Cat(event, y))
    BY <1>5, <2>1 DEF Coming
  <2>3. Underway(whole, exact, out', sieve', y)
    BY <1>5, <2>1, <2>2, ChunkTells
  <2>. QED  BY <1>2, <1>5, <2>3 DEF Coming
<1>. QED  BY <1>3, <1>4, <1>5

-----------------------------------------------------------------------------
(* Every step keeps the answer on its way, and the last one ends it.         *)

\* The answers that are spoken of, and those that are told to the letter.
Scope == Legible /\ Solid(answer) # <<>> /\ (tools \/ api = "anthropic") /\ OneBlock(answer)
Exact == api = "anthropic" /\ Untagged(Solid(answer))

TellInv ==
    /\ StreamTellsTheAnswer
    /\ Scope /\ state \in {"inspect", "serve"} =>
          OnTheWay(answer, api, Exact, buffered, sent, sieve, out, body)

\* Nothing is held back that upstream does not send.
NoneHollow == deltas # "hollow" => \A i \in 1 .. Len(buffered) : buffered[i] # NoContent

LEMMA AnswerClean == answer \in Answers => answer \in Clean
<1>. SUFFICES ASSUME answer \in Answers PROVE answer \in Seq(Letters)
  BY DEF Clean
<1>1. answer \in Seq(STRING) /\ Specials \cap ToSet(answer) = {}
  BY StreamAssumption DEF Specials, Labels
<1>2. Len(answer) \in Nat /\ answer \in [1 .. Len(answer) -> STRING]
  BY <1>1, LenProperties
<1>3. ASSUME NEW i \in 1 .. Len(answer) PROVE answer[i] \in Letters
  <2>1. answer[i] \in STRING
    BY <1>2
  <2>2. answer[i] \in ToSet(answer)
    BY DEF ToSet
  <2>. QED  BY <1>1, <2>1, <2>2 DEF Letters, Symbols, Specials, Labels
<1>4. answer \in [1 .. Len(answer) -> Letters]
  BY <1>2, <1>3
<1>. QED  BY <1>2, <1>4

LEMMA NothingHeld == Gist(FlattenSeq(<<>>)) = <<>>
BY FlattenEmpty, GistSame, CleanNone

LEMMA SetsOut ==
    ASSUME Init, Scope
    PROVE  OnTheWay(answer, api, Exact, buffered, sent, sieve, out, body)
<1>1. PICK whole \in Clean : whole = answer
  BY AnswerClean DEF Init
<1>2. PICK exact \in BOOLEAN : exact = Exact
  BY DEF Exact
<1>3. OneBlock(whole) /\ (exact => Untagged(Solid(whole)))
  BY <1>1, <1>2 DEF Scope, Exact
<1>4. Len(whole) \in Nat /\ SubSeq(whole, 0 + 1, Len(whole)) = whole
  BY SubSeqFull, CleanLen DEF Clean
<1>5. ToCome(whole, <<>>, 0) = whole
  BY <1>4, NothingHeld, CleanNone DEF ToCome
<1>6. InBuffer(<<>>, 0, NewStream)
  BY EmptySeq DEF InBuffer
<1>7. Underway(whole, exact, <<>>, NewStream, whole)
  <2>1. Free(whole, exact, <<>>, <<>>, whole) \/ Ahead(whole, exact, <<>>, <<>>, whole)
    BY <1>3, Begins
  <2>2. Cat(<<>>, whole) = whole /\ <<>> \in Clean /\ <<>> \in {<<>>, <<"<">>}
    BY CleanNone
  <2>3. Streaming(whole, exact, <<>>, <<>>, NewStream, whole)
    BY <2>1, <2>2, NewIdle DEF Streaming
  <2>4. <<>> \in Seq(Calls)
    BY EmptySeq
  <2>. QED  BY <2>2, <2>3, <2>4, SaysNothing DEF Underway
<1>8. Left(whole, Cat(Gist(<<>>), whole)) /\ Read(<<>>) = Gist(<<>>)
  <2>1. Free(whole, FALSE, <<>>, <<>>, whole) \/ Ahead(whole, FALSE, <<>>, <<>>, whole)
    BY <1>3, Begins
  <2>2. Cat(Gist(<<>>), whole) = whole /\ Read(<<>>) = Gist(<<>>)
    BY GistSame, ReadSame, CleanNone
  <2>. QED  BY <2>1, <2>2 DEF Left
<1>9. OnTheWay(whole, api, exact, <<>>, 0, NewStream, <<>>, <<>>)
  BY <1>5, <1>6, <1>7, <1>8 DEF OnTheWay, Coming
<1>10. buffered = <<>> /\ sent = 0 /\ sieve = NewStream /\ out = <<>> /\ body = <<>>
  BY DEF Init
<1>. QED  BY <1>1, <1>2, <1>9, <1>10

LEMMA ComesOn ==
    ASSUME StreamType, Scope, OnTheWay(answer, api, Exact, buffered, sent, sieve, out, body),
           NEW event, Comes(event), event = NoContent => api \in Whole,
           \/ event \in Others /\ sent' = sent /\ (event = Thought => sent = 0)
           \/ sent' \in 1 .. Len(answer) /\ sent < sent' /\ event = SubSeq(answer, sent + 1, sent')
    PROVE  \/ state' = "refused"
           \/ OnTheWay(answer, api, Exact, buffered', sent', sieve', out', body')
<1>1. PICK whole \in Clean : whole = answer
  BY AnswerClean DEF StreamType
<1>2. PICK exact \in BOOLEAN : exact = Exact /\ (exact => api = "anthropic")
  BY DEF Exact
<1>3. Len(whole) \in Nat /\ sent \in Nat /\ sent <= Len(whole) /\ buffered \in Seq(Text) /\ HandlerType
  BY <1>1, CleanLen DEF StreamType
<1>4. OnTheWay(whole, api, exact, buffered, sent, sieve, out, body)
  BY <1>1, <1>2
<1>5. PICK n \in Nat : n = sent
  BY <1>3
<1>6. PICK m \in Nat : m = sent' /\ n <= m /\ m <= Len(whole)
  BY <1>1, <1>3, <1>5
<1>7. \/ event \in Others /\ m = n /\ (event = Thought => n = 0)
      \/ n < m /\ event = SubSeq(whole, n + 1, m)
  BY <1>1, <1>5, <1>6
<1>8. CASE state = "inspect" /\ Inspect(event) /\ state' # "refused"
  <2>1. buffered' = Append(buffered, event) /\ sieve' = sieve /\ out' = out /\ body' = body
    BY <1>8 DEF Inspect, handler
  <2>2. OnTheWay(whole, api, exact, Append(buffered, event), m, sieve, out, body)
    BY <1>3, <1>4, <1>5, <1>6, <1>7, BuffersChunk, BuffersOther
  <2>. QED  BY <1>1, <1>2, <1>6, <2>1, <2>2
<1>9. CASE buffered = <<>> /\ Handle(event) /\ buffered' = buffered
  <2>1. PICK c \in Clean, y \in Clean :
          /\ c = SubSeq(whole, n + 1, m) /\ y = SubSeq(whole, m + 1, Len(whole))
          /\ SubSeq(whole, n + 1, Len(whole)) = Cat(c, y)
    BY <1>6, RestSplits
  <2>2. event \in Others \cup Clean /\ ToCome(whole, <<>>, n) = Cat(Gist(event), y)
    <3>1. Cat(<<>>, Cat(c, y)) = Cat(c, y) /\ Cat(<<>>, y) = y
      BY CleanNone, CleanCat
    <3>2. CASE event \in Others /\ m = n
      <4>1. ToCome(whole, <<>>, n) = y
        BY <2>1, <3>1, <3>2, NothingHeld DEF ToCome
      <4>2. Gist(event) = <<>>
        BY <3>2, GistOthers DEF Others
      <4>. QED  BY <3>1, <3>2, <4>1, <4>2
    <3>3. CASE event = c
      BY <2>1, <3>1, <3>3, NothingHeld, GistSame DEF ToCome
    <3>. QED  BY <1>7, <2>1, <3>2, <3>3
  <2>3. InBuffer(<<>>, n, sieve) /\ Coming(whole, api, exact, sieve, out, body, Cat(Gist(event), y))
    BY <1>4, <1>5, <1>9, <2>2 DEF OnTheWay
  <2>4. event = Thought => sieve = NewStream
    <3>1. event = Thought => n = 0
      BY <1>7, <2>1, OthersApart
    <3>. QED  BY <2>3, <3>1 DEF InBuffer
  <2>5. /\ api \in Streamed \cup Whole /\ (tools \/ api = "anthropic")
        /\ api = "openai" => deltas # "roleless"
    BY DEF StreamType, Scope, Legible, Whole
  <2>6. Coming(whole, api, exact, sieve', out', body', y) /\ (event \in Others => sieve' = sieve)
    BY <1>2, <1>3, <1>9, <2>2, <2>3, <2>4, <2>5, HandlerReads
  <2>7. InBuffer(<<>>, m, sieve')
    <3>1. m = 0 => n = 0 /\ event \in Others
      BY <1>6, <1>7
    <3>2. m = 0 => sieve' = NewStream
      BY <2>3, <2>6, <3>1 DEF InBuffer
    <3>. QED  BY <3>2, EmptySeq DEF InBuffer
  <2>8. ToCome(whole, <<>>, m) = y
    BY <2>1, NothingHeld, CleanNone DEF ToCome
  <2>9. OnTheWay(whole, api, exact, <<>>, m, sieve', out', body')
    BY <2>6, <2>7, <2>8 DEF OnTheWay
  <2>. QED  BY <1>1, <1>2, <1>6, <1>9, <2>9
<1>. QED  BY <1>8, <1>9 DEF Comes

LEMMA ReplaysOn ==
    ASSUME StreamType, Scope, NoneHollow,
           OnTheWay(answer, api, Exact, buffered, sent, sieve, out, body), Replay
    PROVE  OnTheWay(answer, api, Exact, buffered', sent', sieve', out', body')
<1>1. PICK whole \in Clean : whole = answer
  BY AnswerClean DEF StreamType
<1>2. PICK exact \in BOOLEAN : exact = Exact /\ (exact => api = "anthropic")
  BY DEF Exact
<1>3. PICK b \in Seq(Text) : b = buffered /\ b # <<>>
  BY DEF StreamType, Replay
<1>4. PICK n \in Nat : n = sent /\ n <= Len(whole)
  BY <1>1, CleanLen DEF StreamType
<1>5. InBuffer(b, n, sieve) /\ Coming(whole, api, exact, sieve, out, body, ToCome(whole, b, n))
  BY <1>1, <1>2, <1>3, <1>4 DEF OnTheWay
<1>6. PICK event \in Text, t \in Seq(Text) :
        event = b[1] /\ t = Tail(b)
        /\ Gist(FlattenSeq(b)) = Cat(Gist(event), Gist(FlattenSeq(t)))
  BY <1>3, GistLess
<1>7. Handle(event) /\ buffered' = t /\ sent' = n
  BY <1>3, <1>4, <1>6 DEF Replay
<1>8. event \in Others \cup Clean /\ (event = Thought => sieve = NewStream)
  <2>1. /\ InBuffer(Tail(b), n, sieve) /\ b[1] \in Others \cup Clean
        /\ b[1] = Thought => sieve = NewStream
    <3>1. b \in Seq(Text) /\ b # <<>> /\ InBuffer(b, n, sieve)
      BY <1>3, <1>5
    <3>. QED  BY ONLY <3>1, BufferLess
  <2>. QED  BY <1>6, <2>1
<1>9. PICK x \in Clean, g \in Clean, y \in Clean :
        x = Gist(event) /\ g = Gist(FlattenSeq(t)) /\ y = SubSeq(whole, n + 1, Len(whole))
  <2>1. SubSeq(whole, n + 1, Len(whole)) \in Clean
    BY <1>4, CleanLen, RestSplits
  <2>. QED  BY <1>6, <2>1, HeldText, GistClean
<1>10. ToCome(whole, b, n) = Cat(x, Cat(g, y)) /\ ToCome(whole, t, n) = Cat(g, y) /\ Cat(g, y) \in Clean
  BY <1>6, <1>9, CleanAssoc, CleanCat DEF ToCome
<1>11. /\ api \in Streamed \cup Whole /\ (tools \/ api = "anthropic") /\ HandlerType
       /\ api = "openai" => deltas # "roleless"
       /\ event = NoContent => api \in Whole
  <2>1. 1 \in 1 .. Len(b)
    BY <1>3, LenProperties, EmptySeq
  <2>2. event = NoContent => deltas = "hollow"
    BY <1>3, <1>6, <2>1 DEF NoneHollow
  <2>. QED  BY <2>2 DEF StreamType, Scope, Legible, Whole
<1>12. /\ Coming(whole, api, exact, sieve', out', body', Cat(g, y))
       /\ event \in Others => sieve' = sieve
  BY <1>2, <1>5, <1>7, <1>8, <1>9, <1>10, <1>11, HandlerReads
<1>13. InBuffer(t, n, sieve')
  BY <1>3, <1>5, <1>6, <1>12, BufferLess
<1>14. OnTheWay(whole, api, exact, t, n, sieve', out', body')
  BY <1>10, <1>12, <1>13 DEF OnTheWay
<1>. QED  BY <1>1, <1>2, <1>7, <1>14

LEMMA ChunkClean ==
    ASSUME StreamType, NEW n \in 1 .. Len(answer), sent < n
    PROVE  SubSeq(answer, sent + 1, n) \in Clean
<1>1. PICK whole \in Clean : whole = answer
  BY AnswerClean DEF StreamType
<1>2. sent \in Nat /\ n \in Nat /\ sent <= n /\ n <= Len(whole)
  BY <1>1, CleanLen DEF StreamType
<1>. QED  BY <1>1, <1>2, RestSplits

LEMMA HollowStep ==
    ASSUME StreamType, NoneHollow, [Next]_vars
    PROVE  NoneHollow'
<1>. SUFFICES ASSUME deltas # "hollow" PROVE NoneHollow'
  <2>1. deltas' = deltas
    BY DEF vars, request, Next, Chunk, Think, Heartbeat, Hollow, Fails, Comes, InspectEnds,
           InspectBreaks, Replay, FinishStream, FinishWhole, Done
  <2>. QED  BY <2>1 DEF NoneHollow
<1>1. PICK b \in Seq(Text) : b = buffered /\ \A i \in 1 .. Len(b) : b[i] # NoContent
  BY DEF StreamType, NoneHollow
<1>2. ASSUME NEW c, buffered' = c, \A i \in 1 .. Len(c) : c[i] # NoContent PROVE NoneHollow'
  BY <1>2 DEF NoneHollow
<1>3. <<>> \in Seq(Text) /\ \A i \in 1 .. Len(<<>>) : <<>>[i] # NoContent
  BY EmptySeq
<1>4. ASSUME NEW event \in Text, event # NoContent, Comes(event) PROVE NoneHollow'
  <2>1. /\ Len(Append(b, event)) = Len(b) + 1 /\ Append(b, event)[Len(b) + 1] = event
        /\ \A i \in 1 .. Len(b) : Append(b, event)[i] = b[i]
    BY AppendProperties
  <2>2. \A i \in 1 .. Len(b) + 1 : i \in 1 .. Len(b) \/ i = Len(b) + 1
    BY LenProperties
  <2>3. \A i \in 1 .. Len(Append(b, event)) : Append(b, event)[i] # NoContent
    BY <1>1, <1>4, <2>1, <2>2
  <2>4. buffered' \in {<<>>, Append(b, event), b}
    BY <1>1, <1>4 DEF Comes, Inspect
  <2>. QED  BY <1>1, <1>2, <1>3, <2>3, <2>4
<1>5. ASSUME NEW n \in 1 .. Len(answer), Chunk(n) PROVE NoneHollow'
  <2>1. sent < n /\ Comes(SubSeq(answer, sent + 1, n))
    BY <1>5 DEF Chunk
  <2>2. SubSeq(answer, sent + 1, n) \in Text /\ SubSeq(answer, sent + 1, n) # NoContent
    BY <1>5, <2>1, ChunkClean, CleanWord, OthersApart
  <2>. QED  BY <1>4, <2>1, <2>2
<1>6. CASE Think \/ Heartbeat \/ Fails
  <2>1. NoContent \notin {Thought, Failure, Bare}
    BY OthersApart
  <2>. QED  BY <1>4, <1>6, <2>1, WordType DEF Think, Heartbeat, Fails
<1>7. ~ Hollow
  BY DEF Hollow
<1>8. CASE InspectEnds
  <2>1. Len(<<Failure>>) = 1 /\ <<Failure>>[1] = Failure /\ Failure # NoContent
    BY OthersApart
  <2>2. \A i \in 1 .. Len(<<Failure>>) : <<Failure>>[i] # NoContent
    BY <2>1
  <2>3. buffered' \in {b, <<Failure>>}
    BY <1>1, <1>8 DEF InspectEnds
  <2>. QED  BY <1>1, <1>2, <2>2, <2>3
<1>9. CASE Replay
  <2>1. b # <<>> /\ buffered' = Tail(b)
    BY <1>1, <1>9 DEF Replay
  <2>2. Len(Tail(b)) = Len(b) - 1 /\ Len(b) \in Nat /\ \A i \in 1 .. Len(Tail(b)) : Tail(b)[i] = b[i + 1]
    BY <2>1, HeadTailProperties, LenProperties
  <2>3. \A i \in 1 .. Len(Tail(b)) : Tail(b)[i] # NoContent
    BY <1>1, <2>2
  <2>. QED  BY <1>2, <2>1, <2>3
<1>10. CASE InspectBreaks \/ FinishStream \/ FinishWhole \/ UNCHANGED vars
  <2>1. buffered' = b
    BY <1>1, <1>10 DEF InspectBreaks, FinishStream, FinishWhole, Done, vars
  <2>. QED  BY <1>1, <1>2, <2>1
<1>. QED  BY <1>5, <1>6, <1>7, <1>8, <1>9, <1>10 DEF Next

\* The answer has come and the handler ends.
LEMMA FinishTellsAll ==
    ASSUME StreamType, Scope, OnTheWay(answer, api, Exact, buffered, sent, sieve, out, body),
           sent = Len(answer), FinishStream \/ FinishWhole
    PROVE  out' = <<Event("error", None, <<>>)>> \/ ToldAll(answer, Exact, out')
<1>1. PICK whole \in Clean : whole = answer
  BY AnswerClean DEF StreamType
<1>2. PICK exact \in BOOLEAN : exact = Exact /\ (exact => api = "anthropic")
  BY DEF Exact
<1>3. buffered = <<>> /\ HandlerType
  BY DEF FinishStream, FinishWhole, Done, StreamType
<1>4. ToCome(whole, <<>>, Len(whole)) = <<>>
  <2>1. SubSeq(whole, Len(whole) + 1, Len(whole)) = <<>>
    BY CleanLen, SubSeqEmpty
  <2>. QED  BY <2>1, NothingHeld, CleanNone DEF ToCome
<1>5. Coming(whole, api, exact, sieve, out, body, <<>>)
  BY <1>1, <1>2, <1>3, <1>4 DEF OnTheWay
<1>6. tools \/ api = "anthropic"
  BY DEF Scope
<1>7. CASE FinishStream
  <2>1. Underway(whole, exact, out, sieve, <<>>)
    BY <1>5, <1>7 DEF FinishStream, Coming
  <2>2. ToldAll(whole, exact, out')
    BY <1>2, <1>3, <1>6, <1>7, <2>1, FinishTells
  <2>. QED  BY <1>1, <1>2, <2>2
<1>8. CASE FinishWhole
  <2>1. api \in Whole /\ tools /\ ~ exact
    BY <1>2, <1>6, <1>8 DEF FinishWhole, Whole
  <2>2. Gist(body) \in Clean /\ Left(whole, Cat(Gist(body), <<>>))
    BY <1>3, <1>5, <2>1, GistClean DEF Coming, HandlerType
  <2>3. Left(whole, Gist(body)) /\ OneBlock(whole) /\ Solid(whole) # <<>> /\ Read(body) = Gist(body)
    BY <1>1, <1>5, <2>1, <2>2, CleanNone DEF Scope, Coming
  <2>4. out' = <<Event("error", None, <<>>)>> \/ ToldAll(whole, FALSE, out')
    BY <1>3, <1>8, <2>1, <2>3, WholeTells
  <2>5. ToldAll(whole, FALSE, out') => ToldAll(whole, exact, out')
    BY <2>1 DEF ToldAll
  <2>. QED  BY <1>1, <1>2, <2>4, <2>5
<1>. QED  BY <1>7, <1>8

LEMMA ToldAllTells ==
    ASSUME NEW whole, NEW exact, NEW o, ToldAll(whole, exact, o)
    PROVE  /\ Items(o, {"calls", "input"}) = ParseCalls(whole)
           /\ Solid(Without(Items(o, {"content", "delta"}), ToSet(Thought))) = Solid(RemoveMarkup(whole))
           /\ exact => Without(Items(o, {"content", "delta"}), ToSet(Thought)) = whole
<1>1. ToSet(Thought) = {"thought"}
  BY DEF ToSet, Thought
<1>2. PICK a : /\ Word(Items(o, Worded)) = a /\ Items(o, Called) = ParseCalls(whole)
               /\ Solid(a) = Solid(RemoveMarkup(whole)) /\ (exact => a = whole)
  BY DEF ToldAll, Says
<1>3. Without(Items(o, {"content", "delta"}), {"thought"}) = a
  BY <1>2 DEF Word, Worded
<1>. QED  BY <1>1, <1>2, <1>3 DEF Called

LEMMA TellStep ==
    ASSUME StreamType, TellInv, NoneHollow, [Next]_vars
    PROVE  TellInv'
<1>1. answer' = answer /\ api' = api /\ tools' = tools /\ deltas' = deltas
  <2>1. UNCHANGED vars => UNCHANGED request
    BY DEF vars
  <2>2. Next => UNCHANGED request
    BY DEF Next, Chunk, Think, Heartbeat, Hollow, Fails, Comes, InspectEnds, InspectBreaks, Replay,
           FinishStream, FinishWhole, Done
  <2>. QED  BY <2>1, <2>2 DEF request
<1>2. (Scope' <=> Scope) /\ (Exact' <=> Exact)
  BY <1>1 DEF Scope, Exact, Legible
<1>3. ~ Scope' => TellInv'
  BY DEF TellInv, StreamTellsTheAnswer, Scope
<1>4. ASSUME Scope, state' # "done",
             \/ state' = "refused"
             \/ OnTheWay(answer, api, Exact, buffered', sent', sieve', out', body')
      PROVE  TellInv'
  <2>1. PICK exact \in BOOLEAN : exact = Exact /\ exact = Exact'
    BY <1>2 DEF Exact
  <2>2. state' \in {"inspect", "serve"} => OnTheWay(answer', api', Exact', buffered', sent', sieve', out', body')
    BY <1>1, <1>4, <2>1
  <2>3. ~ Answered'
    BY <1>4 DEF Answered
  <2>. QED  BY <2>2, <2>3 DEF TellInv, StreamTellsTheAnswer
<1>5. CASE UNCHANGED vars
  <2>1. /\ state' = state /\ sent' = sent /\ buffered' = buffered /\ out' = out
        /\ sieve' = sieve /\ body' = body /\ answer' = answer /\ api' = api /\ tools' = tools
        /\ deltas' = deltas
    BY <1>5 DEF vars, request, handler
  <2>. QED  BY <2>1 DEF TellInv, StreamTellsTheAnswer, Answered, SentCalls, SentText, Scope, Exact, Legible
<1>6. ASSUME Scope, Next PROVE TellInv'
  <2>1. state \in {"inspect", "serve"}
    BY <1>6 DEF Next, Chunk, Think, Heartbeat, Hollow, Fails, Comes, InspectEnds, InspectBreaks, Replay,
                FinishStream, FinishWhole, Done
  <2>2. OnTheWay(answer, api, Exact, buffered, sent, sieve, out, body)
    BY <1>6, <2>1 DEF TellInv
  <2>3. ASSUME NEW event, Comes(event), event = NoContent => api \in Whole,
               \/ event \in Others /\ sent' = sent /\ (event = Thought => sent = 0)
               \/ sent' \in 1 .. Len(answer) /\ sent < sent' /\ event = SubSeq(answer, sent + 1, sent')
        PROVE  TellInv'
    <3>1. state' # "done"
      BY <2>3 DEF Comes, Inspect
    <3>2. state' = "refused" \/ OnTheWay(answer, api, Exact, buffered', sent', sieve', out', body')
      BY <1>6, <2>2, <2>3, ComesOn
    <3>. QED  BY <1>4, <1>6, <3>1, <3>2
  <2>4. ASSUME NEW n \in 1 .. Len(answer), Chunk(n) PROVE TellInv'
    <3>1. sent' = n /\ sent < n /\ Comes(SubSeq(answer, sent + 1, n))
      BY <2>4 DEF Chunk
    <3>2. SubSeq(answer, sent + 1, n) # NoContent
      BY <2>4, <3>1, ChunkClean, OthersApart
    <3>. QED  BY <2>3, <2>4, <3>1, <3>2
  <2>5. CASE Think \/ Heartbeat \/ Hollow \/ Fails
    <3>1. /\ NoContent \notin {Thought, Failure, Bare} /\ Thought \notin {Bare, Failure}
          /\ {Thought, Failure, Bare, NoContent} \subseteq Others
      BY OthersApart DEF Others
    <3>2. Hollow => api \in Whole
      BY <1>6 DEF Hollow, Scope, Legible
    <3>. QED  BY <2>3, <2>5, <3>1, <3>2 DEF Think, Heartbeat, Hollow, Fails
  <2>6. CASE InspectEnds
    <3>1. /\ state' = "serve" /\ sent' = sent /\ sieve' = sieve /\ out' = out /\ body' = body
          /\ buffered' = buffered \/ (buffered = <<>> /\ buffered' = <<Failure>>)
      BY <2>6 DEF InspectEnds, handler
    <3>2. CASE buffered' = buffered
      BY <1>4, <1>6, <2>2, <3>1, <3>2
    <3>3. CASE buffered = <<>> /\ buffered' = <<Failure>>
      <4>1. Append(<<>>, Failure) = <<Failure>> /\ <<>> \in Seq(Text)
        BY EmptySeq
      <4>2. Failure \in Others /\ Failure # Thought
        BY OthersApart DEF Others
      <4>3. PICK exact \in BOOLEAN, n \in Nat : exact = Exact /\ n = sent
        <5>1. sent \in Nat /\ Exact \in BOOLEAN
          BY AnswerType DEF Exact, StreamType
        <5>. QED  BY <5>1
      <4>4. OnTheWay(answer, api, exact, <<>>, n, sieve, out, body)
        BY <2>2, <3>3, <4>3
      <4>5. OnTheWay(answer, api, exact, <<Failure>>, n, sieve, out, body)
        BY <4>1, <4>2, <4>4, BuffersOther
      <4>. QED  BY <1>4, <1>6, <3>1, <3>3, <4>3, <4>5
    <3>. QED  BY <3>1, <3>2, <3>3
  <2>7. CASE InspectBreaks
    BY <1>4, <1>6, <2>7 DEF InspectBreaks
  <2>8. CASE Replay
    <3>1. state' # "done"
      BY <2>8 DEF Replay
    <3>. QED  BY <1>4, <1>6, <2>2, <2>8, <3>1, ReplaysOn
  <2>9. CASE FinishStream \/ FinishWhole
    <3>1. state' = "done" /\ sent' = sent
      BY <2>9 DEF FinishStream, FinishWhole, Done
    <3>2. ASSUME Answered' PROVE ToldAll(answer, Exact, out')
      <4>1. sent = Len(answer)
        BY <1>1, <3>1, <3>2 DEF Answered
      <4>2. out' # <<Event("error", None, <<>>)>>
        BY <3>2 DEF Answered, Event
      <4>. QED  BY <1>6, <2>2, <2>9, <4>1, <4>2, FinishTellsAll
    <3>3. ASSUME Answered'
          PROVE  /\ SentCalls' = ParseCalls(answer')
                 /\ Solid(SentText') = Solid(RemoveMarkup(answer'))
                 /\ Exact' => SentText' = answer'
      BY <1>1, <1>2, <3>2, <3>3, ToldAllTells DEF SentCalls, SentText
    <3>4. StreamTellsTheAnswer'
      BY <3>3 DEF StreamTellsTheAnswer, Exact
    <3>. QED  BY <3>1, <3>4 DEF TellInv
  <2>. QED  BY <1>6, <2>4, <2>5, <2>6, <2>7, <2>8, <2>9 DEF Next
<1>. QED  BY <1>2, <1>3, <1>5, <1>6

\* However the answer is cut, held back and replayed, every client is told its calls and its
\* text, and an Anthropic client that streams an answer without calls to the letter; of clients
\* that stream only where upstream's deltas are complete: handleStream passes over a delta
\* without a role, and both handlers that stream write a missing content as <nil>.
THEOREM StreamAlwaysTellsTheAnswer == Spec => []StreamTellsTheAnswer
<1>1. Init => TellInv
  <2>1. Init => ~ Answered
    BY DEF Init, Answered
  <2>. QED  BY <2>1, SetsOut DEF TellInv, StreamTellsTheAnswer
<1>2. StreamType /\ TellInv /\ NoneHollow /\ [Next]_vars => TellInv'
  BY TellStep
<1>3. TellInv => StreamTellsTheAnswer
  BY DEF TellInv
<1>4. Init => NoneHollow
  BY LenProperties DEF Init, NoneHollow
<1>5. StreamType /\ NoneHollow /\ [Next]_vars => NoneHollow'
  BY HollowStep
<1>. QED  BY <1>1, <1>2, <1>3, <1>4, <1>5, StreamTypes, PTL DEF Spec
=============================================================================
