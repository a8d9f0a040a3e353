----------------------------- MODULE FoldFacts -----------------------------
(***************************************************************************)
(* What FoldLeft computes, for any operator that stays in a set.  The      *)
(* modules with the operators instantiate this one for each.               *)
(***************************************************************************)
EXTENDS Facts

CONSTANT Op(_, _)  \* the operator folded

\* Op leads from A and an element of E to A.
Closed(A, E) == \A a \in A, e \in E : Op(a, e) \in A

\* One turn of the fold's recursion, over a set of positions.
Turn(base, seq, iter, s) ==
  IF s = {} THEN base ELSE Op(iter[s \ {Max(s)}], seq[Max(s)])

\* A solution of the recursion, over all sets of positions.
Turns(A, base, seq, iter) ==
  /\ iter \in [SUBSET (1..Len(seq)) -> A]
  /\ \A s \in SUBSET (1..Len(seq)) : iter[s] = Turn(base, seq, iter, s)

\* The recursion has a solution.
LEMMA TurnsExist ==
  ASSUME NEW A, NEW E, Closed(A, E), NEW base \in A, NEW seq \in Seq(E)
  PROVE  \E iter : Turns(A, base, seq, iter)
<1> DEFINE N == Len(seq)
           Upto(n, iter) == /\ iter \in [SUBSET (1..n) -> A]
                            /\ \A s \in SUBSET (1..n) : iter[s] = Turn(base, seq, iter, s)
           S == {n \in Nat : n <= N => \E iter : Upto(n, iter)}
<1>0. N \in Nat /\ \A i \in 1..N : seq[i] \in E
  BY LenProperties, ElementOfSeq
<1>1. 0 \in S
  <2> DEFINE none == [s \in SUBSET (1..0) |-> base]
  <2>1. \A s \in SUBSET (1..0) : s = {}
    OBVIOUS
  <2>2. none \in [SUBSET (1..0) -> A]
    OBVIOUS
  <2>3. \A s \in SUBSET (1..0) : none[s] = Turn(base, seq, none, s)
    BY <2>1 DEF Turn
  <2>4. Upto(0, none)
    BY <2>2, <2>3
  <2> QED
    BY <2>4
<1>2. ASSUME NEW n \in S PROVE n + 1 \in S
  <2> HIDE DEF Upto
  <2> SUFFICES ASSUME n + 1 <= N PROVE \E iter : Upto(n + 1, iter)
    BY <1>0
  <2> USE DEF Upto
  <2>1. n \in Nat /\ n <= N /\ n + 1 \in 1..N
    BY <1>0
  <2>2. PICK iter : Upto(n, iter)
    BY <2>1
  <2> DEFINE more == [s \in SUBSET (1..(n + 1)) |->
                        IF n + 1 \in s THEN Op(iter[s \ {n + 1}], seq[n + 1]) ELSE iter[s]]
  <2>3. ASSUME NEW s \in SUBSET (1..(n + 1))
        PROVE  /\ s \ {n + 1} \in SUBSET (1..n)
               /\ n + 1 \in s => Max(s) = n + 1
    <3>1. \A x \in 1..(n + 1) : x = n + 1 \/ x \in 1..n
      BY <2>1
    <3>2. n + 1 \in s => Max(s) = n + 1
      <4>1. \A x \in s : n + 1 >= x /\ (x >= n + 1 => x = n + 1)
        BY <2>1
      <4> QED
        BY <4>1 DEF Max
    <3> QED
      BY <3>1, <3>2
  <2>4. more \in [SUBSET (1..(n + 1)) -> A]
    <3> SUFFICES ASSUME NEW s \in SUBSET (1..(n + 1))
                 PROVE  (IF n + 1 \in s THEN Op(iter[s \ {n + 1}], seq[n + 1]) ELSE iter[s]) \in A
      OBVIOUS
    <3>1. iter[s \ {n + 1}] \in A
      BY <2>2, <2>3
    <3>2. Op(iter[s \ {n + 1}], seq[n + 1]) \in A
      BY <1>0, <2>1, <3>1 DEF Closed
    <3>3. n + 1 \notin s => s \ {n + 1} = s
      OBVIOUS
    <3> QED
      BY <3>1, <3>2, <3>3
  <2>5. ASSUME NEW s \in SUBSET (1..(n + 1))
        PROVE  more[s] = Turn(base, seq, more, s)
    <3>1. \A t \in SUBSET (1..(n + 1)) : n + 1 \notin t => more[t] = iter[t]
      OBVIOUS
    <3>2. CASE n + 1 \in s
      <4>1. more[s \ {n + 1}] = iter[s \ {n + 1}]
        BY <3>1
      <4> QED
        BY <2>3, <3>2, <4>1 DEF Turn
    <3>3. CASE n + 1 \notin s
      <4>1. s \in SUBSET (1..n) /\ s \ {Max(s)} \in SUBSET (1..(n + 1)) /\ n + 1 \notin s \ {Max(s)}
        BY <2>3, <3>3
      <4>2. more[s] = iter[s] /\ more[s \ {Max(s)}] = iter[s \ {Max(s)}]
        BY <3>1, <3>3, <4>1
      <4> QED
        BY <2>2, <4>1, <4>2 DEF Turn
    <3> QED
      BY <3>2, <3>3
  <2>6. Upto(n + 1, more)
    BY <2>4, <2>5
  <2> QED
    BY <2>6
<1> HIDE DEF Upto
<1>3. S = Nat
  <2> HIDE DEF N
  <2> QED
    BY <1>1, <1>2, NatSetInduction
<1>4. \E iter : Upto(N, iter)
  BY <1>0, <1>3
<1> QED
  BY <1>4 DEF Upto, Turns

\* The fold, and its values after each element.
Fold(base, seq) == FoldLeft(Op, base, seq)
FoldSteps(A, base, seq, st) ==
  /\ st \in [0..Len(seq) -> A]
  /\ st[0] = base
  /\ \A i \in 1..Len(seq) : st[i] = Op(st[i - 1], seq[i])

\* A fold goes from left to right.
LEMMA FoldTrace ==
  ASSUME NEW A, NEW E, Closed(A, E), NEW base \in A, NEW seq \in Seq(E)
  PROVE  \E st : FoldSteps(A, base, seq, st) /\ Fold(base, seq) = st[Len(seq)]
<1> DEFINE N == Len(seq)
           B(iter) == [s \in SUBSET DOMAIN seq |->
                         IF s = {} THEN base ELSE Op(iter[s \ {Max(s)}], seq[Max(s)])]
           C == CHOOSE iter : iter = B(iter)
<1>1. Fold(base, seq) = C[DOMAIN seq]
  BY DEF Fold, FoldLeft, MapThenFoldSet
<1>2. N \in Nat /\ DOMAIN seq = 1..N /\ \A i \in 1..N : seq[i] \in E
  BY LenProperties, ElementOfSeq
<1>3. PICK iter : Turns(A, base, seq, iter)
  BY TurnsExist
<1>4. iter = B(iter)
  BY <1>2, <1>3 DEF Turn, Turns
<1>5. C = B(C)
  BY <1>4
<1> HIDE DEF C
<1>6. C[{}] = base
  BY <1>5
<1>7. \A k \in 1..N : C[1..k] = Op(C[1..(k - 1)], seq[k])
  <2> SUFFICES ASSUME NEW k \in 1..N PROVE C[1..k] = Op(C[1..(k - 1)], seq[k])
    OBVIOUS
  <2>0. k \in 1..k /\ k <= N /\ N \in Nat /\ k \in Nat
    BY <1>2
  <2>1. 1..k \in SUBSET DOMAIN seq /\ 1..k # {}
    <3>1. \A x \in 1..k : x \in 1..N
      BY <2>0
    <3> QED
      BY <1>2, <2>0, <3>1
  <2>2. Max(1..k) = k
    <3>1. k \in 1..k /\ \A x \in 1..k : k >= x /\ (x >= k => x = k)
      BY <1>2
    <3> QED
      BY <3>1 DEF Max
  <2>3. (1..k) \ {k} = 1..(k - 1)
    BY <1>2
  <2> QED
    BY <1>5, <2>1, <2>2, <2>3
<1> DEFINE st == [k \in 0..N |-> C[1..k]]
           S == {n \in Nat : n <= N => C[1..n] \in A}
<1>8. 1..0 = {}
  OBVIOUS
<1>9. 0 \in S
  BY <1>6, <1>8
<1>10. ASSUME NEW n \in S PROVE n + 1 \in S
  <2> SUFFICES ASSUME n + 1 <= N PROVE C[1..(n + 1)] \in A
    BY <1>2
  <2>1. n \in Nat /\ n <= N /\ n + 1 \in 1..N /\ (n + 1) - 1 = n
    BY <1>2
  <2>2. C[1..(n + 1)] = Op(C[1..n], seq[n + 1]) /\ C[1..n] \in A
    BY <1>7, <2>1
  <2> QED
    BY <1>2, <2>1, <2>2 DEF Closed
<1>11. S = Nat
  <2> HIDE DEF N
  <2> QED
    BY <1>9, <1>10, NatSetInduction
<1>12. st \in [0..N -> A]
  BY <1>2, <1>11
<1>13. st[0] = base
  BY <1>2, <1>6, <1>8
<1>14. \A i \in 1..N : st[i] = Op(st[i - 1], seq[i])
  <2> SUFFICES ASSUME NEW i \in 1..N PROVE st[i] = Op(st[i - 1], seq[i])
    OBVIOUS
  <2>1. i \in 0..N /\ i - 1 \in 0..N
    BY <1>2
  <2> QED
    BY <1>7, <2>1
<1>15. Fold(base, seq) = st[N]
  BY <1>1, <1>2
<1> QED
  BY <1>12, <1>13, <1>14, <1>15 DEF FoldSteps

\* The fold of nothing.
LEMMA FoldEmpty ==
  ASSUME NEW base
  PROVE  Fold(base, <<>>) = base
<1> DEFINE B(iter) == [s \in SUBSET DOMAIN <<>> |->
                         IF s = {} THEN base ELSE Op(iter[s \ {Max(s)}], <<>>[Max(s)])]
           C == CHOOSE iter : iter = B(iter)
<1>1. Fold(base, <<>>) = C[DOMAIN <<>>]
  BY DEF Fold, FoldLeft, MapThenFoldSet
<1>2. DOMAIN <<>> = {}
  OBVIOUS
<1>3. [s \in SUBSET {} |-> base] = B([s \in SUBSET {} |-> base])
  BY <1>2
<1>4. C = B(C)
  BY <1>3
<1> HIDE DEF C
<1> QED
  BY <1>1, <1>2, <1>4

\* The fold stays in A.
LEMMA FoldType ==
  ASSUME NEW A, NEW E, Closed(A, E), NEW base \in A, NEW seq \in Seq(E)
  PROVE  Fold(base, seq) \in A
<1>1. PICK st : FoldSteps(A, base, seq, st) /\ Fold(base, seq) = st[Len(seq)]
  BY FoldTrace
<1>2. Len(seq) \in 0..Len(seq)
  BY LenProperties
<1> QED
  BY <1>1, <1>2 DEF FoldSteps

\* One more element is one more application.
LEMMA FoldAppend ==
  ASSUME NEW A, NEW E, Closed(A, E), NEW base \in A, NEW seq \in Seq(E), NEW e \in E
  PROVE  Fold(base, Append(seq, e)) = Op(Fold(base, seq), e)
<1> DEFINE N == Len(seq)
           more == Append(seq, e)
<1>1. /\ N \in Nat /\ more \in Seq(E) /\ Len(more) = N + 1
      /\ more[N + 1] = e /\ \A i \in 1..N : more[i] = seq[i]
  BY AppendProperties, LenProperties
<1> HIDE DEF more
<1>2. PICK st : FoldSteps(A, base, seq, st) /\ Fold(base, seq) = st[N]
  BY FoldTrace
<1>3. PICK tt : FoldSteps(A, base, more, tt) /\ Fold(base, more) = tt[Len(more)]
  BY <1>1, FoldTrace
<1> USE DEF FoldSteps
<1> DEFINE S == {n \in Nat : n <= N => st[n] = tt[n]}
<1> HIDE DEF N
<1>4. 0 \in S
  BY <1>2, <1>3
<1>5. ASSUME NEW n \in S PROVE n + 1 \in S
  <2> SUFFICES ASSUME n + 1 <= N PROVE st[n + 1] = tt[n + 1]
    BY <1>1
  <2>1. n \in Nat /\ n <= N /\ n + 1 \in 1..N /\ n + 1 \in 1..Len(more) /\ (n + 1) - 1 = n
    BY <1>1
  <2>2. st[n] = tt[n]
    BY <2>1
  <2>3. st[n + 1] = Op(st[(n + 1) - 1], seq[n + 1])
    BY <1>2, <2>1 DEF N
  <2>4. tt[n + 1] = Op(tt[(n + 1) - 1], more[n + 1])
    BY <1>3, <2>1
  <2> QED
    BY <1>1, <2>1, <2>2, <2>3, <2>4
<1>6. S = Nat
  BY <1>4, <1>5, NatSetInduction
<1>7. st[N] = tt[N]
  BY <1>1, <1>6
<1>8. N + 1 \in 1..Len(more) /\ (N + 1) - 1 = N
  BY <1>1
<1>9. tt[N + 1] = Op(tt[N], e)
  BY <1>1, <1>3, <1>8
<1> QED
  BY <1>1, <1>2, <1>3, <1>7, <1>9 DEF more

\* A fold over two sequences goes on where the first one ends.
LEMMA FoldConcat ==
  ASSUME NEW A, NEW E, Closed(A, E), NEW base \in A, NEW s \in Seq(E), NEW t \in Seq(E)
  PROVE  Fold(base, s \o t) = Fold(Fold(base, s), t)
<1> DEFINE mid == Fold(base, s)
           P == {u \in Seq(E) : Fold(base, s \o u) = Fold(mid, u)}
<1>1. mid \in A
  BY FoldType
<1> HIDE DEF mid
<1>2. <<>> \in P
  BY FoldEmpty, EmptySeq, ConcatEmptySeq DEF mid
<1>3. ASSUME NEW u \in P, NEW e \in E PROVE Append(u, e) \in P
  <2>1. u \in Seq(E) /\ Append(u, e) \in Seq(E) /\ s \o u \in Seq(E)
    BY AppendProperties, ConcatProperties
  <2>2. s \o Append(u, e) = Append(s \o u, e)
    <3>1. <<e>> \in Seq(E) /\ Append(u, e) = u \o <<e>> /\ Append(s \o u, e) = (s \o u) \o <<e>>
      BY <2>1, AppendIsConcat
    <3> QED
      BY <2>1, <3>1, ConcatAssociative
  <2>3. Fold(base, Append(s \o u, e)) = Op(Fold(base, s \o u), e)
    <3>1. \A v \in Seq(E) : Fold(base, Append(v, e)) = Op(Fold(base, v), e)
      BY FoldAppend
    <3> QED
      BY <2>1, <3>1
  <2>4. Fold(mid, Append(u, e)) = Op(Fold(mid, u), e)
    BY <1>1, <2>1, FoldAppend
  <2> QED
    BY <2>1, <2>2, <2>3, <2>4
<1>4. P = Seq(E)
  BY <1>2, <1>3, SeqSetInduction
<1> QED
  BY <1>4 DEF mid

\* Steps by another name end where the fold does.
LEMMA FoldIs ==
  ASSUME NEW A, NEW E, Closed(A, E), NEW base \in A, NEW seq \in Seq(E),
         NEW tt, FoldSteps(A, base, seq, tt)
  PROVE  Fold(base, seq) = tt[Len(seq)]
<1> DEFINE N == Len(seq)
<1>1. PICK st : FoldSteps(A, base, seq, st) /\ Fold(base, seq) = st[N]
  BY FoldTrace
<1>2. N \in Nat
  BY LenProperties
<1> DEFINE S == {n \in Nat : n <= N => st[n] = tt[n]}
<1>3. 0 \in S
  BY <1>1 DEF FoldSteps
<1>4. ASSUME NEW n \in S PROVE n + 1 \in S
  <2> SUFFICES ASSUME n + 1 <= N PROVE st[n + 1] = tt[n + 1]
    BY <1>2
  <2>1. n \in Nat /\ n <= N /\ n + 1 \in 1..N /\ (n + 1) - 1 = n
    BY <1>2
  <2>2. /\ st[n + 1] = Op(st[(n + 1) - 1], seq[n + 1])
        /\ tt[n + 1] = Op(tt[(n + 1) - 1], seq[n + 1])
    BY <1>1, <2>1 DEF FoldSteps
  <2> QED
    BY <2>1, <2>2
<1>5. S = Nat
  <2> HIDE DEF N
  <2> QED
    BY <1>3, <1>4, NatSetInduction
<1> QED
  BY <1>1, <1>2, <1>5

\* The values of a fold after each of several sequences.
FoldPieces(A, base, seqs, st) ==
  /\ st \in [0..Len(seqs) -> A]
  /\ st[0] = base
  /\ \A i \in 1..Len(seqs) : st[i] = Fold(st[i - 1], seqs[i])

\* A fold over sequences that were flattened takes one after the other.
LEMMA FoldFlatten ==
  ASSUME NEW A, NEW E, Closed(A, E), NEW base \in A, NEW seqs \in Seq(Seq(E)),
         NEW st, FoldPieces(A, base, seqs, st)
  PROVE  Fold(base, FlattenSeq(seqs)) = st[Len(seqs)]
<1> DEFINE N == Len(seqs)
<1>1. PICK sum : FlattenSums(seqs, E, sum)
  BY FlattenTrace
<1>2. N \in Nat /\ \A i \in 1..N : seqs[i] \in Seq(E)
  BY ElementOfSeq, LenProperties
<1> DEFINE S == {n \in Nat : n <= N => Fold(base, sum[n]) = st[n]}
<1>3. 0 \in S
  BY <1>1, FoldEmpty DEF FlattenSums, FoldPieces
<1>4. ASSUME NEW n \in S PROVE n + 1 \in S
  <2> SUFFICES ASSUME n + 1 <= N PROVE Fold(base, sum[n + 1]) = st[n + 1]
    BY <1>2
  <2>1. n \in Nat /\ n <= N /\ n + 1 \in 1..N /\ (n + 1) - 1 = n /\ n \in 0..N
    BY <1>2
  <2>2. sum[n + 1] = sum[n] \o seqs[n + 1] /\ sum[n] \in Seq(E) /\ seqs[n + 1] \in Seq(E)
    <3>1. sum[n + 1] = sum[(n + 1) - 1] \o seqs[n + 1]
      BY <1>1, <2>1 DEF FlattenSums
    <3>2. sum[n] \in Seq(E)
      BY <1>1, <2>1 DEF FlattenSums
    <3> QED
      BY <1>2, <2>1, <3>1, <3>2
  <2>3. st[n + 1] = Fold(st[(n + 1) - 1], seqs[n + 1])
    BY <2>1 DEF FoldPieces
  <2>4. Fold(base, sum[n] \o seqs[n + 1]) = Fold(Fold(base, sum[n]), seqs[n + 1])
    BY <2>2, FoldConcat
  <2>5. Fold(base, sum[n]) = st[n]
    BY <2>1
  <2> HIDE DEF N, S
  <2> QED
    BY <2>1, <2>2, <2>3, <2>4, <2>5
<1>5. S = Nat
  <2> HIDE DEF N
  <2> QED
    BY <1>3, <1>4, NatSetInduction
<1> HIDE DEF N
<1>6. N \in S /\ N <= N
  BY <1>2, <1>5
<1> QED
  BY <1>1, <1>6 DEF FlattenSums, N
=============================================================================
