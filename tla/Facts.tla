------------------------------- MODULE Facts -------------------------------
(***************************************************************************)
(* Facts the proofs of several components use: what a search over a table  *)
(* returns, induction over the naturals and over sequences stated about    *)
(* sets, and what FlattenSeq computes.                                     *)
(***************************************************************************)
EXTENDS SlotSearch, Integers, SequencesExt, SequenceTheorems, WellFoundedInduction, TLAPS

\* A set of naturals has a least element.
LEMMA LeastExists ==
  ASSUME NEW S \in SUBSET Nat, S # {}
  PROVE  \E s \in S : \A t \in S : s <= t
<1> DEFINE R == {ss \in Nat \X Nat : ss[1] < ss[2]}
<1>1. IsWellFoundedOn(R, Nat)
  BY NatLessThanWellFounded, Zenon DEF OpToRel
<1>2. PICK s \in S : \A t \in S : <<t, s>> \notin R
  BY <1>1, WFMin
<1>3. \A t \in S : s <= t
  <2> SUFFICES ASSUME NEW t \in S, ~(s <= t) PROVE FALSE
    OBVIOUS
  <2>1. t \in Nat /\ s \in Nat /\ t < s
    OBVIOUS
  <2>2. <<t, s>> \in Nat \X Nat /\ <<t, s>>[1] < <<t, s>>[2]
    BY <2>1
  <2> QED
    BY <1>2, <2>2
<1> QED
  BY <1>3

\* First picks an element: a search that finds something returns a slot it has
\* seen, so the callers of start_tunnel, stop_tunnel, alloc_slot and find_slot
\* use a slot that matches.
LEMMA FirstIsMember ==
  ASSUME NEW S \in SUBSET Nat, S # {}
  PROVE  First(S) \in S
  BY LeastExists DEF First

-----------------------------------------------------------------------------
(* Induction                                                               *)

\* Over the naturals: the set of the numbers of which something holds.
LEMMA NatSetInduction ==
  ASSUME NEW S \in SUBSET Nat, 0 \in S, \A n \in S : n + 1 \in S
  PROVE  S = Nat
<1> DEFINE M == Nat \ S
<1>1. SUFFICES ASSUME M # {} PROVE FALSE
  OBVIOUS
<1>2. PICK m \in M : \A t \in M : m <= t
  <2>1. M \in SUBSET Nat
    OBVIOUS
  <2> QED
    BY <1>1, <2>1, LeastExists
<1>3. m \in Nat /\ m # 0 /\ m - 1 \in Nat /\ (m - 1) + 1 = m /\ ~(m <= m - 1)
  BY <1>2
<1>4. m - 1 \in S
  BY <1>2, <1>3
<1> QED
  BY <1>2, <1>3, <1>4

\* Over sequences: the set of those of which something holds.
LEMMA SeqSetInduction ==
  ASSUME NEW E, NEW P \in SUBSET Seq(E),
         <<>> \in P, \A s \in P, e \in E : Append(s, e) \in P
  PROVE  P = Seq(E)
<1> DEFINE S == {n \in Nat : \A s \in Seq(E) : Len(s) = n => s \in P}
<1>1. 0 \in S
  <2>1. \A s \in Seq(E) : Len(s) = 0 => s = <<>>
    BY EmptySeq
  <2> QED
    BY <2>1
<1>2. ASSUME NEW n \in S PROVE n + 1 \in S
  <2> SUFFICES ASSUME NEW s \in Seq(E), Len(s) = n + 1 PROVE s \in P
    OBVIOUS
  <2>1. s # <<>> /\ n \in Nat
    BY EmptySeq
  <2>2. PICK t \in Seq(E), e \in E : s = Append(t, e)
    BY <2>1, SequenceEmptyOrAppend
  <2>3. Len(t) = n
    BY <2>1, <2>2, AppendProperties, LenProperties
  <2> QED
    BY <2>2, <2>3
<1> HIDE DEF S
<1>3. S = Nat
  <2>1. S \in SUBSET Nat
    BY DEF S
  <2> QED
    BY <1>1, <1>2, <2>1, NatSetInduction
<1>4. ASSUME NEW s \in Seq(E) PROVE s \in P
  BY <1>3, LenProperties DEF S
<1> QED
  BY <1>4

-----------------------------------------------------------------------------
(* FlattenSeq                                                              *)

\* What FlattenSeq goes through.
FlattenSteps(seqs, E, st) ==
  /\ st \in [1..Len(seqs) -> Seq(E)]
  /\ \A i \in 1..Len(seqs) : st[i] = IF i = 1 THEN seqs[i] ELSE st[i - 1] \o seqs[i]

\* There is such a sequence of steps.
LEMMA FlattenStepsExist ==
  ASSUME NEW E, NEW seqs \in Seq(Seq(E))
  PROVE  \E st : FlattenSteps(seqs, E, st)
<1> DEFINE N == Len(seqs)
           Upto(n, st) == /\ st \in [1..n -> Seq(E)]
                          /\ \A i \in 1..n : st[i] = IF i = 1 THEN seqs[i] ELSE st[i - 1] \o seqs[i]
           S == {n \in Nat : n <= N => \E st : Upto(n, st)}
<1>0. N \in Nat /\ \A i \in 1..N : seqs[i] \in Seq(E)
  BY LenProperties, ElementOfSeq
<1>1. 0 \in S
  <2>1. Upto(0, [i \in 1..0 |-> <<>>])
    OBVIOUS
  <2> QED
    BY <2>1
<1>2. ASSUME NEW n \in S PROVE n + 1 \in S
  <2> HIDE DEF Upto
  <2> SUFFICES ASSUME n + 1 <= N PROVE \E st : Upto(n + 1, st)
    BY <1>0
  <2> USE DEF Upto
  <2>1. n \in Nat /\ n <= N
    BY <1>0
  <2>2. PICK st : Upto(n, st)
    BY <2>1
  <2> DEFINE last == IF n = 0 THEN seqs[1] ELSE st[n] \o seqs[n + 1]
             tt == [i \in 1..(n + 1) |-> IF i = n + 1 THEN last ELSE st[i]]
  <2>3. last \in Seq(E)
    <3>1. CASE n = 0
      BY <1>0, <2>1, <3>1
    <3>2. CASE n # 0
      <4>1. st[n] \in Seq(E) /\ seqs[n + 1] \in Seq(E)
        BY <1>0, <2>1, <2>2, <3>2
      <4> QED
        BY <3>2, <4>1, ConcatProperties
    <3> QED
      BY <3>1, <3>2
  <2>4. tt \in [1..(n + 1) -> Seq(E)]
    <3> HIDE DEF last
    <3> QED
      BY <2>1, <2>2, <2>3
  <2>5. ASSUME NEW i \in 1..(n + 1)
        PROVE  tt[i] = IF i = 1 THEN seqs[i] ELSE tt[i - 1] \o seqs[i]
    <3>1. CASE i = n + 1
      BY <2>1, <3>1
    <3>2. CASE i # n + 1
      <4>0. i \in 1..n /\ (i # 1 => i - 1 \in 1..n) /\ i - 1 # n + 1
        BY <2>1, <3>2
      <4>1. /\ i \in 1..n /\ (i # 1 => i - 1 \in 1..n) /\ i - 1 # n + 1
            /\ st[i] = IF i = 1 THEN seqs[i] ELSE st[i - 1] \o seqs[i]
        BY <2>2, <4>0
      <4>2. tt[i] = st[i] /\ (i # 1 => tt[i - 1] = st[i - 1])
        <5> HIDE DEF last
        <5> QED
          BY <2>1, <3>2, <4>1
      <4> QED
        BY <4>1, <4>2
    <3> QED
      BY <3>1, <3>2
  <2> QED
    BY <2>4, <2>5
<1>3. S = Nat
  <2> HIDE DEF Upto, N
  <2> QED
    BY <1>1, <1>2, NatSetInduction
<1>4. \E st : Upto(N, st)
  <2> HIDE DEF Upto
  <2> QED
    BY <1>0, <1>3
<1> QED
  BY <1>4 DEF FlattenSteps

\* FlattenSeq returns the last step.
LEMMA FlattenSeqSteps ==
  ASSUME NEW E, NEW seqs \in Seq(Seq(E)), seqs # <<>>
  PROVE  \E st : FlattenSteps(seqs, E, st) /\ FlattenSeq(seqs) = st[Len(seqs)]
<1> DEFINE N == Len(seqs)
           B(fl) == [i \in 1..Len(seqs) |-> IF i = 1 THEN seqs[i] ELSE fl[i - 1] \o seqs[i]]
           C == CHOOSE fl : fl = B(fl)
<1>1. N \in Nat \ {0} /\ \A i \in 1..N : seqs[i] \in Seq(E)
  BY EmptySeq, ElementOfSeq
<1>2. FlattenSeq(seqs) = C[Len(seqs)]
  BY <1>1 DEF FlattenSeq
<1>3. PICK st : FlattenSteps(seqs, E, st)
  BY FlattenStepsExist
<1>4. st = B(st)
  BY <1>3 DEF FlattenSteps
<1>5. C = B(C)
  BY <1>4
<1> HIDE DEF C
<1>6. C \in [1..N -> Seq(E)]
  <2> DEFINE S == {n \in Nat : n + 1 <= N => C[n + 1] \in Seq(E)}
  <2>1. 0 \in S
    BY <1>1, <1>5
  <2>2. ASSUME NEW n \in S PROVE n + 1 \in S
    <3> SUFFICES ASSUME n + 2 <= N PROVE C[n + 2] \in Seq(E)
      OBVIOUS
    <3>1. n \in Nat /\ n + 1 <= N /\ n + 2 \in 1..N /\ n + 2 # 1 /\ (n + 2) - 1 = n + 1
      BY <1>1
    <3>2. C[n + 2] = C[n + 1] \o seqs[n + 2]
      BY <1>5, <3>1
    <3> QED
      BY <1>1, <3>1, <3>2, ConcatProperties
  <2>3. S = Nat
    <3> HIDE DEF N
    <3> QED
    BY <2>1, <2>2, NatSetInduction
  <2>4. \A i \in 1..N : C[i] \in Seq(E)
    <3> SUFFICES ASSUME NEW i \in 1..N PROVE C[i] \in Seq(E)
      OBVIOUS
    <3>1. i - 1 \in Nat /\ (i - 1) + 1 = i /\ i <= N
      BY <1>1
    <3>2. i - 1 \in S
      BY <2>3, <3>1
    <3> QED
      BY <3>1, <3>2
  <2>5. C = [i \in 1..N |-> C[i]]
    BY <1>5
  <2> QED
    BY <2>4, <2>5
<1> QED
  BY <1>2, <1>5, <1>6 DEF FlattenSteps

\* FlattenSeq concatenates sequences of elements to one.
LEMMA FlattenType ==
  ASSUME NEW E, NEW seqs \in Seq(Seq(E))
  PROVE  FlattenSeq(seqs) \in Seq(E)
<1>1. CASE seqs = <<>>
  <2>1. Len(seqs) = 0
    BY <1>1
  <2>2. FlattenSeq(seqs) = <<>>
    BY <1>1, <2>1 DEF FlattenSeq
  <2> QED
    BY <2>2, EmptySeq
<1>2. CASE seqs # <<>>
  <2>1. Len(seqs) \in 1..Len(seqs)
    BY <1>2, EmptySeq
  <2> QED
    BY <1>2, <2>1, FlattenSeqSteps DEF FlattenSteps
<1> QED
  BY <1>1, <1>2

\* It concatenates from the left.
LEMMA FlattenAppend ==
  ASSUME NEW E, NEW seqs \in Seq(Seq(E)), NEW s \in Seq(E)
  PROVE  FlattenSeq(Append(seqs, s)) = FlattenSeq(seqs) \o s
<1> DEFINE N == Len(seqs)
           more == Append(seqs, s)
<1>1. /\ N \in Nat /\ more \in Seq(Seq(E)) /\ more # <<>> /\ Len(more) = N + 1
      /\ more[N + 1] = s /\ \A i \in 1..N : more[i] = seqs[i]
  BY AppendProperties, LenProperties
<1>2. PICK st : FlattenSteps(more, E, st) /\ FlattenSeq(more) = st[Len(more)]
  BY <1>1, FlattenSeqSteps
<1> HIDE DEF more
<1>3. \A i \in 1..(N + 1) : st[i] = IF i = 1 THEN more[i] ELSE st[i - 1] \o more[i]
  BY <1>1, <1>2 DEF FlattenSteps
<1>4. CASE seqs = <<>>
  <2>1. N = 0
    BY <1>4
  <2>2. FlattenSeq(seqs) = <<>>
    BY <1>4, <2>1 DEF FlattenSeq
  <2>3. FlattenSeq(more) = s
    BY <1>1, <1>2, <1>3, <2>1
  <2> QED
    BY <2>2, <2>3, ConcatEmptySeq DEF more
<1>5. CASE seqs # <<>>
  <2>1. PICK tt : FlattenSteps(seqs, E, tt) /\ FlattenSeq(seqs) = tt[N]
    BY <1>5, FlattenSeqSteps
  <2>2. N \in Nat \ {0}
    BY <1>5, EmptySeq
  <2>3. \A i \in 1..N : tt[i] = IF i = 1 THEN seqs[i] ELSE tt[i - 1] \o seqs[i]
    BY <2>1 DEF FlattenSteps
  <2> DEFINE S == {n \in Nat : n + 1 <= N => st[n + 1] = tt[n + 1]}
  <2> HIDE DEF N
  <2>4. 0 \in S
    BY <1>1, <1>3, <2>2, <2>3
  <2>5. ASSUME NEW n \in S PROVE n + 1 \in S
    <3> SUFFICES ASSUME n + 2 <= N PROVE st[n + 2] = tt[n + 2]
      OBVIOUS
    <3>1. n \in Nat /\ n + 1 <= N /\ n + 2 \in 1..N /\ n + 2 # 1 /\ (n + 2) - 1 = n + 1
      BY <1>1
    <3>2. st[n + 1] = tt[n + 1]
      BY <3>1
    <3> QED
      BY <1>1, <1>3, <2>3, <3>1, <3>2
  <2>6. S = Nat
    BY <2>4, <2>5, NatSetInduction
  <2>7. st[N] = tt[N]
    <3>1. N - 1 \in Nat /\ (N - 1) + 1 = N /\ N <= N
      BY <2>2
    <3>2. N - 1 \in S
      BY <2>6, <3>1
    <3> QED
      BY <3>1, <3>2
  <2>8. st[N + 1] = st[N] \o s
    <3>1. N + 1 \in 1..(N + 1) /\ N + 1 # 1 /\ (N + 1) - 1 = N
      BY <2>2
    <3>2. st[N + 1] = st[(N + 1) - 1] \o more[N + 1]
      BY <1>3, <3>1
    <3> QED
      BY <1>1, <3>1, <3>2
  <2> QED
    BY <1>1, <1>2, <2>1, <2>7, <2>8 DEF more
<1> QED
  BY <1>4, <1>5

\* Nothing flattened is nothing.
LEMMA FlattenEmpty == FlattenSeq(<<>>) = <<>>
  BY DEF FlattenSeq

\* What is flattened after each of the sequences.
FlattenSums(seqs, E, st) ==
  /\ st \in [0..Len(seqs) -> Seq(E)] /\ st[0] = <<>>
  /\ \A i \in 1..Len(seqs) : st[i] = st[i - 1] \o seqs[i]
  /\ FlattenSeq(seqs) = st[Len(seqs)]

\* FlattenSeq adds one sequence after the other to nothing.
LEMMA FlattenTrace ==
  ASSUME NEW E, NEW seqs \in Seq(Seq(E))
  PROVE  \E st : FlattenSums(seqs, E, st)
<1> DEFINE N == Len(seqs)
<1>1. N \in Nat /\ \A i \in 1..N : seqs[i] \in Seq(E)
  BY ElementOfSeq, LenProperties
<1>2. CASE seqs = <<>>
  <2> DEFINE none == [i \in 0..0 |-> <<>>]
  <2>1. N = 0 /\ <<>> \in Seq(E)
    BY <1>2, EmptySeq
  <2>2. FlattenSums(seqs, E, none)
    BY <1>2, <2>1, FlattenEmpty DEF FlattenSums
  <2> QED
    BY <2>2
<1>3. CASE seqs # <<>>
  <2>1. PICK tt : FlattenSteps(seqs, E, tt) /\ FlattenSeq(seqs) = tt[N]
    BY <1>3, FlattenSeqSteps
  <2> DEFINE st == [i \in 0..N |-> IF i = 0 THEN <<>> ELSE tt[i]]
  <2>2. N \in 1..N
    BY <1>3, EmptySeq
  <2>3. <<>> \in Seq(E)
    BY EmptySeq
  <2>4. st \in [0..N -> Seq(E)]
    <3> SUFFICES ASSUME NEW i \in 0..N PROVE (IF i = 0 THEN <<>> ELSE tt[i]) \in Seq(E)
      OBVIOUS
    <3>1. i # 0 => i \in 1..N
      BY <1>1
    <3> QED
      BY <2>1, <2>3, <3>1 DEF FlattenSteps
  <2>5. ASSUME NEW i \in 1..N
        PROVE  st[i] = st[i - 1] \o seqs[i]
    <3>1. i \in 0..N /\ i - 1 \in 0..N /\ i # 0 /\ (i # 1 => i - 1 # 0)
      BY <1>1
    <3>2. st[i] = tt[i] /\ st[i - 1] = IF i = 1 THEN <<>> ELSE tt[i - 1]
      BY <3>1
    <3>3. tt[i] = IF i = 1 THEN seqs[i] ELSE tt[i - 1] \o seqs[i]
      BY <2>1 DEF FlattenSteps
    <3>4. <<>> \o seqs[i] = seqs[i]
      BY <1>1, ConcatEmptySeq
    <3> HIDE DEF st
    <3> QED
      BY <3>2, <3>3, <3>4
  <2>6. st[0] = <<>> /\ FlattenSeq(seqs) = st[N]
    BY <1>1, <2>1, <2>2
  <2> HIDE DEF st
  <2>7. FlattenSums(seqs, E, st)
    BY <2>4, <2>5, <2>6 DEF FlattenSums
  <2> QED
    BY <2>7
<1> QED
  BY <1>2, <1>3

\* A trace by another name ends where FlattenSeq does.
LEMMA FlattenIs ==
  ASSUME NEW E, NEW seqs \in Seq(Seq(E)), NEW tt,
         tt[0] = <<>>, \A i \in 1..Len(seqs) : tt[i] = tt[i - 1] \o seqs[i]
  PROVE  FlattenSeq(seqs) = tt[Len(seqs)]
<1> DEFINE N == Len(seqs)
<1>1. PICK st : FlattenSums(seqs, E, st)
  BY FlattenTrace
<1>2. N \in Nat
  BY LenProperties
<1> DEFINE S == {n \in Nat : n <= N => st[n] = tt[n]}
<1>3. 0 \in S
  BY <1>1 DEF FlattenSums
<1>4. ASSUME NEW n \in S PROVE n + 1 \in S
  <2> SUFFICES ASSUME n + 1 <= N PROVE st[n + 1] = tt[n + 1]
    BY <1>2
  <2>1. n \in Nat /\ n <= N /\ n + 1 \in 1..N /\ (n + 1) - 1 = n
    BY <1>2
  <2>2. st[n + 1] = st[(n + 1) - 1] \o seqs[n + 1] /\ tt[n + 1] = tt[(n + 1) - 1] \o seqs[n + 1]
    BY <1>1, <2>1 DEF FlattenSums
  <2> QED
    BY <2>1, <2>2
<1>5. S = Nat
  <2> HIDE DEF N
  <2> QED
    BY <1>3, <1>4, NatSetInduction
<1> QED
  BY <1>1, <1>2, <1>5 DEF FlattenSums

\* Sequences of one element each are flattened to their elements.
LEMMA FlattenSingles ==
  ASSUME NEW E, NEW s \in Seq(E)
  PROVE  FlattenSeq([i \in 1..Len(s) |-> <<s[i]>>]) = s
<1> DEFINE seqs == [i \in 1..Len(s) |-> <<s[i]>>]
           tt == [i \in 0..Len(s) |-> SubSeq(s, 1, i)]
<1>1. Len(s) \in Nat /\ \A i \in 1..Len(s) : s[i] \in E
  BY LenProperties, ElementOfSeq
<1>2. seqs \in Seq(Seq(E)) /\ Len(seqs) = Len(s)
  <2>1. \A i \in 1..Len(s) : <<s[i]>> \in Seq(E)
    BY <1>1
  <2>2. seqs \in Seq(Seq(E))
    BY <1>1, <2>1, IsASeq
  <2> QED
    BY <1>1, <2>2, LenProperties
<1>3. tt[0] = <<>>
  BY <1>1, SubSeqEmpty
<1>4. ASSUME NEW i \in 1..Len(seqs) PROVE tt[i] = tt[i - 1] \o seqs[i]
  <2>1. i \in 0..Len(s) /\ i - 1 \in 0..Len(s) /\ i \in 1..Len(s) /\ i - 1 \in Int
    BY <1>1, <1>2
  <2>2. SubSeq(s, 1, i) = SubSeq(s, 1, i - 1) \o <<s[i]>>
    <3>1. SubSeq(s, 1, i) = Append(SubSeq(s, 1, i - 1), s[i]) /\ SubSeq(s, 1, i - 1) \in Seq(E)
      BY <1>1, <2>1
    <3> QED
      BY <1>1, <2>1, <3>1, AppendIsConcat
  <2> QED
    BY <2>1, <2>2
<1>5. FlattenSeq(seqs) = tt[Len(seqs)]
  <2> HIDE DEF seqs, tt
  <2> QED
    BY <1>2, <1>3, <1>4, FlattenIs
<1>6. tt[Len(seqs)] = s
  BY <1>1, <1>2, SubSeqFull
<1> QED
  BY <1>5, <1>6
=============================================================================
