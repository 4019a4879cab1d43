----------------------------- MODULE SequenceFacts ----------------------------
(***************************************************************************)
(* What the proofs about the channel and the servers need to know of their *)
(* queues: of completions, results, messages and requests.                 *)
(***************************************************************************)
EXTENDS Integers, Sequences, SequenceTheorems, TLAPS

LEMMA SeqFacts ==
  ASSUME NEW T, NEW s \in Seq(T)
  PROVE  /\ Len(s) \in Nat
         /\ Len(s) = 0 <=> s = <<>>
         /\ \A x \in T : /\ Append(s, x) \in Seq(T)
                         /\ Len(Append(s, x)) = Len(s) + 1
                         /\ Append(s, x) # <<>>
         /\ s # <<>> => /\ Head(s) \in T
                        /\ Tail(s) \in Seq(T)
                        /\ Len(Tail(s)) = Len(s) - 1
  BY EmptySeq, AppendProperties, HeadTailProperties

LEMMA LastOne ==
  ASSUME NEW T, NEW s \in Seq(T), s # <<>>, Len(s) <= 1
  PROVE  Head(s) \in T /\ Tail(s) = <<>>
  <1>1. Len(s) \in Nat /\ Len(s) # 0
    BY EmptySeq, LenProperties
  <1>2. Tail(s) \in Seq(T) /\ Len(Tail(s)) = 0 /\ Head(s) \in T
    BY <1>1, Len(s) = 1, HeadTailProperties
  <1> QED
    BY <1>2, EmptySeq

-----------------------------------------------------------------------------
(* Sequences of numbers: their range, their order, and runs                *)

Within(s, n)   == \A i \in 1..Len(s) : s[i] \in 1..n
Sorted(s)      == \A i, j \in 1..Len(s) : i < j => s[i] < s[j]
Precedes(s, t) == \A i \in 1..Len(s), j \in 1..Len(t) : s[i] < t[j]
Run(s, n)      == \A i \in 1..Len(s) : s[i] = n + i

LEMMA OrderEmpty ==
  ASSUME NEW s
  PROVE  /\ Sorted(<<>>) /\ Precedes(<<>>, s) /\ Precedes(s, <<>>)
         /\ \A n : Within(<<>>, n) /\ Run(<<>>, n)
  BY DEF Sorted, Precedes, Within, Run

LEMMA OrderOne ==
  ASSUME NEW x \in Nat, NEW s \in Seq(Nat), NEW n \in Nat
  PROVE  /\ Sorted(<<x>>)
         /\ Within(<<x>>, n) <=> x \in 1..n
         /\ Run(<<x>>, n) <=> x = n + 1
         /\ Precedes(s, <<x>>) <=> \A i \in 1..Len(s) : s[i] < x
         /\ Precedes(<<x>>, s) <=> \A i \in 1..Len(s) : x < s[i]
  <1>1. Len(<<x>>) = 1 /\ <<x>>[1] = x
    OBVIOUS
  <1> QED
    BY <1>1 DEF Sorted, Precedes, Within, Run

LEMMA OrderAppend ==
  ASSUME NEW s \in Seq(Nat), NEW x \in Nat, NEW n \in Nat, NEW t \in Seq(Nat)
  PROVE  /\ Sorted(s) /\ Precedes(s, <<x>>) => Sorted(Append(s, x))
         /\ Within(s, n) /\ x \in 1..n => Within(Append(s, x), n)
         /\ Run(s, n) /\ x = n + Len(s) + 1 => Run(Append(s, x), n)
         /\ Precedes(t, s) /\ Precedes(t, <<x>>) => Precedes(t, Append(s, x))
         /\ Precedes(s, t) /\ Precedes(<<x>>, t) => Precedes(Append(s, x), t)
  <1>1. /\ Len(s) \in Nat /\ Len(Append(s, x)) = Len(s) + 1
        /\ \A i \in 1..Len(s) : Append(s, x)[i] = s[i] /\ s[i] \in Nat
        /\ Append(s, x)[Len(s) + 1] = x
    BY AppendProperties, LenProperties, ElementOfSeq
  <1>2. \A i \in 1..Len(t) : t[i] \in Nat
    BY ElementOfSeq
  <1>3. Sorted(s) /\ Precedes(s, <<x>>) => Sorted(Append(s, x))
    <2>1. Precedes(s, <<x>>) => \A i \in 1..Len(s) : s[i] < x
      BY OrderOne
    <2> SUFFICES ASSUME Sorted(s), Precedes(s, <<x>>),
                        NEW i \in 1..Len(Append(s, x)), NEW j \in 1..Len(Append(s, x)), i < j
                 PROVE  Append(s, x)[i] < Append(s, x)[j]
      BY DEF Sorted
    <2>2. CASE j \in 1..Len(s)
      BY <1>1, <2>2 DEF Sorted
    <2>3. CASE j = Len(s) + 1
      BY <1>1, <2>1, <2>3
    <2> QED
      BY <1>1, <2>2, <2>3
  <1>4. Within(s, n) /\ x \in 1..n => Within(Append(s, x), n)
    BY <1>1 DEF Within
  <1>5. Run(s, n) /\ x = n + Len(s) + 1 => Run(Append(s, x), n)
    <2> SUFFICES ASSUME Run(s, n), x = n + Len(s) + 1, NEW i \in 1..Len(Append(s, x))
                 PROVE  Append(s, x)[i] = n + i
      BY DEF Run
    <2>1. CASE i \in 1..Len(s)
      BY <1>1, <2>1 DEF Run
    <2>2. CASE i = Len(s) + 1
      BY <1>1, <2>2
    <2> QED
      BY <1>1, <2>1, <2>2
  <1>6. Precedes(t, s) /\ Precedes(t, <<x>>) => Precedes(t, Append(s, x))
    <2>1. Precedes(t, <<x>>) => \A i \in 1..Len(t) : t[i] < x
      BY OrderOne
    <2> QED
      BY <1>1, <1>2, <2>1 DEF Precedes
  <1>7. Precedes(s, t) /\ Precedes(<<x>>, t) => Precedes(Append(s, x), t)
    <2>1. Precedes(<<x>>, t) => \A i \in 1..Len(t) : x < t[i]
      BY OrderOne
    <2> QED
      BY <1>1, <1>2, <2>1 DEF Precedes
  <1> QED
    BY <1>3, <1>4, <1>5, <1>6, <1>7

LEMMA OrderHeadTail ==
  ASSUME NEW s \in Seq(Nat), s # <<>>, NEW n \in Nat, NEW t \in Seq(Nat)
  PROVE  /\ Head(s) \in Nat /\ Tail(s) \in Seq(Nat)
         /\ Len(s) = Len(Tail(s)) + 1
         /\ Sorted(s) => Sorted(Tail(s)) /\ Precedes(<<Head(s)>>, Tail(s))
         /\ Within(s, n) => Head(s) \in 1..n /\ Within(Tail(s), n)
         /\ Run(s, n) => Head(s) = n + 1 /\ Run(Tail(s), n + 1)
         /\ Precedes(t, s) => Precedes(t, <<Head(s)>>) /\ Precedes(t, Tail(s))
  <1>1. /\ Head(s) \in Nat /\ Tail(s) \in Seq(Nat)
        /\ Len(s) \in Nat \ {0} /\ Len(Tail(s)) = Len(s) - 1
        /\ Head(s) = s[1]
        /\ \A i \in 1..Len(Tail(s)) : Tail(s)[i] = s[i + 1]
    BY HeadTailProperties, LenProperties, EmptySeq
  <1>2. \A i \in 1..Len(s) : s[i] \in Nat
    BY ElementOfSeq
  <1>3. Sorted(s) => Sorted(Tail(s))
    BY <1>1, <1>2 DEF Sorted
  <1>4. Sorted(s) => Precedes(<<Head(s)>>, Tail(s))
    <2>1. Sorted(s) => \A i \in 1..Len(Tail(s)) : Head(s) < Tail(s)[i]
      BY <1>1, <1>2 DEF Sorted
    <2> QED
      BY <1>1, <2>1, OrderOne
  <1>5. Within(s, n) => Head(s) \in 1..n /\ Within(Tail(s), n)
    BY <1>1 DEF Within
  <1>6. Run(s, n) => Head(s) = n + 1 /\ Run(Tail(s), n + 1)
    BY <1>1 DEF Run
  <1>7. Precedes(t, s) => Precedes(t, <<Head(s)>>)
    <2>1. Precedes(t, s) => \A i \in 1..Len(t) : t[i] < Head(s)
      BY <1>1 DEF Precedes
    <2> QED
      BY <1>1, <2>1, OrderOne
  <1>8. Precedes(t, s) => Precedes(t, Tail(s))
    BY <1>1 DEF Precedes
  <1> QED
    BY <1>1, <1>3, <1>4, <1>5, <1>6, <1>7, <1>8

LEMMA OrderConcat ==
  ASSUME NEW s \in Seq(Nat), NEW t \in Seq(Nat), NEW n \in Nat, NEW u \in Seq(Nat)
  PROVE  /\ Sorted(s) /\ Sorted(t) /\ Precedes(s, t) => Sorted(s \o t)
         /\ Within(s, n) /\ Within(t, n) => Within(s \o t, n)
         /\ Run(s, n) /\ Run(t, n + Len(s)) => Run(s \o t, n)
         /\ Precedes(s, u) /\ Precedes(t, u) => Precedes(s \o t, u)
  <1>1. /\ s \o t \in Seq(Nat) /\ Len(s) \in Nat /\ Len(t) \in Nat
        /\ Len(s \o t) = Len(s) + Len(t)
        /\ \A i \in 1..Len(s \o t) :
             (s \o t)[i] = IF i <= Len(s) THEN s[i] ELSE t[i - Len(s)]
    BY ConcatProperties, LenProperties
  <1>2. /\ \A i \in 1..Len(s) : s[i] \in Nat
        /\ \A i \in 1..Len(t) : t[i] \in Nat
        /\ \A i \in 1..Len(u) : u[i] \in Nat
    BY ElementOfSeq
  <1>3. Sorted(s) /\ Sorted(t) /\ Precedes(s, t) => Sorted(s \o t)
    <2> SUFFICES ASSUME Sorted(s), Sorted(t), Precedes(s, t),
                        NEW i \in 1..Len(s \o t), NEW j \in 1..Len(s \o t), i < j
                 PROVE  (s \o t)[i] < (s \o t)[j]
      BY DEF Sorted
    <2>1. CASE j <= Len(s)
      BY <1>1, <2>1 DEF Sorted
    <2>2. CASE i > Len(s)
      <3>1. /\ i - Len(s) \in 1..Len(t) /\ j - Len(s) \in 1..Len(t)
            /\ i - Len(s) < j - Len(s)
        BY <1>1, <2>2
      <3>2. (s \o t)[i] = t[i - Len(s)] /\ (s \o t)[j] = t[j - Len(s)]
        BY <1>1, <2>2
      <3> QED
        BY <3>1, <3>2 DEF Sorted
    <2>3. CASE i <= Len(s) /\ ~(j <= Len(s))
      <3>1. i \in 1..Len(s) /\ j - Len(s) \in 1..Len(t)
        BY <1>1, <2>3
      <3>2. (s \o t)[i] = s[i] /\ (s \o t)[j] = t[j - Len(s)]
        BY <1>1, <2>3
      <3> QED
        BY <3>1, <3>2 DEF Precedes
    <2> QED
      BY <1>1, <2>1, <2>2, <2>3
  <1>4. Within(s, n) /\ Within(t, n) => Within(s \o t, n)
    BY <1>1, <1>2 DEF Within
  <1>5. Run(s, n) /\ Run(t, n + Len(s)) => Run(s \o t, n)
    BY <1>1, <1>2 DEF Run
  <1>6. Precedes(s, u) /\ Precedes(t, u) => Precedes(s \o t, u)
    <2> SUFFICES ASSUME Precedes(s, u), Precedes(t, u),
                        NEW i \in 1..Len(s \o t), NEW j \in 1..Len(u)
                 PROVE  (s \o t)[i] < u[j]
      BY DEF Precedes
    <2>1. CASE i <= Len(s)
      BY <1>1, <2>1 DEF Precedes
    <2>2. CASE ~(i <= Len(s))
      <3>1. i - Len(s) \in 1..Len(t) /\ (s \o t)[i] = t[i - Len(s)]
        BY <1>1, <2>2
      <3> QED
        BY <3>1 DEF Precedes
    <2> QED
      BY <2>1, <2>2
  <1> QED
    BY <1>3, <1>4, <1>5, <1>6

-----------------------------------------------------------------------------
(* The parts of a concatenation.                                           *)
LEMMA LoseMiddle ==
  ASSUME NEW x \in Seq(Nat), NEW y \in Seq(Nat), NEW z \in Seq(Nat),
         NEW q, q = x \o y \o z
  PROVE  /\ q \in Seq(Nat) /\ Len(q) = Len(x) + Len(y) + Len(z)
         /\ SubSeq(q, 1, Len(x)) = x
         /\ SubSeq(q, Len(x) + Len(y) + 1, Len(q)) = z
  <1>1. /\ Len(x) \in Nat /\ Len(y) \in Nat /\ Len(z) \in Nat
        /\ x \o y \in Seq(Nat) /\ Len(x \o y) = Len(x) + Len(y)
    BY LenProperties, ConcatProperties
  <1>2. q \in Seq(Nat) /\ Len(q) = Len(x) + Len(y) + Len(z)
    BY <1>1, ConcatProperties
  <1>3. \A i \in 1..Len(x) : q[i] = x[i]
    <2>1. \A i \in 1..Len(x) : (x \o y)[i] = x[i]
      BY <1>1, ConcatProperties
    <2>2. \A i \in 1..Len(x \o y) : q[i] = (x \o y)[i]
      BY <1>1, ConcatProperties
    <2> QED
      BY <1>1, <2>1, <2>2
  <1>4. \A i \in 1..Len(z) : q[Len(x) + Len(y) + i] = z[i]
    <2>1. \A i \in 1..(Len(x \o y) + Len(z)) :
            q[i] = IF i <= Len(x \o y) THEN (x \o y)[i] ELSE z[i - Len(x \o y)]
      BY <1>1, ConcatProperties
    <2> DEFINE k == Len(x \o y)
    <2>2. \A i \in 1..Len(z) : k + i \in 1..(k + Len(z)) /\ ~(k + i <= k) /\ (k + i) - k = i
      BY <1>1
    <2>3. \A i \in 1..Len(z) : q[k + i] = z[i]
      BY <2>1, <2>2
    <2> QED
      BY <1>1, <2>3
  <1>5. \A i \in 1..Len(q) : q[i] \in Nat
    BY <1>2, ElementOfSeq
  <1>6. SubSeq(q, 1, Len(x)) = x
    <2> DEFINE t == SubSeq(q, 1, Len(x))
    <2>1. \A i \in 1..Len(x) : q[i] \in Nat
      BY <1>1, <1>2, <1>5
    <2>2. /\ t \in Seq(Nat)
          /\ Len(t) = IF 1 <= Len(x) THEN Len(x) - 1 + 1 ELSE 0
          /\ \A i \in 1..(Len(x) - 1 + 1) : t[i] = q[1 + i - 1]
      BY <1>1, <2>1, SubSeqProperties
    <2>3. Len(t) = Len(x) /\ \A i \in 1..Len(x) : t[i] = q[i]
      BY <1>1, <2>2
    <2> HIDE DEF t
    <2> QED
      BY <1>3, <2>2, <2>3, SeqEqual
  <1>7. SubSeq(q, Len(x) + Len(y) + 1, Len(q)) = z
    <2> DEFINE k == Len(x) + Len(y)
               t == SubSeq(q, k + 1, Len(q))
    <2>1. /\ k \in Nat /\ Len(q) = k + Len(z) /\ k + 1 \in Int /\ Len(q) \in Int
          /\ \A i \in (k + 1)..Len(q) : q[i] \in Nat
      BY <1>1, <1>2, <1>5
    <2>2. /\ t \in Seq(Nat)
          /\ Len(t) = IF k + 1 <= Len(q) THEN Len(q) - (k + 1) + 1 ELSE 0
          /\ \A i \in 1..(Len(q) - (k + 1) + 1) : t[i] = q[(k + 1) + i - 1]
      BY <2>1, SubSeqProperties, SMTT(30)
    <2>3. \A i \in 1..Len(z) : q[k + i] = z[i]
      BY <1>4
    <2> HIDE DEF k
    <2> HIDE DEF t
    <2>4. Len(t) = Len(z) /\ \A i \in 1..Len(z) : t[i] = q[k + i]
      <3>1. Len(z) \in Nat /\ Len(q) - (k + 1) + 1 = Len(z) /\ (k + 1 <= Len(q) <=> Len(z) # 0)
        BY <1>1, <2>1
      <3>2. Len(t) = Len(z)
        BY <2>2, <3>1
      <3>3. \A i \in 1..Len(z) : (k + 1) + i - 1 = k + i
        BY <2>1, <3>1
      <3> QED
        BY <2>2, <3>1, <3>2, <3>3
    <2>5. t = z
      BY <2>2, <2>3, <2>4, SeqEqual
    <2> QED
      BY <2>5 DEF t, k
  <1> QED
    BY <1>2, <1>6, <1>7

LEMMA ConcatMore ==
  ASSUME NEW x \in Seq(Nat), NEW y \in Seq(Nat), NEW n \in Nat
  PROVE  Append(x \o y, n) = x \o Append(y, n)
  <1>1. x \o y \in Seq(Nat) /\ <<n>> \in Seq(Nat)
    BY ConcatProperties
  <1>2. Append(x \o y, n) = (x \o y) \o <<n>> /\ Append(y, n) = y \o <<n>>
    BY <1>1, AppendIsConcat
  <1> QED
    BY <1>1, <1>2, ConcatAssociative

LEMMA HeadConcatTail ==
  ASSUME NEW s \in Seq(Nat), s # <<>>
  PROVE  <<Head(s)>> \o Tail(s) = s
  <1>1. /\ Len(s) \in Nat \ {0} /\ SubSeq(s, 1, Len(s)) = s /\ Tail(s) = SubSeq(s, 2, Len(s))
        /\ Head(s) = s[1]
    BY EmptySeq, SubSeqFull, TailIsSubSeq, HeadTailProperties
  <1>2. SubSeq(s, 1, Len(s)) = <<s[1]>> \o SubSeq(s, 1 + 1, Len(s))
    BY <1>1, SubSeqRecursiveFirst
  <1> QED
    BY <1>1, <1>2
=============================================================================
