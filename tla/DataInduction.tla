---------------------------- MODULE DataInduction ----------------------------
(***************************************************************************)
(* Induction over the naturals in a form that needs no operator            *)
(* parameter: a set takes the place of the predicate.  With it, what       *)
(* FlattenSeq does to a queue of chunks is proved for every queue, and     *)
(* what folds and sums over a finite set are, for every finite set.        *)
(***************************************************************************)
EXTENDS Integers, SequencesExt, SequenceTheorems, FiniteSetTheorems, WellFoundedInduction,
        TLAPS

\* A set with 0 and the successor of each of its naturals has all naturals.
LEMMA SetInduction ==
  ASSUME NEW S, 0 \in S, \A n \in Nat : n \in S => n + 1 \in S
  PROVE  Nat \subseteq S
  <1>1. SUFFICES ASSUME Nat \ S # {} PROVE FALSE
    OBVIOUS
  <1>2. PICK m \in Nat \ S : \A y \in Nat \ S : ~ (<<y, m>> \in OpToRel(<, Nat))
    BY <1>1, NatLessThanWellFounded, WFMin
  <1>3. \A y \in Nat \ S : ~ (y < m)
    BY <1>2 DEF OpToRel
  <1>4. m # 0 /\ m - 1 \in Nat /\ m - 1 < m /\ (m - 1) + 1 = m
    OBVIOUS
  <1> QED BY <1>3, <1>4

-----------------------------------------------------------------------------
(* FlattenSeq.                                                             *)

\* f[i] is the concatenation of the first i members of s, for i up to n.
ConcatsOf(s, f, n) ==
  f = [i \in 1..n |-> IF i = 1 THEN s[i] ELSE f[i-1] \o s[i]]

\* Its values, one by one.
LEMMA ConcatsValue ==
  ASSUME NEW s, NEW n \in Nat, NEW f, ConcatsOf(s, f, n)
  PROVE  \A i \in 1..n : f[i] = IF i = 1 THEN s[i] ELSE f[i-1] \o s[i]
  BY DEF ConcatsOf

\* The function FlattenSeq chooses exists.
LEMMA ConcatsExist ==
  ASSUME NEW T, NEW s \in Seq(Seq(T))
  PROVE  \A n \in Nat : \E f : ConcatsOf(s, f, n)
  <1> DEFINE S == {n \in Nat : \E f : ConcatsOf(s, f, n)}
  <1>1. 0 \in S
    <2>1. ConcatsOf(s, <<>>, 0)
      BY DEF ConcatsOf
    <2> QED BY <2>1
  <1>2. ASSUME NEW n \in Nat, n \in S PROVE n + 1 \in S
    <2>1. PICK f : ConcatsOf(s, f, n)
      BY <1>2
    <2> DEFINE g == [i \in 1..(n + 1) |-> IF i = 1 THEN s[i]
                                          ELSE IF i <= n THEN f[i] ELSE f[n] \o s[i]]
    <2>2. \A i \in 1..n : f[i] = IF i = 1 THEN s[i] ELSE f[i-1] \o s[i]
      BY <2>1, ConcatsValue
    <2>3. \A i \in 1..(n + 1) : g[i] = IF i = 1 THEN s[i] ELSE g[i-1] \o s[i]
      BY <2>2
    <2>4. ConcatsOf(s, g, n + 1)
      BY <2>3 DEF ConcatsOf
    <2> QED BY <2>4
  <1> HIDE DEF S
  <1>3. Nat \subseteq S
    BY <1>1, <1>2, SetInduction
  <1> QED BY <1>3 DEF S

\* It has the type it should have.
LEMMA ConcatsType ==
  ASSUME NEW T, NEW s \in Seq(Seq(T)), NEW f, ConcatsOf(s, f, Len(s))
  PROVE  \A i \in 1..Len(s) : f[i] \in Seq(T)
  <1> DEFINE S == {n \in Nat : n \in 1..Len(s) => f[n] \in Seq(T)}
  <1>1. 0 \in S
    OBVIOUS
  <1>2. ASSUME NEW n \in Nat, n \in S PROVE n + 1 \in S
    <2>1. SUFFICES ASSUME n + 1 \in 1..Len(s) PROVE f[n + 1] \in Seq(T)
      OBVIOUS
    <2>2. s[n + 1] \in Seq(T)
      BY <2>1
    <2>3. f[n + 1] = IF n + 1 = 1 THEN s[n + 1] ELSE f[n] \o s[n + 1]
      BY <2>1, ConcatsValue
    <2>4. CASE n = 0
      BY <2>2, <2>3, <2>4
    <2>5. CASE n # 0
      <3>1. f[n] \in Seq(T)
        BY <1>2, <2>1, <2>5
      <3> QED BY <2>2, <2>3, <2>5, <3>1
    <2> QED BY <2>4, <2>5
  <1> HIDE DEF S
  <1>3. Nat \subseteq S
    BY <1>1, <1>2, SetInduction
  <1> QED BY <1>3 DEF S

\* What FlattenSeq of a queue that is not empty is.
LEMMA FlattenIsPrefix ==
  ASSUME NEW T, NEW s \in Seq(Seq(T)), s # <<>>
  PROVE  \E f : ConcatsOf(s, f, Len(s)) /\ FlattenSeq(s) = f[Len(s)]
  <1> DEFINE f == CHOOSE f : f = [i \in 1..Len(s) |->
                                    IF i = 1 THEN s[i] ELSE f[i-1] \o s[i]]
  <1>0. PICK g : ConcatsOf(s, g, Len(s))
    BY ConcatsExist
  <1>1. \E h : h = [i \in 1..Len(s) |-> IF i = 1 THEN s[i] ELSE h[i-1] \o s[i]]
    BY <1>0 DEF ConcatsOf
  <1>2. f = [i \in 1..Len(s) |-> IF i = 1 THEN s[i] ELSE f[i-1] \o s[i]]
    BY <1>1
  <1>3. Len(s) # 0
    OBVIOUS
  <1>4. FlattenSeq(s) = f[Len(s)]
    BY <1>3 DEF FlattenSeq
  <1> QED BY <1>2, <1>4 DEF ConcatsOf

\* The chunks flattened are a sequence of the commands.
LEMMA FlattenType ==
  ASSUME NEW T, NEW s \in Seq(Seq(T))
  PROVE  FlattenSeq(s) \in Seq(T)
  <1>1. CASE s = <<>>
    BY <1>1 DEF FlattenSeq
  <1>2. CASE s # <<>>
    BY <1>2, FlattenIsPrefix, ConcatsType
  <1> QED BY <1>1, <1>2

\* No chunks, no commands.
LEMMA FlattenEmpty == FlattenSeq(<<>>) = <<>>
  BY DEF FlattenSeq

\* A queue has the prefixes of the longer queues that begin with it.
LEMMA ConcatsAgree ==
  ASSUME NEW s, NEW t, NEW n \in Nat, NEW f, NEW g,
         ConcatsOf(s, f, n), ConcatsOf(t, g, n + 1),
         \A i \in 1..n : s[i] = t[i]
  PROVE  \A i \in 1..n : f[i] = g[i]
  <1> DEFINE S == {i \in Nat : i \in 1..n => f[i] = g[i]}
  <1>1. \A i \in 1..n : f[i] = IF i = 1 THEN s[i] ELSE f[i-1] \o s[i]
    BY ConcatsValue
  <1>2. \A i \in 1..(n + 1) : g[i] = IF i = 1 THEN t[i] ELSE g[i-1] \o t[i]
    BY ConcatsValue
  <1>3. 0 \in S
    OBVIOUS
  <1>4. ASSUME NEW i \in Nat, i \in S PROVE i + 1 \in S
    <2>1. SUFFICES ASSUME i + 1 \in 1..n PROVE f[i + 1] = g[i + 1]
      OBVIOUS
    <2>2. f[i + 1] = IF i = 0 THEN s[i + 1] ELSE f[i] \o s[i + 1]
      BY <1>1, <2>1
    <2>3. g[i + 1] = IF i = 0 THEN t[i + 1] ELSE g[i] \o t[i + 1]
      BY <1>2, <2>1
    <2>4. s[i + 1] = t[i + 1]
      BY <2>1
    <2>5. i # 0 => f[i] = g[i]
      BY <1>4, <2>1
    <2> QED BY <2>2, <2>3, <2>4, <2>5
  <1> HIDE DEF S
  <1>5. Nat \subseteq S
    BY <1>3, <1>4, SetInduction
  <1>6. \A i \in 1..n : i \in Nat
    OBVIOUS
  <1> QED BY <1>5, <1>6 DEF S

\* t continues s, of length n; or t, of length n with the prefixes g, is s
\* without its front.
ContinuesTo(t, s, n) == \A i \in 1..n : s[i] = t[i]

IsTail(t, s, n, f, g, T) ==
  /\ n \in Nat \ {0}
  /\ ConcatsOf(s, f, n + 1)
  /\ ConcatsOf(t, g, n)
  /\ s[1] \in Seq(T)
  /\ \A i \in 1..n : t[i] = s[i + 1] /\ t[i] \in Seq(T) /\ g[i] \in Seq(T)

Shifted(s, n, f, g) == f[n + 1] = s[1] \o g[n]

\* If t is s without its front, so are their prefixes.
LEMMA ConcatsShift ==
  ASSUME NEW T, NEW s, NEW t, NEW n, NEW f, NEW g, IsTail(t, s, n, f, g, T)
  PROVE  Shifted(s, n, f, g)
  <1>0. n \in Nat /\ n + 1 \in Nat /\ n # 0 /\ ConcatsOf(s, f, n + 1) /\ ConcatsOf(t, g, n)
        /\ s[1] \in Seq(T)
        /\ \A i \in 1..n : t[i] = s[i + 1] /\ t[i] \in Seq(T) /\ g[i] \in Seq(T)
    BY DEF IsTail
  <1> DEFINE S == {i \in Nat : i \in 1..n => f[i + 1] = s[1] \o g[i]}
  <1>1. \A i \in 1..(n + 1) : f[i] = IF i = 1 THEN s[i] ELSE f[i-1] \o s[i]
    BY <1>0, ConcatsValue
  <1>2. \A i \in 1..n : g[i] = IF i = 1 THEN t[i] ELSE g[i-1] \o t[i]
    BY <1>0, ConcatsValue, SMTT(20)
  <1>3. 0 \in S
    OBVIOUS
  <1>4. ASSUME NEW i \in Nat, i \in S PROVE i + 1 \in S
    <2> SUFFICES ASSUME i + 1 \in 1..n PROVE f[(i + 1) + 1] = s[1] \o g[i + 1]
      <3>1. i + 1 \in Nat
        OBVIOUS
      <3> QED BY <3>1
    <2>1. i + 1 \in 1..n
      OBVIOUS
    <2>2. f[(i + 1) + 1] = f[i + 1] \o s[(i + 1) + 1]
      <3>1. (i + 1) + 1 \in 1..(n + 1) /\ (i + 1) + 1 # 1 /\ ((i + 1) + 1) - 1 = i + 1
        BY <1>0, <2>1
      <3> QED BY <1>0, <1>1, <3>1
    <2>3. t[i + 1] = s[(i + 1) + 1] /\ t[i + 1] \in Seq(T)
      BY <1>0, <2>1
    <2>4. CASE i = 0
      <3>1. f[1] = s[1] /\ i + 1 = 1
        BY <1>0, <1>1, <2>4
      <3>2. g[1] = t[1]
        BY <1>2, <2>1, <2>4
      <3> QED BY <2>2, <2>3, <3>1, <3>2
    <2>5. CASE i # 0
      <3>1. i \in 1..n /\ (i + 1) - 1 = i /\ i + 1 # 1
        BY <1>0, <2>1, <2>5
      <3>2. f[i + 1] = s[1] \o g[i] /\ g[i] \in Seq(T)
        BY <1>0, <1>4, <3>1
      <3>3. g[i + 1] = g[i] \o t[i + 1]
        BY <1>2, <2>1, <3>1
      <3>4. (s[1] \o g[i]) \o t[i + 1] = s[1] \o (g[i] \o t[i + 1])
        <4>1. \A a, b, c \in Seq(T) : (a \o b) \o c = a \o (b \o c)
          BY ConcatAssociative, SMTT(20)
        <4> QED BY <1>0, <2>3, <3>2, <4>1
      <3> QED BY <2>2, <2>3, <3>2, <3>3, <3>4
    <2> QED BY <2>4, <2>5
  <1> HIDE DEF S
  <1>5. Nat \subseteq S
    BY <1>3, <1>4, SetInduction
  <1>6. n \in S /\ n \in 1..n
    BY <1>0, <1>5
  <1> QED BY <1>6 DEF S, Shifted

\* What has been flattened before a chunk is pushed stays as it is.
LEMMA PrefixOfAppend ==
  ASSUME NEW s, NEW t, NEW n \in Nat, NEW f, NEW g, n # 0,
         ConcatsOf(s, f, n), ConcatsOf(t, g, n + 1), ContinuesTo(t, s, n)
  PROVE  f[n] = g[n]
  <1>1. \A i \in 1..n : f[i] = g[i]
    BY ConcatsAgree DEF ContinuesTo
  <1> QED BY <1>1

\* A chunk pushed to the queue comes last.
LEMMA FlattenAppend ==
  ASSUME NEW T, NEW s \in Seq(Seq(T)), NEW e \in Seq(T)
  PROVE  FlattenSeq(Append(s, e)) = FlattenSeq(s) \o e
  <1>1. PICK r, t, n :
          /\ r = s /\ t = Append(s, e) /\ n = Len(s) /\ n \in Nat
          /\ t \in Seq(Seq(T)) /\ t # <<>> /\ Len(t) = n + 1 /\ t[n + 1] = e
          /\ \A i \in 1..n : r[i] = t[i]
    <2>1. /\ Append(s, e) \in Seq(Seq(T)) /\ Len(s) \in Nat
          /\ Append(s, e) # <<>> /\ Len(Append(s, e)) = Len(s) + 1
          /\ Append(s, e)[Len(s) + 1] = e
          /\ \A i \in 1..Len(s) : Append(s, e)[i] = s[i]
      BY AppendProperties
    <2> QED BY <2>1
  <1>2. PICK g : ConcatsOf(t, g, n + 1) /\ FlattenSeq(t) = g[n + 1]
    BY <1>1, FlattenIsPrefix
  <1>3. n \in Nat
    BY <1>1
  <1>4. g[n + 1] = IF n + 1 = 1 THEN e ELSE g[n] \o e
    <2>1. \A i \in 1..(n + 1) : g[i] = IF i = 1 THEN t[i] ELSE g[i-1] \o t[i]
      BY <1>2, <1>3, ConcatsValue
    <2> QED BY <1>1, <2>1
  <1>5. CASE n = 0
    <2>1. s = <<>>
      BY <1>1, <1>5
    <2> QED BY <1>1, <1>2, <1>4, <1>5, <2>1, FlattenEmpty
  <1>6. CASE n # 0
    <2>0. r \in Seq(Seq(T)) /\ r # <<>> /\ Len(r) = n
      BY <1>1, <1>6
    <2>1. PICK f : ConcatsOf(r, f, n) /\ FlattenSeq(r) = f[n]
      BY <2>0, FlattenIsPrefix
    <2>2. ConcatsOf(r, f, n) /\ ConcatsOf(t, g, n + 1) /\ ContinuesTo(t, r, n)
      BY <1>1, <1>2, <2>1 DEF ContinuesTo
    <2>5. f[n] = g[n]
      BY <1>3, <1>6, <2>2, PrefixOfAppend
    <2> QED BY <1>1, <1>2, <1>4, <1>6, <2>1, <2>5
  <1> QED BY <1>3, <1>5, <1>6

\* The chunk in front comes first.
LEMMA FlattenFront ==
  ASSUME NEW T, NEW s \in Seq(Seq(T)), s # <<>>
  PROVE  FlattenSeq(s) = Head(s) \o FlattenSeq(Tail(s))
  <1>1. PICK r, t, n :
          /\ r = s /\ t = Tail(s) /\ n = Len(t) /\ n \in Nat
          /\ t \in Seq(Seq(T)) /\ Len(r) = n + 1
          /\ Head(s) = r[1] /\ r[1] \in Seq(T)
          /\ \A i \in 1..n : t[i] = r[i + 1] /\ t[i] \in Seq(T)
    <2>1. /\ Tail(s) \in Seq(Seq(T)) /\ Len(Tail(s)) \in Nat /\ Len(s) = Len(Tail(s)) + 1
          /\ Head(s) = s[1] /\ s[1] \in Seq(T)
          /\ \A i \in 1..Len(Tail(s)) : Tail(s)[i] = s[i + 1] /\ Tail(s)[i] \in Seq(T)
      BY HeadTailProperties
    <2> QED BY <2>1
  <1>2. PICK f : ConcatsOf(r, f, n + 1) /\ FlattenSeq(r) = f[n + 1]
    BY <1>1, FlattenIsPrefix
  <1>3. n \in Nat /\ r[1] \in Seq(T)
    BY <1>1
  <1>4. CASE n = 0
    <2>1. t = <<>>
      BY <1>1, <1>4
    <2>2. f[n + 1] = r[1]
      <3>1. \A i \in 1..(n + 1) : f[i] = IF i = 1 THEN r[i] ELSE f[i-1] \o r[i]
        BY <1>2, <1>3, ConcatsValue
      <3> QED BY <1>4, <3>1
    <2>3. r[1] \o <<>> = r[1]
      BY <1>3, ConcatEmptySeq
    <2> QED BY <1>1, <1>2, <2>1, <2>2, <2>3, FlattenEmpty
  <1>5. CASE n # 0
    <2>0. t \in Seq(Seq(T)) /\ t # <<>> /\ Len(t) = n
      BY <1>1, <1>5
    <2>1. PICK g : ConcatsOf(t, g, n) /\ FlattenSeq(t) = g[n]
      BY <2>0, FlattenIsPrefix
    <2>2. \A i \in 1..n : g[i] \in Seq(T)
      BY <1>1, <2>1, ConcatsType
    <2>3. IsTail(t, r, n, f, g, T)
      BY <1>1, <1>2, <1>5, <2>1, <2>2 DEF IsTail
    <2>4. Shifted(r, n, f, g)
      BY ONLY <2>3, ConcatsShift
    <2>6. f[n + 1] = r[1] \o g[n]
      BY <2>4 DEF Shifted
    <2> QED BY <1>1, <1>2, <2>1, <2>6
  <1> QED BY <1>3, <1>4, <1>5

\* Queues are flattened one after the other.
LEMMA FlattenConcat ==
  ASSUME NEW T, NEW s \in Seq(Seq(T)), NEW t \in Seq(Seq(T))
  PROVE  FlattenSeq(s \o t) = FlattenSeq(s) \o FlattenSeq(t)
  <1> DEFINE S == {n \in Nat : \A u \in Seq(Seq(T)) : Len(u) = n =>
                     FlattenSeq(u \o t) = FlattenSeq(u) \o FlattenSeq(t)}
  <1>1. 0 \in S
    <2>1. SUFFICES ASSUME NEW u \in Seq(Seq(T)), Len(u) = 0
                   PROVE  FlattenSeq(u \o t) = FlattenSeq(u) \o FlattenSeq(t)
      OBVIOUS
    <2>2. u = <<>> /\ u \o t = t
      BY <2>1
    <2>3. FlattenSeq(t) \in Seq(T)
      BY FlattenType
    <2> QED BY <2>2, <2>3, FlattenEmpty
  <1>2. ASSUME NEW n \in Nat, n \in S PROVE n + 1 \in S
    <2>1. SUFFICES ASSUME NEW u \in Seq(Seq(T)), Len(u) = n + 1
                   PROVE  FlattenSeq(u \o t) = FlattenSeq(u) \o FlattenSeq(t)
      OBVIOUS
    <2>2. u # <<>> /\ Head(u) \in Seq(T) /\ Tail(u) \in Seq(Seq(T)) /\ Len(Tail(u)) = n
      BY <2>1
    <2>3. u \o t # <<>> /\ Head(u \o t) = Head(u) /\ Tail(u \o t) = Tail(u) \o t
          /\ u \o t \in Seq(Seq(T))
      BY <2>2
    <2>4. FlattenSeq(u \o t) = Head(u) \o FlattenSeq(Tail(u) \o t)
      BY <2>3, FlattenFront
    <2>5. FlattenSeq(Tail(u) \o t) = FlattenSeq(Tail(u)) \o FlattenSeq(t)
      BY <1>2, <2>2
    <2>6. FlattenSeq(u) = Head(u) \o FlattenSeq(Tail(u))
      BY <2>2, FlattenFront
    <2>7. FlattenSeq(Tail(u)) \in Seq(T) /\ FlattenSeq(t) \in Seq(T)
      BY <2>2, FlattenType
    <2>8. \A a, b, c \in Seq(T) : (a \o b) \o c = a \o (b \o c)
      BY ConcatAssociative, SMTT(20)
    <2>9. (Head(u) \o FlattenSeq(Tail(u))) \o FlattenSeq(t)
            = Head(u) \o (FlattenSeq(Tail(u)) \o FlattenSeq(t))
      BY <2>2, <2>7, <2>8
    <2> QED BY <2>4, <2>5, <2>6, <2>9
  <1> HIDE DEF S
  <1>3. Nat \subseteq S
    BY <1>1, <1>2, SetInduction
  <1>4. Len(s) \in S
    BY <1>3
  <1> QED BY <1>4 DEF S

\* What is in a sequence.
Entries(u) == {u[i] : i \in DOMAIN u}

\* What is in two sequences is in their concatenation.
LEMMA EntriesConcat ==
  ASSUME NEW T, NEW a \in Seq(T), NEW b \in Seq(T)
  PROVE  Entries(a \o b) = Entries(a) \cup Entries(b)
  <1>1. /\ Len(a) \in Nat /\ Len(b) \in Nat /\ DOMAIN a = 1..Len(a) /\ DOMAIN b = 1..Len(b)
        /\ DOMAIN (a \o b) = 1..(Len(a) + Len(b))
        /\ \A i \in 1..Len(a) : (a \o b)[i] = a[i]
        /\ \A i \in (Len(a) + 1)..(Len(a) + Len(b)) : (a \o b)[i] = b[i - Len(a)]
    OBVIOUS
  <1>2. ASSUME NEW i \in 1..(Len(a) + Len(b))
        PROVE  (a \o b)[i] \in Entries(a) \cup Entries(b)
    <2>1. CASE i \in 1..Len(a)
      BY <1>1, <2>1 DEF Entries
    <2>2. CASE i \notin 1..Len(a)
      <3>1. i \in (Len(a) + 1)..(Len(a) + Len(b)) /\ i - Len(a) \in 1..Len(b)
        BY <1>1, <2>2
      <3> QED BY <1>1, <3>1 DEF Entries
    <2> QED BY <2>1, <2>2
  <1>3. ASSUME NEW i \in 1..Len(a) PROVE a[i] \in Entries(a \o b)
    <2>1. i \in 1..(Len(a) + Len(b))
      BY <1>1
    <2> QED BY <1>1, <2>1 DEF Entries
  <1>4. ASSUME NEW i \in 1..Len(b) PROVE b[i] \in Entries(a \o b)
    <2>1. Len(a) + i \in (Len(a) + 1)..(Len(a) + Len(b)) /\ (Len(a) + i) - Len(a) = i
          /\ Len(a) + i \in 1..(Len(a) + Len(b))
      BY <1>1
    <2>2. (a \o b)[Len(a) + i] = b[i]
      BY <1>1, <2>1
    <2> QED BY <1>1, <2>1, <2>2 DEF Entries
  <1>5. Entries(a \o b) \subseteq Entries(a) \cup Entries(b)
    <2> SUFFICES ASSUME NEW x \in Entries(a \o b) PROVE x \in Entries(a) \cup Entries(b)
      OBVIOUS
    <2>1. PICK i \in 1..(Len(a) + Len(b)) : x = (a \o b)[i]
      BY <1>1 DEF Entries
    <2> QED BY <1>2, <2>1
  <1>6. Entries(a) \subseteq Entries(a \o b) /\ Entries(b) \subseteq Entries(a \o b)
    <2>1. \A x \in Entries(a) : \E i \in 1..Len(a) : x = a[i]
      BY <1>1 DEF Entries
    <2>2. \A x \in Entries(b) : \E i \in 1..Len(b) : x = b[i]
      BY <1>1 DEF Entries
    <2> QED BY <1>3, <1>4, <2>1, <2>2
  <1> QED BY <1>5, <1>6

\* What is in the flattened sequence is in one of the chunks.
LEMMA FlattenEntries ==
  ASSUME NEW T, NEW s \in Seq(Seq(T))
  PROVE  \A x \in Entries(FlattenSeq(s)) : \E i \in DOMAIN s : x \in Entries(s[i])
  <1> DEFINE Within(u) == \A x \in Entries(FlattenSeq(u)) :
                            \E i \in DOMAIN u : x \in Entries(u[i])
             S == {n \in Nat : \A u \in Seq(Seq(T)) : Len(u) = n => Within(u)}
  <1>1. 0 \in S
    <2>1. SUFFICES ASSUME NEW u \in Seq(Seq(T)), Len(u) = 0 PROVE Within(u)
      OBVIOUS
    <2>2. u = <<>>
      BY <2>1
    <2>3. Entries(FlattenSeq(u)) = {}
      BY <2>2, FlattenEmpty DEF Entries
    <2> QED BY <2>3
  <1>2. ASSUME NEW n \in Nat, n \in S PROVE n + 1 \in S
    <2>1. SUFFICES ASSUME NEW u \in Seq(Seq(T)), Len(u) = n + 1 PROVE Within(u)
      OBVIOUS
    <2>2. /\ u # <<>> /\ Head(u) \in Seq(T) /\ Tail(u) \in Seq(Seq(T)) /\ Len(Tail(u)) = n
          /\ Head(u) = u[1] /\ DOMAIN u = 1..(n + 1) /\ DOMAIN Tail(u) = 1..n
          /\ \A i \in 1..n : Tail(u)[i] = u[i + 1]
      BY <2>1
    <2>3. FlattenSeq(u) = Head(u) \o FlattenSeq(Tail(u))
      BY <2>2, FlattenFront
    <2>4. FlattenSeq(Tail(u)) \in Seq(T)
      BY <2>2, FlattenType
    <2>5. \A a, b \in Seq(T) : Entries(a \o b) = Entries(a) \cup Entries(b)
      BY EntriesConcat
    <2>6. Entries(FlattenSeq(u)) = Entries(Head(u)) \cup Entries(FlattenSeq(Tail(u)))
      BY <2>2, <2>3, <2>4, <2>5
    <2>7. Within(Tail(u))
      BY <1>2, <2>2
    <2>8. ASSUME NEW x \in Entries(FlattenSeq(u))
          PROVE  \E i \in DOMAIN u : x \in Entries(u[i])
      <3>1. CASE x \in Entries(Head(u))
        <4>1. 1 \in DOMAIN u
          BY <2>2
        <4> QED BY <2>2, <3>1, <4>1
      <3>2. CASE x \in Entries(FlattenSeq(Tail(u)))
        <4>1. PICK i \in 1..n : x \in Entries(Tail(u)[i])
          BY <2>2, <2>7, <3>2
        <4>2. i + 1 \in DOMAIN u /\ Tail(u)[i] = u[i + 1]
          BY <2>2
        <4> QED BY <4>1, <4>2
      <3> QED BY <2>6, <3>1, <3>2
    <2> QED BY <2>8
  <1> HIDE DEF S
  <1>3. Nat \subseteq S
    BY <1>1, <1>2, SetInduction
  <1>4. Len(s) \in S
    BY <1>3
  <1> QED BY <1>4 DEF S
-----------------------------------------------------------------------------
(* Folds over a finite set.                                                *)

\* f is the fold of the subsets of S that takes the element ch[s] from s and
\* combines it by st with what is folded from the others.
FoldsOf(S, base, ch, st, f) ==
  \A s \in SUBSET S : f[s] = IF s = {} THEN base ELSE st[ch[s]][f[s \ {ch[s]}]]

\* A part of a finite set has a number of elements, fewer without one.
LEMMA PartCardinality ==
  ASSUME NEW S, IsFiniteSet(S), NEW s \in SUBSET S
  PROVE  /\ IsFiniteSet(s) /\ Cardinality(s) \in Nat
         /\ Cardinality(s) = 0 <=> s = {}
         /\ \A x \in s : s \ {x} \in SUBSET S /\ Cardinality(s \ {x}) = Cardinality(s) - 1
  BY FS_Subset, FS_CardinalityType, FS_EmptySet, FS_RemoveElement

\* The fold exists.
LEMMA FoldsExist ==
  ASSUME NEW S, IsFiniteSet(S), NEW V, NEW base \in V, NEW ch, NEW st,
         \A s \in SUBSET S : s # {} => ch[s] \in s,
         \A x \in S, y \in V : st[x][y] \in V
  PROVE  \E f \in [SUBSET S -> V] : FoldsOf(S, base, ch, st, f)
  <1> DEFINE Value(f, s) == IF s = {} THEN base ELSE st[ch[s]][f[s \ {ch[s]}]]
             Upto(f, n) == \A s \in SUBSET S : Cardinality(s) <= n => f[s] = Value(f, s)
             N == {n \in Nat : \E f \in [SUBSET S -> V] : Upto(f, n)}
  <1>1. 0 \in N
    <2> DEFINE f == [s \in SUBSET S |-> base]
    <2>1. f \in [SUBSET S -> V]
      OBVIOUS
    <2>2. \A s \in SUBSET S : Cardinality(s) <= 0 => s = {}
      BY PartCardinality
    <2>3. Upto(f, 0)
      BY <2>2
    <2> QED BY <2>1, <2>3
  <1>2. ASSUME NEW n \in Nat, n \in N PROVE n + 1 \in N
    <2>1. PICK f \in [SUBSET S -> V] : Upto(f, n)
      BY <1>2
    <2> DEFINE g == [s \in SUBSET S |-> Value(f, s)]
    <2>2. \A s \in SUBSET S : s # {} => ch[s] \in S /\ s \ {ch[s]} \in SUBSET S
      OBVIOUS
    <2>3. \A s \in SUBSET S : Value(f, s) \in V
      BY <2>2
    <2>4. g \in [SUBSET S -> V] /\ \A s \in SUBSET S : g[s] = Value(f, s)
      BY <2>3
    <2>5. ASSUME NEW s \in SUBSET S, Cardinality(s) <= n + 1, s # {}
          PROVE  f[s \ {ch[s]}] = g[s \ {ch[s]}]
      <3>1. ch[s] \in s /\ s \ {ch[s]} \in SUBSET S /\ Cardinality(s) \in Nat
            /\ Cardinality(s \ {ch[s]}) = Cardinality(s) - 1
        BY <2>5, PartCardinality
      <3>2. Cardinality(s \ {ch[s]}) <= n
        BY <2>5, <3>1
      <3> HIDE DEF Value, g
      <3> QED BY <2>1, <2>4, <3>1, <3>2
    <2>6. Upto(g, n + 1)
      <3> SUFFICES ASSUME NEW s \in SUBSET S, Cardinality(s) <= n + 1
                   PROVE  g[s] = Value(g, s)
        OBVIOUS
      <3>1. g[s] = Value(f, s)
        BY <2>4
      <3> HIDE DEF g
      <3>2. CASE s = {}
        BY <3>1, <3>2
      <3>3. CASE s # {}
        BY <2>5, <3>1, <3>3
      <3> QED BY <3>2, <3>3
    <2> HIDE DEF g, Upto
    <2> QED BY <2>4, <2>6
  <1> HIDE DEF N
  <1>3. Nat \subseteq N
    BY <1>1, <1>2, SetInduction
  <1>4. Cardinality(S) \in N
    BY <1>3, FS_CardinalityType
  <1>5. PICK f \in [SUBSET S -> V] : Upto(f, Cardinality(S))
    BY <1>4 DEF N
  <1>6. \A s \in SUBSET S : Cardinality(s) <= Cardinality(S)
    BY FS_Subset
  <1> QED BY <1>5, <1>6 DEF FoldsOf

-----------------------------------------------------------------------------
(* Sums of natural numbers v[x] over a finite set, as MapThenSumSet has    *)
(* them: f has the sums over all the subsets.                              *)

PickOf(s) == CHOOSE x \in s : TRUE

SumsOf(v, S, f) ==
  f = [s \in SUBSET S |-> IF s = {} THEN 0 ELSE v[PickOf(s)] + f[s \ {PickOf(s)}]]

IsSum(t, v, S) == \E f : SumsOf(v, S, f) /\ t = f[S]

NatValued(v, S) == \A x \in S : v[x] \in Nat

\* Its values, one by one.
LEMMA SumsValue ==
  ASSUME NEW v, NEW S, NEW f, SumsOf(v, S, f)
  PROVE  /\ \A s \in SUBSET S : s # {} =>
               PickOf(s) \in s /\ f[s] = v[PickOf(s)] + f[s \ {PickOf(s)}]
         /\ f[{}] = 0
  <1>1. \A s \in SUBSET S : f[s] = IF s = {} THEN 0 ELSE v[PickOf(s)] + f[s \ {PickOf(s)}]
    BY DEF SumsOf
  <1>2. \A s : s # {} => PickOf(s) \in s
    BY DEF PickOf
  <1> QED BY <1>1, <1>2

\* The sums exist.
LEMMA SumsExist ==
  ASSUME NEW S, IsFiniteSet(S), NEW v, NatValued(v, S)
  PROVE  \E f : SumsOf(v, S, f)
  <1> DEFINE ch == [s \in SUBSET S |-> PickOf(s)]
             st == [x \in S |-> [y \in Nat |-> v[x] + y]]
  <1>1. \A s \in SUBSET S : s # {} => ch[s] = PickOf(s) /\ ch[s] \in s
    BY DEF PickOf
  <1>2. \A x \in S, y \in Nat : st[x][y] = v[x] + y /\ st[x][y] \in Nat
    BY DEF NatValued
  <1> HIDE DEF ch, st
  <1>3. PICK f \in [SUBSET S -> Nat] : FoldsOf(S, 0, ch, st, f)
    BY <1>1, <1>2, FoldsExist
  <1>4. ASSUME NEW s \in SUBSET S, s # {}
        PROVE  f[s] = v[PickOf(s)] + f[s \ {PickOf(s)}]
    <2>1. PickOf(s) \in S /\ s \ {PickOf(s)} \in SUBSET S /\ ch[s] = PickOf(s)
      BY <1>1, <1>4
    <2>2. f[s] = st[ch[s]][f[s \ {ch[s]}]]
      BY <1>3, <1>4 DEF FoldsOf
    <2>3. f[s \ {PickOf(s)}] \in Nat
      BY <2>1
    <2> QED BY <1>2, <2>1, <2>2, <2>3
  <1>5. f[{}] = 0
    BY <1>3 DEF FoldsOf
  <1>6. f = [s \in SUBSET S |-> f[s]]
    OBVIOUS
  <1>7. [s \in SUBSET S |-> f[s]] =
        [s \in SUBSET S |-> IF s = {} THEN 0 ELSE v[PickOf(s)] + f[s \ {PickOf(s)}]]
    BY <1>4, <1>5
  <1> QED BY <1>6, <1>7 DEF SumsOf

\* They are natural numbers.
LEMMA SumsNat ==
  ASSUME NEW S, IsFiniteSet(S), NEW v, NatValued(v, S), NEW f, SumsOf(v, S, f)
  PROVE  \A s \in SUBSET S : f[s] \in Nat
  <1> DEFINE N == {n \in Nat : \A s \in SUBSET S : Cardinality(s) = n => f[s] \in Nat}
  <1>1. 0 \in N
    <2>1. \A s \in SUBSET S : Cardinality(s) = 0 => s = {}
      BY PartCardinality
    <2>2. f[{}] = 0
      BY SumsValue
    <2> QED BY <2>1, <2>2
  <1>2. ASSUME NEW n \in Nat, n \in N PROVE n + 1 \in N
    <2> SUFFICES ASSUME NEW s \in SUBSET S, Cardinality(s) = n + 1 PROVE f[s] \in Nat
      OBVIOUS
    <2>1. s # {}
      BY PartCardinality
    <2>2. PickOf(s) \in s /\ f[s] = v[PickOf(s)] + f[s \ {PickOf(s)}]
      BY <2>1, SumsValue
    <2>3. s \ {PickOf(s)} \in SUBSET S /\ Cardinality(s \ {PickOf(s)}) = n
      BY <2>2, PartCardinality
    <2>4. f[s \ {PickOf(s)}] \in Nat /\ v[PickOf(s)] \in Nat
      BY <1>2, <2>2, <2>3 DEF NatValued
    <2> QED BY <2>2, <2>4
  <1> HIDE DEF N
  <1>3. Nat \subseteq N
    BY <1>1, <1>2, SetInduction
  <1> QED BY <1>3, PartCardinality DEF N

\* The order does not matter: any element may be taken first.
LEMMA SumsRemove ==
  ASSUME NEW S, IsFiniteSet(S), NEW v, NatValued(v, S), NEW f, SumsOf(v, S, f)
  PROVE  \A s \in SUBSET S : \A x \in s : f[s] = v[x] + f[s \ {x}]
  <1> DEFINE FromAny(s) == \A x \in s : f[s] = v[x] + f[s \ {x}]
             N == {n \in Nat : \A s \in SUBSET S : Cardinality(s) = n => FromAny(s)}
  <1>1. 0 \in N
    <2>1. \A s \in SUBSET S : Cardinality(s) = 0 => s = {}
      BY PartCardinality
    <2> QED BY <2>1
  <1>2. ASSUME NEW n \in Nat, n \in N PROVE n + 1 \in N
    <2> SUFFICES ASSUME NEW s \in SUBSET S, Cardinality(s) = n + 1, NEW x \in s
                 PROVE  f[s] = v[x] + f[s \ {x}]
      OBVIOUS
    <2> DEFINE y == PickOf(s)
    <2>1. y \in s /\ f[s] = v[y] + f[s \ {y}]
      BY SumsValue
    <2> HIDE DEF y
    <2>2. CASE x = y
      BY <2>1, <2>2
    <2>3. CASE x # y
      <3> DEFINE r == s \ {x, y}
      <3>1. /\ s \ {x} \in SUBSET S /\ Cardinality(s \ {x}) = n
            /\ s \ {y} \in SUBSET S /\ Cardinality(s \ {y}) = n
        BY <2>1, PartCardinality
      <3>2. x \in s \ {y} /\ y \in s \ {x} /\ (s \ {y}) \ {x} = r /\ (s \ {x}) \ {y} = r
        BY <2>1, <2>3
      <3>3. f[s \ {y}] = v[x] + f[r] /\ f[s \ {x}] = v[y] + f[r]
        BY <1>2, <3>1, <3>2
      <3>4. v[x] \in Nat /\ v[y] \in Nat /\ f[r] \in Nat
        BY <2>1, SumsNat DEF NatValued
      <3> HIDE DEF r
      <3> QED BY <2>1, <3>3, <3>4
    <2> QED BY <2>2, <2>3
  <1> HIDE DEF N
  <1>3. Nat \subseteq N
    BY <1>1, <1>2, SetInduction
  <1>4. \A s \in SUBSET S : Cardinality(s) \in N
    BY <1>3, PartCardinality
  <1> QED BY <1>4 DEF N

\* The same of one set and one element of it.
LEMMA SumsRemoveAt ==
  ASSUME NEW S, IsFiniteSet(S), NEW v, NatValued(v, S), NEW f, SumsOf(v, S, f),
         NEW s \in SUBSET S, NEW x \in s
  PROVE  f[s] = v[x] + f[s \ {x}]
  BY SumsRemove

\* Nor do the names of the elements: h gives those of A other names.
LEMMA SumsRenamed ==
  ASSUME NEW S, IsFiniteSet(S), NEW v, NatValued(v, S), NEW f, SumsOf(v, S, f),
         NEW T, IsFiniteSet(T), NEW w, NatValued(w, T), NEW g, SumsOf(w, T, g),
         NEW h, NEW A \in SUBSET S,
         \A x \in A : h[x] \in T /\ w[h[x]] = v[x],
         \A x, y \in A : h[x] = h[y] => x = y
  PROVE  f[A] = g[{h[x] : x \in A}]
  <1> DEFINE Image(s) == {h[x] : x \in s}
             N == {n \in Nat : \A s \in SUBSET A : Cardinality(s) = n => f[s] = g[Image(s)]}
  <1>1. 0 \in N
    <2>1. \A s \in SUBSET A : Cardinality(s) = 0 => s = {}
      BY PartCardinality
    <2>2. f[{}] = 0 /\ g[{}] = 0
      BY SumsValue
    <2>3. Image({}) = {}
      OBVIOUS
    <2> QED BY <2>1, <2>2, <2>3
  <1>2. ASSUME NEW n \in Nat, n \in N PROVE n + 1 \in N
    <2> SUFFICES ASSUME NEW s \in SUBSET A, Cardinality(s) = n + 1
                 PROVE  f[s] = g[Image(s)]
      OBVIOUS
    <2>1. s # {} /\ s \in SUBSET S
      BY PartCardinality
    <2>2. PICK x : x \in s
      BY <2>1
    <2>3. s \ {x} \in SUBSET A /\ Cardinality(s \ {x}) = n
      <3>1. Cardinality(s \ {x}) = Cardinality(s) - 1
        BY <2>1, <2>2, PartCardinality
      <3> QED BY <3>1
    <2>4. f[s] = v[x] + f[s \ {x}]
      BY <2>1, <2>2, SumsRemove
    <2>5. Image(s) \in SUBSET T /\ h[x] \in Image(s)
      BY <2>2
    <2>6. g[Image(s)] = w[h[x]] + g[Image(s) \ {h[x]}]
      <3> HIDE DEF Image, N
      <3>1. ASSUME NEW r \in SUBSET T, NEW y \in r PROVE g[r] = w[y] + g[r \ {y}]
        BY SumsRemoveAt
      <3> QED BY <2>5, <3>1
    <2>7. Image(s) \ {h[x]} = Image(s \ {x})
      BY <2>2
    <2>8. f[s \ {x}] = g[Image(s \ {x})]
      BY <1>2, <2>3
    <2>9. w[h[x]] = v[x]
      BY <2>2
    <2> QED BY <2>4, <2>6, <2>7, <2>8, <2>9
  <1> HIDE DEF N
  <1>3. Nat \subseteq N
    BY <1>1, <1>2, SetInduction
  <1>4. A \in SUBSET A /\ Cardinality(A) \in Nat
    BY PartCardinality
  <1>5. f[A] = g[Image(A)]
    BY <1>3, <1>4 DEF N
  <1> QED BY <1>5

\* There is one sum, and it is a natural number.
LEMMA SumUnique ==
  ASSUME NEW S, IsFiniteSet(S), NEW v, NatValued(v, S)
  PROVE  \E t \in Nat : \A u : IsSum(u, v, S) <=> u = t
  <1>1. PICK f : SumsOf(v, S, f)
    BY SumsExist
  <1>2. f[S] \in Nat
    BY <1>1, SumsNat
  <1>3. ASSUME NEW g, SumsOf(v, S, g) PROVE g[S] = f[S]
    <2> DEFINE h == [x \in S |-> x]
    <2>1. S \in SUBSET S /\ {h[x] : x \in S} = S
      OBVIOUS
    <2>2. /\ \A x \in S : h[x] \in S /\ v[h[x]] = v[x]
          /\ \A x, y \in S : h[x] = h[y] => x = y
      OBVIOUS
    <2> HIDE DEF h
    <2>3. g[S] = f[{h[x] : x \in S}]
      BY <1>1, <1>3, <2>1, <2>2, SumsRenamed
    <2> QED BY <2>1, <2>3
  <1> QED BY <1>1, <1>2, <1>3 DEF IsSum

\* The sum over a set whose elements have other names.
LEMMA SumRenamed ==
  ASSUME NEW S, IsFiniteSet(S), NEW v, NatValued(v, S),
         NEW T, IsFiniteSet(T), NEW w, NatValued(w, T),
         NEW h, \A x \in S : h[x] \in T /\ w[h[x]] = v[x],
         \A x, y \in S : h[x] = h[y] => x = y,
         \A y \in T : \E x \in S : y = h[x],
         NEW t, IsSum(t, v, S)
  PROVE  IsSum(t, w, T)
  <1>1. PICK f : SumsOf(v, S, f) /\ t = f[S]
    BY DEF IsSum
  <1>2. PICK g : SumsOf(w, T, g)
    BY SumsExist
  <1>3. {h[x] : x \in S} = T
    OBVIOUS
  <1>4. S \in SUBSET S
    OBVIOUS
  <1>5. f[S] = g[{h[x] : x \in S}]
    BY <1>1, <1>2, <1>4, SumsRenamed
  <1> QED BY <1>1, <1>2, <1>3, <1>5 DEF IsSum

\* The sum of equal values.
LEMMA SumSame ==
  ASSUME NEW S, IsFiniteSet(S), NEW v, NatValued(v, S), NEW w, \A x \in S : w[x] = v[x],
         NEW t, IsSum(t, v, S)
  PROVE  IsSum(t, w, S)
  <1> DEFINE h == [x \in S |-> x]
  <1>1. /\ \A x \in S : h[x] \in S /\ w[h[x]] = v[x]
        /\ \A x, y \in S : h[x] = h[y] => x = y
        /\ \A y \in S : \E x \in S : y = h[x]
        /\ NatValued(w, S)
    BY DEF NatValued
  <1> HIDE DEF h
  <1> QED BY <1>1, SumRenamed

\* The sum over nothing ...
LEMMA SumEmpty ==
  ASSUME NEW v PROVE IsSum(0, v, {})
  <1>1. IsFiniteSet({}) /\ NatValued(v, {})
    BY FS_EmptySet DEF NatValued
  <1>2. PICK f : SumsOf(v, {}, f)
    BY <1>1, SumsExist
  <1> QED BY <1>2, SumsValue DEF IsSum

\* ... with an element less ...
LEMMA SumRemoved ==
  ASSUME NEW S, IsFiniteSet(S), NEW v, NatValued(v, S), NEW t, IsSum(t, v, S), NEW x \in S
  PROVE  /\ IsSum(t - v[x], v, S \ {x})
         /\ t \in Nat /\ v[x] \in Nat /\ t - v[x] \in Nat
  <1> DEFINE R == S \ {x}
             h == [y \in R |-> y]
  <1>1. PICK f : SumsOf(v, S, f) /\ t = f[S]
    BY DEF IsSum
  <1>2. IsFiniteSet(R) /\ NatValued(v, R) /\ R \in SUBSET S /\ R \in SUBSET R
    BY FS_Subset DEF NatValued
  <1>3. PICK g : SumsOf(v, R, g)
    BY <1>2, SumsExist
  <1>4. /\ \A y \in R : h[y] \in S /\ v[h[y]] = v[y]
        /\ \A y, z \in R : h[y] = h[z] => y = z
        /\ {h[y] : y \in R} = R
    OBVIOUS
  <1>5. f[S] = v[x] + f[R]
    BY <1>1, SumsRemove
  <1> HIDE DEF R, h
  <1>6. g[R] = f[{h[y] : y \in R}]
    BY <1>1, <1>2, <1>3, <1>4, SumsRenamed
  <1>7. f[R] \in Nat /\ f[S] \in Nat /\ v[x] \in Nat
    BY <1>1, <1>2, SumsNat DEF NatValued
  <1>8. t - v[x] = g[R] /\ t \in Nat /\ t - v[x] \in Nat
    <2>1. g[R] = f[R] /\ t = v[x] + f[R]
      BY <1>1, <1>4, <1>5, <1>6
    <2> QED BY <1>7, <2>1
  <1>9. IsSum(t - v[x], v, R)
    BY <1>3, <1>8 DEF IsSum
  <1> QED BY <1>7, <1>8, <1>9 DEF R

\* ... and with one more.
LEMMA SumAdded ==
  ASSUME NEW S, IsFiniteSet(S), NEW x, x \notin S, NEW v, NatValued(v, S \cup {x}),
         NEW t, IsSum(t, v, S)
  PROVE  IsSum(t + v[x], v, S \cup {x})
  <1> DEFINE T == S \cup {x}
  <1>1. IsFiniteSet(T) /\ NatValued(v, T) /\ NatValued(v, S) /\ x \in T /\ T \ {x} = S
    BY FS_AddElement DEF NatValued
  <1> HIDE DEF T
  <1>2. PICK u \in Nat : IsSum(u, v, T)
    BY <1>1, SumUnique
  <1>3. IsSum(u - v[x], v, S) /\ v[x] \in Nat
    BY <1>1, <1>2, SumRemoved
  <1>4. t = u - v[x]
    BY <1>1, <1>3, SumUnique
  <1>5. u = t + v[x]
    BY <1>3, <1>4
  <1> QED BY <1>2, <1>5 DEF T

\* The sum when one value changes.
LEMMA SumChanged ==
  ASSUME NEW S, IsFiniteSet(S), NEW v, NatValued(v, S), NEW w, NatValued(w, S),
         NEW x \in S, \A y \in S \ {x} : w[y] = v[y],
         NEW t, IsSum(t, v, S)
  PROVE  /\ IsSum(t - v[x] + w[x], w, S)
         /\ t \in Nat /\ v[x] \in Nat /\ w[x] \in Nat
  <1> DEFINE R == S \ {x}
             r == t - v[x]
  <1>1. IsSum(r, v, R) /\ t \in Nat /\ v[x] \in Nat /\ w[x] \in Nat
    BY SumRemoved DEF NatValued
  <1>2. IsFiniteSet(R) /\ NatValued(v, R) /\ x \notin R /\ R \cup {x} = S
        /\ \A y \in R : w[y] = v[y]
    BY FS_Subset DEF NatValued
  <1> HIDE DEF R, r
  <1>3. IsSum(r, w, R)
    BY <1>1, <1>2, SumSame
  <1>4. IsSum(r + w[x], w, R \cup {x})
    BY <1>2, <1>3, SumAdded
  <1> QED BY <1>1, <1>2, <1>4 DEF r

\* A sum is zero when every value is, and only then.
LEMMA SumZero ==
  ASSUME NEW S, IsFiniteSet(S), NEW v, NatValued(v, S), NEW t, IsSum(t, v, S)
  PROVE  t = 0 <=> \A x \in S : v[x] = 0
  <1>1. ASSUME t = 0, NEW x \in S PROVE v[x] = 0
    <2>1. t \in Nat /\ v[x] \in Nat /\ t - v[x] \in Nat
      BY SumRemoved
    <2> QED BY <1>1, <2>1
  <1>2. ASSUME \A x \in S : v[x] = 0 PROVE t = 0
    <2> DEFINE f == [s \in SUBSET S |-> 0]
    <2>1. \A s \in SUBSET S : 0 = IF s = {} THEN 0 ELSE v[PickOf(s)] + f[s \ {PickOf(s)}]
      <3> SUFFICES ASSUME NEW s \in SUBSET S, s # {}
                   PROVE  v[PickOf(s)] + f[s \ {PickOf(s)}] = 0
        OBVIOUS
      <3>1. PickOf(s) \in S /\ s \ {PickOf(s)} \in SUBSET S
        BY DEF PickOf
      <3>2. v[PickOf(s)] = 0 /\ f[s \ {PickOf(s)}] = 0
        BY <1>2, <3>1
      <3> QED BY <3>2
    <2>2. f = [s \in SUBSET S |-> IF s = {} THEN 0
                                  ELSE v[PickOf(s)] + f[s \ {PickOf(s)}]]
      BY <2>1
    <2>3. f[S] = 0
      OBVIOUS
    <2> HIDE DEF f
    <2>4. IsSum(0, v, S)
      BY <2>2, <2>3 DEF IsSum, SumsOf
    <2> QED BY <2>4, SumUnique
  <1> QED BY <1>1, <1>2
=============================================================================
