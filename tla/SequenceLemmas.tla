--------------------------- MODULE SequenceLemmas ---------------------------
(* Facts about the queues of the model: what appending, popping, concatenating *)
(* and RemoveFirst, which takes a task out of a queue of waiters, do to them;  *)
(* then what the folds of the library compute: sums and flattened sequences.   *)
EXTENDS Integers, Sequences, SequencesExt, FiniteSets, FiniteSetsExt, SequenceTheorems, FiniteSetTheorems,
        WellFoundedInduction, TLAPS

\* A set of naturals that is not empty has a least element.
LEMMA MinOfNaturals ==
  ASSUME NEW I, I \subseteq Nat, I # {}
  PROVE  Min(I) \in I /\ \A y \in I : Min(I) <= y
<1> DEFINE R == OpToRel(<, Nat)
<1>1. \A x, y \in Nat : x < y => <<x, y>> \in R
  BY DEF OpToRel
<1>2. IsWellFoundedOn(R, Nat)
  BY NatLessThanWellFounded
<1> HIDE DEF R
<1>3. PICK x \in I : \A y \in I : ~ (<<y, x>> \in R)
  BY <1>2, WFMin
<1>4. ASSUME NEW y \in I PROVE x <= y
  <2>1. x \in Nat /\ y \in Nat
    OBVIOUS
  <2>2. ~ (y < x)
    BY <1>1, <1>3, <2>1, Zenon
  <2> QED BY <2>1, <2>2
<1> QED BY <1>4 DEF Min


\* RemoveFirst returns a sequence, whatever it is asked to remove.
LEMMA RemoveFirstType ==
  ASSUME NEW S, NEW q \in Seq(S), NEW e
  PROVE  RemoveFirst(q, e) \in Seq(S)
<1> DEFINE I == {i \in 1..Len(q) : q[i] = e}
<1>1. CASE I = {}
  BY <1>1 DEF RemoveFirst
<1>2. CASE I # {}
  <2>1. Min(I) \in 1..Len(q)
    <3>1. I \subseteq 1..Len(q) /\ 1..Len(q) \subseteq Nat
      BY LenProperties
    <3> QED BY <1>2, <3>1, MinOfNaturals
  <2>2. RemoveFirst(q, e) = RemoveAt(q, Min(I))
    BY <1>2 DEF RemoveFirst, SelectInSeq
  <2> HIDE DEF I
  <2>3. SubSeq(q, 1, Min(I) - 1) \in Seq(S)
    BY <2>1, SubSeqProperties
  <2>4. SubSeq(q, Min(I) + 1, Len(q)) \in Seq(S)
    BY <2>1, SubSeqProperties
  <2> QED BY <2>2, <2>3, <2>4, ConcatProperties DEF RemoveAt
<1> QED BY <1>1, <1>2

\* The elements of a sequence without the one at place m.
LEMMA RemoveAtProperties ==
  ASSUME NEW S, NEW q \in Seq(S), NEW m \in 1..Len(q)
  PROVE  /\ RemoveAt(q, m) \in Seq(S)
         /\ Len(RemoveAt(q, m)) = Len(q) - 1
         /\ \A i \in 1..(Len(q) - 1) : RemoveAt(q, m)[i] = IF i < m THEN q[i] ELSE q[i + 1]
<1> DEFINE l == SubSeq(q, 1, m - 1)
           r == SubSeq(q, m + 1, Len(q))
<1>0. Len(q) \in Nat /\ \A i \in 1..Len(q) : q[i] \in S
  BY LenProperties, ElementOfSeq
<1>1. l \in Seq(S) /\ Len(l) = m - 1 /\ \A i \in 1..(m - 1) : l[i] = q[i]
  BY <1>0, SubSeqProperties
<1>2. r \in Seq(S) /\ Len(r) = Len(q) - m /\ \A i \in 1..(Len(q) - m) : r[i] = q[m + i]
  BY <1>0, SubSeqProperties
<1>3. RemoveAt(q, m) = l \o r
  BY DEF RemoveAt
<1> HIDE DEF l, r
<1>4. l \o r \in Seq(S) /\ Len(l \o r) = Len(q) - 1
  <2>1. l \o r \in Seq(S) /\ Len(l \o r) = Len(l) + Len(r)
    BY <1>1, <1>2, ConcatProperties
  <2> QED BY <1>0, <1>1, <1>2, <2>1
<1>5. ASSUME NEW i \in 1..(Len(q) - 1) PROVE (l \o r)[i] = IF i < m THEN q[i] ELSE q[i + 1]
  <2>1. (l \o r)[i] = IF i <= Len(l) THEN l[i] ELSE r[i - Len(l)]
    BY <1>0, <1>1, <1>2, ConcatProperties
  <2> QED BY <1>0, <1>1, <1>2, <2>1
<1> QED BY <1>3, <1>4, <1>5

\* RemoveFirst takes one place out of a queue that holds its argument.
LEMMA RemoveFirstPlaces ==
  ASSUME NEW S, NEW q \in Seq(S), NEW e \in ToSet(q)
  PROVE  /\ RemoveFirst(q, e) \in Seq(S) /\ Len(RemoveFirst(q, e)) = Len(q) - 1
         /\ \E m \in 1..Len(q) :
              q[m] = e /\ \A i \in 1..(Len(q) - 1) : RemoveFirst(q, e)[i] = IF i < m THEN q[i] ELSE q[i + 1]
<1> DEFINE I == {i \in 1..Len(q) : q[i] = e}
           m == Min(I)
           s == RemoveFirst(q, e)
<1>0. Len(q) \in Nat /\ q \in [1..Len(q) -> S] /\ DOMAIN q = 1..Len(q)
  BY LenProperties
<1>1. I # {} /\ I \subseteq Nat /\ I \subseteq 1..Len(q)
  BY <1>0 DEF ToSet
<1>2. m \in 1..Len(q) /\ q[m] = e
  <2>1. m \in I
    BY <1>1, MinOfNaturals
  <2> QED BY <2>1
<1>3. s = RemoveAt(q, m)
  BY <1>1 DEF RemoveFirst, SelectInSeq
<1> HIDE DEF I, m, s
<1>4. /\ s \in Seq(S) /\ Len(s) = Len(q) - 1
      /\ \A i \in 1..(Len(q) - 1) : s[i] = IF i < m THEN q[i] ELSE q[i + 1]
  BY <1>2, <1>3, RemoveAtProperties
<1> QED BY <1>2, <1>4 DEF s

\* RemoveFirst takes its argument out of a queue without repetitions, keeps the
\* others, and keeps the head unless it is what is removed.
LEMMA RemoveFirstProperties ==
  ASSUME NEW S, NEW q \in Seq(S), IsInjective(q), NEW e \in ToSet(q)
  PROVE  /\ RemoveFirst(q, e) \in Seq(S) /\ IsInjective(RemoveFirst(q, e))
         /\ ToSet(RemoveFirst(q, e)) = ToSet(q) \ {e}
         /\ Head(q) # e => RemoveFirst(q, e) # <<>> /\ Head(RemoveFirst(q, e)) = Head(q)
<1> DEFINE s == RemoveFirst(q, e)
<1>0. Len(q) \in Nat /\ q \in [1..Len(q) -> S] /\ DOMAIN q = 1..Len(q)
  BY LenProperties
<1>1. s \in Seq(S) /\ Len(s) = Len(q) - 1
  BY RemoveFirstPlaces
<1>2. PICK m \in 1..Len(q) :
        q[m] = e /\ \A i \in 1..(Len(q) - 1) : s[i] = IF i < m THEN q[i] ELSE q[i + 1]
  BY RemoveFirstPlaces
<1> HIDE DEF s
<1>4. /\ s \in Seq(S) /\ Len(s) = Len(q) - 1
      /\ \A i \in 1..(Len(q) - 1) : s[i] = IF i < m THEN q[i] ELSE q[i + 1]
  BY <1>1, <1>2
<1>5. DOMAIN s = 1..(Len(q) - 1)
  BY <1>4, LenProperties
<1>6. \A i, j \in 1..Len(q) : q[i] = q[j] => i = j
  BY <1>0 DEF IsInjective
<1>7. IsInjective(s)
  <2>1. \A i, j \in 1..(Len(q) - 1) : s[i] = s[j] => i = j
    BY <1>0, <1>2, <1>4, <1>6
  <2> QED BY <1>5, <2>1 DEF IsInjective
<1>8. ToSet(s) = ToSet(q) \ {e}
  <2>1. ASSUME NEW x \in ToSet(s) PROVE x \in ToSet(q) \ {e}
    <3>1. PICK i \in 1..(Len(q) - 1) : s[i] = x
      BY <1>5 DEF ToSet
    <3>2. PICK j \in 1..Len(q) : q[j] = x /\ j # m
      BY <1>0, <1>2, <1>4, <3>1
    <3> QED BY <1>0, <1>2, <1>6, <3>2 DEF ToSet
  <2>2. ASSUME NEW x \in ToSet(q) \ {e} PROVE x \in ToSet(s)
    <3>1. PICK j \in 1..Len(q) : q[j] = x
      BY <1>0 DEF ToSet
    <3>2. j # m
      BY <1>2, <3>1
    <3>3. PICK i \in 1..(Len(q) - 1) : s[i] = x
      <4>1. CASE j < m
        BY <1>0, <1>2, <1>4, <3>1, <4>1
      <4>2. CASE j > m
        <5>1. j - 1 \in 1..(Len(q) - 1) /\ ~(j - 1 < m) /\ (j - 1) + 1 = j
          BY <1>0, <1>2, <4>2
        <5> QED BY <1>4, <3>1, <5>1
      <4> QED BY <1>0, <1>2, <3>2, <4>1, <4>2
    <3> QED BY <1>5, <3>3 DEF ToSet
  <2> QED BY <2>1, <2>2
<1>9. Head(q) # e => s # <<>> /\ Head(s) = Head(q)
  <2> SUFFICES ASSUME Head(q) # e PROVE s # <<>> /\ Head(s) = Head(q)
    OBVIOUS
  <2>1. Head(q) = q[1] /\ 1 \in 1..Len(q)
    BY <1>0, <1>2
  <2>2. m > 1 /\ 1 \in 1..(Len(q) - 1)
    BY <1>0, <1>2, <2>1
  <2>3. s # <<>> /\ s[1] = q[1]
    BY <1>2, <1>4, <1>5, <2>2
  <2> QED BY <2>1, <2>3
<1> QED BY <1>4, <1>7, <1>8, <1>9 DEF s

\* The elements of a sequence, after an append, a pop, or a concatenation.
LEMMA ToSetProperties ==
  ASSUME NEW S, NEW s \in Seq(S)
  PROVE  /\ ToSet(s) \subseteq S
         /\ \A x : x \in ToSet(s) <=> \E i \in 1..Len(s) : s[i] = x
         /\ \A e \in S : ToSet(Append(s, e)) = ToSet(s) \cup {e}
         /\ s # <<>> => Head(s) \in ToSet(s) /\ ToSet(s) = {Head(s)} \cup ToSet(Tail(s))
<1>1. Len(s) \in Nat /\ DOMAIN s = 1..Len(s) /\ \A i \in 1..Len(s) : s[i] \in S
  BY LenProperties, ElementOfSeq
<1>2. \A x : x \in ToSet(s) <=> \E i \in 1..Len(s) : s[i] = x
  BY <1>1 DEF ToSet
<1>3. ToSet(s) \subseteq S
  BY <1>1, <1>2
<1>4. ASSUME NEW e \in S PROVE ToSet(Append(s, e)) = ToSet(s) \cup {e}
  <2>1. /\ DOMAIN Append(s, e) = 1..(Len(s) + 1)
        /\ \A i \in 1..Len(s) : Append(s, e)[i] = s[i]
        /\ Append(s, e)[Len(s) + 1] = e
    BY <1>1, AppendProperties, LenProperties
  <2>2. \A x : x \in ToSet(Append(s, e)) <=> \E i \in 1..(Len(s) + 1) : Append(s, e)[i] = x
    BY <2>1 DEF ToSet
  <2>3. \A i : i \in 1..(Len(s) + 1) <=> i \in 1..Len(s) \/ i = Len(s) + 1
    BY <1>1
  <2> QED BY <1>2, <2>1, <2>2, <2>3
<1>5. s # <<>> => Head(s) \in ToSet(s) /\ ToSet(s) = {Head(s)} \cup ToSet(Tail(s))
  <2> SUFFICES ASSUME s # <<>> PROVE Head(s) \in ToSet(s) /\ ToSet(s) = {Head(s)} \cup ToSet(Tail(s))
    OBVIOUS
  <2>1. Len(s) \in Nat \ {0} /\ Head(s) = s[1]
    BY EmptySeq
  <2>2. DOMAIN Tail(s) = 1..(Len(s) - 1) /\ \A i \in 1..(Len(s) - 1) : Tail(s)[i] = s[i + 1]
    BY HeadTailProperties, LenProperties
  <2>3. \A x : x \in ToSet(Tail(s)) <=> \E i \in 1..(Len(s) - 1) : s[i + 1] = x
    BY <2>2 DEF ToSet
  <2>4. \A i \in 1..(Len(s) - 1) : i + 1 \in 1..Len(s)
    BY <2>1
  <2>5. \A i \in 1..Len(s) : i = 1 \/ (i - 1 \in 1..(Len(s) - 1) /\ (i - 1) + 1 = i)
    BY <2>1
  <2>6. 1 \in 1..Len(s)
    BY <2>1
  <2> QED BY <1>2, <2>1, <2>3, <2>4, <2>5, <2>6
<1> QED BY <1>2, <1>3, <1>4, <1>5

\* A concatenation, when an element goes from the head of its right part to the end of
\* the left one, and when one is added at its end.
LEMMA ConcatShift ==
  ASSUME NEW S, NEW s \in Seq(S), NEW q \in Seq(S), q # <<>>
  PROVE  Append(s, Head(q)) \o Tail(q) = s \o q
<1>1. Head(q) \in S /\ Tail(q) \in Seq(S) /\ <<Head(q)>> \in Seq(S)
  BY HeadTailProperties
<1>2. Append(s, Head(q)) = s \o <<Head(q)>>
  BY <1>1, AppendIsConcat
<1>3. <<Head(q)>> \o Tail(q) = q
  <2>1. Len(q) \in Nat \ {0} /\ Len(Tail(q)) = Len(q) - 1 /\ Len(<<Head(q)>>) = 1
    BY EmptySeq, HeadTailProperties
  <2>2. /\ <<Head(q)>> \o Tail(q) \in Seq(S) /\ Len(<<Head(q)>> \o Tail(q)) = Len(q)
        /\ \A i \in 1..Len(q) :
             (<<Head(q)>> \o Tail(q))[i] = IF i <= 1 THEN <<Head(q)>>[i] ELSE Tail(q)[i - 1]
    <3>1. \A i \in 1..(Len(<<Head(q)>>) + Len(Tail(q))) :
             (<<Head(q)>> \o Tail(q))[i] = IF i <= Len(<<Head(q)>>) THEN <<Head(q)>>[i] ELSE Tail(q)[i - Len(<<Head(q)>>)]
      BY <1>1, ConcatProperties
    <3>2. <<Head(q)>> \o Tail(q) \in Seq(S) /\ Len(<<Head(q)>> \o Tail(q)) = Len(<<Head(q)>>) + Len(Tail(q))
      BY <1>1, ConcatProperties
    <3> QED BY <2>1, <3>1, <3>2
  <2>3. \A i \in 1..Len(Tail(q)) : Tail(q)[i] = q[i + 1]
    BY HeadTailProperties
  <2>4. \A i \in 1..Len(q) : (<<Head(q)>> \o Tail(q))[i] = q[i]
    <3> TAKE i \in 1..Len(q)
    <3>1. CASE i = 1
      BY <2>1, <2>2, <3>1
    <3>2. CASE i # 1
      <4>1. i - 1 \in 1..Len(Tail(q)) /\ (i - 1) + 1 = i /\ ~(i <= 1)
        BY <2>1, <3>2
      <4> QED BY <2>2, <2>3, <4>1
    <3> QED BY <3>1, <3>2
  <2> QED BY <2>2, <2>4, SeqEqual
<1> QED BY <1>1, <1>2, <1>3, ConcatAssociative

LEMMA ConcatPush ==
  ASSUME NEW S, NEW s \in Seq(S), NEW q \in Seq(S), NEW e \in S
  PROVE  s \o Append(q, e) = Append(s \o q, e)
<1>1. s \o q \in Seq(S) /\ <<e>> \in Seq(S)
  BY ConcatProperties
<1>2. Append(q, e) = q \o <<e>> /\ Append(s \o q, e) = (s \o q) \o <<e>>
  BY <1>1, AppendIsConcat
<1> QED BY <1>1, <1>2, ConcatAssociative

\* The first element leaves, others come.
LEMMA TailConcat ==
  ASSUME NEW S, NEW s \in Seq(S), s # <<>>, NEW t \in Seq(S)
  PROVE  /\ Tail(s) \o t \in Seq(S) /\ Len(Tail(s) \o t) = Len(s) - 1 + Len(t)
         /\ Len(s) \in Nat \ {0} /\ Len(t) \in Nat /\ Head(s) = s[1]
         /\ \A i \in 1..Len(Tail(s) \o t) : (Tail(s) \o t)[i] = IF i < Len(s) THEN s[i + 1] ELSE t[i + 1 - Len(s)]
<1>1. Tail(s) \in Seq(S) /\ Len(Tail(s)) = Len(s) - 1 /\ Len(s) \in Nat \ {0} /\ Len(t) \in Nat /\ Head(s) = s[1]
  BY HeadTailProperties, LenProperties, EmptySeq
<1>2. \A i \in 1..(Len(s) - 1) : Tail(s)[i] = s[i + 1]
  BY HeadTailProperties
<1>3. /\ Tail(s) \o t \in Seq(S) /\ Len(Tail(s) \o t) = Len(Tail(s)) + Len(t)
      /\ \A i \in 1..(Len(Tail(s)) + Len(t)) :
           (Tail(s) \o t)[i] = IF i <= Len(Tail(s)) THEN Tail(s)[i] ELSE t[i - Len(Tail(s))]
  BY <1>1, ConcatProperties
<1> QED BY <1>1, <1>2, <1>3

\* An injective sequence is cut in two.
LEMMA CutProperties ==
  ASSUME NEW S, NEW s \in Seq(S), IsInjective(s), NEW n \in 0..Len(s)
  PROVE  /\ SubSeq(s, 1, n) \in Seq(S) /\ Len(SubSeq(s, 1, n)) = n
         /\ SubSeq(s, n + 1, Len(s)) \in Seq(S) /\ IsInjective(SubSeq(s, n + 1, Len(s)))
         /\ ToSet(SubSeq(s, n + 1, Len(s))) = ToSet(s) \ ToSet(SubSeq(s, 1, n))
<1> DEFINE l == SubSeq(s, 1, n)
           r == SubSeq(s, n + 1, Len(s))
<1>0. Len(s) \in Nat /\ DOMAIN s = 1..Len(s) /\ \A i \in 1..Len(s) : s[i] \in S
  BY LenProperties, ElementOfSeq
<1>1. l \in Seq(S) /\ Len(l) = n /\ DOMAIN l = 1..n /\ \A i \in 1..n : l[i] = s[i]
  <2>1. l \in Seq(S) /\ Len(l) = n /\ \A i \in 1..n : l[i] = s[i]
    <3>1. n \in Nat /\ 1 \in Int /\ n \in Int /\ \A i \in 1..n : s[i] \in S
      BY <1>0
    <3>2. /\ l \in Seq(S) /\ Len(l) = IF 1 <= n THEN n - 1 + 1 ELSE 0
          /\ \A i \in 1..(n - 1 + 1) : l[i] = s[1 + i - 1]
      BY <3>1, SubSeqProperties
    <3> HIDE DEF l
    <3> QED BY <3>1, <3>2
  <2> QED BY <2>1, LenProperties
<1>2. r \in Seq(S) /\ Len(r) = Len(s) - n /\ DOMAIN r = 1..(Len(s) - n) /\ \A i \in 1..(Len(s) - n) : r[i] = s[n + i]
  <2>1. r \in Seq(S) /\ Len(r) = Len(s) - n /\ \A i \in 1..(Len(s) - n) : r[i] = s[n + i]
    <3>1. Len(s) \in Nat /\ n \in Nat /\ n <= Len(s) /\ n + 1 \in Int /\ Len(s) \in Int
          /\ \A i \in (n + 1)..Len(s) : s[i] \in S
      BY <1>0
    <3>2. /\ r \in Seq(S) /\ Len(r) = IF n + 1 <= Len(s) THEN Len(s) - (n + 1) + 1 ELSE 0
          /\ \A i \in 1..(Len(s) - (n + 1) + 1) : r[i] = s[(n + 1) + i - 1]
      BY <3>1, SubSeqProperties
    <3> HIDE DEF r
    <3> QED BY <3>1, <3>2
  <2> QED BY <2>1, LenProperties
<1>3. \A i, j \in 1..Len(s) : s[i] = s[j] => i = j
  BY <1>0 DEF IsInjective
<1> HIDE DEF l, r
<1>4. IsInjective(r)
  <2>1. ASSUME NEW i \in DOMAIN r, NEW j \in DOMAIN r, r[i] = r[j] PROVE i = j
    <3>1. i \in 1..(Len(s) - n) /\ j \in 1..(Len(s) - n) /\ s[n + i] = s[n + j]
      BY <1>2, <2>1
    <3>2. n + i \in 1..Len(s) /\ n + j \in 1..Len(s)
      BY <1>0, <3>1
    <3>3. n + i = n + j
      BY <1>3, <3>1, <3>2
    <3> QED BY <1>0, <3>1, <3>3
  <2> QED BY <2>1 DEF IsInjective
<1>5. ASSUME NEW x PROVE x \in ToSet(r) <=> x \in ToSet(s) /\ x \notin ToSet(l)
  <2>1. ASSUME x \in ToSet(r) PROVE x \in ToSet(s) /\ x \notin ToSet(l)
    <3>1. PICK i \in 1..(Len(s) - n) : x = s[n + i]
      BY <1>2, <2>1 DEF ToSet
    <3>2. x \in ToSet(s)
      BY <1>0, <3>1 DEF ToSet
    <3>3. \A j \in 1..n : l[j] # x
      BY <1>0, <1>1, <1>3, <3>1
    <3> QED BY <1>1, <3>2, <3>3 DEF ToSet
  <2>2. ASSUME x \in ToSet(s), x \notin ToSet(l) PROVE x \in ToSet(r)
    <3>1. PICK i \in 1..Len(s) : x = s[i]
      BY <1>0, <2>2 DEF ToSet
    <3>2. i \notin 1..n
      BY <1>1, <2>2, <3>1 DEF ToSet
    <3>3. i - n \in 1..(Len(s) - n) /\ r[i - n] = x
      BY <1>0, <1>2, <3>1, <3>2
    <3> QED BY <1>2, <3>3 DEF ToSet
  <2> QED BY <2>1, <2>2
<1>6. ToSet(r) = ToSet(s) \ ToSet(l)
  BY <1>5
<1> QED BY <1>1, <1>2, <1>4, <1>6 DEF l, r

\* A new element keeps a sequence injective.
LEMMA AppendKeepsInjective ==
  ASSUME NEW S, NEW s \in Seq(S), IsInjective(s), NEW e \in S, e \notin ToSet(s)
  PROVE  IsInjective(Append(s, e))
<1>1. Len(s) \in Nat /\ DOMAIN s = 1..Len(s)
  BY LenProperties
<1>2. /\ Append(s, e) \in Seq(S) /\ Len(Append(s, e)) = Len(s) + 1
      /\ \A i \in 1..Len(s) : Append(s, e)[i] = s[i]
      /\ Append(s, e)[Len(s) + 1] = e
  BY AppendProperties
<1>3. DOMAIN Append(s, e) = 1..(Len(s) + 1)
  BY <1>2, LenProperties
<1>4. \A i \in 1..Len(s) : s[i] # e
  BY <1>1 DEF ToSet
<1>5. ASSUME NEW i \in 1..(Len(s) + 1), NEW j \in 1..(Len(s) + 1), Append(s, e)[i] = Append(s, e)[j] PROVE i = j
  <2>1. CASE i = Len(s) + 1 /\ j # Len(s) + 1
    BY <1>1, <1>2, <1>4, <1>5, <2>1
  <2>2. CASE i # Len(s) + 1 /\ j = Len(s) + 1
    BY <1>1, <1>2, <1>4, <1>5, <2>2
  <2>3. CASE i # Len(s) + 1 /\ j # Len(s) + 1
    <3>1. i \in 1..Len(s) /\ j \in 1..Len(s)
      BY <1>1, <2>3
    <3> QED BY <1>1, <1>2, <1>5, <3>1 DEF IsInjective
  <2> QED BY <2>1, <2>2, <2>3
<1> QED BY <1>3, <1>5 DEF IsInjective

-----------------------------------------------------------------------------
(* Induction and recursion over sets *)

\* A set of naturals with 0, and with the successor of each of its members, has them all.
LEMMA Inductive ==
  ASSUME NEW P, 0 \in P, \A n \in Nat : n \in P => n + 1 \in P
  PROVE  \A n \in Nat : n \in P
<1> SUFFICES ASSUME NEW x \in Nat, x \notin P PROVE FALSE
  OBVIOUS
<1> DEFINE I == Nat \ P
<1>1. I \subseteq Nat /\ I # {}
  OBVIOUS
<1> HIDE DEF I
<1>2. Min(I) \in I /\ \A y \in I : Min(I) <= y
  BY <1>1, MinOfNaturals
<1>3. PICK m \in I : m = Min(I)
  BY <1>2
<1>4. m \in Nat /\ m \notin P /\ m # 0
  BY DEF I
<1>5. m - 1 \in Nat /\ m - 1 \notin I /\ (m - 1) + 1 = m
  BY <1>2, <1>3, <1>4
<1> QED BY <1>4, <1>5 DEF I

\* The same for those up to m.
LEMMA InductiveUpto ==
  ASSUME NEW P, NEW m \in Nat, 0 \in P, \A n \in 0..(m - 1) : n \in P => n + 1 \in P
  PROVE  \A n \in 0..m : n \in P
<1> DEFINE Q == {n \in Nat : n > m \/ n \in P}
<1>1. 0 \in Q
  OBVIOUS
<1>2. \A n \in Nat : n \in Q => n + 1 \in Q
  OBVIOUS
<1> HIDE DEF Q
<1>3. \A n \in Nat : n \in Q
  BY <1>1, <1>2, Inductive
<1> QED BY <1>3 DEF Q

\* pick chooses an element of each subset of S, step makes a value from it and another one.
Steps(S, pick, V, base, step) ==
  /\ IsFiniteSet(S) /\ \A s \in SUBSET S : s # {} => pick[s] \in s
  /\ base \in V /\ \A x \in S, v \in V : step[<<x, v>>] \in V

\* The values for the subsets of S.
IsIter(iter, S, pick, V, base, step) ==
  /\ iter \in [SUBSET S -> V]
  /\ \A s \in SUBSET S : iter[s] = IF s = {} THEN base ELSE step[<<pick[s], iter[s \ {pick[s]}]>>]

\* A function on the subsets of a finite set whose value for each one is made from an
\* element of it and from the value for the others.
LEMMA IterExists ==
  ASSUME NEW S, NEW pick, NEW V, NEW base, NEW step, Steps(S, pick, V, base, step)
  PROVE  \E iter : IsIter(iter, S, pick, V, base, step)
<1> DEFINE Small(n) == {s \in SUBSET S : Cardinality(s) <= n}
           Iter(f, n) == \A s \in Small(n) : f[s] = IF s = {} THEN base ELSE step[<<pick[s], f[s \ {pick[s]}]>>]
           P == {n \in Nat : \E f \in [Small(n) -> V] : Iter(f, n)}
<1>h. /\ IsFiniteSet(S) /\ \A s \in SUBSET S : s # {} => pick[s] \in s
      /\ base \in V /\ \A x \in S, v \in V : step[<<x, v>>] \in V
  BY DEF Steps
<1>0. \A s \in SUBSET S : Cardinality(s) \in Nat /\ (Cardinality(s) = 0 <=> s = {})
  BY <1>h, FS_Subset, FS_CardinalityType, FS_EmptySet
<1>c. \A s \in SUBSET S : s # {} =>
        s \ {pick[s]} \in SUBSET S /\ Cardinality(s \ {pick[s]}) = Cardinality(s) - 1
  <2> TAKE s \in SUBSET S
  <2> HAVE s # {}
  <2>1. IsFiniteSet(s) /\ pick[s] \in s
    BY <1>h, FS_Subset
  <2> QED BY <2>1, FS_RemoveElement
<1>1. 0 \in P
  <2> DEFINE f == [s \in Small(0) |-> base]
  <2>1. \A s \in Small(0) : s = {}
    BY <1>0
  <2>2. f \in [Small(0) -> V] /\ Iter(f, 0)
    BY <1>h, <2>1
  <2> QED BY <2>2
<1>2. ASSUME NEW n \in Nat, n \in P PROVE n + 1 \in P
  <2>1. PICK f \in [Small(n) -> V] : Iter(f, n)
    BY <1>2
  <2> DEFINE g == [s \in Small(n + 1) |-> IF s = {} THEN base ELSE step[<<pick[s], f[s \ {pick[s]}]>>]]
  <2>2. ASSUME NEW s \in Small(n + 1), s # {} PROVE s \ {pick[s]} \in Small(n) /\ pick[s] \in S
    BY <1>h, <1>0, <1>c, <2>2
  <2>3. g \in [Small(n + 1) -> V]
    <3>1. ASSUME NEW s \in Small(n + 1) PROVE (IF s = {} THEN base ELSE step[<<pick[s], f[s \ {pick[s]}]>>]) \in V
      <4>1. CASE s = {}
        BY <1>h, <4>1
      <4>2. CASE s # {}
        <5>1. s \ {pick[s]} \in Small(n) /\ pick[s] \in S
          BY <2>2, <4>2
        <5>2. f[s \ {pick[s]}] \in V
          BY <5>1
        <5> QED BY <1>h, <4>2, <5>1, <5>2
      <4> QED BY <4>1, <4>2
    <3> QED BY <3>1
  <2>4. \A t \in Small(n) : t \in Small(n + 1) /\ g[t] = f[t]
    <3> TAKE t \in Small(n)
    <3>1. t \in Small(n + 1)
      BY <1>0
    <3> QED BY <2>1, <3>1
  <2>5. Iter(g, n + 1)
    <3> SUFFICES ASSUME NEW s \in Small(n + 1)
                 PROVE  g[s] = IF s = {} THEN base ELSE step[<<pick[s], g[s \ {pick[s]}]>>]
      OBVIOUS
    <3>1. CASE s = {}
      BY <3>1
    <3>2. CASE s # {}
      <4>1. g[s \ {pick[s]}] = f[s \ {pick[s]}]
        BY <2>2, <2>4, <3>2
      <4> HIDE DEF Small
      <4>2. g[s] = step[<<pick[s], f[s \ {pick[s]}]>>]
        BY <3>2
      <4> QED BY <3>2, <4>1, <4>2
    <3> QED BY <3>1, <3>2
  <2> HIDE DEF g, Small, Iter
  <2>6. n + 1 \in Nat /\ \E h \in [Small(n + 1) -> V] : Iter(h, n + 1)
    BY <2>3, <2>5
  <2> QED BY <2>6
<1> HIDE DEF P
<1>3. \A n \in Nat : n \in P
  BY <1>1, <1>2, Inductive
<1>4. PICK n \in Nat : n = Cardinality(S)
  BY <1>h, FS_CardinalityType
<1>5. Small(n) = SUBSET S
  <2>1. \A s \in SUBSET S : Cardinality(s) <= n
    BY <1>h, <1>4, FS_Subset
  <2> QED BY <2>1
<1>6. \E f \in [Small(n) -> V] : Iter(f, n)
  <2>1. n \in P
    BY <1>3
  <2> QED BY <2>1 DEF P
<1>7. PICK f \in [Small(n) -> V] : Iter(f, n)
  BY <1>6
<1>8. IsIter(f, S, pick, V, base, step)
  BY <1>5, <1>7 DEF IsIter
<1> QED BY <1>8

-----------------------------------------------------------------------------
(* Sums of sequences *)

LEMMA MaxOfPrefix ==
  ASSUME NEW k \in Nat, k # 0
  PROVE  Max(1..k) = k /\ (1..k) \ {k} = 1..(k - 1) /\ 1..k # {} /\ k \in 1..k
<1>1. k \in 1..k /\ \A y \in 1..k : k >= y
  OBVIOUS
<1>2. \A x \in 1..k : (\A y \in 1..k : x >= y) => x = k
  BY <1>1
<1>3. Max(1..k) = k
  BY <1>1, <1>2 DEF Max
<1> QED BY <1>1, <1>3

LEMMA MaxOfPart ==
  ASSUME NEW n \in Nat, NEW s \in SUBSET (1..n), s # {}
  PROVE  Max(s) \in s /\ \A y \in s : y <= Max(s)
<1> DEFINE I == {m \in Nat : \A y \in s : y <= m}
<1>1. n \in I /\ I \subseteq Nat
  OBVIOUS
<1> HIDE DEF I
<1>2. Min(I) \in I /\ \A y \in I : Min(I) <= y
  BY <1>1, MinOfNaturals
<1>3. PICK m \in Nat : m = Min(I) /\ m \in I /\ \A y \in I : m <= y
  BY <1>1, <1>2
<1>4. \A y \in s : y <= m
  BY <1>3 DEF I
<1>5. m \in s
  <2> SUFFICES ASSUME m \notin s PROVE FALSE
    OBVIOUS
  <2>1. \A y \in s : y \in Nat /\ y # 0 /\ y <= m - 1
    BY <1>4
  <2>2. m - 1 \in Nat
    <3>1. PICK y \in s : y \in s
      OBVIOUS
    <3> QED BY <2>1, <3>1
  <2>3. m - 1 \in I
    BY <2>1, <2>2 DEF I
  <2> QED BY <1>3, <2>2, <2>3
<1>6. \E x \in s : \A y \in s : x >= y
  BY <1>4, <1>5
<1> QED BY <1>6 DEF Max

SumAll(s) == FoldLeft(+, 0, s)

\* f has the sums of the prefixes of s.
Sums(f, s) == f \in [0..Len(s) -> Int] /\ f[0] = 0 /\ \A k \in 1..Len(s) : f[k] = f[k - 1] + s[k]

LEMMA SumsExist ==
  ASSUME NEW s \in Seq(Int)
  PROVE  \E f : Sums(f, s) /\ SumAll(s) = f[Len(s)]
<1> DEFINE S == DOMAIN s
           Eq(iter) == iter = [t \in SUBSET S |-> IF t = {} THEN 0 ELSE iter[t \ {Max(t)}] + s[Max(t)]]
           iter == CHOOSE iter : Eq(iter)
<1>1. SumAll(s) = iter[S]
  BY DEF SumAll, FoldLeft, MapThenFoldSet
<1>2. PICK n \in Nat : n = Len(s)
  BY LenProperties
<1>3. S = 1..n /\ \A i \in 1..n : s[i] \in Int
  BY <1>2, LenProperties, ElementOfSeq
<1> HIDE DEF S
<1>4. \E g \in [SUBSET S -> Int] : Eq(g)
  <2> DEFINE pick == [t \in SUBSET S |-> Max(t)]
             step == [p \in S \X Int |-> p[2] + s[p[1]]]
  <2>1. IsFiniteSet(S)
    BY <1>3, FS_Interval
  <2>2. \A t \in SUBSET S : t # {} => pick[t] \in t
    BY <1>3, MaxOfPart
  <2>3. \A x \in S, v \in Int : step[<<x, v>>] = v + s[x] /\ step[<<x, v>>] \in Int
    BY <1>3
  <2>p. \A t \in SUBSET S : pick[t] = Max(t)
    OBVIOUS
  <2> HIDE DEF pick, step
  <2>4. PICK g \in [SUBSET S -> Int] :
          \A t \in SUBSET S : g[t] = IF t = {} THEN 0 ELSE step[<<pick[t], g[t \ {pick[t]}]>>]
    <3>1. Steps(S, pick, Int, 0, step)
      BY <2>1, <2>2, <2>3 DEF Steps
    <3>2. \E g : IsIter(g, S, pick, Int, 0, step)
      BY <3>1, IterExists
    <3> QED BY <3>2 DEF IsIter
  <2>5. \A t \in SUBSET S : g[t] = IF t = {} THEN 0 ELSE g[t \ {Max(t)}] + s[Max(t)]
    <3> TAKE t \in SUBSET S
    <3>1. CASE t = {}
      BY <2>4, <3>1
    <3>2. CASE t # {}
      <4>1. pick[t] \in S /\ t \ {pick[t]} \in SUBSET S /\ pick[t] = Max(t)
        BY <2>2, <2>p, <3>2
      <4>2. g[t \ {pick[t]}] \in Int
        BY <4>1
      <4>3. g[t] = step[<<pick[t], g[t \ {pick[t]}]>>]
        BY <2>4, <3>2
      <4> QED BY <2>3, <3>2, <4>1, <4>2, <4>3
    <3> QED BY <3>1, <3>2
  <2>6. g = [t \in SUBSET S |-> IF t = {} THEN 0 ELSE g[t \ {Max(t)}] + s[Max(t)]]
    BY <2>5
  <2> QED BY <2>6
<1>5. Eq(iter)
  <2>1. \E g : Eq(g)
    BY <1>4
  <2> HIDE DEF Eq
  <2> QED BY <2>1, Zenon
<1> HIDE DEF iter
<1>6. iter[{}] = 0
  BY <1>5
<1>7. \A k \in 1..n : iter[1..k] = iter[1..(k - 1)] + s[k]
  <2> TAKE k \in 1..n
  <2>1. 1..k \in SUBSET S /\ k \in Nat /\ k # 0
    BY <1>3
  <2> QED BY <1>5, <2>1, MaxOfPrefix
<1> DEFINE f == [k \in 0..n |-> iter[1..k]]
<1>8. f[0] = 0 /\ f[n] = iter[S] /\ \A k \in 1..n : f[k] = f[k - 1] + s[k]
  <2>1. 1..0 = {}
    OBVIOUS
  <2>2. 0 \in 0..n /\ n \in 0..n /\ \A k \in 1..n : k \in 0..n /\ k - 1 \in 0..n
    OBVIOUS
  <2> QED BY <1>3, <1>6, <1>7, <2>1, <2>2
<1> HIDE DEF f
<1>9. \A k \in 0..n : k \in {j \in 0..n : f[j] \in Int}
  <2> DEFINE P == {j \in 0..n : f[j] \in Int}
  <2>1. 0 \in P
    BY <1>8
  <2>2. ASSUME NEW k \in 0..(n - 1), k \in P PROVE k + 1 \in P
    <3>1. k + 1 \in 1..n /\ (k + 1) - 1 = k /\ k + 1 \in 0..n
      OBVIOUS
    <3>2. f[k + 1] = f[k] + s[k + 1] /\ s[k + 1] \in Int
      BY <1>3, <1>8, <3>1
    <3> QED BY <2>2, <3>1, <3>2
  <2> HIDE DEF P
  <2>3. \A k \in 0..n : k \in P
    BY <2>1, <2>2, InductiveUpto
  <2> QED BY <2>3 DEF P
<1>10. f \in [0..n -> Int]
  <2>1. f = [k \in 0..n |-> f[k]]
    BY DEF f
  <2> QED BY <1>9, <2>1
<1> QED BY <1>1, <1>2, <1>8, <1>10 DEF Sums

\* The sums depend on the elements only.
LEMMA SumsAgree ==
  ASSUME NEW f, NEW s, Sums(f, s), NEW g, NEW t, Sums(g, t), NEW m \in Nat, m <= Len(s), m <= Len(t),
         Len(s) \in Nat, Len(t) \in Nat, \A k \in 1..m : s[k] = t[k]
  PROVE  f[m] = g[m]
<1> DEFINE P == {k \in 0..m : f[k] = g[k]}
<1>1. 0 \in P
  BY DEF Sums
<1>2. ASSUME NEW k \in 0..(m - 1), k \in P PROVE k + 1 \in P
  <2>1. k + 1 \in 1..Len(s) /\ k + 1 \in 1..Len(t) /\ k + 1 \in 1..m /\ (k + 1) - 1 = k /\ k + 1 \in 0..m
    OBVIOUS
  <2>2. f[k + 1] = f[k] + s[k + 1] /\ g[k + 1] = g[k] + t[k + 1] /\ s[k + 1] = t[k + 1] /\ f[k] = g[k]
    BY <1>2, <2>1 DEF Sums
  <2> QED BY <2>1, <2>2
<1> HIDE DEF P
<1>3. \A k \in 0..m : k \in P
  BY <1>1, <1>2, InductiveUpto
<1>4. m \in P
  BY <1>3
<1> QED BY <1>4 DEF P

\* The sum of a sequence that is described by the sums of its prefixes.
LEMMA SumIs ==
  ASSUME NEW s \in Seq(Int), NEW f, Sums(f, s)
  PROVE  SumAll(s) = f[Len(s)]
<1>1. PICK g : Sums(g, s) /\ SumAll(s) = g[Len(s)]
  BY SumsExist
<1>2. Len(s) \in Nat
  BY LenProperties
<1>3. g[Len(s)] = f[Len(s)]
  <2>1. PICK m \in Nat : m = Len(s)
    BY <1>2
  <2>2. g[m] = f[m]
    <3>1. m <= Len(s) /\ \A k \in 1..m : s[k] = s[k]
      BY <1>2, <2>1
    <3> QED BY <1>1, <1>2, <3>1, SumsAgree, Zenon
  <2> QED BY <2>1, <2>2
<1> QED BY <1>1, <1>3

-----------------------------------------------------------------------------
(* Sums over finite sets *)

\* The sums of the prefixes of a sequence of lengths.
LEMMA PrefixSums ==
  ASSUME NEW s \in Seq(Nat)
  PROVE  \E f : /\ Sums(f, s) /\ SumAll(s) = f[Len(s)]
                /\ \A i \in 0..Len(s) : f[i] \in Nat /\ SumAll(SubSeq(s, 1, i)) = f[i]
                /\ \A i \in 1..Len(s) : f[i - 1] <= f[i]
<1>1. PICK n \in Nat : n = Len(s)
  BY LenProperties
<1>2. \A i \in 1..n : s[i] \in Nat
  BY <1>1, ElementOfSeq
<1>3. s \in Seq(Int)
  <2>1. s = [i \in 1..n |-> s[i]]
    BY <1>1, LenProperties
  <2>2. s \in [1..n -> Int]
    BY <1>2, <2>1
  <2> QED BY <2>2, SeqDef
<1>4. PICK f : Sums(f, s) /\ SumAll(s) = f[Len(s)]
  BY <1>3, SumsExist
<1>5. f[0] = 0 /\ \A k \in 1..n : f[k] = f[k - 1] + s[k]
  BY <1>1, <1>4 DEF Sums
<1> DEFINE P == {k \in 0..n : f[k] \in Nat}
<1>6. \A k \in 0..n : f[k] \in Nat
  <2>1. 0 \in P
    BY <1>5
  <2>2. ASSUME NEW k \in 0..(n - 1), k \in P PROVE k + 1 \in P
    <3>1. k + 1 \in 1..n /\ k + 1 \in 0..n /\ (k + 1) - 1 = k
      OBVIOUS
    <3>2. f[k + 1] = f[k] + s[k + 1] /\ s[k + 1] \in Nat
      BY <1>2, <1>5, <3>1
    <3> QED BY <2>2, <3>1, <3>2
  <2> HIDE DEF P
  <2>3. \A k \in 0..n : k \in P
    BY <2>1, <2>2, InductiveUpto
  <2> QED BY <2>3 DEF P
<1>7. ASSUME NEW k \in 1..n PROVE f[k - 1] <= f[k]
  <2>1. k - 1 \in 0..n /\ f[k - 1] \in Nat /\ s[k] \in Nat /\ f[k] = f[k - 1] + s[k]
    BY <1>2, <1>5, <1>6
  <2> QED BY <2>1
<1>8. ASSUME NEW i \in 0..n PROVE SumAll(SubSeq(s, 1, i)) = f[i]
  <2> DEFINE t == SubSeq(s, 1, i)
             g == [k \in 0..i |-> f[k]]
  <2>1. \A k \in 1..i : s[k] \in Int
    BY <1>2
  <2>2. t \in Seq(Int) /\ Len(t) = i /\ \A k \in 1..i : t[k] = s[k]
    <3>1. /\ t \in Seq(Int) /\ Len(t) = IF 1 <= i THEN i - 1 + 1 ELSE 0
          /\ \A k \in 1..(i - 1 + 1) : t[k] = s[1 + k - 1]
      BY <2>1, SubSeqProperties
    <3> HIDE DEF t
    <3>2. Len(t) = i
      BY <3>1
    <3>3. \A k \in 1..i : k \in 1..(i - 1 + 1) /\ 1 + k - 1 = k
      OBVIOUS
    <3> QED BY <3>1, <3>2, <3>3
  <2> HIDE DEF t
  <2>3. Sums(g, t)
    <3>1. g \in [0..i -> Int] /\ g[0] = 0
      BY <1>5, <1>6
    <3>2. ASSUME NEW k \in 1..i PROVE g[k] = g[k - 1] + t[k]
      <4>1. k \in 0..i /\ k - 1 \in 0..i /\ k \in 1..n
        OBVIOUS
      <4> QED BY <1>5, <2>2, <4>1
    <3> HIDE DEF g
    <3> QED BY <2>2, <3>1, <3>2 DEF Sums
  <2>4. SumAll(t) = g[Len(t)]
    BY <2>2, <2>3, SumIs
  <2>5. g[Len(t)] = f[i]
    BY <2>2
  <2> QED BY <2>4, <2>5 DEF t
<1> QED BY <1>1, <1>4, <1>6, <1>7, <1>8

SumOver(f, S) == MapThenSumSet(LAMBDA x : f[x], S)

\* g has the sums of f over the subsets of S.
Weights(g, f, S) ==
  /\ g \in [SUBSET S -> Nat] /\ g[{}] = 0
  /\ \A T \in SUBSET S : \A x \in T : g[T] = g[T \ {x}] + f[x]

LEMMA WeightsExist ==
  ASSUME NEW S, IsFiniteSet(S), NEW f \in [S -> Nat]
  PROVE  \E g : Weights(g, f, S) /\ SumOver(f, S) = g[S]
<1> DEFINE Eq(iter) == iter = [t \in SUBSET S |-> IF t = {} THEN 0
                                                  ELSE f[CHOOSE x \in t : TRUE] + iter[t \ {CHOOSE x \in t : TRUE}]]
           iter == CHOOSE iter : Eq(iter)
<1>1. SumOver(f, S) = iter[S]
  BY DEF SumOver, MapThenSumSet, MapThenFoldSet
<1>2. \E g \in [SUBSET S -> Nat] : Eq(g)
  <2> DEFINE pick == [t \in SUBSET S |-> CHOOSE x \in t : TRUE]
             step == [p \in S \X Nat |-> f[p[1]] + p[2]]
  <2>1. \A t \in SUBSET S : pick[t] = (CHOOSE x \in t : TRUE) /\ (t # {} => pick[t] \in t)
    OBVIOUS
  <2>2. \A x \in S, v \in Nat : step[<<x, v>>] = f[x] + v /\ step[<<x, v>>] \in Nat
    OBVIOUS
  <2> HIDE DEF pick, step
  <2>3. PICK g : IsIter(g, S, pick, Nat, 0, step)
    <3>1. Steps(S, pick, Nat, 0, step)
      BY <2>1, <2>2 DEF Steps
    <3> QED BY <3>1, IterExists
  <2>4. g \in [SUBSET S -> Nat] /\ \A t \in SUBSET S : g[t] = IF t = {} THEN 0 ELSE step[<<pick[t], g[t \ {pick[t]}]>>]
    BY <2>3 DEF IsIter
  <2>5. ASSUME NEW t \in SUBSET S, t # {}
        PROVE  g[t] = f[CHOOSE x \in t : TRUE] + g[t \ {CHOOSE x \in t : TRUE}]
    <3>1. PICK p : p = pick[t]
      OBVIOUS
    <3>2. p \in S /\ t \ {p} \in SUBSET S /\ p = CHOOSE x \in t : TRUE
      BY <2>1, <2>5, <3>1
    <3>3. g[t \ {p}] \in Nat
      BY <2>4, <3>2
    <3>4. g[t] = step[<<p, g[t \ {p}]>>]
      BY <2>4, <2>5, <3>1
    <3>5. g[t] = f[p] + g[t \ {p}]
      BY <2>2, <3>2, <3>3, <3>4
    <3> QED BY <3>2, <3>5
  <2>6. g = [t \in SUBSET S |-> IF t = {} THEN 0
                                ELSE f[CHOOSE x \in t : TRUE] + g[t \ {CHOOSE x \in t : TRUE}]]
    BY <2>4, <2>5
  <2> QED BY <2>4, <2>6
<1>3. \E g : Eq(g)
  BY <1>2
<1>4. Eq(iter)
  <2> HIDE DEF Eq
  <2> QED BY <1>3, Zenon
<1>5. PICK g \in [SUBSET S -> Nat] : Eq(g)
  BY <1>2
<1> DEFINE Small(n) == {t \in SUBSET S : Cardinality(t) = n}
           Same(n) == \A t \in Small(n) : iter[t] = g[t]
           Each(n) == \A t \in Small(n) : \A x \in t : g[t] = g[t \ {x}] + f[x]
           P == {n \in Nat : Same(n) /\ Each(n)}
<1> HIDE DEF iter
<1>6. ASSUME NEW t \in SUBSET S
      PROVE  /\ Cardinality(t) \in Nat /\ (Cardinality(t) = 0 <=> t = {})
             /\ \A x \in t : t \ {x} \in SUBSET S /\ Cardinality(t \ {x}) = Cardinality(t) - 1
  <2>1. IsFiniteSet(t)
    BY FS_Subset
  <2>2. \A x \in t : Cardinality(t \ {x}) = Cardinality(t) - 1
    BY <2>1, FS_RemoveElement
  <2> QED BY <2>1, <2>2, FS_CardinalityType, FS_EmptySet
<1>7. 0 \in P
  <2>1. \A t \in Small(0) : t = {}
    BY <1>6
  <2>2. iter[{}] = 0 /\ g[{}] = 0
    BY <1>4, <1>5
  <2> QED BY <2>1, <2>2
<1>8. ASSUME NEW n \in Nat, n \in P PROVE n + 1 \in P
  <2>1. Same(n) /\ Each(n)
    BY <1>8
  <2>2. ASSUME NEW t \in Small(n + 1)
        PROVE  iter[t] = g[t] /\ \A x \in t : g[t] = g[t \ {x}] + f[x]
    <3>1. t \in SUBSET S /\ Cardinality(t) = n + 1
      OBVIOUS
    <3>2. t # {} /\ \A x \in t : t \ {x} \in Small(n)
      <4>1. n + 1 # 0 /\ (n + 1) - 1 = n
        OBVIOUS
      <4> QED BY <1>6, <3>1, <4>1
    <3>3. PICK p \in t : p = CHOOSE x \in t : TRUE
      BY <3>2
    <3>4. iter[t] = f[p] + iter[t \ {p}] /\ g[t] = f[p] + g[t \ {p}]
      BY <1>4, <1>5, <3>1, <3>2, <3>3, ZenonT(60)
    <3>5. iter[t \ {p}] = g[t \ {p}]
      BY <2>1, <3>2, <3>3
    <3>6. ASSUME NEW x \in t PROVE g[t] = g[t \ {x}] + f[x]
      <4>1. g[t \ {p}] \in Nat /\ f[p] \in Nat /\ f[x] \in Nat /\ g[(t \ {p}) \ {x}] \in Nat
        <5>1. t \ {p} \in SUBSET S /\ p \in S /\ x \in S /\ (t \ {p}) \ {x} \in SUBSET S
          BY <3>1, <3>3
        <5> QED BY <1>5, <5>1
      <4>2. CASE x = p
        BY <3>4, <4>1, <4>2
      <4>3. CASE x # p
        <5>1. g[t \ {p}] = g[(t \ {p}) \ {x}] + f[x]
          <6>1. x \in t \ {p} /\ t \ {p} \in Small(n)
            BY <3>2, <3>3, <4>3
          <6> QED BY <2>1, <6>1
        <5>2. g[t \ {x}] = g[(t \ {x}) \ {p}] + f[p]
          <6>1. p \in t \ {x} /\ t \ {x} \in Small(n)
            BY <3>2, <3>3, <4>3
          <6> QED BY <2>1, <6>1
        <5>3. (t \ {x}) \ {p} = (t \ {p}) \ {x}
          OBVIOUS
        <5>4. PICK a \in Nat : a = g[(t \ {p}) \ {x}]
          BY <4>1
        <5>5. g[t \ {p}] = a + f[x] /\ g[t \ {x}] = a + f[p] /\ g[t] = f[p] + g[t \ {p}]
          BY <3>4, <5>1, <5>2, <5>3, <5>4
        <5> QED BY <4>1, <5>5
      <4> QED BY <4>2, <4>3
    <3> QED BY <3>4, <3>5, <3>6
  <2> HIDE DEF Small
  <2>3. Same(n + 1) /\ Each(n + 1)
    BY <2>2
  <2> HIDE DEF Same, Each
  <2> QED BY <2>3
<1> HIDE DEF P
<1>9. \A n \in Nat : n \in P
  BY <1>7, <1>8, Inductive
<1>10. ASSUME NEW t \in SUBSET S PROVE iter[t] = g[t] /\ \A x \in t : g[t] = g[t \ {x}] + f[x]
  <2>1. PICK n \in Nat : n = Cardinality(t)
    BY <1>6
  <2>2. n \in P /\ t \in Small(n)
    BY <1>9, <2>1
  <2> QED BY <2>2 DEF P
<1>11. g[{}] = 0
  BY <1>5
<1>12. Weights(g, f, S)
  BY <1>10, <1>11 DEF Weights
<1>13. iter[S] = g[S]
  BY <1>10
<1> QED BY <1>1, <1>12, <1>13

\* The sums over the subsets are the only ones.
LEMMA WeightsUnique ==
  ASSUME NEW S, IsFiniteSet(S), NEW f, NEW g, NEW h, Weights(g, f, S), Weights(h, f, S)
  PROVE  g = h
<1> DEFINE P == {n \in Nat : \A t \in SUBSET S : Cardinality(t) = n => g[t] = h[t]}
<1>1. /\ g \in [SUBSET S -> Nat] /\ g[{}] = 0 /\ \A T \in SUBSET S : \A x \in T : g[T] = g[T \ {x}] + f[x]
      /\ h \in [SUBSET S -> Nat] /\ h[{}] = 0 /\ \A T \in SUBSET S : \A x \in T : h[T] = h[T \ {x}] + f[x]
  BY DEF Weights
<1>2. ASSUME NEW t \in SUBSET S
      PROVE  /\ Cardinality(t) \in Nat /\ (Cardinality(t) = 0 <=> t = {})
             /\ \A x \in t : t \ {x} \in SUBSET S /\ Cardinality(t \ {x}) = Cardinality(t) - 1
  <2>1. IsFiniteSet(t)
    BY FS_Subset
  <2>2. \A x \in t : Cardinality(t \ {x}) = Cardinality(t) - 1
    BY <2>1, FS_RemoveElement
  <2> QED BY <2>1, <2>2, FS_CardinalityType, FS_EmptySet
<1>3. 0 \in P
  BY <1>1, <1>2
<1>4. ASSUME NEW n \in Nat, n \in P PROVE n + 1 \in P
  <2>1. ASSUME NEW t \in SUBSET S, Cardinality(t) = n + 1 PROVE g[t] = h[t]
    <3>1. t # {} /\ (n + 1) - 1 = n
      BY <1>2, <2>1
    <3>2. PICK x \in t : TRUE
      BY <3>1
    <3>3. t \ {x} \in SUBSET S /\ Cardinality(t \ {x}) = n
      BY <1>2, <2>1, <3>1, <3>2
    <3>4. g[t \ {x}] = h[t \ {x}]
      BY <1>4, <3>3
    <3> QED BY <1>1, <3>2, <3>4
  <2> QED BY <2>1
<1> HIDE DEF P
<1>5. \A n \in Nat : n \in P
  BY <1>3, <1>4, Inductive
<1>6. \A t \in SUBSET S : g[t] = h[t]
  BY <1>2, <1>5 DEF P
<1> QED BY <1>1, <1>6

\* A sum grows with its set, by what the added elements weigh.
LEMMA WeightsGrow ==
  ASSUME NEW S, IsFiniteSet(S), NEW f \in [S -> Nat], NEW g, Weights(g, f, S), NEW U \in SUBSET S, NEW T \in SUBSET U
  PROVE  g[T] <= g[U] /\ ((\A x \in U \ T : f[x] = 0) => g[T] = g[U])
<1> DEFINE Holds(u) == g[T] <= g[u] /\ ((\A x \in u \ T : f[x] = 0) => g[T] = g[u])
           P == {n \in Nat : \A u \in SUBSET U : T \subseteq u /\ Cardinality(u \ T) = n => Holds(u)}
<1>1. g \in [SUBSET S -> Nat] /\ \A u \in SUBSET S : \A x \in u : g[u] = g[u \ {x}] + f[x]
  BY DEF Weights
<1>2. ASSUME NEW u \in SUBSET U
      PROVE  /\ Cardinality(u \ T) \in Nat /\ (Cardinality(u \ T) = 0 <=> u \ T = {})
             /\ \A x \in u \ T : Cardinality((u \ {x}) \ T) = Cardinality(u \ T) - 1
  <2>1. IsFiniteSet(u \ T)
    BY FS_Subset
  <2>2. \A x \in u \ T : Cardinality((u \ T) \ {x}) = Cardinality(u \ T) - 1
    BY <2>1, FS_RemoveElement
  <2>3. \A x : (u \ T) \ {x} = (u \ {x}) \ T
    OBVIOUS
  <2> QED BY <2>1, <2>2, <2>3, FS_CardinalityType, FS_EmptySet
<1>3. 0 \in P
  <2>1. ASSUME NEW u \in SUBSET U, T \subseteq u, Cardinality(u \ T) = 0 PROVE Holds(u)
    <3>1. u = T
      BY <1>2, <2>1
    <3>2. g[T] \in Nat
      BY <1>1
    <3> QED BY <3>1, <3>2
  <2> HIDE DEF Holds
  <2> QED BY <2>1
<1>4. ASSUME NEW n \in Nat, n \in P PROVE n + 1 \in P
  <2>1. ASSUME NEW u \in SUBSET U, T \subseteq u, Cardinality(u \ T) = n + 1 PROVE Holds(u)
    <3>1. u \ T # {} /\ (n + 1) - 1 = n
      BY <1>2, <2>1
    <3>2. PICK x \in u \ T : TRUE
      BY <3>1
    <3>3. u \ {x} \in SUBSET U /\ T \subseteq u \ {x} /\ Cardinality((u \ {x}) \ T) = n
      BY <1>2, <2>1, <3>1, <3>2
    <3>4. Holds(u \ {x})
      <4> HIDE DEF Holds
      <4> QED BY <1>4, <3>3
    <3>5. g[T] \in Nat /\ g[u] \in Nat /\ g[u \ {x}] \in Nat /\ f[x] \in Nat /\ g[u] = g[u \ {x}] + f[x]
      <4>1. u \in SUBSET S /\ u \ {x} \in SUBSET S /\ x \in u /\ T \in SUBSET S /\ x \in S
        BY <3>2
      <4> QED BY <1>1, <4>1
    <3>6. g[T] <= g[u]
      BY <3>4, <3>5
    <3>7. ASSUME \A y \in u \ T : f[y] = 0 PROVE g[T] = g[u]
      <4>1. f[x] = 0 /\ \A y \in (u \ {x}) \ T : f[y] = 0
        BY <3>2, <3>7
      <4>2. g[T] = g[u \ {x}]
        BY <3>4, <4>1
      <4> QED BY <3>5, <4>1, <4>2
    <3> QED BY <3>6, <3>7
  <2> HIDE DEF Holds
  <2> QED BY <2>1
<1> HIDE DEF P
<1>5. \A n \in Nat : n \in P
  BY <1>3, <1>4, Inductive
<1>6. Holds(U)
  <2> HIDE DEF Holds
  <2> QED BY <1>2, <1>5 DEF P
<1> QED BY <1>6

\* What changes when one element weighs more or less.
Reweighed(h, k, g, x, S) ==
  /\ Weights(h, k, S)
  /\ \A T \in SUBSET S : h[T] = IF x \in T THEN g[T \ {x}] + k[x] ELSE g[T]

LEMMA WeightsChange ==
  ASSUME NEW S, NEW f \in [S -> Nat], NEW g, Weights(g, f, S), NEW k \in [S -> Nat], NEW x \in S,
         \A y \in S : y # x => k[y] = f[y]
  PROVE  \E h : Reweighed(h, k, g, x, S)
<1> DEFINE h == [T \in SUBSET S |-> IF x \in T THEN g[T \ {x}] + k[x] ELSE g[T]]
<1>1. g \in [SUBSET S -> Nat] /\ g[{}] = 0 /\ \A T \in SUBSET S : \A y \in T : g[T] = g[T \ {y}] + f[y]
  BY DEF Weights
<1>2. \A T \in SUBSET S : h[T] = IF x \in T THEN g[T \ {x}] + k[x] ELSE g[T]
  OBVIOUS
<1>3. h \in [SUBSET S -> Nat]
  <2>1. \A T \in SUBSET S : g[T \ {x}] \in Nat /\ k[x] \in Nat /\ g[T] \in Nat
    BY <1>1
  <2> QED BY <2>1
<1> HIDE DEF h
<1>4. ASSUME NEW T \in SUBSET S, NEW y \in T PROVE h[T] = h[T \ {y}] + k[y]
  <2>1. T \ {y} \in SUBSET S /\ T \ {x} \in SUBSET S /\ (T \ {x}) \ {y} \in SUBSET S /\ (T \ {x}) \ {y} = (T \ {y}) \ {x}
    OBVIOUS
  <2>2. CASE y = x
    <3>1. h[T] = g[T \ {x}] + k[x] /\ h[T \ {y}] = g[T \ {y}]
      BY <1>2, <2>1, <2>2
    <3> QED BY <2>2, <3>1
  <2>3. CASE y # x /\ x \in T
    <3>1. h[T] = g[T \ {x}] + k[x] /\ h[T \ {y}] = g[(T \ {y}) \ {x}] + k[x]
      BY <1>2, <2>1, <2>3
    <3>2. g[T \ {x}] = g[(T \ {x}) \ {y}] + k[y]
      BY <1>1, <2>1, <2>3
    <3>3. PICK a \in Nat : a = g[(T \ {y}) \ {x}]
      BY <1>1, <2>1
    <3>4. h[T] = (a + k[y]) + k[x] /\ h[T \ {y}] = a + k[x] /\ k[x] \in Nat /\ k[y] \in Nat
      BY <2>1, <3>1, <3>2, <3>3
    <3> QED BY <3>4
  <2>4. CASE y # x /\ x \notin T
    <3>1. h[T] = g[T] /\ h[T \ {y}] = g[T \ {y}] /\ k[y] = f[y]
      BY <1>2, <2>1, <2>4
    <3> QED BY <1>1, <3>1
  <2> QED BY <2>2, <2>3, <2>4
<1>5. h[{}] = 0
  BY <1>1, <1>2
<1>6. Weights(h, k, S)
  BY <1>3, <1>4, <1>5 DEF Weights
<1> QED BY <1>2, <1>6 DEF Reweighed

-----------------------------------------------------------------------------
(* Flattened sequences *)

\* Values for 0..n, each one made from the one before.
Chain(f, n, V, base, step) ==
  f \in [0..n -> V] /\ f[0] = base /\ \A k \in 1..n : f[k] = step[<<k, f[k - 1]>>]

LEMMA ChainExists ==
  ASSUME NEW n \in Nat, NEW V, NEW base \in V, NEW step, \A k \in 1..n, v \in V : step[<<k, v>>] \in V
  PROVE  \E f : Chain(f, n, V, base, step)
<1> DEFINE S == 1..n
           pick == [t \in SUBSET S |-> Max(t)]
<1>1. Steps(S, pick, V, base, step)
  <2>1. IsFiniteSet(S)
    BY FS_Interval
  <2>2. \A t \in SUBSET S : t # {} => pick[t] \in t
    BY MaxOfPart
  <2> QED BY <2>1, <2>2 DEF Steps
<1>2. \A t \in SUBSET S : pick[t] = Max(t)
  OBVIOUS
<1> HIDE DEF pick
<1>3. PICK iter : IsIter(iter, S, pick, V, base, step)
  BY <1>1, IterExists
<1> DEFINE f == [k \in 0..n |-> iter[1..k]]
<1>4. f \in [0..n -> V]
  <2>1. \A k \in 0..n : 1..k \in SUBSET S
    OBVIOUS
  <2> QED BY <1>3, <2>1 DEF IsIter
<1>5. f[0] = base
  <2>1. 1..0 = {} /\ 0 \in 0..n
    OBVIOUS
  <2>2. iter[{}] = base
    BY <1>3 DEF IsIter
  <2> QED BY <2>1, <2>2
<1>6. ASSUME NEW k \in 1..n PROVE f[k] = step[<<k, f[k - 1]>>]
  <2>1. 1..k \in SUBSET S /\ k \in Nat /\ k # 0 /\ k \in 0..n /\ k - 1 \in 0..n
    OBVIOUS
  <2>2. pick[1..k] = k /\ (1..k) \ {k} = 1..(k - 1) /\ 1..k # {}
    BY <1>2, <2>1, MaxOfPrefix
  <2>3. iter[1..k] = step[<<k, iter[1..(k - 1)]>>]
    BY <1>3, <2>1, <2>2 DEF IsIter
  <2> QED BY <2>1, <2>3
<1>7. Chain(f, n, V, base, step)
  BY <1>4, <1>5, <1>6 DEF Chain
<1> QED BY <1>7

\* f has the first elements of ss, joined.
Joined(f, ss, S) ==
  f \in [0..Len(ss) -> Seq(S)] /\ f[0] = <<>> /\ \A k \in 1..Len(ss) : f[k] = f[k - 1] \o ss[k]

LEMMA JoinsExist ==
  ASSUME NEW S, NEW ss \in Seq(Seq(S))
  PROVE  \E f : Joined(f, ss, S) /\ FlattenSeq(ss) = f[Len(ss)]
<1>1. PICK n \in Nat : n = Len(ss)
  BY LenProperties
<1>2. \A k \in 1..n : ss[k] \in Seq(S)
  BY <1>1, ElementOfSeq
<1> DEFINE step == [p \in (1..n) \X Seq(S) |-> p[2] \o ss[p[1]]]
<1>3. \A k \in 1..n, v \in Seq(S) : step[<<k, v>>] = v \o ss[k] /\ step[<<k, v>>] \in Seq(S)
  BY <1>2, ConcatProperties
<1>4. <<>> \in Seq(S)
  BY EmptySeq
<1> HIDE DEF step
<1>5. PICK f : Chain(f, n, Seq(S), <<>>, step)
  BY <1>3, <1>4, ChainExists
<1>6. f \in [0..n -> Seq(S)] /\ f[0] = <<>> /\ \A k \in 1..n : f[k] = f[k - 1] \o ss[k]
  <2>1. \A k \in 1..n : f[k - 1] \in Seq(S)
    BY <1>5 DEF Chain
  <2> QED BY <1>3, <1>5, <2>1 DEF Chain
<1>7. Joined(f, ss, S)
  BY <1>1, <1>6 DEF Joined
<1>8. CASE n = 0
  <2>1. ss = <<>>
    BY <1>1, <1>8, EmptySeq
  <2>2. FlattenSeq(ss) = ss
    BY <1>1, <1>8 DEF FlattenSeq
  <2>3. FlattenSeq(ss) = f[n]
    BY <1>6, <1>8, <2>1, <2>2
  <2> QED BY <1>1, <1>7, <2>3
<1>9. CASE n # 0
  <2> DEFINE Eq(g) == g = [i \in 1..n |-> IF i = 1 THEN ss[i] ELSE g[i - 1] \o ss[i]]
             g == CHOOSE g : Eq(g)
             h == [i \in 1..n |-> f[i]]
  <2>1. FlattenSeq(ss) = g[n]
    BY <1>1, <1>9 DEF FlattenSeq
  <2>2. Eq(h)
    <3>1. ASSUME NEW i \in 1..n PROVE f[i] = IF i = 1 THEN ss[i] ELSE h[i - 1] \o ss[i]
      <4>1. CASE i = 1
        <5>1. i - 1 = 0
          BY <4>1
        <5>2. f[i] = <<>> \o ss[i]
          BY <1>6, <5>1
        <5>3. <<>> \o ss[i] = ss[i]
          BY <1>2, ConcatEmptySeq
        <5> QED BY <4>1, <5>2, <5>3
      <4>2. CASE i # 1
        <5>1. i - 1 \in 1..n
          BY <4>2
        <5> QED BY <1>6, <4>2, <5>1
      <4> QED BY <4>1, <4>2
    <3> QED BY <3>1
  <2>3. Eq(g)
    <3>1. \E x : Eq(x)
      BY <2>2
    <3> HIDE DEF Eq
    <3> QED BY <3>1, Zenon
  <2> HIDE DEF g
  <2> DEFINE P == {k \in 0..n : k # 0 => g[k] = f[k]}
  <2>4. 0 \in P
    OBVIOUS
  <2>5. ASSUME NEW k \in 0..(n - 1), k \in P PROVE k + 1 \in P
    <3>1. k + 1 \in 1..n /\ (k + 1) - 1 = k
      OBVIOUS
    <3>2. g[k + 1] = IF k + 1 = 1 THEN ss[k + 1] ELSE g[k] \o ss[k + 1]
      BY <2>3, <3>1
    <3>3. h[k + 1] = IF k + 1 = 1 THEN ss[k + 1] ELSE h[k] \o ss[k + 1]
      BY <2>2, <3>1
    <3>4. k # 0 => h[k] = g[k]
      BY <2>5
    <3>5. g[k + 1] = f[k + 1]
      BY <3>1, <3>2, <3>3, <3>4
    <3> QED BY <3>1, <3>5
  <2> HIDE DEF P
  <2>6. \A k \in 0..n : k \in P
    BY <2>4, <2>5, InductiveUpto
  <2>7. n \in P
    BY <2>6
  <2>8. FlattenSeq(ss) = f[n]
    BY <1>9, <2>1, <2>7 DEF P
  <2> QED BY <1>1, <1>7, <2>8
<1> QED BY <1>8, <1>9

\* The integers that follow b.
Counts(s, b) == s \in Seq(Int) /\ \A i \in 1..Len(s) : s[i] = b + i

LEMMA CountsConcat ==
  ASSUME NEW b \in Int, NEW s, NEW t, Counts(s, b), Counts(t, b + Len(s))
  PROVE  Counts(s \o t, b) /\ Len(s \o t) = Len(s) + Len(t) /\ Len(s) \in Nat /\ Len(t) \in Nat
<1>1. s \in Seq(Int) /\ t \in Seq(Int) /\ Len(s) \in Nat /\ Len(t) \in Nat
  BY LenProperties DEF Counts
<1>2. /\ s \o t \in Seq(Int) /\ Len(s \o t) = Len(s) + Len(t)
      /\ \A i \in 1..(Len(s) + Len(t)) : (s \o t)[i] = IF i <= Len(s) THEN s[i] ELSE t[i - Len(s)]
  BY <1>1, ConcatProperties
<1>3. ASSUME NEW i \in 1..(Len(s) + Len(t)) PROVE (s \o t)[i] = b + i
  <2>1. CASE i <= Len(s)
    BY <1>1, <1>2, <2>1 DEF Counts
  <2>2. CASE ~(i <= Len(s))
    <3>1. i - Len(s) \in 1..Len(t) /\ (b + Len(s)) + (i - Len(s)) = b + i
      BY <1>1, <2>2
    <3> QED BY <1>2, <2>2, <3>1 DEF Counts
  <2> QED BY <2>1, <2>2
<1> QED BY <1>1, <1>2, <1>3 DEF Counts

\* The elements of ss follow each other, and e says where each one ends.
Pieces(ss, e) ==
  /\ ss \in Seq(Seq(Int)) /\ e \in [0..Len(ss) -> Int]
  /\ \A i \in 1..Len(ss) : Counts(ss[i], e[i - 1]) /\ Len(ss[i]) = e[i] - e[i - 1]

LEMMA FlattenPieces ==
  ASSUME NEW ss, NEW e, Pieces(ss, e)
  PROVE  Counts(FlattenSeq(ss), e[0]) /\ Len(FlattenSeq(ss)) = e[Len(ss)] - e[0] /\ Len(ss) \in Nat
<1>1. PICK n \in Nat : n = Len(ss)
  BY LenProperties DEF Pieces
<1>2. PICK f : Joined(f, ss, Int) /\ FlattenSeq(ss) = f[Len(ss)]
  <2>1. ss \in Seq(Seq(Int))
    BY DEF Pieces
  <2> QED BY <2>1, JoinsExist, Zenon
<1>0. \A i \in 0..n : e[i] \in Int
  <2>1. e \in [0..n -> Int]
    BY <1>1 DEF Pieces
  <2> QED BY <2>1
<1> DEFINE P == {k \in 0..n : Counts(f[k], e[0]) /\ Len(f[k]) = e[k] - e[0]}
<1>3. 0 \in P
  <2>1. f[0] = <<>>
    BY <1>2 DEF Joined
  <2>2. e[0] \in Int
    BY <1>1 DEF Pieces
  <2>3. Len(<<>>) = 0 /\ <<>> \in Seq(Int)
    BY EmptySeq
  <2>4. Counts(f[0], e[0])
    BY <2>1, <2>2, <2>3 DEF Counts
  <2>5. Len(f[0]) = e[0] - e[0]
    BY <2>1, <2>2, <2>3
  <2> QED BY <2>4, <2>5
<1>4. ASSUME NEW k \in 0..(n - 1), k \in P PROVE k + 1 \in P
  <2>1. k + 1 \in 1..Len(ss) /\ (k + 1) - 1 = k /\ k \in 0..n /\ k + 1 \in 0..n
    BY <1>1
  <2>2. f[k + 1] = f[k] \o ss[k + 1] /\ Counts(ss[k + 1], e[k]) /\ Len(ss[k + 1]) = e[k + 1] - e[k]
    BY <1>2, <2>1 DEF Joined, Pieces
  <2>3. e[0] \in Int /\ e[k] \in Int /\ e[k + 1] \in Int
    BY <1>0, <2>1
  <2>4. Counts(f[k], e[0]) /\ Len(f[k]) = e[k] - e[0] /\ e[0] + Len(f[k]) = e[k]
    BY <1>4, <2>3
  <2>5. Counts(f[k] \o ss[k + 1], e[0]) /\ Len(f[k] \o ss[k + 1]) = Len(f[k]) + Len(ss[k + 1])
    <3>1. PICK b \in Int : b = e[0]
      BY <2>3
    <3>2. PICK s : s = f[k]
      OBVIOUS
    <3>3. PICK t : t = ss[k + 1]
      OBVIOUS
    <3>4. Counts(s, b) /\ Counts(t, b + Len(s))
      BY <2>2, <2>4, <3>1, <3>2, <3>3
    <3>5. Counts(s \o t, b) /\ Len(s \o t) = Len(s) + Len(t)
      BY <3>4, CountsConcat
    <3> QED BY <3>1, <3>2, <3>3, <3>5
  <2>6. Counts(f[k + 1], e[0]) /\ Len(f[k + 1]) = e[k + 1] - e[0]
    BY <2>2, <2>3, <2>4, <2>5
  <2> QED BY <2>1, <2>6
<1> HIDE DEF P
<1>5. \A k \in 0..n : k \in P
  BY <1>3, <1>4, InductiveUpto
<1>6. n \in P
  BY <1>5
<1> QED BY <1>1, <1>2, <1>6 DEF P

\* s is increasing, above a and up to b.
Rises(s, a, b) ==
  /\ s \in Seq(Int) /\ \A i \in 1..Len(s) : a < s[i] /\ s[i] <= b
  /\ \A i, j \in 1..Len(s) : i < j => s[i] < s[j]

LEMMA RisesConcat ==
  ASSUME NEW a \in Int, NEW b \in Int, NEW c \in Int, a <= b, b <= c, NEW s, NEW t, Rises(s, a, b), Rises(t, b, c)
  PROVE  Rises(s \o t, a, c) /\ \A x : x \in Range(s \o t) <=> x \in Range(s) \/ x \in Range(t)
<1>1. s \in Seq(Int) /\ t \in Seq(Int)
  BY DEF Rises
<1>2. PICK m \in Nat, n \in Nat : m = Len(s) /\ n = Len(t)
  BY <1>1, LenProperties
<1>3. PICK u : u = s \o t
  OBVIOUS
<1>4. /\ u \in Seq(Int) /\ Len(u) = m + n
      /\ \A i \in 1..(m + n) : u[i] = IF i <= m THEN s[i] ELSE t[i - m]
  BY <1>1, <1>2, <1>3, ConcatProperties
<1>5. /\ \A i \in 1..m : u[i] = s[i] /\ a < s[i] /\ s[i] <= b /\ s[i] \in Int
      /\ \A i \in 1..n : u[m + i] = t[i] /\ b < t[i] /\ t[i] <= c /\ t[i] \in Int
      /\ \A i, j \in 1..m : i < j => s[i] < s[j]
      /\ \A i, j \in 1..n : i < j => t[i] < t[j]
  <2>1. \A i \in 1..m : u[i] = s[i]
    BY <1>4
  <2>2. ASSUME NEW i \in 1..n PROVE u[m + i] = t[i]
    <3>1. m + i \in 1..(m + n) /\ ~(m + i <= m) /\ (m + i) - m = i
      OBVIOUS
    <3> QED BY <1>4, <3>1
  <2>3. (\A i \in 1..m : s[i] \in Int) /\ (\A i \in 1..n : t[i] \in Int)
    BY <1>1, <1>2, ElementOfSeq
  <2> QED BY <1>2, <2>1, <2>2, <2>3 DEF Rises
<1>6. \A i \in 1..(m + n) : i \in 1..m \/ (i - m \in 1..n /\ m + (i - m) = i)
  OBVIOUS
<1>7. \A i \in 1..(m + n) : a < u[i] /\ u[i] <= c
  BY <1>5, <1>6
<1>8. ASSUME NEW i \in 1..(m + n), NEW j \in 1..(m + n), i < j PROVE u[i] < u[j]
  <2>1. CASE j \in 1..m
    <3>1. i \in 1..m
      BY <1>8, <2>1
    <3> QED BY <1>5, <1>8, <2>1, <3>1
  <2>2. CASE i \in 1..m /\ j - m \in 1..n
    <3>1. PICK l \in 1..n : l = j - m /\ m + l = j
      BY <2>2
    <3> QED BY <1>5, <2>2, <3>1
  <2>3. CASE i - m \in 1..n /\ j - m \in 1..n
    <3>1. PICK k \in 1..n : k = i - m /\ m + k = i
      BY <2>3
    <3>2. PICK l \in 1..n : l = j - m /\ m + l = j
      BY <2>3
    <3>3. k < l
      BY <1>8, <3>1, <3>2
    <3> QED BY <1>5, <3>1, <3>2, <3>3
  <2> QED BY <1>6, <1>8, <2>1, <2>2, <2>3
<1>9. Rises(u, a, c)
  BY <1>4, <1>7, <1>8 DEF Rises
<1>10. \A x : x \in Range(u) <=> x \in Range(s) \/ x \in Range(t)
  <2>1. /\ \A x : x \in Range(u) <=> \E i \in 1..(m + n) : u[i] = x
        /\ \A x : x \in Range(s) <=> \E i \in 1..m : s[i] = x
        /\ \A x : x \in Range(t) <=> \E i \in 1..n : t[i] = x
    <3>1. DOMAIN u = 1..(m + n) /\ DOMAIN s = 1..m /\ DOMAIN t = 1..n
      BY <1>1, <1>2, <1>4, LenProperties
    <3> QED BY <3>1 DEF Range
  <2>2. ASSUME NEW x, x \in Range(u) PROVE x \in Range(s) \/ x \in Range(t)
    <3>1. PICK i \in 1..(m + n) : u[i] = x
      BY <2>1, <2>2
    <3>2. CASE i \in 1..m
      BY <1>5, <2>1, <3>1, <3>2
    <3>3. CASE i - m \in 1..n /\ m + (i - m) = i
      <4>1. PICK l \in 1..n : m + l = i
        BY <3>3
      <4> QED BY <1>5, <2>1, <3>1, <4>1
    <3> QED BY <1>6, <3>2, <3>3
  <2>3. ASSUME NEW x, x \in Range(s) PROVE x \in Range(u)
    <3>1. PICK i \in 1..m : s[i] = x
      BY <2>1, <2>3
    <3>2. i \in 1..(m + n)
      OBVIOUS
    <3> QED BY <1>5, <2>1, <3>1, <3>2
  <2>4. ASSUME NEW x, x \in Range(t) PROVE x \in Range(u)
    <3>1. PICK i \in 1..n : t[i] = x
      BY <2>1, <2>4
    <3>2. PICK l \in 1..(m + n) : l = m + i
      OBVIOUS
    <3> QED BY <1>5, <2>1, <3>1, <3>2
  <2> QED BY <2>2, <2>3, <2>4
<1> QED BY <1>3, <1>9, <1>10

\* Each element of ss is increasing, between the two values of e.
Layers(ss, e) ==
  /\ ss \in Seq(Seq(Int)) /\ e \in [0..Len(ss) -> Int]
  /\ \A i \in 1..Len(ss) : e[i - 1] <= e[i] /\ Rises(ss[i], e[i - 1], e[i])

LEMMA FlattenLayers ==
  ASSUME NEW ss, NEW e, Layers(ss, e)
  PROVE  /\ Rises(FlattenSeq(ss), e[0], e[Len(ss)]) /\ e[0] <= e[Len(ss)]
         /\ \A x : x \in Range(FlattenSeq(ss)) <=> \E i \in 1..Len(ss) : x \in Range(ss[i])
<1>1. PICK n \in Nat : n = Len(ss)
  BY LenProperties DEF Layers
<1>2. PICK f : Joined(f, ss, Int) /\ FlattenSeq(ss) = f[Len(ss)]
  <2>1. ss \in Seq(Seq(Int))
    BY DEF Layers
  <2> QED BY <2>1, JoinsExist, Zenon
<1>0. \A i \in 0..n : e[i] \in Int
  <2>1. e \in [0..n -> Int]
    BY <1>1 DEF Layers
  <2> QED BY <2>1
<1> DEFINE Has(k) == \A x : x \in Range(f[k]) <=> \E i \in 1..k : x \in Range(ss[i])
           P == {k \in 0..n : e[0] <= e[k] /\ Rises(f[k], e[0], e[k]) /\ Has(k)}
<1>3. 0 \in P
  <2>1. f[0] = <<>> /\ e[0] \in Int
    BY <1>0, <1>1, <1>2 DEF Joined
  <2>2. <<>> \in Seq(Int) /\ Len(<<>>) = 0
    BY EmptySeq
  <2>3. Rises(<<>>, e[0], e[0])
    BY <2>2 DEF Rises
  <2>4. Range(<<>>) = {}
    BY DEF Range
  <2> QED BY <2>1, <2>3, <2>4
<1>4. ASSUME NEW k \in 0..(n - 1), k \in P PROVE k + 1 \in P
  <2>1. k + 1 \in 1..Len(ss) /\ (k + 1) - 1 = k /\ k \in 0..n /\ k + 1 \in 0..n /\ 0 \in 0..n
    BY <1>1
  <2>2. f[k + 1] = f[k] \o ss[k + 1] /\ e[k] <= e[k + 1] /\ Rises(ss[k + 1], e[k], e[k + 1])
    BY <1>2, <2>1 DEF Joined, Layers
  <2>3. e[0] \in Int /\ e[k] \in Int /\ e[k + 1] \in Int
    BY <1>0, <2>1
  <2>4. e[0] <= e[k] /\ Rises(f[k], e[0], e[k]) /\ Has(k)
    BY <1>4
  <2> HIDE DEF Has
  <2>5. Rises(f[k + 1], e[0], e[k + 1]) /\ \A x : x \in Range(f[k + 1]) <=> x \in Range(f[k]) \/ x \in Range(ss[k + 1])
    <3>1. PICK a \in Int, b \in Int, c \in Int : a = e[0] /\ b = e[k] /\ c = e[k + 1]
      BY <2>3
    <3>2. PICK s, t : s = f[k] /\ t = ss[k + 1]
      OBVIOUS
    <3>3. a <= b /\ b <= c /\ Rises(s, a, b) /\ Rises(t, b, c)
      BY <2>2, <2>4, <3>1, <3>2
    <3>4. Rises(s \o t, a, c) /\ \A x : x \in Range(s \o t) <=> x \in Range(s) \/ x \in Range(t)
      BY <3>3, RisesConcat
    <3> QED BY <2>2, <3>1, <3>2, <3>4
  <2>6. Has(k + 1)
    <3>1. \A i : i \in 1..(k + 1) <=> i \in 1..k \/ i = k + 1
      OBVIOUS
    <3> QED BY <2>4, <2>5, <3>1, Zenon DEF Has
  <2>7. e[0] <= e[k + 1]
    BY <2>2, <2>3, <2>4
  <2> QED BY <2>1, <2>5, <2>6, <2>7
<1> HIDE DEF P
<1>5. \A k \in 0..n : k \in P
  BY <1>3, <1>4, InductiveUpto
<1>6. n \in P
  BY <1>5
<1> QED BY <1>1, <1>2, <1>6 DEF P

\* step makes a value from one of 1..n and another value.
Stepping(n, V, base, step) == base \in V /\ \A k \in 1..n, v \in V : step[<<k, v>>] \in V

\* The values that a fold from left to right computes, for the subsets of 1..n.
LeftFold(iter, n, V, base, step) ==
  /\ iter[{}] = base
  /\ \A t \in SUBSET (1..n) :
       t # {} /\ iter[t \ {Max(t)}] \in V => iter[t] = step[<<Max(t), iter[t \ {Max(t)}]>>]

LEMMA FoldExists ==
  ASSUME NEW n \in Nat, NEW V, NEW base, NEW step, Stepping(n, V, base, step)
  PROVE  \E g : g \in [SUBSET (1..n) -> V] /\ LeftFold(g, n, V, base, step)
<1> DEFINE S == 1..n
           pick == [t \in SUBSET S |-> Max(t)]
<1>1. Steps(S, pick, V, base, step)
  <2>1. IsFiniteSet(S)
    BY FS_Interval
  <2>2. \A t \in SUBSET S : t # {} => pick[t] \in t
    BY MaxOfPart
  <2> QED BY <2>1, <2>2 DEF Steps, Stepping
<1>2. \A t \in SUBSET S : pick[t] = Max(t)
  OBVIOUS
<1> HIDE DEF pick
<1>3. PICK g : IsIter(g, S, pick, V, base, step)
  BY <1>1, IterExists
<1>4. \A t \in SUBSET S : g[t] = IF t = {} THEN base ELSE step[<<pick[t], g[t \ {pick[t]}]>>]
  BY <1>3 DEF IsIter
<1>5. \A t \in SUBSET S : g[t] = IF t = {} THEN base ELSE step[<<Max(t), g[t \ {Max(t)}]>>]
  BY <1>2, <1>4
<1> QED BY <1>3, <1>5 DEF IsIter, LeftFold

\* The values for the first elements.
LEMMA FoldIsChain ==
  ASSUME NEW n \in Nat, NEW V, NEW base, NEW step, Stepping(n, V, base, step),
         NEW iter, LeftFold(iter, n, V, base, step)
  PROVE  \E f : Chain(f, n, V, base, step) /\ f[n] = iter[1..n]
<1>0. /\ base \in V /\ \A k \in 1..n, v \in V : step[<<k, v>>] \in V
      /\ iter[{}] = base
      /\ \A t \in SUBSET (1..n) :
           t # {} /\ iter[t \ {Max(t)}] \in V => iter[t] = step[<<Max(t), iter[t \ {Max(t)}]>>]
  BY DEF Stepping, LeftFold
<1> DEFINE f == [k \in 0..n |-> iter[1..k]]
<1>1. \A k \in 0..n : f[k] = iter[1..k]
  OBVIOUS
<1>2. f = [k \in 0..n |-> f[k]]
  OBVIOUS
<1> HIDE DEF f
<1>3. f[0] = base
  <2>1. 1..0 = {} /\ 0 \in 0..n
    OBVIOUS
  <2> QED BY <1>0, <1>1, <2>1
<1>4. ASSUME NEW k \in 1..n, f[k - 1] \in V PROVE f[k] = step[<<k, f[k - 1]>>]
  <2>1. k \in Nat /\ k # 0 /\ k \in 0..n /\ k - 1 \in 0..n
    OBVIOUS
  <2>2. PICK t \in SUBSET (1..n) : t = 1..k
    OBVIOUS
  <2>3. Max(t) = k /\ t \ {k} = 1..(k - 1) /\ t # {}
    BY <2>1, <2>2, MaxOfPrefix
  <2>4. f[k] = iter[t] /\ f[k - 1] = iter[t \ {Max(t)}]
    BY <1>1, <2>1, <2>2, <2>3
  <2>5. iter[t] = step[<<Max(t), iter[t \ {Max(t)}]>>]
    BY <1>0, <1>4, <2>3, <2>4
  <2> QED BY <2>3, <2>4, <2>5
<1> DEFINE P == {k \in 0..n : f[k] \in V}
<1>5. 0 \in P
  BY <1>0, <1>3
<1>6. ASSUME NEW k \in 0..(n - 1), k \in P PROVE k + 1 \in P
  <2>1. k + 1 \in 1..n /\ (k + 1) - 1 = k /\ k + 1 \in 0..n
    OBVIOUS
  <2>2. f[k] \in V
    BY <1>6
  <2>3. f[k + 1] = step[<<k + 1, f[k]>>]
    BY <1>4, <2>1, <2>2
  <2> QED BY <1>0, <2>1, <2>2, <2>3
<1> HIDE DEF P
<1>7. \A k \in 0..n : k \in P
  BY <1>5, <1>6, InductiveUpto
<1>8. \A k \in 0..n : f[k] \in V
  BY <1>7 DEF P
<1>9. \A k \in 1..n : f[k] = step[<<k, f[k - 1]>>]
  <2> TAKE k \in 1..n
  <2>1. k - 1 \in 0..n
    OBVIOUS
  <2> QED BY <1>4, <1>8, <2>1
<1>10. n \in 0..n
  OBVIOUS
<1> QED BY <1>1, <1>2, <1>3, <1>8, <1>9, <1>10 DEF Chain

\* A set of naturals that is bounded and not empty has a greatest element.
LEMMA MaxUpto ==
  ASSUME NEW n \in Nat, NEW s \in SUBSET (0..n), s # {}
  PROVE  Max(s) \in s /\ \A y \in s : y <= Max(s)
<1> DEFINE I == {m \in Nat : \A y \in s : y <= m}
<1>1. n \in I /\ I \subseteq Nat
  OBVIOUS
<1> HIDE DEF I
<1>2. Min(I) \in I /\ \A y \in I : Min(I) <= y
  BY <1>1, MinOfNaturals
<1>3. PICK m \in Nat : m = Min(I) /\ m \in I /\ \A y \in I : m <= y
  BY <1>1, <1>2
<1>4. \A y \in s : y <= m
  BY <1>3 DEF I
<1>5. m \in s
  <2> SUFFICES ASSUME m \notin s PROVE FALSE
    OBVIOUS
  <2>1. \A y \in s : y \in Nat /\ y <= m - 1
    BY <1>4
  <2>2. m - 1 \in Nat
    <3>1. PICK y \in s : y \in s
      OBVIOUS
    <3> QED BY <2>1, <3>1
  <2>3. m - 1 \in I
    BY <2>1, <2>2 DEF I
  <2> QED BY <1>3, <2>2, <2>3
<1>6. \E x \in s : \A y \in s : x >= y
  BY <1>4, <1>5
<1> QED BY <1>6 DEF Max

\* The length of a function that a comprehension over 1..n defines.
LEMMA LengthIs ==
  ASSUME NEW n \in Nat, NEW f, DOMAIN f = 1..n, f = [x \in DOMAIN f |-> f[x]]
  PROVE  Len(f) = n
<1> DEFINE S == {f[i] : i \in 1..n}
<1>1. f \in [1..n -> S]
  OBVIOUS
<1> HIDE DEF S
<1>2. f \in Seq(S)
  BY <1>1, SeqDef
<1> QED BY <1>2, LenProperties

\* What is appended does not change the prefixes.
LEMMA PrefixOfAppend ==
  ASSUME NEW S, NEW s \in Seq(S), NEW x \in S, NEW m \in 0..Len(s)
  PROVE  SubSeq(Append(s, x), 1, m) = SubSeq(s, 1, m)
<1>1. Len(s) \in Nat /\ \A i \in 1..m : s[i] \in S /\ Append(s, x)[i] = s[i]
  BY LenProperties, AppendProperties, ElementOfSeq
<1>2. PICK l \in Int, h \in Int : l = 1 /\ h = m
  BY <1>1
<1>3. PICK t : t = Append(s, x)
  OBVIOUS
<1>4. \A i \in l..h : s[i] \in S /\ t[i] \in S
  BY <1>1, <1>2, <1>3
<1>5. /\ SubSeq(s, l, h) \in Seq(S) /\ Len(SubSeq(s, l, h)) = IF l <= h THEN h - l + 1 ELSE 0
      /\ \A i \in 1..(h - l + 1) : SubSeq(s, l, h)[i] = s[l + i - 1]
  BY <1>4, SubSeqProperties
<1>6. /\ SubSeq(t, l, h) \in Seq(S) /\ Len(SubSeq(t, l, h)) = IF l <= h THEN h - l + 1 ELSE 0
      /\ \A i \in 1..(h - l + 1) : SubSeq(t, l, h)[i] = t[l + i - 1]
  BY <1>4, SubSeqProperties
<1>7. PICK v, w : v = SubSeq(s, l, h) /\ w = SubSeq(t, l, h)
  OBVIOUS
<1>8. Len(v) = m /\ Len(w) = m
  BY <1>1, <1>2, <1>5, <1>6, <1>7
<1>9. ASSUME NEW i \in 1..m PROVE w[i] = v[i]
  <2>1. l + i - 1 = i /\ i \in 1..(h - l + 1)
    BY <1>1, <1>2
  <2>2. v[i] = s[i] /\ w[i] = t[i]
    BY <1>5, <1>6, <1>7, <2>1
  <2> QED BY <1>1, <1>3, <2>2
<1>10. v = w
  BY <1>5, <1>6, <1>7, <1>8, <1>9, SeqEqual
<1> QED BY <1>2, <1>3, <1>7, <1>10
=============================================================================
