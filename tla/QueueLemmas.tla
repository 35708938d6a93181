----------------------------- MODULE QueueLemmas -----------------------------
(***************************************************************************)
(* Queues whose entries are all different: what shift, splice, push and    *)
(* unshift do to the set of entries.  The pools of settleContractPool.ts   *)
(* and the job queues are such queues.                                     *)
(***************************************************************************)
EXTENDS Integers, Sequences, SequencesExt, SequenceTheorems, TLAPS

\* A queue without duplicates over S.
Distinct(q, S) == q \in Seq(S) /\ IsInjective(q)

\* Array.shift: the head leaves, nothing else changes.
LEMMA ShiftDistinct ==
  ASSUME NEW S, NEW q, Distinct(q, S), q # <<>>
  PROVE  /\ Distinct(Tail(q), S)
         /\ Head(q) \in Range(q)
         /\ Range(Tail(q)) = Range(q) \ {Head(q)}
<1>1. q \in Seq(S) BY DEF Distinct
<1>2. /\ Len(q) \in Nat /\ Len(q) > 0
      /\ DOMAIN q = 1 .. Len(q)
      /\ Head(q) = q[1]
  BY <1>1
<1>3. /\ Tail(q) \in Seq(S)
      /\ Len(Tail(q)) = Len(q) - 1
      /\ DOMAIN Tail(q) = 1 .. Len(q) - 1
      /\ \A i \in 1 .. Len(q) - 1 : Tail(q)[i] = q[i + 1]
  BY <1>1, HeadTailProperties, LenProperties
<1>4. \A i, j \in 1 .. Len(q) : q[i] = q[j] => i = j
  BY <1>2 DEF Distinct, IsInjective
<1>5. IsInjective(Tail(q))
  <2> SUFFICES ASSUME NEW i \in 1 .. Len(q) - 1, NEW j \in 1 .. Len(q) - 1,
                      Tail(q)[i] = Tail(q)[j]
               PROVE  i = j
    BY <1>3 DEF IsInjective
  <2>1. q[i + 1] = q[j + 1] BY <1>3
  <2>2. i + 1 \in 1 .. Len(q) /\ j + 1 \in 1 .. Len(q) BY <1>2
  <2> QED BY <2>1, <2>2, <1>4
<1>6. Range(Tail(q)) = {q[i + 1] : i \in 1 .. Len(q) - 1}
  BY <1>3 DEF Range
<1>7. Range(q) = {q[i] : i \in 1 .. Len(q)}
  BY <1>2 DEF Range
<1>8. \A i \in 1 .. Len(q) - 1 : i + 1 \in 1 .. Len(q) /\ i + 1 # 1
  BY <1>2
<1>9. \A i \in 1 .. Len(q) : i # 1 => i - 1 \in 1 .. Len(q) - 1 /\ (i - 1) + 1 = i
  BY <1>2
<1>10. 1 \in 1 .. Len(q) BY <1>2
<1>11. ASSUME NEW x PROVE x \in Range(Tail(q)) <=> x \in Range(q) /\ x # q[1]
  <2>1. ASSUME x \in Range(Tail(q)) PROVE x \in Range(q) /\ x # q[1]
    <3>1. PICK i \in 1 .. Len(q) - 1 : x = q[i + 1] BY <2>1, <1>6
    <3> QED BY <3>1, <1>4, <1>7, <1>8, <1>10
  <2>2. ASSUME x \in Range(q), x # q[1] PROVE x \in Range(Tail(q))
    <3>1. PICK i \in 1 .. Len(q) : x = q[i] BY <2>2, <1>7
    <3>2. i # 1 BY <3>1, <2>2
    <3> QED BY <3>1, <3>2, <1>6, <1>9
  <2> QED BY <2>1, <2>2
<1>12. Range(Tail(q)) = Range(q) \ {Head(q)} BY <1>2, <1>11
<1>13. Head(q) \in Range(q) BY <1>2, <1>7, <1>10
<1> QED BY <1>3, <1>5, <1>12, <1>13 DEF Distinct

\* Shifting the head and shifting it over to another sequence.
LEMMA HeadThenTail ==
  ASSUME NEW S, NEW q \in Seq(S), q # <<>>
  PROVE  /\ Head(q) \in S /\ Tail(q) \in Seq(S)
         /\ q = <<Head(q)>> \o Tail(q)
OBVIOUS

LEMMA AppendAssoc ==
  ASSUME NEW S, NEW a \in Seq(S), NEW q \in Seq(S), q # <<>>
  PROVE  Append(a, Head(q)) \o Tail(q) = a \o q
OBVIOUS

\* Array.push(...t): t's entries are added behind.
LEMMA ConcatDistinct ==
  ASSUME NEW S, NEW q, NEW t, Distinct(q, S), Distinct(t, S),
         Range(q) \cap Range(t) = {}
  PROVE  /\ Distinct(q \o t, S)
         /\ Range(q \o t) = Range(q) \cup Range(t)
<1>1. q \in Seq(S) /\ t \in Seq(S) BY DEF Distinct
<1>2. /\ q \o t \in Seq(S)
      /\ Len(q \o t) = Len(q) + Len(t)
      /\ \A i \in 1 .. Len(q) + Len(t) :
           (q \o t)[i] = IF i <= Len(q) THEN q[i] ELSE t[i - Len(q)]
  BY <1>1, ConcatProperties
<1>3. /\ Len(q) \in Nat /\ Len(t) \in Nat
      /\ DOMAIN q = 1 .. Len(q) /\ DOMAIN t = 1 .. Len(t)
      /\ DOMAIN (q \o t) = 1 .. Len(q) + Len(t)
  BY <1>1, <1>2, LenProperties
<1>4. /\ \A i, j \in 1 .. Len(q) : q[i] = q[j] => i = j
      /\ \A i, j \in 1 .. Len(t) : t[i] = t[j] => i = j
  BY <1>3 DEF Distinct, IsInjective
<1>5. \A i \in 1 .. Len(q), j \in 1 .. Len(t) : q[i] # t[j]
  BY <1>3 DEF Range
<1>6. IsInjective(q \o t)
  <2> SUFFICES ASSUME NEW i \in 1 .. Len(q) + Len(t), NEW j \in 1 .. Len(q) + Len(t),
                      (q \o t)[i] = (q \o t)[j]
               PROVE  i = j
    BY <1>3 DEF IsInjective
  <2>1. CASE i <= Len(q) /\ j <= Len(q)
    <3>1. i \in 1 .. Len(q) /\ j \in 1 .. Len(q) BY <2>1, <1>3
    <3>2. q[i] = q[j] BY <2>1, <1>2
    <3> QED BY <3>1, <3>2, <1>4
  <2>2. CASE i <= Len(q) /\ j > Len(q)
    <3>1. i \in 1 .. Len(q) /\ j - Len(q) \in 1 .. Len(t) BY <2>2, <1>3
    <3>2. q[i] = t[j - Len(q)] BY <2>2, <1>2, <1>3
    <3> QED BY <3>1, <3>2, <1>5
  <2>3. CASE i > Len(q) /\ j <= Len(q)
    <3>1. j \in 1 .. Len(q) /\ i - Len(q) \in 1 .. Len(t) BY <2>3, <1>3
    <3>2. q[j] = t[i - Len(q)] BY <2>3, <1>2, <1>3
    <3> QED BY <3>1, <3>2, <1>5
  <2>4. CASE i > Len(q) /\ j > Len(q)
    <3>1. i - Len(q) \in 1 .. Len(t) /\ j - Len(q) \in 1 .. Len(t) BY <2>4, <1>3
    <3>2. t[i - Len(q)] = t[j - Len(q)] BY <2>4, <1>2, <1>3
    <3>3. i - Len(q) = j - Len(q) BY <3>1, <3>2, <1>4
    <3> QED BY <3>3, <1>3
  <2> QED BY <2>1, <2>2, <2>3, <2>4, <1>3
<1> QED BY <1>1, <1>2, <1>6, RangeConcatenation DEF Distinct

\* A one-element queue.
LEMMA SingletonDistinct ==
  ASSUME NEW S, NEW a \in S
  PROVE  Distinct(<<a>>, S) /\ Range(<<a>>) = {a}
<1>1. <<a>> \in Seq(S) /\ Len(<<a>>) = 1 /\ DOMAIN <<a>> = {1} /\ <<a>>[1] = a
  OBVIOUS
<1> QED BY <1>1 DEF Distinct, IsInjective, Range

\* Array.unshift: a new entry in front.
LEMMA UnshiftDistinct ==
  ASSUME NEW S, NEW q, Distinct(q, S), NEW a \in S, a \notin Range(q)
  PROVE  /\ Distinct(<<a>> \o q, S)
         /\ Range(<<a>> \o q) = Range(q) \cup {a}
<1>1. Distinct(<<a>>, S) /\ Range(<<a>>) = {a} BY SingletonDistinct
<1>2. Range(<<a>>) \cap Range(q) = {} BY <1>1
<1> QED BY <1>1, <1>2, ConcatDistinct

\* Array.push: a new entry behind.
LEMMA PushDistinct ==
  ASSUME NEW S, NEW q, Distinct(q, S), NEW a \in S, a \notin Range(q)
  PROVE  /\ Distinct(Append(q, a), S)
         /\ Range(Append(q, a)) = Range(q) \cup {a}
<1>1. Distinct(<<a>>, S) /\ Range(<<a>>) = {a} BY SingletonDistinct
<1>2. Range(q) \cap Range(<<a>>) = {} BY <1>1
<1>3. Append(q, a) = q \o <<a>> BY AppendIsConcat DEF Distinct
<1> QED BY <1>1, <1>2, <1>3, ConcatDistinct

\* A contiguous part of a queue keeps the entries apart.
LEMMA SubSeqDistinct ==
  ASSUME NEW S, NEW q, Distinct(q, S), NEW m \in Nat \ {0}, NEW n \in Nat, n <= Len(q)
  PROVE  /\ Distinct(SubSeq(q, m, n), S)
         /\ Range(SubSeq(q, m, n)) = {q[i] : i \in m .. n}
<1>1. /\ q \in Seq(S) /\ Len(q) \in Nat
      /\ DOMAIN q = 1 .. Len(q)
      /\ \A i \in m .. n : q[i] \in S /\ i \in 1 .. Len(q)
  BY DEF Distinct
<1>2. /\ SubSeq(q, m, n) \in Seq(S)
      /\ Len(SubSeq(q, m, n)) = IF m <= n THEN n - m + 1 ELSE 0
      /\ \A i \in 1 .. n - m + 1 : SubSeq(q, m, n)[i] = q[m + i - 1]
  BY <1>1, SubSeqProperties
<1>3. DOMAIN SubSeq(q, m, n) = 1 .. n - m + 1
  BY <1>2, LenProperties
<1>4. \A i, j \in 1 .. Len(q) : q[i] = q[j] => i = j
  BY <1>1 DEF Distinct, IsInjective
<1>5. IsInjective(SubSeq(q, m, n))
  <2> SUFFICES ASSUME NEW i \in 1 .. n - m + 1, NEW j \in 1 .. n - m + 1,
                      SubSeq(q, m, n)[i] = SubSeq(q, m, n)[j]
               PROVE  i = j
    BY <1>3 DEF IsInjective
  <2>1. q[m + i - 1] = q[m + j - 1] BY <1>2
  <2>2. m + i - 1 \in m .. n /\ m + j - 1 \in m .. n OBVIOUS
  <2>3. m + i - 1 = m + j - 1 BY <2>1, <2>2, <1>1, <1>4
  <2> QED BY <2>3
<1>6. Range(SubSeq(q, m, n)) = {q[m + i - 1] : i \in 1 .. n - m + 1}
  BY <1>2, <1>3 DEF Range
<1>7. /\ \A i \in 1 .. n - m + 1 : m + i - 1 \in m .. n
      /\ \A i \in m .. n : i - m + 1 \in 1 .. n - m + 1 /\ m + (i - m + 1) - 1 = i
  OBVIOUS
<1>8. Range(SubSeq(q, m, n)) = {q[i] : i \in m .. n}
  BY <1>6, <1>7
<1> QED BY <1>2, <1>5, <1>8 DEF Distinct

\* Array.splice(i, 1): the i-th entry leaves, nothing else changes.
LEMMA SpliceDistinct ==
  ASSUME NEW S, NEW q, Distinct(q, S), NEW i \in DOMAIN q
  PROVE  /\ Distinct(RemoveAt(q, i), S)
         /\ q[i] \in Range(q)
         /\ Range(RemoveAt(q, i)) = Range(q) \ {q[i]}
<1>1. /\ q \in Seq(S) /\ Len(q) \in Nat /\ DOMAIN q = 1 .. Len(q) /\ i \in 1 .. Len(q)
      /\ Range(q) = {q[k] : k \in 1 .. Len(q)}
  BY DEF Distinct, Range
<1>2. \A k, l \in 1 .. Len(q) : q[k] = q[l] => k = l
  BY <1>1 DEF Distinct, IsInjective
<1> DEFINE before == SubSeq(q, 1, i - 1)
           behind == SubSeq(q, i + 1, Len(q))
<1>3. Distinct(before, S) /\ Range(before) = {q[k] : k \in 1 .. i - 1}
  <2>1. 1 \in Nat \ {0} OBVIOUS
  <2>2. PICK n \in Nat : n = i - 1 /\ n <= Len(q) BY <1>1
  <2>3. Distinct(SubSeq(q, 1, n), S) /\ Range(SubSeq(q, 1, n)) = {q[k] : k \in 1 .. n}
    BY <2>1, <2>2, SubSeqDistinct
  <2> QED BY <2>2, <2>3
<1>4. Distinct(behind, S) /\ Range(behind) = {q[k] : k \in i + 1 .. Len(q)}
  <2>1. i + 1 \in Nat \ {0} /\ Len(q) \in Nat /\ Len(q) <= Len(q) BY <1>1
  <2> QED BY <2>1, SubSeqDistinct
<1> HIDE DEF before, behind
<1>5. Range(before) \cap Range(behind) = {}
  BY <1>1, <1>2, <1>3, <1>4
<1>6. Distinct(before \o behind, S) /\ Range(before \o behind) = Range(before) \cup Range(behind)
  BY <1>3, <1>4, <1>5, ConcatDistinct
<1>7. Range(before) \cup Range(behind) = Range(q) \ {q[i]}
  <2>1. ASSUME NEW x \in Range(q), x # q[i]
        PROVE  x \in Range(before) \cup Range(behind)
    <3>1. PICK k \in 1 .. Len(q) : x = q[k] BY <1>1
    <3>2. k # i BY <3>1, <2>1
    <3>3. k \in 1 .. i - 1 \/ k \in i + 1 .. Len(q) BY <1>1, <3>2
    <3> QED BY <3>1, <3>3, <1>3, <1>4
  <2>2. ASSUME NEW x \in Range(before) \cup Range(behind)
        PROVE  x \in Range(q) /\ x # q[i]
    <3>1. PICK k \in 1 .. Len(q) : x = q[k] /\ k # i BY <1>1, <1>3, <1>4
    <3> QED BY <3>1, <1>1, <1>2
  <2> QED BY <2>1, <2>2
<1>8. RemoveAt(q, i) = before \o behind BY DEF RemoveAt, before, behind
<1>9. q[i] \in Range(q) BY <1>1
<1> QED BY <1>6, <1>7, <1>8, <1>9

\* The entries but the last, and the last.
LEMMA FrontLastDistinct ==
  ASSUME NEW S, NEW q, Distinct(q, S), q # <<>>
  PROVE  /\ Distinct(Front(q), S)
         /\ Last(q) \in Range(q)
         /\ Range(Front(q)) = Range(q) \ {Last(q)}
<1>1. /\ q \in Seq(S) /\ Len(q) \in Nat /\ Len(q) > 0
      /\ DOMAIN q = 1 .. Len(q) /\ Len(q) \in 1 .. Len(q)
      /\ Range(q) = {q[k] : k \in 1 .. Len(q)}
  BY DEF Distinct, Range
<1>2. \A k, l \in 1 .. Len(q) : q[k] = q[l] => k = l
  BY <1>1 DEF Distinct, IsInjective
<1>3. /\ Distinct(SubSeq(q, 1, Len(q) - 1), S)
      /\ Range(SubSeq(q, 1, Len(q) - 1)) = {q[k] : k \in 1 .. Len(q) - 1}
  <2>1. 1 \in Nat \ {0} /\ Len(q) - 1 \in Nat /\ Len(q) - 1 <= Len(q) BY <1>1
  <2> QED BY <2>1, SubSeqDistinct
<1>4. {q[k] : k \in 1 .. Len(q) - 1} = Range(q) \ {q[Len(q)]}
  <2>1. ASSUME NEW x \in Range(q), x # q[Len(q)]
        PROVE  x \in {q[k] : k \in 1 .. Len(q) - 1}
    <3>1. PICK k \in 1 .. Len(q) : x = q[k] BY <1>1
    <3>2. k \in 1 .. Len(q) - 1 BY <1>1, <3>1, <2>1
    <3> QED BY <3>1, <3>2
  <2>2. ASSUME NEW k \in 1 .. Len(q) - 1
        PROVE  q[k] \in Range(q) /\ q[k] # q[Len(q)]
    <3>1. k \in 1 .. Len(q) BY <1>1
    <3>2. k # Len(q)
      <4>1. Len(q) \in Nat BY <1>1
      <4> QED BY <4>1
    <3> QED BY <3>1, <3>2, <1>1, <1>2
  <2> QED BY <2>1, <2>2
<1> QED BY <1>1, <1>3, <1>4 DEF Front, Last
\* What was there before something was added behind: a prefix, as injective as
\* the whole.
LEMMA FrontOfConcat ==
  ASSUME NEW S, NEW q \in Seq(S), NEW t \in Seq(S)
  PROVE  /\ IsPrefix(q, q \o t)
         /\ IsInjective(q \o t) => IsInjective(q)
<1> DEFINE r == q \o t
<1>1. /\ r \in Seq(S)
      /\ Len(r) = Len(q) + Len(t)
      /\ \A i \in 1 .. Len(q) + Len(t) :
           r[i] = IF i <= Len(q) THEN q[i] ELSE t[i - Len(q)]
  BY ConcatProperties
<1>2. /\ Len(q) \in Nat /\ Len(t) \in Nat
      /\ DOMAIN q = 1 .. Len(q) /\ DOMAIN r = 1 .. Len(r)
      /\ \A i \in 1 .. Len(q) : q[i] \in S
  BY <1>1, LenProperties
<1> HIDE DEF r
<1>3. /\ \A i \in 1 .. Len(q) : r[i] = q[i] /\ i \in 1 .. Len(r)
      /\ Len(q) <= Len(r)
  BY <1>1, <1>2
<1>4. \A i \in 1 .. Len(q) : r[i] \in S
  BY <1>2, <1>3
<1>5. /\ SubSeq(q, 1, Len(q)) \in Seq(S) /\ SubSeq(r, 1, Len(q)) \in Seq(S)
      /\ Len(SubSeq(q, 1, Len(q))) = Len(q) /\ Len(SubSeq(r, 1, Len(q))) = Len(q)
      /\ \A i \in 1 .. Len(q) : SubSeq(q, 1, Len(q))[i] = q[i]
      /\ \A i \in 1 .. Len(q) : SubSeq(r, 1, Len(q))[i] = r[i]
  <2>1. /\ SubSeq(q, 1, Len(q)) \in Seq(S)
        /\ Len(SubSeq(q, 1, Len(q))) = IF 1 <= Len(q) THEN Len(q) - 1 + 1 ELSE 0
        /\ \A i \in 1 .. Len(q) - 1 + 1 : SubSeq(q, 1, Len(q))[i] = q[1 + i - 1]
    BY <1>2, SubSeqProperties
  <2>2. /\ SubSeq(r, 1, Len(q)) \in Seq(S)
        /\ Len(SubSeq(r, 1, Len(q))) = IF 1 <= Len(q) THEN Len(q) - 1 + 1 ELSE 0
        /\ \A i \in 1 .. Len(q) - 1 + 1 : SubSeq(r, 1, Len(q))[i] = r[1 + i - 1]
    BY <1>2, <1>4, SubSeqProperties
  <2>3. /\ (IF 1 <= Len(q) THEN Len(q) - 1 + 1 ELSE 0) = Len(q)
        /\ Len(q) - 1 + 1 = Len(q)
        /\ \A i \in 1 .. Len(q) : 1 + i - 1 = i
    BY <1>2
  <2> QED BY <2>1, <2>2, <2>3
<1>6. SubSeq(q, 1, Len(q)) = SubSeq(r, 1, Len(q))
  BY <1>3, <1>5, SeqEqual
<1>7. IsPrefix(q, r)
  BY <1>3, <1>6 DEF IsPrefix
<1>8. ASSUME IsInjective(r) PROVE IsInjective(q)
  <2> SUFFICES ASSUME NEW i \in 1 .. Len(q), NEW j \in 1 .. Len(q), q[i] = q[j]
               PROVE  i = j
    BY <1>2 DEF IsInjective
  <2>1. r[i] = r[j] /\ i \in DOMAIN r /\ j \in DOMAIN r
    BY <1>2, <1>3
  <2> QED BY <1>8, <2>1 DEF IsInjective
<1> QED BY <1>7, <1>8 DEF r
=============================================================================
