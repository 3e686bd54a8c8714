------------------------- MODULE PromptQueueProofs -------------------------
(***************************************************************************)
(* Proofs about PromptQueue, for any prompts and bounds: types, that every *)
(* pending prompt is in exactly one place, and that the duty to start the  *)
(* queue is passed on, which are inductive together; why a prompt is       *)
(* dropped; and that the queue implements PromptPromises.                  *)
(***************************************************************************)
EXTENDS PromptQueue, SequenceTheorems, TLAPS

LEMMA NoCallFacts ==
    /\ NoCall.from = "nobody" /\ NoCall.at = "nowhere"
    /\ NoCall \in Calls
    /\ \A k \in Calls : k /= NoCall => k.from \in Callers /\ k.at \in Places
    /\ \A k \in Calls : k.at \in Places => k /= NoCall
    /\ \A k \in Calls : k.from \in Callers => k /= NoCall
  BY DEF NoCall, Calls, Callers, Places

LEMMA CompletionFacts ==
    /\ NoCompletion.prompt = NoPrompt /\ NoCompletion.at = "none"
    /\ DoneCompletion.prompt = NoPrompt /\ DoneCompletion.at = "done"
    /\ NoCompletion \in Completions /\ DoneCompletion \in Completions
    /\ \A c \in Completions :
         c \in {NoCompletion, DoneCompletion}
            <=> c.at \notin {"preparing", "running", "turn"}
    /\ \A c \in Completions : c.prompt \in Prompts \cup {NoPrompt}
    /\ \A c \in Completions :
         c.at \in {"preparing", "running", "turn"} => c \in Running
  BY DEF NoCompletion, DoneCompletion, Completions, Running

(* What \o, RemoveAt and InsertAt say of their elements.                   *)
LEMMA ConcatFacts ==
    ASSUME NEW S, NEW a \in Seq(S), NEW b \in Seq(S), NEW c, c = a \o b
    PROVE  /\ c \in Seq(S) /\ Len(c) = Len(a) + Len(b)
           /\ \A j \in 1..Len(a) : c[j] = a[j]
           /\ \A j \in 1..Len(b) : c[Len(a) + j] = b[j]
<1>0. /\ c \in Seq(S) /\ Len(c) = Len(a) + Len(b)
      /\ \A j \in 1..(Len(a) + Len(b)) :
           c[j] = IF j <= Len(a) THEN a[j] ELSE b[j - Len(a)]
  BY ConcatProperties
<1>1. Len(a) \in Nat /\ Len(b) \in Nat
  OBVIOUS
<1>2. /\ \A j \in 1..Len(a) : c[j] = a[j]
      /\ \A j \in 1..Len(b) : c[Len(a) + j] = b[j]
  <2> DEFINE m == Len(a)
             n == Len(b)
  <2>1. /\ m \in Nat /\ n \in Nat
        /\ \A j \in 1..(m + n) : c[j] = IF j <= m THEN a[j] ELSE b[j - m]
    BY <1>0, <1>1
  <2> HIDE DEF m, n
  <2>2. ASSUME NEW j \in 1..m PROVE c[j] = a[j]
    <3>1. j \in 1..(m + n) /\ j <= m
      BY <2>1
    <3> QED  BY <3>1, <2>1
  <2>3. ASSUME NEW j \in 1..n PROVE c[m + j] = b[j]
    <3>1. m + j \in 1..(m + n) /\ ~(m + j <= m) /\ (m + j) - m = j
      BY <2>1
    <3>2. c[m + j] = b[(m + j) - m]
      BY <3>1, <2>1
    <3> QED  BY <3>1, <3>2
  <2> QED  BY <2>2, <2>3 DEF m, n
<1> QED  BY <1>0, <1>2

LEMMA SubSeqAt ==
    ASSUME NEW S, NEW s \in Seq(S), NEW m \in Nat, NEW n \in Nat,
           1 <= m, n <= Len(s), m <= n + 1,
           NEW d, d = SubSeq(s, m, n)
    PROVE  /\ d \in Seq(S) /\ Len(d) = n - m + 1
           /\ \A j \in 1..(n - m + 1) : d[j] = s[m + j - 1]
<1>1. \A i \in m..n : s[i] \in S
  OBVIOUS
<1>2. /\ d \in Seq(S)
      /\ Len(d) = IF m <= n THEN n - m + 1 ELSE 0
      /\ \A j \in 1..n - m + 1 : d[j] = s[m + j - 1]
  BY <1>1, SubSeqProperties
<1> QED  BY <1>2

LEMMA RemoveAtFacts ==
    ASSUME NEW S, NEW s \in Seq(S), NEW i \in 1..Len(s)
    PROVE  /\ RemoveAt(s, i) \in Seq(S) /\ Len(RemoveAt(s, i)) = Len(s) - 1
           /\ \A j \in 1..(i - 1) : RemoveAt(s, i)[j] = s[j]
           /\ \A j \in i..(Len(s) - 1) : RemoveAt(s, i)[j] = s[j + 1]
<1>0. Len(s) \in Nat /\ i \in Nat
  OBVIOUS
<1> DEFINE c == RemoveAt(s, i)
           a == SubSeq(s, 1, i - 1)
           b == SubSeq(s, i + 1, Len(s))
<1>3. c = a \o b
  BY DEF RemoveAt
<1> HIDE DEF a, b, c
<1>1. /\ a \in Seq(S) /\ Len(a) = i - 1
      /\ \A j \in 1..(i - 1) : a[j] = s[j]
  <2>1. /\ a \in Seq(S) /\ Len(a) = (i - 1) - 1 + 1
        /\ \A j \in 1..((i - 1) - 1 + 1) : a[j] = s[1 + j - 1]
    BY <1>0, SubSeqAt DEF a
  <2> QED  BY <1>0, <2>1
<1>2. /\ b \in Seq(S) /\ Len(b) = Len(s) - i
      /\ \A j \in 1..(Len(s) - i) : b[j] = s[i + j]
  <2>1. /\ b \in Seq(S) /\ Len(b) = Len(s) - (i + 1) + 1
        /\ \A j \in 1..(Len(s) - (i + 1) + 1) : b[j] = s[(i + 1) + j - 1]
    BY <1>0, SubSeqAt DEF b
  <2> QED  BY <1>0, <2>1
<1>4. /\ c \in Seq(S) /\ Len(c) = (i - 1) + (Len(s) - i)
      /\ \A j \in 1..(i - 1) : c[j] = a[j]
      /\ \A j \in 1..(Len(s) - i) : c[(i - 1) + j] = b[j]
  <2>0. a \in Seq(S) /\ b \in Seq(S)
    BY <1>1, <1>2
  <2>1. /\ c \in Seq(S) /\ Len(c) = Len(a) + Len(b)
        /\ \A j \in 1..Len(a) : c[j] = a[j]
        /\ \A j \in 1..Len(b) : c[Len(a) + j] = b[j]
    BY <2>0, <1>3, ConcatFacts
  <2> QED  BY <1>1, <1>2, <2>1
<1>5. \A j \in i..(Len(s) - 1) : c[j] = s[j + 1]
  <2> SUFFICES ASSUME NEW j \in i..(Len(s) - 1) PROVE c[j] = s[j + 1]
    OBVIOUS
  <2> DEFINE k == j - (i - 1)
  <2>1. k \in 1..(Len(s) - i) /\ (i - 1) + k = j /\ i + k = j + 1
    BY <1>0
  <2> HIDE DEF k
  <2> QED  BY <1>2, <1>4, <2>1
<1>6. \A j \in 1..(i - 1) : c[j] = s[j]
  BY <1>1, <1>4
<1>7. Len(c) = Len(s) - 1
  BY <1>0, <1>4
<1> QED  BY <1>4, <1>5, <1>6, <1>7 DEF c

\* c is s with e at place k.
Inserted(s, k, e, c) ==
    /\ k \in 1..(Len(s) + 1) /\ Len(c) = Len(s) + 1
    /\ \A j \in 1..(k - 1) : c[j] = s[j]
    /\ c[k] = e
    /\ \A j \in (k + 1)..(Len(s) + 1) : c[j] = s[j - 1]

LEMMA InsertAtFacts ==
    ASSUME NEW S, NEW s \in Seq(S), NEW k \in 1..(Len(s) + 1), NEW e \in S
    PROVE  /\ InsertAt(s, k, e) \in Seq(S)
           /\ Inserted(s, k, e, InsertAt(s, k, e))
<1>0. Len(s) \in Nat /\ k \in Nat
  OBVIOUS
<1> DEFINE c == InsertAt(s, k, e)
           a == SubSeq(s, 1, k - 1)
           b == SubSeq(s, k, Len(s))
           m == <<e>>
           f == a \o m
<1>3. m \in Seq(S) /\ Len(m) = 1 /\ m[1] = e
  OBVIOUS
<1>6. c = f \o b
  BY DEF InsertAt
<1> HIDE DEF a, b, m, c
<1>1. /\ a \in Seq(S) /\ Len(a) = k - 1
      /\ \A j \in 1..(k - 1) : a[j] = s[j]
  <2>1. /\ a \in Seq(S) /\ Len(a) = (k - 1) - 1 + 1
        /\ \A j \in 1..((k - 1) - 1 + 1) : a[j] = s[1 + j - 1]
    BY <1>0, SubSeqAt DEF a
  <2> QED  BY <1>0, <2>1
<1>2. /\ b \in Seq(S) /\ Len(b) = Len(s) - k + 1
      /\ \A j \in 1..(Len(s) - k + 1) : b[j] = s[k + j - 1]
  BY <1>0, SubSeqAt DEF b
<1>4. /\ f \in Seq(S) /\ Len(f) = (k - 1) + 1
      /\ \A j \in 1..(k - 1) : f[j] = a[j]
      /\ \A j \in 1..1 : f[(k - 1) + j] = m[j]
  <2>0. a \in Seq(S) /\ m \in Seq(S)
    BY <1>1, <1>3
  <2>1. /\ f \in Seq(S) /\ Len(f) = Len(a) + Len(m)
        /\ \A j \in 1..Len(a) : f[j] = a[j]
        /\ \A j \in 1..Len(m) : f[Len(a) + j] = m[j]
    BY <2>0, ConcatFacts DEF f
  <2> QED  BY <1>1, <1>3, <2>1
<1> HIDE DEF f
<1>5. /\ c \in Seq(S) /\ Len(c) = k + (Len(s) - k + 1)
      /\ \A j \in 1..k : c[j] = f[j]
      /\ \A j \in 1..(Len(s) - k + 1) : c[k + j] = b[j]
  <2>0. f \in Seq(S) /\ b \in Seq(S)
    BY <1>2, <1>4
  <2>1. /\ c \in Seq(S) /\ Len(c) = Len(f) + Len(b)
        /\ \A j \in 1..Len(f) : c[j] = f[j]
        /\ \A j \in 1..Len(b) : c[Len(f) + j] = b[j]
    BY <2>0, <1>6, ConcatFacts
  <2>2. Len(f) = k
    BY <1>0, <1>4
  <2> QED  BY <1>2, <2>1, <2>2
<1>7. c[k] = e
  <2>1. 1 \in 1..1 /\ (k - 1) + 1 = k /\ k \in 1..k
    BY <1>0
  <2> QED  BY <1>3, <1>4, <1>5, <2>1
<1>8. \A j \in 1..(k - 1) : c[j] = s[j]
  BY <1>0, <1>1, <1>4, <1>5
<1>9. \A j \in (k + 1)..(Len(s) + 1) : c[j] = s[j - 1]
  <2> SUFFICES ASSUME NEW j \in (k + 1)..(Len(s) + 1) PROVE c[j] = s[j - 1]
    OBVIOUS
  <2> DEFINE i == j - k
  <2>1. i \in 1..(Len(s) - k + 1) /\ k + i = j /\ k + i - 1 = j - 1
    BY <1>0
  <2> HIDE DEF i
  <2> QED  BY <1>2, <1>5, <2>1
<1>10. Len(c) = Len(s) + 1 /\ c \in Seq(S)
  BY <1>0, <1>5
<1>11. Inserted(s, k, e, c)
  BY <1>7, <1>8, <1>9, <1>10 DEF Inserted
<1> QED  BY <1>10, <1>11 DEF c

-----------------------------------------------------------------------------
(* The queue as a set of distinct prompts.                                   *)

Distinct(q) == \A i, j \in DOMAIN q : q[i] = q[j] => i = j
Has(q, x) == \E i \in DOMAIN q : q[i] = x

LEMMA HasRange ==
    ASSUME NEW S, NEW s \in Seq(S), NEW x
    PROVE  Has(s, x) <=> \E i \in 1..Len(s) : s[i] = x
  BY DEF Has

LEMMA DistinctRange ==
    ASSUME NEW S, NEW s \in Seq(S)
    PROVE  Distinct(s) <=> \A i, j \in 1..Len(s) : s[i] = s[j] => i = j
  BY DEF Distinct

\* Taking one element out takes out that one, and no other.
LEMMA RemoveKeeps ==
    ASSUME NEW S, NEW s \in Seq(S), NEW i \in DOMAIN s, Distinct(s),
           NEW c, c = RemoveAt(s, i)
    PROVE  /\ c \in Seq(S) /\ Distinct(c)
           /\ \A x : Has(c, x) <=> (Has(s, x) /\ x /= s[i])
<1>1. /\ Len(s) \in Nat /\ i \in Nat /\ i \in 1..Len(s)
  OBVIOUS
<1>2. /\ c \in Seq(S) /\ Len(c) = Len(s) - 1
      /\ \A j \in 1..(i - 1) : c[j] = s[j]
      /\ \A j \in i..(Len(s) - 1) : c[j] = s[j + 1]
  <2>1. i \in 1..Len(s)
    BY <1>1
  <2> QED  BY <2>1, RemoveAtFacts
<1>3. \A j, k \in 1..Len(s) : s[j] = s[k] => j = k
  BY DistinctRange
<1>4. ASSUME NEW j \in 1..(Len(s) - 1), NEW k \in 1..(Len(s) - 1), c[j] = c[k]
      PROVE  j = k
  <2>1. CASE j < i /\ k < i
    BY <2>1, <1>1, <1>2, <1>3, <1>4
  <2>2. CASE j < i /\ k >= i
    <3>1. s[j] = s[k + 1] /\ k + 1 \in 1..Len(s) /\ j \in 1..Len(s)
      BY <2>2, <1>1, <1>2, <1>4
    <3> QED  BY <3>1, <2>2, <1>1, <1>3
  <2>3. CASE j >= i /\ k < i
    <3>1. s[j + 1] = s[k] /\ j + 1 \in 1..Len(s) /\ k \in 1..Len(s)
      BY <2>3, <1>1, <1>2, <1>4
    <3> QED  BY <3>1, <2>3, <1>1, <1>3
  <2>4. CASE j >= i /\ k >= i
    <3>1. s[j + 1] = s[k + 1] /\ j + 1 \in 1..Len(s) /\ k + 1 \in 1..Len(s)
      BY <2>4, <1>1, <1>2, <1>4
    <3> QED  BY <3>1, <1>1, <1>3
  <2> QED  BY <2>1, <2>2, <2>3, <2>4, <1>1
<1>5. Distinct(c)
  BY <1>1, <1>2, <1>4, DistinctRange
<1>6. ASSUME NEW x, Has(c, x) PROVE Has(s, x) /\ x /= s[i]
  <2>1. PICK j \in 1..(Len(s) - 1) : c[j] = x
    BY <1>2, <1>6, HasRange
  <2>2. CASE j < i
    <3>1. s[j] = x /\ j \in 1..Len(s) /\ j /= i
      BY <2>1, <2>2, <1>1, <1>2
    <3> QED  BY <3>1, <1>1, <1>3, HasRange
  <2>3. CASE j >= i
    <3>1. s[j + 1] = x /\ j + 1 \in 1..Len(s) /\ j + 1 /= i
      BY <2>1, <2>3, <1>1, <1>2
    <3> QED  BY <3>1, <1>1, <1>3, HasRange
  <2> QED  BY <2>2, <2>3, <1>1
<1>7. ASSUME NEW x, Has(s, x), x /= s[i] PROVE Has(c, x)
  <2>1. PICK j \in 1..Len(s) : s[j] = x
    BY <1>7, HasRange
  <2>2. CASE j < i
    <3>1. c[j] = x /\ j \in 1..Len(c)
      BY <2>1, <2>2, <1>1, <1>2
    <3> QED  BY <3>1, <1>2, HasRange
  <2>3. CASE j > i
    <3> DEFINE k == j - 1
    <3>1. k \in i..(Len(s) - 1) /\ k + 1 = j /\ k \in 1..Len(c)
      BY <2>3, <1>1, <1>2
    <3> HIDE DEF k
    <3>2. c[k] = x
      BY <3>1, <2>1, <1>2
    <3> QED  BY <3>1, <3>2, <1>2, HasRange
  <2> QED  BY <2>1, <2>2, <2>3, <1>1, <1>7
<1> QED  BY <1>2, <1>5, <1>6, <1>7

\* Putting in an element that is not there puts in that one.
LEMMA InsertKeeps ==
    ASSUME NEW S, NEW s \in Seq(S), NEW e \in S, Distinct(s), ~Has(s, e),
           NEW c \in Seq(S), NEW k, Inserted(s, k, e, c)
    PROVE  /\ Distinct(c)
           /\ \A x : Has(c, x) <=> (Has(s, x) \/ x = e)
<1>0. /\ k \in 1..(Len(s) + 1) /\ Len(c) = Len(s) + 1
      /\ \A j \in 1..(k - 1) : c[j] = s[j]
      /\ c[k] = e
      /\ \A j \in (k + 1)..(Len(s) + 1) : c[j] = s[j - 1]
  BY DEF Inserted
<1>1. Len(s) \in Nat /\ k \in Nat
  BY <1>0
<1>2. /\ \A i, j \in 1..Len(s) : s[i] = s[j] => i = j
      /\ \A i \in 1..Len(s) : s[i] /= e
  BY DistinctRange, HasRange
<1> DEFINE Old(j) == IF j < k THEN j ELSE j - 1
<1>3. ASSUME NEW j \in 1..(Len(s) + 1), j /= k
      PROVE  Old(j) \in 1..Len(s) /\ c[j] = s[Old(j)]
  <2>1. CASE j < k
    BY <2>1, <1>0, <1>1
  <2>2. CASE j > k
    BY <2>2, <1>0, <1>1
  <2> QED  BY <2>1, <2>2, <1>0, <1>1, <1>3
<1>4. ASSUME NEW i \in 1..(Len(s) + 1), NEW j \in 1..(Len(s) + 1), c[i] = c[j]
      PROVE  i = j
  <2>1. CASE i = k \/ j = k
    BY <2>1, <1>0, <1>2, <1>3, <1>4
  <2>2. CASE i /= k /\ j /= k
    <3>1. Old(i) = Old(j)
      <4> HIDE DEF Old
      <4> QED  BY <2>2, <1>2, <1>3, <1>4
    <3> QED  BY <3>1, <2>2, <1>0, <1>1
  <2> QED  BY <2>1, <2>2
<1>5. Distinct(c)
  BY <1>0, <1>4, DistinctRange
<1>6. ASSUME NEW x, Has(c, x) PROVE Has(s, x) \/ x = e
  <2>1. PICK j \in 1..(Len(s) + 1) : c[j] = x
    BY <1>0, <1>6, HasRange
  <2>2. CASE j = k
    BY <1>0, <2>1, <2>2
  <2>3. CASE j /= k
    <3> HIDE DEF Old
    <3> QED  BY <2>1, <2>3, <1>3, HasRange
  <2> QED  BY <2>2, <2>3
<1>7. ASSUME NEW x, Has(s, x) PROVE Has(c, x)
  <2>1. PICK j \in 1..Len(s) : s[j] = x
    BY <1>7, HasRange
  <2>2. CASE j < k
    <3>1. j \in 1..Len(c) /\ c[j] = x
      BY <2>1, <2>2, <1>0, <1>1
    <3> QED  BY <3>1, HasRange
  <2>3. CASE j >= k
    <3> DEFINE i == j + 1
    <3>1. i \in (k + 1)..(Len(s) + 1) /\ i - 1 = j /\ i \in 1..Len(c)
      BY <2>3, <1>0, <1>1
    <3> HIDE DEF i
    <3>2. c[i] = x
      BY <3>1, <2>1, <1>0
    <3> QED  BY <3>1, <3>2, HasRange
  <2> QED  BY <2>2, <2>3, <1>0, <1>1
<1>8. Has(c, e)
  <2>1. k \in 1..Len(c)
    BY <1>0, <1>1
  <2> QED  BY <1>0, <2>1, HasRange
<1> QED  BY <1>5, <1>6, <1>7, <1>8

LEMMA AppendKeeps ==
    ASSUME NEW S, NEW s \in Seq(S), NEW e \in S, Distinct(s), ~Has(s, e),
           NEW c, c = Append(s, e)
    PROVE  /\ c \in Seq(S) /\ Distinct(c)
           /\ \A x : Has(c, x) <=> (Has(s, x) \/ x = e)
<1> DEFINE k == Len(s) + 1
<1>1. /\ c \in Seq(S) /\ Len(c) = Len(s) + 1 /\ k \in 1..(Len(s) + 1)
      /\ \A j \in 1..(k - 1) : c[j] = s[j]
      /\ c[k] = e
      /\ \A j \in (k + 1)..(Len(s) + 1) : c[j] = s[j - 1]
  OBVIOUS
<1>2. Inserted(s, k, e, c)
  BY <1>1 DEF Inserted
<1> HIDE DEF k
<1> QED  BY <1>1, <1>2, InsertKeeps

LEMMA PrependKeeps ==
    ASSUME NEW S, NEW s \in Seq(S), NEW e \in S, Distinct(s), ~Has(s, e),
           NEW c, c = <<e>> \o s
    PROVE  /\ c \in Seq(S) /\ Distinct(c)
           /\ \A x : Has(c, x) <=> (Has(s, x) \/ x = e)
<1> DEFINE a == <<e>>
<1>1. a \in Seq(S) /\ Len(a) = 1 /\ a[1] = e
  OBVIOUS
<1>2. c = a \o s
  OBVIOUS
<1> HIDE DEF a
<1>3. /\ c \in Seq(S) /\ Len(c) = Len(a) + Len(s)
      /\ \A j \in 1..Len(a) : c[j] = a[j]
      /\ \A j \in 1..Len(s) : c[Len(a) + j] = s[j]
  BY <1>1, <1>2, ConcatFacts
<1>4. Len(s) \in Nat
  OBVIOUS
<1>5. /\ Len(c) = Len(s) + 1 /\ c[1] = e
      /\ \A j \in 1..Len(s) : c[1 + j] = s[j]
  BY <1>1, <1>3, <1>4
<1>6. ASSUME NEW j \in 2..(Len(s) + 1) PROVE c[j] = s[j - 1]
  <2> DEFINE i == j - 1
  <2>1. i \in 1..Len(s) /\ 1 + i = j
    BY <1>4
  <2> HIDE DEF i
  <2>2. c[j] = s[i]
    BY <2>1, <1>5
  <2> QED  BY <2>2 DEF i
<1>7. /\ 1 \in 1..(Len(s) + 1) /\ \A j \in 1..(1 - 1) : c[j] = s[j]
      /\ \A j \in (1 + 1)..(Len(s) + 1) : c[j] = s[j - 1]
  BY <1>4, <1>6
<1>8. Inserted(s, 1, e, c)
  BY <1>5, <1>7 DEF Inserted
<1> QED  BY <1>3, <1>8, InsertKeeps

LEMMA MoveKeeps ==
    ASSUME NEW S, NEW s \in Seq(S), NEW i \in DOMAIN s, NEW k \in DOMAIN s,
           Distinct(s), NEW c, c = InsertAt(RemoveAt(s, i), k, s[i])
    PROVE  /\ c \in Seq(S) /\ Distinct(c)
           /\ \A x : Has(c, x) <=> Has(s, x)
<1> DEFINE r == RemoveAt(s, i)
           e == s[i]
<1>1. /\ Len(s) \in Nat /\ i \in 1..Len(s) /\ k \in 1..Len(s) /\ e \in S
  OBVIOUS
<1>2. Len(r) = Len(s) - 1
  <2>1. i \in 1..Len(s)
    BY <1>1
  <2> QED  BY <2>1, RemoveAtFacts
<1>3. /\ r \in Seq(S) /\ Distinct(r)
      /\ \A x : Has(r, x) <=> (Has(s, x) /\ x /= e)
  BY RemoveKeeps
<1>4. c = InsertAt(r, k, e)
  OBVIOUS
<1>5. Has(s, e)
  BY <1>1, HasRange
<1> HIDE DEF r, e
<1>6. k \in 1..(Len(r) + 1)
  BY <1>1, <1>2
<1>7. InsertAt(r, k, e) \in Seq(S) /\ Inserted(r, k, e, InsertAt(r, k, e))
  BY <1>1, <1>3, <1>6, InsertAtFacts
<1>8. c \in Seq(S) /\ Inserted(r, k, e, c)
  BY <1>4, <1>7
<1>9. /\ Distinct(c) /\ \A x : Has(c, x) <=> (Has(r, x) \/ x = e)
  BY <1>1, <1>3, <1>5, <1>8, InsertKeeps
<1> QED  BY <1>3, <1>5, <1>8, <1>9

-----------------------------------------------------------------------------
(* The invariant, said of one prompt p with fate f and caller c, when the    *)
(* completion is a and p is in the queue (w) or not.                         *)

At(p, f, c, a, w) ==
    /\ w => (f = "pending" /\ c = NoCall /\ a.prompt /= p)
    /\ f = "pending" => (w \/ c /= NoCall \/ a.prompt = p)
    /\ f = "unsent" => c = NoCall
    /\ (c /= NoCall /\ c.at \notin {"preparing", "started"}) =>
           (f = "pending" /\ a.prompt /= p)
    /\ c.at = "preparing" <=> (a.prompt = p /\ a.at = "preparing")
    /\ (c.at = "started" /\ f = "pending") => a.prompt = p
    /\ a.prompt = p => f = IF a.at = "turn" THEN "taken" ELSE "pending"
    /\ c.at \in {"posted", "enqueue"} => c.from /= "queue"
    /\ c.at \in {"started", "park", "restore"} => c.from = "queue"

Placed(p) == At(p, fate[p], call[p], active, Has(queue, p))

LEMMA PlacesAre ==
    QueueInv => /\ Distinct(queue)
                /\ \A p \in Prompts : Placed(p)
  BY DEF QueueInv, OnePlace, HandsAgree, Placed, At, Distinct, Has, Queued,
         InHand

LEMMA Assemble ==
    ASSUME TypeOK', Distinct(queue'), NoLostWakeup',
           \A p \in Prompts : Placed(p)'
    PROVE  QueueInv'
<1>1. OnePlace'
  BY DEF OnePlace, Placed, At, Distinct, Has, Queued, InHand
<1>2. HandsAgree'
  BY DEF HandsAgree, Placed, At, Has, Queued, InHand
<1> QED  BY <1>1, <1>2 DEF QueueInv

\* Nothing about a prompt changes.
LEMMA PlacedStays ==
    ASSUME NEW p \in Prompts, Placed(p), fate'[p] = fate[p],
           call'[p] = call[p], active' = active,
           Has(queue', p) <=> Has(queue, p)
    PROVE  Placed(p)'
  BY DEF Placed, At

\* The completion changes, and it is not one of this prompt.
LEMMA PlacedAside ==
    ASSUME NEW p \in Prompts, Placed(p), fate'[p] = fate[p],
           call'[p] = call[p], active.prompt /= p, active'.prompt /= p,
           Has(queue', p) <=> Has(queue, p)
    PROVE  Placed(p)'
  BY DEF Placed, At

LEMMA MoveFacts ==
    ASSUME TypeOK, NEW p \in Prompts, InHand(p), NEW place \in Places,
           Move(p, place)
    PROVE  /\ call' \in [Prompts -> Calls]
           /\ call'[p] /= NoCall /\ call'[p].at = place
           /\ call'[p].from = call[p].from
           /\ \A q \in Prompts : q /= p => call'[q] = call[q]
<1>1. /\ call \in [Prompts -> Calls] /\ call[p] /= NoCall
      /\ call' = [call EXCEPT ![p] = [call[p] EXCEPT !.at = place]]
  BY DEF TypeOK, InHand, Move
<1>2. call[p] \in [from : Callers, at : Places]
  BY <1>1 DEF Calls
<1> DEFINE k == [call[p] EXCEPT !.at = place]
<1>3. k \in [from : Callers, at : Places] /\ k.at = place /\ k.from = call[p].from
  BY <1>2
<1>4. k \in Calls /\ k /= NoCall
  BY <1>3, NoCallFacts DEF Calls
<1>5. call' = [call EXCEPT ![p] = k]
  BY <1>1
<1> HIDE DEF k
<1>6. call'[p] = k /\ \A q \in Prompts : q /= p => call'[q] = call[q]
  BY <1>1, <1>5
<1>7. call' \in [Prompts -> Calls]
  BY <1>1, <1>4, <1>5
<1> QED  BY <1>3, <1>4, <1>6, <1>7

LEMMA DropFacts ==
    ASSUME TypeOK, NEW p \in Prompts, call' = [call EXCEPT ![p] = NoCall]
    PROVE  /\ call' \in [Prompts -> Calls] /\ call'[p] = NoCall
           /\ \A q \in Prompts : q /= p => call'[q] = call[q]
  BY NoCallFacts DEF TypeOK

LEMMA FateFacts ==
    ASSUME TypeOK, NEW p \in Prompts, NEW f \in Fates,
           fate' = [fate EXCEPT ![p] = f]
    PROVE  /\ fate' \in [Prompts -> Fates] /\ fate'[p] = f
           /\ \A q \in Prompts : q /= p => fate'[q] = fate[q]
  BY DEF TypeOK

\* What becomes of a prompt whose start is refused.
LEMMA RejectsFacts ==
    ASSUME TypeOK, NEW p \in Prompts, InHand(p), NEW why, Rejects(p, why)
    PROVE  /\ call' \in [Prompts -> Calls] /\ fate' \in [Prompts -> Fates]
           /\ \A q \in Prompts :
                q /= p => call'[q] = call[q] /\ fate'[q] = fate[q]
           /\ \/ /\ fate'[p] = fate[p] /\ call'[p] /= NoCall
                 /\ call'[p].from = call[p].from
                 /\ \/ /\ call[p].from = "queue"
                       /\ call'[p].at \in {"park", "restore"}
                    \/ call[p].from = "hook" /\ call'[p].at = "enqueue"
              \/ /\ fate'[p] = "refused" /\ call'[p] = NoCall
                 /\ call[p].from /= "queue"
<1>0. fate \in [Prompts -> Fates]
  BY DEF TypeOK
<1>1. CASE call[p].from = "queue"
  <2> DEFINE place == IF why = "question" THEN "park" ELSE "restore"
  <2>1. Move(p, place) /\ fate' = fate
    BY <1>1 DEF Rejects
  <2>2. place \in Places /\ place \in {"park", "restore"}
    BY DEF Places
  <2> HIDE DEF place
  <2> QED  BY <1>0, <1>1, <2>1, <2>2, MoveFacts
<1>2. CASE call[p].from = "hook" /\ why = "question"
  <2>1. Move(p, "enqueue") /\ fate' = fate
    BY <1>2 DEF Rejects
  <2>2. "enqueue" \in Places
    BY DEF Places
  <2> QED  BY <1>0, <1>2, <2>1, <2>2, MoveFacts
<1>3. CASE call[p].from /= "queue" /\ ~(call[p].from = "hook" /\ why = "question")
  <2>1. /\ call' = [call EXCEPT ![p] = NoCall]
        /\ fate' = [fate EXCEPT ![p] = "refused"]
    BY <1>3 DEF Rejects
  <2>2. "refused" \in Fates
    BY DEF Fates
  <2> QED  BY <1>3, <2>1, <2>2, DropFacts, FateFacts
<1> QED  BY <1>1, <1>2, <1>3

(* The duty to start the queue.                                              *)

LEMMA WakesUp ==
    ASSUME NEW w \in 0..MaxWakeups
    PROVE  /\ Min2(w + 1, MaxWakeups) \in 0..MaxWakeups
           /\ Min2(w + 1, MaxWakeups) /= 0
  BY BoundsAssumption DEF Min2

LEMMA RescheduleFacts ==
    ASSUME TypeOK, NEW q, NEW l, NEW w \in 0..MaxWakeups, Reschedule(q, l, w)
    PROVE  /\ wakeups' \in 0..MaxWakeups /\ parked' \in BOOLEAN
           /\ timer' \in {"off", "set", "elapsed"}
  BY WakesUp DEF TypeOK, Reschedule

LEMMA ReschedulePasses ==
    ASSUME NEW q, NEW l, NEW w \in 0..MaxWakeups, Reschedule(q, l, w),
           queue' = q, Due(q, later') <=> Due(q, l), active' = active,
           timersReady' = timersReady
    PROVE  NoLostWakeup'
<1>1. CASE ~timersReady \/ ~Idle
  BY <1>1 DEF NoLostWakeup, Idle
<1>2. CASE timersReady /\ Idle /\ Due(q, l)
  <2>1. wakeups' = Min2(w + 1, MaxWakeups)
    BY <1>2 DEF Reschedule
  <2> QED  BY <2>1, WakesUp DEF NoLostWakeup
<1>3. CASE timersReady /\ Idle /\ ~Due(q, l)
  <2>1. timer' = IF q /= <<>> THEN "set" ELSE "off"
    BY <1>3 DEF Reschedule
  <2>2. ~Due(queue, later)'
    BY <1>3 DEF Due
  <2> QED  BY <2>1, <2>2 DEF NoLostWakeup
<1> QED  BY <1>1, <1>2, <1>3

\* A step that leaves the queue and its timer alone, and whoever works on it.
LEMMA WakeupStays ==
    ASSUME NoLostWakeup, Idle' => Idle, QueueAtWork => QueueAtWork',
           UNCHANGED <<queue, later, timer, timersReady, wakeups, parked>>,
           resuming' = resuming
    PROVE  NoLostWakeup'
  BY DEF NoLostWakeup, Due

LEMMA WorkStays ==
    ASSUME NEW p \in Prompts,
           \A q \in Prompts : q /= p => call'[q] = call[q],
           call[p].from = "queue" => call'[p].from = "queue"
    PROVE  QueueAtWork => QueueAtWork'
  BY DEF QueueAtWork

-----------------------------------------------------------------------------
(* A prompt comes in and is started, or joins the queue.                     *)

LEMMA PostKeeps ==
    ASSUME QueueInv, NEW p \in Prompts, Post(p) PROVE QueueInv'
<1> USE DEF Post
<1>0. /\ TypeOK /\ NoLostWakeup /\ Distinct(queue)
      /\ \A q \in Prompts : Placed(q)
  BY PlacesAre DEF QueueInv
<1>1. /\ fate[p] = "unsent" /\ fate' = [fate EXCEPT ![p] = "pending"]
      /\ "pending" \in Fates
  BY DEF Fates
<1>2. call[p] = NoCall /\ ~Has(queue, p) /\ active.prompt /= p
  BY <1>0, <1>1 DEF Placed, At
<1> DEFINE k == [from |-> IF p \in HookPrompts THEN "hook" ELSE "client",
                 at |-> "posted"]
<1>3. /\ k \in Calls /\ k /= NoCall /\ k.at = "posted" /\ k.from /= "queue"
      /\ call' = [call EXCEPT ![p] = k]
  <2>1. k \in [from : Callers, at : Places]
    BY DEF Callers, Places
  <2> QED  BY <2>1, NoCallFacts DEF Calls, Callers, Places
<1> HIDE DEF k
<1>4. /\ call' \in [Prompts -> Calls] /\ call'[p] = k
      /\ \A q \in Prompts : q /= p => call'[q] = call[q]
  BY <1>0, <1>3 DEF TypeOK
<1>5. /\ fate' \in [Prompts -> Fates] /\ fate'[p] = "pending"
      /\ \A q \in Prompts : q /= p => fate'[q] = fate[q]
  BY <1>0, <1>1, FateFacts
<1>6. later' \subseteq Prompts /\ timed' \subseteq Prompts
  BY <1>0 DEF TypeOK
<1>7. TypeOK'
  BY <1>0, <1>4, <1>5, <1>6 DEF TypeOK, duty, rest
<1>8. ASSUME NEW q \in Prompts PROVE Placed(q)'
  <2>1. CASE q = p
    BY <2>1, <1>2, <1>3, <1>4, <1>5 DEF Placed, At
  <2>2. CASE q /= p
    BY <2>2, <1>0, <1>4, <1>5, PlacedStays
  <2> QED  BY <2>1, <2>2
<1>9. NoLostWakeup'
  <2>1. QueueAtWork => QueueAtWork'
    BY <1>2, <1>4, NoCallFacts, WorkStays
  <2>2. Due(queue, later') <=> Due(queue, later)
    BY <1>2 DEF Due, Has
  <2> QED  BY <1>0, <2>1, <2>2 DEF NoLostWakeup, Idle, duty, rest, Due
<1> QED  BY <1>0, <1>7, <1>8, <1>9, Assemble

LEMMA StartOrQueueKeeps ==
    ASSUME QueueInv, NEW p \in Prompts, StartOrQueue(p) PROVE QueueInv'
<1> USE DEF StartOrQueue
<1>0. /\ TypeOK /\ NoLostWakeup /\ Distinct(queue)
      /\ \A q \in Prompts : Placed(q)
  BY PlacesAre DEF QueueInv
<1>1. call[p].at = "posted" /\ call[p] /= NoCall /\ InHand(p)
  BY NoCallFacts DEF InHand
<1> DEFINE place == IF ~Idle \/ p \in timed THEN "enqueue" ELSE "question"
<1>2. place \in Places /\ place \in {"enqueue", "question"} /\ Move(p, place)
  BY DEF Places
<1> HIDE DEF place
<1>3. /\ call' \in [Prompts -> Calls]
      /\ call'[p] /= NoCall /\ call'[p].at = place
      /\ call'[p].from = call[p].from
      /\ \A q \in Prompts : q /= p => call'[q] = call[q]
  BY <1>0, <1>1, <1>2, MoveFacts
<1>4. TypeOK'
  BY <1>0, <1>3 DEF TypeOK, disk, duty, rest, past
<1>5. ASSUME NEW q \in Prompts PROVE Placed(q)'
  <2>1. CASE q = p
    BY <2>1, <1>0, <1>1, <1>2, <1>3 DEF Placed, At, disk, past
  <2>2. CASE q /= p
    BY <2>2, <1>0, <1>3, PlacedStays DEF disk, past
  <2> QED  BY <2>1, <2>2
<1>6. NoLostWakeup'
  BY <1>0, <1>3, WorkStays, WakeupStays DEF disk, duty, rest, Idle
<1> QED  BY <1>0, <1>4, <1>5, <1>6, Assemble DEF disk

LEMMA EnqueueKeeps ==
    ASSUME QueueInv, NEW p \in Prompts, Enqueue(p) PROVE QueueInv'
<1> USE DEF Enqueue
<1>0. /\ TypeOK /\ NoLostWakeup /\ Distinct(queue)
      /\ \A q \in Prompts : Placed(q)
  BY PlacesAre DEF QueueInv
<1>1. /\ call[p].at = "enqueue" /\ call[p] /= NoCall
      /\ queue \in Seq(Prompts) /\ wakeups \in 0..MaxWakeups
  BY <1>0, NoCallFacts DEF TypeOK
<1>2. /\ fate[p] = "pending" /\ ~Has(queue, p) /\ active.prompt /= p
      /\ call[p].from /= "queue"
  BY <1>0, <1>1 DEF Placed, At
<1>3. /\ call' \in [Prompts -> Calls] /\ call'[p] = NoCall
      /\ \A q \in Prompts : q /= p => call'[q] = call[q]
  BY <1>0, DropFacts
<1>4. QueueAtWork => QueueAtWork'
  BY <1>2, <1>3, WorkStays
<1>5. CASE /\ queue' = Append(queue, p) /\ Reschedule(queue', later, wakeups)
           /\ UNCHANGED <<fate, faults>>
  <2>1. /\ queue' \in Seq(Prompts) /\ Distinct(queue')
        /\ \A x : Has(queue', x) <=> (Has(queue, x) \/ x = p)
    <3>1. queue \in Seq(Prompts) /\ Distinct(queue) /\ ~Has(queue, p)
      BY <1>0, <1>1, <1>2
    <3>2. queue' = Append(queue, p)
      BY <1>5
    <3> QED  BY <3>1, <3>2, AppendKeeps
  <2>2. /\ wakeups' \in 0..MaxWakeups /\ parked' \in BOOLEAN
        /\ timer' \in {"off", "set", "elapsed"}
    BY <1>0, <1>1, <1>5, RescheduleFacts
  <2>3. TypeOK'
    BY <1>0, <1>3, <1>5, <2>1, <2>2 DEF TypeOK, rest
  <2>4. ASSUME NEW q \in Prompts PROVE Placed(q)'
    <3>1. CASE q = p
      BY <3>1, <1>2, <1>3, <1>5, <2>1, NoCallFacts, <1>0 DEF Placed, At
    <3>2. CASE q /= p
      BY <3>2, <1>0, <1>3, <1>5, <2>1, PlacedStays
    <3> QED  BY <3>1, <3>2
  <2>5. NoLostWakeup'
    BY <1>1, <1>5, ReschedulePasses DEF rest
  <2> QED  BY <2>1, <2>3, <2>4, <2>5, Assemble
<1>6. CASE /\ Fault /\ fate' = [fate EXCEPT ![p] = "refused"]
           /\ UNCHANGED <<queue, duty>>
  <2>1. /\ fate' \in [Prompts -> Fates] /\ fate'[p] = "refused"
        /\ \A q \in Prompts : q /= p => fate'[q] = fate[q]
    BY <1>0, <1>6, FateFacts DEF Fates
  <2>2. faults' \in 0..MaxFaults
    BY <1>0, <1>6, BoundsAssumption DEF TypeOK, Fault
  <2>3. TypeOK'
    BY <1>0, <1>3, <1>6, <2>1, <2>2 DEF TypeOK, rest, duty
  <2>4. ASSUME NEW q \in Prompts PROVE Placed(q)'
    <3>1. CASE q = p
      BY <3>1, <1>0, <1>1, <1>2, <1>3, <1>6, <2>1, NoCallFacts DEF Placed, At
    <3>2. CASE q /= p
      BY <3>2, <1>0, <1>3, <1>6, <2>1, PlacedStays
    <3> QED  BY <3>1, <3>2
  <2>5. NoLostWakeup'
    BY <1>0, <1>4, <1>6, WakeupStays DEF duty, rest, Idle
  <2> QED  BY <1>0, <1>6, <2>3, <2>4, <2>5, Assemble
<1> QED  BY <1>5, <1>6

\* A start that is refused without the completion: the common part.
LEMMA RefusalKeeps ==
    ASSUME QueueInv, NEW p \in Prompts, NEW why, Rejects(p, why),
           call[p].at \in {"question", "interrupted", "chat", "resume"},
           UNCHANGED <<disk, duty, rest, active, readers, overlapped, questions,
                       edits>>,
           faults' \in 0..MaxFaults
    PROVE  QueueInv'
<1>0. /\ TypeOK /\ NoLostWakeup /\ Distinct(queue)
      /\ \A q \in Prompts : Placed(q)
  BY PlacesAre DEF QueueInv
<1>1. call[p] /= NoCall /\ InHand(p)
  BY NoCallFacts DEF InHand
<1>2. /\ call' \in [Prompts -> Calls] /\ fate' \in [Prompts -> Fates]
      /\ \A q \in Prompts :
           q /= p => call'[q] = call[q] /\ fate'[q] = fate[q]
      /\ \/ /\ fate'[p] = fate[p] /\ call'[p] /= NoCall
            /\ call'[p].from = call[p].from
            /\ \/ /\ call[p].from = "queue"
                  /\ call'[p].at \in {"park", "restore"}
               \/ call[p].from = "hook" /\ call'[p].at = "enqueue"
         \/ /\ fate'[p] = "refused" /\ call'[p] = NoCall
            /\ call[p].from /= "queue"
  BY <1>0, <1>1, RejectsFacts
<1>3. TypeOK'
  BY <1>0, <1>2 DEF TypeOK, disk, duty, rest
<1>4. ASSUME NEW q \in Prompts PROVE Placed(q)'
  <2>1. CASE q = p
    <3>1. /\ fate[p] = "pending" /\ ~Has(queue, p) /\ active.prompt /= p
      BY <1>0, <1>1 DEF Placed, At
    <3> QED  BY <2>1, <3>1, <1>2, NoCallFacts DEF Placed, At, disk
  <2>2. CASE q /= p
    BY <2>2, <1>0, <1>2, PlacedStays DEF disk
  <2> QED  BY <2>1, <2>2
<1>5. NoLostWakeup'
  <2>1. QueueAtWork => QueueAtWork'
    BY <1>2, WorkStays
  <2> QED  BY <1>0, <2>1, WakeupStays DEF disk, duty, rest, Idle
<1> QED  BY <1>0, <1>3, <1>4, <1>5, Assemble DEF disk

\* A caller goes on to a later place: the common part.
LEMMA AdvanceKeeps ==
    ASSUME QueueInv, NEW p \in Prompts,
           call[p].at \in {"question", "interrupted"},
           NEW place \in {"interrupted", "resume", "chat"}, Move(p, place),
           UNCHANGED <<disk, duty, rest, active, readers, past>>
    PROVE  QueueInv'
<1>0. /\ TypeOK /\ NoLostWakeup /\ Distinct(queue)
      /\ \A q \in Prompts : Placed(q)
  BY PlacesAre DEF QueueInv
<1>1. call[p] /= NoCall /\ InHand(p) /\ place \in Places
  BY NoCallFacts DEF InHand, Places
<1>2. /\ call' \in [Prompts -> Calls]
      /\ call'[p] /= NoCall /\ call'[p].at = place
      /\ call'[p].from = call[p].from
      /\ \A q \in Prompts : q /= p => call'[q] = call[q]
  BY <1>0, <1>1, MoveFacts
<1>3. TypeOK'
  BY <1>0, <1>2 DEF TypeOK, disk, duty, rest, past
<1>4. ASSUME NEW q \in Prompts PROVE Placed(q)'
  <2>1. CASE q = p
    BY <2>1, <1>0, <1>1, <1>2 DEF Placed, At, disk, past
  <2>2. CASE q /= p
    BY <2>2, <1>0, <1>2, PlacedStays DEF disk, past
  <2> QED  BY <2>1, <2>2
<1>5. NoLostWakeup'
  BY <1>0, <1>2, WorkStays, WakeupStays DEF disk, duty, rest, Idle
<1> QED  BY <1>0, <1>3, <1>4, <1>5, Assemble DEF disk

LEMMA FaultCounts ==
    ASSUME TypeOK, Fault \/ faults' = faults
    PROVE  faults' \in 0..MaxFaults
  BY BoundsAssumption DEF TypeOK, Fault

LEMMA ReadQuestionKeeps ==
    ASSUME QueueInv, NEW p \in Prompts, ReadQuestion(p) PROVE QueueInv'
<1> USE DEF ReadQuestion
<1>0. TypeOK
  BY DEF QueueInv
<1>1. CASE turn = "question" /\ Rejects(p, "question") /\ UNCHANGED faults
  BY <1>0, <1>1, FaultCounts, RefusalKeeps
<1>2. CASE /\ turn /= "question" /\ Move(p, "interrupted")
           /\ UNCHANGED <<fate, faults>>
  BY <1>2, AdvanceKeeps DEF past
<1>3. CASE Fault /\ Rejects(p, "error")
  BY <1>0, <1>3, FaultCounts, RefusalKeeps
<1> QED  BY <1>1, <1>2, <1>3

LEMMA ReadInterruptedKeeps ==
    ASSUME QueueInv, NEW p \in Prompts, ReadInterrupted(p) PROVE QueueInv'
<1> USE DEF ReadInterrupted
<1>0. TypeOK
  BY DEF QueueInv
<1>1. CASE /\ Move(p, IF turn = "open" THEN "resume" ELSE "chat")
           /\ UNCHANGED <<fate, faults>>
  <2> DEFINE place == IF turn = "open" THEN "resume" ELSE "chat"
  <2>1. place \in {"interrupted", "resume", "chat"} /\ Move(p, place)
    BY <1>1
  <2> HIDE DEF place
  <2> QED  BY <1>1, <2>1, AdvanceKeeps DEF past
<1>2. CASE Fault /\ Rejects(p, "error")
  BY <1>0, <1>2, FaultCounts, RefusalKeeps
<1> QED  BY <1>1, <1>2

LEMMA StartCompletionKeeps ==
    ASSUME QueueInv, NEW p \in Prompts, StartCompletion(p) PROVE QueueInv'
<1> USE DEF StartCompletion
<1>0. /\ TypeOK /\ NoLostWakeup /\ Distinct(queue)
      /\ \A q \in Prompts : Placed(q)
  BY PlacesAre DEF QueueInv
<1>1. CASE ~Idle
  <2>1. Rejects(p, "busy") /\ UNCHANGED active
    BY <1>1
  <2> QED  BY <2>1, <1>0, FaultCounts, RefusalKeeps DEF past
<1>2. CASE Idle
  <2>1. /\ active' = [prompt |-> p, at |-> "preparing",
             mode |-> IF call[p].at = "chat" THEN "chat" ELSE "close"]
        /\ Move(p, "preparing") /\ UNCHANGED fate
    BY <1>2
  <2>2. /\ active' \in Completions /\ active'.prompt = p
        /\ active'.at = "preparing" /\ ~Idle'
    BY <2>1, CompletionFacts DEF Completions, Running, Modes, Idle
  <2>3. call[p] /= NoCall /\ InHand(p) /\ "preparing" \in Places
    BY NoCallFacts DEF InHand, Places
  <2>4. /\ call' \in [Prompts -> Calls]
        /\ call'[p] /= NoCall /\ call'[p].at = "preparing"
        /\ call'[p].from = call[p].from
        /\ \A q \in Prompts : q /= p => call'[q] = call[q]
    BY <1>0, <2>1, <2>3, MoveFacts
  <2>5. TypeOK'
    BY <1>0, <2>1, <2>2, <2>4 DEF TypeOK, disk, duty, rest
  <2>6. ASSUME NEW q \in Prompts PROVE Placed(q)'
    <3>1. CASE q = p
      BY <3>1, <1>0, <2>1, <2>2, <2>3, <2>4 DEF Placed, At, disk
    <3>2. CASE q /= p
      <4>1. active.prompt /= q
        BY <1>2, CompletionFacts, NoPromptAssumption DEF Idle
      <4> QED  BY <3>2, <4>1, <1>0, <2>1, <2>2, <2>4, PlacedAside DEF disk
    <3> QED  BY <3>1, <3>2
  <2>7. NoLostWakeup'
    BY <2>2 DEF NoLostWakeup
  <2> QED  BY <1>0, <2>5, <2>6, <2>7, Assemble DEF disk
<1> QED  BY <1>1, <1>2

-----------------------------------------------------------------------------
(* The completion.                                                           *)

\* What holds of the prompt of a completion that is preparing.
LEMMA PreparingFacts ==
    ASSUME QueueInv, active.at = "preparing", NEW p \in Prompts,
           active.prompt = p
    PROVE  /\ call[p] /= NoCall /\ call[p].at = "preparing"
           /\ fate[p] = "pending" /\ ~Has(queue, p)
  BY PlacesAre, NoCallFacts DEF Placed, At

LEMMA PreparedKeeps ==
    ASSUME QueueInv, active.at = "preparing", Prepared,
           UNCHANGED <<queue, later, timed, rest, readers, edits>>,
           turn' \in {"none", "open", "question"}, answered' \in BOOLEAN,
           overlapped' \subseteq Prompts, questions' \in 0..MaxQuestions,
           faults' \in 0..MaxFaults
    PROVE  QueueInv'
<1>0. /\ TypeOK /\ NoLostWakeup /\ Distinct(queue)
      /\ \A q \in Prompts : Placed(q)
  BY PlacesAre DEF QueueInv
<1>1. /\ active' = [active EXCEPT !.at = "running"]
      /\ timer' = "off" /\ UNCHANGED <<wakeups, parked, fate>>
  BY DEF Prepared
<1>2. active \in Running
  BY <1>0, CompletionFacts DEF TypeOK
<1>3. /\ active' \in Completions /\ active'.prompt = active.prompt
      /\ active'.at = "running"
  BY <1>1, <1>2 DEF Completions, Running
<1>4. \A p \in Prompts :
        call'[p] = IF p /= active.prompt THEN call[p]
                   ELSE IF call[p].from = "queue"
                        THEN [call[p] EXCEPT !.at = "started"]
                   ELSE NoCall
  BY DEF Prepared
<1>5. ASSUME NEW p \in Prompts, p = active.prompt
      PROVE  /\ call'[p] \in Calls
             /\ call'[p] = NoCall \/ call'[p].at = "started"
             /\ call'[p].at = "started" => call'[p].from = "queue"
             /\ call[p].from = "queue" => call'[p].from = "queue"
  <2>1. call[p] \in [from : Callers, at : Places]
    BY <1>0, <1>5, PreparingFacts DEF TypeOK, Calls
  <2>2. CASE call[p].from = "queue"
    <3>1. call'[p] = [call[p] EXCEPT !.at = "started"]
      BY <1>4, <1>5, <2>2
    <3>2. /\ call'[p] \in [from : Callers, at : Places]
          /\ call'[p].at = "started" /\ call'[p].from = "queue"
      BY <2>1, <2>2, <3>1 DEF Places
    <3> QED  BY <3>2 DEF Calls
  <2>3. CASE call[p].from /= "queue"
    <3>1. call'[p] = NoCall
      BY <1>4, <1>5, <2>3
    <3> QED  BY <3>1, <2>3, NoCallFacts
  <2> QED  BY <2>2, <2>3
<1>6. call' \in [Prompts -> Calls]
  <2>1. \A p \in Prompts : call'[p] \in Calls
    BY <1>0, <1>4, <1>5 DEF TypeOK
  <2> QED  BY <2>1 DEF Prepared
<1>7. TypeOK'
  BY <1>0, <1>1, <1>3, <1>6 DEF TypeOK, rest
<1>8. ASSUME NEW p \in Prompts PROVE Placed(p)'
  <2>1. CASE p = active.prompt
    <3>1. /\ call[p] /= NoCall /\ fate[p] = "pending" /\ ~Has(queue, p)
      BY <2>1, PreparingFacts
    <3> QED  BY <2>1, <3>1, <1>1, <1>3, <1>5, NoCallFacts DEF Placed, At
  <2>2. CASE p /= active.prompt
    BY <2>2, <1>0, <1>1, <1>3, <1>4, PlacedAside
  <2> QED  BY <2>1, <2>2
<1>9. NoLostWakeup'
  <2>1. ~Idle'
    BY <1>3, CompletionFacts DEF Idle
  <2> QED  BY <2>1 DEF NoLostWakeup
<1> QED  BY <1>0, <1>7, <1>8, <1>9, Assemble

LEMMA PrepareFailsKeeps ==
    ASSUME QueueInv, active.at = "preparing", NEW why, PrepareFails(why),
           UNCHANGED <<queue, later, timed, rest, readers, edits>>,
           faults' \in 0..MaxFaults
    PROVE  QueueInv'
<1> USE DEF PrepareFails
<1>0. /\ TypeOK /\ NoLostWakeup /\ Distinct(queue)
      /\ \A q \in Prompts : Placed(q)
  BY PlacesAre DEF QueueInv
<1>1. /\ active' \in Completions /\ active'.prompt = NoPrompt /\ Idle'
      /\ active'.at = "none"
      /\ active.prompt \in Prompts \cup {NoPrompt}
  BY <1>0, CompletionFacts DEF Idle, TypeOK
<1>2. CASE active.prompt = NoPrompt
  <2>1. parked' /\ call' = call /\ fate' = fate
    BY <1>2
  <2>2. TypeOK'
    BY <1>0, <1>1, <2>1 DEF TypeOK, rest
  <2>3. ASSUME NEW p \in Prompts PROVE Placed(p)'
    BY <1>0, <1>1, <1>2, <2>1, NoPromptAssumption, PlacedAside
  <2>4. NoLostWakeup'
    BY <2>1 DEF NoLostWakeup
  <2> QED  BY <1>0, <2>2, <2>3, <2>4, Assemble
<1>3. CASE active.prompt /= NoPrompt
  <2> DEFINE p == active.prompt
  <2>1. /\ p \in Prompts /\ Rejects(p, why)
        /\ parked' = (parked \/ call[p].from /= "queue")
    BY <1>1, <1>3
  <2>2. /\ call[p] /= NoCall /\ InHand(p) /\ fate[p] = "pending"
        /\ ~Has(queue, p) /\ p /= NoPrompt
    BY <2>1, <1>3, PreparingFacts DEF InHand
  <2> HIDE DEF p
  <2>3. /\ call' \in [Prompts -> Calls] /\ fate' \in [Prompts -> Fates]
        /\ \A q \in Prompts :
             q /= p => call'[q] = call[q] /\ fate'[q] = fate[q]
        /\ \/ /\ fate'[p] = fate[p] /\ call'[p] /= NoCall
              /\ call'[p].from = call[p].from
              /\ \/ /\ call[p].from = "queue"
                    /\ call'[p].at \in {"park", "restore"}
                 \/ call[p].from = "hook" /\ call'[p].at = "enqueue"
           \/ /\ fate'[p] = "refused" /\ call'[p] = NoCall
              /\ call[p].from /= "queue"
    BY <1>0, <2>1, <2>2, RejectsFacts
  <2>4. parked' \in BOOLEAN
    BY <1>0, <2>1 DEF TypeOK
  <2>5. TypeOK'
    BY <1>0, <1>1, <2>3, <2>4 DEF TypeOK, rest
  <2>6. ASSUME NEW q \in Prompts PROVE Placed(q)'
    <3>1. CASE q = p
      BY <3>1, <1>1, <2>2, <2>3, NoCallFacts DEF Placed, At
    <3>2. CASE q /= p
      <4>1. active'.prompt /= q /\ active.prompt /= q
        BY <3>2, <1>1, NoPromptAssumption DEF p
      <4> QED  BY <3>2, <4>1, <1>0, <2>3, PlacedAside
    <3> QED  BY <3>1, <3>2
  <2>7. NoLostWakeup'
    <3>1. CASE call[p].from = "queue"
      <4>1. QueueAtWork'
        BY <3>1, <2>1, <2>3 DEF QueueAtWork
      <4> QED  BY <4>1 DEF NoLostWakeup
    <3>2. CASE call[p].from /= "queue"
      BY <3>2, <2>1 DEF NoLostWakeup
    <3> QED  BY <3>1, <3>2
  <2> QED  BY <1>0, <2>5, <2>6, <2>7, Assemble
<1> QED  BY <1>2, <1>3

LEMMA PrepareChatKeeps ==
    ASSUME QueueInv, PrepareChat PROVE QueueInv'
  BY PreparedKeeps DEF PrepareChat, QueueInv, TypeOK, disk

LEMMA AsksUserFacts ==
    ASSUME TypeOK, AsksUser
    PROVE  /\ turn' \in {"none", "open", "question"} /\ answered' \in BOOLEAN
           /\ overlapped' \subseteq Prompts /\ questions' \in 0..MaxQuestions
<1>1. active.prompt \in Prompts \cup {NoPrompt}
  BY CompletionFacts DEF TypeOK
<1>2. questions' \in 0..MaxQuestions
  BY BoundsAssumption DEF TypeOK, AsksUser
<1>3. overlapped' \subseteq Prompts
  BY <1>1 DEF TypeOK, AsksUser
<1> QED  BY <1>2, <1>3 DEF AsksUser

LEMMA PrepareResumeKeeps ==
    ASSUME QueueInv, PrepareResume PROVE QueueInv'
<1>0. /\ TypeOK /\ active.at = "preparing"
      /\ UNCHANGED <<queue, later, timed, rest, readers, edits>>
      /\ turn \in {"none", "open", "question"} /\ answered \in BOOLEAN
      /\ overlapped \subseteq Prompts /\ questions \in 0..MaxQuestions
  BY DEF PrepareResume, QueueInv, TypeOK
<1>1. ASSUME NEW why, PrepareFails(why), Fault \/ faults' = faults
      PROVE  QueueInv'
  BY <1>0, <1>1, FaultCounts, PrepareFailsKeeps
<1>2. CASE turn = "none" /\ PrepareFails("error") /\ UNCHANGED faults
  BY <1>1, <1>2
<1>3. CASE /\ turn = "question" /\ (active.mode = "close" \/ ~answered)
           /\ PrepareFails("question") /\ UNCHANGED faults
  BY <1>1, <1>3
<1>4. CASE /\ Prepared
           /\ UNCHANGED <<turn, answered, overlapped, questions, faults>>
  BY <1>0, <1>4, FaultCounts, PreparedKeeps
<1>5. CASE /\ Prepared /\ turn' = "none"
           /\ UNCHANGED <<answered, overlapped, questions, faults>>
  BY <1>0, <1>5, FaultCounts, PreparedKeeps
<1>6. CASE Prepared /\ AsksUser /\ UNCHANGED faults
  BY <1>0, <1>6, FaultCounts, AsksUserFacts, PreparedKeeps
<1>7. CASE Fault /\ PrepareFails("error")
  BY <1>1, <1>7
<1> QED  BY <1>2, <1>3, <1>4, <1>5, <1>6, <1>7 DEF PrepareResume

\* The completion is over, and its prompt, if it has one, is not pending.
LEMMA CompletesKeeps ==
    ASSUME QueueInv, active.at \in {"running", "turn"}, Completes,
           fate' \in [Prompts -> Fates],
           \A p \in Prompts : p /= active.prompt => fate'[p] = fate[p],
           \A p \in Prompts :
             p = active.prompt => fate'[p] \in {"taken", "dropped"},
           UNCHANGED <<queue, later, timed, rest, call, readers, edits>>,
           turn' \in {"none", "open", "question"}, answered' \in BOOLEAN,
           overlapped' \subseteq Prompts, questions' \in 0..MaxQuestions,
           faults' \in 0..MaxFaults
    PROVE  QueueInv'
<1>0. /\ TypeOK /\ NoLostWakeup /\ Distinct(queue)
      /\ \A q \in Prompts : Placed(q)
  BY PlacesAre DEF QueueInv
<1>1. /\ active' \in Completions /\ active'.prompt = NoPrompt
      /\ active'.at = "done" /\ UNCHANGED timer /\ parked' = FALSE
  BY CompletionFacts DEF Completes
<1>2. wakeups' \in 0..MaxWakeups /\ wakeups' /= 0
  BY <1>0, WakesUp DEF Completes, TypeOK
<1>3. TypeOK'
  BY <1>0, <1>1, <1>2 DEF TypeOK, rest
<1>4. ASSUME NEW p \in Prompts PROVE Placed(p)'
  <2>1. CASE p = active.prompt
    <3>1. /\ ~Has(queue, p) /\ p /= NoPrompt
          /\ call[p].at /= "preparing"
          /\ call[p] /= NoCall => call[p].at = "started"
          /\ call[p].at = "started" => call[p].from = "queue"
      BY <2>1, <1>0, NoPromptAssumption DEF Placed, At
    <3> QED  BY <2>1, <3>1, <1>1, NoCallFacts DEF Placed, At
  <2>2. CASE p /= active.prompt
    BY <2>2, <1>0, <1>1, NoPromptAssumption, PlacedAside
  <2> QED  BY <2>1, <2>2
<1>5. NoLostWakeup'
  BY <1>2 DEF NoLostWakeup
<1> QED  BY <1>0, <1>3, <1>4, <1>5, Assemble

LEMMA BecomesFacts ==
    ASSUME TypeOK, NEW f \in Fates, Becomes(active.prompt, f)
    PROVE  /\ fate' \in [Prompts -> Fates]
           /\ \A p \in Prompts : p /= active.prompt => fate'[p] = fate[p]
           /\ \A p \in Prompts : p = active.prompt => fate'[p] = f
<1>1. active.prompt \in Prompts \cup {NoPrompt}
  BY CompletionFacts DEF TypeOK
<1>2. CASE active.prompt = NoPrompt
  BY <1>2, NoPromptAssumption DEF Becomes, TypeOK
<1>3. CASE active.prompt /= NoPrompt
  BY <1>1, <1>3, FateFacts DEF Becomes
<1> QED  BY <1>2, <1>3

LEMMA TurnStarts ==
    ASSUME TypeOK, active.at = "running",
           active' = [active EXCEPT !.at = "turn"]
    PROVE  /\ active' \in Completions /\ active'.prompt = active.prompt
           /\ active'.at = "turn" /\ active'.mode = active.mode /\ ~Idle'
<1>1. active \in Running
  BY CompletionFacts DEF TypeOK
<1>2. /\ active'.prompt = active.prompt /\ active'.at = "turn"
      /\ active'.mode = active.mode /\ active' \in Running
  BY <1>1 DEF Running
<1>3. active' \in Completions
  BY <1>2 DEF Completions
<1> QED  BY <1>2, <1>3, CompletionFacts DEF Idle

LEMMA TakePromptKeeps ==
    ASSUME QueueInv, TakePrompt PROVE QueueInv'
<1> USE DEF TakePrompt
<1>0. /\ TypeOK /\ NoLostWakeup /\ Distinct(queue)
      /\ \A q \in Prompts : Placed(q)
      /\ active.at = "running"
      /\ UNCHANGED <<queue, later, timed, answered, rest, call, readers,
                     overlapped, questions, edits>>
  BY PlacesAre DEF QueueInv
<1>1. CASE /\ turn = "none" /\ turn' = "open" /\ Becomes(active.prompt, "taken")
           /\ active' = [active EXCEPT !.at = "turn"] /\ UNCHANGED <<duty, faults>>
  <2>1. /\ fate' \in [Prompts -> Fates]
        /\ \A p \in Prompts : p /= active.prompt => fate'[p] = fate[p]
        /\ \A p \in Prompts : p = active.prompt => fate'[p] = "taken"
    BY <1>0, <1>1, BecomesFacts DEF Fates
  <2>2. /\ active' \in Completions /\ active'.prompt = active.prompt
        /\ active'.at = "turn" /\ ~Idle'
    BY <1>0, <1>1, TurnStarts
  <2>3. TypeOK'
    BY <1>0, <1>1, <2>1, <2>2 DEF TypeOK, rest, duty
  <2>4. ASSUME NEW p \in Prompts PROVE Placed(p)'
    <3>1. CASE p = active.prompt
      <4>1. /\ ~Has(queue, p) /\ call[p].at /= "preparing"
            /\ call[p] /= NoCall => call[p].at = "started"
            /\ call[p].at = "started" => call[p].from = "queue"
        BY <3>1, <1>0 DEF Placed, At
      <4> QED  BY <3>1, <4>1, <1>0, <2>1, <2>2 DEF Placed, At
    <3>2. CASE p /= active.prompt
      BY <3>2, <1>0, <2>1, <2>2, PlacedAside
    <3> QED  BY <3>1, <3>2
  <2>5. NoLostWakeup'
    BY <2>2 DEF NoLostWakeup
  <2> QED  BY <1>0, <2>3, <2>4, <2>5, Assemble
<1>2. CASE /\ faults' = IF turn /= "none" THEN faults ELSE faults + 1
           /\ turn /= "none" \/ faults < MaxFaults
           /\ Becomes(active.prompt, "dropped")
           /\ Completes /\ UNCHANGED turn
  <2>1. /\ fate' \in [Prompts -> Fates]
        /\ \A p \in Prompts : p /= active.prompt => fate'[p] = fate[p]
        /\ \A p \in Prompts : p = active.prompt => fate'[p] = "dropped"
    BY <1>0, <1>2, BecomesFacts DEF Fates
  <2>2. faults' \in 0..MaxFaults
    BY <1>0, <1>2, FaultCounts DEF Fault
  <2>3. /\ turn' \in {"none", "open", "question"} /\ answered' \in BOOLEAN
        /\ overlapped' \subseteq Prompts /\ questions' \in 0..MaxQuestions
    BY <1>0, <1>2 DEF TypeOK
  <2> QED  BY <1>0, <1>2, <2>1, <2>2, <2>3, CompletesKeeps
<1> QED  BY <1>1, <1>2

LEMMA ContinueTurnKeeps ==
    ASSUME QueueInv, ContinueTurn PROVE QueueInv'
<1> USE DEF ContinueTurn
<1>0. /\ TypeOK /\ NoLostWakeup /\ Distinct(queue)
      /\ \A q \in Prompts : Placed(q)
  BY PlacesAre DEF QueueInv
<1>1. /\ active' \in Completions /\ active'.prompt = active.prompt
      /\ active'.at = "turn" /\ ~Idle'
  BY <1>0, TurnStarts
<1>2. active.prompt = NoPrompt
  <2>1. active \in Running
    BY <1>0, CompletionFacts DEF TypeOK
  <2> QED  BY <2>1 DEF Running
<1>3. TypeOK'
  BY <1>0, <1>1 DEF TypeOK, duty, rest, past
<1>4. ASSUME NEW p \in Prompts PROVE Placed(p)'
  BY <1>0, <1>1, <1>2, NoPromptAssumption, PlacedAside DEF past
<1>5. NoLostWakeup'
  BY <1>1 DEF NoLostWakeup
<1> QED  BY <1>0, <1>3, <1>4, <1>5, Assemble

LEMMA EndTurnKeeps ==
    ASSUME QueueInv, EndTurn PROVE QueueInv'
<1> USE DEF EndTurn
<1>0. /\ TypeOK /\ \A q \in Prompts : Placed(q)
      /\ active.at = "turn" /\ Completes
      /\ UNCHANGED <<queue, later, timed, rest, call, readers, fate, edits>>
      /\ turn \in {"none", "open", "question"} /\ answered \in BOOLEAN
      /\ overlapped \subseteq Prompts /\ questions \in 0..MaxQuestions
  BY PlacesAre DEF QueueInv, TypeOK
<1>1. /\ fate' \in [Prompts -> Fates]
      /\ \A p \in Prompts : p /= active.prompt => fate'[p] = fate[p]
      /\ \A p \in Prompts : p = active.prompt => fate'[p] \in {"taken", "dropped"}
  BY <1>0 DEF TypeOK, Placed, At
<1>2. faults' \in 0..MaxFaults
  BY <1>0, FaultCounts
<1>3. /\ turn' \in {"none", "open", "question"} /\ answered' \in BOOLEAN
      /\ overlapped' \subseteq Prompts /\ questions' \in 0..MaxQuestions
  BY <1>0, AsksUserFacts
<1> QED  BY <1>0, <1>1, <1>2, <1>3, CompletesKeeps

-----------------------------------------------------------------------------
(* Resuming without a prompt, and steps that touch no prompt.                *)

\* Nothing about the prompts, the queue or the completion changes.
LEMMA ApartKeeps ==
    ASSUME QueueInv, TypeOK', NoLostWakeup',
           UNCHANGED <<queue, call, active, fate>>
    PROVE  QueueInv'
<1>0. Distinct(queue) /\ \A q \in Prompts : Placed(q)
  BY PlacesAre
<1>1. ASSUME NEW p \in Prompts PROVE Placed(p)'
  BY <1>0, PlacedStays
<1> QED  BY <1>0, <1>1, Assemble

LEMMA ReadersKeep ==
    ASSUME QueueInv, Answer \/ FindInterrupted \/ FindAtStartup \/ CancelQuestion
    PROVE  QueueInv'
<1>0. TypeOK /\ NoLostWakeup
  BY DEF QueueInv
<1>1. TypeOK'
  BY <1>0 DEF Answer, FindInterrupted, FindAtStartup, CancelQuestion, TypeOK,
              disk, duty, rest, past
<1>2. /\ UNCHANGED <<queue, later, timer, timersReady, wakeups, parked,
                     resuming, call, active, fate>>
  BY DEF Answer, FindInterrupted, FindAtStartup, CancelQuestion, disk, duty,
         rest, past
<1>3. NoLostWakeup'
  BY <1>0, <1>2, WakeupStays DEF QueueAtWork, Idle
<1> QED  BY <1>1, <1>2, <1>3, ApartKeeps

LEMMA ResumeThreadKeeps ==
    ASSUME QueueInv, NEW r \in readers, ResumeThread(r) PROVE QueueInv'
<1> USE DEF ResumeThread
<1>0. /\ TypeOK /\ NoLostWakeup /\ Distinct(queue)
      /\ \A q \in Prompts : Placed(q)
  BY PlacesAre DEF QueueInv
<1>1. CASE ~Idle
  <2>1. UNCHANGED <<queue, call, active, fate>>
    BY <1>1 DEF disk, past
  <2>2. TypeOK'
    BY <1>0, <2>1 DEF TypeOK, disk, duty, rest, past
  <2>3. NoLostWakeup'
    BY <1>0, <2>1, WakeupStays DEF disk, duty, rest, Idle, QueueAtWork
  <2> QED  BY <2>1, <2>2, <2>3, ApartKeeps
<1>2. CASE Idle
  <2>1. active' = [prompt |-> NoPrompt, at |-> "preparing",
                   mode |-> IF r = "startup" THEN "close" ELSE "continue"]
    BY <1>2
  <2>2. /\ active' \in Completions /\ active'.prompt = NoPrompt
        /\ active'.at = "preparing"
    BY <2>1 DEF Completions, Running, Modes
  <2>3. active.prompt = NoPrompt /\ ~Idle'
    BY <1>2, <2>2, CompletionFacts DEF Idle
  <2>4. TypeOK'
    BY <1>0, <2>2 DEF TypeOK, disk, duty, rest, past
  <2>5. ASSUME NEW p \in Prompts PROVE Placed(p)'
    BY <1>0, <2>2, <2>3, NoPromptAssumption, PlacedAside DEF disk, past
  <2>6. NoLostWakeup'
    BY <2>3 DEF NoLostWakeup
  <2> QED  BY <1>0, <2>4, <2>5, <2>6, Assemble DEF disk
<1> QED  BY <1>1, <1>2

LEMMA EnableTimersKeeps ==
    ASSUME QueueInv, EnableTimers PROVE QueueInv'
<1>1. TypeOK'
  BY DEF QueueInv, TypeOK, EnableTimers, disk, duty, past
<1>2. NoLostWakeup'
  BY DEF NoLostWakeup, EnableTimers
<1> QED  BY <1>1, <1>2, ApartKeeps DEF EnableTimers, disk, past

LEMMA ResumeTimersKeeps ==
    ASSUME QueueInv, ResumeTimers PROVE QueueInv'
<1> USE DEF ResumeTimers
<1>0. TypeOK /\ wakeups \in 0..MaxWakeups
  BY DEF QueueInv, TypeOK
<1>1. TypeOK'
  BY <1>0, RescheduleFacts DEF TypeOK, disk, past
<1>2. NoLostWakeup'
  BY <1>0, ReschedulePasses DEF disk
<1> QED  BY <1>1, <1>2, ApartKeeps DEF disk, past

LEMMA TimePassesKeeps ==
    ASSUME QueueInv, NEW p \in Prompts, TimePasses(p) PROVE QueueInv'
<1> USE DEF TimePasses
<1>0. TypeOK /\ NoLostWakeup
  BY DEF QueueInv
<1>1. TypeOK'
  BY <1>0 DEF TypeOK, rest, past
<1>2. NoLostWakeup'
  <2>1. CASE Queued(p)
    <3>1. /\ ~(/\ timersReady /\ ~resuming /\ Idle /\ queue /= <<>>
               /\ wakeups = 0 /\ ~QueueAtWork /\ ~parked)
          \/ timer \in {"set", "elapsed"}
      BY <1>0 DEF NoLostWakeup
    <3>2. timer \in {"set", "elapsed"} => timer' = "elapsed"
      BY <2>1
    <3>3. QueueAtWork' = QueueAtWork /\ Idle' = Idle
      BY DEF QueueAtWork, Idle
    <3> QED  BY <3>1, <3>2, <3>3 DEF NoLostWakeup, rest
  <2>2. CASE ~Queued(p)
    <3>1. Due(queue, later') <=> Due(queue, later)
      BY <2>2 DEF Due, Queued
    <3>2. timer' = timer
      BY <2>2
    <3>3. QueueAtWork' = QueueAtWork /\ Idle' = Idle
      BY DEF QueueAtWork, Idle
    <3> QED  BY <1>0, <3>1, <3>2, <3>3 DEF NoLostWakeup, rest, Due
  <2> QED  BY <2>1, <2>2
<1> QED  BY <1>1, <1>2, ApartKeeps DEF past

LEMMA FireTimerKeeps ==
    ASSUME QueueInv, FireTimer PROVE QueueInv'
<1> USE DEF FireTimer
<1>0. TypeOK /\ wakeups \in 0..MaxWakeups
  BY DEF QueueInv, TypeOK
<1>1. wakeups' \in 0..MaxWakeups /\ wakeups' /= 0
  BY <1>0, WakesUp
<1>2. TypeOK'
  BY <1>0, <1>1 DEF TypeOK, disk, rest, past
<1>3. NoLostWakeup'
  BY <1>1 DEF NoLostWakeup
<1> QED  BY <1>2, <1>3, ApartKeeps DEF disk, past

-----------------------------------------------------------------------------
(* The queue is started and edited.                                          *)

LEMMA StopAndRescheduleKeeps ==
    ASSUME QueueInv, wakeups > 0, StopAndReschedule, faults' \in 0..MaxFaults,
           UNCHANGED <<queue, call, later, timed, turn, answered, rest, active,
                       readers, fate, overlapped, questions, edits>>
    PROVE  QueueInv'
<1>0. TypeOK /\ wakeups \in 0..MaxWakeups /\ wakeups - 1 \in 0..MaxWakeups
  BY BoundsAssumption DEF QueueInv, TypeOK
<1>1. CASE timersReady
  <2>1. Reschedule(queue, later, wakeups - 1)
    BY <1>1 DEF StopAndReschedule
  <2>2. /\ wakeups' \in 0..MaxWakeups /\ parked' \in BOOLEAN
        /\ timer' \in {"off", "set", "elapsed"}
    BY <1>0, <2>1, RescheduleFacts
  <2>3. TypeOK'
    BY <1>0, <2>2 DEF TypeOK, rest
  <2>4. NoLostWakeup'
    BY <1>0, <2>1, ReschedulePasses DEF rest
  <2> QED  BY <2>3, <2>4, ApartKeeps
<1>2. CASE ~timersReady
  <2>1. wakeups' = wakeups - 1 /\ timer' = "off" /\ UNCHANGED parked
    BY <1>2 DEF StopAndReschedule
  <2>2. TypeOK'
    BY <1>0, <2>1 DEF TypeOK, rest
  <2>3. NoLostWakeup'
    BY <1>2 DEF NoLostWakeup, rest
  <2> QED  BY <2>2, <2>3, ApartKeeps
<1> QED  BY <1>1, <1>2

LEMMA StartNextKeeps ==
    ASSUME QueueInv, StartNext PROVE QueueInv'
<1> USE DEF StartNext
<1>0. /\ TypeOK /\ NoLostWakeup /\ Distinct(queue)
      /\ \A q \in Prompts : Placed(q)
      /\ queue \in Seq(Prompts) /\ wakeups - 1 \in 0..MaxWakeups
      /\ UNCHANGED <<later, timed, turn, answered, rest, active, readers, fate,
                     overlapped, questions, edits>>
  BY PlacesAre, BoundsAssumption DEF QueueInv, TypeOK
<1>1. CASE /\ StopAndReschedule
           /\ Fault \/ faults' = faults
           /\ UNCHANGED <<queue, call>>
  <2>1. faults' \in 0..MaxFaults
    BY <1>0, <1>1, FaultCounts
  <2>2. wakeups > 0
    OBVIOUS
  <2> QED  BY <1>0, <1>1, <2>1, <2>2, StopAndRescheduleKeeps
<1>2. ASSUME NEW i \in DOMAIN queue, queue' = Popped(i),
             call' = [call EXCEPT ![queue[i]] =
                         [from |-> "queue", at |-> "question"]],
             timer' = "off", wakeups' = wakeups - 1, UNCHANGED <<parked, faults>>
      PROVE  QueueInv'
  <2> DEFINE p == queue[i]
             k == [from |-> "queue", at |-> "question"]
  <2>1. p \in Prompts /\ Has(queue, p)
    BY <1>0 DEF Has
  <2>2. k \in Calls /\ k /= NoCall /\ k.at = "question" /\ k.from = "queue"
    <3>1. k \in [from : Callers, at : Places]
      BY DEF Callers, Places
    <3> QED  BY <3>1, NoCallFacts DEF Calls, Callers, Places
  <2>3. call' = [call EXCEPT ![p] = k]
    BY <1>2
  <2>4. /\ queue' \in Seq(Prompts) /\ Distinct(queue')
        /\ \A x : Has(queue', x) <=> (Has(queue, x) /\ x /= p)
    BY <1>0, <1>2, RemoveKeeps DEF Popped
  <2> HIDE DEF p, k
  <2>5. /\ call' \in [Prompts -> Calls] /\ call'[p] = k
        /\ \A q \in Prompts : q /= p => call'[q] = call[q]
    BY <1>0, <2>1, <2>2, <2>3 DEF TypeOK
  <2>6. TypeOK'
    BY <1>0, <1>2, <2>4, <2>5 DEF TypeOK, rest
  <2>7. ASSUME NEW q \in Prompts PROVE Placed(q)'
    <3>1. CASE q = p
      BY <3>1, <1>0, <2>1, <2>2, <2>4, <2>5 DEF Placed, At
    <3>2. CASE q /= p
      BY <3>2, <1>0, <2>4, <2>5, PlacedStays
    <3> QED  BY <3>1, <3>2
  <2>8. NoLostWakeup'
    <3>1. QueueAtWork'
      BY <2>1, <2>2, <2>5 DEF QueueAtWork
    <3> QED  BY <3>1 DEF NoLostWakeup
  <2> QED  BY <2>4, <2>6, <2>7, <2>8, Assemble
<1>3. \/ \E i \in DOMAIN queue :
           /\ queue' = Popped(i)
           /\ call' = [call EXCEPT ![queue[i]] =
                          [from |-> "queue", at |-> "question"]]
           /\ timer' = "off" /\ wakeups' = wakeups - 1
           /\ UNCHANGED <<parked, faults>>
      \/ /\ StopAndReschedule
         /\ Fault \/ faults' = faults
         /\ UNCHANGED <<queue, call>>
  OBVIOUS
<1> QED  BY <1>1, <1>2, <1>3

LEMMA FinishStartKeeps ==
    ASSUME QueueInv, NEW p \in Prompts, FinishStart(p) PROVE QueueInv'
<1> USE DEF FinishStart
<1>0. /\ TypeOK /\ NoLostWakeup /\ Distinct(queue)
      /\ \A q \in Prompts : Placed(q)
      /\ wakeups \in 0..MaxWakeups
  BY PlacesAre DEF QueueInv, TypeOK
<1>1. /\ call' \in [Prompts -> Calls] /\ call'[p] = NoCall
      /\ \A q \in Prompts : q /= p => call'[q] = call[q]
  BY <1>0, DropFacts
<1>2. /\ wakeups' \in 0..MaxWakeups /\ parked' \in BOOLEAN
      /\ timer' \in {"off", "set", "elapsed"}
  BY <1>0, RescheduleFacts
<1>3. TypeOK'
  BY <1>0, <1>1, <1>2 DEF TypeOK, disk, rest, past
<1>4. ASSUME NEW q \in Prompts PROVE Placed(q)'
  <2>1. CASE q = p
    <3>1. /\ call[p].at = "started" /\ call[p] /= NoCall /\ ~Has(queue, p)
          /\ fate[p] /= "unsent"
          /\ fate[p] = "pending" => active.prompt = p
      BY <1>0, NoCallFacts DEF Placed, At
    <3> QED  BY <2>1, <3>1, <1>0, <1>1, NoCallFacts DEF Placed, At, disk, past
  <2>2. CASE q /= p
    BY <2>2, <1>0, <1>1, PlacedStays DEF disk, past
  <2> QED  BY <2>1, <2>2
<1>5. NoLostWakeup'
  BY <1>0, ReschedulePasses DEF disk, rest
<1> QED  BY <1>0, <1>3, <1>4, <1>5, Assemble DEF disk

LEMMA RestoreKeeps ==
    ASSUME QueueInv, NEW p \in Prompts, Restore(p) PROVE QueueInv'
<1> USE DEF Restore
<1>0. /\ TypeOK /\ NoLostWakeup /\ Distinct(queue)
      /\ \A q \in Prompts : Placed(q)
      /\ wakeups \in 0..MaxWakeups /\ queue \in Seq(Prompts)
  BY PlacesAre DEF QueueInv, TypeOK
<1>1. /\ call' \in [Prompts -> Calls] /\ call'[p] = NoCall
      /\ \A q \in Prompts : q /= p => call'[q] = call[q]
  BY <1>0, DropFacts
<1>2. /\ call[p] /= NoCall /\ call[p].at \in {"park", "restore"}
      /\ fate[p] = "pending" /\ ~Has(queue, p) /\ active.prompt /= p
  BY <1>0, NoCallFacts DEF Placed, At
<1>3. later' \subseteq Prompts /\ timed' \subseteq Prompts
  BY <1>0 DEF TypeOK
<1>4. /\ later' = later \/ later' = later \cup {p}
      /\ active' = active /\ UNCHANGED rest
  OBVIOUS
<1>5. CASE /\ queue' = <<p>> \o queue /\ UNCHANGED <<fate, faults>>
           /\ \/ Reschedule(queue', later', wakeups)
              \/ parked' = TRUE /\ UNCHANGED <<timer, wakeups>>
  <2>1. /\ queue' \in Seq(Prompts) /\ Distinct(queue')
        /\ \A x : Has(queue', x) <=> (Has(queue, x) \/ x = p)
    <3>1. /\ queue \in Seq(Prompts) /\ p \in Prompts /\ Distinct(queue)
          /\ ~Has(queue, p) /\ queue' = <<p>> \o queue
      BY <1>0, <1>2, <1>5
    <3> QED  BY ONLY <3>1, PrependKeeps
  <2>2. /\ wakeups' \in 0..MaxWakeups /\ parked' \in BOOLEAN
        /\ timer' \in {"off", "set", "elapsed"}
    <3>1. CASE Reschedule(queue', later', wakeups)
      BY <3>1, <1>0, RescheduleFacts
    <3>2. CASE parked' = TRUE /\ UNCHANGED <<timer, wakeups>>
      BY <3>2, <1>0 DEF TypeOK
    <3> QED  BY <3>1, <3>2, <1>5
  <2>3. TypeOK'
    BY <1>0, <1>1, <1>3, <1>5, <2>1, <2>2 DEF TypeOK, rest
  <2>4. ASSUME NEW q \in Prompts PROVE Placed(q)'
    <3>1. CASE q = p
      BY <3>1, <1>0, <1>1, <1>2, <1>4, <1>5, <2>1, NoCallFacts DEF Placed, At
    <3>2. CASE q /= p
      BY <3>2, <1>0, <1>1, <1>4, <1>5, <2>1, PlacedStays
    <3> QED  BY <3>1, <3>2
  <2>5. NoLostWakeup'
    <3>1. CASE Reschedule(queue', later', wakeups)
      BY <3>1, <1>0, <1>4, ReschedulePasses DEF rest
    <3>2. CASE parked' = TRUE
      BY <3>2 DEF NoLostWakeup
    <3> QED  BY <3>1, <3>2, <1>5
  <2> QED  BY <2>1, <2>3, <2>4, <2>5, Assemble
<1>6. CASE /\ Fault /\ fate' = [fate EXCEPT ![p] = "dropped"]
           /\ Reschedule(queue, later, wakeups) /\ UNCHANGED queue
  <2>1. /\ fate' \in [Prompts -> Fates] /\ fate'[p] = "dropped"
        /\ \A q \in Prompts : q /= p => fate'[q] = fate[q]
    BY <1>0, <1>6, FateFacts DEF Fates
  <2>2. /\ wakeups' \in 0..MaxWakeups /\ parked' \in BOOLEAN
        /\ timer' \in {"off", "set", "elapsed"}
    BY <1>0, <1>6, RescheduleFacts
  <2>3. TypeOK'
    BY <1>0, <1>1, <1>3, <1>6, <2>1, <2>2, FaultCounts DEF TypeOK, rest
  <2>4. ASSUME NEW q \in Prompts PROVE Placed(q)'
    <3>1. CASE q = p
      BY <3>1, <1>0, <1>1, <1>2, <1>4, <1>6, <2>1, NoCallFacts DEF Placed, At
    <3>2. CASE q /= p
      BY <3>2, <1>0, <1>1, <1>4, <1>6, <2>1, PlacedStays
    <3> QED  BY <3>1, <3>2
  <2>5. NoLostWakeup'
    <3>1. Due(queue, later') <=> Due(queue, later)
      BY <1>2, <1>4 DEF Due, Has
    <3> QED  BY <3>1, <1>0, <1>4, <1>6, ReschedulePasses DEF rest
  <2> QED  BY <1>0, <1>6, <2>3, <2>4, <2>5, Assemble
<1> QED  BY <1>5, <1>6

LEMMA DeleteKeeps ==
    ASSUME QueueInv, NEW i \in DOMAIN queue, Delete(i) PROVE QueueInv'
<1> USE DEF Delete
<1>0. /\ TypeOK /\ NoLostWakeup /\ Distinct(queue)
      /\ \A q \in Prompts : Placed(q)
      /\ wakeups \in 0..MaxWakeups /\ queue \in Seq(Prompts)
  BY PlacesAre DEF QueueInv, TypeOK
<1> DEFINE p == queue[i]
<1>1. p \in Prompts /\ Has(queue, p) /\ fate' = [fate EXCEPT ![p] = "deleted"]
  BY <1>0 DEF Has
<1>2. /\ queue' \in Seq(Prompts) /\ Distinct(queue')
      /\ \A x : Has(queue', x) <=> (Has(queue, x) /\ x /= p)
  BY <1>0, RemoveKeeps
<1> HIDE DEF p
<1>3. /\ fate' \in [Prompts -> Fates] /\ fate'[p] = "deleted"
      /\ \A q \in Prompts : q /= p => fate'[q] = fate[q]
  BY <1>0, <1>1, FateFacts DEF Fates
<1>4. /\ wakeups' \in 0..MaxWakeups /\ parked' \in BOOLEAN
      /\ timer' \in {"off", "set", "elapsed"}
  BY <1>0, RescheduleFacts
<1>5. TypeOK'
  BY <1>0, <1>2, <1>3, <1>4 DEF TypeOK, rest
<1>6. ASSUME NEW q \in Prompts PROVE Placed(q)'
  <2>1. CASE q = p
    BY <2>1, <1>0, <1>1, <1>2, <1>3, NoCallFacts DEF Placed, At
  <2>2. CASE q /= p
    BY <2>2, <1>0, <1>2, <1>3, PlacedStays
  <2> QED  BY <2>1, <2>2
<1>7. NoLostWakeup'
  BY <1>0, ReschedulePasses DEF rest
<1> QED  BY <1>2, <1>5, <1>6, <1>7, Assemble

LEMMA UpdatePromptKeeps ==
    ASSUME QueueInv, NEW i \in DOMAIN queue, UpdatePrompt(i) PROVE QueueInv'
<1>0. /\ TypeOK /\ NoLostWakeup /\ Distinct(queue)
      /\ \A q \in Prompts : Placed(q)
      /\ wakeups \in 0..MaxWakeups /\ queue \in Seq(Prompts)
      /\ queue[i] \in Prompts
  BY PlacesAre DEF QueueInv, TypeOK
<1>1. /\ Reschedule(queue', later', wakeups)
      /\ edits < MaxEdits /\ edits' = edits + 1
      /\ UNCHANGED <<turn, answered, rest, call, active, readers, fate,
                     overlapped, questions, faults>>
  BY DEF UpdatePrompt
<1>2. later' \subseteq Prompts /\ timed' \subseteq Prompts
  BY <1>0 DEF UpdatePrompt, TypeOK
<1>3. /\ queue' \in Seq(Prompts) /\ Distinct(queue')
      /\ \A x : Has(queue', x) <=> Has(queue, x)
  <2>1. CASE queue' = queue
    BY <2>1, <1>0
  <2>2. ASSUME NEW k \in DOMAIN queue,
               queue' = InsertAt(RemoveAt(queue, i), k, queue[i])
        PROVE  /\ queue' \in Seq(Prompts) /\ Distinct(queue')
               /\ \A x : Has(queue', x) <=> Has(queue, x)
    BY <2>2, <1>0, MoveKeeps
  <2> QED  BY <2>1, <2>2 DEF UpdatePrompt
<1>4. /\ wakeups' \in 0..MaxWakeups /\ parked' \in BOOLEAN
      /\ timer' \in {"off", "set", "elapsed"}
  BY <1>0, <1>1, RescheduleFacts
<1>5. edits' \in 0..MaxEdits
  BY <1>0, <1>1, BoundsAssumption DEF TypeOK
<1>6. TypeOK'
  BY <1>0, <1>1, <1>2, <1>3, <1>4, <1>5 DEF TypeOK, rest
<1>7. ASSUME NEW q \in Prompts PROVE Placed(q)'
  BY <1>0, <1>1, <1>3, PlacedStays
<1>8. NoLostWakeup'
  BY <1>0, <1>1, ReschedulePasses DEF rest
<1> QED  BY <1>3, <1>6, <1>7, <1>8, Assemble

LEMMA CrashKeeps ==
    ASSUME QueueInv, Crash PROVE QueueInv'
<1>0. /\ TypeOK /\ Distinct(queue) /\ \A q \in Prompts : Placed(q)
      /\ fate \in [Prompts -> Fates]
  BY PlacesAre DEF QueueInv, TypeOK
<1>1. /\ \A p \in Prompts : call'[p] = NoCall
      /\ call' \in [Prompts -> Calls]
  BY NoCallFacts DEF Crash
<1>2. /\ fate' \in [Prompts -> Fates]
      /\ \A p \in Prompts :
           /\ fate'[p] = "pending" <=> (fate[p] = "pending" /\ Has(queue, p))
           /\ fate'[p] = "unsent" <=> fate[p] = "unsent"
  <2>1. \A p \in Prompts :
          fate'[p] = IF fate[p] /= "pending" \/ Has(queue, p) THEN fate[p]
                     ELSE IF call[p].from \in {"client", "hook"} THEN "refused"
                     ELSE "dropped"
    BY DEF Crash, Has, Queued
  <2>2. \A p \in Prompts : fate'[p] \in Fates
    BY <1>0, <2>1 DEF Fates
  <2>3. fate' \in [Prompts -> Fates]
    BY <2>2 DEF Crash
  <2> QED  BY <2>1, <2>3
<1>3. /\ active' \in Completions /\ active'.prompt = NoPrompt
      /\ active'.at = "none" /\ queue' = queue
  BY CompletionFacts DEF Crash, disk
<1>4. TypeOK'
  <2>1. faults' \in 0..MaxFaults
    BY <1>0, FaultCounts DEF Crash
  <2>2. wakeups' \in 0..MaxWakeups
    BY BoundsAssumption DEF Crash
  <2>3. /\ queue' \in Seq(Prompts)
        /\ later' \subseteq Prompts /\ timed' \subseteq Prompts
        /\ turn' \in {"none", "open", "question"} /\ answered' \in BOOLEAN
        /\ overlapped' \subseteq Prompts
        /\ questions' \in 0..MaxQuestions /\ edits' \in 0..MaxEdits
    BY <1>0 DEF TypeOK, Crash, disk
  <2>4. /\ timer' = "off" /\ timersReady' = FALSE /\ resuming' = FALSE
        /\ recover' = TRUE /\ parked' = FALSE /\ readers' = {}
    BY DEF Crash
  <2> QED  BY <1>1, <1>2, <1>3, <2>1, <2>2, <2>3, <2>4 DEF TypeOK
<1>5. ASSUME NEW p \in Prompts PROVE Placed(p)'
  BY <1>0, <1>1, <1>2, <1>3, NoCallFacts, NoPromptAssumption DEF Placed, At
<1>6. NoLostWakeup'
  BY DEF NoLostWakeup, Crash
<1> QED  BY <1>0, <1>3, <1>4, <1>5, <1>6, Assemble

-----------------------------------------------------------------------------
LEMMA InitHolds == Init => QueueInv
<1> SUFFICES ASSUME Init PROVE QueueInv
  OBVIOUS
<1>1. TypeOK
  <2>1. call \in [Prompts -> Calls] /\ fate \in [Prompts -> Fates]
    BY NoCallFacts DEF Init, Fates
  <2>2. /\ wakeups \in 0..MaxWakeups /\ questions \in 0..MaxQuestions
        /\ edits \in 0..MaxEdits /\ faults \in 0..MaxFaults
    BY BoundsAssumption DEF Init
  <2>3. queue \in Seq(Prompts) /\ active \in Completions
    BY CompletionFacts DEF Init
  <2> QED  BY <2>1, <2>2, <2>3 DEF Init, TypeOK
<1>2. OnePlace
  BY DEF Init, OnePlace, Queued
<1>3. HandsAgree
  BY NoCallFacts, CompletionFacts, NoPromptAssumption
  DEF Init, HandsAgree, InHand
<1>4. NoLostWakeup
  BY DEF Init, NoLostWakeup
<1> QED  BY <1>1, <1>2, <1>3, <1>4 DEF QueueInv

LEMMA StutterKeeps ==
    ASSUME QueueInv, UNCHANGED vars PROVE QueueInv'
<1>1. TypeOK'
  BY DEF QueueInv, TypeOK, vars
<1>2. NoLostWakeup'
  BY WakeupStays DEF QueueInv, vars, Idle, QueueAtWork
<1> QED  BY <1>1, <1>2, ApartKeeps DEF vars

LEMMA NextKeeps ==
    ASSUME QueueInv, Next PROVE QueueInv'
<1>1. ASSUME NEW p \in Prompts, CallStep(p) PROVE QueueInv'
  BY <1>1, StartOrQueueKeeps, EnqueueKeeps, ReadQuestionKeeps,
     ReadInterruptedKeeps, StartCompletionKeeps, FinishStartKeeps, RestoreKeeps
  DEF CallStep
<1>2. CASE CompletionStep
  BY <1>2, PrepareChatKeeps, PrepareResumeKeeps, TakePromptKeeps,
     ContinueTurnKeeps, EndTurnKeeps DEF CompletionStep
<1>3. CASE ReaderStep
  BY <1>3, ReadersKeep, ResumeThreadKeeps DEF ReaderStep
<1>4. CASE Clock
  BY <1>4, TimePassesKeeps DEF Clock
<1>5. CASE FireTimer \/ ResumeTimers \/ StartNext
  BY <1>5, FireTimerKeeps, ResumeTimersKeeps, StartNextKeeps
<1>6. CASE Environment
  BY <1>6, PostKeeps, DeleteKeeps, UpdatePromptKeeps, ReadersKeep,
     EnableTimersKeeps, CrashKeeps DEF Environment
<1> QED  BY <1>1, <1>2, <1>3, <1>4, <1>5, <1>6 DEF Next

\* The invariant holds of every behaviour of a thread's queue, for any number
\* of prompts, hooks, wake-ups, questions, edits, errors and crashes.
THEOREM QueueInvariant == Spec => []QueueInv
<1>1. Init => QueueInv
  BY InitHolds
<1>2. QueueInv /\ [Next]_vars => QueueInv'
  BY NextKeeps, StutterKeeps
<1> QED  BY <1>1, <1>2, PTL DEF Spec

\* Every value of the agent's queue, of its timers and of the completion has
\* its type.
THEOREM QueueTypes == Spec => []TypeOK
<1>1. QueueInv => TypeOK
  BY DEF QueueInv
<1> QED  BY <1>1, QueueInvariant, PTL

\* A prompt that was sent, and not refused, deleted or taken by a turn, is once
\* in the queue, in the hands of one caller or with the completion
\* (Pop, restore, startPromptRequest).
THEOREM PromptInOnePlace == Spec => []OnePlace
<1>1. QueueInv => OnePlace
  BY DEF QueueInv
<1> QED  BY <1>1, QueueInvariant, PTL

\* In an idle thread with a prompt waiting somebody has the duty to start it,
\* unless it was given up in one of the places that parked names
\* (rescheduleLocked, StartNext, OnTurnComplete).
THEOREM WakeupIsPassedOn == Spec => []NoLostWakeup
<1>1. QueueInv => NoLostWakeup
  BY DEF QueueInv
<1> QED  BY <1>1, QueueInvariant, PTL

-----------------------------------------------------------------------------
(* Why prompts are dropped.                                                  *)

LEMMA DropCallSteps ==
    ASSUME QueueInv, DropInv, NEW p \in Prompts, CallStep(p) PROVE DropInv'
<1>0. TypeOK
  BY DEF QueueInv
<1>1. CASE StartOrQueue(p)
  <2> USE <1>1 DEF StartOrQueue
  <2> DEFINE place == IF ~Idle \/ p \in timed THEN "enqueue" ELSE "question"
  <2>1. /\ place \in Places /\ place \in {"enqueue", "question"}
        /\ Move(p, place) /\ InHand(p)
    BY NoCallFacts DEF Places, InHand
  <2> HIDE DEF place
  <2>2. /\ call'[p].at \in {"enqueue", "question"}
        /\ \A q \in Prompts : q /= p => call'[q] = call[q]
    BY <1>0, <2>1, MoveFacts
  <2> QED  BY <2>2 DEF DropInv, DroppedNeedsQuestion, disk, past
<1>2. CASE Enqueue(p)
  <2>1. /\ call'[p] = NoCall
        /\ \A q \in Prompts : q /= p => call'[q] = call[q]
        /\ UNCHANGED <<turn, active, overlapped>>
    BY <1>0, <1>2, DropFacts DEF Enqueue
  <2>2. fate' = fate \/ fate' = [fate EXCEPT ![p] = "refused"]
    BY <1>2 DEF Enqueue
  <2>3. faults' = 0 => faults = 0
    BY <1>0, <1>2 DEF Enqueue, Fault, TypeOK
  <2> QED  BY <1>0, <2>1, <2>2, <2>3, NoCallFacts
           DEF DropInv, DroppedNeedsQuestion, TypeOK
<1>3. ASSUME NEW why, Rejects(p, why), InHand(p),
             UNCHANGED <<turn, active, overlapped>>, Fault \/ faults' = faults
      PROVE  DropInv'
  <2>1. /\ \A q \in Prompts : q /= p => call'[q] = call[q] /\ fate'[q] = fate[q]
        /\ call'[p].at \in {"park", "restore", "enqueue", "nowhere"}
        /\ fate'[p] \in {fate[p], "refused"}
    BY <1>0, <1>3, RejectsFacts, NoCallFacts
  <2>2. faults' = 0 => faults = 0
    BY <1>0, <1>3 DEF Fault, TypeOK
  <2> QED  BY <1>3, <2>1, <2>2 DEF DropInv, DroppedNeedsQuestion
<1>4. CASE ReadQuestion(p)
  <2>1. InHand(p) /\ UNCHANGED <<turn, active, overlapped>>
    BY <1>4, NoCallFacts DEF ReadQuestion, InHand, disk
  <2>2. CASE /\ turn /= "question" /\ Move(p, "interrupted")
             /\ UNCHANGED <<fate, faults>>
    <3>1. \A q \in Prompts : q /= p => call'[q] = call[q]
      BY <1>0, <2>1, <2>2, MoveFacts DEF Places
    <3> QED  BY <2>1, <2>2, <3>1 DEF DropInv, DroppedNeedsQuestion
  <2> QED  BY <1>3, <1>4, <2>1, <2>2 DEF ReadQuestion
<1>5. CASE ReadInterrupted(p)
  <2>1. /\ InHand(p) /\ UNCHANGED <<turn, active, overlapped>>
        /\ call[p].at = "interrupted"
    BY <1>5, NoCallFacts DEF ReadInterrupted, InHand, disk
  <2>2. CASE /\ Move(p, IF turn = "open" THEN "resume" ELSE "chat")
             /\ UNCHANGED <<fate, faults>>
    <3>1. \A q \in Prompts : q /= p => call'[q] = call[q]
      BY <1>0, <2>1, <2>2, MoveFacts DEF Places
    <3> QED  BY <2>1, <2>2, <3>1 DEF DropInv, DroppedNeedsQuestion
  <2> QED  BY <1>3, <1>5, <2>1, <2>2 DEF ReadInterrupted
<1>6. CASE StartCompletion(p)
  <2>1. /\ InHand(p) /\ UNCHANGED <<turn, overlapped, faults>>
        /\ call[p].at \in {"chat", "resume"}
    BY <1>6, NoCallFacts DEF StartCompletion, InHand, disk
  <2>2. CASE Idle
    <3>1. /\ active' = [prompt |-> p, at |-> "preparing",
               mode |-> IF call[p].at = "chat" THEN "chat" ELSE "close"]
          /\ Move(p, "preparing") /\ UNCHANGED fate
      BY <1>6, <2>2 DEF StartCompletion
    <3>2. active'.prompt = p /\ active'.at = "preparing" /\ active.at /= "turn"
      BY <2>2, <3>1, CompletionFacts DEF Idle
    <3>3. /\ call'[p].at = "preparing"
          /\ \A q \in Prompts : q /= p => call'[q] = call[q]
      BY <1>0, <2>1, <3>1, MoveFacts DEF Places
    <3> QED  BY <2>1, <3>1, <3>2, <3>3 DEF DropInv, DroppedNeedsQuestion
  <2>3. CASE ~Idle
    BY <1>3, <1>6, <2>1, <2>3 DEF StartCompletion
  <2> QED  BY <2>2, <2>3
<1>7. CASE FinishStart(p)
  <2>1. /\ call'[p] = NoCall
        /\ \A q \in Prompts : q /= p => call'[q] = call[q]
        /\ UNCHANGED <<turn, active, overlapped, fate, faults>>
    BY <1>0, <1>7, DropFacts DEF FinishStart, disk, past
  <2> QED  BY <2>1, NoCallFacts DEF DropInv, DroppedNeedsQuestion
<1>8. CASE Restore(p)
  <2>1. /\ call'[p] = NoCall
        /\ \A q \in Prompts : q /= p => call'[q] = call[q]
        /\ UNCHANGED <<turn, active, overlapped>>
    BY <1>0, <1>8, DropFacts DEF Restore
  <2>2. (fate' = fate /\ faults' = faults) \/ Fault
    BY <1>8 DEF Restore
  <2>3. CASE Fault
    <3>1. faults' /= 0
      BY <1>0, <2>3 DEF Fault, TypeOK
    <3> QED  BY <3>1 DEF DropInv, DroppedNeedsQuestion
  <2>4. CASE fate' = fate /\ faults' = faults
    BY <2>1, <2>4, NoCallFacts DEF DropInv, DroppedNeedsQuestion
  <2> QED  BY <2>2, <2>3, <2>4
<1> QED  BY <1>1, <1>2, <1>4, <1>5, <1>6, <1>7, <1>8 DEF CallStep

\* A step that is a fault takes the premises away.
LEMMA DropAfterFault ==
    ASSUME TypeOK, Fault PROVE DropInv'
<1>1. faults' /= 0
  BY DEF Fault, TypeOK
<1> QED  BY <1>1 DEF DropInv, DroppedNeedsQuestion

LEMMA DropPrepareFails ==
    ASSUME QueueInv, DropInv, active.at = "preparing", NEW why,
           PrepareFails(why), faults' = faults
    PROVE  DropInv'
<1>0. TypeOK
  BY DEF QueueInv
<1>1. /\ active'.prompt = NoPrompt /\ active'.at = "none"
      /\ UNCHANGED <<turn, overlapped>>
  BY CompletionFacts DEF PrepareFails
<1>2. CASE active.prompt = NoPrompt
  BY <1>1, <1>2, NoPromptAssumption
  DEF PrepareFails, DropInv, DroppedNeedsQuestion
<1>3. CASE active.prompt /= NoPrompt
  <2> DEFINE p == active.prompt
  <2>1. p \in Prompts /\ Rejects(p, why)
    BY <1>0, <1>3, CompletionFacts DEF PrepareFails, TypeOK
  <2>2. InHand(p)
    BY <2>1, PreparingFacts DEF InHand
  <2> HIDE DEF p
  <2>3. /\ \A q \in Prompts : q /= p => call'[q] = call[q] /\ fate'[q] = fate[q]
        /\ call'[p].at \in {"park", "restore", "enqueue", "nowhere"}
        /\ fate'[p] \in {fate[p], "refused"}
    BY <1>0, <2>1, <2>2, RejectsFacts, NoCallFacts
  <2> QED  BY <1>1, <2>3, NoPromptAssumption
           DEF DropInv, DroppedNeedsQuestion
<1> QED  BY <1>2, <1>3

\* What AsksUser does to the prompts in hand.
LEMMA DropAsksUser ==
    ASSUME QueueInv, DropInv, AsksUser, faults' = faults,
           active.prompt \in Prompts => active'.prompt \in {active.prompt, NoPrompt},
           active.prompt \notin Prompts => active'.prompt \notin Prompts,
           \A p \in Prompts : call'[p] /= NoCall => call[p] /= NoCall,
           \A p \in Prompts : fate'[p] = "dropped" => fate[p] = "dropped"
    PROVE  DropInv'
<1>1. /\ turn' = "question"
      /\ overlapped' = overlapped \cup {p \in Prompts : InHand(p)}
                          \cup ({active.prompt} \ {NoPrompt})
  BY DEF AsksUser
<1>2. \A p \in Prompts : call'[p] /= NoCall => p \in overlapped'
  BY <1>1 DEF InHand
<1>3. \A p \in Prompts : active'.prompt = p => p \in overlapped'
  BY <1>1, NoPromptAssumption
<1>4. \A p \in Prompts :
        call'[p].at \in {"interrupted", "chat", "resume"} => call'[p] /= NoCall
  BY NoCallFacts
<1> QED  BY <1>1, <1>2, <1>3, <1>4 DEF DropInv, DroppedNeedsQuestion

LEMMA DropPrepared ==
    ASSUME QueueInv, DropInv, active.at = "preparing", Prepared
    PROVE  /\ active'.prompt = active.prompt /\ active'.at = "running"
           /\ fate' = fate
           /\ \A p \in Prompts :
                \/ call'[p] = call[p]
                \/ /\ call'[p] = NoCall \/ call'[p].at = "started"
                   /\ call[p] /= NoCall
<1>0. TypeOK
  BY DEF QueueInv
<1>1. active \in Running
  BY <1>0, CompletionFacts DEF TypeOK
<1>2. active'.prompt = active.prompt /\ active'.at = "running" /\ fate' = fate
  BY <1>1 DEF Prepared, Running
<1>3. ASSUME NEW p \in Prompts, p = active.prompt
      PROVE  /\ call'[p] = NoCall \/ call'[p].at = "started"
             /\ call[p] /= NoCall
  <2>1. call[p] /= NoCall /\ call[p] \in [from : Callers, at : Places]
    BY <1>0, <1>3, PreparingFacts DEF TypeOK, Calls
  <2>2. call'[p] = IF call[p].from = "queue"
                   THEN [call[p] EXCEPT !.at = "started"] ELSE NoCall
    BY <1>3 DEF Prepared
  <2> QED  BY <2>1, <2>2
<1>4. \A p \in Prompts : p /= active.prompt => call'[p] = call[p]
  BY DEF Prepared
<1> QED  BY <1>2, <1>3, <1>4

LEMMA DropCompletionSteps ==
    ASSUME QueueInv, DropInv, CompletionStep PROVE DropInv'
<1>0. TypeOK
  BY DEF QueueInv
<1>1. ASSUME active.at = "preparing", Prepared,
             UNCHANGED <<overlapped, faults>>, turn' \in {turn, "none"}
      PROVE  DropInv'
  BY <1>1, DropPrepared, NoCallFacts DEF DropInv, DroppedNeedsQuestion
<1>2. CASE PrepareChat
  BY <1>1, <1>2 DEF PrepareChat, disk
<1>3. CASE PrepareResume
  <2>1. CASE turn = "none" /\ PrepareFails("error") /\ UNCHANGED faults
    BY <1>3, <2>1, DropPrepareFails DEF PrepareResume
  <2>2. CASE /\ turn = "question" /\ (active.mode = "close" \/ ~answered)
             /\ PrepareFails("question") /\ UNCHANGED faults
    BY <1>3, <2>2, DropPrepareFails DEF PrepareResume
  <2>3. CASE /\ Prepared /\ turn' \in {turn, "none"}
             /\ UNCHANGED <<overlapped, faults>>
    BY <1>1, <1>3, <2>3 DEF PrepareResume
  <2>4. CASE Prepared /\ AsksUser /\ UNCHANGED faults
    <3>1. active.at = "preparing"
      BY <1>3 DEF PrepareResume
    <3>2. /\ active'.prompt = active.prompt /\ fate' = fate
          /\ \A p \in Prompts : call'[p] /= NoCall => call[p] /= NoCall
      BY <2>4, <3>1, DropPrepared
    <3> QED  BY <2>4, <3>2, DropAsksUser
  <2>5. CASE Fault
    BY <1>0, <2>5, DropAfterFault
  <2> QED  BY <1>3, <2>1, <2>2, <2>3, <2>4, <2>5 DEF PrepareResume
<1>4. CASE TakePrompt
  <2>1. /\ active.at = "running" /\ UNCHANGED <<call, overlapped>>
    BY <1>4 DEF TakePrompt
  <2>2. CASE /\ turn = "none" /\ turn' = "open" /\ faults' = faults
             /\ Becomes(active.prompt, "taken")
             /\ active' = [active EXCEPT !.at = "turn"]
    <3>1. active'.at = "turn"
      BY <1>0, <2>1, <2>2, TurnStarts
    <3>2. \A p \in Prompts : fate'[p] = "dropped" => fate[p] = "dropped"
      BY <1>0, <2>2, BecomesFacts DEF Fates
    <3> QED  BY <2>1, <2>2, <3>1, <3>2 DEF DropInv, DroppedNeedsQuestion
  <2>3. CASE /\ turn /= "none" /\ faults' = faults /\ turn' = turn
             /\ Becomes(active.prompt, "dropped") /\ Completes
    <3>1. active'.prompt = NoPrompt /\ active'.at = "done"
      BY <2>3, CompletionFacts DEF Completes
    <3>2. \A p \in Prompts :
            fate'[p] = "dropped" => (fate[p] = "dropped" \/ p = active.prompt)
      BY <1>0, <2>3, BecomesFacts DEF Fates
    <3>3. faults = 0 => turn = "question"
      BY <1>0, <2>1, <2>3 DEF DropInv, TypeOK
    <3> QED  BY <2>1, <2>3, <3>1, <3>2, <3>3, NoPromptAssumption
             DEF DropInv, DroppedNeedsQuestion
  <2>4. CASE faults < MaxFaults /\ faults' = faults + 1
    BY <1>0, <2>4, DropAfterFault DEF Fault
  <2> QED  BY <1>4, <2>2, <2>3, <2>4 DEF TakePrompt
<1>5. CASE ContinueTurn
  <2>1. active'.at = "turn" /\ turn' = "open"
    BY <1>0, <1>5, TurnStarts DEF ContinueTurn
  <2> QED  BY <1>5, <2>1 DEF ContinueTurn, DropInv, DroppedNeedsQuestion, past
<1>6. CASE EndTurn
  <2>1. /\ active'.prompt = NoPrompt /\ active'.at = "done"
        /\ UNCHANGED <<call, fate>>
    BY <1>6, CompletionFacts DEF EndTurn, Completes
  <2>2. CASE turn' = "none" /\ UNCHANGED <<overlapped, faults>>
    BY <2>1, <2>2 DEF DropInv, DroppedNeedsQuestion
  <2>3. CASE AsksUser /\ UNCHANGED faults
    BY <2>1, <2>3, DropAsksUser, NoPromptAssumption
  <2>4. CASE Fault
    BY <1>0, <2>4, DropAfterFault
  <2> QED  BY <1>6, <2>2, <2>3, <2>4 DEF EndTurn
<1> QED  BY <1>2, <1>3, <1>4, <1>5, <1>6 DEF CompletionStep

LEMMA DropOthers ==
    ASSUME QueueInv, DropInv,
           \/ ReaderStep \/ Clock \/ FireTimer \/ ResumeTimers \/ StartNext
           \/ Environment
    PROVE  DropInv'
<1>0. /\ TypeOK /\ call \in [Prompts -> Calls] /\ fate \in [Prompts -> Fates]
      /\ queue \in Seq(Prompts)
  BY DEF QueueInv, TypeOK
\* Steps that change neither a call, nor the turn, nor the completion.
<1>1. ASSUME UNCHANGED <<turn, call, active, fate, overlapped, faults>>
      PROVE  DropInv'
  BY <1>1 DEF DropInv, DroppedNeedsQuestion
<1>2. CASE ReaderStep
  <2>1. CASE FindAtStartup
    BY <1>1, <2>1 DEF FindAtStartup, disk, past
  <2>2. ASSUME NEW r \in readers, ResumeThread(r) PROVE DropInv'
    <3>1. CASE Idle
      <4>1. active'.prompt = NoPrompt /\ active.at /= "turn"
        BY <2>2, <3>1, CompletionFacts DEF ResumeThread, Idle
      <4> QED  BY <2>2, <4>1, NoPromptAssumption
               DEF ResumeThread, DropInv, DroppedNeedsQuestion, disk, past
    <3>2. CASE ~Idle
      BY <1>1, <2>2, <3>2 DEF ResumeThread, disk, past
    <3> QED  BY <3>1, <3>2
  <2> QED  BY <1>2, <2>1, <2>2 DEF ReaderStep
<1>3. CASE Clock \/ FireTimer \/ ResumeTimers
  BY <1>1, <1>3 DEF Clock, TimePasses, FireTimer, ResumeTimers, disk, past
<1>4. CASE StartNext
  <2>1. CASE UNCHANGED <<call, faults>>
    BY <1>1, <1>4, <2>1 DEF StartNext
  <2>2. CASE Fault
    BY <1>0, <2>2, DropAfterFault
  <2>3. ASSUME NEW i \in DOMAIN queue,
               call' = [call EXCEPT ![queue[i]] =
                           [from |-> "queue", at |-> "question"]],
               UNCHANGED faults
        PROVE  DropInv'
    <3>1. \A q \in Prompts : call'[q].at = "question" \/ call'[q] = call[q]
      BY <1>0, <2>3
    <3> QED  BY <1>4, <2>3, <3>1 DEF StartNext, DropInv, DroppedNeedsQuestion
  <2> QED  BY <1>4, <2>1, <2>2, <2>3 DEF StartNext
<1>5. CASE Environment
  <2>1. ASSUME NEW p \in Prompts, Post(p) PROVE DropInv'
    <3>1. \A q \in Prompts : call'[q].at = "posted" \/ call'[q] = call[q]
      BY <1>0, <2>1 DEF Post
    <3>2. \A q \in Prompts : fate'[q] = "dropped" => fate[q] = "dropped"
      BY <1>0, <2>1 DEF Post
    <3> QED  BY <2>1, <3>1, <3>2 DEF Post, DropInv, DroppedNeedsQuestion
  <2>2. ASSUME NEW i \in DOMAIN queue, Delete(i) PROVE DropInv'
    <3>1. \A q \in Prompts : fate'[q] = "dropped" => fate[q] = "dropped"
      BY <1>0, <2>2 DEF Delete
    <3> QED  BY <2>2, <3>1 DEF Delete, DropInv, DroppedNeedsQuestion
  <2>3. ASSUME NEW i \in DOMAIN queue, UpdatePrompt(i) PROVE DropInv'
    BY <1>1, <2>3 DEF UpdatePrompt
  <2>4. CASE Answer \/ FindInterrupted \/ EnableTimers
    BY <1>1, <2>4 DEF Answer, FindInterrupted, EnableTimers, disk, past
  <2>5. CASE CancelQuestion
    BY <2>5 DEF CancelQuestion, DropInv, DroppedNeedsQuestion, past
  <2>6. CASE Crash
    BY <1>0, <2>6, DropAfterFault DEF Crash
  <2> QED  BY <1>5, <2>1, <2>2, <2>3, <2>4, <2>5, <2>6 DEF Environment
<1> QED  BY <1>2, <1>3, <1>4, <1>5

LEMMA DropInvariant == Spec => []DropInv
<1>1. Init => DropInv
  BY NoPromptAssumption, CompletionFacts, NoCallFacts
  DEF Init, DropInv, DroppedNeedsQuestion
<1>2. QueueInv /\ DropInv /\ [Next]_vars => DropInv'
  <2>1. ASSUME QueueInv, DropInv, Next PROVE DropInv'
    BY <2>1, DropCallSteps, DropCompletionSteps, DropOthers DEF Next
  <2>2. ASSUME DropInv, UNCHANGED vars PROVE DropInv'
    BY <2>2 DEF DropInv, DroppedNeedsQuestion, vars
  <2> QED  BY <2>1, <2>2
<1> QED  BY <1>1, <1>2, QueueInvariant, PTL DEF Spec

\* Without an error or a crash a prompt is dropped only if a turn asked the
\* user a question while the prompt was in hand: startPromptRequest looks for
\* a question before startCompletion, and promptStream refuses the prompt after
\* StartNext has let go of it.
THEOREM DroppedOverAQuestion == Spec => []DroppedNeedsQuestion
<1>1. DropInv => DroppedNeedsQuestion
  BY DEF DropInv
<1> QED  BY <1>1, DropInvariant, PTL

-----------------------------------------------------------------------------
(* The turn on disk, the completion and the fault that came before.          *)

\* What TurnAgrees looks at, when a completion without a turn stays as it is.
LEMMA AgreesStays ==
    ASSUME TypeOK, TurnAgrees, Fault \/ faults' = faults,
           UNCHANGED <<turn, answered, active, recover, readers>>
    PROVE  TurnAgrees'
<1>1. faults > 0 => faults' > 0
  BY DEF TypeOK, Fault
<1> QED  BY <1>1 DEF TurnAgrees

LEMMA AgreesCallSteps ==
    ASSUME TypeOK, TurnAgrees, NEW p \in Prompts, CallStep(p)
    PROVE  TurnAgrees'
<1>1. CASE StartOrQueue(p) \/ Enqueue(p) \/ FinishStart(p)
  BY <1>1, AgreesStays DEF StartOrQueue, Enqueue, FinishStart, disk, rest, past
<1>2. CASE ReadQuestion(p) \/ ReadInterrupted(p) \/ Restore(p)
  BY <1>2, AgreesStays DEF ReadQuestion, ReadInterrupted, Restore, disk, rest
<1>3. CASE StartCompletion(p)
  <2> USE <1>3 DEF StartCompletion, disk, rest
  <2>1. CASE ~Idle
    BY <2>1, AgreesStays
  <2>2. CASE Idle
    <3>1. active'.prompt = p /\ active'.at = "preparing" /\ p /= NoPrompt
      BY <2>2, NoPromptAssumption
    <3>2. UNCHANGED <<turn, answered, recover, readers, faults>>
      OBVIOUS
    <3> QED  BY <3>1, <3>2 DEF TurnAgrees
  <2> QED  BY <2>1, <2>2
<1> QED  BY <1>1, <1>2, <1>3 DEF CallStep

LEMMA PreparedRuns ==
    ASSUME TypeOK, active.at = "preparing", Prepared
    PROVE  /\ active'.at = "running" /\ active'.prompt = active.prompt
           /\ active'.mode = active.mode
<1>1. active \in Running
  BY CompletionFacts DEF TypeOK
<1> QED  BY <1>1 DEF Prepared, Running

LEMMA AgreesCompletionSteps ==
    ASSUME TypeOK, TurnAgrees, CompletionStep PROVE TurnAgrees'
<1>0. /\ faults \in Nat /\ answered \in BOOLEAN
      /\ NoCompletion.mode = "none" /\ DoneCompletion.mode = "none"
      /\ NoCompletion.at = "none" /\ DoneCompletion.at = "done"
  BY DEF TypeOK, NoCompletion, DoneCompletion
<1>1. CASE PrepareChat
  <2>1. UNCHANGED <<turn, answered, recover, readers, faults>>
    BY <1>1 DEF PrepareChat, disk, rest
  <2>2. /\ active'.at = "running" /\ active'.prompt = active.prompt
        /\ active'.mode = active.mode /\ active.mode = "chat"
    BY <1>1, PreparedRuns DEF PrepareChat
  <2> QED  BY <2>1, <2>2 DEF TurnAgrees
<1>2. CASE PrepareResume
  <2>1. active.at = "preparing" /\ UNCHANGED <<recover, readers>>
    BY <1>2 DEF PrepareResume, rest
  <2>2. ASSUME NEW why, PrepareFails(why), Fault \/ faults' = faults
        PROVE  TurnAgrees'
    <3>1. UNCHANGED <<turn, answered>> /\ active' = NoCompletion
      BY <2>2 DEF PrepareFails
    <3>2. faults > 0 => faults' > 0
      BY <1>0, <2>2 DEF Fault
    <3> QED  BY <1>0, <2>1, <3>1, <3>2 DEF TurnAgrees
  <2>3. CASE /\ active.mode = "continue"
             /\ turn = "open" \/ (turn = "question" /\ answered)
             /\ Prepared
             /\ UNCHANGED <<turn, answered, overlapped, questions, faults>>
    <3>1. /\ active'.at = "running" /\ active'.prompt = active.prompt
          /\ active'.mode = active.mode
      BY <2>1, <2>3, PreparedRuns
    <3> QED  BY <2>1, <2>3, <3>1 DEF TurnAgrees
  <2>4. CASE /\ active.mode = "close" /\ turn = "open" /\ Prepared
             /\ \/ turn' = "none" /\ UNCHANGED <<answered, overlapped, questions>>
                \/ AsksUser
             /\ UNCHANGED faults
    <3>1. /\ active'.at = "running" /\ active'.prompt = active.prompt
          /\ active'.mode = active.mode
      BY <2>1, <2>4, PreparedRuns
    <3>2. ~answered'
      BY <2>4 DEF TurnAgrees, AsksUser
    <3> QED  BY <2>1, <2>4, <3>1, <3>2 DEF TurnAgrees
  <2> QED  BY <1>2, <2>2, <2>3, <2>4 DEF PrepareResume
<1>3. CASE TakePrompt
  <2>1. /\ active.at = "running" /\ active.mode \in {"chat", "close"}
        /\ UNCHANGED <<answered, recover, readers>>
    BY <1>3 DEF TakePrompt, rest
  <2>2. CASE /\ turn = "none" /\ turn' = "open" /\ faults' = faults
             /\ active' = [active EXCEPT !.at = "turn"]
    <3>1. /\ active'.at = "turn" /\ active'.prompt = active.prompt
          /\ active'.mode = active.mode
      BY <2>1, <2>2, TurnStarts
    <3> QED  BY <2>1, <2>2, <3>1 DEF TurnAgrees
  <2>3. CASE /\ Completes /\ turn' = turn
             /\ faults' = IF turn /= "none" THEN faults ELSE faults + 1
    <3>1. faults > 0 => faults' > 0
      BY <1>0, <2>3
    <3>2. active' = DoneCompletion
      BY <2>3 DEF Completes
    <3> QED  BY <1>0, <2>1, <2>3, <3>1, <3>2 DEF TurnAgrees
  <2> QED  BY <1>3, <2>2, <2>3 DEF TakePrompt
<1>4. CASE ContinueTurn
  <2>1. /\ active'.at = "turn" /\ active'.prompt = active.prompt
        /\ active'.mode = active.mode /\ turn' = "open" /\ ~answered'
    BY <1>4, TurnStarts DEF ContinueTurn
  <2> QED  BY <1>4, <2>1 DEF TurnAgrees, ContinueTurn, rest, past
<1>5. CASE EndTurn
  <2>1. /\ active' = DoneCompletion /\ UNCHANGED <<recover, readers>>
        /\ active.at = "turn" /\ turn = "open"
    BY <1>5 DEF EndTurn, Completes, rest, TurnAgrees
  <2>2. ~answered'
    BY <1>5, <2>1 DEF EndTurn, AsksUser, TurnAgrees
  <2>3. faults > 0 => faults' > 0
    BY <1>0, <1>5 DEF EndTurn, Fault
  <2> QED  BY <1>0, <2>1, <2>2, <2>3 DEF TurnAgrees
<1> QED  BY <1>1, <1>2, <1>3, <1>4, <1>5 DEF CompletionStep

LEMMA AgreesOthers ==
    ASSUME TypeOK, TurnAgrees,
           \/ ReaderStep \/ Clock \/ FireTimer \/ ResumeTimers \/ StartNext
           \/ Environment
    PROVE  TurnAgrees'
<1>0. /\ faults \in Nat
      /\ \A c \in {NoCompletion, DoneCompletion} :
            c.mode = "none" /\ c.at \notin {"running", "turn"}
  BY DEF TypeOK, NoCompletion, DoneCompletion
<1>1. CASE ReaderStep
  <2>1. CASE FindAtStartup
    BY <2>1 DEF FindAtStartup, TurnAgrees, disk, past
  <2>2. ASSUME NEW r \in readers, ResumeThread(r) PROVE TurnAgrees'
    <3>1. UNCHANGED <<turn, answered, recover, faults>> /\ readers' \subseteq readers
      BY <2>2 DEF ResumeThread, disk, rest, past
    <3>2. CASE ~Idle
      BY <2>2, <3>1, <3>2 DEF ResumeThread, TurnAgrees
    <3>3. CASE Idle
      <4>1. /\ active'.prompt = NoPrompt /\ active'.at = "preparing"
            /\ active'.mode = IF r = "startup" THEN "close" ELSE "continue"
        BY <2>2, <3>3 DEF ResumeThread
      <4> QED  BY <3>1, <4>1 DEF TurnAgrees
    <3> QED  BY <3>2, <3>3
  <2> QED  BY <1>1, <2>1, <2>2 DEF ReaderStep
<1>2. CASE Clock \/ FireTimer \/ ResumeTimers
  BY <1>2, AgreesStays
  DEF Clock, TimePasses, FireTimer, ResumeTimers, disk, rest, past
<1>3. CASE StartNext
  BY <1>3, AgreesStays DEF StartNext, rest
<1>4. CASE Environment
  <2>1. ASSUME NEW p \in Prompts, Post(p) PROVE TurnAgrees'
    BY <2>1, AgreesStays DEF Post, rest
  <2>2. ASSUME NEW i \in DOMAIN queue, Delete(i) \/ UpdatePrompt(i)
        PROVE  TurnAgrees'
    BY <2>2, AgreesStays DEF Delete, UpdatePrompt, rest
  <2>3. CASE Answer
    BY <2>3 DEF Answer, TurnAgrees, rest, past
  <2>4. CASE CancelQuestion
    <3>1. active.at \notin {"running", "turn"}
      BY <1>0, <2>4 DEF CancelQuestion, Idle
    <3> QED  BY <2>4, <3>1 DEF CancelQuestion, TurnAgrees, rest, past
  <2>5. CASE FindInterrupted
    BY <2>5 DEF FindInterrupted, TurnAgrees, disk, rest, past
  <2>6. CASE EnableTimers
    BY <2>6, AgreesStays DEF EnableTimers, disk, past
  <2>7. CASE Crash
    <3>1. faults' > 0
      BY <1>0, <2>7 DEF Crash, Fault
    <3> QED  BY <1>0, <2>7, <3>1 DEF Crash, TurnAgrees, disk
  <2> QED  BY <1>4, <2>1, <2>2, <2>3, <2>4, <2>5, <2>6, <2>7 DEF Environment
<1> QED  BY <1>1, <1>2, <1>3, <1>4

LEMMA TurnInvariant == Spec => []TurnAgrees
<1>1. Init => TurnAgrees
  BY DEF Init, TurnAgrees, NoCompletion
<1>2. TypeOK /\ TurnAgrees /\ [Next]_vars => TurnAgrees'
  <2>1. ASSUME TypeOK, TurnAgrees, Next PROVE TurnAgrees'
    BY <2>1, AgreesCallSteps, AgreesCompletionSteps, AgreesOthers DEF Next
  <2>2. ASSUME TurnAgrees, UNCHANGED vars PROVE TurnAgrees'
    BY <2>2 DEF TurnAgrees, vars
  <2> QED  BY <2>1, <2>2
<1> QED  BY <1>1, <1>2, QueueTypes, PTL DEF Spec

-----------------------------------------------------------------------------
(* Every step keeps the promises.                                            *)

\* What the steps of the queue rely on.
Agreed == QueueInv /\ DropInv /\ TurnAgrees

\* The part of Promised!Next that is about what a step does.
PromiseStep ==
    \/ \E p \in Prompts : Promised!PromptStep(p)
    \/ Promised!TurnStep
    \/ Promised!Crash
    \/ UNCHANGED <<Standings, turn, answered, overlapped>>

LEMMA FaultsStay ==
    ASSUME TypeOK, Next PROVE faults > 0 => faults' > 0
<1>0. faults \in Nat
  BY DEF TypeOK
<1>1. ASSUME NEW p \in Prompts, CallStep(p) PROVE faults > 0 => faults' > 0
  BY <1>0, <1>1
  DEF CallStep, StartOrQueue, Enqueue, ReadQuestion, ReadInterrupted,
      StartCompletion, FinishStart, Restore, Fault, past
<1>2. ASSUME CompletionStep PROVE faults > 0 => faults' > 0
  BY <1>0, <1>2
  DEF CompletionStep, PrepareChat, PrepareResume, TakePrompt, ContinueTurn,
      EndTurn, Fault, past
<1>3. ASSUME ReaderStep \/ Clock \/ FireTimer \/ ResumeTimers \/ StartNext
      PROVE  faults > 0 => faults' > 0
  BY <1>0, <1>3
  DEF ReaderStep, FindAtStartup, ResumeThread, Clock, TimePasses, FireTimer,
      ResumeTimers, StartNext, Fault, past
<1>4. ASSUME Environment PROVE faults > 0 => faults' > 0
  BY <1>0, <1>4
  DEF Environment, Post, Delete, UpdatePrompt, Answer, CancelQuestion,
      FindInterrupted, EnableTimers, Crash, Fault, past
<1> QED  BY <1>1, <1>2, <1>3, <1>4 DEF Next

(* Where prompts stand, before and after.                                    *)

LEMMA StandsSame ==
    ASSUME NEW p, fate'[p] = fate[p],
           \/ call'[p] = call[p]
           \/ call'[p].from = call[p].from
           \/ /\ call[p].from \notin {"client", "hook"}
              /\ call'[p].from \notin {"client", "hook"}
    PROVE  StandsAt(p)' = StandsAt(p)
  BY DEF StandsAt

LEMMA StandingsSame ==
    ASSUME \A p \in Prompts : StandsAt(p)' = StandsAt(p)
    PROVE  Standings' = Standings
<1>1. Standings' = [p \in Prompts |-> StandsAt(p)']
  BY DEF Standings
<1>2. [p \in Prompts |-> StandsAt(p)'] = [p \in Prompts |-> StandsAt(p)]
  OBVIOUS
<1> QED  BY <1>1, <1>2 DEF Standings

LEMMA StandingsUntouched ==
    ASSUME UNCHANGED <<fate, call>> PROVE Standings' = Standings
  BY StandingsSame, StandsSame

\* One prompt goes from one standing to another.
LEMMA StandingGoes ==
    ASSUME NEW p \in Prompts, NEW to, StandsAt(p)' = to,
           \A q \in Prompts : q /= p => StandsAt(q)' = StandsAt(q)
    PROVE  Promised!Goes(p, StandsAt(p), to)
<1>1. Standings' = [q \in Prompts |-> StandsAt(q)']
  BY DEF Standings
<1>2. \A q \in Prompts : StandsAt(q)' = IF q = p THEN to ELSE StandsAt(q)
  OBVIOUS
<1>3. [q \in Prompts |-> StandsAt(q)']
        = [q \in Prompts |-> IF q = p THEN to ELSE StandsAt(q)]
  BY <1>2
<1>4. [Standings EXCEPT ![p] = to]
        = [q \in Prompts |-> IF q = p THEN to ELSE StandsAt(q)]
  BY DEF Standings
<1>5. Standings' = [Standings EXCEPT ![p] = to] /\ Standings[p] = StandsAt(p)
  BY <1>1, <1>3, <1>4 DEF Standings
<1> QED  BY <1>5 DEF Promised!Goes

\* Nothing of that has changed.
LEMMA PromiseStays ==
    ASSUME Standings' = Standings, UNCHANGED <<turn, answered, overlapped>>
    PROVE  PromiseStep
  BY DEF PromiseStep

\* A start that is rejected: who was promised nothing is refused.
LEMMA RejectsPromised ==
    ASSUME Agreed, NEW p \in Prompts, InHand(p), fate[p] = "pending",
           NEW why, Rejects(p, why), UNCHANGED <<turn, answered, overlapped>>
    PROVE  PromiseStep
<1>0. TypeOK
  BY DEF Agreed, QueueInv
<1>1. call[p].from \in Callers
  BY <1>0, NoCallFacts DEF TypeOK, InHand
<1>2. \A q \in Prompts : q /= p => StandsAt(q)' = StandsAt(q)
  BY <1>0, RejectsFacts, StandsSame
<1>3. CASE fate'[p] = fate[p] /\ call'[p].from = call[p].from
  <2>1. StandsAt(p)' = StandsAt(p)
    BY <1>3, StandsSame
  <2>2. Standings' = Standings
    BY <1>2, <2>1, StandingsSame
  <2> QED  BY <2>2, PromiseStays
<1>4. CASE fate'[p] = "refused" /\ call[p].from /= "queue"
  <2>1. StandsAt(p) = "offered" /\ StandsAt(p)' = "refused"
    BY <1>1, <1>4 DEF StandsAt, Callers
  <2>2. Promised!Goes(p, "offered", "refused")
    BY <1>2, <2>1, StandingGoes
  <2>3. Promised!Refuse(p)
    BY <2>2 DEF Promised!Refuse, Promised!turnVars
  <2> QED  BY <2>3 DEF PromiseStep, Promised!PromptStep
<1> QED  BY <1>0, <1>3, <1>4, RejectsFacts

LEMMA MovePromised ==
    ASSUME Agreed, NEW p \in Prompts, InHand(p), NEW place \in Places,
           Move(p, place), UNCHANGED <<fate, turn, answered, overlapped>>
    PROVE  PromiseStep
<1>1. \A q \in Prompts : call'[q].from = call[q].from
  BY MoveFacts DEF Agreed, QueueInv
<1>2. Standings' = Standings
  BY <1>1, StandsSame, StandingsSame
<1> QED  BY <1>2, PromiseStays

LEMMA InHandPending ==
    ASSUME QueueInv, NEW p \in Prompts, call[p].at \in Places
    PROVE  /\ InHand(p) /\ call[p].from \in Callers
           /\ call[p].at \notin {"preparing", "started"} => fate[p] = "pending"
<1>1. InHand(p)
  BY NoCallFacts DEF InHand
<1>2. call[p].from \in Callers
  BY <1>1, NoCallFacts DEF QueueInv, TypeOK, InHand
<1>3. call[p].at \notin {"preparing", "started"} => fate[p] = "pending"
  BY <1>1 DEF QueueInv, HandsAgree
<1> QED  BY <1>1, <1>2, <1>3

LEMMA EnqueuePromised ==
    ASSUME Agreed, NEW p \in Prompts, Enqueue(p) PROVE PromiseStep
<1>0. TypeOK /\ QueueInv
  BY DEF Agreed, QueueInv
<1>1. /\ fate[p] = "pending" /\ call[p].from \in {"client", "hook"}
      /\ StandsAt(p) = "offered"
  <2>1. call[p].at = "enqueue" /\ "enqueue" \in Places
    BY DEF Enqueue, Places
  <2>2. call[p].from /= "queue"
    BY <1>0, <2>1 DEF QueueInv, HandsAgree
  <2>3. fate[p] = "pending" /\ call[p].from \in Callers
    BY <1>0, <2>1, InHandPending
  <2> QED  BY <2>2, <2>3 DEF StandsAt, Callers
<1>2. /\ call'[p] = NoCall
      /\ \A q \in Prompts : q /= p => call'[q] = call[q]
      /\ UNCHANGED <<turn, answered, overlapped>>
  BY <1>0, DropFacts DEF Enqueue
<1>3. CASE fate' = fate
  <2>1. \A q \in Prompts : q /= p => StandsAt(q)' = StandsAt(q)
    BY <1>2, <1>3, StandsSame
  <2>2. StandsAt(p)' = "promised"
    BY <1>1, <1>2, <1>3, NoCallFacts DEF StandsAt
  <2>3. Promised!Goes(p, "offered", "promised")
    BY <1>1, <2>1, <2>2, StandingGoes
  <2>4. Promised!Promise(p)
    BY <1>2, <2>3 DEF Promised!Promise, Promised!turnVars
  <2> QED  BY <2>4 DEF PromiseStep, Promised!PromptStep
<1>4. CASE fate' = [fate EXCEPT ![p] = "refused"]
  <2>0. /\ fate'[p] = "refused"
        /\ \A q \in Prompts : q /= p => fate'[q] = fate[q]
    BY <1>0, <1>4, FateFacts DEF Fates
  <2>1. \A q \in Prompts : q /= p => StandsAt(q)' = StandsAt(q)
    BY <1>2, <2>0, StandsSame
  <2>2. StandsAt(p)' = "refused"
    BY <2>0 DEF StandsAt
  <2>3. Promised!Goes(p, "offered", "refused")
    BY <1>1, <2>1, <2>2, StandingGoes
  <2>4. Promised!Refuse(p)
    BY <1>2, <2>3 DEF Promised!Refuse, Promised!turnVars
  <2> QED  BY <2>4 DEF PromiseStep, Promised!PromptStep
<1> QED  BY <1>3, <1>4 DEF Enqueue

LEMMA RestorePromised ==
    ASSUME Agreed, NEW p \in Prompts, Restore(p) PROVE PromiseStep
<1>0. TypeOK /\ QueueInv
  BY DEF Agreed, QueueInv
<1>1. fate[p] = "pending" /\ call[p].from = "queue" /\ StandsAt(p) = "promised"
  <2>1. call[p].at \in {"park", "restore"} /\ {"park", "restore"} \subseteq Places
    BY DEF Restore, Places
  <2>2. call[p].from = "queue"
    BY <1>0, <2>1 DEF QueueInv, HandsAgree
  <2>3. fate[p] = "pending"
    BY <1>0, <2>1, InHandPending
  <2> QED  BY <2>2, <2>3 DEF StandsAt
<1>2. /\ call'[p] = NoCall
      /\ \A q \in Prompts : q /= p => call'[q] = call[q]
      /\ UNCHANGED <<turn, answered, overlapped>>
  BY <1>0, DropFacts DEF Restore
<1>3. CASE fate' = fate
  <2>1. \A q \in Prompts : StandsAt(q)' = StandsAt(q)
    BY <1>1, <1>2, <1>3, NoCallFacts, StandsSame
  <2> QED  BY <1>2, <2>1, StandingsSame, PromiseStays
<1>4. CASE Fault /\ fate' = [fate EXCEPT ![p] = "dropped"]
  <2>0. /\ fate'[p] = "dropped"
        /\ \A q \in Prompts : q /= p => fate'[q] = fate[q]
    BY <1>0, <1>4, FateFacts DEF Fates
  <2>1. \A q \in Prompts : q /= p => StandsAt(q)' = StandsAt(q)
    BY <1>2, <2>0, StandsSame
  <2>2. StandsAt(p)' = "dropped"
    BY <2>0 DEF StandsAt
  <2>3. Promised!Goes(p, "promised", "dropped")
    BY <1>1, <2>1, <2>2, StandingGoes
  <2>4. faults' > 0
    BY <1>0, <1>4 DEF TypeOK, Fault
  <2>5. Promised!Drop(p)
    BY <1>2, <2>3, <2>4 DEF Promised!Drop, Promised!turnVars
  <2> QED  BY <2>5 DEF PromiseStep, Promised!PromptStep
<1> QED  BY <1>3, <1>4 DEF Restore

LEMMA CallsPromised ==
    ASSUME Agreed, NEW p \in Prompts, CallStep(p) PROVE PromiseStep
<1>0. TypeOK /\ QueueInv
  BY DEF Agreed, QueueInv
<1>1. CASE StartOrQueue(p)
  <2> DEFINE place == IF ~Idle \/ p \in timed THEN "enqueue" ELSE "question"
  <2>1. call[p].at \in Places /\ place \in Places /\ Move(p, place)
    BY <1>1 DEF StartOrQueue, Places
  <2>2. UNCHANGED <<fate, turn, answered, overlapped>>
    BY <1>1 DEF StartOrQueue, disk, past
  <2> HIDE DEF place
  <2> QED  BY <1>0, <2>1, <2>2, InHandPending, MovePromised
<1>2. CASE ReadQuestion(p)
  <2>1. call[p].at = "question" /\ "question" \in Places /\ "interrupted" \in Places
    BY <1>2 DEF ReadQuestion, Places
  <2>2. InHand(p) /\ fate[p] = "pending"
    BY <1>0, <2>1, InHandPending
  <2>3. UNCHANGED <<turn, answered, overlapped>>
    BY <1>2 DEF ReadQuestion, disk
  <2>4. \/ Move(p, "interrupted") /\ fate' = fate
        \/ Rejects(p, "question") \/ Rejects(p, "error")
    BY <1>2 DEF ReadQuestion
  <2> QED  BY <2>1, <2>2, <2>3, <2>4, MovePromised, RejectsPromised
<1>3. CASE ReadInterrupted(p)
  <2> DEFINE place == IF turn = "open" THEN "resume" ELSE "chat"
  <2>1. /\ call[p].at = "interrupted" /\ "interrupted" \in Places
        /\ place \in Places
    BY <1>3 DEF ReadInterrupted, Places
  <2>2. InHand(p) /\ fate[p] = "pending"
    BY <1>0, <2>1, InHandPending
  <2>3. UNCHANGED <<turn, answered, overlapped>>
    BY <1>3 DEF ReadInterrupted, disk
  <2>4. \/ Move(p, place) /\ fate' = fate
        \/ Rejects(p, "error")
    BY <1>3 DEF ReadInterrupted
  <2> HIDE DEF place
  <2> QED  BY <2>1, <2>2, <2>3, <2>4, MovePromised, RejectsPromised
<1>4. CASE StartCompletion(p)
  <2>1. /\ call[p].at \in {"chat", "resume"} /\ {"chat", "resume"} \subseteq Places
        /\ "preparing" \in Places
    BY <1>4 DEF StartCompletion, Places
  <2>2. InHand(p) /\ fate[p] = "pending"
    BY <1>0, <2>1, InHandPending
  <2>3. UNCHANGED <<turn, answered, overlapped>>
    BY <1>4 DEF StartCompletion, disk
  <2>4. \/ Move(p, "preparing") /\ fate' = fate
        \/ Rejects(p, "busy")
    BY <1>4 DEF StartCompletion
  <2> QED  BY <2>1, <2>2, <2>3, <2>4, MovePromised, RejectsPromised
<1>5. CASE FinishStart(p)
  <2>1. call[p].from = "queue"
    BY <1>0, <1>5 DEF FinishStart, QueueInv, HandsAgree
  <2>2. /\ call'[p] = NoCall /\ fate' = fate
        /\ \A q \in Prompts : q /= p => call'[q] = call[q]
        /\ UNCHANGED <<turn, answered, overlapped>>
    BY <1>0, <1>5, DropFacts DEF FinishStart, disk, past
  <2>3. \A q \in Prompts : StandsAt(q)' = StandsAt(q)
    BY <2>1, <2>2, NoCallFacts, StandsSame
  <2> QED  BY <2>2, <2>3, StandingsSame, PromiseStays
<1> QED  BY <1>1, <1>2, <1>3, <1>4, <1>5, EnqueuePromised, RestorePromised
         DEF CallStep

-----------------------------------------------------------------------------
(* The completion keeps them: this is where prompts are taken and dropped,   *)
(* and where the turn moves.                                                 *)

LEMMA PreparedPromised ==
    ASSUME Agreed, active.at = "preparing", Prepared
    PROVE  \/ Standings' = Standings
           \/ \E p \in Prompts : Promised!Goes(p, "offered", "promised")
<1>0. TypeOK /\ QueueInv /\ active.prompt \in Prompts \cup {NoPrompt}
  BY CompletionFacts DEF Agreed, QueueInv, TypeOK
<1>1. /\ fate' = fate
      /\ \A p \in Prompts : p /= active.prompt => call'[p] = call[p]
  BY DEF Prepared
<1>2. \A p \in Prompts : p /= active.prompt => StandsAt(p)' = StandsAt(p)
  BY <1>1, StandsSame
<1>3. CASE active.prompt = NoPrompt
  BY <1>2, <1>3, NoPromptAssumption, StandingsSame
<1>4. ASSUME NEW p \in Prompts, active.prompt = p
      PROVE  \/ Standings' = Standings
             \/ Promised!Goes(p, "offered", "promised")
  <2>1. fate[p] = "pending" /\ call[p] /= NoCall
    BY <1>0, <1>4, PreparingFacts
  <2>2. call[p] \in [from : Callers, at : Places]
    BY <1>0, <2>1 DEF TypeOK, Calls
  <2>3. call'[p] = IF call[p].from = "queue"
                   THEN [call[p] EXCEPT !.at = "started"] ELSE NoCall
    BY <1>4 DEF Prepared
  <2>4. CASE call[p].from = "queue"
    <3>1. call'[p].from = call[p].from
      BY <2>2, <2>3, <2>4
    <3>2. StandsAt(p)' = StandsAt(p)
      BY <1>1, <3>1, StandsSame
    <3> QED  BY <1>2, <1>4, <3>2, StandingsSame
  <2>5. CASE call[p].from /= "queue"
    <3>1. call[p].from \in {"client", "hook"}
      BY <2>2, <2>5 DEF Callers
    <3>2. StandsAt(p) = "offered" /\ StandsAt(p)' = "promised"
      BY <1>1, <2>1, <2>3, <2>5, <3>1, NoCallFacts DEF StandsAt
    <3>3. Promised!Goes(p, "offered", "promised")
      BY <1>2, <1>4, <3>2, StandingGoes
    <3> QED  BY <3>3
  <2> QED  BY <2>4, <2>5
<1> QED  BY <1>0, <1>3, <1>4

\* AsksUser and the end of a turn, as the turn sees them.
LEMMA AskPromised ==
    ASSUME AsksUser, turn = "open" PROVE Promised!Ask
  BY DEF AsksUser, Promised!Ask

LEMMA EndPromised ==
    ASSUME TypeOK, TurnAgrees, turn = "open", turn' = "none",
           UNCHANGED <<answered, overlapped>>
    PROVE  Promised!End
  BY DEF TypeOK, TurnAgrees, Promised!End

LEMMA PrepareFailsPromised ==
    ASSUME Agreed, active.at = "preparing", NEW why, PrepareFails(why)
    PROVE  PromiseStep
<1>0. TypeOK /\ QueueInv /\ active.prompt \in Prompts \cup {NoPrompt}
  BY CompletionFacts DEF Agreed, QueueInv, TypeOK
<1>1. UNCHANGED <<turn, answered, overlapped>>
  BY DEF PrepareFails
<1>2. CASE active.prompt = NoPrompt
  BY <1>1, <1>2, StandingsUntouched, PromiseStays DEF PrepareFails
<1>3. CASE active.prompt \in Prompts /\ active.prompt /= NoPrompt
  <2>1. Rejects(active.prompt, why)
    BY <1>3 DEF PrepareFails
  <2>2. InHand(active.prompt) /\ fate[active.prompt] = "pending"
    BY <1>0, <1>3, PreparingFacts DEF InHand
  <2> QED  BY <1>1, <1>3, <2>1, <2>2, RejectsPromised
<1> QED  BY <1>0, <1>2, <1>3, NoPromptAssumption

LEMMA PreparesPromised ==
    ASSUME Agreed, PrepareChat \/ PrepareResume PROVE PromiseStep
<1>1. active.at = "preparing"
  BY DEF PrepareChat, PrepareResume
<1>2. ASSUME Prepared, UNCHANGED <<turn, answered, overlapped>>
      PROVE  PromiseStep
  <2>1. CASE Standings' = Standings
    BY <1>2, <2>1, PromiseStays
  <2>2. ASSUME NEW p \in Prompts, Promised!Goes(p, "offered", "promised")
        PROVE  PromiseStep
    <3>1. Promised!Promise(p)
      BY <1>2, <2>2 DEF Promised!Promise, Promised!turnVars
    <3> QED  BY <3>1 DEF PromiseStep, Promised!PromptStep
  <2> QED  BY <1>1, <1>2, <2>1, <2>2, PreparedPromised
<1>3. ASSUME Prepared, turn = "open", Promised!Ask \/ Promised!End
      PROVE  PromiseStep
  <2>1. CASE Standings' = Standings
    <3>1. Promised!TurnStep
      BY <1>3, <2>1 DEF Promised!TurnStep
    <3> QED  BY <3>1 DEF PromiseStep
  <2>2. ASSUME NEW p \in Prompts, Promised!Goes(p, "offered", "promised")
        PROVE  PromiseStep
    <3>1. Promised!Promise(p)
      BY <1>3, <2>2 DEF Promised!Promise
    <3> QED  BY <3>1 DEF PromiseStep, Promised!PromptStep
  <2> QED  BY <1>1, <1>3, <2>1, <2>2, PreparedPromised
<1>4. CASE PrepareChat
  BY <1>2, <1>4 DEF PrepareChat, disk
<1>5. CASE PrepareResume
  <2>1. \/ PrepareFails("error") \/ PrepareFails("question")
        \/ Prepared /\ UNCHANGED <<turn, answered, overlapped>>
        \/ /\ Prepared /\ turn = "open"
           /\ \/ turn' = "none" /\ UNCHANGED <<answered, overlapped>>
              \/ AsksUser
    BY <1>5 DEF PrepareResume
  <2>2. TypeOK /\ TurnAgrees
    BY DEF Agreed, QueueInv
  <2> QED  BY <1>1, <1>2, <1>3, <2>1, <2>2, PrepareFailsPromised, AskPromised,
              EndPromised
<1> QED  BY <1>4, <1>5

\* The prompt of the running completion has been promised.
LEMMA RunningPromised ==
    ASSUME QueueInv, active.at = "running", NEW p \in Prompts, active.prompt = p
    PROVE  fate[p] = "pending" /\ StandsAt(p) = "promised"
<1>1. fate[p] = "pending"
  BY DEF QueueInv, HandsAgree
<1>2. call[p].at /= "preparing"
  BY DEF QueueInv, HandsAgree
<1>3. InHand(p) => call[p].at \in {"preparing", "started"}
  BY DEF QueueInv, HandsAgree
<1>4. CASE InHand(p)
  BY <1>1, <1>2, <1>3, <1>4 DEF QueueInv, HandsAgree, StandsAt
<1>5. CASE ~InHand(p)
  BY <1>1, <1>5, NoCallFacts DEF InHand, StandsAt
<1> QED  BY <1>1, <1>4, <1>5

LEMMA TakePromised ==
    ASSUME Agreed, DropInv', TakePrompt PROVE PromiseStep
<1>0. /\ TypeOK /\ QueueInv /\ TurnAgrees
      /\ active.prompt \in Prompts \cup {NoPrompt} /\ NoPrompt \notin Prompts
      /\ active.at = "running" /\ active.mode \in {"chat", "close"}
      /\ UNCHANGED <<answered, call, overlapped>> /\ faults \in Nat
  BY CompletionFacts, NoPromptAssumption
  DEF Agreed, QueueInv, TypeOK, TakePrompt
<1>1. ASSUME NEW f \in {"taken", "dropped"}, Becomes(active.prompt, f),
             NEW p \in Prompts, p = active.prompt
      PROVE  fate'[p] = f /\ Promised!Goes(p, "promised", f)
  <2>1. fate'[p] = f /\ \A q \in Prompts : q /= p => fate'[q] = fate[q]
    BY <1>0, <1>1, BecomesFacts DEF Fates
  <2>2. StandsAt(p) = "promised"
    BY <1>0, <1>1, RunningPromised
  <2>3. StandsAt(p)' = f
    BY <1>1, <2>1 DEF StandsAt
  <2>4. \A q \in Prompts : q /= p => StandsAt(q)' = StandsAt(q)
    BY <1>0, <2>1, StandsSame
  <2>5. Promised!Goes(p, "promised", f)
    BY <2>2, <2>3, <2>4, StandingGoes
  <2> QED  BY <2>1, <2>5
<1>2. CASE turn = "none" /\ turn' = "open" /\ Becomes(active.prompt, "taken")
  <2>0. Promised!Begin
    BY <1>0, <1>2 DEF Promised!Begin
  <2>1. ASSUME NEW p \in Prompts, p = active.prompt PROVE PromiseStep
    <3>1. Promised!Take(p)
      BY <1>1, <1>2, <2>0, <2>1 DEF Promised!Take
    <3> QED  BY <3>1 DEF PromiseStep, Promised!PromptStep
  <2>2. CASE active.prompt = NoPrompt
    <3>1. faults > 0
      BY <1>0, <2>2 DEF TurnAgrees
    <3>2. Standings' = Standings
      BY <1>0, <1>2, <2>2, StandingsUntouched DEF Becomes
    <3>3. Promised!TurnStep
      BY <2>0, <3>1, <3>2 DEF Promised!TurnStep
    <3> QED  BY <3>3 DEF PromiseStep
  <2> QED  BY <1>0, <2>1, <2>2
<1>3. CASE turn' = turn /\ Becomes(active.prompt, "dropped")
  <2>1. ASSUME NEW p \in Prompts, p = active.prompt PROVE PromiseStep
    <3>1. fate'[p] = "dropped" /\ Promised!Goes(p, "promised", "dropped")
      BY <1>1, <1>3, <2>1
    <3>2. faults' > 0 \/ p \in overlapped
      <4>1. faults' \in Nat
        BY <1>0 DEF TakePrompt
      <4>2. DroppedNeedsQuestion'
        BY DEF DropInv
      <4> QED  BY <1>0, <3>1, <4>1, <4>2 DEF DroppedNeedsQuestion
    <3>3. Promised!Drop(p)
      BY <1>0, <1>3, <3>1, <3>2 DEF Promised!Drop, Promised!turnVars
    <3> QED  BY <3>3 DEF PromiseStep, Promised!PromptStep
  <2>2. CASE active.prompt = NoPrompt
    BY <1>0, <1>3, <2>2, StandingsUntouched, PromiseStays DEF Becomes
  <2> QED  BY <1>0, <2>1, <2>2
<1> QED  BY <1>2, <1>3 DEF TakePrompt

LEMMA TurnPromised ==
    ASSUME Agreed, ContinueTurn \/ EndTurn PROVE PromiseStep
<1>0. TypeOK /\ TurnAgrees
  BY DEF Agreed, QueueInv
<1>1. Standings' = Standings
  BY StandingsUntouched DEF ContinueTurn, EndTurn, past
<1>2. CASE ContinueTurn
  <2>1. /\ turn' = "open" /\ answered' = FALSE /\ UNCHANGED overlapped
        /\ \/ turn = "open" /\ ~answered
           \/ turn = "question" /\ answered
    BY <1>0, <1>2 DEF ContinueTurn, TurnAgrees, past
  <2>2. CASE turn = "open" /\ ~answered
    <3>1. UNCHANGED <<turn, answered, overlapped>>
      BY <1>0, <2>1, <2>2 DEF TypeOK
    <3> QED  BY <1>1, <3>1, PromiseStays
  <2>3. CASE turn = "question" /\ answered
    <3>1. Promised!TurnStep
      BY <1>1, <2>1, <2>3 DEF Promised!TurnStep, Promised!GoOn
    <3> QED  BY <3>1 DEF PromiseStep
  <2> QED  BY <2>1, <2>2, <2>3
<1>3. CASE EndTurn
  <2>1. turn = "open"
    BY <1>0, <1>3 DEF EndTurn, TurnAgrees
  <2>2. \/ Promised!Ask \/ Promised!End
        \/ UNCHANGED <<turn, answered, overlapped>>
    BY <1>0, <1>3, <2>1, AskPromised, EndPromised DEF EndTurn
  <2> QED  BY <1>1, <2>2, PromiseStays DEF PromiseStep, Promised!TurnStep
<1> QED  BY <1>2, <1>3

-----------------------------------------------------------------------------
(* So do the queue, the user and a crash.                                    *)

LEMMA PostPromised ==
    ASSUME Agreed, NEW p \in Prompts, Post(p) PROVE PromiseStep
<1>0. TypeOK
  BY DEF Agreed, QueueInv
<1>1. /\ fate[p] = "unsent" /\ fate'[p] = "pending"
      /\ call'[p].from \in {"client", "hook"}
      /\ \A q \in Prompts : q /= p => fate'[q] = fate[q] /\ call'[q] = call[q]
      /\ UNCHANGED <<turn, answered, overlapped>>
  BY <1>0 DEF Post, TypeOK
<1>2. StandsAt(p) = "unsent" /\ StandsAt(p)' = "offered"
  BY <1>1 DEF StandsAt
<1>3. \A q \in Prompts : q /= p => StandsAt(q)' = StandsAt(q)
  BY <1>1, StandsSame
<1>4. Promised!Goes(p, "unsent", "offered")
  BY <1>2, <1>3, StandingGoes
<1>5. Promised!Offer(p)
  BY <1>1, <1>4 DEF Promised!Offer, Promised!turnVars
<1> QED  BY <1>5 DEF PromiseStep, Promised!PromptStep

LEMMA QueuedPromised ==
    ASSUME QueueInv, NEW i \in DOMAIN queue
    PROVE  /\ queue[i] \in Prompts /\ call[queue[i]] = NoCall
           /\ fate[queue[i]] = "pending" /\ StandsAt(queue[i]) = "promised"
<1>1. queue[i] \in Prompts
  BY DEF QueueInv, TypeOK
<1>2. fate[queue[i]] = "pending" /\ call[queue[i]] = NoCall
  BY <1>1 DEF QueueInv, OnePlace, Queued, InHand
<1> QED  BY <1>1, <1>2, NoCallFacts DEF StandsAt

LEMMA DeletePromised ==
    ASSUME Agreed, NEW i \in DOMAIN queue, Delete(i) PROVE PromiseStep
<1>0. TypeOK /\ QueueInv
  BY DEF Agreed, QueueInv
<1>1. PICK p \in Prompts : p = queue[i]
  BY <1>0, QueuedPromised
<1>2. /\ fate'[p] = "deleted"
      /\ \A q \in Prompts : q /= p => fate'[q] = fate[q]
      /\ UNCHANGED <<call, turn, answered, overlapped>>
  BY <1>0, <1>1, FateFacts DEF Delete, Fates
<1>3. StandsAt(p) = "promised" /\ StandsAt(p)' = "deleted"
  BY <1>0, <1>1, <1>2, QueuedPromised DEF StandsAt
<1>4. \A q \in Prompts : q /= p => StandsAt(q)' = StandsAt(q)
  BY <1>2, StandsSame
<1>5. Promised!Goes(p, "promised", "deleted")
  BY <1>3, <1>4, StandingGoes
<1>6. Promised!Delete(p)
  BY <1>2, <1>5 DEF Promised!Delete, Promised!turnVars
<1> QED  BY <1>6 DEF PromiseStep, Promised!PromptStep

LEMMA StartNextPromised ==
    ASSUME Agreed, StartNext PROVE PromiseStep
<1>0. /\ TypeOK /\ QueueInv /\ UNCHANGED <<fate, turn, answered, overlapped>>
  BY DEF Agreed, QueueInv, StartNext
<1>1. CASE call' = call
  BY <1>0, <1>1, StandingsUntouched, PromiseStays
<1>2. ASSUME NEW i \in DOMAIN queue,
             call' = [call EXCEPT ![queue[i]] =
                         [from |-> "queue", at |-> "question"]]
      PROVE  PromiseStep
  <2>1. PICK p \in Prompts : p = queue[i]
    BY <1>0, QueuedPromised
  <2>2. /\ call'[p].from = "queue" /\ call[p] = NoCall
        /\ \A q \in Prompts : q /= p => call'[q] = call[q]
    BY <1>0, <1>2, <2>1, QueuedPromised DEF TypeOK
  <2>3. \A q \in Prompts : StandsAt(q)' = StandsAt(q)
    BY <1>0, <2>2, NoCallFacts, StandsSame
  <2> QED  BY <1>0, <2>3, StandingsSame, PromiseStays
<1> QED  BY <1>1, <1>2 DEF StartNext

LEMMA CrashPromised ==
    ASSUME Agreed, Crash PROVE PromiseStep
<1>0. /\ TypeOK /\ QueueInv /\ faults' > 0 /\ fate \in [Prompts -> Fates]
      /\ UNCHANGED <<turn, answered, overlapped>>
  BY DEF Agreed, QueueInv, TypeOK, Crash, Fault, disk
<1>1. \A p \in Prompts :
        /\ call'[p] = NoCall
        /\ fate'[p] = IF fate[p] /= "pending" \/ Queued(p) THEN fate[p]
                      ELSE IF call[p].from \in {"client", "hook"} THEN "refused"
                      ELSE "dropped"
  BY DEF Crash
<1>2. \A p \in Prompts : Queued(p) => call[p] = NoCall
  BY <1>0 DEF QueueInv, OnePlace, InHand
<1>3. ASSUME NEW p \in Prompts
      PROVE  /\ StandsAt(p)' \in Promised!Standing
             /\ StandsAt(p) = "offered" => StandsAt(p)' = "refused"
             /\ StandsAt(p) = "promised" => StandsAt(p)' \in {"promised", "dropped"}
             /\ StandsAt(p) \notin {"offered", "promised"} =>
                    StandsAt(p)' = StandsAt(p)
  <2>1. CASE fate[p] /= "pending"
    <3>1. StandsAt(p) = fate[p] /\ StandsAt(p)' = fate[p] /\ fate[p] \in Fates
      BY <1>0, <1>1, <2>1 DEF StandsAt
    <3> QED  BY <2>1, <3>1 DEF Fates, Promised!Standing, Promised!Final
  <2>2. CASE fate[p] = "pending" /\ Queued(p)
    <3>1. StandsAt(p) = "promised" /\ StandsAt(p)' = "promised"
      BY <1>1, <1>2, <2>2, NoCallFacts DEF StandsAt
    <3> QED  BY <3>1 DEF Promised!Standing
  <2>3. CASE fate[p] = "pending" /\ ~Queued(p) /\ call[p].from \in {"client", "hook"}
    <3>1. StandsAt(p) = "offered" /\ StandsAt(p)' = "refused"
      BY <1>1, <2>3 DEF StandsAt
    <3> QED  BY <3>1 DEF Promised!Standing, Promised!Final
  <2>4. CASE fate[p] = "pending" /\ ~Queued(p) /\ call[p].from \notin {"client", "hook"}
    <3>1. StandsAt(p) = "promised" /\ StandsAt(p)' = "dropped"
      BY <1>1, <2>4 DEF StandsAt
    <3> QED  BY <3>1 DEF Promised!Standing, Promised!Final
  <2> QED  BY <2>1, <2>2, <2>3, <2>4
<1>4. /\ \A p \in Prompts : Standings[p] = StandsAt(p) /\ Standings'[p] = StandsAt(p)'
      /\ Standings' = [p \in Prompts |-> StandsAt(p)']
  BY DEF Standings
<1>5. Standings' \in [Prompts -> Promised!Standing]
  BY <1>3, <1>4
<1>6. \A p \in Prompts :
        CASE Standings[p] = "offered" -> Standings'[p] = "refused"
          [] Standings[p] = "promised" -> Standings'[p] \in {"promised", "dropped"}
          [] OTHER -> Standings'[p] = Standings[p]
  BY <1>3, <1>4
<1>7. Promised!Crash
  BY <1>0, <1>5, <1>6 DEF Promised!Crash, Promised!turnVars
<1> QED  BY <1>7 DEF PromiseStep

LEMMA OthersPromised ==
    ASSUME Agreed,
           \/ ReaderStep \/ Clock \/ FireTimer \/ ResumeTimers \/ StartNext
           \/ Environment
    PROVE  PromiseStep
<1>1. CASE ReaderStep \/ Clock \/ FireTimer \/ ResumeTimers
  <2>1. UNCHANGED <<fate, call, turn, answered, overlapped>>
    BY <1>1
    DEF ReaderStep, FindAtStartup, ResumeThread, Clock, TimePasses, FireTimer,
        ResumeTimers, disk, past
  <2> QED  BY <2>1, StandingsUntouched, PromiseStays
<1>2. CASE Environment
  <2>1. CASE FindInterrupted \/ EnableTimers \/ \E i \in DOMAIN queue : UpdatePrompt(i)
    <3>1. UNCHANGED <<fate, call, turn, answered, overlapped>>
      BY <2>1 DEF FindInterrupted, EnableTimers, UpdatePrompt, disk, past
    <3> QED  BY <3>1, StandingsUntouched, PromiseStays
  <2>2. CASE Answer
    <3>1. Standings' = Standings /\ Promised!Answer
      BY <2>2, StandingsUntouched DEF Answer, past, Promised!Answer
    <3> QED  BY <3>1 DEF PromiseStep, Promised!TurnStep
  <2>3. CASE CancelQuestion
    <3>1. Standings' = Standings /\ Promised!End
      BY <2>3, StandingsUntouched DEF CancelQuestion, past, Promised!End
    <3> QED  BY <3>1 DEF PromiseStep, Promised!TurnStep
  <2> QED  BY <1>2, <2>1, <2>2, <2>3, PostPromised, DeletePromised, CrashPromised
           DEF Environment
<1> QED  BY <1>1, <1>2, StartNextPromised

\* What PostChat, DeleteQueuedPrompt, StartNext, the completions and a restart
\* do to the prompts and to the turn are the steps of PromptPromises: no prompt
\* that was said to be queued or started is refused afterwards, it is dropped
\* only for a question or a failure, and each turn begins with one prompt.
THEOREM QueueKeepsPromises == Spec => KeepsPromises
<1>1. Init => Promised!Init
  <2> SUFFICES ASSUME Init PROVE Promised!Init
    OBVIOUS
  <2>1. \A p \in Prompts : StandsAt(p) = "unsent"
    BY DEF Init, StandsAt
  <2>2. Standings = [p \in Prompts |-> "unsent"]
    BY <2>1 DEF Standings
  <2> QED  BY <2>2, BoundsAssumption DEF Init, Promised!Init
<1>2. Agreed /\ DropInv' /\ [Next]_vars => [Promised!Next]_(Promised!vars)
  <2>1. ASSUME Agreed, DropInv', Next PROVE Promised!Next
    <3>1. PromiseStep
      BY <2>1, CallsPromised, PreparesPromised, TakePromised, TurnPromised,
         OthersPromised
      DEF Next, CompletionStep
    <3>2. faults > 0 => faults' > 0
      BY <2>1, FaultsStay DEF Agreed, QueueInv
    <3> QED  BY <3>1, <3>2 DEF PromiseStep, Promised!Next, Promised!turnVars
  <2>2. ASSUME UNCHANGED vars PROVE UNCHANGED Promised!vars
    <3>1. Standings' = Standings
      BY <2>2, StandingsUntouched DEF vars
    <3> QED  BY <2>2, <3>1 DEF vars, Promised!vars
  <2> QED  BY <2>1, <2>2
<1> QED  BY <1>1, <1>2, QueueInvariant, DropInvariant, TurnInvariant, PTL
         DEF Spec, KeepsPromises, Promised!Spec, Agreed

-----------------------------------------------------------------------------
(* What users of the queue may rely on follows from the promises alone.      *)

LEMMA PromiseStepKeeps ==
    ASSUME Promised!Promises, [Promised!Next]_(Promised!vars)
    PROVE  Promised!Promises' /\ [Promised!Keeps]_(Promised!vars)
<1> DEFINE S == Standings
           failed == faults > 0
           Typed == S \in [Prompts -> Promised!Standing]
           Turns == turn \in {"none", "open", "question"} /\ answered \in BOOLEAN
           Reasons == \A p \in Prompts : S[p] = "dropped" => failed \/ p \in overlapped
           Tells == Typed' /\ Turns' /\ Reasons' /\ Promised!Keeps
<1>1. Typed /\ Turns /\ Reasons
  BY DEF Promised!Promises, Promised!TypeOK, Promised!DropsHaveAReason
<1>2. ASSUME Tells PROVE Promised!Promises' /\ Promised!Keeps
  BY <1>2 DEF Promised!Promises, Promised!TypeOK, Promised!DropsHaveAReason
<1>3. CASE UNCHANGED Promised!vars
  BY <1>3 DEF Promised!vars, Promised!Promises, Promised!TypeOK,
              Promised!DropsHaveAReason
<1>4. CASE Promised!Next
  <2>0. failed => failed'
    BY <1>4 DEF Promised!Next
  \* The standings, whatever the turn does.
  <2>1. ASSUME NEW p \in Prompts, NEW from, NEW to \in Promised!Standing,
               Promised!Goes(p, from, to)
        PROVE  /\ Typed' /\ S[p] = from
               /\ \A q \in Prompts : S'[q] = IF q = p THEN to ELSE S[q]
    BY <1>1, <2>1 DEF Promised!Goes
  <2>2. ASSUME NEW p \in Prompts, Promised!PromptStep(p) PROVE Tells
    <3>1. CASE Promised!Offer(p)
      <4>1. Promised!Goes(p, "unsent", "offered") /\ UNCHANGED <<turn, answered, overlapped>>
        BY <3>1 DEF Promised!Offer, Promised!turnVars
      <4>2. /\ Typed' /\ S[p] = "unsent"
            /\ \A q \in Prompts : S'[q] = IF q = p THEN "offered" ELSE S[q]
        BY <2>1, <4>1 DEF Promised!Standing
      <4> QED  BY <1>1, <2>0, <4>1, <4>2 DEF Promised!Keeps, Promised!Final
    <3>2. CASE Promised!Refuse(p)
      <4>1. Promised!Goes(p, "offered", "refused") /\ UNCHANGED <<turn, answered, overlapped>>
        BY <3>2 DEF Promised!Refuse, Promised!turnVars
      <4>2. /\ Typed' /\ S[p] = "offered"
            /\ \A q \in Prompts : S'[q] = IF q = p THEN "refused" ELSE S[q]
        BY <2>1, <4>1 DEF Promised!Standing, Promised!Final
      <4> QED  BY <1>1, <2>0, <4>1, <4>2 DEF Promised!Keeps, Promised!Final
    <3>3. CASE Promised!Promise(p)
      <4>1. /\ Promised!Goes(p, "offered", "promised")
            /\ \/ UNCHANGED <<turn, answered, overlapped>>
               \/ /\ turn = "open" /\ turn' \in {"none", "question"}
                  /\ answered' = FALSE /\ overlapped \subseteq overlapped'
        BY <3>3 DEF Promised!Promise, Promised!turnVars, Promised!Ask, Promised!End
      <4>2. /\ Typed' /\ S[p] = "offered"
            /\ \A q \in Prompts : S'[q] = IF q = p THEN "promised" ELSE S[q]
        BY <2>1, <4>1 DEF Promised!Standing
      <4> QED  BY <1>1, <2>0, <4>1, <4>2 DEF Promised!Keeps, Promised!Final
    <3>4. CASE Promised!Take(p)
      <4>1. /\ Promised!Goes(p, "promised", "taken")
            /\ turn = "none" /\ turn' = "open" /\ UNCHANGED <<answered, overlapped>>
        BY <3>4 DEF Promised!Take, Promised!Begin
      <4>2. /\ Typed' /\ S[p] = "promised"
            /\ \A q \in Prompts : S'[q] = IF q = p THEN "taken" ELSE S[q]
        BY <2>1, <4>1 DEF Promised!Standing, Promised!Final
      <4> QED  BY <1>1, <2>0, <4>1, <4>2 DEF Promised!Keeps, Promised!Final
    <3>5. CASE Promised!Delete(p)
      <4>1. Promised!Goes(p, "promised", "deleted") /\ UNCHANGED <<turn, answered, overlapped>>
        BY <3>5 DEF Promised!Delete, Promised!turnVars
      <4>2. /\ Typed' /\ S[p] = "promised"
            /\ \A q \in Prompts : S'[q] = IF q = p THEN "deleted" ELSE S[q]
        BY <2>1, <4>1 DEF Promised!Standing, Promised!Final
      <4> QED  BY <1>1, <2>0, <4>1, <4>2 DEF Promised!Keeps, Promised!Final
    <3>6. CASE Promised!Drop(p)
      <4>1. /\ Promised!Goes(p, "promised", "dropped")
            /\ failed' \/ p \in overlapped
            /\ UNCHANGED <<turn, answered, overlapped>>
        BY <3>6 DEF Promised!Drop, Promised!turnVars
      <4>2. /\ Typed' /\ S[p] = "promised"
            /\ \A q \in Prompts : S'[q] = IF q = p THEN "dropped" ELSE S[q]
        BY <2>1, <4>1 DEF Promised!Standing, Promised!Final
      <4> QED  BY <1>1, <2>0, <4>1, <4>2 DEF Promised!Keeps, Promised!Final
    <3> QED  BY <2>2, <3>1, <3>2, <3>3, <3>4, <3>5, <3>6 DEF Promised!PromptStep
  <2>3. ASSUME Promised!TurnStep PROVE Tells
    <3>1. /\ S' = S /\ overlapped \subseteq overlapped'
          /\ turn' \in {"none", "open", "question"} /\ answered' \in BOOLEAN
          /\ turn = "none" /\ turn' /= "none" => failed
          /\ turn = "question" /\ turn' = "open" => answered
      BY <1>1, <2>3
      DEF Promised!TurnStep, Promised!Ask, Promised!End, Promised!Answer,
          Promised!GoOn, Promised!Begin
    <3> QED  BY <1>1, <2>0, <3>1 DEF Promised!Keeps, Promised!Final
  <2>4. ASSUME Promised!Crash PROVE Tells
    <3>1. /\ failed' /\ S' \in [Prompts -> Promised!Standing]
          /\ UNCHANGED <<turn, answered, overlapped>>
      BY <2>4 DEF Promised!Crash, Promised!turnVars
    <3>2. \A p \in Prompts :
            /\ S[p] = "offered" => S'[p] = "refused"
            /\ S[p] = "promised" => S'[p] \in {"promised", "dropped"}
            /\ S[p] \notin {"offered", "promised"} => S'[p] = S[p]
      BY <2>4 DEF Promised!Crash
    <3> QED  BY <1>1, <3>1, <3>2 DEF Promised!Keeps, Promised!Final
  <2>5. ASSUME UNCHANGED <<S, turn, answered, overlapped>> PROVE Tells
    BY <1>1, <2>0, <2>5 DEF Promised!Keeps, Promised!Final
  <2> QED  BY <1>2, <1>4, <2>2, <2>3, <2>4, <2>5
           DEF Promised!Next, Promised!turnVars
<1> QED  BY <1>3, <1>4

\* Whoever keeps the promises does not take them back: a prompt that was
\* promised is not refused, what became of a prompt is final, a drop has its
\* reason, and turns begin one prompt at a time and after an answer go on.
THEOREM PromisesLast == Promised!Spec => []Promised!Promises /\ Promised!Lasting
<1>1. Promised!Init => Promised!Promises
  BY DEF Promised!Init, Promised!Promises, Promised!TypeOK, Promised!Standing,
         Promised!DropsHaveAReason
<1>2. Promised!Promises /\ [Promised!Next]_(Promised!vars) =>
        Promised!Promises' /\ [Promised!Keeps]_(Promised!vars)
  BY PromiseStepKeeps
<1> QED  BY <1>1, <1>2, PTL DEF Promised!Spec, Promised!Lasting

\* A prompt that was once in the queue is never refused afterwards.
THEOREM QueuedIsNeverRefused ==
    ASSUME NEW p \in Prompts PROVE Spec => QueuedForGood(p)
<1> DEFINE Kept == StandsAt(p) \in {"promised", "taken", "deleted", "dropped"}
<1>1. QueueInv /\ Queued(p) => Kept
  BY NoCallFacts DEF QueueInv, OnePlace, InHand, StandsAt
<1>2. Kept /\ [Promised!Keeps]_(Promised!vars) => Kept'
  <2> SUFFICES ASSUME Kept, [Promised!Keeps]_(Promised!vars) PROVE Kept'
    OBVIOUS
  <2>1. Standings[p] = StandsAt(p) /\ Standings'[p] = StandsAt(p)'
    BY DEF Standings
  <2>2. CASE Promised!Keeps
    BY <2>1, <2>2 DEF Promised!Keeps, Promised!Final
  <2>3. CASE UNCHANGED Promised!vars
    BY <2>1, <2>3 DEF Promised!vars
  <2> QED  BY <2>2, <2>3
<1>3. Kept => fate[p] /= "refused"
  BY DEF StandsAt
<1> QED  BY <1>1, <1>2, <1>3, QueueInvariant, QueueKeepsPromises, PromisesLast, PTL
         DEF KeepsPromises, Promised!Lasting, QueuedForGood

\* Without a failure a turn begins only with a prompt that waited for it.
THEOREM TurnsBeginWithPrompts == Spec => TurnsAreAskedFor
<1>1. TypeOK /\ [Promised!Keeps]_(Promised!vars) => [BeginsWithPrompt]_vars
  <2> SUFFICES ASSUME TypeOK, [Promised!Keeps]_(Promised!vars), turn = "none",
                      turn' /= "none", faults = 0
               PROVE  \E p \in Prompts : fate[p] = "pending" /\ fate'[p] = "taken"
    BY DEF BeginsWithPrompt
  <2>1. Promised!Keeps
    BY DEF Promised!vars
  <2>2. PICK p \in Prompts : Standings'[p] = "taken" /\ Standings[p] /= "taken"
    BY <2>1 DEF Promised!Keeps
  <2>3. Standings[p] = StandsAt(p) /\ Standings'[p] = StandsAt(p)'
    BY DEF Standings
  <2>4. StandsAt(p) = "promised"
    BY <2>1, <2>2, <2>3 DEF Promised!Keeps
  <2>5. fate[p] \in Fates
    BY DEF TypeOK
  <2> QED  BY <2>2, <2>3, <2>4, <2>5 DEF StandsAt, Fates
<1> QED  BY <1>1, QueueTypes, QueueKeepsPromises, PromisesLast, PTL
         DEF KeepsPromises, Promised!Lasting, TurnsAreAskedFor
=============================================================================
