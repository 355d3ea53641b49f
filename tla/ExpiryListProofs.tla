-------------------------- MODULE ExpiryListProofs --------------------------
(***************************************************************************)
(* What the operations of ExpiryList do to the keys and to the order of a   *)
(* list.  The proofs about the stores rest on these lemmas.                 *)
(***************************************************************************)
EXTENDS ExpiryList, SequenceTheorems, TLAPS

(***************************************************************************)
(* Dropping the first n elements shifts the others to the front.            *)
(***************************************************************************)
LEMMA AfterNElements ==
    ASSUME NEW E, NEW list \in Seq(E), NEW n \in 0 .. Len(list)
    PROVE  /\ AfterN(list, n) \in Seq(E)
           /\ Len(AfterN(list, n)) = Len(list) - n
           /\ \A i \in 1 .. Len(list) - n : AfterN(list, n)[i] = list[n + i]
           /\ FirstN(list, n) \in Seq(E)
           /\ Len(FirstN(list, n)) = n
           /\ \A i \in 1 .. n : FirstN(list, n)[i] = list[i]
<1>1. Len(list) \in Nat /\ \A i \in 1 .. Len(list) : list[i] \in E
    BY LenProperties, ElementOfSeq
<1>2. /\ SubSeq(list, n + 1, Len(list)) \in Seq(E)
      /\ Len(SubSeq(list, n + 1, Len(list)))
            = IF n + 1 <= Len(list) THEN Len(list) - (n + 1) + 1 ELSE 0
      /\ \A i \in 1 .. Len(list) - (n + 1) + 1 :
            SubSeq(list, n + 1, Len(list))[i] = list[(n + 1) + i - 1]
    BY <1>1, SubSeqProperties, \A i \in (n + 1) .. Len(list) : list[i] \in E,
       n + 1 \in Int
<1>3. /\ SubSeq(list, 1, n) \in Seq(E)
      /\ Len(SubSeq(list, 1, n)) = IF 1 <= n THEN n - 1 + 1 ELSE 0
      /\ \A i \in 1 .. n - 1 + 1 : SubSeq(list, 1, n)[i] = list[1 + i - 1]
    BY <1>1, SubSeqProperties, \A i \in 1 .. n : list[i] \in E
<1> QED
    BY <1>1, <1>2, <1>3 DEF AfterN, FirstN

(***************************************************************************)
(* How many elements follow position p.                                     *)
(***************************************************************************)
LEMMA LengthAfter ==
    ASSUME NEW n \in Nat, NEW p \in 1 .. n
    PROVE  (IF p + 1 <= n THEN n - (p + 1) + 1 ELSE 0) = n - p
OBVIOUS

(***************************************************************************)
(* Removing the element of a key the list holds closes the gap it leaves.   *)
(***************************************************************************)
LEMMA WithoutElements ==
    ASSUME NEW E, NEW list \in Seq(E), NEW k \in KeysOf(list)
    PROVE  /\ IndexOf(list, k) \in 1 .. Len(list)
           /\ list[IndexOf(list, k)].key = k
           /\ Without(list, k) \in Seq(E)
           /\ Len(Without(list, k)) = Len(list) - 1
           /\ \A i \in 1 .. Len(list) - 1 :
                 Without(list, k)[i] =
                     IF i < IndexOf(list, k) THEN list[i] ELSE list[i + 1]
<1>1. /\ Len(list) \in Nat
      /\ DOMAIN list = 1 .. Len(list)
      /\ \A i \in 1 .. Len(list) : list[i] \in E
    BY LenProperties, ElementOfSeq
<1> DEFINE p == IndexOf(list, k)
           front == SubSeq(list, 1, p - 1)
           back == SubSeq(list, p + 1, Len(list))
<1>2. \E i \in DOMAIN list : list[i].key = k
    BY DEF KeysOf
<1>3. p \in 1 .. Len(list) /\ list[p].key = k
    BY <1>1, <1>2 DEF IndexOf
<1> HIDE DEF p
<1>4. /\ front \in Seq(E)
      /\ Len(front) = p - 1
      /\ \A i \in 1 .. p - 1 : front[i] = list[i]
    <2>1. \A i \in 1 .. p - 1 : list[i] \in E
        BY <1>1, <1>3
    <2>2. p - 1 \in Int
        BY <1>3
    <2>3. /\ front \in Seq(E)
          /\ Len(front) = IF 1 <= p - 1 THEN p - 1 - 1 + 1 ELSE 0
          /\ \A i \in 1 .. p - 1 - 1 + 1 : front[i] = list[1 + i - 1]
        BY <2>1, <2>2, SubSeqProperties
    <2> QED
        BY <1>1, <1>3, <2>3
<1>5. /\ back \in Seq(E)
      /\ Len(back) = Len(list) - p
      /\ \A i \in 1 .. Len(list) - p : back[i] = list[p + i]
    <2>1. \A i \in p + 1 .. Len(list) : list[i] \in E
        BY <1>1, <1>3
    <2>2. p + 1 \in Int
        BY <1>3
    <2>3. /\ back \in Seq(E)
          /\ Len(back) = IF p + 1 <= Len(list) THEN Len(list) - (p + 1) + 1 ELSE 0
          /\ \A i \in 1 .. Len(list) - (p + 1) + 1 : back[i] = list[(p + 1) + i - 1]
        BY <1>1, <2>1, <2>2, SubSeqProperties
    <2> HIDE DEF back
    <2>4. ASSUME NEW i \in 1 .. Len(list) - p
          PROVE  back[i] = list[p + i]
        <3>1. (p + 1) + i - 1 = p + i /\ i \in 1 .. Len(list) - (p + 1) + 1
            BY <1>1, <1>3
        <3> QED
            BY <2>3, <3>1
    <2>5. Len(back) = Len(list) - p
        <3>1. Len(back) = IF p + 1 <= Len(list) THEN Len(list) - (p + 1) + 1 ELSE 0
            BY <2>3
        <3>2. Len(list) \in Nat /\ p \in 1 .. Len(list)
            BY <1>1, <1>3
        <3> QED
            BY <3>1, <3>2, LengthAfter
    <2> QED
        BY <2>3, <2>4, <2>5
<1>6. Without(list, k) = front \o back
    BY DEF Without, RemoveAt, p
<1> HIDE DEF front, back
<1>7. /\ front \o back \in Seq(E)
      /\ Len(front \o back) = Len(front) + Len(back)
      /\ \A i \in 1 .. Len(front) + Len(back) :
            (front \o back)[i] = IF i <= Len(front) THEN front[i]
                                 ELSE back[i - Len(front)]
    BY <1>4, <1>5, ConcatProperties
<1>8. \A i \in 1 .. Len(list) - 1 :
         (front \o back)[i] = IF i < p THEN list[i] ELSE list[i + 1]
    <2> SUFFICES ASSUME NEW i \in 1 .. Len(list) - 1
                 PROVE  (front \o back)[i] = IF i < p THEN list[i] ELSE list[i + 1]
        OBVIOUS
    <2>1. CASE i < p
        <3>1. i \in 1 .. p - 1 /\ i <= Len(front) /\ i \in 1 .. Len(front) + Len(back)
            BY <1>1, <1>3, <1>4, <1>5, <2>1
        <3> QED
            BY <1>4, <1>7, <2>1, <3>1
    <2>2. CASE i >= p
        <3>1. /\ ~(i <= Len(front)) /\ i \in 1 .. Len(front) + Len(back)
              /\ i - Len(front) = i - p + 1 /\ i - p + 1 \in 1 .. Len(list) - p
              /\ p + (i - p + 1) = i + 1
            BY <1>1, <1>3, <1>4, <1>5, <2>2
        <3>2. (front \o back)[i] = back[i - p + 1]
            BY <1>7, <3>1
        <3>3. back[i - p + 1] = list[p + (i - p + 1)]
            BY <1>5, <3>1
        <3> QED
            BY <1>1, <1>3, <2>2, <3>1, <3>2, <3>3
    <2>3. i < p \/ i >= p
        BY <1>1, <1>3
    <2> QED
        BY <2>1, <2>2, <2>3
<1> QED
    BY <1>1, <1>3, <1>4, <1>5, <1>6, <1>7, <1>8 DEF p

(***************************************************************************)
(* A list with distinct keys loses exactly the keys of the elements it      *)
(* drops.                                                                   *)
(***************************************************************************)
LEMMA AfterNKeys ==
    ASSUME NEW E, NEW list \in Seq(E), NEW n \in 0 .. Len(list),
           KeysDistinct(list)
    PROVE  /\ KeysDistinct(AfterN(list, n))
           /\ KeysOf(AfterN(list, n)) = KeysOf(list) \ KeysOf(FirstN(list, n))
<1>1. /\ Len(list) \in Nat
      /\ DOMAIN list = 1 .. Len(list)
      /\ DOMAIN AfterN(list, n) = 1 .. Len(list) - n
      /\ DOMAIN FirstN(list, n) = 1 .. n
    BY AfterNElements, LenProperties
<1>2. /\ \A i \in 1 .. Len(list) - n : AfterN(list, n)[i] = list[n + i]
      /\ \A i \in 1 .. n : FirstN(list, n)[i] = list[i]
    BY AfterNElements
<1>3. KeysDistinct(AfterN(list, n))
    <2> SUFFICES ASSUME NEW i \in 1 .. Len(list) - n, NEW j \in 1 .. Len(list) - n,
                        AfterN(list, n)[i].key = AfterN(list, n)[j].key
                 PROVE  i = j
        BY <1>1 DEF KeysDistinct
    <2>1. n + i \in DOMAIN list /\ n + j \in DOMAIN list
        BY <1>1
    <2>2. list[n + i].key = list[n + j].key
        BY <1>2
    <2>3. n + i = n + j
        BY <2>1, <2>2 DEF KeysDistinct
    <2>4. n \in Int /\ i \in Int /\ j \in Int
        OBVIOUS
    <2> QED
        BY <2>3, <2>4
<1>4. KeysOf(AfterN(list, n)) = {list[i].key : i \in n + 1 .. Len(list)}
    <2>1. \A i \in n + 1 .. Len(list) :
             i - n \in 1 .. Len(list) - n /\ AfterN(list, n)[i - n] = list[i]
        BY <1>1, <1>2
    <2>2. \A i \in 1 .. Len(list) - n : n + i \in n + 1 .. Len(list)
        BY <1>1
    <2> DEFINE a == AfterN(list, n)
    <2>3. /\ KeysOf(a) = {a[i].key : i \in 1 .. Len(list) - n}
          /\ \A i \in 1 .. Len(list) - n : a[i] = list[n + i]
        BY <1>1, <1>2 DEF KeysOf
    <2> HIDE DEF a
    <2>4. \A i \in 1 .. Len(list) - n :
             a[i].key \in {list[j].key : j \in n + 1 .. Len(list)}
        BY <2>2, <2>3
    <2>5. \A i \in n + 1 .. Len(list) :
             list[i].key \in {a[j].key : j \in 1 .. Len(list) - n}
        BY <2>1 DEF a
    <2>6. KeysOf(a) = {list[i].key : i \in n + 1 .. Len(list)}
        BY <2>3, <2>4, <2>5
    <2> QED
        BY <2>6 DEF a
<1>5. KeysOf(FirstN(list, n)) = {list[i].key : i \in 1 .. n}
    BY <1>1, <1>2 DEF KeysOf
<1>6. 1 .. Len(list) = 1 .. n \cup n + 1 .. Len(list)
    BY <1>1
<1>7. \A i \in 1 .. n, j \in n + 1 .. Len(list) : list[i].key # list[j].key
    BY <1>1 DEF KeysDistinct
<1>8. KeysOf(list) = {list[i].key : i \in 1 .. Len(list)}
    BY <1>1 DEF KeysOf
<1>9. \A x : x \in KeysOf(AfterN(list, n)) => x \in KeysOf(list) \ KeysOf(FirstN(list, n))
    BY <1>4, <1>5, <1>6, <1>7, <1>8
<1>10. \A x : x \in KeysOf(list) \ KeysOf(FirstN(list, n)) => x \in KeysOf(AfterN(list, n))
    BY <1>4, <1>5, <1>6, <1>8
<1> QED
    BY <1>3, <1>9, <1>10

(***************************************************************************)
(* Removing one key from a list with distinct keys removes only that key.   *)
(***************************************************************************)
LEMMA WithoutKeys ==
    ASSUME NEW E, NEW list \in Seq(E), NEW k \in KeysOf(list),
           KeysDistinct(list)
    PROVE  /\ KeysDistinct(Without(list, k))
           /\ KeysOf(Without(list, k)) = KeysOf(list) \ {k}
<1> DEFINE p == IndexOf(list, k)
           w == Without(list, k)
<1>1. /\ Len(list) \in Nat
      /\ DOMAIN list = 1 .. Len(list)
      /\ p \in 1 .. Len(list)
      /\ list[p].key = k
      /\ DOMAIN w = 1 .. Len(list) - 1
      /\ \A i \in 1 .. Len(list) - 1 : w[i] = IF i < p THEN list[i] ELSE list[i + 1]
    BY WithoutElements, LenProperties
<1> HIDE DEF p, w
<1>2. KeysDistinct(w)
    <2> SUFFICES ASSUME NEW i \in 1 .. Len(list) - 1, NEW j \in 1 .. Len(list) - 1,
                        w[i].key = w[j].key
                 PROVE  i = j
        BY <1>1 DEF KeysDistinct
    <2> DEFINE at(m) == IF m < p THEN m ELSE m + 1
    <2>1. at(i) \in DOMAIN list /\ at(j) \in DOMAIN list
        BY <1>1
    <2>2. w[i] = list[at(i)] /\ w[j] = list[at(j)]
        BY <1>1
    <2>3. at(i) = at(j)
        <3> HIDE DEF at
        <3> QED
            BY <2>1, <2>2 DEF KeysDistinct
    <2> QED
        BY <1>1, <2>3
<1>3. KeysOf(w) = {list[i].key : i \in (1 .. Len(list)) \ {p}}
    <2>1. \A i \in (1 .. Len(list)) \ {p} :
             \E j \in 1 .. Len(list) - 1 : w[j] = list[i]
        <3> SUFFICES ASSUME NEW i \in (1 .. Len(list)) \ {p}
                     PROVE  \E j \in 1 .. Len(list) - 1 : w[j] = list[i]
            OBVIOUS
        <3>1. CASE i < p
            BY <1>1, <3>1
        <3>2. CASE i > p
            <4>1. i - 1 \in 1 .. Len(list) - 1 /\ ~(i - 1 < p) /\ (i - 1) + 1 = i
                BY <1>1, <3>2
            <4>2. w[i - 1] = list[(i - 1) + 1]
                BY <1>1, <4>1
            <4> QED
                BY <4>1, <4>2
        <3> QED
            BY <1>1, <3>1, <3>2
    <2>2. \A j \in 1 .. Len(list) - 1 :
             \E i \in (1 .. Len(list)) \ {p} : w[j] = list[i]
        <3> SUFFICES ASSUME NEW j \in 1 .. Len(list) - 1
                     PROVE  \E i \in (1 .. Len(list)) \ {p} : w[j] = list[i]
            OBVIOUS
        <3>1. CASE j < p
            BY <1>1, <3>1
        <3>2. CASE j >= p
            <4>1. j + 1 \in (1 .. Len(list)) \ {p} /\ ~(j < p)
                BY <1>1, <3>2
            <4>2. w[j] = list[j + 1]
                BY <1>1, <4>1
            <4> QED
                BY <4>1, <4>2
        <3> QED
            BY <1>1, <3>1, <3>2
    <2>3. KeysOf(w) = {w[j].key : j \in 1 .. Len(list) - 1}
        BY <1>1 DEF KeysOf
    <2>4. \A x \in KeysOf(w) : x \in {list[i].key : i \in (1 .. Len(list)) \ {p}}
        BY <2>2, <2>3
    <2>5. \A x \in {list[i].key : i \in (1 .. Len(list)) \ {p}} : x \in KeysOf(w)
        BY <2>1, <2>3
    <2> QED
        BY <2>4, <2>5
<1>4. \A i \in 1 .. Len(list) : list[i].key = k => i = p
    BY <1>1 DEF KeysDistinct
<1>5. KeysOf(w) = KeysOf(list) \ {k}
    <2>1. /\ KeysOf(list) = {list[i].key : i \in 1 .. Len(list)}
          /\ p \in 1 .. Len(list) /\ list[p].key = k
        BY <1>1 DEF KeysOf
    <2>2. \A x : x \in KeysOf(w) => x \in KeysOf(list) \ {k}
        BY <1>3, <1>4, <2>1
    <2>3. \A x : x \in KeysOf(list) \ {k} => x \in KeysOf(w)
        BY <1>3, <2>1
    <2> QED
        BY <2>2, <2>3
<1> QED
    BY <1>2, <1>5 DEF w

(***************************************************************************)
(* Adding an entry whose key is new.                                        *)
(***************************************************************************)
LEMMA AppendKeys ==
    ASSUME NEW E, NEW list \in Seq(E), NEW e \in E,
           KeysDistinct(list), e.key \notin KeysOf(list)
    PROVE  /\ KeysDistinct(Append(list, e))
           /\ KeysOf(Append(list, e)) = KeysOf(list) \cup {e.key}
<1> DEFINE a == Append(list, e)
<1>1. /\ Len(list) \in Nat
      /\ DOMAIN list = 1 .. Len(list)
      /\ DOMAIN a = 1 .. Len(list) + 1
      /\ \A i \in 1 .. Len(list) : a[i] = list[i]
      /\ a[Len(list) + 1] = e
    BY AppendProperties, LenProperties
<1> HIDE DEF a
<1>2. 1 .. Len(list) + 1 = 1 .. Len(list) \cup {Len(list) + 1}
    BY <1>1
<1>3. KeysOf(a) = KeysOf(list) \cup {e.key}
    BY <1>1, <1>2 DEF KeysOf
<1>4. KeysDistinct(a)
    BY <1>1, <1>2 DEF KeysDistinct, KeysOf
<1> QED
    BY <1>3, <1>4 DEF a

(***************************************************************************)
(* The three operations keep a list in expiry order, adding provided that   *)
(* the new entry expires no earlier than the others.                        *)
(***************************************************************************)
LEMMA OrderedOperations ==
    ASSUME NEW E, \A e \in E : e.expiresAt \in Int,
           NEW list \in Seq(E), ExpiryOrdered(list)
    PROVE  /\ \A n \in 0 .. Len(list) : ExpiryOrdered(AfterN(list, n))
           /\ \A k \in KeysOf(list) : ExpiryOrdered(Without(list, k))
           /\ \A e \in E : (\A i \in DOMAIN list : list[i].expiresAt <= e.expiresAt)
                              => ExpiryOrdered(Append(list, e))
<1>1. Len(list) \in Nat /\ DOMAIN list = 1 .. Len(list)
    BY LenProperties
<1>2. \A i \in 1 .. Len(list) : list[i].expiresAt \in Int
    BY ElementOfSeq
<1>3. ASSUME NEW n \in 0 .. Len(list)
      PROVE  ExpiryOrdered(AfterN(list, n))
    <2>1. /\ DOMAIN AfterN(list, n) = 1 .. Len(list) - n
          /\ \A i \in 1 .. Len(list) - n : AfterN(list, n)[i] = list[n + i]
        <3>1. /\ AfterN(list, n) \in Seq(E)
              /\ Len(AfterN(list, n)) = Len(list) - n
              /\ \A i \in 1 .. Len(list) - n : AfterN(list, n)[i] = list[n + i]
            BY AfterNElements
        <3> QED
            BY <3>1, LenProperties
    <2> SUFFICES ASSUME NEW i \in 1 .. Len(list) - n, NEW j \in 1 .. Len(list) - n, i <= j
                 PROVE  AfterN(list, n)[i].expiresAt <= AfterN(list, n)[j].expiresAt
        BY <2>1 DEF ExpiryOrdered
    <2>2. n + i \in DOMAIN list /\ n + j \in DOMAIN list /\ n + i <= n + j
        BY <1>1
    <2>3. list[n + i].expiresAt <= list[n + j].expiresAt
        BY <2>2 DEF ExpiryOrdered
    <2> QED
        BY <2>1, <2>3
<1>4. ASSUME NEW k \in KeysOf(list)
      PROVE  ExpiryOrdered(Without(list, k))
    <2> DEFINE p == IndexOf(list, k)
               w == Without(list, k)
    <2>1. /\ p \in 1 .. Len(list)
          /\ DOMAIN w = 1 .. Len(list) - 1
          /\ \A i \in 1 .. Len(list) - 1 :
                w[i] = IF i < p THEN list[i] ELSE list[i + 1]
        BY WithoutElements, LenProperties
    <2> HIDE DEF p, w
    <2>2. ExpiryOrdered(w)
        <3> SUFFICES ASSUME NEW i \in 1 .. Len(list) - 1, NEW j \in 1 .. Len(list) - 1,
                            i <= j
                     PROVE  w[i].expiresAt <= w[j].expiresAt
            BY <2>1 DEF ExpiryOrdered
        <3> DEFINE at(m) == IF m < p THEN m ELSE m + 1
        <3>1. at(i) \in DOMAIN list /\ at(j) \in DOMAIN list /\ at(i) <= at(j)
            BY <1>1, <2>1
        <3>2. w[i] = list[at(i)] /\ w[j] = list[at(j)]
            BY <1>1, <2>1
        <3> HIDE DEF at
        <3> QED
            BY <3>1, <3>2 DEF ExpiryOrdered
    <2> QED
        BY <2>2 DEF w
<1>5. ASSUME NEW e \in E, \A i \in DOMAIN list : list[i].expiresAt <= e.expiresAt
      PROVE  ExpiryOrdered(Append(list, e))
    <2> DEFINE a == Append(list, e)
    <2>1. /\ DOMAIN a = 1 .. Len(list) + 1
          /\ \A i \in 1 .. Len(list) : a[i] = list[i]
          /\ a[Len(list) + 1] = e
        BY AppendProperties, LenProperties
    <2>2. e.expiresAt \in Int
        OBVIOUS
    <2> HIDE DEF a
    <2>3. ASSUME NEW i \in 1 .. Len(list) + 1, NEW j \in 1 .. Len(list) + 1, i <= j
          PROVE  a[i].expiresAt <= a[j].expiresAt
        <3>1. CASE j = Len(list) + 1
            <4>1. CASE i = Len(list) + 1
                BY <2>1, <2>2, <3>1, <4>1
            <4>2. CASE i # Len(list) + 1
                <5>1. i \in DOMAIN list
                    BY <1>1, <4>2
                <5> QED
                    BY <1>1, <1>5, <2>1, <3>1, <5>1
            <4> QED
                BY <4>1, <4>2
        <3>2. CASE j # Len(list) + 1
            <4>1. i \in DOMAIN list /\ j \in DOMAIN list
                BY <1>1, <2>3, <3>2
            <4> QED
                BY <1>1, <2>1, <2>3, <4>1 DEF ExpiryOrdered
        <3> QED
            BY <3>1, <3>2
    <2> QED
        BY <2>1, <2>3 DEF ExpiryOrdered, a
<1> QED
    BY <1>3, <1>4, <1>5
(***************************************************************************)
(* Dropping elements adds none: an upper bound on the expiry times stays    *)
(* one.                                                                     *)
(***************************************************************************)
LEMMA NoneLaterRemains ==
    ASSUME NEW E, NEW list \in Seq(E), NEW b,
           \A i \in DOMAIN list : list[i].expiresAt <= b
    PROVE  /\ \A n \in 0 .. Len(list) :
                 \A i \in DOMAIN AfterN(list, n) : AfterN(list, n)[i].expiresAt <= b
           /\ \A k \in KeysOf(list) :
                 \A i \in DOMAIN Without(list, k) : Without(list, k)[i].expiresAt <= b
<1>1. Len(list) \in Nat /\ DOMAIN list = 1 .. Len(list)
    BY LenProperties
<1>2. ASSUME NEW n \in 0 .. Len(list), NEW i \in DOMAIN AfterN(list, n)
      PROVE  AfterN(list, n)[i].expiresAt <= b
    <2>1. /\ AfterN(list, n) \in Seq(E)
          /\ Len(AfterN(list, n)) = Len(list) - n
          /\ \A j \in 1 .. Len(list) - n : AfterN(list, n)[j] = list[n + j]
        BY AfterNElements
    <2>2. i \in 1 .. Len(list) - n
        BY <1>2, <2>1, LenProperties
    <2>3. n + i \in DOMAIN list
        BY <1>1, <2>2
    <2>4. AfterN(list, n)[i] = list[n + i]
        BY <2>1, <2>2
    <2> QED
        BY <2>3, <2>4
<1>3. ASSUME NEW k \in KeysOf(list), NEW i \in DOMAIN Without(list, k)
      PROVE  Without(list, k)[i].expiresAt <= b
    <2> DEFINE p == IndexOf(list, k)
               w == Without(list, k)
    <2>1. /\ p \in 1 .. Len(list)
          /\ w \in Seq(E)
          /\ Len(w) = Len(list) - 1
          /\ \A j \in 1 .. Len(list) - 1 : w[j] = IF j < p THEN list[j] ELSE list[j + 1]
        BY WithoutElements
    <2>2. i \in 1 .. Len(list) - 1
        BY <1>3, <2>1, LenProperties
    <2> HIDE DEF p, w
    <2>3. \E j \in DOMAIN list : w[i] = list[j]
        BY <1>1, <2>1, <2>2
    <2> QED
        BY <2>3 DEF w
<1> QED
    BY <1>2, <1>3

(***************************************************************************)
(* All a store needs of its list: a key occurs once, the list is in expiry  *)
(* order, and nothing expires after b.  Every operation preserves it.       *)
(***************************************************************************)
Sound(list, b) ==
    /\ KeysDistinct(list)
    /\ ExpiryOrdered(list)
    /\ \A i \in DOMAIN list : list[i].expiresAt <= b

LEMMA SoundAfterN ==
    ASSUME NEW E, \A e \in E : e.expiresAt \in Int,
           NEW list \in Seq(E), NEW b, Sound(list, b), NEW n \in 0 .. Len(list)
    PROVE  /\ Sound(AfterN(list, n), b)
           /\ AfterN(list, n) \in Seq(E)
           /\ Len(AfterN(list, n)) = Len(list) - n
           /\ KeysOf(AfterN(list, n)) = KeysOf(list) \ KeysOf(FirstN(list, n))
<1>1. KeysDistinct(AfterN(list, n)) /\ KeysOf(AfterN(list, n)) = KeysOf(list) \ KeysOf(FirstN(list, n))
    BY AfterNKeys DEF Sound
<1>2. ExpiryOrdered(AfterN(list, n))
    BY OrderedOperations DEF Sound
<1>3. \A i \in DOMAIN AfterN(list, n) : AfterN(list, n)[i].expiresAt <= b
    BY NoneLaterRemains DEF Sound
<1> QED
    BY <1>1, <1>2, <1>3, AfterNElements DEF Sound

LEMMA SoundWithout ==
    ASSUME NEW E, \A e \in E : e.expiresAt \in Int,
           NEW list \in Seq(E), NEW b, Sound(list, b), NEW k \in KeysOf(list)
    PROVE  /\ Sound(Without(list, k), b)
           /\ Without(list, k) \in Seq(E)
           /\ Len(Without(list, k)) = Len(list) - 1
           /\ KeysOf(Without(list, k)) = KeysOf(list) \ {k}
<1>1. KeysDistinct(Without(list, k)) /\ KeysOf(Without(list, k)) = KeysOf(list) \ {k}
    BY WithoutKeys DEF Sound
<1>2. ExpiryOrdered(Without(list, k))
    BY OrderedOperations DEF Sound
<1>3. \A i \in DOMAIN Without(list, k) : Without(list, k)[i].expiresAt <= b
    BY NoneLaterRemains DEF Sound
<1> QED
    BY <1>1, <1>2, <1>3, WithoutElements DEF Sound

LEMMA SoundAppend ==
    ASSUME NEW E, \A x \in E : x.expiresAt \in Int,
           NEW list \in Seq(E), NEW e \in E, Sound(list, e.expiresAt),
           e.key \notin KeysOf(list)
    PROVE  /\ Sound(Append(list, e), e.expiresAt)
           /\ Append(list, e) \in Seq(E)
           /\ Len(Append(list, e)) = Len(list) + 1
           /\ KeysOf(Append(list, e)) = KeysOf(list) \cup {e.key}
<1> DEFINE a == Append(list, e)
<1>1. /\ a \in Seq(E)
      /\ Len(a) = Len(list) + 1
      /\ DOMAIN a = 1 .. Len(list) + 1
      /\ \A i \in 1 .. Len(list) : a[i] = list[i]
      /\ a[Len(list) + 1] = e
      /\ Len(list) \in Nat
      /\ DOMAIN list = 1 .. Len(list)
    BY AppendProperties, LenProperties
<1>2. KeysDistinct(a) /\ KeysOf(a) = KeysOf(list) \cup {e.key}
    BY AppendKeys DEF Sound
<1>3. ExpiryOrdered(a)
    BY OrderedOperations DEF Sound
<1>4. \A i \in DOMAIN a : a[i].expiresAt <= e.expiresAt
    <2> HIDE DEF a
    <2> SUFFICES ASSUME NEW i \in 1 .. Len(list) + 1
                 PROVE  a[i].expiresAt <= e.expiresAt
        BY <1>1
    <2>1. CASE i = Len(list) + 1
        BY <1>1, <2>1
    <2>2. CASE i \in DOMAIN list
        BY <1>1, <2>2 DEF Sound
    <2> QED
        BY <1>1, <2>1, <2>2
<1> QED
    BY <1>1, <1>2, <1>3, <1>4 DEF Sound

\* A list that is sound for a bound is sound for any later one.
LEMMA SoundLater ==
    ASSUME NEW E, \A e \in E : e.expiresAt \in Int,
           NEW list \in Seq(E), NEW b \in Int, NEW c \in Int, b <= c, Sound(list, b)
    PROVE  Sound(list, c)
<1>1. \A i \in DOMAIN list : list[i].expiresAt \in Int
    BY ElementOfSeq, LenProperties
<1> QED
    BY <1>1 DEF Sound

\* The eviction loop never removes more than there is, and leaves at most max.
LEMMA SurplusBound ==
    ASSUME NEW E, NEW list \in Seq(E), NEW max \in Int
    PROVE  /\ Surplus(list, max) \in 0 .. Len(list)
           /\ max > 0 => Len(list) - Surplus(list, max) <= max
BY LenProperties DEF Surplus
-----------------------------------------------------------------------------
(* What a map entry points at, after the list has changed. *)

EntriesOf(list) == {list[i] : i \in DOMAIN list}

LEMMA EntryOfElement ==
    ASSUME NEW E, NEW list \in Seq(E), KeysDistinct(list), NEW i \in 1 .. Len(list)
    PROVE  EntryOf(list, list[i].key) = list[i]
<1> DEFINE p == IndexOf(list, list[i].key)
<1>1. DOMAIN list = 1 .. Len(list)
    BY LenProperties
<1>2. p \in DOMAIN list /\ list[p].key = list[i].key
    BY <1>1 DEF IndexOf
<1> HIDE DEF p
<1>3. p = i
    BY <1>1, <1>2 DEF KeysDistinct
<1> QED
    BY <1>3 DEF EntryOf, p

LEMMA EntryOfKey ==
    ASSUME NEW E, NEW list \in Seq(E), KeysDistinct(list), NEW k \in KeysOf(list)
    PROVE  /\ EntryOf(list, k) \in E
           /\ EntryOf(list, k).key = k
           /\ EntryOf(list, k) \in EntriesOf(list)
           /\ \A e \in EntriesOf(list) : e.key = k => e = EntryOf(list, k)
<1>1. DOMAIN list = 1 .. Len(list) /\ \A i \in 1 .. Len(list) : list[i] \in E
    BY LenProperties, ElementOfSeq
<1>2. PICK i \in 1 .. Len(list) : list[i].key = k
    BY <1>1 DEF KeysOf
<1>3. EntryOf(list, k) = list[i]
    BY <1>2, EntryOfElement
<1>4. \A e \in EntriesOf(list) : e.key = k => e = EntryOf(list, k)
    <2> SUFFICES ASSUME NEW j \in 1 .. Len(list), list[j].key = k
                 PROVE  list[j] = EntryOf(list, k)
        BY <1>1 DEF EntriesOf
    <2> QED
        BY EntryOfElement
<1> QED
    BY <1>1, <1>2, <1>3, <1>4 DEF EntriesOf

\* A list whose element of key k comes from another.
LEMMA EntryOfKept ==
    ASSUME NEW E, NEW list \in Seq(E), NEW next \in Seq(E),
           KeysDistinct(list), KeysDistinct(next), NEW k \in KeysOf(next),
           \A e \in EntriesOf(next) : e.key = k => e \in EntriesOf(list)
    PROVE  k \in KeysOf(list) /\ EntryOf(next, k) = EntryOf(list, k)
<1>1. EntryOf(next, k) \in EntriesOf(next) /\ EntryOf(next, k).key = k
    BY EntryOfKey
<1>2. EntryOf(next, k) \in EntriesOf(list)
    BY <1>1
<1>3. k \in KeysOf(list)
    BY <1>1, <1>2 DEF EntriesOf, KeysOf
<1> QED
    BY <1>1, <1>2, <1>3, EntryOfKey

LEMMA EntriesOfOperations ==
    ASSUME NEW E, NEW list \in Seq(E)
    PROVE  /\ \A n \in 0 .. Len(list) : EntriesOf(AfterN(list, n)) \subseteq EntriesOf(list)
           /\ \A k \in KeysOf(list) : EntriesOf(Without(list, k)) \subseteq EntriesOf(list)
           /\ \A e \in E : EntriesOf(Append(list, e)) = EntriesOf(list) \cup {e}
<1>1. DOMAIN list = 1 .. Len(list) /\ Len(list) \in Nat
    BY LenProperties
<1>2. ASSUME NEW n \in 0 .. Len(list)
      PROVE  EntriesOf(AfterN(list, n)) \subseteq EntriesOf(list)
    <2>0. /\ AfterN(list, n) \in Seq(E) /\ Len(AfterN(list, n)) = Len(list) - n
          /\ \A i \in 1 .. Len(list) - n : AfterN(list, n)[i] = list[n + i]
        BY AfterNElements
    <2>1. /\ DOMAIN AfterN(list, n) = 1 .. Len(list) - n
          /\ \A i \in 1 .. Len(list) - n : AfterN(list, n)[i] = list[n + i]
        BY <2>0, LenProperties
    <2> SUFFICES ASSUME NEW i \in 1 .. Len(list) - n
                 PROVE  list[n + i] \in EntriesOf(list)
        BY <2>1 DEF EntriesOf
    <2>2. n + i \in 1 .. Len(list)
        BY <1>1
    <2> QED
        BY <1>1, <2>2 DEF EntriesOf
<1>3. ASSUME NEW k \in KeysOf(list)
      PROVE  EntriesOf(Without(list, k)) \subseteq EntriesOf(list)
    <2> DEFINE w == Without(list, k)
               p == IndexOf(list, k)
    <2>1. /\ w \in Seq(E) /\ Len(w) = Len(list) - 1
          /\ \A i \in 1 .. Len(list) - 1 : w[i] = IF i < p THEN list[i] ELSE list[i + 1]
        BY WithoutElements
    <2>2. DOMAIN w = 1 .. Len(list) - 1
        BY <2>1, LenProperties
    <2> HIDE DEF w, p
    <2>3. ASSUME NEW i \in 1 .. Len(list) - 1
          PROVE  w[i] \in EntriesOf(list)
        <3>1. i \in 1 .. Len(list) /\ i + 1 \in 1 .. Len(list)
            BY <1>1
        <3> QED
            BY <1>1, <2>1, <3>1 DEF EntriesOf
    <2>4. EntriesOf(w) \subseteq EntriesOf(list)
        BY <2>2, <2>3 DEF EntriesOf
    <2> QED
        BY <2>4 DEF w
<1>4. ASSUME NEW e \in E
      PROVE  EntriesOf(Append(list, e)) = EntriesOf(list) \cup {e}
    <2> DEFINE a == Append(list, e)
    <2>1. /\ a \in Seq(E) /\ Len(a) = Len(list) + 1
          /\ \A i \in 1 .. Len(list) : a[i] = list[i]
          /\ a[Len(list) + 1] = e
        BY AppendProperties
    <2>2. DOMAIN a = 1 .. Len(list) + 1
        BY <2>1, LenProperties
    <2> HIDE DEF a
    <2>3. DOMAIN a = DOMAIN list \cup {Len(list) + 1}
        BY <1>1, <2>2
    <2>4. EntriesOf(a) = EntriesOf(list) \cup {e}
        BY <1>1, <2>1, <2>3 DEF EntriesOf
    <2> QED
        BY <2>4 DEF a
<1> QED
    BY <1>2, <1>3, <1>4
=============================================================================
