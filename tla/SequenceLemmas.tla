--------------------------- MODULE SequenceLemmas ---------------------------
(* What the proofs about the program's arrays, queues and loops keep needing:*)
(* sequences that grow at the end and shrink anywhere, and functions updated *)
(* at one place.                                                             *)
EXTENDS Integers, SequenceTheorems, WellFoundedInduction, TLAPS

Distinct(q) == \A j, k \in 1 .. Len(q) : q[j] = q[k] => j = k
Has(q, x)   == \E k \in 1 .. Len(q) : q[k] = x

-----------------------------------------------------------------------------
(* An update of one entry keeps a function what it is.                       *)
LEMMA ExceptEntry ==
  ASSUME NEW X, NEW Y, NEW f \in [X -> Y], NEW x, NEW y, x \in X => y \in Y
  PROVE  /\ [f EXCEPT ![x] = y] \in [X -> Y]
         /\ \A z \in X : [f EXCEPT ![x] = y][z] = IF z = x THEN y ELSE f[z]
  OBVIOUS

(* A position of a sequence that has grown by one.                           *)
LEMMA LastOrBefore ==
  ASSUME NEW n \in Nat, NEW k \in 1 .. n + 1
  PROVE  k \in 1 .. n \/ k = n + 1
OBVIOUS

(* The sequence without its last entry.                                      *)
LEMMA FrontLength ==
  ASSUME NEW S, NEW q \in Seq(S), Len(q) # 0
  PROVE  /\ SubSeq(q, 1, Len(q) - 1) \in Seq(S)
         /\ Len(SubSeq(q, 1, Len(q) - 1)) = Len(q) - 1
  OBVIOUS

-----------------------------------------------------------------------------
(* A queue without duplicates: who joins at the end, who leaves at the front.*)
LEMMA AppendEntries ==
  ASSUME NEW S, NEW q \in Seq(S), NEW c, Distinct(q), \A k \in 1 .. Len(q) : q[k] # c
  PROVE  /\ Distinct(Append(q, c))
         /\ \A k \in 1 .. Len(Append(q, c)) :
               Append(q, c)[k] = c \/ (k \in 1 .. Len(q) /\ Append(q, c)[k] = q[k])
<1> DEFINE r == Append(q, c)
<1>1. /\ Len(r) = Len(q) + 1 /\ r[Len(q) + 1] = c /\ Len(q) \in Nat
      /\ \A k \in 1 .. Len(q) : r[k] = q[k]
  OBVIOUS
<1> HIDE DEF r
<1>2. ASSUME NEW j \in 1 .. Len(r), NEW k \in 1 .. Len(r), r[j] = r[k] PROVE j = k
  <2>1. CASE j \in 1 .. Len(q) /\ k \in 1 .. Len(q)
    BY <1>1, <1>2, <2>1 DEF Distinct
  <2>2. CASE j = Len(q) + 1 \/ k = Len(q) + 1
    BY <1>1, <1>2, <2>2
  <2> QED BY <1>1, <2>1, <2>2
<1>3. \A k \in 1 .. Len(r) : r[k] = c \/ (k \in 1 .. Len(q) /\ r[k] = q[k])
  BY <1>1
<1> QED BY <1>2, <1>3 DEF Distinct, r

(* What is left of a queue without duplicates when its head is taken.        *)
LEMMA TailEntries ==
  ASSUME NEW S, NEW q \in Seq(S), Distinct(q), q # << >>
  PROVE  /\ Head(q) = q[1] /\ q[1] \in S /\ 1 \in 1 .. Len(q)
         /\ Distinct(Tail(q))
         /\ \A k \in 1 .. Len(Tail(q)) : /\ Tail(q)[k] = q[k+1] /\ k + 1 \in 1 .. Len(q)
                                        /\ Tail(q)[k] # Head(q)
<1> DEFINE r == Tail(q)
<1>1. /\ Len(r) = Len(q) - 1 /\ Len(q) \in Nat /\ Len(q) >= 1 /\ Head(q) = q[1]
      /\ \A k \in 1 .. Len(r) : r[k] = q[k+1]
  OBVIOUS
<1> HIDE DEF r
<1>2. ASSUME NEW k \in 1 .. Len(r)
      PROVE  r[k] = q[k+1] /\ k + 1 \in 1 .. Len(q) /\ r[k] # Head(q)
  BY <1>1 DEF Distinct
<1>3. ASSUME NEW j \in 1 .. Len(r), NEW k \in 1 .. Len(r), r[j] = r[k] PROVE j = k
  <2>1. r[j] = q[j+1] /\ r[k] = q[k+1] /\ j + 1 \in 1 .. Len(q) /\ k + 1 \in 1 .. Len(q)
    BY <1>2
  <2>2. j + 1 = k + 1
    BY <1>3, <2>1 DEF Distinct
  <2> QED BY <2>2
<1>4. q[1] \in S /\ 1 \in 1 .. Len(q)
  BY <1>1
<1> QED BY <1>1, <1>2, <1>3, <1>4 DEF Distinct, r

(* What an Append does to the entries of a sequence.                         *)
LEMMA Appended ==
  ASSUME NEW S, NEW q \in Seq(S), NEW c
  PROVE  LET r == Append(q, c)
         IN /\ r # << >> /\ Len(r) \in 1 .. Len(r) /\ r[Len(r)] = c
            /\ \A k \in 1 .. Len(q) : k \in 1 .. Len(r) /\ r[k] = q[k]
  OBVIOUS

-----------------------------------------------------------------------------
(* The same by what is in the queue: one that is not in it can be appended;  *)
(* without the entry at k it has all the others.                             *)
LEMMA AppendHas ==
  ASSUME NEW S, NEW q \in Seq(S), NEW x \in S, Distinct(q), ~ Has(q, x)
  PROVE  /\ Distinct(Append(q, x))
         /\ \A y : Has(Append(q, x), y) <=> Has(q, y) \/ y = x
<1> DEFINE r == Append(q, x)
<1>1. /\ Len(q) \in Nat /\ Len(r) = Len(q) + 1 /\ r[Len(q) + 1] = x
      /\ \A k \in 1 .. Len(q) : r[k] = q[k]
  OBVIOUS
<1> HIDE DEF r
<1>2. \A k \in 1 .. Len(r) : k \in 1 .. Len(q) \/ k = Len(q) + 1
  BY <1>1
<1>3. \A k \in 1 .. Len(q) : k \in 1 .. Len(r)
  BY <1>1
<1>4. Len(q) + 1 \in 1 .. Len(r)
  BY <1>1
<1>5. Distinct(r)
  BY <1>1, <1>2 DEF Distinct, Has
<1>6. \A y : Has(r, y) <=> Has(q, y) \/ y = x
  BY <1>1, <1>2, <1>3, <1>4 DEF Has
<1> QED BY <1>5, <1>6 DEF r

(* The sequence without its first entry.                                     *)
LEMMA TailHas ==
  ASSUME NEW S, NEW q \in Seq(S), q # << >>, Distinct(q)
  PROVE  /\ Distinct(Tail(q))
         /\ Has(q, Head(q))
         /\ \A x : Has(Tail(q), x) => Has(q, x) /\ x # Head(q)
<1> DEFINE r == Tail(q)
<1>1. /\ Len(q) \in Nat /\ Len(q) > 0 /\ Len(r) = Len(q) - 1 /\ Head(q) = q[1]
      /\ \A k \in 1 .. Len(r) : r[k] = q[k + 1]
  OBVIOUS
<1> HIDE DEF r
<1>2. \A k \in 1 .. Len(r) : k + 1 \in 1 .. Len(q) /\ k + 1 # 1
  BY <1>1
<1>3. 1 \in 1 .. Len(q)
  BY <1>1
<1>4. Distinct(r)
  <2> SUFFICES ASSUME NEW j \in 1 .. Len(r), NEW k \in 1 .. Len(r), r[j] = r[k] PROVE j = k
    BY DEF Distinct
  <2>1. j + 1 = k + 1
    BY <1>1, <1>2 DEF Distinct
  <2> QED BY <1>1, <2>1
<1>5. \A x : Has(r, x) => Has(q, x) /\ x # Head(q)
  BY <1>1, <1>2, <1>3 DEF Has, Distinct
<1>6. Has(q, Head(q))
  BY <1>1, <1>3 DEF Has
<1> QED BY <1>4, <1>5, <1>6 DEF r

-----------------------------------------------------------------------------
(* Two sequences in a row: what each position holds.                         *)
LEMMA Concatenated ==
  ASSUME NEW S, NEW o \in Seq(S), NEW b \in Seq(S)
  PROVE  /\ o \o b \in Seq(S) /\ Len(o \o b) = Len(o) + Len(b)
         /\ \A i \in 1 .. Len(o) : i \in 1 .. Len(o \o b) /\ (o \o b)[i] = o[i]
         /\ \A k \in 1 .. Len(b) : /\ Len(o) + k \in 1 .. Len(o \o b)
                                  /\ (o \o b)[Len(o) + k] = b[k]
         /\ \A i \in 1 .. Len(o \o b) :
              i \in 1 .. Len(o) \/ (i > Len(o) /\ \E k \in 1 .. Len(b) : i = Len(o) + k)
<1>0. Len(o) \in Nat /\ Len(b) \in Nat
  OBVIOUS
<1>1. /\ o \o b \in Seq(S) /\ Len(o \o b) = Len(o) + Len(b)
      /\ \A i \in 1 .. Len(o) + Len(b) : (o \o b)[i] = IF i =< Len(o) THEN o[i] ELSE b[i - Len(o)]
  BY ConcatProperties
<1> DEFINE q == o \o b
<1> HIDE DEF q
<1>2. /\ q \in Seq(S) /\ Len(q) = Len(o) + Len(b)
      /\ \A i \in 1 .. Len(o) + Len(b) : q[i] = IF i =< Len(o) THEN o[i] ELSE b[i - Len(o)]
  BY <1>1 DEF q
<1>3. ASSUME NEW i \in 1 .. Len(o) PROVE i \in 1 .. Len(q) /\ q[i] = o[i]
  <2>1. i \in 1 .. Len(o) + Len(b) /\ i =< Len(o)
    BY ONLY <1>0, i \in 1 .. Len(o)
  <2> QED BY <1>2, <2>1
<1>4. ASSUME NEW k \in 1 .. Len(b) PROVE Len(o) + k \in 1 .. Len(q) /\ q[Len(o) + k] = b[k]
  <2>1. Len(o) + k \in 1 .. Len(o) + Len(b) /\ ~(Len(o) + k =< Len(o)) /\ (Len(o) + k) - Len(o) = k
    BY ONLY <1>0, k \in 1 .. Len(b)
  <2> QED BY <1>2, <2>1
<1>5. ASSUME NEW i \in 1 .. Len(q)
      PROVE  i \in 1 .. Len(o) \/ (i > Len(o) /\ \E k \in 1 .. Len(b) : i = Len(o) + k)
  <2>1. i \in 1 .. Len(o) + Len(b)
    BY <1>2
  <2>2. i > Len(o) => i - Len(o) \in 1 .. Len(b) /\ i = Len(o) + (i - Len(o))
    BY ONLY <1>0, <2>1
  <2>3. i \in 1 .. Len(o) \/ i > Len(o)
    BY ONLY <1>0, <2>1
  <2> QED BY <2>2, <2>3
<1> QED BY <1>2, <1>3, <1>4, <1>5 DEF q

(* A sequence cut in two and put together again, behind another.             *)
LEMMA Rejoined ==
  ASSUME NEW S, NEW o \in Seq(S), NEW b \in Seq(S), NEW m \in 0 .. Len(b)
  PROVE  (o \o SubSeq(b, 1, m)) \o SubSeq(b, m + 1, Len(b)) = o \o b
<1>1. SubSeq(b, 1, m) \in Seq(S) /\ SubSeq(b, m + 1, Len(b)) \in Seq(S)
  OBVIOUS
<1>2. SubSeq(b, 1, m) \o SubSeq(b, m + 1, Len(b)) = SubSeq(b, 1, Len(b))
  <2>1. /\ Len(b) \in Nat /\ 1 \in 1 .. Len(b) + 1
        /\ m \in 1 - 1 .. Len(b) /\ Len(b) \in m .. Len(b)
    OBVIOUS
  <2> QED BY <2>1, ConcatAdjacentSubSeq
<1>3. SubSeq(b, 1, Len(b)) = b
  BY SubSeqFull
<1> DEFINE s == SubSeq(b, 1, m)
           r == SubSeq(b, m + 1, Len(b))
<1>4. s \o r = b
  BY <1>2, <1>3
<1> HIDE DEF s, r
<1>5. (o \o s) \o r = o \o (s \o r)
  <2>1. s \in Seq(S) /\ r \in Seq(S) /\ o \in Seq(S)
    BY <1>1 DEF s, r
  <2> QED BY ONLY <2>1
<1>6. (o \o s) \o r = o \o b
  BY ONLY <1>4, <1>5
<1> QED BY <1>6 DEF s, r

-----------------------------------------------------------------------------
(* Induction over the turns of a loop, and the sums that a loop adds up.     *)
(* A nonempty set of natural numbers has a least element.                    *)
LEMMA LeastNat ==
  ASSUME NEW T \in SUBSET Nat, T # {}
  PROVE  \E x \in T : \A y \in T : x =< y
<1>1. PICK x \in T : \A y \in T : ~ (<<y, x>> \in OpToRel(<, Nat))
  BY WFMin, NatLessThanWellFounded
<1>2. \A y \in T : ~ (y < x)
  BY <1>1 DEF OpToRel
<1> QED BY <1>2

(* What holds of 0 and, with an index, of the next one, holds of all.        *)
LEMMA LoopInduction ==
  ASSUME NEW N \in Nat, NEW G \in SUBSET (0 .. N),
         0 \in G, \A k \in 0 .. N - 1 : k \in G => k + 1 \in G
  PROVE  0 .. N \subseteq G
<1> SUFFICES ASSUME NEW b \in 0 .. N, b \notin G PROVE FALSE
  OBVIOUS
<1> DEFINE T == (0 .. N) \ G
<1>1. T \in SUBSET Nat /\ T # {}
  OBVIOUS
<1>2. PICK x \in T : \A y \in T : x =< y
  <2> HIDE DEF T
  <2> QED BY <1>1, LeastNat
<1>3. x # 0 /\ x - 1 \in 0 .. N - 1 /\ x - 1 \in G
  BY <1>2
<1> QED BY <1>2, <1>3

-----------------------------------------------------------------------------
(* The sum of the first k entries of a sequence, for every k.                *)
Sums(s) ==
  LET sum[k \in 0 .. Len(s)] == IF k = 0 THEN 0 ELSE sum[k-1] + s[k]
  IN sum

Adds(s, f, k) == IF k = 0 THEN 0 ELSE f[k-1] + s[k]

(* The sums of a part of the sequence exist.                                 *)
LEMMA SumsExist ==
  ASSUME NEW s \in Seq(Nat)
  PROVE  \E f \in [0 .. Len(s) -> Nat] : \A k \in 0 .. Len(s) : f[k] = Adds(s, f, k)
<1> DEFINE Upto(n, f) == f \in [0 .. n -> Nat] /\ \A k \in 0 .. n : f[k] = Adds(s, f, k)
           G == {n \in 0 .. Len(s) : \E f : Upto(n, f)}
<1>1. 0 \in G
  <2> DEFINE f == [k \in 0 .. 0 |-> 0]
  <2>1. Upto(0, f) /\ 0 \in 0 .. Len(s)
    BY DEF Adds
  <2> HIDE DEF f, Upto
  <2> QED BY <2>1
<1>2. \A n \in 0 .. Len(s) - 1 : n \in G => n + 1 \in G
  <2> SUFFICES ASSUME NEW n \in 0 .. Len(s) - 1, n \in G PROVE n + 1 \in G
    OBVIOUS
  <2>1. PICK f : Upto(n, f)
    OBVIOUS
  <2> DEFINE g == [k \in 0 .. n + 1 |-> IF k = n + 1 THEN f[n] + s[n + 1] ELSE f[k]]
  <2>2. n + 1 \in 0 .. Len(s) /\ n \in Nat /\ s[n + 1] \in Nat
    OBVIOUS
  <2>3. f[n] + s[n + 1] \in Nat
    BY <2>1, <2>2
  <2>4. g \in [0 .. n + 1 -> Nat]
    BY <2>1, <2>2, <2>3
  <2>5. \A k \in 0 .. n + 1 : g[k] = IF k = n + 1 THEN f[n] + s[n + 1] ELSE f[k]
    OBVIOUS
  <2> HIDE DEF g, G
  <2>6. ASSUME NEW k \in 0 .. n + 1 PROVE g[k] = Adds(s, g, k)
    <3>1. CASE k = n + 1
      <4>1. g[k] = f[n] + s[n + 1] /\ k - 1 = n /\ k # 0 /\ g[n] = f[n]
        BY <2>2, <2>5, <3>1
      <4> QED BY <3>1, <4>1 DEF Adds
    <3>2. CASE k \in 0 .. n
      <4>1. g[k] = f[k] /\ f[k] = Adds(s, f, k) /\ (k # 0 => g[k-1] = f[k-1])
        BY <2>1, <2>5, <3>2
      <4> QED BY <4>1 DEF Adds
    <3> QED BY <2>2, <3>1, <3>2
  <2>7. Upto(n + 1, g)
    BY <2>4, <2>6
  <2> HIDE DEF Upto
  <2> QED BY <2>2, <2>7 DEF G
<1>3. G \in SUBSET (0 .. Len(s)) /\ Len(s) \in Nat
  OBVIOUS
<1>4. Len(s) \in G
  <2> HIDE DEF G
  <2>1. 0 .. Len(s) \subseteq G
    BY <1>1, <1>2, <1>3, LoopInduction
  <2> QED BY <2>1, <1>3
<1> QED BY <1>4

(* Sums is such a function.                                                  *)
LEMMA SumsAdd ==
  ASSUME NEW s \in Seq(Nat)
  PROVE  /\ Sums(s) \in [0 .. Len(s) -> Nat]
         /\ Sums(s)[0] = 0
         /\ \A k \in 1 .. Len(s) : Sums(s)[k] = Sums(s)[k-1] + s[k]
<1> DEFINE Sum(f) == f = [k \in 0 .. Len(s) |-> Adds(s, f, k)]
           F == CHOOSE f : Sum(f)
<1>1. PICK g \in [0 .. Len(s) -> Nat] : \A k \in 0 .. Len(s) : g[k] = Adds(s, g, k)
  BY SumsExist
<1>2. Sum(g)
  BY <1>1
<1>3. Sums(s) = F
  BY DEF Sums, Adds
<1>4. Sum(F)
  <2> HIDE DEF Sum
  <2> QED BY <1>2
<1> HIDE DEF F
<1>0. DOMAIN F = 0 .. Len(s) /\ \A k \in 0 .. Len(s) : F[k] = Adds(s, F, k)
  BY <1>4
<1>5. /\ DOMAIN F = 0 .. Len(s) /\ F = [k \in DOMAIN F |-> F[k]] /\ Len(s) \in Nat
      /\ \A k \in 0 .. Len(s) : F[k] = Adds(s, F, k)
  <2>1. F = [k \in DOMAIN F |-> F[k]]
    BY <1>4
  <2> HIDE DEF Sum
  <2> QED BY <1>0, <2>1
<1>6. F[0] = 0
  BY <1>5 DEF Adds
<1>7. \A k \in 1 .. Len(s) : F[k] = F[k-1] + s[k]
  BY <1>5 DEF Adds
<1> DEFINE H == {k \in 0 .. Len(s) : F[k] \in Nat}
<1>8. 0 \in H
  BY <1>5, <1>6
<1>9. ASSUME NEW k \in 0 .. Len(s) - 1, k \in H PROVE k + 1 \in H
  <2>1. k + 1 \in 1 .. Len(s) /\ (k + 1) - 1 = k /\ s[k + 1] \in Nat /\ F[k] \in Nat
    BY <1>9
  <2>2. F[k + 1] = F[k] + s[k + 1]
    BY <1>7, <2>1
  <2> QED BY <2>1, <2>2
<1>10. H \in SUBSET (0 .. Len(s))
  OBVIOUS
<1>11. \A k \in 0 .. Len(s) : F[k] \in Nat
  <2>1. 0 .. Len(s) \subseteq H
    <3> HIDE DEF H
    <3> QED BY <1>5, <1>8, <1>9, <1>10, LoopInduction
  <2> QED BY <2>1
<1>12. F \in [0 .. Len(s) -> Nat]
  BY <1>5, <1>11
<1> QED BY <1>3, <1>6, <1>7, <1>12

(* The sums of positive entries grow.                                        *)
LEMMA SumsGrow ==
  ASSUME NEW s \in Seq(Nat \ {0}), NEW i \in 0 .. Len(s), NEW j \in 0 .. Len(s), i < j
  PROVE  Sums(s)[i] < Sums(s)[j]
<1>1. /\ Sums(s) \in [0 .. Len(s) -> Nat]
      /\ \A k \in 1 .. Len(s) : Sums(s)[k] = Sums(s)[k-1] + s[k]
  BY SumsAdd
<1>2. Len(s) \in Nat /\ \A k \in 1 .. Len(s) : s[k] \in Nat \ {0}
  OBVIOUS
<1> DEFINE F == Sums(s)
           G == {k \in 0 .. Len(s) : k > i => F[i] < F[k]}
<1> HIDE DEF F
<1>3. 0 \in G /\ G \in SUBSET (0 .. Len(s))
  BY <1>2
<1>4. ASSUME NEW k \in 0 .. Len(s) - 1, k \in G PROVE k + 1 \in G
  <2>1. k + 1 \in 1 .. Len(s) /\ (k + 1) - 1 = k /\ s[k + 1] \in Nat \ {0}
    BY <1>2
  <2>2. F[k + 1] = F[k] + s[k + 1] /\ F[k] \in Nat /\ F[i] \in Nat
    <3> HIDE DEF G
    <3>1. k \in 0 .. Len(s)
      BY <1>2
    <3>2. F[k + 1] = F[k] + s[k + 1]
      BY <1>1, <2>1 DEF F
    <3> QED BY <1>1, <3>1, <3>2 DEF F
  <2>3. F[k] < F[k + 1]
    BY <2>1, <2>2
  <2> QED BY <1>2, <1>4, <2>1, <2>2, <2>3
<1>5. 0 .. Len(s) \subseteq G
  <2> HIDE DEF G
  <2> QED BY <1>2, <1>3, <1>4, LoopInduction
<1> QED BY <1>5 DEF F

=============================================================================
