--------------------------- MODULE IcmpCalcProofs ---------------------------
(* For any hosts, programs, pids, requests and even size of a message: the   *)
(* ICMP calculators print the right answers, one that can be told from the   *)
(* others as long as the numbers have not come round, and every packet       *)
(* verifies.                                                                 *)
(*                                                                           *)
(* The argument. A packet says whose request it is about: a request carries  *)
(* the frame of it, an answer the bytes of its value; what is asked later    *)
(* changes neither, for requests are only added. The checksum is the         *)
(* complement of the sum of the others, with the carries added back; adding  *)
(* both gives all ones, because adding the carries back leaves a sum what it *)
(* is modulo Short - 1.                                                     *)
EXTENDS IcmpDrafts, CalcProofs

-----------------------------------------------------------------------------
(* The sizes of the numbers of a header.                                     *)
LEMMA Sizes ==
  /\ Base \in Nat /\ Base >= 2 /\ Short = Base * Base /\ Short \in Nat /\ Short >= 4
  /\ UInt = Short * Short /\ UInt \in Nat
<1>1. Base \in Nat /\ Base >= 2
  BY Chars
<1>2. Base * Base \in Nat /\ Base * Base >= 4
  <2>1. \A x \in Nat : x >= 2 => x * x \in Nat /\ x * x >= 4
    OBVIOUS
  <2> QED BY ONLY <1>1, <2>1
<1>3. Short * Short \in Nat
  BY <1>2 DEF Short
<1> QED BY <1>1, <1>2, <1>3 DEF Short, UInt

(* The short in two bytes.                                                   *)
LEMMA TwoBytes ==
  ASSUME NEW x \in Byte, NEW y \in Byte
  PROVE  x + Base * y \in 0 .. Short - 1 /\ Base * y \in Nat
<1>1. Base \in Nat /\ x \in Nat /\ y \in Nat /\ x =< Base - 1 /\ y =< Base - 1 /\ Short = Base * Base
  BY Sizes, Bytewise
<1>2. \A b, z \in Nat : z =< b - 1 => b * z \in Nat /\ b * z + b =< b * b
  OBVIOUS
<1>3. Base * y \in Nat /\ Base * y + Base =< Base * Base
  BY ONLY <1>1, <1>2
<1>4. Base * Base \in Nat
  BY <1>1
<1> QED BY ONLY <1>1, <1>3, <1>4

(* A short is its two bytes.                                                 *)
LEMMA BytesOfShort ==
  ASSUME NEW n \in 0 .. Short - 1
  PROVE  n % Base \in Byte /\ n \div Base \in Byte /\ (n % Base) + Base * (n \div Base) = n
<1>1. Base \in Nat \ {0} /\ Short = Base * Base /\ Short \in Nat
  BY Sizes
<1>2. \A b \in Nat \ {0} : \A x \in Int : /\ x % b \in 0 .. b - 1 /\ x \div b \in Int
                                        /\ (x % b) + b * (x \div b) = x
  OBVIOUS
<1> DEFINE q == n \div Base
           r == n % Base
<1>3. q \in Int /\ r \in 0 .. Base - 1 /\ r + Base * q = n
  BY ONLY <1>1, <1>2, n \in 0 .. Short - 1
<1> HIDE DEF q, r
<1>4. q >= 0
  <2>1. \A b \in Nat : \A x \in Int : x < 0 => b * x =< -b /\ b * x \in Int
    OBVIOUS
  <2> QED BY ONLY <1>1, <1>3, <2>1, n \in 0 .. Short - 1
<1>5. q < Base
  <2>1. \A b \in Nat : \A x \in Int : x >= b => b * x >= b * b /\ b * x \in Int
    OBVIOUS
  <2> QED BY ONLY <1>1, <1>3, <2>1, n \in 0 .. Short - 1
<1>6. r \in Byte /\ q \in Byte
  BY <1>1, <1>3, <1>4, <1>5, Bytewise
<1> QED BY <1>3, <1>6 DEF q, r

-----------------------------------------------------------------------------
(* What the folding leaves is, in the arithmetic of all ones, the sum.       *)
LEMMA Complement ==
  ASSUME NEW s \in 0 .. UInt - 1
  PROVE  LET c == (UInt - 1 - Fold[s]) % Short
         IN c \in 0 .. Short - 1 /\ s + c > 0 /\ (s + c) % (Short - 1) = 0
<1> DEFINE m == Short - 1
           h == s \div Short
           l == s % Short
           once == h + l
           f == once + (once \div Short)
           c == (UInt - 1 - f) % Short
<1>1. Short \in Nat /\ Short >= 4 /\ UInt = Short * Short /\ UInt \in Nat
  BY Sizes
<1>2. h \in 0 .. Short - 1 /\ l \in 0 .. Short - 1 /\ s = Short * h + l
  <2>1. h \in Int /\ l \in 0 .. Short - 1 /\ s = Short * h + l
    BY <1>1
  <2> HIDE DEF h, l
  <2>2. Short * h \in Int
    BY <1>1, <2>1
  <2>3. h >= 0
    <3>1. \A b \in Nat : \A x \in Int : x < 0 => b * x =< -b
      OBVIOUS
    <3> QED BY ONLY <1>1, <2>1, <2>2, <3>1, s \in 0 .. UInt - 1
  <2>4. h < Short
    <3>1. \A b \in Nat : \A x \in Int : x >= b => b * x >= b * b
      OBVIOUS
    <3> QED BY ONLY <1>1, <2>1, <2>2, <3>1, s \in 0 .. UInt - 1
  <2> QED BY ONLY <1>1, <2>1, <2>3, <2>4
<1>3. Fold[s] = f
  BY <1>1 DEF Fold
<1> HIDE DEF h, l
<1>4. once \in 0 .. 2 * Short - 2
  BY <1>1, <1>2
<1> HIDE DEF once
<1>5. \/ once < Short /\ f = once
      \/ once >= Short /\ f = once + 1
  <2>1. \A b \in Nat \ {0} : \A x \in Nat : /\ x < b => x \div b = 0
                                           /\ (x >= b /\ x < 2 * b => x \div b = 1)
    OBVIOUS
  <2> QED BY <1>1, <1>4, <2>1
<1>6. c = IF once < Short THEN Short - 1 - once ELSE 2 * Short - 2 - once
  <2> DEFINE d == IF once < Short THEN Short - 1 - once ELSE 2 * Short - 2 - once
             p == IF once < Short THEN Short - 1 ELSE Short - 2
  <2>1. d \in 0 .. Short - 1 /\ p \in Int
    BY <1>1, <1>4
  <2>2. UInt - 1 - f = Short * p + d
    <3>1. \A b \in Int : b * (b - 1) = b * b - b /\ b * (b - 2) = b * b - 2 * b
      OBVIOUS
    <3>2. Short * (Short - 1) = UInt - Short /\ Short * (Short - 2) = UInt - 2 * Short
      BY ONLY <1>1, <3>1
    <3> QED BY <1>1, <1>4, <1>5, <3>2
  <2>3. \A b \in Nat \ {0} : \A x \in Int : \A y \in 0 .. b - 1 : (b * x + y) % b = y
    OBVIOUS
  <2> HIDE DEF d, p, f
  <2>4. (Short * p + d) % Short = d
    BY ONLY <1>1, <2>1, <2>3
  <2> QED BY <2>2, <2>4 DEF d
<1> HIDE DEF f, c
<1>7. c \in 0 .. Short - 1
  BY <1>1, <1>4, <1>6
<1>8. \E k \in Nat \ {0} : s + c = m * k
  <2>1. Short * h = m * h + h
    <3>1. \A x, y \in Int : x * y = (x - 1) * y + y
      OBVIOUS
    <3> QED BY ONLY <1>1, <1>2, <3>1
  <2>2. s + c = m * h + (once + c) /\ m * h \in Int
    BY <1>1, <1>2, <1>7, <2>1 DEF once
  <2> DEFINE e == IF once < Short THEN 1 ELSE 2
  <2>3. once + c = m * e
    BY <1>1, <1>4, <1>6
  <2>4. m * h + m * e = m * (h + e)
    <3>1. \A x, y, z \in Int : x * y + x * z = x * (y + z)
      OBVIOUS
    <3>2. m \in Int /\ h \in Int /\ e \in Int
      BY <1>1, <1>2
    <3> HIDE DEF m, e
    <3> QED BY ONLY <3>1, <3>2
  <2>5. h + e \in Nat \ {0}
    BY <1>2
  <2> QED BY <2>2, <2>3, <2>4, <2>5
<1>9. s + c > 0 /\ (s + c) % m = 0
  <2>1. PICK k \in Nat \ {0} : s + c = m * k
    BY <1>8
  <2>2. \A b, x \in Nat \ {0} : b * x > 0 /\ (b * x) % b = 0
    <3>1. \A b, x \in Nat \ {0} : b * x > 0
      OBVIOUS
    <3>2. \A b \in Nat \ {0} : \A x \in Int : \A y \in 0 .. b - 1 : (b * x + y) % b = y
      OBVIOUS
    <3>3. ASSUME NEW b \in Nat \ {0}, NEW x \in Nat \ {0} PROVE (b * x) % b = 0
      <4>1. (b * x + 0) % b = 0 /\ b * x + 0 = b * x
        BY <3>2
      <4> QED BY <4>1
    <3> QED BY <3>1, <3>3
  <2>3. m \in Nat \ {0}
    BY <1>1
  <2> HIDE DEF m
  <2> QED BY ONLY <2>1, <2>2, <2>3
<1> QED BY <1>3, <1>7, <1>9 DEF c, m

-----------------------------------------------------------------------------
(* A packet of an even number of bytes, and its shorts.                      *)
Even(b) == b \in Seq(Byte) /\ Len(b) % 2 = 0 /\ Len(b) >= 4 /\ Len(b) =< Short
Pairs(b) == Len(b) \div 2
PairAt(b, k) == b[2*k-1] + Base * b[2*k]

(* The shorts of an even number of bytes.                                    *)
LEMMA PairsOf ==
  ASSUME NEW b, Even(b)
  PROVE  /\ Pairs(b) \in Nat /\ Pairs(b) >= 2 /\ 2 * Pairs(b) = Len(b) /\ Pairs(b) < Short
         /\ \A k \in 1 .. Pairs(b) : PairAt(b, k) \in 0 .. Short - 1
         /\ Shorts(b) \in Seq(Nat) /\ Len(Shorts(b)) = Pairs(b)
         /\ \A k \in 1 .. Pairs(b) : Shorts(b)[k] = PairAt(b, k)
<1> DEFINE n == Pairs(b)
<1>1. Len(b) \in Nat /\ Len(b) % 2 = 0 /\ Len(b) >= 4 /\ Len(b) =< Short /\ Short \in Nat
  BY Sizes DEF Even
<1>2. n \in Nat /\ n >= 2 /\ 2 * n = Len(b) /\ n < Short /\ (Len(b) + 1) \div 2 = n
  BY <1>1 DEF Pairs
<1> HIDE DEF n
<1>3. ASSUME NEW k \in 1 .. n
      PROVE  2*k \in 1 .. Len(b) /\ 2*k-1 \in 1 .. Len(b) /\ b[2*k-1] \in Byte /\ b[2*k] \in Byte
  <2>1. 2*k \in 1 .. Len(b) /\ 2*k-1 \in 1 .. Len(b)
    BY ONLY <1>1, <1>2, k \in 1 .. n
  <2>2. b \in Seq(Byte)
    BY DEF Even
  <2> QED BY ONLY <2>1, <2>2
<1>4. \A k \in 1 .. n : PairAt(b, k) \in 0 .. Short - 1
  BY <1>3, TwoBytes DEF PairAt
<1> DEFINE at(k) == b[2*k-1] + (IF 2*k =< Len(b) THEN Base * b[2*k] ELSE 0)
<1>5. \A k \in 1 .. n : at(k) = PairAt(b, k)
  <2>1. \A k \in 1 .. n : 2*k =< Len(b)
    BY <1>3
  <2> QED BY <2>1 DEF PairAt
<1>6. Shorts(b) = [k \in 1 .. n |-> at(k)]
  BY <1>2 DEF Shorts
<1> HIDE DEF at
<1>7. \A k \in 1 .. n : at(k) \in Nat
  BY <1>1, <1>4, <1>5
<1>8. Shorts(b) \in Seq(Nat) /\ Len(Shorts(b)) = n
  BY ONLY <1>2, <1>6, <1>7
<1>9. \A k \in 1 .. n : Shorts(b)[k] = PairAt(b, k)
  BY ONLY <1>5, <1>6
<1> QED BY <1>2, <1>4, <1>8, <1>9 DEF n

(* Added up without a modulus.                                               *)
LEMMA ShortSums ==
  ASSUME NEW b, Even(b)
  PROVE  /\ Sums(Shorts(b)) \in [0 .. Pairs(b) -> Nat] /\ Sums(Shorts(b))[0] = 0
         /\ \A k \in 1 .. Pairs(b) : Sums(Shorts(b))[k] = Sums(Shorts(b))[k-1] + PairAt(b, k)
         /\ \A k \in 0 .. Pairs(b) : Sums(Shorts(b))[k] < UInt
         /\ AllOnes(b) <=> /\ Sums(Shorts(b))[Pairs(b)] > 0
                           /\ Sums(Shorts(b))[Pairs(b)] % (Short - 1) = 0
<1> DEFINE n == Pairs(b)
           F == Sums(Shorts(b))
<1>1. /\ n \in Nat /\ n < Short /\ Shorts(b) \in Seq(Nat) /\ Len(Shorts(b)) = n
      /\ \A k \in 1 .. n : Shorts(b)[k] = PairAt(b, k) /\ PairAt(b, k) \in 0 .. Short - 1
  BY PairsOf
<1>2. /\ F \in [0 .. n -> Nat] /\ F[0] = 0
      /\ \A k \in 1 .. n : F[k] = F[k-1] + Shorts(b)[k]
  BY <1>1, SumsAdd
<1>3. AllOnes(b) <=> F[n] > 0 /\ F[n] % (Short - 1) = 0
  BY <1>1 DEF AllOnes, Sums
<1> HIDE DEF n, F
<1>4. \A k \in 1 .. n : F[k] = F[k-1] + PairAt(b, k)
  BY ONLY <1>1, <1>2
<1> DEFINE G == {k \in 0 .. n : F[k] =< k * Short}
<1>5. 0 \in G /\ G \in SUBSET (0 .. n)
  <2>1. 0 * Short = 0
    BY Sizes
  <2> QED BY <1>1, <1>2, <2>1
<1>6. ASSUME NEW k \in 0 .. n - 1, k \in G PROVE k + 1 \in G
  <2>1. k + 1 \in 1 .. n /\ (k + 1) - 1 = k /\ k \in 0 .. n
    BY ONLY <1>1, k \in 0 .. n - 1
  <2>2. F[k + 1] = F[k] + PairAt(b, k + 1) /\ PairAt(b, k + 1) \in 0 .. Short - 1
    BY ONLY <1>1, <1>4, <2>1
  <2>3. F[k] =< k * Short /\ F[k] \in Nat
    BY <1>2, <1>6, <2>1
  <2>4. (k + 1) * Short = k * Short + Short /\ k * Short \in Int
    <3>1. \A x, y \in Int : (x + 1) * y = x * y + y /\ x * y \in Int
      OBVIOUS
    <3> QED BY ONLY <2>1, <3>1, Sizes
  <2>5. F[k + 1] =< (k + 1) * Short
    BY ONLY <2>2, <2>3, <2>4, Sizes
  <2> QED BY <2>1, <2>5
<1>7. 0 .. n \subseteq G
  <2> HIDE DEF G
  <2> QED BY ONLY <1>1, <1>5, <1>6, LoopInduction
<1>8. ASSUME NEW k \in 0 .. n PROVE F[k] < UInt
  <2>1. F[k] =< k * Short /\ F[k] \in Nat
    BY <1>2, <1>7
  <2>2. k * Short + Short =< Short * Short /\ k * Short \in Int
    <3>1. \A x, y \in Nat : x < y => x * y + y =< y * y /\ x * y \in Int
      OBVIOUS
    <3>2. k \in Nat /\ k < Short /\ Short \in Nat
      BY <1>1, Sizes
    <3> QED BY ONLY <3>1, <3>2
  <2> QED BY ONLY <2>1, <2>2, Sizes
<1> QED BY <1>2, <1>3, <1>4, <1>8 DEF n, F

(* The code's sum, in an unsigned int, is the same: nothing is carried out   *)
(* of it.                                                                    *)
WordSums(b) ==
  LET sum[k \in 0 .. Len(b) \div 2] ==
        IF k = 0 THEN 0 ELSE (sum[k-1] + b[2*k-1] + Base * b[2*k]) % UInt
  IN sum

(* The sum of in_cksum, an unsigned int, does not come round: there are no   *)
(* more shorts than a short can count.                                       *)
LEMMA WordSumIsSum ==
  ASSUME NEW b, Even(b)
  PROVE  WordSum(b) = Sums(Shorts(b))[Pairs(b)]
<1> DEFINE n == Pairs(b)
           S == Sums(Shorts(b))
           F == WordSums(b)
           turn(k, x) == (x + b[2*k-1] + Base * b[2*k]) % UInt
           Is(f) == f = [k \in 0 .. n |-> IF k = 0 THEN 0 ELSE turn(k, f[k-1])]
<1>1. /\ n \in Nat /\ S \in [0 .. n -> Nat] /\ S[0] = 0
      /\ \A k \in 1 .. n : S[k] = S[k-1] + PairAt(b, k)
      /\ \A k \in 0 .. n : S[k] < UInt
  BY PairsOf, ShortSums
<1>2. \A x \in 0 .. UInt - 1 : x % UInt = x
  BY Sizes
<1>3. WordSum(b) = (F[n] + (IF Len(b) % 2 = 1 THEN b[Len(b)] ELSE 0)) % UInt
  BY DEF WordSum, WordSums, Pairs
<1>4. F = CHOOSE f : Is(f)
  BY DEF WordSums, Pairs
<1> HIDE DEF n, S, F
<1>5. ASSUME NEW k \in 1 .. n PROVE turn(k, S[k-1]) = S[k]
  <2>1. k - 1 \in 0 .. n /\ k \in 0 .. n
    BY ONLY <1>1, k \in 1 .. n
  <2>2. S[k-1] \in Nat /\ S[k] \in Nat /\ S[k] < UInt /\ S[k] = S[k-1] + PairAt(b, k)
    BY ONLY <1>1, <2>1, k \in 1 .. n
  <2>3. b[2*k-1] \in Byte /\ b[2*k] \in Byte
    <3>1. 2 * n = Len(b) /\ b \in Seq(Byte)
      BY PairsOf DEF Even, n
    <3>2. 2*k \in 1 .. Len(b) /\ 2*k-1 \in 1 .. Len(b)
      BY <1>1, <3>1
    <3> QED BY ONLY <3>1, <3>2
  <2>4. S[k-1] + b[2*k-1] + Base * b[2*k] = S[k]
    <3>1. \A x, y, z \in Int : x + y + z = x + (y + z)
      OBVIOUS
    <3>2. b[2*k-1] \in Int /\ Base * b[2*k] \in Int
      <4>1. \A x \in Byte : x \in Int /\ Base * x \in Int
        BY TwoBytes, Bytewise
      <4> QED BY ONLY <2>3, <4>1, Zenon
    <3> QED BY ONLY <2>2, <3>1, <3>2 DEF PairAt
  <2>5. S[k] \in 0 .. UInt - 1
    BY <2>2, Sizes
  <2> QED BY <1>2, <2>4, <2>5
<1> HIDE DEF turn
<1>6. Is(S)
  BY ONLY <1>1, <1>5
<1>7. Is(F)
  <2> HIDE DEF Is
  <2> QED BY <1>4, <1>6
<1> DEFINE G == {k \in 0 .. n : F[k] = S[k]}
<1>8. /\ \A k \in 0 .. n : F[k] = IF k = 0 THEN 0 ELSE turn(k, F[k-1])
  BY <1>7
<1>9. 0 \in G /\ G \in SUBSET (0 .. n)
  BY <1>1, <1>8
<1>10. ASSUME NEW k \in 0 .. n - 1, k \in G PROVE k + 1 \in G
  <2>1. k + 1 \in 1 .. n /\ k + 1 \in 0 .. n /\ (k + 1) - 1 = k /\ k + 1 # 0
    BY ONLY <1>1, k \in 0 .. n - 1
  <2>2. F[k + 1] = turn(k + 1, F[k])
    BY ONLY <1>8, <2>1
  <2>3. turn(k + 1, S[k]) = S[k + 1]
    BY ONLY <1>5, <2>1
  <2>4. F[k] = S[k]
    BY <1>10
  <2> QED BY <2>1, <2>2, <2>3, <2>4
<1>11. 0 .. n \subseteq G
  <2> HIDE DEF G
  <2> QED BY ONLY <1>1, <1>9, <1>10, LoopInduction
<1>12. F[n] = S[n] /\ S[n] \in 0 .. UInt - 1
  <2>1. n \in 0 .. n /\ S[n] \in Nat /\ S[n] < UInt
    BY <1>1
  <2> QED BY <1>11, <2>1, Sizes
<1>13. WordSum(b) = S[n]
  <2>1. Len(b) % 2 # 1
    BY DEF Even
  <2>2. S[n] + 0 = S[n]
    BY <1>12, Sizes
  <2> QED BY <1>2, <1>3, <1>12, <2>1, <2>2
<1> QED BY <1>13 DEF n, S

(* Two packets that differ in their second short only, which is zero in one  *)
(* and its checksum in the other: this one verifies.                         *)
LEMMA Filled ==
  ASSUME NEW a, NEW b, Even(a), Even(b), Len(a) = Len(b), PairAt(a, 2) = 0,
         \A k \in 1 .. Pairs(a) : PairAt(b, k) = IF k = 2 THEN checksum[a] ELSE PairAt(a, k)
  PROVE  AllOnes(b)
<1> DEFINE n == Pairs(a)
           S == Sums(Shorts(a))
           T == Sums(Shorts(b))
           c == checksum[a]
<1>1. /\ n \in Nat /\ n >= 2 /\ S \in [0 .. n -> Nat] /\ S[0] = 0
      /\ \A k \in 1 .. n : S[k] = S[k-1] + PairAt(a, k) /\ PairAt(a, k) \in 0 .. Short - 1
      /\ \A k \in 0 .. n : S[k] < UInt
      /\ WordSum(a) = S[n]
  BY PairsOf, ShortSums, WordSumIsSum
<1>2. n = Pairs(b)
  BY DEF Pairs
<1>3. /\ T \in [0 .. n -> Nat] /\ T[0] = 0
      /\ \A k \in 1 .. n : T[k] = T[k-1] + PairAt(b, k)
      /\ AllOnes(b) <=> T[n] > 0 /\ T[n] % (Short - 1) = 0
  BY <1>2, ShortSums
<1>4. c = (UInt - 1 - Fold[S[n]]) % Short
  BY <1>1 DEF checksum, Even
<1> HIDE DEF n, S, T, c
<1>5. S[n] \in 0 .. UInt - 1
  BY <1>1, Sizes
<1>6. c \in 0 .. Short - 1 /\ S[n] + c > 0 /\ (S[n] + c) % (Short - 1) = 0
  BY <1>4, <1>5, Complement
<1> DEFINE G == {k \in 0 .. n : T[k] = S[k] + IF k >= 2 THEN c ELSE 0}
<1>7. 0 \in G /\ G \in SUBSET (0 .. n)
  BY <1>1, <1>3
<1>8. ASSUME NEW k \in 0 .. n - 1, k \in G PROVE k + 1 \in G
  <2>1. k + 1 \in 1 .. n /\ k + 1 \in 0 .. n /\ (k + 1) - 1 = k /\ k \in 0 .. n /\ k \in Nat
    BY ONLY <1>1, k \in 0 .. n - 1
  <2>2. T[k + 1] = T[k] + PairAt(b, k + 1) /\ S[k + 1] = S[k] + PairAt(a, k + 1)
    BY ONLY <1>1, <1>3, <2>1
  <2>3. T[k] = S[k] + IF k >= 2 THEN c ELSE 0
    BY <1>8
  <2>4. PairAt(b, k + 1) = IF k + 1 = 2 THEN c ELSE PairAt(a, k + 1)
    BY <2>1 DEF n, c
  <2>5. S[k] \in Nat /\ T[k] \in Nat /\ PairAt(a, k + 1) \in Int /\ c \in Int
    <3>1. PairAt(a, k + 1) \in 0 .. Short - 1
      BY <1>1, <2>1
    <3> QED BY <1>1, <1>3, <1>6, <2>1, <3>1, Sizes
  <2>6. T[k + 1] = S[k + 1] + IF k + 1 >= 2 THEN c ELSE 0
    <3>1. CASE k = 1
      <4>1. PairAt(a, k + 1) = 0
        BY <3>1
      <4> QED BY ONLY <2>2, <2>3, <2>4, <2>5, <3>1, <4>1
    <3>2. CASE k # 1
      BY ONLY <2>1, <2>2, <2>3, <2>4, <2>5, <3>2
    <3> QED BY <3>1, <3>2
  <2> QED BY <2>1, <2>6
<1>9. 0 .. n \subseteq G
  <2> HIDE DEF G
  <2> QED BY ONLY <1>1, <1>7, <1>8, LoopInduction
<1>10. T[n] = S[n] + c
  <2>1. n \in G
    BY <1>1, <1>9
  <2> QED BY <1>1, <2>1
<1> QED BY <1>3, <1>6, <1>10

-----------------------------------------------------------------------------
(* The bytes of a packet: the checksum is the second short.                  *)
LEMMA Layout ==
  ASSUME NEW type \in Byte, NEW check \in 0 .. Short - 1, NEW id \in 0 .. Short - 1,
         NEW seq \in 0 .. Short - 1, NEW msg \in Seq(Byte), Len(msg) =< MsgSize
  PROVE  LET b == Bytes(type, check, id, seq, msg)
         IN /\ Even(b) /\ Pairs(b) = (MsgSize + 8) \div 2
            /\ b[3] = check % Base /\ b[4] = check \div Base
            /\ \A c \in 0 .. Short - 1 : \A k \in 1 .. Pairs(b) : k # 2 =>
                 PairAt(Bytes(type, c, id, seq, msg), k) = PairAt(b, k)
<1> DEFINE zeros == [k \in 1 .. MsgSize - Len(msg) |-> 0]
           rest == msg \o zeros
           head(c) == <<type, 0, c % Base, c \div Base, id % Base, id \div Base, seq % Base, seq \div Base>>
           all(c) == Bytes(type, c, id, seq, msg)
<1>1. MsgSize \in Nat /\ MsgSize % 2 = 0 /\ MsgSize + 8 =< Short /\ Short \in Nat
  BY IcmpCalcAssumption, Sizes
<1>2. 0 \in Byte
  BY Bytewise
<1>3. zeros \in Seq(Byte) /\ Len(zeros) = MsgSize - Len(msg)
  BY <1>1, <1>2
<1> HIDE DEF zeros
<1>4. rest \in Seq(Byte) /\ Len(rest) = MsgSize
  <2>1. rest \in Seq(Byte) /\ Len(rest) = Len(msg) + Len(zeros)
    BY <1>3
  <2> QED BY <1>1, <1>3, <2>1
<1>5. ASSUME NEW c \in 0 .. Short - 1
      PROVE  /\ all(c) \in Seq(Byte) /\ Len(all(c)) = 8 + MsgSize
             /\ \A i \in 1 .. 8 : all(c)[i] = head(c)[i]
             /\ \A i \in 1 .. MsgSize : all(c)[8 + i] = rest[i]
  <2> DEFINE h == head(c)
             f == all(c)
  <2>1. h \in Seq(Byte) /\ Len(h) = 8
    <3>1. /\ c % Base \in Byte /\ c \div Base \in Byte
          /\ id % Base \in Byte /\ id \div Base \in Byte
          /\ seq % Base \in Byte /\ seq \div Base \in Byte
      BY BytesOfShort
    <3> QED BY ONLY <1>2, <3>1, type \in Byte
  <2>2. f = (h \o msg) \o zeros
    BY DEF Bytes, zeros
  <2> HIDE DEF h, f
  <2>3. f = h \o rest
    BY ONLY <1>3, <2>1, <2>2, msg \in Seq(Byte)
  <2> HIDE DEF rest
  <2>4. /\ f \in Seq(Byte) /\ Len(f) = Len(h) + Len(rest)
        /\ \A i \in 1 .. Len(h) : f[i] = h[i]
        /\ \A k \in 1 .. Len(rest) : f[Len(h) + k] = rest[k]
    <3>1. h \in Seq(Byte) /\ rest \in Seq(Byte)
      BY ONLY <1>4, <2>1
    <3> QED BY ONLY <2>3, <3>1, Concatenated
  <2>5. /\ f \in Seq(Byte) /\ Len(f) = 8 + MsgSize
        /\ \A i \in 1 .. 8 : f[i] = h[i]
        /\ \A k \in 1 .. MsgSize : f[8 + k] = rest[k]
    BY ONLY <1>4, <2>1, <2>4
  <2> QED BY ONLY <2>5 DEF f, h
<1> DEFINE b == all(check)
<1>6. b[3] = check % Base /\ b[4] = check \div Base
  <2>1. b[3] = head(check)[3] /\ b[4] = head(check)[4]
    <3> HIDE DEF head, all
    <3> QED BY <1>5
  <2> QED BY <2>1
<1>7. Even(b) /\ Pairs(b) = (MsgSize + 8) \div 2 /\ 2 * Pairs(b) = MsgSize + 8 /\ Pairs(b) \in Nat
  <2>1. b \in Seq(Byte) /\ Len(b) = 8 + MsgSize
    BY <1>5
  <2> HIDE DEF all
  <2> QED BY <1>1, <2>1 DEF Even, Pairs
<1>8. ASSUME NEW c \in 0 .. Short - 1, NEW i \in 1 .. MsgSize + 8, i # 3, i # 4
      PROVE  all(c)[i] = b[i]
  <2>1. CASE i \in 1 .. 8
    <3>1. all(c)[i] = head(c)[i] /\ b[i] = head(check)[i]
      <4> HIDE DEF all, head
      <4> QED BY <1>5, <2>1
    <3>2. head(c)[i] = head(check)[i]
      <4>1. i \in {1, 2, 5, 6, 7, 8}
        BY <1>8, <2>1
      <4> QED BY ONLY <4>1
    <3> HIDE DEF all, head
    <3> QED BY <3>1, <3>2
  <2>2. CASE i \notin 1 .. 8
    <3>1. i - 8 \in 1 .. MsgSize /\ 8 + (i - 8) = i
      BY <1>1, <2>2
    <3> HIDE DEF all, head, rest
    <3>2. all(c)[8 + (i-8)] = rest[i-8] /\ b[8 + (i-8)] = rest[i-8]
      BY ONLY <1>5, <3>1, c \in 0 .. Short - 1, check \in 0 .. Short - 1
    <3> QED BY <3>1, <3>2
  <2> QED BY <2>1, <2>2
<1>9. ASSUME NEW c \in 0 .. Short - 1, NEW k \in 1 .. Pairs(b), k # 2
      PROVE  PairAt(all(c), k) = PairAt(b, k)
  <2> HIDE DEF all
  <2>1. /\ 2*k-1 \in 1 .. MsgSize + 8 /\ 2*k \in 1 .. MsgSize + 8
        /\ 2*k-1 # 3 /\ 2*k-1 # 4 /\ 2*k # 3 /\ 2*k # 4
    BY ONLY <1>1, <1>7, <1>9, k \in 1 .. Pairs(b)
  <2>2. all(c)[2*k-1] = b[2*k-1] /\ all(c)[2*k] = b[2*k]
    BY ONLY <1>8, <2>1, c \in 0 .. Short - 1, Zenon
  <2> QED BY <2>2 DEF PairAt
<1> QED BY <1>6, <1>7, <1>9

(* Whatever is put into a packet, it verifies.                               *)
LEMMA PacketVerifies ==
  ASSUME NEW type \in Byte, NEW id \in 0 .. Short - 1, NEW seq \in 0 .. Short - 1,
         NEW msg \in Seq(Byte), Len(msg) =< MsgSize
  PROVE  LET check == checksum[Bytes(type, 0, id, seq, msg)]
         IN check \in 0 .. Short - 1 /\ AllOnes(Bytes(type, check, id, seq, msg))
<1> DEFINE a == Bytes(type, 0, id, seq, msg)
           check == checksum[a]
           b == Bytes(type, check, id, seq, msg)
           n == Pairs(a)
<1>1. 0 \in 0 .. Short - 1
  BY Sizes
<1>2. /\ Even(a) /\ a[3] = 0 % Base /\ a[4] = 0 \div Base /\ n = (MsgSize + 8) \div 2
      /\ \A c \in 0 .. Short - 1 : \A k \in 1 .. n : k # 2 =>
           PairAt(Bytes(type, c, id, seq, msg), k) = PairAt(a, k)
  BY <1>1, Layout
<1>3. check \in 0 .. Short - 1
  <2>1. WordSum(a) = Sums(Shorts(a))[n] /\ Sums(Shorts(a)) \in [0 .. n -> Nat]
        /\ (\A k \in 0 .. n : Sums(Shorts(a))[k] < UInt) /\ n \in Nat /\ n \in 0 .. n
    <3>1. Even(a)
      BY <1>2
    <3> HIDE DEF a
    <3>2. WordSum(a) = Sums(Shorts(a))[n] /\ n \in Nat
      BY <3>1, WordSumIsSum, PairsOf
    <3>3. Sums(Shorts(a)) \in [0 .. n -> Nat] /\ \A k \in 0 .. n : Sums(Shorts(a))[k] < UInt
      BY <3>1, ShortSums
    <3> HIDE DEF n
    <3> QED BY <3>2, <3>3
  <2>2. WordSum(a) \in 0 .. UInt - 1
    <3> HIDE DEF a, n
    <3> QED BY <2>1, Sizes
  <2>3. check = (UInt - 1 - Fold[WordSum(a)]) % Short
    BY <1>2 DEF checksum, Even
  <2> HIDE DEF a, check
  <2> QED BY <2>2, <2>3, Complement
<1>4. PairAt(a, 2) = 0
  <2>1. 0 % Base = 0 /\ 0 \div Base = 0 /\ Base * 0 = 0 /\ 2*2-1 = 3 /\ 2*2 = 4
    BY Sizes
  <2> HIDE DEF a
  <2> QED BY <1>2, <2>1 DEF PairAt
<1> HIDE DEF check
<1>5. /\ Even(b) /\ b[3] = check % Base /\ b[4] = check \div Base /\ Pairs(b) = (MsgSize + 8) \div 2
  BY <1>3, Layout
<1>6. PairAt(b, 2) = check
  <2>1. (check % Base) + Base * (check \div Base) = check
    BY <1>3, BytesOfShort
  <2>2. 2*2-1 = 3 /\ 2*2 = 4
    OBVIOUS
  <2> HIDE DEF b
  <2> QED BY <1>5, <2>1, <2>2 DEF PairAt
<1>7. ASSUME NEW k \in 1 .. n PROVE PairAt(b, k) = IF k = 2 THEN check ELSE PairAt(a, k)
  <2>1. k # 2 => PairAt(b, k) = PairAt(a, k)
    BY <1>2, <1>3
  <2> HIDE DEF a, b
  <2> QED BY <1>6, <2>1
<1>8. Len(a) = Len(b)
  <2>1. 2 * Pairs(a) = Len(a) /\ 2 * Pairs(b) = Len(b)
    BY <1>2, <1>5, PairsOf
  <2> HIDE DEF a, b
  <2> QED BY <1>2, <1>5, <2>1
<1> HIDE DEF a, b
<1>9. AllOnes(b)
  BY <1>2, <1>4, <1>5, <1>7, <1>8, Filled DEF check
<1> QED BY <1>3, <1>9 DEF a, b, check

-----------------------------------------------------------------------------
(* What may be typed, what is sent and what is printed.                      *)
AllRequests == UNION {Requests[p] : p \in Procs}

Packets == [type : Byte, check : 0 .. Short - 1, id : 0 .. Short - 1, seq : 0 .. Short - 1,
            msg : Seq(Byte), src : Hosts, by : Procs, n : Nat]
Answers == [id : 0 .. Short - 1, seq : 0 .. Short - 1, result : Int, by : Procs, n : Nat]

TypeOK == /\ cnt \in [Procs -> Nat]
          /\ asked \in [Procs -> Seq(AllRequests)]
          /\ inbox \in [Procs -> SUBSET Packets]
          /\ shown \in [Procs -> SUBSET Answers]
          /\ kind \in [Procs -> Answerers \cup {"myping"}]
          /\ parent \in [Procs -> {"asks", "waits", "gone"}]
          /\ listening \in [Procs -> BOOLEAN]

(* A calculator counts its requests; a ping counts what it sends.            *)
Counted == \A p \in Procs : /\ Len(asked[p]) < cnt[p]
                            /\ kind[p] \in Answerers => cnt[p] = Len(asked[p]) + 1

(* The number of a request and the sequence that the header has room for.    *)
Numbered(x, ask) == x.n \in 1 .. Len(ask[x.by]) /\ x.seq = x.n % SeqMod

(* A packet that waits at q: a request came to the host it was sent to, an   *)
(* answer came back to the host that asked.                                  *)
GoodPacket(q, m, ask) ==
  /\ m.type = ICMP_CALC_REQ =>
       /\ Numbered(m, ask) /\ m.msg = Frame(ask[m.by][m.n])
       /\ m.src = HostOf[m.by] /\ HostOf[q] = Target[m.by]
  /\ m.type = ICMP_CALC_RES =>
       /\ Numbered(m, ask) /\ m.msg = Little(Value(ask[m.by][m.n]))
       /\ HostOf[q] = HostOf[m.by] /\ \E r \in Listeners(Target[m.by]) : m.id = Pid[r]
  /\ AllOnes(Bytes(m.type, m.check, m.id, m.seq, m.msg))

GoodAnswer(q, a, ask) ==
  /\ Numbered(a, ask) /\ a.result = Value(ask[a.by][a.n])
  /\ HostOf[q] = HostOf[a.by] /\ \E r \in Listeners(Target[a.by]) : a.id = Pid[r]

IInv == /\ TypeOK /\ Counted
        /\ \A q \in Procs : \A m \in inbox[q] : GoodPacket(q, m, asked)
        /\ \A q \in Procs : \A a \in shown[q] : GoodAnswer(q, a, asked)

-----------------------------------------------------------------------------
(* A request in its packet, and its value in the answer's.                   *)
LEMMA RequestFacts ==
  ASSUME NEW r \in AllRequests
  PROVE  /\ Frame(r) \in Seq(Byte) /\ Len(Frame(r)) =< MsgSize
         /\ calculate[Frame(r)] = Value(r) /\ Value(r) \in Int
         /\ Little(Value(r)) \in Seq(Byte) /\ Len(Little(Value(r))) =< MsgSize
         /\ IntOf(Little(Value(r))) = Value(r)
<1>1. IsTyped(r) /\ Len(Frame(r)) =< MsgSize
  BY IcmpCalcAssumption DEF AllRequests
<1>2. Typed(r)
  <2>1. << >> \in Seq(Int) /\ << >> \in Seq(Byte)
    OBVIOUS
  <2> QED BY <1>1, <2>1 DEF IsTyped, IsRequest, Typed
<1>3. Frame(r) \in Seq(Byte) /\ Frame(r)[1] = r.count % Base /\ Len(Frame(r)) > 0 /\ r.count \in Int
  <2>1. /\ Frame(r) \in Seq(Byte) /\ Frame(r)[1] = r.count % Base
        /\ Len(Frame(r)) = 1 + Len(r.operand) * IntBytes + Len(r.operator)
        /\ Len(r.operand) * IntBytes \in Nat
    BY <1>2, FrameBytes
  <2>2. Len(r.operator) \in Nat /\ r.count \in Int
    BY <1>2 DEF Typed
  <2> HIDE DEF Frame
  <2> QED BY <2>1, <2>2
<1>4. Char(BufAt(Frame(r), 0)) = Char(r.count) /\ Char(r.count) \in Int
  <2>1. BufAt(Frame(r), 0) = r.count % Base
    BY <1>3 DEF BufAt
  <2>2. Char(r.count % Base) = Char(r.count) /\ Char(r.count) \in Int
    <3>1. r.count \in Int
      BY <1>3
    <3>2. \A n \in Int : Char(n % Base) = Char(n) /\ Char(n) \in Int
      BY Chars
    <3> QED BY ONLY <3>1, <3>2
  <2> QED BY <2>1, <2>2
<1>5. calculate[Frame(r)] = IF Char(r.count) =< 1 THEN -1 ELSE Calculate(Parse(Frame(r)))
  BY <1>3, <1>4 DEF calculate
<1>6. calculate[Frame(r)] = Value(r) /\ Value(r) \in Int /\ Wrap(Value(r)) = Value(r)
  <2>1. CASE Char(r.count) =< 1
    BY <1>5, <2>1, Wrapped DEF Value
  <2>2. CASE ~(Char(r.count) =< 1)
    <3>1. IsRequest(r) /\ Char(r.count) > 0
      BY <1>1, <1>4, <2>2 DEF IsTyped
    <3> DEFINE e == Expression(r)
    <3>2. Parse(Frame(r)) = e /\ IsExpression(e) /\ r.count \in 1 .. MaxChar /\ Len(r.operand) = r.count
      BY <3>1, ParseFrame
    <3>3. Wrap(e.operand[1]) = e.operand[1]
      <4>1. 1 \in DOMAIN r.operand
        BY <1>2, <3>2 DEF Typed
      <4> QED BY <3>1, <4>1 DEF IsRequest, Expression
    <3>4. Calculate(e) \in Int /\ Wrap(Calculate(e)) = Calculate(e)
      BY <3>2, <3>3, CalculateInt
    <3> HIDE DEF e
    <3>5. Value(r) = Calculate(e)
      BY <2>2 DEF Value, e
    <3> QED BY <1>5, <2>2, <3>2, <3>4, <3>5
  <2> QED BY <2>1, <2>2
<1> DEFINE v == Value(r)
<1> HIDE DEF v
<1>7. v \in Int /\ Wrap(v) = v
  BY <1>6 DEF v
<1>8. Little(v) \in Seq(Byte) /\ Len(Little(v)) = IntBytes /\ IntBytes =< MsgSize
  <2>1. Little(v) \in [1 .. IntBytes -> Byte] /\ IntBytes \in Nat
    BY <1>7, LittleBytes, CalcFrameAssumption
  <2>2. Little(v) \in Seq(Byte) /\ Len(Little(v)) = IntBytes
    BY ONLY <2>1
  <2> QED BY <2>2, IcmpCalcAssumption
<1>9. IntOf(Little(v)) = v
  BY <1>7, RoundTrip
<1> QED BY <1>1, <1>3, <1>6, <1>8, <1>9 DEF v

(* A packet as it is sent.                                                   *)
LEMMA NewPacket ==
  ASSUME NEW type \in Byte, NEW id \in 0 .. Short - 1, NEW seq \in 0 .. Short - 1,
         NEW msg \in Seq(Byte), Len(msg) =< MsgSize,
         NEW src \in Hosts, NEW by \in Procs, NEW n \in Nat
  PROVE  LET m == Packet(type, id, seq, msg, src, by, n)
         IN /\ m \in Packets /\ m.type = type /\ m.id = id /\ m.seq = seq /\ m.msg = msg
            /\ m.src = src /\ m.by = by /\ m.n = n
            /\ AllOnes(Bytes(m.type, m.check, m.id, m.seq, m.msg))
<1> DEFINE check == checksum[Bytes(type, 0, id, seq, msg)]
<1>1. check \in 0 .. Short - 1 /\ AllOnes(Bytes(type, check, id, seq, msg))
  BY PacketVerifies
<1>2. Packet(type, id, seq, msg, src, by, n) =
        [type |-> type, check |-> check, id |-> id, seq |-> seq, msg |-> msg,
         src |-> src, by |-> by, n |-> n]
  BY DEF Packet
<1> HIDE DEF check
<1> QED BY <1>1, <1>2 DEF Packets

(* The packets that wait stay good when one more comes, when one is taken,   *)
(* and when more is asked.                                                   *)
Boxes(box, ask) == /\ box \in [Procs -> SUBSET Packets]
                   /\ \A q \in Procs : \A m \in box[q] : GoodPacket(q, m, ask)

(* A packet that is good wherever it arrives leaves the sockets good.        *)
LEMMA SendKeeps ==
  ASSUME NEW box, NEW ask, Boxes(box, ask), NEW m \in Packets, NEW h,
         \A q \in Procs : HostOf[q] = h => GoodPacket(q, m, ask)
  PROVE  Boxes(Sent(box, m, h), ask)
<1> DEFINE b == Sent(box, m, h)
<1>1. b = [q \in Procs |-> IF HostOf[q] = h THEN box[q] \cup {m} ELSE box[q]]
  BY DEF Sent, Listeners
<1> HIDE DEF b
<1>2. b \in [Procs -> SUBSET Packets]
  BY <1>1 DEF Boxes
<1>3. ASSUME NEW q \in Procs, NEW x \in b[q] PROVE GoodPacket(q, x, ask)
  <2>1. x \in box[q] \/ (x = m /\ HostOf[q] = h)
    BY <1>1
  <2> QED BY <2>1 DEF Boxes
<1> QED BY <1>2, <1>3 DEF b, Boxes

(* So does taking one.                                                       *)
LEMMA TakeKeeps ==
  ASSUME Boxes(inbox, asked), NEW q \in Procs, NEW m
  PROVE  Boxes(Taken(q, m), asked)
<1>1. Taken(q, m) = [inbox EXCEPT ![q] = inbox[q] \ {m}]
  BY DEF Taken
<1>2. inbox \in [Procs -> SUBSET Packets] /\ inbox[q] \ {m} \in SUBSET Packets
  BY DEF Boxes
<1>3. /\ Taken(q, m) \in [Procs -> SUBSET Packets]
      /\ \A p \in Procs : Taken(q, m)[p] = IF p = q THEN inbox[q] \ {m} ELSE inbox[p]
  BY <1>1, <1>2, ExceptEntry
<1>4. ASSUME NEW p \in Procs, NEW x \in Taken(q, m)[p] PROVE GoodPacket(p, x, asked)
  <2>1. x \in inbox[p]
    BY <1>3
  <2> QED BY <2>1 DEF Boxes
<1> QED BY <1>3, <1>4 DEF Boxes

Extends(ask, more) ==
  \A p \in Procs : \A n \in 1 .. Len(ask[p]) : n \in 1 .. Len(more[p]) /\ more[p][n] = ask[p][n]

(* What is right of a packet or an answer stays right when more is asked.    *)
LEMMA AskKeeps ==
  ASSUME NEW ask, NEW more, Extends(ask, more), NEW q,
         NEW x, x.by \in Procs
  PROVE  /\ GoodPacket(q, x, ask) => GoodPacket(q, x, more)
         /\ GoodAnswer(q, x, ask) => GoodAnswer(q, x, more)
<1>1. Numbered(x, ask) => Numbered(x, more) /\ more[x.by][x.n] = ask[x.by][x.n]
  BY DEF Numbered, Extends
<1>2. GoodPacket(q, x, ask) => GoodPacket(q, x, more)
  BY <1>1 DEF GoodPacket
<1>3. GoodAnswer(q, x, ask) => GoodAnswer(q, x, more)
  BY <1>1 DEF GoodAnswer
<1> QED BY <1>2, <1>3

(* And of all that wait at the sockets.                                      *)
LEMMA BoxesKeep ==
  ASSUME NEW box, NEW ask, NEW more, Boxes(box, ask), Extends(ask, more)
  PROVE  Boxes(box, more)
<1>1. ASSUME NEW q \in Procs, NEW m \in box[q] PROVE GoodPacket(q, m, more)
  <2>1. m \in Packets /\ GoodPacket(q, m, ask)
    BY DEF Boxes
  <2>2. m.by \in Procs
    BY <2>1 DEF Packets
  <2> QED BY <2>1, <2>2, AskKeeps
<1> QED BY <1>1 DEF Boxes

(* The sequence fits its two bytes.                                          *)
LEMMA SeqFits ==
  ASSUME NEW n \in Nat
  PROVE  n % SeqMod \in 0 .. SeqMod - 1 /\ n % SeqMod \in 0 .. Short - 1
<1>1. SeqMod \in Nat \ {0} /\ SeqMod =< Short /\ Short \in Nat
  BY IcmpCalcAssumption, Sizes
<1>2. n % SeqMod \in 0 .. SeqMod - 1
  BY ONLY <1>1, n \in Nat
<1> QED BY ONLY <1>1, <1>2

-----------------------------------------------------------------------------
(* The invariant in parts that steps share.                                  *)
LEMMA Parts ==
  IInv <=> /\ TypeOK /\ Counted /\ Boxes(inbox, asked)
           /\ \A q \in Procs : \A a \in shown[q] : GoodAnswer(q, a, asked)
BY DEF IInv, TypeOK, Boxes

(* What was asked was typed.                                                 *)
LEMMA Asked ==
  ASSUME TypeOK, NEW p \in Procs, NEW n \in 1 .. Len(asked[p])
  PROVE  asked[p][n] \in AllRequests
<1>1. asked[p] \in Seq(AllRequests)
  BY DEF TypeOK
<1> QED BY ONLY <1>1, n \in 1 .. Len(asked[p])

(* Nothing is known yet.                                                     *)
LEMMA InitInv == DInit => IInv
<1> SUFFICES ASSUME DInit PROVE IInv
  OBVIOUS
<1> USE DEF DInit, Init
<1>1. kind \in [Procs -> Answerers \cup {"myping"}]
  BY IcmpDraftsAssumption
<1>2. \A p \in Procs : asked[p] = << >> /\ cnt[p] = 1 /\ inbox[p] = {} /\ shown[p] = {}
  OBVIOUS
<1>3. << >> \in Seq(AllRequests) /\ Len(<< >>) = 0
  OBVIOUS
<1>4. TypeOK
  <2>1. asked \in [Procs -> Seq(AllRequests)]
    BY <1>3
  <2>2. /\ cnt \in [Procs -> Nat] /\ inbox \in [Procs -> SUBSET Packets]
        /\ shown \in [Procs -> SUBSET Answers]
    OBVIOUS
  <2>3. listening \in [Procs -> BOOLEAN] /\ parent \in [Procs -> {"asks", "waits", "gone"}]
    OBVIOUS
  <2> QED BY <1>1, <2>1, <2>2, <2>3 DEF TypeOK
<1>5. Counted
  BY <1>2, <1>3 DEF Counted
<1> QED BY <1>2, <1>4, <1>5 DEF IInv

-----------------------------------------------------------------------------
(* A request is typed and sent.                                              *)
LEMMA RequestKeeps ==
  ASSUME IInv, NEW p \in Procs, kind[p] \in Answerers, Request(p), kind' = kind,
         parent' \in [Procs -> {"asks", "waits", "gone"}], listening' = listening
  PROVE  IInv'
<1>1. TypeOK /\ Counted /\ Boxes(inbox, asked) /\ \A q \in Procs : \A a \in shown[q] : GoodAnswer(q, a, asked)
  BY Parts
<1>2. PICK r \in Requests[p] :
        /\ asked' = [asked EXCEPT ![p] = Append(@, r)]
        /\ inbox' = Sent(inbox, Packet(ICMP_CALC_REQ, Pid[p], cnt[p] % SeqMod, Frame(r),
                                         HostOf[p], p, cnt[p]), Target[p])
  BY DEF Request
<1>3. cnt' = [cnt EXCEPT ![p] = @ + 1] /\ shown' = shown
  BY DEF Request
<1>4. r \in AllRequests
  BY DEF AllRequests
<1>5. /\ asked[p] \in Seq(AllRequests) /\ cnt[p] \in Nat /\ cnt[p] = Len(asked[p]) + 1
      /\ asked \in [Procs -> Seq(AllRequests)] /\ cnt \in [Procs -> Nat]
  BY <1>1 DEF TypeOK, Counted
<1> DEFINE new == Append(asked[p], r)
<1>6. /\ new \in Seq(AllRequests) /\ Len(new) = cnt[p] /\ new[cnt[p]] = r /\ cnt[p] \in 1 .. Len(new)
      /\ \A n \in 1 .. Len(asked[p]) : n \in 1 .. Len(new) /\ new[n] = asked[p][n]
  BY ONLY <1>4, <1>5
<1>7. /\ asked' \in [Procs -> Seq(AllRequests)] /\ asked'[p] = new
      /\ \A q \in Procs : q # p => asked'[q] = asked[q]
  <2>1. asked' = [asked EXCEPT ![p] = new]
    BY <1>2
  <2> HIDE DEF new
  <2> QED BY <1>5, <1>6, <2>1
<1> HIDE DEF new
<1>8. Extends(asked, asked')
  <2>1. ASSUME NEW q \in Procs, NEW n \in 1 .. Len(asked[q])
        PROVE  n \in 1 .. Len(asked'[q]) /\ asked'[q][n] = asked[q][n]
    BY <1>6, <1>7
  <2> QED BY <2>1 DEF Extends
<1> DEFINE m == Packet(ICMP_CALC_REQ, Pid[p], cnt[p] % SeqMod, Frame(r), HostOf[p], p, cnt[p])
<1>9. /\ m \in Packets /\ m.type = ICMP_CALC_REQ /\ m.seq = cnt[p] % SeqMod /\ m.msg = Frame(r)
      /\ m.src = HostOf[p] /\ m.by = p /\ m.n = cnt[p]
      /\ AllOnes(Bytes(m.type, m.check, m.id, m.seq, m.msg))
  <2>1. ICMP_CALC_REQ \in Byte /\ Pid[p] \in 0 .. Short - 1 /\ HostOf[p] \in Hosts
    BY IcmpCalcAssumption
  <2>2. cnt[p] % SeqMod \in 0 .. Short - 1
    BY <1>5, SeqFits
  <2>3. Frame(r) \in Seq(Byte) /\ Len(Frame(r)) =< MsgSize
    BY <1>4, RequestFacts
  <2> QED BY <1>5, <2>1, <2>2, <2>3, NewPacket
<1> HIDE DEF m
<1>10. Boxes(inbox', asked')
  <2>1. Boxes(inbox, asked')
    BY <1>1, <1>8, BoxesKeep
  <2>2. ASSUME NEW q \in Procs, HostOf[q] = Target[p] PROVE GoodPacket(q, m, asked')
    <3>1. Numbered(m, asked') /\ asked'[p][cnt[p]] = r
      BY <1>6, <1>7, <1>9 DEF Numbered
    <3>2. ICMP_CALC_REQ # ICMP_CALC_RES
      BY IcmpCalcAssumption
    <3> QED BY <1>9, <2>2, <3>1, <3>2 DEF GoodPacket
  <2>3. inbox' = Sent(inbox, m, Target[p])
    BY <1>2 DEF m
  <2> QED BY <1>9, <2>1, <2>2, <2>3, SendKeeps
<1>11. \A q \in Procs : \A a \in shown'[q] : GoodAnswer(q, a, asked')
  <2> SUFFICES ASSUME NEW q \in Procs, NEW a \in shown[q] PROVE GoodAnswer(q, a, asked')
    BY <1>3
  <2>1. a \in Answers /\ GoodAnswer(q, a, asked)
    BY <1>1 DEF TypeOK
  <2>2. a.by \in Procs
    BY <2>1 DEF Answers
  <2> QED BY <1>8, <2>1, <2>2, AskKeeps
<1>12. cnt' \in [Procs -> Nat] /\ \A q \in Procs : cnt'[q] = IF q = p THEN cnt[p] + 1 ELSE cnt[q]
  BY <1>3, <1>5
<1>13. TypeOK'
  <2>1. inbox' \in [Procs -> SUBSET Packets]
    BY <1>10 DEF Boxes
  <2> QED BY <1>1, <1>3, <1>7, <1>12, <2>1 DEF TypeOK
<1>14. Counted'
  <2>1. ASSUME NEW q \in Procs
        PROVE  Len(asked'[q]) < cnt'[q] /\ (kind'[q] \in Answerers => cnt'[q] = Len(asked'[q]) + 1)
    <3>1. CASE q = p
      BY <1>5, <1>6, <1>7, <1>12, <3>1
    <3>2. CASE q # p
      BY <1>1, <1>7, <1>12, <3>2 DEF Counted
    <3> QED BY <3>1, <3>2
  <2> QED BY <2>1 DEF Counted
<1> QED BY <1>10, <1>11, <1>13, <1>14 DEF IInv, Boxes

(* A step that leaves the requests and the answers alone.                    *)
LEMMA BoxStep ==
  ASSUME IInv, Boxes(inbox', asked), UNCHANGED <<cnt, shown, asked>>, UNCHANGED <<kind, parent, listening>>
  PROVE  IInv'
<1>1. TypeOK /\ Counted /\ \A q \in Procs : \A a \in shown[q] : GoodAnswer(q, a, asked)
  BY DEF IInv
<1>2. inbox' \in [Procs -> SUBSET Packets] /\ \A q \in Procs : \A m \in inbox'[q] : GoodPacket(q, m, asked')
  BY DEF Boxes
<1>3. TypeOK'
  BY <1>1, <1>2 DEF TypeOK
<1>4. Counted'
  BY <1>1 DEF Counted
<1> QED BY <1>1, <1>2, <1>3, <1>4 DEF IInv

(* A request is answered.                                                    *)
LEMMA AnswerKeeps ==
  ASSUME IInv, NEW q \in Procs, Answer(q), UNCHANGED <<kind, parent, listening>>
  PROVE  IInv'
<1>1. TypeOK /\ Boxes(inbox, asked)
  BY Parts
<1>2. PICK m \in inbox[q] :
        /\ m.type = ICMP_CALC_REQ
        /\ inbox' = Sent(Taken(q, m), Packet(ICMP_CALC_RES, Pid[q], m.seq,
                            Little(calculate[m.msg]), HostOf[q], m.by, m.n), m.src)
  BY DEF Answer, Replies
<1>3. UNCHANGED <<cnt, shown, asked>>
  BY DEF Answer
<1>4. /\ m \in Packets /\ Numbered(m, asked) /\ m.msg = Frame(asked[m.by][m.n])
      /\ m.src = HostOf[m.by] /\ HostOf[q] = Target[m.by]
  BY <1>1, <1>2 DEF Boxes, GoodPacket
<1>5. m.by \in Procs /\ m.n \in Nat /\ m.seq \in 0 .. Short - 1 /\ m.n \in 1 .. Len(asked[m.by])
  BY <1>4 DEF Packets, Numbered
<1> DEFINE r == asked[m.by][m.n]
<1>6. r \in AllRequests
  BY <1>1, <1>5, Asked
<1> HIDE DEF r
<1>7. calculate[m.msg] = Value(r) /\ Little(Value(r)) \in Seq(Byte) /\ Len(Little(Value(r))) =< MsgSize
  BY <1>4, <1>6, RequestFacts DEF r
<1> DEFINE a == Packet(ICMP_CALC_RES, Pid[q], m.seq, Little(Value(r)), HostOf[q], m.by, m.n)
<1>8. /\ a \in Packets /\ a.type = ICMP_CALC_RES /\ a.id = Pid[q] /\ a.seq = m.seq
      /\ a.msg = Little(Value(r)) /\ a.by = m.by /\ a.n = m.n
      /\ AllOnes(Bytes(a.type, a.check, a.id, a.seq, a.msg))
  <2>1. ICMP_CALC_RES \in Byte /\ Pid[q] \in 0 .. Short - 1 /\ HostOf[q] \in Hosts
    BY IcmpCalcAssumption
  <2> QED BY <1>5, <1>7, <2>1, NewPacket
<1>9. inbox' = Sent(Taken(q, m), a, m.src)
  BY <1>2, <1>7
<1> HIDE DEF a
<1>10. ASSUME NEW h \in Procs, HostOf[h] = m.src PROVE GoodPacket(h, a, asked)
  <2>1. Numbered(a, asked) /\ asked[a.by][a.n] = r
    BY <1>4, <1>8 DEF Numbered, r
  <2>2. q \in Listeners(Target[a.by]) /\ HostOf[h] = HostOf[a.by]
    BY <1>4, <1>8, <1>10 DEF Listeners
  <2>3. ICMP_CALC_REQ # ICMP_CALC_RES
    BY IcmpCalcAssumption
  <2> QED BY <1>8, <2>1, <2>2, <2>3 DEF GoodPacket
<1>11. Boxes(inbox', asked)
  <2>1. Boxes(Taken(q, m), asked)
    BY <1>1, TakeKeeps
  <2> QED BY <1>8, <1>9, <1>10, <2>1, SendKeeps
<1> QED BY <1>3, <1>11, BoxStep

(* An answer is printed.                                                     *)
LEMMA ShowKeeps ==
  ASSUME IInv, NEW q \in Procs, Show(q), kind' = kind, parent' = parent,
         listening' \in [Procs -> BOOLEAN]
  PROVE  IInv'
<1>1. TypeOK /\ Counted /\ Boxes(inbox, asked) /\ \A p \in Procs : \A a \in shown[p] : GoodAnswer(p, a, asked)
  BY Parts
<1>2. PICK m \in inbox[q] :
        /\ m.type = ICMP_CALC_RES /\ inbox' = Taken(q, m)
        /\ shown' = [shown EXCEPT ![q] = @ \cup
             {[id |-> m.id, seq |-> m.seq, result |-> IntOf(m.msg), by |-> m.by, n |-> m.n]}]
  BY DEF Show
<1>3. cnt' = cnt /\ asked' = asked
  BY DEF Show
<1>4. m \in Packets /\ GoodPacket(q, m, asked)
  BY <1>1 DEF Boxes
<1>5. /\ Numbered(m, asked) /\ m.msg = Little(Value(asked[m.by][m.n]))
      /\ HostOf[q] = HostOf[m.by] /\ \E r \in Listeners(Target[m.by]) : m.id = Pid[r]
  BY <1>2, <1>4 DEF GoodPacket
<1>6. /\ m.by \in Procs /\ m.n \in Nat /\ m.seq \in 0 .. Short - 1 /\ m.id \in 0 .. Short - 1
      /\ m.n \in 1 .. Len(asked[m.by])
  BY <1>4, <1>5 DEF Packets, Numbered
<1> DEFINE r == asked[m.by][m.n]
<1>7. r \in AllRequests
  BY <1>1, <1>6, Asked
<1>8. IntOf(m.msg) = Value(r) /\ Value(r) \in Int
  <2> HIDE DEF r
  <2>1. IntOf(Little(Value(r))) = Value(r) /\ Value(r) \in Int
    BY <1>7, RequestFacts
  <2> QED BY <1>5, <2>1 DEF r
<1> HIDE DEF r
<1> DEFINE a == [id |-> m.id, seq |-> m.seq, result |-> IntOf(m.msg), by |-> m.by, n |-> m.n]
<1>9. a \in Answers /\ a.id = m.id /\ a.seq = m.seq /\ a.by = m.by /\ a.n = m.n /\ a.result = Value(r)
  BY <1>6, <1>8 DEF Answers
<1>10. shown' = [shown EXCEPT ![q] = shown[q] \cup {a}]
  BY <1>2
<1> HIDE DEF a
<1>11. GoodAnswer(q, a, asked)
  BY <1>5, <1>9 DEF GoodAnswer, Numbered, r
<1>12. /\ shown' \in [Procs -> SUBSET Answers]
       /\ \A p \in Procs : shown'[p] = IF p = q THEN shown[q] \cup {a} ELSE shown[p]
  <2>1. shown \in [Procs -> SUBSET Answers] /\ shown[q] \cup {a} \in SUBSET Answers
    BY <1>1, <1>9 DEF TypeOK
  <2> QED BY <1>10, <2>1, ExceptEntry
<1>13. Boxes(inbox', asked)
  BY <1>1, <1>2, TakeKeeps
<1>14. TypeOK'
  BY <1>1, <1>3, <1>12, <1>13 DEF TypeOK, Boxes
<1>15. Counted'
  BY <1>1, <1>3 DEF Counted
<1>16. \A p \in Procs : \A x \in shown'[p] : GoodAnswer(p, x, asked')
  <2> SUFFICES ASSUME NEW p \in Procs, NEW x \in shown'[p] PROVE GoodAnswer(p, x, asked)
    BY <1>3
  <2>1. x \in shown[p] \/ (x = a /\ p = q)
    BY <1>12
  <2> QED BY <1>1, <1>11, <2>1
<1> QED BY <1>3, <1>13, <1>14, <1>15, <1>16 DEF IInv, Boxes

(* A ping and the reply of the other host's kernel.                          *)
LEMMA PingKeeps ==
  ASSUME IInv, NEW p \in Procs, Ping(p)
  PROVE  IInv'
<1>1. TypeOK /\ Counted /\ Boxes(inbox, asked) /\ \A q \in Procs : \A a \in shown[q] : GoodAnswer(q, a, asked)
  BY Parts
<1> DEFINE Echo(type, h) == Packet(type, Pid[p], cnt[p] % SeqMod, << >>, h, p, cnt[p])
<1>2. /\ kind[p] = "myping" /\ cnt' = [cnt EXCEPT ![p] = @ + 1]
      /\ inbox' = Sent(Sent(inbox, Echo(ICMP_ECHO, HostOf[p]), Target[p]),
                       Echo(ICMP_ECHOREPLY, Target[p]), HostOf[p])
      /\ shown' = shown /\ asked' = asked /\ kind' = kind /\ parent' = parent /\ listening' = listening
  BY DEF Ping, draftVars
<1>3. cnt \in [Procs -> Nat] /\ cnt[p] \in Nat
  BY <1>1 DEF TypeOK
<1>4. ASSUME NEW type \in {ICMP_ECHO, ICMP_ECHOREPLY}, NEW h \in Hosts
      PROVE  Echo(type, h) \in Packets /\ \A q \in Procs : GoodPacket(q, Echo(type, h), asked)
  <2>1. type \in Byte /\ type # ICMP_CALC_REQ /\ type # ICMP_CALC_RES
    BY IcmpDraftsAssumption
  <2>2. Pid[p] \in 0 .. Short - 1 /\ cnt[p] % SeqMod \in 0 .. Short - 1
    BY <1>3, IcmpCalcAssumption, SeqFits
  <2>3. << >> \in Seq(Byte) /\ Len(<< >>) =< MsgSize
    BY IcmpCalcAssumption
  <2> DEFINE m == Echo(type, h)
  <2>4. m \in Packets /\ m.type = type /\ AllOnes(Bytes(m.type, m.check, m.id, m.seq, m.msg))
    <3> DEFINE empty == << >>
               s == cnt[p] % SeqMod
    <3>1. empty \in Seq(Byte) /\ Len(empty) =< MsgSize /\ Pid[p] \in 0 .. Short - 1 /\ s \in 0 .. Short - 1
      BY <2>2, <2>3
    <3>2. m = Packet(type, Pid[p], s, empty, h, p, cnt[p])
      OBVIOUS
    <3> HIDE DEF m, empty, s
    <3> QED BY ONLY <1>3, <2>1, <3>1, <3>2, NewPacket
  <2> HIDE DEF m
  <2>5. \A q \in Procs : GoodPacket(q, m, asked)
    BY <2>1, <2>4 DEF GoodPacket
  <2> QED BY <2>4, <2>5 DEF m
<1> HIDE DEF Echo
<1>5. HostOf[p] \in Hosts /\ Target[p] \in Hosts
  BY IcmpCalcAssumption
<1>6. Boxes(inbox', asked)
  <2> DEFINE m == Echo(ICMP_ECHO, HostOf[p])
             n == Echo(ICMP_ECHOREPLY, Target[p])
             b == Sent(inbox, m, Target[p])
  <2>1. m \in Packets /\ n \in Packets /\ \A q \in Procs : GoodPacket(q, m, asked) /\ GoodPacket(q, n, asked)
    BY <1>4, <1>5
  <2>2. inbox' = Sent(b, n, HostOf[p])
    BY <1>2
  <2> HIDE DEF m, n
  <2>3. Boxes(b, asked)
    BY <1>1, <2>1, SendKeeps
  <2> HIDE DEF b
  <2> QED BY <2>1, <2>2, <2>3, SendKeeps
<1>7. cnt' \in [Procs -> Nat] /\ \A q \in Procs : cnt'[q] = IF q = p THEN cnt[p] + 1 ELSE cnt[q]
  BY <1>2, <1>3
<1>8. TypeOK'
  BY <1>1, <1>2, <1>6, <1>7 DEF TypeOK, Boxes
<1>9. Counted'
  <2>1. ASSUME NEW q \in Procs
        PROVE  Len(asked[q]) < cnt'[q] /\ (kind[q] \in Answerers => cnt'[q] = Len(asked[q]) + 1)
    <3>1. Len(asked[q]) < cnt[q] /\ (kind[q] \in Answerers => cnt[q] = Len(asked[q]) + 1)
      BY <1>1 DEF Counted
    <3>2. kind[p] \notin Answerers
      BY <1>2 DEF Answerers, Drafts
    <3>3. asked[q] \in Seq(AllRequests) /\ cnt[q] \in Nat
      BY <1>1 DEF TypeOK
    <3>4. Len(asked[q]) \in Nat
      BY <3>3
    <3> QED BY <1>7, <3>1, <3>2, <3>3, <3>4
  <2> QED BY <1>2, <2>1 DEF Counted
<1>10. \A q \in Procs : \A a \in shown'[q] : GoodAnswer(q, a, asked')
  BY <1>1, <1>2
<1> QED BY <1>2, <1>6, <1>8, <1>9, <1>10 DEF IInv, Boxes

(* A packet is displayed or passed over.                                     *)
LEMMA PassKeeps ==
  ASSUME IInv, NEW q \in Procs, Display(q) \/ PassOver(q)
  PROVE  IInv'
<1>1. PICK m : inbox' = Taken(q, m)
  BY DEF Display, PassOver
<1>2. UNCHANGED <<cnt, shown, asked>> /\ UNCHANGED <<kind, parent, listening>>
  BY DEF Display, PassOver, draftVars
<1>3. Boxes(inbox', asked)
  BY <1>1, Parts, TakeKeeps
<1> QED BY <1>2, <1>3, BoxStep

-----------------------------------------------------------------------------
(* Every action keeps the invariant: the requests, the answers and what is   *)
(* printed, and the drafts' own.                                             *)
LEMMA NextInv == IInv /\ [DNext]_allVars => IInv'
<1> SUFFICES ASSUME IInv, [DNext]_allVars PROVE IInv'
  OBVIOUS
<1>0. TypeOK /\ Boxes(inbox, asked)
  BY Parts
<1>1. CASE UNCHANGED allVars
  BY <1>0, <1>1, BoxStep DEF allVars, vars, draftVars
<1>2. ASSUME NEW p \in Procs, Ask(p) PROVE IInv'
  <2>1. kind[p] \in Answerers /\ Request(p) /\ kind' = kind /\ listening' = listening
    BY <1>2 DEF Ask
  <2>2. parent' \in [Procs -> {"asks", "waits", "gone"}]
    BY <1>0, <1>2 DEF Ask, TypeOK
  <2> QED BY <2>1, <2>2, RequestKeeps
<1>3. ASSUME NEW p \in Procs, Ping(p) PROVE IInv'
  BY <1>3, PingKeeps
<1>4. ASSUME NEW q \in Procs, Respond(q) PROVE IInv'
  BY <1>4, AnswerKeeps DEF Respond, draftVars
<1>5. ASSUME NEW q \in Procs, Prints(q) PROVE IInv'
  <2>1. Show(q) /\ kind' = kind /\ parent' = parent
    BY <1>5 DEF Prints
  <2>2. listening' \in [Procs -> BOOLEAN]
    BY <1>0, <1>5 DEF Prints, TypeOK
  <2> QED BY <2>1, <2>2, ShowKeeps
<1>6. ASSUME NEW q \in Procs, Display(q) \/ PassOver(q) PROVE IInv'
  BY <1>6, PassKeeps
<1>7. ASSUME NEW p \in Procs, Wait(p) PROVE IInv'
  <2>1. UNCHANGED vars /\ kind' = kind /\ listening' = listening /\ parent' = [parent EXCEPT ![p] = "gone"]
    BY <1>7 DEF Wait
  <2>2. TypeOK'
    BY <1>0, <2>1 DEF TypeOK, vars
  <2>3. Counted'
    BY <2>1 DEF IInv, Counted, vars
  <2> QED BY <2>1, <2>2, <2>3 DEF IInv, vars
<1> QED BY <1>1, <1>2, <1>3, <1>4, <1>5, <1>6, <1>7 DEF DNext, Listens

(* IInv holds of every reachable state of the ICMP programs, the final       *)
(* version and its drafts.                                                   *)
THEOREM IcmpInductive == DSpec => []IInv
BY InitInv, NextInv, PTL DEF DSpec

(* Every answer that is printed is the value of a request of the host it is  *)
(* printed on, and its id that of a copy on the host that was asked.         *)
THEOREM IcmpAnswersCorrect == DSpec => []AnswerRight
<1>1. IInv => AnswerRight
  <2> SUFFICES ASSUME IInv, NEW q \in Procs, NEW a \in shown[q]
               PROVE  /\ HostOf[a.by] = HostOf[q] /\ a.n =< Len(asked[a.by])
                      /\ a.result = Value(asked[a.by][a.n])
                      /\ \E r \in Listeners(Target[a.by]) : a.id = Pid[r]
    BY DEF AnswerRight
  <2>1. GoodAnswer(q, a, asked)
    BY DEF IInv
  <2> QED BY <2>1 DEF GoodAnswer, Numbered
<1> QED BY <1>1, IcmpInductive, PTL

(* One copy on a host that has sent no more requests than the header has     *)
(* sequence numbers for: its user can tell the answers apart.                *)
THEOREM UnambiguousCorrect == DSpec => []Unambiguous
<1>1. IInv => Unambiguous
  <2> SUFFICES ASSUME IInv, NEW q \in Procs, Listeners(HostOf[q]) = {q}, cnt[q] - 1 =< SeqMod,
                      NEW a \in shown[q], NEW b \in shown[q]
               PROVE  a.by = q /\ (a.id = b.id /\ a.seq = b.seq => a = b)
    BY DEF Unambiguous
  <2>1. ASSUME NEW x \in shown[q]
        PROVE  /\ x \in Answers /\ x.by = q /\ x.n \in 1 .. SeqMod /\ x.seq = x.n % SeqMod
               /\ x.result = Value(asked[x.by][x.n])
    <3>1. x \in Answers /\ GoodAnswer(q, x, asked)
      BY DEF IInv, TypeOK
    <3>2. x.by \in Procs
      BY <3>1 DEF Answers
    <3>3. x.by = q
      BY <3>1, <3>2 DEF GoodAnswer, Listeners
    <3>4. x.n \in 1 .. Len(asked[q]) /\ Len(asked[q]) < cnt[q] /\ cnt[q] \in Nat /\ Len(asked[q]) \in Nat
      BY <3>1, <3>3 DEF IInv, GoodAnswer, Numbered, Counted, TypeOK
    <3>5. SeqMod \in Nat
      BY IcmpCalcAssumption, Sizes
    <3> QED BY <3>1, <3>3, <3>4, <3>5 DEF GoodAnswer, Numbered
  <2>2. a.seq = b.seq => a.n = b.n
    <3>1. SeqMod \in Nat \ {0}
      BY IcmpCalcAssumption, Sizes
    <3>2. \A s \in Nat \ {0} : \A x \in 1 .. s : x % s = IF x = s THEN 0 ELSE x
      OBVIOUS
    <3> QED BY <2>1, <3>1, <3>2
  <2>3. \A x, y \in Answers : x.id = y.id /\ x.seq = y.seq /\ x.result = y.result /\ x.by = y.by /\ x.n = y.n => x = y
    BY DEF Answers
  <2> QED BY <2>1, <2>2, <2>3
<1> QED BY <1>1, IcmpInductive, PTL

(* Every packet under way verifies: with its checksum the shorts of it add   *)
(* up to all ones, for packets of any even size.                             *)
THEOREM VerifiesCorrect == DSpec => []Verifies
<1>1. IInv => Verifies
  BY DEF IInv, GoodPacket, Verifies
<1> QED BY <1>1, IcmpInductive, PTL
=============================================================================
