----------------------------- MODULE CalcProofs -----------------------------
(* For every width of an int and a byte: an int is read from its bytes as it *)
(* was written, the loop of calculate yields an int, and the frame of a      *)
(* request is parsed into the operands and operators that were typed. The    *)
(* calculators over TCP, UDP and ICMP rest on this.                          *)
(*                                                                           *)
(* The argument. What a loop computes is a function of the turn; such        *)
(* functions exist, by induction over 0 .. N (LoopExists), and what the      *)
(* recursive functions of Calc and CalcFrame choose is one. The digits of a  *)
(* number times their weights add up to it modulo the next weight, and       *)
(* modulo the width of an int that is the number itself, the sign included.  *)
EXTENDS CalcFrame, SequenceLemmas

(* A loop whose turn k makes step[k, x] of x: its values exist.              *)
LoopRuns(f, N, S, a, step) == /\ f \in [0 .. N -> S] /\ f[0] = a
                          /\ \A k \in 1 .. N : f[k] = step[<<k, f[k-1]>>]

LoopSteps(N, S) == [(1 .. N) \X S -> S]

(* By induction over the turns.                                              *)
LEMMA LoopExists ==
  ASSUME NEW N \in Nat, NEW S, NEW a \in S, NEW step \in LoopSteps(N, S)
  PROVE  \E f : LoopRuns(f, N, S, a, step)
<1> USE DEF LoopRuns, LoopSteps
<1> DEFINE Upto(n, f) == /\ f \in [0 .. n -> S] /\ f[0] = a
                         /\ \A k \in 1 .. n : f[k] = step[<<k, f[k-1]>>]
           G == {n \in 0 .. N : \E f : Upto(n, f)}
<1>1. 0 \in G
  <2> DEFINE f == [k \in 0 .. 0 |-> a]
  <2>1. Upto(0, f) /\ 0 \in 0 .. N
    OBVIOUS
  <2> HIDE DEF f, Upto
  <2> QED BY <2>1
<1>2. ASSUME NEW n \in 0 .. N - 1, n \in G PROVE n + 1 \in G
  <2>1. PICK f : Upto(n, f)
    BY <1>2
  <2> DEFINE v == step[<<n + 1, f[n]>>]
             g == [k \in 0 .. n + 1 |-> IF k = n + 1 THEN v ELSE f[k]]
  <2>2. n + 1 \in 1 .. N /\ n + 1 \in 0 .. N /\ n \in Nat /\ n \in 0 .. n /\ f[n] \in S
    BY <2>1
  <2>3. v \in S
    <3>1. <<n + 1, f[n]>> \in (1 .. N) \X S
      BY <2>2
    <3> QED BY ONLY <3>1, step \in [(1 .. N) \X S -> S]
  <2>4. /\ g \in [0 .. n + 1 -> S] /\ g[n + 1] = v
        /\ \A k \in 0 .. n : g[k] = f[k]
    <3> HIDE DEF v
    <3>1. f \in [0 .. n -> S]
      BY <2>1
    <3> QED BY ONLY <2>2, <2>3, <3>1
  <2> HIDE DEF g, G
  <2>5. ASSUME NEW k \in 1 .. n + 1 PROVE g[k] = step[<<k, g[k-1]>>]
    <3>1. CASE k = n + 1
      <4>1. k - 1 = n /\ g[n] = f[n]
        BY <2>2, <2>4, <3>1
      <4> QED BY <2>4, <3>1, <4>1
    <3>2. CASE k \in 1 .. n
      <4>1. k \in 0 .. n /\ k - 1 \in 0 .. n
        BY <2>2, <3>2
      <4>2. f[k] = step[<<k, f[k-1]>>]
        BY <2>1, <3>2
      <4> QED BY <2>4, <4>1, <4>2
    <3> QED BY <2>2, <3>1, <3>2
  <2>6. g[0] = a
    BY <2>1, <2>2, <2>4
  <2>7. Upto(n + 1, g)
    BY <2>4, <2>5, <2>6
  <2> HIDE DEF Upto
  <2> QED BY <2>2, <2>7 DEF G
<1>3. G \in SUBSET (0 .. N)
  OBVIOUS
<1>4. N \in G
  <2> HIDE DEF G
  <2>1. 0 .. N \subseteq G
    BY <1>1, <1>2, <1>3, LoopInduction
  <2> QED BY <2>1
<1> QED BY <1>4

(* The values of a loop have its type.                                       *)
LEMMA LoopTypes ==
  ASSUME NEW N \in Nat, NEW S, NEW F, F = [k \in 0 .. N |-> F[k]],
         F[0] \in S, \A k \in 1 .. N : F[k-1] \in S => F[k] \in S
  PROVE  F \in [0 .. N -> S]
<1> DEFINE G == {k \in 0 .. N : F[k] \in S}
<1>1. 0 \in G /\ G \in SUBSET (0 .. N)
  OBVIOUS
<1>2. ASSUME NEW k \in 0 .. N - 1, k \in G PROVE k + 1 \in G
  <2>1. k + 1 \in 1 .. N /\ (k + 1) - 1 = k
    OBVIOUS
  <2> QED BY <1>2, <2>1
<1>3. 0 .. N \subseteq G
  <2> HIDE DEF G
  <2> QED BY <1>1, <1>2, LoopInduction
<1> QED BY <1>3

(* Doubling gives powers of two: they multiply as their exponents add.       *)
Doubles(F, N) == F = [k \in 0 .. N |-> IF k = 0 THEN 1 ELSE 2 * F[k-1]]

(* A function that doubles from 1 on exists: what TwoTo chooses.             *)
LEMMA DoublesExist ==
  ASSUME NEW N \in Nat
  PROVE  \E f : Doubles(f, N)
<1> DEFINE P == Nat \ {0}
           step == [p \in (1 .. N) \X P |-> 2 * p[2]]
<1>1. step \in LoopSteps(N, P) /\ 1 \in P
  BY DEF LoopSteps
<1>2. PICK g : LoopRuns(g, N, P, 1, step)
  <2> HIDE DEF step, P
  <2> QED BY ONLY <1>1, N \in Nat, LoopExists
<1>3. Doubles(g, N)
  <2>1. g \in [0 .. N -> P] /\ g[0] = 1
    BY <1>2 DEF LoopRuns
  <2>2. ASSUME NEW k \in 1 .. N PROVE g[k] = 2 * g[k-1]
    <3>1. <<k, g[k-1]>> \in (1 .. N) \X P
      BY <2>1
    <3>2. g[k] = step[<<k, g[k-1]>>]
      BY <1>2 DEF LoopRuns
    <3> QED BY <3>1, <3>2
  <2> QED BY <2>1, <2>2 DEF Doubles
<1> QED BY <1>3

(* It turns sums into products.                                              *)
LEMMA Doubling ==
  ASSUME NEW N \in Nat, NEW F, Doubles(F, N)
  PROVE  /\ F \in [0 .. N -> Nat \ {0}] /\ F[0] = 1
         /\ \A k \in 1 .. N : F[k] = 2 * F[k-1]
         /\ \A m, n \in 0 .. N : m + n \in 0 .. N => F[m + n] = F[m] * F[n]
<1> DEFINE P == Nat \ {0}
<1>4. Doubles(F, N)
  OBVIOUS
<1>5. \A k \in 0 .. N : F[k] = IF k = 0 THEN 1 ELSE 2 * F[k-1]
  BY <1>4 DEF Doubles
<1>6. F = [k \in 0 .. N |-> F[k]]
  BY <1>4 DEF Doubles
<1>7. F[0] = 1 /\ \A k \in 1 .. N : F[k] = 2 * F[k-1]
  <2>1. 0 \in 0 .. N /\ \A k \in 1 .. N : k \in 0 .. N /\ k # 0
    OBVIOUS
  <2> QED BY ONLY <1>5, <2>1
<1>8. F \in [0 .. N -> P]
  <2>1. F[0] \in P /\ \A k \in 1 .. N : F[k-1] \in P => F[k] \in P
    BY <1>7
  <2> HIDE DEF P
  <2> QED BY ONLY <1>6, <2>1, N \in Nat, LoopTypes
<1>9. ASSUME NEW m \in 0 .. N PROVE \A n \in 0 .. N : m + n \in 0 .. N => F[m + n] = F[m] * F[n]
  <2> DEFINE G == {n \in 0 .. N : m + n \in 0 .. N => F[m + n] = F[m] * F[n]}
  <2>0. \A k \in 0 .. N : F[k] \in Int
    <3>1. F \in [0 .. N -> P] /\ P \subseteq Int
      BY <1>8
    <3> HIDE DEF P
    <3> QED BY ONLY <3>1
  <2>1. 0 \in G /\ G \in SUBSET (0 .. N)
    <3>1. m + 0 = m /\ 0 \in 0 .. N
      OBVIOUS
    <3>2. F[m] * 1 = F[m]
      BY ONLY <2>0, m \in 0 .. N
    <3> QED BY <1>7, <3>1, <3>2
  <2>2. ASSUME NEW n \in 0 .. N - 1, n \in G PROVE n + 1 \in G
    <3> SUFFICES ASSUME m + (n + 1) \in 0 .. N PROVE F[m + (n + 1)] = F[m] * F[n + 1]
      OBVIOUS
    <3>1. m + (n + 1) \in 1 .. N /\ (m + (n + 1)) - 1 = m + n /\ n + 1 \in 1 .. N /\ (n + 1) - 1 = n
      OBVIOUS
    <3>2. F[m + (n + 1)] = 2 * F[m + n] /\ F[n + 1] = 2 * F[n]
      BY <1>7, <3>1
    <3>3. F[m + n] = F[m] * F[n]
      BY <2>2
    <3>4. F[m] \in Int /\ F[n] \in Int
      <4>1. n \in 0 .. N
        OBVIOUS
      <4> QED BY ONLY <2>0, <4>1, m \in 0 .. N
    <3>5. \A x, y \in Int : 2 * (x * y) = x * (2 * y)
      OBVIOUS
    <3> QED BY ONLY <3>2, <3>3, <3>4, <3>5
  <2>3. 0 .. N \subseteq G
    <3> HIDE DEF G
    <3> QED BY ONLY <2>1, <2>2, N \in Nat, LoopInduction
  <2> QED BY <2>3
<1> QED BY <1>7, <1>8, <1>9

-----------------------------------------------------------------------------
(* A remainder may be taken before something is added, or after.             *)
LEMMA ModSum ==
  ASSUME NEW M \in Nat \ {0}, NEW x \in Int, NEW y \in Int
  PROVE  x % M \in 0 .. M - 1 /\ ((x % M) + y) % M = (x + y) % M
<1> DEFINE q == x \div M
           r == x % M
           p == (r + y) \div M
           d == (r + y) % M
<1>1. q \in Int /\ r \in 0 .. M - 1 /\ x = M * q + r
  OBVIOUS
<1>2. p \in Int /\ d \in 0 .. M - 1 /\ r + y = M * p + d
  BY <1>1
<1> HIDE DEF q, r, p, d
<1>3. x + y = M * (q + p) + d
  <2>1. \A a, b, c \in Int : a * (b + c) = a * b + a * c
    OBVIOUS
  <2>2. M * (q + p) = M * q + M * p /\ M * q \in Int /\ M * p \in Int
    BY ONLY <1>1, <1>2, <2>1, M \in Int
  <2> QED BY <1>1, <1>2, <2>2
<1>4. (x + y) % M = d
  <2>1. \A m \in Nat \ {0} : \A a \in Int : \A b \in 0 .. m - 1 : (m * a + b) % m = b
    OBVIOUS
  <2>2. q + p \in Int
    BY <1>1, <1>2
  <2> QED BY ONLY <1>2, <1>3, <2>1, <2>2, M \in Nat \ {0}
<1> QED BY <1>1, <1>4 DEF r, d

(* A number in base b: what is left of it after division by one weight, and  *)
(* its next digit, make what is left after division by the next weight.      *)
LEMMA NextDigit ==
  ASSUME NEW b \in Nat \ {0}, NEW w \in Nat \ {0}, NEW n \in Int
  PROVE  /\ w * b \in Nat \ {0}
         /\ n % (w * b) = (n % w) + ((n \div w) % b) * w
<1> DEFINE q == n \div w
           r == n % w
           p == q \div b
           d == q % b
<1>1. q \in Int /\ r \in 0 .. w - 1 /\ n = w * q + r
  OBVIOUS
<1>2. p \in Int /\ d \in 0 .. b - 1 /\ q = b * p + d
  BY <1>1
<1> HIDE DEF q, r, p, d
<1>3. w * b \in Nat \ {0}
  OBVIOUS
<1>4. w * q = (w * b) * p + d * w
  <2>1. \A x, y, z, v \in Int : x * (y * z + v) = (x * y) * z + v * x
    OBVIOUS
  <2> QED BY ONLY <1>2, <2>1, w \in Int, b \in Int
<1>5. d * w + r \in 0 .. (w * b) - 1
  <2>1. d * w \in Nat /\ d * w + w =< b * w
    <3>1. \A x, y \in Int : x < y => x * w + w =< y * w
      OBVIOUS
    <3> QED BY ONLY <1>2, <3>1, w \in Nat, b \in Nat
  <2>2. b * w = w * b
    OBVIOUS
  <2> QED BY ONLY <1>1, <1>3, <2>1, <2>2, w \in Nat
<1>6. n = (w * b) * p + (d * w + r)
  <2>1. (w * b) * p \in Int /\ d * w \in Int
    BY ONLY <1>2, w \in Int, b \in Int
  <2> QED BY ONLY <1>1, <1>4, <2>1
<1>7. n % (w * b) = d * w + r
  <2>1. \A m \in Nat \ {0} : \A x \in Int : \A y \in 0 .. m - 1 : (m * x + y) % m = y
    OBVIOUS
  <2> QED BY ONLY <1>2, <1>3, <1>5, <1>6, <2>1
<1>8. d * w \in Int
  BY ONLY <1>2, w \in Int
<1>9. d * w + r = r + d * w
  BY ONLY <1>1, <1>8
<1> QED BY <1>3, <1>7, <1>9 DEF q, r, d

(* The same for every weight: a loop that adds up digits times weights.      *)
AreWeights(w, m, b) == /\ w \in [0 .. m -> Nat \ {0}] /\ w[0] = 1
                       /\ \A k \in 1 .. m : w[k] = w[k-1] * b
AddsDigits(s, m, n, w, b) ==
  s[0] = 0 /\ \A k \in 1 .. m : s[k] = s[k-1] + ((n \div w[k-1]) % b) * w[k-1]

(* After k turns the sum is the number modulo the k-th weight.               *)
LEMMA Digits ==
  ASSUME NEW b \in Nat \ {0}, NEW m \in Nat, NEW n \in Int,
         NEW w, AreWeights(w, m, b), NEW s, AddsDigits(s, m, n, w, b)
  PROVE  \A k \in 0 .. m : s[k] = n % w[k]
<1> USE DEF AreWeights, AddsDigits
<1> DEFINE G == {k \in 0 .. m : s[k] = n % w[k]}
<1>1. 0 \in G /\ G \in SUBSET (0 .. m)
  <2>1. n % 1 = 0
    OBVIOUS
  <2> QED BY <2>1
<1>2. ASSUME NEW k \in 0 .. m - 1, k \in G PROVE k + 1 \in G
  <2>1. k + 1 \in 1 .. m /\ (k + 1) - 1 = k /\ w[k] \in Nat \ {0} /\ s[k] = n % w[k]
    BY <1>2
  <2>2. w[k + 1] = w[k] * b /\ s[k + 1] = s[k] + ((n \div w[k]) % b) * w[k]
    BY <2>1
  <2>3. n % (w[k] * b) = (n % w[k]) + ((n \div w[k]) % b) * w[k]
    BY ONLY <2>1, n \in Int, b \in Nat \ {0}, NextDigit
  <2> QED BY <2>1, <2>2, <2>3
<1>3. 0 .. m \subseteq G
  <2> HIDE DEF G
  <2> QED BY ONLY <1>1, <1>2, m \in Nat, LoopInduction
<1> QED BY <1>3

-----------------------------------------------------------------------------
USE WordBitsAssumption, CalcFrameAssumption

(* TwoTo is such a function.                                                 *)
LEMMA Powers ==
  /\ TwoTo \in [0 .. WordBits -> Nat \ {0}] /\ TwoTo[0] = 1
  /\ \A k \in 1 .. WordBits : TwoTo[k] = 2 * TwoTo[k-1]
  /\ \A m, n \in 0 .. WordBits : m + n \in 0 .. WordBits => TwoTo[m + n] = TwoTo[m] * TwoTo[n]
<1>1. WordBits \in Nat
  OBVIOUS
<1>2. Doubles(TwoTo, WordBits)
  <2> DEFINE Is(f) == Doubles(f, WordBits)
  <2>1. TwoTo = CHOOSE f : Is(f)
    BY DEF TwoTo, Doubles
  <2>2. PICK g : Is(g)
    BY <1>1, DoublesExist
  <2> HIDE DEF Is
  <2>3. Is(TwoTo)
    BY <2>1, <2>2
  <2> QED BY <2>3 DEF Is
<1> QED BY ONLY <1>1, <1>2, Doubling

Half == TwoTo[WordBits - 1]

(* The widest power is twice the bound of the signed numbers.                *)
LEMMA Halves ==
  /\ Half \in Nat \ {0} /\ TwoTo[WordBits] = 2 * Half
  /\ \A n : Wrap(n) = ((n + Half) % (2 * Half)) - Half
<1>1. WordBits \in 1 .. WordBits /\ WordBits - 1 \in 0 .. WordBits
  OBVIOUS
<1> QED BY <1>1, Powers DEF Half, Wrap

(* What an int holds.                                                        *)
LEMMA Wrapped ==
  ASSUME NEW n \in Int
  PROVE  /\ Wrap(n) \in Int /\ Wrap(Wrap(n)) = Wrap(n)
         /\ Wrap(n % TwoTo[WordBits]) = Wrap(n)
         /\ n = -1 => Wrap(n) = n
<1>1. PICK h \in Nat \ {0} : h = Half /\ TwoTo[WordBits] = 2 * h /\ \A k : Wrap(k) = ((k + h) % (2 * h)) - h
  BY Halves
<1>2. \A M \in Nat \ {0} : \A x, y \in Int : (x % M) \in 0 .. M - 1 /\ ((x % M) + y) % M = (x + y) % M
  BY ModSum
<1>3. 2 * h \in Nat \ {0}
  OBVIOUS
<1>4. Wrap(n) \in Int
  BY <1>1, <1>2, <1>3
<1>5. Wrap(Wrap(n)) = Wrap(n)
  <2>1. \A x \in 0 .. (2 * h) - 1 : x % (2 * h) = x
    OBVIOUS
  <2>2. (n + h) % (2 * h) \in 0 .. (2 * h) - 1
    BY <1>2, <1>3
  <2>3. (((n + h) % (2 * h)) - h) + h = (n + h) % (2 * h)
    BY <2>2
  <2> QED BY <1>1, <2>1, <2>2, <2>3
<1>6. Wrap(n % TwoTo[WordBits]) = Wrap(n)
  <2>1. ((n % (2 * h)) + h) % (2 * h) = (n + h) % (2 * h)
    <3>1. \A M \in Nat \ {0} : M = 2 * h => ((n % M) + h) % M = (n + h) % M
      <4>1. n \in Int /\ h \in Int
        OBVIOUS
      <4> QED BY ONLY <1>2, <4>1, Zenon
    <3> QED BY <1>3, <3>1
  <2> QED BY <1>1, <2>1
<1>7. n = -1 => Wrap(n) = n
  <2>1. (-1 + h) % (2 * h) = h - 1
    OBVIOUS
  <2> QED BY <1>1, <2>1
<1> QED BY <1>4, <1>5, <1>6, <1>7

(* The weights of an int's bytes.                                            *)
Weight == [k \in 0 .. IntBytes |-> TwoTo[ByteBits * k]]

(* The weights of the bytes of an int.                                       *)
LEMMA Weights ==
  /\ Base \in Nat \ {0} /\ Weight \in [0 .. IntBytes -> Nat \ {0}]
  /\ Weight[0] = 1 /\ Weight[IntBytes] = TwoTo[WordBits]
  /\ \A k \in 1 .. IntBytes : Weight[k] = Weight[k-1] * Base
<1>1. ASSUME NEW k \in 0 .. IntBytes PROVE ByteBits * k \in 0 .. WordBits
  <2>1. \A x, y, z \in Nat : y =< z => x * y =< x * z /\ x * y \in Nat
    OBVIOUS
  <2>2. ByteBits \in Nat /\ k \in Nat /\ IntBytes \in Nat /\ k =< IntBytes
    OBVIOUS
  <2>3. ByteBits * k =< ByteBits * IntBytes /\ ByteBits * k \in Nat
    BY ONLY <2>1, <2>2
  <2>4. WordBits \in Nat /\ WordBits = ByteBits * IntBytes
    OBVIOUS
  <2> QED BY ONLY <2>3, <2>4
<1>2. /\ 0 \in 0 .. IntBytes /\ 1 \in 0 .. IntBytes /\ IntBytes \in 0 .. IntBytes
      /\ ByteBits * 0 = 0 /\ ByteBits * 1 = ByteBits
  OBVIOUS
<1>3. ByteBits \in 0 .. WordBits
  BY <1>1, <1>2
<1>4. Base \in Nat \ {0}
  BY <1>3, Powers DEF Base
<1>5. Weight \in [0 .. IntBytes -> Nat \ {0}]
  BY <1>1, Powers DEF Weight
<1>6. Weight[0] = 1 /\ Weight[IntBytes] = TwoTo[WordBits]
  BY <1>2, Powers DEF Weight
<1>7. ASSUME NEW k \in 1 .. IntBytes PROVE Weight[k] = Weight[k-1] * Base
  <2>1. k \in 0 .. IntBytes /\ k - 1 \in 0 .. IntBytes
    OBVIOUS
  <2>2. ByteBits * k = ByteBits * (k - 1) + ByteBits
    <3>1. ByteBits \in Int /\ k \in Int
      OBVIOUS
    <3> QED BY ONLY <3>1
  <2>3. ByteBits * k \in 0 .. WordBits /\ ByteBits * (k - 1) \in 0 .. WordBits
    BY <1>1, <2>1
  <2>4. TwoTo[ByteBits * k] = TwoTo[ByteBits * (k - 1)] * TwoTo[ByteBits]
    BY ONLY <1>3, <2>2, <2>3, Powers
  <2> QED BY <2>1, <2>4 DEF Weight, Base
<1> QED BY <1>4, <1>5, <1>6, <1>7

(* A byte is a number below Base.                                            *)
LEMMA Bytewise ==
  /\ Base \in Nat \ {0} /\ Byte \subseteq Int
  /\ \A n \in Int : n % Base \in Byte
  /\ \A n \in Int : n \in Byte <=> 0 =< n /\ n < Base
<1>1. Base \in Nat \ {0}
  BY Weights
<1> QED BY <1>1 DEF Byte

(* The bytes an int is written in: its digits.                               *)
LEMMA LittleBytes ==
  ASSUME NEW n \in Int
  PROVE  /\ Little(n) \in [1 .. IntBytes -> Byte]
         /\ \A k \in 1 .. IntBytes : Little(n)[k] = (n \div Weight[k-1]) % Base
<1>1. ASSUME NEW k \in 1 .. IntBytes
      PROVE  /\ TwoTo[ByteBits * (k-1)] = Weight[k-1]
             /\ (n \div Weight[k-1]) % Base \in Byte
  <2>1. k - 1 \in 0 .. IntBytes
    OBVIOUS
  <2>2. Weight[k-1] \in Nat \ {0}
    BY <2>1, Weights
  <2>3. n \div Weight[k-1] \in Int
    BY <2>2
  <2> QED BY <2>1, <2>3, Bytewise DEF Weight
<1> QED BY <1>1 DEF Little

(* The loop that puts an int together.                                       *)
ByteSums(b) ==
  LET sum[k \in 0 .. IntBytes] ==
        IF k = 0 THEN 0 ELSE sum[k-1] + b[k] * TwoTo[ByteBits * (k-1)]
  IN sum

(* What reading them adds up, byte by byte.                                  *)
LEMMA SumsOfBytes ==
  ASSUME NEW b, \A k \in 1 .. IntBytes : b[k] \in Int
  PROVE  /\ ByteSums(b) \in [0 .. IntBytes -> Int] /\ ByteSums(b)[0] = 0
         /\ \A k \in 1 .. IntBytes : ByteSums(b)[k] = ByteSums(b)[k-1] + b[k] * Weight[k-1]
         /\ IntOf(b) = Wrap(ByteSums(b)[IntBytes])
<1> DEFINE w(k) == TwoTo[ByteBits * (k-1)]
           step == [p \in (1 .. IntBytes) \X Int |-> p[2] + b[p[1]] * w(p[1])]
           Is(f) == f = [k \in 0 .. IntBytes |-> IF k = 0 THEN 0 ELSE f[k-1] + b[k] * w(k)]
<1>0. ASSUME NEW k \in 1 .. IntBytes PROVE b[k] \in Int /\ w(k) \in Int /\ w(k) = Weight[k-1]
  <2>1. k - 1 \in 0 .. IntBytes
    OBVIOUS
  <2>2. Weight[k-1] \in Nat \ {0}
    BY <2>1, Weights
  <2> QED BY <2>1, <2>2 DEF Weight
<1> HIDE DEF w
<1>1. step \in LoopSteps(IntBytes, Int)
  <2>1. ASSUME NEW p \in (1 .. IntBytes) \X Int PROVE p[2] + b[p[1]] * w(p[1]) \in Int
    <3>1. p[1] \in 1 .. IntBytes /\ p[2] \in Int
      OBVIOUS
    <3>2. b[p[1]] \in Int /\ w(p[1]) \in Int
      BY <1>0, <3>1
    <3> QED BY ONLY <3>1, <3>2
  <2> QED BY <2>1 DEF LoopSteps
<1>2. PICK g : LoopRuns(g, IntBytes, Int, 0, step)
  <2> HIDE DEF step
  <2>1. IntBytes \in Nat /\ 0 \in Int
    OBVIOUS
  <2> QED BY ONLY <1>1, <2>1, LoopExists
<1>3. Is(g)
  <2>1. g \in [0 .. IntBytes -> Int] /\ g[0] = 0
    BY <1>2 DEF LoopRuns
  <2>2. ASSUME NEW k \in 1 .. IntBytes PROVE g[k] = g[k-1] + b[k] * w(k)
    <3>1. <<k, g[k-1]>> \in (1 .. IntBytes) \X Int
      BY <2>1
    <3>2. g[k] = step[<<k, g[k-1]>>]
      BY <1>2 DEF LoopRuns
    <3> QED BY <3>1, <3>2
  <2> HIDE DEF step
  <2> QED BY <2>1, <2>2
<1> DEFINE F == ByteSums(b)
<1>4. Is(F)
  <2>1. F = CHOOSE f : Is(f)
    BY DEF ByteSums, w
  <2> HIDE DEF Is, F
  <2> QED BY <1>3, <2>1
<1> HIDE DEF F, step
<1>5. F = [k \in 0 .. IntBytes |-> F[k]]
  BY <1>4
<1>6. F[0] = 0 /\ \A k \in 1 .. IntBytes : F[k] = F[k-1] + b[k] * w(k)
  BY <1>4
<1> HIDE DEF Is
<1>7. F \in [0 .. IntBytes -> Int]
  <2>1. \A k \in 1 .. IntBytes : F[k-1] \in Int => F[k] \in Int
    BY <1>0, <1>6
  <2>2. F[0] \in Int /\ IntBytes \in Nat
    BY <1>6
  <2> QED BY ONLY <1>5, <2>1, <2>2, LoopTypes
<1>8. IntOf(b) = Wrap(F[IntBytes])
  BY DEF IntOf, F, ByteSums
<1> QED BY <1>0, <1>6, <1>7, <1>8 DEF F

(* What was an int comes back as it was.                                     *)
LEMMA IntOfInt ==
  ASSUME NEW b, \A k \in 1 .. IntBytes : b[k] \in Int
  PROVE  IntOf(b) \in Int /\ Wrap(IntOf(b)) = IntOf(b)
<1>1. ByteSums(b)[IntBytes] \in Int /\ IntOf(b) = Wrap(ByteSums(b)[IntBytes])
  <2>1. IntBytes \in 0 .. IntBytes
    OBVIOUS
  <2> QED BY <2>1, SumsOfBytes
<1> QED BY <1>1, Wrapped

(* An int that was written is read as it was.                                *)
LEMMA RoundTrip ==
  ASSUME NEW n \in Int, NEW b, \A k \in 1 .. IntBytes : b[k] = Little(n)[k]
  PROVE  IntOf(b) = Wrap(n)
<1>1. \A k \in 1 .. IntBytes : b[k] = (n \div Weight[k-1]) % Base /\ b[k] \in Int
  BY LittleBytes, Bytewise
<1> DEFINE s == ByteSums(b)
<1>2. /\ s[0] = 0 /\ IntOf(b) = Wrap(s[IntBytes])
      /\ \A k \in 1 .. IntBytes : s[k] = s[k-1] + b[k] * Weight[k-1]
  BY <1>1, SumsOfBytes
<1> HIDE DEF s
<1>3. \A k \in 1 .. IntBytes : s[k] = s[k-1] + ((n \div Weight[k-1]) % Base) * Weight[k-1]
  BY <1>1, <1>2
<1>4. IntBytes \in Nat /\ IntBytes \in 0 .. IntBytes
  OBVIOUS
<1>5. \A k \in 0 .. IntBytes : s[k] = n % Weight[k]
  <2>1. AreWeights(Weight, IntBytes, Base) /\ Base \in Nat \ {0}
    BY Weights DEF AreWeights
  <2>2. AddsDigits(s, IntBytes, n, Weight, Base)
    BY <1>2, <1>3 DEF AddsDigits
  <2> QED BY ONLY <1>4, <2>1, <2>2, n \in Int, Digits
<1>6. s[IntBytes] = n % TwoTo[WordBits]
  BY <1>4, <1>5, Weights
<1> QED BY <1>2, <1>6, Wrapped

(* The count in a char.                                                      *)
LEMMA Chars ==
  ASSUME NEW n \in Int
  PROVE  /\ MaxChar \in Nat /\ 2 * MaxChar + 2 = Base
         /\ Char(n) \in -(MaxChar + 1) .. MaxChar
         /\ Char(n % Base) = Char(n)
         /\ n \in -(MaxChar + 1) .. MaxChar => Char(n) = n
<1>1. PICK d \in Nat \ {0} : Base = 2 * d
  <2>1. ByteBits \in 1 .. WordBits
    <3>1. ByteBits \in Nat \ {0} /\ IntBytes \in Nat \ {0} /\ WordBits = ByteBits * IntBytes
      OBVIOUS
    <3>2. \A x, y \in Nat \ {0} : x =< x * y
      OBVIOUS
    <3> QED BY ONLY <3>1, <3>2
  <2>2. TwoTo[ByteBits] = 2 * TwoTo[ByteBits - 1] /\ ByteBits - 1 \in 0 .. WordBits
    <3>1. ByteBits - 1 \in 0 .. WordBits
      BY <2>1
    <3> QED BY ONLY <2>1, <3>1, Powers
  <2>3. TwoTo[ByteBits - 1] \in Nat \ {0}
    BY <2>2, Powers
  <2> QED BY <2>2, <2>3 DEF Base
<1>2. Base \div 2 = d /\ MaxChar = d - 1
  BY <1>1 DEF MaxChar
<1>3. \A k : Char(k) = ((k + d) % (2 * d)) - d
  BY <1>1, <1>2 DEF Char
<1>4. \A M \in Nat \ {0} : \A x, y \in Int : (x % M) \in 0 .. M - 1 /\ ((x % M) + y) % M = (x + y) % M
  BY ModSum
<1>5. 2 * d \in Nat \ {0}
  OBVIOUS
<1>6. Char(n) \in -(MaxChar + 1) .. MaxChar
  <2>1. (n + d) % (2 * d) \in 0 .. (2 * d) - 1
    <3>1. \A M \in Nat \ {0} : M = 2 * d => (n + d) % M \in 0 .. M - 1
      BY <1>4
    <3> QED BY <1>5, <3>1
  <2> QED BY <1>2, <1>3, <2>1
<1>7. Char(n % Base) = Char(n)
  <2>1. ((n % (2 * d)) + d) % (2 * d) = (n + d) % (2 * d)
    <3>1. \A M \in Nat \ {0} : M = 2 * d => ((n % M) + d) % M = (n + d) % M
      <4>1. n \in Int /\ d \in Int
        OBVIOUS
      <4> QED BY ONLY <1>4, <4>1, Zenon
    <3> QED BY <1>5, <3>1
  <2> QED BY <1>1, <1>3, <2>1
<1>8. n \in -(MaxChar + 1) .. MaxChar => Char(n) = n
  <2>1. \A x \in 0 .. (2 * d) - 1 : x % (2 * d) = x
    OBVIOUS
  <2> QED BY <1>2, <1>3, <2>1
<1> QED BY <1>1, <1>2, <1>6, <1>7, <1>8

-----------------------------------------------------------------------------
(* The loop of calculate works on ints and leaves an int.                    *)
IsExpression(e) == /\ Len(e.operator) \in Nat
                   /\ \A k \in 1 .. Len(e.operator) + 1 : e.operand[k] \in Int

(* The values after each turn of the loop.                                   *)
LEMMA Partials ==
  ASSUME NEW e, IsExpression(e)
  PROVE  /\ Partial(e) \in [0 .. Len(e.operator) -> Int] /\ Partial(e)[0] = e.operand[1]
         /\ \A k \in 1 .. Len(e.operator) :
              Partial(e)[k] = Wrap(Apply(e.operator[k], Partial(e)[k-1], e.operand[k+1]))
<1> DEFINE N == Len(e.operator)
           turn(k, x) == Wrap(Apply(e.operator[k], x, e.operand[k+1]))
           step == [p \in (1 .. N) \X Int |-> turn(p[1], p[2])]
           Is(f) == f = [k \in 0 .. N |-> IF k = 0 THEN e.operand[1] ELSE turn(k, f[k-1])]
<1>0. /\ N \in Nat /\ e.operand[1] \in Int
      /\ \A k \in 1 .. N : \A x \in Int : turn(k, x) \in Int
  <2>1. N \in Nat /\ \A k \in 1 .. N + 1 : e.operand[k] \in Int
    BY DEF IsExpression
  <2> HIDE DEF N
  <2>2. e.operand[1] \in Int
    BY <2>1
  <2>3. ASSUME NEW k \in 1 .. N, NEW x \in Int PROVE turn(k, x) \in Int
    <3>1. e.operand[k+1] \in Int
      BY <2>1
    <3>2. \A a, b \in Int : \A op : Apply(op, a, b) \in Int
      BY DEF Apply
    <3>3. Apply(e.operator[k], x, e.operand[k+1]) \in Int
      BY ONLY <3>1, <3>2, x \in Int
    <3> QED BY <3>3, Wrapped
  <2> QED BY <2>1, <2>2, <2>3
<1> HIDE DEF N, turn
<1>1. step \in LoopSteps(N, Int)
  <2>1. ASSUME NEW p \in (1 .. N) \X Int PROVE turn(p[1], p[2]) \in Int
    <3>1. p[1] \in 1 .. N /\ p[2] \in Int
      OBVIOUS
    <3> QED BY ONLY <1>0, <3>1
  <2> QED BY <2>1 DEF LoopSteps
<1>2. PICK g : LoopRuns(g, N, Int, e.operand[1], step)
  <2> HIDE DEF step
  <2> QED BY ONLY <1>0, <1>1, LoopExists
<1>3. Is(g)
  <2>1. g \in [0 .. N -> Int] /\ g[0] = e.operand[1]
    BY <1>2 DEF LoopRuns
  <2>2. ASSUME NEW k \in 1 .. N PROVE g[k] = turn(k, g[k-1])
    <3>0. k - 1 \in 0 .. N
      BY ONLY <1>0, k \in 1 .. N
    <3>1. <<k, g[k-1]>> \in (1 .. N) \X Int
      BY ONLY <2>1, <3>0, k \in 1 .. N
    <3>2. g[k] = step[<<k, g[k-1]>>]
      BY <1>2 DEF LoopRuns
    <3> QED BY <3>1, <3>2
  <2> HIDE DEF step
  <2> QED BY <1>0, <2>1, <2>2
<1> DEFINE F == Partial(e)
<1>4. Is(F)
  <2>1. F = CHOOSE f : Is(f)
    BY DEF Partial, turn, N
  <2> HIDE DEF Is, F
  <2> QED BY <1>3, <2>1
<1> HIDE DEF F, step
<1>5. F = [k \in 0 .. N |-> F[k]]
  BY <1>4
<1>6. F[0] = e.operand[1] /\ \A k \in 1 .. N : F[k] = turn(k, F[k-1])
  <2>1. \A k \in 0 .. N : F[k] = IF k = 0 THEN e.operand[1] ELSE turn(k, F[k-1])
    BY <1>4
  <2>2. 0 \in 0 .. N /\ \A k \in 1 .. N : k \in 0 .. N /\ k # 0
    BY ONLY <1>0
  <2> QED BY ONLY <2>1, <2>2
<1> HIDE DEF Is
<1>7. F \in [0 .. N -> Int]
  <2>1. \A k \in 1 .. N : F[k-1] \in Int => F[k] \in Int
    BY <1>0, <1>6
  <2>2. F[0] \in Int
    BY <1>0, <1>6
  <2> QED BY ONLY <1>0, <1>5, <2>1, <2>2, LoopTypes
<1> QED BY <1>6, <1>7 DEF F, N, turn

(* The result is an int.                                                     *)
LEMMA CalculateInt ==
  ASSUME NEW e, IsExpression(e)
  PROVE  /\ Calculate(e) \in Int
         /\ Wrap(e.operand[1]) = e.operand[1] => Wrap(Calculate(e)) = Calculate(e)
<1> DEFINE N == Len(e.operator)
           F == Partial(e)
<1>1. /\ N \in Nat /\ F \in [0 .. N -> Int] /\ F[0] = e.operand[1]
      /\ \A k \in 1 .. N : F[k] = Wrap(Apply(e.operator[k], F[k-1], e.operand[k+1]))
  BY Partials DEF IsExpression
<1>2. \A k \in 1 .. N : e.operand[k+1] \in Int
  BY DEF IsExpression
<1>3. Calculate(e) = F[N]
  BY DEF Calculate
<1> HIDE DEF F, N
<1>4. F[N] \in Int
  BY <1>1
<1>5. CASE N = 0
  BY <1>1, <1>3, <1>4, <1>5
<1>6. CASE N # 0
  <2>1. N \in 1 .. N /\ N - 1 \in 0 .. N
    BY <1>1, <1>6
  <2> DEFINE v == Apply(e.operator[N], F[N-1], e.operand[N+1])
  <2>2. F[N-1] \in Int /\ e.operand[N+1] \in Int /\ F[N] = Wrap(v)
    BY <1>1, <1>2, <2>1
  <2>3. v \in Int
    BY <2>2 DEF Apply
  <2> HIDE DEF v
  <2> QED BY <1>3, <1>4, <2>2, <2>3, Wrapped
<1> QED BY <1>5, <1>6

-----------------------------------------------------------------------------
(* A request in its frame: the count, the operands and the operators.        *)
Typed(r) == r.count \in Int /\ r.operand \in Seq(Int) /\ r.operator \in Seq(Byte)

(* The place of byte k of block i, and back.                                 *)
LEMMA PlaceInBlocks ==
  ASSUME NEW w \in Nat \ {0}, NEW n \in Nat, NEW i \in 1 .. n, NEW k \in 1 .. w
  PROVE  LET j == (i-1) * w + k
         IN /\ j \in 1 .. n * w /\ ((j-1) \div w) + 1 = i /\ ((j-1) % w) + 1 = k
<1> DEFINE j == (i-1) * w + k
<1>1. (i-1) * w \in Nat /\ (i-1) * w + w =< n * w
  <2>1. \A x, y \in Nat : x < y => x * w \in Nat /\ x * w + w =< y * w
    OBVIOUS
  <2>2. i - 1 \in Nat /\ i - 1 < n /\ n \in Nat
    OBVIOUS
  <2> QED BY ONLY <2>1, <2>2
<1>2. j \in 1 .. n * w
  <2>1. n * w \in Nat
    OBVIOUS
  <2> QED BY ONLY <1>1, <2>1, k \in 1 .. w, w \in Nat \ {0}
<1>3. ((j-1) \div w) = i - 1 /\ (j-1) % w = k - 1
  <2>1. \A m \in Nat \ {0} : \A x \in Int : \A y \in 0 .. m - 1 :
          (m * x + y) % m = y /\ (m * x + y) \div m = x
    OBVIOUS
  <2>2. i - 1 \in Int /\ k - 1 \in 0 .. w - 1
    OBVIOUS
  <2>3. (w * (i-1) + (k-1)) % w = k - 1 /\ (w * (i-1) + (k-1)) \div w = i - 1
    BY ONLY <2>1, <2>2, w \in Nat \ {0}
  <2>4. j - 1 = w * (i-1) + (k-1)
    <3>1. \A x, y, z \in Int : (x * y + z) - 1 = y * x + (z - 1)
      OBVIOUS
    <3> QED BY ONLY <2>2, <3>1, w \in Nat \ {0}, k \in 1 .. w
  <2> QED BY <2>3, <2>4
<1> QED BY <1>2, <1>3

(* Every place is in a block.                                                *)
LEMMA BlockOfPlace ==
  ASSUME NEW w \in Nat \ {0}, NEW n \in Nat, NEW j \in 1 .. n * w
  PROVE  ((j-1) \div w) + 1 \in 1 .. n /\ ((j-1) % w) + 1 \in 1 .. w
<1> DEFINE q == (j-1) \div w
           r == (j-1) % w
<1>1. q \in Int /\ r \in 0 .. w - 1 /\ j - 1 = w * q + r
  <2>1. j - 1 \in Int
    OBVIOUS
  <2> QED BY <2>1
<1>2. n * w \in Nat /\ j - 1 < n * w /\ j - 1 >= 0
  OBVIOUS
<1> HIDE DEF q, r
<1>3. q >= 0
  <2>1. \A x \in Int : x < 0 => w * x + w =< 0
    OBVIOUS
  <2>2. w * q \in Int
    BY <1>1
  <2> QED BY ONLY <1>1, <1>2, <2>1, <2>2, w \in Nat \ {0}
<1>4. q < n
  <2>1. \A x \in Int : x >= n => w * x >= n * w
    OBVIOUS
  <2>2. w * q \in Int
    BY <1>1
  <2> QED BY ONLY <1>1, <1>2, <2>1, <2>2, w \in Nat \ {0}, n \in Nat
<1> QED BY <1>1, <1>3, <1>4 DEF q, r

(* The operands of a request, byte by byte.                                  *)
LEMMA OperandBytes ==
  ASSUME NEW r, Typed(r)
  PROVE  /\ Operands(r) \in Seq(Byte) /\ Len(Operands(r)) = Len(r.operand) * IntBytes
         /\ \A i \in 1 .. Len(r.operand) : \A k \in 1 .. IntBytes :
              /\ (i-1) * IntBytes + k \in 1 .. Len(Operands(r))
              /\ Operands(r)[(i-1) * IntBytes + k] = Little(r.operand[i])[k]
<1> DEFINE n == Len(r.operand)
           w == IntBytes
           at(j) == Little(r.operand[((j-1) \div w) + 1])[((j-1) % w) + 1]
<1>1. n \in Nat /\ w \in Nat \ {0} /\ n * w \in Nat /\ \A i \in 1 .. n : r.operand[i] \in Int
  BY DEF Typed
<1>2. Operands(r) = [j \in 1 .. n * w |-> at(j)]
  BY DEF Operands
<1> HIDE DEF n, w
<1>3. ASSUME NEW j \in 1 .. n * w PROVE at(j) \in Byte
  <2>1. ((j-1) \div w) + 1 \in 1 .. n /\ ((j-1) % w) + 1 \in 1 .. w
    BY ONLY <1>1, j \in 1 .. n * w, BlockOfPlace
  <2> QED BY <1>1, <2>1, LittleBytes DEF w
<1>4. ASSUME NEW i \in 1 .. n, NEW k \in 1 .. w
      PROVE  (i-1) * w + k \in 1 .. n * w /\ at((i-1) * w + k) = Little(r.operand[i])[k]
  <2> DEFINE j == (i-1) * w + k
  <2>1. j \in 1 .. n * w /\ ((j-1) \div w) + 1 = i /\ ((j-1) % w) + 1 = k
    BY ONLY <1>1, i \in 1 .. n, k \in 1 .. w, PlaceInBlocks
  <2> HIDE DEF j
  <2>2. at(j) = Little(r.operand[i])[k]
    BY <2>1
  <2> QED BY <2>1, <2>2 DEF j
<1> HIDE DEF at
<1>5. Operands(r) \in Seq(Byte) /\ Len(Operands(r)) = n * w
  BY <1>1, <1>2, <1>3
<1>6. \A i \in 1 .. n : \A k \in 1 .. w :
        /\ (i-1) * w + k \in 1 .. Len(Operands(r))
        /\ Operands(r)[(i-1) * w + k] = Little(r.operand[i])[k]
  BY <1>2, <1>4, <1>5
<1> QED BY <1>5, <1>6 DEF n, w

(* The frame of a request, byte by byte.                                     *)
LEMMA FrameBytes ==
  ASSUME NEW r, Typed(r)
  PROVE  LET n == Len(r.operand) * IntBytes
         IN /\ Frame(r) \in Seq(Byte) /\ Len(Frame(r)) = 1 + n + Len(r.operator) /\ n \in Nat
            /\ Frame(r)[1] = r.count % Base
            /\ \A i \in 1 .. Len(r.operand) : \A k \in 1 .. IntBytes :
                 /\ 1 + ((i-1) * IntBytes + k) \in 1 .. 1 + n
                 /\ Frame(r)[1 + ((i-1) * IntBytes + k)] = Little(r.operand[i])[k]
            /\ \A i \in 1 .. Len(r.operator) : Frame(r)[(1 + n) + i] = r.operator[i]
<1> DEFINE n == Len(r.operand) * IntBytes
           c == <<r.count % Base>>
           o == Operands(r)
           h == c \o o
<1>1. /\ o \in Seq(Byte) /\ Len(o) = n
      /\ \A i \in 1 .. Len(r.operand) : \A k \in 1 .. IntBytes :
           /\ (i-1) * IntBytes + k \in 1 .. n
           /\ o[(i-1) * IntBytes + k] = Little(r.operand[i])[k]
  BY OperandBytes
<1>2. c \in Seq(Byte) /\ Len(c) = 1 /\ c[1] = r.count % Base
  <2>1. r.count % Base \in Byte
    BY Bytewise DEF Typed
  <2> QED BY ONLY <2>1
<1>3. r.operator \in Seq(Byte) /\ Len(r.operator) \in Nat
  BY DEF Typed
<1>4. Frame(r) = h \o r.operator
  BY DEF Frame
<1> HIDE DEF n, c, o
<1>5. /\ h \in Seq(Byte) /\ Len(h) = 1 + n /\ n \in Nat /\ h[1] = r.count % Base
      /\ \A j \in 1 .. n : 1 + j \in 1 .. Len(h) /\ h[1 + j] = o[j]
  <2>1. /\ h \in Seq(Byte) /\ Len(h) = Len(c) + Len(o)
        /\ \A j \in 1 .. Len(c) : h[j] = c[j]
        /\ \A k \in 1 .. Len(o) : Len(c) + k \in 1 .. Len(h) /\ h[Len(c) + k] = o[k]
    <3>1. c \in Seq(Byte) /\ o \in Seq(Byte) /\ h = c \o o
      BY <1>1, <1>2
    <3> HIDE DEF h
    <3> QED BY ONLY <3>1, Concatenated
  <2>2. Len(o) \in Nat /\ 1 \in 1 .. 1
    BY ONLY <1>1
  <2> HIDE DEF h
  <2> QED BY ONLY <1>1, <1>2, <2>1, <2>2
<1> HIDE DEF h
<1>6. /\ Frame(r) \in Seq(Byte) /\ Len(Frame(r)) = (1 + n) + Len(r.operator)
      /\ \A j \in 1 .. 1 + n : Frame(r)[j] = h[j]
      /\ \A i \in 1 .. Len(r.operator) : Frame(r)[(1 + n) + i] = r.operator[i]
  <2> DEFINE f == h \o r.operator
             m == r.operator
  <2>1. /\ f \in Seq(Byte) /\ Len(f) = Len(h) + Len(m)
        /\ \A j \in 1 .. Len(h) : f[j] = h[j]
        /\ \A k \in 1 .. Len(m) : f[Len(h) + k] = m[k]
    <3>1. m \in Seq(Byte) /\ h \in Seq(Byte)
      BY <1>3, <1>5
    <3> HIDE DEF m
    <3>2. f = h \o m
      BY DEF m
    <3> HIDE DEF f
    <3> QED BY ONLY <3>1, <3>2, Concatenated
  <2>2. Frame(r) = f
    BY <1>4
  <2> HIDE DEF f
  <2> QED BY ONLY <1>5, <2>1, <2>2
<1>7. ASSUME NEW i \in 1 .. Len(r.operand), NEW k \in 1 .. IntBytes
      PROVE  /\ 1 + ((i-1) * IntBytes + k) \in 1 .. 1 + n
             /\ Frame(r)[1 + ((i-1) * IntBytes + k)] = Little(r.operand[i])[k]
  <2> DEFINE j == (i-1) * IntBytes + k
  <2>1. j \in 1 .. n /\ o[j] = Little(r.operand[i])[k]
    BY <1>1
  <2> HIDE DEF j
  <2> QED BY <1>5, <1>6, <2>1 DEF j
<1>8. Frame(r)[1] = r.count % Base
  <2>1. 1 \in 1 .. 1 + n
    BY ONLY <1>5
  <2> QED BY ONLY <1>5, <1>6, <2>1
<1> QED BY <1>5, <1>6, <1>7, <1>8 DEF n

(* What a server takes apart is what a client put together.                  *)
LEMMA ParseFrame ==
  ASSUME NEW r, IsRequest(r), Char(r.count) > 0
  PROVE  /\ Typed(r) /\ r.count \in 1 .. MaxChar /\ Char(r.count) = r.count
         /\ Len(r.operand) = r.count /\ Len(r.operator) = r.count - 1
         /\ Parse(Frame(r)) = Expression(r)
         /\ IsExpression(Expression(r))
<1> DEFINE n == r.count
           b == Frame(r)
<1>1. /\ Typed(r) /\ Len(r.operand) = n /\ Len(r.operator) = n - 1 /\ n =< MaxChar
      /\ \A i \in 1 .. n : r.operand[i] \in Int /\ r.operand[i] = Wrap(r.operand[i])
  BY DEF IsRequest, Typed
<1>2. n \in 1 .. MaxChar /\ Char(n) = n
  <2>1. n \in Int /\ n - 1 \in Nat
    BY <1>1 DEF Typed
  <2>2. MaxChar \in Nat /\ (n \in -(MaxChar + 1) .. MaxChar => Char(n) = n)
    BY ONLY <2>1, CalcFrameAssumption, WordBitsAssumption, Chars
  <2> QED BY ONLY <1>1, <2>1, <2>2
<1>3. LET t == n * IntBytes
      IN /\ b \in Seq(Byte) /\ Len(b) = 1 + t + (n - 1) /\ t \in Nat /\ b[1] = n % Base
         /\ \A i \in 1 .. n : \A k \in 1 .. IntBytes :
              /\ 1 + ((i-1) * IntBytes + k) \in 1 .. 1 + t
              /\ b[1 + ((i-1) * IntBytes + k)] = Little(r.operand[i])[k]
         /\ \A i \in 1 .. n - 1 : b[(1 + t) + i] = r.operator[i]
  <2> HIDE DEF n
  <2>1. Typed(r) /\ Len(r.operand) = n /\ Len(r.operator) = n - 1 /\ r.count = n
    BY <1>1 DEF n
  <2> QED BY ONLY <2>1, FrameBytes DEF b
<1> HIDE DEF b
<1>4. Char(BufAt(b, 0)) = n
  <2>1. BufAt(b, 0) = n % Base
    BY <1>2, <1>3 DEF BufAt
  <2> QED BY <1>2, <2>1, Chars
<1>5. ASSUME NEW i \in 1 .. n
      PROVE  IntOf([k \in 1 .. IntBytes |-> BufAt(b, (i-1) * IntBytes + k)]) = r.operand[i]
  <2>1. ASSUME NEW k \in 1 .. IntBytes
        PROVE  BufAt(b, (i-1) * IntBytes + k) = Little(r.operand[i])[k]
    <3> DEFINE j == (i-1) * IntBytes + k
               t == n * IntBytes
    <3>1. 1 + j \in 1 .. 1 + t /\ b[1 + j] = Little(r.operand[i])[k]
      BY <1>3
    <3>2. j \in Int
      <4>1. i - 1 \in Int /\ IntBytes \in Int /\ k \in Int
        BY <1>2
      <4> QED BY ONLY <4>1
    <3>3. Len(b) = 1 + t + (n - 1) /\ t \in Nat
      BY <1>3
    <3> HIDE DEF j, t
    <3>4. j < Len(b) /\ j + 1 = 1 + j
      BY <1>2, <3>1, <3>2, <3>3
    <3>5. BufAt(b, j) = Little(r.operand[i])[k]
      BY <3>1, <3>4 DEF BufAt
    <3> QED BY <3>5 DEF j
  <2> DEFINE v == [k \in 1 .. IntBytes |-> BufAt(b, (i-1) * IntBytes + k)]
  <2>2. \A k \in 1 .. IntBytes : v[k] = Little(r.operand[i])[k]
    BY <2>1
  <2> HIDE DEF v
  <2>3. IntOf(v) = Wrap(r.operand[i])
    BY <1>1, <2>2, RoundTrip
  <2> QED BY <1>1, <2>3 DEF v
<1>6. ASSUME NEW i \in 1 .. n - 1 PROVE BufAt(b, n * IntBytes + i) = r.operator[i]
  <2> DEFINE t == n * IntBytes
  <2>1. t \in Nat /\ Len(b) = 1 + t + (n - 1) /\ b[(1 + t) + i] = r.operator[i]
    BY <1>3
  <2> HIDE DEF t
  <2>2. t + i < Len(b) /\ (t + i) + 1 = (1 + t) + i
    BY <1>2, <2>1
  <2> QED BY <2>1, <2>2 DEF BufAt, t
<1>7. Parse(b) = Expression(r)
  <2>1. DOMAIN r.operator = 1 .. n - 1 /\ r.operand = [i \in 1 .. n |-> r.operand[i]]
    <3>1. r.operator \in Seq(Byte) /\ r.operand \in Seq(Int)
      BY <1>1 DEF Typed
    <3>2. \A q \in Seq(Int) : q = [i \in 1 .. Len(q) |-> q[i]]
      OBVIOUS
    <3>3. \A q \in Seq(Byte) : DOMAIN q = 1 .. Len(q)
      OBVIOUS
    <3> QED BY ONLY <1>1, <3>1, <3>2, <3>3
  <2> DEFINE p == [i \in 1 .. n |-> IntOf([k \in 1 .. IntBytes |-> BufAt(b, (i-1) * IntBytes + k)])]
             q == [i \in 1 .. n - 1 |-> OpOf(BufAt(b, n * IntBytes + i))]
  <2>2. p = r.operand
    BY <1>5, <2>1
  <2>3. q = [i \in DOMAIN r.operator |-> OpOf(r.operator[i])]
    BY <1>6, <2>1
  <2>4. Parse(b) = [operand |-> p, operator |-> q]
    BY <1>4 DEF Parse
  <2> HIDE DEF p, q
  <2> QED BY <2>2, <2>3, <2>4 DEF Expression
<1>8. IsExpression(Expression(r))
  <2>1. Expression(r).operand = r.operand
    BY DEF Expression
  <2>2. Len(Expression(r).operator) = n - 1
    <3>1. r.operator \in Seq(Byte)
      BY <1>1 DEF Typed
    <3> QED BY <1>1, <3>1 DEF Expression
  <2> QED BY <1>1, <1>2, <2>1, <2>2 DEF IsExpression
<1> QED BY <1>1, <1>2, <1>7, <1>8 DEF b
=============================================================================
