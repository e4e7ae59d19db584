------------------------------ MODULE Checksum ------------------------------
(* checksum(void *b, int len) of icmp_calculator/icmp_calc_final.c, of which *)
(* week11/myping.c and the drafts of the calculator hold copies: the         *)
(* complement of the one's complement sum of a packet's shorts, with the     *)
(* carries kept in a wider sum and folded back at the end.                   *)
EXTENDS CalcFrame

Short == Base * Base          \* the values of an unsigned short: 2^16
UInt == Short * Short         \* and of an unsigned int

\* Mutant: the sum is an unsigned short.
WordSumShort(b) ==
  LET sum[k \in 0 .. Len(b) \div 2] ==
        IF k = 0 THEN 0 ELSE (sum[k-1] + b[2*k-1] + Base * b[2*k]) % Short
  IN (sum[Len(b) \div 2] + (IF Len(b) % 2 = 1 THEN b[Len(b)] ELSE 0)) % Short

(* sum += *buf++ for every whole short, which is little-endian, and a last   *)
(* odd byte as it is.                                                        *)
WordSum(b) ==
  LET sum[k \in 0 .. Len(b) \div 2] ==
        IF k = 0 THEN 0 ELSE (sum[k-1] + b[2*k-1] + Base * b[2*k]) % UInt
  IN (sum[Len(b) \div 2] + (IF Len(b) % 2 = 1 THEN b[Len(b)] ELSE 0)) % UInt

(* sum = (sum >> 16) + (sum & 0xFFFF); sum += (sum >> 16)                    *)
Fold[sum \in Nat] == LET once == (sum \div Short) + (sum % Short)
             IN once + (once \div Short)

(* result = ~sum, cut to a short.                                            *)
checksum[b \in Seq(Byte)] == (UInt - 1 - Fold[WordSum(b)]) % Short

(* What a receiver computes: the shorts of the packet, added with the carry  *)
(* taken round, are all ones - a multiple of Short - 1 that is not zero.     *)
Shorts(b) == [k \in 1 .. (Len(b) + 1) \div 2 |->
                b[2*k-1] + (IF 2*k =< Len(b) THEN Base * b[2*k] ELSE 0)]
AllOnes(b) ==
  LET s == Shorts(b)
      sum[k \in 0 .. Len(s)] == IF k = 0 THEN 0 ELSE sum[k-1] + s[k]
  IN sum[Len(s)] > 0 /\ sum[Len(s)] % (Short - 1) = 0

=============================================================================
