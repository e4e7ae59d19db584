----------------------------- MODULE CalcFrame -----------------------------
(* The bytes of a calculator request, as the TCP, UDP and ICMP calculators   *)
(* of network_programming_final write and read them: one char with the       *)
(* number of operands, the operands as little-endian ints, and one char for  *)
(* every operator.  ByteBits and IntBytes are 8 and 4 in the program; smaller *)
(* values give the model checker a machine of its own to enumerate.          *)
EXTENDS Calc

CONSTANTS
  ByteBits,      \* bits of a char
  IntBytes,      \* chars of an int
  Ascii          \* the codes of the three operators, [{"+", "-", "*"} -> Byte]

Base == TwoTo[ByteBits]
Byte == 0 .. Base - 1

ASSUME CalcFrameAssumption ==
  /\ ByteBits \in Nat \ {0} /\ IntBytes \in Nat \ {0}
  /\ WordBits = ByteBits * IntBytes
  /\ Ascii \in [{"+", "-", "*"} -> Byte]
  /\ \A o, p \in {"+", "-", "*"} : Ascii[o] = Ascii[p] => o = p

(* (char)n: a char is signed on every build of this program.                 *)
Char(n) == ((n + Base \div 2) % Base) - Base \div 2
MaxChar == Base \div 2 - 1

(* An int in memory and back.                                                *)
Little(n) == [k \in 1 .. IntBytes |-> (n \div TwoTo[ByteBits * (k-1)]) % Base]

IntOf(b) ==
  LET sum[k \in 0 .. IntBytes] ==
        IF k = 0 THEN 0 ELSE sum[k-1] + b[k] * TwoTo[ByteBits * (k-1)]
  IN Wrap(sum[IntBytes])

(* The operator a byte stands for; "?" is every other character.             *)
OpOf(byte) == IF \E o \in DOMAIN Ascii : Ascii[o] = byte
                THEN CHOOSE o \in DOMAIN Ascii : Ascii[o] = byte
                ELSE "?"

(* What the user types into a client: a count, then that many operands and   *)
(* one operator fewer.  A larger count that is positive as a char is one of  *)
(* more operands than buf has room for.                                      *)
IsRequest(r) ==
  /\ r.count \in Int /\ (Char(r.count) > 0 => r.count =< MaxChar)
  /\ r.operand \in Seq(Int) /\ r.operator \in Seq(Byte)
  /\ Len(r.operand) = IF Char(r.count) > 0 THEN r.count ELSE 0
  /\ Len(r.operator) = IF Char(r.count) > 0 THEN r.count - 1 ELSE 0
  /\ \A i \in DOMAIN r.operand : r.operand[i] = Wrap(r.operand[i])

Expression(r) == [operand  |-> r.operand,
                  operator |-> [i \in DOMAIN r.operator |-> OpOf(r.operator[i])]]

(* The operands one behind the other, IntBytes bytes of each.                *)
Operands(r) == [j \in 1 .. Len(r.operand) * IntBytes |->
                  Little(r.operand[((j-1) \div IntBytes) + 1])[((j-1) % IntBytes) + 1]]

\* Mutant: 1+(opCount*4)+(opCount-2) bytes.
FrameShort(r) == <<r.count % Base>> \o Operands(r)
                   \o SubSeq(r.operator, 1, Len(r.operator) - 1)

(* buf[0] = opCount; the operands behind it; the operators behind them.      *)
Frame(r) == <<r.count % Base>> \o Operands(r) \o r.operator

(* buf[k], counting from zero, of a buffer that was filled with zeros before *)
(* the bytes b were put into it.                                             *)
BufAt(b, k) == IF k < Len(b) THEN b[k+1] ELSE 0

(* The two loops that take a buffer apart again: memcpy(&operand[i],         *)
(* buf+i*4+1, 4) and operator[i] = buf[opCount*4+1+i].                       *)
Parse(b) ==
  LET n == Char(BufAt(b, 0))
  IN [operand  |-> [i \in 1 .. n |->
                      IntOf([k \in 1 .. IntBytes |-> BufAt(b, (i-1) * IntBytes + k)])],
      operator |-> [i \in 1 .. n - 1 |-> OpOf(BufAt(b, n * IntBytes + i))]]

=============================================================================
