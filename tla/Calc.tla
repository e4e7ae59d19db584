-------------------------------- MODULE Calc --------------------------------
(* The left-to-right integer calculator that every calculator program of    *)
(* the repository carries a copy of: calculate(char *calcReq, char *calcRes) *)
(* of network_programming_final/multiplexing_calculator/op_mpserv.c.         *)
(*                                                                           *)
(* An expression is the request the client typed: its operands and the       *)
(* operator characters between them, one fewer than the operands.  There is  *)
(* no precedence: 3+4*2 is 14.                                               *)
EXTENDS Integers, Sequences

CONSTANT WordBits        \* width of the C int: 32 in the program

ASSUME WordBitsAssumption == WordBits \in Nat \ {0}

(* The powers of two that fit, as a function that proofs can unfold.         *)
TwoTo[n \in 0 .. WordBits] == IF n = 0 THEN 1 ELSE 2 * TwoTo[n-1]

(* Two's complement: signed overflow is undefined in C, and on every build   *)
(* of this program it wraps.                                                 *)
Wrap(n) == LET half == TwoTo[WordBits - 1]
           IN ((n + half) % (2 * half)) - half

Apply(op, a, b) ==
  CASE op = "+" -> a + b
    [] op = "-" -> a - b
    [] op = "*" -> a * b
    [] OTHER    -> a          \* the switch has no default: nothing happens

(* opResult after i turns of the second loop of calculate.                   *)
Partial(e) ==
  LET opResult[i \in 0 .. Len(e.operator)] ==
        IF i = 0 THEN e.operand[1]
                 ELSE Wrap(Apply(e.operator[i], opResult[i-1], e.operand[i+1]))
  IN opResult

Calculate(e) == Partial(e)[Len(e.operator)]

=============================================================================
