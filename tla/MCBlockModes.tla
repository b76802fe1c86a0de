---------------------------- MODULE MCBlockModes -----------------------------
(***************************************************************************)
(* The instance of BlockModes that TLC checks: blocks of two bytes from 0  *)
(* to 3, a cipher that is a permutation of them, and messages of five      *)
(* pieces.  The code of a message is worked out on its own, with counters  *)
(* that are numbers.                                                       *)
(***************************************************************************)
EXTENDS BlockModes

Pieces == Block \cup [{1} -> 0 .. MaxByte]

Number16(b) == 4 * b[1] + b[2]
Block16(n)  == <<(n % 16) \div 4, n % 4>>

ToyCipher(b)    == Block16(5 * Number16(b) + 3)
ToyInvCipher(b) == Block16(13 * (Number16(b) + 13))

XorOf(a, b) == 2 * (((a \div 2) + (b \div 2)) % 2) + ((a + b) % 2)
ToyXor(p, b) == [i \in DOMAIN p |-> XorOf(p[i], b[i])]

StartIV  == <<0, 2>>
Messages == [CBC |-> << <<0, 0>>, <<0, 0>>, <<3, 1>>, <<2, 2>> >>,
             CTR |-> << <<0, 0>>, <<0, 0>>, <<3>>, <<2, 2>>, <<1, 0>> >>]

Codes ==
  LET CBC[n \in 0 .. 4] == IF n = 0 THEN StartIV
                           ELSE ToyCipher(ToyXor(Messages["CBC"][n], CBC[n - 1]))
      Counter(n) == Block16(Number16(StartIV) + n - 1)
  IN [CBC |-> [n \in 1 .. 4 |-> CBC[n]],
      CTR |-> [n \in 1 .. 5 |-> ToyXor(Messages["CTR"][n], ToyCipher(Counter(n)))]]
=============================================================================
