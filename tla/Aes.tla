--------------------------------- MODULE Aes ---------------------------------
(***************************************************************************)
(* The block cipher of the AES library (lib/AES/aes.c), AES-128: the key   *)
(* schedule, and the encryption and decryption of one block.               *)
(*                                                                         *)
(* A block is sixteen bytes, numbered from 0 as in the code.  The code     *)
(* looks at it as state_t, four columns of four bytes: state[i][j] is byte *)
(* 4 * i + j, row j of column i.                                           *)
(***************************************************************************)
EXTENDS Integers, Sequences

Nb == 4                        \* columns of a state
Nk == 4                        \* words of a key
Nr == 10                       \* rounds
AES_BLOCKLEN == 16

Byte  == 0..255
Index == 0..AES_BLOCKLEN - 1

Col(n) == n \div 4
Row(n) == n % 4

\* Exclusive or of bytes, from a table for half a byte.
HalfXor ==
  [a, b \in 0..15 |->
     LET Differ(w) == ((a \div w) + (b \div w)) % 2
     IN Differ(1) + 2 * Differ(2) + 4 * Differ(4) + 8 * Differ(8)]

Xor(a, b) == 16 * HalfXor[a \div 16, b \div 16] + HalfXor[a % 16, b % 16]

(***************************************************************************)
(* The tables of the code.                                                 *)
(***************************************************************************)
sbox == [n \in Byte |-> <<
  99, 124, 119, 123, 242, 107, 111, 197, 48, 1, 103, 43, 254, 215, 171, 118,
  202, 130, 201, 125, 250, 89, 71, 240, 173, 212, 162, 175, 156, 164, 114, 192,
  183, 253, 147, 38, 54, 63, 247, 204, 52, 165, 229, 241, 113, 216, 49, 21,
  4, 199, 35, 195, 24, 150, 5, 154, 7, 18, 128, 226, 235, 39, 178, 117,
  9, 131, 44, 26, 27, 110, 90, 160, 82, 59, 214, 179, 41, 227, 47, 132,
  83, 209, 0, 237, 32, 252, 177, 91, 106, 203, 190, 57, 74, 76, 88, 207,
  208, 239, 170, 251, 67, 77, 51, 133, 69, 249, 2, 127, 80, 60, 159, 168,
  81, 163, 64, 143, 146, 157, 56, 245, 188, 182, 218, 33, 16, 255, 243, 210,
  205, 12, 19, 236, 95, 151, 68, 23, 196, 167, 126, 61, 100, 93, 25, 115,
  96, 129, 79, 220, 34, 42, 144, 136, 70, 238, 184, 20, 222, 94, 11, 219,
  224, 50, 58, 10, 73, 6, 36, 92, 194, 211, 172, 98, 145, 149, 228, 121,
  231, 200, 55, 109, 141, 213, 78, 169, 108, 86, 244, 234, 101, 122, 174, 8,
  186, 120, 37, 46, 28, 166, 180, 198, 232, 221, 116, 31, 75, 189, 139, 138,
  112, 62, 181, 102, 72, 3, 246, 14, 97, 53, 87, 185, 134, 193, 29, 158,
  225, 248, 152, 17, 105, 217, 142, 148, 155, 30, 135, 233, 206, 85, 40, 223,
  140, 161, 137, 13, 191, 230, 66, 104, 65, 153, 45, 15, 176, 84, 187, 22>>[n + 1]]

rsbox == [n \in Byte |-> <<
  82, 9, 106, 213, 48, 54, 165, 56, 191, 64, 163, 158, 129, 243, 215, 251,
  124, 227, 57, 130, 155, 47, 255, 135, 52, 142, 67, 68, 196, 222, 233, 203,
  84, 123, 148, 50, 166, 194, 35, 61, 238, 76, 149, 11, 66, 250, 195, 78,
  8, 46, 161, 102, 40, 217, 36, 178, 118, 91, 162, 73, 109, 139, 209, 37,
  114, 248, 246, 100, 134, 104, 152, 22, 212, 164, 92, 204, 93, 101, 182, 146,
  108, 112, 72, 80, 253, 237, 185, 218, 94, 21, 70, 87, 167, 141, 157, 132,
  144, 216, 171, 0, 140, 188, 211, 10, 247, 228, 88, 5, 184, 179, 69, 6,
  208, 44, 30, 143, 202, 63, 15, 2, 193, 175, 189, 3, 1, 19, 138, 107,
  58, 145, 17, 65, 79, 103, 220, 234, 151, 242, 207, 206, 240, 180, 230, 115,
  150, 172, 116, 34, 231, 173, 53, 133, 226, 249, 55, 232, 28, 117, 223, 110,
  71, 241, 26, 113, 29, 41, 197, 137, 111, 183, 98, 14, 170, 24, 190, 27,
  252, 86, 62, 75, 198, 210, 121, 32, 154, 219, 192, 254, 120, 205, 90, 244,
  31, 221, 168, 51, 136, 7, 199, 49, 177, 18, 16, 89, 39, 128, 236, 95,
  96, 81, 127, 169, 25, 181, 74, 13, 45, 229, 122, 159, 147, 201, 156, 239,
  160, 224, 59, 77, 174, 42, 245, 176, 200, 235, 187, 60, 131, 83, 153, 97,
  23, 43, 4, 126, 186, 119, 214, 38, 225, 105, 20, 99, 85, 33, 12, 125>>[n + 1]]

Rcon == [n \in 0..10 |-> <<141, 1, 2, 4, 8, 16, 32, 64, 128, 27, 54>>[n + 1]]

(***************************************************************************)
(* The key schedule: RoundKey, as a sequence of 4 * (Nr + 1) words.  Word  *)
(* number i of the code is RoundKey[i + 1].                                *)
(***************************************************************************)
NextWord(words) ==
  LET i      == Len(words)
      last   == words[i]
      rotSub == [j \in 0..3 |-> sbox[last[(j + 1) % 4]]]
      temp   == IF i % Nk = 0 THEN [rotSub EXCEPT ![0] = Xor(@, Rcon[i \div Nk])]
                ELSE last
  IN [j \in 0..3 |-> Xor(words[i - Nk + 1][j], temp[j])]

\* One pass of KeyExpansion: the first Nk words are the key.
KeyExpansion(words, key) ==
  LET i == Len(words)
  IN Append(words, IF i < Nk THEN [j \in 0..3 |-> key[4 * i + j]] ELSE NextWord(words))

(***************************************************************************)
(* The steps of a round.                                                   *)
(***************************************************************************)
AddRoundKey(round, state, RoundKey) ==
  [n \in Index |-> Xor(state[n], RoundKey[round * Nb + Col(n) + 1][Row(n)])]

SubBytes(state) == [n \in Index |-> sbox[state[n]]]

\* Row j is rotated by j columns to the left.
ShiftRows(state) == [n \in Index |-> state[4 * ((Col(n) + Row(n)) % 4) + Row(n)]]

\* Mutant: the product is not reduced.
xtime_NoReduction(x) == (2 * x) % 256
xtime(x) == Xor((2 * x) % 256, (x \div 128) * 27)

MixColumns(state) ==
  [n \in Index |->
     LET s(j) == state[4 * Col(n) + (j % 4)]
         Tmp  == Xor(Xor(s(0), s(1)), Xor(s(2), s(3)))
         Tm   == xtime(Xor(s(Row(n)), s(Row(n) + 1)))
     IN Xor(state[n], Xor(Tm, Tmp))]

\* A product in the field of bytes; y has at most five bits.
Multiply(x, y) ==
  LET Term(w, v) == IF (y \div w) % 2 = 1 THEN v ELSE 0
      x2 == xtime(x)
      x4 == xtime(x2)
      x8 == xtime(x4)
  IN Xor(Xor(Xor(Term(1, x), Term(2, x2)), Xor(Term(4, x4), Term(8, x8))),
         Term(16, xtime(x8)))

InvMixColumns(state) ==
  [n \in Index |->
     LET s(j) == state[4 * Col(n) + ((Row(n) + j) % 4)]
     IN Xor(Xor(Multiply(s(0), 14), Multiply(s(1), 11)),
            Xor(Multiply(s(2), 13), Multiply(s(3), 9)))]

InvSubBytes(state) == [n \in Index |-> rsbox[state[n]]]

\* Row j is rotated by j columns to the right.
InvShiftRows(state) ==
  [n \in Index |-> state[4 * ((Col(n) - Row(n)) % 4) + Row(n)]]

(***************************************************************************)
(* One pass through the loop of Cipher, and of InvCipher.  The round key   *)
(* that the code adds before the loop is the pass with round 0 (or Nr).    *)
(* The last pass of Cipher has no MixColumns; InvCipher undoes the mixing  *)
(* at the end of a pass but the last, here at the start of the next.       *)
(***************************************************************************)
CipherRound(round, state, RoundKey) ==
  AddRoundKey(round,
    CASE round = 0  -> state
      [] round = Nr -> ShiftRows(SubBytes(state))
      [] OTHER      -> MixColumns(ShiftRows(SubBytes(state))),
    RoundKey)

InvCipherRound(round, state, RoundKey) ==
  AddRoundKey(round,
    CASE round = Nr     -> state
      [] round = Nr - 1 -> InvSubBytes(InvShiftRows(state))
      [] OTHER          -> InvSubBytes(InvShiftRows(InvMixColumns(state))),
    RoundKey)
=============================================================================
