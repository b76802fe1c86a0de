------------------------------ MODULE BlockModes ------------------------------
(***************************************************************************)
(* Chaining (CBC) and counter (CTR) mode of the AES library (aes.c): a     *)
(* program that encrypts a message and one that decrypts it, each a chunk  *)
(* at a time and in place, with the library's context between the calls.   *)
(* Each runs in a dual mode: an error, at any time, takes it back to its   *)
(* last checkpoint with its context and its buffer, and what it has        *)
(* written to the outside stays written.                                   *)
(*                                                                         *)
(* A message is a sequence of pieces, one for each block of key stream:    *)
(* blocks of bytes and, in counter mode, shorter pieces at the end of      *)
(* chunks.  The cipher is any permutation; the real one is in Aes.         *)
(***************************************************************************)
EXTENDS Integers, Sequences

CONSTANTS
  BLOCKLEN, MaxByte,       \* a block has BLOCKLEN bytes from 0 to MaxByte
  Piece,                   \* pieces of a message, blocks among them
  Cipher(_), InvCipher(_), \* of a block, with the round keys of the context
  Xor(_, _),               \* of a piece and as much of a block
  IV,                      \* the initialisation vector
  Message, Code,           \* the message and its code, for each mode
  MaxChunk, MaxRecoveries  \* bounds: pieces of a call, and recoveries

Block == [1 .. BLOCKLEN -> 0 .. MaxByte]
Mode  == {"CBC", "CTR"}

ASSUME BlockModesAssumption ==
  /\ BLOCKLEN \in Nat \ {0} /\ MaxByte \in Nat \ {0}
  /\ Block \subseteq Piece /\ IV \in Block
  /\ Message \in [Mode -> Seq(Piece)] /\ Message["CBC"] \in Seq(Block)
  /\ MaxChunk \in Nat /\ MaxRecoveries \in Nat

ASSUME CipherAssumption ==
  /\ \A b \in Block : Cipher(b) \in Block /\ InvCipher(Cipher(b)) = b
  /\ \A p \in Piece, b \in Block : Xor(p, b) \in Piece /\ Xor(Xor(p, b), b) = p
  /\ \A p \in Block, b \in Block : Xor(p, b) \in Block

VARIABLES
  mode,
  dev,         \* the devices: what each has in registers and stack
  saved,       \* its last checkpoint
  out,         \* what it has written: the coded message, and the decoded one
  recoveries

vars == <<mode, dev, saved, out, recoveries>>

Device == {"encrypts", "decrypts"}
Text   == Message[mode]
Number == 1 .. Len(Text)
None   == <<>>

\* The context, the pointer Iv of AES_CBC_encrypt_buffer, the number of pieces
\* before this chunk, the chunk and its length, and the passes through it.
Idle(iv, first) == [pc |-> "idle", iv |-> iv, Iv |-> iv, first |-> first,
                    buf |-> <<>>, length |-> 0, i |-> 0]

\* What a device reads.
Input(d) == IF d = "encrypts" THEN Text ELSE out["encrypts"]

(***************************************************************************)
(* A pass through the loop of each function.  The last bytes, as long as   *)
(* those after them are at their maximum, carry into the one before.       *)
(***************************************************************************)
Carries(iv, i) == \A k \in DOMAIN iv : k > i => iv[k] = MaxByte

\* Mutant: a byte at its maximum stays.
Increment_NoWrap(iv) ==
  [i \in DOMAIN iv |-> IF Carries(iv, i) /\ iv[i] # MaxByte THEN iv[i] + 1 ELSE iv[i]]
Increment(iv) ==
  [i \in DOMAIN iv |-> IF ~Carries(iv, i) THEN iv[i]
                       ELSE IF iv[i] = MaxByte THEN 0 ELSE iv[i] + 1]

\* What comes in the place of piece p, and the vector for the next one.
EncryptCBC(p, Iv) == LET code == Cipher(Xor(p, Iv)) IN <<code, code>>

\* Mutant: the block is copied after it has been decrypted in place.
DecryptCBC_LateCopy(p, iv) == LET text == Xor(InvCipher(p), iv) IN <<text, text>>
DecryptCBC(p, iv) == <<Xor(InvCipher(p), iv), p>>

CryptCTR(p, iv) == <<Xor(p, Cipher(iv)), Increment(iv)>>

\* Chaining has the vector in the buffer, through a pointer, when it encrypts.
ByPointer(d) == mode = "CBC" /\ d = "encrypts"

Crypt(d, p, v) == IF mode = "CTR" THEN CryptCTR(p, v.iv)
                  ELSE IF d = "encrypts" THEN EncryptCBC(p, v.Iv) ELSE DecryptCBC(p, v.iv)

Through(d, v) ==
  LET r == Crypt(d, v.buf[v.i + 1], v)
  IN [v EXCEPT !.buf = [@ EXCEPT ![v.i + 1] = r[1]], !.i = @ + 1,
               !.Iv = IF ByPointer(d) THEN r[2] ELSE @,
               !.iv = IF ByPointer(d) THEN @ ELSE r[2]]

(***************************************************************************)
(* The devices.                                                            *)
(***************************************************************************)
\* A chunk is read into the buffer: it ends after a piece that is not a block,
\* for the rest of its key stream is not used.
Take(d) ==
  LET v == dev[d] IN
  /\ v.pc = "idle"
  /\ \E k \in 1 .. MaxChunk :
       /\ v.first + k \in Number
       /\ \A n \in 1 .. k : Input(d)[v.first + n] # None
       /\ \A n \in 1 .. k - 1 : Input(d)[v.first + n] \in Block
       /\ dev' = [dev EXCEPT ![d] =
                    [v EXCEPT !.pc = "loop", !.buf = [n \in 1 .. k |-> Input(d)[v.first + n]],
                              !.length = k, !.Iv = v.iv]]
  /\ UNCHANGED <<mode, saved, out, recoveries>>

Pass(d) ==
  LET v == dev[d] IN
  /\ v.pc = "loop" /\ v.i < v.length
  /\ dev' = [dev EXCEPT ![d] = Through(d, v)]
  /\ UNCHANGED <<mode, saved, out, recoveries>>

\* The end of a call.
Leave(d) ==
  LET v == dev[d] IN
  /\ v.pc = "loop" /\ v.i = v.length
  /\ dev' = [dev EXCEPT ![d] =
               [v EXCEPT !.pc = "write", !.i = 0,
                         !.iv = IF ByPointer(d) THEN v.Iv ELSE @]]
  /\ UNCHANGED <<mode, saved, out, recoveries>>

\* The program writes the chunk, piece by piece.
WritePiece(d) ==
  LET v == dev[d] IN
  /\ v.pc = "write" /\ v.i < v.length
  /\ out' = [out EXCEPT ![d][v.first + v.i + 1] = v.buf[v.i + 1]]
  /\ dev' = [dev EXCEPT ![d] = [v EXCEPT !.i = @ + 1]]
  /\ UNCHANGED <<mode, saved, recoveries>>

Written(d) ==
  LET v == dev[d] IN
  /\ v.pc = "write" /\ v.i = v.length
  /\ dev' = [dev EXCEPT ![d] = Idle(v.iv, v.first + v.length)]
  /\ UNCHANGED <<mode, saved, out, recoveries>>

\* AES_ctx_set_iv: a message that has been read is read again from its start.
SetIv(d) ==
  /\ d = "decrypts" /\ dev[d].pc = "idle" /\ dev[d].first = Len(Text)
  /\ dev' = [dev EXCEPT ![d] = Idle(IV, 0)]
  /\ UNCHANGED <<mode, saved, out, recoveries>>

Checkpoint(d) ==
  /\ dev[d].pc = "idle"
  /\ saved' = [saved EXCEPT ![d] = dev[d]]
  /\ UNCHANGED <<mode, dev, out, recoveries>>

Recover(d) ==
  /\ recoveries < MaxRecoveries
  /\ dev' = [dev EXCEPT ![d] = saved[d]]
  /\ recoveries' = recoveries + 1
  /\ UNCHANGED <<mode, saved, out>>

\* AES_init_ctx_iv, and the first checkpoint.
Init ==
  /\ mode \in Mode
  /\ dev = [d \in Device |-> Idle(IV, 0)]
  /\ saved = dev
  /\ out = [d \in Device |-> [n \in Number |-> None]]
  /\ recoveries = 0

Next == \E d \in Device : \/ Take(d) \/ Pass(d) \/ Leave(d) \/ WritePiece(d) \/ Written(d)
                          \/ SetIv(d) \/ Checkpoint(d) \/ Recover(d)
Spec == Init /\ [][Next]_vars

(***************************************************************************)
(* Properties.                                                             *)
(***************************************************************************)
\* The other device reads the message: whatever chunks the two work in, wherever
\* each has been taken back, and even when it reads what is written again.
MessageIsRead ==
  \A n \in Number : out["decrypts"][n] \in {None, Text[n]}

\* What stands outside is the one code of the message: no chunks and no recovery
\* lead to another, so what is written again is the same, and no block of key
\* stream ever covers two pieces of the message.
CodeIsRight ==
  \A n \in Number : out["encrypts"][n] \in {None, Code[mode][n]}
=============================================================================
