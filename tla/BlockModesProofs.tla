--------------------------- MODULE BlockModesProofs ---------------------------
(***************************************************************************)
(* What the two devices of BlockModes write and read, proved for every     *)
(* cipher, size of blocks, message, chunks and number of recoveries.       *)
(*                                                                         *)
(* Chain has the vectors that lead from piece to piece: recursion on the   *)
(* number of the piece gives them and the code, and IsCode says no more.   *)
(***************************************************************************)
EXTENDS BlockModes, CommonProofs

CONSTANT Chain

CodeOf(m, n) == IF m = "CBC" THEN Cipher(Xor(Message[m][n], Chain[m][n]))
                ELSE Xor(Message[m][n], Cipher(Chain[m][n]))
NextVector(m, n) == IF m = "CBC" THEN Code[m][n] ELSE Increment(Chain[m][n])

IsCodeWith(m, code, chain) ==
  /\ chain[1] = IV
  /\ \A n \in 1 .. Len(Message[m]) :
       /\ code[n] = IF m = "CBC" THEN Cipher(Xor(Message[m][n], chain[n]))
                    ELSE Xor(Message[m][n], Cipher(chain[n]))
       /\ chain[n + 1] = IF m = "CBC" THEN code[n] ELSE Increment(chain[n])

IsCode == \A m \in Mode : IsCodeWith(m, Code[m], Chain[m])

(***************************************************************************)
(* The inductive invariant: in each device and each checkpoint the context *)
(* is the vector of the next piece, and the buffer holds results up to     *)
(* there and what has been read from there on.                             *)
(***************************************************************************)
Source(d) == IF d = "encrypts" THEN Text ELSE Code[mode]
Result(d) == IF d = "encrypts" THEN Code[mode] ELSE Text

Buffer == UNION {[1 .. n -> Piece] : n \in Nat}
State  == [pc : {"idle", "loop", "write"}, iv : Block, Iv : Block, first : Nat,
           buf : Buffer, length : Nat, i : Nat]

Passes(v)  == IF v.pc = "write" THEN v.length ELSE v.i
Vector(d, v) == IF ByPointer(d) /\ v.pc = "loop" THEN v.Iv ELSE v.iv

InPlace(d, v) == \A k \in 1 .. v.length :
  v.buf[k] = IF k <= Passes(v) THEN Result(d)[v.first + k] ELSE Source(d)[v.first + k]

Sound(d, v) ==
  /\ v \in State
  /\ v.buf \in [1 .. v.length -> Piece]
  /\ v.i <= v.length /\ v.first + v.length <= Len(Text)
  /\ v.pc = "idle" => v.length = 0
  /\ Vector(d, v) = Chain[mode][v.first + Passes(v) + 1]
  /\ InPlace(d, v)

Outside == \A d \in Device :
  /\ out[d] \in [Number -> Piece \cup {None}]
  /\ \A n \in Number : out[d][n] \in {None, Result(d)[n]}

IInv ==
  /\ mode \in Mode
  /\ dev \in [Device -> State] /\ saved \in [Device -> State]
  /\ \A d \in Device : Sound(d, dev[d]) /\ Sound(d, saved[d]) /\ saved[d].pc = "idle"
  /\ out \in [Device -> [Number -> Piece \cup {None}]]
  /\ Outside

\* The next vector is a block again.
LEMMA IncrementTyped == ASSUME NEW iv \in Block PROVE Increment(iv) \in Block
<1>1. \A i \in DOMAIN iv : (IF iv[i] = MaxByte THEN 0 ELSE iv[i] + 1) \in 0 .. MaxByte
  BY BlockModesAssumption DEF Block
<1>2. DOMAIN iv = 1 .. BLOCKLEN /\ \A i \in DOMAIN iv : iv[i] \in 0 .. MaxByte
  BY DEF Block
<1> QED BY <1>1, <1>2 DEF Increment, Block

(***************************************************************************)
(* What IsCode says of Code and Chain can be had, of every message.        *)
(***************************************************************************)
\* The vector after n pieces, by recursion on n.
LEMMA VectorsExist ==
  ASSUME NEW m \in Mode
  PROVE  \E f \in [Nat -> Block] :
           /\ f[0] = IV
           /\ \A n \in 1 .. Len(Message[m]) :
                f[n] = IF m = "CBC" THEN Cipher(Xor(Message[m][n], f[n - 1]))
                       ELSE Increment(f[n - 1])
<1> DEFINE L == Len(Message[m])
           After(n, b) == IF m = "CBC" THEN Cipher(Xor(Message[m][n], b)) ELSE Increment(b)
           next == [p \in Nat \X Block |-> IF p[1] \in 1 .. L THEN After(p[1], p[2]) ELSE p[2]]
<1>1. ASSUME NEW n \in 1 .. L, NEW b \in Block PROVE After(n, b) \in Block
  <2>1. CASE m = "CBC"
    <3>1. Message[m][n] \in Block
      BY <2>1, BlockModesAssumption
    <3> QED BY <2>1, <3>1, CipherAssumption
  <2>2. CASE m # "CBC"
    BY <2>2, IncrementTyped
  <2> QED BY <2>1, <2>2
<1> HIDE DEF After
<1>2. next \in [Nat \X Block -> Block]
  BY <1>1
<1>3. PICK f \in [Nat -> Block] : Recursive(f, IV, next)
  <2>1. IV \in Block
    BY BlockModesAssumption
  <2> HIDE DEF next
  <2> QED BY <1>2, <2>1, Recursion
<1>4. f[0] = IV /\ \A n \in Nat : n # 0 => f[n] = next[<<n, f[n - 1]>>]
  <2> HIDE DEF next
  <2> QED BY <1>3 DEF Recursive
<1>5. ASSUME NEW n \in 1 .. L PROVE f[n] = After(n, f[n - 1])
  <2>1. L \in Nat /\ n \in Nat /\ n # 0 /\ n - 1 \in Nat
    BY BlockModesAssumption
  <2>2. f[n - 1] \in Block
    BY <2>1
  <2>3. next[<<n, f[n - 1]>>] = After(n, f[n - 1])
    BY <2>1, <2>2
  <2> QED BY <1>4, <2>1, <2>3
<1> QED BY <1>4, <1>5 DEF After

(***************************************************************************)
(* Every message has a code, in chaining mode and in counter mode, with a  *)
(* vector for each of its pieces: Reading and Coding are about every       *)
(* message.  (AES_CBC_encrypt_buffer, AES_CTR_xcrypt_buffer.)              *)
(***************************************************************************)
THEOREM CodeExists ==
  \A m \in Mode : \E code, chain : IsCodeWith(m, code, chain)
<1> SUFFICES ASSUME NEW m \in Mode PROVE \E code, chain : IsCodeWith(m, code, chain)
  OBVIOUS
<1> DEFINE L == Len(Message[m])
<1>1. PICK f \in [Nat -> Block] :
           /\ f[0] = IV
           /\ \A n \in 1 .. L :
                f[n] = IF m = "CBC" THEN Cipher(Xor(Message[m][n], f[n - 1]))
                       ELSE Increment(f[n - 1])
  BY VectorsExist
<1> DEFINE chain == [n \in 1 .. L + 1 |-> f[n - 1]]
           code  == [n \in 1 .. L |-> IF m = "CBC" THEN f[n]
                                      ELSE Xor(Message[m][n], Cipher(f[n - 1]))]
<1>2. L \in Nat
  BY BlockModesAssumption
<1>3. chain[1] = IV
  BY <1>1, <1>2
<1>4. ASSUME NEW n \in 1 .. L
      PROVE  /\ chain[n] = f[n - 1] /\ chain[n + 1] = f[n]
             /\ code[n] = IF m = "CBC" THEN f[n] ELSE Xor(Message[m][n], Cipher(f[n - 1]))
  BY <1>2
<1> HIDE DEF chain, code
<1>5. IsCodeWith(m, code, chain)
  BY <1>1, <1>3, <1>4 DEF IsCodeWith
<1> QED BY <1>5

\* The message and the number of its pieces.
LEMMA Texts ==
  ASSUME mode \in Mode
  PROVE /\ Len(Text) \in Nat
        /\ \A n \in Number : Text[n] \in Piece /\ (mode = "CBC" => Text[n] \in Block)
<1>1. Text \in Seq(Piece) BY BlockModesAssumption DEF Text
<1>2. mode = "CBC" => Text \in Seq(Block) BY BlockModesAssumption DEF Text
<1> QED BY <1>1, <1>2 DEF Number

\* A fresh or finished device is sound where its context is the vector of the
\* piece that comes next.
LEMMA IdleSound ==
  ASSUME NEW d \in Device, NEW iv \in Block, NEW first \in Nat, mode \in Mode,
         first <= Len(Text), iv = Chain[mode][first + 1]
  PROVE  Sound(d, Idle(iv, first))
<1>1. Len(Text) \in Nat BY Texts
<1>2. <<>> \in [1 .. 0 -> Piece] OBVIOUS
<1>3. Idle(iv, first) \in State BY <1>2 DEF Idle, State, Buffer
<1> QED BY <1>1, <1>2, <1>3 DEF Idle, Sound, Passes, Vector, InPlace

\* One pass through the loop of the call: a result stands in the place of what
\* was read, and the context is the next vector.
LEMMA PassSound ==
  ASSUME IsCode, mode \in Mode, NEW d \in Device, NEW v \in State, Sound(d, v),
         v.pc = "loop", v.i < v.length
  PROVE  Sound(d, Through(d, v))
<1> DEFINE n == v.first + v.i + 1
           p == v.buf[v.i + 1]
           r == Crypt(d, p, v)
           w == Through(d, v)
<1>1. /\ v.first \in Nat /\ v.i \in Nat /\ v.length \in Nat /\ Len(Text) \in Nat
      /\ n \in Number /\ v.i + 1 \in 1 .. v.length
      /\ p \in Piece /\ v.buf \in [1 .. v.length -> Piece]
  BY Texts DEF State, Sound, Number
<1>2. /\ Text[n] \in Piece /\ (mode = "CBC" => Text[n] \in Block)
  BY <1>1, Texts
<1>3. p = Source(d)[n]
  <2>1. v.buf[v.i + 1] = IF v.i + 1 <= v.i THEN Result(d)[v.first + (v.i + 1)]
                         ELSE Source(d)[v.first + (v.i + 1)]
    BY <1>1 DEF Sound, InPlace, Passes
  <2>2. v.first + (v.i + 1) = n BY <1>1
  <2> QED BY <1>1, <2>1, <2>2
<1>4. Vector(d, v) = Chain[mode][n] /\ Vector(d, v) \in Block
  BY <1>1 DEF Sound, Passes, Vector, State
<1>5. /\ Code[mode][n] = CodeOf(mode, n)
      /\ Chain[mode][n + 1] = NextVector(mode, n)
  BY <1>1 DEF IsCode, IsCodeWith, CodeOf, NextVector, Number, Text
<1>6. r = <<Result(d)[n], Chain[mode][n + 1]>> /\ r[1] \in Piece /\ r[2] \in Block
  <2>1. CASE mode = "CTR"
    <3>1. Vector(d, v) = v.iv BY <2>1 DEF Vector, ByPointer
    <3>2. r = <<Xor(p, Cipher(v.iv)), Increment(v.iv)>> BY <2>1 DEF Crypt, CryptCTR
    <3>3. Code[mode][n] = Xor(Text[n], Cipher(v.iv)) /\ Chain[mode][n + 1] = Increment(v.iv)
      BY <1>4, <1>5, <2>1, <3>1 DEF CodeOf, NextVector, Text
    <3>4. Cipher(v.iv) \in Block BY <1>4, <3>1, CipherAssumption
    <3>5. Xor(p, Cipher(v.iv)) = Result(d)[n]
      <4>1. CASE d = "encrypts" BY <1>3, <3>3, <4>1 DEF Source, Result
      <4>2. CASE d = "decrypts"
        BY <1>2, <1>3, <3>3, <3>4, <4>2, CipherAssumption DEF Source, Result
      <4> QED BY <4>1, <4>2 DEF Device
    <3>6. Xor(p, Cipher(v.iv)) \in Piece /\ Increment(v.iv) \in Block
      BY <1>1, <1>4, <3>1, <3>4, CipherAssumption, IncrementTyped
    <3> HIDE DEF n, p, r
    <3> QED BY <3>2, <3>3, <3>5, <3>6
  <2>2. CASE mode = "CBC" /\ d = "encrypts"
    <3>1. Vector(d, v) = v.Iv BY <1>1, <2>2 DEF Vector, ByPointer
    <3>2. p = Text[n] BY <1>3, <2>2 DEF Source
    <3>3. Code[mode][n] = Cipher(Xor(Text[n], v.Iv)) /\ Chain[mode][n + 1] = Code[mode][n]
      BY <1>4, <1>5, <2>2, <3>1 DEF CodeOf, NextVector, Text
    <3>4. Xor(Text[n], v.Iv) \in Block BY <1>2, <1>4, <2>2, <3>1, CipherAssumption
    <3>5. Code[mode][n] \in Block /\ Code[mode][n] \in Piece
      BY <3>3, <3>4, CipherAssumption, BlockModesAssumption
    <3>6. r = <<Code[mode][n], Code[mode][n]>>
      BY <2>2, <3>2, <3>3 DEF Crypt, EncryptCBC
    <3>7. Result(d)[n] = Code[mode][n] BY <2>2 DEF Result
    <3> HIDE DEF n, p, r
    <3> QED BY <3>3, <3>5, <3>6, <3>7
  <2>3. CASE mode = "CBC" /\ d = "decrypts"
    <3>1. Vector(d, v) = v.iv BY <2>3 DEF Vector, ByPointer
    <3>2. p = Code[mode][n] BY <1>3, <2>3 DEF Source
    <3>3. Code[mode][n] = Cipher(Xor(Text[n], v.iv)) /\ Chain[mode][n + 1] = Code[mode][n]
      BY <1>4, <1>5, <2>3, <3>1 DEF CodeOf, NextVector, Text
    <3>4. Xor(Text[n], v.iv) \in Block BY <1>2, <1>4, <2>3, <3>1, CipherAssumption
    <3>5. Code[mode][n] \in Block BY <3>3, <3>4, CipherAssumption
    <3>6. InvCipher(p) = Xor(Text[n], v.iv) BY <3>2, <3>3, <3>4, CipherAssumption
    <3>7. Xor(InvCipher(p), v.iv) = Text[n]
      BY <1>2, <1>4, <3>1, <3>6, CipherAssumption
    <3>8. r = <<Text[n], Code[mode][n]>>
      BY <2>3, <3>2, <3>7 DEF Crypt, DecryptCBC
    <3>9. Result(d)[n] = Text[n] BY <2>3 DEF Result
    <3> HIDE DEF n, p, r
    <3> QED BY <1>2, <3>3, <3>5, <3>8, <3>9
  <2> QED BY <2>1, <2>2, <2>3 DEF Mode, Device
<1>7. w = [v EXCEPT !.buf = [v.buf EXCEPT ![v.i + 1] = r[1]], !.i = v.i + 1,
                    !.Iv = IF ByPointer(d) THEN r[2] ELSE v.Iv,
                    !.iv = IF ByPointer(d) THEN v.iv ELSE r[2]]
  BY DEF Through
<1>8. /\ w \in State /\ w.i = v.i + 1 /\ w.length = v.length /\ w.first = v.first
      /\ w.pc = "loop" /\ w.buf = [v.buf EXCEPT ![v.i + 1] = r[1]]
      /\ Vector(d, w) = r[2]
  <2> HIDE DEF r, w
  <2>1. [v.buf EXCEPT ![v.i + 1] = r[1]] \in Buffer
    <3>1. [v.buf EXCEPT ![v.i + 1] = r[1]] \in [1 .. v.length -> Piece] BY <1>1, <1>6
    <3> QED BY <1>1, <3>1 DEF Buffer
  <2>2. w \in State
    <3>1. \A b \in Buffer, k \in Nat, x, y \in Block :
            [v EXCEPT !.buf = b, !.i = k, !.Iv = x, !.iv = y] \in State
      BY DEF State
    <3>2. (IF ByPointer(d) THEN r[2] ELSE v.Iv) \in Block
      BY <1>6 DEF State
    <3>3. (IF ByPointer(d) THEN v.iv ELSE r[2]) \in Block
      BY <1>6 DEF State
    <3>4. v.i + 1 \in Nat BY <1>1
    <3> QED BY <1>7, <2>1, <3>1, <3>2, <3>3, <3>4
  <2>3. /\ w.i = v.i + 1 /\ w.length = v.length /\ w.first = v.first
        /\ w.pc = "loop" /\ w.buf = [v.buf EXCEPT ![v.i + 1] = r[1]]
        /\ w.Iv = (IF ByPointer(d) THEN r[2] ELSE v.Iv)
        /\ w.iv = (IF ByPointer(d) THEN v.iv ELSE r[2])
    BY <1>7 DEF State
  <2> QED BY <2>2, <2>3 DEF Vector
<1> HIDE DEF r, w
<1>9. w.buf \in [1 .. w.length -> Piece] BY <1>1, <1>6, <1>8
<1>10. InPlace(d, w)
  <2> SUFFICES ASSUME NEW k \in 1 .. v.length
               PROVE w.buf[k] = IF k <= v.i + 1 THEN Result(d)[v.first + k]
                                ELSE Source(d)[v.first + k]
    BY <1>8 DEF InPlace, Passes
  <2>1. CASE k = v.i + 1
    <3>1. w.buf[k] = r[1] BY <1>1, <1>8, <2>1
    <3>2. r[1] = Result(d)[v.first + k] BY <1>1, <1>6, <2>1
    <3> QED BY <1>1, <2>1, <3>1, <3>2
  <2>2. CASE k # v.i + 1
    <3>1. w.buf[k] = v.buf[k] BY <1>1, <1>8, <2>2
    <3>2. v.buf[k] = IF k <= v.i THEN Result(d)[v.first + k] ELSE Source(d)[v.first + k]
      BY DEF Sound, InPlace, Passes
    <3> QED BY <1>1, <2>2, <3>1, <3>2
  <2> QED BY <2>1, <2>2
<1>11. Chain[mode][w.first + Passes(w) + 1] = r[2]
  <2>1. Passes(w) = v.i + 1 BY <1>8 DEF Passes
  <2>2. w.first + Passes(w) + 1 = v.first + (v.i + 1) + 1 BY <1>8, <2>1
  <2>3. v.first + (v.i + 1) + 1 = n + 1 BY <1>1
  <2> QED BY <1>6, <2>2, <2>3
<1>12. w.i <= w.length /\ w.first + w.length <= Len(Text)
  BY <1>1, <1>8 DEF Sound
<1>13. Sound(d, w)
  <2>1. w.pc # "idle" BY <1>8
  <2> QED BY <1>8, <1>9, <1>10, <1>11, <1>12, <2>1 DEF Sound
<1> QED BY <1>13 DEF w

\* A chunk is what the device reads next.
LEMMA TakeSound ==
  ASSUME mode \in Mode, NEW d \in Device, NEW v \in State, Sound(d, v), v.pc = "idle",
         out \in [Device -> [Number -> Piece \cup {None}]], Outside,
         NEW k \in Nat, v.first + k \in Number,
         \A n \in 1 .. k : Input(d)[v.first + n] # None
  PROVE  Sound(d, [v EXCEPT !.pc = "loop", !.buf = [n \in 1 .. k |-> Input(d)[v.first + n]],
                            !.length = k, !.Iv = v.iv])
<1> DEFINE b == [n \in 1 .. k |-> Input(d)[v.first + n]]
           w == [v EXCEPT !.pc = "loop", !.buf = b, !.length = k, !.Iv = v.iv]
<1>1. /\ v.first \in Nat /\ Len(Text) \in Nat /\ v.first + k <= Len(Text)
      /\ v.length = 0 /\ v.i = 0 /\ v.iv \in Block
      /\ Chain[mode][v.first + 1] = v.iv
  BY Texts DEF State, Sound, Number, Vector, Passes
<1>2. ASSUME NEW n \in 1 .. k
      PROVE  Input(d)[v.first + n] \in Piece /\ Input(d)[v.first + n] = Source(d)[v.first + n]
  <2>1. v.first + n \in Number BY <1>1 DEF Number
  <2>2. CASE d = "encrypts" BY <2>1, <2>2, Texts DEF Input, Source
  <2>3. CASE d = "decrypts"
    <3>1. "encrypts" \in Device /\ "encrypts" # "decrypts" BY DEF Device
    <3>2. Input(d)[v.first + n] = out["encrypts"][v.first + n] BY <2>3 DEF Input
    <3>3. out["encrypts"][v.first + n] \in {None, Code[mode][v.first + n]}
      BY <2>1, <3>1 DEF Outside, Result
    <3>4. out["encrypts"][v.first + n] \in Piece \cup {None} BY <2>1, <3>1
    <3> QED BY <2>3, <3>2, <3>3, <3>4 DEF Source
  <2> QED BY <2>2, <2>3 DEF Device
<1>3. b \in [1 .. k -> Piece] BY <1>2
<1>4. b \in Buffer BY <1>3 DEF Buffer
<1> HIDE DEF b
<1>5. w \in State BY <1>4 DEF State
<1>6. /\ w.pc = "loop" /\ w.buf = b /\ w.length = k /\ w.Iv = v.iv /\ w.iv = v.iv
      /\ w.first = v.first /\ w.i = 0
  BY <1>1 DEF State
<1> HIDE DEF w
<1>7. Passes(w) = 0 /\ Vector(d, w) = v.iv BY <1>6 DEF Passes, Vector
<1>8. InPlace(d, w)
  <2> SUFFICES ASSUME NEW n \in 1 .. k
               PROVE  b[n] = IF n <= 0 THEN Result(d)[v.first + n] ELSE Source(d)[v.first + n]
    BY <1>6, <1>7 DEF InPlace
  <2>1. b[n] = Input(d)[v.first + n] BY DEF b
  <2> QED BY <1>2, <2>1
<1>9. Sound(d, w) BY <1>1, <1>3, <1>5, <1>6, <1>7, <1>8 DEF Sound
<1> QED BY <1>9 DEF w, b

\* At the end of a call the context is the vector of the next piece.
LEMMA LeaveSound ==
  ASSUME NEW d \in Device, NEW v \in State, Sound(d, v), v.pc = "loop", v.i = v.length
  PROVE  Sound(d, [v EXCEPT !.pc = "write", !.i = 0,
                            !.iv = IF ByPointer(d) THEN v.Iv ELSE @])
<1> DEFINE x == IF ByPointer(d) THEN v.Iv ELSE v.iv
           w == [v EXCEPT !.pc = "write", !.i = 0, !.iv = x]
<1>1. x \in Block BY DEF State
<1>2. x = Vector(d, v) BY DEF Vector
<1> HIDE DEF x
<1>3. w \in State BY <1>1 DEF State
<1>4. /\ w.pc = "write" /\ w.i = 0 /\ w.iv = x /\ w.length = v.length
      /\ w.first = v.first /\ w.buf = v.buf
  BY DEF State
<1> HIDE DEF w
<1>5. Passes(w) = v.length /\ Passes(v) = v.length BY <1>4 DEF Passes
<1>6. Vector(d, w) = Vector(d, v) BY <1>2, <1>4 DEF Vector
<1>7. InPlace(d, w) BY <1>4, <1>5 DEF Sound, InPlace
<1>8. 0 <= v.length BY DEF State
<1>9. Sound(d, w) BY <1>3, <1>4, <1>5, <1>6, <1>7, <1>8 DEF Sound
<1> QED BY <1>9 DEF w, x

\* Writing a piece leaves the buffer and the context alone.
LEMMA WriteSound ==
  ASSUME NEW d \in Device, NEW v \in State, Sound(d, v), v.pc = "write", v.i < v.length
  PROVE  Sound(d, [v EXCEPT !.i = @ + 1])
<1> DEFINE w == [v EXCEPT !.i = v.i + 1]
<1>1. v.i \in Nat /\ v.length \in Nat /\ v.i + 1 <= v.length BY DEF State
<1>2. w \in State BY <1>1 DEF State
<1>3. /\ w.pc = "write" /\ w.i = v.i + 1 /\ w.iv = v.iv /\ w.length = v.length
      /\ w.first = v.first /\ w.buf = v.buf
  BY DEF State
<1> HIDE DEF w
<1>4. Passes(w) = Passes(v) /\ Vector(d, w) = Vector(d, v) BY <1>3 DEF Passes, Vector
<1>5. InPlace(d, w) BY <1>3, <1>4 DEF Sound, InPlace
<1>6. Sound(d, w) BY <1>1, <1>2, <1>3, <1>4, <1>5 DEF Sound
<1> QED BY <1>6 DEF w

LEMMA InitSound == ASSUME IsCode, Init PROVE IInv
<1>1. mode \in Mode /\ Len(Text) \in Nat BY Texts DEF Init
<1>2. Chain[mode][0 + 1] = IV BY <1>1 DEF IsCode, IsCodeWith
<1>3. IV \in Block BY BlockModesAssumption
<1>4. \A d \in Device : Sound(d, Idle(IV, 0)) BY <1>1, <1>2, <1>3, IdleSound
<1>5. dev = [d \in Device |-> Idle(IV, 0)] /\ saved = [d \in Device |-> Idle(IV, 0)]
  BY DEF Init
<1>6. \A d \in Device : dev[d] = Idle(IV, 0) /\ saved[d] = Idle(IV, 0) BY <1>5
<1>7. Idle(IV, 0) \in State BY <1>4 DEF Sound, Device
<1>8. Idle(IV, 0).pc = "idle" BY DEF Idle
<1>9. out = [d \in Device |-> [n \in Number |-> None]] BY DEF Init
<1>10. out \in [Device -> [Number -> Piece \cup {None}]]
  <2>1. [n \in Number |-> None] \in [Number -> Piece \cup {None}] OBVIOUS
  <2> QED BY <1>9, <2>1
<1>11. Outside BY <1>9 DEF Outside
<1> QED BY <1>1, <1>4, <1>5, <1>6, <1>7, <1>8, <1>10, <1>11 DEF IInv

\* The mode never changes, so what is sound in the next state is sound.
LEMMA SameMode ==
  ASSUME mode' = mode
  PROVE  /\ \A d \in Device : Sound(d, dev'[d]) => Sound(d, dev[d])'
         /\ \A d \in Device : Sound(d, saved'[d]) => Sound(d, saved[d])'
BY DEF Sound, Vector, InPlace, Passes, ByPointer, Source, Result, Text

\* A step of one device that leaves it sound, and the outside and the
\* checkpoints alone.
LEMMA DeviceStep ==
  ASSUME IInv, NEW d \in Device, NEW w \in State, Sound(d, w),
         dev' = [dev EXCEPT ![d] = w], UNCHANGED <<mode, saved, out>>
  PROVE  IInv'
<1>1. \A e \in Device : Sound(e, dev'[e])
  <2> SUFFICES ASSUME NEW e \in Device PROVE Sound(e, dev'[e]) OBVIOUS
  <2>1. CASE e = d BY <2>1 DEF IInv
  <2>2. CASE e # d BY <2>2 DEF IInv
  <2> QED BY <2>1, <2>2
<1>2. \A e \in Device : Sound(e, saved'[e]) /\ saved'[e].pc = "idle" BY DEF IInv
<1>3. dev' \in [Device -> State] /\ saved' \in [Device -> State] /\ mode' \in Mode
  BY DEF IInv
<1>4. Outside' /\ out' \in [Device -> [Number' -> Piece \cup {None}]]
  BY DEF IInv, Outside, Number, Result, Text
<1> QED BY <1>1, <1>2, <1>3, <1>4, SameMode DEF IInv

LEMMA StepSound == ASSUME IsCode, IInv, [Next]_vars PROVE IInv'
<1>1. ASSUME UNCHANGED vars PROVE IInv'
  <2>1. UNCHANGED <<mode, dev, saved, out>> BY <1>1 DEF vars
  <2>2. Outside' BY <2>1 DEF IInv, Outside, Number, Result, Text
  <2>3. \A d \in Device : Sound(d, dev'[d]) /\ Sound(d, saved'[d]) BY <2>1 DEF IInv
  <2> QED BY <2>1, <2>2, <2>3, SameMode DEF IInv, Number, Text
<1>2. ASSUME NEW d \in Device,
             \/ Take(d) \/ Pass(d) \/ Leave(d) \/ WritePiece(d) \/ Written(d)
             \/ SetIv(d) \/ Checkpoint(d) \/ Recover(d)
      PROVE  IInv'
  <2> DEFINE v == dev[d]
  <2>1. /\ mode \in Mode /\ v \in State /\ Sound(d, v) /\ saved[d] \in State
        /\ Sound(d, saved[d]) /\ Len(Text) \in Nat
        /\ out \in [Device -> [Number -> Piece \cup {None}]] /\ Outside
    BY Texts DEF IInv
  <2>2. CASE Take(d)
    <3>1. PICK k \in 1 .. MaxChunk :
            /\ v.first + k \in Number
            /\ \A n \in 1 .. k : Input(d)[v.first + n] # None
            /\ dev' = [dev EXCEPT ![d] =
                 [v EXCEPT !.pc = "loop", !.buf = [n \in 1 .. k |-> Input(d)[v.first + n]],
                           !.length = k, !.Iv = v.iv]]
      BY <2>2 DEF Take
    <3> DEFINE w == [v EXCEPT !.pc = "loop",
                              !.buf = [n \in 1 .. k |-> Input(d)[v.first + n]],
                              !.length = k, !.Iv = v.iv]
    <3>2. k \in Nat /\ v.pc = "idle" BY <2>2, BlockModesAssumption DEF Take
    <3> HIDE DEF v
    <3>3. Sound(d, w) BY <2>1, <3>1, <3>2, TakeSound
    <3> HIDE DEF w
    <3>4. w \in State BY <3>3 DEF Sound
    <3>5. dev' = [dev EXCEPT ![d] = w] BY <3>1 DEF w
    <3> QED BY <2>2, <3>3, <3>4, <3>5, DeviceStep DEF Take
  <2>3. CASE Pass(d)
    <3>1. Sound(d, Through(d, v)) BY <2>1, <2>3, PassSound DEF Pass
    <3>2. Through(d, v) \in State BY <3>1 DEF Sound
    <3>3. dev' = [dev EXCEPT ![d] = Through(d, v)] BY <2>3 DEF Pass
    <3> QED BY <2>3, <3>1, <3>2, <3>3, DeviceStep DEF Pass
  <2>4. CASE Leave(d)
    <3> DEFINE w == [v EXCEPT !.pc = "write", !.i = 0,
                              !.iv = IF ByPointer(d) THEN v.Iv ELSE @]
    <3>1. dev' = [dev EXCEPT ![d] = w] BY <2>4 DEF Leave
    <3>2. v.pc = "loop" /\ v.i = v.length BY <2>4 DEF Leave
    <3> HIDE DEF v
    <3>3. Sound(d, w) BY <2>1, <3>2, LeaveSound
    <3> HIDE DEF w
    <3>4. w \in State BY <3>3 DEF Sound
    <3> QED BY <2>4, <3>1, <3>3, <3>4, DeviceStep DEF Leave
  <2>5. CASE WritePiece(d)
    <3> DEFINE w == [v EXCEPT !.i = @ + 1]
               m == v.first + v.i + 1
    <3>1. /\ dev' = [dev EXCEPT ![d] = w] /\ v.pc = "write" /\ v.i < v.length
          /\ out' = [out EXCEPT ![d][m] = v.buf[v.i + 1]]
          /\ UNCHANGED <<mode, saved, recoveries>>
      BY <2>5 DEF WritePiece
    <3> HIDE DEF v
    <3>2. Sound(d, w) BY <2>1, <3>1, WriteSound
    <3> HIDE DEF w
    <3>3. w \in State BY <3>2 DEF Sound
    <3>4. /\ v.i + 1 \in 1 .. v.length /\ v.first \in Nat /\ v.i \in Nat
          /\ v.first + v.length <= Len(Text)
          /\ v.buf \in [1 .. v.length -> Piece]
      BY <2>1, <3>1 DEF Sound, State
    <3>5. m \in Number
      <4>1. \A a, b, c, e \in Nat : b + 1 <= c /\ a + c <= e => a + b + 1 \in 1 .. e OBVIOUS
      <4>2. v.length \in Nat BY <2>1 DEF State
      <4> QED BY <2>1, <3>4, <4>1, <4>2 DEF Number
    <3>6. v.buf[v.i + 1] = Result(d)[m] /\ v.buf[v.i + 1] \in Piece
      <4>1. v.buf[v.i + 1] = Result(d)[v.first + (v.i + 1)]
        BY <2>1, <3>1, <3>4 DEF Sound, InPlace, Passes
      <4>2. v.first + (v.i + 1) = m BY <3>4
      <4> QED BY <3>4, <4>1, <4>2
    <3> HIDE DEF m
    <3>7. out' \in [Device -> [Number -> Piece \cup {None}]] BY <2>1, <3>1, <3>5, <3>6
    <3>8. ASSUME NEW e \in Device, NEW n \in Number
          PROVE  out'[e][n] \in {None, Result(e)[n]}
      <4>1. CASE e = d /\ n = m BY <2>1, <3>1, <3>5, <3>6, <4>1
      <4>2. CASE ~(e = d /\ n = m)
        <5>1. out'[e][n] = out[e][n] BY <2>1, <3>1, <3>5, <4>2
        <5> QED BY <2>1, <5>1 DEF Outside
      <4> QED BY <4>1, <4>2
    <3>9. Outside' BY <3>1, <3>7, <3>8 DEF Outside, Number, Result, Text
    <3>10. ASSUME NEW e \in Device PROVE Sound(e, dev'[e]) /\ Sound(e, saved'[e])
      <4>1. CASE e = d BY <3>1, <3>2, <4>1 DEF IInv
      <4>2. CASE e # d BY <3>1, <4>2 DEF IInv
      <4> QED BY <4>1, <4>2
    <3>11. dev' \in [Device -> State] BY <3>1, <3>3 DEF IInv
    <3>12. out' \in [Device -> [Number' -> Piece \cup {None}]] BY <3>1, <3>7 DEF Number, Text
    <3> QED BY <3>1, <3>9, <3>10, <3>11, <3>12, SameMode DEF IInv
  <2>6. CASE Written(d)
    <3>1. v.pc = "write" /\ v.i = v.length BY <2>6 DEF Written
    <3>2. dev' = [dev EXCEPT ![d] = Idle(v.iv, v.first + v.length)] BY <2>6 DEF Written
    <3> HIDE DEF v
    <3>3. /\ v.iv \in Block /\ v.first + v.length \in Nat /\ v.first + v.length <= Len(Text)
          /\ v.iv = Chain[mode][v.first + v.length + 1]
      BY <2>1, <3>1 DEF Sound, State, Vector, Passes
    <3>4. Sound(d, Idle(v.iv, v.first + v.length)) BY <2>1, <3>3, IdleSound
    <3>5. Idle(v.iv, v.first + v.length) \in State BY <3>4 DEF Sound
    <3> QED BY <2>6, <3>2, <3>4, <3>5, DeviceStep DEF Written
  <2>7. CASE SetIv(d)
    <3>1. dev' = [dev EXCEPT ![d] = Idle(IV, 0)] BY <2>7 DEF SetIv
    <3>2. IV \in Block /\ IV = Chain[mode][0 + 1] BY <2>1, BlockModesAssumption
      DEF IsCode, IsCodeWith
    <3>3. Sound(d, Idle(IV, 0)) BY <2>1, <3>2, IdleSound
    <3>4. Idle(IV, 0) \in State BY <3>3 DEF Sound
    <3> QED BY <2>7, <3>1, <3>3, <3>4, DeviceStep DEF SetIv
  <2>8. CASE Checkpoint(d)
    <3>1. /\ saved' = [saved EXCEPT ![d] = dev[d]] /\ dev[d].pc = "idle"
          /\ UNCHANGED <<mode, dev, out>>
      BY <2>8 DEF Checkpoint
    <3>2. ASSUME NEW e \in Device
          PROVE  Sound(e, dev'[e]) /\ Sound(e, saved'[e]) /\ saved'[e].pc = "idle"
      <4>1. CASE e = d BY <3>1, <4>1 DEF IInv
      <4>2. CASE e # d BY <3>1, <4>2 DEF IInv
      <4> QED BY <4>1, <4>2
    <3>3. saved' \in [Device -> State] BY <3>1 DEF IInv
    <3>4. Outside' /\ out' \in [Device -> [Number' -> Piece \cup {None}]]
      BY <3>1 DEF IInv, Outside, Number, Result, Text
    <3> QED BY <3>1, <3>2, <3>3, <3>4, SameMode DEF IInv
  <2>9. CASE Recover(d)
    <3>1. dev' = [dev EXCEPT ![d] = saved[d]] /\ UNCHANGED <<mode, saved, out>>
      BY <2>9 DEF Recover
    <3> QED BY <2>1, <3>1, DeviceStep
  <2> QED BY <1>2, <2>2, <2>3, <2>4, <2>5, <2>6, <2>7, <2>8, <2>9
<1> QED BY <1>1, <1>2 DEF Next

\* The device that decrypts writes the message and nothing else, in either mode,
\* whatever the cipher, the chunks and the times at which each is taken back.
THEOREM Reading == ASSUME IsCode PROVE Spec => []MessageIsRead
<1>1. IInv => MessageIsRead
  BY DEF IInv, Outside, MessageIsRead, Result, Device
<1> QED BY <1>1, InitSound, StepSound, PTL DEF Spec

\* What stands outside is the code of the message, and what is written again is
\* the same: no piece is ever coded with the vector of another.
THEOREM Coding == ASSUME IsCode PROVE Spec => []CodeIsRight
<1>1. IInv => CodeIsRight
  BY DEF IInv, Outside, CodeIsRight, Result, Device
<1> QED BY <1>1, InitSound, StepSound, PTL DEF Spec
=============================================================================
