-------------------------- MODULE ApplicationsProofs --------------------------
(***************************************************************************)
(* The heap of the C library (Syscalls) under the programs of              *)
(* Applications, for any number of addresses, size of the heap and         *)
(* increments: the blocks that a program holds lie between the start of    *)
(* the heap and its break, and apart from each other, whatever is          *)
(* allocated, given back, or brought back by a recovery (BlocksStayApart). *)
(*                                                                         *)
(* The inductive invariant says the same of the blocks in the saved frame: *)
(* a recovery makes them those of the program, and the break, which lies   *)
(* in a static variable, is not restored.                                  *)
(*                                                                         *)
(* And the answers: with any number of recoveries, and however much the    *)
(* standard output writes again, a test ends with its answer and has told  *)
(* it (AnswersAreRight).  The invariant follows the test's frame pass by   *)
(* pass; what the passes of the cipher make of the tests' block is the     *)
(* hypothesis CipherAnswers.                                               *)
(***************************************************************************)
EXTENDS Applications, SequenceTheorems, TLAPS

(***************************************************************************)
(* The inductive invariant.                                                *)
(***************************************************************************)

Placed(b, break) == /\ b.start \in Int /\ b.size \in Nat \ {0}
                    /\ heap_start <= b.start /\ b.start + b.size <= break
Clear(b, c) == b.start + b.size <= c.start \/ c.start + c.size <= b.start
Good(B, break) == /\ \A b \in B : Placed(b, break)
                  /\ \A b, c \in B : b # c => Clear(b, c)

\* What the programs read of a frame and of the stream is there.
Fields == /\ {"pc", "blocks"} \subseteq DOMAIN frame
          /\ {"pc", "blocks"} \subseteq DOMAIN saved
          /\ {"set", "buffer"} \subseteq DOMAIN stream

\* Who may hold blocks: the calls hold theirs in the frame, and printf its
\* buffer, for which the frame stands in until the stream has it.
Kept == IF program = "calls"
        THEN /\ frame.pc \in {"main", "loop", "end"}
             /\ saved = Nothing \/ saved.pc = "main"
             /\ stream.buffer = {}
        ELSE /\ saved.blocks = {}
             /\ frame.blocks = {} \/ frame.pc = "buffer"
             /\ ~stream.set => stream.buffer = {}

\* The frame that runs and the frame that is saved hold good blocks.
HeapInv == /\ brk \in heap_start .. heap_end
           /\ Fields
           /\ Kept
           /\ Good(frame.blocks \cup stream.buffer, brk)
           /\ Good(saved.blocks \cup stream.buffer, brk)

(***************************************************************************)
(* The heap.                                                               *)
(***************************************************************************)
\* What the constants make of its limits.
LEMMA HeapIs ==
  /\ Addresses \in Nat /\ Addresses >= 4
  /\ heap_start = 3 * (Addresses \div 4) /\ heap_start \in Nat
  /\ heap_end = heap_start + HeapSize /\ heap_end \in Nat /\ heap_end < Addresses
  /\ HeapSize \in Nat
<1>1. 3 * (Addresses \div 4) \in Nat
  BY SyscallsAssumption, SMT
<1> QED BY <1>1, SyscallsAssumption, SMT DEF heap_start, heap_end

\* The break stays between the limits; what sbrk gives lies between the old
\* break and the new one, although addresses wrap around.
LEMMA Given ==
  ASSUME HeapSize # 0, brk \in heap_start .. heap_end,
         NEW incr \in -(Addresses \div 2) .. Addresses \div 2 - 1
  PROVE  /\ sbrk(incr).brk \in heap_start .. heap_end
         /\ sbrk(incr).result # Failed /\ incr > 0
              => sbrk(incr).result = brk /\ sbrk(incr).brk = brk + incr
         /\ sbrk(incr).result = Failed => sbrk(incr).brk = brk
<1> DEFINE new == (brk + incr) % Addresses
<1>1. new \in Int /\ brk \in Int
  BY HeapIs, SMT
<1>2. new >= heap_start /\ incr > 0 => new = brk + incr
  <2> SUFFICES ASSUME incr > 0, brk + incr >= Addresses PROVE new < heap_start
    BY HeapIs, SMT
  <2>1. new = brk + incr - Addresses
    BY HeapIs, SMT
  <2> QED BY <2>1, HeapIs, SMT
<1> HIDE DEF new
<1>3. CASE new < heap_end /\ new >= heap_start
  <2>1. sbrk(incr) = Answer(brk, new)
    BY <1>3, Zenon DEF sbrk, new
  <2> QED BY <1>1, <1>2, <1>3, <2>1, HeapIs, SMT DEF Answer, Failed
<1>4. CASE ~(new < heap_end /\ new >= heap_start)
  <2>1. sbrk(incr) = Answer(Failed, brk)
    BY <1>4, Zenon DEF sbrk, new
  <2> QED BY <2>1, SMT DEF Answer, Failed
<1> QED BY <1>3, <1>4

\* A block between the old break and the new one is apart from all others.
LEMMA GoodGrows ==
  ASSUME NEW B, NEW low \in Int, NEW high \in Int, low < high, heap_start <= low, Good(B, low)
  PROVE  Good(B \cup {Block(low, high - low)}, high)
<1> DEFINE new == Block(low, high - low)
<1>1. new.start = low /\ new.size = high - low
  BY DEF Block
<1> HIDE DEF new
<1>2. Placed(new, high)
  BY <1>1, HeapIs, SMT DEF Placed
<1>3. \A b \in B : Placed(b, high) /\ Clear(b, new) /\ Clear(new, b)
  BY <1>1, HeapIs, SMT DEF Good, Placed, Clear
<1> QED BY <1>2, <1>3 DEF Good, new

\* Blocks are good under every break that they end below.
LEMMA GoodKept ==
  ASSUME NEW B, NEW old, NEW new, Good(B, old), \A b \in B : b.start + b.size <= new
  PROVE  Good(B, new)
BY DEF Good, Placed

LEMMA NoBlocks == \A break : Good({}, break)
BY DEF Good

\* A program begins without blocks.
LEMMA Initially == Init => HeapInv
<1> SUFFICES ASSUME Init PROVE HeapInv
  OBVIOUS
<1>1. brk \in heap_start .. heap_end
  BY HeapIs, SMT DEF Init, SysInit
<1>2. /\ frame = Frame /\ saved = Nothing
      /\ stream = [set |-> FALSE, buffer |-> {}, text |-> <<>>, cuts |-> 0]
  BY DEF Init
<1>3. /\ {"pc", "blocks"} \subseteq DOMAIN Frame /\ {"pc", "blocks"} \subseteq DOMAIN Nothing
      /\ Frame.pc = "main" /\ Frame.blocks = {} /\ Nothing.blocks = {}
  BY DEF Frame, Nothing
<1>4. Fields /\ Kept
  BY <1>2, <1>3 DEF Fields, Kept
<1>5. frame.blocks \cup stream.buffer = {} /\ saved.blocks \cup stream.buffer = {}
  BY <1>2, <1>3
<1> QED BY <1>1, <1>4, <1>5, NoBlocks DEF HeapInv

(***************************************************************************)
(* The tests: registers and stack alone, and no block.                     *)
(***************************************************************************)
\* A step of a test, from a place other than that where it holds a block.
Computes == /\ frame.pc # "buffer" /\ program # "calls"
            /\ DOMAIN frame' = DOMAIN frame /\ frame'.blocks = frame.blocks
            /\ saved' \in {saved, frame'}
            /\ stream'.set = stream.set /\ stream'.buffer = stream.buffer
            /\ DOMAIN stream' = DOMAIN stream
            /\ UNCHANGED <<program, brk>>

LEMMA ComputesKeeps ==
  ASSUME HeapInv, Computes
  PROVE  HeapInv'
<1>1. frame.blocks = {} /\ saved.blocks = {} /\ (~stream.set => stream.buffer = {})
  BY DEF HeapInv, Kept, Computes
<1>2. frame'.blocks = {} /\ saved'.blocks = {} /\ stream'.set = stream.set /\ stream'.buffer = stream.buffer
  BY <1>1 DEF Computes
<1>3. Fields'
  BY DEF Fields, Computes, HeapInv
<1>4. Kept'
  BY <1>1, <1>2 DEF Kept, Computes
<1>5. Good(stream.buffer, brk)
  BY <1>1 DEF HeapInv
<1>6. /\ Good(frame'.blocks \cup stream'.buffer, brk') /\ Good(saved'.blocks \cup stream'.buffer, brk')
      /\ brk' \in heap_start .. heap_end
  BY <1>2, <1>5 DEF Computes, HeapInv
<1> QED BY <1>3, <1>4, <1>6 DEF HeapInv

\* Two frames with the same blocks; the tests change other fields.
Like(g, f) == DOMAIN g = DOMAIN f /\ g.blocks = f.blocks

LEMMA OtherField ==
  ASSUME NEW f, NEW v
  PROVE  /\ Like([f EXCEPT !.pc = v], f) /\ Like([f EXCEPT !.buf = v], f)
         /\ Like([f EXCEPT !.ctx = v], f) /\ Like([f EXCEPT !.round = v], f)
         /\ Like([f EXCEPT !.exit = v], f) /\ Like([f EXCEPT !.i = v], f)
BY DEF Like

LEMMA OtherFields ==
  ASSUME NEW f, NEW v, NEW w
  PROVE  /\ Like([f EXCEPT !.pc = v, !.round = w], f)
         /\ Like([f EXCEPT !.i = v, !.round = w], f)
         /\ Like([f EXCEPT !.say = v, !.pc = w], f)
BY DEF Like

LEMMA LikeIsTransitive ==
  ASSUME NEW f, NEW g, NEW h, Like(g, f), Like(h, g)
  PROVE  Like(h, f)
BY DEF Like

\* The operators of the tests that change a frame.
LEMMA SayKeeps ==
  ASSUME NEW f, NEW text, NEW pc
  PROVE  Like(Say(f, text, pc), f)
BY DEF Say, Like

LEMMA AfterCipherKeeps ==
  ASSUME NEW f
  PROVE  Like(AfterCipher(f), f)
<1>1. CASE Verbose
  <2>1. PICK g, text, pc : Like(g, f) /\ AfterCipher(f) = Say(g, text, pc)
    <3> DEFINE g    == [f EXCEPT !.i = @ + 1, !.round = 0]
               text == <<Line(f.buf[f.i])>> \o IF f.i = 4 THEN <<Line("")>> ELSE <<>>
               pc   == IF f.i = 4 THEN "return" ELSE "rounds"
    <3>1. Like(g, f)
      BY OtherFields, Zenon
    <3>2. ~Decrypts
      BY <1>1 DEF Verbose, Decrypts
    <3>3. AfterCipher(f) = Say(g, text, pc)
      BY <1>1, <3>2, Zenon DEF AfterCipher
    <3> HIDE DEF g, text, pc
    <3> QED BY <3>1, <3>3, Zenon
  <2> QED BY <2>1, SayKeeps, LikeIsTransitive, Zenon
<1>2. CASE ~Verbose /\ Decrypts
  <2>1. \E text, pc : AfterCipher(f) = Say(f, text, pc)
    BY <1>2, Zenon DEF AfterCipher
  <2> QED BY <2>1, SayKeeps, Zenon
<1>3. CASE ~Verbose /\ ~Decrypts
  <2>1. AfterCipher(f) = [f EXCEPT !.pc = "compare"]
    BY <1>3, Zenon DEF AfterCipher
  <2> QED BY <2>1, OtherField, Zenon
<1> QED BY <1>1, <1>2, <1>3

\* Every step of a test is one.
LEMMA TestComputes ==
  ASSUME HeapInv, Test
  PROVE  Computes \/ UNCHANGED vars
<1> SUFFICES ASSUME Test, ~Ended PROVE Computes
  BY DEF Ended
<1>1. Quiet /\ (UNCHANGED saved \/ saved' = frame')
  BY DEF Test, Ended, HelloWorld, Start, Checkpoint, Schedule, EncryptRound, DecryptRound, Compare, Return, OnStack
<1>2. UNCHANGED <<program, stream, brk>>
  BY <1>1 DEF Quiet, sysVars
<1>3. program # "calls" /\ frame.pc # "buffer"
  BY DEF HeapInv, Kept, Test, Ended, HelloWorld, Start, Checkpoint, Schedule, EncryptRound, DecryptRound, Compare, Return, At
<1>4. Like(frame', frame)
  <2>1. CASE HelloWorld
    BY <2>1, SayKeeps, Zenon DEF HelloWorld
  <2>2. CASE Start
    <3> DEFINE f == [frame EXCEPT !.buf = CASE Verbose  -> plainText
                                            [] Decrypts -> <<cipherText>>
                                            [] OTHER    -> <<plainText[1]>>]
    <3>1. Like(f, frame)
      BY OtherField, Zenon
    <3>2. frame' = CASE Verbose  -> Say(f, Title, "schedule")
                     [] Decrypts -> [f EXCEPT !.pc = "schedule"]
                     [] OTHER    -> [f EXCEPT !.pc = "checkpoint"]
      BY <2>2, Zenon DEF Start
    <3> HIDE DEF f
    <3>3. Like(frame', f)
      BY <3>2, SayKeeps, OtherField, Zenon
    <3> QED BY <3>1, <3>3, LikeIsTransitive, Zenon
  <2>3. CASE Checkpoint
    BY <2>3, OtherField, Zenon DEF Checkpoint
  <2>4. CASE Schedule
    BY <2>4, OtherField, OtherFields, Zenon DEF Schedule
  <2>5. CASE EncryptRound
    <3> DEFINE f == [frame EXCEPT !.buf[frame.i] = CipherRound(frame.round, @, frame.ctx)]
    <3>1. frame' = AfterCipher(f) \/ frame' = [f EXCEPT !.round = @ + 1]
      BY <2>5, Zenon DEF EncryptRound
    <3>2. Like(f, frame)
      BY OtherField, Zenon
    <3> HIDE DEF f
    <3>3. Like(frame', f)
      BY <3>1, AfterCipherKeeps, OtherField, Zenon
    <3> QED BY <3>2, <3>3, LikeIsTransitive, Zenon
  <2>6. CASE DecryptRound
    <3> DEFINE f == [frame EXCEPT !.buf[1] = InvCipherRound(frame.round, @, frame.ctx)]
    <3>1. frame' = AfterCipher(f) \/ frame' = [f EXCEPT !.round = @ - 1]
      BY <2>6, Zenon DEF DecryptRound
    <3>2. Like(f, frame)
      BY OtherField, Zenon
    <3> HIDE DEF f
    <3>3. Like(frame', f)
      BY <3>1, AfterCipherKeeps, OtherField, Zenon
    <3> QED BY <3>2, <3>3, LikeIsTransitive, Zenon
  <2>7. CASE Compare
    <3>1. \E n, text : frame' = Say([frame EXCEPT !.exit = n], text, "return")
      BY <2>7, Zenon DEF Compare
    <3> QED BY <3>1, SayKeeps, OtherField, LikeIsTransitive, Zenon
  <2>8. CASE Return
    BY <2>8, OtherField, Zenon DEF Return
  <2> QED BY <2>1, <2>2, <2>3, <2>4, <2>5, <2>6, <2>7, <2>8 DEF Test
<1> QED BY <1>1, <1>2, <1>3, <1>4 DEF Computes, Like

(***************************************************************************)
(* printf: the buffer, which the stream has got from the frame.            *)
(***************************************************************************)
\* The buffer is allocated: the frame holds it.
LEMMA BufferIsTaken ==
  ASSUME HeapSize # 0, HeapInv, TakeBuffer
  PROVE  HeapInv'
<1> DEFINE a == sbrk(BUFSIZ)
           B == IF a.result = Failed THEN {} ELSE {Block(a.result, BUFSIZ)}
<1>1. /\ brk' = a.brk /\ UNCHANGED <<program, saved, stream>>
      /\ frame.pc = "print" /\ ~stream.set
  BY DEF TakeBuffer, At
<1>2. frame' = [frame EXCEPT !.pc = "buffer", !.blocks = B]
  BY DEF TakeBuffer
<1>3. program # "calls" /\ saved.blocks = {} /\ stream.buffer = {}
  BY <1>1 DEF HeapInv, Kept
<1>4. Fields
  BY DEF HeapInv
<1> HIDE DEF B
<1>5. DOMAIN frame' = DOMAIN frame /\ frame'.blocks = B /\ frame'.pc = "buffer"
  <2>1. \A f, X : {"pc", "blocks"} \subseteq DOMAIN f =>
          LET g == [f EXCEPT !.pc = "buffer", !.blocks = X]
          IN DOMAIN g = DOMAIN f /\ g.blocks = X /\ g.pc = "buffer"
    OBVIOUS
  <2> QED BY <1>2, <1>4, <2>1, Zenon DEF Fields
<1>6. BUFSIZ \in -(Addresses \div 2) .. Addresses \div 2 - 1 /\ BUFSIZ > 0 /\ BUFSIZ = 1
  BY HeapIs, SMT DEF BUFSIZ
<1>7. /\ a.brk \in heap_start .. heap_end
      /\ a.result # Failed => a.result = brk /\ a.brk = brk + 1
  BY <1>6, Given DEF HeapInv
<1>8. Good(B, a.brk)
  <2>1. CASE a.result = Failed
    BY <2>1, NoBlocks DEF B
  <2>2. CASE a.result # Failed
    <3>1. B = {} \cup {Block(brk, (brk + 1) - brk)}
      BY <1>6, <1>7, <2>2, HeapIs, SMT DEF B, HeapInv
    <3>2. brk \in Int /\ brk + 1 \in Int /\ brk < brk + 1 /\ heap_start <= brk
      BY HeapIs, SMT DEF HeapInv
    <3>3. Good({} \cup {Block(brk, (brk + 1) - brk)}, brk + 1)
      BY <3>2, GoodGrows, NoBlocks
    <3> QED BY <1>7, <2>2, <3>1, <3>3
  <2> QED BY <2>1, <2>2
<1> HIDE DEF a
<1>9. Fields' /\ Kept'
  BY <1>1, <1>3, <1>4, <1>5 DEF Fields, Kept
<1>10. frame'.blocks \cup stream'.buffer = B /\ saved'.blocks \cup stream'.buffer = {}
  BY <1>1, <1>3, <1>5
<1> QED BY <1>1, <1>7, <1>8, <1>9, <1>10, NoBlocks DEF HeapInv

\* The stream takes it over from the frame.
LEMMA BufferIsGiven ==
  ASSUME HeapInv, SetBuffer
  PROVE  HeapInv'
<1>1. UNCHANGED <<program, saved, brk>> /\ frame.pc = "buffer"
  BY DEF SetBuffer, At, sysVars
<1>2. /\ stream' = [stream EXCEPT !.buffer = frame.blocks, !.set = TRUE]
      /\ frame' = [frame EXCEPT !.pc = "print", !.blocks = {}]
  BY DEF SetBuffer
<1>3. program # "calls" /\ saved.blocks = {}
  BY <1>1 DEF HeapInv, Kept
<1>4. Fields
  BY DEF HeapInv
<1>5. /\ DOMAIN frame' = DOMAIN frame /\ frame'.blocks = {} /\ frame'.pc = "print"
      /\ DOMAIN stream' = DOMAIN stream /\ stream'.buffer = frame.blocks /\ stream'.set = TRUE
  <2>1. \A f : {"pc", "blocks"} \subseteq DOMAIN f =>
          LET g == [f EXCEPT !.pc = "print", !.blocks = {}]
          IN DOMAIN g = DOMAIN f /\ g.blocks = {} /\ g.pc = "print"
    OBVIOUS
  <2>2. \A f, X : {"set", "buffer"} \subseteq DOMAIN f =>
          LET g == [f EXCEPT !.buffer = X, !.set = TRUE]
          IN DOMAIN g = DOMAIN f /\ g.buffer = X /\ g.set = TRUE
    OBVIOUS
  <2> QED BY <1>2, <1>4, <2>1, <2>2, Zenon DEF Fields
<1>6. Fields' /\ Kept'
  BY <1>1, <1>3, <1>4, <1>5 DEF Fields, Kept
<1>7. Good(frame.blocks, brk)
  BY DEF HeapInv, Good
<1>8. frame'.blocks \cup stream'.buffer = frame.blocks /\ saved'.blocks \cup stream'.buffer = frame.blocks
  BY <1>1, <1>3, <1>5
<1> QED BY <1>1, <1>6, <1>7, <1>8 DEF HeapInv

\* Two streams with the same buffer; printing changes other fields.
SameStream(t, s) == DOMAIN t = DOMAIN s /\ t.set = s.set /\ t.buffer = s.buffer

LEMMA SameBuffer ==
  ASSUME NEW s, NEW v, NEW w
  PROVE  /\ SameStream([s EXCEPT !.text = v, !.cuts = w], s)
         /\ SameStream([s EXCEPT !.text = v], s)
BY DEF SameStream

\* What printing does afterwards leaves the buffer where it is.
LEMMA PrintingComputes ==
  ASSUME HeapInv, Put \/ Flush \/ Said
  PROVE  Computes
<1>1. frame.pc \in {"print", "flush"} /\ UNCHANGED <<program, saved, brk>>
  BY DEF Put, Flush, Said, At, OnStack, Quiet, sysVars
<1>2. frame.pc # "buffer" /\ program # "calls"
  BY <1>1 DEF HeapInv, Kept
<1>3. Like(frame', frame)
  <2>1. CASE Put
    <3>1. PICK v, w : frame' = [frame EXCEPT !.say = v, !.pc = w]
      BY <2>1, Zenon DEF Put
    <3> QED BY <3>1, OtherFields, Zenon
  <2>2. CASE Flush
    <3>1. PICK v : frame' = [frame EXCEPT !.pc = v]
      BY <2>2, Zenon DEF Flush
    <3> QED BY <3>1, OtherField, Zenon
  <2>3. CASE Said
    BY <2>3, OtherField, Zenon DEF Said
  <2> QED BY <2>1, <2>2, <2>3
<1>4. SameStream(stream', stream)
  <2>1. CASE Put
    <3>1. PICK v : stream' = [stream EXCEPT !.text = v]
      BY <2>1, Zenon DEF Put
    <3> QED BY <3>1, SameBuffer, Zenon
  <2>2. CASE Flush
    <3>1. PICK v, w : stream' = [stream EXCEPT !.text = v, !.cuts = w]
      BY <2>2, Zenon DEF Flush
    <3> QED BY <3>1, SameBuffer, Zenon
  <2>3. CASE Said
    BY <2>3 DEF Said, OnStack, Quiet, SameStream
  <2> QED BY <2>1, <2>2, <2>3
<1> QED BY <1>1, <1>2, <1>3, <1>4 DEF Computes, Like, SameStream

(***************************************************************************)
(* A program that makes any calls.                                         *)
(***************************************************************************)
\* The break moves up to give a block, stays, or moves down past no block that
\* the program holds or has saved.
LEMMA BreakMoves ==
  ASSUME HeapInv, Calling, NEW break \in heap_start .. heap_end, NEW B, Moves(break, B),
         B = {} \/ (B = {Block(brk, break - brk)} /\ break > brk)
  PROVE  HeapInv'
<1>1. /\ brk' = break /\ UNCHANGED <<program, saved, stream>>
      /\ program = "calls" /\ frame.pc = "main"
  BY DEF Moves, Calling, At
<1>2. stream.buffer = {} /\ Fields /\ Kept
  BY <1>1 DEF HeapInv, Kept
<1>3. frame' = [frame EXCEPT !.blocks = @ \cup B]
  BY DEF Moves
<1>4. DOMAIN frame' = DOMAIN frame /\ frame'.blocks = frame.blocks \cup B /\ frame'.pc = frame.pc
  <2>1. \A f, X : {"pc", "blocks"} \subseteq DOMAIN f =>
          LET g == [f EXCEPT !.blocks = X]
          IN DOMAIN g = DOMAIN f /\ g.blocks = X /\ g.pc = f.pc
    OBVIOUS
  <2> QED BY <1>2, <1>3, <2>1, Zenon DEF Fields
<1>5. Fields' /\ Kept'
  BY <1>1, <1>2, <1>4 DEF Fields, Kept
<1>6. Good(frame.blocks, brk) /\ Good(saved.blocks, brk) /\ brk \in Int /\ break \in Int /\ heap_start <= brk
  <2>1. frame.blocks \cup stream.buffer = frame.blocks /\ saved.blocks \cup stream.buffer = saved.blocks
    BY <1>2
  <2>2. Good(frame.blocks, brk) /\ Good(saved.blocks, brk)
    BY <2>1, Zenon DEF HeapInv
  <2>3. brk \in Int /\ break \in Int /\ heap_start <= brk
    BY HeapIs, SMT DEF HeapInv
  <2> QED BY <2>2, <2>3
<1>7. \A b \in frame.blocks \cup saved.blocks : b.start + b.size <= break
  BY DEF MayKeep, Moves
<1>8. Good(frame.blocks, break) /\ Good(saved.blocks, break)
  BY <1>6, <1>7, GoodKept
<1>9. Good(frame.blocks \cup B, break)
  <2>1. CASE B = {}
    BY <1>8, <2>1
  <2>2. CASE B = {Block(brk, break - brk)} /\ break > brk
    BY <1>6, <2>2, GoodGrows
  <2> QED BY <2>1, <2>2
<1>10. /\ frame'.blocks \cup stream'.buffer = frame.blocks \cup B
       /\ saved'.blocks \cup stream'.buffer = saved.blocks
  BY <1>1, <1>2, <1>4
<1> QED BY <1>1, <1>5, <1>8, <1>9, <1>10 DEF HeapInv

\* The calls that move the break.
LEMMA SbrkKeeps ==
  ASSUME HeapSize # 0, HeapInv, CallSbrk
  PROVE  HeapInv'
<1>1. PICK incr \in Increments :
        LET a == sbrk(incr)
        IN Moves(a.brk, IF a.result # Failed /\ incr > 0 THEN {Block(a.result, incr)} ELSE {})
  BY DEF CallSbrk
<1> DEFINE a == sbrk(incr)
           B == IF a.result # Failed /\ incr > 0 THEN {Block(a.result, incr)} ELSE {}
<1>2. incr \in -(Addresses \div 2) .. Addresses \div 2 - 1
  BY ApplicationsAssumption
<1>3. incr \in Int /\ brk \in Int /\ brk \in heap_start .. heap_end
  BY <1>2, HeapIs, SMT DEF HeapInv
<1>4. /\ a.brk \in heap_start .. heap_end
      /\ a.result # Failed /\ incr > 0 => a.result = brk /\ a.brk = brk + incr
  BY <1>2, Given DEF HeapInv
<1>5. Moves(a.brk, B)
  BY <1>1
<1> HIDE DEF a
<1>6. Calling
  BY DEF CallSbrk
<1>7. \/ B = {}
      \/ B = {Block(brk, a.brk - brk)} /\ a.brk > brk
  <2>1. CASE a.result # Failed /\ incr > 0
    <3>1. a.result = brk /\ incr = a.brk - brk /\ a.brk > brk
      BY <1>3, <1>4, <2>1, SMT
    <3> QED BY <2>1, <3>1
  <2>2. CASE ~(a.result # Failed /\ incr > 0)
    BY <2>2
  <2> QED BY <2>1, <2>2
<1> HIDE DEF B
<1> QED BY <1>4, <1>5, <1>6, <1>7, BreakMoves

LEMMA BrkKeeps ==
  ASSUME HeapInv, CallBrk
  PROVE  HeapInv'
<1>1. PICK addr \in 0 .. Addresses - 1 :
        LET a == set_brk(addr)
        IN Moves(a.brk, IF a.brk > brk THEN {Block(brk, a.brk - brk)} ELSE {})
  BY DEF CallBrk
<1> DEFINE a == set_brk(addr)
           B == IF a.brk > brk THEN {Block(brk, a.brk - brk)} ELSE {}
<1>2. a.brk \in heap_start .. heap_end
  BY DEF set_brk, Answer, HeapInv
<1>3. Moves(a.brk, B)
  BY <1>1
<1> HIDE DEF a
<1>4. Calling
  BY DEF CallBrk
<1>5. \/ B = {}
      \/ B = {Block(brk, a.brk - brk)} /\ a.brk > brk
  OBVIOUS
<1> HIDE DEF B
<1> QED BY <1>2, <1>3, <1>4, <1>5, BreakMoves

\* The calls that leave it alone.
LEMMA OtherCallsKeep ==
  ASSUME HeapInv, CallStub \/ CallCheckpoint \/ CallExit \/ Trap
  PROVE  HeapInv'
<1>1. /\ program = "calls" /\ frame.pc = "main" /\ UNCHANGED <<program, stream, brk>>
  BY DEF CallStub, CallCheckpoint, CallExit, Trap, Calling, At, OnStack, Quiet, sysVars
<1>2. stream.buffer = {} /\ Fields /\ Kept
  BY <1>1 DEF HeapInv, Kept
<1>3. DOMAIN frame' = DOMAIN frame /\ frame'.blocks = frame.blocks /\ frame'.pc \in {"main", "loop", "end"}
  <2>1. \A f, v : {"pc", "blocks"} \subseteq DOMAIN f =>
          LET g == [f EXCEPT !.pc = v]
          IN DOMAIN g = DOMAIN f /\ g.blocks = f.blocks /\ g.pc = v
    OBVIOUS
  <2>2. frame' = frame \/ frame' = [frame EXCEPT !.pc = "end"] \/ frame' = [frame EXCEPT !.pc = "loop"]
    BY Zenon DEF CallStub, CallCheckpoint, CallExit, Trap
  <2> QED BY <1>1, <1>2, <2>1, <2>2, Zenon DEF Fields
<1>4. UNCHANGED saved \/ saved' = frame
  BY DEF CallStub, CallCheckpoint, CallExit, Trap, OnStack
<1>5. Fields'
  BY <1>1, <1>2, <1>3, <1>4 DEF Fields
<1>6. Kept'
  BY <1>1, <1>2, <1>3, <1>4 DEF Kept
<1>7. /\ Good(frame'.blocks \cup stream'.buffer, brk')
      /\ Good(saved'.blocks \cup stream'.buffer, brk') /\ brk' \in heap_start .. heap_end
  BY <1>1, <1>3, <1>4 DEF HeapInv
<1> QED BY <1>5, <1>6, <1>7 DEF HeapInv

(***************************************************************************)
(* A recovery brings back blocks that the break is still above.            *)
(***************************************************************************)
LEMMA RecoveryKeeps ==
  ASSUME HeapInv, Recover
  PROVE  HeapInv'
<1>1. frame' = saved /\ UNCHANGED <<program, saved, stream, brk>> /\ saved # Nothing
  BY DEF Recover, sysVars
<1>2. Fields'
  BY <1>1 DEF HeapInv, Fields
<1>3. Kept'
  BY <1>1 DEF HeapInv, Kept
<1> QED BY <1>1, <1>2, <1>3 DEF HeapInv

LEMMA StutteringKeeps == HeapInv /\ UNCHANGED vars => HeapInv'
<1> SUFFICES ASSUME HeapInv, UNCHANGED vars PROVE HeapInv'
  OBVIOUS
<1>1. UNCHANGED <<program, frame, saved, stream, brk>>
  BY DEF vars, sysVars
<1>2. Fields' /\ Kept'
  BY <1>1 DEF HeapInv, Fields, Kept
<1> QED BY <1>1, <1>2 DEF HeapInv

(***************************************************************************)
(* The theorems.  A heap without room is left out: sbrk then returns 0,    *)
(* which a caller takes for a block.  link.ld gives the heap 2048 bytes.   *)
(***************************************************************************)
\* The blocks of the program and of its saved frame are always good ones.
THEOREM HeapInvariant ==
  ASSUME HeapSize # 0
  PROVE  Spec => []HeapInv
<1>1. HeapInv /\ [Next]_vars => HeapInv'
  <2> SUFFICES ASSUME HeapInv, [Next]_vars PROVE HeapInv'
    OBVIOUS
  <2>1. CASE Test
    BY <2>1, TestComputes, ComputesKeeps, StutteringKeeps
  <2>2. CASE Printf
    BY <2>2, BufferIsTaken, BufferIsGiven, PrintingComputes, ComputesKeeps DEF Printf
  <2>3. CASE Calls
    BY <2>3, SbrkKeeps, BrkKeeps, OtherCallsKeep DEF Calls
  <2>4. CASE Recover
    BY <2>4, RecoveryKeeps
  <2>5. CASE UNCHANGED vars
    BY <2>5, StutteringKeeps
  <2> QED BY <2>1, <2>2, <2>3, <2>4, <2>5 DEF Next
<1> QED BY <1>1, Initially, PTL DEF Spec

\* No two blocks that a program holds share an address, and all of them lie
\* in the part of the heap that the break of syscalls.c has given away.
THEOREM BlocksStayApart ==
  ASSUME HeapSize # 0
  PROVE  Spec => []BlocksApart
<1>1. HeapInv => BlocksApart
  <2> SUFFICES ASSUME HeapInv, NEW b \in Held
               PROVE  /\ Extent(b) \subseteq heap_start .. brk - 1
                      /\ brk <= heap_end
                      /\ \A c \in Held : b # c => Extent(b) \cap Extent(c) = {}
    BY DEF BlocksApart
  <2>1. brk \in Int /\ brk <= heap_end
    BY HeapIs, SMT DEF HeapInv
  <2>2. \A c \in Held : Placed(c, brk) /\ (b # c => Clear(b, c))
    BY DEF HeapInv, Good, Held
  <2>3. Extent(b) \subseteq heap_start .. brk - 1
    BY <2>1, <2>2, HeapIs, SMT DEF Extent, Placed
  <2>4. ASSUME NEW c \in Held, b # c PROVE Extent(b) \cap Extent(c) = {}
    BY <2>2, <2>4, SMT DEF Extent, Placed, Clear
  <2> QED BY <2>1, <2>3, <2>4
<1> QED BY <1>1, HeapInvariant, PTL

(***************************************************************************)
(* The answers.                                                            *)
(***************************************************************************)
Sayings == {"SUCCESS!", "ECB decrypt: ", "Hello world!"}
Text == [text : Sayings, newline : BOOLEAN, whole : BOOLEAN]
Names == {"pc", "buf", "ctx", "round", "i", "exit", "say", "then", "blocks"}
Answerers == {"test_encrypt_ecb", "test_decrypt_ecb", "hello_world"}
TheAnswer == Line(Answers[program])
Greeting  == Line("Hello world!")
Announced == Prompt("ECB decrypt: ")

Sound(f)  == DOMAIN f = Names /\ f.exit = 0 /\ f.i = 1
Input     == IF Decrypts THEN <<cipherText>> ELSE <<plainText[1]>>
Output    == IF Decrypts THEN <<plainText[1]>> ELSE <<cipherText>>

\* Where a program is on the way to its answer, and what is in its frame there.
OnTheWay(words, e, d) ==
  \/ At("main") /\ frame.ctx = <<>>
  \/ /\ At("checkpoint") /\ program = "test_encrypt_ecb"
     /\ frame.buf = Input /\ frame.ctx = <<>>
  \/ /\ At("schedule") /\ program # "hello_world"
     /\ frame.buf = Input /\ \E n \in 0 .. Nb * (Nr + 1) : frame.ctx = words[n]
  \/ /\ At("rounds") /\ program # "hello_world"
     /\ frame.ctx = words[Nb * (Nr + 1)] /\ frame.round \in 0 .. Nr
     /\ frame.buf = IF Decrypts THEN <<d[frame.round]>> ELSE <<e[frame.round]>>
  \/ At("compare") /\ program # "hello_world" /\ frame.buf = Output
  \/ /\ frame.pc \in {"print", "buffer", "flush"} /\ frame.then = "compare" /\ Decrypts
     /\ frame.buf = Output
     /\ frame.say = <<>> \/ (frame.pc # "flush" /\ frame.say = <<Announced>>)

\* It has the answer, and gives it to the stream, and the stream to _write.
Answering ==
  \/ frame.pc \in {"print", "buffer"} /\ frame.then = "return" /\ frame.say = <<TheAnswer>>
  \/ At("print") /\ frame.then = "return" /\ frame.say = <<>> /\ Told(written)
  \/ At("flush") /\ frame.then = "return" /\ frame.say = <<>> /\ Told(written \o stream.text)
  \/ frame.pc \in {"return", "end"} /\ Told(written)

\* Only the test that encrypts has a checkpoint: the block is still the plain text.
AtCheckpoint == /\ program = "test_encrypt_ecb" /\ Sound(saved)
                /\ saved.pc = "schedule" /\ saved.buf = Input /\ saved.ctx = <<>>

AnswerInv(words, e, d) ==
  program \in Answerers =>
    /\ Sound(frame) /\ (OnTheWay(words, e, d) \/ Answering)
    /\ saved = Nothing \/ AtCheckpoint
    /\ written \in Seq(Text) /\ stream.text \in Seq(Text) /\ "text" \in DOMAIN stream

\* The answers, as texts.
LEMMA AnswersAre ==
  /\ DOMAIN Answers = Answerers
  /\ Answers["test_encrypt_ecb"] = "SUCCESS!" /\ Answers["test_decrypt_ecb"] = "SUCCESS!"
  /\ program \in Answerers => TheAnswer \in Text /\ TheAnswer.whole /\ TheAnswer.newline
  /\ program = "hello_world" => TheAnswer = Greeting
  /\ Announced \in Text
<1>1. /\ DOMAIN Answers = Answerers
      /\ Answers["test_encrypt_ecb"] = "SUCCESS!" /\ Answers["test_decrypt_ecb"] = "SUCCESS!"
  BY DEF Answers, Answerers
<1>3. ASSUME NEW p \in Answerers PROVE Answers[p] \in Sayings
  <2>1. /\ Answers["test_encrypt_ecb"] = "SUCCESS!" /\ Answers["test_decrypt_ecb"] = "SUCCESS!"
        /\ Answers["hello_world"] = "Hello world!"
    BY DEF Answers
  <2> QED BY <1>3, <2>1, Zenon DEF Answerers, Sayings
<1>2. \A s : s \in Sayings => /\ Line(s) \in Text /\ Line(s).whole /\ Line(s).newline
                            /\ Prompt(s) \in Text
  BY DEF Line, Prompt, Text
<1>4. Announced \in Text
  <2>1. "ECB decrypt: " \in Sayings
    BY Zenon DEF Sayings
  <2> QED BY <1>2, <2>1, Zenon DEF Announced
<1>5. program = "hello_world" => TheAnswer = Greeting
  <2>1. Answers["hello_world"] = "Hello world!"
    BY DEF Answers
  <2> QED BY <2>1, Zenon DEF TheAnswer, Greeting
<1> QED BY <1>1, <1>2, <1>3, <1>4, <1>5 DEF TheAnswer

\* What is written again are texts.
LEMMA RestsTyped ==
  ASSUME NEW t \in Seq(Text), NEW rest \in Rests(t)
  PROVE  rest \in Seq(Text)
<1>1. CASE rest = <<>>
  BY <1>1
<1>2. CASE rest # <<>>
  <2>1. PICK k \in DOMAIN t : rest = <<[t[k] EXCEPT !.whole = FALSE]>> \o SubSeq(t, k + 1, Len(t))
    BY <1>2, Zenon DEF Rests
  <2>2. k \in 1 .. Len(t) /\ t[k] \in Text /\ Len(t) \in Nat
    BY <2>1, LenProperties, ElementOfSeq
  <2>3. [t[k] EXCEPT !.whole = FALSE] \in Text
    BY <2>2 DEF Text
  <2>5. <<[t[k] EXCEPT !.whole = FALSE]>> \in Seq(Text)
    BY <2>3
  <2>4. SubSeq(t, k + 1, Len(t)) \in Seq(Text)
    <3>1. \A i \in k + 1 .. Len(t) : t[i] \in Text
      BY <2>2, ElementOfSeq
    <3> QED BY <2>2, <3>1, SubSeqProperties
  <2> QED BY <2>1, <2>4, <2>5, ConcatProperties
<1> QED BY <1>1, <1>2

\* The last text of all is told.
LEMMA ToldNow ==
  ASSUME NEW w \in Seq(Text), NEW t \in Seq(Text), TheAnswer \in Text
  PROVE  Told(w \o Append(t, TheAnswer))
<1> DEFINE u == Append(t, TheAnswer)
           s == w \o u
<1>1. /\ u \in Seq(Text) /\ Len(u) = Len(t) + 1 /\ u[Len(u)] = TheAnswer
      /\ Len(w) \in Nat /\ Len(t) \in Nat
  OBVIOUS
<1> HIDE DEF u
<1>2. /\ s \in Seq(Text) /\ Len(s) = Len(w) + Len(u)
      /\ \A i \in 1 .. Len(w) + Len(u) : s[i] = IF i <= Len(w) THEN w[i] ELSE u[i - Len(w)]
  BY <1>1, ConcatProperties
<1>3. DOMAIN s = 1 .. Len(s)
  BY <1>2, LenProperties
<1> HIDE DEF s
<1>4. Len(s) \in 1 .. Len(w) + Len(u) /\ ~(Len(s) <= Len(w)) /\ Len(s) - Len(w) = Len(u)
  BY <1>1, <1>2
<1>5. s[Len(s)] = TheAnswer
  BY <1>1, <1>2, <1>4
<1>6. \A m \in 1 .. Len(s) : ~(m > Len(s))
  BY <1>1, <1>2
<1> QED BY <1>2, <1>3, <1>4, <1>5, <1>6 DEF Told, TheAnswer, s, u

\* The place n of a text among the N that have been given before, the text cut at
\* place low, and the places of the r texts of the rest.
Beyond(n, low, N, r) ==
  /\ n > low => /\ n - low + 1 \in 2 .. r /\ n - low + 1 \in 1 .. r
                /\ low + (n - low + 1) - 1 = n
                /\ \A m \in 1 .. N + r :
                     m > N + (n - low + 1) => m - N \in 2 .. r /\ low + (m - N) - 1 > n
  /\ ~(n > low) => \A m \in 1 .. N + r :
                     m > N + 1 => m - N \in 2 .. r /\ low + (m - N) - 1 > n
  /\ \A m \in 1 .. N + r : m > N => m - N \in 1 .. r /\ m = N + (m - N)
  /\ \A m \in 1 .. N + r : m \in 1 .. N \/ m = N + 1 \/ m > N + 1

LEMMA Places ==
  ASSUME NEW before \in Nat, NEW given \in Nat, NEW k \in 1 .. given, NEW low, NEW N, NEW r,
         low = before + k, N = before + given, r = 1 + given - k, NEW n \in 1 .. N
  PROVE  Beyond(n, low, N, r)
BY DEF Beyond

\* What is told stays told when the rest of a text is written again: the rest has
\* the answer as a whole, or no whole text after it.
LEMMA RestsKeep ==
  ASSUME NEW w \in Seq(Text), NEW t \in Seq(Text), Told(w \o t), NEW rest \in Rests(t)
  PROVE  rest \in Seq(Text) /\ Told((w \o t) \o rest)
<1> DEFINE s == w \o t
<1>1. /\ s \in Seq(Text) /\ Len(s) = Len(w) + Len(t) /\ Len(w) \in Nat /\ Len(t) \in Nat
      /\ DOMAIN s = 1 .. Len(s)
      /\ \A i \in 1 .. Len(t) : s[Len(w) + i] = t[i]
  <2>1. /\ s \in Seq(Text) /\ Len(s) = Len(w) + Len(t)
        /\ \A i \in 1 .. Len(w) + Len(t) : s[i] = IF i <= Len(w) THEN w[i] ELSE t[i - Len(w)]
    BY ConcatProperties, Zenon
  <2>2. Len(w) \in Nat /\ Len(t) \in Nat /\ DOMAIN s = 1 .. Len(s)
    BY <2>1, LenProperties
  <2> HIDE DEF s
  <2>3. ASSUME NEW i \in 1 .. Len(t) PROVE s[Len(w) + i] = t[i]
    BY <2>1, <2>2
  <2> QED BY <2>1, <2>2, <2>3
<1>2. CASE rest = <<>>
  <2>1. s \o rest = s /\ rest \in Seq(Text)
    BY <1>1, <1>2, ConcatEmptySeq, EmptySeq
  <2> QED BY <2>1
<1>3. CASE rest # <<>>
  <2>1. PICK k \in DOMAIN t : rest = <<[t[k] EXCEPT !.whole = FALSE]>> \o SubSeq(t, k + 1, Len(t))
    BY <1>3, Zenon DEF Rests
  <2> DEFINE cut  == [t[k] EXCEPT !.whole = FALSE]
             tail == SubSeq(t, k + 1, Len(t))
  <2>2. k \in 1 .. Len(t) /\ t[k] \in Text
    BY <2>1, LenProperties, ElementOfSeq
  <2>3. cut \in Text /\ cut.whole = FALSE
    BY <2>2 DEF Text
  <2>4. /\ tail \in Seq(Text) /\ Len(tail) = Len(t) - k
        /\ \A i \in 1 .. Len(t) - k : tail[i] = t[k + i]
    <3>1. \A i \in k + 1 .. Len(t) : t[i] \in Text
      BY <1>1, <2>2, ElementOfSeq
    <3>2. k + 1 \in Int /\ Len(t) \in Int
      BY <1>1, <2>2
    <3>3. /\ SubSeq(t, k + 1, Len(t)) \in Seq(Text)
          /\ Len(SubSeq(t, k + 1, Len(t))) = IF k + 1 <= Len(t) THEN Len(t) - (k + 1) + 1 ELSE 0
          /\ \A i \in 1 .. Len(t) - (k + 1) + 1 : SubSeq(t, k + 1, Len(t))[i] = t[(k + 1) + i - 1]
      BY <3>1, <3>2, SubSeqProperties
    <3> HIDE DEF tail
    <3>4. Len(tail) = Len(t) - k
      BY <1>1, <2>2, <3>3 DEF tail
    <3>5. ASSUME NEW i \in 1 .. Len(t) - k PROVE tail[i] = t[k + i]
      <4>1. i \in 1 .. Len(t) - (k + 1) + 1 /\ (k + 1) + i - 1 = k + i
        BY <1>1, <2>2
      <4> QED BY <3>3, <4>1 DEF tail
    <3> QED BY <3>3, <3>4, <3>5 DEF tail
  <2> HIDE DEF cut, tail
  <2>5. <<cut>> \in Seq(Text) /\ Len(<<cut>>) = 1 /\ <<cut>>[1] = cut
    BY <2>3
  <2>6. /\ rest \in Seq(Text) /\ Len(rest) = 1 + Len(t) - k
        /\ rest[1] = cut
        /\ \A j \in 2 .. Len(rest) : rest[j] = t[k + j - 1]
    <3>1. rest = <<cut>> \o tail
      BY <2>1 DEF cut, tail
    <3>2. /\ rest \in Seq(Text) /\ Len(rest) = 1 + Len(tail)
          /\ \A i \in 1 .. 1 + Len(tail) : rest[i] = IF i <= 1 THEN <<cut>>[i] ELSE tail[i - 1]
      BY <2>4, <2>5, <3>1, ConcatProperties
    <3>3. Len(tail) = Len(t) - k
      BY <2>4
    <3>4. ASSUME NEW j \in 2 .. Len(rest) PROVE rest[j] = t[k + j - 1]
      <4>1. j - 1 \in 1 .. Len(t) - k /\ j \in 1 .. 1 + Len(tail) /\ ~(j <= 1) /\ k + (j - 1) = k + j - 1
        BY <1>1, <2>2, <3>2, <3>3
      <4>2. rest[j] = tail[j - 1]
        BY <3>2, <4>1
      <4> QED BY <2>4, <4>1, <4>2
    <3>5. rest[1] = cut
      BY <1>1, <2>2, <2>5, <3>2, <3>3
    <3> QED BY <1>1, <2>2, <3>2, <3>3, <3>4, <3>5
  <2>7. /\ DOMAIN (s \o rest) = 1 .. Len(s) + Len(rest)
        /\ \A i \in 1 .. Len(s) : (s \o rest)[i] = s[i]
        /\ \A j \in 1 .. Len(rest) : (s \o rest)[Len(s) + j] = rest[j]
    <3> HIDE DEF s
    <3> DEFINE all == s \o rest
    <3>1. /\ all \in Seq(Text) /\ Len(all) = Len(s) + Len(rest)
          /\ \A i \in 1 .. Len(s) + Len(rest) : all[i] = IF i <= Len(s) THEN s[i] ELSE rest[i - Len(s)]
      <4>1. s \in Seq(Text) /\ rest \in Seq(Text)
        BY <1>1, <2>6
      <4> QED BY <4>1, ConcatProperties, Zenon
    <3>2. DOMAIN all = 1 .. Len(all) /\ Len(rest) \in Nat /\ Len(s) \in Nat
      BY <1>1, <2>6, <3>1, LenProperties
    <3> HIDE DEF all
    <3>3. \A i \in 1 .. Len(s) : all[i] = s[i]
      BY <3>1, <3>2
    <3>4. ASSUME NEW j \in 1 .. Len(rest) PROVE all[Len(s) + j] = rest[j]
      BY <3>1, <3>2
    <3> QED BY <3>1, <3>2, <3>3, <3>4 DEF all
  <2>8. PICK n \in DOMAIN s : /\ s[n] = Line(Answers[program])
                              /\ \A m \in DOMAIN s : m > n => ~s[m].whole
    BY DEF Told
  <2> HIDE DEF s
  <2> DEFINE all == s \o rest
             low == Len(w) + k
  <2>13. /\ low = Len(w) + k /\ Len(w) \in Nat /\ Len(t) \in Nat /\ k \in 1 .. Len(t)
         /\ Len(s) = Len(w) + Len(t) /\ Len(rest) = 1 + Len(t) - k /\ n \in 1 .. Len(s)
    BY <1>1, <2>2, <2>6, <2>8
  <2>14. Beyond(n, low, Len(s), Len(rest))
    <3> HIDE DEF low
    <3> QED BY <2>13, Places
  <2>9. /\ low \in Int /\ n \in Int /\ Len(s) \in Int /\ Len(rest) \in Int /\ n >= 1 /\ n <= Len(s)
        /\ low = Len(w) + k /\ Len(w) \in Int /\ Len(w) >= 0 /\ k \in Int /\ k >= 1 /\ Len(t) \in Int
        /\ Len(rest) = 1 + Len(t) - k /\ Len(s) = Len(w) + Len(t) /\ k <= Len(t)
    BY <1>1, <2>2, <2>6, <2>8
  <2> HIDE DEF low
  <2>10. \A j \in 2 .. Len(rest) : low + j - 1 \in DOMAIN s /\ rest[j] = s[low + j - 1]
    <3> SUFFICES ASSUME NEW j \in 2 .. Len(rest) PROVE low + j - 1 \in DOMAIN s /\ rest[j] = s[low + j - 1]
      OBVIOUS
    <3>1. /\ k + j - 1 \in 1 .. Len(t) /\ low + j - 1 = Len(w) + (k + j - 1)
          /\ low + j - 1 \in 1 .. Len(s)
      BY <2>9
    <3>2. s[low + j - 1] = t[k + j - 1]
      BY <1>1, <3>1
    <3> QED BY <1>1, <2>6, <3>1, <3>2
  <2>11. CASE n > low
    <3> DEFINE j == n - low + 1
    <3>1. j \in 2 .. Len(rest) /\ j \in 1 .. Len(rest) /\ low + j - 1 = n
      BY <2>11, <2>14 DEF Beyond
    <3>2. \A m \in 1 .. Len(s) + Len(rest) :
            m > Len(s) + j => m - Len(s) \in 2 .. Len(rest) /\ low + (m - Len(s)) - 1 > n
      BY <2>11, <2>14 DEF Beyond
    <3> HIDE DEF j
    <3>3. Len(s) + j \in DOMAIN all /\ all[Len(s) + j] = s[n]
      <4>1. Len(s) + j \in 1 .. Len(s) + Len(rest)
        BY <2>9, <3>1
      <4> QED BY <2>7, <2>10, <3>1, <4>1
    <3>4. ASSUME NEW m \in DOMAIN all, m > Len(s) + j PROVE ~all[m].whole
      <4>1. m \in 1 .. Len(s) + Len(rest)
        BY <2>7
      <4>2. m > Len(s)
        BY <2>9, <3>1, <3>4, <4>1
      <4> DEFINE i == m - Len(s)
      <4>3. i \in 2 .. Len(rest) /\ low + i - 1 > n /\ i \in 1 .. Len(rest) /\ m = Len(s) + i
        BY <2>14, <3>2, <3>4, <4>1, <4>2 DEF Beyond
      <4> HIDE DEF i
      <4>4. all[m] = s[low + i - 1] /\ low + i - 1 \in DOMAIN s
        BY <2>7, <2>10, <4>3
      <4> QED BY <2>8, <4>3, <4>4
    <3> QED BY <2>6, <2>8, <3>3, <3>4 DEF Told, s
  <2>12. CASE ~(n > low)
    <3>1. n \in DOMAIN all /\ all[n] = s[n]
      BY <1>1, <2>6, <2>7, <2>8
    <3>2. ASSUME NEW m \in DOMAIN all, m > n PROVE ~all[m].whole
      <4>0. m \in 1 .. Len(s) + Len(rest)
        BY <2>7
      <4>1. CASE m \in 1 .. Len(s)
        <5>1. all[m] = s[m] /\ m \in DOMAIN s
          BY <1>1, <2>7, <4>1
        <5> QED BY <2>8, <3>2, <5>1
      <4>2. CASE m = Len(s) + 1
        <5>1. 1 \in 1 .. Len(rest)
          BY <2>9
        <5> QED BY <2>3, <2>6, <2>7, <4>2, <5>1
      <4>3. CASE m > Len(s) + 1
        <5> DEFINE i == m - Len(s)
        <5>1. m > Len(s)
          BY <2>9, <4>0, <4>3
        <5>2. i \in 2 .. Len(rest) /\ low + i - 1 > n /\ i \in 1 .. Len(rest) /\ m = Len(s) + i
          BY <2>12, <2>14, <4>0, <4>3, <5>1 DEF Beyond
        <5> HIDE DEF i
        <5>3. all[m] = s[low + i - 1] /\ low + i - 1 \in DOMAIN s
          BY <2>7, <2>10, <5>2
        <5> QED BY <2>8, <5>2, <5>3
      <4>4. m \in 1 .. Len(s) \/ m = Len(s) + 1 \/ m > Len(s) + 1
        BY <2>14, <4>0 DEF Beyond
      <4> QED BY <4>1, <4>2, <4>3, <4>4
    <3> QED BY <2>6, <2>8, <3>1, <3>2 DEF Told, s
  <2> QED BY <2>9, <2>11, <2>12
<1> QED BY <1>2, <1>3
\* What a step changes in a frame: the fields N, and no other.
Changes(g, f, N) == DOMAIN g = Names /\ \A n \in Names \ N : g[n] = f[n]

LEMMA SetPc ==
  ASSUME NEW f, DOMAIN f = Names, NEW v
  PROVE  LET g == [f EXCEPT !.pc = v] IN Changes(g, f, {"pc"}) /\ g.pc = v
BY DEF Names, Changes

LEMMA SetCtx ==
  ASSUME NEW f, DOMAIN f = Names, NEW v
  PROVE  LET g == [f EXCEPT !.ctx = v] IN Changes(g, f, {"ctx"}) /\ g.ctx = v
BY DEF Names, Changes

LEMMA SetBuf ==
  ASSUME NEW f, DOMAIN f = Names, NEW v
  PROVE  LET g == [f EXCEPT !.buf = v] IN Changes(g, f, {"buf"}) /\ g.buf = v
BY DEF Names, Changes

LEMMA SetExit ==
  ASSUME NEW f, DOMAIN f = Names, NEW v
  PROVE  LET g == [f EXCEPT !.exit = v] IN Changes(g, f, {"exit"}) /\ g.exit = v
BY DEF Names, Changes

LEMMA SetRound ==
  ASSUME NEW f, DOMAIN f = Names, NEW v
  PROVE  LET g == [f EXCEPT !.round = v] IN Changes(g, f, {"round"}) /\ g.round = v
BY DEF Names, Changes

LEMMA SetPcRound ==
  ASSUME NEW f, DOMAIN f = Names, NEW v, NEW w
  PROVE  LET g == [f EXCEPT !.pc = v, !.round = w]
         IN Changes(g, f, {"pc", "round"}) /\ g.pc = v /\ g.round = w
BY DEF Names, Changes

LEMMA SaySets ==
  ASSUME NEW f, DOMAIN f = Names, NEW v, NEW w
  PROVE  LET g == Say(f, v, w)
         IN Changes(g, f, {"say", "pc", "then"}) /\ g.say = v /\ g.pc = "print" /\ g.then = w
BY DEF Names, Changes, Say

\* A program that answers makes no calls of its own, and stays what it is.
LEMMA Answerer ==
  ASSUME program \in Answerers
  PROVE  /\ program # "calls" /\ ~Verbose
         /\ Decrypts => program = "test_decrypt_ecb"
         /\ ~Decrypts => program \in {"test_encrypt_ecb", "hello_world"}
         /\ Next => UNCHANGED program
         /\ ~Calls
<1>1. program # "calls" /\ ~Verbose
  BY DEF Answerers, Verbose
<1>2. /\ Decrypts => program = "test_decrypt_ecb"
      /\ ~Decrypts => program \in {"test_encrypt_ecb", "hello_world"}
  BY DEF Answerers, Decrypts
<1>3. ~Calls
  BY <1>1 DEF Calls, CallSbrk, CallBrk, CallStub, CallCheckpoint, CallExit, Trap, Calling
<1>4. Test => UNCHANGED program
  BY DEF Test, HelloWorld, Start, Checkpoint, Schedule, EncryptRound, DecryptRound, Compare,
         Return, Ended, OnStack, Quiet, vars
<1>5. Printf \/ Recover => UNCHANGED program
  BY DEF Printf, TakeBuffer, SetBuffer, Put, Flush, Said, OnStack, Quiet, Recover
<1> QED BY <1>1, <1>2, <1>3, <1>4, <1>5 DEF Next
\* A pass of the cipher over the only block of the buffer.
LEMMA PassIs ==
  ASSUME NEW f, NEW x, DOMAIN f = Names, f.i = 1, f.buf = <<x>>
  PROVE  /\ LET g == [f EXCEPT !.buf[f.i] = CipherRound(f.round, @, f.ctx)]
            IN Changes(g, f, {"buf"}) /\ g.buf = <<CipherRound(f.round, x, f.ctx)>>
         /\ LET g == [f EXCEPT !.buf[1] = InvCipherRound(f.round, @, f.ctx)]
            IN Changes(g, f, {"buf"}) /\ g.buf = <<InvCipherRound(f.round, x, f.ctx)>>
<1>1. "buf" \in DOMAIN f
  BY DEF Names
<1>2. \A y : [f.buf EXCEPT ![f.i] = y] = <<y>> /\ [f.buf EXCEPT ![1] = y] = <<y>> /\ f.buf[1] = x /\ f.buf[f.i] = x
  OBVIOUS
<1> DEFINE y == CipherRound(f.round, x, f.ctx)
           z == InvCipherRound(f.round, x, f.ctx)
           g == [f EXCEPT !.buf = [f.buf EXCEPT ![f.i] = CipherRound(f.round, f.buf[f.i], f.ctx)]]
           h == [f EXCEPT !.buf = [f.buf EXCEPT ![1] = InvCipherRound(f.round, f.buf[1], f.ctx)]]
<1>3. g = [f EXCEPT !.buf = <<y>>] /\ h = [f EXCEPT !.buf = <<z>>]
  BY <1>2
<1>4. \A v : LET k == [f EXCEPT !.buf = v] IN Changes(k, f, {"buf"}) /\ k.buf = v
  BY SetBuf
<1> QED BY <1>3, <1>4

\* What a program does on its own.
LEMMA TestAnswers ==
  ASSUME NEW words, NEW e, NEW d, CipherAnswers(words, e, d),
         AnswerInv(words, e, d), program \in Answerers, Test
  PROVE  AnswerInv(words, e, d)'
<1>1. UNCHANGED program /\ program # "calls" /\ ~Verbose
  BY Answerer DEF Next
<1>2. /\ Sound(frame) /\ (OnTheWay(words, e, d) \/ Answering)
      /\ saved = Nothing \/ AtCheckpoint
      /\ written \in Seq(Text) /\ stream.text \in Seq(Text) /\ "text" \in DOMAIN stream
  BY DEF AnswerInv
<1>3. DOMAIN frame = Names /\ frame.exit = 0 /\ frame.i = 1
  BY <1>2 DEF Sound
<1>4. UNCHANGED <<stream, written>>
  BY DEF Test, HelloWorld, Start, Checkpoint, Schedule, EncryptRound, DecryptRound, Compare,
         Return, Ended, OnStack, Quiet, sysVars, vars
<1> DEFINE all == Nb * (Nr + 1)
<1>5. Names = {"pc", "buf", "ctx", "round", "i", "exit", "say", "then", "blocks"}
  BY DEF Names
<1>6. SUFFICES /\ Sound(frame') /\ (OnTheWay(words, e, d)' \/ Answering')
               /\ saved' = saved \/ AtCheckpoint'
  <2>1. (saved = Nothing \/ AtCheckpoint)' <=> (saved' = Nothing \/ AtCheckpoint')
    BY DEF Nothing
  <2>2. saved' = saved => (saved' = Nothing \/ AtCheckpoint')
    BY <1>1, <1>2 DEF AtCheckpoint, Input, Decrypts
  <2> QED BY <1>2, <1>4, <1>6, <2>1, <2>2 DEF AnswerInv, Sound
<1>7. CASE HelloWorld
  <2>1. frame' = Say(frame, <<Greeting>>, "return") /\ UNCHANGED saved /\ program = "hello_world"
    BY <1>7, Zenon DEF HelloWorld, OnStack, Greeting
  <2>2. TheAnswer' = Greeting
    BY <1>1, <2>1, AnswersAre DEF TheAnswer
  <2>4. /\ Changes(frame', frame, {"say", "pc", "then"})
        /\ frame'.pc = "print" /\ frame'.then = "return" /\ frame'.say = <<Greeting>>
    BY <1>3, <2>1, SaySets
  <2>3. Sound(frame') /\ frame'.pc = "print" /\ frame'.then = "return" /\ frame'.say = <<Greeting>>
    BY <1>3, <1>5, <2>4 DEF Sound, Changes
  <2> QED BY <2>1, <2>2, <2>3 DEF Answering
<1>8. CASE Start
  <2>1. /\ UNCHANGED saved /\ program # "hello_world" /\ frame.pc = "main" /\ frame.ctx = <<>>
    BY <1>2, <1>8 DEF Start, At, OnTheWay, Answering
  <2> DEFINE f == [frame EXCEPT !.buf = CASE Verbose  -> plainText
                                          [] Decrypts -> <<cipherText>>
                                          [] OTHER    -> <<plainText[1]>>]
  <2>2. f = [frame EXCEPT !.buf = Input]
    BY <1>1, Zenon DEF Input
  <2>3. Changes(f, frame, {"buf"}) /\ f.buf = Input
    <3> HIDE DEF f
    <3> QED BY <1>3, <2>2, SetBuf
  <2>4. frame' = IF Decrypts THEN [f EXCEPT !.pc = "schedule"] ELSE [f EXCEPT !.pc = "checkpoint"]
    BY <1>1, <1>8, Zenon DEF Start
  <2> HIDE DEF f
  <2>5. /\ Changes(frame', f, {"pc"})
        /\ frame'.pc = IF Decrypts THEN "schedule" ELSE "checkpoint"
    BY <2>3, <2>4, SetPc DEF Changes
  <2>6. Sound(frame') /\ frame'.buf = Input /\ frame'.ctx = <<>>
    BY <1>3, <1>5, <2>1, <2>3, <2>5 DEF Sound, Changes
  <2>7. (Decrypts <=> Decrypts') /\ Input' = Input /\ program' # "hello_world"
    BY <1>1, <2>1 DEF Decrypts, Input
  <2>8. ~Decrypts => program' = "test_encrypt_ecb"
    BY <1>1, <2>1, Answerer
  <2>9. 0 \in 0 .. all /\ words[0] = <<>>
    BY DEF CipherAnswers, Nb, Nr
  <2> QED BY <2>1, <2>5, <2>6, <2>7, <2>8, <2>9 DEF OnTheWay, At
<1>9. CASE Checkpoint
  <2>1. /\ saved' = frame' /\ frame.pc = "checkpoint" /\ program = "test_encrypt_ecb"
        /\ frame.buf = Input /\ frame.ctx = <<>>
    BY <1>2, <1>9 DEF Checkpoint, At, OnTheWay, Answering
  <2>2. frame' = [frame EXCEPT !.pc = "schedule"]
    BY <1>9 DEF Checkpoint
  <2>3. Sound(frame') /\ frame'.buf = Input /\ frame'.ctx = <<>> /\ frame'.pc = "schedule"
    BY <1>3, <1>5, <2>1, <2>2, SetPc DEF Sound, Changes
  <2>4. Input' = Input /\ program' = "test_encrypt_ecb"
    BY <1>1, <2>1 DEF Decrypts, Input
  <2>5. 0 \in 0 .. all /\ words[0] = <<>>
    BY DEF CipherAnswers, Nb, Nr
  <2>6. OnTheWay(words, e, d)'
    BY <2>3, <2>4, <2>5 DEF OnTheWay, At
  <2>7. AtCheckpoint'
    BY <2>1, <2>3, <2>4 DEF AtCheckpoint, Sound
  <2> QED BY <2>3, <2>6, <2>7
<1>10. CASE Schedule
  <2>1. /\ frame.pc = "schedule" /\ UNCHANGED saved /\ program # "hello_world" /\ frame.buf = Input
        /\ \E n \in 0 .. all : frame.ctx = words[n]
    BY <1>2, <1>10 DEF Schedule, At, OnTheWay, Answering, OnStack
  <2>2. PICK n \in 0 .. all : frame.ctx = words[n]
    BY <2>1
  <2>3. Len(frame.ctx) = n
    BY <2>2 DEF CipherAnswers
  <2>4. (Decrypts <=> Decrypts') /\ Input' = Input /\ program' # "hello_world"
    BY <1>1, <2>1 DEF Decrypts, Input
  <2>5. CASE n = all
    <3>1. frame' = [frame EXCEPT !.pc = "rounds", !.round = IF Decrypts THEN Nr ELSE 0]
      BY <1>10, <2>3, <2>5, Zenon DEF Schedule
    <3>2. /\ Sound(frame') /\ frame'.buf = Input /\ frame'.ctx = words[all] /\ frame'.pc = "rounds"
          /\ frame'.round = IF Decrypts THEN Nr ELSE 0
      BY <1>3, <1>5, <2>1, <2>2, <2>5, <3>1, SetPcRound DEF Sound, Changes
    <3>3. 0 \in 0 .. Nr /\ Nr \in 0 .. Nr
      BY DEF Nr
    <3>4. Input = IF Decrypts THEN <<d[Nr]>> ELSE <<e[0]>>
      BY DEF Input, CipherAnswers
    <3>5. frame'.buf = IF Decrypts' THEN <<d[frame'.round]>> ELSE <<e[frame'.round]>>
      BY <2>4, <3>2, <3>4
    <3>6. frame'.round \in 0 .. Nr
      BY <3>2, <3>3
    <3> QED BY <2>1, <2>4, <3>2, <3>5, <3>6 DEF OnTheWay, At
  <2>6. CASE n # all
    <3>1. frame' = [frame EXCEPT !.ctx = KeyExpansion(@, testKey)]
      BY <1>10, <2>3, <2>6, Zenon DEF Schedule
    <3>2. n \in 0 .. all - 1 /\ n + 1 \in 0 .. all
      BY <2>6 DEF Nb, Nr
    <3>3. KeyExpansion(frame.ctx, testKey) = words[n + 1]
      BY <2>2, <3>2 DEF CipherAnswers
    <3>4. Sound(frame') /\ frame'.buf = Input /\ frame'.ctx = words[n + 1] /\ frame'.pc = "schedule"
      BY <1>3, <1>5, <2>1, <3>1, <3>3, SetCtx DEF Sound, Changes
    <3> QED BY <2>1, <2>4, <3>2, <3>4 DEF OnTheWay, At
  <2> QED BY <2>5, <2>6
<1>11. CASE EncryptRound
  <2>1. /\ frame.pc = "rounds" /\ UNCHANGED saved /\ program = "test_encrypt_ecb" /\ ~Decrypts
        /\ frame.ctx = words[all] /\ frame.round \in 0 .. Nr /\ frame.buf = <<e[frame.round]>>
    BY <1>2, <1>11, Answerer DEF EncryptRound, At, OnTheWay, Answering, OnStack
  <2> DEFINE f == [frame EXCEPT !.buf[frame.i] = CipherRound(frame.round, @, frame.ctx)]
  <2>2. Changes(f, frame, {"buf"}) /\ f.buf = <<CipherRound(frame.round, e[frame.round], frame.ctx)>>
    BY <1>3, <2>1, PassIs
  <2>3. frame' = IF frame.round = Nr THEN AfterCipher(f) ELSE [f EXCEPT !.round = @ + 1]
    BY <1>11, Zenon DEF EncryptRound
  <2> HIDE DEF f
  <2>4. ~Decrypts' /\ program' = "test_encrypt_ecb" /\ Output' = <<cipherText>>
    BY <1>1, <2>1 DEF Decrypts, Output
  <2>5. CASE frame.round = Nr
    <3>1. frame' = [f EXCEPT !.pc = "compare"]
      BY <1>1, <2>1, <2>3, <2>5, Zenon DEF AfterCipher
    <3>2. f.buf = <<cipherText>>
      BY <2>1, <2>2, <2>5 DEF CipherAnswers
    <3>3. Sound(frame') /\ frame'.pc = "compare" /\ frame'.buf = <<cipherText>>
      BY <1>3, <1>5, <2>2, <3>1, <3>2, SetPc DEF Sound, Changes
    <3> QED BY <2>1, <2>4, <3>3 DEF OnTheWay, At
  <2>6. CASE frame.round # Nr
    <3>1. frame' = [f EXCEPT !.round = frame.round + 1]
      <4>1. f.round = frame.round
        BY <1>5, <2>2 DEF Changes
      <4> QED BY <2>3, <2>6, <4>1, Zenon
    <3>2. frame.round \in 0 .. Nr - 1 /\ frame.round + 1 \in 0 .. Nr
      BY <2>1, <2>6 DEF Nr
    <3>3. f.buf = <<e[frame.round + 1]>>
      BY <2>1, <2>2, <3>2 DEF CipherAnswers
    <3>4. /\ Sound(frame') /\ frame'.pc = "rounds" /\ frame'.ctx = words[all]
          /\ frame'.round = frame.round + 1 /\ frame'.buf = <<e[frame.round + 1]>>
      BY <1>3, <1>5, <2>1, <2>2, <3>1, <3>3, SetRound DEF Sound, Changes
    <3> QED BY <2>1, <2>4, <3>2, <3>4 DEF OnTheWay, At
  <2> QED BY <2>5, <2>6
<1>12. CASE DecryptRound
  <2>1. /\ frame.pc = "rounds" /\ UNCHANGED saved /\ program = "test_decrypt_ecb" /\ Decrypts
        /\ frame.ctx = words[all] /\ frame.round \in 0 .. Nr /\ frame.buf = <<d[frame.round]>>
    BY <1>2, <1>12, Answerer DEF DecryptRound, At, OnTheWay, Answering, OnStack
  <2> DEFINE f == [frame EXCEPT !.buf[1] = InvCipherRound(frame.round, @, frame.ctx)]
  <2>2. Changes(f, frame, {"buf"}) /\ f.buf = <<InvCipherRound(frame.round, d[frame.round], frame.ctx)>>
    BY <1>3, <2>1, PassIs
  <2>3. frame' = IF frame.round = 0 THEN AfterCipher(f) ELSE [f EXCEPT !.round = @ - 1]
    BY <1>12, Zenon DEF DecryptRound
  <2> HIDE DEF f
  <2>4. Decrypts' /\ program' = "test_decrypt_ecb" /\ Output' = <<plainText[1]>>
    BY <1>1, <2>1 DEF Decrypts, Output
  <2>5. CASE frame.round = 0
    <3>1. frame' = Say(f, <<Announced>>, "compare")
      BY <1>1, <2>1, <2>3, <2>5, Zenon DEF AfterCipher, Announced
    <3>2. f.buf = <<plainText[1]>>
      BY <2>1, <2>2, <2>5 DEF CipherAnswers
    <3>4. DOMAIN f = Names
      BY <2>2 DEF Changes
    <3>5. /\ Changes(frame', f, {"say", "pc", "then"})
          /\ frame'.pc = "print" /\ frame'.then = "compare" /\ frame'.say = <<Announced>>
      BY <3>1, <3>4, SaySets
    <3>3. /\ Sound(frame') /\ frame'.pc = "print" /\ frame'.buf = <<plainText[1]>>
          /\ frame'.then = "compare" /\ frame'.say = <<Announced>>
      BY <1>3, <1>5, <2>2, <3>2, <3>5 DEF Sound, Changes
    <3> QED BY <2>1, <2>4, <3>3 DEF OnTheWay, At
  <2>6. CASE frame.round # 0
    <3>1. frame' = [f EXCEPT !.round = frame.round - 1]
      <4>1. f.round = frame.round
        BY <1>5, <2>2 DEF Changes
      <4> QED BY <2>3, <2>6, <4>1, Zenon
    <3>2. frame.round \in 1 .. Nr /\ frame.round - 1 \in 0 .. Nr
      BY <2>1, <2>6 DEF Nr
    <3>3. f.buf = <<d[frame.round - 1]>>
      BY <2>1, <2>2, <3>2 DEF CipherAnswers
    <3>4. /\ Sound(frame') /\ frame'.pc = "rounds" /\ frame'.ctx = words[all]
          /\ frame'.round = frame.round - 1 /\ frame'.buf = <<d[frame.round - 1]>>
      BY <1>3, <1>5, <2>1, <2>2, <3>1, <3>3, SetRound DEF Sound, Changes
    <3> QED BY <2>1, <2>4, <3>2, <3>4 DEF OnTheWay, At
  <2> QED BY <2>5, <2>6
<1>13. CASE Compare
  <2>1. UNCHANGED saved /\ program # "hello_world" /\ frame.buf = Output
    BY <1>2, <1>13 DEF Compare, At, OnTheWay, Answering, OnStack
  <2>2. frame.buf[1] = IF Decrypts THEN plainText[1] ELSE cipherText
    BY <2>1 DEF Output
  <2> DEFINE f == [frame EXCEPT !.exit = 0]
  <2>3. frame' = Say(f, <<Line("SUCCESS!")>>, "return")
    BY <1>13, <2>2, Zenon DEF Compare
  <2>4. Changes(f, frame, {"exit"}) /\ f.exit = 0
    BY <1>3, SetExit
  <2> HIDE DEF f
  <2>5. Sound(frame') /\ frame'.pc = "print" /\ frame'.then = "return" /\ frame'.say = <<Line("SUCCESS!")>>
    BY <1>3, <1>5, <2>3, <2>4, SaySets DEF Sound, Changes
  <2>6. TheAnswer' = Line("SUCCESS!")
    <3>1. program' \in {"test_encrypt_ecb", "test_decrypt_ecb"}
      BY <1>1, <2>1 DEF Answerers
    <3> QED BY <3>1, AnswersAre DEF TheAnswer
  <2> QED BY <2>1, <2>5, <2>6 DEF Answering
<1>14. CASE Return
  <2>1. UNCHANGED saved /\ Told(written)
    BY <1>2, <1>14 DEF Return, At, OnTheWay, Answering, OnStack
  <2>2. Sound(frame') /\ frame'.pc = "end"
    BY <1>3, <1>5, <1>14, SetPc DEF Return, Sound, Changes
  <2>3. Told(written)'
    BY <1>1, <1>4, <2>1 DEF Told
  <2> QED BY <2>1, <2>2, <2>3 DEF Answering
<1>15. CASE Ended
  <2>1. UNCHANGED <<frame, saved, program, written>> /\ frame.pc = "end" /\ Told(written)
    BY <1>2, <1>15 DEF Ended, At, OnTheWay, Answering, vars, sysVars
  <2>2. Told(written)' /\ Sound(frame') /\ frame'.pc = "end"
    BY <1>2, <2>1 DEF Told, Sound
  <2> QED BY <2>1, <2>2 DEF Answering
<1> QED BY <1>7, <1>8, <1>9, <1>10, <1>11, <1>12, <1>13, <1>14, <1>15 DEF Test
\* What the program says goes to the stream, and from there to _write.
LEMMA PrintfAnswers ==
  ASSUME NEW words, NEW e, NEW d, AnswerInv(words, e, d), program \in Answerers, Printf
  PROVE  AnswerInv(words, e, d)'
<1>1. UNCHANGED <<program, saved>> /\ ~Verbose
  BY Answerer DEF Next, Printf, TakeBuffer, SetBuffer, Put, Flush, Said, OnStack
<1>2. /\ Sound(frame) /\ (OnTheWay(words, e, d) \/ Answering)
      /\ saved = Nothing \/ AtCheckpoint
      /\ written \in Seq(Text) /\ stream.text \in Seq(Text) /\ "text" \in DOMAIN stream
  BY DEF AnswerInv
<1>3. DOMAIN frame = Names /\ frame.exit = 0 /\ frame.i = 1
  BY <1>2 DEF Sound
<1>5. Names = {"pc", "buf", "ctx", "round", "i", "exit", "say", "then", "blocks"}
  BY DEF Names
<1>4. /\ (Decrypts <=> Decrypts') /\ Output' = Output /\ TheAnswer' = TheAnswer
      /\ program' \in Answerers
      /\ saved' = Nothing' \/ AtCheckpoint'
  BY <1>1, <1>2 DEF Decrypts, Output, TheAnswer, Answers, AtCheckpoint, Input, Nothing, Sound, Frame
<1>6. SUFFICES /\ Sound(frame') /\ (OnTheWay(words, e, d)' \/ Answering')
               /\ written' \in Seq(Text) /\ stream'.text \in Seq(Text) /\ "text" \in DOMAIN stream'
  BY <1>4, <1>6 DEF AnswerInv, Sound
<1> DEFINE Waits == /\ frame.then = "compare" /\ Decrypts /\ frame.buf = Output
                    /\ frame.say = <<>> \/ (frame.pc # "flush" /\ frame.say = <<Announced>>)
           Ready == frame.then = "return" /\ frame.say = <<TheAnswer>> /\ frame.pc # "flush"
           Tells == frame.then = "return" /\ frame.say = <<>>
<1>7. frame.pc \in {"print", "buffer", "flush"}
  BY DEF Printf, TakeBuffer, SetBuffer, Put, Flush, Said, At
<1>8. \/ Waits
      \/ Ready
      \/ Tells /\ frame.pc = "print" /\ Told(written)
      \/ Tells /\ frame.pc = "flush" /\ Told(written \o stream.text)
  BY <1>2, <1>7 DEF OnTheWay, Answering, At
<1>9. TheAnswer \in Text /\ TheAnswer.newline /\ TheAnswer.whole
      /\ Announced \in Text
  BY AnswersAre
<1>10. CASE TakeBuffer \/ SetBuffer
  <2>1. /\ written' = written /\ stream'.text = stream.text /\ "text" \in DOMAIN stream'
    <3>1. CASE TakeBuffer
      BY <1>2, <3>1 DEF TakeBuffer
    <3>2. CASE SetBuffer
      <4>1. stream' = [stream EXCEPT !.buffer = frame.blocks, !.set = TRUE] /\ written' = written
        BY <3>2 DEF SetBuffer, sysVars
      <4> QED BY <1>2, <4>1
    <3> QED BY <1>10, <3>1, <3>2
  <2>2. /\ Changes(frame', frame, {"pc", "blocks"}) /\ frame'.pc \in {"print", "buffer"}
    <3>1. CASE TakeBuffer
      <4>1. PICK w : frame' = [frame EXCEPT !.pc = "buffer", !.blocks = w]
        BY <3>1, Zenon DEF TakeBuffer
      <4> QED BY <1>3, <4>1 DEF Names, Changes
    <3>2. CASE SetBuffer
      <4>1. frame' = [frame EXCEPT !.pc = "print", !.blocks = {}]
        BY <3>2, Zenon DEF SetBuffer
      <4> QED BY <1>3, <4>1 DEF Names, Changes
    <3> QED BY <1>10, <3>1, <3>2
  <2>3. frame.pc # "flush" /\ (frame.pc = "print" => frame.say # <<>>) /\ (frame.pc = "buffer" \/ frame.pc = "print")
    BY <1>10 DEF TakeBuffer, SetBuffer, At
  <2>4. Sound(frame') /\ frame'.then = frame.then /\ frame'.say = frame.say /\ frame'.buf = frame.buf
    BY <1>3, <1>5, <2>2 DEF Sound, Changes
  <2>5. Waits \/ Ready
    BY <1>8, <2>3
  <2>6. CASE Waits
    <3>1. OnTheWay(words, e, d)'
      BY <1>4, <2>2, <2>3, <2>4, <2>6 DEF OnTheWay
    <3> QED BY <1>2, <2>1, <2>4, <3>1
  <2>7. CASE Ready
    <3>1. Answering'
      BY <1>4, <2>2, <2>4, <2>7 DEF Answering
    <3> QED BY <1>2, <2>1, <2>4, <3>1
  <2> QED BY <2>5, <2>6, <2>7
<1>11. CASE Put
  <2>1. PICK text : /\ text = Head(frame.say) /\ frame.say # <<>> /\ frame.pc = "print"
                    /\ stream' = [stream EXCEPT !.text = Append(@, text)] /\ written' = written
                    /\ frame' = [frame EXCEPT !.say = Tail(@),
                                  !.pc = IF (text.newline /\ isatty(STDOUT_FILENO)) \/ stream.buffer = {}
                                         THEN "flush" ELSE @]
    BY <1>11, Zenon DEF Put, At, sysVars
  <2>2. PICK pc : /\ frame' = [frame EXCEPT !.say = Tail(frame.say), !.pc = pc]
                  /\ pc \in {"print", "flush"} /\ (text.newline => pc = "flush")
    BY <2>1 DEF isatty, STDOUT_FILENO
  <2>3. Changes(frame', frame, {"say", "pc"}) /\ frame'.pc = pc /\ frame'.say = Tail(frame.say)
    BY <1>3, <2>2 DEF Names, Changes
  <2>4. Sound(frame') /\ frame'.then = frame.then /\ frame'.buf = frame.buf
    BY <1>3, <1>5, <2>3 DEF Sound, Changes
  <2>5. stream'.text = Append(stream.text, text) /\ "text" \in DOMAIN stream'
    BY <1>2, <2>1
  <2>9. \A x : Head(<<x>>) = x /\ Tail(<<x>>) = <<>>
    OBVIOUS
  <2>6. CASE Waits
    <3>1. text = Announced /\ frame'.say = <<>>
      BY <2>1, <2>3, <2>6, <2>9, Zenon
    <3>2. stream'.text \in Seq(Text)
      BY <1>2, <1>9, <2>5, <3>1
    <3>3. OnTheWay(words, e, d)'
      BY <1>4, <2>2, <2>3, <2>4, <2>6, <3>1 DEF OnTheWay
    <3> QED BY <1>2, <2>1, <2>4, <2>5, <3>2, <3>3
  <2>7. CASE Ready
    <3>1. text = TheAnswer /\ frame'.say = <<>> /\ pc = "flush"
      BY <1>9, <2>1, <2>2, <2>3, <2>7
    <3>2. stream'.text \in Seq(Text)
      BY <1>2, <1>9, <2>5, <3>1
    <3>3. Told(written \o Append(stream.text, text))
      BY <1>2, <1>9, <3>1, ToldNow
    <3>4. Told(written \o stream.text)'
      BY <1>1, <2>1, <2>5, <3>3 DEF Told
    <3> QED BY <1>2, <1>4, <2>1, <2>3, <2>4, <2>5, <2>7, <3>1, <3>2, <3>4 DEF Answering, At
  <2>8. ~Tells
    BY <2>1
  <2> QED BY <1>8, <2>6, <2>7, <2>8
<1>12. CASE Flush
  <2>1. /\ frame.pc = "flush" /\ written' = written \o stream.text
    BY <1>12 DEF Flush, At, write, STDOUT_FILENO
  <2>2. PICK rest \in Rests(stream.text) :
          /\ stream' = [stream EXCEPT !.text = rest,
                                      !.cuts = IF rest = <<>> THEN @ ELSE @ + 1]
          /\ frame' = [frame EXCEPT !.pc = IF rest = <<>> THEN "print" ELSE @]
    BY <1>12, Zenon DEF Flush
  <2>3. stream'.text = rest /\ "text" \in DOMAIN stream'
    BY <1>2, <2>2
  <2>4. frame' = [frame EXCEPT !.pc = IF rest = <<>> THEN "print" ELSE frame.pc]
    BY <2>2
  <2>5. Changes(frame', frame, {"pc"}) /\ frame'.pc = IF rest = <<>> THEN "print" ELSE "flush"
    BY <1>3, <2>1, <2>4, SetPc
  <2>6. /\ Sound(frame') /\ frame'.then = frame.then /\ frame'.buf = frame.buf /\ frame'.say = frame.say
    BY <1>3, <1>5, <2>5 DEF Sound, Changes
  <2>7. written' \in Seq(Text) /\ rest \in Seq(Text)
    BY <1>2, <2>1, ConcatProperties, RestsTyped
  <2>8. CASE Waits
    <3>1. OnTheWay(words, e, d)'
      BY <1>4, <2>1, <2>5, <2>6, <2>8 DEF OnTheWay
    <3> QED BY <2>3, <2>6, <2>7, <3>1
  <2>9. CASE Tells /\ Told(written \o stream.text)
    <3>1. Told((written \o stream.text) \o rest)
      BY <1>2, <2>9, RestsKeep
    <3>2. Told(written')
      BY <2>1, <2>9
    <3>3. (rest = <<>> /\ Told(written)') \/ (rest # <<>> /\ Told(written \o stream.text)')
      BY <1>1, <2>1, <2>3, <3>1, <3>2 DEF Told
    <3>4. Answering'
      BY <2>5, <2>6, <2>9, <3>3 DEF Answering, At
    <3> QED BY <2>3, <2>6, <2>7, <3>4
  <2> QED BY <1>8, <2>1, <2>8, <2>9
<1>13. CASE Said
  <2>1. frame' = [frame EXCEPT !.pc = frame.then] /\ UNCHANGED <<stream, written>>
        /\ frame.pc = "print" /\ frame.say = <<>>
    BY <1>13 DEF Said, OnStack, Quiet, sysVars, At
  <2>2. Changes(frame', frame, {"pc"}) /\ frame'.pc = frame.then
    BY <1>3, <2>1, SetPc
  <2>3. Sound(frame') /\ frame'.buf = frame.buf
    BY <1>3, <1>5, <2>2 DEF Sound, Changes
  <2>4. CASE Waits
    <3>1. program' # "hello_world"
      BY <1>1, <2>4 DEF Decrypts
    <3>2. OnTheWay(words, e, d)'
      BY <1>4, <2>2, <2>3, <2>4, <3>1 DEF OnTheWay, At
    <3> QED BY <1>2, <2>1, <2>3, <3>2
  <2>5. CASE Tells /\ Told(written)
    <3>1. Told(written)'
      BY <1>1, <2>1, <2>5 DEF Told
    <3>2. Answering'
      BY <2>2, <2>5, <3>1 DEF Answering
    <3> QED BY <1>2, <2>1, <2>3, <3>2
  <2> QED BY <1>8, <2>1, <2>4, <2>5
<1> QED BY <1>10, <1>11, <1>12, <1>13 DEF Printf
\* A recovery takes the program back to the plain text.
LEMMA RecoverAnswers ==
  ASSUME NEW words, NEW e, NEW d, CipherAnswers(words, e, d),
         AnswerInv(words, e, d), program \in Answerers, Recover
  PROVE  AnswerInv(words, e, d)'
<1>1. /\ frame' = saved /\ UNCHANGED <<program, saved, stream, written>> /\ saved # Nothing
      /\ AtCheckpoint /\ written \in Seq(Text) /\ stream.text \in Seq(Text) /\ "text" \in DOMAIN stream
  BY DEF AnswerInv, Recover, sysVars
<1>2. 0 \in 0 .. Nb * (Nr + 1) /\ words[0] = <<>>
  BY DEF CipherAnswers, Nb, Nr
<1>3. AtCheckpoint' /\ Input' = Input
  BY <1>1 DEF AtCheckpoint, Sound, Input, Decrypts
<1>4. OnTheWay(words, e, d)'
  BY <1>1, <1>2, <1>3 DEF AtCheckpoint, OnTheWay, At
<1>5. Sound(frame)'
  BY <1>1 DEF AtCheckpoint, Sound
<1> QED BY <1>1, <1>3, <1>4, <1>5 DEF AnswerInv

\* A program begins with nothing on its stack, and has said nothing.
LEMMA AnswersInitially ==
  ASSUME NEW words, NEW e, NEW d, Init
  PROVE  AnswerInv(words, e, d)
<1>1. /\ frame = Frame /\ saved = Nothing /\ written = <<>>
      /\ stream = [set |-> FALSE, buffer |-> {}, text |-> <<>>, cuts |-> 0]
  BY DEF Init, SysInit
<1>2. Sound(frame) /\ frame.pc = "main" /\ frame.ctx = <<>>
  BY <1>1 DEF Frame, Sound, Names
<1> QED BY <1>1, <1>2 DEF AnswerInv, OnTheWay, At

\* The program is always on the way to its answer, or has it, and what it has told
\* is the answer.  CipherAnswers says what the passes of the cipher make of the block
\* of the tests: the run Applications works it out.
THEOREM AnswerInvariant ==
  ASSUME NEW words, NEW e, NEW d, CipherAnswers(words, e, d)
  PROVE  Spec => []AnswerInv(words, e, d)
<1>1. Init => AnswerInv(words, e, d)
  BY AnswersInitially
<1>2. AnswerInv(words, e, d) /\ [Next]_vars => AnswerInv(words, e, d)'
  <2> SUFFICES ASSUME AnswerInv(words, e, d), [Next]_vars PROVE AnswerInv(words, e, d)'
    OBVIOUS
  <2>1. CASE UNCHANGED vars
    BY <2>1 DEF vars, sysVars, AnswerInv, Sound, OnTheWay, Answering, AtCheckpoint, At, Told,
                Input, Output, Decrypts, TheAnswer
  <2>2. CASE Next /\ program \in Answerers
    BY <2>2, Answerer, TestAnswers, PrintfAnswers, RecoverAnswers DEF Next
  <2>3. CASE Next /\ program \notin Answerers
    <3>1. UNCHANGED program
      BY <2>3 DEF Next, Test, Printf, Calls, HelloWorld, Start, Checkpoint, Schedule, EncryptRound,
           DecryptRound, Compare, Return, Ended, OnStack, Quiet, vars, TakeBuffer, SetBuffer, Put,
           Flush, Said, CallSbrk, CallBrk, CallStub, CallCheckpoint, CallExit, Trap, Moves, Recover
    <3> QED BY <2>3, <3>1 DEF AnswerInv
  <2> QED BY <2>1, <2>2, <2>3
<1> QED BY <1>1, <1>2, PTL DEF Spec

\* Whatever the C library takes _write to have returned, and however often the
\* program is brought back to its checkpoint, it ends with success, and the last whole
\* text that it has given to _write says so.
THEOREM AnswersAreRight ==
  ASSUME NEW words, NEW e, NEW d, CipherAnswers(words, e, d)
  PROVE  Spec => []AnswerIsRight
<1>1. AnswerInv(words, e, d) => AnswerIsRight
  <2> SUFFICES ASSUME AnswerInv(words, e, d), At("end"), program \in DOMAIN Answers
               PROVE  frame.exit = 0 /\ Told(written)
    BY DEF AnswerIsRight
  <2>1. Sound(frame) /\ (OnTheWay(words, e, d) \/ Answering)
    BY AnswersAre DEF AnswerInv
  <2> QED BY <2>1 DEF Sound, OnTheWay, Answering, At
<1> QED BY <1>1, AnswerInvariant, PTL
=============================================================================
