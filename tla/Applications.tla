----------------------------- MODULE Applications -----------------------------
(***************************************************************************)
(* Programs in a dual mode: the tests of the AES library (AES_app/main.c), *)
(* hello_world/main.c, and a program that uses the C runtime in any way.   *)
(* The program has its state in registers and stack, which                 *)
(* Store_Checkpoint saves; an error at any later time brings back what has *)
(* been saved.  The static variables of the runtime and of the C library,  *)
(* the heap and the words outside of the device stay as they are.          *)
(*                                                                         *)
(* A block is encrypted in place: the plain text exists twice only when it *)
(* has been saved.  The C library is external: printf gives its stream a   *)
(* buffer when it is first used, keeps text in it, and writes it out at a  *)
(* newline when the stream is a terminal.                                  *)
(***************************************************************************)
EXTENDS Aes, Syscalls

CONSTANTS
  Programs,       \* the programs: tests that main may call, or "calls"
  Increments,     \* the increments that the latter asks for
  MaxRecoveries,  \* bound
  MaxCuts         \* bound: how often _write seems to have written less than all

ASSUME ApplicationsAssumption ==
  /\ Programs \subseteq {"test_encrypt_ecb", "test_decrypt_ecb",
                         "test_encrypt_ecb_verbose", "hello_world", "calls"}
  \* Increments are signed and as wide as addresses.
  /\ Increments \subseteq -(Addresses \div 2) .. Addresses \div 2 - 1
  /\ MaxRecoveries \in Nat /\ MaxCuts \in Nat

Reference == INSTANCE AesReference

None == "none"

VARIABLES
  program,
  frame,       \* registers and stack
  saved,       \* what Store_Checkpoint has saved of them, or Nothing
  outside,     \* the words at 0x9000 and 0x9004, outside of the device
  stream,      \* the stream stdout of the C library: its buffer, the text there, cuts
  recoveries

vars == <<program, frame, saved, outside, stream, recoveries, sysVars>>

At(pc) == frame.pc = pc

(***************************************************************************)
(* The texts of the tests.                                                 *)
(***************************************************************************)
Bytes(s) == [n \in Index |-> s[n + 1]]

testKey == Bytes(<<43, 126, 21, 22, 40, 174, 210, 166, 171, 247, 21, 136, 9, 207, 79, 60>>)
plainText ==
  <<Bytes(<<107, 193, 190, 226, 46, 64, 159, 150, 233, 61, 126, 17, 115, 147, 23, 42>>),
    Bytes(<<174, 45, 138, 87, 30, 3, 172, 156, 158, 183, 111, 172, 69, 175, 142, 81>>),
    Bytes(<<48, 200, 28, 70, 163, 92, 228, 17, 229, 251, 193, 25, 26, 10, 82, 239>>),
    Bytes(<<246, 159, 36, 69, 223, 79, 155, 23, 173, 43, 65, 123, 230, 108, 55, 16>>)>>
cipherText ==
  Bytes(<<58, 215, 123, 180, 13, 122, 54, 96, 168, 158, 202, 243, 36, 102, 239, 151>>)

Verbose  == program = "test_encrypt_ecb_verbose"
Decrypts == program = "test_decrypt_ecb"

\* Text to print: a line, or a prompt without a newline.
Line(text)   == [text |-> text, newline |-> TRUE, whole |-> TRUE]
Prompt(text) == [text |-> text, newline |-> FALSE, whole |-> TRUE]
Lines(texts) == [n \in DOMAIN texts |-> Line(texts[n])]
Title == Lines(<<"ECB encrypt verbose:", "plain text:">> \o plainText
               \o <<"", "key:", testKey, "", "ciphertext:">>)

(***************************************************************************)
(* The tests.                                                              *)
(***************************************************************************)
\* What a program finds on its stack: nothing yet.
Frame == [pc |-> "main", buf |-> <<>>, ctx |-> <<>>, round |-> 0, i |-> 1, exit |-> 0,
          say |-> <<>>, then |-> None, blocks |-> {}]
Nothing == [Frame EXCEPT !.pc = None]    \* no checkpoint yet

\* Print text, then go on at pc.
Say(f, text, pc) == [f EXCEPT !.say = text, !.pc = "print", !.then = pc]

Quiet == UNCHANGED <<program, stream, recoveries, sysVars>>
OnStack == Quiet /\ UNCHANGED <<saved, outside>>

HelloWorld ==
  /\ At("main") /\ program = "hello_world"
  /\ frame' = Say(frame, <<Line("Hello world!")>>, "return")
  /\ OnStack

\* The test that main calls sets up its arrays.
Start ==
  /\ At("main") /\ program \notin {"hello_world", "calls"}
  /\ frame' = LET f == [frame EXCEPT !.buf = CASE Verbose  -> plainText
                                               [] Decrypts -> <<cipherText>>
                                               [] OTHER    -> <<plainText[1]>>]
              IN CASE Verbose  -> Say(f, Title, "schedule")
                   [] Decrypts -> [f EXCEPT !.pc = "schedule"]
                   [] OTHER    -> [f EXCEPT !.pc = "checkpoint"]
  /\ outside' = IF Verbose \/ Decrypts THEN outside ELSE [outside EXCEPT ![1] = 0]
  /\ Quiet /\ UNCHANGED saved

Checkpoint ==
  /\ At("checkpoint")
  /\ outside' = [outside EXCEPT ![2] = 0]
  /\ frame' = [frame EXCEPT !.pc = "schedule"]
  /\ saved' = frame'
  /\ Quiet

\* AES_init_ctx, a word of the key schedule at a time.
Schedule ==
  /\ At("schedule")
  /\ frame' = IF Len(frame.ctx) = Nb * (Nr + 1)
              THEN [frame EXCEPT !.pc = "rounds", !.round = IF Decrypts THEN Nr ELSE 0]
              ELSE [frame EXCEPT !.ctx = KeyExpansion(@, testKey)]
  /\ OnStack

\* What follows the last round of AES_ECB_encrypt and AES_ECB_decrypt.
AfterCipher(f) ==
  CASE Verbose  -> Say([f EXCEPT !.i = @ + 1, !.round = 0],
                       <<Line(f.buf[f.i])>> \o IF f.i = 4 THEN <<Line("")>> ELSE <<>>,
                       IF f.i = 4 THEN "return" ELSE "rounds")
    [] Decrypts -> Say(f, <<Prompt("ECB decrypt: ")>>, "compare")
    [] OTHER    -> [f EXCEPT !.pc = "compare"]

EncryptRound ==
  /\ At("rounds") /\ ~Decrypts
  /\ LET f == [frame EXCEPT !.buf[frame.i] = CipherRound(frame.round, @, frame.ctx)]
     IN frame' = IF frame.round = Nr THEN AfterCipher(f) ELSE [f EXCEPT !.round = @ + 1]
  /\ OnStack

DecryptRound ==
  /\ At("rounds") /\ Decrypts
  /\ LET f == [frame EXCEPT !.buf[1] = InvCipherRound(frame.round, @, frame.ctx)]
     IN frame' = IF frame.round = 0 THEN AfterCipher(f) ELSE [f EXCEPT !.round = @ - 1]
  /\ OnStack

\* A test that fails to decrypt says nothing.
Compare ==
  /\ At("compare")
  /\ frame' = IF frame.buf[1] = IF Decrypts THEN plainText[1] ELSE cipherText
              THEN Say([frame EXCEPT !.exit = 0], <<Line("SUCCESS!")>>, "return")
              ELSE Say([frame EXCEPT !.exit = 1],
                       IF Decrypts THEN <<>> ELSE <<Line("FAILURE!")>>, "return")
  /\ OnStack

\* Whatever the test has found, main returns EXIT_SUCCESS, and _start goes to
\* _exit: the C library does not write out what its streams still hold.
Return == At("return") /\ frame' = [frame EXCEPT !.pc = "end"] /\ OnStack
Ended  == (At("end") \/ At("loop")) /\ UNCHANGED vars

(***************************************************************************)
(* printf.                                                                 *)
(***************************************************************************)
BUFSIZ == 1
Block(start, size) == [start |-> start, size |-> size]

\* The first use of stdout: a buffer is taken from the heap, and then given to
\* the stream.  Without one every text is written at once.
TakeBuffer ==
  /\ At("print") /\ frame.say # <<>> /\ ~stream.set
  /\ LET a == sbrk(BUFSIZ)
     IN /\ brk' = a.brk
        /\ frame' = [frame EXCEPT !.pc = "buffer",
                       !.blocks = IF a.result = Failed THEN {} ELSE {Block(a.result, BUFSIZ)}]
  /\ UNCHANGED <<program, saved, outside, stream, recoveries, errno, written>>

SetBuffer ==
  /\ At("buffer")
  /\ stream' = [stream EXCEPT !.buffer = frame.blocks, !.set = TRUE]
  /\ frame' = [frame EXCEPT !.pc = "print", !.blocks = {}]
  /\ UNCHANGED <<program, saved, outside, recoveries, sysVars>>

Put ==
  /\ At("print") /\ frame.say # <<>> /\ stream.set
  /\ LET text == Head(frame.say)
         ends == text.newline /\ isatty(STDOUT_FILENO)
     IN /\ stream' = [stream EXCEPT !.text = Append(@, text)]
        /\ frame' = [frame EXCEPT !.say = Tail(@),
                       !.pc = IF ends \/ stream.buffer = {} THEN "flush" ELSE @]
  /\ UNCHANGED <<program, saved, outside, recoveries, sysVars>>

\* _write has no return statement for the standard output: the library takes what
\* a register holds for the number of bytes written.  All of them, or an error,
\* empties the buffer; fewer has the rest written again, from within a text on.
Rests(text) ==
  {<<>>} \cup {<<[text[k] EXCEPT !.whole = FALSE]>> \o SubSeq(text, k + 1, Len(text)) :
                k \in IF stream.cuts < MaxCuts THEN DOMAIN text ELSE {}}

\* The buffer is given to _write.
Flush ==
  /\ At("flush")
  /\ written' = write(STDOUT_FILENO, stream.text)
  /\ errno' = errorAfterWrite(STDOUT_FILENO)
  /\ \E rest \in Rests(stream.text) :
       /\ stream' = [stream EXCEPT !.text = rest,
                                   !.cuts = IF rest = <<>> THEN @ ELSE @ + 1]
       /\ frame' = [frame EXCEPT !.pc = IF rest = <<>> THEN "print" ELSE @]
  /\ UNCHANGED <<program, saved, outside, recoveries, brk>>

Said ==
  /\ At("print") /\ frame.say = <<>>
  /\ frame' = [frame EXCEPT !.pc = frame.then]
  /\ OnStack

(***************************************************************************)
(* A program that makes any system calls.                                  *)
(***************************************************************************)
Calling == At("main") /\ program = "calls"

\* A program gives back neither what it holds, nor what it will hold again after
\* a recovery.
MayKeep(break) == \A b \in frame.blocks \cup saved.blocks : b.start + b.size <= break

\* The break moves, and the caller takes the blocks B to be its own.
Moves(break, B) ==
  /\ MayKeep(break)
  /\ brk' = break
  /\ frame' = [frame EXCEPT !.blocks = @ \cup B]
  /\ UNCHANGED <<program, saved, outside, stream, recoveries, errno, written>>

CallSbrk ==
  /\ Calling
  /\ \E incr \in Increments :
       LET a == sbrk(incr)
       IN Moves(a.brk, IF a.result # Failed /\ incr > 0 THEN {Block(a.result, incr)} ELSE {})

CallBrk ==
  /\ Calling
  /\ \E addr \in 0 .. Addresses - 1 :
       LET a == set_brk(addr)
       IN Moves(a.brk, IF a.brk > brk THEN {Block(brk, a.brk - brk)} ELSE {})

CallStub ==
  /\ Calling
  /\ \E f \in Stub : errno' = errorAfter(f)
  /\ UNCHANGED <<program, frame, saved, outside, stream, recoveries, brk, written>>

CallCheckpoint ==
  /\ Calling
  /\ saved' = frame
  /\ UNCHANGED <<program, frame, outside, stream, recoveries, sysVars>>

\* What the default exception handlers say (handler.c): they write it without
\* the stream, and then loop for ever.
Exception == {"kInstMisa", "kInstAccFault", "kInstIllegalFault", "kBkpt",
              "kLoadAccFault", "kStrAccFault", "kECall", "another"}
Message(cause) ==
  CASE cause = "another" -> <<>>
    [] cause = "kECall"  -> Lines(<<"Environment call encountered">>)
    [] OTHER -> <<Line(CASE cause \in {"kInstMisa", "kInstAccFault"} -> "Instruction access fault"
                         [] cause \in {"kLoadAccFault", "kStrAccFault"} -> "Load/Store fault"
                         [] cause = "kInstIllegalFault" -> "Illegal Instruction fault"
                         [] OTHER -> "Breakpoint triggerd"),
                  Prompt("MTVAL value is "), Line("mtval")>>

Trap ==
  /\ Calling
  /\ \E cause \in Exception : written' = write(STDOUT_FILENO, Message(cause))
  /\ errno' = errorAfterWrite(STDOUT_FILENO)
  /\ frame' = [frame EXCEPT !.pc = "loop"]
  /\ UNCHANGED <<program, saved, outside, stream, recoveries, brk>>

CallExit == Calling /\ frame' = [frame EXCEPT !.pc = "end"] /\ OnStack

(***************************************************************************)
(* An error in the dual group, after the first checkpoint.                 *)
(***************************************************************************)
\* Mutant: the registers are saved, and the stack is not.
Recover_NoStack ==
  /\ saved # Nothing /\ ~At("end") /\ recoveries < MaxRecoveries
  /\ frame' = [saved EXCEPT !.buf = frame.buf]
  /\ recoveries' = recoveries + 1
  /\ UNCHANGED <<program, saved, outside, stream, sysVars>>
Recover ==
  /\ saved # Nothing /\ ~At("end") /\ recoveries < MaxRecoveries
  /\ frame' = saved
  /\ recoveries' = recoveries + 1
  /\ UNCHANGED <<program, saved, outside, stream, sysVars>>

Init ==
  /\ program \in Programs
  /\ frame = Frame
  /\ saved = Nothing
  /\ outside = <<None, None>>
  /\ stream = [set |-> FALSE, buffer |-> {}, text |-> <<>>, cuts |-> 0]
  /\ recoveries = 0
  /\ SysInit

Test   == HelloWorld \/ Start \/ Checkpoint \/ Schedule \/ EncryptRound \/ DecryptRound \/ Compare
          \/ Return \/ Ended
Printf == TakeBuffer \/ SetBuffer \/ Put \/ Flush \/ Said
Calls  == CallSbrk \/ CallBrk \/ CallStub \/ CallCheckpoint \/ CallExit \/ Trap

Next == Test \/ Printf \/ Calls \/ Recover
Spec == Init /\ [][Next]_vars

(***************************************************************************)
(* Properties.                                                             *)
(***************************************************************************)
RoundKeyOf(n) == [c \in 0..3 |-> frame.ctx[4 * n + c + 1]]
KeyAdded(n, block) == Reference!Round(0, block, RoundKeyOf(n))

\* Each word of the key schedule and each round is that of the standard, worked
\* out without the library's tables; a round of decryption undoes it.
RoundsAreAes ==
  [][ /\ Schedule /\ Len(frame.ctx) \in Nk .. Nb * (Nr + 1) - 1 =>
           LET n == Len(frame.ctx) IN
           frame'.ctx[n + 1] =
             Reference!ExpandedWord(n, frame.ctx[n + 1 - Nk], frame.ctx[n])
      /\ EncryptRound =>
           frame'.buf[frame.i] =
             Reference!Round(frame.round, frame.buf[frame.i], RoundKeyOf(frame.round))
      /\ DecryptRound =>
           LET n == frame.round
               before == frame.buf[1]
               after  == KeyAdded(n, frame'.buf[1])
           IN IF n = Nr THEN after = before
              ELSE Reference!Round(n + 1, after, RoundKeyOf(n + 1)) = KeyAdded(n + 1, before)
    ]_vars

\* A program ends with the right answer, and has given it to _write as its last whole
\* text, however often it has been brought back to the checkpoint on its way:
\* although it encrypts in place, although what printf remembers is not brought
\* back with it, and whatever the C library takes _write to have returned.
Answers == [test_encrypt_ecb |-> "SUCCESS!", test_decrypt_ecb |-> "SUCCESS!",
            hello_world |-> "Hello world!"]
Told(texts) ==
  \E n \in DOMAIN texts :
    /\ texts[n] = Line(Answers[program])
    /\ \A m \in DOMAIN texts : m > n => ~texts[m].whole
AnswerIsRight ==
  At("end") /\ program \in DOMAIN Answers => frame.exit = 0 /\ Told(written)

\* The cipher, pass by pass, makes of one text of the tests the other: words[n] is
\* the key schedule with n words, e[n] and d[n] are the block before pass n.
CipherAnswers(words, e, d) ==
  LET all == Nb * (Nr + 1)
  IN /\ \A n \in 0 .. all : Len(words[n]) = n
     /\ words[0] = <<>> /\ e[0] = plainText[1] /\ d[Nr] = cipherText
     /\ \A n \in 0 .. all - 1 : words[n + 1] = KeyExpansion(words[n], testKey)
     /\ \A n \in 0 .. Nr - 1 : e[n + 1] = CipherRound(n, e[n], words[all])
     /\ \A n \in 1 .. Nr : d[n - 1] = InvCipherRound(n, d[n], words[all])
     /\ CipherRound(Nr, e[Nr], words[all]) = cipherText
     /\ InvCipherRound(0, d[0], words[all]) = plainText[1]

\* The blocks of the heap that the program and its stream have are apart from
\* each other, below the break and inside the heap, although a recovery takes
\* the program back and the break not.
Held == frame.blocks \cup stream.buffer
Extent(b) == b.start .. b.start + b.size - 1
BlocksApart ==
  \A b \in Held :
    /\ Extent(b) \subseteq heap_start .. brk - 1
    /\ brk <= heap_end
    /\ \A c \in Held : b # c => Extent(b) \cap Extent(c) = {}
=============================================================================
