------------------------------- MODULE Syscalls -------------------------------
(***************************************************************************)
(* The system calls under the C library (lib/runtime/syscalls.c): the      *)
(* break of the heap, the stubs, and standard output.  Their state is in   *)
(* static variables: no checkpoint saves it and no recovery restores it.   *)
(*                                                                         *)
(* Addresses have AddressBits bits; the heap is a few units in their upper *)
(* half, as it is in the device.                                           *)
(***************************************************************************)
EXTENDS Integers, Sequences, TLC

CONSTANTS
  AddressBits,   \* bound: width of addresses
  HeapSize       \* __heap_size, in the unit in which the heap is handed out

Addresses == 2 ^ AddressBits
heap_start == 3 * (Addresses \div 4)
heap_end   == heap_start + HeapSize

ASSUME SyscallsAssumption == /\ AddressBits \in Nat /\ HeapSize \in Nat
                             /\ Addresses \in Nat /\ Addresses >= 4
                             /\ heap_end < Addresses

VARIABLES
  brk,       \* end of the part of the heap that is in use
  errno,
  written    \* what has been given to _write for the standard output

sysVars == <<brk, errno, written>>

SysInit == brk = heap_start /\ errno = "0" /\ written = <<>>

Failed == -1
NULL   == 0

(***************************************************************************)
(* The heap.  What a call returns, and the break that it leaves.           *)
(***************************************************************************)
Answer(result, break) == [result |-> result, brk |-> break]

\* Mutant: that the sum of a pointer and a large increment wraps goes unnoticed.
sbrk_NoLowerLimit(incr) ==
  LET new == (brk + incr) % Addresses
  IN CASE HeapSize = 0   -> Answer(NULL, brk)
       [] new < heap_end -> Answer(brk, new)
       [] OTHER          -> Answer(Failed, brk)
sbrk(incr) ==
  LET new == (brk + incr) % Addresses
  IN CASE HeapSize = 0                         -> Answer(NULL, brk)
       [] new < heap_end /\ new >= heap_start -> Answer(brk, new)
       [] OTHER                               -> Answer(Failed, brk)

set_brk(addr) == IF addr \in heap_start .. heap_end THEN Answer(0, addr)
                 ELSE Answer(Failed, brk)

(***************************************************************************)
(* The stubs: the error that each reports, where it reports one.  Those of *)
(* _getcwd and _gettimeofday have the wrong sign.                          *)
(***************************************************************************)
Unimplemented == {"nanosleep", "_access", "_chdir", "_chmod", "_chown", "_faccessat",
                  "_fstatat", "_ftime", "_lstat", "_openat", "_utime"}
Silent == {"_close", "_open", "_sysconf", "_times", "_fstat", "_stat", "_lseek",
           "_read", "_getpid", "_isatty"}
Refused ==
  [f \in Unimplemented |-> "ENOSYS"] @@
  [f \in {"_getcwd", "_gettimeofday"} |-> "-ENOSYS"] @@
  [_kill |-> "EINVAL", raise |-> "EINVAL", _execve |-> "ENOMEM", _fork |-> "EAGAIN",
   _link |-> "EMLINK", _unlink |-> "ENOENT", _wait |-> "ECHILD"]
Stub == Silent \cup DOMAIN Refused

errorAfter(f) == IF f \in DOMAIN Refused THEN Refused[f] ELSE errno

\* Standard output, and it alone, is a terminal.
STDOUT_FILENO == 1
isatty(file) == file = STDOUT_FILENO

\* _write gives what it is offered to no device.  It has no return statement for
\* the standard output.
write(file, text) == IF file = STDOUT_FILENO THEN written \o text ELSE written
errorAfterWrite(file) == IF file = STDOUT_FILENO THEN errno ELSE "ENOSYS"
=============================================================================
