------------------------------ MODULE RrArbTree ------------------------------
(***************************************************************************)
(* The round-robin arbiter in front of every slave of the bus              *)
(* (rr_arb_tree.sv of the common cells, with FairArb, without LockIn and   *)
(* external priority, as xbar_varlat.sv instantiates it), for n inputs.    *)
(*                                                                         *)
(* Two circuits that look at the same requests have to fit together: a     *)
(* tree of two-input nodes, each steered by one bit of the register rr_q,  *)
(* picks the input that is granted; two leading-zero counters choose the   *)
(* next value of rr_q.                                                     *)
(***************************************************************************)
EXTENDS Integers

Inputs(n) == 0 .. n - 1

(***************************************************************************)
(* The tree, for requests R.  Left[l] are the requests that have not lost  *)
(* to another after l levels from the root.  A node above b levels of the  *)
(* tree is the part that the numbers of its inputs share: theirs without   *)
(* the last b bits.                                                        *)
(***************************************************************************)
Node(i) == LET part[b \in Nat] == IF b = 0 THEN i ELSE part[b - 1] \div 2 IN part
Bit(i, b) == Node(i)[b] % 2

\* The root is above all inputs.
NumLevels(n) == CHOOSE l \in 0..n : Node(n - 1)[l] = 0 /\ \A k \in 0..l-1 : Node(n - 1)[k] # 0

\* The side that one node passes on.  Mutant: it looks at the register only.
Sel_Register(R, rr, b) == {i \in R : Bit(i, b) = Bit(rr, b)}
Sel(R, rr, b) ==
  LET lower == {i \in R : Bit(i, b) = 0}
      upper == R \ lower
  IN IF lower = {} \/ (upper # {} /\ Bit(rr, b) = 1) THEN upper ELSE lower

Winners(n, R, rr) ==
  LET Left[l \in Nat] == IF l = 0 THEN R ELSE Sel(Left[l - 1], rr, NumLevels(n) - l)
  IN Left[NumLevels(n)]
Winner(n, R, rr) == CHOOSE i \in Winners(n, R, rr) : TRUE

(***************************************************************************)
(* The next priority: the first request after rr, or else the first.       *)
(***************************************************************************)
First(R) == CHOOSE i \in R : \A j \in R : i <= j
NextIdx(R, rr) ==
  LET upper == {i \in R : i > rr} IN First(IF upper = {} THEN R ELSE upper)

\* rr_q after an edge: it moves when a request is granted.
RrNext(R, rr, gnt) == IF gnt /\ R # {} THEN NextIdx(R, rr) ELSE rr
=============================================================================
