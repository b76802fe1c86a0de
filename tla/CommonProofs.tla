---------------------------- MODULE CommonProofs -----------------------------
(***************************************************************************)
(* Facts that the proofs of several components share: induction over the   *)
(* natural numbers and the existence of functions defined by recursion,    *)
(* and the arbiter (RrArbTree) for any number of inputs: its tree grants   *)
(* exactly one request, the one its priority points at if that is there,   *)
(* and its counters move the priority towards every request and never past *)
(* it.                                                                     *)
(***************************************************************************)
EXTENDS RrArbTree, WellFoundedInduction, TLAPS

(***************************************************************************)
(* Induction over the natural numbers, from their being well-founded: a    *)
(* set of them has a least element, and a function that is defined by      *)
(* recursion exists.                                                       *)
(***************************************************************************)
\* Natural numbers have a least one among them: the form of induction that the
\* proofs use, on the least number that lacks a property.
LEMMA Least ==
  ASSUME NEW T, T \subseteq Nat, T # {}
  PROVE  \E n \in T : \A k \in T : n <= k
<1> DEFINE R == {p \in Nat \X Nat : p[1] < p[2]}
<1>1. IsWellFoundedOn(OpToRel(<, Nat), Nat)
  BY NatLessThanWellFounded
<1>2. OpToRel(<, Nat) = R
  BY DEF OpToRel
<1>3. IsWellFoundedOn(R, Nat)
  BY <1>1, <1>2
<1> HIDE DEF R
<1>4. PICK n \in T : \A k \in T : ~ (<<k, n>> \in R)
  BY <1>3, WFMin
<1>5. ASSUME NEW k \in T PROVE n <= k
  <2>1. k \in Nat /\ n \in Nat
    OBVIOUS
  <2>2. ~(k < n)
    <3> SUFFICES ASSUME k < n PROVE FALSE
      OBVIOUS
    <3>1. <<k, n>> \in R
      BY <2>1 DEF R
    <3> QED BY <3>1, <1>4
  <2> QED BY <2>1, <2>2
<1> QED BY <1>5

(***************************************************************************)
(* A function defined by recursion, f[0] = first and f[n] made from f[n-1] *)
(* by next.  A run of length n is such a function on 0 .. n.               *)
(***************************************************************************)
IsRun(g, n, first, next) ==
  \A k \in 0 .. n : g[k] = IF k = 0 THEN first ELSE next[<<k, g[k - 1]>>]

\* Two runs agree as far as both go.
LEMMA RunsAgree ==
  ASSUME NEW first, NEW next, NEW n \in Nat, NEW m \in Nat, NEW g, NEW h,
          IsRun(g, n, first, next), IsRun(h, m, first, next)
  PROVE  \A k \in Nat : k <= n /\ k <= m => g[k] = h[k]
<1> DEFINE D == {k \in Nat : k <= n /\ k <= m /\ g[k] # h[k]}
<1> SUFFICES ASSUME D # {} PROVE FALSE
  OBVIOUS
<1>1. PICK k \in D : \A j \in D : k <= j
  BY Least
<1>2. k # 0
  <2>1. 0 \in 0 .. n /\ 0 \in 0 .. m
    OBVIOUS
  <2>2. g[0] = first /\ h[0] = first
    BY <2>1 DEF IsRun
  <2> QED BY <2>2
<1>3. k - 1 \in Nat /\ k - 1 <= n /\ k - 1 <= m /\ ~(k <= k - 1)
  BY <1>2
<1>4. g[k - 1] = h[k - 1]
  BY <1>1, <1>3
<1>5. k \in 0 .. n /\ k \in 0 .. m
  OBVIOUS
<1>6. g[k] = next[<<k, g[k - 1]>>] /\ h[k] = next[<<k, h[k - 1]>>]
  BY <1>2, <1>5 DEF IsRun
<1> QED BY <1>4, <1>6

\* There are runs of every length: another step extends one.
LEMMA RunExists ==
  ASSUME NEW S, NEW first \in S, NEW next \in [Nat \X S -> S]
  PROVE  \A n \in Nat : \E g \in [0 .. n -> S] : IsRun(g, n, first, next)
<1> DEFINE P(n) == \E g \in [0 .. n -> S] : IsRun(g, n, first, next)
           T == {n \in Nat : ~P(n)}
<1> SUFFICES ASSUME T # {} PROVE FALSE
  OBVIOUS
<1>1. PICK n \in T : \A j \in T : n <= j
  BY Least
<1>2. P(0)
  <2>1. [k \in 0 .. 0 |-> first] \in [0 .. 0 -> S] /\ IsRun([k \in 0 .. 0 |-> first], 0, first, next)
    BY DEF IsRun
  <2> QED BY <2>1
<1> HIDE DEF P
<1>3. n # 0 /\ n \in Nat /\ n - 1 \in Nat
  <2>1. n \in Nat /\ ~P(n)
    OBVIOUS
  <2>2. n # 0
    BY <2>1, <1>2
  <2> QED BY <2>1, <2>2
<1>4. P(n - 1)
  BY <1>1, <1>3
<1> USE DEF P
<1>5. PICK g \in [0 .. n - 1 -> S] : IsRun(g, n - 1, first, next)
  BY <1>4
<1> DEFINE h == [k \in 0 .. n |-> IF k = n THEN next[<<n, g[n - 1]>>] ELSE g[k]]
<1>6. h \in [0 .. n -> S]
  <2>1. <<n, g[n - 1]>> \in Nat \X S
    BY <1>3, <1>5
  <2>2. next[<<n, g[n - 1]>>] \in S
    BY <2>1
  <2>3. \A k \in 0 .. n : k # n => k \in 0 .. n - 1
    BY <1>3
  <2> QED BY <2>2, <2>3, <1>5
<1>7. IsRun(h, n, first, next)
  <2> SUFFICES ASSUME NEW k \in 0 .. n
               PROVE h[k] = IF k = 0 THEN first ELSE next[<<k, h[k - 1]>>]
    BY DEF IsRun
  <2>1. CASE k = n
    <3>1. h[n - 1] = g[n - 1]
      BY <1>3
    <3> QED BY <3>1, <2>1, <1>3
  <2>2. CASE k # n
    <3>1. k \in 0 .. n - 1 /\ h[k] = g[k]
      BY <2>2, <1>3
    <3>2. CASE k = 0
      BY <3>1, <3>2, <1>5 DEF IsRun
    <3>3. CASE k # 0
      <4>1. k - 1 \in 0 .. n /\ k - 1 # n /\ h[k - 1] = g[k - 1]
        BY <3>1, <3>3, <1>3
      <4> QED BY <3>1, <3>3, <4>1, <1>5 DEF IsRun
    <3> QED BY <3>2, <3>3
  <2> QED BY <2>1, <2>2
<1> QED BY <1>6, <1>7

\* Kept as an operator, so that the provers need not look inside to apply Recursion.
Recursive(f, first, next) ==
  f = [n \in Nat |-> IF n = 0 THEN first ELSE next[<<n, f[n - 1]>>]]

\* The function exists: the ends of the runs.
LEMMA Recursion ==
  ASSUME NEW S, NEW first \in S, NEW next \in [Nat \X S -> S]
  PROVE  \E f \in [Nat -> S] : Recursive(f, first, next)
<1> DEFINE run(n) == CHOOSE g \in [0 .. n -> S] : IsRun(g, n, first, next)
           f == [n \in Nat |-> run(n)[n]]
<1>1. ASSUME NEW n \in Nat PROVE run(n) \in [0 .. n -> S] /\ IsRun(run(n), n, first, next)
  BY RunExists
<1> HIDE DEF run
<1>2. ASSUME NEW n \in Nat PROVE f[n] = run(n)[n] /\ f[n] \in S
  <2>1. n \in 0 .. n
    OBVIOUS
  <2> QED BY <2>1, <1>1
<1>3. f \in [Nat -> S]
  BY <1>2
<1>4. ASSUME NEW n \in Nat PROVE f[n] = IF n = 0 THEN first ELSE next[<<n, f[n - 1]>>]
  <2>1. n \in 0 .. n
    OBVIOUS
  <2>2. run(n)[n] = IF n = 0 THEN first ELSE next[<<n, run(n)[n - 1]>>]
    BY <1>1, <2>1 DEF IsRun
  <2>3. CASE n = 0
    BY <2>2, <2>3, <1>2
  <2>4. CASE n # 0
    <3>1. n - 1 \in Nat /\ n - 1 <= n /\ n - 1 <= n - 1
      BY <2>4
    <3>2. IsRun(run(n), n, first, next) /\ IsRun(run(n - 1), n - 1, first, next)
      BY <1>1, <3>1
    <3>3. run(n)[n - 1] = run(n - 1)[n - 1]
      BY <3>1, <3>2, RunsAgree
    <3> QED BY <2>2, <2>4, <3>1, <3>3, <1>2
  <2> QED BY <2>3, <2>4
<1> HIDE DEF f
<1>5. DOMAIN f = Nat
  BY <1>3
<1>6. f = [n \in Nat |-> IF n = 0 THEN first ELSE next[<<n, f[n - 1]>>]]
  BY <1>3, <1>4
<1> QED BY <1>3, <1>6 DEF Recursive

(***************************************************************************)
(* The nodes of the tree.                                                  *)
(***************************************************************************)

\* The recursion of Node has a solution: each level halves the number.
LEMMA NodeIs ==
  ASSUME NEW i \in Nat
  PROVE  /\ Node(i) \in [Nat -> Nat]
         /\ Node(i)[0] = i
         /\ \A b \in Nat : Node(i)[b + 1] = Node(i)[b] \div 2
<1> DEFINE half == [p \in Nat \X Nat |-> p[2] \div 2]
           Is(f) == f = [b \in Nat |-> IF b = 0 THEN i ELSE f[b - 1] \div 2]
<1>1. half \in [Nat \X Nat -> Nat]
  OBVIOUS
<1>2. PICK f \in [Nat -> Nat] : Recursive(f, i, half)
  <2> HIDE DEF half
  <2> QED BY <1>1, Recursion
<1>3. ASSUME NEW b \in Nat, b # 0 PROVE half[<<b, f[b - 1]>>] = f[b - 1] \div 2
  <2>1. f[b - 1] \in Nat
    BY <1>2, <1>3
  <2> QED BY <2>1
<1> HIDE DEF half
<1>4. Is(f)
  BY <1>2, <1>3 DEF Recursive
<1>5. Node(i) = CHOOSE g : Is(g)
  BY DEF Node
<1>6. Is(Node(i))
  <2> HIDE DEF Is
  <2> QED BY <1>4, <1>5
<1>7. \A b \in Nat : Node(i)[b] = IF b = 0 THEN i ELSE Node(i)[b - 1] \div 2
  BY <1>6
<1>8. Node(i)[0] = i /\ \A b \in Nat : Node(i)[b + 1] = Node(i)[b] \div 2
  BY <1>7
<1>9. \A b \in Nat : Node(i)[b] \in Nat
  <2> DEFINE T == {b \in Nat : Node(i)[b] \notin Nat}
  <2> SUFFICES ASSUME T # {} PROVE FALSE
    OBVIOUS
  <2>1. PICK b \in T : \A c \in T : b <= c
    BY Least
  <2>2. b # 0
    BY <1>8
  <2>3. b - 1 \in Nat /\ Node(i)[b - 1] \in Nat
    BY <2>1, <2>2
  <2> QED BY <1>7, <2>2, <2>3
<1>10. Node(i) = [b \in Nat |-> IF b = 0 THEN i ELSE Node(i)[b - 1] \div 2]
  BY <1>6
<1> QED BY <1>8, <1>9, <1>10

\* NumLevels is high enough: all inputs are below one root.
LEMMA RootIsZero ==
  ASSUME NEW n \in Nat \ {0}
  PROVE  /\ NumLevels(n) \in Nat
         /\ \A i \in Inputs(n) : Node(i)[NumLevels(n)] = 0
<1> DEFINE top == Node(n - 1)
           T == {b \in Nat : top[b] = 0}
<1>0. n - 1 \in Nat
  OBVIOUS
<1>1. top \in [Nat -> Nat] /\ top[0] = n - 1 /\ \A b \in Nat : top[b + 1] = top[b] \div 2
  BY <1>0, NodeIs
<1> HIDE DEF top
<1>2. \A b \in Nat : top[b] = 0 \/ top[b] + b <= n - 1
  <2> DEFINE U == {b \in Nat : ~(top[b] = 0 \/ top[b] + b <= n - 1)}
  <2> SUFFICES ASSUME U # {} PROVE FALSE
    OBVIOUS
  <2>1. PICK b \in U : \A c \in U : b <= c
    BY Least
  <2>2. b # 0
    BY <1>1
  <2>3. b - 1 \in Nat /\ b - 1 \notin U
    BY <2>1, <2>2
  <2>4. top[b] = top[b - 1] \div 2 /\ top[b - 1] \in Nat /\ top[b] \in Nat
    BY <1>1, <2>3
  <2>5. top[b - 1] = 0 \/ top[b - 1] + (b - 1) <= n - 1
    BY <2>3
  <2> QED BY <2>4, <2>5
<1>3. top[n] = 0 /\ n \in T
  <2>1. top[n] = 0 \/ top[n] + n <= n - 1
    BY <1>2
  <2>2. top[n] \in Nat
    BY <1>1
  <2> QED BY <2>1, <2>2
<1>4. PICK l \in T : \A k \in T : l <= k
  BY <1>3, Least
<1>5. l \in 0 .. n /\ top[l] = 0 /\ \A k \in 0 .. l - 1 : top[k] # 0
  BY <1>3, <1>4
<1>6. NumLevels(n) \in 0 .. n /\ top[NumLevels(n)] = 0
  BY <1>5 DEF NumLevels, top
<1>7. ASSUME NEW i \in Inputs(n) PROVE \A b \in Nat : Node(i)[b] <= top[b]
  <2>1. i \in Nat /\ i <= n - 1
    BY DEF Inputs
  <2>2. Node(i) \in [Nat -> Nat] /\ Node(i)[0] = i
        /\ \A b \in Nat : Node(i)[b + 1] = Node(i)[b] \div 2
    BY <2>1, NodeIs
  <2> DEFINE U == {b \in Nat : ~(Node(i)[b] <= top[b])}
  <2> SUFFICES ASSUME U # {} PROVE FALSE
    OBVIOUS
  <2>3. PICK b \in U : \A c \in U : b <= c
    BY Least
  <2>4. b # 0
    BY <1>1, <2>1, <2>2
  <2>5. b - 1 \in Nat /\ b - 1 \notin U
    BY <2>3, <2>4
  <2>6. top[b] = top[b - 1] \div 2 /\ Node(i)[b] = Node(i)[b - 1] \div 2
    BY <1>1, <2>2, <2>5
  <2>7. top[b - 1] \in Nat /\ Node(i)[b - 1] \in Nat /\ Node(i)[b - 1] <= top[b - 1]
    BY <1>1, <2>2, <2>5
  <2>8. Node(i)[b] <= top[b]
    BY <2>6, <2>7
  <2> QED BY <2>8
<1>8. ASSUME NEW i \in Inputs(n) PROVE Node(i)[NumLevels(n)] = 0
  <2>1. NumLevels(n) \in Nat /\ i \in Nat
    BY <1>6 DEF Inputs
  <2>2. Node(i)[NumLevels(n)] <= 0 /\ Node(i)[NumLevels(n)] \in Nat
    BY <1>6, <1>7, <2>1, NodeIs
  <2> QED BY <2>2
<1> QED BY <1>6, <1>8

(***************************************************************************)
(* What is left after each level.                                          *)
(***************************************************************************)
\* A node passes requests of one side on, and that of the priority if it is one.
LEMMA SelIs ==
  ASSUME NEW R, NEW rr, NEW b
  PROVE  /\ Sel(R, rr, b) \subseteq R
         /\ R # {} => Sel(R, rr, b) # {}
         /\ rr \in R /\ Bit(rr, b) \in {0, 1} => rr \in Sel(R, rr, b)
         /\ (\A i \in R : Bit(i, b) \in {0, 1})
              => \A i, j \in Sel(R, rr, b) : Bit(i, b) = Bit(j, b)
BY DEF Sel

\* The recursion of Winners, and that it has a solution.
IsLeft(Left, n, R, rr) ==
  /\ Left[0] = R
  /\ \A l \in Nat : Left[l + 1] = Sel(Left[l], rr, NumLevels(n) - (l + 1))
  /\ Winners(n, R, rr) = Left[NumLevels(n)]

LEMMA LevelsAre ==
  ASSUME NEW n \in Nat, NEW R, NEW rr, NumLevels(n) \in Nat
  PROVE  \E Left \in [Nat -> SUBSET R] : IsLeft(Left, n, R, rr)
<1> DEFINE sel == [p \in Nat \X SUBSET R |-> Sel(p[2], rr, NumLevels(n) - p[1])]
           Is(f) == f = [l \in Nat |-> IF l = 0 THEN R ELSE Sel(f[l - 1], rr, NumLevels(n) - l)]
<1>1. sel \in [Nat \X SUBSET R -> SUBSET R] /\ R \in SUBSET R
  <2>1. ASSUME NEW p \in Nat \X SUBSET R
        PROVE  Sel(p[2], rr, NumLevels(n) - p[1]) \in SUBSET R
    <3>1. p[2] \subseteq R
      OBVIOUS
    <3> QED BY <3>1, SelIs
  <2> QED BY <2>1
<1>2. PICK f \in [Nat -> SUBSET R] : Recursive(f, R, sel)
  <2> HIDE DEF sel
  <2> QED BY <1>1, Recursion
<1>3. ASSUME NEW l \in Nat, l # 0
      PROVE  sel[<<l, f[l - 1]>>] = Sel(f[l - 1], rr, NumLevels(n) - l)
  <2>1. l - 1 \in Nat
    BY <1>3
  <2>2. f[l - 1] \in SUBSET R
    BY <2>1
  <2> QED BY <2>1, <2>2
<1> HIDE DEF sel
<1>4. Is(f)
  BY <1>2, <1>3 DEF Recursive
<1> DEFINE Left == CHOOSE g : Is(g)
<1>5. Is(Left)
  <2> HIDE DEF Is
  <2> QED BY <1>4
<1>6. Winners(n, R, rr) = Left[NumLevels(n)]
  BY DEF Winners
<1> HIDE DEF Left
<1>7. \A l \in Nat : Left[l] = IF l = 0 THEN R ELSE Sel(Left[l - 1], rr, NumLevels(n) - l)
  BY <1>5
<1>8. Left[0] = R
  BY <1>7
<1>9. ASSUME NEW l \in Nat PROVE Left[l + 1] = Sel(Left[l], rr, NumLevels(n) - (l + 1))
  <2>1. l + 1 \in Nat /\ l + 1 # 0 /\ (l + 1) - 1 = l
    OBVIOUS
  <2> QED BY <1>7, <2>1
<1>10. \A l \in Nat : Left[l] \in SUBSET R
  <2> DEFINE T == {l \in Nat : Left[l] \notin SUBSET R}
  <2> SUFFICES ASSUME T # {} PROVE FALSE
    OBVIOUS
  <2>1. PICK l \in T : \A k \in T : l <= k
    BY Least
  <2>2. l # 0
    BY <1>8
  <2>3. l - 1 \in Nat /\ Left[l - 1] \subseteq R
    BY <2>1, <2>2
  <2>4. Left[l] \subseteq Left[l - 1]
    BY <1>7, <2>2, SelIs
  <2> QED BY <2>3, <2>4
<1>11. Left \in [Nat -> SUBSET R]
  <2>1. Left = [l \in Nat |-> IF l = 0 THEN R ELSE Sel(Left[l - 1], rr, NumLevels(n) - l)]
    BY <1>5
  <2> QED BY <1>10, <2>1
<1> QED BY <1>6, <1>8, <1>9, <1>11 DEF IsLeft

(***************************************************************************)
(* For any number of inputs and any requests, the tree of rr_arb_tree.sv   *)
(* grants exactly one, and the one rr_q points at if it is among them.  On *)
(* each level the requests that are left are below one node.               *)
(***************************************************************************)
THEOREM OneWins ==
  ASSUME NEW n \in Nat \ {0}, NEW R, R \subseteq Inputs(n), R # {}, NEW rr
  PROVE  \E m \in R : Winners(n, R, rr) = {m} /\ (rr \in R => m = rr)
<1>1. n \in Nat /\ NumLevels(n) \in Nat /\ \A i \in R : i \in Nat /\ Node(i)[NumLevels(n)] = 0
  BY RootIsZero DEF Inputs
<1>2. PICK Left \in [Nat -> SUBSET R] : IsLeft(Left, n, R, rr)
  BY <1>1, LevelsAre
<1> DEFINE N == NumLevels(n)
           Inv(l) == /\ Left[l] # {}
                     /\ rr \in R => rr \in Left[l]
                     /\ \A i, j \in Left[l] : Node(i)[N - l] = Node(j)[N - l]
<1>3. N \in Nat
  BY <1>1
<1>4. Inv(0)
  BY <1>1, <1>2 DEF IsLeft
<1>5. ASSUME NEW l \in Nat, l + 1 <= N, Inv(l) PROVE Inv(l + 1)
  <2> DEFINE b == N - (l + 1)
  <2>1. b \in Nat /\ b + 1 = N - l
    BY <1>3, <1>5
  <2>2. Left[l + 1] = Sel(Left[l], rr, b) /\ Left[l] \subseteq R
    BY <1>2 DEF IsLeft
  <2> HIDE DEF b, N
  <2>3. \A i \in R : Node(i)[b] \in Nat /\ Node(i)[b + 1] = Node(i)[b] \div 2
    BY <1>1, <2>1, NodeIs
  <2>4. \A i \in R : Bit(i, b) \in {0, 1} /\ Node(i)[b] = 2 * Node(i)[b + 1] + Bit(i, b)
    BY <2>3 DEF Bit
  <2>5. Left[l + 1] # {} /\ Left[l + 1] \subseteq Left[l]
        /\ \A i, j \in Left[l + 1] : Bit(i, b) = Bit(j, b)
    BY <1>5, <2>2, <2>4, SelIs
  <2>6. ASSUME NEW i \in Left[l + 1], NEW j \in Left[l + 1] PROVE Node(i)[b] = Node(j)[b]
    <3>1. Node(i)[b + 1] = Node(j)[b + 1]
      BY <1>5, <2>1, <2>5
    <3> QED BY <2>2, <2>4, <2>5, <3>1
  <2>7. rr \in R => rr \in Left[l + 1]
    BY <1>5, <2>2, <2>4, SelIs
  <2> QED BY <2>5, <2>6, <2>7 DEF b
<1>6. \A l \in Nat : l <= N => Inv(l)
  <2> DEFINE T == {l \in Nat : l <= N /\ ~Inv(l)}
  <2> SUFFICES ASSUME T # {} PROVE FALSE
    OBVIOUS
  <2> HIDE DEF Inv, N
  <2>1. PICK l \in T : \A k \in T : l <= k
    BY Least
  <2>2. l # 0 /\ l \in Nat /\ l <= N /\ ~Inv(l)
    BY <1>4
  <2>3. l - 1 \in Nat /\ (l - 1) + 1 = l /\ l - 1 <= N /\ ~(l <= l - 1)
    BY <1>3, <2>2
  <2>4. Inv(l - 1)
    BY <2>1, <2>3
  <2> QED BY <1>5, <2>2, <2>3, <2>4
<1>7. Inv(N)
  BY <1>3, <1>6
<1>8. \A i \in Left[N] : i \in R /\ Node(i)[0] = i
  BY <1>1, <1>2, <1>3, NodeIs
<1>9. \A i, j \in Left[N] : i = j
  BY <1>3, <1>7, <1>8
<1>10. PICK m \in Left[N] : rr \in R => m = rr
  BY <1>7
<1> QED BY <1>2, <1>8, <1>9, <1>10 DEF IsLeft

\* The same of the input that is granted.
LEMMA WinnerIs ==
  ASSUME NEW n \in Nat \ {0}, NEW R, R \subseteq Inputs(n), R # {}, NEW rr
  PROVE  Winner(n, R, rr) \in R /\ (rr \in R => Winner(n, R, rr) = rr)
<1>1. PICK m \in R : Winners(n, R, rr) = {m} /\ (rr \in R => m = rr)
  BY OneWins
<1>2. Winner(n, R, rr) = m
  BY <1>1 DEF Winner
<1> QED BY <1>1, <1>2

(***************************************************************************)
(* The next priority.                                                      *)
(***************************************************************************)
\* There is a first request.
LEMMA FirstIs ==
  ASSUME NEW R, R \subseteq Nat, R # {}
  PROVE  First(R) \in R /\ \A j \in R : First(R) <= j
<1>1. \E i \in R : \A j \in R : i <= j
  BY Least
<1> QED BY <1>1 DEF First

\* The next priority is a request, the first above the old one if there is any.
LEMMA NextIdxIs ==
  ASSUME NEW R, R \subseteq Nat, R # {}, NEW rr \in Nat
  PROVE  /\ NextIdx(R, rr) \in R
         /\ \A j \in R : j > rr => rr < NextIdx(R, rr) /\ NextIdx(R, rr) <= j
         /\ (\A j \in R : ~(j > rr)) => \A j \in R : NextIdx(R, rr) <= j
<1> DEFINE upper == {i \in R : i > rr}
<1>1. CASE upper = {}
  <2>1. NextIdx(R, rr) = First(R)
    BY <1>1 DEF NextIdx
  <2> QED BY <1>1, <2>1, FirstIs
<1>2. CASE upper # {}
  <2>1. NextIdx(R, rr) = First(upper)
    BY <1>2 DEF NextIdx
  <2>2. First(upper) \in upper /\ \A j \in upper : First(upper) <= j
    BY <1>2, FirstIs
  <2> QED BY <1>2, <2>1, <2>2
<1> QED BY <1>1, <1>2

\* The priority stays the number of an input.
LEMMA RrNextType ==
  ASSUME NEW n \in Nat \ {0}, NEW R \in SUBSET Inputs(n), NEW rr \in Inputs(n), NEW gnt \in BOOLEAN
  PROVE  RrNext(R, rr, gnt) \in Inputs(n)
<1>1. Inputs(n) \subseteq Nat
  BY DEF Inputs
<1> QED BY <1>1, NextIdxIs DEF RrNext

\* How far the priority rr is from input i, going up and round.
Distance(n, rr, i) == IF rr <= i THEN i - rr ELSE i - rr + n

\* A grant that is not for i moves the priority towards i, if i asks.
LEMMA NextIsCloser ==
  ASSUME NEW n \in Nat \ {0}, NEW R, R \subseteq Inputs(n), NEW i \in R,
         NEW rr \in Inputs(n), rr # i
  PROVE  Distance(n, NextIdx(R, rr), i) < Distance(n, rr, i)
<1>1. /\ R \subseteq Nat /\ R # {} /\ rr \in Nat /\ i \in Nat
      /\ \A j \in R : j <= n - 1
  BY DEF Inputs
<1>2. NextIdx(R, rr) \in R /\ NextIdx(R, rr) \in Nat
  BY <1>1, NextIdxIs
<1>3. CASE i > rr
  <2>1. rr < NextIdx(R, rr) /\ NextIdx(R, rr) <= i
    BY <1>1, <1>3, NextIdxIs
  <2> QED BY <1>1, <1>2, <1>3, <2>1 DEF Distance
<1>4. CASE ~(i > rr) /\ \A j \in R : ~(j > rr)
  <2>1. NextIdx(R, rr) <= i
    BY <1>1, <1>4, NextIdxIs
  <2>2. i < rr /\ rr <= n - 1
    BY <1>1, <1>4 DEF Inputs
  <2> QED BY <1>1, <1>2, <2>1, <2>2 DEF Distance
<1>5. CASE ~(i > rr) /\ \E j \in R : j > rr
  <2>1. NextIdx(R, rr) > rr /\ NextIdx(R, rr) <= n - 1
    BY <1>1, <1>2, <1>5, NextIdxIs
  <2> QED BY <1>1, <1>2, <1>5, <2>1 DEF Distance
<1> QED BY <1>3, <1>4, <1>5
=============================================================================
