--------------------------- MODULE SavedStateProofs ---------------------------
(***************************************************************************)
(* The saved state (SavedState) whichever register a fault hits, wherever  *)
(* in the code, and however often a group is repaired: what the harts have *)
(* in their registers, on the stack and in the saved state, before each    *)
(* instruction of each routine.                                            *)
(*                                                                         *)
(* First the instructions: what stands where in a routine, and what one    *)
(* does to a hart with the registers R and the memory M.  Then, routine by *)
(* routine, the assertion before the i-th instruction, and the step to the *)
(* next.  Then the harts together: that those which execute as one do what *)
(* one of them does, whoever is struck; and what holds of a group as it    *)
(* forms, works, is repaired and is recovered (Holds).                     *)
(***************************************************************************)
EXTENDS SavedState, SequenceTheorems, FiniteSetTheorems, TLAPS

(***************************************************************************)
(* The code: what stands where.                                            *)
(***************************************************************************)
\* s is a sequence of n elements; in u, s comes after k others.
Long(s, n)       == n \in Nat /\ DOMAIN s = 1 .. n /\ s = [i \in 1 .. n |-> s[i]]
Part(u, k, s, n) == \A i \in 1 .. n : u[k + i] = s[i]

LEMMA Cat ==
  ASSUME NEW s, NEW n, NEW t, NEW m, Long(s, n), Long(t, m)
  PROVE  Long(s \o t, n + m) /\ Part(s \o t, 0, s, n) /\ Part(s \o t, n, t, m)
<1> DEFINE S == {s[i] : i \in 1 .. n} \cup {t[i] : i \in 1 .. m}
<1>1. s \in [1 .. n -> S] /\ t \in [1 .. m -> S] /\ n \in Nat /\ m \in Nat
  BY DEF Long
<1> HIDE DEF S
<1>2. s \in Seq(S) /\ t \in Seq(S) /\ Len(s) = n /\ Len(t) = m
  BY <1>1
<1>3. /\ s \o t \in Seq(S) /\ Len(s \o t) = n + m
      /\ \A i \in 1 .. n + m : (s \o t)[i] = IF i <= n THEN s[i] ELSE t[i - n]
  BY <1>2, ConcatProperties
<1>4. DOMAIN (s \o t) = 1 .. n + m /\ s \o t \in [1 .. n + m -> S]
  BY <1>3, LenProperties
<1>5. /\ \A i \in 1 .. m : n + i \in 1 .. n + m /\ ~(n + i <= n) /\ (n + i) - n = i
      /\ \A i \in 1 .. n : i \in 1 .. n + m /\ i <= n /\ 0 + i = i
  BY <1>1
<1> QED BY <1>1, <1>3, <1>4, <1>5 DEF Long, Part

LEMMA Within ==
  ASSUME NEW w, NEW k \in Nat, NEW u, NEW n \in Nat, NEW z \in Nat, NEW t, NEW m \in Nat,
         Part(w, k, u, n), Part(u, z, t, m), z + m <= n
  PROVE  Part(w, k + z, t, m)
<1> SUFFICES ASSUME NEW i \in 1 .. m PROVE w[(k + z) + i] = t[i]
  BY DEF Part
<1>1. (k + z) + i = k + (z + i) /\ z + i \in 1 .. n
  OBVIOUS
<1> QED BY <1>1 DEF Part

\* w is four sequences one behind the other.
Four(w, a, i, b, z, c, k, d, l) ==
  /\ Long(w, i + z + k + l) /\ Part(w, 0, a, i) /\ Part(w, i, b, z)
  /\ Part(w, i + z, c, k) /\ Part(w, i + z + k, d, l)
LEMMA Cat4 ==
  ASSUME NEW a, NEW i, NEW b, NEW z, NEW c, NEW k, NEW d, NEW l,
         Long(a, i), Long(b, z), Long(c, k), Long(d, l)
  PROVE  Four(a \o b \o c \o d, a, i, b, z, c, k, d, l)
<1> DEFINE u == a \o b
           v == u \o c
           w == v \o d
<1>1. i \in Nat /\ z \in Nat /\ k \in Nat /\ l \in Nat
  BY DEF Long
<1>2. Long(u, i + z) /\ Part(u, 0, a, i) /\ Part(u, i, b, z)
  BY Cat
<1> HIDE DEF u
<1>3. Long(v, i + z + k) /\ Part(v, 0, u, i + z) /\ Part(v, i + z, c, k)
  BY <1>2, Cat
<1> HIDE DEF v
<1>4. Long(w, i + z + k + l) /\ Part(w, 0, v, i + z + k) /\ Part(w, i + z + k, d, l)
  BY <1>3, Cat
<1> HIDE DEF w
<1>5. Part(w, 0, u, i + z) /\ Part(w, i + z, c, k)
  <2>1. i + z \in Nat /\ i + z + k \in Nat /\ 0 + (i + z) <= i + z + k /\ (i + z) + k <= i + z + k
        /\ 0 + 0 = 0 /\ 0 + (i + z) = i + z
    BY <1>1
  <2>2. Part(w, 0 + 0, u, i + z)
    BY <1>1, <1>3, <1>4, <2>1, Within
  <2>3. Part(w, 0 + (i + z), c, k)
    BY <1>1, <1>3, <1>4, <2>1, Within
  <2> QED BY <2>1, <2>2, <2>3
<1>6. Part(w, 0, a, i) /\ Part(w, i, b, z)
  <2>1. i + z \in Nat /\ 0 + i <= i + z /\ 0 + 0 = 0 /\ 0 + i = i
    BY <1>1
  <2>2. Part(w, 0 + 0, a, i)
    BY <1>1, <1>2, <1>5, <2>1, Within
  <2>3. Part(w, 0 + i, b, z)
    BY <1>1, <1>2, <1>5, <2>1, Within
  <2> QED BY <2>1, <2>2, <2>3
<1> QED BY <1>4, <1>5, <1>6 DEF u, v, w, Four

\* The registers, in the order of their words in the saved state.
Order == Csr \o File
Vis   == Reg \ {"dpc"}

LEMMA FileText ==
  /\ Long(File, 31)
  /\ \A i \in 1 .. 7 : File[i] = Low[i]
  /\ \A i \in 8 .. 27 : File[i] = Args[i - 7]
  /\ File[28] = "t3" /\ File[29] = "t4" /\ File[30] = "t5" /\ File[31] = "t6"
<1> DEFINE last == <<"t3", "t4", "t5", "t6">>
<1>1. Long(Low, 7) /\ Long(Args, 20) /\ Long(last, 4)
  BY DEF Long, Low, Args
<1>2. last[1] = "t3" /\ last[2] = "t4" /\ last[3] = "t5" /\ last[4] = "t6"
  OBVIOUS
<1> HIDE DEF last
<1> DEFINE front == Low \o Args
<1>3. Long(front, 7 + 20) /\ Part(front, 0, Low, 7) /\ Part(front, 7, Args, 20)
  BY <1>1, Cat
<1> HIDE DEF front
<1>8. Long(front, 27)
  BY <1>3
<1>4. Long(front \o last, 27 + 4) /\ Part(front \o last, 0, front, 27) /\ Part(front \o last, 27, last, 4)
  BY <1>1, <1>8, Cat
<1>5. File = front \o last
  BY DEF File, front, last
<1>6. /\ Long(File, 31) /\ Part(File, 0, Low, 7) /\ Part(File, 7, Args, 20)
      /\ Part(File, 27, last, 4)
  <2>1. Long(File, 31) /\ Part(File, 27, last, 4) /\ Part(File, 0, front, 27)
    BY <1>4, <1>5
  <2>2. Part(File, 0 + 0, Low, 7) /\ Part(File, 0 + 7, Args, 20)
    BY <2>1, <1>3, Within
  <2> QED BY <2>1, <2>2
<1>7. \A i \in 8 .. 27 : i - 7 \in 1 .. 20 /\ 7 + (i - 7) = i
  OBVIOUS
<1> QED BY <1>2, <1>6, <1>7 DEF Part

LEMMA OrderText ==
  /\ Long(Order, 36)
  /\ \A i \in 1 .. 5 : Order[i] = Csr[i]
  /\ \A i \in 6 .. 36 : Order[i] = File[i - 5]
<1>1. Long(Csr, 5)
  BY DEF Long, Csr
<1>2. Long(Order, 5 + 31) /\ Part(Order, 0, Csr, 5) /\ Part(Order, 5, File, 31)
  BY <1>1, FileText, Cat DEF Order
<1>3. \A i \in 6 .. 36 : i - 5 \in 1 .. 31 /\ 5 + (i - 5) = i
  OBVIOUS
<1> QED BY <1>2, <1>3 DEF Part

\* One by one.
LEMMA OrderList ==
  /\ Order[1] = "mstatus" /\ Order[2] = "mie" /\ Order[3] = "mtvec" /\ Order[4] = "mepc"
  /\ Order[5] = "mtval"
  /\ Order[6] = "ra" /\ Order[7] = "sp" /\ Order[8] = "gp" /\ Order[9] = "tp"
  /\ Order[10] = "t0" /\ Order[11] = "t1" /\ Order[12] = "t2"
  /\ Order[13] = "s0" /\ Order[14] = "s1" /\ Order[15] = "a0" /\ Order[16] = "a1"
  /\ Order[17] = "a2" /\ Order[18] = "a3" /\ Order[19] = "a4" /\ Order[20] = "a5"
  /\ Order[21] = "a6" /\ Order[22] = "a7" /\ Order[23] = "s2" /\ Order[24] = "s3"
  /\ Order[25] = "s4" /\ Order[26] = "s5" /\ Order[27] = "s6" /\ Order[28] = "s7"
  /\ Order[29] = "s8" /\ Order[30] = "s9" /\ Order[31] = "s10" /\ Order[32] = "s11"
  /\ Order[33] = "t3" /\ Order[34] = "t4" /\ Order[35] = "t5" /\ Order[36] = "t6"
<1>1. Csr[1] = "mstatus" /\ Csr[2] = "mie" /\ Csr[3] = "mtvec" /\ Csr[4] = "mepc" /\ Csr[5] = "mtval"
  BY DEF Csr
<1>2. /\ Low[1] = "ra" /\ Low[2] = "sp" /\ Low[3] = "gp" /\ Low[4] = "tp" /\ Low[5] = "t0"
      /\ Low[6] = "t1" /\ Low[7] = "t2"
  BY DEF Low
<1>3. /\ Args[1] = "s0" /\ Args[2] = "s1" /\ Args[3] = "a0" /\ Args[4] = "a1" /\ Args[5] = "a2"
      /\ Args[6] = "a3" /\ Args[7] = "a4" /\ Args[8] = "a5" /\ Args[9] = "a6" /\ Args[10] = "a7"
      /\ Args[11] = "s2" /\ Args[12] = "s3" /\ Args[13] = "s4" /\ Args[14] = "s5" /\ Args[15] = "s6"
      /\ Args[16] = "s7" /\ Args[17] = "s8" /\ Args[18] = "s9" /\ Args[19] = "s10" /\ Args[20] = "s11"
  BY DEF Args
<1>4. /\ \A i \in 6 .. 12 : Order[i] = Low[i - 5]
      /\ \A i \in 13 .. 32 : Order[i] = Args[i - 12]
  BY FileText, OrderText
<1>6. Order[33] = "t3" /\ Order[34] = "t4" /\ Order[35] = "t5" /\ Order[36] = "t6"
  BY FileText, OrderText
<1>7. /\ Order[6] = "ra" /\ Order[7] = "sp" /\ Order[8] = "gp" /\ Order[9] = "tp"
      /\ Order[10] = "t0" /\ Order[11] = "t1" /\ Order[12] = "t2"
  BY <1>2, <1>4
<1>8. /\ Order[13] = "s0" /\ Order[14] = "s1" /\ Order[15] = "a0" /\ Order[16] = "a1"
      /\ Order[17] = "a2" /\ Order[18] = "a3" /\ Order[19] = "a4" /\ Order[20] = "a5"
      /\ Order[21] = "a6" /\ Order[22] = "a7" /\ Order[23] = "s2" /\ Order[24] = "s3"
      /\ Order[25] = "s4" /\ Order[26] = "s5" /\ Order[27] = "s6" /\ Order[28] = "s7"
      /\ Order[29] = "s8" /\ Order[30] = "s9" /\ Order[31] = "s10" /\ Order[32] = "s11"
  BY <1>3, <1>4
<1>9. Order[1] = Csr[1] /\ Order[2] = Csr[2] /\ Order[3] = Csr[3] /\ Order[4] = Csr[4] /\ Order[5] = Csr[5]
  BY OrderText
<1> QED BY <1>1, <1>6, <1>7, <1>8, <1>9

\* Each register has a word, and one only.
LEMMA OrderIsOne ==
  /\ \A i, k \in 1 .. 36 : Order[i] = Order[k] => i = k
  /\ \A i \in 1 .. 36 : Order[i] # "dpc"
BY OrderList

LEMMA VisIs == Vis = {Order[i] : i \in 1 .. 36}
<1>1. Elements(Csr) = {Order[i] : i \in 1 .. 5}
  <2>1. DOMAIN Csr = 1 .. 5
    BY DEF Csr
  <2> QED BY <2>1, OrderText DEF Elements
<1>2. Elements(File) = {Order[i] : i \in 6 .. 36}
  <2>1. DOMAIN File = 1 .. 31
    BY FileText DEF Long
  <2>2. \A i \in 1 .. 31 : i + 5 \in 6 .. 36 /\ Order[i + 5] = File[i]
    BY OrderText
  <2>3. \A i \in 6 .. 36 : i - 5 \in 1 .. 31
    OBVIOUS
  <2> QED BY <2>1, <2>2, <2>3, OrderText DEF Elements
<1> QED BY <1>1, <1>2, OrderIsOne DEF Vis, Reg

LEMMA StoresText ==
  ASSUME NEW s, NEW n, Long(s, n), NEW k, NEW base
  PROVE  /\ Long(Stores(s, k, base), n) /\ Long(Loads(s, k, base), n)
         /\ \A i \in 1 .. n : /\ Stores(s, k, base)[i] = sw(s[i], k + i - 1, base)
                              /\ Loads(s, k, base)[i] = lw(s[i], k + i - 1, base)
BY DEF Long, Stores, Loads

LEMMA PushText ==
  ASSUME NEW s, NEW n, Long(s, n), NEW k
  PROVE  /\ Long(Push(s, k), n) /\ Long(Pop(s, k), n)
         /\ \A i \in 1 .. n : Push(s, k)[i] = sw(s[i], k - i, "sp") /\ Pop(s, k)[i] = lw(s[i], k - i, "sp")
BY DEF Long, Push, Pop

\* The two instructions for each control register.
LEMMA CsrText ==
  /\ Long(CsrStores, 10) /\ Long(CsrLoads, 10) /\ Long(CsrPush, 10) /\ Long(CsrPop, 10)
  /\ \A n \in 1 .. 5 :
       /\ CsrStores[2 * n - 1] = mv("t6", Csr[n]) /\ CsrStores[2 * n] = sw("t6", n - 1, "t5")
       /\ CsrLoads[2 * n - 1] = lw("t6", n - 1, "t5") /\ CsrLoads[2 * n] = mv(Csr[n], "t6")
       /\ CsrPush[2 * n - 1] = mv("t6", Csr[n]) /\ CsrPush[2 * n] = sw("t6", -31 - n, "sp")
       /\ CsrPop[2 * n - 1] = lw("t6", -31 - n, "sp") /\ CsrPop[2 * n] = mv(Csr[n], "t6")
<1>1. Twice(5) = 1 .. 10
  BY DEF Twice
<1>2. ASSUME NEW n \in 1 .. 5
      PROVE  /\ 2 * n - 1 \in 1 .. 10 /\ Odd(2 * n - 1) /\ ((2 * n - 1) + 1) \div 2 = n
             /\ ((2 * n - 1) - 1) \div 2 = n - 1
             /\ 2 * n \in 1 .. 10 /\ ~Odd(2 * n) /\ (2 * n) \div 2 = n
  BY DEF Odd
<1>3. Long(CsrStores, 10) /\ Long(CsrLoads, 10) /\ Long(CsrPush, 10) /\ Long(CsrPop, 10)
  BY <1>1 DEF Long, CsrStores, CsrLoads, CsrPush, CsrPop
<1>4. ASSUME NEW n \in 1 .. 5
      PROVE  /\ CsrStores[2 * n - 1] = mv("t6", Csr[n]) /\ CsrStores[2 * n] = sw("t6", n - 1, "t5")
             /\ CsrLoads[2 * n - 1] = lw("t6", n - 1, "t5") /\ CsrLoads[2 * n] = mv(Csr[n], "t6")
             /\ CsrPush[2 * n - 1] = mv("t6", Csr[n]) /\ CsrPush[2 * n] = sw("t6", -31 - n, "sp")
             /\ CsrPop[2 * n - 1] = lw("t6", -31 - n, "sp") /\ CsrPop[2 * n] = mv(Csr[n], "t6")
  BY <1>1, <1>2 DEF CsrStores, CsrLoads, CsrPush, CsrPop
<1> QED BY <1>3, <1>4

\* The words 0 to 4 of the saved state, and those behind ra, sp, gp and tp.
Thread == Low \o Args \o <<"t3", "t4">>
LEMMA ThreadText ==
  Long(Thread, 29) /\ \A i \in 1 .. 29 : Thread[i] = Order[i + 5]
<1> DEFINE last == <<"t3", "t4">>
<1>1. Long(Low, 7) /\ Long(Args, 20) /\ Long(last, 2)
  BY DEF Long, Low, Args
<1>2. last[1] = "t3" /\ last[2] = "t4"
  OBVIOUS
<1> HIDE DEF last
<1> DEFINE front == Low \o Args
<1>3. Long(front, 7 + 20) /\ Part(front, 0, Low, 7) /\ Part(front, 7, Args, 20)
  BY <1>1, Cat
<1> HIDE DEF front
<1>4. Long(front, 27)
  BY <1>3
<1>5. Long(front \o last, 27 + 2) /\ Part(front \o last, 0, front, 27) /\ Part(front \o last, 27, last, 2)
  BY <1>1, <1>4, Cat
<1>6. Thread = front \o last
  BY DEF Thread, front, last
<1>7. /\ Long(Thread, 29) /\ Part(Thread, 0, Low, 7) /\ Part(Thread, 7, Args, 20)
      /\ Part(Thread, 27, last, 2)
  <2>1. Long(Thread, 29) /\ Part(Thread, 27, last, 2) /\ Part(Thread, 0, front, 27)
    BY <1>5, <1>6
  <2>2. Part(Thread, 0 + 0, Low, 7) /\ Part(Thread, 0 + 7, Args, 20)
    BY <2>1, <1>3, Within
  <2> QED BY <2>1, <2>2
<1>8. ASSUME NEW i \in 1 .. 29 PROVE Thread[i] = File[i]
  <2>1. CASE i \in 1 .. 7
    BY <2>1, <1>7, FileText DEF Part
  <2>2. CASE i \in 8 .. 27
    <3>1. i - 7 \in 1 .. 20 /\ 7 + (i - 7) = i
      BY <2>2
    <3> QED BY <2>2, <3>1, <1>7, FileText DEF Part
  <2>3. CASE i \in 28 .. 29
    <3>1. i - 27 \in 1 .. 2 /\ 27 + (i - 27) = i /\ (i = 28 \/ i = 29)
      BY <2>3
    <3> QED BY <2>3, <3>1, <1>2, <1>7, FileText DEF Part
  <2> QED BY <2>1, <2>2, <2>3
<1>9. \A i \in 1 .. 29 : i + 5 \in 6 .. 36 /\ (i + 5) - 5 = i
  OBVIOUS
<1> QED BY <1>7, <1>8, <1>9, OrderText

\* Safe_Activate, place by place.
SaCode == Code["Safe_Activate"]
LEMMA SaText ==
  /\ Long(SaCode, 60)
  /\ SaCode[1] = addi("sp", "sp", -4) /\ SaCode[2] = sw("t5", 3, "sp")
  /\ SaCode[3] = sw("t6", 2, "sp") /\ SaCode[4] = la("t5", Base)
  /\ \A n \in 1 .. 5 : SaCode[3 + 2 * n] = mv("t6", Order[n]) /\ SaCode[4 + 2 * n] = sw("t6", n - 1, "t5")
  /\ \A n \in 6 .. 34 : SaCode[n + 9] = sw(Order[n], n - 1, "t5")
  /\ SaCode[44] = sw("t5", 3, "sp") /\ SaCode[45] = lw("t6", 3, "sp") /\ SaCode[46] = sw("t5", 34, "t5")
  /\ SaCode[47] = lw("t6", 2, "sp") /\ SaCode[48] = sw("t6", 35, "t5")
  /\ SaCode[49] = la("t5", Device) /\ SaCode[50] = la("t6", Device) /\ SaCode[51] = la("t5", Base)
  /\ SaCode[52] = label("resume") /\ SaCode[53] = la("t6", <<"Safe_Activate", 0>>)
  /\ SaCode[54] = sw("t6", 36, "t5") /\ SaCode[55] = wfi
  /\ SaCode[56] = la("t5", Device) /\ SaCode[57] = lw("t6", 2, "sp") /\ SaCode[58] = lw("t5", 3, "sp")
  /\ SaCode[59] = addi("sp", "sp", 4) /\ SaCode[60] = ret
<1> DEFINE head == <<addi("sp", "sp", -4), sw("t5", 3, "sp"), sw("t6", 2, "sp"), la("t5", Base)>>
           tail == <<sw("t5", 3, "sp"), lw("t6", 3, "sp"), sw("t5", 34, "t5"),
                     lw("t6", 2, "sp"), sw("t6", 35, "t5"),
                     la("t5", Device), la("t6", Device), la("t5", Base),
                     label("resume"), la("t6", <<"Safe_Activate", 0>>), sw("t6", PcWord, "t5"),
                     wfi,
                     la("t5", Device), lw("t6", 2, "sp"), lw("t5", 3, "sp"), addi("sp", "sp", 4),
                     ret>>
<1>1. Long(head, 4) /\ Long(tail, 17)
  BY DEF Long
<1>2. Long(CsrStores, 10) /\ Long(SaveContext, 29)
  BY CsrText, ThreadText, StoresText DEF SaveContext, Thread
<1>3. SaCode = head \o CsrStores \o SaveContext \o tail
  BY DEF Code, SaCode, SafeActivateCode
<1>7. /\ head[1] = addi("sp", "sp", -4) /\ head[2] = sw("t5", 3, "sp")
      /\ head[3] = sw("t6", 2, "sp") /\ head[4] = la("t5", Base)
  OBVIOUS
<1>8. /\ tail[1] = sw("t5", 3, "sp") /\ tail[2] = lw("t6", 3, "sp") /\ tail[3] = sw("t5", 34, "t5")
      /\ tail[4] = lw("t6", 2, "sp") /\ tail[5] = sw("t6", 35, "t5")
      /\ tail[6] = la("t5", Device) /\ tail[7] = la("t6", Device) /\ tail[8] = la("t5", Base)
      /\ tail[9] = label("resume") /\ tail[10] = la("t6", <<"Safe_Activate", 0>>)
      /\ tail[11] = sw("t6", 36, "t5") /\ tail[12] = wfi
      /\ tail[13] = la("t5", Device) /\ tail[14] = lw("t6", 2, "sp") /\ tail[15] = lw("t5", 3, "sp")
      /\ tail[16] = addi("sp", "sp", 4) /\ tail[17] = ret
  BY DEF PcWord
<1> HIDE DEF head, tail
<1>4. /\ Long(SaCode, 4 + 10 + 29 + 17) /\ Part(SaCode, 0, head, 4) /\ Part(SaCode, 4, CsrStores, 10)
      /\ Part(SaCode, 4 + 10, SaveContext, 29) /\ Part(SaCode, 4 + 10 + 29, tail, 17)
  <2>1. Four(SaCode, head, 4, CsrStores, 10, SaveContext, 29, tail, 17)
    BY <1>1, <1>2, <1>3, Cat4
  <2> QED BY <2>1 DEF Four
<1>5. ASSUME NEW n \in 1 .. 5
      PROVE  SaCode[3 + 2 * n] = mv("t6", Order[n]) /\ SaCode[4 + 2 * n] = sw("t6", n - 1, "t5")
  <2>1. 2 * n - 1 \in 1 .. 10 /\ 2 * n \in 1 .. 10 /\ 3 + 2 * n = 4 + (2 * n - 1)
    OBVIOUS
  <2> QED BY <1>4, <2>1, CsrText, OrderText DEF Part
<1>6. ASSUME NEW n \in 6 .. 34 PROVE SaCode[n + 9] = sw(Order[n], n - 1, "t5")
  <2>1. n - 5 \in 1 .. 29 /\ (4 + 10) + (n - 5) = n + 9 /\ 5 + (n - 5) - 1 = n - 1 /\ (n - 5) + 5 = n
    OBVIOUS
  <2>2. SaCode[n + 9] = Stores(Thread, 5, "t5")[n - 5]
    BY <1>4, <2>1 DEF Part, SaveContext, Thread
  <2>3. Thread[n - 5] = Order[n]
    BY <2>1, ThreadText
  <2>4. Stores(Thread, 5, "t5")[n - 5] = sw(Thread[n - 5], 5 + (n - 5) - 1, "t5")
    BY <2>1, ThreadText, StoresText
  <2> QED BY <2>1, <2>2, <2>3, <2>4
<1>9. Part(SaCode, 0, head, 4) /\ Part(SaCode, 43, tail, 17) /\ Long(SaCode, 60)
  <2>1. 4 + 10 + 29 = 43 /\ 4 + 10 + 29 + 17 = 60
    OBVIOUS
  <2> QED BY <1>4, <2>1, Zenon
<1> QED BY <1>5, <1>6, <1>7, <1>8, <1>9 DEF Part

(***************************************************************************)
(* What an instruction does: to a hart with the registers Q, when harts    *)
(* drive what one with the registers R drives.                             *)
(***************************************************************************)
Succ(p) == <<p[1], p[2] + 1>>

Sets(Q2, Q, r, v) ==
  DOMAIN Q2 = DOMAIN Q /\ Q2[r] = v /\ \A x \in DOMAIN Q : x # r => Q2[x] = Q[x]

Computed(Q) == [r \in Reg |-> IF r \in Plain THEN <<r, Q[r][2] + 1>> ELSE Q[r]]

Regs(I, R, M, p, Q, Q2) ==
  \/ I[1] = "addi" /\ Sets(Q2, Q, I[2], Offset(Q[I[3]], I[4]))
  \/ I[1] = "la" /\ Sets(Q2, Q, I[2], I[3])
  \/ I[1] = "mv" /\ Sets(Q2, Q, I[2], Q[I[3]])
  \/ I[1] = "lw" /\ Sets(Q2, Q, I[2], M[Offset(R[I[3]], I[4])])
  \/ I[1] = "call" /\ Sets(Q2, Q, "ra", Succ(p))
  \/ I[1] = "compute" /\ Q2 = Computed(Q)
  \/ I[1] \in {"sw", "beq", "bnez", "j", "ret", "label"} /\ Q2 = Q

Goes(I, R, p, rec) ==
  CASE I[1] = "beq"  -> IF R[I[2]] = R[I[3]] THEN <<p[1], Find(p[1], I[4])>> ELSE Succ(p)
    [] I[1] = "j"    -> <<p[1], Find(p[1], I[2])>>
    [] I[1] = "bnez" -> IF rec THEN <<p[1], Find(p[1], I[2])>> ELSE Succ(p)
    [] I[1] = "ret"  -> R["ra"]
    [] I[1] = "call" -> <<I[2], 1>>
    [] OTHER         -> Succ(p)

Moves(I, R, M, p, rec, M2, p2) ==
  /\ M2 = IF I[1] = "sw" THEN [M EXCEPT ![Offset(R[I[3]], I[4])] = R[I[2]]] ELSE M
  /\ p2 = Goes(I, R, p, rec)

\* A step of a hart that drives what it has.
Does(I, R, M, p, rec, R2, M2, p2) == Regs(I, R, M, p, R, R2) /\ Moves(I, R, M, p, rec, M2, p2)

(***************************************************************************)
(* Words of the memory.                                                    *)
(***************************************************************************)
Places == ({"stack"} \X (-Depth .. 0)) \cup ({"copy", "check"} \X (0 .. Depth))

St(M, a) == M[<<"stack", a>>]
Cp(M, k) == M[<<"copy", k>>]
Ck(M, k) == M[<<"check", k>>]

Stacks == -60 .. 0
Words  == 0 .. 60

SameStack(M2, M) == \A a \in Stacks : St(M2, a) = St(M, a)
SameCopy(M2, M)  == \A k \in Words : Cp(M2, k) = Cp(M, k)
SameCheck(M2, M) == \A k \in Words : Ck(M2, k) = Ck(M, k)

\* One word is written.
StackWrite(M2, M, n, v) ==
  /\ DOMAIN M2 = Places /\ SameCopy(M2, M) /\ SameCheck(M2, M)
  /\ St(M2, n) = v /\ \A a \in Stacks : a # n => St(M2, a) = St(M, a)
CopyWrite(M2, M, n, v) ==
  /\ DOMAIN M2 = Places /\ SameStack(M2, M) /\ SameCheck(M2, M)
  /\ Cp(M2, n) = v /\ \A k \in Words : k # n => Cp(M2, k) = Cp(M, k)
CheckWrite(M2, M, n, v) ==
  /\ DOMAIN M2 = Places /\ SameStack(M2, M) /\ SameCopy(M2, M)
  /\ Ck(M2, n) = v /\ \A k \in Words : k # n => Ck(M2, k) = Ck(M, k)

LEMMA PlacesAre ==
  /\ \A a \in Stacks : <<"stack", a>> \in Places
  /\ \A k \in Words : <<"copy", k>> \in Places /\ <<"check", k>> \in Places
BY DEF Places, Stacks, Words, Depth, Zenon

LEMMA Writes ==
  ASSUME NEW M, DOMAIN M = Places, NEW v
  PROVE  /\ \A n \in Stacks : StackWrite([M EXCEPT ![<<"stack", n>>] = v], M, n, v)
         /\ \A n \in Words : CopyWrite([M EXCEPT ![<<"copy", n>>] = v], M, n, v)
         /\ \A n \in Words : CheckWrite([M EXCEPT ![<<"check", n>>] = v], M, n, v)
<1>1. ASSUME NEW n \in Stacks PROVE StackWrite([M EXCEPT ![<<"stack", n>>] = v], M, n, v)
  BY PlacesAre DEF StackWrite, SameCopy, SameCheck, St, Cp, Ck
<1>2. ASSUME NEW n \in Words PROVE CopyWrite([M EXCEPT ![<<"copy", n>>] = v], M, n, v)
  BY PlacesAre DEF CopyWrite, SameStack, SameCheck, St, Cp, Ck
<1>3. ASSUME NEW n \in Words PROVE CheckWrite([M EXCEPT ![<<"check", n>>] = v], M, n, v)
  BY PlacesAre DEF CheckWrite, SameStack, SameCopy, St, Cp, Ck
<1> QED BY <1>1, <1>2, <1>3

(***************************************************************************)
(* Instruction by instruction.                                             *)
(***************************************************************************)
LEMMA DoAddi ==
  ASSUME NEW x, NEW y, NEW k, NEW R, NEW M, NEW p, NEW rec, NEW Q, NEW Q2, NEW M2, NEW p2
  PROVE  /\ Regs(addi(x, y, k), R, M, p, Q, Q2) => Sets(Q2, Q, x, Offset(Q[y], k))
         /\ Moves(addi(x, y, k), R, M, p, rec, M2, p2) => M2 = M /\ p2 = Succ(p)
BY DEF Regs, Moves, Goes, addi

LEMMA DoLa ==
  ASSUME NEW x, NEW v, NEW R, NEW M, NEW p, NEW rec, NEW Q, NEW Q2, NEW M2, NEW p2
  PROVE  /\ Regs(la(x, v), R, M, p, Q, Q2) => Sets(Q2, Q, x, v)
         /\ Moves(la(x, v), R, M, p, rec, M2, p2) => M2 = M /\ p2 = Succ(p)
BY DEF Regs, Moves, Goes, la

LEMMA DoMv ==
  ASSUME NEW x, NEW y, NEW R, NEW M, NEW p, NEW rec, NEW Q, NEW Q2, NEW M2, NEW p2
  PROVE  /\ Regs(mv(x, y), R, M, p, Q, Q2) => Sets(Q2, Q, x, Q[y])
         /\ Moves(mv(x, y), R, M, p, rec, M2, p2) => M2 = M /\ p2 = Succ(p)
BY DEF Regs, Moves, Goes, mv

LEMMA DoLw ==
  ASSUME NEW x, NEW y, NEW k, NEW R, NEW M, NEW p, NEW rec, NEW Q, NEW Q2, NEW M2, NEW p2
  PROVE  /\ Regs(lw(x, k, y), R, M, p, Q, Q2) => Sets(Q2, Q, x, M[Offset(R[y], k)])
         /\ Moves(lw(x, k, y), R, M, p, rec, M2, p2) => M2 = M /\ p2 = Succ(p)
BY DEF Regs, Moves, Goes, lw

LEMMA DoSw ==
  ASSUME NEW x, NEW y, NEW k, NEW R, NEW M, NEW p, NEW rec, NEW Q, NEW Q2, NEW M2, NEW p2
  PROVE  /\ Regs(sw(x, k, y), R, M, p, Q, Q2) => Q2 = Q
         /\ Moves(sw(x, k, y), R, M, p, rec, M2, p2) =>
              M2 = [M EXCEPT ![Offset(R[y], k)] = R[x]] /\ p2 = Succ(p)
BY DEF Regs, Moves, Goes, sw

LEMMA DoLabel ==
  ASSUME NEW l, NEW R, NEW M, NEW p, NEW rec, NEW Q, NEW Q2, NEW M2, NEW p2
  PROVE  /\ Regs(label(l), R, M, p, Q, Q2) => Q2 = Q
         /\ Moves(label(l), R, M, p, rec, M2, p2) => M2 = M /\ p2 = Succ(p)
BY DEF Regs, Moves, Goes, label

LEMMA DoJumps ==
  ASSUME NEW x, NEW y, NEW l, NEW R, NEW M, NEW p, NEW rec, NEW Q, NEW Q2, NEW M2, NEW p2
  PROVE  /\ Regs(beq(x, y, l), R, M, p, Q, Q2) => Q2 = Q
         /\ Moves(beq(x, y, l), R, M, p, rec, M2, p2) =>
              M2 = M /\ p2 = IF R[x] = R[y] THEN <<p[1], Find(p[1], l)>> ELSE Succ(p)
         /\ Regs(j(l), R, M, p, Q, Q2) => Q2 = Q
         /\ Moves(j(l), R, M, p, rec, M2, p2) => M2 = M /\ p2 = <<p[1], Find(p[1], l)>>
         /\ Regs(bnez(l), R, M, p, Q, Q2) => Q2 = Q
         /\ Moves(bnez(l), R, M, p, rec, M2, p2) =>
              M2 = M /\ p2 = IF rec THEN <<p[1], Find(p[1], l)>> ELSE Succ(p)
BY DEF Regs, Moves, Goes, beq, j, bnez

LEMMA DoRet ==
  ASSUME NEW R, NEW M, NEW p, NEW rec, NEW Q, NEW Q2, NEW M2, NEW p2
  PROVE  /\ Regs(ret, R, M, p, Q, Q2) => Q2 = Q
         /\ Moves(ret, R, M, p, rec, M2, p2) => M2 = M /\ p2 = R["ra"]
BY DEF Regs, Moves, Goes, ret

LEMMA DoProgram ==
  ASSUME NEW f, NEW R, NEW M, NEW p, NEW rec, NEW Q, NEW Q2, NEW M2, NEW p2
  PROVE  /\ Regs(call(f), R, M, p, Q, Q2) => Sets(Q2, Q, "ra", Succ(p))
         /\ Moves(call(f), R, M, p, rec, M2, p2) => M2 = M /\ p2 = <<f, 1>>
         /\ Regs(compute, R, M, p, Q, Q2) => Q2 = Computed(Q)
         /\ Moves(compute, R, M, p, rec, M2, p2) => M2 = M /\ p2 = Succ(p)
BY DEF Regs, Moves, Goes, call, compute

(***************************************************************************)
(* The other routines, place by place.                                     *)
(***************************************************************************)
FsmCode == Code["handler_safe_fsm"]
LEMMA FsmText ==
  /\ Long(FsmCode, 9)
  /\ FsmCode[1] = addi("sp", "sp", -4) /\ FsmCode[2] = sw("t5", 3, "sp") /\ FsmCode[3] = sw("t6", 2, "sp")
  /\ FsmCode[4] = la("t5", Device) /\ FsmCode[5] = la("t6", Device)
  /\ FsmCode[6] = lw("t5", 3, "sp") /\ FsmCode[7] = lw("t6", 2, "sp")
  /\ FsmCode[8] = addi("sp", "sp", 4) /\ FsmCode[9] = mret
<1>1. FsmCode = SafeFsmCode
  BY DEF Code, FsmCode
<1> QED BY <1>1 DEF SafeFsmCode, Long

MnCode == Code["main"]
LEMMA MainText ==
  /\ Long(MnCode, 25)
  /\ MnCode[1] = addi("sp", "sp", -2) /\ MnCode[2] = sw("ra", 1, "sp") /\ MnCode[3] = sw("s0", 0, "sp")
  /\ MnCode[4] = compute /\ MnCode[5] = call("Safe_Activate") /\ MnCode[6] = compute
  /\ MnCode[7] = call("Store_Checkpoint") /\ MnCode[8] = compute /\ MnCode[9] = sw("s0", 0, "sp")
  /\ MnCode[10] = compute /\ MnCode[11] = call("Store_Checkpoint") /\ MnCode[12] = compute
  /\ MnCode[13] = sw("s1", 0, "sp") /\ MnCode[14] = lw("s0", 0, "sp") /\ MnCode[15] = lw("ra", 1, "sp")
  /\ MnCode[16] = addi("sp", "sp", 2) /\ MnCode[17] = call("Store_Checkpoint")
  /\ MnCode[18] = addi("sp", "sp", -2) /\ MnCode[19] = sw("s0", 0, "sp") /\ MnCode[20] = compute
  /\ MnCode[21] = call("Check_RF") /\ MnCode[22] = compute /\ MnCode[23] = sw("s1", 1, "sp")
  /\ MnCode[24] = addi("sp", "sp", 2) /\ MnCode[25] = label("resume")
<1>1. MnCode = MainCode
  BY DEF Code, MnCode
<1> QED BY <1>1 DEF MainCode, Long

Eight(w, a, i, b, z, c, k, d, l, s, m, t, n, u, o, v, q) ==
  LET h == i + z + k + l
  IN /\ Long(w, h + m + n + o + q)
     /\ Part(w, 0, a, i) /\ Part(w, i, b, z) /\ Part(w, i + z, c, k) /\ Part(w, i + z + k, d, l)
     /\ Part(w, h, s, m) /\ Part(w, h + m, t, n) /\ Part(w, h + m + n, u, o)
     /\ Part(w, h + m + n + o, v, q)
LEMMA Cat8 ==
  ASSUME NEW a, NEW i, NEW b, NEW z, NEW c, NEW k, NEW d, NEW l, NEW s, NEW m, NEW t, NEW n,
         NEW u, NEW o, NEW v, NEW q,
         Long(a, i), Long(b, z), Long(c, k), Long(d, l), Long(s, m), Long(t, n), Long(u, o), Long(v, q)
  PROVE  Eight(a \o b \o c \o d \o s \o t \o u \o v, a, i, b, z, c, k, d, l, s, m, t, n, u, o, v, q)
<1> DEFINE x == a \o b \o c \o d
           y == x \o s \o t \o u
           w == y \o v
           h == i + z + k + l
<1>1. /\ i \in Nat /\ z \in Nat /\ k \in Nat /\ l \in Nat /\ m \in Nat /\ n \in Nat /\ o \in Nat /\ q \in Nat
  BY DEF Long
<1>2. /\ Long(x, h) /\ Part(x, 0, a, i) /\ Part(x, i, b, z) /\ Part(x, i + z, c, k)
      /\ Part(x, i + z + k, d, l)
  BY Cat4 DEF Four
<1> HIDE DEF x
<1>3. h \in Nat /\ i + z \in Nat /\ i + z + k \in Nat /\ h = i + z + k + l
  BY <1>1
<1> HIDE DEF h
<1>4. /\ Long(y, h + m + n + o) /\ Part(y, 0, x, h) /\ Part(y, h, s, m) /\ Part(y, h + m, t, n)
      /\ Part(y, h + m + n, u, o)
  BY <1>2, Cat4 DEF Four
<1> HIDE DEF y
<1>5. /\ Long(w, h + m + n + o + q) /\ Part(w, 0, y, h + m + n + o) /\ Part(w, h + m + n + o, v, q)
  BY <1>4, Cat
<1> HIDE DEF w
<1>6. /\ h + m \in Nat /\ h + m + n \in Nat /\ h + m + n + o \in Nat
      /\ 0 + h <= h + m + n + o /\ h + m <= h + m + n + o /\ (h + m) + n <= h + m + n + o
      /\ (h + m + n) + o <= h + m + n + o
      /\ 0 + 0 = 0 /\ 0 + h = h /\ 0 + (h + m) = h + m /\ 0 + (h + m + n) = h + m + n
  BY <1>1, <1>3
<1>7. /\ Part(w, 0, x, h) /\ Part(w, h, s, m) /\ Part(w, h + m, t, n) /\ Part(w, h + m + n, u, o)
  <2>1. Part(w, 0 + 0, x, h)
    BY <1>1, <1>3, <1>4, <1>5, <1>6, Within
  <2>2. Part(w, 0 + h, s, m)
    BY <1>1, <1>3, <1>4, <1>5, <1>6, Within
  <2>3. Part(w, 0 + (h + m), t, n)
    BY <1>1, <1>3, <1>4, <1>5, <1>6, Within
  <2>4. Part(w, 0 + (h + m + n), u, o)
    BY <1>1, <1>3, <1>4, <1>5, <1>6, Within
  <2> QED BY <1>6, <2>1, <2>2, <2>3, <2>4
<1>8. /\ Part(w, 0, a, i) /\ Part(w, i, b, z) /\ Part(w, i + z, c, k) /\ Part(w, i + z + k, d, l)
  <2>1. /\ 0 + i <= h /\ i + z <= h /\ (i + z) + k <= h /\ (i + z + k) + l <= h
        /\ 0 + 0 = 0 /\ 0 + i = i /\ 0 + (i + z) = i + z /\ 0 + (i + z + k) = i + z + k
    BY <1>1, <1>3
  <2>2. Part(w, 0 + 0, a, i)
    BY <1>1, <1>2, <1>3, <1>7, <2>1, Within
  <2>3. Part(w, 0 + i, b, z)
    BY <1>1, <1>2, <1>3, <1>7, <2>1, Within
  <2>4. Part(w, 0 + (i + z), c, k)
    BY <1>1, <1>2, <1>3, <1>7, <2>1, Within
  <2>5. Part(w, 0 + (i + z + k), d, l)
    BY <1>1, <1>2, <1>3, <1>7, <2>1, Within
  <2> QED BY <2>1, <2>2, <2>3, <2>4, <2>5
<1> QED BY <1>5, <1>7, <1>8 DEF h, w, y, x, Eight

ScCode == Code["Store_Checkpoint"]
LEMMA ScText ==
  /\ Long(ScCode, 77)
  /\ ScCode[1] = addi("sp", "sp", -7) /\ ScCode[2] = sw("t2", 6, "sp") /\ ScCode[3] = sw("t3", 5, "sp")
  /\ ScCode[4] = sw("t4", 4, "sp") /\ ScCode[5] = sw("t5", 3, "sp") /\ ScCode[6] = sw("t6", 2, "sp")
  /\ ScCode[7] = la("t4", StackStart) /\ ScCode[8] = la("t5", Base)
  /\ ScCode[9] = addi("sp", "sp", 7) /\ ScCode[10] = mv("t2", "sp") /\ ScCode[11] = beq("t2", "t4", "registers")
  /\ ScCode[12] = addi("t3", "t5", 37) /\ ScCode[13] = label("stack") /\ ScCode[14] = lw("t6", 0, "t2")
  /\ ScCode[15] = sw("t6", 0, "t3") /\ ScCode[16] = beq("t2", "t4", "registers") /\ ScCode[17] = addi("t3", "t3", 1)
  /\ ScCode[18] = addi("t2", "t2", 1) /\ ScCode[19] = j("stack") /\ ScCode[20] = label("registers")
  /\ \A n \in 1 .. 5 : ScCode[19 + 2 * n] = mv("t6", Order[n]) /\ ScCode[20 + 2 * n] = sw("t6", n - 1, "t5")
  /\ ScCode[31] = sw("ra", 5, "t5") /\ ScCode[32] = sw("sp", 6, "t5") /\ ScCode[33] = addi("sp", "sp", -7)
  /\ \A n \in 8 .. 11 : ScCode[n + 26] = sw(Order[n], n - 1, "t5")
  /\ ScCode[38] = lw("t2", 6, "sp") /\ ScCode[39] = sw("t2", 11, "t5")
  /\ \A n \in 13 .. 32 : ScCode[n + 27] = sw(Order[n], n - 1, "t5")
  /\ ScCode[60] = lw("t3", 5, "sp") /\ ScCode[61] = sw("t3", 32, "t5") /\ ScCode[62] = lw("t4", 4, "sp")
  /\ ScCode[63] = sw("t4", 33, "t5") /\ ScCode[64] = la("t6", <<"Store_Checkpoint", 0>>) /\ ScCode[65] = sw("t6", 36, "t5")
  /\ ScCode[66] = lw("t6", 3, "sp") /\ ScCode[67] = sw("t6", 34, "t5") /\ ScCode[68] = lw("t6", 2, "sp")
  /\ ScCode[69] = sw("t6", 35, "t5") /\ ScCode[70] = lw("t2", 6, "sp") /\ ScCode[71] = lw("t3", 5, "sp")
  /\ ScCode[72] = lw("t4", 4, "sp") /\ ScCode[73] = lw("t5", 3, "sp") /\ ScCode[74] = lw("t6", 2, "sp")
  /\ ScCode[75] = addi("sp", "sp", 7) /\ ScCode[76] = label("resume") /\ ScCode[77] = ret
<1> DEFINE head  == <<addi("sp", "sp", -7), sw("t2", 6, "sp"), sw("t3", 5, "sp"),
                    sw("t4", 4, "sp"), sw("t5", 3, "sp"), sw("t6", 2, "sp"),
                    la("t4", StackStart), la("t5", Base)>>
           three == <<sw("ra", 5, "t5"), sw("sp", 6, "t5"), addi("sp", "sp", -7)>>
           four  == <<"gp", "tp", "t0", "t1">>
           two   == <<lw("t2", 6, "sp"), sw("t2", 11, "t5")>>
           tail  == <<lw("t3", 5, "sp"), sw("t3", 32, "t5"), lw("t4", 4, "sp"),
                    sw("t4", 33, "t5"), la("t6", <<"Store_Checkpoint", 0>>), sw("t6", PcWord, "t5"),
                    lw("t6", 3, "sp"), sw("t6", 34, "t5"), lw("t6", 2, "sp"),
                    sw("t6", 35, "t5"), lw("t2", 6, "sp"), lw("t3", 5, "sp"),
                    lw("t4", 4, "sp"), lw("t5", 3, "sp"), lw("t6", 2, "sp"),
                    addi("sp", "sp", 7), label("resume"), ret>>
           fours == Stores(four, 7, "t5")
           args  == Stores(Args, 12, "t5")
<1>1. Long(head, 8) /\ Long(three, 3) /\ Long(four, 4) /\ Long(two, 2) /\ Long(tail, 18)
  BY DEF Long
<1>2. Long(CheckpointStack, 12) /\ Long(Args, 20)
  BY DEF Long, CheckpointStack, Args
<1>3.
      /\ head[1] = addi("sp", "sp", -7) /\ head[2] = sw("t2", 6, "sp") /\ head[3] = sw("t3", 5, "sp")
      /\ head[4] = sw("t4", 4, "sp") /\ head[5] = sw("t5", 3, "sp") /\ head[6] = sw("t6", 2, "sp")
      /\ head[7] = la("t4", StackStart) /\ head[8] = la("t5", Base)
  OBVIOUS
<1>4.
      /\ CheckpointStack[1] = addi("sp", "sp", 7) /\ CheckpointStack[2] = mv("t2", "sp") /\ CheckpointStack[3] = beq("t2", "t4", "registers")
      /\ CheckpointStack[4] = addi("t3", "t5", 37) /\ CheckpointStack[5] = label("stack") /\ CheckpointStack[6] = lw("t6", 0, "t2")
      /\ CheckpointStack[7] = sw("t6", 0, "t3") /\ CheckpointStack[8] = beq("t2", "t4", "registers") /\ CheckpointStack[9] = addi("t3", "t3", 1)
      /\ CheckpointStack[10] = addi("t2", "t2", 1) /\ CheckpointStack[11] = j("stack") /\ CheckpointStack[12] = label("registers")
  BY DEF CheckpointStack, StackWord
<1>5.
      /\ three[1] = sw("ra", 5, "t5") /\ three[2] = sw("sp", 6, "t5") /\ three[3] = addi("sp", "sp", -7)
      /\ two[1] = lw("t2", 6, "sp") /\ two[2] = sw("t2", 11, "t5")
      /\ four[1] = "gp" /\ four[2] = "tp" /\ four[3] = "t0" /\ four[4] = "t1"
  OBVIOUS
<1>6.
      /\ tail[1] = lw("t3", 5, "sp") /\ tail[2] = sw("t3", 32, "t5") /\ tail[3] = lw("t4", 4, "sp")
      /\ tail[4] = sw("t4", 33, "t5") /\ tail[5] = la("t6", <<"Store_Checkpoint", 0>>) /\ tail[6] = sw("t6", 36, "t5")
      /\ tail[7] = lw("t6", 3, "sp") /\ tail[8] = sw("t6", 34, "t5") /\ tail[9] = lw("t6", 2, "sp")
      /\ tail[10] = sw("t6", 35, "t5") /\ tail[11] = lw("t2", 6, "sp") /\ tail[12] = lw("t3", 5, "sp")
      /\ tail[13] = lw("t4", 4, "sp") /\ tail[14] = lw("t5", 3, "sp") /\ tail[15] = lw("t6", 2, "sp")
      /\ tail[16] = addi("sp", "sp", 7) /\ tail[17] = label("resume") /\ tail[18] = ret
  BY DEF PcWord
<1>7. ScCode = head \o CheckpointStack \o CsrStores \o three \o fours \o two
               \o args \o tail
  BY DEF Code, ScCode, StoreCheckpointCode
<1>8. /\ Long(CsrStores, 10) /\ Long(fours, 4) /\ Long(args, 20)
      /\ \A i \in 1 .. 4 : fours[i] = sw(four[i], 7 + i - 1, "t5")
      /\ \A i \in 1 .. 20 : args[i] = sw(Args[i], 12 + i - 1, "t5")
  <2> HIDE DEF head, three, four, two, tail
  <2> QED BY <1>1, <1>2, CsrText, StoresText
<1> HIDE DEF head, three, four, two, tail, fours, args
<1>9. /\ Long(ScCode, 8 + 12 + 10 + 3 + 4 + 2 + 20 + 18)
      /\ Part(ScCode, 0, head, 8) /\ Part(ScCode, 8, CheckpointStack, 12)
      /\ Part(ScCode, 8 + 12, CsrStores, 10) /\ Part(ScCode, 8 + 12 + 10, three, 3)
      /\ Part(ScCode, 8 + 12 + 10 + 3, fours, 4)
      /\ Part(ScCode, 8 + 12 + 10 + 3 + 4, two, 2)
      /\ Part(ScCode, 8 + 12 + 10 + 3 + 4 + 2, args, 20)
      /\ Part(ScCode, 8 + 12 + 10 + 3 + 4 + 2 + 20, tail, 18)
  <2>1. Eight(ScCode, head, 8, CheckpointStack, 12, CsrStores, 10, three, 3, fours, 4, two, 2,
              args, 20, tail, 18)
    BY <1>1, <1>2, <1>7, <1>8, Cat8
  <2> QED BY <2>1 DEF Eight
<1>10. /\ Long(ScCode, 77)
       /\ Part(ScCode, 0, head, 8) /\ Part(ScCode, 8, CheckpointStack, 12)
       /\ Part(ScCode, 20, CsrStores, 10) /\ Part(ScCode, 30, three, 3)
       /\ Part(ScCode, 33, fours, 4) /\ Part(ScCode, 37, two, 2)
       /\ Part(ScCode, 39, args, 20) /\ Part(ScCode, 59, tail, 18)
  BY <1>9
<1>11. ASSUME NEW n \in 1 .. 5
       PROVE  ScCode[19 + 2 * n] = mv("t6", Order[n]) /\ ScCode[20 + 2 * n] = sw("t6", n - 1, "t5")
  <2>1. 2 * n - 1 \in 1 .. 10 /\ 2 * n \in 1 .. 10 /\ 19 + 2 * n = 20 + (2 * n - 1)
    OBVIOUS
  <2> QED BY <1>10, <2>1, CsrText, OrderText DEF Part
<1>12. ASSUME NEW n \in 8 .. 11 PROVE ScCode[n + 26] = sw(Order[n], n - 1, "t5")
  <2>1. n - 7 \in 1 .. 4 /\ 33 + (n - 7) = n + 26 /\ 7 + (n - 7) - 1 = n - 1
    OBVIOUS
  <2>2. four[n - 7] = Order[n]
    BY <1>5, OrderList
  <2>3. fours[n - 7] = sw(four[n - 7], 7 + (n - 7) - 1, "t5")
    BY <1>8, <2>1
  <2> QED BY <1>10, <2>1, <2>2, <2>3 DEF Part
<1>13. ASSUME NEW n \in 13 .. 32 PROVE ScCode[n + 27] = sw(Order[n], n - 1, "t5")
  <2>1. n - 12 \in 1 .. 20 /\ 39 + (n - 12) = n + 27 /\ 12 + (n - 12) - 1 = n - 1
    OBVIOUS
  <2>2. Args[n - 12] = Order[n]
    <3>1. n - 5 \in 8 .. 27 /\ (n - 5) - 7 = n - 12 /\ n \in 6 .. 36
      OBVIOUS
    <3> QED BY <3>1, FileText, OrderText
  <2>3. args[n - 12] = sw(Args[n - 12], 12 + (n - 12) - 1, "t5")
    BY <1>8, <2>1
  <2> QED BY <1>10, <2>1, <2>2, <2>3 DEF Part
<1>14.
       /\ ScCode[1] = addi("sp", "sp", -7) /\ ScCode[2] = sw("t2", 6, "sp") /\ ScCode[3] = sw("t3", 5, "sp")
       /\ ScCode[4] = sw("t4", 4, "sp") /\ ScCode[5] = sw("t5", 3, "sp") /\ ScCode[6] = sw("t6", 2, "sp")
       /\ ScCode[7] = la("t4", StackStart) /\ ScCode[8] = la("t5", Base)
  BY <1>3, <1>10 DEF Part
<1>15.
       /\ ScCode[9] = addi("sp", "sp", 7) /\ ScCode[10] = mv("t2", "sp") /\ ScCode[11] = beq("t2", "t4", "registers")
       /\ ScCode[12] = addi("t3", "t5", 37) /\ ScCode[13] = label("stack") /\ ScCode[14] = lw("t6", 0, "t2")
       /\ ScCode[15] = sw("t6", 0, "t3") /\ ScCode[16] = beq("t2", "t4", "registers") /\ ScCode[17] = addi("t3", "t3", 1)
       /\ ScCode[18] = addi("t2", "t2", 1) /\ ScCode[19] = j("stack") /\ ScCode[20] = label("registers")
  BY <1>4, <1>10 DEF Part
<1>16.
       /\ ScCode[31] = sw("ra", 5, "t5") /\ ScCode[32] = sw("sp", 6, "t5") /\ ScCode[33] = addi("sp", "sp", -7)
       /\ ScCode[38] = lw("t2", 6, "sp") /\ ScCode[39] = sw("t2", 11, "t5")
  BY <1>5, <1>10 DEF Part
<1>17.
       /\ ScCode[60] = lw("t3", 5, "sp") /\ ScCode[61] = sw("t3", 32, "t5") /\ ScCode[62] = lw("t4", 4, "sp")
       /\ ScCode[63] = sw("t4", 33, "t5") /\ ScCode[64] = la("t6", <<"Store_Checkpoint", 0>>) /\ ScCode[65] = sw("t6", 36, "t5")
       /\ ScCode[66] = lw("t6", 3, "sp") /\ ScCode[67] = sw("t6", 34, "t5") /\ ScCode[68] = lw("t6", 2, "sp")
       /\ ScCode[69] = sw("t6", 35, "t5") /\ ScCode[70] = lw("t2", 6, "sp") /\ ScCode[71] = lw("t3", 5, "sp")
       /\ ScCode[72] = lw("t4", 4, "sp") /\ ScCode[73] = lw("t5", 3, "sp") /\ ScCode[74] = lw("t6", 2, "sp")
       /\ ScCode[75] = addi("sp", "sp", 7) /\ ScCode[76] = label("resume") /\ ScCode[77] = ret
  BY <1>6, <1>10 DEF Part
<1> QED BY <1>10, <1>11, <1>12, <1>13, <1>14, <1>15, <1>16, <1>17

CrCode == Code["Check_RF"]
LEMMA CrText ==
  /\ Long(CrCode, 45)
  /\ CrCode[1] = addi("sp", "sp", -5) /\ CrCode[2] = sw("t4", 4, "sp") /\ CrCode[3] = sw("t5", 3, "sp")
  /\ CrCode[4] = sw("t6", 2, "sp") /\ CrCode[5] = lw("a4", 3, "sp") /\ CrCode[6] = lw("a5", 2, "sp")
  /\ CrCode[7] = la("t6", Check) /\ CrCode[8] = sw("ra", 0, "t6") /\ CrCode[9] = addi("t5", "sp", 5)
  /\ CrCode[10] = sw("t5", 3, "t6")
  /\ \A n \in 8 .. 34 : CrCode[n + 3] = sw(Order[n], n - 6, "t6")
  /\ CrCode[38] = lw("t5", 3, "sp") /\ CrCode[39] = sw("t5", 29, "t6")
  /\ CrCode[40] = lw("t6", 2, "sp") /\ CrCode[41] = la("t5", Check) /\ CrCode[42] = sw("t6", 30, "t5")
  /\ CrCode[43] = lw("t5", 3, "sp") /\ CrCode[44] = addi("sp", "sp", 5) /\ CrCode[45] = ret
<1> DEFINE head == <<addi("sp", "sp", -5), sw("t4", 4, "sp"), sw("t5", 3, "sp"),
                   sw("t6", 2, "sp"), lw("a4", 3, "sp"), lw("a5", 2, "sp"),
                   la("t6", Check), sw("ra", 0, "t6"), addi("t5", "sp", 5),
                   sw("t5", 3, "t6")>>
           five == <<"gp", "tp", "t0", "t1", "t2">>
           rest == Args \o <<"t3", "t4">>
           two  == <<lw("t5", 3, "sp"), sw("t5", 29, "t6")>>
           tail == <<lw("t6", 2, "sp"), la("t5", Check), sw("t6", 30, "t5"),
                   lw("t5", 3, "sp"), addi("sp", "sp", 5), ret>>
<1>1. Long(head, 10) /\ Long(five, 5) /\ Long(two, 2) /\ Long(tail, 6) /\ Long(<<"t3", "t4">>, 2)
  BY DEF Long
<1>2. Long(Args, 20)
  BY DEF Long, Args
<1>3.
      /\ head[1] = addi("sp", "sp", -5) /\ head[2] = sw("t4", 4, "sp") /\ head[3] = sw("t5", 3, "sp")
      /\ head[4] = sw("t6", 2, "sp") /\ head[5] = lw("a4", 3, "sp") /\ head[6] = lw("a5", 2, "sp")
      /\ head[7] = la("t6", Check) /\ head[8] = sw("ra", 0, "t6") /\ head[9] = addi("t5", "sp", 5)
      /\ head[10] = sw("t5", 3, "t6")
  OBVIOUS
<1>4.
      /\ two[1] = lw("t5", 3, "sp") /\ two[2] = sw("t5", 29, "t6")
      /\ tail[1] = lw("t6", 2, "sp") /\ tail[2] = la("t5", Check) /\ tail[3] = sw("t6", 30, "t5")
      /\ tail[4] = lw("t5", 3, "sp") /\ tail[5] = addi("sp", "sp", 5) /\ tail[6] = ret
      /\ five[1] = "gp" /\ five[2] = "tp" /\ five[3] = "t0" /\ five[4] = "t1" /\ five[5] = "t2"
      /\ <<"t3", "t4">>[1] = "t3" /\ <<"t3", "t4">>[2] = "t4"
  OBVIOUS
<1>5. CrCode = head \o Stores(five, 2, "t6") \o CheckFile \o tail
  BY DEF Code, CrCode, CheckRfCode
<1>6. CheckFile = Stores(rest, 7, "t6") \o two
  BY DEF CheckFile
<1>7. Long(rest, 20 + 2) /\ Part(rest, 0, Args, 20) /\ Part(rest, 20, <<"t3", "t4">>, 2)
  BY <1>1, <1>2, Cat
<1> HIDE DEF head, five, rest, two, tail
<1>8. Long(rest, 22)
  BY <1>7
<1>9. Long(Stores(five, 2, "t6"), 5) /\ Long(Stores(rest, 7, "t6"), 22)
  BY <1>1, <1>8, StoresText
<1>10. /\ Long(CheckFile, 22 + 2) /\ Part(CheckFile, 0, Stores(rest, 7, "t6"), 22)
       /\ Part(CheckFile, 22, two, 2)
  BY <1>1, <1>6, <1>9, Cat
<1>11. Long(CheckFile, 24)
  BY <1>10
<1>12. /\ Long(CrCode, 10 + 5 + 24 + 6) /\ Part(CrCode, 0, head, 10)
       /\ Part(CrCode, 10, Stores(five, 2, "t6"), 5) /\ Part(CrCode, 10 + 5, CheckFile, 24)
       /\ Part(CrCode, 10 + 5 + 24, tail, 6)
  <2>1. Four(CrCode, head, 10, Stores(five, 2, "t6"), 5, CheckFile, 24, tail, 6)
    BY <1>1, <1>5, <1>9, <1>11, Cat4
  <2> QED BY <2>1 DEF Four
<1>13. /\ Long(CrCode, 45) /\ Part(CrCode, 0, head, 10) /\ Part(CrCode, 10, Stores(five, 2, "t6"), 5)
       /\ Part(CrCode, 15, CheckFile, 24) /\ Part(CrCode, 39, tail, 6)
  BY <1>12
<1>14. Part(CrCode, 15 + 0, Stores(rest, 7, "t6"), 22) /\ Part(CrCode, 15 + 22, two, 2)
  BY <1>10, <1>13, Within
<1>15. ASSUME NEW n \in 8 .. 34 PROVE CrCode[n + 3] = sw(Order[n], n - 6, "t6")
  <2>1. CASE n \in 8 .. 12
    <3>1. n - 7 \in 1 .. 5 /\ 10 + (n - 7) = n + 3 /\ 2 + (n - 7) - 1 = n - 6
      BY <2>1
    <3>2. five[n - 7] = Order[n]
      BY <1>4, <2>1, OrderList
    <3>3. Stores(five, 2, "t6")[n - 7] = sw(five[n - 7], 2 + (n - 7) - 1, "t6")
      BY <1>1, <3>1, StoresText
    <3> QED BY <1>13, <3>1, <3>2, <3>3 DEF Part
  <2>2. CASE n \in 13 .. 34
    <3>1. n - 12 \in 1 .. 22 /\ (15 + 0) + (n - 12) = n + 3 /\ 7 + (n - 12) - 1 = n - 6
      BY <2>2
    <3>2. rest[n - 12] = Order[n]
      <4>1. CASE n \in 13 .. 32
        <5>1. /\ n - 12 \in 1 .. 20 /\ 0 + (n - 12) = n - 12
              /\ n - 5 \in 8 .. 27 /\ (n - 5) - 7 = n - 12 /\ n \in 6 .. 36
          BY <4>1
        <5>2. rest[n - 12] = Args[n - 12]
          BY <1>7, <5>1 DEF Part
        <5> QED BY <5>1, <5>2, FileText, OrderText
      <4>2. CASE n \in 33 .. 34
        <5>1. n - 32 \in 1 .. 2 /\ 20 + (n - 32) = n - 12 /\ (n = 33 \/ n = 34)
          BY <4>2
        <5>2. rest[n - 12] = <<"t3", "t4">>[n - 32]
          BY <1>7, <5>1 DEF Part
        <5> QED BY <1>4, <5>1, <5>2, OrderList
      <4> QED BY <2>2, <4>1, <4>2
    <3>3. Stores(rest, 7, "t6")[n - 12] = sw(rest[n - 12], 7 + (n - 12) - 1, "t6")
      BY <1>8, <3>1, StoresText
    <3> QED BY <1>14, <3>1, <3>2, <3>3 DEF Part
  <2> QED BY <2>1, <2>2
<1>16.
       /\ CrCode[1] = addi("sp", "sp", -5) /\ CrCode[2] = sw("t4", 4, "sp") /\ CrCode[3] = sw("t5", 3, "sp")
       /\ CrCode[4] = sw("t6", 2, "sp") /\ CrCode[5] = lw("a4", 3, "sp") /\ CrCode[6] = lw("a5", 2, "sp")
       /\ CrCode[7] = la("t6", Check) /\ CrCode[8] = sw("ra", 0, "t6") /\ CrCode[9] = addi("t5", "sp", 5)
       /\ CrCode[10] = sw("t5", 3, "t6")
  BY <1>3, <1>13 DEF Part
<1>17.
       /\ CrCode[38] = lw("t5", 3, "sp") /\ CrCode[39] = sw("t5", 29, "t6")
       /\ CrCode[40] = lw("t6", 2, "sp") /\ CrCode[41] = la("t5", Check) /\ CrCode[42] = sw("t6", 30, "t5")
       /\ CrCode[43] = lw("t5", 3, "sp") /\ CrCode[44] = addi("sp", "sp", 5) /\ CrCode[45] = ret
  BY <1>4, <1>13, <1>14 DEF Part
<1> QED BY <1>13, <1>15, <1>16, <1>17

RsCode == Code["handler_tmr_recoverysync"]
LEMMA RsText ==
  /\ Long(RsCode, 93)
  /\ RsCode[1] = addi("sp", "sp", -4) /\ RsCode[2] = sw("a4", 3, "sp") /\ RsCode[3] = sw("a5", 2, "sp")
  /\ RsCode[4] = la("a4", Device) /\ RsCode[5] = la("a5", Device) /\ RsCode[6] = lw("a4", 3, "sp")
  /\ RsCode[7] = lw("a5", 2, "sp")
  /\ \A n \in 6 .. 36 : RsCode[n + 2] = sw(Order[n], 5 - n, "sp") /\ RsCode[n + 53] = lw(Order[n], 5 - n, "sp")
  /\ \A n \in 1 .. 5 : /\ RsCode[37 + 2 * n] = mv("t6", Order[n]) /\ RsCode[38 + 2 * n] = sw("t6", -31 - n, "sp")
                       /\ RsCode[47 + 2 * n] = lw("t6", -31 - n, "sp") /\ RsCode[48 + 2 * n] = mv(Order[n], "t6")
  /\ RsCode[90] = la("a5", Device) /\ RsCode[91] = lw("a5", 2, "sp") /\ RsCode[92] = addi("sp", "sp", 4)
  /\ RsCode[93] = mret
<1> DEFINE head == <<addi("sp", "sp", -4), sw("a4", 3, "sp"), sw("a5", 2, "sp"),
                   la("a4", Device), la("a5", Device), lw("a4", 3, "sp"),
                   lw("a5", 2, "sp")>>
           tail == <<la("a5", Device), lw("a5", 2, "sp"), addi("sp", "sp", 4),
                   mret>>
<1>1. Long(head, 7) /\ Long(tail, 4)
  BY DEF Long
<1>2.
      /\ head[1] = addi("sp", "sp", -4) /\ head[2] = sw("a4", 3, "sp") /\ head[3] = sw("a5", 2, "sp")
      /\ head[4] = la("a4", Device) /\ head[5] = la("a5", Device) /\ head[6] = lw("a4", 3, "sp")
      /\ head[7] = lw("a5", 2, "sp")
      /\ tail[1] = la("a5", Device) /\ tail[2] = lw("a5", 2, "sp") /\ tail[3] = addi("sp", "sp", 4)
      /\ tail[4] = mret
  OBVIOUS
<1>3. RsCode = head \o RepairBody \o tail
  BY DEF Code, RsCode, RecoverySyncCode
<1> HIDE DEF head, tail
<1> DEFINE push == Push(File, 0)
           pop  == Pop(File, 0)
<1>4. /\ Long(push, 31) /\ Long(CsrPush, 10) /\ Long(CsrPop, 10) /\ Long(pop, 31)
      /\ \A i \in 1 .. 31 : push[i] = sw(File[i], 0 - i, "sp") /\ pop[i] = lw(File[i], 0 - i, "sp")
  <2>1. Long(File, 31)
    BY FileText
  <2>2. /\ Long(push, 31) /\ Long(pop, 31)
        /\ \A i \in 1 .. 31 : push[i] = sw(File[i], 0 - i, "sp") /\ pop[i] = lw(File[i], 0 - i, "sp")
    BY <2>1, PushText
  <2> QED BY <2>2, CsrText
<1>17. RepairBody = push \o CsrPush \o CsrPop \o pop
  BY DEF RepairBody
<1> HIDE DEF push, pop
<1>5. /\ Long(RepairBody, 31 + 10 + 10 + 31) /\ Part(RepairBody, 0, push, 31)
      /\ Part(RepairBody, 31, CsrPush, 10) /\ Part(RepairBody, 31 + 10, CsrPop, 10)
      /\ Part(RepairBody, 31 + 10 + 10, pop, 31)
  <2>1. Four(RepairBody, push, 31, CsrPush, 10, CsrPop, 10, pop, 31)
    BY <1>4, <1>17, Cat4
  <2> QED BY <2>1 DEF Four
<1>6. Long(RepairBody, 82) /\ Part(RepairBody, 41, CsrPop, 10) /\ Part(RepairBody, 51, pop, 31)
  BY <1>5
<1> DEFINE front == head \o RepairBody
<1>7. Long(front, 7 + 82) /\ Part(front, 0, head, 7) /\ Part(front, 7, RepairBody, 82)
  BY <1>1, <1>6, Cat
<1>8. RsCode = front \o tail
  BY <1>3
<1> HIDE DEF front
<1>9. Long(front, 89)
  BY <1>7
<1>10. Long(RsCode, 89 + 4) /\ Part(RsCode, 0, front, 89) /\ Part(RsCode, 89, tail, 4)
  BY <1>1, <1>8, <1>9, Cat
<1>11. Part(RsCode, 0 + 0, head, 7) /\ Part(RsCode, 0 + 7, RepairBody, 82)
  BY <1>7, <1>10, Within
<1>12. Part(RsCode, 0, head, 7) /\ Part(RsCode, 7, RepairBody, 82) /\ Long(RsCode, 93)
  BY <1>10, <1>11
<1>13. /\ Part(RsCode, 7, push, 31) /\ Part(RsCode, 38, CsrPush, 10)
       /\ Part(RsCode, 48, CsrPop, 10) /\ Part(RsCode, 58, pop, 31)
  <2>1. Part(RsCode, 7 + 0, push, 31)
    BY <1>5, <1>12, Within
  <2>2. Part(RsCode, 7 + 31, CsrPush, 10)
    BY <1>5, <1>12, Within
  <2>3. Part(RsCode, 7 + 41, CsrPop, 10)
    BY <1>6, <1>12, Within
  <2>4. Part(RsCode, 7 + 51, pop, 31)
    BY <1>6, <1>12, Within
  <2> QED BY <2>1, <2>2, <2>3, <2>4
<1>14. ASSUME NEW n \in 6 .. 36
       PROVE  RsCode[n + 2] = sw(Order[n], 5 - n, "sp") /\ RsCode[n + 53] = lw(Order[n], 5 - n, "sp")
  <2>1. n - 5 \in 1 .. 31 /\ 7 + (n - 5) = n + 2 /\ 58 + (n - 5) = n + 53 /\ 0 - (n - 5) = 5 - n
    OBVIOUS
  <2>2. Part(RsCode, 7, push, 31) /\ Part(RsCode, 58, pop, 31)
    BY <1>13
  <2>3. RsCode[n + 2] = push[n - 5] /\ RsCode[n + 53] = pop[n - 5]
    BY <2>1, <2>2 DEF Part
  <2> QED BY <1>4, <2>1, <2>3, OrderText
<1>15. ASSUME NEW n \in 1 .. 5
       PROVE  /\ RsCode[37 + 2 * n] = mv("t6", Order[n]) /\ RsCode[38 + 2 * n] = sw("t6", -31 - n, "sp")
              /\ RsCode[47 + 2 * n] = lw("t6", -31 - n, "sp") /\ RsCode[48 + 2 * n] = mv(Order[n], "t6")
  <2>1. /\ 2 * n - 1 \in 1 .. 10 /\ 2 * n \in 1 .. 10 /\ 37 + 2 * n = 38 + (2 * n - 1)
        /\ 47 + 2 * n = 48 + (2 * n - 1)
    OBVIOUS
  <2>2. Part(RsCode, 38, CsrPush, 10) /\ Part(RsCode, 48, CsrPop, 10)
    BY <1>13
  <2> QED BY <2>1, <2>2, CsrText, OrderText DEF Part
<1>16.
       /\ RsCode[1] = addi("sp", "sp", -4) /\ RsCode[2] = sw("a4", 3, "sp") /\ RsCode[3] = sw("a5", 2, "sp")
       /\ RsCode[4] = la("a4", Device) /\ RsCode[5] = la("a5", Device) /\ RsCode[6] = lw("a4", 3, "sp")
       /\ RsCode[7] = lw("a5", 2, "sp")
       /\ RsCode[90] = la("a5", Device) /\ RsCode[91] = lw("a5", 2, "sp") /\ RsCode[92] = addi("sp", "sp", 4)
       /\ RsCode[93] = mret
  BY <1>2, <1>10, <1>12 DEF Part
<1> QED BY <1>12, <1>14, <1>15, <1>16

HbCode == Code["halt_boot"]
LEMMA HbText ==
  /\ Long(HbCode, 62)
  /\ HbCode[1] = la("t5", Base)
  /\ \A n \in 1 .. 5 : HbCode[2 * n] = lw("t6", n - 1, "t5") /\ HbCode[2 * n + 1] = mv(Order[n], "t6")
  /\ \A n \in 6 .. 9 : HbCode[n + 6] = lw(Order[n], n - 1, "t5")
  /\ HbCode[16] = la("t0", Device) /\ HbCode[17] = bnez("store_stack") /\ HbCode[18] = label("load_register")
  /\ \A n \in 10 .. 34 : HbCode[n + 9] = lw(Order[n], n - 1, "t5")
  /\ HbCode[44] = lw("t6", 36, "t5") /\ HbCode[45] = mv("dpc", "t6") /\ HbCode[46] = lw("t6", 35, "t5")
  /\ HbCode[47] = lw("t5", 34, "t5") /\ HbCode[48] = dret
  /\ HbCode[49] = label("store_stack") /\ HbCode[50] = la("t1", StackStart) /\ HbCode[51] = beq("sp", "t1", "load_register")
  /\ HbCode[52] = addi("t2", "t5", 37) /\ HbCode[53] = label("load_stack") /\ HbCode[54] = lw("t4", 0, "t2")
  /\ HbCode[55] = sw("t4", 0, "sp") /\ HbCode[56] = beq("sp", "t1", "restore_sp") /\ HbCode[57] = addi("t2", "t2", 1)
  /\ HbCode[58] = addi("sp", "sp", 1) /\ HbCode[59] = j("load_stack") /\ HbCode[60] = label("restore_sp")
  /\ HbCode[61] = lw("sp", 6, "t5") /\ HbCode[62] = j("load_register")
<1> DEFINE one   == <<la("t5", Base)>>
           three == <<la("t0", Device), bnez("store_stack"), label("load_register")>>
           rest  == <<"t0", "t1", "t2">> \o Args \o <<"t3", "t4">>
           five  == <<lw("t6", PcWord, "t5"), mv("dpc", "t6"), lw("t6", 35, "t5"),
                    lw("t5", 34, "t5"), dret>>
           low   == <<"ra", "sp", "gp", "tp">>
           ts    == <<"t0", "t1", "t2">>
           last  == <<"t3", "t4">>
           few   == ts \o Args
<1>1. Long(one, 1) /\ Long(three, 3) /\ Long(five, 5) /\ Long(low, 4) /\ Long(ts, 3) /\ Long(last, 2)
  BY DEF Long
<1>2. Long(Args, 20) /\ Long(RestoreStack, 14)
  BY DEF Long, Args, RestoreStack
<1>3. /\ one[1] = la("t5", Base)
      /\ three[1] = la("t0", Device) /\ three[2] = bnez("store_stack") /\ three[3] = label("load_register")
      /\ low[1] = "ra" /\ low[2] = "sp" /\ low[3] = "gp" /\ low[4] = "tp"
      /\ ts[1] = "t0" /\ ts[2] = "t1" /\ ts[3] = "t2" /\ last[1] = "t3" /\ last[2] = "t4"
  OBVIOUS
<1>4.
      /\ five[1] = lw("t6", 36, "t5") /\ five[2] = mv("dpc", "t6") /\ five[3] = lw("t6", 35, "t5")
      /\ five[4] = lw("t5", 34, "t5") /\ five[5] = dret
  BY DEF PcWord
<1>5.
      /\ RestoreStack[1] = label("store_stack") /\ RestoreStack[2] = la("t1", StackStart) /\ RestoreStack[3] = beq("sp", "t1", "load_register")
      /\ RestoreStack[4] = addi("t2", "t5", 37) /\ RestoreStack[5] = label("load_stack") /\ RestoreStack[6] = lw("t4", 0, "t2")
      /\ RestoreStack[7] = sw("t4", 0, "sp") /\ RestoreStack[8] = beq("sp", "t1", "restore_sp") /\ RestoreStack[9] = addi("t2", "t2", 1)
      /\ RestoreStack[10] = addi("sp", "sp", 1) /\ RestoreStack[11] = j("load_stack") /\ RestoreStack[12] = label("restore_sp")
      /\ RestoreStack[13] = lw("sp", 6, "t5") /\ RestoreStack[14] = j("load_register")
  BY DEF RestoreStack, StackWord
<1>6. /\ HbCode = one \o CsrLoads \o RestoreLow \o three \o Loads(rest, 9, "t5") \o five \o RestoreStack
      /\ RestoreLow = Loads(low, 5, "t5") /\ rest = few \o last
  BY DEF Code, HbCode, HaltBootCode, RestoreLow
<1> HIDE DEF one, three, rest, five, low, ts, last
<1>7. Long(few, 3 + 20) /\ Part(few, 0, ts, 3) /\ Part(few, 3, Args, 20)
  BY <1>1, <1>2, Cat
<1> HIDE DEF few
<1>8. Long(few, 23)
  BY <1>7
<1>9. Long(rest, 23 + 2) /\ Part(rest, 0, few, 23) /\ Part(rest, 23, last, 2)
  BY <1>1, <1>6, <1>8, Cat
<1>10. Long(rest, 25)
  BY <1>9
<1>11. Part(rest, 0 + 0, ts, 3) /\ Part(rest, 0 + 3, Args, 20)
  BY <1>7, <1>9, Within
<1>12. Long(CsrLoads, 10) /\ Long(RestoreLow, 4) /\ Long(Loads(rest, 9, "t5"), 25)
  BY <1>1, <1>6, <1>10, CsrText, StoresText
<1> DEFINE front == one \o CsrLoads \o RestoreLow \o three
<1>13. /\ Long(front, 1 + 10 + 4 + 3) /\ Part(front, 0, one, 1) /\ Part(front, 1, CsrLoads, 10)
       /\ Part(front, 1 + 10, RestoreLow, 4) /\ Part(front, 1 + 10 + 4, three, 3)
  <2>1. Four(front, one, 1, CsrLoads, 10, RestoreLow, 4, three, 3)
    BY <1>1, <1>12, Cat4
  <2> QED BY <2>1 DEF Four
<1>14. HbCode = front \o Loads(rest, 9, "t5") \o five \o RestoreStack
  BY <1>6
<1> HIDE DEF front
<1>15. Long(front, 18) /\ Part(front, 11, RestoreLow, 4) /\ Part(front, 15, three, 3)
  BY <1>13
<1>16. /\ Long(HbCode, 18 + 25 + 5 + 14) /\ Part(HbCode, 0, front, 18)
       /\ Part(HbCode, 18, Loads(rest, 9, "t5"), 25) /\ Part(HbCode, 18 + 25, five, 5)
       /\ Part(HbCode, 18 + 25 + 5, RestoreStack, 14)
  <2>1. Four(HbCode, front, 18, Loads(rest, 9, "t5"), 25, five, 5, RestoreStack, 14)
    BY <1>1, <1>2, <1>12, <1>14, <1>15, Cat4
  <2> QED BY <2>1 DEF Four
<1>17. /\ Long(HbCode, 62) /\ Part(HbCode, 43, five, 5) /\ Part(HbCode, 48, RestoreStack, 14)
  BY <1>16
<1>18. /\ Part(HbCode, 0, one, 1) /\ Part(HbCode, 1, CsrLoads, 10)
       /\ Part(HbCode, 11, RestoreLow, 4) /\ Part(HbCode, 15, three, 3)
  <2>1. Part(HbCode, 0 + 0, one, 1)
    BY <1>13, <1>16, Within
  <2>2. Part(HbCode, 0 + 1, CsrLoads, 10)
    BY <1>13, <1>16, Within
  <2>3. Part(HbCode, 0 + 11, RestoreLow, 4)
    BY <1>15, <1>16, Within
  <2>4. Part(HbCode, 0 + 15, three, 3)
    BY <1>15, <1>16, Within
  <2> QED BY <2>1, <2>2, <2>3, <2>4
<1>19. ASSUME NEW n \in 1 .. 5
       PROVE  HbCode[2 * n] = lw("t6", n - 1, "t5") /\ HbCode[2 * n + 1] = mv(Order[n], "t6")
  <2>1. /\ 2 * n - 1 \in 1 .. 10 /\ 2 * n \in 1 .. 10 /\ 2 * n = 1 + (2 * n - 1)
        /\ 2 * n + 1 = 1 + 2 * n
    OBVIOUS
  <2>2. Part(HbCode, 1, CsrLoads, 10)
    BY <1>18
  <2> QED BY <2>1, <2>2, CsrText, OrderText DEF Part
<1>20. ASSUME NEW n \in 6 .. 9 PROVE HbCode[n + 6] = lw(Order[n], n - 1, "t5")
  <2>1. n - 5 \in 1 .. 4 /\ 11 + (n - 5) = n + 6 /\ 5 + (n - 5) - 1 = n - 1
    OBVIOUS
  <2>2. Part(HbCode, 11, RestoreLow, 4)
    BY <1>18
  <2>3. low[n - 5] = Order[n]
    BY <1>3, OrderList
  <2>4. Loads(low, 5, "t5")[n - 5] = lw(low[n - 5], 5 + (n - 5) - 1, "t5")
    BY <1>1, <2>1, StoresText
  <2> QED BY <1>6, <2>1, <2>2, <2>3, <2>4 DEF Part
<1>21. ASSUME NEW n \in 10 .. 34 PROVE HbCode[n + 9] = lw(Order[n], n - 1, "t5")
  <2>1. n - 9 \in 1 .. 25 /\ 18 + (n - 9) = n + 9 /\ 9 + (n - 9) - 1 = n - 1
    OBVIOUS
  <2>2. rest[n - 9] = Order[n]
    <3>1. CASE n \in 10 .. 12
      <4>1. n - 9 \in 1 .. 3 /\ (0 + 0) + (n - 9) = n - 9
        BY <3>1
      <4>2. rest[n - 9] = ts[n - 9]
        BY <1>11, <4>1 DEF Part
      <4> QED BY <1>3, <3>1, <4>2, OrderList
    <3>2. CASE n \in 13 .. 32
      <4>1. /\ n - 12 \in 1 .. 20 /\ (0 + 3) + (n - 12) = n - 9
            /\ n - 5 \in 8 .. 27 /\ (n - 5) - 7 = n - 12 /\ n \in 6 .. 36
        BY <3>2
      <4>2. rest[n - 9] = Args[n - 12]
        BY <1>11, <4>1 DEF Part
      <4> QED BY <4>1, <4>2, FileText, OrderText
    <3>3. CASE n \in 33 .. 34
      <4>1. n - 32 \in 1 .. 2 /\ 23 + (n - 32) = n - 9 /\ (n = 33 \/ n = 34)
        BY <3>3
      <4>2. rest[n - 9] = last[n - 32]
        BY <1>9, <4>1 DEF Part
      <4> QED BY <1>3, <4>1, <4>2, OrderList
    <3> QED BY <3>1, <3>2, <3>3
  <2>3. Loads(rest, 9, "t5")[n - 9] = lw(rest[n - 9], 9 + (n - 9) - 1, "t5")
    BY <1>10, <2>1, StoresText
  <2> QED BY <1>16, <2>1, <2>2, <2>3 DEF Part
<1>22. HbCode[1] = la("t5", Base)
  BY <1>3, <1>18 DEF Part
<1>23.
       /\ HbCode[16] = la("t0", Device) /\ HbCode[17] = bnez("store_stack") /\ HbCode[18] = label("load_register")
       /\ HbCode[44] = lw("t6", 36, "t5") /\ HbCode[45] = mv("dpc", "t6") /\ HbCode[46] = lw("t6", 35, "t5")
       /\ HbCode[47] = lw("t5", 34, "t5") /\ HbCode[48] = dret
  BY <1>3, <1>4, <1>17, <1>18 DEF Part
<1>24.
       /\ HbCode[49] = label("store_stack") /\ HbCode[50] = la("t1", StackStart) /\ HbCode[51] = beq("sp", "t1", "load_register")
       /\ HbCode[52] = addi("t2", "t5", 37) /\ HbCode[53] = label("load_stack") /\ HbCode[54] = lw("t4", 0, "t2")
       /\ HbCode[55] = sw("t4", 0, "sp") /\ HbCode[56] = beq("sp", "t1", "restore_sp") /\ HbCode[57] = addi("t2", "t2", 1)
       /\ HbCode[58] = addi("sp", "sp", 1) /\ HbCode[59] = j("load_stack") /\ HbCode[60] = label("restore_sp")
       /\ HbCode[61] = lw("sp", 6, "t5") /\ HbCode[62] = j("load_register")
  BY <1>5, <1>17 DEF Part
<1> QED BY <1>17, <1>19, <1>20, <1>21, <1>22, <1>23, <1>24

(***************************************************************************)
(* Instructions are what the machine knows, and use registers.             *)
(***************************************************************************)
Ordinary == {"addi", "la", "mv", "lw", "sw", "beq", "bnez", "j", "compute"}

Formal(I) == /\ I[1] \in {"addi", "la", "mv", "lw"} => I[2] \in Reg
             /\ I[1] \in {"addi", "mv", "lw", "sw", "beq"} => I[3] \in Vis
             /\ I[1] \in {"sw", "beq"} => I[2] \in Vis

LEMMA Forms ==
  /\ \A x, y, k : x \in Reg /\ y \in Vis => Formal(addi(x, y, k))
  /\ \A x, y : x \in Reg /\ y \in Vis => Formal(mv(x, y))
  /\ \A x, y, k : x \in Reg /\ y \in Vis => Formal(lw(x, k, y))
  /\ \A x, v : x \in Reg => Formal(la(x, v))
  /\ \A x, y, k : x \in Vis /\ y \in Vis => Formal(sw(x, k, y))
  /\ \A x, y, l : x \in Vis /\ y \in Vis => Formal(beq(x, y, l))
  /\ \A l : Formal(bnez(l)) /\ Formal(j(l)) /\ Formal(call(l)) /\ Formal(label(l))
  /\ Formal(compute) /\ Formal(ret) /\ Formal(wfi) /\ Formal(mret) /\ Formal(dret)
BY DEF Formal, addi, mv, lw, la, sw, beq, bnez, j, call, label, compute, ret, wfi, mret, dret

LEMMA Ops ==
  /\ \A x, y, k : addi(x, y, k)[1] = "addi" /\ lw(x, k, y)[1] = "lw" /\ sw(x, k, y)[1] = "sw"
  /\ \A x, y : mv(x, y)[1] = "mv" /\ la(x, y)[1] = "la"
  /\ \A x, y, l : beq(x, y, l)[1] = "beq"
  /\ \A l : bnez(l)[1] = "bnez" /\ j(l)[1] = "j" /\ call(l)[1] = "call" /\ label(l)[1] = "label"
  /\ compute[1] = "compute" /\ ret[1] = "ret" /\ wfi[1] = "wfi" /\ mret[1] = "mret" /\ dret[1] = "dret"
BY DEF addi, mv, lw, la, sw, beq, bnez, j, call, label, compute, ret, wfi, mret, dret

LEMMA Names ==
  /\ Vis \subseteq Reg /\ "dpc" \in Reg /\ "dpc" \notin Vis
  /\ \A n \in 1 .. 36 : Order[n] \in Vis
  /\ "ra" \in Vis /\ "sp" \in Vis /\ "gp" \in Vis /\ "tp" \in Vis /\ "t0" \in Vis /\ "t1" \in Vis
  /\ "t2" \in Vis /\ "t3" \in Vis /\ "t4" \in Vis /\ "t5" \in Vis /\ "t6" \in Vis /\ "a4" \in Vis
  /\ "a5" \in Vis /\ "s0" \in Vis /\ "s1" \in Vis /\ "mepc" \in Vis
<1>1. \A n \in 1 .. 36 : Order[n] \in Vis
  BY VisIs
<1>2. /\ Order[6] \in Vis /\ Order[7] \in Vis /\ Order[8] \in Vis /\ Order[9] \in Vis
      /\ Order[10] \in Vis /\ Order[11] \in Vis /\ Order[12] \in Vis /\ Order[33] \in Vis
      /\ Order[34] \in Vis /\ Order[35] \in Vis /\ Order[36] \in Vis /\ Order[19] \in Vis
      /\ Order[20] \in Vis /\ Order[4] \in Vis /\ Order[13] \in Vis /\ Order[14] \in Vis
  BY <1>1
<1>3. Vis \subseteq Reg /\ "dpc" \in Reg /\ "dpc" \notin Vis
  BY DEF Vis, Reg
<1> QED BY <1>1, <1>2, <1>3, OrderList

LEMMA SaForms == \A i \in 1 .. 60 : Formal(SaCode[i]) /\ (i \notin {52, 55, 60} => SaCode[i][1] \in Ordinary)
<1>1. ASSUME NEW i \in 1 .. 4 PROVE Formal(SaCode[i]) /\ (i \notin {52, 55, 60} => SaCode[i][1] \in Ordinary)
  BY SaText, Forms, Names, Ops DEF Ordinary
<1>2. ASSUME NEW i \in 44 .. 51 PROVE Formal(SaCode[i]) /\ (i \notin {52, 55, 60} => SaCode[i][1] \in Ordinary)
  BY SaText, Forms, Names, Ops DEF Ordinary
<1>3. ASSUME NEW i \in 52 .. 60 PROVE Formal(SaCode[i]) /\ (i \notin {52, 55, 60} => SaCode[i][1] \in Ordinary)
  BY SaText, Forms, Names, Ops DEF Ordinary
<1>4. ASSUME NEW i \in 1 .. 60, \E n \in 1 .. 5 : i = 3 + 2 * n \/ i = 4 + 2 * n
      PROVE  Formal(SaCode[i]) /\ (i \notin {52, 55, 60} => SaCode[i][1] \in Ordinary)
  BY <1>4, SaText, Forms, Names, Ops DEF Ordinary
<1>5. ASSUME NEW i \in 1 .. 60, \E n \in 6 .. 34 : i = n + 9
      PROVE  Formal(SaCode[i]) /\ (i \notin {52, 55, 60} => SaCode[i][1] \in Ordinary)
  BY <1>5, SaText, Forms, Names, Ops DEF Ordinary
<1>6. \A i \in 1 .. 60 : \/ i \in 1 .. 4
          \/ i \in 44 .. 51
          \/ i \in 52 .. 60
          \/ (\E n \in 1 .. 5 : i = 3 + 2 * n \/ i = 4 + 2 * n)
          \/ (\E n \in 6 .. 34 : i = n + 9)
  OBVIOUS
<1> QED BY <1>1, <1>2, <1>3, <1>4, <1>5, <1>6

LEMMA ScForms == \A i \in 1 .. 77 : Formal(ScCode[i]) /\ (i \notin {13, 20, 76, 77} => ScCode[i][1] \in Ordinary)
<1>1. ASSUME NEW i \in 1 .. 8
      PROVE  Formal(ScCode[i]) /\ (i \notin {13, 20, 76, 77} => ScCode[i][1] \in Ordinary)
  BY ScText, Forms, Names, Ops DEF Ordinary
<1>2. ASSUME NEW i \in 9 .. 14
      PROVE  Formal(ScCode[i]) /\ (i \notin {13, 20, 76, 77} => ScCode[i][1] \in Ordinary)
  BY ScText, Forms, Names, Ops DEF Ordinary
<1>3. ASSUME NEW i \in 15 .. 20
      PROVE  Formal(ScCode[i]) /\ (i \notin {13, 20, 76, 77} => ScCode[i][1] \in Ordinary)
  BY ScText, Forms, Names, Ops DEF Ordinary
<1>4. ASSUME NEW i \in 31 .. 33
      PROVE  Formal(ScCode[i]) /\ (i \notin {13, 20, 76, 77} => ScCode[i][1] \in Ordinary)
  BY ScText, Forms, Names, Ops DEF Ordinary
<1>5. ASSUME NEW i \in 38 .. 39
      PROVE  Formal(ScCode[i]) /\ (i \notin {13, 20, 76, 77} => ScCode[i][1] \in Ordinary)
  BY ScText, Forms, Names, Ops DEF Ordinary
<1>6. ASSUME NEW i \in 60 .. 68
      PROVE  Formal(ScCode[i]) /\ (i \notin {13, 20, 76, 77} => ScCode[i][1] \in Ordinary)
  BY ScText, Forms, Names, Ops DEF Ordinary
<1>7. ASSUME NEW i \in 69 .. 77
      PROVE  Formal(ScCode[i]) /\ (i \notin {13, 20, 76, 77} => ScCode[i][1] \in Ordinary)
  BY ScText, Forms, Names, Ops DEF Ordinary
<1>8. ASSUME NEW i \in 1 .. 77, \E n \in 1 .. 5 : i = 19 + 2 * n \/ i = 20 + 2 * n
      PROVE  Formal(ScCode[i]) /\ (i \notin {13, 20, 76, 77} => ScCode[i][1] \in Ordinary)
  BY <1>8, ScText, Forms, Names, Ops DEF Ordinary
<1>9. ASSUME NEW i \in 1 .. 77, \E n \in 8 .. 11 : i = n + 26
      PROVE  Formal(ScCode[i]) /\ (i \notin {13, 20, 76, 77} => ScCode[i][1] \in Ordinary)
  BY <1>9, ScText, Forms, Names, Ops DEF Ordinary
<1>10. ASSUME NEW i \in 1 .. 77, \E n \in 13 .. 32 : i = n + 27
       PROVE  Formal(ScCode[i]) /\ (i \notin {13, 20, 76, 77} => ScCode[i][1] \in Ordinary)
  BY <1>10, ScText, Forms, Names, Ops DEF Ordinary
<1>11. \A i \in 1 .. 77 : \/ i \in 1 .. 8
          \/ i \in 9 .. 14
          \/ i \in 15 .. 20
          \/ i \in 31 .. 33
          \/ i \in 38 .. 39
          \/ i \in 60 .. 68
          \/ i \in 69 .. 77
          \/ (\E n \in 1 .. 5 : i = 19 + 2 * n \/ i = 20 + 2 * n)
          \/ (\E n \in 8 .. 11 : i = n + 26)
          \/ (\E n \in 13 .. 32 : i = n + 27)
  OBVIOUS
<1> QED BY <1>1, <1>2, <1>3, <1>4, <1>5, <1>6, <1>7, <1>8, <1>9, <1>10, <1>11

LEMMA CrForms == \A i \in 1 .. 45 : Formal(CrCode[i]) /\ (i \notin {45} => CrCode[i][1] \in Ordinary)
<1>1. ASSUME NEW i \in 1 .. 10 PROVE Formal(CrCode[i]) /\ (i \notin {45} => CrCode[i][1] \in Ordinary)
  BY CrText, Forms, Names, Ops DEF Ordinary
<1>2. ASSUME NEW i \in 38 .. 45 PROVE Formal(CrCode[i]) /\ (i \notin {45} => CrCode[i][1] \in Ordinary)
  BY CrText, Forms, Names, Ops DEF Ordinary
<1>3. ASSUME NEW i \in 1 .. 45, \E n \in 8 .. 34 : i = n + 3
      PROVE  Formal(CrCode[i]) /\ (i \notin {45} => CrCode[i][1] \in Ordinary)
  BY <1>3, CrText, Forms, Names, Ops DEF Ordinary
<1>4. \A i \in 1 .. 45 : \/ i \in 1 .. 10
          \/ i \in 38 .. 45
          \/ (\E n \in 8 .. 34 : i = n + 3)
  OBVIOUS
<1> QED BY <1>1, <1>2, <1>3, <1>4

LEMMA FsmForms == \A i \in 1 .. 9 : Formal(FsmCode[i]) /\ (i \notin {9} => FsmCode[i][1] \in Ordinary)
<1>1. ASSUME NEW i \in 1 .. 9 PROVE Formal(FsmCode[i]) /\ (i \notin {9} => FsmCode[i][1] \in Ordinary)
  BY FsmText, Forms, Names, Ops DEF Ordinary
<1>2. \A i \in 1 .. 9 : \/ i \in 1 .. 9
  OBVIOUS
<1> QED BY <1>1, <1>2

LEMMA RsForms == \A i \in 1 .. 93 : Formal(RsCode[i]) /\ (i \notin {93} => RsCode[i][1] \in Ordinary)
<1>1. ASSUME NEW i \in 1 .. 7 \cup 90 .. 93
      PROVE  Formal(RsCode[i]) /\ (i \notin {93} => RsCode[i][1] \in Ordinary)
  BY <1>1, RsText, Forms, Names, Ops DEF Ordinary
<1>2. ASSUME NEW n \in 6 .. 36, NEW i \in {n + 2, n + 53}
      PROVE  Formal(RsCode[i]) /\ (i \notin {93} => RsCode[i][1] \in Ordinary)
  BY <1>2, RsText, Forms, Names, Ops DEF Ordinary
<1>3. ASSUME NEW n \in 1 .. 5, NEW i \in {37 + 2 * n, 38 + 2 * n}
      PROVE  Formal(RsCode[i]) /\ (i \notin {93} => RsCode[i][1] \in Ordinary)
  BY <1>3, RsText, Forms, Names, Ops DEF Ordinary
<1>4. ASSUME NEW n \in 1 .. 5, NEW i \in {47 + 2 * n, 48 + 2 * n}
      PROVE  Formal(RsCode[i]) /\ (i \notin {93} => RsCode[i][1] \in Ordinary)
  BY <1>4, RsText, Forms, Names, Ops DEF Ordinary
<1>5. ASSUME NEW i \in 1 .. 93
      PROVE  \/ i \in 1 .. 7 \cup 90 .. 93
             \/ \E n \in 6 .. 36 : i \in {n + 2, n + 53}
             \/ \E n \in 1 .. 5 : i \in {37 + 2 * n, 38 + 2 * n}
             \/ \E n \in 1 .. 5 : i \in {47 + 2 * n, 48 + 2 * n}
  OBVIOUS
<1> QED BY <1>1, <1>2, <1>3, <1>4, <1>5, ZenonT(30)

LEMMA HbForms == \A i \in 1 .. 62 : Formal(HbCode[i]) /\ (i \notin {18, 48, 49, 53, 60} => HbCode[i][1] \in Ordinary)
<1>1. ASSUME NEW i \in {1} \cup 16 .. 18
      PROVE  Formal(HbCode[i]) /\ (i \notin {18, 48, 49, 53, 60} => HbCode[i][1] \in Ordinary)
  BY HbText, Forms, Names, Ops DEF Ordinary
<1>2. ASSUME NEW i \in 44 .. 48
      PROVE  Formal(HbCode[i]) /\ (i \notin {18, 48, 49, 53, 60} => HbCode[i][1] \in Ordinary)
  BY HbText, Forms, Names, Ops DEF Ordinary
<1>3. ASSUME NEW i \in 49 .. 55
      PROVE  Formal(HbCode[i]) /\ (i \notin {18, 48, 49, 53, 60} => HbCode[i][1] \in Ordinary)
  BY HbText, Forms, Names, Ops DEF Ordinary
<1>4. ASSUME NEW i \in 56 .. 62
      PROVE  Formal(HbCode[i]) /\ (i \notin {18, 48, 49, 53, 60} => HbCode[i][1] \in Ordinary)
  BY HbText, Forms, Names, Ops DEF Ordinary
<1>5. ASSUME NEW i \in 1 .. 62, \E n \in 1 .. 5 : i = 2 * n \/ i = 2 * n + 1
      PROVE  Formal(HbCode[i]) /\ (i \notin {18, 48, 49, 53, 60} => HbCode[i][1] \in Ordinary)
  BY <1>5, HbText, Forms, Names, Ops DEF Ordinary
<1>6. ASSUME NEW i \in 1 .. 62, \E n \in 6 .. 9 : i = n + 6
      PROVE  Formal(HbCode[i]) /\ (i \notin {18, 48, 49, 53, 60} => HbCode[i][1] \in Ordinary)
  BY <1>6, HbText, Forms, Names, Ops DEF Ordinary
<1>7. ASSUME NEW i \in 1 .. 62, \E n \in 10 .. 34 : i = n + 9
      PROVE  Formal(HbCode[i]) /\ (i \notin {18, 48, 49, 53, 60} => HbCode[i][1] \in Ordinary)
  BY <1>7, HbText, Forms, Names, Ops DEF Ordinary
<1>8. \A i \in 1 .. 62 : \/ i \in {1} \cup 16 .. 18
          \/ i \in 44 .. 48
          \/ i \in 49 .. 55
          \/ i \in 56 .. 62
          \/ (\E n \in 1 .. 5 : i = 2 * n \/ i = 2 * n + 1)
          \/ (\E n \in 6 .. 9 : i = n + 6)
          \/ (\E n \in 10 .. 34 : i = n + 9)
  OBVIOUS
<1> QED BY <1>1, <1>2, <1>3, <1>4, <1>5, <1>6, <1>7, <1>8

LEMMA MainForms == \A i \in 1 .. 25 : Formal(MnCode[i]) /\ (i \notin {5, 7, 11, 17, 21, 25} => MnCode[i][1] \in Ordinary)
<1>1. ASSUME NEW i \in 1 .. 9
      PROVE  Formal(MnCode[i]) /\ (i \notin {5, 7, 11, 17, 21, 25} => MnCode[i][1] \in Ordinary)
  BY MainText, Forms, Names, Ops DEF Ordinary
<1>2. ASSUME NEW i \in 10 .. 17
      PROVE  Formal(MnCode[i]) /\ (i \notin {5, 7, 11, 17, 21, 25} => MnCode[i][1] \in Ordinary)
  BY MainText, Forms, Names, Ops DEF Ordinary
<1>3. ASSUME NEW i \in 18 .. 25
      PROVE  Formal(MnCode[i]) /\ (i \notin {5, 7, 11, 17, 21, 25} => MnCode[i][1] \in Ordinary)
  BY MainText, Forms, Names, Ops DEF Ordinary
<1>4. \A i \in 1 .. 25 : \/ i \in 1 .. 9
          \/ i \in 10 .. 17
          \/ i \in 18 .. 25
  OBVIOUS
<1> QED BY <1>1, <1>2, <1>3, <1>4

\* Where the labels are.
LEMMA LabelsDiffer == \A l, k : label(l) = label(k) => l = k
BY DEF label

LEMMA Labels ==
  /\ Find("Safe_Activate", "resume") = 52 /\ Find("main", "resume") = 25
  /\ Find("Store_Checkpoint", "resume") = 76 /\ Find("Store_Checkpoint", "stack") = 13
  /\ Find("Store_Checkpoint", "registers") = 20
  /\ Find("halt_boot", "store_stack") = 49 /\ Find("halt_boot", "load_register") = 18
  /\ Find("halt_boot", "load_stack") = 53 /\ Find("halt_boot", "restore_sp") = 60
<1>1. /\ DOMAIN SaCode = 1 .. 60 /\ DOMAIN ScCode = 1 .. 77 /\ DOMAIN HbCode = 1 .. 62
      /\ DOMAIN MnCode = 1 .. 25
  BY SaText, ScText, HbText, MainText DEF Long
<1>2. \A l : label(l)[1] \notin Ordinary /\ wfi # label(l) /\ ret # label(l) /\ dret # label(l)
             /\ \A f : call(f) # label(l)
  BY DEF label, wfi, ret, dret, call, Ordinary
<1>3. \A i \in 1 .. 60 : \A l : SaCode[i] = label(l) => i = 52
  BY <1>2, SaText, SaForms, ZenonT(30)
<1>4. \A i \in 1 .. 77 : \A l : ScCode[i] = label(l) => i \in {13, 20, 76}
  BY <1>2, ScText, ScForms, ZenonT(30)
<1>5. \A i \in 1 .. 62 : \A l : HbCode[i] = label(l) => i \in {18, 49, 53, 60}
  BY <1>2, HbText, HbForms
<1>6. \A i \in 1 .. 25 : \A l : MnCode[i] = label(l) => i = 25
  BY <1>2, MainText, MainForms
<1>7. Find("Safe_Activate", "resume") = 52
  <2>1. SaCode[52] = label("resume")
    BY SaText
  <2> QED BY <1>1, <1>3, <2>1 DEF Find, SaCode
<1>8. Find("main", "resume") = 25
  <2>1. MnCode[25] = label("resume")
    BY MainText
  <2> QED BY <1>1, <1>6, <2>1 DEF Find, MnCode
<1>9. /\ Find("Store_Checkpoint", "resume") = 76 /\ Find("Store_Checkpoint", "stack") = 13
      /\ Find("Store_Checkpoint", "registers") = 20
  <2>1. ScCode[13] = label("stack") /\ ScCode[20] = label("registers") /\ ScCode[76] = label("resume")
    BY ScText
  <2>2. \A i \in 1 .. 77 : /\ ScCode[i] = label("stack") <=> i = 13
                           /\ ScCode[i] = label("registers") <=> i = 20
                           /\ ScCode[i] = label("resume") <=> i = 76
    BY <1>4, <2>1, LabelsDiffer
  <2> QED BY <1>1, <2>2 DEF Find, ScCode
<1>10. /\ Find("halt_boot", "store_stack") = 49 /\ Find("halt_boot", "load_register") = 18
       /\ Find("halt_boot", "load_stack") = 53 /\ Find("halt_boot", "restore_sp") = 60
  <2>1. /\ HbCode[18] = label("load_register") /\ HbCode[49] = label("store_stack")
        /\ HbCode[53] = label("load_stack") /\ HbCode[60] = label("restore_sp")
    BY HbText
  <2>2. \A i \in 1 .. 62 : /\ HbCode[i] = label("load_register") <=> i = 18
                           /\ HbCode[i] = label("store_stack") <=> i = 49
                           /\ HbCode[i] = label("load_stack") <=> i = 53
                           /\ HbCode[i] = label("restore_sp") <=> i = 60
    BY <1>5, <2>1, LabelsDiffer
  <2> QED BY <1>1, <2>2 DEF Find, HbCode
<1> QED BY <1>7, <1>8, <1>9, <1>10

(***************************************************************************)
(* Instruction by instruction, with a known base.                          *)
(***************************************************************************)
LEMMA OnStack ==
  ASSUME NEW x, NEW y, NEW k \in Int, NEW R, NEW M, NEW p, NEW rec, NEW R2, NEW M2, NEW p2,
         DOMAIN M = Places, NEW n \in Int, R[y] = <<"stack", n>>, n + k \in Stacks
  PROVE  /\ Does(sw(x, k, y), R, M, p, rec, R2, M2, p2) =>
              R2 = R /\ StackWrite(M2, M, n + k, R[x]) /\ p2 = Succ(p)
         /\ Does(lw(x, k, y), R, M, p, rec, R2, M2, p2) =>
              Sets(R2, R, x, St(M, n + k)) /\ M2 = M /\ p2 = Succ(p)
<1>1. Offset(R[y], k) = <<"stack", n + k>>
  BY DEF Offset
<1> QED BY <1>1, DoSw, DoLw, Writes DEF Does, St

LEMMA OnCopy ==
  ASSUME NEW x, NEW y, NEW k \in Int, NEW R, NEW M, NEW p, NEW rec, NEW R2, NEW M2, NEW p2,
         DOMAIN M = Places, NEW n \in Int, R[y] = <<"copy", n>>, n + k \in Words
  PROVE  /\ Does(sw(x, k, y), R, M, p, rec, R2, M2, p2) =>
              R2 = R /\ CopyWrite(M2, M, n + k, R[x]) /\ p2 = Succ(p)
         /\ Does(lw(x, k, y), R, M, p, rec, R2, M2, p2) =>
              Sets(R2, R, x, Cp(M, n + k)) /\ M2 = M /\ p2 = Succ(p)
<1>1. Offset(R[y], k) = <<"copy", n + k>>
  BY DEF Offset
<1> QED BY <1>1, DoSw, DoLw, Writes DEF Does, Cp

LEMMA OnCheck ==
  ASSUME NEW x, NEW y, NEW k \in Int, NEW R, NEW M, NEW p, NEW rec, NEW R2, NEW M2, NEW p2,
         DOMAIN M = Places, NEW n \in Int, R[y] = <<"check", n>>, n + k \in Words
  PROVE  Does(sw(x, k, y), R, M, p, rec, R2, M2, p2) =>
           R2 = R /\ CheckWrite(M2, M, n + k, R[x]) /\ p2 = Succ(p)
<1>1. Offset(R[y], k) = <<"check", n + k>>
  BY DEF Offset
<1> QED BY <1>1, DoSw, Writes DEF Does

LEMMA Adds ==
  ASSUME NEW x, NEW y, NEW k \in Int, NEW R, NEW M, NEW p, NEW rec, NEW R2, NEW M2, NEW p2,
         NEW area, NEW n \in Int, R[y] = <<area, n>>,
         Does(addi(x, y, k), R, M, p, rec, R2, M2, p2)
  PROVE  Sets(R2, R, x, <<area, n + k>>) /\ M2 = M /\ p2 = Succ(p)
<1>1. Offset(R[y], k) = <<area, n + k>>
  BY DEF Offset
<1> QED BY <1>1, DoAddi DEF Does

LEMMA InRegisters ==
  ASSUME NEW x, NEW v, NEW R, NEW M, NEW p, NEW rec, NEW R2, NEW M2, NEW p2
  PROVE  /\ Does(la(x, v), R, M, p, rec, R2, M2, p2) => Sets(R2, R, x, v) /\ M2 = M /\ p2 = Succ(p)
         /\ Does(mv(x, v), R, M, p, rec, R2, M2, p2) => Sets(R2, R, x, R[v]) /\ M2 = M /\ p2 = Succ(p)
BY DoLa, DoMv DEF Does

LEMMA Comparing ==
  ASSUME NEW x, NEW y, NEW l, NEW R, NEW M, NEW p, NEW rec, NEW R2, NEW M2, NEW p2,
         Does(beq(x, y, l), R, M, p, rec, R2, M2, p2)
  PROVE  R2 = R /\ M2 = M /\ p2 = IF R[x] = R[y] THEN <<p[1], Find(p[1], l)>> ELSE Succ(p)
BY DoJumps DEF Does

LEMMA Jumping ==
  ASSUME NEW l, NEW R, NEW M, NEW p, NEW rec, NEW R2, NEW M2, NEW p2
  PROVE  /\ Does(j(l), R, M, p, rec, R2, M2, p2) => R2 = R /\ M2 = M /\ p2 = <<p[1], Find(p[1], l)>>
         /\ Does(bnez(l), R, M, p, rec, R2, M2, p2) =>
              R2 = R /\ M2 = M /\ p2 = IF rec THEN <<p[1], Find(p[1], l)>> ELSE Succ(p)
         /\ Does(label(l), R, M, p, rec, R2, M2, p2) => R2 = R /\ M2 = M /\ p2 = Succ(p)
BY DoJumps, DoLabel DEF Does

LEMMA Returning ==
  ASSUME NEW R, NEW M, NEW p, NEW rec, NEW R2, NEW M2, NEW p2, Does(ret, R, M, p, rec, R2, M2, p2)
  PROVE  R2 = R /\ M2 = M /\ p2 = R["ra"]
BY DoRet DEF Does

\* These the machine does not do by itself.
LEMMA NotOrdinary ==
  ASSUME NEW I, I[1] \in {"wfi", "mret", "dret"}, NEW R, NEW M, NEW p, NEW Q, NEW Q2
  PROVE  ~Regs(I, R, M, p, Q, Q2)
BY DEF Regs

(***************************************************************************)
(* A routine is called with the registers and the stack e, by main, which  *)
(* has so much on the stack at each of its places.                         *)
(***************************************************************************)
Top(e) == e.reg["sp"][2]
MainTop(i) == IF i \in {1, 17, 18, 25} THEN 0 ELSE -2
Returns == [Safe_Activate |-> {6}, Store_Checkpoint |-> {8, 12, 18}, Check_RF |-> {22}]

Called(f, e) ==
  /\ \E i \in Returns[f] : e.reg["ra"] = <<"main", i>> /\ e.reg["sp"] = <<"stack", MainTop(i)>>
  /\ DOMAIN e.reg = Vis /\ e.stack = [a \in Top(e) .. 0 |-> e.stack[a]]
  /\ e.stack[0] = <<"word", 0>>

\* The word at the start of the stack is nobody's.
Sound(R, M) == DOMAIN R = Reg /\ DOMAIN M = Places /\ St(M, 0) = <<"word", 0>>

\* The registers that belong to the caller, but for sp, and its stack.
Kept == {Order[n] : n \in {6, 8, 9, 13, 14} \cup 23 .. 32}
Keeps(R, M, e) ==
  /\ Sound(R, M)
  /\ \A r \in Kept : R[r] = e.reg[r]
  /\ \A a \in Top(e) .. 0 : St(M, a) = e.stack[a]

LEMMA KeptNames ==
  /\ Kept \subseteq Vis /\ "ra" \in Kept
  /\ "sp" \notin Kept /\ "t0" \notin Kept /\ "t1" \notin Kept /\ "t2" \notin Kept /\ "t3" \notin Kept
  /\ "t4" \notin Kept /\ "t5" \notin Kept /\ "t6" \notin Kept /\ "a4" \notin Kept /\ "a5" \notin Kept
  /\ "mepc" \notin Kept /\ "dpc" \notin Kept
<1>1. \A n \in {6, 8, 9, 13, 14} \cup 23 .. 32 : n \in 1 .. 36 /\ n \notin {4, 7, 10, 11, 12, 19, 20, 33, 34, 35, 36}
  OBVIOUS
<1>2. \A r \in Kept : \E n \in 1 .. 36 : r = Order[n] /\ n \notin {4, 7, 10, 11, 12, 19, 20, 33, 34, 35, 36}
  BY <1>1 DEF Kept
<1> QED BY <1>2, OrderIsOne, OrderList, Names DEF Kept

LEMMA CalledTop ==
  ASSUME NEW f \in {"Safe_Activate", "Store_Checkpoint", "Check_RF"}, NEW e, Called(f, e)
  PROVE  /\ Top(e) \in {-2, 0} /\ e.reg["sp"] = <<"stack", Top(e)>>
         /\ f # "Store_Checkpoint" => Top(e) = -2
BY DEF Called, Returns, MainTop, Top

\* What leaves the caller's as it is.
LEMMA KeepsSets ==
  ASSUME NEW R, NEW M, NEW e, NEW R2, NEW x, NEW v, Keeps(R, M, e), Sets(R2, R, x, v), x \notin Kept
  PROVE  Keeps(R2, M, e)
BY KeptNames, Names DEF Keeps, Sets, Sound

LEMMA KeepsStack ==
  ASSUME NEW R, NEW M, NEW e, NEW M2, NEW n \in Stacks, NEW v, Keeps(R, M, e), StackWrite(M2, M, n, v),
         Top(e) \in {-2, 0}, n < Top(e)
  PROVE  Keeps(R, M2, e)
BY DEF Keeps, StackWrite, Sound, Stacks

LEMMA KeepsElse ==
  ASSUME NEW R, NEW M, NEW e, NEW M2, Keeps(R, M, e), SameStack(M2, M), DOMAIN M2 = Places,
         Top(e) \in {-2, 0}
  PROVE  Keeps(R, M2, e)
BY DEF Keeps, SameStack, Sound, Stacks

(***************************************************************************)
(* Safe_Activate, called with e: what holds before its i-th instruction.   *)
(***************************************************************************)
Activates(i, R, M, e) ==
  /\ Keeps(R, M, e)
  /\ R["sp"] = <<"stack", IF i \in 2 .. 59 THEN -6 ELSE -2>>
  /\ i \in 5 .. 49 \cup 52 .. 55 => R["t5"] = Base
  /\ \A n \in 1 .. 5 : i = 4 + 2 * n => R["t6"] = R[Order[n]]
  /\ \A n \in 1 .. 5 : i \in 5 + 2 * n .. 55 => Cp(M, n - 1) = R[Order[n]]
  /\ \A n \in 6 .. 34 : i \in n + 10 .. 55 => Cp(M, n - 1) = R[Order[n]]
  /\ i \in 47 .. 55 => Cp(M, 34) = Base
  /\ i \in 54 .. 55 => R["t6"] = <<"Safe_Activate", 0>>
  /\ i = 55 => Cp(M, 36) = <<"Safe_Activate", 0>>

LEMMA WordNames ==
  /\ \A n \in 1 .. 34 : Order[n] # "t5" /\ Order[n] # "t6"
  /\ \A n \in 1 .. 36 : Order[n] # "sp" \/ n = 7
  /\ Order[7] = "sp" /\ Order[35] = "t5" /\ Order[36] = "t6"
BY OrderIsOne, OrderList

LEMMA SaStep ==
  ASSUME NEW i \in 1 .. 59, NEW R, NEW M, NEW R2, NEW M2, NEW p2, NEW rec, NEW e,
         Called("Safe_Activate", e), Activates(i, R, M, e),
         Does(SaCode[i], R, M, <<"Safe_Activate", i>>, rec, R2, M2, p2)
  PROVE  p2 = <<"Safe_Activate", i + 1>> /\ Activates(i + 1, R2, M2, e)
<1>0. Top(e) = -2 /\ DOMAIN R = Reg /\ DOMAIN M = Places /\ Keeps(R, M, e)
  BY CalledTop DEF Activates, Keeps, Sound
<1>p. Succ(<<"Safe_Activate", i>>) = <<"Safe_Activate", i + 1>>
  BY DEF Succ
<1>s. R["sp"] = <<"stack", IF i \in 2 .. 59 THEN -6 ELSE -2>>
  BY DEF Activates
<1>1. CASE i = 1
  <2>1. Sets(R2, R, "sp", <<"stack", -6>>) /\ M2 = M /\ p2 = <<"Safe_Activate", i + 1>>
    BY <1>0, <1>p, <1>1, <1>s, SaText, Adds
  <2>2. Keeps(R2, M2, e)
    BY <1>0, <2>1, KeepsSets, KeptNames
  <2> QED BY <1>0, <1>1, <2>1, <2>2, Names, WordNames DEF Activates, Sets
<1>2. CASE i = 2
  <2>1. R2 = R /\ StackWrite(M2, M, -3, R["t5"]) /\ p2 = <<"Safe_Activate", i + 1>>
    BY <1>0, <1>p, <1>2, <1>s, SaText, OnStack DEF Stacks
  <2>2. Keeps(R2, M2, e)
    BY <1>0, <2>1, KeepsStack DEF Stacks
  <2> QED BY <1>0, <1>2, <2>1, <2>2 DEF Activates, StackWrite, SameCopy, SameCheck, Stacks, Words
<1>3. CASE i = 3
  <2>1. R2 = R /\ StackWrite(M2, M, -4, R["t6"]) /\ p2 = <<"Safe_Activate", i + 1>>
    BY <1>0, <1>p, <1>3, <1>s, SaText, OnStack DEF Stacks
  <2>2. Keeps(R2, M2, e)
    BY <1>0, <2>1, KeepsStack DEF Stacks
  <2> QED BY <1>0, <1>3, <2>1, <2>2 DEF Activates, StackWrite, SameCopy, SameCheck, Stacks, Words
<1>4. CASE i = 4
  <2>1. Sets(R2, R, "t5", Base) /\ M2 = M /\ p2 = <<"Safe_Activate", i + 1>>
    BY <1>0, <1>p, <1>4, SaText, InRegisters
  <2>2. Keeps(R2, M2, e)
    BY <1>0, <2>1, KeepsSets, KeptNames
  <2> QED BY <1>0, <1>4, <2>1, <2>2, Names, WordNames DEF Activates, Sets
<1>5. ASSUME NEW n \in 1 .. 5, i = 3 + 2 * n
      PROVE  p2 = <<"Safe_Activate", i + 1>> /\ Activates(i + 1, R2, M2, e)
  <2>1. Sets(R2, R, "t6", R[Order[n]]) /\ M2 = M /\ p2 = <<"Safe_Activate", i + 1>>
    BY <1>0, <1>p, <1>5, SaText, InRegisters
  <2>2. Keeps(R2, M2, e)
    BY <1>0, <2>1, KeepsSets, KeptNames
  <2> QED BY <1>0, <1>5, <2>1, <2>2, Names, WordNames DEF Activates, Sets
<1>6. ASSUME NEW n \in 1 .. 5, i = 4 + 2 * n
      PROVE  p2 = <<"Safe_Activate", i + 1>> /\ Activates(i + 1, R2, M2, e)
  <2>1. R["t5"] = <<"copy", 0>> /\ 0 + (n - 1) = n - 1 /\ n - 1 \in Words
    BY <1>6 DEF Activates, Base, Words
  <2>2. R2 = R /\ CopyWrite(M2, M, n - 1, R["t6"]) /\ p2 = <<"Safe_Activate", i + 1>>
    BY <1>0, <1>p, <1>6, <2>1, SaText, OnCopy
  <2>3. Keeps(R2, M2, e)
    BY <1>0, <2>2, KeepsElse DEF CopyWrite
  <2> QED BY <1>0, <1>6, <2>2, <2>3 DEF Activates, CopyWrite, Words, Stacks, SameStack, SameCopy, SameCheck
<1>7. ASSUME NEW n \in 6 .. 34, i = n + 9
      PROVE  p2 = <<"Safe_Activate", i + 1>> /\ Activates(i + 1, R2, M2, e)
  <2>1. R["t5"] = <<"copy", 0>> /\ 0 + (n - 1) = n - 1 /\ n - 1 \in Words
    BY <1>7 DEF Activates, Base, Words
  <2>2. R2 = R /\ CopyWrite(M2, M, n - 1, R[Order[n]]) /\ p2 = <<"Safe_Activate", i + 1>>
    BY <1>0, <1>p, <1>7, <2>1, SaText, OnCopy
  <2>3. Keeps(R2, M2, e)
    BY <1>0, <2>2, KeepsElse DEF CopyWrite
  <2> QED BY <1>0, <1>7, <2>2, <2>3 DEF Activates, CopyWrite, Words, Stacks, SameStack, SameCopy, SameCheck
<1>8. CASE i = 44
  <2>1. R2 = R /\ StackWrite(M2, M, -3, R["t5"]) /\ p2 = <<"Safe_Activate", i + 1>>
    BY <1>0, <1>p, <1>8, <1>s, SaText, OnStack DEF Stacks
  <2>2. Keeps(R2, M2, e)
    BY <1>0, <2>1, KeepsStack DEF Stacks
  <2> QED BY <1>0, <1>8, <2>1, <2>2 DEF Activates, StackWrite, SameCopy, SameCheck, Stacks, Words
<1>9. CASE i = 45
  <2>1. Sets(R2, R, "t6", St(M, -3)) /\ M2 = M /\ p2 = <<"Safe_Activate", i + 1>>
    BY <1>0, <1>p, <1>9, <1>s, SaText, OnStack DEF Stacks
  <2>2. Keeps(R2, M2, e)
    BY <1>0, <2>1, KeepsSets, KeptNames
  <2> QED BY <1>0, <1>9, <2>1, <2>2, Names, WordNames DEF Activates, Sets, Stacks
<1>10. CASE i = 46
  <2>1. R["t5"] = <<"copy", 0>> /\ 0 + (34) = 34 /\ 34 \in Words
    BY <1>10 DEF Activates, Base, Words
  <2>2. R2 = R /\ CopyWrite(M2, M, 34, R["t5"]) /\ p2 = <<"Safe_Activate", i + 1>>
    BY <1>0, <1>p, <1>10, <2>1, SaText, OnCopy
  <2>3. Keeps(R2, M2, e)
    BY <1>0, <2>2, KeepsElse DEF CopyWrite
  <2> QED BY <1>0, <1>10, <2>2, <2>3 DEF Activates, CopyWrite, Words, Stacks, SameStack, SameCopy, SameCheck
<1>11. CASE i = 47
  <2>1. Sets(R2, R, "t6", St(M, -4)) /\ M2 = M /\ p2 = <<"Safe_Activate", i + 1>>
    BY <1>0, <1>p, <1>11, <1>s, SaText, OnStack DEF Stacks
  <2>2. Keeps(R2, M2, e)
    BY <1>0, <2>1, KeepsSets, KeptNames
  <2> QED BY <1>0, <1>11, <2>1, <2>2, Names, WordNames DEF Activates, Sets, Stacks
<1>12. CASE i = 48
  <2>1. R["t5"] = <<"copy", 0>> /\ 0 + (35) = 35 /\ 35 \in Words
    BY <1>12 DEF Activates, Base, Words
  <2>2. R2 = R /\ CopyWrite(M2, M, 35, R["t6"]) /\ p2 = <<"Safe_Activate", i + 1>>
    BY <1>0, <1>p, <1>12, <2>1, SaText, OnCopy
  <2>3. Keeps(R2, M2, e)
    BY <1>0, <2>2, KeepsElse DEF CopyWrite
  <2> QED BY <1>0, <1>12, <2>2, <2>3 DEF Activates, CopyWrite, Words, Stacks, SameStack, SameCopy, SameCheck
<1>13. CASE i = 49
  <2>1. Sets(R2, R, "t5", Device) /\ M2 = M /\ p2 = <<"Safe_Activate", i + 1>>
    BY <1>0, <1>p, <1>13, SaText, InRegisters
  <2>2. Keeps(R2, M2, e)
    BY <1>0, <2>1, KeepsSets, KeptNames
  <2> QED BY <1>0, <1>13, <2>1, <2>2, Names, WordNames DEF Activates, Sets
<1>14. CASE i = 50
  <2>1. Sets(R2, R, "t6", Device) /\ M2 = M /\ p2 = <<"Safe_Activate", i + 1>>
    BY <1>0, <1>p, <1>14, SaText, InRegisters
  <2>2. Keeps(R2, M2, e)
    BY <1>0, <2>1, KeepsSets, KeptNames
  <2> QED BY <1>0, <1>14, <2>1, <2>2, Names, WordNames DEF Activates, Sets
<1>15. CASE i = 51
  <2>1. Sets(R2, R, "t5", Base) /\ M2 = M /\ p2 = <<"Safe_Activate", i + 1>>
    BY <1>0, <1>p, <1>15, SaText, InRegisters
  <2>2. Keeps(R2, M2, e)
    BY <1>0, <2>1, KeepsSets, KeptNames
  <2> QED BY <1>0, <1>15, <2>1, <2>2, Names, WordNames DEF Activates, Sets
<1>16. CASE i = 52
  <2>1. R2 = R /\ M2 = M /\ p2 = <<"Safe_Activate", i + 1>>
    BY <1>p, <1>16, SaText, Jumping
  <2> QED BY <1>16, <2>1 DEF Activates
<1>17. CASE i = 53
  <2>1. Sets(R2, R, "t6", <<"Safe_Activate", 0>>) /\ M2 = M /\ p2 = <<"Safe_Activate", i + 1>>
    BY <1>0, <1>p, <1>17, SaText, InRegisters
  <2>2. Keeps(R2, M2, e)
    BY <1>0, <2>1, KeepsSets, KeptNames
  <2> QED BY <1>0, <1>17, <2>1, <2>2, Names, WordNames DEF Activates, Sets
<1>18. CASE i = 54
  <2>1. R["t5"] = <<"copy", 0>> /\ 0 + (36) = 36 /\ 36 \in Words
    BY <1>18 DEF Activates, Base, Words
  <2>2. R2 = R /\ CopyWrite(M2, M, 36, R["t6"]) /\ p2 = <<"Safe_Activate", i + 1>>
    BY <1>0, <1>p, <1>18, <2>1, SaText, OnCopy
  <2>3. Keeps(R2, M2, e)
    BY <1>0, <2>2, KeepsElse DEF CopyWrite
  <2> QED BY <1>0, <1>18, <2>2, <2>3 DEF Activates, CopyWrite, Words, Stacks, SameStack, SameCopy, SameCheck
<1>19. CASE i = 55
  BY <1>19, SaText, NotOrdinary, Ops DEF Does
<1>20. CASE i = 56
  <2>1. Sets(R2, R, "t5", Device) /\ M2 = M /\ p2 = <<"Safe_Activate", i + 1>>
    BY <1>0, <1>p, <1>20, SaText, InRegisters
  <2>2. Keeps(R2, M2, e)
    BY <1>0, <2>1, KeepsSets, KeptNames
  <2> QED BY <1>0, <1>20, <2>1, <2>2, Names, WordNames DEF Activates, Sets
<1>21. CASE i = 57
  <2>1. Sets(R2, R, "t6", St(M, -4)) /\ M2 = M /\ p2 = <<"Safe_Activate", i + 1>>
    BY <1>0, <1>p, <1>21, <1>s, SaText, OnStack DEF Stacks
  <2>2. Keeps(R2, M2, e)
    BY <1>0, <2>1, KeepsSets, KeptNames
  <2> QED BY <1>0, <1>21, <2>1, <2>2, Names, WordNames DEF Activates, Sets, Stacks
<1>22. CASE i = 58
  <2>1. Sets(R2, R, "t5", St(M, -3)) /\ M2 = M /\ p2 = <<"Safe_Activate", i + 1>>
    BY <1>0, <1>p, <1>22, <1>s, SaText, OnStack DEF Stacks
  <2>2. Keeps(R2, M2, e)
    BY <1>0, <2>1, KeepsSets, KeptNames
  <2> QED BY <1>0, <1>22, <2>1, <2>2, Names, WordNames DEF Activates, Sets, Stacks
<1>23. CASE i = 59
  <2>1. Sets(R2, R, "sp", <<"stack", -2>>) /\ M2 = M /\ p2 = <<"Safe_Activate", i + 1>>
    BY <1>0, <1>p, <1>23, <1>s, SaText, Adds
  <2>2. Keeps(R2, M2, e)
    BY <1>0, <2>1, KeepsSets, KeptNames
  <2> QED BY <1>0, <1>23, <2>1, <2>2, Names, WordNames DEF Activates, Sets
<1>24. \/ i \in 1 .. 4 \/ i \in 44 .. 59
       \/ \E n \in 1 .. 5 : i = 3 + 2 * n \/ i = 4 + 2 * n
       \/ \E n \in 6 .. 34 : i = n + 9
  OBVIOUS
<1> QED BY <1>1, <1>2, <1>3, <1>4, <1>5, <1>6, <1>7, <1>8, <1>9, <1>10, <1>11, <1>12, <1>13, <1>14,
           <1>15, <1>16, <1>17, <1>18, <1>19, <1>20, <1>21, <1>22, <1>23, <1>24

(***************************************************************************)
(* What holds before the i-th instruction of each routine, of the harts'   *)
(* registers R and the memory M: of main,                                  *)
(***************************************************************************)
Runs(i, R, M) == Sound(R, M) /\ R["sp"] = <<"stack", MainTop(i)>>

(***************************************************************************)
(* of Store_Checkpoint, called with e.  Where a repair can interrupt it,   *)
(* what is below the stack pointer is lost, so the copies are the matter   *)
(* of the dual mode.                                                       *)
(***************************************************************************)
Walked(R) == R["t2"][2]

\* The place after the one where the n-th register has been stored.
StoredAt(n) == CASE n \in 1 .. 5   -> 21 + 2 * n
                 [] n \in 6 .. 7   -> 26 + n
                 [] n \in 8 .. 11  -> 27 + n
                 [] n = 12         -> 40
                 [] n \in 13 .. 32 -> 28 + n
                 [] n = 33         -> 62
                 [] n = 34         -> 64
                 [] n = 35         -> 68
                 [] n = 36         -> 70

StackCopied(M, e, a) == Cp(M, 37 + a - Top(e)) = e.stack[a]

Worked == {"sp", "t2", "t3", "t4", "t5", "t6"}
CopyRegs(i, R, e) ==
  /\ \A r \in Vis : r \notin Worked => R[r] = e.reg[r]
  /\ i \in 1 .. 7 => \A r \in Worked : r = "sp" \/ R[r] = e.reg[r]
  /\ i = 15 => R["t6"] = e.stack[Walked(R)]
  /\ \A n \in 1 .. 5 : i = 20 + 2 * n => R["t6"] = e.reg[Order[n]]
  /\ i = 65 => R["t6"] = <<"Store_Checkpoint", 0>>
  /\ i = 39 \/ i >= 71 => R["t2"] = e.reg["t2"]
  /\ i = 61 \/ i >= 72 => R["t3"] = e.reg["t3"]
  /\ i = 63 \/ i >= 73 => R["t4"] = e.reg["t4"]
  /\ i = 67 => R["t6"] = e.reg["t5"]
  /\ i >= 74 => R["t5"] = e.reg["t5"]
  /\ i = 69 \/ i >= 75 => R["t6"] = e.reg["t6"]
CopySlots(i, M, e) ==
  /\ i \in 3 .. 75 => St(M, Top(e) - 1) = e.reg["t2"]
  /\ i \in 4 .. 75 => St(M, Top(e) - 2) = e.reg["t3"]
  /\ i \in 5 .. 75 => St(M, Top(e) - 3) = e.reg["t4"]
  /\ i \in 6 .. 75 => St(M, Top(e) - 4) = e.reg["t5"]
  /\ i \in 7 .. 75 => St(M, Top(e) - 5) = e.reg["t6"]
CopyStack(i, R, M, e) ==
  /\ i \in {13, 14, 15, 19} => \A a \in Top(e) .. 0 : a < Walked(R) => StackCopied(M, e, a)
  /\ i \in 16 .. 18 => \A a \in Top(e) .. 0 : a <= Walked(R) => StackCopied(M, e, a)
  /\ i >= 20 /\ Top(e) # 0 => \A a \in Top(e) .. 0 : StackCopied(M, e, a)
CopyWords(i, M, e) ==
  /\ \A n \in 1 .. 36 : i >= StoredAt(n) => Cp(M, n - 1) = e.reg[Order[n]]
  /\ i >= 66 => Cp(M, 36) = <<"Store_Checkpoint", 0>>
Copies(i, R, M, e) ==
  CopyRegs(i, R, e) /\ CopySlots(i, M, e) /\ CopyStack(i, R, M, e) /\ CopyWords(i, M, e)

Frame(i, R, e) ==
  /\ R["sp"] = <<"stack", IF i \in 2 .. 9 \cup 34 .. 75 THEN Top(e) - 7 ELSE Top(e)>>
  /\ i \in 8 .. 20 => R["t4"] = StackStart
  /\ i \in 9 .. 69 => R["t5"] = Base
  /\ i \in 11 .. 19 => R["t2"] = <<"stack", Walked(R)>> /\ Walked(R) \in Top(e) .. 0
  /\ i \in {11, 12} => Walked(R) = Top(e)
  /\ i \in {12, 17, 18} => Walked(R) # 0
  /\ i = 19 => Walked(R) # Top(e)
  /\ i \in 13 .. 17 \cup {19} => R["t3"] = <<"copy", 37 + Walked(R) - Top(e)>>
  /\ i = 18 => R["t3"] = <<"copy", 38 + Walked(R) - Top(e)>>

Checkpoints(i, R, M, e, m) ==
  Keeps(R, M, e) /\ Frame(i, R, e) /\ (m = "DCLS" => Copies(i, R, M, e))

\* The saved state is the registers and the stack s.
Saved(M, s) ==
  /\ \A n \in 1 .. 36 : Cp(M, n - 1) = s.reg[Order[n]]
  /\ Cp(M, 36) = <<"Store_Checkpoint", 0>>
  /\ Top(s) # 0 => \A a \in Top(s) .. 0 : StackCopied(M, s, a)

(***************************************************************************)
(* of Check_RF, called with e,                                             *)
(***************************************************************************)
Records(i, R, M, e) ==
  /\ Keeps(R, M, e)
  /\ R["sp"] = <<"stack", IF i \in 2 .. 44 THEN Top(e) - 5 ELSE Top(e)>>
  /\ \A n \in 6 .. 34 : n \notin {7, 19, 20} => R[Order[n]] = e.reg[Order[n]]
  /\ i <= 4 => R["t5"] = e.reg["t5"] /\ R["t6"] = e.reg["t6"]
  /\ i \in 4 .. 44 => St(M, Top(e) - 2) = e.reg["t5"]
  /\ i \in 5 .. 44 => St(M, Top(e) - 3) = e.reg["t6"]
  /\ i \in 8 .. 40 => R["t6"] = Check
  /\ i = 39 => R["t5"] = e.reg["t5"]
  /\ i \in 41 .. 42 => R["t6"] = e.reg["t6"]
  /\ i = 42 => R["t5"] = Check
  /\ i >= 9 => Ck(M, 0) = e.reg["ra"]
  /\ \A n \in 8 .. 34 : i >= n + 4 /\ n \notin {19, 20} => Ck(M, n - 6) = e.reg[Order[n]]
  /\ i >= 40 => Ck(M, 29) = e.reg["t5"]
  /\ i >= 43 => Ck(M, 30) = e.reg["t6"]

(***************************************************************************)
(* of the handler that interrupts Safe_Activate, called with e,            *)
(***************************************************************************)
Wakes(i, R, M, e) ==
  /\ Keeps(R, M, e)
  /\ R["sp"] = <<"stack", IF i \in 2 .. 8 THEN -10 ELSE -6>>
  /\ R["mepc"] = <<"Safe_Activate", 56>>

(***************************************************************************)
(* of the repair of the registers and the stack b,                         *)
(***************************************************************************)
HealRegs(i, R, b) ==
  /\ R["sp"] = <<"stack", IF i \in 2 .. 92 THEN Top(b) - 4 ELSE Top(b)>>
  /\ \A r \in Vis : r # "sp" /\ r # "t6" /\ r # "a4" /\ r # "a5" => R[r] = b.reg[r]
  /\ i \notin 40 .. 89 => R["t6"] = b.reg["t6"]
  /\ i \notin {5, 6} => R["a4"] = b.reg["a4"]
  /\ i \notin {6, 7, 91} => R["a5"] = b.reg["a5"]
  /\ \A n \in 1 .. 5 : i = 38 + 2 * n \/ i = 48 + 2 * n => R["t6"] = b.reg[Order[n]]
HealWord(n, b) == IF n = 7 THEN <<"stack", Top(b) - 4>> ELSE b.reg[Order[n]]
HealSlots(i, M, b) ==
  /\ i >= 3 => St(M, Top(b) - 1) = b.reg["a4"]
  /\ i >= 4 => St(M, Top(b) - 2) = b.reg["a5"]
  /\ \A n \in 6 .. 36 : i >= n + 3 => St(M, Top(b) + 1 - n) = HealWord(n, b)
  /\ \A n \in 1 .. 5 : i >= 39 + 2 * n => St(M, Top(b) - 35 - n) = b.reg[Order[n]]
HealStack(M, b) == \A a \in Top(b) .. 0 : St(M, a) = b.stack[a]
Heals(i, R, M, b) == Sound(R, M) /\ HealRegs(i, R, b) /\ HealSlots(i, M, b) /\ HealStack(M, b)

\* Harts whose registers are the same.
Alike(Q, R) == \A r \in Vis : Q[r] = R[r]

\* A hart with the registers Q, which the fault had hit, has these again.
Mended(i, Q, R) ==
  /\ i >= 50 => Q["t6"] = R["t6"]
  /\ \A n \in 1 .. 5 : i >= 49 + 2 * n => Q[Order[n]] = R[Order[n]]
  /\ \A n \in 6 .. 36 : i >= n + 54 => Q[Order[n]] = R[Order[n]]

(***************************************************************************)
(* and of the ROM: what it has loaded from the saved state.                *)
(***************************************************************************)
LoadedAt(n) == CASE n \in 1 .. 5   -> 2 * n + 2
                 [] n \in 6 .. 9   -> n + 7
                 [] n \in 10 .. 34 -> n + 10
                 [] n = 35         -> 48
                 [] n = 36         -> 47

BootWords(i, R, M) ==
  /\ \A n \in 1 .. 9 : i >= LoadedAt(n) /\ (n = 7 => i \notin 53 .. 61) => R[Order[n]] = Cp(M, n - 1)
  /\ \A n \in 10 .. 36 : i \in LoadedAt(n) .. 48 => R[Order[n]] = Cp(M, n - 1)
BootRest(i, R, M) ==
  /\ i \in 2 .. 47 \cup 49 .. 62 => R["t5"] = Base
  /\ \A n \in 1 .. 5 : i = 2 * n + 1 => R["t6"] = Cp(M, n - 1)
  /\ i = 45 => R["t6"] = Cp(M, 36)
  /\ i \in 46 .. 48 => R["dpc"] = Cp(M, 36)
Boots(i, R, M) == Sound(R, M) /\ BootWords(i, R, M) /\ BootRest(i, R, M)

\* Two harts have loaded the same.
Follows(i, Q, R) ==
  /\ \A n \in 1 .. 9 : i >= LoadedAt(n) => Q[Order[n]] = R[Order[n]]
  /\ \A n \in 10 .. 36 : i \in LoadedAt(n) .. 48 => Q[Order[n]] = R[Order[n]]
  /\ i >= 2 => Q["t5"] = R["t5"]
  /\ i >= 3 => Q["t6"] = R["t6"]
  /\ i \in 46 .. 48 => Q["dpc"] = R["dpc"]

\* A recovery of s restores the stack as well.
Restored(R) == R["sp"][2]
Recovers(i, R, M, s) ==
  /\ i \in 51 .. 61 => R["t1"] = StackStart
  /\ i \in 52 .. 59 => Top(s) # 0
  /\ i \in 53 .. 59 => R["sp"] = <<"stack", Restored(R)>> /\ Restored(R) \in Top(s) .. 0
  /\ i \in 53 .. 57 \cup {59} => R["t2"] = <<"copy", 37 + Restored(R) - Top(s)>>
  /\ i = 58 => R["t2"] = <<"copy", 38 + Restored(R) - Top(s)>>
  /\ i = 55 => R["t4"] = s.stack[Restored(R)]
  /\ i \in 57 .. 58 => Restored(R) # 0
  /\ i \in {53, 54, 55, 59} => \A a \in Top(s) .. 0 : a < Restored(R) => St(M, a) = s.stack[a]
  /\ i \in 56 .. 58 => \A a \in Top(s) .. 0 : a <= Restored(R) => St(M, a) = s.stack[a]
  /\ i \in 18 .. 48 \cup 60 .. 62 => \A a \in Top(s) .. 0 : St(M, a) = s.stack[a]

(***************************************************************************)
(* main: the routine that it calls at some of its places.                  *)
(***************************************************************************)
Calls == {5, 7, 11, 17, 21}

LEMMA RunsSets ==
  ASSUME NEW R, NEW M, NEW R2, NEW x, NEW v, Sound(R, M), Sets(R2, R, x, v)
  PROVE  Sound(R2, M)
BY DEF Sound, Sets

LEMMA RunsStack ==
  ASSUME NEW R, NEW M, NEW M2, NEW n \in Stacks, NEW v, Sound(R, M), StackWrite(M2, M, n, v), n # 0
  PROVE  Sound(R, M2)
BY DEF Sound, StackWrite, Stacks

LEMMA MainStep ==
  ASSUME NEW i \in 1 .. 24, i \notin Calls, NEW R, NEW M, NEW R2, NEW M2, NEW p2, NEW rec,
         Runs(i, R, M), Does(MnCode[i], R, M, <<"main", i>>, rec, R2, M2, p2)
  PROVE  p2 = <<"main", i + 1>> /\ Runs(i + 1, R2, M2) /\ SameCopy(M2, M)
<1>0. DOMAIN R = Reg /\ DOMAIN M = Places /\ Sound(R, M)
  BY DEF Runs, Sound
<1>p. Succ(<<"main", i>>) = <<"main", i + 1>>
  BY DEF Succ
<1>s. R["sp"] = <<"stack", MainTop(i)>>
  BY DEF Runs
<1>1. CASE i = 1
  <2>1. Sets(R2, R, "sp", <<"stack", -2>>) /\ M2 = M /\ p2 = <<"main", i + 1>>
    BY <1>0, <1>p, <1>1, MainText, <1>s, Adds DEF MainTop
  <2> QED BY <1>0, <1>1, <2>1, RunsSets, Names DEF Runs, Sets, MainTop, SameCopy
<1>2. CASE i = 2
  <2>1. R2 = R /\ StackWrite(M2, M, -1, R["ra"]) /\ p2 = <<"main", i + 1>>
    BY <1>0, <1>p, <1>2, <1>s, MainText, OnStack DEF Stacks, MainTop
  <2> QED BY <1>0, <1>2, <2>1, RunsStack DEF Runs, Stacks, MainTop, StackWrite
<1>3. CASE i = 3
  <2>1. R2 = R /\ StackWrite(M2, M, -2, R["s0"]) /\ p2 = <<"main", i + 1>>
    BY <1>0, <1>p, <1>3, <1>s, MainText, OnStack DEF Stacks, MainTop
  <2> QED BY <1>0, <1>3, <2>1, RunsStack DEF Runs, Stacks, MainTop, StackWrite
<1>4. CASE i \in {4, 6, 8, 10, 12, 20, 22}
  <2>1. R2 = Computed(R) /\ M2 = M /\ p2 = <<"main", i + 1>>
    BY <1>0, <1>p, <1>4, MainText, DoProgram DEF Does
  <2>2. R2["sp"] = R["sp"] /\ DOMAIN R2 = Reg
    BY <2>1, Names DEF Computed, Plain
  <2> QED BY <1>0, <1>4, <2>1, <2>2 DEF Runs, Sound, MainTop, SameCopy
<1>5. CASE i = 9
  <2>1. R2 = R /\ StackWrite(M2, M, -2, R["s0"]) /\ p2 = <<"main", i + 1>>
    BY <1>0, <1>p, <1>5, <1>s, MainText, OnStack DEF Stacks, MainTop
  <2> QED BY <1>0, <1>5, <2>1, RunsStack DEF Runs, Stacks, MainTop, StackWrite
<1>6. CASE i = 13
  <2>1. R2 = R /\ StackWrite(M2, M, -2, R["s1"]) /\ p2 = <<"main", i + 1>>
    BY <1>0, <1>p, <1>6, <1>s, MainText, OnStack DEF Stacks, MainTop
  <2> QED BY <1>0, <1>6, <2>1, RunsStack DEF Runs, Stacks, MainTop, StackWrite
<1>7. CASE i = 14
  <2>1. Sets(R2, R, "s0", St(M, -2)) /\ M2 = M /\ p2 = <<"main", i + 1>>
    BY <1>0, <1>p, <1>7, MainText, <1>s, OnStack DEF Stacks, MainTop
  <2> QED BY <1>0, <1>7, <2>1, RunsSets, Names DEF Runs, Sets, MainTop, SameCopy
<1>8. CASE i = 15
  <2>1. Sets(R2, R, "ra", St(M, -1)) /\ M2 = M /\ p2 = <<"main", i + 1>>
    BY <1>0, <1>p, <1>8, MainText, <1>s, OnStack DEF Stacks, MainTop
  <2> QED BY <1>0, <1>8, <2>1, RunsSets, Names DEF Runs, Sets, MainTop, SameCopy
<1>9. CASE i = 16
  <2>1. Sets(R2, R, "sp", <<"stack", 0>>) /\ M2 = M /\ p2 = <<"main", i + 1>>
    BY <1>0, <1>p, <1>9, MainText, <1>s, Adds DEF MainTop
  <2> QED BY <1>0, <1>9, <2>1, RunsSets, Names DEF Runs, Sets, MainTop, SameCopy
<1>10. CASE i = 18
  <2>1. Sets(R2, R, "sp", <<"stack", -2>>) /\ M2 = M /\ p2 = <<"main", i + 1>>
    BY <1>0, <1>p, <1>10, MainText, <1>s, Adds DEF MainTop
  <2> QED BY <1>0, <1>10, <2>1, RunsSets, Names DEF Runs, Sets, MainTop, SameCopy
<1>11. CASE i = 19
  <2>1. R2 = R /\ StackWrite(M2, M, -2, R["s0"]) /\ p2 = <<"main", i + 1>>
    BY <1>0, <1>p, <1>11, <1>s, MainText, OnStack DEF Stacks, MainTop
  <2> QED BY <1>0, <1>11, <2>1, RunsStack DEF Runs, Stacks, MainTop, StackWrite
<1>12. CASE i = 23
  <2>1. R2 = R /\ StackWrite(M2, M, -1, R["s1"]) /\ p2 = <<"main", i + 1>>
    BY <1>0, <1>p, <1>12, <1>s, MainText, OnStack DEF Stacks, MainTop
  <2> QED BY <1>0, <1>12, <2>1, RunsStack DEF Runs, Stacks, MainTop, StackWrite
<1>13. CASE i = 24
  <2>1. Sets(R2, R, "sp", <<"stack", 0>>) /\ M2 = M /\ p2 = <<"main", i + 1>>
    BY <1>0, <1>p, <1>13, MainText, <1>s, Adds DEF MainTop
  <2> QED BY <1>0, <1>13, <2>1, RunsSets, Names DEF Runs, Sets, MainTop, SameCopy
<1>14. i \in 1 .. 4 \cup {6} \cup 8 .. 10 \cup 12 .. 16 \cup 18 .. 20 \cup 22 .. 24
  BY DEF Calls
<1> QED BY <1>1, <1>2, <1>3, <1>4, <1>5, <1>6, <1>7, <1>8, <1>9, <1>10, <1>11, <1>12, <1>13, <1>14

LEMMA MainCalls ==
  ASSUME NEW i \in Calls, NEW R, NEW M, NEW R2, NEW M2, NEW p2, NEW rec,
         Runs(i, R, M), Does(MnCode[i], R, M, <<"main", i>>, rec, R2, M2, p2)
  PROVE  /\ p2 = <<MnCode[i][2], 1>> /\ M2 = M /\ Sound(R2, M)
         /\ Called(MnCode[i][2], State(R2, M))
         /\ MnCode[i][2] = CASE i = 5 -> "Safe_Activate" [] i = 21 -> "Check_RF" [] OTHER -> "Store_Checkpoint"
<1>1. PICK f : MnCode[i] = call(f) /\ f = CASE i = 5 -> "Safe_Activate" [] i = 21 -> "Check_RF" [] OTHER -> "Store_Checkpoint"
  BY MainText DEF Calls
<1>2. MnCode[i][2] = f
  BY <1>1 DEF call
<1>3. Sets(R2, R, "ra", <<"main", i + 1>>) /\ M2 = M /\ p2 = <<f, 1>>
  BY <1>1, DoProgram DEF Does, Succ
<1>4. Sound(R2, M)
  BY <1>3, RunsSets DEF Runs
<1>5. R2["ra"] = <<"main", i + 1>> /\ R2["sp"] = <<"stack", MainTop(i)>> /\ MainTop(i) \in {-2, 0}
      /\ MainTop(i + 1) = MainTop(i) /\ i + 1 \in Returns[f]
  BY <1>1, <1>3, Names DEF Runs, Sound, Sets, Returns, MainTop, Calls
<1>6. State(R2, M).reg = [r \in Vis |-> R2[r]]
      /\ State(R2, M).stack = [a \in R2["sp"][2] .. 0 |-> St(M, a)]
  BY DEF State, Visible, Live, St, Vis
<1>7. State(R2, M).reg["ra"] = <<"main", i + 1>> /\ State(R2, M).reg["sp"] = <<"stack", MainTop(i + 1)>>
      /\ Top(State(R2, M)) = R2["sp"][2] /\ DOMAIN State(R2, M).reg = Vis
  BY <1>5, <1>6, Names DEF Top
<1>8. State(R2, M).stack[0] = <<"word", 0>>
      /\ State(R2, M).stack = [a \in R2["sp"][2] .. 0 |-> State(R2, M).stack[a]]
  BY <1>4, <1>5, <1>6 DEF Sound
<1>9. Called(f, State(R2, M))
  BY <1>5, <1>7, <1>8 DEF Called
<1> QED BY <1>1, <1>2, <1>3, <1>4, <1>9

\* A routine begins with what its caller has.
LEMMA Begins ==
  ASSUME NEW R, NEW M, NEW m, NEW f \in {"Safe_Activate", "Store_Checkpoint", "Check_RF"}, Sound(R, M),
         Called(f, State(R, M))
  PROVE  /\ f = "Safe_Activate" => Activates(1, R, M, State(R, M))
         /\ f = "Store_Checkpoint" => Checkpoints(1, R, M, State(R, M), m)
         /\ f = "Check_RF" => Records(1, R, M, State(R, M))
<1> DEFINE e == State(R, M)
<1>1. e.reg = [r \in Vis |-> R[r]] /\ e.stack = [a \in R["sp"][2] .. 0 |-> St(M, a)]
  BY DEF State, Visible, Live, St, Vis
<1>2. Top(e) = R["sp"][2] /\ Top(e) \in {-2, 0} /\ R["sp"] = <<"stack", Top(e)>>
      /\ (f = "Safe_Activate" => Top(e) = -2)
  BY <1>1, CalledTop, Names DEF Top
<1>3. Keeps(R, M, e)
  BY <1>1, <1>2, KeptNames DEF Keeps
<1> HIDE DEF e
<1>4. f = "Safe_Activate" => Activates(1, R, M, e)
  BY <1>2, <1>3 DEF Activates
<1>5. f = "Store_Checkpoint" => Checkpoints(1, R, M, e, m)
  <2>1. \A n \in 1 .. 36 : ~(1 >= StoredAt(n))
    BY DEF StoredAt
  <2>2. Worked \subseteq Vis /\ \A r \in Vis : R[r] = e.reg[r]
    BY <1>1, Names DEF Worked
  <2>3. ~(1 \in 16 .. 18) /\ ~(1 \in {13, 14, 15, 19}) /\ ~(1 >= 20) /\ \A n \in 1 .. 5 : 1 # 20 + 2 * n
    OBVIOUS
  <2>4. Copies(1, R, M, e)
    BY <2>1, <2>2, <2>3 DEF Copies, CopyRegs, CopySlots, CopyStack, CopyWords
  <2> QED BY <1>2, <1>3, <2>4 DEF Checkpoints, Frame
<1>6. f = "Check_RF" => Records(1, R, M, e)
  BY <1>1, <1>2, <1>3, Names DEF Records
<1> QED BY <1>4, <1>5, <1>6 DEF e

(***************************************************************************)
(* The handler that interrupts Safe_Activate.                              *)
(***************************************************************************)
LEMMA FsmStep ==
  ASSUME NEW i \in 1 .. 8, NEW R, NEW M, NEW R2, NEW M2, NEW p2, NEW rec, NEW e,
         Called("Safe_Activate", e), Wakes(i, R, M, e),
         Does(FsmCode[i], R, M, <<"handler_safe_fsm", i>>, rec, R2, M2, p2)
  PROVE  p2 = <<"handler_safe_fsm", i + 1>> /\ Wakes(i + 1, R2, M2, e)
<1>0. Top(e) = -2 /\ DOMAIN R = Reg /\ DOMAIN M = Places /\ Keeps(R, M, e)
  BY CalledTop DEF Wakes, Keeps, Sound
<1>p. Succ(<<"handler_safe_fsm", i>>) = <<"handler_safe_fsm", i + 1>>
  BY DEF Succ
<1>s. R["sp"] = <<"stack", IF i \in 2 .. 8 THEN -10 ELSE -6>>
  BY DEF Wakes
<1>1. CASE i = 1
  <2>1. Sets(R2, R, "sp", <<"stack", -10>>) /\ M2 = M /\ p2 = <<"handler_safe_fsm", i + 1>>
    BY <1>0, <1>p, <1>1, <1>s, FsmText, Adds
  <2>2. Keeps(R2, M2, e)
    BY <1>0, <2>1, KeepsSets, KeptNames
  <2> QED BY <1>0, <1>1, <2>1, <2>2, Names DEF Wakes, Sets
<1>2. CASE i = 2
  <2>1. R2 = R /\ StackWrite(M2, M, -7, R["t5"]) /\ p2 = <<"handler_safe_fsm", i + 1>>
    BY <1>0, <1>p, <1>2, <1>s, FsmText, OnStack DEF Stacks
  <2>2. Keeps(R2, M2, e)
    BY <1>0, <2>1, KeepsStack DEF Stacks
  <2> QED BY <1>0, <1>2, <2>1, <2>2 DEF Wakes, StackWrite, SameCopy, SameCheck, Stacks, Words
<1>3. CASE i = 3
  <2>1. R2 = R /\ StackWrite(M2, M, -8, R["t6"]) /\ p2 = <<"handler_safe_fsm", i + 1>>
    BY <1>0, <1>p, <1>3, <1>s, FsmText, OnStack DEF Stacks
  <2>2. Keeps(R2, M2, e)
    BY <1>0, <2>1, KeepsStack DEF Stacks
  <2> QED BY <1>0, <1>3, <2>1, <2>2 DEF Wakes, StackWrite, SameCopy, SameCheck, Stacks, Words
<1>4. CASE i = 4
  <2>1. Sets(R2, R, "t5", Device) /\ M2 = M /\ p2 = <<"handler_safe_fsm", i + 1>>
    BY <1>0, <1>p, <1>4, FsmText, InRegisters
  <2>2. Keeps(R2, M2, e)
    BY <1>0, <2>1, KeepsSets, KeptNames
  <2> QED BY <1>0, <1>4, <2>1, <2>2, Names DEF Wakes, Sets
<1>5. CASE i = 5
  <2>1. Sets(R2, R, "t6", Device) /\ M2 = M /\ p2 = <<"handler_safe_fsm", i + 1>>
    BY <1>0, <1>p, <1>5, FsmText, InRegisters
  <2>2. Keeps(R2, M2, e)
    BY <1>0, <2>1, KeepsSets, KeptNames
  <2> QED BY <1>0, <1>5, <2>1, <2>2, Names DEF Wakes, Sets
<1>6. CASE i = 6
  <2>1. Sets(R2, R, "t5", St(M, -7)) /\ M2 = M /\ p2 = <<"handler_safe_fsm", i + 1>>
    BY <1>0, <1>p, <1>6, <1>s, FsmText, OnStack DEF Stacks
  <2>2. Keeps(R2, M2, e)
    BY <1>0, <2>1, KeepsSets, KeptNames
  <2> QED BY <1>0, <1>6, <2>1, <2>2, Names DEF Wakes, Sets, Stacks
<1>7. CASE i = 7
  <2>1. Sets(R2, R, "t6", St(M, -8)) /\ M2 = M /\ p2 = <<"handler_safe_fsm", i + 1>>
    BY <1>0, <1>p, <1>7, <1>s, FsmText, OnStack DEF Stacks
  <2>2. Keeps(R2, M2, e)
    BY <1>0, <2>1, KeepsSets, KeptNames
  <2> QED BY <1>0, <1>7, <2>1, <2>2, Names DEF Wakes, Sets, Stacks
<1>8. CASE i = 8
  <2>1. Sets(R2, R, "sp", <<"stack", -6>>) /\ M2 = M /\ p2 = <<"handler_safe_fsm", i + 1>>
    BY <1>0, <1>p, <1>8, <1>s, FsmText, Adds
  <2>2. Keeps(R2, M2, e)
    BY <1>0, <2>1, KeepsSets, KeptNames
  <2> QED BY <1>0, <1>8, <2>1, <2>2, Names DEF Wakes, Sets
<1>9. i \in 1 .. 8
  OBVIOUS
<1> QED BY <1>1, <1>2, <1>3, <1>4, <1>5, <1>6, <1>7, <1>8, <1>9

(***************************************************************************)
(* Check_RF.                                                               *)
(***************************************************************************)
LEMMA RecordNames ==
  /\ \A n \in 6 .. 34 : n \notin {7, 19, 20} =>
       /\ Order[n] # "sp" /\ Order[n] # "a4" /\ Order[n] # "a5" /\ Order[n] # "t5" /\ Order[n] # "t6"
       /\ Order[n] \in Vis
  /\ Order[6] = "ra"
BY OrderIsOne, OrderList, Names

LEMMA CrStep ==
  ASSUME NEW i \in 1 .. 44, NEW R, NEW M, NEW R2, NEW M2, NEW p2, NEW rec, NEW e,
         Called("Check_RF", e), Records(i, R, M, e),
         Does(CrCode[i], R, M, <<"Check_RF", i>>, rec, R2, M2, p2)
  PROVE  p2 = <<"Check_RF", i + 1>> /\ Records(i + 1, R2, M2, e) /\ SameCopy(M2, M)
<1>0. Top(e) = -2 /\ DOMAIN R = Reg /\ DOMAIN M = Places /\ Keeps(R, M, e)
  BY CalledTop DEF Records, Keeps, Sound
<1>p. Succ(<<"Check_RF", i>>) = <<"Check_RF", i + 1>>
  BY DEF Succ
<1>s. R["sp"] = <<"stack", IF i \in 2 .. 44 THEN -7 ELSE -2>>
  BY <1>0 DEF Records
<1>1. CASE i = 1
  <2>1. CrCode[i] = addi("sp", "sp", -5) /\ R["sp"] = <<"stack", -2>>
    BY <1>0, <1>1, <1>s, CrText
  <2>2. Sets(R2, R, "sp", <<"stack", -2 + -5>>) /\ M2 = M /\ p2 = <<"Check_RF", i + 1>>
    BY <1>p, <2>1, Adds
  <2>3. Keeps(R2, M2, e)
    BY <1>0, <2>2, KeepsSets, KeptNames
  <2> QED BY <1>0, <1>1, <2>2, <2>3, Names, RecordNames DEF Records, Sets, SameCopy
<1>2. CASE i = 2
  <2>1. R2 = R /\ StackWrite(M2, M, -3, R["t4"]) /\ p2 = <<"Check_RF", i + 1>>
    BY <1>0, <1>p, <1>2, <1>s, CrText, OnStack DEF Stacks
  <2>2. Keeps(R2, M2, e)
    BY <1>0, <2>1, KeepsStack DEF Stacks
  <2> QED BY <1>0, <1>2, <2>1, <2>2 DEF Records, StackWrite, SameCopy, SameCheck, Stacks, Words
<1>3. CASE i = 3
  <2>1. R2 = R /\ StackWrite(M2, M, -4, R["t5"]) /\ p2 = <<"Check_RF", i + 1>>
    BY <1>0, <1>p, <1>3, <1>s, CrText, OnStack DEF Stacks
  <2>2. Keeps(R2, M2, e)
    BY <1>0, <2>1, KeepsStack DEF Stacks
  <2> QED BY <1>0, <1>3, <2>1, <2>2 DEF Records, StackWrite, SameCopy, SameCheck, Stacks, Words
<1>4. CASE i = 4
  <2>1. R2 = R /\ StackWrite(M2, M, -5, R["t6"]) /\ p2 = <<"Check_RF", i + 1>>
    BY <1>0, <1>p, <1>4, <1>s, CrText, OnStack DEF Stacks
  <2>2. Keeps(R2, M2, e)
    BY <1>0, <2>1, KeepsStack DEF Stacks
  <2> QED BY <1>0, <1>4, <2>1, <2>2 DEF Records, StackWrite, SameCopy, SameCheck, Stacks, Words
<1>5. CASE i = 5
  <2>1. Sets(R2, R, "a4", St(M, -4)) /\ M2 = M /\ p2 = <<"Check_RF", i + 1>>
    BY <1>0, <1>p, <1>5, <1>s, CrText, OnStack DEF Stacks
  <2>2. Keeps(R2, M2, e)
    BY <1>0, <2>1, KeepsSets, KeptNames
  <2> QED BY <1>0, <1>5, <2>1, <2>2, Names, RecordNames DEF Records, Sets, Stacks, SameCopy
<1>6. CASE i = 6
  <2>1. Sets(R2, R, "a5", St(M, -5)) /\ M2 = M /\ p2 = <<"Check_RF", i + 1>>
    BY <1>0, <1>p, <1>6, <1>s, CrText, OnStack DEF Stacks
  <2>2. Keeps(R2, M2, e)
    BY <1>0, <2>1, KeepsSets, KeptNames
  <2> QED BY <1>0, <1>6, <2>1, <2>2, Names, RecordNames DEF Records, Sets, Stacks, SameCopy
<1>7. CASE i = 7
  <2>1. Sets(R2, R, "t6", Check) /\ M2 = M /\ p2 = <<"Check_RF", i + 1>>
    BY <1>0, <1>p, <1>7, CrText, InRegisters
  <2>2. Keeps(R2, M2, e)
    BY <1>0, <2>1, KeepsSets, KeptNames
  <2> QED BY <1>0, <1>7, <2>1, <2>2, Names, RecordNames DEF Records, Sets, SameCopy
<1>8. CASE i = 8
  <2>1. R["t6"] = <<"check", 0>> /\ 0 + (0) = 0 /\ 0 \in Words
    BY <1>8 DEF Records, Check, Words
  <2>2. R2 = R /\ CheckWrite(M2, M, 0, R["ra"]) /\ p2 = <<"Check_RF", i + 1>>
    BY <1>0, <1>p, <1>8, <2>1, CrText, OnCheck
  <2>3. Keeps(R2, M2, e)
    BY <1>0, <2>2, KeepsElse DEF CheckWrite
  <2> QED BY <1>0, <1>8, <2>2, <2>3, Names, RecordNames DEF Records, CheckWrite, Words, Stacks,
             SameStack, SameCopy, SameCheck
<1>9. CASE i = 9
  <2>1. CrCode[i] = addi("t5", "sp", 5) /\ R["sp"] = <<"stack", -7>>
    BY <1>0, <1>9, <1>s, CrText
  <2>2. Sets(R2, R, "t5", <<"stack", -7 + 5>>) /\ M2 = M /\ p2 = <<"Check_RF", i + 1>>
    BY <1>p, <2>1, Adds
  <2>3. Keeps(R2, M2, e)
    BY <1>0, <2>2, KeepsSets, KeptNames
  <2> QED BY <1>0, <1>9, <2>2, <2>3, Names, RecordNames DEF Records, Sets, SameCopy
<1>10. CASE i = 10
  <2>1. R["t6"] = <<"check", 0>> /\ 0 + (3) = 3 /\ 3 \in Words
    BY <1>10 DEF Records, Check, Words
  <2>2. R2 = R /\ CheckWrite(M2, M, 3, R["t5"]) /\ p2 = <<"Check_RF", i + 1>>
    BY <1>0, <1>p, <1>10, <2>1, CrText, OnCheck
  <2>3. Keeps(R2, M2, e)
    BY <1>0, <2>2, KeepsElse DEF CheckWrite
  <2> QED BY <1>0, <1>10, <2>2, <2>3, Names, RecordNames DEF Records, CheckWrite, Words, Stacks,
             SameStack, SameCopy, SameCheck
<1>11. ASSUME NEW n \in 8 .. 34, i = n + 3
      PROVE  p2 = <<"Check_RF", i + 1>> /\ Records(i + 1, R2, M2, e) /\ SameCopy(M2, M)
  <2>1. R["t6"] = <<"check", 0>> /\ 0 + (n - 6) = n - 6 /\ n - 6 \in Words
    BY <1>11 DEF Records, Check, Words
  <2>2. R2 = R /\ CheckWrite(M2, M, n - 6, R[Order[n]]) /\ p2 = <<"Check_RF", i + 1>>
    BY <1>0, <1>p, <1>11, <2>1, CrText, OnCheck
  <2>3. Keeps(R2, M2, e)
    BY <1>0, <2>2, KeepsElse DEF CheckWrite
  <2> QED BY <1>0, <1>11, <2>2, <2>3, Names, RecordNames DEF Records, CheckWrite, Words, Stacks,
             SameStack, SameCopy, SameCheck
<1>12. CASE i = 38
  <2>1. Sets(R2, R, "t5", St(M, -4)) /\ M2 = M /\ p2 = <<"Check_RF", i + 1>>
    BY <1>0, <1>p, <1>12, <1>s, CrText, OnStack DEF Stacks
  <2>2. Keeps(R2, M2, e)
    BY <1>0, <2>1, KeepsSets, KeptNames
  <2> QED BY <1>0, <1>12, <2>1, <2>2, Names, RecordNames DEF Records, Sets, Stacks, SameCopy
<1>13. CASE i = 39
  <2>1. R["t6"] = <<"check", 0>> /\ 0 + (29) = 29 /\ 29 \in Words
    BY <1>13 DEF Records, Check, Words
  <2>2. R2 = R /\ CheckWrite(M2, M, 29, R["t5"]) /\ p2 = <<"Check_RF", i + 1>>
    BY <1>0, <1>p, <1>13, <2>1, CrText, OnCheck
  <2>3. Keeps(R2, M2, e)
    BY <1>0, <2>2, KeepsElse DEF CheckWrite
  <2> QED BY <1>0, <1>13, <2>2, <2>3, Names, RecordNames DEF Records, CheckWrite, Words, Stacks,
             SameStack, SameCopy, SameCheck
<1>14. CASE i = 40
  <2>1. Sets(R2, R, "t6", St(M, -5)) /\ M2 = M /\ p2 = <<"Check_RF", i + 1>>
    BY <1>0, <1>p, <1>14, <1>s, CrText, OnStack DEF Stacks
  <2>2. Keeps(R2, M2, e)
    BY <1>0, <2>1, KeepsSets, KeptNames
  <2> QED BY <1>0, <1>14, <2>1, <2>2, Names, RecordNames DEF Records, Sets, Stacks, SameCopy
<1>15. CASE i = 41
  <2>1. Sets(R2, R, "t5", Check) /\ M2 = M /\ p2 = <<"Check_RF", i + 1>>
    BY <1>0, <1>p, <1>15, CrText, InRegisters
  <2>2. Keeps(R2, M2, e)
    BY <1>0, <2>1, KeepsSets, KeptNames
  <2> QED BY <1>0, <1>15, <2>1, <2>2, Names, RecordNames DEF Records, Sets, SameCopy
<1>16. CASE i = 42
  <2>1. R["t5"] = <<"check", 0>> /\ 0 + (30) = 30 /\ 30 \in Words
    BY <1>16 DEF Records, Check, Words
  <2>2. R2 = R /\ CheckWrite(M2, M, 30, R["t6"]) /\ p2 = <<"Check_RF", i + 1>>
    BY <1>0, <1>p, <1>16, <2>1, CrText, OnCheck
  <2>3. Keeps(R2, M2, e)
    BY <1>0, <2>2, KeepsElse DEF CheckWrite
  <2> QED BY <1>0, <1>16, <2>2, <2>3, Names, RecordNames DEF Records, CheckWrite, Words, Stacks,
             SameStack, SameCopy, SameCheck
<1>17. CASE i = 43
  <2>1. Sets(R2, R, "t5", St(M, -4)) /\ M2 = M /\ p2 = <<"Check_RF", i + 1>>
    BY <1>0, <1>p, <1>17, <1>s, CrText, OnStack DEF Stacks
  <2>2. Keeps(R2, M2, e)
    BY <1>0, <2>1, KeepsSets, KeptNames
  <2> QED BY <1>0, <1>17, <2>1, <2>2, Names, RecordNames DEF Records, Sets, Stacks, SameCopy
<1>18. CASE i = 44
  <2>1. CrCode[i] = addi("sp", "sp", 5) /\ R["sp"] = <<"stack", -7>>
    BY <1>0, <1>18, <1>s, CrText
  <2>2. Sets(R2, R, "sp", <<"stack", -7 + 5>>) /\ M2 = M /\ p2 = <<"Check_RF", i + 1>>
    BY <1>p, <2>1, Adds
  <2>3. Keeps(R2, M2, e)
    BY <1>0, <2>2, KeepsSets, KeptNames
  <2> QED BY <1>0, <1>18, <2>2, <2>3, Names, RecordNames DEF Records, Sets, SameCopy
<1>19. \/ i \in 1 .. 10 \/ i \in 38 .. 44
       \/ \E n \in 8 .. 34 : i = n + 3
  OBVIOUS
<1> QED BY <1>1, <1>2, <1>3, <1>4, <1>5, <1>6, <1>7, <1>8, <1>9, <1>10, <1>11, <1>12, <1>13, <1>14,
           <1>15, <1>16, <1>17, <1>18, <1>19

(***************************************************************************)
(* Store_Checkpoint.                                                       *)
(***************************************************************************)
LEMMA StoredPlaces ==
  /\ \A n \in 1 .. 5 : StoredAt(n) = 21 + 2 * n
  /\ \A n \in 6 .. 7 : StoredAt(n) = 26 + n
  /\ \A n \in 8 .. 11 : StoredAt(n) = 27 + n
  /\ StoredAt(12) = 40
  /\ \A n \in 13 .. 32 : StoredAt(n) = 28 + n
  /\ StoredAt(33) = 62 /\ StoredAt(34) = 64 /\ StoredAt(35) = 68 /\ StoredAt(36) = 70
BY DEF StoredAt

Storing == {22, 24, 26, 28, 30, 31, 32} \cup 34 .. 37 \cup 39 .. 59 \cup {61, 63, 67, 69}
LEMMA StoredOnce ==
  /\ \A n \in 1 .. 36 : StoredAt(n) \in Int /\ StoredAt(n) - 1 \in Storing
  /\ \A n, k \in 1 .. 36 : StoredAt(n) = StoredAt(k) => n = k
<1>1. \A n \in 1 .. 36 : n \in 1 .. 5 \/ n \in 6 .. 7 \/ n \in 8 .. 11 \/ n = 12 \/ n \in 13 .. 32
                        \/ n = 33 \/ n = 34 \/ n = 35 \/ n = 36
  OBVIOUS
<1>2. \A n \in 1 .. 36 : StoredAt(n) \in Int /\ StoredAt(n) - 1 \in Storing
  BY <1>1, StoredPlaces DEF Storing
<1>3. \A n, k \in 1 .. 36 : StoredAt(n) = StoredAt(k) => n = k
  BY <1>1, StoredPlaces
<1> QED BY <1>2, <1>3

LEMMA SlotsStay ==
  ASSUME NEW i \in Nat, i \in 1 .. 75, NEW M, NEW M2, NEW e, Top(e) \in {-2, 0}, CopySlots(i, M, e), SameStack(M2, M),
         i \notin 2 .. 6
  PROVE  CopySlots(i + 1, M2, e)
<1>1. Top(e) - 1 \in Stacks /\ Top(e) - 2 \in Stacks /\ Top(e) - 3 \in Stacks /\ Top(e) - 4 \in Stacks
      /\ Top(e) - 5 \in Stacks
  BY DEF Stacks
<1>2. \A k \in 3 .. 7 : i + 1 \in k .. 75 => i \in k .. 75
  OBVIOUS
<1> QED BY <1>1, <1>2 DEF CopySlots, SameStack

LEMMA WordsStay ==
  ASSUME NEW i \in Nat, i \in 1 .. 75, NEW M, NEW M2, NEW e, CopyWords(i, M, e), i \notin Storing \cup {65},
         \A k \in 0 .. 36 : Cp(M2, k) = Cp(M, k)
  PROVE  CopyWords(i + 1, M2, e)
<1>1. \A n \in 1 .. 36 : i + 1 >= StoredAt(n) => i >= StoredAt(n)
  BY StoredOnce
<1> QED BY <1>1 DEF CopyWords

LEMMA WordStored ==
  ASSUME NEW i \in Nat, i \in 1 .. 75, NEW M, NEW M2, NEW e, NEW n \in Nat, n \in 1 .. 36, CopyWords(i, M, e),
         StoredAt(n) = i + 1, NEW v, v = e.reg[Order[n]], NEW k, k = n - 1, CopyWrite(M2, M, k, v)
  PROVE  CopyWords(i + 1, M2, e)
<1>1. \A q \in 1 .. 36 : q # n /\ i + 1 >= StoredAt(q) => i >= StoredAt(q)
  BY StoredOnce
<1>2. i # 65
  BY StoredOnce DEF Storing
<1>3. \A q \in 1 .. 36 : q # n => q - 1 \in Words /\ q - 1 # k
  BY DEF Words
<1>4. \A q \in 1 .. 36 : i + 1 >= StoredAt(q) => Cp(M2, q - 1) = e.reg[Order[q]]
  BY <1>1, <1>3 DEF CopyWords, CopyWrite
<1>5. 36 \in Words /\ 36 # k
  BY DEF Words
<1> QED BY <1>2, <1>4, <1>5 DEF CopyWords, CopyWrite

LEMMA StackStays ==
  ASSUME NEW i \in Nat, i \in 1 .. 75, NEW R, NEW R2, NEW M, NEW M2, NEW e, Top(e) \in {-2, 0}, CopyStack(i, R, M, e),
         i \notin 11 .. 19, \A k \in 37 .. 39 : Cp(M2, k) = Cp(M, k)
  PROVE  CopyStack(i + 1, R2, M2, e)
<1>1. i + 1 \notin {13, 14, 15, 19} /\ i + 1 \notin 16 .. 18 /\ (i + 1 >= 20 => i >= 20)
  OBVIOUS
<1>2. \A a \in Top(e) .. 0 : 37 + a - Top(e) \in 37 .. 39
  OBVIOUS
<1> QED BY <1>1, <1>2 DEF CopyStack, StackCopied

LEMMA ScNames ==
  /\ Worked \subseteq Vis /\ "mepc" \notin Worked /\ "ra" \notin Worked
  /\ \A n \in 1 .. 32 : n \notin {7, 12} => Order[n] \notin Worked
  /\ Order[6] = "ra" /\ Order[7] = "sp" /\ Order[12] = "t2" /\ Order[33] = "t3" /\ Order[34] = "t4"
  /\ Order[35] = "t5" /\ Order[36] = "t6"
BY OrderIsOne, OrderList, Names DEF Worked

\* Where it goes: the loop goes back.
Onward(p2, R2, M2, e, m) == \E k \in 2 .. 76 : p2 = <<"Store_Checkpoint", k>> /\ Checkpoints(k, R2, M2, e, m)

LEMMA ScStep ==
  ASSUME NEW i \in 1 .. 75, NEW R, NEW M, NEW R2, NEW M2, NEW p2, NEW rec, NEW e, NEW m,
         Called("Store_Checkpoint", e), Checkpoints(i, R, M, e, m),
         Does(ScCode[i], R, M, <<"Store_Checkpoint", i>>, rec, R2, M2, p2)
  PROVE  Onward(p2, R2, M2, e, m)
<1> SUFFICES \E k \in 2 .. 76 : p2 = <<"Store_Checkpoint", k>> /\ Checkpoints(k, R2, M2, e, m)
  BY DEF Onward
<1> DEFINE Goes_(k) == p2 = <<"Store_Checkpoint", k>> /\ Checkpoints(k, R2, M2, e, m)
<1>0. /\ Top(e) \in {-2, 0} /\ DOMAIN R = Reg /\ DOMAIN M = Places /\ Keeps(R, M, e) /\ Frame(i, R, e)
      /\ e.reg["sp"] = <<"stack", Top(e)>>
  BY CalledTop DEF Checkpoints, Keeps, Sound
<1>m. m = "DCLS" => Copies(i, R, M, e)
  BY DEF Checkpoints
<1>r. i \in Nat /\ i \in 1 .. 75
  OBVIOUS
<1>p. Succ(<<"Store_Checkpoint", i>>) = <<"Store_Checkpoint", i + 1>>
  BY DEF Succ
<1>s. R["sp"] = <<"stack", IF i \in 2 .. 9 \cup 34 .. 75 THEN Top(e) - 7 ELSE Top(e)>>
  BY <1>0 DEF Frame
<1>t. /\ Top(e) - 1 \in Stacks /\ Top(e) - 2 \in Stacks /\ Top(e) - 3 \in Stacks /\ Top(e) - 4 \in Stacks
      /\ Top(e) - 5 \in Stacks /\ Top(e) \in Int /\ Top(e) - 7 \in Int
      /\ Top(e) - 1 < Top(e) /\ Top(e) - 2 < Top(e) /\ Top(e) - 3 < Top(e) /\ Top(e) - 4 < Top(e)
      /\ Top(e) - 5 < Top(e) /\ Top(e) - 7 + 6 = Top(e) - 1 /\ Top(e) - 7 + 5 = Top(e) - 2 /\ Top(e) - 7 + 4 = Top(e) - 3
      /\ Top(e) - 7 + 3 = Top(e) - 4 /\ Top(e) - 7 + 2 = Top(e) - 5
  BY <1>0 DEF Stacks
<1>1. CASE i = 1
  <2>1. ScCode[i] = addi("sp", "sp", -7) /\ R["sp"] = <<"stack", Top(e)>> /\ Top(e) \in Int
    BY <1>0, <1>1, <1>s, <1>t, ScText
  <2>2. Sets(R2, R, "sp", <<"stack", Top(e) + -7>>) /\ M2 = M /\ p2 = <<"Store_Checkpoint", i + 1>>
    BY <1>p, <2>1, Adds
  <2>3. Keeps(R2, M2, e)
    BY <1>0, <2>2, KeepsSets, KeptNames
  <2>4. Frame(i + 1, R2, e)
    BY <1>0, <1>1, <2>2, Names DEF Frame, Sets, Walked, Base, StackStart
  <2>5. ASSUME Copies(i, R, M, e) PROVE Copies(i + 1, R2, M2, e)
    <3>1. CopyRegs(i + 1, R2, e)
      BY <1>0, <1>1, <2>2, <2>5, ScNames, Names DEF Copies, CopyRegs, Sets, Worked
    <3>2. CopySlots(i + 1, M2, e)
      BY <1>0, <1>1, <2>2, <2>5, SlotsStay DEF Copies, SameStack
    <3>3. CopyStack(i + 1, R2, M2, e)
      BY <1>0, <1>1, <2>2, <2>5, StackStays DEF Copies
    <3>4. CopyWords(i + 1, M2, e)
      BY <1>0, <1>1, <2>2, <2>5, WordsStay DEF Copies, Storing
    <3> QED BY <3>1, <3>2, <3>3, <3>4 DEF Copies
  <2> QED BY <1>m, <2>2, <2>3, <2>4, <2>5 DEF Checkpoints
<1>2. CASE i = 2
  <2>1. ScCode[i] = sw("t2", 6, "sp") /\ R["sp"] = <<"stack", Top(e) - 7>>
    BY <1>2, <1>s, ScText
  <2>2. R2 = R /\ StackWrite(M2, M, Top(e) - 1, R["t2"]) /\ p2 = <<"Store_Checkpoint", i + 1>>
    BY <1>0, <1>p, <1>t, <2>1, OnStack
  <2>3. Keeps(R2, M2, e)
    BY <1>0, <2>2, <1>t, KeepsStack
  <2>4. Frame(i + 1, R2, e)
    BY <1>0, <1>2, <2>2, Names DEF Frame
  <2>5. ASSUME Copies(i, R, M, e) PROVE Copies(i + 1, R2, M2, e)
    <3>1. CopyRegs(i + 1, R2, e)
      BY <1>0, <1>2, <2>2, <2>5, ScNames, Names DEF Copies, CopyRegs, Worked
    <3>2. CopySlots(i + 1, M2, e)
      BY <1>0, <1>2, <2>2, <2>5, <1>t DEF Copies, CopySlots, CopyRegs, Worked, StackWrite
    <3>3. CopyStack(i + 1, R2, M2, e)
      BY <1>0, <1>2, <2>2, <2>5, StackStays DEF Copies, StackWrite, SameCopy, Words
    <3>4. CopyWords(i + 1, M2, e)
      BY <1>0, <1>2, <2>2, <2>5, WordsStay DEF Copies, Storing, StackWrite, SameCopy, Words
    <3> QED BY <3>1, <3>2, <3>3, <3>4 DEF Copies
  <2> QED BY <1>m, <2>2, <2>3, <2>4, <2>5 DEF Checkpoints
<1>3. CASE i = 3
  <2>1. ScCode[i] = sw("t3", 5, "sp") /\ R["sp"] = <<"stack", Top(e) - 7>>
    BY <1>3, <1>s, ScText
  <2>2. R2 = R /\ StackWrite(M2, M, Top(e) - 2, R["t3"]) /\ p2 = <<"Store_Checkpoint", i + 1>>
    BY <1>0, <1>p, <1>t, <2>1, OnStack
  <2>3. Keeps(R2, M2, e)
    BY <1>0, <2>2, <1>t, KeepsStack
  <2>4. Frame(i + 1, R2, e)
    BY <1>0, <1>3, <2>2, Names DEF Frame
  <2>5. ASSUME Copies(i, R, M, e) PROVE Copies(i + 1, R2, M2, e)
    <3>1. CopyRegs(i + 1, R2, e)
      BY <1>0, <1>3, <2>2, <2>5, ScNames, Names DEF Copies, CopyRegs, Worked
    <3>2. CopySlots(i + 1, M2, e)
      BY <1>0, <1>3, <2>2, <2>5, <1>t DEF Copies, CopySlots, CopyRegs, Worked, StackWrite
    <3>3. CopyStack(i + 1, R2, M2, e)
      BY <1>0, <1>3, <2>2, <2>5, StackStays DEF Copies, StackWrite, SameCopy, Words
    <3>4. CopyWords(i + 1, M2, e)
      BY <1>0, <1>3, <2>2, <2>5, WordsStay DEF Copies, Storing, StackWrite, SameCopy, Words
    <3> QED BY <3>1, <3>2, <3>3, <3>4 DEF Copies
  <2> QED BY <1>m, <2>2, <2>3, <2>4, <2>5 DEF Checkpoints
<1>4. CASE i = 4
  <2>1. ScCode[i] = sw("t4", 4, "sp") /\ R["sp"] = <<"stack", Top(e) - 7>>
    BY <1>4, <1>s, ScText
  <2>2. R2 = R /\ StackWrite(M2, M, Top(e) - 3, R["t4"]) /\ p2 = <<"Store_Checkpoint", i + 1>>
    BY <1>0, <1>p, <1>t, <2>1, OnStack
  <2>3. Keeps(R2, M2, e)
    BY <1>0, <2>2, <1>t, KeepsStack
  <2>4. Frame(i + 1, R2, e)
    BY <1>0, <1>4, <2>2, Names DEF Frame
  <2>5. ASSUME Copies(i, R, M, e) PROVE Copies(i + 1, R2, M2, e)
    <3>1. CopyRegs(i + 1, R2, e)
      BY <1>0, <1>4, <2>2, <2>5, ScNames, Names DEF Copies, CopyRegs, Worked
    <3>2. CopySlots(i + 1, M2, e)
      BY <1>0, <1>4, <2>2, <2>5, <1>t DEF Copies, CopySlots, CopyRegs, Worked, StackWrite
    <3>3. CopyStack(i + 1, R2, M2, e)
      BY <1>0, <1>4, <2>2, <2>5, StackStays DEF Copies, StackWrite, SameCopy, Words
    <3>4. CopyWords(i + 1, M2, e)
      BY <1>0, <1>4, <2>2, <2>5, WordsStay DEF Copies, Storing, StackWrite, SameCopy, Words
    <3> QED BY <3>1, <3>2, <3>3, <3>4 DEF Copies
  <2> QED BY <1>m, <2>2, <2>3, <2>4, <2>5 DEF Checkpoints
<1>5. CASE i = 5
  <2>1. ScCode[i] = sw("t5", 3, "sp") /\ R["sp"] = <<"stack", Top(e) - 7>>
    BY <1>5, <1>s, ScText
  <2>2. R2 = R /\ StackWrite(M2, M, Top(e) - 4, R["t5"]) /\ p2 = <<"Store_Checkpoint", i + 1>>
    BY <1>0, <1>p, <1>t, <2>1, OnStack
  <2>3. Keeps(R2, M2, e)
    BY <1>0, <2>2, <1>t, KeepsStack
  <2>4. Frame(i + 1, R2, e)
    BY <1>0, <1>5, <2>2, Names DEF Frame
  <2>5. ASSUME Copies(i, R, M, e) PROVE Copies(i + 1, R2, M2, e)
    <3>1. CopyRegs(i + 1, R2, e)
      BY <1>0, <1>5, <2>2, <2>5, ScNames, Names DEF Copies, CopyRegs, Worked
    <3>2. CopySlots(i + 1, M2, e)
      BY <1>0, <1>5, <2>2, <2>5, <1>t DEF Copies, CopySlots, CopyRegs, Worked, StackWrite
    <3>3. CopyStack(i + 1, R2, M2, e)
      BY <1>0, <1>5, <2>2, <2>5, StackStays DEF Copies, StackWrite, SameCopy, Words
    <3>4. CopyWords(i + 1, M2, e)
      BY <1>0, <1>5, <2>2, <2>5, WordsStay DEF Copies, Storing, StackWrite, SameCopy, Words
    <3> QED BY <3>1, <3>2, <3>3, <3>4 DEF Copies
  <2> QED BY <1>m, <2>2, <2>3, <2>4, <2>5 DEF Checkpoints
<1>6. CASE i = 6
  <2>1. ScCode[i] = sw("t6", 2, "sp") /\ R["sp"] = <<"stack", Top(e) - 7>>
    BY <1>6, <1>s, ScText
  <2>2. R2 = R /\ StackWrite(M2, M, Top(e) - 5, R["t6"]) /\ p2 = <<"Store_Checkpoint", i + 1>>
    BY <1>0, <1>p, <1>t, <2>1, OnStack
  <2>3. Keeps(R2, M2, e)
    BY <1>0, <2>2, <1>t, KeepsStack
  <2>4. Frame(i + 1, R2, e)
    BY <1>0, <1>6, <2>2, Names DEF Frame
  <2>5. ASSUME Copies(i, R, M, e) PROVE Copies(i + 1, R2, M2, e)
    <3>1. CopyRegs(i + 1, R2, e)
      BY <1>0, <1>6, <2>2, <2>5, ScNames, Names DEF Copies, CopyRegs, Worked
    <3>2. CopySlots(i + 1, M2, e)
      BY <1>0, <1>6, <2>2, <2>5, <1>t DEF Copies, CopySlots, CopyRegs, Worked, StackWrite
    <3>3. CopyStack(i + 1, R2, M2, e)
      BY <1>0, <1>6, <2>2, <2>5, StackStays DEF Copies, StackWrite, SameCopy, Words
    <3>4. CopyWords(i + 1, M2, e)
      BY <1>0, <1>6, <2>2, <2>5, WordsStay DEF Copies, Storing, StackWrite, SameCopy, Words
    <3> QED BY <3>1, <3>2, <3>3, <3>4 DEF Copies
  <2> QED BY <1>m, <2>2, <2>3, <2>4, <2>5 DEF Checkpoints
<1>7. CASE i = 7
  <2>1. ScCode[i] = la("t4", StackStart)
    BY <1>7, ScText
  <2>2. Sets(R2, R, "t4", StackStart) /\ M2 = M /\ p2 = <<"Store_Checkpoint", i + 1>>
    BY <1>0, <1>p, <1>t, <2>1, InRegisters
  <2>3. Keeps(R2, M2, e)
    BY <1>0, <2>2, KeepsSets, KeptNames
  <2>4. Frame(i + 1, R2, e)
    BY <1>0, <1>7, <2>2, Names DEF Frame, Sets, Walked, Base, StackStart
  <2>5. ASSUME Copies(i, R, M, e) PROVE Copies(i + 1, R2, M2, e)
    <3>1. CopyRegs(i + 1, R2, e)
      BY <1>0, <1>7, <2>2, <2>5, ScNames, Names DEF Copies, CopyRegs, Sets, Worked
    <3>2. CopySlots(i + 1, M2, e)
      BY <1>0, <1>7, <2>2, <2>5, SlotsStay DEF Copies, SameStack
    <3>3. CopyStack(i + 1, R2, M2, e)
      BY <1>0, <1>7, <2>2, <2>5, StackStays DEF Copies
    <3>4. CopyWords(i + 1, M2, e)
      BY <1>0, <1>7, <2>2, <2>5, WordsStay DEF Copies, Storing
    <3> QED BY <3>1, <3>2, <3>3, <3>4 DEF Copies
  <2> QED BY <1>m, <2>2, <2>3, <2>4, <2>5 DEF Checkpoints
<1>8. CASE i = 8
  <2>1. ScCode[i] = la("t5", Base)
    BY <1>8, ScText
  <2>2. Sets(R2, R, "t5", Base) /\ M2 = M /\ p2 = <<"Store_Checkpoint", i + 1>>
    BY <1>0, <1>p, <1>t, <2>1, InRegisters
  <2>3. Keeps(R2, M2, e)
    BY <1>0, <2>2, KeepsSets, KeptNames
  <2>4. Frame(i + 1, R2, e)
    BY <1>0, <1>8, <2>2, Names DEF Frame, Sets, Walked, Base, StackStart
  <2>5. ASSUME Copies(i, R, M, e) PROVE Copies(i + 1, R2, M2, e)
    <3>1. CopyRegs(i + 1, R2, e)
      BY <1>0, <1>8, <2>2, <2>5, ScNames, Names DEF Copies, CopyRegs, Sets, Worked
    <3>2. CopySlots(i + 1, M2, e)
      BY <1>0, <1>8, <2>2, <2>5, SlotsStay DEF Copies, SameStack
    <3>3. CopyStack(i + 1, R2, M2, e)
      BY <1>0, <1>8, <2>2, <2>5, StackStays DEF Copies
    <3>4. CopyWords(i + 1, M2, e)
      BY <1>0, <1>8, <2>2, <2>5, WordsStay DEF Copies, Storing
    <3> QED BY <3>1, <3>2, <3>3, <3>4 DEF Copies
  <2> QED BY <1>m, <2>2, <2>3, <2>4, <2>5 DEF Checkpoints
<1>9. CASE i = 9
  <2>1. ScCode[i] = addi("sp", "sp", 7) /\ R["sp"] = <<"stack", Top(e) - 7>> /\ Top(e) - 7 \in Int
    BY <1>0, <1>9, <1>s, <1>t, ScText
  <2>2. Sets(R2, R, "sp", <<"stack", Top(e) - 7 + 7>>) /\ M2 = M /\ p2 = <<"Store_Checkpoint", i + 1>>
    BY <1>p, <2>1, Adds
  <2>3. Keeps(R2, M2, e)
    BY <1>0, <2>2, KeepsSets, KeptNames
  <2>4. Frame(i + 1, R2, e)
    BY <1>0, <1>9, <2>2, Names DEF Frame, Sets, Walked, Base, StackStart
  <2>5. ASSUME Copies(i, R, M, e) PROVE Copies(i + 1, R2, M2, e)
    <3>1. CopyRegs(i + 1, R2, e)
      BY <1>0, <1>9, <2>2, <2>5, ScNames, Names DEF Copies, CopyRegs, Sets, Worked
    <3>2. CopySlots(i + 1, M2, e)
      BY <1>0, <1>9, <2>2, <2>5, SlotsStay DEF Copies, SameStack
    <3>3. CopyStack(i + 1, R2, M2, e)
      BY <1>0, <1>9, <2>2, <2>5, StackStays DEF Copies
    <3>4. CopyWords(i + 1, M2, e)
      BY <1>0, <1>9, <2>2, <2>5, WordsStay DEF Copies, Storing
    <3> QED BY <3>1, <3>2, <3>3, <3>4 DEF Copies
  <2> QED BY <1>m, <2>2, <2>3, <2>4, <2>5 DEF Checkpoints
<1>10. CASE i = 10
  <2>1. ScCode[i] = mv("t2", "sp")
    BY <1>10, ScText
  <2>2. Sets(R2, R, "t2", R["sp"]) /\ M2 = M /\ p2 = <<"Store_Checkpoint", i + 1>>
    BY <1>0, <1>p, <1>t, <2>1, InRegisters
  <2>3. Keeps(R2, M2, e)
    BY <1>0, <2>2, KeepsSets, KeptNames
  <2>4. Frame(i + 1, R2, e)
    BY <1>0, <1>10, <2>2, Names, <1>s DEF Frame, Sets, Walked, Base, StackStart
  <2>5. ASSUME Copies(i, R, M, e) PROVE Copies(i + 1, R2, M2, e)
    <3>1. CopyRegs(i + 1, R2, e)
      BY <1>0, <1>10, <2>2, <2>5, ScNames, Names DEF Copies, CopyRegs, Sets, Worked
    <3>2. CopySlots(i + 1, M2, e)
      BY <1>0, <1>10, <2>2, <2>5, SlotsStay DEF Copies, SameStack
    <3>3. CopyStack(i + 1, R2, M2, e)
      BY <1>0, <1>10, <2>2, <2>5, StackStays DEF Copies
    <3>4. CopyWords(i + 1, M2, e)
      BY <1>0, <1>10, <2>2, <2>5, WordsStay DEF Copies, Storing
    <3> QED BY <3>1, <3>2, <3>3, <3>4 DEF Copies
  <2> QED BY <1>m, <2>2, <2>3, <2>4, <2>5 DEF Checkpoints
<1>11. CASE i = 11
  <2>1. R2 = R /\ M2 = M /\ p2 = IF R["t2"] = R["t4"] THEN <<"Store_Checkpoint", 20>> ELSE <<"Store_Checkpoint", i + 1>>
    <3>1. ScCode[i] = beq("t2", "t4", "registers")
      BY <1>11, ScText
    <3> QED BY <1>p, <3>1, Comparing, Labels
  <2>2. R["t2"] = <<"stack", Walked(R)>> /\ R["t4"] = <<"stack", 0>> /\ Walked(R) \in Top(e) .. 0
    BY <1>0, <1>11 DEF Frame, StackStart
  <2>3. CASE Walked(R) = 0
    <3>0. p2 = <<"Store_Checkpoint", 20>>
      BY <2>1, <2>2, <2>3
    <3>1. Keeps(R2, M2, e)
      BY <1>0, <2>1
    <3>2. Frame(20, R2, e)
      BY <1>0, <1>11, <2>1, <2>2, <2>3 DEF Frame, StackStart
    <3>3. ASSUME Copies(i, R, M, e) PROVE Copies(20, R2, M2, e)
      <4>1. CopyRegs(20, R2, e)
        BY <1>11, <2>1, <3>3 DEF Copies, CopyRegs
      <4>2. CopySlots(20, M2, e)
        BY <1>11, <2>1, <3>3 DEF Copies, CopySlots
      <4>3. CopyStack(20, R2, M2, e)
        BY <1>0, <1>11, <2>1, <3>2, <3>3, <2>2, <2>3 DEF Copies, CopyStack, Frame, StackStart
      <4>4. CopyWords(20, M2, e)
        BY <1>11, <2>1, <3>3, StoredOnce DEF Copies, CopyWords, Storing
      <4> QED BY <4>1, <4>2, <4>3, <4>4 DEF Copies
    <3> QED BY <1>m, <3>0, <3>1, <3>2, <3>3 DEF Checkpoints
  <2>4. CASE Walked(R) # 0
    <3>0. p2 = <<"Store_Checkpoint", i + 1>>
      BY <2>1, <2>2, <2>4
    <3>1. Keeps(R2, M2, e)
      BY <1>0, <2>1
    <3>2. Frame(i + 1, R2, e)
      BY <1>0, <1>11, <2>1, <2>2, <2>4 DEF Frame, StackStart
    <3>3. ASSUME Copies(i, R, M, e) PROVE Copies(i + 1, R2, M2, e)
      <4>1. CopyRegs(i + 1, R2, e)
        BY <1>11, <2>1, <3>3 DEF Copies, CopyRegs
      <4>2. CopySlots(i + 1, M2, e)
        BY <1>11, <2>1, <3>3 DEF Copies, CopySlots
      <4>3. CopyStack(i + 1, R2, M2, e)
        BY <1>0, <1>11, <2>1, <3>2, <3>3, <2>2, <2>4 DEF Copies, CopyStack, Frame, StackStart
      <4>4. CopyWords(i + 1, M2, e)
        BY <1>11, <2>1, <3>3, StoredOnce DEF Copies, CopyWords, Storing
      <4> QED BY <4>1, <4>2, <4>3, <4>4 DEF Copies
    <3> QED BY <1>0, <1>11, <1>m, <3>0, <3>1, <3>2, <3>3 DEF Checkpoints
  <2> QED BY <2>3, <2>4
<1>12. CASE i = 12
  <2>1. ScCode[i] = addi("t3", "t5", 37) /\ R["t5"] = <<"copy", 0>> /\ 0 \in Int
    BY <1>0, <1>12, <1>s, <1>t, ScText DEF Frame, Base
  <2>2. Sets(R2, R, "t3", <<"copy", 37>>) /\ M2 = M /\ p2 = <<"Store_Checkpoint", i + 1>>
    BY <1>0, <1>p, <2>1, Adds
  <2>3. Keeps(R2, M2, e)
    BY <1>0, <2>2, KeepsSets, KeptNames
  <2>4. Frame(i + 1, R2, e)
    BY <1>0, <1>12, <2>2, Names DEF Frame, Sets, Walked, Base, StackStart
  <2>5. ASSUME Copies(i, R, M, e) PROVE Copies(i + 1, R2, M2, e)
    <3>1. CopyRegs(i + 1, R2, e)
      BY <1>0, <1>12, <2>2, <2>5, ScNames, Names DEF Copies, CopyRegs, Sets, Worked
    <3>2. CopySlots(i + 1, M2, e)
      BY <1>0, <1>12, <2>2, <2>5, SlotsStay DEF Copies, SameStack
    <3>3. CopyStack(i + 1, R2, M2, e)
      BY <1>0, <1>12, <2>2, <2>5, Names DEF Copies, CopyStack, StackCopied, Walked, Sets, Frame
    <3>4. CopyWords(i + 1, M2, e)
      BY <1>0, <1>12, <2>2, <2>5, WordsStay DEF Copies, Storing
    <3> QED BY <3>1, <3>2, <3>3, <3>4 DEF Copies
  <2> QED BY <1>m, <2>2, <2>3, <2>4, <2>5 DEF Checkpoints
<1>13. CASE i = 13
  <2>1. R2 = R /\ M2 = M /\ p2 = <<"Store_Checkpoint", i + 1>>
    <3>1. ScCode[i] = label("stack")
      BY <1>13, ScText
    <3> QED BY <1>p, <3>1, Jumping, Labels
  <2>2. Checkpoints(i + 1, R2, M2, e, m)
    <3>1. Keeps(R2, M2, e)
      BY <1>0, <2>1
    <3>2. Frame(i + 1, R2, e)
      BY <1>0, <1>13, <2>1 DEF Frame, StackStart
    <3>3. ASSUME Copies(i, R, M, e) PROVE Copies(i + 1, R2, M2, e)
      <4>1. CopyRegs(i + 1, R2, e)
        BY <1>13, <2>1, <3>3 DEF Copies, CopyRegs
      <4>2. CopySlots(i + 1, M2, e)
        BY <1>13, <2>1, <3>3 DEF Copies, CopySlots
      <4>3. CopyStack(i + 1, R2, M2, e)
        BY <1>0, <1>13, <2>1, <3>2, <3>3 DEF Copies, CopyStack, Frame, StackStart
      <4>4. CopyWords(i + 1, M2, e)
        BY <1>13, <2>1, <3>3, StoredOnce DEF Copies, CopyWords, Storing
      <4> QED BY <4>1, <4>2, <4>3, <4>4 DEF Copies
    <3> QED BY <1>m, <3>1, <3>2, <3>3 DEF Checkpoints
  <2> QED BY <1>13, <2>1, <2>2
<1>14. CASE i = 14
  <2>1. /\ ScCode[i] = lw("t6", 0, "t2") /\ R["t2"] = <<"stack", Walked(R)>> /\ Walked(R) \in Top(e) .. 0
        /\ Walked(R) + 0 = Walked(R) /\ Walked(R) \in Stacks /\ Walked(R) \in Int
    BY <1>0, <1>14, ScText DEF Frame, Stacks
  <2>2. Sets(R2, R, "t6", St(M, Walked(R))) /\ M2 = M /\ p2 = <<"Store_Checkpoint", i + 1>>
    BY <1>0, <1>p, <2>1, OnStack
  <2>3. Keeps(R2, M2, e)
    BY <1>0, <2>2, KeepsSets, KeptNames
  <2>4. Frame(i + 1, R2, e)
    BY <1>0, <1>14, <2>2, Names DEF Frame, Sets, Walked, Base, StackStart
  <2>5. ASSUME Copies(i, R, M, e) PROVE Copies(i + 1, R2, M2, e)
    <3>1. CopyRegs(i + 1, R2, e)
      BY <1>0, <1>14, <2>2, <2>5, ScNames, Names DEF Copies, CopyRegs, Sets, Worked, Walked, Keeps, Frame
    <3>2. CopySlots(i + 1, M2, e)
      BY <1>0, <1>14, <2>2, <2>5, SlotsStay DEF Copies, SameStack
    <3>3. CopyStack(i + 1, R2, M2, e)
      BY <1>0, <1>14, <2>2, <2>5, Names DEF Copies, CopyStack, StackCopied, Walked, Sets, Frame
    <3>4. CopyWords(i + 1, M2, e)
      BY <1>0, <1>14, <2>2, <2>5, WordsStay DEF Copies, Storing
    <3> QED BY <3>1, <3>2, <3>3, <3>4 DEF Copies
  <2> QED BY <1>m, <2>2, <2>3, <2>4, <2>5 DEF Checkpoints
<1>15. CASE i = 15
  <2>1. /\ ScCode[i] = sw("t6", 0, "t3") /\ R["t3"] = <<"copy", 37 + Walked(R) - Top(e)>> /\ Walked(R) \in Top(e) .. 0
        /\ 37 + Walked(R) - Top(e) + 0 = 37 + Walked(R) - Top(e)
        /\ 37 + Walked(R) - Top(e) \in Words /\ 37 + Walked(R) - Top(e) \in Int
    BY <1>0, <1>15, ScText DEF Frame, Words
  <2>2. R2 = R /\ CopyWrite(M2, M, 37 + Walked(R) - Top(e), R["t6"]) /\ p2 = <<"Store_Checkpoint", i + 1>>
    BY <1>0, <1>p, <2>1, OnCopy
  <2>3. Keeps(R2, M2, e)
    BY <1>0, <2>2, KeepsElse DEF CopyWrite
  <2>4. Frame(i + 1, R2, e)
    BY <1>0, <1>15, <2>2, Names DEF Frame
  <2>5. ASSUME Copies(i, R, M, e) PROVE Copies(i + 1, R2, M2, e)
    <3>1. CopyRegs(i + 1, R2, e)
      BY <1>0, <1>15, <2>2, <2>5, ScNames, Names DEF Copies, CopyRegs, Worked
    <3>2. CopySlots(i + 1, M2, e)
      BY <1>0, <1>15, <2>2, <2>5, SlotsStay DEF Copies, CopyWrite
    <3>3. CopyStack(i + 1, R2, M2, e)
      BY <1>0, <1>15, <2>2, <2>5, <2>1 DEF Copies, CopyStack, StackCopied, CopyRegs, CopyWrite, Words
    <3>4. CopyWords(i + 1, M2, e)
      BY <1>0, <1>15, <2>2, <2>5, <2>1, WordsStay DEF Copies, Storing, CopyWrite, Words
    <3> QED BY <3>1, <3>2, <3>3, <3>4 DEF Copies
  <2> QED BY <1>m, <2>2, <2>3, <2>4, <2>5 DEF Checkpoints
<1>16. CASE i = 16
  <2>1. R2 = R /\ M2 = M /\ p2 = IF R["t2"] = R["t4"] THEN <<"Store_Checkpoint", 20>> ELSE <<"Store_Checkpoint", i + 1>>
    <3>1. ScCode[i] = beq("t2", "t4", "registers")
      BY <1>16, ScText
    <3> QED BY <1>p, <3>1, Comparing, Labels
  <2>2. R["t2"] = <<"stack", Walked(R)>> /\ R["t4"] = <<"stack", 0>> /\ Walked(R) \in Top(e) .. 0
    BY <1>0, <1>16 DEF Frame, StackStart
  <2>3. CASE Walked(R) = 0
    <3>0. p2 = <<"Store_Checkpoint", 20>>
      BY <2>1, <2>2, <2>3
    <3>1. Keeps(R2, M2, e)
      BY <1>0, <2>1
    <3>2. Frame(20, R2, e)
      BY <1>0, <1>16, <2>1, <2>2, <2>3 DEF Frame, StackStart
    <3>3. ASSUME Copies(i, R, M, e) PROVE Copies(20, R2, M2, e)
      <4>1. CopyRegs(20, R2, e)
        BY <1>16, <2>1, <3>3 DEF Copies, CopyRegs
      <4>2. CopySlots(20, M2, e)
        BY <1>16, <2>1, <3>3 DEF Copies, CopySlots
      <4>3. CopyStack(20, R2, M2, e)
        BY <1>0, <1>16, <2>1, <3>2, <3>3, <2>2, <2>3 DEF Copies, CopyStack, Frame, StackStart
      <4>4. CopyWords(20, M2, e)
        BY <1>16, <2>1, <3>3, StoredOnce DEF Copies, CopyWords, Storing
      <4> QED BY <4>1, <4>2, <4>3, <4>4 DEF Copies
    <3> QED BY <1>m, <3>0, <3>1, <3>2, <3>3 DEF Checkpoints
  <2>4. CASE Walked(R) # 0
    <3>0. p2 = <<"Store_Checkpoint", i + 1>>
      BY <2>1, <2>2, <2>4
    <3>1. Keeps(R2, M2, e)
      BY <1>0, <2>1
    <3>2. Frame(i + 1, R2, e)
      BY <1>0, <1>16, <2>1, <2>2, <2>4 DEF Frame, StackStart
    <3>3. ASSUME Copies(i, R, M, e) PROVE Copies(i + 1, R2, M2, e)
      <4>1. CopyRegs(i + 1, R2, e)
        BY <1>16, <2>1, <3>3 DEF Copies, CopyRegs
      <4>2. CopySlots(i + 1, M2, e)
        BY <1>16, <2>1, <3>3 DEF Copies, CopySlots
      <4>3. CopyStack(i + 1, R2, M2, e)
        BY <1>0, <1>16, <2>1, <3>2, <3>3, <2>2, <2>4 DEF Copies, CopyStack, Frame, StackStart
      <4>4. CopyWords(i + 1, M2, e)
        BY <1>16, <2>1, <3>3, StoredOnce DEF Copies, CopyWords, Storing
      <4> QED BY <4>1, <4>2, <4>3, <4>4 DEF Copies
    <3> QED BY <1>0, <1>16, <1>m, <3>0, <3>1, <3>2, <3>3 DEF Checkpoints
  <2> QED BY <2>3, <2>4
<1>17. CASE i = 17
  <2>1. ScCode[i] = addi("t3", "t3", 1) /\ R["t3"] = <<"copy", 37 + Walked(R) - Top(e)>> /\ 37 + Walked(R) - Top(e) \in Int
    BY <1>0, <1>17, <1>s, <1>t, ScText DEF Frame
  <2>2. Sets(R2, R, "t3", <<"copy", 37 + Walked(R) - Top(e) + 1>>) /\ M2 = M /\ p2 = <<"Store_Checkpoint", i + 1>>
    BY <1>p, <2>1, Adds
  <2>3. Keeps(R2, M2, e)
    BY <1>0, <2>2, KeepsSets, KeptNames
  <2>4. Frame(i + 1, R2, e)
    BY <1>0, <1>17, <2>2, Names DEF Frame, Sets, Walked, Base, StackStart
  <2>5. ASSUME Copies(i, R, M, e) PROVE Copies(i + 1, R2, M2, e)
    <3>1. CopyRegs(i + 1, R2, e)
      BY <1>0, <1>17, <2>2, <2>5, ScNames, Names DEF Copies, CopyRegs, Sets, Worked
    <3>2. CopySlots(i + 1, M2, e)
      BY <1>0, <1>17, <2>2, <2>5, SlotsStay DEF Copies, SameStack
    <3>3. CopyStack(i + 1, R2, M2, e)
      BY <1>0, <1>17, <2>2, <2>5, Names DEF Copies, CopyStack, StackCopied, Walked, Sets, Frame
    <3>4. CopyWords(i + 1, M2, e)
      BY <1>0, <1>17, <2>2, <2>5, WordsStay DEF Copies, Storing
    <3> QED BY <3>1, <3>2, <3>3, <3>4 DEF Copies
  <2> QED BY <1>m, <2>2, <2>3, <2>4, <2>5 DEF Checkpoints
<1>18. CASE i = 18
  <2>1. ScCode[i] = addi("t2", "t2", 1) /\ R["t2"] = <<"stack", Walked(R)>> /\ Walked(R) \in Int
    BY <1>0, <1>18, <1>s, <1>t, ScText DEF Frame
  <2>2. Sets(R2, R, "t2", <<"stack", Walked(R) + 1>>) /\ M2 = M /\ p2 = <<"Store_Checkpoint", i + 1>>
    BY <1>p, <2>1, Adds
  <2>3. Keeps(R2, M2, e)
    BY <1>0, <2>2, KeepsSets, KeptNames
  <2>4. Frame(i + 1, R2, e)
    BY <1>0, <1>18, <2>2, Names DEF Frame, Sets, Walked, Base, StackStart
  <2>5. ASSUME Copies(i, R, M, e) PROVE Copies(i + 1, R2, M2, e)
    <3>1. CopyRegs(i + 1, R2, e)
      BY <1>0, <1>18, <2>2, <2>5, ScNames, Names DEF Copies, CopyRegs, Sets, Worked
    <3>2. CopySlots(i + 1, M2, e)
      BY <1>0, <1>18, <2>2, <2>5, SlotsStay DEF Copies, SameStack
    <3>3. CopyStack(i + 1, R2, M2, e)
      BY <1>0, <1>18, <2>2, <2>5, Names DEF Copies, CopyStack, StackCopied, Walked, Sets, Frame
    <3>4. CopyWords(i + 1, M2, e)
      BY <1>0, <1>18, <2>2, <2>5, WordsStay DEF Copies, Storing
    <3> QED BY <3>1, <3>2, <3>3, <3>4 DEF Copies
  <2> QED BY <1>m, <2>2, <2>3, <2>4, <2>5 DEF Checkpoints
<1>19. CASE i = 19
  <2>1. R2 = R /\ M2 = M /\ p2 = <<"Store_Checkpoint", 13>>
    <3>1. ScCode[i] = j("stack")
      BY <1>19, ScText
    <3> QED BY <1>p, <3>1, Jumping, Labels
  <2>2. Checkpoints(13, R2, M2, e, m)
    <3>1. Keeps(R2, M2, e)
      BY <1>0, <2>1
    <3>2. Frame(13, R2, e)
      BY <1>0, <1>19, <2>1 DEF Frame, StackStart
    <3>3. ASSUME Copies(i, R, M, e) PROVE Copies(13, R2, M2, e)
      <4>1. CopyRegs(13, R2, e)
        BY <1>19, <2>1, <3>3 DEF Copies, CopyRegs
      <4>2. CopySlots(13, M2, e)
        BY <1>19, <2>1, <3>3 DEF Copies, CopySlots
      <4>3. CopyStack(13, R2, M2, e)
        BY <1>0, <1>19, <2>1, <3>2, <3>3 DEF Copies, CopyStack, Frame, StackStart
      <4>4. CopyWords(13, M2, e)
        BY <1>19, <2>1, <3>3, StoredOnce DEF Copies, CopyWords, Storing
      <4> QED BY <4>1, <4>2, <4>3, <4>4 DEF Copies
    <3> QED BY <1>m, <3>1, <3>2, <3>3 DEF Checkpoints
  <2> QED BY <1>19, <2>1, <2>2
<1>20. CASE i = 20
  <2>1. R2 = R /\ M2 = M /\ p2 = <<"Store_Checkpoint", i + 1>>
    <3>1. ScCode[i] = label("registers")
      BY <1>20, ScText
    <3> QED BY <1>p, <3>1, Jumping, Labels
  <2>2. Checkpoints(i + 1, R2, M2, e, m)
    <3>1. Keeps(R2, M2, e)
      BY <1>0, <2>1
    <3>2. Frame(i + 1, R2, e)
      BY <1>0, <1>20, <2>1 DEF Frame, StackStart
    <3>3. ASSUME Copies(i, R, M, e) PROVE Copies(i + 1, R2, M2, e)
      <4>1. CopyRegs(i + 1, R2, e)
        BY <1>20, <2>1, <3>3 DEF Copies, CopyRegs
      <4>2. CopySlots(i + 1, M2, e)
        BY <1>20, <2>1, <3>3 DEF Copies, CopySlots
      <4>3. CopyStack(i + 1, R2, M2, e)
        BY <1>0, <1>20, <2>1, <3>2, <3>3 DEF Copies, CopyStack, Frame, StackStart
      <4>4. CopyWords(i + 1, M2, e)
        BY <1>20, <2>1, <3>3, StoredOnce DEF Copies, CopyWords, Storing
      <4> QED BY <4>1, <4>2, <4>3, <4>4 DEF Copies
    <3> QED BY <1>m, <3>1, <3>2, <3>3 DEF Checkpoints
  <2> QED BY <1>20, <2>1, <2>2
<1>21. ASSUME NEW n \in 1 .. 5, i = 19 + 2 * n
      PROVE  Goes_(i + 1)
  <2>1. ScCode[i] = mv("t6", Order[n])
    BY <1>21, ScText
  <2>2. Sets(R2, R, "t6", R[Order[n]]) /\ M2 = M /\ p2 = <<"Store_Checkpoint", i + 1>>
    BY <1>0, <1>p, <1>t, <2>1, InRegisters
  <2>3. Keeps(R2, M2, e)
    BY <1>0, <2>2, KeepsSets, KeptNames
  <2>4. Frame(i + 1, R2, e)
    BY <1>0, <1>21, <2>2, Names DEF Frame, Sets, Walked, Base, StackStart
  <2>5. ASSUME Copies(i, R, M, e) PROVE Copies(i + 1, R2, M2, e)
    <3>1. CopyRegs(i + 1, R2, e)
      BY <1>0, <1>21, <2>2, <2>5, ScNames, Names DEF Copies, CopyRegs, Sets, Worked
    <3>2. CopySlots(i + 1, M2, e)
      BY <1>0, <1>21, <2>2, <2>5, SlotsStay DEF Copies, SameStack
    <3>3. CopyStack(i + 1, R2, M2, e)
      BY <1>0, <1>21, <2>2, <2>5, StackStays DEF Copies
    <3>4. CopyWords(i + 1, M2, e)
      BY <1>0, <1>21, <2>2, <2>5, WordsStay DEF Copies, Storing
    <3> QED BY <3>1, <3>2, <3>3, <3>4 DEF Copies
  <2> QED BY <1>m, <2>2, <2>3, <2>4, <2>5 DEF Checkpoints
<1>22. ASSUME NEW n \in 1 .. 5, i = 20 + 2 * n
      PROVE  Goes_(i + 1)
  <2>1. /\ ScCode[i] = sw("t6", n - 1, "t5") /\ R["t5"] = <<"copy", 0>> /\ 0 + (n - 1) = n - 1
        /\ n - 1 \in Words /\ n - 1 \in Int
    BY <1>0, <1>22, ScText DEF Frame, Base, Words
  <2>2. R2 = R /\ CopyWrite(M2, M, n - 1, R["t6"]) /\ p2 = <<"Store_Checkpoint", i + 1>>
    BY <1>0, <1>p, <2>1, OnCopy
  <2>3. Keeps(R2, M2, e)
    BY <1>0, <2>2, KeepsElse DEF CopyWrite
  <2>4. Frame(i + 1, R2, e)
    BY <1>0, <1>22, <2>2, Names DEF Frame
  <2>5. ASSUME Copies(i, R, M, e) PROVE Copies(i + 1, R2, M2, e)
    <3>1. CopyRegs(i + 1, R2, e)
      BY <1>0, <1>22, <2>2, <2>5, ScNames, Names DEF Copies, CopyRegs, Worked
    <3>2. CopySlots(i + 1, M2, e)
      BY <1>0, <1>22, <2>2, <2>5, SlotsStay DEF Copies, CopyWrite
    <3>3. CopyStack(i + 1, R2, M2, e)
      BY <1>0, <1>22, <2>2, <2>5, StackStays DEF Copies, CopyWrite, Words
    <3>4. StoredAt(n) = i + 1 /\ n \in Nat /\ n \in 1 .. 36 /\ n - 1 = n - 1
      BY <1>22, StoredPlaces
    <3>5. R["t6"] = e.reg[Order[n]]
      BY <1>22, <2>5 DEF Copies, CopyRegs
    <3>6. CopyWords(i, M, e)
      BY <2>5 DEF Copies
    <3>7. CopyWords(i + 1, M2, e)
      BY <1>r, <2>2, <3>4, <3>5, <3>6, WordStored, ZenonT(40)
    <3> QED BY <3>1, <3>2, <3>3, <3>7 DEF Copies
  <2> QED BY <1>m, <2>2, <2>3, <2>4, <2>5 DEF Checkpoints
<1>23. CASE i = 31
  <2>1. /\ ScCode[i] = sw("ra", 5, "t5") /\ R["t5"] = <<"copy", 0>> /\ 0 + (5) = 5
        /\ 5 \in Words /\ 5 \in Int
    BY <1>0, <1>23, ScText DEF Frame, Base, Words
  <2>2. R2 = R /\ CopyWrite(M2, M, 5, R["ra"]) /\ p2 = <<"Store_Checkpoint", i + 1>>
    BY <1>0, <1>p, <2>1, OnCopy
  <2>3. Keeps(R2, M2, e)
    BY <1>0, <2>2, KeepsElse DEF CopyWrite
  <2>4. Frame(i + 1, R2, e)
    BY <1>0, <1>23, <2>2, Names DEF Frame
  <2>5. ASSUME Copies(i, R, M, e) PROVE Copies(i + 1, R2, M2, e)
    <3>1. CopyRegs(i + 1, R2, e)
      BY <1>0, <1>23, <2>2, <2>5, ScNames, Names DEF Copies, CopyRegs, Worked
    <3>2. CopySlots(i + 1, M2, e)
      BY <1>0, <1>23, <2>2, <2>5, SlotsStay DEF Copies, CopyWrite
    <3>3. CopyStack(i + 1, R2, M2, e)
      BY <1>0, <1>23, <2>2, <2>5, StackStays DEF Copies, CopyWrite, Words
    <3>4. StoredAt(6) = i + 1 /\ 6 \in Nat /\ 6 \in 1 .. 36 /\ 6 - 1 = 5
      BY <1>23, StoredPlaces
    <3>5. R["ra"] = e.reg[Order[6]]
      BY <1>23, <2>5, ScNames, Names DEF Copies, CopyRegs
    <3>6. CopyWords(i, M, e)
      BY <2>5 DEF Copies
    <3>7. CopyWords(i + 1, M2, e)
      BY <1>r, <2>2, <3>4, <3>5, <3>6, WordStored, ZenonT(40)
    <3> QED BY <3>1, <3>2, <3>3, <3>7 DEF Copies
  <2> QED BY <1>m, <2>2, <2>3, <2>4, <2>5 DEF Checkpoints
<1>24. CASE i = 32
  <2>1. /\ ScCode[i] = sw("sp", 6, "t5") /\ R["t5"] = <<"copy", 0>> /\ 0 + (6) = 6
        /\ 6 \in Words /\ 6 \in Int
    BY <1>0, <1>24, ScText DEF Frame, Base, Words
  <2>2. R2 = R /\ CopyWrite(M2, M, 6, R["sp"]) /\ p2 = <<"Store_Checkpoint", i + 1>>
    BY <1>0, <1>p, <2>1, OnCopy
  <2>3. Keeps(R2, M2, e)
    BY <1>0, <2>2, KeepsElse DEF CopyWrite
  <2>4. Frame(i + 1, R2, e)
    BY <1>0, <1>24, <2>2, Names DEF Frame
  <2>5. ASSUME Copies(i, R, M, e) PROVE Copies(i + 1, R2, M2, e)
    <3>1. CopyRegs(i + 1, R2, e)
      BY <1>0, <1>24, <2>2, <2>5, ScNames, Names DEF Copies, CopyRegs, Worked
    <3>2. CopySlots(i + 1, M2, e)
      BY <1>0, <1>24, <2>2, <2>5, SlotsStay DEF Copies, CopyWrite
    <3>3. CopyStack(i + 1, R2, M2, e)
      BY <1>0, <1>24, <2>2, <2>5, StackStays DEF Copies, CopyWrite, Words
    <3>4. StoredAt(7) = i + 1 /\ 7 \in Nat /\ 7 \in 1 .. 36 /\ 7 - 1 = 6
      BY <1>24, StoredPlaces
    <3>5. R["sp"] = e.reg[Order[7]]
      BY <1>0, <1>s, <1>24, ScNames
    <3>6. CopyWords(i, M, e)
      BY <2>5 DEF Copies
    <3>7. CopyWords(i + 1, M2, e)
      BY <1>r, <2>2, <3>4, <3>5, <3>6, WordStored, ZenonT(40)
    <3> QED BY <3>1, <3>2, <3>3, <3>7 DEF Copies
  <2> QED BY <1>m, <2>2, <2>3, <2>4, <2>5 DEF Checkpoints
<1>25. CASE i = 33
  <2>1. ScCode[i] = addi("sp", "sp", -7) /\ R["sp"] = <<"stack", Top(e)>> /\ Top(e) \in Int
    BY <1>0, <1>25, <1>s, <1>t, ScText
  <2>2. Sets(R2, R, "sp", <<"stack", Top(e) + -7>>) /\ M2 = M /\ p2 = <<"Store_Checkpoint", i + 1>>
    BY <1>p, <2>1, Adds
  <2>3. Keeps(R2, M2, e)
    BY <1>0, <2>2, KeepsSets, KeptNames
  <2>4. Frame(i + 1, R2, e)
    BY <1>0, <1>25, <2>2, Names DEF Frame, Sets, Walked, Base, StackStart
  <2>5. ASSUME Copies(i, R, M, e) PROVE Copies(i + 1, R2, M2, e)
    <3>1. CopyRegs(i + 1, R2, e)
      BY <1>0, <1>25, <2>2, <2>5, ScNames, Names DEF Copies, CopyRegs, Sets, Worked
    <3>2. CopySlots(i + 1, M2, e)
      BY <1>0, <1>25, <2>2, <2>5, SlotsStay DEF Copies, SameStack
    <3>3. CopyStack(i + 1, R2, M2, e)
      BY <1>0, <1>25, <2>2, <2>5, StackStays DEF Copies
    <3>4. CopyWords(i + 1, M2, e)
      BY <1>0, <1>25, <2>2, <2>5, WordsStay DEF Copies, Storing
    <3> QED BY <3>1, <3>2, <3>3, <3>4 DEF Copies
  <2> QED BY <1>m, <2>2, <2>3, <2>4, <2>5 DEF Checkpoints
<1>26. ASSUME NEW n \in 8 .. 11, i = n + 26
      PROVE  Goes_(i + 1)
  <2>1. /\ ScCode[i] = sw(Order[n], n - 1, "t5") /\ R["t5"] = <<"copy", 0>> /\ 0 + (n - 1) = n - 1
        /\ n - 1 \in Words /\ n - 1 \in Int
    BY <1>0, <1>26, ScText DEF Frame, Base, Words
  <2>2. R2 = R /\ CopyWrite(M2, M, n - 1, R[Order[n]]) /\ p2 = <<"Store_Checkpoint", i + 1>>
    BY <1>0, <1>p, <2>1, OnCopy
  <2>3. Keeps(R2, M2, e)
    BY <1>0, <2>2, KeepsElse DEF CopyWrite
  <2>4. Frame(i + 1, R2, e)
    BY <1>0, <1>26, <2>2, Names DEF Frame
  <2>5. ASSUME Copies(i, R, M, e) PROVE Copies(i + 1, R2, M2, e)
    <3>1. CopyRegs(i + 1, R2, e)
      BY <1>0, <1>26, <2>2, <2>5, ScNames, Names DEF Copies, CopyRegs, Worked
    <3>2. CopySlots(i + 1, M2, e)
      BY <1>0, <1>26, <2>2, <2>5, SlotsStay DEF Copies, CopyWrite
    <3>3. CopyStack(i + 1, R2, M2, e)
      BY <1>0, <1>26, <2>2, <2>5, StackStays DEF Copies, CopyWrite, Words
    <3>4. StoredAt(n) = i + 1 /\ n \in Nat /\ n \in 1 .. 36 /\ n - 1 = n - 1
      BY <1>26, StoredPlaces
    <3>5. R[Order[n]] = e.reg[Order[n]]
      <4>1. Order[n] \in Vis /\ Order[n] \notin Worked
        BY <1>26, ScNames, Names
      <4>2. \A r \in Vis : r \notin Worked => R[r] = e.reg[r]
        BY <2>5 DEF Copies, CopyRegs
      <4> QED BY <4>1, <4>2
    <3>6. CopyWords(i, M, e)
      BY <2>5 DEF Copies
    <3>7. CopyWords(i + 1, M2, e)
      BY <1>r, <2>2, <3>4, <3>5, <3>6, WordStored, ZenonT(40)
    <3> QED BY <3>1, <3>2, <3>3, <3>7 DEF Copies
  <2> QED BY <1>m, <2>2, <2>3, <2>4, <2>5 DEF Checkpoints
<1>27. CASE i = 38
  <2>1. ScCode[i] = lw("t2", 6, "sp") /\ R["sp"] = <<"stack", Top(e) - 7>>
    BY <1>27, <1>s, ScText
  <2>2. Sets(R2, R, "t2", St(M, Top(e) - 1)) /\ M2 = M /\ p2 = <<"Store_Checkpoint", i + 1>>
    BY <1>0, <1>p, <1>t, <2>1, OnStack
  <2>3. Keeps(R2, M2, e)
    BY <1>0, <2>2, KeepsSets, KeptNames
  <2>4. Frame(i + 1, R2, e)
    BY <1>0, <1>27, <2>2, Names DEF Frame, Sets, Walked, Base, StackStart
  <2>5. ASSUME Copies(i, R, M, e) PROVE Copies(i + 1, R2, M2, e)
    <3>1. CopyRegs(i + 1, R2, e)
      BY <1>0, <1>27, <2>2, <2>5, ScNames, Names DEF Copies, CopyRegs, Sets, Worked, CopySlots
    <3>2. CopySlots(i + 1, M2, e)
      BY <1>0, <1>27, <2>2, <2>5, SlotsStay DEF Copies, SameStack
    <3>3. CopyStack(i + 1, R2, M2, e)
      BY <1>0, <1>27, <2>2, <2>5, StackStays DEF Copies
    <3>4. CopyWords(i + 1, M2, e)
      BY <1>0, <1>27, <2>2, <2>5, WordsStay DEF Copies, Storing
    <3> QED BY <3>1, <3>2, <3>3, <3>4 DEF Copies
  <2> QED BY <1>m, <2>2, <2>3, <2>4, <2>5 DEF Checkpoints
<1>28. CASE i = 39
  <2>1. /\ ScCode[i] = sw("t2", 11, "t5") /\ R["t5"] = <<"copy", 0>> /\ 0 + (11) = 11
        /\ 11 \in Words /\ 11 \in Int
    BY <1>0, <1>28, ScText DEF Frame, Base, Words
  <2>2. R2 = R /\ CopyWrite(M2, M, 11, R["t2"]) /\ p2 = <<"Store_Checkpoint", i + 1>>
    BY <1>0, <1>p, <2>1, OnCopy
  <2>3. Keeps(R2, M2, e)
    BY <1>0, <2>2, KeepsElse DEF CopyWrite
  <2>4. Frame(i + 1, R2, e)
    BY <1>0, <1>28, <2>2, Names DEF Frame
  <2>5. ASSUME Copies(i, R, M, e) PROVE Copies(i + 1, R2, M2, e)
    <3>1. CopyRegs(i + 1, R2, e)
      BY <1>0, <1>28, <2>2, <2>5, ScNames, Names DEF Copies, CopyRegs, Worked
    <3>2. CopySlots(i + 1, M2, e)
      BY <1>0, <1>28, <2>2, <2>5, SlotsStay DEF Copies, CopyWrite
    <3>3. CopyStack(i + 1, R2, M2, e)
      BY <1>0, <1>28, <2>2, <2>5, StackStays DEF Copies, CopyWrite, Words
    <3>4. StoredAt(12) = i + 1 /\ 12 \in Nat /\ 12 \in 1 .. 36 /\ 12 - 1 = 11
      BY <1>28, StoredPlaces
    <3>5. R["t2"] = e.reg[Order[12]]
      BY <1>28, <2>5, ScNames DEF Copies, CopyRegs
    <3>6. CopyWords(i, M, e)
      BY <2>5 DEF Copies
    <3>7. CopyWords(i + 1, M2, e)
      BY <1>r, <2>2, <3>4, <3>5, <3>6, WordStored, ZenonT(40)
    <3> QED BY <3>1, <3>2, <3>3, <3>7 DEF Copies
  <2> QED BY <1>m, <2>2, <2>3, <2>4, <2>5 DEF Checkpoints
<1>29. ASSUME NEW n \in 13 .. 32, i = n + 27
      PROVE  Goes_(i + 1)
  <2>1. /\ ScCode[i] = sw(Order[n], n - 1, "t5") /\ R["t5"] = <<"copy", 0>> /\ 0 + (n - 1) = n - 1
        /\ n - 1 \in Words /\ n - 1 \in Int
    BY <1>0, <1>29, ScText DEF Frame, Base, Words
  <2>2. R2 = R /\ CopyWrite(M2, M, n - 1, R[Order[n]]) /\ p2 = <<"Store_Checkpoint", i + 1>>
    BY <1>0, <1>p, <2>1, OnCopy
  <2>3. Keeps(R2, M2, e)
    BY <1>0, <2>2, KeepsElse DEF CopyWrite
  <2>4. Frame(i + 1, R2, e)
    BY <1>0, <1>29, <2>2, Names DEF Frame
  <2>5. ASSUME Copies(i, R, M, e) PROVE Copies(i + 1, R2, M2, e)
    <3>1. CopyRegs(i + 1, R2, e)
      BY <1>0, <1>29, <2>2, <2>5, ScNames, Names DEF Copies, CopyRegs, Worked
    <3>2. CopySlots(i + 1, M2, e)
      BY <1>0, <1>29, <2>2, <2>5, SlotsStay DEF Copies, CopyWrite
    <3>3. CopyStack(i + 1, R2, M2, e)
      BY <1>0, <1>29, <2>2, <2>5, StackStays DEF Copies, CopyWrite, Words
    <3>4. StoredAt(n) = i + 1 /\ n \in Nat /\ n \in 1 .. 36 /\ n - 1 = n - 1
      BY <1>29, StoredPlaces
    <3>5. R[Order[n]] = e.reg[Order[n]]
      <4>1. Order[n] \in Vis /\ Order[n] \notin Worked
        BY <1>29, ScNames, Names
      <4>2. \A r \in Vis : r \notin Worked => R[r] = e.reg[r]
        BY <2>5 DEF Copies, CopyRegs
      <4> QED BY <4>1, <4>2
    <3>6. CopyWords(i, M, e)
      BY <2>5 DEF Copies
    <3>7. CopyWords(i + 1, M2, e)
      BY <1>r, <2>2, <3>4, <3>5, <3>6, WordStored, ZenonT(40)
    <3> QED BY <3>1, <3>2, <3>3, <3>7 DEF Copies
  <2> QED BY <1>m, <2>2, <2>3, <2>4, <2>5 DEF Checkpoints
<1>30. CASE i = 60
  <2>1. ScCode[i] = lw("t3", 5, "sp") /\ R["sp"] = <<"stack", Top(e) - 7>>
    BY <1>30, <1>s, ScText
  <2>2. Sets(R2, R, "t3", St(M, Top(e) - 2)) /\ M2 = M /\ p2 = <<"Store_Checkpoint", i + 1>>
    BY <1>0, <1>p, <1>t, <2>1, OnStack
  <2>3. Keeps(R2, M2, e)
    BY <1>0, <2>2, KeepsSets, KeptNames
  <2>4. Frame(i + 1, R2, e)
    BY <1>0, <1>30, <2>2, Names DEF Frame, Sets, Walked, Base, StackStart
  <2>5. ASSUME Copies(i, R, M, e) PROVE Copies(i + 1, R2, M2, e)
    <3>1. CopyRegs(i + 1, R2, e)
      BY <1>0, <1>30, <2>2, <2>5, ScNames, Names DEF Copies, CopyRegs, Sets, Worked, CopySlots
    <3>2. CopySlots(i + 1, M2, e)
      BY <1>0, <1>30, <2>2, <2>5, SlotsStay DEF Copies, SameStack
    <3>3. CopyStack(i + 1, R2, M2, e)
      BY <1>0, <1>30, <2>2, <2>5, StackStays DEF Copies
    <3>4. CopyWords(i + 1, M2, e)
      BY <1>0, <1>30, <2>2, <2>5, WordsStay DEF Copies, Storing
    <3> QED BY <3>1, <3>2, <3>3, <3>4 DEF Copies
  <2> QED BY <1>m, <2>2, <2>3, <2>4, <2>5 DEF Checkpoints
<1>31. CASE i = 61
  <2>1. /\ ScCode[i] = sw("t3", 32, "t5") /\ R["t5"] = <<"copy", 0>> /\ 0 + (32) = 32
        /\ 32 \in Words /\ 32 \in Int
    BY <1>0, <1>31, ScText DEF Frame, Base, Words
  <2>2. R2 = R /\ CopyWrite(M2, M, 32, R["t3"]) /\ p2 = <<"Store_Checkpoint", i + 1>>
    BY <1>0, <1>p, <2>1, OnCopy
  <2>3. Keeps(R2, M2, e)
    BY <1>0, <2>2, KeepsElse DEF CopyWrite
  <2>4. Frame(i + 1, R2, e)
    BY <1>0, <1>31, <2>2, Names DEF Frame
  <2>5. ASSUME Copies(i, R, M, e) PROVE Copies(i + 1, R2, M2, e)
    <3>1. CopyRegs(i + 1, R2, e)
      BY <1>0, <1>31, <2>2, <2>5, ScNames, Names DEF Copies, CopyRegs, Worked
    <3>2. CopySlots(i + 1, M2, e)
      BY <1>0, <1>31, <2>2, <2>5, SlotsStay DEF Copies, CopyWrite
    <3>3. CopyStack(i + 1, R2, M2, e)
      BY <1>0, <1>31, <2>2, <2>5, StackStays DEF Copies, CopyWrite, Words
    <3>4. StoredAt(33) = i + 1 /\ 33 \in Nat /\ 33 \in 1 .. 36 /\ 33 - 1 = 32
      BY <1>31, StoredPlaces
    <3>5. R["t3"] = e.reg[Order[33]]
      BY <1>31, <2>5, ScNames DEF Copies, CopyRegs
    <3>6. CopyWords(i, M, e)
      BY <2>5 DEF Copies
    <3>7. CopyWords(i + 1, M2, e)
      BY <1>r, <2>2, <3>4, <3>5, <3>6, WordStored, ZenonT(40)
    <3> QED BY <3>1, <3>2, <3>3, <3>7 DEF Copies
  <2> QED BY <1>m, <2>2, <2>3, <2>4, <2>5 DEF Checkpoints
<1>32. CASE i = 62
  <2>1. ScCode[i] = lw("t4", 4, "sp") /\ R["sp"] = <<"stack", Top(e) - 7>>
    BY <1>32, <1>s, ScText
  <2>2. Sets(R2, R, "t4", St(M, Top(e) - 3)) /\ M2 = M /\ p2 = <<"Store_Checkpoint", i + 1>>
    BY <1>0, <1>p, <1>t, <2>1, OnStack
  <2>3. Keeps(R2, M2, e)
    BY <1>0, <2>2, KeepsSets, KeptNames
  <2>4. Frame(i + 1, R2, e)
    BY <1>0, <1>32, <2>2, Names DEF Frame, Sets, Walked, Base, StackStart
  <2>5. ASSUME Copies(i, R, M, e) PROVE Copies(i + 1, R2, M2, e)
    <3>1. CopyRegs(i + 1, R2, e)
      BY <1>0, <1>32, <2>2, <2>5, ScNames, Names DEF Copies, CopyRegs, Sets, Worked, CopySlots
    <3>2. CopySlots(i + 1, M2, e)
      BY <1>0, <1>32, <2>2, <2>5, SlotsStay DEF Copies, SameStack
    <3>3. CopyStack(i + 1, R2, M2, e)
      BY <1>0, <1>32, <2>2, <2>5, StackStays DEF Copies
    <3>4. CopyWords(i + 1, M2, e)
      BY <1>0, <1>32, <2>2, <2>5, WordsStay DEF Copies, Storing
    <3> QED BY <3>1, <3>2, <3>3, <3>4 DEF Copies
  <2> QED BY <1>m, <2>2, <2>3, <2>4, <2>5 DEF Checkpoints
<1>33. CASE i = 63
  <2>1. /\ ScCode[i] = sw("t4", 33, "t5") /\ R["t5"] = <<"copy", 0>> /\ 0 + (33) = 33
        /\ 33 \in Words /\ 33 \in Int
    BY <1>0, <1>33, ScText DEF Frame, Base, Words
  <2>2. R2 = R /\ CopyWrite(M2, M, 33, R["t4"]) /\ p2 = <<"Store_Checkpoint", i + 1>>
    BY <1>0, <1>p, <2>1, OnCopy
  <2>3. Keeps(R2, M2, e)
    BY <1>0, <2>2, KeepsElse DEF CopyWrite
  <2>4. Frame(i + 1, R2, e)
    BY <1>0, <1>33, <2>2, Names DEF Frame
  <2>5. ASSUME Copies(i, R, M, e) PROVE Copies(i + 1, R2, M2, e)
    <3>1. CopyRegs(i + 1, R2, e)
      BY <1>0, <1>33, <2>2, <2>5, ScNames, Names DEF Copies, CopyRegs, Worked
    <3>2. CopySlots(i + 1, M2, e)
      BY <1>0, <1>33, <2>2, <2>5, SlotsStay DEF Copies, CopyWrite
    <3>3. CopyStack(i + 1, R2, M2, e)
      BY <1>0, <1>33, <2>2, <2>5, StackStays DEF Copies, CopyWrite, Words
    <3>4. StoredAt(34) = i + 1 /\ 34 \in Nat /\ 34 \in 1 .. 36 /\ 34 - 1 = 33
      BY <1>33, StoredPlaces
    <3>5. R["t4"] = e.reg[Order[34]]
      BY <1>33, <2>5, ScNames DEF Copies, CopyRegs
    <3>6. CopyWords(i, M, e)
      BY <2>5 DEF Copies
    <3>7. CopyWords(i + 1, M2, e)
      BY <1>r, <2>2, <3>4, <3>5, <3>6, WordStored, ZenonT(40)
    <3> QED BY <3>1, <3>2, <3>3, <3>7 DEF Copies
  <2> QED BY <1>m, <2>2, <2>3, <2>4, <2>5 DEF Checkpoints
<1>34. CASE i = 64
  <2>1. ScCode[i] = la("t6", <<"Store_Checkpoint", 0>>)
    BY <1>34, ScText
  <2>2. Sets(R2, R, "t6", <<"Store_Checkpoint", 0>>) /\ M2 = M /\ p2 = <<"Store_Checkpoint", i + 1>>
    BY <1>0, <1>p, <1>t, <2>1, InRegisters
  <2>3. Keeps(R2, M2, e)
    BY <1>0, <2>2, KeepsSets, KeptNames
  <2>4. Frame(i + 1, R2, e)
    BY <1>0, <1>34, <2>2, Names DEF Frame, Sets, Walked, Base, StackStart
  <2>5. ASSUME Copies(i, R, M, e) PROVE Copies(i + 1, R2, M2, e)
    <3>1. CopyRegs(i + 1, R2, e)
      BY <1>0, <1>34, <2>2, <2>5, ScNames, Names DEF Copies, CopyRegs, Sets, Worked
    <3>2. CopySlots(i + 1, M2, e)
      BY <1>0, <1>34, <2>2, <2>5, SlotsStay DEF Copies, SameStack
    <3>3. CopyStack(i + 1, R2, M2, e)
      BY <1>0, <1>34, <2>2, <2>5, StackStays DEF Copies
    <3>4. CopyWords(i + 1, M2, e)
      BY <1>0, <1>34, <2>2, <2>5, WordsStay DEF Copies, Storing
    <3> QED BY <3>1, <3>2, <3>3, <3>4 DEF Copies
  <2> QED BY <1>m, <2>2, <2>3, <2>4, <2>5 DEF Checkpoints
<1>35. CASE i = 65
  <2>1. /\ ScCode[i] = sw("t6", 36, "t5") /\ R["t5"] = <<"copy", 0>> /\ 0 + (36) = 36
        /\ 36 \in Words /\ 36 \in Int
    BY <1>0, <1>35, ScText DEF Frame, Base, Words
  <2>2. R2 = R /\ CopyWrite(M2, M, 36, R["t6"]) /\ p2 = <<"Store_Checkpoint", i + 1>>
    BY <1>0, <1>p, <2>1, OnCopy
  <2>3. Keeps(R2, M2, e)
    BY <1>0, <2>2, KeepsElse DEF CopyWrite
  <2>4. Frame(i + 1, R2, e)
    BY <1>0, <1>35, <2>2, Names DEF Frame
  <2>5. ASSUME Copies(i, R, M, e) PROVE Copies(i + 1, R2, M2, e)
    <3>1. CopyRegs(i + 1, R2, e)
      BY <1>0, <1>35, <2>2, <2>5, ScNames, Names DEF Copies, CopyRegs, Worked
    <3>2. CopySlots(i + 1, M2, e)
      BY <1>0, <1>35, <2>2, <2>5, SlotsStay DEF Copies, CopyWrite
    <3>3. CopyStack(i + 1, R2, M2, e)
      BY <1>0, <1>35, <2>2, <2>5, StackStays DEF Copies, CopyWrite, Words
    <3>4. \A n \in 1 .. 36 : i + 1 >= StoredAt(n) => i >= StoredAt(n)
      BY <1>35, StoredOnce DEF Storing
    <3>5. \A n \in 1 .. 36 : n - 1 \in Words /\ n - 1 # 36
      BY DEF Words
    <3>6. CopyWords(i + 1, M2, e)
      BY <1>35, <2>2, <2>5, <3>4, <3>5 DEF Copies, CopyWords, CopyRegs, CopyWrite
    <3> QED BY <3>1, <3>2, <3>3, <3>6 DEF Copies
  <2> QED BY <1>m, <2>2, <2>3, <2>4, <2>5 DEF Checkpoints
<1>36. CASE i = 66
  <2>1. ScCode[i] = lw("t6", 3, "sp") /\ R["sp"] = <<"stack", Top(e) - 7>>
    BY <1>36, <1>s, ScText
  <2>2. Sets(R2, R, "t6", St(M, Top(e) - 4)) /\ M2 = M /\ p2 = <<"Store_Checkpoint", i + 1>>
    BY <1>0, <1>p, <1>t, <2>1, OnStack
  <2>3. Keeps(R2, M2, e)
    BY <1>0, <2>2, KeepsSets, KeptNames
  <2>4. Frame(i + 1, R2, e)
    BY <1>0, <1>36, <2>2, Names DEF Frame, Sets, Walked, Base, StackStart
  <2>5. ASSUME Copies(i, R, M, e) PROVE Copies(i + 1, R2, M2, e)
    <3>1. CopyRegs(i + 1, R2, e)
      BY <1>0, <1>36, <2>2, <2>5, ScNames, Names DEF Copies, CopyRegs, Sets, Worked, CopySlots
    <3>2. CopySlots(i + 1, M2, e)
      BY <1>0, <1>36, <2>2, <2>5, SlotsStay DEF Copies, SameStack
    <3>3. CopyStack(i + 1, R2, M2, e)
      BY <1>0, <1>36, <2>2, <2>5, StackStays DEF Copies
    <3>4. CopyWords(i + 1, M2, e)
      BY <1>0, <1>36, <2>2, <2>5, WordsStay DEF Copies, Storing
    <3> QED BY <3>1, <3>2, <3>3, <3>4 DEF Copies
  <2> QED BY <1>m, <2>2, <2>3, <2>4, <2>5 DEF Checkpoints
<1>37. CASE i = 67
  <2>1. /\ ScCode[i] = sw("t6", 34, "t5") /\ R["t5"] = <<"copy", 0>> /\ 0 + (34) = 34
        /\ 34 \in Words /\ 34 \in Int
    BY <1>0, <1>37, ScText DEF Frame, Base, Words
  <2>2. R2 = R /\ CopyWrite(M2, M, 34, R["t6"]) /\ p2 = <<"Store_Checkpoint", i + 1>>
    BY <1>0, <1>p, <2>1, OnCopy
  <2>3. Keeps(R2, M2, e)
    BY <1>0, <2>2, KeepsElse DEF CopyWrite
  <2>4. Frame(i + 1, R2, e)
    BY <1>0, <1>37, <2>2, Names DEF Frame
  <2>5. ASSUME Copies(i, R, M, e) PROVE Copies(i + 1, R2, M2, e)
    <3>1. CopyRegs(i + 1, R2, e)
      BY <1>0, <1>37, <2>2, <2>5, ScNames, Names DEF Copies, CopyRegs, Worked
    <3>2. CopySlots(i + 1, M2, e)
      BY <1>0, <1>37, <2>2, <2>5, SlotsStay DEF Copies, CopyWrite
    <3>3. CopyStack(i + 1, R2, M2, e)
      BY <1>0, <1>37, <2>2, <2>5, StackStays DEF Copies, CopyWrite, Words
    <3>4. StoredAt(35) = i + 1 /\ 35 \in Nat /\ 35 \in 1 .. 36 /\ 35 - 1 = 34
      BY <1>37, StoredPlaces
    <3>5. R["t6"] = e.reg[Order[35]]
      BY <1>37, <2>5, ScNames DEF Copies, CopyRegs
    <3>6. CopyWords(i, M, e)
      BY <2>5 DEF Copies
    <3>7. CopyWords(i + 1, M2, e)
      BY <1>r, <2>2, <3>4, <3>5, <3>6, WordStored, ZenonT(40)
    <3> QED BY <3>1, <3>2, <3>3, <3>7 DEF Copies
  <2> QED BY <1>m, <2>2, <2>3, <2>4, <2>5 DEF Checkpoints
<1>38. CASE i = 68
  <2>1. ScCode[i] = lw("t6", 2, "sp") /\ R["sp"] = <<"stack", Top(e) - 7>>
    BY <1>38, <1>s, ScText
  <2>2. Sets(R2, R, "t6", St(M, Top(e) - 5)) /\ M2 = M /\ p2 = <<"Store_Checkpoint", i + 1>>
    BY <1>0, <1>p, <1>t, <2>1, OnStack
  <2>3. Keeps(R2, M2, e)
    BY <1>0, <2>2, KeepsSets, KeptNames
  <2>4. Frame(i + 1, R2, e)
    BY <1>0, <1>38, <2>2, Names DEF Frame, Sets, Walked, Base, StackStart
  <2>5. ASSUME Copies(i, R, M, e) PROVE Copies(i + 1, R2, M2, e)
    <3>1. CopyRegs(i + 1, R2, e)
      BY <1>0, <1>38, <2>2, <2>5, ScNames, Names DEF Copies, CopyRegs, Sets, Worked, CopySlots
    <3>2. CopySlots(i + 1, M2, e)
      BY <1>0, <1>38, <2>2, <2>5, SlotsStay DEF Copies, SameStack
    <3>3. CopyStack(i + 1, R2, M2, e)
      BY <1>0, <1>38, <2>2, <2>5, StackStays DEF Copies
    <3>4. CopyWords(i + 1, M2, e)
      BY <1>0, <1>38, <2>2, <2>5, WordsStay DEF Copies, Storing
    <3> QED BY <3>1, <3>2, <3>3, <3>4 DEF Copies
  <2> QED BY <1>m, <2>2, <2>3, <2>4, <2>5 DEF Checkpoints
<1>39. CASE i = 69
  <2>1. /\ ScCode[i] = sw("t6", 35, "t5") /\ R["t5"] = <<"copy", 0>> /\ 0 + (35) = 35
        /\ 35 \in Words /\ 35 \in Int
    BY <1>0, <1>39, ScText DEF Frame, Base, Words
  <2>2. R2 = R /\ CopyWrite(M2, M, 35, R["t6"]) /\ p2 = <<"Store_Checkpoint", i + 1>>
    BY <1>0, <1>p, <2>1, OnCopy
  <2>3. Keeps(R2, M2, e)
    BY <1>0, <2>2, KeepsElse DEF CopyWrite
  <2>4. Frame(i + 1, R2, e)
    BY <1>0, <1>39, <2>2, Names DEF Frame
  <2>5. ASSUME Copies(i, R, M, e) PROVE Copies(i + 1, R2, M2, e)
    <3>1. CopyRegs(i + 1, R2, e)
      BY <1>0, <1>39, <2>2, <2>5, ScNames, Names DEF Copies, CopyRegs, Worked
    <3>2. CopySlots(i + 1, M2, e)
      BY <1>0, <1>39, <2>2, <2>5, SlotsStay DEF Copies, CopyWrite
    <3>3. CopyStack(i + 1, R2, M2, e)
      BY <1>0, <1>39, <2>2, <2>5, StackStays DEF Copies, CopyWrite, Words
    <3>4. StoredAt(36) = i + 1 /\ 36 \in Nat /\ 36 \in 1 .. 36 /\ 36 - 1 = 35
      BY <1>39, StoredPlaces
    <3>5. R["t6"] = e.reg[Order[36]]
      BY <1>39, <2>5, ScNames DEF Copies, CopyRegs
    <3>6. CopyWords(i, M, e)
      BY <2>5 DEF Copies
    <3>7. CopyWords(i + 1, M2, e)
      BY <1>r, <2>2, <3>4, <3>5, <3>6, WordStored, ZenonT(40)
    <3> QED BY <3>1, <3>2, <3>3, <3>7 DEF Copies
  <2> QED BY <1>m, <2>2, <2>3, <2>4, <2>5 DEF Checkpoints
<1>40. CASE i = 70
  <2>1. ScCode[i] = lw("t2", 6, "sp") /\ R["sp"] = <<"stack", Top(e) - 7>>
    BY <1>40, <1>s, ScText
  <2>2. Sets(R2, R, "t2", St(M, Top(e) - 1)) /\ M2 = M /\ p2 = <<"Store_Checkpoint", i + 1>>
    BY <1>0, <1>p, <1>t, <2>1, OnStack
  <2>3. Keeps(R2, M2, e)
    BY <1>0, <2>2, KeepsSets, KeptNames
  <2>4. Frame(i + 1, R2, e)
    BY <1>0, <1>40, <2>2, Names DEF Frame, Sets, Walked, Base, StackStart
  <2>5. ASSUME Copies(i, R, M, e) PROVE Copies(i + 1, R2, M2, e)
    <3>1. CopyRegs(i + 1, R2, e)
      BY <1>0, <1>40, <2>2, <2>5, ScNames, Names DEF Copies, CopyRegs, Sets, Worked, CopySlots
    <3>2. CopySlots(i + 1, M2, e)
      BY <1>0, <1>40, <2>2, <2>5, SlotsStay DEF Copies, SameStack
    <3>3. CopyStack(i + 1, R2, M2, e)
      BY <1>0, <1>40, <2>2, <2>5, StackStays DEF Copies
    <3>4. CopyWords(i + 1, M2, e)
      BY <1>0, <1>40, <2>2, <2>5, WordsStay DEF Copies, Storing
    <3> QED BY <3>1, <3>2, <3>3, <3>4 DEF Copies
  <2> QED BY <1>m, <2>2, <2>3, <2>4, <2>5 DEF Checkpoints
<1>41. CASE i = 71
  <2>1. ScCode[i] = lw("t3", 5, "sp") /\ R["sp"] = <<"stack", Top(e) - 7>>
    BY <1>41, <1>s, ScText
  <2>2. Sets(R2, R, "t3", St(M, Top(e) - 2)) /\ M2 = M /\ p2 = <<"Store_Checkpoint", i + 1>>
    BY <1>0, <1>p, <1>t, <2>1, OnStack
  <2>3. Keeps(R2, M2, e)
    BY <1>0, <2>2, KeepsSets, KeptNames
  <2>4. Frame(i + 1, R2, e)
    BY <1>0, <1>41, <2>2, Names DEF Frame, Sets, Walked, Base, StackStart
  <2>5. ASSUME Copies(i, R, M, e) PROVE Copies(i + 1, R2, M2, e)
    <3>1. CopyRegs(i + 1, R2, e)
      BY <1>0, <1>41, <2>2, <2>5, ScNames, Names DEF Copies, CopyRegs, Sets, Worked, CopySlots
    <3>2. CopySlots(i + 1, M2, e)
      BY <1>0, <1>41, <2>2, <2>5, SlotsStay DEF Copies, SameStack
    <3>3. CopyStack(i + 1, R2, M2, e)
      BY <1>0, <1>41, <2>2, <2>5, StackStays DEF Copies
    <3>4. CopyWords(i + 1, M2, e)
      BY <1>0, <1>41, <2>2, <2>5, WordsStay DEF Copies, Storing
    <3> QED BY <3>1, <3>2, <3>3, <3>4 DEF Copies
  <2> QED BY <1>m, <2>2, <2>3, <2>4, <2>5 DEF Checkpoints
<1>42. CASE i = 72
  <2>1. ScCode[i] = lw("t4", 4, "sp") /\ R["sp"] = <<"stack", Top(e) - 7>>
    BY <1>42, <1>s, ScText
  <2>2. Sets(R2, R, "t4", St(M, Top(e) - 3)) /\ M2 = M /\ p2 = <<"Store_Checkpoint", i + 1>>
    BY <1>0, <1>p, <1>t, <2>1, OnStack
  <2>3. Keeps(R2, M2, e)
    BY <1>0, <2>2, KeepsSets, KeptNames
  <2>4. Frame(i + 1, R2, e)
    BY <1>0, <1>42, <2>2, Names DEF Frame, Sets, Walked, Base, StackStart
  <2>5. ASSUME Copies(i, R, M, e) PROVE Copies(i + 1, R2, M2, e)
    <3>1. CopyRegs(i + 1, R2, e)
      BY <1>0, <1>42, <2>2, <2>5, ScNames, Names DEF Copies, CopyRegs, Sets, Worked, CopySlots
    <3>2. CopySlots(i + 1, M2, e)
      BY <1>0, <1>42, <2>2, <2>5, SlotsStay DEF Copies, SameStack
    <3>3. CopyStack(i + 1, R2, M2, e)
      BY <1>0, <1>42, <2>2, <2>5, StackStays DEF Copies
    <3>4. CopyWords(i + 1, M2, e)
      BY <1>0, <1>42, <2>2, <2>5, WordsStay DEF Copies, Storing
    <3> QED BY <3>1, <3>2, <3>3, <3>4 DEF Copies
  <2> QED BY <1>m, <2>2, <2>3, <2>4, <2>5 DEF Checkpoints
<1>43. CASE i = 73
  <2>1. ScCode[i] = lw("t5", 3, "sp") /\ R["sp"] = <<"stack", Top(e) - 7>>
    BY <1>43, <1>s, ScText
  <2>2. Sets(R2, R, "t5", St(M, Top(e) - 4)) /\ M2 = M /\ p2 = <<"Store_Checkpoint", i + 1>>
    BY <1>0, <1>p, <1>t, <2>1, OnStack
  <2>3. Keeps(R2, M2, e)
    BY <1>0, <2>2, KeepsSets, KeptNames
  <2>4. Frame(i + 1, R2, e)
    BY <1>0, <1>43, <2>2, Names DEF Frame, Sets, Walked, Base, StackStart
  <2>5. ASSUME Copies(i, R, M, e) PROVE Copies(i + 1, R2, M2, e)
    <3>1. CopyRegs(i + 1, R2, e)
      BY <1>0, <1>43, <2>2, <2>5, ScNames, Names DEF Copies, CopyRegs, Sets, Worked, CopySlots
    <3>2. CopySlots(i + 1, M2, e)
      BY <1>0, <1>43, <2>2, <2>5, SlotsStay DEF Copies, SameStack
    <3>3. CopyStack(i + 1, R2, M2, e)
      BY <1>0, <1>43, <2>2, <2>5, StackStays DEF Copies
    <3>4. CopyWords(i + 1, M2, e)
      BY <1>0, <1>43, <2>2, <2>5, WordsStay DEF Copies, Storing
    <3> QED BY <3>1, <3>2, <3>3, <3>4 DEF Copies
  <2> QED BY <1>m, <2>2, <2>3, <2>4, <2>5 DEF Checkpoints
<1>44. CASE i = 74
  <2>1. ScCode[i] = lw("t6", 2, "sp") /\ R["sp"] = <<"stack", Top(e) - 7>>
    BY <1>44, <1>s, ScText
  <2>2. Sets(R2, R, "t6", St(M, Top(e) - 5)) /\ M2 = M /\ p2 = <<"Store_Checkpoint", i + 1>>
    BY <1>0, <1>p, <1>t, <2>1, OnStack
  <2>3. Keeps(R2, M2, e)
    BY <1>0, <2>2, KeepsSets, KeptNames
  <2>4. Frame(i + 1, R2, e)
    BY <1>0, <1>44, <2>2, Names DEF Frame, Sets, Walked, Base, StackStart
  <2>5. ASSUME Copies(i, R, M, e) PROVE Copies(i + 1, R2, M2, e)
    <3>1. CopyRegs(i + 1, R2, e)
      BY <1>0, <1>44, <2>2, <2>5, ScNames, Names DEF Copies, CopyRegs, Sets, Worked, CopySlots
    <3>2. CopySlots(i + 1, M2, e)
      BY <1>0, <1>44, <2>2, <2>5, SlotsStay DEF Copies, SameStack
    <3>3. CopyStack(i + 1, R2, M2, e)
      BY <1>0, <1>44, <2>2, <2>5, StackStays DEF Copies
    <3>4. CopyWords(i + 1, M2, e)
      BY <1>0, <1>44, <2>2, <2>5, WordsStay DEF Copies, Storing
    <3> QED BY <3>1, <3>2, <3>3, <3>4 DEF Copies
  <2> QED BY <1>m, <2>2, <2>3, <2>4, <2>5 DEF Checkpoints
<1>45. CASE i = 75
  <2>1. ScCode[i] = addi("sp", "sp", 7) /\ R["sp"] = <<"stack", Top(e) - 7>> /\ Top(e) - 7 \in Int
    BY <1>0, <1>45, <1>s, <1>t, ScText
  <2>2. Sets(R2, R, "sp", <<"stack", Top(e) - 7 + 7>>) /\ M2 = M /\ p2 = <<"Store_Checkpoint", i + 1>>
    BY <1>p, <2>1, Adds
  <2>3. Keeps(R2, M2, e)
    BY <1>0, <2>2, KeepsSets, KeptNames
  <2>4. Frame(i + 1, R2, e)
    BY <1>0, <1>45, <2>2, Names DEF Frame, Sets, Walked, Base, StackStart
  <2>5. ASSUME Copies(i, R, M, e) PROVE Copies(i + 1, R2, M2, e)
    <3>1. CopyRegs(i + 1, R2, e)
      BY <1>0, <1>45, <2>2, <2>5, ScNames, Names DEF Copies, CopyRegs, Sets, Worked
    <3>2. CopySlots(i + 1, M2, e)
      BY <1>0, <1>45, <2>2, <2>5, SlotsStay DEF Copies, SameStack
    <3>3. CopyStack(i + 1, R2, M2, e)
      BY <1>0, <1>45, <2>2, <2>5, StackStays DEF Copies
    <3>4. CopyWords(i + 1, M2, e)
      BY <1>0, <1>45, <2>2, <2>5, WordsStay DEF Copies, Storing
    <3> QED BY <3>1, <3>2, <3>3, <3>4 DEF Copies
  <2> QED BY <1>m, <2>2, <2>3, <2>4, <2>5 DEF Checkpoints
<1>46. \/ i \in 1 .. 20 \/ i \in 31 .. 33 \/ i \in 38 .. 39 \/ i \in 60 .. 75
       \/ \E n \in 1 .. 5 : i = 19 + 2 * n \/ i = 20 + 2 * n
       \/ \E n \in 8 .. 11 : i = n + 26
       \/ \E n \in 13 .. 32 : i = n + 27
  OBVIOUS
<1>47. \A k \in 1 .. 75 : k + 1 \in 2 .. 76
  OBVIOUS
<1> QED BY <1>1, <1>2, <1>3, <1>4, <1>5, <1>6, <1>7, <1>8, <1>9, <1>10, <1>11, <1>12, <1>13, <1>14,
           <1>15, <1>16, <1>17, <1>18, <1>19, <1>20, <1>21, <1>22, <1>23, <1>24, <1>25, <1>26,
           <1>27, <1>28, <1>29, <1>30, <1>31, <1>32, <1>33, <1>34, <1>35, <1>36, <1>37, <1>38,
           <1>39, <1>40, <1>41, <1>42, <1>43, <1>44, <1>45, <1>46, <1>47

(***************************************************************************)
(* handler_tmr_recoverysync.                                               *)
(***************************************************************************)
LEMMA HealNames ==
  /\ \A n \in 1 .. 5 : Order[n] # "sp" /\ Order[n] # "t6" /\ Order[n] # "a4" /\ Order[n] # "a5"
  /\ \A n \in 6 .. 36 : (Order[n] = "sp" <=> n = 7) /\ (Order[n] = "t6" <=> n = 36)
  /\ \A n \in 6 .. 36 : (Order[n] = "a4" <=> n = 19) /\ (Order[n] = "a5" <=> n = 20)
  /\ \A n \in 1 .. 36 : Order[n] \in Vis /\ Order[n] \in Reg
BY OrderIsOne, OrderList, Names

LEMMA HealPlaces ==
  ASSUME NEW T \in -9 .. 0
  PROVE  /\ T - 1 \in Stacks /\ T - 2 \in Stacks /\ T \in Int /\ T - 4 \in Int
         /\ T - 4 + 3 = T - 1 /\ T - 4 + 2 = T - 2
         /\ \A n \in 6 .. 36 : T - 4 + (5 - n) = T + 1 - n /\ T + 1 - n \in Stacks /\ 5 - n \in Int
         /\ \A n \in 1 .. 5 : T - 4 + (-31 - n) = T - 35 - n /\ T - 35 - n \in Stacks /\ -31 - n \in Int
BY DEF Stacks

\* A store below the stack leaves it, and one that is not in a slot, those.
LEMMA HealKeeps ==
  ASSUME NEW R, NEW M, NEW M2, NEW b, Top(b) \in -9 .. 0, NEW w \in Stacks, w < Top(b), NEW v,
         Sound(R, M), HealStack(M, b), StackWrite(M2, M, w, v)
  PROVE  Sound(R, M2) /\ HealStack(M2, b)
<1>1. \A a \in Top(b) .. 0 : a # w /\ a \in Stacks
  BY DEF Stacks
<1> QED BY <1>1 DEF Sound, HealStack, StackWrite

LEMMA RsStep ==
  ASSUME NEW i \in 1 .. 92, NEW R, NEW M, NEW R2, NEW M2, NEW p2, NEW rec, NEW b,
         Top(b) \in -9 .. 0, b.reg["sp"] = <<"stack", Top(b)>>, Heals(i, R, M, b),
         Does(RsCode[i], R, M, <<"handler_tmr_recoverysync", i>>, rec, R2, M2, p2)
  PROVE  /\ p2 = <<"handler_tmr_recoverysync", i + 1>> /\ Heals(i + 1, R2, M2, b)
         /\ SameCopy(M2, M) /\ SameCheck(M2, M)
<1>0. /\ Sound(R, M) /\ HealRegs(i, R, b) /\ HealSlots(i, M, b) /\ HealStack(M, b)
      /\ DOMAIN R = Reg /\ DOMAIN M = Places /\ Top(b) \in -9 .. 0
  BY DEF Heals, Sound
<1>p. Succ(<<"handler_tmr_recoverysync", i>>) = <<"handler_tmr_recoverysync", i + 1>>
  BY DEF Succ
<1>s. R["sp"] = <<"stack", IF i \in 2 .. 92 THEN Top(b) - 4 ELSE Top(b)>>
  BY <1>0 DEF HealRegs
<1>1. CASE i = 1
  <2>1. RsCode[i] = addi("sp", "sp", -4) /\ R["sp"] = <<"stack", Top(b)>> /\ Top(b) \in Int
    BY <1>0, <1>1, <1>s, RsText, HealPlaces
  <2>2. Sets(R2, R, "sp", <<"stack", Top(b) + -4>>) /\ M2 = M /\ p2 = <<"handler_tmr_recoverysync", i + 1>>
    BY <1>p, <2>1, Adds
  <2>3. Sound(R2, M2)
    BY <1>0, <2>2, RunsSets
  <2>4. HealRegs(i + 1, R2, b)
    BY <1>0, <1>1, <1>s, <2>2, HealPlaces, HealNames, Names DEF HealRegs, HealSlots, HealWord, Sets
  <2>5. HealSlots(i + 1, M2, b)
    BY <1>0, <1>1, <2>2 DEF HealSlots
  <2> QED BY <1>0, <2>2, <2>3, <2>4, <2>5 DEF Heals, SameCopy, SameCheck
<1>2. CASE i = 2
  <2>1. RsCode[i] = sw("a4", 3, "sp") /\ R["sp"] = <<"stack", Top(b) - 4>>
    BY <1>0, <1>2, <1>s, RsText
  <2>2. R2 = R /\ StackWrite(M2, M, Top(b) - 1, R["a4"]) /\ p2 = <<"handler_tmr_recoverysync", i + 1>>
    BY <1>0, <1>p, <1>2, <2>1, HealPlaces, OnStack
  <2>3. Sound(R2, M2) /\ HealStack(M2, b)
    <3>1. Top(b) - 1 \in Stacks /\ Top(b) - 1 < Top(b)
      BY <1>0, <1>2, HealPlaces
    <3> QED BY <1>0, <2>2, <3>1, HealKeeps
  <2>4. HealRegs(i + 1, R2, b)
    BY <1>0, <1>2, <1>s, <2>2, HealNames, Names DEF HealRegs
  <2>5. HealSlots(i + 1, M2, b)
    BY <1>0, <1>2, <1>s, <2>2, HealPlaces, HealNames, Names DEF HealSlots, HealRegs, HealWord, StackWrite
  <2> QED BY <2>2, <2>3, <2>4, <2>5 DEF Heals, StackWrite
<1>3. CASE i = 3
  <2>1. RsCode[i] = sw("a5", 2, "sp") /\ R["sp"] = <<"stack", Top(b) - 4>>
    BY <1>0, <1>3, <1>s, RsText
  <2>2. R2 = R /\ StackWrite(M2, M, Top(b) - 2, R["a5"]) /\ p2 = <<"handler_tmr_recoverysync", i + 1>>
    BY <1>0, <1>p, <1>3, <2>1, HealPlaces, OnStack
  <2>3. Sound(R2, M2) /\ HealStack(M2, b)
    <3>1. Top(b) - 2 \in Stacks /\ Top(b) - 2 < Top(b)
      BY <1>0, <1>3, HealPlaces
    <3> QED BY <1>0, <2>2, <3>1, HealKeeps
  <2>4. HealRegs(i + 1, R2, b)
    BY <1>0, <1>3, <1>s, <2>2, HealNames, Names DEF HealRegs
  <2>5. HealSlots(i + 1, M2, b)
    BY <1>0, <1>3, <1>s, <2>2, HealPlaces, HealNames, Names DEF HealSlots, HealRegs, HealWord, StackWrite
  <2> QED BY <2>2, <2>3, <2>4, <2>5 DEF Heals, StackWrite
<1>4. CASE i = 4
  <2>1. RsCode[i] = la("a4", Device)
    BY <1>0, <1>4, <1>s, RsText, HealPlaces
  <2>2. Sets(R2, R, "a4", Device) /\ M2 = M /\ p2 = <<"handler_tmr_recoverysync", i + 1>>
    BY <1>0, <1>p, <1>4, <2>1, HealPlaces, InRegisters
  <2>3. Sound(R2, M2)
    BY <1>0, <2>2, RunsSets
  <2>4. HealRegs(i + 1, R2, b)
    BY <1>0, <1>4, <1>s, <2>2, HealPlaces, HealNames, Names DEF HealRegs, HealSlots, HealWord, Sets
  <2>5. HealSlots(i + 1, M2, b)
    BY <1>0, <1>4, <2>2 DEF HealSlots
  <2> QED BY <1>0, <2>2, <2>3, <2>4, <2>5 DEF Heals, SameCopy, SameCheck
<1>5. CASE i = 5
  <2>1. RsCode[i] = la("a5", Device)
    BY <1>0, <1>5, <1>s, RsText, HealPlaces
  <2>2. Sets(R2, R, "a5", Device) /\ M2 = M /\ p2 = <<"handler_tmr_recoverysync", i + 1>>
    BY <1>0, <1>p, <1>5, <2>1, HealPlaces, InRegisters
  <2>3. Sound(R2, M2)
    BY <1>0, <2>2, RunsSets
  <2>4. HealRegs(i + 1, R2, b)
    BY <1>0, <1>5, <1>s, <2>2, HealPlaces, HealNames, Names DEF HealRegs, HealSlots, HealWord, Sets
  <2>5. HealSlots(i + 1, M2, b)
    BY <1>0, <1>5, <2>2 DEF HealSlots
  <2> QED BY <1>0, <2>2, <2>3, <2>4, <2>5 DEF Heals, SameCopy, SameCheck
<1>6. CASE i = 6
  <2>1. RsCode[i] = lw("a4", 3, "sp") /\ R["sp"] = <<"stack", Top(b) - 4>>
    BY <1>0, <1>6, <1>s, RsText, HealPlaces
  <2>2. Sets(R2, R, "a4", St(M, Top(b) - 1)) /\ M2 = M /\ p2 = <<"handler_tmr_recoverysync", i + 1>>
    BY <1>0, <1>p, <1>6, <2>1, HealPlaces, OnStack
  <2>3. Sound(R2, M2)
    BY <1>0, <2>2, RunsSets
  <2>4. HealRegs(i + 1, R2, b)
    BY <1>0, <1>6, <1>s, <2>2, HealPlaces, HealNames, Names DEF HealRegs, HealSlots, HealWord, Sets
  <2>5. HealSlots(i + 1, M2, b)
    BY <1>0, <1>6, <2>2 DEF HealSlots
  <2> QED BY <1>0, <2>2, <2>3, <2>4, <2>5 DEF Heals, SameCopy, SameCheck
<1>7. CASE i = 7
  <2>1. RsCode[i] = lw("a5", 2, "sp") /\ R["sp"] = <<"stack", Top(b) - 4>>
    BY <1>0, <1>7, <1>s, RsText, HealPlaces
  <2>2. Sets(R2, R, "a5", St(M, Top(b) - 2)) /\ M2 = M /\ p2 = <<"handler_tmr_recoverysync", i + 1>>
    BY <1>0, <1>p, <1>7, <2>1, HealPlaces, OnStack
  <2>3. Sound(R2, M2)
    BY <1>0, <2>2, RunsSets
  <2>4. HealRegs(i + 1, R2, b)
    BY <1>0, <1>7, <1>s, <2>2, HealPlaces, HealNames, Names DEF HealRegs, HealSlots, HealWord, Sets
  <2>5. HealSlots(i + 1, M2, b)
    BY <1>0, <1>7, <2>2 DEF HealSlots
  <2> QED BY <1>0, <2>2, <2>3, <2>4, <2>5 DEF Heals, SameCopy, SameCheck
<1>8. ASSUME NEW n \in 6 .. 36, i = n + 2
      PROVE  p2 = <<"handler_tmr_recoverysync", i + 1>> /\ Heals(i + 1, R2, M2, b) /\ SameCopy(M2, M) /\ SameCheck(M2, M)
  <2>1. RsCode[i] = sw(Order[n], 5 - n, "sp") /\ R["sp"] = <<"stack", Top(b) - 4>>
    BY <1>0, <1>8, <1>s, RsText
  <2>2. R2 = R /\ StackWrite(M2, M, Top(b) + 1 - n, R[Order[n]]) /\ p2 = <<"handler_tmr_recoverysync", i + 1>>
    BY <1>0, <1>p, <1>8, <2>1, HealPlaces, OnStack
  <2>3. Sound(R2, M2) /\ HealStack(M2, b)
    <3>1. Top(b) + 1 - n \in Stacks /\ Top(b) + 1 - n < Top(b)
      BY <1>0, <1>8, HealPlaces
    <3> QED BY <1>0, <2>2, <3>1, HealKeeps
  <2>4. HealRegs(i + 1, R2, b)
    BY <1>0, <1>8, <1>s, <2>2, HealNames, Names DEF HealRegs
  <2>5. HealSlots(i + 1, M2, b)
    BY <1>0, <1>8, <1>s, <2>2, HealPlaces, HealNames, Names DEF HealSlots, HealRegs, HealWord, StackWrite
  <2> QED BY <2>2, <2>3, <2>4, <2>5 DEF Heals, StackWrite
<1>9. ASSUME NEW n \in 1 .. 5, i = 37 + 2 * n
      PROVE  p2 = <<"handler_tmr_recoverysync", i + 1>> /\ Heals(i + 1, R2, M2, b) /\ SameCopy(M2, M) /\ SameCheck(M2, M)
  <2>1. RsCode[i] = mv("t6", Order[n])
    BY <1>0, <1>9, <1>s, RsText, HealPlaces
  <2>2. Sets(R2, R, "t6", R[Order[n]]) /\ M2 = M /\ p2 = <<"handler_tmr_recoverysync", i + 1>>
    BY <1>0, <1>p, <1>9, <2>1, HealPlaces, InRegisters
  <2>3. Sound(R2, M2)
    BY <1>0, <2>2, RunsSets
  <2>4. HealRegs(i + 1, R2, b)
    BY <1>0, <1>9, <1>s, <2>2, HealPlaces, HealNames, Names DEF HealRegs, HealSlots, HealWord, Sets
  <2>5. HealSlots(i + 1, M2, b)
    BY <1>0, <1>9, <2>2 DEF HealSlots
  <2> QED BY <1>0, <2>2, <2>3, <2>4, <2>5 DEF Heals, SameCopy, SameCheck
<1>10. ASSUME NEW n \in 1 .. 5, i = 38 + 2 * n
      PROVE  p2 = <<"handler_tmr_recoverysync", i + 1>> /\ Heals(i + 1, R2, M2, b) /\ SameCopy(M2, M) /\ SameCheck(M2, M)
  <2>1. RsCode[i] = sw("t6", -31 - n, "sp") /\ R["sp"] = <<"stack", Top(b) - 4>>
    BY <1>0, <1>10, <1>s, RsText
  <2>2. R2 = R /\ StackWrite(M2, M, Top(b) - 35 - n, R["t6"]) /\ p2 = <<"handler_tmr_recoverysync", i + 1>>
    BY <1>0, <1>p, <1>10, <2>1, HealPlaces, OnStack
  <2>3. Sound(R2, M2) /\ HealStack(M2, b)
    <3>1. Top(b) - 35 - n \in Stacks /\ Top(b) - 35 - n < Top(b)
      BY <1>0, <1>10, HealPlaces
    <3> QED BY <1>0, <2>2, <3>1, HealKeeps
  <2>4. HealRegs(i + 1, R2, b)
    BY <1>0, <1>10, <1>s, <2>2, HealNames, Names DEF HealRegs
  <2>5. HealSlots(i + 1, M2, b)
    BY <1>0, <1>10, <1>s, <2>2, HealPlaces, HealNames, Names DEF HealSlots, HealRegs, HealWord, StackWrite
  <2> QED BY <2>2, <2>3, <2>4, <2>5 DEF Heals, StackWrite
<1>11. ASSUME NEW n \in 1 .. 5, i = 47 + 2 * n
      PROVE  p2 = <<"handler_tmr_recoverysync", i + 1>> /\ Heals(i + 1, R2, M2, b) /\ SameCopy(M2, M) /\ SameCheck(M2, M)
  <2>1. RsCode[i] = lw("t6", -31 - n, "sp") /\ R["sp"] = <<"stack", Top(b) - 4>>
    BY <1>0, <1>11, <1>s, RsText, HealPlaces
  <2>2. Sets(R2, R, "t6", St(M, Top(b) - 35 - n)) /\ M2 = M /\ p2 = <<"handler_tmr_recoverysync", i + 1>>
    BY <1>0, <1>p, <1>11, <2>1, HealPlaces, OnStack
  <2>3. Sound(R2, M2)
    BY <1>0, <2>2, RunsSets
  <2>4. HealRegs(i + 1, R2, b)
    BY <1>0, <1>11, <1>s, <2>2, HealPlaces, HealNames, Names DEF HealRegs, HealSlots, HealWord, Sets
  <2>5. HealSlots(i + 1, M2, b)
    BY <1>0, <1>11, <2>2 DEF HealSlots
  <2> QED BY <1>0, <2>2, <2>3, <2>4, <2>5 DEF Heals, SameCopy, SameCheck
<1>12. ASSUME NEW n \in 1 .. 5, i = 48 + 2 * n
      PROVE  p2 = <<"handler_tmr_recoverysync", i + 1>> /\ Heals(i + 1, R2, M2, b) /\ SameCopy(M2, M) /\ SameCheck(M2, M)
  <2>1. RsCode[i] = mv(Order[n], "t6")
    BY <1>0, <1>12, <1>s, RsText, HealPlaces
  <2>2. Sets(R2, R, Order[n], R["t6"]) /\ M2 = M /\ p2 = <<"handler_tmr_recoverysync", i + 1>>
    BY <1>0, <1>p, <1>12, <2>1, HealPlaces, InRegisters
  <2>3. Sound(R2, M2)
    BY <1>0, <2>2, RunsSets
  <2>4. HealRegs(i + 1, R2, b)
    BY <1>0, <1>12, <1>s, <2>2, HealPlaces, HealNames, Names DEF HealRegs, HealSlots, HealWord, Sets
  <2>5. HealSlots(i + 1, M2, b)
    BY <1>0, <1>12, <2>2 DEF HealSlots
  <2> QED BY <1>0, <2>2, <2>3, <2>4, <2>5 DEF Heals, SameCopy, SameCheck
<1>13. ASSUME NEW n \in 6 .. 36, i = n + 53
      PROVE  p2 = <<"handler_tmr_recoverysync", i + 1>> /\ Heals(i + 1, R2, M2, b) /\ SameCopy(M2, M) /\ SameCheck(M2, M)
  <2>1. RsCode[i] = lw(Order[n], 5 - n, "sp") /\ R["sp"] = <<"stack", Top(b) - 4>>
    BY <1>0, <1>13, <1>s, RsText, HealPlaces
  <2>2. Sets(R2, R, Order[n], St(M, Top(b) + 1 - n)) /\ M2 = M /\ p2 = <<"handler_tmr_recoverysync", i + 1>>
    BY <1>0, <1>p, <1>13, <2>1, HealPlaces, OnStack
  <2>3. Sound(R2, M2)
    BY <1>0, <2>2, RunsSets
  <2>4. HealRegs(i + 1, R2, b)
    BY <1>0, <1>13, <1>s, <2>2, HealPlaces, HealNames, Names DEF HealRegs, HealSlots, HealWord, Sets
  <2>5. HealSlots(i + 1, M2, b)
    BY <1>0, <1>13, <2>2 DEF HealSlots
  <2> QED BY <1>0, <2>2, <2>3, <2>4, <2>5 DEF Heals, SameCopy, SameCheck
<1>14. CASE i = 90
  <2>1. RsCode[i] = la("a5", Device)
    BY <1>0, <1>14, <1>s, RsText, HealPlaces
  <2>2. Sets(R2, R, "a5", Device) /\ M2 = M /\ p2 = <<"handler_tmr_recoverysync", i + 1>>
    BY <1>0, <1>p, <1>14, <2>1, HealPlaces, InRegisters
  <2>3. Sound(R2, M2)
    BY <1>0, <2>2, RunsSets
  <2>4. HealRegs(i + 1, R2, b)
    BY <1>0, <1>14, <1>s, <2>2, HealPlaces, HealNames, Names DEF HealRegs, HealSlots, HealWord, Sets
  <2>5. HealSlots(i + 1, M2, b)
    BY <1>0, <1>14, <2>2 DEF HealSlots
  <2> QED BY <1>0, <2>2, <2>3, <2>4, <2>5 DEF Heals, SameCopy, SameCheck
<1>15. CASE i = 91
  <2>1. RsCode[i] = lw("a5", 2, "sp") /\ R["sp"] = <<"stack", Top(b) - 4>>
    BY <1>0, <1>15, <1>s, RsText, HealPlaces
  <2>2. Sets(R2, R, "a5", St(M, Top(b) - 2)) /\ M2 = M /\ p2 = <<"handler_tmr_recoverysync", i + 1>>
    BY <1>0, <1>p, <1>15, <2>1, HealPlaces, OnStack
  <2>3. Sound(R2, M2)
    BY <1>0, <2>2, RunsSets
  <2>4. HealRegs(i + 1, R2, b)
    BY <1>0, <1>15, <1>s, <2>2, HealPlaces, HealNames, Names DEF HealRegs, HealSlots, HealWord, Sets
  <2>5. HealSlots(i + 1, M2, b)
    BY <1>0, <1>15, <2>2 DEF HealSlots
  <2> QED BY <1>0, <2>2, <2>3, <2>4, <2>5 DEF Heals, SameCopy, SameCheck
<1>16. CASE i = 92
  <2>1. RsCode[i] = addi("sp", "sp", 4) /\ R["sp"] = <<"stack", Top(b) - 4>> /\ Top(b) - 4 \in Int
    BY <1>0, <1>16, <1>s, RsText, HealPlaces
  <2>2. Sets(R2, R, "sp", <<"stack", Top(b) - 4 + 4>>) /\ M2 = M /\ p2 = <<"handler_tmr_recoverysync", i + 1>>
    BY <1>p, <2>1, Adds
  <2>3. Sound(R2, M2)
    BY <1>0, <2>2, RunsSets
  <2>4. HealRegs(i + 1, R2, b)
    BY <1>0, <1>16, <1>s, <2>2, HealPlaces, HealNames, Names DEF HealRegs, HealSlots, HealWord, Sets
  <2>5. HealSlots(i + 1, M2, b)
    BY <1>0, <1>16, <2>2 DEF HealSlots
  <2> QED BY <1>0, <2>2, <2>3, <2>4, <2>5 DEF Heals, SameCopy, SameCheck
<1>17. \/ i \in 1 .. 7 \/ i \in 90 .. 92
       \/ \E n \in 6 .. 36 : i = n + 2 \/ i = n + 53
       \/ \E n \in 1 .. 5 : i = 37 + 2 * n \/ i = 38 + 2 * n \/ i = 47 + 2 * n \/ i = 48 + 2 * n
  OBVIOUS
<1> QED BY <1>1, <1>2, <1>3, <1>4, <1>5, <1>6, <1>7, <1>8, <1>9, <1>10, <1>11, <1>12, <1>13, <1>14,
           <1>15, <1>16, <1>17

\* Two harts that do the same have the same where they had it, and where both
\* load it.
LEMMA BothSet ==
  ASSUME NEW Q, NEW R, NEW Q2, NEW R2, NEW x, NEW v, NEW w, DOMAIN Q = Reg, DOMAIN R = Reg, x \in Reg,
         Sets(Q2, Q, x, v), Sets(R2, R, x, w)
  PROVE  /\ \A r \in Reg : r # x /\ Q[r] = R[r] => Q2[r] = R2[r]
         /\ v = w => Q2[x] = R2[x]
BY DEF Sets

LEMMA AddiSets ==
  ASSUME NEW x, NEW y, NEW k, NEW R, NEW M, NEW p, NEW Q, NEW Q2, Regs(addi(x, y, k), R, M, p, Q, Q2)
  PROVE  Sets(Q2, Q, x, Offset(Q[y], k))
BY DoAddi

LEMMA LaSets ==
  ASSUME NEW x, NEW v, NEW R, NEW M, NEW p, NEW Q, NEW Q2, Regs(la(x, v), R, M, p, Q, Q2)
  PROVE  Sets(Q2, Q, x, v)
BY DoLa

LEMMA MvSets ==
  ASSUME NEW x, NEW y, NEW R, NEW M, NEW p, NEW Q, NEW Q2, Regs(mv(x, y), R, M, p, Q, Q2)
  PROVE  Sets(Q2, Q, x, Q[y])
BY DoMv

LEMMA LwSets ==
  ASSUME NEW x, NEW y, NEW k, NEW R, NEW M, NEW p, NEW Q, NEW Q2, Regs(lw(x, k, y), R, M, p, Q, Q2)
  PROVE  Sets(Q2, Q, x, M[Offset(R[y], k)])
BY DoLw

LEMMA RsMends ==
  ASSUME NEW i \in 1 .. 92, NEW R, NEW M, NEW p, NEW Q, NEW R2, NEW Q2, DOMAIN Q = Reg, DOMAIN R = Reg,
         Mended(i, Q, R), Regs(RsCode[i], R, M, p, Q, Q2), Regs(RsCode[i], R, M, p, R, R2)
  PROVE  Mended(i + 1, Q2, R2)
<1>1. CASE i < 49
  BY <1>1 DEF Mended
<1>2. ASSUME NEW n \in 1 .. 5, i = 47 + 2 * n
      PROVE  Mended(i + 1, Q2, R2)
  <2>1. RsCode[i] = lw("t6", -31 - n, "sp")
    BY <1>2, RsText
  <2>2. PICK v : Sets(Q2, Q, "t6", v) /\ Sets(R2, R, "t6", v)
    BY <2>1, LwSets
  <2> QED BY <1>2, <2>2, BothSet, HealNames, Names DEF Mended
<1>3. ASSUME NEW n \in 1 .. 5, i = 48 + 2 * n
      PROVE  Mended(i + 1, Q2, R2)
  <2>1. Regs(mv(Order[n], "t6"), R, M, p, Q, Q2) /\ Regs(mv(Order[n], "t6"), R, M, p, R, R2)
    BY <1>3, RsText
  <2>2. Sets(Q2, Q, Order[n], Q["t6"]) /\ Sets(R2, R, Order[n], R["t6"]) /\ Q["t6"] = R["t6"]
    <3>1. Sets(Q2, Q, Order[n], Q["t6"]) /\ Sets(R2, R, Order[n], R["t6"])
      BY <2>1, MvSets
    <3> QED BY <1>3, <3>1 DEF Mended
  <2>3. \A k \in 1 .. 5 : i + 1 >= 49 + 2 * k /\ k # n => i >= 49 + 2 * k
    BY <1>3
  <2>4. \A k \in 6 .. 36 : i + 1 < k + 54
    BY <1>3
  <2>5. Q2[Order[n]] = R2[Order[n]] /\ \A r \in Reg : r # Order[n] /\ Q[r] = R[r] => Q2[r] = R2[r]
    BY <2>2, BothSet, HealNames
  <2> QED BY <1>3, <2>2, <2>3, <2>4, <2>5, HealNames, OrderIsOne, Names DEF Mended
<1>4. ASSUME NEW n \in 6 .. 36, i = n + 53
      PROVE  Mended(i + 1, Q2, R2)
  <2>1. Regs(lw(Order[n], 5 - n, "sp"), R, M, p, Q, Q2) /\ Regs(lw(Order[n], 5 - n, "sp"), R, M, p, R, R2)
    BY <1>4, RsText
  <2>2. PICK v : Sets(Q2, Q, Order[n], v) /\ Sets(R2, R, Order[n], v)
    BY <2>1, LwSets
  <2>3. Q2[Order[n]] = R2[Order[n]] /\ \A r \in Reg : r # Order[n] /\ Q[r] = R[r] => Q2[r] = R2[r]
    BY <2>2, BothSet, HealNames
  <2>4. \A k \in 6 .. 36 : i + 1 >= k + 54 /\ k # n => i >= k + 54
    BY <1>4
  <2> QED BY <1>4, <2>3, <2>4, HealNames, OrderIsOne, Names DEF Mended
<1>5. CASE i \in {90, 91}
  <2>1. PICK v : Sets(Q2, Q, "a5", v) /\ Sets(R2, R, "a5", v)
    <3>1. CASE i = 90
      <4>1. RsCode[i] = la("a5", Device)
        BY <3>1, RsText
      <4> QED BY <4>1, LaSets
    <3>2. CASE i = 91
      <4>1. RsCode[i] = lw("a5", 2, "sp")
        BY <3>2, RsText
      <4> QED BY <4>1, LwSets
    <3> QED BY <1>5, <3>1, <3>2
  <2>2. \A r \in Reg : Q[r] = R[r] => Q2[r] = R2[r]
    BY <2>1, BothSet, Names
  <2> QED BY <1>5, <2>2, HealNames, Names DEF Mended
<1>6. CASE i = 92
  <2>1. RsCode[i] = addi("sp", "sp", 4)
    BY <1>6, RsText
  <2>2. Q["sp"] = R["sp"]
    BY <1>6, OrderList DEF Mended
  <2>3. PICK v : Sets(Q2, Q, "sp", v) /\ Sets(R2, R, "sp", v)
    BY <2>1, <2>2, AddiSets
  <2>4. \A r \in Reg : Q[r] = R[r] => Q2[r] = R2[r]
    BY <2>3, BothSet, Names
  <2> QED BY <1>6, <2>4, HealNames, Names DEF Mended
<1>7. \/ i < 49 \/ i \in {90, 91} \/ i = 92
      \/ \E n \in 6 .. 36 : i = n + 53
      \/ \E n \in 1 .. 5 : i = 47 + 2 * n \/ i = 48 + 2 * n
  OBVIOUS
<1> QED BY <1>1, <1>2, <1>3, <1>4, <1>5, <1>6, <1>7

\* At the end of the repair every register is as it was.
LEMMA Healed ==
  ASSUME NEW R, NEW M, NEW b, b.reg["sp"] = <<"stack", Top(b)>>, Heals(93, R, M, b), NEW Q, Mended(93, Q, R)
  PROVE  Alike(R, b.reg) /\ Alike(Q, R)
<1>1. \A r \in Vis : R[r] = b.reg[r]
  BY DEF Heals, HealRegs
<1>2. \A n \in 1 .. 36 : Q[Order[n]] = R[Order[n]]
  BY DEF Mended
<1> QED BY <1>1, <1>2, VisIs DEF Alike

(***************************************************************************)
(* halt_boot.                                                              *)
(***************************************************************************)
LEMMA LoadedPlaces ==
  /\ \A n \in 1 .. 5 : LoadedAt(n) = 2 * n + 2
  /\ \A n \in 6 .. 9 : LoadedAt(n) = n + 7
  /\ \A n \in 10 .. 34 : LoadedAt(n) = n + 10
  /\ LoadedAt(35) = 48 /\ LoadedAt(36) = 47
BY DEF LoadedAt

Loading == {3, 5, 7, 9, 11} \cup 12 .. 15 \cup 19 .. 43 \cup {46, 47}
LEMMA LoadedOnce ==
  /\ \A n \in 1 .. 36 : LoadedAt(n) \in 4 .. 48 /\ LoadedAt(n) - 1 \in Loading
  /\ \A n, k \in 1 .. 36 : LoadedAt(n) = LoadedAt(k) => n = k
  /\ \A n \in 1 .. 9 : LoadedAt(n) <= 16
  /\ \A n \in 10 .. 36 : LoadedAt(n) >= 20
<1>1. \A n \in 1 .. 36 : n \in 1 .. 5 \/ n \in 6 .. 9 \/ n \in 10 .. 34 \/ n = 35 \/ n = 36
  OBVIOUS
<1>2. \A n \in 1 .. 36 : LoadedAt(n) \in 4 .. 48 /\ LoadedAt(n) - 1 \in Loading
  BY <1>1, LoadedPlaces DEF Loading
<1>3. \A n, k \in 1 .. 36 : LoadedAt(n) = LoadedAt(k) => n = k
  BY <1>1, LoadedPlaces
<1>4. \A n \in 1 .. 9 : LoadedAt(n) <= 16
  BY LoadedPlaces
<1>5. \A n \in 10 .. 36 : LoadedAt(n) >= 20
  BY <1>1, LoadedPlaces
<1> QED BY <1>2, <1>3, <1>4, <1>5

\* A register is loaded; or another is set, which has not been loaded.
LEMMA WordLoaded ==
  ASSUME NEW i \in Nat, i \in 1 .. 47, NEW R, NEW R2, NEW M, DOMAIN R = Reg, BootWords(i, R, M), NEW n \in Nat, n \in 1 .. 36,
         LoadedAt(n) = i + 1, Sets(R2, R, Order[n], Cp(M, n - 1))
  PROVE  BootWords(i + 1, R2, M)
<1>1. \A k \in 1 .. 36 : k # n => Order[k] # Order[n] /\ Order[k] \in Reg
  BY OrderIsOne, HealNames
<1>2. \A k \in 1 .. 36 : k # n => R2[Order[k]] = R[Order[k]]
  BY <1>1 DEF Sets
<1>3. R2[Order[n]] = Cp(M, n - 1)
  BY DEF Sets
<1>4. \A k \in 1 .. 36 : k # n /\ i + 1 >= LoadedAt(k) => i >= LoadedAt(k)
  BY LoadedOnce
<1> QED BY <1>2, <1>3, <1>4, LoadedOnce DEF BootWords

LEMMA WordKept ==
  ASSUME NEW i \in Nat, i \in 1 .. 47, i \notin Loading, NEW R, NEW R2, NEW M, DOMAIN R = Reg, BootWords(i, R, M),
         NEW x, NEW v, Sets(R2, R, x, v), \A n \in 1 .. 36 : Order[n] = x => LoadedAt(n) > i
  PROVE  BootWords(i + 1, R2, M)
<1>1. \A k \in 1 .. 36 : i + 1 >= LoadedAt(k) => i >= LoadedAt(k)
  BY LoadedOnce
<1>2. \A k \in 1 .. 36 : i >= LoadedAt(k) => Order[k] # x /\ Order[k] \in Reg
  BY HealNames, LoadedOnce
<1>3. \A k \in 1 .. 36 : i >= LoadedAt(k) => R2[Order[k]] = R[Order[k]]
  BY <1>2 DEF Sets
<1> QED BY <1>1, <1>3, LoadedOnce DEF BootWords

\* In the loop, of the registers that have been loaded only sp is used.
LEMMA LoopWords ==
  ASSUME NEW i \in Nat, i \in 49 .. 62, NEW R, NEW R2, NEW M, NEW M2, DOMAIN R = Reg, BootWords(i, R, M),
         \A k \in 0 .. 36 : Cp(M2, k) = Cp(M, k),
         \A n \in 1 .. 9 : n = 7 \/ R2[Order[n]] = R[Order[n]], NEW k \in {i + 1, 18, 53, 60} \ {63},
         \/ k \in 53 .. 61
         \/ i \notin 53 .. 61 /\ R2["sp"] = R["sp"]
         \/ R2["sp"] = Cp(M, 6)
  PROVE  BootWords(k, R2, M2)
<1>1. \A n \in 1 .. 9 : i >= LoadedAt(n) /\ k >= LoadedAt(n)
  BY LoadedOnce
<1>2. \A n \in 10 .. 36 : ~(k \in LoadedAt(n) .. 48)
  BY LoadedOnce
<1>3. \A n \in 1 .. 9 : n # 7 => R2[Order[n]] = Cp(M2, n - 1)
  BY <1>1 DEF BootWords
<1>4. k \notin 53 .. 61 => R2[Order[7]] = Cp(M2, 6)
  BY <1>1, OrderList DEF BootWords
<1> QED BY <1>2, <1>3, <1>4 DEF BootWords

LEMMA LoopNames ==
  /\ \A n \in 1 .. 9 : n # 7 => /\ Order[n] # "sp" /\ Order[n] # "t1" /\ Order[n] # "t2" /\ Order[n] # "t4"
                                /\ Order[n] \in Reg
  /\ \A n \in 1 .. 36 : Order[n] # "dpc"
  /\ \A n \in 1 .. 36 : (Order[n] = "t5" => n = 35) /\ (Order[n] = "t6" => n = 36) /\ (Order[n] = "t0" => n = 10)
  /\ Order[7] = "sp" /\ Order[35] = "t5" /\ Order[36] = "t6" /\ Order[10] = "t0"
BY OrderIsOne, OrderList, HealNames

LEMMA SavedStays ==
  ASSUME NEW M, NEW M2, NEW s, Top(s) \in {-2, 0}, Saved(M, s), SameCopy(M2, M)
  PROVE  Saved(M2, s)
<1>1. \A n \in 1 .. 36 : n - 1 \in Words
  BY DEF Words
<1>2. 36 \in Words /\ \A a \in Top(s) .. 0 : 37 + a - Top(s) \in Words
  BY DEF Words
<1> QED BY <1>1, <1>2 DEF Saved, SameCopy, StackCopied

\* Where it goes.
Continues(i, M, rec, s, p2, R2, M2) ==
  \E k \in 1 .. 62 :
    /\ p2 = <<"halt_boot", k>> /\ Boots(k, R2, M2) /\ SameCopy(M2, M)
    /\ k = i + 1 \/ (i >= 17 /\ k \in {18, 49, 53, 60})
    /\ ~rec => M2 = M /\ k = i + 1
    /\ rec => Recovers(k, R2, M2, s)

LEMMA HbStep ==
  ASSUME NEW i \in 1 .. 62, i # 48, NEW R, NEW M, NEW R2, NEW M2, NEW p2, NEW rec \in BOOLEAN, NEW s,
         Boots(i, R, M), rec \/ i < 48,
         rec => Called("Store_Checkpoint", s) /\ Saved(M, s) /\ Recovers(i, R, M, s),
         Does(HbCode[i], R, M, <<"halt_boot", i>>, rec, R2, M2, p2)
  PROVE  Continues(i, M, rec, s, p2, R2, M2)
<1> DEFINE Goal(k) == /\ p2 = <<"halt_boot", k>> /\ Boots(k, R2, M2) /\ SameCopy(M2, M)
                      /\ k = i + 1 \/ (i >= 17 /\ k \in {18, 49, 53, 60})
                      /\ ~rec => M2 = M /\ k = i + 1
                      /\ rec => Recovers(k, R2, M2, s)
<1> SUFFICES \E q \in 1 .. 62 : Goal(q)
  BY DEF Continues
<1>0. /\ Sound(R, M) /\ BootWords(i, R, M) /\ BootRest(i, R, M) /\ DOMAIN R = Reg /\ DOMAIN M = Places
      /\ St(M, 0) = <<"word", 0>>
  BY DEF Boots, Sound
<1>r. rec => /\ Top(s) \in {-2, 0} /\ s.reg["sp"] = <<"stack", Top(s)>> /\ s.stack[0] = <<"word", 0>>
             /\ Cp(M, 6) = <<"stack", Top(s)>>
  <2>1. Order[7] = "sp" /\ 7 \in 1 .. 36 /\ 7 - 1 = 6
    BY OrderList
  <2> QED BY <2>1, CalledTop DEF Called, Saved
<1>d. \A x, v : Sets(R2, R, x, v) /\ M2 = M => Sound(R2, M2)
  BY <1>0, RunsSets
<1>p. Succ(<<"halt_boot", i>>) = <<"halt_boot", i + 1>>
  BY DEF Succ
<1>c. SameCopy(M, M)
  BY DEF SameCopy
<1>1. CASE i = 1
  <2>1. HbCode[i] = la("t5", Base)
    BY <1>0, <1>1, HbText
  <2>2. Sets(R2, R, "t5", Base) /\ M2 = M /\ p2 = <<"halt_boot", i + 1>>
    BY <1>0, <1>p, <1>1, <2>1, InRegisters
  <2>3. Sound(R2, M2)
    BY <1>d, <2>2
  <2>4. BootWords(i + 1, R2, M2)
    <3>1. i \in 1 .. 47 /\ i \notin Loading /\ \A n \in 1 .. 36 : Order[n] = "t5" => LoadedAt(n) > i
      BY <1>1, LoadedPlaces, LoopNames DEF Loading
    <3> QED BY <1>0, <2>2, <3>1, WordKept
  <2>5. BootRest(i + 1, R2, M2)
    BY <1>0, <1>1, <2>2, HealNames, LoopNames, Names DEF BootRest, Sets, Base
  <2>6. rec => Recovers(i + 1, R2, M2, s)
    BY <1>1, <2>2 DEF Recovers
  <2> QED BY <1>1, <1>c, <2>2, <2>3, <2>4, <2>5, <2>6 DEF Boots
<1>2. ASSUME NEW n \in 1 .. 5, i = 2 * n
      PROVE  Goal(i + 1)
  <2>1. HbCode[i] = lw("t6", n - 1, "t5") /\ R["t5"] = <<"copy", 0>> /\ 0 + (n - 1) = n - 1 /\ n - 1 \in Words /\ n - 1 \in Int
    BY <1>0, <1>2, HbText DEF BootRest, Base, Words
  <2>2. Sets(R2, R, "t6", Cp(M, n - 1)) /\ M2 = M /\ p2 = <<"halt_boot", i + 1>>
    BY <1>0, <1>p, <1>2, <2>1, OnCopy
  <2>3. Sound(R2, M2)
    BY <1>d, <2>2
  <2>4. BootWords(i + 1, R2, M2)
    <3>1. i \in 1 .. 47 /\ i \notin Loading /\ \A q \in 1 .. 36 : Order[q] = "t6" => LoadedAt(q) > i
      BY <1>2, LoadedPlaces, LoopNames DEF Loading
    <3> QED BY <1>0, <2>2, <3>1, WordKept
  <2>5. BootRest(i + 1, R2, M2)
    BY <1>0, <1>2, <2>2, HealNames, LoopNames, Names DEF BootRest, Sets, Base
  <2>6. rec => Recovers(i + 1, R2, M2, s)
    BY <1>2, <2>2 DEF Recovers
  <2> QED BY <1>2, <1>c, <2>2, <2>3, <2>4, <2>5, <2>6 DEF Boots
<1>3. ASSUME NEW n \in 1 .. 5, i = 2 * n + 1
      PROVE  Goal(i + 1)
  <2>1. HbCode[i] = mv(Order[n], "t6") /\ R["t6"] = Cp(M, n - 1)
    BY <1>0, <1>3, HbText DEF BootRest
  <2>2. Sets(R2, R, Order[n], Cp(M, n - 1)) /\ M2 = M /\ p2 = <<"halt_boot", i + 1>>
    BY <1>0, <1>p, <1>3, <2>1, InRegisters
  <2>3. Sound(R2, M2)
    BY <1>d, <2>2
  <2>4. BootWords(i + 1, R2, M2)
    <3>1. LoadedAt(n) = i + 1 /\ n \in 1 .. 36 /\ i \in 1 .. 47
      BY <1>3, LoadedPlaces
    <3> QED BY <1>0, <2>2, <3>1, WordLoaded
  <2>5. BootRest(i + 1, R2, M2)
    BY <1>0, <1>3, <2>2, HealNames, LoopNames, Names DEF BootRest, Sets, Base
  <2>6. rec => Recovers(i + 1, R2, M2, s)
    BY <1>3, <2>2 DEF Recovers
  <2> QED BY <1>3, <1>c, <2>2, <2>3, <2>4, <2>5, <2>6 DEF Boots
<1>4. ASSUME NEW n \in 6 .. 9, i = n + 6
      PROVE  Goal(i + 1)
  <2>1. HbCode[i] = lw(Order[n], n - 1, "t5") /\ R["t5"] = <<"copy", 0>> /\ 0 + (n - 1) = n - 1 /\ n - 1 \in Words /\ n - 1 \in Int
    BY <1>0, <1>4, HbText DEF BootRest, Base, Words
  <2>2. Sets(R2, R, Order[n], Cp(M, n - 1)) /\ M2 = M /\ p2 = <<"halt_boot", i + 1>>
    BY <1>0, <1>p, <1>4, <2>1, OnCopy
  <2>3. Sound(R2, M2)
    BY <1>d, <2>2
  <2>4. BootWords(i + 1, R2, M2)
    <3>1. LoadedAt(n) = i + 1 /\ n \in 1 .. 36 /\ i \in 1 .. 47
      BY <1>4, LoadedPlaces
    <3> QED BY <1>0, <2>2, <3>1, WordLoaded
  <2>5. BootRest(i + 1, R2, M2)
    BY <1>0, <1>4, <2>2, HealNames, LoopNames, Names DEF BootRest, Sets, Base
  <2>6. rec => Recovers(i + 1, R2, M2, s)
    BY <1>4, <2>2 DEF Recovers
  <2> QED BY <1>4, <1>c, <2>2, <2>3, <2>4, <2>5, <2>6 DEF Boots
<1>5. CASE i = 16
  <2>1. HbCode[i] = la("t0", Device)
    BY <1>0, <1>5, HbText
  <2>2. Sets(R2, R, "t0", Device) /\ M2 = M /\ p2 = <<"halt_boot", i + 1>>
    BY <1>0, <1>p, <1>5, <2>1, InRegisters
  <2>3. Sound(R2, M2)
    BY <1>d, <2>2
  <2>4. BootWords(i + 1, R2, M2)
    <3>1. i \in 1 .. 47 /\ i \notin Loading /\ \A n \in 1 .. 36 : Order[n] = "t0" => LoadedAt(n) > i
      BY <1>5, LoadedPlaces, LoopNames DEF Loading
    <3> QED BY <1>0, <2>2, <3>1, WordKept
  <2>5. BootRest(i + 1, R2, M2)
    BY <1>0, <1>5, <2>2, HealNames, LoopNames, Names DEF BootRest, Sets, Base
  <2>6. rec => Recovers(i + 1, R2, M2, s)
    BY <1>5, <2>2 DEF Recovers
  <2> QED BY <1>5, <1>c, <2>2, <2>3, <2>4, <2>5, <2>6 DEF Boots
<1>6. CASE i = 17
  <2>1. R2 = R /\ M2 = M /\ p2 = IF rec THEN <<"halt_boot", 49>> ELSE <<"halt_boot", i + 1>>
    <3>1. HbCode[i] = bnez("store_stack")
      BY <1>6, HbText
    <3> QED BY <1>p, <3>1, Jumping, Labels
  <2>2. CASE rec
    <3>1. BootWords(49, R, M)
      BY <1>0, <1>6, LoadedOnce DEF BootWords
    <3>2. BootRest(49, R, M) /\ Recovers(49, R, M, s)
      BY <1>0, <1>6 DEF BootRest, Recovers
    <3>3. Goal(49)
      BY <1>0, <1>6, <1>c, <2>1, <2>2, <3>1, <3>2 DEF Boots
    <3> QED BY <3>3
  <2>3. CASE ~rec
    <3>1. BootWords(i + 1, R, M)
      BY <1>0, <1>6, LoadedOnce DEF BootWords
    <3>2. BootRest(i + 1, R, M)
      BY <1>0, <1>6 DEF BootRest
    <3>3. Goal(i + 1)
      BY <1>0, <1>6, <1>c, <2>1, <2>3, <3>1, <3>2 DEF Boots
    <3> QED BY <1>6, <3>3
  <2> QED BY <2>2, <2>3
<1>7. CASE i = 18
  <2>1. R2 = R /\ M2 = M /\ p2 = <<"halt_boot", i + 1>>
    <3>1. HbCode[i] = label("load_register")
      BY <1>7, HbText
    <3> QED BY <1>p, <3>1, Jumping
  <2>2. BootWords(i + 1, R, M)
    BY <1>0, <1>7, LoadedOnce DEF BootWords
  <2>3. BootRest(i + 1, R, M) /\ (rec => Recovers(i + 1, R, M, s))
    BY <1>0, <1>7 DEF BootRest, Recovers
  <2> QED BY <1>0, <1>7, <1>c, <2>1, <2>2, <2>3 DEF Boots
<1>8. ASSUME NEW n \in 10 .. 34, i = n + 9
      PROVE  Goal(i + 1)
  <2>1. HbCode[i] = lw(Order[n], n - 1, "t5") /\ R["t5"] = <<"copy", 0>> /\ 0 + (n - 1) = n - 1 /\ n - 1 \in Words /\ n - 1 \in Int
    BY <1>0, <1>8, HbText DEF BootRest, Base, Words
  <2>2. Sets(R2, R, Order[n], Cp(M, n - 1)) /\ M2 = M /\ p2 = <<"halt_boot", i + 1>>
    BY <1>0, <1>p, <1>8, <2>1, OnCopy
  <2>3. Sound(R2, M2)
    BY <1>d, <2>2
  <2>4. BootWords(i + 1, R2, M2)
    <3>1. LoadedAt(n) = i + 1 /\ n \in 1 .. 36 /\ i \in 1 .. 47
      BY <1>8, LoadedPlaces
    <3> QED BY <1>0, <2>2, <3>1, WordLoaded
  <2>5. BootRest(i + 1, R2, M2)
    BY <1>0, <1>8, <2>2, HealNames, LoopNames, Names DEF BootRest, Sets, Base
  <2>6. rec => Recovers(i + 1, R2, M2, s)
    BY <1>8, <2>2 DEF Recovers
  <2> QED BY <1>8, <1>c, <2>2, <2>3, <2>4, <2>5, <2>6 DEF Boots
<1>9. CASE i = 44
  <2>1. HbCode[i] = lw("t6", 36, "t5") /\ R["t5"] = <<"copy", 0>> /\ 0 + (36) = 36 /\ 36 \in Words /\ 36 \in Int
    BY <1>0, <1>9, HbText DEF BootRest, Base, Words
  <2>2. Sets(R2, R, "t6", Cp(M, 36)) /\ M2 = M /\ p2 = <<"halt_boot", i + 1>>
    BY <1>0, <1>p, <1>9, <2>1, OnCopy
  <2>3. Sound(R2, M2)
    BY <1>d, <2>2
  <2>4. BootWords(i + 1, R2, M2)
    <3>1. i \in 1 .. 47 /\ i \notin Loading /\ \A n \in 1 .. 36 : Order[n] = "t6" => LoadedAt(n) > i
      BY <1>9, LoadedPlaces, LoopNames DEF Loading
    <3> QED BY <1>0, <2>2, <3>1, WordKept
  <2>5. BootRest(i + 1, R2, M2)
    BY <1>0, <1>9, <2>2, HealNames, LoopNames, Names DEF BootRest, Sets, Base
  <2>6. rec => Recovers(i + 1, R2, M2, s)
    BY <1>9, <2>2 DEF Recovers
  <2> QED BY <1>9, <1>c, <2>2, <2>3, <2>4, <2>5, <2>6 DEF Boots
<1>10. CASE i = 45
  <2>1. HbCode[i] = mv("dpc", "t6")
    BY <1>0, <1>10, HbText
  <2>2. Sets(R2, R, "dpc", R["t6"]) /\ M2 = M /\ p2 = <<"halt_boot", i + 1>>
    BY <1>0, <1>p, <1>10, <2>1, InRegisters
  <2>3. Sound(R2, M2)
    BY <1>d, <2>2
  <2>4. BootWords(i + 1, R2, M2)
    <3>1. i \in 1 .. 47 /\ i \notin Loading /\ \A n \in 1 .. 36 : Order[n] = "dpc" => LoadedAt(n) > i
      BY <1>10, LoadedPlaces, LoopNames DEF Loading
    <3> QED BY <1>0, <2>2, <3>1, WordKept
  <2>5. BootRest(i + 1, R2, M2)
    BY <1>0, <1>10, <2>2, HealNames, LoopNames, Names DEF BootRest, Sets, Base
  <2>6. rec => Recovers(i + 1, R2, M2, s)
    BY <1>10, <2>2 DEF Recovers
  <2> QED BY <1>10, <1>c, <2>2, <2>3, <2>4, <2>5, <2>6 DEF Boots
<1>11. CASE i = 46
  <2>1. HbCode[i] = lw("t6", 35, "t5") /\ R["t5"] = <<"copy", 0>> /\ 0 + (35) = 35 /\ 35 \in Words /\ 35 \in Int
    BY <1>0, <1>11, HbText DEF BootRest, Base, Words
  <2>2. Sets(R2, R, "t6", Cp(M, 35)) /\ M2 = M /\ p2 = <<"halt_boot", i + 1>>
    BY <1>0, <1>p, <1>11, <2>1, OnCopy
  <2>3. Sound(R2, M2)
    BY <1>d, <2>2
  <2>4. BootWords(i + 1, R2, M2)
    <3>1. LoadedAt(36) = i + 1 /\ 36 \in 1 .. 36 /\ i \in 1 .. 47 /\ Order[36] = "t6" /\ 36 - 1 = 35
      BY <1>11, LoadedPlaces, LoopNames
    <3> QED BY <1>0, <2>2, <3>1, WordLoaded
  <2>5. BootRest(i + 1, R2, M2)
    BY <1>0, <1>11, <2>2, HealNames, LoopNames, Names DEF BootRest, Sets, Base
  <2>6. rec => Recovers(i + 1, R2, M2, s)
    BY <1>11, <2>2 DEF Recovers
  <2> QED BY <1>11, <1>c, <2>2, <2>3, <2>4, <2>5, <2>6 DEF Boots
<1>12. CASE i = 47
  <2>1. HbCode[i] = lw("t5", 34, "t5") /\ R["t5"] = <<"copy", 0>> /\ 0 + (34) = 34 /\ 34 \in Words /\ 34 \in Int
    BY <1>0, <1>12, HbText DEF BootRest, Base, Words
  <2>2. Sets(R2, R, "t5", Cp(M, 34)) /\ M2 = M /\ p2 = <<"halt_boot", i + 1>>
    BY <1>0, <1>p, <1>12, <2>1, OnCopy
  <2>3. Sound(R2, M2)
    BY <1>d, <2>2
  <2>4. BootWords(i + 1, R2, M2)
    <3>1. LoadedAt(35) = i + 1 /\ 35 \in 1 .. 36 /\ i \in 1 .. 47 /\ Order[35] = "t5" /\ 35 - 1 = 34
      BY <1>12, LoadedPlaces, LoopNames
    <3> QED BY <1>0, <2>2, <3>1, WordLoaded
  <2>5. BootRest(i + 1, R2, M2)
    BY <1>0, <1>12, <2>2, HealNames, LoopNames, Names DEF BootRest, Sets, Base
  <2>6. rec => Recovers(i + 1, R2, M2, s)
    BY <1>12, <2>2 DEF Recovers
  <2> QED BY <1>12, <1>c, <2>2, <2>3, <2>4, <2>5, <2>6 DEF Boots
<1>13. CASE i = 49
  <2>0. rec /\ Recovers(i, R, M, s) /\ Saved(M, s) /\ Top(s) \in {-2, 0} /\ Cp(M, 6) = <<"stack", Top(s)>>
    BY <1>13, <1>r
  <2>2. R2 = R /\ M2 = M /\ p2 = <<"halt_boot", i + 1>>
    <3>1. HbCode[i] = label("store_stack")
      BY <1>13, HbText
    <3> QED BY <1>p, <3>1, Jumping, Labels
  <2>3. Sound(R2, M2)
    BY <1>0, <2>2
  <2>4. BootWords(i + 1, R2, M2)
    <3>1. i \in 49 .. 62 /\ i + 1 \in {i + 1, 18, 53, 60} \ {63}
      BY <1>13
    <3> QED BY <1>0, <2>2, <3>1, LoopWords, <1>13
  <2>5. BootRest(i + 1, R2, M2)
    BY <1>0, <1>13, <2>2, Names DEF BootRest
  <2>6. Recovers(i + 1, R2, M2, s)
    BY <1>13, <2>0, <2>2 DEF Recovers
  <2>7. Goal(i + 1)
    BY <1>13, <1>c, <2>2, <2>3, <2>4, <2>5, <2>6, <2>0 DEF Boots
  <2> QED BY <1>13, <2>7
<1>14. CASE i = 50
  <2>0. rec /\ Recovers(i, R, M, s) /\ Saved(M, s) /\ Top(s) \in {-2, 0} /\ Cp(M, 6) = <<"stack", Top(s)>>
    BY <1>14, <1>r
  <2>1. HbCode[i] = la("t1", StackStart)
    BY <1>0, <1>14, <2>0, HbText
  <2>2. Sets(R2, R, "t1", StackStart) /\ M2 = M /\ p2 = <<"halt_boot", i + 1>>
    BY <1>0, <1>p, <2>1, InRegisters
  <2>3. Sound(R2, M2)
    BY <1>d, <2>2
  <2>4. BootWords(i + 1, R2, M2)
    <3>1. i \in 49 .. 62 /\ i + 1 \in {i + 1, 18, 53, 60} \ {63}
      BY <1>14
    <3> QED BY <1>0, <2>2, <3>1, LoopWords, <1>14, LoopNames, Names DEF Sets
  <2>5. BootRest(i + 1, R2, M2)
    BY <1>0, <1>14, <2>2, Names DEF BootRest, Sets
  <2>6. Recovers(i + 1, R2, M2, s)
    BY <1>0, <1>14, <2>0, <2>2, Names DEF Recovers, Sets
  <2>7. Goal(i + 1)
    BY <1>14, <1>c, <2>2, <2>3, <2>4, <2>5, <2>6, <2>0 DEF Boots
  <2> QED BY <1>14, <2>7
<1>15. CASE i = 51
  <2>0. rec /\ Recovers(i, R, M, s) /\ Saved(M, s) /\ Top(s) \in {-2, 0} /\ Cp(M, 6) = <<"stack", Top(s)>>
    BY <1>15, <1>r
  <2>1. R2 = R /\ M2 = M /\ p2 = IF R["sp"] = R["t1"] THEN <<"halt_boot", 18>> ELSE <<"halt_boot", i + 1>>
    <3>1. HbCode[i] = beq("sp", "t1", "load_register")
      BY <1>15, HbText
    <3> QED BY <1>p, <3>1, Comparing, Labels
  <2>2. R["t1"] = <<"stack", 0>> /\ R["sp"] = <<"stack", Top(s)>>
    BY <1>0, <1>15, <2>0, OrderList, LoadedOnce DEF Recovers, BootWords, StackStart
  <2>3. CASE R["sp"] = R["t1"]
    <3>1. BootWords(18, R, M)
      BY <1>0, <1>15, LoadedOnce DEF BootWords
    <3>2. BootRest(18, R, M)
      BY <1>0, <1>15 DEF BootRest
    <3>3. Recovers(18, R, M, s)
      BY <1>0, <1>r, <1>15, <2>0, <2>2, <2>3 DEF Recovers
    <3>4. Goal(18)
      BY <1>0, <1>15, <1>c, <2>0, <2>1, <2>3, <3>1, <3>2, <3>3 DEF Boots
    <3> QED BY <3>4
  <2>4. CASE R["sp"] # R["t1"]
    <3>1. BootWords(i + 1, R, M)
      BY <1>0, <1>15, LoadedOnce DEF BootWords
    <3>2. BootRest(i + 1, R, M)
      BY <1>0, <1>15 DEF BootRest
    <3>3. Recovers(i + 1, R, M, s)
      BY <1>0, <1>r, <1>15, <2>0, <2>2, <2>4 DEF Recovers
    <3>4. Goal(i + 1)
      BY <1>0, <1>15, <1>c, <2>0, <2>1, <2>4, <3>1, <3>2, <3>3 DEF Boots
    <3> QED BY <1>15, <3>4
  <2> QED BY <2>3, <2>4
<1>16. CASE i = 52
  <2>0. rec /\ Recovers(i, R, M, s) /\ Saved(M, s) /\ Top(s) \in {-2, 0} /\ Cp(M, 6) = <<"stack", Top(s)>>
    BY <1>16, <1>r
  <2>1. HbCode[i] = addi("t2", "t5", 37) /\ R["t5"] = <<"copy", 0>> /\ 0 \in Int /\ 0 + 37 = 37 /\ R["sp"] = <<"stack", Top(s)>>
    BY <1>0, <1>16, <2>0, HbText, OrderList, LoadedOnce DEF BootRest, BootWords, Base
  <2>2. Sets(R2, R, "t2", <<"copy", 37>>) /\ M2 = M /\ p2 = <<"halt_boot", i + 1>>
    BY <1>p, <2>1, Adds
  <2>3. Sound(R2, M2)
    BY <1>d, <2>2
  <2>4. BootWords(i + 1, R2, M2)
    <3>1. i \in 49 .. 62 /\ i + 1 \in {i + 1, 18, 53, 60} \ {63}
      BY <1>16
    <3> QED BY <1>0, <2>2, <3>1, LoopWords, <1>16, LoopNames, Names DEF Sets
  <2>5. BootRest(i + 1, R2, M2)
    BY <1>0, <1>16, <2>2, Names DEF BootRest, Sets
  <2>6. Recovers(i + 1, R2, M2, s)
    BY <1>0, <1>16, <2>0, <2>1, <2>2, Names DEF Recovers, Sets, Restored
  <2>7. Goal(i + 1)
    BY <1>16, <1>c, <2>2, <2>3, <2>4, <2>5, <2>6, <2>0 DEF Boots
  <2> QED BY <1>16, <2>7
<1>17. CASE i = 53
  <2>0. rec /\ Recovers(i, R, M, s) /\ Saved(M, s) /\ Top(s) \in {-2, 0} /\ Cp(M, 6) = <<"stack", Top(s)>>
    BY <1>17, <1>r
  <2>2. R2 = R /\ M2 = M /\ p2 = <<"halt_boot", i + 1>>
    <3>1. HbCode[i] = label("load_stack")
      BY <1>17, HbText
    <3> QED BY <1>p, <3>1, Jumping, Labels
  <2>3. Sound(R2, M2)
    BY <1>0, <2>2
  <2>4. BootWords(i + 1, R2, M2)
    <3>1. i \in 49 .. 62 /\ i + 1 \in {i + 1, 18, 53, 60} \ {63}
      BY <1>17
    <3> QED BY <1>0, <2>2, <3>1, LoopWords, <1>17
  <2>5. BootRest(i + 1, R2, M2)
    BY <1>0, <1>17, <2>2, Names DEF BootRest
  <2>6. Recovers(i + 1, R2, M2, s)
    BY <1>17, <2>0, <2>2 DEF Recovers
  <2>7. Goal(i + 1)
    BY <1>17, <1>c, <2>2, <2>3, <2>4, <2>5, <2>6, <2>0 DEF Boots
  <2> QED BY <1>17, <2>7
<1>18. CASE i = 54
  <2>0. rec /\ Recovers(i, R, M, s) /\ Saved(M, s) /\ Top(s) \in {-2, 0} /\ Cp(M, 6) = <<"stack", Top(s)>>
    BY <1>18, <1>r
  <2>1. HbCode[i] = lw("t4", 0, "t2") /\ R["t2"] = <<"copy", 37 + Restored(R) - Top(s)>> /\ Restored(R) \in Top(s) .. 0
        /\ 37 + Restored(R) - Top(s) + 0 = 37 + Restored(R) - Top(s)
        /\ 37 + Restored(R) - Top(s) \in Words /\ 37 + Restored(R) - Top(s) \in Int
    BY <1>0, <1>18, <2>0, HbText DEF Recovers, Words
  <2>2. Sets(R2, R, "t4", Cp(M, 37 + Restored(R) - Top(s))) /\ M2 = M /\ p2 = <<"halt_boot", i + 1>>
    BY <1>0, <1>p, <2>1, OnCopy
  <2>3. Sound(R2, M2)
    BY <1>d, <2>2
  <2>4. BootWords(i + 1, R2, M2)
    <3>1. i \in 49 .. 62 /\ i + 1 \in {i + 1, 18, 53, 60} \ {63}
      BY <1>18
    <3> QED BY <1>0, <2>2, <3>1, LoopWords, <1>18, LoopNames, Names DEF Sets
  <2>5. BootRest(i + 1, R2, M2)
    BY <1>0, <1>18, <2>2, Names DEF BootRest, Sets
  <2>6. Recovers(i + 1, R2, M2, s)
    BY <1>0, <1>18, <2>0, <2>1, <2>2, Names DEF Recovers, Sets, Restored, Saved, StackCopied
  <2>7. Goal(i + 1)
    BY <1>18, <1>c, <2>2, <2>3, <2>4, <2>5, <2>6, <2>0 DEF Boots
  <2> QED BY <1>18, <2>7
<1>19. CASE i = 55
  <2>0. rec /\ Recovers(i, R, M, s) /\ Saved(M, s) /\ Top(s) \in {-2, 0} /\ Cp(M, 6) = <<"stack", Top(s)>>
    BY <1>19, <1>r
  <2>1. HbCode[i] = sw("t4", 0, "sp") /\ R["sp"] = <<"stack", Restored(R)>> /\ Restored(R) \in Top(s) .. 0
        /\ Restored(R) + 0 = Restored(R) /\ Restored(R) \in Stacks /\ Restored(R) \in Int
    BY <1>0, <1>19, <2>0, HbText DEF Recovers, Stacks
  <2>2. R2 = R /\ StackWrite(M2, M, Restored(R), R["t4"]) /\ p2 = <<"halt_boot", i + 1>>
    BY <1>0, <1>p, <2>1, OnStack
  <2>3. R["t4"] = s.stack[Restored(R)]
    BY <1>19, <2>0 DEF Recovers
  <2>4. \A a \in Top(s) .. 0 : a \in Stacks
    BY <2>0 DEF Stacks
  <2>5. \A a \in Top(s) .. 0 : a <= Restored(R) => St(M2, a) = s.stack[a]
    BY <1>19, <2>0, <2>1, <2>2, <2>3, <2>4 DEF Recovers, StackWrite
  <2>6. St(M2, 0) = <<"word", 0>>
    <3>1. CASE Restored(R) = 0
      BY <1>r, <2>0, <2>2, <2>3, <3>1 DEF StackWrite
    <3>2. CASE Restored(R) # 0
      BY <1>0, <2>2, <3>2 DEF StackWrite, Stacks
    <3> QED BY <3>1, <3>2
  <2>7. Sound(R2, M2) /\ SameCopy(M2, M)
    BY <1>0, <2>2, <2>6 DEF Sound, StackWrite
  <2>8. BootWords(i + 1, R2, M2) /\ BootRest(i + 1, R2, M2)
    <3>1. \A n \in 1 .. 36 : n - 1 \in Words
      BY DEF Words
    <3>2. i + 1 \in 53 .. 61
      BY <1>19
    <3> QED BY <1>0, <1>19, <2>2, <2>7, <3>1, <3>2, LoadedOnce DEF BootWords, BootRest, SameCopy
  <2>9. Recovers(i + 1, R2, M2, s)
    BY <1>19, <2>0, <2>2, <2>5 DEF Recovers
  <2>10. Goal(i + 1)
    BY <1>19, <2>0, <2>2, <2>7, <2>8, <2>9 DEF Boots
  <2> QED BY <1>19, <2>10
<1>20. CASE i = 56
  <2>0. rec /\ Recovers(i, R, M, s) /\ Saved(M, s) /\ Top(s) \in {-2, 0} /\ Cp(M, 6) = <<"stack", Top(s)>>
    BY <1>20, <1>r
  <2>1. R2 = R /\ M2 = M /\ p2 = IF R["sp"] = R["t1"] THEN <<"halt_boot", 60>> ELSE <<"halt_boot", i + 1>>
    <3>1. HbCode[i] = beq("sp", "t1", "restore_sp")
      BY <1>20, HbText
    <3> QED BY <1>p, <3>1, Comparing, Labels
  <2>2. R["t1"] = <<"stack", 0>> /\ R["sp"] = <<"stack", Restored(R)>> /\ Restored(R) \in Top(s) .. 0
    BY <1>0, <1>20, <2>0 DEF Recovers, BootWords, StackStart
  <2>3. CASE R["sp"] = R["t1"]
    <3>1. BootWords(60, R, M)
      BY <1>0, <1>20, LoadedOnce DEF BootWords
    <3>2. BootRest(60, R, M)
      BY <1>0, <1>20 DEF BootRest
    <3>3. Recovers(60, R, M, s)
      BY <1>0, <1>r, <1>20, <2>0, <2>2, <2>3 DEF Recovers
    <3>4. Goal(60)
      BY <1>0, <1>20, <1>c, <2>0, <2>1, <2>3, <3>1, <3>2, <3>3 DEF Boots
    <3> QED BY <3>4
  <2>4. CASE R["sp"] # R["t1"]
    <3>1. BootWords(i + 1, R, M)
      BY <1>0, <1>20, LoadedOnce DEF BootWords
    <3>2. BootRest(i + 1, R, M)
      BY <1>0, <1>20 DEF BootRest
    <3>3. Recovers(i + 1, R, M, s)
      BY <1>0, <1>r, <1>20, <2>0, <2>2, <2>4 DEF Recovers
    <3>4. Goal(i + 1)
      BY <1>0, <1>20, <1>c, <2>0, <2>1, <2>4, <3>1, <3>2, <3>3 DEF Boots
    <3> QED BY <1>20, <3>4
  <2> QED BY <2>3, <2>4
<1>21. CASE i = 57
  <2>0. rec /\ Recovers(i, R, M, s) /\ Saved(M, s) /\ Top(s) \in {-2, 0} /\ Cp(M, 6) = <<"stack", Top(s)>>
    BY <1>21, <1>r
  <2>1. HbCode[i] = addi("t2", "t2", 1) /\ R["t2"] = <<"copy", 37 + Restored(R) - Top(s)>>
        /\ 37 + Restored(R) - Top(s) \in Int /\ Restored(R) \in Top(s) .. 0
    BY <1>0, <1>21, <2>0, HbText DEF Recovers
  <2>2. Sets(R2, R, "t2", <<"copy", 37 + Restored(R) - Top(s) + 1>>) /\ M2 = M /\ p2 = <<"halt_boot", i + 1>>
    BY <1>p, <2>1, Adds
  <2>3. Sound(R2, M2)
    BY <1>d, <2>2
  <2>4. BootWords(i + 1, R2, M2)
    <3>1. i \in 49 .. 62 /\ i + 1 \in {i + 1, 18, 53, 60} \ {63}
      BY <1>21
    <3> QED BY <1>0, <2>2, <3>1, LoopWords, <1>21, LoopNames, Names DEF Sets
  <2>5. BootRest(i + 1, R2, M2)
    BY <1>0, <1>21, <2>2, Names DEF BootRest, Sets
  <2>6. Recovers(i + 1, R2, M2, s)
    BY <1>0, <1>21, <2>0, <2>1, <2>2, Names DEF Recovers, Sets, Restored
  <2>7. Goal(i + 1)
    BY <1>21, <1>c, <2>2, <2>3, <2>4, <2>5, <2>6, <2>0 DEF Boots
  <2> QED BY <1>21, <2>7
<1>22. CASE i = 58
  <2>0. rec /\ Recovers(i, R, M, s) /\ Saved(M, s) /\ Top(s) \in {-2, 0} /\ Cp(M, 6) = <<"stack", Top(s)>>
    BY <1>22, <1>r
  <2>1. HbCode[i] = addi("sp", "sp", 1) /\ R["sp"] = <<"stack", Restored(R)>> /\ Restored(R) \in Int
        /\ Restored(R) \in Top(s) .. 0
    BY <1>0, <1>22, <2>0, HbText DEF Recovers
  <2>2. Sets(R2, R, "sp", <<"stack", Restored(R) + 1>>) /\ M2 = M /\ p2 = <<"halt_boot", i + 1>>
    BY <1>p, <2>1, Adds
  <2>3. Sound(R2, M2)
    BY <1>d, <2>2
  <2>4. BootWords(i + 1, R2, M2)
    <3>1. i \in 49 .. 62 /\ i + 1 \in {i + 1, 18, 53, 60} \ {63}
      BY <1>22
    <3> QED BY <1>0, <2>2, <3>1, LoopWords, <1>22, LoopNames, Names DEF Sets
  <2>5. BootRest(i + 1, R2, M2)
    BY <1>0, <1>22, <2>2, Names DEF BootRest, Sets
  <2>6. Recovers(i + 1, R2, M2, s)
    BY <1>0, <1>22, <2>0, <2>1, <2>2, Names DEF Recovers, Sets, Restored
  <2>7. Goal(i + 1)
    BY <1>22, <1>c, <2>2, <2>3, <2>4, <2>5, <2>6, <2>0 DEF Boots
  <2> QED BY <1>22, <2>7
<1>23. CASE i = 59
  <2>0. rec /\ Recovers(i, R, M, s) /\ Saved(M, s) /\ Top(s) \in {-2, 0} /\ Cp(M, 6) = <<"stack", Top(s)>>
    BY <1>23, <1>r
  <2>2. R2 = R /\ M2 = M /\ p2 = <<"halt_boot", 53>>
    <3>1. HbCode[i] = j("load_stack")
      BY <1>23, HbText
    <3> QED BY <1>p, <3>1, Jumping, Labels
  <2>3. Sound(R2, M2)
    BY <1>0, <2>2
  <2>4. BootWords(53, R2, M2)
    <3>1. i \in 49 .. 62 /\ 53 \in {i + 1, 18, 53, 60} \ {63}
      BY <1>23
    <3> QED BY <1>0, <2>2, <3>1, LoopWords, <1>23
  <2>5. BootRest(53, R2, M2)
    BY <1>0, <1>23, <2>2, Names DEF BootRest
  <2>6. Recovers(53, R2, M2, s)
    BY <1>23, <2>0, <2>2 DEF Recovers
  <2>7. Goal(53)
    BY <1>23, <1>c, <2>2, <2>3, <2>4, <2>5, <2>6, <2>0 DEF Boots
  <2> QED BY <1>23, <2>7
<1>24. CASE i = 60
  <2>0. rec /\ Recovers(i, R, M, s) /\ Saved(M, s) /\ Top(s) \in {-2, 0} /\ Cp(M, 6) = <<"stack", Top(s)>>
    BY <1>24, <1>r
  <2>2. R2 = R /\ M2 = M /\ p2 = <<"halt_boot", i + 1>>
    <3>1. HbCode[i] = label("restore_sp")
      BY <1>24, HbText
    <3> QED BY <1>p, <3>1, Jumping, Labels
  <2>3. Sound(R2, M2)
    BY <1>0, <2>2
  <2>4. BootWords(i + 1, R2, M2)
    <3>1. i \in 49 .. 62 /\ i + 1 \in {i + 1, 18, 53, 60} \ {63}
      BY <1>24
    <3> QED BY <1>0, <2>2, <3>1, LoopWords, <1>24
  <2>5. BootRest(i + 1, R2, M2)
    BY <1>0, <1>24, <2>2, Names DEF BootRest
  <2>6. Recovers(i + 1, R2, M2, s)
    BY <1>24, <2>0, <2>2 DEF Recovers
  <2>7. Goal(i + 1)
    BY <1>24, <1>c, <2>2, <2>3, <2>4, <2>5, <2>6, <2>0 DEF Boots
  <2> QED BY <1>24, <2>7
<1>25. CASE i = 61
  <2>0. rec /\ Recovers(i, R, M, s) /\ Saved(M, s) /\ Top(s) \in {-2, 0} /\ Cp(M, 6) = <<"stack", Top(s)>>
    BY <1>25, <1>r
  <2>1. HbCode[i] = lw("sp", 6, "t5") /\ R["t5"] = <<"copy", 0>> /\ 0 + (6) = 6 /\ 6 \in Words /\ 6 \in Int
    BY <1>0, <1>25, <2>0, HbText DEF BootRest, Base, Words
  <2>2. Sets(R2, R, "sp", Cp(M, 6)) /\ M2 = M /\ p2 = <<"halt_boot", i + 1>>
    BY <1>0, <1>p, <2>1, OnCopy
  <2>3. Sound(R2, M2)
    BY <1>d, <2>2
  <2>4. BootWords(i + 1, R2, M2)
    <3>1. i \in 49 .. 62 /\ i + 1 \in {i + 1, 18, 53, 60} \ {63}
      BY <1>25
    <3> QED BY <1>0, <2>2, <3>1, LoopWords, <1>25, LoopNames, Names DEF Sets
  <2>5. BootRest(i + 1, R2, M2)
    BY <1>0, <1>25, <2>2, Names DEF BootRest, Sets
  <2>6. Recovers(i + 1, R2, M2, s)
    BY <1>0, <1>25, <2>0, <2>2, Names DEF Recovers, Sets
  <2>7. Goal(i + 1)
    BY <1>25, <1>c, <2>2, <2>3, <2>4, <2>5, <2>6, <2>0 DEF Boots
  <2> QED BY <1>25, <2>7
<1>26. CASE i = 62
  <2>0. rec /\ Recovers(i, R, M, s) /\ Saved(M, s) /\ Top(s) \in {-2, 0} /\ Cp(M, 6) = <<"stack", Top(s)>>
    BY <1>26, <1>r
  <2>2. R2 = R /\ M2 = M /\ p2 = <<"halt_boot", 18>>
    <3>1. HbCode[i] = j("load_register")
      BY <1>26, HbText
    <3> QED BY <1>p, <3>1, Jumping, Labels
  <2>3. Sound(R2, M2)
    BY <1>0, <2>2
  <2>4. BootWords(18, R2, M2)
    <3>1. i \in 49 .. 62 /\ 18 \in {i + 1, 18, 53, 60} \ {63}
      BY <1>26
    <3> QED BY <1>0, <2>2, <3>1, LoopWords, <1>26
  <2>5. BootRest(18, R2, M2)
    BY <1>0, <1>26, <2>2, Names DEF BootRest
  <2>6. Recovers(18, R2, M2, s)
    BY <1>26, <2>0, <2>2 DEF Recovers
  <2>7. Goal(18)
    BY <1>26, <1>c, <2>2, <2>3, <2>4, <2>5, <2>6, <2>0 DEF Boots
  <2> QED BY <1>26, <2>7
<1>27. \/ i = 1 \/ i \in 16 .. 18 \/ i \in 44 .. 47 \/ i \in 49 .. 62
       \/ \E n \in 1 .. 5 : i = 2 * n \/ i = 2 * n + 1
       \/ \E n \in 6 .. 9 : i = n + 6
       \/ \E n \in 10 .. 34 : i = n + 9
  OBVIOUS
<1>28. (i < 62 => i + 1 \in 1 .. 62) /\ (Goal(i + 1) /\ i + 1 \in 1 .. 62 => \E q \in 1 .. 62 : Goal(q))
  OBVIOUS
<1> QED BY <1>1, <1>2, <1>3, <1>4, <1>5, <1>6, <1>7, <1>8, <1>9, <1>10, <1>11, <1>12, <1>13, <1>14,
           <1>15, <1>16, <1>17, <1>18, <1>19, <1>20, <1>21, <1>22, <1>23, <1>24, <1>25, <1>26,
           <1>27, <1>28

\* The i-th instruction of the ROM loads no register but x.
LoadsInto(i, x) ==
  /\ x \in Reg /\ i <= 47
  /\ \A n \in 1 .. 36 : LoadedAt(n) = i + 1 => Order[n] = x
  /\ (i = 1 => x = "t5") /\ (i = 2 => x = "t6") /\ (i = 45 => x = "dpc")

\* Two harts that load the same follow each other still.
LEMMA FollowsLoads ==
  ASSUME NEW i \in Nat, i \in 1 .. 47, NEW R, NEW Q, NEW R2, NEW Q2, DOMAIN Q = Reg, DOMAIN R = Reg, Follows(i, Q, R),
         NEW x, NEW v, Sets(Q2, Q, x, v), Sets(R2, R, x, v), LoadsInto(i, x)
  PROVE  Follows(i + 1, Q2, R2)
<1>1. \A r \in Reg : Q[r] = R[r] \/ r = x => Q2[r] = R2[r]
  BY BothSet DEF LoadsInto
<1>2. \A n \in 1 .. 36 : i + 1 >= LoadedAt(n) /\ LoadedAt(n) # i + 1 => i >= LoadedAt(n)
  BY LoadedOnce
<1>3. \A n \in 1 .. 9 : i + 1 >= LoadedAt(n) => Q2[Order[n]] = R2[Order[n]]
  BY <1>1, <1>2, HealNames DEF Follows, LoadsInto
<1>4. \A n \in 10 .. 36 : i + 1 \in LoadedAt(n) .. 48 => Q2[Order[n]] = R2[Order[n]]
  BY <1>1, <1>2, HealNames, LoadedOnce DEF Follows, LoadsInto
<1>5. (i + 1 >= 2 => Q2["t5"] = R2["t5"]) /\ (i + 1 >= 3 => Q2["t6"] = R2["t6"])
      /\ (i + 1 \in 46 .. 48 => Q2["dpc"] = R2["dpc"])
  BY <1>1, Names DEF Follows, LoadsInto
<1> QED BY <1>3, <1>4, <1>5 DEF Follows

LEMMA FollowsLoop ==
  ASSUME NEW i \in Nat, i \in 17 .. 62, NEW R, NEW Q, NEW R2, NEW Q2, DOMAIN Q = Reg, DOMAIN R = Reg, Follows(i, Q, R),
         \A r \in Reg : Q[r] = R[r] /\ r # "t2" => Q2[r] = R2[r],
         NEW k \in {18, 19, 49, 53, 60} \cup 50 .. 63
  PROVE  Follows(k, Q2, R2)
<1>1. \A n \in 1 .. 9 : i >= LoadedAt(n)
  BY LoadedOnce
<1>2. \A n \in 10 .. 36 : ~(k \in LoadedAt(n) .. 48)
  BY LoadedOnce
<1>3. \A n \in 1 .. 9 : Order[n] \in Reg /\ Order[n] # "t2"
  BY LoopNames, OrderList, HealNames, Names
<1> QED BY <1>1, <1>2, <1>3, Names DEF Follows

LEMMA HbFollows ==
  ASSUME NEW i \in Nat, i \in 1 .. 62, i # 48, NEW R, NEW M, NEW p, NEW Q, NEW R2, NEW Q2, DOMAIN Q = Reg, DOMAIN R = Reg,
         Follows(i, Q, R), Regs(HbCode[i], R, M, p, Q, Q2), Regs(HbCode[i], R, M, p, R, R2),
         NEW k, k = i + 1 \/ (i >= 17 /\ k \in {18, 49, 53, 60})
  PROVE  Follows(k, Q2, R2)
<1>s. \A x, v, w : Sets(Q2, Q, x, v) /\ Sets(R2, R, x, w) /\ x \in Reg /\ (v = w \/ x = "t2")
        => \A r \in Reg : Q[r] = R[r] /\ r # "t2" => Q2[r] = R2[r]
  BY BothSet
<1>e. \A r \in Reg : Q[r] = R[r] /\ r # "t2" /\ Q2 = Q /\ R2 = R => Q2[r] = R2[r]
  OBVIOUS
<1>i. i \in {17, 18} \cup 49 .. 62 => i \in 17 .. 62 /\ k \in {18, 19, 49, 53, 60} \cup 50 .. 63
  OBVIOUS
<1>k. i \in 17 .. 47 /\ k # i + 1 => k \in {18, 49, 53, 60}
  OBVIOUS
<1>u. ASSUME NEW n \in Nat, n \in 1 .. 36, LoadedAt(n) = i + 1
      PROVE  \A q \in 1 .. 36 : LoadedAt(q) = i + 1 => Order[q] = Order[n]
  BY <1>u, LoadedOnce
<1>v. i \notin Loading => \A q \in 1 .. 36 : LoadedAt(q) # i + 1
  BY LoadedOnce
<1>o. ASSUME NEW x, NEW v, Sets(Q2, Q, x, v), Sets(R2, R, x, v), LoadsInto(i, x)
      PROVE  Follows(k, Q2, R2)
  <2>1. i \in 1 .. 47 /\ x \in Reg
    BY <1>o DEF LoadsInto
  <2>2. Follows(i + 1, Q2, R2)
    BY <1>o, <2>1, FollowsLoads
  <2>3. CASE k # i + 1
    <3>1. i \in 17 .. 62 /\ k \in {18, 19, 49, 53, 60} \cup 50 .. 63
      BY <2>3, <1>k
    <3>2. \A r \in Reg : Q[r] = R[r] /\ r # "t2" => Q2[r] = R2[r]
      BY <1>o, <1>s, <2>1
    <3> QED BY <3>1, <3>2, FollowsLoop
  <2> QED BY <2>2, <2>3
<1>1. CASE i = 1
  <2>1. Regs(la("t5", Base), R, M, p, Q, Q2) /\ Regs(la("t5", Base), R, M, p, R, R2)
    BY <1>1, HbText
  <2>2. Sets(Q2, Q, "t5", Base) /\ Sets(R2, R, "t5", Base)
    <3>1. Sets(Q2, Q, "t5", Base)
      BY <2>1, LaSets
    <3>2. Sets(R2, R, "t5", Base)
      BY <2>1, LaSets
    <3> QED BY <3>1, <3>2
  <2>3. LoadsInto(i, "t5")
    BY <1>1, <1>v, Names DEF LoadsInto, Loading
  <2> QED BY <1>o, <2>2, <2>3
<1>2. ASSUME NEW n \in 1 .. 5, i = 2 * n
      PROVE  Follows(k, Q2, R2)
  <2>1. Regs(lw("t6", n - 1, "t5"), R, M, p, Q, Q2) /\ Regs(lw("t6", n - 1, "t5"), R, M, p, R, R2)
    BY <1>2, HbText
  <2>2. Sets(Q2, Q, "t6", M[Offset(R["t5"], n - 1)]) /\ Sets(R2, R, "t6", M[Offset(R["t5"], n - 1)])
    <3>1. Sets(Q2, Q, "t6", M[Offset(R["t5"], n - 1)])
      BY <2>1, LwSets
    <3>2. Sets(R2, R, "t6", M[Offset(R["t5"], n - 1)])
      BY <2>1, LwSets
    <3> QED BY <3>1, <3>2
  <2>3. LoadsInto(i, "t6")
    BY <1>2, <1>v, Names DEF LoadsInto, Loading
  <2> QED BY <1>o, <2>2, <2>3
<1>3. ASSUME NEW n \in 1 .. 5, i = 2 * n + 1
      PROVE  Follows(k, Q2, R2)
  <2>1. Regs(mv(Order[n], "t6"), R, M, p, Q, Q2) /\ Regs(mv(Order[n], "t6"), R, M, p, R, R2)
    BY <1>3, HbText
  <2>2. Sets(Q2, Q, Order[n], Q["t6"]) /\ Sets(R2, R, Order[n], R["t6"])
    <3>1. Sets(Q2, Q, Order[n], Q["t6"])
      BY <2>1, MvSets
    <3>2. Sets(R2, R, Order[n], R["t6"])
      BY <2>1, MvSets
    <3> QED BY <3>1, <3>2
  <2>4. Q["t6"] = R["t6"]
    BY <1>3 DEF Follows
  <2>3. LoadsInto(i, Order[n])
    <3>1. n \in 1 .. 36 /\ LoadedAt(n) = i + 1 /\ n \notin {35, 36}
      BY <1>3, LoadedPlaces
    <3>2. \A q \in 1 .. 36 : LoadedAt(q) = i + 1 => Order[q] = Order[n]
      BY <1>u, <3>1
    <3> QED BY <1>3, <3>1, <3>2, HealNames, LoopNames DEF LoadsInto
  <2> QED BY <1>o, <2>2, <2>3, <2>4
<1>4. ASSUME NEW n \in 6 .. 9, i = n + 6
      PROVE  Follows(k, Q2, R2)
  <2>1. Regs(lw(Order[n], n - 1, "t5"), R, M, p, Q, Q2) /\ Regs(lw(Order[n], n - 1, "t5"), R, M, p, R, R2)
    BY <1>4, HbText
  <2>2. Sets(Q2, Q, Order[n], M[Offset(R["t5"], n - 1)]) /\ Sets(R2, R, Order[n], M[Offset(R["t5"], n - 1)])
    <3>1. Sets(Q2, Q, Order[n], M[Offset(R["t5"], n - 1)])
      BY <2>1, LwSets
    <3>2. Sets(R2, R, Order[n], M[Offset(R["t5"], n - 1)])
      BY <2>1, LwSets
    <3> QED BY <3>1, <3>2
  <2>3. LoadsInto(i, Order[n])
    <3>1. n \in 1 .. 36 /\ LoadedAt(n) = i + 1 /\ n \notin {35, 36}
      BY <1>4, LoadedPlaces
    <3>2. \A q \in 1 .. 36 : LoadedAt(q) = i + 1 => Order[q] = Order[n]
      BY <1>u, <3>1
    <3> QED BY <1>4, <3>1, <3>2, HealNames, LoopNames DEF LoadsInto
  <2> QED BY <1>o, <2>2, <2>3
<1>5. CASE i = 16
  <2>1. Regs(la("t0", Device), R, M, p, Q, Q2) /\ Regs(la("t0", Device), R, M, p, R, R2)
    BY <1>5, HbText
  <2>2. Sets(Q2, Q, "t0", Device) /\ Sets(R2, R, "t0", Device)
    <3>1. Sets(Q2, Q, "t0", Device)
      BY <2>1, LaSets
    <3>2. Sets(R2, R, "t0", Device)
      BY <2>1, LaSets
    <3> QED BY <3>1, <3>2
  <2>3. LoadsInto(i, "t0")
    BY <1>5, <1>v, Names DEF LoadsInto, Loading
  <2> QED BY <1>o, <2>2, <2>3
<1>6. ASSUME NEW n \in 10 .. 34, i = n + 9
      PROVE  Follows(k, Q2, R2)
  <2>1. Regs(lw(Order[n], n - 1, "t5"), R, M, p, Q, Q2) /\ Regs(lw(Order[n], n - 1, "t5"), R, M, p, R, R2)
    BY <1>6, HbText
  <2>2. Sets(Q2, Q, Order[n], M[Offset(R["t5"], n - 1)]) /\ Sets(R2, R, Order[n], M[Offset(R["t5"], n - 1)])
    <3>1. Sets(Q2, Q, Order[n], M[Offset(R["t5"], n - 1)])
      BY <2>1, LwSets
    <3>2. Sets(R2, R, Order[n], M[Offset(R["t5"], n - 1)])
      BY <2>1, LwSets
    <3> QED BY <3>1, <3>2
  <2>3. LoadsInto(i, Order[n])
    <3>1. n \in 1 .. 36 /\ LoadedAt(n) = i + 1 /\ n \notin {35, 36}
      BY <1>6, LoadedPlaces
    <3>2. \A q \in 1 .. 36 : LoadedAt(q) = i + 1 => Order[q] = Order[n]
      BY <1>u, <3>1
    <3> QED BY <1>6, <3>1, <3>2, HealNames, LoopNames DEF LoadsInto
  <2> QED BY <1>o, <2>2, <2>3
<1>7. CASE i = 44
  <2>1. Regs(lw("t6", 36, "t5"), R, M, p, Q, Q2) /\ Regs(lw("t6", 36, "t5"), R, M, p, R, R2)
    BY <1>7, HbText
  <2>2. Sets(Q2, Q, "t6", M[Offset(R["t5"], 36)]) /\ Sets(R2, R, "t6", M[Offset(R["t5"], 36)])
    <3>1. Sets(Q2, Q, "t6", M[Offset(R["t5"], 36)])
      BY <2>1, LwSets
    <3>2. Sets(R2, R, "t6", M[Offset(R["t5"], 36)])
      BY <2>1, LwSets
    <3> QED BY <3>1, <3>2
  <2>3. LoadsInto(i, "t6")
    BY <1>7, <1>v, Names DEF LoadsInto, Loading
  <2> QED BY <1>o, <2>2, <2>3
<1>8. CASE i = 45
  <2>1. Regs(mv("dpc", "t6"), R, M, p, Q, Q2) /\ Regs(mv("dpc", "t6"), R, M, p, R, R2)
    BY <1>8, HbText
  <2>2. Sets(Q2, Q, "dpc", Q["t6"]) /\ Sets(R2, R, "dpc", R["t6"])
    <3>1. Sets(Q2, Q, "dpc", Q["t6"])
      BY <2>1, MvSets
    <3>2. Sets(R2, R, "dpc", R["t6"])
      BY <2>1, MvSets
    <3> QED BY <3>1, <3>2
  <2>4. Q["t6"] = R["t6"]
    BY <1>8 DEF Follows
  <2>3. LoadsInto(i, "dpc")
    BY <1>8, <1>v, Names DEF LoadsInto, Loading
  <2> QED BY <1>o, <2>2, <2>3, <2>4
<1>9. CASE i = 46
  <2>1. Regs(lw("t6", 35, "t5"), R, M, p, Q, Q2) /\ Regs(lw("t6", 35, "t5"), R, M, p, R, R2)
    BY <1>9, HbText
  <2>2. Sets(Q2, Q, "t6", M[Offset(R["t5"], 35)]) /\ Sets(R2, R, "t6", M[Offset(R["t5"], 35)])
    <3>1. Sets(Q2, Q, "t6", M[Offset(R["t5"], 35)])
      BY <2>1, LwSets
    <3>2. Sets(R2, R, "t6", M[Offset(R["t5"], 35)])
      BY <2>1, LwSets
    <3> QED BY <3>1, <3>2
  <2>3. LoadsInto(i, "t6")
    BY <1>9, <1>u, LoadedPlaces, LoopNames, Names DEF LoadsInto
  <2> QED BY <1>o, <2>2, <2>3
<1>10. CASE i = 47
  <2>1. Regs(lw("t5", 34, "t5"), R, M, p, Q, Q2) /\ Regs(lw("t5", 34, "t5"), R, M, p, R, R2)
    BY <1>10, HbText
  <2>2. Sets(Q2, Q, "t5", M[Offset(R["t5"], 34)]) /\ Sets(R2, R, "t5", M[Offset(R["t5"], 34)])
    <3>1. Sets(Q2, Q, "t5", M[Offset(R["t5"], 34)])
      BY <2>1, LwSets
    <3>2. Sets(R2, R, "t5", M[Offset(R["t5"], 34)])
      BY <2>1, LwSets
    <3> QED BY <3>1, <3>2
  <2>3. LoadsInto(i, "t5")
    BY <1>10, <1>u, LoadedPlaces, LoopNames, Names DEF LoadsInto
  <2> QED BY <1>o, <2>2, <2>3
<1>11. CASE i \in {17, 18, 49, 51, 53, 55, 56, 59, 60, 62}
  <2>1. HbCode[i][1] \in {"sw", "beq", "bnez", "j", "label"}
    BY <1>11, HbText, Ops
  <2>2. Q2 = Q /\ R2 = R
    BY <2>1 DEF Regs
  <2> QED BY <1>11, <1>e, <1>i, <2>2, FollowsLoop
<1>12. CASE i = 50
  <2>1. Regs(la("t1", StackStart), R, M, p, Q, Q2) /\ Regs(la("t1", StackStart), R, M, p, R, R2)
    BY <1>12, HbText
  <2>2. PICK v, w : Sets(Q2, Q, "t1", v) /\ Sets(R2, R, "t1", w) /\ (v = w \/ "t1" = "t2")
    BY <1>12, <2>1, LaSets
  <2>3. \A r \in Reg : Q[r] = R[r] /\ r # "t2" => Q2[r] = R2[r]
    BY <2>2, <1>s, Names
  <2> QED BY <1>12, <1>i, <2>3, FollowsLoop
<1>13. CASE i = 52
  <2>1. Regs(addi("t2", "t5", 37), R, M, p, Q, Q2) /\ Regs(addi("t2", "t5", 37), R, M, p, R, R2)
    BY <1>13, HbText
  <2>2. PICK v, w : Sets(Q2, Q, "t2", v) /\ Sets(R2, R, "t2", w) /\ (v = w \/ "t2" = "t2")
    BY <1>13, <2>1, AddiSets
  <2>3. \A r \in Reg : Q[r] = R[r] /\ r # "t2" => Q2[r] = R2[r]
    BY <2>2, <1>s, Names
  <2> QED BY <1>13, <1>i, <2>3, FollowsLoop
<1>14. CASE i = 54
  <2>1. Regs(lw("t4", 0, "t2"), R, M, p, Q, Q2) /\ Regs(lw("t4", 0, "t2"), R, M, p, R, R2)
    BY <1>14, HbText
  <2>2. PICK v, w : Sets(Q2, Q, "t4", v) /\ Sets(R2, R, "t4", w) /\ (v = w \/ "t4" = "t2")
    BY <1>14, <2>1, LwSets
  <2>3. \A r \in Reg : Q[r] = R[r] /\ r # "t2" => Q2[r] = R2[r]
    BY <2>2, <1>s, Names
  <2> QED BY <1>14, <1>i, <2>3, FollowsLoop
<1>15. CASE i = 57
  <2>1. Regs(addi("t2", "t2", 1), R, M, p, Q, Q2) /\ Regs(addi("t2", "t2", 1), R, M, p, R, R2)
    BY <1>15, HbText
  <2>2. PICK v, w : Sets(Q2, Q, "t2", v) /\ Sets(R2, R, "t2", w) /\ (v = w \/ "t2" = "t2")
    BY <1>15, <2>1, AddiSets
  <2>3. \A r \in Reg : Q[r] = R[r] /\ r # "t2" => Q2[r] = R2[r]
    BY <2>2, <1>s, Names
  <2> QED BY <1>15, <1>i, <2>3, FollowsLoop
<1>16. CASE i = 58
  <2>1. Regs(addi("sp", "sp", 1), R, M, p, Q, Q2) /\ Regs(addi("sp", "sp", 1), R, M, p, R, R2)
    BY <1>16, HbText
  <2>2. PICK v, w : Sets(Q2, Q, "sp", v) /\ Sets(R2, R, "sp", w) /\ (v = w \/ "sp" = "t2")
    BY <1>16, <2>1, AddiSets, LoadedOnce, LoopNames DEF Follows
  <2>3. \A r \in Reg : Q[r] = R[r] /\ r # "t2" => Q2[r] = R2[r]
    BY <2>2, <1>s, Names
  <2> QED BY <1>16, <1>i, <2>3, FollowsLoop
<1>17. CASE i = 61
  <2>1. Regs(lw("sp", 6, "t5"), R, M, p, Q, Q2) /\ Regs(lw("sp", 6, "t5"), R, M, p, R, R2)
    BY <1>17, HbText
  <2>2. PICK v, w : Sets(Q2, Q, "sp", v) /\ Sets(R2, R, "sp", w) /\ (v = w \/ "sp" = "t2")
    BY <1>17, <2>1, LwSets
  <2>3. \A r \in Reg : Q[r] = R[r] /\ r # "t2" => Q2[r] = R2[r]
    BY <2>2, <1>s, Names
  <2> QED BY <1>17, <1>i, <2>3, FollowsLoop
<1>18. \/ i = 1 \/ i \in 16 .. 18 \/ i \in 44 .. 47 \/ i \in 49 .. 62
       \/ \E n \in 1 .. 5 : i = 2 * n \/ i = 2 * n + 1
       \/ \E n \in 6 .. 9 : i = n + 6
       \/ \E n \in 10 .. 34 : i = n + 9
  OBVIOUS
<1> QED BY <1>1, <1>2, <1>3, <1>4, <1>5, <1>6, <1>7, <1>8, <1>9, <1>10, <1>11, <1>12, <1>13, <1>14,
           <1>15, <1>16, <1>17, <1>18

\* At its end the ROM has loaded every register.
LEMMA Booted ==
  ASSUME NEW R, NEW M, NEW Q, Boots(48, R, M), Follows(48, Q, R)
  PROVE  /\ \A n \in 1 .. 36 : R[Order[n]] = Cp(M, n - 1)
         /\ R["dpc"] = Cp(M, 36) /\ Q["dpc"] = R["dpc"] /\ Alike(Q, R)
<1>1. \A n \in 1 .. 36 : LoadedAt(n) <= 48 /\ (n \in 1 .. 9 \/ n \in 10 .. 36) /\ LoadedAt(n) \in Int
  BY LoadedOnce
<1>2. \A n \in 1 .. 36 : R[Order[n]] = Cp(M, n - 1)
  BY <1>1 DEF Boots, BootWords
<1>3. \A n \in 1 .. 36 : Q[Order[n]] = R[Order[n]]
  BY <1>1 DEF Follows
<1>4. R["dpc"] = Cp(M, 36) /\ Q["dpc"] = R["dpc"]
  BY DEF Boots, BootRest, Follows
<1> QED BY <1>2, <1>3, <1>4, VisIs DEF Alike

(***************************************************************************)
(* The harts together.                                                     *)
(***************************************************************************)
\* Where a group executes, other than in a handler.
Routine(p, R, M, e, m) ==
  \/ p[1] = "main" /\ p[2] \in 6 .. 25 /\ Runs(p[2], R, M)
  \/ p[1] = "Safe_Activate" /\ p[2] \in 56 .. 60 /\ Called(p[1], e) /\ Activates(p[2], R, M, e)
  \/ p[1] = "Store_Checkpoint" /\ p[2] \in 1 .. 77 /\ Called(p[1], e) /\ Checkpoints(p[2], R, M, e, m)
  \/ p[1] = "Check_RF" /\ p[2] \in 1 .. 45 /\ Called(p[1], e) /\ Records(p[2], R, M, e)

\* The caller goes on with its own.
LEMMA Resumes ==
  ASSUME NEW f \in {"Safe_Activate", "Store_Checkpoint", "Check_RF"}, NEW R, NEW M, NEW e, Called(f, e), Keeps(R, M, e),
         R["sp"] = <<"stack", Top(e)>>
  PROVE  \E i \in 6 .. 22 : R["ra"] = <<"main", i>> /\ Runs(i, R, M)
<1>1. PICK i \in Returns[f] : e.reg["ra"] = <<"main", i>> /\ e.reg["sp"] = <<"stack", MainTop(i)>>
  BY DEF Called
<1>2. i \in 6 .. 22
  BY <1>1 DEF Returns
<1>3. R["ra"] = <<"main", i>> /\ R["sp"] = <<"stack", MainTop(i)>>
  BY <1>1, KeptNames DEF Keeps, Top
<1> QED BY <1>2, <1>3 DEF Runs, Keeps

\* Main and the routines that it calls, by themselves.
Steps(p, R, M, p2, R2, M2) ==
  /\ p2 = <<p2[1], p2[2]>> /\ p2[2] \in Nat
  /\ p[1] \in {"main", "Check_RF"} => SameCopy(M2, M) /\ p2[1] \in {"main", "Check_RF"}
  /\ p[1] = "Safe_Activate" => p2[1] \in {"main", "Safe_Activate"}
  /\ p[1] = "Store_Checkpoint" => \/ p[2] # 77 /\ p2[1] = "Store_Checkpoint" /\ p2[2] # 77
                                  \/ p[2] = 77 /\ p2[1] = "main" /\ R2 = R /\ M2 = M

LEMMA RoutineStep ==
  ASSUME NEW p, NEW R, NEW M, NEW R2, NEW M2, NEW p2, NEW rec, NEW e, NEW m,
         p = <<p[1], p[2]>>, Routine(p, R, M, e, m), Does(Code[p[1]][p[2]], R, M, p, rec, R2, M2, p2),
         Code[p[1]][p[2]][1] # "call", p # <<"main", 25>>, p # <<"Store_Checkpoint", 76>>
  PROVE  Routine(p2, R2, M2, e, m) /\ Steps(p, R, M, p2, R2, M2)
<1>1. CASE p[1] = "main"
  <2>1. p[2] \in 6 .. 25 /\ Runs(p[2], R, M) /\ p[2] # 25
    BY <1>1 DEF Routine
  <2>2. Does(MnCode[p[2]], R, M, <<"main", p[2]>>, rec, R2, M2, p2)
    BY <1>1 DEF MnCode
  <2>3. p[2] \notin Calls
    BY <1>1, <2>1, MainText, Ops DEF Calls, MnCode
  <2>5. p[2] \in 1 .. 24
    BY <2>1
  <2>4. p2 = <<"main", p[2] + 1>> /\ Runs(p[2] + 1, R2, M2) /\ SameCopy(M2, M)
    BY <2>1, <2>2, <2>3, <2>5, MainStep
  <2> QED BY <1>1, <2>1, <2>4 DEF Routine, Steps
<1>2. CASE p[1] = "Safe_Activate"
  <2>1. p[2] \in 56 .. 60 /\ Called("Safe_Activate", e) /\ Activates(p[2], R, M, e)
    BY <1>2 DEF Routine
  <2>2. Does(SaCode[p[2]], R, M, <<"Safe_Activate", p[2]>>, rec, R2, M2, p2)
    BY <1>2 DEF SaCode
  <2>3. CASE p[2] # 60
    <3>1. p2 = <<"Safe_Activate", p[2] + 1>> /\ Activates(p[2] + 1, R2, M2, e)
      <4>1. p[2] \in 1 .. 59
        BY <2>1, <2>3
      <4> QED BY <2>1, <2>2, <4>1, SaStep
    <3> QED BY <1>2, <2>1, <2>3, <3>1 DEF Routine, Steps
  <2>4. CASE p[2] = 60
    <3>1. R2 = R /\ M2 = M /\ p2 = R["ra"]
      BY <2>2, <2>4, SaText, Returning
    <3>2. PICK i \in 6 .. 22 : R["ra"] = <<"main", i>> /\ Runs(i, R, M)
      <4>1. Keeps(R, M, e) /\ R["sp"] = <<"stack", Top(e)>>
        BY <2>1, <2>4, CalledTop DEF Activates
      <4> QED BY <2>1, <4>1, Resumes
    <3> QED BY <1>2, <3>1, <3>2 DEF Routine, Steps
  <2> QED BY <2>3, <2>4
<1>3. CASE p[1] = "Store_Checkpoint"
  <2>1. p[2] \in 1 .. 77 /\ Called("Store_Checkpoint", e) /\ Checkpoints(p[2], R, M, e, m) /\ p[2] # 76
    BY <1>3 DEF Routine
  <2>2. Does(ScCode[p[2]], R, M, <<"Store_Checkpoint", p[2]>>, rec, R2, M2, p2)
    BY <1>3 DEF ScCode
  <2>3. CASE p[2] # 77
    <3>1. PICK k \in 2 .. 76 : p2 = <<"Store_Checkpoint", k>> /\ Checkpoints(k, R2, M2, e, m)
      <4>1. PICK i \in 1 .. 75 : i = p[2]
        BY <2>1, <2>3
      <4>2. /\ Called("Store_Checkpoint", e) /\ Checkpoints(i, R, M, e, m)
            /\ Does(ScCode[i], R, M, <<"Store_Checkpoint", i>>, rec, R2, M2, p2)
        BY <2>1, <2>2, <4>1
      <4>3. Onward(p2, R2, M2, e, m)
        BY <4>2, ScStep
      <4> QED BY <4>3 DEF Onward
    <3> QED BY <1>3, <2>1, <2>3, <3>1 DEF Routine, Steps
  <2>4. CASE p[2] = 77
    <3>1. R2 = R /\ M2 = M /\ p2 = R["ra"]
      BY <2>2, <2>4, ScText, Returning
    <3>2. PICK i \in 6 .. 22 : R["ra"] = <<"main", i>> /\ Runs(i, R, M)
      <4>1. Keeps(R, M, e) /\ R["sp"] = <<"stack", Top(e)>>
        BY <2>1, <2>4 DEF Checkpoints, Frame
      <4> QED BY <2>1, <4>1, Resumes
    <3> QED BY <1>3, <2>4, <3>1, <3>2 DEF Routine, Steps
  <2> QED BY <2>3, <2>4
<1>4. CASE p[1] = "Check_RF"
  <2>1. p[2] \in 1 .. 45 /\ Called("Check_RF", e) /\ Records(p[2], R, M, e)
    BY <1>4 DEF Routine
  <2>2. Does(CrCode[p[2]], R, M, <<"Check_RF", p[2]>>, rec, R2, M2, p2)
    BY <1>4 DEF CrCode
  <2>3. CASE p[2] # 45
    <3>1. p2 = <<"Check_RF", p[2] + 1>> /\ Records(p[2] + 1, R2, M2, e) /\ SameCopy(M2, M)
      <4>1. p[2] \in 1 .. 44
        BY <2>1, <2>3
      <4> QED BY <2>1, <2>2, <4>1, CrStep
    <3> QED BY <1>4, <2>1, <2>3, <3>1 DEF Routine, Steps
  <2>4. CASE p[2] = 45
    <3>1. R2 = R /\ M2 = M /\ p2 = R["ra"]
      BY <2>2, <2>4, CrText, Returning
    <3>2. PICK i \in 6 .. 22 : R["ra"] = <<"main", i>> /\ Runs(i, R, M)
      <4>1. Keeps(R, M, e) /\ R["sp"] = <<"stack", Top(e)>>
        BY <2>1, <2>4 DEF Records
      <4> QED BY <2>1, <4>1, Resumes
    <3> QED BY <1>4, <3>1, <3>2 DEF Routine, Steps, SameCopy
  <2> QED BY <2>3, <2>4
<1> QED BY <1>1, <1>2, <1>3, <1>4 DEF Routine

\* A call, by main.
LEMMA RoutineCalls ==
  ASSUME NEW i \in Calls, NEW R, NEW M, NEW R2, NEW M2, NEW p2, NEW rec, NEW m,
         Runs(i, R, M), Does(MnCode[i], R, M, <<"main", i>>, rec, R2, M2, p2), i # 5
  PROVE  /\ Routine(p2, R2, M2, State(R2, M2), m) /\ M2 = M
         /\ p2 = <<MnCode[i][2], 1>> /\ p2[1] \in {"Store_Checkpoint", "Check_RF"}
<1>1. /\ p2 = <<MnCode[i][2], 1>> /\ M2 = M /\ Sound(R2, M) /\ Called(MnCode[i][2], State(R2, M))
      /\ MnCode[i][2] \in {"Store_Checkpoint", "Check_RF"}
  BY MainCalls
<1>2. /\ MnCode[i][2] = "Store_Checkpoint" => Checkpoints(1, R2, M, State(R2, M), m)
      /\ MnCode[i][2] = "Check_RF" => Records(1, R2, M, State(R2, M))
  BY <1>1, Begins
<1> QED BY <1>1, <1>2 DEF Routine

\* The last step of a checkpoint.
LEMMA RoutineEnds ==
  ASSUME NEW R, NEW M, NEW e, NEW m, Routine(<<"Store_Checkpoint", 76>>, R, M, e, m)
  PROVE  /\ Routine(<<"Store_Checkpoint", 77>>, R, M, e, m)
         /\ m = "DCLS" => /\ Saved(M, e) /\ (\A r \in Vis : R[r] = e.reg[r])
                          /\ \A a \in Top(e) .. 0 : St(M, a) = e.stack[a]
<1>1. Called("Store_Checkpoint", e) /\ Checkpoints(76, R, M, e, m)
  BY DEF Routine
<1>2. Top(e) \in {-2, 0} /\ e.reg["sp"] = <<"stack", Top(e)>>
  BY <1>1, CalledTop
<1>3. Keeps(R, M, e) /\ Frame(76, R, e) /\ (m = "DCLS" => Copies(76, R, M, e))
  BY <1>1 DEF Checkpoints
<1>4. Frame(77, R, e)
  BY <1>3 DEF Frame
<1>5. ASSUME m = "DCLS"
      PROVE  /\ Copies(77, R, M, e) /\ Saved(M, e) /\ (\A r \in Vis : R[r] = e.reg[r])
             /\ \A a \in Top(e) .. 0 : St(M, a) = e.stack[a]
  <2>1. CopyRegs(76, R, e) /\ CopySlots(76, M, e) /\ CopyStack(76, R, M, e) /\ CopyWords(76, M, e)
    BY <1>3, <1>5 DEF Copies
  <2>2. \A n \in 1 .. 36 : 76 >= StoredAt(n) /\ 77 >= StoredAt(n)
    <3>1. \A n \in 1 .. 36 : \/ n \in 1 .. 5 \/ n \in 6 .. 7 \/ n \in 8 .. 11 \/ n = 12 \/ n \in 13 .. 32
                             \/ n = 33 \/ n = 34 \/ n = 35 \/ n = 36
      OBVIOUS
    <3> QED BY <3>1, StoredPlaces
  <2>3. CopyRegs(77, R, e)
    BY <2>1 DEF CopyRegs
  <2>4. CopySlots(77, M, e) /\ CopyStack(77, R, M, e)
    BY <2>1 DEF CopySlots, CopyStack
  <2>5. CopyWords(77, M, e)
    BY <2>1, <2>2 DEF CopyWords
  <2>6. Saved(M, e)
    BY <2>1, <2>2 DEF CopyWords, CopyStack, Saved
  <2>7. R["sp"] = e.reg["sp"]
    BY <1>2, <1>3 DEF Frame
  <2>8. \A r \in Vis : R[r] = e.reg[r]
    BY <2>1, <2>7 DEF CopyRegs, Worked
  <2> QED BY <1>3, <2>3, <2>4, <2>5, <2>6, <2>8 DEF Copies, Keeps
<1> QED BY <1>1, <1>3, <1>4, <1>5 DEF Routine, Checkpoints

(***************************************************************************)
(* A repair interrupts them, and uses what is below the stack pointer.     *)
(***************************************************************************)
LEMMA RoutineTop ==
  ASSUME NEW p, NEW R, NEW M, NEW e, NEW m, Routine(p, R, M, e, m)
  PROVE  /\ R["sp"] = <<"stack", R["sp"][2]>> /\ R["sp"][2] \in -9 .. 0 /\ Sound(R, M) /\ p[2] \in Nat
         /\ p[1] # "main" => Called(p[1], e) /\ Top(e) \in {-2, 0} /\ R["sp"][2] <= Top(e)
         /\ p[1] = "Check_RF" /\ p[2] \in 2 .. 44 => R["sp"][2] = Top(e) - 5
<1>1. CASE p[1] = "main"
  BY <1>1 DEF Routine, Runs, MainTop
<1>2. CASE p[1] = "Safe_Activate"
  <2>1. Called("Safe_Activate", e) /\ Activates(p[2], R, M, e) /\ p[2] \in 56 .. 60
    BY <1>2 DEF Routine
  <2> QED BY <1>2, <2>1, CalledTop DEF Activates, Keeps
<1>3. CASE p[1] = "Store_Checkpoint"
  <2>1. Called("Store_Checkpoint", e) /\ Keeps(R, M, e) /\ Frame(p[2], R, e) /\ p[2] \in 1 .. 77
    BY <1>3 DEF Routine, Checkpoints
  <2>2. R["sp"] = <<"stack", IF p[2] \in 2 .. 9 \cup 34 .. 75 THEN Top(e) - 7 ELSE Top(e)>>
    BY <2>1 DEF Frame
  <2> QED BY <1>3, <2>1, <2>2, CalledTop DEF Keeps
<1>4. CASE p[1] = "Check_RF"
  <2>1. Called("Check_RF", e) /\ Records(p[2], R, M, e) /\ p[2] \in 1 .. 45
    BY <1>4 DEF Routine
  <2>2. R["sp"] = <<"stack", IF p[2] \in 2 .. 44 THEN Top(e) - 5 ELSE Top(e)>> /\ Keeps(R, M, e)
    BY <2>1 DEF Records
  <2> QED BY <1>4, <2>1, <2>2, CalledTop DEF Keeps
<1> QED BY <1>1, <1>2, <1>3, <1>4 DEF Routine

LEMMA RoutineAs ==
  ASSUME NEW p, NEW R, NEW M, NEW e, Routine(p, R, M, e, "TCLS"),
         NEW R2, NEW M2, DOMAIN R2 = Reg, DOMAIN M2 = Places, \A r \in Vis : r = "mepc" \/ R2[r] = R[r],
         \A a \in R["sp"][2] .. 0 : St(M2, a) = St(M, a), SameCopy(M2, M), SameCheck(M2, M)
  PROVE  Routine(p, R2, M2, e, "TCLS")
<1>1. /\ R["sp"] = <<"stack", R["sp"][2]>> /\ R["sp"][2] \in -9 .. 0 /\ Sound(R, M)
      /\ p[1] # "main" => Called(p[1], e) /\ Top(e) \in {-2, 0} /\ R["sp"][2] <= Top(e)
      /\ p[1] = "Check_RF" /\ p[2] \in 2 .. 44 => R["sp"][2] = Top(e) - 5
  BY RoutineTop
<1>2. R2["sp"] = R["sp"] /\ Sound(R2, M2)
  <2>1. "sp" # "mepc"
    OBVIOUS
  <2> QED BY <1>1, <2>1, Names DEF Sound
<1>3. ASSUME p[1] # "main", Keeps(R, M, e) PROVE Keeps(R2, M2, e)
  <2>1. \A r \in Kept : R2[r] = R[r]
    BY KeptNames
  <2>2. \A a \in Top(e) .. 0 : St(M2, a) = St(M, a)
    BY <1>1, <1>3
  <2> QED BY <1>2, <1>3, <2>1, <2>2 DEF Keeps
<1>4. CASE p[1] = "main"
  BY <1>2, <1>4 DEF Routine, Runs
<1>5. CASE p[1] = "Safe_Activate"
  <2>1. Called("Safe_Activate", e) /\ Activates(p[2], R, M, e) /\ p[2] \in 56 .. 60
    BY <1>5 DEF Routine
  <2>2. Keeps(R2, M2, e)
    BY <1>3, <1>5, <2>1 DEF Activates
  <2>3. Activates(p[2], R2, M2, e)
    BY <1>2, <2>1, <2>2 DEF Activates
  <2> QED BY <1>5, <2>1, <2>3 DEF Routine
<1>6. CASE p[1] = "Store_Checkpoint"
  <2>1. /\ Called("Store_Checkpoint", e) /\ Checkpoints(p[2], R, M, e, "TCLS") /\ p[2] \in 1 .. 77
        /\ Keeps(R, M, e) /\ Frame(p[2], R, e)
    BY <1>6 DEF Routine, Checkpoints
  <2>2. Keeps(R2, M2, e)
    BY <1>3, <1>6, <2>1
  <2>3. Frame(p[2], R2, e)
    <3>1. R2["t2"] = R["t2"] /\ R2["t3"] = R["t3"] /\ R2["t4"] = R["t4"] /\ R2["t5"] = R["t5"]
      BY Names
    <3> QED BY <1>2, <2>1, <3>1 DEF Frame, Walked
  <2>4. Checkpoints(p[2], R2, M2, e, "TCLS")
    BY <2>2, <2>3 DEF Checkpoints
  <2> QED BY <1>6, <2>1, <2>4 DEF Routine
<1>7. CASE p[1] = "Check_RF"
  <2>1. Called("Check_RF", e) /\ Records(p[2], R, M, e) /\ p[2] \in 1 .. 45 /\ Keeps(R, M, e)
    BY <1>7 DEF Routine, Records
  <2>2. Keeps(R2, M2, e)
    BY <1>3, <1>7, <2>1
  <2>3. \A n \in 6 .. 34 : n \notin {7, 19, 20} => R2[Order[n]] = R[Order[n]]
    <3>1. \A n \in 6 .. 34 : Order[n] \in Vis /\ Order[n] # "mepc"
      <4>1. Order[4] = "mepc" /\ 4 \in 1 .. 36
        BY OrderList
      <4>2. \A n \in 6 .. 34 : n \in 1 .. 36 /\ n # 4
        OBVIOUS
      <4> QED BY <4>1, <4>2, Names, OrderIsOne
    <3> QED BY <3>1
  <2>4. R2["t5"] = R["t5"] /\ R2["t6"] = R["t6"]
    BY Names
  <2>5. p[2] \in 4 .. 44 => St(M2, Top(e) - 2) = St(M, Top(e) - 2) /\ St(M2, Top(e) - 3) = St(M, Top(e) - 3)
    BY <1>1, <1>7
  <2>6. Ck(M2, 0) = Ck(M, 0) /\ Ck(M2, 29) = Ck(M, 29) /\ Ck(M2, 30) = Ck(M, 30)
        /\ \A n \in 8 .. 34 : Ck(M2, n - 6) = Ck(M, n - 6)
    BY DEF SameCheck, Words
  <2>7. Records(p[2], R2, M2, e)
    BY <1>2, <2>1, <2>2, <2>3, <2>4, <2>5, <2>6 DEF Records
  <2> QED BY <1>7, <2>1, <2>7 DEF Routine
<1> QED BY <1>4, <1>5, <1>6, <1>7 DEF Routine

(***************************************************************************)
(* What the harts of a group do is what the hart l does, which is one of   *)
(* two of three that are the same, or one of two, or alone.                *)
(***************************************************************************)
Groups == {{0}, {1}, {0, 1}, {1, 2}, Hart}

LEMMA WireIs ==
  ASSUME NEW D \in Groups, NEW l \in D, NEW f, f = [h \in D |-> f[h]], D = Hart => l = 0 /\ f[2] = f[0],
         NEW v \in Wire(f)
  PROVE  v = f[l]
<1>1. SUFFICES ASSUME v # f[l] PROVE FALSE
  OBVIOUS
<1> DEFINE S == {h \in D : f[h] = v}
<1>2. (\E h \in D : v = f[h]) /\ 2 * Cardinality(S) > Cardinality(D) /\ DOMAIN f = D
  BY DEF Wire
<1>3. PICK x \in 0 .. 2 : S \subseteq {x} /\ D # {l}
  <2>1. CASE D = Hart
    <3>1. S \subseteq {1}
      BY <1>1, <2>1 DEF Hart
    <3> QED BY <2>1, <3>1 DEF Hart
  <2>2. CASE D = {0, 1}
    BY <1>1, <2>2
  <2>3. CASE D = {1, 2}
    BY <1>1, <2>3
  <2>4. CASE D = {0} \/ D = {1}
    BY <1>1, <1>2, <2>4
  <2> QED BY <2>1, <2>2, <2>3, <2>4 DEF Groups
<1>4. Cardinality(S) \in Nat /\ Cardinality(S) <= 1
  <2>1. IsFiniteSet({x}) /\ Cardinality({x}) = 1
    BY FS_Singleton
  <2>2. IsFiniteSet(S) /\ Cardinality(S) <= Cardinality({x})
    BY <1>3, <2>1, FS_Subset
  <2> QED BY <2>1, <2>2, FS_CardinalityType
<1>5. Cardinality(D) \in Nat /\ Cardinality(D) >= 2
  <2>1. PICK y \in 0 .. 2 : {l, y} \subseteq D /\ y # l
    BY <1>3 DEF Groups, Hart
  <2>2. IsFiniteSet(D)
    <3>1. IsFiniteSet(0 .. 2)
      <4>1. 0 \in Int /\ 2 \in Int
        OBVIOUS
      <4> QED BY <4>1, FS_Interval
    <3>2. D \subseteq 0 .. 2
      BY DEF Groups, Hart
    <3> QED BY <3>1, <3>2, FS_Subset
  <2>3. IsFiniteSet({y}) /\ Cardinality({y}) = 1 /\ IsFiniteSet({y} \cup {l}) /\ Cardinality({y} \cup {l}) = 2
    <3>1. IsFiniteSet({y}) /\ Cardinality({y}) = 1
      BY FS_Singleton
    <3>2. l \notin {y}
      BY <2>1
    <3>3. IsFiniteSet({y} \cup {l}) /\ Cardinality({y} \cup {l}) = Cardinality({y}) + 1
      BY <3>1, <3>2, FS_AddElement
    <3> QED BY <3>1, <3>3
  <2>4. Cardinality({y} \cup {l}) <= Cardinality(D)
    BY <2>1, <2>2, FS_Subset
  <2> QED BY <2>2, <2>3, <2>4, FS_CardinalityType
<1> QED BY <1>2, <1>4, <1>5

Machine == Arithmetic \/ Load \/ Store \/ Jump \/ Compute \/ Call

\* The harts that are led by l.
Leads(l) ==
  /\ active \in Groups /\ l \in active
  /\ active = Hart => l = 0 /\ Alike(reg[2], reg[0])
  /\ DOMAIN reg = Hart /\ \A h \in Hart : DOMAIN reg[h] = Reg

LEMMA DrivenIs ==
  ASSUME NEW l, Leads(l)
  PROVE  /\ Formal(Instr) /\ Instr[1] \in {"lw", "sw"} => \A v \in Driven(Address) : v = Address(l)
         /\ Formal(Instr) /\ Instr[1] = "sw" => \A v \in Driven(Data) : v = Data(l)
         /\ \A r \in Vis : \A v \in Wire([h \in active |-> reg[h][r]]) : v = reg[l][r]
<1>1. /\ active \in Groups /\ l \in active /\ (active = Hart => l = 0 /\ \A r \in Vis : reg[2][r] = reg[0][r])
      /\ (active = Hart => 0 \in active /\ 2 \in active)
  BY DEF Leads, Alike, Hart
<1>2. ASSUME Formal(Instr), Instr[1] \in {"lw", "sw"}, NEW v \in Driven(Address) PROVE v = Address(l)
  <2> DEFINE f == [h \in active |-> Address(h)]
  <2>1. v \in Wire(f)
    BY <1>2 DEF Driven
  <2>2. Instr[3] \in Vis
    BY <1>2 DEF Formal
  <2>3. active = Hart => f[2] = f[0]
    BY <1>1, <2>2 DEF Address
  <2>4. f = [h \in active |-> f[h]] /\ f[l] = Address(l)
    BY <1>1
  <2> HIDE DEF f
  <2>5. v = f[l]
    BY <1>1, <2>1, <2>3, <2>4, WireIs
  <2> QED BY <2>4, <2>5
<1>3. ASSUME Formal(Instr), Instr[1] = "sw", NEW v \in Driven(Data) PROVE v = Data(l)
  <2> DEFINE f == [h \in active |-> Data(h)]
  <2>1. v \in Wire(f)
    BY <1>3 DEF Driven
  <2>2. Instr[2] \in Vis
    BY <1>3 DEF Formal
  <2>3. active = Hart => f[2] = f[0]
    BY <1>1, <2>2 DEF Data
  <2>4. f = [h \in active |-> f[h]] /\ f[l] = Data(l)
    BY <1>1
  <2> HIDE DEF f
  <2>5. v = f[l]
    BY <1>1, <2>1, <2>3, <2>4, WireIs
  <2> QED BY <2>4, <2>5
<1>4. ASSUME NEW r \in Vis, NEW v \in Wire([h \in active |-> reg[h][r]]) PROVE v = reg[l][r]
  <2> DEFINE f == [h \in active |-> reg[h][r]]
  <2>1. v \in Wire(f)
    BY <1>4
  <2>3. active = Hart => f[2] = f[0]
    BY <1>1
  <2>4. f = [h \in active |-> f[h]] /\ f[l] = reg[l][r]
    BY <1>1
  <2> HIDE DEF f
  <2>5. v = f[l]
    BY <1>1, <2>1, <2>3, <2>4, WireIs
  <2> QED BY <2>4, <2>5
<1> QED BY <1>2, <1>3, <1>4

\* What a step of the machine does.
Quiet ==
  /\ UNCHANGED <<mode, active, recovering, struck, healing, repairs, before, snap>>
  /\ Op("call") => entry' = State(reg'[Master], mem) /\ ErrorsShow
  /\ ~Op("call") => entry' = entry
  /\ Op("label") => pc # Place(<<"Store_Checkpoint", 0>>) /\ pc # Place(<<"main", 0>>)
Executes(l) ==
  /\ Quiet
  /\ DOMAIN reg' = Hart
  /\ \A h \in active : Regs(Instr, reg[l], mem, pc, reg[h], reg'[h]) /\ DOMAIN reg'[h] = Reg
  /\ \A h \in Hart \ active : reg'[h] = reg[h]
  /\ Moves(Instr, reg[l], mem, pc, recovering, mem', pc')

LEMMA SetDoes ==
  ASSUME NEW x \in Reg, NEW f, reg' = [h \in Hart |-> IF h \in active THEN [reg[h] EXCEPT ![x] = f[h]] ELSE reg[h]],
         active \subseteq Hart, \A h \in Hart : DOMAIN reg[h] = Reg
  PROVE  /\ DOMAIN reg' = Hart /\ \A h \in active : Sets(reg'[h], reg[h], x, f[h]) /\ DOMAIN reg'[h] = Reg
         /\ \A h \in Hart \ active : reg'[h] = reg[h]
BY DEF Sets

LEMMA MachineDoes ==
  ASSUME NEW l, Leads(l), Formal(Instr), Machine
  PROVE  Executes(l)
<1>0. active \subseteq Hart /\ l \in active /\ DOMAIN reg = Hart /\ \A h \in Hart : DOMAIN reg[h] = Reg
  BY DEF Leads, Groups, Hart
<1>1. CASE Arithmetic
  <2>0. Quiet /\ mem' = mem /\ pc' = After /\ Instr[1] \in {"addi", "la", "mv"} /\ Instr[2] \in Reg
    BY <1>1 DEF Arithmetic, Quiet, Op, Steady, Formal
  <2>4. Moves(Instr, reg[l], mem, pc, recovering, mem', pc')
    BY <2>0 DEF Moves, Goes, After, Succ
  <2>1. CASE Instr[1] = "addi"
    <3> DEFINE f == [h \in Hart |-> Offset(reg[h][Instr[3]], Instr[4])]
    <3>1. reg' = [h \in Hart |-> IF h \in active THEN [reg[h] EXCEPT ![Instr[2]] = f[h]] ELSE reg[h]]
      BY <1>1, <2>1 DEF Arithmetic, Op, Set, Address
    <3>2. \A h \in Hart : f[h] = Offset(reg[h][Instr[3]], Instr[4])
      OBVIOUS
    <3> HIDE DEF f
    <3>3. /\ DOMAIN reg' = Hart /\ \A h \in active : Sets(reg'[h], reg[h], Instr[2], f[h]) /\ DOMAIN reg'[h] = Reg
          /\ \A h \in Hart \ active : reg'[h] = reg[h]
      BY <1>0, <2>0, <3>1, SetDoes
    <3>4. \A h \in active : Regs(Instr, reg[l], mem, pc, reg[h], reg'[h])
      BY <1>0, <2>1, <3>2, <3>3 DEF Regs
    <3> QED BY <2>0, <2>4, <3>3, <3>4 DEF Executes
  <2>2. CASE Instr[1] = "la"
    <3> DEFINE f == [h \in Hart |-> Instr[3]]
    <3>1. reg' = [h \in Hart |-> IF h \in active THEN [reg[h] EXCEPT ![Instr[2]] = f[h]] ELSE reg[h]]
      BY <1>1, <2>2 DEF Arithmetic, Op, Set
    <3>2. \A h \in Hart : f[h] = Instr[3]
      OBVIOUS
    <3> HIDE DEF f
    <3>3. /\ DOMAIN reg' = Hart /\ \A h \in active : Sets(reg'[h], reg[h], Instr[2], f[h]) /\ DOMAIN reg'[h] = Reg
          /\ \A h \in Hart \ active : reg'[h] = reg[h]
      BY <1>0, <2>0, <3>1, SetDoes
    <3>4. \A h \in active : Regs(Instr, reg[l], mem, pc, reg[h], reg'[h])
      BY <1>0, <2>2, <3>2, <3>3 DEF Regs
    <3> QED BY <2>0, <2>4, <3>3, <3>4 DEF Executes
  <2>3. CASE Instr[1] = "mv"
    <3> DEFINE f == [h \in Hart |-> reg[h][Instr[3]]]
    <3>1. reg' = [h \in Hart |-> IF h \in active THEN [reg[h] EXCEPT ![Instr[2]] = f[h]] ELSE reg[h]]
      BY <1>1, <2>3 DEF Arithmetic, Op, Set
    <3>2. \A h \in Hart : f[h] = reg[h][Instr[3]]
      OBVIOUS
    <3> HIDE DEF f
    <3>3. /\ DOMAIN reg' = Hart /\ \A h \in active : Sets(reg'[h], reg[h], Instr[2], f[h]) /\ DOMAIN reg'[h] = Reg
          /\ \A h \in Hart \ active : reg'[h] = reg[h]
      BY <1>0, <2>0, <3>1, SetDoes
    <3>4. \A h \in active : Regs(Instr, reg[l], mem, pc, reg[h], reg'[h])
      BY <1>0, <2>3, <3>2, <3>3 DEF Regs
    <3> QED BY <2>0, <2>4, <3>3, <3>4 DEF Executes
  <2> QED BY <2>0, <2>1, <2>2, <2>3
<1>2. CASE Load
  <2>0. Quiet /\ mem' = mem /\ pc' = After /\ Instr[1] = "lw" /\ Instr[2] \in Reg
    BY <1>2 DEF Load, Quiet, Op, Steady, Formal
  <2>1. PICK a \in Driven(Address) : LET v(h) == mem[a] IN Set(Instr[2], v)
    BY <1>2 DEF Load
  <2>2. a = Offset(reg[l][Instr[3]], Instr[4])
    BY <2>0, DrivenIs DEF Address
  <2> DEFINE f == [h \in Hart |-> mem[a]]
  <2>3. reg' = [h \in Hart |-> IF h \in active THEN [reg[h] EXCEPT ![Instr[2]] = f[h]] ELSE reg[h]]
    BY <2>1 DEF Set
  <2>4. \A h \in Hart : f[h] = mem[a]
    OBVIOUS
  <2> HIDE DEF f
  <2>5. /\ DOMAIN reg' = Hart /\ \A h \in active : Sets(reg'[h], reg[h], Instr[2], f[h]) /\ DOMAIN reg'[h] = Reg
        /\ \A h \in Hart \ active : reg'[h] = reg[h]
    BY <1>0, <2>0, <2>3, SetDoes
  <2>6. \A h \in active : Regs(Instr, reg[l], mem, pc, reg[h], reg'[h])
    BY <1>0, <2>0, <2>2, <2>4, <2>5 DEF Regs
  <2>7. Moves(Instr, reg[l], mem, pc, recovering, mem', pc')
    BY <2>0 DEF Moves, Goes, After, Succ
  <2> QED BY <2>0, <2>5, <2>6, <2>7 DEF Executes
<1>3. CASE Store
  <2>0. Quiet /\ reg' = reg /\ pc' = After /\ Instr[1] = "sw"
    BY <1>3 DEF Store, Quiet, Op, Steady
  <2>1. PICK a \in Driven(Address), d \in Driven(Data) : mem' = [mem EXCEPT ![a] = d]
    BY <1>3 DEF Store
  <2>2. a = Offset(reg[l][Instr[3]], Instr[4]) /\ d = reg[l][Instr[2]]
    BY <2>0, DrivenIs DEF Address, Data
  <2>3. \A h \in active : Regs(Instr, reg[l], mem, pc, reg[h], reg'[h])
    BY <2>0 DEF Regs
  <2>4. Moves(Instr, reg[l], mem, pc, recovering, mem', pc')
    BY <2>0, <2>1, <2>2 DEF Moves, Goes, After, Succ
  <2> QED BY <1>0, <2>0, <2>3, <2>4 DEF Executes
<1>4. CASE Jump
  <2>0. Quiet /\ reg' = reg /\ mem' = mem /\ Instr[1] \in {"beq", "j", "bnez", "ret", "label"}
    BY <1>4 DEF Jump, Quiet, Op, Steady
  <2>1. pc' = Goes(Instr, reg[l], pc, recovering)
    <3>1. CASE Instr[1] = "beq"
      <4> DEFINE next(h) == IF reg[h][Instr[2]] = reg[h][Instr[3]] THEN <<pc[1], Find(pc[1], Instr[4])>> ELSE After
                 f == [h \in active |-> next(h)]
      <4>1. pc' \in Wire(f)
        BY <1>4, <3>1 DEF Jump, Op, Driven
      <4>2. Instr[2] \in Vis /\ Instr[3] \in Vis
        BY <3>1 DEF Formal
      <4>3. active \in Groups /\ l \in active /\ (active = Hart => l = 0 /\ f[2] = f[0])
        BY <4>2 DEF Leads, Alike, Hart
      <4>4. f = [h \in active |-> f[h]] /\ f[l] = next(l)
        BY <1>0
      <4> HIDE DEF f
      <4>5. pc' = f[l]
        BY <4>1, <4>3, <4>4, WireIs
      <4> QED BY <3>1, <4>4, <4>5 DEF Goes, After, Succ
    <3>2. CASE Instr[1] \in {"j", "bnez", "label"}
      BY <1>4, <3>2 DEF Jump, Op, Goes, After, Succ
    <3>3. CASE Instr[1] = "ret"
      <4>1. pc' \in Wire([h \in active |-> reg[h]["ra"]])
        BY <1>4, <3>3 DEF Jump, Op, Driven
      <4>2. pc' = reg[l]["ra"]
        BY <4>1, DrivenIs, Names
      <4> QED BY <3>3, <4>2 DEF Goes
    <3> QED BY <2>0, <3>1, <3>2, <3>3
  <2>2. Moves(Instr, reg[l], mem, pc, recovering, mem', pc')
    BY <2>0, <2>1 DEF Moves
  <2>3. \A h \in active : Regs(Instr, reg[l], mem, pc, reg[h], reg'[h])
    BY <2>0 DEF Regs
  <2> QED BY <1>0, <2>0, <2>2, <2>3 DEF Executes
<1>5. CASE Compute
  <2>0. Quiet /\ mem' = mem /\ pc' = After /\ Instr[1] = "compute"
    BY <1>5 DEF Compute, Quiet, Op, Steady
  <2>1. /\ DOMAIN reg' = Hart /\ \A h \in active : reg'[h] = Computed(reg[h]) /\ DOMAIN reg'[h] = Reg
        /\ \A h \in Hart \ active : reg'[h] = reg[h]
    BY <1>0, <1>5 DEF Compute, Computed
  <2>2. \A h \in active : Regs(Instr, reg[l], mem, pc, reg[h], reg'[h])
    BY <2>0, <2>1 DEF Regs
  <2>3. Moves(Instr, reg[l], mem, pc, recovering, mem', pc')
    BY <2>0 DEF Moves, Goes, After, Succ
  <2> QED BY <2>0, <2>1, <2>2, <2>3 DEF Executes
<1>6. CASE Call
  <2>0. Quiet /\ mem' = mem /\ pc' = <<Instr[2], 1>> /\ Instr[1] = "call"
    BY <1>6 DEF Call, Quiet, Op, Steady
  <2> DEFINE f == [h \in Hart |-> After]
  <2>1. reg' = [h \in Hart |-> IF h \in active THEN [reg[h] EXCEPT !["ra"] = f[h]] ELSE reg[h]]
    BY <1>6 DEF Call, Set
  <2>2. (\A h \in Hart : f[h] = After) /\ "ra" \in Reg
    BY Names
  <2> HIDE DEF f
  <2>3. /\ DOMAIN reg' = Hart /\ \A h \in active : Sets(reg'[h], reg[h], "ra", f[h]) /\ DOMAIN reg'[h] = Reg
        /\ \A h \in Hart \ active : reg'[h] = reg[h]
    BY <1>0, <2>1, <2>2, SetDoes
  <2>4. \A h \in active : Regs(Instr, reg[l], mem, pc, reg[h], reg'[h])
    BY <1>0, <2>0, <2>2, <2>3 DEF Regs, After, Succ
  <2>5. Moves(Instr, reg[l], mem, pc, recovering, mem', pc')
    BY <2>0 DEF Moves, Goes
  <2> QED BY <2>0, <2>3, <2>4, <2>5 DEF Executes
<1> QED BY <1>1, <1>2, <1>3, <1>4, <1>5, <1>6 DEF Machine

Whole(b) == [r \in Reg |-> b.reg[IF r \in Vis THEN r ELSE "ra"]]

\* Registers and stack, as they are recorded.
Record(s) == s = [reg |-> [r \in Vis |-> s.reg[r]], stack |-> [a \in Top(s) .. 0 |-> s.stack[a]]]

HasSaved == Record(snap) /\ Called("Store_Checkpoint", snap) /\ Saved(mem, snap)

Early == ~recovering /\ struck = {} /\ healing = {} /\ snap = None

Shape ==
  /\ mode \in {"TCLS", "DCLS"} /\ recovering \in BOOLEAN
  /\ pc = <<pc[1], pc[2]>> /\ pc[2] \in Nat
  /\ DOMAIN reg = Hart /\ (\A h \in Hart : DOMAIN reg[h] = Reg)
  /\ DOMAIN mem = Places /\ St(mem, 0) = <<"word", 0>>
  /\ struck \in {{}, {Victim}} /\ healing \in {{}, {Victim}}

Alone ==
  /\ active = {Master} /\ Early
  /\ \/ pc[1] = "main" /\ pc[2] \in 1 .. 5 /\ Runs(pc[2], reg[Master], mem)
     \/ /\ pc[1] = "Safe_Activate" /\ pc[2] \in 1 .. 55
        /\ Called(pc[1], entry) /\ Activates(pc[2], reg[Master], mem, entry)

Left == Called("Safe_Activate", entry) /\ Activates(55, reg[Master], mem, entry)
Booting ==
  /\ active = Group(mode) \ {Master} /\ Early /\ Left
  /\ pc[1] = "halt_boot" /\ pc[2] \in 1 .. 48 /\ Boots(pc[2], reg[Victim], mem)
  /\ \A h \in active : Follows(pc[2], reg[h], reg[Victim])

Joining ==
  /\ active = Group(mode) \ {Master} /\ Early /\ Left
  /\ pc[1] = "Safe_Activate" /\ pc[2] \in 52 .. 55
  /\ \A h \in active, r \in Vis : r # "t6" \/ pc[2] >= 54 => reg[h][r] = reg[Master][r]
  /\ \A h \in active : Alike(reg[h], reg[Victim])

\* A checkpoint is what the harts recover, from the time it is complete.
Backed ==
  \/ /\ pc[1] = "Store_Checkpoint" /\ (pc[2] = 77 => HasSaved)
     /\ \A h \in active : Alike(reg[h], reg[Master])
  \/ pc[1] \in {"main", "Check_RF"} /\ ((snap = None /\ struck = {}) \/ HasSaved)
  \/ pc[1] \in {"Safe_Activate", "handler_safe_fsm"} /\ snap = None /\ struck = {}

Working ==
  /\ active = Group(mode) /\ ~recovering /\ healing = {}
  /\ \A h \in active \ struck : Alike(reg[h], reg[Master])
  /\ \/ Routine(pc, reg[Master], mem, entry, mode)
     \/ /\ pc[1] = "handler_safe_fsm" /\ pc[2] \in 1 .. 9
        /\ Called("Safe_Activate", entry) /\ Wakes(pc[2], reg[Master], mem, entry)
  /\ mode = "DCLS" => Backed

Repairing ==
  /\ mode = "TCLS" /\ active = Hart /\ ~recovering
  /\ pc[1] = "handler_tmr_recoverysync" /\ pc[2] \in 1 .. 93
  /\ \A h \in active \ (struck \cup healing) : Alike(reg[h], reg[Master])
  /\ \A h \in healing \ struck : Mended(pc[2], reg[h], reg[Master])
  /\ Record(before)
  /\ before.reg["sp"] = <<"stack", Top(before)>> /\ Top(before) \in -9 .. 0
  /\ Heals(pc[2], reg[Master], mem, before)
  /\ before.reg["mepc"] = <<before.reg["mepc"][1], before.reg["mepc"][2]>>
  /\ Routine(before.reg["mepc"], Whole(before), mem, entry, mode)

Recovering ==
  /\ mode = "DCLS" /\ active = Group(mode) /\ recovering /\ healing = {}
  /\ HasSaved
  /\ \/ /\ pc[1] = "halt_boot" /\ pc[2] \in 1 .. 62
        /\ Boots(pc[2], reg[Master], mem) /\ Recovers(pc[2], reg[Master], mem, snap)
        /\ Follows(pc[2], reg[Victim], reg[Master])
     \/ /\ pc = <<"Store_Checkpoint", 76>>
        /\ \A h \in active : Alike(reg[h], reg[Master])
        /\ \A r \in Vis : reg[Master][r] = snap.reg[r]
        /\ \A a \in Top(snap) .. 0 : St(mem, a) = snap.stack[a]

Holds == Shape /\ (Alone \/ Booting \/ Joining \/ Working \/ Repairing \/ Recovering)

(***************************************************************************)
(* Which instructions stand where.                                         *)
(***************************************************************************)
LEMMA NotSpecial == \A I : I[1] \in Ordinary => I[1] \notin {"label", "wfi", "ret", "dret", "mret", "call"}
BY DEF Ordinary

SaHas(i, I) ==
  /\ Formal(I) /\ I[1] \in Ordinary \cup {"label", "wfi", "ret"}
  /\ (I[1] = "wfi" => i = 55) /\ (I[1] = "ret" => i = 60) /\ (I[1] = "label" => i = 52)

LEMMA SaOps == \A i \in Nat : \A I : i \in 1 .. 60 /\ I = Code["Safe_Activate"][i] => SaHas(i, I)
<1>1. SaCode[52][1] = "label" /\ SaCode[55][1] = "wfi" /\ SaCode[60][1] = "ret"
  BY SaText, Ops
<1>2. ASSUME NEW i \in 1 .. 60, NEW I, I = SaCode[i]
      PROVE  SaHas(i, I)
  <2>1. Formal(I) /\ (i \notin {52, 55, 60} => I[1] \in Ordinary)
    BY <1>2, SaForms
  <2>2. CASE i \in {52, 55, 60}
    BY <1>1, <1>2, <2>1, <2>2 DEF SaHas
  <2>3. CASE i \notin {52, 55, 60}
    BY <2>1, <2>3, NotSpecial DEF SaHas
  <2> QED BY <2>2, <2>3
<1> QED BY <1>2 DEF SaCode

LEMMA ScOps ==
  \A i \in 1 .. 77 : \A I : I = Code["Store_Checkpoint"][i] =>
    Formal(I) /\ I[1] \in Ordinary \cup {"label", "ret"} /\ (I[1] = "ret" => i = 77)
<1>1. ScCode[13][1] = "label" /\ ScCode[20][1] = "label" /\ ScCode[76][1] = "label" /\ ScCode[77][1] = "ret"
  BY ScText, Ops
<1>2. ASSUME NEW i \in 1 .. 77, NEW I, I = ScCode[i]
      PROVE  Formal(I) /\ I[1] \in Ordinary \cup {"label", "ret"} /\ (I[1] = "ret" => i = 77)
  <2>1. Formal(I) /\ (i \notin {13, 20, 76, 77} => I[1] \in Ordinary)
    BY <1>2, ScForms
  <2>2. CASE i \in {13, 20, 76, 77}
    BY <1>1, <1>2, <2>1, <2>2
  <2>3. CASE i \notin {13, 20, 76, 77}
    BY <2>1, <2>3, NotSpecial
  <2> QED BY <2>2, <2>3
<1> QED BY <1>2 DEF ScCode

LEMMA CrOps ==
  \A i \in 1 .. 45 : \A I : I = Code["Check_RF"][i] =>
    Formal(I) /\ I[1] \in Ordinary \cup {"ret"} /\ (I[1] = "ret" => i = 45)
<1>1. CrCode[45][1] = "ret"
  BY CrText, Ops
<1>2. ASSUME NEW i \in 1 .. 45, NEW I, I = CrCode[i]
      PROVE  Formal(I) /\ I[1] \in Ordinary \cup {"ret"} /\ (I[1] = "ret" => i = 45)
  <2>1. Formal(I) /\ (i \notin {45} => I[1] \in Ordinary)
    BY <1>2, CrForms
  <2>2. CASE i \in {45}
    BY <1>1, <1>2, <2>1, <2>2
  <2>3. CASE i \notin {45}
    BY <2>1, <2>3, NotSpecial
  <2> QED BY <2>2, <2>3
<1> QED BY <1>2 DEF CrCode

LEMMA HbOps ==
  \A i \in 1 .. 62 : \A I : I = Code["halt_boot"][i] =>
    Formal(I) /\ I[1] \in Ordinary \cup {"label", "dret"} /\ (I[1] = "dret" => i = 48)
<1>1. HbCode[18][1] = "label" /\ HbCode[48][1] = "dret" /\ HbCode[49][1] = "label" /\ HbCode[53][1] = "label" /\ HbCode[60][1] = "label"
  BY HbText, Ops
<1>2. ASSUME NEW i \in 1 .. 62, NEW I, I = HbCode[i]
      PROVE  Formal(I) /\ I[1] \in Ordinary \cup {"label", "dret"} /\ (I[1] = "dret" => i = 48)
  <2>1. Formal(I) /\ (i \notin {18, 48, 49, 53, 60} => I[1] \in Ordinary)
    BY <1>2, HbForms
  <2>2. CASE i \in {18, 48, 49, 53, 60}
    BY <1>1, <1>2, <2>1, <2>2
  <2>3. CASE i \notin {18, 48, 49, 53, 60}
    BY <2>1, <2>3, NotSpecial
  <2> QED BY <2>2, <2>3
<1> QED BY <1>2 DEF HbCode

RsHas(i, I) == Formal(I) /\ I[1] \in Ordinary \cup {"mret"} /\ (I[1] = "mret" => i = 93)

LEMMA RsOps == \A i \in Nat : \A I : i \in 1 .. 93 /\ I = Code["handler_tmr_recoverysync"][i] => RsHas(i, I)
<1>1. RsCode[93][1] = "mret"
  BY RsText, Ops
<1>2. ASSUME NEW i \in 1 .. 93, NEW I, I = RsCode[i]
      PROVE  RsHas(i, I)
  <2>1. Formal(I) /\ (i \notin {93} => I[1] \in Ordinary)
    BY <1>2, RsForms
  <2>2. CASE i \in {93}
    BY <1>1, <1>2, <2>1, <2>2 DEF RsHas
  <2>3. CASE i \notin {93}
    BY <2>1, <2>3, NotSpecial DEF RsHas
  <2> QED BY <2>2, <2>3
<1> QED BY <1>2 DEF RsCode

LEMMA FsmOps ==
  \A i \in 1 .. 9 : \A I : I = Code["handler_safe_fsm"][i] =>
    Formal(I) /\ I[1] \in Ordinary \cup {"mret"} /\ (I[1] = "mret" => i = 9)
<1>1. FsmCode[9][1] = "mret"
  BY FsmText, Ops
<1>2. ASSUME NEW i \in 1 .. 9, NEW I, I = FsmCode[i]
      PROVE  Formal(I) /\ I[1] \in Ordinary \cup {"mret"} /\ (I[1] = "mret" => i = 9)
  <2>1. Formal(I) /\ (i \notin {9} => I[1] \in Ordinary)
    BY <1>2, FsmForms
  <2>2. CASE i \in {9}
    BY <1>1, <1>2, <2>1, <2>2
  <2>3. CASE i \notin {9}
    BY <2>1, <2>3, NotSpecial
  <2> QED BY <2>2, <2>3
<1> QED BY <1>2 DEF FsmCode

LEMMA MainOps ==
  \A i \in 1 .. 25 : \A I : I = Code["main"][i] =>
    Formal(I) /\ I[1] \in Ordinary \cup {"label", "call"} /\ (I[1] = "call" => i \in Calls) /\ (I[1] = "label" => i = 25)
<1>1. MnCode[5][1] = "call" /\ MnCode[7][1] = "call" /\ MnCode[11][1] = "call" /\ MnCode[17][1] = "call" /\ MnCode[21][1] = "call" /\ MnCode[25][1] = "label"
  BY MainText, Ops
<1>2. ASSUME NEW i \in 1 .. 25, NEW I, I = MnCode[i]
      PROVE  Formal(I) /\ I[1] \in Ordinary \cup {"label", "call"} /\ (I[1] = "call" => i \in Calls) /\ (I[1] = "label" => i = 25)
  <2>1. Formal(I) /\ (i \notin {5, 7, 11, 17, 21, 25} => I[1] \in Ordinary)
    BY <1>2, MainForms
  <2>2. CASE i \in {5, 7, 11, 17, 21, 25}
    BY <1>1, <1>2, <2>1, <2>2 DEF Calls
  <2>3. CASE i \notin {5, 7, 11, 17, 21, 25}
    BY <2>1, <2>3, NotSpecial
  <2> QED BY <2>2, <2>3
<1> QED BY <1>2 DEF MnCode

LEMMA RoutineOps ==
  ASSUME NEW p, NEW R, NEW M, NEW e, NEW m, Routine(p, R, M, e, m), NEW I, I = Code[p[1]][p[2]]
  PROVE  /\ Formal(I) /\ I[1] \notin {"wfi", "mret", "dret"}
         /\ I[1] = "call" => p[1] = "main" /\ p[2] \in Calls \ {5} /\ Runs(p[2], R, M)
         /\ I[1] = "label" => p[1] \in {"main", "Store_Checkpoint"} /\ (p[1] = "main" => p[2] = 25)
         /\ I[1] = "ret" => /\ p[1] = "Safe_Activate" => p[2] = 60
                            /\ p[1] = "Store_Checkpoint" => p[2] = 77
                            /\ p[1] = "Check_RF" => p[2] = 45
                            /\ p[1] # "main"
<1>1. CASE p[1] = "main"
  <2>1. p[2] \in 1 .. 25 /\ p[2] # 5 /\ Runs(p[2], R, M)
    BY <1>1 DEF Routine
  <2>2. Formal(I) /\ I[1] \in Ordinary \cup {"label", "call"} /\ (I[1] = "call" => p[2] \in Calls) /\ (I[1] = "label" => p[2] = 25)
    BY <1>1, <2>1, MainOps
  <2> QED BY <1>1, <2>1, <2>2, NotSpecial
<1>2. CASE p[1] = "Safe_Activate"
  <2>1. p[2] \in 1 .. 60 /\ p[2] # 52 /\ p[2] # 55
    BY <1>2 DEF Routine
  <2>2. SaHas(p[2], I)
    BY <1>2, <2>1, SaOps
  <2> QED BY <1>2, <2>1, <2>2, NotSpecial DEF SaHas
<1>3. CASE p[1] = "Store_Checkpoint"
  <2>1. p[2] \in 1 .. 77
    BY <1>3 DEF Routine
  <2>2. Formal(I) /\ I[1] \in Ordinary \cup {"label", "ret"} /\ (I[1] = "ret" => p[2] = 77)
    <3>1. PICK i \in 1 .. 77 : i = p[2]
      BY <2>1
    <3>2. I = Code["Store_Checkpoint"][i]
      BY <1>3, <3>1
    <3>3. Formal(I) /\ I[1] \in Ordinary \cup {"label", "ret"} /\ (I[1] = "ret" => i = 77)
      BY <3>2, ScOps
    <3> QED BY <3>1, <3>3
  <2> QED BY <1>3, <2>1, <2>2, NotSpecial
<1>4. CASE p[1] = "Check_RF"
  <2>1. p[2] \in 1 .. 45
    BY <1>4 DEF Routine
  <2>2. Formal(I) /\ I[1] \in Ordinary \cup {"ret"} /\ (I[1] = "ret" => p[2] = 45)
    BY <1>4, <2>1, CrOps
  <2> QED BY <1>4, <2>1, <2>2, NotSpecial
<1> QED BY <1>1, <1>2, <1>3, <1>4 DEF Routine

\* Harts that are the same do the same.
LEMMA RegsAlike ==
  ASSUME NEW I, Formal(I), NEW X, NEW M, NEW p, NEW Q, NEW R, NEW Q2, NEW R2, DOMAIN Q = Reg, DOMAIN R = Reg,
         Alike(Q, R), Regs(I, X, M, p, Q, Q2), Regs(I, X, M, p, R, R2)
  PROVE  Alike(Q2, R2)
<1>1. ASSUME NEW x, NEW v, Sets(Q2, Q, x, v), Sets(R2, R, x, v)
      PROVE  Alike(Q2, R2)
  BY <1>1, Names DEF Sets, Alike
<1>2. CASE I[1] = "addi"
  <2>1. Q[I[3]] = R[I[3]]
    BY <1>2 DEF Formal, Alike
  <2>2. Sets(Q2, Q, I[2], Offset(R[I[3]], I[4])) /\ Sets(R2, R, I[2], Offset(R[I[3]], I[4]))
    BY <1>2, <2>1 DEF Regs
  <2> QED BY <1>1, <2>2
<1>3. CASE I[1] = "la"
  <2>1. Sets(Q2, Q, I[2], I[3]) /\ Sets(R2, R, I[2], I[3])
    BY <1>3 DEF Regs
  <2> QED BY <1>1, <2>1
<1>4. CASE I[1] = "mv"
  <2>1. Q[I[3]] = R[I[3]]
    BY <1>4 DEF Formal, Alike
  <2>2. Sets(Q2, Q, I[2], R[I[3]]) /\ Sets(R2, R, I[2], R[I[3]])
    BY <1>4, <2>1 DEF Regs
  <2> QED BY <1>1, <2>2
<1>5. CASE I[1] = "lw"
  <2>1. Sets(Q2, Q, I[2], M[Offset(X[I[3]], I[4])]) /\ Sets(R2, R, I[2], M[Offset(X[I[3]], I[4])])
    BY <1>5 DEF Regs
  <2> QED BY <1>1, <2>1
<1>6. CASE I[1] = "call"
  <2>1. Sets(Q2, Q, "ra", Succ(p)) /\ Sets(R2, R, "ra", Succ(p))
    BY <1>6 DEF Regs
  <2> QED BY <1>1, <2>1
<1>7. CASE I[1] = "compute"
  <2>1. Q2 = Computed(Q) /\ R2 = Computed(R)
    BY <1>7 DEF Regs
  <2> QED BY <2>1, Names DEF Computed, Alike
<1>8. CASE I[1] \in {"sw", "beq", "bnez", "j", "ret", "label"}
  BY <1>8 DEF Regs, Alike
<1> QED BY <1>2, <1>3, <1>4, <1>5, <1>6, <1>7, <1>8 DEF Regs

\* Where the saved state resumes.
LEMMA PlaceIs ==
  /\ Place(<<"Store_Checkpoint", 0>>) = <<"Store_Checkpoint", 76>>
  /\ Place(<<"Safe_Activate", 0>>) = <<"Safe_Activate", 52>>
  /\ Place(<<"main", 0>>) = <<"main", 25>>
BY Labels DEF Place

LEMMA StateIs ==
  ASSUME NEW R, NEW M
  PROVE  /\ State(R, M).reg = [r \in Vis |-> R[r]]
         /\ State(R, M).stack = [a \in R["sp"][2] .. 0 |-> St(M, a)]
         /\ Top(State(R, M)) = R["sp"][2] /\ Record(State(R, M))
<1> DEFINE f == [r \in Vis |-> R[r]]
           g == [a \in R["sp"][2] .. 0 |-> St(M, a)]
<1>1. State(R, M) = [reg |-> f, stack |-> g]
  BY DEF State, Visible, Live, St, Vis
<1>2. f["sp"] = R["sp"] /\ f = [r \in Vis |-> f[r]] /\ g = [a \in R["sp"][2] .. 0 |-> g[a]]
  BY Names
<1>3. f = [r \in Vis |-> R[r]] /\ g = [a \in R["sp"][2] .. 0 |-> St(M, a)]
  OBVIOUS
<1> HIDE DEF f, g
<1>4. State(R, M).reg = f /\ State(R, M).stack = g /\ Top(State(R, M)) = R["sp"][2]
  BY <1>1, <1>2 DEF Top
<1>5. Record(State(R, M))
  BY <1>1, <1>2, <1>4 DEF Record
<1> QED BY <1>3, <1>4, <1>5

\* The members are the same when all of their registers are.
LEMMA VisibleIs ==
  ASSUME NEW Q, NEW R
  PROVE  Visible(Q) = Visible(R) <=> Alike(Q, R)
BY DEF Visible, Alike, Vis

(***************************************************************************)
(* At the start, and with one hart.                                        *)
(***************************************************************************)
Acts == Machine \/ Checkpointed \/ Wfi \/ Return \/ Repair \/ Recover \/ Fault
LEMMA ActsAre == Next => Acts \/ Ended
BY DEF Next, Instruction, Acts, Machine

LEMMA GroupIs ==
  ASSUME mode \in {"TCLS", "DCLS"}
  PROVE  /\ Group(mode) = (IF mode = "TCLS" THEN {0, 1, 2} ELSE {0, 1})
         /\ Group(mode) \ {Master} = (IF mode = "TCLS" THEN {1, 2} ELSE {1})
         /\ Hart = {0, 1, 2} /\ Master = 0 /\ Victim = 1
         /\ Group(mode) # {Master} /\ Group(mode) # Group(mode) \ {Master} /\ {Master} # Group(mode) \ {Master}
         /\ Group(mode) \in Groups /\ Group(mode) \ {Master} \in Groups
BY DEF Group, Hart, Master, Victim, Groups

LEMMA Starts == ASSUME Init PROVE Holds
<1>1. Shape
  <2>1. mode \in {"TCLS", "DCLS"} /\ recovering \in BOOLEAN /\ pc = <<pc[1], pc[2]>> /\ pc[2] \in Nat
        /\ struck \in {{}, {Victim}} /\ healing \in {{}, {Victim}}
    BY SavedStateAssumption DEF Init
  <2>2. DOMAIN reg = Hart /\ \A h \in Hart : DOMAIN reg[h] = Reg
    BY DEF Init
  <2>3. DOMAIN mem = Places /\ St(mem, 0) = <<"word", 0>>
    <3>1. mem = [a \in Places |-> <<"word", a[2]>>]
      BY DEF Init, Places
    <3>2. <<"stack", 0>> \in Places
      BY PlacesAre DEF Stacks
    <3> QED BY <3>1, <3>2 DEF St
  <2> QED BY <2>1, <2>2, <2>3 DEF Shape
<1>2. Alone
  <2>1. pc = <<"main", 1>> /\ active = {Master} /\ Early
    BY DEF Init, Early
  <2>2. reg[Master]["sp"] = <<"stack", MainTop(1)>>
    BY Names DEF Init, Hart, Master, MainTop
  <2>3. Sound(reg[Master], mem)
    BY <1>1 DEF Shape, Sound, Hart, Master
  <2> QED BY <2>1, <2>2, <2>3 DEF Alone, Runs
<1> QED BY <1>1, <1>2 DEF Holds

\* What a hart that leads does.
LEMMA LeaderDoes ==
  ASSUME NEW l, Leads(l), Executes(l)
  PROVE  Does(Instr, reg[l], mem, pc, recovering, reg'[l], mem', pc')
BY DEF Leads, Executes, Does

LEMMA ShapeSteps ==
  ASSUME Shape, NEW l, Leads(l), Executes(l), Sound(reg'[l], mem'), pc' = <<pc'[1], pc'[2]>>, pc'[2] \in Nat
  PROVE  Shape'
<1>1. mode' = mode /\ recovering' = recovering /\ struck' = struck /\ healing' = healing
  BY DEF Executes, Quiet
<1>2. DOMAIN reg' = Hart /\ \A h \in Hart : DOMAIN reg'[h] = Reg
  BY DEF Executes, Shape
<1>3. DOMAIN mem' = Places /\ St(mem', 0) = <<"word", 0>>
  BY DEF Sound
<1> QED BY <1>1, <1>2, <1>3 DEF Shape

LEMMA AloneStep == ASSUME Shape, Alone, Acts PROVE Holds'
<1>0. /\ mode \in {"TCLS", "DCLS"} /\ pc = <<pc[1], pc[2]>> /\ active = {Master} /\ Early
      /\ DOMAIN reg = Hart /\ \A h \in Hart : DOMAIN reg[h] = Reg
  BY DEF Shape, Alone
<1>1. Leads(Master)
  BY <1>0, GroupIs DEF Leads, Groups, Hart, Master
<1>2. \/ pc[1] = "main" /\ pc[2] \in 1 .. 5 /\ Runs(pc[2], reg[Master], mem)
      \/ /\ pc[1] = "Safe_Activate" /\ pc[2] \in 1 .. 55
         /\ Called("Safe_Activate", entry) /\ Activates(pc[2], reg[Master], mem, entry)
  BY DEF Alone
<1>3. /\ Formal(Instr) /\ Instr[1] \notin {"mret", "dret", "ret"}
      /\ Instr[1] = "wfi" => pc = <<"Safe_Activate", 55>>
      /\ Instr[1] = "call" => pc = <<"main", 5>>
  <2>1. CASE pc[1] = "main" /\ pc[2] \in 1 .. 5
    <3>1. pc[2] \in 1 .. 25 /\ Instr = Code["main"][pc[2]]
      BY <2>1 DEF Instr
    <3>2. Formal(Instr) /\ Instr[1] \in Ordinary \cup {"label", "call"} /\ (Instr[1] = "call" => pc[2] \in Calls)
      BY <3>1, MainOps
    <3> QED BY <1>0, <2>1, <3>2, NotSpecial DEF Calls
  <2>2. CASE pc[1] = "Safe_Activate" /\ pc[2] \in 1 .. 55
    <3>1. SaHas(pc[2], Instr)
      BY <2>2, SaOps DEF Instr
    <3> QED BY <1>0, <2>2, <3>1, NotSpecial DEF SaHas
  <2> QED BY <1>2, <2>1, <2>2
<1>4. CASE Machine
  <2>1. Executes(Master)
    BY <1>1, <1>3, <1>4, MachineDoes
  <2>2. Does(Instr, reg[Master], mem, pc, recovering, reg'[Master], mem', pc')
    BY <1>1, <2>1, LeaderDoes
  <2>3. active' = {Master} /\ Early'
    BY <1>0, <2>1 DEF Executes, Quiet, Early
  <2>4. CASE pc[1] = "main" /\ pc[2] \in 1 .. 4 /\ Runs(pc[2], reg[Master], mem)
    <3>1. PICK i \in 1 .. 4 : i = pc[2] /\ pc = <<"main", i>>
      BY <1>0, <2>4
    <3>2. Does(MnCode[i], reg[Master], mem, <<"main", i>>, recovering, reg'[Master], mem', pc')
      BY <2>2, <3>1 DEF Instr, MnCode
    <3>3. i \in 1 .. 24 /\ i \notin Calls
      BY DEF Calls
    <3>4. pc' = <<"main", i + 1>> /\ Runs(i + 1, reg'[Master], mem')
      BY <2>4, <3>1, <3>2, <3>3, MainStep
    <3>5. Alone'
      BY <2>3, <3>4 DEF Alone
    <3>6. Shape'
      BY <1>1, <2>1, <3>4, ShapeSteps DEF Runs
    <3> QED BY <3>5, <3>6 DEF Holds
  <2>5. CASE pc = <<"main", 5>> /\ Runs(5, reg[Master], mem)
    <3>1. Does(MnCode[5], reg[Master], mem, <<"main", 5>>, recovering, reg'[Master], mem', pc')
      BY <2>2, <2>5 DEF Instr, MnCode
    <3>2. 5 \in Calls /\ MnCode[5][2] = "Safe_Activate" /\ MnCode[5][1] = "call"
      BY MainText DEF Calls, call
    <3>3. /\ pc' = <<"Safe_Activate", 1>> /\ mem' = mem /\ Sound(reg'[Master], mem)
          /\ Called("Safe_Activate", State(reg'[Master], mem))
      BY <2>5, <3>1, <3>2, MainCalls
    <3>4. entry' = State(reg'[Master], mem)
      BY <2>1, <2>5, <3>2 DEF Executes, Quiet, Op, Instr, MnCode
    <3>5. Activates(1, reg'[Master], mem, State(reg'[Master], mem))
      BY <3>3, Begins
    <3>6. Alone'
      BY <2>3, <3>3, <3>4, <3>5 DEF Alone
    <3>7. Shape'
      BY <1>1, <2>1, <3>3, ShapeSteps
    <3> QED BY <3>6, <3>7 DEF Holds
  <2>6. CASE /\ pc[1] = "Safe_Activate" /\ pc[2] \in 1 .. 55
             /\ Called("Safe_Activate", entry) /\ Activates(pc[2], reg[Master], mem, entry)
    <3>1. PICK i \in 1 .. 55 : i = pc[2] /\ pc = <<"Safe_Activate", i>>
      BY <1>0, <2>6
    <3>2. Does(SaCode[i], reg[Master], mem, <<"Safe_Activate", i>>, recovering, reg'[Master], mem', pc')
      BY <2>2, <3>1 DEF Instr, SaCode
    <3>3. i \in 1 .. 59 /\ i # 55
      <4>1. SaCode[55][1] = "wfi"
        BY SaText, Ops
      <4>2. ~(\E Q, Q2 : Regs(SaCode[55], reg[Master], mem, pc, Q, Q2))
        BY <4>1, NotOrdinary
      <4> QED BY <3>1, <3>2, <4>2 DEF Does
    <3>4. pc' = <<"Safe_Activate", i + 1>> /\ Activates(i + 1, reg'[Master], mem', entry)
      BY <2>6, <3>1, <3>2, <3>3, SaStep
    <3>5. entry' = entry
      BY <1>3, <2>1, <3>1 DEF Executes, Quiet, Op
    <3>6. Alone'
      BY <2>3, <2>6, <3>3, <3>4, <3>5 DEF Alone
    <3>7. Shape'
      BY <1>1, <2>1, <3>4, ShapeSteps DEF Activates, Keeps
    <3> QED BY <3>6, <3>7 DEF Holds
  <2> QED BY <1>0, <1>2, <2>4, <2>5, <2>6
<1>5. CASE Wfi
  <2>1. /\ pc = <<"Safe_Activate", 55>> /\ active' = Group(mode) \ {Master} /\ pc' = <<"halt_boot", 1>>
        /\ UNCHANGED <<mode, reg, mem, recovering, struck, healing, repairs, entry, before, snap>>
    BY <1>0, <1>3, <1>5 DEF Wfi, Op
  <2>2. Left /\ Left'
    BY <1>2, <2>1 DEF Left
  <2>3. Boots(1, reg[Victim], mem)
    <3>1. Sound(reg[Victim], mem)
      BY DEF Shape, Sound, Hart, Victim
    <3> QED BY <3>1, LoadedOnce DEF Boots, BootWords, BootRest
  <2>4. \A h \in Hart : Follows(1, reg[h], reg[Victim])
    BY LoadedOnce DEF Follows
  <2>5. Booting'
    <3>1. Group(mode) \ {Master} \subseteq Hart
      BY <1>0, GroupIs
    <3> QED BY <1>0, <2>1, <2>2, <2>3, <2>4, <3>1 DEF Booting, Early
  <2>6. Shape'
    BY <2>1 DEF Shape
  <2> QED BY <2>5, <2>6 DEF Holds
<1>6. CASE Checkpointed \/ Return \/ Repair \/ Recover \/ Fault
  <2>1. ~Formed
    BY <1>0, GroupIs DEF Formed
  <2>2. pc # Place(<<"Store_Checkpoint", 0>>)
    BY <1>2, PlaceIs
  <2> QED BY <1>3, <1>6, <2>1, <2>2 DEF Checkpointed, Return, Repair, Recover, Fault, Op
<1> QED BY <1>4, <1>5, <1>6 DEF Acts

(***************************************************************************)
(* The others join.                                                        *)
(***************************************************************************)
LEMMA OthersLead ==
  ASSUME Shape, active = Group(mode) \ {Master}
  PROVE  /\ Leads(Victim) /\ Victim \in active /\ Master \notin active /\ active \subseteq Hart /\ active # {Master} /\ ~Formed
         /\ active # Hart /\ Victim \in Hart /\ Master \in Hart
<1>1. mode \in {"TCLS", "DCLS"}
  BY DEF Shape
<1>2. active \in Groups /\ active # Hart /\ Victim \in active /\ Master \notin active /\ active # {Master} /\ ~Formed
      /\ active \subseteq Hart /\ Victim \in Hart /\ Master \in Hart
  BY <1>1, GroupIs DEF Formed
<1> QED BY <1>2 DEF Leads, Shape

LEMMA BootingStep == ASSUME Shape, Booting, Acts PROVE Holds'
<1>0. /\ pc = <<pc[1], pc[2]>> /\ active = Group(mode) \ {Master} /\ Early /\ Left
      /\ pc[1] = "halt_boot" /\ pc[2] \in 1 .. 48 /\ Boots(pc[2], reg[Victim], mem)
      /\ (\A h \in active : Follows(pc[2], reg[h], reg[Victim]))
      /\ DOMAIN reg = Hart /\ (\A h \in Hart : DOMAIN reg[h] = Reg)
  BY DEF Shape, Booting
<1>1. /\ Leads(Victim) /\ Victim \in active /\ Master \notin active /\ active \subseteq Hart /\ active # {Master} /\ ~Formed
      /\ active # Hart /\ Victim \in Hart /\ Master \in Hart
  BY <1>0, OthersLead
<1>2. PICK i \in 1 .. 48 : i = pc[2] /\ pc = <<"halt_boot", i>>
  BY <1>0
<1>3. Formal(Instr) /\ Instr[1] \notin {"wfi", "mret", "call", "ret"} /\ (Instr[1] = "dret" => i = 48)
  <2>1. i \in 1 .. 62 /\ Instr = Code["halt_boot"][i]
    BY <1>2 DEF Instr
  <2>2. Formal(Instr) /\ Instr[1] \in Ordinary \cup {"label", "dret"} /\ (Instr[1] = "dret" => i = 48)
    BY <2>1, HbOps
  <2> QED BY <2>2, NotSpecial
<1>4. CASE Machine
  <2>1. Executes(Victim)
    BY <1>1, <1>3, <1>4, MachineDoes
  <2>2. Does(HbCode[i], reg[Victim], mem, <<"halt_boot", i>>, FALSE, reg'[Victim], mem', pc')
    <3>1. Does(Instr, reg[Victim], mem, pc, recovering, reg'[Victim], mem', pc')
      BY <1>1, <2>1, LeaderDoes
    <3>2. recovering = FALSE
      <4>1. recovering \in BOOLEAN /\ ~recovering
        BY <1>0 DEF Shape, Early
      <4> QED BY <4>1
    <3>3. Instr = HbCode[i]
      BY <1>2 DEF Instr, HbCode
    <3>4. Does(HbCode[i], reg[Victim], mem, <<"halt_boot", i>>, recovering, reg'[Victim], mem', pc')
      BY <1>2, <3>1, <3>3
    <3> QED BY <3>2, <3>4
  <2>3. i # 48
    <3>1. HbCode[48][1] = "dret"
      BY HbText, Ops
    <3>2. ~(\E Q, Q2 : Regs(HbCode[48], reg[Victim], mem, <<"halt_boot", 48>>, Q, Q2))
      BY <3>1, NotOrdinary
    <3> QED BY <2>2, <3>2 DEF Does
  <2>4. Continues(i, mem, FALSE, snap, pc', reg'[Victim], mem')
    <3>1. i \in 1 .. 62 /\ (FALSE \/ i < 48) /\ Boots(i, reg[Victim], mem) /\ FALSE \in BOOLEAN
      BY <1>0, <1>2, <2>3
    <3> QED BY <2>2, <2>3, <3>1, HbStep
  <2>5. pc' = <<"halt_boot", i + 1>> /\ Boots(i + 1, reg'[Victim], mem') /\ mem' = mem
    BY <2>4 DEF Continues
  <2>6. ASSUME NEW h \in active PROVE Follows(i + 1, reg'[h], reg'[Victim])
    <3>1. /\ Regs(HbCode[i], reg[Victim], mem, pc, reg[h], reg'[h])
          /\ Regs(HbCode[i], reg[Victim], mem, pc, reg[Victim], reg'[Victim])
      BY <1>1, <1>2, <2>1 DEF Executes, Instr, HbCode
    <3>2. /\ Follows(i, reg[h], reg[Victim]) /\ DOMAIN reg[h] = Reg /\ DOMAIN reg[Victim] = Reg
          /\ i \in 1 .. 62 /\ i \in Nat
      BY <1>0, <1>1, <1>2
    <3> QED BY <2>3, <3>1, <3>2, HbFollows
  <2>7. reg'[Master] = reg[Master] /\ entry' = entry /\ active' = active /\ mode' = mode /\ Early'
    BY <1>0, <1>1, <1>3, <2>1 DEF Executes, Quiet, Op, Early
  <2>8. Left'
    BY <1>0, <2>5, <2>7 DEF Left
  <2>9. Booting'
    BY <1>0, <2>3, <2>5, <2>6, <2>7, <2>8 DEF Booting
  <2>10. Shape'
    BY <1>1, <2>1, <2>5, ShapeSteps DEF Boots
  <2> QED BY <2>9, <2>10 DEF Holds
<1>5. CASE Return
  <2>1. /\ i = 48 /\ Op("dret")
        /\ UNCHANGED <<mode, active, reg, mem, recovering, struck, healing, repairs, entry, before, snap>>
    BY <1>3, <1>5 DEF Return, Op
  <2>2. pc' \in Wire([h \in active |-> Place(reg[h]["dpc"])])
    BY <1>3, <1>5 DEF Return, Op, Driven
  <2>3. /\ \A n \in 1 .. 36 : reg[Victim][Order[n]] = Cp(mem, n - 1)
        /\ reg[Victim]["dpc"] = Cp(mem, 36) /\ \A h \in active : Alike(reg[h], reg[Victim])
    <3>1. Boots(48, reg[Victim], mem) /\ \A h \in active : Follows(48, reg[h], reg[Victim])
      BY <1>0, <1>2, <2>1
    <3> QED BY <1>1, <3>1, Booted
  <2>4. Called("Safe_Activate", entry) /\ Activates(55, reg[Master], mem, entry)
    BY <1>0 DEF Left
  <2>5. pc' = <<"Safe_Activate", 52>>
    <3> DEFINE f == [h \in active |-> Place(reg[h]["dpc"])]
    <3>1. f = [h \in active |-> f[h]] /\ f[Victim] = Place(reg[Victim]["dpc"])
      BY <1>1
    <3>2. pc' \in Wire(f)
      BY <2>2
    <3> HIDE DEF f
    <3>3. pc' = f[Victim]
      BY <1>1, <3>1, <3>2, WireIs DEF Leads
    <3>4. Cp(mem, 36) = <<"Safe_Activate", 0>>
      BY <2>4 DEF Activates
    <3> QED BY <2>3, <3>1, <3>3, <3>4, PlaceIs
  <2>6. \A r \in Vis : r # "t6" => reg[Victim][r] = reg[Master][r]
    <3>1. \A n \in 1 .. 34 : Cp(mem, n - 1) = reg[Master][Order[n]]
      <4>1. \A n \in 1 .. 34 : n \in 1 .. 5 \/ n \in 6 .. 34
        OBVIOUS
      <4> QED BY <2>4, <4>1 DEF Activates
    <3>2. Cp(mem, 34) = reg[Master]["t5"]
      BY <2>4 DEF Activates
    <3>3. \A n \in 1 .. 36 : Order[n] # "t6" => reg[Victim][Order[n]] = reg[Master][Order[n]]
      <4>1. \A n \in 1 .. 36 : n \in 1 .. 34 \/ n = 35 \/ n = 36
        OBVIOUS
      <4>2. Order[35] = "t5" /\ Order[36] = "t6" /\ reg[Victim][Order[35]] = Cp(mem, 34)
        BY <2>3, OrderList
      <4> QED BY <2>3, <3>1, <3>2, <4>1, <4>2
    <3> QED BY <3>3, VisIs
  <2>7. Joining'
    <3>1. \A h \in active, r \in Vis : r # "t6" => reg[h][r] = reg[Master][r]
      BY <2>3, <2>6 DEF Alike
    <3> QED BY <1>0, <2>1, <2>3, <2>5, <3>1 DEF Joining, Early, Left
  <2>8. Shape'
    BY <2>1, <2>5 DEF Shape
  <2> QED BY <2>7, <2>8 DEF Holds
<1>6. CASE Checkpointed \/ Wfi \/ Repair \/ Recover \/ Fault
  <2>1. pc # Place(<<"Store_Checkpoint", 0>>)
    BY <1>2, PlaceIs
  <2> QED BY <1>1, <1>3, <1>6, <2>1 DEF Checkpointed, Wfi, Repair, Recover, Fault, Op
<1> QED BY <1>4, <1>5, <1>6 DEF Acts

LEMMA JoiningStep == ASSUME Shape, Joining, Acts PROVE Holds'
<1>0. /\ pc = <<pc[1], pc[2]>> /\ active = Group(mode) \ {Master} /\ Early /\ Left
      /\ pc[1] = "Safe_Activate" /\ pc[2] \in 52 .. 55
      /\ (\A h \in active, r \in Vis : r # "t6" \/ pc[2] >= 54 => reg[h][r] = reg[Master][r])
      /\ (\A h \in active : Alike(reg[h], reg[Victim]))
      /\ DOMAIN reg = Hart /\ (\A h \in Hart : DOMAIN reg[h] = Reg)
  BY DEF Shape, Joining
<1>1. /\ Leads(Victim) /\ Victim \in active /\ Master \notin active /\ active \subseteq Hart /\ active # {Master} /\ ~Formed
      /\ active # Hart /\ Victim \in Hart /\ Master \in Hart
  BY <1>0, OthersLead
<1>2. PICK i \in 52 .. 55 : i = pc[2] /\ pc = <<"Safe_Activate", i>>
  BY <1>0
<1>3. Formal(Instr) /\ Instr[1] \notin {"ret", "mret", "dret", "call"} /\ (Instr[1] = "wfi" => i = 55) /\ Instr = SaCode[i]
  <2>1. i \in 1 .. 60 /\ Instr = Code["Safe_Activate"][i]
    BY <1>2 DEF Instr
  <2>2. SaHas(i, Instr)
    BY <2>1, SaOps
  <2> QED BY <1>2, <2>1, <2>2, NotSpecial DEF SaCode, SaHas
<1>l. Called("Safe_Activate", entry) /\ Activates(55, reg[Master], mem, entry) /\ reg[Master]["t5"] = Base
      /\ reg[Master]["t6"] = <<"Safe_Activate", 0>> /\ Cp(mem, 36) = <<"Safe_Activate", 0>>
  BY <1>0 DEF Left, Activates
<1>4. CASE Machine
  <2>1. Executes(Victim)
    BY <1>1, <1>3, <1>4, MachineDoes
  <2>2. Does(SaCode[i], reg[Victim], mem, <<"Safe_Activate", i>>, recovering, reg'[Victim], mem', pc')
    <3>1. Does(Instr, reg[Victim], mem, pc, recovering, reg'[Victim], mem', pc')
      BY <1>1, <2>1, LeaderDoes
    <3> QED BY <1>2, <1>3, <3>1
  <2>3. i # 55
    <3>1. SaCode[55][1] = "wfi"
      BY SaText, Ops
    <3>2. ~(\E Q, Q2 : Regs(SaCode[55], reg[Victim], mem, <<"Safe_Activate", 55>>, Q, Q2))
      BY <3>1, NotOrdinary
    <3> QED BY <2>2, <3>2 DEF Does
  <2>4. reg'[Master] = reg[Master] /\ entry' = entry /\ active' = active /\ mode' = mode /\ Early'
    BY <1>0, <1>1, <1>3, <2>1 DEF Executes, Quiet, Op, Early
  <2>5. \A h \in active : Alike(reg'[h], reg'[Victim])
    <3>1. ASSUME NEW h \in active PROVE Alike(reg'[h], reg'[Victim])
      <4>1. /\ Regs(Instr, reg[Victim], mem, pc, reg[h], reg'[h])
            /\ Regs(Instr, reg[Victim], mem, pc, reg[Victim], reg'[Victim])
            /\ Alike(reg[h], reg[Victim]) /\ DOMAIN reg[h] = Reg /\ DOMAIN reg[Victim] = Reg
        BY <1>0, <1>1, <2>1 DEF Executes
      <4> QED BY <1>3, <4>1, RegsAlike
    <3> QED BY <3>1
  <2>p. Succ(<<"Safe_Activate", i>>) = <<"Safe_Activate", i + 1>>
    BY DEF Succ
  <2>6. /\ pc' = <<"Safe_Activate", i + 1>> /\ Sound(reg'[Victim], mem') /\ Activates(55, reg[Master], mem', entry)
        /\ \A r \in Vis : r # "t6" \/ i + 1 >= 54 => reg'[Victim][r] = reg[Master][r]
    <3>0. \A r \in Vis : r # "t6" \/ i >= 54 => reg[Victim][r] = reg[Master][r]
      BY <1>0, <1>1, <1>2
    <3>s. Sound(reg[Victim], mem)
      BY <1>1 DEF Shape, Sound
    <3>1. CASE i = 52
      <4>1. reg'[Victim] = reg[Victim] /\ mem' = mem /\ pc' = <<"Safe_Activate", i + 1>>
        BY <2>2, <2>p, <3>1, SaText, Jumping
      <4> QED BY <1>l, <3>0, <3>1, <3>s, <4>1
    <3>2. CASE i = 53
      <4>1. Sets(reg'[Victim], reg[Victim], "t6", <<"Safe_Activate", 0>>) /\ mem' = mem /\ pc' = <<"Safe_Activate", i + 1>>
        BY <2>2, <2>p, <3>2, SaText, InRegisters
      <4>2. Sound(reg'[Victim], mem')
        BY <3>s, <4>1, RunsSets
      <4>3. \A r \in Vis : reg'[Victim][r] = reg[Master][r]
        BY <1>l, <3>0, <3>s, <4>1, Names DEF Sets, Sound
      <4> QED BY <1>l, <4>1, <4>2, <4>3
    <3>3. CASE i = 54
      <4>1. reg[Victim]["t5"] = <<"copy", 0>> /\ reg[Victim]["t6"] = <<"Safe_Activate", 0>> /\ 0 + 36 = 36 /\ 36 \in Words
        BY <1>l, <3>0, <3>3, Names DEF Base, Words
      <4>2. reg'[Victim] = reg[Victim] /\ CopyWrite(mem', mem, 36, reg[Victim]["t6"]) /\ pc' = <<"Safe_Activate", i + 1>>
        BY <2>2, <2>p, <3>3, <3>s, <4>1, SaText, OnCopy DEF Sound
      <4>3. \A k \in 0 .. 36 : Cp(mem', k) = Cp(mem, k)
        BY <1>l, <4>1, <4>2 DEF CopyWrite, Words
      <4>4. Keeps(reg[Master], mem', entry)
        BY <1>l, <4>2, CalledTop, KeepsElse DEF CopyWrite, Activates
      <4>5. Activates(55, reg[Master], mem', entry)
        BY <1>l, <4>3, <4>4 DEF Activates
      <4>6. Sound(reg'[Victim], mem')
        BY <3>s, <4>2 DEF Sound, CopyWrite, SameStack, Stacks
      <4> QED BY <3>0, <3>3, <4>2, <4>5, <4>6
    <3> QED BY <2>3, <3>1, <3>2, <3>3
  <2>7. Joining'
    <3>1. \A h \in active, r \in Vis : r # "t6" \/ i + 1 >= 54 => reg'[h][r] = reg[Master][r]
      BY <2>5, <2>6 DEF Alike
    <3>2. Left'
      BY <1>l, <2>4, <2>6 DEF Left
    <3> QED BY <1>0, <2>3, <2>4, <2>5, <2>6, <3>1, <3>2 DEF Joining
  <2>8. Shape'
    BY <1>1, <2>1, <2>6, ShapeSteps
  <2> QED BY <2>7, <2>8 DEF Holds
<1>5. CASE Wfi
  <2>1. /\ i = 55 /\ active' = Group(mode) /\ pc' = <<"handler_safe_fsm", 1>>
        /\ reg' = [h \in Hart |-> IF h \in Group(mode) THEN [reg[h] EXCEPT !["mepc"] = <<"Safe_Activate", 56>>] ELSE reg[h]]
        /\ UNCHANGED <<mode, mem, recovering, struck, healing, repairs, entry, before, snap>>
    BY <1>1, <1>2, <1>3, <1>5 DEF Wfi, Op, Interrupted, After
  <2>2. Group(mode) \subseteq Hart /\ Master \in Group(mode)
    BY GroupIs DEF Shape
  <2>3. \A h \in Hart : DOMAIN reg'[h] = Reg
    BY <1>0, <2>1
  <2>4. \A h \in Group(mode) : Sets(reg'[h], reg[h], "mepc", <<"Safe_Activate", 56>>)
    BY <1>0, <2>1, <2>2, Names DEF Sets
  <2>5. \A h \in Group(mode) : Alike(reg'[h], reg'[Master])
    <3>1. \A h \in Group(mode), r \in Vis : reg[h][r] = reg[Master][r]
      <4>1. \A h \in Group(mode) : h = Master \/ h \in active
        BY <1>0
      <4> QED BY <1>0, <1>2, <2>1, <4>1
    <3> QED BY <1>0, <1>1, <2>2, <2>4, <3>1, Names DEF Alike, Sets
  <2>6. Wakes(1, reg'[Master], mem, entry)
    <3>1. Keeps(reg[Master], mem, entry) /\ reg[Master]["sp"] = <<"stack", -6>>
      BY <1>l DEF Activates
    <3>2. Keeps(reg'[Master], mem, entry)
      BY <2>2, <2>4, <3>1, KeepsSets, KeptNames
    <3>3. reg'[Master]["sp"] = <<"stack", -6>> /\ reg'[Master]["mepc"] = <<"Safe_Activate", 56>>
      BY <1>0, <1>1, <2>2, <2>4, <3>1, Names DEF Sets
    <3> QED BY <3>2, <3>3 DEF Wakes
  <2>7. Working'
    <3>1. Backed'
      BY <1>0, <2>1 DEF Backed, Early
    <3>2. \A h \in active' \ struck' : Alike(reg'[h], reg'[Master])
      BY <2>1, <2>5
    <3>3. active' = Group(mode)' /\ ~recovering' /\ healing' = {}
      <4>1. Group(mode)' = Group(mode)
        BY <2>1 DEF Group
      <4> QED BY <1>0, <2>1, <4>1 DEF Early
    <3>4. pc'[1] = "handler_safe_fsm" /\ pc'[2] \in 1 .. 9 /\ Called("Safe_Activate", entry')
          /\ Wakes(pc'[2], reg'[Master], mem', entry')
      BY <1>l, <2>1, <2>6
    <3> QED BY <3>1, <3>2, <3>3, <3>4 DEF Working
  <2>8. Shape'
    BY <2>1, <2>3 DEF Shape
  <2> QED BY <2>7, <2>8 DEF Holds
<1>6. CASE Checkpointed \/ Return \/ Repair \/ Recover \/ Fault
  <2>1. pc # Place(<<"Store_Checkpoint", 0>>)
    BY <1>2, PlaceIs
  <2> QED BY <1>1, <1>3, <1>6, <2>1 DEF Checkpointed, Return, Repair, Recover, Fault, Op
<1> QED BY <1>4, <1>5, <1>6 DEF Acts

(***************************************************************************)
(* A group at work.                                                        *)
(***************************************************************************)
LEMMA TogetherLead ==
  ASSUME Shape, active = Group(mode), \A h \in active \ (struck \cup healing) : Alike(reg[h], reg[Master])
  PROVE  /\ Leads(Master) /\ Master \in active /\ active \subseteq Hart /\ active # {Master} /\ Formed
         /\ Master \in Hart /\ Master \notin struck \cup healing /\ active = Group(mode)
         /\ DOMAIN reg = Hart /\ \A h \in Hart : DOMAIN reg[h] = Reg
<1>1. /\ mode \in {"TCLS", "DCLS"} /\ DOMAIN reg = Hart /\ (\A h \in Hart : DOMAIN reg[h] = Reg)
      /\ struck \subseteq {Victim} /\ healing \subseteq {Victim}
  BY DEF Shape
<1>2. /\ active \in Groups /\ Master \in active /\ active \subseteq Hart /\ active # {Master} /\ Formed
      /\ Master \in Hart /\ Master \notin struck \cup healing /\ Master = 0
      /\ active = Hart => 2 \in active \ (struck \cup healing)
  BY <1>1, GroupIs DEF Formed
<1> QED BY <1>1, <1>2 DEF Leads

\* The harts that no fault has hit do the same.
LEMMA TogetherStep ==
  ASSUME Leads(Master), Executes(Master), Formal(Instr), Master \in active, active \subseteq Hart
  PROVE  \A h \in active : Alike(reg[h], reg[Master]) => Alike(reg'[h], reg'[Master])
<1>1. ASSUME NEW h \in active, Alike(reg[h], reg[Master]) PROVE Alike(reg'[h], reg'[Master])
  <2>1. /\ Regs(Instr, reg[Master], mem, pc, reg[h], reg'[h])
        /\ Regs(Instr, reg[Master], mem, pc, reg[Master], reg'[Master])
        /\ DOMAIN reg[h] = Reg /\ DOMAIN reg[Master] = Reg
    BY DEF Executes, Leads
  <2> QED BY <1>1, <2>1, RegsAlike
<1> QED BY <1>1

LEMMA WorkingIs ==
  ASSUME Shape, Working
  PROVE  /\ Leads(Master) /\ Master \in active /\ active \subseteq Hart /\ active # {Master} /\ Formed
         /\ Master \in Hart /\ Master \notin struck /\ active = Group(mode)
         /\ DOMAIN reg = Hart /\ (\A h \in Hart : DOMAIN reg[h] = Reg)
         /\ ~recovering /\ healing = {} /\ (\A h \in active \ struck : Alike(reg[h], reg[Master]))
         /\ mode \in {"TCLS", "DCLS"} /\ pc = <<pc[1], pc[2]>> /\ (mode = "DCLS" => Backed)
         /\ Formal(Instr) /\ ~Op("wfi") /\ ~Op("dret")
<1>1. /\ active = Group(mode) /\ ~recovering /\ healing = {} /\ (\A h \in active \ struck : Alike(reg[h], reg[Master]))
      /\ mode = "DCLS" => Backed
  BY DEF Working
<1>2. \A h \in active \ (struck \cup healing) : Alike(reg[h], reg[Master])
  BY <1>1
<1>3. Formal(Instr) /\ ~Op("wfi") /\ ~Op("dret")
  <2>1. CASE Routine(pc, reg[Master], mem, entry, mode)
    <3>1. Formal(Instr) /\ Instr[1] \notin {"wfi", "mret", "dret"}
      BY <2>1, RoutineOps DEF Instr
    <3> QED BY <3>1 DEF Op
  <2>2. CASE pc[1] = "handler_safe_fsm" /\ pc[2] \in 1 .. 9
    <3>1. Formal(Instr) /\ Instr[1] \in Ordinary \cup {"mret"}
      BY <2>2, FsmOps DEF Instr
    <3> QED BY <3>1, NotSpecial DEF Op
  <2> QED BY <2>1, <2>2 DEF Working
<1>4. mode \in {"TCLS", "DCLS"} /\ pc = <<pc[1], pc[2]>>
  BY DEF Shape
<1>5. /\ Leads(Master) /\ Master \in active /\ active \subseteq Hart /\ active # {Master} /\ Formed
      /\ Master \in Hart /\ Master \notin struck \cup healing
      /\ DOMAIN reg = Hart /\ (\A h \in Hart : DOMAIN reg[h] = Reg)
  BY <1>1, <1>2, TogetherLead
<1> QED BY <1>1, <1>3, <1>4, <1>5

\* What is left to show of a step of the machine.
LEMMA WorkingAgain ==
  ASSUME Shape, Working, Executes(Master), pc' = <<pc'[1], pc'[2]>>, pc'[2] \in Nat, Sound(reg'[Master], mem'),
         \/ Routine(pc', reg'[Master], mem', entry', mode)
         \/ /\ pc'[1] = "handler_safe_fsm" /\ pc'[2] \in 1 .. 9
            /\ Called("Safe_Activate", entry') /\ Wakes(pc'[2], reg'[Master], mem', entry'),
         mode = "DCLS" => Backed'
  PROVE  Holds'
<1>0. /\ Leads(Master) /\ Master \in active /\ active \subseteq Hart /\ active = Group(mode)
      /\ ~recovering /\ healing = {} /\ (\A h \in active \ struck : Alike(reg[h], reg[Master])) /\ Formal(Instr)
  BY WorkingIs
<1>1. mode' = mode /\ active' = active /\ recovering' = recovering /\ struck' = struck /\ healing' = healing
  BY DEF Executes, Quiet
<1>2. active' = Group(mode)' /\ ~recovering' /\ healing' = {}
  <2>1. Group(mode)' = Group(mode)
    BY <1>1 DEF Group
  <2> QED BY <1>0, <1>1, <2>1
<1>3. \A h \in active' \ struck' : Alike(reg'[h], reg'[Master])
  BY <1>0, <1>1, TogetherStep
<1>4. mode' = "DCLS" => Backed'
  BY <1>1
<1>5. \/ Routine(pc', reg'[Master], mem', entry', mode')
      \/ /\ pc'[1] = "handler_safe_fsm" /\ pc'[2] \in 1 .. 9
         /\ Called("Safe_Activate", entry') /\ Wakes(pc'[2], reg'[Master], mem', entry')
  BY <1>1
<1>6. Working'
  BY <1>2, <1>3, <1>4, <1>5 DEF Working
<1>7. Shape'
  BY <1>0, ShapeSteps
<1> QED BY <1>6, <1>7 DEF Holds

\* A saved state stays while nothing is written to it.
LEMMA HasSavedStays ==
  ASSUME HasSaved, SameCopy(mem', mem), snap' = snap
  PROVE  HasSaved'
<1>1. Record(snap) /\ Called("Store_Checkpoint", snap) /\ Saved(mem, snap)
  BY DEF HasSaved
<1>2. Top(snap) \in {-2, 0}
  BY <1>1, CalledTop
<1>3. Saved(mem', snap)
  BY <1>1, <1>2, SavedStays
<1> QED BY <1>1, <1>3 DEF HasSaved

LEMMA WorkingMachine == ASSUME Shape, Working, Machine PROVE Holds'
<1>0. /\ Leads(Master) /\ Master \in active /\ active \subseteq Hart /\ active = Group(mode)
      /\ (\A h \in active \ struck : Alike(reg[h], reg[Master])) /\ pc = <<pc[1], pc[2]>>
      /\ (mode = "DCLS" => Backed) /\ Formal(Instr) /\ mode \in {"TCLS", "DCLS"}
  BY WorkingIs
<1>1. Executes(Master)
  BY <1>0, MachineDoes
<1>2. Does(Instr, reg[Master], mem, pc, recovering, reg'[Master], mem', pc')
  BY <1>0, <1>1, LeaderDoes
<1>3. /\ active' = active /\ struck' = struck /\ snap' = snap
      /\ ~Op("call") => entry' = entry
      /\ Op("call") => entry' = State(reg'[Master], mem) /\ ErrorsShow
      /\ Op("label") => pc # Place(<<"Store_Checkpoint", 0>>) /\ pc # Place(<<"main", 0>>)
  BY <1>1 DEF Executes, Quiet
<1>4. \A h \in active : Alike(reg[h], reg[Master]) => Alike(reg'[h], reg'[Master])
  BY <1>0, <1>1, TogetherStep
<1>5. CASE Routine(pc, reg[Master], mem, entry, mode) /\ ~Op("call")
  <2>1. pc # <<"main", 25>> /\ pc # <<"Store_Checkpoint", 76>>
    <3>1. MnCode[25][1] = "label" /\ ScCode[76][1] = "label"
      BY MainText, ScText, Ops
    <3>2. pc = <<"main", 25>> \/ pc = <<"Store_Checkpoint", 76>> => Op("label")
      BY <3>1 DEF Op, Instr, MnCode, ScCode
    <3> QED BY <1>3, <3>2, PlaceIs
  <2>2. Code[pc[1]][pc[2]] = Instr /\ Instr[1] # "call"
    BY <1>5 DEF Instr, Op
  <2>3. Routine(pc', reg'[Master], mem', entry, mode) /\ Steps(pc, reg[Master], mem, pc', reg'[Master], mem')
    BY <1>0, <1>2, <1>5, <2>1, <2>2, RoutineStep
  <2>4. /\ pc' = <<pc'[1], pc'[2]>> /\ pc'[2] \in Nat /\ Sound(reg'[Master], mem') /\ entry' = entry
    BY <1>3, <1>5, <2>3, RoutineTop DEF Steps
  <2>5. ASSUME mode = "DCLS" PROVE Backed'
    <3>1. CASE pc[1] \in {"main", "Check_RF"}
      <4>1. SameCopy(mem', mem) /\ pc'[1] \in {"main", "Check_RF"}
        BY <2>3, <3>1 DEF Steps
      <4>2. (snap = None /\ struck = {}) \/ HasSaved
        BY <1>0, <2>5, <3>1 DEF Backed
      <4>3. (snap' = None /\ struck' = {}) \/ HasSaved'
        BY <1>3, <4>1, <4>2, HasSavedStays
      <4> QED BY <4>1, <4>3 DEF Backed
    <3>2. CASE pc[1] = "Safe_Activate"
      <4>1. pc'[1] \in {"main", "Safe_Activate"}
        BY <2>3, <3>2 DEF Steps
      <4>2. snap' = None /\ struck' = {}
        BY <1>0, <1>3, <2>5, <3>2 DEF Backed
      <4> QED BY <4>1, <4>2 DEF Backed
    <3>3. CASE pc[1] = "Store_Checkpoint" /\ pc[2] # 77
      <4>1. pc'[1] = "Store_Checkpoint" /\ pc'[2] # 77
        BY <2>3, <3>3 DEF Steps
      <4>2. \A h \in active : Alike(reg[h], reg[Master])
        BY <1>0, <2>5, <3>3 DEF Backed
      <4>3. \A h \in active' : Alike(reg'[h], reg'[Master])
        BY <1>3, <1>4, <4>2
      <4> QED BY <4>1, <4>3 DEF Backed
    <3>4. CASE pc[1] = "Store_Checkpoint" /\ pc[2] = 77
      <4>1. pc'[1] = "main" /\ mem' = mem
        BY <2>3, <3>4 DEF Steps
      <4>2. HasSaved
        BY <1>0, <2>5, <3>4 DEF Backed
      <4>3. HasSaved'
        BY <1>3, <4>1, <4>2, HasSavedStays DEF SameCopy
      <4> QED BY <4>1, <4>3 DEF Backed
    <3> QED BY <1>5, <3>1, <3>2, <3>3, <3>4 DEF Routine
  <2>6. Routine(pc', reg'[Master], mem', entry', mode)
    BY <2>3, <2>4
  <2> QED BY <1>1, <2>4, <2>5, <2>6, WorkingAgain
<1>6. CASE Routine(pc, reg[Master], mem, entry, mode) /\ Op("call")
  <2>1. pc[1] = "main" /\ pc[2] \in Calls \ {5} /\ Runs(pc[2], reg[Master], mem)
    BY <1>6, RoutineOps DEF Op, Instr
  <2>2. PICK i \in Calls : i = pc[2] /\ i # 5 /\ pc = <<"main", i>>
    BY <1>0, <2>1
  <2>3. Does(MnCode[i], reg[Master], mem, <<"main", i>>, recovering, reg'[Master], mem', pc') /\ Runs(i, reg[Master], mem)
    BY <1>2, <2>1, <2>2 DEF Instr, MnCode
  <2>4. /\ Routine(pc', reg'[Master], mem', State(reg'[Master], mem'), mode) /\ mem' = mem
        /\ pc' = <<MnCode[i][2], 1>> /\ pc'[1] \in {"Store_Checkpoint", "Check_RF"}
    BY <2>2, <2>3, RoutineCalls
  <2>5. Routine(pc', reg'[Master], mem', entry', mode)
    BY <1>3, <1>6, <2>4
  <2>6. /\ pc' = <<pc'[1], pc'[2]>> /\ pc'[2] \in Nat /\ Sound(reg'[Master], mem')
    BY <2>4, <2>5, RoutineTop
  <2>7. ASSUME mode = "DCLS" PROVE Backed'
    <3>1. CASE pc'[1] = "Check_RF"
      <4>1. (snap = None /\ struck = {}) \/ HasSaved
        BY <1>0, <2>1, <2>7 DEF Backed
      <4>2. (snap' = None /\ struck' = {}) \/ HasSaved'
        BY <1>3, <2>4, <4>1, HasSavedStays DEF SameCopy
      <4> QED BY <3>1, <4>2 DEF Backed
    <3>2. CASE pc'[1] = "Store_Checkpoint"
      <4>1. Instr[2] = "Store_Checkpoint"
        BY <2>2, <2>4, <3>2 DEF Instr, MnCode
      <4>2. ~Differ
        BY <1>3, <1>6, <2>7, <4>1 DEF ErrorsShow
      <4>3. \A h \in active : Alike(reg[h], reg[Master])
        BY <1>0, <4>2, VisibleIs DEF Differ
      <4>4. \A h \in active' : Alike(reg'[h], reg'[Master])
        BY <1>3, <1>4, <4>3
      <4>5. pc'[2] # 77
        BY <2>4
      <4> QED BY <3>2, <4>4, <4>5 DEF Backed
    <3> QED BY <2>4, <3>1, <3>2
  <2> QED BY <1>1, <2>5, <2>6, <2>7, WorkingAgain
<1>7. CASE /\ pc[1] = "handler_safe_fsm" /\ pc[2] \in 1 .. 9
           /\ Called("Safe_Activate", entry) /\ Wakes(pc[2], reg[Master], mem, entry)
  <2>1. PICK i \in 1 .. 9 : i = pc[2] /\ pc = <<"handler_safe_fsm", i>>
    BY <1>0, <1>7
  <2>2. Does(FsmCode[i], reg[Master], mem, <<"handler_safe_fsm", i>>, recovering, reg'[Master], mem', pc')
    BY <1>2, <2>1 DEF Instr, FsmCode
  <2>3. i # 9
    <3>1. FsmCode[9][1] = "mret"
      BY FsmText, Ops
    <3>2. ~(\E Q, Q2 : Regs(FsmCode[9], reg[Master], mem, <<"handler_safe_fsm", 9>>, Q, Q2))
      BY <3>1, NotOrdinary
    <3> QED BY <2>2, <3>2 DEF Does
  <2>4. i \in 1 .. 8
    BY <2>3
  <2>5. pc' = <<"handler_safe_fsm", i + 1>> /\ Wakes(i + 1, reg'[Master], mem', entry)
    BY <1>7, <2>1, <2>2, <2>4, FsmStep
  <2>6. entry' = entry
    <3>1. Instr = FsmCode[i] /\ Instr[1] \in Ordinary
      BY <2>1, <2>4, FsmForms DEF Instr, FsmCode
    <3> QED BY <1>3, <3>1, NotSpecial DEF Op
  <2>7. /\ pc'[1] = "handler_safe_fsm" /\ pc'[2] \in 1 .. 9
        /\ Called("Safe_Activate", entry') /\ Wakes(pc'[2], reg'[Master], mem', entry')
    BY <1>7, <2>4, <2>5, <2>6
  <2>8. Sound(reg'[Master], mem') /\ pc' = <<pc'[1], pc'[2]>> /\ pc'[2] \in Nat
    BY <2>5, <2>7 DEF Wakes, Keeps
  <2>9. ASSUME mode = "DCLS" PROVE Backed'
    <3>1. snap' = None /\ struck' = {}
      BY <1>0, <1>3, <1>7, <2>9 DEF Backed
    <3> QED BY <2>7, <3>1 DEF Backed
  <2> QED BY <1>1, <2>7, <2>8, <2>9, WorkingAgain
<1> QED BY <1>5, <1>6, <1>7 DEF Working

\* A checkpoint that is complete is one to recover.
LEMMA SavedAs ==
  ASSUME NEW R, NEW M, NEW e, Called("Store_Checkpoint", e), Saved(M, e), Sound(R, M),
         \A r \in Vis : R[r] = e.reg[r], \A a \in Top(e) .. 0 : St(M, a) = e.stack[a]
  PROVE  /\ Record(State(R, M)) /\ Called("Store_Checkpoint", State(R, M)) /\ Saved(M, State(R, M))
<1> DEFINE s == State(R, M)
<1>1. /\ s.reg = [r \in Vis |-> R[r]] /\ s.stack = [a \in R["sp"][2] .. 0 |-> St(M, a)]
      /\ Top(s) = R["sp"][2] /\ Record(s)
  BY StateIs
<1>2. Top(e) \in {-2, 0} /\ e.reg["sp"] = <<"stack", Top(e)>>
  BY CalledTop
<1> HIDE DEF s
<1>3. R["sp"] = e.reg["sp"] /\ Top(s) = Top(e)
  BY <1>1, Names DEF Top
<1>4. \A r \in Vis : s.reg[r] = e.reg[r]
  BY <1>1
<1>5. DOMAIN s.reg = Vis /\ s.stack = [a \in Top(s) .. 0 |-> St(M, a)]
  BY <1>1
<1>6. \A a \in Top(s) .. 0 : s.stack[a] = e.stack[a]
  BY <1>3, <1>5
<1>7. s.stack = [a \in Top(s) .. 0 |-> s.stack[a]] /\ s.stack[0] = <<"word", 0>>
  <2>1. 0 \in Top(s) .. 0
    BY <1>2, <1>3
  <2>2. s.stack[0] = St(M, 0)
    BY <1>5, <2>1
  <2> QED BY <1>5, <2>2 DEF Sound
<1>8. Called("Store_Checkpoint", s)
  <2>1. s.reg["ra"] = e.reg["ra"] /\ s.reg["sp"] = e.reg["sp"]
    BY <1>4, Names
  <2> QED BY <1>5, <1>7, <2>1 DEF Called
<1>9. Saved(M, s)
  BY <1>3, <1>4, <1>6, Names DEF Saved, StackCopied
<1>10. s = State(R, M)
  BY DEF s
<1> QED BY <1>1, <1>8, <1>9, <1>10

LEMMA WorkingStores == ASSUME Shape, Working, Checkpointed PROVE Holds'
<1>0. /\ Leads(Master) /\ Master \in active /\ active \subseteq Hart /\ active = Group(mode)
      /\ (\A h \in active \ struck : Alike(reg[h], reg[Master])) /\ pc = <<pc[1], pc[2]>>
      /\ (mode = "DCLS" => Backed) /\ mode \in {"TCLS", "DCLS"} /\ ~recovering /\ healing = {}
  BY WorkingIs
<1>1. pc = <<"Store_Checkpoint", 76>> /\ pc' = <<"Store_Checkpoint", 77>>
  BY PlaceIs DEF Checkpointed, After
<1>2. /\ snap' = State(reg[Master], mem) /\ ~recovering' /\ struck' = struck /\ entry' = entry
      /\ UNCHANGED <<mode, active, reg, mem, healing, repairs, before>> /\ recovering' = FALSE
  BY <1>0 DEF Checkpointed
<1>3. Routine(<<"Store_Checkpoint", 76>>, reg[Master], mem, entry, mode)
  BY <1>1 DEF Working
<1>4. /\ Routine(<<"Store_Checkpoint", 77>>, reg[Master], mem, entry, mode)
      /\ mode = "DCLS" => /\ Saved(mem, entry) /\ (\A r \in Vis : reg[Master][r] = entry.reg[r])
                          /\ \A a \in Top(entry) .. 0 : St(mem, a) = entry.stack[a]
  BY <1>3, RoutineEnds
<1>5. ASSUME mode = "DCLS" PROVE Backed'
  <2>1. Called("Store_Checkpoint", entry) /\ Sound(reg[Master], mem)
    BY <1>3, RoutineTop DEF Routine
  <2>2. /\ Record(State(reg[Master], mem)) /\ Called("Store_Checkpoint", State(reg[Master], mem))
        /\ Saved(mem, State(reg[Master], mem))
    BY <1>4, <1>5, <2>1, SavedAs
  <2>3. HasSaved'
    BY <1>2, <2>2 DEF HasSaved
  <2>4. \A h \in active : Alike(reg[h], reg[Master])
    BY <1>0, <1>1, <1>5 DEF Backed
  <2>5. \A h \in active' : Alike(reg'[h], reg'[Master])
    BY <1>2, <2>4
  <2> QED BY <1>1, <2>3, <2>5 DEF Backed
<1>6. Working'
  <2>1. active' = Group(mode)' /\ ~recovering' /\ healing' = {}
    BY <1>0, <1>2 DEF Group
  <2>2. \A h \in active' \ struck' : Alike(reg'[h], reg'[Master])
    BY <1>0, <1>2
  <2>3. Routine(pc', reg'[Master], mem', entry', mode')
    BY <1>1, <1>2, <1>4
  <2>4. mode' = "DCLS" => Backed'
    BY <1>2, <1>5
  <2> QED BY <2>1, <2>2, <2>3, <2>4 DEF Working
<1>7. Shape'
  BY <1>1, <1>2 DEF Shape
<1> QED BY <1>6, <1>7 DEF Holds

LEMMA WorkingReturns == ASSUME Shape, Working, Return PROVE Holds'
<1>0. /\ Leads(Master) /\ Master \in active /\ active \subseteq Hart /\ active = Group(mode)
      /\ (\A h \in active \ struck : Alike(reg[h], reg[Master])) /\ pc = <<pc[1], pc[2]>>
      /\ (mode = "DCLS" => Backed) /\ mode \in {"TCLS", "DCLS"} /\ ~recovering /\ ~Op("dret")
  BY WorkingIs
<1>1. /\ Op("mret") /\ pc' \in Wire([h \in active |-> reg[h]["mepc"]]) /\ healing' = {}
      /\ UNCHANGED <<mode, active, reg, mem, recovering, struck, repairs, entry, before, snap>>
  BY <1>0 DEF Return, Driven
<1>2. ~Routine(pc, reg[Master], mem, entry, mode)
  <2>1. SUFFICES ASSUME Routine(pc, reg[Master], mem, entry, mode) PROVE FALSE
    OBVIOUS
  <2>2. Instr[1] \notin {"wfi", "mret", "dret"}
    BY <2>1, RoutineOps DEF Instr
  <2> QED BY <1>1, <2>2 DEF Op
<1>3. pc[1] = "handler_safe_fsm" /\ pc[2] \in 1 .. 9 /\ Called("Safe_Activate", entry) /\ Wakes(pc[2], reg[Master], mem, entry)
  BY <1>2 DEF Working
<1>4. Wakes(9, reg[Master], mem, entry)
  <2>1. Instr[1] = "mret" => pc[2] = 9
    BY <1>3, FsmOps DEF Instr
  <2>2. pc[2] = 9
    BY <1>1, <2>1 DEF Op
  <2> QED BY <1>3, <2>2
<1>5. pc' = <<"Safe_Activate", 56>>
  <2>1. pc' = reg[Master]["mepc"]
    BY <1>0, <1>1, DrivenIs, Names
  <2> QED BY <1>4, <2>1 DEF Wakes
<1>6. Activates(56, reg[Master], mem, entry)
  <2>2. Keeps(reg[Master], mem, entry) /\ reg[Master]["sp"] = <<"stack", -6>>
    BY <1>4 DEF Wakes
  <2>3. 56 \in 5 .. 49 \cup 52 .. 55 => reg[Master]["t5"] = Base
    OBVIOUS
  <2>4. \A n \in 1 .. 5 : 56 = 4 + 2 * n => reg[Master]["t6"] = reg[Master][Order[n]]
    OBVIOUS
  <2>5. \A n \in 1 .. 5 : 56 \in 5 + 2 * n .. 55 => Cp(mem, n - 1) = reg[Master][Order[n]]
    OBVIOUS
  <2>6. \A n \in 6 .. 34 : 56 \in n + 10 .. 55 => Cp(mem, n - 1) = reg[Master][Order[n]]
    OBVIOUS
  <2>7. (56 \in 47 .. 55 => Cp(mem, 34) = Base) /\ (56 \in 54 .. 55 => reg[Master]["t6"] = <<"Safe_Activate", 0>>)
        /\ (56 = 55 => Cp(mem, 36) = <<"Safe_Activate", 0>>)
    OBVIOUS
  <2>8. reg[Master]["sp"] = <<"stack", IF 56 \in 2 .. 59 THEN -6 ELSE -2>>
    BY <2>2
  <2> QED BY <2>2, <2>3, <2>4, <2>5, <2>6, <2>7, <2>8 DEF Activates
<1>7. Routine(<<"Safe_Activate", 56>>, reg[Master], mem, entry, mode)
  BY <1>3, <1>6 DEF Routine
<1>8. Working'
  <2>1. active' = Group(mode)' /\ ~recovering' /\ healing' = {}
    BY <1>0, <1>1 DEF Group
  <2>2. \A h \in active' \ struck' : Alike(reg'[h], reg'[Master])
    BY <1>0, <1>1
  <2>3. Routine(pc', reg'[Master], mem', entry', mode')
    BY <1>1, <1>5, <1>7
  <2>4. mode' = "DCLS" => Backed'
    <3>1. ASSUME mode = "DCLS" PROVE snap = None /\ struck = {}
      BY <1>0, <1>3, <3>1 DEF Backed
    <3> QED BY <1>1, <1>5, <3>1 DEF Backed
  <2> QED BY <2>1, <2>2, <2>3, <2>4 DEF Working
<1>9. Shape'
  BY <1>1, <1>5 DEF Shape
<1> QED BY <1>8, <1>9 DEF Holds

LEMMA WorkingRecovers == ASSUME Shape, Working, Recover PROVE Holds'
<1>0. /\ Master \in active /\ active \subseteq Hart /\ active = Group(mode) /\ Master \in Hart
      /\ (\A h \in active \ struck : Alike(reg[h], reg[Master]))
      /\ (mode = "DCLS" => Backed) /\ healing = {}
  BY WorkingIs
<1>1. /\ mode = "DCLS" /\ Differ /\ recovering' = TRUE /\ pc' = <<"halt_boot", 1>>
      /\ UNCHANGED <<mode, active, reg, mem, struck, healing, repairs, entry, before, snap>>
  BY DEF Recover
<1>2. HasSaved
  <2>1. ~(\A h \in active : Alike(reg[h], reg[Master]))
    <3>1. PICK g, h \in active : Visible(reg[g]) # Visible(reg[h])
      BY <1>1 DEF Differ
    <3>2. Visible(reg[g]) = Visible(reg[Master]) /\ Visible(reg[h]) = Visible(reg[Master]) => FALSE
      BY <3>1
    <3> QED BY <3>2, VisibleIs
  <2>2. struck # {}
    BY <1>0, <2>1
  <2> QED BY <1>0, <1>1, <2>1, <2>2 DEF Backed
<1>3. Boots(1, reg[Master], mem) /\ Recovers(1, reg[Master], mem, snap) /\ Follows(1, reg[Victim], reg[Master])
  <2>1. Sound(reg[Master], mem)
    BY <1>0 DEF Shape, Sound
  <2> QED BY <2>1, LoadedOnce DEF Boots, BootWords, BootRest, Recovers, Follows
<1>4. Recovering'
  <2>1. HasSaved'
    BY <1>1, <1>2 DEF HasSaved
  <2>2. active' = Group(mode)' /\ recovering' /\ healing' = {} /\ mode' = "DCLS"
    BY <1>0, <1>1 DEF Group
  <2>3. /\ pc'[1] = "halt_boot" /\ pc'[2] \in 1 .. 62 /\ Boots(pc'[2], reg'[Master], mem')
        /\ Recovers(pc'[2], reg'[Master], mem', snap') /\ Follows(pc'[2], reg'[Victim], reg'[Master])
    BY <1>1, <1>3
  <2> QED BY <2>1, <2>2, <2>3 DEF Recovering
<1>5. Shape'
  BY <1>1 DEF Shape
<1> QED BY <1>4, <1>5 DEF Holds

\* A fault changes one hart, which the others do not follow.
LEMMA FaultIs ==
  ASSUME Shape, Fault
  PROVE  /\ Formed /\ struck = {} /\ healing = {} /\ ~recovering /\ pc[1] \in FaultyCode[mode]
         /\ (mode = "DCLS" => snap # None) /\ struck' = {Victim}
         /\ (\A h \in Hart : h # Victim => reg'[h] = reg[h]) /\ reg'[Master] = reg[Master]
         /\ UNCHANGED <<mode, active, pc, mem, recovering, healing, repairs, entry, before, snap>>
         /\ Shape'
<1>0. DOMAIN reg = Hart /\ (\A h \in Hart : DOMAIN reg[h] = Reg)
  BY DEF Shape
<1>1. PICK r \in Fragile : reg' = [reg EXCEPT ![Victim][r] = Offset(@, 50)]
  BY DEF Fault
<1>2. DOMAIN reg' = Hart /\ (\A h \in Hart : DOMAIN reg'[h] = Reg) /\ (\A h \in Hart : h # Victim => reg'[h] = reg[h])
  BY <1>0, <1>1
<1>3. Master \in Hart /\ Master # Victim
  BY DEF Master, Victim, Hart
<1>4. /\ Formed /\ struck = {} /\ healing = {} /\ ~recovering /\ pc[1] \in FaultyCode[mode]
      /\ (mode = "DCLS" => snap # None) /\ struck' = {Victim}
      /\ UNCHANGED <<mode, active, pc, mem, recovering, healing, repairs, entry, before, snap>>
  BY DEF Fault
<1>5. Shape'
  BY <1>2, <1>4 DEF Shape
<1> QED BY <1>2, <1>3, <1>4, <1>5

LEMMA WorkingFails ==
  ASSUME "Store_Checkpoint" \notin FaultyCode["DCLS"], Shape, Working, Fault
  PROVE  Holds'
<1>0. /\ active \subseteq Hart /\ active = Group(mode)
      /\ (\A h \in active \ struck : Alike(reg[h], reg[Master]))
      /\ (mode = "DCLS" => Backed) /\ healing = {} /\ ~recovering
  BY WorkingIs
<1>1. /\ struck = {} /\ healing = {} /\ pc[1] \in FaultyCode[mode] /\ (mode = "DCLS" => snap # None) /\ struck' = {Victim}
      /\ (\A h \in Hart : h # Victim => reg'[h] = reg[h]) /\ reg'[Master] = reg[Master]
      /\ UNCHANGED <<mode, active, pc, mem, recovering, healing, repairs, entry, before, snap>>
      /\ Shape'
  BY FaultIs
<1>2. active' = Group(mode)' /\ ~recovering' /\ healing' = {}
  BY <1>0, <1>1 DEF Group
<1>3. \A h \in active' \ struck' : Alike(reg'[h], reg'[Master])
  BY <1>0, <1>1
<1>4. \/ Routine(pc', reg'[Master], mem', entry', mode')
      \/ /\ pc'[1] = "handler_safe_fsm" /\ pc'[2] \in 1 .. 9
         /\ Called("Safe_Activate", entry') /\ Wakes(pc'[2], reg'[Master], mem', entry')
  BY <1>1 DEF Working
<1>5. mode' = "DCLS" => Backed'
  <2>1. ASSUME mode = "DCLS" PROVE pc[1] \in {"main", "Check_RF"} /\ HasSaved
    <3>1. pc[1] # "Store_Checkpoint" /\ snap # None
      BY <1>1, <2>1
    <3> QED BY <1>0, <2>1, <3>1 DEF Backed
  <2>2. ASSUME mode = "DCLS" PROVE HasSaved'
    BY <1>1, <2>1, <2>2 DEF HasSaved
  <2> QED BY <1>1, <2>1, <2>2 DEF Backed
<1>6. Working'
  BY <1>2, <1>3, <1>4, <1>5 DEF Working
<1> QED BY <1>1, <1>6 DEF Holds

(***************************************************************************)
(* A repair.                                                               *)
(***************************************************************************)
LEMMA WorkingRepairs == ASSUME Shape, Working, Repair PROVE Holds'
<1>0. /\ Master \in active /\ active \subseteq Hart /\ active = Group(mode) /\ Master \in Hart /\ Master \notin struck
      /\ (\A h \in active \ struck : Alike(reg[h], reg[Master])) /\ ~recovering
      /\ DOMAIN reg = Hart /\ (\A h \in Hart : DOMAIN reg[h] = Reg) /\ pc = <<pc[1], pc[2]>>
  BY WorkingIs
<1>1. /\ mode = "TCLS" /\ pc[1] \notin Handlers /\ pc' = <<"handler_tmr_recoverysync", 1>>
      /\ before' = State(reg'[Master], mem) /\ healing' = struck /\ struck' = {}
      /\ UNCHANGED <<mode, active, mem, recovering, entry, snap>>
      /\ reg' = [h \in Hart |-> IF h \in active THEN [reg[h] EXCEPT !["mepc"] = pc] ELSE reg[h]]
  BY DEF Repair, Set
<1>2. /\ DOMAIN reg' = Hart /\ (\A h \in Hart : DOMAIN reg'[h] = Reg)
      /\ (\A h \in active : Sets(reg'[h], reg[h], "mepc", pc))
  BY <1>0, <1>1, Names DEF Sets
<1>3. Routine(pc, reg[Master], mem, entry, "TCLS")
  BY <1>1 DEF Working, Handlers
<1>4. /\ reg[Master]["sp"] = <<"stack", reg[Master]["sp"][2]>> /\ reg[Master]["sp"][2] \in -9 .. 0
      /\ Sound(reg[Master], mem)
  BY <1>3, RoutineTop
<1>5. /\ reg'[Master]["mepc"] = pc /\ (\A r \in Vis : r = "mepc" \/ reg'[Master][r] = reg[Master][r])
      /\ reg'[Master]["sp"] = reg[Master]["sp"] /\ Sound(reg'[Master], mem)
  BY <1>0, <1>2, <1>4, Names DEF Sets, Sound
<1> DEFINE R == reg'[Master]
           b == before'
<1>6. /\ b.reg = [r \in Vis |-> R[r]] /\ b.stack = [a \in R["sp"][2] .. 0 |-> St(mem, a)]
      /\ Top(b) = R["sp"][2] /\ Record(b)
  <2>1. b = State(R, mem)
    BY <1>1
  <2> HIDE DEF R, b
  <2>2. /\ State(R, mem).reg = [r \in Vis |-> R[r]] /\ State(R, mem).stack = [a \in R["sp"][2] .. 0 |-> St(mem, a)]
        /\ Top(State(R, mem)) = R["sp"][2] /\ Record(State(R, mem))
    BY StateIs
  <2> QED BY <2>1, <2>2
<1>7. R["mepc"] = pc /\ (\A r \in Vis : r = "mepc" \/ R[r] = reg[Master][r]) /\ R["sp"] = reg[Master]["sp"] /\ Sound(R, mem)
  BY <1>5
<1> HIDE DEF R, b
<1>8. b.reg["mepc"] = pc /\ b.reg["sp"] = <<"stack", Top(b)>> /\ Top(b) \in -9 .. 0 /\ b.reg["sp"] = R["sp"]
  BY <1>4, <1>6, <1>7, Names
<1>9. \A r \in Vis : b.reg[r] = R[r]
  BY <1>6
<1>10. \A a \in Top(b) .. 0 : St(mem, a) = b.stack[a]
  BY <1>6
<1>11. Heals(1, R, mem, b)
  <2>1. HealRegs(1, R, b)
    BY <1>8, <1>9, Names DEF HealRegs
  <2>2. HealSlots(1, mem, b)
    BY DEF HealSlots
  <2> QED BY <1>7, <1>10, <2>1, <2>2 DEF Heals, HealStack
<1>12. Routine(pc, Whole(b), mem, entry, "TCLS")
  <2>1. DOMAIN Whole(b) = Reg /\ (\A r \in Vis : r = "mepc" \/ Whole(b)[r] = reg[Master][r])
    BY <1>7, <1>9, Names DEF Whole
  <2>2. /\ DOMAIN mem = Places /\ (\A a \in reg[Master]["sp"][2] .. 0 : St(mem, a) = St(mem, a))
        /\ SameCopy(mem, mem) /\ SameCheck(mem, mem)
    BY DEF Shape, SameCopy, SameCheck
  <2> QED BY <1>3, <2>1, <2>2, RoutineAs
<1>13. Repairing'
  <2>1. mode' = "TCLS" /\ active' = Hart /\ ~recovering'
    BY <1>0, <1>1 DEF Group
  <2>2. pc'[1] = "handler_tmr_recoverysync" /\ pc'[2] \in 1 .. 93 /\ pc'[2] = 1
    BY <1>1
  <2>3. \A h \in active' \ (struck' \cup healing') : Alike(reg'[h], reg'[Master])
    <3>1. ASSUME NEW h \in active \ struck PROVE Alike(reg'[h], reg'[Master])
      <4>1. Alike(reg[h], reg[Master]) /\ Sets(reg'[h], reg[h], "mepc", pc) /\ Sets(reg'[Master], reg[Master], "mepc", pc)
            /\ DOMAIN reg[h] = Reg /\ DOMAIN reg[Master] = Reg
        BY <1>0, <1>2
      <4> QED BY <4>1, Names DEF Alike, Sets
    <3> QED BY <1>1, <3>1
  <2>4. \A h \in healing' \ struck' : Mended(pc'[2], reg'[h], reg'[Master])
    BY <2>2 DEF Mended
  <2>5. Record(b) /\ b.reg["sp"] = <<"stack", Top(b)>> /\ Top(b) \in -9 .. 0 /\ b.reg["mepc"] = <<b.reg["mepc"][1], b.reg["mepc"][2]>>
    BY <1>0, <1>6, <1>8
  <2>6. Heals(pc'[2], R, mem', b) /\ Routine(b.reg["mepc"], Whole(b), mem', entry', mode')
    BY <1>1, <1>8, <1>11, <1>12, <2>2
  <2> QED BY <2>1, <2>2, <2>3, <2>4, <2>5, <2>6 DEF Repairing, R, b
<1>14. Shape'
  <2>1. struck \in {{}, {Victim}} /\ mode \in {"TCLS", "DCLS"} /\ recovering \in BOOLEAN /\ St(mem, 0) = <<"word", 0>>
        /\ DOMAIN mem = Places
    BY DEF Shape
  <2> QED BY <1>1, <1>2, <2>1 DEF Shape
<1> QED BY <1>13, <1>14 DEF Holds

LEMMA RepairingIs ==
  ASSUME Shape, Repairing
  PROVE  /\ Leads(Master) /\ Master \in active /\ active \subseteq Hart /\ active = Group(mode) /\ Formed
         /\ Master \in Hart /\ active # {Master}
         /\ DOMAIN reg = Hart /\ (\A h \in Hart : DOMAIN reg[h] = Reg)
         /\ mode = "TCLS" /\ ~recovering /\ pc[2] \in 1 .. 93 /\ pc = <<"handler_tmr_recoverysync", pc[2]>>
         /\ struck \subseteq {Victim} /\ healing \subseteq {Victim} /\ active = Hart
         /\ (\A h \in active \ (struck \cup healing) : Alike(reg[h], reg[Master]))
         /\ (\A h \in healing \ struck : Mended(pc[2], reg[h], reg[Master]))
         /\ Record(before) /\ before.reg["sp"] = <<"stack", Top(before)>> /\ Top(before) \in -9 .. 0
         /\ Heals(pc[2], reg[Master], mem, before)
         /\ before.reg["mepc"] = <<before.reg["mepc"][1], before.reg["mepc"][2]>>
         /\ Routine(before.reg["mepc"], Whole(before), mem, entry, "TCLS")
         /\ Formal(Instr) /\ Instr[1] \in Ordinary \cup {"mret"} /\ (Instr[1] = "mret" => pc[2] = 93)
<1>1. /\ mode = "TCLS" /\ ~recovering /\ pc[2] \in 1 .. 93 /\ pc[1] = "handler_tmr_recoverysync" /\ active = Hart
      /\ (\A h \in active \ (struck \cup healing) : Alike(reg[h], reg[Master]))
      /\ (\A h \in healing \ struck : Mended(pc[2], reg[h], reg[Master]))
      /\ Record(before) /\ before.reg["sp"] = <<"stack", Top(before)>> /\ Top(before) \in -9 .. 0
      /\ Heals(pc[2], reg[Master], mem, before)
      /\ before.reg["mepc"] = <<before.reg["mepc"][1], before.reg["mepc"][2]>>
      /\ Routine(before.reg["mepc"], Whole(before), mem, entry, mode)
  BY DEF Repairing
<1>2. pc = <<"handler_tmr_recoverysync", pc[2]>> /\ struck \subseteq {Victim} /\ healing \subseteq {Victim}
  BY <1>1 DEF Shape
<1>3. active = Group(mode)
  BY <1>1 DEF Group
<1>4. /\ Leads(Master) /\ Master \in active /\ active \subseteq Hart /\ Formed
      /\ Master \in Hart /\ active # {Master}
      /\ DOMAIN reg = Hart /\ (\A h \in Hart : DOMAIN reg[h] = Reg)
  BY <1>1, <1>3, TogetherLead
<1>5. Formal(Instr) /\ Instr[1] \in Ordinary \cup {"mret"} /\ (Instr[1] = "mret" => pc[2] = 93)
  <2>1. PICK i \in 1 .. 93 : i = pc[2]
    BY <1>1
  <2>2. Instr = Code["handler_tmr_recoverysync"][i]
    BY <1>1, <2>1 DEF Instr
  <2>3. RsHas(i, Instr)
    BY <2>1, <2>2, RsOps
  <2> QED BY <2>1, <2>3 DEF RsHas
<1>6. Routine(before.reg["mepc"], Whole(before), mem, entry, "TCLS")
  BY <1>1
<1> QED BY <1>1, <1>2, <1>3, <1>4, <1>5, <1>6

LEMMA RepairingMachine == ASSUME Shape, Repairing, Machine PROVE Holds'
<1>0. /\ Leads(Master) /\ Master \in active /\ active \subseteq Hart /\ Master \in Hart
      /\ DOMAIN reg = Hart /\ (\A h \in Hart : DOMAIN reg[h] = Reg)
      /\ mode = "TCLS" /\ ~recovering /\ pc[2] \in 1 .. 93 /\ pc = <<"handler_tmr_recoverysync", pc[2]>>
      /\ healing \subseteq {Victim} /\ active = Hart
      /\ (\A h \in active \ (struck \cup healing) : Alike(reg[h], reg[Master]))
      /\ (\A h \in healing \ struck : Mended(pc[2], reg[h], reg[Master]))
      /\ Record(before) /\ before.reg["sp"] = <<"stack", Top(before)>> /\ Top(before) \in -9 .. 0
      /\ Heals(pc[2], reg[Master], mem, before)
      /\ before.reg["mepc"] = <<before.reg["mepc"][1], before.reg["mepc"][2]>>
      /\ Routine(before.reg["mepc"], Whole(before), mem, entry, "TCLS")
      /\ Formal(Instr) /\ Instr[1] \in Ordinary \cup {"mret"}
  BY RepairingIs
<1>1. Executes(Master)
  BY <1>0, MachineDoes
<1>2. PICK i \in 1 .. 93 : i = pc[2] /\ pc = <<"handler_tmr_recoverysync", i>>
  BY <1>0
<1>3. Does(RsCode[i], reg[Master], mem, <<"handler_tmr_recoverysync", i>>, recovering, reg'[Master], mem', pc')
  <2>1. Does(Instr, reg[Master], mem, pc, recovering, reg'[Master], mem', pc')
    BY <1>0, <1>1, LeaderDoes
  <2>2. Instr = RsCode[i]
    BY <1>2 DEF Instr, RsCode
  <2> QED BY <1>2, <2>1, <2>2
<1>4. i \in 1 .. 92
  <2>1. RsCode[93][1] = "mret"
    BY RsText, Ops
  <2>2. ~(\E Q, Q2 : Regs(RsCode[93], reg[Master], mem, <<"handler_tmr_recoverysync", 93>>, Q, Q2))
    BY <2>1, NotOrdinary
  <2>3. i # 93
    BY <1>3, <2>2 DEF Does
  <2> QED BY <2>3
<1>5. Heals(i, reg[Master], mem, before)
  BY <1>0, <1>2
<1>6. /\ pc' = <<"handler_tmr_recoverysync", i + 1>> /\ Heals(i + 1, reg'[Master], mem', before)
      /\ SameCopy(mem', mem) /\ SameCheck(mem', mem)
  BY <1>0, <1>3, <1>4, <1>5, RsStep
<1>7. /\ mode' = mode /\ active' = active /\ recovering' = recovering /\ struck' = struck /\ healing' = healing
      /\ before' = before /\ entry' = entry
  BY <1>0, <1>1, NotSpecial DEF Executes, Quiet, Op
<1>8. Repairing'
  <2>1. mode' = "TCLS" /\ active' = Hart /\ ~recovering'
    BY <1>0, <1>7
  <2>2. pc'[1] = "handler_tmr_recoverysync" /\ pc'[2] \in 1 .. 93 /\ pc'[2] = i + 1
    BY <1>4, <1>6
  <2>3. \A h \in active' \ (struck' \cup healing') : Alike(reg'[h], reg'[Master])
    BY <1>0, <1>1, <1>7, TogetherStep
  <2>4. \A h \in healing' \ struck' : Mended(pc'[2], reg'[h], reg'[Master])
    <3>1. ASSUME NEW h \in healing \ struck PROVE Mended(i + 1, reg'[h], reg'[Master])
      <4>1. h \in active /\ Mended(i, reg[h], reg[Master]) /\ DOMAIN reg[h] = Reg /\ DOMAIN reg[Master] = Reg
        BY <1>0, <1>2 DEF Victim, Hart
      <4>2. Instr = RsCode[i]
        BY <1>2 DEF Instr, RsCode
      <4>3. Regs(RsCode[i], reg[Master], mem, pc, reg[h], reg'[h]) /\ Regs(RsCode[i], reg[Master], mem, pc, reg[Master], reg'[Master])
        BY <1>0, <1>1, <4>1, <4>2 DEF Executes
      <4> QED BY <1>4, <4>1, <4>3, RsMends
    <3> QED BY <1>7, <2>2, <3>1
  <2>5. Heals(pc'[2], reg'[Master], mem', before')
    BY <1>6, <1>7, <2>2
  <2>6. Routine(before.reg["mepc"], Whole(before), mem', entry, "TCLS")
    <3>1. HealStack(mem, before) /\ HealStack(mem', before) /\ DOMAIN mem' = Places
      BY <1>5, <1>6 DEF Heals, Sound
    <3>2. Whole(before)["sp"][2] = Top(before) /\ DOMAIN Whole(before) = Reg
      BY Names DEF Whole, Top
    <3>3. \A a \in Whole(before)["sp"][2] .. 0 : St(mem', a) = St(mem, a)
      BY <3>1, <3>2 DEF HealStack
    <3> QED BY <1>0, <1>6, <3>1, <3>2, <3>3, RoutineAs
  <2> QED BY <1>0, <1>7, <2>1, <2>2, <2>3, <2>4, <2>5, <2>6 DEF Repairing
<1>9. Shape'
  <2>1. Sound(reg'[Master], mem')
    BY <1>6 DEF Heals
  <2>2. pc' = <<pc'[1], pc'[2]>> /\ pc'[2] \in Nat
    BY <1>4, <1>6
  <2> QED BY <1>0, <1>1, <2>1, <2>2, ShapeSteps
<1> QED BY <1>8, <1>9 DEF Holds

LEMMA RepairingReturns == ASSUME Shape, Repairing, Return PROVE Holds'
<1>0. /\ Leads(Master) /\ Master \in active /\ active \subseteq Hart /\ Master \in Hart
      /\ mode = "TCLS" /\ ~recovering /\ active = Group(mode)
      /\ (\A h \in active \ (struck \cup healing) : Alike(reg[h], reg[Master]))
      /\ (\A h \in healing \ struck : Mended(pc[2], reg[h], reg[Master]))
      /\ before.reg["sp"] = <<"stack", Top(before)>> /\ Top(before) \in -9 .. 0
      /\ Heals(pc[2], reg[Master], mem, before) /\ Record(before)
      /\ before.reg["mepc"] = <<before.reg["mepc"][1], before.reg["mepc"][2]>>
      /\ Routine(before.reg["mepc"], Whole(before), mem, entry, "TCLS")
      /\ Instr[1] \in Ordinary \cup {"mret"} /\ (Instr[1] = "mret" => pc[2] = 93)
      /\ DOMAIN reg = Hart /\ (\A h \in Hart : DOMAIN reg[h] = Reg)
  BY RepairingIs
<1>1. /\ Op("mret") /\ pc' \in Wire([h \in active |-> reg[h]["mepc"]]) /\ healing' = {}
      /\ UNCHANGED <<mode, active, reg, mem, recovering, struck, repairs, entry, before, snap>>
  BY <1>0, NotSpecial DEF Return, Driven, Op
<1>2. pc[2] = 93
  BY <1>0, <1>1 DEF Op
<1>3. Heals(93, reg[Master], mem, before)
  BY <1>0, <1>2
<1>4. Alike(reg[Master], before.reg) /\ \A h \in healing \ struck : Alike(reg[h], reg[Master])
  <2>1. Mended(93, reg[Master], reg[Master])
    BY DEF Mended
  <2> QED BY <1>0, <1>2, <1>3, <2>1, Healed
<1>5. pc' = before.reg["mepc"]
  <2>1. Leads(Master) /\ "mepc" \in Vis
    BY <1>0, Names
  <2>2. pc' = reg[Master]["mepc"]
    BY <1>1, <2>1, DrivenIs
  <2> QED BY <1>4, <2>1, <2>2 DEF Alike
<1>6. Routine(pc', reg[Master], mem, entry, "TCLS")
  <2>1. DOMAIN reg[Master] = Reg /\ DOMAIN mem = Places /\ SameCopy(mem, mem) /\ SameCheck(mem, mem)
        /\ (\A a \in Whole(before)["sp"][2] .. 0 : St(mem, a) = St(mem, a))
    BY <1>0 DEF Shape, SameCopy, SameCheck
  <2>2. \A r \in Vis : r = "mepc" \/ reg[Master][r] = Whole(before)[r]
    BY <1>4, Names DEF Alike, Whole
  <2>3. Routine(before.reg["mepc"], reg[Master], mem, entry, "TCLS")
    BY <1>0, <2>1, <2>2, RoutineAs
  <2> QED BY <1>5, <2>3
<1>7. Working'
  <2>1. active' = Group(mode)' /\ ~recovering' /\ healing' = {}
    BY <1>0, <1>1 DEF Group
  <2>2. \A h \in active' \ struck' : Alike(reg'[h], reg'[Master])
    BY <1>0, <1>1, <1>4
  <2>3. Routine(pc', reg'[Master], mem', entry', mode')
    BY <1>0, <1>1, <1>6
  <2> QED BY <1>0, <1>1, <2>1, <2>2, <2>3 DEF Working
<1>8. Shape'
  <2>1. pc' = <<pc'[1], pc'[2]>> /\ pc'[2] \in Nat
    BY <1>0, <1>5, <1>6, RoutineTop
  <2> QED BY <1>1, <2>1 DEF Shape
<1> QED BY <1>7, <1>8 DEF Holds

LEMMA RepairingStep == ASSUME Shape, Repairing, Acts PROVE Holds'
<1>0. /\ active = Group(mode) /\ mode = "TCLS" /\ ~recovering /\ pc = <<"handler_tmr_recoverysync", pc[2]>>
      /\ (\A h \in active \ (struck \cup healing) : Alike(reg[h], reg[Master])) /\ active = Hart /\ pc[2] \in 1 .. 93
      /\ Record(before) /\ before.reg["sp"] = <<"stack", Top(before)>> /\ Top(before) \in -9 .. 0
      /\ Heals(pc[2], reg[Master], mem, before)
      /\ before.reg["mepc"] = <<before.reg["mepc"][1], before.reg["mepc"][2]>>
      /\ Routine(before.reg["mepc"], Whole(before), mem, entry, "TCLS")
      /\ Instr[1] \in Ordinary \cup {"mret"}
  BY RepairingIs
<1>1. CASE Machine
  BY <1>1, RepairingMachine
<1>2. CASE Return
  BY <1>2, RepairingReturns
<1>3. CASE Fault
  <2>1. /\ struck = {} /\ healing = {} /\ struck' = {Victim}
        /\ (\A h \in Hart : h # Victim => reg'[h] = reg[h]) /\ reg'[Master] = reg[Master]
        /\ UNCHANGED <<mode, active, pc, mem, recovering, healing, repairs, entry, before, snap>>
        /\ Shape'
    BY <1>3, FaultIs
  <2>2. \A h \in active' \ (struck' \cup healing') : Alike(reg'[h], reg'[Master])
    BY <1>0, <2>1
  <2>3. mode' = "TCLS" /\ active' = Hart /\ ~recovering' /\ pc'[1] = "handler_tmr_recoverysync" /\ pc'[2] \in 1 .. 93
    BY <1>0, <2>1
  <2>4. \A h \in healing' \ struck' : Mended(pc'[2], reg'[h], reg'[Master])
    BY <2>1
  <2>5. Heals(pc'[2], reg'[Master], mem', before') /\ Routine(before'.reg["mepc"], Whole(before'), mem', entry', mode')
    BY <1>0, <2>1
  <2>6. /\ Record(before') /\ before'.reg["sp"] = <<"stack", Top(before')>> /\ Top(before') \in -9 .. 0
        /\ before'.reg["mepc"] = <<before'.reg["mepc"][1], before'.reg["mepc"][2]>>
    BY <1>0, <2>1
  <2>7. Repairing'
    BY <2>2, <2>3, <2>4, <2>5, <2>6 DEF Repairing
  <2> QED BY <2>1, <2>7 DEF Holds
<1>4. CASE Checkpointed \/ Wfi \/ Repair \/ Recover
  <2>1. pc[1] \in Handlers /\ Instr[1] # "wfi" /\ pc # Place(<<"Store_Checkpoint", 0>>)
    BY <1>0, PlaceIs, NotSpecial DEF Handlers
  <2> QED BY <1>0, <1>4, <2>1 DEF Checkpointed, Wfi, Repair, Recover, Op
<1> QED BY <1>1, <1>2, <1>3, <1>4 DEF Acts

(***************************************************************************)
(* A recovery.                                                             *)
(***************************************************************************)
LEMMA RecoveringIs ==
  ASSUME Shape, Recovering
  PROVE  /\ Leads(Master) /\ Master \in active /\ active = {Master, Victim} /\ active \subseteq Hart /\ active = Group(mode)
         /\ Master \in Hart /\ Victim \in Hart /\ active # {Master}
         /\ DOMAIN reg = Hart /\ (\A h \in Hart : DOMAIN reg[h] = Reg)
         /\ mode = "DCLS" /\ recovering = TRUE /\ healing = {} /\ HasSaved
         /\ Called("Store_Checkpoint", snap) /\ Saved(mem, snap) /\ Top(snap) \in {-2, 0}
         /\ snap.reg["sp"] = <<"stack", Top(snap)>>
<1>1. mode = "DCLS" /\ active = Group(mode) /\ recovering /\ healing = {} /\ HasSaved /\ recovering \in BOOLEAN
      /\ DOMAIN reg = Hart /\ (\A h \in Hart : DOMAIN reg[h] = Reg)
  BY DEF Recovering, Shape
<1>2. active = {0, 1} /\ Master = 0 /\ Victim = 1 /\ Hart = {0, 1, 2}
  BY <1>1, GroupIs DEF Group
<1>3. Leads(Master)
  BY <1>1, <1>2 DEF Leads, Groups
<1>4. Called("Store_Checkpoint", snap) /\ Saved(mem, snap)
  BY <1>1 DEF HasSaved
<1>5. Top(snap) \in {-2, 0} /\ snap.reg["sp"] = <<"stack", Top(snap)>>
  BY <1>4, CalledTop
<1>6. recovering = TRUE
  BY <1>1
<1> QED BY <1>1, <1>2, <1>3, <1>4, <1>5, <1>6

LEMMA RecoveringMachine ==
  ASSUME Shape, Recovering, pc[1] = "halt_boot", pc[2] \in 1 .. 62, Boots(pc[2], reg[Master], mem),
         Recovers(pc[2], reg[Master], mem, snap), Follows(pc[2], reg[Victim], reg[Master]), Machine
  PROVE  Holds'
<1>0. /\ Leads(Master) /\ Master \in active /\ Victim \in active /\ active \subseteq Hart /\ active = Group(mode)
      /\ Master \in Hart /\ Victim \in Hart
      /\ DOMAIN reg = Hart /\ (\A h \in Hart : DOMAIN reg[h] = Reg)
      /\ mode = "DCLS" /\ recovering = TRUE /\ healing = {} /\ HasSaved
      /\ Called("Store_Checkpoint", snap) /\ Saved(mem, snap)
  BY RecoveringIs
<1>1. PICK i \in 1 .. 62 : i = pc[2] /\ pc = <<"halt_boot", i>>
  BY DEF Shape
<1>2. Instr = HbCode[i] /\ Instr = Code["halt_boot"][i]
  BY <1>1 DEF Instr, HbCode
<1>3. Formal(Instr) /\ Instr[1] \in Ordinary \cup {"label", "dret"}
  BY <1>2, HbOps
<1>4. Executes(Master)
  BY <1>0, <1>3, MachineDoes
<1>5. Does(HbCode[i], reg[Master], mem, <<"halt_boot", i>>, TRUE, reg'[Master], mem', pc')
  <2>1. Does(Instr, reg[Master], mem, pc, recovering, reg'[Master], mem', pc')
    BY <1>0, <1>4, LeaderDoes
  <2>2. Does(HbCode[i], reg[Master], mem, <<"halt_boot", i>>, recovering, reg'[Master], mem', pc')
    BY <1>1, <1>2, <2>1
  <2>3. recovering = TRUE
    BY <1>0
  <2> QED BY <2>2, <2>3
<1>6. i # 48
  <2>1. HbCode[48][1] = "dret"
    BY HbText, Ops
  <2>2. ~(\E Q, Q2 : Regs(HbCode[48], reg[Master], mem, <<"halt_boot", 48>>, Q, Q2))
    BY <2>1, NotOrdinary
  <2> QED BY <1>5, <2>2 DEF Does
<1>7. Continues(i, mem, TRUE, snap, pc', reg'[Master], mem')
  <2>1. Boots(i, reg[Master], mem) /\ Recovers(i, reg[Master], mem, snap) /\ TRUE \in BOOLEAN /\ (TRUE \/ i < 48)
    BY <1>1
  <2>2. TRUE => Called("Store_Checkpoint", snap) /\ Saved(mem, snap) /\ Recovers(i, reg[Master], mem, snap)
    BY <1>0, <2>1
  <2> QED BY <1>5, <1>6, <2>1, <2>2, HbStep
<1>8. PICK k \in 1 .. 62 :
        /\ pc' = <<"halt_boot", k>> /\ Boots(k, reg'[Master], mem') /\ SameCopy(mem', mem)
        /\ k = i + 1 \/ (i >= 17 /\ k \in {18, 49, 53, 60})
        /\ Recovers(k, reg'[Master], mem', snap)
  BY <1>7 DEF Continues
<1>9. Follows(k, reg'[Victim], reg'[Master])
  <2>1. Regs(HbCode[i], reg[Master], mem, pc, reg[Victim], reg'[Victim]) /\ Regs(HbCode[i], reg[Master], mem, pc, reg[Master], reg'[Master])
    BY <1>0, <1>2, <1>4 DEF Executes
  <2>2. Follows(i, reg[Victim], reg[Master]) /\ DOMAIN reg[Victim] = Reg /\ DOMAIN reg[Master] = Reg
    BY <1>0, <1>1
  <2>3. (k = i + 1 \/ (i >= 17 /\ k \in {18, 49, 53, 60})) /\ i \in Nat
    BY <1>8
  <2> QED BY <1>6, <2>1, <2>2, <2>3, HbFollows, ZenonT(60)
<1>10. mode' = mode /\ active' = active /\ recovering' = recovering /\ healing' = healing /\ snap' = snap
  BY <1>4 DEF Executes, Quiet
<1>11. Recovering'
  <2>1. HasSaved'
    BY <1>0, <1>8, <1>10, HasSavedStays
  <2>2. active' = Group(mode)' /\ recovering' /\ healing' = {} /\ mode' = "DCLS"
    BY <1>0, <1>10 DEF Group
  <2>3. /\ pc'[1] = "halt_boot" /\ pc'[2] \in 1 .. 62 /\ Boots(pc'[2], reg'[Master], mem')
        /\ Recovers(pc'[2], reg'[Master], mem', snap') /\ Follows(pc'[2], reg'[Victim], reg'[Master])
    BY <1>8, <1>9, <1>10
  <2> QED BY <2>1, <2>2, <2>3 DEF Recovering
<1>12. Shape'
  <2>1. Sound(reg'[Master], mem') /\ pc' = <<pc'[1], pc'[2]>> /\ pc'[2] \in Nat
    BY <1>8 DEF Boots
  <2> QED BY <1>0, <1>4, <2>1, ShapeSteps
<1> QED BY <1>11, <1>12 DEF Holds

LEMMA RecoveringReturns ==
  ASSUME Shape, Recovering, pc[1] = "halt_boot", pc[2] \in 1 .. 62, Boots(pc[2], reg[Master], mem),
         Recovers(pc[2], reg[Master], mem, snap), Follows(pc[2], reg[Victim], reg[Master]), Return
  PROVE  Holds'
<1>0. /\ Leads(Master) /\ Master \in active /\ active = {Master, Victim} /\ active = Group(mode) /\ active \in Groups
      /\ mode = "DCLS" /\ recovering = TRUE /\ healing = {} /\ HasSaved /\ Saved(mem, snap)
      /\ active # Hart
  <2>1. /\ Leads(Master) /\ Master \in active /\ active = {Master, Victim} /\ active = Group(mode)
        /\ mode = "DCLS" /\ recovering = TRUE /\ healing = {} /\ HasSaved /\ Saved(mem, snap)
    BY RecoveringIs
  <2> QED BY <2>1 DEF Leads, Master, Victim, Hart
<1>1. PICK i \in 1 .. 62 : i = pc[2] /\ pc = <<"halt_boot", i>>
  BY DEF Shape
<1>2. Instr[1] \in Ordinary \cup {"label", "dret"} /\ (Instr[1] = "dret" => i = 48)
  <2>1. Instr = Code["halt_boot"][i]
    BY <1>1 DEF Instr
  <2> QED BY <2>1, HbOps
<1>3. /\ i = 48 /\ pc' \in Wire([h \in active |-> Place(reg[h]["dpc"])])
      /\ UNCHANGED <<mode, active, reg, mem, recovering, struck, healing, repairs, entry, before, snap>>
  BY <1>2, NotSpecial DEF Return, Op, Driven
<1>4. /\ \A n \in 1 .. 36 : reg[Master][Order[n]] = Cp(mem, n - 1)
      /\ reg[Master]["dpc"] = Cp(mem, 36) /\ Alike(reg[Victim], reg[Master])
  <2>1. Boots(48, reg[Master], mem) /\ Follows(48, reg[Victim], reg[Master])
    BY <1>1, <1>3
  <2> QED BY <2>1, Booted
<1>5. pc' = <<"Store_Checkpoint", 76>>
  <2> DEFINE f == [h \in active |-> Place(reg[h]["dpc"])]
  <2>1. f = [h \in active |-> f[h]] /\ f[Master] = Place(reg[Master]["dpc"])
    BY <1>0
  <2>2. pc' \in Wire(f)
    BY <1>3
  <2> HIDE DEF f
  <2>3. pc' = f[Master]
    BY <1>0, <2>1, <2>2, WireIs
  <2> QED BY <1>0, <1>4, <2>1, <2>3, PlaceIs DEF Saved
<1>6. Recovering'
  <2>1. \A h \in active' : Alike(reg'[h], reg'[Master])
    BY <1>0, <1>3, <1>4 DEF Alike
  <2>2. \A r \in Vis : reg'[Master][r] = snap'.reg[r]
    <3>1. \A n \in 1 .. 36 : reg[Master][Order[n]] = snap.reg[Order[n]]
      BY <1>0, <1>4 DEF Saved
    <3> QED BY <1>3, <3>1, VisIs
  <2>3. \A a \in Top(snap') .. 0 : St(mem', a) = snap'.stack[a]
    <3>1. Recovers(48, reg[Master], mem, snap)
      BY <1>1, <1>3
    <3>2. \A a \in Top(snap) .. 0 : St(mem, a) = snap.stack[a]
      BY <3>1 DEF Recovers
    <3> QED BY <1>3, <3>2
  <2>4. mode' = "DCLS" /\ active' = Group(mode)' /\ recovering' /\ healing' = {} /\ HasSaved'
    BY <1>0, <1>3 DEF Group, HasSaved
  <2> QED BY <1>5, <2>1, <2>2, <2>3, <2>4 DEF Recovering
<1>7. Shape'
  BY <1>3, <1>5 DEF Shape
<1> QED BY <1>6, <1>7 DEF Holds

LEMMA RecoveringStores ==
  ASSUME Shape, Recovering, Checkpointed
  PROVE  Holds'
<1>0. /\ Leads(Master) /\ Master \in active /\ active = Group(mode) /\ active \subseteq Hart /\ Master \in Hart
      /\ mode = "DCLS" /\ recovering = TRUE /\ healing = {} /\ HasSaved
      /\ Called("Store_Checkpoint", snap) /\ Saved(mem, snap) /\ Top(snap) \in {-2, 0}
      /\ snap.reg["sp"] = <<"stack", Top(snap)>> /\ (\A h \in Hart : DOMAIN reg[h] = Reg)
  BY RecoveringIs
<1>1. pc = <<"Store_Checkpoint", 76>> /\ pc' = <<"Store_Checkpoint", 77>>
  BY PlaceIs DEF Checkpointed, After
<1>2. /\ snap' = snap /\ recovering' = FALSE /\ struck' = {} /\ entry' = snap
      /\ UNCHANGED <<mode, active, reg, mem, healing, repairs, before>>
  BY <1>0 DEF Checkpointed
<1>3. /\ (\A h \in active : Alike(reg[h], reg[Master])) /\ (\A r \in Vis : reg[Master][r] = snap.reg[r])
      /\ \A a \in Top(snap) .. 0 : St(mem, a) = snap.stack[a]
  BY <1>1 DEF Recovering
<1>4. Checkpoints(77, reg[Master], mem, snap, mode)
  <2>1. Keeps(reg[Master], mem, snap)
    BY <1>0, <1>3, KeptNames DEF Keeps, Sound, Shape
  <2>2. Frame(77, reg[Master], snap)
    BY <1>0, <1>3, Names DEF Frame
  <2>3. CopyRegs(77, reg[Master], snap)
    <3>1. \A n \in 1 .. 5 : 77 # 20 + 2 * n
      OBVIOUS
    <3> QED BY <1>3, <3>1, Names DEF CopyRegs
  <2>4. CopySlots(77, mem, snap)
    BY DEF CopySlots
  <2>5. CopyStack(77, reg[Master], mem, snap) /\ CopyWords(77, mem, snap)
    BY <1>0 DEF CopyStack, CopyWords, Saved
  <2> QED BY <2>1, <2>2, <2>3, <2>4, <2>5 DEF Checkpoints, Copies
<1>5. Working'
  <2>1. active' = Group(mode)' /\ ~recovering' /\ healing' = {}
    BY <1>0, <1>2 DEF Group
  <2>2. \A h \in active' \ struck' : Alike(reg'[h], reg'[Master])
    BY <1>2, <1>3
  <2>3. Routine(pc', reg'[Master], mem', entry', mode')
    BY <1>0, <1>1, <1>2, <1>4 DEF Routine
  <2>4. Backed'
    <3>1. HasSaved'
      BY <1>0, <1>2 DEF HasSaved
    <3>2. \A h \in active' : Alike(reg'[h], reg'[Master])
      BY <1>2, <1>3
    <3> QED BY <1>1, <3>1, <3>2 DEF Backed
  <2> QED BY <2>1, <2>2, <2>3, <2>4 DEF Working
<1>6. Shape'
  BY <1>1, <1>2 DEF Shape
<1> QED BY <1>5, <1>6 DEF Holds

LEMMA RecoveringStep == ASSUME Shape, Recovering, Acts PROVE Holds'
<1>0. mode = "DCLS" /\ recovering = TRUE /\ pc = <<pc[1], pc[2]>> /\ Leads(Master)
  BY RecoveringIs DEF Shape
<1>1. CASE Repair \/ Recover \/ Fault
  BY <1>0, <1>1 DEF Repair, Recover, Fault
<1>2. CASE Checkpointed
  BY <1>2, RecoveringStores
<1>3. CASE /\ pc[1] = "halt_boot" /\ pc[2] \in 1 .. 62
           /\ Boots(pc[2], reg[Master], mem) /\ Recovers(pc[2], reg[Master], mem, snap)
           /\ Follows(pc[2], reg[Victim], reg[Master])
  <2>1. CASE Machine
    BY <1>3, <2>1, RecoveringMachine
  <2>2. CASE Return
    BY <1>3, <2>2, RecoveringReturns
  <2>3. ~Wfi
    <3>1. PICK i \in 1 .. 62 : i = pc[2]
      BY <1>3
    <3>2. Instr = Code["halt_boot"][i]
      BY <1>3, <3>1 DEF Instr
    <3>3. Instr[1] \in Ordinary \cup {"label", "dret"}
      BY <3>1, <3>2, HbOps
    <3> QED BY <3>3, NotSpecial DEF Wfi, Op
  <2> QED BY <1>1, <1>2, <2>1, <2>2, <2>3 DEF Acts
<1>4. CASE pc = <<"Store_Checkpoint", 76>>
  <2>1. Instr[1] = "label" /\ Formal(Instr)
    BY <1>4, ScText, Ops, Forms DEF Instr, ScCode
  <2>2. ~Wfi /\ ~Return
    BY <2>1 DEF Wfi, Return, Op
  <2>3. ~Machine
    <3>1. SUFFICES ASSUME Machine PROVE FALSE
      OBVIOUS
    <3>2. Executes(Master)
      BY <1>0, <2>1, <3>1, MachineDoes
    <3> QED BY <1>4, <2>1, <3>2, PlaceIs DEF Executes, Quiet, Op
  <2> QED BY <1>1, <1>2, <2>2, <2>3 DEF Acts
<1> QED BY <1>3, <1>4 DEF Recovering

(***************************************************************************)
(* The invariant, and what follows from it.  What the saved state is worth *)
(* rests on the routine that writes it: the harts of a dual group are      *)
(* compared in what they store, and a fault that hits one of them while it *)
(* stores is caught when part of the words are new.                        *)
(***************************************************************************)
LEMMA HoldsStep ==
  ASSUME "Store_Checkpoint" \notin FaultyCode["DCLS"], Holds, [Next]_vars
  PROVE  Holds'
<1>1. CASE UNCHANGED vars
  <2>1. Shape'
    BY <1>1 DEF vars, Holds, Shape
  <2>2. Alone => Alone'
    BY <1>1 DEF vars, Alone, Early
  <2>3. Left => Left'
    BY <1>1 DEF vars, Left
  <2>4. Booting => Booting'
    BY <1>1, <2>3 DEF vars, Booting, Early, Group
  <2>5. Joining => Joining'
    BY <1>1, <2>3 DEF vars, Joining, Early, Group
  <2>6. HasSaved => HasSaved'
    BY <1>1 DEF vars, HasSaved
  <2>7. Backed => Backed'
    BY <1>1, <2>6 DEF vars, Backed
  <2>8. Working => Working'
    BY <1>1, <2>7 DEF vars, Working, Group
  <2>9. Repairing => Repairing'
    BY <1>1 DEF vars, Repairing
  <2>10. Recovering => Recovering'
    BY <1>1, <2>6 DEF vars, Recovering, Group
  <2> QED BY <2>1, <2>2, <2>4, <2>5, <2>8, <2>9, <2>10 DEF Holds
<1>2. CASE Next
  <2>1. CASE Ended
    BY <1>1, <2>1 DEF Ended
  <2>2. CASE Acts
    <3>1. CASE Working
      <4>1. Shape /\ ~Wfi
        BY <3>1, WorkingIs DEF Holds, Wfi
      <4> QED BY <2>2, <3>1, <4>1, WorkingMachine, WorkingStores, WorkingReturns, WorkingRepairs,
                 WorkingRecovers,
                 WorkingFails DEF Acts
    <3> QED BY <2>2, <3>1, AloneStep, BootingStep, JoiningStep, RepairingStep, RecoveringStep DEF Holds
  <2> QED BY <1>2, <2>1, <2>2, ActsAre
<1> QED BY <1>1, <1>2

\* In every state each of the harts that execute is where the routine that it is
\* in allows it to be: with the registers and the words of the stack and of the
\* saved state that belong to that place of the code.
THEOREM RoutinesHold ==
  ASSUME "Store_Checkpoint" \notin FaultyCode["DCLS"]
  PROVE  Spec => []Holds
<1>1. Init => Holds
  BY Starts
<1>2. Holds /\ [Next]_vars => Holds'
  BY HoldsStep
<1> QED BY <1>1, <1>2, PTL DEF Spec

\* The members of a group are alike in every register, from the instruction on
\* at which they join, and again when a repair or a recovery is complete.
THEOREM GroupsAgree ==
  ASSUME "Store_Checkpoint" \notin FaultyCode["DCLS"]
  PROVE  Spec => []MembersAgree
<1>1. Holds => MembersAgree
  <2> SUFFICES ASSUME Holds, pc[1] # "halt_boot" PROVE \A g, h \in active \ (struck \cup healing) : Visible(reg[g]) = Visible(reg[h])
    BY DEF MembersAgree
  <2>1. ASSUME NEW l, \A h \in active \ (struck \cup healing) : Alike(reg[h], reg[l])
        PROVE  \A g, h \in active \ (struck \cup healing) : Visible(reg[g]) = Visible(reg[h])
    <3>1. ASSUME NEW g \in active \ (struck \cup healing), NEW h \in active \ (struck \cup healing)
          PROVE  Visible(reg[g]) = Visible(reg[h])
      <4>1. Visible(reg[g]) = Visible(reg[l]) /\ Visible(reg[h]) = Visible(reg[l])
        BY <2>1, VisibleIs
      <4> QED BY <4>1
    <3> QED BY <3>1
  <2>2. \E l : \A h \in active \ (struck \cup healing) : Alike(reg[h], reg[l])
    <3>1. CASE Alone
      <4>1. \A h \in active \ (struck \cup healing) : Alike(reg[h], reg[Master])
        BY <3>1 DEF Alone, Alike
      <4> QED BY <4>1
    <3>2. CASE Joining
      <4>1. \A h \in active \ (struck \cup healing) : Alike(reg[h], reg[Victim])
        BY <3>2 DEF Joining
      <4> QED BY <4>1
    <3>3. CASE Working
      <4>1. \A h \in active \ (struck \cup healing) : Alike(reg[h], reg[Master])
        BY <3>3 DEF Working
      <4> QED BY <4>1
    <3>4. CASE Repairing
      <4>1. \A h \in active \ (struck \cup healing) : Alike(reg[h], reg[Master])
        BY <3>4 DEF Repairing
      <4> QED BY <4>1
    <3>5. CASE Recovering
      <4>1. \A h \in active \ (struck \cup healing) : Alike(reg[h], reg[Master])
        BY <3>5 DEF Recovering
      <4> QED BY <4>1
    <3> QED BY <3>1, <3>2, <3>3, <3>4, <3>5 DEF Holds, Booting
  <2> QED BY <2>1, <2>2
<1> QED BY <1>1, RoutinesHold, PTL

\* Registers and stack are those that were recorded.
LEMMA StateEquals ==
  ASSUME NEW R, NEW M, NEW s, Record(s), \A r \in Vis : R[r] = s.reg[r],
         \A a \in Top(s) .. 0 : St(M, a) = s.stack[a]
  PROVE  State(R, M) = s
<1>1. R["sp"][2] = Top(s)
  BY Names DEF Top
<1>2. Visible(R) = [r \in Vis |-> s.reg[r]]
  BY DEF Visible, Vis
<1>3. Live(R, M) = [a \in Top(s) .. 0 |-> s.stack[a]]
  BY <1>1 DEF Live, St
<1> QED BY <1>2, <1>3 DEF State, Record

\* A repair leaves every hart with the registers, and the stack with the words,
\* that the harts without a fault had when it began, whichever register the
\* fault has hit and wherever a second one hits.
THEOREM RepairsHeal ==
  ASSUME "Store_Checkpoint" \notin FaultyCode["DCLS"]
  PROVE  Spec => []RepairHeals
<1>1. Holds => RepairHeals
  <2> SUFFICES ASSUME Holds, Op("mret"), pc[1] = "handler_tmr_recoverysync", NEW h \in active \ struck
               PROVE  State(reg[h], mem) = before
    BY DEF RepairHeals
  <2>1. Shape /\ Repairing
    BY DEF Holds, Alone, Booting, Joining, Working, Routine, Recovering
  <2>2. /\ before.reg["sp"] = <<"stack", Top(before)>> /\ Record(before)
        /\ Heals(pc[2], reg[Master], mem, before)
        /\ (\A g \in active \ (struck \cup healing) : Alike(reg[g], reg[Master]))
        /\ (\A g \in healing \ struck : Mended(pc[2], reg[g], reg[Master]))
        /\ (Instr[1] = "mret" => pc[2] = 93)
    BY <2>1, RepairingIs
  <2>3. pc[2] = 93
    BY <2>2 DEF Op
  <2>4. Heals(93, reg[Master], mem, before) /\ (h \in healing => Mended(93, reg[h], reg[Master]))
    BY <2>2, <2>3
  <2>5. Alike(reg[Master], before.reg) /\ Alike(reg[h], reg[Master])
    <3>1. Mended(93, reg[Master], reg[Master])
      BY DEF Mended
    <3> QED BY <2>2, <2>4, <3>1, Healed
  <2>6. \A r \in Vis : reg[h][r] = before.reg[r]
    BY <2>5 DEF Alike
  <2>7. \A a \in Top(before) .. 0 : St(mem, a) = before.stack[a]
    BY <2>4 DEF Heals, HealStack
  <2> QED BY <2>2, <2>6, <2>7, StateEquals
<1> QED BY <1>1, RoutinesHold, PTL

\* What the harts recover is what they had when the last checkpoint was
\* complete: every register, and every word of the stack in use.
THEOREM RecoveriesRestore ==
  ASSUME "Store_Checkpoint" \notin FaultyCode["DCLS"]
  PROVE  Spec => []RecoveryRestores
<1>1. Holds => RecoveryRestores
  <2> SUFFICES ASSUME Holds, recovering, pc = Place(<<"Store_Checkpoint", 0>>), NEW h \in active
               PROVE  State(reg[h], mem) = snap
    BY DEF RecoveryRestores
  <2>1. Recovering /\ pc = <<"Store_Checkpoint", 76>>
    BY PlaceIs DEF Holds, Alone, Booting, Joining, Working, Repairing, Early
  <2>2. /\ HasSaved /\ Alike(reg[h], reg[Master]) /\ (\A r \in Vis : reg[Master][r] = snap.reg[r])
        /\ \A a \in Top(snap) .. 0 : St(mem, a) = snap.stack[a]
    BY <2>1 DEF Recovering
  <2>3. Record(snap) /\ \A r \in Vis : reg[h][r] = snap.reg[r]
    BY <2>2 DEF HasSaved, Alike
  <2> QED BY <2>2, <2>3, StateEquals
<1> QED BY <1>1, RoutinesHold, PTL

\* A return is from a routine that a whole group executes.
LEMMA ReturnIs ==
  ASSUME Holds, Op("ret")
  PROVE  /\ Shape /\ Working
         /\ \/ pc[1] = "Safe_Activate" /\ Called(pc[1], entry) /\ Activates(60, reg[Master], mem, entry)
            \/ pc[1] = "Store_Checkpoint" /\ Called(pc[1], entry) /\ Checkpoints(77, reg[Master], mem, entry, mode)
            \/ pc[1] = "Check_RF" /\ Called(pc[1], entry) /\ Records(45, reg[Master], mem, entry)
<1>1. ASSUME NEW i \in 1 .. 60, pc[1] = "Safe_Activate", pc[2] = i, i <= 55 PROVE FALSE
  <2>1. Instr = Code["Safe_Activate"][i]
    BY <1>1 DEF Instr
  <2>2. SaHas(i, Instr)
    BY <2>1, SaOps
  <2> QED BY <1>1, <2>2 DEF Op, SaHas
<1>2. ASSUME NEW i \in 1 .. 25, pc[1] = "main", pc[2] = i PROVE FALSE
  <2>1. Instr = Code["main"][i]
    BY <1>2 DEF Instr
  <2>2. Instr[1] \in Ordinary \cup {"label", "call"}
    BY <2>1, MainOps
  <2> QED BY <2>2, NotSpecial DEF Op
<1>3. ASSUME NEW i \in 1 .. 62, pc[1] = "halt_boot", pc[2] = i PROVE FALSE
  <2>1. Instr = Code["halt_boot"][i]
    BY <1>3 DEF Instr
  <2>2. Instr[1] \in Ordinary \cup {"label", "dret"}
    BY <2>1, HbOps
  <2> QED BY <2>2, NotSpecial DEF Op
<1>4. ~Alone /\ ~Booting /\ ~Joining
  <2>1. ~Alone
    <3>1. pc[1] = "main" /\ pc[2] \in 1 .. 5 => pc[2] \in 1 .. 25
      OBVIOUS
    <3>2. pc[1] = "Safe_Activate" /\ pc[2] \in 1 .. 55 => pc[2] \in 1 .. 60 /\ pc[2] <= 55
      OBVIOUS
    <3> QED BY <1>1, <1>2, <3>1, <3>2 DEF Alone
  <2>2. ~Booting
    <3>1. pc[2] \in 1 .. 48 => pc[2] \in 1 .. 62
      OBVIOUS
    <3> QED BY <1>3, <3>1 DEF Booting
  <2>3. ~Joining
    <3>1. pc[2] \in 52 .. 55 => pc[2] \in 1 .. 60 /\ pc[2] <= 55
      OBVIOUS
    <3> QED BY <1>1, <3>1 DEF Joining
  <2> QED BY <2>1, <2>2, <2>3
<1>5. ~Repairing
  <2>1. Shape
    BY DEF Holds
  <2>2. Repairing => Instr[1] \in Ordinary \cup {"mret"}
    BY <2>1, RepairingIs
  <2> QED BY <2>2, NotSpecial DEF Op
<1>6. ~Recovering
  <2>1. pc = <<"Store_Checkpoint", 76>> => Instr[1] = "label"
    BY ScText, Ops DEF Instr, ScCode
  <2> QED BY <1>3, <2>1 DEF Recovering, Op
<1>7. Shape /\ Working
  BY <1>4, <1>5, <1>6 DEF Holds
<1>8. Routine(pc, reg[Master], mem, entry, mode)
  <2>1. ASSUME pc[1] = "handler_safe_fsm", pc[2] \in 1 .. 9 PROVE FALSE
    <3>1. Instr[1] \in Ordinary \cup {"mret"}
      BY <2>1, FsmOps DEF Instr
    <3> QED BY <3>1, NotSpecial DEF Op
  <2> QED BY <1>7, <2>1 DEF Working
<1>9. /\ pc[1] = "Safe_Activate" => pc[2] = 60
      /\ pc[1] = "Store_Checkpoint" => pc[2] = 77
      /\ pc[1] = "Check_RF" => pc[2] = 45
      /\ pc[1] # "main"
  BY <1>8, RoutineOps DEF Instr, Op
<1> QED BY <1>7, <1>8, <1>9 DEF Routine

\* The registers that a call keeps are these.
LEMMA KeptAre ==
  \A r \in {"ra", "sp", "gp", "tp"} \cup Elements(SubSeq(File, 8, 9)) \cup Elements(SubSeq(File, 18, 27)) :
    r \in Kept \/ r = "sp"
<1>1. Long(File, 31)
  BY FileText
<1>2. \A k \in 1 .. 31 : File[k] = Order[k + 5]
  <2>1. \A i \in 6 .. 36 : Order[i] = File[i - 5]
    BY OrderText
  <2> QED BY <2>1
<1>3. \A r \in Elements(SubSeq(File, 8, 9)) : \E n \in 13 .. 14 : r = Order[n]
  <2>1. SubSeq(File, 8, 9) = [i \in 1 .. 2 |-> File[8 + i - 1]]
    BY <1>1 DEF Long
  <2> QED BY <1>2, <2>1 DEF Elements
<1>4. \A r \in Elements(SubSeq(File, 18, 27)) : \E n \in 23 .. 32 : r = Order[n]
  <2>1. SubSeq(File, 18, 27) = [i \in 1 .. 10 |-> File[18 + i - 1]]
    BY <1>1 DEF Long
  <2> QED BY <1>2, <2>1 DEF Elements
<1>5. "ra" = Order[6] /\ "gp" = Order[8] /\ "tp" = Order[9]
  BY OrderList
<1> QED BY <1>3, <1>4, <1>5 DEF Kept

\* A call of the library keeps the registers that belong to its caller and the
\* caller's stack, also on the harts that have joined in the course of it, and
\* when a repair interrupts it anywhere in its code.
THEOREM CallsKeepTheCallers ==
  ASSUME "Store_Checkpoint" \notin FaultyCode["DCLS"]
  PROVE  Spec => []CallsKeep
<1>1. Holds => CallsKeep
  <2> SUFFICES ASSUME Holds, Op("ret"), NEW h \in active \ (struck \cup healing)
               PROVE  /\ \A r \in {"ra", "sp", "gp", "tp"} \cup Elements(SubSeq(File, 8, 9))
                                  \cup Elements(SubSeq(File, 18, 27)) : reg[h][r] = entry.reg[r]
                      /\ Live(reg[h], mem) = entry.stack
    BY DEF CallsKeep
  <2>1. Shape /\ Working
    BY ReturnIs
  <2>2. Alike(reg[h], reg[Master])
    BY <2>1 DEF Working
  <2>3. PICK f \in {"Safe_Activate", "Store_Checkpoint", "Check_RF"} : Called(f, entry)
    BY ReturnIs
  <2>4. Top(entry) \in {-2, 0} /\ entry.reg["sp"] = <<"stack", Top(entry)>>
    BY <2>3, CalledTop
  <2>5. Keeps(reg[Master], mem, entry) /\ reg[Master]["sp"] = <<"stack", Top(entry)>>
    <3>1. CASE Called("Safe_Activate", entry) /\ Activates(60, reg[Master], mem, entry)
      <4>1. Top(entry) = -2
        BY <3>1, CalledTop
      <4> QED BY <3>1, <4>1 DEF Activates
    <3>2. CASE Checkpoints(77, reg[Master], mem, entry, mode)
      BY <3>2 DEF Checkpoints, Frame
    <3>3. CASE Records(45, reg[Master], mem, entry)
      BY <3>3 DEF Records
    <3> QED BY <3>1, <3>2, <3>3, ReturnIs
  <2>6. \A r \in Kept : reg[h][r] = entry.reg[r]
    BY <2>2, <2>5, KeptNames DEF Alike, Keeps
  <2>7. reg[h]["sp"] = entry.reg["sp"] /\ reg[h]["sp"][2] = Top(entry)
    BY <2>2, <2>4, <2>5, Names DEF Alike
  <2>8. Live(reg[h], mem) = entry.stack
    <3>1. \A a \in Top(entry) .. 0 : mem[<<"stack", a>>] = entry.stack[a]
      BY <2>5 DEF Keeps, St
    <3>2. entry.stack = [a \in Top(entry) .. 0 |-> entry.stack[a]]
      BY <2>3 DEF Called
    <3> QED BY <2>7, <3>1, <3>2 DEF Live
  <2> QED BY <2>6, <2>7, <2>8, KeptAre
<1> QED BY <1>1, RoutinesHold, PTL

\* Check_RF leaves a record of the registers as its caller had them: of all but
\* sp, which the code overwrites, and a4 and a5, which it has used before.
THEOREM RecordsAreTheFile ==
  ASSUME "Store_Checkpoint" \notin FaultyCode["DCLS"]
  PROVE  Spec => []RecordIsTheFile
<1>1. \A n \in 6 .. 36 : Recorded(Order[n]) = n - 6
  <2>1. DOMAIN File = 1 .. 31
    BY FileText DEF Long
  <2>2. \A i \in 6 .. 36 : Order[i] = File[i - 5]
    BY OrderText
  <2> SUFFICES ASSUME NEW n \in 6 .. 36 PROVE Recorded(Order[n]) = n - 6
    OBVIOUS
  <2>3. \A i \in 1 .. 31 : File[i] = Order[n] => i = n - 5
    <3>1. ASSUME NEW i \in 1 .. 31, File[i] = Order[n] PROVE i = n - 5
      <4>1. i + 5 \in 6 .. 36 /\ (i + 5) - 5 = i
        OBVIOUS
      <4>2. Order[i + 5] = Order[n]
        BY <2>2, <3>1, <4>1
      <4>3. i + 5 = n
        BY <4>1, <4>2, OrderIsOne
      <4> QED BY <4>3
    <3> QED BY <3>1
  <2>4. n - 5 \in 1 .. 31 /\ File[n - 5] = Order[n]
    BY <2>2
  <2>5. (CHOOSE i \in DOMAIN File : File[i] = Order[n]) = n - 5
    BY <2>1, <2>3, <2>4
  <2>6. Recorded(Order[n]) = (n - 5) - 1
    BY <2>5 DEF Recorded
  <2> QED BY <2>6
<1>2. \A r \in Elements(File) : \E n \in 6 .. 36 : r = Order[n]
  <2>1. DOMAIN File = 1 .. 31
    BY FileText DEF Long
  <2>2. \A i \in 6 .. 36 : Order[i] = File[i - 5]
    BY OrderText
  <2>3. ASSUME NEW i \in 1 .. 31 PROVE i + 5 \in 6 .. 36 /\ Order[i + 5] = File[i]
    <3>1. i + 5 \in 6 .. 36 /\ (i + 5) - 5 = i
      OBVIOUS
    <3> QED BY <2>2, <3>1
  <2> QED BY <2>1, <2>3 DEF Elements
<1>3. Holds => RecordIsTheFile
  <2> SUFFICES ASSUME Holds, Op("ret"), pc[1] = "Check_RF", NEW r \in Elements(File) \ {"sp", "a4", "a5"}
               PROVE  mem[<<"check", Recorded(r)>>] = entry.reg[r]
    BY DEF RecordIsTheFile
  <2>1. Records(45, reg[Master], mem, entry)
    BY ReturnIs
  <2>2. PICK n \in 6 .. 36 : r = Order[n]
    BY <1>2
  <2>3. n \notin {7, 19, 20}
    BY <2>2, OrderList
  <2>4. mem[<<"check", Recorded(r)>>] = Ck(mem, n - 6)
    BY <1>1, <2>2 DEF Ck
  <2>5. CASE n = 6
    BY <2>1, <2>2, <2>4, <2>5, OrderList DEF Records
  <2>6. CASE n \in 8 .. 34
    BY <2>1, <2>2, <2>3, <2>4, <2>6 DEF Records
  <2>7. CASE n \in {35, 36}
    BY <2>1, <2>2, <2>4, <2>7, OrderList DEF Records
  <2> QED BY <2>3, <2>5, <2>6, <2>7
<1> QED BY <1>3, RoutinesHold, PTL
=============================================================================
