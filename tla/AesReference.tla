----------------------------- MODULE AesReference -----------------------------
(***************************************************************************)
(* The Advanced Encryption Standard as algebra: a byte is a polynomial     *)
(* over the field of two elements, modulo x^8 + x^4 + x^3 + x + 1, and is  *)
(* written as the set of its exponents.  No table and no trick of the      *)
(* library is used: this is what the library is compared with.             *)
(***************************************************************************)
LOCAL INSTANCE Integers
LOCAL INSTANCE FiniteSets

Poly(b) == {i \in 0..7 : (b \div 2^i) % 2 = 1}
ByteOf(p) ==
  LET bit(i) == IF i \in p THEN 2^i ELSE 0
  IN bit(0) + bit(1) + bit(2) + bit(3) + bit(4) + bit(5) + bit(6) + bit(7)

\* Sums and products.  XPower[k + 1] is the k-th power of x.
Plus(p, q) == (p \cup q) \ (p \cap q)
XPower == <<{0}, {1}, {2}, {3}, {4}, {5}, {6}, {7}, {0, 1, 3, 4}, {1, 2, 4, 5},
            {2, 3, 5, 6}, {3, 4, 6, 7}, {0, 1, 3, 5, 7}, {0, 2, 3, 6}, {1, 3, 4, 7}>>
Odd(S) == Cardinality(S) % 2 = 1
Times(p, q) == {n \in 0..7 : Odd({e \in p \X q : n \in XPower[e[1] + e[2] + 1]})}
Square(p)   == {n \in 0..7 : Odd({i \in p : n \in XPower[2 * i + 1]})}

\* The inverse of p is its power 254 = 2 + 4 + 8 + 16 + 32 + 64 + 128.
Inverse(p) ==
  LET p2 == Square(p)    p4 == Square(p2)    p8 == Square(p4)    p16 == Square(p8)
      p32 == Square(p16) p64 == Square(p32)  p128 == Square(p64)
      a == Times(p2, p4) b == Times(p8, p16) c == Times(p32, p64)
  IN Times(Times(a, b), Times(c, p128))

\* The affine map after it: bit i is the sum of five bits of the inverse, and
\* of bit i of the constant {0, 1, 5, 6}.
Substitute(a) ==
  LET p == Inverse(Poly(a))
  IN ByteOf(Plus({i \in 0..7 : Odd({k \in {0, 4, 5, 6, 7} : (i + k) % 8 \in p})},
                 {0, 1, 5, 6}))

Sum(a, b) == ByteOf(Plus(Poly(a), Poly(b)))

\* The state as a matrix of rows r and columns c.
At(block, r, c) == block[4 * c + r]

\* Each byte of a mixed column is x times the byte, x + 1 times the next one
\* down, and the other two.
Mixed(s, r, c) ==
  LET p(k) == Poly(At(s, (r + k) % 4, c))
  IN ByteOf(Plus(Plus(Times({1}, p(0)), Times({0, 1}, p(1))), Plus(p(2), p(3))))

\* Round n of encryption, with the four words w of its round key; 0 is the
\* addition of the key before the ten rounds.
Round(n, s, w) ==
  LET sub   == [i \in 0..15 |-> Substitute(s[i])]
      shift == [i \in 0..15 |-> At(sub, i % 4, ((i \div 4) + (i % 4)) % 4)]
      start == CASE n = 0  -> s
                 [] n = 10 -> shift
                 [] OTHER  -> [i \in 0..15 |-> Mixed(shift, i % 4, i \div 4)]
  IN [i \in 0..15 |-> Sum(start[i], w[i \div 4][i % 4])]

\* Word n of the expanded key, from words n - 4 and n - 1.  A word with a number
\* that 4 divides has a power of x added to its first byte.
ExpandedWord(n, before4, before1) ==
  LET power(k) == IF k < 8 THEN {k} ELSE Times({7}, {k - 7})
      temp(j) == IF n % 4 # 0 THEN before1[j]
                 ELSE LET t == Substitute(before1[(j + 1) % 4])
                      IN IF j = 0 THEN Sum(t, ByteOf(power(n \div 4 - 1))) ELSE t
  IN [j \in 0..3 |-> Sum(before4[j], temp(j))]
=============================================================================
