------------------------- MODULE XdpQuestion_proofs -------------------------
(***************************************************************************)
(* The parser's key is userspace's key, for every word length, name and    *)
(* frame: what the word arithmetic computes byte by byte, and the parser's *)
(* invariant.                                                              *)
(***************************************************************************)
EXTENDS XdpQuestion, WellFoundedInduction, SequenceTheorems, TLAPS

-----------------------------------------------------------------------------
(* Induction *)

\* The order of the natural numbers.
Below == {p \in Nat \X Nat : p[1] < p[2]}

\* Induction over a set: the numbers it misses have no least one.
LEMMA SetInduction ==
    ASSUME NEW S, 0 \in S, \A n \in Nat : n \in S => n + 1 \in S
    PROVE  Nat \subseteq S
<1> DEFINE T == Nat \ S
<1>1. SUFFICES ASSUME T # {} PROVE FALSE
  OBVIOUS
<1>2. IsWellFoundedOn(Below, Nat)
  BY NatLessThanWellFounded DEF OpToRel, Below
<1>3. PICK x \in T : \A y \in T : ~ (<<y, x>> \in Below)
  <2> HIDE DEF T
  <2>1. T \subseteq Nat
    BY DEF T
  <2> QED BY <1>1, <1>2, <2>1, WFMin, Zenon
<1>4. x # 0 /\ x - 1 \in T
  OBVIOUS
<1>5. <<x - 1, x>> \in Below
  BY DEF Below
<1> QED BY <1>3, <1>4, <1>5

Solves(f, n, base, step) == f[0] = base /\ \A i \in 1 .. n : f[i] = step[i][f[i - 1]]

\* A recursion over 0..n has a solution.
LEMMA Recursion ==
    ASSUME NEW n \in Nat, NEW V, NEW base \in V, NEW step \in [1 .. n -> [V -> V]]
    PROVE  \E f \in [0 .. n -> V] : Solves(f, n, base, step)
<1> DEFINE Ok(m) == \E f \in [0 .. m -> V] : Solves(f, m, base, step)
<1> DEFINE S == {m \in Nat : m <= n => Ok(m)}
<1>1. 0 \in S
  <2>1. [i \in 0 .. 0 |-> base] \in [0 .. 0 -> V] /\ Solves([i \in 0 .. 0 |-> base], 0, base, step)
    BY DEF Solves
  <2>2. Ok(0)
    BY <2>1
  <2> HIDE DEF Ok
  <2> QED BY <2>2
<1>2. ASSUME NEW m \in Nat, m \in S PROVE m + 1 \in S
  <2> SUFFICES ASSUME m + 1 <= n PROVE Ok(m + 1)
    <3> HIDE DEF Ok
    <3> QED OBVIOUS
  <2>1. Ok(m)
    <3> HIDE DEF Ok
    <3> QED BY <1>2
  <2>2. PICK f \in [0 .. m -> V] : Solves(f, m, base, step)
    BY <2>1
  <2> DEFINE g == [i \in 0 .. m + 1 |-> IF i = m + 1 THEN step[m + 1][f[m]] ELSE f[i]]
  <2>3. g \in [0 .. m + 1 -> V]
    OBVIOUS
  <2>4. Solves(g, m + 1, base, step)
    BY <2>2 DEF Solves
  <2> QED BY <2>3, <2>4
<1>3. n \in S
  <2> HIDE DEF S
  <2> QED BY <1>1, <1>2, SetInduction
<1>4. Ok(n)
  <2> HIDE DEF Ok
  <2> QED BY <1>3
<1> QED BY <1>4

-----------------------------------------------------------------------------
(* Bytes *)

\* A word is at least two bytes.
LEMMA WordLenType == WordLen \in Nat /\ WordLen >= 2
BY QuestionAssumption

\* The bits two bytes share are bits of each.
LEMMA AndOctet ==
    ASSUME NEW a \in Octet, NEW b \in Octet
    PROVE  /\ AndByte(a, b) \in Octet
           /\ AndByte(a, b) >= 128 <=> a >= 128 /\ b >= 128
<1> DEFINE ba(p) == (a \div p) % 2
<1> DEFINE bb(p) == (b \div p) % 2
<1>1. \A p \in {1, 2, 4, 8, 16, 32, 64, 128} : ba(p) \in {0, 1} /\ bb(p) \in {0, 1}
  BY DEF Octet
<1>2. \A p \in {1, 2, 4, 8, 16, 32, 64, 128} : (p * ba(p) * bb(p)) \in {0, p}
  BY <1>1
<1>3. (ba(128) = 1 <=> a >= 128) /\ (bb(128) = 1 <=> b >= 128)
  BY DEF Octet
<1>4. 128 * ba(128) * bb(128) = IF a >= 128 /\ b >= 128 THEN 128 ELSE 0
  BY <1>1, <1>3
<1>5. AndByte(a, b) = 1 * ba(1) * bb(1) + 2 * ba(2) * bb(2) + 4 * ba(4) * bb(4) + 8 * ba(8) * bb(8)
                      + 16 * ba(16) * bb(16) + 32 * ba(32) * bb(32) + 64 * ba(64) * bb(64)
                      + 128 * ba(128) * bb(128)
  BY DEF AndByte
<1> HIDE DEF ba, bb
<1> QED BY <1>2, <1>4, <1>5 DEF Octet

\* What masking does to a byte.
LEMMA AndMask ==
    ASSUME NEW a \in Octet
    PROVE  /\ AndByte(a, 128) = IF a >= 128 THEN 128 ELSE 0
           /\ AndByte(a, 0) = 0 /\ AndByte(0, a) = 0
           /\ AndByte(a, 255) = a
           /\ AndByte(a, 32) = 32 * ((a \div 32) % 2)
           /\ AndByte(128, 128) = 128 /\ AndByte(128, 127) = 0 /\ AndByte(0, 127) = 0
<1>1. AndByte(a, 128) = IF a >= 128 THEN 128 ELSE 0
  BY DEF AndByte, Octet
<1>2. AndByte(a, 0) = 0 /\ AndByte(0, a) = 0
  BY DEF AndByte, Octet
<1>3. AndByte(a, 255) = a
  BY SMTT(30) DEF AndByte, Octet
<1>4. AndByte(a, 32) = 32 * ((a \div 32) % 2)
  BY DEF AndByte, Octet
<1>5. AndByte(128, 128) = 128 /\ AndByte(128, 127) = 0 /\ AndByte(0, 127) = 0
  BY DEF AndByte
<1> QED BY <1>1, <1>2, <1>3, <1>4, <1>5

\* A byte shares no bit with its complement.
LEMMA AndComplement ==
    ASSUME NEW a \in Octet
    PROVE  AndByte(a, 255 - a) = 0
<1> DEFINE ba(p) == (a \div p) % 2
<1> DEFINE bc(p) == ((255 - a) \div p) % 2
<1>1. \A p \in {1, 2, 4, 8, 16, 32, 64, 128} : ba(p) \in {0, 1} /\ bc(p) = 1 - ba(p)
  BY SMTT(30) DEF Octet
<1>2. \A p \in {1, 2, 4, 8, 16, 32, 64, 128} : p * ba(p) * bc(p) = 0
  BY <1>1
<1>3. AndByte(a, 255 - a) = 1 * ba(1) * bc(1) + 2 * ba(2) * bc(2) + 4 * ba(4) * bc(4)
                      + 8 * ba(8) * bc(8) + 16 * ba(16) * bc(16) + 32 * ba(32) * bc(32)
                      + 64 * ba(64) * bc(64) + 128 * ba(128) * bc(128)
  BY DEF AndByte
<1> HIDE DEF ba, bc
<1> QED BY <1>2, <1>3

-----------------------------------------------------------------------------
(* Words *)

\* Borrow satisfies its recursion.
LEMMA BorrowDef ==
    ASSUME NEW x \in U64, NEW y \in U64
    PROVE  /\ Borrow(x, y) \in [0 .. WordLen -> {0, 1}]
           /\ Borrow(x, y)[0] = 0
           /\ \A i \in Places :
                Borrow(x, y)[i] = IF x[i] < y[i] + Borrow(x, y)[i - 1] THEN 1 ELSE 0
<1> DEFINE Body(f) == [i \in 0 .. WordLen |->
                          IF i = 0 THEN 0 ELSE IF x[i] < y[i] + f[i - 1] THEN 1 ELSE 0]
<1> DEFINE step == [i \in 1 .. WordLen |-> [v \in {0, 1} |-> IF x[i] < y[i] + v THEN 1 ELSE 0]]
<1>1. \E f \in [0 .. WordLen -> {0, 1}] : Solves(f, WordLen, 0, step)
  <2>1. step \in [1 .. WordLen -> [{0, 1} -> {0, 1}]]
    OBVIOUS
  <2>2. 0 \in {0, 1}
    OBVIOUS
  <2> HIDE DEF step
  <2> QED BY <2>1, <2>2, WordLenType, Recursion, Zenon
<1>2. PICK f \in [0 .. WordLen -> {0, 1}] : Solves(f, WordLen, 0, step)
  BY <1>1, Zenon
<1>3. f = Body(f)
  <2>1. \A i \in 1 .. WordLen : f[i] = IF x[i] < y[i] + f[i - 1] THEN 1 ELSE 0
    <3>1. \A i \in 1 .. WordLen : f[i - 1] \in {0, 1}
      BY WordLenType
    <3> QED BY <1>2, <3>1, Zenon DEF Solves
  <2>2. f[0] = 0
    BY <1>2 DEF Solves
  <2> QED BY <2>1, <2>2, WordLenType
<1>4. Borrow(x, y) = Body(Borrow(x, y))
  <2>1. Borrow(x, y) = CHOOSE g : g = Body(g)
    BY DEF Borrow
  <2> HIDE DEF Body
  <2> QED BY <1>3, <2>1
<1>5. \A i \in 0 .. WordLen :
        Borrow(x, y)[i] = IF i = 0 THEN 0 ELSE IF x[i] < y[i] + Borrow(x, y)[i - 1] THEN 1 ELSE 0
  <2> HIDE DEF step
  <2>1. \A i \in 0 .. WordLen :
          Body(Borrow(x, y))[i] = IF i = 0 THEN 0 ELSE IF x[i] < y[i] + Borrow(x, y)[i - 1] THEN 1 ELSE 0
    OBVIOUS
  <2> HIDE DEF Body
  <2> QED BY <1>4, <2>1
<1>6. Borrow(x, y) \in [0 .. WordLen -> {0, 1}]
  <2>1. \A i \in 0 .. WordLen : Borrow(x, y)[i] \in {0, 1}
    BY <1>5
  <2>2. Borrow(x, y) = [i \in 0 .. WordLen |-> Borrow(x, y)[i]]
    BY <1>4
  <2> QED BY <2>1, <2>2
<1> QED BY <1>5, <1>6, WordLenType DEF Places

\* One step of the borrow, in numbers the provers see as such.
LEMMA BorrowStep ==
    ASSUME NEW x \in U64, NEW y \in U64, NEW n \in Nat, n < WordLen
    PROVE  /\ Borrow(x, y)[n] \in {0, 1} /\ x[n + 1] \in 0 .. 255 /\ y[n + 1] \in 0 .. 255
           /\ Borrow(x, y)[n] = 0 /\ x[n + 1] >= y[n + 1] => Borrow(x, y)[n + 1] = 0
           /\ Borrow(x, y)[n] = 0 /\ x[n + 1] < y[n + 1] => Borrow(x, y)[n + 1] = 1
           /\ Borrow(x, y)[n] = 1 /\ x[n + 1] <= y[n + 1] => Borrow(x, y)[n + 1] = 1
           /\ Borrow(x, y)[n] = 1 /\ x[n + 1] > y[n + 1] => Borrow(x, y)[n + 1] = 0
<1>1. n + 1 \in Places /\ x[n + 1] \in 0 .. 255 /\ y[n + 1] \in 0 .. 255
  BY WordLenType, SMTT(30) DEF U64, Places, Octet
<1>2. Borrow(x, y)[n + 1] = IF x[n + 1] < y[n + 1] + Borrow(x, y)[(n + 1) - 1] THEN 1 ELSE 0
  BY <1>1, BorrowDef
<1>3. (n + 1) - 1 = n /\ Borrow(x, y)[n] \in {0, 1}
  BY BorrowDef, WordLenType
<1>4. Borrow(x, y)[n + 1] = IF x[n + 1] < y[n + 1] + Borrow(x, y)[n] THEN 1 ELSE 0
  BY <1>2, <1>3
<1>5. \A u, v \in 0 .. 255 : \A c \in {0, 1} : \A d :
        d = (IF u < v + c THEN 1 ELSE 0) =>
          /\ c = 0 /\ u >= v => d = 0
          /\ c = 0 /\ u < v => d = 1
          /\ c = 1 /\ u <= v => d = 1
          /\ c = 1 /\ u > v => d = 0
  OBVIOUS
<1> DEFINE d == Borrow(x, y)[n + 1]
<1> DEFINE c == Borrow(x, y)[n]
<1>6. /\ c = 0 /\ x[n + 1] >= y[n + 1] => d = 0
      /\ c = 0 /\ x[n + 1] < y[n + 1] => d = 1
      /\ c = 1 /\ x[n + 1] <= y[n + 1] => d = 1
      /\ c = 1 /\ x[n + 1] > y[n + 1] => d = 0
  <2>1. c \in {0, 1} /\ d = IF x[n + 1] < y[n + 1] + c THEN 1 ELSE 0
    BY <1>3, <1>4
  <2> HIDE DEF c, d
  <2> QED BY ONLY <1>1, <1>5, <2>1, Zenon
<1> QED BY <1>1, <1>3, <1>6

\* From a byte after which nothing is lent, nothing is as long as no byte is too small.
LEMMA NothingLent ==
    ASSUME NEW x \in U64, NEW y \in U64, NEW a \in 0 .. WordLen, NEW k \in a .. WordLen,
           Borrow(x, y)[a] = 0, \A i \in a + 1 .. k : x[i] >= y[i]
    PROVE  \A i \in a .. k : Borrow(x, y)[i] = 0
<1> DEFINE S == {n \in Nat : a + n <= k => Borrow(x, y)[a + n] = 0}
<1>1. 0 \in S
  BY WordLenType
<1>2. ASSUME NEW n \in Nat, n \in S PROVE n + 1 \in S
  <2> SUFFICES ASSUME a + (n + 1) <= k PROVE Borrow(x, y)[a + (n + 1)] = 0
    OBVIOUS
  <2>1. a + n \in Nat /\ a + n < WordLen /\ a + (n + 1) = (a + n) + 1
    BY WordLenType
  <2>2. Borrow(x, y)[a + n] = 0 /\ x[(a + n) + 1] >= y[(a + n) + 1]
    BY <1>2, WordLenType
  <2> QED BY <2>1, <2>2, BorrowStep
<1>3. Nat \subseteq S
  <2> HIDE DEF S
  <2> QED BY <1>1, <1>2, SetInduction
<1>4. \A i \in a .. k : i - a \in S /\ i - a \in Nat /\ a + (i - a) = i
  BY <1>3, WordLenType
<1> QED BY <1>4

\* What is lent stays lent as long as no byte is larger.
LEMMA StillLent ==
    ASSUME NEW x \in U64, NEW y \in U64, NEW a \in 0 .. WordLen, NEW k \in a .. WordLen,
           Borrow(x, y)[a] = 1, \A i \in a + 1 .. k : x[i] <= y[i]
    PROVE  \A i \in a .. k : Borrow(x, y)[i] = 1
<1> DEFINE S == {n \in Nat : a + n <= k => Borrow(x, y)[a + n] = 1}
<1>1. 0 \in S
  BY WordLenType
<1>2. ASSUME NEW n \in Nat, n \in S PROVE n + 1 \in S
  <2> SUFFICES ASSUME a + (n + 1) <= k PROVE Borrow(x, y)[a + (n + 1)] = 1
    OBVIOUS
  <2>1. a + n \in Nat /\ a + n < WordLen /\ a + (n + 1) = (a + n) + 1
    BY WordLenType
  <2>2. Borrow(x, y)[a + n] = 1 /\ x[(a + n) + 1] <= y[(a + n) + 1]
    BY <1>2, WordLenType
  <2> QED BY <2>1, <2>2, BorrowStep
<1>3. Nat \subseteq S
  <2> HIDE DEF S
  <2> QED BY <1>1, <1>2, SetInduction
<1>4. \A i \in a .. k : i - a \in S /\ i - a \in Nat /\ a + (i - a) = i
  BY <1>3, WordLenType
<1> QED BY <1>4

\* !x, byte by byte.
LEMMA ComplementType ==
    ASSUME NEW x \in U64
    PROVE  Complement(x) \in U64 /\ \A i \in Places : Complement(x)[i] = 255 - x[i]
BY DEF U64, Complement, Octet

\* The operations give words.
LEMMA WordTypes ==
    ASSUME NEW x \in U64, NEW y \in U64
    PROVE  /\ (x & y) \in U64 /\ Complement(x) \in U64 /\ Minus(x, y) \in U64
           /\ \A i \in Places : /\ (x & y)[i] = AndByte(x[i], y[i])
                                /\ Complement(x)[i] = 255 - x[i]
                                /\ Minus(x, y)[i] = (x[i] - y[i] - Borrow(x, y)[i - 1]) % 256
<1>1. (x & y) \in U64
  BY AndOctet DEF U64, &
<1>2. Complement(x) \in U64
  BY DEF U64, Complement, Octet
<1>3. Minus(x, y) \in U64
  <2>1. \A i \in Places : (x[i] - y[i] - Borrow(x, y)[i - 1]) \in Int
    <3> SUFFICES ASSUME NEW i \in Places PROVE (x[i] - y[i] - Borrow(x, y)[i - 1]) \in Int
      OBVIOUS
    <3>1. i - 1 \in 0 .. WordLen /\ x[i] \in Octet /\ y[i] \in Octet
      BY WordLenType DEF U64, Places
    <3>2. Borrow(x, y)[i - 1] \in {0, 1}
      BY <3>1, BorrowDef, Zenon
    <3>3. x[i] \in Int /\ y[i] \in Int /\ Borrow(x, y)[i - 1] \in Int
      BY <3>1, <3>2, SMTT(30) DEF Octet
    <3> HIDE DEF Borrow
    <3> QED BY ONLY <3>3
  <2>2. \A i \in Places : ((x[i] - y[i] - Borrow(x, y)[i - 1]) % 256) \in Octet
    BY <2>1 DEF Octet
  <2> QED BY <2>2 DEF U64, Minus
<1>4. \A i \in Places : /\ (x & y)[i] = AndByte(x[i], y[i])
                        /\ Complement(x)[i] = 255 - x[i]
                        /\ Minus(x, y)[i] = (x[i] - y[i] - Borrow(x, y)[i - 1]) % 256
  BY DEF &, Complement, Minus
<1> QED BY <1>1, <1>2, <1>3, <1>4

\* One byte of a difference.
LEMMA MinusByte ==
    ASSUME NEW x \in U64, NEW y \in U64, NEW i \in Places
    PROVE  LET c == Borrow(x, y)[i - 1]
           IN  Minus(x, y)[i] = IF x[i] >= y[i] + c THEN x[i] - y[i] - c ELSE x[i] - y[i] - c + 256
<1> DEFINE c == Borrow(x, y)[i - 1]
<1>1. x[i] \in 0 .. 255 /\ y[i] \in 0 .. 255 /\ c \in {0, 1}
  <2>1. i - 1 \in 0 .. WordLen
    BY WordLenType DEF Places
  <2> QED BY <2>1, BorrowDef, ZenonT(60) DEF U64, Octet
<1>2. Minus(x, y)[i] = (x[i] - y[i] - c) % 256
  BY DEF Minus
<1> HIDE DEF c
<1>3. Minus(x, y)[i] = IF x[i] >= y[i] + c THEN x[i] - y[i] - c ELSE x[i] - y[i] - c + 256
  <2>1. PICK u \in 0 .. 255, v \in 0 .. 255, d \in {0, 1} : u = x[i] /\ v = y[i] /\ d = c
    BY <1>1, Zenon
  <2>2. (u - v - d) % 256 = IF u >= v + d THEN u - v - d ELSE u - v - d + 256
    OBVIOUS
  <2> QED BY <1>2, <2>1, <2>2, Zenon
<1> QED BY <1>3 DEF c

\* A byte in every place.
LEMMA SplatType ==
    ASSUME NEW b \in Octet
    PROVE  Splat(b) \in U64 /\ \A i \in Places : Splat(b)[i] = b
BY DEF Splat, U64

-----------------------------------------------------------------------------
(* lower_word *)

\* The high bit of each byte says whether the byte is a character from b on.
LEMMA AtLeastBytes ==
    ASSUME NEW w \in U64, NEW b \in 1 .. 127
    PROVE  /\ AtLeast(w, b) \in U64
           /\ \A i \in Places : AtLeast(w, b)[i] = IF w[i] \in b .. 127 THEN 128 ELSE 0
<1> DEFINE h == w | BYTE_HIGHS
<1> DEFINE m == Minus(h, Splat(b))
<1>1. /\ Splat(b) \in U64 /\ \A i \in Places : Splat(b)[i] = b
      /\ BYTE_HIGHS \in U64 /\ \A i \in Places : BYTE_HIGHS[i] = 128
  BY SplatType, SMTT(30) DEF BYTE_HIGHS, Octet
<1>2. \A i \in Places : w[i] \in Octet
  BY DEF U64
<1>3. \A i \in Places : h[i] = IF w[i] >= 128 THEN w[i] ELSE w[i] + 128
  <2>1. \A i \in Places : h[i] = w[i] + 128 - AndByte(w[i], 128)
    BY <1>1 DEF |
  <2>2. \A i \in Places : AndByte(w[i], 128) = IF w[i] >= 128 THEN 128 ELSE 0
    BY <1>2, AndMask
  <2> HIDE DEF h
  <2> QED BY <1>2, <2>1, <2>2 DEF Octet
<1>4. h \in U64
  <2>1. h = [i \in Places |-> h[i]]
    BY DEF |
  <2> HIDE DEF h
  <2> QED BY <1>2, <1>3, <2>1 DEF U64, Octet
<1> HIDE DEF h
<1>5. \A i \in 0 .. WordLen : Borrow(h, Splat(b))[i] = 0
  <2>1. ASSUME NEW i \in 1 .. WordLen PROVE h[i] >= Splat(b)[i]
    <3>1. i \in Places /\ Splat(b)[i] = b /\ w[i] \in 0 .. 255 /\ h[i] = IF w[i] >= 128 THEN w[i] ELSE w[i] + 128
      BY <1>1, <1>2, <1>3, Zenon DEF Places, Octet
    <3>2. \A v \in 0 .. 255 : (IF v >= 128 THEN v ELSE v + 128) >= b
      OBVIOUS
    <3> QED BY ONLY <3>1, <3>2
  <2>2. Borrow(h, Splat(b))[0] = 0 /\ WordLen \in 0 .. WordLen /\ 0 \in 0 .. WordLen
    BY <1>1, <1>4, BorrowDef, WordLenType
  <2> QED BY <1>1, <1>4, <2>1, <2>2, NothingLent
<1>6. m \in U64 /\ \A i \in Places : m[i] = h[i] - b
  <2>1. m \in U64 /\ \A i \in Places : m[i] = (h[i] - Splat(b)[i] - Borrow(h, Splat(b))[i - 1]) % 256
    BY <1>1, <1>4, WordTypes
  <2>2. \A i \in Places : Borrow(h, Splat(b))[i - 1] = 0
    BY <1>5, WordLenType DEF Places
  <2>3. \A i \in Places : h[i] \in 128 .. 255
    BY <1>2, <1>3 DEF Octet
  <2>4. ASSUME NEW i \in Places PROVE m[i] = h[i] - b
    <3>1. m[i] = (h[i] - b - 0) % 256
      BY <1>1, <2>1, <2>2
    <3>2. h[i] \in 128 .. 255
      BY <2>3
    <3>3. \A v \in 128 .. 255 : (v - b - 0) % 256 = v - b
      OBVIOUS
    <3> QED BY ONLY <3>1, <3>2, <3>3
  <2> QED BY <2>1, <2>4
<1> HIDE DEF m
<1>7. /\ (m & Complement(w)) \in U64
      /\ \A i \in Places : (m & Complement(w))[i] = AndByte(m[i], 255 - w[i])
  BY <1>6, WordTypes
<1>8. /\ AtLeast(w, b) \in U64
      /\ \A i \in Places : AtLeast(w, b)[i] = AndByte(AndByte(m[i], 255 - w[i]), 128)
  <2>1. AtLeast(w, b) = (m & Complement(w)) & BYTE_HIGHS
    BY DEF AtLeast, m, h
  <2> QED BY <1>1, <1>7, <2>1, WordTypes
<1>9. \A i \in Places : AtLeast(w, b)[i] = IF w[i] \in b .. 127 THEN 128 ELSE 0
  <2> SUFFICES ASSUME NEW i \in Places
               PROVE  AtLeast(w, b)[i] = IF w[i] \in b .. 127 THEN 128 ELSE 0
    OBVIOUS
  <2>1. m[i] \in Octet /\ w[i] \in Octet /\ 255 - w[i] \in Octet
    BY <1>2, <1>6 DEF U64, Octet
  <2>2. /\ AndByte(m[i], 255 - w[i]) \in Octet
        /\ AndByte(m[i], 255 - w[i]) >= 128 <=> m[i] >= 128 /\ 255 - w[i] >= 128
    BY <2>1, AndOctet
  <2>3. AtLeast(w, b)[i] = IF m[i] >= 128 /\ 255 - w[i] >= 128 THEN 128 ELSE 0
    BY <1>8, <2>2, AndMask
  <2>4. m[i] = (IF w[i] >= 128 THEN w[i] ELSE w[i] + 128) - b
    BY <1>3, <1>6
  <2> QED BY <2>1, <2>3, <2>4 DEF Octet
<1> QED BY <1>8, <1>9

\* lower_word lowers every byte of the word, and each on its own: bit 7 of the
\* difference never comes from a neighbour.
LEMMA LowerWordBytes ==
    ASSUME NEW w \in U64
    PROVE  lower_word(w) \in U64 /\ \A i \in Places : lower_word(w)[i] = Lower(w[i])
<1> DEFINE t == AtLeast(w, 65) & Complement(AtLeast(w, 91))
<1> DEFINE u == ShiftRight2(t)
<1>1. /\ AtLeast(w, 65) \in U64 /\ AtLeast(w, 91) \in U64
      /\ \A i \in Places : /\ AtLeast(w, 65)[i] = IF w[i] \in 65 .. 127 THEN 128 ELSE 0
                           /\ AtLeast(w, 91)[i] = IF w[i] \in 91 .. 127 THEN 128 ELSE 0
  BY AtLeastBytes
<1>2. \A i \in Places : w[i] \in Octet
  BY DEF U64
<1>3. \A i \in Places : t[i] = AndByte(AtLeast(w, 65)[i], 255 - AtLeast(w, 91)[i])
  BY <1>1, WordTypes
<1>4. \A i \in Places : t[i] = IF w[i] \in 65 .. 90 THEN 128 ELSE 0
  <2> HIDE DEF t
  <2> SUFFICES ASSUME NEW i \in Places PROVE t[i] = IF w[i] \in 65 .. 90 THEN 128 ELSE 0
    OBVIOUS
  <2>1. AndByte(128, 255) = 128 /\ AndByte(128, 127) = 0 /\ AndByte(0, 255) = 0 /\ AndByte(0, 127) = 0
    BY AndMask DEF Octet
  <2> QED BY <1>1, <1>2, <1>3, <2>1 DEF Octet
<1> HIDE DEF t
<1>5. \A i \in Places : u[i] = IF w[i] \in 65 .. 90 THEN 32 ELSE 0
  <2>1. \A i \in Places : u[i] = t[i] \div 4 + 64 * (IF i < WordLen THEN t[i + 1] % 4 ELSE 0)
    BY DEF ShiftRight2
  <2>2. \A i \in Places : (IF i < WordLen THEN t[i + 1] % 4 ELSE 0) = 0
    BY <1>4, WordLenType DEF Places
  <2> HIDE DEF u
  <2> QED BY <1>4, <2>1, <2>2
<1> HIDE DEF u
<1>6. \A i \in Places : lower_word(w)[i] = w[i] + u[i] - AndByte(w[i], u[i])
  BY DEF lower_word, |, u, t
<1>7. \A i \in Places : lower_word(w)[i] = Lower(w[i])
  <2> SUFFICES ASSUME NEW i \in Places PROVE lower_word(w)[i] = Lower(w[i])
    OBVIOUS
  <2>1. AndByte(w[i], 32) = 32 * ((w[i] \div 32) % 2) /\ AndByte(w[i], 0) = 0
    BY <1>2, AndMask
  <2>2. w[i] \in 65 .. 90 => (w[i] \div 32) % 2 = 0
    BY <1>2
  <2> QED BY <1>2, <1>5, <1>6, <2>1, <2>2 DEF Lower, Octet
<1>8. lower_word(w) \in U64
  <2>1. lower_word(w) = [i \in Places |-> lower_word(w)[i]]
    BY DEF lower_word, |
  <2> QED BY <1>2, <1>7, <2>1 DEF Lower, Octet, U64
<1> QED BY <1>7, <1>8, SMTT(30)

-----------------------------------------------------------------------------
(* The zero test and the mask *)

\* k bytes before the first zero one.
FirstZero(w, k) ==
    /\ k \in 0 .. WordLen
    /\ k < WordLen => w[k + 1] = 0
    /\ \A j \in 1 .. k : w[j] # 0

\* zero_index counts the bytes before the first zero one.
LEMMA ZeroIndexFirst ==
    ASSUME NEW w \in U64
    PROVE  FirstZero(w, zero_index(w))
<1> DEFINE S == {m \in Nat : m <= WordLen => (\E k \in 0 .. m : FirstZero(w, k)) \/ \A j \in 1 .. m : w[j] # 0}
<1>1. 0 \in S
  BY WordLenType
<1>2. ASSUME NEW m \in Nat, m \in S PROVE m + 1 \in S
  <2> SUFFICES ASSUME m + 1 <= WordLen, \A j \in 1 .. m : w[j] # 0, w[m + 1] = 0
               PROVE  FirstZero(w, m)
    BY <1>2, WordLenType
  <2> QED BY WordLenType DEF FirstZero
<1>3. WordLen \in S
  <2> HIDE DEF S
  <2> QED BY <1>1, <1>2, SetInduction, WordLenType
<1>4. \E k \in 0 .. WordLen : FirstZero(w, k)
  BY <1>3, WordLenType DEF FirstZero
<1>5. zero_index(w) = CHOOSE k \in 0 .. WordLen : FirstZero(w, k)
  BY Zenon DEF zero_index, FirstZero
<1> QED BY <1>4, <1>5

\* The first high bit of Zeros is the first zero byte's: the subtraction borrows from
\* no byte before it.
LEMMA ZerosBytes ==
    ASSUME NEW w \in U64, NEW k, FirstZero(w, k)
    PROVE  /\ Zeros(w) \in U64
           /\ \A i \in 1 .. k : Zeros(w)[i] = 0
           /\ k < WordLen => Zeros(w)[k + 1] = 128
<1> DEFINE m == Minus(w, BYTE_ONES)
<1>1. /\ BYTE_ONES \in U64 /\ \A i \in Places : BYTE_ONES[i] = 1
      /\ BYTE_HIGHS \in U64 /\ \A i \in Places : BYTE_HIGHS[i] = 128
  BY SplatType DEF BYTE_ONES, BYTE_HIGHS, Octet
<1>2. \A i \in Places : w[i] \in Octet
  BY DEF U64
<1>3. k \in 0 .. WordLen /\ \A i \in 1 .. k : i \in Places /\ w[i] # 0
  BY WordLenType DEF FirstZero, Places
<1>4. \A i \in 0 .. k : Borrow(w, BYTE_ONES)[i] = 0
  <2>1. \A i \in 1 .. k : w[i] >= BYTE_ONES[i]
    BY <1>1, <1>2, <1>3 DEF Octet
  <2>2. Borrow(w, BYTE_ONES)[0] = 0 /\ 0 \in 0 .. WordLen
    BY <1>1, BorrowDef, WordLenType
  <2> QED BY <1>1, <1>3, <2>1, <2>2, NothingLent
<1>5. m \in U64 /\ \A i \in Places : m[i] = (w[i] - BYTE_ONES[i] - Borrow(w, BYTE_ONES)[i - 1]) % 256
  BY <1>1, WordTypes
<1>6. \A v \in 1 .. 255 : (v - 1 - 0) % 256 = v - 1
  OBVIOUS
<1>7. \A i \in 1 .. k : m[i] = w[i] - 1
  <2> SUFFICES ASSUME NEW i \in 1 .. k PROVE m[i] = w[i] - 1
    OBVIOUS
  <2>1. i \in Places /\ i - 1 \in 0 .. k /\ w[i] \in 1 .. 255
    BY <1>2, <1>3, WordLenType DEF Octet
  <2>2. m[i] = (w[i] - 1 - 0) % 256
    BY <1>1, <1>4, <1>5, <2>1
  <2> QED BY ONLY <1>6, <2>1, <2>2
<1>8. k < WordLen => m[k + 1] = 255
  <2> SUFFICES ASSUME k < WordLen PROVE m[k + 1] = 255
    OBVIOUS
  <2>1. k + 1 \in Places /\ w[k + 1] = 0 /\ (k + 1) - 1 = k
    BY <1>3, WordLenType DEF FirstZero, Places
  <2>2. m[k + 1] = (w[k + 1] - BYTE_ONES[k + 1] - Borrow(w, BYTE_ONES)[(k + 1) - 1]) % 256
    BY <1>5, <2>1
  <2>3. Borrow(w, BYTE_ONES)[(k + 1) - 1] = 0 /\ BYTE_ONES[k + 1] = 1
    BY <1>1, <1>3, <1>4, <2>1
  <2> DEFINE v == w[k + 1] - BYTE_ONES[k + 1] - Borrow(w, BYTE_ONES)[(k + 1) - 1]
  <2>4. v \in Int /\ v + 1 = 0
    BY <2>1, <2>3
  <2> HIDE DEF m, v
  <2>5. v % 256 = 255
    BY <2>4
  <2> QED BY <2>2, <2>5 DEF v
<1> HIDE DEF m
<1>9. /\ Zeros(w) \in U64
      /\ \A i \in Places : Zeros(w)[i] = AndByte(AndByte(m[i], 255 - w[i]), 128)
  <2>1. /\ (m & Complement(w)) \in U64
        /\ \A i \in Places : (m & Complement(w))[i] = AndByte(m[i], 255 - w[i])
    <3>1. Complement(w) \in U64 /\ \A i \in Places : Complement(w)[i] = 255 - w[i]
      BY ComplementType
    <3> QED BY <1>5, <3>1, WordTypes
  <2>2. Zeros(w) = (m & Complement(w)) & BYTE_HIGHS
    BY DEF Zeros, m
  <2> QED BY <1>1, <2>1, <2>2, WordTypes
<1>10. \A i \in Places : Zeros(w)[i] = IF m[i] >= 128 /\ 255 - w[i] >= 128 THEN 128 ELSE 0
  <2> SUFFICES ASSUME NEW i \in Places
               PROVE  Zeros(w)[i] = IF m[i] >= 128 /\ 255 - w[i] >= 128 THEN 128 ELSE 0
    OBVIOUS
  <2>1. m[i] \in Octet /\ 255 - w[i] \in Octet
    BY <1>2, <1>5 DEF U64, Octet
  <2>2. /\ AndByte(m[i], 255 - w[i]) \in Octet
        /\ AndByte(m[i], 255 - w[i]) >= 128 <=> m[i] >= 128 /\ 255 - w[i] >= 128
    BY <2>1, AndOctet
  <2> QED BY <1>9, <2>2, AndMask
<1>11. \A i \in 1 .. k : Zeros(w)[i] = 0
  <2> SUFFICES ASSUME NEW i \in 1 .. k PROVE Zeros(w)[i] = 0
    OBVIOUS
  <2>1. i \in Places /\ w[i] \in Int /\ m[i] = w[i] - 1
    BY <1>2, <1>3, <1>7 DEF Octet
  <2> QED BY <1>10, <2>1
<1>12. k < WordLen => Zeros(w)[k + 1] = 128
  <2> SUFFICES ASSUME k < WordLen PROVE Zeros(w)[k + 1] = 128
    OBVIOUS
  <2>1. k + 1 \in Places /\ w[k + 1] = 0 /\ m[k + 1] = 255
    BY <1>3, <1>8, WordLenType DEF FirstZero, Places
  <2> QED BY <1>10, <2>1
<1> QED BY <1>9, <1>11, <1>12

\* BelowFirst has the bits below the lowest one set, when that is a byte's highest.
LEMMA BelowFirstBytes ==
    ASSUME NEW z \in U64, NEW p \in Places, \A i \in 1 .. p - 1 : z[i] = 0, z[p] = 128
    PROVE  /\ BelowFirst(z) \in U64
           /\ \A i \in Places : BelowFirst(z)[i] = IF i < p THEN 255 ELSE IF i = p THEN 127 ELSE 0
<1> DEFINE o == Splat(0)
<1> DEFINE n == Minus(o, z)
<1> DEFINE f == z & n
<1> DEFINE one == FromBytes(<<1>>)
<1>1. o \in U64 /\ \A i \in Places : o[i] = 0
  BY SplatType DEF Octet
<1>2. one \in U64 /\ \A i \in Places : one[i] = IF i = 1 THEN 1 ELSE 0
  <2>1. Len(<<1>>) = 1 /\ <<1>>[1] = 1
    OBVIOUS
  <2>2. \A i \in Places : i \in Nat /\ i >= 1
    BY WordLenType DEF Places
  <2>3. \A i \in Places : one[i] = IF i = 1 THEN 1 ELSE 0
    BY <2>1, <2>2 DEF FromBytes
  <2>4. one = [i \in Places |-> one[i]]
    BY DEF FromBytes
  <2> HIDE DEF one
  <2> QED BY <2>3, <2>4 DEF U64, Octet
<1>3. p \in Nat /\ p >= 1 /\ p <= WordLen /\ \A i \in Places : i \in Nat /\ i >= 1 /\ i <= WordLen /\ z[i] \in 0 .. 255
  BY WordLenType, SMTT(30) DEF Places, U64, Octet
<1> HIDE DEF o, one
<1>4. /\ \A i \in 0 .. p - 1 : Borrow(o, z)[i] = 0
      /\ \A i \in p .. WordLen : Borrow(o, z)[i] = 1
  <2>1. \A i \in 0 .. p - 1 : Borrow(o, z)[i] = 0
    <3>1. \A i \in 0 + 1 .. p - 1 : o[i] >= z[i]
      <4>1. \A i \in 0 + 1 .. p - 1 : i \in Places /\ i \in 1 .. p - 1
        BY <1>3, WordLenType DEF Places
      <4>2. \A i \in 0 + 1 .. p - 1 : o[i] = 0 /\ z[i] = 0
        BY <1>1, <4>1
      <4> QED BY <4>2
    <3>2. Borrow(o, z)[0] = 0 /\ 0 \in 0 .. WordLen /\ p - 1 \in 0 .. WordLen
      BY <1>1, <1>3, BorrowDef, WordLenType
    <3> QED BY <1>1, <3>1, <3>2, NothingLent
  <2>2. Borrow(o, z)[p] = 1
    <3>1. p - 1 \in Nat /\ p - 1 < WordLen /\ (p - 1) + 1 = p
      BY <1>3, WordLenType
    <3>2. Borrow(o, z)[p - 1] = 0 /\ o[p] < z[p]
      BY <1>1, <1>3, <2>1
    <3> QED BY <1>1, <3>1, <3>2, BorrowStep
  <2>3. \A i \in p + 1 .. WordLen : o[i] <= z[i]
    BY <1>1, <1>3, WordLenType, SMTT(30) DEF Places
  <2>4. p \in 0 .. WordLen /\ WordLen \in p .. WordLen
    BY <1>3, WordLenType
  <2> QED BY <1>1, <2>1, <2>2, <2>3, <2>4, StillLent
<1>5. n \in U64 /\ \A i \in Places : n[i] = IF i < p THEN 0 ELSE IF i = p THEN 128 ELSE 255 - z[i]
  <2>1. n \in U64
    BY <1>1, WordTypes, Zenon
  <2>2. ASSUME NEW i \in Places PROVE n[i] = IF i < p THEN 0 ELSE IF i = p THEN 128 ELSE 255 - z[i]
    <3> DEFINE c == Borrow(o, z)[i - 1]
    <3>1. n[i] = IF o[i] >= z[i] + c THEN o[i] - z[i] - c ELSE o[i] - z[i] - c + 256
      BY <1>1, MinusByte
    <3>2. c = IF i <= p THEN 0 ELSE 1
      BY <1>3, <1>4, WordLenType
    <3>3. o[i] = 0 /\ z[i] \in 0 .. 255 /\ (i < p => z[i] = 0) /\ (i = p => z[i] = 128)
      BY <1>1, <1>3
    <3> HIDE DEF n, c
    <3>4. CASE i < p
      <4>1. c = 0
        BY <1>3, <3>2, <3>4 DEF Places
      <4> QED BY <3>1, <3>3, <3>4, <4>1, SMTT(30)
    <3>5. CASE i = p
      <4>1. c = 0 /\ ~(i < p)
        BY <1>3, <3>2, <3>5 DEF Places
      <4> QED BY <3>1, <3>3, <3>5, <4>1, SMTT(30)
    <3>6. CASE ~(i < p) /\ i # p
      <4>1. c = 1
        BY <1>3, <3>2, <3>6 DEF Places
      <4> QED BY <3>1, <3>3, <3>6, <4>1, SMTT(30)
    <3> QED BY <3>4, <3>5, <3>6, Zenon
  <2> QED BY <2>1, <2>2
<1> HIDE DEF n
<1>6. f \in U64 /\ \A i \in Places : f[i] = IF i = p THEN 128 ELSE 0
  <2>1. f \in U64 /\ \A i \in Places : f[i] = AndByte(z[i], n[i])
    BY <1>5, WordTypes
  <2>2. ASSUME NEW i \in Places PROVE AndByte(z[i], n[i]) = IF i = p THEN 128 ELSE 0
    <3>1. z[i] \in Octet
      BY DEF U64
    <3>2. CASE i < p
      BY <1>3, <1>5, <3>1, <3>2, AndMask
    <3>3. CASE i = p
      BY <1>3, <1>5, <3>3, AndMask DEF Octet
    <3>4. CASE i > p
      BY <1>3, <1>5, <3>1, <3>4, AndComplement
    <3> QED BY <1>3, <3>2, <3>3, <3>4
  <2> HIDE DEF f
  <2> QED BY <2>1, <2>2
<1> HIDE DEF f
<1>7. \A i \in 0 .. WordLen : Borrow(f, one)[i] = IF i \in 1 .. p - 1 THEN 1 ELSE 0
  <2>1. Borrow(f, one)[0] = 0
    BY <1>2, <1>6, BorrowDef
  <2>2. p > 1 => \A i \in 1 .. p - 1 : Borrow(f, one)[i] = 1
    <3> SUFFICES ASSUME p > 1 PROVE \A i \in 1 .. p - 1 : Borrow(f, one)[i] = 1
      OBVIOUS
    <3>1. 1 \in Places /\ f[1] = 0 /\ one[1] = 1 /\ 0 + 1 = 1 /\ 0 \in Nat /\ 0 < WordLen
      BY <1>2, <1>3, <1>6, WordLenType DEF Places
    <3>2. Borrow(f, one)[1] = 1
      BY <1>2, <1>6, <2>1, <3>1, BorrowStep
    <3>3. \A i \in 1 + 1 .. p - 1 : f[i] <= one[i]
      <4>1. \A i \in 1 + 1 .. p - 1 : i \in Places /\ i # p /\ i # 1
        BY <1>3, WordLenType DEF Places
      <4>2. \A i \in 1 + 1 .. p - 1 : f[i] = 0 /\ one[i] = 0
        BY <1>2, <1>6, <4>1
      <4> QED BY <4>2
    <3>4. 1 \in 0 .. WordLen /\ p - 1 \in 1 .. WordLen
      BY <1>3, WordLenType
    <3> QED BY <1>2, <1>6, <3>2, <3>3, <3>4, StillLent
  <2>3. Borrow(f, one)[p] = 0
    <3>1. p - 1 \in Nat /\ p - 1 < WordLen /\ (p - 1) + 1 = p
      BY <1>3, WordLenType
    <3>2. f[p] = 128 /\ one[p] \in {0, 1}
      BY <1>2, <1>6
    <3>3. Borrow(f, one)[p - 1] \in {0, 1}
      BY <1>2, <1>6, <3>1, BorrowDef, WordLenType
    <3>4. f[p] >= one[p] /\ f[p] > one[p]
      BY <3>2
    <3> QED BY <1>2, <1>6, <3>1, <3>3, <3>4, BorrowStep
  <2>4. \A i \in p .. WordLen : Borrow(f, one)[i] = 0
    <3>1. \A i \in p + 1 .. WordLen : f[i] >= one[i]
      BY <1>2, <1>3, <1>6, WordLenType DEF Places
    <3>2. p \in 0 .. WordLen /\ WordLen \in p .. WordLen
      BY <1>3, WordLenType
    <3> QED BY <1>2, <1>6, <2>3, <3>1, <3>2, NothingLent
  <2> QED BY <1>3, <2>1, <2>2, <2>4, WordLenType
<1>8. BelowFirst(z) = Minus(f, one)
  BY DEF BelowFirst, f, n, o, one
<1>9. ASSUME NEW i \in Places
      PROVE  BelowFirst(z)[i] = IF i < p THEN 255 ELSE IF i = p THEN 127 ELSE 0
  <2> DEFINE c == Borrow(f, one)[i - 1]
  <2>1. BelowFirst(z)[i] = IF f[i] >= one[i] + c THEN f[i] - one[i] - c ELSE f[i] - one[i] - c + 256
    BY <1>2, <1>6, <1>8, MinusByte
  <2>2. c = IF i - 1 \in 1 .. p - 1 THEN 1 ELSE 0
    BY <1>3, <1>7, WordLenType
  <2>3. f[i] = (IF i = p THEN 128 ELSE 0) /\ one[i] = IF i = 1 THEN 1 ELSE 0
    BY <1>2, <1>6
  <2> HIDE DEF c
  <2> QED BY <1>3, <2>1, <2>2, <2>3
<1>10. BelowFirst(z) \in U64
  BY <1>2, <1>6, <1>8, WordTypes
<1> QED BY <1>9, <1>10

\* The zero test: a word has a zero byte exactly if Zeros has a bit set.
LEMMA ZeroTest ==
    ASSUME NEW w \in U64
    PROVE  (Zeros(w) = Splat(0)) <=> (zero_index(w) = WordLen)
<1> DEFINE k == zero_index(w)
<1>1. FirstZero(w, k)
  BY ZeroIndexFirst
<1> HIDE DEF k
<1>2. /\ Zeros(w) \in U64 /\ \A i \in 1 .. k : Zeros(w)[i] = 0
      /\ k < WordLen => Zeros(w)[k + 1] = 128
  BY <1>1, ZerosBytes
<1>3. Splat(0) \in U64 /\ \A i \in Places : Splat(0)[i] = 0
  BY SplatType DEF Octet
<1>4. ASSUME k = WordLen PROVE Zeros(w) = Splat(0)
  <2>1. \A i \in Places : Zeros(w)[i] = Splat(0)[i]
    BY <1>2, <1>3, <1>4 DEF Places
  <2> QED BY <1>2, <1>3, <2>1 DEF U64
<1>5. ASSUME k # WordLen PROVE Zeros(w) # Splat(0)
  <2>1. k + 1 \in Places /\ Zeros(w)[k + 1] = 128
    BY <1>1, <1>2, <1>5, WordLenType DEF FirstZero, Places
  <2> QED BY <1>3, <2>1
<1> QED BY <1>4, <1>5 DEF k

\* What the parser folds for the word with the root label: the bytes before it,
\* lowered, and zeros.
LEMMA LastWordBytes ==
    ASSUME NEW w \in U64, zero_index(w) # WordLen
    PROVE  lower_word(w) & BelowFirst(Zeros(w)) =
              [i \in Places |-> IF i <= zero_index(w) THEN Lower(w[i]) ELSE 0]
<1> DEFINE k == zero_index(w)
<1> DEFINE b == BelowFirst(Zeros(w))
<1>1. FirstZero(w, k)
  BY ZeroIndexFirst
<1> HIDE DEF k
<1>2. /\ k \in Nat /\ k + 1 \in Places /\ (k + 1) - 1 = k /\ k < WordLen
      /\ \A i \in Places : i \in Nat
  BY <1>1, WordLenType DEF FirstZero, Places, k
<1>3. /\ Zeros(w) \in U64 /\ \A i \in 1 .. (k + 1) - 1 : Zeros(w)[i] = 0
      /\ Zeros(w)[k + 1] = 128
  BY <1>1, <1>2, ZerosBytes
<1>4. b \in U64 /\ \A i \in Places : b[i] = IF i < k + 1 THEN 255 ELSE IF i = k + 1 THEN 127 ELSE 0
  BY <1>2, <1>3, BelowFirstBytes
<1>5. lower_word(w) \in U64 /\ \A i \in Places : lower_word(w)[i] = Lower(w[i])
  BY LowerWordBytes
<1> HIDE DEF b
<1>6. ASSUME NEW i \in Places
      PROVE  AndByte(lower_word(w)[i], b[i]) = IF i <= k THEN Lower(w[i]) ELSE 0
  <2>1. lower_word(w)[i] \in Octet
    BY <1>5 DEF U64
  <2>2. CASE i <= k
    <3>1. b[i] = 255
      BY <1>2, <1>4, <2>2
    <3> QED BY <1>5, <2>1, <2>2, <3>1, AndMask
  <2>3. CASE i = k + 1
    <3>1. w[i] = 0 /\ Lower(w[i]) = 0 /\ b[i] = 127
      BY <1>1, <1>2, <1>4, <2>3 DEF FirstZero, Lower
    <3>2. AndByte(0, 127) = 0
      BY AndMask DEF Octet
    <3> QED BY <1>2, <1>5, <2>3, <3>1, <3>2
  <2>4. CASE i > k + 1
    <3>1. b[i] = 0
      BY <1>2, <1>4, <2>4
    <3> QED BY <1>2, <2>1, <2>4, <3>1, AndMask
  <2> QED BY <1>2, <2>2, <2>3, <2>4
<1>7. lower_word(w) & b = [i \in Places |-> IF i <= k THEN Lower(w[i]) ELSE 0]
  <2>1. lower_word(w) & b = [i \in Places |-> AndByte(lower_word(w)[i], b[i])]
    BY DEF &
  <2> QED BY <1>6, <2>1
<1> QED BY <1>7 DEF k, b

-----------------------------------------------------------------------------
(* Names *)

Lowered(s, t) == Len(t) = Len(s) /\ \A j \in 1 .. Len(s) : t[j] = Lower(s[j])

\* Lowering commutes with concatenation.
LEMMA LoweredConcat ==
    ASSUME NEW a \in Seq(Octet), NEW b \in Seq(Octet), NEW c \in Seq(Octet), NEW d \in Seq(Octet),
           Lowered(a, b), Lowered(c, d)
    PROVE  Lowered(a \o c, b \o d)
<1>1. /\ Len(a) \in Nat /\ Len(c) \in Nat /\ Len(b) = Len(a) /\ Len(d) = Len(c)
      /\ Len(a \o c) = Len(a) + Len(c) /\ Len(b \o d) = Len(a) + Len(c)
  <2>1. Len(a) \in Nat /\ Len(c) \in Nat
    BY LenProperties, Zenon
  <2>2. Len(b) = Len(a) /\ Len(d) = Len(c)
    BY Zenon DEF Lowered
  <2>3. Len(a \o c) = Len(a) + Len(c) /\ Len(b \o d) = Len(b) + Len(d)
    BY ConcatProperties, Zenon
  <2> QED BY <2>1, <2>2, <2>3, Zenon
<1>2. ASSUME NEW j \in 1 .. Len(a) + Len(c) PROVE (b \o d)[j] = Lower((a \o c)[j])
  <2>1. /\ (a \o c)[j] = IF j <= Len(a) THEN a[j] ELSE c[j - Len(a)]
        /\ (b \o d)[j] = IF j <= Len(a) THEN b[j] ELSE d[j - Len(a)]
    BY <1>1, ConcatProperties
  <2>2. IF j <= Len(a) THEN j \in 1 .. Len(a) ELSE j - Len(a) \in 1 .. Len(c)
    BY <1>1
  <2> QED BY <2>1, <2>2, Zenon DEF Lowered
<1> QED BY <1>1, <1>2, Zenon DEF Lowered

\* A function on 1..n is a sequence of n elements.
LEMMA SeqOfFunction ==
    ASSUME NEW S, NEW n \in Nat, NEW f \in [1 .. n -> S]
    PROVE  f \in Seq(S) /\ Len(f) = n
<1>1. f \in Seq(S)
  OBVIOUS
<1>2. DOMAIN f = 1 .. Len(f) /\ Len(f) \in Nat /\ DOMAIN f = 1 .. n
  BY <1>1, LenProperties
<1> QED BY <1>1, <1>2

\* Lowering keeps to the bytes but zero, and leaves a label's length and the root label.
LEMMA LowerByte ==
    /\ \A v \in 1 .. 255 : Lower(v) \in 1 .. 255
    /\ \A v \in 0 .. 63 : Lower(v) = v
BY DEF Lower

\* A sequence of one byte.
LEMMA OneByte ==
    ASSUME NEW v \in 0 .. 63
    PROVE  /\ Len(<<v>>) = 1 /\ <<v>>[1] = v /\ <<v>> \in Seq(Octet)
           /\ v # 0 => <<v>> \in Seq(1 .. 255)
           /\ Lowered(<<v>>, <<v>>)
<1> DEFINE s == <<v>>
<1>1. Len(s) = 1 /\ s[1] = v
  OBVIOUS
<1>2. s \in Seq(Octet)
  BY DEF Octet
<1>3. v # 0 => s \in Seq(1 .. 255)
  OBVIOUS
<1> HIDE DEF s
<1>4. Lower(s[1]) = s[1]
  BY <1>1, LowerByte, ZenonT(60)
<1>5. \A j \in 1 .. 1 : j = 1
  OBVIOUS
<1>6. Lowered(s, s)
  BY <1>1, <1>4, <1>5, Zenon DEF Lowered
<1> QED BY <1>1, <1>2, <1>3, <1>6 DEF s

\* A label's bytes with its length before them: none is zero.
LEMMA LabelBytes ==
    ASSUME NEW l \in Label
    PROVE  /\ l \in Seq(1 .. 255) /\ Len(l) \in 0 .. 63 /\ Len(l) # 0 /\ DOMAIN l = 1 .. Len(l)
           /\ \A j \in 1 .. Len(l) : l[j] \in 1 .. 255
           /\ <<Len(l)>> \in Seq(1 .. 255) /\ <<Len(l)>> \o l \in Seq(1 .. 255)
<1>1. l \in Seq(1 .. 255) /\ Len(l) \in 1 .. 63
  BY Zenon DEF Label
<1>2. \A x \in 1 .. 63 : x \in 0 .. 63 /\ x # 0
  OBVIOUS
<1>3. Len(l) \in 0 .. 63 /\ Len(l) # 0
  BY <1>1, <1>2, Zenon
<1>4. <<Len(l)>> \in Seq(1 .. 255)
  BY <1>3, OneByte, Zenon
<1>5. \A j \in 1 .. Len(l) : l[j] \in 1 .. 255
  BY <1>1, ElementOfSeq, Zenon
<1>6. DOMAIN l = 1 .. Len(l)
  BY <1>1, LenProperties, Zenon
<1>7. <<Len(l)>> \o l \in Seq(1 .. 255)
  BY <1>1, <1>4, ConcatProperties, Zenon
<1> QED BY <1>1, <1>3, <1>4, <1>5, <1>6, <1>7, Zenon

\* make_cache_key's label is the packet's lowered.
LEMMA LoweredLabel ==
    ASSUME NEW l \in Label, NEW m, m = [j \in DOMAIN l |-> Lower(l[j])]
    PROVE  m \in Label /\ Lowered(l, m)
<1> DEFINE c == Len(l)
<1>1. c \in 0 .. 63 /\ c # 0 /\ DOMAIN l = 1 .. c /\ \A j \in 1 .. c : l[j] \in 1 .. 255
  BY LabelBytes, Zenon
<1> HIDE DEF c
<1>2. \A j \in 1 .. c : Lower(l[j]) \in 1 .. 255
  BY <1>1, LowerByte, ZenonT(60)
<1>3. m \in [1 .. c -> 1 .. 255] /\ \A j \in 1 .. c : m[j] = Lower(l[j])
  BY <1>1, <1>2, Zenon
<1>4. c \in Nat /\ c \in 1 .. 63
  BY <1>1
<1>5. m \in Seq(1 .. 255) /\ Len(m) = c
  BY ONLY <1>3, <1>4, SeqOfFunction
<1> QED BY <1>3, <1>4, <1>5, Zenon DEF Label, Lowered, c

\* The labels on the wire, one after the other.
LEMMA WireDef ==
    ASSUME NEW n \in Seq(Label)
    PROVE  \E f \in [0 .. Len(n) -> Seq(1 .. 255)] :
              /\ f[0] = <<>>
              /\ \A i \in 1 .. Len(n) : f[i] = f[i - 1] \o (<<Len(n[i])>> \o n[i])
              /\ Wire(n) = f[Len(n)] \o <<0>>
<1> DEFINE c == Len(n)
<1> DEFINE V == Seq(1 .. 255)
<1> DEFINE part == [i \in 1 .. c |-> <<Len(n[i])>> \o n[i]]
<1> DEFINE step == [i \in 1 .. c |-> [v \in V |-> v \o part[i]]]
<1> DEFINE Body(f) == [i \in 0 .. c |-> IF i = 0 THEN <<>> ELSE f[i - 1] \o (<<Len(n[i])>> \o n[i])]
<1>1. c \in Nat /\ \A i \in 1 .. c : n[i] \in Label
  BY LenProperties, ElementOfSeq
<1> HIDE DEF c
<1>2. \A i \in 1 .. c : part[i] \in V
  BY <1>1, LabelBytes, Zenon
<1>3. \E f \in [0 .. c -> V] : Solves(f, c, <<>>, step)
  <2> HIDE DEF part
  <2>1. \A i \in 1 .. c : \A v \in V : v \o part[i] \in V
    BY <1>2, ConcatProperties, Zenon
  <2>2. step \in [1 .. c -> [V -> V]]
    BY <2>1, Zenon
  <2>3. <<>> \in V
    OBVIOUS
  <2> HIDE DEF step, V
  <2> QED BY <1>1, <2>2, <2>3, Recursion, Zenon
<1>4. PICK f \in [0 .. c -> V] : Solves(f, c, <<>>, step)
  BY <1>3, Zenon
<1> HIDE DEF V
<1>5. f[0] = <<>> /\ \A i \in 1 .. c : f[i] = f[i - 1] \o part[i]
  <2>1. \A i \in 1 .. c : i \in 0 .. c /\ i - 1 \in 0 .. c
    BY <1>1
  <2>2. \A i \in 1 .. c : f[i] = step[i][f[i - 1]] /\ f[i - 1] \in V
    BY <1>4, <2>1, Zenon DEF Solves
  <2> HIDE DEF part
  <2> QED BY <1>4, <2>2, Zenon DEF Solves
<1>6. f = Body(f)
  <2>1. \A i \in 0 .. c : i = 0 \/ i \in 1 .. c
    BY <1>1
  <2>2. \A i \in 0 .. c : f[i] = IF i = 0 THEN <<>> ELSE f[i - 1] \o (<<Len(n[i])>> \o n[i])
    BY <1>5, <2>1, Zenon
  <2>3. f = [i \in 0 .. c |-> f[i]]
    BY <1>4, Zenon
  <2> QED BY <2>2, <2>3, Zenon
<1> HIDE DEF step
<1> DEFINE h == CHOOSE x : x = Body(x)
<1>7. Wire(n) = h[c] \o <<0>>
  BY Zenon DEF Wire, c
<1>8. h = Body(h)
  <2> HIDE DEF Body
  <2> QED BY <1>6, Zenon
<1> HIDE DEF h
<1>9. h[0] = <<>> /\ \A i \in 1 .. c : h[i] = h[i - 1] \o (<<Len(n[i])>> \o n[i])
  <2>1. 0 \in 0 .. c /\ \A i \in 1 .. c : i # 0 /\ i \in 0 .. c
    BY <1>1
  <2>2. \A i \in 0 .. c : Body(h)[i] = IF i = 0 THEN <<>> ELSE h[i - 1] \o (<<Len(n[i])>> \o n[i])
    BY Zenon
  <2> HIDE DEF Body
  <2> QED BY <1>8, <2>1, <2>2, Zenon
<1> DEFINE T == {m \in Nat : m \in 0 .. c => h[m] \in V}
<1>10. ASSUME NEW m \in Nat, m \in T PROVE m + 1 \in T
  <2> SUFFICES ASSUME m + 1 \in 0 .. c PROVE h[m + 1] \in V
    OBVIOUS
  <2>1. m \in 0 .. c /\ m + 1 \in 1 .. c /\ (m + 1) - 1 = m
    BY <1>1
  <2>2. h[m] \in V
    BY <1>10, <2>1, Zenon
  <2>3. h[m + 1] = h[m] \o part[m + 1]
    BY <1>9, <2>1, Zenon
  <2> HIDE DEF part
  <2>4. part[m + 1] \in V
    BY <1>2, <2>1, Zenon
  <2>5. \A x, y \in V : x \o y \in V
    BY ONLY ConcatProperties, ZenonT(60) DEF V
  <2> QED BY <2>2, <2>3, <2>4, <2>5, Zenon
<1>11. Nat \subseteq T
  <2>1. <<>> \in V
    BY DEF V
  <2>2. 0 \in T
    BY <1>9, <2>1
  <2> HIDE DEF T
  <2> QED BY <1>10, <2>2, SetInduction
<1>12. h \in [0 .. c -> V]
  <2>1. \A i \in 0 .. c : i \in Nat
    BY <1>1
  <2>2. \A i \in 0 .. c : h[i] \in V
    BY <1>11, <2>1, Zenon
  <2>3. Body(h) = [i \in 0 .. c |-> Body(h)[i]]
    BY Zenon
  <2> HIDE DEF Body
  <2> QED BY <1>8, <2>2, <2>3, Zenon
<1> QED BY <1>7, <1>9, <1>12, Zenon DEF c, V

\* On the wire a name has one zero byte, its last, and make_cache_key hashes those bytes
\* lowered: a label is too short for its length byte to be a letter.
LEMMA WireBytes ==
    ASSUME NEW n \in Seq(Label)
    PROVE  /\ Wire(n) \in Seq(Octet) /\ Bytes(n) \in Seq(Octet)
           /\ Len(Wire(n)) \in Nat /\ Len(Wire(n)) >= 1
           /\ Lowered(Wire(n), Bytes(n))
           /\ \A i \in 1 .. Len(Wire(n)) : Wire(n)[i] = 0 <=> i = Len(Wire(n))
<1> DEFINE c == Len(n)
<1> DEFINE V == Seq(1 .. 255)
<1> DEFINE m == [i \in DOMAIN n |-> [j \in DOMAIN n[i] |-> Lower(n[i][j])]]
<1>1. c \in Nat /\ DOMAIN n = 1 .. c /\ \A i \in 1 .. c : n[i] \in Label
  BY LenProperties, ElementOfSeq
<1> HIDE DEF c
<1>2. \A i \in 1 .. c : m[i] \in Label /\ Lowered(n[i], m[i])
  BY <1>1, LoweredLabel, Zenon
<1>3. m \in Seq(Label) /\ Len(m) = c
  <2>1. m = [i \in 1 .. c |-> m[i]]
    BY <1>1, Zenon
  <2> HIDE DEF m
  <2>2. m \in [1 .. c -> Label]
    BY <1>2, <2>1, Zenon
  <2> QED BY ONLY <1>1, <2>2, SeqOfFunction
<1>4. Bytes(n) = Wire(m)
  BY Zenon DEF Bytes
<1> HIDE DEF m
<1>5. PICK f \in [0 .. c -> V] :
        /\ f[0] = <<>>
        /\ \A i \in 1 .. c : f[i] = f[i - 1] \o (<<Len(n[i])>> \o n[i])
        /\ Wire(n) = f[c] \o <<0>>
  BY WireDef, Zenon DEF c
<1>6. PICK g \in [0 .. c -> V] :
        /\ g[0] = <<>>
        /\ \A i \in 1 .. c : g[i] = g[i - 1] \o (<<Len(m[i])>> \o m[i])
        /\ Wire(m) = g[c] \o <<0>>
  BY <1>3, WireDef, Zenon
<1>7. V \subseteq Seq(Octet)
  BY SMTT(30) DEF Octet
<1> HIDE DEF V
<1>8. \A i \in 1 .. c : /\ <<Len(n[i])>> \o n[i] \in Seq(Octet) /\ <<Len(m[i])>> \o m[i] \in Seq(Octet)
                        /\ Lowered(<<Len(n[i])>> \o n[i], <<Len(m[i])>> \o m[i])
  <2> TAKE i \in 1 .. c
  <2> DEFINE l == n[i]
  <2> DEFINE k == m[i]
  <2>1. l \in Label /\ k \in Label /\ Lowered(l, k)
    BY <1>1, <1>2, Zenon
  <2> HIDE DEF l, k
  <2>2. /\ l \in V /\ k \in V /\ <<Len(l)>> \in V /\ <<Len(l)>> \o l \in V /\ <<Len(k)>> \o k \in V
        /\ Len(l) \in 0 .. 63 /\ Len(k) = Len(l)
    BY <2>1, LabelBytes, ZenonT(60) DEF Lowered, V
  <2>3. Lowered(<<Len(l)>>, <<Len(l)>>)
    BY <2>2, OneByte, Zenon
  <2>4. l \in Seq(Octet) /\ k \in Seq(Octet) /\ <<Len(l)>> \in Seq(Octet)
    BY <1>7, <2>2, Zenon
  <2>5. Lowered(<<Len(l)>> \o l, <<Len(l)>> \o k)
    BY <2>1, <2>3, <2>4, LoweredConcat, Zenon
  <2> QED BY <1>7, <2>2, <2>5, Zenon DEF l, k
<1> DEFINE T == {i \in Nat : i \in 0 .. c => Lowered(f[i], g[i])}
<1>9. ASSUME NEW i \in Nat, i \in T PROVE i + 1 \in T
  <2> SUFFICES ASSUME i + 1 \in 0 .. c PROVE Lowered(f[i + 1], g[i + 1])
    OBVIOUS
  <2>1. i \in 0 .. c /\ i + 1 \in 1 .. c /\ (i + 1) - 1 = i
    BY <1>1
  <2>2. Lowered(f[i], g[i]) /\ f[i] \in Seq(Octet) /\ g[i] \in Seq(Octet)
    BY <1>5, <1>6, <1>7, <1>9, <2>1, Zenon
  <2> DEFINE p == <<Len(n[i + 1])>> \o n[i + 1]
  <2> DEFINE r == <<Len(m[i + 1])>> \o m[i + 1]
  <2>3. f[i + 1] = f[i] \o p /\ g[i + 1] = g[i] \o r
    BY <1>5, <1>6, <2>1, Zenon
  <2>4. p \in Seq(Octet) /\ r \in Seq(Octet) /\ Lowered(p, r)
    BY <1>8, <2>1, Zenon
  <2> HIDE DEF p, r
  <2> QED BY <2>2, <2>3, <2>4, LoweredConcat, Zenon
<1>10. Nat \subseteq T
  <2>1. Len(<<>>) = 0 /\ \A j \in 1 .. 0 : <<>>[j] = Lower(<<>>[j])
    OBVIOUS
  <2>2. 0 \in T
    BY <1>5, <1>6, <2>1, Zenon DEF Lowered
  <2> HIDE DEF T
  <2> QED BY <1>9, <2>2, SetInduction
<1> DEFINE a == f[c]
<1> DEFINE b == g[c]
<1>11. a \in V /\ b \in V /\ Lowered(a, b)
  <2>1. c \in 0 .. c
    BY <1>1
  <2> QED BY <1>1, <1>5, <1>6, <1>10, <2>1, Zenon
<1>12. Wire(n) = a \o <<0>> /\ Bytes(n) = b \o <<0>>
  BY <1>4, <1>5, <1>6, Zenon
<1> HIDE DEF a, b
<1>13. a \in Seq(Octet) /\ b \in Seq(Octet)
  BY <1>7, <1>11, Zenon
<1>14. <<0>> \in Seq(Octet) /\ Len(<<0>>) = 1 /\ <<0>>[1] = 0 /\ Lowered(<<0>>, <<0>>)
  <2>1. 0 \in 0 .. 63
    OBVIOUS
  <2> QED BY <2>1, OneByte, Zenon
<1>15. a \o <<0>> \in Seq(Octet) /\ b \o <<0>> \in Seq(Octet) /\ Lowered(a \o <<0>>, b \o <<0>>)
  BY <1>11, <1>13, <1>14, LoweredConcat, ConcatProperties, Zenon
<1>16. Len(a) \in Nat /\ Len(a \o <<0>>) = Len(a) + 1
  BY <1>13, <1>14, LenProperties, ConcatProperties, Zenon
<1>17. \A i \in 1 .. Len(a) + 1 : (a \o <<0>>)[i] = 0 <=> i = Len(a) + 1
  <2> DEFINE e == a \o <<0>>
  <2>1. \A i \in 1 .. Len(a) + 1 : e[i] = IF i <= Len(a) THEN a[i] ELSE <<0>>[i - Len(a)]
    BY <1>13, <1>14, ConcatProperties, Zenon
  <2>2. \A i \in 1 .. Len(a) : a[i] \in 1 .. 255
    BY <1>11, ElementOfSeq, Zenon DEF V
  <2>3. \A x \in 1 .. 255 : x # 0
    OBVIOUS
  <2>4. /\ \A i \in 1 .. Len(a) + 1 : i \in 1 .. Len(a) \/ i = Len(a) + 1
        /\ \A i \in 1 .. Len(a) : i # Len(a) + 1 /\ i <= Len(a)
        /\ ~(Len(a) + 1 <= Len(a)) /\ (Len(a) + 1) - Len(a) = 1
    BY <1>16
  <2> HIDE DEF e
  <2>5. ASSUME NEW i \in 1 .. Len(a) PROVE e[i] # 0 /\ i # Len(a) + 1
    <3>1. i \in 1 .. Len(a) + 1 /\ i <= Len(a)
      BY <1>16
    <3> QED BY <2>1, <2>2, <2>3, <2>4, <3>1, Zenon
  <2>6. e[Len(a) + 1] = 0
    <3>1. Len(a) + 1 \in 1 .. Len(a) + 1
      BY <1>16
    <3>2. e[Len(a) + 1] = <<0>>[(Len(a) + 1) - Len(a)]
      BY <2>1, <2>4, <3>1, Zenon
    <3> QED BY <1>14, <2>4, <3>2, Zenon
  <2>7. \A i \in 1 .. Len(a) + 1 : e[i] = 0 <=> i = Len(a) + 1
    BY <2>4, <2>5, <2>6, Zenon
  <2> QED BY <2>7 DEF e
<1>18. Len(a) + 1 \in Nat /\ Len(a) + 1 >= 1
  BY <1>16
<1> QED BY <1>12, <1>15, <1>16, <1>17, <1>18, Zenon

-----------------------------------------------------------------------------
(* The parser's invariant *)

Limit == Len(Wire(name))

\* The i-th word of the key.
KeyWord(n, i) ==
    [j \in Places |-> LET k == (i - 1) * WordLen + j IN IF k <= Len(Wire(n)) THEN Lower(Wire(n)[k]) ELSE 0]

\* The packet is the question as far as it goes.
Framed ==
    /\ name \in Seq(Label) /\ frame \in Seq(Octet)
    /\ \A i \in 1 .. Len(frame) : i <= Limit => frame[i] = Wire(name)[i]
    /\ Intact(name) => SubSeq(frame, Limit + 1, Limit + FieldsLen) = TypeAndClass

\* In words the parser is before the root label; in the tail less than a word is left,
\* and its bytes are in the partial word; at the type the root label is in the last word.
Progress ==
    /\ status = "scan" => pos = Len(hash) * WordLen /\ pos < Limit /\ partial = <<>>
    /\ status = "tail" => /\ pos = Len(hash) * WordLen + Len(partial) /\ pos < Limit
                          /\ Len(frame) < Len(hash) * WordLen + WordLen
                          /\ \A j \in 1 .. Len(partial) : partial[j] = Lower(frame[Len(hash) * WordLen + j])
    /\ status \in {"type", "some"} =>
            /\ pos = Limit /\ Limit <= MaxName
            /\ Len(hash) * WordLen < Limit + WordLen /\ Limit <= Len(hash) * WordLen
    /\ status = "some" => Intact(name)
    /\ status = "none" => ~Intact(name) \/ Limit > MaxName

ParserInv ==
    /\ status \in {"scan", "tail", "type", "none", "some"}
    /\ pos \in Nat /\ pos <= Len(frame) /\ hash \in Seq(U64) /\ partial \in Seq(Octet)
    /\ Framed
    /\ \A k \in 1 .. Len(hash) : hash[k] = KeyWord(name, k)
    /\ Progress

\* One word more.
LEMMA NextWord ==
    ASSUME NEW h \in Nat
    PROVE  h * WordLen \in Nat /\ (h + 1) * WordLen = h * WordLen + WordLen /\ (h + 1) - 1 = h
BY WordLenType

\* How many words n bytes take.
LEMMA WordCount ==
    ASSUME NEW h \in Nat, NEW n \in Nat, h * WordLen < n + WordLen, n <= h * WordLen
    PROVE  (n + WordLen - 1) \div WordLen = h
<1> DEFINE a == n + WordLen - 1
<1> DEFINE q == a \div WordLen
<1>1. a \in Nat /\ h * WordLen <= a /\ a < h * WordLen + WordLen
  BY WordLenType
<1> HIDE DEF a
<1>2. q \in Nat /\ q * WordLen <= a /\ a < q * WordLen + WordLen
  BY <1>1, WordLenType
<1> HIDE DEF q
<1>3. ~(q < h)
  BY <1>1, <1>2, WordLenType
<1>4. ~(h < q)
  BY <1>1, <1>2, WordLenType
<1> QED BY <1>2, <1>3, <1>4 DEF q, a

\* A word from bytes, and one of zeros and lowered bytes.
LEMMA FromBytesWord ==
    ASSUME NEW s \in Seq(Octet)
    PROVE  /\ FromBytes(s) \in U64
           /\ \A i \in Places : FromBytes(s)[i] = IF i <= Len(s) THEN s[i] ELSE 0
<1>1. \A i \in Places : (IF i <= Len(s) THEN s[i] ELSE 0) \in Octet
  <2>1. 0 \in Octet /\ \A i \in 1 .. Len(s) : s[i] \in Octet
    BY ElementOfSeq DEF Octet
  <2>2. \A i \in Places : i <= Len(s) => i \in 1 .. Len(s)
    BY LenProperties, WordLenType DEF Places
  <2> QED BY <2>1, <2>2
<1> QED BY <1>1 DEF FromBytes, U64

\* Lowering keeps to bytes.
LEMMA LowerOctet == \A v \in Octet : Lower(v) \in Octet
BY DEF Lower, Octet

\* What make_cache_key hashes, word by word.
LEMMA KeyWords ==
    ASSUME NEW n \in Seq(Label), NEW h \in Nat,
           h * WordLen < Len(Wire(n)) + WordLen, Len(Wire(n)) <= h * WordLen
    PROVE  CacheKey(n) = [i \in 1 .. h |-> KeyWord(n, i)]
<1> DEFINE s == Bytes(n)
<1> DEFINE w == Wire(n)
<1>1. /\ s \in Seq(Octet) /\ Len(w) \in Nat /\ Len(s) = Len(w)
      /\ \A j \in 1 .. Len(w) : s[j] = Lower(w[j])
  BY WireBytes DEF Lowered
<1>2. (Len(s) + WordLen - 1) \div WordLen = h
  BY <1>1, WordCount
<1> HIDE DEF s, w
<1> DEFINE At(i, j) == LET k == (i - 1) * WordLen + j IN IF k <= Len(s) THEN s[k] ELSE 0
<1>3. ASSUME NEW i \in 1 .. h
      PROVE  FromBytes([j \in 1 .. WordLen |-> At(i, j)]) = KeyWord(n, i)
  <2> DEFINE c == (i - 1) * WordLen
  <2>1. c \in Nat
    <3>1. \A x \in 1 .. h : x - 1 \in Nat
      OBVIOUS
    <3> QED BY <3>1, NextWord, Zenon
  <2> HIDE DEF c
  <2> DEFINE u == [j \in 1 .. WordLen |-> IF c + j <= Len(s) THEN s[c + j] ELSE 0]
  <2>2. ASSUME NEW j \in 1 .. WordLen
        PROVE  /\ (IF c + j <= Len(s) THEN s[c + j] ELSE 0) \in Octet
               /\ (IF c + j <= Len(s) THEN s[c + j] ELSE 0)
                    = (IF c + j <= Len(w) THEN Lower(w[c + j]) ELSE 0)
    <3>1. 0 \in Octet
      BY DEF Octet
    <3>2. CASE c + j <= Len(w)
      <4>1. c + j \in 1 .. Len(w)
        BY <1>1, <2>1, <3>2, WordLenType
      <4>2. s[c + j] \in Octet
        BY <1>1, <4>1, ElementOfSeq
      <4> QED BY <1>1, <3>2, <4>1, <4>2
    <3>3. CASE ~(c + j <= Len(w))
      BY <1>1, <3>1, <3>3
    <3> QED BY <3>2, <3>3
  <2>3. u \in [1 .. WordLen -> Octet]
    BY <2>2
  <2>4. u \in Seq(Octet) /\ Len(u) = WordLen
    <3> HIDE DEF u
    <3> QED BY <2>3, WordLenType, SeqOfFunction
  <2>5. FromBytes(u) = [j \in Places |-> IF c + j <= Len(w) THEN Lower(w[c + j]) ELSE 0]
    <3>1. \A j \in Places : j \in 1 .. WordLen /\ j <= Len(u)
      BY <2>4, WordLenType DEF Places
    <3>2. \A j \in Places : (IF j <= Len(u) THEN u[j] ELSE 0)
                                = IF c + j <= Len(w) THEN Lower(w[c + j]) ELSE 0
      BY <2>2, <3>1, Zenon
    <3> HIDE DEF u
    <3> QED BY <3>2, Zenon DEF FromBytes
  <2>6. KeyWord(n, i) = [j \in Places |-> IF c + j <= Len(w) THEN Lower(w[c + j]) ELSE 0]
    BY Zenon DEF KeyWord, c, w
  <2> QED BY <2>5, <2>6, Zenon DEF c
<1>4. CacheKey(n) = [i \in 1 .. h |-> FromBytes([j \in 1 .. WordLen |-> At(i, j)])]
  BY <1>2, Zenon DEF CacheKey, Words, s
<1> HIDE DEF At
<1> QED BY <1>3, <1>4, Zenon

\* The c elements of a sequence after the a-th.
LEMMA Slice ==
    ASSUME NEW S, NEW s \in Seq(S), NEW a \in Nat, NEW c \in Nat, a + c <= Len(s)
    PROVE  /\ SubSeq(s, a + 1, a + c) \in Seq(S) /\ Len(SubSeq(s, a + 1, a + c)) = c
           /\ \A i \in 1 .. c : SubSeq(s, a + 1, a + c)[i] = s[a + i]
<1>1. Len(s) \in Nat
  BY LenProperties
<1>2. /\ a + 1 \in 1 .. Len(s) + 1 /\ a + c \in (a + 1) - 1 .. Len(s) /\ (a + c) - (a + 1) + 1 = c
      /\ \A i \in 1 .. c : (a + 1) + i - 1 = a + i
  BY <1>1
<1>3. \A i \in a + 1 .. a + c : s[i] \in S
  BY <1>1, ElementOfSeq
<1>4. Len(SubSeq(s, a + 1, a + c)) = c /\ \A i \in 1 .. c : SubSeq(s, a + 1, a + c)[i] = s[a + i]
  BY <1>1, <1>2, <1>3
<1>5. SubSeq(s, a + 1, a + c) \in Seq(S)
  BY <1>1, <1>2, SubSeqProperties
<1> QED BY <1>4, <1>5, Zenon

\* The word the parser reads.
LEMMA WordBytes ==
    ASSUME frame \in Seq(Octet), pos \in Nat, BlockFits
    PROVE  Word \in U64 /\ \A i \in Places : pos + i \in 1 .. Len(frame) /\ Word[i] = frame[pos + i]
<1> DEFINE s == SubSeq(frame, pos + 1, pos + WordLen)
<1>1. Len(frame) \in Nat /\ pos + WordLen <= Len(frame)
  BY LenProperties, WordLenType DEF BlockFits
<1>2. \A i \in Places : i \in 1 .. WordLen /\ pos + i \in 1 .. Len(frame) /\ pos + 1 + i - 1 = pos + i
  BY <1>1, WordLenType DEF Places
<1>3. s \in Seq(Octet) /\ Len(s) = WordLen /\ \A i \in 1 .. WordLen : s[i] = frame[pos + i]
  BY <1>1, WordLenType, Slice
<1> HIDE DEF s
<1>4. Word = FromBytes(s)
  BY DEF Word, s
<1>5. \A i \in Places : FromBytes(s)[i] = s[i]
  BY <1>2, <1>3, FromBytesWord
<1> QED BY <1>2, <1>3, <1>4, <1>5, FromBytesWord

\* A packet starts with the question's bytes, and a whole one has QTYPE and QCLASS next.
LEMMA InitFramed ==
    ASSUME NEW n \in Seq(Label), NEW f \in Frames(n)
    PROVE  /\ f \in Seq(Octet) /\ Len(f) \in Nat
           /\ \A i \in 1 .. Len(f) : i <= Len(Wire(n)) => f[i] = Wire(n)[i]
           /\ Len(f) >= Len(Wire(n)) + FieldsLen =>
                SubSeq(f, Len(Wire(n)) + 1, Len(Wire(n)) + FieldsLen) = TypeAndClass
<1> DEFINE w == Wire(n)
<1> DEFINE q == w \o TypeAndClass
<1> DEFINE L == Len(w)
<1>1. /\ w \in Seq(Octet) /\ L \in Nat /\ TypeAndClass \in Seq(Octet) /\ FieldsLen \in Nat
      /\ Len(TypeAndClass) = FieldsLen
  BY WireBytes, QuestionAssumption, LenProperties DEF FieldsLen
<1>2. f \in {q \o t : t \in Trailers} \cup {SubSeq(q, 1, k) : k \in 0 .. Len(q) - 1}
  BY SMTT(30) DEF Frames
<1> HIDE DEF w
<1>3. /\ q \in Seq(Octet) /\ Len(q) = L + FieldsLen
      /\ \A i \in 1 .. L + FieldsLen : q[i] = IF i <= L THEN w[i] ELSE TypeAndClass[i - L]
  BY <1>1, ConcatProperties, Zenon
<1> HIDE DEF q, L
<1>4. ASSUME NEW t \in Trailers, f = q \o t
      PROVE  /\ f \in Seq(Octet) /\ Len(f) \in Nat
             /\ \A i \in 1 .. Len(f) : i <= L => f[i] = w[i]
             /\ SubSeq(f, L + 1, L + FieldsLen) = TypeAndClass
  <2>1. t \in Seq(Octet) /\ Len(t) \in Nat
    BY QuestionAssumption, LenProperties
  <2>2. f \in Seq(Octet) /\ Len(f) = L + FieldsLen + Len(t)
        /\ \A i \in 1 .. L + FieldsLen + Len(t) : f[i] = IF i <= L + FieldsLen THEN q[i] ELSE t[i - (L + FieldsLen)]
    <3>1. /\ q \o t \in Seq(Octet) /\ Len(q \o t) = Len(q) + Len(t)
          /\ \A i \in 1 .. Len(q) + Len(t) : (q \o t)[i] = IF i <= Len(q) THEN q[i] ELSE t[i - Len(q)]
      BY <1>3, <2>1, ConcatProperties, Zenon
    <3> QED BY <1>3, <1>4, <3>1, Zenon
  <2>3. L + FieldsLen <= Len(f) /\ Len(f) \in Nat
    BY <1>1, <2>1, <2>2
  <2>4. \A i \in 1 .. L + FieldsLen : f[i] = q[i]
    <3>1. \A i \in 1 .. L + FieldsLen : i \in 1 .. L + FieldsLen + Len(t) /\ i <= L + FieldsLen
      BY <1>1, <2>1
    <3> QED BY <2>2, <3>1, Zenon
  <2>5. \A i \in 1 .. Len(f) : i <= L => f[i] = w[i]
    <3>1. \A i \in 1 .. Len(f) : i <= L => i \in 1 .. L + FieldsLen
      BY <1>1, <2>3
    <3> QED BY <1>3, <2>4, <3>1, Zenon
  <2> DEFINE z == SubSeq(f, L + 1, L + FieldsLen)
  <2>6. z \in Seq(Octet) /\ Len(z) = FieldsLen /\ \A i \in 1 .. FieldsLen : z[i] = f[L + i]
    <3>1. f \in Seq(Octet) /\ L \in Nat /\ FieldsLen \in Nat /\ L + FieldsLen <= Len(f)
      BY <1>1, <2>2, <2>3
    <3> QED BY <3>1, Slice, Zenon
  <2> HIDE DEF z
  <2>7. \A i \in 1 .. FieldsLen : z[i] = TypeAndClass[i]
    <3>1. \A i \in 1 .. FieldsLen : L + i \in 1 .. L + FieldsLen /\ ~(L + i <= L) /\ (L + i) - L = i
      BY <1>1
    <3> QED BY <1>3, <2>4, <2>6, <3>1, ZenonT(60)
  <2>8. z = TypeAndClass
    BY <1>1, <2>6, <2>7, SeqEqual
  <2> QED BY <2>2, <2>3, <2>5, <2>8 DEF z
<1>5. ASSUME NEW k \in 0 .. Len(q) - 1, f = SubSeq(q, 1, k)
      PROVE  /\ f \in Seq(Octet) /\ Len(f) \in Nat
             /\ \A i \in 1 .. Len(f) : i <= L => f[i] = w[i]
             /\ ~(Len(f) >= L + FieldsLen)
  <2>1. k \in Nat /\ k < L + FieldsLen /\ 0 + k <= Len(q) /\ 0 + k = k /\ 0 + 1 = 1
    BY <1>1, <1>3
  <2>2. SubSeq(q, 0 + 1, 0 + k) \in Seq(Octet) /\ Len(SubSeq(q, 0 + 1, 0 + k)) = k
        /\ \A i \in 1 .. k : SubSeq(q, 0 + 1, 0 + k)[i] = q[0 + i]
    BY <1>3, <2>1, Slice
  <2>3. f \in Seq(Octet) /\ Len(f) = k /\ \A i \in 1 .. k : f[i] = q[0 + i]
    BY <1>5, <2>1, <2>2, Zenon
  <2>4. \A i \in 1 .. k : 0 + i = i /\ i \in 1 .. L + FieldsLen
    BY <1>1, <2>1
  <2>5. \A i \in 1 .. k : i <= L => f[i] = w[i]
    BY <1>3, <2>3, <2>4, Zenon
  <2> QED BY <1>1, <2>1, <2>3, <2>5
<1>6. (\E t \in Trailers : f = q \o t) \/ (\E k \in 0 .. Len(q) - 1 : f = SubSeq(q, 1, k))
  BY <1>2
<1> QED BY <1>4, <1>5, <1>6, Zenon DEF w, L

\* The parser starts before the first word.
LEMMA ParserInit == Init => ParserInv
<1> SUFFICES ASSUME Init PROVE ParserInv
  OBVIOUS
<1>1. name \in Seq(Label) /\ frame \in Frames(name)
  BY QuestionAssumption DEF Init
<1>2. Framed /\ Len(frame) \in Nat
  BY <1>1, InitFramed DEF Framed, Limit, Intact
<1>3. /\ status = "scan" /\ pos = 0 /\ hash = <<>> /\ partial = <<>>
      /\ Len(hash) = 0 /\ hash \in Seq(U64) /\ partial \in Seq(Octet)
  BY EmptySeq DEF Init
<1>4. pos \in Nat /\ pos <= Len(frame) /\ \A k \in 1 .. Len(hash) : hash[k] = KeyWord(name, k)
  BY <1>2, <1>3
<1>5. Progress
  <2>1. pos = Len(hash) * WordLen /\ pos < Limit
    BY <1>1, <1>3, WireBytes, WordLenType DEF Limit
  <2> QED BY <1>3, <2>1 DEF Progress
<1> QED BY <1>2, <1>3, <1>4, <1>5 DEF ParserInv

\* Giving up or going on without consuming anything.
LEMMA GiveKeeps ==
    ASSUME ParserInv, NEW s \in {"scan", "tail", "type", "none", "some"}, Give(s), Progress'
    PROVE  ParserInv'
BY DEF ParserInv, Give, Framed, Limit, Intact, KeyWord

\* The names the proofs of the steps use for what ParserInv says.
LEMMA ParserFacts ==
    ASSUME ParserInv
    PROVE  /\ name \in Seq(Label) /\ frame \in Seq(Octet) /\ Len(frame) \in Nat
           /\ pos \in Nat /\ Limit \in Nat /\ Limit >= 1 /\ hash \in Seq(U64) /\ Len(hash) \in Nat
           /\ partial \in Seq(Octet) /\ Len(partial) \in Nat
           /\ MaxName \in Nat /\ FieldsLen \in Nat /\ FieldsLen >= 1
           /\ Len(hash) * WordLen \in Nat
           /\ Intact(name) <=> Len(frame) >= Limit + FieldsLen
           /\ \A i \in 1 .. Len(frame) : i <= Limit => frame[i] = Wire(name)[i]
           /\ \A i \in 1 .. Limit : Wire(name)[i] = 0 <=> i = Limit
           /\ Wire(name) \in Seq(Octet)
<1>1. name \in Seq(Label) /\ frame \in Seq(Octet) /\ hash \in Seq(U64) /\ partial \in Seq(Octet) /\ pos \in Nat
      /\ \A i \in 1 .. Len(frame) : i <= Limit => frame[i] = Wire(name)[i]
  BY DEF ParserInv, Framed
<1>2. Len(frame) \in Nat /\ Len(hash) \in Nat /\ Len(partial) \in Nat /\ Len(hash) * WordLen \in Nat
  BY <1>1, LenProperties, WordLenType
<1>3. Wire(name) \in Seq(Octet) /\ Limit \in Nat /\ Limit >= 1 /\ \A i \in 1 .. Limit : Wire(name)[i] = 0 <=> i = Limit
  BY <1>1, WireBytes DEF Limit
<1>4. MaxName \in Nat /\ FieldsLen \in Nat /\ FieldsLen >= 1
  BY QuestionAssumption, LenProperties DEF FieldsLen
<1>5. Intact(name) <=> Len(frame) >= Limit + FieldsLen
  BY DEF Intact, Limit
<1> QED BY <1>1, <1>2, <1>3, <1>4, <1>5

\* What the parser sees of the root label in the next word: it is the first zero byte of
\* the word, or after the word.
LEMMA RootLabel ==
    ASSUME ParserInv, status = "scan", BlockFits
    PROVE  /\ Word \in U64
           /\ Zeros(Word) = Splat(0) => pos + WordLen < Limit
           /\ Zeros(Word) # Splat(0) => /\ zero_index(Word) # WordLen
                                        /\ pos + zero_index(Word) + 1 = Limit
           /\ \A i \in Places : pos + i <= Limit => Word[i] = Wire(name)[pos + i]
<1> DEFINE k == zero_index(Word)
<1>1. /\ name \in Seq(Label) /\ frame \in Seq(Octet) /\ Len(frame) \in Nat /\ pos \in Nat /\ Limit \in Nat
      /\ \A i \in 1 .. Len(frame) : i <= Limit => frame[i] = Wire(name)[i]
      /\ \A i \in 1 .. Limit : Wire(name)[i] = 0 <=> i = Limit
  BY ParserFacts
<1>2. Word \in U64 /\ \A i \in Places : pos + i \in 1 .. Len(frame) /\ Word[i] = frame[pos + i]
  BY <1>1, WordBytes
<1>3. pos < Limit
  BY DEF ParserInv, Progress
<1>4. FirstZero(Word, k) /\ k \in 0 .. WordLen
  BY <1>2, ZeroIndexFirst DEF FirstZero
<1>5. (Zeros(Word) = Splat(0)) <=> k = WordLen
  BY <1>2, ZeroTest
<1>6. \A i \in Places : pos + i <= Limit => Word[i] = Wire(name)[pos + i]
  BY <1>1, <1>2
<1>7. \A i \in Places : pos + i <= Limit => (Word[i] = 0 <=> pos + i = Limit)
  <2>1. \A i \in Places : pos + i <= Limit => pos + i \in 1 .. Limit
    BY <1>1, WordLenType DEF Places
  <2> QED BY <1>1, <1>6, <2>1, Zenon
<1> HIDE DEF k
<1>8. (k < WordLen => k + 1 \in Places /\ Word[k + 1] = 0) /\ \A j \in Places : j <= k => Word[j] # 0
  BY <1>4, WordLenType DEF FirstZero, Places
<1>9. ASSUME k = WordLen PROVE pos + WordLen < Limit
  <2>1. SUFFICES ASSUME Limit <= pos + WordLen PROVE FALSE
    BY <1>1, WordLenType
  <2>2. Limit - pos \in Places /\ Limit - pos <= k /\ pos + (Limit - pos) = Limit
    BY <1>1, <1>3, <1>9, <2>1, WordLenType DEF Places
  <2>3. pos + (Limit - pos) <= Limit
    BY <1>1, <2>2
  <2> QED BY <1>7, <1>8, <2>2, <2>3, Zenon
<1>10. ASSUME k # WordLen PROVE pos + k + 1 = Limit
  <2>1. k \in Nat /\ k < WordLen /\ k + 1 \in Places /\ Word[k + 1] = 0
    BY <1>4, <1>8, <1>10, WordLenType
  <2>2. CASE pos + (k + 1) <= Limit
    <3>1. pos + (k + 1) = Limit
      BY <1>7, <2>1, <2>2
    <3> QED BY <1>1, <2>1, <3>1
  <2>3. CASE ~(pos + (k + 1) <= Limit)
    <3>1. Limit - pos \in Places /\ Limit - pos <= k /\ pos + (Limit - pos) = Limit /\ pos + (Limit - pos) <= Limit
      BY <1>1, <1>3, <2>1, <2>3, WordLenType DEF Places
    <3> QED BY <1>7, <1>8, <3>1, Zenon
  <2> QED BY <2>2, <2>3
<1> QED BY <1>2, <1>5, <1>6, <1>9, <1>10 DEF k

\* Folding the next word of the key.
LEMMA FoldWord ==
    ASSUME ParserInv, NEW w \in U64, w = KeyWord(name, Len(hash) + 1), hash' = Append(hash, w)
    PROVE  /\ hash' \in Seq(U64) /\ Len(hash') = Len(hash) + 1
           /\ \A k \in 1 .. Len(hash') : hash'[k] = KeyWord(name, k)
           /\ Len(hash') * WordLen = Len(hash) * WordLen + WordLen
<1>1. hash \in Seq(U64) /\ Len(hash) \in Nat
  BY ParserFacts
<1>2. hash' \in Seq(U64) /\ Len(hash') = Len(hash) + 1 /\ hash'[Len(hash) + 1] = w
      /\ \A k \in 1 .. Len(hash) : hash'[k] = hash[k]
  BY <1>1
<1>3. \A k \in 1 .. Len(hash) : hash[k] = KeyWord(name, k)
  BY DEF ParserInv
<1>4. \A k \in 1 .. Len(hash) + 1 : k \in 1 .. Len(hash) \/ k = Len(hash) + 1
  BY <1>1
<1>5. \A k \in 1 .. Len(hash) + 1 : hash'[k] = KeyWord(name, k)
  BY <1>2, <1>3, <1>4, Zenon
<1>6. Len(hash') * WordLen = Len(hash) * WordLen + WordLen
  BY <1>1, <1>2, NextWord
<1> QED BY <1>2, <1>5, <1>6

\* The next word of the key, from where the parser is.
LEMMA KeyWordHere ==
    ASSUME ParserInv, NEW w, NEW at, at = Len(hash) * WordLen,
           w = [j \in Places |-> IF at + j <= Limit THEN Lower(Wire(name)[at + j]) ELSE 0]
    PROVE  w = KeyWord(name, Len(hash) + 1) /\ w \in U64
<1>1. /\ Len(hash) \in Nat /\ Wire(name) \in Seq(Octet) /\ Limit \in Nat /\ at \in Nat
      /\ (Len(hash) + 1) - 1 = Len(hash)
  BY ParserFacts
<1>2. w = KeyWord(name, Len(hash) + 1)
  BY <1>1, Zenon DEF KeyWord, Limit
<1>3. ASSUME NEW j \in Places
      PROVE  (IF at + j <= Limit THEN Lower(Wire(name)[at + j]) ELSE 0) \in Octet
  <2>1. 0 \in Octet
    BY DEF Octet
  <2>2. ASSUME at + j <= Limit PROVE Lower(Wire(name)[at + j]) \in Octet
    <3>1. at + j \in 1 .. Limit
      BY <1>1, <2>2, WordLenType DEF Places
    <3>2. Wire(name)[at + j] \in Octet
      BY <1>1, <3>1, ElementOfSeq DEF Limit
    <3> QED BY <3>2, LowerOctet
  <2> QED BY <2>1, <2>2, Zenon
<1>4. w \in U64
  BY <1>3, Zenon DEF U64
<1> QED BY <1>2, <1>4

\* The word path goes on.
LEMMA WholeWordStep == ParserInv /\ WholeWord => ParserInv'
<1> SUFFICES ASSUME ParserInv, WholeWord PROVE ParserInv'
  OBVIOUS
<1> USE WordLenType
<1>1. /\ Len(frame) \in Nat /\ pos \in Nat /\ Limit \in Nat /\ Len(hash) \in Nat
  BY ParserFacts
<1>2. /\ status = "scan" /\ BlockFits /\ Zeros(Word) = Splat(0)
      /\ hash' = Append(hash, lower_word(Word)) /\ pos' = pos + WordLen
      /\ name' = name /\ frame' = frame /\ partial' = partial /\ status' = status
  BY DEF WholeWord
<1>3. pos = Len(hash) * WordLen /\ partial = <<>>
  BY <1>2 DEF ParserInv, Progress
<1>4. Word \in U64 /\ pos + WordLen < Limit /\ \A i \in Places : pos + i <= Limit => Word[i] = Wire(name)[pos + i]
  BY <1>2, RootLabel
<1>5. lower_word(Word) \in U64 /\ \A i \in Places : lower_word(Word)[i] = Lower(Word[i])
  BY <1>4, LowerWordBytes
<1> DEFINE w == lower_word(Word)
<1>6. w = [j \in Places |-> IF pos + j <= Limit THEN Lower(Wire(name)[pos + j]) ELSE 0]
  <2>1. \A j \in Places : pos + j <= Limit
    BY <1>1, <1>4 DEF Places
  <2>2. \A j \in Places : w[j] = IF pos + j <= Limit THEN Lower(Wire(name)[pos + j]) ELSE 0
    BY <1>4, <1>5, <2>1, Zenon
  <2>3. w = [j \in Places |-> w[j]]
    BY <1>5 DEF U64
  <2> HIDE DEF w
  <2> QED BY <2>2, <2>3, Zenon
<1> HIDE DEF w
<1>7. w = KeyWord(name, Len(hash) + 1) /\ w \in U64
  BY <1>3, <1>6, KeyWordHere
<1>8. /\ hash' \in Seq(U64) /\ Len(hash') = Len(hash) + 1
      /\ \A k \in 1 .. Len(hash') : hash'[k] = KeyWord(name, k)
      /\ Len(hash') * WordLen = Len(hash) * WordLen + WordLen
  BY <1>2, <1>7, FoldWord DEF w
<1>9. pos' \in Nat /\ pos' <= Len(frame)
  BY <1>1, <1>2 DEF BlockFits
<1>10. Progress'
  BY <1>2, <1>3, <1>4, <1>8 DEF Progress, Limit
<1> QED BY <1>2, <1>8, <1>9, <1>10 DEF ParserInv, Framed, Limit, Intact, KeyWord

\* The word path meets the root label.
LEMMA LastWordStep == ParserInv /\ LastWord => ParserInv'
<1> SUFFICES ASSUME ParserInv, LastWord PROVE ParserInv'
  OBVIOUS
<1> USE WordLenType
<1> DEFINE k == zero_index(Word)
<1>1. /\ Len(frame) \in Nat /\ pos \in Nat /\ Limit \in Nat /\ Len(hash) \in Nat /\ MaxName \in Nat
  BY ParserFacts
<1>2. status = "scan" /\ BlockFits /\ Zeros(Word) # Splat(0)
  BY DEF LastWord
<1>3. pos = Len(hash) * WordLen /\ pos < Limit
  BY <1>2 DEF ParserInv, Progress
<1>4. /\ Word \in U64 /\ k # WordLen /\ pos + k + 1 = Limit
      /\ \A i \in Places : pos + i <= Limit => Word[i] = Wire(name)[pos + i]
  BY <1>2, RootLabel
<1>5. k \in 0 .. WordLen /\ Word[k + 1] = 0
  BY <1>4, ZeroIndexFirst DEF FirstZero
<1>6. CASE pos + (k + 1) > MaxName
  <2>1. Give("none")
    BY <1>6 DEF LastWord
  <2>2. Limit > MaxName
    BY <1>1, <1>4, <1>5, <1>6
  <2>3. Progress'
    BY <2>1, <2>2 DEF Give, Progress, Limit
  <2> QED BY <2>1, <2>3, GiveKeeps
<1>7. CASE ~(pos + (k + 1) > MaxName)
  <2> DEFINE w == lower_word(Word) & BelowFirst(Zeros(Word))
  <2>1. /\ hash' = Append(hash, w) /\ pos' = pos + (k + 1) /\ status' = "type"
        /\ name' = name /\ frame' = frame /\ partial' = partial
    BY <1>7 DEF LastWord
  <2>2. w = [i \in Places |-> IF i <= k THEN Lower(Word[i]) ELSE 0]
    BY <1>4, LastWordBytes
  <2> HIDE DEF w, k
  <2>3. ASSUME NEW j \in Places
        PROVE (IF j <= k THEN Lower(Word[j]) ELSE 0) = IF pos + j <= Limit THEN Lower(Wire(name)[pos + j]) ELSE 0
    <3>1. CASE j <= k
      <4>1. pos + j <= Limit
        BY <1>1, <1>4, <1>5, <3>1 DEF Places
      <4> QED BY <1>4, <3>1, <4>1
    <3>2. CASE j = k + 1
      <4>1. pos + j <= Limit /\ ~(j <= k)
        BY <1>1, <1>4, <1>5, <3>2 DEF Places
      <4>2. Wire(name)[pos + j] = 0
        BY <1>4, <1>5, <3>2, <4>1
      <4>3. Lower(0) = 0
        <5>1. 0 \in 0 .. 63
          OBVIOUS
        <5> QED BY <5>1, LowerByte, ZenonT(60)
      <4> QED BY <4>1, <4>2, <4>3
    <3>3. CASE j > k + 1
      <4>1. ~(pos + j <= Limit) /\ ~(j <= k)
        BY <1>1, <1>4, <1>5, <3>3 DEF Places
      <4> QED BY <4>1
    <3> QED BY <1>5, <3>1, <3>2, <3>3 DEF Places
  <2>4. w = [j \in Places |-> IF pos + j <= Limit THEN Lower(Wire(name)[pos + j]) ELSE 0]
    BY <2>2, <2>3, Zenon
  <2>5. w = KeyWord(name, Len(hash) + 1) /\ w \in U64
    BY <1>3, <2>4, KeyWordHere
  <2>6. /\ hash' \in Seq(U64) /\ Len(hash') = Len(hash) + 1
        /\ \A i \in 1 .. Len(hash') : hash'[i] = KeyWord(name, i)
        /\ Len(hash') * WordLen = Len(hash) * WordLen + WordLen
    BY <2>1, <2>5, FoldWord
  <2>7. pos' = Limit /\ pos' \in Nat /\ pos' <= Len(frame) /\ Limit <= MaxName /\ Limit <= pos + WordLen
    BY <1>1, <1>2, <1>4, <1>5, <1>7, <2>1 DEF BlockFits
  <2>8. Len(hash') * WordLen < Limit + WordLen /\ Limit <= Len(hash') * WordLen
    BY <1>1, <1>3, <2>6, <2>7
  <2>9. Progress'
    BY <2>1, <2>7, <2>8 DEF Progress, Limit
  <2> QED BY <2>1, <2>6, <2>7, <2>9 DEF ParserInv, Framed, Limit, Intact, KeyWord
<1> QED BY <1>6, <1>7

\* The steps that consume nothing.
LEMMA GiveSteps == ParserInv /\ (TooLong \/ EnterTail \/ ReadType) => ParserInv'
<1> SUFFICES ASSUME ParserInv, TooLong \/ EnterTail \/ ReadType PROVE ParserInv'
  OBVIOUS
<1> USE WordLenType
<1>1. /\ Len(frame) \in Nat /\ pos \in Nat /\ Limit \in Nat /\ Len(hash) * WordLen \in Nat /\ MaxName \in Nat
      /\ Intact(name) <=> Len(frame) >= Limit + FieldsLen
  BY ParserFacts
<1>2. CASE TooLong
  <2>1. Give("none") /\ status = "scan" /\ pos >= MaxName
    BY <1>2 DEF TooLong
  <2>2. Limit > MaxName
    BY <1>1, <2>1 DEF ParserInv, Progress
  <2>3. Progress'
    BY <2>1, <2>2 DEF Give, Progress, Limit
  <2> QED BY <2>1, <2>3, GiveKeeps
<1>3. CASE EnterTail
  <2>1. Give("tail") /\ status = "scan" /\ ~BlockFits
    BY <1>3 DEF EnterTail
  <2>2. pos = Len(hash) * WordLen /\ pos < Limit /\ partial = <<>>
    BY <2>1 DEF ParserInv, Progress
  <2>3. Len(partial) = 0 /\ Len(frame) < Len(hash) * WordLen + WordLen
    BY <1>1, <2>1, <2>2 DEF BlockFits
  <2>4. Progress'
    BY <1>1, <2>1, <2>2, <2>3 DEF Give, Progress, Limit
  <2> QED BY <2>1, <2>4, GiveKeeps
<1>4. CASE ReadType
  <2>1. status = "type" /\ Give(IF pos + FieldsLen > Len(frame) THEN "none" ELSE "some")
    BY <1>4 DEF ReadType
  <2>2. /\ pos = Limit /\ Limit <= MaxName
        /\ Len(hash) * WordLen < Limit + WordLen /\ Limit <= Len(hash) * WordLen
    BY <2>1 DEF ParserInv, Progress
  <2>3. FieldsLen \in Nat
    BY ParserFacts
  <2>4. CASE pos + FieldsLen > Len(frame)
    <3>1. Give("none") /\ ~Intact(name)
      BY <1>1, <2>1, <2>2, <2>3, <2>4
    <3>2. Progress'
      BY <3>1 DEF Give, Progress, Limit, Intact
    <3> QED BY <3>1, <3>2, GiveKeeps
  <2>5. CASE ~(pos + FieldsLen > Len(frame))
    <3>1. Give("some") /\ Intact(name)
      BY <1>1, <2>1, <2>2, <2>3, <2>5
    <3>2. Progress'
      BY <2>2, <3>1 DEF Give, Progress, Limit, Intact
    <3> QED BY <3>1, <3>2, GiveKeeps
  <2> QED BY <2>4, <2>5
<1> QED BY <1>2, <1>3, <1>4

\* The tail path takes one byte, the root label or one before it.
LEMMA TailByteStep == ParserInv /\ TailByte => ParserInv'
<1> SUFFICES ASSUME ParserInv, TailByte PROVE ParserInv'
  OBVIOUS
<1> USE WordLenType
<1> DEFINE at == Len(hash) * WordLen
<1> DEFINE byte == frame[pos + 1]
<1> DEFINE word == Append(partial, Lower(byte))
<1>1. /\ frame \in Seq(Octet) /\ Len(frame) \in Nat /\ pos \in Nat /\ Limit \in Nat /\ at \in Nat
      /\ MaxName \in Nat /\ FieldsLen \in Nat /\ FieldsLen >= 1
      /\ partial \in Seq(Octet) /\ Len(partial) \in Nat
      /\ Intact(name) <=> Len(frame) >= Limit + FieldsLen
      /\ \A i \in 1 .. Len(frame) : i <= Limit => frame[i] = Wire(name)[i]
      /\ \A i \in 1 .. Limit : Wire(name)[i] = 0 <=> i = Limit
  BY ParserFacts
<1>2. /\ status = "tail" /\ pos <= Len(frame) /\ pos = at + Len(partial) /\ pos < Limit /\ Len(frame) < at + WordLen
      /\ \A j \in 1 .. Len(partial) : partial[j] = Lower(frame[at + j])
  BY DEF TailByte, ParserInv, Progress
<1>3. Len(partial) # WordLen /\ Len(partial) < WordLen
  BY <1>1, <1>2
<1>4. CASE Len(partial) = WordLen \/ pos >= MaxName \/ pos + 2 > Len(frame)
  <2>1. Give("none")
    BY <1>4 DEF TailByte
  <2>2. ~Intact(name) \/ Limit > MaxName
    BY <1>1, <1>2, <1>3, <1>4
  <2>3. Progress'
    BY <2>1, <2>2 DEF Give, Progress, Limit, Intact
  <2> QED BY <2>1, <2>3, GiveKeeps
<1>5. CASE ~(Len(partial) = WordLen \/ pos >= MaxName \/ pos + 2 > Len(frame))
  <2>1. /\ pos' = pos + 1 /\ partial' = word /\ name' = name /\ frame' = frame
        /\ byte = 0 => status' = "type" /\ hash' = Append(hash, FromBytes(word))
        /\ byte # 0 => status' = status /\ hash' = hash
    BY <1>5 DEF TailByte
  <2>2. pos + 1 \in 1 .. Len(frame) /\ pos + 1 \in 1 .. Limit /\ pos + 1 <= Limit /\ pos + 1 <= MaxName
    BY <1>1, <1>2, <1>5
  <2>3. byte \in Octet /\ byte = Wire(name)[pos + 1] /\ (byte = 0 <=> pos + 1 = Limit)
    BY <1>1, <2>2, ElementOfSeq
  <2>4. Lower(byte) \in Octet
    BY <2>3, LowerOctet
  <2>5. pos + 1 = at + (Len(partial) + 1) /\ pos' \in Nat /\ pos' <= Len(frame)
    BY <1>1, <1>2, <2>1, <2>2
  <2> HIDE DEF at
  <2>6. word \in Seq(Octet) /\ Len(word) = Len(partial) + 1 /\ \A j \in 1 .. Len(partial) + 1 : word[j] = Lower(frame[at + j])
    <3>1. /\ word \in Seq(Octet) /\ Len(word) = Len(partial) + 1 /\ word[Len(partial) + 1] = Lower(byte)
          /\ \A j \in 1 .. Len(partial) : word[j] = partial[j]
      BY <1>1, <2>4
    <3>2. \A j \in 1 .. Len(partial) + 1 : j \in 1 .. Len(partial) \/ j = Len(partial) + 1
      BY <1>1
    <3> HIDE DEF word
    <3>3. \A j \in 1 .. Len(partial) + 1 : word[j] = Lower(frame[at + j])
      BY <1>2, <2>5, <3>1, <3>2, Zenon
    <3> QED BY <3>1, <3>3
  <2> HIDE DEF word, byte
  <2>7. CASE byte # 0
    <3>1. pos' < Limit
      BY <1>1, <2>1, <2>2, <2>3, <2>7, SMTT(30)
    <3>2. /\ pos' = at + Len(partial') /\ status' = "tail" /\ hash' = hash
          /\ \A j \in 1 .. Len(partial') : partial'[j] = Lower(frame'[at + j])
      BY <1>2, <2>1, <2>5, <2>6, <2>7
    <3>3. Progress'
      BY <1>2, <2>1, <3>1, <3>2, SMTT(30) DEF Progress, Limit, at
    <3> QED BY <2>1, <2>5, <2>6, <3>2, <3>3 DEF ParserInv, Framed, Limit, Intact, KeyWord
  <2>8. CASE byte = 0
    <3> DEFINE w == FromBytes(word)
    <3>1. Limit = at + Len(word) /\ pos' = Limit /\ Limit <= MaxName /\ Limit < at + WordLen /\ at < Limit
      BY <1>1, <1>2, <2>1, <2>2, <2>3, <2>5, <2>6, <2>8, SMTT(30)
    <3>2. ASSUME NEW j \in Places
          PROVE  w[j] = IF at + j <= Limit THEN Lower(Wire(name)[at + j]) ELSE 0
      <4>1. w[j] = IF j <= Len(word) THEN word[j] ELSE 0
        BY <2>6, FromBytesWord
      <4>2. j <= Len(word) <=> at + j <= Limit
        BY <1>1, <2>6, <3>1 DEF Places
      <4>3. j <= Len(word) => /\ j \in 1 .. Len(partial) + 1 /\ at + j \in 1 .. Len(frame) /\ at + j <= Limit
        BY <1>1, <2>1, <2>5, <2>6, <3>1 DEF Places
      <4>4. j <= Len(word) => word[j] = Lower(Wire(name)[at + j])
        BY <1>1, <2>6, <4>3
      <4> HIDE DEF w
      <4> QED BY <4>1, <4>2, <4>4, Zenon
    <3>3. w = [j \in Places |-> IF at + j <= Limit THEN Lower(Wire(name)[at + j]) ELSE 0]
      <4>1. w = [j \in Places |-> w[j]]
        BY <2>6, FromBytesWord DEF U64
      <4> HIDE DEF w
      <4> QED BY <3>2, <4>1, Zenon
    <3> HIDE DEF w
    <3>4. w = KeyWord(name, Len(hash) + 1) /\ w \in U64
      BY <3>3, KeyWordHere DEF at
    <3>5. /\ hash' \in Seq(U64) /\ Len(hash') = Len(hash) + 1
          /\ \A i \in 1 .. Len(hash') : hash'[i] = KeyWord(name, i)
          /\ Len(hash') * WordLen = Len(hash) * WordLen + WordLen
      BY <2>1, <2>8, <3>4, FoldWord DEF w
    <3>6. Len(hash') * WordLen < Limit + WordLen /\ Limit <= Len(hash') * WordLen
      BY <1>1, <3>1, <3>5 DEF at
    <3>7. Progress'
      BY <2>1, <2>8, <3>1, <3>6 DEF Progress, Limit
    <3> QED BY <2>1, <2>5, <2>6, <2>8, <3>5, <3>7, SMTT(30) DEF ParserInv, Framed, Limit, Intact, KeyWord
  <2> QED BY <2>7, <2>8
<1> QED BY <1>4, <1>5

\* Every step of the parser keeps its invariant.
LEMMA ParserStep == ParserInv /\ [Next]_vars => ParserInv'
<1>1. ParserInv /\ UNCHANGED vars => ParserInv'
  BY DEF vars, ParserInv, Framed, Progress, Limit, Intact, KeyWord
<1> QED BY <1>1, GiveSteps, WholeWordStep, LastWordStep, TailByteStep, SMTT(30) DEF Next

\* The invariant gives the key: all its words are folded, no more and no fewer.
LEMMA ParserKey == ParserInv => KernelKeyIsUserspaceKey
<1> SUFFICES ASSUME ParserInv, status \in {"none", "some"}
             PROVE  IF Intact(name) /\ Limit <= MaxName
                    THEN /\ status = "some" /\ hash = CacheKey(name)
                         /\ Fields = TypeAndClass /\ pos = Limit
                    ELSE status = "none"
  BY DEF KernelKeyIsUserspaceKey, Limit
<1>1. /\ Limit \in Nat /\ MaxName \in Nat /\ name \in Seq(Label) /\ hash \in Seq(U64) /\ Len(hash) \in Nat
  BY ParserFacts
<1>2. CASE status = "none"
  BY <1>1, <1>2 DEF ParserInv, Progress
<1>3. CASE status = "some"
  <2>1. /\ pos = Limit /\ Limit <= MaxName /\ Intact(name)
        /\ Len(hash) * WordLen < Limit + WordLen /\ Limit <= Len(hash) * WordLen
    BY <1>3 DEF ParserInv, Progress
  <2>2. Fields = TypeAndClass
    BY <2>1 DEF Fields, ParserInv, Framed
  <2>3. CacheKey(name) = [i \in 1 .. Len(hash) |-> KeyWord(name, i)]
    BY <1>1, <2>1, KeyWords DEF Limit
  <2>4. \A i \in 1 .. Len(hash) : hash[i] = KeyWord(name, i)
    BY DEF ParserInv
  <2>5. hash = [i \in 1 .. Len(hash) |-> hash[i]]
    BY <1>1, LenProperties
  <2>6. hash = CacheKey(name)
    BY <2>3, <2>4, <2>5, Zenon
  <2> QED BY <1>3, <2>1, <2>2, <2>6
<1> QED BY <1>2, <1>3

\* For every word length, name, limit and frame, parse_dns_question yields the words that
\* make_cache_key hashes, or gives up on a packet without the whole question.
THEOREM ParserYieldsUserspaceKey == Spec => []KernelKeyIsUserspaceKey
BY ParserInit, ParserStep, ParserKey, PTL DEF Spec
=============================================================================
