------------------------------ MODULE XdpSwar ------------------------------
(***************************************************************************)
(* The word arithmetic of the eBPF parser                                  *)
(* (xdp/doggy-dns-xdp-ebpf/src/main.rs): lower_word, zero_index, and the   *)
(* zero test and mask of parse_dns_question.  Each works on all bytes of a *)
(* word at once, where a borrow may run from one byte into the next.       *)
(*                                                                         *)
(* A word is its bytes, the lowest first, as the wire has them.            *)
(***************************************************************************)
EXTENDS Integers, Sequences

CONSTANT WordLen   \* 8: bytes of a word; three let a borrow run through a byte

Places == 1 .. WordLen
Octet == 0 .. 255
U64 == [Places -> Octet]

\* A byte repeated in every place of a word.
Splat(b) == [i \in Places |-> b]

\* u64::from_le_bytes; the bytes not there are zero.
FromBytes(s) == [i \in Places |-> IF i <= Len(s) THEN s[i] ELSE 0]

-----------------------------------------------------------------------------
(* &, |, !, wrapping subtraction and >> 2 *)

\* The bits two bytes share.
AndByte(a, b) ==
    LET bit(p) == p * ((a \div p) % 2) * ((b \div p) % 2)
    IN bit(1) + bit(2) + bit(4) + bit(8) + bit(16) + bit(32) + bit(64) + bit(128)

x & y == [i \in Places |-> AndByte(x[i], y[i])]
x | y == [i \in Places |-> x[i] + y[i] - AndByte(x[i], y[i])]
Complement(x) == [i \in Places |-> 255 - x[i]]

\* What the byte after the i-th has lent to the i bytes before it.
Borrow(x, y) ==
    LET lent[i \in 0 .. WordLen] ==
            IF i = 0 THEN 0 ELSE IF x[i] < y[i] + lent[i - 1] THEN 1 ELSE 0
    IN lent

Minus(x, y) == LET lent == Borrow(x, y) IN [i \in Places |-> (x[i] - y[i] - lent[i - 1]) % 256]

ShiftRight2(x) ==
    [i \in Places |-> x[i] \div 4 + 64 * (IF i < WordLen THEN x[i + 1] % 4 ELSE 0)]

-----------------------------------------------------------------------------
BYTE_ONES == Splat(1)
BYTE_HIGHS == Splat(128)

AtLeast(w, b) == (Minus(w | BYTE_HIGHS, Splat(b)) & Complement(w)) & BYTE_HIGHS

\* Mutation: the high bits are not set before the subtraction.
LowerWordBorrowing(w) ==
    LET atLeast(b) == (Minus(w, Splat(b)) & Complement(w)) & BYTE_HIGHS
    IN w | ShiftRight2(atLeast(65) & Complement(atLeast(91)))

lower_word(w) == w | ShiftRight2(AtLeast(w, 65) & Complement(AtLeast(w, 91)))

Zeros(w) == (Minus(w, BYTE_ONES) & Complement(w)) & BYTE_HIGHS

\* zeros & zeros.wrapping_neg(), less one: the bits below the lowest one set.
BelowFirst(z) == Minus(z & Minus(Splat(0), z), FromBytes(<<1>>))

\* The bytes before the first zero one; WordLen if there is none.
zero_index(w) ==
    CHOOSE i \in 0 .. WordLen :
        (i < WordLen => w[i + 1] = 0) /\ \A j \in 1 .. i : w[j] # 0
=============================================================================
