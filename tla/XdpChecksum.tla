---------------------------- MODULE XdpChecksum ----------------------------
(***************************************************************************)
(* finalize_headers' update of the IPv4 header checksum                    *)
(* (xdp/doggy-dns-xdp-ebpf/src/main.rs): RFC 1624 over the two words it    *)
(* changes, without walking the header.                                    *)
(*                                                                         *)
(* The header is its total length, its fragment word, its checksum and the *)
(* one's complement sum of the other seven words, of which only the        *)
(* addresses change places.                                                *)
(***************************************************************************)
EXTENDS Integers

CONSTANT Word16    \* 2^16

ASSUME ChecksumAssumption == Word16 \in Nat /\ Word16 >= 8

Words16 == 0 .. Word16 - 1

\* !x.
Not16(x) == Word16 - 1 - x

\* The two folds of a sum into 16 bits.
Folded(sum) ==
    LET once == (sum % Word16) + (sum \div Word16)
    IN (once % Word16) + (once \div Word16)

\* What a receiver checks: the header's words sum to all ones.
Valid(rest, totLen, fragOff, check) ==
    Folded(rest + totLen + fragOff + check) = Word16 - 1

\* Mutation: one fold, as if the sum of five words carried at most once.
NewCheckFoldedOnce(check, oldTot, newTot, oldFrag, newFrag) ==
    LET sum == Not16(check) + Not16(oldTot) + newTot + Not16(oldFrag) + newFrag
    IN Not16(((sum % Word16) + (sum \div Word16)) % Word16)

\* RFC 1624 over the two words that change.
NewCheck(check, oldTot, newTot, oldFrag, newFrag) ==
    Not16(Folded(Not16(check) + Not16(oldTot) + newTot + Not16(oldFrag) + newFrag))
=============================================================================
