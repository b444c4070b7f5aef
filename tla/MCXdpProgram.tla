---------------------------- MODULE MCXdpProgram ----------------------------
(***************************************************************************)
(* The finite instance of XdpProgram: words of three bytes, names up to    *)
(* eight and a few past the limit.                                         *)
(***************************************************************************)
EXTENDS XdpProgram

\* Bytes on both sides of 'A' and of 'Z', with and without their high bit.
Alphabets == {{64, 65, 193}, {90, 91, 218}}

\* bound: the longest name a packet carries, past MaxName.
LongestWire == 11

\* Names over the given bytes of at most the given wire length, one more label a round.
NamesOver(bytes, longest) ==
    LET upTo[m \in 0 .. longest \div 2] ==
            IF m = 0 THEN {<<>>}
            ELSE upTo[m - 1] \cup
                 UNION {{Append(n, l) : l \in UNION {[1 .. k -> bytes] : k \in 1 .. longest - Len(Wire(n)) - 1}} :
                        n \in upTo[m - 1]}
    IN upTo[longest \div 2]

\* Of a name past the limit only the length matters: one byte makes up its labels.
MCNames == UNION {NamesOver(A, MaxName) : A \in Alphabets} \cup NamesOver({65}, LongestWire)

MCTypeAndClass == <<1>>

\* Nothing, or the first bytes of an OPT record: its root label and its type.
MCTrailers == {<<>>, <<0>>, <<0, 0, 41>>}
=============================================================================
