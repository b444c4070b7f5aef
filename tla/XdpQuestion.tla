---------------------------- MODULE XdpQuestion ----------------------------
(***************************************************************************)
(* The two builders of a cache key: make_cache_key with fnv1a_64 in        *)
(* userspace (crates/doggy-dns-xdp/src/cache.rs), and parse_dns_question   *)
(* in the eBPF program (xdp/doggy-dns-xdp-ebpf/src/main.rs), which scans   *)
(* the packet a word at a time and its last bytes one by one.  A cached    *)
(* answer is found only if both hash the same words.                       *)
(*                                                                         *)
(* Both fold their words with the same fnv1a_word, so the hash is kept as  *)
(* the sequence of words.  Words have WordLen bytes for 8, names MaxName   *)
(* for 255, and QTYPE and QCLASS together FieldsLen for 4.  XdpSwar has    *)
(* the arithmetic on a word.                                               *)
(***************************************************************************)
EXTENDS XdpSwar

CONSTANTS
    MaxName,        \* MAX_QNAME_LEN
    Names,          \* names a packet asks about, some past MaxName: sequences of labels
    TypeAndClass,   \* the bytes of QTYPE and QCLASS
    Trailers        \* what may follow the question in the frame

FieldsLen == Len(TypeAndClass)

\* The parser takes the first zero byte for the root label: names with one inside a
\* label are left out.
Label == {l \in Seq(1 .. 255) : Len(l) \in 1 .. 63}

ASSUME QuestionAssumption ==
    /\ WordLen \in Nat \ {0, 1} /\ MaxName \in Nat
    /\ TypeAndClass \in Seq(Octet) /\ FieldsLen > 0
    /\ Names \subseteq Seq(Label)
    /\ Trailers \subseteq Seq(Octet)

VARIABLES
    name,      \* the labels of the question's name
    frame,     \* the packet from the question on, to the end of its data
    pos,       \* bytes consumed
    hash,      \* words folded so far
    partial,   \* the tail path's word: its bytes so far
    status     \* "scan", "tail", "type", then "none" or "some"

vars == <<name, frame, pos, hash, partial, status>>

\* A name's bytes on the wire: length-prefixed labels and the root label.
Wire(n) ==
    LET labels[i \in 0 .. Len(n)] ==
            IF i = 0 THEN <<>> ELSE labels[i - 1] \o (<<Len(n[i])>> \o n[i])
    IN labels[Len(n)] \o <<0>>

\* The question and what follows it, or the start of the question.
Frames(n) ==
    LET question == Wire(n) \o TypeAndClass
    IN {question \o t : t \in Trailers}
        \cup {SubSeq(question, 1, k) : k \in 0 .. Len(question) - 1}

Init ==
    /\ name \in Names
    /\ frame \in Frames(name)
    /\ pos = 0
    /\ hash = <<>>
    /\ partial = <<>>
    /\ status = "scan"

-----------------------------------------------------------------------------
(* make_cache_key *)

\* to_ascii_lowercase.
Lower(b) == IF b \in 65 .. 90 THEN b + 32 ELSE b

Bytes(n) == Wire([i \in DOMAIN n |-> [j \in DOMAIN n[i] |-> Lower(n[i][j])]])

\* fnv1a_64: as_chunks, and the tail padded with zeros.
Words(s) ==
    [i \in 1 .. (Len(s) + WordLen - 1) \div WordLen |->
        FromBytes([j \in 1 .. WordLen |->
            LET k == (i - 1) * WordLen + j IN IF k <= Len(s) THEN s[k] ELSE 0])]

CacheKey(n) == Words(Bytes(n))

-----------------------------------------------------------------------------
(* parse_dns_question *)

BlockFits == pos + WordLen <= Len(frame)
Word == FromBytes(SubSeq(frame, pos + 1, pos + WordLen))

Give(s) == status' = s /\ UNCHANGED <<name, frame, pos, hash, partial>>

\* The check at the top of the loop.
TooLong == status = "scan" /\ pos >= MaxName /\ Give("none")

\* A word without a zero byte is folded whole.
WholeWord ==
    /\ status = "scan" /\ pos < MaxName /\ BlockFits
    /\ Zeros(Word) = Splat(0)
    /\ hash' = Append(hash, lower_word(Word))
    /\ pos' = pos + WordLen
    /\ UNCHANGED <<name, frame, partial, status>>

\* The word with the root label: what follows the zero is masked out.
LastWord ==
    LET zeros == Zeros(Word)
        consumed == zero_index(Word) + 1 IN
    /\ status = "scan" /\ pos < MaxName /\ BlockFits
    /\ zeros # Splat(0)
    /\ IF pos + consumed > MaxName
       THEN Give("none")
       ELSE /\ hash' = Append(hash, lower_word(Word) & BelowFirst(zeros))
            /\ pos' = pos + consumed
            /\ status' = "type"
            /\ UNCHANGED <<name, frame, partial>>

\* Fewer bytes than a word remain in the frame.
EnterTail ==
    /\ status = "scan" /\ pos < MaxName /\ ~BlockFits
    /\ Give("tail")

\* One byte of the tail: the limits, the byte, and after the root label or a whole
\* word the end of the loop.
TailByte ==
    /\ status = "tail"
    /\ IF Len(partial) = WordLen \/ pos >= MaxName \/ pos + 2 > Len(frame)
       THEN Give("none")
       ELSE LET byte == frame[pos + 1]
                word == Append(partial, Lower(byte))
            IN /\ pos' = pos + 1
               /\ partial' = word
               /\ IF byte = 0
                  THEN status' = "type" /\ hash' = Append(hash, FromBytes(word))
                  ELSE UNCHANGED <<status, hash>>
               /\ UNCHANGED <<name, frame>>

\* QTYPE and QCLASS must be in the frame.
ReadType ==
    /\ status = "type"
    /\ Give(IF pos + FieldsLen > Len(frame) THEN "none" ELSE "some")

Next == TooLong \/ WholeWord \/ LastWord \/ EnterTail \/ TailByte \/ ReadType

Spec == Init /\ [][Next]_vars

Fields == SubSeq(frame, pos + 1, pos + FieldsLen)

-----------------------------------------------------------------------------
(* Properties *)

Intact(n) == Len(frame) >= Len(Wire(n)) + FieldsLen

\* The kernel finds what userspace cached: for a name within the wire limit and a
\* packet that holds the whole question, parse_dns_question yields make_cache_key's
\* words, type, class and question length, wherever the frame ends and in whichever
\* of its two paths it meets the root label; and it gives up on every other packet.
KernelKeyIsUserspaceKey ==
    status \in {"none", "some"} =>
        IF Intact(name) /\ Len(Wire(name)) <= MaxName
        THEN /\ status = "some"
             /\ hash = CacheKey(name)
             /\ Fields = TypeAndClass
             /\ pos = Len(Wire(name))
        ELSE status = "none"
=============================================================================
