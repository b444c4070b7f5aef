----------------------------- MODULE XdpProgram -----------------------------
(***************************************************************************)
(* One packet through the eBPF program (try_dns_xdp of                     *)
(* xdp/doggy-dns-xdp-ebpf/src/main.rs): headers, question (XdpQuestion),   *)
(* lookup, resize, rewrite, headers again (XdpChecksum).                   *)
(*                                                                         *)
(* The packet from the DNS header on is a sequence of symbolic bytes; a    *)
(* byte is where it came from and its index there.  Sizes are scaled: the  *)
(* DNS header is four fields (id, flags, QDCOUNT, the other counts), and a *)
(* response is at most MaxDns bytes, copied in chunks of Chunk.  DNS_CACHE *)
(* is an LRU map, whose elements the kernel recycles without waiting for   *)
(* the programs that hold one: another answer may take its place between   *)
(* any two reads.                                                          *)
(***************************************************************************)
EXTENDS XdpQuestion, XdpChecksum

CONSTANTS
    Chunk,       \* COPY_CHUNK
    MaxDns,      \* MAX_DNS_LEN
    MaxClaim,    \* MAX_UDP_DNS_LEN less the UDP header
    FrontLen,    \* IPv4 and UDP headers
    Tailroom,    \* by how much the driver lets a frame grow
    Sums,        \* bound: sums of the IPv4 header's words that do not change
    Frags        \* bound: the query's fragment words

HeaderLen == 4
MinPositive == HeaderLen + 1 + FieldsLen   \* MIN_POSITIVE_LEN

ASSUME ProgramAssumption ==
    /\ Chunk \in 1 .. MinPositive /\ MaxDns \in Nat /\ MinPositive < MaxDns
    /\ MaxClaim \in Nat /\ Tailroom \in Nat /\ FrontLen \in Nat \ {0}
    /\ FrontLen + MaxDns < Word16 /\ FrontLen + HeaderLen + MaxName + FieldsLen < Word16
    /\ Word16 % 4 = 0
    /\ Sums \subseteq Words16 /\ Frags \subseteq Words16

VARIABLES
    stage,      \* where try_dns_xdp is
    payload,    \* the packet from the DNS header to data_end
    arrived,    \* history: its length when the program started
    claim,      \* old_dns_len: the length the UDP header claims, once it is used
    elem,       \* the map element the program points at
    found,      \* history: what the element held at the lookup
    plan,       \* question_len, negative and new_dns_len
    next,       \* write_positive's i
    sent,       \* the lengths and words of the headers sent back
    verdict     \* the XDP action and the outcome recorded

program == <<stage, payload, arrived, claim, elem, found, plan, next, sent, verdict>>
all == <<vars, program>>

-----------------------------------------------------------------------------
(* Packets and elements *)

Query(n) == [i \in 1 .. n |-> <<"query", i>>]

\* A CacheValue: whose bytes it holds, resp_len (out of range in a poisoned entry),
\* the negative flag and whether expires_at has passed.
Elements ==
    [of : {"answer"}, len : MinPositive - 1 .. MaxDns + 1, negative : BOOLEAN, expired : BOOLEAN]
Recycled == [of : {"another"}, len : {MinPositive, MaxDns}, negative : BOOLEAN, expired : {FALSE}]

\* resp_data, zero after resp_len.
ByteOf(e, i) == IF i <= e.len THEN <<e.of, i>> ELSE <<"zero", 0>>

\* What the checks before the question look at.
Header ==
    [whole |-> TRUE, ipv4 |-> TRUE, udp |-> TRUE, ihl |-> 5, configured |-> TRUE, ours |-> TRUE,
     claim |-> 0, query |-> TRUE, questions |-> 1]

\* A query's headers, and each with one thing wrong.
Headers ==
    {Header} \cup {[Header EXCEPT ![f] = FALSE] : f \in {"whole", "ipv4", "udp", "configured", "ours", "query"}}
        \cup {[Header EXCEPT !.ihl = 4], [Header EXCEPT !.questions = 0],
              [Header EXCEPT !.questions = 2], [Header EXCEPT !.claim = -1],
              [Header EXCEPT !.claim = MaxClaim + 1]}

None == [of |-> "none"]

ProgramInit ==
    /\ Init
    /\ stage = "headers"
    /\ payload = Query(HeaderLen + Len(frame))
    /\ arrived = HeaderLen + Len(frame)
    /\ claim = 0 /\ next = 0
    /\ elem = None /\ found = None
    /\ plan = None /\ sent = None
    /\ verdict = <<"none", "none">>

-----------------------------------------------------------------------------
(* dns_xdp and try_dns_xdp *)

\* The program's only exit: the action, and the counter record() bumps if any.
Return(action, outcome) == stage' = "done" /\ verdict' = <<action, outcome>>

\* An Err of try_dns_xdp.
Fail == Return("drop", "drop")

Admitted(h) ==
    /\ h.whole /\ h.ipv4 /\ h.udp /\ h.ihl >= 5
    /\ h.configured /\ h.ours
    /\ h.claim \in 0 .. MaxClaim
    /\ h.query /\ h.questions = 1

ParseHeaders ==
    /\ stage = "headers"
    /\ \E h \in Headers :
        IF Admitted(h) THEN stage' = "question" /\ UNCHANGED verdict ELSE Return("pass", "none")
    /\ UNCHANGED <<vars, payload, arrived, claim, elem, found, plan, next, sent>>

ParseQuestion == stage = "question" /\ Next /\ UNCHANGED program

NoQuestion ==
    /\ stage = "question" /\ status = "none"
    /\ Return("pass", "none")
    /\ UNCHANGED <<vars, payload, arrived, claim, elem, found, plan, next, sent>>

\* DNS_CACHE.get: from here on the question is its length, and the parser's locals are
\* gone.
Lookup ==
    /\ stage = "question" /\ status = "some"
    /\ \/ /\ Return("pass", "miss")
          /\ UNCHANGED <<elem, found, plan>>
       \/ \E e \in Elements :
            /\ elem' = e /\ found' = e
            /\ plan' = [asked |-> pos + FieldsLen]
            /\ stage' = "expiry"
            /\ UNCHANGED verdict
    /\ name' = <<>> /\ frame' = <<>> /\ pos' = 0 /\ hash' = <<>> /\ partial' = <<>>
    /\ status' = "returned"
    /\ UNCHANGED <<payload, arrived, claim, next, sent>>

\* The kernel hands the element to another key.
Recycle ==
    /\ stage \in {"expiry", "flags", "length", "resize", "write", "copy"} /\ elem = found
    /\ elem' \in Recycled
    /\ UNCHANGED <<vars, stage, payload, arrived, claim, found, plan, next, sent, verdict>>

CheckExpiry ==
    /\ stage = "expiry"
    /\ IF elem.expired THEN Return("pass", "expired") ELSE stage' = "flags" /\ UNCHANGED verdict
    /\ UNCHANGED <<vars, payload, arrived, claim, elem, found, plan, next, sent>>

ReadFlags ==
    /\ stage = "flags"
    /\ plan' = [asked |-> plan.asked, negative |-> elem.negative, len |-> HeaderLen + plan.asked]
    /\ stage' = IF elem.negative THEN "resize" ELSE "length"
    /\ UNCHANGED <<vars, payload, arrived, claim, elem, found, next, sent, verdict>>

\* Mutation: the length of a cached response is taken as it is.
ReadLengthUnchecked ==
    /\ stage = "length"
    /\ plan' = [plan EXCEPT !.len = elem.len]
    /\ stage' = "resize" /\ UNCHANGED verdict
    /\ UNCHANGED <<vars, payload, arrived, claim, elem, found, next, sent>>

\* A length out of range passes the packet on.
ReadLength ==
    /\ stage = "length"
    /\ IF elem.len \notin MinPositive .. MaxDns
       THEN Return("pass", "none") /\ UNCHANGED plan
       ELSE plan' = [plan EXCEPT !.len = elem.len] /\ stage' = "resize" /\ UNCHANGED verdict
    /\ UNCHANGED <<vars, payload, arrived, claim, elem, found, next, sent>>

\* bpf_xdp_adjust_tail: what it grows by is zero.
Resized(size) == [i \in 1 .. size |-> IF i <= Len(payload) THEN payload[i] ELSE <<"zero", 0>>]

\* Mutation: a frame that does not fit is passed on, as before the resize.
ResizeOrPass ==
    /\ stage = "resize"
    /\ \E c \in 0 .. MaxClaim :
        LET size == arrived + plan.len - c IN
        /\ claim' = c
        /\ IF size > arrived + Tailroom \/ size < -FrontLen
           THEN Return("pass", "none") /\ UNCHANGED payload
           ELSE /\ payload' = Resized(size)
                /\ IF size < plan.len THEN Return("pass", "none")
                   ELSE stage' = "write" /\ UNCHANGED verdict
    /\ UNCHANGED <<vars, arrived, elem, found, plan, next, sent>>

\* The frame grows or shrinks by the response's length less the one the UDP header
\* claims; the claim, any length ParseHeaders admits, matters from here on.
Resize ==
    /\ stage = "resize"
    /\ \E c \in 0 .. MaxClaim :
        LET size == arrived + plan.len - c IN
        /\ claim' = c
        /\ IF size > arrived + Tailroom \/ size < -FrontLen
           THEN Return("pass", "none") /\ UNCHANGED payload
           ELSE /\ payload' = Resized(size)
                /\ IF size < plan.len THEN Fail
                   ELSE stage' = "write" /\ UNCHANGED verdict
    /\ UNCHANGED <<vars, arrived, elem, found, plan, next, sent>>

\* Mutation: the counts of the query stay.
write_nxdomain_flags ==
    /\ stage = "write" /\ plan.negative
    /\ payload' = [payload EXCEPT ![2] = <<"nxdomain", 2>>]
    /\ stage' = "finalize"
    /\ UNCHANGED <<vars, arrived, claim, elem, found, plan, next, sent, verdict>>

\* QR, the query's RD and NXDOMAIN; no records.
write_nxdomain ==
    /\ stage = "write" /\ plan.negative
    /\ payload' = [payload EXCEPT ![2] = <<"nxdomain", 2>>, ![4] = <<"zero", 0>>]
    /\ stage' = "finalize"
    /\ UNCHANGED <<vars, arrived, claim, elem, found, plan, next, sent, verdict>>

\* copy_chunk: Chunk bytes of the element from offset i on.
Copied(i) == [j \in DOMAIN payload |-> IF j \in i + 1 .. i + Chunk THEN ByteOf(elem, j) ELSE payload[j]]

Lead == plan.len % Chunk

\* write_positive up to the loop: its own bounds, and the chunk that overlaps the next.
LeadChunk ==
    /\ stage = "write" /\ ~plan.negative
    /\ IF plan.len \notin MinPositive .. MaxDns \/ (Lead # 0 /\ Chunk > Len(payload))
       THEN Fail /\ UNCHANGED <<payload, next>>
       ELSE /\ payload' = IF Lead # 0 THEN Copied(0) ELSE payload
            /\ stage' = "copy" /\ next' = Lead /\ UNCHANGED verdict
    /\ UNCHANGED <<vars, arrived, claim, elem, found, plan, sent>>

CopyChunk ==
    /\ stage = "copy" /\ next < plan.len
    /\ IF next + Chunk > Len(payload)
       THEN Fail /\ UNCHANGED <<payload, next>>
       ELSE /\ payload' = Copied(next)
            /\ next' = next + Chunk /\ UNCHANGED <<stage, verdict>>
    /\ UNCHANGED <<vars, arrived, claim, elem, found, plan, sent>>

WriteTxid ==
    /\ stage = "copy" /\ next >= plan.len
    /\ payload' = [payload EXCEPT ![1] = <<"query", 1>>]
    /\ stage' = "finalize"
    /\ UNCHANGED <<vars, arrived, claim, elem, found, plan, next, sent, verdict>>

\* 0x4000 of the fragment word.
DontFragment == Word16 \div 4
WithDontFragment(frag) == IF (frag \div DontFragment) % 2 = 1 THEN frag ELSE frag + DontFragment

\* finalize_headers, for a query whose IPv4 header was valid.  Its total length is read
\* on its own and need not agree with the frame or the UDP length.  Who sends and who
\* receives change places.
finalize_headers ==
    /\ stage = "finalize"
    /\ \E rest \in Sums, was \in Words16, frag \in Frags, check \in Words16 :
        LET total == FrontLen + plan.len
            df == WithDontFragment(frag)
        IN /\ Valid(rest, was, frag, check)
           /\ sent' = [rest |-> rest, total |-> total, frag |-> df,
                       check |-> NewCheck(check, was, total, frag, df)]
    /\ Return("tx", IF plan.negative THEN "negative_hit" ELSE "hit")
    /\ UNCHANGED <<vars, payload, arrived, claim, elem, found, plan, next>>

ProgramNext ==
    \/ ParseHeaders \/ ParseQuestion \/ NoQuestion \/ Lookup
    \/ CheckExpiry \/ ReadFlags \/ ReadLength \/ Resize
    \/ write_nxdomain \/ LeadChunk \/ CopyChunk \/ WriteTxid \/ finalize_headers
    \/ Recycle

ProgramSpec == ProgramInit /\ [][ProgramNext]_all

-----------------------------------------------------------------------------
(* Properties *)

\* What the program passes on is the query as it arrived, byte for byte: every way to
\* give up after the resize drops the packet instead.
PassedIsTheQuery == verdict[1] = "pass" => payload = Query(arrived)

\* A reply is well formed whatever happens to the map element under the program: the
\* frame holds all of it, it carries the query's transaction id and, but for that and
\* a negative's question, no byte of the query; the lengths in the headers are the
\* response's and the IPv4 checksum a receiver recomputes is right.
ReplyIsFramed ==
    verdict[1] = "tx" =>
        /\ Len(payload) >= plan.len /\ payload[1] = <<"query", 1>>
        /\ ~plan.negative => \A i \in 2 .. plan.len : payload[i][1] # "query"
        /\ sent.total = FrontLen + plan.len
        /\ Valid(sent.rest, sent.total, sent.frag, sent.check)

\* A reply is the whole of one live cached answer under the query's transaction id, or
\* the query's own question under an NXDOMAIN header, unless the kernel recycled the
\* element meanwhile: the overlapping chunks leave no byte out, and nothing after the
\* response is copied.
ReplyIsTheEntry ==
    verdict[1] = "tx" /\ elem = found =>
        /\ ~found.expired /\ plan.negative = found.negative
        /\ SubSeq(payload, 1, plan.len) =
            IF found.negative
            THEN [Query(HeaderLen + plan.asked) EXCEPT ![2] = <<"nxdomain", 2>>, ![4] = <<"zero", 0>>]
            ELSE [i \in 1 .. found.len |-> IF i = 1 THEN <<"query", 1>> ELSE <<"answer", i>>]

\* Only a query whose UDP header claims more than the frame holds is ever dropped: no
\* cached entry, poisoned or recycled, makes the program lose a well-formed query.
DropOnlyTruncated == verdict[1] = "drop" => claim > arrived
=============================================================================
