------------------------------ MODULE XdpCache ------------------------------
(***************************************************************************)
(* The XDP answer cache: XdpCacheMiddleware::after_request writing         *)
(* DNS_CACHE (crates/doggy-dns-xdp/src/middleware.rs and                   *)
(* middleware/xdp_cache.rs), the eBPF program answering from it            *)
(* (xdp/doggy-dns-xdp-ebpf/src/main.rs), and the pinned map that outlives  *)
(* the process (pin.rs, program.rs).                                       *)
(*                                                                         *)
(* Request tasks run on several threads: resolving, reading the clock and  *)
(* computing the entry, and inserting under the tokio Mutex are separate   *)
(* steps, and which task the Mutex lets in next is left open.  expires_at  *)
(* is kept as the time left until it, which Tick lowers, so the monotonic  *)
(* clock itself is not a variable.  A reply is reduced to the question it  *)
(* carries, its code and the version of the data in it.                    *)
(*                                                                         *)
(* The eBPF program holds a pointer into the map.  The LRU map gives a     *)
(* freed element to the next insert without waiting for such a reader, so  *)
(* what the program reads through it, one field and one chunk after the    *)
(* other, may come from the entry it found or from a later one.            *)
(***************************************************************************)
EXTENDS Integers, FiniteSets

CONSTANTS
    Writer,        \* request tasks
    Key,           \* cache keys: a question's hash, type and class
    Capacity,      \* xdp.cache_size
    Ttls,          \* minimum TTLs an answer's records may have, besides 0
    NegativeTtl,   \* xdp.negative_ttl, as far as its nanoseconds fit u64
    U32Modulus,    \* 2^32
    MaxMixed,      \* bound: entries an element holds in the course of one run
    FirstKinds,    \* bound: the kinds of answer the authority starts with
    MaxVersion     \* bound: the answers change until one has changed this often

ASSUME CacheAssumption ==
    /\ Capacity \in Nat \ {0}
    /\ U32Modulus \in Nat \ {0}
    /\ \A t \in Ttls : t \in Nat /\ t < U32Modulus
    /\ NegativeTtl \in Nat \ {0}
    /\ MaxMixed \in Nat
    /\ FirstKinds \subseteq {"answer", "nodata", "nxdomain"}
    /\ MaxVersion \in Nat
    /\ \E longest \in Ttls \cup {NegativeTtl} : \A t \in Ttls \cup {NegativeTtl} : t <= longest

VARIABLES
    truth,      \* the authority chain's current answer to each key
    cache,      \* DNS_CACHE: the keys it holds, and their CacheValue
    attached,   \* the process is up and its program attached
    pc, job,    \* per task: where it is, and the key, outcome and entry it holds
    kernel,     \* a run of the program that found an element (runs only read: one will do)
    served      \* history: the kernel's reply, if the last step sent one

vars == <<truth, cache, attached, pc, job, kernel, served>>

\* A RequestOutcome: "answer" has records and a minimum TTL, "nodata" is NOERROR
\* without records; bytes says whether response_bytes is there.
Outcomes == [kind : {"answer", "nodata", "nxdomain", "servfail"}, ttl : Ttls \cup {0},
             version : 0 .. MaxVersion, bytes : BOOLEAN]

CodeOf(kind) ==
    CASE kind = "nxdomain" -> "NXDomain" [] kind = "servfail" -> "ServFail"
      [] OTHER -> "NoError"

-----------------------------------------------------------------------------
(* compute_cache_entry *)

\* Mutation: every recordless reply is flagged negative.
IsNegativeAnyEmpty(o) == o.kind # "answer"

IsNegative(o) == o.kind = "nxdomain"

\* In seconds; "negative_ttl as u32" is the fallback for an answer with no TTL.
Lifetime(o) ==
    CASE IsNegative(o) -> NegativeTtl
      [] o.kind = "nodata" -> NegativeTtl % U32Modulus
      [] OTHER -> o.ttl

\* left: time until expires_at; age: time since the clock was read (history).
CacheEntry(k, o) ==
    [key |-> k, outcome |-> o, negative |-> IsNegative(o), left |-> Lifetime(o), age |-> 0]

LongestLifetime ==
    CHOOSE n \in Ttls \cup {NegativeTtl} : \A m \in Ttls \cup {NegativeTtl} : m <= n

Entries ==
    [key : Key, outcome : Outcomes, negative : BOOLEAN, left : 0 .. LongestLifetime,
     age : 0 .. LongestLifetime]

\* What of an entry is left to read once its expiry is checked.
Content(e) == [key |-> e.key, outcome |-> e.outcome, negative |-> e.negative]

NoReply == [from |-> "none"]
NoJob == [key |-> "none"]
NoRun == [at |-> "idle"]

\* The step sends no reply from the kernel.
Silent == served' = NoReply

Init ==
    /\ truth \in [Key -> {o \in Outcomes : o.version = 0 /\ o.bytes /\ o.kind \in FirstKinds
                                           /\ o.ttl \in IF o.kind = "answer" THEN Ttls ELSE {0}}]
    /\ cache = <<>>
    /\ attached = TRUE
    /\ pc = [w \in Writer |-> "idle"]
    /\ job = [w \in Writer |-> NoJob]
    /\ kernel = NoRun
    /\ served = NoReply

-----------------------------------------------------------------------------
(* The userspace writers *)

\* A query the kernel passed up is resolved: the authority answers, fails, or
\* answers with a reply that serialize_for_xdp would not keep.
Resolve(w, k) ==
    /\ attached /\ pc[w] = "idle"
    /\ \E o \in {truth[k], [truth[k] EXCEPT !.bytes = FALSE],
                 [truth[k] EXCEPT !.kind = "servfail", !.ttl = 0, !.version = 0]} :
        job' = [job EXCEPT ![w] = [key |-> k, outcome |-> o]]
    /\ pc' = [pc EXCEPT ![w] = "resolved"]
    /\ Silent
    /\ UNCHANGED <<truth, cache, attached, kernel>>

\* after_request up to the lock: the code filter, the missing bytes, and the
\* clock read that fixes expires_at.
AfterRequest(w) ==
    /\ pc[w] = "resolved"
    /\ LET o == job[w].outcome
       IN IF CodeOf(o.kind) \in {"NoError", "NXDomain"} /\ o.bytes
          THEN /\ job' = [job EXCEPT ![w] = [key |-> job[w].key, entry |-> CacheEntry(job[w].key, o)]]
               /\ pc' = [pc EXCEPT ![w] = "locking"]
          ELSE /\ job' = [job EXCEPT ![w] = NoJob]
               /\ pc' = [pc EXCEPT ![w] = "idle"]
    /\ Silent
    /\ UNCHANGED <<truth, cache, attached, kernel>>

\* Mutation: a plain hash map that takes one more entry.
InsertedUnbounded(k, e) == {[x \in DOMAIN cache \cup {k} |-> IF x = k THEN e ELSE cache[x]]}

\* An LRU hash that is full gives up another key.
Inserted(k, e) ==
    LET full == k \notin DOMAIN cache /\ Cardinality(DOMAIN cache) >= Capacity
    IN {[x \in (DOMAIN cache \ {gone}) \cup {k} |-> IF x = k THEN e ELSE cache[x]] :
            gone \in IF full THEN DOMAIN cache ELSE {k}}

\* Whether the insert that leads to map unlinks the element the program points at:
\* its key is written again, or gives way.
Frees(k, map) == kernel.held = "linked" /\ (k = kernel.key \/ kernel.key \notin DOMAIN map)

\* The run whose element the insert of e has taken: its bytes are some of each.
Mixed(e) ==
    [kernel EXCEPT !.held = "reused",
                   !.element = @ \cup {IF kernel.at = "found" THEN e ELSE Content(e)}]

\* What may become of a run under way.  An element that is free may be the one the
\* insert takes.
Overwritten(k, e, map) ==
    IF kernel = NoRun \/ (kernel.held = "linked" /\ ~Frees(k, map)) THEN {kernel}
    ELSE {[kernel EXCEPT !.held = IF @ = "linked" THEN "freed" ELSE @]}
         \cup {r \in {Mixed(e)} : Cardinality(r.element) <= MaxMixed}

\* Mutation: a task renews the entry it has written.
InsertRenewing(w) ==
    /\ pc[w] = "locking"
    /\ \E map \in Inserted(job[w].key, job[w].entry) :
        /\ cache' = map
        /\ kernel' \in Overwritten(job[w].key, job[w].entry, map)
    /\ pc' = [pc EXCEPT ![w] = "resolved"]
    /\ job' = [job EXCEPT ![w] = [key |-> job[w].key, outcome |-> job[w].entry.outcome]]
    /\ Silent
    /\ UNCHANGED <<truth, attached>>

\* lock().await, and the insert or its error, which is logged and leaves the map as
\* it was.
Insert(w) ==
    /\ pc[w] = "locking"
    /\ \/ \E map \in Inserted(job[w].key, job[w].entry) :
            /\ cache' = map
            /\ kernel' \in Overwritten(job[w].key, job[w].entry, map)
       \/ UNCHANGED <<cache, kernel>>
    /\ pc' = [pc EXCEPT ![w] = "idle"]
    /\ job' = [job EXCEPT ![w] = NoJob]
    /\ Silent
    /\ UNCHANGED <<truth, attached>>

-----------------------------------------------------------------------------
(* The kernel program *)

\* Mutation: "entry.expires_at < now" passes it on.
FreshAtExpiry(e) == e.left >= 0

\* "entry.expires_at <= now" passes the packet on.
Fresh(e) == e.left > 0

\* How long an answer may be repeated: the TTL of its records, or the configured
\* negative_ttl where there are none.
Allowed(o) == IF o.kind = "answer" THEN o.ttl ELSE NegativeTtl

\* DNS_CACHE.get returns a pointer to the element.
KernelLookup(k) ==
    /\ attached /\ kernel = NoRun /\ k \in DOMAIN cache
    /\ kernel' = [at |-> "found", key |-> k, held |-> "linked", element |-> {cache[k]}]
    /\ Silent
    /\ UNCHANGED <<truth, cache, attached, pc, job>>

\* expires_at is read through it; an expired entry passes the packet on.
KernelCheck ==
    /\ kernel.at = "found"
    /\ \E e \in kernel.element :
        kernel' = IF Fresh(e)
                  THEN [at |-> "fresh", key |-> kernel.key, held |-> kernel.held,
                        element |-> {Content(x) : x \in kernel.element},
                        checked |-> e.outcome, inTime |-> e.age < Allowed(e.outcome)]
                  ELSE NoRun
    /\ Silent
    /\ UNCHANGED <<truth, cache, attached, pc, job>>

\* serialize_for_xdp's bytes, as new_positive and new_negative keep them.
BytesOf(e) ==
    [key |-> e.key, code |-> CodeOf(e.outcome.kind), data |-> {e.outcome.version}]

\* Mutation: the header of a negative reply is put over the cached bytes.
NegativeOverBytes(k, element) ==
    {[key |-> k, code |-> "NXDomain", data |-> {e.outcome.version}] : e \in element}

\* write_nxdomain puts a header over the query's own question and carries nothing of
\* the cached bytes: neither AA nor the SOA record.
Negative(k, element) == {[key |-> k, code |-> "NXDomain", data |-> {}]}

\* write_positive copies chunk after chunk of the element; the question and the code
\* are in the first.
Positive(element) ==
    {[key |-> BytesOf(e).key, code |-> BytesOf(e).code,
      data |-> UNION {BytesOf(x).data : x \in rest}] :
        e \in element, rest \in (SUBSET element) \ {{}}}

\* The replies a run may come to: the flags are read through the pointer as well.
Replies(k, element) ==
    UNION {IF e.negative THEN Negative(k, element) ELSE Positive(element) : e \in element}

\* The rest of the run.  What an element may hold only grows while the program runs, so
\* reading it all at the end gives every reply that reading it bit by bit does.
KernelReply ==
    /\ kernel.at = "fresh"
    /\ \E r \in Replies(kernel.key, kernel.element) :
        served' = [from |-> "cache", held |-> kernel.held, checked |-> kernel.checked,
                   reply |-> r]
    /\ kernel' = NoRun
    /\ UNCHANGED <<truth, cache, attached, pc, job>>

\* A length out of range or a refused resize leaves the packet to userspace, and a
\* frame that came out too short is dropped: neither is a reply.  (A miss changes
\* nothing.)
KernelGivesUp ==
    /\ kernel.at = "fresh"
    /\ kernel' = NoRun
    /\ Silent
    /\ UNCHANGED <<truth, cache, attached, pc, job>>

-----------------------------------------------------------------------------
(* Environment and lifecycle *)

AuthorityChanges(k) ==
    /\ \A x \in Key : truth[x].version < MaxVersion
    /\ \E o \in Outcomes :
        /\ o.version = truth[k].version + 1 /\ o.bytes /\ o.kind # "servfail"
        /\ o.kind # "answer" => o.ttl = 0
        /\ truth' = [truth EXCEPT ![k] = o]
    /\ Silent
    /\ UNCHANGED <<cache, attached, pc, job, kernel>>

\* (An expired entry need not be told how long ago it expired.)
Aged(e) == IF e.left = 0 THEN e ELSE [e EXCEPT !.left = @ - 1, !.age = @ + 1]

\* CLOCK_MONOTONIC advances, for the cached entries, for those on their way and for
\* the one whose expiry the kernel is about to read.
Tick ==
    /\ cache' = [k \in DOMAIN cache |-> Aged(cache[k])]
    /\ job' = [w \in Writer |-> IF pc[w] = "locking"
                                THEN [job[w] EXCEPT !.entry = Aged(@)] ELSE job[w]]
    /\ kernel' = IF kernel.at = "found"
                 THEN [kernel EXCEPT !.element = {Aged(e) : e \in @}] ELSE kernel
    /\ Silent
    /\ UNCHANGED <<truth, attached, pc>>

\* The process ends: the program is detached and every task is gone, but the
\* pinned map keeps its entries, and a packet under way is finished.
Stop ==
    /\ attached
    /\ attached' = FALSE
    /\ pc' = [w \in Writer |-> "idle"]
    /\ job' = [w \in Writer |-> NoJob]
    /\ Silent
    /\ UNCHANGED <<truth, cache, kernel>>

\* XdpManager::new opens the pin path first and creates a cold map only when
\* nothing is pinned there (an operator removed it).  By then the last packet of the
\* program before is through.
Start ==
    /\ ~attached /\ kernel = NoRun
    /\ attached' = TRUE
    /\ cache' \in {cache, <<>>}
    /\ Silent
    /\ UNCHANGED <<truth, pc, job, kernel>>

Step(w) == AfterRequest(w) \/ Insert(w)

Next ==
    \/ \E w \in Writer : Step(w) \/ \E k \in Key : Resolve(w, k)
    \/ \E k \in Key : KernelLookup(k) \/ AuthorityChanges(k)
    \/ KernelCheck \/ KernelReply \/ KernelGivesUp
    \/ Tick \/ Stop \/ Start

Spec == Init /\ [][Next]_vars

\* Time passes, and a task that can run does.
FairSpec == Spec /\ WF_vars(Tick) /\ \A w \in Writer : WF_vars(Step(w))

-----------------------------------------------------------------------------
(* Properties *)

TypeOK ==
    /\ truth \in [Key -> Outcomes]
    /\ DOMAIN cache \subseteq Key /\ Cardinality(DOMAIN cache) <= Capacity
    /\ \A k \in DOMAIN cache : cache[k] \in Entries /\ cache[k].key = k
    /\ attached \in BOOLEAN
    /\ pc \in [Writer -> {"idle", "resolved", "locking"}]
    /\ \A w \in Writer :
        /\ pc[w] = "idle" <=> job[w] = NoJob
        /\ pc[w] = "resolved" => job[w].outcome \in Outcomes
        /\ pc[w] = "locking" => job[w].entry \in Entries
    /\ kernel = NoRun \/ kernel.key \in Key
    /\ kernel.at = "found" => kernel.element \subseteq Entries

\* The kernel goes on to answer only if, when it read expires_at, no more time had
\* passed than the answer whose expiry it read allows, counted from the clock read
\* that precedes the lock: neither the wait for the Mutex, nor a writer overtaken by
\* another, nor a restart onto the pinned map, nor a negative_ttl cut to u32 extends
\* it, and an answer whose TTL is 0 is never served.
ServedWithinLifetime == kernel.at = "fresh" => kernel.inTime

\* A reply from the kernel carries the code userspace would have sent, NODATA and
\* NXDOMAIN told apart; if the element was reused meanwhile, it may be the code of the
\* entry written over it, and still is never that of a failure.
ServedCodeIsTheAnswers ==
    served.from = "cache" =>
        /\ served.reply.code # "ServFail"
        /\ served.held # "reused" => served.reply.code = CodeOf(served.checked.kind)

\* Once the authority's answers stop changing, the kernel comes to serve only the
\* current ones: an older answer written after a newer one, or left behind by an
\* earlier process, dies out.
KernelForgetsOldAnswers ==
    <>[](\A k \in DOMAIN cache :
            Fresh(cache[k]) => cache[k].outcome.version = truth[k].version)

-----------------------------------------------------------------------------
(* The promise *)

\* Answers the middleware keeps.
Admissible == {o \in Outcomes : o.kind # "servfail" /\ o.bytes}

LeaseOf(e) == [key |-> e.key, answer |-> e.outcome, left |-> e.left]

\* The entry a run found and has not checked yet, unless it is reused.
Unchecked(r) == IF r.at = "found" /\ r.held # "reused" THEN r.element ELSE {}

\* The entries that are, or may come to be, served as a whole: those in the map, those
\* a task carries there, and the one a run is about to check.
Live ==
    {cache[k] : k \in DOMAIN cache}
        \cup {job[w].entry : w \in {v \in Writer : pc[v] = "locking"}}
        \cup Unchecked(kernel)

LiveLeases == {LeaseOf(e) : e \in {x \in Live : x.left > 0}}

\* What a client is told when the kernel repeats an answer: all of it, but of an
\* NXDOMAIN only the code.
ReplyTo(k, o) ==
    [key |-> k, code |-> CodeOf(o.kind), data |-> IF o.kind = "nxdomain" THEN {} ELSE {o.version}]

Torn == [from |-> "reused"]

\* A run that has checked its entry, as the promise sees it.
RunOf(r) ==
    IF r = NoRun THEN NoReply
    ELSE IF r.held = "reused" THEN Torn
    ELSE IF r.at = "found" THEN NoReply
    ELSE ReplyTo(r.key, r.checked)

Lease == INSTANCE AnswerLease
            WITH Answer <- Admissible, LifetimeOf <- Lifetime, ReplyOf <- ReplyTo,
                 Silence <- NoReply, leases <- LiveLeases, run <- RunOf(kernel),
                 reply <- IF served.from = "none" THEN NoReply
                          ELSE IF served.held = "reused" THEN Torn ELSE served.reply

\* The cache keeps its promise through the Mutex, the LRU map, the kernel's separate
\* reads and restarts: a reply from the kernel is an answer after_request admitted, to
\* the question it was given for and from a run that began within its lifetime; all
\* of it, except that an NXDOMAIN comes without the SOA record and the AA flag.  The
\* one exception is a run whose element the map reused under it.
ImplementsLease == Lease!Spec
=============================================================================
