------------------------- MODULE SharedState_proofs -------------------------
(***************************************************************************)
(* Proofs about state that others write while it is read.                  *)
(*                                                                         *)
(* XdpCache, for any number of writers and keys, any capacity and any      *)
(* TTLs: types, lifetimes, codes, and that it implements AnswerLease.      *)
(*                                                                         *)
(* Shutdown, for any number of CPUs: the poller reports the packets that   *)
(* were counted, and on a clean exit all of those counted by the time it   *)
(* was told to stop.                                                       *)
(***************************************************************************)
EXTENDS XdpCache, Shutdown, FiniteSetTheorems, TLAPS

\* What is known of an entry wherever it is: it was made from an answer the
\* middleware admits, and while its remaining time is positive, that and its age fit
\* into the answer's lifetime.
Sound(e) ==
    /\ e \in Entries
    /\ e.outcome \in Admissible
    /\ e.negative = IsNegative(e.outcome)
    /\ e.left > 0 => e.age + e.left <= Lifetime(e.outcome)

Statuses == {"idle", "resolved", "locking"}

\* A task's locals at each of its steps.
JobOK(status, j) ==
    /\ status = "idle" => j = NoJob
    /\ status = "resolved" => \E k \in Key, o \in Outcomes : j = [key |-> k, outcome |-> o]
    /\ status = "locking" => \E e \in Entries : Sound(e) /\ j = [key |-> e.key, entry |-> e]

\* A run before and after it has read expires_at.
Found(k, h, s) == [at |-> "found", key |-> k, held |-> h, element |-> s]
Past(k, h, s, o, t) ==
    [at |-> "fresh", key |-> k, held |-> h, element |-> s, checked |-> o, inTime |-> t]

\* While its element is not reused, a run reads one entry, and that one is for the
\* question it looked up.
FoundOK(k, h, s) ==
    /\ \A e \in s : Sound(e)
    /\ h # "reused" => \E e \in s : s = {e} /\ e.key = k

PastOK(k, h, s, o, t) ==
    /\ t = TRUE /\ o \in Admissible
    /\ \A c \in s : \E e : Sound(e) /\ c = Content(e)
    /\ h # "reused" => s = {[key |-> k, outcome |-> o, negative |-> IsNegative(o)]}

RunOK(r) ==
    \/ r = NoRun
    \/ \E k \in Key : \E h, s : r = Found(k, h, s) /\ FoundOK(k, h, s)
    \/ \E k \in Key : \E h, s, o, t : r = Past(k, h, s, o, t) /\ PastOK(k, h, s, o, t)

\* A reply carries a code the middleware admits, and repeats the answer whose expiry
\* was read unless the element was reused.
Sent(h, o, r) == [from |-> "cache", held |-> h, checked |-> o, reply |-> r]
SentOK(s) ==
    \/ s = NoReply
    \/ \E h, r, k : \E o \in Admissible :
        /\ s = Sent(h, o, r)
        /\ r.code \in {"NoError", "NXDomain"}
        /\ h # "reused" => r = ReplyTo(k, o)

\* The strengthening: entries are sound, and under their own key, in the map and in a
\* task on its way there, and so are those the kernel holds.
CacheInv ==
    /\ truth \in [Key -> Outcomes]
    /\ DOMAIN cache \subseteq Key
    /\ IsFiniteSet(DOMAIN cache) /\ Cardinality(DOMAIN cache) <= Capacity
    /\ \A k \in DOMAIN cache : Sound(cache[k]) /\ cache[k].key = k
    /\ attached \in BOOLEAN
    /\ pc \in [Writer -> Statuses]
    /\ DOMAIN job = Writer
    /\ \A w \in Writer : JobOK(pc[w], job[w])
    /\ RunOK(kernel)
    /\ SentOK(served)

-----------------------------------------------------------------------------
(* Entries *)

\* The bound on lifetimes is one.
LEMMA LongestIsLongest ==
    /\ LongestLifetime \in Nat
    /\ \A t \in Ttls \cup {NegativeTtl} : t \in Nat /\ t <= LongestLifetime
<1>1. LongestLifetime \in Ttls \cup {NegativeTtl}
        /\ \A t \in Ttls \cup {NegativeTtl} : t <= LongestLifetime
  BY CacheAssumption DEF LongestLifetime
<1>. QED  BY <1>1, CacheAssumption

\* A lifetime is a natural number of seconds, within the bound and, of an answer that
\* is admitted, within what the answer allows.
LEMMA LifetimeIsNat ==
    ASSUME NEW o \in Outcomes
    PROVE  /\ Lifetime(o) \in 0 .. LongestLifetime
           /\ o \in Admissible => Allowed(o) \in Nat /\ Lifetime(o) <= Allowed(o)
<1>1. o.ttl \in Ttls \cup {0}
  BY DEF Outcomes
<1>2. o.ttl \in 0 .. LongestLifetime
  BY <1>1, LongestIsLongest
<1>3. NegativeTtl \in 0 .. LongestLifetime
  BY LongestIsLongest
<1>4. NegativeTtl % U32Modulus \in 0 .. NegativeTtl
  BY CacheAssumption
<1>5. NegativeTtl % U32Modulus \in 0 .. LongestLifetime
  BY <1>3, <1>4, LongestIsLongest
<1>6. o \in Admissible => o.kind \in {"answer", "nodata", "nxdomain"}
  BY DEF Admissible, Outcomes
<1>. QED  BY <1>2, <1>3, <1>4, <1>5, <1>6 DEF Lifetime, Allowed, IsNegative

\* An entry that has just been computed is sound.
LEMMA NewEntryIsSound ==
    ASSUME NEW k \in Key, NEW o \in Admissible
    PROVE  /\ Sound(CacheEntry(k, o)) /\ CacheEntry(k, o).key = k
           /\ CacheEntry(k, o).left = Lifetime(o) /\ CacheEntry(k, o).outcome = o
<1>. DEFINE e == CacheEntry(k, o)
<1>0. o \in Outcomes
  BY DEF Admissible
<1>1. /\ e.key = k /\ e.outcome = o /\ e.left = Lifetime(o) /\ e.age = 0
      /\ e.negative = IsNegative(o)
  BY DEF CacheEntry
<1>2. Lifetime(o) \in 0 .. LongestLifetime
  BY <1>0, LifetimeIsNat
<1>3. IsNegative(o) \in BOOLEAN
  BY DEF IsNegative
<1>4. 0 \in 0 .. LongestLifetime
  BY LongestIsLongest
<1>5. e \in Entries
  BY <1>0, <1>2, <1>3, <1>4 DEF CacheEntry, Entries
<1>6. e.left > 0 => e.age + e.left <= Lifetime(e.outcome)
  BY <1>1, <1>2
<1>. QED  BY <1>1, <1>5, <1>6 DEF Sound

\* A passing second keeps an entry sound and takes a second from it.
LEMMA AgedIsSound ==
    ASSUME NEW e, Sound(e)
    PROVE  /\ Sound(Aged(e))
           /\ Aged(e).outcome = e.outcome /\ Aged(e).key = e.key
           /\ Aged(e).left = IF e.left = 0 THEN 0 ELSE e.left - 1
<1>. DEFINE R == [key : Key, outcome : Outcomes, negative : BOOLEAN, left : 0 .. LongestLifetime,
                  age : 0 .. LongestLifetime]
<1>0. e \in R
  BY DEF Sound, Entries
<1>1. e.outcome \in Outcomes /\ e.left \in 0 .. LongestLifetime /\ e.age \in 0 .. LongestLifetime
  BY <1>0
<1>2. CASE e.left = 0
  BY <1>2 DEF Aged
<1>3. CASE e.left # 0
  <2>. DEFINE later == e.left - 1
              older == e.age + 1
  <2>1. Lifetime(e.outcome) \in 0 .. LongestLifetime
    BY <1>1, LifetimeIsNat
  <2>2. /\ later \in 0 .. LongestLifetime /\ older \in 0 .. LongestLifetime
        /\ older + later <= Lifetime(e.outcome)
    BY <1>1, <1>3, <2>1, LongestIsLongest DEF Sound
  <2>3. Aged(e) = [e EXCEPT !.left = later, !.age = older]
    BY <1>3 DEF Aged
  <2>4. later = e.left - 1
    OBVIOUS
  <2>. HIDE DEF later, older
  <2>5. [e EXCEPT !.left = later, !.age = older] \in R
    BY <1>0, <2>2, Zenon
  <2>6. /\ Aged(e).outcome = e.outcome /\ Aged(e).key = e.key /\ Aged(e).negative = e.negative
        /\ Aged(e).left = later /\ Aged(e).age = older
    BY <1>0, <2>3
  <2>7. Aged(e) \in Entries
    BY <2>3, <2>5 DEF Entries
  <2>. QED  BY <1>3, <2>2, <2>4, <2>6, <2>7 DEF Sound
<1>. QED  BY <1>2, <1>3

\* An insert leaves other keys' entries alone, holds the new one and stays within the
\* map's capacity.
LEMMA InsertedIsBounded ==
    ASSUME NEW k \in Key, NEW e, NEW map \in Inserted(k, e),
           DOMAIN cache \subseteq Key, IsFiniteSet(DOMAIN cache),
           Cardinality(DOMAIN cache) <= Capacity
    PROVE  /\ DOMAIN map \subseteq Key
           /\ IsFiniteSet(DOMAIN map) /\ Cardinality(DOMAIN map) <= Capacity
           /\ \A x \in DOMAIN map : \/ x = k /\ map[x] = e
                                    \/ x \in DOMAIN cache /\ map[x] = cache[x]
<1>. DEFINE full == k \notin DOMAIN cache /\ Cardinality(DOMAIN cache) >= Capacity
<1>1. PICK gone \in IF full THEN DOMAIN cache ELSE {k} :
        map = [x \in (DOMAIN cache \ {gone}) \cup {k} |-> IF x = k THEN e ELSE cache[x]]
  BY Zenon DEF Inserted
<1>. DEFINE D == DOMAIN cache \ {gone}
<1>2. DOMAIN map = D \cup {k} /\ \A x \in DOMAIN map : map[x] = IF x = k THEN e ELSE cache[x]
  BY <1>1
<1>3. IsFiniteSet(D) /\ Cardinality(D) = IF gone \in DOMAIN cache THEN Cardinality(DOMAIN cache) - 1
                                         ELSE Cardinality(DOMAIN cache)
  BY FS_RemoveElement
<1>4. Cardinality(DOMAIN cache) \in Nat /\ Capacity \in Nat
  BY FS_CardinalityType, CacheAssumption
<1>5. IsFiniteSet(D \cup {k}) /\ Cardinality(D \cup {k}) = IF k \in D THEN Cardinality(D)
                                                          ELSE Cardinality(D) + 1
  BY <1>3, FS_AddElement, Zenon
<1>6. Cardinality(D \cup {k}) <= Capacity
  <2>1. CASE full
    BY <2>1, <1>1, <1>3, <1>4, <1>5
  <2>2. CASE ~full
    <3>1. gone = k
      BY <2>2, <1>1
    <3>2. k \notin D
      BY <3>1
    <3>. QED  BY <2>2, <3>1, <3>2, <1>3, <1>4, <1>5
  <2>. QED  BY <2>1, <2>2
<1>. QED  BY <1>2, <1>5, <1>6

\* How the promise sees a run in each of its forms.
LEMMA RunForms ==
    /\ RunOf(NoRun) = NoReply /\ Unchecked(NoRun) = {} /\ NoRun.at = "idle"
    /\ \A k, h, s : /\ Found(k, h, s).at = "found"
                    /\ RunOf(Found(k, h, s)) = IF h = "reused" THEN Torn ELSE NoReply
                    /\ Unchecked(Found(k, h, s)) = IF h = "reused" THEN {} ELSE s
    /\ \A k, h, s, o, t : /\ Past(k, h, s, o, t).at = "fresh"
                          /\ RunOf(Past(k, h, s, o, t)) = IF h = "reused" THEN Torn ELSE ReplyTo(k, o)
                          /\ Unchecked(Past(k, h, s, o, t)) = {}
<1>1. RunOf(NoRun) = NoReply /\ Unchecked(NoRun) = {} /\ NoRun.at = "idle"
  BY DEF RunOf, Unchecked, NoRun
<1>2. ASSUME NEW k, NEW h, NEW s
      PROVE  /\ Found(k, h, s).at = "found"
             /\ RunOf(Found(k, h, s)) = IF h = "reused" THEN Torn ELSE NoReply
             /\ Unchecked(Found(k, h, s)) = IF h = "reused" THEN {} ELSE s
  BY DEF RunOf, Unchecked, NoRun, Found
<1>3. ASSUME NEW k, NEW h, NEW s, NEW o, NEW t
      PROVE  /\ Past(k, h, s, o, t).at = "fresh"
             /\ RunOf(Past(k, h, s, o, t)) = IF h = "reused" THEN Torn ELSE ReplyTo(k, o)
             /\ Unchecked(Past(k, h, s, o, t)) = {}
  <2>1. Past(k, h, s, o, t).at = "fresh" /\ Past(k, h, s, o, t) # NoRun
    BY DEF Past, NoRun
  <2>. QED  BY <2>1 DEF RunOf, Unchecked, Past
<1>. QED  BY <1>1, <1>2, <1>3, Zenon

\* An insert leaves a run under way as the promise sees it, or tears it.
LEMMA RunIsOverwritten ==
    ASSUME RunOK(kernel), NEW x, NEW e, Sound(e), NEW map, NEW r \in Overwritten(x, e, map)
    PROVE  /\ RunOK(r)
           /\ Unchecked(r) \subseteq Unchecked(kernel)
           /\ RunOf(r) \in {RunOf(kernel), Torn}
<1>1. CASE r = kernel
  BY <1>1, Zenon
<1>2. ASSUME NEW k \in Key, NEW h, NEW s, kernel = Found(k, h, s), FoundOK(k, h, s), r # kernel
      PROVE  RunOK(r) /\ Unchecked(r) \subseteq Unchecked(kernel) /\ RunOf(r) \in {RunOf(kernel), Torn}
  <2>1. (r = Found(k, "freed", s) /\ h = "linked") \/ r = Found(k, "reused", s \cup {e})
    BY <1>2, Zenon DEF Overwritten, Frees, Mixed, Found
  <2>2. CASE r = Found(k, "freed", s) /\ h = "linked"
    <3>1. FoundOK(k, "freed", s)
      BY <1>2, <2>2 DEF FoundOK
    <3>2. RunOK(r)
      BY <2>2, <3>1, Zenon DEF RunOK
    <3>3. Unchecked(r) = Unchecked(kernel) /\ RunOf(r) = RunOf(kernel)
      BY <1>2, <2>2, RunForms
    <3>. QED  BY <3>2, <3>3, Zenon
  <2>3. CASE r = Found(k, "reused", s \cup {e})
    <3>1. FoundOK(k, "reused", s \cup {e})
      BY <1>2 DEF FoundOK
    <3>2. RunOK(r)
      BY <2>3, <3>1, Zenon DEF RunOK
    <3>3. Unchecked(r) = {} /\ RunOf(r) = Torn
      BY <2>3, RunForms, Zenon
    <3>. QED  BY <3>2, <3>3, Zenon
  <2>. QED  BY <2>1, <2>2, <2>3, Zenon
<1>3. ASSUME NEW k \in Key, NEW h, NEW s, NEW o, NEW t, r # kernel,
             kernel = Past(k, h, s, o, t), PastOK(k, h, s, o, t)
      PROVE  RunOK(r) /\ Unchecked(r) \subseteq Unchecked(kernel) /\ RunOf(r) \in {RunOf(kernel), Torn}
  <2>1. \/ r = Past(k, "freed", s, o, t) /\ h = "linked"
        \/ r = Past(k, "reused", s \cup {Content(e)}, o, t)
    BY <1>3, Zenon DEF Overwritten, Frees, Mixed, Past
  <2>2. CASE r = Past(k, "freed", s, o, t) /\ h = "linked"
    <3>1. PastOK(k, "freed", s, o, t)
      BY <1>3, <2>2 DEF PastOK
    <3>2. RunOK(r)
      BY <2>2, <3>1, Zenon DEF RunOK
    <3>3. Unchecked(r) = {} /\ RunOf(r) = RunOf(kernel)
      BY <1>3, <2>2, RunForms
    <3>. QED  BY <3>2, <3>3, Zenon
  <2>3. CASE r = Past(k, "reused", s \cup {Content(e)}, o, t)
    <3>1. PastOK(k, "reused", s \cup {Content(e)}, o, t)
      BY <1>3 DEF PastOK
    <3>2. RunOK(r)
      BY <2>3, <3>1, Zenon DEF RunOK
    <3>3. Unchecked(r) = {} /\ RunOf(r) = Torn
      BY <2>3, RunForms, ZenonT(60)
    <3>. QED  BY <3>2, <3>3, Zenon
  <2>. QED  BY <2>1, <2>2, <2>3, Zenon
<1>4. CASE kernel = NoRun
  BY <1>4, <1>1, Zenon DEF Overwritten
<1>. QED  BY <1>1, <1>2, <1>3, <1>4, Zenon DEF RunOK

-----------------------------------------------------------------------------
(* The invariant *)

\* An empty map, idle tasks and an idle kernel satisfy the invariant.
LEMMA CacheInit ==
    Init => CacheInv
<1>. SUFFICES ASSUME Init PROVE CacheInv
  OBVIOUS
<1>1. DOMAIN cache = {}
  BY DEF Init
<1>2. IsFiniteSet(DOMAIN cache) /\ Cardinality(DOMAIN cache) <= Capacity
  BY <1>1, FS_EmptySet, CacheAssumption
<1>3. \A w \in Writer : JobOK(pc[w], job[w])
  BY DEF Init, JobOK
<1>4. truth \in [Key -> Outcomes]
  BY DEF Init
<1>5. pc \in [Writer -> Statuses] /\ DOMAIN job = Writer
  BY DEF Init, Statuses
<1>6. attached \in BOOLEAN /\ RunOK(kernel) /\ SentOK(served)
  BY DEF Init, RunOK, SentOK
<1>. QED  BY <1>1, <1>2, <1>3, <1>4, <1>5, <1>6 DEF CacheInv

\* One task changing its locals, with the others as they were, keeps the part of the
\* invariant about tasks.
LEMMA OneTaskMoves ==
    ASSUME NEW w \in Writer, NEW status \in Statuses, NEW j, JobOK(status, j), CacheInv,
           pc' = [pc EXCEPT ![w] = status], job' = [job EXCEPT ![w] = j]
    PROVE  /\ pc' \in [Writer -> Statuses] /\ DOMAIN job' = Writer
           /\ \A v \in Writer : JobOK(pc'[v], job'[v])
           /\ pc'[w] = status /\ job'[w] = j
           /\ \A v \in Writer \ {w} : pc'[v] = pc[v] /\ job'[v] = job[v]
<1>1. /\ pc \in [Writer -> Statuses] /\ DOMAIN job = Writer
      /\ \A v \in Writer : JobOK(pc[v], job[v])
  BY DEF CacheInv
<1>2. /\ pc' \in [Writer -> Statuses] /\ DOMAIN job' = Writer
      /\ pc'[w] = status /\ job'[w] = j
      /\ \A v \in Writer \ {w} : pc'[v] = pc[v] /\ job'[v] = job[v]
  BY <1>1
<1>. QED  BY <1>1, <1>2

\* Resolving and after_request keep the invariant.
LEMMA WriterSteps ==
    ASSUME CacheInv, NEW w \in Writer, (\E k \in Key : Resolve(w, k)) \/ AfterRequest(w)
    PROVE  CacheInv'
<1>0. SentOK(NoReply)
  BY DEF SentOK
<1>1. ASSUME NEW k \in Key, Resolve(w, k) PROVE CacheInv'
  <2>1. PICK o \in {truth[k], [truth[k] EXCEPT !.bytes = FALSE],
                    [truth[k] EXCEPT !.kind = "servfail", !.ttl = 0, !.version = 0]} :
            job' = [job EXCEPT ![w] = [key |-> k, outcome |-> o]]
    BY <1>1, Zenon DEF Resolve
  <2>2. o \in Outcomes
    <3>. DEFINE Kinds == {"answer", "nodata", "nxdomain", "servfail"}
    <3>1. truth[k] \in [kind : Kinds, ttl : Ttls \cup {0}, version : 0 .. MaxVersion, bytes : BOOLEAN]
      BY DEF Outcomes, CacheInv
    <3>2. [truth[k] EXCEPT !.bytes = FALSE] \in Outcomes
      BY <3>1, Zenon DEF Outcomes
    <3>3. "servfail" \in Kinds /\ 0 \in Ttls \cup {0} /\ 0 \in 0 .. MaxVersion
      BY CacheAssumption
    <3>4. [truth[k] EXCEPT !.kind = "servfail", !.ttl = 0, !.version = 0] \in Outcomes
      BY <3>1, <3>3, Zenon DEF Outcomes
    <3>. QED  BY <2>1, <3>1, <3>2, <3>4, Zenon DEF Outcomes
  <2>3. JobOK("resolved", [key |-> k, outcome |-> o])
    BY <2>2 DEF JobOK
  <2>4. pc' = [pc EXCEPT ![w] = "resolved"] /\ served' = NoReply
        /\ UNCHANGED <<truth, cache, attached, kernel>>
    BY <1>1, Zenon DEF Resolve, Silent
  <2>5. "resolved" \in Statuses
    BY DEF Statuses
  <2>6. /\ pc' \in [Writer -> Statuses] /\ DOMAIN job' = Writer
        /\ \A v \in Writer : JobOK(pc'[v], job'[v])
    BY <2>1, <2>3, <2>4, <2>5, OneTaskMoves, Zenon
  <2>. QED  BY <1>0, <2>4, <2>6, Zenon DEF CacheInv
<1>2. ASSUME AfterRequest(w) PROVE CacheInv'
  <2>1. PICK k \in Key, o \in Outcomes : job[w] = [key |-> k, outcome |-> o]
    BY <1>2 DEF AfterRequest, CacheInv, JobOK
  <2>2. job[w].key = k /\ job[w].outcome = o
    BY <2>1
  <2>. DEFINE kept == CodeOf(o.kind) \in {"NoError", "NXDomain"} /\ o.bytes
              status == IF kept THEN "locking" ELSE "idle"
              j == IF kept THEN [key |-> k, entry |-> CacheEntry(k, o)] ELSE NoJob
  <2>3. pc' = [pc EXCEPT ![w] = status] /\ job' = [job EXCEPT ![w] = j]
    BY <1>2, <2>2 DEF AfterRequest
  <2>4. kept => o \in Admissible
    BY DEF Admissible, CodeOf
  <2>5. kept => /\ Sound(CacheEntry(k, o)) /\ CacheEntry(k, o) \in Entries
                /\ CacheEntry(k, o).key = k
    BY <2>4, NewEntryIsSound DEF Sound
  <2>6. JobOK(status, j) /\ status \in Statuses
    BY <2>5 DEF JobOK, Statuses
  <2>7. served' = NoReply /\ UNCHANGED <<truth, cache, attached, kernel>>
    BY <1>2 DEF AfterRequest, Silent
  <2>. HIDE DEF status, j
  <2>8. /\ pc' \in [Writer -> Statuses] /\ DOMAIN job' = Writer
        /\ \A v \in Writer : JobOK(pc'[v], job'[v])
    BY <2>3, <2>6, OneTaskMoves, Zenon
  <2>. QED  BY <1>0, <2>7, <2>8, Zenon DEF CacheInv
<1>. QED  BY <1>1, <1>2

\* The insert, or its failure, keeps the invariant.
LEMMA InsertStep ==
    ASSUME CacheInv, NEW w \in Writer, Insert(w)
    PROVE  CacheInv'
<1>1. PICK e \in Entries : Sound(e) /\ job[w] = [key |-> e.key, entry |-> e]
  BY DEF Insert, CacheInv, JobOK
<1>2. PICK k \in Key : k = e.key /\ job[w].key = k /\ job[w].entry = e
  BY <1>1 DEF Entries
<1>3. /\ pc' = [pc EXCEPT ![w] = "idle"] /\ job' = [job EXCEPT ![w] = NoJob]
      /\ \/ cache' \in Inserted(k, e) /\ kernel' \in Overwritten(k, e, cache')
         \/ UNCHANGED <<cache, kernel>>
      /\ served' = NoReply /\ UNCHANGED <<truth, attached>>
  BY <1>2, Zenon DEF Insert, Silent
<1>4. /\ DOMAIN cache' \subseteq Key
      /\ IsFiniteSet(DOMAIN cache') /\ Cardinality(DOMAIN cache') <= Capacity
      /\ \A x \in DOMAIN cache' : Sound(cache'[x]) /\ cache'[x].key = x
  <2>0. /\ DOMAIN cache \subseteq Key /\ IsFiniteSet(DOMAIN cache)
        /\ Cardinality(DOMAIN cache) <= Capacity
        /\ \A x \in DOMAIN cache : Sound(cache[x]) /\ cache[x].key = x
    BY DEF CacheInv
  <2>1. CASE cache' = cache
    BY <2>0, <2>1
  <2>2. CASE cache' \in Inserted(k, e)
    <3>1. /\ DOMAIN cache' \subseteq Key
          /\ IsFiniteSet(DOMAIN cache') /\ Cardinality(DOMAIN cache') <= Capacity
          /\ \A x \in DOMAIN cache' : \/ x = k /\ cache'[x] = e
                                      \/ x \in DOMAIN cache /\ cache'[x] = cache[x]
      BY <2>0, <2>2, InsertedIsBounded
    <3>. QED  BY <3>1, <1>1, <1>2, <2>0
  <2>. QED  BY <1>3, <2>1, <2>2
<1>5. JobOK("idle", NoJob) /\ "idle" \in Statuses
  BY DEF JobOK, Statuses
<1>6. /\ pc' \in [Writer -> Statuses] /\ DOMAIN job' = Writer
      /\ \A v \in Writer : JobOK(pc'[v], job'[v])
  BY <1>3, <1>5, OneTaskMoves, Zenon
<1>7. RunOK(kernel')
  <2>1. RunOK(kernel)
    BY DEF CacheInv
  <2>2. CASE kernel' \in Overwritten(k, e, cache')
    <3>1. PICK map, r : map = cache' /\ r = kernel' /\ r \in Overwritten(k, e, map)
      BY <2>2, Zenon
    <3>. QED  BY <1>1, <2>1, <3>1, RunIsOverwritten, Zenon
  <2>. QED  BY <1>3, <2>1, <2>2, Zenon
<1>8. SentOK(served')
  BY <1>3 DEF SentOK
<1>. QED  BY <1>3, <1>4, <1>6, <1>7, <1>8, Zenon DEF CacheInv

\* What the kernel sends from the element of a run: a code of an admitted answer, and
\* all of the promised reply unless the element was reused.
LEMMA RepliesRepeat ==
    ASSUME NEW k, NEW h, NEW s, NEW o, NEW t, PastOK(k, h, s, o, t), NEW r \in Replies(k, s)
    PROVE  r.code \in {"NoError", "NXDomain"} /\ (h # "reused" => r = ReplyTo(k, o))
<1>1. PICK c \in s : r \in IF c.negative THEN Negative(k, s) ELSE Positive(s)
  BY Zenon DEF Replies
<1>. DEFINE c0 == [key |-> k, outcome |-> o, negative |-> IsNegative(o)]
<1>2. h # "reused" => s = {c0} /\ c = c0
  BY <1>1 DEF PastOK
<1>3. c0.key = k /\ c0.outcome = o /\ c0.negative = IsNegative(o)
  OBVIOUS
<1>4. CASE c.negative
  <2>1. r = [key |-> k, code |-> "NXDomain", data |-> {}]
    BY <1>1, <1>4, Zenon DEF Negative
  <2>2. h # "reused" => o.kind = "nxdomain"
    BY <1>2, <1>3, <1>4, Zenon DEF IsNegative
  <2>. QED  BY <2>1, <2>2 DEF ReplyTo, CodeOf
<1>5. CASE ~c.negative
  <2>1. PICK e \in s, rest \in (SUBSET s) \ {{}} :
            r = [key |-> BytesOf(e).key, code |-> BytesOf(e).code,
                 data |-> UNION {BytesOf(x).data : x \in rest}]
    BY <1>1, <1>5, SMTT(30) DEF Positive
  <2>2. r.code = CodeOf(e.outcome.kind)
    BY <2>1 DEF BytesOf
  <2>3. e.outcome.kind \in {"answer", "nodata", "nxdomain"}
    BY DEF PastOK, Content, Sound, Admissible, Outcomes
  <2>4. ASSUME h # "reused" PROVE r = ReplyTo(k, o)
    <3>1. e = c0 /\ rest = {c0}
      <4>. HIDE DEF c0
      <4>. QED  BY <1>2, <2>1, <2>4
    <3>2. BytesOf(c0) = [key |-> k, code |-> CodeOf(o.kind), data |-> {o.version}]
      BY <1>3 DEF BytesOf
    <3>3. UNION {BytesOf(x).data : x \in rest} = {o.version}
      <4>1. BytesOf(c0).data = {o.version}
        BY <3>2
      <4>. HIDE DEF c0
      <4>. QED  BY <3>1, <4>1
    <3>4. o.kind # "nxdomain"
      BY <1>2, <1>3, <1>5, <2>4, Zenon DEF IsNegative
    <3>5. r = [key |-> k, code |-> CodeOf(o.kind), data |-> {o.version}]
      BY <2>1, <3>1, <3>2, <3>3
    <3>. QED  BY <3>4, <3>5 DEF ReplyTo
  <2>. QED  BY <2>2, <2>3, <2>4 DEF CodeOf
<1>. QED  BY <1>4, <1>5

\* A live entry has not used up what its answer allows.
LEMMA LiveIsInTime ==
    ASSUME NEW e, Sound(e), Fresh(e)
    PROVE  e.age < Allowed(e.outcome)
<1>1. e.left \in Int /\ e.age \in Int /\ e.outcome \in Outcomes
  BY LongestIsLongest DEF Sound, Entries
<1>2. /\ Lifetime(e.outcome) \in 0 .. LongestLifetime
      /\ Allowed(e.outcome) \in Nat /\ Lifetime(e.outcome) <= Allowed(e.outcome)
  BY <1>1, LifetimeIsNat DEF Sound
<1>. QED  BY <1>1, <1>2 DEF Sound, Fresh

\* What a run is, from how far it is.
LEMMA RunIs ==
    ASSUME RunOK(kernel)
    PROVE  /\ kernel.at = "found" => \E k \in Key : \E h, s : kernel = Found(k, h, s) /\ FoundOK(k, h, s)
           /\ kernel.at = "fresh" => \E k \in Key : \E h, s, o, t :
                                        kernel = Past(k, h, s, o, t) /\ PastOK(k, h, s, o, t)
           /\ kernel.at \notin {"found", "fresh"} => kernel = NoRun
BY RunForms DEF RunOK

\* Checking the expiry of a run's element.
LEMMA CheckedIs ==
    ASSUME NEW k \in Key, NEW h, NEW s, kernel = Found(k, h, s), FoundOK(k, h, s), KernelCheck
    PROVE  \/ kernel' = NoRun
           \/ \E e \in s : \E t :
                /\ Fresh(e)
                /\ kernel' = Past(k, h, {Content(x) : x \in s}, e.outcome, t)
                /\ PastOK(k, h, {Content(x) : x \in s}, e.outcome, t)
<1>1. kernel.key = k /\ kernel.held = h /\ kernel.element = s
  BY DEF Found
<1>2. PICK e \in s :
        kernel' = IF Fresh(e)
                  THEN [at |-> "fresh", key |-> k, held |-> h,
                        element |-> {Content(x) : x \in s},
                        checked |-> e.outcome, inTime |-> e.age < Allowed(e.outcome)]
                  ELSE NoRun
  BY <1>1, Zenon DEF KernelCheck
<1>3. CASE Fresh(e)
  <2>. DEFINE t == e.age < Allowed(e.outcome)
              c == {Content(x) : x \in s}
  <2>1. kernel' = Past(k, h, c, e.outcome, t)
    BY <1>2, <1>3, Zenon DEF Past
  <2>2. Sound(e)
    BY DEF FoundOK
  <2>3. t
    BY <1>3, <2>2, LiveIsInTime
  <2>4. t = TRUE
    BY <2>3, Zenon
  <2>5. e.outcome \in Admissible
    BY <2>2 DEF Sound
  <2>6. \A x \in c : \E y : Sound(y) /\ x = Content(y)
    BY DEF FoundOK
  <2>7. ASSUME h # "reused"
        PROVE  c = {[key |-> k, outcome |-> e.outcome, negative |-> IsNegative(e.outcome)]}
    <3>1. s = {e} /\ e.key = k
      BY <1>2, <2>7 DEF FoundOK
    <3>2. Content(e) = [key |-> k, outcome |-> e.outcome, negative |-> IsNegative(e.outcome)]
      BY <2>2, <3>1, Zenon DEF Content, Sound
    <3>3. c = {Content(e)}
      BY <3>1
    <3>. QED  BY <3>2, <3>3, Zenon
  <2>. HIDE DEF t, c
  <2>8. PastOK(k, h, c, e.outcome, t)
    BY <2>4, <2>5, <2>6, <2>7, Zenon DEF PastOK
  <2>. QED  BY <1>3, <2>1, <2>8 DEF c
<1>4. CASE ~Fresh(e)
  BY <1>2, <1>4
<1>. QED  BY <1>3, <1>4, Zenon

\* Every step of the kernel program keeps the invariant.
LEMMA KernelSteps ==
    ASSUME CacheInv,
           (\E k \in Key : KernelLookup(k)) \/ KernelCheck \/ KernelReply \/ KernelGivesUp
    PROVE  CacheInv'
<1>0. RunOK(kernel) /\ SentOK(NoReply) /\ RunOK(NoRun)
  BY DEF CacheInv, SentOK, RunOK
<1>1. UNCHANGED <<truth, cache, attached, pc, job>>
  BY DEF KernelLookup, KernelCheck, KernelReply, KernelGivesUp
<1>. SUFFICES RunOK(kernel') /\ SentOK(served')
  BY <1>1, Zenon DEF CacheInv
<1>2. ASSUME NEW k \in Key, KernelLookup(k) PROVE RunOK(kernel') /\ SentOK(served')
  <2>1. k \in DOMAIN cache /\ kernel' = Found(k, "linked", {cache[k]}) /\ served' = NoReply
    BY <1>2, Zenon DEF KernelLookup, Found, Silent
  <2>2. FoundOK(k, "linked", {cache[k]})
    BY <2>1 DEF FoundOK, CacheInv
  <2>. QED  BY <1>0, <2>1, <2>2, Zenon DEF RunOK
<1>3. ASSUME KernelCheck PROVE RunOK(kernel') /\ SentOK(served')
  <2>1. PICK k, h, s : k \in Key /\ kernel = Found(k, h, s) /\ FoundOK(k, h, s)
    BY <1>0, <1>3, RunIs, Zenon DEF KernelCheck
  <2>2. served' = NoReply
    BY <1>3, Zenon DEF KernelCheck, Silent
  <2>3. RunOK(kernel')
    BY <1>0, <1>3, <2>1, CheckedIs, Zenon DEF RunOK
  <2>. QED  BY <1>0, <2>2, <2>3, Zenon
<1>4. ASSUME KernelReply PROVE RunOK(kernel') /\ SentOK(served')
  <2>1. PICK k, h, s, o, t : k \in Key /\ kernel = Past(k, h, s, o, t) /\ PastOK(k, h, s, o, t)
    BY <1>0, <1>4, RunIs, Zenon DEF KernelReply
  <2>2. kernel.key = k /\ kernel.element = s /\ kernel.held = h /\ kernel.checked = o
    BY <2>1 DEF Past
  <2>3. PICK r \in Replies(k, s) : served' = Sent(h, o, r)
    BY <1>4, <2>2, Zenon DEF KernelReply, Sent
  <2>4. r.code \in {"NoError", "NXDomain"} /\ (h # "reused" => r = ReplyTo(k, o))
    BY <2>1, <2>3, RepliesRepeat, SMTT(30)
  <2>5. o \in Admissible /\ kernel' = NoRun
    BY <1>4, <2>1, Zenon DEF PastOK, KernelReply
  <2>. QED  BY <1>0, <2>3, <2>4, <2>5, Zenon DEF SentOK
<1>5. ASSUME KernelGivesUp PROVE RunOK(kernel') /\ SentOK(served')
  BY <1>0, <1>5, Zenon DEF KernelGivesUp, Silent
<1>. QED  BY <1>2, <1>3, <1>4, <1>5, ZenonT(60)

\* A second passes for the entry a run is about to check.
LEMMA RunAges ==
    ASSUME RunOK(kernel), NEW r,
           r = IF kernel.at = "found"
               THEN [kernel EXCEPT !.element = {Aged(e) : e \in @}] ELSE kernel
    PROVE  /\ RunOK(r) /\ RunOf(r) = RunOf(kernel)
           /\ Unchecked(r) = {Aged(e) : e \in Unchecked(kernel)}
           /\ \A e \in Unchecked(kernel) : Sound(e)
<1>1. CASE kernel.at # "found"
  <2>1. Unchecked(kernel) = {} /\ r = kernel
    BY <1>1 DEF Unchecked
  <2>. QED  BY <2>1
<1>2. CASE kernel.at = "found"
  <2>1. PICK k, h, s : k \in Key /\ kernel = Found(k, h, s) /\ FoundOK(k, h, s)
    BY <1>2, RunIs, Zenon
  <2>. DEFINE later == {Aged(e) : e \in s}
  <2>2. r = [Found(k, h, s) EXCEPT !.element = later]
    <3>1. kernel.element = s
      BY <2>1 DEF Found
    <3>. QED  BY <1>2, <2>1, <3>1, Zenon
  <2>3. r = Found(k, h, later)
    <3>. HIDE DEF later
    <3>. QED  BY <2>2 DEF Found
  <2>4. (\A e \in later : Sound(e)) /\ \A e \in s : Sound(e)
    BY <2>1, AgedIsSound DEF FoundOK
  <2>5. ASSUME h # "reused" PROVE \E e \in later : later = {e} /\ e.key = k
    <3>1. PICK e \in s : s = {e} /\ e.key = k /\ Sound(e)
      BY <2>1, <2>5 DEF FoundOK
    <3>2. later = {Aged(e)} /\ Aged(e).key = k
      BY <3>1, AgedIsSound
    <3>. QED  BY <3>2
  <2>6. RunOf(r) = RunOf(kernel) /\ Unchecked(r) = {Aged(e) : e \in Unchecked(kernel)}
        /\ Unchecked(kernel) \subseteq s
    <3>0. /\ RunOf(kernel) = IF h = "reused" THEN Torn ELSE NoReply
          /\ Unchecked(kernel) = IF h = "reused" THEN {} ELSE s
          /\ RunOf(r) = IF h = "reused" THEN Torn ELSE NoReply
          /\ Unchecked(r) = IF h = "reused" THEN {} ELSE later
      <4>. HIDE DEF later
      <4>1. RunOf(Found(k, h, s)) = (IF h = "reused" THEN Torn ELSE NoReply)
        BY RunForms, Zenon
      <4>2. Unchecked(Found(k, h, s)) = (IF h = "reused" THEN {} ELSE s)
        BY RunForms, Zenon
      <4>3. RunOf(Found(k, h, later)) = (IF h = "reused" THEN Torn ELSE NoReply)
        BY RunForms, Zenon
      <4>4. Unchecked(Found(k, h, later)) = (IF h = "reused" THEN {} ELSE later)
        BY RunForms, Zenon
      <4>. QED  BY <2>1, <2>3, <4>1, <4>2, <4>3, <4>4
    <3>1. CASE h = "reused"
      BY <3>0, <3>1
    <3>2. CASE h # "reused"
      BY <3>0, <3>2, Zenon
    <3>. QED  BY <3>1, <3>2
  <2>. HIDE DEF later
  <2>7. FoundOK(k, h, later)
    BY <2>4, <2>5 DEF FoundOK
  <2>8. RunOK(r)
    BY <2>1, <2>3, <2>7, Zenon DEF RunOK
  <2>. QED  BY <2>4, <2>6, <2>8, Zenon
<1>. QED  BY <1>1, <1>2

\* Time and changing answers keep the invariant.
LEMMA WorldSteps ==
    ASSUME CacheInv, Tick \/ \E k \in Key : AuthorityChanges(k)
    PROVE  CacheInv'
<1>0. SentOK(NoReply)
  BY DEF SentOK
<1>1. ASSUME NEW k \in Key, AuthorityChanges(k) PROVE CacheInv'
  <2>1. truth' \in [Key -> Outcomes]
    BY <1>1 DEF AuthorityChanges, CacheInv
  <2>2. UNCHANGED <<cache, attached, pc, job, kernel>> /\ served' = NoReply
    BY <1>1, Zenon DEF AuthorityChanges, Silent
  <2>. QED  BY <1>0, <2>1, <2>2, Zenon DEF CacheInv
<1>2. ASSUME Tick PROVE CacheInv'
  <2>1. /\ UNCHANGED <<truth, attached, pc>> /\ served' = NoReply /\ DOMAIN job' = Writer
        /\ DOMAIN cache' = DOMAIN cache /\ \A k \in DOMAIN cache : cache'[k] = Aged(cache[k])
        /\ \A w \in Writer : job'[w] = IF pc[w] = "locking"
                                       THEN [job[w] EXCEPT !.entry = Aged(job[w].entry)] ELSE job[w]
    BY <1>2 DEF Tick, Silent
  <2>2. \A k \in DOMAIN cache' : Sound(cache'[k]) /\ cache'[k].key = k
    BY <2>1, AgedIsSound DEF CacheInv
  <2>3. ASSUME NEW w \in Writer PROVE JobOK(pc'[w], job'[w])
    <3>1. JobOK(pc[w], job[w]) /\ pc'[w] = pc[w]
      BY <2>1 DEF CacheInv
    <3>2. CASE pc[w] # "locking"
      BY <2>1, <3>1, <3>2
    <3>3. CASE pc[w] = "locking"
      <4>1. PICK e \in Entries : Sound(e) /\ job[w] = [key |-> e.key, entry |-> e]
        BY <3>1, <3>3 DEF JobOK
      <4>2. job'[w] = [key |-> e.key, entry |-> Aged(e)]
        BY <2>1, <3>3, <4>1
      <4>3. Sound(Aged(e)) /\ Aged(e) \in Entries /\ Aged(e).key = e.key
        BY <4>1, AgedIsSound DEF Sound
      <4>. QED  BY <3>1, <3>3, <4>2, <4>3 DEF JobOK
    <3>. QED  BY <3>2, <3>3
  <2>4. RunOK(kernel')
    <3>1. PICK r : r = kernel'
      OBVIOUS
    <3>2. r = IF kernel.at = "found"
              THEN [kernel EXCEPT !.element = {Aged(e) : e \in @}] ELSE kernel
      BY <1>2, <3>1, Zenon DEF Tick
    <3>. QED  BY <3>1, <3>2, RunAges, Zenon DEF CacheInv
  <2>. QED  BY <1>0, <2>1, <2>2, <2>3, <2>4, Zenon DEF CacheInv
<1>. QED  BY <1>1, <1>2, SMTT(30)

\* The end of a process and the start of the next keep the invariant.
LEMMA LifecycleSteps ==
    ASSUME CacheInv, Stop \/ Start
    PROVE  CacheInv'
<1>0. SentOK(NoReply)
  BY DEF SentOK
<1>1. ASSUME Stop PROVE CacheInv'
  <2>1. /\ UNCHANGED <<truth, cache, kernel>> /\ attached' = FALSE /\ served' = NoReply
        /\ pc' = [w \in Writer |-> "idle"] /\ job' = [w \in Writer |-> NoJob]
    BY <1>1 DEF Stop, Silent
  <2>2. pc' \in [Writer -> Statuses] /\ DOMAIN job' = Writer
    BY <2>1 DEF Statuses
  <2>3. \A w \in Writer : JobOK(pc'[w], job'[w])
    BY <2>1 DEF JobOK
  <2>. QED  BY <1>0, <2>1, <2>2, <2>3, Zenon DEF CacheInv
<1>2. ASSUME Start PROVE CacheInv'
  <2>1. /\ UNCHANGED <<truth, pc, job, kernel>> /\ attached' = TRUE /\ served' = NoReply
        /\ cache' = cache \/ DOMAIN cache' = {}
    BY <1>2, SMTT(30) DEF Start, Silent
  <2>2. /\ DOMAIN cache' \subseteq Key /\ \A k \in DOMAIN cache' : Sound(cache'[k]) /\ cache'[k].key = k
        /\ IsFiniteSet(DOMAIN cache') /\ Cardinality(DOMAIN cache') <= Capacity
    BY <2>1, FS_EmptySet, CacheAssumption DEF CacheInv
  <2>. QED  BY <1>0, <2>1, <2>2, Zenon DEF CacheInv
<1>. QED  BY <1>1, <1>2

\* Every step keeps the invariant.
LEMMA CacheStep ==
    ASSUME CacheInv, [Next]_vars
    PROVE  CacheInv'
<1>1. CASE UNCHANGED vars
  BY <1>1, Zenon DEF vars, CacheInv
<1>. QED
  BY <1>1, WriterSteps, InsertStep, KernelSteps, WorldSteps, LifecycleSteps, SMTT(30) DEF Next, Step

\* TypeOK for every instance: the map never outgrows its capacity, and the entries,
\* the tasks' locals and the run of the program are well formed.
THEOREM CacheTypeCorrect ==
    Spec => []TypeOK
<1>1. CacheInv => TypeOK
  <2>. SUFFICES ASSUME CacheInv PROVE TypeOK
    OBVIOUS
  <2>1. \A k \in DOMAIN cache : cache[k] \in Entries /\ cache[k].key = k
    BY DEF CacheInv, Sound
  <2>2. ASSUME NEW w \in Writer
        PROVE  /\ pc[w] = "idle" <=> job[w] = NoJob
               /\ pc[w] = "resolved" => job[w].outcome \in Outcomes
               /\ pc[w] = "locking" => job[w].entry \in Entries
    <3>1. JobOK(pc[w], job[w]) /\ pc[w] \in Statuses
      BY DEF CacheInv
    <3>2. CASE pc[w] = "idle"
      BY <3>1, <3>2 DEF JobOK
    <3>3. CASE pc[w] = "resolved"
      <4>1. PICK k \in Key, o \in Outcomes : job[w] = [key |-> k, outcome |-> o]
        BY <3>1, <3>3, SMTT(30) DEF JobOK
      <4>2. "outcome" \in DOMAIN job[w] /\ "outcome" \notin DOMAIN NoJob
        BY <4>1 DEF NoJob
      <4>. QED  BY <3>3, <4>1, <4>2, SMTT(30)
    <3>4. CASE pc[w] = "locking"
      <4>1. PICK e \in Entries : job[w] = [key |-> e.key, entry |-> e]
        BY <3>1, <3>4 DEF JobOK
      <4>2. "entry" \in DOMAIN job[w] /\ "entry" \notin DOMAIN NoJob
        BY <4>1, SMTT(30) DEF NoJob
      <4>. QED  BY <3>4, <4>1, <4>2
    <3>. QED  BY <3>1, <3>2, <3>3, <3>4, SMTT(30) DEF Statuses
  <2>3. kernel = NoRun \/ kernel.key \in Key
    BY DEF CacheInv, RunOK, Found, Past
  <2>4. ASSUME kernel.at = "found" PROVE kernel.element \subseteq Entries
    <3>1. PICK k, h, s : k \in Key /\ kernel = Found(k, h, s) /\ FoundOK(k, h, s)
      BY <2>4, RunIs, Zenon DEF CacheInv
    <3>. QED  BY <3>1 DEF Found, FoundOK, Sound
  <2>. QED  BY <2>1, <2>2, <2>3, <2>4 DEF CacheInv, TypeOK, Statuses
<1>. QED  BY CacheInit, CacheStep, <1>1, PTL DEF Spec

\* ServedWithinLifetime for every instance: whatever the order in which the tasks of
\* XdpCacheMiddleware resolve, read the clock and insert, whatever process wrote the
\* pinned map and whatever is written over the element meanwhile, the eBPF program
\* goes on to answer only if the answer whose expiry it read is within its time.
THEOREM KernelServesWithinLifetime ==
    Spec => []ServedWithinLifetime
<1>1. CacheInv => ServedWithinLifetime
  <2>. SUFFICES ASSUME CacheInv, kernel.at = "fresh" PROVE kernel.inTime
    BY DEF ServedWithinLifetime
  <2>1. PICK k, h, s, o, t : k \in Key /\ kernel = Past(k, h, s, o, t) /\ PastOK(k, h, s, o, t)
    BY RunIs, Zenon DEF CacheInv
  <2>2. kernel.inTime = t
    BY <2>1 DEF Past
  <2>. QED  BY <2>1, <2>2, Zenon DEF PastOK
<1>. QED  BY CacheInit, CacheStep, <1>1, PTL DEF Spec

\* ServedCodeIsTheAnswers for every instance: the code of a kernel reply is the code
\* of an answer that after_request admitted, and of the one whose expiry was read unless
\* the element was reused.
THEOREM KernelRepeatsTheCode ==
    Spec => []ServedCodeIsTheAnswers
<1>1. CacheInv => ServedCodeIsTheAnswers
  <2>. SUFFICES ASSUME CacheInv, served.from = "cache"
                PROVE  /\ served.reply.code # "ServFail"
                       /\ served.held # "reused" => served.reply.code = CodeOf(served.checked.kind)
    BY DEF ServedCodeIsTheAnswers
  <2>1. served # NoReply
    BY SMTT(30) DEF NoReply
  <2>2. PICK h, r, k, o : /\ served = Sent(h, o, r)
                          /\ r.code \in {"NoError", "NXDomain"}
                          /\ h # "reused" => r = ReplyTo(k, o)
    BY <2>1, SMTT(30) DEF CacheInv, SentOK
  <2>3. served.reply = r /\ served.held = h /\ served.checked = o
    BY <2>2 DEF Sent
  <2>4. ReplyTo(k, o).code = CodeOf(o.kind)
    BY DEF ReplyTo
  <2>. QED  BY <2>2, <2>3, <2>4
<1>. QED  BY CacheInit, CacheStep, <1>1, PTL DEF Spec

-----------------------------------------------------------------------------
(* Refinement *)

\* What a state's leases are, without the set constructors.
LEMMA LeasesAre ==
    /\ \A l : l \in LiveLeases <=> \E e \in Live : e.left > 0 /\ l = LeaseOf(e)
    /\ \A e : e \in Live <=> \/ \E k \in DOMAIN cache : e = cache[k]
                             \/ \E w \in Writer : pc[w] = "locking" /\ e = job[w].entry
                             \/ e \in Unchecked(kernel)
BY DEF LiveLeases, Live

\* The same of the next state.
LEMMA LeasesWillBe ==
    /\ \A l : l \in LiveLeases' <=> \E e \in Live' : e.left > 0 /\ l = LeaseOf(e)
    /\ \A e : e \in Live' <=> \/ \E k \in DOMAIN cache' : e = cache'[k]
                              \/ \E w \in Writer : pc'[w] = "locking" /\ e = job'[w].entry
                              \/ e \in Unchecked(kernel')
BY DEF LiveLeases, Live, LeaseOf, Unchecked

SentReply == IF served.from = "none" THEN NoReply
             ELSE IF served.held = "reused" THEN Torn ELSE served.reply

\* A step that keeps no entry that was not there gives up leases, or none.
LEMMA NothingIsGranted ==
    ASSUME \A e : e \in Live' => e \in Live
    PROVE  LiveLeases' \subseteq LiveLeases
BY LeasesAre, LeasesWillBe, Zenon

\* A step that gives up leases or a run, or tears it, and sends nothing.
LEMMA ForgetsSilently ==
    ASSUME LiveLeases' \subseteq LiveLeases, served' = NoReply,
           RunOf(kernel)' \in {RunOf(kernel), NoReply, Torn}
    PROVE  Lease!Next
<1>1. SentReply' = NoReply
  BY DEF SentReply, NoReply
<1>2. Lease!Forget \/ Lease!Tear
  BY <1>1 DEF Lease!Forget, Lease!Tear, SentReply
<1>. QED  BY <1>2 DEF Lease!Next

\* An entry of the map after an insert, or its error, is the new one or was there.
LEMMA InsertedIsOldOrNew ==
    ASSUME NEW k, NEW e, NEW map, map \in Inserted(k, e) \cup {cache}
    PROVE  \A x \in DOMAIN map : \/ x = k /\ map[x] = e
                                 \/ x \in DOMAIN cache /\ map[x] = cache[x]
<1>1. CASE map \in Inserted(k, e)
  <2>1. PICK gone : map = [x \in (DOMAIN cache \ {gone}) \cup {k} |-> IF x = k THEN e ELSE cache[x]]
    BY <1>1, Zenon DEF Inserted
  <2>. QED  BY <2>1
<1>. QED  BY <1>1, Zenon

\* after_request grants a lease, or drops the outcome.
LEMMA AfterRequestGrants ==
    ASSUME CacheInv, NEW w \in Writer, AfterRequest(w)
    PROVE  Lease!Next
<1>1. PICK k \in Key, o \in Outcomes : job[w] = [key |-> k, outcome |-> o]
  BY DEF AfterRequest, CacheInv, JobOK
<1>2. job[w].key = k /\ job[w].outcome = o /\ pc[w] = "resolved"
  BY <1>1, SMTT(30) DEF AfterRequest
<1>3. pc \in [Writer -> Statuses] /\ DOMAIN job = Writer
  BY DEF CacheInv
<1>4. /\ served' = NoReply /\ cache' = cache /\ kernel' = kernel
      /\ \A v \in Writer \ {w} : pc'[v] = pc[v] /\ job'[v] = job[v]
  BY <1>3 DEF AfterRequest, Silent
<1>5. RunOf(kernel)' = RunOf(kernel) /\ Unchecked(kernel') = Unchecked(kernel)
  BY <1>4, Zenon DEF RunOf
<1>6. CASE CodeOf(o.kind) \in {"NoError", "NXDomain"} /\ o.bytes
  <2>. DEFINE e == CacheEntry(k, o)
              l == LeaseOf(e)
  <2>1. pc'[w] = "locking" /\ job'[w].entry = e
    BY <1>2, <1>3, <1>6 DEF AfterRequest
  <2>2. o \in Admissible
    BY <1>6 DEF Admissible, CodeOf
  <2>3. e.left = Lifetime(o) /\ e.outcome = o /\ e.key = k
    BY <2>2, NewEntryIsSound, SMTT(30)
  <2>4. l.key \in Key /\ l.answer \in Admissible /\ l.left = Lifetime(l.answer)
    BY <2>2, <2>3, SMTT(30) DEF LeaseOf
  <2>. HIDE DEF e
  <2>5. \A x : x \in Live' <=> x \in Live \/ x = e
    BY <1>2, <1>4, <1>5, <2>1, LeasesAre, LeasesWillBe
  <2>6. \A m : m \in LiveLeases' <=> m \in LiveLeases \/ (e.left > 0 /\ m = l)
    BY <2>5, LeasesAre, LeasesWillBe, ZenonT(60)
  <2>. HIDE DEF l
  <2>7. CASE e.left > 0
    <3>1. LiveLeases' = LiveLeases \cup {l} /\ l \in LiveLeases'
      BY <2>6, <2>7, Zenon
    <3>2. SentReply' = NoReply
      BY <1>4 DEF SentReply, NoReply
    <3>3. Lease!Grant
      BY <1>5, <2>4, <3>1, <3>2, Zenon DEF Lease!Grant, SentReply
    <3>. QED  BY <3>3, Zenon DEF Lease!Next
  <2>8. CASE ~(e.left > 0)
    <3>1. LiveLeases' \subseteq LiveLeases
      BY <2>6, <2>8, Zenon
    <3>. QED  BY <3>1, <1>4, <1>5, ForgetsSilently, Zenon
  <2>. QED  BY <2>7, <2>8
<1>7. CASE ~(CodeOf(o.kind) \in {"NoError", "NXDomain"} /\ o.bytes)
  <2>1. pc'[w] = "idle"
    BY <1>2, <1>3, <1>7, SMTT(30) DEF AfterRequest
  <2>2. \A e : e \in Live' => e \in Live
    BY <1>4, <1>5, <2>1, LeasesAre, LeasesWillBe
  <2>. QED  BY <2>2, <1>4, <1>5, NothingIsGranted, ForgetsSilently, Zenon
<1>. QED  BY <1>6, <1>7, SMTT(30)

\* Resolving grants nothing, and inserting hands the task's lease to the map.
LEMMA WritersGrantNothing ==
    ASSUME CacheInv, NEW w \in Writer, (\E k \in Key : Resolve(w, k)) \/ Insert(w)
    PROVE  Lease!Next
<1>0. pc \in [Writer -> Statuses] /\ DOMAIN job = Writer
  BY DEF CacheInv
<1>1. ASSUME NEW k \in Key, Resolve(w, k) PROVE Lease!Next
  <2>1. /\ served' = NoReply /\ cache' = cache /\ kernel' = kernel /\ pc'[w] = "resolved"
        /\ \A v \in Writer \ {w} : pc'[v] = pc[v] /\ job'[v] = job[v]
    BY <1>0, <1>1, Zenon DEF Resolve, Silent
  <2>2. RunOf(kernel)' = RunOf(kernel) /\ Unchecked(kernel') = Unchecked(kernel)
    BY <2>1, Zenon DEF RunOf
  <2>3. \A e : e \in Live' => e \in Live
    BY <2>1, <2>2, LeasesAre, LeasesWillBe, SMTT(30)
  <2>. QED  BY <2>1, <2>2, <2>3, NothingIsGranted, ForgetsSilently, Zenon
<1>2. ASSUME Insert(w) PROVE Lease!Next
  <2>1. PICK e \in Entries : Sound(e) /\ job[w] = [key |-> e.key, entry |-> e]
    BY <1>2, Zenon DEF Insert, CacheInv, JobOK
  <2>2. PICK k : job[w].key = k /\ job[w].entry = e
    BY <2>1
  <2>3. /\ served' = NoReply /\ pc[w] = "locking" /\ pc'[w] = "idle"
        /\ \A v \in Writer \ {w} : pc'[v] = pc[v] /\ job'[v] = job[v]
        /\ \/ cache' \in Inserted(k, e) /\ kernel' \in Overwritten(k, e, cache')
           \/ UNCHANGED <<cache, kernel>>
    BY <1>0, <1>2, <2>2, Zenon DEF Insert, Silent
  <2>4. \A x \in DOMAIN cache' : cache'[x] = e \/ (x \in DOMAIN cache /\ cache'[x] = cache[x])
    <3>1. PICK map : map = cache'
      BY Zenon
    <3>2. map \in Inserted(k, e) \cup {cache}
      BY <2>3, <3>1, Zenon
    <3>3. \A x \in DOMAIN map : \/ x = k /\ map[x] = e
                                \/ x \in DOMAIN cache /\ map[x] = cache[x]
      BY <3>2, InsertedIsOldOrNew
    <3>. QED  BY <3>1, <3>3, Zenon
  <2>5. /\ Unchecked(kernel') \subseteq Unchecked(kernel)
        /\ RunOf(kernel)' \in {RunOf(kernel), Torn}
    <3>1. PICK map, r : map = cache' /\ r = kernel'
      BY Zenon
    <3>2. r = kernel \/ r \in Overwritten(k, e, map)
      BY <2>3, <3>1, Zenon
    <3>3. Unchecked(r) \subseteq Unchecked(kernel) /\ RunOf(r) \in {RunOf(kernel), Torn}
      BY <2>1, <3>2, RunIsOverwritten, Zenon DEF CacheInv
    <3>4. RunOf(kernel)' = RunOf(r)
      BY <3>1, Zenon DEF RunOf
    <3>. QED  BY <3>1, <3>3, <3>4, Zenon
  <2>6. \A x : x \in Live' => x \in Live
    BY <2>2, <2>3, <2>4, <2>5, LeasesAre, LeasesWillBe
  <2>. QED  BY <2>3, <2>5, <2>6, NothingIsGranted, ForgetsSilently, Zenon
<1>. QED  BY <1>1, <1>2, Zenon

\* A run begins within a lease, and ends with the reply it promised or with none.
LEMMA KernelServes ==
    ASSUME CacheInv,
           (\E k \in Key : KernelLookup(k)) \/ KernelCheck \/ KernelReply \/ KernelGivesUp
    PROVE  Lease!Next
<1>0. UNCHANGED <<cache, pc, job>> /\ RunOK(kernel)
  BY SMTT(30) DEF KernelLookup, KernelCheck, KernelReply, KernelGivesUp, CacheInv
<1>1. Unchecked(kernel') \subseteq Live => LiveLeases' \subseteq LiveLeases
  BY <1>0, LeasesAre, LeasesWillBe, NothingIsGranted
<1>2. ASSUME NEW k \in Key, KernelLookup(k) PROVE Lease!Next
  <2>1. /\ k \in DOMAIN cache /\ kernel = NoRun /\ kernel' = Found(k, "linked", {cache[k]})
        /\ served' = NoReply
    BY <1>2, Zenon DEF KernelLookup, Found, Silent
  <2>2. PICK e : e = cache[k] /\ e \in Live
    BY <2>1, LeasesAre, Zenon
  <2>3. Unchecked(kernel') = {e} /\ RunOf(kernel') = NoReply
    BY <2>1, <2>2, RunForms, SMTT(30)
  <2>4. RunOf(kernel)' = NoReply
    BY <2>3, Zenon DEF RunOf
  <2>. QED  BY <1>1, <2>1, <2>2, <2>3, <2>4, ForgetsSilently
<1>3. ASSUME KernelCheck PROVE Lease!Next
  <2>1. PICK k, h, s : k \in Key /\ kernel = Found(k, h, s) /\ FoundOK(k, h, s)
    BY <1>0, <1>3, RunIs, Zenon DEF KernelCheck
  <2>2. served' = NoReply
    BY <1>3, Zenon DEF KernelCheck, Silent
  <2>3. CASE kernel' = NoRun
    <3>1. Unchecked(kernel') = {} /\ RunOf(kernel') = NoReply
      BY <2>3, RunForms, Zenon
    <3>2. RunOf(kernel)' = NoReply
      BY <3>1, Zenon DEF RunOf
    <3>. QED  BY <1>1, <2>2, <3>1, <3>2, ForgetsSilently, Zenon
  <2>4. ASSUME NEW e \in s, NEW t, Fresh(e),
               kernel' = Past(k, h, {Content(x) : x \in s}, e.outcome, t)
        PROVE  Lease!Next
    <3>1. Unchecked(kernel') = {}
          /\ RunOf(kernel') = IF h = "reused" THEN Torn ELSE ReplyTo(k, e.outcome)
      BY <2>4, RunForms, ZenonT(60)
    <3>2. RunOf(kernel)' = IF h = "reused" THEN Torn ELSE ReplyTo(k, e.outcome)
      BY <3>1, Zenon DEF RunOf
    <3>3. LiveLeases' \subseteq LiveLeases
      BY <1>1, <3>1, Zenon
    <3>4. CASE h = "reused"
      BY <2>2, <3>2, <3>3, <3>4, ForgetsSilently, Zenon
    <3>5. CASE h # "reused"
      <4>1. e.key = k /\ e \in Unchecked(kernel)
        BY <2>1, <3>5, RunForms DEF FoundOK
      <4>. DEFINE l == LeaseOf(e)
      <4>2. l \in LiveLeases
        BY <2>4, <4>1, LeasesAre, Zenon DEF Fresh
      <4>3. l.key = k /\ l.answer = e.outcome
        BY <4>1 DEF LeaseOf
      <4>4. RunOf(kernel)' = ReplyTo(l.key, l.answer)
        BY <3>2, <3>5, <4>3, Zenon
      <4>5. SentReply' = NoReply
        BY <2>2 DEF SentReply, NoReply
      <4>. HIDE DEF l
      <4>6. Lease!Begin
        BY <3>3, <4>2, <4>4, <4>5, Zenon DEF Lease!Begin, SentReply
      <4>. QED  BY <4>6, Zenon DEF Lease!Next
    <3>. QED  BY <3>4, <3>5
  <2>. QED  BY <1>3, <2>1, <2>3, <2>4, CheckedIs, Zenon
<1>4. ASSUME KernelReply PROVE Lease!Next
  <2>1. PICK k, h, s, o, t : k \in Key /\ kernel = Past(k, h, s, o, t) /\ PastOK(k, h, s, o, t)
    BY <1>0, <1>4, RunIs, Zenon DEF KernelReply
  <2>2. kernel.key = k /\ kernel.element = s /\ kernel.held = h /\ kernel.checked = o
    BY <2>1 DEF Past
  <2>3. PICK r \in Replies(k, s) : served' = Sent(h, o, r)
    BY <1>4, <2>2, Zenon DEF KernelReply, Sent
  <2>4. h # "reused" => r = ReplyTo(k, o)
    BY <2>1, <2>3, RepliesRepeat, SMTT(30)
  <2>5. SentReply' = IF h = "reused" THEN Torn ELSE r
    BY <2>3 DEF SentReply, Sent
  <2>6. RunOf(kernel) = IF h = "reused" THEN Torn ELSE ReplyTo(k, o)
    BY <2>1, RunForms, ZenonT(60)
  <2>7. RunOf(kernel)' = NoReply /\ Unchecked(kernel') = {} /\ Unchecked(kernel) = {}
    <3>1. kernel' = NoRun
      BY <1>4, Zenon DEF KernelReply
    <3>2. RunOf(kernel)' = RunOf(kernel')
      BY Zenon DEF RunOf
    <3>. QED  BY <2>1, <3>1, <3>2, RunForms, Zenon
  <2>8. RunOf(kernel) # NoReply
    <3>1. ReplyTo(k, o) # NoReply
      <4>1. "code" \in DOMAIN ReplyTo(k, o) /\ "code" \notin DOMAIN NoReply
        BY DEF ReplyTo, NoReply
      <4>. QED  BY <4>1, Zenon
    <3>2. Torn # NoReply
      BY DEF Torn, NoReply
    <3>. QED  BY <2>6, <3>1, <3>2
  <2>9. LiveLeases' = LiveLeases
    BY <1>0, <2>7, LeasesAre, LeasesWillBe, ZenonT(60)
  <2>10. SentReply' = RunOf(kernel)
    BY <2>4, <2>5, <2>6, Zenon
  <2>11. Lease!Serve
    BY <2>7, <2>8, <2>9, <2>10, Zenon DEF Lease!Serve, SentReply
  <2>. QED  BY <2>11, Zenon DEF Lease!Next
<1>5. ASSUME KernelGivesUp PROVE Lease!Next
  <2>1. kernel' = NoRun /\ served' = NoReply
    BY <1>5, Zenon DEF KernelGivesUp, Silent
  <2>2. RunOf(kernel)' = NoReply /\ Unchecked(kernel') = {}
    <3>1. RunOf(kernel)' = RunOf(kernel')
      BY Zenon DEF RunOf
    <3>. QED  BY <2>1, <3>1, RunForms, Zenon
  <2>. QED  BY <1>1, <2>1, <2>2, ForgetsSilently, Zenon
<1>. QED  BY <1>2, <1>3, <1>4, <1>5, Zenon

\* A second takes one from every lease and ends those with one left.
LEMMA TickPasses ==
    ASSUME CacheInv, Tick
    PROVE  Lease!Next
<1>. DEFINE Older(l) == [l EXCEPT !.left = l.left - 1]
<1>1. /\ served' = NoReply /\ pc' = pc
      /\ DOMAIN cache' = DOMAIN cache /\ \A k \in DOMAIN cache : cache'[k] = Aged(cache[k])
      /\ \A w \in Writer : pc[w] = "locking" =>
            job'[w] = [job[w] EXCEPT !.entry = Aged(job[w].entry)]
  BY DEF Tick, Silent
<1>2. ASSUME NEW e, Sound(e)
      PROVE  /\ Aged(e).left > 0 <=> e.left > 1
             /\ e.left > 1 => e.left > 0
             /\ e.left > 1 => LeaseOf(Aged(e)) = Older(LeaseOf(e))
             /\ LeaseOf(e).left = e.left
  <2>1. e.left \in Nat
    BY <1>2, LongestIsLongest DEF Sound, Entries
  <2>2. /\ Aged(e).outcome = e.outcome /\ Aged(e).key = e.key
        /\ Aged(e).left = IF e.left = 0 THEN 0 ELSE e.left - 1
    BY <1>2, AgedIsSound, SMTT(30)
  <2>. QED  BY <2>1, <2>2 DEF LeaseOf
<1>3. ASSUME NEW w \in Writer, pc[w] = "locking"
      PROVE  Sound(job[w].entry) /\ job'[w].entry = Aged(job[w].entry)
  <2>1. PICK e \in Entries : Sound(e) /\ job[w] = [key |-> e.key, entry |-> e]
    BY <1>3 DEF CacheInv, JobOK
  <2>2. job'[w] = [job[w] EXCEPT !.entry = Aged(job[w].entry)]
    BY <1>1, <1>3
  <2>3. job'[w] = [key |-> e.key, entry |-> Aged(e)]
    BY <2>1, <2>2
  <2>. QED  BY <2>1, <2>3, SMTT(30)
<1>4. /\ RunOf(kernel)' = RunOf(kernel)
      /\ Unchecked(kernel') = {Aged(e) : e \in Unchecked(kernel)}
      /\ \A e \in Unchecked(kernel) : Sound(e)
  <2>1. PICK r : r = kernel'
    OBVIOUS
  <2>2. r = IF kernel.at = "found"
            THEN [kernel EXCEPT !.element = {Aged(e) : e \in @}] ELSE kernel
    BY <2>1, Zenon DEF Tick
  <2>3. /\ RunOf(r) = RunOf(kernel) /\ Unchecked(r) = {Aged(e) : e \in Unchecked(kernel)}
        /\ \A e \in Unchecked(kernel) : Sound(e)
    BY <2>2, RunAges, Zenon DEF CacheInv
  <2>4. RunOf(kernel)' = RunOf(r)
    BY <2>1, ZenonT(60) DEF RunOf
  <2>. QED  BY <2>1, <2>3, <2>4, Zenon
<1>5. \A e \in Live : Sound(e)
  BY <1>3, <1>4, LeasesAre DEF CacheInv
<1>6. \A x : x \in Live' <=> \E e \in Live : x = Aged(e)
  <2>1. \A x : x \in Unchecked(kernel') <=> \E e \in Unchecked(kernel) : x = Aged(e)
    BY <1>4
  <2>2. ASSUME NEW x \in Live' PROVE \E e \in Live : x = Aged(e)
    <3>1. CASE \E k \in DOMAIN cache' : x = cache'[k]
      BY <1>1, <3>1, LeasesAre, Zenon
    <3>2. CASE \E w \in Writer : pc'[w] = "locking" /\ x = job'[w].entry
      BY <1>1, <1>3, <3>2, LeasesAre, Zenon
    <3>3. CASE x \in Unchecked(kernel')
      BY <2>1, <3>3, LeasesAre, Zenon
    <3>. QED  BY <3>1, <3>2, <3>3, LeasesWillBe, Zenon
  <2>3. ASSUME NEW e \in Live PROVE Aged(e) \in Live'
    <3>1. CASE \E k \in DOMAIN cache : e = cache[k]
      <4>1. \E k \in DOMAIN cache' : Aged(e) = cache'[k]
        BY <1>1, <3>1, Zenon
      <4>. QED  BY <4>1, LeasesWillBe, Zenon
    <3>2. CASE \E w \in Writer : pc[w] = "locking" /\ e = job[w].entry
      <4>1. \E w \in Writer : pc'[w] = "locking" /\ Aged(e) = job'[w].entry
        BY <1>1, <1>3, <3>2, Zenon
      <4>. QED  BY <4>1, LeasesWillBe, Zenon
    <3>3. CASE e \in Unchecked(kernel)
      BY <2>1, <3>3, LeasesWillBe, Zenon
    <3>. QED  BY <3>1, <3>2, <3>3, LeasesAre, Zenon
  <2>. QED  BY <2>2, <2>3, Zenon
<1>7. ASSUME NEW m, m \in LiveLeases' PROVE \E l \in LiveLeases : l.left > 1 /\ m = Older(l)
  <2>1. PICK x \in Live' : x.left > 0 /\ m = LeaseOf(x)
    BY <1>7, LeasesWillBe, Zenon
  <2>2. PICK e \in Live : x = Aged(e)
    BY <1>6, <2>1, Zenon
  <2>3. e.left > 1 /\ e.left > 0 /\ m = Older(LeaseOf(e)) /\ LeaseOf(e).left = e.left
    BY <1>2, <1>5, <2>1, <2>2
  <2>4. LeaseOf(e) \in LiveLeases
    BY <2>3, LeasesAre, Zenon
  <2>. QED  BY <2>3, <2>4
<1>8. ASSUME NEW l \in LiveLeases, l.left > 1 PROVE Older(l) \in LiveLeases'
  <2>1. PICK e \in Live : l = LeaseOf(e)
    BY LeasesAre, Zenon
  <2>2. Aged(e).left > 0 /\ Older(l) = LeaseOf(Aged(e))
    BY <1>2, <1>5, <1>8, <2>1
  <2>3. Aged(e) \in Live'
    BY <1>6, <2>1, Zenon
  <2>. QED  BY <2>2, <2>3, LeasesWillBe
<1>9. LiveLeases' = {Older(l) : l \in {m \in LiveLeases : m.left > 1}}
  BY <1>7, <1>8
<1>10. SentReply' = NoReply
  BY <1>1 DEF SentReply, NoReply
<1>11. Lease!Pass
  BY <1>4, <1>9, <1>10 DEF Lease!Pass, SentReply
<1>. QED  BY <1>11 DEF Lease!Next

\* Changing answers and restarts grant nothing.
LEMMA WorldGrantsNothing ==
    ASSUME CacheInv, (\E k \in Key : AuthorityChanges(k)) \/ Stop \/ Start
    PROVE  Lease!Next
<1>1. /\ served' = NoReply /\ kernel' = kernel
      /\ \A x \in DOMAIN cache' : x \in DOMAIN cache /\ cache'[x] = cache[x]
      /\ (UNCHANGED <<pc, job>> \/ \A w \in Writer : pc'[w] = "idle")
  BY SMTT(30) DEF AuthorityChanges, Stop, Start, Silent
<1>2. RunOf(kernel)' = RunOf(kernel) /\ Unchecked(kernel') = Unchecked(kernel)
  BY <1>1, Zenon DEF RunOf
<1>3. \A e : e \in Live' => e \in Live
  BY <1>1, <1>2, LeasesAre, LeasesWillBe
<1>. QED  BY <1>1, <1>2, <1>3, NothingIsGranted, ForgetsSilently, Zenon

\* The cache of XdpCacheMiddleware and the eBPF program implements AnswerLease for
\* every instance: a reply from the kernel, unless its element was reused during the
\* run, is the promised reply to the question asked, from an answer that was granted and
\* in a run that began before its lease ended.
THEOREM CacheImplementsLease ==
    Spec => ImplementsLease
<1>1. Init => Lease!Init
  <2>. SUFFICES ASSUME Init PROVE Lease!Init
    OBVIOUS
  <2>1. DOMAIN cache = {} /\ (\A w \in Writer : pc[w] = "idle") /\ kernel = NoRun
    BY SMTT(30) DEF Init
  <2>2. RunOf(kernel) = NoReply /\ Unchecked(kernel) = {}
    BY <2>1, RunForms, Zenon
  <2>3. LiveLeases = {}
    BY <2>1, <2>2, LeasesAre
  <2>4. SentReply = NoReply
    BY DEF Init, SentReply, NoReply
  <2>. QED  BY <2>2, <2>3, <2>4, Zenon DEF Lease!Init, SentReply
<1>2. CacheInv /\ [Next]_vars => [Lease!Next]_<<LiveLeases, RunOf(kernel), SentReply>>
  <2>1. CacheInv /\ Next => Lease!Next
    BY AfterRequestGrants, WritersGrantNothing, KernelServes, TickPasses, WorldGrantsNothing, SMTT(30)
       DEF Next, Step
  <2>2. UNCHANGED vars => UNCHANGED <<LiveLeases, RunOf(kernel), SentReply>>
    BY Zenon DEF vars, LiveLeases, Live, RunOf, SentReply
  <2>. QED  BY <2>1, <2>2
<1>. QED
  BY CacheInit, CacheStep, <1>1, <1>2, PTL DEF Spec, ImplementsLease, Lease!Spec, SentReply

-----------------------------------------------------------------------------
(* Induction *)

\* The order of the natural numbers.
Below == {p \in Nat \X Nat : p[1] < p[2]}

\* Induction over a set: the numbers it misses have no least one.
LEMMA SetInduction ==
    ASSUME NEW S, 0 \in S, \A n \in Nat : n \in S => n + 1 \in S
    PROVE  Nat \subseteq S
<1> DEFINE T == Nat \ S
<1>1. SUFFICES ASSUME T # {} PROVE FALSE
  OBVIOUS
<1>2. IsWellFoundedOn(Below, Nat)
  BY NatLessThanWellFounded DEF OpToRel, Below
<1>3. PICK x \in T : \A y \in T : ~ (<<y, x>> \in Below)
  <2> HIDE DEF T
  <2>1. T \subseteq Nat
    BY DEF T
  <2> QED BY <1>1, <1>2, <2>1, WFMin, Zenon
<1>4. x # 0 /\ x - 1 \in T
  OBVIOUS
<1>5. <<x - 1, x>> \in Below
  BY DEF Below
<1> QED BY <1>3, <1>4, <1>5

Solves(f, n, base, step) == f[0] = base /\ \A i \in 1 .. n : f[i] = step[i][f[i - 1]]

\* A recursion over 0..n has a solution.
LEMMA Recursion ==
    ASSUME NEW n \in Nat, NEW V, NEW base \in V, NEW step \in [1 .. n -> [V -> V]]
    PROVE  \E f \in [0 .. n -> V] : Solves(f, n, base, step)
<1> DEFINE Ok(m) == \E f \in [0 .. m -> V] : Solves(f, m, base, step)
<1> DEFINE S == {m \in Nat : m <= n => Ok(m)}
<1>1. 0 \in S
  <2>1. [i \in 0 .. 0 |-> base] \in [0 .. 0 -> V] /\ Solves([i \in 0 .. 0 |-> base], 0, base, step)
    BY DEF Solves
  <2>2. Ok(0)
    BY <2>1
  <2> HIDE DEF Ok
  <2> QED BY <2>2
<1>2. ASSUME NEW m \in Nat, m \in S PROVE m + 1 \in S
  <2> SUFFICES ASSUME m + 1 <= n PROVE Ok(m + 1)
    <3> HIDE DEF Ok
    <3> QED OBVIOUS
  <2>1. Ok(m)
    <3> HIDE DEF Ok
    <3> QED BY <1>2
  <2>2. PICK f \in [0 .. m -> V] : Solves(f, m, base, step)
    BY <2>1
  <2> DEFINE g == [i \in 0 .. m + 1 |-> IF i = m + 1 THEN step[m + 1][f[m]] ELSE f[i]]
  <2>3. g \in [0 .. m + 1 -> V]
    BY SMTT(30)
  <2>4. Solves(g, m + 1, base, step)
    BY <2>2 DEF Solves
  <2> QED BY <2>3, <2>4
<1>3. n \in S
  <2> HIDE DEF S
  <2> QED BY <1>1, <1>2, SetInduction
<1>4. Ok(n)
  <2> HIDE DEF Ok
  <2> QED BY <1>3
<1> QED BY <1>4

-----------------------------------------------------------------------------
(* The poller's invariant *)

\* Packets on the slots the poller has yet to read.
Unread == Counted - Sums(counts)[slot - 1]

Reading == poller \in {"reading", "final"}

CounterTypes ==
    /\ counts \in [CPU -> Nat] /\ slot \in 1 .. Cpus + 1
    /\ total \in Nat /\ previous \in Nat /\ recorded \in Nat /\ reported \in Nat
    /\ stopCount \in Nat
    /\ meterOpen \in BOOLEAN /\ stopSeen \in BOOLEAN /\ clean \in BOOLEAN

\* A snapshot under way is no more than the slots it has read hold, and with the rest
\* no less than the baseline, so that it cannot pass for a counter reset.
SnapshotInv ==
    /\ previous <= Counted /\ stopCount <= Counted
    /\ Reading => total <= Sums(counts)[slot - 1] /\ previous <= total + Unread

\* The final read begins after the stop, so it finds what was counted by then.
FinalInv ==
    /\ poller \in {"waiting", "reading", "final", "done"}
    /\ poller \in {"final", "done"} => stopSeen
    /\ poller = "final" => stopCount <= total + Unread
    /\ poller = "done" /\ clean => stopCount <= recorded

\* How far main has come against the poller and the meter provider.
PhaseInv ==
    /\ phase \in {"running", "draining", "stopPoller"} => ~stopSeen
    /\ phase \in {"awaitControl", "returned", "flushed", "failed", "dropped", "exited"} /\ clean
          => poller = "done"
    /\ phase \notin {"flushed", "dropped", "exited"} => meterOpen

ShutdownInv ==
    CounterTypes /\ SnapshotInv /\ FinalInv /\ PhaseInv /\ CountsAreNeverInvented
      /\ LastWindowIsReported

-----------------------------------------------------------------------------
(* Sums over the slots *)

\* What snapshot() adds up, slot by slot.
LEMMA SumsDef ==
    ASSUME NEW s \in [CPU -> Nat]
    PROVE  /\ Sums(s) \in [0 .. Cpus -> Nat]
           /\ Sums(s)[0] = 0
           /\ \A n \in CPU : Sums(s)[n] = s[n] + Sums(s)[n - 1]
<1> DEFINE step == [i \in 1 .. Cpus |-> [v \in Nat |-> s[i] + v]]
<1> DEFINE Body(f) == [n \in 0 .. Cpus |-> IF n = 0 THEN 0 ELSE s[n] + f[n - 1]]
<1>1. Cpus \in Nat /\ CPU = 1 .. Cpus
  BY ShutdownAssumption DEF CPU
<1>2. PICK f \in [0 .. Cpus -> Nat] : Solves(f, Cpus, 0, step)
  <2>1. step \in [1 .. Cpus -> [Nat -> Nat]]
    BY <1>1
  <2> HIDE DEF step
  <2> QED BY <1>1, <2>1, Recursion, Zenon
<1>3. f = Body(f)
  <2>1. \A n \in 0 .. Cpus : f[n] = IF n = 0 THEN 0 ELSE s[n] + f[n - 1]
    <3>1. ASSUME NEW n \in 1 .. Cpus PROVE f[n] = s[n] + f[n - 1]
      <4>1. f[n - 1] \in Nat
        BY <1>1
      <4>2. f[n] = step[n][f[n - 1]]
        BY <1>2, Zenon DEF Solves
      <4> QED BY <4>1, <4>2, Zenon
    <3>2. f[0] = 0
      BY <1>2, Zenon DEF Solves
    <3> QED BY <1>1, <3>1, <3>2
  <2>2. f = [n \in 0 .. Cpus |-> f[n]]
    BY <1>2, Zenon
  <2> QED BY <2>1, <2>2, Zenon
<1> DEFINE h == CHOOSE x : x = Body(x)
<1>4. Sums(s) = h
  BY Zenon DEF Sums
<1>5. h = Body(h)
  <2> HIDE DEF Body
  <2> QED BY <1>3, Zenon
<1> HIDE DEF h
<1>6. h[0] = 0 /\ \A n \in CPU : h[n] = s[n] + h[n - 1]
  BY <1>1, <1>5
<1> DEFINE T == {m \in Nat : m \in 0 .. Cpus => h[m] \in Nat}
<1>7. ASSUME NEW m \in Nat, m \in T PROVE m + 1 \in T
  BY <1>1, <1>6, <1>7, SMTT(30)
<1>8. Nat \subseteq T
  <2>1. 0 \in T
    BY <1>6
  <2> HIDE DEF T
  <2> QED BY <1>7, <2>1, SetInduction
<1>9. h \in [0 .. Cpus -> Nat]
  <2>1. \A m \in 0 .. Cpus : h[m] \in Nat
    BY <1>1, <1>8
  <2>2. h = [n \in 0 .. Cpus |-> h[n]]
    BY <1>5, Zenon
  <2> QED BY <2>1, <2>2, Zenon
<1> QED BY <1>4, <1>6, <1>9

\* A prefix of the slots holds no more than all of them.
LEMMA SumsGrow ==
    ASSUME NEW s \in [CPU -> Nat], NEW k \in 0 .. Cpus
    PROVE  Sums(s)[k] \in Nat /\ Sums(s)[Cpus] \in Nat /\ Sums(s)[k] <= Sums(s)[Cpus]
<1> DEFINE S == Sums(s)
<1>1. Cpus \in Nat /\ CPU = 1 .. Cpus
  BY ShutdownAssumption DEF CPU
<1>2. S \in [0 .. Cpus -> Nat] /\ \A n \in CPU : S[n] = s[n] + S[n - 1] /\ s[n] \in Nat
  BY SumsDef
<1> HIDE DEF S
<1> DEFINE T == {m \in Nat : m \in k .. Cpus => S[k] <= S[m]}
<1>3. 0 \in T
  BY <1>1, <1>2
<1>4. ASSUME NEW m \in Nat, m \in T PROVE m + 1 \in T
  <2> SUFFICES ASSUME m + 1 \in k .. Cpus PROVE S[k] <= S[m + 1]
    OBVIOUS
  <2>1. CASE m + 1 = k
    BY <1>2, <2>1
  <2>2. CASE m + 1 # k
    <3>1. S[k] <= S[m]
      BY <1>1, <1>4, <2>2
    <3>2. m + 1 \in CPU /\ (m + 1) - 1 = m /\ m \in 0 .. Cpus /\ m + 1 \in 0 .. Cpus
      BY <1>1, <2>2
    <3>3. S[m + 1] = s[m + 1] + S[m] /\ s[m + 1] \in Nat /\ S[m] \in Nat /\ S[k] \in Nat
      BY <1>2, <3>2
    <3> QED BY <3>1, <3>3
  <2> QED BY <2>1, <2>2
<1>5. Nat \subseteq T
  <2> HIDE DEF T
  <2> QED BY <1>3, <1>4, SetInduction
<1>6. S[k] <= S[Cpus] /\ S[k] \in Nat /\ S[Cpus] \in Nat
  BY <1>1, <1>2, <1>5
<1> QED BY <1>6 DEF S

\* One packet on CPU c is one more in every sum that reaches c.
LEMMA OneMorePacket ==
    ASSUME NEW s \in [CPU -> Nat], NEW t \in [CPU -> Nat], NEW c \in CPU, NEW k \in 0 .. Cpus,
           \A n \in CPU : t[n] = s[n] + (IF n = c THEN 1 ELSE 0)
    PROVE  Sums(t)[k] = Sums(s)[k] + (IF c <= k THEN 1 ELSE 0)
<1> DEFINE S == Sums(s)
<1> DEFINE U == Sums(t)
<1>1. Cpus \in Nat /\ CPU = 1 .. Cpus /\ c \in 1 .. Cpus
  BY ShutdownAssumption DEF CPU
<1>2. S \in [0 .. Cpus -> Nat] /\ S[0] = 0 /\ \A n \in CPU : S[n] = s[n] + S[n - 1] /\ s[n] \in Nat
  BY SumsDef
<1>3. U \in [0 .. Cpus -> Nat] /\ U[0] = 0 /\ \A n \in CPU : U[n] = t[n] + U[n - 1]
  BY SumsDef
<1> HIDE DEF S, U
<1> DEFINE T == {m \in Nat : m \in 0 .. Cpus => U[m] = S[m] + (IF c <= m THEN 1 ELSE 0)}
<1>4. 0 \in T
  BY <1>1, <1>2, <1>3, SMTT(30)
<1>5. ASSUME NEW m \in Nat, m \in T PROVE m + 1 \in T
  <2> SUFFICES ASSUME m + 1 \in 0 .. Cpus
               PROVE  U[m + 1] = S[m + 1] + (IF c <= m + 1 THEN 1 ELSE 0)
    OBVIOUS
  <2>1. m + 1 \in CPU /\ (m + 1) - 1 = m /\ m \in 0 .. Cpus
    BY <1>1
  <2>2. U[m] = S[m] + (IF c <= m THEN 1 ELSE 0)
    BY <1>5, <2>1
  <2>3. U[m + 1] = t[m + 1] + U[m] /\ S[m + 1] = s[m + 1] + S[m] /\ S[m] \in Nat /\ s[m + 1] \in Nat
    BY <1>2, <1>3, <2>1, Zenon
  <2> QED BY <1>1, <2>1, <2>2, <2>3, SMTT(30)
<1>6. Nat \subseteq T
  <2> HIDE DEF T
  <2> QED BY <1>4, <1>5, SetInduction
<1>7. U[k] = S[k] + (IF c <= k THEN 1 ELSE 0)
  BY <1>1, <1>6
<1> QED BY <1>7 DEF S, U

-----------------------------------------------------------------------------
(* The steps *)

\* The sums behind Counted and Unread are numbers, and nothing is unread below zero.
LEMMA CountedTypes ==
    ASSUME CounterTypes
    PROVE  /\ Counted \in Nat /\ Sums(counts)[slot - 1] \in Nat
           /\ Unread \in Nat /\ Sums(counts)[slot - 1] + Unread = Counted
<1>1. slot - 1 \in 0 .. Cpus /\ counts \in [CPU -> Nat]
  BY ShutdownAssumption DEF CounterTypes
<1>2. Sums(counts)[slot - 1] \in Nat /\ Counted \in Nat /\ Sums(counts)[slot - 1] <= Counted
  BY <1>1, SumsGrow DEF Counted
<1> QED BY <1>2 DEF Unread

\* A packet may land on a slot the snapshot has read, or on one it has yet to read.
LEMMA PacketStep ==
    ASSUME ShutdownInv, NEW c \in CPU, Packet(c)
    PROVE  ShutdownInv'
<1>1. CounterTypes /\ counts \in [CPU -> Nat] /\ slot - 1 \in 0 .. Cpus /\ Cpus \in 0 .. Cpus
  BY ShutdownAssumption DEF ShutdownInv, CounterTypes
<1>2. /\ counts' \in [CPU -> Nat]
      /\ \A n \in CPU : counts'[n] = counts[n] + (IF n = c THEN 1 ELSE 0)
  BY <1>1 DEF Packet
<1>3. CounterTypes'
  BY <1>1, <1>2 DEF Packet, CounterTypes, pollerVars, metricVars
<1> DEFINE low == Sums(counts)[slot - 1]
<1> DEFINE low1 == Sums(counts')[slot - 1]
<1>4. /\ Counted' = Counted + (IF c <= Cpus THEN 1 ELSE 0)
      /\ low1 = low + (IF c <= slot - 1 THEN 1 ELSE 0)
  <2>1. Sums(counts')[Cpus] = Sums(counts)[Cpus] + (IF c <= Cpus THEN 1 ELSE 0)
    BY <1>1, <1>2, OneMorePacket, ZenonT(60)
  <2>2. Sums(counts')[slot - 1] = Sums(counts)[slot - 1] + (IF c <= slot - 1 THEN 1 ELSE 0)
    BY <1>1, <1>2, OneMorePacket, ZenonT(60)
  <2> QED BY <2>1, <2>2, Zenon DEF Counted
<1>5. Counted \in Nat /\ low \in Nat
  BY <1>1, CountedTypes
<1> HIDE DEF low, low1
<1>6. c \in Nat /\ c <= Cpus /\ slot - 1 \in Nat
  BY ShutdownAssumption, <1>1 DEF CPU
<1>7. Counted' = Counted + 1 /\ low <= low1 /\ Counted - low <= Counted' - low1 /\ low1 \in Nat
  BY <1>4, <1>5, <1>6
<1>8. Unread = Counted - low /\ Unread' = Counted' - low1
  BY DEF Unread, low, low1, Packet, pollerVars
<1>9. SnapshotInv' /\ FinalInv'
  <2>1. UNCHANGED <<pollerVars, stopSeen, recorded, stopCount, clean>>
    BY DEF Packet, metricVars
  <2>2. Sums(counts)[slot - 1] = low /\ Sums(counts')[slot - 1] = low1
    BY DEF low, low1
  <2>3. SnapshotInv /\ FinalInv
    BY SMTT(30) DEF ShutdownInv
  <2> QED BY <1>1, <1>5, <1>7, <1>8, <2>1, <2>2, <2>3, SMTT(30)
          DEF SnapshotInv, FinalInv, Reading, pollerVars, CounterTypes
<1>10. CountsAreNeverInvented' /\ PhaseInv' /\ LastWindowIsReported'
  BY <1>1, <1>5, <1>7, SMTT(30) DEF ShutdownInv, CounterTypes, CountsAreNeverInvented, PhaseInv,
       LastWindowIsReported, Packet, pollerVars, metricVars
<1> QED BY <1>3, <1>9, <1>10 DEF ShutdownInv

\* Steps of the poller: a snapshot is begun, goes on, fails or is emitted.
LEMMA PollerStep ==
    ASSUME ShutdownInv, Poller
    PROVE  ShutdownInv'
<1>1. /\ CounterTypes /\ counts \in [CPU -> Nat] /\ slot \in 1 .. Cpus + 1
      /\ Cpus \in Nat /\ CPU = 1 .. Cpus
  BY ShutdownAssumption DEF ShutdownInv, CounterTypes, CPU
<1>2. /\ Sums(counts) \in [0 .. Cpus -> Nat] /\ Sums(counts)[0] = 0
      /\ \A n \in CPU : Sums(counts)[n] = counts[n] + Sums(counts)[n - 1] /\ counts[n] \in Nat
  BY <1>1, SumsDef, Zenon
<1>3. /\ Counted \in Nat /\ Sums(counts)[slot - 1] \in Nat
      /\ Unread \in Nat /\ Sums(counts)[slot - 1] + Unread = Counted
  BY <1>1, CountedTypes, SMTT(30)
<1>4. UNCHANGED <<phase, counting, counts, stopSeen, reported, meterOpen, taskVars, stopCount>>
  BY DEF Poller, Wake, ReadSlot, ReadFails, EmitDelta, metricVars
<1>5. Counted' = Counted /\ Sums(counts)' = Sums(counts)
  BY <1>4, SMTT(30) DEF Counted
<1> USE DEF ShutdownInv, CounterTypes, SnapshotInv, FinalInv, PhaseInv, CountsAreNeverInvented,
      LastWindowIsReported, Reading, metricVars
<1>6. CASE Wake
  <2>1. Unread' = Counted
    BY <1>2, <1>3, <1>4, <1>5, <1>6, SMTT(30) DEF Wake, Unread
  <2> QED BY <1>1, <1>2, <1>3, <1>4, <1>5, <1>6, <2>1, SMTT(30) DEF Wake, RuntimeUp
<1>7. CASE ReadSlot
  <2>1. slot \in CPU /\ slot' - 1 = slot
    BY <1>1, <1>7 DEF ReadSlot
  <2>2. Sums(counts)[slot] = counts[slot] + Sums(counts)[slot - 1] /\ counts[slot] \in Nat
    BY <1>2, <2>1, SMTT(30)
  <2>3. Unread' = Unread - counts[slot] /\ total' = total + counts[slot]
    BY <1>3, <1>4, <1>5, <1>7, <2>1, <2>2, SMTT(30) DEF ReadSlot, Unread
  <2>4. UNCHANGED <<poller, previous, recorded, clean>> /\ slot' = slot + 1
    BY <1>7, SMTT(30) DEF ReadSlot
  <2>5. CounterTypes' /\ SnapshotInv' /\ FinalInv'
    <3>1. CounterTypes'
      BY <1>1, <1>4, <2>1, <2>2, <2>3, <2>4, SMTT(30)
    <3>2. (Sums(counts)[slot - 1])' = Sums(counts)[slot]
      BY <1>4, <2>1, SMTT(30)
    <3>3. total' + Unread' = total + Unread
      BY <1>1, <1>3, <2>2, <2>3, SMTT(30)
    <3>4. Reading => total' <= Sums(counts)[slot]
      BY <1>1, <1>3, <2>2, <2>3, SMTT(30)
    <3>5. SnapshotInv'
      BY <1>4, <1>5, <2>4, <3>2, <3>3, <3>4, SMTT(30)
    <3>6. FinalInv'
      BY <1>4, <2>4, <3>3, SMTT(30)
    <3> QED BY <3>1, <3>5, <3>6, SMTT(30)
  <2>6. PhaseInv' /\ CountsAreNeverInvented' /\ LastWindowIsReported'
    BY <1>4, <1>5, <2>4, SMTT(30)
  <2> QED BY <2>5, <2>6, SMTT(30)
<1>8. CASE ReadFails
  <2>1. Unread' = Unread
    BY <1>4, <1>5, <1>8 DEF ReadFails, Unread
  <2>2. clean' \in BOOLEAN /\ (clean' => clean /\ poller # "final")
    BY <1>8, Zenon DEF ReadFails
  <2>3. UNCHANGED <<slot, total, previous, recorded>> /\ poller' = Reread /\ Reading
    BY <1>8, SMTT(30) DEF ReadFails
  <2>4. CounterTypes' /\ SnapshotInv' /\ FinalInv'
    BY <1>4, <1>5, <2>1, <2>2, <2>3, SMTT(30) DEF Reread
  <2>5. PhaseInv' /\ CountsAreNeverInvented' /\ LastWindowIsReported'
    BY <1>4, <1>5, <2>2, <2>3, SMTT(30) DEF Reread
  <2> QED BY <2>4, <2>5
<1>9. CASE EmitDelta
  <2>1. slot - 1 = Cpus /\ Unread = 0 /\ Sums(counts)[slot - 1] = Counted
    BY <1>1, <1>3, <1>9, SMTT(30) DEF EmitDelta, Unread, Counted
  <2>2. previous <= total /\ total <= Counted /\ total \in Nat
    BY <1>1, <1>3, <1>9, <2>1, SMTT(30) DEF EmitDelta
  <2>3. meterOpen => recorded' = total
    BY <1>1, <1>9, <2>2, SMTT(30) DEF EmitDelta, Delta
  <2>4. ~meterOpen => recorded' = recorded
    BY <1>9, SMTT(30) DEF EmitDelta
  <2>5. Unread' = Unread
    BY <1>4, <1>5, <1>9, SMTT(30) DEF EmitDelta, Unread
  <2> QED BY <1>1, <1>3, <1>4, <1>5, <1>9, <2>1, <2>2, <2>3, <2>4, <2>5, SMTT(30) DEF EmitDelta, Reread
<1> QED BY <1>6, <1>7, <1>8, <1>9, Zenon DEF Poller

\* What the invariant is about.
LEMMA CountersStay ==
    ASSUME ShutdownInv, UNCHANGED <<phase, counts, pollerVars, metricVars, stopSeen, stopCount, clean>>
    PROVE  ShutdownInv'
<1>1. Counted' = Counted /\ Unread' = Unread
      /\ (Sums(counts)[slot - 1])' = Sums(counts)[slot - 1]
  BY DEF pollerVars, Counted, Unread
<1> QED BY <1>1 DEF pollerVars, metricVars, ShutdownInv, CounterTypes, SnapshotInv, FinalInv, PhaseInv,
             Reading, CountsAreNeverInvented, LastWindowIsReported

\* The steps of main, of the exporter, of the profiler and of the control plane leave
\* the slots and the poller alone.
LEMMA OtherShutdownSteps ==
    ASSUME ShutdownInv,
           Main \/ Signal \/ PeriodicExport \/ Collect \/ Profiler \/ ControlEnds
    PROVE  ShutdownInv'
<1>1. CounterTypes /\ Counted \in Nat
  BY CountedTypes, SMTT(30) DEF ShutdownInv
<1>2. UNCHANGED <<counts, pollerVars, recorded>>
  BY Zenon DEF Main, ServerStops, Drained, DrainFails, StopPoller, AwaitPoller, AwaitControl,
         ShutdownTelemetry, DropRuntime, Exit, Signal, PeriodicExport, Collect, Profiler,
         CollectStops, WindowElapses, ControlEnds, metricVars
<1>3. Counted' = Counted /\ Unread' = Unread /\ (Sums(counts)[slot - 1])' = Sums(counts)[slot - 1]
  BY <1>2, SMTT(30) DEF Counted, Unread, pollerVars
<1>12. CASE Collect \/ Profiler \/ ControlEnds
  <2>1. UNCHANGED <<phase, counts, pollerVars, metricVars, stopSeen, stopCount, clean>>
    BY <1>12, Zenon DEF Collect, Profiler, CollectStops, WindowElapses, ControlEnds
  <2> QED BY <2>1, CountersStay
<1> USE DEF ShutdownInv, CounterTypes, SnapshotInv, FinalInv, PhaseInv, CountsAreNeverInvented,
      LastWindowIsReported, Reading, metricVars, pollerVars
<1>4. CASE ServerStops \/ DrainFails
  <2>1. /\ phase' \in {"returned", "failed"} /\ ~stopSeen /\ stopSeen' /\ ~clean'
        /\ stopSeen' \in BOOLEAN /\ clean' \in BOOLEAN
        /\ stopCount' = Counted /\ meterOpen /\ UNCHANGED metricVars
    BY <1>4, ZenonT(60) DEF ServerStops, DrainFails, Returns
  <2>2. CounterTypes' /\ SnapshotInv' /\ FinalInv'
    BY <1>1, <1>2, <1>3, <2>1, SMTT(30)
  <2>3. PhaseInv' /\ CountsAreNeverInvented' /\ LastWindowIsReported'
    BY <1>2, <1>3, <2>1, SMTT(30)
  <2> QED BY <2>2, <2>3
<1>5. CASE Signal \/ Drained
  BY <1>1, <1>2, <1>3, <1>5, SMTT(30) DEF Signal, Drained
<1>6. CASE StopPoller
  BY <1>1, <1>2, <1>3, <1>6, SMTT(30) DEF StopPoller
<1>7. CASE AwaitPoller
  <2>1. clean' \in BOOLEAN /\ (clean' => clean /\ poller = "done")
    BY <1>7, ZenonT(60) DEF AwaitPoller
  <2> QED BY <1>1, <1>2, <1>3, <1>7, <2>1 DEF AwaitPoller
<1>8. CASE AwaitControl
  BY <1>1, <1>2, <1>3, <1>8 DEF AwaitControl, Returns
<1>9. CASE ShutdownTelemetry \/ Exit
  <2>1. clean' \in BOOLEAN /\ (clean' => clean /\ reported' = recorded)
    BY <1>9, Zenon DEF ShutdownTelemetry, Exit, TelemetryShutdown
  <2>2. /\ meterOpen' = FALSE /\ reported' \in {recorded, reported}
        /\ stopSeen' = stopSeen /\ stopCount' = stopCount
    BY <1>9, SMTT(30) DEF ShutdownTelemetry, Exit, TelemetryShutdown
  <2>3. phase \in {"returned", "dropped"} /\ phase' \in {"flushed", "exited"}
    BY <1>9 DEF ShutdownTelemetry, Exit
  <2>4. CounterTypes' /\ SnapshotInv' /\ FinalInv'
    BY <1>1, <1>2, <1>3, <2>1, <2>2, Zenon
  <2>5. reported' <= recorded'
    BY <1>1, <1>2, <2>2, SMTT(30)
  <2>6. PhaseInv' /\ CountsAreNeverInvented' /\ LastWindowIsReported'
    BY <1>1, <1>2, <1>3, <2>1, <2>2, <2>3, <2>5, SMTT(30)
  <2> QED BY <2>4, <2>6
<1>10. CASE DropRuntime
  BY <1>1, <1>2, <1>3, <1>10, SMTT(30) DEF DropRuntime
<1>11. CASE PeriodicExport
  BY <1>1, <1>2, <1>3, <1>11, SMTT(30) DEF PeriodicExport
<1> QED BY <1>4, <1>5, <1>6, <1>7, <1>8, <1>9, <1>10, <1>11, <1>12, Zenon DEF Main

\* The invariant holds in every state of a process, from its first packet to its exit.
LEMMA ProcessHasShutdownInv == ShutdownSpec => []ShutdownInv
<1>1. ShutdownInit => ShutdownInv
  <2> SUFFICES ASSUME ShutdownInit PROVE ShutdownInv
    OBVIOUS
  <2>0. meterOpen \in BOOLEAN /\ stopSeen \in BOOLEAN /\ clean \in BOOLEAN
    BY Zenon DEF ShutdownInit
  <2>1. CounterTypes
    BY ShutdownAssumption, <2>0 DEF ShutdownInit, CounterTypes
  <2>2. Counted \in Nat
    BY <2>1, CountedTypes
  <2> QED BY <2>1, <2>2 DEF ShutdownInit, ShutdownInv, SnapshotInv, FinalInv, PhaseInv, Reading,
                            CountsAreNeverInvented, LastWindowIsReported
<1>2. ShutdownInv /\ [ShutdownNext]_shutdownVars => ShutdownInv'
  <2> SUFFICES ASSUME ShutdownInv, [ShutdownNext]_shutdownVars PROVE ShutdownInv'
    OBVIOUS
  <2>1. CASE UNCHANGED shutdownVars
    BY <2>1, CountersStay DEF shutdownVars
  <2> QED BY <2>1, PacketStep, PollerStep, OtherShutdownSteps, SMTT(30) DEF ShutdownNext
<1> QED BY <1>1, <1>2, PTL DEF ShutdownSpec

\* CountsAreNeverInvented for any number of CPUs and packets: snapshots that race with
\* the CPUs, failed reads and the final read never report a packet that was not
\* counted, and never take a snapshot for a counter reset.
THEOREM NoCountIsInvented == ShutdownSpec => []CountsAreNeverInvented
<1>1. ShutdownInv => CountsAreNeverInvented
  BY DEF ShutdownInv
<1> QED BY <1>1, ProcessHasShutdownInv, PTL

\* LastWindowIsReported for any number of CPUs and packets: a clean exit has exported
\* all that was counted by the time the poller was told to stop.
THEOREM TheLastWindowIsReported == ShutdownSpec => []LastWindowIsReported
<1>1. ShutdownInv => LastWindowIsReported
  BY DEF ShutdownInv
<1> QED BY <1>1, ProcessHasShutdownInv, PTL

-----------------------------------------------------------------------------
(* What the end of a process waits for *)

\* The steps main has left, at most.
MainLeft ==
    CASE phase = "running" -> 8 [] phase = "draining" -> 7 [] phase = "stopPoller" -> 6
      [] phase = "awaitPoller" -> 5 [] phase = "awaitControl" -> 4 [] phase = "returned" -> 3
      [] phase \in {"flushed", "failed"} -> 2 [] phase = "dropped" -> 1 [] OTHER -> 0

\* The steps of the poller and of the profiler's thread that the drop of the runtime
\* waits for, at most.
TasksLeft == (IF Reading THEN Cpus + 2 - slot ELSE 0) + (IF profiler = "gone" THEN 0 ELSE 1)

\* The runtime's drop leaves no task that could start anew.
DroppedInv ==
    /\ profiler \in {"idle", "collecting", "orphaned", "gone"}
    /\ phase \in {"dropped", "exited"} => profiler \in {"orphaned", "gone"}

\* Every step of main is one fewer, and none is ever put back; and in the drop of the
\* runtime, where main can only wait, neither is any of the steps it waits for.
EndComesCloser ==
    /\ MainLeft' <= MainLeft
    /\ Main \/ Signal => MainLeft' < MainLeft
    /\ phase = "dropped" => /\ TasksLeft \in Nat /\ TasksLeft' <= TasksLeft
                            /\ Poller \/ Profiler => TasksLeft' < TasksLeft
                            /\ TasksLeft = 0 => poller \notin {"reading", "final"} /\ profiler = "gone"

\* What the profiler is at the drop.
LEMMA ProcessHasDroppedInv == ShutdownSpec => []DroppedInv
<1>1. ShutdownInit => DroppedInv
  BY DEF ShutdownInit, DroppedInv
<1>2. DroppedInv /\ [ShutdownNext]_shutdownVars => DroppedInv'
  <2> SUFFICES ASSUME DroppedInv, [ShutdownNext]_shutdownVars PROVE DroppedInv'
    BY Zenon
  <2> USE DEF DroppedInv
  <2>1. CASE UNCHANGED <<phase, profiler>>
    BY <2>1
  <2>2. ASSUME NEW c \in CPU, Packet(c) PROVE UNCHANGED <<phase, profiler>>
    BY <2>2, ZenonT(60) DEF Packet, taskVars
  <2>3. ASSUME Poller \/ PeriodicExport \/ ControlEnds \/ UNCHANGED shutdownVars
        PROVE  UNCHANGED <<phase, profiler>>
    BY <2>3 DEF Poller, Wake, ReadSlot, ReadFails, EmitDelta, PeriodicExport, ControlEnds,
         shutdownVars, taskVars
  <2>4. CASE Collect \/ Profiler
    BY <2>4, SMTT(30) DEF Collect, Profiler, CollectStops, WindowElapses, RuntimeUp
  <2>5. CASE Signal \/ ServerStops \/ Drained \/ DrainFails \/ StopPoller \/ AwaitPoller \/ AwaitControl
    BY <2>5 DEF Signal, ServerStops, Drained, DrainFails, StopPoller, AwaitPoller, AwaitControl,
         Returns, taskVars
  <2>6. CASE ShutdownTelemetry \/ DropRuntime \/ Exit
    BY <2>6 DEF ShutdownTelemetry, DropRuntime, Exit, TelemetryShutdown, Aborted
  <2> QED BY <2>1, <2>2, <2>3, <2>4, <2>5, <2>6, Zenon DEF ShutdownNext, Main
<1> QED BY <1>1, <1>2, PTL DEF ShutdownSpec

\* The order in which async_main and main leave their phases.
LEMMA MainGoesOn ==
    ASSUME [ShutdownNext]_shutdownVars
    PROVE  /\ MainLeft' <= MainLeft
           /\ Main \/ Signal => MainLeft' < MainLeft
           /\ ~(Main \/ Signal) => phase' = phase
<1>1. ASSUME Main \/ Signal PROVE MainLeft' < MainLeft
  BY <1>1 DEF Main, Signal, ServerStops, Drained, DrainFails, StopPoller, AwaitPoller, AwaitControl,
       ShutdownTelemetry, DropRuntime, Exit, Returns, MainLeft
<1>2. ASSUME ~(Main \/ Signal) PROVE phase' = phase
  BY <1>2, Zenon DEF ShutdownNext, Packet, Poller, Wake, ReadSlot, ReadFails, EmitDelta,
       PeriodicExport, Collect, Profiler, CollectStops, WindowElapses, ControlEnds, shutdownVars
<1>3. MainLeft \in 0 .. 8 /\ MainLeft' \in 0 .. 8
  BY DEF MainLeft
<1>4. ASSUME phase' = phase PROVE MainLeft' = MainLeft
  BY <1>4, Zenon DEF MainLeft
<1> QED BY <1>1, <1>2, <1>3, <1>4

\* The steps that are left while the runtime is dropped.
LEMMA TasksRunOut ==
    ASSUME ShutdownInv, DroppedInv, phase = "dropped", [ShutdownNext]_shutdownVars
    PROVE  /\ TasksLeft \in Nat /\ TasksLeft' <= TasksLeft
           /\ Poller \/ Profiler => TasksLeft' < TasksLeft
           /\ TasksLeft = 0 => poller \notin {"reading", "final"} /\ profiler = "gone"
<1>1. /\ slot \in 1 .. Cpus + 1 /\ Cpus \in Nat
      /\ profiler \in {"orphaned", "gone"}
  BY ShutdownAssumption DEF ShutdownInv, CounterTypes, DroppedInv
<1>2. /\ TasksLeft \in Nat
      /\ TasksLeft = 0 => poller \notin {"reading", "final"} /\ profiler = "gone"
  BY <1>1, SMTT(30) DEF TasksLeft, Reading
<1>3. ASSUME Poller PROVE TasksLeft' < TasksLeft /\ TasksLeft' <= TasksLeft
  BY <1>1, <1>3, SMTT(30) DEF Poller, Wake, RuntimeUp, ReadSlot, ReadFails, EmitDelta, Reread, TasksLeft,
       Reading, taskVars
<1>4. ASSUME Profiler PROVE TasksLeft' < TasksLeft /\ TasksLeft' <= TasksLeft
  BY <1>1, <1>4 DEF Profiler, CollectStops, WindowElapses, TasksLeft, Reading, pollerVars
<1>5. ASSUME ~Poller, ~Profiler PROVE TasksLeft' <= TasksLeft
  <2>1. CASE UNCHANGED <<poller, slot, profiler>>
    BY <1>2, <2>1 DEF TasksLeft, Reading
  <2>2. CASE Exit
    BY <1>1, <2>2 DEF Exit, TelemetryShutdown, Aborted, TasksLeft, Reading, pollerVars
  <2>3. ASSUME NEW c \in CPU, Packet(c) PROVE UNCHANGED <<poller, slot, profiler>>
    BY <2>3, Zenon DEF Packet, taskVars, pollerVars
  <2>4. ASSUME PeriodicExport \/ ControlEnds \/ UNCHANGED shutdownVars
        PROVE  UNCHANGED <<poller, slot, profiler>>
    BY <2>4, SMTT(30) DEF PeriodicExport, ControlEnds, shutdownVars, taskVars, pollerVars
  <2>5. ~(Main \/ Signal \/ Collect) \/ Exit
    BY DEF Main, Signal, ServerStops, Drained, DrainFails, StopPoller, AwaitPoller, AwaitControl,
         ShutdownTelemetry, DropRuntime, Collect, RuntimeUp
  <2> QED BY <1>5, <2>1, <2>2, <2>3, <2>4, <2>5, Zenon DEF ShutdownNext
<1> QED BY <1>2, <1>3, <1>4, <1>5, Zenon

\* What ShutdownEnds rests on, for any number of CPUs: main's steps are bounded and
\* the poller and the profiler cannot hold the drop of the runtime with new work, only
\* finish what they have begun.
THEOREM ShutdownComesCloser == ShutdownSpec => [][EndComesCloser]_shutdownVars
<1>1. ShutdownInv /\ DroppedInv /\ [ShutdownNext]_shutdownVars => [EndComesCloser]_shutdownVars
  BY MainGoesOn, TasksRunOut DEF EndComesCloser
<1> QED BY <1>1, ProcessHasShutdownInv, ProcessHasDroppedInv, PTL DEF ShutdownSpec
=============================================================================
