---------------------------- MODULE NacosWatcher ----------------------------
(***************************************************************************)
(* crates/doggy-dns-nacos/src/watcher.rs: NacosServiceWatcher answering    *)
(* concurrent queries from three sources (the server, the Nacos client's   *)
(* naming cache, or nothing), with the subscription ledger, the failure    *)
(* backoff and the external parts it stands on: the registry, the link to  *)
(* it, and the nacos-sdk naming cache as watcher.rs uses and describes it. *)
(*                                                                         *)
(* An await point of a query is a pc value; everything between two awaits  *)
(* is one action.  The atomics of FailureBackoff are taken as one step     *)
(* here; the module of that name takes them apart.  The window is kept as  *)
(* the seconds it has left, and the streak is counted up to Threshold,     *)
(* which is all is_open tells apart.                                       *)
(***************************************************************************)
EXTENDS Naturals, FiniteSets

CONSTANTS
    Query,          \* query tasks in flight at once
    Name,           \* service names a query can ask for
    Selected,       \* the names service_pattern selects
    Instance,       \* instances a service list can hold
    Healthy,        \* those usable_instances keeps: healthy, enabled, with an IP
    RegistryLists,  \* the lists the registry may hold for a name
    DiskLists,      \* the entries the client may load from disk at start
    NoEntry,        \* "the naming cache does not hold the name"
    Threshold,      \* NACOS_FAILURE_THRESHOLD
    Backoff,        \* NACOS_FAILURE_BACKOFF
    SdkMayFail,     \* whether the SDK's subscribe, or a read through its cache, can return Err
    MaxChanges      \* bound on the changes of the registry's lists

ASSUME WatcherAssumption ==
    /\ Name # {}
    /\ Selected \subseteq Name
    /\ Healthy \subseteq Instance
    /\ RegistryLists \subseteq SUBSET Instance /\ RegistryLists # {}
    /\ \A l \in SUBSET Instance : l # NoEntry
    /\ DiskLists \subseteq {NoEntry} \cup SUBSET Instance /\ DiskLists # {}
    /\ Threshold \in Nat \ {0} /\ Backoff \in Nat \ {0}
    /\ SdkMayFail \in BOOLEAN
    /\ MaxChanges \in Nat

VARIABLES
    \* external
    registry, link, changes,  \* the lists, the link's state, changes so far
    cache, tracked,           \* the SDK's naming cache; the names it keeps fresh
    \* the watcher
    subscribed,               \* the ledger
    failures, windowLeft, confirmed,  \* FailureBackoff
    \* one query task
    pc, service, entry, call, held, answer,
    \* history, read by no guard
    origin,     \* who wrote a cache entry: "disk" or "server"
    source,     \* where the list a query answers from was read
    refused,    \* the window was open when this query chose its entry
    standing    \* the names this task subscribed, the call not having failed

external == <<registry, link, changes, cache, tracked, origin>>
backoff == <<failures, windowLeft, confirmed>>
task == <<service, entry, refused>>
vars == <<external, backoff, subscribed, standing, pc, task, call, held, answer,
          source>>

AnyName == CHOOSE n \in Name : TRUE   \* the service of an idle task
Lists == SUBSET Instance
NoCall == [state |-> "none", list |-> {}]
Sent == [state |-> "sent", list |-> {}]
Replied(l) == [state |-> "reply", list |-> l]
Error == [state |-> "error", list |-> {}]
Calls == {NoCall, Sent, Error} \cup {Replied(l) : l \in Lists}

NoAnswer == [kind |-> "none", list |-> {}]
Unknown == [kind |-> "Unknown", list |-> {}]
Unavailable == [kind |-> "Unavailable", list |-> {}]
Instances(l) == [kind |-> "Instances", list |-> l]
Answers == {NoAnswer, Unknown, Unavailable} \cup {Instances(l) : l \in Lists}

Entries == {"none", "ClientCache", "CacheFirst", "ServerFirst", "CacheOnly"}
Sources == {"none", "disk", "pushed", "fetched", "swallowed", "server"}
Waiting == {"client", "probe", "confirm"}

TypeOK ==
    /\ registry \in [Name -> RegistryLists]
    /\ link \in {"up", "refuses", "hangs"}
    /\ changes \in 0 .. MaxChanges
    /\ cache \in [Name -> {NoEntry} \cup Lists]
    /\ tracked \subseteq Name
    /\ subscribed \subseteq Name
    /\ failures \in 0 .. Threshold
    /\ windowLeft \in 0 .. Backoff
    /\ confirmed \in BOOLEAN
    /\ pc \in [Query -> Waiting \cup {"idle", "cold", "subscribe", "done"}]
    /\ service \in [Query -> Name]
    /\ entry \in [Query -> Entries]
    /\ call \in [Query -> Calls]
    /\ held \in [Query -> Lists]
    /\ answer \in [Query -> Answers]
    /\ origin \in [Name -> {"disk", "server"}]
    /\ source \in [Query -> Sources]
    /\ refused \in [Query -> BOOLEAN]
    /\ standing \in [Query -> SUBSET Name]

\* new(): the client loads its cache from disk (load_cache_at_start); nothing
\* is subscribed and the registry has not answered yet.
Init ==
    /\ registry \in [Name -> RegistryLists]
    /\ link \in {"up", "refuses", "hangs"}
    /\ changes = 0
    /\ cache \in [Name -> DiskLists]
    /\ tracked = {}
    /\ subscribed = {}
    /\ failures = 0 /\ windowLeft = 0 /\ confirmed = FALSE
    /\ pc = [q \in Query |-> "idle"]
    /\ service = [q \in Query |-> AnyName]
    /\ entry = [q \in Query |-> "none"]
    /\ call = [q \in Query |-> NoCall]
    /\ held = [q \in Query |-> {}]
    /\ answer = [q \in Query |-> NoAnswer]
    /\ origin = [n \in Name |-> "disk"]
    /\ source = [q \in Query |-> "none"]
    /\ refused = [q \in Query |-> FALSE]
    /\ standing = [q \in Query |-> {}]

-----------------------------------------------------------------------------
(* FailureBackoff, one method per step *)

\* Mutation: a streak refuses for good.
IsOpenForever == failures >= Threshold

IsOpen == failures >= Threshold /\ windowLeft > 0

\* Mutation: the window is held one second too long.
RecordRemoteFailureLong ==
    /\ failures' = IF failures < Threshold THEN failures + 1 ELSE failures
    /\ windowLeft' = IF failures' >= Threshold THEN Backoff + 1 ELSE windowLeft
    /\ UNCHANGED confirmed

RecordRemoteFailure ==
    /\ failures' = IF failures < Threshold THEN failures + 1 ELSE failures
    /\ windowLeft' = IF failures' >= Threshold THEN Backoff ELSE windowLeft
    /\ UNCHANGED confirmed

RecordSuccess ==
    /\ failures' = 0
    /\ windowLeft' = 0
    /\ confirmed' = TRUE

-----------------------------------------------------------------------------
(* The pure decisions *)

\* Mutation: a registry that has once answered is asked whatever the window says.
EntryOfConfirmedFirst(ledgered, everConfirmed, windowOpen) ==
    CASE ledgered -> "ClientCache"
      [] ~ledgered /\ everConfirmed -> "ServerFirst"
      [] ~ledgered /\ ~everConfirmed /\ windowOpen -> "CacheOnly"
      [] OTHER -> "CacheFirst"

EntryOf(ledgered, everConfirmed, windowOpen) ==
    CASE ledgered      -> "ClientCache"
      [] ~ledgered /\ windowOpen -> "CacheOnly"
      [] ~ledgered /\ ~windowOpen /\ everConfirmed -> "ServerFirst"
      [] OTHER -> "CacheFirst"

UsableInstances(l) == l \cap Healthy

AnswerOf(l) ==
    IF UsableInstances(l) = {} THEN Unknown ELSE Instances(UsableInstances(l))

\* Mutation: an empty cache read is taken for an answer.
IsCacheHitAlways(l) == TRUE

\* cache_hit_of: an empty list is not an answer.
IsCacheHit(l) == UsableInstances(l) # {}

-----------------------------------------------------------------------------
(* instances(): the entry of a query *)

FirstWait(e) ==
    CASE e = "ClientCache" -> "client"
      [] e = "ServerFirst" -> "confirm"
      [] OTHER -> "probe"

\* Mutation: the service filter is not asked.
AskAnyName(q, n) ==
    /\ pc[q] = "idle"
    /\ LET e == EntryOf(n \in subscribed, confirmed, IsOpen) IN
        /\ entry' = [entry EXCEPT ![q] = e]
        /\ pc' = [pc EXCEPT ![q] = FirstWait(e)]
        /\ call' = [call EXCEPT ![q] = IF e = "ServerFirst" THEN Sent ELSE NoCall]
    /\ service' = [service EXCEPT ![q] = n]
    /\ refused' = [refused EXCEPT ![q] = IsOpen /\ n \notin subscribed]
    /\ UNCHANGED <<external, backoff, subscribed, standing, held, answer,
                   source>>

Ask(q, n) ==
    /\ pc[q] = "idle"
    /\ n \in Selected
    /\ LET e == EntryOf(n \in subscribed, confirmed, IsOpen) IN
        /\ entry' = [entry EXCEPT ![q] = e]
        /\ pc' = [pc EXCEPT ![q] = FirstWait(e)]
        /\ call' = [call EXCEPT ![q] = IF e = "ServerFirst" THEN Sent ELSE NoCall]
    /\ service' = [service EXCEPT ![q] = n]
    /\ refused' = [refused EXCEPT ![q] = IsOpen /\ n \notin subscribed]
    /\ UNCHANGED <<external, backoff, subscribed, standing, held, answer,
                   source>>

\* ServiceFilter did not select the name: it is never sent to Nacos.
AskUnselected(q, n) ==
    /\ pc[q] = "idle"
    /\ n \notin Selected
    /\ service' = [service EXCEPT ![q] = n]
    /\ pc' = [pc EXCEPT ![q] = "done"]
    /\ answer' = [answer EXCEPT ![q] = Unknown]
    /\ UNCHANGED <<external, backoff, subscribed, standing, entry, refused, call, held, source>>

-----------------------------------------------------------------------------
(* How a query goes on once an await is over.  Each of these sets pc, call, *)
(* held, answer and source.                                                 *)

Finish(q, a, src) ==
    /\ pc' = [pc EXCEPT ![q] = "done"]
    /\ call' = [call EXCEPT ![q] = NoCall]
    /\ answer' = [answer EXCEPT ![q] = a]
    /\ source' = [source EXCEPT ![q] = src]
    /\ held' = [held EXCEPT ![q] = {}]

WaitFor(q, where, c) ==
    /\ pc' = [pc EXCEPT ![q] = where]
    /\ call' = [call EXCEPT ![q] = c]
    /\ UNCHANGED <<held, answer, source>>

\* subscribe_name up to its contains check, then the answer for the list l: a
\* ledgered name answers at once.  Any other goes on to subscribe, and another
\* task may put it in the ledger before it does.
SubscribeName(q, l, src) ==
    IF service[q] \in subscribed
    THEN Finish(q, AnswerOf(l), src)
    ELSE /\ pc' = [pc EXCEPT ![q] = "cold"]
         /\ call' = [call EXCEPT ![q] = NoCall]
         /\ held' = [held EXCEPT ![q] = l]
         /\ source' = [source EXCEPT ![q] = src]
         /\ UNCHANGED answer

\* answer_from_cache gave None.
ProbeMissed(q) ==
    IF entry[q] = "CacheFirst"
    THEN WaitFor(q, "confirm", Sent)
    ELSE Finish(q, Unavailable, "none")

\* answer_from_server gave Unavailable.
ServerFailed(q) ==
    IF entry[q] = "ServerFirst"
    THEN WaitFor(q, "probe", NoCall)
    ELSE Finish(q, Unavailable, "none")

\* Mutation: an answer from the cache does not subscribe its name.
AnswerWithoutSubscribing(q, l, src) ==
    IF pc[q] = "client" \/ IsCacheHit(l)
    THEN Finish(q, AnswerOf(l), src)
    ELSE ProbeMissed(q)

\* A list read with subscribe = true: read_client_cache answers from it whatever
\* it holds, answer_from_cache only when it holds instances.
FetchCacheAnswered(q, l, src) ==
    IF pc[q] = "client"
    THEN Finish(q, AnswerOf(l), src)
    ELSE IF IsCacheHit(l)
         THEN SubscribeName(q, l, src)
         ELSE ProbeMissed(q)

-----------------------------------------------------------------------------
(* fetch_cache: get_all_instances with subscribe = true *)

\* The cache holds the name: a map read and a clone, with no wait.
ReadCacheEntry(q) ==
    /\ pc[q] \in {"client", "probe"}
    /\ call[q] = NoCall
    /\ cache[service[q]] # NoEntry
    /\ FetchCacheAnswered(q, cache[service[q]],
                          IF origin[service[q]] = "disk" THEN "disk" ELSE "pushed")
    /\ UNCHANGED <<external, backoff, subscribed, standing, task>>

\* It does not: the SDK subscribes the name and waits for its first fetch.
FetchMissingEntry(q) ==
    /\ pc[q] \in {"client", "probe"}
    /\ call[q] = NoCall
    /\ cache[service[q]] = NoEntry
    /\ call' = [call EXCEPT ![q] = Sent]
    /\ tracked' = tracked \cup {service[q]}
    /\ UNCHANGED <<registry, link, changes, cache, origin, backoff, subscribed,
                   standing, pc, task, held, answer, source>>

-----------------------------------------------------------------------------
(* The wait for the server *)

\* The server's reply, or the link's error, is on its way back.
ServerReplies(q) ==
    /\ pc[q] \in Waiting
    /\ call[q] = Sent
    /\ link # "hangs"
    /\ call' = [call EXCEPT ![q] =
                    IF link = "up" THEN Replied(registry[service[q]]) ELSE Error]
    /\ UNCHANGED <<external, backoff, subscribed, standing, pc, task, held,
                   answer, source>>

\* With subscribe = true the SDK swallows a failed fetch into an empty list.
ReceiveFetch(q) ==
    /\ pc[q] \in {"client", "probe"}
    /\ call[q].state \in {"reply", "error"}
    /\ FetchCacheAnswered(q, call[q].list,
                          IF call[q].state = "reply" THEN "fetched" ELSE "swallowed")
    /\ UNCHANGED <<external, backoff, subscribed, standing, task>>

\* The defensive arms for a version that reports it: nothing is counted.
FetchFails(q) ==
    /\ SdkMayFail
    /\ pc[q] \in {"client", "probe"}
    /\ call[q].state = "error"
    /\ IF pc[q] = "client" THEN Finish(q, Unavailable, "none") ELSE ProbeMissed(q)
    /\ UNCHANGED <<external, backoff, subscribed, standing, task>>

\* With subscribe = false a failure is reported, and counted.
ReceiveConfirm(q) ==
    /\ pc[q] = "confirm"
    /\ \/ /\ call[q].state = "reply"
          /\ RecordSuccess
          /\ SubscribeName(q, call[q].list, "server")
       \/ /\ call[q].state = "error"
          /\ RecordRemoteFailure
          /\ ServerFailed(q)
    /\ UNCHANGED <<external, subscribed, standing, task>>

\* Mutation: the read of a subscribed name is not bounded.
TimeoutUnlessClient(q) ==
    /\ pc[q] \in Waiting
    /\ call[q] # NoCall
    /\ link # "up"
    /\ \/ /\ pc[q] = "confirm"
          /\ RecordRemoteFailure
          /\ ServerFailed(q)
       \/ /\ pc[q] = "probe"
          /\ ProbeMissed(q)
          /\ UNCHANGED backoff
    /\ UNCHANGED <<external, subscribed, standing, task>>

\* tokio::time::timeout fires while the reply is missing or still on its way.
\* The 50 ms cut of a probe counts nothing; the 3 s cuts count a failure.
Timeout(q) ==
    /\ pc[q] \in Waiting
    /\ call[q] # NoCall
    /\ link # "up"
    /\ \/ /\ pc[q] = "client"
          /\ RecordRemoteFailure
          /\ Finish(q, Unavailable, "none")
       \/ /\ pc[q] = "confirm"
          /\ RecordRemoteFailure
          /\ ServerFailed(q)
       \/ /\ pc[q] = "probe"
          /\ ProbeMissed(q)
          /\ UNCHANGED backoff
    /\ UNCHANGED <<external, subscribed, standing, task>>

-----------------------------------------------------------------------------
(* The rest of subscribe_name, and the end of the query *)

\* The call of subscribe: the SDK registers its listener and refresh task before
\* it waits for the server.
IssueSubscribe(q) ==
    /\ pc[q] = "cold"
    /\ pc' = [pc EXCEPT ![q] = "subscribe"]
    /\ tracked' = tracked \cup {service[q]}
    /\ standing' = [standing EXCEPT ![q] = @ \cup {service[q]}]
    /\ UNCHANGED <<registry, link, changes, cache, origin, backoff, subscribed, task,
                   call, held, answer, source>>

\* Mutation: the name is not put in the ledger.
SubscribeReturnsUnledgered(q) ==
    /\ pc[q] = "subscribe"
    /\ link # "hangs"
    /\ Finish(q, AnswerOf(held[q]), source[q])
    /\ UNCHANGED <<external, backoff, subscribed, standing, task>>

\* nacos-sdk swallows the request error, so a refusing link returns Ok as well.
SubscribeReturns(q) ==
    /\ pc[q] = "subscribe"
    /\ link # "hangs"
    /\ subscribed' = subscribed \cup {service[q]}
    /\ Finish(q, AnswerOf(held[q]), source[q])
    /\ UNCHANGED <<external, backoff, standing, task>>

\* The defensive arm: a failed subscribe leaves the name out of the ledger.
SubscribeFails(q) ==
    /\ SdkMayFail
    /\ pc[q] = "subscribe"
    /\ link = "refuses"
    /\ Finish(q, AnswerOf(held[q]), source[q])
    /\ standing' = [standing EXCEPT ![q] = @ \ {service[q]}]
    /\ UNCHANGED <<external, backoff, subscribed, task>>

\* The answer is taken and the task's locals go away.
Return(q) ==
    /\ pc[q] = "done"
    /\ pc' = [pc EXCEPT ![q] = "idle"]
    /\ service' = [service EXCEPT ![q] = AnyName]
    /\ entry' = [entry EXCEPT ![q] = "none"]
    /\ answer' = [answer EXCEPT ![q] = NoAnswer]
    /\ source' = [source EXCEPT ![q] = "none"]
    /\ refused' = [refused EXCEPT ![q] = FALSE]
    /\ UNCHANGED <<external, backoff, subscribed, standing, call, held>>

-----------------------------------------------------------------------------
(* The world around the watcher *)

\* A push or a periodic refresh replaces the entry of a name the SDK tracks;
\* empty-push protection is off, so an empty list replaces it too.
SdkWrites(n) ==
    /\ n \in tracked
    /\ link = "up"
    /\ cache' = [cache EXCEPT ![n] = registry[n]]
    /\ origin' = [origin EXCEPT ![n] = "server"]
    /\ UNCHANGED <<registry, link, changes, tracked, backoff, subscribed,
                   standing, pc, task, call, held, answer, source>>

RegistryChanges(n, l) ==
    /\ changes < MaxChanges
    /\ registry[n] # l
    /\ registry' = [registry EXCEPT ![n] = l]
    /\ changes' = changes + 1
    /\ UNCHANGED <<link, cache, tracked, origin, backoff, subscribed, standing,
                   pc, task, call, held, answer, source>>

LinkChanges(s) ==
    /\ link # s
    /\ link' = s
    /\ UNCHANGED <<registry, changes, cache, tracked, origin, backoff, subscribed,
                   standing, pc, task, call, held, answer, source>>

Tick ==
    /\ windowLeft > 0
    /\ windowLeft' = windowLeft - 1
    /\ UNCHANGED <<external, failures, confirmed, subscribed, standing, pc,
                   task, call, held, answer, source>>

QueryStep(q) ==
    \/ ReadCacheEntry(q)
    \/ FetchMissingEntry(q)
    \/ ServerReplies(q)
    \/ ReceiveFetch(q)
    \/ FetchFails(q)
    \/ ReceiveConfirm(q)
    \/ Timeout(q)
    \/ IssueSubscribe(q)
    \/ Return(q)

Next ==
    \/ \E q \in Query, n \in Name : Ask(q, n) \/ AskUnselected(q, n)
    \/ \E q \in Query : QueryStep(q) \/ SubscribeReturns(q) \/ SubscribeFails(q)
    \/ \E n \in Name : SdkWrites(n)
    \/ \E n \in Name, l \in RegistryLists : RegistryChanges(n, l)
    \/ \E s \in {"up", "refuses", "hangs"} : LinkChanges(s)
    \/ Tick

Spec == Init /\ [][Next]_vars

\* A task that is awake keeps running, a bounded call ends in its reply or its
\* timeout, the client refreshes the names it tracks, and seconds pass.
BoundedFairness ==
    /\ \A q \in Query : WF_vars(QueryStep(q))
    /\ \A n \in Name : SF_vars(SdkWrites(n))
    /\ WF_vars(Tick)

\* Nothing bounds the await of subscribe in the code: that it returns is a
\* promise of the SDK, once the registry is within reach.
SubscribeFairness == \A q \in Query : WF_vars(SubscribeReturns(q))

BoundedSpec == Spec /\ BoundedFairness
FairSpec == BoundedSpec /\ SubscribeFairness

-----------------------------------------------------------------------------
(* Properties *)

Answered(q, kind) == pc[q] = "done" /\ answer[q].kind = kind

\* A name this process has not subscribed is answered Unknown (NXDOMAIN) only on
\* the server's own reply: no outage, timeout, swallowed fetch error or empty
\* cache entry turns into a negative answer (answer_from_server, cache_hit_of).
UnconfirmedIsNeverUnknown ==
    \A q \in Query :
        Answered(q, "Unknown") /\ service[q] \in Selected /\ entry[q] # "ClientCache"
            => source[q] = "server"

\* A query that found the failure window open for an unledgered name never
\* waits for a confirmation by the server (entry_of, CacheOnly).
WindowSparesTheServer == \A q \in Query : refused[q] => pc[q] # "confirm"

\* Every ledgered name is one the client keeps fresh, and the client is never
\* told of a name service_pattern rejects (subscribe_name, ServiceFilter).
LedgerIsTracked == subscribed \subseteq tracked /\ tracked \subseteq Selected

\* However cold queries race between the contains check, the subscribe and the
\* insert after it, none of them adds to the calls for good: a task that comes to
\* subscribe a name has no subscribe of it standing from an earlier query.  Over
\* the whole life of the process a name costs at most one successful call for each
\* query that can be in flight at once (subscribe_name: "a cold race can now send
\* two subscribes").
OneSubscribePerTask == \A q \in Query : pc[q] = "cold" => service[q] \notin standing[q]

\* "Every answer needs instances: an empty cache read is a miss ... so no query
\* is served from absence" (docs/architecture.md): Unknown is answered only when
\* the server said so, to this query or through a write of the cache.
NoAnswerFromAbsence ==
    \A q \in Query : Answered(q, "Unknown") /\ service[q] \in Selected
        => source[q] \in {"server", "fetched", "pushed"}

\* Whatever the link does, the two bounded waits of instances() end: a registry
\* that never answers costs a query its timeouts and no more, until the query
\* goes on to subscribe (NACOS_LOOKUP_TIMEOUT, NACOS_CACHE_READ_TIMEOUT).
BoundedWaitsEnd ==
    \A q \in Query : pc[q] \in Waiting ~> pc[q] \in {"subscribe", "done"}

\* Every query is answered: no wait of instances() is unbounded ("a query that
\* tries the cache and then the server waits 3.05 seconds at most",
\* docs/configuration.md).
EveryQueryAnswers == \A q \in Query : pc[q] # "idle" ~> pc[q] = "idle"

\* Once the link stays up, a name some query answered with instances gets the
\* registry's list as its cache entry, even if the answer came from disk: what a
\* query answers from the cache it also subscribes (answer_from_cache).
AnsweredNamesConverge ==
    <>[](link = "up") =>
        \A n \in Name :
            (\E q \in Query : service[q] = n /\ Answered(q, "Instances")) ~>
                (cache[n] = registry[n])

\* Once the link stays up, refusing ends: from some point on every answer for a
\* name is what the registry's list implies.  The backoff window lifts, cold
\* names are confirmed, and subscribed ones follow their pushes.
RecoveryServesRegistry ==
    <>[](link = "up") =>
        <>[](\A q \in Query : pc[q] = "done" /\ service[q] \in Selected
                => answer[q] = AnswerOf(registry[service[q]]))
=============================================================================
