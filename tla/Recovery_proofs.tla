--------------------------- MODULE Recovery_proofs --------------------------
(***************************************************************************)
(* How the program gets over the loss of what it stands on.  NacosWatcher, *)
(* for any number of concurrent queries, any names and lists, and any      *)
(* threshold and backoff: what is answered while the registry comes and    *)
(* goes.  Restart, for any number of processes: what a process claims it   *)
(* holds, every fast path is on the one pinned map, and the node answers   *)
(* DNS for as long as some process that serves is left alone.              *)
(***************************************************************************)
EXTENDS NacosWatcher, Restart, TLAPS

-----------------------------------------------------------------------------
(* Types of the small values *)

\* What the SDK call of a query carries is a service list.
LEMMA CallTypes ==
    /\ NoCall \in Calls /\ Sent \in Calls /\ Error \in Calls
    /\ \A l \in Lists : Replied(l) \in Calls
    /\ \A c \in Calls : c.list \in Lists
<1>1. {} \in Lists
  BY DEF Lists
<1>2. NoCall.list = {} /\ Sent.list = {} /\ Error.list = {}
  BY DEF NoCall, Sent, Error
<1>3. ASSUME NEW l \in Lists PROVE Replied(l).list = l
  BY DEF Replied
<1>4. QED
  BY <1>1, <1>2, <1>3, Zenon DEF Calls

\* The answers instances() can build are answers.
LEMMA AnswerTypes ==
    /\ NoAnswer \in Answers /\ Unknown \in Answers /\ Unavailable \in Answers
    /\ \A l \in Lists : AnswerOf(l) \in Answers
BY WatcherAssumption, Zenon
   DEF Answers, NoAnswer, Unknown, Unavailable, Instances, AnswerOf,
       UsableInstances, Lists

\* The service of an idle task is a name.
LEMMA AnyNameType == AnyName \in Name
BY WatcherAssumption DEF AnyName

\* What the continuations of a query may set, whichever of them it takes.
ContinuationType ==
    /\ pc' \in [Query -> Waiting \cup {"idle", "cold", "subscribe", "done"}]
    /\ call' \in [Query -> Calls]
    /\ held' \in [Query -> Lists]
    /\ answer' \in [Query -> Answers]
    /\ source' \in [Query -> Sources]

\* Ending a query keeps the types.
LEMMA FinishType ==
    ASSUME TypeOK, NEW q \in Query, NEW a \in Answers, NEW src \in Sources,
           Finish(q, a, src)
    PROVE  ContinuationType
BY DEF TypeOK, Finish, ContinuationType, Calls, Lists

\* Going on to another await keeps the types.
LEMMA WaitForType ==
    ASSUME TypeOK, NEW q \in Query, NEW where \in Waiting, NEW c \in Calls,
           WaitFor(q, where, c)
    PROVE  ContinuationType
BY DEF TypeOK, WaitFor, ContinuationType

\* subscribe_name and the answer after it keep the types.
LEMMA SubscribeType ==
    ASSUME TypeOK, NEW q \in Query, NEW l \in Lists, NEW src \in Sources,
           SubscribeName(q, l, src)
    PROVE  ContinuationType
<1>1. CASE service[q] \in subscribed
  BY <1>1, FinishType, AnswerTypes DEF SubscribeName
<1>2. CASE service[q] \notin subscribed
  BY <1>2 DEF SubscribeName, TypeOK, ContinuationType, Calls
<1>3. QED
  BY <1>1, <1>2

\* A cache miss keeps the types.
LEMMA ProbeMissedType ==
    ASSUME TypeOK, NEW q \in Query, ProbeMissed(q)
    PROVE  ContinuationType
BY FinishType, WaitForType, AnswerTypes, CallTypes DEF ProbeMissed, Waiting, Sources

\* An unavailable server keeps the types.
LEMMA ServerFailedType ==
    ASSUME TypeOK, NEW q \in Query, ServerFailed(q)
    PROVE  ContinuationType
BY FinishType, WaitForType, AnswerTypes, CallTypes DEF ServerFailed, Waiting, Sources

\* A fetched or cached list keeps the types.
LEMMA FetchType ==
    ASSUME TypeOK, NEW q \in Query, NEW l \in Lists, NEW src \in Sources,
           FetchCacheAnswered(q, l, src)
    PROVE  ContinuationType
BY FinishType, SubscribeType, ProbeMissedType, AnswerTypes DEF FetchCacheAnswered

\* Both FailureBackoff updates keep the count and the window in range.
LEMMA BackoffType ==
    ASSUME TypeOK, RecordSuccess \/ RecordRemoteFailure
    PROVE  /\ failures' \in 0 .. Threshold
           /\ windowLeft' \in 0 .. Backoff
           /\ confirmed' \in BOOLEAN
<1>1. confirmed' \in BOOLEAN
  BY Zenon DEF TypeOK, RecordSuccess, RecordRemoteFailure
<1>2. failures' \in 0 .. Threshold /\ windowLeft' \in 0 .. Backoff
  BY WatcherAssumption DEF TypeOK, RecordSuccess, RecordRemoteFailure
<1>3. QED
  BY <1>1, <1>2

-----------------------------------------------------------------------------
(* Type correctness *)

\* A new watcher is well typed.
LEMMA WatcherTypeInit == Init => TypeOK
<1> SUFFICES ASSUME Init PROVE TypeOK
  OBVIOUS
<1>1. failures \in 0 .. Threshold /\ windowLeft \in 0 .. Backoff
      /\ changes \in 0 .. MaxChanges
  BY WatcherAssumption DEF Init
<1>2. confirmed \in BOOLEAN /\ refused \in [Query -> BOOLEAN]
  BY Zenon DEF Init
<1>3. cache \in [Name -> {NoEntry} \cup Lists]
  BY WatcherAssumption DEF Init, Lists
<1>4. call \in [Query -> Calls] /\ answer \in [Query -> Answers]
  BY CallTypes, AnswerTypes DEF Init
<1>5. service \in [Query -> Name]
  BY AnyNameType DEF Init
<1>6. standing \in [Query -> SUBSET Name] /\ held \in [Query -> Lists]
  BY DEF Init, Lists
<1>7. QED
  BY <1>1, <1>2, <1>3, <1>4, <1>5, <1>6 DEF Init, TypeOK, Entries, Sources

\* Every step of a query and of the world around it keeps the types.
LEMMA WatcherTypeStep == TypeOK /\ [Next]_vars => TypeOK'
<1> SUFFICES ASSUME TypeOK, [Next]_vars PROVE TypeOK'
  OBVIOUS
<1> USE DEF external, backoff, task
<1>1. ASSUME NEW q \in Query, NEW n \in Name, Ask(q, n) PROVE TypeOK'
  <2>1. \A e \in Entries : FirstWait(e) \in Waiting
    BY DEF FirstWait, Waiting
  <2>3. EntryOf(n \in subscribed, confirmed, IsOpen) \in Entries
    BY DEF EntryOf, Entries
  <2>4. pc' \in [Query -> Waiting \cup {"idle", "cold", "subscribe", "done"}]
        /\ entry' \in [Query -> Entries] /\ call' \in [Query -> Calls]
    BY <1>1, <2>1, <2>3, CallTypes DEF Ask, TypeOK
  <2>5. refused' \in [Query -> BOOLEAN]
    <3>1. (IsOpen /\ n \notin subscribed) \in BOOLEAN
      BY DEF TypeOK, IsOpen
    <3>2. QED
      BY <1>1, <3>1 DEF Ask, TypeOK
  <2>6. QED
    BY <1>1, <2>4, <2>5 DEF Ask, TypeOK
<1>2. ASSUME NEW q \in Query, NEW n \in Name, AskUnselected(q, n) PROVE TypeOK'
  BY <1>2, AnswerTypes DEF AskUnselected, TypeOK
<1>3. ASSUME NEW q \in Query, ReadCacheEntry(q) PROVE TypeOK'
  <2>1. cache[service[q]] \in Lists
    BY <1>3 DEF ReadCacheEntry, TypeOK
  <2>2. ContinuationType
    BY <1>3, <2>1, FetchType DEF ReadCacheEntry, Sources
  <2>3. QED
    BY <1>3, <2>2 DEF ReadCacheEntry, TypeOK, ContinuationType
<1>4. ASSUME NEW q \in Query, FetchMissingEntry(q) PROVE TypeOK'
  BY <1>4, CallTypes DEF FetchMissingEntry, TypeOK
<1>5. ASSUME NEW q \in Query, ServerReplies(q) PROVE TypeOK'
  <2>1. registry[service[q]] \in Lists
    BY WatcherAssumption DEF TypeOK, Lists
  <2>2. call' \in [Query -> Calls]
    BY <1>5, <2>1, CallTypes DEF ServerReplies, TypeOK
  <2>3. QED
    BY <1>5, <2>2 DEF ServerReplies, TypeOK
<1>6. ASSUME NEW q \in Query, ReceiveFetch(q) PROVE TypeOK'
  <2>1. ContinuationType
    BY <1>6, FetchType, CallTypes DEF ReceiveFetch, TypeOK, Sources
  <2>2. QED
    BY <1>6, <2>1 DEF ReceiveFetch, TypeOK, ContinuationType
<1>7. ASSUME NEW q \in Query, ReceiveConfirm(q) PROVE TypeOK'
  <2>1. call[q].list \in Lists
    BY CallTypes DEF TypeOK
  <2>2. ContinuationType
    BY <1>7, <2>1, SubscribeType, ServerFailedType DEF ReceiveConfirm, Sources
  <2>3. /\ failures' \in 0 .. Threshold /\ windowLeft' \in 0 .. Backoff
        /\ confirmed' \in BOOLEAN
    BY <1>7, BackoffType DEF ReceiveConfirm
  <2>4. QED
    BY <1>7, <2>2, <2>3 DEF ReceiveConfirm, TypeOK, ContinuationType
<1>8. ASSUME NEW q \in Query, Timeout(q) PROVE TypeOK'
  <2>1. ContinuationType
    BY <1>8, FinishType, ServerFailedType, ProbeMissedType, AnswerTypes
       DEF Timeout, Sources
  <2>2. /\ failures' \in 0 .. Threshold /\ windowLeft' \in 0 .. Backoff
        /\ confirmed' \in BOOLEAN
    BY <1>8, BackoffType DEF Timeout, TypeOK
  <2>3. QED
    BY <1>8, <2>1, <2>2, SMTT(30) DEF Timeout, TypeOK, ContinuationType
<1>9. ASSUME NEW q \in Query, SubscribeReturns(q) \/ SubscribeFails(q) PROVE TypeOK'
  <2>1. ContinuationType
    BY <1>9, FinishType, AnswerTypes DEF SubscribeReturns, SubscribeFails, TypeOK
  <2>2. QED
    BY <1>9, <2>1 DEF SubscribeReturns, SubscribeFails, TypeOK, ContinuationType
<1>17. ASSUME NEW q \in Query, FetchFails(q) PROVE TypeOK'
  <2>1. ContinuationType
    BY <1>17, FinishType, ProbeMissedType, AnswerTypes DEF FetchFails, Sources
  <2>2. QED
    BY <1>17, <2>1 DEF FetchFails, TypeOK, ContinuationType
<1>18. ASSUME NEW q \in Query, IssueSubscribe(q) PROVE TypeOK'
  BY <1>18 DEF IssueSubscribe, TypeOK
<1>10. ASSUME NEW q \in Query, Return(q) PROVE TypeOK'
  <2>1. refused' \in [Query -> BOOLEAN]
    BY <1>10 DEF Return, TypeOK
  <2>2. QED
    BY <1>10, <2>1, AnswerTypes, AnyNameType DEF Return, TypeOK, Entries, Sources
<1>11. ASSUME NEW n \in Name, SdkWrites(n) PROVE TypeOK'
  <2>1. registry[n] \in Lists
    BY WatcherAssumption DEF TypeOK, Lists
  <2>2. QED
    BY <1>11, <2>1 DEF SdkWrites, TypeOK
<1>12. ASSUME NEW n \in Name, NEW l \in RegistryLists, RegistryChanges(n, l)
       PROVE TypeOK'
  BY <1>12, WatcherAssumption DEF RegistryChanges, TypeOK
<1>13. ASSUME NEW s \in {"up", "refuses", "hangs"}, LinkChanges(s) PROVE TypeOK'
  BY <1>13 DEF LinkChanges, TypeOK
<1>14. CASE Tick
  BY <1>14, WatcherAssumption DEF Tick, TypeOK
<1>15. CASE UNCHANGED vars
  BY <1>15 DEF vars, TypeOK
<1>16. QED
  BY <1>1, <1>2, <1>3, <1>4, <1>5, <1>6, <1>7, <1>8, <1>9, <1>10, <1>11, <1>12,
     <1>13, <1>14, <1>15, <1>17, <1>18 DEF Next, QueryStep

\* The watcher's state, the ledger, the backoff and every query task keep their
\* types under every interleaving of queries, SDK writes and link changes.
THEOREM WatcherTypeCorrect == Spec => []TypeOK
<1>1. QED
  BY WatcherTypeInit, WatcherTypeStep, PTL DEF Spec

-----------------------------------------------------------------------------
(* The inductive invariant behind the safety properties *)

\* What holds of one query task at every await point.
TaskInv(q) ==
    /\ pc[q] \in Waiting \cup {"cold", "subscribe"} => service[q] \in Selected
    /\ pc[q] = "client" => entry[q] = "ClientCache"
    /\ pc[q] = "confirm" => entry[q] \in {"ServerFirst", "CacheFirst"}
    /\ refused[q] => entry[q] = "CacheOnly"
    /\ pc[q] = "subscribe" => service[q] \in tracked
    /\ pc[q] \in {"cold", "subscribe"} => source[q] = "server" \/ UsableInstances(held[q]) # {}
    /\ Answered(q, "Unknown") /\ service[q] \in Selected /\ entry[q] # "ClientCache"
        => source[q] = "server"

SafeInv == LedgerIsTracked /\ \A q \in Query : TaskInv(q)

\* A task that an action of another task, or of the environment, leaves alone
\* keeps its invariant, because the client only ever tracks more names.
LEMMA BystanderKeeps ==
    ASSUME NEW d, TaskInv(d), tracked \subseteq tracked',
           pc'[d] = pc[d], service'[d] = service[d], entry'[d] = entry[d],
           refused'[d] = refused[d], source'[d] = source[d], held'[d] = held[d],
           answer'[d] = answer[d]
    PROVE  TaskInv(d)'
BY DEF TaskInv, Answered, UsableInstances

\* An answer is Unknown only when it is AnswerOf of a list without usable
\* instances.
LEMMA AnswerKinds ==
    /\ Unavailable.kind # "Unknown"
    /\ \A l \in Lists : AnswerOf(l).kind = "Unknown" => UsableInstances(l) = {}
BY DEF Unavailable, Unknown, Instances, AnswerOf

\* Ending a query with an answer its source justifies keeps the invariant.
LEMMA FinishKeeps ==
    ASSUME TypeOK, SafeInv, NEW q \in Query, NEW a, NEW src, Finish(q, a, src),
           UNCHANGED <<task, tracked>>,
           subscribed' \subseteq tracked,
           a.kind = "Unknown" => entry[q] = "ClientCache" \/ src = "server"
    PROVE  SafeInv'
<1> USE DEF task
<1>1. LedgerIsTracked'
  BY DEF Finish, SafeInv, LedgerIsTracked
<1>2. TaskInv(q)'
  BY DEF Finish, SafeInv, TaskInv, TypeOK, Answered, Waiting
<1>3. ASSUME NEW d \in Query, d # q PROVE TaskInv(d)'
  <2>1. TaskInv(d)
    BY DEF SafeInv
  <2>2. QED
    BY <1>3, <2>1, BystanderKeeps DEF Finish, TypeOK
<1>4. QED
  BY <1>1, <1>2, <1>3 DEF SafeInv

\* Going on to an await the query may take keeps the invariant.
LEMMA WaitForKeeps ==
    ASSUME TypeOK, SafeInv, NEW q \in Query, NEW where, NEW c, WaitFor(q, where, c),
           UNCHANGED <<task, tracked, subscribed>>,
           pc[q] \in Waiting, where \in {"confirm", "probe"},
           where = "confirm" => entry[q] = "CacheFirst"
    PROVE  SafeInv'
<1> USE DEF task
<1>1. LedgerIsTracked'
  BY DEF WaitFor, SafeInv, LedgerIsTracked
<1>2. TaskInv(q)'
  BY DEF WaitFor, SafeInv, TaskInv, TypeOK, Answered, Waiting
<1>3. ASSUME NEW d \in Query, d # q PROVE TaskInv(d)'
  <2>1. TaskInv(d)
    BY DEF SafeInv
  <2>2. QED
    BY <1>3, <2>1, BystanderKeeps DEF WaitFor, TypeOK
<1>4. QED
  BY <1>1, <1>2, <1>3 DEF SafeInv

\* subscribe_name is reached with a list that justifies the answer.
LEMMA SubscribeKeeps ==
    ASSUME TypeOK, SafeInv, NEW q \in Query, NEW l \in Lists, NEW src,
           SubscribeName(q, l, src),
           UNCHANGED <<task, tracked, subscribed>>,
           pc[q] \in Waiting,
           src = "server" \/ UsableInstances(l) # {}
    PROVE  SafeInv'
<1> USE DEF task
<1>1. CASE service[q] \in subscribed
  <2>1. subscribed' \subseteq tracked
    BY DEF SafeInv, LedgerIsTracked
  <2>2. QED
    BY <1>1, <2>1, FinishKeeps, AnswerKinds DEF SubscribeName
<1>2. CASE service[q] \notin subscribed
  <2> USE <1>2 DEF SubscribeName
  <2>0. service[q] \in Selected
    BY DEF SafeInv, TaskInv
  <2>1. LedgerIsTracked'
    BY <2>0 DEF SafeInv, LedgerIsTracked
  <2>2. TaskInv(q)'
    BY <2>0, SMTT(30) DEF SafeInv, TaskInv, TypeOK, Answered, Waiting, UsableInstances
  <2>3. ASSUME NEW d \in Query, d # q PROVE TaskInv(d)'
    <3>1. TaskInv(d)
      BY SMTT(30) DEF SafeInv
    <3>2. QED
      BY <2>3, <3>1, BystanderKeeps DEF TypeOK
  <2>4. QED
    BY <2>1, <2>2, <2>3, SMTT(30) DEF SafeInv
<1>3. QED
  BY <1>1, <1>2

\* A cache miss asks the server only if the window was closed.
LEMMA ProbeMissedKeeps ==
    ASSUME TypeOK, SafeInv, NEW q \in Query, ProbeMissed(q),
           UNCHANGED <<task, tracked, subscribed>>, pc[q] \in Waiting
    PROVE  SafeInv'
<1>1. subscribed' \subseteq tracked
  BY SMTT(30) DEF SafeInv, LedgerIsTracked
<1>2. QED
  BY <1>1, FinishKeeps, WaitForKeeps, AnswerKinds, Zenon DEF ProbeMissed

\* An unavailable server leads to the cache or to Unavailable.
LEMMA ServerFailedKeeps ==
    ASSUME TypeOK, SafeInv, NEW q \in Query, ServerFailed(q),
           UNCHANGED <<task, tracked, subscribed>>, pc[q] \in Waiting
    PROVE  SafeInv'
<1>1. subscribed' \subseteq tracked
  BY DEF SafeInv, LedgerIsTracked
<1>2. QED
  BY <1>1, FinishKeeps, WaitForKeeps, AnswerKinds, Zenon DEF ServerFailed

\* A list read with subscribe = true answers only as its reader allows.
LEMMA FetchKeeps ==
    ASSUME TypeOK, SafeInv, NEW q \in Query, NEW l \in Lists, NEW src,
           FetchCacheAnswered(q, l, src),
           UNCHANGED <<task, tracked, subscribed>>, pc[q] \in {"client", "probe"}
    PROVE  SafeInv'
<1>1. pc[q] \in Waiting
  BY DEF Waiting
<1>2. subscribed' \subseteq tracked
  BY DEF SafeInv, LedgerIsTracked
<1>3. CASE pc[q] = "client"
  <2>1. entry[q] = "ClientCache"
    BY <1>3 DEF SafeInv, TaskInv
  <2>2. QED
    BY <1>2, <1>3, <2>1, FinishKeeps, SMTT(30) DEF FetchCacheAnswered
<1>4. CASE pc[q] # "client"
  BY <1>1, <1>4, SubscribeKeeps, ProbeMissedKeeps DEF FetchCacheAnswered, IsCacheHit
<1>5. QED
  BY <1>3, <1>4

\* A watcher without queries satisfies the invariant.
LEMMA SafeInit == Init => SafeInv
BY DEF Init, SafeInv, LedgerIsTracked, TaskInv, Answered, Waiting

\* Every step keeps the invariant, one case per action.
LEMMA SafeStep == TypeOK /\ SafeInv /\ [Next]_vars => SafeInv'
<1> SUFFICES ASSUME TypeOK, SafeInv, [Next]_vars PROVE SafeInv'
  OBVIOUS
<1> USE DEF external, backoff, task
<1>0. ASSUME tracked \subseteq tracked', LedgerIsTracked',
             UNCHANGED <<pc, task, source, held, answer>>
      PROVE  SafeInv'
  <2>1. ASSUME NEW d \in Query PROVE TaskInv(d)'
    <3>1. TaskInv(d)
      BY DEF SafeInv
    <3>2. QED
      BY <1>0, <3>1, BystanderKeeps
  <2>2. QED
    BY <1>0, <2>1 DEF SafeInv
<1>1. ASSUME NEW q \in Query, NEW n \in Name, Ask(q, n) PROVE SafeInv'
  <2>1. LedgerIsTracked'
    BY <1>1 DEF Ask, SafeInv, LedgerIsTracked
  <2>2. TaskInv(q)'
    <3> DEFINE e == EntryOf(n \in subscribed, confirmed, IsOpen)
    <3>1. /\ pc'[q] = FirstWait(e) /\ entry'[q] = e /\ service'[q] = n
          /\ refused'[q] = (IsOpen /\ n \notin subscribed)
      BY <1>1 DEF Ask, TypeOK
    <3>2. IsOpen /\ n \notin subscribed => e = "CacheOnly"
      BY DEF EntryOf
    <3>3. /\ FirstWait(e) \in Waiting
          /\ FirstWait(e) = "client" => e = "ClientCache"
          /\ FirstWait(e) = "confirm" => e = "ServerFirst"
      BY DEF FirstWait, Waiting
    <3>4. n \in Selected
      BY <1>1 DEF Ask
    <3> HIDE DEF e
    <3>5. QED
      BY <3>1, <3>2, <3>3, <3>4, ZenonT(60) DEF TaskInv, Answered, Waiting
  <2>3. ASSUME NEW d \in Query, d # q PROVE TaskInv(d)'
    <3>1. TaskInv(d)
      BY DEF SafeInv
    <3>2. QED
      BY <1>1, <2>3, <3>1, BystanderKeeps DEF Ask, TypeOK
  <2>4. QED
    BY <2>1, <2>2, <2>3 DEF SafeInv
<1>2. ASSUME NEW q \in Query, NEW n \in Name, AskUnselected(q, n) PROVE SafeInv'
  <2>1. LedgerIsTracked'
    BY <1>2 DEF AskUnselected, SafeInv, LedgerIsTracked
  <2>2. TaskInv(q)'
    BY <1>2 DEF AskUnselected, SafeInv, TaskInv, TypeOK, Answered, Waiting
  <2>3. ASSUME NEW d \in Query, d # q PROVE TaskInv(d)'
    <3>1. TaskInv(d)
      BY DEF SafeInv
    <3>2. QED
      BY <1>2, <2>3, <3>1, BystanderKeeps, SMTT(30) DEF AskUnselected, TypeOK
  <2>4. QED
    BY <2>1, <2>2, <2>3 DEF SafeInv
<1>3. ASSUME NEW q \in Query, ReadCacheEntry(q) PROVE SafeInv'
  <2>1. cache[service[q]] \in Lists
    BY <1>3 DEF ReadCacheEntry, TypeOK
  <2>2. QED
    BY <1>3, <2>1, FetchKeeps DEF ReadCacheEntry
<1>4. ASSUME NEW q \in Query, FetchMissingEntry(q) PROVE SafeInv'
  <2>1. service[q] \in Selected
    BY <1>4, SMTT(30) DEF FetchMissingEntry, SafeInv, TaskInv, Waiting
  <2>2. LedgerIsTracked'
    BY <1>4, <2>1, SMTT(30) DEF FetchMissingEntry, SafeInv, LedgerIsTracked
  <2>3. QED
    BY <1>0, <1>4, <2>2, SMTT(30) DEF FetchMissingEntry
<1>5. ASSUME NEW q \in Query, ServerReplies(q) PROVE SafeInv'
  BY <1>0, <1>5 DEF ServerReplies, SafeInv, LedgerIsTracked
<1>6. ASSUME NEW q \in Query, ReceiveFetch(q) PROVE SafeInv'
  <2>1. call[q].list \in Lists
    BY CallTypes, SMTT(30) DEF TypeOK
  <2>2. QED
    BY <1>6, <2>1, FetchKeeps DEF ReceiveFetch
<1>7. ASSUME NEW q \in Query, ReceiveConfirm(q) PROVE SafeInv'
  <2>1. call[q].list \in Lists /\ pc[q] \in Waiting
    BY SMTT(30), <1>7, CallTypes DEF ReceiveConfirm, TypeOK, Waiting
  <2>2. QED
    BY <1>7, <2>1, SubscribeKeeps, ServerFailedKeeps, Zenon DEF ReceiveConfirm
<1>8. ASSUME NEW q \in Query, Timeout(q) PROVE SafeInv'
  <2>1. subscribed' \subseteq tracked
    <3>1. UNCHANGED subscribed
      BY <1>8, Zenon DEF Timeout
    <3>2. QED
      BY <3>1, Zenon DEF SafeInv, LedgerIsTracked
  <2>2. QED
    BY <1>8, <2>1, FinishKeeps, ServerFailedKeeps, ProbeMissedKeeps, AnswerKinds, ZenonT(60)
       DEF Timeout
<1>9. ASSUME NEW q \in Query, SubscribeReturns(q) \/ SubscribeFails(q) PROVE SafeInv'
  <2>1. /\ subscribed' \subseteq tracked
        /\ source[q] = "server" \/ UsableInstances(held[q]) # {}
    BY <1>9 DEF SubscribeReturns, SubscribeFails, SafeInv, LedgerIsTracked, TaskInv
  <2>2. held[q] \in Lists
    BY DEF TypeOK
  <2>3. QED
    BY <1>9, <2>1, <2>2, FinishKeeps, AnswerKinds, Zenon DEF SubscribeReturns, SubscribeFails
<1>17. ASSUME NEW q \in Query, FetchFails(q) PROVE SafeInv'
  <2>1. subscribed' \subseteq tracked /\ pc[q] \in Waiting
    BY <1>17, Zenon DEF FetchFails, SafeInv, LedgerIsTracked, Waiting
  <2>2. QED
    BY <1>17, <2>1, FinishKeeps, ProbeMissedKeeps, AnswerKinds, Zenon DEF FetchFails
<1>18. ASSUME NEW q \in Query, IssueSubscribe(q) PROVE SafeInv'
  <2>1. service[q] \in Selected
    BY <1>18, Zenon DEF IssueSubscribe, SafeInv, TaskInv
  <2>2. LedgerIsTracked'
    BY <1>18, <2>1, SMTT(30) DEF IssueSubscribe, SafeInv, LedgerIsTracked
  <2>3. TaskInv(q)'
    BY <1>18 DEF IssueSubscribe, SafeInv, TaskInv, TypeOK, Answered, Waiting, UsableInstances
  <2>4. ASSUME NEW d \in Query, d # q PROVE TaskInv(d)'
    <3>1. TaskInv(d)
      BY DEF SafeInv
    <3>2. QED
      BY <1>18, <2>4, <3>1, BystanderKeeps DEF IssueSubscribe, TypeOK
  <2>5. QED
    BY <2>2, <2>3, <2>4, SMTT(30) DEF SafeInv
<1>10. ASSUME NEW q \in Query, Return(q) PROVE SafeInv'
  <2>1. LedgerIsTracked'
    BY <1>10 DEF Return, SafeInv, LedgerIsTracked
  <2>2. TaskInv(q)'
    BY <1>10 DEF Return, TaskInv, TypeOK, Answered, Waiting
  <2>3. ASSUME NEW d \in Query, d # q PROVE TaskInv(d)'
    <3>1. TaskInv(d)
      BY DEF SafeInv
    <3>2. QED
      BY <1>10, <2>3, <3>1, BystanderKeeps, Zenon DEF Return, TypeOK
  <2>4. QED
    BY <2>1, <2>2, <2>3 DEF SafeInv
<1>11. ASSUME NEW n \in Name, SdkWrites(n) PROVE SafeInv'
  BY <1>0, <1>11 DEF SdkWrites, SafeInv, LedgerIsTracked
<1>12. ASSUME NEW n \in Name, NEW l \in RegistryLists, RegistryChanges(n, l)
       PROVE SafeInv'
  BY <1>0, <1>12 DEF RegistryChanges, SafeInv, LedgerIsTracked
<1>13. ASSUME NEW s \in {"up", "refuses", "hangs"}, LinkChanges(s) PROVE SafeInv'
  BY <1>0, <1>13 DEF LinkChanges, SafeInv, LedgerIsTracked
<1>14. CASE Tick
  BY <1>0, <1>14 DEF Tick, SafeInv, LedgerIsTracked
<1>15. CASE UNCHANGED vars
  BY <1>0, <1>15 DEF vars, SafeInv, LedgerIsTracked
<1>16. QED
  BY <1>1, <1>2, <1>3, <1>4, <1>5, <1>6, <1>7, <1>8, <1>9, <1>10, <1>11, <1>12,
     <1>13, <1>14, <1>15, <1>17, <1>18 DEF Next, QueryStep

\* The two invariants together, as the theorems below use them.
LEMMA SafeAlways == Spec => [](TypeOK /\ SafeInv)
BY WatcherTypeInit, WatcherTypeStep, SafeInit, SafeStep, PTL DEF Spec

\* No outage, timeout, swallowed error or empty cache entry makes the watcher
\* answer NXDOMAIN for a name it has not subscribed: that takes the server's
\* own list without a usable instance, whatever races with the query.
THEOREM NegativeNeedsTheServer == Spec => []UnconfirmedIsNeverUnknown
<1>1. SafeInv => UnconfirmedIsNeverUnknown
  BY DEF SafeInv, TaskInv, UnconfirmedIsNeverUnknown
<1>2. QED
  BY <1>1, SafeAlways, PTL

\* A query that met an open failure window for an unledgered name never comes
\* to wait for a server confirmation, however the window changes meanwhile.
THEOREM OpenWindowSparesTheServer == Spec => []WindowSparesTheServer
<1>1. SafeInv => WindowSparesTheServer
  BY DEF SafeInv, TaskInv, WindowSparesTheServer
<1>2. QED
  BY <1>1, SafeAlways, PTL

\* The ledger holds only names the client keeps fresh, and the client only
\* names the service_pattern selects.
THEOREM LedgerHoldsTrackedNames == Spec => []LedgerIsTracked
<1>1. SafeInv => LedgerIsTracked
  BY DEF SafeInv
<1>2. QED
  BY <1>1, SafeAlways, PTL

-----------------------------------------------------------------------------
(* Standing subscribes *)

\* The inductive invariant behind OneSubscribePerTask: a subscribe that stands is
\* either still awaited by its task or has put its name in the ledger.
StandInv ==
    /\ OneSubscribePerTask
    /\ \A q \in Query : \A n \in standing[q] :
        n \in subscribed \/ (pc[q] = "subscribe" /\ service[q] = n)

\* Task q moves on alone, and to the call of subscribe only past the contains check.
Moves(q) ==
    /\ pc[q] # "subscribe"
    /\ pc'[q] = "cold" => service'[q] \notin subscribed
    /\ \A d \in Query \ {q} : pc'[d] = pc[d] /\ service'[d] = service[d]

\* Such a step keeps the invariant: what the task has standing is in the ledger.
LEMMA MovesKeep ==
    ASSUME StandInv, NEW q \in Query, Moves(q), UNCHANGED <<subscribed, standing>>
    PROVE  StandInv'
BY DEF StandInv, OneSubscribePerTask, Moves

\* The ways a query goes on after an await are such steps.
LEMMA ContinuationMoves ==
    ASSUME TypeOK, NEW q \in Query, pc[q] # "subscribe", UNCHANGED service,
           NEW l, NEW src,
           \/ FetchCacheAnswered(q, l, src) \/ SubscribeName(q, l, src)
           \/ ProbeMissed(q) \/ ServerFailed(q) \/ Finish(q, l, src)
    PROVE  Moves(q)
<1>1. ASSUME NEW a, Finish(q, a, src) \/ Finish(q, a, "none") PROVE Moves(q)
  BY <1>1 DEF Finish, Moves, TypeOK
<1>2. ASSUME NEW where \in Waiting, NEW c, WaitFor(q, where, c) PROVE Moves(q)
  BY <1>2, SMTT(30) DEF WaitFor, Moves, TypeOK, Waiting
<1>3. ASSUME SubscribeName(q, l, src) PROVE Moves(q)
  <2>1. CASE service[q] \in subscribed
    BY <1>1, <1>3, <2>1 DEF SubscribeName
  <2>2. CASE service[q] \notin subscribed
    BY <1>3, <2>2 DEF SubscribeName, Moves, TypeOK
  <2>3. QED
    BY <2>1, <2>2, SMTT(30)
<1>4. ASSUME ProbeMissed(q) \/ ServerFailed(q) PROVE Moves(q)
  BY <1>1, <1>2, <1>4, Zenon DEF ProbeMissed, ServerFailed, Waiting
<1>5. QED
  BY <1>1, <1>3, <1>4, Zenon DEF FetchCacheAnswered

\* No task has subscribed anything at the start.
LEMMA StandInit == Init => StandInv
BY DEF Init, StandInv, OneSubscribePerTask

\* Every step keeps the invariant, one case per action.
LEMMA StandStep == TypeOK /\ StandInv /\ [Next]_vars => StandInv'
<1> SUFFICES ASSUME TypeOK, StandInv, [Next]_vars PROVE StandInv'
  OBVIOUS
<1> USE DEF external, backoff, task
<1>1. ASSUME NEW q \in Query, NEW n \in Name, Ask(q, n) \/ AskUnselected(q, n)
      PROVE  StandInv'
  <2>1. \A e \in Entries : FirstWait(e) # "cold"
    BY DEF FirstWait
  <2>2. EntryOf(n \in subscribed, confirmed, IsOpen) \in Entries
    BY SMTT(30) DEF EntryOf, Entries
  <2>3. Moves(q)
    BY <1>1, <2>1, <2>2, SMTT(30) DEF Ask, AskUnselected, Moves, TypeOK
  <2>4. QED
    BY <1>1, <2>3, MovesKeep DEF Ask, AskUnselected
<1>2. ASSUME NEW q \in Query, ReadCacheEntry(q) \/ ReceiveFetch(q) PROVE StandInv'
  <2>1. Moves(q)
    BY <1>2, ContinuationMoves, SMTT(30) DEF ReadCacheEntry, ReceiveFetch
  <2>2. QED
    BY <1>2, <2>1, MovesKeep, Zenon DEF ReadCacheEntry, ReceiveFetch
<1>3. ASSUME NEW q \in Query, FetchFails(q) \/ ReceiveConfirm(q) \/ Timeout(q)
      PROVE  StandInv'
  <2>1. Moves(q)
    BY <1>3, ContinuationMoves DEF FetchFails, ReceiveConfirm, Timeout, Waiting
  <2>2. QED
    BY <1>3, <2>1, MovesKeep, SMTT(30) DEF FetchFails, ReceiveConfirm, Timeout
<1>4. ASSUME NEW q \in Query, Return(q) PROVE StandInv'
  <2>1. Moves(q)
    BY <1>4 DEF Return, Moves, TypeOK
  <2>2. QED
    BY <1>4, <2>1, MovesKeep DEF Return
<1>5. ASSUME NEW q \in Query, IssueSubscribe(q) PROVE StandInv'
  BY <1>5 DEF IssueSubscribe, StandInv, OneSubscribePerTask, TypeOK
<1>6. ASSUME NEW q \in Query, SubscribeReturns(q) PROVE StandInv'
  BY <1>6 DEF SubscribeReturns, Finish, StandInv, OneSubscribePerTask, TypeOK
<1>7. ASSUME NEW q \in Query, SubscribeFails(q) PROVE StandInv'
  BY <1>7, SMTT(30) DEF SubscribeFails, Finish, StandInv, OneSubscribePerTask, TypeOK
<1>8. ASSUME UNCHANGED <<pc, service, subscribed, standing>> PROVE StandInv'
  BY <1>8, SMTT(30) DEF StandInv, OneSubscribePerTask
<1>9. ASSUME NEW q \in Query, FetchMissingEntry(q) \/ ServerReplies(q) PROVE StandInv'
  BY <1>8, <1>9, Zenon DEF FetchMissingEntry, ServerReplies
<1>10. ASSUME \/ \E n \in Name : SdkWrites(n)
              \/ \E n \in Name, l \in RegistryLists : RegistryChanges(n, l)
              \/ \E s \in {"up", "refuses", "hangs"} : LinkChanges(s)
              \/ Tick \/ UNCHANGED vars
       PROVE  StandInv'
  BY <1>8, <1>10 DEF SdkWrites, RegistryChanges, LinkChanges, Tick, vars
<1>11. QED
  BY <1>1, <1>2, <1>3, <1>4, <1>5, <1>6, <1>7, <1>9, <1>10, SMTT(30) DEF Next, QueryStep

\* However cold queries race through subscribe_name, a task never comes to subscribe
\* a name while an earlier subscribe of its own stands: the insert after a
\* successful call ends the race for every later query.
THEOREM RacesEndInTheLedger == Spec => []OneSubscribePerTask
<1>1. StandInv => OneSubscribePerTask
  BY DEF StandInv
<1>2. QED
  BY <1>1, WatcherTypeInit, WatcherTypeStep, StandInit, StandStep, PTL DEF Spec

-----------------------------------------------------------------------------
(* Claims *)

\* The inductive invariant: a control task lives in a live process (RestartTypeOK), and only
\* in one that has bound its DNS sockets; otherwise BindDns could start a second task.
ClaimInv ==
    /\ RestartTypeOK
    /\ ClaimsAreHeld
    /\ \A p \in Process : phase[p] \in {"loading", "starting"} => control[p] = "none"

\* A node without processes has no claims.
LEMMA ClaimInit ==
    RestartInit => ClaimInv
BY RestartAssumption, SMTT(30) DEF RestartInit, ClaimInv, RestartTypeOK, ClaimsAreHeld, Alive

\* Every step of every process keeps the claims.
LEMMA ClaimStep ==
    ASSUME ClaimInv, [RestartNext]_restartVars
    PROVE  ClaimInv'
<1>. USE RestartAssumption DEF ClaimInv, RestartTypeOK, ClaimsAreHeld, Alive, pinVars
<1>1. ASSUME NEW p \in Process, InitXdp(p) PROVE ClaimInv'
  BY <1>1, SMTT(30) DEF InitXdp, AttachFails, FastPathUp, FastPathFails
<1>13. ASSUME NEW p \in Process, ProbePin(p) PROVE ClaimInv'
  BY <1>13, SMTT(30) DEF ProbePin
<1>2. ASSUME NEW p \in Process, BindDns(p) PROVE ClaimInv'
  BY <1>2, SMTT(30) DEF BindDns
<1>3. ASSUME NEW p \in Process, StartFails(p) PROVE ClaimInv'
  BY <1>3, SMTT(30) DEF StartFails, Released
<1>4. ASSUME NEW p \in Process, Signal(p) PROVE ClaimInv'
  BY <1>4, SMTT(30) DEF Signal
<1>5. ASSUME NEW p \in Process, CancelControl(p) PROVE ClaimInv'
  BY <1>5, SMTT(30) DEF CancelControl
<1>12. ASSUME NEW p \in Process, CloseListeners(p) PROVE ClaimInv'
  BY <1>12, SMTT(30) DEF CloseListeners
<1>6. ASSUME NEW p \in Process, Exit(p) PROVE ClaimInv'
  BY <1>6, SMTT(30) DEF Exit, Released
<1>7. ASSUME NEW p \in Process, Dies(p) PROVE ClaimInv'
  BY <1>7, SMTT(30) DEF Dies, Released
<1>8. ASSUME NEW p \in Process, TryBind(p) PROVE ClaimInv'
  BY <1>8, SMTT(30) DEF TryBind
<1>9. ASSUME NEW p \in Process, Retry(p) PROVE ClaimInv'
  BY <1>9, SMTT(30) DEF Retry
<1>10. ASSUME NEW p \in Process, StopServing(p) PROVE ClaimInv'
  BY <1>10, SMTT(30) DEF StopServing
<1>11. CASE UNCHANGED restartVars
  BY <1>11 DEF restartVars
<1>. QED
  BY <1>1, <1>2, <1>3, <1>4, <1>5, <1>6, <1>7, <1>8, <1>9, <1>10, <1>11, <1>12, <1>13, Zenon
  DEF RestartNext, Start, Stop, ControlTask

\* However many restarts overlap, only the process that holds the control port or the
\* interface believes so, and it is alive.
THEOREM ClaimsAlwaysHeld ==
    RestartSpec => []ClaimsAreHeld
<1>1. ClaimInv => ClaimsAreHeld
  BY DEF ClaimInv
<1>. QED  BY ClaimInit, ClaimStep, <1>1, PTL DEF RestartSpec

\* RestartTypeOK for any number of processes and any capacities; a dead process has no
\* control task left.
THEOREM RestartTypeCorrect ==
    RestartSpec => []RestartTypeOK
<1>1. ClaimInv => RestartTypeOK
  BY DEF ClaimInv
<1>. QED  BY ClaimInit, ClaimStep, <1>1, PTL DEF RestartSpec

-----------------------------------------------------------------------------
(* The pinned map *)

\* The inductive invariant: a process that is about to load declares some capacity,
\* and one that has yet to load has no fast path.
PinInv ==
    /\ RestartTypeOK
    /\ PinIsShared
    /\ \A p \in Process : /\ phase[p] = "loading" => declared[p] # NoMap
                          /\ p \in fastPath => phase[p] \notin {"down", "loading"}

\* Before the first process, nobody is on a map.
LEMMA PinInit ==
    RestartInit => PinInv
BY RestartAssumption, SMTT(30) DEF RestartInit, PinInv, PinIsShared, RestartTypeOK, Alive

\* Loads of other processes, whatever they declare, leave the pinned map alone.
LEMMA PinStep ==
    ASSUME ClaimInv, PinInv, [RestartNext]_restartVars
    PROVE  PinInv'
<1>1. RestartTypeOK'
  BY ClaimStep, SMTT(30) DEF ClaimInv
<1>. USE RestartAssumption DEF PinInv, PinIsShared, RestartTypeOK, Alive
<1>2. ASSUME NEW p \in Process, ProbePin(p) PROVE PinInv'
  BY <1>1, <1>2, SMTT(30) DEF ProbePin
<1>3. ASSUME NEW p \in Process, InitXdp(p) PROVE PinInv'
  BY <1>1, <1>3, SMTT(30) DEF InitXdp, Fits, FastPathUp, FastPathFails
<1>4. ASSUME NEW p \in Process, StartFails(p) \/ Exit(p) \/ Dies(p) PROVE PinInv'
  BY <1>1, <1>4, SMTT(30) DEF StartFails, Exit, Dies, Released
<1>5. ASSUME NEW p \in Process, BindDns(p) \/ Signal(p) \/ CancelControl(p) PROVE PinInv'
  BY <1>1, <1>5, SMTT(30) DEF BindDns, Signal, CancelControl, pinVars
<1>6. ASSUME NEW p \in Process, CloseListeners(p) \/ ControlTask(p) PROVE PinInv'
  BY <1>1, <1>6, SMTT(30) DEF CloseListeners, ControlTask, TryBind, Retry, StopServing, pinVars
<1>7. CASE UNCHANGED restartVars
  BY <1>1, <1>7 DEF restartVars, pinVars
<1>. QED
  BY <1>2, <1>3, <1>4, <1>5, <1>6, <1>7, Zenon DEF RestartNext, Start, Stop

\* PinIsShared for any number of processes and any capacities they are configured with.
THEOREM PinStaysShared ==
    RestartSpec => []PinIsShared
<1>1. ClaimInv /\ PinInv /\ [RestartNext]_restartVars => ClaimInv' /\ PinInv'
  BY ClaimStep, PinStep
<1>2. PinInv => PinIsShared
  BY DEF PinInv
<1>. QED  BY ClaimInit, PinInit, <1>1, <1>2, PTL DEF RestartSpec

-----------------------------------------------------------------------------
(* The node keeps answering *)

\* The inductive invariant: a process that serves has its DNS sockets.
ServesBound ==
    /\ phase \in [Process -> {"down", "loading", "starting", "serving", "draining", "stopping",
                           "gone"}]
    /\ bound \subseteq Process
    /\ \A p \in Process : phase[p] = "serving" => p \in bound

\* Before the first process, none serves.
LEMMA ServesBoundInit ==
    RestartInit => ServesBound
BY DEF RestartInit, ServesBound

\* Every step keeps it: a process serves only by binding, and lets its sockets go
\* only when it no longer serves.
LEMMA ServesBoundStep ==
    ASSUME ServesBound, [RestartNext]_restartVars
    PROVE  ServesBound'
<1>. USE DEF ServesBound
<1>1. ASSUME NEW p \in Process, Start(p) PROVE ServesBound'
  BY <1>1 DEF Start, ProbePin, InitXdp, FastPathUp, FastPathFails, BindDns, StartFails, Released
<1>2. ASSUME NEW p \in Process, Signal(p) PROVE ServesBound'
  BY <1>2 DEF Signal
<1>3. ASSUME NEW p \in Process, Stop(p) PROVE ServesBound'
  BY <1>3 DEF Stop, CloseListeners, CancelControl, Exit, Released
<1>4. ASSUME NEW p \in Process, Dies(p) PROVE ServesBound'
  BY <1>4 DEF Dies, Released
<1>5. ASSUME NEW p \in Process, ControlTask(p) PROVE ServesBound'
  BY <1>5 DEF ControlTask, TryBind, Retry, StopServing
<1>6. CASE UNCHANGED restartVars
  BY <1>6 DEF restartVars
<1>. QED
  BY <1>1, <1>2, <1>3, <1>4, <1>5, <1>6, SMTT(30) DEF RestartNext

\* Only a signal or a death takes a process out of service.
LEMMA ServersStay ==
    ASSUME ServesBound, NEW p \in Process, Start(p) \/ Stop(p) \/ ControlTask(p)
    PROVE  Answering \subseteq Answering'
<1>. USE DEF ServesBound, Answering
<1>1. CASE Start(p)
  BY <1>1, SMTT(30) DEF Start, ProbePin, InitXdp, FastPathUp, FastPathFails, BindDns, StartFails, Released
<1>2. CASE Stop(p)
  BY <1>2 DEF Stop, CloseListeners, CancelControl, Exit, Released
<1>3. CASE ControlTask(p)
  BY <1>3 DEF ControlTask, TryBind, Retry, StopServing
<1>. QED  BY <1>1, <1>2, <1>3, SMTT(30)

\* One step ends the answering only by taking out the last process that serves.
LEMMA AnsweringStep ==
    ASSUME ServesBound, RestartNext, Answering # {}, Answering' = {}
    PROVE  \E p \in Process : /\ Signal(p) \/ Dies(p)
                              /\ \A q \in Process \ {p} : phase[q] # "serving"
<1>1. PICK p \in Process : Signal(p) \/ Dies(p)
  BY ServersStay DEF RestartNext
<1>2. ASSUME NEW q \in Process \ {p}, phase[q] = "serving" PROVE FALSE
  <2>1. q \in bound' /\ phase'[q] = "serving"
    BY <1>1, <1>2 DEF Signal, Dies, Released, ServesBound
  <2>. QED  BY <2>1 DEF Answering
<1>. QED  BY <1>1, <1>2

\* NodeKeepsAnswering for any number of processes: the node is left without a process
\* that answers only if the last one serving is signalled or dies.
THEOREM NodeAlwaysKeepsAnswering ==
    RestartSpec => NodeKeepsAnswering
<1>. DEFINE Last == \E p \in Process : /\ Signal(p) \/ Dies(p)
                                       /\ \A q \in Process \ {p} : phase[q] # "serving"
<1>1. ServesBound /\ [RestartNext]_restartVars => ServesBound'
  BY ServesBoundStep
<1>2. ServesBound /\ [RestartNext]_restartVars => [Answering # {} /\ Answering' = {} => Last]_restartVars
  BY AnsweringStep
<1>. QED  BY ServesBoundInit, <1>1, <1>2, PTL DEF RestartSpec, NodeKeepsAnswering
=============================================================================
