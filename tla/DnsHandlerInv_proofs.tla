----------------------- MODULE DnsHandlerInv_proofs -----------------------
(***************************************************************************)
(* The invariant behind the theorems on DnsHandler, and the steps that     *)
(* keep it up to the response; DnsHandler_proofs has the others and the    *)
(* theorems.  The invariant is local to a request but for the types:       *)
(* Local(r) says, stage by stage, what the request has been sent, what its *)
(* outcome holds and what its lookup has met, so a step of another request *)
(* cannot disturb it.                                                      *)
(***************************************************************************)
EXTENDS DnsHandler, TLAPS

Outcomes == [code : Codes \cup {"none"}, authority : Int, answers : Int, bytes : SUBSET Responses]

Typed == TypeOK /\ outcome \in [Request -> Outcomes]

Unanswered == {"idle", "before", "lookup", "soa", "fetch", "respond"}

\* What a request that has its outcome was sent, if anything.
Told(r, x) ==
    /\ x.code = outcome[r].code /\ x.records = outcome[r].answers
    /\ x.aa /\ x.records = 0 => x.soa
    /\ \A b \in outcome[r].bytes : b = x

Replied(r) == sent[r] = <<>> \/ \E x \in Responses : sent[r] = <<x>> /\ Told(r, x)

\* An outcome without records and without bytes, of that code.
Bare(r, code) ==
    /\ sent[r] = <<>>
    /\ outcome[r].code = code /\ outcome[r].answers = 0 /\ outcome[r].bytes = {}

Answering(r) ==
    /\ pc[r] \in Unanswered => sent[r] = <<>> /\ outcome[r] = NoOutcome
    /\ pc[r] \notin {"after", "done"} => late[r] = "none"
    /\ pc[r] = "fallback" => Bare(r, "ServFail")
    /\ pc[r] = "after" /\ late[r] # "none" => Bare(r, late[r])
    /\ pc[r] \in {"after", "done"} => Replied(r)

\* A failure of this request's lookup that the answer does not show.
Hidden(r) == \A i \in failed[r] : chain[i] = "native"

Looking(r) ==
    /\ pc[r] \in {"idle", "before"} => consulted[r] = {} /\ failed[r] = {}
    /\ pc[r] \in {"idle", "before", "lookup"} => result[r] = Skip
    /\ pc[r] = "lookup" =>
         /\ question[r].place # "malformed" /\ entry[r] >= 1
         /\ \A i \in consulted[r] : i < entry[r]
         /\ question[r].place # "outside" => \A i \in consulted[r] : chain[i] # "nacos"
         /\ Hidden(r)
    /\ pc[r] \in {"soa", "fetch"} =>
         entry[r] \in Entries /\ chain[entry[r]] = "nacos" /\ result[r].flow = "Err"
    /\ pc[r] = "respond" =>
         /\ result[r].flow = "Ok" => result[r].records > 0
         /\ result[r].flow = "Err" /\ Authoritative(entry[r]) => soa[r]
    /\ pc[r] \in {"soa", "fetch", "respond"} =>
         /\ result[r].flow = "Err" => result[r].error # "none"
         /\ Hidden(r) \/ (result[r].flow = "Err" /\ result[r].error \in {"ServFail", "Refused"})
    /\ outcome[r].bytes # {} => Hidden(r)
    /\ question[r].place # "outside" =>
         \A i \in consulted[r] : chain[i] = "nacos" => \A j \in consulted[r] : j <= i

Local(r) == Answering(r) /\ Looking(r)

HandlerInv == Typed /\ \A r \in Request : Local(r)

-----------------------------------------------------------------------------
(* Types *)

\* The types that steps of arithmetic and on sequences need, one by one.
LEMMA Lengths ==
    ASSUME Typed
    PROVE  Len(chain) \in Nat /\ Len(Middlewares) \in Nat
<1>1. chain \in Seq({"nacos", "native", "forward"})
  BY HandlerAssumption DEF Typed, TypeOK
<1>2. Middlewares \in Seq({"logging", "metrics", "xdp_cache", "guard"})
  BY HandlerAssumption
<1> QED BY <1>1, <1>2

LEMMA CursorTypes ==
    ASSUME Typed
    PROVE  /\ inFlight \in Int
           /\ hook \in [Request -> 0 .. Len(Middlewares) + 1]
           /\ entry \in [Request -> 0 .. Len(chain) + 1]
BY DEF Typed, TypeOK

LEMMA SentType ==
    ASSUME Typed
    PROVE  sent \in [Request -> Seq(Responses)]
BY DEF Typed, TypeOK

LEMMA EntryIsInt ==
    ASSUME Typed, NEW r \in Request
    PROVE  entry[r] \in Int
<1>1. entry[r] \in 0 .. Len(chain) + 1
  BY CursorTypes
<1> QED BY <1>1, Lengths

\* Report starts the hooks after the response.
LEMMA FirstHook ==
    ASSUME Typed, NEW r \in Request, hook' = [hook EXCEPT ![r] = 1]
    PROVE  hook' \in [Request -> 0 .. Len(Middlewares) + 1]
<1>1. Len(Middlewares) \in Nat
  BY Lengths
<1>2. 1 \in 0 .. Len(Middlewares) + 1
  BY <1>1
<1> QED BY <1>2, CursorTypes

\* Nothing is handed to the cache before the response.
LEMMA NothingReported == NoOutcome.bytes = {}
BY DEF NoOutcome

\* An outcome of its parts.
LEMMA OutcomeOf ==
    ASSUME NEW code \in Codes, NEW a \in Int, NEW n \in Int, NEW b \in SUBSET Responses
    PROVE  [code |-> code, authority |-> a, answers |-> n, bytes |-> b] \in Outcomes
BY DEF Outcomes

-----------------------------------------------------------------------------
(* Lookups *)

\* What the Nacos authority says of a name that parsed: it skips only what is outside
\* its zone, and an unavailable catalog is SERVFAIL.
LEMMA NacosSays ==
    ASSUME NEW q \in Questions, q.place # "malformed", NEW a \in CatalogAnswers
    PROVE  LET x == NacosLookup(q, a) IN
           /\ x \in Lookups
           /\ x.flow = "Skip" => q.place = "outside"
           /\ q.place = "outside" => x.flow = "Skip"
           /\ x.flow = "Ok" => x.records > 0
           /\ x.flow = "Err" => x.error # "none"
           /\ q.place = "service" /\ a.kind = "Unavailable" => x = Fails("ServFail")
<1>1. q.place \in {"outside", "apex", "foreign", "service"}
  BY DEF Questions, Places, NoQuestion
<1>2. a.kind \in {"Instances", "Unknown", "Unavailable"} /\ a.records \in 0 .. MaxRecords
  BY HandlerAssumption DEF CatalogAnswers
<1>3. /\ Skip \in Lookups
      /\ \A n \in 0 .. MaxRecords : Found(n) \in Lookups
      /\ Found(1) \in Lookups
      /\ \A e \in {"NameExists", "NXDomain", "ServFail"} : Fails(e) \in Lookups
  BY HandlerAssumption DEF Lookups, Skip, Found, Fails, Codes
<1> QED BY <1>1, <1>2, <1>3 DEF NacosLookup, Skip, Found, Fails

\* What a native resolver says: an answer, or nothing.
LEMMA NativeSays ==
    ASSUME NEW u \in Upstreams
    PROVE  LET x == NativeLookup(u) IN
           /\ x \in Lookups
           /\ x.flow \in {"Skip", "Ok"}
           /\ x.flow = "Ok" => x.records > 0
           /\ BackendFailed(u) => x.flow = "Skip"
<1>1. u.records \in 0 .. MaxRecords /\ (BackendFailed(u) => u.records = 0)
  BY HandlerAssumption DEF Upstreams, BackendFailed
<1> QED BY <1>1, HandlerAssumption DEF NativeLookup, Lookups, Skip, Found

\* What a forwarder says: never nothing, and a failed backend is REFUSED or SERVFAIL.
LEMMA ForwardSays ==
    ASSUME NEW u \in Upstreams
    PROVE  LET x == ForwardLookup(u) IN
           /\ x \in Lookups
           /\ x.flow \in {"Ok", "Err"}
           /\ x.flow = "Ok" => x.records > 0
           /\ x.flow = "Err" => x.error # "none"
           /\ BackendFailed(u) => x.flow = "Err" /\ x.error \in {"ServFail", "Refused"}
<1>1. /\ u.records \in 0 .. MaxRecords /\ (BackendFailed(u) => u.records = 0)
      /\ u.kind \in {"answer", "nxdomain", "nodata", "refused", "timeout"}
      /\ u.records > 0 => u.kind = "answer"
  BY HandlerAssumption DEF Upstreams, BackendFailed
<1>2. /\ \A n \in 0 .. MaxRecords : Found(n) \in Lookups
      /\ \A e \in {"NameExists", "NXDomain", "ServFail", "Refused"} : Fails(e) \in Lookups
  BY HandlerAssumption DEF Lookups, Found, Fails, Codes
<1> QED BY <1>1, <1>2 DEF ForwardLookup, Found, Fails, BackendFailed

-----------------------------------------------------------------------------
(* A step moves one request *)

\* A request none of whose locals change keeps its invariant.
LEMMA OthersStay ==
    ASSUME NEW x \in Request, Local(x), chain' = chain,
           pc'[x] = pc[x], question'[x] = question[x], entry'[x] = entry[x],
           result'[x] = result[x], soa'[x] = soa[x], late'[x] = late[x],
           outcome'[x] = outcome[x], sent'[x] = sent[x], consulted'[x] = consulted[x],
           failed'[x] = failed[x]
    PROVE  Local(x)'
<1>1. Answering(x)'
  BY DEF Local, Answering, Bare, Replied, Told
<1>2. Looking(x)'
  BY DEF Local, Looking, Hidden, Entries, Authoritative
<1> QED BY <1>1, <1>2 DEF Local

\* The rest of the state, for a request before it is answered.
LEMMA HandlerInit == Init => HandlerInv
<1> SUFFICES ASSUME Init PROVE HandlerInv
  OBVIOUS
<1>1. Skip \in Lookups /\ NoOutcome \in Outcomes
  BY HandlerAssumption DEF Lookups, Skip, NoOutcome, Outcomes, Codes
<1>2. TypeOK
  BY <1>1, HandlerAssumption DEF Init, TypeOK, Questions, NoOutcome
<1>3. outcome \in [Request -> Outcomes]
  BY <1>1 DEF Init
<1>4. \A r \in Request : Answering(r)
  BY DEF Init, Answering
<1>5. \A r \in Request : Looking(r)
  BY DEF Init, Looking, Hidden, NoOutcome
<1> QED BY <1>2, <1>3, <1>4, <1>5 DEF HandlerInv, Typed, Local

\* One step of request r.
Step(r) ==
    \/ \E q \in Questions : Arrive(r, q)
    \/ BeforeRequest(r) \/ RequestInfo(r)
    \/ LookupNacos(r) \/ LookupUpstream(r) \/ ChainExhausted(r)
    \/ ReadApexSoa(r) \/ FetchApexSoa(r)
    \/ RespondOk(r) \/ SendFallback(r) \/ RespondErr(r) \/ RespondSkip(r)
    \/ AfterRequest(r) \/ SendLate(r) \/ FinishHandled(r) \/ Drop(r)

Same(x) ==
    /\ pc'[x] = pc[x] /\ question'[x] = question[x] /\ entry'[x] = entry[x]
    /\ result'[x] = result[x] /\ soa'[x] = soa[x] /\ late'[x] = late[x]
    /\ outcome'[x] = outcome[x] /\ sent'[x] = sent[x] /\ consulted'[x] = consulted[x]
    /\ failed'[x] = failed[x]

\* A step of one request leaves the locals of every other one alone.
LEMMA OneRequestMoves ==
    ASSUME Typed, NEW r \in Request, Step(r), NEW x \in Request, x # r
    PROVE  Same(x)
<1> USE DEF Same, shared, work, history
<1>0. /\ DOMAIN pc = Request /\ DOMAIN question = Request /\ DOMAIN entry = Request
      /\ DOMAIN result = Request /\ DOMAIN soa = Request /\ DOMAIN late = Request
      /\ DOMAIN outcome = Request /\ DOMAIN sent = Request /\ DOMAIN consulted = Request
      /\ DOMAIN failed = Request
  BY DEF Typed, TypeOK
<1>1. CASE \E q \in Questions : Arrive(r, q)
  BY <1>0, <1>1 DEF Arrive
<1>2. CASE BeforeRequest(r)
  BY <1>0, <1>2 DEF BeforeRequest, CountIn, FinishThenSend
<1>3. CASE RequestInfo(r)
  BY <1>0, <1>3 DEF RequestInfo, FinishThenSend
<1>4. ASSUME NEW y, NEW f, Looked(r, y, f) PROVE Same(x)
  BY <1>0, <1>4 DEF Looked
<1>5. CASE LookupNacos(r)
  BY <1>4, <1>5 DEF LookupNacos
<1>6. CASE LookupUpstream(r)
  BY <1>4, <1>6 DEF LookupUpstream
<1>7. CASE ChainExhausted(r) \/ ReadApexSoa(r) \/ FetchApexSoa(r)
  BY <1>0, <1>7 DEF ChainExhausted, ReadApexSoa, FetchApexSoa
<1>14. ASSUME NEW y, NEW accepted, Deliver(r, y, accepted) PROVE sent'[x] = sent[x]
  BY <1>0, <1>14 DEF Deliver
<1>15. ASSUME NEW o, NEW where, Report(r, o, where)
       PROVE  outcome'[x] = outcome[x] /\ pc'[x] = pc[x]
  BY <1>0, <1>15 DEF Report
<1>8. CASE RespondOk(r)
  BY <1>8, <1>14, <1>15, Zenon DEF RespondOk
<1>9. CASE SendFallback(r)
  BY <1>0, <1>9, <1>14, Zenon DEF SendFallback
<1>10. CASE RespondErr(r)
  BY <1>10, <1>14, <1>15 DEF RespondErr
<1>11. CASE RespondSkip(r)
  BY <1>11, <1>14, <1>15, Zenon DEF RespondSkip
<1>12. CASE AfterRequest(r) \/ SendLate(r) \/ FinishHandled(r)
  <2>1. CASE AfterRequest(r)
    BY <2>1 DEF AfterRequest, CountOut
  <2>2. CASE SendLate(r)
    BY <1>0, <1>14, <2>2, Zenon DEF SendLate
  <2>3. CASE FinishHandled(r)
    BY <1>0, <2>3 DEF FinishHandled
  <2> QED BY <1>12, <2>1, <2>2, <2>3
<1>13. CASE Drop(r)
  BY <1>0, <1>13 DEF Drop
<1> HIDE DEF Same
<1> QED BY <1>1, <1>2, <1>3, <1>5, <1>6, <1>7, <1>8, <1>9, <1>10, <1>11, <1>12, <1>13 DEF Step

-----------------------------------------------------------------------------
(* Before the lookup *)

\* A request arrives, and the hooks before it run.
LEMMA HooksBefore ==
    ASSUME HandlerInv, NEW r \in Request, UNCHANGED chain,
           (\E q \in Questions : Arrive(r, q)) \/ BeforeRequest(r) \/ RequestInfo(r)
    PROVE  Typed' /\ Local(r)'
<1> USE DEF shared, work, history
<1>1. Typed /\ Answering(r) /\ Looking(r)
  BY DEF HandlerInv, Local
<1>2. ASSUME NEW code \in {"Refused", "FormErr"}
      PROVE  [NoOutcome EXCEPT !.code = code] \in Outcomes
  BY DEF NoOutcome, Outcomes, Codes
<1>3. Len(Middlewares) \in Nat
  BY HandlerAssumption
<1>4. CASE \E q \in Questions : Arrive(r, q)
  <2>1. Typed'
    BY <1>1, <1>3, <1>4 DEF Typed, TypeOK, Arrive, Entries
  <2>2. pc[r] = "idle" /\ pc'[r] = "before"
    BY <1>1, <1>4 DEF Typed, TypeOK, Arrive
  <2>3. Answering(r)'
    BY SMTT(30), <1>1, <1>4, <2>2 DEF Answering, Unanswered, Arrive
  <2>4. Looking(r)'
    BY <1>1, <1>4, <2>2 DEF Answering, Unanswered, Looking, Hidden, Arrive, NoOutcome
  <2> QED BY <2>1, <2>3, <2>4 DEF Local
<1>5. ASSUME NEW code \in {"Refused", "FormErr"}, FinishThenSend(r, code), pc[r] = "before",
             UNCHANGED <<question, entry, result, soa, sent, consulted, failed, cursor, apexSoa>>,
             inFlight' \in Int
      PROVE  Typed' /\ Local(r)'
  <2>1. Typed'
    <3>1. outcome' \in [Request -> Outcomes]
      BY <1>1, <1>2, <1>5 DEF Typed, FinishThenSend
    <3>2. \A x \in Request : outcome'[x].code \in Codes \cup {"none"} /\ outcome'[x].bytes \subseteq Responses
      BY <3>1 DEF Outcomes
    <3> QED BY <1>1, <1>3, <1>5, <3>1, <3>2 DEF Typed, TypeOK, FinishThenSend, Entries
  <2>2. pc'[r] = "after" /\ late'[r] = code /\ outcome'[r] = [NoOutcome EXCEPT !.code = code]
    BY <1>1, <1>5 DEF Typed, TypeOK, FinishThenSend
  <2>3. sent'[r] = <<>> /\ consulted'[r] = {} /\ failed'[r] = {}
    BY <1>1, <1>5 DEF Answering, Unanswered, Looking
  <2>4. Answering(r)'
    BY <2>2, <2>3 DEF Answering, Unanswered, Bare, Replied, NoOutcome
  <2>5. Looking(r)'
    BY <2>2, <2>3 DEF Looking, Hidden
  <2> QED BY <2>1, <2>4, <2>5 DEF Local
<1>6. CASE BeforeRequest(r)
  <2>1. inFlight' \in Int
    BY <1>1, <1>6 DEF Typed, TypeOK, BeforeRequest, CountIn
  <2>2. CASE FinishThenSend(r, "Refused")
    BY <1>5, <1>6, <2>1, <2>2 DEF BeforeRequest
  <2>3. CASE hook' = [hook EXCEPT ![r] = @ + 1] /\ UNCHANGED <<pc, outcome, late>>
    <3>1. Typed'
      <4>1. hook[r] \in 1 .. Len(Middlewares) /\ Len(Middlewares) \in Nat
        BY <1>1, <1>6, Lengths DEF BeforeRequest, Hooks
      <4>2. hook[r] + 1 \in 0 .. Len(Middlewares) + 1
        BY <4>1
      <4>3. hook' \in [Request -> 0 .. Len(Middlewares) + 1]
        BY <1>1, <2>3, <4>2, CursorTypes
      <4>4. UNCHANGED <<chain, apexSoa, cursor, pc, question, entry, result, soa, late, outcome, sent,
                        consulted, failed>>
        BY <1>6, <2>3 DEF BeforeRequest
      <4> QED BY <1>1, <2>1, <4>3, <4>4 DEF Typed, TypeOK, Entries
    <3> QED BY <1>6, <2>3, <3>1, OthersStay DEF HandlerInv, BeforeRequest
  <2> QED BY <1>6, <2>2, <2>3 DEF BeforeRequest
<1>7. CASE RequestInfo(r)
  <2>1. CASE question[r].place = "malformed"
    BY <1>1, <1>5, <1>7, <2>1, SMTT(30) DEF RequestInfo, Typed, TypeOK
  <2>2. CASE question[r].place # "malformed"
    <3>1. pc[r] = "before" /\ pc'[r] = "lookup" /\ entry'[r] = 1
          /\ UNCHANGED <<question, result, soa, late, outcome, sent, consulted, failed, hook, shared>>
      BY <1>1, <1>7, <2>2 DEF Typed, TypeOK, RequestInfo
    <3>2. Typed'
      <4>1. Len(chain) \in Nat
        BY <1>1, Lengths
      <4>2. entry' \in [Request -> 0 .. Len(chain) + 1]
        <5>1. entry \in [Request -> 0 .. Len(chain) + 1]
          BY <1>1 DEF Typed, TypeOK
        <5>2. entry' = [entry EXCEPT ![r] = 1]
          BY <1>7, <2>2 DEF RequestInfo
        <5>3. 1 \in 0 .. Len(chain) + 1
          BY <4>1
        <5> QED BY <5>1, <5>2, <5>3
      <4>3. pc' = [pc EXCEPT ![r] = "lookup"]
        BY <1>7, <2>2 DEF RequestInfo
      <4> QED BY <1>1, <3>1, <4>2, <4>3 DEF Typed, TypeOK, Entries
    <3>3. Answering(r)'
      BY <1>1, <3>1 DEF Answering, Unanswered
    <3>4. Looking(r)'
      BY <1>1, <2>2, <3>1 DEF Answering, Unanswered, Looking, Hidden, NoOutcome
    <3> QED BY <3>2, <3>3, <3>4 DEF Local
  <2> QED BY <2>1, <2>2, SMTT(30)
<1> QED BY <1>4, <1>6, <1>7

-----------------------------------------------------------------------------
(* The lookup *)

\* What an entry may say of the name: a skip that hides only a native failure, or a
\* result that ends the lookup.
Says(r, x, fails) ==
    /\ x \in Lookups
    /\ x.flow = "Skip" =>
         /\ fails => chain[entry[r]] = "native"
         /\ chain[entry[r]] = "nacos" => question[r].place = "outside"
    /\ x.flow = "Ok" => x.records > 0 /\ (fails => chain[entry[r]] = "native")
    /\ x.flow = "Err" => x.error # "none"
    /\ fails => \/ chain[entry[r]] = "native"
                \/ x.flow = "Err" /\ x.error \in {"ServFail", "Refused"}

\* An entry is asked, and the lookup goes on or ends.
LEMMA EntryAsked ==
    ASSUME HandlerInv, NEW r \in Request, UNCHANGED chain, pc[r] = "lookup", entry[r] \in Entries,
           NEW x, NEW fails \in BOOLEAN, Says(r, x, fails), Looked(r, x, fails)
    PROVE  Typed' /\ Local(r)'
<1> USE DEF shared
<1>1. Typed /\ Answering(r) /\ Looking(r)
  BY DEF HandlerInv, Local
<1>2. /\ pc \in [Request -> {"idle", "before", "lookup", "soa", "fetch", "respond",
                             "fallback", "after", "done"}]
      /\ entry \in [Request -> 0 .. Len(chain) + 1] /\ result \in [Request -> Lookups]
      /\ consulted \in [Request -> SUBSET Entries] /\ failed \in [Request -> SUBSET Entries]
  BY <1>1 DEF Typed, TypeOK
<1>3. Len(chain) \in Nat /\ entry[r] \in 1 .. Len(chain) /\ Entries = 1 .. Len(chain)
  BY <1>1, Lengths DEF Entries
<1>4. /\ UNCHANGED <<question, soa, late, outcome, sent, hook, apexSoa, cursor, inFlight>>
      /\ consulted'[r] = consulted[r] \cup {entry[r]}
      /\ failed'[r] = IF fails THEN failed[r] \cup {entry[r]} ELSE failed[r]
      /\ consulted' \in [Request -> SUBSET Entries] /\ failed' \in [Request -> SUBSET Entries]
  BY <1>2 DEF Looked
<1>5. x \in Lookups /\ x.flow \in {"Skip", "Ok", "Err"}
  BY DEF Says, Lookups
<1>6. /\ question[r].place # "malformed" /\ Hidden(r)
      /\ \A i \in consulted[r] : i < entry[r]
      /\ question[r].place # "outside" => \A i \in consulted[r] : chain[i] # "nacos"
      /\ sent[r] = <<>> /\ outcome[r] = NoOutcome /\ late[r] = "none" /\ result[r] = Skip
  BY <1>1 DEF Looking, Answering, Unanswered
<1>7. consulted[r] \subseteq Nat /\ entry[r] \in Nat
  BY <1>2, <1>3
<1>8. question'[r].place # "outside" =>
        \A i \in consulted'[r] : chain'[i] = "nacos" => \A j \in consulted'[r] : j <= i
  BY <1>4, <1>6, <1>7
<1>9. CASE x.flow = "Skip"
  <2>1. UNCHANGED <<pc, result>> /\ entry' = [entry EXCEPT ![r] = @ + 1]
    BY <1>9 DEF Looked
  <2>2. entry'[r] = entry[r] + 1 /\ entry' \in [Request -> 0 .. Len(chain) + 1]
    <3>1. entry[r] + 1 \in 0 .. Len(chain) + 1
      BY <1>3, SMTT(30)
    <3> QED BY <1>2, <2>1, <3>1
  <2>3. Typed'
    BY <1>1, <1>4, <2>1, <2>2, SMTT(30) DEF Typed, TypeOK, Entries
  <2>4. Answering(r)'
    BY <1>4, <1>6, <2>1 DEF Answering, Unanswered
  <2>5. Hidden(r)'
    BY <1>4, <1>6, <1>9, SMTT(30) DEF Hidden, Says
  <2>6. \A i \in consulted'[r] : i < entry'[r]
    BY <1>4, <1>6, <1>7, <2>2
  <2>7. question'[r].place # "outside" => \A i \in consulted'[r] : chain'[i] # "nacos"
    BY <1>4, <1>6, <1>9, SMTT(30) DEF Says
  <2>8. Looking(r)'
    <3>1. pc'[r] = "lookup" /\ result'[r] = Skip /\ entry'[r] >= 1 /\ question'[r].place # "malformed"
      BY <1>3, <1>4, <1>6, <2>1, <2>2
    <3> QED BY <1>8, <2>5, <2>6, <2>7, <3>1 DEF Looking
  <2> QED BY <2>3, <2>4, <2>8 DEF Local
<1>10. CASE x.flow # "Skip"
  <2> DEFINE next == IF x.flow = "Err" /\ Authoritative(entry[r]) THEN "soa" ELSE "respond"
  <2>1. pc' = [pc EXCEPT ![r] = next] /\ result' = [result EXCEPT ![r] = x] /\ UNCHANGED entry
    BY <1>10 DEF Looked
  <2>2. pc'[r] = next /\ result'[r] = x /\ next \in {"soa", "respond"}
    BY <1>2, <2>1, SMTT(30)
  <2>3. Typed'
    <3>1. result' \in [Request -> Lookups]
      BY <1>2, <1>5, <2>1
    <3> HIDE DEF next
    <3> QED BY <1>1, <1>4, <2>1, <2>2, <3>1, SMTT(30) DEF Typed, TypeOK, Entries
  <2>4. Answering(r)'
    BY <1>4, <1>6, <2>2 DEF Answering, Unanswered
  <2>5. next = "soa" => chain[entry[r]] = "nacos" /\ x.flow = "Err"
    BY DEF Authoritative
  <2>6. next = "respond" => ~(x.flow = "Err" /\ Authoritative(entry[r]))
    OBVIOUS
  <2> HIDE DEF next
  <2>7. Hidden(r)' \/ (x.flow = "Err" /\ x.error \in {"ServFail", "Refused"})
    BY <1>4, <1>6 DEF Hidden, Says
  <2>8. Authoritative(entry[r])' <=> Authoritative(entry[r])
    BY SMTT(30), <2>1 DEF Authoritative
  <2>9. Looking(r)'
    <3>1. outcome'[r].bytes = {}
      BY <1>4, <1>6, NothingReported
    <3>2. entry'[r] \in Entries' /\ chain'[entry'[r]] = chain[entry[r]] /\ entry'[r] = entry[r]
      BY <2>1 DEF Entries
    <3>3. (x.flow = "Ok" => x.records > 0) /\ (x.flow = "Err" => x.error # "none")
      BY DEF Says
    <3>4. pc'[r] = "respond" => ~(x.flow = "Err" /\ Authoritative(entry[r])')
      BY <2>2, <2>6, <2>8
    <3>5. pc'[r] \in {"soa", "respond"} /\ (pc'[r] = "soa" => chain[entry[r]] = "nacos" /\ x.flow = "Err")
      BY <2>2, <2>5
    <3> QED BY SMTT(30), <1>8, <2>2, <2>7, <3>1, <3>2, <3>3, <3>4, <3>5 DEF Looking
  <2> QED BY <2>3, <2>4, <2>9 DEF Local
<1> QED BY <1>9, <1>10

\* The three authorities and the end of the chain.
LEMMA ChainSteps ==
    ASSUME HandlerInv, NEW r \in Request, UNCHANGED chain,
           LookupNacos(r) \/ LookupUpstream(r) \/ ChainExhausted(r)
    PROVE  Typed' /\ Local(r)'
<1> USE DEF shared, work, history
<1>1. Typed /\ Answering(r) /\ Looking(r)
  BY SMTT(30) DEF HandlerInv, Local
<1>2. CASE LookupNacos(r)
  <2>1. PICK a \in CatalogAnswers :
          Looked(r, NacosLookup(question[r], a),
                 question[r].place = "service" /\ a.kind = "Unavailable")
    BY <1>2 DEF LookupNacos
  <2> DEFINE x == NacosLookup(question[r], a)
             fails == question[r].place = "service" /\ a.kind = "Unavailable"
  <2>2. pc[r] = "lookup" /\ entry[r] \in Entries /\ chain[entry[r]] = "nacos"
    BY <1>2, SMTT(30) DEF LookupNacos
  <2>3. question[r] \in Questions /\ question[r].place # "malformed"
    BY <1>1, <2>2, SMTT(30) DEF Typed, TypeOK, Looking
  <2>4. /\ x \in Lookups /\ (x.flow = "Skip" => question[r].place = "outside")
        /\ (x.flow = "Ok" => x.records > 0) /\ (x.flow = "Err" => x.error # "none")
        /\ fails => x = Fails("ServFail")
    BY <2>3, NacosSays
  <2> HIDE DEF x
  <2>5. fails => x.flow = "Err" /\ x.error = "ServFail"
    BY <2>4 DEF Fails
  <2>6. fails \in BOOLEAN /\ Looked(r, x, fails)
    BY <2>1 DEF x
  <2> HIDE DEF fails
  <2>7. Says(r, x, fails)
    BY <2>2, <2>4, <2>5, SMTT(30) DEF Says
  <2> QED BY <2>2, <2>6, <2>7, EntryAsked, SMTT(30)
<1>3. CASE LookupUpstream(r)
  <2>1. PICK u \in Upstreams :
          \/ chain[entry[r]] = "native" /\ Looked(r, NativeLookup(u), BackendFailed(u))
          \/ chain[entry[r]] = "forward" /\ Looked(r, ForwardLookup(u), BackendFailed(u))
    BY <1>3 DEF LookupUpstream
  <2>2. pc[r] = "lookup" /\ entry[r] \in Entries /\ BackendFailed(u) \in BOOLEAN
    BY <1>3 DEF LookupUpstream, BackendFailed
  <2>3. CASE chain[entry[r]] = "native"
    <3>1. Says(r, NativeLookup(u), BackendFailed(u)) /\ Looked(r, NativeLookup(u), BackendFailed(u))
      BY <2>1, <2>3, NativeSays, SMTT(30) DEF Says
    <3> QED BY <2>2, <3>1, EntryAsked, SMTT(30)
  <2>4. CASE chain[entry[r]] = "forward"
    <3>1. Says(r, ForwardLookup(u), BackendFailed(u))
          /\ Looked(r, ForwardLookup(u), BackendFailed(u))
      BY <2>1, <2>4, ForwardSays DEF Says
    <3> QED BY <2>2, <3>1, EntryAsked
  <2> QED BY <2>1, <2>3, <2>4, SMTT(30)
<1>4. CASE ChainExhausted(r)
  <2>1. pc[r] = "lookup" /\ pc'[r] = "respond" /\ entry'[r] = 0
        /\ UNCHANGED <<question, result, soa, late, outcome, sent, consulted, failed, hook, apexSoa,
                       cursor, inFlight>>
    BY <1>1, <1>4, SMTT(30) DEF Typed, TypeOK, ChainExhausted
  <2>2. Typed'
    <3>1. entry' \in [Request -> 0 .. Len(chain) + 1]
      <4>1. entry \in [Request -> 0 .. Len(chain) + 1] /\ Len(chain) \in Nat
        BY <1>1, HandlerAssumption DEF Typed, TypeOK
      <4>2. 0 \in 0 .. Len(chain) + 1 /\ entry' = [entry EXCEPT ![r] = 0]
        BY <1>4, <4>1 DEF ChainExhausted
      <4> QED BY <4>1, <4>2
    <3>2. pc' = [pc EXCEPT ![r] = "respond"]
      BY <1>4, SMTT(30) DEF ChainExhausted
    <3> QED BY <1>1, <2>1, <3>1, <3>2, SMTT(30) DEF Typed, TypeOK, Entries
  <2>3. Answering(r)'
    BY <1>1, <2>1, SMTT(30) DEF Answering, Unanswered
  <2>4. result[r].flow = "Skip" /\ Hidden(r)'
    BY <1>1, <2>1, SMTT(30) DEF Looking, Hidden, Skip
  <2>5. outcome[r].bytes = {}
    BY <1>1, <2>1, NothingReported, SMTT(30) DEF Answering, Unanswered
  <2>6. question[r].place # "outside" =>
            \A i \in consulted[r] : chain[i] = "nacos" => \A j \in consulted[r] : j <= i
    BY <1>1, SMTT(30) DEF Looking
  <2>7. Looking(r)'
    BY <2>1, <2>4, <2>5, <2>6 DEF Looking
  <2> QED BY <2>2, <2>3, <2>7, SMTT(30) DEF Local
<1> QED BY <1>2, <1>3, <1>4

\* The apex SOA of an authoritative negative: read, or fetched, but there.
LEMMA SoaSteps ==
    ASSUME HandlerInv, NEW r \in Request, UNCHANGED chain, ReadApexSoa(r) \/ FetchApexSoa(r)
    PROVE  Typed' /\ Local(r)'
<1> USE DEF shared, history
<1>1. Typed /\ Answering(r) /\ Looking(r)
  BY DEF HandlerInv, Local
<1>2. NacosLookup(ApexQuestion, NoCatalog).flow = "Ok"
  BY SMTT(30) DEF NacosLookup, ApexQuestion, Found
<1>3. /\ entry[r] \in Entries /\ result[r].flow = "Err" /\ pc[r] \in {"soa", "fetch"}
      /\ UNCHANGED <<question, entry, result, late, outcome, sent, consulted, failed, hook, cursor,
                     inFlight>>
  BY <1>1, SMTT(30) DEF Looking, ReadApexSoa, FetchApexSoa
<1>4. /\ apexSoa \in [Entries -> BOOLEAN] /\ soa \in [Request -> BOOLEAN]
      /\ pc \in [Request -> {"idle", "before", "lookup", "soa", "fetch", "respond",
                             "fallback", "after", "done"}]
  BY <1>1 DEF Typed, TypeOK
<1>5. /\ apexSoa' \in [Entries -> BOOLEAN] /\ soa' \in [Request -> BOOLEAN]
      /\ pc' \in [Request -> {"idle", "before", "lookup", "soa", "fetch", "respond",
                              "fallback", "after", "done"}]
      /\ pc'[r] \in {"fetch", "respond"} /\ (pc'[r] = "respond" => soa'[r])
  <2>1. CASE ReadApexSoa(r)
    BY <1>3, <1>4, <2>1 DEF ReadApexSoa
  <2>2. CASE FetchApexSoa(r)
    <3>1. /\ soa' = [soa EXCEPT ![r] = TRUE] /\ apexSoa' = [apexSoa EXCEPT ![entry[r]] = TRUE]
          /\ pc' = [pc EXCEPT ![r] = "respond"]
      BY <1>2, <2>2, ZenonT(60) DEF FetchApexSoa
    <3> QED BY <1>3, <1>4, <3>1
  <2> QED BY <2>1, <2>2
<1>6. Typed'
  BY <1>1, <1>3, <1>5 DEF Typed, TypeOK, Entries
<1>7. Answering(r)'
  BY <1>1, <1>3, <1>5, ZenonT(60) DEF Answering, Unanswered
<1>8. Looking(r)'
  <2>1. Hidden(r)' <=> Hidden(r)
    BY <1>3, SMTT(30) DEF Hidden
  <2>2. entry'[r] \in Entries' /\ chain'[entry'[r]] = chain[entry[r]]
    BY <1>3 DEF Entries
  <2> QED BY <1>1, <1>3, <1>5, <2>1, <2>2, ZenonT(60) DEF Looking
<1> QED BY <1>6, <1>7, <1>8 DEF Local
=============================================================================
