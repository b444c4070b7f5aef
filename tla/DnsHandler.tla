----------------------------- MODULE DnsHandler -----------------------------
(***************************************************************************)
(* crates/doggy-dns-core/src/handler.rs (DoggyDnsHandler::handle_request)  *)
(* with the authority chain it resolves through                            *)
(* (crates/doggy-dns-plugin/src/authority_chain.rs), the three authorities *)
(* behind that chain, and the middleware hooks around it.                  *)
(*                                                                         *)
(* Requests run concurrently.  Every await (a hook, a zone lookup, a SOA   *)
(* fetch, a send) is a step of its own; what the requests share is the     *)
(* apex-SOA cell of each chain entry, the rotation cursor and the          *)
(* in-flight gauge of the metrics middleware.  Names are reduced to where  *)
(* they lie relative to the Nacos zone, records to their number and the    *)
(* one that leads, a response to what its consumers read off it.           *)
(***************************************************************************)
EXTENDS Integers, Sequences, FiniteSets

CONSTANTS
    Request,         \* request tasks in flight at once
    Chains,          \* the chains to configure: plugin kinds in config order
    Middlewares,     \* hooks in order: "logging", "metrics", "xdp_cache", "guard"
    XdpEnabled,      \* whether the fast path came up (xdp.enabled())
    MaxRecords,      \* bound on the answer records of one lookup
    CursorModulus    \* 2^64: AnswerRotation's cursor is an AtomicUsize

ASSUME HandlerAssumption ==
    /\ Chains \subseteq Seq({"nacos", "native", "forward"}) /\ Chains # {}
    /\ Middlewares \in Seq({"logging", "metrics", "xdp_cache", "guard"})
    /\ XdpEnabled \in BOOLEAN
    /\ MaxRecords \in Nat
    /\ CursorModulus \in Nat \ {0}

\* run_server registers the metrics at most once, and nothing that could short-circuit
\* a request before them.
ASSUME MetricsAssumption ==
    /\ IsFiniteSet(Request)
    /\ \A i, j \in 1 .. Len(Middlewares) :
        Middlewares[i] = "metrics" /\ Middlewares[j] \in {"metrics", "guard"} => i <= j

VARIABLES
    chain,      \* the configured chain, built once before the server
    apexSoa,    \* per chain entry: has its OnceLock been filled
    cursor,     \* AnswerRotation.cursor
    inFlight,   \* DnsMetrics.in_flight
    \* one request task
    pc, question, hook, entry, result, soa, outcome, late,
    \* history, read by no guard
    sent,       \* the responses the transport accepted for this request
    consulted,  \* the chain entries asked about this request's name
    failed      \* those whose backend failed to answer

shared == <<apexSoa, cursor, inFlight>>
work == <<result, soa, late>>
history == <<sent, consulted, failed>>
vars == <<chain, shared, pc, question, hook, entry, work, outcome, history>>

Places == {"malformed", "outside", "apex", "foreign", "service"}
Types == {"A", "SOA", "TXT"}
NoQuestion == [place |-> "malformed", rtype |-> "A"]
Questions == {NoQuestion} \cup [place : Places \ {"malformed"}, rtype : Types]

Codes == {"NoError", "NXDomain", "ServFail", "Refused", "FormErr"}
Entries == 1 .. Len(chain)
Hooks == 1 .. Len(Middlewares)

\* A lookup: Skip, Ok with a number of records, or Err with a LookupError.
Skip == [flow |-> "Skip", records |-> 0, error |-> "none"]
Found(n) == [flow |-> "Ok", records |-> n, error |-> "none"]
Fails(e) == [flow |-> "Err", records |-> 0, error |-> e]
Lookups == [flow : {"Skip", "Ok", "Err"}, records : 0 .. MaxRecords + 1,
            error : {"none", "NameExists"} \cup Codes]

\* A response, as its client, the metrics and the kernel cache see it.
Response(code, aa, withSoa, records, first) ==
    [code |-> code, aa |-> aa, soa |-> withSoa, records |-> records, first |-> first]
Responses == [code : Codes, aa : BOOLEAN, soa : BOOLEAN,
              records : 0 .. MaxRecords + 1, first : 0 .. MaxRecords]

\* RequestOutcome: the code it reports, the authority that answered (0: none),
\* and the response serialized for the XDP cache, if any (a set of at most one).
NoOutcome == [code |-> "none", authority |-> 0, answers |-> 0, bytes |-> {}]

TypeOK ==
    /\ chain \in Chains
    /\ apexSoa \in [Entries -> BOOLEAN]
    /\ cursor \in 0 .. CursorModulus - 1
    /\ inFlight \in Int
    /\ pc \in [Request -> {"idle", "before", "lookup", "soa", "fetch", "respond",
                           "fallback", "after", "done"}]
    /\ question \in [Request -> Questions]
    /\ hook \in [Request -> 0 .. Len(Middlewares) + 1]
    /\ entry \in [Request -> 0 .. Len(chain) + 1]
    /\ result \in [Request -> Lookups]
    /\ soa \in [Request -> BOOLEAN]
    /\ late \in [Request -> {"none", "Refused", "FormErr"}]
    /\ \A r \in Request :
        /\ outcome[r].code \in Codes \cup {"none"}
        /\ outcome[r].bytes \subseteq Responses
    /\ sent \in [Request -> Seq(Responses)]
    /\ consulted \in [Request -> SUBSET Entries]
    /\ failed \in [Request -> SUBSET Entries]

Init ==
    /\ chain \in Chains
    /\ apexSoa = [i \in Entries |-> FALSE]
    /\ cursor = 0
    /\ inFlight = 0
    /\ pc = [r \in Request |-> "idle"]
    /\ question = [r \in Request |-> NoQuestion]
    /\ hook = [r \in Request |-> 0]
    /\ entry = [r \in Request |-> 0]
    /\ result = [r \in Request |-> Skip]
    /\ soa = [r \in Request |-> FALSE]
    /\ late = [r \in Request |-> "none"]
    /\ outcome = [r \in Request |-> NoOutcome]
    /\ sent = [r \in Request |-> <<>>]
    /\ consulted = [r \in Request |-> {}]
    /\ failed = [r \in Request |-> {}]

-----------------------------------------------------------------------------
(* The authorities' lookups *)

\* What the Nacos catalog can say of a service: its usable instances of the
\* asked family, or that it does not know the name, or that it could not ask.
CatalogAnswers == [kind : {"Instances"}, records : 0 .. MaxRecords]
                    \cup [kind : {"Unknown", "Unavailable"}, records : {0}]

\* apex_soa() asks for the origin's SOA, which never reaches the catalog.
ApexQuestion == [place |-> "apex", rtype |-> "SOA"]
NoCatalog == [kind |-> "Unknown", records |-> 0]

\* Mutation: a name in the zone that is no service name is left to the next entry.
NacosLookupSkippingForeign(q, a) ==
    CASE q.place \in {"outside", "foreign"} -> Skip
      [] q.place = "apex" -> IF q.rtype = "SOA" THEN Found(1) ELSE Fails("NameExists")
      [] q.place = "service" ->
            CASE a.kind = "Unknown" -> Fails("NXDomain")
              [] a.kind = "Unavailable" -> Fails("ServFail")
              [] OTHER -> IF q.rtype = "A" /\ a.records > 0
                          THEN Found(a.records) ELSE Fails("NameExists")

NacosLookup(q, a) ==
    CASE q.place = "outside" -> Skip
      [] q.place = "apex" -> IF q.rtype = "SOA" THEN Found(1) ELSE Fails("NameExists")
      [] q.place = "foreign" -> Fails("NXDomain")
      [] q.place = "service" ->
            CASE a.kind = "Unknown" -> Fails("NXDomain")
              [] a.kind = "Unavailable" -> Fails("ServFail")
              [] OTHER -> IF q.rtype = "A" /\ a.records > 0
                          THEN Found(a.records) ELSE Fails("NameExists")

\* What a resolver behind native or forward can say.
Upstreams == [kind : {"answer"}, records : 0 .. MaxRecords]
                \cup [kind : {"nxdomain", "nodata", "refused", "timeout"}, records : {0}]

BackendFailed(u) == u.kind \in {"refused", "timeout"}

NativeLookup(u) == IF u.records > 0 THEN Found(u.records) ELSE Skip

ForwardLookup(u) ==
    CASE u.records > 0 -> Found(u.records)
      [] u.kind = "nxdomain" -> Fails("NXDomain")
      [] u.kind = "refused" -> Fails("Refused")
      [] u.kind = "timeout" -> Fails("ServFail")
      [] OTHER -> Fails("NameExists")

ResponseCodeFor(e) == IF e = "NameExists" THEN "NoError" ELSE e

\* ZoneType::Primary; native and forward are External.
Authoritative(i) == i > 0 /\ chain[i] = "nacos"

-----------------------------------------------------------------------------
(* before_request on every middleware, in order *)

Arrive(r, q) ==
    /\ pc[r] = "idle"
    /\ pc' = [pc EXCEPT ![r] = "before"]
    /\ question' = [question EXCEPT ![r] = q]
    /\ hook' = [hook EXCEPT ![r] = 1]
    /\ UNCHANGED <<shared, entry, work, outcome, history>>

\* Mutation: an early return leaves out the after hooks.
FinishWithoutHooks(r, code) ==
    /\ outcome' = [outcome EXCEPT ![r] = [NoOutcome EXCEPT !.code = code]]
    /\ late' = [late EXCEPT ![r] = code]
    /\ pc' = [pc EXCEPT ![r] = "after"]
    /\ hook' = [hook EXCEPT ![r] = Len(Middlewares) + 1]

\* RequestOutcome::error, reported to the hooks before the response is sent.
FinishThenSend(r, code) ==
    /\ outcome' = [outcome EXCEPT ![r] = [NoOutcome EXCEPT !.code = code]]
    /\ late' = [late EXCEPT ![r] = code]
    /\ pc' = [pc EXCEPT ![r] = "after"]
    /\ hook' = [hook EXCEPT ![r] = 1]

\* The gauge DnsMetricsMiddleware raises in its before_request, and no other hook.
CountIn(r) == inFlight' = IF Middlewares[hook[r]] = "metrics" THEN inFlight + 1 ELSE inFlight

BeforeRequest(r) ==
    /\ pc[r] = "before"
    /\ hook[r] \in Hooks
    /\ CountIn(r)
    /\ \/ /\ hook' = [hook EXCEPT ![r] = @ + 1]
          /\ UNCHANGED <<pc, outcome, late>>
       \/ /\ Middlewares[hook[r]] = "guard"   \* ShortCircuit
          /\ FinishThenSend(r, "Refused")
    /\ UNCHANGED <<apexSoa, cursor, question, entry, result, soa, sent, consulted,
                   failed>>

RequestInfo(r) ==
    /\ pc[r] = "before"
    /\ hook[r] \notin Hooks
    /\ IF question[r].place = "malformed"
       THEN FinishThenSend(r, "FormErr") /\ UNCHANGED entry
       ELSE /\ pc' = [pc EXCEPT ![r] = "lookup"]
            /\ entry' = [entry EXCEPT ![r] = 1]
            /\ UNCHANGED <<outcome, late, hook>>
    /\ UNCHANGED <<shared, question, result, soa, history>>

-----------------------------------------------------------------------------
(* AuthorityChain::resolve *)

\* One entry's lookup.  The first result that is not Skip wins; an Err of an
\* authoritative entry also needs the apex SOA.
Looked(r, x, fails) ==
    /\ consulted' = [consulted EXCEPT ![r] = @ \cup {entry[r]}]
    /\ failed' = IF fails THEN [failed EXCEPT ![r] = @ \cup {entry[r]}] ELSE failed
    /\ IF x.flow = "Skip"
       THEN entry' = [entry EXCEPT ![r] = @ + 1] /\ UNCHANGED <<pc, result>>
       ELSE /\ result' = [result EXCEPT ![r] = x]
            /\ pc' = [pc EXCEPT ![r] = IF x.flow = "Err" /\ Authoritative(entry[r])
                                       THEN "soa" ELSE "respond"]
            /\ UNCHANGED entry
    /\ UNCHANGED <<shared, question, hook, soa, late, outcome, sent>>

LookupNacos(r) ==
    /\ pc[r] = "lookup" /\ entry[r] \in Entries /\ chain[entry[r]] = "nacos"
    /\ \E a \in CatalogAnswers :
        Looked(r, NacosLookup(question[r], a),
               question[r].place = "service" /\ a.kind = "Unavailable")

LookupUpstream(r) ==
    /\ pc[r] = "lookup" /\ entry[r] \in Entries
    /\ \E u \in Upstreams :
        \/ chain[entry[r]] = "native" /\ Looked(r, NativeLookup(u), BackendFailed(u))
        \/ chain[entry[r]] = "forward" /\ Looked(r, ForwardLookup(u), BackendFailed(u))

\* Every entry skipped.
ChainExhausted(r) ==
    /\ pc[r] = "lookup" /\ entry[r] \notin Entries
    /\ pc' = [pc EXCEPT ![r] = "respond"]
    /\ entry' = [entry EXCEPT ![r] = 0]
    /\ UNCHANGED <<shared, question, hook, work, outcome, history>>

\* An authoritative Err reads the cell; an empty one sends the request to the
\* handler's own SOA lookup, and another request may fill the cell meanwhile.
ReadApexSoa(r) ==
    /\ pc[r] = "soa"
    /\ soa' = [soa EXCEPT ![r] = apexSoa[entry[r]]]
    /\ pc' = [pc EXCEPT ![r] = IF apexSoa[entry[r]] THEN "respond" ELSE "fetch"]
    /\ UNCHANGED <<shared, question, hook, entry, result, late, outcome, history>>

\* Mutation: the request that loses the race to fill the cell goes without.
FetchApexSoaFirstOnly(r) ==
    /\ pc[r] = "fetch"
    /\ LET got == NacosLookup(ApexQuestion, NoCatalog).flow = "Ok" /\ ~apexSoa[entry[r]]
       IN /\ soa' = [soa EXCEPT ![r] = got]
          /\ apexSoa' = [apexSoa EXCEPT ![entry[r]] = @ \/ got]
    /\ pc' = [pc EXCEPT ![r] = "respond"]
    /\ UNCHANGED <<cursor, inFlight, question, hook, entry, result, late, outcome,
                   history>>

\* Only a hit is kept.
FetchApexSoa(r) ==
    /\ pc[r] = "fetch"
    /\ LET got == NacosLookup(ApexQuestion, NoCatalog).flow = "Ok"
       IN /\ soa' = [soa EXCEPT ![r] = got]
          /\ apexSoa' = [apexSoa EXCEPT ![entry[r]] = @ \/ got]
    /\ pc' = [pc EXCEPT ![r] = "respond"]
    /\ UNCHANGED <<cursor, inFlight, question, hook, entry, result, late, outcome,
                   history>>

-----------------------------------------------------------------------------
(* The response *)

\* Mutation: the records are serialized in the authority's order.
SerializeUnrotated(x, fits) == IF XdpEnabled /\ fits THEN {[x EXCEPT !.first = 0]} ELSE {}

\* serialize_for_xdp: only a whole response of at most 512 bytes is kept, and
\* its size is not modelled.
SerializeForXdp(x, fits) == IF XdpEnabled /\ fits THEN {x} ELSE {}

\* AnswerRotation::apply, for rotate_answers = true.
Rotated(n) == IF n < 2 THEN 0 ELSE cursor % n
\* Mutation: the cursor does not wrap.
AdvanceUnwrapped(n) == IF n < 2 THEN cursor ELSE cursor + 1

AdvanceCursor(n) == IF n < 2 THEN cursor ELSE (cursor + 1) % CursorModulus

\* finish() follows the send; the hooks see the outcome o.
Report(r, o, where) ==
    /\ outcome' = [outcome EXCEPT ![r] = o]
    /\ pc' = [pc EXCEPT ![r] = where]
    /\ hook' = [hook EXCEPT ![r] = 1]

Deliver(r, x, accepted) ==
    sent' = IF accepted THEN [sent EXCEPT ![r] = Append(@, x)] ELSE sent

\* Mutation: the outcome of a failed send is reported as a success.
RespondOkRegardless(r) ==
    /\ pc[r] = "respond" /\ result[r].flow = "Ok"
    /\ LET n == result[r].records
           x == Response("NoError", Authoritative(entry[r]), FALSE, n, Rotated(n))
       IN \E fits, accepted \in BOOLEAN :
            /\ Deliver(r, x, accepted)
            /\ Report(r, [code |-> "NoError", authority |-> entry[r], answers |-> n,
                          bytes |-> SerializeForXdp(x, fits)],
                      IF accepted THEN "after" ELSE "fallback")
            /\ cursor' = AdvanceCursor(n)
    /\ UNCHANGED <<apexSoa, inFlight, question, entry, work, consulted, failed>>

\* A failed send is answered with SERVFAIL, and the outcome carries no bytes.
RespondOk(r) ==
    /\ pc[r] = "respond" /\ result[r].flow = "Ok"
    /\ LET n == result[r].records
           x == Response("NoError", Authoritative(entry[r]), FALSE, n, Rotated(n))
       IN \E fits, accepted \in BOOLEAN :
            /\ Deliver(r, x, accepted)
            /\ IF accepted
               THEN Report(r, [code |-> "NoError", authority |-> entry[r], answers |-> n,
                               bytes |-> SerializeForXdp(x, fits)], "after")
               ELSE Report(r, [code |-> "ServFail", authority |-> entry[r], answers |-> 0,
                               bytes |-> {}], "fallback")
            /\ cursor' = AdvanceCursor(n)
    /\ UNCHANGED <<apexSoa, inFlight, question, entry, work, consulted, failed>>

SendFallback(r) ==
    /\ pc[r] = "fallback"
    /\ \E accepted \in BOOLEAN :
        Deliver(r, Response("ServFail", FALSE, FALSE, 0, 0), accepted)
    /\ pc' = [pc EXCEPT ![r] = "after"]
    /\ UNCHANGED <<shared, question, hook, entry, work, outcome, consulted, failed>>

\* Mutation: every negative reply is serialized, whatever its code.
RespondErrUnfiltered(r) ==
    /\ pc[r] = "respond" /\ result[r].flow = "Err"
    /\ LET code == ResponseCodeFor(result[r].error)
           x == Response(code, Authoritative(entry[r]), soa[r], 0, 0)
       IN \E fits, accepted \in BOOLEAN :
            /\ Deliver(r, x, accepted)
            /\ Report(r, [code |-> code, authority |-> entry[r], answers |-> 0,
                          bytes |-> SerializeForXdp(x, fits)], "after")
    /\ UNCHANGED <<shared, question, entry, work, consulted, failed>>

\* A negative or failed lookup: only NOERROR and NXDOMAIN are serialized.
RespondErr(r) ==
    /\ pc[r] = "respond" /\ result[r].flow = "Err"
    /\ LET code == ResponseCodeFor(result[r].error)
           x == Response(code, Authoritative(entry[r]), soa[r], 0, 0)
       IN \E fits, accepted \in BOOLEAN :
            /\ Deliver(r, x, accepted)
            /\ Report(r, [code |-> code, authority |-> entry[r], answers |-> 0,
                          bytes |-> IF code \in {"NoError", "NXDomain"}
                                    THEN SerializeForXdp(x, fits) ELSE {}], "after")
    /\ UNCHANGED <<shared, question, entry, work, consulted, failed>>

RespondSkip(r) ==
    /\ pc[r] = "respond" /\ result[r].flow = "Skip"
    /\ LET x == Response("NXDomain", FALSE, FALSE, 0, 0)
       IN \E fits, accepted \in BOOLEAN :
            /\ Deliver(r, x, accepted)
            /\ Report(r, [code |-> "NXDomain", authority |-> 0, answers |-> 0,
                          bytes |-> SerializeForXdp(x, fits)], "after")
    /\ UNCHANGED <<shared, question, entry, work, consulted, failed>>

-----------------------------------------------------------------------------
(* finish(): after_request on every middleware, in order *)

\* ... and lowers again in its after_request.
CountOut(r) == inFlight' = IF Middlewares[hook[r]] = "metrics" THEN inFlight - 1 ELSE inFlight

AfterRequest(r) ==
    /\ pc[r] = "after" /\ hook[r] \in Hooks
    /\ CountOut(r)
    /\ hook' = [hook EXCEPT ![r] = @ + 1]
    /\ UNCHANGED <<apexSoa, cursor, pc, question, entry, work, outcome, history>>

\* A short-circuited or unparsable request is answered only now.
SendLate(r) ==
    /\ pc[r] = "after" /\ hook[r] \notin Hooks /\ late[r] # "none"
    /\ \E accepted \in BOOLEAN :
        Deliver(r, Response(late[r], FALSE, FALSE, 0, 0), accepted)
    /\ pc' = [pc EXCEPT ![r] = "done"]
    /\ UNCHANGED <<shared, question, hook, entry, work, outcome, consulted, failed>>

FinishHandled(r) ==
    /\ pc[r] = "after" /\ hook[r] \notin Hooks /\ late[r] = "none"
    /\ pc' = [pc EXCEPT ![r] = "done"]
    /\ UNCHANGED <<shared, question, hook, entry, work, outcome, history>>

\* The task ends and its locals go away.
Drop(r) ==
    /\ pc[r] = "done"
    /\ pc' = [pc EXCEPT ![r] = "idle"]
    /\ question' = [question EXCEPT ![r] = NoQuestion]
    /\ hook' = [hook EXCEPT ![r] = 0]
    /\ entry' = [entry EXCEPT ![r] = 0]
    /\ result' = [result EXCEPT ![r] = Skip]
    /\ soa' = [soa EXCEPT ![r] = FALSE]
    /\ late' = [late EXCEPT ![r] = "none"]
    /\ outcome' = [outcome EXCEPT ![r] = NoOutcome]
    /\ sent' = [sent EXCEPT ![r] = <<>>]
    /\ consulted' = [consulted EXCEPT ![r] = {}]
    /\ failed' = [failed EXCEPT ![r] = {}]
    /\ UNCHANGED shared

Next ==
    /\ UNCHANGED chain
    /\ \E r \in Request :
        \/ \E q \in Questions : Arrive(r, q)
        \/ BeforeRequest(r) \/ RequestInfo(r)
        \/ LookupNacos(r) \/ LookupUpstream(r) \/ ChainExhausted(r)
        \/ ReadApexSoa(r) \/ FetchApexSoa(r)
        \/ RespondOk(r) \/ SendFallback(r) \/ RespondErr(r) \/ RespondSkip(r)
        \/ AfterRequest(r) \/ SendLate(r) \/ FinishHandled(r) \/ Drop(r)

Spec == Init /\ [][Next]_vars

-----------------------------------------------------------------------------
(* Properties *)

\* A request is answered at most once, and what the outcome reports to the
\* metrics, the log and the cache is what the client was sent, on the failed-send
\* and the hooks-first paths as well.
OutcomeIsWhatWasSent ==
    \A r \in Request :
        /\ Len(sent[r]) <= 1
        /\ sent[r] # <<>> /\ outcome[r].code # "none" =>
            /\ sent[r][1].code = outcome[r].code
            /\ sent[r][1].records = outcome[r].answers

\* The bytes handed to the XDP cache are the very response this client was sent:
\* same code, AA, SOA, and the same rotation of the records ("the response, the
\* XDP cache payload, and the answer count all see one sequence").
BytesAreTheResponse ==
    \A r \in Request : \A b \in outcome[r].bytes : sent[r] \in {<<>>, <<b>>}

\* A lookup whose backend failed is never admitted to the XDP cache, whatever
\* the other requests do.  Only native's failures can hide behind admitted bytes:
\* they fall through, and the entries after it, or their absence, answer.
FailureIsNeverAdmitted ==
    \A r \in Request : outcome[r].bytes # {} =>
        \A i \in failed[r] : chain[i] = "native"

\* A name inside the Nacos zone is never asked of an entry behind the authority
\* that owns the zone, so internal names do not reach an upstream resolver.
ZoneNeverLeaks ==
    \A r \in Request : question[r].place # "outside" =>
        \A i \in consulted[r] : chain[i] = "nacos" =>
            \A j \in consulted[r] : j <= i

\* Every recordless answer given in the zone's authority carries the apex SOA a
\* downstream cache needs, however many requests race to fill the cell first.
NegativesCarrySoa ==
    \A r \in Request : \A i \in 1 .. Len(sent[r]) :
        sent[r][i].aa /\ sent[r][i].records = 0 => sent[r][i].soa

\* The in-flight gauge counts requests: it is never negative, never above the
\* requests there are, and zero again when none is under way, short-circuited and
\* unparsable requests included.
InFlightCountsRequests ==
    /\ inFlight \in 0 .. Cardinality(Request)
    /\ (\A r \in Request : pc[r] = "idle") => inFlight = 0
=============================================================================
