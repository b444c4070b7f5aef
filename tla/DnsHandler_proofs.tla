-------------------------- MODULE DnsHandler_proofs --------------------------
(***************************************************************************)
(* Proofs about DnsHandler for any number of requests, any chain and any   *)
(* middlewares: the steps from the response on keep the invariant of       *)
(* DnsHandlerInv_proofs, and what follows from it.                         *)
(***************************************************************************)
EXTENDS DnsHandlerInv_proofs, FiniteSetTheorems

-----------------------------------------------------------------------------
(* The response *)

\* A response is sent, or lost, and its outcome reported to the hooks.
LEMMA ResponseGiven ==
    ASSUME HandlerInv, NEW r \in Request, UNCHANGED chain, pc[r] = "respond",
           NEW x \in Responses, NEW accepted \in BOOLEAN, Deliver(r, x, accepted),
           NEW o \in Outcomes, Report(r, o, "after"),
           x.code = o.code, x.records = o.answers, x.aa /\ x.records = 0 => x.soa,
           \A b \in o.bytes : b = x, o.bytes # {} => Hidden(r),
           UNCHANGED <<apexSoa, inFlight, question, entry, result, soa, late, consulted, failed>>,
           cursor' \in 0 .. CursorModulus - 1
    PROVE  Typed' /\ Local(r)'
<1>1. Typed /\ Answering(r) /\ Looking(r)
  BY DEF HandlerInv, Local
<1>2. /\ outcome' \in [Request -> Outcomes] /\ outcome'[r] = o
      /\ pc' = [pc EXCEPT ![r] = "after"] /\ pc'[r] = "after"
      /\ hook' = [hook EXCEPT ![r] = 1]
  BY <1>1 DEF Typed, TypeOK, Report
<1>3. sent[r] = <<>> /\ late[r] = "none" /\ sent \in [Request -> Seq(Responses)]
  BY <1>1 DEF Typed, TypeOK, Answering, Unanswered
<1>4. sent' \in [Request -> Seq(Responses)] /\ (sent'[r] = <<>> \/ sent'[r] = <<x>>)
  <2>1. Append(sent[r], x) = <<x>> /\ <<x>> \in Seq(Responses)
    BY <1>3
  <2> QED BY <1>3, <2>1 DEF Deliver
<1>5. Typed'
  <2>1. \A y \in Request : outcome'[y].code \in Codes \cup {"none"} /\ outcome'[y].bytes \subseteq Responses
    BY <1>2 DEF Outcomes
  <2>2. hook' \in [Request -> 0 .. Len(Middlewares) + 1]
    BY <1>1, <1>2, FirstHook, Zenon
  <2> QED BY <1>1, <1>2, <1>4, <2>1, <2>2 DEF Typed, TypeOK, Entries
<1>6. Answering(r)'
  BY <1>2, <1>3, <1>4 DEF Answering, Unanswered, Replied, Told
<1>7. Looking(r)'
  <2>1. Hidden(r)' <=> Hidden(r)
    BY DEF Hidden
  <2> QED BY <1>1, <1>2, <2>1 DEF Looking
<1> QED BY <1>5, <1>6, <1>7 DEF Local

\* The send of a positive answer fails, and SERVFAIL takes its place.
LEMMA SendFailed ==
    ASSUME HandlerInv, NEW r \in Request, UNCHANGED chain, pc[r] = "respond",
           Report(r, [code |-> "ServFail", authority |-> entry[r], answers |-> 0, bytes |-> {}],
                  "fallback"),
           UNCHANGED <<apexSoa, inFlight, question, entry, result, soa, late, sent, consulted, failed>>,
           cursor' \in 0 .. CursorModulus - 1
    PROVE  Typed' /\ Local(r)'
<1> DEFINE o == [code |-> "ServFail", authority |-> entry[r], answers |-> 0, bytes |-> {}]
<1>1. Typed /\ Answering(r) /\ Looking(r)
  BY DEF HandlerInv, Local
<1>3. entry[r] \in Int
  BY <1>1, EntryIsInt
<1>4. o \in Outcomes /\ o.code = "ServFail" /\ o.answers = 0 /\ o.bytes = {}
  <2>1. "ServFail" \in Codes /\ {} \in SUBSET Responses /\ 0 \in Int
    BY DEF Codes
  <2>2. o \in Outcomes
    BY <1>3, <2>1, OutcomeOf
  <2> QED BY <2>2
<1> HIDE DEF o
<1>5. /\ outcome' \in [Request -> Outcomes] /\ outcome'[r] = o
      /\ pc' = [pc EXCEPT ![r] = "fallback"] /\ pc'[r] = "fallback"
      /\ hook' = [hook EXCEPT ![r] = 1]
  BY <1>1, <1>4 DEF Typed, TypeOK, Report, o
<1>6. Typed'
  <2>1. \A y \in Request : outcome'[y].code \in Codes \cup {"none"} /\ outcome'[y].bytes \subseteq Responses
    BY <1>5 DEF Outcomes
  <2>2. hook' \in [Request -> 0 .. Len(Middlewares) + 1]
    BY <1>1, <1>5, FirstHook, Zenon
  <2> QED BY <1>1, <1>5, <2>1, <2>2 DEF Typed, TypeOK, Entries
<1>7. Answering(r)'
  BY <1>1, <1>4, <1>5 DEF Answering, Unanswered, Bare
<1>8. Looking(r)'
  BY <1>1, <1>4, <1>5 DEF Looking
<1> QED BY <1>6, <1>7, <1>8 DEF Local

\* What serialize_for_xdp keeps is the response it was given.
LEMMA SerializedIsSame ==
    ASSUME NEW x \in Responses, NEW fits \in BOOLEAN
    PROVE  SerializeForXdp(x, fits) \in SUBSET Responses /\ \A b \in SerializeForXdp(x, fits) : b = x
BY DEF SerializeForXdp

\* The positive answer, with its rotation.
LEMMA PositiveStep ==
    ASSUME HandlerInv, NEW r \in Request, UNCHANGED chain, RespondOk(r)
    PROVE  Typed' /\ Local(r)'
<1> USE DEF work
<1> DEFINE n == result[r].records
           x == Response("NoError", Authoritative(entry[r]), FALSE, n, Rotated(n))
<1>1. PICK fits \in BOOLEAN, accepted \in BOOLEAN :
        /\ Deliver(r, x, accepted)
        /\ IF accepted
           THEN Report(r, [code |-> "NoError", authority |-> entry[r], answers |-> n,
                           bytes |-> SerializeForXdp(x, fits)], "after")
           ELSE Report(r, [code |-> "ServFail", authority |-> entry[r], answers |-> 0, bytes |-> {}],
                       "fallback")
        /\ cursor' = AdvanceCursor(n)
  BY Zenon DEF RespondOk
<1>2. /\ pc[r] = "respond" /\ result[r].flow = "Ok"
      /\ UNCHANGED <<apexSoa, inFlight, question, entry, result, soa, late, consulted, failed>>
  BY DEF RespondOk
<1>3. Typed /\ Looking(r)
  BY DEF HandlerInv, Local
<1>4. /\ n \in 0 .. MaxRecords + 1 /\ n > 0 /\ cursor \in 0 .. CursorModulus - 1
      /\ entry[r] \in Int /\ MaxRecords \in Nat /\ CursorModulus \in Nat \ {0}
  <2>1. result[r] \in Lookups /\ cursor \in 0 .. CursorModulus - 1
    BY <1>3 DEF Typed, TypeOK
  <2>2. n \in 0 .. MaxRecords + 1
    BY <2>1 DEF Lookups
  <2>3. n > 0
    BY <1>2, <1>3 DEF Looking
  <2>4. entry[r] \in Int
    BY <1>3, EntryIsInt
  <2>5. MaxRecords \in Nat /\ CursorModulus \in Nat \ {0}
    BY HandlerAssumption
  <2> HIDE DEF n
  <2> QED BY <2>1, <2>2, <2>3, <2>4, <2>5
<1>5. Rotated(n) \in 0 .. MaxRecords
  <2> HIDE DEF n
  <2>1. CASE n < 2
    BY <1>4, <2>1 DEF Rotated
  <2>2. CASE n >= 2
    <3>1. cursor % n \in 0 .. n - 1
      BY <1>4, <2>2
    <3> QED BY <1>4, <2>2, <3>1 DEF Rotated
  <2> QED BY <1>4, <2>1, <2>2
<1>6. cursor' \in 0 .. CursorModulus - 1
  <2> HIDE DEF n
  <2>1. (cursor + 1) % CursorModulus \in 0 .. CursorModulus - 1
    BY <1>4
  <2> QED BY <1>1, <1>4, <2>1 DEF AdvanceCursor
<1>7. Authoritative(entry[r]) \in BOOLEAN
  BY DEF Authoritative
<1>8. /\ x \in Responses /\ x.code = "NoError" /\ x.records = n
  <2> DEFINE aa == Authoritative(entry[r])  first == Rotated(n)
  <2>1. x = [code |-> "NoError", aa |-> aa, soa |-> FALSE, records |-> n, first |-> first]
    BY DEF Response
  <2> HIDE DEF aa, first, n, x
  <2> QED BY <2>1, <1>4, <1>5, <1>7 DEF aa, first, Responses, Codes
<1> HIDE DEF x, n
<1>9. CASE accepted
  <2> DEFINE bytes == SerializeForXdp(x, fits)
             o == [code |-> "NoError", authority |-> entry[r], answers |-> n, bytes |-> bytes]
  <2>1. bytes \in SUBSET Responses /\ \A b \in bytes : b = x
    BY <1>8, SerializedIsSame
  <2>2. Report(r, o, "after")
    BY <1>1, <1>9
  <2> HIDE DEF bytes
  <2>3. o \in Outcomes /\ o.code = "NoError" /\ o.answers = n /\ o.bytes = bytes
    BY <1>4, <2>1 DEF Outcomes, Codes
  <2> HIDE DEF o
  <2>4. Hidden(r)
    BY <1>2, <1>3 DEF Looking
  <2>5. ~(x.aa /\ x.records = 0)
    BY <1>4, <1>8
  <2>6. Deliver(r, x, accepted)
    BY <1>1
  <2> QED BY <1>2, <1>6, <1>8, <2>1, <2>2, <2>3, <2>4, <2>5, <2>6, ResponseGiven, SMTT(30)
<1>10. CASE ~accepted
  <2>1. sent' = sent
    BY <1>1, <1>10 DEF Deliver
  <2> QED BY <1>1, <1>2, <1>6, <1>10, <2>1, SendFailed
<1> QED BY <1>9, <1>10

\* The negative answer, and the one of an exhausted chain.
LEMMA NegativeSteps ==
    ASSUME HandlerInv, NEW r \in Request, UNCHANGED chain, RespondErr(r) \/ RespondSkip(r)
    PROVE  Typed' /\ Local(r)'
<1> USE DEF work, shared
<1>1. Typed /\ Looking(r)
  BY DEF HandlerInv, Local
<1>2. /\ cursor \in 0 .. CursorModulus - 1 /\ entry[r] \in Int /\ MaxRecords \in Nat
      /\ soa[r] \in BOOLEAN /\ result[r] \in Lookups
  <2>1. cursor \in 0 .. CursorModulus - 1 /\ soa[r] \in BOOLEAN /\ result[r] \in Lookups
    BY <1>1, SMTT(30) DEF Typed, TypeOK
  <2> QED BY <1>1, <2>1, EntryIsInt, HandlerAssumption
<1>3. CASE RespondErr(r)
  <2> DEFINE code == ResponseCodeFor(result[r].error)
             aa == Authoritative(entry[r])
             x == Response(code, aa, soa[r], 0, 0)
  <2>1. PICK fits \in BOOLEAN, accepted \in BOOLEAN :
          /\ Deliver(r, x, accepted)
          /\ Report(r, [code |-> code, authority |-> entry[r], answers |-> 0,
                        bytes |-> IF code \in {"NoError", "NXDomain"}
                                  THEN SerializeForXdp(x, fits) ELSE {}], "after")
    BY <1>3, SMTT(30) DEF RespondErr
  <2>2. /\ pc[r] = "respond" /\ result[r].flow = "Err"
        /\ UNCHANGED <<apexSoa, cursor, inFlight, question, entry, result, soa, late, consulted, failed>>
    BY <1>3 DEF RespondErr
  <2>3. code \in Codes
    BY <1>1, <1>2, <2>2 DEF Looking, Lookups, ResponseCodeFor, Codes
  <2>4. code \in {"NoError", "NXDomain"} => Hidden(r)
    BY <1>1, <2>2 DEF Looking, ResponseCodeFor
  <2>5. aa \in BOOLEAN /\ (aa => soa[r])
    BY <1>1, <2>2 DEF Looking, Authoritative
  <2> HIDE DEF code, aa
  <2>6. x \in Responses /\ x.code = code /\ x.records = 0 /\ x.aa = aa /\ x.soa = soa[r]
    BY <1>2, <2>3, <2>5 DEF Response, Responses
  <2> HIDE DEF x
  <2> DEFINE bytes == IF code \in {"NoError", "NXDomain"} THEN SerializeForXdp(x, fits) ELSE {}
             o == [code |-> code, authority |-> entry[r], answers |-> 0, bytes |-> bytes]
  <2>7. bytes \in SUBSET Responses /\ (\A b \in bytes : b = x) /\ (bytes # {} => Hidden(r))
    BY <2>4, <2>6, SerializedIsSame
  <2>8. Report(r, o, "after") /\ Deliver(r, x, accepted)
    BY <2>1
  <2> HIDE DEF bytes
  <2>9. o \in Outcomes /\ o.code = code /\ o.answers = 0 /\ o.bytes = bytes
    BY <1>2, <2>3, <2>7 DEF Outcomes
  <2> HIDE DEF o
  <2> QED BY <1>2, <2>2, <2>5, <2>6, <2>7, <2>8, <2>9, ResponseGiven, SMTT(30)
<1>4. CASE RespondSkip(r)
  <2> DEFINE x == Response("NXDomain", FALSE, FALSE, 0, 0)
  <2>1. PICK fits \in BOOLEAN, accepted \in BOOLEAN :
          /\ Deliver(r, x, accepted)
          /\ Report(r, [code |-> "NXDomain", authority |-> 0, answers |-> 0,
                        bytes |-> SerializeForXdp(x, fits)], "after")
    BY <1>4, Zenon DEF RespondSkip
  <2>2. /\ pc[r] = "respond" /\ result[r].flow = "Skip"
        /\ UNCHANGED <<apexSoa, cursor, inFlight, question, entry, result, soa, late, consulted, failed>>
    BY <1>4 DEF RespondSkip
  <2>3. x \in Responses /\ x.code = "NXDomain" /\ x.records = 0 /\ x.aa = FALSE
    BY <1>2 DEF Response, Responses, Codes
  <2> HIDE DEF x
  <2> DEFINE bytes == SerializeForXdp(x, fits)
             o == [code |-> "NXDomain", authority |-> 0, answers |-> 0, bytes |-> bytes]
  <2>4. bytes \in SUBSET Responses /\ \A b \in bytes : b = x
    BY <2>3, SerializedIsSame
  <2>5. Report(r, o, "after") /\ Deliver(r, x, accepted)
    BY <2>1
  <2> HIDE DEF bytes
  <2>6. o \in Outcomes /\ o.code = "NXDomain" /\ o.answers = 0 /\ o.bytes = bytes
    BY <2>4 DEF Outcomes, Codes
  <2> HIDE DEF o
  <2>7. Hidden(r)
    BY <1>1, <2>2 DEF Looking
  <2> QED BY <1>2, <2>2, <2>3, <2>4, <2>5, <2>6, <2>7, ResponseGiven, SMTT(30)
<1> QED BY <1>3, <1>4

-----------------------------------------------------------------------------
(* After the response *)

\* A response that no step after it changes: SERVFAIL in place of a failed send, or the
\* reply of a request that was never looked up.
LEMMA LastResponse ==
    ASSUME HandlerInv, NEW r \in Request, UNCHANGED chain, SendFallback(r) \/ SendLate(r)
    PROVE  Typed' /\ Local(r)'
<1> USE DEF shared, work
<1> DEFINE code == IF pc[r] = "fallback" THEN "ServFail" ELSE late[r]
           x == Response(code, FALSE, FALSE, 0, 0)
           next == IF pc[r] = "fallback" THEN "after" ELSE "done"
<1>1. Typed /\ Answering(r) /\ Looking(r)
  BY DEF HandlerInv, Local
<1>2. /\ pc[r] = "fallback" \/ (pc[r] = "after" /\ late[r] # "none")
      /\ pc' = [pc EXCEPT ![r] = next]
      /\ UNCHANGED <<question, hook, entry, result, soa, late, outcome, consulted, failed, apexSoa,
                     cursor, inFlight>>
      /\ \E accepted \in BOOLEAN : Deliver(r, x, accepted)
  <2>1. CASE SendFallback(r)
    <3>1. pc[r] = "fallback"
      BY <2>1 DEF SendFallback
    <3> QED BY <2>1, <3>1, Zenon DEF SendFallback
  <2>2. CASE SendLate(r)
    <3>1. pc[r] = "after"
      BY <2>2 DEF SendLate
    <3> QED BY <2>2, <3>1, Zenon DEF SendLate
  <2> QED BY <2>1, <2>2, Zenon
<1>3. code \in {"ServFail", "Refused", "FormErr"} /\ Bare(r, code)
  <2>1. late[r] \in {"none", "Refused", "FormErr"}
    BY <1>1 DEF Typed, TypeOK
  <2> QED BY <1>1, <1>2, <2>1 DEF Answering
<1>4. next \in {"after", "done"} /\ (next = "after" => pc[r] = "fallback")
  OBVIOUS
<1> HIDE DEF code, next
<1>5. x \in Responses /\ x.code = code /\ x.records = 0 /\ x.aa = FALSE
  BY <1>3, HandlerAssumption, SMTT(30) DEF Response, Responses, Codes
<1> HIDE DEF x
<1>6. pc'[r] = next
  BY <1>1, <1>2 DEF Typed, TypeOK
<1>7. sent' \in [Request -> Seq(Responses)] /\ (sent'[r] = <<>> \/ sent'[r] = <<x>>)
  <2>1. sent \in [Request -> Seq(Responses)] /\ sent[r] = <<>>
    BY <1>1, <1>3 DEF Typed, TypeOK, Bare
  <2>2. Append(sent[r], x) = <<x>> /\ <<x>> \in Seq(Responses)
    BY <1>5, <2>1, SMTT(30)
  <2> QED BY <1>2, <2>1, <2>2 DEF Deliver
<1>8. Typed'
  <2>1. pc' \in [Request -> {"idle", "before", "lookup", "soa", "fetch", "respond",
                              "fallback", "after", "done"}]
    BY SMTT(30), <1>1, <1>2, <1>4 DEF Typed, TypeOK
  <2> QED BY <1>1, <1>2, <1>7, <2>1, SMTT(30) DEF Typed, TypeOK, Entries
<1>9. outcome'[r].code = code /\ outcome'[r].answers = 0 /\ outcome'[r].bytes = {}
  BY <1>2, <1>3, Zenon DEF Bare
<1>10. Answering(r)'
  <2>1. next = "after" => late'[r] = "none"
    BY <1>1, <1>2, <1>4 DEF Answering
  <2>2. Replied(r)'
    BY <1>5, <1>7, <1>9, SMTT(30) DEF Replied, Told
  <2> QED BY <1>4, <1>6, <2>1, <2>2, SMTT(30) DEF Answering, Unanswered
<1>11. Looking(r)'
  BY <1>1, <1>2, <1>4, <1>6, <1>9 DEF Looking
<1> QED BY <1>8, <1>10, <1>11 DEF Local

\* The hooks after the response, and the end of the task.
LEMMA HooksAfter ==
    ASSUME HandlerInv, NEW r \in Request, UNCHANGED chain,
           AfterRequest(r) \/ FinishHandled(r) \/ Drop(r)
    PROVE  Typed' /\ Local(r)'
<1> USE DEF shared, work, history
<1>1. Typed /\ Answering(r) /\ Looking(r)
  BY SMTT(30) DEF HandlerInv, Local
<1>2. CASE AfterRequest(r)
  <2>1. inFlight' \in Int
    <3>1. inFlight \in Int
      BY <1>1, CursorTypes
    <3>2. inFlight' = inFlight \/ inFlight' = inFlight - 1
      BY <1>2 DEF AfterRequest, CountOut
    <3> QED BY <3>1, <3>2
  <2>2. hook' \in [Request -> 0 .. Len(Middlewares) + 1]
    <3>1. Len(Middlewares) \in Nat /\ hook[r] \in 1 .. Len(Middlewares)
      BY <1>1, <1>2, Lengths DEF AfterRequest, CountOut, Hooks
    <3>2. hook[r] + 1 \in 0 .. Len(Middlewares) + 1
      BY <3>1
    <3>3. hook' = [hook EXCEPT ![r] = hook[r] + 1]
      BY <1>2, SMTT(30) DEF AfterRequest, CountOut
    <3> QED BY <1>1, <3>2, <3>3, CursorTypes
  <2>3. Typed'
    BY SMTT(30), <1>1, <1>2, <2>1, <2>2 DEF Typed, TypeOK, AfterRequest, CountOut, Entries
  <2> QED BY <1>2, <2>3, OthersStay DEF HandlerInv, AfterRequest, CountOut
<1>3. CASE FinishHandled(r)
  <2>1. pc' = [pc EXCEPT ![r] = "done"] /\ pc[r] = "after"
        /\ UNCHANGED <<question, hook, entry, result, soa, late, outcome, sent, consulted, failed,
                       apexSoa, cursor, inFlight>>
    BY <1>3, ZenonT(60) DEF FinishHandled
  <2>2. Typed' /\ pc'[r] = "done"
    BY <1>1, <2>1, SMTT(30) DEF Typed, TypeOK, Entries
  <2>3. Answering(r)'
    BY <1>1, <2>1, <2>2, SMTT(30) DEF Answering, Unanswered, Replied, Told
  <2>4. Looking(r)'
    BY <1>1, <2>1, <2>2 DEF Looking, Hidden
  <2> QED BY <2>2, <2>3, <2>4 DEF Local
<1>4. CASE Drop(r)
  <2>1. Skip \in Lookups /\ NoOutcome \in Outcomes /\ NoQuestion \in Questions
    BY HandlerAssumption, SMTT(30) DEF Lookups, Skip, NoOutcome, Outcomes, Codes, Questions
  <2>2. outcome' \in [Request -> Outcomes] /\ result' \in [Request -> Lookups]
        /\ question' \in [Request -> Questions]
    BY <1>1, <1>4, <2>1 DEF Typed, TypeOK, Drop
  <2>3. \A y \in Request : outcome'[y].code \in Codes \cup {"none"} /\ outcome'[y].bytes \subseteq Responses
    BY <2>2 DEF Outcomes
  <2>4. hook' \in [Request -> 0 .. Len(Middlewares) + 1] /\ entry' \in [Request -> 0 .. Len(chain) + 1]
    <3>1. Len(Middlewares) \in Nat /\ Len(chain) \in Nat
      BY <1>1, Lengths
    <3>2. 0 \in 0 .. Len(Middlewares) + 1 /\ 0 \in 0 .. Len(chain) + 1
      BY <3>1
    <3>3. hook' = [hook EXCEPT ![r] = 0] /\ entry' = [entry EXCEPT ![r] = 0] /\ chain' = chain
      BY <1>4 DEF Drop
    <3> QED BY <1>1, <3>2, <3>3, CursorTypes
  <2>5. sent' \in [Request -> Seq(Responses)] /\ sent'[r] = <<>>
    <3>1. sent \in [Request -> Seq(Responses)] /\ sent' = [sent EXCEPT ![r] = <<>>]
      BY <1>1, <1>4, SentType DEF Drop
    <3>2. <<>> \in Seq(Responses)
      BY SMTT(30)
    <3> QED BY <3>1, <3>2
  <2>6. Typed'
    BY <1>1, <1>4, <2>2, <2>3, <2>4, <2>5, SMTT(30) DEF Typed, TypeOK, Drop, Entries
  <2>7. /\ pc'[r] = "idle" /\ result'[r] = Skip /\ late'[r] = "none" /\ outcome'[r] = NoOutcome
        /\ consulted'[r] = {} /\ failed'[r] = {}
    BY <1>1, <1>4, SMTT(30) DEF Typed, TypeOK, Drop
  <2>8. Answering(r)'
    BY SMTT(30), <2>5, <2>7 DEF Answering, Unanswered
  <2>9. Looking(r)'
    BY <2>7, Zenon DEF Looking, Hidden
  <2> QED BY <2>6, <2>8, <2>9, SMTT(30) DEF Local
<1> QED BY <1>2, <1>3, <1>4

-----------------------------------------------------------------------------
(* Theorems *)

\* Every step keeps the invariant: its own request by the lemmas above, the others
\* because it does not touch them.
LEMMA HandlerStep == HandlerInv /\ [Next]_vars => HandlerInv'
<1> SUFFICES ASSUME HandlerInv, [Next]_vars PROVE HandlerInv'
  OBVIOUS
<1>1. ASSUME NEW r \in Request, Step(r), UNCHANGED chain PROVE HandlerInv'
  <2>1. Typed' /\ Local(r)'
    BY <1>1, HooksBefore, ChainSteps, SoaSteps, PositiveStep, NegativeSteps, LastResponse, HooksAfter, SMTT(30)
       DEF Step
  <2>2. ASSUME NEW x \in Request, x # r PROVE Local(x)'
    <3>1. Same(x) /\ Local(x)
      BY <1>1, <2>2, OneRequestMoves DEF HandlerInv
    <3> QED BY <1>1, <3>1, OthersStay DEF Same
  <2> QED BY <2>1, <2>2 DEF HandlerInv
<1>2. CASE Next
  BY <1>1, <1>2 DEF Next, Step
<1>3. CASE UNCHANGED vars
  <2>1. /\ UNCHANGED <<chain, apexSoa, cursor, inFlight, pc, question, hook, entry, result, soa, late,
                       outcome, sent, consulted, failed>>
    BY <1>3, SMTT(30) DEF vars, shared, work, history
  <2>2. Typed'
    BY <2>1, SMTT(30) DEF HandlerInv, Typed, TypeOK, Entries
  <2>3. \A x \in Request : Local(x)'
    BY <2>1, OthersStay DEF HandlerInv
  <2> QED BY <2>2, <2>3 DEF HandlerInv
<1> QED BY <1>2, <1>3

\* The invariant holds throughout.
LEMMA HandlerAlways == Spec => []HandlerInv
BY HandlerInit, HandlerStep, PTL DEF Spec

\* A request is sent nothing, or one response that its outcome tells of.
LEMMA SentIsTold ==
    ASSUME HandlerInv, NEW r \in Request
    PROVE  sent[r] = <<>> \/ \E x \in Responses : sent[r] = <<x>> /\ Told(r, x)
<1>1. Answering(r)
  BY SMTT(30) DEF HandlerInv, Local
<1>2. pc[r] \in Unanswered \cup {"fallback", "after", "done"}
  BY SMTT(30) DEF HandlerInv, Typed, TypeOK, Unanswered
<1>3. CASE pc[r] \in Unanswered
  BY <1>1, <1>3 DEF Answering
<1>4. CASE pc[r] = "fallback"
  BY <1>1, <1>4 DEF Answering, Bare
<1>5. CASE pc[r] \in {"after", "done"}
  BY <1>1, <1>5 DEF Answering, Replied
<1> QED BY <1>2, <1>3, <1>4, <1>5

\* Sequences of no element and of one.
LEMMA NothingIsShort ==
    ASSUME NEW s, s = <<>>
    PROVE  Len(s) = 0
OBVIOUS

\* A sequence of one element is as long as that.
LEMMA OneIsOne ==
    ASSUME NEW s, NEW x, s = <<x>>
    PROVE  Len(s) = 1 /\ s[1] = x
OBVIOUS

\* The state of the handler keeps its types, the rotation cursor its modulus, for any
\* requests, chain and middlewares.
THEOREM HandlerTypeCorrect == Spec => []TypeOK
<1>1. HandlerInv => TypeOK
  BY DEF HandlerInv, Typed
<1> QED BY <1>1, HandlerAlways, PTL

\* handle_request answers a request at most once, and what it reports to the hooks is
\* what the client was sent, for any requests, chain and middlewares.
THEOREM OutcomeMatchesTheReply == Spec => []OutcomeIsWhatWasSent
<1>1. HandlerInv => OutcomeIsWhatWasSent
  <2> SUFFICES ASSUME HandlerInv, NEW r \in Request
               PROVE  /\ Len(sent[r]) <= 1
                      /\ sent[r] # <<>> /\ outcome[r].code # "none" =>
                           /\ sent[r][1].code = outcome[r].code
                           /\ sent[r][1].records = outcome[r].answers
    BY DEF OutcomeIsWhatWasSent
  <2>2. CASE sent[r] = <<>>
    <3>1. Len(sent[r]) = 0
      BY <2>2, NothingIsShort
    <3> QED BY <2>2, <3>1
  <2>3. CASE sent[r] # <<>>
    <3>1. PICK x \in Responses : sent[r] = <<x>> /\ Told(r, x)
      BY <2>3, SentIsTold
    <3>2. Len(sent[r]) = 1 /\ sent[r][1] = x
      BY <3>1, OneIsOne
    <3>3. sent[r][1].code = outcome[r].code /\ sent[r][1].records = outcome[r].answers
      BY <3>1, <3>2 DEF Told
    <3>4. Len(sent[r]) <= 1
      BY <3>2
    <3> QED BY <3>3, <3>4
  <2> QED BY <2>2, <2>3
<1> QED BY <1>1, HandlerAlways, PTL

\* The bytes serialize_for_xdp hands to the cache are the response this client was
\* sent, rotation included, for any requests, chain and middlewares.
THEOREM CachedBytesAreTheReply == Spec => []BytesAreTheResponse
<1>1. HandlerInv => BytesAreTheResponse
  <2> SUFFICES ASSUME HandlerInv, NEW r \in Request, NEW b \in outcome[r].bytes
               PROVE  sent[r] \in {<<>>, <<b>>}
    BY DEF BytesAreTheResponse
  <2>1. ASSUME NEW x \in Responses, sent[r] = <<x>>, Told(r, x) PROVE sent[r] = <<b>>
    <3>1. b = x
      BY <2>1, SMTT(30) DEF Told
    <3> QED BY <2>1, <3>1
  <2> QED BY <2>1, SentIsTold, Zenon
<1> QED BY <1>1, HandlerAlways, PTL

\* A lookup whose backend failed never reaches the kernel cache, but for a native
\* resolver's failure, which the chain skips, for any chain.
THEOREM FailuresStayOut == Spec => []FailureIsNeverAdmitted
<1>1. HandlerInv => FailureIsNeverAdmitted
  BY SMTT(30) DEF HandlerInv, Local, Looking, Hidden, FailureIsNeverAdmitted
<1> QED BY <1>1, HandlerAlways, PTL

\* No name of the Nacos zone is asked of an entry behind the authority that owns it,
\* for any chain.
THEOREM ZoneStaysInside == Spec => []ZoneNeverLeaks
<1>1. HandlerInv => ZoneNeverLeaks
  BY DEF HandlerInv, Local, Looking, ZoneNeverLeaks
<1> QED BY <1>1, HandlerAlways, PTL

\* Every authoritative answer without records carries the apex SOA, whichever of the
\* requests that race for the cell fills it.
THEOREM NegativesAlwaysCarrySoa == Spec => []NegativesCarrySoa
<1>1. HandlerInv => NegativesCarrySoa
  <2> SUFFICES ASSUME HandlerInv, NEW r \in Request, NEW i \in 1 .. Len(sent[r]),
                      sent[r][i].aa, sent[r][i].records = 0
               PROVE  sent[r][i].soa
    BY DEF NegativesCarrySoa
  <2>1. sent[r] # <<>>
    BY NothingIsShort
  <2>2. PICK x \in Responses : sent[r] = <<x>> /\ Told(r, x)
    BY <2>1, SentIsTold
  <2>3. i = 1 /\ sent[r][i] = x
    BY <2>2, OneIsOne
  <2> QED BY <2>2, <2>3 DEF Told
<1> QED BY <1>1, HandlerAlways, PTL

-----------------------------------------------------------------------------
(* The in-flight gauge *)

\* The metrics have counted request r in, and not yet out.
InGauge(r) ==
    \E m \in Hooks :
        /\ Middlewares[m] = "metrics"
        /\ \/ pc[r] = "before" /\ hook[r] > m
           \/ pc[r] \in {"lookup", "soa", "fetch", "respond", "fallback"}
           \/ pc[r] = "after" /\ hook[r] <= m

\* The hooks start with the first.
Hooked(r) ==
    /\ pc[r] \in {"before", "after"} => hook[r] >= 1
    /\ pc[r] = "fallback" => hook[r] = 1

GaugeInv ==
    /\ inFlight = Cardinality({r \in Request : InGauge(r)})
    /\ \A r \in Request : Hooked(r)

\* What one step does to the gauge: the other requests stay where they are, and the
\* gauge moves exactly when r passes the metrics.
Gauged(r) ==
    /\ \A x \in Request : x # r => pc'[x] = pc[x] /\ hook'[x] = hook[x]
    /\ Hooked(r)'
    /\ \/ (InGauge(r)' <=> InGauge(r)) /\ inFlight' = inFlight
       \/ ~InGauge(r) /\ InGauge(r)' /\ inFlight' = inFlight + 1
       \/ InGauge(r) /\ ~InGauge(r)' /\ inFlight' = inFlight - 1

\* The metrics, where they are configured.
LEMMA OneMetrics ==
    /\ Len(Middlewares) \in Nat /\ Hooks = 1 .. Len(Middlewares)
    /\ \A i, j \in Hooks : Middlewares[i] = "metrics" /\ Middlewares[j] \in {"metrics", "guard"} => i <= j
    /\ \A i, j \in Hooks : Middlewares[i] = "metrics" /\ Middlewares[j] = "guard" => i < j
    /\ \A i, j \in Hooks : Middlewares[i] = "metrics" /\ Middlewares[j] = "metrics" => i = j
<1>1. Len(Middlewares) \in Nat /\ Hooks = 1 .. Len(Middlewares)
  BY HandlerAssumption DEF Hooks
<1>2. \A i, j \in Hooks : Middlewares[i] = "metrics" /\ Middlewares[j] \in {"metrics", "guard"} => i <= j
  BY <1>1, MetricsAssumption
<1>3. \A i, j \in Hooks : Middlewares[i] = "metrics" /\ Middlewares[j] = "guard" => i < j
  <2> SUFFICES ASSUME NEW i \in Hooks, NEW j \in Hooks, Middlewares[i] = "metrics", Middlewares[j] = "guard"
               PROVE  i < j
    OBVIOUS
  <2>1. i # j /\ i <= j
    BY <1>2
  <2> QED BY <1>1, <2>1
<1>4. \A i, j \in Hooks : Middlewares[i] = "metrics" /\ Middlewares[j] = "metrics" => i = j
  <2> SUFFICES ASSUME NEW i \in Hooks, NEW j \in Hooks, Middlewares[i] = "metrics", Middlewares[j] = "metrics"
               PROVE  i = j
    OBVIOUS
  <2>1. i <= j /\ j <= i
    BY <1>2
  <2> QED BY <1>1, <2>1
<1> QED BY <1>1, <1>2, <1>3, <1>4

\* A step that gives request r a new place and leaves the gauge alone.
LEMMA Uncounted ==
    ASSUME Typed, NEW r \in Request, NEW p, NEW h \in Int, Hooked(r),
           pc' = [pc EXCEPT ![r] = p], hook' = [hook EXCEPT ![r] = h], inFlight' = inFlight,
           \/ pc[r] = "idle" /\ p = "before" /\ h = 1
           \/ pc[r] = "before" /\ hook[r] \in Hooks /\ Middlewares[hook[r]] = "guard" /\ p = "after" /\ h = 1
           \/ pc[r] = "before" /\ hook[r] \notin Hooks /\ p = "after" /\ h = 1
           \/ pc[r] = "before" /\ hook[r] \notin Hooks /\ p = "lookup" /\ h = hook[r]
           \/ /\ pc[r] \in {"lookup", "soa", "fetch", "respond"} /\ h = hook[r]
              /\ p \in {"lookup", "soa", "fetch", "respond"}
           \/ pc[r] = "respond" /\ p \in {"fallback", "after"} /\ h = 1
           \/ pc[r] = "fallback" /\ p = "after" /\ h = hook[r]
           \/ pc[r] = "after" /\ hook[r] \notin Hooks /\ p = "done" /\ h = hook[r]
           \/ pc[r] = "done" /\ p = "idle"
    PROVE  Gauged(r)
<1>1. /\ pc'[r] = p /\ hook'[r] = h /\ \A x \in Request : x # r => pc'[x] = pc[x] /\ hook'[x] = hook[x]
  BY SMTT(30) DEF Typed, TypeOK
<1>2. hook[r] \in Int /\ hook[r] <= Len(Middlewares) + 1 /\ hook[r] >= 0
  BY OneMetrics DEF Typed, TypeOK
<1>3. Hooked(r)'
  BY <1>1 DEF Hooked
<1>4. ASSUME NEW m \in Hooks, Middlewares[m] = "metrics"
      PROVE  (\/ pc[r] = "before" /\ hook[r] > m
              \/ pc[r] \in {"lookup", "soa", "fetch", "respond", "fallback"}
              \/ pc[r] = "after" /\ hook[r] <= m)
         <=> (\/ p = "before" /\ h > m
              \/ p \in {"lookup", "soa", "fetch", "respond", "fallback"}
              \/ p = "after" /\ h <= m)
  <2>1. m \in Nat /\ m >= 1 /\ m <= Len(Middlewares) /\ Len(Middlewares) \in Nat
    BY OneMetrics
  <2>2. hook[r] \in Hooks /\ Middlewares[hook[r]] = "guard" => hook[r] > m
    BY <1>2, <1>4, <2>1, OneMetrics, SMTT(30)
  <2>3. pc[r] \in {"before", "after"} /\ hook[r] \notin Hooks => hook[r] > m
    BY <1>2, <2>1, OneMetrics DEF Hooked
  <2>4. pc[r] = "fallback" => hook[r] <= m
    BY <2>1 DEF Hooked
  <2> QED BY <1>2, <2>1, <2>2, <2>3, <2>4, SMTT(30)
<1>5. InGauge(r)' <=> InGauge(r)
  BY <1>1, <1>4, Zenon DEF InGauge
<1> QED BY <1>1, <1>3, <1>5, SMTT(30) DEF Gauged

\* The metrics' own hooks count a request in and out; the other hooks leave it where it
\* was.
LEMMA Counting ==
    ASSUME Typed, NEW r \in Request, Hooked(r), hook[r] \in Hooks, UNCHANGED pc,
           hook' = [hook EXCEPT ![r] = hook[r] + 1],
           \/ pc[r] = "before" /\ CountIn(r)
           \/ pc[r] = "after" /\ CountOut(r)
    PROVE  Gauged(r)
<1> DEFINE h == hook[r]
<1>1. /\ hook'[r] = h + 1 /\ \A x \in Request : x # r => pc'[x] = pc[x] /\ hook'[x] = hook[x]
  BY DEF Typed, TypeOK
<1>2. h \in Nat /\ h >= 1
  BY OneMetrics
<1>3. Hooked(r)'
  BY <1>1, <1>2 DEF Hooked
<1> HIDE DEF h
<1>4. CASE Middlewares[h] = "metrics"
  <2>1. \A m \in Hooks : Middlewares[m] = "metrics" => m = h
    BY <1>4, OneMetrics DEF h
  <2>2. h \in Hooks /\ ~(h > h) /\ h + 1 > h /\ h <= h /\ ~(h + 1 <= h)
    BY <1>2 DEF h
  <2>3. pc[r] = "before" => ~InGauge(r) /\ InGauge(r)'
    BY <1>1, <1>4, <2>1, <2>2, Zenon DEF InGauge, h
  <2>4. pc[r] = "after" => InGauge(r) /\ ~InGauge(r)'
    BY <1>1, <1>4, <2>1, <2>2, Zenon DEF InGauge, h
  <2> QED BY <1>1, <1>3, <1>4, <2>3, <2>4, SMTT(30) DEF Gauged, CountIn, CountOut, h
<1>5. CASE Middlewares[h] # "metrics"
  <2>1. \A m \in Hooks : Middlewares[m] = "metrics" => (h > m <=> h + 1 > m) /\ (h <= m <=> h + 1 <= m)
    <3> SUFFICES ASSUME NEW m \in Hooks, Middlewares[m] = "metrics"
                 PROVE  (h > m <=> h + 1 > m) /\ (h <= m <=> h + 1 <= m)
      OBVIOUS
    <3>1. m # h /\ m \in Nat
      BY <1>5, OneMetrics
    <3> QED BY <1>2, <3>1
  <2>2. InGauge(r)' <=> InGauge(r)
    BY <1>1, <2>1, Zenon DEF InGauge, h
  <2> QED BY <1>1, <1>3, <1>5, <2>2 DEF Gauged, CountIn, CountOut, h
<1> QED BY <1>4, <1>5, SMTT(30)

\* Every step moves the gauge as it moves its request.
LEMMA GaugedStep ==
    ASSUME Typed, NEW r \in Request, Hooked(r), Step(r)
    PROVE  Gauged(r)
<1> USE DEF shared, work, history
<1>1. hook[r] \in Int /\ 1 \in Int /\ 0 \in Int /\ pc \in [Request -> {"idle", "before", "lookup", "soa",
         "fetch", "respond", "fallback", "after", "done"}] /\ hook = [hook EXCEPT ![r] = hook[r]]
  BY OneMetrics DEF Typed, TypeOK
<1>2. CASE \E q \in Questions : Arrive(r, q)
  BY <1>1, <1>2, Uncounted, Zenon DEF Arrive
<1>3. CASE BeforeRequest(r)
  <2>1. CASE hook' = [hook EXCEPT ![r] = hook[r] + 1] /\ UNCHANGED pc
    BY <1>3, <2>1, Counting, Zenon DEF BeforeRequest
  <2>2. CASE Middlewares[hook[r]] = "guard" /\ FinishThenSend(r, "Refused")
    BY <1>1, <1>3, <2>2, Uncounted, Zenon DEF BeforeRequest, CountIn, FinishThenSend
  <2> QED BY <1>3, <2>1, <2>2 DEF BeforeRequest
<1>4. CASE RequestInfo(r)
  BY <1>1, <1>4, Uncounted, SMTT(30) DEF RequestInfo, FinishThenSend
<1>5. ASSUME NEW y, NEW f, pc[r] = "lookup", Looked(r, y, f) PROVE Gauged(r)
  <2>1. CASE y.flow = "Skip"
    <3>1. pc' = [pc EXCEPT ![r] = "lookup"]
      BY <1>1, <1>5, <2>1 DEF Looked
    <3> QED BY <1>1, <1>5, <3>1, Uncounted, Zenon DEF Looked
  <2>2. CASE y.flow # "Skip"
    <3>1. \E p \in {"soa", "respond"} : pc' = [pc EXCEPT ![r] = p]
      BY <1>5, <2>2, SMTT(30) DEF Looked
    <3> QED BY <1>1, <1>5, <3>1, Uncounted, Zenon DEF Looked
  <2> QED BY <2>1, <2>2, SMTT(30)
<1>6. CASE LookupNacos(r) \/ LookupUpstream(r)
  BY <1>5, <1>6 DEF LookupNacos, LookupUpstream
<1>7. CASE ChainExhausted(r) \/ FetchApexSoa(r)
  BY <1>1, <1>7, Uncounted, SMTT(30) DEF ChainExhausted, FetchApexSoa
<1>8. CASE ReadApexSoa(r)
  <2>1. \E p \in {"fetch", "respond"} : pc' = [pc EXCEPT ![r] = p]
    BY <1>8, Zenon DEF ReadApexSoa
  <2> QED BY <1>1, <1>8, <2>1, Uncounted, Zenon DEF ReadApexSoa
<1>9. CASE RespondOk(r) \/ RespondErr(r) \/ RespondSkip(r)
  <2>1. /\ pc[r] = "respond" /\ inFlight' = inFlight
        /\ \E p \in {"fallback", "after"} : pc' = [pc EXCEPT ![r] = p] /\ hook' = [hook EXCEPT ![r] = 1]
    BY <1>9, Zenon DEF RespondOk, RespondErr, RespondSkip, Report
  <2> QED BY <1>1, <2>1, Uncounted, Zenon
<1>10. CASE SendFallback(r) \/ SendLate(r) \/ FinishHandled(r)
  BY <1>1, <1>10, Uncounted, Zenon DEF SendFallback, SendLate, FinishHandled
<1>11. CASE AfterRequest(r)
  BY <1>11, Counting, Zenon DEF AfterRequest
<1>12. CASE Drop(r)
  BY <1>1, <1>12, Uncounted, Zenon DEF Drop
<1> QED BY <1>2, <1>3, <1>4, <1>6, <1>7, <1>8, <1>9, <1>10, <1>11, <1>12, SMTT(30) DEF Step

\* One request more or less in the gauge is one more or less in the count.
LEMMA GaugeStep == HandlerInv /\ GaugeInv /\ [Next]_vars => GaugeInv'
<1> SUFFICES ASSUME HandlerInv, GaugeInv, [Next]_vars PROVE GaugeInv'
  OBVIOUS
<1> DEFINE In == {x \in Request : InGauge(x)}
<1>1. Typed /\ inFlight = Cardinality(In) /\ IsFiniteSet(In) /\ Cardinality(In) \in Nat
  <2>1. IsFiniteSet(In)
    BY MetricsAssumption, FS_Subset
  <2> QED BY <2>1, FS_CardinalityType DEF HandlerInv, GaugeInv
<1>2. ASSUME NEW r \in Request, Gauged(r) PROVE GaugeInv'
  <2>1. \A x \in Request : x # r => (InGauge(x)' <=> InGauge(x)) /\ Hooked(x)'
    BY <1>2 DEF Gauged, GaugeInv, InGauge, Hooked
  <2>2. \A x \in Request : Hooked(x)'
    BY <1>2, <2>1 DEF Gauged
  <2>3. CASE (InGauge(r)' <=> InGauge(r)) /\ inFlight' = inFlight
    <3>1. In' = In
      BY <2>1, <2>3
    <3> QED BY <1>1, <2>2, <2>3, <3>1 DEF GaugeInv
  <2>4. CASE ~InGauge(r) /\ InGauge(r)' /\ inFlight' = inFlight + 1
    <3>1. In' = In \cup {r} /\ r \notin In
      BY <2>1, <2>4
    <3>2. Cardinality(In \cup {r}) = Cardinality(In) + 1
      BY <1>1, <3>1, FS_AddElement, SMTT(30)
    <3> QED BY <1>1, <2>2, <2>4, <3>1, <3>2, Zenon DEF GaugeInv
  <2>5. CASE InGauge(r) /\ ~InGauge(r)' /\ inFlight' = inFlight - 1
    <3>1. In' = In \ {r} /\ r \in In
      BY <2>1, <2>5
    <3>2. Cardinality(In \ {r}) = Cardinality(In) - 1
      BY <1>1, <3>1, FS_RemoveElement, SMTT(30)
    <3> QED BY <1>1, <2>2, <2>5, <3>1, <3>2, Zenon DEF GaugeInv
  <2> QED BY <1>2, <2>3, <2>4, <2>5, SMTT(30) DEF Gauged
<1>3. CASE Next
  <2>1. PICK r \in Request : Step(r)
    BY <1>3, SMTT(30) DEF Next, Step
  <2> QED BY <1>1, <1>2, <2>1, GaugedStep DEF GaugeInv
<1>4. CASE UNCHANGED vars
  <2>1. UNCHANGED <<inFlight, pc, hook>>
    BY <1>4 DEF vars, shared
  <2> QED BY <2>1 DEF GaugeInv, InGauge, Hooked
<1> QED BY <1>3, <1>4

\* DnsMetrics' gauge counts the requests under way, whatever their interleaving and
\* however they end, for any finite number of requests: it is never negative, never
\* above their number, and zero when none is under way.
THEOREM GaugeCountsRequests == Spec => []InFlightCountsRequests
<1>1. Init => GaugeInv
  <2> SUFFICES ASSUME Init PROVE GaugeInv
    OBVIOUS
  <2>1. \A r \in Request : pc[r] = "idle"
    BY SMTT(30) DEF Init
  <2>2. {r \in Request : InGauge(r)} = {} /\ \A r \in Request : Hooked(r)
    BY <2>1, Zenon DEF InGauge, Hooked
  <2> QED BY <2>2, FS_EmptySet, Zenon DEF Init, GaugeInv
<1>2. GaugeInv => InFlightCountsRequests
  <2> SUFFICES ASSUME GaugeInv PROVE InFlightCountsRequests
    OBVIOUS
  <2> DEFINE In == {r \in Request : InGauge(r)}
  <2>1. In \subseteq Request
    OBVIOUS
  <2>2. IsFiniteSet(In) /\ Cardinality(In) <= Cardinality(Request)
    BY <2>1, MetricsAssumption, FS_Subset
  <2>3. Cardinality(In) \in Nat /\ Cardinality(Request) \in Nat
    BY <2>2, MetricsAssumption, FS_CardinalityType
  <2>4. (\A r \in Request : pc[r] = "idle") => In = {}
    BY DEF InGauge
  <2>5. In = {} => Cardinality(In) = 0
    BY FS_EmptySet
  <2> QED BY <2>2, <2>3, <2>4, <2>5 DEF GaugeInv, InFlightCountsRequests
<1> QED BY <1>1, <1>2, HandlerAlways, GaugeStep, PTL DEF Spec
=============================================================================
