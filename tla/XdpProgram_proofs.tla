-------------------------- MODULE XdpProgram_proofs --------------------------
(***************************************************************************)
(* What the eBPF program sends, passes on and drops, for every packet and  *)
(* every moment at which the kernel recycles the map element under it; and *)
(* the checksum of the headers it sends.                                   *)
(***************************************************************************)
EXTENDS XdpProgram, XdpQuestion_proofs

-----------------------------------------------------------------------------
(* The program's invariant *)

Reading == {"expiry", "flags", "length", "resize"}
Writing == {"write", "copy", "finalize"}

\* Nothing is decided before the end, and nothing is written before the resize.
Untouched ==
    /\ stage \in {"headers", "question", "done"} \cup Reading \cup Writing
    /\ stage # "done" => verdict = <<"none", "none">>
    /\ arrived \in Nat /\ arrived >= HeaderLen
    /\ stage \in {"headers", "question"} \cup Reading => payload = Query(arrived)

\* The question is in the frame, and its length is the parser's.
Asked ==
    /\ status # "returned" => ParserInv
    /\ stage \in {"headers", "question"} => status # "returned" /\ arrived = HeaderLen + Len(frame)
    /\ stage \in Reading \cup Writing =>
            /\ plan.asked \in Nat /\ HeaderLen + plan.asked <= arrived
            /\ plan.asked <= MaxName + FieldsLen

\* What was read of an element is what was found, while the element is the one found.
Read ==
    /\ stage \in Reading \cup Writing => found \in Elements /\ elem \in {found} \cup Recycled
    /\ stage \in (Reading \ {"expiry"}) \cup Writing => (elem = found => ~found.expired)
    /\ stage \in {"length", "resize"} \cup Writing =>
            /\ plan \in [asked : Nat, negative : BOOLEAN, len : Nat]
            /\ elem = found => plan.negative = found.negative
            /\ plan.negative => plan.len = HeaderLen + plan.asked
    /\ stage \in {"length", "copy"} => ~plan.negative
    /\ stage \in {"resize"} \cup Writing =>
            plan.negative \/ (plan.len \in MinPositive .. MaxDns /\ (elem = found => plan.len = found.len))

\* Where the reply's bytes come from.
Symbols == {"query", "zero", "answer", "another", "nxdomain"} \X Nat

\* The resized frame holds the reply.
Fitted ==
    /\ claim \in 0 .. MaxClaim /\ payload \in Seq(Symbols)
    /\ plan.len <= Len(payload) /\ Len(payload) = arrived + plan.len - claim

\* The bytes up to the n-th are the element's.
CopiedTo(n) ==
    \A i \in 1 .. n : payload[i][1] # "query" /\ (elem = found => payload[i] = <<"answer", i>>)

\* What goes out: the query's question under an NXDOMAIN header, or the element's bytes
\* under the query's transaction id.
Replied ==
    /\ payload[1] = <<"query", 1>>
    /\ plan.negative =>
            \A i \in 1 .. plan.len :
                payload[i] = IF i = 2 THEN <<"nxdomain", 2>> ELSE IF i = 4 THEN <<"zero", 0>> ELSE <<"query", i>>
    /\ ~plan.negative =>
            \A i \in 2 .. plan.len :
                payload[i][1] # "query" /\ (elem = found => payload[i] = <<"answer", i>>)

Written ==
    /\ stage \in Writing => Fitted
    /\ stage = "write" => \A i \in 1 .. Len(payload) : i <= arrived => payload[i] = <<"query", i>>
    /\ stage = "copy" => /\ next \in Nat /\ \E k \in Nat : plan.len = next + k * Chunk
                         /\ CopiedTo(next)
    /\ stage = "finalize" => Replied

ProgramProperties ==
    PassedIsTheQuery /\ ReplyIsFramed /\ ReplyIsTheEntry /\ DropOnlyTruncated

ProgramInv == Untouched /\ Asked /\ Read /\ Written /\ ProgramProperties

\* What is known of the constants.
LEMMA Constants ==
    /\ HeaderLen = 4 /\ FieldsLen \in Nat /\ FieldsLen >= 1 /\ MaxName \in Nat
    /\ MinPositive = 5 + FieldsLen /\ MinPositive \in Nat
    /\ Chunk \in Nat /\ Chunk >= 1 /\ Chunk <= MinPositive /\ MaxDns \in Nat /\ MinPositive < MaxDns
    /\ MaxClaim \in Nat /\ FrontLen \in Nat /\ FrontLen >= 1
<1>1. FieldsLen \in Nat /\ FieldsLen >= 1 /\ MaxName \in Nat
  BY QuestionAssumption, LenProperties DEF FieldsLen
<1> QED BY <1>1, ProgramAssumption DEF HeaderLen, MinPositive

\* The program's steps after the question leave the parser's variables as they are.
LEMMA ParserRests == Asked /\ UNCHANGED vars => (status # "returned" => ParserInv)'
<1>1. ParserInv /\ UNCHANGED vars => ParserInv'
  BY ParserStep
<1> QED BY <1>1 DEF Asked, vars

\* Until the program returns there is nothing to say about a verdict.
LEMMA Undecided == verdict' = <<"none", "none">> => ProgramProperties'
BY DEF ProgramProperties, PassedIsTheQuery, ReplyIsFramed, ReplyIsTheEntry, DropOnlyTruncated

\* Passing the query on is right as long as nothing is written.
LEMMA PassedOn ==
    ASSUME Return("pass", "none") \/ Return("pass", "miss") \/ Return("pass", "expired"),
           payload = Query(arrived), UNCHANGED <<payload, arrived>>, Untouched,
           (status # "returned" => ParserInv)'
    PROVE  ProgramInv'
<1>1. stage' = "done" /\ verdict'[1] = "pass" /\ payload' = Query(arrived') /\ arrived' = arrived
  BY DEF Return, Query
<1>2. Untouched' /\ Asked' /\ Read' /\ Written'
  BY <1>1 DEF Untouched, Asked, Read, Written, Reading, Writing
<1>3. ProgramProperties'
  BY <1>1 DEF ProgramProperties, PassedIsTheQuery, ReplyIsFramed, ReplyIsTheEntry, DropOnlyTruncated
<1> QED BY <1>2, <1>3 DEF ProgramInv

\* The initial states.
LEMMA ProgramStart == ProgramInit => ProgramInv
<1> SUFFICES ASSUME ProgramInit PROVE ProgramInv
  OBVIOUS
<1>1. ParserInv /\ status = "scan"
  BY ParserInit DEF ProgramInit, Init
<1>2. Len(frame) \in Nat
  BY <1>1, ParserFacts
<1>3. Untouched /\ Asked /\ Read /\ Written
  BY <1>1, <1>2, Constants DEF ProgramInit, Untouched, Asked, Read, Written, Reading, Writing
<1>4. ProgramProperties
  BY DEF ProgramInit, ProgramProperties, PassedIsTheQuery, ReplyIsFramed, ReplyIsTheEntry, DropOnlyTruncated
<1> QED BY <1>3, <1>4 DEF ProgramInv

\* The checks of the headers.
LEMMA ParseHeadersStep == ProgramInv /\ ParseHeaders => ProgramInv'
<1> SUFFICES ASSUME ProgramInv, ParseHeaders PROVE ProgramInv'
  OBVIOUS
<1>1. /\ stage = "headers" /\ UNCHANGED vars /\ UNCHANGED <<payload, arrived>>
      /\ (stage' = "question" /\ verdict' = verdict) \/ Return("pass", "none")
  BY DEF ParseHeaders
<1>2. Untouched /\ payload = Query(arrived) /\ verdict = <<"none", "none">> /\ status # "returned"
      /\ arrived = HeaderLen + Len(frame)
  BY <1>1 DEF ProgramInv, Untouched, Asked
<1>3. (status # "returned" => ParserInv)'
  BY <1>1, ParserRests DEF ProgramInv
<1>4. CASE Return("pass", "none")
  BY <1>1, <1>2, <1>3, <1>4, PassedOn
<1>5. CASE stage' = "question" /\ verdict' = verdict
  <2>1. Untouched' /\ Read' /\ Written'
    BY <1>1, <1>2, <1>5 DEF Untouched, Read, Written, Reading, Writing, Query
  <2>2. Asked'
    BY <1>1, <1>2, <1>3, <1>5 DEF Asked, Reading, Writing, vars
  <2> QED BY <1>2, <1>5, <2>1, <2>2, Undecided DEF ProgramInv
<1> QED BY <1>1, <1>4, <1>5

\* A step of the parser.
LEMMA ParseQuestionStep == ProgramInv /\ ParseQuestion => ProgramInv'
<1> SUFFICES ASSUME ProgramInv, ParseQuestion PROVE ProgramInv'
  OBVIOUS
<1>1. stage = "question" /\ Next /\ UNCHANGED <<stage, payload, arrived, claim, elem, found, plan, next, sent, verdict>>
  BY DEF ParseQuestion, program
<1>2. /\ Untouched /\ verdict = <<"none", "none">> /\ status # "returned" /\ ParserInv
      /\ arrived = HeaderLen + Len(frame)
  BY <1>1 DEF ProgramInv, Untouched, Asked
<1>3. ParserInv'
  BY <1>1, <1>2, ParserStep
<1>4. frame' = frame /\ status' # "returned"
  <2>1. status' # "returned"
    BY <1>3 DEF ParserInv
  <2>2. frame' = frame
    BY <1>1 DEF Next, TooLong, WholeWord, LastWord, EnterTail, TailByte, ReadType, Give
  <2> QED BY <2>1, <2>2
<1>5. Untouched' /\ Read' /\ Written'
  BY <1>1, <1>2 DEF Untouched, Read, Written, Reading, Writing, Query
<1>6. Asked'
  BY <1>1, <1>2, <1>3, <1>4 DEF Asked, Reading, Writing
<1> QED BY <1>1, <1>2, <1>5, <1>6, Undecided DEF ProgramInv

\* The parser gave up.
LEMMA NoQuestionStep == ProgramInv /\ NoQuestion => ProgramInv'
<1> SUFFICES ASSUME ProgramInv, NoQuestion PROVE ProgramInv'
  OBVIOUS
<1>1. stage = "question" /\ Return("pass", "none") /\ UNCHANGED vars /\ UNCHANGED <<payload, arrived>>
  BY DEF NoQuestion
<1>2. Untouched /\ payload = Query(arrived)
  BY <1>1 DEF ProgramInv, Untouched
<1>3. (status # "returned" => ParserInv)'
  BY <1>1, ParserRests DEF ProgramInv
<1> QED BY <1>1, <1>2, <1>3, PassedOn

\* The lookup takes the question's length with it.
LEMMA LookupStep == ProgramInv /\ Lookup => ProgramInv'
<1> SUFFICES ASSUME ProgramInv, Lookup PROVE ProgramInv'
  OBVIOUS
<1>1. stage = "question" /\ status = "some" /\ status' = "returned" /\ UNCHANGED <<payload, arrived>>
  BY DEF Lookup
<1>2. /\ Untouched /\ payload = Query(arrived) /\ verdict = <<"none", "none">> /\ ParserInv
      /\ arrived = HeaderLen + Len(frame)
  BY <1>1 DEF ProgramInv, Untouched, Asked
<1>3. (status # "returned" => ParserInv)'
  BY <1>1
<1>4. CASE Return("pass", "miss")
  BY <1>1, <1>2, <1>3, <1>4, PassedOn
<1>5. CASE \E e \in Elements :
             /\ elem' = e /\ found' = e
             /\ plan' = [asked |-> pos + FieldsLen]
             /\ stage' = "expiry"
             /\ UNCHANGED verdict
  <2>1. /\ found' \in Elements /\ elem' = found' /\ plan'.asked = pos + FieldsLen
        /\ stage' = "expiry" /\ verdict' = <<"none", "none">>
    BY <1>2, <1>5
  <2>2. pos \in Nat /\ pos <= MaxName /\ pos + FieldsLen <= Len(frame)
    <3>1. pos = Limit /\ Limit <= MaxName /\ Intact(name)
      BY <1>1, <1>2 DEF ParserInv, Progress
    <3>2. pos \in Nat /\ Len(frame) >= Limit + FieldsLen
      BY <1>2, <3>1, ParserFacts
    <3> QED BY <3>1, <3>2
  <2>3. Asked'
    <3>1. Len(frame) \in Nat
      BY <1>2, ParserFacts
    <3>2. plan'.asked \in Nat /\ HeaderLen + plan'.asked <= arrived' /\ plan'.asked <= MaxName + FieldsLen
      BY <1>1, <1>2, <2>1, <2>2, <3>1, Constants, SMTT(30)
    <3> QED BY <1>1, <2>1, <3>2 DEF Asked
  <2>4. Untouched' /\ Read' /\ Written'
    BY <1>1, <1>2, <2>1 DEF Untouched, Read, Written, Reading, Writing, Query
  <2> QED BY <2>1, <2>3, <2>4, Undecided DEF ProgramInv
<1> QED BY <1>4, <1>5 DEF Lookup

\* The program's steps between the lookup and the return.
LEMMA AskedKeeps ==
    ASSUME Asked, stage \in Reading \cup Writing, stage' \in {"done"} \cup Reading \cup Writing,
           UNCHANGED vars, arrived' = arrived, plan'.asked = plan.asked
    PROVE  Asked'
<1>1. (status # "returned" => ParserInv)'
  BY ParserRests
<1>2. stage' \notin {"headers", "question"}
  BY DEF Reading, Writing
<1>3. plan.asked \in Nat /\ HeaderLen + plan.asked <= arrived /\ plan.asked <= MaxName + FieldsLen
  BY DEF Asked
<1> QED BY <1>1, <1>2, <1>3 DEF Asked

\* A recycled element is no longer the one found.
LEMMA RecycledIsAnother == found \in Elements => found \notin Recycled
BY Zenon DEF Elements, Recycled

\* The kernel may recycle the element at any moment: what was promised of the element
\* found is promised no more, and nothing else changes.
LEMMA RecycleStep == ProgramInv /\ Recycle => ProgramInv'
<1> SUFFICES ASSUME ProgramInv, Recycle PROVE ProgramInv'
  OBVIOUS
<1>1. /\ stage \in Reading \cup Writing /\ stage # "done" /\ elem' \in Recycled /\ UNCHANGED vars
      /\ UNCHANGED <<stage, payload, arrived, claim, found, plan, next, sent, verdict>>
  BY DEF Recycle, Reading, Writing
<1>2. elem' # found'
  BY <1>1, RecycledIsAnother DEF ProgramInv, Read
<1>3. Asked'
  BY <1>1, AskedKeeps DEF ProgramInv
<1>4. Untouched' /\ verdict' = <<"none", "none">>
  BY <1>1 DEF ProgramInv, Untouched, Query
<1>5. Read'
  BY <1>1, <1>2 DEF ProgramInv, Read
<1>6. Written'
  BY <1>1, <1>2 DEF ProgramInv, Written, Fitted, CopiedTo, Replied
<1> QED BY <1>3, <1>4, <1>5, <1>6, Undecided DEF ProgramInv

\* The first read of the element: an expired one passes the query on.
LEMMA CheckExpiryStep == ProgramInv /\ CheckExpiry => ProgramInv'
<1> SUFFICES ASSUME ProgramInv, CheckExpiry PROVE ProgramInv'
  OBVIOUS
<1>1. /\ stage = "expiry" /\ UNCHANGED vars /\ UNCHANGED <<payload, arrived, claim, elem, found, plan, next, sent>>
      /\ IF elem.expired THEN Return("pass", "expired") ELSE stage' = "flags" /\ verdict' = verdict
  BY DEF CheckExpiry
<1>2. Untouched /\ payload = Query(arrived) /\ verdict = <<"none", "none">> /\ stage \in Reading
  BY <1>1 DEF ProgramInv, Untouched, Reading
<1>3. CASE elem.expired
  <2>1. (status # "returned" => ParserInv)'
    BY <1>1, ParserRests DEF ProgramInv
  <2> QED BY <1>1, <1>2, <1>3, <2>1, PassedOn
<1>4. CASE ~elem.expired
  <2>1. stage' = "flags" /\ verdict' = <<"none", "none">>
    BY <1>1, <1>2, <1>4
  <2>2. Asked'
    BY <1>1, <1>2, <2>1, AskedKeeps DEF ProgramInv, Reading
  <2>3. Untouched' /\ Written'
    BY <1>1, <1>2, <2>1 DEF Untouched, Written, Reading, Writing, Query
  <2>4. Read'
    BY <1>1, <1>4, <2>1 DEF ProgramInv, Read, Reading, Writing
  <2> QED BY <2>1, <2>2, <2>3, <2>4, Undecided DEF ProgramInv
<1> QED BY <1>3, <1>4

\* The second read: a negative element's reply is as long as the question.
LEMMA ReadFlagsStep == ProgramInv /\ ReadFlags => ProgramInv'
<1> SUFFICES ASSUME ProgramInv, ReadFlags PROVE ProgramInv'
  OBVIOUS
<1>1. /\ stage = "flags" /\ UNCHANGED vars /\ UNCHANGED <<payload, arrived, claim, elem, found, next, sent, verdict>>
      /\ plan' = [asked |-> plan.asked, negative |-> elem.negative, len |-> HeaderLen + plan.asked]
      /\ stage' = IF elem.negative THEN "resize" ELSE "length"
  BY DEF ReadFlags
<1>2. Untouched /\ payload = Query(arrived) /\ verdict = <<"none", "none">> /\ stage \in Reading
  BY <1>1 DEF ProgramInv, Untouched, Reading
<1>3. stage' \in {"resize", "length"} /\ stage' \in Reading /\ plan'.asked = plan.asked
  BY <1>1 DEF Reading
<1>4. Asked'
  BY <1>1, <1>2, <1>3, AskedKeeps DEF ProgramInv
<1>5. Untouched' /\ Written'
  BY <1>1, <1>2, <1>3 DEF Untouched, Written, Reading, Writing, Query
<1>6. found \in Elements /\ elem \in {found} \cup Recycled /\ (elem = found => ~found.expired)
  BY <1>1 DEF ProgramInv, Read, Reading
<1>7. elem.negative \in BOOLEAN
  BY <1>6, Zenon DEF Elements, Recycled
<1>8. /\ plan'.negative = elem.negative /\ plan'.len = HeaderLen + plan'.asked
      /\ plan' \in [asked : Nat, negative : BOOLEAN, len : Nat]
  BY <1>1, <1>7, Constants DEF ProgramInv, Asked, Reading
<1>9. Read'
  BY <1>1, <1>3, <1>6, <1>8 DEF Read, Reading, Writing
<1> QED BY <1>1, <1>2, <1>4, <1>5, <1>9, Undecided, SMTT(30) DEF ProgramInv

\* The third read: a length out of range passes the query on, recycled or not.
LEMMA ReadLengthStep == ProgramInv /\ ReadLength => ProgramInv'
<1> SUFFICES ASSUME ProgramInv, ReadLength PROVE ProgramInv'
  OBVIOUS
<1>1. /\ stage = "length" /\ UNCHANGED vars /\ UNCHANGED <<payload, arrived, claim, elem, found, next, sent>>
      /\ IF elem.len \notin MinPositive .. MaxDns
         THEN Return("pass", "none")
         ELSE plan' = [plan EXCEPT !.len = elem.len] /\ stage' = "resize" /\ verdict' = verdict
  BY DEF ReadLength
<1>2. Untouched /\ payload = Query(arrived) /\ verdict = <<"none", "none">> /\ stage \in Reading
  BY <1>1 DEF ProgramInv, Untouched, Reading
<1>3. CASE elem.len \notin MinPositive .. MaxDns
  <2>1. (status # "returned" => ParserInv)'
    BY <1>1, ParserRests DEF ProgramInv
  <2> QED BY <1>1, <1>2, <1>3, <2>1, PassedOn
<1>4. CASE elem.len \in MinPositive .. MaxDns
  <2>1. plan' = [plan EXCEPT !.len = elem.len] /\ stage' = "resize" /\ verdict' = <<"none", "none">>
    BY <1>1, <1>2, <1>4
  <2>2. /\ plan \in [asked : Nat, negative : BOOLEAN, len : Nat] /\ ~plan.negative
        /\ found \in Elements /\ elem \in {found} \cup Recycled /\ (elem = found => ~found.expired)
        /\ elem = found => plan.negative = found.negative
    BY <1>1 DEF ProgramInv, Read, Reading
  <2>3. /\ plan' \in [asked : Nat, negative : BOOLEAN, len : Nat] /\ plan'.asked = plan.asked
        /\ plan'.negative = plan.negative /\ plan'.len = elem.len
    BY <1>4, <2>1, <2>2, Constants
  <2>4. Asked'
    BY <1>1, <1>2, <2>1, <2>3, AskedKeeps DEF ProgramInv, Reading
  <2>5. Untouched' /\ Written'
    BY <1>1, <1>2, <2>1 DEF Untouched, Written, Reading, Writing, Query
  <2>6. Read'
    BY <1>1, <1>4, <2>1, <2>2, <2>3, SMTT(30) DEF Read, Reading, Writing
  <2> QED BY <2>1, <2>4, <2>5, <2>6, Undecided DEF ProgramInv
<1> QED BY <1>3, <1>4

\* What the steps that write find.
LEMMA WritingFacts ==
    ASSUME ProgramInv, stage \in {"resize"} \cup Writing
    PROVE  /\ arrived \in Nat /\ arrived >= 4 /\ verdict = <<"none", "none">>
           /\ found \in Elements /\ elem \in {found} \cup Recycled
           /\ plan \in [asked : Nat, negative : BOOLEAN, len : Nat]
           /\ plan.len \in Nat /\ plan.asked \in Nat /\ 4 + plan.asked <= arrived
           /\ plan.negative => plan.len = 4 + plan.asked
           /\ ~plan.negative => plan.len \in MinPositive .. MaxDns /\ (elem = found => plan.len = found.len)
           /\ plan.len >= 4
<1>1. arrived \in Nat /\ arrived >= 4 /\ verdict = <<"none", "none">>
  BY Constants DEF ProgramInv, Untouched, Writing
<1>2. plan.asked \in Nat /\ 4 + plan.asked <= arrived
  BY Constants DEF ProgramInv, Asked, Reading
<1>3. /\ found \in Elements /\ elem \in {found} \cup Recycled
      /\ plan \in [asked : Nat, negative : BOOLEAN, len : Nat]
      /\ plan.negative => plan.len = 4 + plan.asked
      /\ ~plan.negative => plan.len \in MinPositive .. MaxDns /\ (elem = found => plan.len = found.len)
  BY Constants DEF ProgramInv, Read, Reading
<1>4. plan.len >= 4
  BY <1>2, <1>3, Constants
<1> QED BY <1>1, <1>2, <1>3, <1>4

\* The steps that write leave what was asked and read.
LEMMA WritingKeeps ==
    ASSUME ProgramInv, stage \in {"resize"} \cup Writing, stage' \in {"done"} \cup Writing, stage' # "copy" \/ ~plan.negative,
           UNCHANGED vars, UNCHANGED <<arrived, elem, found, plan>>
    PROVE  Asked' /\ Read'
<1>1. Asked'
  BY AskedKeeps DEF ProgramInv, Reading
<1>2. Read'
  BY DEF ProgramInv, Read, Reading, Writing
<1> QED BY <1>1, <1>2

\* The resize: a frame that cannot hold the reply is one whose claim was too long.
LEMMA ResizeStep == ProgramInv /\ Resize => ProgramInv'
<1> SUFFICES ASSUME ProgramInv, Resize PROVE ProgramInv'
  OBVIOUS
<1>1. PICK c \in 0 .. MaxClaim :
        LET size == arrived + plan.len - c IN
        /\ claim' = c
        /\ IF size > arrived + Tailroom \/ size < -FrontLen
           THEN Return("pass", "none") /\ UNCHANGED payload
           ELSE /\ payload' = Resized(size)
                /\ IF size < plan.len THEN Fail
                   ELSE stage' = "write" /\ UNCHANGED verdict
  BY DEF Resize
<1> DEFINE size == arrived + plan.len - c
<1>2. stage = "resize" /\ UNCHANGED vars /\ UNCHANGED <<arrived, elem, found, plan, next, sent>>
  BY DEF Resize
<1>3. Untouched /\ payload = Query(arrived) /\ arrived \in Nat
  BY <1>2 DEF ProgramInv, Untouched, Reading
<1>4. verdict = <<"none", "none">> /\ plan.len \in Nat /\ c \in Nat /\ MaxClaim \in Nat /\ c <= MaxClaim
  BY <1>2, WritingFacts, Constants
<1>5. CASE Return("pass", "none") /\ UNCHANGED payload
  <2>1. (status # "returned" => ParserInv)'
    BY <1>2, ParserRests DEF ProgramInv
  <2> QED BY <1>2, <1>3, <1>5, <2>1, PassedOn, SMTT(30)
<1>6. CASE Fail /\ size < plan.len
  <2>1. stage' = "done" /\ verdict'[1] = "drop" /\ claim' > arrived'
    BY <1>1, <1>2, <1>3, <1>4, <1>6, SMTT(30) DEF Fail, Return
  <2>2. Asked' /\ Read'
    BY <1>2, <2>1, WritingKeeps
  <2>3. Untouched' /\ Written'
    BY <1>2, <1>3, <2>1, SMTT(30) DEF Untouched, Written, Reading, Writing
  <2>4. ProgramProperties'
    BY <2>1 DEF ProgramProperties, PassedIsTheQuery, ReplyIsFramed, ReplyIsTheEntry, DropOnlyTruncated
  <2> QED BY <2>2, <2>3, <2>4 DEF ProgramInv
<1>7. CASE payload' = Resized(size) /\ ~(size < plan.len) /\ stage' = "write" /\ UNCHANGED verdict
  <2>1. Asked' /\ Read'
    BY <1>2, <1>7, WritingKeeps DEF Writing
  <2>2. Untouched'
    BY <1>2, <1>3, <1>4, <1>7, SMTT(30) DEF Untouched, Reading, Writing
  <2>3. size \in Nat /\ plan.len <= size /\ claim' \in 0 .. MaxClaim
    BY <1>1, <1>3, <1>4, <1>7
  <2>4. Len(payload) = arrived /\ \A i \in 1 .. arrived : payload[i] = <<"query", i>>
    BY <1>3 DEF Query
  <2> HIDE DEF size
  <2>5. payload' = [i \in 1 .. size |-> IF i <= arrived THEN payload[i] ELSE <<"zero", 0>>]
    BY <1>7, <2>4 DEF Resized
  <2>6. \A i \in 1 .. size : (IF i <= arrived THEN payload[i] ELSE <<"zero", 0>>) \in Symbols
    BY <1>3, <2>3, <2>4 DEF Symbols
  <2>7. payload' \in Seq(Symbols) /\ Len(payload') = size
    <3>1. payload' \in [1 .. size -> Symbols]
      BY <2>5, <2>6
    <3> QED BY ONLY <2>3, <3>1, SeqOfFunction
  <2>8. \A i \in 1 .. Len(payload') : i <= arrived => payload'[i] = <<"query", i>>
    BY <1>3, <2>3, <2>4, <2>5, <2>7, SMTT(30)
  <2>9. Fitted'
    BY <1>1, <1>2, <2>3, <2>7, SMTT(30) DEF Fitted, size
  <2>10. Written'
    BY <1>2, <1>7, <2>8, <2>9, SMTT(30) DEF Written
  <2> QED BY <1>4, <1>7, <2>1, <2>2, <2>10, Undecided, SMTT(30) DEF ProgramInv
<1> QED BY <1>1, <1>5, <1>6, <1>7, SMTT(30)

\* The DNS error replies keep the identifier and the question of the query.
LEMMA write_nxdomainStep == ProgramInv /\ write_nxdomain => ProgramInv'
<1> SUFFICES ASSUME ProgramInv, write_nxdomain PROVE ProgramInv'
  OBVIOUS
<1>1. /\ stage = "write" /\ plan.negative /\ stage' = "finalize" /\ UNCHANGED vars
      /\ payload' = [payload EXCEPT ![2] = <<"nxdomain", 2>>, ![4] = <<"zero", 0>>]
      /\ UNCHANGED <<arrived, claim, elem, found, plan, next, sent, verdict>>
  BY DEF write_nxdomain
<1>2. /\ arrived \in Nat /\ arrived >= 4 /\ verdict = <<"none", "none">> /\ plan.len \in Nat
      /\ plan.len <= arrived /\ plan.len >= 4
  BY <1>1, WritingFacts DEF Writing
<1>3. /\ Fitted /\ \A i \in 1 .. Len(payload) : i <= arrived => payload[i] = <<"query", i>>
  BY <1>1 DEF ProgramInv, Written, Writing
<1>4. Asked' /\ Read'
  BY <1>1, WritingKeeps DEF Writing
<1>5. Untouched'
  BY <1>1, <1>2 DEF ProgramInv, Untouched, Reading, Writing
<1>6. payload \in Seq(Symbols) /\ Len(payload) \in Nat /\ plan.len <= Len(payload)
  BY <1>3, LenProperties DEF Fitted
<1>7. <<"nxdomain", 2>> \in Symbols /\ <<"zero", 0>> \in Symbols
  BY DEF Symbols
<1>8. /\ payload' \in Seq(Symbols) /\ Len(payload') = Len(payload)
      /\ \A i \in 1 .. Len(payload) :
            payload'[i] = IF i = 4 THEN <<"zero", 0>> ELSE IF i = 2 THEN <<"nxdomain", 2>> ELSE payload[i]
  <2> DEFINE a == <<"nxdomain", 2>>
             b == <<"zero", 0>>
  <2>1. a \in Symbols /\ b \in Symbols /\ payload' = [payload EXCEPT ![2] = a, ![4] = b]
    BY <1>1, <1>7
  <2> HIDE DEF a, b
  <2>2. /\ payload' \in Seq(Symbols) /\ Len(payload') = Len(payload)
        /\ \A i \in 1 .. Len(payload) : payload'[i] = IF i = 4 THEN b ELSE IF i = 2 THEN a ELSE payload[i]
    <3>1. DOMAIN payload = 1 .. Len(payload) /\ \A i \in 1 .. Len(payload) : payload[i] \in Symbols
      BY <1>6, LenProperties, ElementOfSeq
    <3>2. payload' = [i \in 1 .. Len(payload) |-> IF i = 4 THEN b ELSE IF i = 2 THEN a ELSE payload[i]]
      BY ONLY <2>1, <3>1, Zenon
    <3>3. payload' \in [1 .. Len(payload) -> Symbols]
      BY ONLY <2>1, <3>1, <3>2, Zenon
    <3>4. payload' \in Seq(Symbols) /\ Len(payload') = Len(payload)
      BY ONLY <1>6, <3>3, SeqOfFunction
    <3> QED BY <3>2, <3>4
  <2> QED BY <2>2 DEF a, b
<1>9. Fitted'
  BY <1>1, <1>3, <1>8 DEF Fitted
<1>10. \A i \in 1 .. plan.len :
          payload'[i] = IF i = 2 THEN <<"nxdomain", 2>> ELSE IF i = 4 THEN <<"zero", 0>> ELSE <<"query", i>>
  <2>1. \A i \in 1 .. plan.len : i \in 1 .. Len(payload) /\ i <= arrived
    BY <1>2, <1>6
  <2>2. 2 # 4
    OBVIOUS
  <2> QED BY <1>3, <1>8, <2>1, <2>2, Zenon
<1>11. payload'[1] = <<"query", 1>>
  <2>1. 1 \in 1 .. plan.len /\ 1 # 2 /\ 1 # 4
    BY <1>2
  <2> QED BY <1>10, <2>1, Zenon
<1>12. Written'
  BY <1>1, <1>9, <1>10, <1>11, Zenon DEF Written, Replied
<1> QED BY <1>1, <1>2, <1>4, <1>5, <1>12, Undecided, SMTT(30) DEF ProgramInv

\* A copied chunk is the element's bytes, and the rest of the frame stays.
LEMMA CopiedChunk ==
    ASSUME payload \in Seq(Symbols), found \in Elements, elem \in {found} \cup Recycled,
           NEW i \in Nat, i + Chunk <= Len(payload), payload' = Copied(i)
    PROVE  /\ payload' \in Seq(Symbols) /\ Len(payload') = Len(payload)
           /\ \A j \in i + 1 .. i + Chunk :
                 /\ payload'[j][1] # "query"
                 /\ elem = found /\ j <= found.len => payload'[j] = <<"answer", j>>
           /\ \A j \in 1 .. i : payload'[j] = payload[j]
<1>1. Len(payload) \in Nat /\ DOMAIN payload = 1 .. Len(payload) /\ \A j \in 1 .. Len(payload) : payload[j] \in Symbols
  BY LenProperties, ElementOfSeq
<1>2. Chunk \in Nat /\ elem.of \in {"answer", "another"} /\ (elem = found => elem.of = "answer")
  BY Constants, Zenon DEF Elements, Recycled
<1>3. \A j \in Nat : ByteOf(elem, j) \in Symbols /\ ByteOf(elem, j)[1] # "query"
  BY <1>2 DEF ByteOf, Symbols
<1>4. \A j \in Nat : elem = found /\ j <= found.len => ByteOf(elem, j) = <<"answer", j>>
  BY <1>2 DEF ByteOf
<1>5. payload' = [j \in 1 .. Len(payload) |-> IF j \in i + 1 .. i + Chunk THEN ByteOf(elem, j) ELSE payload[j]]
  BY <1>1 DEF Copied
<1>6. payload' \in [1 .. Len(payload) -> Symbols]
  <2>1. \A j \in 1 .. Len(payload) : j \in Nat
    BY <1>1
  <2>2. \A j \in 1 .. Len(payload) : (IF j \in i + 1 .. i + Chunk THEN ByteOf(elem, j) ELSE payload[j]) \in Symbols
    BY <1>1, <1>3, <2>1, Zenon
  <2> QED BY <1>5, <2>2, Zenon
<1>7. payload' \in Seq(Symbols) /\ Len(payload') = Len(payload)
  BY ONLY <1>1, <1>6, SeqOfFunction
<1>8. \A j \in i + 1 .. i + Chunk : j \in Nat /\ j \in 1 .. Len(payload)
  BY <1>1, <1>2
<1>9. \A j \in i + 1 .. i + Chunk : payload'[j] = ByteOf(elem, j)
  BY <1>5, <1>8, Zenon
<1>10. \A j \in 1 .. i : j \in 1 .. Len(payload) /\ j \notin i + 1 .. i + Chunk
  BY <1>1, <1>2
<1>11. \A j \in 1 .. i : payload'[j] = payload[j]
  BY <1>5, <1>10, Zenon
<1> QED BY <1>3, <1>4, <1>7, <1>8, <1>9, <1>11, Zenon

\* The first, overlapping chunk always fits: a response is longer than a chunk.
LEMMA LeadChunkStep == ProgramInv /\ LeadChunk => ProgramInv'
<1> SUFFICES ASSUME ProgramInv, LeadChunk PROVE ProgramInv'
  OBVIOUS
<1>1. /\ stage = "write" /\ ~plan.negative /\ UNCHANGED vars
      /\ UNCHANGED <<arrived, claim, elem, found, plan, sent>>
  BY DEF LeadChunk
<1>2. /\ found \in Elements /\ elem \in {found} \cup Recycled /\ verdict = <<"none", "none">>
      /\ plan.len \in MinPositive .. MaxDns /\ (elem = found => plan.len = found.len)
  BY <1>1, WritingFacts DEF Writing
<1>3. Fitted
  BY <1>1 DEF ProgramInv, Written, Writing
<1>4. /\ payload \in Seq(Symbols) /\ Len(payload) \in Nat /\ plan.len <= Len(payload)
  BY <1>3, LenProperties DEF Fitted
<1>5. /\ plan.len \in Nat /\ Chunk \in Nat /\ Chunk >= 1 /\ Chunk <= plan.len /\ Chunk <= Len(payload)
  BY <1>2, <1>4, Constants
<1>6. /\ payload' = (IF Lead # 0 THEN Copied(0) ELSE payload)
      /\ stage' = "copy" /\ next' = Lead /\ verdict' = verdict
  BY <1>2, <1>4, <1>5 DEF LeadChunk
<1>7. /\ Lead \in Nat /\ Lead < Chunk /\ \E k \in Nat : plan.len = Lead + k * Chunk
  <2>1. \A l, c \in Nat : c >= 1 => /\ l % c \in Nat /\ l % c < c /\ l \div c \in Nat
                                    /\ l = (l % c) + (l \div c) * c
    OBVIOUS
  <2> QED BY <1>5, <2>1, Zenon DEF Lead
<1>8. /\ payload' \in Seq(Symbols) /\ Len(payload') = Len(payload)
      /\ \A i \in 1 .. Lead : payload'[i][1] # "query" /\ (elem = found => payload'[i] = <<"answer", i>>)
  <2>1. CASE Lead = 0
    BY <1>4, <1>6, <2>1
  <2>2. CASE Lead # 0
    <3>1. payload' = Copied(0) /\ 0 + Chunk <= Len(payload) /\ 0 \in Nat
      BY <1>4, <1>5, <1>6, <2>2
    <3>2. /\ payload' \in Seq(Symbols) /\ Len(payload') = Len(payload)
          /\ \A j \in 0 + 1 .. 0 + Chunk :
                 /\ payload'[j][1] # "query"
                 /\ elem = found /\ j <= found.len => payload'[j] = <<"answer", j>>
      BY <1>2, <1>4, <3>1, CopiedChunk, Zenon
    <3>3. \A j \in 1 .. Lead : j \in 0 + 1 .. 0 + Chunk /\ j <= plan.len
      BY <1>5, <1>7, SMTT(30)
    <3> QED BY <1>2, <3>2, <3>3, Zenon
  <2> QED BY <2>1, <2>2
<1>9. Written'
  <2>1. Fitted'
    BY <1>1, <1>3, <1>8 DEF Fitted
  <2>2. CopiedTo(next)'
    BY <1>1, <1>6, <1>8 DEF CopiedTo
  <2> QED BY <1>1, <1>6, <1>7, <2>1, <2>2, SMTT(30) DEF Written
<1>10. Asked' /\ Read'
  BY <1>1, <1>6, WritingKeeps DEF Writing
<1>11. Untouched'
  BY <1>1, <1>2, <1>6 DEF ProgramInv, Untouched, Reading, Writing
<1> QED BY <1>2, <1>6, <1>9, <1>10, <1>11, Undecided, SMTT(30) DEF ProgramInv

\* The loop: the chunks left are whole, so each fits, and the last ends where the
\* response does.
LEMMA CopyChunkStep == ProgramInv /\ CopyChunk => ProgramInv'
<1> SUFFICES ASSUME ProgramInv, CopyChunk PROVE ProgramInv'
  OBVIOUS
<1>1. /\ stage = "copy" /\ next < plan.len /\ UNCHANGED vars
      /\ UNCHANGED <<arrived, claim, elem, found, plan, sent>>
  BY SMTT(30) DEF CopyChunk
<1>2. /\ found \in Elements /\ elem \in {found} \cup Recycled /\ verdict = <<"none", "none">>
      /\ ~plan.negative /\ plan.len \in MinPositive .. MaxDns /\ (elem = found => plan.len = found.len)
  BY <1>1, WritingFacts DEF Writing, ProgramInv, Read
<1>3. /\ Fitted /\ next \in Nat /\ (\E k \in Nat : plan.len = next + k * Chunk) /\ CopiedTo(next)
  BY <1>1 DEF ProgramInv, Written, Writing
<1>4. /\ payload \in Seq(Symbols) /\ Len(payload) \in Nat /\ plan.len <= Len(payload)
      /\ plan.len \in Nat /\ Chunk \in Nat
  BY <1>2, <1>3, LenProperties, Constants, SMTT(30) DEF Fitted
<1>5. /\ next + Chunk \in Nat /\ next + Chunk <= plan.len
      /\ \E k \in Nat : plan.len = (next + Chunk) + k * Chunk
  <2>1. PICK k \in Nat : plan.len = next + k * Chunk
    BY <1>3
  <2>2. k # 0
    BY <1>1, <1>3, <1>4, <2>1, SMTT(30)
  <2>3. k - 1 \in Nat /\ k * Chunk = Chunk + (k - 1) * Chunk /\ (k - 1) * Chunk \in Nat
    BY <1>4, <2>2
  <2>4. \A a, b, c, d, e \in Nat : a = b + c /\ c = d + e => a = (b + d) + e /\ b + d <= a /\ b + d \in Nat
    OBVIOUS
  <2>5. k * Chunk \in Nat
    BY <1>4
  <2>6. plan.len = (next + Chunk) + (k - 1) * Chunk /\ next + Chunk <= plan.len /\ next + Chunk \in Nat
    BY ONLY <1>3, <1>4, <2>1, <2>3, <2>4, <2>5, SMTT(30)
  <2> QED BY ONLY <2>3, <2>6
<1>6. payload' = Copied(next) /\ next' = next + Chunk /\ UNCHANGED <<stage, verdict>> /\ next + Chunk <= Len(payload)
  BY <1>4, <1>5 DEF CopyChunk
<1>7. /\ payload' \in Seq(Symbols) /\ Len(payload') = Len(payload)
      /\ \A j \in next + 1 .. next + Chunk :
            /\ payload'[j][1] # "query"
            /\ elem = found /\ j <= found.len => payload'[j] = <<"answer", j>>
      /\ \A j \in 1 .. next : payload'[j] = payload[j]
  BY <1>2, <1>3, <1>4, <1>6, CopiedChunk, Zenon
<1>8. \A i \in 1 .. next + Chunk : payload'[i][1] # "query" /\ (elem = found => payload'[i] = <<"answer", i>>)
  <2>1. \A i \in 1 .. next + Chunk : i <= plan.len /\ (i \in 1 .. next \/ i \in next + 1 .. next + Chunk)
    BY <1>3, <1>4, <1>5, SMTT(30)
  <2>2. \A i \in 1 .. next : payload[i][1] # "query" /\ (elem = found => payload[i] = <<"answer", i>>)
    BY <1>3 DEF CopiedTo
  <2> QED BY <1>2, <1>7, <2>1, <2>2, Zenon
<1>9. Written'
  <2>1. Fitted'
    BY <1>1, <1>3, <1>7, SMTT(30) DEF Fitted
  <2>2. CopiedTo(next)'
    BY <1>1, <1>6, <1>8 DEF CopiedTo
  <2> QED BY <1>1, <1>5, <1>6, <2>1, <2>2, SMTT(30) DEF Written
<1>10. Asked' /\ Read'
  BY <1>1, <1>2, <1>6, WritingKeeps, SMTT(30) DEF Writing
<1>11. Untouched'
  BY <1>1, <1>2, <1>6 DEF ProgramInv, Untouched, Reading, Writing
<1> QED BY <1>2, <1>6, <1>9, <1>10, <1>11, Undecided, SMTT(30) DEF ProgramInv

\* The loop ends at the response's end, not after it; the query's id goes on top.
LEMMA WriteTxidStep == ProgramInv /\ WriteTxid => ProgramInv'
<1> SUFFICES ASSUME ProgramInv, WriteTxid PROVE ProgramInv'
  OBVIOUS
<1>1. /\ stage = "copy" /\ next >= plan.len /\ stage' = "finalize" /\ UNCHANGED vars
      /\ payload' = [payload EXCEPT ![1] = <<"query", 1>>]
      /\ UNCHANGED <<arrived, claim, elem, found, plan, next, sent, verdict>>
  BY DEF WriteTxid
<1>2. verdict = <<"none", "none">> /\ ~plan.negative /\ plan.len \in MinPositive .. MaxDns
  BY <1>1, WritingFacts DEF Writing, ProgramInv, Read
<1>3. /\ Fitted /\ next \in Nat /\ (\E k \in Nat : plan.len = next + k * Chunk) /\ CopiedTo(next)
  BY <1>1 DEF ProgramInv, Written, Writing
<1>4. /\ payload \in Seq(Symbols) /\ Len(payload) \in Nat /\ plan.len <= Len(payload)
      /\ plan.len \in Nat /\ plan.len >= 1
  BY <1>2, <1>3, LenProperties, Constants DEF Fitted
<1>5. DOMAIN payload = 1 .. Len(payload) /\ \A i \in 1 .. Len(payload) : payload[i] \in Symbols
  BY <1>4, LenProperties, ElementOfSeq
<1>6. <<"query", 1>> \in Symbols
  BY DEF Symbols
<1> DEFINE id == <<"query", 1>>
<1>7. payload' = [payload EXCEPT ![1] = id] /\ id \in Symbols
  BY <1>1, <1>6
<1>8. payload' = [i \in 1 .. Len(payload) |-> IF i = 1 THEN id ELSE payload[i]]
  <2> HIDE DEF id
  <2> QED BY ONLY <1>5, <1>7, Zenon
<1>9. payload' \in Seq(Symbols) /\ Len(payload') = Len(payload)
  <2> HIDE DEF id
  <2>1. payload' \in [1 .. Len(payload) -> Symbols]
    BY ONLY <1>5, <1>7, <1>8, Zenon
  <2> QED BY ONLY <1>4, <2>1, SeqOfFunction
<1>10. payload'[1] = id /\ \A i \in 2 .. plan.len : payload'[i] = payload[i]
  <2> HIDE DEF id
  <2>1. 1 \in 1 .. Len(payload) /\ \A i \in 2 .. plan.len : i \in 1 .. Len(payload) /\ i # 1
    BY <1>4
  <2> QED BY <1>8, <2>1, Zenon
<1>11. Replied'
  <2>1. \A i \in 2 .. plan.len : i \in 1 .. next
    BY <1>1, <1>3, <1>4
  <2>2. \A i \in 2 .. plan.len : payload'[i][1] # "query" /\ (elem = found => payload'[i] = <<"answer", i>>)
    BY <1>3, <1>10, <2>1, Zenon DEF CopiedTo
  <2> QED BY <1>1, <1>2, <1>10, <2>2, SMTT(30) DEF Replied
<1>12. Written'
  <2>1. Fitted'
    BY <1>1, <1>3, <1>9 DEF Fitted
  <2> QED BY <1>1, <1>11, <2>1 DEF Written
<1>13. Asked' /\ Read'
  BY <1>1, WritingKeeps DEF Writing
<1>14. Untouched'
  BY <1>1, <1>2 DEF ProgramInv, Untouched, Reading, Writing
<1> QED BY <1>1, <1>2, <1>12, <1>13, <1>14, Undecided, SMTT(30) DEF ProgramInv

-----------------------------------------------------------------------------
(* The checksum *)

\* A sum of at most five words carries at most four.
LEMMA SumOfFive ==
    ASSUME NEW s \in Nat, s <= 5 * (Word16 - 1)
    PROVE  \E q \in 0 .. 4, r \in Words16 :
              s = (q * Word16) + r /\ (s \div Word16) = q /\ (s % Word16) = r
<1>1. Word16 \in Nat /\ Word16 > 0
  BY ChecksumAssumption
<1>2. (s % Word16) \in Words16 /\ (s \div Word16) \in Nat
  BY <1>1 DEF Words16
<1>3. s = ((s \div Word16) * Word16) + (s % Word16)
  BY <1>1
<1>4. (s \div Word16) \in 0 .. 4
  <2>1. ((s \div Word16) * Word16) <= 5 * Word16 - 5
    BY <1>1, <1>2, <1>3 DEF Words16
  <2>2. ASSUME (s \div Word16) >= 5 PROVE FALSE
    <3>1. ((s \div Word16) * Word16) >= 5 * Word16
      BY <1>1, <1>2, <2>2
    <3> QED BY <1>1, <1>2, <2>1, <3>1, SMTT(30)
  <2> QED BY <1>2, <2>2
<1> QED BY <1>2, <1>3, <1>4

\* Two folds leave one word, and take away a multiple of all ones: the second carry
\* of a sum of five words is the last.
LEMMA TwoFoldsAreEnough ==
    ASSUME NEW s \in Nat, s <= 5 * (Word16 - 1)
    PROVE  /\ Folded(s) \in Words16
           /\ \E k \in 0 .. 5 : s = Folded(s) + k * (Word16 - 1)
<1>1. Word16 \in Nat /\ Word16 >= 8
  BY ChecksumAssumption
<1>2. PICK q \in 0 .. 4, r \in Words16 :
          s = (q * Word16) + r /\ (s \div Word16) = q /\ (s % Word16) = r
  BY SumOfFive
<1> DEFINE once == r + q
<1>3. once \in Nat /\ once <= 5 * (Word16 - 1)
  BY <1>1, <1>2 DEF Words16
<1>4. PICK p \in 0 .. 4, t \in Words16 :
          once = (p * Word16) + t /\ (once \div Word16) = p /\ (once % Word16) = t
  BY <1>3, SumOfFive
<1>5. Folded(s) = t + p
  BY <1>2, <1>4 DEF Folded
<1>6. p \in 0 .. 1 /\ (p = 1 => t <= 3)
  BY <1>1, <1>2, <1>4 DEF Words16
<1>7. s = (t + p) + (q + p) * (Word16 - 1)
  <2>1. s = (q * Word16) + (once - q)
    BY <1>2, <1>1 DEF Words16
  <2>2. CASE p = 0
    BY <2>1, <2>2, <1>1, <1>2, <1>4, SMTT(30) DEF Words16
  <2>3. CASE p = 1
    BY <2>1, <2>3, <1>1, <1>2, <1>4, SMTT(30) DEF Words16
  <2> QED BY <2>2, <2>3, <1>6
<1> QED BY <1>1, <1>5, <1>6, <1>7 DEF Words16

\* A positive multiple of all ones folds to all ones.
LEMMA MultiplesFoldToOnes ==
    ASSUME NEW m \in 1 .. 4
    PROVE  Folded(m * (Word16 - 1)) = Word16 - 1
<1>1. Word16 \in Nat /\ Word16 >= 8
  BY ChecksumAssumption
<1> DEFINE s == m * (Word16 - 1)
<1>2. s \in Nat /\ s <= 5 * (Word16 - 1)
  BY <1>1
<1>3. Folded(s) \in Words16
  BY <1>2, TwoFoldsAreEnough
<1>4. PICK k \in 0 .. 5 : s = Folded(s) + k * (Word16 - 1)
  BY <1>2, TwoFoldsAreEnough
<1>5. Folded(s) # 0
  <2>1. PICK q \in 0 .. 4, r \in Words16 :
            s = (q * Word16) + r /\ (s \div Word16) = q /\ (s % Word16) = r
    BY <1>2, SumOfFive
  <2>2. r + q > 0
    BY <1>1, <2>1 DEF Words16
  <2>3. Folded(s) = ((r + q) % Word16) + ((r + q) \div Word16)
    BY <2>1 DEF Folded
  <2>4. r + q \in Nat /\ r + q <= 5 * (Word16 - 1)
    BY <1>1, <2>1 DEF Words16
  <2>5. PICK p \in 0 .. 4, t \in Words16 :
            r + q = (p * Word16) + t /\ ((r + q) \div Word16) = p /\ ((r + q) % Word16) = t
    BY <2>4, SumOfFive
  <2>6. t + p > 0
    BY <1>1, <2>1, <2>2, <2>5 DEF Words16
  <2> QED BY <2>3, <2>5, <2>6
<1>6. Folded(s) = (m - k) * (Word16 - 1)
  BY <1>1, <1>3, <1>4 DEF Words16
<1>7. m - k = 1
  BY <1>1, <1>3, <1>5, <1>6, SMTT(30) DEF Words16
<1> QED BY <1>1, <1>6, <1>7

\* finalize_headers keeps a valid header valid: whatever lengths and fragment word the
\* query had, and whatever the other words sum to, NewCheck makes the reply's words sum
\* to all ones (a total length is never 0).
THEOREM ChecksumStaysValid ==
    ASSUME NEW rest \in Words16, NEW check \in Words16,
           NEW oldTot \in Words16, NEW newTot \in Words16, newTot > 0,
           NEW oldFrag \in Words16, NEW newFrag \in Words16,
           Valid(rest, oldTot, oldFrag, check)
    PROVE  Valid(rest, newTot, newFrag, NewCheck(check, oldTot, newTot, oldFrag, newFrag))
<1>1. Word16 \in Nat /\ Word16 >= 8
  BY ChecksumAssumption
<1> DEFINE ones == Word16 - 1
           old == rest + oldTot + oldFrag + check
           change == Not16(check) + Not16(oldTot) + newTot + Not16(oldFrag) + newFrag
           new == rest + newTot + newFrag + Not16(Folded(change))
<1>2. old \in Nat /\ old <= 5 * ones /\ change \in Nat /\ change <= 5 * ones
  BY <1>1 DEF Words16, Not16
<1>3. PICK k \in 0 .. 5 : old = ones + k * ones
  <2>1. PICK k \in 0 .. 5 : old = Folded(old) + k * ones
    BY <1>2, TwoFoldsAreEnough
  <2> QED BY <2>1 DEF Valid
<1>4. Folded(change) \in Words16
  BY <1>2, TwoFoldsAreEnough
<1>5. PICK j \in 0 .. 5 : change = Folded(change) + j * ones
  BY <1>2, TwoFoldsAreEnough, SMTT(30)
<1>6. new = (k + j - 1) * ones
  <2>1. new = (old + change) - Folded(change) - 2 * ones
    BY <1>1, <1>4, SMTT(30) DEF Words16, Not16
  <2>2. new = (k * ones) + (j * ones) - ones
    <3>1. k * ones \in Int /\ j * ones \in Int /\ ones \in Int /\ Folded(change) \in Int
      BY <1>1, <1>4 DEF Words16
    <3>2. \A a, b, f, o \in Int : ((o + a) + (f + b)) - f - 2 * o = a + b - o
      OBVIOUS
    <3>3. ((ones + k * ones) + (Folded(change) + j * ones)) - Folded(change) - 2 * ones
             = (k * ones) + (j * ones) - ones
      BY <3>1, <3>2
    <3> QED BY <1>3, <1>5, <2>1, <3>3, SMTT(30)
  <2>3. (k * ones) + (j * ones) - ones = (k + j - 1) * ones
    BY <1>1
  <2> QED BY <2>2, <2>3, SMTT(30)
<1>7. new > 0 /\ new <= 4 * ones
  BY <1>1, <1>4, SMTT(30) DEF Words16, Not16
<1>8. k + j - 1 \in 1 .. 4
  BY <1>1, <1>6, <1>7, SMTT(30)
<1>9. Folded(new) = ones
  BY <1>6, <1>8, MultiplesFoldToOnes
<1> QED BY <1>9 DEF Valid, NewCheck

-----------------------------------------------------------------------------
(* The headers, and the whole program *)

\* Setting the don't-fragment bit leaves a word a word.
LEMMA DontFragmentIsAWord ==
    ASSUME NEW frag \in Words16
    PROVE  WithDontFragment(frag) \in Words16
<1>1. Word16 \in Nat /\ Word16 >= 8 /\ Word16 % 4 = 0
  BY ChecksumAssumption, ProgramAssumption
<1>2. DontFragment \in Nat /\ Word16 = 4 * DontFragment /\ DontFragment >= 2
  BY <1>1 DEF DontFragment
<1>3. CASE (frag \div DontFragment) % 2 = 1
  BY <1>3 DEF WithDontFragment
<1>4. CASE (frag \div DontFragment) % 2 # 1
  <2> DEFINE d == DontFragment
             q == frag \div d
             r == frag % d
  <2>1. \A f, e \in Nat : e >= 1 => f \div e \in Nat /\ f % e \in 0 .. e - 1 /\ f = (f \div e) * e + (f % e)
    OBVIOUS
  <2>2. q \in Nat /\ r \in Nat /\ r < d /\ frag = q * d + r /\ frag \in Nat /\ frag < 4 * d
    BY <1>1, <1>2, <2>1 DEF Words16
  <2>3. d \in Nat /\ d >= 2 /\ q % 2 # 1
    BY <1>2, <1>4
  <2> HIDE DEF d, q, r
  <2>4. q < 4
    <3>1. ASSUME q >= 4 PROVE FALSE
      <4>1. q * d >= 4 * d
        BY <2>2, <2>3, <3>1
      <4> QED BY <2>2, <2>3, <4>1
    <3> QED BY <2>2, <3>1
  <2>5. q = 0 \/ q = 2
    BY <2>2, <2>3, <2>4
  <2>6. frag + d < 4 * d
    <3>1. CASE q = 0
      BY <2>2, <2>3, <3>1
    <3>2. CASE q = 2
      BY <2>2, <2>3, <3>2
    <3> QED BY <2>5, <3>1, <3>2
  <2>7. frag + DontFragment \in Words16
    BY <1>1, <1>2, <2>2, <2>6 DEF Words16, d
  <2> QED BY <1>4, <2>7 DEF WithDontFragment
<1> QED BY <1>3, <1>4

\* The reply goes out: its lengths are words, its checksum is valid, its bytes are the
\* ones written.
LEMMA finalize_headersStep == ProgramInv /\ finalize_headers => ProgramInv'
<1> SUFFICES ASSUME ProgramInv, finalize_headers PROVE ProgramInv'
  OBVIOUS
<1>1. /\ stage = "finalize" /\ stage' = "done" /\ verdict'[1] = "tx" /\ UNCHANGED vars
      /\ UNCHANGED <<payload, arrived, claim, elem, found, plan, next>>
  BY DEF finalize_headers, Return
<1>2. PICK rest \in Sums, was \in Words16, frag \in Frags, check \in Words16 :
        /\ Valid(rest, was, frag, check)
        /\ sent' = [rest |-> rest, total |-> FrontLen + plan.len, frag |-> WithDontFragment(frag),
                    check |-> NewCheck(check, was, FrontLen + plan.len, frag, WithDontFragment(frag))]
  BY SMTT(30) DEF finalize_headers
<1>3. /\ found \in Elements /\ plan \in [asked : Nat, negative : BOOLEAN, len : Nat] /\ plan.len \in Nat
      /\ plan.asked \in Nat /\ plan.asked <= MaxName + FieldsLen
      /\ plan.negative => plan.len = 4 + plan.asked
      /\ ~plan.negative => plan.len \in MinPositive .. MaxDns /\ (elem = found => plan.len = found.len)
  BY <1>1, WritingFacts DEF Writing, ProgramInv, Asked
<1>4. elem = found => ~found.expired /\ plan.negative = found.negative
  BY <1>1, SMTT(30) DEF ProgramInv, Read, Writing
<1>5. Fitted /\ Replied
  BY <1>1 DEF ProgramInv, Written, Writing
<1>6. /\ payload \in Seq(Symbols) /\ Len(payload) \in Nat /\ plan.len <= Len(payload) /\ claim \in 0 .. MaxClaim
  BY <1>5, LenProperties DEF Fitted
<1>7. Valid(rest, FrontLen + plan.len, WithDontFragment(frag),
            NewCheck(check, was, FrontLen + plan.len, frag, WithDontFragment(frag)))
  <2>1. rest \in Words16 /\ frag \in Words16
    BY ProgramAssumption
  <2>2. WithDontFragment(frag) \in Words16
    BY <2>1, DontFragmentIsAWord
  <2>3. Word16 \in Nat /\ FrontLen + MaxDns < Word16 /\ FrontLen + 4 + MaxName + FieldsLen < Word16
    BY ChecksumAssumption, ProgramAssumption DEF HeaderLen
  <2>4. FrontLen + plan.len \in Words16 /\ FrontLen + plan.len > 0
    BY <1>3, <2>3, Constants, SMTT(30) DEF Words16
  <2> QED BY <1>2, <2>1, <2>2, <2>4, ChecksumStaysValid, Zenon
<1>8. ReplyIsFramed'
  <2>1. payload[1] = <<"query", 1>> /\ (~plan.negative => \A i \in 2 .. plan.len : payload[i][1] # "query")
    BY <1>5, SMTT(30) DEF Replied
  <2>2. /\ sent'.rest = rest /\ sent'.total = FrontLen + plan.len /\ sent'.frag = WithDontFragment(frag)
        /\ sent'.check = NewCheck(check, was, FrontLen + plan.len, frag, WithDontFragment(frag))
    BY <1>2
  <2>3. Valid(sent'.rest, sent'.total, sent'.frag, sent'.check)
    BY <1>7, <2>2
  <2>4. Len(payload) >= plan.len
    BY <1>3, <1>6
  <2> QED BY <1>1, <2>1, <2>2, <2>3, <2>4, SMTT(30) DEF ReplyIsFramed, Valid, Folded
<1>9. elem = found => SubSeq(payload, 1, plan.len) =
            IF found.negative
            THEN [Query(HeaderLen + plan.asked) EXCEPT ![2] = <<"nxdomain", 2>>, ![4] = <<"zero", 0>>]
            ELSE [i \in 1 .. found.len |-> IF i = 1 THEN <<"query", 1>> ELSE <<"answer", i>>]
  <2> SUFFICES ASSUME elem = found
               PROVE  SubSeq(payload, 1, plan.len) =
                        IF found.negative
                        THEN [Query(HeaderLen + plan.asked) EXCEPT ![2] = <<"nxdomain", 2>>, ![4] = <<"zero", 0>>]
                        ELSE [i \in 1 .. found.len |-> IF i = 1 THEN <<"query", 1>> ELSE <<"answer", i>>]
    BY Zenon
  <2>1. SubSeq(payload, 1, plan.len) = [i \in 1 .. plan.len |-> payload[i]]
    BY <1>3, <1>6
  <2>2. CASE found.negative
    <3>1. plan.negative /\ HeaderLen + plan.asked = plan.len
      BY <1>3, <1>4, <2>2, Constants, Zenon
    <3> DEFINE n == <<"nxdomain", 2>>
               z == <<"zero", 0>>
    <3>2. \A i \in 1 .. plan.len : payload[i] = IF i = 2 THEN n ELSE IF i = 4 THEN z ELSE <<"query", i>>
      BY <1>5, <3>1, Zenon DEF Replied
    <3>3. [Query(plan.len) EXCEPT ![2] = n, ![4] = z] =
              [i \in 1 .. plan.len |-> IF i = 4 THEN z ELSE IF i = 2 THEN n ELSE <<"query", i>>]
      <4> HIDE DEF n, z
      <4> QED BY <1>3, Zenon DEF Query
    <3>4. \A i \in 1 .. plan.len : payload[i] = IF i = 4 THEN z ELSE IF i = 2 THEN n ELSE <<"query", i>>
      <4>1. 2 # 4
        OBVIOUS
      <4> HIDE DEF n, z
      <4> QED BY <3>2, <4>1, Zenon
    <3>5. [i \in 1 .. plan.len |-> payload[i]] = [Query(plan.len) EXCEPT ![2] = n, ![4] = z]
      <4> HIDE DEF n, z
      <4> QED BY <3>3, <3>4, Zenon
    <3> QED BY <2>1, <2>2, <3>1, <3>5, Zenon
  <2>3. CASE ~found.negative
    <3>1. ~plan.negative /\ plan.len = found.len
      BY <1>3, <1>4, <2>3, SMTT(30)
    <3>2. \A i \in 1 .. plan.len : i = 1 \/ i \in 2 .. plan.len
      BY <1>3
    <3>3. \A i \in 1 .. plan.len : payload[i] = IF i = 1 THEN <<"query", 1>> ELSE <<"answer", i>>
      BY <1>5, <3>1, <3>2, Zenon DEF Replied
    <3> QED BY <2>1, <2>3, <3>1, <3>3, Zenon
  <2> QED BY <2>2, <2>3, Zenon
<1>10. ReplyIsTheEntry'
  BY <1>1, <1>4, <1>9, Zenon DEF ReplyIsTheEntry
<1>11. PassedIsTheQuery' /\ DropOnlyTruncated'
  BY <1>1 DEF PassedIsTheQuery, DropOnlyTruncated
<1>12. Asked' /\ Read'
  BY <1>1, WritingKeeps, SMTT(30) DEF Writing
<1>13. Untouched' /\ Written'
  BY <1>1 DEF ProgramInv, Untouched, Written, Reading, Writing
<1> QED BY <1>8, <1>10, <1>11, <1>12, <1>13, SMTT(30) DEF ProgramInv, ProgramProperties

\* Every step of the program keeps its invariant.
LEMMA ProgramStep == ProgramInv /\ [ProgramNext]_all => ProgramInv'
<1> SUFFICES ASSUME ProgramInv, [ProgramNext]_all PROVE ProgramInv'
  OBVIOUS
<1>1. CASE ParseHeaders \/ ParseQuestion \/ NoQuestion \/ Lookup
  BY <1>1, ParseHeadersStep, ParseQuestionStep, NoQuestionStep, LookupStep
<1>2. CASE CheckExpiry \/ ReadFlags \/ ReadLength \/ Recycle
  BY <1>2, CheckExpiryStep, ReadFlagsStep, ReadLengthStep, RecycleStep, SMTT(30)
<1>3. CASE Resize \/ write_nxdomain \/ LeadChunk
  BY <1>3, ResizeStep, write_nxdomainStep, LeadChunkStep
<1>4. CASE CopyChunk \/ WriteTxid \/ finalize_headers
  BY <1>4, CopyChunkStep, WriteTxidStep, finalize_headersStep
<1>5. CASE UNCHANGED all
  <2>1. UNCHANGED vars /\ UNCHANGED <<stage, payload, arrived, claim, elem, found, plan, next, sent, verdict>>
    BY <1>5 DEF all, program
  <2>2. (status # "returned" => ParserInv)'
    BY <2>1, ParserRests DEF ProgramInv
  <2>3. UNCHANGED <<status, frame>>
    BY <2>1 DEF vars
  <2>4. Asked'
    BY <2>1, <2>2, <2>3, SMTT(30) DEF ProgramInv, Asked
  <2>5. Untouched' /\ Read' /\ Written'
    BY <2>1, SMTT(30) DEF ProgramInv, Untouched, Read, Written, Fitted, CopiedTo, Replied, Query
  <2>6. ProgramProperties'
    BY <2>1, Zenon DEF ProgramInv, ProgramProperties, PassedIsTheQuery, ReplyIsFramed, ReplyIsTheEntry,
                DropOnlyTruncated, Query, Valid, Folded
  <2> QED BY <2>4, <2>5, <2>6 DEF ProgramInv
<1> QED BY <1>1, <1>2, <1>3, <1>4, <1>5 DEF ProgramNext

\* The invariant of the whole program.
LEMMA ProgramHasInvariant == ProgramSpec => []ProgramInv
BY ProgramStart, ProgramStep, PTL DEF ProgramSpec

\* The program passes on only queries it has not touched: every way to give up after the
\* resize drops the packet instead, whatever the element under it becomes.
THEOREM WhatIsPassedIsTheQuery == ProgramSpec => []PassedIsTheQuery
<1>1. ProgramInv => PassedIsTheQuery
  BY DEF ProgramInv, ProgramProperties
<1> QED BY <1>1, ProgramHasInvariant, PTL

\* Every reply is well formed, for every packet, element and moment of recycling: the
\* frame holds it, its id is the query's, its lengths are right and so is its checksum.
THEOREM EveryReplyIsFramed == ProgramSpec => []ReplyIsFramed
<1>1. ProgramInv => ReplyIsFramed
  BY DEF ProgramInv, ProgramProperties
<1> QED BY <1>1, ProgramHasInvariant, PTL

\* Unless the element was recycled, the reply is the whole live answer found, byte for
\* byte under the query's id, or the query's question under an NXDOMAIN header.
THEOREM EveryReplyIsTheEntry == ProgramSpec => []ReplyIsTheEntry
<1>1. ProgramInv => ReplyIsTheEntry
  BY DEF ProgramInv, ProgramProperties
<1> QED BY <1>1, ProgramHasInvariant, PTL

\* Only a query whose UDP length exceeds its frame is dropped: the bounds checks of the
\* copy loop never fire.
THEOREM OnlyTruncatedIsDropped == ProgramSpec => []DropOnlyTruncated
<1>1. ProgramInv => DropOnlyTruncated
  BY DEF ProgramInv, ProgramProperties
<1> QED BY <1>1, ProgramHasInvariant, PTL

\* The key of the lookup is userspace's key, with the parser inside the program.
THEOREM LookupKeyIsUserspaceKey == ProgramSpec => []KernelKeyIsUserspaceKey
<1>1. ProgramInv => KernelKeyIsUserspaceKey
  <2>1. ParserInv => KernelKeyIsUserspaceKey
    BY ParserKey
  <2>2. status = "returned" => KernelKeyIsUserspaceKey
    BY DEF KernelKeyIsUserspaceKey
  <2> QED BY <2>1, <2>2 DEF ProgramInv, Asked
<1> QED BY <1>1, ProgramHasInvariant, PTL
=============================================================================
