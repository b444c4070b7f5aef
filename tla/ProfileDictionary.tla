-------------------------- MODULE ProfileDictionary --------------------------
(***************************************************************************)
(* build_export_request and its DictionaryBuilder                          *)
(* (crates/doggy-dns-observability/src/profiles/convert.rs): a CPU profile *)
(* is rewritten into tables whose rows refer to one another by index, so   *)
(* that equal strings, functions, locations, stacks and attributes are     *)
(* sent once.  Every table starts with a zero row, which stands for "none".*)
(*                                                                         *)
(* A frame is the sequence of its symbols, innermost first; a frame whose  *)
(* symbols could not be resolved has none.  Indices are the code's, from 0.*)
(***************************************************************************)
EXTENDS Integers, Sequences

CONSTANTS
    String, Empty,              \* strings, the empty one,
    ThreadName, Cpu, Nanoseconds, \*  and the ones the code writes
    Trim(_),                    \* str::trim
    Address, NoAddress,         \* code addresses, and 0
    NoValue,                    \* the value of the zero attribute
    NanosPerSecond, MaxI64      \* bounds: a second, and the largest i64

ASSUME StringAssumption ==
    /\ {Empty, ThreadName, Cpu, Nanoseconds} \subseteq String /\ ThreadName # Empty
    /\ \A s \in String : Trim(s) \in String
    /\ NoAddress \in Address
    /\ NoValue \notin String
    /\ NanosPerSecond \in Nat /\ MaxI64 \in Nat

Symbol == [name : String, system_name : String, filename : String, line : Nat, address : Address]
Sample == [frames : Seq(Seq(Symbol)), count : Int, thread_name : String]

VARIABLES
    collected,   \* the profile: its samples, and the sampling frequency
    sampleAt,    \* the sample,
    frameAt,     \*   and its frame, being rewritten
    lines,       \* rows of the frame so far
    locs,        \* location indices of the sample so far
    strings, functions, locations, stacks, attributes,   \* the tables
    samples,     \* samples of the request so far
    built        \* the request is complete

cursorVars == <<sampleAt, frameAt, lines, locs>>
profileVars == <<collected, cursorVars, strings, functions, locations, stacks, attributes, samples,
                 built>>

-----------------------------------------------------------------------------
(* One table: its rows, and where the lookup map finds them *)

Row(t, i) == t.rows[i + 1]

\* Mutation: the index is taken after the row is pushed.
PutAfterPush(t, row) ==
    IF row \in DOMAIN t.lookup THEN t
    ELSE [rows   |-> Append(t.rows, row),
          lookup |-> [r \in DOMAIN t.lookup \cup {row} |->
                        IF r = row THEN Len(t.rows) + 1 ELSE t.lookup[r]]]

\* Mutation: a row is pushed whether it is known or not.
PutAlways(t, row) ==
    [rows   |-> Append(t.rows, row),
     lookup |-> [r \in DOMAIN t.lookup \cup {row} |->
                   IF r = row THEN Len(t.rows) ELSE t.lookup[r]]]

\* A known row is shared; a new one goes to the end.
Put(t, row) ==
    IF row \in DOMAIN t.lookup THEN t
    ELSE [rows   |-> Append(t.rows, row),
          lookup |-> [r \in DOMAIN t.lookup \cup {row} |->
                        IF r = row THEN Len(t.rows) ELSE t.lookup[r]]]

\* A table that holds its zero row, which only the string table can look up.
Zero(row) == [rows |-> <<row>>, lookup |-> [r \in {} |-> 0]]

ZeroFunction == <<0, 0, 0>>
ZeroLocation == [address |-> NoAddress, lines |-> <<>>]
ZeroAttribute == [key |-> 0, value |-> NoValue]

EmptyString == [rows |-> <<Empty>>, lookup |-> [r \in {Empty} |-> 0]]

\* DictionaryBuilder::new.
New ==
    /\ sampleAt = 1 /\ frameAt = 1 /\ lines = <<>> /\ locs = <<>>
    /\ strings = EmptyString
    /\ functions = Zero(ZeroFunction) /\ locations = Zero(ZeroLocation)
    /\ stacks = Zero(<<>>) /\ attributes = Zero(ZeroAttribute)
    /\ samples = <<>> /\ built = FALSE

ProfileInit == collected \in [samples : Seq(Sample), frequency : Int] /\ New

\* build_export_request is called with another profile.
Renew(profile) ==
    /\ collected' = profile
    /\ sampleAt' = 1 /\ frameAt' = 1 /\ lines' = <<>> /\ locs' = <<>>
    /\ strings' = EmptyString
    /\ functions' = Zero(ZeroFunction) /\ locations' = Zero(ZeroLocation)
    /\ stacks' = Zero(<<>>) /\ attributes' = Zero(ZeroAttribute)
    /\ samples' = <<>> /\ built' = FALSE

-----------------------------------------------------------------------------
(* build_export_request, one call of the builder at a time *)

sample == collected.samples[sampleAt]
frame == sample.frames[frameAt]

Converting == ~built /\ sampleAt <= Len(collected.samples)

\* A sample that was never hit is left out.
SkipSample ==
    /\ Converting /\ sample.count <= 0
    /\ sampleAt' = sampleAt + 1
    /\ UNCHANGED <<collected, frameAt, lines, locs, strings, functions, locations, stacks,
                   attributes, samples, built>>

InFrame == Converting /\ sample.count > 0 /\ frameAt <= Len(sample.frames)

\* function: the symbol's three strings are interned, then their indices.
function ==
    /\ InFrame /\ Len(lines) < Len(frame)
    /\ LET symbol == frame[Len(lines) + 1] IN
       /\ strings' = Put(Put(Put(strings, symbol.name), symbol.system_name), symbol.filename)
       /\ LET key == <<strings'.lookup[symbol.name], strings'.lookup[symbol.system_name],
                       strings'.lookup[symbol.filename]>> IN
          /\ functions' = Put(functions, key)
          /\ lines' = Append(lines, [function |-> functions'.lookup[key], line |-> symbol.line])
    /\ UNCHANGED <<collected, sampleAt, frameAt, locs, locations, stacks, attributes, samples, built>>

\* Mutation: locations are told apart by their lines only.
locationByLines ==
    /\ InFrame /\ Len(lines) = Len(frame)
    /\ IF frame = <<>> THEN UNCHANGED <<locations, locs>>
       ELSE LET known == {r \in DOMAIN locations.lookup : r.lines = lines}
                row   == IF known # {} THEN CHOOSE r \in known : TRUE
                         ELSE [address |-> frame[1].address, lines |-> lines] IN
            /\ locations' = Put(locations, row)
            /\ locs' = Append(locs, locations'.lookup[row])
    /\ lines' = <<>>
    /\ frameAt' = frameAt + 1
    /\ UNCHANGED <<collected, sampleAt, strings, functions, stacks, attributes, samples, built>>

\* location: the frame's lines with the address of its innermost symbol; an
\* unresolved frame has no location.
location ==
    /\ InFrame /\ Len(lines) = Len(frame)
    /\ IF frame = <<>> THEN UNCHANGED <<locations, locs>>
       ELSE LET row == [address |-> frame[1].address, lines |-> lines] IN
            /\ locations' = Put(locations, row)
            /\ locs' = Append(locs, locations'.lookup[row])
    /\ lines' = <<>>
    /\ frameAt' = frameAt + 1
    /\ UNCHANGED <<collected, sampleAt, strings, functions, stacks, attributes, samples, built>>

period_ns == NanosPerSecond \div (IF collected.frequency > 1 THEN collected.frequency ELSE 1)
saturating_mul(a, b) == IF a * b > MaxI64 THEN MaxI64 ELSE a * b

\* thread_attribute, for a sample whose thread has a name.
thread_attribute(name) ==
    /\ strings' = Put(strings, ThreadName)
    /\ attributes' = Put(attributes, [key |-> strings'.lookup[ThreadName], value |-> name])

\* stack: a sample none of whose frames was resolved is left out, and its thread with
\* it; another gets its stack, its thread's name and the time it stands for.
EndSample ==
    /\ Converting /\ sample.count > 0 /\ frameAt = Len(sample.frames) + 1
    /\ IF locs = <<>> THEN UNCHANGED <<strings, stacks, attributes, samples>>
       ELSE LET thread == Trim(sample.thread_name)
                named  == thread # Empty IN
            /\ stacks' = Put(stacks, locs)
            /\ IF named THEN thread_attribute(thread) ELSE UNCHANGED <<strings, attributes>>
            /\ samples' = Append(samples,
                 [stack      |-> stacks'.lookup[locs],
                  attributes |-> IF named
                                 THEN <<attributes'.lookup[[key   |-> strings'.lookup[ThreadName],
                                                            value |-> thread]]>>
                                 ELSE <<>>,
                  value      |-> saturating_mul(sample.count, period_ns)])
    /\ sampleAt' = sampleAt + 1
    /\ frameAt' = 1
    /\ locs' = <<>>
    /\ UNCHANGED <<collected, lines, functions, locations, built>>

\* The sample type is interned last, and the tables are moved into the request.
Build ==
    /\ ~built /\ sampleAt = Len(collected.samples) + 1
    /\ strings' = Put(Put(strings, Cpu), Nanoseconds)
    /\ built' = TRUE
    /\ UNCHANGED <<collected, cursorVars, functions, locations, stacks, attributes, samples>>

Convert == SkipSample \/ function \/ location \/ EndSample \/ Build

ProfileSpec == ProfileInit /\ [][Convert]_profileVars

-----------------------------------------------------------------------------
(* What a receiver reads *)

Indices(t) == 0 .. Len(t.rows) - 1
Rows(t) == 1 .. Len(t.rows) - 1      \* the rows after the zero row

DecodedFunction(i) == [k \in 1 .. 3 |-> Row(strings, Row(functions, i)[k])]
DecodedLine(line) == <<DecodedFunction(line.function), line.line>>
DecodedLocation(i) ==
    LET row == Row(locations, i) IN
    [address |-> row.address, lines |-> [k \in DOMAIN row.lines |-> DecodedLine(row.lines[k])]]
DecodedStack(indices) == [k \in DOMAIN indices |-> DecodedLocation(indices[k])]
DecodedAttribute(i) ==
    LET row == Row(attributes, i) IN <<Row(strings, row.key), row.value>>
DecodedSample(s) ==
    [frames  |-> DecodedStack(Row(stacks, s.stack)),
     threads |-> [k \in DOMAIN s.attributes |-> DecodedAttribute(s.attributes[k])],
     value   |-> s.value]

-----------------------------------------------------------------------------
(* What was collected *)

\* The parts one after the other, up to each.
Joined(parts) ==
    LET upTo[n \in 0 .. Len(parts)] == IF n = 0 THEN <<>> ELSE upTo[n - 1] \o parts[n] IN upTo

SourceLine(symbol) == <<<<symbol.name, symbol.system_name, symbol.filename>>, symbol.line>>
SourceFrame(f) == [address |-> f[1].address, lines |-> [k \in DOMAIN f |-> SourceLine(f[k])]]

\* The resolved frames among the frames of a sample, up to each.
SourceFrames(s) ==
    Joined([k \in 1 .. Len(s.frames) |->
              IF s.frames[k] = <<>> THEN <<>> ELSE <<SourceFrame(s.frames[k])>>])

SourceSample(s) ==
    LET thread == Trim(s.thread_name) IN
    [frames  |-> SourceFrames(s)[Len(s.frames)],
     threads |-> IF thread = Empty THEN <<>> ELSE <<<<ThreadName, thread>>>>,
     value   |-> saturating_mul(s.count, period_ns)]

\* A sample is sent if it was hit and has a resolved frame.
Reported(s) == s.count > 0 /\ SourceFrames(s)[Len(s.frames)] # <<>>

\* The samples to be sent among those of the profile, up to each.
SourceSamples ==
    Joined([j \in 1 .. Len(collected.samples) |->
              IF Reported(collected.samples[j]) THEN <<SourceSample(collected.samples[j])>>
              ELSE <<>>])

-----------------------------------------------------------------------------
(* Properties *)

\* A receiver that follows the indices reads the profile that was collected: the
\* samples that were hit and have a resolved frame, in order, with their symbols,
\* addresses, thread and time; at every step of the conversion, however rows are
\* shared between the samples.
RoundTrip ==
    [j \in DOMAIN samples |-> DecodedSample(samples[j])] = SourceSamples[sampleAt - 1]

\* Every table keeps the zero row the format asks for at index 0, every index points
\* to a row that exists, and no line, stack or sample points to a zero row, which
\* would read as "none".
DictionaryIsClosed ==
    /\ Row(strings, 0) = Empty /\ Row(functions, 0) = ZeroFunction
    /\ Row(locations, 0) = ZeroLocation /\ Row(stacks, 0) = <<>>
    /\ Row(attributes, 0) = ZeroAttribute
    /\ \A i \in Rows(functions) : \A k \in 1 .. 3 : Row(functions, i)[k] \in Indices(strings)
    /\ \A i \in Rows(locations) : \A k \in DOMAIN Row(locations, i).lines :
          Row(locations, i).lines[k].function \in Rows(functions)
    /\ \A i \in Rows(stacks) : \A k \in DOMAIN Row(stacks, i) : Row(stacks, i)[k] \in Rows(locations)
    /\ \A i \in Rows(attributes) : Row(attributes, i).key \in Rows(strings)
    /\ \A j \in DOMAIN samples :
          /\ samples[j].stack \in Rows(stacks)
          /\ \A k \in DOMAIN samples[j].attributes : samples[j].attributes[k] \in Rows(attributes)

Shared(t) == \A i, j \in Rows(t) : Row(t, i) = Row(t, j) => i = j

\* What is equal is sent once: no two rows of a table are the same, the zero row
\* aside, which a symbol without any name repeats.
RowsAreShared ==
    Shared(strings) /\ Shared(functions) /\ Shared(locations) /\ Shared(stacks) /\ Shared(attributes)
=============================================================================
