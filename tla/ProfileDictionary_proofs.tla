---------------------- MODULE ProfileDictionary_proofs ----------------------
(***************************************************************************)
(* Proofs about ProfileDictionary, for any profile: the dictionary stays   *)
(* closed and its rows shared, and the request reads back as the profile.  *)
(* The first two follow from one invariant: each table's lookup map is the *)
(* inverse of its rows, and whatever holds an index, an unfinished frame or *)
(* sample included, holds one of a row that exists.  For the third, the    *)
(* lines, the stack and the samples made so far decode to what was         *)
(* collected, and no row they lead to ever moves.                          *)
(***************************************************************************)
EXTENDS ProfileDictionary, WellFoundedInduction, TLAPS

-----------------------------------------------------------------------------
(* Induction *)

\* The order of the natural numbers.
Below == {p \in Nat \X Nat : p[1] < p[2]}

\* Induction over a set: the numbers it misses have no least one.
LEMMA SetInduction ==
    ASSUME NEW S, 0 \in S, \A n \in Nat : n \in S => n + 1 \in S
    PROVE  Nat \subseteq S
<1> DEFINE T == Nat \ S
<1>1. SUFFICES ASSUME T # {} PROVE FALSE
  OBVIOUS
<1>2. IsWellFoundedOn(Below, Nat)
  BY NatLessThanWellFounded DEF OpToRel, Below
<1>3. PICK x \in T : \A y \in T : ~ (<<y, x>> \in Below)
  <2> HIDE DEF T
  <2>1. T \subseteq Nat
    BY DEF T
  <2> QED BY <1>1, <1>2, <2>1, WFMin, Zenon
<1>4. x # 0 /\ x - 1 \in T
  OBVIOUS
<1>5. <<x - 1, x>> \in Below
  BY DEF Below
<1> QED BY <1>3, <1>4, <1>5

Solves(f, n, base, step) == f[0] = base /\ \A i \in 1 .. n : f[i] = step[i][f[i - 1]]

\* A recursion over 0..n has a solution.
LEMMA Recursion ==
    ASSUME NEW n \in Nat, NEW V, NEW base \in V, NEW step \in [1 .. n -> [V -> V]]
    PROVE  \E f \in [0 .. n -> V] : Solves(f, n, base, step)
<1> DEFINE Ok(m) == \E f \in [0 .. m -> V] : Solves(f, m, base, step)
<1> DEFINE S == {m \in Nat : m <= n => Ok(m)}
<1>1. 0 \in S
  <2>1. [i \in 0 .. 0 |-> base] \in [0 .. 0 -> V] /\ Solves([i \in 0 .. 0 |-> base], 0, base, step)
    BY DEF Solves
  <2>2. Ok(0)
    BY <2>1
  <2> HIDE DEF Ok
  <2> QED BY <2>2
<1>2. ASSUME NEW m \in Nat, m \in S PROVE m + 1 \in S
  <2> SUFFICES ASSUME m + 1 <= n PROVE Ok(m + 1)
    <3> HIDE DEF Ok
    <3> QED OBVIOUS
  <2>1. Ok(m)
    <3> HIDE DEF Ok
    <3> QED BY <1>2
  <2>2. PICK f \in [0 .. m -> V] : Solves(f, m, base, step)
    BY <2>1
  <2> DEFINE g == [i \in 0 .. m + 1 |-> IF i = m + 1 THEN step[m + 1][f[m]] ELSE f[i]]
  <2>3. g \in [0 .. m + 1 -> V]
    OBVIOUS
  <2>4. Solves(g, m + 1, base, step)
    BY <2>2 DEF Solves
  <2> QED BY <2>3, <2>4
<1>3. n \in S
  <2> HIDE DEF S
  <2> QED BY <1>1, <1>2, SetInduction
<1>4. Ok(n)
  <2> HIDE DEF Ok
  <2> QED BY <1>3
<1> QED BY <1>4

-----------------------------------------------------------------------------
(* The dictionary's invariant *)

LineRow      == [function : Nat, line : Nat]
FunctionRow  == Nat \X Nat \X Nat
LocationRow  == [address : Address, lines : Seq(LineRow)]
AttributeRow == [key : Nat, value : String \cup {NoValue}]
SampleRow    == [stack : Nat, attributes : Seq(Nat), value : Int]

\* A table of rows in S whose map finds every row after the zero row, at its index,
\* and no index below lowest.
Indexed(t, S, lowest) ==
    /\ t = [rows |-> t.rows, lookup |-> t.lookup]
    /\ t.rows \in Seq(S) /\ Len(t.rows) > 0
    /\ t.lookup = [r \in DOMAIN t.lookup |-> t.lookup[r]]
    /\ \A r \in DOMAIN t.lookup : /\ t.lookup[r] \in lowest .. Len(t.rows) - 1
                                  /\ t.rows[t.lookup[r] + 1] = r
    /\ \A i \in 1 .. Len(t.rows) - 1 : /\ t.rows[i + 1] \in DOMAIN t.lookup
                                       /\ t.lookup[t.rows[i + 1]] = i

\* u is t, or t with rows added at its end.
Extends(u, t) ==
    /\ Len(t.rows) <= Len(u.rows)
    /\ \A i \in 1 .. Len(t.rows) : u.rows[i] = t.rows[i]
    /\ DOMAIN t.lookup \subseteq DOMAIN u.lookup
    /\ \A r \in DOMAIN t.lookup : u.lookup[r] = t.lookup[r]

Tables ==
    /\ Indexed(strings, String, 0)
    /\ Indexed(functions, FunctionRow, 1)
    /\ Indexed(locations, LocationRow, 1)
    /\ Indexed(stacks, Seq(Nat), 1)
    /\ Indexed(attributes, AttributeRow, 1)

\* The frame and the sample being rewritten.
Cursor ==
    /\ collected \in [samples : Seq(Sample), frequency : Int]
    /\ sampleAt \in Nat \ {0} /\ frameAt \in Nat \ {0}
    /\ lines \in Seq(LineRow) /\ locs \in Seq(Nat)
    /\ samples \in Seq(SampleRow)
    /\ \A k \in DOMAIN lines : lines[k].function \in Rows(functions)
    /\ \A k \in DOMAIN locs : locs[k] \in Rows(locations)

DictionaryInv == Tables /\ Cursor /\ DictionaryIsClosed

\* A step that only adds rows.
Grown ==
    /\ Extends(strings', strings) /\ Extends(functions', functions)
    /\ Extends(locations', locations) /\ Extends(stacks', stacks)
    /\ Extends(attributes', attributes)

-----------------------------------------------------------------------------
(* Tables *)

\* Putting a row keeps the map the inverse of the rows, moves no row, and leaves the
\* row at an index the map knows: DictionaryBuilder's common step.
LEMMA PutIndexes ==
    ASSUME NEW S, NEW t, NEW row \in S, NEW lowest \in {0, 1}, Indexed(t, S, lowest)
    PROVE  /\ Indexed(Put(t, row), S, lowest)
           /\ Extends(Put(t, row), t)
           /\ row \in DOMAIN Put(t, row).lookup
           /\ \A i \in Rows(Put(t, row)) : i \in Rows(t) \/ Row(Put(t, row), i) = row
<1>1. CASE row \in DOMAIN t.lookup
  BY <1>1 DEF Put, Extends, Indexed, Rows, Row
<1>2. CASE row \notin DOMAIN t.lookup
  <2> DEFINE n == Len(t.rows)
             more == Append(t.rows, row)
             map == [r \in DOMAIN t.lookup \cup {row} |-> IF r = row THEN n ELSE t.lookup[r]]
             u == [rows |-> more, lookup |-> map]
  <2>1. Put(t, row) = u
    BY <1>2 DEF Put
  <2>2. n \in Nat \ {0} /\ t.rows \in Seq(S) /\ more \in Seq(S) /\ Len(more) = n + 1
    BY DEF Indexed
  <2>3. /\ \A i \in 1 .. n : more[i] = t.rows[i]
        /\ more[n + 1] = row
    BY <2>2 DEF Indexed
  <2>4. /\ DOMAIN map = DOMAIN t.lookup \cup {row} /\ map[row] = n
        /\ \A r \in DOMAIN t.lookup : map[r] = t.lookup[r]
    BY <1>2
  <2>5. u.rows = more /\ u.lookup = map
    OBVIOUS
  <2>6. \A r \in DOMAIN map : map[r] \in lowest .. Len(more) - 1 /\ more[map[r] + 1] = r
    <3> SUFFICES ASSUME NEW r \in DOMAIN map
                 PROVE  map[r] \in lowest .. Len(more) - 1 /\ more[map[r] + 1] = r
      BY Zenon
    <3>1. CASE r = row
      <4> HIDE DEF map, more
      <4> QED BY <3>1, <2>2, <2>3, <2>4
    <3>2. CASE r \in DOMAIN t.lookup
      <4>1. t.lookup[r] \in lowest .. n - 1 /\ t.rows[t.lookup[r] + 1] = r
        BY <3>2 DEF Indexed
      <4> HIDE DEF map, more, n
      <4> QED BY <4>1, <3>2, <2>2, <2>3, <2>4
    <3> QED BY <3>1, <3>2, <2>4
  <2>7. \A i \in 1 .. Len(more) - 1 : more[i + 1] \in DOMAIN map /\ map[more[i + 1]] = i
    <3> SUFFICES ASSUME NEW i \in 1 .. Len(more) - 1
                 PROVE  more[i + 1] \in DOMAIN map /\ map[more[i + 1]] = i
      BY Zenon
    <3>1. CASE i = n
      <4> HIDE DEF map, more, n
      <4> QED BY <3>1, <2>2, <2>3, <2>4
    <3>2. CASE i \in 1 .. n - 1
      <4>1. t.rows[i + 1] \in DOMAIN t.lookup /\ t.lookup[t.rows[i + 1]] = i
        BY <3>2 DEF Indexed
      <4> HIDE DEF map, more, n
      <4> QED BY <4>1, <3>2, <2>2, <2>3, <2>4
    <3> QED BY <3>1, <3>2, <2>2
  <2>8. Indexed(u, S, lowest)
    <3>1. map = [r \in DOMAIN map |-> map[r]]
      OBVIOUS
    <3> HIDE DEF map, more
    <3> QED BY <3>1, <2>2, <2>5, <2>6, <2>7 DEF Indexed
  <2>9. Extends(u, t)
    <3> HIDE DEF map, more
    <3> QED BY <2>2, <2>3, <2>4, <2>5 DEF Extends
  <2>10. \A i \in Rows(u) : i \in Rows(t) \/ Row(u, i) = row
    <3> HIDE DEF map, more
    <3> QED BY <2>2, <2>3, <2>5 DEF Rows, Row
  <2> HIDE DEF u
  <2> QED BY <2>1, <2>4, <2>5, <2>8, <2>9, <2>10
<1> QED BY <1>1, <1>2

\* Rows that are added move none of the others, so several additions do not either.
LEMMA ExtendsIsTransitive ==
    ASSUME NEW a, NEW b, NEW c, Extends(b, a), Extends(c, b),
           Len(a.rows) \in Nat, Len(b.rows) \in Nat, Len(c.rows) \in Nat
    PROVE  Extends(c, a)
BY DEF Extends

\* A table that does not change.
LEMMA ExtendsItself ==
    ASSUME NEW t, NEW S, NEW lowest \in {0, 1}, Indexed(t, S, lowest)
    PROVE  Extends(t, t)
BY DEF Indexed, Extends

\* A map that is the inverse of the rows finds no row twice.
LEMMA IndexedIsShared ==
    ASSUME NEW t, NEW S, NEW lowest \in {0, 1}, Indexed(t, S, lowest)
    PROVE  Shared(t)
BY DEF Indexed, Shared, Rows, Row

\* A table that has grown still holds the rows it had, under their indices.
LEMMA OldRowsStay ==
    ASSUME NEW t, NEW u, NEW S, NEW lowest \in {0, 1}, Indexed(t, S, lowest),
           Indexed(u, S, lowest), Extends(u, t)
    PROVE  /\ Row(u, 0) = Row(t, 0)
           /\ Rows(t) \subseteq Rows(u) /\ Indices(t) \subseteq Indices(u)
           /\ \A i \in Rows(t) : Row(u, i) = Row(t, i)
BY DEF Indexed, Extends, Row, Rows, Indices

\* The rows of a table are of its kind.
LEMMA RowType ==
    ASSUME NEW t, NEW S, NEW lowest \in {0, 1}, Indexed(t, S, lowest), NEW i \in Rows(t)
    PROVE  Row(t, i) \in S
BY DEF Indexed, Rows, Row

\* An index the map knows is an index of the table, and has its row.
LEMMA FoundIsARow ==
    ASSUME NEW t, NEW S, NEW lowest \in {0, 1}, Indexed(t, S, lowest), NEW r \in DOMAIN t.lookup
    PROVE  /\ t.lookup[r] \in Indices(t) /\ Row(t, t.lookup[r]) = r
           /\ t.lookup[r] \in Nat
           /\ lowest = 1 => t.lookup[r] \in Rows(t)
           /\ r # Row(t, 0) => t.lookup[r] \in Rows(t)
BY DEF Indexed, Row, Rows, Indices

-----------------------------------------------------------------------------
(* The invariant *)

\* A builder that has just been made.
LEMMA DictionaryInit == ProfileInit => DictionaryInv
<1> SUFFICES ASSUME ProfileInit PROVE DictionaryInv
  OBVIOUS
<1> USE StringAssumption DEF ProfileInit, New
<1>1. ZeroFunction \in FunctionRow /\ ZeroLocation \in LocationRow /\ ZeroAttribute \in AttributeRow
  BY DEF ZeroFunction, ZeroLocation, ZeroAttribute, FunctionRow, LocationRow, AttributeRow
<1>2. ASSUME NEW S, NEW z \in S PROVE Indexed(Zero(z), S, 1)
  BY DEF Indexed, Zero
<1>3. Indexed(EmptyString, String, 0)
  BY DEF Indexed, EmptyString
<1>4. Tables
  <2>1. Indexed(functions, FunctionRow, 1)
    BY <1>1, <1>2
  <2>2. Indexed(locations, LocationRow, 1)
    BY <1>1, <1>2
  <2>3. Indexed(stacks, Seq(Nat), 1)
    <3> DEFINE S == Seq(Nat)  z == <<>>
    <3>1. z \in S /\ stacks = Zero(z)
      OBVIOUS
    <3> HIDE DEF S, z
    <3>2. Indexed(Zero(z), S, 1)
      BY <3>1, <1>2
    <3> QED BY <3>1, <3>2 DEF S
  <2>4. Indexed(attributes, AttributeRow, 1)
    BY <1>1, <1>2
  <2> QED BY <1>3, <2>1, <2>2, <2>3, <2>4 DEF Tables
<1>5. Cursor
  BY DEF Cursor
<1>6. DictionaryIsClosed
  BY DEF DictionaryIsClosed, Row, Rows, Zero, EmptyString
<1> QED BY <1>4, <1>5, <1>6 DEF DictionaryInv

\* The sample and the frame at the cursor are of the profile.
LEMMA AtCursor ==
    ASSUME DictionaryInv, Converting
    PROVE  /\ sample \in Sample
           /\ frameAt <= Len(sample.frames) => frame \in Seq(Symbol)
<1>1. sampleAt \in 1 .. Len(collected.samples) /\ collected.samples \in Seq(Sample)
  BY DEF DictionaryInv, Cursor, Converting
<1>2. sample \in Sample
  BY <1>1 DEF sample
<1>3. sample.frames \in Seq(Seq(Symbol)) /\ frameAt \in Nat \ {0}
  BY <1>2 DEF Sample, DictionaryInv, Cursor
<1> QED BY <1>2, <1>3 DEF frame

\* Interning the three strings of a symbol, or any row, only adds rows.
LEMMA StringsGrow ==
    ASSUME NEW t, NEW a \in String, NEW b \in String, Indexed(t, String, 0)
    PROVE  LET u == Put(Put(t, a), b) IN
           /\ Indexed(u, String, 0) /\ Extends(u, t)
           /\ a \in DOMAIN u.lookup /\ b \in DOMAIN u.lookup
<1> DEFINE v == Put(t, a)
           u == Put(v, b)
<1>1. Indexed(v, String, 0) /\ Extends(v, t) /\ a \in DOMAIN v.lookup
  BY PutIndexes
<1> HIDE DEF v
<1>2. Indexed(u, String, 0) /\ Extends(u, v) /\ b \in DOMAIN u.lookup
  BY <1>1, PutIndexes
<1> HIDE DEF u
<1>3. Len(t.rows) \in Nat /\ Len(v.rows) \in Nat /\ Len(u.rows) \in Nat
  BY <1>1, <1>2 DEF Indexed
<1>4. Extends(u, t)
  BY <1>1, <1>2, <1>3, ExtendsIsTransitive
<1>5. a \in DOMAIN u.lookup
  BY <1>1, <1>2 DEF Extends
<1>6. Indexed(u, String, 0) /\ Extends(u, t) /\ a \in DOMAIN u.lookup /\ b \in DOMAIN u.lookup
  BY <1>2, <1>4, <1>5
<1> QED BY <1>6 DEF u, v

\* function: a row for the symbol's strings, and a line that leads to them.
LEMMA FunctionStep ==
    ASSUME DictionaryInv, function
    PROVE  /\ DictionaryInv' /\ Grown
           /\ \E line \in LineRow :
                /\ lines' = Append(lines, line) /\ line.function \in Rows(functions')
                /\ DecodedLine(line)' = SourceLine(frame[Len(lines) + 1])
<1> DEFINE symbol == frame[Len(lines) + 1]
           key == <<strings'.lookup[symbol.name], strings'.lookup[symbol.system_name],
                    strings'.lookup[symbol.filename]>>
<1>1. symbol \in Symbol
  <2>1. frame \in Seq(Symbol) /\ lines \in Seq(LineRow) /\ Len(lines) < Len(frame)
    BY AtCursor, Zenon DEF function, InFrame, DictionaryInv, Cursor
  <2> QED BY SMTT(30), <2>1
<1>2. symbol.name \in String /\ symbol.system_name \in String /\ symbol.filename \in String
      /\ symbol.line \in Nat
  BY SMTT(30), <1>1 DEF Symbol
<1>3. /\ strings' = Put(Put(Put(strings, symbol.name), symbol.system_name), symbol.filename)
      /\ functions' = Put(functions, key)
      /\ lines' = Append(lines, [function |-> functions'.lookup[key], line |-> symbol.line])
      /\ UNCHANGED <<collected, sampleAt, frameAt, locs, locations, stacks, attributes, samples>>
  BY Zenon DEF function
<1> HIDE DEF symbol
<1>4. /\ Indexed(strings', String, 0) /\ Extends(strings', strings)
      /\ symbol.name \in DOMAIN strings'.lookup /\ symbol.system_name \in DOMAIN strings'.lookup
      /\ symbol.filename \in DOMAIN strings'.lookup
  <2> DEFINE u == Put(Put(strings, symbol.name), symbol.system_name)
  <2>1. Indexed(strings, String, 0)
    BY DEF DictionaryInv, Tables
  <2>2. /\ Indexed(u, String, 0) /\ Extends(u, strings)
        /\ symbol.name \in DOMAIN u.lookup /\ symbol.system_name \in DOMAIN u.lookup
    BY <1>2, <2>1, StringsGrow, SMTT(30)
  <2>3. strings' = Put(u, symbol.filename)
    BY <1>3
  <2> HIDE DEF u
  <2>4. /\ Indexed(strings', String, 0) /\ Extends(strings', u)
        /\ symbol.filename \in DOMAIN strings'.lookup
    BY <1>2, <2>2, <2>3, PutIndexes
  <2>5. Len(strings.rows) \in Nat /\ Len(u.rows) \in Nat /\ Len(strings'.rows) \in Nat
    BY <2>1, <2>2, <2>4 DEF Indexed
  <2>6. Extends(strings', strings)
    BY <2>2, <2>4, <2>5, ExtendsIsTransitive
  <2> QED BY <2>2, <2>4, <2>6 DEF Extends
<1>5. \A k \in 1 .. 3 : key[k] \in Indices(strings') /\ key[k] \in Nat
  BY <1>4, FoundIsARow
<1>6. key \in FunctionRow
  BY <1>5 DEF FunctionRow
<1> HIDE DEF key
<1>7. /\ Indexed(functions', FunctionRow, 1) /\ Extends(functions', functions)
      /\ key \in DOMAIN functions'.lookup
      /\ \A i \in Rows(functions') : i \in Rows(functions) \/ Row(functions', i) = key
  BY <1>3, <1>6, PutIndexes DEF DictionaryInv, Tables
<1>8. functions'.lookup[key] \in Rows(functions') /\ functions'.lookup[key] \in Nat
  BY <1>7, FoundIsARow
<1>9. /\ Row(strings', 0) = Row(strings, 0) /\ Indices(strings) \subseteq Indices(strings')
      /\ Rows(strings) \subseteq Rows(strings')
  BY <1>4, OldRowsStay, Zenon DEF DictionaryInv, Tables
<1>10. /\ Row(functions', 0) = Row(functions, 0) /\ Rows(functions) \subseteq Rows(functions')
       /\ \A i \in Rows(functions) : Row(functions', i) = Row(functions, i)
  BY <1>7, OldRowsStay DEF DictionaryInv, Tables
<1>11. Tables'
  BY <1>3, <1>4, <1>7 DEF DictionaryInv, Tables
<1>12. Cursor'
  <2> DEFINE new == [function |-> functions'.lookup[key], line |-> symbol.line]
  <2>1. new \in LineRow /\ new.function \in Rows(functions')
    BY <1>2, <1>8 DEF LineRow
  <2>2. lines' = Append(lines, new) /\ lines \in Seq(LineRow)
    BY <1>3 DEF DictionaryInv, Cursor
  <2> HIDE DEF new
  <2>3. lines' \in Seq(LineRow) /\ \A k \in DOMAIN lines' : lines'[k].function \in Rows(functions')
    BY <2>1, <2>2, <1>10, SMTT(30) DEF DictionaryInv, Cursor
  <2> QED BY <2>3, <1>3 DEF DictionaryInv, Cursor, Rows
<1>13. DictionaryIsClosed'
  <2>1. \A i \in Rows(functions') : \A k \in 1 .. 3 : Row(functions', i)[k] \in Indices(strings')
    BY <1>5, <1>7, <1>9, <1>10 DEF DictionaryInv, DictionaryIsClosed
  <2>2. /\ Row(strings', 0) = Empty /\ Row(functions', 0) = ZeroFunction
        /\ \A i \in Rows(attributes) : Row(attributes, i).key \in Rows(strings')
        /\ \A i \in Rows(locations) : \A k \in DOMAIN Row(locations, i).lines :
              Row(locations, i).lines[k].function \in Rows(functions')
    BY <1>9, <1>10 DEF DictionaryInv, DictionaryIsClosed
  <2> QED BY <2>1, <2>2, <1>3 DEF DictionaryInv, DictionaryIsClosed, Row, Rows
<1>14. Grown
  BY <1>3, <1>4, <1>7, ExtendsItself DEF Grown, DictionaryInv, Tables
<1>15. ASSUME NEW line, line = [function |-> functions'.lookup[key], line |-> symbol.line]
       PROVE  /\ line \in LineRow /\ line.function \in Rows(functions')
              /\ DecodedLine(line)' = SourceLine(symbol)
  <2>1. line \in LineRow /\ line.function = functions'.lookup[key] /\ line.line = symbol.line
    BY <1>2, <1>8, <1>15 DEF LineRow
  <2>2. Row(functions', line.function) = key
    BY <1>7, <2>1, FoundIsARow
  <2>3. /\ Row(strings', key[1]) = symbol.name /\ Row(strings', key[2]) = symbol.system_name
        /\ Row(strings', key[3]) = symbol.filename
    BY <1>4, FoundIsARow DEF key
  <2>4. [k \in 1 .. 3 |-> Row(strings', key[k])]
          = <<symbol.name, symbol.system_name, symbol.filename>>
    BY <2>3
  <2>5. DecodedLine(line)' = <<[k \in 1 .. 3 |-> Row(strings', key[k])], symbol.line>>
    BY <2>1, <2>2 DEF DecodedLine, DecodedFunction, Row
  <2> QED BY <1>8, <2>1, <2>4, <2>5 DEF SourceLine
<1> QED BY <1>3, <1>11, <1>12, <1>13, <1>14, <1>15 DEF DictionaryInv, symbol

\* location: a row for the frame's lines, if it has any.
LEMMA LocationStep ==
    ASSUME DictionaryInv, location
    PROVE  /\ DictionaryInv' /\ Grown
           /\ IF frame = <<>> THEN locs' = locs
              ELSE \E i \in Rows(locations') :
                     /\ locs' = Append(locs, i)
                     /\ Row(locations', i) = [address |-> frame[1].address, lines |-> lines]
<1> DEFINE row == [address |-> frame[1].address, lines |-> lines]
<1>1. frame \in Seq(Symbol) /\ lines \in Seq(LineRow) /\ locs \in Seq(Nat) /\ frameAt \in Nat \ {0}
  BY AtCursor DEF location, InFrame, DictionaryInv, Cursor
<1>2. /\ lines' = <<>> /\ frameAt' = frameAt + 1
      /\ UNCHANGED <<collected, sampleAt, strings, functions, stacks, attributes, samples>>
  BY DEF location
<1>3. CASE frame = <<>>
  <2>1. UNCHANGED <<locations, locs>>
    BY <1>3 DEF location
  <2>2. Tables' /\ Cursor'
    BY <2>1, <1>1, <1>2, SMTT(30) DEF DictionaryInv, Tables, Cursor, Rows
  <2>3. DictionaryIsClosed'
    BY <2>1, <1>2 DEF DictionaryInv, DictionaryIsClosed, Row, Rows, Indices
  <2>4. Grown
    BY <2>1, <1>2, ExtendsItself DEF Grown, DictionaryInv, Tables
  <2> QED BY <1>3, <2>1, <2>2, <2>3, <2>4 DEF DictionaryInv
<1>4. CASE frame # <<>>
  <2>1. locations' = Put(locations, row) /\ locs' = Append(locs, locations'.lookup[row])
    BY <1>4 DEF location
  <2>2. frame[1] \in Symbol
    BY <1>1, <1>4
  <2>3. row \in LocationRow
    BY <2>2, <1>1 DEF LocationRow, Symbol
  <2>4. row.lines = lines
    OBVIOUS
  <2> HIDE DEF row
  <2>5. /\ Indexed(locations', LocationRow, 1) /\ Extends(locations', locations)
        /\ row \in DOMAIN locations'.lookup
        /\ \A i \in Rows(locations') : i \in Rows(locations) \/ Row(locations', i) = row
    BY <2>1, <2>3, PutIndexes DEF DictionaryInv, Tables
  <2>6. locations'.lookup[row] \in Rows(locations') /\ locations'.lookup[row] \in Nat
    BY <2>5, FoundIsARow
  <2>7. /\ Row(locations', 0) = Row(locations, 0) /\ Rows(locations) \subseteq Rows(locations')
        /\ \A i \in Rows(locations) : Row(locations', i) = Row(locations, i)
    BY <2>5, OldRowsStay DEF DictionaryInv, Tables
  <2>8. Tables'
    BY <1>2, <2>5 DEF DictionaryInv, Tables
  <2>9. Cursor'
    <3>1. locs' \in Seq(Nat) /\ \A k \in DOMAIN locs' : locs'[k] \in Rows(locations')
      BY <1>1, <2>1, <2>6, <2>7, SMTT(30) DEF DictionaryInv, Cursor
    <3> QED BY <3>1, <1>1, <1>2 DEF DictionaryInv, Cursor, Rows
  <2>10. DictionaryIsClosed'
    <3>1. \A i \in Rows(locations') : \A k \in DOMAIN Row(locations', i).lines :
             Row(locations', i).lines[k].function \in Rows(functions)
      <4> SUFFICES ASSUME NEW i \in Rows(locations'), NEW k \in DOMAIN Row(locations', i).lines
                   PROVE  Row(locations', i).lines[k].function \in Rows(functions)
        OBVIOUS
      <4>1. CASE i \in Rows(locations)
        BY <4>1, <2>7 DEF DictionaryInv, DictionaryIsClosed
      <4>2. CASE Row(locations', i) = row
        BY <4>2, <2>4 DEF DictionaryInv, Cursor
      <4> QED BY <4>1, <4>2, <2>5
    <3>2. Row(locations', 0) = ZeroLocation
          /\ \A i \in Rows(stacks) : \A k \in DOMAIN Row(stacks, i) :
                Row(stacks, i)[k] \in Rows(locations')
      BY <2>7 DEF DictionaryInv, DictionaryIsClosed
    <3> QED BY <3>1, <3>2, <1>2 DEF DictionaryInv, DictionaryIsClosed, Row, Rows, Indices
  <2>11. Grown
    BY <1>2, <2>5, ExtendsItself DEF Grown, DictionaryInv, Tables
  <2>12. Row(locations', locations'.lookup[row]) = row
    BY <2>5, FoundIsARow
  <2> QED BY <1>4, <2>1, <2>6, <2>8, <2>9, <2>10, <2>11, <2>12 DEF DictionaryInv, row
<1> QED BY <1>3, <1>4

\* The value of a sample is an integer.
LEMMA ValueIsInt ==
    ASSUME DictionaryInv, NEW count \in Int
    PROVE  saturating_mul(count, period_ns) \in Int
<1>1. collected.frequency \in Int
  BY DEF DictionaryInv, Cursor
<1>2. period_ns \in Int
  BY <1>1, StringAssumption DEF period_ns
<1> QED BY <1>2, StringAssumption DEF saturating_mul

\* A thread's name gets an attribute whose key is the interned "thread.name".
LEMMA ThreadAttribute ==
    ASSUME DictionaryInv, NEW name \in String, thread_attribute(name)
    PROVE  LET row == [key |-> strings'.lookup[ThreadName], value |-> name] IN
           /\ Indexed(strings', String, 0) /\ Extends(strings', strings)
           /\ Indexed(attributes', AttributeRow, 1) /\ Extends(attributes', attributes)
           /\ row \in DOMAIN attributes'.lookup
           /\ Row(strings', row.key) = ThreadName
           /\ \A i \in Rows(attributes') : Row(attributes', i).key \in Rows(strings')
<1> DEFINE row == [key |-> strings'.lookup[ThreadName], value |-> name]
<1>1. /\ Indexed(strings', String, 0) /\ Extends(strings', strings)
      /\ ThreadName \in DOMAIN strings'.lookup
  BY PutIndexes, StringAssumption DEF DictionaryInv, Tables, thread_attribute
<1>2. Row(strings', 0) = Empty /\ Rows(strings) \subseteq Rows(strings')
  BY <1>1, OldRowsStay, Zenon DEF DictionaryInv, Tables, DictionaryIsClosed
<1>3. strings'.lookup[ThreadName] \in Rows(strings') /\ strings'.lookup[ThreadName] \in Nat
  BY <1>1, <1>2, FoundIsARow, StringAssumption
<1>4. row \in AttributeRow /\ row.key \in Rows(strings') /\ Row(strings', row.key) = ThreadName
  BY <1>1, <1>3, FoundIsARow DEF AttributeRow
<1>5. attributes' = Put(attributes, row)
  BY DEF thread_attribute
<1> HIDE DEF row
<1>6. /\ Indexed(attributes', AttributeRow, 1) /\ Extends(attributes', attributes)
      /\ row \in DOMAIN attributes'.lookup
      /\ \A i \in Rows(attributes') : i \in Rows(attributes) \/ Row(attributes', i) = row
  BY <1>4, <1>5, PutIndexes DEF DictionaryInv, Tables
<1>7. \A i \in Rows(attributes) : Row(attributes', i) = Row(attributes, i)
  BY <1>6, OldRowsStay, SMTT(30) DEF DictionaryInv, Tables
<1>8. \A i \in Rows(attributes') : Row(attributes', i).key \in Rows(strings')
  BY <1>2, <1>4, <1>6, <1>7 DEF DictionaryInv, DictionaryIsClosed
<1> QED BY <1>1, <1>4, <1>6, <1>8 DEF row

\* The threads a receiver reads off a sample, and the one it had.
DecodedThreads(s) == [k \in DOMAIN s.attributes |-> DecodedAttribute(s.attributes[k])]
Threads(name) == IF name = Empty THEN <<>> ELSE <<<<ThreadName, name>>>>

\* The end of a sample that is sent: its stack, its thread and its value.
LEMMA SampleIsSent ==
    ASSUME DictionaryInv, EndSample, locs # <<>>
    PROVE  /\ DictionaryInv' /\ Grown
           /\ \E s \in SampleRow :
                /\ samples' = Append(samples, s)
                /\ s.stack \in Rows(stacks') /\ Row(stacks', s.stack) = locs
                /\ DecodedThreads(s)' = Threads(Trim(sample.thread_name))
                /\ s.value = saturating_mul(sample.count, period_ns)
<1> DEFINE thread == Trim(sample.thread_name)
           row == [key |-> strings'.lookup[ThreadName], value |-> thread]
           attrs == IF thread # Empty THEN <<attributes'.lookup[row]>> ELSE <<>>
           new == [stack |-> stacks'.lookup[locs], attributes |-> attrs,
                   value |-> saturating_mul(sample.count, period_ns)]
<1>1. sample \in Sample /\ locs \in Seq(Nat) /\ sampleAt \in Nat \ {0} /\ samples \in Seq(SampleRow)
  BY AtCursor DEF EndSample, DictionaryInv, Cursor
<1>2. thread \in String /\ sample.count \in Int
  BY <1>1, StringAssumption DEF Sample
<1>3. /\ stacks' = Put(stacks, locs)
      /\ IF thread # Empty THEN thread_attribute(thread) ELSE UNCHANGED <<strings, attributes>>
      /\ samples' = Append(samples, new)
      /\ sampleAt' = sampleAt + 1 /\ frameAt' = 1 /\ locs' = <<>>
      /\ UNCHANGED <<collected, lines, functions, locations>>
  BY DEF EndSample
<1>4. /\ Indexed(stacks', Seq(Nat), 1) /\ Extends(stacks', stacks)
      /\ locs \in DOMAIN stacks'.lookup
      /\ \A i \in Rows(stacks') : i \in Rows(stacks) \/ Row(stacks', i) = locs
  <2> DEFINE S == Seq(Nat)
  <2>1. Indexed(stacks, S, 1) /\ locs \in S
    BY <1>1 DEF DictionaryInv, Tables
  <2> HIDE DEF S
  <2>2. /\ Indexed(stacks', S, 1) /\ Extends(stacks', stacks) /\ locs \in DOMAIN stacks'.lookup
        /\ \A i \in Rows(stacks') : i \in Rows(stacks) \/ Row(stacks', i) = locs
    BY <1>3, <2>1, PutIndexes
  <2> QED BY <2>2 DEF S
<1>5. stacks'.lookup[locs] \in Rows(stacks') /\ stacks'.lookup[locs] \in Nat
  BY <1>4, FoundIsARow
<1>6. /\ Row(stacks', 0) = Row(stacks, 0) /\ Rows(stacks) \subseteq Rows(stacks')
      /\ \A i \in Rows(stacks) : Row(stacks', i) = Row(stacks, i)
  BY <1>4, OldRowsStay DEF DictionaryInv, Tables
<1>7. /\ Indexed(strings', String, 0) /\ Extends(strings', strings)
      /\ Indexed(attributes', AttributeRow, 1) /\ Extends(attributes', attributes)
      /\ thread # Empty => row \in DOMAIN attributes'.lookup /\ Row(strings', row.key) = ThreadName
      /\ \A i \in Rows(attributes') : Row(attributes', i).key \in Rows(strings')
  <2> HIDE DEF thread
  <2>1. CASE thread # Empty
    BY <2>1, <1>2, <1>3, ThreadAttribute, SMTT(30)
  <2>2. CASE thread = Empty
    <3>1. strings' = strings /\ attributes' = attributes
      BY <2>2, <1>3
    <3> QED BY <2>2, <3>1 DEF DictionaryInv, Tables, DictionaryIsClosed, Extends, Indexed, Row, Rows
  <2> QED BY <2>1, <2>2, SMTT(30)
<1>8. attrs \in Seq(Nat) /\ \A k \in DOMAIN attrs : attrs[k] \in Rows(attributes')
  <2> HIDE DEF thread, row
  <2>1. CASE thread # Empty
    <3>1. attributes'.lookup[row] \in Rows(attributes') /\ attributes'.lookup[row] \in Nat
      BY <2>1, <1>7, FoundIsARow
    <3> QED BY <3>1, <2>1, SMTT(30)
  <2>2. CASE thread = Empty
    BY <2>2, SMTT(30)
  <2> QED BY <2>1, <2>2
<1>9. /\ Row(strings', 0) = Row(strings, 0) /\ Indices(strings) \subseteq Indices(strings')
      /\ Row(attributes', 0) = Row(attributes, 0) /\ Rows(attributes) \subseteq Rows(attributes')
  BY <1>7, OldRowsStay, Zenon DEF DictionaryInv, Tables
<1>10. /\ new \in SampleRow /\ new.stack \in Rows(stacks')
       /\ \A k \in DOMAIN new.attributes : new.attributes[k] \in Rows(attributes')
       /\ new.stack = stacks'.lookup[locs] /\ new.attributes = attrs
       /\ new.value = saturating_mul(sample.count, period_ns)
  <2> DEFINE value == saturating_mul(sample.count, period_ns)
  <2>1. value \in Int
    BY <1>2, ValueIsInt
  <2>2. new = [stack |-> stacks'.lookup[locs], attributes |-> attrs, value |-> value]
    OBVIOUS
  <2> HIDE DEF value, attrs, new
  <2>3. new.stack = stacks'.lookup[locs] /\ new.attributes = attrs /\ new.value = value
    BY <2>2
  <2>4. new \in SampleRow
    BY <2>1, <2>2, <1>5, <1>8, SMTT(30) DEF SampleRow
  <2> QED BY <2>3, <2>4, <1>5, <1>8 DEF value
<1> HIDE DEF new
<1>11. /\ samples' \in Seq(SampleRow)
       /\ \A j \in DOMAIN samples' :
            /\ samples'[j].stack \in Rows(stacks')
            /\ \A k \in DOMAIN samples'[j].attributes : samples'[j].attributes[k] \in Rows(attributes')
  BY <1>1, <1>3, <1>6, <1>9, <1>10, SMTT(30) DEF DictionaryInv, DictionaryIsClosed
<1>12. Tables'
  BY <1>3, <1>4, <1>7, Zenon DEF DictionaryInv, Tables
<1>13. Cursor'
  <2>1. functions' = functions /\ locations' = locations /\ lines' = lines /\ collected' = collected
    BY <1>3
  <2>2. locs' = <<>> /\ frameAt' = 1 /\ sampleAt' \in Nat \ {0}
    BY <1>1, <1>3
  <2> QED BY <1>11, <2>1, <2>2 DEF DictionaryInv, Cursor, Rows
<1>14. DictionaryIsClosed'
  <2>1. \A i \in Rows(stacks') : \A k \in DOMAIN Row(stacks', i) : Row(stacks', i)[k] \in Rows(locations)
    BY <1>4, <1>6, SMTT(30) DEF DictionaryInv, DictionaryIsClosed, Cursor
  <2>2. \A i \in Rows(functions) : \A k \in 1 .. 3 : Row(functions, i)[k] \in Indices(strings')
    BY <1>9 DEF DictionaryInv, DictionaryIsClosed
  <2>3. Row(strings', 0) = Empty /\ Row(stacks', 0) = <<>> /\ Row(attributes', 0) = ZeroAttribute
    BY <1>6, <1>9, SMTT(30) DEF DictionaryInv, DictionaryIsClosed
  <2> QED BY <2>1, <2>2, <2>3, <1>3, <1>7, <1>11, ZenonT(60) DEF DictionaryInv, DictionaryIsClosed, Row, Rows
<1>15. Grown
  BY <1>3, <1>4, <1>7, ExtendsItself, SMTT(30) DEF Grown, DictionaryInv, Tables
<1>16. Row(stacks', new.stack) = locs
  BY <1>4, <1>10, FoundIsARow, Zenon
<1>17. PICK s \in SampleRow : s = new
  BY <1>10
<1>18. DecodedThreads(s)' = Threads(thread)
  <2>1. s.attributes = attrs
    BY <1>10, <1>17
  <2> HIDE DEF thread, row
  <2>2. CASE thread # Empty
    <3>1. PICK i \in Rows(attributes') : i = attributes'.lookup[row] /\ Row(attributes', i) = row
      BY <2>2, <1>7, FoundIsARow
    <3>2. row.value = thread /\ Row(strings', row.key) = ThreadName
      BY <2>2, <1>7 DEF row
    <3>3. DecodedAttribute(i)' = <<ThreadName, thread>>
      BY <3>1, <3>2 DEF DecodedAttribute, Row
    <3>4. s.attributes = <<i>>
      BY <2>1, <2>2, <3>1
    <3>5. DecodedThreads(s)' = <<DecodedAttribute(i)'>>
      BY <3>4 DEF DecodedThreads, DecodedAttribute, Row
    <3> QED BY <2>2, <3>3, <3>5, SMTT(30) DEF Threads
  <2>3. CASE thread = Empty
    BY <2>1, <2>3, SMTT(30) DEF DecodedThreads, Threads
  <2> QED BY <2>2, <2>3, SMTT(30)
<1>19. /\ samples' = Append(samples, s) /\ s.stack \in Rows(stacks') /\ Row(stacks', s.stack) = locs
       /\ s.value = saturating_mul(sample.count, period_ns)
  BY <1>3, <1>10, <1>16, <1>17, Zenon
<1> QED BY <1>12, <1>13, <1>14, <1>15, <1>18, <1>19 DEF DictionaryInv

\* The steps that add no row but strings: a sample left out, and the end.
LEMMA OtherSteps ==
    ASSUME DictionaryInv, SkipSample \/ Build \/ (EndSample /\ locs = <<>>)
    PROVE  DictionaryInv' /\ Grown
<1>1. CASE SkipSample \/ (EndSample /\ locs = <<>>)
  <2>1. /\ UNCHANGED <<collected, lines, strings, functions, locations, stacks, attributes, samples>>
        /\ sampleAt' = sampleAt + 1 /\ (frameAt' = frameAt \/ frameAt' = 1) /\ locs' = locs
    BY <1>1, SMTT(30) DEF SkipSample, EndSample
  <2>2. Tables' /\ Cursor'
    BY <2>1, SMTT(30) DEF DictionaryInv, Tables, Cursor, Rows
  <2>3. DictionaryIsClosed'
    BY <2>1 DEF DictionaryInv, DictionaryIsClosed, Row, Rows, Indices
  <2>4. Grown
    BY <2>1, ExtendsItself DEF Grown, DictionaryInv, Tables
  <2> QED BY <2>2, <2>3, <2>4 DEF DictionaryInv
<1>2. CASE Build
  <2>1. /\ strings' = Put(Put(strings, Cpu), Nanoseconds)
        /\ UNCHANGED <<collected, sampleAt, frameAt, lines, locs, functions, locations, stacks,
                       attributes, samples>>
    BY <1>2 DEF Build, cursorVars
  <2>2. Indexed(strings', String, 0) /\ Extends(strings', strings)
    BY <2>1, StringsGrow, StringAssumption DEF DictionaryInv, Tables
  <2>3. /\ Row(strings', 0) = Row(strings, 0) /\ Indices(strings) \subseteq Indices(strings')
        /\ Rows(strings) \subseteq Rows(strings')
    BY <2>2, OldRowsStay, Zenon DEF DictionaryInv, Tables
  <2>4. Tables' /\ Cursor'
    BY <2>1, <2>2 DEF DictionaryInv, Tables, Cursor, Rows
  <2>5. /\ \A i \in Rows(functions) : \A k \in 1 .. 3 : Row(functions, i)[k] \in Indices(strings')
        /\ \A i \in Rows(attributes) : Row(attributes, i).key \in Rows(strings')
        /\ Row(strings', 0) = Empty
    BY <2>3, SMTT(30) DEF DictionaryInv, DictionaryIsClosed
  <2>6. DictionaryIsClosed'
    BY <2>1, <2>5 DEF DictionaryInv, DictionaryIsClosed, Row, Rows
  <2>7. Grown
    BY <2>1, <2>2, ExtendsItself DEF Grown, DictionaryInv, Tables
  <2> QED BY <2>4, <2>6, <2>7 DEF DictionaryInv
<1> QED BY <1>1, <1>2

\* Every step of the conversion keeps the invariant.
LEMMA DictionaryStep == DictionaryInv /\ [Convert]_profileVars => DictionaryInv'
<1> SUFFICES ASSUME DictionaryInv, [Convert]_profileVars PROVE DictionaryInv'
  OBVIOUS
<1>1. CASE function
  BY <1>1, FunctionStep
<1>2. CASE location
  BY <1>2, LocationStep
<1>3. CASE EndSample
  <2>1. CASE locs = <<>>
    BY <1>3, <2>1, OtherSteps
  <2>2. CASE locs # <<>>
    BY <1>3, <2>2, SampleIsSent
  <2> QED BY <2>1, <2>2
<1>4. CASE SkipSample \/ Build
  <2>1. SkipSample \/ Build \/ (EndSample /\ locs = <<>>)
    BY <1>4
  <2> QED BY <2>1, OtherSteps
<1>5. CASE UNCHANGED profileVars
  <2>1. UNCHANGED <<collected, sampleAt, frameAt, lines, locs, strings, functions, locations, stacks,
                    attributes, samples>>
    BY <1>5 DEF profileVars, cursorVars
  <2>2. Tables' /\ Cursor'
    BY <2>1, SMTT(30) DEF DictionaryInv, Tables, Cursor, Rows
  <2>3. DictionaryIsClosed'
    BY <2>1 DEF DictionaryInv, DictionaryIsClosed, Row, Rows, Indices
  <2> QED BY <2>2, <2>3 DEF DictionaryInv
<1> QED BY <1>1, <1>2, <1>3, <1>4, <1>5 DEF Convert

\* The dictionary of every request is closed, for any profile: each table keeps its
\* zero row, and every index of build_export_request leads to a row that is there.
THEOREM DictionaryStaysClosed == ProfileSpec => []DictionaryIsClosed
<1>1. DictionaryInv => DictionaryIsClosed
  BY DEF DictionaryInv
<1> QED BY <1>1, DictionaryInit, DictionaryStep, PTL DEF ProfileSpec

\* No row of a request repeats another, for any profile: the lookup maps of
\* DictionaryBuilder miss nothing that is already in the tables.
THEOREM RowsStayShared == ProfileSpec => []RowsAreShared
<1>1. DictionaryInv => RowsAreShared
  BY IndexedIsShared DEF DictionaryInv, Tables, RowsAreShared
<1> QED BY <1>1, DictionaryInit, DictionaryStep, PTL DEF ProfileSpec

-----------------------------------------------------------------------------
(* Reading the request back *)

\* One sequence after another.
LEMMA ConcatType ==
    ASSUME NEW V, NEW p \in Seq(V), NEW q \in Seq(V)
    PROVE  p \o q \in Seq(V)
OBVIOUS

\* Nothing, or one thing, after a sequence.
LEMMA ConcatOne ==
    ASSUME NEW V, NEW p \in Seq(V), NEW x \in V
    PROVE  p \o <<>> = p /\ p \o <<x>> = Append(p, x)
OBVIOUS

\* What Joined computes, part by part.
LEMMA JoinedDef ==
    ASSUME NEW V, NEW parts \in Seq(Seq(V))
    PROVE  /\ Joined(parts) \in [0 .. Len(parts) -> Seq(V)]
           /\ Joined(parts)[0] = <<>>
           /\ \A n \in 1 .. Len(parts) : Joined(parts)[n] = Joined(parts)[n - 1] \o parts[n]
<1> DEFINE c == Len(parts)
<1> DEFINE W == Seq(V)
<1> DEFINE step == [i \in 1 .. c |-> [v \in W |-> v \o parts[i]]]
<1> DEFINE Body(f) == [n \in 0 .. c |-> IF n = 0 THEN <<>> ELSE f[n - 1] \o parts[n]]
<1>1. c \in Nat /\ \A i \in 1 .. c : parts[i] \in W
  OBVIOUS
<1>2. <<>> \in W
  OBVIOUS
<1>3. \A v \in W : \A i \in 1 .. c : v \o parts[i] \in W
  <2> HIDE DEF c
  <2> QED BY <1>1, ConcatType, Zenon
<1> DEFINE h == CHOOSE x : x = Body(x)
<1>4. Joined(parts) = h
  BY Zenon DEF Joined
<1> HIDE DEF c, W
<1>5. PICK f \in [0 .. c -> W] : Solves(f, c, <<>>, step)
  <2>1. step \in [1 .. c -> [W -> W]]
    BY <1>3, Zenon
  <2> HIDE DEF step
  <2> QED BY <1>1, <1>2, <2>1, Recursion, Zenon
<1>6. f = Body(f)
  <2>1. \A n \in 1 .. c : n \in 0 .. c /\ n - 1 \in 0 .. c
    BY <1>1
  <2>2. \A n \in 1 .. c : f[n] = step[n][f[n - 1]] /\ f[n - 1] \in W
    BY <1>5, <2>1, Zenon DEF Solves
  <2>3. f[0] = <<>> /\ \A n \in 1 .. c : f[n] = f[n - 1] \o parts[n]
    BY <1>5, <2>2, Zenon DEF Solves
  <2>4. \A n \in 0 .. c : n = 0 \/ n \in 1 .. c
    BY <1>1
  <2>5. \A n \in 0 .. c : f[n] = IF n = 0 THEN <<>> ELSE f[n - 1] \o parts[n]
    BY <2>3, <2>4, Zenon
  <2>6. f = [n \in 0 .. c |-> f[n]]
    BY <1>5, Zenon
  <2> QED BY <2>5, <2>6, Zenon
<1>7. h = Body(h)
  <2> HIDE DEF Body
  <2> QED BY <1>6, Zenon
<1> HIDE DEF h
<1>8. h[0] = <<>> /\ \A n \in 1 .. c : h[n] = h[n - 1] \o parts[n]
  <2>1. 0 \in 0 .. c /\ \A n \in 1 .. c : n # 0 /\ n \in 0 .. c
    BY <1>1
  <2>2. \A n \in 0 .. c : Body(h)[n] = IF n = 0 THEN <<>> ELSE h[n - 1] \o parts[n]
    BY Zenon
  <2> HIDE DEF Body
  <2> QED BY <1>7, <2>1, <2>2, Zenon
<1> DEFINE T == {m \in Nat : m \in 0 .. c => h[m] \in W}
<1>9. ASSUME NEW m \in Nat, m \in T PROVE m + 1 \in T
  <2> SUFFICES ASSUME m + 1 \in 0 .. c PROVE h[m + 1] \in W
    OBVIOUS
  <2>1. m + 1 \in 1 .. c /\ (m + 1) - 1 = m /\ m \in 0 .. c
    BY <1>1
  <2>2. h[m + 1] = h[m] \o parts[m + 1] /\ h[m] \in W
    BY <1>8, <1>9, <2>1, Zenon
  <2> QED BY <1>3, <2>1, <2>2, Zenon
<1>10. Nat \subseteq T
  <2>1. 0 \in T
    BY <1>2, <1>8
  <2> HIDE DEF T
  <2> QED BY <1>9, <2>1, SetInduction, SMTT(30)
<1>11. h \in [0 .. c -> W]
  <2>1. \A m \in 0 .. c : h[m] \in W
    BY <1>1, <1>10
  <2>2. h = [n \in 0 .. c |-> h[n]]
    BY <1>7, Zenon
  <2> QED BY <2>1, <2>2, Zenon
<1> QED BY <1>4, <1>8, <1>11, Zenon DEF c, W

\* The frames of a sample that are resolved, one by one.
LEMMA FramesDef ==
    ASSUME NEW s \in Sample
    PROVE  LET F == SourceFrames(s) IN
           /\ F[0] = <<>>
           /\ \A n \in 1 .. Len(s.frames) :
                F[n] = IF s.frames[n] = <<>> THEN F[n - 1]
                       ELSE Append(F[n - 1], SourceFrame(s.frames[n]))
<1> DEFINE V == {SourceFrame(f) : f \in Seq(Symbol)}
<1> DEFINE n == Len(s.frames)
<1> DEFINE part(k) == IF s.frames[k] = <<>> THEN <<>> ELSE <<SourceFrame(s.frames[k])>>
<1> DEFINE parts == [k \in 1 .. n |-> part(k)]
<1>1. n \in Nat /\ \A k \in 1 .. n : s.frames[k] \in Seq(Symbol)
  BY DEF Sample
<1>2. SourceFrames(s) = Joined(parts)
  BY Zenon DEF SourceFrames
<1>3. \A k \in 1 .. n : SourceFrame(s.frames[k]) \in V
  BY <1>1, Zenon
<1> HIDE DEF V, n
<1>4. \A k \in 1 .. n : part(k) \in Seq(V)
  BY <1>3
<1>5. parts \in Seq(Seq(V)) /\ Len(parts) = n /\ \A k \in 1 .. n : parts[k] = part(k)
  <2>1. parts \in [1 .. n -> Seq(V)] /\ \A k \in 1 .. n : parts[k] = part(k)
    BY <1>4, Zenon
  <2> HIDE DEF parts, part
  <2> QED BY <1>1, <2>1
<1> DEFINE F == SourceFrames(s)
<1>6. /\ F \in [0 .. n -> Seq(V)] /\ F[0] = <<>>
      /\ \A k \in 1 .. n : F[k] = F[k - 1] \o part(k)
  <2>1. /\ F \in [0 .. Len(parts) -> Seq(V)] /\ F[0] = <<>>
        /\ \A k \in 1 .. Len(parts) : F[k] = F[k - 1] \o parts[k]
    <3> HIDE DEF parts, part
    <3> QED BY <1>2, <1>5, JoinedDef, Zenon
  <2> HIDE DEF F, parts
  <2> QED BY <1>5, <2>1, Zenon
<1> HIDE DEF F
<1>7. ASSUME NEW k \in 1 .. n
      PROVE  F[k] = IF s.frames[k] = <<>> THEN F[k - 1] ELSE Append(F[k - 1], SourceFrame(s.frames[k]))
  <2>1. k - 1 \in 0 .. n
    BY <1>1
  <2>2. F[k - 1] \in Seq(V) /\ F[k] = F[k - 1] \o part(k)
    BY <1>6, <2>1, Zenon
  <2>3. SourceFrame(s.frames[k]) \in V
    BY <1>3
  <2> QED BY <2>2, <2>3, ConcatOne, Zenon
<1> QED BY <1>6, <1>7, Zenon DEF F, n

\* The samples that are to be sent, one by one.
LEMMA SamplesDef ==
    ASSUME DictionaryInv
    PROVE  /\ SourceSamples[0] = <<>>
           /\ \A n \in 1 .. Len(collected.samples) :
                SourceSamples[n] = IF Reported(collected.samples[n])
                                   THEN Append(SourceSamples[n - 1], SourceSample(collected.samples[n]))
                                   ELSE SourceSamples[n - 1]
<1> DEFINE V == {SourceSample(s) : s \in Sample}
<1> DEFINE n == Len(collected.samples)
<1> DEFINE part(k) == IF Reported(collected.samples[k]) THEN <<SourceSample(collected.samples[k])>>
                      ELSE <<>>
<1> DEFINE parts == [k \in 1 .. n |-> part(k)]
<1>1. n \in Nat /\ \A k \in 1 .. n : collected.samples[k] \in Sample
  BY DEF DictionaryInv, Cursor
<1>2. SourceSamples = Joined(parts)
  BY Zenon DEF SourceSamples
<1>3. \A k \in 1 .. n : SourceSample(collected.samples[k]) \in V
  BY <1>1, Zenon
<1> HIDE DEF V, n
<1>4. \A k \in 1 .. n : part(k) \in Seq(V)
  BY <1>3
<1>5. parts \in Seq(Seq(V)) /\ Len(parts) = n /\ \A k \in 1 .. n : parts[k] = part(k)
  <2>1. parts \in [1 .. n -> Seq(V)] /\ \A k \in 1 .. n : parts[k] = part(k)
    BY <1>4, Zenon
  <2> HIDE DEF parts, part
  <2> QED BY <1>1, <2>1
<1> DEFINE F == SourceSamples
<1>6. /\ F \in [0 .. n -> Seq(V)] /\ F[0] = <<>>
      /\ \A k \in 1 .. n : F[k] = F[k - 1] \o part(k)
  <2>1. /\ F \in [0 .. Len(parts) -> Seq(V)] /\ F[0] = <<>>
        /\ \A k \in 1 .. Len(parts) : F[k] = F[k - 1] \o parts[k]
    <3> HIDE DEF parts, part
    <3> QED BY <1>2, <1>5, JoinedDef, Zenon
  <2> HIDE DEF F, parts
  <2> QED BY <1>5, <2>1, Zenon
<1> HIDE DEF F
<1>7. ASSUME NEW k \in 1 .. n
      PROVE  F[k] = IF Reported(collected.samples[k])
                    THEN Append(F[k - 1], SourceSample(collected.samples[k])) ELSE F[k - 1]
  <2>1. k - 1 \in 0 .. n
    BY <1>1
  <2>2. F[k - 1] \in Seq(V) /\ F[k] = F[k - 1] \o part(k)
    BY <1>6, <2>1, Zenon
  <2>3. SourceSample(collected.samples[k]) \in V
    BY <1>3
  <2> QED BY <2>2, <2>3, ConcatOne, Zenon
<1> QED BY <1>6, <1>7, Zenon DEF F, n

\* Rows that are added change nothing of what a receiver reads behind the indices that
\* were given out before.
LEMMA DecodingStays ==
    ASSUME DictionaryInv, DictionaryInv', Grown
    PROVE  /\ \A l \in LineRow : l.function \in Rows(functions) => DecodedLine(l)' = DecodedLine(l)
           /\ \A q \in Seq(Nat) : (\A k \in DOMAIN q : q[k] \in Rows(locations))
                => DecodedStack(q)' = DecodedStack(q)
           /\ \A s \in SampleRow :
                /\ s.stack \in Rows(stacks)
                /\ \A k \in DOMAIN s.attributes : s.attributes[k] \in Rows(attributes)
                => DecodedSample(s)' = DecodedSample(s)
<1>1. \A i \in Indices(strings) : Row(strings', i) = Row(strings, i)
  <2>1. Row(strings', 0) = Row(strings, 0) /\ \A i \in Rows(strings) : Row(strings', i) = Row(strings, i)
    BY OldRowsStay, ZenonT(60) DEF DictionaryInv, Tables, Grown
  <2>2. \A i \in Indices(strings) : i = 0 \/ i \in Rows(strings)
    BY DEF Indices, Rows, DictionaryInv, Tables, Indexed
  <2> QED BY <2>1, <2>2
<1>2. /\ \A i \in Rows(functions) : Row(functions', i) = Row(functions, i)
      /\ \A i \in Rows(locations) : Row(locations', i) = Row(locations, i)
      /\ \A i \in Rows(stacks) : Row(stacks', i) = Row(stacks, i)
      /\ \A i \in Rows(attributes) : Row(attributes', i) = Row(attributes, i)
  BY OldRowsStay DEF DictionaryInv, Tables, Grown
<1>3. ASSUME NEW i \in Rows(functions) PROVE DecodedFunction(i)' = DecodedFunction(i)
  <2>1. \A k \in 1 .. 3 : Row(functions, i)[k] \in Indices(strings)
    BY DEF DictionaryInv, DictionaryIsClosed
  <2> QED BY <1>1, <1>2, <2>1, SMTT(30) DEF DecodedFunction
<1>4. ASSUME NEW l \in LineRow, l.function \in Rows(functions) PROVE DecodedLine(l)' = DecodedLine(l)
  <2>1. PICK i \in Rows(functions) : i = l.function
    BY <1>4
  <2> QED BY <1>3, <2>1 DEF DecodedLine
<1>5. ASSUME NEW i \in Rows(locations) PROVE DecodedLocation(i)' = DecodedLocation(i)
  <2>1. PICK r \in LocationRow : r = Row(locations, i)
    BY RowType DEF DictionaryInv, Tables
  <2>2. Row(locations', i) = r
    BY <1>2, <2>1, SMTT(30)
  <2>3. \A k \in DOMAIN r.lines : r.lines[k] \in LineRow /\ r.lines[k].function \in Rows(functions)
    BY <2>1, SMTT(30) DEF LocationRow, DictionaryInv, DictionaryIsClosed
  <2>4. \A k \in DOMAIN r.lines : DecodedLine(r.lines[k])' = DecodedLine(r.lines[k])
    BY <1>4, <2>3
  <2> QED BY <2>1, <2>2, <2>4 DEF DecodedLocation
<1>6. ASSUME NEW q \in Seq(Nat), \A k \in DOMAIN q : q[k] \in Rows(locations)
      PROVE  DecodedStack(q)' = DecodedStack(q)
  BY <1>5, <1>6 DEF DecodedStack
<1>7. ASSUME NEW i \in Rows(attributes) PROVE DecodedAttribute(i)' = DecodedAttribute(i)
  <2>1. Row(attributes, i).key \in Indices(strings)
    BY DEF DictionaryInv, DictionaryIsClosed, Rows, Indices
  <2> QED BY <1>1, <1>2, <2>1, SMTT(30) DEF DecodedAttribute
<1>8. ASSUME NEW s \in SampleRow, s.stack \in Rows(stacks),
             \A k \in DOMAIN s.attributes : s.attributes[k] \in Rows(attributes)
      PROVE  DecodedSample(s)' = DecodedSample(s)
  <2>1. PICK q \in Seq(Nat) : q = Row(stacks, s.stack)
    <3> DEFINE S == Seq(Nat)
    <3>1. Indexed(stacks, S, 1)
      BY DEF DictionaryInv, Tables
    <3> HIDE DEF S
    <3>2. Row(stacks, s.stack) \in S
      BY <1>8, <3>1, RowType, SMTT(30)
    <3> QED BY <3>2 DEF S
  <2>2. Row(stacks', s.stack) = q /\ \A k \in DOMAIN q : q[k] \in Rows(locations)
    BY <1>2, <1>8, <2>1 DEF DictionaryInv, DictionaryIsClosed
  <2>3. DecodedStack(q)' = DecodedStack(q)
    BY <1>6, <2>2
  <2>4. \A k \in DOMAIN s.attributes : DecodedAttribute(s.attributes[k])' = DecodedAttribute(s.attributes[k])
    BY <1>7, <1>8
  <2> QED BY <2>1, <2>2, <2>3, <2>4 DEF DecodedSample
<1> QED BY <1>4, <1>6, <1>8

\* What has been rewritten so far reads as it was collected: the lines of the frame
\* that is open, the stack of the sample that is open, and the samples.
Mirrored ==
    /\ \A k \in DOMAIN lines : InFrame /\ DecodedLine(lines[k]) = SourceLine(frame[k])
    /\ \/ locs = <<>> /\ frameAt = 1
       \/ /\ Converting /\ sample.count > 0 /\ frameAt <= Len(sample.frames) + 1
          /\ DecodedStack(locs) = SourceFrames(sample)[frameAt - 1]
    /\ RoundTrip

\* A sample that is open reads, so far, as its first frames.
LEMMA StackSoFar ==
    ASSUME DictionaryInv, Mirrored, Converting, sample.count > 0
    PROVE  DecodedStack(locs) = SourceFrames(sample)[frameAt - 1]
<1>1. CASE locs = <<>> /\ frameAt = 1
  <2>1. sample \in Sample
    BY AtCursor
  <2>2. SourceFrames(sample)[0] = <<>>
    BY <2>1, FramesDef
  <2>3. DecodedStack(<<>>) = <<>>
    BY DEF DecodedStack
  <2> QED BY <1>1, <2>2, <2>3
<1> QED BY <1>1 DEF Mirrored

\* The j-th sample read back after a step is the sample that is then there, read back.
LEMMA SampleAfter ==
    ASSUME NEW j, NEW s, samples'[j] = s
    PROVE  DecodedSample(samples[j])' = DecodedSample(s)'
BY Zenon DEF DecodedSample

\* A step that sends no sample, and moves past none that is to be sent.
LEMMA SamplesStay ==
    ASSUME DictionaryInv, DictionaryInv', Grown, RoundTrip, UNCHANGED <<collected, samples>>,
           SourceSamples[sampleAt' - 1] = SourceSamples[sampleAt - 1]
    PROVE  RoundTrip'
<1>1. \A j \in DOMAIN samples :
        /\ samples[j] \in SampleRow /\ samples[j].stack \in Rows(stacks)
        /\ \A k \in DOMAIN samples[j].attributes : samples[j].attributes[k] \in Rows(attributes)
  BY SMTT(30) DEF DictionaryInv, Cursor, DictionaryIsClosed
<1>2. ASSUME NEW j \in DOMAIN samples PROVE DecodedSample(samples[j])' = DecodedSample(samples[j])
  <2>1. PICK s \in SampleRow : s = samples[j] /\ s = samples'[j]
    BY <1>1, SMTT(30)
  <2>2. DecodedSample(s)' = DecodedSample(s)
    BY <1>1, <2>1, DecodingStays, Zenon
  <2>3. DecodedSample(samples[j])' = DecodedSample(s)'
    BY <2>1, SampleAfter
  <2> QED BY <2>1, <2>2, <2>3
<1>3. [j \in DOMAIN samples |-> DecodedSample(samples[j])]'
        = [j \in DOMAIN samples |-> DecodedSample(samples[j])]
  BY <1>2
<1>4. SourceSamples' = SourceSamples
  BY Zenon DEF SourceSamples, Reported, SourceSample, period_ns
<1> QED BY <1>3, <1>4, SMTT(30) DEF RoundTrip

\* One more line of the frame.
LEMMA MirrorFunction ==
    ASSUME DictionaryInv, Mirrored, function
    PROVE  Mirrored'
<1>1. DictionaryInv' /\ Grown
  BY FunctionStep
<1>2. PICK line \in LineRow :
        /\ lines' = Append(lines, line) /\ line.function \in Rows(functions')
        /\ DecodedLine(line)' = SourceLine(frame[Len(lines) + 1])
  BY FunctionStep, SMTT(30)
<1>3. UNCHANGED <<collected, sampleAt, frameAt, locs, samples, built>> /\ InFrame
  BY Zenon DEF function
<1>4. InFrame' /\ frame' = frame
  BY <1>3, SMTT(30) DEF InFrame, Converting, sample, frame
<1>5. ASSUME NEW k \in DOMAIN lines' PROVE (DecodedLine(lines[k]) = SourceLine(frame[k]))'
  <2>1. PICK l \in LineRow : l = lines'[k]
    BY <1>1, <1>5 DEF DictionaryInv, Cursor
  <2>2. DecodedLine(lines[k])' = DecodedLine(l)'
    BY <2>1 DEF DecodedLine, DecodedFunction
  <2>3. DecodedLine(l)' = SourceLine(frame[k])
    <3>1. lines \in Seq(LineRow)
      BY DEF DictionaryInv, Cursor
    <3>2. CASE k = Len(lines) + 1
      BY <1>2, <2>1, <3>1, <3>2, SMTT(30)
    <3>3. CASE k \in DOMAIN lines
      <4>1. l = lines[k] /\ l.function \in Rows(functions)
        BY <1>2, <2>1, <3>1, <3>3, SMTT(30) DEF DictionaryInv, Cursor
      <4>2. DecodedLine(l)' = DecodedLine(l)
        BY <1>1, <4>1, DecodingStays, SMTT(30)
      <4> QED BY <4>1, <4>2, <3>3 DEF Mirrored
    <3> QED BY <1>2, <3>1, <3>2, <3>3
  <2> QED BY <1>4, <2>2, <2>3 DEF SourceLine
<1>6. (DecodedStack(locs) = SourceFrames(sample)[frameAt - 1])'
  <2>1. DecodedStack(locs) = SourceFrames(sample)[frameAt - 1]
    BY <1>3, StackSoFar DEF InFrame
  <2>2. DecodedStack(locs)' = DecodedStack(locs)
    <3>1. PICK q \in Seq(Nat) : q = locs /\ q = locs'
      BY <1>3, SMTT(30) DEF DictionaryInv, Cursor
    <3>2. DecodedStack(q)' = DecodedStack(q)
      BY <1>1, <3>1, DecodingStays, SMTT(30) DEF DictionaryInv, Cursor
    <3> QED BY <3>1, <3>2 DEF DecodedStack
  <2> QED BY <1>3, <2>1, <2>2 DEF sample, SourceFrames
<1>7. RoundTrip'
  BY <1>1, <1>3, SamplesStay DEF Mirrored
<1>8. (Converting /\ sample.count > 0 /\ frameAt <= Len(sample.frames) + 1)'
  <2>1. frameAt \in Nat /\ Len(sample.frames) \in Nat /\ frameAt <= Len(sample.frames)
    BY <1>3, AtCursor, SMTT(30) DEF InFrame, DictionaryInv, Cursor, Sample
  <2> QED BY <1>3, <2>1, SMTT(30) DEF InFrame, Converting, sample
<1> QED BY <1>4, <1>5, <1>6, <1>7, <1>8, Zenon DEF Mirrored

\* One more frame of the sample, if it is resolved.
LEMMA MirrorLocation ==
    ASSUME DictionaryInv, Mirrored, location
    PROVE  Mirrored'
<1>1. DictionaryInv' /\ Grown
  BY LocationStep
<1>2. /\ lines' = <<>> /\ frameAt' = frameAt + 1 /\ InFrame /\ Len(lines) = Len(frame)
      /\ UNCHANGED <<collected, sampleAt, strings, functions, samples, built>>
  BY SMTT(30) DEF location
<1>3. /\ sample \in Sample /\ frame \in Seq(Symbol) /\ frameAt \in 1 .. Len(sample.frames)
      /\ sample' = sample /\ lines \in Seq(LineRow) /\ locs \in Seq(Nat)
      /\ Len(sample.frames) \in Nat /\ Converting /\ sample.count > 0
  BY <1>2, AtCursor DEF InFrame, DictionaryInv, Cursor, Sample, sample
<1> DEFINE F == SourceFrames(sample)
<1>4. F[frameAt] = IF frame = <<>> THEN F[frameAt - 1] ELSE Append(F[frameAt - 1], SourceFrame(frame))
  BY <1>3, FramesDef DEF frame
<1>5. DecodedStack(locs) = F[frameAt - 1]
  BY <1>3, StackSoFar
<1>6. DecodedStack(locs)' = F[frameAt]
  <2>1. PICK q \in Seq(Nat) : q = locs
    BY <1>3
  <2>2. DecodedStack(q)' = F[frameAt - 1]
    <3>1. DecodedStack(q)' = DecodedStack(q)
      BY <1>1, <2>1, DecodingStays, Zenon DEF DictionaryInv, Cursor
    <3> QED BY <1>5, <2>1, <3>1, SMTT(30)
  <2>3. CASE frame = <<>>
    <3>1. locs' = q
      BY <2>1, <2>3, LocationStep
    <3>2. DecodedStack(locs)' = DecodedStack(q)'
      BY <3>1 DEF DecodedStack
    <3> QED BY <1>4, <2>2, <2>3, <3>2
  <2>4. CASE frame # <<>>
    <3>1. PICK i \in Rows(locations') :
            /\ locs' = Append(q, i)
            /\ Row(locations', i) = [address |-> frame[1].address, lines |-> lines]
      BY <2>1, <2>4, LocationStep, SMTT(30)
    <3>2. DecodedLocation(i)' = SourceFrame(frame)
      <4>1. PICK ls \in Seq(LineRow) : ls = lines
        BY <1>3, SMTT(30)
      <4>2. \A k \in DOMAIN ls : DecodedLine(ls[k])' = SourceLine(frame[k])
        BY <1>2, <4>1 DEF Mirrored, DecodedLine, DecodedFunction
      <4>3. DOMAIN ls = DOMAIN frame
        BY <1>2, <1>3, <4>1, SMTT(30)
      <4>4. DecodedLocation(i)' = [address |-> frame[1].address,
                                   lines |-> [k \in DOMAIN ls |-> DecodedLine(ls[k])']]
        BY <3>1, <4>1, SMTT(30) DEF DecodedLocation, DecodedLine, DecodedFunction, Row
      <4> QED BY <4>2, <4>3, <4>4 DEF SourceFrame
    <3>3. DecodedStack(locs)' = Append(DecodedStack(q)', DecodedLocation(i)')
      <4>1. PICK p \in Seq(Nat) : p = locs'
        BY <1>1 DEF DictionaryInv, Cursor
      <4>2. DecodedStack(locs)' = [k \in 1 .. Len(q) + 1 |-> DecodedLocation(p[k])']
        BY <3>1, <4>1, SMTT(30) DEF DecodedStack
      <4>3. \A k \in 1 .. Len(q) : p[k] = q[k]
        BY <3>1, <4>1
      <4>4. p[Len(q) + 1] = i
        BY <3>1, <4>1
      <4>5. DecodedStack(q)' = [k \in 1 .. Len(q) |-> DecodedLocation(q[k])']
        BY DEF DecodedStack
      <4> QED BY <4>2, <4>3, <4>4, <4>5, SMTT(30)
    <3> QED BY <1>4, <2>2, <2>4, <3>2, <3>3
  <2> QED BY <2>3, <2>4
<1>7. (DecodedStack(locs) = SourceFrames(sample)[frameAt - 1])'
  <2>1. frameAt' - 1 = frameAt
    BY <1>2, <1>3, SMTT(30)
  <2>2. SourceFrames(sample)' = F
    BY <1>3, SMTT(30) DEF SourceFrames
  <2> QED BY <1>6, <2>1, <2>2
<1>8. RoundTrip'
  BY <1>1, <1>2, SamplesStay DEF Mirrored
<1>9. (Converting /\ sample.count > 0 /\ frameAt <= Len(sample.frames) + 1)'
  BY <1>2, <1>3 DEF Converting
<1> QED BY <1>2, <1>7, <1>8, <1>9 DEF Mirrored

\* The end of a sample: it is sent if one of its frames was resolved.
LEMMA MirrorEnd ==
    ASSUME DictionaryInv, Mirrored, EndSample
    PROVE  Mirrored'
<1>1. DictionaryInv' /\ Grown
  <2>1. CASE locs = <<>>
    BY <2>1, OtherSteps
  <2>2. CASE locs # <<>>
    BY <2>2, SampleIsSent
  <2> QED BY <2>1, <2>2
<1>2. /\ Converting /\ sample.count > 0 /\ frameAt = Len(sample.frames) + 1
      /\ sampleAt' = sampleAt + 1 /\ frameAt' = 1 /\ locs' = <<>>
      /\ UNCHANGED <<collected, lines, built>>
  BY SMTT(30) DEF EndSample
<1>3. /\ sample \in Sample /\ Len(sample.frames) \in Nat /\ sampleAt \in 1 .. Len(collected.samples)
      /\ locs \in Seq(Nat) /\ samples \in Seq(SampleRow)
  BY <1>2, AtCursor DEF Converting, DictionaryInv, Cursor, Sample
<1>4. lines = <<>>
  <2>1. ~InFrame
    BY <1>2, <1>3 DEF InFrame
  <2>2. lines \in Seq(LineRow) /\ DOMAIN lines = {}
    BY <2>1, Zenon DEF Mirrored, DictionaryInv, Cursor
  <2> QED BY <2>2
<1> DEFINE all == SourceFrames(sample)[Len(sample.frames)]
<1>5. DecodedStack(locs) = all
  BY <1>2, <1>3, StackSoFar
<1>6. Reported(sample) <=> locs # <<>>
  <2>1. DecodedStack(locs) = <<>> <=> locs = <<>>
    BY <1>3 DEF DecodedStack
  <2> QED BY <1>2, <1>5, <2>1 DEF Reported
<1>7. SourceSamples[sampleAt] = IF locs # <<>> THEN Append(SourceSamples[sampleAt - 1], SourceSample(sample))
                                ELSE SourceSamples[sampleAt - 1]
  BY <1>3, <1>6, SamplesDef DEF sample
<1>8. sampleAt' - 1 = sampleAt
  BY <1>2, <1>3
<1>9. RoundTrip'
  <2>1. CASE locs = <<>>
    <3>1. samples' = samples
      BY <2>1 DEF EndSample
    <3> QED BY <1>1, <1>2, <1>7, <1>8, <2>1, <3>1, SamplesStay, SMTT(30) DEF Mirrored
  <2>2. CASE locs # <<>>
    <3>1. PICK s \in SampleRow :
            /\ samples' = Append(samples, s)
            /\ s.stack \in Rows(stacks') /\ Row(stacks', s.stack) = locs
            /\ DecodedThreads(s)' = Threads(Trim(sample.thread_name))
            /\ s.value = saturating_mul(sample.count, period_ns)
      BY <2>2, SampleIsSent
    <3>2. DecodedSample(s)' = SourceSample(sample)
      <4>1. PICK q \in Seq(Nat) : q = locs
        BY <1>3
      <4>2. DecodedStack(q)' = all
        <5>1. DecodedStack(q)' = DecodedStack(q)
          BY <1>1, <4>1, DecodingStays, SMTT(30) DEF DictionaryInv, Cursor
        <5> QED BY <1>5, <4>1, <5>1, SMTT(30)
      <4>3. DecodedSample(s)' = [frames |-> DecodedStack(q)', threads |-> DecodedThreads(s)',
                                 value |-> s.value]
        BY <3>1, <4>1, SMTT(30) DEF DecodedSample, DecodedThreads
      <4> QED BY <3>1, <4>2, <4>3 DEF SourceSample, Threads
    <3>3. \A j \in DOMAIN samples : DecodedSample(samples[j])
            = SourceSamples[sampleAt - 1][j]
      BY Zenon DEF Mirrored, RoundTrip
    <3>4. ASSUME NEW j \in DOMAIN samples, NEW x \in SampleRow, x = samples[j]
          PROVE  DecodedSample(x)' = SourceSamples[sampleAt - 1][j]
      <4>1. x.stack \in Rows(stacks) /\ \A k \in DOMAIN x.attributes : x.attributes[k] \in Rows(attributes)
        BY <3>4, SMTT(30) DEF DictionaryInv, DictionaryIsClosed
      <4>2. DecodedSample(x)' = DecodedSample(x)
        BY <1>1, <4>1, DecodingStays, SMTT(30)
      <4> QED BY <3>3, <3>4, <4>2, SMTT(30)
    <3>5. /\ DOMAIN SourceSamples[sampleAt - 1] = 1 .. Len(samples)
          /\ SourceSamples[sampleAt - 1] = [j \in 1 .. Len(samples) |-> SourceSamples[sampleAt - 1][j]]
      BY <1>3 DEF Mirrored, RoundTrip
    <3>6. PICK after \in Seq(SampleRow) : after = samples'
      BY <1>1 DEF DictionaryInv, Cursor
    <3>7. [j \in DOMAIN after |-> DecodedSample(after[j])']
            = Append(SourceSamples[sampleAt - 1], SourceSample(sample))
      <4>1. PICK n \in Nat : n = Len(samples)
        BY <1>3, SMTT(30)
      <4>2. /\ Len(after) = n + 1 /\ after[n + 1] = s
            /\ \A j \in 1 .. n : after[j] = samples[j] /\ after[j] \in SampleRow
        BY <1>3, <3>1, <3>6, <4>1
      <4>3. \A j \in 1 .. n : DecodedSample(after[j])' = SourceSamples[sampleAt - 1][j]
        <5>1. SUFFICES ASSUME NEW j \in 1 .. n
                       PROVE  DecodedSample(after[j])' = SourceSamples[sampleAt - 1][j]
          OBVIOUS
        <5>2. PICK x \in SampleRow : x = after[j]
          BY <4>2
        <5>3. j \in DOMAIN samples /\ x = samples[j]
          BY <1>3, <4>1, <4>2, <5>2, SMTT(30)
        <5>4. DecodedSample(x)' = SourceSamples[sampleAt - 1][j]
          BY <3>4, <5>3
        <5> QED BY <5>2, <5>4
      <4>4. DecodedSample(after[n + 1])' = SourceSample(sample)
        BY <3>2, <4>2
      <4>5. DOMAIN after = 1 .. n + 1
        BY <3>6, <4>2, SMTT(30)
      <4> DEFINE D(j) == DecodedSample(after[j])'
                 before == SourceSamples[sampleAt - 1]
                 new == SourceSample(sample)
      <4>6. /\ DOMAIN before = 1 .. n /\ before = [j \in 1 .. n |-> before[j]]
            /\ D(n + 1) = new /\ \A j \in 1 .. n : D(j) = before[j]
        BY <3>5, <4>1, <4>3, <4>4
      <4> HIDE DEF D, before, new
      <4>7. [j \in 1 .. n + 1 |-> D(j)] = Append(before, new)
        BY <4>1, <4>6, SMTT(30)
      <4> QED BY <4>5, <4>7, Zenon DEF D, before, new
    <3>8. [j \in DOMAIN samples |-> DecodedSample(samples[j])]'
            = [j \in DOMAIN after |-> DecodedSample(after[j])']
      <4>1. ASSUME NEW j \in DOMAIN after PROVE DecodedSample(samples[j])' = DecodedSample(after[j])'
        <5>1. PICK x : x = after[j] /\ samples'[j] = x
          BY <3>6
        <5>2. DecodedSample(samples[j])' = DecodedSample(x)'
          BY <5>1, SampleAfter
        <5> QED BY <5>1, <5>2
      <4> QED BY <3>6, <4>1
    <3>9. SourceSamples' = SourceSamples
      BY <1>2, Zenon DEF SourceSamples, Reported, SourceSample, period_ns
    <3> QED BY <1>7, <1>8, <2>2, <3>7, <3>8, <3>9, Zenon DEF RoundTrip
  <2> QED BY <2>1, <2>2
<1> QED BY <1>2, <1>4, <1>9 DEF Mirrored

\* A sample that was not hit is not to be sent; the strings of the sample type change
\* nothing.
LEMMA MirrorOther ==
    ASSUME DictionaryInv, Mirrored, SkipSample \/ Build
    PROVE  Mirrored'
<1>1. DictionaryInv' /\ Grown
  <2>1. SkipSample \/ Build \/ (EndSample /\ locs = <<>>)
    OBVIOUS
  <2> QED BY <2>1, OtherSteps
<1>2. UNCHANGED <<collected, frameAt, lines, locs, samples>>
  BY DEF SkipSample, Build, cursorVars
<1>3. sampleAt \in Nat \ {0} /\ lines \in Seq(LineRow)
  BY DEF DictionaryInv, Cursor
<1>4. ~(Converting /\ sample.count > 0)
  <2>1. CASE SkipSample
    <3>1. sample \in Sample /\ sample.count <= 0
      BY <2>1, AtCursor DEF SkipSample
    <3> QED BY <3>1 DEF Sample
  <2>2. CASE Build
    <3>1. collected.samples \in Seq(Sample)
      BY DEF DictionaryInv, Cursor
    <3> QED BY <2>2, <3>1, SMTT(30) DEF Build, Converting
  <2> QED BY <2>1, <2>2
<1>5. lines = <<>> /\ locs = <<>> /\ frameAt = 1
  BY <1>3, <1>4 DEF Mirrored, InFrame
<1>6. SourceSamples[sampleAt' - 1] = SourceSamples[sampleAt - 1]
  <2>1. CASE SkipSample
    <3>1. sampleAt \in 1 .. Len(collected.samples) /\ sampleAt' - 1 = sampleAt
      BY <1>3, <2>1 DEF SkipSample, Converting, DictionaryInv, Cursor
    <3>2. ~Reported(sample)
      BY <1>4, <2>1 DEF Reported, SkipSample
    <3> QED BY <3>1, <3>2, SamplesDef, SMTT(30) DEF sample
  <2>2. CASE Build
    BY <2>2 DEF Build, cursorVars
  <2> QED BY <2>1, <2>2
<1>7. RoundTrip'
  BY <1>1, <1>2, <1>6, SamplesStay DEF Mirrored
<1> QED BY <1>2, <1>5, <1>7 DEF Mirrored

\* Nothing has been rewritten at first.
LEMMA MirrorInit == ProfileInit => Mirrored
<1> SUFFICES ASSUME ProfileInit PROVE Mirrored
  OBVIOUS
<1>1. SourceSamples[0] = <<>>
  BY DictionaryInit, SamplesDef
<1> QED BY <1>1 DEF ProfileInit, New, Mirrored, RoundTrip

\* No step of the conversion disturbs what has been rewritten.
LEMMA MirrorStep == DictionaryInv /\ Mirrored /\ [Convert]_profileVars => Mirrored'
<1> SUFFICES ASSUME DictionaryInv, Mirrored, [Convert]_profileVars PROVE Mirrored'
  BY SMTT(30)
<1>1. CASE UNCHANGED profileVars
  <2>1. /\ lines' = lines /\ locs' = locs /\ frameAt' = frameAt /\ sampleAt' = sampleAt
        /\ sample' = sample /\ frame' = frame /\ Converting' = Converting /\ InFrame' = InFrame
    BY <1>1 DEF profileVars, cursorVars, InFrame, Converting, sample, frame
  <2>2. (\A k \in DOMAIN lines : InFrame /\ DecodedLine(lines[k]) = SourceLine(frame[k]))'
    BY <1>1, <2>1, Zenon DEF Mirrored, profileVars, cursorVars, SourceLine, DecodedLine,
         DecodedFunction, Row
  <2>3. (DecodedStack(locs) = SourceFrames(sample)[frameAt - 1])'
           <=> DecodedStack(locs) = SourceFrames(sample)[frameAt - 1]
    BY <1>1, <2>1, ZenonT(60) DEF profileVars, cursorVars, SourceFrames, SourceFrame, SourceLine,
         DecodedStack, DecodedLocation, DecodedLine, DecodedFunction, Row
  <2>4. RoundTrip'
    <3>1. DictionaryInv' /\ UNCHANGED <<collected, samples, strings, functions, locations, stacks,
                                        attributes>>
      BY <1>1, DictionaryStep DEF profileVars, cursorVars
    <3>2. Grown
      BY <3>1, ExtendsItself DEF Grown, DictionaryInv, Tables
    <3> QED BY <2>1, <3>1, <3>2, SamplesStay DEF Mirrored
  <2> QED BY <2>1, <2>2, <2>3, <2>4, SMTT(30) DEF Mirrored
<1> QED BY <1>1, MirrorFunction, MirrorLocation, MirrorEnd, MirrorOther DEF Convert

\* RoundTrip for any profile: at every step of the conversion, and so in the request
\* that is sent, following the indices yields the samples that were collected, were
\* hit and have a resolved frame, in order and with all that belongs to them.
THEOREM RequestReadsBack == ProfileSpec => []RoundTrip
<1>1. Mirrored => RoundTrip
  BY DEF Mirrored
<1> QED BY <1>1, MirrorInit, MirrorStep, DictionaryInit, DictionaryStep, PTL DEF ProfileSpec

=============================================================================
