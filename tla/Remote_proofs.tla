---------------------------- MODULE Remote_proofs ----------------------------
(***************************************************************************)
(* Proofs about the two remotes a server depends on.                       *)
(*                                                                         *)
(* Telemetry, for any configuration, environment and profiles: no exporter *)
(* posts to a doubled path, the headers follow their precedence, and every *)
(* window's request is sound.  The invariant is that an exporter still has *)
(* what its configuration resolves to, and that loading has left no        *)
(* reference to expand.                                                    *)
(*                                                                         *)
(* FailureBackoff, for any number of callers, any threshold, any backoff   *)
(* and any clock range: an open window is earned and covers a failure.     *)
(***************************************************************************)
EXTENDS Telemetry, FailureBackoff, ProfileDictionary_proofs

-----------------------------------------------------------------------------
(* Expansion *)

\* Sequences of the same elements are the same.
LEMMA SameElements ==
    ASSUME NEW V, NEW p \in Seq(V), NEW q \in Seq(V), Len(p) = Len(q),
           \A i \in 1 .. Len(p) : p[i] = q[i]
    PROVE  p = q
OBVIOUS

\* Parts of one element each are the sequence they were taken from.
LEMMA JoinedSingles ==
    ASSUME NEW V, NEW text \in Seq(V)
    PROVE  Joined([i \in 1 .. Len(text) |-> <<text[i]>>])[Len(text)] = text
<1> DEFINE parts == [i \in 1 .. Len(text) |-> <<text[i]>>]
<1> DEFINE J == Joined(parts)
<1>1. parts \in Seq(Seq(V)) /\ Len(parts) = Len(text) /\ Len(text) \in Nat
  OBVIOUS
<1>2. /\ J \in [0 .. Len(text) -> Seq(V)] /\ J[0] = <<>>
      /\ \A n \in 1 .. Len(text) : J[n] = J[n - 1] \o <<text[n]>>
  <2>1. \A n \in 1 .. Len(text) : parts[n] = <<text[n]>>
    OBVIOUS
  <2> HIDE DEF parts
  <2> QED BY <1>1, <2>1, JoinedDef, Zenon
<1> HIDE DEF J, parts
<1> DEFINE Prefix(m) == Len(J[m]) = m /\ \A i \in 1 .. m : J[m][i] = text[i]
<1> DEFINE T == {m \in Nat : m <= Len(text) => Prefix(m)}
<1>3. 0 \in T
  BY <1>2
<1>4. ASSUME NEW m \in Nat, m \in T PROVE m + 1 \in T
  <2> SUFFICES ASSUME m + 1 <= Len(text) PROVE Prefix(m + 1)
    OBVIOUS
  <2>1. /\ m + 1 \in 1 .. Len(text) /\ (m + 1) - 1 = m /\ m \in 0 .. Len(text) /\ m <= Len(text)
        /\ text[m + 1] \in V
    BY <1>1
  <2>2. J[m + 1] = J[m] \o <<text[m + 1]>> /\ J[m] \in Seq(V) /\ Prefix(m)
    BY <1>2, <1>4, <2>1, Zenon
  <2>3. J[m + 1] = Append(J[m], text[m + 1])
    BY <2>1, <2>2, ConcatOne
  <2> QED BY <2>1, <2>2, <2>3
<1>5. Prefix(Len(text))
  <2>1. Nat \subseteq T
    <3> HIDE DEF T
    <3> QED BY <1>3, <1>4, SetInduction
  <2> QED BY <1>1, <2>1
<1>6. J[Len(text)] \in Seq(V)
  BY <1>1, <1>2
<1>7. J[Len(text)] = text
  <2>1. Len(J[Len(text)]) = Len(text) /\ \A i \in 1 .. Len(J[Len(text)]) : J[Len(text)][i] = text[i]
    BY <1>5
  <2> QED BY <1>6, <2>1, SameElements, Zenon
<1> QED BY <1>7, Zenon DEF J, parts

\* The parts an expansion joins.
Parts(text) == [i \in 1 .. Len(text) |->
                  IF text[i] \in Var THEN environ.vars[text[i]] ELSE <<text[i]>>]

\* A text without a malformed reference expands to a text.
LEMMA ExpandedType ==
    ASSUME environ \in Environment, NEW text \in Text, ~Malformed(text)
    PROVE  Expanded(text) \in Text
<1>1. Parts(text) \in Seq(Text) /\ Len(Parts(text)) = Len(text)
  <2>1. ASSUME NEW i \in 1 .. Len(text) PROVE Parts(text)[i] \in Text
    <3>1. CASE text[i] \in Var
      <4>1. environ.vars[text[i]] \in Text
        BY <3>1 DEF Malformed, Environment, Text
      <4> QED BY <3>1, <4>1 DEF Parts
    <3>2. CASE text[i] \notin Var
      BY <3>2 DEF Parts, Text
    <3> QED BY <3>1, <3>2
  <2>2. Len(text) \in Nat /\ Parts(text) = [i \in 1 .. Len(text) |-> Parts(text)[i]]
    BY DEF Parts, Text
  <2> QED BY <2>1, <2>2
<1>2. Joined(Parts(text))[Len(text)] \in Text
  <2>1. Joined(Parts(text)) \in [0 .. Len(text) -> Text]
    BY <1>1, JoinedDef, Zenon DEF Text
  <2>2. Len(text) \in 0 .. Len(text)
    BY DEF Text
  <2> QED BY <2>1, <2>2, Zenon
<1> QED BY <1>2 DEF Expanded, Parts

\* Where no variable holds a reference, what a text expands to has none left.
LEMMA ExpandedIsPlain ==
    ASSUME environ \in Environment, PlainVars, NEW text \in Text, ~Malformed(text)
    PROVE  Expanded(text) \in Seq(Token \ Var)
<1> DEFINE P == Token \ Var
<1>1. Parts(text) \in Seq(Seq(P)) /\ Len(Parts(text)) = Len(text)
  <2>1. ASSUME NEW i \in 1 .. Len(text) PROVE Parts(text)[i] \in Seq(P)
    <3>1. CASE text[i] \in Var
      <4>1. environ.vars[text[i]] \in Text /\ environ.vars[text[i]] # None
        BY <3>1 DEF Malformed, Environment, Text
      <4>2. \A k \in 1 .. Len(environ.vars[text[i]]) : environ.vars[text[i]][k] \in P
        BY <3>1, <4>1 DEF PlainVars, Text
      <4>3. environ.vars[text[i]] \in Seq(P)
        BY <4>1, <4>2 DEF Text
      <4> QED BY <3>1, <4>3 DEF Parts
    <3>2. CASE text[i] \notin Var
      BY <3>2 DEF Parts, Text
    <3> QED BY <3>1, <3>2
  <2>2. Len(text) \in Nat /\ Parts(text) = [i \in 1 .. Len(text) |-> Parts(text)[i]]
    BY DEF Parts, Text
  <2> QED BY <2>1, <2>2
<1>2. Joined(Parts(text))[Len(text)] \in Seq(P)
  <2>1. Joined(Parts(text)) \in [0 .. Len(text) -> Seq(P)]
    BY <1>1, JoinedDef, Zenon
  <2>2. Len(text) \in 0 .. Len(text)
    BY DEF Text
  <2> QED BY <2>1, <2>2, Zenon
<1> QED BY <1>2 DEF Expanded, Parts

\* A text without references expands to itself.
LEMMA PlainExpandsToItself ==
    ASSUME NEW text \in Seq(Token \ Var)
    PROVE  Expanded(text) = text
<1>1. Parts(text) = [i \in 1 .. Len(text) |-> <<text[i]>>]
  BY DEF Parts
<1> QED BY <1>1, JoinedSingles, Zenon DEF Expanded, Parts

-----------------------------------------------------------------------------
(* One header per name *)

\* The header an entry of a list becomes.
HeaderOf(entry) == [name |-> entry.name, value |-> entry.value]

\* What the first n entries of a list leave: for each name, however it is written, the
\* last of them that has it.
Settled(list, n, headers) ==
    /\ \A h \in headers : \E i \in 1 .. n :
          /\ h = HeaderOf(list[i])
          /\ \A j \in (i + 1) .. n : list[j].name.word # list[i].name.word
    /\ \A i \in 1 .. n : \E h \in headers : h.name.word = list[i].name.word

\* Settled headers have different names.
LEMMA SettledIsUnique ==
    ASSUME NEW list, NEW n \in Nat, NEW headers, Settled(list, n, headers),
           NEW h \in headers, NEW g \in headers, h.name.word = g.name.word
    PROVE  h = g
<1>1. PICK i \in 1 .. n : /\ h = HeaderOf(list[i])
                          /\ \A j \in (i + 1) .. n : list[j].name.word # list[i].name.word
  BY DEF Settled
<1>2. PICK k \in 1 .. n : /\ g = HeaderOf(list[k])
                          /\ \A j \in (k + 1) .. n : list[j].name.word # list[k].name.word
  BY DEF Settled
<1>3. list[i].name.word = list[k].name.word
  BY <1>1, <1>2 DEF HeaderOf
<1>4. i = k
  BY <1>1, <1>2, <1>3
<1> QED BY <1>1, <1>2, <1>4

\* insert_header settles one entry more: the only header it may find by that name is
\* the one it removes.
LEMMA InsertSettles ==
    ASSUME NEW list, NEW m \in Nat, NEW headers, Settled(list, m, headers)
    PROVE  Settled(list, m + 1, insert_header(headers, list[m + 1]))
<1> DEFINE x == list[m + 1]
<1> DEFINE same == {y \in headers : y.name.word = x.name.word}
<1> DEFINE result == insert_header(headers, x)
<1>1. result = {y \in headers : y.name.word # x.name.word} \cup {HeaderOf(x)}
  <2>1. CASE same = {}
    BY <2>1 DEF insert_header, eq_ignore_ascii_case, HeaderOf
  <2>2. CASE same # {}
    <3>1. PICK y \in same : y = CHOOSE z \in same : TRUE
      BY <2>2
    <3>2. \A z \in same : z = y
      BY SettledIsUnique
    <3>3. same = {y}
      BY <3>2
    <3>4. result = (headers \ {y}) \cup {HeaderOf(x)}
      BY <2>2, <3>1 DEF insert_header, eq_ignore_ascii_case, HeaderOf
    <3> QED BY <3>3, <3>4
  <2> QED BY <2>1, <2>2
<1> HIDE DEF result
<1>2. ASSUME NEW h \in result
      PROVE  \E i \in 1 .. m + 1 :
               /\ h = HeaderOf(list[i])
               /\ \A j \in (i + 1) .. (m + 1) : list[j].name.word # list[i].name.word
  <2>1. CASE h = HeaderOf(x)
    <3>1. m + 1 \in 1 .. m + 1 /\ \A j \in ((m + 1) + 1) .. (m + 1) : FALSE
      OBVIOUS
    <3> QED BY <2>1, <3>1
  <2>2. CASE h \in headers /\ h.name.word # x.name.word
    <3>1. PICK i \in 1 .. m : /\ h = HeaderOf(list[i])
                              /\ \A j \in (i + 1) .. m : list[j].name.word # list[i].name.word
      BY <2>2 DEF Settled
    <3>2. list[i].name.word # x.name.word
      BY <2>2, <3>1 DEF HeaderOf
    <3>3. i \in 1 .. m + 1 /\ \A j \in (i + 1) .. (m + 1) : j \in (i + 1) .. m \/ j = m + 1
      OBVIOUS
    <3> QED BY <3>1, <3>2, <3>3
  <2> QED BY <1>1, <2>1, <2>2
<1>3. ASSUME NEW i \in 1 .. m + 1 PROVE \E h \in result : h.name.word = list[i].name.word
  <2>1. HeaderOf(x) \in result /\ HeaderOf(x).name.word = x.name.word
    BY <1>1 DEF HeaderOf
  <2>2. CASE list[i].name.word = x.name.word
    BY <2>1, <2>2
  <2>3. CASE list[i].name.word # x.name.word
    <3>1. i \in 1 .. m
      BY <2>3
    <3>2. PICK h \in headers : h.name.word = list[i].name.word
      BY <3>1 DEF Settled
    <3> QED BY <1>1, <2>3, <3>2
  <2> QED BY <2>2, <2>3
<1>4. Settled(list, m + 1, result)
  BY <1>2, <1>3 DEF Settled
<1> QED BY <1>4 DEF result

\* What Inserted computes, entry by entry.
LEMMA InsertedDef ==
    ASSUME NEW V, NEW list \in Seq(V)
    PROVE  /\ Inserted(list)[0] = {}
           /\ \A n \in 1 .. Len(list) :
                Inserted(list)[n] = insert_header(Inserted(list)[n - 1], list[n])
<1> DEFINE c == Len(list)
<1> DEFINE W == SUBSET {HeaderOf(list[i]) : i \in 1 .. c}
<1> DEFINE step == [i \in 1 .. c |-> [v \in W |-> insert_header(v, list[i])]]
<1> DEFINE Body(f) == [n \in 0 .. c |-> IF n = 0 THEN {} ELSE insert_header(f[n - 1], list[n])]
<1>1. c \in Nat
  OBVIOUS
<1>2. {} \in W
  OBVIOUS
<1>3. \A v \in W : \A i \in 1 .. c : insert_header(v, list[i]) \in W
  <2> HIDE DEF c
  <2> QED BY DEF insert_header, HeaderOf
<1> DEFINE h == CHOOSE x : x = Body(x)
<1>4. Inserted(list) = h
  BY Zenon DEF Inserted
<1> HIDE DEF c, W
<1>5. PICK f \in [0 .. c -> W] : Solves(f, c, {}, step)
  <2>1. step \in [1 .. c -> [W -> W]]
    BY <1>3, Zenon
  <2> HIDE DEF step
  <2> QED BY <1>1, <1>2, <2>1, Recursion, Zenon
<1>6. f = Body(f)
  <2>1. \A n \in 1 .. c : n \in 0 .. c /\ n - 1 \in 0 .. c
    BY <1>1
  <2>2. \A n \in 1 .. c : f[n] = step[n][f[n - 1]] /\ f[n - 1] \in W
    BY <1>5, <2>1, Zenon DEF Solves
  <2>3. f[0] = {} /\ \A n \in 1 .. c : f[n] = insert_header(f[n - 1], list[n])
    BY <1>5, <2>2, Zenon DEF Solves
  <2>4. \A n \in 0 .. c : n = 0 \/ n \in 1 .. c
    BY <1>1
  <2>5. \A n \in 0 .. c : f[n] = IF n = 0 THEN {} ELSE insert_header(f[n - 1], list[n])
    BY <2>3, <2>4, Zenon
  <2>6. f = [n \in 0 .. c |-> f[n]]
    BY <1>5, Zenon
  <2> QED BY <2>5, <2>6, Zenon
<1>7. h = Body(h)
  <2> HIDE DEF Body
  <2> QED BY <1>6, Zenon
<1> HIDE DEF h
<1>8. h[0] = {} /\ \A n \in 1 .. c : h[n] = insert_header(h[n - 1], list[n])
  <2>1. 0 \in 0 .. c /\ \A n \in 1 .. c : n # 0 /\ n \in 0 .. c
    BY <1>1
  <2>2. \A n \in 0 .. c : Body(h)[n] = IF n = 0 THEN {} ELSE insert_header(h[n - 1], list[n])
    BY Zenon
  <2> HIDE DEF Body
  <2> QED BY <1>7, <2>1, <2>2, Zenon
<1> QED BY <1>4, <1>8, Zenon DEF c

\* The last of the headers by each name is what a whole list leaves, and nothing else.
LEMMA InsertedSettles ==
    ASSUME NEW V, NEW list \in Seq(V)
    PROVE  Settled(list, Len(list), Inserted(list)[Len(list)])
<1> DEFINE I == Inserted(list)
<1> DEFINE T == {m \in Nat : m <= Len(list) => Settled(list, m, I[m])}
<1>1. I[0] = {} /\ \A n \in 1 .. Len(list) : I[n] = insert_header(I[n - 1], list[n])
  BY InsertedDef, Zenon
<1> HIDE DEF I
<1>2. 0 \in T
  BY <1>1 DEF Settled
<1>3. ASSUME NEW m \in Nat, m \in T PROVE m + 1 \in T
  <2> SUFFICES ASSUME m + 1 <= Len(list) PROVE Settled(list, m + 1, I[m + 1])
    OBVIOUS
  <2>1. m <= Len(list) /\ m + 1 \in 1 .. Len(list) /\ (m + 1) - 1 = m
    OBVIOUS
  <2>2. Settled(list, m, I[m]) /\ I[m + 1] = insert_header(I[m], list[m + 1])
    BY <1>1, <1>3, <2>1
  <2> QED BY <2>2, InsertSettles, Zenon
<1>4. Nat \subseteq T
  <2> HIDE DEF T
  <2> QED BY <1>2, <1>3, SetInduction
<1>5. Settled(list, Len(list), I[Len(list)])
  BY <1>4
<1> QED BY <1>5 DEF I

\* Two lists one after the other.
LEMMA ConcatAt ==
    ASSUME NEW V, NEW p \in Seq(V), NEW q \in Seq(V)
    PROVE  /\ Len(p \o q) = Len(p) + Len(q)
           /\ \A i \in 1 .. Len(p) : (p \o q)[i] = p[i]
           /\ \A k \in 1 .. Len(q) : (p \o q)[Len(p) + k] = q[k]
OBVIOUS

\* The entries of both lists, the environment's first.
LEMMA AllHeadersDef ==
    ASSUME config \in ObservabilityConfig, environ \in Environment
    PROVE  /\ Len(environ.headers) \in Nat /\ DOMAIN environ.headers = 1 .. Len(environ.headers)
           /\ Len(config.headers) \in Nat /\ DOMAIN config.headers = 1 .. Len(config.headers)
           /\ Len(AllHeaders) = Len(environ.headers) + Len(config.headers)
           /\ \A i \in 1 .. Len(environ.headers) : AllHeaders[i] = environ.headers[i]
           /\ \A k \in 1 .. Len(config.headers) :
                /\ AllHeaders[Len(environ.headers) + k].name = config.headers[k].name
                /\ AllHeaders[Len(environ.headers) + k].value = Expanded(config.headers[k].value)
           /\ Settled(AllHeaders, Len(AllHeaders), Listed)
<1> DEFINE E == environ.headers
<1> DEFINE C == config.headers
<1> DEFINE X == ExpandedHeaders
<1>1. /\ E \in Seq([name : HeaderName, value : Text, malformed : BOOLEAN])
      /\ C \in Seq([name : HeaderName, value : Text])
  BY DEF Environment, ObservabilityConfig
<1>2. X = [k \in 1 .. Len(C) |-> [C[k] EXCEPT !.value = Expanded(@)]]
  BY <1>1 DEF ExpandedHeaders
<1>3. \A k \in 1 .. Len(C) : X[k].name = C[k].name /\ X[k].value = Expanded(C[k].value)
  BY <1>1, <1>2
<1> DEFINE V == {E[i] : i \in 1 .. Len(E)} \cup {X[k] : k \in 1 .. Len(C)}
<1>4. E \in Seq(V) /\ X \in Seq(V) /\ Len(X) = Len(C)
  <2>1. E \in Seq(V)
    BY <1>1
  <2>2. X \in Seq(V) /\ Len(X) = Len(C)
    <3>1. Len(C) \in Nat
      BY <1>1
    <3>2. X = [k \in 1 .. Len(C) |-> X[k]]
      BY <1>2, Zenon
    <3>3. \A k \in 1 .. Len(C) : X[k] \in V
      BY Zenon
    <3> HIDE DEF V, X, C
    <3> QED BY <3>1, <3>2, <3>3
  <2> QED BY <2>1, <2>2
<1> HIDE DEF V
<1>5. AllHeaders = E \o X
  BY DEF AllHeaders
<1>6. AllHeaders \in Seq(V)
  BY <1>4, <1>5, ConcatType, Zenon
<1>7. Settled(AllHeaders, Len(AllHeaders), Listed)
  BY <1>6, InsertedSettles, Zenon DEF Listed
<1>8. /\ Len(AllHeaders) = Len(E) + Len(C)
      /\ \A i \in 1 .. Len(E) : AllHeaders[i] = E[i]
      /\ \A k \in 1 .. Len(C) : AllHeaders[Len(E) + k] = X[k]
  <2> HIDE DEF E, C, X
  <2>1. PICK p \in Seq(V), q \in Seq(V) : p = E /\ q = X
    BY <1>4, Zenon
  <2>2. /\ Len(p \o q) = Len(p) + Len(q)
        /\ \A i \in 1 .. Len(p) : (p \o q)[i] = p[i]
        /\ \A k \in 1 .. Len(q) : (p \o q)[Len(p) + k] = q[k]
    BY ConcatAt
  <2> QED BY <1>4, <1>5, <2>1, <2>2, Zenon
<1>9. Len(E) \in Nat /\ DOMAIN E = 1 .. Len(E) /\ Len(C) \in Nat /\ DOMAIN C = 1 .. Len(C)
  BY <1>1
<1> QED BY <1>3, <1>7, <1>8, <1>9, Zenon

\* The last entry by a name, told from the others by its place.
LEMMA LastOfIs ==
    ASSUME NEW V, NEW list \in Seq(V), NEW word, NEW k \in Named(list, word),
           \A j \in Named(list, word) : j <= k
    PROVE  LastOf(list, word) = list[k].value
<1> DEFINE last == CHOOSE i \in Named(list, word) : \A j \in Named(list, word) : j <= i
<1>1. Named(list, word) \subseteq Nat
  BY DEF Named
<1>2. last \in Named(list, word) /\ \A j \in Named(list, word) : j <= last
  OBVIOUS
<1>3. last = k
  BY <1>1, <1>2
<1> QED BY <1>3, Zenon DEF LastOf

-----------------------------------------------------------------------------
(* What the headers resolve to *)

\* Where no variable holds a reference, loading has left none in the configuration.
PlainConfig ==
    PlainVars =>
      /\ \A i \in DOMAIN config.headers : config.headers[i].value \in Seq(Token \ Var)
      /\ config.basic_auth # None => /\ config.basic_auth.username \in Seq(Token \ Var)
                                     /\ config.basic_auth.password \in Seq(Token \ Var)

\* Where a header that is sent comes from.
Sourced(h) ==
    IF Named(config.headers, h.name.word) # {}
    THEN PlainVars => h.value = LastOf(config.headers, h.name.word)
    ELSE IF Named(environ.headers, h.name.word) # {}
    THEN h.value = LastOf(environ.headers, h.name.word)
    ELSE /\ h.name = Authorization /\ config.basic_auth # None
         /\ PlainVars => h.value = <<"Basic">> \o config.basic_auth.username \o <<":">>
                                              \o config.basic_auth.password

\* The entry at i is the last with the name w of the lists E and C, whose entries A holds
\* one after the other.
LastInBoth(E, C, A, i, w) ==
    /\ Len(A) = Len(E) + Len(C)
    /\ \A j \in 1 .. Len(E) : A[j] = E[j]
    /\ \A k \in 1 .. Len(C) : A[Len(E) + k].name = C[k].name
    /\ i \in 1 .. Len(A) /\ A[i].name.word = w
    /\ \A j \in (i + 1) .. Len(A) : A[j].name.word # w

\* Of two lists one after the other, the last entry by a name that is in the second is
\* the second's last, and another is the first's last.
LEMMA LastWins ==
    ASSUME NEW U, NEW V, NEW E \in Seq(U), NEW C \in Seq(V), NEW A, NEW i, NEW w,
           LastInBoth(E, C, A, i, w)
    PROVE  \/ \E k \in Named(C, w) : i = Len(E) + k /\ LastOf(C, w) = C[k].value
           \/ Named(C, w) = {} /\ Named(E, w) # {} /\ LastOf(E, w) = A[i].value
<1> USE DEF LastInBoth
<1>1. ASSUME NEW k \in Named(C, w) PROVE k \in 1 .. Len(C) /\ Len(E) + k <= i
  <2>1. k \in 1 .. Len(C) /\ C[k].name.word = w
    BY DEF Named
  <2>2. A[Len(E) + k].name.word = w
    BY <2>1, Zenon
  <2>3. Len(E) \in Nat /\ Len(C) \in Nat /\ Len(E) + k \in 1 .. Len(A) /\ i \in Int
    BY <2>1
  <2>4. Len(E) + k \in (i + 1) .. Len(A) \/ Len(E) + k <= i
    BY <2>3
  <2> QED BY <2>1, <2>2, <2>4, Zenon
<1>2. CASE i > Len(E)
  <2> DEFINE d == i - Len(E)
  <2>0. d \in 1 .. Len(C) /\ i = Len(E) + d
    BY <1>2
  <2>1. PICK k \in 1 .. Len(C) : i = Len(E) + k
    BY <2>0, Zenon
  <2>2. k \in Named(C, w) /\ \A j \in Named(C, w) : j <= k
    BY <1>1, <2>1 DEF Named
  <2>3. LastOf(C, w) = C[k].value
    BY <2>2, LastOfIs
  <2> QED BY <2>1, <2>2, <2>3
<1>3. CASE i <= Len(E)
  <2>1. Named(C, w) = {}
    BY <1>1, <1>3
  <2>2. i \in Named(E, w) /\ A[i] = E[i]
    BY <1>3 DEF Named
  <2>3. \A j \in Named(E, w) : j <= i
    BY SMTT(30) DEF Named
  <2>4. LastOf(E, w) = E[i].value
    BY <2>2, <2>3, LastOfIs
  <2> QED BY <2>1, <2>2, <2>4
<1> QED BY <1>2, <1>3

\* A header that the lists leave is sourced, and in them.
LEMMA ListedIsSourced ==
    ASSUME config \in ObservabilityConfig, environ \in Environment, PlainConfig, NEW h \in Listed
    PROVE  /\ Sourced(h)
           /\ Named(config.headers, h.name.word) # {} \/ Named(environ.headers, h.name.word) # {}
<1> DEFINE E == environ.headers
<1> DEFINE C == config.headers
<1> DEFINE w == h.name.word
<1>1. /\ E \in Seq([name : HeaderName, value : Text, malformed : BOOLEAN])
      /\ C \in Seq([name : HeaderName, value : Text])
  BY DEF Environment, ObservabilityConfig
<1>2. /\ DOMAIN C = 1 .. Len(C)
      /\ Len(AllHeaders) = Len(E) + Len(C)
      /\ \A i \in 1 .. Len(E) : AllHeaders[i] = E[i]
      /\ \A k \in 1 .. Len(C) : /\ AllHeaders[Len(E) + k].name = C[k].name
                                /\ AllHeaders[Len(E) + k].value = Expanded(C[k].value)
  BY AllHeadersDef, Zenon
<1>3. PICK i \in 1 .. Len(AllHeaders) :
        /\ h = HeaderOf(AllHeaders[i])
        /\ \A j \in (i + 1) .. Len(AllHeaders) : AllHeaders[j].name.word # AllHeaders[i].name.word
  BY AllHeadersDef, Zenon DEF Settled
<1>4. h.value = AllHeaders[i].value /\ w = AllHeaders[i].name.word
  BY <1>3 DEF HeaderOf
<1>5. \/ \E k \in Named(C, w) : i = Len(E) + k /\ LastOf(C, w) = C[k].value
      \/ Named(C, w) = {} /\ Named(E, w) # {} /\ LastOf(E, w) = AllHeaders[i].value
  <2>1. AllHeaders[i].name.word = w
    BY <1>4, Zenon
  <2>2. \A j \in (i + 1) .. Len(AllHeaders) : AllHeaders[j].name.word # w
    BY <1>3, <1>4, Zenon
  <2>3. \A k \in 1 .. Len(C) : AllHeaders[Len(E) + k].name = C[k].name
    BY <1>2, Zenon
  <2> HIDE DEF E, C, w
  <2>4. /\ Len(AllHeaders) = Len(E) + Len(C)
        /\ \A j \in 1 .. Len(E) : AllHeaders[j] = E[j]
    BY <1>2, Zenon
  <2>5. PICK p, q, a, v : p = E /\ q = C /\ a = AllHeaders /\ v = w
    BY Zenon
  <2>6. /\ p \in Seq([name : HeaderName, value : Text, malformed : BOOLEAN])
        /\ q \in Seq([name : HeaderName, value : Text])
        /\ LastInBoth(p, q, a, i, v)
    BY <1>1, <2>1, <2>2, <2>3, <2>4, <2>5, Zenon DEF LastInBoth
  <2>7. \/ \E k \in Named(q, v) : i = Len(p) + k /\ LastOf(q, v) = q[k].value
        \/ Named(q, v) = {} /\ Named(p, v) # {} /\ LastOf(p, v) = a[i].value
    BY <2>6, LastWins
  <2> QED BY <2>5, <2>7, Zenon
<1>6. ASSUME NEW k \in Named(C, w), i = Len(E) + k, LastOf(C, w) = C[k].value
      PROVE  Sourced(h) /\ Named(C, w) # {}
  <2>1. k \in 1 .. Len(C) /\ k \in DOMAIN C
    BY <1>2, Zenon DEF Named
  <2>2. h.value = Expanded(C[k].value)
    BY <1>2, <1>4, <1>6, <2>1, Zenon
  <2>3. PlainVars => h.value = C[k].value
    BY <2>1, <2>2, PlainExpandsToItself, Zenon DEF PlainConfig
  <2>4. Named(C, w) # {}
    OBVIOUS
  <2> QED BY <1>6, <2>3, <2>4, Zenon DEF Sourced
<1> QED BY <1>4, <1>5, <1>6, Zenon DEF Sourced

\* The names of the lists, and no others, are those of the headers they leave.
LEMMA ListedWords ==
    ASSUME config \in ObservabilityConfig, environ \in Environment
    PROVE  Words(Listed) = Words(Entries(environ.headers)) \cup Words(Entries(config.headers))
<1> DEFINE E == environ.headers
<1> DEFINE C == config.headers
<1> DEFINE A == AllHeaders
<1>0. PICK e, c, n : e = Len(E) /\ c = Len(C) /\ n = Len(A)
  BY Zenon
<1>1. /\ DOMAIN E = 1 .. e /\ DOMAIN C = 1 .. c
      /\ \A i \in 1 .. e : A[i] = E[i]
      /\ \A k \in 1 .. c : A[e + k].name = C[k].name
      /\ Settled(A, n, Listed)
  BY <1>0, AllHeadersDef, Zenon
<1>2. e \in Nat /\ c \in Nat /\ n = e + c
  BY <1>0, AllHeadersDef, Zenon
<1>3. \A h \in Listed : h.name.word \in Words(Entries(E)) \cup Words(Entries(C))
  <2>1. \A i \in 1 .. n : i \in 1 .. e \/ \E k \in 1 .. c : i = e + k
    <3>1. \A i \in 1 .. n : i \notin 1 .. e => i - e \in 1 .. c /\ i = e + (i - e)
      BY <1>2
    <3> QED BY <3>1, Zenon
  <2>2. \A i \in 1 .. e : A[i].name.word \in Words(Entries(E))
    BY <1>1, Zenon DEF Words, Entries
  <2>3. \A k \in 1 .. c : A[e + k].name.word \in Words(Entries(C))
    BY <1>1, Zenon DEF Words, Entries
  <2>4. \A h \in Listed : \E i \in 1 .. n : h = HeaderOf(A[i])
    BY <1>1, Zenon DEF Settled
  <2>5. \A i : HeaderOf(A[i]).name.word = A[i].name.word
    BY DEF HeaderOf
  <2> QED BY <2>1, <2>2, <2>3, <2>4, <2>5, Zenon
<1>4. \A i \in 1 .. n : A[i].name.word \in Words(Listed)
  BY <1>1 DEF Settled, Words
<1>5. \A i \in 1 .. e : E[i].name.word \in Words(Listed)
  <2>1. \A i \in 1 .. e : i \in 1 .. n
    BY <1>2
  <2> QED BY <1>1, <1>4, <2>1, Zenon
<1>6. \A k \in 1 .. c : C[k].name.word \in Words(Listed)
  <2>1. \A k \in 1 .. c : e + k \in 1 .. n
    BY <1>2
  <2> QED BY <1>1, <1>4, <2>1, Zenon
<1>7. Words(Listed) \subseteq Words(Entries(E)) \cup Words(Entries(C))
  BY <1>3, Zenon DEF Words
<1>8. Words(Entries(E)) \subseteq Words(Listed)
  BY <1>1, <1>5 DEF Words, Entries
<1>9. Words(Entries(C)) \subseteq Words(Listed)
  BY <1>1, <1>6 DEF Words, Entries
<1> QED BY <1>7, <1>8, <1>9

\* What resolve_headers returns, when it does.
LEMMA ResolvedHeaders ==
    ASSUME resolve_headers # Failed
    PROVE  /\ resolve_headers = Listed \cup (IF config.basic_auth # None /\ ~HasAuthorization
                                             THEN {BasicAuth} ELSE {})
           /\ \A i \in DOMAIN config.headers : ~Malformed(config.headers[i].value)
BY DEF resolve_headers

\* The headers that are resolved have different names, those of the lists and of
\* basic_auth, and each is sourced.
LEMMA ResolvedIsRight ==
    ASSUME config \in ObservabilityConfig, environ \in Environment, PlainConfig,
           resolve_headers # Failed
    PROVE  /\ \A h, g \in resolve_headers : h.name.word = g.name.word => h = g
           /\ Words(resolve_headers) =
                Words(Entries(environ.headers)) \cup Words(Entries(config.headers))
                \cup (IF config.basic_auth = None THEN {} ELSE {Authorization.word})
           /\ \A h \in resolve_headers : Sourced(h)
<1> DEFINE R == resolve_headers
<1> DEFINE used == config.basic_auth # None /\ ~HasAuthorization
<1>1. R = Listed \cup (IF used THEN {BasicAuth} ELSE {})
  BY ResolvedHeaders
<1> HIDE DEF R
<1>2. BasicAuth.name = Authorization /\ BasicAuth.name.word = Authorization.word
  BY DEF BasicAuth
<1>3. HasAuthorization <=> Authorization.word \in Words(Listed)
  BY DEF HasAuthorization, eq_ignore_ascii_case, Words
<1>4. \A h, g \in Listed : h.name.word = g.name.word => h = g
  <2>0. PICK e, c : e = Len(environ.headers) /\ c = Len(config.headers)
    BY Zenon
  <2>1. PICK n : n = Len(AllHeaders) /\ n \in Nat
    <3>1. e \in Nat /\ c \in Nat /\ Len(AllHeaders) = e + c
      BY <2>0, AllHeadersDef, Zenon
    <3> QED BY <3>1
  <2>2. Settled(AllHeaders, n, Listed)
    BY <2>1, AllHeadersDef, Zenon
  <2> QED BY <2>1, <2>2, SettledIsUnique, Zenon
<1>5. ASSUME NEW h \in R, NEW g \in R, h.name.word = g.name.word PROVE h = g
  <2>1. \A x \in Listed : x.name.word \in Words(Listed)
    BY DEF Words
  <2> QED BY <1>1, <1>2, <1>3, <1>4, <1>5, <2>1
<1>6. Words(R) = Words(Listed) \cup (IF config.basic_auth = None THEN {} ELSE {Authorization.word})
  <2>1. CASE used
    <3>1. R = Listed \cup {BasicAuth}
      BY <1>1, <2>1
    <3> QED BY <1>2, <2>1, <3>1 DEF Words
  <2>2. CASE ~used
    BY <1>1, <1>3, <2>2 DEF Words
  <2> QED BY <2>1, <2>2
<1>7. ASSUME NEW h \in R PROVE Sourced(h)
  <2>1. CASE h \in Listed
    BY <2>1, ListedIsSourced
  <2>2. CASE used /\ h = BasicAuth
    <3>1. Authorization.word \notin Words(Entries(environ.headers)) \cup Words(Entries(config.headers))
      BY <1>3, <2>2, ListedWords
    <3>2. h.name = Authorization /\ h.name.word = Authorization.word
      BY <1>2, <2>2
    <3>3. Named(config.headers, h.name.word) = {} /\ Named(environ.headers, h.name.word) = {}
      BY <3>1, <3>2 DEF Named, Words, Entries
    <3>4. ASSUME PlainVars
          PROVE  h.value = <<"Basic">> \o config.basic_auth.username \o <<":">>
                                       \o config.basic_auth.password
      <4>1. /\ Expanded(config.basic_auth.username) = config.basic_auth.username
            /\ Expanded(config.basic_auth.password) = config.basic_auth.password
        BY <2>2, <3>4, PlainExpandsToItself DEF PlainConfig
      <4> QED BY <2>2, <4>1, Zenon DEF BasicAuth
    <3> QED BY <2>2, <3>2, <3>3, <3>4, Zenon DEF Sourced
  <2> QED BY <1>1, <2>1, <2>2
<1> QED BY <1>5, <1>6, <1>7, ListedWords DEF R

-----------------------------------------------------------------------------
(* The URL of a signal *)

\* A base path, told from the path of the signal under it.
BasePath(path) == ~EndsInV1(path) /\ ~EndsInSignal(path)

\* What validate_endpoint lets through keeps its path and has none of the flaws.
LEMMA Validated ==
    ASSUME NEW u \in Endpoint, validate_endpoint(u) # Failed
    PROVE  /\ validate_endpoint(u).path = u.path /\ validate_endpoint(u).flaw = u.flaw
           /\ u.flaw \notin {"scheme", "userinfo", "blank"}
BY DEF validate_endpoint, Endpoint

\* A path without the two segments put at its end is the path it was.
LEMMA TwoSegments ==
    ASSUME NEW V, NEW path \in Seq(V), NEW a \in V, NEW b \in V
    PROVE  LET long == path \o <<a, b>> IN
           long \in Seq(V) /\ SubSeq(long, 1, Len(long) - 2) = path
<1> DEFINE long == path \o <<a, b>>
<1>1. long \in Seq(V) /\ Len(long) = Len(path) + 2 /\ \A i \in 1 .. Len(path) : long[i] = path[i]
  <2>1. <<a, b>> \in Seq(V) /\ Len(<<a, b>>) = 2
    OBVIOUS
  <2> QED BY <2>1, ConcatAt, ConcatType
<1> HIDE DEF long
<1> DEFINE short == SubSeq(long, 1, Len(long) - 2)
<1>2. Len(long) - 2 = Len(path) /\ Len(path) \in Nat
  BY <1>1
<1>3. short = [i \in 1 .. Len(path) |-> long[i]]
  BY <1>1, <1>2
<1>4. short = [i \in 1 .. Len(path) |-> path[i]]
  BY <1>1, <1>3, Zenon
<1>5. path = [i \in 1 .. Len(path) |-> path[i]]
  OBVIOUS
<1>6. short = path
  BY <1>4, <1>5, Zenon
<1> QED BY <1>1, <1>6 DEF long

\* The URL of a signal under a base that has been looked at.
LEMMA UnderBase ==
    ASSUME NEW u \in Endpoint, BasePath(u.path), NEW s \in Signal,
           validate_endpoint(join_signal_url(u, s)) # Failed
    PROVE  LET url == validate_endpoint(join_signal_url(u, s)) IN
           /\ url.flaw \notin {"scheme", "userinfo", "blank"}
           /\ SubSeq(url.path, 1, Len(url.path) - 2) = u.path
           /\ url.path = u.path \o <<"v1", s>>
<1> DEFINE j == join_signal_url(u, s)
<1>1. u.path \in Seq(Segment) /\ "v1" \in Segment /\ s \in Segment
  <2>1. u.path \in Seq(Segment)
    BY DEF Endpoint
  <2>2. "v1" \in Segment /\ Signal \subseteq Segment
    BY TelemetryAssumption
  <2> QED BY <2>1, <2>2
<1>2. j.path = u.path \o <<"v1", s>> /\ j.flaw = u.flaw
  BY DEF join_signal_url, Endpoint
<1>3. j \in Endpoint
  <2>1. u.path \o <<"v1", s>> \in Seq(Segment)
    BY <1>1, TwoSegments, SMTT(30)
  <2> QED BY <2>1, Zenon DEF join_signal_url, Endpoint
<1> HIDE DEF j
<1>4. /\ validate_endpoint(j).path = j.path /\ validate_endpoint(j).flaw = j.flaw
      /\ j.flaw \notin {"scheme", "userinfo", "blank"}
  BY <1>3, Validated DEF j
<1>5. SubSeq(j.path, 1, Len(j.path) - 2) = u.path
  BY <1>1, <1>2, TwoSegments
<1> QED BY <1>2, <1>4, <1>5 DEF j

\* The bases the code writes itself are base paths.
LEMMA PresetIsABase ==
    ASSUME NEW backend \in ObservabilityBackend, default_endpoint(backend) # None
    PROVE  default_endpoint(backend) \in Endpoint /\ BasePath(default_endpoint(backend).path)
<1>1. CASE backend = "openobserve"
  <2>1. default_endpoint(backend) = [path |-> <<"api", "default">>, slashes |-> 0, flaw |-> "none"]
    BY <1>1 DEF default_endpoint
  <2>2. "api" \in Segment /\ "default" \in Segment
    BY TelemetryAssumption
  <2>3. <<"api", "default">> \in Seq(Segment)
    BY <2>2
  <2>4. default_endpoint(backend) \in Endpoint
    BY <2>1, <2>3 DEF Endpoint
  <2> QED BY <2>1, <2>4 DEF BasePath, EndsInV1, EndsInSignal, Signal
<1>2. CASE backend \in {"otel-collector", "vector"}
  <2>1. default_endpoint(backend) = [path |-> <<>>, slashes |-> 0, flaw |-> "none"]
    BY <1>2 DEF default_endpoint
  <2> QED BY <2>1 DEF Endpoint, BasePath, EndsInV1, EndsInSignal
<1>3. CASE backend = "custom"
  BY <1>3 DEF default_endpoint
<1> QED BY <1>1, <1>2, <1>3 DEF ObservabilityBackend

\* Where the URL of a signal comes from: its own, or a base with the signal's path.
Located(s, url) ==
    \/ \E u \in {config.own[s], environ.own[s]} \ {None} : u \in Endpoint /\ url = validate_endpoint(u)
    \/ \E u \in Endpoint : BasePath(u.path) /\ url = validate_endpoint(join_signal_url(u, s))

\* resolve_signal_endpoint yields such a URL: a base that is given is looked at before
\* it is used, and the backends' own are base paths.
LEMMA ResolvedIsLocated ==
    ASSUME config \in ObservabilityConfig, environ \in Environment, NEW s \in Signal,
           resolve_signal_endpoint(s) # Failed
    PROVE  Located(s, resolve_signal_endpoint(s))
<1> DEFINE candidates == <<[url |-> config.own[s],   kind |-> "full"],
                           [url |-> config.endpoint, kind |-> "base"],
                           [url |-> environ.own[s],  kind |-> "full"],
                           [url |-> environ.base,    kind |-> "base"],
                           [url |-> default_endpoint(config.backend), kind |-> "preset"]>>
<1> DEFINE given == {i \in 1 .. 5 : candidates[i].url # None}
<1> DEFINE least == CHOOSE i \in given : \A j \in given : i <= j
<1> DEFINE first == candidates[least]
<1> DEFINE url == resolve_signal_endpoint(s)
<1>1. /\ config.own[s] \in Endpoint \cup {None} /\ config.endpoint \in Endpoint \cup {None}
      /\ environ.own[s] \in Endpoint \cup {None} /\ environ.base \in Endpoint \cup {None}
      /\ config.backend \in ObservabilityBackend
  BY SMTT(30) DEF ObservabilityConfig, Environment
<1>2. /\ given # {}
      /\ first.kind = "full" => url = validate_endpoint(first.url)
      /\ first.kind = "base" => /\ ensure_base_endpoint(first.url)
                                /\ url = validate_endpoint(join_signal_url(first.url, s))
      /\ first.kind = "preset" => url = validate_endpoint(join_signal_url(first.url, s))
  BY Zenon DEF resolve_signal_endpoint
<1>3. least \in given
  <2>1. \E i \in given : \A j \in given : i <= j
    <3>1. given \subseteq 1 .. 5
      OBVIOUS
    <3> HIDE DEF given
    <3>2. CASE 1 \in given
      BY <3>1, <3>2
    <3>3. CASE 1 \notin given /\ 2 \in given
      BY <3>1, <3>3, SMTT(30)
    <3>4. CASE 1 \notin given /\ 2 \notin given /\ 3 \in given
      BY <3>1, <3>4
    <3>5. CASE 1 \notin given /\ 2 \notin given /\ 3 \notin given /\ given # {}
      <4>1. given \subseteq {4, 5}
        BY <3>1, <3>5
      <4>2. CASE 4 \in given
        BY <4>1, <4>2
      <4>3. CASE 4 \notin given
        <5>1. given = {5}
          BY <3>5, <4>1, <4>3, Zenon
        <5> QED BY <5>1
      <4> QED BY <4>2, <4>3
    <3> QED BY <1>2, <3>2, <3>3, <3>4, <3>5, ZenonT(60)
  <2> HIDE DEF given
  <2> QED BY <2>1, ZenonT(60)
<1>4. least \in 1 .. 5 /\ first.url # None
  BY <1>3, ZenonT(60)
<1> HIDE DEF least, url
<1>5. \/ first.kind = "full" /\ first.url \in {config.own[s], environ.own[s]} /\ first.url \in Endpoint
      \/ first.kind = "base" /\ first.url \in Endpoint
      \/ first.kind = "preset" /\ first.url = default_endpoint(config.backend)
  BY <1>1, <1>4, SMTT(30)
<1> HIDE DEF first, given
<1>6. ensure_base_endpoint(first.url) => BasePath(first.url.path)
  BY DEF ensure_base_endpoint, BasePath
<1>7. first.kind = "preset" => first.url \in Endpoint /\ BasePath(first.url.path)
  <2>1. PICK backend \in ObservabilityBackend : backend = config.backend
    BY <1>1
  <2>2. default_endpoint(backend) # None =>
          default_endpoint(backend) \in Endpoint /\ BasePath(default_endpoint(backend).path)
    BY PresetIsABase, SMTT(30)
  <2> QED BY <1>4, <1>5, <2>1, <2>2
<1>8. Located(s, url)
  BY <1>2, <1>4, <1>5, <1>6, <1>7 DEF Located
<1> QED BY <1>8 DEF url

-----------------------------------------------------------------------------
(* The start of the process *)

\* While configuration and environment stay, so does what they resolve to.
LEMMA SameResolution ==
    ASSUME UNCHANGED <<config, environ>>
    PROVE  /\ resolve_headers' = resolve_headers
           /\ PlainConfig' <=> PlainConfig
           /\ \A s \in Signal : resolve_signal_endpoint(s)' = resolve_signal_endpoint(s)
<1>1. config' = config /\ environ' = environ
  OBVIOUS
<1>2. resolve_headers' = resolve_headers
  BY <1>1, ZenonT(60) DEF resolve_headers, Listed, AllHeaders, ExpandedHeaders, HasAuthorization, BasicAuth,
       Expanded, Malformed
<1>3. PlainConfig' <=> PlainConfig
  BY <1>1, Zenon DEF PlainConfig, PlainVars
<1>4. \A s \in Signal : resolve_signal_endpoint(s)' = resolve_signal_endpoint(s)
  BY <1>1 DEF resolve_signal_endpoint
<1> QED BY <1>2, <1>3, <1>4, Zenon

\* What is built next is never a stage without exporters.
LEMMA AfterGoesOn ==
    ASSUME NEW s \in Signal
    PROVE  After(s) \in Signal \cup {"install"}
<1>1. CASE s = "profiles"
  BY <1>1 DEF After
<1>2. CASE s # "profiles"
  <2>1. \E i \in 2 .. 4 : SignalOrder[i - 1] = s
    <3>1. SignalOrder[1] = "logs" /\ SignalOrder[2] = "metrics" /\ SignalOrder[3] = "traces"
      BY DEF SignalOrder
    <3>2. 2 - 1 = 1 /\ 3 - 1 = 2 /\ 4 - 1 = 3 /\ {2, 3, 4} \subseteq 2 .. 4
      OBVIOUS
    <3> QED BY <1>2, <3>1, <3>2 DEF Signal
  <2>2. PICK i \in 2 .. 4 : After(s) = SignalOrder[i]
    BY <1>2, <2>1, Zenon DEF After
  <2> QED BY <2>2 DEF SignalOrder, Signal
<1> QED BY <1>1, <1>2

\* What an exporter was built from is what its configuration resolves to still.
TelemetryInv ==
    /\ config \in ObservabilityConfig /\ environ \in Environment
    /\ stage \in {"load", "failed"} => exporters = {}
    /\ stage \notin {"load", "failed"} => PlainConfig
    /\ \A e \in exporters :
         /\ e.signal \in Signal
         /\ resolve_signal_endpoint(e.signal) # Failed /\ e.url = resolve_signal_endpoint(e.signal)
         /\ resolve_headers # Failed /\ e.headers = SentHeaders(e.signal, resolve_headers)

\* No exporter is built before the configuration is loaded.
LEMMA TelemetryStarts == TelemetryInit => TelemetryInv
<1> SUFFICES ASSUME TelemetryInit PROVE TelemetryInv
  OBVIOUS
<1>1. PICK input \in Inputs : config = input.config /\ environ = input.environ
  BY DEF TelemetryInit
<1>2. input \in [config : ObservabilityConfig, environ : Environment]
  BY TelemetryAssumption
<1>3. config \in ObservabilityConfig /\ environ \in Environment
  BY <1>1, <1>2
<1> QED BY <1>3 DEF TelemetryInit, TelemetryInv

\* What a sequence holds.
LEMMA ElementsIn ==
    ASSUME NEW S, NEW s \in Seq(S), NEW i \in DOMAIN s
    PROVE  s[i] \in S
  OBVIOUS

\* load_config leaves a configuration, and no reference in it where no variable holds
\* one.
LEMMA LoadStep ==
    ASSUME TelemetryInv, LoadConfig
    PROVE  TelemetryInv'
<1>1. /\ config \in ObservabilityConfig /\ environ \in Environment /\ environ' = environ
      /\ exporters = {} /\ exporters' = {}
  BY SMTT(30) DEF TelemetryInv, LoadConfig
<1>2. CASE \E text \in Texts(config) : Malformed(text)
  <2>1. config' = config /\ stage' = "failed"
    BY <1>2, SMTT(30) DEF LoadConfig
  <2> QED BY <1>1, <2>1 DEF TelemetryInv
<1>3. CASE ~\E text \in Texts(config) : Malformed(text)
  <2> DEFINE H == config.headers
  <2> DEFINE B == config.basic_auth
  <2>1. config' = expand_env_in_value(config)
    BY <1>3 DEF LoadConfig
  <2>2. H \in Seq([name : HeaderName, value : Text]) /\ B \in BasicAuthConfig \cup {None}
    BY <1>1 DEF ObservabilityConfig
  <2>3. /\ \A i \in DOMAIN H : H[i].value \in Text /\ ~Malformed(H[i].value)
        /\ B # None => /\ B.username \in Text /\ ~Malformed(B.username)
                       /\ B.password \in Text /\ ~Malformed(B.password)
    <3>1. ASSUME NEW i \in DOMAIN H PROVE H[i].value \in Text /\ ~Malformed(H[i].value)
      <4>1. H[i].value \in Texts(config)
        BY Zenon DEF Texts
      <4>2. H[i] \in [name : HeaderName, value : Text]
        BY <2>2, ElementsIn, Zenon
      <4>3. ~Malformed(H[i].value)
        BY <1>3, <4>1, Zenon
      <4> QED BY <4>2, <4>3
    <3>2. ASSUME B # None
          PROVE  /\ B.username \in Text /\ ~Malformed(B.username)
                 /\ B.password \in Text /\ ~Malformed(B.password)
      <4>1. B.username \in Texts(config) /\ B.password \in Texts(config)
        BY <3>2 DEF Texts
      <4>2. B.username \in Text /\ B.password \in Text
        BY <2>2, <3>2 DEF BasicAuthConfig
      <4> QED BY <1>3, <4>1, <4>2
    <3> QED BY <3>1, <3>2, Zenon
  <2>4. /\ config'.headers = [i \in DOMAIN H |-> [H[i] EXCEPT !.value = Expanded(H[i].value)]]
        /\ config'.basic_auth = IF B = None THEN None
                                ELSE [username |-> Expanded(B.username), password |-> Expanded(B.password)]
        /\ config' = [config EXCEPT !.headers = config'.headers, !.basic_auth = config'.basic_auth]
    <3> DEFINE newH == [i \in DOMAIN H |-> [H[i] EXCEPT !.value = Expanded(H[i].value)]]
    <3> DEFINE newB == IF B = None THEN None
                       ELSE [username |-> Expanded(B.username), password |-> Expanded(B.password)]
    <3>1. config' = [config EXCEPT !.headers = newH, !.basic_auth = newB]
      BY <2>1, Zenon DEF expand_env_in_value
    <3> HIDE DEF newH, newB
    <3>2. config'.headers = newH /\ config'.basic_auth = newB
      BY <1>1, <3>1 DEF ObservabilityConfig
    <3> QED BY <3>1, <3>2, Zenon DEF newH, newB
  <2>5. config'.headers \in Seq([name : HeaderName, value : Text])
    <3>1. \A i \in DOMAIN H : [H[i] EXCEPT !.value = Expanded(H[i].value)] \in [name : HeaderName, value : Text]
      <4>1. \A i \in DOMAIN H : Expanded(H[i].value) \in Text
        BY <1>1, <2>3, ExpandedType
      <4>2. ASSUME NEW h \in [name : HeaderName, value : Text], NEW text \in Text
            PROVE  [h EXCEPT !.value = text] \in [name : HeaderName, value : Text]
        OBVIOUS
      <4>3. \A i \in DOMAIN H : H[i] \in [name : HeaderName, value : Text]
        BY <2>2, ElementsIn, Zenon
      <4> QED BY <4>1, <4>2, <4>3, Zenon
    <3> HIDE DEF H
    <3> QED BY <2>2, <2>4, <3>1, SMTT(30)
  <2>6. config'.basic_auth \in BasicAuthConfig \cup {None}
    BY <1>1, <2>3, <2>4, ExpandedType, SMTT(30) DEF BasicAuthConfig
  <2>7. config' \in ObservabilityConfig
    BY <1>1, <2>4, <2>5, <2>6, Zenon DEF ObservabilityConfig
  <2>8. PlainConfig'
    <3> SUFFICES ASSUME PlainVars'
                 PROVE  /\ \A i \in DOMAIN config'.headers : config'.headers[i].value \in Seq(Token \ Var)
                        /\ config'.basic_auth # None =>
                             /\ config'.basic_auth.username \in Seq(Token \ Var)
                             /\ config'.basic_auth.password \in Seq(Token \ Var)
      BY DEF PlainConfig
    <3>1. PlainVars
      BY <1>1, SMTT(30) DEF PlainVars
    <3>2. \A i \in DOMAIN H : Expanded(H[i].value) \in Seq(Token \ Var)
      BY <1>1, <2>3, <3>1, ExpandedIsPlain
    <3>3. ASSUME NEW i \in DOMAIN config'.headers PROVE config'.headers[i].value \in Seq(Token \ Var)
      BY <2>2, <2>4, <3>2, SMTT(30)
    <3>4. B # None => Expanded(B.username) \in Seq(Token \ Var) /\ Expanded(B.password) \in Seq(Token \ Var)
      BY <1>1, <2>3, <3>1, ExpandedIsPlain
    <3>5. config'.basic_auth # None =>
            /\ config'.basic_auth.username \in Seq(Token \ Var)
            /\ config'.basic_auth.password \in Seq(Token \ Var)
      BY <2>4, <3>4, SMTT(30)
    <3> QED BY <3>3, <3>5, Zenon
  <2> QED BY <1>1, <2>7, <2>8 DEF TelemetryInv
<1> QED BY <1>2, <1>3

\* An exporter that is built is built from what its signal and the headers resolve to.
LEMMA BuildStep ==
    ASSUME TelemetryInv, NEW s \in Signal, BuildExporter(s)
    PROVE  TelemetryInv'
<1>1. /\ config' = config /\ environ' = environ
      /\ config \in ObservabilityConfig /\ environ \in Environment
  BY DEF BuildExporter, TelemetryInv
<1>2. /\ resolve_headers' = resolve_headers /\ (PlainConfig' <=> PlainConfig)
      /\ \A x \in Signal : resolve_signal_endpoint(x)' = resolve_signal_endpoint(x)
  BY <1>1, SameResolution, Zenon
<1>3. stage \notin {"load", "failed"} /\ After(s) \notin {"load", "failed"} /\ PlainConfig
  BY AfterGoesOn, SMTT(30) DEF BuildExporter, TelemetryInv, Signal
<1>4. stage' \in {After(s), "failed"} /\ (stage' = "failed" => exporters' = {})
  BY <1>3 DEF BuildExporter, Abort
<1>5. ASSUME NEW e \in exporters'
      PROVE  /\ e.signal \in Signal
             /\ resolve_signal_endpoint(e.signal) # Failed /\ e.url = resolve_signal_endpoint(e.signal)
             /\ resolve_headers # Failed /\ e.headers = SentHeaders(e.signal, resolve_headers)
  <2>1. CASE e \in exporters
    BY <2>1 DEF TelemetryInv
  <2>2. CASE e \notin exporters
    <3>1. /\ resolve_signal_endpoint(s) # Failed /\ resolve_headers # Failed
          /\ e = [signal |-> s, url |-> resolve_signal_endpoint(s),
                  headers |-> SentHeaders(s, resolve_headers)]
      BY <2>2, SMTT(30) DEF BuildExporter, Abort
    <3> QED BY <3>1, SMTT(30)
  <2> QED BY <2>1, <2>2
<1> QED BY <1>1, <1>2, <1>3, <1>4, <1>5, SMTT(30) DEF TelemetryInv, SentHeaders

\* A step that builds no exporter keeps them all, or none.
LEMMA KeptExporters ==
    ASSUME TelemetryInv, UNCHANGED <<config, environ>>, exporters' \in {exporters, {}},
           stage' \in {"load", "failed"} => exporters' = {},
           stage' \notin {"load", "failed"} => stage \notin {"load", "failed"}
    PROVE  TelemetryInv'
<1>1. /\ config' = config /\ environ' = environ
      /\ config \in ObservabilityConfig /\ environ \in Environment
  BY DEF TelemetryInv
<1>2. /\ resolve_headers' = resolve_headers /\ (PlainConfig' <=> PlainConfig)
      /\ \A x \in Signal : resolve_signal_endpoint(x)' = resolve_signal_endpoint(x)
  BY <1>1, SameResolution
<1>3. ASSUME NEW e \in exporters'
      PROVE  /\ e.signal \in Signal
             /\ resolve_signal_endpoint(e.signal) # Failed /\ e.url = resolve_signal_endpoint(e.signal)
             /\ resolve_headers # Failed /\ e.headers = SentHeaders(e.signal, resolve_headers)
  <2>1. e \in exporters
    OBVIOUS
  <2> QED BY <2>1 DEF TelemetryInv
<1> QED BY <1>1, <1>2, <1>3 DEF TelemetryInv, SentHeaders

\* TelemetryInv is inductive.
LEMMA TelemetryStep == TelemetryInv /\ [TelemetryNext]_telemetryVars => TelemetryInv'
<1> SUFFICES ASSUME TelemetryInv, [TelemetryNext]_telemetryVars PROVE TelemetryInv'
  BY Zenon
<1>1. CASE InstallSubscriber
  BY <1>1, KeptExporters DEF InstallSubscriber, Abort
<1>2. ASSUME NEW p \in Profiles, CollectProfile(p) PROVE TelemetryInv'
  BY <1>2, KeptExporters DEF CollectProfile
<1>3. CASE ConvertProfile
  BY <1>3, KeptExporters DEF ConvertProfile, startVars
<1>4. CASE PostProfile
  BY <1>4, KeptExporters DEF PostProfile
<1>5. CASE StopTelemetry
  BY <1>5, KeptExporters DEF StopTelemetry
<1>6. CASE UNCHANGED telemetryVars
  <2>1. UNCHANGED <<config, environ, stage, exporters>>
    BY <1>6 DEF telemetryVars, startVars
  <2> QED BY <2>1, KeptExporters DEF TelemetryInv
<1> QED BY <1>1, <1>2, <1>3, <1>4, <1>5, <1>6, LoadStep, BuildStep, SMTT(30) DEF TelemetryNext

-----------------------------------------------------------------------------
(* What the exporters are built with *)

\* PathsAreNotDoubled for any configuration and environment: a base URL that already
\* leads to a signal, from whichever place and with however many slashes, stops
\* Observability::init, and every other URL gets the signal's path once.
THEOREM PathsStaySingle == TelemetrySpec => []PathsAreNotDoubled
<1>1. TelemetryInv => PathsAreNotDoubled
  <2> SUFFICES ASSUME TelemetryInv, NEW e \in exporters
               PROVE  /\ e.url.flaw \notin {"scheme", "userinfo", "blank"}
                      /\ e.url \notin {validate_endpoint(u) :
                                         u \in {config.own[e.signal], environ.own[e.signal]} \ {None}} =>
                           LET base == SubSeq(e.url.path, 1, Len(e.url.path) - 2) IN
                           /\ e.url.path = base \o <<"v1", e.signal>>
                           /\ ~EndsInV1(base) /\ ~EndsInSignal(base)
    BY Zenon DEF PathsAreNotDoubled
  <2>1. PICK s, url : s = e.signal /\ url = e.url
    BY Zenon
  <2>2. s \in Signal /\ url # Failed /\ Located(s, url)
    BY <2>1, ResolvedIsLocated DEF TelemetryInv
  <2>3. CASE \E u \in {config.own[s], environ.own[s]} \ {None} : u \in Endpoint /\ url = validate_endpoint(u)
    <3>1. PICK u \in {config.own[s], environ.own[s]} \ {None} : u \in Endpoint /\ url = validate_endpoint(u)
      BY <2>3
    <3>2. url.flaw \notin {"scheme", "userinfo", "blank"}
      BY <2>2, <3>1, Validated
    <3> QED BY <2>1, <3>1, <3>2, Zenon
  <2>4. CASE \E u \in Endpoint : BasePath(u.path) /\ url = validate_endpoint(join_signal_url(u, s))
    <3>1. PICK u \in Endpoint : BasePath(u.path) /\ url = validate_endpoint(join_signal_url(u, s))
      BY <2>4
    <3>2. /\ url.flaw \notin {"scheme", "userinfo", "blank"}
          /\ SubSeq(url.path, 1, Len(url.path) - 2) = u.path
          /\ url.path = u.path \o <<"v1", s>>
      BY <2>2, <3>1, UnderBase, Zenon
    <3> QED BY <2>1, <3>1, <3>2, Zenon DEF BasePath
  <2> QED BY <2>2, <2>3, <2>4, ZenonT(60) DEF Located
<1> QED BY <1>1, TelemetryStarts, TelemetryStep, PTL DEF TelemetrySpec

\* What ProfileExporter::new does to the headers: one more name at most, and nothing the
\* second time.
LEMMA SentIsSettled ==
    ASSUME NEW s \in Signal, NEW R, \A h, g \in R : h.name.word = g.name.word => h = g
    PROVE  LET sent == SentHeaders(s, R) IN
           /\ \A h, g \in sent : h.name.word = g.name.word => h = g
           /\ SentHeaders("profiles", sent) = SentHeaders("profiles", R)
           /\ s = "profiles" => Protobuf \in sent
           /\ Words(sent) = Words(R) \cup (IF s = "profiles" THEN {Protobuf.name.word} ELSE {})
           /\ \A h \in IF s = "profiles" THEN sent \ {Protobuf} ELSE sent : h \in R
<1> DEFINE sent == SentHeaders(s, R)
<1> DEFINE protobuf == SentHeaders("profiles", R)
<1> DEFINE ct == Protobuf.name.word
<1>1. \A X : SentHeaders("profiles", X) = {h \in X : h.name.word # ct} \cup {Protobuf}
  BY DEF SentHeaders, eq_ignore_ascii_case
<1>2. s # "profiles" => sent = R
  BY DEF SentHeaders
<1>3. s = "profiles" => sent = protobuf
  OBVIOUS
<1> HIDE DEF sent, protobuf
<1>4. protobuf = {h \in R : h.name.word # ct} \cup {Protobuf}
  BY <1>1, Zenon DEF protobuf
<1>5. \A h, g \in protobuf : h.name.word = g.name.word => h = g
  BY <1>4, Zenon
<1>6. SentHeaders("profiles", protobuf) = protobuf
  <2>1. {h \in protobuf : h.name.word # ct} \cup {Protobuf} = protobuf
    BY <1>4
  <2> QED BY <1>1, <2>1, Zenon
<1>7. Words(protobuf) = Words(R) \cup {ct}
  BY <1>4, Zenon DEF Words
<1>8. \A h \in protobuf \ {Protobuf} : h \in R
  BY <1>4, Zenon
<1>9. Protobuf \in protobuf
  BY <1>4, Zenon
<1>10. CASE s = "profiles"
  BY <1>3, <1>5, <1>6, <1>7, <1>8, <1>9, <1>10, Zenon DEF sent, protobuf
<1>11. CASE s # "profiles"
  BY <1>2, <1>11 DEF sent
<1> QED BY <1>10, <1>11

\* HeadersFollowPrecedence for any configuration and environment: resolve_headers
\* inserts the environment's headers first and the configured ones over them, adds
\* basic_auth where no Authorization is among them, and expands a second time what
\* load_config has expanded once.
THEOREM HeadersKeepPrecedence == TelemetrySpec => []HeadersFollowPrecedence
<1>1. TelemetryInv => HeadersFollowPrecedence
  <2> SUFFICES ASSUME TelemetryInv, NEW e \in exporters
               PROVE  /\ \A h, g \in e.headers : h.name.word = g.name.word => h = g
                      /\ \A f \in exporters :
                           SentHeaders("profiles", f.headers) = SentHeaders("profiles", e.headers)
                      /\ e.signal = "profiles" => Protobuf \in e.headers
                      /\ Words(e.headers) =
                           Words(Entries(environ.headers)) \cup Words(Entries(config.headers))
                           \cup (IF config.basic_auth = None THEN {} ELSE {Authorization.word})
                           \cup (IF e.signal = "profiles" THEN {Protobuf.name.word} ELSE {})
                      /\ \A h \in IF e.signal = "profiles" THEN e.headers \ {Protobuf} ELSE e.headers :
                           Sourced(h)
    BY Zenon DEF HeadersFollowPrecedence, Sourced
  <2>1. PICK R, all : /\ R = resolve_headers
                      /\ all = Words(Entries(environ.headers)) \cup Words(Entries(config.headers))
                               \cup (IF config.basic_auth = None THEN {} ELSE {Authorization.word})
    BY Zenon
  <2>2. ASSUME NEW f \in exporters
        PROVE  f.signal \in Signal /\ f.headers = SentHeaders(f.signal, R)
    BY <2>1 DEF TelemetryInv
  <2>3. /\ config \in ObservabilityConfig /\ environ \in Environment /\ PlainConfig
        /\ resolve_headers # Failed
    BY DEF TelemetryInv
  <2>4. /\ \A h, g \in R : h.name.word = g.name.word => h = g
        /\ Words(R) = all
        /\ \A h \in R : Sourced(h)
    BY <2>1, <2>3, ResolvedIsRight, Zenon
  <2>5. ASSUME NEW f \in exporters
        PROVE  /\ \A h, g \in f.headers : h.name.word = g.name.word => h = g
               /\ SentHeaders("profiles", f.headers) = SentHeaders("profiles", R)
               /\ f.signal = "profiles" => Protobuf \in f.headers
               /\ Words(f.headers) = all \cup (IF f.signal = "profiles" THEN {Protobuf.name.word} ELSE {})
               /\ \A h \in IF f.signal = "profiles" THEN f.headers \ {Protobuf} ELSE f.headers : h \in R
    <3>1. PICK s, sent : s = f.signal /\ sent = f.headers
      BY Zenon
    <3>2. s \in Signal /\ sent = SentHeaders(s, R)
      BY <2>2, <3>1, Zenon
    <3>3. /\ \A h, g \in sent : h.name.word = g.name.word => h = g
          /\ SentHeaders("profiles", sent) = SentHeaders("profiles", R)
          /\ s = "profiles" => Protobuf \in sent
          /\ Words(sent) = all \cup (IF s = "profiles" THEN {Protobuf.name.word} ELSE {})
          /\ \A h \in IF s = "profiles" THEN sent \ {Protobuf} ELSE sent : h \in R
      BY <2>4, <3>2, SentIsSettled, Zenon
    <3> QED BY <3>1, <3>3, Zenon
  <2> QED BY <2>1, <2>4, <2>5, Zenon
<1> QED BY <1>1, TelemetryStarts, TelemetryStep, PTL DEF TelemetrySpec

-----------------------------------------------------------------------------
(* The requests of one window after another *)

\* The conversion of a profile starts from new tables at every window.
LEMMA ProfileWindow ==
    /\ TelemetryInit => ProfileInit
    /\ [TelemetryNext]_telemetryVars => [Convert]_profileVars \/ ProfileInit'
<1>1. TelemetryInit => ProfileInit
  BY DEF TelemetryInit, ProfileInit
<1>2. ASSUME NEW p \in Profiles, CollectProfile(p) PROVE [Convert]_profileVars \/ ProfileInit'
  <2>1. CASE UNCHANGED profileVars
    BY <2>1
  <2>2. CASE Renew(p)
    <3>1. p \in [samples : Seq(Sample), frequency : Int]
      BY TelemetryAssumption, SMTT(30)
    <3> QED BY <2>2, <3>1 DEF Renew, ProfileInit, New
  <2> QED BY <1>2, <2>1, <2>2 DEF CollectProfile
<1>3. ASSUME NEW s \in Signal, BuildExporter(s) PROVE UNCHANGED profileVars
  BY <1>3 DEF BuildExporter
<1>4. ASSUME LoadConfig \/ InstallSubscriber \/ PostProfile \/ StopTelemetry \/ UNCHANGED telemetryVars
      PROVE  UNCHANGED profileVars
  BY <1>4 DEF LoadConfig, InstallSubscriber, PostProfile, StopTelemetry, telemetryVars
<1>5. ConvertProfile => Convert
  BY DEF ConvertProfile
<1> QED BY <1>1, <1>2, <1>3, <1>4, <1>5, Zenon DEF TelemetryNext

\* The tables are sound, and read as what was collected, over all windows of a process.
LEMMA WindowsAreSound == TelemetrySpec => [](DictionaryInv /\ Mirrored)
  BY ProfileWindow, DictionaryInit, DictionaryStep, MirrorInit, MirrorStep, PTL DEF TelemetrySpec

\* The request of every window has a closed dictionary, whatever was collected in the
\* windows before and wherever main and shutdown come between its steps.
THEOREM WindowsStayClosed == TelemetrySpec => []DictionaryIsClosed
<1>1. DictionaryInv => DictionaryIsClosed
  BY DEF DictionaryInv
<1> QED BY <1>1, WindowsAreSound, PTL

\* No window's request repeats a row, or takes over one from the window before.
THEOREM WindowsShareRows == TelemetrySpec => []RowsAreShared
<1>1. DictionaryInv => RowsAreShared
  BY IndexedIsShared DEF DictionaryInv, Tables, RowsAreShared
<1> QED BY <1>1, WindowsAreSound, PTL

\* Every window's request reads back as the samples of that window and of no other.
THEOREM WindowsReadBack == TelemetrySpec => []RoundTrip
<1>1. Mirrored => RoundTrip
  BY DEF Mirrored
<1> QED BY <1>1, WindowsAreSound, PTL

-----------------------------------------------------------------------------
(* Every access keeps the atomics and the callers' locals well formed. *)

\* A new FailureBackoff is well typed.
LEMMA BackoffTypeInit == BackoffInit => BackoffTypeOK
<1> SUFFICES ASSUME BackoffInit PROVE BackoffTypeOK
  OBVIOUS
<1>1. confirmed \in BOOLEAN /\ earned \in [Caller -> BOOLEAN]
  BY Zenon DEF BackoffInit
<1>2. 0 \in Time /\ 0 \in 0 .. CounterModulus - 1 /\ 0 \in 0 .. Threshold
  BY BackoffAssumption DEF Time
<1>3. QED
  BY <1>1, <1>2 DEF BackoffInit, BackoffTypeOK

\* fetch_add stays within the counter, its wrap included.
LEMMA FetchAddType ==
    ASSUME NEW n \in 0 .. CounterModulus - 1
    PROVE  /\ FetchAdd(n) \in 0 .. CounterModulus - 1
           /\ FetchAdd(n) <= n + 1
BY BackoffAssumption, SMTT(30) DEF FetchAdd

\* Every atomic access, and the clock, keeps the types.
LEMMA BackoffTypeStep == BackoffTypeOK /\ [BackoffNext]_backoffVars => BackoffTypeOK'
<1> SUFFICES ASSUME BackoffTypeOK, [BackoffNext]_backoffVars PROVE BackoffTypeOK'
  OBVIOUS
<1> USE BackoffAssumption DEF BackoffTypeOK, shared, locals, history
<1>1. ASSUME NEW c \in Caller, CallRecordFailure(c) PROVE BackoffTypeOK'
  BY <1>1, SMTT(30) DEF CallRecordFailure
<1>2. ASSUME NEW c \in Caller, CountFailure(c) PROVE BackoffTypeOK'
  <2>1. failures' \in 0 .. CounterModulus - 1
    BY <1>2, FetchAddType DEF CountFailure
  <2>2. stamps' \subseteq Time
    BY <1>2 DEF CountFailure
  <2>3. at' \in [Caller -> Time]
    <3>1. 0 \in Time
      BY DEF Time
    <3>2. QED
      BY <1>2, <3>1 DEF CountFailure
  <2>4. earned' \in [Caller -> BOOLEAN]
    BY <1>2, SMTT(30) DEF CountFailure
  <2>5. QED
    BY <1>2, <2>1, <2>2, <2>3, <2>4, SMTT(30) DEF CountFailure
<1>3. ASSUME NEW c \in Caller, StampWindow(c) PROVE BackoffTypeOK'
  BY <1>3 DEF StampWindow, Time
<1>4. ASSUME NEW c \in Caller, CallRecordSuccess(c) PROVE BackoffTypeOK'
  BY <1>4, SMTT(30) DEF CallRecordSuccess
<1>5. ASSUME NEW c \in Caller, NEW x \in Stores, StoreSuccess(c, x) PROVE BackoffTypeOK'
  <2>1. confirmed' \in BOOLEAN
    BY <1>5 DEF StoreSuccess
  <2>2. QED
    BY <1>5, <2>1, SMTT(30) DEF StoreSuccess
<1>6. ASSUME NEW c \in Caller, CallIsOpen(c) PROVE BackoffTypeOK'
  BY <1>6, SMTT(30) DEF CallIsOpen, Loads, Stores
<1>7. ASSUME NEW c \in Caller, NEW x \in Loads, LoadWindow(c, x) PROVE BackoffTypeOK'
  BY <1>7, SMTT(30) DEF LoadWindow
<1>8. ASSUME NEW c \in Caller, ReturnIsOpen(c) PROVE BackoffTypeOK'
  BY <1>8, SMTT(30) DEF ReturnIsOpen, Time
<1>9. CASE BackoffTick
  BY <1>9, SMTT(30) DEF BackoffTick, Time
<1>10. ASSUME NEW t \in Time, StepBack(t) PROVE BackoffTypeOK'
  BY <1>10, SMTT(30) DEF StepBack
<1>11. CASE UNCHANGED backoffVars
  BY <1>11 DEF backoffVars
<1>12. QED
  BY <1>1, <1>2, <1>3, <1>4, <1>5, <1>6, <1>7, <1>8, <1>9, <1>10, <1>11, Zenon DEF BackoffNext

\* The three atomics, the clock and every caller's locals keep their types
\* under every interleaving of record_failure, record_success and is_open.
THEOREM BackoffTypeCorrect == BackoffSpec => []BackoffTypeOK
<1>1. QED
  BY BackoffTypeInit, BackoffTypeStep, PTL DEF BackoffSpec

-----------------------------------------------------------------------------
(* The inductive invariant behind OpenIsEarned. *)

\* The counter never runs ahead of the failures counted since the last reset:
\* fetch_add moves both, the reset clears both, and wrapping only lowers one.
CountWithinStreak == streak = Threshold \/ failures <= streak

\* An is_open under way knows of every full streak that stood during it, and
\* a full count it loaded was such a streak.
LoadsAreEarned ==
    \A c \in Caller : call[c] = "load" =>
        /\ streak = Threshold => earned[c]
        /\ "failures" \notin todo[c] /\ seenFailures[c] >= Threshold => earned[c]

EarnedInv == BackoffTypeOK /\ CountWithinStreak /\ LoadsAreEarned

\* Before any call, no verdict is pending and the count is zero.
LEMMA EarnedInit == BackoffInit => EarnedInv
BY BackoffTypeInit, BackoffAssumption, SMTT(30)
   DEF BackoffInit, EarnedInv, CountWithinStreak, LoadsAreEarned

\* No interleaving of loads, stores and fetch_adds breaks the accounting.
LEMMA EarnedStep == EarnedInv /\ [BackoffNext]_backoffVars => EarnedInv'
<1> SUFFICES ASSUME EarnedInv, [BackoffNext]_backoffVars PROVE EarnedInv'
  OBVIOUS
<1>0. BackoffTypeOK'
  BY BackoffTypeStep DEF EarnedInv
<1> SUFFICES CountWithinStreak' /\ LoadsAreEarned'
  BY <1>0, SMTT(30) DEF EarnedInv
<1> USE BackoffAssumption
    DEF EarnedInv, BackoffTypeOK, CountWithinStreak, LoadsAreEarned, shared, locals, history
<1>1. ASSUME NEW c \in Caller, CallRecordFailure(c)
      PROVE CountWithinStreak' /\ LoadsAreEarned'
  BY <1>1 DEF CallRecordFailure
<1>2. ASSUME NEW c \in Caller, CountFailure(c)
      PROVE CountWithinStreak' /\ LoadsAreEarned'
  <2>1. CountWithinStreak'
    BY <1>2, FetchAddType, SMTT(30) DEF CountFailure
  <2>2. ASSUME NEW d \in Caller, call'[d] = "load"
        PROVE  /\ call[d] = "load"
               /\ earned'[d] = (earned[d] \/ streak' = Threshold)
    BY <1>2, <2>2, SMTT(30) DEF CountFailure
  <2>3. QED
    BY <1>2, <2>1, <2>2, Zenon DEF CountFailure
<1>3. ASSUME NEW c \in Caller, StampWindow(c)
      PROVE CountWithinStreak' /\ LoadsAreEarned'
  BY <1>3, SMTT(30) DEF StampWindow
<1>4. ASSUME NEW c \in Caller, CallRecordSuccess(c)
      PROVE CountWithinStreak' /\ LoadsAreEarned'
  BY <1>4, SMTT(30) DEF CallRecordSuccess
<1>5. ASSUME NEW c \in Caller, NEW x \in Stores, StoreSuccess(c, x)
      PROVE CountWithinStreak' /\ LoadsAreEarned'
  BY <1>5 DEF StoreSuccess
<1>6. ASSUME NEW c \in Caller, CallIsOpen(c)
      PROVE CountWithinStreak' /\ LoadsAreEarned'
  BY <1>6, Zenon DEF CallIsOpen, Loads
<1>7. ASSUME NEW c \in Caller, NEW x \in Loads, LoadWindow(c, x)
      PROVE CountWithinStreak' /\ LoadsAreEarned'
  BY <1>7, SMTT(30) DEF LoadWindow
<1>8. ASSUME NEW c \in Caller, ReturnIsOpen(c)
      PROVE CountWithinStreak' /\ LoadsAreEarned'
  BY <1>8, SMTT(30) DEF ReturnIsOpen
<1>9. CASE BackoffTick
  BY <1>9, SMTT(30) DEF BackoffTick
<1>10. ASSUME NEW t \in Time, StepBack(t)
       PROVE CountWithinStreak' /\ LoadsAreEarned'
  BY <1>10, SMTT(30) DEF StepBack
<1>11. CASE UNCHANGED backoffVars
  BY <1>11, SMTT(30) DEF backoffVars
<1>12. QED
  BY <1>1, <1>2, <1>3, <1>4, <1>5, <1>6, <1>7, <1>8, <1>9, <1>10, <1>11, Zenon DEF BackoffNext

\* Under every interleaving of the atomic accesses, with the stores of
\* record_success and the loads of is_open in any order, an open verdict is
\* backed by a full streak that stood during the call.
THEOREM OpenWindowIsEarned == BackoffSpec => []OpenIsEarned
<1>1. EarnedInv => OpenIsEarned
  BY SMTT(30) DEF EarnedInv, LoadsAreEarned, OpenIsEarned, Decided, Verdict, IsOpen
<1>2. QED
  BY <1>1, EarnedInit, EarnedStep, PTL DEF BackoffSpec

-----------------------------------------------------------------------------
(* The inductive invariant behind OpenCoversAFailure. *)

\* Every time that can reach an is_open verdict was read by a failure that
\* completed a streak: the one in the atomic, those about to be stored, and
\* those already loaded.
StampsAccounted ==
    /\ opened_at \in stamps \cup {WINDOW_CLOSED}
    /\ \A c \in Caller :
        /\ call[c] = "stamp" => at[c] \in stamps
        /\ seenOpened[c] \in stamps \cup {WINDOW_CLOSED}

\* Every stamp in flight or in opened_at stays a recorded failure's reading.
LEMMA StampsStep ==
    BackoffTypeOK /\ StampsAccounted /\ [BackoffNext]_backoffVars => StampsAccounted'
<1> SUFFICES ASSUME BackoffTypeOK, StampsAccounted, [BackoffNext]_backoffVars
             PROVE  StampsAccounted'
  OBVIOUS
<1> USE DEF BackoffTypeOK, StampsAccounted, shared, locals, history
<1>1. ASSUME NEW c \in Caller, CallRecordFailure(c) PROVE StampsAccounted'
  BY <1>1, SMTT(30) DEF CallRecordFailure
<1>2. ASSUME NEW c \in Caller, CountFailure(c) PROVE StampsAccounted'
  BY <1>2 DEF CountFailure
<1>3. ASSUME NEW c \in Caller, StampWindow(c) PROVE StampsAccounted'
  BY <1>3, SMTT(30) DEF StampWindow
<1>4. ASSUME NEW c \in Caller, CallRecordSuccess(c) PROVE StampsAccounted'
  BY <1>4, SMTT(30) DEF CallRecordSuccess
<1>5. ASSUME NEW c \in Caller, NEW x \in Stores, StoreSuccess(c, x)
      PROVE StampsAccounted'
  BY <1>5, SMTT(30) DEF StoreSuccess
<1>6. ASSUME NEW c \in Caller, CallIsOpen(c) PROVE StampsAccounted'
  BY <1>6, SMTT(30) DEF CallIsOpen
<1>7. ASSUME NEW c \in Caller, NEW x \in Loads, LoadWindow(c, x)
      PROVE StampsAccounted'
  BY <1>7, SMTT(30) DEF LoadWindow
<1>8. ASSUME NEW c \in Caller, ReturnIsOpen(c) PROVE StampsAccounted'
  BY <1>8 DEF ReturnIsOpen
<1>9. CASE BackoffTick
  BY <1>9, SMTT(30) DEF BackoffTick
<1>10. ASSUME NEW t \in Time, StepBack(t) PROVE StampsAccounted'
  BY <1>10, SMTT(30) DEF StepBack
<1>11. CASE UNCHANGED backoffVars
  BY <1>11 DEF backoffVars
<1>12. QED
  BY <1>1, <1>2, <1>3, <1>4, <1>5, <1>6, <1>7, <1>8, <1>9, <1>10, <1>11, Zenon DEF BackoffNext

\* However the clock steps and the stamps race, an open verdict at time t lies
\* within Backoff seconds after a streak-completing failure's clock reading.
THEOREM OpenWindowCoversAFailure == BackoffSpec => []OpenCoversAFailure
<1>1. BackoffInit => StampsAccounted
  BY DEF BackoffInit, StampsAccounted
<1>2. BackoffTypeOK /\ StampsAccounted => OpenCoversAFailure
  <2> SUFFICES ASSUME BackoffTypeOK, StampsAccounted,
                      NEW c \in Caller, Decided(c), Verdict(c)
               PROVE  \E s \in stamps : s <= at[c] /\ at[c] < s + Backoff
    BY DEF OpenCoversAFailure
  <2>1. seenOpened[c] \in stamps
    BY DEF StampsAccounted, Verdict, IsOpen
  <2>2. seenOpened[c] <= at[c] /\ at[c] < seenOpened[c] + Backoff
    BY BackoffAssumption DEF BackoffTypeOK, Time, WINDOW_CLOSED, Verdict, IsOpen
  <2>3. QED
    BY <2>1, <2>2
<1>3. QED
  BY <1>1, <1>2, BackoffTypeInit, BackoffTypeStep, StampsStep, PTL DEF BackoffSpec

=============================================================================
