------------------------------ MODULE Telemetry ------------------------------
(***************************************************************************)
(* Telemetry from the configuration file to the profiles it sends:         *)
(* load_config's expansion and validation of the observability section     *)
(* (crates/doggy-dns-basic/src/env.rs, load.rs, validate.rs),              *)
(* Observability::init with endpoint.rs and auth.rs for every exporter     *)
(* (crates/doggy-dns-observability/src), and the windows of the profiler   *)
(* (profiles/mod.rs), whose requests ProfileDictionary builds.             *)
(*                                                                         *)
(* Text is a sequence of tokens, of which some are ${NAME} references.  An *)
(* URL is its path, the number of slashes after it, and at most one flaw.  *)
(* Values of OTEL_EXPORTER_OTLP_HEADERS are taken after percent-decoding.  *)
(***************************************************************************)
EXTENDS ProfileDictionary

CONSTANTS
    Segment,       \* segments of a URL's path
    Token,         \* what text and the names of headers are made of
    Var,           \* environment variables a configuration refers to
    Unterminated,  \* the token "${" that nothing closes
    Unsendable,    \* a token no header value may hold
    None, Failed,  \* the option without a value, and an Err
    Inputs,        \* what a process may start from: a configuration, as written, and
                   \*   an environment
    Profiles,      \* what a collection window may yield
    MaxWindows     \* bound: collection windows

VARIABLES
    config,      \* the configuration: as written, then as loaded
    environ,     \* the process's environment
    stage,       \* what main is doing; a signal's name while its exporter is built
    exporters,   \* what has been built so far: signal, URL and headers
    windows      \* collection windows so far

startVars == <<config, environ, stage, exporters>>
telemetryVars == <<startVars, windows, profileVars>>

SignalOrder == <<"logs", "metrics", "traces", "profiles">>
Signal == {"logs", "metrics", "traces", "profiles"}

Text == Seq(Token)
Endpoint == [path : Seq(Segment), slashes : Nat,
             flaw : {"none", "scheme", "userinfo", "query", "blank"}]
HeaderName == [word : Token, capital : BOOLEAN]
BasicAuthConfig == [username : Text, password : Text]
ObservabilityBackend == {"openobserve", "otel-collector", "vector", "custom"}

\* enabled and signals say which exporters are wanted; a blank endpoint is None.
ObservabilityConfig ==
    [enabled : BOOLEAN, signals : SUBSET Signal, endpoint : Endpoint \cup {None},
     own : [Signal -> Endpoint \cup {None}], backend : ObservabilityBackend, limits : BOOLEAN,
     headers : Seq([name : HeaderName, value : Text]), basic_auth : BasicAuthConfig \cup {None}]

\* What std::env::var gives for the names the code asks for.
Environment ==
    [vars : [Var -> Text \cup {None}], own : [Signal -> Endpoint \cup {None}],
     base : Endpoint \cup {None},
     headers : Seq([name : HeaderName, value : Text, malformed : BOOLEAN])]

ASSUME TelemetryAssumption ==
    /\ Signal \cup {"v1", "api", "default"} \subseteq Segment
    /\ Var \cup {Unterminated, Unsendable} \subseteq Token
    /\ Inputs \subseteq [config : ObservabilityConfig, environ : Environment]
    /\ Profiles \subseteq [samples : Seq(Sample), frequency : Int]
    /\ MaxWindows \in Nat

TelemetryInit ==
    /\ \E input \in Inputs : config = input.config /\ environ = input.environ
    /\ stage = "load" /\ exporters = {} /\ windows = 0
    /\ collected = [samples |-> <<>>, frequency |-> 1] /\ New

-----------------------------------------------------------------------------
(* Expansion and validation *)

\* expand_env: a reference that nothing closes, or to a variable that is not set, is
\* an error; what a variable holds is not looked at again.
Malformed(text) == \E i \in DOMAIN text : \/ text[i] = Unterminated
                                          \/ text[i] \in Var /\ environ.vars[text[i]] = None
Expanded(text) ==
    Joined([i \in 1 .. Len(text) |->
              IF text[i] \in Var THEN environ.vars[text[i]] ELSE <<text[i]>>])[Len(text)]

\* The string values of the configuration that reach a header.
Texts(c) == {c.headers[i].value : i \in DOMAIN c.headers}
            \cup (IF c.basic_auth = None THEN {} ELSE {c.basic_auth.username, c.basic_auth.password})

\* expand_env_in_value on a document without a malformed reference.
expand_env_in_value(c) ==
    [c EXCEPT
       !.headers = [i \in DOMAIN c.headers |->
                      [c.headers[i] EXCEPT !.value = Expanded(c.headers[i].value)]],
       !.basic_auth = IF c.basic_auth = None THEN None
                      ELSE [username |-> Expanded(c.basic_auth.username),
                            password |-> Expanded(c.basic_auth.password)]]

EndsInV1(path) == path # <<>> /\ path[Len(path)] = "v1"
EndsInSignal(path) == /\ Len(path) >= 2 /\ path[Len(path)] \in Signal
                      /\ path[Len(path) - 1] = "v1"

\* Only the first test on a base URL ignores the slashes at its end.
validate_observability_url(url, allow_signal_path) ==
    /\ url.flaw \notin {"scheme", "blank"}
    /\ allow_signal_path \/ /\ url.flaw # "query"
                            /\ ~EndsInV1(url.path)
                            /\ ~(url.slashes = 0 /\ EndsInSignal(url.path))

\* limits stands for the checks on numbers, the log level and the service name.
validate_observability(c) ==
    \/ ~c.enabled
    \/ /\ c.signals # {}
       /\ c.endpoint # None => validate_observability_url(c.endpoint, FALSE)
       /\ \A s \in Signal : c.own[s] # None => validate_observability_url(c.own[s], TRUE)
       /\ c.limits
       /\ c.basic_auth # None => c.basic_auth.username # <<>> /\ c.basic_auth.password # <<>>

\* load_config: expand, then validate; an Err ends the process before it has begun.
LoadConfig ==
    /\ stage = "load"
    /\ IF \E text \in Texts(config) : Malformed(text) THEN stage' = "failed" /\ UNCHANGED config
       ELSE /\ config' = expand_env_in_value(config)
            /\ stage' = IF validate_observability(config') THEN Head(SignalOrder) ELSE "failed"
    /\ UNCHANGED <<environ, exporters, windows, profileVars>>

-----------------------------------------------------------------------------
(* The URL of a signal *)

\* Mutation: the slashes at the end of a base URL hide the path before them.
ensure_base_as_validated(base) ==
    base.flaw # "query" /\ ~EndsInV1(base.path) /\ ~(base.slashes = 0 /\ EndsInSignal(base.path))

ensure_base_endpoint(base) ==
    base.flaw # "query" /\ ~EndsInV1(base.path) /\ ~EndsInSignal(base.path)

validate_endpoint(url) ==
    IF url.flaw \in {"scheme", "userinfo", "blank"} THEN Failed ELSE [url EXCEPT !.slashes = 0]

join_signal_url(base, s) == [base EXCEPT !.path = @ \o <<"v1", s>>, !.slashes = 0]

\* The base URL a backend is known to listen on; only the path matters here.
default_endpoint(backend) ==
    CASE backend = "openobserve" -> [path |-> <<"api", "default">>, slashes |-> 0, flaw |-> "none"]
      [] backend \in {"otel-collector", "vector"} -> [path |-> <<>>, slashes |-> 0, flaw |-> "none"]
      [] backend = "custom" -> None

\* resolve_signal_endpoint: configuration before environment, and in either the
\* signal's own URL before the base; last the backend's.
resolve_signal_endpoint(s) ==
    LET candidates == <<[url |-> config.own[s],   kind |-> "full"],
                        [url |-> config.endpoint, kind |-> "base"],
                        [url |-> environ.own[s],  kind |-> "full"],
                        [url |-> environ.base,    kind |-> "base"],
                        [url |-> default_endpoint(config.backend), kind |-> "preset"]>>
        given == {i \in 1 .. 5 : candidates[i].url # None}
        first == candidates[CHOOSE i \in given : \A j \in given : i <= j]
    IN  CASE given = {} -> Failed
          [] given # {} /\ first.kind = "full" -> validate_endpoint(first.url)
          [] given # {} /\ first.kind = "base" /\ ~ensure_base_endpoint(first.url) -> Failed
          [] OTHER -> validate_endpoint(join_signal_url(first.url, s))

-----------------------------------------------------------------------------
(* The headers, resolved anew for every signal *)

Authorization == [word |-> "authorization", capital |-> TRUE]
eq_ignore_ascii_case(a, b) == a.word = b.word

\* Mutation: a name is replaced only if it is written the same way.
insert_header_exact(headers, h) ==
    {x \in headers : x.name # h.name} \cup {[name |-> h.name, value |-> h.value]}

\* insert_header: one header of that name, however it is written, makes room.
insert_header(headers, h) ==
    LET same == {x \in headers : eq_ignore_ascii_case(x.name, h.name)}
        old  == IF same = {} THEN {} ELSE {CHOOSE x \in same : TRUE}
    IN  (headers \ old) \cup {[name |-> h.name, value |-> h.value]}

ExpandedHeaders == [i \in DOMAIN config.headers |->
                      [config.headers[i] EXCEPT !.value = Expanded(@)]]

\* OTEL_EXPORTER_OTLP_HEADERS, then the configured headers in the order of their keys.
AllHeaders == environ.headers \o ExpandedHeaders
Inserted(list) ==
    LET upTo[n \in 0 .. Len(list)] == IF n = 0 THEN {} ELSE insert_header(upTo[n - 1], list[n])
    IN  upTo
Listed == Inserted(AllHeaders)[Len(AllHeaders)]
HasAuthorization == \E h \in Listed : eq_ignore_ascii_case(h.name, Authorization)

BasicAuth == [name  |-> Authorization,
              value |-> <<"Basic">> \o Expanded(config.basic_auth.username) \o <<":">>
                                    \o Expanded(config.basic_auth.password)]

\* Values are expanded here a second time; basic_auth, only where it is used.
resolve_headers ==
    LET used    == config.basic_auth # None /\ ~HasAuthorization
        headers == Listed \cup (IF used THEN {BasicAuth} ELSE {})
        texts   == {config.headers[i].value : i \in DOMAIN config.headers}
                   \cup (IF used THEN {config.basic_auth.username, config.basic_auth.password} ELSE {})
        failed  == \/ \E i \in DOMAIN environ.headers : environ.headers[i].malformed
                   \/ \E text \in texts : Malformed(text)
                   \/ used /\ <<>> \in {Expanded(config.basic_auth.username),
                                        Expanded(config.basic_auth.password)}
                   \/ \E h \in headers : \E i \in DOMAIN h.value : h.value[i] = Unsendable
    IN  IF failed THEN Failed ELSE headers

Protobuf == [name |-> [word |-> "content-type", capital |-> FALSE], value |-> <<"protobuf">>]

\* ProfileExporter::new puts its own content type over a configured one.
SentHeaders(s, headers) ==
    IF s # "profiles" THEN headers
    ELSE {h \in headers : ~eq_ignore_ascii_case(h.name, Protobuf.name)} \cup {Protobuf}

-----------------------------------------------------------------------------
(* Observability::init *)

After(s) == IF s = "profiles" THEN "install"
            ELSE SignalOrder[CHOOSE i \in 2 .. 4 : SignalOrder[i - 1] = s]

\* An Err drops the Observability, whose Drop shuts down what was built.
Abort == stage' = "failed" /\ exporters' = {}

BuildExporter(s) ==
    /\ stage = s
    /\ IF ~config.enabled \/ s \notin config.signals THEN stage' = After(s) /\ UNCHANGED exporters
       ELSE LET url == resolve_signal_endpoint(s)  headers == resolve_headers IN
            \/ /\ Failed \notin {url, headers}
               /\ exporters' = exporters \cup {[signal |-> s, url |-> url, headers |-> SentHeaders(s, headers)]}
               /\ stage' = After(s)
            \/ Abort       \* the resolution or the SDK's builder failed
    /\ UNCHANGED <<config, environ, windows, profileVars>>

\* install_subscriber; then async_main spawns the profiler, if there is one.
InstallSubscriber ==
    /\ stage = "install"
    /\ \/ stage' = "running" /\ UNCHANGED exporters
       \/ Abort
    /\ UNCHANGED <<config, environ, windows, profileVars>>

-----------------------------------------------------------------------------
(* The profiler's windows *)

Profiling == \E e \in exporters : e.signal = "profiles"

\* A window elapses and yields a profile; without samples, or when pprof fails, the
\* task waits for the next tick.
CollectProfile(p) ==
    /\ stage = "running" /\ Profiling /\ windows < MaxWindows
    /\ windows' = windows + 1
    /\ IF p.samples = <<>> THEN stage' = stage /\ UNCHANGED profileVars
       ELSE stage' = "convert" /\ Renew(p)
    /\ UNCHANGED <<config, environ, exporters>>

ConvertProfile == stage = "convert" /\ Convert /\ UNCHANGED <<startVars, windows>>

\* The request is posted; accepted, rejected or lost, it is not kept.
PostProfile ==
    /\ stage = "convert" /\ built
    /\ stage' = "running"
    /\ UNCHANGED <<config, environ, exporters, windows, profileVars>>

\* Observability::shutdown, also from Drop.
StopTelemetry ==
    /\ stage \in {"running", "convert"}
    /\ stage' = "stopped" /\ exporters' = {}
    /\ UNCHANGED <<config, environ, windows, profileVars>>

TelemetryNext ==
    \/ LoadConfig
    \/ \E s \in Signal : BuildExporter(s)
    \/ InstallSubscriber
    \/ \E p \in Profiles : CollectProfile(p)
    \/ ConvertProfile
    \/ PostProfile
    \/ StopTelemetry

TelemetrySpec == TelemetryInit /\ [][TelemetryNext]_telemetryVars

-----------------------------------------------------------------------------
(* Properties *)

\* No exporter posts to a path with the signal's part doubled, wherever the base URL
\* came from and however many slashes end it, and none carries a user's name in its
\* URL.  Validation at load and the exporter's own checks differ on such URLs; what
\* one lets through, the other must stop.
PathsAreNotDoubled ==
    \A e \in exporters :
      /\ e.url.flaw \notin {"scheme", "userinfo", "blank"}
      /\ e.url \notin {validate_endpoint(u) : u \in {config.own[e.signal], environ.own[e.signal]} \ {None}} =>
           LET base == SubSeq(e.url.path, 1, Len(e.url.path) - 2) IN
           /\ e.url.path = base \o <<"v1", e.signal>>
           /\ ~EndsInV1(base) /\ ~EndsInSignal(base)

\* The entries of a list with that name, however it is written, and the last one's value.
Named(list, word) == {i \in DOMAIN list : list[i].name.word = word}
LastOf(list, word) ==
    list[CHOOSE i \in Named(list, word) : \A j \in Named(list, word) : j <= i].value
Words(headers) == {h.name.word : h \in headers}
Entries(list) == {list[i] : i \in DOMAIN list}

\* No variable's content looks like a reference itself.
PlainVars == \A v \in Var : environ.vars[v] # None =>
               \A i \in DOMAIN environ.vars[v] : environ.vars[v][i] \notin Var

\* Every exporter sends each header it was given, and each once, however its name is
\* written: the configured value over the environment's, the two spellings of a name
\* settled alike for all signals, basic_auth only where neither names Authorization,
\* and profiles as protobuf whatever is configured.  Values that went through both
\* expansions are those of the first, as long as no variable's content looks like a
\* reference itself.
HeadersFollowPrecedence ==
    \A e \in exporters :
      /\ \A h, g \in e.headers : h.name.word = g.name.word => h = g
      /\ \A f \in exporters : SentHeaders("profiles", f.headers) = SentHeaders("profiles", e.headers)
      /\ e.signal = "profiles" => Protobuf \in e.headers
      /\ Words(e.headers) = Words(Entries(environ.headers)) \cup Words(Entries(config.headers))
                            \cup (IF config.basic_auth = None THEN {} ELSE {Authorization.word})
                            \cup (IF e.signal = "profiles" THEN {Protobuf.name.word} ELSE {})
      /\ \A h \in IF e.signal = "profiles" THEN e.headers \ {Protobuf} ELSE e.headers :
           IF Named(config.headers, h.name.word) # {}
           THEN PlainVars => h.value = LastOf(config.headers, h.name.word)
           ELSE IF Named(environ.headers, h.name.word) # {}
           THEN h.value = LastOf(environ.headers, h.name.word)
           ELSE /\ h.name = Authorization /\ config.basic_auth # None
                /\ PlainVars => h.value = <<"Basic">> \o config.basic_auth.username \o <<":">>
                                                     \o config.basic_auth.password
=============================================================================
