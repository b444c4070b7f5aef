----------------------------- MODULE MCTelemetry -----------------------------
(***************************************************************************)
(* Telemetry for TLC.  The endpoints vary with one set of headers, and the *)
(* headers with one endpoint.  The samples are those that share some rows  *)
(* with one another and not others.                                        *)
(***************************************************************************)
EXTENDS Telemetry, SequencesExt

MCTrim(s) == CASE s = " t" -> "t" [] s = " " -> "" [] OTHER -> s

Url(path, slashes, flaw) == [path |-> path, slashes |-> slashes, flaw |-> flaw]
Plain == Url(<<"api">>, 0, "none")
Urls == {Plain, Url(<<>>, 2, "none"), Url(<<"v1">>, 1, "none"), Url(<<"v1", "traces">>, 0, "none"),
         Url(<<"v1", "traces">>, 1, "none"), Url(<<"v1", "api">>, 0, "none")}
        \cup {Url(<<>>, 0, f) : f \in {"scheme", "userinfo", "query", "blank"}}

Name(word, capital) == [word |-> word, capital |-> capital]
Given(name, value) == [name |-> name, value |-> value]
Inherited(name, value) == [name |-> name, value |-> value, malformed |-> FALSE]
Auth == Name("authorization", TRUE)
auth == Name("authorization", FALSE)
scope == Name("scope", FALSE)

NoOwn == [s \in Signal |-> None]
Base == [enabled |-> TRUE, signals |-> {"logs", "traces"}, endpoint |-> Plain, own |-> NoOwn,
         backend |-> "custom", limits |-> TRUE, headers |-> <<>>, basic_auth |-> None]
Bare == [vars |-> [v \in Var |-> None], own |-> NoOwn, base |-> None, headers |-> <<>>]

EndpointConfigs ==
    {[Base EXCEPT !.signals = signals, !.endpoint = endpoint, !.own = own, !.backend = backend] :
       signals \in {{"logs"}, {"metrics", "traces"}},
       endpoint \in Urls \cup {None},
       own \in {NoOwn, [NoOwn EXCEPT !["logs"] = Url(<<"v1", "logs">>, 1, "none")]},
       backend \in {"custom", "openobserve", "vector"}}
    \cup {[Base EXCEPT !.enabled = FALSE], [Base EXCEPT !.signals = {}], [Base EXCEPT !.limits = FALSE]}

HeaderConfigs ==
    {[Base EXCEPT !.headers = headers, !.basic_auth = basic] :
       headers \in {<<>>, <<Given(Auth, <<"a">>)>>, <<Given(Auth, <<"a">>), Given(auth, <<"b">>)>>,
                    <<Given(auth, <<"V", "c">>)>>, <<Given(scope, <<"V">>)>>,
                    <<Given(scope, <<"${">>)>>},
       basic \in {None, [username |-> <<"u">>, password |-> <<"V">>],
                        [username |-> <<"u">>, password |-> <<>>]}}

EndpointEnvirons ==
    {[Bare EXCEPT !.base = base, !.own = own] :
       base \in Urls \cup {None}, own \in {NoOwn, [NoOwn EXCEPT !["traces"] = Plain]}}
HeaderEnvirons ==
    {[Bare EXCEPT !.vars = [v \in Var |-> value], !.headers = headers] :
       value \in {None, <<>>, <<"x">>, <<"V", "x">>, <<"NL">>},
       headers \in {<<>>, <<Inherited(auth, <<"e">>)>>,
                    <<Inherited(Auth, <<"e">>), Inherited(auth, <<"f">>)>>,
                    <<Inherited(scope, <<"e">>)>>,
                    <<[Inherited(scope, <<>>) EXCEPT !.malformed = TRUE]>>}}
ProfileConfigs ==
    {[Base EXCEPT !.signals = {"logs", "profiles"}, !.endpoint = endpoint, !.headers = headers] :
       endpoint \in Urls, headers \in {<<>>, <<Given(Name("content-type", TRUE), <<"json">>)>>}}

MCInputs == [config : EndpointConfigs, environ : EndpointEnvirons]
            \cup [config : HeaderConfigs, environ : HeaderEnvirons]
            \cup [config : ProfileConfigs, environ : {Bare}]

Sym(name, file, line, address) ==
    [name |-> name, system_name |-> name, filename |-> file, line |-> line, address |-> address]
f1 == Sym("f", "a", 1, 1)
f2 == Sym("f", "a", 1, 2)
g  == Sym("a", "", 2, 1)
none == Sym("", "", 0, 0)
Hit(frames, thread) == [frames |-> frames, count |-> 2, thread_name |-> thread]
MCSamples ==
    {Hit(<<<<f1, g>>>>, "t"), Hit(<<<<f2, g>>, <<g>>>>, " t"), Hit(<<<<f1>>, <<>>, <<g>>>>, " "),
     Hit(<<<<>>>>, "t"), Hit(<<<<none>>, <<none>>>>, "f"),
     [Hit(<<<<f2>>>>, "t") EXCEPT !.count = 0], [Hit(<<<<f2>>>>, "cpu") EXCEPT !.count = 9]}
MCProfiles ==
    {[samples |-> s, frequency |-> f] : s \in SeqOf(MCSamples, 3), f \in {0, 3}}
=============================================================================
