---------------------------- MODULE MCDnsHandler ----------------------------
(***************************************************************************)
(* Finite instances of DnsHandler: the chain the sample configuration      *)
(* builds, a chain that can be exhausted, and a middleware that may        *)
(* short-circuit behind the metrics.                                       *)
(***************************************************************************)
EXTENDS DnsHandler, TLC

MCChains == {<<"nacos", "native", "forward">>, <<"nacos", "native">>}
MCMiddlewares == <<"metrics", "guard">>

RequestSymmetry == Permutations(Request)
=============================================================================
