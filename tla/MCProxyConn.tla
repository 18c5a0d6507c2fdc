---------------------------- MODULE MCProxyConn -----------------------------
(* Instances of ProxyConn for TLC. *)
EXTENDS ProxyConn, TLC

CONSTANTS a, b

\* Two proxies that are told to connect to each other.
EachOther == [p \in {a, b} |-> <<CHOOSE q \in {a, b} : q # p>>]

Symmetric == Permutations({a, b})
=============================================================================
