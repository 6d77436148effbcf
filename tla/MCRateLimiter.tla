---------------------------- MODULE MCRateLimiter ----------------------------
(* Instances of RateLimiter: a host that comes directly and through a proxy, *)
(* and the proxy's own requests.                                             *)
EXTENDS RateLimiter, TLC

CONSTANTS c1, c2, c3, c4, host, proxy

TwoHosts == {[forwarded |-> NoHeader, remote |-> host],
             [forwarded |-> host, remote |-> proxy],
             [forwarded |-> NoHeader, remote |-> proxy]}
OneHost == {[forwarded |-> NoHeader, remote |-> host]}
Symmetry == Permutations(Calls)
=============================================================================
