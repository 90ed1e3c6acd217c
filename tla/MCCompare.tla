----------------------------- MODULE MCCompare -----------------------------
(* Compare with one request to each endpoint, for two outlets. *)
EXTENDS Compare, TLC

CONSTANTS s1, s2, k1, k2, r1, r2

MCSources   == {s1, s2}
MCKeys      == {k1, k2}
MCRequests  == {r1, r2}
MCStreams   == {r2}
=============================================================================
