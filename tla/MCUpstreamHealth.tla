--------------------------- MODULE MCUpstreamHealth ---------------------------
(* Two upstreams of one model. *)
EXTENDS UpstreamHealth, TLC

CONSTANTS u1, u2, m1

MCPool == (m1 :> <<u1, u2>>)
=============================================================================
