------------------------------ MODULE MCRouting ------------------------------
(* Three upstreams; m1 is served by all of them, u1 lists it twice, m2 by two. *)
EXTENDS RoundRobin, Discovery, TLC

CONSTANTS u1, u2, u3, m1, m2

MCPool == (m1 :> <<u1, u1, u2, u3>>) @@ (m2 :> <<u2, u3>>)
=============================================================================
