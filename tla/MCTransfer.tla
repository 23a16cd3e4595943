----------------------------- MODULE MCTransfer -----------------------------
(***************************************************************************)
(* Instances of Transfer for TLC: sets of routes.                           *)
(***************************************************************************)
EXTENDS Transfer

AllRoutes == Route

ProxiedFs ==
    {r \in Route : ~r.proxiedSource /\ r.proxiedDest /\ r.kind = "fs"}

ProxiedSourceToFs ==
    {r \in Route : r.proxiedSource /\ ~r.proxiedDest /\ r.kind = "fs"}
=============================================================================
