-------------------------- MODULE MCLockFreeQueue --------------------------
(***************************************************************************)
(* LockFreeQueue for TLC: a producer and a consumer, with more items than  *)
(* addresses, and two producers by themselves.                             *)
(***************************************************************************)
EXTENDS LockFreeQueue, TLC

CONSTANTS p1, p2, p3, c1

MCProducers == {p1, p2, p3}
MCConsumers == {c1}
MCCasts == {{p1, c1}, {p2, p3}}
MCCalls == p1 :> 4 @@ p2 :> 1 @@ p3 :> 1
=============================================================================
