------------------------------- MODULE Pools --------------------------------
(* The two pools of the repository, of objects and of database connections:  *)
(* which says which one is used; the other stays as it was constructed.      *)
EXTENDS MysqlPool

CONSTANTS Users, initialSize, Sizes, MayThrow, MaxObjects

ASSUME PoolsAssumption ==
    /\ IsFiniteSet(Users)
    /\ Sizes \subseteq Nat
    /\ MaxObjects \in Nat /\ initialSize \in 0 .. MaxObjects

VARIABLES which, maxSize_, count_, object_pool_, user_pc, object, untold

objectVars == <<maxSize_, count_, object_pool_, user_pc, object, untold>>

Object == INSTANCE ObjectPool WITH pool_ <- object_pool_, pc <- user_pc

PoolsInit == which \in {"mysql", "object"} /\ Init /\ Object!Init

PoolsNext == \/ which = "mysql" /\ Next /\ UNCHANGED <<which, objectVars>>
             \/ which = "object" /\ Object!Next /\ UNCHANGED <<which, vars>>

(* Neither asks anything of a user that has not called, so that both hold of *)
(* the pool that is not used.                                                 *)
PoolsSpec == /\ PoolsInit
             /\ [][PoolsNext]_<<which, vars, objectVars>>
             /\ Fairness /\ Object!Fairness
-----------------------------------------------------------------------------
(* Every object that was created is in the pool or with one user, also when  *)
(* resize throws half-way.                                                    *)
EveryObjectInOnePlace == Object!EveryObjectInOnePlace

(* While a user sleeps, every object in the pool has a user on its way to    *)
(* it, except for what a resize that threw pushed and announced to nobody.   *)
NoStrandedObject == Object!NoStrandedObject

(* A user that waits gets an object, unless a resize throws.                 *)
EveryUserServed == Object!EveryUserServed
=============================================================================
