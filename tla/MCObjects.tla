----------------------------- MODULE MCObjects -----------------------------
(***************************************************************************)
(* The object runtime on a few addresses, __weak variables and threads.    *)
(***************************************************************************)
EXTENDS ObjcRuntime

Counting == {"alloc", "retain", "release"}

Pooling == {"new_pool", "autorelease", "drain"}

WeakStores == {"store_weak", "init_weak", "destroy_weak", "move_weak"}

\* Nested pools, drained by any thread, and weak variables that are not loaded.
PoolCalls == Counting \cup Pooling \cup WeakStores \cup {"drain_elsewhere"}

\* Guest code that gets at an object while its -dealloc runs.
ZombieCalls ==
    Counting \cup {"autorelease", "store_weak", "load_weak", "associate"}

AssociationCalls == Counting \cup Pooling \cup {"associate"}

Addresses == Permutations(Ids)
=============================================================================
