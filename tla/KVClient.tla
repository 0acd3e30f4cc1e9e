------------------------------ MODULE KVClient ------------------------------
(***************************************************************************)
(* The hot state of the backend (backend/kv_client.py).  connect() passes  *)
(* keyword arguments that the StorageKv of the repository does not take    *)
(* (zg_storage_sdk/core/storage_kv.py), so that its first tier is never    *)
(* reached: every put and get works on the two dictionaries of the module, *)
(* without giving up the event loop.                                       *)
(***************************************************************************)

CONSTANTS
    Key,
    Value,
    NoValue        \* what get returns for a key that was not put

VARIABLES
    cache,         \* _memory_cache
    idempotency    \* _idempotency_set: the (key, value) pairs it has hashes of

TypeOK ==
    /\ cache \in [Key -> Value \cup {NoValue}]
    /\ idempotency \subseteq Key \X Value

Init ==
    /\ cache = [k \in Key |-> NoValue]
    /\ idempotency = {}

(* A pair that was written before is skipped, whatever the key holds now.  *)
Put(k, v) ==
    \/ /\ <<k, v>> \in idempotency
       /\ UNCHANGED <<cache, idempotency>>
    \/ /\ <<k, v>> \notin idempotency
       /\ cache' = [cache EXCEPT ![k] = v]
       /\ idempotency' = idempotency \cup {<<k, v>>}

(* Mutant: the idempotency keys outlive the cache.                         *)
Restart_KeepsKeys ==
    /\ cache' = [k \in Key |-> NoValue]
    /\ UNCHANGED idempotency

(* The process ends and starts again: both dictionaries are empty.         *)
Restart ==
    /\ cache' = [k \in Key |-> NoValue]
    /\ idempotency' = {}
=============================================================================
