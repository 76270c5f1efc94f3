------------------------------ MODULE MCStores ------------------------------
(***************************************************************************)
(* Model instances of the stores.  cast says which one a behaviour is      *)
(* about: of the key-value store counter transactions, transactions and    *)
(* statements on one item, a scan or a cleanup beside the statements that  *)
(* change what they walk over; the cache that is kept in it; or the local  *)
(* vault, which is read and rewritten as a whole.                          *)
(***************************************************************************)
EXTENDS KvStore, Cache, Vault, TLC

VARIABLE cast

One == CHOOSE k \in Items : \A j \in Items : k <= j

Two == CHOOSE k \in Items \ {One} : \A j \in Items \ {One} : k <= j

LoneMutation == \E t \in Txs :
    (\A u \in Txs \ {t} : tx[u].at = "idle") /\ Mutation(t, {"mutate"}, {One})

MCDeltas == {1, -1}

\* The same two model values are the actors of every component.
MCSymmetry == Permutations(Txs)

MCInit ==
    /\ cast \in {"counter", "item", "scan", "cleanup", "cache", "vault"}
    /\ KvInit /\ CacheInit /\ VaultInit

KvStep ==
    \/ cast = "counter" /\ (CounterSetValue(0) \/ \E t \in Txs : Mutation(t, {"add"}, {Counter}))
    \/ cast = "item" /\ (Tick \/ Statement({One}) \/ \E t \in Txs : Mutation(t, ItemCalls, {One}))
    \/ cast = "scan" /\ (Tick \/ Statement(Items) \/ Reader)
    \/ cast = "cleanup" /\ (Tick \/ Statement({One, Two}) \/ Cleaner \/ LoneMutation)

MCNext ==
    /\ UNCHANGED cast
    /\ \/ KvStep /\ UNCHANGED <<cacheAll, vaultVars>>
       \/ cast = "cache" /\ CacheNext /\ UNCHANGED <<kvVars, vaultVars>>
       \/ cast = "vault" /\ VaultNext /\ UNCHANGED <<kvVars, cacheAll>>

MCSpec == MCInit /\ [][MCNext]_<<kvVars, cacheAll, vaultVars, cast>>
=============================================================================
