---------------------------- MODULE XfrConcurrency ----------------------------
(***************************************************************************)
(* The tasks XfrMiddlewareSvc spawns per transfer and the two semaphores  *)
(* of max_concurrency permits meant to limit them (xfr.rs): do_axfr spawns *)
(* a zone walker and a batcher, do_ixfr a batcher.  The transfer's data is *)
(* left out: AxfrStream models what one walker and batcher do.            *)
(***************************************************************************)
EXTENDS Naturals, FiniteSets

CONSTANTS Transfers, MaxConcurrency

VARIABLES
    kind,       \* the stream preprocess chose for each transfer, or "idle"
    walker,     \* each transfer's zone-walking task
    batcher,    \* each transfer's batching task
    walkFree,   \* available permits of zone_walking_semaphore
    batchFree   \* available permits of batcher_semaphore

vars == <<kind, walker, batcher, walkFree, batchFree>>

Init ==
    /\ kind = [t \in Transfers |-> "idle"]
    /\ walker = [t \in Transfers |-> "none"]
    /\ batcher = [t \in Transfers |-> "none"]
    /\ walkFree = MaxConcurrency
    /\ batchFree = MaxConcurrency

\* do_axfr: both tasks are spawned, each first awaiting its semaphore.
StartAxfr(t) ==
    /\ kind[t] = "idle"
    /\ kind' = [kind EXCEPT ![t] = "Axfr"]
    /\ walker' = [walker EXCEPT ![t] = "acquire"]
    /\ batcher' = [batcher EXCEPT ![t] = "acquire"]
    /\ UNCHANGED <<walkFree, batchFree>>

\* do_ixfr: only the batcher task is spawned.
StartIxfr(t) ==
    /\ kind[t] = "idle"
    /\ kind' = [kind EXCEPT ![t] = "Ixfr"]
    /\ batcher' = [batcher EXCEPT ![t] = "acquire"]
    /\ UNCHANGED <<walker, walkFree, batchFree>>

\* `if sem.acquire().await.is_err()`: acquire waits for a free permit, and
\* the permit it returns is a temporary of the if condition, dropped when
\* the condition has been evaluated; the task then runs without it.
WalkerAcquire(t) ==
    /\ walker[t] = "acquire" /\ walkFree > 0
    /\ walker' = [walker EXCEPT ![t] = "running"]
    /\ UNCHANGED <<kind, batcher, walkFree, batchFree>>

BatcherAcquire(t) ==
    /\ batcher[t] = "acquire" /\ batchFree > 0
    /\ batcher' = [batcher EXCEPT ![t] = "running"]
    /\ UNCHANGED <<kind, walker, walkFree, batchFree>>

WalkerEnd(t) ==
    /\ walker[t] = "running"
    /\ walker' = [walker EXCEPT ![t] = "done"]
    /\ UNCHANGED <<kind, batcher, walkFree, batchFree>>

BatcherEnd(t) ==
    /\ batcher[t] = "running"
    /\ batcher' = [batcher EXCEPT ![t] = "done"]
    /\ UNCHANGED <<kind, walker, walkFree, batchFree>>

Next ==
    \/ \E t \in Transfers :
          \/ StartAxfr(t) \/ StartIxfr(t)
          \/ WalkerAcquire(t) \/ BatcherAcquire(t)
          \/ WalkerEnd(t) \/ BatcherEnd(t)
    \/ /\ \A t \in Transfers : walker[t] \in {"none", "done"} /\ batcher[t] = "done"
       /\ UNCHANGED vars

Spec == Init /\ [][Next]_vars

\* XfrMiddlewareSvc::new's max_concurrency: at most that many zone walks
\* and at most that many batchers run at once, whatever the number of
\* transfers clients start.
ConcurrencyBounded ==
    /\ Cardinality({t \in Transfers : walker[t] = "running"}) <= MaxConcurrency
    /\ Cardinality({t \in Transfers : batcher[t] = "running"}) <= MaxConcurrency
=============================================================================
