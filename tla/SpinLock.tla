------------------------------- MODULE SpinLock -------------------------------
(***************************************************************************)
(* atomic_lock/spinlock.h in its three builds: the compiler's builtins,    *)
(* C11 atomics (test and test-and-set) and a pthread mutex.  The threads   *)
(* use it to add one to a shared counter, a load and a store.              *)
(***************************************************************************)
EXTENDS Integers, FiniteSets

CONSTANTS Spinners, MaxAdds   \* threads; bound: additions after which none begins

VARIABLES
    build,            \* "sync", "atomic" or "pthread"
    lock,             \* lock->lock
    spin,             \* thread -> "idle", "lock", "load", "try", "in", "store", "unlock"
    counter, loaded,  \* the shared counter; what a thread has loaded
    adds              \* history: the additions that were made
vars == <<build, lock, spin, counter, loaded, adds>>

\* spinlock_init
Init ==
    /\ build \in {"sync", "atomic", "pthread"} /\ lock = 0 /\ counter = 0
    /\ spin = [t \in Spinners |-> "idle"] /\ loaded = [t \in Spinners |-> 0]
    /\ adds = 0

Go(t, where) == spin' = [spin EXCEPT ![t] = where]

Call(t, try) ==
    /\ spin[t] = "idle" /\ adds < MaxAdds
    /\ Go(t, IF ~try THEN "lock" ELSE IF build = "atomic" THEN "tryLoad" ELSE "try")
    /\ UNCHANGED <<build, lock, counter, loaded, adds>>

\* spinlock_lock: the exchange.  With a mutex the thread sleeps until it is free.
Lock(t) ==
    /\ spin[t] = "lock"
    /\ build = "pthread" => lock = 0
    /\ lock' = 1
    /\ Go(t, IF lock = 0 THEN "in" ELSE IF build = "atomic" THEN "load" ELSE "lock")
    /\ UNCHANGED <<build, counter, loaded, adds>>

\* The C11 build looks at the lock until it seems free.
LoadRelaxed(t) ==
    /\ spin[t] = "load"
    /\ Go(t, IF lock = 0 THEN "lock" ELSE "load")
    /\ UNCHANGED <<build, lock, counter, loaded, adds>>

\* spinlock_trylock of the C11 build: the load, and no exchange if it says locked.
TryLoad(t) ==
    /\ spin[t] = "tryLoad"
    /\ Go(t, IF lock = 0 THEN "try" ELSE "idle")
    /\ UNCHANGED <<build, lock, counter, loaded, adds>>

TryLock(t) ==
    /\ spin[t] = "try"
    /\ lock' = 1
    /\ Go(t, IF lock = 0 THEN "in" ELSE "idle")
    /\ UNCHANGED <<build, counter, loaded, adds>>

\* The critical section.
LoadCounter(t) ==
    /\ spin[t] = "in"
    /\ loaded' = [loaded EXCEPT ![t] = counter] /\ Go(t, "store")
    /\ UNCHANGED <<build, lock, counter, adds>>

StoreCounter(t) ==
    /\ spin[t] = "store"
    /\ counter' = loaded[t] + 1 /\ Go(t, "unlock")
    /\ adds' = adds + 1
    /\ UNCHANGED <<build, lock, loaded>>

Unlock(t) ==
    /\ spin[t] = "unlock"
    /\ lock' = 0 /\ Go(t, "idle")
    /\ loaded' = [loaded EXCEPT ![t] = 0]
    /\ UNCHANGED <<build, counter, adds>>

Next ==
    \E t \in Spinners :
        \/ \E try \in BOOLEAN : Call(t, try)
        \/ Lock(t) \/ LoadRelaxed(t) \/ TryLoad(t) \/ TryLock(t)
        \/ LoadCounter(t) \/ StoreCounter(t) \/ Unlock(t)

Spec == Init /\ [][Next]_vars

------------------------------------------------------------------------------
(* Properties.                                                             *)

\* Nobody's addition is lost, and the lock is taken exactly while one thread, and no
\* other, is between its lock and its unlock: a failed trylock leaves nothing behind.
SpinLockSound ==
    /\ counter = adds
    /\ Cardinality({t \in Spinners : spin[t] \in {"in", "store", "unlock"}}) = lock
==============================================================================
