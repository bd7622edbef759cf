----------------------------- MODULE Components ------------------------------
(***************************************************************************)
(* Components that share no state: the parts of atomic_lock, the memory    *)
(* pool, the millisecond timers and network_buffer_design.  A behaviour    *)
(* uses one of them, lib; the variables of the others keep their values.   *)
(***************************************************************************)
EXTENDS Integers, Sequences, FiniteSets

CONSTANTS
    Holders, PtrSlots, MaxObjects,       \* of SharedPtr
    Spinners, MaxAdds,                   \* of SpinLock
    MaxKey, kMaxHeight_, Iterations,     \* of ConcurrentSkipList, of MemoryOrders
    MemPoolSize, MemSizes, MaxAllocFromPool, FailedLimit, MaxBlocks, MaxLargeAllocs,   \* of MemoryPool
    Clock, Interval, Period, StartTime, Expiry, Diffs, MaxTime,      \* of MsTimers
    BufConns, BufSize, BufExtra, BufStream, BufLineEnds, BufMessage, BufRoom, BufSteps \* of NetBuffer

ASSUME AtomicsAssumption ==
    /\ IsFiniteSet(Holders) /\ Holders # {} /\ IsFiniteSet(PtrSlots) /\ 1 \in PtrSlots
    /\ MaxObjects \in Nat \ {0}
    /\ MaxKey \in Nat /\ kMaxHeight_ \in Nat \ {0} /\ Iterations \in Nat \ {0}

\* A pool is at least as long as an mp_large_s, which every large allocation puts
\* into it, and an update is shorter than a turn of the clock.
ASSUME ArithmeticAssumption ==
    /\ MemPoolSize \in Nat /\ MemPoolSize >= 2 /\ MemSizes \subseteq Nat /\ MaxAllocFromPool \in Nat
    /\ Clock \in Nat \ {0} /\ Interval \in Nat \ {0} /\ Period \in Nat \ {0}
    /\ StartTime \in Nat \ {0} /\ Expiry \in Nat \ {0} /\ Diffs \subseteq 0..(Clock - 1)

ASSUME BuffersAssumption ==
    /\ BufConns \in Nat /\ BufSize \in Nat /\ BufExtra \in Nat /\ BufStream \in Nat
    /\ BufLineEnds \subseteq Nat /\ BufMessage \in Nat /\ BufRoom \in Nat

VARIABLES
    lib,   \* the component that is used
    \* SharedPtr, SpinLock, ConcurrentSkipList, MemoryOrders
    ptr, count, todo, deleted, born,
    build, lock, spin, counter, loaded, adds,
    listNext, max_height_, heights, prev_, prev_height_, writer, reader, node_, answer,
    program, orderPc, atomics, view, sc, z,
    \* MemoryPool, MsTimers
    nodes, current, garbage, large, mallocs, given, wrapped, memCrashed, memGone, serial,
    msTime, lastTime, _current, _expiryTime, i_expireTime, passed, started, told, fired, late, wraps,
    \* NetBuffer
    bufConn, net, waiting, batch, bufCur, bufPc, steps

ptrVars == <<ptr, count, todo, deleted, born>>
spinVars == <<build, lock, spin, counter, loaded, adds>>
skipVars == <<listNext, max_height_, heights, prev_, prev_height_, writer, reader, node_, answer>>
orderVars == <<program, orderPc, atomics, view, sc, z>>
atomicVars == <<ptrVars, spinVars, skipVars, orderVars>>

memVars == <<nodes, current, garbage, large, mallocs, given, wrapped, memCrashed, memGone, serial>>
msVars == <<msTime, lastTime, _current, _expiryTime, i_expireTime, passed, started, told, fired, late, wraps>>
arithmeticVars == <<memVars, msVars>>

bufVars == <<bufConn, net, waiting, batch, bufCur, bufPc, steps>>

componentVars == <<lib, atomicVars, arithmeticVars, bufVars>>

Ptr == INSTANCE SharedPtr WITH Slots <- PtrSlots
Spin == INSTANCE SpinLock
List == INSTANCE ConcurrentSkipList WITH next <- listNext
Orders == INSTANCE MemoryOrders WITH pc <- orderPc, memory <- atomics

Mem == INSTANCE MemoryPool
         WITH PoolSize <- MemPoolSize, Sizes <- MemSizes, crashed <- memCrashed, gone <- memGone
Ms == INSTANCE MsTimers WITH time <- msTime, last <- lastTime
Buf == INSTANCE NetBuffer WITH conn <- bufConn, cur <- bufCur, pc <- bufPc

Libraries == {"shared_ptr", "spinlock", "list", "orders", "mempool", "mstimers", "netbuffer"}

ComponentInit ==
    /\ Ptr!Init /\ Spin!Init /\ List!Init /\ Orders!Init
    /\ Mem!Init /\ Ms!Init /\ Buf!Init

AtomicNext ==
    \/ lib = "shared_ptr" /\ Ptr!Next /\ UNCHANGED <<spinVars, skipVars, orderVars>>
    \/ lib = "spinlock" /\ Spin!Next /\ UNCHANGED <<ptrVars, skipVars, orderVars>>
    \/ lib = "list" /\ List!Next /\ UNCHANGED <<ptrVars, spinVars, orderVars>>
    \/ lib = "orders" /\ Orders!Next /\ UNCHANGED <<ptrVars, spinVars, skipVars>>

ArithmeticNext ==
    \/ lib = "mempool" /\ Mem!Next /\ UNCHANGED msVars
    \/ lib = "mstimers" /\ Ms!Next /\ UNCHANGED memVars

ComponentNext ==
    /\ UNCHANGED lib
    /\ \/ AtomicNext /\ UNCHANGED <<arithmeticVars, bufVars>>
       \/ ArithmeticNext /\ UNCHANGED <<atomicVars, bufVars>>
       \/ lib = "netbuffer" /\ Buf!Next /\ UNCHANGED <<atomicVars, arithmeticVars>>

ComponentSpec == lib \in Libraries /\ ComponentInit /\ [][ComponentNext]_componentVars

------------------------------------------------------------------------------
(* Properties                                                              *)

\* atomic_lock: objects are deleted once and by the last owner, the lock
\* excludes, readers find what they look for in a list that grows meanwhile, and
\* the examples of memory orders print what their comments say.
AtomicsSound ==
    /\ lib = "shared_ptr" => Ptr!SharedPtrSound
    /\ lib = "spinlock" => Spin!SpinLockSound
    /\ lib = "list" => List!ConcurrentListSound
    /\ lib = "orders" => Orders!MemoryOrdersSound

\* Pointers and milliseconds are computed right up to the edges the code misses:
\* see MemoryPoolSound of MemoryPool and TimersKeepTime of MsTimers.
ArithmeticSound ==
    /\ lib = "mempool" => Mem!MemoryPoolSound
    /\ lib = "mstimers" => Ms!TimersKeepTime

\* network_buffer_design: see BufferServerSound of NetBuffer.
BuffersSound == lib = "netbuffer" => Buf!BufferServerSound
==============================================================================
