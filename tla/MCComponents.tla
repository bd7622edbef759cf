----------------------------- MODULE MCComponents -----------------------------
(***************************************************************************)
(* The model-checking instance of the thread pool and of the components    *)
(* that share no state with it or with each other.  A behaviour uses one   *)
(* of them, chosen at the beginning, so the states are the sum of theirs.  *)
(***************************************************************************)
EXTENDS ThreadPool, Queues, Connections, Components

ThreeDatabases == <<"d1", "d2", "d3">>

\* One component is used; if it is none of the others, it is the thread pool.
OneComponent ==
    /\ queueKind \in QueueKinds \cup {"none"}
    /\ connectionKind \in ConnectionKinds \cup {"none"}
    /\ lib \in Libraries \cup {"none"}
    /\ queueKind = "none" \/ (connectionKind = "none" /\ lib = "none")
    /\ connectionKind = "none" \/ lib = "none"

PoolUsed == queueKind = "none" /\ connectionKind = "none" /\ lib = "none"

\* The choices of the components that are not used do not matter.
OneChoice ==
    /\ queueKind # "mpsc" => ~intrusive
    /\ queueKind # "pro" => ~nonblock
    /\ connectionKind # "sync" => num_cons = 0
    /\ connectionKind # "connpool" => \A c \in Conn!Conns : conn_[c] = "null"
    /\ lib # "spinlock" => build = "sync"
    /\ lib # "orders" => program = "acquire_release"
    /\ lib # "mempool" => ~garbage

allVars == <<vars, queuesVars, connectionsVars, componentVars>>

MCInit == OneComponent /\ Init /\ QueuesInit /\ ConnectionsInit /\ ComponentInit /\ OneChoice

\* The components may stop; the thread pool only in Stopped.
MCNext ==
    \/ PoolUsed /\ Next /\ UNCHANGED <<queuesVars, connectionsVars, componentVars>>
    \/ QueuesNext /\ UNCHANGED <<vars, connectionsVars, componentVars>>
    \/ ConnectionsNext /\ UNCHANGED <<vars, queuesVars, componentVars>>
    \/ ComponentNext /\ UNCHANGED <<vars, queuesVars, connectionsVars>>
    \/ ~PoolUsed /\ UNCHANGED allVars

\* The fairness of ThreadPool, where it is the one that is used.
MCFairness ==
    /\ \A w \in Workers : /\ WF_vars(PoolUsed /\ StartWorker(w))
                          /\ WF_vars(PoolUsed /\ WorkerStep(w))
    /\ WF_vars(PoolUsed /\ Join)

MCSpec == MCInit /\ [][MCNext]_allVars /\ MCFairness
==============================================================================
