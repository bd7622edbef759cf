------------------------- MODULE DbTransactionProofs -------------------------
(***************************************************************************)
(* Proofs about DbTransaction, for any number of connections, transactions *)
(* and queries: that what a connection does is well typed and leaves no    *)
(* transaction open but one the server would not end; and that a           *)
(* transaction whose connection lasts and whose own statements are not     *)
(* refused is atomic and its result truthful.                              *)
(***************************************************************************)
EXTENDS DbTransaction, TLAPS

(* Type correctness.  A connection has a transaction when it is in a call; *)
(* only asynchronous ones wait for _deadlockLock; and an empty transaction *)
(* is never executed, so it is never retried either.                       *)

CallOK(c) ==
    /\ pc[c] = "idle" <=> trans[c] = None
    /\ pc[c] = "idle" => ~retrying[c]
    /\ pc[c] = "lock" => c \in AsyncConns
    /\ pc[c] # "idle" /\ Size[trans[c]] = 0 =>
         pc[c] = "returned" /\ errorCode[c] = "error" /\ ~retrying[c]

CallInv == \A c \in Conns : CallOK(c)

\* A session in which nothing has been done.
LEMMA NoWorkType ==
  /\ NoWork \in [Transactions -> Seq(Nat)]
  /\ \A t \in Transactions : NoWork[t] = <<>>
<1>1. <<>> \in Seq(Nat)
  OBVIOUS
<1> QED
  BY <1>1 DEF NoWork

\* The pool starts with idle connections.
LEMMA InitCall == Init => TypeOK /\ CallInv
<1> SUFFICES ASSUME Init PROVE TypeOK /\ CallInv
  OBVIOUS
<1>1. CallInv
  BY DbTransactionAssumption DEF Init, CallInv, CallOK
<1>2. /\ work \in [Conns -> [Transactions -> Seq(Nat)]] /\ applied \in [Transactions -> Seq(Nat)]
      /\ inTx \in [Conns -> Transactions \cup {None}]
  BY NoWorkType DEF Init
<1>3. /\ pc \in [Conns -> Where] /\ trans \in [Conns -> Transactions \cup {None}]
      /\ errorCode \in [Conns -> {"ok", "deadlock", "error"}]
      /\ result \in [Transactions -> {None, "true", "false"}]
      /\ deadlockLock \in SUBSET AsyncConns /\ cut \in SUBSET Transactions
      /\ refused \in SUBSET Transactions
      /\ \A c \in Conns : pc[c] = "idle"
  BY DEF Init, Where
<1>4. /\ query \in [Conns -> Nat] /\ loop \in [Conns -> 0..(LoopBreaker - 1)]
      /\ attempts \in [Conns -> 0..Attempts] /\ errors \in 0..MaxErrors
  <2>1. 0 \in 0..(LoopBreaker - 1) /\ 0 \in 0..Attempts /\ 0 \in 0..MaxErrors
    BY DbTransactionAssumption
  <2> QED
    BY <2>1 DEF Init
<1>5. /\ retrying \in [Conns -> BOOLEAN] /\ mysql \in [Conns -> BOOLEAN]
      /\ aborted \in BOOLEAN
  BY Zenon DEF Init
<1> QED
  BY <1>1, <1>2, <1>3, <1>4, <1>5 DEF TypeOK

\* What the proofs use of the types of one connection and its transaction.
LEMMA ConnFacts ==
  ASSUME TypeOK, NEW c \in Conns
  PROVE  /\ pc[c] \in Where /\ query[c] \in Nat
         /\ errorCode[c] \in {"ok", "deadlock", "error"}
         /\ retrying[c] \in BOOLEAN /\ mysql[c] \in BOOLEAN
         /\ inTx[c] \in Transactions \cup {None}
         /\ work[c] \in [Transactions -> Seq(Nat)] /\ attempts[c] \in Nat /\ loop[c] \in Nat
         /\ pc[c] # "idle" => trans[c] \in Transactions /\ Size[trans[c]] \in Nat
<1>1. retrying[c] \in BOOLEAN /\ mysql[c] \in BOOLEAN
  BY Zenon DEF TypeOK
<1>2. /\ inTx[c] \in Transactions \cup {None} /\ work[c] \in [Transactions -> Seq(Nat)]
      /\ attempts[c] \in Nat /\ loop[c] \in Nat
  BY DbTransactionAssumption DEF TypeOK
<1>3. /\ pc[c] \in Where /\ query[c] \in Nat
      /\ errorCode[c] \in {"ok", "deadlock", "error"}
      /\ pc[c] # "idle" => trans[c] \in Transactions /\ Size[trans[c]] \in Nat
  BY DbTransactionAssumption DEF TypeOK
<1> QED
  BY <1>1, <1>2, <1>3

\* What a session has done becomes durable.
LEMMA DurableType ==
  ASSUME TypeOK, NEW c \in Conns, MakeDurable(c)
  PROVE  /\ applied' \in [Transactions -> Seq(Nat)]
         /\ \A t \in Transactions : /\ applied'[t] = applied[t] \o work[c][t]
                                    /\ work[c][t] = <<>> => applied'[t] = applied[t]
<1>1. \A t \in Transactions : applied[t] \in Seq(Nat) /\ work[c][t] \in Seq(Nat)
  BY DEF TypeOK
<1>2. \A u, v \in Seq(Nat) : u \o v \in Seq(Nat)
  OBVIOUS
<1>3. \A u \in Seq(Nat) : u \o <<>> = u
  OBVIOUS
<1>4. \A t \in Transactions : applied[t] \o work[c][t] \in Seq(Nat)
  BY <1>1, <1>2
<1>5. \A t \in Transactions : work[c][t] = <<>> => applied[t] \o work[c][t] = applied[t]
  BY <1>1, <1>3
<1> QED
  BY <1>4, <1>5 DEF MakeDurable

\* The server's part of a step keeps its types.
LEMMA ServerType ==
  ASSUME TypeOK, NEW c \in Conns, NEW t \in Transactions
  PROVE  /\ FreshSession(c) => /\ inTx' \in [Conns -> Transactions \cup {None}]
                               /\ work' \in [Conns -> [Transactions -> Seq(Nat)]]
         /\ \A q \in Nat : Store(c, t, q) => /\ inTx' \in [Conns -> Transactions \cup {None}]
                                             /\ work' \in [Conns -> [Transactions -> Seq(Nat)]]
                                             /\ applied' \in [Transactions -> Seq(Nat)]
         /\ Commit(c) => /\ inTx' \in [Conns -> Transactions \cup {None}]
                         /\ work' \in [Conns -> [Transactions -> Seq(Nat)]]
                         /\ applied' \in [Transactions -> Seq(Nat)]
         /\ OpenTransaction(c) /\ trans[c] \in Transactions =>
                         /\ inTx' \in [Conns -> Transactions \cup {None}]
                         /\ work' \in [Conns -> [Transactions -> Seq(Nat)]]
                         /\ applied' \in [Transactions -> Seq(Nat)]
         /\ \A e : MayFail(e) => errors' \in 0..MaxErrors
<1>0. /\ inTx \in [Conns -> Transactions \cup {None}]
      /\ work \in [Conns -> [Transactions -> Seq(Nat)]]
      /\ applied \in [Transactions -> Seq(Nat)] /\ errors \in 0..MaxErrors
  BY DEF TypeOK
<1>1. FreshSession(c) => /\ inTx' \in [Conns -> Transactions \cup {None}]
                         /\ work' \in [Conns -> [Transactions -> Seq(Nat)]]
  BY <1>0, NoWorkType DEF FreshSession
<1>2. ASSUME NEW q \in Nat, Store(c, t, q)
      PROVE  /\ inTx' \in [Conns -> Transactions \cup {None}]
             /\ work' \in [Conns -> [Transactions -> Seq(Nat)]]
             /\ applied' \in [Transactions -> Seq(Nat)]
  <2>1. Append(work[c][t], q) \in Seq(Nat) /\ Append(applied[t], q) \in Seq(Nat)
    BY <1>0
  <2>2. [work[c] EXCEPT ![t] = Append(work[c][t], q)] \in [Transactions -> Seq(Nat)]
    BY <1>0, <2>1
  <2> QED
    BY <1>0, <1>2, <2>1, <2>2 DEF Store
<1>3. Commit(c) => applied' \in [Transactions -> Seq(Nat)]
  BY DurableType DEF Commit
<1>4. ASSUME OpenTransaction(c), trans[c] \in Transactions
      PROVE  /\ inTx' \in [Conns -> Transactions \cup {None}]
             /\ work' \in [Conns -> [Transactions -> Seq(Nat)]]
             /\ applied' \in [Transactions -> Seq(Nat)]
  BY <1>0, <1>4, DurableType, NoWorkType DEF OpenTransaction
<1>5. \A e : MayFail(e) => errors' \in 0..MaxErrors
  BY <1>0, DbTransactionAssumption DEF MayFail
<1> QED
  BY <1>1, <1>2, <1>3, <1>4, <1>5 DEF Commit

\* The pieces of TypeOK that the client's side of a step can disturb, for the
\* connection that takes it.
LEMMA TypeFrame ==
  ASSUME TypeOK, NEW c \in Conns,
         NEW where \in Where, Goto(c, where),
         \A d \in Conns \ {c} : trans'[d] = trans[d] /\ query'[d] = query[d],
         trans' \in [Conns -> Transactions \cup {None}], query' \in [Conns -> Nat],
         where # "idle" => trans'[c] \in Transactions,
         where = "query" => query'[c] \in 1..Size[trans'[c]]
  PROVE  /\ pc' \in [Conns -> Where]
         /\ \A d \in Conns : /\ pc'[d] # "idle" => trans'[d] \in Transactions
                             /\ pc'[d] = "query" => query'[d] \in 1..Size[trans'[d]]
<1>1. pc \in [Conns -> Where] /\ pc' = [pc EXCEPT ![c] = where]
  BY DEF TypeOK, Goto
<1>2. pc'[c] = where /\ \A d \in Conns \ {c} : pc'[d] = pc[d]
  BY <1>1
<1>3. ASSUME NEW d \in Conns \ {c}
      PROVE  /\ pc'[d] # "idle" => trans'[d] \in Transactions
             /\ pc'[d] = "query" => query'[d] \in 1..Size[trans'[d]]
  BY <1>2 DEF TypeOK
<1> QED
  BY <1>1, <1>2, <1>3

\* The other connections are where they were.
LEMMA CallFrame ==
  ASSUME CallInv, NEW c \in Conns, CallOK(c)',
         \A d \in Conns \ {c} : /\ pc'[d] = pc[d] /\ trans'[d] = trans[d]
                                /\ retrying'[d] = retrying[d]
                                /\ errorCode'[d] = errorCode[d]
  PROVE  CallInv'
  BY DEF CallInv, CallOK

\* A connection that is given a transaction.
LEMMA BeginCall ==
  ASSUME TypeOK, CallInv, NEW c \in Conns, NEW t \in Transactions, Begin(c, t)
  PROVE  TypeOK' /\ CallInv'
<1>1. /\ trans' = [trans EXCEPT ![c] = t] /\ trans' \in [Conns -> Transactions \cup {None}]
      /\ errorCode' = [errorCode EXCEPT ![c] = "error"]
      /\ errorCode' \in [Conns -> {"ok", "deadlock", "error"}]
      /\ UNCHANGED <<retrying, loop, deadlockLock, result, query, mysql, attempts, aborted,
                     refused, serverVars>>
      /\ cut' \in SUBSET Transactions
      /\ Goto(c, IF Size[t] = 0 THEN "returned" ELSE "begin")
  BY DEF Begin, TypeOK
<1>2. pc[c] = "idle" /\ ~retrying[c]
  BY DEF Begin, CallInv, CallOK
<1>3. /\ trans'[c] = t /\ errorCode'[c] = "error" /\ t # None
      /\ pc'[c] = IF Size[t] = 0 THEN "returned" ELSE "begin"
      /\ \A d \in Conns \ {c} : /\ trans'[d] = trans[d] /\ errorCode'[d] = errorCode[d]
                                /\ pc'[d] = pc[d]
  BY <1>1, DbTransactionAssumption DEF TypeOK, Goto
<1>4. TypeOK'
  <2>1. /\ pc' \in [Conns -> Where]
        /\ \A d \in Conns : /\ pc'[d] # "idle" => trans'[d] \in Transactions
                            /\ pc'[d] = "query" => query'[d] \in 1..Size[trans'[d]]
    <3>1. (IF Size[t] = 0 THEN "returned" ELSE "begin") \in Where \ {"query"}
      BY DEF Where
    <3>2. query' = query /\ query \in [Conns -> Nat]
      BY <1>1 DEF TypeOK
    <3> QED
      BY <1>1, <1>3, <3>1, <3>2, TypeFrame
  <2> QED
    BY <1>1, <2>1 DEF TypeOK, serverVars
<1>5. CallOK(c)'
  BY <1>1, <1>2, <1>3 DEF CallOK
<1> QED
  BY <1>1, <1>3, <1>4, <1>5, CallFrame

\* Losing the connection changes the handle and the session, not the call.
LEMMA LoseConnectionCall ==
  ASSUME TypeOK, CallInv, NEW c \in Conns, LoseConnection(c), pc[c] # "idle",
         applied' \in [Transactions -> Seq(Nat)]
  PROVE  TypeOK' /\ CallInv'
<1>1. /\ inTx' \in [Conns -> Transactions \cup {None}] /\ work' \in [Conns -> [Transactions -> Seq(Nat)]]
  BY NoWorkType DEF LoseConnection, FreshSession, TypeOK
<1>2. errors' \in 0..MaxErrors
  BY DbTransactionAssumption DEF LoseConnection, MayFail, TypeOK
<1>3. attempts' \in [Conns -> 0..Attempts]
  BY DbTransactionAssumption DEF LoseConnection, TypeOK
<1>4. mysql' \in [Conns -> BOOLEAN]
  BY Zenon DEF LoseConnection, TypeOK
<1>5. UNCHANGED <<taskVars, callVars, aborted, refused>>
  BY DEF LoseConnection
<1>6. cut' \in SUBSET Transactions
  BY ConnFacts DEF LoseConnection, TypeOK
<1>7. TypeOK'
  BY <1>1, <1>2, <1>3, <1>4, <1>5, <1>6 DEF TypeOK, taskVars, callVars
<1> QED
  BY <1>5, <1>7 DEF CallInv, CallOK, taskVars, callVars

\* BeginTransaction.
LEMMA BeginTransactionCall ==
  ASSUME TypeOK, CallInv, NEW c \in Conns, BeginTransaction(c)
  PROVE  TypeOK' /\ CallInv'
<1>1. pc[c] = "begin" /\ CallOK(c)
  BY DEF BeginTransaction, Executing, CallInv
<1>2. trans[c] \in Transactions /\ Size[trans[c]] \in Nat /\ Size[trans[c]] # 0
  BY <1>1, ConnFacts DEF CallOK
<1>3. CASE LoseConnection(c) /\ (UNCHANGED applied \/ MakeDurable(c))
  BY <1>1, <1>3, LoseConnectionCall, DurableType DEF TypeOK
<1>4. CASE /\ query' = [query EXCEPT ![c] = 1]
           /\ Goto(c, "query")
           /\ \/ mysql[c] /\ OpenTransaction(c) /\ UNCHANGED <<refused, errors>>
              \/ mysql[c] /\ Refuse(c) /\ UNCHANGED <<inTx, work, applied>>
              \/ ~mysql[c] /\ UNCHANGED <<refused, serverVars>>
           /\ UNCHANGED <<taskVars, errorCode, mysql, attempts, aborted, cut>>
  <2>1. /\ inTx' \in [Conns -> Transactions \cup {None}]
        /\ work' \in [Conns -> [Transactions -> Seq(Nat)]]
        /\ applied' \in [Transactions -> Seq(Nat)]
        /\ errors' \in 0..MaxErrors /\ refused' \in SUBSET Transactions
    BY <1>2, <1>4, ServerType DEF TypeOK, Refuse, serverVars
  <2>2. /\ query' \in [Conns -> Nat] /\ query'[c] = 1 /\ pc'[c] = "query"
        /\ \A d \in Conns \ {c} : query'[d] = query[d] /\ pc'[d] = pc[d]
        /\ trans' = trans /\ retrying' = retrying /\ errorCode' = errorCode
    BY <1>4 DEF TypeOK, Goto, taskVars
  <2>3. /\ pc' \in [Conns -> Where]
        /\ \A d \in Conns : /\ pc'[d] # "idle" => trans'[d] \in Transactions
                            /\ pc'[d] = "query" => query'[d] \in 1..Size[trans'[d]]
    <3>1. "query" \in Where /\ 1 \in 1..Size[trans[c]]
      BY <1>2 DEF Where
    <3>2. trans \in [Conns -> Transactions \cup {None}]
      BY DEF TypeOK
    <3> QED
      BY <1>2, <1>4, <2>2, <3>1, <3>2, TypeFrame
  <2>4. TypeOK'
    BY <1>4, <2>1, <2>2, <2>3 DEF TypeOK, taskVars
  <2>5. CallOK(c)'
    BY <1>1, <1>2, <2>2 DEF CallOK
  <2> QED
    BY <2>2, <2>4, <2>5, CallFrame
<1> QED
  BY <1>3, <1>4 DEF BeginTransaction

\* Steps that move the call of c on, with the same transaction: to where, with
\* the error code e.
LEMMA MoveOn ==
  ASSUME TypeOK, CallInv, NEW c \in Conns, NEW where \in Where, Goto(c, where),
         pc[c] # "idle", where # "idle", trans' = trans, retrying' = retrying,
         query' \in [Conns -> Nat], \A d \in Conns \ {c} : query'[d] = query[d],
         where = "query" => query'[c] \in 1..Size[trans[c]],
         where = "lock" => c \in AsyncConns,
         Size[trans[c]] # 0,
         NEW e \in {"ok", "deadlock", "error"}, errorCode' = [errorCode EXCEPT ![c] = e],
         UNCHANGED <<loop, deadlockLock, result, mysql, attempts, aborted, cut>>,
         refused' \in SUBSET Transactions,
         inTx' \in [Conns -> Transactions \cup {None}], work' \in [Conns -> [Transactions -> Seq(Nat)]],
         applied' \in [Transactions -> Seq(Nat)], errors' \in 0..MaxErrors
  PROVE  TypeOK' /\ CallInv'
<1>1. /\ trans[c] \in Transactions /\ trans \in [Conns -> Transactions \cup {None}]
      /\ trans[c] # None
  BY ConnFacts, DbTransactionAssumption, SMTT(30) DEF TypeOK
<1>2. /\ pc' \in [Conns -> Where]
      /\ \A d \in Conns : /\ pc'[d] # "idle" => trans'[d] \in Transactions
                          /\ pc'[d] = "query" => query'[d] \in 1..Size[trans'[d]]
  BY <1>1, TypeFrame
<1>3. /\ errorCode' \in [Conns -> {"ok", "deadlock", "error"}]
      /\ pc'[c] = where
      /\ \A d \in Conns \ {c} : errorCode'[d] = errorCode[d] /\ pc'[d] = pc[d]
  BY DEF TypeOK, Goto
<1>4. TypeOK'
  BY <1>2, <1>3 DEF TypeOK
<1>5. CallOK(c)'
  BY <1>1, <1>3 DEF CallOK, CallInv
<1> QED
  BY <1>3, <1>4, <1>5, CallFrame

\* Execute: done, skipped, deadlocked, aborted, lost, or without a handle.
LEMMA ExecuteCall ==
  ASSUME TypeOK, CallInv, NEW c \in Conns, Execute(c)
  PROVE  TypeOK' /\ CallInv'
<1> DEFINE t == trans[c]
<1>1. pc[c] = "query" /\ CallOK(c)
  BY DEF Execute, Executing, CallInv
<1>2. /\ t \in Transactions /\ Size[t] \in Nat /\ Size[t] # 0
      /\ query[c] \in 1..Size[t] /\ query[c] \in Nat
      /\ query \in [Conns -> Nat] /\ errorCode \in [Conns -> {"ok", "deadlock", "error"}]
  BY <1>1, ConnFacts DEF CallOK, TypeOK
<1>3. "query" \in Where /\ "commit" \in Where /\ "rollback" \in Where
  BY DEF Where
<1>s. inTx \in [Conns -> Transactions \cup {None}] /\ work \in [Conns -> [Transactions -> Seq(Nat)]]
      /\ applied \in [Transactions -> Seq(Nat)] /\ errors \in 0..MaxErrors
      /\ refused \in SUBSET Transactions
  BY DEF TypeOK
<1>4. ASSUME Store(c, t, query[c]), query' = [query EXCEPT ![c] = @ + 1],
             Goto(c, IF query[c] = Size[t] THEN "commit" ELSE "query"),
             UNCHANGED <<errorCode, taskVars, connVars, errors>>
      PROVE  TypeOK' /\ CallInv'
  <2>1. /\ inTx' \in [Conns -> Transactions \cup {None}] /\ work' \in [Conns -> [Transactions -> Seq(Nat)]]
        /\ applied' \in [Transactions -> Seq(Nat)]
    BY <1>2, <1>4, ServerType
  <2>2. /\ query' \in [Conns -> Nat] /\ query'[c] = query[c] + 1
        /\ \A d \in Conns \ {c} : query'[d] = query[d]
    BY <1>2, <1>4
  <2>3. errorCode' = [errorCode EXCEPT ![c] = errorCode[c]]
        /\ errorCode[c] \in {"ok", "deadlock", "error"}
    BY <1>2, <1>4
  <2>4. /\ trans' = trans /\ retrying' = retrying
        /\ UNCHANGED <<loop, deadlockLock, result, mysql, attempts, aborted, cut>>
        /\ errors' = errors /\ refused' = refused
    BY <1>4 DEF taskVars, connVars
  <2>5. CASE query[c] = Size[t]
    <3>1. Goto(c, "commit")
      BY <1>4, <2>5
    <3> QED
      BY <1>1, <1>2, <1>3, <1>s, <2>1, <2>2, <2>3, <2>4, <3>1, MoveOn
  <2>6. CASE query[c] # Size[t]
    <3>1. Goto(c, "query")
      BY <1>4, <2>6
    <3>2. query'[c] \in 1..Size[t]
      BY <1>2, <2>2, <2>6
    <3> QED
      BY <1>1, <1>2, <1>3, <1>s, <2>1, <2>2, <2>3, <2>4, <3>1, <3>2, MoveOn
  <2> QED
    BY <2>5, <2>6
<1>5. ASSUME NEW e \in {"ok", "deadlock", "error"}, QueryFailed(c, e),
             inTx' \in [Conns -> Transactions \cup {None}], work' \in [Conns -> [Transactions -> Seq(Nat)]],
             applied' \in [Transactions -> Seq(Nat)], errors' \in 0..MaxErrors
      PROVE  TypeOK' /\ CallInv'
  <2>1. /\ trans' = trans /\ retrying' = retrying
        /\ query' \in [Conns -> Nat] /\ \A d \in Conns \ {c} : query'[d] = query[d]
        /\ UNCHANGED <<loop, deadlockLock, result, mysql, attempts, aborted, cut>>
        /\ refused' = refused
        /\ errorCode' = [errorCode EXCEPT ![c] = e] /\ Goto(c, "rollback")
    BY <1>2, <1>5 DEF QueryFailed, taskVars, connVars
  <2> QED
    BY <1>1, <1>2, <1>3, <1>5, <1>s, <2>1, MoveOn
<1>6. CASE /\ MayFail("skip") /\ QueryFailed(c, "error")
           /\ UNCHANGED <<inTx, work, applied>>
  BY <1>5, <1>6, <1>s, <1>2, ServerType
<1>7. CASE /\ MayFail("deadlock") /\ QueryFailed(c, "deadlock")
           /\ FreshSession(c) /\ UNCHANGED applied
  BY <1>5, <1>7, <1>s, <1>2, ServerType
<1>8. CASE /\ MayFail("schema") /\ aborted' = TRUE
           /\ UNCHANGED <<taskVars, callVars, mysql, attempts, cut, refused, inTx, work, applied>>
  <2>1. errors' \in 0..MaxErrors
    BY <1>2, <1>8, ServerType
  <2>2. TypeOK'
    BY <1>8, <2>1 DEF TypeOK, taskVars, callVars
  <2> QED
    BY <1>8, <2>2 DEF CallInv, CallOK, taskVars, callVars
<1>9. CASE /\ LoseConnection(c)
           /\ \/ UNCHANGED applied
              \/ applied' = [applied EXCEPT ![trans[c]] = Append(@, query[c])]
  <2>1. Append(applied[t], query[c]) \in Seq(Nat)
    BY <1>2, <1>s
  <2>2. applied' \in [Transactions -> Seq(Nat)]
    BY <1>2, <1>9, <1>s, <2>1
  <2> QED
    BY <1>1, <1>9, <2>2, LoseConnectionCall
<1>10. CASE (\E e \in {"ok", "error"} : QueryFailed(c, e)) /\ UNCHANGED serverVars
  BY <1>5, <1>10, <1>s DEF serverVars
<1> QED
  BY <1>4, <1>6, <1>7, <1>8, <1>9, <1>10 DEF Execute

\* CommitTransaction.
LEMMA CommitTransactionCall ==
  ASSUME TypeOK, CallInv, NEW c \in Conns, CommitTransaction(c)
  PROVE  TypeOK' /\ CallInv'
<1> DEFINE t == trans[c]
<1>1. pc[c] = "commit" /\ CallOK(c)
  BY DEF CommitTransaction, Executing, CallInv
<1>2. /\ t \in Transactions /\ Size[t] # 0 /\ query \in [Conns -> Nat]
      /\ inTx \in [Conns -> Transactions \cup {None}] /\ work \in [Conns -> [Transactions -> Seq(Nat)]]
      /\ applied \in [Transactions -> Seq(Nat)] /\ errors \in 0..MaxErrors
      /\ "returned" \in Where
  BY <1>1, ConnFacts DEF CallOK, TypeOK, Where
<1>3. CASE /\ errorCode' = [errorCode EXCEPT ![c] = "ok"] /\ Goto(c, "returned")
           /\ \/ mysql[c] /\ Commit(c) /\ UNCHANGED <<refused, errors>>
              \/ /\ mysql[c] /\ Refuse(c) /\ UNCHANGED applied
                 /\ FreshSession(c) \/ UNCHANGED <<inTx, work>>
              \/ ~mysql[c] /\ UNCHANGED <<refused, serverVars>>
           /\ UNCHANGED <<query, taskVars, mysql, attempts, aborted, cut>>
  <2>1. /\ inTx' \in [Conns -> Transactions \cup {None}]
        /\ work' \in [Conns -> [Transactions -> Seq(Nat)]]
        /\ applied' \in [Transactions -> Seq(Nat)]
        /\ errors' \in 0..MaxErrors /\ refused' \in SUBSET Transactions
    BY <1>2, <1>3, ServerType DEF TypeOK, Refuse, serverVars
  <2>2. /\ trans' = trans /\ retrying' = retrying /\ query' = query
        /\ UNCHANGED <<loop, deadlockLock, result, mysql, attempts, aborted, cut>>
    BY <1>3 DEF taskVars
  <2> QED
    BY <1>1, <1>2, <1>3, <2>1, <2>2, MoveOn
<1>4. CASE LoseConnection(c) /\ (UNCHANGED applied \/ MakeDurable(c))
  BY <1>1, <1>2, <1>4, LoseConnectionCall, DurableType
<1> QED
  BY <1>3, <1>4 DEF CommitTransaction

\* RollbackTransaction.
LEMMA RollbackTransactionCall ==
  ASSUME TypeOK, CallInv, NEW c \in Conns, RollbackTransaction(c)
  PROVE  TypeOK' /\ CallInv'
<1> DEFINE t == trans[c]
<1>1. pc[c] = "rollback" /\ CallOK(c)
  BY DEF RollbackTransaction, Executing, CallInv
<1>2. /\ t \in Transactions /\ Size[t] # 0 /\ query \in [Conns -> Nat]
      /\ inTx \in [Conns -> Transactions \cup {None}] /\ work \in [Conns -> [Transactions -> Seq(Nat)]]
      /\ applied \in [Transactions -> Seq(Nat)] /\ errors \in 0..MaxErrors
      /\ errorCode \in [Conns -> {"ok", "deadlock", "error"}]
      /\ "returned" \in Where
  BY <1>1, ConnFacts DEF CallOK, TypeOK, Where
<1>3. CASE /\ Goto(c, "returned")
           /\ \/ mysql[c] /\ FreshSession(c) /\ UNCHANGED <<refused, errors>>
              \/ mysql[c] /\ Refuse(c) /\ UNCHANGED <<inTx, work>>
              \/ ~mysql[c] /\ UNCHANGED <<refused, inTx, work, errors>>
           /\ UNCHANGED <<query, errorCode, taskVars, mysql, attempts, aborted, cut, applied>>
  <2>1. /\ inTx' \in [Conns -> Transactions \cup {None}]
        /\ work' \in [Conns -> [Transactions -> Seq(Nat)]]
        /\ errors' \in 0..MaxErrors /\ refused' \in SUBSET Transactions
    BY <1>2, <1>3, ServerType DEF TypeOK, Refuse
  <2>2. /\ trans' = trans /\ retrying' = retrying /\ query' = query
        /\ applied' = applied
        /\ UNCHANGED <<loop, deadlockLock, result, mysql, attempts, aborted, cut>>
        /\ errorCode' = [errorCode EXCEPT ![c] = errorCode[c]]
        /\ errorCode[c] \in {"ok", "deadlock", "error"}
    BY <1>2, <1>3 DEF taskVars
  <2> QED
    BY <1>1, <1>2, <1>3, <2>1, <2>2, MoveOn, ZenonT(60)
<1>4. CASE LoseConnection(c) /\ UNCHANGED applied
  BY <1>1, <1>2, <1>4, LoseConnectionCall
<1> QED
  BY <1>3, <1>4 DEF RollbackTransaction

\* Reconnecting changes only the handle and the attempts.
LEMMA ReconnectCall ==
  ASSUME TypeOK, CallInv, NEW c \in Conns,
         Reconnect(c) \/ ReconnectNoStatements(c) \/ ReconnectFails(c) \/ ReconnectGivesUp(c)
  PROVE  TypeOK' /\ CallInv'
<1>1. UNCHANGED <<taskVars, callVars, cut, refused, serverVars>>
  BY DEF Reconnect, ReconnectNoStatements, ReconnectFails, ReconnectGivesUp
<1>2. mysql' \in [Conns -> BOOLEAN] /\ aborted' \in BOOLEAN
  BY Zenon DEF Reconnect, ReconnectNoStatements, ReconnectFails, ReconnectGivesUp, TypeOK
<1>3. attempts' \in [Conns -> 0..Attempts]
  <2>1. attempts \in [Conns -> 0..Attempts] /\ Attempts \in Nat
    BY DbTransactionAssumption DEF TypeOK
  <2>2. /\ 0 \in 0..Attempts
        /\ attempts[c] > 0 /\ attempts[c] # 1 => attempts[c] - 1 \in 0..Attempts
    BY <2>1
  <2> QED
    BY <2>1, <2>2 DEF Reconnect, ReconnectNoStatements, ReconnectFails, ReconnectGivesUp
<1>4. TypeOK'
  BY <1>1, <1>2, <1>3 DEF TypeOK, taskVars, callVars, serverVars
<1> QED
  BY <1>1, <1>4 DEF CallInv, CallOK, taskVars, callVars

\* The task ends and its connection is idle.
LEMMA FinishCall ==
  ASSUME TypeOK, CallInv, NEW c \in Conns, pc[c] = "returned",
         NEW r \in {"true", "false"}, Finish(c, r)
  PROVE  TypeOK' /\ CallInv'
<1>1. trans[c] \in Transactions /\ "idle" \in Where
  BY ConnFacts DEF Where
<1>2. /\ result' \in [Transactions -> {None, "true", "false"}]
      /\ trans' \in [Conns -> Transactions \cup {None}] /\ trans'[c] = None
      /\ \A d \in Conns \ {c} : trans'[d] = trans[d]
      /\ deadlockLock' \in SUBSET AsyncConns
  BY <1>1 DEF Finish, TypeOK
<1>3. /\ retrying' \in [Conns -> BOOLEAN] /\ ~retrying'[c]
      /\ \A d \in Conns \ {c} : retrying'[d] = retrying[d]
  BY Zenon DEF Finish, TypeOK
<1>4. loop' \in [Conns -> 0..(LoopBreaker - 1)]
  <2>1. 0 \in 0..(LoopBreaker - 1)
    BY DbTransactionAssumption
  <2> QED
    BY <2>1 DEF Finish, TypeOK
<1>5. /\ Goto(c, "idle") /\ UNCHANGED <<connVars, serverVars>>
      /\ query' \in [Conns -> Nat] /\ errorCode' \in [Conns -> {"ok", "deadlock", "error"}]
      /\ \A d \in Conns \ {c} : query'[d] = query[d] /\ errorCode'[d] = errorCode[d]
  BY DEF Finish, TypeOK
<1>6. pc'[c] = "idle" /\ \A d \in Conns \ {c} : pc'[d] = pc[d]
  BY <1>5 DEF Goto, TypeOK
<1>7. /\ pc' \in [Conns -> Where]
      /\ \A d \in Conns : /\ pc'[d] # "idle" => trans'[d] \in Transactions
                          /\ pc'[d] = "query" => query'[d] \in 1..Size[trans'[d]]
  BY <1>1, <1>2, <1>5, TypeFrame
<1>8. TypeOK'
  BY <1>2, <1>3, <1>4, <1>5, <1>7 DEF TypeOK, connVars, serverVars
<1>9. CallOK(c)'
  BY <1>2, <1>3, <1>6 DEF CallOK
<1> QED
  BY <1>2, <1>3, <1>5, <1>6, <1>8, <1>9, CallFrame

\* The transaction is tried again, or is about to be.
LEMMA RetryCall ==
  ASSUME TypeOK, CallInv, NEW c \in Conns,
         Deadlocked(c) \/ LockForRetry(c) \/ Retry(c)
  PROVE  TypeOK' /\ CallInv'
<1>1. /\ pc[c] \in {"returned", "lock"} /\ CallOK(c)
      /\ pc[c] = "returned" => errorCode[c] = "deadlock" \/ retrying[c]
  BY DEF Deadlocked, LockForRetry, Retry, Returned, CallInv
<1>2. trans[c] \in Transactions /\ trans[c] # None /\ Size[trans[c]] # 0
  BY <1>1, ConnFacts, DbTransactionAssumption DEF CallOK
<1>3. PICK where \in {"begin", "lock"} : Goto(c, where) /\ (where = "lock" => c \in AsyncConns)
  BY DEF Deadlocked, LockForRetry, Retry
<1>4. UNCHANGED <<trans, result, query, errorCode, connVars, serverVars>>
  BY DEF Deadlocked, LockForRetry, Retry
<1>5. /\ retrying' \in [Conns -> BOOLEAN]
      /\ \A d \in Conns \ {c} : retrying'[d] = retrying[d]
  BY Zenon DEF Deadlocked, LockForRetry, Retry, TypeOK
<1>6. loop' \in [Conns -> 0..(LoopBreaker - 1)]
  <2>1. loop \in [Conns -> 0..(LoopBreaker - 1)] /\ LoopBreaker \in Nat \ {0}
    BY DbTransactionAssumption DEF TypeOK
  <2>2. CASE Retry(c)
    <3>1. (IF c \in SyncConns THEN loop[c] + 1 ELSE 0) \in 0..(LoopBreaker - 1)
      BY <2>1, <2>2 DEF Retry
    <3> QED
      BY <2>1, <2>2, <3>1 DEF Retry
  <2>3. CASE Deadlocked(c) \/ LockForRetry(c)
    BY <2>1, <2>3 DEF Deadlocked, LockForRetry
  <2> QED
    BY <2>2, <2>3
<1>7. deadlockLock' \in SUBSET AsyncConns
  BY <1>1 DEF Deadlocked, LockForRetry, Retry, TypeOK, CallOK
<1>8. pc'[c] = where /\ \A d \in Conns \ {c} : pc'[d] = pc[d]
  BY <1>3 DEF Goto, TypeOK
<1>9. /\ pc' \in [Conns -> Where]
      /\ \A d \in Conns : /\ pc'[d] # "idle" => trans'[d] \in Transactions
                          /\ pc'[d] = "query" => query'[d] \in 1..Size[trans'[d]]
  <2>1. /\ query' = query /\ query \in [Conns -> Nat] /\ where \in Where
        /\ trans' = trans /\ trans \in [Conns -> Transactions \cup {None}]
        /\ where \notin {"idle", "query"}
    BY <1>4 DEF TypeOK, Where
  <2> QED
    BY <1>2, <1>3, <2>1, TypeFrame
<1>10. TypeOK'
  BY <1>4, <1>5, <1>6, <1>7, <1>9 DEF TypeOK, connVars, serverVars
<1>11. CallOK(c)'
  BY <1>2, <1>3, <1>4, <1>8 DEF CallOK
<1> QED
  BY <1>4, <1>5, <1>8, <1>10, <1>11, CallFrame

\* Every step of every connection keeps the types.
LEMMA NextCall == TypeOK /\ CallInv /\ [Next]_vars => TypeOK' /\ CallInv'
<1> SUFFICES ASSUME TypeOK, CallInv, [Next]_vars PROVE TypeOK' /\ CallInv'
  OBVIOUS
<1>1. ASSUME NEW c \in Conns, Step(c) PROVE TypeOK' /\ CallInv'
  <2>1. CASE Succeed(c) \/ Fail(c)
    <3>1. pc[c] = "returned" /\ (Finish(c, "true") \/ Finish(c, "false"))
      BY <2>1 DEF Succeed, Fail, Returned
    <3> QED
      BY <3>1, FinishCall
  <2> QED
    BY <1>1, <2>1, BeginTransactionCall, ExecuteCall, CommitTransactionCall,
       RollbackTransactionCall, ReconnectCall, RetryCall DEF Step
<1>2. CASE UNCHANGED vars
  BY <1>2 DEF vars, taskVars, callVars, connVars, serverVars, TypeOK, CallInv, CallOK
<1> QED
  BY <1>1, <1>2, BeginCall DEF Next, Stopped

\* Whatever fails, every call is at a place of the code, runs queries that
\* exist, and stays within its attempts and retries.
THEOREM TypeCorrect == Spec => []TypeOK
<1>1. TypeOK /\ CallInv /\ [Next]_vars => (TypeOK /\ CallInv)'
  BY NextCall
<1> QED
  BY InitCall, <1>1, PTL DEF Spec

------------------------------------------------------------------------------
(* No transaction is left open.                                            *)

\* The session of c has nothing open.
Fresh(c) == inTx[c] = None /\ work[c] = NoWork

\* The call of c may have a transaction open.
MayBeOpen(c) == pc[c] \in {"query", "commit", "rollback"}

\* Only the call and transactions with a refused statement have anything open.
QuietOK(c) ==
    /\ ~mysql[c] => Fresh(c)
    /\ \/ inTx[c] \in refused \cup {None}
       \/ MayBeOpen(c) /\ inTx[c] = trans[c]
    /\ \A t \in Transactions \ refused :
          work[c][t] = <<>> \/ (MayBeOpen(c) /\ t = trans[c])

QuietInv == \A c \in Conns : QuietOK(c)

\* What a step of c leaves alone.
Others(c) ==
    \A d \in Conns \ {c} :
        /\ pc'[d] = pc[d] /\ mysql'[d] = mysql[d] /\ inTx'[d] = inTx[d] /\ work'[d] = work[d]
        /\ trans'[d] = trans[d] /\ query'[d] = query[d] /\ errorCode'[d] = errorCode[d]
        /\ attempts'[d] = attempts[d]

\* Every step of a connection leaves the others alone.
LEMMA StepOthers ==
  ASSUME TypeOK, NEW c \in Conns, Step(c) \/ \E t \in Transactions : Begin(c, t)
  PROVE  Others(c)
<1>1. /\ pc \in [Conns -> Where] /\ trans \in [Conns -> Transactions \cup {None}]
      /\ query \in [Conns -> Nat] /\ errorCode \in [Conns -> {"ok", "deadlock", "error"}]
      /\ mysql \in [Conns -> BOOLEAN] /\ attempts \in [Conns -> 0..Attempts]
      /\ inTx \in [Conns -> Transactions \cup {None}] /\ work \in [Conns -> [Transactions -> Seq(Nat)]]
  BY DEF TypeOK
<1>2. CASE \E t \in Transactions : Begin(c, t)
  BY <1>1, <1>2 DEF Begin, Goto, Others, serverVars
<1>3. CASE BeginTransaction(c)
  BY <1>1, <1>3 DEF BeginTransaction, OpenTransaction, LoseConnection, FreshSession, Goto, Others,
     taskVars, callVars, serverVars
<1>4. CASE Execute(c)
  BY <1>1, <1>4 DEF Execute, Store, QueryFailed, LoseConnection, FreshSession, Goto, Others,
     taskVars, callVars, connVars, serverVars
<1>5. CASE CommitTransaction(c)
  BY <1>1, <1>5 DEF CommitTransaction, Commit, LoseConnection, FreshSession, Goto, Others,
     taskVars, callVars, serverVars
<1>6. CASE RollbackTransaction(c)
  BY <1>1, <1>6 DEF RollbackTransaction, LoseConnection, FreshSession, Goto, Others,
     taskVars, callVars
<1>7. CASE Reconnect(c) \/ ReconnectNoStatements(c) \/ ReconnectFails(c) \/ ReconnectGivesUp(c)
  BY <1>1, <1>7 DEF Reconnect, ReconnectNoStatements, ReconnectFails, ReconnectGivesUp, Others,
     taskVars, callVars, connVars, serverVars
<1>8. CASE Succeed(c) \/ Fail(c)
  BY <1>1, <1>8 DEF Succeed, Fail, Finish, Goto, Others, connVars, serverVars
<1>9. CASE Deadlocked(c) \/ LockForRetry(c) \/ Retry(c)
  BY <1>1, <1>9 DEF Deadlocked, LockForRetry, Retry, Goto, Others, connVars, serverVars
<1> QED
  BY <1>2, <1>3, <1>4, <1>5, <1>6, <1>7, <1>8, <1>9 DEF Step

\* A session that is made fresh is quiet.
LEMMA MadeFresh ==
  ASSUME TypeOK, NEW c \in Conns, FreshSession(c)
  PROVE  Fresh(c)' /\ QuietOK(c)'
<1>1. inTx'[c] = None /\ work'[c] = NoWork
  BY DEF FreshSession, TypeOK
<1>2. Fresh(c)'
  BY <1>1 DEF Fresh, NoWork
<1> QED
  BY <1>1, <1>2, NoWorkType DEF QuietOK

\* A step that leaves the session alone and does not leave the call's open
\* transaction to itself, unless a statement of it is refused.
LEMMA StaysQuiet ==
  ASSUME NEW c \in Conns, QuietOK(c), inTx'[c] = inTx[c], work'[c] = work[c],
         refused \subseteq refused', ~mysql'[c] => ~mysql[c],
         \/ ~MayBeOpen(c)
         \/ trans[c] \in refused'
         \/ MayBeOpen(c)' /\ trans'[c] = trans[c]
  PROVE  QuietOK(c)'
<1>1. ~mysql'[c] => Fresh(c)'
  BY DEF QuietOK, Fresh, NoWork
<1> QED
  BY <1>1 DEF QuietOK

\* Every step of c keeps its own session quiet.
LEMMA StepQuiet ==
  ASSUME TypeOK, QuietInv, NEW c \in Conns, Step(c) \/ \E t \in Transactions : Begin(c, t)
  PROVE  QuietOK(c)'
<1>1. /\ pc \in [Conns -> Where] /\ mysql \in [Conns -> BOOLEAN] /\ QuietOK(c)
  BY DEF TypeOK, QuietInv
<1>f. CASE FreshSession(c)
  BY <1>f, MadeFresh
<1>2. CASE LoseConnection(c)
  BY <1>f, <1>2 DEF LoseConnection
<1>3. CASE \E t \in Transactions : Begin(c, t)
  <2>1. /\ pc[c] = "idle" /\ inTx' = inTx /\ work' = work /\ refused' = refused
        /\ mysql' = mysql
    BY <1>3 DEF Begin, serverVars
  <2> QED
    BY <1>1, <2>1, StaysQuiet DEF MayBeOpen
<1>4. CASE BeginTransaction(c) /\ ~LoseConnection(c)
  <2>1. pc[c] = "begin" /\ pc'[c] = "query" /\ trans' = trans /\ mysql' = mysql
    BY <1>1, <1>4 DEF BeginTransaction, Executing, Goto, taskVars
  <2>2. CASE mysql[c] /\ OpenTransaction(c) /\ refused' = refused
    <3>1. inTx'[c] = trans[c] /\ work'[c] = NoWork
      BY <2>2 DEF OpenTransaction, TypeOK
    <3> QED
      BY <2>1, <2>2, <3>1, NoWorkType DEF QuietOK, MayBeOpen
  <2>3. CASE inTx' = inTx /\ work' = work /\ refused \subseteq refused'
    BY <1>1, <2>1, <2>3, StaysQuiet DEF MayBeOpen
  <2> QED
    BY <1>4, <2>2, <2>3 DEF BeginTransaction, Refuse, serverVars
<1>5. CASE Execute(c) /\ ~LoseConnection(c) /\ ~FreshSession(c)
  <2>1. /\ pc[c] = "query" /\ pc'[c] \in {"query", "commit", "rollback"}
        /\ trans' = trans /\ mysql' = mysql /\ refused' = refused
    BY <1>1, <1>5 DEF Execute, Executing, QueryFailed, Goto, taskVars, callVars, connVars
  <2>2. CASE inTx' = inTx /\ work' = work
    BY <1>1, <2>1, <2>2, StaysQuiet DEF MayBeOpen
  <2>3. CASE /\ mysql[c] /\ inTx' = inTx
             /\ work' = [work EXCEPT ![c][trans[c]] = Append(@, query[c])]
    <3>1. \A t \in Transactions : t # trans[c] => work'[c][t] = work[c][t]
      BY <2>3 DEF TypeOK
    <3> QED
      BY <1>1, <2>1, <2>3, <3>1 DEF QuietOK, MayBeOpen
  <2> QED
    BY <1>5, <2>2, <2>3 DEF Execute, Store, serverVars
<1>6. CASE CommitTransaction(c) /\ ~LoseConnection(c) /\ ~FreshSession(c)
  <2>1. /\ inTx' = inTx /\ work' = work /\ mysql' = mysql /\ refused \subseteq refused'
        /\ ~mysql[c] \/ trans[c] \in refused'
    BY <1>6 DEF CommitTransaction, Commit, Refuse, serverVars
  <2> QED
    BY <1>1, <2>1, StaysQuiet, NoWorkType DEF QuietOK, Fresh, NoWork
<1>7. CASE RollbackTransaction(c) /\ ~LoseConnection(c) /\ ~FreshSession(c)
  <2>1. /\ inTx' = inTx /\ work' = work /\ mysql' = mysql /\ refused \subseteq refused'
        /\ ~mysql[c] \/ trans[c] \in refused'
    BY <1>7 DEF RollbackTransaction, Refuse
  <2> QED
    BY <1>1, <2>1, StaysQuiet, NoWorkType DEF QuietOK, Fresh, NoWork
<1>8. CASE Reconnect(c) \/ ReconnectNoStatements(c) \/ ReconnectFails(c) \/ ReconnectGivesUp(c)
  <2>1. /\ pc' = pc /\ inTx' = inTx /\ work' = work /\ trans' = trans /\ refused' = refused
        /\ mysql'[c] \/ mysql' = mysql
    BY <1>1, <1>8 DEF Reconnect, ReconnectNoStatements, ReconnectFails, ReconnectGivesUp,
       taskVars, callVars, serverVars
  <2> QED
    BY <1>1, <2>1, StaysQuiet DEF MayBeOpen
<1>9. CASE Succeed(c) \/ Fail(c) \/ Deadlocked(c) \/ LockForRetry(c) \/ Retry(c)
  <2>1. /\ pc[c] \in {"returned", "lock"} /\ inTx' = inTx /\ work' = work
        /\ refused' = refused /\ mysql' = mysql
    BY <1>9 DEF Succeed, Fail, Deadlocked, LockForRetry, Retry, Returned, Finish,
       connVars, serverVars
  <2> QED
    BY <1>1, <2>1, StaysQuiet DEF MayBeOpen
<1> QED
  BY <1>f, <1>2, <1>3, <1>4, <1>5, <1>6, <1>7, <1>8, <1>9 DEF Step

\* The sessions are fresh at the start.
LEMMA InitQuiet == Init => QuietInv
  BY NoWorkType DEF Init, QuietInv, QuietOK, Fresh

\* A refused statement is not forgotten.
LEMMA RefusedGrows ==
  ASSUME NEW c \in Conns, Step(c) \/ \E t \in Transactions : Begin(c, t)
  PROVE  refused \subseteq refused'
  BY DEF Step, Begin, BeginTransaction, Execute, QueryFailed, CommitTransaction,
     RollbackTransaction, LoseConnection, Refuse, Reconnect, ReconnectNoStatements,
     ReconnectFails, ReconnectGivesUp, Succeed, Fail, Finish, Deadlocked, LockForRetry, Retry,
     connVars

\* Every step of every connection keeps the sessions quiet.
LEMMA NextQuiet == TypeOK /\ QuietInv /\ [Next]_vars => QuietInv'
<1> SUFFICES ASSUME TypeOK, QuietInv, [Next]_vars PROVE QuietInv'
  OBVIOUS
<1>1. ASSUME NEW c \in Conns, Step(c) \/ \E t \in Transactions : Begin(c, t)
      PROVE  QuietInv'
  <2>1. QuietOK(c)' /\ Others(c) /\ refused \subseteq refused'
    BY <1>1, StepQuiet, StepOthers, RefusedGrows
  <2>2. ASSUME NEW d \in Conns \ {c} PROVE QuietOK(d)'
    BY <2>1, StaysQuiet DEF QuietInv, Others, MayBeOpen
  <2> QED
    BY <2>1, <2>2 DEF QuietInv
<1>2. CASE UNCHANGED vars
  BY <1>2 DEF vars, taskVars, callVars, connVars, serverVars, QuietInv, QuietOK, Fresh,
     MayBeOpen, NoWork
<1> QED
  BY <1>1, <1>2 DEF Next, Stopped

\* A connection that goes back to the pool has no transaction open, for every
\* sequence of errors, lost connections and failed reconnects, except of
\* transactions one of whose own statements was refused.
THEOREM SessionsLeftClean == Spec => []NothingLeftOpen
<1>1. QuietInv => NothingLeftOpen
  BY DEF QuietInv, QuietOK, MayBeOpen, NothingLeftOpen
<1> QED
  BY TypeCorrect, InitQuiet, NextQuiet, <1>1, PTL DEF Spec

------------------------------------------------------------------------------
(* Atomicity, for the transactions whose connection lasts and none of      *)
(* whose own statements is refused.  What the session of c has done for    *)
(* one is what its call has executed; nothing of it is durable until its   *)
(* call has committed; and a transaction without a call is as its result   *)
(* says, or untouched.                                                     *)

FirstQueries(k) == [i \in 1..k |-> i]

Whole(c) ==
    /\ mysql[c] /\ attempts[c] = 0
    /\ pc[c] \in {"query", "commit"} => inTx[c] # None
    /\ pc[c] = "query" => work[c][trans[c]] = FirstQueries(query[c] - 1)
    /\ pc[c] = "commit" => work[c][trans[c]] = Complete(trans[c])
    /\ pc[c] = "rollback" => errorCode[c] # "ok"
    /\ applied[trans[c]] = IF pc[c] = "returned" /\ errorCode[c] = "ok"
                           THEN Complete(trans[c]) ELSE <<>>

AtomicOK(c) ==
    /\ pc[c] \in {"idle", "returned", "lock"} => attempts[c] = 0
    /\ pc[c] # "idle" => result[trans[c]] = None
    /\ pc[c] # "idle" /\ trans[c] \notin Broken => Whole(c)

SettledOK(t) ==
    /\ t \notin Broken =>
         /\ result[t] = "true" => applied[t] = Complete(t)
         /\ result[t] = "false" => applied[t] = <<>>
    /\ result[t] = None /\ (\A c \in Conns : trans[c] # t) =>
         applied[t] = <<>> /\ t \notin refused

OneCall == \A c, d \in Conns : trans[c] # None /\ trans[c] = trans[d] => c = d

AtomicInv ==
    /\ \A c \in Conns : AtomicOK(c)
    /\ \A t \in Transactions : SettledOK(t)
    /\ OneCall

\* The queries executed so far, as the session collects them.
LEMMA QueriesGrow ==
  /\ FirstQueries(0) = <<>>
  /\ \A k \in Nat : Append(FirstQueries(k), k + 1) = FirstQueries(k + 1)
<1>1. FirstQueries(0) = <<>>
  BY DEF FirstQueries
<1>2. ASSUME NEW k \in Nat PROVE Append(FirstQueries(k), k + 1) = FirstQueries(k + 1)
  <2>1. FirstQueries(k) \in Seq(Nat) /\ Len(FirstQueries(k)) = k
    BY DEF FirstQueries
  <2>2. /\ Append(FirstQueries(k), k + 1) \in Seq(Nat)
        /\ Len(Append(FirstQueries(k), k + 1)) = k + 1
        /\ \A i \in 1..(k + 1) : Append(FirstQueries(k), k + 1)[i] = i
    BY <2>1 DEF FirstQueries
  <2>3. /\ FirstQueries(k + 1) \in Seq(Nat) /\ Len(FirstQueries(k + 1)) = k + 1
        /\ \A i \in 1..(k + 1) : FirstQueries(k + 1)[i] = i
    BY DEF FirstQueries
  <2> QED
    BY <2>2, <2>3
<1> QED
  BY <1>1, <1>2

\* The start: nothing has been done.
LEMMA InitAtomic == Init => AtomicInv
<1> SUFFICES ASSUME Init PROVE AtomicInv
  OBVIOUS
<1>1. \A c \in Conns : pc[c] = "idle" /\ trans[c] = None /\ mysql[c] /\ attempts[c] = 0
  BY DEF Init
<1>2. (\A t \in Transactions : result[t] = None /\ applied[t] = <<>>) /\ refused = {}
  BY DEF Init
<1>3. \A c \in Conns : AtomicOK(c)
  BY <1>1 DEF AtomicOK
<1>4. \A t \in Transactions : SettledOK(t)
  BY <1>2 DEF SettledOK, None
<1>5. OneCall
  BY <1>1 DEF OneCall
<1> QED
  BY <1>3, <1>4, <1>5 DEF AtomicInv

\* A step of c inside its call: it may change what is durable of its own
\* transaction and of transactions with a refused statement, and may break its
\* own, and leaves all others alone.
Inside(c) ==
    /\ Others(c) /\ pc[c] # "idle" /\ pc'[c] # "idle"
    /\ trans' = trans /\ result' = result
    /\ \A t \in Transactions \ refused : t # trans[c] => applied'[t] = applied[t]
    /\ cut \subseteq cut' /\ refused \subseteq refused' /\ refused' \subseteq refused \cup {trans[c]}
    /\ pc'[c] \in {"returned", "lock"} => attempts'[c] = 0

\* A commit, asked for or implicit, makes durable what the call has done and
\* what was left open by a transaction with a refused statement.
LEMMA DurableInside ==
  ASSUME TypeOK, QuietInv, NEW c \in Conns, MakeDurable(c)
  PROVE  \A t \in Transactions \ refused : t # trans[c] => applied'[t] = applied[t]
<1>1. \A t \in Transactions \ refused : t # trans[c] => work[c][t] = <<>>
  BY DEF QuietInv, QuietOK
<1> QED
  BY <1>1, DurableType

\* Every step that does not end the call is such a step.
LEMMA StepInside ==
  ASSUME TypeOK, QuietInv, AtomicInv, NEW c \in Conns, Step(c), ~Succeed(c), ~Fail(c)
  PROVE  Inside(c)
<1>1. Others(c) /\ AtomicOK(c) /\ refused \subseteq refused'
  BY StepOthers, RefusedGrows DEF AtomicInv
<1>2. /\ pc \in [Conns -> Where] /\ attempts \in [Conns -> 0..Attempts]
      /\ applied \in [Transactions -> Seq(Nat)] /\ attempts[c] \in Nat
  BY ConnFacts DEF TypeOK
<1>3. ASSUME LoseConnection(c), pc[c] \in {"begin", "query", "commit", "rollback"},
             \A t \in Transactions \ refused : t # trans[c] => applied'[t] = applied[t]
      PROVE  Inside(c)
  BY <1>1, <1>3 DEF Inside, LoseConnection, taskVars, callVars
<1>4. ASSUME pc[c] \in {"begin", "query", "commit", "rollback"}, pc'[c] # "idle", attempts[c] = 0,
             UNCHANGED <<taskVars, attempts, cut>>, refused' \subseteq refused \cup {trans[c]},
             \A t \in Transactions \ refused : t # trans[c] => applied'[t] = applied[t]
      PROVE  Inside(c)
  BY <1>1, <1>4 DEF Inside, taskVars
<1>5. CASE BeginTransaction(c)
  <2>1. /\ pc[c] = "begin" /\ attempts[c] = 0
        /\ UNCHANGED applied \/ MakeDurable(c)
    BY <1>5 DEF BeginTransaction, Executing, OpenTransaction, serverVars
  <2>2. \A t \in Transactions \ refused : t # trans[c] => applied'[t] = applied[t]
    BY <2>1, DurableInside
  <2>3. \/ LoseConnection(c)
        \/ /\ UNCHANGED <<taskVars, attempts, cut>> /\ pc'[c] # "idle"
           /\ refused' \subseteq refused \cup {trans[c]}
    BY <1>2, <1>5 DEF BeginTransaction, Goto, Refuse
  <2> QED
    BY <1>3, <1>4, <2>1, <2>2, <2>3
<1>6. CASE Execute(c)
  <2>1. /\ pc[c] = "query" /\ attempts[c] = 0
        /\ \A t \in Transactions \ refused : t # trans[c] => applied'[t] = applied[t]
    BY <1>2, <1>6 DEF Execute, Executing, Store, serverVars
  <2>2. LoseConnection(c) \/ (UNCHANGED <<taskVars, attempts, cut, refused>> /\ pc'[c] # "idle")
    BY <1>2, <1>6, <2>1 DEF Execute, QueryFailed, Goto, callVars, connVars
  <2> QED
    BY <1>3, <1>4, <2>1, <2>2
<1>7. CASE CommitTransaction(c)
  <2>1. /\ pc[c] = "commit" /\ attempts[c] = 0
        /\ UNCHANGED applied \/ MakeDurable(c)
    BY <1>7 DEF CommitTransaction, Executing, Commit, serverVars
  <2>2. \A t \in Transactions \ refused : t # trans[c] => applied'[t] = applied[t]
    BY <2>1, DurableInside
  <2>3. \/ LoseConnection(c)
        \/ /\ UNCHANGED <<taskVars, attempts, cut>> /\ pc'[c] # "idle"
           /\ refused' \subseteq refused \cup {trans[c]}
    BY <1>2, <1>7 DEF CommitTransaction, Goto, Refuse
  <2> QED
    BY <1>3, <1>4, <2>1, <2>2, <2>3
<1>8. CASE RollbackTransaction(c)
  <2>1. pc[c] = "rollback" /\ attempts[c] = 0 /\ UNCHANGED applied
    BY <1>8 DEF RollbackTransaction, Executing
  <2>2. \/ LoseConnection(c)
        \/ /\ UNCHANGED <<taskVars, attempts, cut>> /\ pc'[c] # "idle"
           /\ refused' \subseteq refused \cup {trans[c]}
    BY <1>2, <1>8 DEF RollbackTransaction, Goto, Refuse
  <2> QED
    BY <1>3, <1>4, <2>1, <2>2
<1>9. CASE Reconnect(c) \/ ReconnectNoStatements(c) \/ ReconnectFails(c) \/ ReconnectGivesUp(c)
  <2>1. attempts[c] # 0 /\ UNCHANGED <<taskVars, callVars, cut, refused, serverVars>>
    BY <1>9 DEF Reconnect, ReconnectNoStatements, ReconnectFails, ReconnectGivesUp
  <2> QED
    BY <1>1, <2>1 DEF Inside, AtomicOK, taskVars, callVars, serverVars
<1>10. CASE Deadlocked(c) \/ LockForRetry(c) \/ Retry(c)
  BY <1>1, <1>2, <1>10 DEF Deadlocked, LockForRetry, Retry, Returned, Goto, Inside, AtomicOK,
     connVars, serverVars
<1> QED
  BY <1>5, <1>6, <1>7, <1>8, <1>9, <1>10 DEF Step

\* Such a step keeps the invariant if it leaves its transaction whole or broken.
LEMMA AtomicFrame ==
  ASSUME TypeOK, CallInv, AtomicInv, NEW c \in Conns, Inside(c),
         trans[c] \in Broken' \/ Whole(c)'
  PROVE  AtomicInv'
<1>0. /\ Others(c) /\ trans' = trans /\ result' = result
      /\ Broken \subseteq Broken' /\ refused' \subseteq refused \cup {trans[c]}
      /\ \A t \in Transactions \ refused : t # trans[c] => applied'[t] = applied[t]
  BY DEF Inside, Broken
<1>b. \A t : t \notin Broken => t \notin refused
  BY DEF Broken
<1>1. OneCall'
  BY <1>0 DEF AtomicInv, OneCall
<1>2. trans[c] \in Transactions /\ trans[c] # None /\ result[trans[c]] = None
  BY ConnFacts, DbTransactionAssumption DEF Inside, AtomicInv, AtomicOK
<1>3. ASSUME NEW d \in Conns PROVE AtomicOK(d)'
  <2>1. CASE d = c
    BY <1>2, <2>1 DEF AtomicOK, Inside
  <2>2. CASE d # c /\ pc[d] = "idle"
    BY <1>0, <2>2 DEF AtomicInv, AtomicOK, Others
  <2>3. CASE d # c /\ pc[d] # "idle"
    <3>1. trans[d] \in Transactions /\ trans[d] # trans[c]
      BY <1>2, <2>3, ConnFacts DEF AtomicInv, OneCall
    <3> QED
      BY <1>0, <1>b, <2>3, <3>1 DEF AtomicInv, AtomicOK, Whole, Others, Complete
  <2> QED
    BY <2>1, <2>2, <2>3
<1>4. ASSUME NEW t \in Transactions PROVE SettledOK(t)'
  <2>1. CASE t = trans[c]
    BY <1>0, <1>2, <2>1 DEF SettledOK, None
  <2>2. CASE t # trans[c]
    BY <1>0, <1>b, <2>2 DEF AtomicInv, SettledOK, Complete
  <2> QED
    BY <2>1, <2>2
<1> QED
  BY <1>1, <1>3, <1>4 DEF AtomicInv

\* A transaction that nobody has been given is untouched.
LEMMA BeginAtomic ==
  ASSUME TypeOK, CallInv, AtomicInv, NEW c \in Conns, NEW t \in Transactions, Begin(c, t)
  PROVE  AtomicInv'
<1>1. /\ pc[c] = "idle" /\ result[t] = None /\ \A d \in Conns : trans[d] # t
      /\ result' = result /\ applied' = applied /\ mysql' = mysql /\ attempts' = attempts
      /\ Broken \subseteq Broken' /\ (t \notin Broken' => mysql[c])
      /\ Others(c) /\ refused' = refused
  BY StepOthers DEF Begin, Broken, serverVars
<1>2. /\ trans'[c] = t /\ pc'[c] \in {"returned", "begin"} /\ errorCode'[c] = "error"
      /\ \A d \in Conns \ {c} : trans'[d] = trans[d]
  BY DEF Begin, Goto, TypeOK
<1>3. applied[t] = <<>>
  BY <1>1 DEF AtomicInv, SettledOK
<1>4. AtomicOK(c)'
  BY <1>1, <1>2, <1>3 DEF AtomicInv, AtomicOK, Whole
<1>5. ASSUME NEW d \in Conns \ {c} PROVE AtomicOK(d)'
  BY <1>1 DEF AtomicInv, AtomicOK, Whole, Others, Complete
<1>6. OneCall'
  BY <1>1, <1>2 DEF AtomicInv, OneCall
<1>7. ASSUME NEW u \in Transactions PROVE SettledOK(u)'
  <2>1. trans[c] = None /\ None # u
    BY <1>1, DbTransactionAssumption DEF CallInv, CallOK
  <2>2. (\A d \in Conns : trans'[d] # u) => \A d \in Conns : trans[d] # u
    BY <1>2, <2>1
  <2> QED
    BY <1>1, <2>2 DEF AtomicInv, SettledOK, Complete
<1> QED
  BY <1>4, <1>5, <1>6, <1>7 DEF AtomicInv

\* The result is recorded when the call has committed, or has rolled back.
LEMMA FinishAtomic ==
  ASSUME TypeOK, CallInv, AtomicInv, NEW c \in Conns, Succeed(c) \/ Fail(c)
  PROVE  AtomicInv'
<1> DEFINE t == trans[c]
<1>1. PICK r \in {"true", "false"} : /\ Finish(c, r)
                                     /\ r = "true" <=> errorCode[c] = "ok"
  BY DEF Succeed, Fail
<1>2. pc[c] = "returned" /\ Others(c)
  BY StepOthers DEF Succeed, Fail, Returned, Step
<1>3. t \in Transactions /\ t # None
  BY <1>2, ConnFacts, DbTransactionAssumption
<1>4. /\ trans'[c] = None /\ pc'[c] = "idle" /\ result'[t] = r
      /\ \A d \in Conns \ {c} : trans'[d] = trans[d]
      /\ \A u \in Transactions \ {t} : result'[u] = result[u]
      /\ applied' = applied /\ mysql' = mysql /\ attempts' = attempts
      /\ Broken' = Broken /\ refused' = refused
  BY <1>1, <1>3 DEF Finish, Goto, TypeOK, Broken, connVars, serverVars
<1>5. AtomicOK(c)'
  BY <1>2, <1>4 DEF AtomicInv, AtomicOK
<1>6. ASSUME NEW d \in Conns \ {c} PROVE AtomicOK(d)'
  <2>1. CASE pc[d] = "idle"
    BY <1>2, <2>1 DEF AtomicInv, AtomicOK, Others
  <2>2. CASE pc[d] # "idle"
    <3>1. trans[d] \in Transactions \ {t}
      BY <1>3, <2>2, ConnFacts DEF AtomicInv, OneCall
    <3> QED
      BY <1>2, <1>4, <2>2, <3>1 DEF AtomicInv, AtomicOK, Whole, Others, Complete
  <2> QED
    BY <2>1, <2>2
<1>7. OneCall'
  BY <1>4 DEF AtomicInv, OneCall
<1>8. ASSUME NEW u \in Transactions PROVE SettledOK(u)'
  <2>1. CASE u = t
    <3>1. t \notin Broken => applied[t] = IF errorCode[c] = "ok" THEN Complete(t) ELSE <<>>
      BY <1>2 DEF AtomicInv, AtomicOK, Whole
    <3> QED
      BY <1>1, <1>4, <2>1, <3>1 DEF SettledOK, Complete, None
  <2>2. CASE u # t
    <3>1. (\A d \in Conns : trans'[d] # u) => \A d \in Conns : trans[d] # u
      BY <1>4, <2>2
    <3> QED
      BY <1>4, <2>2, <3>1 DEF AtomicInv, SettledOK, Complete
  <2> QED
    BY <2>1, <2>2
<1> QED
  BY <1>5, <1>6, <1>7, <1>8 DEF AtomicInv

\* Steps inside a call that does not lose its connection and is not refused:
\* executing, committing, rolling back, trying again.
LEMMA StepWhole ==
  ASSUME TypeOK, CallInv, QuietInv, AtomicInv, NEW c \in Conns, Step(c),
         ~Succeed(c), ~Fail(c), trans[c] \notin Broken'
  PROVE  Whole(c)'
<1> DEFINE t == trans[c]
<1>0. Inside(c)
  BY StepInside
<1>1. /\ Whole(c) /\ QuietOK(c) /\ CallOK(c) /\ ~LoseConnection(c) /\ ~Refuse(c)
      /\ trans' = trans /\ t \in Transactions \ refused /\ Size[t] \in Nat
  BY <1>0, ConnFacts DEF AtomicInv, AtomicOK, QuietInv, CallInv, LoseConnection, Refuse, Inside,
     Broken
<1>2. /\ pc \in [Conns -> Where] /\ query \in [Conns -> Nat]
      /\ errorCode \in [Conns -> {"ok", "deadlock", "error"}]
      /\ inTx \in [Conns -> Transactions \cup {None}] /\ work \in [Conns -> [Transactions -> Seq(Nat)]]
      /\ applied \in [Transactions -> Seq(Nat)] /\ mysql[c] /\ attempts[c] = 0
  BY <1>1 DEF TypeOK, Whole
<1>3. CASE BeginTransaction(c)
  <2>1. /\ pc[c] = "begin" /\ pc'[c] = "query" /\ query'[c] = 1
        /\ OpenTransaction(c) /\ mysql' = mysql /\ attempts' = attempts
    BY <1>1, <1>2, <1>3 DEF BeginTransaction, Executing, Goto
  <2>2. inTx'[c] = t /\ t # None /\ work'[c][t] = FirstQueries(0)
    BY <1>1, <1>2, <2>1, QueriesGrow, NoWorkType, DbTransactionAssumption DEF OpenTransaction
  <2>3. applied'[t] = applied[t]
    BY <1>1, <2>1, DurableType DEF OpenTransaction, QuietOK, MayBeOpen
  <2> QED
    BY <1>1, <2>1, <2>2, <2>3 DEF Whole
<1>4. CASE Execute(c)
  <2>1. /\ pc[c] = "query" /\ inTx[c] # None /\ work[c][t] = FirstQueries(query[c] - 1)
        /\ query[c] \in 1..Size[t] /\ applied[t] = <<>>
    BY <1>1, <1>4 DEF Execute, Executing, Whole, TypeOK
  <2>2. CASE /\ Store(c, t, query[c])
             /\ query' = [query EXCEPT ![c] = @ + 1]
             /\ Goto(c, IF query[c] = Size[t] THEN "commit" ELSE "query")
             /\ UNCHANGED <<errorCode, taskVars, connVars, errors>>
    <3>1. /\ work'[c][t] = Append(work[c][t], query[c]) /\ inTx' = inTx /\ applied' = applied
          /\ query'[c] = query[c] + 1 /\ mysql' = mysql /\ attempts' = attempts
          /\ pc'[c] = IF query[c] = Size[t] THEN "commit" ELSE "query"
      BY <1>1, <1>2, <2>1, <2>2 DEF Store, Goto, connVars
    <3>2. work'[c][t] = FirstQueries(query[c])
      <4>1. query[c] - 1 \in Nat /\ (query[c] - 1) + 1 = query[c]
        BY <2>1
      <4> QED
        BY <2>1, <3>1, <4>1, QueriesGrow
    <3>3. /\ query'[c] - 1 = query[c]
          /\ query[c] = Size[t] => work'[c][t] = Complete(t)
      BY <2>1, <3>1, <3>2 DEF FirstQueries, Complete
    <3> QED
      BY <1>1, <2>1, <3>1, <3>2, <3>3 DEF Whole, Complete
  <2>3. CASE /\ QueryFailed(c, "error") \/ QueryFailed(c, "deadlock")
             /\ applied' = applied
    <3>1. /\ errorCode'[c] \in {"error", "deadlock"} /\ pc'[c] = "rollback"
          /\ mysql' = mysql /\ attempts' = attempts
      BY <1>2, <2>3 DEF QueryFailed, Goto, connVars
    <3> QED
      BY <1>1, <2>1, <2>3, <3>1 DEF Whole
  <2>4. CASE UNCHANGED <<taskVars, callVars, mysql, attempts, cut, refused, inTx, work, applied>>
    BY <1>1, <2>4 DEF taskVars, callVars, Whole, Complete
  <2> QED
    BY <1>1, <1>2, <1>4, <2>2, <2>3, <2>4 DEF Execute
<1>5. CASE CommitTransaction(c)
  <2>1. pc[c] = "commit" /\ work[c][t] = Complete(t) /\ applied[t] = <<>>
    BY <1>1, <1>5 DEF CommitTransaction, Executing, Whole
  <2>2. /\ pc'[c] = "returned" /\ errorCode'[c] = "ok"
        /\ MakeDurable(c) /\ mysql' = mysql /\ attempts' = attempts
    BY <1>1, <1>2, <1>5 DEF CommitTransaction, Commit, Goto
  <2>3. applied'[t] = Complete(t)
    <3>1. <<>> \o work[c][t] = work[c][t]
      BY <1>1, <1>2
    <3> QED
      BY <1>1, <2>1, <2>2, <3>1, DurableType
  <2> QED
    BY <1>1, <2>1, <2>2, <2>3 DEF Whole, Complete
<1>6. CASE RollbackTransaction(c)
  <2>1. /\ pc[c] = "rollback" /\ pc'[c] = "returned" /\ errorCode' = errorCode
        /\ applied' = applied /\ mysql' = mysql /\ attempts' = attempts
    BY <1>1, <1>2, <1>6 DEF RollbackTransaction, Executing, Goto
  <2> QED
    BY <1>1, <2>1 DEF Whole
<1>7. CASE Reconnect(c) \/ ReconnectNoStatements(c) \/ ReconnectFails(c) \/ ReconnectGivesUp(c)
  BY <1>2, <1>7 DEF Reconnect, ReconnectNoStatements, ReconnectFails, ReconnectGivesUp
<1>8. CASE Deadlocked(c) \/ LockForRetry(c) \/ Retry(c)
  <2>1. /\ pc[c] = "lock" \/ (pc[c] = "returned" /\ errorCode[c] # "ok")
        /\ pc'[c] \in {"begin", "lock"} /\ errorCode' = errorCode
        /\ applied' = applied /\ mysql' = mysql /\ attempts' = attempts
    BY <1>2, <1>8 DEF Deadlocked, LockForRetry, Retry, Returned, Goto, connVars, serverVars
  <2> QED
    BY <1>1, <2>1 DEF Whole
<1> QED
  BY <1>3, <1>4, <1>5, <1>6, <1>7, <1>8 DEF Step

\* The invariant holds in every state.
LEMMA AtomicInvariant == Spec => [](TypeOK /\ CallInv /\ QuietInv /\ AtomicInv)
<1>1. Init => TypeOK /\ CallInv /\ QuietInv /\ AtomicInv
  BY InitQuiet, InitCall, InitAtomic
<1>2. TypeOK /\ CallInv /\ QuietInv /\ AtomicInv /\ [Next]_vars => AtomicInv'
  <2> SUFFICES ASSUME TypeOK, CallInv, QuietInv, AtomicInv, [Next]_vars PROVE AtomicInv'
    OBVIOUS
  <2>1. CASE UNCHANGED vars
    BY <2>1 DEF vars, taskVars, callVars, connVars, serverVars,
       AtomicInv, AtomicOK, Whole, SettledOK, OneCall, Broken, Complete
  <2>2. ASSUME NEW c \in Conns, Step(c) PROVE AtomicInv'
    BY <2>2, FinishAtomic, StepInside, StepWhole, AtomicFrame
  <2> QED
    BY <2>1, <2>2, BeginAtomic DEF Next, Stopped
<1>3. TypeOK /\ CallInv /\ QuietInv /\ AtomicInv /\ [Next]_vars
        => (TypeOK /\ CallInv /\ QuietInv /\ AtomicInv)'
  BY <1>2, NextCall, NextQuiet
<1> QED
  BY <1>1, <1>3, PTL DEF Spec

\* A transaction whose connection lasts and none of whose START TRANSACTION,
\* COMMIT and ROLLBACK statements is refused takes effect as a whole or not at
\* all, for any number of connections, retries and errors.
THEOREM TransactionsAtomic == Spec => []AtomicUnlessBroken
<1>1. TypeOK /\ CallInv /\ AtomicInv => AtomicUnlessBroken
  <2> SUFFICES ASSUME TypeOK, CallInv, AtomicInv, NEW t \in Transactions \ Broken
               PROVE  applied[t] \in {<<>>, Complete(t)}
    BY DEF AtomicUnlessBroken
  <2>1. result[t] \in {None, "true", "false"} /\ SettledOK(t)
    BY DEF TypeOK, AtomicInv
  <2>2. CASE \E c \in Conns : trans[c] = t
    <3>1. PICK c \in Conns : trans[c] = t
      BY <2>2
    <3>2. pc[c] # "idle" /\ AtomicOK(c)
      BY <3>1, DbTransactionAssumption DEF CallInv, CallOK, AtomicInv
    <3> QED
      BY <3>1, <3>2 DEF AtomicOK, Whole
  <2>3. CASE \A c \in Conns : trans[c] # t
    BY <2>1, <2>3 DEF SettledOK
  <2> QED
    BY <2>2, <2>3
<1> QED
  BY AtomicInvariant, <1>1, PTL

\* The result of such a transaction is the truth: true means that all of it
\* took effect, and false that none of it did.  (The results of the others need
\* not be: CommitTransaction ignores that COMMIT was refused.)
THEOREM ResultsTruthful == Spec => []TruthfulUnlessBroken
<1>1. AtomicInv => TruthfulUnlessBroken
  BY DEF AtomicInv, SettledOK, TruthfulUnlessBroken
<1> QED
  BY AtomicInvariant, <1>1, PTL

==============================================================================
