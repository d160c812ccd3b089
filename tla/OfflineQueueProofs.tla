--------------------------- MODULE OfflineQueueProofs ---------------------------
(*****************************************************************************)
(* Proofs about OfflineQueue, for any number of clients, any keys and any     *)
(* bound on the tries.                                                       *)
(*****************************************************************************)
EXTENDS OfflineQueue, FiniteSetTheorems, TLAPS

\* What is true of one client's variables at each place of its call.
ClientInv(p) ==
  /\ pc[p] = "idle" => call[p] = NoCall /\ res[p] = "none" /\ got[p] = {}
  /\ pc[p] # "idle" => call[p] \in Calls
  /\ pc[p] = "body" => work[p] = db
  /\ pc[p] = "commit" => /\ call[p].op \in {"push", "pop"}
                         /\ Feasible(call[p], db)
                         /\ work[p] = After(call[p], db)
                         /\ got[p] = Answer(call[p], db)
  /\ pc[p] = "rollback" => res[p] # "none" /\ call[p].op # "push"
  /\ pc[p] = "return" => res[p] # "none"
  /\ pc[p] = "sleep" => call[p].op = "push" /\ res[p] = "error"
  /\ res[p] = "ok" => pc[p] \in {"rollback", "close", "return"}
  /\ call[p].op = "push" => got[p] = {}
  /\ pc[p] \notin {"sleep", "return"} => attempts[p] < MaxRequeueAttempts

IInv == TypeOK /\ OneTransaction /\ \A p \in Clients : ClientInv(p)

\* The shape of a call.
LEMMA CallShape ==
  ASSUME NEW c \in Calls
  PROVE  /\ c.op \in {"push", "pop", "read", "count"}
         /\ c.hh \subseteq Ids \ Unreadable
         /\ c.op # "push" => c.hh = {}
         /\ c.limit \in Nat
<1> Limits \subseteq Nat
  BY CallsAssumption
<1>1. CASE c \in PushCalls
  BY <1>1, CallsAssumption DEF PushCalls
<1>2. CASE c \in PopCalls
  BY <1>2 DEF PopCalls
<1>3. CASE c \in ReadCalls
  BY <1>3 DEF ReadCalls
<1>4. CASE c \in CountCalls
  BY <1>4 DEF CountCalls
<1> QED
  BY <1>1, <1>2, <1>3, <1>4 DEF Calls

\* What the queue does for each call.
LEMMA CallEffect ==
  ASSUME NEW c, NEW S
  PROVE  /\ c.op = "push" => /\ After(c, S) = S \cup c.hh
                             /\ Answer(c, S) = {}
                             /\ Feasible(c, S) <=> c.hh \cap Unstorable = {}
         /\ c.op = "pop" => /\ After(c, S) = S \ Oldest(S, c.limit)
                            /\ Answer(c, S) = Oldest(S, c.limit)
         /\ c.op = "read" => /\ After(c, S) = S
                             /\ Answer(c, S) = Oldest(S, c.limit)
         /\ c.op = "count" => /\ After(c, S) = S
                              /\ Answer(c, S) = S
         /\ c.op \in {"pop", "read"} =>
              (Feasible(c, S) <=> /\ c.hh \cap Unstorable = {}
                                  /\ Oldest(S, c.limit) \cap Unreadable = {})
         /\ c.op = "count" => (Feasible(c, S) <=> c.hh \cap Unstorable = {})
  BY DEF After, Answer, Feasible

\* A batch comes from the queue.
LEMMA OldestSubset == \A S, n : Oldest(S, n) \subseteq S
  BY DEF Oldest

\* The initial state satisfies the inductive invariant.
LEMMA InitInv == Init => IInv
<1> SUFFICES ASSUME Init PROVE IInv
  OBVIOUS
<1>1. TypeOK
  BY AttemptsAssumption DEF Init, TypeOK, Places, InTransaction
<1>2. OneTransaction
  BY ClientsAssumption DEF Init, OneTransaction, InTransaction
<1>3. ASSUME NEW p \in Clients PROVE ClientInv(p)
  BY AttemptsAssumption DEF Init, ClientInv, NoCall
<1> QED
  BY <1>1, <1>2, <1>3 DEF IInv

\* A client whose variables a step leaves alone keeps its invariant when the
\* step commits nothing.
LEMMA Frame ==
  ASSUME NEW q \in Clients, ClientInv(q), db' = db,
         pc'[q] = pc[q], call'[q] = call[q], work'[q] = work[q],
         got'[q] = got[q], res'[q] = res[q], attempts'[q] = attempts[q]
  PROVE  ClientInv(q)'
  BY DEF ClientInv

\* A call begins.
LEMMA InvokeInv ==
  ASSUME IInv, NEW p \in Clients, NEW c \in Calls, Invoke(p, c)
  PROVE  IInv'
<1> USE DEF IInv
<1>1. TypeOK'
  BY CallShape
  DEF Invoke, Goto, TypeOK, Places, InTransaction, ClientInv
<1>2. OneTransaction'
  BY ClientsAssumption DEF Invoke, Goto, TypeOK, OneTransaction, InTransaction
<1>3. ClientInv(p)'
  BY CallShape DEF Invoke, Goto, TypeOK, ClientInv
<1>4. ASSUME NEW q \in Clients, q # p PROVE ClientInv(q)'
  BY <1>4, Frame DEF Invoke, Goto, TypeOK
<1> QED
  BY <1>1, <1>2, <1>3, <1>4

\* A try to open the file fails.
LEMMA GiveUpInv ==
  ASSUME IInv, NEW p \in Clients, OpenTimeout(p) \/ OpenError(p)
  PROVE  IInv'
<1> USE DEF IInv
<1>1. TypeOK'
  BY CallShape, AttemptsAssumption
  DEF OpenTimeout, OpenError, GiveUpTry, Outcome, Goto, TypeOK, Places, InTransaction, ClientInv
<1>2. OneTransaction'
  BY ClientsAssumption DEF OpenTimeout, OpenError, GiveUpTry, Outcome, Goto, TypeOK, OneTransaction, InTransaction
<1>3. ClientInv(p)'
  BY CallShape, AttemptsAssumption DEF OpenTimeout, OpenError, GiveUpTry, Outcome, Goto, TypeOK, ClientInv
<1>4. ASSUME NEW q \in Clients, q # p PROVE ClientInv(q)'
  BY <1>4, Frame DEF OpenTimeout, OpenError, GiveUpTry, Outcome, Goto, TypeOK
<1> QED
  BY <1>1, <1>2, <1>3, <1>4

\* The file lock is taken.
LEMMA OpenInv ==
  ASSUME IInv, NEW p \in Clients, OpenDB(p)
  PROVE  IInv'
<1> USE DEF IInv
<1>1. TypeOK'
  BY CallShape
  DEF OpenDB, Goto, TypeOK, Places, InTransaction, ClientInv
<1>2. OneTransaction'
  BY ClientsAssumption DEF OpenDB, Goto, TypeOK, OneTransaction, InTransaction
<1>3. ClientInv(p)'
  BY CallShape DEF OpenDB, Goto, TypeOK, ClientInv
<1>4. ASSUME NEW q \in Clients, q # p PROVE ClientInv(q)'
  BY <1>4, Frame DEF OpenDB, Goto, TypeOK
<1> QED
  BY <1>1, <1>2, <1>3, <1>4

\* The transaction begins.
LEMMA BeginInv ==
  ASSUME IInv, NEW p \in Clients, Begin(p)
  PROVE  IInv'
<1> USE DEF IInv
<1>1. TypeOK'
  BY CallShape, ValuesAssumption
  DEF Begin, Goto, TypeOK, Places, InTransaction, ClientInv
<1>2. OneTransaction'
  BY ClientsAssumption DEF Begin, Goto, TypeOK, OneTransaction, InTransaction
<1>3. ClientInv(p)'
  BY CallShape, ValuesAssumption DEF Begin, Goto, TypeOK, ClientInv
<1>4. ASSUME NEW q \in Clients, q # p PROVE ClientInv(q)'
  BY <1>4, Frame DEF Begin, Goto, TypeOK
<1> QED
  BY <1>1, <1>2, <1>3, <1>4

\* The transaction is rolled back.
LEMMA RollbackInv ==
  ASSUME IInv, NEW p \in Clients, Rollback(p)
  PROVE  IInv'
<1> USE DEF IInv
<1>1. TypeOK'
  BY CallShape
  DEF Rollback, Goto, TypeOK, Places, InTransaction, ClientInv
<1>2. OneTransaction'
  BY ClientsAssumption DEF Rollback, Goto, TypeOK, OneTransaction, InTransaction
<1>3. ClientInv(p)'
  BY CallShape DEF Rollback, Goto, TypeOK, ClientInv
<1>4. ASSUME NEW q \in Clients, q # p PROVE ClientInv(q)'
  BY <1>4, Frame DEF Rollback, Goto, TypeOK
<1> QED
  BY <1>1, <1>2, <1>3, <1>4

\* A push works on its transaction, or hangs.
LEMMA PushInv ==
  ASSUME IInv, NEW p \in Clients, PushMany(p)
  PROVE  IInv'
<1> USE DEF IInv
<1>1. TypeOK'
  BY CallShape
  DEF PushMany, Goto, TypeOK, Places, InTransaction, ClientInv
<1>2. OneTransaction'
  BY ClientsAssumption DEF PushMany, Goto, TypeOK, OneTransaction, InTransaction
<1>3. ClientInv(p)'
  <2>1. /\ pc[p] = "body" /\ work[p] = db /\ got[p] = {}
        /\ call[p] \in Calls /\ call[p].op = "push" /\ res[p] # "ok"
        /\ attempts[p] < MaxRequeueAttempts
    BY DEF PushMany, ClientInv
  <2>2. UNCHANGED <<db, call, got, res, attempts>>
    BY DEF PushMany
  <2>3. CASE pc'[p] = "commit"
    <3>1. call[p].hh \cap Unstorable = {} /\ work'[p] = db \cup call[p].hh
      BY <2>1, <2>3 DEF PushMany, Goto, TypeOK
    <3>2. /\ Feasible(call[p], db)
          /\ work'[p] = After(call[p], db)
          /\ got[p] = Answer(call[p], db)
      BY <2>1, <3>1, CallEffect
    <3> QED
      BY <2>1, <2>2, <2>3, <3>2 DEF ClientInv
  <2>4. CASE pc'[p] = "hung"
    BY <2>1, <2>2, <2>4 DEF ClientInv
  <2> QED
    BY <2>3, <2>4 DEF PushMany, Goto, TypeOK
<1>4. ASSUME NEW q \in Clients, q # p PROVE ClientInv(q)'
  BY <1>4, Frame DEF PushMany, Goto, TypeOK
<1> QED
  BY <1>1, <1>2, <1>3, <1>4

\* A pop works on its transaction.
LEMMA PopInv ==
  ASSUME IInv, NEW p \in Clients, PopMany(p)
  PROVE  IInv'
<1> USE DEF IInv
<1>1. TypeOK'
  BY CallShape, OldestSubset
  DEF PopMany, Outcome, Goto, TypeOK, Places, InTransaction, ClientInv
<1>2. OneTransaction'
  BY ClientsAssumption DEF PopMany, Outcome, Goto, TypeOK, OneTransaction, InTransaction
<1>3. ClientInv(p)'
  <2>1. /\ pc[p] = "body" /\ work[p] = db
        /\ call[p] \in Calls /\ call[p].op = "pop" /\ res[p] # "ok"
        /\ attempts[p] < MaxRequeueAttempts
    BY DEF PopMany, ClientInv
  <2>2. UNCHANGED <<db, call, attempts>>
    BY DEF PopMany
  <2> DEFINE hh == Oldest(db, call[p].limit)
  <2>3. CASE pc'[p] = "commit"
    <3>1. hh \cap Unreadable = {} /\ work'[p] = db \ hh /\ got'[p] = hh /\ res' = res
      BY <2>1, <2>3 DEF PopMany, Goto, TypeOK
    <3>2. /\ Feasible(call[p], db)
          /\ work'[p] = After(call[p], db)
          /\ got'[p] = Answer(call[p], db)
      BY <2>1, <3>1, CallEffect, CallShape
    <3> QED
      BY <2>1, <2>2, <2>3, <3>1, <3>2 DEF ClientInv
  <2>4. CASE pc'[p] = "rollback"
    <3>1. res'[p] = "error"
      BY <2>1, <2>4 DEF PopMany, Goto, Outcome, TypeOK
    <3> QED
      BY <2>1, <2>2, <2>4, <3>1 DEF ClientInv
  <2> QED
    BY <2>3, <2>4 DEF PopMany, Goto, TypeOK
<1>4. ASSUME NEW q \in Clients, q # p PROVE ClientInv(q)'
  BY <1>4, Frame DEF PopMany, Outcome, Goto, TypeOK
<1> QED
  BY <1>1, <1>2, <1>3, <1>4

\* A read-only call works on its transaction.
LEMMA LookInv ==
  ASSUME IInv, NEW p \in Clients, ReadMany(p) \/ Count(p)
  PROVE  IInv'
<1> USE DEF IInv
<1>1. TypeOK'
  BY CallShape, OldestSubset
  DEF ReadMany, Count, Outcome, Goto, TypeOK, Places, InTransaction, ClientInv
<1>2. OneTransaction'
  BY ClientsAssumption DEF ReadMany, Count, Outcome, Goto, TypeOK, OneTransaction, InTransaction
<1>3. ClientInv(p)'
  BY CallShape, OldestSubset DEF ReadMany, Count, Outcome, Goto, TypeOK, ClientInv
<1>4. ASSUME NEW q \in Clients, q # p PROVE ClientInv(q)'
  BY <1>4, Frame DEF ReadMany, Count, Outcome, Goto, TypeOK
<1> QED
  BY <1>1, <1>2, <1>3, <1>4

\* A commit fails.
LEMMA CommitErrorInv ==
  ASSUME IInv, NEW p \in Clients, CommitError(p)
  PROVE  IInv'
<1> USE DEF IInv
<1>1. TypeOK'
  BY CallShape
  DEF CommitError, Outcome, Goto, TypeOK, Places, InTransaction, ClientInv
<1>2. OneTransaction'
  BY ClientsAssumption DEF CommitError, Outcome, Goto, TypeOK, OneTransaction, InTransaction
<1>3. ClientInv(p)'
  BY CallShape DEF CommitError, Outcome, Goto, TypeOK, ClientInv
<1>4. ASSUME NEW q \in Clients, q # p PROVE ClientInv(q)'
  BY <1>4, Frame DEF CommitError, Outcome, Goto, TypeOK
<1> QED
  BY <1>1, <1>2, <1>3, <1>4

\* A commit succeeds.
LEMMA CommitInv ==
  ASSUME IInv, NEW p \in Clients, Commit(p)
  PROVE  IInv'
<1> USE DEF IInv
<1>1. TypeOK'
  <2>1. work[p] \subseteq Ids \ Unstorable
    BY CallShape, CallEffect, OldestSubset DEF Commit, TypeOK, ClientInv
  <2> QED
    BY <2>1 DEF Commit, Outcome, Goto, TypeOK, Places, InTransaction
<1>2. OneTransaction'
  BY ClientsAssumption DEF Commit, Outcome, Goto, TypeOK, OneTransaction, InTransaction
<1>3. ClientInv(p)'
  BY CallShape DEF Commit, Outcome, Goto, TypeOK, ClientInv
<1>4. ASSUME NEW q \in Clients, q # p PROVE ClientInv(q)'
  <2>1. pc[q] \notin {"body", "commit"}
    BY <1>4 DEF Commit, TypeOK, OneTransaction, InTransaction
  <2> QED
    BY <1>4, <2>1 DEF Commit, Outcome, Goto, TypeOK, ClientInv
<1> QED
  BY <1>1, <1>2, <1>3, <1>4

\* The file lock is given back.
LEMMA CloseInv ==
  ASSUME IInv, NEW p \in Clients, CloseDB(p)
  PROVE  IInv'
<1> USE DEF IInv
<1>1. TypeOK'
  BY CallShape, AttemptsAssumption
  DEF CloseDB, GiveUpTry, Outcome, Goto, TypeOK, Places, InTransaction, ClientInv
<1>2. OneTransaction'
  BY ClientsAssumption DEF CloseDB, GiveUpTry, Outcome, Goto, TypeOK, OneTransaction, InTransaction
<1>3. ClientInv(p)'
  BY CallShape, AttemptsAssumption DEF CloseDB, GiveUpTry, Outcome, Goto, TypeOK, ClientInv
<1>4. ASSUME NEW q \in Clients, q # p PROVE ClientInv(q)'
  BY <1>4, Frame DEF CloseDB, GiveUpTry, Outcome, Goto, TypeOK
<1> QED
  BY <1>1, <1>2, <1>3, <1>4

\* The next try of a push.
LEMMA WakeInv ==
  ASSUME IInv, NEW p \in Clients, Wake(p)
  PROVE  IInv'
<1> USE DEF IInv
<1>1. TypeOK'
  BY CallShape, AttemptsAssumption
  DEF Wake, Goto, TypeOK, Places, InTransaction, ClientInv
<1>2. OneTransaction'
  BY ClientsAssumption DEF Wake, Goto, TypeOK, OneTransaction, InTransaction
<1>3. ClientInv(p)'
  BY CallShape, AttemptsAssumption DEF Wake, Goto, TypeOK, ClientInv
<1>4. ASSUME NEW q \in Clients, q # p PROVE ClientInv(q)'
  BY <1>4, Frame DEF Wake, Goto, TypeOK
<1> QED
  BY <1>1, <1>2, <1>3, <1>4

\* A call returns or its process dies.
LEMMA LeaveInv ==
  ASSUME IInv, NEW p \in Clients, Return(p) \/ Crash(p)
  PROVE  IInv'
<1> USE DEF IInv
<1>1. TypeOK'
  BY CallShape, AttemptsAssumption
  DEF Return, Crash, Forget, Outcome, Goto, TypeOK, Places, InTransaction, ClientInv
<1>2. OneTransaction'
  BY ClientsAssumption DEF Return, Crash, Forget, Outcome, Goto, TypeOK, OneTransaction, InTransaction
<1>3. ClientInv(p)'
  BY CallShape, AttemptsAssumption DEF Return, Crash, Forget, Outcome, Goto, TypeOK, ClientInv
<1>4. ASSUME NEW q \in Clients, q # p PROVE ClientInv(q)'
  BY <1>4, Frame DEF Return, Crash, Forget, Outcome, Goto, TypeOK
<1> QED
  BY <1>1, <1>2, <1>3, <1>4

\* Every step keeps the inductive invariant.
LEMMA StepInv == IInv /\ [Next]_vars => IInv'
<1> SUFFICES ASSUME IInv, [Next]_vars PROVE IInv'
  OBVIOUS
<1>1. CASE UNCHANGED vars
  BY <1>1 DEF vars, IInv, TypeOK, OneTransaction, ClientInv
<1>2. ASSUME NEW p \in Clients, NEW c \in Calls, Invoke(p, c) PROVE IInv'
  BY <1>2, InvokeInv
<1>3. ASSUME NEW p \in Clients, Step(p) PROVE IInv'
  BY <1>3, OpenInv, GiveUpInv, BeginInv, PushInv, PopInv, LookInv, CommitInv,
     RollbackInv, CloseInv, WakeInv, LeaveInv DEF Step
<1>4. ASSUME NEW p \in Clients, OpenError(p) \/ CommitError(p) \/ Crash(p)
      PROVE  IInv'
  BY <1>4, GiveUpInv, CommitErrorInv, LeaveInv
<1> QED
  BY <1>1, <1>2, <1>3, <1>4 DEF Next

\* The inductive invariant holds in every reachable state.
LEMMA Invariant == Spec => []IInv
  BY InitInv, StepInv, PTL DEF Spec

--------------------------------------------------------------------------------

\* The variables keep the types of the Go values they stand for.
THEOREM TypeCorrect == Spec => []TypeOK
<1>1. IInv => TypeOK
  BY DEF IInv
<1> QED
  BY <1>1, Invariant, PTL

\* Only the holder of the file lock has a transaction open.
THEOREM MutualExclusion == Spec => []OneTransaction
<1>1. IInv => OneTransaction
  BY DEF IInv
<1> QED
  BY <1>1, Invariant, PTL

\* No commit overwrites what another opener committed since it began.
THEOREM NoUpdateIsLost == Spec => []NoLostUpdate
<1>1. IInv => NoLostUpdate
  BY DEF IInv, ClientInv, NoLostUpdate
<1> QED
  BY <1>1, Invariant, PTL

--------------------------------------------------------------------------------

\* The phase a client is in, from its place and its result.
LEMMA PhaseFacts ==
  ASSUME IInv, NEW p \in Clients
  PROVE  /\ pc[p] = "idle" => PhaseOf(p) = "idle"
         /\ pc[p] # "idle" /\ res[p] = "ok" => PhaseOf(p) = "done"
         /\ pc[p] = "return" /\ res[p] # "ok" => PhaseOf(p) = "failed"
         /\ pc[p] \notin {"idle", "return"} /\ res[p] # "ok" => PhaseOf(p) = "pending"
  BY DEF PhaseOf, IInv, ClientInv

\* A step of one client changes the phase and the answer of that client only.
LEMMA OneClient ==
  ASSUME NEW p \in Clients,
         \A q \in Clients \ {p} : pc'[q] = pc[q] /\ res'[q] = res[q] /\ got'[q] = got[q]
  PROVE  /\ phaseBar' = [phaseBar EXCEPT ![p] = PhaseOf(p)']
         /\ gotBar' = [gotBar EXCEPT ![p] = GotOf(p)']
<1>1. \A q \in Clients \ {p} : PhaseOf(q)' = PhaseOf(q) /\ GotOf(q)' = GotOf(q)
  BY DEF PhaseOf, GotOf
<1> QED
  BY <1>1 DEF phaseBar, gotBar

\* A step that changes neither the stored keys, nor the call, nor the phase, nor
\* the answer of its client is invisible to the callers.
LEMMA Stutter ==
  ASSUME NEW p \in Clients, UNCHANGED <<db, call>>,
         \A q \in Clients \ {p} : pc'[q] = pc[q] /\ res'[q] = res[q] /\ got'[q] = got[q],
         PhaseOf(p)' = PhaseOf(p), GotOf(p)' = GotOf(p)
  PROVE  UNCHANGED Abstract!vars
<1>1. phaseBar' = phaseBar /\ gotBar' = gotBar
  BY OneClient DEF phaseBar, gotBar
<1> QED
  BY <1>1 DEF Abstract!vars

\* A step to the phase failed is the abstract failure of the call.
LEMMA Fails ==
  ASSUME NEW p \in Clients, UNCHANGED <<db, call>>,
         \A q \in Clients \ {p} : pc'[q] = pc[q] /\ res'[q] = res[q] /\ got'[q] = got[q],
         PhaseOf(p) = "pending", PhaseOf(p)' = "failed", GotOf(p)' = GotOf(p)
  PROVE  Abstract!Fail(p)
<1>1. phaseBar' = [phaseBar EXCEPT ![p] = "failed"] /\ gotBar' = gotBar
  BY OneClient DEF phaseBar, gotBar
<1>2. phaseBar[p] = "pending"
  BY DEF phaseBar
<1> QED
  BY <1>1, <1>2 DEF Abstract!Fail

\* The steps the callers do not see.
LEMMA QuietStep ==
  ASSUME IInv, IInv', NEW p \in Clients,
         \/ OpenDB(p) \/ Begin(p) \/ PushMany(p) \/ PopMany(p) \/ CommitError(p)
         \/ Rollback(p)
  PROVE  UNCHANGED Abstract!vars
<1>1. /\ pc[p] \notin {"idle", "return"} /\ pc'[p] \notin {"idle", "return"}
      /\ (res[p] = "ok") = (res'[p] = "ok")
      /\ res[p] = "ok" => got'[p] = got[p]
  BY DEF OpenDB, Begin, PushMany, PopMany, CommitError, Rollback, Goto, Outcome, IInv,
         TypeOK, ClientInv
<1>2. PhaseOf(p)' = PhaseOf(p) /\ GotOf(p)' = GotOf(p)
  BY <1>1 DEF PhaseOf, GotOf
<1>3. /\ UNCHANGED <<db, call>>
      /\ \A q \in Clients \ {p} : pc'[q] = pc[q] /\ res'[q] = res[q] /\ got'[q] = got[q]
  BY DEF OpenDB, Begin, PushMany, PopMany, CommitError, Rollback, Goto, Outcome, IInv,
         TypeOK
<1> QED
  BY <1>2, <1>3, Stutter

\* A try that fails is a failed call, or leaves a push pending.
LEMMA FailedTry ==
  ASSUME IInv, NEW p \in Clients, GiveUpTry(p), UNCHANGED <<db, call, got>>,
         pc[p] \in {"open", "close"}, res[p] # "ok"
  PROVE  Abstract!Fail(p) \/ UNCHANGED Abstract!vars
<1>1. \A q \in Clients \ {p} : pc'[q] = pc[q] /\ res'[q] = res[q] /\ got'[q] = got[q]
  BY DEF GiveUpTry, Goto, Outcome, IInv, TypeOK
<1>2. PhaseOf(p) = "pending" /\ GotOf(p) = {}
  BY DEF PhaseOf, GotOf
<1>3. res'[p] = "error" /\ pc'[p] \in {"sleep", "return"}
  BY DEF GiveUpTry, Goto, Outcome, IInv, TypeOK
<1>4. GotOf(p)' = {}
  BY <1>3 DEF GotOf
<1>5. CASE pc'[p] = "sleep"
  <2>1. PhaseOf(p)' = "pending"
    BY <1>3, <1>5 DEF PhaseOf
  <2> QED
    BY <1>1, <1>2, <1>4, <2>1, Stutter
<1>6. CASE pc'[p] = "return"
  <2>1. PhaseOf(p)' = "failed"
    BY <1>3, <1>6 DEF PhaseOf
  <2> QED
    BY <1>1, <1>2, <1>4, <2>1, Fails
<1> QED
  BY <1>3, <1>5, <1>6

\* Both modules mean the same by the first keys of the queue.
LEMMA SameOldest == \A S, n : Abstract!Oldest(S, n) = Oldest(S, n)
<1>1. \A T : Abstract!Cardinality(T) = Cardinality(T)
  BY Zenon DEF Abstract!Cardinality, Cardinality, Abstract!IsFiniteSet, IsFiniteSet
<1> QED
  BY <1>1 DEF Abstract!Oldest, Oldest

\* A call takes effect when it commits, or when a read-only call has read.
LEMMA EffectStep ==
  ASSUME IInv, NEW p \in Clients, pc[p] # "idle", res[p] # "ok", pc[p] # "return",
         pc'[p] # "idle", res'[p] = "ok", UNCHANGED call,
         \A q \in Clients \ {p} : pc'[q] = pc[q] /\ res'[q] = res[q] /\ got'[q] = got[q],
         Feasible(call[p], db), db' = After(call[p], db), got'[p] = Answer(call[p], db)
  PROVE  Abstract!TakeEffect(p)
<1>1. PhaseOf(p) = "pending" /\ PhaseOf(p)' = "done" /\ GotOf(p)' = got'[p]
  BY DEF PhaseOf, GotOf
<1>2. /\ phaseBar[p] = "pending"
      /\ phaseBar' = [phaseBar EXCEPT ![p] = "done"]
      /\ gotBar' = [gotBar EXCEPT ![p] = got'[p]]
  BY <1>1, OneClient DEF phaseBar
<1>3. /\ Abstract!Feasible(call[p], db)
      /\ db' = Abstract!After(call[p], db)
      /\ got'[p] = Abstract!Answer(call[p], db)
  BY SameOldest DEF Abstract!Feasible, Abstract!After, Abstract!Answer, Feasible, After, Answer
<1> QED
  BY <1>2, <1>3 DEF Abstract!TakeEffect

\* A commit is the effect of its call.
LEMMA CommitStep ==
  ASSUME IInv, NEW p \in Clients, Commit(p)
  PROVE  Abstract!TakeEffect(p)
  BY EffectStep DEF Commit, Goto, Outcome, IInv, TypeOK, ClientInv

\* A read-only call takes effect when it has read, though its transaction is
\* rolled back afterwards.
LEMMA LookStep ==
  ASSUME IInv, NEW p \in Clients, ReadMany(p) \/ Count(p)
  PROVE  Abstract!TakeEffect(p) \/ UNCHANGED Abstract!vars
<1>1. /\ pc[p] = "body" /\ pc'[p] = "rollback" /\ res[p] # "ok" /\ work[p] = db
      /\ UNCHANGED <<db, call>>
      /\ call[p] \in Calls /\ call[p].op \in {"read", "count"}
      /\ \A q \in Clients \ {p} : pc'[q] = pc[q] /\ res'[q] = res[q] /\ got'[q] = got[q]
  BY DEF ReadMany, Count, Goto, Outcome, IInv, TypeOK, ClientInv
<1>2. CASE res'[p] = "ok"
  <2>1. CASE call[p].op = "read"
    <3>1. /\ Oldest(db, call[p].limit) \cap Unreadable = {}
          /\ got'[p] = Oldest(db, call[p].limit)
      BY <1>1, <1>2, <2>1 DEF ReadMany, Count, Outcome, IInv, TypeOK
    <3> QED
      BY <1>1, <1>2, <2>1, <3>1, CallShape, CallEffect, EffectStep
  <2>2. CASE call[p].op = "count"
    <3>1. got'[p] = db
      BY <1>1, <2>2 DEF ReadMany, Count, IInv, TypeOK
    <3> QED
      BY <1>1, <1>2, <2>2, <3>1, CallShape, CallEffect, EffectStep
  <2> QED
    BY <1>1, <2>1, <2>2
<1>3. CASE res'[p] # "ok"
  <2>1. PhaseOf(p)' = PhaseOf(p) /\ GotOf(p)' = GotOf(p)
    BY <1>1, <1>3 DEF PhaseOf, GotOf
  <2> QED
    BY <1>1, <2>1, Stutter
<1> QED
  BY <1>2, <1>3

\* Closing the file is seen by the callers only when it ends a failed call.
LEMMA CloseStep ==
  ASSUME IInv, NEW p \in Clients, CloseDB(p)
  PROVE  Abstract!Fail(p) \/ UNCHANGED Abstract!vars
<1>1. CASE res[p] = "ok"
  <2>1. pc[p] = "close" /\ pc'[p] = "return" /\ UNCHANGED <<db, call, got, res>>
    BY <1>1 DEF CloseDB, Goto, IInv, TypeOK
  <2>2. PhaseOf(p)' = PhaseOf(p) /\ GotOf(p)' = GotOf(p)
    BY <1>1, <2>1 DEF PhaseOf, GotOf
  <2>3. \A q \in Clients \ {p} : pc'[q] = pc[q]
    BY <1>1 DEF CloseDB, Goto, IInv, TypeOK
  <2> QED
    BY <2>1, <2>2, <2>3, Stutter
<1>2. CASE res[p] # "ok"
  BY <1>2, FailedTry DEF CloseDB
<1> QED
  BY <1>1, <1>2

\* A push fails for good when it wakes up for the last time.
LEMMA WakeStep ==
  ASSUME IInv, NEW p \in Clients, Wake(p)
  PROVE  Abstract!Fail(p) \/ UNCHANGED Abstract!vars
<1>1. /\ pc[p] = "sleep" /\ res[p] = "error" /\ UNCHANGED <<db, call, got, res>>
      /\ pc'[p] \in {"return", "open"}
      /\ \A q \in Clients \ {p} : pc'[q] = pc[q]
  BY DEF Wake, Goto, IInv, TypeOK, ClientInv
<1>2. PhaseOf(p) = "pending" /\ GotOf(p)' = GotOf(p)
  BY <1>1 DEF PhaseOf, GotOf
<1>3. CASE pc'[p] = "return"
  <2>1. PhaseOf(p)' = "failed"
    BY <1>1, <1>3 DEF PhaseOf
  <2> QED
    BY <1>1, <1>2, <2>1, Fails
<1>4. CASE pc'[p] = "open"
  <2>1. PhaseOf(p)' = "pending"
    BY <1>1, <1>4 DEF PhaseOf
  <2> QED
    BY <1>1, <1>2, <2>1, Stutter
<1> QED
  BY <1>1, <1>3, <1>4

\* A call begins in both queues at once.
LEMMA InvokeStep ==
  ASSUME IInv, NEW p \in Clients, NEW c \in Calls, Invoke(p, c)
  PROVE  Abstract!Invoke(p, c)
<1>1. /\ pc[p] = "idle" /\ pc'[p] = "open" /\ res[p] = "none"
      /\ UNCHANGED <<db, got, res>> /\ call' = [call EXCEPT ![p] = c]
      /\ \A q \in Clients \ {p} : pc'[q] = pc[q]
  BY DEF Invoke, Goto, IInv, TypeOK, ClientInv
<1>2. /\ PhaseOf(p) = "idle" /\ PhaseOf(p)' = "pending"
      /\ GotOf(p)' = GotOf(p)
  BY <1>1 DEF PhaseOf, GotOf
<1>3. /\ phaseBar[p] = "idle" /\ phaseBar' = [phaseBar EXCEPT ![p] = "pending"]
      /\ gotBar' = gotBar
  BY <1>1, <1>2, OneClient DEF phaseBar, gotBar
<1> QED
  BY <1>1, <1>3 DEF Abstract!Invoke

\* A call ends in both queues at once.
LEMMA LeaveStep ==
  ASSUME IInv, NEW p \in Clients, Return(p) \/ Crash(p)
  PROVE  Abstract!Leave(p)
<1>1. /\ pc[p] # "idle" /\ pc'[p] = "idle" /\ res'[p] = "none" /\ UNCHANGED db
      /\ call' = [call EXCEPT ![p] = NoCall]
      /\ \A q \in Clients \ {p} : pc'[q] = pc[q] /\ res'[q] = res[q] /\ got'[q] = got[q]
  BY DEF Return, Crash, Forget, Goto, Outcome, IInv, TypeOK
<1>2. PhaseOf(p) # "idle" /\ PhaseOf(p)' = "idle" /\ GotOf(p)' = {}
  BY <1>1 DEF PhaseOf, GotOf
<1>3. /\ phaseBar[p] # "idle" /\ phaseBar' = [phaseBar EXCEPT ![p] = "idle"]
      /\ gotBar' = [gotBar EXCEPT ![p] = {}]
  BY <1>1, <1>2, OneClient DEF phaseBar
<1> QED
  BY <1>1, <1>3 DEF Abstract!Leave, Abstract!NoCall, NoCall

\* The initial states of the file are those of the abstract queue.
LEMMA InitRefines == Init => Abstract!Init
<1> SUFFICES ASSUME Init PROVE Abstract!Init
  OBVIOUS
<1>1. \A p \in Clients : PhaseOf(p) = "idle" /\ GotOf(p) = {}
  BY DEF Init, PhaseOf, GotOf
<1>2. phaseBar = [p \in Clients |-> "idle"] /\ gotBar = [p \in Clients |-> {}]
  BY <1>1 DEF phaseBar, gotBar
<1> QED
  BY <1>2 DEF Init, Abstract!Init, Abstract!NoCall, NoCall

\* Every step on the file is a step of the abstract queue, or invisible.
LEMMA NextRefines ==
  IInv /\ IInv' /\ [Next]_vars => [Abstract!Next]_(Abstract!vars)
<1> SUFFICES ASSUME IInv, IInv', [Next]_vars
             PROVE  Abstract!Next \/ UNCHANGED Abstract!vars
  OBVIOUS
<1>1. CASE UNCHANGED vars
  BY <1>1 DEF vars, Abstract!vars, phaseBar, gotBar, PhaseOf, GotOf
<1>2. ASSUME NEW p \in Clients, NEW c \in Calls, Invoke(p, c) PROVE Abstract!Next
  <2>1. c \in Abstract!Calls
    BY DEF Calls, PushCalls, PopCalls, ReadCalls, CountCalls, Abstract!Calls,
           Abstract!PushCalls, Abstract!PopCalls, Abstract!ReadCalls, Abstract!CountCalls
  <2> QED
    BY <1>2, <2>1, InvokeStep DEF Abstract!Next
<1>3. ASSUME NEW p \in Clients,
             OpenDB(p) \/ Begin(p) \/ PushMany(p) \/ PopMany(p) \/ CommitError(p) \/ Rollback(p)
      PROVE  UNCHANGED Abstract!vars
  BY <1>3, QuietStep
<1>4. ASSUME NEW p \in Clients, OpenTimeout(p) \/ OpenError(p)
      PROVE  Abstract!Next \/ UNCHANGED Abstract!vars
  <2>1. /\ GiveUpTry(p) /\ UNCHANGED <<db, call, got>>
        /\ pc[p] = "open" /\ res[p] # "ok"
    BY <1>4 DEF OpenTimeout, OpenError, IInv, ClientInv
  <2> QED
    BY <2>1, FailedTry DEF Abstract!Next
<1>5. ASSUME NEW p \in Clients, ReadMany(p) \/ Count(p) \/ Commit(p)
      PROVE  Abstract!Next \/ UNCHANGED Abstract!vars
  BY <1>5, LookStep, CommitStep DEF Abstract!Next
<1>6. ASSUME NEW p \in Clients, CloseDB(p) \/ Wake(p)
      PROVE  Abstract!Next \/ UNCHANGED Abstract!vars
  BY <1>6, CloseStep, WakeStep DEF Abstract!Next
<1>7. ASSUME NEW p \in Clients, Return(p) \/ Crash(p) PROVE Abstract!Next
  BY <1>7, LeaveStep DEF Abstract!Next
<1> QED
  BY <1>1, <1>2, <1>3, <1>4, <1>5, <1>6, <1>7 DEF Next, Step

\* The queue on its file implements the atomic queue: a call takes effect at one
\* instant, or returns an error and has none, for any number of processes.
THEOREM ImplementsAtomicQueue == Spec => Implements
<1>1. Spec => []IInv
  BY Invariant
<1> QED
  BY <1>1, InitRefines, NextRefines, PTL DEF Spec, Implements, Abstract!Spec

\* Only a commit changes what is stored.
LEMMA OnlyCommits ==
  ASSUME [Next]_vars, ~ \E p \in Clients : Commit(p)
  PROVE  db' = db
  BY DEF Next, Step, Invoke, OpenDB, OpenTimeout, OpenError, Begin, PushMany, PopMany, ReadMany,
         Count, CommitError, Rollback, CloseDB, Wake, Return, Crash, vars

\* A batch of at least one holds the oldest key, and a batch of none is empty.
LEMMA OldestGrows ==
  ASSUME NEW S \in SUBSET Ids, NEW n \in Nat
  PROVE  Oldest(S, n) = {} \/ Oldest(S, 1) \subseteq Oldest(S, n)
<1>1. \A k : Cardinality({j \in S : j < k}) \in Nat
  <2> TAKE k
  <2>1. {j \in S : j < k} \in SUBSET Ids
    OBVIOUS
  <2> QED
    BY <2>1, IdsAssumption, FS_Subset, FS_CardinalityType
<1> QED
  BY <1>1 DEF Oldest

\* A stored value nobody can decode is never removed, and while it is the oldest
\* one nothing is: whatever commits, commits a push or a pop of other keys.
THEOREM UnreadableStays == Spec => UnreadableBlocksPops
<1> DEFINE Blocks == /\ Unreadable \cap db \subseteq db'
                     /\ Oldest(db, 1) \cap Unreadable # {} => db \subseteq db'
<1>1. ASSUME IInv, [Next]_vars PROVE Blocks
  <2>1. ASSUME NEW p \in Clients, Commit(p) PROVE Blocks
    <3>1. /\ db' = After(call[p], db) /\ Feasible(call[p], db)
          /\ call[p].op \in {"push", "pop"} /\ call[p] \in Calls /\ db \in SUBSET Ids
      BY <1>1, <2>1 DEF Commit, IInv, ClientInv, TypeOK
    <3>2. CASE call[p].op = "push"
      BY <3>1, <3>2, CallEffect
    <3>3. CASE call[p].op = "pop"
      <4>1. /\ Oldest(db, call[p].limit) \cap Unreadable = {}
            /\ db' = db \ Oldest(db, call[p].limit)
        BY <3>1, <3>3, CallEffect
      <4>2. call[p].limit \in Nat
        BY <3>1, CallShape
      <4> QED
        BY <3>1, <4>1, <4>2, OldestGrows
    <3> QED
      BY <3>1, <3>2, <3>3
  <2>2. CASE ~ \E p \in Clients : Commit(p)
    BY <1>1, <2>2, OnlyCommits
  <2> QED
    BY <2>1, <2>2
<1>2. IInv /\ [Next]_vars => [Blocks]_vars
  BY <1>1
<1> QED
  BY <1>2, Invariant, PTL DEF Spec, UnreadableBlocksPops
================================================================================
