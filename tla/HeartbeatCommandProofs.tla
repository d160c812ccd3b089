------------------------- MODULE HeartbeatCommandProofs -------------------------
(*****************************************************************************)
(* Proofs about HeartbeatCommand, for any commands, heartbeats and limits and  *)
(* any number of failures and kills.                                          *)
(*****************************************************************************)
EXTENDS HeartbeatCommand, TLAPS

\* A batch popped from a queue comes from it.
LEMMA OldestSubset == \A S, n : Oldest(S, n) \subseteq S
  BY DEF Oldest

LEMMA BeatsType == \A p \in Commands : Beats[p] \subseteq Ids
  BY CommandsAssumption

LEMMA LimitType == \A p \in Commands : Limit(p) \in Nat
  BY NumbersAssumption DEF Limit

LEMMA SaveType ==
  ASSUME TypeOK, NEW p \in Commands, NEW S \in SUBSET Ids, SaveHeartbeats(p, S)
  PROVE  /\ queue' \in [Files -> SUBSET Ids]
         /\ lost' \subseteq Ids
         /\ faults' \in 0 .. MaxFaults
  BY NumbersAssumption DEF TypeOK, SaveHeartbeats, Push, PushFails, Fault, Files

--------------------------------------------------------------------------------
(* Types.                                                                      *)

LEMMA InitType == Init => TypeOK
  BY NumbersAssumption, CommandsAssumption DEF Init, TypeOK, Files, Places

LEMMA SyncFailedType ==
  ASSUME TypeOK, NEW p \in Commands, SyncFailed(p)
  PROVE  /\ file' \in [Commands -> Files \cup {"new"}]
         /\ sent' \in [Commands -> Nat]
         /\ pc' \in [Commands -> Places]
         /\ code' \in [Commands -> {"none", "success", "generic", "api", "auth", "config", "crash"}]
  BY DEF TypeOK, SyncFailed, Goto, Exit, Places, Files

LEMMA EarlyType ==
  ASSUME TypeOK, NEW p \in Commands,
         \/ Start(p) \/ LoadParams(p) \/ SaveRateLimited(p) \/ SplitHeartbeats(p) \/ NewClient(p)
         \/ NewClientFails(p) \/ SaveExtra(p) \/ SaveAtEnd(p)
  PROVE  TypeOK'
<1> USE NumbersAssumption, BeatsType DEF TypeOK, Goto, Hold, Exit, Fault, params, Places
<1>1. CASE Start(p)
  BY <1>1 DEF Start
<1>2. CASE LoadParams(p)
  BY <1>2 DEF LoadParams
<1>3. CASE SaveRateLimited(p)
  BY <1>3, SaveType DEF SaveRateLimited
<1>4. CASE SplitHeartbeats(p)
  BY <1>4, OldestSubset DEF SplitHeartbeats
<1>5. CASE NewClient(p)
  BY <1>5 DEF NewClient
<1>6. CASE NewClientFails(p)
  BY <1>6, SaveType DEF NewClientFails
<1>7. CASE SaveExtra(p)
  BY <1>7 DEF SaveExtra, Push, PushFails, Files
<1>8. CASE SaveAtEnd(p)
  BY <1>8, SaveType DEF SaveAtEnd
<1> QED
  BY <1>1, <1>2, <1>3, <1>4, <1>5, <1>6, <1>7, <1>8

\* Whoever looks for a batch has a file to look in.
SyncFile == \A p \in Commands : pc[p] = "sync" => file[p] \in Files

LEMMA LateType ==
  ASSUME TypeOK, SyncFile, NEW p \in Commands,
         \/ Answered(p) \/ RequestFails(p) \/ Requeue(p) \/ HandleResults(p) \/ ResetRateLimit(p)
         \/ SkipSync(p) \/ StartSync(p) \/ SyncPop(p) \/ SyncPopFails(p) \/ SyncDone(p)
         \/ RemoveLegacy(p) \/ Crash(p)
  PROVE  TypeOK'
<1> USE NumbersAssumption DEF TypeOK, Goto, Hold, Exit, Fault, params, Places
<1>1. CASE Answered(p)
  BY <1>1 DEF Answered
<1>2. CASE RequestFails(p)
  BY <1>2 DEF RequestFails
<1>3. CASE Requeue(p)
  <2>1. /\ queue' \in [Files -> SUBSET Ids]
        /\ lost' \subseteq Ids
        /\ faults' \in 0 .. MaxFaults
    BY <1>3 DEF Requeue, PushBack, Push, PushFails, Target, Files
  <2>3. late' \subseteq Ids
    BY <1>3, <2>1 DEF Requeue, Returned, Files
  <2>2. /\ file' \in [Commands -> Files \cup {"new"}]
        /\ sent' \in [Commands -> Nat]
        /\ pc' \in [Commands -> Places]
        /\ code' \in [Commands -> {"none", "success", "generic", "api", "auth", "config", "crash"}]
    BY <1>3, SyncFailedType DEF Requeue, Files
  <2> QED
    BY <1>3, <2>1, <2>2, <2>3 DEF Requeue
<1>4. CASE HandleResults(p)
  <2>1. /\ queue' \in [Files -> SUBSET Ids]
        /\ lost' \subseteq Ids
        /\ faults' \in 0 .. MaxFaults
    BY <1>4 DEF HandleResults, PushBack, Push, PushFails, Target, Files
  <2>3. late' \subseteq Ids
    BY <1>4, <2>1 DEF HandleResults, Returned, Files
  <2>2. /\ file' \in [Commands -> Files \cup {"new"}]
        /\ sent' \in [Commands -> Nat]
        /\ pc' \in [Commands -> Places]
        /\ code' \in [Commands -> {"none", "success", "generic", "api", "auth", "config", "crash"}]
    BY <1>4, SyncFailedType DEF HandleResults, Succeeded, Files
  <2> QED
    BY <1>4, <2>1, <2>2, <2>3 DEF HandleResults
<1>5. CASE ResetRateLimit(p)
  BY <1>5 DEF ResetRateLimit
<1>6. CASE SkipSync(p)
  BY <1>6 DEF SkipSync
<1>7. CASE StartSync(p)
  BY <1>7 DEF StartSync, Files
<1>8. CASE SyncPop(p)
  <2>1. sent[p] + BatchSize(p) \in Nat
    BY <1>8, LimitType DEF SyncPop, BatchSize
  <2>2. file[p] \in Files
    BY <1>8 DEF SyncPop, SyncFile
  <2>3. queue' \in [Files -> SUBSET Ids] /\ batch' \in [Commands -> SUBSET Ids]
    BY <1>8, <2>2, OldestSubset DEF SyncPop, Files
  <2> QED
    BY <1>8, <2>1, <2>3 DEF SyncPop
<1>9. CASE SyncPopFails(p)
  BY <1>9, SyncFailedType DEF SyncPopFails
<1>10. CASE SyncDone(p)
  BY <1>10 DEF SyncDone
<1>11. CASE RemoveLegacy(p)
  BY <1>11 DEF RemoveLegacy, Files
<1>12. CASE Crash(p)
  BY <1>12 DEF Crash
<1> QED
  BY <1>1, <1>2, <1>3, <1>4, <1>5, <1>6, <1>7, <1>8, <1>9, <1>10, <1>11, <1>12

LEMMA NextSyncFile ==
  ASSUME TypeOK, SyncFile, NEW p \in Commands, Start(p) \/ Step(p) \/ SaveExtra(p) \/ Crash(p)
  PROVE  SyncFile'
<1>1. pc' = [pc EXCEPT ![p] = pc'[p]] \/ UNCHANGED pc
  BY DEF TypeOK, Start, Step, SaveExtra, Crash, LoadParams, SaveRateLimited, SplitHeartbeats, NewClient,
         NewClientFails, SaveAtEnd, Answered, RequestFails, Requeue, HandleResults, Succeeded,
         SyncFailed, ResetRateLimit, SkipSync, StartSync, SyncPop, SyncPopFails, SyncDone,
         RemoveLegacy, Goto, Exit
<1>2. \A q \in Commands \ {p} : pc'[q] = pc[q] /\ file'[q] = file[q]
  BY <1>1 DEF TypeOK, Start, Step, SaveExtra, Crash, LoadParams, SaveRateLimited, SplitHeartbeats, NewClient,
         NewClientFails, SaveAtEnd, Answered, RequestFails, Requeue, HandleResults, Succeeded,
         SyncFailed, ResetRateLimit, SkipSync, StartSync, SyncPop, SyncPopFails, SyncDone,
         RemoveLegacy, Goto, Exit
<1>3. pc'[p] = "sync" => file'[p] \in Files
  BY DEF TypeOK, SyncFile, Files, Start, Step, SaveExtra, Crash, LoadParams, SaveRateLimited, SplitHeartbeats,
         NewClient, NewClientFails, SaveAtEnd, Answered, RequestFails, Requeue, HandleResults, Succeeded,
         SyncFailed, ResetRateLimit, SkipSync, StartSync, SyncPop, SyncPopFails, SyncDone,
         RemoveLegacy, Goto, Exit
<1> QED
  BY <1>2, <1>3 DEF SyncFile

LEMMA NextType == TypeOK /\ SyncFile /\ [Next]_vars => TypeOK' /\ SyncFile'
<1> SUFFICES ASSUME TypeOK, SyncFile, [Next]_vars PROVE TypeOK' /\ SyncFile'
  OBVIOUS
<1>1. CASE Tick
  BY <1>1, NumbersAssumption DEF Tick, TypeOK, SyncFile, params
<1>2. CASE UNCHANGED vars
  BY <1>2 DEF vars, TypeOK, SyncFile
<1> QED
  BY <1>1, <1>2, EarlyType, LateType, NextSyncFile DEF Next, Step

LEMMA SpecType == Spec => [](TypeOK /\ SyncFile)
<1>1. Init => SyncFile
  BY DEF Init, SyncFile
<1> QED
  BY <1>1, InitType, NextType, PTL DEF Spec

\* The variables keep their types, for any commands, limits and failures.
THEOREM CommandTypeCorrect == Spec => []TypeOK
  BY SpecType, PTL

--------------------------------------------------------------------------------
(* A disabled queue.                                                           *)

Queued == queue["queue"] \cup queue["legacy"]

Held(p) == batch[p] \cup extra[p]

\* What makes DisabledKeepsOut inductive: nobody else ever holds a heartbeat of a
\* disabled command, and that command never gets to its sync.
OutInv ==
  \A p \in disabled :
    /\ Beats[p] \cap Queued = {}
    /\ Held(p) \subseteq Beats[p]
    /\ \A q \in Commands \ {p} : Beats[p] \cap Held(q) = {}
    /\ pc[p] \notin {"sync", "remove"}
    /\ file[p] = "new"

\* What a step of p may move: into the queue only what p may queue, into p's
\* memory only its own heartbeats and, of an enabled command, what was queued.
Moved(p) ==
  /\ disabled' = disabled
  /\ \A q \in Commands \ {p} : Held(q)' = Held(q) /\ pc'[q] = pc[q] /\ file'[q] = file[q]
  /\ Queued' \subseteq Queued \cup (IF p \in disabled THEN {} ELSE Beats[p] \cup Held(p))
  /\ Held(p)' \subseteq Beats[p] \cup Held(p) \cup (IF p \in disabled THEN {} ELSE Queued)
  /\ p \in disabled => pc'[p] \notin {"sync", "remove"} /\ file'[p] = "new"

LEMMA SaveMoved ==
  ASSUME TypeOK, NEW p \in Commands, NEW S \in SUBSET Ids, SaveHeartbeats(p, S)
  PROVE  Queued' \subseteq Queued \cup (IF p \in disabled THEN {} ELSE S)
  BY DEF TypeOK, SaveHeartbeats, Push, PushFails, Queued, Files

LEMMA PushBackMoved ==
  ASSUME TypeOK, NEW p \in Commands, NEW S \in SUBSET Ids, PushBack(p, S)
  PROVE  Queued' \subseteq Queued \cup (IF p \in disabled THEN {} ELSE S)
  BY DEF TypeOK, PushBack, Push, PushFails, Target, Queued, Files

LEMMA StepMoved ==
  ASSUME TypeOK, SyncFile, OutInv, NEW p \in Commands,
         Start(p) \/ Step(p) \/ SaveExtra(p) \/ Crash(p)
  PROVE  Moved(p)
<1> USE BeatsType DEF TypeOK, Moved, Held, Goto, Hold, Exit, Fault, params, OutInv
<1>1. CASE Start(p)
  BY <1>1 DEF Start, Queued
<1>2. CASE LoadParams(p)
  BY <1>2 DEF LoadParams, Queued
<1>3. CASE SaveRateLimited(p)
  BY <1>3, SaveMoved DEF SaveRateLimited
<1>4. CASE SplitHeartbeats(p)
  BY <1>4, OldestSubset DEF SplitHeartbeats, Queued
<1>5. CASE NewClient(p)
  BY <1>5 DEF NewClient, Queued
<1>6. CASE NewClientFails(p)
  BY <1>6, SaveMoved DEF NewClientFails
<1>7. CASE SaveExtra(p)
  BY <1>7 DEF SaveExtra, Push, PushFails, Files, Queued
<1>8. CASE SaveAtEnd(p)
  BY <1>8, SaveMoved DEF SaveAtEnd
<1>9. CASE Answered(p)
  BY <1>9 DEF Answered, Queued
<1>10. CASE RequestFails(p)
  BY <1>10 DEF RequestFails, Queued
<1>11. CASE Requeue(p)
  <2>1. Queued' \subseteq Queued \cup (IF p \in disabled THEN {} ELSE Held(p))
    BY <1>11, PushBackMoved DEF Requeue, PushFails, Queued
  <2> QED
    BY <1>11, <2>1 DEF Requeue, SyncFailed
<1>12. CASE HandleResults(p)
  <2>1. Queued' \subseteq Queued \cup (IF p \in disabled THEN {} ELSE Held(p))
    BY <1>12, PushBackMoved DEF HandleResults, Target, Queued, Files
  <2> QED
    BY <1>12, <2>1 DEF HandleResults, Succeeded, SyncFailed
<1>13. CASE ResetRateLimit(p)
  BY <1>13 DEF ResetRateLimit, Queued
<1>14. CASE SkipSync(p)
  BY <1>14 DEF SkipSync, Queued
<1>15. CASE StartSync(p)
  BY <1>15 DEF StartSync, Queued
<1>16. CASE SyncPop(p)
  <2>1. file[p] \in Files
    BY <1>16 DEF SyncPop, SyncFile
  <2> QED
    BY <1>16, <2>1, OldestSubset DEF SyncPop, Files, Queued
<1>17. CASE SyncPopFails(p)
  BY <1>17 DEF SyncPopFails, SyncFailed, Queued
<1>18. CASE SyncDone(p)
  BY <1>18 DEF SyncDone, Queued
<1>19. CASE RemoveLegacy(p)
  BY <1>19 DEF RemoveLegacy, Files, Queued
<1>20. CASE Crash(p)
  BY <1>20 DEF Crash, Queued
<1> QED
  BY <1>1, <1>2, <1>3, <1>4, <1>5, <1>6, <1>7, <1>8, <1>9, <1>10, <1>11, <1>12, <1>13, <1>14,
     <1>15, <1>16, <1>17, <1>18, <1>19, <1>20 DEF Step

LEMMA MovedOut ==
  ASSUME TypeOK, OutInv, NEW q \in Commands, Moved(q)
  PROVE  OutInv'
<1> SUFFICES ASSUME NEW p \in disabled
             PROVE  /\ Beats[p] \cap Queued' = {}
                    /\ Held(p)' \subseteq Beats[p]
                    /\ \A r \in Commands \ {p} : Beats[p] \cap Held(r)' = {}
                    /\ pc'[p] \notin {"sync", "remove"}
                    /\ file'[p] = "new"
  BY DEF OutInv, Moved
<1>1. p \in Commands
  BY DEF TypeOK
<1>2. CASE p = q
  BY <1>2 DEF OutInv, Moved
<1>3. CASE p # q
  <2>1. Beats[p] \cap Beats[q] = {}
    BY <1>1, <1>3, CommandsAssumption
  <2> QED
    BY <1>1, <1>3, <2>1 DEF OutInv, Moved
<1> QED
  BY <1>2, <1>3

LEMMA InitOut == Init => OutInv
  BY CommandsAssumption DEF Init, OutInv, Queued, Held, Files

LEMMA NextOut == TypeOK /\ SyncFile /\ OutInv /\ [Next]_vars => OutInv'
<1> SUFFICES ASSUME TypeOK, SyncFile, OutInv, [Next]_vars PROVE OutInv'
  OBVIOUS
<1>1. CASE Tick
  BY <1>1 DEF Tick, params, OutInv, Queued, Held
<1>2. CASE UNCHANGED vars
  BY <1>2 DEF vars, OutInv, Queued, Held
<1> QED
  BY <1>1, <1>2, StepMoved, MovedOut DEF Next

\* A command whose offline queue is disabled leaves the queue alone
\* (heartbeat.go, run.go): none of its heartbeats are ever queued, whatever fails,
\* and it sends none that others queued.
THEOREM DisabledCommandKeepsOut == Spec => []DisabledKeepsOut
<1>1. OutInv => DisabledKeepsOut
  BY DEF OutInv, DisabledKeepsOut, Queued, Held
<1> QED
  BY <1>1, SpecType, InitOut, NextOut, PTL DEF Spec

--------------------------------------------------------------------------------
(* Nothing is forgotten.                                                       *)

\* The syncs send until the queue is empty, as with --sync-offline-activity 0
\* (offline.go, Sync); by default they send SyncMaxDefault heartbeats (root.go).
Unlimited == SendLimit <= NoLimit /\ \A p \in Commands : SyncMax[p] = 0

NothingSent == \A p \in Commands : sent[p] = 0

\* What each command may have in memory where it is.
MemoryInv ==
  \A p \in Commands :
    /\ pc[p] \in {"idle", "reset", "synccheck", "sync", "remove", "exit"} => batch[p] = {}
    /\ pc[p] \in {"params", "limit", "configsave", "authsave"} => batch[p] \subseteq Beats[p]
    /\ pc[p] \in {"idle", "params", "limit", "configsave"} => extra[p] = {} /\ file[p] = "new"

\* Only heartbeats of the legacy file ever get into it.
LegacyInv ==
  /\ queue["legacy"] \subseteq Legacy
  /\ \A p \in Commands : file[p] = "legacy" => batch[p] \subseteq Legacy

\* What is in the legacy file when a command is about to remove it came back late.
LateInv == \A p \in Commands : pc[p] = "remove" => queue["legacy"] \subseteq late

Somewhere(h) == h \in settled \cup lost \cup Queued \/ \E p \in Commands : h \in Held(p)

\* Everything created, X apart, is somewhere.
SomewhereInv(X) == \A h \in created \ X : Somewhere(h)

\* What a step of p does with what it finds in memory or queued, Y apart, when X was
\* apart before it.
Conserved(p, X, Y) ==
  /\ \A q \in Commands \ {p} : Held(q)' = Held(q)
  /\ settled \cup lost \cup Queued \cup Held(p) \cup X
       \subseteq (settled \cup lost \cup Queued \cup Held(p))' \cup Y
  /\ created' \subseteq created \cup Held(p)'

LEMMA SaveKept ==
  ASSUME TypeOK, NEW p \in Commands, NEW S \in SUBSET Ids, SaveHeartbeats(p, S), batch[p] \subseteq S
  PROVE  lost \cup Queued \cup batch[p] \subseteq (lost \cup Queued)'
  BY DEF TypeOK, SaveHeartbeats, Push, PushFails, Queued, Files

LEMMA PushBackKept ==
  ASSUME TypeOK, NEW p \in Commands, NEW S \in SUBSET Ids, PushBack(p, S)
  PROVE  lost \cup Queued \cup S \subseteq (lost \cup Queued)'
  BY DEF TypeOK, PushBack, Push, PushFails, Target, Queued, Files

\* With nothing sent yet and no limit, a sync is done only when its file is empty.
LEMMA NoLimitFact ==
  ASSUME Unlimited, NothingSent, NEW p \in Commands
  PROVE  sent[p] < Limit(p) /\ ~ LastBatch(p)
  BY NumbersAssumption DEF Unlimited, NothingSent, Limit, LastBatch

LEMMA StepNothingSent ==
  ASSUME TypeOK, Unlimited, NothingSent, NEW p \in Commands,
         Start(p) \/ Step(p) \/ SaveExtra(p) \/ Crash(p)
  PROVE  NothingSent'
<1>1. CASE SyncPop(p)
  BY <1>1, NoLimitFact DEF SyncPop, TypeOK, NothingSent
<1>2. CASE ~ SyncPop(p)
  BY <1>2 DEF TypeOK, NothingSent, Start, Step, SaveExtra, Crash, LoadParams, SaveRateLimited,
              SplitHeartbeats, NewClient, NewClientFails, SaveAtEnd, Answered, RequestFails, Requeue,
              HandleResults, Succeeded, SyncFailed, ResetRateLimit, SkipSync, StartSync, SyncPopFails,
              SyncDone, RemoveLegacy
<1> QED
  BY <1>1, <1>2

LEMMA StepLegacy ==
  ASSUME TypeOK, SyncFile, MemoryInv, LegacyInv, NEW p \in Commands,
         Start(p) \/ Step(p) \/ SaveExtra(p) \/ Crash(p)
  PROVE  LegacyInv'
<1> USE DEF TypeOK, LegacyInv, Hold, Files
<1>1. CASE Start(p) \/ LoadParams(p) \/ NewClient(p) \/ RequestFails(p) \/ ResetRateLimit(p)
           \/ SkipSync(p) \/ Answered(p) \/ Crash(p)
  BY <1>1 DEF Start, LoadParams, NewClient, RequestFails, ResetRateLimit, SkipSync, Answered, Crash, MemoryInv
<1>2. CASE SaveRateLimited(p) \/ NewClientFails(p) \/ SaveAtEnd(p)
  BY <1>2 DEF SaveRateLimited, NewClientFails, SaveAtEnd, SaveHeartbeats, Push, PushFails
<1>3. CASE SplitHeartbeats(p) \/ SaveExtra(p) \/ StartSync(p)
  BY <1>3, OldestSubset DEF SplitHeartbeats, SaveExtra, StartSync, Push, PushFails, MemoryInv
<1>4. CASE Requeue(p)
  BY <1>4 DEF Requeue, PushBack, Push, PushFails, Target, SyncFailed
<1>5. CASE HandleResults(p)
  BY <1>5 DEF HandleResults, PushBack, Push, Target, Succeeded, SyncFailed
<1>6. CASE SyncPop(p)
  BY <1>6, OldestSubset DEF SyncPop, SyncFile
<1>7. CASE SyncPopFails(p)
  BY <1>7 DEF SyncPopFails, SyncFailed
<1>8. CASE SyncDone(p) \/ RemoveLegacy(p)
  BY <1>8 DEF SyncDone, RemoveLegacy
<1> QED
  BY <1>1, <1>2, <1>3, <1>4, <1>5, <1>6, <1>7, <1>8 DEF Step

LEMMA StepMemory ==
  ASSUME TypeOK, MemoryInv, NEW p \in Commands,
         Start(p) \/ Step(p) \/ SaveExtra(p) \/ Crash(p)
  PROVE  MemoryInv'
<1> USE DEF TypeOK, MemoryInv, Goto, Hold, Exit, params
<1>1. CASE Start(p) \/ LoadParams(p) \/ SaveRateLimited(p) \/ NewClient(p) \/ NewClientFails(p)
           \/ SaveExtra(p) \/ SaveAtEnd(p) \/ Crash(p)
  BY <1>1 DEF Start, LoadParams, SaveRateLimited, NewClient, NewClientFails, SaveExtra, SaveAtEnd, Crash
<1>2. CASE SplitHeartbeats(p)
  BY <1>2 DEF SplitHeartbeats
<1>3. CASE Answered(p) \/ RequestFails(p)
  BY <1>3 DEF Answered, RequestFails
<1>4. CASE Requeue(p)
  BY <1>4 DEF Requeue, SyncFailed
<1>5. CASE HandleResults(p)
  BY <1>5 DEF HandleResults, Succeeded, SyncFailed
<1>6. CASE ResetRateLimit(p) \/ SkipSync(p) \/ StartSync(p) \/ SyncPopFails(p) \/ SyncDone(p)
           \/ RemoveLegacy(p)
  BY <1>6 DEF ResetRateLimit, SkipSync, StartSync, SyncPopFails, SyncFailed, SyncDone, RemoveLegacy
<1>7. CASE SyncPop(p)
  BY <1>7 DEF SyncPop
<1> QED
  BY <1>1, <1>2, <1>3, <1>4, <1>5, <1>6, <1>7 DEF Step

\* A removal is announced, and what comes back after that is marked.
LEMMA StepLate ==
  ASSUME TypeOK, SyncFile, Unlimited, NothingSent, LateInv, NEW p \in Commands,
         Start(p) \/ Step(p) \/ SaveExtra(p) \/ Crash(p)
  PROVE  LateInv' /\ late \subseteq late' \cup Held(p)'
<1> USE DEF TypeOK, LateInv, Held, Goto, Hold, Exit, Files
<1>1. CASE Start(p) \/ LoadParams(p) \/ SplitHeartbeats(p) \/ NewClient(p) \/ Answered(p)
           \/ RequestFails(p) \/ ResetRateLimit(p) \/ SkipSync(p) \/ StartSync(p) \/ Crash(p)
  BY <1>1 DEF Start, LoadParams, SplitHeartbeats, NewClient, Answered, RequestFails, ResetRateLimit,
              SkipSync, StartSync, Crash
<1>2. CASE SaveRateLimited(p) \/ NewClientFails(p) \/ SaveAtEnd(p) \/ SaveExtra(p)
  <2>1. queue'["legacy"] = queue["legacy"] /\ late' = late
    BY <1>2 DEF SaveRateLimited, NewClientFails, SaveAtEnd, SaveExtra, SaveHeartbeats, Push, PushFails
  <2>2. \A q \in Commands : pc'[q] = "remove" => pc[q] = "remove"
    BY <1>2 DEF SaveRateLimited, NewClientFails, SaveAtEnd, SaveExtra
  <2> QED
    BY <2>1, <2>2
<1>3. CASE Requeue(p) \/ HandleResults(p)
  <2>1. \A q \in Commands : pc'[q] = "remove" => pc[q] = "remove"
    BY <1>3 DEF Requeue, HandleResults, Succeeded, SyncFailed
  <2>2. late \subseteq late'
    BY <1>3 DEF Requeue, HandleResults, Returned
  <2>3. ASSUME NEW q \in Commands, pc[q] = "remove"
        PROVE  queue'["legacy"] \subseteq queue["legacy"] \cup late'
    BY <1>3, <2>3 DEF Requeue, HandleResults, Returned
  <2> QED
    BY <2>1, <2>2, <2>3
<1>4. CASE SyncPop(p)
  <2>1. queue'["legacy"] \ late' \subseteq queue["legacy"] \ late
    BY <1>4 DEF SyncPop, SyncFile
  <2>2. \A q \in Commands : pc'[q] = "remove" => pc[q] = "remove"
    BY <1>4 DEF SyncPop
  <2>3. late \subseteq late' \cup batch'[p]
    <3>1. file[p] \in Files
      BY <1>4 DEF SyncPop, SyncFile
    <3> QED
      BY <1>4, <3>1 DEF SyncPop
  <2> QED
    BY <2>1, <2>2, <2>3
<1>5. CASE SyncPopFails(p) \/ RemoveLegacy(p)
  BY <1>5 DEF SyncPopFails, SyncFailed, RemoveLegacy
<1>6. CASE SyncDone(p)
  <2>1. queue[file[p]] = {}
    BY <1>6, NoLimitFact, NumbersAssumption, LimitType DEF SyncDone
  <2> QED
    BY <1>6, <2>1 DEF SyncDone
<1> QED
  BY <1>1, <1>2, <1>3, <1>4, <1>5, <1>6 DEF Step

\* Only the removal of the legacy file drops anything.
LEMMA StepConserved ==
  ASSUME TypeOK, SyncFile, MemoryInv, NEW p \in Commands, NEW X, NEW Y,
         X \subseteq Y \cup Held(p)',
         pc[p] = "remove" => queue["legacy"] \subseteq Y,
         Start(p) \/ Step(p) \/ SaveExtra(p) \/ Crash(p)
  PROVE  Conserved(p, X, Y)
<1> USE BeatsType DEF TypeOK, Conserved, Held, Goto, Hold, Exit, params, MemoryInv
<1>1. CASE Start(p)
  BY <1>1 DEF Start, Queued
<1>2. CASE LoadParams(p) \/ NewClient(p) \/ RequestFails(p) \/ ResetRateLimit(p) \/ SkipSync(p)
           \/ StartSync(p)
  BY <1>2 DEF LoadParams, NewClient, RequestFails, ResetRateLimit, SkipSync, StartSync, Queued
<1>3. CASE SaveRateLimited(p)
  BY <1>3, SaveKept DEF SaveRateLimited
<1>4. CASE SplitHeartbeats(p)
  BY <1>4 DEF SplitHeartbeats, Queued
<1>5. CASE NewClientFails(p)
  BY <1>5, SaveKept DEF NewClientFails
<1>6. CASE SaveExtra(p)
  BY <1>6 DEF SaveExtra, Push, PushFails, Files, Queued
<1>7. CASE SaveAtEnd(p)
  BY <1>7, SaveKept DEF SaveAtEnd
<1>8. CASE Answered(p)
  BY <1>8 DEF Answered, Queued
<1>9. CASE Requeue(p)
  <2>1. lost \cup Queued \cup batch[p] \subseteq (lost \cup Queued)'
    BY <1>9, PushBackKept DEF Requeue, PushFails, Queued
  <2> QED
    BY <1>9, <2>1 DEF Requeue
<1>10. CASE HandleResults(p)
  <2>1. lost \cup Queued \cup batch[p] \subseteq (lost \cup Queued)'
    BY <1>10, PushBackKept DEF HandleResults, Target, Queued, Files
  <2> QED
    BY <1>10, <2>1 DEF HandleResults
<1>11. CASE SyncPop(p)
  BY <1>11 DEF SyncPop, SyncFile, Files, Queued
<1>12. CASE SyncPopFails(p)
  BY <1>12 DEF SyncPopFails, Queued
<1>13. CASE SyncDone(p)
  BY <1>13 DEF SyncDone, Queued
<1>14. CASE RemoveLegacy(p)
  BY <1>14 DEF RemoveLegacy, Files, Queued
<1>15. CASE Crash(p)
  BY <1>15 DEF Crash, Queued
<1> QED
  BY <1>1, <1>2, <1>3, <1>4, <1>5, <1>6, <1>7, <1>8, <1>9, <1>10, <1>11, <1>12, <1>13, <1>14,
     <1>15 DEF Step

LEMMA ConservedSomewhere ==
  ASSUME NEW X, NEW Y, SomewhereInv(X), NEW p \in Commands, Conserved(p, X, Y)
  PROVE  \A h \in created' \ Y : Somewhere(h)'
<1> SUFFICES ASSUME NEW h \in created' \ Y
             PROVE  h \in (settled \cup lost \cup Queued)' \/ \E q \in Commands : h \in Held(q)'
  BY DEF Somewhere
<1> QED
  BY DEF SomewhereInv, Somewhere, Conserved

LEMMA OtherStep ==
  ASSUME Tick \/ UNCHANGED vars
  PROVE  /\ MemoryInv => MemoryInv'
         /\ NothingSent => NothingSent'
         /\ LegacyInv => LegacyInv'
         /\ LateInv => LateInv'
         /\ SomewhereInv(late) => SomewhereInv(late)'
         /\ SomewhereInv(Legacy) => SomewhereInv(Legacy)'
  BY DEF Tick, vars, params, MemoryInv, NothingSent, LegacyInv, LateInv, SomewhereInv, Somewhere,
         Held, Queued

LEMMA InitSomewhere ==
  Init => /\ MemoryInv /\ NothingSent /\ LegacyInv /\ LateInv
          /\ SomewhereInv(late) /\ SomewhereInv(Legacy)
  BY DEF Init, MemoryInv, NothingSent, LegacyInv, LateInv, SomewhereInv, Somewhere, Held, Queued

\* Whatever the limits, what is forgotten was an extra heartbeat of a command that
\* exited, or was in the legacy file.
OthersRemembered ==
  \A h \in created \ Legacy : Kept(h) \/ \E p \in Commands : pc[p] = "exit" /\ h \in extra[p]

LEMMA SomewhereImplies ==
  ASSUME MemoryInv
  PROVE  /\ SomewhereInv(late) => OnlyExtrasForgotten
         /\ SomewhereInv(Legacy) => OthersRemembered
  BY DEF MemoryInv, SomewhereInv, Somewhere, OnlyExtrasForgotten, OthersRemembered, Kept, Held, Queued

\* Whichever way a command goes through its checks, errors and saves, and wherever
\* it is killed (heartbeat.go, offline.go, offlinesync.go), no heartbeat is
\* forgotten but the extra ones of a command that exited before its goroutine had
\* saved them, and those that came back into the legacy file between another
\* command's last look into it and its removal: true when no sync has a limit, for
\* with one the legacy file is removed with more heartbeats in it.
THEOREM OnlyExtrasAreForgotten == ASSUME Unlimited PROVE Spec => []OnlyExtrasForgotten
<1> DEFINE Inv == MemoryInv /\ NothingSent /\ LateInv /\ SomewhereInv(late)
<1>1. Init => Inv
  BY InitSomewhere
<1>2. TypeOK /\ SyncFile /\ Inv /\ [Next]_vars => Inv'
  <2> SUFFICES ASSUME TypeOK, SyncFile, Inv, [Next]_vars PROVE Inv'
    OBVIOUS
  <2>1. CASE Tick \/ UNCHANGED vars
    BY <2>1, OtherStep
  <2>2. ASSUME NEW p \in Commands, Start(p) \/ Step(p) \/ SaveExtra(p) \/ Crash(p) PROVE Inv'
    <3>1. MemoryInv' /\ NothingSent'
      BY <2>2, StepMemory, StepNothingSent
    <3>2. LateInv' /\ late \subseteq late' \cup Held(p)'
      BY <2>2, StepLate
    <3>3. pc[p] = "remove" => queue["legacy"] \subseteq late'
      BY <2>2 DEF LateInv, Start, Step, SaveExtra, Crash, LoadParams, SaveRateLimited,
              SplitHeartbeats, NewClient, NewClientFails, SaveAtEnd, Answered, RequestFails, Requeue,
              HandleResults, ResetRateLimit, SkipSync, StartSync, SyncPop, SyncPopFails, SyncDone,
              RemoveLegacy
    <3>4. Conserved(p, late, late')
      BY <2>2, <3>2, <3>3, StepConserved
    <3>5. \A h \in created' \ late' : Somewhere(h)'
      BY <3>4, ConservedSomewhere
    <3> QED
      BY <3>1, <3>2, <3>5 DEF SomewhereInv
  <2> QED
    BY <2>1, <2>2 DEF Next
<1>3. Inv => OnlyExtrasForgotten
  BY SomewhereImplies
<1> QED
  BY <1>1, <1>2, <1>3, SpecType, PTL DEF Spec

\* With any limits of the syncs, only extra heartbeats of a command that exited
\* and heartbeats of the legacy file, which is removed after its sync
\* (offlinesync.go), can be forgotten.
THEOREM OthersAreRemembered == Spec => []OthersRemembered
<1> DEFINE Inv == MemoryInv /\ LegacyInv /\ SomewhereInv(Legacy)
<1>1. Init => Inv
  BY InitSomewhere
<1>2. TypeOK /\ SyncFile /\ Inv /\ [Next]_vars => Inv'
  <2> SUFFICES ASSUME TypeOK, SyncFile, Inv, [Next]_vars PROVE Inv'
    OBVIOUS
  <2>1. CASE Tick \/ UNCHANGED vars
    BY <2>1, OtherStep
  <2>2. ASSUME NEW p \in Commands, Start(p) \/ Step(p) \/ SaveExtra(p) \/ Crash(p) PROVE Inv'
    <3>1. MemoryInv' /\ LegacyInv'
      BY <2>2, StepMemory, StepLegacy
    <3>2. Conserved(p, Legacy, Legacy)
      BY <2>2, StepConserved DEF LegacyInv
    <3>3. \A h \in created' \ Legacy : Somewhere(h)'
      BY <3>2, ConservedSomewhere
    <3> QED
      BY <3>1, <3>3 DEF SomewhereInv
  <2> QED
    BY <2>1, <2>2 DEF Next
<1>3. Inv => OthersRemembered
  BY SomewhereImplies
<1> QED
  BY <1>1, <1>2, <1>3, SpecType, PTL DEF Spec
================================================================================
