----------------------------- MODULE BackoffProofs -----------------------------
(*****************************************************************************)
(* Proofs about Backoff, for any processes, any factor and maximum, and any   *)
(* number of failures, kills and overlapping writes of the config file.        *)
(*****************************************************************************)
EXTENDS Backoff, TLAPS

\* What a call of Write may be given.
Written(kv) ==
  \/ DOMAIN kv = {}
  \/ DOMAIN kv = Keys /\ kv["retries"] \in Nat /\ kv["at"] \in Nat

LEMMA KeysFact == "retries" \in Keys /\ "at" \in Keys /\ \A k \in Keys : k = "retries" \/ k = "at"
  BY KeysAssumption

LEMMA EmptyType == Empty \in Contents /\ Written(NoPairs)
  BY DEF Empty, Contents, NoPairs, Written

LEMMA FailureWritten ==
  ASSUME NEW p \in Procs, seen \in [Procs -> Contents], clock \in Nat
  PROVE  /\ Written(Failure(p))
         /\ Failure(p)["retries"] = seen[p]["retries"] + 1
         /\ Failure(p)["at"] = clock
         /\ DOMAIN Failure(p) = Keys
  BY KeysAssumption DEF Failure, Written, Contents

LEMMA ClearedWritten ==
  /\ Written(Cleared) /\ DOMAIN Cleared = Keys
  /\ Cleared["retries"] = 0 /\ Cleared["at"] = 0
  BY KeysAssumption DEF Cleared, Written

LEMMA SetKeysType ==
  ASSUME NEW f \in Contents, NEW kv, Written(kv)
  PROVE  SetKeys(f, kv) \in Contents
  BY KeysFact DEF SetKeys, Contents, Written

LEMMA OverlaidType ==
  ASSUME NEW f \in Contents, NEW g \in Contents, NEW h \in Overlaid(f, g)
  PROVE  h \in Contents
  BY DEF Overlaid, Contents

LEMMA ClampedType ==
  ASSUME NEW f \in Contents, clock \in Nat
  PROVE  Clamped(f) \in Contents
  BY KeysFact DEF Clamped, Contents

--------------------------------------------------------------------------------
(* Types.                                                                      *)

\* The types of InternalConfig's variables, and what its calls are given.
ConfigTypes ==
  /\ file \in Contents
  /\ exists \in BOOLEAN
  /\ mutex \in Procs \cup {Nobody}
  /\ place \in [Procs -> Places]
  /\ DOMAIN pairs = Procs
  /\ \A p \in Procs : Written(pairs[p])
  /\ pairs = [p \in Procs |-> pairs[p]]
  /\ image \in [Procs -> Contents]
  /\ overtaken \in BOOLEAN
  /\ faults \in 0 .. MaxFaults

\* The types of ApiClient's.
ClientTypes ==
  /\ request \in [Procs -> Client!Requests]
  /\ transport \in [Procs -> {"plain", "ntlm", "address"}]
  /\ timed \in [Procs -> BOOLEAN]
  /\ host \in [Procs -> {"name", "address"}]
  /\ body \in [Procs -> {"unread", "read"}]

\* The types of Backoff's own.
ProcTypes ==
  /\ clock \in Nat /\ clock > 0
  /\ pc \in [Procs -> PcPlaces]
  /\ seen \in [Procs -> Contents]
  /\ fate \in [Procs -> {"none", "held", "safe", "lost"}]
  /\ failures \in Nat
  /\ failedAt \in Nat

TypeInv == ConfigTypes /\ ClientTypes /\ ProcTypes

LEMMA TypeInvIsTypeOK == TypeInv => TypeOK
  BY KeysFact DEF TypeInv, ConfigTypes, ClientTypes, ProcTypes, TypeOK, Written

LEMMA InitTypes == Init => TypeInv
<1> SUFFICES ASSUME Init PROVE TypeInv
  OBVIOUS
<1>1. file \in Contents
  <2>1. [retries |-> 1, at |-> failedAt] \in Contents
    <3>1. failedAt \in Nat
      BY DEF Init
    <3> QED
      BY <3>1, KeysAssumption DEF Contents
  <2> QED
    BY <2>1, EmptyType DEF Init
<1>2. ConfigTypes
  <2>1. exists \in BOOLEAN
    BY Zenon DEF Init, ConfigInit
  <2>2. pairs = [p \in Procs |-> NoPairs]
    BY DEF Init, ConfigInit
  <2>3. /\ DOMAIN pairs = Procs
        /\ \A p \in Procs : Written(pairs[p])
        /\ pairs = [p \in Procs |-> pairs[p]]
    BY <2>2, EmptyType
  <2>4. /\ mutex \in Procs \cup {Nobody}
        /\ place \in [Procs -> Places]
        /\ image \in [Procs -> Contents]
        /\ faults \in 0 .. MaxFaults
    BY EmptyType, FaultsAssumption DEF Init, ConfigInit, Places
  <2>5. overtaken \in BOOLEAN
    BY Zenon DEF Init, ConfigInit
  <2> QED
    BY <1>1, <2>1, <2>3, <2>4, <2>5 DEF ConfigTypes
<1>3. ClientTypes
  BY DEF Init, Client!ClientInit, ClientTypes, Client!Requests
<1>4. ProcTypes
  BY EmptyType, BackoffAssumption DEF Init, ProcTypes, PcPlaces
<1> QED
  BY <1>2, <1>3, <1>4 DEF TypeInv

LEMMA InvokeTypes ==
  ASSUME ConfigTypes, NEW p \in Procs, NEW kv, Written(kv), Invoke(p, kv)
  PROVE  ConfigTypes'
  BY DEF ConfigTypes, Invoke, MoveTo, Places

LEMMA WriteStepTypes ==
  ASSUME ConfigTypes, NEW p \in Procs, WriteStep(p)
  PROVE  ConfigTypes'
<1> USE EmptyType, FaultsAssumption DEF ConfigTypes, Places, MoveTo, At
<1>1. CASE Stat(p)
  BY <1>1 DEF Stat
<1>2. CASE Create(p)
  BY <1>2 DEF Create
<1>3. CASE Load(p)
  BY <1>3 DEF Load
<1>4. CASE NewWriterFails(p)
  BY <1>4 DEF NewWriterFails, Fault, Return
<1>5. CASE Acquire(p)
  BY <1>5 DEF Acquire
<1>6. CASE AcquireTimeout(p)
  BY <1>6 DEF AcquireTimeout
<1>7. CASE Truncate(p)
  BY <1>7 DEF Truncate
<1>8. CASE Save(p)
  <2>1. file' \in Contents
    BY <1>8, SetKeysType, OverlaidType DEF Save
  <2> QED
    BY <1>8, <2>1 DEF Save
<1>9. CASE SaveFails(p)
  BY <1>9 DEF SaveFails, Fault
<1>10. CASE Release(p)
  BY <1>10 DEF Release, Return
<1> QED
  BY <1>1, <1>2, <1>3, <1>4, <1>5, <1>6, <1>7, <1>8, <1>9, <1>10 DEF WriteStep

LEMMA AbandonTypes ==
  ASSUME ConfigTypes, NEW p \in Procs, Abandon(p)
  PROVE  ConfigTypes'
  BY EmptyType, FaultsAssumption DEF ConfigTypes, Places, Abandon, Return, MoveTo, Fault

LEMMA ClientSteps ==
  ASSUME ClientTypes, NEW p \in Procs,
         \/ Client!NewRequest(p) \/ Client!Finish(p) \/ Client!Answer(p) \/ Client!AttemptFails(p)
  PROVE  ClientTypes'
<1> USE DEF ClientTypes, Client!Requests
<1>1. CASE Client!NewRequest(p) \/ Client!Finish(p)
  BY <1>1 DEF Client!NewRequest, Client!Finish, Client!New
<1>2. CASE Client!Answer(p)
  BY <1>2 DEF Client!Answer
<1>3. CASE Client!Refuse(p) \/ Client!RetryAddress(p)
  BY <1>3 DEF Client!Refuse, Client!RetryAddress
<1>4. ASSUME NEW e \in Client!Errors, Client!RetryNtlm(p, e) \/ Client!PanicNtlm(p, e) \/ Client!GiveUp(p, e)
      PROVE  ClientTypes'
  BY <1>4 DEF Client!RetryNtlm, Client!PanicNtlm, Client!GiveUp, Client!Read
<1> QED
  BY <1>1, <1>2, <1>3, <1>4 DEF Client!AttemptFails

LEMMA StepTypes ==
  ASSUME TypeInv, NEW p \in Procs, Start(p) \/ Step(p) \/ Kill(p)
  PROVE  TypeInv'
<1> USE DEF TypeInv
<1> USE DEF Goto, PcPlaces, Forget
<1>1. CASE Start(p)
  <2>1. Clamped(file) \in Contents
    BY ClampedType DEF ConfigTypes, ProcTypes
  <2> QED
    BY <1>1, <2>1 DEF Start, ConfigTypes, ClientTypes, ProcTypes, configVars, clientVars
<1>2. CASE BackOff(p) \/ Counted(p) \/ Queue(p) \/ Done(p)
  BY <1>2, EmptyType
  DEF BackOff, Counted, Queue, Done, ConfigTypes, ClientTypes, ProcTypes, configVars, clientVars
<1>3. CASE Attempt(p)
  <2>1. ClientTypes'
    BY <1>3, ClientSteps DEF Attempt
  <2> QED
    BY <1>3, <2>1 DEF Attempt, ConfigTypes, ProcTypes, configVars
<1>4. CASE RequestSucceeds(p) \/ RequestFails(p)
  <2>1. ClientTypes'
    BY <1>4, ClientSteps DEF RequestSucceeds, RequestFails
  <2> QED
    BY <1>4, <2>1 DEF RequestSucceeds, RequestFails, ConfigTypes, ProcTypes, configVars, procVars
<1>5. CASE CountFailure(p)
  <2>1. Written(Failure(p))
    BY FailureWritten DEF ProcTypes
  <2>2. ConfigTypes'
    BY <1>5, <2>1, InvokeTypes DEF CountFailure
  <2>3. ClientTypes'
    BY <1>5, ClientSteps DEF CountFailure
  <2>4. ProcTypes'
    BY <1>5, EmptyType DEF CountFailure, ProcTypes
  <2> QED
    BY <2>2, <2>3, <2>4
<1>6. CASE Panic(p)
  <2>1. ClientTypes'
    BY <1>6, ClientSteps DEF Panic
  <2> QED
    BY <1>6, <2>1, EmptyType DEF Panic, ConfigTypes, ProcTypes, configVars
<1>7. CASE Reset(p)
  <2>1. ConfigTypes'
    <3>1. CASE Invoke(p, Cleared)
      BY <3>1, ClearedWritten, InvokeTypes
    <3>2. CASE UNCHANGED configVars
      BY <3>2 DEF configVars, ConfigTypes
    <3> QED
      BY <1>7, <3>1, <3>2 DEF Reset
  <2>2. ClientTypes'
    BY <1>7, ClientSteps DEF Reset
  <2>3. ProcTypes'
    BY <1>7, EmptyType DEF Reset, ProcTypes
  <2> QED
    BY <2>1, <2>2, <2>3
<1>8. CASE ResetRateLimit(p)
  <2>1. ConfigTypes'
    BY <1>8, EmptyType, InvokeTypes DEF ResetRateLimit
  <2> QED
    BY <1>8, <2>1 DEF ResetRateLimit, ClientTypes, ProcTypes, clientVars
<1>9. CASE Write(p)
  <2>1. ConfigTypes'
    BY <1>9, WriteStepTypes DEF Write
  <2> QED
    BY <1>9, <2>1 DEF Write, ClientTypes, ProcTypes, clientVars, procVars
<1>10. CASE Kill(p)
  <2>1. ConfigTypes' /\ ClientTypes'
    BY <1>10, AbandonTypes, ClientSteps DEF Kill
  <2> QED
    BY <1>10, <2>1, EmptyType DEF Kill, ProcTypes
<1> QED
  BY <1>1, <1>2, <1>3, <1>4, <1>5, <1>6, <1>7, <1>8, <1>9, <1>10 DEF Step

LEMMA NextTypes == TypeInv /\ [Next]_vars => TypeInv'
<1> SUFFICES ASSUME TypeInv, [Next]_vars PROVE TypeInv'
  OBVIOUS
<1>1. CASE Tick
  BY <1>1, BackoffAssumption
  DEF Tick, TypeInv, ConfigTypes, ClientTypes, ProcTypes, configVars, clientVars
<1>2. CASE UNCHANGED vars
  BY <1>2 DEF vars, TypeInv, ConfigTypes, ClientTypes, ProcTypes, configVars, clientVars, procVars
<1> QED
  BY <1>1, <1>2, StepTypes DEF Next

LEMMA TypesHold == Spec => []TypeInv
  BY InitTypes, NextTypes, PTL DEF Spec

\* The variables keep their types, for any processes, bounds and interleaving of writes.
THEOREM BackoffTypeCorrect == Spec => []TypeOK
  BY TypesHold, TypeInvIsTypeOK, PTL

--------------------------------------------------------------------------------
(* The file, and every copy of it, holds no more retries than there were failures, *)
(* and no later time than that of the last one.                                  *)

Bounded(f) == f["retries"] <= failures /\ f["at"] <= failedAt

CountInv ==
  /\ failedAt <= clock
  /\ Bounded(file)
  /\ \A p \in Procs : Bounded(seen[p]) /\ Bounded(image[p])
  /\ \A p \in Procs : DOMAIN pairs[p] = Keys => Bounded(pairs[p])

LEMMA EmptyBounded ==
  ASSUME failures \in Nat, failedAt \in Nat
  PROVE  Bounded(Empty)
  BY KeysFact DEF Bounded, Empty

LEMMA NoPairsEmpty == DOMAIN NoPairs = {} /\ DOMAIN NoPairs # Keys
  BY KeysFact DEF NoPairs

LEMMA InitCount == Init => CountInv
<1> SUFFICES ASSUME Init PROVE CountInv
  OBVIOUS
<1>1. TypeInv /\ failures = 1 /\ failedAt \in 1 .. 2
  BY InitTypes DEF Init
<1>2. Bounded(Empty)
  BY <1>1, EmptyBounded
<1>3. Bounded([retries |-> 1, at |-> failedAt])
  BY <1>1 DEF Bounded
<1>4. Bounded(file)
  BY <1>2, <1>3 DEF Init
<1>5. \A p \in Procs : seen[p] = Empty /\ image[p] = Empty /\ pairs[p] = NoPairs
  BY DEF Init, ConfigInit
<1>6. failedAt <= clock
  BY <1>1, BackoffAssumption DEF Init
<1> QED
  BY <1>2, <1>4, <1>5, <1>6, NoPairsEmpty DEF CountInv

\* A save writes what was loaded or is to be set, or leaves what was there.
LEMMA SaveBounded ==
  ASSUME TypeInv, CountInv, NEW p \in Procs, Save(p), UNCHANGED <<failures, failedAt>>
  PROVE  Bounded(file)'
<1>1. PICK g : /\ g = SetKeys(image[p], pairs[p])
               /\ file' \in Overlaid(file, g)
  BY DEF Save
<1>2. \A k \in Keys : file'[k] = g[k] \/ file'[k] = file[k]
  BY <1>1 DEF Overlaid
<1>3. Bounded(g)
  <2>1. CASE DOMAIN pairs[p] = {}
    BY <1>1, <2>1, KeysFact DEF SetKeys, CountInv, Bounded
  <2>2. CASE DOMAIN pairs[p] = Keys
    BY <1>1, <2>2, KeysFact DEF SetKeys, CountInv, Bounded
  <2> QED
    BY <2>1, <2>2 DEF TypeInv, ConfigTypes, Written
<1> QED
  BY <1>2, <1>3, KeysFact DEF Bounded, CountInv

LEMMA WriteStepCount ==
  ASSUME TypeInv, CountInv, NEW p \in Procs, WriteStep(p), UNCHANGED procVars
  PROVE  CountInv'
<1> USE DEF MoveTo, At, procVars
<1>1. Bounded(Empty) /\ DOMAIN NoPairs # Keys
  BY EmptyBounded, NoPairsEmpty DEF TypeInv, ProcTypes
<1>2. Bounded(Empty)'
  BY <1>1 DEF Bounded, Empty
<1>3. CASE Stat(p) \/ Acquire(p) \/ AcquireTimeout(p) \/ SaveFails(p)
  BY <1>3 DEF Stat, Acquire, AcquireTimeout, SaveFails, CountInv, Bounded
<1>4. CASE Create(p) \/ Truncate(p)
  BY <1>4, <1>2 DEF Create, Truncate, CountInv, Bounded
<1>5. CASE Load(p)
  BY <1>5 DEF Load, CountInv, Bounded, TypeInv, ConfigTypes
<1>6. CASE NewWriterFails(p) \/ Release(p)
  BY <1>6, <1>1 DEF NewWriterFails, Release, Return, CountInv, Bounded, TypeInv, ConfigTypes
<1>7. CASE Save(p)
  <2>1. Bounded(file)'
    BY <1>7, SaveBounded
  <2> QED
    BY <1>7, <2>1 DEF Save, CountInv, Bounded
<1> QED
  BY <1>3, <1>4, <1>5, <1>6, <1>7 DEF WriteStep

\* A call with what is bounded by what the histories become.
LEMMA InvokeCount ==
  ASSUME TypeInv, CountInv, NEW p \in Procs, NEW kv, Invoke(p, kv),
         DOMAIN kv = Keys => kv["retries"] <= failures' /\ kv["at"] <= failedAt',
         failures' \in {failures, failures + 1}, failedAt' \in {failedAt, clock},
         clock' = clock, seen' = seen \/ Forget(p)
  PROVE  CountInv'
<1>1. failures <= failures' /\ failedAt <= failedAt' /\ failedAt' <= clock'
  BY DEF TypeInv, ProcTypes, CountInv
<1>2. \A f \in Contents : Bounded(f) => f["retries"] <= failures' /\ f["at"] <= failedAt'
  BY <1>1, KeysFact DEF Bounded, Contents, TypeInv, ProcTypes
<1>3. Bounded(Empty)
  BY EmptyBounded DEF TypeInv, ProcTypes
<1>4. \A q \in Procs : seen'[q] = seen[q] \/ seen'[q] = Empty
  BY DEF Forget, TypeInv, ProcTypes
<1>5. (\A q \in Procs : DOMAIN pairs[q] = Keys => Bounded(pairs[q]))'
  <2> SUFFICES ASSUME NEW q \in Procs, DOMAIN pairs'[q] = Keys
               PROVE  Bounded(pairs[q])'
    OBVIOUS
  <2>1. CASE q = p
    BY <2>1 DEF Invoke, TypeInv, ConfigTypes, Bounded
  <2>2. CASE q # p /\ DOMAIN pairs[q] = Keys
    <3>1. pairs[q]["retries"] \in Nat /\ pairs[q]["at"] \in Nat /\ Bounded(pairs[q])
      BY <2>2, KeysFact DEF TypeInv, ConfigTypes, Written, CountInv
    <3> QED
      BY <3>1, <2>2, <1>1 DEF Invoke, Bounded, TypeInv, ProcTypes, ConfigTypes
  <2> QED
    BY <2>1, <2>2 DEF Invoke, TypeInv, ConfigTypes
<1>6. (\A q \in Procs : Bounded(seen[q]))'
  BY <1>2, <1>3, <1>4, EmptyType DEF Bounded, CountInv, TypeInv, ProcTypes
<1>7. (Bounded(file) /\ \A q \in Procs : Bounded(image[q]))'
  BY <1>2 DEF Invoke, Bounded, CountInv, TypeInv, ConfigTypes
<1> QED
  BY <1>1, <1>5, <1>6, <1>7 DEF CountInv

LEMMA StepCount ==
  ASSUME TypeInv, CountInv, NEW p \in Procs, Start(p) \/ Step(p) \/ Kill(p)
  PROVE  CountInv'
<1>1. Bounded(Empty) /\ DOMAIN NoPairs # Keys
  BY EmptyBounded, NoPairsEmpty DEF TypeInv, ProcTypes
<1> USE DEF Forget
<1>2. CASE Start(p)
  <2>1. Bounded(Clamped(file))
    BY KeysFact DEF Clamped, Bounded, CountInv, TypeInv, ConfigTypes, ProcTypes, Contents
  <2> QED
    BY <1>2, <2>1 DEF Start, CountInv, Bounded, configVars, TypeInv, ProcTypes
<1>3. CASE BackOff(p) \/ Counted(p) \/ Queue(p) \/ Done(p) \/ Panic(p) \/ Attempt(p)
           \/ RequestSucceeds(p) \/ RequestFails(p)
  BY <1>3, <1>1
  DEF BackOff, Counted, Queue, Done, Panic, Attempt, RequestSucceeds, RequestFails,
      CountInv, Bounded, configVars, procVars, TypeInv, ProcTypes
<1>4. CASE CountFailure(p)
  <2>1. seen[p]["retries"] <= failures /\ seen[p]["retries"] \in Nat /\ failures \in Nat
    BY KeysFact DEF CountInv, Bounded, TypeInv, ProcTypes, Contents
  <2>2. clock \in Nat /\ seen \in [Procs -> Contents]
    BY DEF TypeInv, ProcTypes
  <2>3. Failure(p)["retries"] <= failures + 1 /\ Failure(p)["at"] <= clock
    BY <2>1, <2>2, FailureWritten
  <2> QED
    BY <1>4, <2>3, InvokeCount DEF CountFailure
<1>5. CASE Reset(p)
  <2>1. CASE Invoke(p, Cleared)
    <3>1. failures \in Nat /\ failedAt \in Nat
      BY DEF TypeInv, ProcTypes
    <3>2. Cleared["retries"] <= failures /\ Cleared["at"] <= failedAt
      BY <3>1, ClearedWritten
    <3> QED
      BY <1>5, <2>1, <3>2, InvokeCount DEF Reset
  <2>2. CASE UNCHANGED configVars
    BY <1>1, <1>5, <2>2 DEF Reset, CountInv, Bounded, configVars, TypeInv, ProcTypes
  <2> QED
    BY <1>5, <2>1, <2>2 DEF Reset
<1>6. CASE ResetRateLimit(p)
  BY <1>1, <1>6, InvokeCount DEF ResetRateLimit
<1>7. CASE Write(p)
  BY <1>7, WriteStepCount DEF Write
<1>8. CASE Kill(p)
  BY <1>1, <1>8
  DEF Kill, Abandon, Return, CountInv, Bounded, TypeInv, ConfigTypes, ProcTypes
<1> QED
  BY <1>2, <1>3, <1>4, <1>5, <1>6, <1>7, <1>8 DEF Step

LEMMA NextCount == TypeInv /\ CountInv /\ [Next]_vars => CountInv'
<1> SUFFICES ASSUME TypeInv, CountInv, [Next]_vars PROVE CountInv'
  OBVIOUS
<1>1. CASE Tick
  BY <1>1, BackoffAssumption DEF Tick, CountInv, Bounded, configVars, TypeInv, ProcTypes
<1>2. CASE UNCHANGED vars
  BY <1>2 DEF vars, CountInv, Bounded, configVars, procVars
<1> QED
  BY <1>1, <1>2, StepCount DEF Next

LEMMA CountHolds == Spec => []CountInv
  BY InitCount, NextCount, TypesHold, PTL DEF Spec

\* No process reads more retries than there were failed requests: a failure is counted
\* once, whatever writes are undone, mixed or cut off (backoff.go, ini.go).
THEOREM FailuresCountedOnce == Spec => []CountedFailures
<1>1. CountInv => CountedFailures
  BY DEF CountInv, Bounded, CountedFailures
<1> QED
  BY <1>1, CountHolds, PTL

\* A process that backs off has a failure of the last maxBackoffSecs seconds for it.
THEOREM BackoffIsJustified == Spec => []BackoffJustified
<1>1. TypeInv /\ CountInv => BackoffJustified
  <2> SUFFICES ASSUME TypeInv, CountInv, NEW p \in Procs, ShouldBackoff(p)
               PROVE  clock <= failedAt + MaxBackoff
    BY DEF BackoffJustified
  <2>1. seen[p]["at"] \in Nat /\ seen[p]["at"] <= failedAt
    BY KeysFact DEF CountInv, Bounded, TypeInv, ProcTypes, Contents
  <2>2. PICK d \in 0 .. MaxBackoff : seen[p]["at"] + d >= clock
    BY DEF ShouldBackoff
  <2> QED
    BY <2>1, <2>2, BackoffAssumption DEF TypeInv, ProcTypes
<1> QED
  BY <1>1, CountHolds, TypesHold, PTL

--------------------------------------------------------------------------------
(* The mutex.                                                                  *)

Paired(f) == f["retries"] = 0 <=> f["at"] = 0

\* While nobody has gone on without the mutex, who is past Acquire has it, what is in
\* memory is paired, and the file is empty from its truncation to its save.
PairInv ==
  ~ overtaken =>
    /\ Paired(file)
    /\ \A p \in Procs :
         /\ Paired(image[p])
         /\ DOMAIN pairs[p] = Keys => Paired(pairs[p])
         /\ place[p] \in {"truncate", "save", "release"} => mutex = p
         /\ place[p] = "save" => file = Empty

LEMMA EmptyPaired == Paired(Empty) /\ Paired(Cleared)
  BY KeysFact, ClearedWritten DEF Paired, Empty

LEMMA InitPair == Init => PairInv
<1> SUFFICES ASSUME Init PROVE PairInv
  OBVIOUS
<1>1. Paired([retries |-> 1, at |-> failedAt])
  BY DEF Paired, Init
<1>2. Paired(file)
  BY <1>1, EmptyPaired DEF Init
<1>3. \A p \in Procs : place[p] = "none" /\ image[p] = Empty /\ pairs[p] = NoPairs
  BY DEF Init, ConfigInit
<1> QED
  BY <1>2, <1>3, EmptyPaired, NoPairsEmpty DEF PairInv

\* A save over the empty file writes a paired one.
LEMMA SavePaired ==
  ASSUME TypeInv, PairInv, ~ overtaken, NEW p \in Procs, Save(p)
  PROVE  Paired(file')
<1>1. file' \in Overlaid(Empty, SetKeys(image[p], pairs[p]))
  BY DEF Save, At, PairInv
<1>2. \A k \in Keys : file'[k] = SetKeys(image[p], pairs[p])[k]
  BY <1>1 DEF Overlaid, Empty
<1>3. CASE DOMAIN pairs[p] = {}
  BY <1>2, <1>3, KeysFact DEF SetKeys, PairInv, Paired
<1>4. CASE DOMAIN pairs[p] = Keys
  BY <1>2, <1>4, KeysFact DEF SetKeys, PairInv, Paired
<1> QED
  BY <1>3, <1>4 DEF TypeInv, ConfigTypes, Written

LEMMA WriteStepPair ==
  ASSUME TypeInv, PairInv, NEW p \in Procs, WriteStep(p)
  PROVE  PairInv'
<1> USE NobodyAssumption, EmptyPaired, NoPairsEmpty
<1> USE DEF MoveTo, At, TypeInv, ConfigTypes
<1>1. CASE Stat(p)
  BY <1>1 DEF Stat, PairInv, Paired
<1>2. CASE Create(p)
  BY <1>2 DEF Create, PairInv, Paired
<1>3. CASE Load(p)
  BY <1>3 DEF Load, PairInv, Paired
<1>4. CASE NewWriterFails(p)
  BY <1>4 DEF NewWriterFails, Return, PairInv, Paired
<1>5. CASE Acquire(p)
  BY <1>5 DEF Acquire, PairInv, Paired
<1>6. CASE AcquireTimeout(p)
  BY <1>6 DEF AcquireTimeout, PairInv
<1>7. CASE Truncate(p)
  BY <1>7 DEF Truncate, PairInv, Paired
<1>8. CASE Save(p)
  <2>1. ~ overtaken => Paired(file')
    BY <1>8, SavePaired
  <2> QED
    BY <1>8, <2>1 DEF Save, PairInv, Paired
<1>9. CASE SaveFails(p)
  BY <1>9 DEF SaveFails, PairInv, Paired
<1>10. CASE Release(p)
  BY <1>10 DEF Release, Return, PairInv, Paired
<1> QED
  BY <1>1, <1>2, <1>3, <1>4, <1>5, <1>6, <1>7, <1>8, <1>9, <1>10 DEF WriteStep

\* A call with a pair sets both keys or unsets both.
LEMMA InvokePair ==
  ASSUME TypeInv, PairInv, NEW p \in Procs, NEW kv, Invoke(p, kv),
         DOMAIN kv = Keys => Paired(kv)
  PROVE  PairInv'
  BY DEF Invoke, At, MoveTo, PairInv, Paired, TypeInv, ConfigTypes

LEMMA StepPair ==
  ASSUME TypeInv, PairInv, NEW p \in Procs, Start(p) \/ Step(p) \/ Kill(p)
  PROVE  PairInv'
<1>1. CASE UNCHANGED configVars
  BY <1>1 DEF configVars, PairInv, Paired
<1>2. CASE CountFailure(p)
  <2>1. clock \in Nat \ {0} /\ seen \in [Procs -> Contents]
    BY DEF TypeInv, ProcTypes
  <2>2. Failure(p)["retries"] # 0 /\ Failure(p)["at"] # 0
    BY <2>1, FailureWritten, KeysFact DEF Contents
  <2> QED
    BY <1>2, <2>2, InvokePair DEF CountFailure, Paired
<1>3. CASE Reset(p) /\ Invoke(p, Cleared)
  BY <1>3, InvokePair, EmptyPaired
<1>4. CASE ResetRateLimit(p)
  BY <1>4, InvokePair, NoPairsEmpty DEF ResetRateLimit
<1>5. CASE Write(p)
  BY <1>5, WriteStepPair DEF Write
<1>6. CASE Kill(p)
  BY <1>6, EmptyPaired, NoPairsEmpty, NobodyAssumption
  DEF Kill, Abandon, Return, MoveTo, PairInv, Paired, TypeInv, ConfigTypes
<1> QED
  BY <1>1, <1>2, <1>3, <1>4, <1>5, <1>6
  DEF Step, Start, BackOff, Attempt, RequestSucceeds, RequestFails, Counted, Queue, Panic, Reset, Done

LEMMA NextPair == TypeInv /\ PairInv /\ [Next]_vars => PairInv'
<1> SUFFICES ASSUME TypeInv, PairInv, [Next]_vars PROVE PairInv'
  OBVIOUS
<1>1. CASE UNCHANGED configVars
  BY <1>1 DEF configVars, PairInv, Paired
<1> QED
  BY <1>1, StepPair DEF Next, Tick, vars

\* Unless a writer has overtaken the holder of the mutex, the config has a time of the
\* last failure exactly if it has retries (ini.go, updateBackoffSettings).
THEOREM ConfigPaired == Spec => []PairKept
<1>1. PairInv => PairKept
  BY DEF PairInv, Paired, PairKept
<1> QED
  BY <1>1, InitPair, NextPair, TypesHold, PTL DEF Spec

--------------------------------------------------------------------------------
(* What becomes of the heartbeats.                                             *)

FateInv ==
  \A p \in Procs :
    /\ pc[p] \in {"reset", "stamped"} => fate[p] = "safe"
    /\ pc[p] = "exit" => fate[p] = "safe" \/ (fate[p] = "lost" /\ p \in NtlmProxy)
    /\ request[p] = "panicked" => p \in NtlmProxy

LEMMA InitFate == Init => FateInv
  BY DEF Init, Client!ClientInit, FateInv

LEMMA StepFate ==
  ASSUME TypeInv, FateInv, NEW p \in Procs, Start(p) \/ Step(p) \/ Kill(p)
  PROVE  FateInv'
<1> USE DEF TypeInv, ProcTypes, ClientTypes, FateInv, Goto
<1>1. CASE Start(p) \/ BackOff(p) \/ Counted(p) \/ Queue(p) \/ ResetRateLimit(p) \/ Done(p)
  BY <1>1 DEF Start, BackOff, Counted, Queue, ResetRateLimit, Done, clientVars
<1>2. CASE Attempt(p)
  BY <1>2 DEF Attempt, Client!NewRequest, Client!New
<1>3. CASE RequestSucceeds(p)
  BY <1>3 DEF RequestSucceeds, procVars, Client!Answer
<1>4. CASE RequestFails(p)
  <2>1. \A q \in Procs : request'[q] = "panicked" => q \in NtlmProxy
    BY <1>4
    DEF RequestFails, Client!AttemptFails, Client!Refuse, Client!RetryAddress, Client!RetryNtlm,
        Client!PanicNtlm, Client!GiveUp
  <2> QED
    BY <1>4, <2>1 DEF RequestFails, procVars
<1>5. CASE CountFailure(p) \/ Panic(p) \/ Reset(p) \/ Kill(p)
  BY <1>5 DEF CountFailure, Panic, Reset, Kill, Client!Finish, Client!New
<1>6. CASE Write(p)
  BY <1>6 DEF Write, clientVars, procVars
<1> QED
  BY <1>1, <1>2, <1>3, <1>4, <1>5, <1>6 DEF Step

LEMMA NextFate == TypeInv /\ FateInv /\ [Next]_vars => FateInv'
<1> SUFFICES ASSUME TypeInv, FateInv, [Next]_vars PROVE FateInv'
  OBVIOUS
<1>1. CASE Tick \/ UNCHANGED vars
  BY <1>1 DEF Tick, vars, clientVars, procVars, FateInv
<1> QED
  BY <1>1, StepFate DEF Next

\* A command ends with its heartbeats taken or queued, but for a panic behind an NTLM
\* proxy, in any state of the config file.
THEOREM HeartbeatsTakenOrQueued == Spec => []TakenOrQueued
<1>1. FateInv => TakenOrQueued
  BY DEF FateInv, TakenOrQueued
<1> QED
  BY <1>1, InitFate, NextFate, TypesHold, PTL DEF Spec
================================================================================
