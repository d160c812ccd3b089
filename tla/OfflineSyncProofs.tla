---------------------------- MODULE OfflineSyncProofs ---------------------------
(*****************************************************************************)
(* Proofs about OfflineSync, for any number of senders and syncers, any      *)
(* heartbeats, limits and API keys, and any number of failures.              *)
(*****************************************************************************)
EXTENDS OfflineSync, FiniteSetTheorems, TLAPS

\* What a process holds when it is not handling a batch.
EmptyHands ==
  \A p \in Procs : pc[p] \in {"idle", "finished", "loop"} => batch[p] = {}

\* Only heartbeats some command made are anywhere.
InCreated ==
  /\ queue \cup settled \subseteq created
  /\ \A p \in Procs : batch[p] \subseteq created

\* The heartbeats of a command that has not started are not.
FreshUnused ==
  \A p \in Senders : pc[p] = "idle" => Fresh[p] \cap created = {}

\* Only a syncer takes heartbeats from the queue.
Roles == \A p \in Procs : pc[p] = "loop" => p \in Syncers

PlaceInv == TypeOK /\ OnePlace /\ EmptyHands /\ InCreated /\ FreshUnused /\ Roles

\* A batch popped from the queue comes from the queue, and is finite.
LEMMA OldestSubset == \A S, n : Oldest(S, n) \subseteq S
  BY DEF Oldest

LEMMA CountIsNat ==
  ASSUME NEW S \in SUBSET Ids
  PROVE  IsFiniteSet(S) /\ Cardinality(S) \in Nat
  BY IdsAssumption, FS_Subset, FS_CardinalityType

\* The initial state.
LEMMA InitPlace == Init => PlaceInv
<1> SUFFICES ASSUME Init PROVE PlaceInv
  OBVIOUS
<1>1. TypeOK
  BY LimitsAreNat DEF Init, TypeOK, Places, Statuses, NoVerdict
<1>2. OnePlace /\ EmptyHands /\ InCreated /\ Roles
  BY DEF Init, OnePlace, EmptyHands, InCreated, Roles
<1>3. FreshUnused
  BY DEF Init, FreshUnused, AllFresh
<1> QED
  BY <1>1, <1>2, <1>3 DEF PlaceInv

\* The end of a command keeps the types.
LEMMA ClearType ==
  ASSUME TypeOK, NEW p \in Procs, Clear(p)
  PROVE  /\ todo' \in [Procs -> SUBSET Nat]
         /\ verdict' \in [Procs -> [Ids -> Statuses]]
         /\ sent' \in [Procs -> Nat]
         /\ taken' \in [Procs -> Nat]
         /\ err' \in [Procs -> BOOLEAN]
<1>1. NoVerdict \in [Ids -> Statuses]
  BY DEF NoVerdict, Statuses
<1> QED
  BY <1>1 DEF TypeOK, Clear

\* What a process gives up goes to the queue, or nowhere, and its hands are empty
\* or keep a part of what they held: everything stays in one place.
LEMMA GiveBack ==
  ASSUME PlaceInv, NEW p \in Procs, NEW S \in SUBSET batch[p], NEW R \in SUBSET (batch[p] \ S),
         queue' \in {queue, queue \cup S},
         batch' = [batch EXCEPT ![p] = R],
         UNCHANGED <<created, settled, unheard>>
  PROVE  OnePlace' /\ InCreated'
  BY DEF PlaceInv, TypeOK, OnePlace, InCreated

LEMMA RequestAnsweredPlace ==
  ASSUME PlaceInv, NEW p \in Procs, RequestAnswered(p)
  PROVE  PlaceInv'
<1> USE DEF PlaceInv
<1>1. PICK st \in Answers(Group(p, NextKey(p))) :
        /\ verdict' = [verdict EXCEPT ![p] =
                         [h \in Ids |-> IF h \in DOMAIN st THEN st[h] ELSE @[h]]]
        /\ settled' = settled \cup With(st, "ok") \cup With(st, "bad")
        /\ unheard' = unheard \ (With(st, "ok") \cup With(st, "bad"))
        /\ faults' \in {faults, faults + 1} /\ (faults' # faults => faults < MaxFaults)
  BY DEF RequestAnswered, Fault
<1>2. /\ DOMAIN st \subseteq batch[p]
      /\ \A h \in DOMAIN st : st[h] \in Statuses
  BY DEF Answers, Group
<1>3. With(st, "ok") \subseteq batch[p] /\ With(st, "bad") \subseteq batch[p]
  BY <1>2 DEF With
<1>4. TypeOK'
  <2>1. [h \in Ids |-> IF h \in DOMAIN st THEN st[h] ELSE verdict[p][h]] \in [Ids -> Statuses]
    BY <1>2 DEF TypeOK
  <2> QED
    BY <1>1, <1>3, <2>1, LimitsAreNat DEF RequestAnswered, TypeOK, Goto, Places
<1>5. OnePlace' /\ EmptyHands' /\ InCreated' /\ FreshUnused' /\ Roles'
  BY <1>1, <1>3 DEF RequestAnswered, Goto, TypeOK, OnePlace, EmptyHands, InCreated, FreshUnused, Roles
<1> QED
  BY <1>4, <1>5

LEMMA RequestErrorPlace ==
  ASSUME PlaceInv, NEW p \in Procs, RequestError(p)
  PROVE  PlaceInv'
<1> USE DEF PlaceInv
<1>1. PICK S \in SUBSET batch[p] :
        settled' = settled \cup S /\ unheard' = unheard \cup (S \ settled)
  BY DEF RequestError, Group
<1>2. TypeOK'
  BY <1>1, LimitsAreNat DEF RequestError, Fault, locals, Goto, TypeOK, Places
<1>3. OnePlace' /\ EmptyHands' /\ InCreated' /\ FreshUnused' /\ Roles'
  BY <1>1 DEF RequestError, Goto, TypeOK, OnePlace, EmptyHands, InCreated, FreshUnused, Roles
<1> QED
  BY <1>2, <1>3

LEMMA RequeuePlace ==
  ASSUME PlaceInv, NEW p \in Procs, Requeue(p)
  PROVE  PlaceInv'
<1> USE DEF PlaceInv
<1>1. TypeOK'
  BY ClearType, LimitsAreNat
  DEF Requeue, Push, PushFails, Fault, Goto, Over, TypeOK, Places
<1>2. OnePlace' /\ InCreated'
  BY GiveBack DEF Requeue, Push, PushFails
<1>3. EmptyHands' /\ FreshUnused' /\ Roles'
  BY DEF Requeue, Goto, Over, TypeOK, EmptyHands, FreshUnused, Roles
<1> QED
  BY <1>1, <1>2, <1>3
\* Every result has an index below their number.
LEMMA ResultInRange ==
  ASSUME NEW A \in SUBSET Ids, NEW g \in A
  PROVE  ResultPlace(A, g) < Cardinality(A)
<1> DEFINE B == {h \in A : ApiKey[h] < ApiKey[g] \/ (ApiKey[h] = ApiKey[g] /\ h < g)}
<1>1. /\ ApiKey[g] \in Nat /\ g \in Nat
      /\ IsFiniteSet(A) /\ IsFiniteSet(A \ {g})
      /\ Cardinality(A \ {g}) = Cardinality(A) - 1 /\ Cardinality(A) \in Nat
  BY CountIsNat, FS_RemoveElement, LimitsAreNat, IdsAssumption
<1>2. B \subseteq A \ {g}
  BY <1>1
<1>3. Cardinality(B) \in Nat /\ Cardinality(B) <= Cardinality(A \ {g})
  BY <1>1, <1>2, FS_Subset, FS_CardinalityType
<1> QED
  BY <1>1, <1>3 DEF ResultPlace

\* The result that answers a heartbeat has a place among the results, so no
\* heartbeat is requeued both for its status and as a leftover.
LEMMA PlacesApart ==
  ASSUME TypeOK, NEW p \in Procs
  PROVE  /\ InvalidStatus(p) \subseteq batch[p]
         /\ Leftovers(p) \subseteq batch[p] \ InvalidStatus(p)
<1> DEFINE A == Answered(p)
<1>1. A \in SUBSET Ids
  BY DEF Answered, TypeOK
<1>2. \A h \in InvalidStatus(p) : Place(batch[p], h) < Cardinality(A)
  BY <1>1, ResultInRange DEF InvalidStatus
<1>3. \A h \in batch[p] : Place(batch[p], h) \in Nat
  <2> TAKE h \in batch[p]
  <2> QED
    BY CountIsNat DEF Place, TypeOK
<1>4. Cardinality(A) \in Nat
  BY <1>1, CountIsNat
<1> QED
  BY <1>2, <1>3, <1>4 DEF InvalidStatus, Leftovers

LEMMA HandleResultsPlace ==
  ASSUME PlaceInv, NEW p \in Procs, HandleResults(p)
  PROVE  PlaceInv'
<1> USE DEF PlaceInv
<1>1. NoVerdict \in [Ids -> Statuses]
  BY DEF NoVerdict, Statuses
<1>2. TypeOK'
  <2>1. InvalidStatus(p) \subseteq Ids /\ Leftovers(p) \subseteq Ids
    BY PlacesApart DEF TypeOK
  <2>2. queue' \subseteq Ids /\ lost' \subseteq Ids
    BY <2>1 DEF HandleResults, Push, PushFails, TypeOK
  <2>3. faults' \in 0 .. MaxFaults
    BY LimitsAreNat DEF HandleResults, Push, PushFails, Fault, TypeOK
  <2>4. err' \in [Procs -> BOOLEAN]
    BY DEF HandleResults, TypeOK
  <2> QED
    BY <1>1, <2>1, <2>2, <2>3, <2>4 DEF HandleResults, Goto, TypeOK, Places
<1>3. OnePlace' /\ InCreated'
  <2>1. queue' \in {queue, queue \cup InvalidStatus(p)}
    BY DEF HandleResults, Push, PushFails
  <2> QED
    BY <2>1, PlacesApart, GiveBack DEF HandleResults
<1>4. EmptyHands' /\ FreshUnused' /\ Roles'
  BY DEF HandleResults, Goto, TypeOK, EmptyHands, FreshUnused, Roles
<1> QED
  BY <1>2, <1>3, <1>4

LEMMA HandleLeftoversPlace ==
  ASSUME PlaceInv, NEW p \in Procs, HandleLeftovers(p)
  PROVE  PlaceInv'
<1> USE DEF PlaceInv
<1>1. /\ queue' \in {queue, queue \cup batch[p]}
      /\ lost' \in {lost, lost \cup batch[p]}
      /\ faults' \in 0 .. MaxFaults
  BY LimitsAreNat DEF HandleLeftovers, Push, PushFails, Fault, TypeOK
<1>2. TypeOK'
  <2>1. CASE Clear(p) /\ Goto(p, Over(p))
    BY <1>1, <2>1, ClearType DEF HandleLeftovers, Goto, Over, TypeOK, Places
  <2>2. CASE /\ Goto(p, "loop") /\ err' = [err EXCEPT ![p] = FALSE]
             /\ UNCHANGED <<todo, verdict, sent, taken>>
    BY <1>1, <2>2 DEF HandleLeftovers, Goto, TypeOK, Places
  <2> QED
    BY <2>1, <2>2 DEF HandleLeftovers
<1>3. OnePlace' /\ InCreated'
  <2>1. /\ batch' = [batch EXCEPT ![p] = {}]
        /\ UNCHANGED <<created, settled, unheard>>
        /\ {} \in SUBSET (batch[p] \ batch[p])
    BY DEF HandleLeftovers
  <2> QED
    BY <1>1, <2>1, GiveBack
<1>4. EmptyHands' /\ FreshUnused' /\ Roles'
  <2>1. /\ batch' = [batch EXCEPT ![p] = {}] /\ UNCHANGED created
        /\ \/ p \in Syncers /\ pc' = [pc EXCEPT ![p] = "loop"]
           \/ p \in Senders /\ pc' = [pc EXCEPT ![p] = "finished"]
           \/ p \notin Senders /\ pc' = [pc EXCEPT ![p] = "idle"]
    BY DEF HandleLeftovers, Goto, Over
  <2> QED
    BY <2>1 DEF Procs, TypeOK, EmptyHands, FreshUnused, Roles
<1> QED
  BY <1>2, <1>3, <1>4

LEMMA StartSendPlace ==
  ASSUME PlaceInv, NEW p \in Procs, StartSend(p)
  PROVE  PlaceInv'
<1> USE DEF PlaceInv
<1>1. Fresh[p] \subseteq Ids /\ Fresh[p] \cap created = {}
  BY FreshAssumption DEF StartSend, FreshUnused
<1>2. TypeOK'
  <2>1. NoVerdict \in [Ids -> Statuses] /\ Keys(Fresh[p]) \subseteq Nat
    BY <1>1, LimitsAreNat DEF NoVerdict, Statuses, Keys
  <2> QED
    BY <1>1, <2>1 DEF StartSend, Load, Goto, TypeOK, Places
<1>3. OnePlace' /\ InCreated'
  BY <1>1 DEF StartSend, Load, TypeOK, OnePlace, InCreated
<1>4. EmptyHands' /\ Roles'
  BY DEF StartSend, Load, Goto, TypeOK, EmptyHands, Roles
<1>5. FreshUnused'
  BY <1>1, FreshAssumption DEF StartSend, Goto, TypeOK, FreshUnused
<1> QED
  BY <1>2, <1>3, <1>4, <1>5

LEMMA SyncPopPlace ==
  ASSUME PlaceInv, NEW p \in Procs, SyncPop(p)
  PROVE  PlaceInv'
<1> USE DEF PlaceInv
<1> DEFINE hh == Oldest(queue, BatchSize(p))
<1>1. hh \subseteq queue /\ hh \in SUBSET Ids
  BY OldestSubset DEF TypeOK
<1>2. TypeOK'
  <2>1. NoVerdict \in [Ids -> Statuses] /\ Keys(hh) \subseteq Nat
    BY <1>1, LimitsAreNat DEF NoVerdict, Statuses, Keys
  <2>2. Cardinality(hh) \in Nat
    BY <1>1, CountIsNat
  <2>3. p \in Syncers /\ sent' \in [Procs -> Nat]
    BY LimitsAreNat DEF SyncPop, BatchSize, LastBatch, Limit, TypeOK, Roles
  <2> QED
    BY <1>1, <2>1, <2>2, <2>3 DEF SyncPop, Load, Goto, history, TypeOK, Places
<1>3. OnePlace' /\ InCreated' /\ EmptyHands' /\ FreshUnused' /\ Roles'
  BY <1>1 DEF SyncPop, Load, Goto, history, TypeOK, OnePlace, InCreated, EmptyHands, FreshUnused, Roles
<1> QED
  BY <1>2, <1>3

LEMMA SyncEndPlace ==
  ASSUME PlaceInv, NEW p \in Procs, SyncLimitReached(p) \/ SyncStop(p) \/ StartSync(p)
  PROVE  PlaceInv'
<1> USE DEF PlaceInv
<1>1. faults' \in 0 .. MaxFaults
  BY LimitsAreNat DEF SyncLimitReached, SyncStop, StartSync, Fault, TypeOK
<1>2. UNCHANGED <<queue, batch, history>> /\ pc' \in [Procs -> Places]
  BY DEF SyncLimitReached, SyncStop, StartSync, Goto, TypeOK, Places
<1>3. TypeOK'
  BY <1>1, <1>2, ClearType
  DEF SyncLimitReached, SyncStop, StartSync, locals, history, TypeOK
<1>4. OnePlace' /\ InCreated' /\ EmptyHands' /\ FreshUnused' /\ Roles'
  <2>1. /\ p \in Syncers \ Senders /\ batch[p] = {}
        /\ pc' \in {[pc EXCEPT ![p] = "idle"], [pc EXCEPT ![p] = "loop"]}
    BY ProcsAssumption
    DEF SyncLimitReached, SyncStop, StartSync, Goto, EmptyHands, Roles
  <2> QED
    BY <1>2, <2>1
    DEF Procs, history, TypeOK, OnePlace, InCreated, EmptyHands, FreshUnused, Roles
<1> QED
  BY <1>3, <1>4

LEMMA CrashPlace ==
  ASSUME PlaceInv, NEW p \in Procs, Crash(p)
  PROVE  PlaceInv'
<1> USE DEF PlaceInv
<1>1. TypeOK'
  BY ClearType, LimitsAreNat DEF Crash, Fault, Goto, Over, TypeOK, Places
<1>2. OnePlace' /\ InCreated'
  BY GiveBack DEF Crash
<1>3. EmptyHands' /\ FreshUnused' /\ Roles'
  BY DEF Crash, Goto, Over, TypeOK, EmptyHands, FreshUnused, Roles
<1> QED
  BY <1>1, <1>2, <1>3
\* Every step keeps heartbeats in one place.
LEMMA StepPlace == PlaceInv /\ [Next]_vars => PlaceInv'
<1> SUFFICES ASSUME PlaceInv, [Next]_vars PROVE PlaceInv'
  OBVIOUS
<1>1. CASE UNCHANGED vars
  BY <1>1 DEF vars, PlaceInv, TypeOK, OnePlace, EmptyHands, InCreated, FreshUnused, Roles
<1>2. ASSUME NEW p \in Procs, Step(p) \/ StartSend(p) \/ StartSync(p) \/ Crash(p)
      PROVE  PlaceInv'
  BY <1>2, RequestAnsweredPlace, RequestErrorPlace, RequeuePlace, HandleResultsPlace,
     HandleLeftoversPlace, SyncEndPlace, SyncPopPlace, StartSendPlace, CrashPlace
  DEF Step
<1> QED
  BY <1>1, <1>2 DEF Next

LEMMA Placement == Spec => []PlaceInv
  BY InitPlace, StepPlace, PTL DEF Spec

\* The variables keep their types.
THEOREM SyncTypeCorrect == Spec => []TypeOK
<1>1. PlaceInv => TypeOK
  BY DEF PlaceInv
<1> QED
  BY <1>1, Placement, PTL

\* A heartbeat is in the queue or in the memory of one process, whatever the
\* limits and the API keys: concurrent commands never send the same one.
THEOREM HeartbeatsInOnePlace == Spec => []OnePlace
<1>1. PlaceInv => OnePlace
  BY DEF PlaceInv
<1> QED
  BY <1>1, Placement, PTL

--------------------------------------------------------------------------------
(* With one API key for all heartbeats the results answer the heartbeats at    *)
(* their own index, nothing is lost, and nothing is sent twice unless the       *)
(* answer to the first request was lost.                                       *)

SingleKey == \A g, h \in Ids : ApiKey[g] = ApiKey[h]

\* What is known of a batch at each place, when all heartbeats have one key.
BatchInv(p) ==
  /\ pc[p] = "send" => /\ batch[p] # {}
                       /\ todo[p] = Keys(batch[p])
                       /\ verdict[p] = NoVerdict
                       /\ batch[p] \cap Heard = {}
  /\ pc[p] = "results" =>
       /\ \A g, h \in batch[p] : g < h /\ verdict[p][g] = "none" => verdict[p][h] = "none"
       /\ \A h \in batch[p] : verdict[p][h] \in {"ok", "bad"} <=> h \in Heard
  /\ pc[p] \in {"requeue", "leftovers"} => batch[p] \cap Heard = {}

SettleInv ==
  /\ queue \cap Heard = {}
  /\ \A p \in Procs : BatchInv(p)
  /\ NoSilentLoss

\* The places of a batch order it.
LEMMA PlaceMonotone ==
  ASSUME NEW S \in SUBSET Ids, NEW g \in S, NEW h \in S, g < h
  PROVE  Place(S, g) < Place(S, h)
<1> DEFINE G == {x \in S : x < g}
           H == {x \in S : x < h}
<1>1. S \subseteq Nat /\ G \in SUBSET Ids /\ H \in SUBSET Ids /\ H \ {g} \in SUBSET Ids
  BY IdsAssumption
<1>2. IsFiniteSet(H) /\ Cardinality(H) \in Nat /\ Cardinality(G) \in Nat
  BY <1>1, CountIsNat
<1>3. G \in SUBSET (H \ {g}) /\ g \in H
  <2>1. g \in Nat /\ h \in Nat /\ g \in H
    BY <1>1
  <2>2. \A x \in G : x \in Nat /\ x < g /\ x \in S
    BY <1>1
  <2>3. \A x \in G : x \in H \ {g}
    BY <2>1, <2>2
  <2> QED
    BY <2>1, <2>3
<1>4. IsFiniteSet(H \ {g}) /\ Cardinality(H \ {g}) = Cardinality(H) - 1
  BY <1>2, <1>3, FS_RemoveElement
<1>5. Cardinality(G) <= Cardinality(H \ {g})
  BY <1>3, <1>4, FS_Subset
<1> QED
  BY <1>2, <1>4, <1>5 DEF Place

\* handleResults then sees every heartbeat's own status.
LEMMA Pairing ==
  ASSUME SingleKey, TypeOK, NEW p \in Procs,
         \A g, h \in batch[p] : g < h /\ verdict[p][g] = "none" => verdict[p][h] = "none"
  PROVE  /\ InvalidStatus(p) = {h \in batch[p] : verdict[p][h] = "other"}
         /\ Leftovers(p) = {h \in batch[p] : verdict[p][h] = "none"}
<1> DEFINE S == batch[p]
           A == Answered(p)
<1>1. S \in SUBSET Ids /\ S \subseteq Nat /\ A \in SUBSET Ids /\ A \subseteq S
  BY IdsAssumption DEF TypeOK, Answered
<1>2. \A g \in S : Place(S, g) \in Nat
  <2> TAKE g \in S
  <2>1. {x \in S : x < g} \in SUBSET Ids
    BY <1>1
  <2> QED
    BY <2>1, CountIsNat DEF Place
<1>3. \A g, h \in S : Place(S, g) = Place(S, h) => g = h
  <2> SUFFICES ASSUME NEW g \in S, NEW h \in S, Place(S, g) = Place(S, h) PROVE g = h
    OBVIOUS
  <2>1. ~ (g < h) /\ ~ (h < g)
    BY <1>1, <1>2, PlaceMonotone
  <2> QED
    BY <1>1, <2>1
<1>4. ASSUME NEW g \in A PROVE ResultPlace(A, g) = Place(S, g)
  <2>1. \A x \in S : x < g => x \in A
    BY <1>1, <1>4 DEF Answered
  <2>2. \A x \in A : ApiKey[x] = ApiKey[g] /\ ~ (ApiKey[x] < ApiKey[g])
    BY <1>1, <1>4, LimitsAreNat DEF SingleKey
  <2>3. {x \in A : ApiKey[x] < ApiKey[g] \/ (ApiKey[x] = ApiKey[g] /\ x < g)}
          = {x \in S : x < g}
    BY <1>1, <2>1, <2>2
  <2> QED
    BY <2>3 DEF ResultPlace, Place
<1>5. InvalidStatus(p) = {h \in S : verdict[p][h] = "other"}
  BY <1>3, <1>4 DEF InvalidStatus, Answered
<1>6. \A h \in A : ~ (Place(S, h) >= Cardinality(A))
  <2> TAKE h \in A
  <2>1. Cardinality(A) \in Nat
    BY <1>1, CountIsNat
  <2> QED
    BY <1>1, <1>2, <1>4, <2>1, ResultInRange
<1>7. \A h \in S \ A : Place(S, h) >= Cardinality(A)
  <2> TAKE h \in S \ A
  <2> DEFINE H == {x \in S : x < h}
  <2>1. A \in SUBSET H /\ H \in SUBSET Ids
    BY <1>1 DEF Answered
  <2>2. IsFiniteSet(H) /\ Cardinality(H) \in Nat /\ Cardinality(A) \in Nat
    BY <1>1, <2>1, CountIsNat
  <2>3. Cardinality(A) <= Cardinality(H)
    BY <2>1, <2>2, FS_Subset
  <2> QED
    BY <2>2, <2>3 DEF Place
<1> QED
  BY <1>5, <1>6, <1>7 DEF Leftovers, Answered

LEMMA InitSettle == Init => SettleInv
  BY DEF Init, SettleInv, Heard, BatchInv, NoSilentLoss

\* A step that moves only the heartbeats p holds, none of them to nowhere, and has
\* the API settle no others, disturbs no other process.
LEMMA SettleStep ==
  ASSUME PlaceInv, SettleInv, NEW p \in Procs, NEW R \in SUBSET Ids,
         batch' = [batch EXCEPT ![p] = R],
         \A q \in Procs \ {p} :
           pc'[q] = pc[q] /\ todo'[q] = todo[q] /\ verdict'[q] = verdict[q],
         Heard \subseteq Heard', lost \subseteq lost',
         Heard' \subseteq Heard \cup batch[p],
         queue' \cap Heard' = {},
         created' \subseteq created \cup R,
         queue \cup batch[p] \subseteq queue' \cup R \cup Heard' \cup lost',
         BatchInv(p)'
  PROVE  SettleInv'
<1>1. ASSUME NEW q \in Procs, q # p PROVE BatchInv(q)'
  <2>1. batch'[q] = batch[q] /\ batch[q] \cap batch[p] = {} /\ BatchInv(q)
    BY <1>1 DEF PlaceInv, TypeOK, OnePlace, SettleInv
  <2>2. \A h \in batch[q] : h \in Heard' <=> h \in Heard
    BY <2>1 DEF Heard
  <2>3. pc'[q] = pc[q] /\ todo'[q] = todo[q] /\ verdict'[q] = verdict[q]
    BY <1>1
  <2> QED
    BY <2>1, <2>2, <2>3 DEF BatchInv, Keys
<1>2. \A q \in Procs : BatchInv(q)'
  BY <1>1
<1>3. Heard \subseteq Heard' /\ NoSilentLoss
  BY DEF Heard, SettleInv
<1>4. NoSilentLoss'
  <2> SUFFICES ASSUME NEW h, h \in created',
                      h \notin queue' \cup Heard' \cup lost'
               PROVE  \E q \in Procs : h \in batch'[q]
    BY DEF NoSilentLoss, Heard
  <2>1. /\ batch \in [Procs -> SUBSET Ids]
        /\ batch'[p] = R
        /\ \A q \in Procs \ {p} : batch'[q] = batch[q]
    BY DEF PlaceInv, TypeOK
  <2>2. CASE h \in R
    BY <2>1, <2>2
  <2>3. CASE h \notin R
    <3>1. h \in created /\ h \notin queue \cup batch[p] \cup Heard \cup lost
      BY <2>3, <1>3
    <3>2. PICK q \in Procs : h \in batch[q]
      BY <3>1, <1>3 DEF NoSilentLoss, Heard
    <3> QED
      BY <2>1, <3>1, <3>2
  <2> QED
    BY <2>2, <2>3
<1> QED
  BY <1>2, <1>4 DEF SettleInv, Heard

\* No answer comes with an error, whatever the API did.
LEMMA ErrorUnheard ==
  ASSUME PlaceInv, NEW p \in Procs, RequestError(p)
  PROVE  Heard' = Heard
<1>1. PICK S \in SUBSET Group(p, NextKey(p)) :
        settled' = settled \cup S /\ unheard' = unheard \cup (S \ settled)
  BY DEF RequestError
<1> QED
  BY <1>1 DEF Heard, PlaceInv, TypeOK

LEMMA RequestAnsweredSettle ==
  ASSUME SingleKey, PlaceInv, SettleInv, NEW p \in Procs, RequestAnswered(p)
  PROVE  SettleInv'
<1>1. PICK st \in Answers(Group(p, NextKey(p))) :
        /\ verdict' = [verdict EXCEPT ![p] =
                         [h \in Ids |-> IF h \in DOMAIN st THEN st[h] ELSE @[h]]]
        /\ settled' = settled \cup With(st, "ok") \cup With(st, "bad")
        /\ unheard' = unheard \ (With(st, "ok") \cup With(st, "bad"))
  BY DEF RequestAnswered
<1>2. /\ batch[p] # {} /\ todo[p] = Keys(batch[p])
      /\ batch[p] \cap Heard = {} /\ batch[p] \in SUBSET Ids
  BY DEF RequestAnswered, SettleInv, BatchInv, PlaceInv, TypeOK
<1>3. PICK g \in batch[p] : TRUE
  BY <1>2
<1>4. todo[p] = {ApiKey[g]}
  BY <1>2, <1>3 DEF Keys, SingleKey
<1>5. NextKey(p) = ApiKey[g]
  BY <1>4, LimitsAreNat, <1>2, <1>3 DEF NextKey
<1>6. Group(p, NextKey(p)) = batch[p]
  BY <1>2, <1>5 DEF Group, SingleKey
<1>7. /\ st \in [batch[p] -> Statuses]
      /\ \A x, y \in batch[p] : x < y /\ st[x] = "none" => st[y] = "none"
  BY <1>1, <1>6 DEF Answers
<1>8. /\ pc' = [pc EXCEPT ![p] = "results"]
      /\ todo' = [todo EXCEPT ![p] = @ \ {NextKey(p)}]
      /\ UNCHANGED <<queue, batch, created, lost>>
  BY <1>4, <1>5 DEF RequestAnswered, Goto
<1>9. \A h \in batch[p] : verdict'[p][h] = st[h]
  BY <1>1, <1>2, <1>7 DEF PlaceInv, TypeOK
<1>10. /\ Heard \subseteq Heard' /\ Heard' \subseteq Heard \cup batch[p]
       /\ \A h \in batch[p] : h \in Heard' <=> st[h] \in {"ok", "bad"}
  BY <1>1, <1>2, <1>7 DEF Heard, With
<1>11. BatchInv(p)'
  BY <1>7, <1>8, <1>9, <1>10 DEF BatchInv, PlaceInv, TypeOK
<1>12. queue' \cap Heard' = {}
  BY <1>8, <1>10 DEF PlaceInv, OnePlace, SettleInv
<1>13. batch' = [batch EXCEPT ![p] = batch[p]]
  BY <1>8 DEF PlaceInv, TypeOK
<1>14. \A q \in Procs \ {p} :
         pc'[q] = pc[q] /\ todo'[q] = todo[q] /\ verdict'[q] = verdict[q]
  BY <1>1, <1>8 DEF PlaceInv, TypeOK
<1> QED
  BY <1>1, <1>2, <1>8, <1>10, <1>11, <1>12, <1>13, <1>14, SettleStep

LEMMA RequestErrorSettle ==
  ASSUME PlaceInv, SettleInv, NEW p \in Procs, RequestError(p)
  PROVE  SettleInv'
<1>1. /\ batch[p] \cap Heard = {} /\ batch[p] \in SUBSET Ids
      /\ pc' = [pc EXCEPT ![p] = "requeue"]
      /\ UNCHANGED <<queue, batch, todo, verdict, created, lost>>
  BY DEF RequestError, Goto, locals, SettleInv, BatchInv, PlaceInv, TypeOK
<1>2. Heard' = Heard /\ queue' \cap Heard' = {}
  BY <1>1, ErrorUnheard DEF SettleInv
<1>3. BatchInv(p)'
  BY <1>1, <1>2 DEF BatchInv, PlaceInv, TypeOK
<1>4. batch' = [batch EXCEPT ![p] = batch[p]]
  BY <1>1 DEF PlaceInv, TypeOK
<1>5. \A q \in Procs \ {p} : pc'[q] = pc[q]
  BY <1>1 DEF PlaceInv, TypeOK
<1> QED
  BY <1>1, <1>2, <1>3, <1>4, <1>5, SettleStep

\* A push, or a push that gives up, of some of what p holds, none of it settled.
LEMMA GiveBackSettle ==
  ASSUME PlaceInv, SettleInv, NEW p \in Procs,
         NEW S \in SUBSET (batch[p] \ Heard), NEW R \in SUBSET (batch[p] \ Heard),
         batch[p] \subseteq S \cup R \cup Heard,
         Push(S) \/ PushFails(S),
         batch' = [batch EXCEPT ![p] = R],
         UNCHANGED <<created, settled, unheard>>,
         pc'[p] \in {"idle", "finished", "loop", "leftovers"},
         \A q \in Procs \ {p} :
           pc'[q] = pc[q] /\ todo'[q] = todo[q] /\ verdict'[q] = verdict[q]
  PROVE  SettleInv'
<1>1. Heard' = Heard
  BY DEF Heard
<1>2. /\ queue' \subseteq queue \cup S /\ queue \subseteq queue'
      /\ S \subseteq queue' \cup lost' /\ lost \subseteq lost'
  BY DEF Push, PushFails
<1>3. queue' \cap Heard' = {}
  BY <1>1, <1>2 DEF SettleInv
<1>4. batch'[p] = R /\ R \in SUBSET Ids
  BY DEF PlaceInv, TypeOK
<1>5. BatchInv(p)'
  BY <1>1, <1>4 DEF BatchInv
<1>6. queue \cup batch[p] \subseteq queue' \cup R \cup Heard' \cup lost'
  BY <1>1, <1>2
<1> QED
  BY <1>1, <1>2, <1>3, <1>4, <1>5, <1>6, SettleStep

LEMMA RequeueSettle ==
  ASSUME PlaceInv, SettleInv, NEW p \in Procs, Requeue(p)
  PROVE  SettleInv'
<1>1. batch[p] \cap Heard = {}
  BY DEF Requeue, SettleInv, BatchInv
<1>2. \A q \in Procs \ {p} :
        pc'[q] = pc[q] /\ todo'[q] = todo[q] /\ verdict'[q] = verdict[q]
  BY DEF Requeue, Goto, Clear, PlaceInv, TypeOK
<1>3. pc'[p] \in {"idle", "finished"}
  BY DEF Requeue, Goto, Over, PlaceInv, TypeOK
<1>4. batch' = [batch EXCEPT ![p] = {}] /\ (Push(batch[p]) \/ PushFails(batch[p]))
      /\ UNCHANGED <<created, settled, unheard>>
  BY DEF Requeue
<1> QED
  BY <1>1, <1>2, <1>3, <1>4, GiveBackSettle

LEMMA HandleResultsSettle ==
  ASSUME SingleKey, PlaceInv, SettleInv, NEW p \in Procs, HandleResults(p)
  PROVE  SettleInv'
<1>1. /\ \A g, h \in batch[p] : g < h /\ verdict[p][g] = "none" => verdict[p][h] = "none"
      /\ \A h \in batch[p] : verdict[p][h] \in {"ok", "bad"} <=> h \in Heard
  BY DEF HandleResults, SettleInv, BatchInv
<1>2. /\ InvalidStatus(p) = {h \in batch[p] : verdict[p][h] = "other"}
      /\ Leftovers(p) = {h \in batch[p] : verdict[p][h] = "none"}
  BY <1>1, Pairing DEF PlaceInv
<1>3. \A h \in batch[p] : verdict[p][h] \in {"ok", "bad", "other", "none"}
  BY DEF PlaceInv, TypeOK, Statuses
<1>4. /\ InvalidStatus(p) \in SUBSET (batch[p] \ Heard)
      /\ Leftovers(p) \in SUBSET (batch[p] \ Heard)
      /\ batch[p] \subseteq InvalidStatus(p) \cup Leftovers(p) \cup Heard
  BY <1>1, <1>2, <1>3
<1>5. \A q \in Procs \ {p} :
        pc'[q] = pc[q] /\ todo'[q] = todo[q] /\ verdict'[q] = verdict[q]
  BY DEF HandleResults, Goto, PlaceInv, TypeOK
<1>6. /\ Push(InvalidStatus(p)) \/ PushFails(InvalidStatus(p))
      /\ batch' = [batch EXCEPT ![p] = Leftovers(p)]
      /\ pc'[p] = "leftovers"
      /\ UNCHANGED <<created, settled, unheard>>
  BY DEF HandleResults, Goto, PlaceInv, TypeOK
<1> QED
  BY <1>4, <1>5, <1>6, GiveBackSettle

LEMMA HandleLeftoversSettle ==
  ASSUME PlaceInv, SettleInv, NEW p \in Procs, HandleLeftovers(p)
  PROVE  SettleInv'
<1>1. batch[p] \cap Heard = {}
  BY DEF HandleLeftovers, SettleInv, BatchInv
<1>2. /\ batch' = [batch EXCEPT ![p] = {}]
      /\ UNCHANGED <<created, settled, unheard>>
      /\ \A q \in Procs \ {p} :
           pc'[q] = pc[q] /\ todo'[q] = todo[q] /\ verdict'[q] = verdict[q]
      /\ pc'[p] \in {"idle", "finished", "loop"}
  BY DEF HandleLeftovers, Goto, Over, Clear, PlaceInv, TypeOK
<1>3. Push(batch[p]) \/ PushFails(batch[p])
      \/ (batch[p] = {} /\ UNCHANGED <<queue, lost, faults>>)
  BY DEF HandleLeftovers
<1>4. Push(batch[p]) \/ PushFails(batch[p])
  BY <1>3 DEF Push
<1> QED
  BY <1>1, <1>2, <1>4, GiveBackSettle

LEMMA LoadSettle ==
  ASSUME PlaceInv, SettleInv, NEW p \in Procs, NEW hh \in SUBSET Ids,
         batch[p] = {}, hh # {}, hh \cap Heard = {},
         Load(p, hh), Goto(p, "send"),
         UNCHANGED <<settled, unheard, lost>>,
         queue' \subseteq queue, queue \subseteq queue' \cup hh,
         created' \subseteq created \cup hh
  PROVE  SettleInv'
<1>1. Heard' = Heard /\ queue' \cap Heard' = {}
  BY DEF Heard, SettleInv
<1>2. /\ batch' = [batch EXCEPT ![p] = hh]
      /\ \A q \in Procs \ {p} :
           pc'[q] = pc[q] /\ todo'[q] = todo[q] /\ verdict'[q] = verdict[q]
  BY DEF Load, Goto, PlaceInv, TypeOK
<1>3. BatchInv(p)'
  BY <1>1 DEF BatchInv, Load, Goto, Keys, PlaceInv, TypeOK
<1> QED
  BY <1>1, <1>2, <1>3, SettleStep

LEMMA StartSendSettle ==
  ASSUME PlaceInv, SettleInv, NEW p \in Procs, StartSend(p)
  PROVE  SettleInv'
<1>1. /\ Fresh[p] \in SUBSET Ids /\ Fresh[p] # {}
      /\ Fresh[p] \cap created = {} /\ batch[p] = {}
  BY FreshAssumption DEF StartSend, PlaceInv, FreshUnused, EmptyHands
<1>2. Fresh[p] \cap Heard = {}
  BY <1>1 DEF PlaceInv, InCreated, Heard
<1> QED
  BY <1>1, <1>2, LoadSettle DEF StartSend

LEMMA SyncPopSettle ==
  ASSUME PlaceInv, SettleInv, NEW p \in Procs, SyncPop(p)
  PROVE  SettleInv'
<1> DEFINE hh == Oldest(queue, BatchSize(p))
<1>1. hh \subseteq queue /\ hh \in SUBSET Ids /\ hh \cap Heard = {}
  BY OldestSubset DEF PlaceInv, TypeOK, SettleInv
<1>2. /\ hh # {} /\ batch[p] = {} /\ Load(p, hh) /\ Goto(p, "send")
      /\ UNCHANGED <<created, settled, unheard, lost>> /\ queue' = queue \ hh
  BY DEF SyncPop, history, PlaceInv, EmptyHands
<1> QED
  BY <1>1, <1>2, LoadSettle

LEMMA SyncEndSettle ==
  ASSUME PlaceInv, SettleInv, NEW p \in Procs,
         SyncLimitReached(p) \/ SyncStop(p) \/ StartSync(p)
  PROVE  SettleInv'
<1>1. /\ UNCHANGED <<queue, batch, created, settled, unheard, lost>>
      /\ pc'[p] \in {"idle", "loop"}
      /\ \A q \in Procs \ {p} :
           pc'[q] = pc[q] /\ todo'[q] = todo[q] /\ verdict'[q] = verdict[q]
  BY DEF SyncLimitReached, SyncStop, StartSync, Clear, Goto, locals, history, PlaceInv, TypeOK
<1>2. batch' = [batch EXCEPT ![p] = batch[p]] /\ batch[p] \in SUBSET Ids
  BY <1>1 DEF PlaceInv, TypeOK
<1>3. Heard' = Heard /\ queue' \cap Heard' = {}
  BY <1>1 DEF Heard, SettleInv
<1>4. BatchInv(p)'
  BY <1>1 DEF BatchInv
<1> QED
  BY <1>1, <1>2, <1>3, <1>4, SettleStep

LEMMA CrashSettle ==
  ASSUME PlaceInv, SettleInv, NEW p \in Procs, Crash(p)
  PROVE  SettleInv'
<1>1. /\ UNCHANGED <<queue, created, settled, unheard>>
      /\ lost' = lost \cup batch[p] /\ batch' = [batch EXCEPT ![p] = {}]
      /\ pc'[p] \in {"idle", "finished"}
      /\ \A q \in Procs \ {p} :
           pc'[q] = pc[q] /\ todo'[q] = todo[q] /\ verdict'[q] = verdict[q]
  BY DEF Crash, Over, Clear, Goto, PlaceInv, TypeOK
<1>2. Heard' = Heard /\ queue' \cap Heard' = {}
  BY <1>1 DEF Heard, SettleInv
<1>3. BatchInv(p)'
  BY <1>1 DEF BatchInv
<1> QED
  BY <1>1, <1>2, <1>3, SettleStep

LEMMA StepSettle ==
  ASSUME SingleKey, PlaceInv, SettleInv, [Next]_vars
  PROVE  SettleInv'
<1>1. CASE UNCHANGED vars
  BY <1>1 DEF vars, SettleInv, Heard, BatchInv, NoSilentLoss, Keys
<1>2. ASSUME NEW p \in Procs, Step(p) \/ StartSend(p) \/ StartSync(p) \/ Crash(p)
      PROVE  SettleInv'
  BY <1>2, RequestAnsweredSettle, RequestErrorSettle, RequeueSettle, HandleResultsSettle,
     HandleLeftoversSettle, SyncEndSettle, SyncPopSettle, StartSendSettle, CrashSettle
  DEF Step
<1> QED
  BY <1>1, <1>2 DEF Next

LEMMA Settlement == ASSUME SingleKey PROVE Spec => []SettleInv
<1>1. Init => SettleInv
  BY InitSettle
<1>2. PlaceInv /\ SettleInv /\ [Next]_vars => SettleInv'
  BY StepSettle
<1> QED
  BY <1>1, <1>2, Placement, PTL DEF Spec

\* With one API key, every heartbeat is queued, held, settled by the API or lost
\* with a crash or a failed push: handling the results of a request drops none.
THEOREM NothingLostSilently == ASSUME SingleKey PROVE Spec => []NoSilentLoss
<1>1. SettleInv => NoSilentLoss
  BY DEF SettleInv
<1> QED
  BY <1>1, Settlement, PTL

\* With one API key, a heartbeat the API took or refused for good is neither in
\* the queue nor in a request still to be made, but for those whose answer was
\* lost with a request that failed.
THEOREM SettledOnce == ASSUME SingleKey PROVE Spec => []NeverSentAgain
<1>1. SettleInv => NeverSentAgain
  BY DEF SettleInv, BatchInv, NeverSentAgain, Heard
<1> QED
  BY <1>1, Settlement, PTL

--------------------------------------------------------------------------------
(* With one API key, sending and syncing implement HeartbeatLife.              *)

\* What is lost is nowhere else, whatever the keys.
LostInv ==
  /\ lost \subseteq created
  /\ lost \cap queue = {}
  /\ \A p \in Procs : lost \cap batch[p] = {}

LEMMA InitLost == Init => LostInv
  BY DEF Init, LostInv

\* What a process gives up is stored or lost, and what it keeps is neither.
LEMMA GiveBackLost ==
  ASSUME PlaceInv, LostInv, NEW p \in Procs,
         NEW S \in SUBSET batch[p], NEW R \in SUBSET (batch[p] \ S),
         Push(S) \/ PushFails(S),
         batch' = [batch EXCEPT ![p] = R],
         created' = created
  PROVE  LostInv'
<1>1. batch'[p] = R /\ \A q \in Procs \ {p} : batch'[q] = batch[q]
  BY DEF PlaceInv, TypeOK
<1>2. S \cap queue = {} /\ S \subseteq created /\ \A q \in Procs \ {p} : S \cap batch[q] = {}
  BY DEF PlaceInv, OnePlace, InCreated
<1>3. \A q \in Procs : lost' \cap batch'[q] = {}
  BY <1>1, <1>2 DEF LostInv, Push, PushFails
<1>4. lost' \subseteq created' /\ lost' \cap queue' = {}
  BY <1>2 DEF LostInv, Push, PushFails
<1> QED
  BY <1>3, <1>4 DEF LostInv

LEMMA HandleResultsLost ==
  ASSUME PlaceInv, LostInv, NEW p \in Procs, HandleResults(p)
  PROVE  LostInv'
<1>1. /\ InvalidStatus(p) \in SUBSET batch[p]
      /\ Leftovers(p) \in SUBSET (batch[p] \ InvalidStatus(p))
  BY PlacesApart DEF PlaceInv, InvalidStatus, Leftovers
<1>2. /\ Push(InvalidStatus(p)) \/ PushFails(InvalidStatus(p))
      /\ batch' = [batch EXCEPT ![p] = Leftovers(p)]
      /\ created' = created
  BY DEF HandleResults
<1> QED
  BY <1>1, <1>2, GiveBackLost

LEMMA StepLost == PlaceInv /\ LostInv /\ [Next]_vars => LostInv'
<1> SUFFICES ASSUME PlaceInv, LostInv, [Next]_vars PROVE LostInv'
  OBVIOUS
<1>1. ASSUME UNCHANGED <<queue, batch, created, lost>> PROVE LostInv'
  BY <1>1 DEF LostInv
<1>2. CASE UNCHANGED vars
  BY <1>1, <1>2 DEF vars
<1>3. ASSUME NEW p \in Procs,
             \/ RequestAnswered(p) \/ RequestError(p) \/ SyncLimitReached(p)
             \/ SyncStop(p) \/ StartSync(p)
      PROVE  LostInv'
  BY <1>1, <1>3 DEF RequestAnswered, RequestError, SyncLimitReached, SyncStop, StartSync, history
<1>4. ASSUME NEW p \in Procs, Requeue(p) \/ HandleLeftovers(p) PROVE LostInv'
  <2>1. /\ \/ Push(batch[p]) \/ PushFails(batch[p])
           \/ batch[p] = {} /\ UNCHANGED <<queue, lost, faults>>
        /\ batch' = [batch EXCEPT ![p] = {}]
        /\ created' = created
    BY <1>4 DEF Requeue, HandleLeftovers
  <2>2. Push(batch[p]) \/ PushFails(batch[p])
    BY <2>1 DEF Push
  <2> QED
    BY <2>1, <2>2, GiveBackLost
<1>5. ASSUME NEW p \in Procs, StartSend(p) PROVE LostInv'
  <2>1. Fresh[p] \cap created = {}
    BY <1>5 DEF StartSend, PlaceInv, FreshUnused
  <2> QED
    BY <1>5, <2>1 DEF StartSend, Load, LostInv, PlaceInv, TypeOK
<1>6. ASSUME NEW p \in Procs, SyncPop(p) PROVE LostInv'
  <2>1. /\ queue' = queue \ Oldest(queue, BatchSize(p))
        /\ batch' = [batch EXCEPT ![p] = Oldest(queue, BatchSize(p))]
        /\ UNCHANGED <<created, lost>>
    BY <1>6 DEF SyncPop, Load, history
  <2>2. Oldest(queue, BatchSize(p)) \subseteq queue
    BY OldestSubset
  <2> QED
    BY <2>1, <2>2 DEF LostInv, PlaceInv, TypeOK
<1>7. ASSUME NEW p \in Procs, Crash(p) PROVE LostInv'
  BY <1>7 DEF Crash, LostInv, PlaceInv, TypeOK, OnePlace, InCreated
<1> QED
  BY <1>2, <1>3, <1>4, <1>5, <1>6, <1>7, HandleResultsLost DEF Next, Step

LEMMA Losses == Spec => []LostInv
<1> QED
  BY InitLost, StepLost, Placement, PTL DEF Spec

\* A step that settles nothing changes only the hands of its process.
LEMMA HandsMove ==
  ASSUME PlaceInv, NEW p \in Procs, NEW R,
         batch' = [batch EXCEPT ![p] = R],
         UNCHANGED <<settled, unheard>>
  PROVE  /\ handsBar[p] = batch[p] \ Heard
         /\ handsBar' = [handsBar EXCEPT ![p] = R \ Heard]
  BY DEF PlaceInv, TypeOK, handsBar, Heard

\* A push, or a push that gives up.
LEMMA StoresOrLoses ==
  ASSUME PlaceInv, NEW p \in Procs,
         NEW S \in SUBSET (batch[p] \ Heard), NEW R \in SUBSET (batch[p] \ (Heard \cup S)),
         batch[p] \subseteq S \cup R \cup Heard,
         Push(S) \/ PushFails(S),
         batch' = [batch EXCEPT ![p] = R],
         UNCHANGED <<settled, unheard>>
  PROVE  Life!Store(p) \/ Life!Lose(p)
<1>1. handsBar[p] = S \cup R /\ R \ Heard = handsBar[p] \ S
  BY HandsMove DEF Heard
<1>2. handsBar' = [handsBar EXCEPT ![p] = handsBar[p] \ S] /\ S \in SUBSET handsBar[p]
  BY <1>1, HandsMove
<1>3. CASE Push(S)
  <2>1. queue' = queue \cup S /\ lostBar' = lostBar /\ faults' = faults
    BY <1>3 DEF Push, lostBar, Heard
  <2> QED
    BY <1>2, <2>1 DEF Life!Store
<1>4. CASE PushFails(S)
  <2>1. lostBar' = lostBar \cup S /\ queue' = queue /\ faults' = faults + 1
    BY <1>4 DEF PushFails, Fault, lostBar, Heard
  <2> QED
    BY <1>2, <2>1 DEF Life!Lose
<1> QED
  BY <1>3, <1>4

LEMMA RequeueLife ==
  ASSUME PlaceInv, SettleInv, NEW p \in Procs, Requeue(p)
  PROVE  Life!Store(p) \/ Life!Lose(p)
<1>1. batch[p] \cap Heard = {}
  BY DEF Requeue, SettleInv, BatchInv
<1> QED
  BY <1>1, StoresOrLoses DEF Requeue

LEMMA HandleResultsLife ==
  ASSUME SingleKey, PlaceInv, SettleInv, NEW p \in Procs, HandleResults(p)
  PROVE  Life!Store(p) \/ Life!Lose(p)
<1>1. /\ \A g, h \in batch[p] : g < h /\ verdict[p][g] = "none" => verdict[p][h] = "none"
      /\ \A h \in batch[p] : verdict[p][h] \in {"ok", "bad"} <=> h \in Heard
  BY DEF HandleResults, SettleInv, BatchInv
<1>2. /\ InvalidStatus(p) = {h \in batch[p] : verdict[p][h] = "other"}
      /\ Leftovers(p) = {h \in batch[p] : verdict[p][h] = "none"}
  BY <1>1, Pairing DEF PlaceInv
<1>3. \A h \in batch[p] : verdict[p][h] \in {"ok", "bad", "other", "none"}
  BY DEF PlaceInv, TypeOK, Statuses
<1>4. /\ InvalidStatus(p) \in SUBSET (batch[p] \ Heard)
      /\ Leftovers(p) \in SUBSET (batch[p] \ (Heard \cup InvalidStatus(p)))
      /\ batch[p] \subseteq InvalidStatus(p) \cup Leftovers(p) \cup Heard
  BY <1>1, <1>2, <1>3
<1> QED
  BY <1>4, StoresOrLoses DEF HandleResults

LEMMA HandleLeftoversLife ==
  ASSUME PlaceInv, SettleInv, NEW p \in Procs, HandleLeftovers(p)
  PROVE  Life!Store(p) \/ Life!Lose(p)
<1>1. batch[p] \cap Heard = {}
  BY DEF HandleLeftovers, SettleInv, BatchInv
<1>2. /\ \/ Push(batch[p]) \/ PushFails(batch[p])
         \/ batch[p] = {} /\ UNCHANGED <<queue, lost, faults>>
      /\ batch' = [batch EXCEPT ![p] = {}]
      /\ UNCHANGED <<settled, unheard>>
  BY DEF HandleLeftovers
<1>3. Push(batch[p]) \/ PushFails(batch[p])
  BY <1>2 DEF Push
<1> QED
  BY <1>1, <1>2, <1>3, StoresOrLoses

\* An answer settles what it took and what it refused.
LEMMA RequestAnsweredLife ==
  ASSUME PlaceInv, SettleInv, LostInv, NEW p \in Procs, RequestAnswered(p)
  PROVE  Life!Settle(p)
<1>1. PICK st \in Answers(Group(p, NextKey(p))) :
        /\ settled' = settled \cup With(st, "ok") \cup With(st, "bad")
        /\ unheard' = unheard \ (With(st, "ok") \cup With(st, "bad"))
        /\ faults' \in {faults, faults + 1}
  BY DEF RequestAnswered, Fault
<1> DEFINE S == With(st, "ok") \cup With(st, "bad")
<1>2. S \subseteq batch[p] /\ Heard' = Heard \cup S
  BY <1>1 DEF Answers, Group, With, Heard
<1>3. UNCHANGED <<queue, batch, lost>> /\ batch[p] \cap Heard = {}
  BY DEF RequestAnswered, SettleInv, BatchInv
<1>4. handsBar[p] = batch[p]
  BY <1>3 DEF handsBar
<1> HIDE DEF S
<1>5. handsBar' = [handsBar EXCEPT ![p] = handsBar[p] \ S]
  <2>1. \A q \in Procs \ {p} : batch[q] \cap batch[p] = {}
    BY DEF PlaceInv, OnePlace
  <2>2. \A q \in Procs : batch'[q] \ Heard' =
          IF q = p THEN handsBar[p] \ S ELSE batch[q] \ Heard
    BY <1>2, <1>3, <1>4, <2>1
  <2> QED
    BY <2>2 DEF handsBar
<1>6. lostBar' = lostBar
  BY <1>2, <1>3 DEF lostBar, LostInv
<1>7. settled' = settled \cup S /\ unheard' = unheard \ S
  BY <1>1 DEF S
<1> QED
  BY <1>1, <1>2, <1>3, <1>4, <1>5, <1>6, <1>7 DEF Life!Settle

\* An error leaves the process with its heartbeats, those settled unheard included.
LEMMA RequestErrorLife ==
  ASSUME PlaceInv, SettleInv, NEW p \in Procs, RequestError(p)
  PROVE  Life!LoseAnswer(p)
<1>1. PICK S \in SUBSET batch[p] :
        settled' = settled \cup S /\ unheard' = unheard \cup (S \ settled)
  BY DEF RequestError, Group
<1>2. /\ UNCHANGED <<queue, batch, lost>> /\ faults' = faults + 1
      /\ batch[p] \cap Heard = {}
  BY DEF RequestError, Fault, SettleInv, BatchInv
<1>3. Heard' = Heard
  BY ErrorUnheard
<1>4. handsBar' = handsBar /\ lostBar' = lostBar
  BY <1>2, <1>3 DEF handsBar, lostBar
<1>5. S \in SUBSET handsBar[p] /\ unheard' = unheard \cup S
  BY <1>1, <1>2 DEF handsBar, Heard
<1> QED
  BY <1>1, <1>2, <1>4, <1>5 DEF Life!LoseAnswer

LEMMA CrashLife ==
  ASSUME PlaceInv, NEW p \in Procs, Crash(p)
  PROVE  Life!Lose(p)
<1>1. /\ UNCHANGED <<queue, settled, unheard>> /\ lost' = lost \cup batch[p]
      /\ batch' = [batch EXCEPT ![p] = {}] /\ faults' = faults + 1
  BY DEF Crash, Fault
<1>2. handsBar' = [handsBar EXCEPT ![p] = handsBar[p] \ handsBar[p]]
  <2>1. handsBar' = [handsBar EXCEPT ![p] = {} \ Heard]
    BY <1>1, HandsMove
  <2>2. {} \ Heard = handsBar[p] \ handsBar[p]
    OBVIOUS
  <2> QED
    BY <2>1, <2>2
<1>3. lostBar' = lostBar \cup handsBar[p]
  BY <1>1, HandsMove DEF lostBar, Heard
<1> QED
  BY <1>1, <1>2, <1>3 DEF Life!Lose

LEMMA StartSendLife ==
  ASSUME PlaceInv, LostInv, NEW p \in Procs, StartSend(p)
  PROVE  Life!Create(p)
<1>1. /\ p \in Senders /\ batch[p] = {} /\ Fresh[p] \cap created = {}
      /\ batch' = [batch EXCEPT ![p] = Fresh[p]]
      /\ UNCHANGED <<queue, settled, unheard, lost, faults>>
  BY DEF StartSend, Load, PlaceInv, FreshUnused, EmptyHands
<1>2. /\ Life!Known \subseteq created
      /\ Fresh[p] \ Heard = Fresh[p]
  BY <1>1 DEF Life!Known, PlaceInv, InCreated, LostInv, handsBar, lostBar, Heard
<1>3. handsBar[p] = {} /\ handsBar' = [handsBar EXCEPT ![p] = Fresh[p]]
  BY <1>1, <1>2, HandsMove
<1>4. lostBar' = lostBar
  BY <1>1 DEF lostBar, Heard
<1> QED
  BY <1>1, <1>2, <1>3, <1>4 DEF Life!Create

LEMMA SameOldest == \A S, n : Life!Oldest(S, n) = Oldest(S, n)
<1>1. \A T : Life!Cardinality(T) = Cardinality(T)
  BY Zenon DEF Life!Cardinality, Cardinality, Life!IsFiniteSet, IsFiniteSet
<1> QED
  BY <1>1 DEF Life!Oldest, Oldest

LEMMA SyncPopLife ==
  ASSUME PlaceInv, SettleInv, NEW p \in Procs, SyncPop(p)
  PROVE  Life!Take(p)
<1> DEFINE hh == Oldest(queue, BatchSize(p))
<1>1. /\ p \in Syncers /\ p \notin Senders /\ batch[p] = {}
      /\ queue' = queue \ hh /\ batch' = [batch EXCEPT ![p] = hh]
      /\ UNCHANGED <<settled, unheard, lost, faults>>
  BY ProcsAssumption DEF SyncPop, Load, history, PlaceInv, Roles, EmptyHands
<1>2. BatchSize(p) \in 1 .. SendLimit
  <2>1. Limit(p) \in Nat /\ sent[p] \in Nat /\ sent[p] < Limit(p) /\ SendLimit \in Nat \ {0}
    BY <1>1, LimitsAreNat DEF SyncPop, Limit, PlaceInv, TypeOK
  <2> QED
    BY <2>1 DEF BatchSize, LastBatch
<1>3. hh \cap Heard = {}
  BY OldestSubset DEF SettleInv
<1>4. handsBar[p] = {} /\ handsBar' = [handsBar EXCEPT ![p] = hh]
  <2>1. handsBar[p] = batch[p] \ Heard /\ handsBar' = [handsBar EXCEPT ![p] = hh \ Heard]
    BY <1>1, HandsMove
  <2>2. batch[p] \ Heard = {} /\ hh \ Heard = hh
    BY <1>1, <1>3
  <2> QED
    BY <2>1, <2>2
<1>5. lostBar' = lostBar
  BY <1>1 DEF lostBar, Heard
<1> QED
  BY <1>1, <1>2, <1>4, <1>5, SameOldest DEF Life!Take

\* What is left fails, or does nothing to heartbeats.
LEMMA QuietLife ==
  ASSUME NEW p \in Procs,
         \/ SyncLimitReached(p) \/ SyncStop(p) \/ StartSync(p)
  PROVE  Life!Fail \/ UNCHANGED Life!vars
<1>1. UNCHANGED <<queue, batch, settled, unheard, lost>> /\ faults' \in {faults, faults + 1}
  BY DEF SyncLimitReached, SyncStop, StartSync, Fault, history
<1>2. handsBar' = handsBar /\ lostBar' = lostBar
  BY <1>1 DEF handsBar, lostBar, Heard
<1> QED
  BY <1>1, <1>2 DEF Life!Fail, Life!vars

LEMMA InitLife == Init => Life!Init
<1> SUFFICES ASSUME Init PROVE Life!Init
  OBVIOUS
<1>1. handsBar = [p \in Procs |-> {}] /\ lostBar = {}
  BY DEF Init, handsBar, lostBar
<1>2. queue \in SUBSET (Ids \ UNION {Fresh[p] : p \in Senders})
  BY DEF Init, AllFresh
<1> QED
  BY <1>1, <1>2 DEF Init, Life!Init

LEMMA NextLife ==
  ASSUME SingleKey, PlaceInv, SettleInv, LostInv, [Next]_vars
  PROVE  [Life!Next]_(Life!vars)
<1>1. CASE UNCHANGED vars
  BY <1>1 DEF vars, Life!vars, handsBar, lostBar, Heard
<1>2. ASSUME NEW p \in Procs, Step(p)
      PROVE  Life!Next \/ UNCHANGED Life!vars
  BY <1>2, RequestAnsweredLife, RequestErrorLife, RequeueLife, HandleResultsLife,
     HandleLeftoversLife, SyncPopLife, QuietLife
  DEF Step, Life!Next
<1>3. ASSUME NEW p \in Procs, StartSend(p) \/ StartSync(p) \/ Crash(p)
      PROVE  Life!Next \/ UNCHANGED Life!vars
  BY <1>3, StartSendLife, QuietLife, CrashLife DEF Life!Next
<1> QED
  BY <1>1, <1>2, <1>3 DEF Next

\* With one API key, however sends and syncs interleave, fail and die: each heartbeat is
\* with one process or stored until an answer of the API settles it, an answer settles it
\* once, and it is lost only with a failure.
THEOREM ImplementsHeartbeatLife == ASSUME SingleKey PROVE Spec => ImplementsLife
<1>1. PlaceInv /\ SettleInv /\ LostInv /\ [Next]_vars => [Life!Next]_(Life!vars)
  BY NextLife
<1> QED
  BY <1>1, InitLife, Placement, Settlement, Losses, PTL DEF Spec, ImplementsLife, Life!Spec

--------------------------------------------------------------------------------
(* How much a sync takes.                                                      *)

\* A pop for n heartbeats returns no more than n: their places are different
\* numbers below n.
LEMMA OldestCount ==
  ASSUME NEW S \in SUBSET Ids, NEW n \in Nat
  PROVE  Cardinality(Oldest(S, n)) <= n
<1> DEFINE T == Oldest(S, n)
           f == [k \in T |-> Place(S, k)]
<1>1. T \in SUBSET Ids /\ T \subseteq S
  BY OldestSubset
<1>2. f \in [T -> 0 .. n - 1]
  <2> SUFFICES ASSUME NEW k \in T PROVE Place(S, k) \in 0 .. n - 1
    OBVIOUS
  <2>1. {j \in S : j < k} \in SUBSET Ids
    OBVIOUS
  <2>2. Place(S, k) \in Nat
    BY <2>1, CountIsNat DEF Place
  <2> QED
    BY <2>2 DEF Oldest, Place
<1>3. ASSUME NEW g \in T, NEW h \in T, f[g] = f[h] PROVE g = h
  <2>1. g \in Nat /\ h \in Nat
    BY <1>1, IdsAssumption
  <2>2. Place(S, g) = Place(S, h) /\ Place(S, g) \in Int
    BY <1>2, <1>3
  <2>3. ~ (g < h) /\ ~ (h < g)
    BY <1>1, <2>2, PlaceMonotone
  <2> QED
    BY <2>1, <2>3
<1>4. f \in Injection(T, 0 .. n - 1)
  BY <1>2, <1>3 DEF Injection, IsInjective
<1>5. IsFiniteSet(0 .. n - 1) /\ Cardinality(0 .. n - 1) = n
  BY FS_Interval
<1> HIDE DEF T, f
<1>6. Cardinality(T) <= Cardinality(0 .. n - 1)
  BY <1>4, <1>5, FS_Injection
<1> QED
  BY <1>5, <1>6 DEF T

\* What makes SmallLimits inductive: alreadySent counts what a sync with such a
\* limit has taken, for its only batch is cut short.
CountInv ==
  \A p \in Syncers :
    /\ Cardinality(batch[p]) <= SendLimit
    /\ Limit(p) < SendLimit => taken[p] <= sent[p] /\ sent[p] \in {0, Limit(p)}

LEMMA InitCount == Init => CountInv
<1> SUFFICES ASSUME Init PROVE CountInv
  OBVIOUS
<1>1. \A p \in Syncers : batch[p] = {} /\ taken[p] = 0 /\ sent[p] = 0
  BY DEF Init, Procs
<1>2. Cardinality({}) = 0
  BY FS_EmptySet
<1> QED
  BY <1>1, <1>2, LimitsAreNat DEF CountInv

LEMMA SyncPopCount ==
  ASSUME PlaceInv, CountInv, NEW p \in Procs, SyncPop(p)
  PROVE  CountInv'
<1> DEFINE hh == Oldest(queue, BatchSize(p))
<1>1. p \in Syncers /\ Limit(p) \in Nat /\ sent[p] \in Nat /\ taken[p] \in Nat
  BY LimitsAreNat DEF SyncPop, PlaceInv, Roles, TypeOK, Limit
<1>2. BatchSize(p) \in Nat /\ BatchSize(p) <= SendLimit
  BY <1>1, LimitsAreNat DEF SyncPop, BatchSize, LastBatch
<1>3. hh \in SUBSET Ids
  BY OldestSubset DEF PlaceInv, TypeOK
<1>4. Cardinality(hh) \in Nat /\ Cardinality(hh) <= BatchSize(p)
  BY <1>2, <1>3, CountIsNat, OldestCount DEF PlaceInv, TypeOK
<1>5. /\ batch' = [batch EXCEPT ![p] = hh]
      /\ taken' = [taken EXCEPT ![p] = @ + Cardinality(hh)]
      /\ sent' = [sent EXCEPT ![p] = IF LastBatch(p) THEN @ + BatchSize(p) ELSE @]
      /\ sent[p] < Limit(p)
  BY DEF SyncPop, Load
<1> HIDE DEF hh
<1>6. Cardinality(batch'[p]) <= SendLimit
  BY <1>2, <1>4, <1>5, LimitsAreNat DEF PlaceInv, TypeOK
<1>7. ASSUME Limit(p) < SendLimit
      PROVE  taken'[p] <= sent'[p] /\ sent'[p] \in {0, Limit(p)}
  <2>1. sent[p] = 0 /\ taken[p] = 0
    BY <1>1, <1>5, <1>7 DEF CountInv
  <2>2. LastBatch(p) /\ BatchSize(p) = Limit(p)
    BY <1>1, <1>7, <2>1, LimitsAreNat DEF LastBatch, BatchSize
  <2> QED
    BY <1>1, <1>4, <1>5, <2>1, <2>2 DEF PlaceInv, TypeOK
<1> QED
  BY <1>5, <1>6, <1>7 DEF CountInv, Limit, PlaceInv, TypeOK

\* Every other step leaves the counters alone or clears them, and what a sync
\* has in its hands does not grow.
LEMMA OtherCount ==
  ASSUME PlaceInv, CountInv, NEW p \in Procs,
         \/ RequestAnswered(p) \/ RequestError(p) \/ Requeue(p) \/ HandleResults(p)
         \/ HandleLeftovers(p) \/ SyncLimitReached(p) \/ SyncStop(p) \/ StartSend(p)
         \/ StartSync(p) \/ Crash(p)
  PROVE  CountInv'
<1>1. \/ taken' = taken /\ sent' = sent
      \/ taken' = [taken EXCEPT ![p] = 0] /\ sent' = [sent EXCEPT ![p] = 0]
  <2>1. CASE RequestError(p) \/ StartSend(p) \/ StartSync(p)
    BY <2>1 DEF RequestError, StartSend, StartSync, locals
  <2>2. CASE Requeue(p) \/ SyncLimitReached(p) \/ SyncStop(p) \/ Crash(p)
    BY <2>2 DEF Requeue, SyncLimitReached, SyncStop, Crash, Clear
  <2>3. CASE HandleLeftovers(p)
    <3>1. UNCHANGED <<todo, verdict, sent, taken>> \/ Clear(p)
      BY <2>3 DEF HandleLeftovers
    <3> QED
      BY <3>1 DEF Clear
  <2>4. CASE RequestAnswered(p)
    BY <2>4 DEF RequestAnswered
  <2>5. CASE HandleResults(p)
    BY <2>5 DEF HandleResults
  <2> QED
    BY <2>1, <2>2, <2>3, <2>4, <2>5
<1>2. \A q \in Syncers : batch'[q] \subseteq batch[q]
  <2>1. CASE StartSend(p)
    BY <2>1, ProcsAssumption DEF StartSend, Load, PlaceInv, TypeOK
  <2>2. CASE RequestAnswered(p) \/ RequestError(p) \/ SyncLimitReached(p) \/ SyncStop(p) \/ StartSync(p)
    BY <2>2 DEF RequestAnswered, RequestError, SyncLimitReached, SyncStop, StartSync
  <2>3. CASE Requeue(p) \/ HandleLeftovers(p) \/ Crash(p)
    <3>1. batch' = [batch EXCEPT ![p] = {}]
      BY <2>3 DEF Requeue, HandleLeftovers, Crash
    <3> QED
      BY <3>1 DEF PlaceInv, TypeOK
  <2>4. CASE HandleResults(p)
    <3>1. Leftovers(p) \subseteq batch[p]
      BY PlacesApart DEF PlaceInv
    <3> QED
      BY <2>4, <3>1 DEF HandleResults, PlaceInv, TypeOK
  <2> QED
    BY <2>1, <2>2, <2>3, <2>4
<1>3. \A q \in Syncers : Cardinality(batch'[q]) <= SendLimit
  <2> SUFFICES ASSUME NEW q \in Syncers PROVE Cardinality(batch'[q]) <= SendLimit
    OBVIOUS
  <2>1. batch[q] \in SUBSET Ids /\ batch'[q] \in SUBSET batch[q]
    BY <1>2 DEF PlaceInv, TypeOK, Procs
  <2>2. IsFiniteSet(batch[q]) /\ Cardinality(batch[q]) \in Nat /\ Cardinality(batch'[q]) \in Nat
    BY <2>1, CountIsNat
  <2>3. Cardinality(batch'[q]) <= Cardinality(batch[q])
    BY <2>1, <2>2, FS_Subset
  <2> QED
    BY <2>2, <2>3, LimitsAreNat DEF CountInv
<1>4. \A q \in Syncers : Limit(q) < SendLimit => taken'[q] <= sent'[q] /\ sent'[q] \in {0, Limit(q)}
  BY <1>1 DEF CountInv, PlaceInv, TypeOK, Procs
<1> QED
  BY <1>3, <1>4 DEF CountInv, Limit

LEMMA StepCount == PlaceInv /\ CountInv /\ [Next]_vars => CountInv'
<1> SUFFICES ASSUME PlaceInv, CountInv, [Next]_vars PROVE CountInv'
  OBVIOUS
<1>1. CASE UNCHANGED vars
  BY <1>1 DEF vars, CountInv, Limit
<1> QED
  BY <1>1, SyncPopCount, OtherCount DEF Next, Step

\* No request of a sync has more than SendLimit heartbeats, and a sync whose
\* limit is below SendLimit takes no more than its limit from the queue
\* (offline.go, Sync), whatever others push meanwhile.
THEOREM SmallLimitsRespected == Spec => []SmallLimits
<1>1. PlaceInv /\ CountInv => SmallLimits
  <2> SUFFICES ASSUME PlaceInv, CountInv, NEW p \in Syncers
               PROVE  /\ Cardinality(batch[p]) <= SendLimit
                      /\ Limit(p) < SendLimit => taken[p] <= Limit(p)
    BY DEF SmallLimits
  <2>1. Limit(p) \in Nat /\ taken[p] \in Nat
    BY LimitsAreNat DEF Limit, PlaceInv, TypeOK, Procs
  <2> QED
    BY <2>1 DEF CountInv
<1> QED
  BY <1>1, InitCount, StepCount, Placement, PTL DEF Spec
================================================================================
