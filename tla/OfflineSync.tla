------------------------------- MODULE OfflineSync ------------------------------
(*****************************************************************************)
(* The processes that move heartbeats between the editors, the offline queue  *)
(* and the WakaTime API: WithQueue sends the heartbeats of one command and    *)
(* queues what the API did not take; Sync pops batches from the queue and     *)
(* sends them (src/pkg/offline/offline.go).  Both send through                *)
(* Client.SendHeartbeats (src/pkg/api/heartbeat.go), one request per API key. *)
(*                                                                           *)
(* The queue is the one AtomicQueue promises and OfflineQueue implements: a   *)
(* push with its retries, and a pop, happen at one instant or fail.  A batch  *)
(* is a set whose slice order is the order of its ids, as PopMany returns it. *)
(*****************************************************************************)
EXTENDS QueueCalls

CONSTANTS
  Senders,    (* Commands that send new heartbeats through WithQueue.         *)
  Syncers,    (* Commands that run Sync; one may run again and again.         *)
  Fresh,      (* The heartbeats each sender is started with.                  *)
  SyncLimit,  (* The limit each syncer is started with.                       *)
  ApiKey,     (* The API key WithReplacing gives each heartbeat.              *)
  SendLimit,  (* SendLimit: heartbeats in one bulk request.                   *)
  NoLimit,    (* math.MaxInt32, what Sync takes for the limit 0.              *)
  MaxFaults   (* Bound on the failures of the API, the queue and processes.   *)

Procs == Senders \cup Syncers

ASSUME ProcsAssumption == Senders \cap Syncers = {}

ASSUME LimitsAreNat ==
  /\ SendLimit \in Nat \ {0}
  /\ MaxFaults \in Nat
  /\ NoLimit \in Nat
  /\ SyncLimit \in [Syncers -> Nat]
  /\ ApiKey \in [Ids -> Nat]

\* Every command makes its own heartbeats: their times, so their ids, differ.
ASSUME FreshAssumption ==
  /\ Fresh \in [Senders -> SUBSET Ids]
  /\ \A p, q \in Senders : p # q => Fresh[p] \cap Fresh[q] = {}

VARIABLES
  queue,    (* The heartbeats in the offline queue.                           *)
  pc,       (* Where each process is.                                         *)
  batch,    (* hh: the heartbeats a process has in memory, still to settle.   *)
  todo,     (* The API keys it has not yet made a request for.                *)
  verdict,  (* The API's answer to each heartbeat of its batch.               *)
  sent,     (* alreadySent of its Sync.                                       *)
  taken,    (* History: how many heartbeats its Sync popped.                  *)
  err,      (* handleResults' err is set.                                     *)
  created,  (* History: every heartbeat there ever was.                       *)
  settled,  (* History: heartbeats the API took (2xx) or refused (400).       *)
  unheard,  (* History: those of them whose answer never came.                *)
  lost,     (* History: heartbeats lost with a crash or a push that gave up.  *)
  faults    (* Failures so far.                                               *)

vars == <<queue, pc, batch, todo, verdict, sent, taken, err,
          created, settled, unheard, lost, faults>>

locals == <<todo, verdict, sent, taken, err>>

history == <<created, settled, unheard, lost>>

Statuses == {"ok", "bad", "other", "none"}

NoVerdict == [h \in Ids |-> "none"]

AllFresh == UNION {Fresh[p] : p \in Senders}

Init ==
  /\ queue \in SUBSET (Ids \ (AllFresh \cup Unstorable))
  /\ pc = [p \in Procs |-> "idle"]
  /\ batch = [p \in Procs |-> {}]
  /\ todo = [p \in Procs |-> {}]
  /\ verdict = [p \in Procs |-> NoVerdict]
  /\ sent = [p \in Procs |-> 0]
  /\ taken = [p \in Procs |-> 0]
  /\ err = [p \in Procs |-> FALSE]
  /\ created = queue
  /\ settled = {}
  /\ unheard = {}
  /\ lost = {}
  /\ faults = 0

Goto(p, l) == pc' = [pc EXCEPT ![p] = l]

Fault == faults < MaxFaults /\ faults' = faults + 1

--------------------------------------------------------------------------------
(* Client.SendHeartbeats: one request per API key, in the order of the keys.   *)

Keys(S) == {ApiKey[h] : h \in S}

Group(p, k) == {h \in batch[p] : ApiKey[h] = k}

NextKey(p) == CHOOSE k \in todo[p] : \A l \in todo[p] : k <= l

Load(p, hh) ==
  /\ batch' = [batch EXCEPT ![p] = hh]
  /\ todo' = [todo EXCEPT ![p] = Keys(hh)]
  /\ verdict' = [verdict EXCEPT ![p] = NoVerdict]
\* Mutant of Answers: results whose status was not parsed are let through.
UnparsedAnswers(G) == [G -> Statuses \cup {"unparsed"}]

\* A bulk answer has one status per heartbeat of the group, but may stop early.
Answers(G) ==
  {st \in [G -> Statuses] :
     \A g, h \in G : g < h /\ st[g] = "none" => st[h] = "none"}

With(st, s) == {h \in DOMAIN st : st[h] = s}

RequestAnswered(p) ==
  /\ pc[p] = "send"
  /\ todo[p] # {}
  /\ \E st \in Answers(Group(p, NextKey(p))) :
       /\ verdict' = [verdict EXCEPT ![p] =
                        [h \in Ids |-> IF h \in DOMAIN st THEN st[h] ELSE @[h]]]
       /\ settled' = settled \cup With(st, "ok") \cup With(st, "bad")
       /\ unheard' = unheard \ (With(st, "ok") \cup With(st, "bad"))
       /\ IF With(st, "other") \cup With(st, "none") = {}
          THEN UNCHANGED faults
          ELSE Fault
  /\ todo' = [todo EXCEPT ![p] = @ \ {NextKey(p)}]
  /\ Goto(p, IF todo[p] = {NextKey(p)} THEN "results" ELSE "send")
  /\ UNCHANGED <<queue, batch, sent, taken, err, created, lost>>

\* No answer in time, one that cannot be read or parsed, or a status other than
\* 201 and 202: an error for the whole batch, the groups already answered
\* included.  The API may have settled any of the group before.
RequestError(p) ==
  /\ pc[p] = "send"
  /\ todo[p] # {}
  /\ Fault
  /\ \E S \in SUBSET Group(p, NextKey(p)) :
       /\ settled' = settled \cup S
       /\ unheard' = unheard \cup (S \ settled)
  /\ Goto(p, "requeue")
  /\ UNCHANGED <<queue, batch, locals, created, lost>>

--------------------------------------------------------------------------------
(* WithQueue and Sync after the request.                                       *)

\* The command is over and its variables are gone: a sender's process ends, a
\* syncer may be started again.
Over(p) == IF p \in Senders THEN "finished" ELSE "idle"

Clear(p) ==
  /\ todo' = [todo EXCEPT ![p] = {}]
  /\ verdict' = [verdict EXCEPT ![p] = NoVerdict]
  /\ sent' = [sent EXCEPT ![p] = 0]
  /\ taken' = [taken EXCEPT ![p] = 0]
  /\ err' = [err EXCEPT ![p] = FALSE]

Push(S) == queue' = queue \cup S /\ UNCHANGED <<lost, faults>>

PushFails(S) == lost' = lost \cup S /\ Fault /\ UNCHANGED queue

\* After an error the whole batch goes back and the command returns the error.
Requeue(p) ==
  /\ pc[p] = "requeue"
  /\ Push(batch[p]) \/ PushFails(batch[p])
  /\ batch' = [batch EXCEPT ![p] = {}]
  /\ Clear(p)
  /\ Goto(p, Over(p))
  /\ UNCHANGED <<created, settled, unheard>>

Answered(p) == {h \in batch[p] : verdict[p][h] # "none"}

\* The index of h in hh, from 0.
Place(S, h) == Cardinality({g \in S : g < h})

\* The index of the result of h: the groups' results one after the other.
ResultPlace(A, h) ==
  Cardinality({g \in A : ApiKey[g] < ApiKey[h] \/ (ApiKey[g] = ApiKey[h] /\ g < h)})
\* Mutant of InvalidStatus: a heartbeat refused with 400 is queued again.
InvalidOrRefused(p) ==
  {h \in batch[p] :
     \E g \in Answered(p) : /\ ResultPlace(Answered(p), g) = Place(batch[p], h)
                            /\ verdict[p][g] # "ok"}

\* handleResults pairs hh[n] with results[n].
InvalidStatus(p) ==
  {h \in batch[p] :
     \E g \in Answered(p) : /\ ResultPlace(Answered(p), g) = Place(batch[p], h)
                            /\ verdict[p][g] = "other"}
\* Mutants of Leftovers: the slice of hh starts one too late, or one too early.
LeftoversLate(p) == {h \in batch[p] : Place(batch[p], h) > Cardinality(Answered(p))}

LeftoversEarly(p) == {h \in batch[p] : Place(batch[p], h) >= Cardinality(Answered(p)) - 1}

Leftovers(p) == {h \in batch[p] : Place(batch[p], h) >= Cardinality(Answered(p))}

HandleResults(p) ==
  /\ pc[p] = "results"
  /\ \/ /\ Push(InvalidStatus(p))
        /\ err' = [err EXCEPT ![p] = FALSE]
     \/ /\ InvalidStatus(p) # {}
        /\ PushFails(InvalidStatus(p))
        /\ err' = [err EXCEPT ![p] = TRUE]
  /\ batch' = [batch EXCEPT ![p] = Leftovers(p)]
  /\ verdict' = [verdict EXCEPT ![p] = NoVerdict]
  /\ Goto(p, "leftovers")
  /\ UNCHANGED <<todo, sent, taken, created, settled, unheard>>

\* Pushing the leftovers overwrites the error of the first push.  A sync without
\* an error goes on to its next batch.
HandleLeftovers(p) ==
  /\ pc[p] = "leftovers"
  /\ \E failed \in BOOLEAN :
       /\ \/ /\ batch[p] = {}
             /\ failed = err[p]
             /\ UNCHANGED <<queue, lost, faults>>
          \/ batch[p] # {} /\ ~failed /\ Push(batch[p])
          \/ batch[p] # {} /\ failed /\ PushFails(batch[p])
       /\ IF p \in Syncers /\ ~failed
          THEN /\ Goto(p, "loop")
               /\ err' = [err EXCEPT ![p] = FALSE]
               /\ UNCHANGED <<todo, verdict, sent, taken>>
          ELSE Goto(p, Over(p)) /\ Clear(p)
  /\ batch' = [batch EXCEPT ![p] = {}]
  /\ UNCHANGED <<created, settled, unheard>>

--------------------------------------------------------------------------------
(* The two commands.                                                           *)

StartSend(p) ==
  /\ p \in Senders
  /\ pc[p] = "idle"
  /\ Fresh[p] # {}
  /\ Load(p, Fresh[p])
  /\ created' = created \cup Fresh[p]
  /\ Goto(p, "send")
  /\ UNCHANGED <<queue, sent, taken, err, settled, unheard, lost, faults>>

StartSync(p) ==
  /\ p \in Syncers
  /\ pc[p] = "idle"
  /\ Goto(p, "loop")
  /\ UNCHANGED <<queue, batch, locals, history, faults>>

Limit(p) == IF SyncLimit[p] = 0 THEN NoLimit ELSE SyncLimit[p]
\* Mutant of LastBatch: the last batch is recognised one heartbeat too late.
LastBatchLate(p) == sent[p] + SendLimit > Limit(p) + 1

LastBatch(p) == sent[p] + SendLimit > Limit(p)

BatchSize(p) == IF LastBatch(p) THEN Limit(p) - sent[p] ELSE SendLimit

SyncLimitReached(p) ==
  /\ pc[p] = "loop"
  /\ sent[p] >= Limit(p)
  /\ Clear(p)
  /\ Goto(p, "idle")
  /\ UNCHANGED <<queue, batch, history, faults>>

\* alreadySent only grows when the limit cuts a batch short.
SyncPop(p) ==
  /\ pc[p] = "loop"
  /\ sent[p] < Limit(p)
  /\ LET hh == Oldest(queue, BatchSize(p))
     IN /\ hh # {}
        /\ hh \cap Unreadable = {}
        /\ queue' = queue \ hh
        /\ Load(p, hh)
        /\ taken' = [taken EXCEPT ![p] = @ + Cardinality(hh)]
  /\ sent' = [sent EXCEPT ![p] = IF LastBatch(p) THEN @ + BatchSize(p) ELSE @]
  /\ Goto(p, "send")
  /\ UNCHANGED <<err, history, faults>>
\* Mutant of SyncStop: a sync that finds nothing queued waits for more.
SyncStopOnError(p) ==
  /\ pc[p] = "loop"
  /\ sent[p] < Limit(p)
  /\ Fault
  /\ Clear(p)
  /\ Goto(p, "idle")
  /\ UNCHANGED <<queue, batch, history>>

\* Nothing is queued, one of the values is unreadable, or the queue cannot be
\* opened.
SyncStop(p) ==
  /\ pc[p] = "loop"
  /\ sent[p] < Limit(p)
  /\ \/ queue = {} /\ UNCHANGED faults
     \/ Oldest(queue, BatchSize(p)) \cap Unreadable # {} /\ UNCHANGED faults
     \/ Fault
  /\ Clear(p)
  /\ Goto(p, "idle")
  /\ UNCHANGED <<queue, batch, history>>

\* What a killed process had in memory is gone: a popped batch is nowhere else.
Crash(p) ==
  /\ pc[p] \notin {"idle", "finished"}
  /\ Fault
  /\ lost' = lost \cup batch[p]
  /\ batch' = [batch EXCEPT ![p] = {}]
  /\ Clear(p)
  /\ Goto(p, Over(p))
  /\ UNCHANGED <<queue, created, settled, unheard>>

Step(p) ==
  \/ RequestAnswered(p) \/ RequestError(p) \/ Requeue(p)
  \/ HandleResults(p) \/ HandleLeftovers(p)
  \/ SyncLimitReached(p) \/ SyncPop(p) \/ SyncStop(p)

Next == \E p \in Procs : Step(p) \/ StartSend(p) \/ StartSync(p) \/ Crash(p)

Spec == Init /\ [][Next]_vars

\* A started command runs on.
FairSpec == Spec /\ \A p \in Procs : WF_vars(Step(p))

\* And the user goes on working: a sync is started again after each sync.
KeepsSyncing == FairSpec /\ \A p \in Syncers : WF_vars(StartSync(p))

--------------------------------------------------------------------------------

Places == {"idle", "finished", "loop", "send", "requeue", "results", "leftovers"}

\* Every variable has the type of the Go value, or of the history, it stands for.
TypeOK ==
  /\ queue \subseteq Ids
  /\ pc \in [Procs -> Places]
  /\ batch \in [Procs -> SUBSET Ids]
  /\ todo \in [Procs -> SUBSET Nat]
  /\ verdict \in [Procs -> [Ids -> Statuses]]
  /\ sent \in [Procs -> Nat]
  /\ taken \in [Procs -> Nat]
  /\ err \in [Procs -> BOOLEAN]
  /\ created \subseteq Ids
  /\ settled \subseteq Ids
  /\ unheard \subseteq settled
  /\ lost \subseteq Ids
  /\ faults \in 0 .. MaxFaults

\* A heartbeat is in one place: in the queue or in the memory of one process, so
\* two concurrent syncs never send the same one.
OnePlace ==
  /\ \A p \in Procs : batch[p] \cap queue = {}
  /\ \A p, q \in Procs : p # q => batch[p] \cap batch[q] = {}

\* What the API settled and said so.
Heard == settled \ unheard

\* Every heartbeat is queued, in the hands of a process, settled by an answer of
\* the API, or was lost with a crash or a push that gave up: neither the results
\* of a request nor an error that leaves them unknown drop one.
NoSilentLoss ==
  \A h \in created : \/ h \in queue \cup Heard \cup lost
                     \/ \E p \in Procs : h \in batch[p]

\* Of the heartbeats the API took, or refused for good, only those whose answer
\* was lost with a request that failed are queued or sent again.
NeverSentAgain ==
  /\ queue \cap settled \subseteq unheard
  /\ \A p \in Procs :
       pc[p] = "send" => {h \in batch[p] : ApiKey[h] \in todo[p]}
                           \cap settled \subseteq unheard

\* No request has more than SendLimit heartbeats, and a sync whose limit is below
\* SendLimit takes no more than its limit from the queue.
SmallLimits ==
  \A p \in Syncers :
    /\ Cardinality(batch[p]) <= SendLimit
    /\ Limit(p) < SendLimit => taken[p] <= Limit(p)

\* The flag sync-offline-activity promises for every limit: no more than that
\* many heartbeats are sent from the queue by one sync.
SyncLimitRespected == \A p \in Syncers : taken[p] <= Limit(p)

\* A started sync ends, though it loops until the queue is empty and what the
\* API did not take is pushed back for it to pop again.
SyncEnds == \A p \in Syncers : pc[p] = "loop" ~> pc[p] = "idle"

\* The refinement mapping: a heartbeat an answer has settled is in nobody's hands, and
\* not lost with the process that was about to handle its result.
handsBar == [p \in Procs |-> batch[p] \ Heard]

lostBar == lost \ Heard

Life == INSTANCE HeartbeatLife WITH stored <- queue, hands <- handsBar, lost <- lostBar

\* However sends and syncs interleave, fail and die, each heartbeat is with one process
\* or stored until an answer of the API settles it, and none is lost without a failure.
ImplementsLife == Life!Spec

\* A heartbeat that could not be sent is sent at a later use of the command:
\* in the end an answer of the API settled it, or it was lost.
Settled == \A h \in Ids : h \in created ~> h \in Heard \cup lost
================================================================================
