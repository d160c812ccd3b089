---------------------------- MODULE HeartbeatCommand ----------------------------
(*****************************************************************************)
(* One start of the program with --entity, from its flags to its exit code:   *)
(* RunE (src/cmd/run.go) runs the heartbeat command                           *)
(* (src/cmd/heartbeat/heartbeat.go), which may save instead of send           *)
(* (src/cmd/offline/offline.go), and after a success the offline sync         *)
(* (src/cmd/offlinesync/offlinesync.go).  Several starts run at the same time *)
(* and share the queue, its legacy predecessor and the time of the last send. *)
(*                                                                           *)
(* The queue is AtomicQueue's, all heartbeats have one API key, and what       *)
(* handleResults does with an answer is one step: OfflineSync has its detail. *)
(*****************************************************************************)
EXTENDS QueueCalls

CONSTANTS
  Commands,   (* The starts of the program.                                   *)
  Beats,      (* The heartbeat of each and its extra heartbeats from stdin.   *)
  SendLimit,  (* SendLimit: heartbeats sent at once.                          *)
  SyncMax,    (* The limit of each sync.                                      *)
  NoLimit,    (* math.MaxInt32, what Sync takes for the limit 0.              *)
  Timeout,    (* The rate limit: time between two sends.                      *)
  Legacy,     (* The heartbeats that may be in the legacy queue file.         *)
  MaxClock,   (* Bound on the time.                                           *)
  MaxFaults   (* Bound on failures and kills.                                 *)

ASSUME CommandsAssumption ==
  /\ Beats \in [Commands -> SUBSET (Ids \ Legacy)]
  /\ \A p, q \in Commands : p # q => Beats[p] \cap Beats[q] = {}
  /\ Legacy \subseteq Ids

ASSUME NumbersAssumption ==
  /\ SendLimit \in Nat \ {0}
  /\ SyncMax \in [Commands -> Nat]
  /\ {NoLimit, Timeout, MaxFaults} \subseteq Nat
  /\ MaxClock \in Nat \ {0}

VARIABLES
  queue,    (* The heartbeats in each queue file.                             *)
  stamp,    (* heartbeats_last_sent_at in the internal config, 0 if unset.    *)
  clock,    (* time.Now().                                                    *)
  pc,       (* Where each command is.                                         *)
  disabled, (* The commands whose offline queue is disabled.                  *)
  seen,     (* The stamp as the command read it when it started.              *)
  file,     (* The file its batch is from, or new for its own heartbeats.     *)
  batch,    (* The heartbeats its main goroutine has in memory.               *)
  extra,    (* The heartbeats its saving goroutine has in memory.             *)
  sent,     (* alreadySent of its sync.                                       *)
  err,      (* The error its request returned.                                *)
  code,     (* Its exit code.                                                 *)
  created,  (* History: every heartbeat there ever was.                       *)
  late,     (* History: heartbeats that came back into the legacy file while  *)
            (* another command was about to remove it.                        *)
  settled,  (* History: heartbeats an answer said the API took or refused.    *)
  lost,     (* History: heartbeats lost with a kill or a push that gave up.   *)
  faults    (* Failures so far.                                               *)

vars == <<queue, stamp, clock, pc, disabled, seen, file, batch, extra, sent, err, code,
          created, late, settled, lost, faults>>

params == <<disabled, seen>>

Files == {"queue", "legacy"}

Init ==
  /\ queue \in [Files -> SUBSET Ids]
  /\ queue["legacy"] \subseteq Legacy
  /\ queue["queue"] \subseteq Ids \ (Legacy \cup UNION {Beats[p] : p \in Commands})
  /\ clock = 1
  /\ stamp \in {0, 1}
  /\ pc = [p \in Commands |-> "idle"]
  /\ disabled \in SUBSET Commands
  /\ seen = [p \in Commands |-> 0]
  /\ file = [p \in Commands |-> "new"]
  /\ batch = [p \in Commands |-> {}]
  /\ extra = [p \in Commands |-> {}]
  /\ sent = [p \in Commands |-> 0]
  /\ err = [p \in Commands |-> "none"]
  /\ code = [p \in Commands |-> "none"]
  /\ created = queue["queue"] \cup queue["legacy"]
  /\ late = {}
  /\ settled = {}
  /\ lost = {}
  /\ faults = 0

Goto(p, l) == pc' = [pc EXCEPT ![p] = l]

Hold(p, S) == batch' = [batch EXCEPT ![p] = S]

Exit(p, c) == Goto(p, "exit") /\ code' = [code EXCEPT ![p] = c]

Fault == faults < MaxFaults /\ faults' = faults + 1

\* pushHeartbeatsWithRetry of S succeeds, or gives up and loses L.
Push(f, S) == queue' = [queue EXCEPT ![f] = @ \cup S] /\ UNCHANGED <<lost, faults>>

PushFails(L) == lost' = lost \cup L /\ Fault /\ UNCHANGED queue

\* SaveHeartbeats pushes S, of which only what p holds is nowhere else.  It has no
\* error for a failed push, and it saves nothing when the queue is disabled.
SaveHeartbeats(p, S) ==
  \/ p \notin disabled /\ Push("queue", S)
  \/ p \notin disabled /\ PushFails(S \cap batch[p])
  \/ p \in disabled /\ lost' = lost \cup (S \cap batch[p]) /\ UNCHANGED <<queue, faults>>

--------------------------------------------------------------------------------
(* From the start to the request.                                              *)

\* The config files are read, once, into viper; if they cannot be parsed the
\* heartbeats are saved.
Start(p) ==
  /\ pc[p] = "idle"
  /\ seen' = [seen EXCEPT ![p] = stamp]
  /\ Hold(p, Beats[p])
  /\ created' = created \cup Beats[p]
  /\ \/ Goto(p, "params") /\ UNCHANGED faults
     \/ Goto(p, "configsave") /\ Fault
  /\ UNCHANGED <<queue, stamp, clock, disabled, file, extra, sent, err, code, late, settled, lost>>

\* Without a valid API key LoadParams returns ErrAuth.
LoadParams(p) ==
  /\ pc[p] = "params"
  /\ \/ Goto(p, "limit") /\ UNCHANGED faults
     \/ Goto(p, "authsave") /\ Fault
  /\ UNCHANGED <<queue, stamp, clock, params, file, batch, extra, sent, err, code,
                 created, late, settled, lost>>

RateLimited(p) ==
  /\ p \notin disabled
  /\ Timeout # 0
  /\ seen[p] # 0
  /\ clock - seen[p] < Timeout

\* Too early: the heartbeats are saved and the command is done.
SaveRateLimited(p) ==
  /\ pc[p] = "limit"
  /\ RateLimited(p)
  /\ SaveHeartbeats(p, Beats[p])
  /\ Hold(p, {})
  /\ Goto(p, "synccheck")
  /\ UNCHANGED <<stamp, clock, params, file, extra, sent, err, code, created, late, settled>>

\* The heartbeats beyond SendLimit go to a goroutine.
SplitHeartbeats(p) ==
  /\ pc[p] = "limit"
  /\ ~ RateLimited(p)
  /\ LET first == Oldest(Beats[p], SendLimit)
     IN /\ Hold(p, first)
        /\ extra' = [extra EXCEPT ![p] = Beats[p] \ first]
  /\ Goto(p, "client")
  /\ UNCHANGED <<queue, stamp, clock, params, file, sent, err, code, created, late, settled, lost, faults>>

NewClient(p) ==
  /\ pc[p] = "client"
  /\ Goto(p, "send")
  /\ UNCHANGED <<queue, stamp, clock, params, file, batch, extra, sent, err, code,
                 created, late, settled, lost, faults>>

\* Mutant of NewClientFails: the error is returned without saving the heartbeats.
NewClientFailsUnsaved(p) ==
  /\ pc[p] = "client"
  /\ Fault
  /\ Hold(p, {})
  /\ Exit(p, "generic")
  /\ UNCHANGED <<queue, stamp, clock, params, file, extra, sent, err, created, late, settled, lost>>

NewClientFails(p) ==
  /\ pc[p] = "client"
  /\ SaveHeartbeats(p, batch[p])
  /\ Hold(p, {})
  /\ Exit(p, "generic")
  /\ UNCHANGED <<stamp, clock, params, file, extra, sent, err, created, late, settled>>

\* The goroutine that saves the extra heartbeats, while its process lives.
SaveExtra(p) ==
  /\ pc[p] \notin {"idle", "exit"}
  /\ extra[p] # {}
  /\ \/ p \notin disabled /\ Push("queue", extra[p])
     \/ p \notin disabled /\ PushFails(extra[p])
     \/ p \in disabled /\ lost' = lost \cup extra[p] /\ UNCHANGED <<queue, faults>>
  /\ extra' = [extra EXCEPT ![p] = {}]
  /\ UNCHANGED <<stamp, clock, pc, params, file, batch, sent, err, code, created, late, settled>>

\* After ErrAuth, or a config that cannot be parsed, all heartbeats are saved,
\* those that WithQueue has queued already included.
SaveAtEnd(p) ==
  /\ pc[p] \in {"configsave", "authsave"}
  /\ SaveHeartbeats(p, Beats[p])
  /\ Hold(p, {})
  /\ Exit(p, IF pc[p] = "configsave" THEN "config" ELSE "auth")
  /\ UNCHANGED <<stamp, clock, params, file, extra, sent, err, created, late, settled>>

--------------------------------------------------------------------------------
(* The request, WithBackoff and WithQueue, for the command's own heartbeats and *)
(* for the batches of its sync.                                                *)

\* The API takes or refuses some of the batch, the rest is still to be queued.
Answered(p) ==
  /\ pc[p] = "send"
  /\ \E done \in SUBSET batch[p] :
       /\ settled' = settled \cup done
       /\ Hold(p, batch[p] \ done)
       /\ IF done = batch[p] THEN UNCHANGED faults ELSE Fault
  /\ Goto(p, "results")
  /\ UNCHANGED <<queue, stamp, clock, params, file, extra, sent, err, code, created, late, lost>>

\* ErrAuth, or another error: Err, ErrTimeout, ErrBadRequest, ErrBackoff.
RequestFails(p) ==
  /\ pc[p] = "send"
  /\ Fault
  /\ \E e \in {"auth", "api"} : err' = [err EXCEPT ![p] = e]
  /\ Goto(p, "requeue")
  /\ UNCHANGED <<queue, stamp, clock, params, file, batch, extra, sent, code,
                 created, late, settled, lost>>

Target(p) == IF file[p] = "legacy" THEN "legacy" ELSE "queue"

\* Only the command's own heartbeats may be sent with the queue disabled.
PushBack(p, S) ==
  \/ p \notin disabled /\ Push(Target(p), S)
  \/ p \in disabled /\ lost' = lost \cup S /\ UNCHANGED <<queue, faults>>

\* What comes back into the legacy file when it is about to be removed.
Returned ==
  late' = IF \E p \in Commands : pc[p] = "remove"
          THEN late \cup (queue'["legacy"] \ queue["legacy"])
          ELSE late

\* A failed sync of the legacy file is only logged, and the queue's turn comes.
SyncFailed(p) ==
  \/ /\ file[p] = "legacy"
     /\ file' = [file EXCEPT ![p] = "queue"]
     /\ sent' = [sent EXCEPT ![p] = 0]
     /\ Goto(p, "sync")
     /\ UNCHANGED code
  \/ /\ file[p] = "queue"
     /\ Exit(p, "generic")
     /\ UNCHANGED <<file, sent>>

\* A failed push of the command's own heartbeats hides the error of the request.
Requeue(p) ==
  /\ pc[p] = "requeue"
  /\ Hold(p, {})
  /\ \/ /\ PushBack(p, batch[p])
        /\ \/ file[p] = "new" /\ err[p] = "auth" /\ Goto(p, "authsave") /\ UNCHANGED <<file, sent, code>>
           \/ file[p] = "new" /\ err[p] = "api" /\ Exit(p, "api") /\ UNCHANGED <<file, sent>>
           \/ SyncFailed(p)
     \/ /\ PushFails(batch[p])
        /\ \/ file[p] = "new" /\ Exit(p, "generic") /\ UNCHANGED <<file, sent>>
           \/ SyncFailed(p)
  /\ Returned
  /\ UNCHANGED <<stamp, clock, params, extra, err, created, settled>>

Succeeded(p) ==
  /\ Goto(p, IF file[p] = "new" THEN "reset" ELSE "sync")
  /\ UNCHANGED <<file, sent, code>>

\* handleResults pushes the rest in one or two parts; of two, only the error of
\* the second is returned.
HandleResults(p) ==
  /\ pc[p] = "results"
  /\ Hold(p, {})
  /\ \/ PushBack(p, batch[p]) /\ Succeeded(p)
     \/ \E L \in SUBSET batch[p] \ {{}} :
          /\ p \notin disabled
          /\ Fault
          /\ lost' = lost \cup L
          /\ queue' = [queue EXCEPT ![Target(p)] = @ \cup (batch[p] \ L)]
          /\ \/ L # batch[p] /\ Succeeded(p)
             \/ file[p] = "new" /\ Exit(p, "generic") /\ UNCHANGED <<file, sent>>
             \/ SyncFailed(p)
  /\ Returned
  /\ UNCHANGED <<stamp, clock, params, extra, err, created, settled>>

\* Mutant of ResetRateLimit: the end of the rate limit is stored, not its start.
ResetRateLimitAhead(p) ==
  /\ pc[p] = "reset"
  /\ stamp' = clock + Timeout
  /\ \/ file[p] = "new" /\ Goto(p, "synccheck") /\ UNCHANGED code
     \/ file[p] # "new" /\ Exit(p, "success")
  /\ UNCHANGED <<queue, clock, params, file, batch, extra, sent, err, created, late, settled, lost, faults>>

\* ResetRateLimit: a failure is only logged.
ResetRateLimit(p) ==
  /\ pc[p] = "reset"
  /\ \/ stamp' = clock /\ UNCHANGED faults
     \/ Fault /\ UNCHANGED stamp
  /\ \/ file[p] = "new" /\ Goto(p, "synccheck") /\ UNCHANGED code
     \/ file[p] # "new" /\ Exit(p, "success")
  /\ UNCHANGED <<queue, clock, params, file, batch, extra, sent, err, created, late, settled, lost>>

--------------------------------------------------------------------------------
(* The sync after a successful command.                                        *)

\* The stamp it looks at is the one read at the start.
SkipSync(p) ==
  /\ pc[p] = "synccheck"
  /\ p \in disabled \/ RateLimited(p)
  /\ Exit(p, "success")
  /\ UNCHANGED <<queue, stamp, clock, params, file, batch, extra, sent, err,
                 created, late, settled, lost, faults>>

\* Mutant of StartSync: a sync is started with the queue disabled, too.
StartSyncAlways(p) ==
  /\ pc[p] = "synccheck"
  /\ ~ RateLimited(p)
  /\ file' = [file EXCEPT ![p] = "legacy"]
  /\ Goto(p, "sync")
  /\ UNCHANGED <<queue, stamp, clock, params, batch, extra, sent, err, code,
                 created, late, settled, lost, faults>>

\* The legacy file comes first, if there is one: an empty one may be missing.
StartSync(p) ==
  /\ pc[p] = "synccheck"
  /\ p \notin disabled /\ ~ RateLimited(p)
  /\ \/ file' = [file EXCEPT ![p] = "legacy"]
     \/ queue["legacy"] = {} /\ file' = [file EXCEPT ![p] = "queue"]
  /\ Goto(p, "sync")
  /\ UNCHANGED <<queue, stamp, clock, params, batch, extra, sent, err, code,
                 created, late, settled, lost, faults>>

Limit(p) == IF SyncMax[p] = 0 THEN NoLimit ELSE SyncMax[p]

LastBatch(p) == sent[p] + SendLimit > Limit(p)

BatchSize(p) == IF LastBatch(p) THEN Limit(p) - sent[p] ELSE SendLimit

SyncPop(p) ==
  /\ pc[p] = "sync"
  /\ sent[p] < Limit(p)
  /\ LET hh == Oldest(queue[file[p]], BatchSize(p))
     IN /\ hh # {}
        /\ queue' = [queue EXCEPT ![file[p]] = @ \ hh]
        /\ Hold(p, hh)
        /\ late' = late \ (queue["legacy"] \ queue'["legacy"])
  /\ sent' = [sent EXCEPT ![p] = IF LastBatch(p) THEN @ + BatchSize(p) ELSE @]
  /\ Goto(p, "send")
  /\ UNCHANGED <<stamp, clock, params, file, extra, err, code, created, settled, lost, faults>>

SyncPopFails(p) ==
  /\ pc[p] = "sync"
  /\ sent[p] < Limit(p)
  /\ Fault
  /\ SyncFailed(p)
  /\ UNCHANGED <<queue, stamp, clock, params, batch, extra, err, created, late, settled, lost>>

\* The sync of one file is done: it was found empty, and is closed, or the limit is
\* reached.
SyncDone(p) ==
  /\ pc[p] = "sync"
  /\ sent[p] >= Limit(p) \/ queue[file[p]] = {}
  /\ Goto(p, IF file[p] = "legacy" THEN "remove" ELSE "reset")
  /\ UNCHANGED <<queue, stamp, clock, params, file, batch, extra, sent, err, code,
                 created, late, settled, lost, faults>>

\* Mutant of RemoveLegacy: after the legacy file its sync starts over.
RemoveLegacyAgain(p) ==
  /\ pc[p] = "remove"
  /\ queue' = [queue EXCEPT !["legacy"] = {}]
  /\ sent' = [sent EXCEPT ![p] = 0]
  /\ Goto(p, "sync")
  /\ UNCHANGED <<stamp, clock, params, file, batch, extra, err, code, created, late, settled, lost,
                 faults>>

\* The legacy file is removed, whatever is in it by now; a failure is only logged.
RemoveLegacy(p) ==
  /\ pc[p] = "remove"
  /\ \/ queue' = [queue EXCEPT !["legacy"] = {}] /\ UNCHANGED faults
     \/ Fault /\ UNCHANGED queue
  /\ file' = [file EXCEPT ![p] = "queue"]
  /\ sent' = [sent EXCEPT ![p] = 0]
  /\ Goto(p, "sync")
  /\ UNCHANGED <<stamp, clock, params, batch, extra, err, code, created, late, settled, lost>>

--------------------------------------------------------------------------------

\* The process is killed, or panics: what it had in memory is gone.
Crash(p) ==
  /\ pc[p] \notin {"idle", "exit"}
  /\ Fault
  /\ lost' = lost \cup batch[p] \cup extra[p]
  /\ Hold(p, {})
  /\ extra' = [extra EXCEPT ![p] = {}]
  /\ Exit(p, "crash")
  /\ UNCHANGED <<queue, stamp, clock, params, file, sent, err, created, late, settled>>

Tick ==
  /\ clock < MaxClock
  /\ clock' = clock + 1
  /\ UNCHANGED <<queue, stamp, pc, params, file, batch, extra, sent, err, code,
                 created, late, settled, lost, faults>>

Step(p) ==
  \/ LoadParams(p) \/ SaveRateLimited(p) \/ SplitHeartbeats(p)
  \/ NewClient(p) \/ NewClientFails(p) \/ SaveAtEnd(p)
  \/ Answered(p) \/ RequestFails(p) \/ Requeue(p) \/ HandleResults(p) \/ ResetRateLimit(p)
  \/ SkipSync(p) \/ StartSync(p) \/ SyncPop(p) \/ SyncPopFails(p) \/ SyncDone(p)
  \/ RemoveLegacy(p)

AllExited == \A p \in Commands : pc[p] = "exit"

Next ==
  \/ \E p \in Commands : Start(p) \/ Step(p) \/ SaveExtra(p) \/ Crash(p)
  \/ Tick
  \/ AllExited /\ UNCHANGED vars

Spec == Init /\ [][Next]_vars

\* A started command runs on; its goroutine need not.
FairSpec == Spec /\ \A p \in Commands : WF_vars(Step(p))

--------------------------------------------------------------------------------

Places ==
  {"idle", "params", "limit", "client", "send", "requeue", "results", "reset", "synccheck",
   "sync", "remove", "configsave", "authsave", "exit"}

\* Every variable has the type of the Go value, or of the history, it stands for.
TypeOK ==
  /\ queue \in [Files -> SUBSET Ids]
  /\ stamp \in 0 .. MaxClock
  /\ clock \in 1 .. MaxClock
  /\ pc \in [Commands -> Places]
  /\ disabled \subseteq Commands
  /\ seen \in [Commands -> 0 .. MaxClock]
  /\ file \in [Commands -> Files \cup {"new"}]
  /\ batch \in [Commands -> SUBSET Ids]
  /\ extra \in [Commands -> SUBSET Ids]
  /\ sent \in [Commands -> Nat]
  /\ err \in [Commands -> {"none", "auth", "api"}]
  /\ code \in [Commands -> {"none", "success", "generic", "api", "auth", "config", "crash"}]
  /\ created \subseteq Ids
  /\ late \subseteq Ids
  /\ settled \subseteq Ids
  /\ lost \subseteq Ids
  /\ faults \in 0 .. MaxFaults

\* Whether h is queued, in the memory of a command that still runs, settled by the
\* API, or lost with a kill, a push that gave up or a disabled queue.
Kept(h) ==
  \/ h \in settled \cup lost \cup queue["queue"] \cup queue["legacy"]
  \/ \E p \in Commands : pc[p] # "exit" /\ h \in batch[p] \cup extra[p]

\* A heartbeat is never forgotten, whichever way the command goes through its checks,
\* errors and saves (heartbeat.go, offline.go, offlinesync.go), but for the extra
\* heartbeats of a command that exited before its goroutine had saved them, and those
\* that came back into the legacy file between another command's last look into it and
\* its removal.
OnlyExtrasForgotten ==
  \A h \in created : \/ Kept(h) \/ h \in late
                     \/ \E p \in Commands : pc[p] = "exit" /\ h \in extra[p]

\* A command with the queue disabled leaves it alone: none of its heartbeats are
\* ever queued, and it sends none of others.
DisabledKeepsOut ==
  \A p \in disabled :
    /\ Beats[p] \cap (queue["queue"] \cup queue["legacy"]) = {}
    /\ batch[p] \cup extra[p] \subseteq Beats[p]

\* A rate limited command may only end without a request when its heartbeats are
\* saved: if they cannot be, "try to send heartbeats to API so they're not lost".
RateLimitedSaved ==
  [][\A p \in Commands :
       pc[p] = "limit" /\ pc'[p] = "synccheck" => Beats[p] \subseteq queue'["queue"]]_vars

\* Heartbeats leave the legacy queue only to be sent: "syncs the old offline activity
\* by sending heartbeats from the legacy offline queue" (offlinesync.go).
LegacyIsSent ==
  [][\A h \in queue["legacy"] \ queue'["legacy"] : \E p \in Commands : h \in batch'[p]]_vars

\* A command goes on after its own request when its extra heartbeats are saved:
\* "wait for offline queue save to finish" (heartbeat.go).
ExtrasAwaited == \A p \in Commands : file[p] = "new" /\ pc[p] = "reset" => extra[p] = {}

\* Every started command exits, though its sync loops over a queue others fill.
CommandEnds == \A p \in Commands : pc[p] # "idle" ~> pc[p] = "exit"
================================================================================
