-------------------------------- MODULE Backoff ---------------------------------
(*****************************************************************************)
(* The sending of a command's heartbeats through WithBackoff                  *)
(* (src/pkg/backoff/backoff.go): each start of the program reads when and how  *)
(* often sending failed, makes no request while it backs off, and counts a     *)
(* failure or resets the count in the internal config, which other starts read *)
(* and write at the same time.  After a success it also stores the time of the *)
(* send (ResetRateLimit), with a save of the whole file; after an error        *)
(* WithQueue queues the heartbeats.                                           *)
(*                                                                           *)
(* The config is InternalConfig's and the request ApiClient's.  A push to the  *)
(* queue is one step.  A process may start again and again.                   *)
(*****************************************************************************)
EXTENDS InternalConfig

CONSTANTS
  Factor,      (* factor: the seconds that are doubled by each failure.       *)
  MaxBackoff,  (* maxBackoffSecs.                                             *)
  NtlmProxy,   (* The processes with an NTLM proxy.                           *)
  CustomUrl,   (* The processes with another API.                             *)
  Pause,       (* The seconds that pass at a time.                            *)
  FirstClock,  (* The time at first.                                          *)
  LastFailure, (* Bound on the time at which requests may fail.               *)
  MaxClock,    (* Bound on the time.                                          *)
  MaxFailures  (* Bound on the failed requests.                               *)

ASSUME KeysAssumption == Keys = {"retries", "at"}

ASSUME BackoffAssumption ==
  /\ {Factor, MaxBackoff, LastFailure, MaxClock, MaxFailures} \subseteq Nat
  /\ Pause \in Nat \ {0}
  /\ FirstClock \in Nat \ (0 .. 1)

VARIABLES
  request, transport, timed, host, body,  (* Of ApiClient.                    *)
  clock,     (* time.Now(), in seconds.                                       *)
  pc,        (* Where each process is.                                        *)
  seen,      (* The config as it read it when it started.                     *)
  fate,      (* What became of its heartbeats.                                *)
  failures,  (* History: how many requests failed.                            *)
  failedAt   (* History: when the last request failed.                        *)

Client == INSTANCE ApiClient

clientVars == <<request, transport, timed, host, body>>

procVars == <<clock, pc, seen, fate, failures, failedAt>>

vars == <<configVars, clientVars, procVars>>

\* A request has failed before, which the file still says or no longer does; or there
\* is no file.
Init ==
  /\ ConfigInit
  /\ Client!ClientInit
  /\ clock = FirstClock
  /\ pc = [p \in Procs |-> "idle"]
  /\ seen = [p \in Procs |-> Empty]
  /\ fate = [p \in Procs |-> "none"]
  /\ failures = 1
  /\ failedAt \in 1 .. 2
  /\ file \in {Empty, [retries |-> 1, at |-> failedAt]}
  /\ ~ exists => file = Empty

Goto(p, l) == pc' = [pc EXCEPT ![p] = l]

\* LoadAPIParams takes a time in the future for the present one.
Clamped(f) == [f EXCEPT !["at"] = IF @ > clock THEN clock ELSE @]

Forget(p) == seen' = [seen EXCEPT ![p] = Empty]

\* parseConfigFiles and LoadAPIParams.
Start(p) ==
  /\ pc[p] \in {"idle", "exit"}
  /\ seen' = [seen EXCEPT ![p] = Clamped(file)]
  /\ fate' = [fate EXCEPT ![p] = "held"]
  /\ Goto(p, "decide")
  /\ UNCHANGED <<configVars, clientVars, clock, failures, failedAt>>

Delay(n) == Factor * 2 ^ n

\* Mutant of ShouldBackoff: the maximum is not applied.
ShouldBackoffLong(p) ==
  LET n == seen[p]["retries"]
      at == seen[p]["at"]
  IN n # 0 /\ at # 0 /\ at + Delay(n) >= clock

\* Mutant of ShouldBackoff: a backoff does not end.
ShouldBackoffEver(p) ==
  LET n == seen[p]["retries"]
      at == seen[p]["at"]
  IN n # 0 /\ at # 0 /\ Delay(n) <= MaxBackoff

ShouldBackoff(p) ==
  LET n == seen[p]["retries"]
      at == seen[p]["at"]
  IN n # 0 /\ at # 0 /\ Delay(n) \in 0 .. MaxBackoff /\ at + Delay(n) >= clock

\* Mutant of Failure: a misspelled key.
FailureMisspelled(p) == [retry |-> seen[p]["retries"] + 1, at |-> clock]

\* One more than was read at the start.
Failure(p) == [retries |-> seen[p]["retries"] + 1, at |-> clock]

\* Mutant of BackOff: it counts as a failure.
BackOffCounts(p) ==
  /\ pc[p] = "decide"
  /\ ShouldBackoff(p)
  /\ Invoke(p, Failure(p))
  /\ Forget(p)
  /\ Goto(p, "counted")
  /\ UNCHANGED <<clientVars, clock, fate, failures, failedAt>>

\* ErrBackoff.
BackOff(p) ==
  /\ pc[p] = "decide"
  /\ ShouldBackoff(p)
  /\ Forget(p)
  /\ Goto(p, "queue")
  /\ UNCHANGED <<configVars, clientVars, clock, fate, failures, failedAt>>

Attempt(p) ==
  /\ pc[p] = "decide"
  /\ ~ ShouldBackoff(p)
  /\ Client!NewRequest(p)
  /\ Goto(p, "request")
  /\ UNCHANGED <<configVars, clock, seen, fate, failures, failedAt>>

RequestSucceeds(p) ==
  /\ pc[p] = "request"
  /\ Client!Answer(p)
  /\ UNCHANGED <<configVars, procVars>>

\* Up to the bounds; and an attempt whose body was read before has to fail.
RequestFails(p) ==
  /\ pc[p] = "request"
  /\ (clock <= LastFailure /\ failures < MaxFailures) \/ body[p] = "read"
  /\ Client!AttemptFails(p)
  /\ UNCHANGED <<configVars, procVars>>

\* The error comes to WithBackoff.
CountFailure(p) ==
  /\ pc[p] = "request"
  /\ request[p] = "failed"
  /\ Invoke(p, Failure(p))
  /\ Client!Finish(p)
  /\ Forget(p)
  /\ failures' = failures + 1
  /\ failedAt' = clock
  /\ Goto(p, "counted")
  /\ UNCHANGED <<clock, fate>>

\* runCmd recovers from the panic: nothing is queued.
Panic(p) ==
  /\ pc[p] = "request"
  /\ request[p] = "panicked"
  /\ Client!Finish(p)
  /\ Forget(p)
  /\ fate' = [fate EXCEPT ![p] = "lost"]
  /\ Goto(p, "exit")
  /\ UNCHANGED <<configVars, clock, failures, failedAt>>

\* Mutant of Counted: the error is not passed on.
CountedDrops(p) ==
  /\ pc[p] = "counted"
  /\ At(p, "none")
  /\ Goto(p, "exit")
  /\ UNCHANGED <<configVars, clientVars, clock, seen, fate, failures, failedAt>>

\* The write after a failure has returned.  The error goes to WithQueue.
Counted(p) ==
  /\ pc[p] = "counted"
  /\ At(p, "none")
  /\ Goto(p, "queue")
  /\ UNCHANGED <<configVars, clientVars, clock, seen, fate, failures, failedAt>>

Queue(p) ==
  /\ pc[p] = "queue"
  /\ fate' = [fate EXCEPT ![p] = "safe"]
  /\ Goto(p, "exit")
  /\ UNCHANGED <<configVars, clientVars, clock, seen, failures, failedAt>>

NeedsReset(p) == seen[p]["retries"] > 0 \/ seen[p]["at"] # 0

Cleared == [retries |-> 0, at |-> 0]

\* A success resets what was read at the start, if it was set.
Reset(p) ==
  /\ pc[p] = "request"
  /\ request[p] = "taken"
  /\ \/ NeedsReset(p) /\ Invoke(p, Cleared)
     \/ ~ NeedsReset(p) /\ UNCHANGED configVars
  /\ Client!Finish(p)
  /\ Forget(p)
  /\ fate' = [fate EXCEPT ![p] = "safe"]
  /\ Goto(p, "reset")
  /\ UNCHANGED <<clock, failures, failedAt>>

\* The key it writes is not one of Keys: it loads and saves the others.
ResetRateLimit(p) ==
  /\ pc[p] = "reset"
  /\ Invoke(p, NoPairs)
  /\ Goto(p, "stamped")
  /\ UNCHANGED <<clientVars, clock, seen, fate, failures, failedAt>>

Done(p) ==
  /\ pc[p] = "stamped"
  /\ At(p, "none")
  /\ Goto(p, "exit")
  /\ UNCHANGED <<configVars, clientVars, clock, seen, fate, failures, failedAt>>

\* A step of NewWriter or Write.
Write(p) == WriteStep(p) /\ UNCHANGED <<clientVars, procVars>>

Kill(p) ==
  /\ pc[p] \notin {"idle", "exit"}
  /\ Abandon(p)
  /\ Client!Finish(p)
  /\ Forget(p)
  /\ fate' = [fate EXCEPT ![p] = "none"]
  /\ Goto(p, "idle")
  /\ UNCHANGED <<clock, failures, failedAt>>

\* A failure is counted in the second of the failure.
Tick ==
  /\ clock < MaxClock
  /\ \A p \in Procs : request[p] # "failed"
  /\ clock' = clock + Pause
  /\ UNCHANGED <<configVars, clientVars, pc, seen, fate, failures, failedAt>>

Step(p) ==
  \/ BackOff(p) \/ Attempt(p) \/ RequestSucceeds(p) \/ RequestFails(p)
  \/ CountFailure(p) \/ Counted(p) \/ Queue(p) \/ Panic(p)
  \/ Reset(p) \/ ResetRateLimit(p) \/ Done(p)
  \/ Write(p)

Next ==
  \/ \E p \in Procs : Start(p) \/ Step(p) \/ Kill(p)
  \/ Tick

Spec == Init /\ [][Next]_vars

\* Time goes on, a process that was started runs on, and the editors start the program
\* again and again.
KeepsRunning ==
  Spec /\ WF_vars(Tick) /\ \A p \in Procs : WF_vars(Start(p) \/ Step(p))

--------------------------------------------------------------------------------

PcPlaces == {"idle", "decide", "request", "counted", "queue", "reset", "stamped", "exit"}

\* Every variable has the type of the Go value, or of the history, it stands for.
TypeOK ==
  /\ file \in Contents
  /\ exists \in BOOLEAN
  /\ mutex \in Procs \cup {Nobody}
  /\ place \in [Procs -> Places]
  /\ \A p \in Procs :
       /\ DOMAIN pairs[p] \subseteq Keys
       /\ \A k \in DOMAIN pairs[p] : pairs[p][k] \in Nat
  /\ image \in [Procs -> Contents]
  /\ overtaken \in BOOLEAN
  /\ faults \in 0 .. MaxFaults
  /\ request \in [Procs -> Client!Requests]
  /\ transport \in [Procs -> {"plain", "ntlm", "address"}]
  /\ timed \in [Procs -> BOOLEAN]
  /\ host \in [Procs -> {"name", "address"}]
  /\ body \in [Procs -> {"unread", "read"}]
  /\ clock \in Nat
  /\ pc \in [Procs -> PcPlaces]
  /\ seen \in [Procs -> Contents]
  /\ fate \in [Procs -> {"none", "held", "safe", "lost"}]
  /\ failures \in Nat
  /\ failedAt \in Nat

\* Unless a writer has overtaken the holder of the mutex, the count of failures and
\* the time of the last one are both set or both unset in the file, in every
\* interleaving of loads, saves, failed saves and kills (ini.go).
PairKept == ~ overtaken => (file["retries"] = 0 <=> file["at"] = 0)

\* A command that makes no request has a failure of the last maxBackoffSecs seconds
\* for it: "maxBackoff sets the maximum seconds we will rate limit" (backoff.go).
BackoffJustified ==
  \A p \in Procs :
    pc[p] = "decide" /\ ShouldBackoff(p) => clock <= failedAt + MaxBackoff

\* A failure is counted once: no process ever reads more retries than there were
\* failed requests, whatever writes were undone or mixed (backoff.go, ini.go).
CountedFailures == \A p \in Procs : seen[p]["retries"] <= failures /\ file["retries"] <= failures

\* When a command ends, its heartbeats were taken by the API or queued: "the heartbeats
\* will be temporarily stored in a DB" (WithQueue); unless the program panicked, which
\* only the second retry through an NTLM proxy does (option.go, transport.go).
TakenOrQueued ==
  \A p \in Procs : pc[p] = "exit" => fate[p] = "safe" \/ (fate[p] = "lost" /\ p \in NtlmProxy)

\* Every call of Write returns, whoever died with the mutex or is slow.
WritesEnd == \A p \in Procs : ~ At(p, "none") ~> At(p, "none")

\* Once the API answers again, a program that is started again and again gets its
\* heartbeats through: no state of the config file backs it off for ever.
Recovers == \A p \in Procs : []<>(pc[p] = "reset")
================================================================================
