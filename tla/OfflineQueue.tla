------------------------------ MODULE OfflineQueue ------------------------------
(*****************************************************************************)
(* The offline queue on its bbolt file (src/pkg/offline/offline.go): every   *)
(* call opens the database file under an exclusive file lock, begins a write *)
(* transaction, works on the bucket, commits or rolls back, and closes the   *)
(* file.  A client is one opener of the file: a wakatime-cli process, or one *)
(* of its goroutines, since bbolt's lock also excludes a second handle of    *)
(* the same process.                                                         *)
(*****************************************************************************)
EXTENDS QueueCalls

CONSTANTS
  Clients,            (* The openers of the database file.                    *)
  NoClient,           (* Nobody holds the file lock.                          *)
  MaxRequeueAttempts  (* maxRequeueAttempts: tries of one push.               *)

ASSUME ClientsAssumption == NoClient \notin Clients

ASSUME AttemptsAssumption == MaxRequeueAttempts \in Nat \ {0}

VARIABLES
  db,        (* The committed keys of the bucket.                             *)
  owner,     (* Who holds the lock of the database file.                      *)
  pc,        (* Where each client is in its call.                             *)
  call,      (* The call each client is making.                               *)
  work,      (* The keys as the client's open transaction sees them.          *)
  got,       (* The heartbeats the body of the call read.                     *)
  res,       (* What the call will return: none (yet), ok or error.           *)
  attempts   (* Failed tries of the push under way (count).                   *)

vars == <<db, owner, pc, call, work, got, res, attempts>>

Init ==
  /\ db \in SUBSET (Ids \ Unstorable)
  /\ owner = NoClient
  /\ pc = [p \in Clients |-> "idle"]
  /\ call = [p \in Clients |-> NoCall]
  /\ work = [p \in Clients |-> {}]
  /\ got = [p \in Clients |-> {}]
  /\ res = [p \in Clients |-> "none"]
  /\ attempts = [p \in Clients |-> 0]

--------------------------------------------------------------------------------

Goto(p, l) == pc' = [pc EXCEPT ![p] = l]

Outcome(p, r) == res' = [res EXCEPT ![p] = r]

\* pushHeartbeatsWithRetry counts the failed try and sleeps; the other calls
\* return their error.
GiveUpTry(p) ==
  /\ Outcome(p, "error")
  /\ \/ /\ call[p].op = "push"
        /\ Goto(p, "sleep")
        /\ attempts' = [attempts EXCEPT ![p] = @ + 1]
     \/ /\ call[p].op # "push"
        /\ Goto(p, "return")
        /\ UNCHANGED attempts

Invoke(p, c) ==
  /\ pc[p] = "idle"
  /\ Goto(p, "open")
  /\ call' = [call EXCEPT ![p] = c]
  /\ UNCHANGED <<db, owner, work, got, res, attempts>>
\* Mutant of OpenDB: the file is opened without its lock.
OpenUnlocked(p) ==
  /\ pc[p] = "open"
  /\ owner' = p
  /\ Goto(p, "begin")
  /\ UNCHANGED <<db, call, work, got, res, attempts>>

\* bolt.Open: takes the file lock, retrying while another handle has it.
OpenDB(p) ==
  /\ pc[p] = "open"
  /\ owner = NoClient
  /\ owner' = p
  /\ Goto(p, "begin")
  /\ UNCHANGED <<db, call, work, got, res, attempts>>
\* Mutant of OpenTimeout: bolt.Open without a timeout waits on.
OpenWaits(p) == pc[p] = "open" /\ owner # NoClient /\ UNCHANGED vars

\* bolt.Open gives up after Options.Timeout (30s) without the lock.
OpenTimeout(p) ==
  /\ pc[p] = "open"
  /\ owner # NoClient
  /\ GiveUpTry(p)
  /\ UNCHANGED <<db, owner, call, work, got>>

\* bolt.Open fails on the file itself, or panics and openDB recovers.
OpenError(p) ==
  /\ pc[p] = "open"
  /\ owner = NoClient
  /\ GiveUpTry(p)
  /\ UNCHANGED <<db, owner, call, work, got>>
\* Mutant of Begin: a retry goes on with what its failed transaction saw.
BeginAgain(p) ==
  /\ pc[p] = "begin"
  /\ work' = [work EXCEPT ![p] = IF attempts[p] > 0 THEN @ ELSE db]
  /\ Goto(p, "body")
  /\ UNCHANGED <<db, owner, call, got, res, attempts>>

\* db.Begin(true): the transaction sees what is committed.
Begin(p) ==
  /\ pc[p] = "begin"
  /\ work' = [work EXCEPT ![p] = db]
  /\ Goto(p, "body")
  /\ UNCHANGED <<db, owner, call, got, res, attempts>>

--------------------------------------------------------------------------------

\* A heartbeat the bucket refuses makes pushHeartbeats return without ending its
\* transaction: the deferred db.Close() then waits for that very transaction.
PushMany(p) ==
  /\ pc[p] = "body"
  /\ call[p].op = "push"
  /\ \/ /\ call[p].hh \cap Unstorable = {}
        /\ work' = [work EXCEPT ![p] = @ \cup call[p].hh]
        /\ Goto(p, "commit")
     \/ /\ call[p].hh \cap Unstorable # {}
        /\ Goto(p, "hung")
        /\ UNCHANGED work
  /\ UNCHANGED <<db, owner, call, got, res, attempts>>
\* Mutant of PopMany: values that cannot be decoded are skipped and deleted.
PopSkipping(p) ==
  /\ pc[p] = "body"
  /\ call[p].op = "pop"
  /\ LET hh == Oldest(work[p], call[p].limit)
     IN /\ got' = [got EXCEPT ![p] = hh \ Unreadable]
        /\ work' = [work EXCEPT ![p] = @ \ hh]
  /\ Goto(p, "commit")
  /\ UNCHANGED <<db, owner, call, res, attempts>>

\* One unreadable value among the first limit ones fails the whole call.
PopMany(p) ==
  /\ pc[p] = "body"
  /\ call[p].op = "pop"
  /\ LET hh == Oldest(work[p], call[p].limit)
     IN \/ /\ hh \cap Unreadable = {}
           /\ got' = [got EXCEPT ![p] = hh]
           /\ work' = [work EXCEPT ![p] = @ \ hh]
           /\ Goto(p, "commit")
           /\ UNCHANGED res
        \/ /\ hh \cap Unreadable # {}
           /\ Outcome(p, "error")
           /\ Goto(p, "rollback")
           /\ UNCHANGED <<got, work>>
  /\ UNCHANGED <<db, owner, call, attempts>>

ReadMany(p) ==
  /\ pc[p] = "body"
  /\ call[p].op = "read"
  /\ LET hh == Oldest(work[p], call[p].limit)
     IN \/ /\ hh \cap Unreadable = {}
           /\ got' = [got EXCEPT ![p] = hh]
           /\ Outcome(p, "ok")
        \/ /\ hh \cap Unreadable # {}
           /\ Outcome(p, "error")
           /\ UNCHANGED got
  /\ Goto(p, "rollback")
  /\ UNCHANGED <<db, owner, call, work, attempts>>

\* Bucket.Stats counts the keys without decoding a value.
Count(p) ==
  /\ pc[p] = "body"
  /\ call[p].op = "count"
  /\ got' = [got EXCEPT ![p] = work[p]]
  /\ Outcome(p, "ok")
  /\ Goto(p, "rollback")
  /\ UNCHANGED <<db, owner, call, work, attempts>>

Commit(p) ==
  /\ pc[p] = "commit"
  /\ db' = work[p]
  /\ Outcome(p, "ok")
  /\ Goto(p, "close")
  /\ UNCHANGED <<owner, call, work, got, attempts>>
\* Mutant of CommitError: the error comes after the transaction was written.
CommitErrorLate(p) ==
  /\ pc[p] = "commit"
  /\ db' = work[p]
  /\ Outcome(p, "error")
  /\ Goto(p, "close")
  /\ UNCHANGED <<owner, call, work, got, attempts>>

\* tx.Commit rolls the transaction back itself when it cannot write.
CommitError(p) ==
  /\ pc[p] = "commit"
  /\ Outcome(p, "error")
  /\ Goto(p, "close")
  /\ UNCHANGED <<db, owner, call, work, got, attempts>>

Rollback(p) ==
  /\ pc[p] = "rollback"
  /\ Goto(p, "close")
  /\ UNCHANGED <<db, owner, call, work, got, res, attempts>>

--------------------------------------------------------------------------------

\* The deferred close gives the file lock back, after the error was decided.
CloseDB(p) ==
  /\ pc[p] = "close"
  /\ owner' = NoClient
  /\ \/ /\ res[p] = "ok"
        /\ Goto(p, "return")
        /\ UNCHANGED <<res, attempts>>
     \/ /\ res[p] # "ok"
        /\ GiveUpTry(p)
  /\ UNCHANGED <<db, call, work, got>>
\* Mutant of Wake: the number of tries is not bounded.
WakeAlways(p) ==
  /\ pc[p] = "sleep"
  /\ Goto(p, "open")
  /\ UNCHANGED <<db, owner, call, work, got, res, attempts>>

\* After its sleep pushHeartbeatsWithRetry tries again or aborts.
Wake(p) ==
  /\ pc[p] = "sleep"
  /\ Goto(p, IF attempts[p] >= MaxRequeueAttempts THEN "return" ELSE "open")
  /\ UNCHANGED <<db, owner, call, work, got, res, attempts>>

Forget(p) ==
  /\ Goto(p, "idle")
  /\ call' = [call EXCEPT ![p] = NoCall]
  /\ work' = [work EXCEPT ![p] = {}]
  /\ got' = [got EXCEPT ![p] = {}]
  /\ Outcome(p, "none")
  /\ attempts' = [attempts EXCEPT ![p] = 0]

Return(p) ==
  /\ pc[p] = "return"
  /\ Forget(p)
  /\ UNCHANGED <<db, owner>>

\* The process is killed: the system drops its file lock and its transaction.
Crash(p) ==
  /\ pc[p] # "idle"
  /\ owner' = IF owner = p THEN NoClient ELSE owner
  /\ Forget(p)
  /\ UNCHANGED db

\* What a running client does; Invoke, Crash and the failures of the file system
\* are its environment's.
Step(p) ==
  \/ OpenDB(p) \/ OpenTimeout(p) \/ Begin(p)
  \/ PushMany(p) \/ PopMany(p) \/ ReadMany(p) \/ Count(p)
  \/ Commit(p) \/ Rollback(p) \/ CloseDB(p) \/ Wake(p) \/ Return(p)

Next ==
  \E p \in Clients :
    \/ \E c \in Calls : Invoke(p, c)
    \/ Step(p)
    \/ OpenError(p)
    \/ CommitError(p)
    \/ Crash(p)

Spec == Init /\ [][Next]_vars

\* The system runs every started process.
FairSpec == Spec /\ \A p \in Clients : WF_vars(Step(p))

--------------------------------------------------------------------------------

InTransaction == {"begin", "body", "commit", "rollback", "close", "hung"}

Places == InTransaction \cup {"idle", "open", "sleep", "return"}

\* Every variable has the type of the Go value it stands for.
TypeOK ==
  /\ db \subseteq Ids \ Unstorable
  /\ owner \in Clients \cup {NoClient}
  /\ pc \in [Clients -> Places]
  /\ call \in [Clients -> Calls \cup {NoCall}]
  /\ work \in [Clients -> SUBSET Ids]
  /\ got \in [Clients -> SUBSET Ids]
  /\ res \in [Clients -> {"none", "ok", "error"}]
  /\ attempts \in [Clients -> 0 .. MaxRequeueAttempts]

\* Exactly the holder of the file lock is between bolt.Open and db.Close().
OneTransaction ==
  \A p \in Clients : pc[p] \in InTransaction <=> owner = p

\* What a transaction is about to commit is its own call applied to what is
\* committed now: nothing another opener committed since is overwritten.
NoLostUpdate ==
  \A p \in Clients :
    pc[p] = "commit" => /\ work[p] = After(call[p], db)
                        /\ got[p] = Answer(call[p], db)

\* PopMany fails on a value it cannot decode and rolls back: the value stays, and
\* while it is the oldest one no call takes anything out of the queue.
UnreadableBlocksPops ==
  [][ /\ Unreadable \cap db \subseteq db'
      /\ Oldest(db, 1) \cap Unreadable # {} => db \subseteq db' ]_vars

\* What the caller of p knows of its call: it is under way until it succeeded or
\* its last error is about to be returned.
PhaseOf(p) ==
  CASE pc[p] = "idle"                     -> "idle"
    [] res[p] = "ok"                      -> "done"
    [] pc[p] = "return" /\ res[p] # "ok"  -> "failed"
    [] OTHER                              -> "pending"

GotOf(p) == IF res[p] = "ok" THEN got[p] ELSE {}

phaseBar == [p \in Clients |-> PhaseOf(p)]

gotBar == [p \in Clients |-> GotOf(p)]

Abstract == INSTANCE AtomicQueue WITH queue <- db, phase <- phaseBar, got <- gotBar

\* However the calls of all processes interleave, fail, retry and die, the queue
\* behaves as if each call ran at one instant or not at all.
Implements == Abstract!Spec

\* Every call returns, whatever the other processes do, unless it is the push of
\* a heartbeat the bucket refuses: the timeout of bolt.Open and the bound on the
\* tries save the others even from a process that hangs with the file lock.
CallsReturn ==
  \A p \in Clients :
    pc[p] # "idle" ~> pc[p] = "idle" \/ call[p].hh \cap Unstorable # {}

\* maxRequeueAttempts is the maximum number of attempts to requeue heartbeats:
\* every push succeeds or is given up.
PushGivesUp == \A p \in Clients : call[p].op = "push" ~> pc[p] = "idle"
================================================================================
