----------------------------- MODULE InternalConfig -----------------------------
(*****************************************************************************)
(* The internal config file (src/pkg/ini/ini.go), which every start of the    *)
(* program reads and rewrites.  To write a few keys, NewWriter loads the whole *)
(* file, then Write sets the keys in memory and saves the whole file.  Only    *)
(* the save is under the mutex, and a writer that waited five seconds for the  *)
(* mutex goes on without it.  A save truncates the file and then writes it;    *)
(* saves that overlap leave parts of each.                                     *)
(*                                                                           *)
(* The file is a function from keys to numbers, 0 for a key that is not in it. *)
(* A call of NewWriter and Write is in place[p]; Backoff makes the calls.      *)
(*****************************************************************************)
EXTENDS Naturals

CONSTANTS
  Procs,     (* The processes that write.                                     *)
  Nobody,    (* The holder of a free mutex.                                   *)
  Keys,      (* The keys of the section internal.                             *)
  MaxFaults  (* Bound on failures and kills.                                  *)

ASSUME NobodyAssumption == Nobody \notin Procs

ASSUME FaultsAssumption == MaxFaults \in Nat

VARIABLES
  file,      (* The contents of the file.                                     *)
  exists,    (* Whether there is a file.                                      *)
  mutex,     (* The holder of wakatime-cli-config-mutex.                      *)
  place,     (* Where the call of each process is.                            *)
  pairs,     (* keyValue: the keys it sets.                                   *)
  image,     (* w.File: the contents it loaded.                               *)
  overtaken, (* History: a writer went on without the mutex.                  *)
  faults     (* Failures so far.                                              *)

configVars == <<file, exists, mutex, place, pairs, image, overtaken, faults>>

Contents == [Keys -> Nat]

Empty == [k \in Keys |-> 0]

NoPairs == [k \in {} |-> 0]

Pairs == UNION {[K -> Nat] : K \in SUBSET Keys}

Places == {"none", "stat", "create", "load", "acquire", "truncate", "save", "release"}

ConfigInit ==
  /\ exists \in BOOLEAN
  /\ mutex = Nobody
  /\ place = [p \in Procs |-> "none"]
  /\ pairs = [p \in Procs |-> NoPairs]
  /\ image = [p \in Procs |-> Empty]
  /\ overtaken = FALSE
  /\ faults = 0

At(p, l) == place[p] = l

MoveTo(p, l) == place' = [place EXCEPT ![p] = l]

\* The call returns.  What it held in memory is gone.
Return(p) ==
  /\ MoveTo(p, "none")
  /\ pairs' = [pairs EXCEPT ![p] = NoPairs]
  /\ image' = [image EXCEPT ![p] = Empty]

Fault == faults < MaxFaults /\ faults' = faults + 1

SetKeys(f, kv) == [k \in Keys |-> IF k \in DOMAIN kv THEN kv[k] ELSE f[k]]

\* What the file may be after g is written over f: lines of f stay where g is
\* shorter.
Overlaid(f, g) == {h \in [Keys -> {f[k] : k \in Keys} \cup {g[k] : k \in Keys}] :
                     \A k \in Keys : h[k] = g[k] \/ (f[k] # 0 /\ h[k] = f[k])}

--------------------------------------------------------------------------------
(* NewWriter.                                                                  *)

\* The caller is about to write kv.
Invoke(p, kv) ==
  /\ At(p, "none")
  /\ pairs' = [pairs EXCEPT ![p] = kv]
  /\ MoveTo(p, "stat")
  /\ UNCHANGED <<file, exists, mutex, image, overtaken, faults>>

\* fileExists is asked once: another process may create the file, and fill it,
\* before this one does.
Stat(p) ==
  /\ At(p, "stat")
  /\ MoveTo(p, IF exists THEN "load" ELSE "create")
  /\ UNCHANGED <<file, exists, mutex, pairs, image, overtaken, faults>>

\* os.Create truncates a file that is there.
Create(p) ==
  /\ At(p, "create")
  /\ exists' = TRUE
  /\ file' = Empty
  /\ MoveTo(p, "load")
  /\ UNCHANGED <<mutex, pairs, image, overtaken, faults>>

\* The contents, without the mutex.
Load(p) ==
  /\ At(p, "load")
  /\ image' = [image EXCEPT ![p] = file]
  /\ MoveTo(p, "acquire")
  /\ UNCHANGED <<file, exists, mutex, pairs, overtaken, faults>>

\* NewWriter returns an error.
NewWriterFails(p) ==
  /\ place[p] \in {"create", "load"}
  /\ Fault
  /\ Return(p)
  /\ UNCHANGED <<file, exists, mutex, overtaken>>

--------------------------------------------------------------------------------
(* Write.                                                                      *)

\* Mutant of Acquire: a mutex in use is taken.
AcquireBusy(p) ==
  /\ At(p, "acquire")
  /\ mutex' = p
  /\ MoveTo(p, "truncate")
  /\ UNCHANGED <<file, exists, pairs, image, overtaken, faults>>

Acquire(p) ==
  /\ At(p, "acquire")
  /\ mutex = Nobody
  /\ mutex' = p
  /\ MoveTo(p, "truncate")
  /\ UNCHANGED <<file, exists, pairs, image, overtaken, faults>>

\* Five seconds have passed.  The error is only logged.
AcquireTimeout(p) ==
  /\ At(p, "acquire")
  /\ mutex # Nobody
  /\ overtaken' = TRUE
  /\ MoveTo(p, "truncate")
  /\ UNCHANGED <<file, exists, mutex, pairs, image, faults>>

\* Mutant of Truncate: a process that did not get the mutex does not save.
TruncateLocked(p) ==
  /\ At(p, "truncate")
  /\ mutex = p
  /\ file' = Empty
  /\ exists' = TRUE
  /\ MoveTo(p, "save")
  /\ UNCHANGED <<mutex, pairs, image, overtaken, faults>>

\* SaveTo opens the file and truncates it.
Truncate(p) ==
  /\ At(p, "truncate")
  /\ file' = Empty
  /\ exists' = TRUE
  /\ MoveTo(p, "save")
  /\ UNCHANGED <<mutex, pairs, image, overtaken, faults>>

\* SaveTo writes the contents that were loaded, with the keys that were set.
Save(p) ==
  /\ At(p, "save")
  /\ file' \in Overlaid(file, SetKeys(image[p], pairs[p]))
  /\ MoveTo(p, "release")
  /\ UNCHANGED <<exists, mutex, pairs, image, overtaken, faults>>

\* SaveTo fails to open the file, or to write it.
SaveFails(p) ==
  /\ place[p] \in {"truncate", "save"}
  /\ Fault
  /\ MoveTo(p, "release")
  /\ UNCHANGED <<file, exists, mutex, pairs, image, overtaken>>

\* The deferred Release, with no releaser after a timeout.
Release(p) ==
  /\ At(p, "release")
  /\ mutex' = IF mutex = p THEN Nobody ELSE mutex
  /\ Return(p)
  /\ UNCHANGED <<file, exists, overtaken, faults>>

\* The process dies, and with it its hold of the mutex.
Abandon(p) ==
  /\ mutex' = IF mutex = p THEN Nobody ELSE mutex
  /\ Return(p)
  /\ Fault
  /\ UNCHANGED <<file, exists, overtaken>>

WriteStep(p) ==
  \/ Stat(p) \/ Create(p) \/ Load(p) \/ NewWriterFails(p)
  \/ Acquire(p) \/ AcquireTimeout(p)
  \/ Truncate(p) \/ Save(p) \/ SaveFails(p) \/ Release(p)
================================================================================
