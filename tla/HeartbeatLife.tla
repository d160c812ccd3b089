------------------------------ MODULE HeartbeatLife -----------------------------
(*****************************************************************************)
(* What sending promises to a heartbeat, by the docs of WithQueue and Sync: it  *)
(* is with one process or stored; what an answer of the API settled never comes *)
(* back; what it did not settle is stored, unless something failed, and so is   *)
(* what it settled in a request whose answer was lost; the oldest stored ones   *)
(* are the next to be sent.                                                    *)
(*****************************************************************************)
EXTENDS QueueCalls

CONSTANTS Procs, Senders, Fresh, SendLimit

VARIABLES
  stored,   (* The heartbeats in the offline queue.                           *)
  hands,    (* Those each process has still to settle.                        *)
  settled,  (* Those the API took or refused for good.                        *)
  unheard,  (* Those it settled in requests whose answer was lost.            *)
  lost,     (* Those a failure has cost.                                      *)
  faults    (* Failures so far.                                               *)

vars == <<stored, hands, settled, unheard, lost, faults>>

Known == stored \cup settled \cup lost \cup UNION {hands[p] : p \in Procs}

Init ==
  /\ stored \in SUBSET (Ids \ UNION {Fresh[p] : p \in Senders})
  /\ hands = [p \in Procs |-> {}]
  /\ settled = {}
  /\ unheard = {}
  /\ lost = {}
  /\ faults = 0

\* A command has new heartbeats.
Create(p) ==
  /\ p \in Senders
  /\ hands[p] = {}
  /\ Fresh[p] \cap Known = {}
  /\ hands' = [hands EXCEPT ![p] = Fresh[p]]
  /\ UNCHANGED <<stored, settled, unheard, lost, faults>>

\* A sync takes the oldest of those stored.
Take(p) ==
  /\ p \notin Senders
  /\ hands[p] = {}
  /\ \E n \in 1 .. SendLimit :
       /\ stored' = stored \ Oldest(stored, n)
       /\ hands' = [hands EXCEPT ![p] = Oldest(stored, n)]
  /\ UNCHANGED <<settled, unheard, lost, faults>>

\* An answer settles some.
Settle(p) ==
  /\ \E S \in SUBSET hands[p] :
       /\ settled' = settled \cup S
       /\ unheard' = unheard \ S
       /\ hands' = [hands EXCEPT ![p] = @ \ S]
  /\ faults' \in {faults, faults + 1}
  /\ UNCHANGED <<stored, lost>>

\* The API settles some, the answer is lost: the process still has them.
LoseAnswer(p) ==
  /\ \E S \in SUBSET hands[p] :
       /\ settled' = settled \cup S
       /\ unheard' = unheard \cup S
  /\ faults' = faults + 1
  /\ UNCHANGED <<stored, hands, lost>>

Store(p) ==
  /\ \E S \in SUBSET hands[p] :
       /\ stored' = stored \cup S
       /\ hands' = [hands EXCEPT ![p] = @ \ S]
  /\ UNCHANGED <<settled, unheard, lost, faults>>

Lose(p) ==
  /\ \E S \in SUBSET hands[p] :
       /\ lost' = lost \cup S
       /\ hands' = [hands EXCEPT ![p] = @ \ S]
  /\ faults' = faults + 1
  /\ UNCHANGED <<stored, settled, unheard>>

Fail ==
  /\ faults' = faults + 1
  /\ UNCHANGED <<stored, hands, settled, unheard, lost>>

Next ==
  \/ \E p \in Procs : \/ Create(p) \/ Take(p) \/ Settle(p) \/ LoseAnswer(p)
                    \/ Store(p) \/ Lose(p)
  \/ Fail

Spec == Init /\ [][Next]_vars
================================================================================
