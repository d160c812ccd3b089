------------------------------- MODULE AtomicQueue ------------------------------
(*****************************************************************************)
(* What the offline queue promises to its callers: a call takes effect at one *)
(* instant between its invocation and its return, all of it or nothing; a    *)
(* call that returns an error had no effect; a caller that dies may leave the *)
(* effect of its call behind without its answer.                             *)
(*****************************************************************************)
EXTENDS QueueCalls

CONSTANT Clients

VARIABLES
  queue,   (* The stored keys.                                            *)
  phase,   (* Per client: idle, pending, done or failed.                  *)
  call,    (* Per client: the call it is making.                          *)
  got      (* Per client: the heartbeats its call returned.               *)

vars == <<queue, phase, call, got>>

Init ==
  /\ queue \in SUBSET (Ids \ Unstorable)
  /\ phase = [p \in Clients |-> "idle"]
  /\ call = [p \in Clients |-> NoCall]
  /\ got = [p \in Clients |-> {}]

Invoke(p, c) ==
  /\ phase[p] = "idle"
  /\ phase' = [phase EXCEPT ![p] = "pending"]
  /\ call' = [call EXCEPT ![p] = c]
  /\ UNCHANGED <<queue, got>>

TakeEffect(p) ==
  /\ phase[p] = "pending"
  /\ Feasible(call[p], queue)
  /\ phase' = [phase EXCEPT ![p] = "done"]
  /\ queue' = After(call[p], queue)
  /\ got' = [got EXCEPT ![p] = Answer(call[p], queue)]
  /\ UNCHANGED call

Fail(p) ==
  /\ phase[p] = "pending"
  /\ phase' = [phase EXCEPT ![p] = "failed"]
  /\ UNCHANGED <<queue, call, got>>

\* The caller takes its answer, or dies at any point of its call.
Leave(p) ==
  /\ phase[p] # "idle"
  /\ phase' = [phase EXCEPT ![p] = "idle"]
  /\ call' = [call EXCEPT ![p] = NoCall]
  /\ got' = [got EXCEPT ![p] = {}]
  /\ UNCHANGED queue

Next ==
  \E p \in Clients :
    \/ \E c \in Calls : Invoke(p, c)
    \/ TakeEffect(p)
    \/ Fail(p)
    \/ Leave(p)

Spec == Init /\ [][Next]_vars
================================================================================
