------------------------------- MODULE QueueCalls -------------------------------
(*****************************************************************************)
(* The vocabulary of the offline queue (src/pkg/offline/offline.go): the     *)
(* keys of its bucket, the calls the package exports on it, and the order in *)
(* which entries leave it.  Shared by the abstract queue (AtomicQueue), the  *)
(* bbolt-backed one (OfflineQueue) and the senders (OfflineSync).            *)
(*****************************************************************************)
EXTENDS Integers, FiniteSets

CONSTANTS
  Ids,         (* Heartbeat ids: the keys of the bucket.  A number stands for an
                  id's place in the byte order bbolt keeps its keys in.        *)
  Unreadable,  (* Keys whose stored value json.Unmarshal refuses.              *)
  Unstorable,  (* Ids that json.Marshal or bucket.Put refuses.                 *)
  Batches,     (* Batches of heartbeats the callers push.                      *)
  Limits       (* Limits the callers pass to PopMany and ReadMany.             *)

ASSUME IdsAssumption == Ids \subseteq Nat /\ IsFiniteSet(Ids)

\* A value the program wrote itself is readable, and a refused id is never a key.
ASSUME ValuesAssumption ==
  /\ Unreadable \subseteq Ids
  /\ Unstorable \subseteq Ids \ Unreadable

ASSUME CallsAssumption ==
  /\ Batches \subseteq SUBSET (Ids \ Unreadable)
  /\ Limits \subseteq Nat

--------------------------------------------------------------------------------

\* The first n keys of the cursor: the loop of PopMany and ReadMany.
Oldest(S, n) == {k \in S : Cardinality({j \in S : j < k}) < n}

PushCalls == [op : {"push"}, hh : Batches, limit : {0}]

PopCalls == [op : {"pop"}, hh : {{}}, limit : Limits]

ReadCalls == [op : {"read"}, hh : {{}}, limit : Limits]

CountCalls == [op : {"count"}, hh : {{}}, limit : {0}]

Calls == PushCalls \cup PopCalls \cup ReadCalls \cup CountCalls

NoCall == [op |-> "none", hh |-> {}, limit |-> 0]

\* What a call returns when it runs on the stored set S.
Answer(c, S) ==
  CASE c.op \in {"pop", "read"} -> Oldest(S, c.limit)
    [] c.op = "count"           -> S
    [] OTHER                    -> {}

\* What a call leaves stored when it runs on the stored set S.
After(c, S) ==
  CASE c.op = "push" -> S \cup c.hh
    [] c.op = "pop"  -> S \ Oldest(S, c.limit)
    [] OTHER         -> S

\* The call can be carried out: every value it decodes is readable and every
\* value it stores is accepted.
Feasible(c, S) ==
  /\ c.hh \cap Unstorable = {}
  /\ c.op \in {"pop", "read"} => Oldest(S, c.limit) \cap Unreadable = {}
================================================================================
