--------------------------- MODULE MCHeartbeatCommand ---------------------------
(* Two starts of the program over at most five heartbeats.                      *)
EXTENDS HeartbeatCommand

MCIds == 1 .. 4

\* At most two heartbeats each; 3 is free for a queue file.
FewBeats == [p \in Commands |-> IF p = "a" THEN {1, 2} ELSE {4}]

\* One heartbeat and two extra ones.
ManyBeats == [p \in Commands |-> IF p = "a" THEN {1, 2, 4} ELSE {}]

MCFiveIds == 1 .. 5

\* One heartbeat and two extra ones, and a command of one; 3 is in the legacy file.
ThreeBeats == [p \in Commands |-> IF p = "a" THEN {1, 2, 4} ELSE {5}]

\* Unlimited syncs, and one of one heartbeat.
NoSyncMax == [p \in Commands |-> 0]

MCSyncMax == [p \in Commands |-> IF p = "a" THEN 1 ELSE 0]
================================================================================
