------------------------------ MODULE MCOfflineSync -----------------------------
(* One command with new heartbeats and syncs over at most four heartbeats, two  *)
(* per request.                                                                 *)
EXTENDS OfflineSync

MCIds == 1 .. 4

MCFresh == [p \in Senders |-> {1, 3}]

\* Below SendLimit, above it and, as 0, unlimited.
MCSyncLimit == [p \in Syncers |-> CASE p = "small" -> 1 [] p = "default" -> 3 [] p = "all" -> 0]

OneKey == [h \in Ids |-> 1]

\* Two API keys: the heartbeats 1 and 2 have the greater one.
TwoKeys == [h \in Ids |-> IF h <= 2 THEN 2 ELSE 1]
================================================================================
