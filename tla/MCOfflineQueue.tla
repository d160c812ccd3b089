----------------------------- MODULE MCOfflineQueue -----------------------------
(* Four keys: 2 may hold an unreadable value, 4 is an id the bucket refuses.  *)
EXTENDS OfflineQueue

MCIds == 1 .. 4

MCUnreadable == {2}

MCUnstorable == {4}

MCBatches == {{1, 3}, {4}}

MCLimits == {2}
================================================================================
