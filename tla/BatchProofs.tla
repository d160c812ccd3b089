------------------------------ MODULE BatchProofs ------------------------------
(*****************************************************************************)
(* Proofs about the batches of Pipeline: no heartbeat is lost on the way         *)
(* without a reason, and no temporary file stays behind.                        *)
(*****************************************************************************)
EXTENDS HeartbeatProofs

Apart(s) == \A m, n \in DOMAIN s : s[m].in.id = s[n].in.id => m = n

\* Why a heartbeat that was parsed may be left out.
Reason(h) ==
  \/ Excluded(h)
  \/ options.filter.excludeUnknown /\ ProjectUnknown(New(h.in))
  \/ IsRemote(h) /\ faults > 0
  \/ IsFile(h) /\ ~ h.in.unsaved /\ ~ IsRemote(h) /\
       (h.in.exists => options.filter.onlyProjectFile /\ ~ HasProjectFile(original, h.in.folder))

GivenTo(p) == ToSet(BuildHeartbeats(input[p]))

\* The heartbeats under way are those that were parsed, each at most once; the others were
\* queued or sent, or there is a reason.
Complete(p) ==
  /\ Apart(hh[p]) /\ Apart(kept[p])
  /\ \A g \in ToSet(kept[p]), h \in ToSet(hh[p]) : g.in.id # h.in.id
  /\ \A g \in Underway(p) : \E h \in GivenTo(p) : g.in = h.in
  /\ pc[p] \notin {"idle", "killed"} =>
       \A h \in GivenTo(p) : (\E g \in Underway(p) \cup queue \cup sent : g.in = h.in) \/ Reason(h)

Fetching(p) ==
  /\ pc[p] \in {"download", "fallback"} => IsRemote(This(p))
  /\ pc[p] = "fallback" => faults > 0

TempsFor(p) == {t \in temps : t[1] = p}

Owned(p) ==
  pc[p] # "killed" =>
    TempsFor(p) =
      IF pc[p] \in {"send", "exit"} THEN {}
      ELSE TempsOf(p, Underway(p)) \cup
           (IF pc[p] \in {"download", "fallback"} THEN {Temp(p)} ELSE {})

TempType == Handles \X {h.in.id : h \in UNION {GivenTo(p) : p \in Handles}}

BatchInv ==
  /\ faults \in 0 .. MaxFaults
  /\ saving \subseteq Handles
  /\ temps \subseteq TempType
  /\ \A p \in Handles : Complete(p) /\ Fetching(p) /\ Owned(p)

--------------------------------------------------------------------------------
(* Heartbeats with different ids.                                              *)

LEMMA ApartSmall == ASSUME NEW e PROVE Apart(<<>>) /\ Apart(<<e>>)
<1>1. DOMAIN <<>> = {} /\ DOMAIN <<e>> = {1}
  OBVIOUS
<1> QED
  BY <1>1 DEF Apart

LEMMA ApartTail ==
  ASSUME NEW s, IsSeq(s), Len(s) > 0, Apart(s)
  PROVE  Apart(Tail(s)) /\ \A g \in ToSet(Tail(s)) : g.in.id # Head(s).in.id
<1>1. PICK S : s \in Seq(S)
  BY DEF IsSeq
<1>2. s # <<>>
  BY <1>1
<1> DEFINE t == Tail(s)
<1>3. /\ DOMAIN s = 1 .. Len(s) /\ Len(s) \in Nat
      /\ DOMAIN t = 1 .. Len(s) - 1
      /\ \A i \in 1 .. Len(s) - 1 : t[i] = s[i + 1]
      /\ Head(s) = s[1]
  BY <1>1, <1>2
<1> HIDE DEF t
<1>4. \A i \in DOMAIN t : i \in Nat /\ i > 0 /\ i + 1 \in DOMAIN s /\ t[i] = s[i + 1]
  BY <1>3
<1>5. 1 \in DOMAIN s
  BY <1>3
<1>6. Apart(t)
  <2> SUFFICES ASSUME NEW m \in DOMAIN t, NEW n \in DOMAIN t, t[m].in.id = t[n].in.id PROVE m = n
    BY DEF Apart
  <2>1. m + 1 = n + 1
    BY <1>4 DEF Apart
  <2> QED
    BY <1>4, <2>1
<1>7. \A i \in DOMAIN t : t[i].in.id # s[1].in.id
  <2> SUFFICES ASSUME NEW i \in DOMAIN t, t[i].in.id = s[1].in.id PROVE FALSE
    OBVIOUS
  <2>1. i + 1 = 1
    BY <1>4, <1>5 DEF Apart
  <2> QED
    BY <1>4, <2>1
<1> QED
  BY <1>3, <1>6, <1>7 DEF ToSet, t

LEMMA ApartConcat ==
  ASSUME NEW s, NEW t, IsSeq(s), IsSeq(t), Apart(s), Apart(t),
         \A g \in ToSet(s), h \in ToSet(t) : g.in.id # h.in.id
  PROVE  Apart(s \o t)
<1>1. PICK S : s \in Seq(S)
  BY DEF IsSeq
<1>2. PICK T : t \in Seq(T)
  BY DEF IsSeq
<1>3. s \in Seq(S \cup T) /\ t \in Seq(S \cup T)
  BY <1>1, <1>2
<1> DEFINE c == s \o t
<1>4. /\ DOMAIN s = 1 .. Len(s) /\ Len(s) \in Nat
      /\ DOMAIN t = 1 .. Len(t) /\ Len(t) \in Nat
      /\ DOMAIN c = 1 .. Len(s) + Len(t)
      /\ \A i \in 1 .. Len(s) + Len(t) : c[i] = IF i <= Len(s) THEN s[i] ELSE t[i - Len(s)]
  BY <1>3
<1> HIDE DEF c
<1>5. \A i \in DOMAIN c :
        \/ i \in DOMAIN s /\ c[i] = s[i] /\ c[i] \in ToSet(s)
        \/ i - Len(s) \in DOMAIN t /\ c[i] = t[i - Len(s)] /\ c[i] \in ToSet(t)
  <2> SUFFICES ASSUME NEW i \in DOMAIN c
               PROVE  \/ i \in DOMAIN s /\ c[i] = s[i] /\ c[i] \in ToSet(s)
                      \/ i - Len(s) \in DOMAIN t /\ c[i] = t[i - Len(s)] /\ c[i] \in ToSet(t)
    OBVIOUS
  <2>1. CASE i <= Len(s)
    BY <1>4, <2>1 DEF ToSet
  <2>2. CASE ~ (i <= Len(s))
    <3>1. i - Len(s) \in DOMAIN t
      BY <1>4, <2>2
    <3> QED
      BY <1>4, <2>2, <3>1 DEF ToSet
  <2> QED
    BY <2>1, <2>2
<1>6. ASSUME NEW m \in DOMAIN c, NEW n \in DOMAIN c, c[m].in.id = c[n].in.id
      PROVE  m = n
  <2>1. CASE c[m] \in ToSet(s) /\ c[n] \in ToSet(s)
    BY <1>5, <1>6, <2>1 DEF Apart
  <2>2. CASE c[m] \in ToSet(t) /\ c[n] \in ToSet(t)
    <3>1. m - Len(s) = n - Len(s)
      BY <1>5, <1>6, <2>2 DEF Apart
    <3> QED
      BY <1>4, <3>1
  <2>3. CASE c[m] \in ToSet(s) /\ c[n] \in ToSet(t)
    BY <1>6, <2>3
  <2>4. CASE c[m] \in ToSet(t) /\ c[n] \in ToSet(s)
    BY <1>6, <2>4
  <2> QED
    BY <1>5, <2>1, <2>2, <2>3, <2>4
<1> QED
  BY <1>6 DEF Apart, c

LEMMA ApartMap ==
  ASSUME NEW s, Apart(s), NEW g, DOMAIN g = DOMAIN s, \A n \in DOMAIN s : g[n].in = s[n].in
  PROVE  Apart(g)
  BY DEF Apart

--------------------------------------------------------------------------------
(* One step.                                                                   *)

\* No project file is deleted.
Grown == \A f \in Folders : contents[f] # None => contents'[f] # None

LEMMA SameDetections ==
  ASSUME UNCHANGED <<settings, original>>, NEW h
  PROVE  /\ Detections(original, h)' = Detections(original, h)
         /\ Hides(h)' <=> Hides(h)
<1>1. options' = options
  BY DEF options
<1> QED
  BY <1>1 DEF Detections, RevControl, Hides, ShouldSanitize

LEMMA UnknownStays ==
  ASSUME UNCHANGED <<settings, original>>, Grown, NEW h, ProjectUnknown(h)
  PROVE  ProjectUnknown(h)'
<1>1. PICK d \in Detections(original, h) : d.project = None \/ (Hides(d) /\ Taken(d))
  BY DEF ProjectUnknown
<1>2. Taken(d) => Taken(d)'
  BY DEF Taken, TargetOf, Grown
<1>3. Hides(d)' <=> Hides(d)
  BY SameDetections
<1>4. Detections(original, h)' = Detections(original, h)
  BY SameDetections
<1> QED
  BY <1>1, <1>2, <1>3, <1>4 DEF ProjectUnknown

LEMMA ReasonStays ==
  ASSUME UNCHANGED <<settings, original>>, Grown, faults \in Nat, faults' \in Nat, faults <= faults',
         NEW h, Reason(h)
  PROVE  Reason(h)'
<1>1. options' = options
  BY DEF options
<1>2. ProjectUnknown(New(h.in)) => ProjectUnknown(New(h.in))'
  BY UnknownStays
<1> QED
  BY <1>1, <1>2 DEF Reason, Excluded, IsRemote, IsFile

\* The reason only depends on what the heartbeat was given for.
LEMMA SameReason ==
  ASSUME NEW g, NEW h, g.in = h.in
  PROVE  Reason(g) => Reason(h)
  BY DEF Reason, Excluded, IsRemote, IsFile

\* Nothing that was queued or sent gets lost.
Recorded == \A g \in queue \cup sent : \E e \in queue' \cup sent' : e.in = g.in

\* Failures are counted, and project files stay.
Onward == faults' \in 0 .. MaxFaults /\ faults <= faults' /\ Grown

\* What p does to the temporary files.
OwnTemps(p) ==
  /\ temps' \subseteq temps \cup {<<p, h.in.id>> : h \in Underway(p)}
  /\ \A t \in temps : t[1] # p => t \in temps'

LEMMA OthersBatch ==
  ASSUME WorkInv, BatchInv, NEW p \in Handles, Own(p), UNCHANGED settings, Recorded, Onward, OwnTemps(p),
         NEW q \in Handles \ {p}
  PROVE  Complete(q)' /\ Fetching(q)' /\ Owned(q)'
<1>1. /\ pc'[q] = pc[q] /\ hh'[q] = hh[q] /\ kept'[q] = kept[q]
      /\ UNCHANGED <<settings, input, original>>
  BY DEF WorkInv, Shape, Own
<1>2. Underway(q)' = Underway(q) /\ GivenTo(q)' = GivenTo(q) /\ This(q)' = This(q)
  BY <1>1 DEF Underway, GivenTo, This
<1>3. /\ Complete(q) /\ Fetching(q) /\ Owned(q) /\ faults \in Nat /\ faults' \in Nat /\ faults <= faults'
      /\ Grown
  BY PipelineAssumption DEF BatchInv, Onward
<1>4. \A h : Reason(h) => Reason(h)'
  BY <1>1, <1>3, ReasonStays
<1>5. Complete(q)'
  BY <1>1, <1>2, <1>3, <1>4 DEF Complete, Recorded
<1>6. Fetching(q)'
  BY <1>1, <1>2, <1>3 DEF Fetching, IsRemote, IsFile
<1>7. TempsFor(q)' = TempsFor(q)
  <2>1. \A t \in temps' : t[1] = q => t \in temps
    BY DEF OwnTemps
  <2> QED
    BY <2>1 DEF OwnTemps, TempsFor
<1>8. Temp(q)' = Temp(q)
  BY <1>2 DEF Temp
<1>9. Owned(q)'
  BY <1>1, <1>2, <1>3, <1>7, <1>8 DEF Owned, TempsOf
<1> QED
  BY <1>5, <1>6, <1>9

\* What a step of one batch has to keep of BatchInv.
LEMMA OwnBatch ==
  ASSUME WorkInv, BatchInv, NEW p \in Handles, Own(p), UNCHANGED settings, saving' \subseteq saving \cup {p},
         Recorded, Onward, OwnTemps(p),
         Complete(p)', Fetching(p)', Owned(p)'
  PROVE  BatchInv'
<1>1. \A q \in Handles : Complete(q)' /\ Fetching(q)' /\ Owned(q)'
  BY OthersBatch
<1>2. GivenTo(p)' = GivenTo(p) /\ TempType' = TempType
  BY DEF TempType, GivenTo, Own
<1>3. temps' \subseteq TempType
  <2>1. \A h \in Underway(p) : <<p, h.in.id>> \in TempType
    BY DEF BatchInv, Complete, TempType
  <2> QED
    BY <2>1 DEF OwnTemps, BatchInv
<1> QED
  BY <1>1, <1>2, <1>3 DEF BatchInv, Onward

Rest(p) == ToSet(Tail(hh[p])) \cup ToSet(kept[p])

LEMMA ThisAndRest ==
  ASSUME WorkInv, BatchInv, NEW p \in Handles, pc[p] \in Working
  PROVE  /\ Underway(p) = {This(p)} \cup Rest(p)
         /\ \A h \in Rest(p) : h.in.id # This(p).in.id
<1>1. IsSeq(hh[p]) /\ Len(hh[p]) > 0 /\ Complete(p)
  BY DEF WorkInv, Batch, BatchInv
<1>2. ToSet(hh[p]) = {This(p)} \cup ToSet(Tail(hh[p]))
  BY <1>1, SetTail DEF This
<1>3. \A g \in ToSet(Tail(hh[p])) : g.in.id # This(p).in.id
  BY <1>1, ApartTail DEF Complete, This
<1>4. \A g \in ToSet(kept[p]) : g.in.id # This(p).in.id
  BY <1>1, <1>2 DEF Complete
<1> QED
  BY <1>2, <1>3, <1>4 DEF Underway, Rest

\* An option keeps the first heartbeat, as it has changed it, or leaves it out.
Keeps(p, s, e) == s \in {<<>>, <<e>>} /\ e.in = This(p).in

LEMMA PassComplete ==
  ASSUME WorkInv, BatchInv, NEW p \in Handles, pc[p] \in Working, UNCHANGED <<static, queue, sent>>, Onward,
         NEW option, NEW next,
         NEW s, NEW e, Keeps(p, s, e), s = <<>> => Reason(e)',
         Pass(p, s, option, next)
  PROVE  Complete(p)' /\ Underway(p)' = Rest(p) \cup ToSet(s)
<1>1. IsSeq(hh[p]) /\ Len(hh[p]) > 0 /\ IsSeq(kept[p]) /\ Complete(p) /\ Shape
  BY DEF WorkInv, Batch, BatchInv
<1>2. /\ IsSeq(s) /\ ToSet(s) \subseteq {e} /\ Apart(s) /\ (s # <<>> => e \in ToSet(s))
      /\ ToSet(<<>>) = {} /\ Apart(<<>>)
      /\ e.in = This(p).in
  BY SeqSmall, SetSmall, ApartSmall DEF Keeps
<1>3. ToSet(kept[p] \o s) = ToSet(kept[p]) \cup ToSet(s)
  BY <1>1, <1>2, SetConcat
<1>4. /\ ToSet(hh[p]) = {This(p)} \cup ToSet(Tail(hh[p]))
      /\ ~ (Len(hh[p]) > 1) => ToSet(Tail(hh[p])) = {}
  BY <1>1, SetTail DEF This
<1>5. \A h \in Rest(p) : h.in.id # This(p).in.id
  BY ThisAndRest
<1>6. Apart(kept[p] \o s)
  <2>1. \A g \in ToSet(kept[p]), h \in ToSet(s) : g.in.id # h.in.id
    BY <1>2, <1>5 DEF Rest
  <2> QED
    BY <1>1, <1>2, <2>1, ApartConcat DEF Complete
<1>7. Apart(Tail(hh[p]))
  BY <1>1, ApartTail DEF Complete
<1>8. \A g \in ToSet(kept[p] \o s), h \in ToSet(Tail(hh[p])) : g.in.id # h.in.id
  BY <1>1, <1>2, <1>3, <1>4, <1>5 DEF Complete, Rest
<1>9. \/ hh'[p] = Tail(hh[p]) /\ kept'[p] = kept[p] \o s
      \/ hh'[p] = kept[p] \o s /\ kept'[p] = <<>> /\ ToSet(Tail(hh[p])) = {}
  BY <1>1, <1>4 DEF Pass, Hold, Shape
<1>10. Underway(p)' = Rest(p) \cup ToSet(s)
  BY <1>2, <1>3, <1>9 DEF Underway, Rest
<1>11. /\ Apart(hh'[p]) /\ Apart(kept'[p])
       /\ \A g \in ToSet(kept'[p]), h \in ToSet(hh'[p]) : g.in.id # h.in.id
  BY <1>2, <1>6, <1>7, <1>8, <1>9
<1>12. GivenTo(p)' = GivenTo(p)
  BY DEF GivenTo, static
<1>13. Underway(p) = {This(p)} \cup Rest(p)
  BY ThisAndRest
<1>14. \A g \in Underway(p)' : \E h \in GivenTo(p)' : g.in = h.in
  BY <1>1, <1>2, <1>10, <1>12, <1>13 DEF Complete
<1>15. \A h \in GivenTo(p) : (\E g \in Underway(p)' \cup queue' \cup sent' : g.in = h.in) \/ Reason(h)'
  <2> SUFFICES ASSUME NEW h \in GivenTo(p), ~ Reason(h)'
               PROVE  \E g \in Underway(p)' \cup queue' \cup sent' : g.in = h.in
    OBVIOUS
  <2>1. faults \in Nat /\ faults' \in Nat /\ faults <= faults' /\ Grown
    BY DEF BatchInv, Onward
  <2>2. ~ Reason(h)
    BY <2>1, ReasonStays DEF static
  <2>3. pc[p] \notin {"idle", "killed"}
    BY DEF Working
  <2>4. PICK g \in Underway(p) \cup queue \cup sent : g.in = h.in
    BY <1>1, <2>2, <2>3 DEF Complete
  <2>5. CASE g = This(p)
    <3>1. ~ Reason(e)'
      BY <1>2, <2>4, <2>5 DEF Reason, Excluded, IsRemote, IsFile
    <3>2. e \in ToSet(s)
      BY <1>2, <3>1
    <3> QED
      BY <1>2, <1>10, <2>4, <2>5, <3>2
  <2>6. CASE g # This(p)
    BY <1>10, <1>13, <2>4, <2>6
  <2> QED
    BY <2>5, <2>6
<1> QED
  BY <1>10, <1>11, <1>12, <1>14, <1>15 DEF Complete

\* Whose the temporary files are in the middle of an option.
LEMMA OwnedNow ==
  ASSUME WorkInv, BatchInv, NEW p \in Handles, pc[p] \in Working \ {"send"}
  PROVE  /\ TempsFor(p) =
              TempsOf(p, Rest(p)) \cup TempsOf(p, {This(p)}) \cup
              (IF pc[p] \in {"download", "fallback"} THEN {Temp(p)} ELSE {})
         /\ Temp(p) \notin TempsOf(p, Rest(p))
<1>1. Underway(p) = {This(p)} \cup Rest(p) /\ \A h \in Rest(p) : h.in.id # This(p).in.id
  BY ThisAndRest
<1>2. Owned(p) /\ pc[p] \notin {"killed", "send", "exit"}
  BY DEF BatchInv, Working
<1>3. TempsOf(p, Underway(p)) = TempsOf(p, Rest(p)) \cup TempsOf(p, {This(p)})
  BY <1>1 DEF TempsOf
<1>4. Temp(p) \notin TempsOf(p, Rest(p))
  BY <1>1 DEF TempsOf, Temp
<1> QED
  BY <1>2, <1>3, <1>4 DEF Owned

LEMMA PassBatch ==
  ASSUME WorkInv, BatchInv, NEW p \in Handles, pc[p] \in Working, UNCHANGED <<static, queue, sent>>,
         Onward, OwnTemps(p),
         NEW option \in Working \ (Whole \cup {"download", "fallback"}),
         NEW next \in Working \ {"download", "fallback", "send"},
         NEW s, NEW e, Keeps(p, s, e), s = <<>> => Reason(e)',
         Pass(p, s, option, next),
         TempsFor(p)' = TempsOf(p, Rest(p)) \cup TempsOf(p, ToSet(s))
  PROVE  BatchInv'
<1>1. Complete(p)' /\ Underway(p)' = Rest(p) \cup ToSet(s)
  BY PassComplete
<1>2. IsSeq(s)
  BY SeqSmall DEF Keeps
<1>3. Own(p) /\ Batch(p)' /\ pc'[p] \in {option, next, "exit"}
  BY <1>2, PassOwn DEF WorkInv, static
<1>4. Fetching(p)'
  BY <1>3 DEF Fetching
<1>5. option # "send" /\ "exit" \notin Working
  BY DEF Whole, Working
<1>6. TempsOf(p, Rest(p) \cup ToSet(s)) = TempsOf(p, Rest(p)) \cup TempsOf(p, ToSet(s))
  BY DEF TempsOf
<1>7. TempsFor(p)' = TempsOf(p, Underway(p)')
  BY <1>1, <1>6
<1>8. pc'[p] = "exit" => TempsOf(p, Underway(p)') = {}
  BY <1>3, <1>5, SetSmall DEF Batch, Underway, TempsOf
<1>9. Owned(p)'
  BY <1>3, <1>5, <1>7, <1>8 DEF Owned, TempsOf
<1>10. Recorded /\ UNCHANGED settings /\ saving' = saving
  BY DEF Recorded, static
<1> QED
  BY <1>1, <1>3, <1>4, <1>9, <1>10, OwnBatch

\* An option that has nothing to do with temporary files.
LEMMA KeepBatch ==
  ASSUME WorkInv, BatchInv, NEW p \in Handles, pc[p] \in Working \ {"send", "download", "fallback"},
         UNCHANGED <<static, temps, queue, sent>>, Onward,
         NEW option \in Working \ (Whole \cup {"download", "fallback"}),
         NEW next \in Working \ {"download", "fallback", "send"},
         NEW s, NEW e, e.in = This(p).in,
         \/ s = <<e>> /\ (e.temp <=> This(p).temp)
         \/ s = <<>> /\ ~ This(p).temp /\ Reason(e)',
         Pass(p, s, option, next)
  PROVE  BatchInv'
<1>1. TempsFor(p) = TempsOf(p, Rest(p)) \cup TempsOf(p, {This(p)})
  BY OwnedNow
<1>2. TempsOf(p, {This(p)}) = TempsOf(p, ToSet(s))
  <2>1. CASE s = <<e>>
    <3>1. ToSet(s) = {e} /\ (e.temp <=> This(p).temp)
      BY <2>1, SetSmall
    <3> QED
      BY <3>1 DEF TempsOf
  <2>2. CASE s = <<>> /\ ~ This(p).temp
    <3>1. ToSet(s) = {}
      BY <2>2, SetSmall
    <3> QED
      BY <2>2, <3>1 DEF TempsOf
  <2> QED
    BY <2>1, <2>2
<1>3. OwnTemps(p) /\ TempsFor(p)' = TempsFor(p)
  BY DEF OwnTemps, TempsFor
<1>4. TempsFor(p)' = TempsOf(p, Rest(p)) \cup TempsOf(p, ToSet(s))
  BY <1>1, <1>2, <1>3
<1>5. <<e>> # <<>>
  OBVIOUS
<1>6. Keeps(p, s, e) /\ (s = <<>> => Reason(e)')
  BY <1>5 DEF Keeps
<1>7. pc[p] \in Working /\ UNCHANGED <<static, queue, sent>>
  OBVIOUS
<1> QED
  BY <1>3, <1>4, <1>6, <1>7, PassBatch

\* A step that leaves the heartbeats where they are.
LEMMA GotoComplete ==
  ASSUME WorkInv, BatchInv, NEW p \in Handles, pc[p] \in Working, UNCHANGED <<static, hh, kept, queue, sent>>,
         Onward
  PROVE  Complete(p)' /\ Underway(p)' = Underway(p) /\ This(p)' = This(p)
<1>1. /\ Underway(p)' = Underway(p) /\ GivenTo(p)' = GivenTo(p) /\ This(p)' = This(p)
      /\ hh'[p] = hh[p] /\ kept'[p] = kept[p]
  BY DEF Underway, GivenTo, This, static
<1>2. \A h : Reason(h) => Reason(h)'
  BY ReasonStays DEF static, Onward, BatchInv
<1>3. pc[p] \notin {"idle", "killed"} /\ Complete(p)
  BY DEF Working, BatchInv
<1> QED
  BY <1>1, <1>2, <1>3 DEF Complete

--------------------------------------------------------------------------------
(* The batches of each step.                                                   *)

LEMMA SameFaults == ASSUME BatchInv, UNCHANGED <<contents, faults>> PROVE Onward
  BY DEF BatchInv, Onward, Grown

LEMMA MoreFaults == ASSUME BatchInv, Fault, UNCHANGED contents PROVE Onward /\ faults' > 0
  BY PipelineAssumption DEF BatchInv, Fault, Onward, Grown

LEMMA FilesGrow ==
  ASSUME WorkInv, NEW p \in Handles, CreateFile(p) \/ WriteFile(p) \/ WriteFileFails(p)
  PROVE  Grown
  BY FileAssumption DEF CreateFile, WriteFile, WriteFileFails, WorkInv, Shape, Grown

\* A project file of the user's is not lost.
LEMMA FilesStay ==
  ASSUME WorkInv, NEW d, HasProjectFile(original, d)
  PROVE  HasProjectFile(contents, d)
<1> DEFINE S == {f \in Folders : original[f] # None}
           T == {f \in Folders : contents[f] # None}
<1>1. S \subseteq T
  BY DEF WorkInv, UserFileKept
<1>2. Nearest(d, S) # None
  BY DEF HasProjectFile
<1> HIDE DEF S, T
<1>3. Nearest(d, T) # None
  BY <1>1, <1>2, NearestMonotonic
<1> QED
  BY <1>3 DEF HasProjectFile, T

LEMMA FilterBatch ==
  ASSUME WorkInv, HeartInv, BatchInv, NEW p \in Handles, Filter(p)
  PROVE  BatchInv'
<1>1. /\ pc[p] = "filter" /\ pc[p] \in Working \ {"send", "download", "fallback"}
      /\ UNCHANGED <<static, contents, temps, queue, sent, faults>>
      /\ "filter" \in Working \ (Whole \cup {"download", "fallback"})
      /\ "remote" \in Working \ {"download", "fallback", "send"}
  BY DEF Filter, Working, Whole, Stages
<1>2. Onward
  BY <1>1, SameFaults
<1>3. PICK e : e = This(p)
  OBVIOUS
<1>4. ~ e.temp
  BY <1>1, <1>3, HeadGood DEF Good, Now
<1>5. CASE ~ Excluded(e) /\ Tracked(e)
  BY <1>1, <1>2, <1>3, <1>5, KeepBatch DEF Filter
<1>6. CASE ~ (~ Excluded(e) /\ Tracked(e))
  <2>1. Reason(e)
    BY <1>6, FilesStay DEF Tracked, Reason
  <2>2. Reason(e)'
    BY <1>1, <1>2, <2>1, ReasonStays DEF static, BatchInv, Onward
  <2>3. Pass(p, <<>>, "filter", "remote")
    BY <1>3, <1>6 DEF Filter
  <2> QED
    BY <1>1, <1>2, <1>3, <1>4, <2>2, <2>3, KeepBatch
<1> QED
  BY <1>5, <1>6

--------------------------------------------------------------------------------
(* Heartbeats without a project.                                               *)

\* A heartbeat without a project has a reason to have none.
Explained(h) == h.project = None => ProjectUnknown(New(h.in))

Nameless(p) ==
  /\ pc[p] = "exclude" => \A h \in ToSet(hh[p]) : Explained(h)
  /\ Now(p) = "detect" => \A h \in ToSet(kept[p]) : Explained(h)
  /\ pc[p] = "check" =>
       \E d \in Detections(original, New(This(p).in)) : Hides(d) /\ TargetOf(d) = Target(p)
  /\ pc[p] \in {"create", "write"} => This(p).project # None

NameInv == \A p \in Handles : Nameless(p)

\* What is found for a heartbeat without a project, or hidden, was there to be found at
\* first: the files created since give it a name, and one that is not hidden.
LEMMA DetectionsEarly ==
  ASSUME WorkInv, HeartInv, NEW p \in Handles, NEW h, Good(p, h, "detect"),
         NEW g \in Detections(contents, h), g.project = None \/ Hides(g)
  PROVE  \E d \in Detections(original, New(h.in)) :
           d.project = g.project /\ TargetOf(d) = TargetOf(g) /\ (Hides(d) <=> Hides(g))
<1>1. /\ IsHeartbeat(h) /\ IsInput(h.in)
      /\ h.in.folder \in FolderType /\ h.in.root \in FolderType
  BY DEF Good, Sound, IsInput, FolderType
<1> DEFINE Gives(k, files, c, r, e) ==
             LET a == Alternate(k.in, r)
                 f == Folder(k.in, a)
             IN e = [k EXCEPT !.project = a.project, !.branch = FirstOf(a.branch, k.in.branchAlternate),
                              !.path = f, !.roots = Within(k.in.folder, f), !.detector = c.detector,
                              !.blank = /\ c.detector = "file"
                                        /\ \/ files[c.result.folder] = <<>>
                                           \/ c.result.project = None]
<1>2. PICK c \in Detect(contents, options.project.map, h.in) :
      \E r \in RevControl(h.in, Override(h.in, c.result)) : Gives(h, contents, c, r, g)
  BY DEF Detections
<1>3. PICK r \in RevControl(h.in, Override(h.in, c.result)) : Gives(h, contents, c, r, g)
  BY <1>2
<1> DEFINE a == Alternate(h.in, r)
<1>4. /\ g.in = h.in /\ g.project = a.project /\ g.path = Folder(h.in, a) /\ g.detector = c.detector
  BY <1>1, <1>3 DEF IsHeartbeat
<1>5. a.project = None => c.result.project = None
  BY DEF Alternate, RevControl, Override, FirstOf, Found
<1>6. c.detector # "file" \/ c.result.project = None
  BY <1>4, <1>5 DEF Hides
<1>7. Written(original, contents, Random) /\ Random # None
  BY PipelineAssumption DEF HeartInv, WorkInv, UserFileKept, Written
<1>8. c \in Detect(original, options.project.map, h.in)
  BY <1>1, <1>6, <1>7, DetectEarly
<1> DEFINE n == New(h.in)
           d == [n EXCEPT !.project = a.project, !.branch = FirstOf(a.branch, n.in.branchAlternate),
                          !.path = Folder(n.in, a), !.roots = Within(n.in.folder, Folder(n.in, a)),
                          !.detector = c.detector,
                          !.blank = /\ c.detector = "file"
                                    /\ \/ original[c.result.folder] = <<>>
                                       \/ c.result.project = None]
<1>9. n.in = h.in
  BY DEF New
<1>10. d.in = h.in /\ d.project = a.project /\ d.path = Folder(h.in, a) /\ d.detector = c.detector
  BY <1>9 DEF New
<1> HIDE DEF n
<1>11. d \in Detections(original, n)
  <2>1. r \in RevControl(n.in, Override(n.in, c.result)) /\ c \in Detect(original, options.project.map, n.in)
    BY <1>3, <1>8, <1>9
  <2>2. a = Alternate(n.in, r)
    BY <1>9
  <2> DEFINE K(x) == {LET v == Alternate(n.in, y)
                          f == Folder(n.in, v)
                      IN [n EXCEPT !.project = v.project, !.branch = FirstOf(v.branch, n.in.branchAlternate),
                                   !.path = f, !.roots = Within(n.in.folder, f), !.detector = x.detector,
                                   !.blank = /\ x.detector = "file"
                                             /\ \/ original[x.result.folder] = <<>>
                                                \/ x.result.project = None] :
                        y \in RevControl(n.in, Override(n.in, x.result))}
  <2> HIDE DEF a
  <2>3. d \in K(c)
    BY <2>1, <2>2
  <2>4. Detections(original, n) = UNION {K(x) : x \in Detect(original, options.project.map, n.in)}
    BY DEF Detections
  <2> HIDE DEF K
  <2> QED
    BY <2>1, <2>3, <2>4
<1> HIDE DEF d, a, Gives
<1>12. TargetOf(d) = TargetOf(g) /\ (Hides(d) <=> Hides(g)) /\ d.project = g.project
  BY <1>4, <1>10 DEF TargetOf, Hides, ShouldSanitize
<1> QED
  BY <1>11, <1>12 DEF n

LEMMA ExplainedStays ==
  ASSUME UNCHANGED <<settings, original>>, Grown, NEW h, Explained(h)
  PROVE  Explained(h)'
  BY UnknownStays DEF Explained

\* Project detection passes on a heartbeat that has a project, or a reason to have none.
LEMMA DetectPass ==
  ASSUME WorkInv, NameInv, NEW p \in Handles, pc[p] \in Working, Now(p) = "detect",
         UNCHANGED <<settings, original>>, Grown, NEW e, Explained(e), Pass(p, <<e>>, "detect", "exclude")
  PROVE  Nameless(p)'
<1>1. IsSeq(kept[p]) /\ IsSeq(<<e>>) /\ ToSet(<<e>>) = {e} /\ ToSet(<<>>) = {} /\ Shape
  BY SeqSmall, SetSmall DEF WorkInv, Batch
<1>2. ToSet(kept[p] \o <<e>>) = ToSet(kept[p]) \cup {e}
  BY <1>1, SetConcat
<1>3. \A h \in ToSet(kept[p] \o <<e>>) : Explained(h)'
  BY <1>2, ExplainedStays DEF NameInv, Nameless
<1>4. \/ pc'[p] = "detect" /\ kept'[p] = kept[p] \o <<e>>
      \/ pc'[p] \in {"exit", "exclude"} /\ hh'[p] = kept[p] \o <<e>> /\ kept'[p] = <<>>
  BY <1>1 DEF Pass, Hold, Goto, Shape
<1> QED
  BY <1>1, <1>3, <1>4 DEF Nameless, Now

LEMMA DetectProjectNames ==
  ASSUME WorkInv, HeartInv, NameInv, NEW p \in Handles, DetectProject(p)
  PROVE  Nameless(p)'
<1>1. pc[p] = "detect" /\ pc[p] \in Working /\ Now(p) = "detect" /\ UNCHANGED <<static, contents>>
  BY DEF DetectProject, Working, Stages, Now
<1>2. PICK g \in Detections(contents, This(p)) :
        \/ Hides(g) /\ Hold(p, <<g>> \o Tail(hh[p])) /\ Goto(p, "check") /\ UNCHANGED kept
        \/ ~ Hides(g) /\ Pass(p, <<g>>, "detect", "exclude")
  BY DEF DetectProject
<1>3. Good(p, This(p), "detect")
  BY <1>1, HeadGood
<1>4. g.in = This(p).in
  BY <1>3, DetectionsFound
<1>5. Grown /\ UNCHANGED <<settings, original>>
  BY <1>1 DEF Grown, static
<1>6. CASE Hides(g) /\ Hold(p, <<g>> \o Tail(hh[p])) /\ Goto(p, "check") /\ UNCHANGED kept
  <2>1. Shape /\ IsSeq(hh[p]) /\ Len(hh[p]) > 0
    BY <1>1 DEF WorkInv, Batch
  <2>2. This(p)' = g
    BY <1>6, <2>1, SeqTail, SeqCons DEF Hold, Shape, This
  <2>3. pc'[p] = "check" /\ kept'[p] = kept[p] /\ Now(p)' = "detect"
    BY <1>6, <2>1 DEF Goto, Shape, Now
  <2>4. \A h \in ToSet(kept[p]) : Explained(h)'
    BY <1>1, <1>5, ExplainedStays DEF NameInv, Nameless
  <2>5. PICK d \in Detections(original, New(g.in)) : TargetOf(d) = TargetOf(g) /\ Hides(d)
    BY <1>3, <1>4, <1>6, DetectionsEarly
  <2>6. Detections(original, New(g.in))' = Detections(original, New(g.in))
    BY <1>5, SameDetections
  <2>7. Hides(d)' <=> Hides(d)
    BY <1>5, SameDetections
  <2>8. \E x \in Detections(original, New(This(p).in))' : Hides(x)' /\ TargetOf(x) = Target(p)'
    BY <2>2, <2>5, <2>6, <2>7 DEF Target, TargetOf, New
  <2> QED
    BY <2>3, <2>4, <2>8 DEF Nameless, TargetOf
<1>7. CASE ~ Hides(g) /\ Pass(p, <<g>>, "detect", "exclude")
  <2>1. Explained(g)
    <3>1. SUFFICES ASSUME g.project = None PROVE ProjectUnknown(New(g.in))
      BY DEF Explained
    <3>2. PICK d \in Detections(original, New(g.in)) : d.project = None
      BY <1>3, <1>4, <3>1, DetectionsEarly
    <3> QED
      BY <3>2 DEF ProjectUnknown
  <2> QED
    BY <1>1, <1>5, <1>7, <2>1, DetectPass
<1> QED
  BY <1>2, <1>6, <1>7

LEMMA CheckFileNames ==
  ASSUME WorkInv, HeartInv, NameInv, NEW p \in Handles, CheckFile(p)
  PROVE  Nameless(p)'
<1>1. pc[p] = "check" /\ pc[p] \in Working /\ Now(p) = "detect" /\ UNCHANGED <<static, contents>>
  BY DEF CheckFile, Working, Stages, Now
<1>2. IsHeartbeat(This(p))
  BY <1>1, HeadGood DEF Good, Sound
<1>3. Grown /\ UNCHANGED <<settings, original>>
  BY <1>1 DEF Grown, static
<1>4. CASE Taken(This(p)) /\ Pass(p, <<[This(p) EXCEPT !.project = None]>>, "detect", "exclude")
  <2> DEFINE e == [This(p) EXCEPT !.project = None]
  <2>1. e.in = This(p).in
    BY <1>2 DEF IsHeartbeat
  <2>2. PICK d \in Detections(original, New(This(p).in)) : Hides(d) /\ TargetOf(d) = Target(p)
    BY <1>1 DEF NameInv, Nameless
  <2>3. Taken(d)
    BY <1>4, <2>2 DEF Taken, Target
  <2>4. Explained(e)
    BY <2>1, <2>2, <2>3 DEF Explained, ProjectUnknown
  <2> HIDE DEF e
  <2>5. Pass(p, <<e>>, "detect", "exclude")
    BY <1>4 DEF e
  <2> QED
    BY <1>1, <1>3, <2>4, <2>5, DetectPass
<1>5. CASE /\ Hold(p, <<[This(p) EXCEPT !.project = Random]>> \o Tail(hh[p]))
           /\ Goto(p, "create") /\ UNCHANGED kept
  <2> DEFINE e == [This(p) EXCEPT !.project = Random]
  <2>1. e.project # None
    BY <1>2, PipelineAssumption DEF IsHeartbeat
  <2> HIDE DEF e
  <2>2. Shape /\ IsSeq(hh[p]) /\ Len(hh[p]) > 0
    BY <1>1 DEF WorkInv, Batch
  <2>3. Hold(p, <<e>> \o Tail(hh[p]))
    BY <1>5 DEF e
  <2>4. This(p)' = e
    BY <2>2, <2>3, SeqTail, SeqCons DEF Hold, Shape, This
  <2>5. pc'[p] = "create" /\ kept'[p] = kept[p]
    BY <1>5, <2>2 DEF Goto, Shape
  <2>6. \A h \in ToSet(kept[p]) : Explained(h)'
    BY <1>1, <1>3, ExplainedStays DEF NameInv, Nameless
  <2> QED
    BY <2>1, <2>4, <2>5, <2>6 DEF Nameless
<1> QED
  BY <1>4, <1>5 DEF CheckFile

\* The steps of project detection's file, and the one after it.
LEMMA FileNames ==
  ASSUME WorkInv, NameInv, NEW p \in Handles, CreateFile(p) \/ WriteFile(p) \/ WriteFileFails(p)
  PROVE  Nameless(p)'
<1>1. /\ pc[p] \in {"create", "write"} /\ pc[p] \in Working /\ Now(p) = "detect"
      /\ UNCHANGED static
  BY DEF CreateFile, WriteFile, WriteFileFails, Working, Stages, Now
<1>2. Grown /\ UNCHANGED <<settings, original>>
  BY <1>1, FilesGrow DEF static
<1>3. This(p).project # None
  BY <1>1 DEF NameInv, Nameless
<1>4. CASE CreateFile(p)
  <2>1. pc'[p] = "write" /\ UNCHANGED <<hh, kept>>
    BY <1>4 DEF CreateFile, Goto, WorkInv, Shape
  <2>2. \A h \in ToSet(kept[p]) : Explained(h)'
    BY <1>1, <1>2, ExplainedStays DEF NameInv, Nameless
  <2>3. This(p)' = This(p)
    BY <2>1 DEF This
  <2> QED
    BY <1>3, <2>1, <2>2, <2>3 DEF Nameless
<1>5. CASE WriteFile(p) \/ WriteFileFails(p)
  <2>1. Pass(p, <<This(p)>>, "detect", "exclude") /\ Explained(This(p))
    BY <1>3, <1>5 DEF WriteFile, WriteFileFails, Explained
  <2> QED
    BY <1>1, <1>2, <2>1, DetectPass
<1> QED
  BY <1>4, <1>5

LEMMA ExcludeNames ==
  ASSUME WorkInv, NameInv, NEW p \in Handles, Exclude(p)
  PROVE  Nameless(p)'
<1>1. pc[p] = "exclude" /\ pc[p] \in Working /\ UNCHANGED <<static, contents>> /\ Shape
  BY DEF Exclude, Working, Stages, WorkInv
<1>2. PICK s : Pass(p, s, "exclude", "sanitize")
  BY DEF Exclude
<1>3. \/ pc'[p] = "exclude" /\ hh'[p] = Tail(hh[p])
      \/ pc'[p] \in {"exit", "sanitize"}
  BY <1>1, <1>2 DEF Pass, Hold, Goto, Shape
<1>4. ToSet(Tail(hh[p])) \subseteq ToSet(hh[p])
  BY <1>1, SetTail DEF WorkInv, Batch
<1>5. Grown /\ UNCHANGED <<settings, original>>
  BY <1>1 DEF Grown, static
<1>6. \A h \in ToSet(hh[p]) : Explained(h)'
  BY <1>1, <1>5, ExplainedStays DEF NameInv, Nameless
<1> QED
  BY <1>3, <1>4, <1>6 DEF Nameless, Now

LEMMA DescribeNames ==
  ASSUME WorkInv, NEW p \in Handles, Describe(p)
  PROVE  Nameless(p)'
<1>1. pc[p] = "describe" /\ kept[p] = <<>> /\ Shape
  BY DEF Describe, WorkInv, Batch, Working, Whole, Stages
<1>2. pc'[p] \in {"detect", "exit"} /\ kept'[p] = <<>>
  BY <1>1 DEF Describe, PassAll, Goto, Shape
<1> QED
  BY <1>2, SetSmall DEF Nameless

\* What a step of one batch leaves alone.
Aside(p) ==
  /\ UNCHANGED <<settings, original>> /\ Grown
  /\ \A q \in Handles \ {p} : pc'[q] = pc[q] /\ hh'[q] = hh[q] /\ kept'[q] = kept[q]

LEMMA NamelessStays ==
  ASSUME UNCHANGED <<settings, original>>, Grown, NEW q, Nameless(q),
         pc'[q] = pc[q], hh'[q] = hh[q], kept'[q] = kept[q]
  PROVE  Nameless(q)'
<1>1. This(q)' = This(q) /\ Target(q)' = Target(q) /\ Now(q)' = Now(q)
  BY DEF This, Target, TargetOf, Now
<1>2. \A h : Explained(h) => Explained(h)'
  BY ExplainedStays
<1>3. pc[q] = "check" =>
        \E d \in Detections(original, New(This(q).in))' : Hides(d)' /\ TargetOf(d) = Target(q)
  <2> SUFFICES ASSUME pc[q] = "check"
               PROVE  \E d \in Detections(original, New(This(q).in))' : Hides(d)' /\ TargetOf(d) = Target(q)
    OBVIOUS
  <2>1. PICK d \in Detections(original, New(This(q).in)) : Hides(d) /\ TargetOf(d) = Target(q)
    BY DEF Nameless
  <2>2. PICK n : n = New(This(q).in)
    OBVIOUS
  <2>3. Detections(original, n)' = Detections(original, n) /\ (Hides(d)' <=> Hides(d))
    BY SameDetections
  <2>4. New(This(q).in)' = n
    BY <1>1, <2>2 DEF New
  <2> QED
    BY <2>1, <2>2, <2>3, <2>4
<1> QED
  BY <1>1, <1>2, <1>3 DEF Nameless, TargetOf


\* The other options, and the beginning and the end of a batch, are not about projects.
LEMMA OtherNames ==
  ASSUME WorkInv, NEW p \in Handles,
         \/ Start(p) \/ Filter(p) \/ SkipLocal(p) \/ CreateTemp(p) \/ Download(p) \/ DownloadFails(p)
         \/ Fallback(p) \/ ReplaceKeys(p) \/ Sanitize(p) \/ Cleanup(p) \/ Send(p) \/ Kill(p)
  PROVE  Nameless(p)'
<1>1. Shape
  BY DEF WorkInv
<1>2. pc'[p] \in {"filter", "remote", "download", "fallback", "keys", "describe", "cleanup", "send",
                  "exit", "killed"}
  <2>1. CASE Start(p) \/ Cleanup(p) \/ Send(p) \/ Kill(p)
    BY <1>1, <2>1 DEF Start, Cleanup, Send, Kill, Goto, Shape
  <2>2. CASE Filter(p) \/ SkipLocal(p) \/ Download(p) \/ Fallback(p)
    BY <1>1, <2>2 DEF Filter, SkipLocal, Download, Fallback, AfterRemote, Pass, Goto, Shape
  <2>3. CASE CreateTemp(p) \/ DownloadFails(p)
    BY <1>1, <2>3 DEF CreateTemp, DownloadFails, AfterRemote, Pass, Goto, Shape
  <2>4. CASE ReplaceKeys(p)
    BY <1>1, <2>4 DEF ReplaceKeys, PassAll, Goto, Shape
  <2>5. CASE Sanitize(p)
    BY <1>1, <2>5 DEF Sanitize, PassAll, Goto, Shape
  <2> QED
    BY <2>1, <2>2, <2>3, <2>4, <2>5
<1> QED
  BY <1>2 DEF Nameless, Now

LEMMA StepAside ==
  ASSUME WorkInv, NEW p \in Handles,
         \/ Start(p) \/ Filter(p) \/ SkipLocal(p) \/ CreateTemp(p) \/ Download(p)
         \/ DownloadFails(p) \/ Fallback(p) \/ ReplaceKeys(p) \/ Describe(p)
         \/ DetectProject(p) \/ CheckFile(p) \/ CreateFile(p) \/ WriteFile(p) \/ WriteFileFails(p)
         \/ Exclude(p) \/ Sanitize(p) \/ Cleanup(p) \/ Send(p) \/ Kill(p)
  PROVE  Aside(p)
<1>1. Shape
  BY DEF WorkInv
<1>2. UNCHANGED contents => Grown
  BY DEF Grown
<1>3. CASE Start(p) \/ Cleanup(p) \/ Send(p) \/ Kill(p)
  BY <1>1, <1>2, <1>3 DEF Start, Cleanup, Send, Kill, Goto, Hold, Shape, Aside, static
<1>4. CASE Filter(p) \/ SkipLocal(p) \/ Download(p) \/ Fallback(p) \/ Exclude(p)
  BY <1>1, <1>2, <1>4 DEF Filter, SkipLocal, Download, Fallback, Exclude, Pass, Goto, Hold, Shape, Aside, static
<1>5. CASE CreateTemp(p) \/ DownloadFails(p)
  BY <1>1, <1>2, <1>5 DEF CreateTemp, DownloadFails, Pass, Goto, Hold, Shape, Aside, static
<1>6. CASE ReplaceKeys(p)
  BY <1>1, <1>2, <1>6 DEF ReplaceKeys, PassAll, Goto, Hold, Shape, Aside, static
<1>7. CASE Describe(p) \/ Sanitize(p)
  BY <1>1, <1>2, <1>7 DEF Describe, Sanitize, PassAll, Goto, Hold, Shape, Aside, static
<1>8. CASE DetectProject(p) \/ CheckFile(p)
  BY <1>1, <1>2, <1>8 DEF DetectProject, CheckFile, Pass, Goto, Hold, Shape, Aside, static
<1>9. CASE CreateFile(p) \/ WriteFile(p) \/ WriteFileFails(p)
  BY <1>1, <1>9, FilesGrow DEF CreateFile, WriteFile, WriteFileFails, Pass, Goto, Hold, Shape, Aside, static
<1> QED
  BY <1>3, <1>4, <1>5, <1>6, <1>7, <1>8, <1>9

LEMMA InitNames == Init => NameInv
  BY DEF Init, NameInv, Nameless, Now

LEMMA SameNames ==
  ASSUME WorkInv, NameInv, UNCHANGED <<settings, original, contents, pc, hh, kept>>
  PROVE  NameInv'
<1>1. Grown
  BY DEF Grown
<1> QED
  BY <1>1, NamelessStays DEF NameInv

LEMMA StepNames == WorkInv /\ HeartInv /\ NameInv /\ [Next]_vars => NameInv'
<1> SUFFICES ASSUME WorkInv, HeartInv, NameInv, [Next]_vars PROVE NameInv'
  OBVIOUS
<1>1. CASE UNCHANGED vars \/ Sync
  BY <1>1, SameNames DEF vars, Sync, static
<1>2. CASE ~ (UNCHANGED vars \/ Sync)
  <2>1. PICK p \in Handles :
           \/ Start(p) \/ Filter(p) \/ SkipLocal(p) \/ CreateTemp(p) \/ Download(p)
           \/ DownloadFails(p) \/ Fallback(p) \/ ReplaceKeys(p) \/ Describe(p)
           \/ DetectProject(p) \/ CheckFile(p) \/ CreateFile(p) \/ WriteFile(p) \/ WriteFileFails(p)
           \/ Exclude(p) \/ Sanitize(p) \/ Cleanup(p) \/ Send(p) \/ Kill(p)
    BY <1>2 DEF Next
  <2>2. Aside(p)
    BY <2>1, StepAside
  <2>3. Nameless(p)'
    BY <2>1, OtherNames, DescribeNames, DetectProjectNames, CheckFileNames, FileNames, ExcludeNames
  <2> QED
    BY <2>2, <2>3, NamelessStays DEF Aside, NameInv
<1> QED
  BY <1>1, <1>2

LEMMA ExcludeBatch ==
  ASSUME WorkInv, HeartInv, BatchInv, NameInv, NEW p \in Handles, Exclude(p)
  PROVE  BatchInv'
<1>1. /\ pc[p] = "exclude" /\ pc[p] \in Working \ {"send", "download", "fallback"}
      /\ UNCHANGED <<static, contents, queue, sent, faults>>
      /\ "exclude" \in Working \ (Whole \cup {"download", "fallback"})
      /\ "sanitize" \in Working \ {"download", "fallback", "send"}
  BY DEF Exclude, Working, Whole, Stages
<1>2. Onward
  BY <1>1, SameFaults
<1>3. PICK e : e = This(p)
  OBVIOUS
<1>4. CASE Known(e)
  <2>1. UNCHANGED temps /\ Pass(p, <<e>>, "exclude", "sanitize")
    BY <1>3, <1>4 DEF Exclude
  <2> QED
    BY <1>1, <1>2, <1>3, <2>1, KeepBatch
<1>5. CASE ~ Known(e)
  <2> DEFINE s == <<>>
  <2>1. temps' = temps \ TempsOf(p, {e}) /\ Pass(p, s, "exclude", "sanitize")
    BY <1>3, <1>5 DEF Exclude
  <2>2. Reason(e)
    <3>1. e \in ToSet(hh[p])
      BY <1>1, <1>3, SetTail DEF WorkInv, Batch, This
    <3>2. options.filter.excludeUnknown /\ e.project = None
      BY <1>5 DEF Known
    <3>3. ProjectUnknown(New(e.in))
      BY <1>1, <3>1, <3>2 DEF NameInv, Nameless, Explained
    <3> QED
      BY <3>2, <3>3 DEF Reason
  <2>3. Reason(e)'
    BY <1>1, <1>2, <2>2, ReasonStays DEF static, BatchInv, Onward
  <2>4. OwnTemps(p)
    BY <2>1 DEF OwnTemps, TempsOf
  <2>5. /\ TempsFor(p) = TempsOf(p, Rest(p)) \cup TempsOf(p, {e})
        /\ Temp(p) \notin TempsOf(p, Rest(p))
    BY <1>1, <1>3, OwnedNow
  <2>6. TempsOf(p, {e}) \subseteq {Temp(p)}
    BY <1>3 DEF TempsOf, Temp
  <2>7. TempsOf(p, ToSet(s)) = {}
    BY SetSmall DEF TempsOf
  <2>8. TempsFor(p)' = TempsOf(p, Rest(p)) \cup TempsOf(p, ToSet(s))
    BY <2>1, <2>5, <2>6, <2>7 DEF TempsFor
  <2>9. Keeps(p, s, e)
    BY <1>3 DEF Keeps
  <2> HIDE DEF s
  <2> QED
    BY <1>1, <1>2, <2>1, <2>3, <2>4, <2>8, <2>9, PassBatch
<1> QED
  BY <1>4, <1>5

LEMMA RemoteStages ==
  /\ "remote" \in Working \ (Whole \cup {"download", "fallback"})
  /\ \A p : AfterRemote(p) \in Working \ {"download", "fallback", "send"}
  BY DEF Working, Whole, Stages, AfterRemote

\* What is being fetched is remote, and not yet counted among the files of the batch.
LEMMA RemoteNow ==
  ASSUME WorkInv, HeartInv, BatchInv, NEW p \in Handles, pc[p] \in {"remote", "download", "fallback"}
  PROVE  /\ pc[p] \in Working \ {"send"}
         /\ ~ This(p).temp
         /\ This(p) \in Underway(p)
         /\ TempsFor(p) = TempsOf(p, Rest(p)) \cup (IF pc[p] = "remote" THEN {} ELSE {Temp(p)})
         /\ Temp(p) \notin TempsOf(p, Rest(p))
<1>1. pc[p] \in Working \ {"send"} /\ pc[p] \in Working /\ Now(p) = "remote"
  BY DEF Working, Stages, Now
<1>2. ~ This(p).temp
  BY <1>1, HeadGood DEF Good
<1>3. TempsOf(p, {This(p)}) = {}
  BY <1>2 DEF TempsOf
<1>4. This(p) \in Underway(p)
  BY <1>1, ThisAndRest
<1> QED
  BY <1>1, <1>2, <1>3, <1>4, OwnedNow

LEMMA CreateTempBatch ==
  ASSUME WorkInv, HeartInv, BatchInv, NEW p \in Handles, CreateTemp(p)
  PROVE  BatchInv'
<1>1. pc[p] = "remote" /\ IsRemote(This(p)) /\ UNCHANGED <<static, contents, queue, sent>>
  BY DEF CreateTemp
<1>2. /\ pc[p] \in Working \ {"send"} /\ ~ This(p).temp /\ This(p) \in Underway(p)
      /\ pc[p] \in Working \ {"send", "download", "fallback"}
      /\ pc[p] \in Working
  BY <1>1, RemoteNow
<1>3. CASE temps' = temps \cup {Temp(p)} /\ Goto(p, "download") /\ UNCHANGED <<hh, kept, faults>>
  <2>1. pc'[p] = "download" /\ Own(p)
    BY <1>1, <1>3 DEF Goto, Own, WorkInv, Shape, Stages, static
  <2>2. Onward
    BY <1>1, <1>3, SameFaults
  <2>3. Complete(p)' /\ Underway(p)' = Underway(p) /\ This(p)' = This(p)
    BY <1>1, <1>2, <1>3, <2>2, GotoComplete
  <2>4. Fetching(p)'
    BY <1>1, <2>1, <2>3 DEF Fetching, IsRemote, IsFile
  <2>5. OwnTemps(p) /\ Recorded
    BY <1>1, <1>2, <1>3 DEF OwnTemps, Temp, Recorded
  <2>6. TempsFor(p) = TempsOf(p, Underway(p))
    BY <1>1 DEF BatchInv, Owned
  <2>7. TempsFor(p)' = TempsOf(p, Underway(p)) \cup {Temp(p)}
    BY <1>3, <2>6 DEF TempsFor, Temp
  <2>8. Temp(p)' = Temp(p)
    BY <2>3 DEF Temp
  <2>9. Owned(p)'
    BY <2>1, <2>3, <2>7, <2>8 DEF Owned, TempsOf
  <2> QED
    BY <1>1, <2>1, <2>2, <2>3, <2>4, <2>5, <2>9, OwnBatch DEF static
<1>4. CASE Fault /\ Pass(p, <<>>, "remote", AfterRemote(p)) /\ UNCHANGED temps
  <2>1. PICK e : e = This(p)
    OBVIOUS
  <2>2. Onward /\ faults' > 0
    BY <1>1, <1>4, MoreFaults
  <2>3. Reason(e)'
    BY <1>1, <2>1, <2>2 DEF Reason, IsRemote, IsFile
  <2> QED
    BY <1>1, <1>2, <1>4, <2>1, <2>2, <2>3, KeepBatch, RemoteStages
<1> QED
  BY <1>3, <1>4 DEF CreateTemp

LEMMA SkipLocalBatch ==
  ASSUME WorkInv, BatchInv, NEW p \in Handles, SkipLocal(p)
  PROVE  BatchInv'
<1>1. /\ pc[p] = "remote" /\ pc[p] \in Working \ {"send", "download", "fallback"}
      /\ UNCHANGED <<static, temps, queue, sent>>
      /\ Pass(p, <<This(p)>>, "remote", AfterRemote(p))
  BY DEF SkipLocal, Working, Stages
<1>2. Onward
  BY SameFaults DEF SkipLocal
<1> QED
  BY <1>1, <1>2, KeepBatch, RemoteStages

LEMMA DownloadBatch ==
  ASSUME WorkInv, HeartInv, BatchInv, NEW p \in Handles, Download(p)
  PROVE  BatchInv'
<1>1. pc[p] = "download" /\ UNCHANGED <<static, contents, temps, queue, sent>>
  BY DEF Download
<1>2. Onward
  BY SameFaults DEF Download
<1>3. /\ pc[p] \in Working /\ This(p) \in Underway(p)
      /\ TempsFor(p) = TempsOf(p, Rest(p)) \cup {Temp(p)}
  BY <1>1, RemoteNow
<1>4. Good(p, This(p), "remote")
  BY <1>1, <1>3, HeadGood DEF Now
<1> DEFINE e == [This(p) EXCEPT !.temp = TRUE]
           s == <<e>>
<1>5. e.in = This(p).in /\ e.temp
  BY <1>4 DEF Good, Sound, IsHeartbeat
<1>6. Pass(p, s, "remote", AfterRemote(p))
  BY DEF Download
<1> HIDE DEF e
<1>7. ToSet(s) = {e} /\ s # <<>>
  BY SetSmall
<1>8. TempsOf(p, ToSet(s)) = {Temp(p)}
  BY <1>5, <1>7 DEF TempsOf, Temp
<1>9. TempsFor(p)' = TempsOf(p, Rest(p)) \cup TempsOf(p, ToSet(s))
  BY <1>1, <1>3, <1>8 DEF TempsFor
<1>10. OwnTemps(p) /\ Keeps(p, s, e)
  BY <1>1, <1>5 DEF OwnTemps, Keeps
<1> HIDE DEF s
<1> QED
  BY <1>1, <1>2, <1>3, <1>6, <1>7, <1>9, <1>10, PassBatch, RemoteStages

\* A download that is given up.
LEMMA GiveUpBatch ==
  ASSUME WorkInv, HeartInv, BatchInv, NEW p \in Handles, pc[p] \in {"download", "fallback"},
         UNCHANGED <<static, contents, queue, sent>>, Onward, faults' > 0,
         temps' = temps \ {Temp(p)}, Pass(p, <<>>, "remote", AfterRemote(p))
  PROVE  BatchInv'
<1>1. PICK e : e = This(p)
  OBVIOUS
<1>2. /\ pc[p] \in Working
      /\ TempsFor(p) = TempsOf(p, Rest(p)) \cup {Temp(p)}
      /\ Temp(p) \notin TempsOf(p, Rest(p))
  BY RemoteNow
<1> DEFINE s == <<>>
<1>3. TempsOf(p, ToSet(s)) = {}
  BY SetSmall DEF TempsOf
<1>4. TempsFor(p)' = TempsOf(p, Rest(p)) \cup TempsOf(p, ToSet(s))
  BY <1>2, <1>3 DEF TempsFor
<1>5. OwnTemps(p) /\ Keeps(p, s, e)
  BY <1>1 DEF OwnTemps, Temp, Keeps
<1>6. IsRemote(e)
  BY <1>1 DEF BatchInv, Fetching
<1>7. Reason(e)'
  BY <1>6 DEF Reason, IsRemote, IsFile
<1>8. Pass(p, s, "remote", AfterRemote(p))
  OBVIOUS
<1> HIDE DEF s
<1> QED
  BY <1>2, <1>4, <1>5, <1>7, <1>8, PassBatch, RemoteStages

LEMMA DownloadFailsBatch ==
  ASSUME WorkInv, HeartInv, BatchInv, NEW p \in Handles, DownloadFails(p)
  PROVE  BatchInv'
<1>1. pc[p] = "download" /\ UNCHANGED <<static, contents, queue, sent>>
  BY DEF DownloadFails
<1>2. Onward /\ faults' > 0
  BY MoreFaults DEF DownloadFails
<1>3. CASE temps' = temps \ {Temp(p)} /\ Pass(p, <<>>, "remote", AfterRemote(p))
  BY <1>1, <1>2, <1>3, GiveUpBatch
<1>4. CASE Goto(p, "fallback") /\ UNCHANGED <<temps, hh, kept>>
  <2>1. pc'[p] = "fallback" /\ Own(p)
    BY <1>1, <1>4 DEF Goto, Own, WorkInv, Shape, Stages, static
  <2>2. pc[p] \in Working
    BY <1>1 DEF Working, Stages
  <2>3. Complete(p)' /\ Underway(p)' = Underway(p) /\ This(p)' = This(p)
    BY <1>1, <1>2, <1>4, <2>2, GotoComplete
  <2>4. Fetching(p)'
    BY <1>1, <1>2, <2>3 DEF BatchInv, Fetching, IsRemote, IsFile
  <2>5. OwnTemps(p) /\ Recorded /\ TempsFor(p)' = TempsFor(p) /\ Temp(p)' = Temp(p)
    BY <1>1, <1>4, <2>3 DEF OwnTemps, Temp, Recorded, TempsFor
  <2>6. Owned(p)'
    BY <1>1, <2>1, <2>3, <2>5 DEF BatchInv, Owned, TempsOf
  <2> QED
    BY <1>1, <1>2, <2>1, <2>3, <2>4, <2>5, <2>6, OwnBatch DEF static
<1> QED
  BY <1>3, <1>4 DEF DownloadFails

LEMMA FallbackBatch ==
  ASSUME WorkInv, HeartInv, BatchInv, NEW p \in Handles, Fallback(p)
  PROVE  BatchInv'
<1>1. /\ pc[p] = "fallback" /\ UNCHANGED <<static, contents, queue, sent, faults>>
      /\ temps' = temps \ {Temp(p)} /\ Pass(p, <<>>, "remote", AfterRemote(p))
  BY DEF Fallback
<1>2. Onward /\ faults' > 0
  BY <1>1, SameFaults DEF BatchInv, Fetching
<1> QED
  BY <1>1, <1>2, GiveUpBatch

\* A step that changes the first heartbeat, and not yet goes on.
LEMMA HeadBatch ==
  ASSUME WorkInv, BatchInv, NEW p \in Handles, pc[p] \in {"detect", "check"},
         UNCHANGED <<static, contents, temps, kept, queue, sent, faults>>,
         NEW l \in {"check", "create"}, Goto(p, l),
         NEW e, Hold(p, <<e>> \o Tail(hh[p])), e.in = This(p).in, e.temp <=> This(p).temp
  PROVE  BatchInv'
<1>1. /\ pc[p] \in Working \ {"send"} /\ pc[p] \in Working /\ Shape /\ Complete(p)
      /\ IsSeq(hh[p]) /\ Len(hh[p]) > 0
  BY DEF Working, Stages, WorkInv, Batch, BatchInv
<1>2. Onward
  BY SameFaults
<1>3. IsSeq(Tail(hh[p])) /\ IsSeq(<<e>>) /\ ToSet(<<e>>) = {e} /\ Apart(<<e>>) /\ Apart(Tail(hh[p]))
  BY <1>1, SeqTail, SeqSmall, SetSmall, ApartSmall, ApartTail DEF Complete
<1>4. ToSet(<<e>> \o Tail(hh[p])) = {e} \cup ToSet(Tail(hh[p]))
  BY <1>3, SetConcat
<1>5. Underway(p) = {This(p)} \cup Rest(p) /\ \A h \in Rest(p) : h.in.id # e.in.id
  BY <1>1, ThisAndRest
<1>6. Apart(<<e>> \o Tail(hh[p]))
  <2>1. \A g \in ToSet(<<e>>), h \in ToSet(Tail(hh[p])) : g.in.id # h.in.id
    BY <1>3, <1>5 DEF Rest
  <2> QED
    BY <1>3, <2>1, ApartConcat
<1>7. pc'[p] = l /\ hh'[p] = <<e>> \o Tail(hh[p]) /\ kept'[p] = kept[p]
  BY <1>1 DEF Goto, Hold, Shape
<1>8. Own(p)
  BY <1>1 DEF Own, Goto, Hold, Shape, Stages, static
<1>9. Underway(p)' = {e} \cup Rest(p) /\ GivenTo(p)' = GivenTo(p)
  BY <1>4, <1>7 DEF Underway, Rest, GivenTo, static
<1>10. ToSet(hh[p]) = {This(p)} \cup ToSet(Tail(hh[p]))
  BY <1>1, SetTail DEF This
<1>11. \A g \in ToSet(kept[p]), h \in ToSet(<<e>> \o Tail(hh[p])) : g.in.id # h.in.id
  BY <1>1, <1>4, <1>5, <1>10 DEF Complete, Rest
<1>12. \A h : Reason(h) => Reason(h)'
  BY <1>2, ReasonStays DEF static, Onward, BatchInv
<1>13. Complete(p)'
  <2>1. \A g \in Underway(p)' : \E h \in GivenTo(p) : g.in = h.in
    BY <1>1, <1>5, <1>9 DEF Complete
  <2>2. \A h \in GivenTo(p) : (\E g \in Underway(p)' \cup queue' \cup sent' : g.in = h.in) \/ Reason(h)'
    <3> SUFFICES ASSUME NEW h \in GivenTo(p), ~ Reason(h)'
                 PROVE  \E g \in Underway(p)' \cup queue' \cup sent' : g.in = h.in
      OBVIOUS
    <3>1. PICK g \in Underway(p) \cup queue \cup sent : g.in = h.in
      BY <1>1, <1>12 DEF Complete, Working
    <3> QED
      BY <1>5, <1>9, <3>1
  <2> QED
    BY <1>1, <1>6, <1>7, <1>9, <1>11, <2>1, <2>2 DEF Complete
<1>14. TempsOf(p, Underway(p)') = TempsOf(p, Underway(p))
  BY <1>5, <1>9 DEF TempsOf
<1>15. Owned(p)'
  BY <1>1, <1>7, <1>14 DEF BatchInv, Owned, TempsFor, TempsOf, Working
<1>16. OwnTemps(p) /\ Recorded /\ Fetching(p)'
  BY <1>7 DEF OwnTemps, Recorded, Fetching
<1> QED
  BY <1>2, <1>8, <1>13, <1>15, <1>16, OwnBatch DEF static

LEMMA DetectStages ==
  /\ "detect" \in Working \ (Whole \cup {"download", "fallback"})
  /\ "exclude" \in Working \ {"download", "fallback", "send"}
  BY DEF Working, Whole, Stages

LEMMA DetectProjectBatch ==
  ASSUME WorkInv, HeartInv, BatchInv, NEW p \in Handles, DetectProject(p)
  PROVE  BatchInv'
<1>1. /\ pc[p] = "detect" /\ pc[p] \in Working \ {"send", "download", "fallback"}
      /\ pc[p] \in Working
      /\ UNCHANGED <<static, contents, temps, queue, sent, faults>>
  BY DEF DetectProject, Working, Stages
<1>2. PICK g \in Detections(contents, This(p)) :
        \/ Hold(p, <<g>> \o Tail(hh[p])) /\ Goto(p, "check") /\ UNCHANGED kept
        \/ Pass(p, <<g>>, "detect", "exclude")
  BY DEF DetectProject
<1>3. Good(p, This(p), "detect")
  BY <1>1, HeadGood DEF Now
<1>4. g.in = This(p).in /\ (g.temp <=> This(p).temp)
  BY <1>3, DetectionsFound
<1>5. Onward
  BY <1>1, SameFaults
<1>6. CASE Hold(p, <<g>> \o Tail(hh[p])) /\ Goto(p, "check") /\ UNCHANGED kept
  BY <1>1, <1>4, <1>6, HeadBatch
<1>7. CASE Pass(p, <<g>>, "detect", "exclude")
  BY <1>1, <1>4, <1>5, <1>7, KeepBatch, DetectStages
<1> QED
  BY <1>2, <1>6, <1>7

LEMMA CheckFileBatch ==
  ASSUME WorkInv, HeartInv, BatchInv, NEW p \in Handles, CheckFile(p)
  PROVE  BatchInv'
<1>1. /\ pc[p] = "check" /\ pc[p] \in Working \ {"send", "download", "fallback"}
      /\ pc[p] \in Working
      /\ UNCHANGED <<static, contents, temps, queue, sent, faults>>
  BY DEF CheckFile, Working, Stages
<1>2. Good(p, This(p), "detect")
  BY <1>1, HeadGood DEF Now
<1>3. ASSUME NEW n
      PROVE  /\ [This(p) EXCEPT !.project = n].in = This(p).in
             /\ [This(p) EXCEPT !.project = n].temp <=> This(p).temp
  BY <1>2 DEF Good, Sound, IsHeartbeat
<1>4. Onward
  BY <1>1, SameFaults
<1>5. CASE Pass(p, <<[This(p) EXCEPT !.project = None]>>, "detect", "exclude")
  <2>1. PICK e : e = [This(p) EXCEPT !.project = None]
    OBVIOUS
  <2>2. e.in = This(p).in /\ (e.temp <=> This(p).temp)
    BY <1>3, <2>1
  <2> QED
    BY <1>1, <1>4, <1>5, <2>1, <2>2, KeepBatch, DetectStages
<1>6. CASE /\ Hold(p, <<[This(p) EXCEPT !.project = Random]>> \o Tail(hh[p]))
           /\ Goto(p, "create") /\ UNCHANGED kept
  <2>1. PICK e : e = [This(p) EXCEPT !.project = Random]
    OBVIOUS
  <2>2. e.in = This(p).in /\ (e.temp <=> This(p).temp)
    BY <1>3, <2>1
  <2> QED
    BY <1>1, <1>6, <2>1, <2>2, HeadBatch
<1> QED
  BY <1>5, <1>6 DEF CheckFile

LEMMA CreateFileBatch ==
  ASSUME WorkInv, BatchInv, NEW p \in Handles, CreateFile(p)
  PROVE  BatchInv'
<1>1. /\ pc[p] = "create" /\ UNCHANGED <<static, hh, kept, temps, queue, sent, faults>>
      /\ pc'[p] = "write" /\ Own(p)
  BY DEF CreateFile, Goto, Own, WorkInv, Shape, Stages, static
<1>2. pc[p] \in Working
  BY <1>1 DEF Working, Stages
<1>3. Onward
  BY <1>1, FilesGrow DEF BatchInv, Onward
<1>4. Complete(p)' /\ Underway(p)' = Underway(p)
  BY <1>1, <1>2, <1>3, GotoComplete
<1>5. Owned(p)'
  BY <1>1, <1>4 DEF BatchInv, Owned, TempsFor, TempsOf
<1>6. OwnTemps(p) /\ Recorded /\ Fetching(p)'
  BY <1>1 DEF OwnTemps, Recorded, Fetching
<1> QED
  BY <1>1, <1>3, <1>4, <1>5, <1>6, OwnBatch DEF static

LEMMA WriteFileBatch ==
  ASSUME WorkInv, BatchInv, NEW p \in Handles, WriteFile(p) \/ WriteFileFails(p)
  PROVE  BatchInv'
<1>1. /\ pc[p] \in {"create", "write"}
      /\ UNCHANGED <<static, temps, queue, sent>>
      /\ Pass(p, <<This(p)>>, "detect", "exclude")
  BY DEF WriteFile, WriteFileFails
<1>2. pc[p] \in Working \ {"send", "download", "fallback"}
  BY <1>1 DEF Working, Stages
<1>3. Onward
  BY FilesGrow, MoreFaults DEF WriteFile, WriteFileFails, BatchInv, Onward
<1> QED
  BY <1>1, <1>2, <1>3, KeepBatch, DetectStages

\* An option that is one step.
LEMMA WholeBatch ==
  ASSUME WorkInv, BatchInv, NEW p \in Handles, pc[p] \in {"keys", "describe", "sanitize"},
         UNCHANGED <<static, contents, temps, queue, sent, faults>>,
         NEW g, g = [n \in DOMAIN hh[p] |-> g[n]],
         \A n \in DOMAIN hh[p] : g[n].in = hh[p][n].in /\ (g[n].temp <=> hh[p][n].temp),
         NEW next \in {"describe", "detect", "cleanup"}, PassAll(p, g, next)
  PROVE  BatchInv'
<1>1. /\ pc[p] \in Whole /\ pc[p] \in Working /\ next \in Working
      /\ Complete(p) /\ Shape /\ Batch(p)
  BY DEF Whole, Working, Stages, WorkInv, BatchInv
<1>2. IsSeq(g) /\ Len(g) > 0 /\ kept[p] = <<>>
  BY <1>1, SeqSameLength DEF Batch
<1>3. Own(p) /\ pc'[p] = next
  BY <1>1, <1>2, PassAllOwn DEF static
<1>4. hh'[p] = g /\ kept'[p] = <<>>
  BY <1>1, <1>2 DEF PassAll, Hold, Shape
<1>5. Onward
  BY SameFaults
<1>6. /\ Underway(p) = ToSet(hh[p]) /\ Underway(p)' = ToSet(g)
      /\ GivenTo(p)' = GivenTo(p)
  BY <1>2, <1>4, SetSmall DEF Underway, GivenTo, static
<1>7. /\ \A e \in ToSet(g) : \E h \in ToSet(hh[p]) : e.in = h.in /\ (e.temp <=> h.temp)
      /\ \A h \in ToSet(hh[p]) : \E e \in ToSet(g) : e.in = h.in /\ (e.temp <=> h.temp)
  BY DEF ToSet
<1>8. Apart(g) /\ Apart(<<>>) /\ ToSet(<<>>) = {}
  BY <1>1, ApartMap, ApartSmall, SetSmall DEF Complete
<1>9. \A h : Reason(h) => Reason(h)'
  BY <1>5, ReasonStays DEF static, Onward, BatchInv
<1>10. \A e \in Underway(p)' : \E h \in GivenTo(p) : e.in = h.in
  <2> SUFFICES ASSUME NEW e \in ToSet(g) PROVE \E h \in GivenTo(p) : e.in = h.in
    BY <1>6
  <2>1. PICK h \in ToSet(hh[p]) : e.in = h.in
    BY <1>7
  <2> QED
    BY <1>1, <1>6, <2>1 DEF Complete
<1>11. \A h \in GivenTo(p) : (\E e \in Underway(p)' \cup queue' \cup sent' : e.in = h.in) \/ Reason(h)'
  <2> SUFFICES ASSUME NEW h \in GivenTo(p), ~ Reason(h)'
               PROVE  \E e \in Underway(p)' \cup queue' \cup sent' : e.in = h.in
    OBVIOUS
  <2>1. PICK x \in Underway(p) \cup queue \cup sent : x.in = h.in
    BY <1>1, <1>9 DEF Complete, Working
  <2> QED
    BY <1>6, <1>7, <2>1
<1>12. Complete(p)'
  BY <1>4, <1>6, <1>8, <1>10, <1>11 DEF Complete
<1>13. TempsOf(p, Underway(p)') = TempsOf(p, Underway(p))
  <2>1. TempsOf(p, ToSet(g)) \subseteq TempsOf(p, ToSet(hh[p]))
    <3> SUFFICES ASSUME NEW e \in ToSet(g), e.temp
                 PROVE  <<p, e.in.id>> \in TempsOf(p, ToSet(hh[p]))
      BY DEF TempsOf
    <3>1. PICK h \in ToSet(hh[p]) : e.in = h.in /\ h.temp
      BY <1>7
    <3> QED
      BY <3>1 DEF TempsOf
  <2>2. TempsOf(p, ToSet(hh[p])) \subseteq TempsOf(p, ToSet(g))
    <3> SUFFICES ASSUME NEW h \in ToSet(hh[p]), h.temp
                 PROVE  <<p, h.in.id>> \in TempsOf(p, ToSet(g))
      BY DEF TempsOf
    <3>1. PICK e \in ToSet(g) : e.in = h.in /\ e.temp
      BY <1>7
    <3> QED
      BY <3>1 DEF TempsOf
  <2>3. TempsOf(p, ToSet(g)) = TempsOf(p, ToSet(hh[p]))
    BY <2>1, <2>2
  <2> QED
    BY <1>6, <2>3
<1>14. Owned(p)'
  BY <1>3, <1>13 DEF BatchInv, Owned, TempsFor, TempsOf
<1>15. OwnTemps(p) /\ Recorded /\ Fetching(p)'
  BY <1>3 DEF OwnTemps, Recorded, Fetching
<1> QED
  BY <1>3, <1>5, <1>12, <1>14, <1>15, OwnBatch DEF static

LEMMA ReplaceKeysBatch ==
  ASSUME WorkInv, HeartInv, BatchInv, NEW p \in Handles, ReplaceKeys(p)
  PROVE  BatchInv'
<1>1. pc[p] = "keys" /\ Now(p) = "keys" /\ UNCHANGED <<static, contents, temps, queue, sent, faults>>
  BY DEF ReplaceKeys, Now
<1>2. PICK k : PassAll(p, [n \in DOMAIN hh[p] |-> [hh[p][n] EXCEPT !.key = k[n]]], "describe")
  BY DEF ReplaceKeys
<1> DEFINE g == [n \in DOMAIN hh[p] |-> [hh[p][n] EXCEPT !.key = k[n]]]
<1>3. \A n \in DOMAIN hh[p] : IsHeartbeat(hh[p][n])
  BY DEF HeartInv, Waiting, ToSet, Good, Sound
<1>4. \A n \in DOMAIN hh[p] : g[n].in = hh[p][n].in /\ (g[n].temp <=> hh[p][n].temp)
  BY <1>3 DEF IsHeartbeat
<1> QED
  BY <1>1, <1>2, <1>4, WholeBatch

LEMMA DescribeBatch ==
  ASSUME WorkInv, HeartInv, BatchInv, NEW p \in Handles, Describe(p)
  PROVE  BatchInv'
<1>1. pc[p] = "describe" /\ UNCHANGED <<static, contents, temps, queue, sent, faults>>
  BY DEF Describe
<1> DEFINE D(h) == IsFile(h) /\ ~ h.in.unsaved /\ ~ ShouldSanitize(h, options.sanitize.hideFiles)
           g == [n \in DOMAIN hh[p] |-> [hh[p][n] EXCEPT !.dependencies = D(hh[p][n])]]
<1>2. PassAll(p, g, "detect")
  BY DEF Describe, Map
<1>3. \A n \in DOMAIN hh[p] : IsHeartbeat(hh[p][n])
  BY DEF HeartInv, Waiting, ToSet, Good, Sound
<1> HIDE DEF D
<1>4. \A n \in DOMAIN hh[p] : g[n].in = hh[p][n].in /\ (g[n].temp <=> hh[p][n].temp)
  BY <1>3 DEF IsHeartbeat
<1> QED
  BY <1>1, <1>2, <1>4, WholeBatch

LEMMA SanitizeBatch ==
  ASSUME WorkInv, HeartInv, BatchInv, NEW p \in Handles, Sanitize(p)
  PROVE  BatchInv'
<1>1. pc[p] = "sanitize" /\ Now(p) = "sanitize" /\ UNCHANGED <<static, contents, temps, queue, sent, faults>>
  BY DEF Sanitize, Now
<1> DEFINE g == [n \in DOMAIN hh[p] |-> Sanitized(hh[p][n])]
<1>2. PassAll(p, g, "cleanup")
  BY DEF Sanitize, Map
<1>3. \A n \in DOMAIN hh[p] : Good(p, hh[p][n], "sanitize")
  BY <1>1 DEF HeartInv, Waiting, ToSet
<1>4. \A n \in DOMAIN hh[p] : g[n].in = hh[p][n].in /\ (g[n].temp <=> hh[p][n].temp)
  BY <1>3, SanitizedGood DEF Kin
<1> QED
  BY <1>1, <1>2, <1>4, WholeBatch

--------------------------------------------------------------------------------
(* Cleaning up, sending, and what comes before and after.                      *)

LEMMA CleanupBatch ==
  ASSUME WorkInv, BatchInv, NEW p \in Handles, Cleanup(p)
  PROVE  BatchInv'
<1>1. /\ pc[p] = "cleanup" /\ UNCHANGED <<static, contents, hh, kept, queue, sent, faults>>
      /\ temps' = temps \ TempsOf(p, ToSet(hh[p]))
      /\ pc'[p] = "send" /\ Own(p)
  BY DEF Cleanup, Goto, Own, WorkInv, Shape, Stages, static
<1>2. pc[p] \in Working /\ kept[p] = <<>>
  BY <1>1 DEF Working, Stages, Whole, WorkInv, Batch
<1>3. Onward
  BY <1>1, SameFaults
<1>4. Complete(p)'
  BY <1>1, <1>2, <1>3, GotoComplete
<1>5. Underway(p) = ToSet(hh[p])
  BY <1>2, SetSmall DEF Underway
<1>6. TempsFor(p)' = {}
  <2>1. TempsFor(p) = TempsOf(p, ToSet(hh[p]))
    BY <1>1, <1>5 DEF BatchInv, Owned
  <2> QED
    BY <1>1, <2>1 DEF TempsFor
<1>7. Owned(p)'
  BY <1>1, <1>6 DEF Owned
<1>8. OwnTemps(p) /\ Recorded /\ Fetching(p)'
  BY <1>1 DEF OwnTemps, TempsOf, Recorded, Fetching
<1> QED
  BY <1>1, <1>3, <1>4, <1>7, <1>8, OwnBatch DEF static

LEMMA SendBatch ==
  ASSUME WorkInv, BatchInv, NEW p \in Handles, Send(p)
  PROVE  BatchInv'
<1>1. /\ pc[p] = "send" /\ UNCHANGED <<static, contents, temps, kept>>
      /\ pc'[p] = "exit" /\ hh'[p] = <<>> /\ Own(p)
  BY DEF Send, Goto, Hold, Own, WorkInv, Shape, Stages, static
<1>2. pc[p] \in Working /\ kept[p] = <<>> /\ kept'[p] = <<>> /\ Complete(p)
  BY <1>1 DEF Working, Stages, Whole, WorkInv, Batch, BatchInv
<1>3. Onward
  BY SameFaults, MoreFaults DEF Send
<1>4. Recorded /\ \A h \in ToSet(hh[p]) : h \in queue' \cup sent'
  BY DEF Send, Recorded
<1>5. ToSet(<<>>) = {} /\ Apart(<<>>)
  BY SetSmall, ApartSmall
<1>6. Underway(p) = ToSet(hh[p]) /\ Underway(p)' = {} /\ GivenTo(p)' = GivenTo(p)
  BY <1>1, <1>2, <1>5 DEF Underway, GivenTo, static
<1>7. \A h : Reason(h) => Reason(h)'
  BY <1>1, <1>3, ReasonStays DEF static, Onward, BatchInv
<1>8. \A h \in GivenTo(p) : (\E e \in queue' \cup sent' : e.in = h.in) \/ Reason(h)'
  <2> SUFFICES ASSUME NEW h \in GivenTo(p), ~ Reason(h)'
               PROVE  \E e \in queue' \cup sent' : e.in = h.in
    OBVIOUS
  <2>1. PICK x \in Underway(p) \cup queue \cup sent : x.in = h.in
    BY <1>2, <1>7 DEF Complete, Working
  <2> QED
    BY <1>4, <1>6, <2>1 DEF Recorded
<1>9. Complete(p)'
  BY <1>1, <1>2, <1>5, <1>6, <1>8 DEF Complete
<1>10. Owned(p)'
  BY <1>1 DEF BatchInv, Owned, TempsFor
<1>11. OwnTemps(p) /\ Fetching(p)'
  BY <1>1 DEF OwnTemps, Fetching
<1> QED
  BY <1>1, <1>3, <1>4, <1>9, <1>10, <1>11, OwnBatch DEF static

LEMMA KillBatch ==
  ASSUME WorkInv, BatchInv, NEW p \in Handles, Kill(p)
  PROVE  BatchInv'
<1>1. /\ UNCHANGED <<static, contents, temps, queue, sent>>
      /\ pc'[p] = "killed" /\ hh'[p] = <<>> /\ kept'[p] = <<>> /\ Own(p)
  BY DEF Kill, Goto, Hold, Own, WorkInv, Shape, Stages, static
<1>2. Onward
  BY MoreFaults DEF Kill
<1>3. Complete(p)' /\ Fetching(p)' /\ Owned(p)'
  BY <1>1, SetSmall, ApartSmall DEF Complete, Fetching, Owned, Underway
<1>4. OwnTemps(p) /\ Recorded
  BY <1>1 DEF OwnTemps, Recorded
<1> QED
  BY <1>1, <1>2, <1>3, <1>4, OwnBatch DEF static

LEMMA StartBatch ==
  ASSUME WorkInv, BatchInv, NEW p \in Handles, Start(p)
  PROVE  BatchInv'
<1>1. /\ pc[p] = "idle" /\ UNCHANGED <<settings, input, contents, original, temps, kept, queue, sent, faults>>
      /\ pc'[p] = "filter" /\ hh'[p] = BuildHeartbeats(input[p]) /\ Own(p)
      /\ saving' \subseteq saving \cup {p}
  BY DEF Start, Goto, Hold, Own, WorkInv, Shape, Stages
<1>2. hh[p] = <<>> /\ kept[p] = <<>> /\ kept'[p] = <<>> /\ input[p] \in Inputs[p]
  BY <1>1 DEF WorkInv, Batch, Working
<1>3. Onward
  BY <1>1, SameFaults
<1>4. ToSet(<<>>) = {} /\ Apart(<<>>)
  BY SetSmall, ApartSmall
<1>5. Apart(BuildHeartbeats(input[p]))
  BY <1>2, InputAssumption DEF Apart
<1>6. Underway(p)' = GivenTo(p) /\ GivenTo(p)' = GivenTo(p)
  BY <1>1, <1>2, <1>4 DEF Underway, GivenTo
<1>7. Complete(p)'
  BY <1>1, <1>2, <1>4, <1>5, <1>6 DEF Complete
<1>8. TempsFor(p)' = {}
  BY <1>1, <1>2, <1>4 DEF BatchInv, Owned, Underway, TempsOf, TempsFor
<1>9. \A h \in GivenTo(p) : ~ h.temp
  BY <1>2, NewGood DEF GivenTo, Good
<1>10. TempsOf(p, Underway(p)') = {}
  BY <1>6, <1>9 DEF TempsOf
<1>11. Owned(p)'
  BY <1>1, <1>8, <1>10 DEF Owned, TempsOf
<1>12. OwnTemps(p) /\ Recorded /\ Fetching(p)'
  BY <1>1 DEF OwnTemps, Recorded, Fetching
<1> QED
  BY <1>1, <1>3, <1>7, <1>11, <1>12, OwnBatch

LEMMA InitBatch == Init => BatchInv
<1> SUFFICES ASSUME Init PROVE BatchInv
  OBVIOUS
<1>1. \A p \in Handles : pc[p] = "idle" /\ hh[p] = <<>> /\ kept[p] = <<>>
  BY DEF Init
<1>2. faults = 0 /\ saving = {} /\ temps = {}
  BY DEF Init
<1>3. \A p \in Handles : Underway(p) = {}
  BY <1>1, SetSmall DEF Underway
<1>4. \A p \in Handles : Complete(p) /\ Fetching(p)
  BY <1>1, <1>3, SetSmall, ApartSmall DEF Complete, Fetching
<1>5. \A p \in Handles : Owned(p)
  BY <1>1, <1>2, <1>3 DEF Owned, TempsFor, TempsOf
<1> QED
  BY <1>2, <1>4, <1>5, PipelineAssumption DEF BatchInv

\* A step of none of the batches.
LEMMA AllBatch ==
  ASSUME BatchInv, UNCHANGED <<settings, input, original, contents, temps, pc, saving, hh, kept, faults>>, Recorded
  PROVE  BatchInv'
<1>1. \A q \in Handles :
        Underway(q)' = Underway(q) /\ GivenTo(q)' = GivenTo(q) /\ This(q)' = This(q) /\ Temp(q)' = Temp(q)
  BY DEF Underway, GivenTo, This, Temp
<1>2. \A h : Reason(h) => Reason(h)'
  BY ReasonStays DEF BatchInv, Grown
<1>3. \A q \in Handles : Complete(q)'
  <2> SUFFICES ASSUME NEW q \in Handles PROVE Complete(q)'
    OBVIOUS
  <2>1. Complete(q)
    BY DEF BatchInv
  <2> QED
    BY <1>1, <1>2, <2>1 DEF Complete, Recorded
<1>4. \A q \in Handles : Fetching(q)' /\ Owned(q)'
  BY <1>1 DEF BatchInv, Fetching, IsRemote, IsFile, Owned, TempsFor, TempsOf
<1>5. TempType' = TempType
  BY <1>1 DEF TempType
<1> QED
  BY <1>3, <1>4, <1>5 DEF BatchInv

\* A sync sends what it takes from the queue.
LEMMA SyncBatch ==
  ASSUME HeartInv, BatchInv, Sync
  PROVE  BatchInv'
<1>1. UNCHANGED <<settings, input, original, contents, temps, pc, saving, hh, kept, faults>>
  BY DEF Sync, static
<1>2. PICK h \in queue, k \in ApiKeys :
        queue' = queue \ {h} /\ sent' = sent \cup {[h EXCEPT !.key = k, !.queued = TRUE]}
  BY DEF Sync
<1>3. [h EXCEPT !.key = k, !.queued = TRUE].in = h.in
  BY DEF HeartInv, Done, Sound, IsHeartbeat
<1>4. Recorded
  BY <1>2, <1>3 DEF Recorded
<1> QED
  BY <1>1, <1>4, AllBatch

LEMMA StepBatch == WorkInv /\ HeartInv /\ BatchInv /\ NameInv /\ [Next]_vars => BatchInv'
<1> SUFFICES ASSUME WorkInv, HeartInv, BatchInv, NameInv, [Next]_vars PROVE BatchInv'
  OBVIOUS
<1>1. CASE UNCHANGED vars
  BY <1>1, AllBatch DEF vars, Recorded
<1> QED
  BY <1>1, StartBatch, FilterBatch, SkipLocalBatch, CreateTempBatch, DownloadBatch, DownloadFailsBatch,
     FallbackBatch, ReplaceKeysBatch, DescribeBatch, DetectProjectBatch, CheckFileBatch, CreateFileBatch,
     WriteFileBatch, ExcludeBatch, SanitizeBatch, CleanupBatch, SendBatch, KillBatch, SyncBatch DEF Next

LEMMA AlwaysBatch == Spec => [](WorkInv /\ HeartInv /\ BatchInv /\ NameInv)
  BY InitWork, InitHearts, InitBatch, InitNames, StepWork, StepHearts, StepBatch, StepNames, PTL DEF Spec

\* Every variable of the pipeline has its type, a heartbeat that is sent has an API key,
\* and one without its full path does not count the folders above it.
THEOREM PipelineTyped == Spec => []TypeOK
<1>1. WorkInv /\ HeartInv /\ BatchInv => TypeOK
  <2> SUFFICES ASSUME WorkInv, HeartInv, BatchInv PROVE TypeOK
    OBVIOUS
  <2>1. \A p \in Handles : \A h \in Underway(p) : IsHeartbeat(h)
    BY DEF HeartInv, Waiting, Underway, Good, Sound
  <2>2. DOMAIN contents = Folders
    BY DEF WorkInv, Shape
  <2>3. (\A h \in queue : IsHeartbeat(h)) /\ \A h \in sent : IsHeartbeat(h) /\ h.key \in ApiKeys
    BY DEF HeartInv, Done, Sound, Paid
  <2> QED
    BY <2>1, <2>2, <2>3 DEF TypeOK, WorkInv, Shape, HeartInv, BatchInv, TempType, GivenTo
<1> QED
  BY <1>1, AlwaysBatch, PTL

\* Whatever fails, and whichever heartbeats the options leave out, the temporary files of
\* a batch are those of the heartbeats it still has: none stays behind unless the process is
\* killed (remote.go, project/filter.go).
THEOREM TempFilesDeleted == Spec => []TempFilesOwned
<1>1. BatchInv => TempFilesOwned
  BY DEF BatchInv, Owned, TempsFor, TempFilesOwned
<1> QED
  BY <1>1, AlwaysBatch, PTL

LEMMA BuildLength ==
  ASSUME WorkInv, NEW p \in Handles
  PROVE  Len(ParseExtraHeartbeats(input[p].extras)) \in Nat
<1> DEFINE x == input[p].extras
<1>1. DOMAIN x = 1 .. Len(x) /\ Len(x) \in Nat
  BY InputAssumption DEF WorkInv, IsSequence
<1>2. CASE \A i \in DOMAIN x : Parsed(x[i])
  <2> DEFINE s == [i \in 1 .. Len(x) |-> x[i].heartbeat]
  <2>1. ParseExtraHeartbeats(x) = s
    BY <1>1, <1>2 DEF ParseExtraHeartbeats
  <2>2. Len(s) = Len(x)
    BY <1>1
  <2> QED
    BY <1>1, <2>1, <2>2
<1>3. CASE ~ \A i \in DOMAIN x : Parsed(x[i])
  BY <1>3 DEF ParseExtraHeartbeats
<1> QED
  BY <1>2, <1>3

\* A heartbeat that is parsed: the command's own, or one of stdin if all of them are.
LEMMA ParsedGiven ==
  ASSUME WorkInv, NEW p \in Handles, NEW i \in Received(input[p]),
         i = input[p].main \/ \A n \in DOMAIN input[p].extras : Parsed(input[p].extras[n])
  PROVE  New(i) \in GivenTo(p)
<1> DEFINE e == ParseExtraHeartbeats(input[p].extras)
           b == BuildHeartbeats(input[p])
<1>1. /\ DOMAIN b = 1 .. 1 + Len(e)
      /\ \A n \in 1 .. 1 + Len(e) : b[n] = New(IF n = 1 THEN input[p].main ELSE e[n - 1])
  <2>1. Len(e) \in Nat /\ Len(e) >= 0
    BY BuildLength
  <2> QED
    BY <2>1 DEF BuildHeartbeats
<1>2. CASE i = input[p].main
  <2>1. 1 \in DOMAIN b /\ b[1] = New(i)
    BY <1>1, <1>2, BuildLength
  <2> QED
    BY <2>1 DEF GivenTo, ToSet
<1>3. CASE i # input[p].main
  <2>1. PICK n \in DOMAIN input[p].extras : i = input[p].extras[n].heartbeat
    BY <1>3 DEF Received
  <2>2. /\ DOMAIN input[p].extras = 1 .. Len(input[p].extras)
        /\ Len(input[p].extras) \in Nat
    BY InputAssumption DEF WorkInv, IsSequence
  <2>3. e = [m \in 1 .. Len(input[p].extras) |-> input[p].extras[m].heartbeat]
    BY <1>3, <2>2 DEF ParseExtraHeartbeats
  <2>4. Len(e) = Len(input[p].extras) /\ e[n] = i
    BY <2>1, <2>2, <2>3
  <2> HIDE DEF e
  <2>5. n + 1 \in 1 .. 1 + Len(e) /\ n + 1 # 1 /\ (n + 1) - 1 = n
    BY <2>1, <2>2, <2>4
  <2>6. n + 1 \in DOMAIN b /\ b[n + 1] = New(i)
    BY <1>1, <2>4, <2>5
  <2> QED
    BY <2>6 DEF GivenTo, ToSet
<1> QED
  BY <1>2, <1>3

\* A heartbeat that the command was given is queued or sent when it ends, unless it came
\* with one that cannot be parsed (params.go), or an option had a reason to leave it out
\* (filter.go, project/filter.go, remote.go).
THEOREM NoneForgotten == Spec => []Accounted
<1>1. HeartInv /\ WorkInv /\ BatchInv => Accounted
  <2> SUFFICES ASSUME WorkInv, BatchInv, NEW p \in Handles, pc[p] = "exit", NEW i \in Received(input[p]),
                      i = input[p].main \/ \A n \in DOMAIN input[p].extras : Parsed(input[p].extras[n])
               PROVE  (\E g \in queue \cup sent : g.in = i) \/ Reason(New(i))
    BY DEF Accounted, Reason, New
  <2>1. hh[p] = <<>> /\ kept[p] = <<>>
    BY DEF WorkInv, Batch, Working
  <2>2. Underway(p) = {}
    BY <2>1, SetSmall DEF Underway
  <2>3. New(i) \in GivenTo(p) /\ New(i).in = i
    BY ParsedGiven DEF New
  <2> QED
    BY <2>2, <2>3 DEF BatchInv, Complete
<1> QED
  BY <1>1, AlwaysBatch, PTL
================================================================================
