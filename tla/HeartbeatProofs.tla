--------------------------- MODULE HeartbeatProofs ---------------------------
(*****************************************************************************)
(* Proofs about the heartbeats of Pipeline: what each is like when it waits     *)
(* for an option, when it is queued, and when it is sent.                       *)
(*****************************************************************************)
EXTENDS PipelineProofs

\* A local file, for which only links and URLs lead away from the path.
Local(h) == IsFile(h) /\ ~ IsRemote(h)

Plain(h) ==
  /\ h.in.root = None
  /\ Linked(Nearest(h.in.folder, Gits)) = None
  /\ Nearest(h.in.folder, Subversions) = None

Named(h) ==
  ShouldSanitize(h, options.sanitize.hideNames) =>
    \/ h.project \in {None, Random}
    \/ h.detector = "file" /\ \E f \in Folders : original[f] # None /\ h.project \in ToSet(original[f])
    \/ h.blank

Placed(h) == Local(h) /\ Plain(h) => Within(h.in.folder, h.path)

Hidden(h) ==
  h.entity = "full" /\ Local(h) /\ options.sanitize.hideFolder =>
    ~ Within(h.in.folder, h.path) /\ ~ Within(h.in.folder, h.in.root)

Sound(h) ==
  /\ IsHeartbeat(h)
  /\ IsInput(h.in)
  /\ h.roots => h.in.folder \in Folders \cup {Root}

Keyed == {"describe", "detect", "exclude", "sanitize", "cleanup", "send"}

Good(p, h, l) ==
  /\ Sound(h)
  /\ ~ h.queued
  /\ l \in {"filter", "remote"} => ~ h.temp
  /\ l \in Keyed /\ p \notin saving => h.key \in ApiKeys /\ h.key \in KeysOf(h.in.folder)
  /\ l \in {"exclude", "sanitize", "cleanup", "send"} => Named(h) /\ Placed(h)
  /\ l \notin {"cleanup", "send"} => h.entity = "full"
  /\ l \in {"cleanup", "send"} => Hidden(h)

Done(h) == Sound(h) /\ Named(h) /\ Placed(h) /\ Hidden(h)

\* The key of a heartbeat that was sent.
Paid(h) ==
  /\ h.key \in ApiKeys
  /\ h.key = options.api.key =>
       \/ options.api.patterns[h.in.folder] = {}
       \/ h.queued /\ h.entity \in {"hidden", "relative"}

\* The option that a batch is in, and the next one.
Now(p) ==
  IF pc[p] \in {"download", "fallback"} THEN "remote"
  ELSE IF pc[p] \in {"check", "create", "write"} THEN "detect" ELSE pc[p]

Later(p) ==
  CASE Now(p) = "filter"  -> "remote"
    [] Now(p) = "remote"  -> AfterRemote(p)
    [] Now(p) = "detect"  -> "exclude"
    [] Now(p) = "exclude" -> "sanitize"
    [] OTHER              -> "exit"

Waiting(p) ==
  /\ \A h \in ToSet(hh[p]) : Good(p, h, Now(p))
  /\ \A h \in ToSet(kept[p]) : Good(p, h, Later(p))
  /\ pc[p] = "check" => Placed(This(p))
  /\ pc[p] \in {"create", "write"} => Good(p, This(p), "exclude")

HeartInv ==
  /\ settings \in Settings
  /\ original \in Files
  /\ \A f \in Folders : contents[f] \in {original[f], None, <<>>, <<Random>>}
  /\ \A p \in Handles : Waiting(p)
  /\ \A h \in queue : Done(h)
  /\ \A h \in sent : Done(h) /\ Paid(h)

LEMMA SameGood ==
  ASSUME UNCHANGED <<settings, original>>, NEW p, p \in saving' <=> p \in saving
  PROVE  \A h, l : Good(p, h, l)' <=> Good(p, h, l)
  BY DEF Good, Named, ShouldSanitize, Hidden, KeysOf, options

LEMMA SameDone ==
  ASSUME UNCHANGED <<settings, original>>
  PROVE  \A h : (Done(h)' <=> Done(h)) /\ (Paid(h)' <=> Paid(h))
  BY DEF Done, Named, ShouldSanitize, Hidden, Paid, options

\* The heartbeats of others wait as before.
LEMMA OthersWait ==
  ASSUME WorkInv, HeartInv, NEW p \in Handles, Own(p), UNCHANGED <<settings, original>>,
         NEW q \in Handles \ {p}, q \in saving' <=> q \in saving
  PROVE  Waiting(q)'
<1>1. pc'[q] = pc[q] /\ hh'[q] = hh[q] /\ kept'[q] = kept[q]
  BY DEF WorkInv, Shape, Own
<1>2. Waiting(q) /\ Now(q)' = Now(q) /\ Later(q)' = Later(q)
  BY <1>1 DEF HeartInv, Now, Later, AfterRemote
<1>3. \A h, l : Good(q, h, l)' <=> Good(q, h, l)
  BY SameGood
<1>4. This(q)' = This(q)
  BY <1>1 DEF This
<1> QED
  BY <1>1, <1>2, <1>3, <1>4 DEF Waiting

\* What a step of one batch, which sends and queues nothing, has to keep of HeartInv.
LEMMA OwnHearts ==
  ASSUME WorkInv, HeartInv, NEW p \in Handles, Own(p), UNCHANGED <<static, queue, sent>>, Waiting(p)',
         \A f \in Folders : contents'[f] \in {contents[f], <<>>, <<Random>>}
  PROVE  HeartInv'
<1>1. UNCHANGED <<settings, original, saving>>
  BY DEF static
<1>2. \A q \in Handles : Waiting(q)'
  BY <1>1, OthersWait
<1>3. \A h : (Done(h)' <=> Done(h)) /\ (Paid(h)' <=> Paid(h))
  BY <1>1, SameDone
<1> QED
  BY <1>1, <1>2, <1>3 DEF HeartInv

\* The heartbeats that an option has passed are as the next one takes them.
LEMMA PassWaits ==
  ASSUME WorkInv, HeartInv, NEW p \in Handles, pc[p] \in Working, UNCHANGED static,
         NEW option, option = Now(p), option \in {"filter", "remote", "detect", "exclude"},
         NEW next, next = Later(p),
         NEW s, IsSeq(s), \A h \in ToSet(s) : Good(p, h, next),
         Pass(p, s, option, next)
  PROVE  Waiting(p)'
<1>1. /\ IsSeq(hh[p]) /\ Len(hh[p]) > 0 /\ IsSeq(kept[p])
      /\ Waiting(p) /\ Shape
  BY DEF WorkInv, Batch, HeartInv
<1>2. ToSet(Tail(hh[p])) \subseteq ToSet(hh[p]) /\ ToSet(<<>>) = {}
  BY <1>1, SetTail, SetSmall
<1>3. ToSet(kept[p] \o s) = ToSet(kept[p]) \cup ToSet(s)
  BY <1>1, SetConcat
<1>4. \A h, l : Good(p, h, l)' <=> Good(p, h, l)
  BY SameGood DEF static
<1>5. \A h \in ToSet(kept[p] \o s) : Good(p, h, next)'
  BY <1>1, <1>3, <1>4 DEF Waiting
<1>6. CASE Len(hh[p]) > 1
  <2>1. pc'[p] = option /\ hh'[p] = Tail(hh[p]) /\ kept'[p] = kept[p] \o s
    BY <1>1, <1>6 DEF Pass, Hold, Goto, Shape
  <2>2. Now(p)' = option /\ Later(p)' = next
    BY <2>1 DEF Now, Later, AfterRemote, static
  <2>3. \A h \in ToSet(hh'[p]) : Good(p, h, option)'
    BY <1>1, <1>2, <1>4, <2>1 DEF Waiting
  <2> QED
    BY <1>5, <2>1, <2>2, <2>3 DEF Waiting
<1>7. CASE ~ (Len(hh[p]) > 1)
  <2>1. /\ pc'[p] = IF kept[p] \o s = <<>> THEN "exit" ELSE next
        /\ hh'[p] = kept[p] \o s /\ kept'[p] = <<>>
    BY <1>1, <1>7 DEF Pass, Hold, Goto, Shape
  <2>2. next \in {"remote", "keys", "describe", "exclude", "sanitize"}
    BY DEF Later, AfterRemote
  <2>3. kept[p] \o s # <<>> => Now(p)' = next
    BY <2>1, <2>2 DEF Now
  <2>4. pc'[p] \notin {"check", "create", "write"}
    BY <2>1, <2>2
  <2> QED
    BY <1>2, <1>5, <2>1, <2>3, <2>4 DEF Waiting
<1> QED
  BY <1>6, <1>7

LEMMA PassAllWaits ==
  ASSUME WorkInv, HeartInv, NEW p \in Handles, pc[p] \in Whole, UNCHANGED static,
         NEW g, g = [n \in DOMAIN hh[p] |-> g[n]],
         NEW next \in {"describe", "detect", "cleanup"},
         \A n \in DOMAIN hh[p] : Good(p, hh[p][n], pc[p]) => Good(p, g[n], next),
         PassAll(p, g, next)
  PROVE  Waiting(p)'
<1>1. pc[p] \in Working /\ Now(p) = pc[p]
  BY DEF Whole, Working, Stages, Now
<1>2. kept[p] = <<>> /\ Waiting(p) /\ Shape
  BY <1>1 DEF WorkInv, Batch, HeartInv
<1>3. ToSet(<<>>) = {}
  BY SetSmall
<1>4. \A h, l : Good(p, h, l)' <=> Good(p, h, l)
  BY SameGood DEF static
<1>5. \A h \in ToSet(g) : Good(p, h, next)'
  BY <1>1, <1>2, <1>4 DEF Waiting, ToSet
<1>6. hh'[p] = g /\ kept'[p] = <<>> /\ pc'[p] \in {"exit", next}
  BY <1>2 DEF PassAll, Hold, Goto, Shape
<1>7. CASE pc'[p] = next
  <2>1. Now(p)' = next
    BY <1>7 DEF Now
  <2> QED
    BY <1>3, <1>5, <1>6, <1>7, <2>1 DEF Waiting
<1>8. CASE pc'[p] # next
  <2>1. pc'[p] = "exit" /\ hh'[p] = <<>>
    BY <1>2, <1>6, <1>8 DEF PassAll, Goto, Shape
  <2> QED
    BY <1>3, <1>6, <2>1 DEF Waiting
<1> QED
  BY <1>7, <1>8

LEMMA WholeOwn ==
  ASSUME WorkInv, NEW p \in Handles, pc[p] \in Whole, UNCHANGED static,
         NEW g, g = [n \in DOMAIN hh[p] |-> g[n]],
         NEW next \in {"describe", "detect", "cleanup"}, PassAll(p, g, next)
  PROVE  Own(p)
<1>1. Whole \subseteq Working /\ next \in Working
  BY DEF Whole, Working, Stages
<1>2. IsSeq(g) /\ Len(g) > 0
  BY <1>1, SeqSameLength DEF WorkInv, Batch
<1> QED
  BY <1>1, <1>2, PassAllOwn DEF WorkInv, static

--------------------------------------------------------------------------------
(* The heartbeats of each step.                                                *)

LEMMA InitHearts == Init => HeartInv
<1> SUFFICES ASSUME Init PROVE HeartInv
  OBVIOUS
<1>1. \A p \in Handles : pc[p] = "idle" /\ hh[p] = <<>> /\ kept[p] = <<>>
  BY DEF Init
<1>2. \A p \in Handles : Waiting(p)
  BY <1>1, SetSmall DEF Waiting
<1> QED
  BY <1>2 DEF Init, HeartInv

LEMMA NewGood ==
  ASSUME NEW p \in Handles, NEW i \in Inputs[p], NEW h \in ToSet(BuildHeartbeats(i))
  PROVE  Good(p, h, "filter")
<1>1. PICK n \in DOMAIN BuildHeartbeats(i) : h = BuildHeartbeats(i)[n]
  BY DEF ToSet
<1>2. IsInput(h.in)
  BY <1>1, InputAssumption
<1>3. \E e : h = New(e)
  BY <1>1 DEF BuildHeartbeats
<1>4. PICK e : h = New(e)
  BY <1>3
<1>5. IsHeartbeat(h)
  BY <1>4 DEF New, IsHeartbeat
<1>6. ~ h.queued /\ ~ h.temp /\ ~ h.roots /\ h.entity = "full"
  BY <1>4 DEF New
<1> QED
  BY <1>2, <1>5, <1>6 DEF Good, Sound, Keyed

LEMMA StartHearts ==
  ASSUME WorkInv, HeartInv, NEW p \in Handles, Start(p)
  PROVE  HeartInv'
<1>1. UNCHANGED <<settings, input, original, contents, queue, sent>>
  BY DEF Start
<1>2. Own(p)
  BY DEF Start, Hold, Goto, Own, WorkInv, Shape, Stages
<1>3. \A q \in Handles \ {p} : q \in saving' <=> q \in saving
  BY DEF Start
<1>4. Waiting(p)'
  <2>1. pc'[p] = "filter" /\ hh'[p] = BuildHeartbeats(input[p]) /\ kept'[p] = <<>>
    BY DEF Start, Hold, Goto, WorkInv, Shape, Batch, Working
  <2>2. \A h \in ToSet(BuildHeartbeats(input[p])) : Good(p, h, "filter")
    BY NewGood DEF WorkInv
  <2>3. \A h : Good(p, h, "filter") => Good(p, h, "filter")'
    BY <1>1 DEF Good, Keyed
  <2>4. Now(p)' = "filter"
    BY <2>1 DEF Now
  <2> QED
    BY <2>1, <2>2, <2>3, <2>4, SetSmall DEF Waiting
<1>5. \A q \in Handles : Waiting(q)'
  BY <1>1, <1>2, <1>3, <1>4, OthersWait
<1>6. \A h : (Done(h)' <=> Done(h)) /\ (Paid(h)' <=> Paid(h))
  BY <1>1, SameDone
<1> QED
  BY <1>1, <1>5, <1>6 DEF HeartInv

\* An option that has looked at a heartbeat.
LEMMA OptionHearts ==
  ASSUME WorkInv, HeartInv, NEW p \in Handles, pc[p] \in Working, UNCHANGED <<static, queue, sent>>,
         \A f \in Folders : contents'[f] \in {contents[f], <<>>, <<Random>>},
         NEW option, option = Now(p), option \in {"filter", "remote", "detect", "exclude"},
         NEW s, NEW e, s \in {<<>>, <<e>>}, s = <<e>> => Good(p, e, Later(p)),
         Pass(p, s, option, Later(p))
  PROVE  HeartInv'
<1>1. IsSeq(s) /\ ToSet(s) \subseteq {e} /\ (s = <<>> => ToSet(s) = {})
  BY SeqSmall, SetSmall
<1>2. \A h \in ToSet(s) : Good(p, h, Later(p))
  BY <1>1
<1>3. Waiting(p)'
  BY <1>1, <1>2, PassWaits
<1>4. Later(p) \in Working /\ option \in Working \ Whole
  BY DEF Later, AfterRemote, Working, Whole, Stages
<1>5. Own(p)
  BY <1>1, <1>4, PassOwn DEF WorkInv, static
<1> QED
  BY <1>3, <1>5, OwnHearts

\* A step that leaves the heartbeats as they are, within an option.
LEMMA GotoHearts ==
  ASSUME WorkInv, HeartInv, NEW p \in Handles, UNCHANGED <<static, hh, kept, queue, sent>>,
         NEW l \in Stages, Goto(p, l),
         Now(p)' = Now(p), pc'[p] = "check" => FALSE, pc'[p] \in {"create", "write"} => pc[p] \in {"create", "write"},
         \A f \in Folders : contents'[f] \in {contents[f], <<>>, <<Random>>}
  PROVE  HeartInv'
<1>1. Own(p)
  BY DEF WorkInv, Shape, Own, Goto, static
<1>2. Waiting(p)'
  <2>1. Waiting(p) /\ This(p)' = This(p) /\ Later(p)' = Later(p)
    BY DEF HeartInv, This, Later, AfterRemote, static
  <2>2. \A h, k : Good(p, h, k)' <=> Good(p, h, k)
    BY SameGood DEF static
  <2> QED
    BY <2>1, <2>2 DEF Waiting
<1> QED
  BY <1>1, <1>2, OwnHearts

LEMMA HeadGood ==
  ASSUME WorkInv, HeartInv, NEW p \in Handles, pc[p] \in Working
  PROVE  Good(p, This(p), Now(p))
<1>1. This(p) \in ToSet(hh[p])
  BY SetTail DEF WorkInv, Batch, This
<1> QED
  BY <1>1 DEF HeartInv, Waiting

LEMMA FilterHearts ==
  ASSUME WorkInv, HeartInv, NEW p \in Handles, Filter(p)
  PROVE  HeartInv'
<1>1. pc[p] = "filter" /\ pc[p] \in Working /\ UNCHANGED <<static, contents, queue, sent>>
  BY DEF Filter, Working, Stages
<1>2. Now(p) = "filter" /\ Later(p) = "remote"
  BY <1>1 DEF Now, Later
<1>3. Good(p, This(p), "filter")
  BY <1>1, <1>2, HeadGood
<1>4. Good(p, This(p), "remote")
  BY <1>3 DEF Good, Keyed
<1>5. PICK s \in {<<>>, <<This(p)>>} : Pass(p, s, "filter", "remote")
  BY DEF Filter
<1> QED
  BY <1>1, <1>2, <1>4, <1>5, OptionHearts

LEMMA RemoteHearts ==
  ASSUME WorkInv, HeartInv, NEW p \in Handles,
         SkipLocal(p) \/ CreateTemp(p) \/ Download(p) \/ DownloadFails(p) \/ Fallback(p)
  PROVE  HeartInv'
<1>1. /\ pc[p] \in {"remote", "download", "fallback"}
      /\ UNCHANGED <<static, contents, queue, sent>>
  BY DEF SkipLocal, CreateTemp, Download, DownloadFails, Fallback
<1>2. pc[p] \in Working /\ Now(p) = "remote" /\ Later(p) = AfterRemote(p)
  BY <1>1 DEF Now, Later, Working, Stages
<1>3. Good(p, This(p), "remote")
  BY <1>2, HeadGood
<1> DEFINE e == [This(p) EXCEPT !.temp = TRUE]
<1>4. Good(p, This(p), AfterRemote(p))
  BY <1>3 DEF Good, Keyed, AfterRemote
<1>5. Good(p, e, AfterRemote(p))
  <2>1. Sound(e)
    BY <1>3 DEF Good, Sound, IsHeartbeat
  <2>2. e.in = This(p).in /\ e.entity = This(p).entity /\ ~ e.queued /\ e.key = This(p).key
    BY <1>3 DEF Good
  <2>3. AfterRemote(p) \in {"keys", "describe"}
    BY DEF AfterRemote
  <2> HIDE DEF e
  <2> QED
    BY <1>4, <2>1, <2>2, <2>3 DEF Good
<1>6. CASE \E s \in {<<>>, <<This(p)>>, <<e>>} : Pass(p, s, "remote", AfterRemote(p))
  <2> HIDE DEF e
  <2>1. CASE \E s \in {<<>>, <<This(p)>>} : Pass(p, s, "remote", AfterRemote(p))
    BY <1>1, <1>2, <1>4, <2>1, OptionHearts
  <2>2. CASE Pass(p, <<e>>, "remote", AfterRemote(p))
    BY <1>1, <1>2, <1>5, <2>2, OptionHearts
  <2> QED
    BY <1>6, <2>1, <2>2
<1>7. CASE \E l \in {"download", "fallback"} : Goto(p, l) /\ UNCHANGED <<hh, kept>>
  <2>1. PICK l \in {"download", "fallback"} : Goto(p, l) /\ UNCHANGED <<hh, kept>>
    BY <1>7
  <2>2. pc'[p] = l /\ l \in Stages
    BY <2>1 DEF Goto, WorkInv, Shape, Stages
  <2>3. Now(p)' = Now(p)
    BY <1>2, <2>2 DEF Now
  <2> QED
    BY <1>1, <2>1, <2>2, <2>3, GotoHearts
<1> QED
  BY <1>6, <1>7 DEF SkipLocal, CreateTemp, Download, DownloadFails, Fallback

LEMMA ExcludeHearts ==
  ASSUME WorkInv, HeartInv, NEW p \in Handles, Exclude(p)
  PROVE  HeartInv'
<1>1. pc[p] = "exclude" /\ pc[p] \in Working /\ UNCHANGED <<static, contents, queue, sent>>
  BY DEF Exclude, Working, Stages
<1>2. Now(p) = "exclude" /\ Later(p) = "sanitize"
  BY <1>1 DEF Now, Later
<1>3. Good(p, This(p), "exclude")
  BY <1>1, <1>2, HeadGood
<1>4. Good(p, This(p), "sanitize")
  BY <1>3 DEF Good, Keyed
<1>5. PICK s \in {<<>>, <<This(p)>>} : Pass(p, s, "exclude", "sanitize")
  BY DEF Exclude
<1> QED
  BY <1>1, <1>2, <1>4, <1>5, OptionHearts

LEMMA ReplaceKeysHearts ==
  ASSUME WorkInv, HeartInv, NEW p \in Handles, ReplaceKeys(p)
  PROVE  HeartInv'
<1>1. /\ pc[p] = "keys" /\ pc[p] \in Whole /\ pc[p] \in Working
      /\ UNCHANGED <<static, contents, queue, sent>>
  BY DEF ReplaceKeys, Whole, Working, Stages
<1>2. PICK k \in [DOMAIN hh[p] -> ApiKeys] :
        /\ \A n \in DOMAIN hh[p] : k[n] \in KeysOf(hh[p][n].in.folder)
        /\ PassAll(p, [n \in DOMAIN hh[p] |-> [hh[p][n] EXCEPT !.key = k[n]]], "describe")
  BY DEF ReplaceKeys
<1>3. ASSUME NEW h, Good(p, h, "keys"), NEW x \in ApiKeys, x \in KeysOf(h.in.folder)
      PROVE  Good(p, [h EXCEPT !.key = x], "describe")
  <2> DEFINE g == [h EXCEPT !.key = x]
  <2>1. Sound(g) /\ g.key = x /\ g.in = h.in /\ ~ g.queued /\ g.entity = "full"
    BY <1>3 DEF Good, Sound, IsHeartbeat
  <2> HIDE DEF g
  <2>2. Good(p, g, "describe")
    BY <1>3, <2>1 DEF Good
  <2> QED
    BY <2>2 DEF g
<1> DEFINE g == [n \in DOMAIN hh[p] |-> [hh[p][n] EXCEPT !.key = k[n]]]
<1>4. \A n \in DOMAIN hh[p] : Good(p, hh[p][n], pc[p]) => Good(p, g[n], "describe")
  BY <1>1, <1>2, <1>3
<1>5. Waiting(p)' /\ Own(p)
  BY <1>1, <1>2, <1>4, PassAllWaits, WholeOwn
<1> QED
  BY <1>1, <1>5, OwnHearts

LEMMA DescribeHearts ==
  ASSUME WorkInv, HeartInv, NEW p \in Handles, Describe(p)
  PROVE  HeartInv'
<1>1. /\ pc[p] = "describe" /\ pc[p] \in Whole /\ pc[p] \in Working
      /\ UNCHANGED <<static, contents, queue, sent>>
  BY DEF Describe, Whole, Working, Stages
<1> DEFINE D(h) == IsFile(h) /\ ~ h.in.unsaved /\ ~ ShouldSanitize(h, options.sanitize.hideFiles)
           g == [n \in DOMAIN hh[p] |-> [hh[p][n] EXCEPT !.dependencies = D(hh[p][n])]]
<1>2. PassAll(p, g, "detect")
  BY DEF Describe, Map
<1>3. ASSUME NEW h, Good(p, h, "describe"), NEW x \in BOOLEAN
      PROVE  Good(p, [h EXCEPT !.dependencies = x], "detect")
  <2> DEFINE e == [h EXCEPT !.dependencies = x]
  <2>1. Sound(e) /\ e.key = h.key /\ e.in = h.in /\ ~ e.queued /\ e.entity = "full"
    BY <1>3 DEF Good, Sound, IsHeartbeat
  <2> HIDE DEF e
  <2>2. Good(p, e, "detect")
    BY <1>3, <2>1 DEF Good, Keyed
  <2> QED
    BY <2>2 DEF e
<1>4. \A h : D(h) \in BOOLEAN
  BY DEF IsFile, ShouldSanitize
<1> HIDE DEF D
<1>5. \A n \in DOMAIN hh[p] : Good(p, hh[p][n], pc[p]) => Good(p, g[n], "detect")
  BY <1>1, <1>3, <1>4
<1>6. Waiting(p)' /\ Own(p)
  BY <1>1, <1>2, <1>5, PassAllWaits, WholeOwn
<1> QED
  BY <1>1, <1>6, OwnHearts

\* What is found for a heartbeat is above it, and is the user's own name if it came from
\* a project file.
LEMMA DetectionsFound ==
  ASSUME HeartInv, NEW p \in Handles, NEW h, Good(p, h, "detect"), NEW g \in Detections(contents, h)
  PROVE  /\ g.in = h.in /\ (g.temp <=> h.temp)
         /\ Good(p, g, "detect") /\ Placed(g) /\ (~ Hides(g) => Named(g))
<1>1. /\ IsHeartbeat(h) /\ IsInput(h.in)
      /\ h.in.folder \in FolderType /\ h.in.root \in FolderType
  BY DEF Good, Sound, IsInput, FolderType
<1>2. PICK c \in Detect(contents, options.project.map, h.in) :
      \E r \in RevControl(h.in, Override(h.in, c.result)) :
        LET a == Alternate(h.in, r)
            f == Folder(h.in, a)
        IN g = [h EXCEPT !.project = a.project, !.branch = FirstOf(a.branch, h.in.branchAlternate),
                         !.path = f, !.roots = Within(h.in.folder, f), !.detector = c.detector,
                         !.blank = /\ c.detector = "file"
                                   /\ \/ contents[c.result.folder] = <<>>
                                      \/ c.result.project = None]
  BY DEF Detections
<1> DEFINE o == Override(h.in, c.result)
<1>3. PICK r \in RevControl(h.in, o) :
        LET a == Alternate(h.in, r)
            f == Folder(h.in, a)
        IN g = [h EXCEPT !.project = a.project, !.branch = FirstOf(a.branch, h.in.branchAlternate),
                         !.path = f, !.roots = Within(h.in.folder, f), !.detector = c.detector,
                         !.blank = /\ c.detector = "file"
                                   /\ \/ contents[c.result.folder] = <<>>
                                      \/ c.result.project = None]
  BY <1>2
<1> DEFINE a == Alternate(h.in, r)
           f == Folder(h.in, a)
           blank == c.detector = "file" /\ (contents[c.result.folder] = <<>> \/ c.result.project = None)
           x == FirstOf(a.branch, h.in.branchAlternate)
           roots == Within(h.in.folder, f)
<1>4. g = [h EXCEPT !.project = a.project, !.branch = x, !.path = f, !.roots = roots,
                    !.detector = c.detector, !.blank = blank]
  BY <1>3
<1>5. blank \in BOOLEAN /\ roots \in BOOLEAN
  BY DEF Within
<1>6. c.detector \in {"unknown", "file", "map"} /\ c.result.folder \in FolderType
  BY <1>1, DetectFound
<1>7. o.folder \in FolderType
  BY <1>1, <1>6 DEF Override, Found
<1>8. r.folder \in FolderType
  <2>1. CASE r = o
    BY <1>7, <2>1
  <2>2. CASE r # o
    <3>1. PICK y \in DetectWithRevControl(h.in, options.project) : r.folder = FirstOf(o.folder, y.folder)
      BY <2>2 DEF RevControl, Found
    <3> QED
      BY <1>1, <1>7, <3>1, RevControlFound DEF FirstOf
  <2> QED
    BY <2>1, <2>2
<1>9. a.folder \in FolderType
  BY <1>1, <1>8 DEF Alternate, Found, FirstOf
<1>10. f \in FolderType
  BY <1>1, <1>9 DEF Folder, FirstOf, FolderType
<1>11. roots => h.in.folder \in Folders \cup {Root}
  BY WithinType
<1>12. h.entity = "full" /\ ~ h.queued
  BY DEF Good
<1> HIDE DEF blank, roots, x, o
<1>13. ASSUME Local(h), Plain(h) PROVE Within(h.in.folder, f)
  <2>1. h.in.type = "file" /\ h.in.root = None /\ h.in.folder \in Folders \cup {Root}
    BY <1>1, <1>13 DEF Local, Plain, IsFile, IsRemote, IsInput
  <2>2. o.folder = None \/ Within(h.in.folder, o.folder)
    BY <1>1, <2>1, DetectFound DEF Override, Found, o
  <2>3. r.folder = None \/ Within(h.in.folder, r.folder)
    <3>1. CASE r = o
      BY <2>2, <3>1
    <3>2. CASE r # o
      <4>1. PICK y \in DetectWithRevControl(h.in, options.project) : r.folder = FirstOf(o.folder, y.folder)
        BY <3>2 DEF RevControl, Found
      <4> QED
        BY <1>1, <1>13, <2>1, <2>2, <4>1, RevControlFound DEF FirstOf, Plain
    <3> QED
      BY <3>1, <3>2
  <2>4. a.folder = None \/ Within(h.in.folder, a.folder)
    BY <2>1, <2>3 DEF Alternate, Found, FirstOf
  <2> QED
    BY <2>1, <2>4, WithinItself DEF Folder, FirstOf
<1>14. ASSUME c.detector = "file", ~ blank
       PROVE  a.project = Random \/ \E d \in Folders : original[d] # None /\ a.project \in ToSet(original[d])
  <2>1. PICK d \in Folders :
          /\ contents[d] # None
          /\ c.result.folder = d
          /\ c.result.project = IF contents[d] = <<>> THEN d ELSE contents[d][1]
    BY <1>1, <1>14, DetectFound
  <2>2. contents[d] # <<>> /\ c.result.project = contents[d][1] /\ c.result.project # None
    BY <1>14, <2>1 DEF blank
  <2>3. o.project = c.result.project
    BY <2>2 DEF Override, o
  <2>4. r.project = c.result.project
    BY <2>2, <2>3 DEF RevControl, Found, FirstOf
  <2>5. a.project = c.result.project
    BY <2>2, <2>4 DEF Alternate
  <2>6. contents[d] \in {original[d], <<Random>>}
    BY <2>1, <2>2 DEF HeartInv
  <2>7. CASE contents[d] = <<Random>>
    BY <2>2, <2>5, <2>7
  <2>8. CASE contents[d] = original[d]
    <3>1. original[d] = None \/ IsSequence(original[d])
      BY FileAssumption DEF HeartInv
    <3>2. 1 \in DOMAIN original[d] /\ original[d] # None
      BY <2>1, <2>2, <2>8, <3>1 DEF IsSequence
    <3> QED
      BY <2>2, <2>5, <2>8, <3>2 DEF ToSet
  <2> QED
    BY <2>6, <2>7, <2>8
<1> HIDE DEF a, f
<1>15. /\ g.project = a.project /\ g.path = f /\ (g.roots <=> roots) /\ g.detector = c.detector
       /\ (g.blank <=> blank) /\ g.in = h.in /\ g.key = h.key /\ (g.temp <=> h.temp)
       /\ ~ g.queued /\ g.entity = "full"
  BY <1>1, <1>4, <1>12 DEF IsHeartbeat
<1>16. IsHeartbeat(g)
  BY <1>1, <1>4, <1>5, <1>6, <1>10, <1>12 DEF IsHeartbeat, FolderType
<1>17. Good(p, g, "detect")
  BY <1>11, <1>15, <1>16 DEF Good, Sound, Keyed
<1>18. Placed(g)
  BY <1>13, <1>15 DEF Placed, Local, Plain, IsFile, IsRemote
<1>19. ~ Hides(g) => Named(g)
  BY <1>14, <1>15 DEF Hides, Named
<1> QED
  BY <1>15, <1>17, <1>18, <1>19

\* A step that changes the first heartbeat, and not yet goes on.
LEMMA HeadHearts ==
  ASSUME WorkInv, HeartInv, NEW p \in Handles, pc[p] \in {"detect", "check"},
         UNCHANGED <<static, contents, kept, queue, sent>>,
         NEW l \in {"check", "create"}, Goto(p, l),
         NEW e, Hold(p, <<e>> \o Tail(hh[p])),
         Good(p, e, "detect"), Placed(e), l = "create" => Good(p, e, "exclude")
  PROVE  HeartInv'
<1>1. pc[p] \in Working /\ Shape
  BY DEF Working, Stages, WorkInv
<1>2. IsSeq(Tail(hh[p])) /\ IsSeq(<<e>>) /\ Waiting(p) /\ Now(p) = "detect" /\ IsSeq(hh[p]) /\ Len(hh[p]) > 0
  BY <1>1, SeqTail, SeqSmall DEF WorkInv, Batch, HeartInv, Now
<1>3. ToSet(<<e>> \o Tail(hh[p])) \subseteq {e} \cup ToSet(hh[p])
  BY <1>2, SetConcat, SetSmall, SetTail
<1>4. Head(<<e>> \o Tail(hh[p])) = e
  BY <1>2, SeqCons
<1>5. /\ pc'[p] = l /\ hh'[p] = <<e>> \o Tail(hh[p]) /\ kept'[p] = kept[p]
      /\ This(p)' = e
  BY <1>1, <1>4 DEF Goto, Hold, Shape, This
<1>6. Own(p)
  BY <1>1 DEF Own, Goto, Hold, Shape, Stages, static
<1>7. Now(p)' = "detect" /\ Later(p)' = "exclude" /\ Later(p) = "exclude"
  BY <1>2, <1>5 DEF Now, Later
<1>8. \A h, k : Good(p, h, k)' <=> Good(p, h, k)
  BY SameGood DEF static
<1>9. Placed(This(p))'
  BY <1>5 DEF Placed, Local, Plain, IsFile, IsRemote
<1>10. Waiting(p)'
  BY <1>2, <1>3, <1>5, <1>7, <1>8, <1>9 DEF Waiting
<1> QED
  BY <1>6, <1>10, OwnHearts

LEMMA PlacedGood ==
  ASSUME NEW p, NEW h, Good(p, h, "detect"), Placed(h), Named(h)
  PROVE  Good(p, h, "exclude")
  BY DEF Good, Keyed

LEMMA DetectProjectHearts ==
  ASSUME WorkInv, HeartInv, NEW p \in Handles, DetectProject(p)
  PROVE  HeartInv'
<1>1. pc[p] = "detect" /\ pc[p] \in Working /\ UNCHANGED <<static, contents, queue, sent>>
  BY DEF DetectProject, Working, Stages
<1>2. Now(p) = "detect" /\ Later(p) = "exclude"
  BY <1>1 DEF Now, Later
<1>3. PICK g \in Detections(contents, This(p)) :
        \/ Hold(p, <<g>> \o Tail(hh[p])) /\ Goto(p, "check") /\ UNCHANGED kept
        \/ ~ Hides(g) /\ Pass(p, <<g>>, "detect", "exclude")
  BY DEF DetectProject
<1>4. Good(p, g, "detect") /\ Placed(g) /\ (~ Hides(g) => Named(g))
  BY <1>1, <1>2, HeadGood, DetectionsFound
<1>5. CASE Hold(p, <<g>> \o Tail(hh[p])) /\ Goto(p, "check") /\ UNCHANGED kept
  BY <1>1, <1>4, <1>5, HeadHearts
<1>6. CASE ~ Hides(g) /\ Pass(p, <<g>>, "detect", "exclude")
  BY <1>1, <1>2, <1>4, <1>6, PlacedGood, OptionHearts
<1> QED
  BY <1>3, <1>5, <1>6

LEMMA CheckFileHearts ==
  ASSUME WorkInv, HeartInv, NEW p \in Handles, CheckFile(p)
  PROVE  HeartInv'
<1>1. pc[p] = "check" /\ pc[p] \in Working /\ UNCHANGED <<static, contents, queue, sent>>
  BY DEF CheckFile, Working, Stages
<1>2. Now(p) = "detect" /\ Later(p) = "exclude"
  BY <1>1 DEF Now, Later
<1>3. Good(p, This(p), "detect") /\ Placed(This(p))
  BY <1>1, <1>2, HeadGood DEF HeartInv, Waiting
<1>4. ASSUME NEW n \in {None, Random}
      PROVE  /\ Good(p, [This(p) EXCEPT !.project = n], "detect")
             /\ Placed([This(p) EXCEPT !.project = n])
             /\ Good(p, [This(p) EXCEPT !.project = n], "exclude")
  <2> DEFINE e == [This(p) EXCEPT !.project = n]
  <2>1. /\ Sound(e) /\ e.project = n /\ e.key = This(p).key /\ e.in = This(p).in
        /\ ~ e.queued /\ e.entity = "full" /\ e.path = This(p).path
    BY <1>3 DEF Good, Sound, IsHeartbeat
  <2> HIDE DEF e
  <2>2. Good(p, e, "detect")
    BY <1>3, <2>1 DEF Good
  <2>3. Placed(e) /\ Named(e)
    BY <1>3, <2>1 DEF Placed, Local, Plain, IsFile, IsRemote, Named
  <2>4. Good(p, e, "exclude")
    BY <2>2, <2>3, PlacedGood
  <2> QED
    BY <2>2, <2>3, <2>4 DEF e
<1>5. CASE Pass(p, <<[This(p) EXCEPT !.project = None]>>, "detect", "exclude")
  BY <1>1, <1>2, <1>4, <1>5, OptionHearts
<1>6. CASE /\ Hold(p, <<[This(p) EXCEPT !.project = Random]>> \o Tail(hh[p]))
           /\ Goto(p, "create") /\ UNCHANGED kept
  BY <1>1, <1>4, <1>6, HeadHearts
<1> QED
  BY <1>5, <1>6 DEF CheckFile

LEMMA CreateFileHearts ==
  ASSUME WorkInv, HeartInv, NEW p \in Handles, CreateFile(p)
  PROVE  HeartInv'
<1>1. /\ pc[p] = "create" /\ Goto(p, "write") /\ UNCHANGED <<static, hh, kept, queue, sent>>
      /\ pc'[p] = "write" /\ "write" \in Stages
  BY DEF CreateFile, Goto, WorkInv, Shape, Stages
<1>2. Now(p)' = Now(p)
  BY <1>1 DEF Now
<1>3. \A f \in Folders : contents'[f] \in {contents[f], <<>>, <<Random>>}
  BY DEF CreateFile, WorkInv, Shape
<1> QED
  BY <1>1, <1>2, <1>3, GotoHearts

LEMMA WriteFileHearts ==
  ASSUME WorkInv, HeartInv, NEW p \in Handles, WriteFile(p) \/ WriteFileFails(p)
  PROVE  HeartInv'
<1>1. /\ pc[p] \in {"create", "write"} /\ pc[p] \in Working
      /\ UNCHANGED <<static, queue, sent>>
      /\ Pass(p, <<This(p)>>, "detect", "exclude")
  BY DEF WriteFile, WriteFileFails, Working, Stages
<1>2. Now(p) = "detect" /\ Later(p) = "exclude"
  BY <1>1 DEF Now, Later
<1>3. Good(p, This(p), "exclude")
  BY <1>1 DEF HeartInv, Waiting
<1>4. \A f \in Folders : contents'[f] \in {contents[f], <<>>, <<Random>>}
  BY DEF WriteFile, WriteFileFails, WorkInv, Shape
<1> QED
  BY <1>1, <1>2, <1>3, <1>4, OptionHearts

--------------------------------------------------------------------------------
(* Sanitizing and sending.                                                     *)

\* What sanitizing leaves alone.
Kin(g, h) ==
  /\ g.in = h.in /\ g.key = h.key /\ g.project = h.project /\ g.detector = h.detector
  /\ (g.blank <=> h.blank) /\ g.path = h.path /\ (g.queued <=> h.queued) /\ (g.temp <=> h.temp)

LEMMA HiddenFolder ==
  ASSUME NEW h, IsHeartbeat(h), IsInput(h.in), h.entity \in {"full", "hidden"},
         h.roots => h.in.folder \in Folders \cup {Root}
  PROVE  LET g == HideProjectFolder(h)
         IN IsHeartbeat(g) /\ Kin(g, h) /\ Hidden(g) /\ (g.roots => h.roots)
<1> DEFINE relative == h.entity = "full" /\ (Within(h.in.folder, h.path) \/ Within(h.in.folder, h.in.root))
           y == IF relative THEN "relative" ELSE h.entity
           x == h.roots /\ ~ relative /\ h.in.root = None
           g == [h EXCEPT !.entity = y, !.roots = x]
<1>1. relative \in BOOLEAN
  BY DEF Within
<1>2. x \in BOOLEAN /\ y \in {"full", "relative", "hidden"} /\ (x => y = "full") /\ (x => h.roots)
  BY <1>1 DEF IsHeartbeat
<1>3. y = "full" => ~ Within(h.in.folder, h.path) /\ ~ Within(h.in.folder, h.in.root)
  OBVIOUS
<1>4. HideProjectFolder(h) = IF ~ IsFile(h) \/ ~ options.sanitize.hideFolder THEN h ELSE g
  BY DEF HideProjectFolder
<1> HIDE DEF x, y, relative
<1>5. IsHeartbeat(g) /\ Kin(g, h) /\ g.entity = y /\ (g.roots => h.roots)
  BY <1>2 DEF IsHeartbeat, Kin
<1>6. Hidden(g)
  BY <1>3, <1>5 DEF Hidden, Kin
<1>7. ~ IsFile(h) \/ ~ options.sanitize.hideFolder => Hidden(h)
  BY DEF Hidden, Local
<1>8. Kin(h, h)
  BY DEF Kin
<1> HIDE DEF g
<1> QED
  BY <1>4, <1>5, <1>6, <1>7, <1>8

LEMMA SanitizedGood ==
  ASSUME NEW p, NEW h, Good(p, h, "sanitize")
  PROVE  Good(p, Sanitized(h), "cleanup") /\ Kin(Sanitized(h), h)
<1> DEFINE Matches(patterns) == ShouldSanitize(h, patterns)
           name == IF Matches(options.sanitize.hideNames)
                   THEN [h EXCEPT !.meta = FALSE, !.roots = FALSE] ELSE h
           file == IF Matches(options.sanitize.hideFiles) THEN HideFile(name) ELSE name
           b == IF Matches(options.sanitize.hideBranches) THEN None ELSE file.branch
           d == file.dependencies /\ ~ Matches(options.sanitize.hideDependencies)
           lean == [file EXCEPT !.branch = b, !.dependencies = d]
           folder == HideProjectFolder(lean)
<1>1. Sanitized(h) = HideCredentials(folder)
  BY DEF Sanitized
<1>2. IsHeartbeat(h) /\ IsInput(h.in) /\ h.entity = "full" /\ (h.roots => h.in.folder \in Folders \cup {Root})
  BY DEF Good, Sound
<1>3. IsHeartbeat(name) /\ Kin(name, h) /\ name.entity = "full" /\ (name.roots => h.roots)
  BY <1>2 DEF IsHeartbeat, Kin
<1> HIDE DEF name
<1>4. IsHeartbeat(file) /\ Kin(file, h) /\ file.entity \in {"full", "hidden"} /\ (file.roots => h.roots)
  <2> DEFINE z == IF options.sanitize.hideBranches.given THEN name.branch ELSE None
             w == name.dependencies /\ options.sanitize.hideDependencies.given
             hidden == [name EXCEPT !.entity = "hidden", !.meta = FALSE, !.roots = FALSE,
                                    !.branch = z, !.dependencies = w]
  <2>1. HideFile(name) = hidden
    BY DEF HideFile
  <2>2. w \in BOOLEAN
    BY <1>3 DEF IsHeartbeat
  <2> HIDE DEF z, w
  <2>3. IsHeartbeat(hidden) /\ Kin(hidden, h) /\ hidden.entity = "hidden" /\ ~ hidden.roots
    BY <1>3, <2>2 DEF IsHeartbeat, Kin
  <2> HIDE DEF hidden
  <2> QED
    BY <1>3, <2>1, <2>3
<1> HIDE DEF file
<1>5. d \in BOOLEAN
  BY <1>4 DEF IsHeartbeat
<1> HIDE DEF b, d
<1>6. /\ IsHeartbeat(lean) /\ Kin(lean, h) /\ lean.entity \in {"full", "hidden"}
      /\ (lean.roots => h.roots)
  BY <1>4, <1>5 DEF IsHeartbeat, Kin
<1> HIDE DEF lean
<1>7. IsHeartbeat(folder) /\ Kin(folder, lean) /\ Hidden(folder) /\ (folder.roots => lean.roots)
  BY <1>2, <1>6, HiddenFolder DEF Kin
<1> HIDE DEF folder
<1>8. Kin(folder, h) /\ (folder.roots => h.roots)
  BY <1>6, <1>7 DEF Kin
<1> DEFINE g == HideCredentials(folder)
<1>9. IsHeartbeat(g) /\ Kin(g, h) /\ Hidden(g) /\ (g.roots => h.roots)
  <2>1. CASE ~ (IsRemote(folder) /\ folder.entity = "full")
    <3>1. g = folder
      BY <2>1 DEF HideCredentials
    <3> QED
      BY <1>7, <1>8, <3>1
  <2>2. CASE IsRemote(folder) /\ folder.entity = "full"
    <3>1. ~ folder.roots
      BY <1>2, <1>8, <2>2, TreeAssumption DEF IsRemote, IsFile, IsInput, Kin
    <3>2. g = [folder EXCEPT !.entity = "stripped"]
      BY <2>2 DEF HideCredentials
    <3>3. IsHeartbeat(g) /\ Kin(g, h) /\ g.entity = "stripped" /\ ~ g.roots
      BY <1>7, <1>8, <3>1, <3>2 DEF IsHeartbeat, Kin
    <3> QED
      BY <3>3 DEF Hidden
  <2> QED
    BY <2>1, <2>2
<1> HIDE DEF g
<1>10. Sound(g) /\ Named(g) /\ Placed(g)
  BY <1>2, <1>9 DEF Good, Sound, Named, ShouldSanitize, Placed, Local, Plain, IsFile, IsRemote, Kin
<1>11. Good(p, g, "cleanup")
  BY <1>9, <1>10 DEF Good, Keyed, Kin
<1> QED
  BY <1>1, <1>9, <1>11 DEF g

LEMMA SanitizeHearts ==
  ASSUME WorkInv, HeartInv, NEW p \in Handles, Sanitize(p)
  PROVE  HeartInv'
<1>1. /\ pc[p] = "sanitize" /\ pc[p] \in Whole /\ pc[p] \in Working
      /\ UNCHANGED <<static, contents, queue, sent>>
  BY DEF Sanitize, Whole, Working, Stages
<1> DEFINE g == [n \in DOMAIN hh[p] |-> Sanitized(hh[p][n])]
<1>2. PassAll(p, g, "cleanup")
  BY DEF Sanitize, Map
<1>3. \A n \in DOMAIN hh[p] : Good(p, hh[p][n], pc[p]) => Good(p, g[n], "cleanup")
  BY <1>1, SanitizedGood
<1>4. Waiting(p)' /\ Own(p)
  BY <1>1, <1>2, <1>3, PassAllWaits, WholeOwn
<1> QED
  BY <1>1, <1>4, OwnHearts

LEMMA CleanupHearts ==
  ASSUME WorkInv, HeartInv, NEW p \in Handles, Cleanup(p)
  PROVE  HeartInv'
<1>1. /\ pc[p] = "cleanup" /\ Goto(p, "send") /\ pc'[p] = "send"
      /\ UNCHANGED <<static, contents, hh, kept, queue, sent>>
  BY DEF Cleanup, Goto, WorkInv, Shape
<1>2. Own(p)
  BY <1>1 DEF Goto, Own, WorkInv, Shape, Stages, static
<1>3. kept[p] = <<>> /\ Now(p) = "cleanup" /\ Now(p)' = "send"
  BY <1>1 DEF WorkInv, Batch, Working, Whole, Stages, Now
<1>4. \A h : Good(p, h, "cleanup") => Good(p, h, "send")'
  <2>1. \A h : Good(p, h, "cleanup") => Good(p, h, "send")
    BY DEF Good, Keyed
  <2> QED
    BY <1>1, <2>1, SameGood DEF static
<1>5. Waiting(p)'
  BY <1>1, <1>3, <1>4, SetSmall DEF HeartInv, Waiting
<1> QED
  BY <1>1, <1>2, <1>5, OwnHearts

\* No heartbeat waits for a batch that is through.
LEMMA GoneWaits ==
  ASSUME WorkInv, NEW p \in Handles, Hold(p, <<>>), kept'[p] = <<>>, pc'[p] \in {"exit", "killed"}
  PROVE  Waiting(p)'
<1>1. hh'[p] = <<>>
  BY DEF Hold, WorkInv, Shape
<1> QED
  BY <1>1, SetSmall DEF Waiting

\* A pattern for the default key is left out.
LEMMA DefaultIsNoPattern ==
  ASSUME HeartInv
  PROVE  \A d \in Paths : options.api.key \notin options.api.patterns[d]
<1>1. options.api = LoadAPIParams(settings)
  BY DEF HeartInv, options, OptionsOf, Options
<1> DEFINE key == LoadAPIKey(settings)
           patterns == LoadKeyPatterns(settings, key)
<1>2. \A d \in Paths : key \notin patterns[d]
  BY DEF LoadKeyPatterns
<1> HIDE DEF key, patterns
<1>3. \/ options.api = [ok |-> FALSE, key |-> None, patterns |-> [d \in Paths |-> {}]]
      \/ options.api = [ok |-> TRUE, key |-> key, patterns |-> patterns]
  BY <1>1 DEF LoadAPIParams, key, patterns
<1> QED
  BY <1>2, <1>3

LEMMA KeyPaid ==
  ASSUME HeartInv, NEW h, IsInput(h.in), h.key \in KeysOf(h.in.folder), h.key = options.api.key
  PROVE  options.api.patterns[h.in.folder] = {}
<1>1. h.in.folder \in Paths
  BY DEF IsInput, Paths
<1> QED
  BY <1>1, DefaultIsNoPattern DEF KeysOf

LEMMA SendHearts ==
  ASSUME WorkInv, HeartInv, NEW p \in Handles, Send(p)
  PROVE  HeartInv'
<1>1. /\ pc[p] = "send" /\ pc'[p] = "exit" /\ kept'[p] = kept[p]
      /\ UNCHANGED <<settings, original, saving, input, contents>>
  BY DEF Send, Goto, WorkInv, Shape, static
<1>2. Own(p) /\ kept[p] = <<>> /\ Now(p) = "send"
  BY <1>1 DEF Send, Goto, Hold, Own, WorkInv, Shape, Batch, Working, Whole, Stages, Now
<1>3. \A h \in ToSet(hh[p]) : Good(p, h, "send")
  BY <1>2 DEF HeartInv, Waiting
<1>4. \A h \in ToSet(hh[p]) : Done(h) /\ (p \notin saving => Paid(h))
  BY <1>3, KeyPaid DEF Good, Done, Sound, Keyed, Paid
<1>5. Waiting(p)'
  BY <1>1, <1>2, GoneWaits DEF Send
<1>6. \A q \in Handles : Waiting(q)'
  BY <1>1, <1>2, <1>5, OthersWait
<1>7. \A h : (Done(h)' <=> Done(h)) /\ (Paid(h)' <=> Paid(h))
  BY <1>1, SameDone
<1>8. \A h \in queue' : Done(h)
  BY <1>4 DEF Send, HeartInv
<1>9. \A h \in sent' : Done(h) /\ Paid(h)
  BY <1>4 DEF Send, HeartInv
<1> QED
  BY <1>1, <1>6, <1>7, <1>8, <1>9 DEF HeartInv

LEMMA KillHearts ==
  ASSUME WorkInv, HeartInv, NEW p \in Handles, Kill(p)
  PROVE  HeartInv'
<1>1. /\ pc'[p] = "killed" /\ kept'[p] = <<>> /\ Hold(p, <<>>)
      /\ UNCHANGED <<static, contents, queue, sent>>
  BY DEF Kill, Goto, WorkInv, Shape
<1>2. Own(p)
  BY DEF Kill, Goto, Hold, Own, WorkInv, Shape, Stages, static
<1> QED
  BY <1>1, <1>2, GoneWaits, OwnHearts

\* The heartbeats that wait in a step of none of the batches.
LEMMA AllWait ==
  ASSUME HeartInv, UNCHANGED <<settings, original, saving, pc, hh, kept>>
  PROVE  \A q \in Handles : Waiting(q)'
<1>1. \A q \in Handles :
        Waiting(q) /\ This(q)' = This(q) /\ Now(q)' = Now(q) /\ Later(q)' = Later(q)
  BY DEF HeartInv, This, Now, Later, AfterRemote
<1>2. \A q \in Handles : \A e, l : Good(q, e, l)' <=> Good(q, e, l)
  BY SameGood
<1>3. \A e : Placed(e)' <=> Placed(e)
  BY DEF Placed, Local, Plain, IsFile, IsRemote
<1> QED
  BY <1>1, <1>2, <1>3 DEF Waiting

LEMMA SyncHearts ==
  ASSUME WorkInv, HeartInv, Sync
  PROVE  HeartInv'
<1>1. UNCHANGED <<settings, original, saving, contents, pc, hh, kept>>
  BY DEF Sync, static
<1>2. PICK h \in queue, k \in ApiKeys :
        /\ k \in QueuedKeys(h)
        /\ queue' = queue \ {h}
        /\ sent' = sent \cup {[h EXCEPT !.key = k, !.queued = TRUE]}
  BY DEF Sync
<1> DEFINE g == [h EXCEPT !.key = k, !.queued = TRUE]
<1>3. Done(h)
  BY DEF HeartInv
<1>4. IsHeartbeat(h) /\ IsInput(h.in)
  BY <1>3 DEF Done, Sound
<1>5. /\ IsHeartbeat(g) /\ g.key = k /\ g.queued /\ g.in = h.in /\ g.entity = h.entity
      /\ g.path = h.path /\ (g.roots <=> h.roots) /\ g.project = h.project /\ g.detector = h.detector
      /\ (g.blank <=> h.blank)
  BY <1>4 DEF IsHeartbeat
<1> HIDE DEF g
<1>6. Done(g)
  BY <1>3, <1>5 DEF Done, Sound, Named, ShouldSanitize, Placed, Local, Plain, IsFile, IsRemote, Hidden
<1>7. Paid(g)
  <2>1. CASE g.entity \in {"hidden", "relative"}
    BY <1>5, <2>1 DEF Paid
  <2>2. CASE g.entity \notin {"hidden", "relative"}
    <3>1. k \in KeysOf(g.in.folder)
      BY <1>2, <1>5, <2>2 DEF QueuedKeys
    <3>2. IsInput(g.in)
      BY <1>4, <1>5
    <3> QED
      BY <1>5, <3>1, <3>2, KeyPaid DEF Paid
  <2> QED
    BY <2>1, <2>2
<1>8. \A q \in Handles : Waiting(q)'
  BY <1>1, AllWait
<1>9. \A e : (Done(e)' <=> Done(e)) /\ (Paid(e)' <=> Paid(e))
  BY <1>1, SameDone
<1>10. \A e \in queue' : Done(e)
  BY <1>2 DEF HeartInv
<1>11. \A e \in sent' : Done(e) /\ Paid(e)
  BY <1>2, <1>6, <1>7 DEF HeartInv, g
<1> QED
  BY <1>1, <1>8, <1>9, <1>10, <1>11 DEF HeartInv

LEMMA StillHearts ==
  ASSUME HeartInv, UNCHANGED vars
  PROVE  HeartInv'
<1>1. UNCHANGED <<settings, original, saving, contents, pc, hh, kept, queue, sent>>
  BY DEF vars
<1> QED
  BY <1>1, AllWait, SameDone DEF HeartInv

LEMMA StepHearts == WorkInv /\ HeartInv /\ [Next]_vars => HeartInv'
<1> SUFFICES ASSUME WorkInv, HeartInv, [Next]_vars PROVE HeartInv'
  OBVIOUS
<1> QED
  BY StillHearts, StartHearts, FilterHearts, RemoteHearts, ReplaceKeysHearts, DescribeHearts,
     DetectProjectHearts, CheckFileHearts, CreateFileHearts, WriteFileHearts, ExcludeHearts,
     SanitizeHearts, CleanupHearts, SendHearts, KillHearts, SyncHearts DEF Next

LEMMA AlwaysHearts == Spec => [](WorkInv /\ HeartInv)
  BY InitWork, InitHearts, StepWork, StepHearts, PTL DEF Spec

\* However heartbeats of several batches meet in the project files, one of a hidden
\* project is sent without a name, with a random one, or with the one that its user wrote
\* into a file, unless that file was found empty or blank (obfuscateProjectName).
THEOREM HiddenNames == Spec => []NamesHidden
<1>1. HeartInv => NamesHidden
  BY DEF HeartInv, Done, Named, NamesHidden
<1> QED
  BY <1>1, AlwaysHearts, PTL

\* With hide_project_folder no full path of a local file is sent that has the folder of
\* its project, or the one the editor named, in it; links and URLs apart, the first is
\* found for every file in the tree (sanitize.go, project.go).
THEOREM HiddenPaths == Spec => []PathsHidden
<1>1. HeartInv => PathsHidden
  BY DEF HeartInv, Done, Placed, Hidden, Local, Plain, Gits, PathsHidden
<1> QED
  BY <1>1, AlwaysHearts, PTL

\* The default API key is only used for a path that no project's key is given for, or that
\* the queue no longer holds (apikey.go, offlinesync.go).
THEOREM ProjectKeys == Spec => []KeyOfPath
<1>1. HeartInv => KeyOfPath
  BY DEF HeartInv, Paid, KeyOfPath
<1> QED
  BY <1>1, AlwaysHearts, PTL
================================================================================
