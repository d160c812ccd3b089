----------------------------- MODULE PipelineProofs -----------------------------
(*****************************************************************************)
(* Proofs about Pipeline, for any tree of folders, any settings, any batches    *)
(* and any number of failures and kills: the batches keep their shape, and the   *)
(* project files of users stay.                                                *)
(*****************************************************************************)
EXTENDS Pipeline, ProjectDetectionProofs

IsSeq(s) == \E S : s \in Seq(S)

LEMMA SeqSmall == ASSUME NEW e PROVE IsSeq(<<>>) /\ IsSeq(<<e>>) /\ Len(<<e>>) = 1
<1>1. <<>> \in Seq({e}) /\ <<e>> \in Seq({e}) /\ Len(<<e>>) = 1
  OBVIOUS
<1> QED
  BY <1>1 DEF IsSeq

LEMMA SeqTail ==
  ASSUME NEW s, IsSeq(s), Len(s) > 0
  PROVE  IsSeq(Tail(s)) /\ Len(s) \in Nat /\ Len(Tail(s)) = Len(s) - 1
<1>1. PICK S : s \in Seq(S)
  BY DEF IsSeq
<1>2. s # <<>>
  BY <1>1
<1>3. Tail(s) \in Seq(S) /\ Len(s) \in Nat /\ Len(Tail(s)) = Len(s) - 1
  BY <1>1, <1>2
<1> QED
  BY <1>3 DEF IsSeq

LEMMA SeqConcat ==
  ASSUME NEW s, NEW t, IsSeq(s), IsSeq(t)
  PROVE  /\ IsSeq(s \o t)
         /\ s \o t # <<>> => Len(s \o t) > 0
<1>1. PICK S : s \in Seq(S)
  BY DEF IsSeq
<1>2. PICK T : t \in Seq(T)
  BY DEF IsSeq
<1>3. s \in Seq(S \cup T) /\ t \in Seq(S \cup T)
  BY <1>1, <1>2
<1>4. s \o t \in Seq(S \cup T)
  BY <1>3
<1> QED
  BY <1>4 DEF IsSeq

LEMMA SeqCons ==
  ASSUME NEW e, NEW t, IsSeq(t)
  PROVE  IsSeq(<<e>> \o t) /\ Len(<<e>> \o t) > 0 /\ Head(<<e>> \o t) = e
<1>1. PICK T : t \in Seq(T)
  BY DEF IsSeq
<1>2. <<e>> \in Seq(T \cup {e}) /\ t \in Seq(T \cup {e})
  BY <1>1
<1>3. /\ <<e>> \o t \in Seq(T \cup {e})
      /\ Len(<<e>> \o t) > 0
      /\ (<<e>> \o t)[1] = e
  BY <1>2
<1> QED
  BY <1>3 DEF IsSeq

LEMMA SeqSameLength ==
  ASSUME NEW s, IsSeq(s), Len(s) > 0, NEW g, g = [n \in DOMAIN s |-> g[n]]
  PROVE  IsSeq(g) /\ Len(g) > 0
<1>1. PICK S : s \in Seq(S)
  BY DEF IsSeq
<1>2. DOMAIN s = 1 .. Len(s) /\ Len(s) \in Nat
  BY <1>1
<1> DEFINE T == {g[n] : n \in 1 .. Len(s)}
<1>3. g \in [1 .. Len(s) -> T]
  BY <1>2
<1>4. g \in Seq(T) /\ Len(g) = Len(s)
  BY <1>2, <1>3
<1> QED
  BY <1>4 DEF IsSeq

\* The sets of their elements.
LEMMA SetSmall == ASSUME NEW e PROVE ToSet(<<>>) = {} /\ ToSet(<<e>>) = {e}
<1>1. DOMAIN <<e>> = {1} /\ <<e>>[1] = e
  OBVIOUS
<1> QED
  BY <1>1 DEF ToSet

LEMMA SetConcat ==
  ASSUME NEW s, NEW t, IsSeq(s), IsSeq(t)
  PROVE  ToSet(s \o t) = ToSet(s) \cup ToSet(t)
<1>1. PICK S : s \in Seq(S)
  BY DEF IsSeq
<1>2. PICK T : t \in Seq(T)
  BY DEF IsSeq
<1>3. s \in Seq(S \cup T) /\ t \in Seq(S \cup T)
  BY <1>1, <1>2
<1> DEFINE c == s \o t
<1>4. /\ DOMAIN s = 1 .. Len(s) /\ Len(s) \in Nat
      /\ DOMAIN t = 1 .. Len(t) /\ Len(t) \in Nat
      /\ DOMAIN c = 1 .. Len(s) + Len(t)
      /\ \A i \in 1 .. Len(s) + Len(t) : c[i] = IF i <= Len(s) THEN s[i] ELSE t[i - Len(s)]
  BY <1>3
<1> HIDE DEF c
<1>5. ASSUME NEW i \in DOMAIN c PROVE c[i] \in ToSet(s) \cup ToSet(t)
  <2>1. CASE i <= Len(s)
    BY <1>4, <1>5, <2>1 DEF ToSet
  <2>2. CASE ~ (i <= Len(s))
    <3>1. i - Len(s) \in DOMAIN t
      BY <1>4, <2>2
    <3> QED
      BY <1>4, <2>2, <3>1 DEF ToSet
  <2> QED
    BY <2>1, <2>2
<1>6. ASSUME NEW i \in DOMAIN s PROVE s[i] \in ToSet(c)
  <2>1. i \in DOMAIN c /\ c[i] = s[i]
    BY <1>4
  <2> QED
    BY <2>1 DEF ToSet
<1>7. ASSUME NEW i \in DOMAIN t PROVE t[i] \in ToSet(c)
  <2>1. i + Len(s) \in DOMAIN c /\ c[i + Len(s)] = t[i]
    BY <1>4
  <2> QED
    BY <2>1 DEF ToSet
<1> QED
  BY <1>5, <1>6, <1>7 DEF ToSet, c

LEMMA SetTail ==
  ASSUME NEW s, IsSeq(s), Len(s) > 0
  PROVE  /\ ToSet(s) = {Head(s)} \cup ToSet(Tail(s))
         /\ ~ (Len(s) > 1) => ToSet(Tail(s)) = {}
<1>1. PICK S : s \in Seq(S)
  BY DEF IsSeq
<1>2. s # <<>>
  BY <1>1
<1> DEFINE t == Tail(s)
<1>3. /\ DOMAIN s = 1 .. Len(s) /\ Len(s) \in Nat
      /\ DOMAIN t = 1 .. Len(s) - 1
      /\ \A i \in 1 .. Len(s) - 1 : t[i] = s[i + 1]
      /\ Head(s) = s[1]
  BY <1>1, <1>2
<1> HIDE DEF t
<1>4. ASSUME NEW i \in DOMAIN s PROVE s[i] \in {Head(s)} \cup ToSet(t)
  <2>1. CASE i = 1
    BY <1>3, <2>1
  <2>2. CASE i # 1
    <3>1. i - 1 \in DOMAIN t /\ t[i - 1] = s[i]
      BY <1>3, <2>2
    <3> QED
      BY <3>1 DEF ToSet
  <2> QED
    BY <2>1, <2>2
<1>5. ASSUME NEW i \in DOMAIN t PROVE t[i] \in ToSet(s)
  <2>1. i + 1 \in DOMAIN s /\ s[i + 1] = t[i]
    BY <1>3
  <2> QED
    BY <2>1 DEF ToSet
<1>6. Head(s) \in ToSet(s)
  <2>1. 1 \in DOMAIN s
    BY <1>3
  <2> QED
    BY <1>3, <2>1 DEF ToSet
<1>7. ~ (Len(s) > 1) => DOMAIN t = {}
  BY <1>3
<1> QED
  BY <1>4, <1>5, <1>6, <1>7 DEF ToSet, t

--------------------------------------------------------------------------------
(* A batch.                                                                    *)

Working == Stages \ {"idle", "exit", "killed"}

\* The options that are one step.
Whole == {"keys", "describe", "sanitize", "cleanup", "send"}

\* An option is never called without a heartbeat.
Batch(p) ==
  IF pc[p] \in Working
  THEN IsSeq(hh[p]) /\ Len(hh[p]) > 0 /\ IsSeq(kept[p]) /\ (pc[p] \in Whole => kept[p] = <<>>)
  ELSE hh[p] = <<>> /\ kept[p] = <<>>

\* Whoever is about to write a file has seen that its user has none there.
Cautious(p) ==
  pc[p] \in {"create", "write"} /\ Target(p) \in Folders => original[Target(p)] = None

Shape ==
  /\ pc \in [Handles -> Stages]
  /\ hh = [p \in Handles |-> hh[p]]
  /\ kept = [p \in Handles |-> kept[p]]
  /\ contents = [f \in Folders |-> contents[f]]

WorkInv ==
  /\ Shape
  /\ \A p \in Handles : input[p] \in Inputs[p]
  /\ \A p \in Handles : Batch(p)
  /\ \A p \in Handles : Cautious(p)
  /\ UserFileKept

\* What a step of p does to the batches: those of others stay.
Own(p) ==
  /\ UNCHANGED <<input, original>>
  /\ pc' = [pc EXCEPT ![p] = pc'[p]] /\ pc'[p] \in Stages
  /\ hh' = [hh EXCEPT ![p] = hh'[p]]
  /\ kept' = [kept EXCEPT ![p] = kept'[p]]

LEMMA PassOwn ==
  ASSUME Shape, NEW p \in Handles, pc[p] \in Working, Batch(p), NEW s, IsSeq(s),
         NEW option \in Working \ Whole, NEW next \in Working,
         Pass(p, s, option, next), UNCHANGED <<input, original>>
  PROVE  Own(p) /\ Batch(p)' /\ pc'[p] \in {option, next, "exit"}
<1> USE DEF Shape, Own, Batch, Goto, Hold
<1>1. IsSeq(kept[p] \o s) /\ (kept[p] \o s # <<>> => Len(kept[p] \o s) > 0)
  BY SeqConcat
<1>2. IsSeq(<<>>) /\ "exit" \in Stages /\ "exit" \notin Working /\ Working \subseteq Stages
  BY SeqSmall DEF Stages, Working
<1>3. CASE Len(hh[p]) > 1
  <2>1. IsSeq(Tail(hh[p])) /\ Len(Tail(hh[p])) > 0
    BY <1>3, SeqTail
  <2> QED
    BY <1>1, <1>2, <1>3, <2>1 DEF Pass
<1>4. CASE ~ (Len(hh[p]) > 1)
  <2>1. CASE kept[p] \o s = <<>>
    BY <1>1, <1>2, <1>4, <2>1 DEF Pass
  <2>2. CASE kept[p] \o s # <<>>
    BY <1>1, <1>2, <1>4, <2>2 DEF Pass
  <2> QED
    BY <2>1, <2>2
<1> QED
  BY <1>3, <1>4

LEMMA PassAllOwn ==
  ASSUME Shape, NEW p \in Handles, Batch(p), pc[p] \in Whole, NEW s, IsSeq(s), Len(s) > 0,
         NEW next \in Working, PassAll(p, s, next), UNCHANGED <<input, original>>
  PROVE  Own(p) /\ Batch(p)' /\ pc'[p] \in {next}
<1>1. s # <<>> /\ Whole \subseteq Working /\ Working \subseteq Stages
  <2>1. Len(<<>>) = 0
    OBVIOUS
  <2> QED
    BY <2>1 DEF Whole, Working, Stages
<1>2. kept[p] = <<>> /\ IsSeq(<<>>)
  BY <1>1, SeqSmall DEF Batch
<1> QED
  BY <1>1, <1>2 DEF Shape, Own, Batch, Goto, Hold, PassAll

LEMMA OwnShape ==
  ASSUME Shape, NEW p \in Handles, Own(p), contents' = [f \in Folders |-> contents'[f]]
  PROVE  Shape'
  BY DEF Shape, Own

LEMMA SameFiles ==
  ASSUME WorkInv, UNCHANGED <<contents, original>>
  PROVE  UserFileKept' /\ contents' = [f \in Folders |-> contents'[f]]
  BY DEF WorkInv, Shape, UserFileKept

\* What a step of one batch has to keep of WorkInv.
LEMMA OwnWork ==
  ASSUME WorkInv, NEW p \in Handles, Own(p),
         UserFileKept', contents' = [f \in Folders |-> contents'[f]],
         Batch(p)',
         Cautious(p)'
  PROVE  WorkInv'
<1>1. Shape'
  BY OwnShape DEF WorkInv, Shape
<1>2. \A q \in Handles \ {p} :
        pc'[q] = pc[q] /\ hh'[q] = hh[q] /\ kept'[q] = kept[q] /\ original' = original
  BY DEF WorkInv, Shape, Own
<1>3. \A q \in Handles \ {p} : Cautious(q)' /\ Batch(q)'
  BY <1>2 DEF WorkInv, Cautious, Target, TargetOf, This, Batch
<1>4. \A q \in Handles : input'[q] \in Inputs[q]
  BY DEF WorkInv, Own
<1> QED
  BY <1>1, <1>3, <1>4 DEF WorkInv

\* What is not yet, or no longer, about to write a file.
LEMMA OwnElsewhere ==
  ASSUME WorkInv, NEW p \in Handles, Own(p), UNCHANGED contents,
         pc'[p] \notin {"create", "write"},
         Batch(p)'
  PROVE  WorkInv'
  BY OwnWork, SameFiles DEF Cautious, Own

LEMMA BuildType ==
  ASSUME NEW p \in Handles, input[p] \in Inputs[p]
  PROVE  IsSeq(BuildHeartbeats(input[p])) /\ Len(BuildHeartbeats(input[p])) > 0
<1> DEFINE e == ParseExtraHeartbeats(input[p].extras)
           b == BuildHeartbeats(input[p])
<1>1. Len(e) \in Nat
  <2>1. CASE e = <<>>
    BY <2>1
  <2>2. CASE e # <<>>
    <3>1. e = [i \in DOMAIN input[p].extras |-> input[p].extras[i].heartbeat]
      BY <2>2 DEF ParseExtraHeartbeats
    <3>2. DOMAIN e = 1 .. Len(input[p].extras) /\ Len(input[p].extras) \in Nat
      BY <3>1, InputAssumption DEF IsSequence
    <3>3. e \in Seq({e[i] : i \in DOMAIN e})
      BY <3>1, <3>2
    <3> QED
      BY <3>3
  <2> QED
    BY <2>1, <2>2
<1>2. b = [n \in 1 .. 1 + Len(e) |-> b[n]]
  BY DEF BuildHeartbeats
<1> HIDE DEF e, b
<1>3. b \in Seq({b[n] : n \in 1 .. 1 + Len(e)}) /\ Len(b) = 1 + Len(e)
  BY <1>1, <1>2
<1> QED
  BY <1>1, <1>3 DEF IsSeq, b

--------------------------------------------------------------------------------
(* The steps.                                                                  *)

LEMMA InitWork == Init => WorkInv
<1> SUFFICES ASSUME Init PROVE WorkInv
  OBVIOUS
<1>1. Shape
  BY FileAssumption DEF Init, Shape, Stages
<1>2. \A p \in Handles : input[p] \in Inputs[p] /\ pc[p] = "idle" /\ hh[p] = <<>> /\ kept[p] = <<>>
  BY DEF Init
<1>3. UserFileKept
  BY DEF Init, UserFileKept
<1>4. \A p \in Handles : Batch(p) /\ Cautious(p)
  BY <1>2 DEF Batch, Cautious, Working
<1> QED
  BY <1>1, <1>2, <1>3, <1>4 DEF WorkInv

LEMMA StartWork ==
  ASSUME WorkInv, NEW p \in Handles, Start(p)
  PROVE  WorkInv'
<1>1. Own(p) /\ pc'[p] = "filter" /\ UNCHANGED contents
  BY DEF Start, Hold, Goto, Own, WorkInv, Shape, Stages
<1>2. pc[p] \notin Working /\ pc'[p] \in Working \ Whole
  BY <1>1 DEF Start, Working, Whole, Stages
<1>3. Batch(p)'
  BY <1>2, BuildType, SeqSmall DEF Start, Hold, Batch, WorkInv, Shape
<1> QED
  BY <1>1, <1>3, OwnElsewhere

LEMMA OptionWork ==
  ASSUME WorkInv, NEW p \in Handles,
         \/ Filter(p) \/ SkipLocal(p) \/ CreateTemp(p) \/ Download(p) \/ DownloadFails(p)
         \/ Fallback(p) \/ Exclude(p)
  PROVE  WorkInv'
<1>1. pc[p] \in Working \ Whole /\ Batch(p) /\ Shape
  BY DEF Filter, SkipLocal, CreateTemp, Download, DownloadFails, Fallback, Exclude, Working, Whole, Stages,
         WorkInv
<1>2. UNCHANGED <<input, original, contents>>
  BY DEF Filter, SkipLocal, CreateTemp, Download, DownloadFails, Fallback, Exclude, static
<1>3. AfterRemote(p) \in Working \ {"create", "write"}
  BY DEF AfterRemote, Working, Stages
<1>4. CASE \/ pc' = [pc EXCEPT ![p] = "download"] /\ UNCHANGED <<hh, kept>>
           \/ pc' = [pc EXCEPT ![p] = "fallback"] /\ UNCHANGED <<hh, kept>>
  BY <1>1, <1>2, <1>4, OwnElsewhere DEF Own, Shape, Stages, Working, Whole, Batch
<1>5. ASSUME NEW s, IsSeq(s), NEW option \in {"filter", "remote", "exclude"},
             NEW next \in Working \ {"create", "write"}, Pass(p, s, option, next)
      PROVE  WorkInv'
  <2>1. option \in Working \ Whole
    BY DEF Working, Whole, Stages
  <2>2. Own(p) /\ Batch(p)' /\ pc'[p] \in {option, next, "exit"}
    BY <1>1, <1>2, <1>5, <2>1, PassOwn
  <2> QED
    BY <1>2, <2>2, OwnElsewhere
<1>6. \A e : IsSeq(<<e>>) /\ IsSeq(<<>>)
  BY SeqSmall
<1>7. CASE Filter(p) \/ Exclude(p)
  BY <1>5, <1>6, <1>7 DEF Filter, Exclude, Working, Stages
<1>8. CASE SkipLocal(p) \/ Download(p) \/ Fallback(p)
  BY <1>3, <1>5, <1>6, <1>8 DEF SkipLocal, Download, Fallback
<1>9. CASE CreateTemp(p) \/ DownloadFails(p)
  BY <1>3, <1>4, <1>5, <1>6, <1>9 DEF CreateTemp, DownloadFails, Goto
<1> QED
  BY <1>7, <1>8, <1>9

LEMMA WholeOptionWork ==
  ASSUME WorkInv, NEW p \in Handles, ReplaceKeys(p) \/ Describe(p) \/ Sanitize(p)
  PROVE  WorkInv'
<1>1. Batch(p) /\ Shape /\ pc[p] \in Whole \cap Working
  BY DEF ReplaceKeys, Describe, Sanitize, Working, Whole, Stages, WorkInv
<1>2. UNCHANGED <<input, original, contents>>
  BY DEF ReplaceKeys, Describe, Sanitize, static
<1>3. ASSUME NEW g, g = [n \in DOMAIN hh[p] |-> g[n]], NEW next \in {"describe", "detect", "cleanup"},
             PassAll(p, g, next)
      PROVE  WorkInv'
  <2>1. IsSeq(g) /\ Len(g) > 0
    BY <1>1, <1>3, SeqSameLength DEF Batch
  <2>2. next \in Working
    BY DEF Working, Stages
  <2>3. Own(p) /\ Batch(p)' /\ pc'[p] \in {next}
    BY <1>1, <1>2, <1>3, <2>1, <2>2, PassAllOwn
  <2> QED
    BY <1>2, <2>3, OwnElsewhere
<1>4. CASE ReplaceKeys(p)
  <2>1. PICK k \in [DOMAIN hh[p] -> ApiKeys] :
               PassAll(p, [n \in DOMAIN hh[p] |-> [hh[p][n] EXCEPT !.key = k[n]]], "describe")
    BY <1>4 DEF ReplaceKeys
  <2> QED
    BY <1>3, <2>1
<1>5. CASE Describe(p)
  BY <1>3, <1>5 DEF Describe, Map
<1>6. CASE Sanitize(p)
  BY <1>3, <1>6 DEF Sanitize, Map
<1> QED
  BY <1>4, <1>5, <1>6

LEMMA DetectProjectWork ==
  ASSUME WorkInv, NEW p \in Handles, DetectProject(p)
  PROVE  WorkInv'
<1>1. pc[p] \in Working /\ pc[p] = "detect" /\ Batch(p) /\ Shape
  BY DEF DetectProject, Working, Stages, WorkInv
<1>2. UNCHANGED <<input, original, contents>>
  BY DEF DetectProject, static
<1>3. PICK h \in Detections(contents, This(p)) :
        \/ Hold(p, <<h>> \o Tail(hh[p])) /\ Goto(p, "check") /\ UNCHANGED kept
        \/ Pass(p, <<h>>, "detect", "exclude")
  BY DEF DetectProject
<1>4. CASE Hold(p, <<h>> \o Tail(hh[p])) /\ Goto(p, "check") /\ UNCHANGED kept
  <2>1. IsSeq(<<h>> \o Tail(hh[p])) /\ Len(<<h>> \o Tail(hh[p])) > 0
    BY <1>1, SeqTail, SeqCons DEF Batch
  <2>2. Own(p) /\ pc'[p] = "check" /\ Batch(p)'
    BY <1>1, <1>2, <1>4, <2>1 DEF Own, Shape, Hold, Goto, Batch, Stages, Working, Whole
  <2> QED
    BY <1>2, <2>2, OwnElsewhere
<1>5. CASE Pass(p, <<h>>, "detect", "exclude")
  <2>1. "detect" \in Working \ Whole /\ "exclude" \in Working /\ IsSeq(<<h>>)
    BY SeqSmall DEF Working, Whole, Stages
  <2>2. Own(p) /\ Batch(p)' /\ pc'[p] \in {"detect", "exclude", "exit"}
    BY <1>1, <1>2, <1>5, <2>1, PassOwn
  <2> QED
    BY <1>2, <2>2, OwnElsewhere
<1> QED
  BY <1>3, <1>4, <1>5

LEMMA CheckFileWork ==
  ASSUME WorkInv, NEW p \in Handles, CheckFile(p)
  PROVE  WorkInv'
<1> DEFINE h == [This(p) EXCEPT !.project = Random]
<1>1. pc[p] \in Working /\ Batch(p) /\ Shape /\ pc[p] = "check"
  BY DEF CheckFile, Working, Stages, WorkInv
<1>2. UNCHANGED <<input, original, contents>>
  BY DEF CheckFile, static
<1>3. CASE Taken(This(p))
  <2>1. /\ "detect" \in Working \ Whole /\ "exclude" \in Working
        /\ IsSeq(<<[This(p) EXCEPT !.project = None]>>)
    BY SeqSmall DEF Working, Whole, Stages
  <2>2. Pass(p, <<[This(p) EXCEPT !.project = None]>>, "detect", "exclude")
    BY <1>3 DEF CheckFile
  <2>3. Own(p) /\ Batch(p)' /\ pc'[p] \in {"detect", "exclude", "exit"}
    BY <1>1, <1>2, <2>1, <2>2, PassOwn
  <2> QED
    BY <1>2, <2>3, OwnElsewhere
<1>4. CASE ~ Taken(This(p))
  <2>1. /\ hh' = [hh EXCEPT ![p] = <<h>> \o Tail(hh[p])]
        /\ pc' = [pc EXCEPT ![p] = "create"]
        /\ UNCHANGED kept
    BY <1>4 DEF CheckFile, Hold, Goto
  <2>2. /\ IsSeq(<<h>> \o Tail(hh[p])) /\ Len(<<h>> \o Tail(hh[p])) > 0
        /\ Head(<<h>> \o Tail(hh[p])) = h
    BY <1>1, SeqTail, SeqCons DEF Batch
  <2>3. Own(p) /\ pc'[p] = "create" /\ Batch(p)'
    BY <1>1, <1>2, <2>1, <2>2 DEF Own, Shape, Batch, Stages, Working, Whole
  <2>4. This(p)' = h
    BY <1>1, <2>1, <2>2 DEF Shape, This
  <2>5. This(p)'.path = This(p).path
    BY <2>4
  <2>6. Target(p)' = Target(p)
    BY <2>5 DEF Target, TargetOf
  <2>7. Target(p) \in Folders => original[Target(p)] = None
    BY <1>4 DEF WorkInv, UserFileKept, Taken, Target
  <2>8. Cautious(p)'
    BY <1>2, <2>6, <2>7 DEF Cautious
  <2> QED
    BY <1>2, <2>3, <2>8, OwnWork, SameFiles
<1> QED
  BY <1>3, <1>4

\* A step that puts something into the file it is cautious about.
LEMMA WriteWork ==
  ASSUME WorkInv, NEW p \in Handles, pc[p] \in {"create", "write"}, Target(p) \in Folders,
         NEW c, contents' = [contents EXCEPT ![Target(p)] = c], UNCHANGED <<input, original>>
  PROVE  /\ UserFileKept'
         /\ contents' = [f \in Folders |-> contents'[f]]
  BY DEF WorkInv, Shape, Cautious, UserFileKept

LEMMA CreateFileWork ==
  ASSUME WorkInv, NEW p \in Handles, CreateFile(p)
  PROVE  WorkInv'
<1>1. pc[p] \in Working /\ Batch(p) /\ Shape /\ Cautious(p)
  BY DEF CreateFile, Working, Stages, WorkInv
<1>2. /\ pc[p] = "create" /\ pc' = [pc EXCEPT ![p] = "write"]
      /\ Target(p) \in Folders
      /\ UNCHANGED <<input, original, hh, kept>>
  BY DEF CreateFile, Goto, static
<1>3. UserFileKept' /\ contents' = [f \in Folders |-> contents'[f]]
  BY <1>2, WriteWork DEF CreateFile
<1>4. Own(p) /\ pc'[p] = "write" /\ Batch(p)'
  BY <1>1, <1>2 DEF Own, Shape, Batch, Stages, Working, Whole
<1>5. Cautious(p)'
  BY <1>1, <1>2 DEF Cautious, Target, TargetOf, This
<1> QED
  BY <1>3, <1>4, <1>5, OwnWork

LEMMA WriteFileWork ==
  ASSUME WorkInv, NEW p \in Handles, WriteFile(p) \/ WriteFileFails(p)
  PROVE  WorkInv'
<1>1. pc[p] \in Working \cap {"create", "write"} /\ Batch(p) /\ Shape
  BY DEF WriteFile, WriteFileFails, Working, Stages, WorkInv
<1>2. UNCHANGED <<input, original>> /\ Pass(p, <<This(p)>>, "detect", "exclude")
  BY DEF WriteFile, WriteFileFails, static
<1>3. UserFileKept' /\ contents' = [f \in Folders |-> contents'[f]]
  <2>1. CASE WriteFile(p) /\ Target(p) \in Folders
    BY <1>2, <2>1, WriteWork DEF WriteFile
  <2>2. CASE WriteFileFails(p) \/ Target(p) \notin Folders
    <3>1. UNCHANGED contents
      BY <1>1, <2>2 DEF WriteFile, WriteFileFails, Shape
    <3> QED
      BY <1>2, <3>1, SameFiles
  <2> QED
    BY <2>1, <2>2
<1>4. "detect" \in Working \ Whole /\ "exclude" \in Working /\ IsSeq(<<This(p)>>)
  BY SeqSmall DEF Working, Whole, Stages
<1>5. Own(p) /\ Batch(p)' /\ pc'[p] \in {"detect", "exclude", "exit"}
  BY <1>1, <1>2, <1>4, PassOwn
<1>6. Cautious(p)'
  BY <1>5 DEF Cautious
<1> QED
  BY <1>3, <1>5, <1>6, OwnWork

\* The last steps, which look at no project file.
LEMMA LastWork ==
  ASSUME WorkInv, NEW p \in Handles, Cleanup(p) \/ Send(p) \/ Kill(p)
  PROVE  WorkInv'
<1>1. UNCHANGED <<input, original, contents>>
  BY DEF Cleanup, Send, Kill, static
<1>2. Own(p) /\ pc'[p] \in {"send", "exit", "killed"}
  BY <1>1 DEF Cleanup, Send, Kill, Hold, Goto, Own, WorkInv, Shape, Stages
<1>3. Batch(p)'
  BY DEF Cleanup, Send, Kill, Hold, Goto, WorkInv, Shape, Batch, Working, Whole, Stages
<1> QED
  BY <1>1, <1>2, <1>3, OwnElsewhere

LEMMA SameWork ==
  ASSUME WorkInv, UNCHANGED <<input, original, contents, pc, hh, kept>>
  PROVE  WorkInv'
  BY DEF WorkInv, Shape, Batch, Cautious, Target, TargetOf, This, UserFileKept

LEMMA StepWork == WorkInv /\ [Next]_vars => WorkInv'
<1> SUFFICES ASSUME WorkInv, [Next]_vars PROVE WorkInv'
  OBVIOUS
<1>1. CASE UNCHANGED vars
  BY <1>1, SameWork DEF vars
<1>2. CASE Sync
  BY <1>2, SameWork DEF Sync, static
<1> QED
  BY <1>1, <1>2, StartWork, OptionWork, WholeOptionWork, DetectProjectWork, CheckFileWork, CreateFileWork,
     WriteFileWork, LastWork DEF Next

\* A project file of the user's is never changed, however many batches hide the
\* names of their projects in the same folder, and wherever they fail or are killed
\* between looking for the file and writing it (obfuscateProjectName).
THEOREM UserFilesKept == Spec => []UserFileKept
<1>1. WorkInv => UserFileKept
  BY DEF WorkInv
<1> QED
  BY <1>1, InitWork, StepWork, PTL DEF Spec
================================================================================
