------------------------- MODULE ProjectDetectionProofs -------------------------
(*****************************************************************************)
(* What the search for a file up to the root finds, for any tree of folders:    *)
(* the lemmas that the proofs about Pipeline rest on.                           *)
(*****************************************************************************)
EXTENDS ProjectDetection, TLAPS

\* What the search of one folder comes to, given what it comes to further up.
Value(S, f, d) == IF d \in S THEN d ELSE IF Parent[d] = Root THEN None ELSE f[Parent[d]]

\* f solves the recursion on a part of the tree that reaches the root.
Solves(S, D, f) ==
  /\ D \subseteq Folders
  /\ \A d \in D : (Parent[d] = Root \/ Parent[d] \in D) /\ f[d] = Value(S, f, d)

LEMMA ParentType == \A d \in Folders : Parent[d] = Root \/ Parent[d] \in Folders
  BY TreeAssumption

LEMMA SolutionsAgree ==
  ASSUME NEW S, NEW D, NEW f, Solves(S, D, f), NEW E, NEW g, Solves(S, E, g), NEW d \in D \cap E
  PROVE  f[d] = g[d]
<1> DEFINE T == {e \in D \cap E : f[e] # g[e]}
<1>1. SUFFICES ASSUME T # {} PROVE FALSE
  OBVIOUS
<1>2. T \in SUBSET Folders
  BY DEF Solves
<1>3. PICK e \in T : Parent[e] \notin T
  BY <1>1, <1>2, UpwardAssumption
<1>4. f[e] = Value(S, f, e) /\ g[e] = Value(S, g, e)
  BY DEF Solves
<1>5. Parent[e] # Root => f[Parent[e]] = g[Parent[e]]
  BY <1>3 DEF Solves
<1> QED
  BY <1>4, <1>5 DEF Value

LEMMA SolutionAt ==
  ASSUME NEW S, NEW d \in Folders
  PROVE  \E D, f : d \in D /\ Solves(S, D, f)
<1> DEFINE T == {e \in Folders : ~ \E D, f : e \in D /\ Solves(S, D, f)}
<1>1. SUFFICES ASSUME T # {} PROVE FALSE
  OBVIOUS
<1>2. PICK e \in T : Parent[e] \notin T
  BY <1>1, UpwardAssumption
<1>3. CASE Parent[e] = Root
  <2> DEFINE f == [x \in {e} |-> IF e \in S THEN e ELSE None]
  <2>1. Solves(S, {e}, f)
    BY <1>3 DEF Solves, Value
  <2> QED
    BY <2>1
<1>4. CASE Parent[e] # Root
  <2>1. PICK D, f : Parent[e] \in D /\ Solves(S, D, f)
    BY <1>2, <1>4, ParentType
  <2>2. e \notin D
    BY <2>1
  <2> DEFINE g == [x \in D \cup {e} |-> IF x = e THEN Value(S, f, e) ELSE f[x]]
  <2>3. \A x \in D : g[x] = f[x]
    BY <2>2
  <2>4. g[e] = Value(S, f, e)
    OBVIOUS
  <2> HIDE DEF g
  <2>5. \A x \in D \cup {e} : g[x] = Value(S, g, x)
    BY <1>4, <2>1, <2>3, <2>4 DEF Solves, Value
  <2>6. Solves(S, D \cup {e}, g)
    BY <2>1, <2>5 DEF Solves
  <2> QED
    BY <2>6
<1> QED
  BY <1>3, <1>4

\* The recursion has a solution, so that Search is one.
LEMMA SearchEquation ==
  ASSUME NEW S
  PROVE  Search(S) = [d \in Folders |-> Value(S, Search(S), d)]
<1> DEFINE At(d, v) == \E D, g : d \in D /\ Solves(S, D, g) /\ v = g[d]
           f == [d \in Folders |-> CHOOSE v : At(d, v)]
<1>1. \A D, g : Solves(S, D, g) => \A d \in D : f[d] = g[d]
  <2> SUFFICES ASSUME NEW D, NEW g, Solves(S, D, g), NEW d \in D
               PROVE  f[d] = g[d]
    OBVIOUS
  <2>1. d \in Folders /\ At(d, g[d])
    BY DEF Solves
  <2>2. At(d, f[d])
    BY <2>1
  <2> QED
    BY <2>2, SolutionsAgree
<1> HIDE DEF f
<1>2. ASSUME NEW d \in Folders
      PROVE  f[d] = Value(S, f, d)
  <2>1. PICK D, g : d \in D /\ Solves(S, D, g)
    BY SolutionAt
  <2>2. f[d] = g[d] /\ g[d] = Value(S, g, d)
    BY <1>1, <2>1 DEF Solves
  <2>3. Parent[d] # Root => f[Parent[d]] = g[Parent[d]]
    BY <1>1, <2>1 DEF Solves
  <2> QED
    BY <2>2, <2>3 DEF Value
<1>3. f = [d \in Folders |-> Value(S, f, d)]
  <2>1. f = [d \in Folders |-> f[d]]
    BY DEF f
  <2> QED
    BY <1>2, <2>1
<1> HIDE DEF f
<1>4. Search(S) = CHOOSE g : g = [d \in Folders |-> Value(S, g, d)]
  BY DEF Search, Value
<1> QED
  BY <1>3, <1>4

\* What is found is a folder of S, if there is one on the way up.
LEMMA NearestEquation ==
  ASSUME NEW S, NEW d \in Folders
  PROVE  Nearest(d, S) = IF d \in S THEN d ELSE Nearest(Parent[d], S)
<1>1. Search(S)[d] = Value(S, Search(S), d)
  BY SearchEquation
<1>2. Root \notin Folders
  BY TreeAssumption
<1> QED
  BY <1>1, <1>2, ParentType DEF Nearest, Value

LEMMA NearestType ==
  ASSUME NEW S, NEW d
  PROVE  Nearest(d, S) \in (S \cap Folders) \cup {None}
<1> DEFINE T == {e \in Folders : Nearest(e, S) \notin (S \cap Folders) \cup {None}}
<1>1. SUFFICES ASSUME T # {} PROVE FALSE
  BY DEF Nearest
<1>2. PICK e \in T : Parent[e] \notin T
  BY <1>1, UpwardAssumption
<1>3. Nearest(e, S) = IF e \in S THEN e ELSE Nearest(Parent[e], S)
  BY NearestEquation
<1>4. Parent[e] \in Folders \/ Nearest(Parent[e], S) = None
  BY ParentType DEF Nearest
<1> QED
  BY <1>2, <1>3, <1>4

\* Among more folders there is one, too.
LEMMA NearestMonotonic ==
  ASSUME NEW S, NEW T, S \subseteq T, NEW d, Nearest(d, S) # None
  PROVE  Nearest(d, T) # None
<1> DEFINE U == {e \in Folders : Nearest(e, S) # None /\ Nearest(e, T) = None}
<1>1. SUFFICES ASSUME U # {} PROVE FALSE
  BY DEF Nearest
<1>2. PICK e \in U : Parent[e] \notin U
  BY <1>1, UpwardAssumption
<1>3. /\ Nearest(e, S) = IF e \in S THEN e ELSE Nearest(Parent[e], S)
      /\ Nearest(e, T) = IF e \in T THEN e ELSE Nearest(Parent[e], T)
  BY NearestEquation
<1>4. None \notin Folders
  BY TreeAssumption
<1>5. Parent[e] \in Folders \/ Nearest(Parent[e], S) = None
  BY DEF Nearest
<1> QED
  BY <1>2, <1>3, <1>4, <1>5

\* What is found is above the folder the search began with.
LEMMA NearestIsAbove ==
  ASSUME NEW S, NEW d, NEW f, f = Nearest(d, S), f # None
  PROVE  Nearest(d, {f}) = f
<1> DEFINE U == {e \in Folders : Nearest(e, S) # None /\ Nearest(e, {Nearest(e, S)}) # Nearest(e, S)}
<1>1. SUFFICES ASSUME U # {} PROVE FALSE
  BY DEF Nearest
<1>2. PICK e \in U : Parent[e] \notin U
  BY <1>1, UpwardAssumption
<1> DEFINE g == Nearest(e, S)
<1>3. /\ g = IF e \in S THEN e ELSE Nearest(Parent[e], S)
      /\ Nearest(e, {g}) = IF e \in {g} THEN e ELSE Nearest(Parent[e], {g})
  BY NearestEquation
<1>4. Parent[e] \in Folders \/ Nearest(Parent[e], S) = None
  BY DEF Nearest
<1> HIDE DEF g
<1>5. CASE e = g
  BY <1>2, <1>3, <1>5 DEF g
<1>6. CASE e # g
  <2>1. g = Nearest(Parent[e], S) /\ Nearest(e, {g}) = Nearest(Parent[e], {g})
    BY <1>3, <1>6
  <2>2. Parent[e] \in Folders
    BY <1>2, <1>4, <2>1 DEF g
  <2>3. g # None /\ Nearest(e, {g}) # g
    BY <1>2 DEF g
  <2> QED
    BY <1>2, <2>1, <2>2, <2>3
<1> QED
  BY <1>5, <1>6

\* If what is found among more folders is one of the fewer, it is found among them, too.
LEMMA NearestSame ==
  ASSUME NEW S, NEW T, S \subseteq T, T \subseteq Folders, NEW d, Nearest(d, T) \in S \cup {None}
  PROVE  Nearest(d, S) = Nearest(d, T)
<1> DEFINE U == {e \in Folders : Nearest(e, T) \in S \cup {None} /\ Nearest(e, S) # Nearest(e, T)}
<1>1. SUFFICES ASSUME U # {} PROVE FALSE
  BY DEF Nearest
<1>2. PICK e \in U : Parent[e] \notin U
  BY <1>1, UpwardAssumption
<1>3. /\ Nearest(e, S) = IF e \in S THEN e ELSE Nearest(Parent[e], S)
      /\ Nearest(e, T) = IF e \in T THEN e ELSE Nearest(Parent[e], T)
  BY NearestEquation
<1>4. None \notin Folders
  BY TreeAssumption
<1>5. e \notin T
  BY <1>2, <1>3, <1>4
<1>6. Parent[e] \in Folders \/ (Nearest(Parent[e], S) = None /\ Nearest(Parent[e], T) = None)
  BY DEF Nearest
<1> QED
  BY <1>2, <1>3, <1>5, <1>6

\* So are the folders above what is above it.
LEMMA ParentIsAbove ==
  ASSUME NEW d, NEW f \in Folders, Nearest(d, {f}) # None, Parent[f] \in Folders
  PROVE  Nearest(d, {Parent[f]}) # None
<1> DEFINE U == {e \in Folders : Nearest(e, {f}) # None /\ Nearest(e, {Parent[f]}) = None}
<1>1. SUFFICES ASSUME U # {} PROVE FALSE
  BY DEF Nearest
<1>2. PICK e \in U : Parent[e] \notin U
  BY <1>1, UpwardAssumption
<1>3. /\ Nearest(e, {f}) = IF e \in {f} THEN e ELSE Nearest(Parent[e], {f})
      /\ Nearest(e, {Parent[f]}) = IF e \in {Parent[f]} THEN e ELSE Nearest(Parent[e], {Parent[f]})
      /\ Nearest(Parent[f], {Parent[f]}) = Parent[f]
  BY NearestEquation
<1>4. None \notin Folders
  BY TreeAssumption
<1>5. Parent[e] \in Folders \/ Nearest(Parent[e], {f}) = None
  BY DEF Nearest
<1> QED
  BY <1>2, <1>3, <1>4, <1>5

LEMMA WithinFound ==
  ASSUME NEW S, NEW d, Nearest(d, S) # None
  PROVE  Within(d, Nearest(d, S))
<1>1. Nearest(d, S) \in Folders
  BY NearestType
<1>2. {Nearest(d, S)} \cap Folders = {Nearest(d, S)}
  BY <1>1
<1> QED
  BY <1>2, NearestIsAbove DEF Within

LEMMA WithinItself == \A d \in Folders \cup {Root} : Within(d, d)
<1>1. ASSUME NEW d \in Folders PROVE Within(d, d)
  <2>1. {d} \cap Folders = {d} /\ d # None
    BY TreeAssumption
  <2>2. Nearest(d, {d}) = d
    BY NearestEquation
  <2> QED
    BY <2>1, <2>2 DEF Within
<1> QED
  BY <1>1 DEF Within

LEMMA WithinParent ==
  ASSUME NEW d, NEW f \in Folders, Within(d, f)
  PROVE  Within(d, Parent[f])
<1>1. f # Root /\ {f} \cap Folders = {f}
  BY TreeAssumption
<1>2. Nearest(d, {f}) # None
  BY <1>1 DEF Within
<1>3. CASE Parent[f] = Root
  BY <1>2, <1>3 DEF Nearest, Within
<1>4. CASE Parent[f] \in Folders
  <2>1. {Parent[f]} \cap Folders = {Parent[f]}
    BY <1>4
  <2> QED
    BY <1>2, <1>4, <2>1, ParentIsAbove DEF Within
<1> QED
  BY <1>3, <1>4, ParentType

\* Nothing that is not in the tree is within a folder.
LEMMA WithinType == \A d, f : Within(d, f) => d \in Folders \cup {Root}
  BY DEF Within, Nearest

--------------------------------------------------------------------------------
(* The plugins.                                                                *)

FolderType == Folders \cup {Root, Elsewhere, None}

Gits == {f \in Folders : DotGit[f] # None}

LEMMA LeastOfTwo ==
  ASSUME NEW D \in SUBSET {1, 2}, D # {}
  PROVE  (CHOOSE i \in D : \A j \in D : i <= j) \in D
<1>1. CASE 1 \in D
  <2>1. \A j \in D : 1 <= j
    OBVIOUS
  <2> QED
    BY <1>1, <2>1
<1>2. CASE D = {2}
  BY <1>2
<1> QED
  BY <1>1, <1>2

\* What is tried is the file and the folder that the editor named.
LEMMA ArgsType ==
  ASSUME NEW h, h.folder \in FolderType, h.root \in FolderType
  PROVE  /\ DOMAIN Args(h) \subseteq {1, 2}
         /\ \A i \in DOMAIN Args(h) : {Args(h)[i].path, Args(h)[i].dir} \subseteq FolderType
         /\ h.type = "file" /\ h.root = None =>
              Args(h) = <<[path |-> h.folder, dir |-> h.folder, exists |-> h.exists]>>
<1> DEFINE x == [path |-> h.folder, dir |-> h.folder, exists |-> h.exists]
           y == [path |-> h.root, dir |-> ParentOf(h.root), exists |-> TRUE]
<1>1. {x.path, x.dir, y.path, y.dir} \subseteq FolderType
  BY ParentType DEF ParentOf, FolderType
<1> HIDE DEF x, y
<1>2. Args(h) = (IF h.type = "file" THEN <<x>> ELSE <<>>) \o (IF h.root # None THEN <<y>> ELSE <<>>)
  BY DEF Args, x, y
<1>3. /\ <<x>> \o <<>> = <<x>>
      /\ <<>> \o <<y>> = <<y>>
      /\ <<>> \o <<>> = <<>>
  OBVIOUS
<1>4. h.type = "file" /\ h.root = None => Args(h) = <<x>>
  BY <1>2, <1>3
<1>5. ASSUME Args(h) = <<x>> \o <<y>>
      PROVE  DOMAIN Args(h) \subseteq {1, 2} /\ \A i \in DOMAIN Args(h) : Args(h)[i] \in {x, y}
  <2> DEFINE s == <<x>> \o <<y>>
  <2>1. s \in Seq({x, y}) /\ Len(s) = 2 /\ s[1] = x /\ s[2] = y
    OBVIOUS
  <2> HIDE DEF s
  <2> QED
    BY <1>5, <2>1 DEF s
<1>6. ASSUME Args(h) \in {<<>>, <<x>>, <<y>>}
      PROVE  DOMAIN Args(h) \subseteq {1, 2} /\ \A i \in DOMAIN Args(h) : Args(h)[i] \in {x, y}
  BY <1>6
<1>7. Args(h) \in {<<>>, <<x>>, <<y>>, <<x>> \o <<y>>}
  BY <1>2, <1>3
<1> QED
  BY <1>1, <1>4, <1>5, <1>6, <1>7 DEF x

LEMMA FileDetectFound ==
  ASSUME NEW contents, NEW d, FileDetect(contents, d) # Nothing
  PROVE  \E f \in Folders :
           /\ contents[f] # None
           /\ Within(d, f)
           /\ FileDetect(contents, d).folder = f
           /\ FileDetect(contents, d).project = IF contents[f] = <<>> THEN f ELSE contents[f][1]
<1> DEFINE S == {g \in Folders : contents[g] # None}
           f == Nearest(d, S)
<1>1. f # None
  BY DEF FileDetect
<1>2. f \in S
  BY <1>1, NearestType
<1>3. Within(d, f)
  BY <1>1, WithinFound
<1> HIDE DEF f
<1>4. FileDetect(contents, d) =
        Found(IF contents[f] = <<>> THEN f ELSE contents[f][1],
              IF Len(contents[f]) > 1 THEN contents[f][2] ELSE None, f)
  BY <1>1 DEF FileDetect, f
<1> QED
  BY <1>2, <1>3, <1>4 DEF Found

\* What the config plugins find: where the file is, or where the path is.
LEMMA DetectFound ==
  ASSUME NEW contents, NEW map, NEW h, h.folder \in FolderType, h.root \in FolderType,
         NEW c \in Detect(contents, map, h)
  PROVE  /\ c.detector \in {"unknown", "file", "map"}
         /\ c.result.folder \in FolderType
         /\ c.detector = "file" =>
              \E f \in Folders :
                /\ contents[f] # None
                /\ c.result.folder = f
                /\ c.result.project = IF contents[f] = <<>> THEN f ELSE contents[f][1]
         /\ h.type = "file" /\ h.root = None /\ h.folder \in Folders \cup {Root} =>
              c.result.folder = None \/ Within(h.folder, c.result.folder)
<1> DEFINE results(i) == ConfigResults(contents, map, Args(h)[i])
           finds == {i \in DOMAIN Args(h) : results(i) # {}}
<1>1. CASE finds = {}
  <2>1. c = [result |-> Nothing, detector |-> "unknown"]
    BY <1>1 DEF Detect
  <2> QED
    BY <2>1 DEF Nothing, FolderType
<1>2. CASE finds # {}
  <2> DEFINE n == CHOOSE i \in finds : \A j \in finds : i <= j
  <2>1. n \in finds
    BY <1>2, ArgsType, LeastOfTwo
  <2>2. c \in results(n)
    BY <1>2 DEF Detect
  <2> DEFINE a == Args(h)[n]
  <2>3. /\ {a.path, a.dir} \subseteq FolderType
        /\ h.type = "file" /\ h.root = None => a.path = h.folder /\ a.dir = h.folder
    BY <2>1, ArgsType
  <2> HIDE DEF a, n
  <2>4. CASE FileDetect(contents, a.path) # Nothing
    <3>1. c = [result |-> FileDetect(contents, a.path), detector |-> "file"]
      BY <2>2, <2>4 DEF ConfigResults, a
    <3> QED
      BY <2>3, <2>4, <3>1, FileDetectFound DEF FolderType
  <2>5. CASE FileDetect(contents, a.path) = Nothing
    <3>1. PICK m \in map[a.path] : c = [result |-> Found(m, None, a.dir), detector |-> "map"]
      BY <2>2, <2>5 DEF ConfigResults, a
    <3> QED
      BY <2>3, <3>1, WithinItself DEF Found
  <2> QED
    BY <2>4, <2>5
<1> QED
  BY <1>1, <1>2

\* Project files that were there stay, others may have been created, with a name or empty.
Written(early, late, name) ==
  \A f \in Folders : late[f] = early[f] \/ (early[f] = None /\ late[f] \in {<<>>, <<name>>})

\* What File finds in the later files, if it has no name, or nothing, it has found in the
\* earlier ones.
LEMMA FileDetectEarly ==
  ASSUME NEW early, NEW late, NEW name, name # None, Written(early, late, name), NEW d,
         FileDetect(late, d) = Nothing \/ FileDetect(late, d).project = None
  PROVE  FileDetect(early, d) = FileDetect(late, d)
<1> DEFINE S == {g \in Folders : early[g] # None}
           T == {g \in Folders : late[g] # None}
<1>1. S \subseteq T /\ T \subseteq Folders
  BY DEF Written
<1>2. CASE Nearest(d, T) = None
  <2>1. Nearest(d, S) = None
    BY <1>1, <1>2, NearestSame
  <2> QED
    BY <1>2, <2>1 DEF FileDetect
<1>3. CASE Nearest(d, T) # None
  <2> DEFINE f == Nearest(d, T)
  <2>1. f \in T /\ f # None
    BY <1>3, NearestType
  <2>2. FileDetect(late, d) =
          Found(IF late[f] = <<>> THEN f ELSE late[f][1],
                IF Len(late[f]) > 1 THEN late[f][2] ELSE None, f)
    BY <1>3 DEF FileDetect
  <2>3. f \in S => Nearest(d, S) = f
    BY <1>1, NearestSame
  <2> HIDE DEF f
  <2>4. FileDetect(late, d) # Nothing
    BY <2>1, <2>2 DEF Found, Nothing
  <2>5. late[f] # <<>> /\ late[f][1] = None
    BY <2>1, <2>2, <2>4 DEF Found
  <2>6. <<name>>[1] # None
    OBVIOUS
  <2>7. early[f] = late[f] /\ f \in S
    BY <2>1, <2>5, <2>6 DEF Written
  <2>8. Nearest(d, S) = f /\ f # None
    BY <2>1, <2>3, <2>7
  <2>9. FileDetect(early, d) =
          Found(IF early[f] = <<>> THEN f ELSE early[f][1],
                IF Len(early[f]) > 1 THEN early[f][2] ELSE None, f)
    BY <2>8 DEF FileDetect
  <2> QED
    BY <2>2, <2>7, <2>9
<1> QED
  BY <1>2, <1>3

\* So do the config plugins: a heartbeat without a name, or with one that is not from a
\* project file, owes nothing to the files created since.
LEMMA DetectEarly ==
  ASSUME NEW early, NEW late, NEW name, name # None, Written(early, late, name),
         NEW map, NEW h, h.folder \in FolderType, h.root \in FolderType,
         NEW c \in Detect(late, map, h), c.detector # "file" \/ c.result.project = None
  PROVE  c \in Detect(early, map, h)
<1> DEFINE R(i) == ConfigResults(late, map, Args(h)[i])
           E(i) == ConfigResults(early, map, Args(h)[i])
           F == {i \in DOMAIN Args(h) : R(i) # {}}
           G == {i \in DOMAIN Args(h) : E(i) # {}}
<1>1. \A i : FileDetect(late, Args(h)[i].path) = Nothing => E(i) = R(i)
  BY FileDetectEarly DEF ConfigResults
<1>2. \A i : R(i) = {} => FileDetect(late, Args(h)[i].path) = Nothing
  BY DEF ConfigResults
<1>3. G \subseteq F
  BY <1>1, <1>2
<1>4. CASE F = {}
  <2>1. G = {}
    BY <1>3, <1>4
  <2> QED
    BY <1>4, <2>1 DEF Detect
<1>5. CASE F # {}
  <2> DEFINE n == CHOOSE i \in F : \A j \in F : i <= j
  <2>1. F \subseteq {1, 2} /\ n \in F /\ \A j \in F : n <= j
    <3>1. F \subseteq {1, 2}
      BY ArgsType
    <3>2. \E i \in F : \A j \in F : i <= j
      <4>1. CASE 1 \in F
        BY <3>1, <4>1
      <4>2. CASE 1 \notin F
        BY <1>5, <3>1, <4>2
      <4> QED
        BY <4>1, <4>2
    <3> QED
      BY <3>1, <3>2
  <2>2. c \in R(n)
    BY <1>5 DEF Detect
  <2> DEFINE a == Args(h)[n]
  <2> HIDE DEF n
  <2>3. E(n) = R(n)
    <3>1. CASE FileDetect(late, a.path) = Nothing
      BY <1>1, <3>1
    <3>2. CASE FileDetect(late, a.path) # Nothing
      <4>1. c = [result |-> FileDetect(late, a.path), detector |-> "file"]
        BY <2>2, <3>2 DEF ConfigResults
      <4>2. FileDetect(early, a.path) = FileDetect(late, a.path)
        BY <4>1, FileDetectEarly
      <4> QED
        BY <4>2 DEF ConfigResults
    <3> QED
      BY <3>1, <3>2
  <2>4. n \in G
    BY <2>1, <2>2, <2>3
  <2>5. (CHOOSE i \in G : \A j \in G : i <= j) = n
    <3>1. \A j \in G : n <= j
      BY <1>3, <2>1
    <3>2. \A i \in G : (\A j \in G : i <= j) => i = n
      BY <1>3, <2>1, <2>4, <3>1
    <3> QED
      BY <2>4, <3>1, <3>2
  <2>6. Detect(early, map, h) = E(n)
    BY <2>4, <2>5 DEF Detect
  <2> QED
    BY <2>2, <2>3, <2>6
<1> QED
  BY <1>4, <1>5

LEMMA FirstFoundType ==
  ASSUME NEW a, NEW b, NEW c, NEW d
  PROVE  FirstFound(<<a, b, c, d>>) \in {a, b, c, d, Nothing}
<1> DEFINE s == <<a, b, c, d>>
           First(i) == s[i].folder # None /\ \A j \in 1 .. i - 1 : s[j].folder = None
<1>1. DOMAIN s = 1 .. 4 /\ \A i \in 1 .. 4 : s[i] \in {a, b, c, d}
  OBVIOUS
<1> HIDE DEF s
<1>2. CASE \E i \in DOMAIN s : s[i].folder # None
  <2>1. \E i \in DOMAIN s : First(i)
    <3>1. CASE s[1].folder # None
      BY <1>1, <3>1
    <3>2. CASE s[1].folder = None /\ s[2].folder # None
      BY <1>1, <3>2
    <3>3. CASE s[1].folder = None /\ s[2].folder = None /\ s[3].folder # None
      <4>1. \A j \in 1 .. 3 - 1 : j \in {1, 2}
        OBVIOUS
      <4> QED
        BY <1>1, <3>3, <4>1
    <3>4. CASE \A j \in 1 .. 3 : s[j].folder = None
      <4>1. s[4].folder # None
        BY <1>1, <1>2, <3>4
      <4> QED
        BY <1>1, <3>4, <4>1
    <3> QED
      BY <3>1, <3>2, <3>3, <3>4
  <2> DEFINE n == CHOOSE i \in DOMAIN s : First(i)
  <2>2. n \in DOMAIN s
    BY <2>1
  <2>3. FirstFound(s) = s[n]
    BY <1>2 DEF FirstFound
  <2> QED
    BY <1>1, <2>2, <2>3 DEF s
<1>3. CASE ~ \E i \in DOMAIN s : s[i].folder # None
  BY <1>3 DEF FirstFound, s
<1> QED
  BY <1>2, <1>3

\* Git finds the repository around, unless the nearest .git is a link.
LEMMA GitFound ==
  ASSUME NEW d, NEW options, NEW r \in GitDetect(d, options)
  PROVE  /\ r.folder \in FolderType
         /\ Linked(Nearest(d, Gits)) = None => r.folder = None \/ Within(d, r.folder)
<1> DEFINE submodule == Submodule(d, options.submodulesDisabled)
           top == Nearest(d, Gits)
           link == Linked(top)
           S == {f \in Folders : DotGit[f] # None /\ Linked(f) = None}
           around == Nearest(d, S)
<1>1. top \in Gits \cup {None}
  BY NearestType
<1>2. link \in Folders \cup {None}
  BY <1>1, TreeAssumption DEF Linked, Gits
<1>3. submodule \in Folders \cup {None} /\ (submodule # None => submodule = link)
  BY <1>2 DEF Submodule, Gits
<1>4. CASE submodule # None
  <2>1. r.folder = Parent[submodule]
    BY <1>4 DEF GitDetect, Found
  <2> QED
    BY <1>3, <1>4, <2>1, ParentType DEF FolderType
<1>5. CASE submodule = None /\ InWorktrees(link)
  <2>1. top # None
    BY <1>5 DEF Linked, InWorktrees
  <2>3. r.folder = WorktreeFolder(link)
    BY <1>5, <2>1 DEF GitDetect, Found, Gits
  <2>2. link \in Folders /\ CommonDir[link] \in Folders
    BY <1>2, <1>5, TreeAssumption DEF InWorktrees
  <2> QED
    BY <1>5, <2>2, <2>3, ParentType DEF WorktreeFolder, InWorktrees, FolderType
<1>6. CASE submodule = None /\ ~ InWorktrees(link) /\ link \notin InModules \cup {None}
  <2>1. r.folder \in {None, Parent[link]}
    BY <1>6 DEF GitDetect, Found, Nothing, Gits
  <2> QED
    BY <1>2, <1>6, <2>1, ParentType DEF FolderType
<1>7. CASE submodule = None /\ ~ InWorktrees(link) /\ link \in InModules \cup {None}
  <2>1. r.folder \in {None, around}
    BY <1>7 DEF GitDetect, Found, Nothing, Gits
  <2>2. around \in Folders \cup {None} /\ (around # None => Within(d, around))
    BY NearestType, WithinFound
  <2> QED
    BY <2>1, <2>2 DEF FolderType
<1> QED
  BY <1>4, <1>5, <1>6, <1>7

\* The others find a folder above: Subversion gives its URL for it.
LEMMA OthersFound ==
  ASSUME NEW d, NEW r \in {MercurialDetect(d), SubversionDetect(d), TfvcDetect(d)}
  PROVE  /\ r.folder \in FolderType
         /\ Nearest(d, Subversions) = None => r.folder = None \/ Within(d, r.folder)
<1>1. ASSUME NEW S, Nearest(d, S) # None
      PROVE  Parent[Nearest(d, S)] \in FolderType /\ Within(d, Parent[Nearest(d, S)])
  <2>1. Nearest(d, S) \in Folders /\ Within(d, Nearest(d, S))
    BY <1>1, NearestType, WithinFound
  <2> QED
    BY <2>1, ParentType, WithinParent DEF FolderType
<1>2. CASE r = MercurialDetect(d)
  BY <1>1, <1>2 DEF MercurialDetect, Found, Nothing, FolderType
<1>3. CASE r = TfvcDetect(d)
  BY <1>1, <1>3 DEF TfvcDetect, Found, Nothing, FolderType
<1>4. CASE r = SubversionDetect(d)
  BY <1>4 DEF SubversionDetect, Found, Nothing, FolderType
<1> QED
  BY <1>2, <1>3, <1>4

\* What revision control finds for a local file is above it, but for links and URLs.
LEMMA RevControlFound ==
  ASSUME NEW h, h.folder \in FolderType, h.root \in FolderType, NEW options,
         NEW r \in DetectWithRevControl(h, options)
  PROVE  /\ r.folder \in FolderType
         /\ /\ h.type = "file" /\ h.root = None
            /\ Linked(Nearest(h.folder, Gits)) = None
            /\ Nearest(h.folder, Subversions) = None
            => r.folder = None \/ Within(h.folder, r.folder)
<1> DEFINE results(i) == RevControlResults(Args(h)[i], options)
           finds == {i \in DOMAIN Args(h) : Nothing \notin results(i)}
<1>1. CASE finds = {}
  <2>1. r = Nothing
    BY <1>1 DEF DetectWithRevControl
  <2> QED
    BY <2>1 DEF Nothing, FolderType
<1>2. CASE finds # {}
  <2> DEFINE n == CHOOSE i \in finds : \A j \in finds : i <= j
  <2>1. n \in finds
    BY <1>2, ArgsType, LeastOfTwo
  <2>2. r \in results(n)
    BY <1>2 DEF DetectWithRevControl
  <2> DEFINE a == Args(h)[n]
             d == IF a.exists THEN a.dir ELSE Elsewhere
  <2>3. h.type = "file" /\ h.root = None => a.dir = h.folder
    BY <2>1, ArgsType
  <2> HIDE DEF a, n
  <2>4. PICK g \in GitDetect(a.dir, options) :
          r = FirstFound(<<g, MercurialDetect(d), SubversionDetect(d), TfvcDetect(d)>>)
    BY <2>2 DEF RevControlResults, a
  <2>5. r \in {g, MercurialDetect(d), SubversionDetect(d), TfvcDetect(d), Nothing}
    BY <2>4, FirstFoundType
  <2>6. CASE r = Nothing
    BY <2>6 DEF Nothing, FolderType
  <2>7. CASE r = g
    BY <2>3, <2>7, GitFound
  <2>8. CASE r \in {MercurialDetect(d), SubversionDetect(d), TfvcDetect(d)}
    <3>1. CASE a.exists
      BY <2>3, <2>8, <3>1, OthersFound
    <3>2. CASE ~ a.exists
      <4>1. Nearest(d, Subversions) = None /\ ~ Within(d, r.folder)
        BY <3>2, TreeAssumption, WithinType DEF Nearest
      <4> QED
        BY <2>8, <4>1, OthersFound
    <3> QED
      BY <3>1, <3>2
  <2> QED
    BY <2>5, <2>6, <2>7, <2>8
<1> QED
  BY <1>1, <1>2
================================================================================
