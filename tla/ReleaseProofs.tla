---------------------------- MODULE ReleaseProofs ----------------------------
(***************************************************************************)
(* Proofs about Suite and Release for every set of files, of contents, and *)
(* any number of changes, builds and crashes.                              *)
(***************************************************************************)
EXTENDS Release, SequenceTheorems, FiniteSetTheorems, TLAPS

USE FilesAssumption, ContentsAssumption

Results == [path : Files, conformant : BOOLEAN]

(***************************************************************************)
(* The suite.  Every file that was there all along is on the list; a       *)
(* result is true of its file unless that was changed; and the exit code   *)
(* is that of the results.                                                 *)
(***************************************************************************)
ListInv ==
    /\ paths \in Seq(Files) /\ results \in Seq(Results)
    /\ command \in Commands
    /\ changed \subseteq Files
    /\ status = "starting" => results = <<>>
    /\ status # "starting" =>
         /\ command = "suite" => \A f \in Present \ changed : \E i \in DOMAIN paths : paths[i] = f
         /\ command # "suite" => Len(paths) = 1

ResultsInv ==
    /\ \A i \in DOMAIN results :
         paths[i] \in changed \/ (results[i].conformant <=> directory[paths[i]] \in Takes(command))
    /\ status \in Exits => Len(results) = Len(paths)
    /\ status = "exit 0" => \A i \in DOMAIN results : results[i].conformant
    /\ status = "exit 1" => \E i \in DOMAIN results : ~results[i].conformant

SuiteInv == TypeOK /\ ListInv /\ ResultsInv

LEMMA ListingsAreSequences ==
    ASSUME NEW names \in SUBSET Files, NEW s \in Listings(names)
    PROVE  s \in Seq(Files) /\ \A f \in names : \E i \in DOMAIN s : s[i] = f
<1>1. Cardinality(names) \in Nat
  BY FS_Subset, FS_CardinalityType
<1>2. PICK n \in 0 .. Cardinality(names) : s \in [1 .. n -> names]
  BY DEF Listings
<1>3. n \in Nat /\ s \in [1 .. n -> Files]
  <2>1. n \in Nat
    BY <1>1, <1>2
  <2>2. names \subseteq Files
    OBVIOUS
  <2> QED BY <1>2, <2>1, <2>2
<1>4. s \in Seq(Files)
  BY <1>3, SeqDef
<1> QED BY <1>4 DEF Listings

LEMMA SuiteInit == Init => SuiteInv
<1> SUFFICES ASSUME Init PROVE SuiteInv
  OBVIOUS
<1>1. TypeOK
  BY DEF Init, TypeOK
<1>2. ListInv /\ ResultsInv
  BY DEF Init, ListInv, ResultsInv, Exits
<1> QED BY <1>1, <1>2 DEF SuiteInv

LEMMA ListStep == SuiteInv /\ List => SuiteInv'
<1> SUFFICES ASSUME SuiteInv, List PROVE SuiteInv'
  OBVIOUS
<1>1. /\ status = "starting" /\ status' = "running" /\ results' = <<>> /\ results = <<>>
      /\ directory' = directory /\ command' = command /\ changed' = changed
  BY DEF List, SuiteInv, ListInv
<1>2. /\ paths' \in Seq(Files)
      /\ command = "suite" => \A f \in Present : \E i \in DOMAIN paths' : paths'[i] = f
      /\ command # "suite" => Len(paths') = 1
  <2>1. CASE command = "suite"
    <3>1. paths' \in Listings(Present) /\ Present \in SUBSET Files
      BY <2>1 DEF List, Present
    <3> QED BY <2>1, <3>1, ListingsAreSequences
  <2>2. CASE command # "suite"
    <3>1. PICK f \in Files : paths' = <<f>>
      BY <2>2 DEF List
    <3> QED BY <2>2, <3>1
  <2> QED BY <2>1, <2>2
<1>3. TypeOK'
  BY <1>1, <1>2 DEF SuiteInv, TypeOK
<1>4. ListInv'
  BY <1>1, <1>2 DEF SuiteInv, ListInv, Present
<1>5. ResultsInv'
  BY <1>1 DEF ResultsInv, Exits
<1> QED BY <1>3, <1>4, <1>5 DEF SuiteInv

LEMMA CheckStep == SuiteInv /\ Check => SuiteInv'
<1> SUFFICES ASSUME SuiteInv, Check PROVE SuiteInv'
  OBVIOUS
<1> DEFINE n == Len(results)
           r == [path |-> NextPath, conformant |-> directory[NextPath] \in Takes(command)]
<1>1. /\ status = "running" /\ n < Len(paths) /\ results' = Append(results, r)
      /\ directory' = directory /\ command' = command /\ changed' = changed
      /\ paths' = paths /\ status' = status
  BY DEF Check
<1>2. paths \in Seq(Files) /\ results \in Seq(Results) /\ n \in Nat
  BY DEF SuiteInv, ListInv
<1>3. NextPath \in Files /\ NextPath = paths[n + 1] /\ r \in Results
  BY <1>1, <1>2 DEF NextPath, Results
<1>4. r.path = paths[n + 1] /\ (r.conformant <=> directory[paths[n + 1]] \in Takes(command))
  BY <1>3
<1> HIDE DEF r
<1>5. /\ results' \in Seq(Results) /\ Len(results') = n + 1 /\ DOMAIN results' = 1 .. n + 1
      /\ results'[n + 1] = r /\ \A i \in 1 .. n : results'[i] = results[i]
  BY <1>1, <1>2, <1>3
<1>6. DOMAIN results = 1 .. n
  BY <1>2
<1>7. TypeOK'
  BY <1>1, <1>2, <1>4, <1>5, <1>6 DEF SuiteInv, TypeOK
<1>8. ListInv'
  BY <1>1, <1>5 DEF SuiteInv, ListInv, Present
<1>9. ResultsInv'
  BY <1>1, <1>2, <1>4, <1>5, <1>6 DEF SuiteInv, ResultsInv, Exits
<1> QED BY <1>7, <1>8, <1>9 DEF SuiteInv

LEMMA ReportStep == SuiteInv /\ Report => SuiteInv'
<1> SUFFICES ASSUME SuiteInv, Report PROVE SuiteInv'
  OBVIOUS
<1>1. /\ status = "running" /\ Len(results) = Len(paths) /\ status' = ExitCode(results)
      /\ UNCHANGED <<directory, command, paths, results, changed, changes>>
  BY DEF Report
<1>2. status' \in Exits
  BY <1>1 DEF ExitCode, Exits
<1>3. TypeOK'
  BY <1>1, <1>2 DEF SuiteInv, TypeOK
<1>4. ListInv'
  BY <1>1, <1>2 DEF SuiteInv, ListInv, Present, Exits
<1>5. ResultsInv'
  BY <1>1 DEF SuiteInv, ResultsInv, ExitCode
<1> QED BY <1>3, <1>4, <1>5 DEF SuiteInv

LEMMA ChangeStep ==
    ASSUME SuiteInv, NEW f \in Files, NEW content \in Contents \cup {Missing}, Change(f, content)
    PROVE  SuiteInv'
<1>1. /\ directory' = [directory EXCEPT ![f] = content] /\ changed' = changed \cup {f}
      /\ command' = command /\ paths' = paths /\ results' = results /\ status' = status
  BY DEF Change
<1>2. directory \in [Files -> Contents \cup {Missing}]
  BY DEF SuiteInv, TypeOK
<1>3. \A g \in Files \ {f} : directory'[g] = directory[g]
  BY <1>1, <1>2
<1>4. Present' \ changed' \subseteq Present \ changed
  BY <1>1, <1>3 DEF Present
<1>5. TypeOK'
  BY <1>1, <1>2 DEF SuiteInv, TypeOK
<1>6. ListInv'
  BY <1>1, <1>4 DEF SuiteInv, ListInv
<1>7. ResultsInv'
  <2>1. \A i \in DOMAIN results : paths[i] \in Files
    BY DEF SuiteInv, ListInv, TypeOK
  <2> QED BY <1>1, <1>3, <2>1 DEF SuiteInv, ResultsInv
<1> QED BY <1>5, <1>6, <1>7 DEF SuiteInv

LEMMA SuiteKept == SuiteInv /\ UNCHANGED vars => SuiteInv'
BY DEF vars, SuiteInv, TypeOK, ListInv, ResultsInv, Present

LEMMA SuiteStep == SuiteInv /\ [ReleaseNext]_allVars => SuiteInv'
<1> SUFFICES ASSUME SuiteInv, [ReleaseNext]_allVars PROVE SuiteInv'
  OBVIOUS
<1>1. CASE List
  BY <1>1, ListStep
<1>2. CASE Check
  BY <1>2, CheckStep
<1>3. CASE Crash
  BY <1>3 DEF Crash, SuiteInv, TypeOK, ListInv, ResultsInv, Present, Exits
<1>4. CASE Report
  BY <1>4, ReportStep
<1>5. ASSUME NEW f \in Files, NEW content \in Contents \cup {Missing}, Change(f, content)
      PROVE  SuiteInv'
  BY <1>5, ChangeStep
<1>6. CASE Build
  BY <1>6, SuiteKept DEF Build, Start, CopyFails, WriteCatalog, WriteManifest, OpenArchive,
     CloseArchive, WriteSidecar, Killed, Copy, Pack
<1>7. CASE UNCHANGED allVars
  BY <1>7, SuiteKept DEF allVars
<1> QED BY <1>1, <1>2, <1>3, <1>4, <1>5, <1>6, <1>7 DEF ReleaseNext, Next

LEMMA VerdictFollows == SuiteInv => VerdictTruthful
<1> SUFFICES ASSUME SuiteInv PROVE VerdictTruthful
  OBVIOUS
<1>1. paths \in Seq(Files) /\ results \in Seq(Results)
  BY DEF SuiteInv, ListInv
<1>2. ASSUME status = "exit 0"
      PROVE  \A i \in DOMAIN paths : paths[i] \in changed \/ directory[paths[i]] \in Takes(command)
  <2>1. Len(results) = Len(paths)
    BY <1>2 DEF SuiteInv, ResultsInv, Exits
  <2>2. DOMAIN results = DOMAIN paths
    BY <1>1, <2>1
  <2> QED BY <1>2, <2>2 DEF SuiteInv, ResultsInv
<1>3. ASSUME status = "exit 0", command = "suite", NEW f \in Present \ changed
      PROVE  directory[f] \in Takes(command)
  BY <1>2, <1>3 DEF SuiteInv, ListInv
<1>4. ASSUME status = "exit 0", command # "suite"
      PROVE  paths[1] \in changed \/ directory[paths[1]] \in Takes(command)
  <2>1. 1 \in DOMAIN paths
    <3>1. Len(paths) = 1
      BY <1>4 DEF SuiteInv, ListInv
    <3> QED BY <1>1, <3>1
  <2> QED BY <1>2, <1>4, <2>1
<1>5. ASSUME status = "exit 1"
      PROVE  \E i \in DOMAIN paths : paths[i] \in changed \/ directory[paths[i]] \notin Takes(command)
  <2>1. PICK i \in DOMAIN results : ~results[i].conformant
    BY <1>5 DEF SuiteInv, ResultsInv
  <2>2. i \in DOMAIN paths
    <3>1. Len(results) = Len(paths)
      BY <1>5 DEF SuiteInv, ResultsInv, Exits
    <3> QED BY <1>1, <2>1, <3>1
  <2> QED BY <2>1, <2>2 DEF SuiteInv, ResultsInv
<1> QED BY <1>3, <1>4, <1>5 DEF VerdictTruthful
-----------------------------------------------------------------------------
(***************************************************************************)
(* The build.  What it has written so far is of its stage, a checksum is   *)
(* of a whole archive, and the files that did not change are on the stage, *)
(* and in an archive that is whole, as they are in the directory.          *)
(***************************************************************************)
Copies == [Files -> Contents \cup {Missing}]
Archives == [packed : Copies, catalog : SUBSET Files,
             manifest : [Files -> {NoDigest} \cup {Digest(c) : c \in Contents \cup {Missing}}],
             whole : BOOLEAN]

Complete(a) ==
    /\ a.whole
    /\ a.catalog = Names(a.packed)
    /\ \A f \in Files : a.manifest[f] =
         IF a.packed[f] = Missing THEN NoDigest ELSE Digest(a.packed[f])

BuildTypes ==
    /\ build \in {"none", "copying", "cataloged", "listed", "packing", "packed", "done", "failed"}
    /\ todo \subseteq Files /\ stage \in Copies
    /\ catalog \subseteq Files
    /\ manifest \in [Files -> {NoDigest} \cup {Digest(c) : c \in Contents \cup {Missing}}]
    /\ archive \in Archives

Written ==
    /\ build \in {"cataloged", "listed", "packing", "packed"} => todo = {} /\ catalog = Names(stage)
    /\ build \in {"listed", "packing", "packed"} => manifest = Digests
    /\ build = "packing" => \A f \in Files : archive.packed[f] \in {Missing, stage[f]}
    /\ build = "packed" => Complete(archive)
    /\ build = "done" => sidecar = Digest(archive)
    /\ sidecar = NoDigest \/ \E a \in Archives : Complete(a) /\ sidecar = Digest(a)

Faithful ==
    /\ build \notin {"none", "failed"} =>
         \A f \in Files \ (changed \cup todo) : stage[f] = directory[f]
    /\ archive.whole => \A f \in Files \ changed : archive.packed[f] = directory[f]

ReleaseInv == SuiteInv /\ BuildTypes /\ Written /\ Faithful

LEMMA BuildInit == ReleaseInit => ReleaseInv
<1> SUFFICES ASSUME ReleaseInit PROVE ReleaseInv
  OBVIOUS
<1>1. SuiteInv
  BY SuiteInit DEF ReleaseInit
<1>2. Nothing \in Copies /\ NoDigests \in [Files -> {NoDigest} \cup {Digest(c) : c \in Contents \cup {Missing}}]
  BY DEF Nothing, Copies, NoDigests
<1>3. Opened \in Archives /\ ~Opened.whole
  BY <1>2 DEF Opened, Archives
<1>4. BuildTypes
  BY <1>2, <1>3 DEF ReleaseInit, BuildTypes
<1>5. Written /\ Faithful
  BY <1>3 DEF ReleaseInit, Written, Faithful
<1> QED BY <1>1, <1>4, <1>5 DEF ReleaseInv

(* The files may change, but not what was copied of them.                  *)
LEMMA SourcesMove ==
    ASSUME ReleaseInv, SuiteInv', Next, UNCHANGED releaseVars
    PROVE  ReleaseInv'
<1>1. /\ build' = build /\ todo' = todo /\ stage' = stage /\ catalog' = catalog
      /\ manifest' = manifest /\ archive' = archive /\ sidecar' = sidecar
  BY DEF releaseVars
<1>2. changed \subseteq changed' /\ \A f \in Files \ changed' : directory'[f] = directory[f]
  <2>1. CASE List \/ Check \/ Crash \/ Report
    BY <2>1 DEF List, Check, Crash, Report
  <2>2. ASSUME NEW f \in Files, NEW content \in Contents \cup {Missing}, Change(f, content)
        PROVE  /\ changed \subseteq changed'
               /\ \A g \in Files \ changed' : directory'[g] = directory[g]
    BY <2>2 DEF Change, ReleaseInv, SuiteInv, TypeOK
  <2> QED BY <2>1, <2>2 DEF Next
<1>3. BuildTypes'
  BY <1>1 DEF ReleaseInv, BuildTypes
<1>4. Written'
  BY <1>1 DEF ReleaseInv, Written, Digests, Names, Complete
<1>5. Faithful'
  BY <1>1, <1>2 DEF ReleaseInv, Faithful
<1> QED BY <1>3, <1>4, <1>5 DEF ReleaseInv

LEMMA CopyStep ==
    ASSUME ReleaseInv, SuiteInv', NEW f \in Files, Copy(f)
    PROVE  ReleaseInv'
<1>1. /\ build = "copying" /\ f \in todo /\ todo' = todo \ {f}
      /\ stage' = [stage EXCEPT ![f] = directory[f]]
      /\ build' = build /\ catalog' = catalog /\ manifest' = manifest /\ archive' = archive
      /\ sidecar' = sidecar /\ directory' = directory /\ changed' = changed
  BY DEF Copy, vars
<1>2. stage \in Copies /\ directory \in Copies
  BY DEF ReleaseInv, BuildTypes, SuiteInv, TypeOK, Copies
<1>3. stage' \in Copies /\ stage'[f] = directory[f] /\ \A g \in Files \ {f} : stage'[g] = stage[g]
  BY <1>1, <1>2 DEF Copies
<1>4. BuildTypes'
  BY <1>1, <1>3 DEF ReleaseInv, BuildTypes
<1>5. Written'
  BY <1>1 DEF ReleaseInv, Written
<1>6. Faithful'
  BY <1>1, <1>3 DEF ReleaseInv, Faithful
<1> QED BY <1>4, <1>5, <1>6 DEF ReleaseInv

LEMMA PackStep ==
    ASSUME ReleaseInv, SuiteInv', NEW f \in Files, Pack(f)
    PROVE  ReleaseInv'
<1>1. /\ build = "packing" /\ archive' = [archive EXCEPT !.packed[f] = stage[f]]
      /\ build' = build /\ todo' = todo /\ stage' = stage /\ catalog' = catalog
      /\ manifest' = manifest /\ sidecar' = sidecar /\ directory' = directory /\ changed' = changed
  BY DEF Pack, vars
<1>2. archive \in Archives /\ stage \in Copies /\ archive.packed \in Copies
  BY DEF ReleaseInv, BuildTypes, Archives
<1>3. /\ archive' \in Archives /\ archive'.packed[f] = stage[f] /\ archive'.whole = archive.whole
      /\ \A g \in Files \ {f} : archive'.packed[g] = archive.packed[g]
  BY <1>1, <1>2 DEF Archives, Copies
<1>4. BuildTypes'
  BY <1>1, <1>3 DEF ReleaseInv, BuildTypes
<1>5. Written'
  BY <1>1, <1>3 DEF ReleaseInv, Written, Digests, Names
<1>6. Faithful'
  BY <1>1, <1>3 DEF ReleaseInv, Faithful, Written
<1> QED BY <1>4, <1>5, <1>6 DEF ReleaseInv

LEMMA CloseStep == ReleaseInv /\ SuiteInv' /\ CloseArchive => ReleaseInv'
<1> SUFFICES ASSUME ReleaseInv, SuiteInv', CloseArchive PROVE ReleaseInv'
  OBVIOUS
<1>1. /\ build = "packing" /\ build' = "packed" /\ Names(archive.packed) = Names(stage)
      /\ archive' = [archive EXCEPT !.catalog = catalog, !.manifest = manifest, !.whole = TRUE]
      /\ todo' = todo /\ stage' = stage /\ catalog' = catalog /\ manifest' = manifest
      /\ sidecar' = sidecar /\ directory' = directory /\ changed' = changed
  BY DEF CloseArchive, vars
<1>2. archive \in Archives /\ stage \in Copies /\ archive.packed \in Copies
  BY DEF ReleaseInv, BuildTypes, Archives
<1>3. todo = {} /\ catalog = Names(stage) /\ manifest = Digests
  BY <1>1 DEF ReleaseInv, Written
<1>4. \A f \in Files : archive.packed[f] = stage[f]
  <2>1. \A f \in Files : archive.packed[f] \in {Missing, stage[f]}
    BY <1>1 DEF ReleaseInv, Written
  <2>2. \A f \in Files : archive.packed[f] # Missing <=> stage[f] # Missing
    BY <1>1 DEF Names
  <2> QED BY <2>1, <2>2
<1>5. /\ archive' \in Archives /\ archive'.packed = archive.packed /\ archive'.whole
      /\ archive'.catalog = catalog /\ archive'.manifest = manifest
  <2>1. catalog \subseteq Files
        /\ manifest \in [Files -> {NoDigest} \cup {Digest(c) : c \in Contents \cup {Missing}}]
    BY DEF ReleaseInv, BuildTypes
  <2> QED BY <1>1, <1>2, <2>1 DEF Archives
<1>6. Complete(archive')
  <2>1. Names(archive'.packed) = Names(stage)
    BY <1>1, <1>5
  <2>2. \A f \in Files : manifest[f] = IF stage[f] = Missing THEN NoDigest ELSE Digest(stage[f])
    BY <1>3 DEF Digests
  <2> QED BY <1>3, <1>4, <1>5, <2>1, <2>2 DEF Complete
<1>7. BuildTypes'
  BY <1>1, <1>5 DEF ReleaseInv, BuildTypes
<1>8. Written'
  <2>1. Complete(archive)'
    BY <1>6 DEF Complete, Names
  <2>2. catalog' = Names(stage)' /\ manifest' = Digests' /\ todo' = {}
    BY <1>1, <1>3 DEF Names, Digests
  <2>3. (sidecar = NoDigest \/ \E a \in Archives : Complete(a) /\ sidecar = Digest(a))'
    BY <1>1 DEF ReleaseInv, Written
  <2> QED BY <1>1, <2>1, <2>2, <2>3 DEF Written
<1>9. Faithful'
  BY <1>1, <1>3, <1>4, <1>5 DEF ReleaseInv, Faithful
<1> QED BY <1>7, <1>8, <1>9 DEF ReleaseInv

LEMMA OtherSteps ==
    ASSUME ReleaseInv, SuiteInv',
           Start \/ CopyFails \/ WriteCatalog \/ WriteManifest \/ OpenArchive \/ WriteSidecar \/ Killed
    PROVE  ReleaseInv'
<1>1. directory' = directory /\ changed' = changed
  BY DEF Start, CopyFails, WriteCatalog, WriteManifest, OpenArchive, WriteSidecar, Killed, vars
<1>2. BuildTypes'
  <2>1. Present \subseteq Files /\ Nothing \in Copies /\ Names(stage) \subseteq Files
    BY DEF Present, Nothing, Names, Copies
  <2>2. Opened \in Archives
    BY <2>1 DEF Opened, Archives, NoDigests
  <2>3. Digests \in [Files -> {NoDigest} \cup {Digest(c) : c \in Contents \cup {Missing}}]
    BY DEF Digests, ReleaseInv, BuildTypes, Copies
  <2>4. CASE Start
    BY <2>1, <2>4 DEF Start, ReleaseInv, BuildTypes
  <2>5. CASE CopyFails \/ WriteSidecar \/ Killed
    BY <2>5 DEF CopyFails, WriteSidecar, Killed, ReleaseInv, BuildTypes
  <2>6. CASE WriteCatalog
    BY <2>1, <2>6 DEF WriteCatalog, ReleaseInv, BuildTypes
  <2>7. CASE WriteManifest
    BY <2>3, <2>7 DEF WriteManifest, ReleaseInv, BuildTypes
  <2>8. CASE OpenArchive
    BY <2>2, <2>8 DEF OpenArchive, ReleaseInv, BuildTypes
  <2> QED BY <2>4, <2>5, <2>6, <2>7, <2>8
<1>3. Written'
  <2>1. CASE Start
    BY <2>1 DEF Start, ReleaseInv, Written
  <2>2. CASE CopyFails \/ Killed
    BY <2>2 DEF CopyFails, Killed, ReleaseInv, Written
  <2>3. CASE WriteCatalog
    BY <2>3 DEF WriteCatalog, Copied, ReleaseInv, Written, Names
  <2>4. CASE WriteManifest
    BY <2>4 DEF WriteManifest, ReleaseInv, Written, Names, Digests
  <2>5. CASE OpenArchive
    <3>1. \A f \in Files : Opened.packed[f] = Missing
      BY DEF Opened, Nothing
    <3> QED BY <2>5, <3>1 DEF OpenArchive, ReleaseInv, Written, Names, Digests
  <2>6. CASE WriteSidecar
    <3>1. archive \in Archives /\ Complete(archive)
      BY <2>6 DEF WriteSidecar, ReleaseInv, BuildTypes, Written
    <3> QED BY <2>6, <3>1 DEF WriteSidecar, Written
  <2> QED BY <2>1, <2>2, <2>3, <2>4, <2>5, <2>6
<1>4. Faithful'
  <2>1. CASE Start
    <3>1. \A f \in Files \ Present : Nothing[f] = directory[f]
      BY DEF Nothing, Present
    <3> QED BY <1>1, <2>1, <3>1 DEF Start, ReleaseInv, Faithful
  <2>2. CASE OpenArchive
    <3>1. ~Opened.whole
      BY DEF Opened
    <3> QED BY <1>1, <2>2, <3>1 DEF OpenArchive, ReleaseInv, Faithful
  <2>3. CASE CopyFails \/ WriteCatalog \/ WriteManifest \/ WriteSidecar \/ Killed
    BY <1>1, <2>3 DEF CopyFails, WriteCatalog, WriteManifest, WriteSidecar, Killed,
       ReleaseInv, Faithful
  <2> QED BY <2>1, <2>2, <2>3
<1> QED BY <1>2, <1>3, <1>4 DEF ReleaseInv

LEMMA BuildStep == ReleaseInv /\ [ReleaseNext]_allVars => ReleaseInv'
<1> SUFFICES ASSUME ReleaseInv, [ReleaseNext]_allVars PROVE ReleaseInv'
  OBVIOUS
<1>1. SuiteInv'
  BY SuiteStep DEF ReleaseInv
<1>2. CASE Next /\ UNCHANGED releaseVars
  BY <1>1, <1>2, SourcesMove
<1>3. CASE Build
  BY <1>1, <1>3, CopyStep, PackStep, CloseStep, OtherSteps DEF Build
<1>4. CASE UNCHANGED allVars
  <2>1. /\ build' = build /\ todo' = todo /\ stage' = stage /\ catalog' = catalog
        /\ manifest' = manifest /\ archive' = archive /\ sidecar' = sidecar
        /\ directory' = directory /\ changed' = changed
    BY <1>4 DEF allVars, vars, releaseVars
  <2>2. BuildTypes'
    BY <2>1 DEF ReleaseInv, BuildTypes
  <2>3. Written'
    BY <2>1 DEF ReleaseInv, Written, Digests, Names, Complete
  <2>4. Faithful'
    BY <2>1 DEF ReleaseInv, Faithful
  <2> QED BY <1>1, <2>2, <2>3, <2>4 DEF ReleaseInv
<1> QED BY <1>2, <1>3, <1>4 DEF ReleaseNext

LEMMA Invariance == ReleaseSpec => []ReleaseInv
BY BuildInit, BuildStep, PTL DEF ReleaseSpec
-----------------------------------------------------------------------------
(* The runner's variables keep their types, and each result is of the file *)
(* on the list that it stands for, builds or no builds.                    *)
THEOREM TypeCorrect == ReleaseSpec => []TypeOK
<1>1. ReleaseInv => TypeOK
  BY DEF ReleaseInv, SuiteInv
<1> QED BY <1>1, Invariance, PTL

(* The exit code of the runner, for any number of files: 0 is true of each *)
(* file that nobody changed since it started, and 1 has a file on the list *)
(* that is not what the command takes, or was changed.                     *)
THEOREM VerdictsAreTrue == ReleaseSpec => []VerdictTruthful
<1>1. ReleaseInv => VerdictTruthful
  BY VerdictFollows DEF ReleaseInv
<1> QED BY <1>1, Invariance, PTL

(* Whenever the build is killed and whatever changes under it, an archive  *)
(* that the checksum beside it vouches for is whole, and its manifest and  *)
(* its catalog are of exactly what is packed.                              *)
THEOREM ReleasesAreWhole == ReleaseSpec => []VouchedIsWhole
<1>1. ASSUME ReleaseInv PROVE VouchedIsWhole
  <2>1. build = "done" => Verified
    BY <1>1 DEF ReleaseInv, Written, Verified
  <2>2. Verified => Complete(archive)
    BY <1>1 DEF ReleaseInv, Written, Verified, Digest, NoDigest
  <2> QED BY <2>1, <2>2 DEF VouchedIsWhole, Complete
<1> QED BY <1>1, Invariance, PTL

(* What the suite passed and nobody touched since is in every archive that *)
(* its checksum vouches for, as it was passed.                             *)
THEOREM PassedFilesAreReleased == ReleaseSpec => []PassedIsPacked
<1>1. ASSUME ReleaseInv PROVE PassedIsPacked
  <2> SUFFICES ASSUME status = "exit 0", command = "suite", Verified, NEW f \in Files \ changed
               PROVE  /\ archive.packed[f] = directory[f]
                      /\ archive.packed[f] \in Takes("suite") \cup {Missing}
    BY DEF PassedIsPacked
  <2>1. archive.whole
    BY <1>1 DEF ReleaseInv, Written, Verified, Digest, NoDigest, Complete
  <2>2. archive.packed[f] = directory[f]
    BY <1>1, <2>1 DEF ReleaseInv, Faithful
  <2>3. directory[f] \in Takes("suite") \cup {Missing}
    BY <1>1, VerdictFollows DEF ReleaseInv, VerdictTruthful, Present
  <2> QED BY <2>2, <2>3
<1> QED BY <1>1, Invariance, PTL
=============================================================================
