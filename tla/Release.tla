------------------------------- MODULE Release -------------------------------
(***************************************************************************)
(* Releasing the specification (RELEASE.md): the conformance suite is run, *)
(* then tools/build_release.py copies the corpus to a stage, lists it in   *)
(* a catalog and a manifest, packs it and writes a checksum beside the     *)
(* archive.  Files may change all the while, and the build may be killed   *)
(* and run again.  One directory stands for all that goes into a release.  *)
(***************************************************************************)
EXTENDS Suite

CONSTANT MaxBuilds   \* bound on how often the build is run

VARIABLES
    build,      \* what the build does: "none" before the first, "failed" after a crash
    todo,       \* the files that were listed and are still to be copied
    stage,      \* its temporary copy of each file, or Missing
    catalog,    \* schema-catalog.json of the stage: the names in it
    manifest,   \* manifest.json of the stage: the digests of its files
    archive,    \* the archive under dist/
    sidecar,    \* the checksum beside it
    builds      \* how often the build was run
releaseVars == <<build, todo, stage, catalog, manifest, archive, sidecar, builds>>
allVars == <<vars, releaseVars>>
-----------------------------------------------------------------------------
Nothing == [f \in Files |-> Missing]
Names(copy) == {f \in Files : copy[f] # Missing}

(* Digests are ideal: of files and archives that differ, they do.          *)
Digest(bytes) == <<bytes>>
NoDigest  == <<>>
NoDigests == [f \in Files |-> NoDigest]

(* The archive before it has entries, for want of one too.                 *)
Opened == [packed |-> Nothing, catalog |-> {}, manifest |-> NoDigests, whole |-> FALSE]

ReleaseInit ==
    /\ Init
    /\ build = "none"
    /\ todo = {} /\ stage = Nothing
    /\ catalog = {} /\ manifest = NoDigests
    /\ archive = Opened /\ sidecar = NoDigest
    /\ builds = 0
-----------------------------------------------------------------------------
(* python tools/build_release.py, after the conformance suite was run.     *)
Start ==
    /\ build \in {"none", "done", "failed"} /\ builds < MaxBuilds
    /\ status \in Exits \cup {"crashed"}
    /\ build' = "copying"
    /\ todo' = Present
    /\ stage' = Nothing
    /\ builds' = builds + 1
    /\ UNCHANGED <<vars, catalog, manifest, archive, sidecar>>

(* A file that is gone when its turn comes is skipped.                     *)
Copy(f) ==
    /\ build = "copying" /\ f \in todo
    /\ todo' = todo \ {f}
    /\ stage' = [stage EXCEPT ![f] = directory[f]]
    /\ UNCHANGED <<vars, build, catalog, manifest, archive, sidecar, builds>>

(* It is gone after is_file() and before read_bytes(): the build fails.    *)
CopyFails ==
    /\ build = "copying" /\ \E f \in todo : directory[f] = Missing
    /\ build' = "failed"
    /\ UNCHANGED <<vars, todo, stage, catalog, manifest, archive, sidecar, builds>>

(* Defect: the last file is forgotten.                                     *)
CopiedButOne == Cardinality(todo) <= 1

Copied == todo = {}

WriteCatalog ==
    /\ build = "copying" /\ Copied
    /\ build' = "cataloged"
    /\ catalog' = Names(stage)
    /\ UNCHANGED <<vars, todo, stage, manifest, archive, sidecar, builds>>

(* Defect: the files are read again from where they were copied.           *)
DigestsOfSources == [f \in Files |-> IF stage[f] = Missing THEN NoDigest ELSE Digest(directory[f])]

Digests == [f \in Files |-> IF stage[f] = Missing THEN NoDigest ELSE Digest(stage[f])]

WriteManifest ==
    /\ build = "cataloged"
    /\ build' = "listed"
    /\ manifest' = Digests
    /\ UNCHANGED <<vars, todo, stage, catalog, archive, sidecar, builds>>

(* Opening the archive for writing truncates the one of an earlier build.  *)
OpenArchive ==
    /\ build = "listed"
    /\ build' = "packing"
    /\ archive' = Opened
    /\ UNCHANGED <<vars, todo, stage, catalog, manifest, sidecar, builds>>

Pack(f) ==
    /\ build = "packing" /\ f \in Names(stage) \ Names(archive.packed)
    /\ archive' = [archive EXCEPT !.packed[f] = stage[f]]
    /\ UNCHANGED <<vars, build, todo, stage, catalog, manifest, sidecar, builds>>

CloseArchive ==
    /\ build = "packing" /\ Names(archive.packed) = Names(stage)
    /\ build' = "packed"
    /\ archive' = [archive EXCEPT !.catalog = catalog, !.manifest = manifest, !.whole = TRUE]
    /\ UNCHANGED <<vars, todo, stage, catalog, manifest, sidecar, builds>>

WriteSidecar ==
    /\ build = "packed"
    /\ build' = "done"
    /\ sidecar' = Digest(archive)
    /\ UNCHANGED <<vars, todo, stage, catalog, manifest, archive, builds>>

(* The build is killed: its stage is gone, what it wrote of the archive    *)
(* stays, and so does the old checksum, or an empty file in its place.     *)
Killed ==
    /\ build \notin {"none", "done", "failed"}
    /\ build' = "failed"
    /\ sidecar' \in IF build = "packed" THEN {sidecar, NoDigest} ELSE {sidecar}
    /\ UNCHANGED <<vars, todo, stage, catalog, manifest, archive, builds>>

Build == \/ Start \/ CopyFails \/ WriteCatalog \/ WriteManifest
         \/ OpenArchive \/ CloseArchive \/ WriteSidecar \/ Killed
         \/ \E f \in Files : Copy(f) \/ Pack(f)

ReleaseNext == (Next /\ UNCHANGED releaseVars) \/ Build

ReleaseSpec ==
    /\ ReleaseInit /\ [][ReleaseNext]_allVars
    /\ WF_vars(List \/ Check \/ Crash \/ Report)
-----------------------------------------------------------------------------
(* "Verify the generated SHA-256 sidecar" succeeds (RELEASE.md:6).         *)
Verified == sidecar = Digest(archive)

(* An archive that its checksum vouches for is whole, and its catalog and  *)
(* manifest are of exactly the files in it, whatever was changed while the *)
(* build ran and however often it was killed and run again; and a build    *)
(* that ends has written one that its checksum vouches for.                *)
VouchedIsWhole ==
    /\ build = "done" => Verified
    /\ Verified =>
         /\ archive.whole
         /\ archive.catalog = Names(archive.packed)
         /\ \A f \in Files : archive.manifest[f] =
              IF archive.packed[f] = Missing THEN NoDigest ELSE Digest(archive.packed[f])

(* What the suite has passed is what is released: of the files that did    *)
(* not change since, a verified archive has them all, and as envelopes     *)
(* that conform.                                                           *)
PassedIsPacked ==
    status = "exit 0" /\ command = "suite" /\ Verified =>
        \A f \in Files \ changed :
            /\ archive.packed[f] = directory[f]
            /\ archive.packed[f] \in Takes("suite") \cup {Missing}
=============================================================================
