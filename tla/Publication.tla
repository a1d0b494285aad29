---------------------------- MODULE Publication ----------------------------
(***************************************************************************)
(* The provisioning tools scripts/download_model.py (the gated speech      *)
(* model) and scripts/download_vad_model.py (the Silero model), and the    *)
(* publication they share, scripts/_atomic_directory.py: a directory is    *)
(* prepared under a name of its own, verified, made durable and renamed to *)
(* the destination.                                                        *)
(*                                                                         *)
(* Several runs of a tool may work for one destination at the same time;   *)
(* a run may fail at any call, be killed between any two, and the machine  *)
(* may lose its power.  A step is one call that others can see or that     *)
(* matters after a loss of power.                                          *)
(*                                                                         *)
(* The file system is external: fsync of a file makes its content durable, *)
(* fsync of a directory the names in it, rename is atomic and fails when   *)
(* the target is a directory that is not empty; what is not durable may or *)
(* may not survive, and a file may survive with a wrong content.           *)
(***************************************************************************)
EXTENDS Naturals, FiniteSets

CONSTANTS
  Tools,    \* the runs of the tool; each works in a directory of its own
  None,     \* no directory
  Foreign,  \* a directory at the destination that does not verify
  MaxLosses \* bound on the losses of power

ASSUME PublicationAssumption ==
  /\ None \notin Tools /\ Foreign \notin Tools /\ None # Foreign
  /\ MaxLosses \in Nat

VARIABLES
  kind,    \* what is provisioned: "speech" or "vad"
  pc,      \* run -> where it is
  report,  \* run -> "none", then "success" or "failure", reported when it is over
  file,    \* run -> part -> "absent", "good" or "bad"
  flushed, \* run -> the parts whose content is durable
  entered, \* run -> the parts whose name in the directory is durable
  staged,  \* the runs whose directory is there under its staging name
  dest,    \* whose directory is at the destination: a run's, Foreign or None
  onDisk,  \* the same as the disk knows it
  losses

treeVars == <<file, flushed, entered>>
destVars == <<dest, onDisk>>
vars == <<kind, pc, report, treeVars, staged, destVars, losses>>

-----------------------------------------------------------------------------
Parts == IF kind = "speech" THEN {"payload", "manifest", "marker"}
                            ELSE {"model", "licence"}

\* verify_model: the marker vouches for the manifest, the manifest for exactly
\* the files of the payload.
SnapshotVerifies(d) ==
  \A part \in {"payload", "manifest", "marker"} : file[d][part] = "good"

\* verify_vad_model: exactly the two files, as they are pinned.
ArtifactsVerify(d) == \A part \in {"model", "licence"} : file[d][part] = "good"

Verifies(d) ==
  /\ d \in Tools
  /\ IF kind = "speech" THEN SnapshotVerifies(d) ELSE ArtifactsVerify(d)

Goto(t, where) == pc' = [pc EXCEPT ![t] = where] /\ UNCHANGED report

\* The finally of the tool.  (Mutant: only success removes the directory.)
LeavesOnFailure(t, outcome) == IF outcome = "success" THEN "cleanup" ELSE "over"
Leaves(t, outcome)          == "cleanup"

End(t, outcome) ==
  /\ pc' = [pc EXCEPT ![t] = IF t \in staged' THEN Leaves(t, outcome) ELSE "over"]
  /\ report' = [report EXCEPT ![t] = outcome]

\* A part is written; is its content flushed?
Write(t, part, content, isFlushed) ==
  /\ file' = [file EXCEPT ![t][part] = content]
  /\ flushed' = [flushed EXCEPT ![t] = IF isFlushed THEN @ \cup {part} ELSE @]
  /\ UNCHANGED entered

-----------------------------------------------------------------------------
\* A revision, a repository or a token that is refused, or offline mode.
Refuse(t) ==
  /\ pc[t] = "new" /\ (dest = None \/ kind = "speech")
  /\ UNCHANGED <<kind, treeVars, staged, destVars, losses>>
  /\ End(t, "failure")

\* A destination that is there is verified,
FindExisting(t) ==
  /\ pc[t] = "new" /\ dest # None
  /\ Goto(t, "check")
  /\ UNCHANGED <<kind, treeVars, staged, destVars, losses>>

\* a new one prepared under a name of its own (mkdtemp).
MakeStaging(t) ==
  /\ pc[t] = "new" /\ dest = None
  /\ staged' = staged \cup {t}
  /\ Goto(t, IF kind = "speech" THEN "download" ELSE "model")
  /\ UNCHANGED <<kind, treeVars, destVars, losses>>

\* snapshot_download returns; it may have brought less than is required.
DownloadSnapshot(t) ==
  /\ pc[t] = "download"
  /\ \E content \in {"good", "bad"} : Write(t, "payload", content, FALSE)
  /\ Goto(t, "sync")
  /\ UNCHANGED <<kind, staged, destVars, losses>>

\* _fsync_payload_tree.  (Mutant: it is not called.)
SyncNothing(t) == UNCHANGED treeVars
SyncPayload(t) ==
  /\ flushed' = [flushed EXCEPT ![t] = @ \cup {"payload"}]
  /\ entered' = [entered EXCEPT ![t] = @ \cup {"payload"}]
  /\ UNCHANGED file

SyncTree(t) ==
  /\ pc[t] = "sync"
  /\ SyncPayload(t)
  /\ Goto(t, "manifest")
  /\ UNCHANGED <<kind, staged, destVars, losses>>

\* build_manifest refuses a payload with assets missing.
WriteManifest(t) ==
  /\ pc[t] = "manifest" /\ file[t]["payload"] = "good"
  /\ Write(t, "manifest", "good", TRUE)
  /\ Goto(t, "marker")
  /\ UNCHANGED <<kind, staged, destVars, losses>>

WriteMarker(t) ==
  /\ pc[t] = "marker"
  /\ Write(t, "marker", "good", TRUE)
  /\ Goto(t, "verify")
  /\ UNCHANGED <<kind, staged, destVars, losses>>

\* _download_artifact: the file is flushed, then its digest compared.
DownloadArtifact(t, part) ==
  /\ pc[t] = part
  /\ UNCHANGED <<kind, staged, destVars, losses>>
  /\ \/ /\ Write(t, part, "good", TRUE)
        /\ Goto(t, IF part = "model" THEN "licence" ELSE "verify")
     \/ Write(t, part, "bad", TRUE) /\ End(t, "failure")

\* The prepared directory is verified before it is shown to anybody.
Verify(t) ==
  /\ pc[t] = "verify" /\ Verifies(t)
  /\ Goto(t, "seal")
  /\ UNCHANGED <<kind, treeVars, staged, destVars, losses>>

\* fsync_directory(staging).
Seal(t) ==
  /\ pc[t] = "seal"
  /\ entered' = [entered EXCEPT ![t] = {part \in Parts : file[t][part] # "absent"}]
  /\ Goto(t, "rename")
  /\ UNCHANGED <<kind, file, flushed, staged, destVars, losses>>

-----------------------------------------------------------------------------
(* publish_directory.                                                       *)

\* (Mutant: what is at the destination is replaced.)
ReplacesAnything == TRUE
RenameSucceeds   == dest = None

Rename(t) ==
  /\ pc[t] = "rename" /\ RenameSucceeds
  /\ staged' = staged \ {t}
  /\ dest' = t
  /\ Goto(t, "parent")
  /\ UNCHANGED <<kind, treeVars, onDisk, losses>>

\* The rename raises OSError: the destination there now is verified instead.
LoseRace(t) ==
  /\ pc[t] = "rename" /\ dest # None
  /\ Goto(t, "check")
  /\ UNCHANGED <<kind, treeVars, staged, destVars, losses>>

\* verify_existing: a failure of it is the failure of the tool.
\* (Mutant: the destination is taken to be good.)
AcceptsAny == dest # None
Accepted   == Verifies(dest)

Reuse(t) ==
  /\ pc[t] = "check" /\ Accepted
  /\ UNCHANGED <<kind, treeVars, staged, destVars, losses>>
  /\ End(t, "success")

\* fsync_directory(destination.parent).
SyncParent(t) ==
  /\ pc[t] = "parent"
  /\ onDisk' = dest
  /\ UNCHANGED <<kind, treeVars, staged, dest, losses>>
  /\ End(t, "success")

-----------------------------------------------------------------------------
\* shutil.rmtree(staging).  When it raises, the directory stays and its error
\* is what the tool reports, even instead of a success.
CleanUp(t) ==
  /\ pc[t] = "cleanup"
  /\ \/ Goto(t, "over") /\ staged' = staged \ {t}
     \/ /\ pc' = [pc EXCEPT ![t] = "littered"]
        /\ report' = [report EXCEPT ![t] = "failure"]
        /\ UNCHANGED staged
  /\ UNCHANGED <<kind, treeVars, destVars, losses>>

Working == {"check", "download", "sync", "manifest", "marker", "model", "licence",
            "verify", "seal", "rename", "parent"}

\* A call of a tool raises.  (A write that fails takes its file away again.)
Raise(t) ==
  /\ pc[t] \in Working
  /\ UNCHANGED <<kind, treeVars, staged, destVars, losses>>
  /\ End(t, "failure")

Kill(t) ==
  /\ pc[t] \in Working \cup {"cleanup"}
  /\ Goto(t, "killed")
  /\ UNCHANGED <<kind, treeVars, staged, destVars, losses>>

\* What a loss of power may leave of a part of run t's directory.
Remains(t, part) ==
  LET contents == IF part \in flushed[t] THEN {file[t][part]} ELSE {file[t][part], "bad"}
  IN IF part \in entered[t] THEN contents ELSE contents \cup {"absent"}

\* Every run stops.  Nobody looks again into a directory under a staging name.
LosePower ==
  /\ losses < MaxLosses
  /\ losses' = losses + 1
  /\ pc' = [t \in Tools |-> IF pc[t] \in {"new", "over", "littered"} THEN pc[t] ELSE "killed"]
  /\ dest' \in {dest, onDisk} /\ onDisk' = dest'
  /\ IF dest' \in Tools
     THEN \E tree \in [Parts -> {"absent", "good", "bad"}] :
            /\ \A part \in Parts : tree[part] \in Remains(dest', part)
            /\ file' = [file EXCEPT ![dest'] = tree]
            /\ flushed' = [flushed EXCEPT ![dest'] = Parts]
            /\ entered' = [entered EXCEPT ![dest'] = Parts]
     ELSE UNCHANGED treeVars
  /\ UNCHANGED <<kind, report, staged>>

-----------------------------------------------------------------------------
Init ==
  /\ kind \in {"speech", "vad"}
  /\ pc = [t \in Tools |-> "new"]
  /\ report = [t \in Tools |-> "none"]
  /\ file = [t \in Tools |-> [part \in Parts |-> "absent"]]
  /\ flushed = [t \in Tools |-> {}]
  /\ entered = [t \in Tools |-> {}]
  /\ staged = {}
  /\ dest \in {None, Foreign} /\ onDisk = dest
  /\ losses = 0

Tool(t) ==
  \/ Refuse(t) \/ FindExisting(t) \/ MakeStaging(t)
  \/ DownloadSnapshot(t) \/ SyncTree(t) \/ WriteManifest(t) \/ WriteMarker(t)
  \/ \E part \in {"model", "licence"} : DownloadArtifact(t, part)
  \/ Verify(t) \/ Seal(t)
  \/ Rename(t) \/ LoseRace(t) \/ Reuse(t) \/ SyncParent(t)
  \/ CleanUp(t) \/ Raise(t) \/ Kill(t)

Next == (\E t \in Tools : Tool(t)) \/ LosePower

Spec == Init /\ [][Next]_vars

-----------------------------------------------------------------------------
(* Properties.                                                              *)

(* Every interleaving of runs, with failures, kills and losses of power, is *)
(* one PublishedDirectory allows: no partial or damaged directory is ever   *)
(* at the destination, nothing there is replaced, and success is true.      *)
Published == INSTANCE PublishedDirectory WITH
  content <- IF dest \in Tools /\ ~Verifies(dest) THEN "damaged" ELSE dest,
  durable <- dest = onDisk,
  success <- {t \in Tools : pc[t] = "over" /\ report[t] = "success"}

ImplementsPublication == Published!Spec

(* A run that ends by itself, wherever it failed and whoever won, leaves no *)
(* directory under a staging name next to the destination, unless it is the *)
(* removal of that directory which failed.                                  *)
LeavesNoStaging ==
  \A t \in Tools : pc[t] = "over" => t \notin staged
=============================================================================
