-------------------------- MODULE PublicationProofs --------------------------
(***************************************************************************)
(* Proofs about Publication for any number of runs: that the tools         *)
(* implement PublishedDirectory, and that a run which ends by itself       *)
(* leaves no staging directory.                                            *)
(*                                                                         *)
(* That a loss of power cannot damage the destination is not inductive by  *)
(* itself.  The invariant follows a run through its steps: what its place  *)
(* says about the parts that are flushed, good and entered, so that the    *)
(* rename only ever shows a directory of which everything is durable, and  *)
(* nobody writes into that directory afterwards.                           *)
(***************************************************************************)
EXTENDS Publication, TLAPS

Places   == Working \cup {"new", "cleanup", "over", "littered", "killed"}
Contents == {"absent", "good", "bad"}

TypeOK ==
  /\ kind \in {"speech", "vad"}
  /\ pc \in [Tools -> Places]
  /\ report \in [Tools -> {"none", "success", "failure"}]
  /\ file \in [Tools -> [Parts -> Contents]]
  /\ flushed \in [Tools -> SUBSET Parts]
  /\ entered \in [Tools -> SUBSET Parts]
  /\ staged \in SUBSET Tools
  /\ dest \in Tools \cup {None, Foreign}

\* The parts a run has flushed by the time it is at a place.
Flushed(t) ==
  /\ pc[t] \in {"manifest", "marker"} => "payload" \in flushed[t]
  /\ pc[t] = "marker" => "manifest" \in flushed[t]
  /\ pc[t] = "licence" => "model" \in flushed[t]
  /\ pc[t] \in {"verify", "seal", "rename"} => flushed[t] = Parts

\* The places belong to one of the tools.
OfItsKind(t) ==
  /\ pc[t] \in {"download", "sync", "manifest", "marker"} => kind = "speech"
  /\ pc[t] \in {"model", "licence"} => kind = "vad"

\* What has been verified stays so; it is renamed with all its entries durable.
Prepared(t) ==
  /\ pc[t] \in {"seal", "rename"} => Verifies(t)
  /\ pc[t] = "rename" => entered[t] = Parts

\* The directory at the destination is complete and its run past writing.
Shown(t) ==
  /\ pc[t] = "parent" => dest = t
  /\ dest = t =>
       /\ pc[t] \in {"parent", "over", "killed"} /\ t \notin staged
       /\ Verifies(t) /\ flushed[t] = Parts /\ entered[t] = Parts

\* Who has a success to report after the clean-up found somebody else's directory.
Cleaning(t) ==
  pc[t] = "cleanup" => t \in staged /\ (report[t] = "success" => dest \in Tools)

Progress(t) ==
  Flushed(t) /\ OfItsKind(t) /\ Prepared(t) /\ Shown(t) /\ Cleaning(t)

IInv ==
  /\ TypeOK
  /\ onDisk \in {dest, None}
  /\ \A t \in Tools : Progress(t)

-----------------------------------------------------------------------------
(* Initially no run has done anything.                                      *)
LEMMA InitInv == Init => IInv
<1> SUFFICES ASSUME Init PROVE IInv
  OBVIOUS
<1>1. TypeOK
  BY DEF Init, TypeOK, Places, Contents, Working
<1>2. onDisk \in {dest, None}
  BY DEF Init
<1>3. ASSUME NEW t \in Tools PROVE Progress(t)
  BY <1>3, PublicationAssumption
     DEF Init, Progress, Flushed, OfItsKind, Prepared, Shown, Cleaning, Working
<1> QED
  BY <1>1, <1>2, <1>3 DEF IInv

(* A step of one run leaves what is known of another as it is, as long as   *)
(* the destination and the other's own state stay.                          *)
LEMMA OthersKeep ==
  ASSUME NEW u \in Tools, Progress(u),
         UNCHANGED kind, pc'[u] = pc[u], report'[u] = report[u], file'[u] = file[u],
         flushed'[u] = flushed[u], entered'[u] = entered[u],
         UNCHANGED dest, u \in staged' <=> u \in staged
  PROVE  Progress(u)'
<1>1. Parts' = Parts
  BY DEF Parts
<1>2. Verifies(u)' = Verifies(u)
  BY DEF Verifies, SnapshotVerifies, ArtifactsVerify
<1> QED
  BY <1>1, <1>2 DEF Progress, Flushed, OfItsKind, Prepared, Shown, Cleaning

(* The finally of a tool, and any other step that only moves one run on.    *)
LEMMA MovesOn ==
  ASSUME IInv, NEW t \in Tools, NEW place \in Places, NEW outcome,
         pc' = [pc EXCEPT ![t] = place],
         report' = [report EXCEPT ![t] = outcome],
         outcome \in {"none", "success", "failure"},
         UNCHANGED <<kind, treeVars, dest>>,
         staged' \in {staged, staged \cup {t}, staged \ {t}},
         onDisk' \in {dest, None},
         Progress(t)'
  PROVE  IInv'
<1>1. Parts' = Parts
  BY DEF Parts
<1>2. TypeOK'
  BY <1>1 DEF IInv, TypeOK, treeVars
<1>3. ASSUME NEW u \in Tools PROVE Progress(u)'
  <2>1. CASE u = t
    BY <2>1
  <2>2. CASE u # t
    BY <2>2, <1>3, OthersKeep DEF IInv, TypeOK, treeVars
  <2> QED
    BY <2>1, <2>2
<1> QED
  BY <1>2, <1>3 DEF IInv

(* A step that writes into, or makes durable, the directory of its own run. *)
LEMMA WritesOn ==
  ASSUME IInv, NEW t \in Tools, NEW place \in Places, NEW outcome,
         pc' = [pc EXCEPT ![t] = place],
         report' = [report EXCEPT ![t] = outcome],
         outcome \in {"none", "success", "failure"},
         NEW tree \in [Parts -> Contents], file' = [file EXCEPT ![t] = tree],
         NEW fl \in SUBSET Parts, flushed' = [flushed EXCEPT ![t] = fl],
         NEW en \in SUBSET Parts, entered' = [entered EXCEPT ![t] = en],
         UNCHANGED <<kind, destVars, staged>>,
         Progress(t)'
  PROVE  IInv'
<1>1. Parts' = Parts
  BY DEF Parts
<1>2. TypeOK'
  BY <1>1 DEF IInv, TypeOK, destVars
<1>3. ASSUME NEW u \in Tools PROVE Progress(u)'
  <2>1. CASE u = t
    BY <2>1
  <2>2. CASE u # t
    BY <2>2, <1>3, OthersKeep DEF IInv, TypeOK, destVars
  <2> QED
    BY <2>1, <2>2
<1> QED
  BY <1>2, <1>3 DEF IInv, destVars

-----------------------------------------------------------------------------
(* Steps of a run that touch neither its directory nor the destination.     *)

\* A report of failure never costs anything that is known of the run.
LEMMA FailInv ==
  ASSUME IInv, NEW t \in Tools, pc[t] \in Working \cup {"new"},
         End(t, "failure"), UNCHANGED <<kind, treeVars, staged, destVars, losses>>
  PROVE  IInv'
<1> DEFINE place == pc'[t]
<1>1. pc' = [pc EXCEPT ![t] = place] /\ place \in {"cleanup", "over"}
  BY DEF End, Leaves, IInv, TypeOK
<1>2. report' = [report EXCEPT ![t] = "failure"]
  BY DEF End
<1>3. Progress(t)'
  <2>1. /\ Progress(t) /\ report'[t] = "failure"
        /\ (pc'[t] = "cleanup" /\ t \in staged') \/ (pc'[t] = "over" /\ t \notin staged)
    BY <1>1, <1>2 DEF IInv, TypeOK, End, Leaves
  <2>2. Parts' = Parts /\ Verifies(t)' = Verifies(t)
    BY DEF Parts, Verifies, SnapshotVerifies, ArtifactsVerify, treeVars
  <2>3. dest # t \/ (pc'[t] = "over" /\ t \notin staged')
    BY <2>1 DEF Progress, Shown
  <2> QED
    BY <2>1, <2>2, <2>3
       DEF Progress, Flushed, OfItsKind, Prepared, Shown, Cleaning, Working,
           treeVars, destVars
<1> QED
  BY <1>1, <1>2, <1>3, MovesOn DEF IInv, TypeOK, Places, destVars

LEMMA RefuseInv == ASSUME IInv, NEW t \in Tools, Refuse(t) PROVE IInv'
  BY FailInv DEF Refuse

LEMMA RaiseInv == ASSUME IInv, NEW t \in Tools, Raise(t) PROVE IInv'
  BY FailInv DEF Raise

\* A step that only changes where the run is.
LEMMA GotoInv ==
  ASSUME IInv, NEW t \in Tools, NEW place \in Places, Goto(t, place),
         UNCHANGED <<kind, treeVars, destVars>>,
         staged' \in {staged, staged \cup {t}, staged \ {t}},
         Progress(t)'
  PROVE  IInv'
<1>1. report' = [report EXCEPT ![t] = report[t]]
  BY DEF Goto, IInv, TypeOK
<1>2. report[t] \in {"none", "success", "failure"}
  BY DEF IInv, TypeOK
<1> QED
  BY <1>1, <1>2, MovesOn DEF Goto, IInv, destVars

LEMMA FindExistingInv == ASSUME IInv, NEW t \in Tools, FindExisting(t) PROVE IInv'
<1>1. Progress(t)'
  <2>1. Progress(t) /\ pc'[t] = "check" /\ report'[t] = report[t]
    BY DEF FindExisting, Goto, IInv, TypeOK
  <2>2. dest # t
    BY <2>1 DEF Progress, Shown, FindExisting
  <2> QED
    BY <2>1, <2>2
       DEF FindExisting, Progress, Flushed, OfItsKind, Prepared, Shown, Cleaning,
           destVars
<1> QED
  BY <1>1, GotoInv DEF FindExisting, Places, Working, IInv, TypeOK

LEMMA MakeStagingInv == ASSUME IInv, NEW t \in Tools, MakeStaging(t) PROVE IInv'
<1>1. Progress(t)'
  <2>1. /\ Progress(t) /\ report'[t] = report[t]
        /\ \/ pc'[t] = "download" /\ kind = "speech"
           \/ pc'[t] = "model" /\ kind = "vad"
    BY DEF MakeStaging, Goto, IInv, TypeOK
  <2>2. dest # t
    BY PublicationAssumption DEF MakeStaging
  <2> QED
    BY <2>1, <2>2
       DEF MakeStaging, Progress, Flushed, OfItsKind, Prepared, Shown, Cleaning,
           destVars, Working
<1> QED
  BY <1>1, GotoInv DEF MakeStaging, Places, Working, IInv, TypeOK

LEMMA VerifyInv == ASSUME IInv, NEW t \in Tools, Verify(t) PROVE IInv'
<1>1. Progress(t)'
  <2>1. Progress(t) /\ pc'[t] = "seal" /\ report'[t] = report[t]
    BY DEF Verify, Goto, IInv, TypeOK
  <2>2. dest # t
    BY <2>1 DEF Progress, Shown, Verify
  <2>3. Parts' = Parts /\ Verifies(t)'
    BY DEF Verify, Parts, Verifies, SnapshotVerifies, ArtifactsVerify, treeVars
  <2> QED
    BY <2>1, <2>2, <2>3
       DEF Verify, Progress, Flushed, OfItsKind, Prepared, Shown, Cleaning,
           destVars, treeVars, Working
<1> QED
  BY <1>1, GotoInv DEF Verify, Places, Working, IInv, TypeOK

LEMMA LoseRaceInv == ASSUME IInv, NEW t \in Tools, LoseRace(t) PROVE IInv'
<1>1. Progress(t)'
  <2>1. Progress(t) /\ pc'[t] = "check" /\ report'[t] = report[t]
    BY DEF LoseRace, Goto, IInv, TypeOK
  <2>2. dest # t
    BY <2>1 DEF Progress, Shown, LoseRace
  <2> QED
    BY <2>1, <2>2
       DEF LoseRace, Progress, Flushed, OfItsKind, Prepared, Shown, Cleaning,
           destVars, Working
<1> QED
  BY <1>1, GotoInv DEF LoseRace, Places, Working, IInv, TypeOK

\* What is known of a run that has ended is only about its directory.
LEMMA StopsInv ==
  ASSUME IInv, NEW t \in Tools, NEW place \in {"over", "littered", "killed"},
         pc' = [pc EXCEPT ![t] = place],
         NEW outcome \in {"none", "success", "failure"},
         report' = [report EXCEPT ![t] = outcome],
         UNCHANGED <<kind, treeVars, destVars>>, staged' \in {staged, staged \ {t}},
         pc[t] \in Working \cup {"cleanup"}, place = "littered" => pc[t] = "cleanup"
  PROVE  IInv'
<1>1. Progress(t)'
  <2>1. Progress(t) /\ pc'[t] = place
    BY DEF IInv, TypeOK
  <2>2. Parts' = Parts /\ Verifies(t)' = Verifies(t)
    BY DEF Parts, Verifies, SnapshotVerifies, ArtifactsVerify, treeVars
  <2> QED
    BY <2>1, <2>2
       DEF Progress, Flushed, OfItsKind, Prepared, Shown, Cleaning,
           destVars, treeVars, Working
<1> QED
  BY <1>1, MovesOn DEF Places, IInv, destVars

LEMMA KillInv == ASSUME IInv, NEW t \in Tools, Kill(t) PROVE IInv'
<1>1. /\ report' = [report EXCEPT ![t] = report[t]]
      /\ report[t] \in {"none", "success", "failure"}
  BY DEF Kill, Goto, IInv, TypeOK
<1> QED
  BY <1>1, StopsInv DEF Kill, Goto

LEMMA CleanUpInv == ASSUME IInv, NEW t \in Tools, CleanUp(t) PROVE IInv'
<1>1. CASE Goto(t, "over") /\ staged' = staged \ {t}
  <2>1. /\ report' = [report EXCEPT ![t] = report[t]]
        /\ report[t] \in {"none", "success", "failure"}
    BY <1>1 DEF Goto, IInv, TypeOK
  <2> QED
    BY <1>1, <2>1, StopsInv DEF CleanUp, Goto
<1>2. CASE /\ pc' = [pc EXCEPT ![t] = "littered"]
           /\ report' = [report EXCEPT ![t] = "failure"] /\ UNCHANGED staged
  BY <1>2, StopsInv DEF CleanUp
<1> QED
  BY <1>1, <1>2 DEF CleanUp

-----------------------------------------------------------------------------
(* Steps of a run in its own directory.                                     *)

\* A part is written, flushed or not, and the run goes on.
LEMMA WriteInv ==
  ASSUME IInv, NEW t \in Tools, NEW part \in Parts, NEW content \in Contents,
         NEW isFlushed \in BOOLEAN, Write(t, part, content, isFlushed),
         NEW place \in Places, NEW outcome \in {"none", "success", "failure"},
         pc' = [pc EXCEPT ![t] = place],
         report' = [report EXCEPT ![t] = outcome],
         UNCHANGED <<kind, destVars, staged>>, Progress(t)'
  PROVE  IInv'
<1> DEFINE tree == [file[t] EXCEPT ![part] = content]
           fl == IF isFlushed THEN flushed[t] \cup {part} ELSE flushed[t]
<1>1. tree \in [Parts -> Contents] /\ file' = [file EXCEPT ![t] = tree]
  BY DEF Write, IInv, TypeOK
<1>2. fl \in SUBSET Parts /\ flushed' = [flushed EXCEPT ![t] = fl]
  BY DEF Write, IInv, TypeOK
<1>3. entered[t] \in SUBSET Parts /\ entered' = [entered EXCEPT ![t] = entered[t]]
  BY DEF Write, IInv, TypeOK
<1> HIDE DEF tree, fl
<1> QED
  BY <1>1, <1>2, <1>3, WritesOn

LEMMA DownloadSnapshotInv ==
  ASSUME IInv, NEW t \in Tools, DownloadSnapshot(t) PROVE IInv'
<1>1. PICK content \in {"good", "bad"} : Write(t, "payload", content, FALSE)
  BY DEF DownloadSnapshot
<1>2. /\ Progress(t) /\ pc[t] = "download" /\ pc'[t] = "sync"
      /\ report'[t] = report[t] /\ kind' = kind /\ dest' = dest
  BY DEF DownloadSnapshot, Goto, IInv, TypeOK, destVars
<1>3. kind = "speech" /\ dest # t
  BY <1>2 DEF Progress, OfItsKind, Shown
<1>4. Progress(t)'
  BY <1>2, <1>3
     DEF Progress, Flushed, OfItsKind, Prepared, Shown, Cleaning, Working
<1>5. /\ "payload" \in Parts /\ content \in Contents
      /\ report[t] \in {"none", "success", "failure"}
      /\ report' = [report EXCEPT ![t] = report[t]]
  BY <1>3 DEF Parts, Contents, DownloadSnapshot, Goto, IInv, TypeOK
<1> QED
  BY <1>1, <1>4, <1>5, WriteInv DEF DownloadSnapshot, Goto, Places, Working

LEMMA WriteManifestInv ==
  ASSUME IInv, NEW t \in Tools, WriteManifest(t) PROVE IInv'
<1>2. /\ Progress(t) /\ pc[t] = "manifest" /\ pc'[t] = "marker"
      /\ report'[t] = report[t] /\ kind' = kind /\ dest' = dest
  BY DEF WriteManifest, Goto, IInv, TypeOK, destVars
<1>3. kind = "speech" /\ dest # t
  BY <1>2 DEF Progress, OfItsKind, Shown
<1>4. "payload" \in flushed'[t] /\ "manifest" \in flushed'[t]
  BY <1>2 DEF Progress, Flushed, WriteManifest, Write, IInv, TypeOK
<1>5. Progress(t)'
  BY <1>2, <1>3, <1>4
     DEF Progress, Flushed, OfItsKind, Prepared, Shown, Cleaning, Working
<1>6. /\ "manifest" \in Parts /\ "good" \in Contents
      /\ report[t] \in {"none", "success", "failure"}
      /\ report' = [report EXCEPT ![t] = report[t]]
  BY <1>3 DEF Parts, Contents, WriteManifest, Goto, IInv, TypeOK
<1> QED
  BY <1>5, <1>6, WriteInv DEF WriteManifest, Goto, Places, Working

LEMMA WriteMarkerInv ==
  ASSUME IInv, NEW t \in Tools, WriteMarker(t) PROVE IInv'
<1>2. /\ Progress(t) /\ pc[t] = "marker" /\ pc'[t] = "verify"
      /\ report'[t] = report[t] /\ kind' = kind /\ dest' = dest
  BY DEF WriteMarker, Goto, IInv, TypeOK, destVars
<1>3. kind = "speech" /\ dest # t
  BY <1>2 DEF Progress, OfItsKind, Shown
<1>4. flushed'[t] = Parts'
  BY <1>2, <1>3 DEF Progress, Flushed, WriteMarker, Write, IInv, TypeOK, Parts
<1>5. Progress(t)'
  BY <1>2, <1>3, <1>4
     DEF Progress, Flushed, OfItsKind, Prepared, Shown, Cleaning, Working
<1>6. /\ "marker" \in Parts /\ "good" \in Contents
      /\ report[t] \in {"none", "success", "failure"}
      /\ report' = [report EXCEPT ![t] = report[t]]
  BY <1>3 DEF Parts, Contents, WriteMarker, Goto, IInv, TypeOK
<1> QED
  BY <1>5, <1>6, WriteInv DEF WriteMarker, Goto, Places, Working

LEMMA DownloadArtifactInv ==
  ASSUME IInv, NEW t \in Tools, NEW part \in {"model", "licence"},
         DownloadArtifact(t, part)
  PROVE  IInv'
<1>1. /\ Progress(t) /\ pc[t] = part /\ kind' = kind /\ dest' = dest
      /\ kind = "vad" /\ dest # t /\ part \in Parts /\ Parts' = Parts
  BY DEF DownloadArtifact, Progress, OfItsKind, Shown, Parts, IInv, TypeOK, destVars
<1>2. CASE /\ Write(t, part, "good", TRUE)
           /\ Goto(t, IF part = "model" THEN "licence" ELSE "verify")
  <2>1. /\ pc'[t] = IF part = "model" THEN "licence" ELSE "verify"
        /\ report'[t] = report[t] /\ flushed'[t] = flushed[t] \cup {part}
    BY <1>2 DEF Goto, Write, IInv, TypeOK
  <2>2. part = "licence" => flushed'[t] = Parts
    BY <1>1, <2>1 DEF Progress, Flushed, Parts, IInv, TypeOK
  <2>3. Progress(t)'
    BY <1>1, <2>1, <2>2
       DEF Progress, Flushed, OfItsKind, Prepared, Shown, Cleaning, Working
  <2>4. /\ report[t] \in {"none", "success", "failure"}
        /\ report' = [report EXCEPT ![t] = report[t]]
    BY <1>2 DEF Goto, IInv, TypeOK
  <2> QED
    BY <1>1, <1>2, <2>3, <2>4, WriteInv
       DEF DownloadArtifact, Goto, Places, Working, Contents
<1>3. CASE Write(t, part, "bad", TRUE) /\ End(t, "failure")
  <2>1. /\ pc' = [pc EXCEPT ![t] = pc'[t]] /\ pc'[t] \in {"cleanup", "over"}
        /\ report' = [report EXCEPT ![t] = "failure"]
        /\ pc'[t] = "cleanup" => t \in staged'
    BY <1>3 DEF End, Leaves, IInv, TypeOK
  <2>2. Progress(t)'
    BY <1>1, <2>1
       DEF Progress, Flushed, OfItsKind, Prepared, Shown, Cleaning, Working,
           IInv, TypeOK
  <2> QED
    BY <1>1, <1>3, <2>1, <2>2, WriteInv DEF DownloadArtifact, Places, Contents
<1> QED
  BY <1>2, <1>3 DEF DownloadArtifact

LEMMA SyncTreeInv == ASSUME IInv, NEW t \in Tools, SyncTree(t) PROVE IInv'
<1>1. /\ Progress(t) /\ pc[t] = "sync" /\ pc'[t] = "manifest"
      /\ report'[t] = report[t] /\ kind' = kind /\ dest' = dest
      /\ "payload" \in flushed'[t]
  BY DEF SyncTree, SyncPayload, Goto, IInv, TypeOK, destVars
<1>2. kind = "speech" /\ dest # t
  BY <1>1 DEF Progress, OfItsKind, Shown
<1>3. Progress(t)'
  BY <1>1, <1>2
     DEF Progress, Flushed, OfItsKind, Prepared, Shown, Cleaning, Working
<1>4. /\ file[t] \in [Parts -> Contents] /\ file' = [file EXCEPT ![t] = file[t]]
      /\ flushed[t] \cup {"payload"} \in SUBSET Parts
      /\ flushed' = [flushed EXCEPT ![t] = flushed[t] \cup {"payload"}]
      /\ entered[t] \cup {"payload"} \in SUBSET Parts
      /\ entered' = [entered EXCEPT ![t] = entered[t] \cup {"payload"}]
  BY <1>2 DEF SyncTree, SyncPayload, IInv, TypeOK, Parts
<1>5. /\ report[t] \in {"none", "success", "failure"}
      /\ report' = [report EXCEPT ![t] = report[t]]
      /\ staged' \in SUBSET Tools
  BY DEF SyncTree, Goto, IInv, TypeOK
<1> QED
  BY <1>3, <1>4, <1>5, WritesOn DEF SyncTree, Goto, Places, Working

LEMMA SealInv == ASSUME IInv, NEW t \in Tools, Seal(t) PROVE IInv'
<1> DEFINE en == {part \in Parts : file[t][part] # "absent"}
<1>1. /\ Progress(t) /\ pc[t] = "seal" /\ pc'[t] = "rename"
      /\ report'[t] = report[t] /\ kind' = kind /\ dest' = dest
      /\ file' = file /\ flushed' = flushed /\ entered'[t] = en
  BY DEF Seal, Goto, IInv, TypeOK, destVars
<1>2. Verifies(t) /\ flushed[t] = Parts /\ dest # t
  BY <1>1 DEF Progress, Prepared, Flushed, Shown
<1>3. /\ en = Parts
      /\ Parts' = Parts /\ Verifies(t)'
  BY <1>1, <1>2 DEF Verifies, SnapshotVerifies, ArtifactsVerify, Parts, IInv, TypeOK
<1>4. Progress(t)'
  BY <1>1, <1>2, <1>3
     DEF Progress, Flushed, OfItsKind, Prepared, Shown, Cleaning, Working
<1>5. /\ file[t] \in [Parts -> Contents] /\ file' = [file EXCEPT ![t] = file[t]]
      /\ flushed[t] \in SUBSET Parts
      /\ flushed' = [flushed EXCEPT ![t] = flushed[t]]
      /\ en \in SUBSET Parts
      /\ entered' = [entered EXCEPT ![t] = en]
  BY DEF Seal, IInv, TypeOK
<1>6. /\ report[t] \in {"none", "success", "failure"}
      /\ report' = [report EXCEPT ![t] = report[t]]
      /\ staged' \in SUBSET Tools
  BY DEF Seal, Goto, IInv, TypeOK
<1> HIDE DEF en
<1> QED
  BY <1>4, <1>5, <1>6, WritesOn DEF Seal, Goto, Places, Working

-----------------------------------------------------------------------------
(* Steps that concern the destination.                                      *)

LEMMA RenameInv == ASSUME IInv, NEW t \in Tools, Rename(t) PROVE IInv'
<1>1. /\ Progress(t) /\ pc[t] = "rename" /\ pc'[t] = "parent"
      /\ report'[t] = report[t] /\ kind' = kind /\ dest = None /\ dest' = t
      /\ file' = file /\ flushed' = flushed /\ entered' = entered
      /\ staged' = staged \ {t}
  BY DEF Rename, RenameSucceeds, Goto, IInv, TypeOK, treeVars
<1>2. Parts' = Parts /\ \A u \in Tools : Verifies(u)' = Verifies(u)
  BY <1>1 DEF Parts, Verifies, SnapshotVerifies, ArtifactsVerify
<1>3. TypeOK'
  BY <1>1, <1>2 DEF Rename, Goto, IInv, TypeOK, Places, Working
<1>4. onDisk' \in {dest', None}
  BY <1>1 DEF Rename, IInv
<1>5. ASSUME NEW u \in Tools PROVE Progress(u)'
  <2>1. CASE u = t
    BY <2>1, <1>1, <1>2
       DEF Progress, Flushed, OfItsKind, Prepared, Shown, Cleaning, Working
  <2>2. CASE u # t
    <3>1. /\ Progress(u) /\ pc'[u] = pc[u] /\ report'[u] = report[u]
          /\ dest # u /\ dest' # u /\ dest' \in Tools
          /\ u \in staged' <=> u \in staged
      BY <2>2, <1>1, PublicationAssumption DEF Rename, Goto, IInv, TypeOK
    <3> QED
      BY <3>1, <1>1, <1>2
         DEF Progress, Flushed, OfItsKind, Prepared, Shown, Cleaning
  <2> QED
    BY <2>1, <2>2
<1> QED
  BY <1>3, <1>4, <1>5 DEF IInv

\* A run that reports success is past everything but its clean-up.
LEMMA SucceedInv ==
  ASSUME IInv, NEW t \in Tools, pc[t] \in {"check", "parent"}, End(t, "success"),
         UNCHANGED <<kind, treeVars, staged, dest>>, onDisk' \in {dest, None},
         dest \in Tools
  PROVE  IInv'
<1>1. /\ pc' = [pc EXCEPT ![t] = pc'[t]] /\ pc'[t] \in {"cleanup", "over"}
      /\ report' = [report EXCEPT ![t] = "success"]
  BY DEF End, Leaves, IInv, TypeOK
<1>2. Progress(t)'
  <2>1. /\ Progress(t) /\ dest' = dest /\ kind' = kind /\ staged' = staged
        /\ pc'[t] = "cleanup" => t \in staged
    BY <1>1 DEF IInv, TypeOK, End
  <2>2. Parts' = Parts /\ Verifies(t)' = Verifies(t)
    BY DEF Parts, Verifies, SnapshotVerifies, ArtifactsVerify, treeVars
  <2> QED
    BY <1>1, <2>1, <2>2
       DEF Progress, Flushed, OfItsKind, Prepared, Shown, Cleaning, Working, treeVars
<1> QED
  BY <1>1, <1>2, MovesOn DEF Places

LEMMA ReuseInv == ASSUME IInv, NEW t \in Tools, Reuse(t) PROVE IInv'
  BY SucceedInv DEF Reuse, Accepted, Verifies, IInv, destVars

LEMMA SyncParentInv == ASSUME IInv, NEW t \in Tools, SyncParent(t) PROVE IInv'
<1>1. dest = t
  BY DEF SyncParent, IInv, Progress, Shown
<1> QED
  BY <1>1, SucceedInv DEF SyncParent

\* All that is at the destination is durable: a loss of power leaves it as it is.
LEMMA NothingDamaged ==
  ASSUME IInv, LosePower, dest' \in Tools
  PROVE  dest' = dest /\ Verifies(dest) /\ file' = file
<1>1. dest' = dest
  BY PublicationAssumption DEF LosePower, IInv
<1>2. Verifies(dest) /\ flushed[dest] = Parts /\ entered[dest] = Parts
  BY <1>1 DEF IInv, Progress, Shown
<1>3. PICK tree \in [Parts -> {"absent", "good", "bad"}] :
         /\ \A part \in Parts : tree[part] \in Remains(dest', part)
         /\ file' = [file EXCEPT ![dest'] = tree]
  BY DEF LosePower
<1>4. \A part \in Parts : Remains(dest, part) = {file[dest][part]}
  BY <1>2 DEF Remains
<1>5. file[dest] \in [Parts -> Contents]
  BY <1>1 DEF IInv, TypeOK
<1>6. tree = file[dest]
  BY <1>1, <1>3, <1>4, <1>5
<1> QED
  BY <1>1, <1>2, <1>3, <1>6 DEF IInv, TypeOK

LEMMA LosePowerInv == ASSUME IInv, LosePower PROVE IInv'
<1>1. Parts' = Parts
  BY DEF LosePower, Parts
<1>2. /\ kind' = kind /\ report' = report /\ staged' = staged
      /\ dest' \in {dest, None} /\ onDisk' = dest'
  BY DEF LosePower, IInv
<1>3. /\ pc' \in [Tools -> Places]
      /\ \A u \in Tools : /\ pc'[u] \in {"new", "over", "littered", "killed"}
                          /\ pc'[u] \in {"new", "over", "littered"} => pc'[u] = pc[u]
  BY DEF LosePower, Places
<1>4. CASE dest' \in Tools
  <2>1. dest' = dest /\ Verifies(dest) /\ file' = file
    BY <1>4, NothingDamaged
  <2>2. /\ flushed' = [flushed EXCEPT ![dest] = Parts]
        /\ entered' = [entered EXCEPT ![dest] = Parts]
    BY <1>4, <2>1 DEF LosePower
  <2>3. TypeOK'
    BY <1>1, <1>2, <1>3, <2>1, <2>2 DEF IInv, TypeOK
  <2>4. Verifies(dest)'
    BY <1>2, <2>1 DEF Verifies, SnapshotVerifies, ArtifactsVerify
  <2>5. ASSUME NEW u \in Tools PROVE Progress(u)'
    <3>1. Cleaning(u)'
      BY <1>3, <2>5 DEF Cleaning
    <3>2. dest' = u => Verifies(u)' /\ flushed'[u] = Parts /\ entered'[u] = Parts
      BY <1>4, <2>1, <2>2, <2>4 DEF IInv, TypeOK
    <3>3. Flushed(u)' /\ OfItsKind(u)' /\ Prepared(u)'
      BY <1>3, <2>5 DEF Flushed, OfItsKind, Prepared
    <3>4. Shown(u)'
      BY <1>1, <1>2, <1>3, <2>1, <2>5, <3>2 DEF IInv, Progress, Shown
    <3> QED
      BY <3>1, <3>3, <3>4 DEF Progress
  <2> QED
    BY <1>2, <2>3, <2>5 DEF IInv
<1>5. CASE dest' \notin Tools
  <2>1. UNCHANGED treeVars
    BY <1>5 DEF LosePower
  <2>2. TypeOK'
    BY <1>1, <1>2, <1>3, <2>1 DEF IInv, TypeOK, treeVars
  <2>3. ASSUME NEW u \in Tools PROVE Progress(u)'
    <3>1. Cleaning(u)'
      BY <1>3, <2>3 DEF Cleaning
    <3> QED
      BY <1>3, <1>5, <3>1 DEF Progress, Flushed, OfItsKind, Prepared, Shown
  <2> QED
    BY <1>2, <2>2, <2>3 DEF IInv
<1> QED
  BY <1>4, <1>5

-----------------------------------------------------------------------------
LEMMA NextInv == IInv /\ [Next]_vars => IInv'
<1> SUFFICES ASSUME IInv, [Next]_vars PROVE IInv'
  OBVIOUS
<1>1. ASSUME NEW t \in Tools, Tool(t) PROVE IInv'
  <2>1. ASSUME NEW part \in {"model", "licence"}, DownloadArtifact(t, part)
        PROVE  IInv'
    BY <2>1, DownloadArtifactInv
  <2> QED
    BY <1>1, <2>1, RefuseInv, FindExistingInv, MakeStagingInv, DownloadSnapshotInv,
       SyncTreeInv, WriteManifestInv, WriteMarkerInv, VerifyInv, SealInv, RenameInv,
       LoseRaceInv, ReuseInv, SyncParentInv, CleanUpInv, RaiseInv, KillInv DEF Tool
<1>2. ASSUME UNCHANGED vars PROVE IInv'
  <2>1. Parts' = Parts /\ \A u \in Tools : Verifies(u)' = Verifies(u)
    BY <1>2 DEF vars, treeVars, Parts, Verifies, SnapshotVerifies, ArtifactsVerify
  <2>2. TypeOK' /\ onDisk' \in {dest', None}
    BY <1>2, <2>1 DEF vars, treeVars, destVars, IInv, TypeOK
  <2>3. ASSUME NEW u \in Tools PROVE Progress(u)'
    BY <1>2, <2>1, <2>3, OthersKeep DEF vars, treeVars, destVars, IInv
  <2> QED
    BY <2>2, <2>3 DEF IInv
<1> QED
  BY <1>1, <1>2, LosePowerInv DEF Next

LEMMA Invariance == Spec => []IInv
  BY InitInv, NextInv, PTL DEF Spec

-----------------------------------------------------------------------------
\* How the promise sees the destination and the reports.
Content   == IF dest \in Tools /\ ~Verifies(dest) THEN "damaged" ELSE dest
Succeeded == {t \in Tools : pc[t] = "over" /\ report[t] = "success"}

LEMMA ContentIsDest ==
  ASSUME IInv, IInv' PROVE Content = dest /\ Content' = dest'
<1>1. Content = dest
  BY DEF IInv, Progress, Shown, Content
<1>2. Content' = dest'
  BY DEF IInv, Progress, Shown, Content
<1> QED
  BY <1>1, <1>2

\* A step of one run: it reports success, or nothing the promise would see.
LEMMA ReportEffect ==
  ASSUME IInv, NEW t \in Tools, NEW place, NEW outcome, pc[t] # "over",
         pc' = [pc EXCEPT ![t] = place], report' = [report EXCEPT ![t] = outcome]
  PROVE  Succeeded' = IF place = "over" /\ outcome = "success"
                      THEN Succeeded \cup {t} ELSE Succeeded
  BY DEF Succeeded, IInv, TypeOK

\* A run that goes on, or ends with nothing new to report.
LEMMA GoesOnUnseen ==
  ASSUME IInv, NEW t \in Tools, NEW place, pc[t] # "over", place # "over", Goto(t, place)
  PROVE  Succeeded' = Succeeded
<1>1. report' = [report EXCEPT ![t] = report[t]]
  BY DEF Goto, IInv, TypeOK
<1> QED
  BY <1>1, ReportEffect DEF Goto

\* The steps the promise does not see.
LEMMA UnseenAllowed ==
  ASSUME IInv, IInv', UNCHANGED destVars, Succeeded' = Succeeded
  PROVE  UNCHANGED Published!vars
<1>1. Content' = Content
  BY ContentIsDest DEF destVars
<1> QED
  BY <1>1 DEF Published!vars, Content, Succeeded, destVars

LEMMA InitImplements == Init => Published!Init
  BY PublicationAssumption DEF Init, Published!Init

\* A run that fails.
LEMMA FailsUnseen ==
  ASSUME IInv, NEW t \in Tools, pc[t] # "over", End(t, "failure")
  PROVE  Succeeded' = Succeeded
<1>1. PICK outcome : outcome = "failure"
  OBVIOUS
<1>2. PICK place : pc' = [pc EXCEPT ![t] = place]
  BY DEF End
<1>3. report' = [report EXCEPT ![t] = outcome] /\ outcome # "success"
  BY <1>1 DEF End
<1> QED
  BY <1>2, <1>3, ReportEffect

LEMMA StepImplements ==
  ASSUME IInv, IInv', [Next]_vars PROVE [Published!Next]_(Published!vars)
<1>1. Content = dest /\ Content' = dest'
  BY ContentIsDest
<1> USE DEF Content, Succeeded
<1>2. ASSUME NEW t \in Tools, Rename(t) PROVE Published!Publish(t)
  <2>1. dest = None /\ dest' = t /\ onDisk = None /\ onDisk' = None
    BY <1>2 DEF Rename, RenameSucceeds, IInv, destVars
  <2>2. Succeeded' = Succeeded
    BY <1>2, GoesOnUnseen DEF Rename
  <2> QED
    BY <1>1, <2>1, <2>2, PublicationAssumption DEF Published!Publish
<1>3. ASSUME NEW t \in Tools, SyncParent(t) PROVE Published!Confirm(t)
  <2>1. dest = t /\ dest' = t /\ onDisk' = t /\ t \notin staged'
    BY <1>3 DEF SyncParent, IInv, Progress, Shown
  <2>2. Succeeded' = Succeeded \cup {t}
    BY <1>3, <2>1, ReportEffect DEF SyncParent, End
  <2> QED
    BY <1>1, <2>1, <2>2 DEF Published!Confirm
<1>4. ASSUME NEW t \in Tools, Reuse(t)
      PROVE  Published!Reuse(t) \/ UNCHANGED Published!vars
  <2>1. dest \in Tools /\ dest # t
    BY <1>4 DEF Reuse, Accepted, Verifies, IInv, Progress, Shown
  <2>2. UNCHANGED destVars
    BY <1>4 DEF Reuse
  <2>3. \/ Succeeded' = Succeeded \cup {t}
        \/ Succeeded' = Succeeded
    BY <1>4, ReportEffect DEF Reuse, End
  <2> QED
    BY <1>1, <2>1, <2>2, <2>3, UnseenAllowed DEF Published!Reuse, destVars
<1>5. ASSUME NEW t \in Tools, CleanUp(t)
      PROVE  Published!Reuse(t) \/ UNCHANGED Published!vars
  <2>1. UNCHANGED destVars
    BY <1>5 DEF CleanUp
  <2>2. CASE Goto(t, "over") /\ report[t] = "success"
    <3>1. t \in staged /\ dest \in Tools
      BY <1>5, <2>2 DEF CleanUp, IInv, Progress, Cleaning
    <3>2. dest # t
      BY <3>1 DEF IInv, Progress, Shown
    <3>3. report' = [report EXCEPT ![t] = "success"]
      BY <2>2 DEF Goto, IInv, TypeOK
    <3>4. Succeeded' = Succeeded \cup {t}
      BY <1>5, <2>2, <3>3, ReportEffect DEF CleanUp, Goto
    <3> QED
      BY <1>1, <2>1, <3>1, <3>2, <3>4 DEF Published!Reuse, destVars
  <2>3. CASE Goto(t, "over") /\ report[t] # "success"
    <3>1. report' = [report EXCEPT ![t] = report[t]]
      BY <2>3 DEF Goto, IInv, TypeOK
    <3>2. Succeeded' = Succeeded
      BY <1>5, <2>3, <3>1, ReportEffect DEF CleanUp, Goto
    <3> QED
      BY <2>1, <3>2, UnseenAllowed
  <2>4. CASE /\ pc' = [pc EXCEPT ![t] = "littered"]
             /\ report' = [report EXCEPT ![t] = "failure"]
    <3>1. Succeeded' = Succeeded
      BY <1>5, <2>4, ReportEffect DEF CleanUp
    <3> QED
      BY <2>1, <3>1, UnseenAllowed
  <2> QED
    BY <1>5, <2>2, <2>3, <2>4 DEF CleanUp
<1>6. ASSUME LosePower PROVE Published!LosePower
  <2>1. dest' \in {dest, onDisk} /\ onDisk' = dest' /\ onDisk \in {dest, None}
    BY <1>6 DEF LosePower, IInv
  <2>2. Succeeded' = Succeeded
    BY <1>6 DEF LosePower
  <2> QED
    BY <1>1, <2>1, <2>2 DEF Published!LosePower
<1>7. ASSUME NEW t \in Tools, End(t, "failure"),
             \/ Refuse(t) \/ Raise(t)
             \/ \E part \in {"model", "licence"} : DownloadArtifact(t, part)
      PROVE  UNCHANGED Published!vars
  <2>1. UNCHANGED destVars /\ pc[t] # "over"
    BY <1>7 DEF Refuse, Raise, DownloadArtifact, Working
  <2>2. Succeeded' = Succeeded
    BY <1>7, <2>1, FailsUnseen
  <2> QED
    BY <2>1, <2>2, UnseenAllowed
<1>8. ASSUME NEW t \in Tools, NEW place, Goto(t, place), place # "over", pc[t] # "over",
             UNCHANGED destVars
      PROVE  UNCHANGED Published!vars
  BY <1>8, GoesOnUnseen, UnseenAllowed
<1>9. ASSUME NEW t \in Tools, Tool(t) PROVE [Published!Next]_(Published!vars)
  <2>1. ASSUME NEW part \in {"model", "licence"}, DownloadArtifact(t, part)
        PROVE  UNCHANGED Published!vars
    BY <2>1, <1>7, <1>8 DEF DownloadArtifact
  <2>2. CASE \/ FindExisting(t) \/ MakeStaging(t) \/ DownloadSnapshot(t) \/ SyncTree(t)
             \/ WriteManifest(t) \/ WriteMarker(t) \/ Verify(t) \/ Seal(t)
             \/ LoseRace(t) \/ Kill(t)
    BY <2>2, <1>8
       DEF FindExisting, MakeStaging, DownloadSnapshot, SyncTree, WriteManifest,
           WriteMarker, Verify, Seal, LoseRace, Kill, Working, destVars
  <2> QED
    BY <1>9, <1>2, <1>3, <1>4, <1>5, <1>7, <2>1, <2>2
       DEF Tool, Published!Next, Refuse, Raise
<1>10. CASE UNCHANGED vars
  <2>1. UNCHANGED destVars /\ Succeeded' = Succeeded
    BY <1>10 DEF vars
  <2> QED
    BY <2>1, UnseenAllowed
<1> QED
  BY <1>6, <1>9, <1>10 DEF Next, Published!Next

(* However many runs work for one destination, fail, are killed or lose     *)
(* their power, what is at the destination is the complete work of one run, *)
(* is never replaced, and is what success was reported of                   *)
(* (publish_directory, download_model, provision_vad_model).                *)
THEOREM PublicationIsAtomic == Spec => ImplementsPublication
<1>1. Spec => Published!Init
  BY InitImplements DEF Spec
<1>2. []IInv /\ [][Next]_vars => [][Published!Next]_(Published!vars)
  BY StepImplements, PTL
<1> QED
  BY <1>1, <1>2, Invariance, PTL DEF Spec, ImplementsPublication, Published!Spec

-----------------------------------------------------------------------------
\* Where a run ends is decided by whether its directory is still there.
LEMMA EndLeavesNone ==
  ASSUME NEW t \in Tools, pc \in [Tools -> Places], NEW outcome, End(t, outcome),
         LeavesNoStaging, UNCHANGED staged
  PROVE  LeavesNoStaging'
  BY DEF End, Leaves, LeavesNoStaging

(* A run that comes to its end by itself, in success or in failure, leaves  *)
(* no staging directory next to the destination, unless the removal of it   *)
(* is what failed (the finally blocks of download_model and                 *)
(* provision_vad_model).                                                    *)
THEOREM NoStagingIsLeft == Spec => []LeavesNoStaging
<1>1. Init => LeavesNoStaging
  BY DEF Init, LeavesNoStaging
<1>2. ASSUME IInv, LeavesNoStaging, [Next]_vars PROVE LeavesNoStaging'
  <2>1. pc \in [Tools -> Places]
    BY <1>2 DEF IInv, TypeOK
  <2>2. ASSUME NEW t \in Tools, Refuse(t) \/ Reuse(t) \/ SyncParent(t) \/ Raise(t)
        PROVE  LeavesNoStaging'
    BY <1>2, <2>1, <2>2, EndLeavesNone DEF Refuse, Reuse, SyncParent, Raise
  <2>3. ASSUME NEW t \in Tools, NEW part \in {"model", "licence"},
               DownloadArtifact(t, part)
        PROVE  LeavesNoStaging'
    <3>1. CASE Goto(t, IF part = "model" THEN "licence" ELSE "verify")
      BY <1>2, <2>1, <2>3, <3>1 DEF DownloadArtifact, Goto, LeavesNoStaging
    <3>2. CASE End(t, "failure")
      BY <1>2, <2>1, <2>3, <3>2, EndLeavesNone DEF DownloadArtifact
    <3> QED
      BY <2>3, <3>1, <3>2 DEF DownloadArtifact
  <2>4. ASSUME NEW t \in Tools,
               \/ FindExisting(t) \/ MakeStaging(t) \/ DownloadSnapshot(t) \/ SyncTree(t)
               \/ WriteManifest(t) \/ WriteMarker(t) \/ Verify(t) \/ Seal(t)
               \/ LoseRace(t) \/ Kill(t) \/ Rename(t) \/ CleanUp(t)
        PROVE  LeavesNoStaging'
    BY <1>2, <2>1, <2>4
       DEF FindExisting, MakeStaging, DownloadSnapshot, SyncTree, WriteManifest,
           WriteMarker, Verify, Seal, LoseRace, Kill, Rename, CleanUp, Goto,
           LeavesNoStaging
  <2>5. ASSUME LosePower PROVE LeavesNoStaging'
    BY <1>2, <2>1, <2>5 DEF LosePower, LeavesNoStaging
  <2>6. ASSUME UNCHANGED vars PROVE LeavesNoStaging'
    BY <1>2, <2>6 DEF vars, LeavesNoStaging
  <2> QED
    BY <1>2, <2>2, <2>3, <2>4, <2>5, <2>6 DEF Next, Tool
<1> QED
  BY <1>1, <1>2, Invariance, PTL DEF Spec
=============================================================================
