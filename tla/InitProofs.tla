----------------------------- MODULE InitProofs -----------------------------
(***************************************************************************)
(* Proofs about racing inits of one root, for every set of callers, every  *)
(* schema and any number of storage errors and crashes.  RaceInv is what   *)
(* every interleaving keeps, and RivalInv that only callers let through to *)
(* write take files from one another; TurnInv, and StrictInv with          *)
(* StrictReads, are what callers that take turns, and strict callers       *)
(* without storage errors, keep besides.                                   *)
(***************************************************************************)
EXTENDS InitGraph, TLAPS

InitStep(i) ==
    \/ ForcePreflight(i) \/ StrictPreflight(i) \/ PreflightFails(i)
    \/ Claim(i) \/ ClaimFails(i) \/ OverwriteSource(i) \/ WriteContract(i)
    \/ CreateDataset(i) \/ CreateManifest(i) \/ Finish(i)
    \/ Cleanup(i) \/ DeleteFails(i) \/ IoFails(i) \/ Crash(i)

root == <<file, dataset, manifest, pc, claimed, undeleted, faults>>

\* What a step of caller a leaves of the root and of the other callers.
Acted(a) ==
    /\ \A j \in Inits \ {a} : pc'[j] = pc[j]
    /\ \A f \in Files : file'[f] \in {file[f], None, a}
    /\ \A p \in AllPaths : dataset'[p] = dataset[p] \/ (dataset[p] = None /\ dataset'[p] = a)
    /\ manifest' = manifest \/ (manifest = None /\ manifest' = a)
    /\ claimed \subseteq claimed' /\ undeleted \subseteq undeleted'

\* Where each step takes its caller.
Landing(a) ==
    \/ ForcePreflight(a) /\ pc[a] = "start" /\ pc'[a] \in {"pg", "err"} /\ a \in Forced
    \/ /\ StrictPreflight(a) /\ pc[a] \in {"start", "check_ir", "check_state"}
       /\ pc'[a] \in {"check_ir", "check_state", "claim", "err"}
    \/ /\ PreflightFails(a) /\ pc[a] \in {"start", "check_ir", "check_state"}
       /\ pc'[a] = "err"
    \/ Claim(a) /\ pc[a] = "claim" /\ pc'[a] \in {"ir", "err"}
    \/ ClaimFails(a) /\ pc[a] = "claim" /\ pc'[a] = "lost"
    \/ OverwriteSource(a) /\ pc[a] = "pg" /\ pc'[a] = "ir"
    \/ WriteContract(a) /\ pc[a] = "ir" /\ pc'[a] = "state"
    \/ WriteContract(a) /\ pc[a] = "state" /\ pc'[a] = "datasets"
    \/ CreateDataset(a) /\ pc[a] = "datasets" /\ pc'[a] \in {"datasets", "clean_pg"}
    \/ CreateManifest(a) /\ pc[a] = "datasets" /\ pc'[a] \in {"readback", "clean_pg"}
    \/ Finish(a) /\ pc[a] = "readback" /\ pc'[a] = "ok"
    \/ Cleanup(a) /\ pc[a] \in DOMAIN CleaningAt /\ pc'[a] = AfterClean[pc[a]]
    \/ DeleteFails(a) /\ pc[a] \in DOMAIN CleaningAt /\ pc'[a] = AfterClean[pc[a]]
    \/ /\ IoFails(a) /\ pc[a] \in {"pg", "ir", "state", "datasets", "readback"}
       /\ pc'[a] = "clean_pg"
    \/ Crash(a) /\ pc'[a] = "dead"

-----------------------------------------------------------------------------
\* The points of the clean-up, and the files they delete.
LEMMA CleanPoints ==
    /\ DOMAIN CleaningAt = {"clean_pg", "clean_ir", "clean_state"}
    /\ CleaningAt["clean_pg"] = "pg" /\ AfterClean["clean_pg"] = "clean_ir"
    /\ CleaningAt["clean_ir"] = "ir" /\ AfterClean["clean_ir"] = "clean_state"
    /\ CleaningAt["clean_state"] = "state" /\ AfterClean["clean_state"] = "err"
  BY DEF CleaningAt, AfterClean

\* The schema files deleted by each point of the clean-up.
LEMMA DeletedAt ==
    /\ DOMAIN Deleted = {"clean_pg", "clean_ir", "clean_state", "err"}
    /\ Deleted["clean_pg"] = {} /\ Deleted["clean_ir"] = {"pg"}
    /\ Deleted["clean_state"] = {"pg", "ir"} /\ Deleted["err"] = Files
  BY DEF Deleted

\* The schema files written by each point past the claim.
LEMMA WrittenAt ==
    /\ DOMAIN Written = {"ir", "state", "datasets", "readback", "ok"}
    /\ Written["ir"] = {"pg"} /\ Written["state"] = {"pg", "ir"}
    /\ Written["datasets"] = Files /\ Written["readback"] = Files /\ Written["ok"] = Files
  BY DEF Written

\* The preflight of a strict caller looks at one file after the other.
LEMMA Preflight ==
    ASSUME NEW i, StrictPreflight(i)
    PROVE  \/ pc[i] = "start" /\ To(i, IF file["pg"] = None THEN "check_ir" ELSE "err")
           \/ pc[i] = "check_ir" /\ To(i, IF file["ir"] = None THEN "check_state" ELSE "err")
           \/ pc[i] = "check_state" /\ To(i, IF file["state"] = None THEN "claim" ELSE "err")
  <1>1. PICK n \in 1..3 : /\ pc[i] = CheckAt(n)
                          /\ To(i, IF file[Checks[n]] = None THEN AfterCheck(n) ELSE "err")
    BY Zenon DEF StrictPreflight
  <1>2. n = 1 \/ n = 2 \/ n = 3
    BY <1>1
  <1>3. /\ CheckAt(1) = "start" /\ AfterCheck(1) = "check_ir" /\ Checks[1] = "pg"
        /\ CheckAt(2) = "check_ir" /\ AfterCheck(2) = "check_state" /\ Checks[2] = "ir"
        /\ CheckAt(3) = "check_state" /\ AfterCheck(3) = "claim" /\ Checks[3] = "state"
    BY DEF CheckAt, AfterCheck, Checks
  <1>. QED  BY <1>1, <1>2, <1>3, Zenon

\* Every step is one caller's, or changes nothing on the root.
LEMMA Actor ==
    ASSUME [Next]_vars
    PROVE  UNCHANGED root \/ \E a \in Inits : InitStep(a)
  BY Zenon DEF Next, vars, root, InitStep, OpenRead, OpenVerdict, Done

\* A caller's step moves only its own point.
LEMMA ActorStep ==
    ASSUME TypeOK, NEW a \in Inits, InitStep(a)
    PROVE  Acted(a)
  <1>0. /\ file \in [Files -> Inits \cup {None}] /\ dataset \in [AllPaths -> Inits \cup {None}]
        /\ pc \in [Inits -> Points]
    BY Zenon DEF TypeOK
  <1>1. \A j \in Inits \ {a} : pc'[j] = pc[j]
    <2>1. UNCHANGED pc \/ \E p : To(a, p)
      BY Zenon DEF InitStep, ForcePreflight, StrictPreflight, PreflightFails, Claim, ClaimFails,
         OverwriteSource, WriteContract, CreateDataset, CreateManifest, Finish, Cleanup,
         DeleteFails, IoFails, Crash
    <2>. QED  BY <1>0, <2>1, Zenon DEF To
  <1>2. \A f \in Files : file'[f] \in {file[f], None, a}
    <2>1. UNCHANGED file \/ \E g, x : x \in {None, a} /\ file' = [file EXCEPT ![g] = x]
      BY Zenon DEF InitStep, ForcePreflight, StrictPreflight, PreflightFails, Claim, ClaimFails,
         OverwriteSource, WriteContract, CreateDataset, CreateManifest, Finish, Cleanup,
         DeleteFails, IoFails, Crash
    <2>. QED  BY <1>0, <2>1, Zenon
  <1>3. \A p \in AllPaths : dataset'[p] = dataset[p] \/ (dataset[p] = None /\ dataset'[p] = a)
    <2>1. UNCHANGED dataset \/ \E q : dataset[q] = None /\ dataset' = [dataset EXCEPT ![q] = a]
      BY Zenon DEF InitStep, ForcePreflight, StrictPreflight, PreflightFails, Claim, ClaimFails,
         OverwriteSource, WriteContract, CreateDataset, CreateManifest, Finish, Cleanup,
         DeleteFails, IoFails, Crash
    <2>. QED  BY <1>0, <2>1, Zenon
  <1>4. manifest' = manifest \/ (manifest = None /\ manifest' = a)
    BY Zenon DEF InitStep, ForcePreflight, StrictPreflight, PreflightFails, Claim, ClaimFails,
       OverwriteSource, WriteContract, CreateDataset, CreateManifest, Finish, Cleanup, DeleteFails,
       IoFails, Crash
  <1>5. claimed \subseteq claimed' /\ undeleted \subseteq undeleted'
    BY Zenon DEF InitStep, ForcePreflight, StrictPreflight, PreflightFails, Claim, ClaimFails,
       OverwriteSource, WriteContract, CreateDataset, CreateManifest, Finish, Cleanup, DeleteFails,
       IoFails, Crash
  <1>. QED  BY <1>1, <1>2, <1>3, <1>4, <1>5, Zenon DEF Acted

\* A step takes its caller where its action says, and a failure past the claim
\* to the clean-up.
LEMMA Lands ==
    ASSUME TypeOK, NEW a \in Inits, InitStep(a),
           pc[a] \notin Checking \cup {"err", "lost", "dead"} => a \in claimed
    PROVE  Landing(a)
  <1>0. pc \in [Inits -> Points]
    BY Zenon DEF TypeOK
  <1>1. \A p : To(a, p) => pc'[a] = p
    BY <1>0, Zenon DEF To
  <1>2. pc[a] \in {"pg", "ir", "state", "datasets", "readback"} => Cleans(a) = "clean_pg"
    BY Zenon DEF Cleans, Checking
  <1>3. CASE StrictPreflight(a)
    BY <1>1, <1>3, Preflight, Zenon DEF Landing
  <1>4. CASE CreateDataset(a)
    BY <1>1, <1>2, <1>4, Zenon DEF CreateDataset, Landing
  <1>5. CASE CreateManifest(a) \/ IoFails(a)
    BY <1>1, <1>2, <1>5, Zenon DEF CreateManifest, IoFails, Landing
  <1>6. CASE Claim(a) \/ OverwriteSource(a) \/ Finish(a) \/ Crash(a)
    BY <1>1, <1>6, Zenon DEF Claim, OverwriteSource, Finish, Crash, Landing
  <1>9. CASE ForcePreflight(a)
    BY <1>1, <1>9, Zenon DEF ForcePreflight, Landing
  <1>10. CASE PreflightFails(a) \/ ClaimFails(a)
    BY <1>1, <1>10, Zenon DEF PreflightFails, ClaimFails, Landing
  <1>7. CASE WriteContract(a)
    BY <1>1, <1>7, Zenon DEF WriteContract, Landing
  <1>8. CASE Cleanup(a) \/ DeleteFails(a)
    BY <1>1, <1>8, Zenon DEF Cleanup, DeleteFails, Landing
  <1>. QED  BY <1>3, <1>4, <1>5, <1>6, <1>7, <1>8, <1>9, <1>10, Zenon DEF InitStep, Landing

\* Every step keeps the types.
LEMMA TypeStep ==
    ASSUME RaceInv, [Next]_vars PROVE TypeOK'
  <1>0. /\ TypeOK /\ file \in [Files -> Inits \cup {None}]
        /\ dataset \in [AllPaths -> Inits \cup {None}]
        /\ manifest \in Inits \cup {None} /\ pc \in [Inits -> Points]
        /\ opc \in [Openers -> OpenPoints]
        /\ seen \in [Openers -> [Files \cup {"manifest"} -> Inits \cup {None}]]
    BY Zenon DEF RaceInv, TypeOK
  <1>1. CASE UNCHANGED root
    <2>1. opc' \in [Openers -> OpenPoints]
      <3>1. \/ UNCHANGED opc
            \/ \E o \in Openers, p \in OpenPoints : opc' = [opc EXCEPT ![o] = p]
        <4>1. \A p \in DOMAIN ReadStep : ReadStep[p] \in OpenPoints
          BY DEF ReadStep, OpenPoints
        <4>2. "opened" \in OpenPoints /\ "refused" \in OpenPoints
          BY Zenon DEF OpenPoints
        <4>3. ASSUME NEW o \in Openers, OpenVerdict(o) PROVE <3>1!2
          BY <4>2, <4>3, Zenon DEF OpenVerdict
        <4>4. ASSUME NEW o \in Openers, OpenRead(o) PROVE <3>1!2
          BY <4>1, <4>2, <4>4, Zenon DEF OpenRead
        <4>5. ASSUME NEW a \in Inits, InitStep(a) PROVE UNCHANGED opc
          BY <4>5, Zenon DEF InitStep, ForcePreflight, StrictPreflight, PreflightFails, Claim,
             ClaimFails, OverwriteSource, WriteContract, CreateDataset, CreateManifest, Finish,
             Cleanup, DeleteFails, IoFails, Crash
        <4>. QED  BY <4>3, <4>4, <4>5, Zenon DEF Next, vars, Done, InitStep
      <3>. QED  BY <1>0, <3>1, Zenon
    <2>2. seen' \in [Openers -> [Files \cup {"manifest"} -> Inits \cup {None}]]
      <3>1. ASSUME NEW o \in Openers, OpenRead(o) PROVE <2>2
        <4>1. Content(opc[o]) \in Inits \cup {None} /\ opc[o] \in Files \cup {"manifest"}
          BY <1>0, <3>1 DEF OpenRead, Content, ReadStep, Files
        <4>. QED  BY <1>0, <3>1, <4>1, Zenon DEF OpenRead
      <3>2. CASE UNCHANGED seen
        BY <1>0, <3>2, Zenon
      <3>3. ASSUME NEW a \in Inits, InitStep(a) PROVE UNCHANGED seen
        BY <3>3, Zenon DEF InitStep, ForcePreflight, StrictPreflight, PreflightFails, Claim,
           ClaimFails, OverwriteSource, WriteContract, CreateDataset, CreateManifest, Finish,
           Cleanup, DeleteFails, IoFails, Crash
      <3>. QED  BY <3>1, <3>2, <3>3, Zenon DEF Next, vars, Done, InitStep, OpenVerdict
    <2>. QED  BY <1>0, <1>1, <2>1, <2>2, Zenon DEF root, TypeOK
  <1>2. ASSUME NEW a \in Inits, InitStep(a) PROVE TypeOK'
    <2>1. Acted(a)
      BY <1>0, <1>2, ActorStep, Zenon
    <2>2. file' \in [Files -> Inits \cup {None}]
      <3>1. UNCHANGED file \/ \E g, x : x \in {None, a} /\ file' = [file EXCEPT ![g] = x]
        BY <1>2, Zenon DEF InitStep, ForcePreflight, StrictPreflight, PreflightFails, Claim,
           ClaimFails, OverwriteSource, WriteContract, CreateDataset, CreateManifest, Finish,
           Cleanup, DeleteFails, IoFails, Crash
      <3>. QED  BY <1>0, <3>1, Zenon
    <2>3. dataset' \in [AllPaths -> Inits \cup {None}]
      <3>1. UNCHANGED dataset \/ \E q : dataset' = [dataset EXCEPT ![q] = a]
        BY <1>2, Zenon DEF InitStep, ForcePreflight, StrictPreflight, PreflightFails, Claim,
           ClaimFails, OverwriteSource, WriteContract, CreateDataset, CreateManifest, Finish,
           Cleanup, DeleteFails, IoFails, Crash
      <3>. QED  BY <1>0, <3>1, Zenon
    <2>4. manifest' \in Inits \cup {None}
      BY <1>0, <2>1, Zenon DEF Acted
    <2>5. pc' \in [Inits -> Points]
      <3>1. pc'[a] \in Points
        <4>1. pc[a] \notin Checking \cup {"err", "lost", "dead"} => a \in claimed
          BY Zenon DEF RaceInv
        <4>. QED  BY <1>0, <1>2, <4>1, Lands, CleanPoints, Zenon DEF Landing, Points,
            Unclaimed, Checking, Files, Ended
      <3>2. UNCHANGED pc \/ \E p : To(a, p)
        BY <1>2, Zenon DEF InitStep, ForcePreflight, StrictPreflight, PreflightFails, Claim,
           ClaimFails, OverwriteSource, WriteContract, CreateDataset, CreateManifest, Finish,
           Cleanup, DeleteFails, IoFails, Crash
      <3>. QED  BY <1>0, <3>1, <3>2, Zenon DEF To
    <2>6. UNCHANGED <<opc, seen>>
      BY <1>2, Zenon DEF InitStep, ForcePreflight, StrictPreflight, PreflightFails, Claim,
         ClaimFails, OverwriteSource, WriteContract, CreateDataset, CreateManifest, Finish, Cleanup,
         DeleteFails, IoFails, Crash
    <2>. QED  BY <1>0, <2>2, <2>3, <2>4, <2>5, <2>6, Zenon DEF TypeOK
  <1>. QED  BY <1>1, <1>2, Actor

\* The datasets of the manifest's creator never change hands.
LEMMA BackedStep ==
    ASSUME RaceInv, [Next]_vars, None \notin Inits PROVE ManifestIsBacked'
  <1>0. TypeOK /\ ManifestIsBacked
    BY Zenon DEF RaceInv
  <1>1. CASE UNCHANGED root
    BY <1>0, <1>1, Zenon DEF root, ManifestIsBacked, PathsOf
  <1>2. ASSUME NEW a \in Inits, InitStep(a) PROVE ManifestIsBacked'
    <2>1. Acted(a)
      BY <1>0, <1>2, ActorStep, Zenon
    <2>2. SUFFICES ASSUME manifest' # None, NEW p \in ToSet(PathsOf(manifest'))
                   PROVE  dataset'[p] = manifest'
      BY Zenon DEF ManifestIsBacked, PathsOf
    <2>3. manifest' \in Inits
      BY <1>2, TypeStep, <2>2, Zenon DEF TypeOK
    <2>4. p \in AllPaths
      BY <2>3, Zenon DEF AllPaths
    <2>5. CASE manifest' = manifest
      <3>1. dataset[p] = manifest
        BY <1>0, <2>2, <2>5, Zenon DEF ManifestIsBacked
      <3>. QED  BY <2>1, <2>2, <2>4, <2>5, <3>1, Zenon DEF Acted
    <2>6. CASE manifest' # manifest
      <3>1. manifest' = a /\ Left(a) = {} /\ UNCHANGED dataset
        BY <1>2, <2>6, Zenon DEF InitStep, ForcePreflight, StrictPreflight, PreflightFails, Claim,
           ClaimFails, OverwriteSource, WriteContract, CreateDataset, CreateManifest, Finish,
           Cleanup, DeleteFails, IoFails, Crash
      <3>2. PICK n \in DOMAIN PathsOf(a) : p = PathsOf(a)[n]
        BY <3>1, Zenon DEF ToSet
      <3>. QED  BY <3>1, <3>2, Zenon DEF Left
    <2>. QED  BY <2>5, <2>6
  <1>. QED  BY <1>1, <1>2, Actor

\* What a caller has made by its point, with the steps of the others.
LEMMA OthersKeep ==
    ASSUME RaceInv, None \notin Inits, NEW a \in Inits, InitStep(a), NEW i \in Inits, i # a
    PROVE  /\ pc'[i] = pc[i]
           /\ \A f \in Files : file[f] # i => file'[f] # i
           /\ manifest = i => manifest' = i
           /\ manifest # i => manifest' # i
           /\ i \in claimed => i \in claimed'
           /\ i \in undeleted => i \in undeleted'
  <1>1. Acted(a)
    BY ActorStep, Zenon DEF RaceInv
  <1>. QED  BY <1>1, Zenon DEF Acted

\* What a caller's own step does to the files, the claim and the manifest.
LEMMA OwnStep ==
    ASSUME RaceInv, None \notin Inits, NEW a \in Inits, InitStep(a)
    PROVE  /\ pc'[a] \in Unclaimed => \A f \in Files : file'[f] # a
           /\ pc'[a] \notin Checking \cup {"err", "lost", "dead"} => a \in claimed'
           /\ pc'[a] \in DOMAIN Deleted /\ a \notin undeleted' =>
                \A f \in Deleted[pc'[a]] : file'[f] # a
           /\ pc'[a] = "lost" => \A f \in Files \ {"pg"} : file'[f] # a
           /\ pc'[a] \in {"readback", "ok"} => manifest' = a
           /\ pc'[a] \in Unclaimed \cup Files \cup {"datasets"} => manifest' # a
  <1>0. /\ TypeOK /\ file \in [Files -> Inits \cup {None}]
        /\ pc[a] \in Unclaimed => \A f \in Files : file[f] # a
        /\ pc[a] \notin Checking \cup {"err", "lost", "dead"} => a \in claimed
        /\ pc[a] \in DOMAIN Deleted /\ a \notin undeleted =>
             \A f \in Deleted[pc[a]] : file[f] # a
        /\ pc[a] \in {"readback", "ok"} => manifest = a
        /\ pc[a] \in Unclaimed \cup Files \cup {"datasets"} => manifest # a
    BY Zenon DEF RaceInv, TypeOK
  <1>1. CASE ForcePreflight(a) /\ pc[a] = "start" /\ pc'[a] \in {"pg", "err"} /\ a \in Forced
    <2>1. UNCHANGED <<file, manifest>> /\ (pc'[a] = "pg" => a \in claimed')
      <3>1. \A p : To(a, p) => pc'[a] = p
        BY <1>0, Zenon DEF To, TypeOK
      <3>2. CASE manifest = None
        BY <1>1, <3>2, Zenon DEF ForcePreflight
      <3>3. CASE manifest # None
        BY <1>1, <3>1, <3>3, Zenon DEF ForcePreflight
      <3>. QED  BY <3>2, <3>3
    <2>2. \A f \in Files : file[f] # a
      BY <1>0, <1>1, Zenon DEF Unclaimed, Checking
    <2>. QED  BY <1>0, <1>1, <2>1, <2>2, DeletedAt, Zenon DEF Unclaimed, Checking, Files
  <1>2. CASE /\ StrictPreflight(a) /\ pc[a] \in {"start", "check_ir", "check_state"}
             /\ pc'[a] \in {"check_ir", "check_state", "claim", "err"}
    BY <1>0, <1>2, DeletedAt, Zenon DEF StrictPreflight, Unclaimed, Checking, Files
  <1>3. CASE Claim(a) /\ pc[a] = "claim" /\ pc'[a] \in {"ir", "err"}
    <2>1. \/ a \in claimed' /\ pc'[a] = "ir"
          \/ UNCHANGED file /\ pc'[a] = "err"
      BY <1>0, <1>3, Zenon DEF Claim, To, TypeOK
    <2>2. UNCHANGED <<manifest, undeleted>>
      BY <1>3, Zenon DEF Claim
    <2>. QED  BY <1>0, <1>3, <2>1, <2>2, DeletedAt, Zenon DEF Unclaimed, Checking, Files
  <1>4. CASE \/ OverwriteSource(a) /\ pc[a] = "pg" /\ pc'[a] = "ir"
             \/ WriteContract(a) /\ pc[a] = "ir" /\ pc'[a] = "state"
             \/ WriteContract(a) /\ pc[a] = "state" /\ pc'[a] = "datasets"
    <2>1. UNCHANGED <<manifest, claimed, undeleted>>
      BY <1>4, Zenon DEF OverwriteSource, WriteContract
    <2>. QED  BY <1>0, <1>4, <2>1, DeletedAt, Zenon DEF Unclaimed, Checking, Files
  <1>5. CASE CreateDataset(a) /\ pc[a] = "datasets" /\ pc'[a] \in {"datasets", "clean_pg"}
    <2>1. UNCHANGED <<manifest, claimed, undeleted>>
      BY <1>5, Zenon DEF CreateDataset
    <2>. QED  BY <1>0, <1>5, <2>1, DeletedAt, Zenon DEF Unclaimed, Checking, Files
  <1>6. CASE CreateManifest(a) /\ pc[a] = "datasets" /\ pc'[a] \in {"readback", "clean_pg"}
    <2>1. /\ UNCHANGED <<claimed, undeleted>>
          /\ pc'[a] = "readback" => manifest' = a
      <3>1. CASE manifest = None
        BY <1>6, <3>1, Zenon DEF CreateManifest
      <3>2. CASE manifest # None
        <4>1. pc'[a] = "clean_pg"
          BY <1>0, <1>6, <3>2, Zenon DEF CreateManifest, To, TypeOK, Cleans, Checking
        <4>. QED  BY <1>6, <4>1, Zenon DEF CreateManifest
      <3>. QED  BY <3>1, <3>2
    <2>. QED  BY <1>0, <1>6, <2>1, DeletedAt, Zenon DEF Unclaimed, Checking, Files
  <1>7. CASE Finish(a) /\ pc[a] = "readback" /\ pc'[a] = "ok"
    BY <1>0, <1>7, DeletedAt, Zenon DEF Finish, Unclaimed, Checking, Files
  <1>8. CASE Cleanup(a) /\ pc[a] \in DOMAIN CleaningAt /\ pc'[a] = AfterClean[pc[a]]
    <2>1. UNCHANGED <<manifest, claimed, undeleted>>
      BY <1>8, Zenon DEF Cleanup
    <2>2. pc'[a] \in {"clean_ir", "clean_state", "err"}
      BY <1>8, CleanPoints, Zenon
    <2>3. ASSUME a \notin undeleted, NEW f \in Deleted[pc'[a]] PROVE file'[f] # a
      <3>1. file' = [file EXCEPT ![CleaningAt[pc[a]]] = None]
        BY <1>8, Zenon DEF Cleanup
      <3>2. f = CleaningAt[pc[a]] \/ f \in Deleted[pc[a]]
        BY <1>8, <2>3, CleanPoints, DeletedAt, Zenon DEF Files
      <3>3. f \in Files
        BY <2>2, <2>3, DeletedAt, Zenon DEF Files
      <3>4. pc[a] \in DOMAIN Deleted
        BY <1>8, CleanPoints, DeletedAt, Zenon
      <3>. QED  BY <1>0, <2>3, <3>1, <3>2, <3>3, <3>4, Zenon
    <2>. QED  BY <1>0, <1>8, <2>1, <2>2, <2>3, CleanPoints, Zenon DEF Unclaimed, Checking, Files
  <1>9. CASE DeleteFails(a) /\ pc[a] \in DOMAIN CleaningAt /\ pc'[a] = AfterClean[pc[a]]
    <2>1. UNCHANGED <<manifest, claimed>> /\ a \in undeleted'
      BY <1>9, Zenon DEF DeleteFails
    <2>2. pc'[a] \in {"clean_ir", "clean_state", "err"}
      BY <1>9, CleanPoints, Zenon
    <2>. QED  BY <1>0, <1>9, <2>1, <2>2, CleanPoints, Zenon DEF Unclaimed, Checking, Files
  <1>10. CASE /\ IoFails(a) /\ pc[a] \in {"pg", "ir", "state", "datasets", "readback"}
              /\ pc'[a] = "clean_pg"
    <2>1. UNCHANGED <<claimed, undeleted>>
      BY <1>10, Zenon DEF IoFails
    <2>. QED  BY <1>0, <1>10, <2>1, DeletedAt, Zenon DEF Unclaimed, Checking, Files
  <1>13. CASE /\ PreflightFails(a) /\ pc[a] \in {"start", "check_ir", "check_state"}
              /\ pc'[a] = "err"
    BY <1>0, <1>13, DeletedAt, Zenon DEF PreflightFails, Unclaimed, Checking, Files
  <1>14. CASE ClaimFails(a) /\ pc[a] = "claim" /\ pc'[a] = "lost"
    <2>1. ASSUME NEW f \in Files \ {"pg"} PROVE file'[f] # a
      <3>1. file[f] # a
        BY <1>0, <1>14, <2>1, Zenon DEF Unclaimed, Checking
      <3>. QED  BY <1>0, <1>14, <2>1, <3>1, Zenon DEF ClaimFails
    <2>. QED  BY <1>14, <2>1, DeletedAt, Zenon DEF Unclaimed, Checking, Files
  <1>11. CASE Crash(a) /\ pc'[a] = "dead"
    BY <1>11, DeletedAt, Zenon DEF Unclaimed, Checking, Files
  <1>12. Landing(a)
    BY <1>0, Lands, Zenon
  <1>. QED  BY <1>1, <1>2, <1>3, <1>4, <1>5, <1>6, <1>7, <1>8, <1>9, <1>10, <1>11, <1>12,
            <1>13, <1>14 DEF Landing

\* The points of an open, and what it has read by each.
LEMMA OpenPointsRead ==
    /\ DOMAIN ReadStep = {"manifest", "pg", "ir", "state"}
    /\ ReadStep["manifest"] = "pg" /\ ReadStep["pg"] = "ir" /\ ReadStep["ir"] = "state"
    /\ ReadStep["state"] = "verdict"
    /\ ReadBy["manifest"] = {} /\ ReadBy["pg"] = {"manifest"} /\ ReadBy["ir"] = {"manifest", "pg"}
    /\ ReadBy["state"] = {"manifest", "pg", "ir"} /\ ReadBy["refused"] = {}
    /\ ReadBy["verdict"] = Files \cup {"manifest"} /\ ReadBy["opened"] = Files \cup {"manifest"}
  BY DEF ReadStep, ReadBy

\* What an open knows at its point.
Knows(o) ==
    /\ \A x \in ReadBy[opc[o]] : seen[o][x] # None
    /\ seen[o]["manifest"] \in {None, manifest}
    /\ opc[o] = "opened" => TablesMatch(seen[o]["ir"], seen[o]["manifest"])

\* The manifest is made once, so what an open has read of it stays true; and an
\* open gets to its verdict only with all four files.
LEMMA OpenStep ==
    ASSUME RaceInv, [Next]_vars, NEW o \in Openers PROVE Knows(o)'
  <1>0. /\ Knows(o) /\ TypeOK /\ opc \in [Openers -> OpenPoints]
        /\ seen \in [Openers -> [Files \cup {"manifest"} -> Inits \cup {None}]]
    BY Zenon DEF RaceInv, TypeOK, Knows
  <1>1. ASSUME NEW r \in Openers, OpenRead(r) PROVE Knows(o)'
    <2>1. manifest' = manifest
      BY <1>1, Zenon DEF OpenRead
    <2>2. CASE r # o
      <3>1. opc'[o] = opc[o] /\ seen'[o] = seen[o]
        BY <1>0, <1>1, <2>2, Zenon DEF OpenRead
      <3>. QED  BY <1>0, <2>1, <3>1, Zenon DEF Knows
    <2>3. CASE r = o
      <3> DEFINE p == opc[o]
                 c == Content(opc[o])
      <3>1. /\ p \in DOMAIN ReadStep
            /\ opc'[o] = IF c = None THEN "refused" ELSE ReadStep[p]
            /\ seen'[o] = [seen[o] EXCEPT ![p] = c]
        BY <1>0, <1>1, <2>3, Zenon DEF OpenRead
      <3>2. p \in {"manifest", "pg", "ir", "state"}
        BY <3>1, OpenPointsRead, Zenon
      <3>3. DOMAIN seen[o] = Files \cup {"manifest"}
        BY <1>0, Zenon
      <3>4. \A x \in Files \cup {"manifest"} : seen'[o][x] = IF x = p THEN c ELSE seen[o][x]
        BY <3>1, <3>3, Zenon
      <3>5. seen'[o]["manifest"] \in {None, manifest}
        <4>1. p = "manifest" => c = manifest
          BY Zenon DEF Content
        <4>. QED  BY <1>0, <3>4, <4>1, Zenon DEF Knows
      <3>6. opc'[o] # "opened"
        BY <3>1, <3>2, OpenPointsRead, Zenon
      <3>7. ASSUME NEW x \in ReadBy[opc'[o]] PROVE seen'[o][x] # None
        <4>1. c # None /\ opc'[o] = ReadStep[p]
          BY <3>1, <3>7, OpenPointsRead, Zenon
        <4>2. x = p \/ x \in ReadBy[p]
          BY <3>2, <3>7, <4>1, OpenPointsRead, Zenon DEF Files
        <4>3. x \in Files \cup {"manifest"}
          BY <3>2, <3>7, <4>1, OpenPointsRead, Zenon DEF Files
        <4>. QED  BY <1>0, <3>4, <4>1, <4>2, <4>3, Zenon DEF Knows
      <3>. QED  BY <2>1, <3>5, <3>6, <3>7, Zenon DEF Knows
    <2>. QED  BY <2>2, <2>3
  <1>2. ASSUME NEW r \in Openers, OpenVerdict(r) PROVE Knows(o)'
    <2>1. seen' = seen /\ manifest' = manifest /\ opc[r] = "verdict"
      BY <1>2, Zenon DEF OpenVerdict
    <2>2. CASE r # o
      <3>1. opc'[o] = opc[o]
        BY <1>0, <1>2, <2>2, Zenon DEF OpenVerdict
      <3>. QED  BY <1>0, <2>1, <3>1, Zenon DEF Knows
    <2>3. CASE r = o
      <3>1. \/ opc'[o] = "refused"
            \/ opc'[o] = "opened" /\ TablesMatch(seen[o]["ir"], seen[o]["manifest"])
        BY <1>0, <1>2, <2>3, Zenon DEF OpenVerdict
      <3>. QED  BY <1>0, <2>1, <2>3, <3>1, OpenPointsRead, Zenon DEF Knows
    <2>. QED  BY <2>2, <2>3
  <1>3. CASE UNCHANGED <<opc, seen, manifest>>
    BY <1>0, <1>3, Zenon DEF Knows
  <1>4. ASSUME NEW a \in Inits, InitStep(a) PROVE Knows(o)'
    <2>1. UNCHANGED <<opc, seen>>
      BY <1>4, Zenon DEF InitStep, ForcePreflight, StrictPreflight, PreflightFails, Claim, ClaimFails,
         OverwriteSource, WriteContract, CreateDataset, CreateManifest, Finish, Cleanup, DeleteFails,
         IoFails, Crash
    <2>2. manifest' = manifest \/ manifest = None
      BY <1>0, <1>4, ActorStep, Zenon DEF Acted
    <2>. QED  BY <1>0, <2>1, <2>2, Zenon DEF Knows
  <1>. QED  BY <1>1, <1>2, <1>3, <1>4, Zenon DEF Next, vars, Done, InitStep

\* An empty root has nobody's files.
LEMMA RaceInit ==
    ASSUME Init, None \notin Inits PROVE RaceInv
  <1>1. TypeOK
    BY Zenon DEF Init, TypeOK, Points, Unclaimed, Checking, OpenPoints
  <1>2. /\ manifest = None /\ \A f \in Files : file[f] = None
        /\ \A i \in Inits : pc[i] = "start"
        /\ \A o \in Openers : opc[o] = "manifest" /\ seen[o]["manifest"] = None
    BY Zenon DEF Init
  <1>3. \A o \in Openers : Knows(o)
    BY <1>2, OpenPointsRead, Zenon DEF Knows
  <1>4. ManifestIsBacked
    BY <1>2, Zenon DEF ManifestIsBacked
  <1>. QED  BY <1>1, <1>2, <1>3, <1>4, DeletedAt, Zenon DEF RaceInv, Knows, Checking

\* RaceInv is inductive: the actor by OwnStep, everybody else by OthersKeep.
LEMMA RaceStep ==
    ASSUME RaceInv, [Next]_vars, None \notin Inits PROVE RaceInv'
  <1>1. TypeOK' /\ ManifestIsBacked'
    BY TypeStep, BackedStep, Zenon
  <1>3. \A o \in Openers : Knows(o)'
    BY OpenStep, Zenon
  <1>2. ASSUME NEW i \in Inits
        PROVE  /\ pc'[i] \in Unclaimed => \A f \in Files : file'[f] # i
               /\ pc'[i] \notin Checking \cup {"err", "lost", "dead"} => i \in claimed'
               /\ pc'[i] \in DOMAIN Deleted /\ i \notin undeleted' =>
                    \A f \in Deleted[pc'[i]] : file'[f] # i
               /\ pc'[i] = "lost" => \A f \in Files \ {"pg"} : file'[f] # i
               /\ pc'[i] \in {"readback", "ok"} => manifest' = i
               /\ pc'[i] \in Unclaimed \cup Files \cup {"datasets"} => manifest' # i
    <2>0. /\ pc[i] \in Unclaimed => \A f \in Files : file[f] # i
          /\ pc[i] \notin Checking \cup {"err", "lost", "dead"} => i \in claimed
          /\ pc[i] \in DOMAIN Deleted /\ i \notin undeleted =>
               \A f \in Deleted[pc[i]] : file[f] # i
          /\ pc[i] = "lost" => \A f \in Files \ {"pg"} : file[f] # i
          /\ pc[i] \in {"readback", "ok"} => manifest = i
          /\ pc[i] \in Unclaimed \cup Files \cup {"datasets"} => manifest # i
      BY Zenon DEF RaceInv
    <2>1. CASE UNCHANGED root
      BY <2>0, <2>1, Zenon DEF root
    <2>2. ASSUME NEW a \in Inits, InitStep(a) PROVE <1>2!2
      <3>1. CASE i = a
        BY <2>2, <3>1, OwnStep, Zenon
      <3>2. CASE i # a
        <4>1. /\ pc'[i] = pc[i]
              /\ \A f \in Files : file[f] # i => file'[f] # i
              /\ manifest = i => manifest' = i
              /\ manifest # i => manifest' # i
              /\ i \in claimed => i \in claimed'
              /\ i \in undeleted => i \in undeleted'
          BY <2>2, <3>2, OthersKeep, Zenon
        <4>2. \A p \in DOMAIN Deleted : Deleted[p] \subseteq Files
          BY DeletedAt, Zenon DEF Files
        <4>. QED  BY <2>0, <4>1, <4>2, Zenon
      <3>. QED  BY <3>1, <3>2
    <2>. QED  BY <2>1, <2>2, Actor
  <1>. QED  BY <1>1, <1>2, <1>3, Zenon DEF RaceInv, Knows

-----------------------------------------------------------------------------
\* The invariant of init_with_storage on one root, for any number of strict and
\* forced callers at once and whatever fails, gets lost or crashes.
THEOREM RaceInvariant == ASSUME None \notin Inits PROVE Spec => []RaceInv
  <1>1. Init => RaceInv
    BY RaceInit, Zenon
  <1>2. RaceInv /\ [Next]_vars => RaceInv'
    BY RaceStep, Zenon
  <1>. QED  BY <1>1, <1>2, PTL DEF Spec

\* `__manifest` is created once, so at most one of the racing inits returns.
THEOREM OneInitWins == ASSUME None \notin Inits PROVE Spec => []OneWinner
  <1>1. RaceInv => OneWinner
    BY Zenon DEF RaceInv, OneWinner
  <1>2. Spec => []RaceInv
    BY RaceInvariant
  <1>. QED  BY <1>1, <1>2, PTL

\* Every dataset the manifest names exists and is its creator's, also when the
\* answer to the creation of the manifest was lost.
THEOREM ManifestAlwaysBacked == ASSUME None \notin Inits PROVE Spec => []ManifestIsBacked
  <1>1. RaceInv => ManifestIsBacked
    BY Zenon DEF RaceInv
  <1>2. Spec => []RaceInv
    BY RaceInvariant
  <1>. QED  BY <1>1, <1>2, PTL

\* An open beside the inits never joins the contract of one schema to the
\* datasets of another: the tables of the handle it returns all exist, made by the
\* creator of the manifest (validate_schema_ir_against_snapshot, build_initial_entries).
THEOREM OpenedTablesExist == ASSUME None \notin Inits PROVE Spec => []OpenTablesExist
  <1>1. RaceInv => OpenTablesExist
    <2> SUFFICES ASSUME RaceInv, NEW o \in Openers, opc[o] = "opened",
                        NEW t \in ToSet(Tables[Shape[seen[o]["ir"]]])
                 PROVE  dataset[t.path] = manifest
      BY Zenon DEF OpenTablesExist
    <2>1. seen[o]["manifest"] # None /\ seen[o]["manifest"] = manifest
          /\ TablesMatch(seen[o]["ir"], seen[o]["manifest"])
      <3>1. /\ \A x \in ReadBy[opc[o]] : seen[o][x] # None
            /\ seen[o]["manifest"] \in {None, manifest}
            /\ TablesMatch(seen[o]["ir"], seen[o]["manifest"])
        BY Zenon DEF RaceInv
      <3>2. "manifest" \in ReadBy[opc[o]]
        BY OpenPointsRead, Zenon
      <3>. QED  BY <3>1, <3>2, Zenon
    <2>2. t \in ToSet(Tables[Shape[manifest]])
      BY <2>1, Zenon DEF TablesMatch
    <2>3. t.path \in ToSet(PathsOf(manifest))
      <3>1. PICK n \in DOMAIN Tables[Shape[manifest]] : t = Tables[Shape[manifest]][n]
        BY <2>2, Zenon DEF ToSet
      <3>2. n \in DOMAIN PathsOf(manifest) /\ PathsOf(manifest)[n] = t.path
        BY <3>1, Zenon DEF PathsOf
      <3>. QED  BY <3>2, Zenon DEF ToSet
    <2>. QED  BY <2>1, <2>3, Zenon DEF RaceInv, ManifestIsBacked
  <1>2. Spec => []RaceInv
    BY RaceInvariant
  <1>. QED  BY <1>1, <1>2, PTL

\* An init that failed and whose deletes went through has left no schema file,
\* whoever else was writing at the time; one whose claim returned an error has
\* left `_schema.pg` at most.
THEOREM FailureLeavesNothing == ASSUME None \notin Inits PROVE Spec => []FailedLeavesNothing
  <1>1. RaceInv => FailedLeavesNothing
    BY DeletedAt, Zenon DEF RaceInv, FailedLeavesNothing
  <1>2. Spec => []RaceInv
    BY RaceInvariant
  <1>. QED  BY <1>1, <1>2, PTL

-----------------------------------------------------------------------------
\* Callers that take turns.

\* What a caller has written by its point stays its own through its own step.
LEMMA OwnFiles ==
    ASSUME RaceInv, NEW a \in Inits, InitStep(a), Keeps(a) PROVE Keeps(a)'
  <1>0. /\ TypeOK /\ file \in [Files -> Inits \cup {None}] /\ pc \in [Inits -> Points]
        /\ pc[a] \in DOMAIN Written => \A f \in Written[pc[a]] : file[f] = a
    BY Zenon DEF RaceInv, TypeOK, Keeps
  <1>1. CASE Claim(a) /\ pc[a] = "claim" /\ pc'[a] \in {"ir", "err"}
    <2>1. pc'[a] = "err" \/ file'["pg"] = a
      BY <1>0, <1>1, Zenon DEF Claim, To, Files
    <2>. QED  BY <1>1, <2>1, WrittenAt, Zenon DEF Keeps
  <1>2. CASE OverwriteSource(a) /\ pc[a] = "pg" /\ pc'[a] = "ir"
    <2>1. file'["pg"] = a
      BY <1>0, <1>2, Zenon DEF OverwriteSource, Files
    <2>. QED  BY <1>2, <2>1, WrittenAt, Zenon DEF Keeps
  <1>3. CASE WriteContract(a) /\ pc[a] = "ir" /\ pc'[a] = "state"
    <2>1. file'["pg"] = a /\ file'["ir"] = a
      BY <1>0, <1>3, WrittenAt, Zenon DEF WriteContract, Files
    <2>. QED  BY <1>3, <2>1, WrittenAt, Zenon DEF Keeps
  <1>4. CASE WriteContract(a) /\ pc[a] = "state" /\ pc'[a] = "datasets"
    <2>1. file'["pg"] = a /\ file'["ir"] = a /\ file'["state"] = a
      BY <1>0, <1>4, WrittenAt, Zenon DEF WriteContract, Files
    <2>. QED  BY <1>4, <2>1, WrittenAt, Zenon DEF Keeps, Files
  <1>5. CASE \/ CreateDataset(a) /\ pc[a] = "datasets" /\ pc'[a] \in {"datasets", "clean_pg"}
             \/ CreateManifest(a) /\ pc[a] = "datasets" /\ pc'[a] \in {"readback", "clean_pg"}
             \/ Finish(a) /\ pc[a] = "readback" /\ pc'[a] = "ok"
    <2>1. UNCHANGED file
      BY <1>5, Zenon DEF CreateDataset, CreateManifest, Finish
    <2>. QED  BY <1>0, <1>5, <2>1, WrittenAt, Zenon DEF Keeps
  <1>6. CASE \/ Cleanup(a) /\ pc[a] \in DOMAIN CleaningAt /\ pc'[a] = AfterClean[pc[a]]
             \/ DeleteFails(a) /\ pc[a] \in DOMAIN CleaningAt /\ pc'[a] = AfterClean[pc[a]]
    <2>1. pc'[a] \in {"clean_ir", "clean_state", "err"}
      BY <1>6, CleanPoints, Zenon
    <2>. QED  BY <2>1, WrittenAt, Zenon DEF Keeps
  <1>7. CASE pc'[a] \in {"pg", "err", "lost", "check_ir", "check_state", "claim", "clean_pg", "dead"}
    BY <1>7, WrittenAt, Zenon DEF Keeps
  <1>8. Landing(a)
    BY <1>0, Lands, Zenon DEF RaceInv
  <1>. QED  BY <1>1, <1>2, <1>3, <1>4, <1>5, <1>6, <1>7, <1>8, Zenon DEF Landing

\* A caller at its start only looks; one that has ended does nothing.
LEMMA OnlyLooks ==
    ASSUME RaceInv, NEW a \in Inits, InitStep(a), pc[a] \in Ended \cup {"start"}
    PROVE  /\ UNCHANGED file /\ Turn(a)
           /\ pc'[a] # "err" /\ a \in Forced => manifest = None
           /\ pc'[a] # "err" /\ a \notin Forced => file["pg"] = None
  <1>0. TypeOK /\ pc \in [Inits -> Points]
    BY Zenon DEF RaceInv, TypeOK
  <1>1. Landing(a)
    BY <1>0, Lands, Zenon DEF RaceInv
  <1>2. ForcePreflight(a) \/ (StrictPreflight(a) /\ pc[a] = "start") \/ PreflightFails(a)
    BY <1>1, CleanPoints, Zenon DEF Landing, Ended, Crash
  <1>5. CASE PreflightFails(a)
    BY <1>0, <1>5, Zenon DEF PreflightFails, To
  <1>3. CASE ForcePreflight(a)
    BY <1>0, <1>3, Zenon DEF ForcePreflight, To
  <1>4. CASE StrictPreflight(a) /\ pc[a] = "start"
    <2>1. To(a, IF file["pg"] = None THEN "check_ir" ELSE "err")
      BY <1>4, Preflight, Zenon
    <2>. QED  BY <1>0, <1>4, <2>1, Zenon DEF StrictPreflight, To
  <1>. QED  BY <1>2, <1>3, <1>4, <1>5

\* Before the first turn nobody has a handle.
LEMMA TurnInit ==
    ASSUME Init PROVE TurnInv
  <1>1. \A i \in Inits : pc[i] = "start"
    BY Zenon DEF Init
  <1>. QED  BY <1>1, WrittenAt, Zenon DEF TurnInv, Keeps

\* TurnInv is inductive beside RaceInv: a turn starts only from a root without a
\* handle, or ends at the preflight.
LEMMA TurnStep ==
    ASSUME Alone, None \notin Inits, RaceInv, TurnInv, [Next]_vars PROVE TurnInv'
  <1>1. CASE UNCHANGED root
    BY <1>1, Zenon DEF root, TurnInv, Keeps
  <1>2. ASSUME NEW a \in Inits, InitStep(a) PROVE TurnInv'
    <2>0. \A j \in Inits \ {a} : pc'[j] = pc[j]
      BY <1>2, ActorStep, Zenon DEF RaceInv, Acted
    <2>1. Keeps(a)'
      BY <1>2, OwnFiles, Zenon DEF TurnInv
    <2>2. CASE pc[a] \in Ended \cup {"start"}
      <3>1. /\ UNCHANGED file /\ \A j \in Inits \ {a} : pc[j] \in Ended \cup {"start"}
            /\ pc'[a] # "err" /\ a \in Forced => manifest = None
            /\ pc'[a] # "err" /\ a \notin Forced => file["pg"] = None
        BY <1>2, <2>2, OnlyLooks, Zenon DEF Turn
      <3>2. ASSUME NEW j \in Inits, Keeps(j), pc[j] = "ok" PROVE manifest = j /\ file["pg"] = j
        BY <3>2, WrittenAt, Zenon DEF RaceInv, Keeps, Files
      <3>3. ASSUME NEW j \in Inits \ {a} PROVE Keeps(j)'
        BY <2>0, <3>1, <3>3, Zenon DEF TurnInv, Keeps
      <3>4. ASSUME NEW i \in Inits, pc'[i] \notin Ended \cup {"start"}, NEW j \in Inits \ {i}
            PROVE  pc'[j] \in {"start", "err", "lost", "dead"}
        <4>1. i = a
          BY <2>0, <3>1, <3>4, Zenon
        <4>2. pc'[a] # "err" /\ pc'[j] = pc[j] /\ pc[j] \in Ended \cup {"start"}
          BY <2>0, <3>1, <3>4, <4>1, Zenon DEF Ended
        <4>3. pc[j] # "ok"
          BY <3>1, <3>2, <4>2, Zenon DEF TurnInv
        <4>. QED  BY <4>2, <4>3, Zenon DEF Ended
      <3>. QED  BY <2>1, <3>3, <3>4, Zenon DEF TurnInv
    <2>3. CASE pc[a] \notin Ended \cup {"start"}
      <3>1. \A j \in Inits \ {a} : pc'[j] \in {"start", "err", "lost", "dead"}
        BY <2>0, <2>3, Zenon DEF TurnInv
      <3>. QED  BY <2>1, <3>1, WrittenAt, Zenon DEF TurnInv, Keeps, Ended
    <2>. QED  BY <2>2, <2>3
  <1>. QED  BY <1>1, <1>2, Actor

\* Inits one after another, through errors, lost answers and crashes: a graph
\* that was handed out keeps its manifest and its schema files, whatever strict
\* and forced inits try next.
THEOREM TurnsKeepHandles ==
    ASSUME None \notin Inits, Alone PROVE Spec => []HandleIsDurable
  <1>1. Init => TurnInv
    BY TurnInit, Zenon
  <1>2. RaceInv /\ TurnInv /\ [Next]_vars => TurnInv'
    BY TurnStep, Zenon
  <1>3. RaceInv /\ TurnInv => HandleIsDurable
    BY WrittenAt, Zenon DEF RaceInv, TurnInv, Keeps, HandleIsDurable
  <1>4. Spec => []RaceInv
    BY RaceInvariant
  <1>. QED  BY <1>1, <1>2, <1>3, <1>4, PTL DEF Spec

-----------------------------------------------------------------------------
\* Strict callers without storage errors.

\* An empty root is claimed by nobody.
LEMMA StrictInit ==
    ASSUME Init PROVE StrictInv
  <1>1. /\ faults = 0 /\ manifest = None /\ \A p \in AllPaths : dataset[p] = None
        /\ \A i \in Inits : pc[i] = "start"
    BY Zenon DEF Init
  <1>. QED  BY <1>1, WrittenAt, CleanPoints, Zenon DEF StrictInv, Keeps

\* Whoever works past the claim holds it.
LEMMA Claimant ==
    ASSUME NEW i \in Inits, Keeps(i), pc[i] \in DOMAIN Written PROVE file["pg"] = i
  BY WrittenAt, Zenon DEF Keeps, Files

\* A caller's step keeps StrictInv if everything new on the root is the
\* claimant's and nobody else's files change.
LEMMA StrictKept ==
    ASSUME StrictInv, NEW a \in Inits, Acted(a), Keeps(a)', UNCHANGED faults,
           \A p \in AllPaths : dataset'[p] \in {None, file'["pg"]},
           manifest' \in {None, file'["pg"]},
           pc'[a] \notin {"clean_pg", "clean_ir", "clean_state", "pg"},
           UNCHANGED file \/ \A i \in Inits \ {a} : pc[i] \notin DOMAIN Written
    PROVE  StrictInv'
  <1>1. ASSUME NEW i \in Inits \ {a}
        PROVE  Keeps(i)' /\ pc'[i] \notin DOMAIN CleaningAt \cup {"pg"}
    <2>1. pc'[i] = pc[i] /\ Keeps(i) /\ pc[i] \notin DOMAIN CleaningAt \cup {"pg"}
      BY Zenon DEF StrictInv, Acted
    <2>. QED  BY <2>1, Zenon DEF Keeps
  <1>2. pc'[a] \notin DOMAIN CleaningAt \cup {"pg"}
    BY CleanPoints, Zenon
  <1>. QED  BY <1>1, <1>2, Zenon DEF StrictInv

\* StrictInv is inductive beside RaceInv.
LEMMA StrictStep ==
    ASSUME Forced = {}, MaxFaults = 0, None \notin Inits, RaceInv, StrictInv, [Next]_vars
    PROVE  StrictInv'
  <1>0. /\ faults = 0 /\ TypeOK /\ file \in [Files -> Inits \cup {None}]
        /\ \A p \in AllPaths : dataset[p] \in {None, file["pg"]}
        /\ manifest \in {None, file["pg"]}
        /\ \A i \in Inits : Keeps(i) /\ pc[i] \notin DOMAIN CleaningAt \cup {"pg"}
    BY Zenon DEF StrictInv, RaceInv, TypeOK
  <1>1. CASE UNCHANGED root
    BY <1>0, <1>1, Zenon DEF root, StrictInv, Keeps
  <1>2. ASSUME NEW a \in Inits, InitStep(a) PROVE StrictInv'
    <2>0. Acted(a) /\ Keeps(a)' /\ Landing(a)
      BY <1>0, <1>2, ActorStep, OwnFiles, Lands, Zenon DEF RaceInv
    <2>1. ~(faults < MaxFaults)
      BY <1>0
    <2>2. CASE /\ StrictPreflight(a) /\ pc[a] \in {"start", "check_ir", "check_state"}
               /\ pc'[a] \in {"check_ir", "check_state", "claim", "err"}
      <3>1. UNCHANGED <<file, dataset, manifest, faults>>
        BY <2>2, Zenon DEF StrictPreflight
      <3>. QED  BY <1>0, <2>0, <2>2, <3>1, StrictKept, Zenon
    <2>3. CASE Claim(a) /\ pc[a] = "claim" /\ pc'[a] \in {"ir", "err"}
      <3>1. UNCHANGED <<dataset, manifest, faults>>
        BY <2>3, Zenon DEF Claim
      <3>2. CASE file["pg"] = None
        <4>1. \A i \in Inits : pc[i] \notin DOMAIN Written
          BY <1>0, <3>2, Claimant, Zenon
        <4>2. file'["pg"] = a
          BY <1>0, <2>3, <3>2, Zenon DEF Claim, Files
        <4>3. \A p \in AllPaths : dataset'[p] = None
          BY <1>0, <3>1, <3>2, Zenon
        <4>. QED  BY <1>0, <2>0, <2>3, <3>1, <3>2, <4>1, <4>2, <4>3, StrictKept, Zenon
      <3>3. CASE file["pg"] # None
        <4>1. UNCHANGED file
          BY <2>3, <3>3, Zenon DEF Claim
        <4>. QED  BY <1>0, <2>0, <2>3, <3>1, <4>1, StrictKept, Zenon
      <3>. QED  BY <3>2, <3>3
    <2>4. CASE \/ WriteContract(a) /\ pc[a] = "ir" /\ pc'[a] = "state"
               \/ WriteContract(a) /\ pc[a] = "state" /\ pc'[a] = "datasets"
      <3>1. UNCHANGED <<dataset, manifest, faults>>
        BY <2>4, Zenon DEF WriteContract
      <3>2. file["pg"] = a
        BY <1>0, <2>4, Claimant, WrittenAt, Zenon
      <3>3. \A i \in Inits \ {a} : pc[i] \notin DOMAIN Written
        BY <1>0, <3>2, Claimant, Zenon
      <3>4. file'["pg"] = a
        BY <1>0, <2>4, <3>2, Zenon DEF WriteContract, Files
      <3>. QED  BY <1>0, <2>0, <2>4, <3>1, <3>2, <3>3, <3>4, StrictKept, Zenon
    <2>5. CASE CreateDataset(a) /\ pc[a] = "datasets" /\ pc'[a] \in {"datasets", "clean_pg"}
      <3>1. UNCHANGED <<file, manifest, faults>> /\ file["pg"] = a
        BY <1>0, <2>5, Claimant, WrittenAt, Zenon DEF CreateDataset
      <3>2. PICK p \in NextPath(a) :
              IF dataset[p] = None
              THEN dataset' = [dataset EXCEPT ![p] = a] /\ UNCHANGED pc
              ELSE To(a, Cleans(a)) /\ UNCHANGED dataset
        BY <2>5, Zenon DEF CreateDataset
      <3>3. dataset[p] # a /\ p \in AllPaths
        <4>1. PICK n \in DOMAIN PathsOf(a) : p = PathsOf(a)[n] /\ dataset[p] # a
          BY <3>2, Zenon DEF NextPath, Left
        <4>2. p \in ToSet(PathsOf(a))
          BY <4>1, Zenon DEF ToSet
        <4>. QED  BY <4>1, <4>2, Zenon DEF AllPaths
      <3>4. UNCHANGED pc
        BY <1>0, <3>1, <3>2, <3>3, Zenon
      <3>5. \A q \in AllPaths : dataset'[q] \in {None, a}
        BY <1>0, <2>0, <3>1, Zenon DEF Acted
      <3>. QED  BY <1>0, <2>0, <2>5, <3>1, <3>4, <3>5, StrictKept, Zenon
    <2>6. CASE CreateManifest(a) /\ pc[a] = "datasets" /\ pc'[a] \in {"readback", "clean_pg"}
      <3>1. UNCHANGED <<file, dataset, faults>> /\ file["pg"] = a
        BY <1>0, <2>6, Claimant, WrittenAt, Zenon DEF CreateManifest
      <3>2. manifest = None
        BY <1>0, <2>6, <3>1, Zenon DEF RaceInv
      <3>3. pc'[a] = "readback" /\ manifest' = a
        BY <1>0, <2>6, <3>2, Zenon DEF CreateManifest, To, TypeOK
      <3>. QED  BY <1>0, <2>0, <3>1, <3>3, StrictKept, Zenon
    <2>7. CASE (Finish(a) /\ pc'[a] = "ok") \/ (Crash(a) /\ pc'[a] = "dead")
      <3>1. UNCHANGED <<file, dataset, manifest, faults>>
        BY <2>7, Zenon DEF Finish, Crash
      <3>. QED  BY <1>0, <2>0, <2>7, <3>1, StrictKept, Zenon
    <2>8. ~DeleteFails(a) /\ ~IoFails(a) /\ ~ClaimFails(a) /\ ~PreflightFails(a)
      BY <2>1, Zenon DEF DeleteFails, IoFails, ClaimFails, PreflightFails
    <2>. QED  BY <1>0, <2>0, <2>2, <2>3, <2>4, <2>5, <2>6, <2>7, <2>8 DEF Landing
  <1>. QED  BY <1>1, <1>2, Actor

\* Any number of strict inits at once, any of which may crash: the one that
\* returns a handle keeps its manifest and its schema files, because the atomic
\* create of `_schema.pg` lets nobody else past it.
THEOREM StrictKeepsHandles ==
    ASSUME None \notin Inits, Forced = {}, MaxFaults = 0 PROVE Spec => []HandleIsDurable
  <1>1. Init => StrictInv
    BY StrictInit, Zenon
  <1>2. RaceInv /\ StrictInv /\ [Next]_vars => StrictInv'
    BY StrictStep, Zenon
  <1>3. RaceInv /\ StrictInv => HandleIsDurable
    BY WrittenAt, Zenon DEF RaceInv, StrictInv, Keeps, HandleIsDurable
  <1>4. Spec => []RaceInv
    BY RaceInvariant
  <1>. QED  BY <1>1, <1>2, <1>3, <1>4, PTL DEF Spec

\* An empty root has nobody's files, and nothing of it was read.
LEMMA ReadsInit ==
    ASSUME Init PROVE StrictReads
  BY Zenon DEF Init, StrictReads

\* What strict callers write is the claimant's, and so is what an open reads.
LEMMA ReadsStep ==
    ASSUME Forced = {}, MaxFaults = 0, None \notin Inits, RaceInv, StrictInv, StrictReads, [Next]_vars
    PROVE  StrictReads'
  <1>0. /\ faults = 0 /\ TypeOK /\ file \in [Files -> Inits \cup {None}]
        /\ manifest \in {None, file["pg"]}
        /\ \A i \in Inits : Keeps(i) /\ pc[i] \notin DOMAIN CleaningAt \cup {"pg"}
        /\ seen \in [Openers -> [Files \cup {"manifest"} -> Inits \cup {None}]]
        /\ \A f \in Files : file[f] \in {None, file["pg"]}
        /\ \A o \in Openers, x \in Files \cup {"manifest"} : seen[o][x] \in {None, file["pg"]}
    BY Zenon DEF StrictInv, StrictReads, RaceInv, TypeOK
  <1>1. CASE UNCHANGED <<file, seen>>
    BY <1>0, <1>1, Zenon DEF StrictReads
  <1>2. ASSUME NEW a \in Inits, InitStep(a) PROVE StrictReads'
    <2>1. UNCHANGED seen
      BY <1>2, Zenon DEF InitStep, ForcePreflight, StrictPreflight, PreflightFails, Claim, ClaimFails,
         OverwriteSource, WriteContract, CreateDataset, CreateManifest, Finish, Cleanup, DeleteFails,
         IoFails, Crash
    <2>2. CASE Claim(a) /\ file["pg"] = None
      <3>1. file' = [file EXCEPT !["pg"] = a] /\ "pg" \in Files
        BY <2>2, Zenon DEF Claim, Files
      <3>2. file'["pg"] = a /\ \A f \in Files : file'[f] \in {None, a}
        BY <1>0, <2>2, <3>1, Zenon
      <3>3. \A o \in Openers, x \in Files \cup {"manifest"} : seen[o][x] = None
        BY <1>0, <2>2, Zenon
      <3>. QED  BY <2>1, <3>2, <3>3, Zenon DEF StrictReads
    <2>3. CASE WriteContract(a)
      <3>1. file["pg"] = a /\ pc[a] \in {"ir", "state"}
        BY <1>0, <2>3, Claimant, WrittenAt, Zenon DEF WriteContract
      <3>2. file' = [file EXCEPT ![pc[a]] = a]
        BY <2>3, Zenon DEF WriteContract
      <3>3. file'["pg"] = a /\ \A f \in Files : file'[f] \in {file[f], a}
        BY <1>0, <3>1, <3>2, Zenon DEF Files
      <3>. QED  BY <1>0, <2>1, <3>1, <3>3, Zenon DEF StrictReads
    <2>4. CASE ~(Claim(a) /\ file["pg"] = None) /\ ~WriteContract(a)
      <3>1. ~(faults < MaxFaults)
        BY <1>0
      <3>2. ~OverwriteSource(a) /\ ~Cleanup(a)
        BY <1>0, Zenon DEF OverwriteSource, Cleanup
      <3>3. ~DeleteFails(a) /\ ~IoFails(a) /\ ~ClaimFails(a) /\ ~PreflightFails(a)
        BY <3>1, Zenon DEF DeleteFails, IoFails, ClaimFails, PreflightFails
      <3>4. UNCHANGED file
        BY <1>2, <2>4, <3>2, <3>3, Zenon DEF InitStep, ForcePreflight, StrictPreflight, Claim,
           CreateDataset, CreateManifest, Finish, Crash
      <3>. QED  BY <1>0, <2>1, <3>4, Zenon DEF StrictReads
    <2>. QED  BY <2>2, <2>3, <2>4
  <1>3. ASSUME NEW r \in Openers, OpenRead(r) PROVE StrictReads'
    <2>1. /\ UNCHANGED file /\ opc[r] \in DOMAIN ReadStep
          /\ seen' = [seen EXCEPT ![r][opc[r]] = Content(opc[r])]
      BY <1>3, Zenon DEF OpenRead
    <2>2. opc[r] \in Files \cup {"manifest"}
      BY <2>1, OpenPointsRead, Zenon DEF Files
    <2>3. Content(opc[r]) \in {None, file["pg"]}
      BY <1>0, <2>2, Zenon DEF Content
    <2>4. ASSUME NEW o \in Openers, NEW x \in Files \cup {"manifest"}
          PROVE  seen'[o][x] \in {seen[o][x], Content(opc[r])}
      BY <1>0, <2>1, <2>2, Zenon
    <2>. QED  BY <1>0, <2>1, <2>3, <2>4, Zenon DEF StrictReads
  <1>4. ASSUME NEW r \in Openers, OpenVerdict(r) PROVE UNCHANGED <<file, seen>>
    BY <1>4, Zenon DEF OpenVerdict
  <1>. QED  BY <1>1, <1>2, <1>3, <1>4, Zenon DEF Next, vars, Done, InitStep

\* An open beside strict inits, any of which may crash, returns a handle made of
\* one init's files, although it reads the manifest, the source and the contract
\* one after the other and compares the source by shape only.
THEOREM StrictOpensOneInit ==
    ASSUME None \notin Inits, Forced = {}, MaxFaults = 0 PROVE Spec => []OpenIsOneInits
  <1>1. Init => StrictInv /\ StrictReads
    BY StrictInit, ReadsInit, Zenon
  <1>2. RaceInv /\ StrictInv /\ [Next]_vars => StrictInv'
    BY StrictStep, Zenon
  <1>3. RaceInv /\ StrictInv /\ StrictReads /\ [Next]_vars => StrictReads'
    BY ReadsStep, Zenon
  <1>4. RaceInv /\ StrictReads => OpenIsOneInits
    <2> SUFFICES ASSUME RaceInv, StrictReads, NEW o \in Openers, opc[o] = "opened",
                        NEW f \in Files
                 PROVE  seen[o][f] = seen[o]["manifest"]
      BY Zenon DEF OpenIsOneInits
    <2>1. \A x \in ReadBy[opc[o]] : seen[o][x] # None
      BY Zenon DEF RaceInv
    <2>2. \A x \in Files \cup {"manifest"} : seen[o][x] # None /\ seen[o][x] \in {None, file["pg"]}
      BY <2>1, OpenPointsRead, Zenon DEF StrictReads
    <2>. QED  BY <2>2, Zenon
  <1>5. Spec => []RaceInv
    BY RaceInvariant
  <1>. QED  BY <1>1, <1>2, <1>3, <1>4, <1>5, PTL DEF Spec

-----------------------------------------------------------------------------
\* Callers that race without restriction.

\* Nobody has written anything before the start.
LEMMA RivalInit ==
    ASSUME Init PROVE RivalInv
  <1>1. \A i \in Inits : pc[i] = "start"
    BY Zenon DEF Init
  <1>. QED  BY <1>1, WrittenAt, Zenon DEF RivalInv, Keeps

\* A step that takes a file from another caller is of one that was let through.
LEMMA RivalStep ==
    ASSUME RaceInv, RivalInv, None \notin Inits, [Next]_vars PROVE RivalInv'
  <1>1. CASE UNCHANGED root
    BY <1>1, Zenon DEF root, RivalInv, Keeps
  <1>2. ASSUME NEW a \in Inits, InitStep(a) PROVE RivalInv'
    <2>0. TypeOK /\ Acted(a) /\ claimed \subseteq claimed'
      BY <1>2, ActorStep, Zenon DEF RaceInv, Acted
    <2> SUFFICES ASSUME NEW i \in Inits, Keeps(i) PROVE Keeps(i)' \/ claimed' \ {i} # {}
      BY <2>0, Zenon DEF RivalInv
    <2>1. CASE i = a
      BY <1>2, <2>1, OwnFiles, Zenon
    <2>2. CASE i # a
      <3>1. pc'[i] = pc[i]
        BY <2>0, <2>2, Zenon DEF Acted
      <3>2. CASE UNCHANGED file \/ pc[i] \notin DOMAIN Written
        BY <3>1, <3>2, Zenon DEF Keeps
      <3>3. CASE ~UNCHANGED file /\ pc[i] \in DOMAIN Written
        <4>1. file["pg"] = i
          BY <3>3, WrittenAt, Zenon DEF Keeps, Files
        <4>2. ~Claim(a) /\ ~ClaimFails(a)
          BY <3>3, <4>1, Zenon DEF Claim, ClaimFails
        <4>3. OverwriteSource(a) \/ WriteContract(a) \/ Cleanup(a) \/ IoFails(a)
          BY <1>2, <3>3, <4>2, Zenon DEF InitStep, ForcePreflight, StrictPreflight, PreflightFails,
             CreateDataset, CreateManifest, Finish, DeleteFails, Crash
        <4>4. pc[a] \notin Checking \cup {"err", "lost", "dead"}
          BY <4>3, CleanPoints, Zenon DEF OverwriteSource, WriteContract, Cleanup, IoFails, Checking
        <4>. QED  BY <2>0, <2>2, <4>4, Zenon DEF RaceInv
      <3>. QED  BY <3>2, <3>3
    <2>. QED  BY <2>1, <2>2
  <1>. QED  BY <1>1, <1>2, Actor

\* Any number of strict and forced inits at once, with failing calls, lost answers,
\* failing clean-ups and crashes: a handle's schema files are lost only to a caller
\* that was let through to write, never to one that was refused.
THEOREM RefusedTouchNothing ==
    ASSUME None \notin Inits PROVE Spec => []OnlyRivalsDamage
  <1>1. Init => RivalInv
    BY RivalInit, Zenon
  <1>2. RaceInv /\ RivalInv /\ [Next]_vars => RivalInv'
    BY RivalStep, Zenon
  <1>3. RivalInv => OnlyRivalsDamage
    BY WrittenAt, Zenon DEF RivalInv, Keeps, OnlyRivalsDamage
  <1>4. Spec => []RaceInv
    BY RaceInvariant
  <1>. QED  BY <1>1, <1>2, <1>3, <1>4, PTL DEF Spec
=============================================================================
