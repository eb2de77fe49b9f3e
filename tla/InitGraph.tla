----------------------------- MODULE InitGraph -----------------------------
(***************************************************************************)
(* Omnigraph::init on one root, by several callers at once, and the open   *)
(* of the result.  An init makes three schema files (`_schema.pg`, the     *)
(* compiled contract `_schema.ir.json` and `__schema_state.json`), one     *)
(* Lance dataset per type and, last, `__manifest`.  Strict callers refuse  *)
(* a root that holds any schema file and claim `_schema.pg` by an atomic   *)
(* create; forced callers only refuse a root that holds `__manifest` and   *)
(* overwrite.  Whoever fails after its claim deletes the schema files and  *)
(* leaves the datasets.  A storage call is one step; it may fail, with or  *)
(* without its effect, and a caller may stop for good at any step.         *)
(*                                                                         *)
(* Every init mints its own identity domain, so a file is the name of the  *)
(* init that wrote it.  Stable type ids are counted from 1 by every init:  *)
(* two schemas of one shape have the same dataset paths.                   *)
(***************************************************************************)
EXTENDS Naturals, Sequences, FiniteSets, SequencesExt

CONSTANTS Inits, Forced, Openers,
          Shape,          \* the schema of each init
          Tables,         \* the tables of each schema, in creation order
          None,
          MaxFaults,      \* storage errors, all callers together
          MaxCrashes,     \* crashes, all callers together
          Alone           \* callers take turns instead of running concurrently

\* A table is its alias in the schema and the dataset path made of its kind and
\* its stable id.
PathsOf(i) == [n \in DOMAIN Tables[Shape[i]] |-> Tables[Shape[i]][n].path]
AllPaths == UNION {ToSet(PathsOf(i)) : i \in Inits}

Files == {"pg", "ir", "state"}

VARIABLES
    file,       \* who wrote each schema file
    dataset,    \* who created each Lance dataset
    manifest,   \* who created `__manifest`
    pc,         \* where each init is
    claimed,    \* inits let through to write: by their claim, or by force
    undeleted,  \* inits one of whose clean-up deletes failed
    opc, seen,  \* where each open is, and what it read
    faults, crashes

vars == <<file, dataset, manifest, pc, claimed, undeleted, opc, seen, faults, crashes>>

Init ==
    /\ file = [f \in Files |-> None]
    /\ dataset = [p \in AllPaths |-> None]
    /\ manifest = None
    /\ pc = [i \in Inits |-> "start"]
    /\ claimed = {}
    /\ undeleted = {}
    /\ opc = [o \in Openers |-> "manifest"]
    /\ seen = [o \in Openers |-> [x \in Files \cup {"manifest"} |-> None]]
    /\ faults = 0
    /\ crashes = 0

\* "lost" is the end of an init whose claim returned an error.
Ended == {"ok", "err", "lost", "dead"}
Turn(i) == Alone => \A j \in Inits \ {i} : pc[j] \in Ended \cup {"start"}

To(i, where) == pc' = [pc EXCEPT ![i] = where]

-----------------------------------------------------------------------------
(* Preflight and claim. *)

ForceUnchecked(i) ==
    /\ i \in Forced /\ pc[i] = "start" /\ Turn(i)
    /\ To(i, "pg")
    /\ claimed' = claimed \cup {i}
    /\ UNCHANGED <<file, dataset, manifest, undeleted, opc, seen, faults, crashes>>

ForcePreflight(i) ==
    /\ i \in Forced /\ pc[i] = "start" /\ Turn(i)
    /\ IF manifest = None
       THEN To(i, "pg") /\ claimed' = claimed \cup {i}
       ELSE To(i, "err") /\ UNCHANGED claimed
    /\ UNCHANGED <<file, dataset, manifest, undeleted, opc, seen, faults, crashes>>

Checks == <<"pg", "ir", "state">>
CheckAt(n) == <<"start", "check_ir", "check_state">>[n]
AfterCheck(n) == <<"check_ir", "check_state", "claim">>[n]

StrictPreflight(i) ==
    /\ i \in Inits \ Forced /\ Turn(i)
    /\ \E n \in 1..3 :
        /\ pc[i] = CheckAt(n)
        /\ To(i, IF file[Checks[n]] = None THEN AfterCheck(n) ELSE "err")
    /\ UNCHANGED <<file, dataset, manifest, claimed, undeleted, opc, seen, faults, crashes>>

ClaimOverwriting(i) ==
    /\ pc[i] = "claim"
    /\ file' = [file EXCEPT !["pg"] = i]
    /\ claimed' = claimed \cup {i}
    /\ To(i, "ir")
    /\ UNCHANGED <<dataset, manifest, undeleted, opc, seen, faults, crashes>>

Claim(i) ==
    /\ pc[i] = "claim"
    /\ IF file["pg"] = None
       THEN /\ file' = [file EXCEPT !["pg"] = i]
            /\ claimed' = claimed \cup {i}
            /\ To(i, "ir")
       ELSE /\ To(i, "err")
            /\ UNCHANGED <<file, claimed>>
    /\ UNCHANGED <<dataset, manifest, undeleted, opc, seen, faults, crashes>>

\* The atomic create returns an error.  The caller returns it as it is, without
\* a clean-up, whether or not the file was made.
ClaimFails(i) ==
    /\ faults < MaxFaults
    /\ pc[i] = "claim"
    /\ \/ UNCHANGED file
       \/ file["pg"] = None /\ file' = [file EXCEPT !["pg"] = i]
    /\ To(i, "lost")
    /\ faults' = faults + 1
    /\ UNCHANGED <<dataset, manifest, claimed, undeleted, opc, seen, crashes>>

\* A probe of the preflight fails.
PreflightFails(i) ==
    /\ faults < MaxFaults
    /\ pc[i] \in {"start", "check_ir", "check_state"} /\ Turn(i)
    /\ To(i, "err")
    /\ faults' = faults + 1
    /\ UNCHANGED <<file, dataset, manifest, claimed, undeleted, opc, seen, crashes>>

-----------------------------------------------------------------------------
(* The I/O phase. *)

OverwriteSource(i) ==
    /\ pc[i] = "pg"
    /\ file' = [file EXCEPT !["pg"] = i]
    /\ To(i, "ir")
    /\ UNCHANGED <<dataset, manifest, claimed, undeleted, opc, seen, faults, crashes>>

WriteContract(i) ==
    /\ pc[i] \in {"ir", "state"}
    /\ file' = [file EXCEPT ![pc[i]] = i]
    /\ To(i, IF pc[i] = "ir" THEN "state" ELSE "datasets")
    /\ UNCHANGED <<dataset, manifest, claimed, undeleted, opc, seen, faults, crashes>>

\* The types that have no dataset of the caller yet; it takes the first of them.
Left(i) == {n \in DOMAIN PathsOf(i) : dataset[PathsOf(i)[n]] # i}
NextPath(i) == {PathsOf(i)[n] : n \in {m \in Left(i) : \A l \in Left(i) : m <= l}}

CleansNothing(i) == "err"
Cleans(i) == IF i \in claimed \cup Forced THEN "clean_pg" ELSE "err"

CreateDataset(i) ==
    /\ pc[i] = "datasets"
    /\ \E p \in NextPath(i) :
        IF dataset[p] = None
        THEN /\ dataset' = [dataset EXCEPT ![p] = i]
             /\ UNCHANGED pc
        ELSE /\ To(i, Cleans(i))
             /\ UNCHANGED dataset
    /\ UNCHANGED <<file, manifest, claimed, undeleted, opc, seen, faults, crashes>>

CreateManifestFirst(i) ==
    /\ pc[i] = "datasets"
    /\ IF manifest = None
       THEN manifest' = i /\ To(i, "readback")
       ELSE UNCHANGED manifest /\ To(i, Cleans(i))
    /\ UNCHANGED <<file, dataset, claimed, undeleted, opc, seen, faults, crashes>>

ReplaceManifest(i) ==
    /\ pc[i] = "datasets" /\ Left(i) = {}
    /\ manifest' = i /\ To(i, "readback")
    /\ UNCHANGED <<file, dataset, claimed, undeleted, opc, seen, faults, crashes>>

\* Entries, genesis commit and format stamp are one Lance Create.
CreateManifest(i) ==
    /\ pc[i] = "datasets" /\ Left(i) = {}
    /\ IF manifest = None
       THEN manifest' = i /\ To(i, "readback")
       ELSE UNCHANGED manifest /\ To(i, Cleans(i))
    /\ UNCHANGED <<file, dataset, claimed, undeleted, opc, seen, faults, crashes>>

Finish(i) ==
    /\ pc[i] = "readback"
    /\ To(i, "ok")
    /\ UNCHANGED <<file, dataset, manifest, claimed, undeleted, opc, seen, faults, crashes>>

-----------------------------------------------------------------------------
(* Errors, clean-up and crashes. *)

CleaningAt == [clean_pg |-> "pg", clean_ir |-> "ir", clean_state |-> "state"]
AfterClean == [clean_pg |-> "clean_ir", clean_ir |-> "clean_state", clean_state |-> "err"]

Cleanup(i) ==
    /\ pc[i] \in DOMAIN CleaningAt
    /\ file' = [file EXCEPT ![CleaningAt[pc[i]]] = None]
    /\ To(i, AfterClean[pc[i]])
    /\ UNCHANGED <<dataset, manifest, claimed, undeleted, opc, seen, faults, crashes>>

DeleteFails(i) ==
    /\ faults < MaxFaults
    /\ pc[i] \in DOMAIN CleaningAt
    /\ To(i, AfterClean[pc[i]])
    /\ undeleted' = undeleted \cup {i}
    /\ faults' = faults + 1
    /\ UNCHANGED <<file, dataset, manifest, claimed, opc, seen, crashes>>

\* A storage call of the I/O phase fails, its effect may have landed.
IoFails(i) ==
    /\ faults < MaxFaults
    /\ pc[i] \in {"pg", "ir", "state", "datasets", "readback"}
    /\ \/ UNCHANGED <<file, dataset, manifest>>
       \/ /\ pc[i] \in Files
          /\ file' = [file EXCEPT ![pc[i]] = i]
          /\ UNCHANGED <<dataset, manifest>>
       \/ /\ pc[i] = "datasets"
          /\ \E p \in NextPath(i) :
               dataset[p] = None /\ dataset' = [dataset EXCEPT ![p] = i]
          /\ UNCHANGED <<file, manifest>>
       \/ /\ pc[i] = "datasets" /\ Left(i) = {} /\ manifest = None
          /\ manifest' = i
          /\ UNCHANGED <<file, dataset>>
    /\ To(i, Cleans(i))
    /\ faults' = faults + 1
    /\ UNCHANGED <<claimed, undeleted, opc, seen, crashes>>

Crash(i) ==
    /\ crashes < MaxCrashes
    /\ pc[i] \notin Ended \cup {"start"}
    /\ To(i, "dead")
    /\ crashes' = crashes + 1
    /\ UNCHANGED <<file, dataset, manifest, claimed, undeleted, opc, seen, faults>>

-----------------------------------------------------------------------------
(* Open: the manifest, then the source, then the compiled contract. *)

ContractTrusted(ir, state) == TRUE

\* validate_persisted_schema_contract: the state file holds the hash and the
\* domain of the IR it was written with.
ContractAgrees(ir, state) == ir = state

\* validate_current_source_matches: the source is compared by shape only.
SourceMatches(pg, state) == Shape[pg] = Shape[state]

TablesTrusted(ir, made) == TRUE

\* validate_schema_ir_against_snapshot compares aliases, ids and paths; the
\* manifest does not record the identity domain.
TablesMatch(ir, made) == ToSet(Tables[Shape[ir]]) = ToSet(Tables[Shape[made]])

ReadStep == [manifest |-> "pg", pg |-> "ir", ir |-> "state", state |-> "verdict"]

Content(x) == IF x = "manifest" THEN manifest ELSE file[x]

OpenRead(o) ==
    /\ opc[o] \in DOMAIN ReadStep
    /\ seen' = [seen EXCEPT ![o][opc[o]] = Content(opc[o])]
    /\ opc' = [opc EXCEPT ![o] = IF Content(opc[o]) = None THEN "refused"
                                 ELSE ReadStep[opc[o]]]
    /\ UNCHANGED <<file, dataset, manifest, pc, claimed, undeleted, faults, crashes>>

OpenVerdict(o) ==
    /\ opc[o] = "verdict"
    /\ LET s == seen[o] IN
       opc' = [opc EXCEPT ![o] =
           IF /\ ContractAgrees(s["ir"], s["state"])
              /\ SourceMatches(s["pg"], s["state"])
              /\ TablesMatch(s["ir"], s["manifest"])
           THEN "opened" ELSE "refused"]
    /\ UNCHANGED <<file, dataset, manifest, pc, claimed, undeleted, seen, faults, crashes>>

Done == /\ \A i \in Inits : pc[i] \in Ended
        /\ \A o \in Openers : opc[o] \in {"opened", "refused"}
        /\ UNCHANGED vars

Next ==
    \/ \E i \in Inits :
        \/ ForcePreflight(i) \/ StrictPreflight(i) \/ PreflightFails(i)
        \/ Claim(i) \/ ClaimFails(i)
        \/ OverwriteSource(i) \/ WriteContract(i)
        \/ CreateDataset(i) \/ CreateManifest(i) \/ Finish(i)
        \/ Cleanup(i) \/ DeleteFails(i) \/ IoFails(i) \/ Crash(i)
    \/ \E o \in Openers : OpenRead(o) \/ OpenVerdict(o)
    \/ Done

Spec == Init /\ [][Next]_vars

-----------------------------------------------------------------------------
(* What an open of the files as they are now would say. *)
Openable ==
    /\ manifest # None
    /\ \A f \in Files : file[f] # None
    /\ ContractAgrees(file["ir"], file["state"])
    /\ SourceMatches(file["pg"], file["state"])
    /\ TablesMatch(file["ir"], manifest)

\* At most one of any number of concurrent inits, strict or forced, returns a
\* handle: `__manifest` is created once (the check-then-write argument above the
\* `_schema.pg` claim).
OneWinner == \A i, j \in Inits : pc[i] = "ok" /\ pc[j] = "ok" => i = j

\* An init that returned a handle leaves a graph that opens with the schema and
\* the identity domain of that handle, whatever the callers that lose against it
\* do afterwards ("there is no longer a code path where strict-mode `init` can
\* mutate a populated graph root").
HandleIsDurable ==
    \A i \in Inits : pc[i] = "ok" =>
        /\ manifest = i
        /\ \A f \in Files : file[f] = i

\* The manifest never names a dataset that is missing or that another init made:
\* datasets are created before the one write that publishes them, even when that
\* write's answer is lost.
ManifestIsBacked ==
    manifest # None => \A p \in ToSet(PathsOf(manifest)) : dataset[p] = manifest

\* An open that read the manifest, the source and the contract at four different
\* moments while inits ran and crashed has read the files of one init.
OpenIsOneInits ==
    \A o \in Openers : opc[o] = "opened" =>
        \A x \in Files : seen[o][x] = seen[o]["manifest"]

\* Whatever races with an open, the tables of the contract it returns exist and
\* are the ones of the manifest it read: it never joins the contract of one
\* schema to the datasets of another.
OpenTablesExist ==
    \A o \in Openers : opc[o] = "opened" =>
        \A t \in ToSet(Tables[Shape[seen[o]["ir"]]]) : dataset[t.path] = manifest

\* A failed init whose deletes all went through leaves no contract file of its
\* own behind, so it does not lock the root against the next strict init.  One
\* whose claim returned an error cleans up nothing: it may leave `_schema.pg`,
\* which every later strict init refuses, and nothing else.
FailedLeavesNothing ==
    \A i \in Inits :
        /\ pc[i] = "err" /\ i \notin undeleted => \A f \in Files : file[f] # i
        /\ pc[i] = "lost" => \A f \in Files \ {"pg"} : file[f] # i

\* Whatever races: an init that returned a handle loses a schema file only to
\* another caller that was let through to write.  Callers refused at the
\* preflight or at the claim, or whose claim failed, touch nothing of it.
OnlyRivalsDamage ==
    \A i \in Inits : pc[i] = "ok" /\ (\E f \in Files : file[f] # i) => claimed \ {i} # {}

\* "a newly minted identity domain can never be attached to old tables": a root
\* that opens carries the domain its tables were made under.
DomainIsTables == Openable => file["ir"] = manifest

-----------------------------------------------------------------------------
(* Why they hold: what each caller has made by the point it is at. *)

Checking == {"start", "check_ir", "check_state", "claim"}
Unclaimed == Checking \cup {"pg"}
Points == Unclaimed \cup Files \cup {"datasets", "readback"}
              \cup DOMAIN CleaningAt \cup Ended

OpenPoints == {"manifest", "pg", "ir", "state", "verdict", "opened", "refused"}

\* The schema files a caller has written at its point, and the ones it has
\* deleted again.
Written == [ir |-> {"pg"}, state |-> {"pg", "ir"}, datasets |-> Files,
            readback |-> Files, ok |-> Files]
Deleted == [clean_pg |-> {}, clean_ir |-> {"pg"}, clean_state |-> {"pg", "ir"},
            err |-> Files]

TypeOK ==
    /\ file \in [Files -> Inits \cup {None}]
    /\ dataset \in [AllPaths -> Inits \cup {None}]
    /\ manifest \in Inits \cup {None}
    /\ pc \in [Inits -> Points]
    /\ opc \in [Openers -> OpenPoints]
    /\ seen \in [Openers -> [Files \cup {"manifest"} -> Inits \cup {None}]]

\* What an open has read by its point.
ReadBy == [manifest |-> {}, pg |-> {"manifest"}, ir |-> {"manifest", "pg"},
           state |-> {"manifest", "pg", "ir"}, verdict |-> Files \cup {"manifest"},
           opened |-> Files \cup {"manifest"}, refused |-> {}]

\* Whatever the others do: a caller past the claim was let through, it has
\* written no schema file before it and none that it has deleted since, and it is
\* past the manifest's creation only as its creator.  The manifest an open read is
\* still the manifest.
RaceInv ==
    /\ TypeOK /\ ManifestIsBacked
    /\ \A i \in Inits :
        /\ pc[i] \in Unclaimed => \A f \in Files : file[f] # i
        /\ pc[i] \notin Checking \cup {"err", "lost", "dead"} => i \in claimed
        /\ pc[i] \in DOMAIN Deleted /\ i \notin undeleted =>
             \A f \in Deleted[pc[i]] : file[f] # i
        /\ pc[i] = "lost" => \A f \in Files \ {"pg"} : file[f] # i
        /\ pc[i] \in {"readback", "ok"} => manifest = i
        /\ pc[i] \in Unclaimed \cup Files \cup {"datasets"} => manifest # i
    /\ \A o \in Openers :
        /\ \A x \in ReadBy[opc[o]] : seen[o][x] # None
        /\ seen[o]["manifest"] \in {None, manifest}
        /\ opc[o] = "opened" => TablesMatch(seen[o]["ir"], seen[o]["manifest"])

Keeps(i) == pc[i] \in DOMAIN Written => \A f \in Written[pc[i]] : file[f] = i

\* A caller has the files of its point, or somebody else was let through.
RivalInv == \A i \in Inits : Keeps(i) \/ claimed \ {i} # {}

\* Callers that take turns: while one works no other does, and none has a handle.
TurnInv ==
    \A i \in Inits :
        /\ Keeps(i)
        /\ pc[i] \notin Ended \cup {"start"} =>
             \A j \in Inits \ {i} : pc[j] \in {"start", "err", "lost", "dead"}

\* Strict callers without storage errors: everything on the root is of the one
\* that claimed it, and nobody cleans up.
StrictInv ==
    /\ faults = 0
    /\ \A p \in AllPaths : dataset[p] \in {None, file["pg"]}
    /\ manifest \in {None, file["pg"]}
    /\ \A i \in Inits : Keeps(i) /\ pc[i] \notin DOMAIN CleaningAt \cup {"pg"}

\* The schema files, and what an open has read, are of the claimant too.
StrictReads ==
    /\ \A f \in Files : file[f] \in {None, file["pg"]}
    /\ \A o \in Openers, x \in Files \cup {"manifest"} : seen[o][x] \in {None, file["pg"]}
=============================================================================
