------------------------------ MODULE Cleanup ------------------------------
(***************************************************************************)
(* Version garbage collection of the tables on main, beside writers,       *)
(* branch controls and pending recovery intents of the same process.       *)
(*                                                                         *)
(* A table of main is the set of its Lance versions.  A graph branch is    *)
(* lazy: until it writes a table, its manifest entry names a version of    *)
(* main and Lance knows nothing of that reference; afterwards it owns a    *)
(* fork, whose parent version Lance protects.                              *)
(***************************************************************************)
EXTENDS Integers, Sequences, FiniteSets, FiniteSetsExt, SequencesExt

CONSTANTS
    Tables, Branches,
    Policies,       \* [keep : -1.., aged : BOOLEAN]; -1 is "no keep_versions"
    MaxVersion,     \* bound: versions of a table
    MaxCleanups,    \* bound: cleanup requests
    MaxDrift        \* bound: commits from outside that nothing covers

VARIABLES
    versions,   \* per table: the versions of main that exist
    young,      \* per table: versions above this one are younger than any older_than
    pin,        \* per table: the version main's manifest names
    branch,     \* per branch: its entries, or none
    sidecars,   \* pending intents
    head,       \* main's graph head
    writer,     \* the mutation on main
    gc,         \* the cleanup request
    gate,       \* who holds the schema gate and everything behind it
    cleanups, drifts

vars == <<versions, young, pin, branch, sidecars, head, writer, gc, gate, cleanups, drifts>>

HeadOf(t) == Max(versions[t])
NoEntries == [t \in Tables |-> [kind |-> "none", v |-> 0]]
Live == {b \in Branches : branch[b] # NoEntries}
Lazy(b, t) == branch[b][t].kind = "main"
NoWriter == [pc |-> "idle", t |-> "none"]
NoGc == [pc |-> "idle", policy |-> [keep |-> 0, aged |-> FALSE], head |-> 0,
         floor |-> << >>, left |-> {}]

Init ==
    /\ versions = [t \in Tables |-> {1}] /\ young = [t \in Tables |-> 0]
    /\ pin = [t \in Tables |-> 1] /\ branch = [b \in Branches |-> NoEntries]
    /\ sidecars = {} /\ head = 0
    /\ writer = NoWriter /\ gc = NoGc /\ gate = "free"
    /\ cleanups = 0 /\ drifts = 0

-----------------------------------------------------------------------------
(* The rest of the process *)

\* A mutation: gates, intent, one table commit, the intent confirmed, publish, intent
\* retired.  It refuses while an intent is pending.
WriterBegin ==
    /\ writer.pc = "idle" /\ gate = "free" /\ sidecars = {}
    /\ \E t \in Tables :
         /\ HeadOf(t) < MaxVersion /\ HeadOf(t) = pin[t]
         /\ writer' = [pc |-> "gated", t |-> t]
    /\ gate' = "writer"
    /\ UNCHANGED <<versions, young, pin, branch, sidecars, head, gc, cleanups, drifts>>
WriterArm ==
    /\ writer.pc = "gated"
    /\ sidecars' = {[t |-> writer.t, from |-> pin[writer.t], to |-> pin[writer.t] + 1,
                     phase |-> "armed"]}
    /\ writer' = [writer EXCEPT !.pc = "armed"]
    /\ UNCHANGED <<versions, young, pin, branch, head, gc, gate, cleanups, drifts>>
WriterCommit ==
    /\ writer.pc = "armed"
    /\ versions' = [versions EXCEPT ![writer.t] = @ \cup {pin[writer.t] + 1}]
    /\ writer' = [writer EXCEPT !.pc = "committed"]
    /\ UNCHANGED <<young, pin, branch, sidecars, head, gc, gate, cleanups, drifts>>
WriterConfirm ==
    /\ writer.pc = "committed"
    /\ sidecars' = {[s EXCEPT !.phase = "confirmed"] : s \in sidecars}
    /\ writer' = [writer EXCEPT !.pc = "confirmed"]
    /\ UNCHANGED <<versions, young, pin, branch, head, gc, gate, cleanups, drifts>>
WriterPublish ==
    /\ writer.pc = "confirmed"
    /\ pin' = [pin EXCEPT ![writer.t] = @ + 1] /\ head' = head + 1
    /\ writer' = [writer EXCEPT !.pc = "published"]
    /\ UNCHANGED <<versions, young, branch, sidecars, gc, gate, cleanups, drifts>>
WriterRetire ==
    /\ writer.pc = "published"
    /\ sidecars' = {} /\ writer' = NoWriter /\ gate' = "free"
    /\ UNCHANGED <<versions, young, pin, branch, head, gc, cleanups, drifts>>
\* It fails after arming: the gates are released, the intent stays.
WriterFails ==
    /\ writer.pc \in {"armed", "committed", "confirmed", "published"}
    /\ writer' = NoWriter /\ gate' = "free"
    /\ UNCHANGED <<versions, young, pin, branch, sidecars, head, gc, cleanups, drifts>>
\* Recovery undoes the commit of an intent that was not confirmed by a Restore of the
\* version below it, which is a commit itself.
Uncompensated(s) == s.phase = "armed" /\ HeadOf(s.t) = s.to
RecoverRestore(s) ==
    /\ gate = "free" /\ Uncompensated(s) /\ s.from \in versions[s.t]
    /\ versions' = [versions EXCEPT ![s.t] = @ \cup {s.to + 1}]
    /\ UNCHANGED <<young, pin, branch, sidecars, head, writer, gc, gate, cleanups, drifts>>
\* It publishes the confirmed commit, or the Restore, unless that is visible or the
\* intent had no effect, and retires the intent.  A sweep that ends after the Restore, or
\* before the intent is gone, leaves the rest to the next.
Outcome(s) == IF s.phase = "armed" THEN HeadOf(s.t) ELSE s.to
Recover(s) ==
    /\ gate = "free" /\ ~Uncompensated(s)
    /\ IF Outcome(s) # pin[s.t]
       THEN pin' = [pin EXCEPT ![s.t] = Outcome(s)] /\ head' = head + 1
       ELSE UNCHANGED <<pin, head>>
    /\ sidecars' \in {sidecars, sidecars \ {s}}
    /\ UNCHANGED <<versions, young, branch, writer, gc, gate, cleanups, drifts>>

BranchCreate(b) ==
    /\ gate = "free" /\ branch[b] = NoEntries /\ sidecars = {}
    /\ branch' = [branch EXCEPT ![b] = [t \in Tables |-> [kind |-> "main", v |-> pin[t]]]]
    /\ UNCHANGED <<versions, young, pin, sidecars, head, writer, gc, gate, cleanups, drifts>>
BranchFork(b, t) ==
    /\ gate = "free" /\ b \in Live /\ Lazy(b, t)
    /\ branch' = [branch EXCEPT ![b][t].kind = "fork"]
    /\ UNCHANGED <<versions, young, pin, sidecars, head, writer, gc, gate, cleanups, drifts>>
BranchDelete(b) ==
    /\ gate = "free" /\ b \in Live
    /\ branch' = [branch EXCEPT ![b] = NoEntries]
    /\ UNCHANGED <<versions, young, pin, sidecars, head, writer, gc, gate, cleanups, drifts>>

\* Everything written so far becomes old enough for older_than.
TimePasses ==
    /\ gc.pc # "tables" /\ young' = [t \in Tables |-> HeadOf(t)] /\ young' # young
    /\ UNCHANGED <<versions, pin, branch, sidecars, head, writer, gc, gate, cleanups, drifts>>

\* A commit that neither the manifest nor an intent covers.
Drift(t) ==
    /\ drifts < MaxDrift /\ drifts' = drifts + 1 /\ gate = "free" /\ sidecars = {}
    /\ HeadOf(t) < MaxVersion
    /\ versions' = [versions EXCEPT ![t] = @ \cup {HeadOf(t) + 1}]
    /\ UNCHANGED <<young, pin, branch, sidecars, head, writer, gc, gate, cleanups>>

-----------------------------------------------------------------------------
(* cleanup_all_tables *)

Refuse == /\ gc' = NoGc /\ gate' = IF gate = "gc" THEN "free" ELSE gate
          /\ UNCHANGED <<versions, young, pin, branch, sidecars, head, writer, cleanups, drifts>>

\* The fast check for intents, with no gate held; the authority token comes after it.
GcBegin ==
    /\ gc.pc = "idle" /\ cleanups < MaxCleanups /\ cleanups' = cleanups + 1
    /\ sidecars = {}
    /\ \E p \in Policies : gc' = [NoGc EXCEPT !.pc = "checked", !.policy = p]
    /\ UNCHANGED <<versions, young, pin, branch, sidecars, head, writer, gate, drifts>>
GcCapture ==
    /\ gc.pc = "checked" /\ gc' = [gc EXCEPT !.pc = "captured", !.head = head]
    /\ UNCHANGED <<versions, young, pin, branch, sidecars, head, writer, gate, cleanups, drifts>>

GcGate ==
    /\ gc.pc = "captured" /\ gate = "free"
    /\ IF gc.head = head
       THEN /\ gate' = "gc" /\ gc' = [gc EXCEPT !.pc = "gated"]
            /\ UNCHANGED <<versions, young, pin, branch, sidecars, head, writer, cleanups, drifts>>
       ELSE Refuse

\* The check that counts: under every gate, with the token still current.
FirstCheckEnough == gc.head = head
NoIntent == sidecars = {} /\ gc.head = head
GcRecheck ==
    /\ gc.pc = "gated"
    /\ IF NoIntent
       THEN /\ gc' = [gc EXCEPT !.pc = "floors"]
            /\ UNCHANGED <<versions, young, pin, branch, sidecars, head, writer, gate,
                           cleanups, drifts>>
       ELSE Refuse

\* The oldest version of main that main or a lazy live branch names, per table; every
\* one of them must open, and main must be at its table's HEAD.
MainOnly(t) == {pin[t]}
Named(t) == {pin[t]} \cup {branch[b][t].v : b \in {x \in Live : Lazy(x, t)}}
Classified == \A t \in Tables : Named(t) \subseteq versions[t] /\ HeadOf(t) = pin[t]
GcFloors ==
    /\ gc.pc = "floors"
    /\ IF Classified
       THEN /\ gc' = [gc EXCEPT !.pc = "tables", !.left = Tables,
                                !.floor = [t \in Tables |-> Min(Named(t))]]
            /\ UNCHANGED <<versions, young, pin, branch, sidecars, head, writer, gate,
                           cleanups, drifts>>
       ELSE Refuse

\* keep = N counts down the versions that exist, never HEAD's number; 0 keeps HEAD.
RequestedFromHead(t) == Max({1, HeadOf(t) + 1 - Max({gc.policy.keep, 1})})
Requested(t) ==
    LET list == SetToSortSeq(versions[t], <)
        retain == Max({gc.policy.keep, 1})
    IN  IF Len(list) <= retain THEN list[1] ELSE list[Len(list) + 1 - retain]

\* The cutoff is the smaller of the requested version, if any, and the floor.
Before(t, v) == v < gc.floor[t] /\ (gc.policy.keep >= 0 => v < Requested(t))

\* Lance keeps HEAD and the parent versions of its own branches.
Protected(t) == {HeadOf(t)} \cup {branch[b][t].v : b \in {x \in Live : ~Lazy(x, t)}}
Collected(t) ==
    {v \in versions[t] : Before(t, v) /\ (gc.policy.aged => v <= young[t])} \ Protected(t)

\* One table; a table that fails is reported and the others go on.
GcTable(t) ==
    /\ gc.pc = "tables" /\ t \in gc.left
    /\ versions' \in {[versions EXCEPT ![t] = @ \ Collected(t)], versions}
    /\ gc' = [gc EXCEPT !.left = @ \ {t}]
    /\ UNCHANGED <<young, pin, branch, sidecars, head, writer, gate, cleanups, drifts>>

GcEnd ==
    /\ gc.pc = "tables" /\ gc.left = {}
    /\ gc' = NoGc /\ gate' = "free"
    /\ UNCHANGED <<versions, young, pin, branch, sidecars, head, writer, cleanups, drifts>>

GcNext ==
    \/ GcBegin \/ GcCapture \/ GcGate \/ GcRecheck \/ GcFloors \/ GcEnd
    \/ \E t \in Tables : GcTable(t)

Next ==
    \/ WriterBegin \/ WriterArm \/ WriterCommit \/ WriterConfirm \/ WriterPublish
    \/ WriterRetire \/ WriterFails \/ \E s \in sidecars : RecoverRestore(s) \/ Recover(s)
    \/ \E b \in Branches : BranchCreate(b) \/ BranchDelete(b)
    \/ \E b \in Branches, t \in Tables : BranchFork(b, t)
    \/ TimePasses \/ \E t \in Tables : Drift(t)
    \/ GcNext

Spec == Init /\ [][Next]_vars

-----------------------------------------------------------------------------
(* Properties *)

\* Every version that main or a live branch reads exists: a lazy branch, whose
\* reference Lance cannot see, is never left on a collected version.
PinsOpenable ==
    \A t \in Tables :
        /\ pin[t] \in versions[t]
        /\ \A b \in Live : branch[b][t].v \in versions[t]

\* A pending intent finds the version it would restore and the commit it announces,
\* once that happened, also between the Restore and its publication: an intent armed
\* after the first check stops the collection.
RecoveryHasHistory ==
    \A s \in sidecars :
        /\ s.from \in versions[s.t]
        /\ (s.phase = "armed" /\ s.to > HeadOf(s.t)) \/ s.to \in versions[s.t]

\* keep_versions = N leaves the newest N versions that exist, also in a history with
\* gaps; older_than never takes a version younger than the limit.
PolicyKept ==
    \A t \in Tables : versions'[t] # versions[t] /\ versions'[t] \subseteq versions[t] =>
      /\ gc.policy.keep > 0 =>
           \A v \in versions[t] \ versions'[t] :
               Cardinality({w \in versions[t] : w > v}) >= gc.policy.keep
      /\ gc.policy.aged => \A v \in versions[t] \ versions'[t] : v <= young[t]

-----------------------------------------------------------------------------
(* Why the history stays: what the gate protects while it is held. *)

WriterPoints == {"idle", "gated", "armed", "committed", "confirmed", "published"}
GcPoints == {"idle", "checked", "captured", "gated", "floors", "tables"}

TypeOK ==
    /\ versions \in [Tables -> SUBSET Nat] /\ pin \in [Tables -> Nat]
    /\ branch \in [Branches -> [Tables -> [kind : {"none", "main", "fork"}, v : Nat]]]
    /\ sidecars \subseteq [t : Tables, from : Nat, to : Nat, phase : {"armed", "confirmed"}]
    /\ head \in Nat
    /\ writer \in [pc : WriterPoints, t : Tables \cup {"none"}]
    /\ gc \in [pc : GcPoints, policy : Policies \cup {NoGc.policy}, head : Nat,
               floor : {<< >>} \cup [Tables -> Nat], left : SUBSET Tables]

\* One holder of the gate.
Gated ==
    /\ writer.pc # "idle" <=> gate = "writer"
    /\ gc.pc \in {"gated", "floors", "tables"} <=> gate = "gc"
    /\ writer.pc # "idle" => writer.t \in Tables

\* A table keeps its HEAD.
HasHead == \A t \in Tables : \E m \in versions[t] : \A v \in versions[t] : m >= v

\* The writer finds its table where it left it, and one intent is pending at a time.
WriterInv ==
    /\ \A a, b \in sidecars : a = b
    /\ writer.pc = "gated" => HeadOf(writer.t) = pin[writer.t]
    /\ writer.pc \in {"armed", "committed"} =>
         \A s \in sidecars : s.t = writer.t /\ s.to = pin[writer.t] + 1
    /\ writer.pc \in {"committed", "confirmed"} => pin[writer.t] + 1 \in versions[writer.t]

\* The collection meets no intent, and nothing main or a lazy branch names is below
\* its floors.
GcInv ==
    /\ gc.pc \in {"floors", "tables"} => sidecars = {}
    /\ gc.pc = "tables" => gc.floor \in [Tables -> Nat] /\ \A t \in Tables :
         /\ gc.floor[t] <= pin[t]
         /\ \A b \in Live : Lazy(b, t) => gc.floor[t] <= branch[b][t].v

HistoryInv ==
    TypeOK /\ Gated /\ HasHead /\ WriterInv /\ GcInv /\ PinsOpenable /\ RecoveryHasHistory
=============================================================================
