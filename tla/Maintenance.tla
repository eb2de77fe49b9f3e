---------------------------- MODULE Maintenance ----------------------------
(***************************************************************************)
(* optimize and repair on main, beside a mutation of the same process, the *)
(* recovery of their intents, crashes and commits from outside.            *)
(*                                                                         *)
(* A table is its Lance version list; the manifest pins one version.       *)
(* Optimize moves several HEADs (config strip, compaction, reindex, index  *)
(* build), each by an unknown number of commits, under one sidecar, and    *)
(* publishes all of them in one batch.  Its sidecar is matched loosely:    *)
(* whatever lies between the pin and HEAD is taken as optimize's own work. *)
(* Repair publishes HEADs that nothing covers.                             *)
(***************************************************************************)
EXTENDS Integers, Sequences, FiniteSets, FiniteSetsExt, Functions, TLC

CONSTANTS
    Tables,
    InitialWork,     \* per table: sets of maintenance work found at the start
    RetryBudget,     \* COMPACTION_RETRY_BUDGET
    MaxCalls,        \* bound: optimize and mutation requests
    MaxForeign,      \* bound: commits from outside
    ForeignAnytime,  \* commits from outside also while an operation runs
    MaxFaults,       \* bound: storage calls that fail
    MaxCrashes       \* bound: crashes

VARIABLES
    log,       \* per table: its Lance versions
    gone,      \* per table: versions that Lance's auto-cleanup collected
    pin,       \* per table: the version the manifest pins
    head,      \* main's graph head: how many graph commits
    frags,     \* __manifest has fragments to compact
    sidecars,  \* pending intents, by operation
    meant,     \* per table: rows of committed operations and of forced repairs
    opt,       \* the optimize request
    eff,       \* per table: optimize's physical work
    mut,       \* the mutation request
    gate,      \* holder of the schema/main/table gates
    up,        \* a read-write handle is open
    next,      \* next operation id
    calls, foreign, faults, crashes

store == <<log, gone, pin, head, frags, sidecars, meant>>
vars == <<log, gone, pin, head, frags, sidecars, meant, opt, eff, mut, gate, up, next,
          calls, foreign, faults, crashes>>

Works == {"config", "compact", "reindex", "create"}
\* Lance transaction kinds; repair trusts the first two.
KindOf == [config |-> "UpdateConfig", compact |-> "Rewrite",
           reindex |-> "CreateIndex", create |-> "CreateIndex"]

HeadOf(t) == Len(log[t])
Pending == DOMAIN sidecars

NoEffect == [pc |-> "none", try |-> 0, adv |-> FALSE, view |-> 0, from |-> 0, target |-> 0]
NoOpt == [pc |-> "idle", head |-> 0, op |-> 0, try |-> 0]
NoMut == [pc |-> "idle", t |-> "none", head |-> 0, op |-> 0]

Init ==
    /\ \E w \in [Tables -> InitialWork] :
         log = [t \in Tables |-> <<[kind |-> "Append", rows |-> {0}, work |-> w[t], by |-> 0]>>]
    /\ gone = [t \in Tables |-> {}] /\ pin = [t \in Tables |-> 1]
    /\ head = 0 /\ frags = FALSE /\ sidecars = <<>>
    /\ meant = [t \in Tables |-> {0}]
    /\ opt = NoOpt /\ eff = [t \in Tables |-> NoEffect] /\ mut = NoMut
    /\ gate = "free" /\ up = TRUE /\ next = 1
    /\ calls = 0 /\ foreign = 0 /\ faults = 0 /\ crashes = 0

-----------------------------------------------------------------------------
Fault(r) ==
    /\ r = "ok" \/ faults < MaxFaults
    /\ faults' = IF r = "ok" THEN faults ELSE faults + 1
Without(f, x) == Restrict(f, DOMAIN f \ {x})

\* Lance appends a version that keeps the rows of the latest one.
Commit(t, kind, rows, work, by) ==
    log' = [log EXCEPT ![t] = Append(@, [kind |-> kind, rows |-> rows, work |-> work, by |-> by])]
Latest(t) == log[t][HeadOf(t)]

Release(who) == gate' = IF gate = who THEN "free" ELSE gate
OptEnd == opt' = NoOpt /\ eff' = [t \in Tables |-> NoEffect] /\ Release("opt")
MutEnd == mut' = NoMut /\ Release("mut")

\* One manifest commit: pins, graph head, one more __manifest fragment.
PublishPins(p) == pin' = p /\ head' = head + 1 /\ frags' = TRUE

-----------------------------------------------------------------------------
\* Recovery of one pending intent, shared by the heal and the Full sweep.

\* classify_table_observation for one pin: Loose for optimize.
Classify(s, t) ==
    IF HeadOf(t) < pin[t] THEN "InvariantViolation"
    ELSE IF HeadOf(t) = pin[t] THEN "NoMovement"
    ELSE IF s.pins[t] = pin[t] THEN "RolledPastExpected" ELSE "Unexpected"

\* decide: all or nothing.
Decide(s) ==
    IF \E t \in DOMAIN s.pins : Classify(s, t) = "InvariantViolation" THEN "Abort"
    ELSE IF \A t \in DOMAIN s.pins : Classify(s, t) = "RolledPastExpected"
    THEN "RollForward" ELSE "RollBack"

AllAligned(s) == \A t \in DOMAIN s.pins : Classify(s, t) = "NoMovement"
\* The publish landed earlier and only the sidecar is left.
Stale(s) == AllAligned(s) /\ \E t \in DOMAIN s.pins : pin[t] > s.pins[t]

\* Optimize intents roll forward when every table moved; a stale one is
\* recorded; everything else waits for the Full sweep.  A mutation's
\* intent is exact: forward only when its own commit is confirmed at HEAD.
LiveVerdict(s) ==
    IF s.kind = "mut"
    THEN CASE pin[s.t] > s.pins[s.t] -> "stale"
           [] OTHER -> IF s.confirmed /\ HeadOf(s.t) = s.pins[s.t] + 1 THEN "forward" ELSE "defer"
    ELSE IF Decide(s) = "RollForward" THEN "forward"
    ELSE IF Stale(s) THEN "stale" ELSE "defer"

ForwardPins(s) == [t \in Tables |-> IF t \in DOMAIN s.pins THEN HeadOf(t) ELSE pin[t]]
ForwardMeant(s) ==
    IF s.kind = "mut" THEN [meant EXCEPT ![s.t] = @ \cup {s.op}] ELSE meant

\* roll_forward_all publishes the HEADs that the classification saw and
\* records the recovery; a stale intent only gets its recovery commit.
Resolve(o, verdict) ==
    LET s == sidecars[o] IN
    /\ IF verdict = "forward"
       THEN PublishPins(ForwardPins(s)) /\ meant' = ForwardMeant(s)
       ELSE PublishPins(pin) /\ UNCHANGED meant
    /\ sidecars' = Without(sidecars, o)
    /\ UNCHANGED <<log, gone>>

\* Heal at the start of a mutation.
Heal(o) == up /\ gate = "free" /\ LiveVerdict(sidecars[o]) # "defer"
           /\ Resolve(o, LiveVerdict(sidecars[o]))
           /\ UNCHANGED <<opt, eff, mut, gate, up, next, calls, foreign, faults, crashes>>

-----------------------------------------------------------------------------
\* A mutation of one table (its inner protocol is WritePath's).

MutBegin(t) ==
    /\ up /\ mut.pc = "idle" /\ calls < MaxCalls /\ calls' = calls + 1
    /\ Pending = {}
    /\ mut' = [pc |-> "gate", t |-> t, head |-> head, op |-> next] /\ next' = next + 1
    /\ UNCHANGED <<store, opt, eff, gate, up, foreign, faults, crashes>>

\* Under the gates: relist, revalidate, HEAD at the pin; then arm and commit.
MutCommit ==
    /\ mut.pc = "gate" /\ gate = "free"
    /\ IF Pending # {} \/ head # mut.head \/ HeadOf(mut.t) # pin[mut.t]
       THEN MutEnd /\ UNCHANGED <<log, sidecars, faults>>
       ELSE \E r \in {"ok", "unconfirmed"} :
              /\ Fault(r)
              /\ Commit(mut.t, "Append", Latest(mut.t).rows \cup {mut.op},
                        Latest(mut.t).work \cup {"compact"}, mut.op)
              /\ sidecars' = sidecars @@ (mut.op :> [kind |-> "mut", op |-> mut.op, t |-> mut.t,
                    pins |-> (mut.t :> pin[mut.t]), confirmed |-> r = "ok"])
              /\ IF r = "ok" THEN mut' = [mut EXCEPT !.pc = "publish"] /\ gate' = "mut"
                 ELSE MutEnd
    /\ UNCHANGED <<gone, pin, head, frags, meant, opt, eff, up, next, calls, foreign, crashes>>

\* Published, published with the sidecar left over, or not.
MutPublish ==
    /\ mut.pc = "publish"
    /\ \E r \in {"ok", "lost", "linked"} :
         /\ Fault(r)
         /\ IF r # "lost"
            THEN /\ PublishPins([pin EXCEPT ![mut.t] = @ + 1])
                 /\ meant' = [meant EXCEPT ![mut.t] = @ \cup {mut.op}]
                 /\ sidecars' = IF r = "ok" THEN Without(sidecars, mut.op) ELSE sidecars
            ELSE UNCHANGED <<pin, head, frags, meant, sidecars>>
    /\ MutEnd
    /\ UNCHANGED <<log, gone, opt, eff, up, next, calls, foreign, crashes>>

-----------------------------------------------------------------------------
\* optimize_all_tables.

\* Clean recovery state first, then the captured graph authority.
OptBegin ==
    /\ up /\ opt.pc = "idle" /\ calls < MaxCalls /\ calls' = calls + 1
    /\ Pending = {}
    /\ opt' = [NoOpt EXCEPT !.pc = "capture"]
    /\ UNCHANGED <<store, eff, mut, gate, up, next, foreign, faults, crashes>>
OptCapture ==
    /\ opt.pc = "capture"
    /\ opt' = [opt EXCEPT !.pc = "gate", !.head = head]
    /\ UNCHANGED <<store, eff, mut, gate, up, next, calls, foreign, faults, crashes>>

\* Mutated: the probe before the gates is trusted.
ProbeOnly(S) == TRUE

\* ensure_no_pending_recovery_for_optimize_under_main_gate.
NoIntentUnderGate(S) == S = {}

Work(t) == Latest(t).work \ {"config"}
\* prepare_optimize_table: a HEAD beyond the pin is skipped for repair.
Prepared == {t \in Tables : HeadOf(t) = pin[t] /\ Work(t) # {}}

\* Gates, relist, revalidate, prepare every table, one sidecar for all.
OptArm ==
    /\ opt.pc = "gate" /\ gate = "free"
    /\ IF ~NoIntentUnderGate(Pending) \/ head # opt.head
          \/ \E t \in Tables : HeadOf(t) < pin[t]
       THEN OptEnd /\ UNCHANGED <<sidecars, next, faults>>
       ELSE IF Prepared = {}
       THEN opt' = [opt EXCEPT !.pc = "internal"] /\ gate' = "opt" /\ UNCHANGED <<eff, sidecars, next, faults>>
       ELSE \E r \in {"ok", "lost", "landed"} :
              /\ Fault(r)
              /\ next' = next + 1
              /\ sidecars' = IF r = "lost" THEN sidecars
                             ELSE sidecars @@ (next :> [kind |-> "opt", op |-> next,
                                    pins |-> Restrict(pin, Prepared)])
              /\ IF r # "ok" THEN OptEnd
                 ELSE /\ opt' = [opt EXCEPT !.pc = "effects", !.op = next] /\ gate' = "opt"
                      /\ eff' = [t \in Tables |-> IF t \in Prepared
                                   THEN [NoEffect EXCEPT !.pc = "open", !.view = HeadOf(t)]
                                   ELSE NoEffect]
    /\ UNCHANGED <<log, gone, pin, head, frags, meant, mut, up, calls, foreign, crashes>>

SetEff(t, e) == eff' = [eff EXCEPT ![t] = e]

\* One attempt of a table: the prepared snapshot first, HEAD afterwards.
EffOpen(t) ==
    /\ eff[t].pc = "open"
    /\ LET v == IF eff[t].try = 0 THEN eff[t].view ELSE HeadOf(t)
           e == [eff[t] EXCEPT !.view = v, !.from = v]
       IN SetEff(t,
            IF v < pin[t] \/ (~e.adv /\ v > pin[t]) THEN [e EXCEPT !.pc = "err"]
            ELSE IF log[t][v].work \ {"config"} # {} THEN [e EXCEPT !.pc = "config"]
            ELSE [e EXCEPT !.pc = "ok", !.target = IF e.adv THEN v ELSE 0])
    /\ UNCHANGED <<store, opt, mut, gate, up, next, calls, foreign, faults, crashes>>

After == [config |-> "compact", compact |-> "reindex", reindex |-> "create", create |-> "ok"]

\* The attempt is over: any move of HEAD is published.
Done(e, v) == [e EXCEPT !.view = v, !.pc = "ok", !.adv = e.adv \/ v # e.from,
                        !.target = IF e.adv \/ v # e.from THEN v ELSE 0]
Step(e, w, v) ==
    IF w = "create" THEN Done(e, v)
    ELSE [e EXCEPT !.pc = After[w], !.view = v, !.adv = e.adv \/ (w # "reindex" /\ v # e.view)]

\* A conflict is retried from a fresh HEAD, except in the index build.
Retry(e, w) ==
    IF w # "create" /\ e.try + 1 < RetryBudget THEN [e EXCEPT !.pc = "open", !.try = @ + 1]
    ELSE [e EXCEPT !.pc = "err"]

\* Lance's auto-cleanup hook fires on a commit whose table still carries the
\* old configuration: versions below the new HEAD go.
Collected(t, w) ==
    IF "config" \in Latest(t).work /\ w # "config" THEN gone[t] \cup 1..HeadOf(t) ELSE gone[t]

\* Mutated: the old configuration stays.
KeepsConfig(t) == FALSE
\* clear_stale_auto_cleanup_config finds something to strip.
Strips(t) == "config" \in log[t][eff[t].view].work

Needs(t, w) == IF w = "config" THEN Strips(t) ELSE w \in log[t][eff[t].view].work

\* A stage of the physical work; compaction may reserve fragments first and
\* fail after that.
EffStage(t, w) ==
    /\ eff[t].pc = w
    /\ IF ~Needs(t, w)
       THEN SetEff(t, Step(eff[t], w, eff[t].view)) /\ UNCHANGED <<log, gone, faults>>
       ELSE \/ /\ Commit(t, KindOf[w], Latest(t).rows, Latest(t).work \ {w}, opt.op)
               /\ gone' = [gone EXCEPT ![t] = Collected(t, w)]
               /\ SetEff(t, Step(eff[t], w, HeadOf(t) + 1))
               /\ UNCHANGED faults
            \/ /\ w = "compact" /\ Fault("reserved")
               /\ Commit(t, "ReserveFragments", Latest(t).rows, Latest(t).work, opt.op)
               /\ gone' = [gone EXCEPT ![t] = Collected(t, w)]
               /\ SetEff(t, Retry(eff[t], w))
            \/ /\ IF HeadOf(t) > eff[t].view THEN UNCHANGED faults ELSE Fault("conflict")
               /\ SetEff(t, Retry(eff[t], w))
               /\ UNCHANGED <<log, gone>>
            \/ /\ Fault("failed")
               /\ SetEff(t, [eff[t] EXCEPT !.pc = "err"])
               /\ UNCHANGED <<log, gone>>
    /\ UNCHANGED <<pin, head, frags, sidecars, meant, opt, mut, gate, up, next, calls, foreign, crashes>>

\* Every task settles; the first error leaves everything to recovery.
OptSettle ==
    /\ opt.pc = "effects" /\ \A t \in Tables : eff[t].pc \in {"none", "ok", "err"}
    /\ IF \E t \in Tables : eff[t].pc = "err" THEN OptEnd
       ELSE opt' = [opt EXCEPT !.pc = "publish"] /\ UNCHANGED <<eff, gate>>
    /\ UNCHANGED <<store, mut, up, next, calls, foreign, faults, crashes>>

\* Mutated: targets are published as they are.
OverwriteTargets == {t \in Tables : eff[t].target > 0}

\* publish_optimize_batch_monotonic: pointers already there are left alone.
Behind == {t \in Tables : pin[t] < eff[t].target}

OptPublish ==
    /\ opt.pc = "publish"
    /\ IF Behind = {} THEN opt' = [opt EXCEPT !.pc = "unlink"] /\ UNCHANGED <<eff, gate, pin, head, frags, faults>>
       ELSE \E r \in {"ok", "lost", "landed", "conflict"} :
              /\ Fault(r)
              /\ IF r \in {"ok", "landed"}
                 THEN PublishPins([t \in Tables |-> IF t \in Behind THEN eff[t].target ELSE pin[t]])
                 ELSE UNCHANGED <<pin, head, frags>>
              /\ CASE r = "ok" -> opt' = [opt EXCEPT !.pc = "unlink"] /\ UNCHANGED <<eff, gate>>
                   [] r = "conflict" /\ opt.try + 1 < RetryBudget ->
                        opt' = [opt EXCEPT !.try = @ + 1] /\ UNCHANGED <<eff, gate>>
                   [] OTHER -> OptEnd
    /\ UNCHANGED <<log, gone, sidecars, meant, mut, up, next, calls, foreign, crashes>>

\* The sidecar delete is best effort.
OptUnlink ==
    /\ opt.pc = "unlink"
    /\ \E r \in {"ok", "lost"} :
         Fault(r) /\ sidecars' = IF r = "ok" THEN Without(sidecars, opt.op) ELSE sidecars
    /\ opt' = [opt EXCEPT !.pc = "internal"]
    /\ UNCHANGED <<log, gone, pin, head, frags, meant, eff, mut, gate, up, next, calls, foreign, crashes>>

\* compact_internal_table: __manifest in place, main's gate still held.
OptInternal ==
    /\ opt.pc = "internal"
    /\ \E r \in {"ok", "lost"} : Fault(r) /\ frags' = (frags /\ r # "ok")
    /\ OptEnd
    /\ UNCHANGED <<log, gone, pin, head, sidecars, meant, mut, up, next, calls, foreign, crashes>>

-----------------------------------------------------------------------------
\* repair_all_tables, one step under its gates.

\* Mutated: the latest transaction stands for all.
LooksAtLast(t) ==
    IF Latest(t).kind \in {"Rewrite", "ReserveFragments"} THEN "VerifiedMaintenance" ELSE "Suspicious"

\* classify_drift reads the transaction of every version above the pin.
ClassifyDrift(t) ==
    IF \E v \in pin[t] + 1..HeadOf(t) : v \in gone[t] THEN "Unverifiable"
    ELSE IF \A v \in pin[t] + 1..HeadOf(t) : log[t][v].kind \in {"Rewrite", "ReserveFragments"}
    THEN "VerifiedMaintenance" ELSE "Suspicious"

Repair(force) ==
    /\ up /\ gate = "free" /\ Pending = {}
    /\ LET Drifted == {t \in Tables : HeadOf(t) > pin[t]}
           Adopt == {t \in Drifted : force \/ ClassifyDrift(t) = "VerifiedMaintenance"}
           Forced == {t \in Adopt : ClassifyDrift(t) # "VerifiedMaintenance"}
       IN /\ Adopt # {}
          /\ \A t \in Tables : HeadOf(t) >= pin[t]
          /\ PublishPins([t \in Tables |-> IF t \in Adopt THEN HeadOf(t) ELSE pin[t]])
          /\ meant' = [t \in Tables |-> IF t \in Forced THEN Latest(t).rows ELSE meant[t]]
    /\ UNCHANGED <<log, gone, sidecars, opt, eff, mut, gate, up, next, calls, foreign, faults, crashes>>

-----------------------------------------------------------------------------
\* Commits from outside the process: a Lance tool, or another writer whose
\* own publish never comes.
Quiet == gate = "free" /\ Pending = {} /\ opt.pc = "idle" /\ mut.pc = "idle"
Foreign(t) ==
    /\ foreign < MaxForeign /\ foreign' = foreign + 1
    /\ ForeignAnytime \/ Quiet
    /\ next' = next + 1
    /\ \/ Commit(t, "Append", Latest(t).rows \cup {next}, Latest(t).work \cup {"compact"}, 0)
       \/ Commit(t, "Rewrite", Latest(t).rows, Latest(t).work \ {"compact"}, 0)
    /\ UNCHANGED <<gone, pin, head, frags, sidecars, meant, opt, eff, mut, gate, up, calls, faults, crashes>>
\* The other writer publishes after all.
ForeignPublish(t) ==
    /\ ForeignAnytime /\ HeadOf(t) > pin[t] /\ Latest(t).by = 0
    /\ PublishPins([pin EXCEPT ![t] = HeadOf(t)])
    /\ meant' = [meant EXCEPT ![t] = Latest(t).rows]
    /\ UNCHANGED <<log, gone, sidecars, opt, eff, mut, gate, up, next, calls, foreign, faults, crashes>>

-----------------------------------------------------------------------------
Down == opt' = NoOpt /\ eff' = [t \in Tables |-> NoEffect] /\ mut' = NoMut /\ gate' = "free"
Crash ==
    /\ up /\ crashes < MaxCrashes /\ crashes' = crashes + 1 /\ up' = FALSE
    /\ Down
    /\ UNCHANGED <<store, next, calls, foreign, faults>>
Reopen ==
    /\ up /\ Pending # {} /\ gate = "free" /\ opt.pc = "idle" /\ mut.pc = "idle"
    /\ up' = FALSE /\ Down
    /\ UNCHANGED <<store, next, calls, foreign, faults, crashes>>

\* Mutated: a partial optimize is pinned where it is.
NothingToRestore(s) == {}

\* Tables a rollback has to move back to their pin.
Drifted(s) == {t \in DOMAIN s.pins : HeadOf(t) > pin[t]}

\* Mutated: the rollback restores what it finds.
RestoreHead(t) == HeadOf(t)
\* A table goes back to the version the manifest pins.
RestoreTarget(t) == pin[t]

\* One restore of a rollback: a new HEAD with the pinned rows.  A sweep that
\* crashed after a restore restores again.
SweepRestore(o, t) ==
    /\ ~up /\ o = Min(Pending)
    /\ LiveVerdict(sidecars[o]) = "defer" /\ t \in Drifted(sidecars[o])
    /\ IF Latest(t).kind # "Restore" THEN UNCHANGED crashes
       ELSE crashes < MaxCrashes /\ crashes' = crashes + 1
    /\ Commit(t, "Restore", log[t][RestoreTarget(t)].rows, log[t][RestoreTarget(t)].work, o)
    /\ UNCHANGED <<gone, pin, head, frags, sidecars, meant, opt, eff, mut, gate, up, next,
                   calls, foreign, faults>>

\* Mutated: the sweep leaves every rollback to somebody else.
SweepForwardOnly(o) ==
    /\ ~up /\ o = Min(Pending) /\ LiveVerdict(sidecars[o]) # "defer"
    /\ Resolve(o, LiveVerdict(sidecars[o]))
    /\ UNCHANGED <<opt, eff, mut, gate, up, next, calls, foreign, faults, crashes>>

\* The sweep finishes one sidecar: forward, stale, or the rollback's publish.
SweepOne(o) ==
    /\ ~up /\ o = Min(Pending)
    /\ LET s == sidecars[o]  v == LiveVerdict(s) IN
       IF v # "defer" THEN Resolve(o, v)
       ELSE /\ \A t \in Drifted(s) : Latest(t).kind = "Restore"
            /\ PublishPins([t \in Tables |-> IF t \in Drifted(s) THEN HeadOf(t) ELSE pin[t]])
            /\ sidecars' = Without(sidecars, o)
            /\ UNCHANGED <<log, gone, meant>>
    /\ UNCHANGED <<opt, eff, mut, gate, up, next, calls, foreign, faults, crashes>>

Opened ==
    /\ ~up /\ Pending = {} /\ up' = TRUE
    /\ UNCHANGED <<store, opt, eff, mut, gate, next, calls, foreign, faults, crashes>>

OptStep ==
    \/ OptCapture \/ OptArm \/ OptSettle \/ OptPublish \/ OptUnlink \/ OptInternal
    \/ \E t \in Tables : EffOpen(t) \/ \E w \in Works : EffStage(t, w)
MutStep == MutCommit \/ MutPublish
Sweep == \E o \in Pending : SweepOne(o) \/ \E t \in Tables : SweepRestore(o, t)

Next ==
    \/ OptBegin \/ OptStep
    \/ (\E t \in Tables : MutBegin(t)) \/ MutStep
    \/ (\E o \in Pending : Heal(o))
    \/ (\E force \in BOOLEAN : Repair(force))
    \/ (\E t \in Tables : Foreign(t) \/ ForeignPublish(t))
    \/ Crash \/ Reopen \/ Sweep \/ Opened

Spec == Init /\ [][Next]_vars

-----------------------------------------------------------------------------
\* Properties.

\* Maintenance never changes content: what the graph shows of a table is what
\* committed mutations put there and what an operator forced in, through
\* optimize, its crashes, retries and recovery, and repair without force.
ContentExact == \A t \in Tables : log[t][pin[t]].rows = meant[t]

\* No version that a snapshot may pin is collected by optimize: stale
\* auto-cleanup configuration is stripped before the first commit that would
\* trigger Lance's hook (clear_stale_auto_cleanup_config).
NothingCollected == \A t \in Tables : gone[t] = {}

\* Versions above the pin that the process made itself are covered by a
\* pending intent, so no later operation meets drift nobody accounts for.
OwnDriftCovered ==
    \A t \in Tables : \A v \in pin[t] + 1..HeadOf(t) :
        log[t][v].by # 0 => \E o \in Pending : t \in DOMAIN sidecars[o].pins

\* A manifest pin never goes back, whoever publishes: optimize's monotonic
\* batch, a mutation, repair or recovery.
PinsMonotone == \A t \in Tables : pin'[t] >= pin[t]

\* At most one intent is pending on a table: optimize refuses under the gates
\* what a writer armed after its first look.
OneIntentPerTable ==
    \A o, p \in Pending : o # p => DOMAIN sidecars[o].pins \cap DOMAIN sidecars[p].pins = {}

\* What optimize publishes above a pin is its own work, never a commit that
\* came from outside after the intent was armed (the drift guard of
\* apply_optimize_table_effects and its head_advanced flag).
PublishesOwnWork ==
    [][opt.pc = "publish" => \A t \in Tables : \A v \in pin[t] + 1..pin'[t] : log[t][v].by = opt.op]_vars

\* Every HEAD is pinned, except drift that only an operator can judge.
Aligned ==
    \A t \in Tables :
        HeadOf(t) = pin[t] \/ (Pending = {} /\ ClassifyDrift(t) # "VerifiedMaintenance")
=============================================================================
