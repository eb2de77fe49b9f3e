--------------------------- MODULE CleanupProofs ---------------------------
(***************************************************************************)
(* Cleanup never takes a version that something still needs: for every set *)
(* of tables and branches, every policy and any number of requests, the    *)
(* versions named by main and by live branches stay, and so do those a     *)
(* pending recovery intent refers to.                                      *)
(***************************************************************************)
EXTENDS Cleanup, WellFoundedInduction, TLAPS

\* What Max returns on a set that has a greatest element.
LEMMA MaxIsGreatest ==
    ASSUME NEW S, \E m \in S : \A v \in S : m >= v
    PROVE  Max(S) \in S /\ \A v \in S : Max(S) >= v
BY Zenon DEF Max

\* What Min returns on the versions named for a table.
LEMMA MinIsLeast ==
    ASSUME NEW S \in SUBSET Nat, S # {}
    PROVE  Min(S) \in S /\ \A v \in S : Min(S) <= v
<1> DEFINE R == {ss \in Nat \X Nat : ss[1] < ss[2]}
<1>1. IsWellFoundedOn(R, Nat)
    BY NatLessThanWellFounded, Zenon DEF OpToRel
<1> HIDE DEF R
<1>2. PICK m \in S : \A y \in S : ~(<<y, m>> \in R)
    BY <1>1, WFMin, Zenon
<1>3. ASSUME NEW y \in S PROVE m <= y
    <2>1. y \in Nat /\ m \in Nat
        BY Zenon
    <2>2. y < m => <<y, m>> \in R
        BY <2>1, Zenon DEF R
    <2>3. ~(y < m)
        BY <1>2, <2>2, Zenon
    <2> QED BY <2>1, <2>3
<1> QED BY <1>3, Zenon DEF Min

\* The start: one version per table, which main names.
LEMMA HistoryInit == Init => HistoryInv
<1> SUFFICES ASSUME Init PROVE HistoryInv
    BY Zenon
<1>1. TypeOK
    BY DEF Init, TypeOK, NoEntries, NoWriter, NoGc, GcPoints, WriterPoints
<1>2. Gated
    BY Zenon DEF Init, Gated, NoWriter, NoGc
<1>3. Live = {}
    BY Zenon DEF Init, Live
<1>4. PinsOpenable /\ RecoveryHasHistory
    BY <1>3, Zenon DEF Init, PinsOpenable, RecoveryHasHistory
<1>5. \A t \in Tables : \E m \in versions[t] : \A v \in versions[t] : m >= v
    BY DEF Init
<1> QED BY <1>1, <1>2, <1>4, <1>5, Zenon DEF Init, HistoryInv, HasHead, WriterInv, GcInv, NoWriter, NoGc

\* HEAD is the greatest version, and a version number.
LEMMA HeadIsGreatest ==
    ASSUME TypeOK, HasHead, NEW t \in Tables
    PROVE  HeadOf(t) \in Nat /\ HeadOf(t) \in versions[t] /\ \A v \in versions[t] : HeadOf(t) >= v
<1>1. HeadOf(t) \in versions[t] /\ \A v \in versions[t] : HeadOf(t) >= v
    BY MaxIsGreatest, Zenon DEF HasHead, HeadOf
<1>2. versions[t] \subseteq Nat
    BY Zenon DEF TypeOK
<1> QED BY <1>1, <1>2, Zenon

\* A commit adds a version; the table still has a greatest one.
LEMMA HeadAfterCommit ==
    ASSUME NEW S \in SUBSET Nat, NEW k \in Nat, \E m \in S : \A v \in S : m >= v
    PROVE  \E m \in S \cup {k} : \A v \in S \cup {k} : m >= v
<1>1. PICK m \in S : \A v \in S : m >= v
    BY Zenon
<1>2. CASE m >= k
    BY <1>1, <1>2, Zenon
<1>3. CASE ~(m >= k)
    <2>1. \A v \in S \cup {k} : k >= v
        BY <1>1, <1>3
    <2> QED BY <2>1, Zenon
<1> QED BY <1>2, <1>3, Zenon

\* The steps of the writer keep the invariant.
LEMMA WriterSteps ==
    ASSUME HistoryInv,
           \/ WriterBegin \/ WriterArm \/ WriterCommit \/ WriterConfirm \/ WriterPublish
           \/ WriterRetire \/ WriterFails
    PROVE  HistoryInv'
<1>0. TypeOK /\ Gated /\ HasHead /\ WriterInv /\ GcInv /\ PinsOpenable /\ RecoveryHasHistory
    BY Zenon DEF HistoryInv
<1>1. CASE WriterBegin
    <2> USE <1>0, <1>1 DEF WriterBegin
    <2>1. PICK t \in Tables : HeadOf(t) = pin[t] /\ writer' = [pc |-> "gated", t |-> t]
        BY Zenon
    <2>2. TypeOK'
        BY <2>1, Zenon DEF TypeOK, WriterPoints
    <2>3. Gated'
        BY <2>1, Zenon DEF Gated
    <2>4. HasHead' /\ PinsOpenable' /\ RecoveryHasHistory'
        BY Zenon DEF HasHead, PinsOpenable, RecoveryHasHistory, Live, HeadOf
    <2>5. WriterInv'
        BY <2>1, Zenon DEF WriterInv, HeadOf
    <2>6. GcInv'
        BY Zenon DEF GcInv, Live, Lazy
    <2> QED BY <2>2, <2>3, <2>4, <2>5, <2>6, Zenon DEF HistoryInv
<1>2. CASE WriterArm
    <2> USE <1>0, <1>2 DEF WriterArm
    <2>1. writer.t \in Tables /\ gate = "writer" /\ gc.pc \notin {"gated", "floors", "tables"}
        BY Zenon DEF Gated
    <2>2. TypeOK'
        BY <2>1 DEF TypeOK, WriterPoints
    <2>3. Gated'
        BY <2>1, Zenon DEF Gated, TypeOK
    <2>4. HasHead' /\ PinsOpenable'
        BY Zenon DEF HasHead, PinsOpenable, Live
    <2>5. RecoveryHasHistory'
        BY <2>1 DEF RecoveryHasHistory, WriterInv, PinsOpenable, HeadOf, TypeOK
    <2>6. WriterInv'
        BY DEF WriterInv, TypeOK
    <2>7. GcInv'
        BY <2>1, Zenon DEF GcInv
    <2> QED BY <2>2, <2>3, <2>4, <2>5, <2>6, <2>7, Zenon DEF HistoryInv
<1>3. CASE WriterCommit
    <2> USE <1>0, <1>3 DEF WriterCommit
    <2>1. writer.t \in Tables /\ gate = "writer" /\ gc.pc \notin {"gated", "floors", "tables"}
        BY Zenon DEF Gated
    <2>2. TypeOK'
        <3>1. versions' \in [Tables -> SUBSET Nat]
            BY <2>1 DEF TypeOK
        <3>2. writer' \in [pc : WriterPoints, t : Tables \cup {"none"}]
            BY Zenon DEF TypeOK, WriterPoints
        <3> QED BY <3>1, <3>2, Zenon DEF TypeOK
    <2>3. Gated'
        BY <2>1, Zenon DEF Gated, TypeOK
    <2>4. versions'[writer.t] = versions[writer.t] \cup {pin[writer.t] + 1}
          /\ \A t \in Tables : t # writer.t => versions'[t] = versions[t]
        BY <2>1, Zenon DEF TypeOK
    <2>5. HasHead'
        <3>1. versions[writer.t] \in SUBSET Nat /\ pin[writer.t] + 1 \in Nat
            BY <2>1 DEF TypeOK
        <3>2. \E m \in versions'[writer.t] : \A v \in versions'[writer.t] : m >= v
            BY <2>1, <2>4, <3>1, HeadAfterCommit DEF HasHead
        <3> QED BY <2>4, <3>2, Zenon DEF HasHead
    <2>6. PinsOpenable'
        BY <2>4, Zenon DEF PinsOpenable, Live, NoEntries
    <2>7. RecoveryHasHistory'
        BY <2>1, <2>4, Zenon DEF RecoveryHasHistory, WriterInv, TypeOK
    <2>8. WriterInv'
        BY <2>4, Zenon DEF WriterInv, TypeOK
    <2>9. GcInv'
        BY <2>1, Zenon DEF GcInv
    <2> QED BY <2>2, <2>3, <2>5, <2>6, <2>7, <2>8, <2>9, Zenon DEF HistoryInv
<1>3a. CASE WriterConfirm
    <2> USE <1>0, <1>3a DEF WriterConfirm
    <2>1. writer.t \in Tables /\ gate = "writer" /\ gc.pc \notin {"gated", "floors", "tables"}
        BY Zenon DEF Gated
    <2>2. \A x \in sidecars' : \E s \in sidecars :
             x = [s EXCEPT !.phase = "confirmed"] /\ x.t = s.t /\ x.from = s.from /\ x.to = s.to
             /\ x.phase = "confirmed"
        BY Zenon DEF TypeOK
    <2>3. TypeOK'
        <3>1. sidecars' \subseteq [t : Tables, from : Nat, to : Nat, phase : {"armed", "confirmed"}]
            <4>1. ASSUME NEW s \in sidecars
                  PROVE  [s EXCEPT !.phase = "confirmed"]
                             \in [t : Tables, from : Nat, to : Nat, phase : {"armed", "confirmed"}]
                BY Zenon DEF TypeOK
            <4> QED BY <4>1, Zenon
        <3>2. writer' \in [pc : WriterPoints, t : Tables \cup {"none"}]
            BY Zenon DEF TypeOK, WriterPoints
        <3> QED BY <3>1, <3>2, Zenon DEF TypeOK
    <2>4. Gated'
        BY <2>1, Zenon DEF Gated, TypeOK
    <2>5. HasHead' /\ PinsOpenable'
        BY Zenon DEF HasHead, PinsOpenable, Live
    <2>6. \A s \in sidecars : s.from \in versions[s.t] /\ s.to \in versions[s.t]
        BY Zenon DEF WriterInv, RecoveryHasHistory
    <2>7. RecoveryHasHistory'
        BY <2>2, <2>6, Zenon DEF RecoveryHasHistory
    <2>8. WriterInv'
        <3>1. \A a, b \in sidecars' : a = b
            BY Zenon DEF WriterInv
        <3>2. writer'.pc = "confirmed" /\ writer'.t = writer.t
            BY Zenon DEF TypeOK
        <3> QED BY <3>1, <3>2, Zenon DEF WriterInv
    <2>9. GcInv'
        BY <2>1, Zenon DEF GcInv
    <2> QED BY <2>3, <2>4, <2>5, <2>7, <2>8, <2>9, Zenon DEF HistoryInv
<1>4. CASE WriterPublish
    <2> USE <1>0, <1>4 DEF WriterPublish
    <2>1. writer.t \in Tables /\ gate = "writer" /\ gc.pc \notin {"gated", "floors", "tables"}
        BY Zenon DEF Gated
    <2>2. TypeOK'
        <3>1. pin' \in [Tables -> Nat] /\ head' \in Nat
            BY <2>1 DEF TypeOK
        <3>2. writer' \in [pc : WriterPoints, t : Tables \cup {"none"}]
            BY Zenon DEF TypeOK, WriterPoints
        <3> QED BY <3>1, <3>2, Zenon DEF TypeOK
    <2>3. Gated'
        BY <2>1, Zenon DEF Gated, TypeOK
    <2>4. HasHead' /\ RecoveryHasHistory'
        BY Zenon DEF HasHead, RecoveryHasHistory, HeadOf
    <2>5. PinsOpenable'
        BY <2>1, Zenon DEF PinsOpenable, Live, NoEntries, WriterInv, TypeOK
    <2>6. WriterInv'
        BY Zenon DEF WriterInv, TypeOK
    <2>7. GcInv'
        BY <2>1, Zenon DEF GcInv
    <2> QED BY <2>2, <2>3, <2>4, <2>5, <2>6, <2>7, Zenon DEF HistoryInv
<1>5. CASE WriterRetire \/ WriterFails
    <2>1. /\ writer.pc # "idle" /\ sidecars' \in {{}, sidecars}
          /\ writer' = NoWriter /\ gate' = "free"
          /\ UNCHANGED <<versions, pin, branch, head, gc>>
        BY <1>5, Zenon DEF WriterRetire, WriterFails
    <2> USE <1>0, <2>1
    <2>2. TypeOK'
        BY Zenon DEF TypeOK, NoWriter, WriterPoints
    <2>3. Gated'
        BY Zenon DEF Gated, NoWriter
    <2>4. HasHead' /\ PinsOpenable'
        BY Zenon DEF HasHead, PinsOpenable, Live
    <2>5. RecoveryHasHistory'
        BY Zenon DEF RecoveryHasHistory, HeadOf
    <2>6. WriterInv'
        BY Zenon DEF WriterInv, NoWriter
    <2>7. GcInv'
        BY Zenon DEF GcInv, Gated
    <2> QED BY <2>2, <2>3, <2>4, <2>5, <2>6, <2>7, Zenon DEF HistoryInv
<1> QED BY <1>1, <1>2, <1>3, <1>3a, <1>4, <1>5, Zenon

\* Recovery and the branch controls keep it: they need the gate free, so neither a
\* writer nor a collection is under way behind it.
LEMMA ControlSteps ==
    ASSUME HistoryInv,
           \/ \E s \in sidecars : Recover(s)
           \/ \E b \in Branches : BranchCreate(b) \/ BranchDelete(b)
           \/ \E b \in Branches, t \in Tables : BranchFork(b, t)
    PROVE  HistoryInv'
<1>0. TypeOK /\ Gated /\ HasHead /\ WriterInv /\ GcInv /\ PinsOpenable /\ RecoveryHasHistory
    BY Zenon DEF HistoryInv
<1>1. /\ gate = "free" /\ UNCHANGED <<versions, writer, gc, gate>>
    BY Zenon DEF Recover, BranchCreate, BranchDelete, BranchFork
<1>2. writer.pc = "idle" /\ gc.pc \notin {"gated", "floors", "tables"}
    BY <1>0, <1>1, Zenon DEF Gated
<1>3. Gated' /\ HasHead'
    BY <1>0, <1>1, Zenon DEF Gated, HasHead
<1>4. WriterInv' /\ GcInv'
    <2>1. \A a, b \in sidecars' : a = b
        BY <1>0, Zenon DEF WriterInv, Recover, BranchCreate, BranchDelete, BranchFork
    <2> QED BY <1>1, <1>2, <2>1, Zenon DEF WriterInv, GcInv
<1>5. ASSUME NEW s \in sidecars, Recover(s) PROVE HistoryInv'
    <2> USE <1>0, <1>1, <1>5 DEF Recover
    <2>1. sidecars' \subseteq sidecars /\ UNCHANGED branch
        BY Zenon
    <2>2. s.t \in Tables /\ s.to \in Nat
        BY Zenon DEF TypeOK
    <2>3. Outcome(s) \in versions[s.t] /\ Outcome(s) \in Nat
        <3>1. CASE s.phase = "armed"
            BY <2>2, <3>1, HeadIsGreatest, Zenon DEF Outcome
        <3>2. CASE s.phase # "armed"
            BY <2>2, <3>2, Zenon DEF Outcome, RecoveryHasHistory
        <3> QED BY <3>1, <3>2, Zenon
    <2>4. \/ pin' = [pin EXCEPT ![s.t] = Outcome(s)] /\ head' = head + 1
          \/ UNCHANGED <<pin, head>>
        BY Zenon
    <2>5. TypeOK'
        <3>0. pin \in [Tables -> Nat] /\ head \in Nat
            BY Zenon DEF TypeOK
        <3>1. pin' \in [Tables -> Nat]
            BY <2>2, <2>3, <2>4, <3>0, Zenon
        <3>2. head' \in Nat
            BY ONLY <2>4, <3>0
        <3>3. sidecars' \subseteq [t : Tables, from : Nat, to : Nat, phase : {"armed", "confirmed"}]
            BY <2>1, Zenon DEF TypeOK
        <3> QED BY <2>1, <3>1, <3>2, <3>3, Zenon DEF TypeOK
    <2>6. \A t \in Tables : pin'[t] \in versions[t]
        BY <2>2, <2>3, <2>4, Zenon DEF TypeOK, PinsOpenable
    <2>7. PinsOpenable'
        BY <2>1, <2>6, Zenon DEF PinsOpenable, Live
    <2>8. RecoveryHasHistory'
        BY <2>1, Zenon DEF RecoveryHasHistory, HeadOf
    <2> QED BY <1>3, <1>4, <2>5, <2>7, <2>8, Zenon DEF HistoryInv
<1>6. CASE UNCHANGED <<pin, sidecars, head>>
           /\ \E b \in Branches : BranchCreate(b) \/ BranchDelete(b) \/ \E t \in Tables : BranchFork(b, t)
    <2> USE <1>0, <1>1
    <2>1. RecoveryHasHistory'
        BY <1>6, Zenon DEF RecoveryHasHistory, HeadOf
    <2>2. PICK b \in Branches : BranchCreate(b) \/ BranchDelete(b) \/ \E t \in Tables : BranchFork(b, t)
        BY <1>6, Zenon
    <2>3. /\ branch' \in [Branches -> [Tables -> [kind : {"none", "main", "fork"}, v : Nat]]]
          /\ \A t \in Tables, c \in Branches : branch'[c] # NoEntries => branch'[c][t].v \in versions[t]
        <3>1. CASE BranchCreate(b)
            BY <3>1, Zenon DEF BranchCreate, TypeOK, PinsOpenable, Live
        <3>2. CASE BranchDelete(b)
            BY <3>2, Zenon DEF BranchDelete, TypeOK, PinsOpenable, Live, NoEntries
        <3>3. ASSUME NEW u \in Tables, BranchFork(b, u) PROVE <2>3!1 /\ <2>3!2
            <4>1. b \in Live /\ branch' = [branch EXCEPT ![b][u].kind = "fork"]
                BY <3>3, Zenon DEF BranchFork
            <4>2. /\ branch' = [branch EXCEPT ![b] = [branch[b] EXCEPT ![u].kind = "fork"]]
                  /\ branch'[b] = [branch[b] EXCEPT ![u].kind = "fork"]
                  /\ \A c \in Branches : c # b => branch'[c] = branch[c]
                BY <4>1, Zenon DEF TypeOK
            <4>3. branch[b] \in [Tables -> [kind : {"none", "main", "fork"}, v : Nat]]
                BY Zenon DEF TypeOK
            <4>4. /\ [branch[b] EXCEPT ![u].kind = "fork"]
                         \in [Tables -> [kind : {"none", "main", "fork"}, v : Nat]]
                  /\ \A t \in Tables : branch'[b][t].v = branch[b][t].v
                BY <4>2, <4>3
            <4>5. \A c \in Branches, t \in Tables : branch'[c][t].v = branch[c][t].v
                BY <4>2, <4>4, Zenon
            <4>6. <2>3!1
                BY <4>2, <4>4, Zenon DEF TypeOK
            <4>7. <2>3!2
                BY <4>1, <4>2, <4>5, Zenon DEF PinsOpenable, Live
            <4> QED BY <4>6, <4>7, Zenon
        <3> QED BY <2>2, <3>1, <3>2, <3>3, Zenon
    <2>4. TypeOK'
        BY <1>6, <2>3, Zenon DEF TypeOK
    <2>5. PinsOpenable'
        BY <1>6, <2>3, Zenon DEF PinsOpenable, Live, NoEntries
    <2> QED BY <1>3, <1>4, <2>1, <2>4, <2>5, Zenon DEF HistoryInv
<1> QED
    <2>1. ASSUME ~\E s \in sidecars : Recover(s) PROVE <1>6!1
        BY <2>1, Zenon DEF BranchCreate, BranchDelete, BranchFork
    <2> QED BY <1>5, <1>6, <2>1, Zenon

\* A Restore keeps it: it adds a version above the commit it undoes, of the only intent.
LEMMA RestoreStep ==
    ASSUME HistoryInv, NEW s \in sidecars, RecoverRestore(s)
    PROVE  HistoryInv'
<1>0. TypeOK /\ Gated /\ HasHead /\ WriterInv /\ GcInv /\ PinsOpenable /\ RecoveryHasHistory
    BY Zenon DEF HistoryInv
<1>1. /\ gate = "free" /\ HeadOf(s.t) = s.to
      /\ versions' = [versions EXCEPT ![s.t] = @ \cup {s.to + 1}]
      /\ UNCHANGED <<pin, branch, sidecars, head, writer, gc, gate>>
    BY Zenon DEF RecoverRestore, Uncompensated
<1>2. writer.pc = "idle" /\ gc.pc \notin {"gated", "floors", "tables"}
    BY <1>0, <1>1, Zenon DEF Gated
<1>3. s.t \in Tables /\ s.to \in Nat /\ versions[s.t] \in SUBSET Nat /\ s.to \in versions[s.t]
    BY <1>0, <1>1, HeadIsGreatest, Zenon DEF TypeOK
<1>4. /\ versions' \in [Tables -> SUBSET Nat]
      /\ versions'[s.t] = versions[s.t] \cup {s.to + 1}
      /\ \A u \in Tables : u # s.t => versions'[u] = versions[u]
    <2> DEFINE k == s.to + 1
    <2>1. k \in Nat
        BY <1>3
    <2>2. versions' = [versions EXCEPT ![s.t] = @ \cup {k}]
        BY <1>1, Zenon
    <2> HIDE DEF k
    <2>3. /\ versions' \in [Tables -> SUBSET Nat]
          /\ versions'[s.t] = versions[s.t] \cup {k}
          /\ \A u \in Tables : u # s.t => versions'[u] = versions[u]
        BY <1>0, <1>3, <2>1, <2>2, Zenon DEF TypeOK
    <2> QED BY <2>3, Zenon DEF k
<1>5. TypeOK'
    BY <1>0, <1>1, <1>4, Zenon DEF TypeOK
<1>6. HasHead'
    <2>1. \E m \in versions'[s.t] : \A v \in versions'[s.t] : m >= v
        <3>1. \E m \in versions[s.t] : \A v \in versions[s.t] : m >= v
            BY <1>0, <1>3, Zenon DEF HasHead
        <3> QED BY <1>3, <1>4, <3>1, HeadAfterCommit
    <2> QED BY <1>0, <1>4, <2>1, Zenon DEF HasHead
<1>7. PinsOpenable'
    BY <1>0, <1>1, <1>4, Zenon DEF PinsOpenable, Live
<1>8. RecoveryHasHistory'
    <2>1. \A x \in sidecars : x = s
        BY <1>0, Zenon DEF WriterInv
    <2>2. s.from \in versions'[s.t] /\ s.to \in versions'[s.t]
        BY <1>0, <1>3, <1>4, Zenon DEF RecoveryHasHistory
    <2> QED BY <1>1, <2>1, <2>2, Zenon DEF RecoveryHasHistory
<1>9. WriterInv' /\ GcInv' /\ Gated'
    BY <1>0, <1>1, <1>2, Zenon DEF WriterInv, GcInv, Gated
<1> QED BY <1>5, <1>6, <1>7, <1>8, <1>9, Zenon DEF HistoryInv

\* A commit from outside keeps it: there is no intent and nobody holds the gate.
LEMMA DriftStep ==
    ASSUME HistoryInv, NEW t \in Tables, Drift(t)
    PROVE  HistoryInv'
<1>0. TypeOK /\ Gated /\ HasHead /\ WriterInv /\ GcInv /\ PinsOpenable /\ RecoveryHasHistory
    BY Zenon DEF HistoryInv
<1>1. /\ gate = "free" /\ sidecars = {}
      /\ versions' = [versions EXCEPT ![t] = @ \cup {HeadOf(t) + 1}]
      /\ UNCHANGED <<pin, branch, sidecars, head, writer, gc, gate>>
    BY Zenon DEF Drift
<1>2. writer.pc = "idle" /\ gc.pc \notin {"gated", "floors", "tables"}
    BY <1>0, <1>1, Zenon DEF Gated
<1>3. HeadOf(t) + 1 \in Nat /\ versions[t] \in SUBSET Nat
    BY <1>0, HeadIsGreatest DEF TypeOK
<1>4. /\ versions' \in [Tables -> SUBSET Nat]
      /\ versions'[t] = versions[t] \cup {HeadOf(t) + 1}
      /\ \A u \in Tables : u # t => versions'[u] = versions[u]
    <2> DEFINE k == HeadOf(t) + 1
    <2>1. k \in Nat /\ versions' = [versions EXCEPT ![t] = @ \cup {k}]
        BY <1>1, <1>3, Zenon
    <2> HIDE DEF k
    <2>2. /\ versions' \in [Tables -> SUBSET Nat]
          /\ versions'[t] = versions[t] \cup {k}
          /\ \A u \in Tables : u # t => versions'[u] = versions[u]
        BY <1>0, <2>1, Zenon DEF TypeOK
    <2> QED BY <2>2, Zenon DEF k
<1>5. TypeOK'
    BY <1>0, <1>1, <1>4, Zenon DEF TypeOK
<1>6. HasHead'
    <2>1. \E m \in versions'[t] : \A v \in versions'[t] : m >= v
        <3>1. \E m \in versions[t] : \A v \in versions[t] : m >= v
            BY <1>0, Zenon DEF HasHead
        <3> QED BY <1>3, <1>4, <3>1, HeadAfterCommit
    <2> QED BY <1>0, <1>4, <2>1, Zenon DEF HasHead
<1>7. PinsOpenable'
    BY <1>0, <1>1, <1>4, Zenon DEF PinsOpenable, Live
<1>8. RecoveryHasHistory' /\ WriterInv' /\ GcInv' /\ Gated'
    BY <1>0, <1>1, <1>2, Zenon DEF RecoveryHasHistory, WriterInv, GcInv, Gated
<1> QED BY <1>5, <1>6, <1>7, <1>8, Zenon DEF HistoryInv

\* A step of the cleanup request other than a collection touches only its own record
\* and the gate.
LEMMA RequestSteps ==
    ASSUME HistoryInv,
           GcBegin \/ GcCapture \/ GcGate \/ GcRecheck \/ GcFloors \/ GcEnd
    PROVE  HistoryInv'
<1>0. TypeOK /\ Gated /\ HasHead /\ WriterInv /\ GcInv /\ PinsOpenable /\ RecoveryHasHistory
    BY Zenon DEF HistoryInv
<1>1. UNCHANGED <<versions, pin, branch, sidecars, head, writer>>
    BY Zenon DEF GcBegin, GcCapture, GcGate, GcRecheck, GcFloors, GcEnd, Refuse
<1>2. HasHead' /\ WriterInv' /\ PinsOpenable' /\ RecoveryHasHistory'
    BY <1>0, <1>1, Zenon DEF HasHead, WriterInv, PinsOpenable, RecoveryHasHistory, HeadOf, Live
<1> SUFFICES gc' \in [pc : GcPoints, policy : Policies \cup {NoGc.policy}, head : Nat,
                      floor : {<< >>} \cup [Tables -> Nat], left : SUBSET Tables]
             /\ Gated' /\ GcInv'
    BY <1>0, <1>1, <1>2, Zenon DEF HistoryInv, TypeOK
<1>3. gc \in [pc : GcPoints, policy : Policies \cup {NoGc.policy}, head : Nat,
              floor : {<< >>} \cup [Tables -> Nat], left : SUBSET Tables] /\ head \in Nat
    BY <1>0, Zenon DEF TypeOK
<1>4. NoGc \in [pc : GcPoints, policy : Policies \cup {NoGc.policy}, head : Nat,
                floor : {<< >>} \cup [Tables -> Nat], left : SUBSET Tables]
      /\ NoGc.pc = "idle"
    BY Zenon DEF NoGc, GcPoints
<1>5. CASE gc' = NoGc /\ gate' = (IF gate = "gc" THEN "free" ELSE gate)
    BY <1>0, <1>1, <1>4, <1>5, Zenon DEF Gated, GcInv
<1>6. CASE GcBegin \/ GcCapture
    <2>1. gc' \in [pc : GcPoints, policy : Policies \cup {NoGc.policy}, head : Nat,
                   floor : {<< >>} \cup [Tables -> Nat], left : SUBSET Tables]
          /\ gc'.pc \in {"checked", "captured"} /\ gc.pc \in {"idle", "checked"}
          /\ gate' = gate
        BY <1>3, <1>4, <1>6, Zenon DEF GcBegin, GcCapture, GcPoints
    <2> QED BY <1>0, <1>1, <2>1, Zenon DEF Gated, GcInv
<1>7. CASE GcGate /\ gc.head = head
    <2>1. gc' = [gc EXCEPT !.pc = "gated"] /\ gate = "free" /\ gate' = "gc"
        BY <1>7, Zenon DEF GcGate
    <2>2. gc' \in [pc : GcPoints, policy : Policies \cup {NoGc.policy}, head : Nat,
                   floor : {<< >>} \cup [Tables -> Nat], left : SUBSET Tables]
          /\ gc'.pc = "gated"
        BY <1>3, <2>1, Zenon DEF GcPoints
    <2> QED BY <1>0, <1>1, <2>1, <2>2, Zenon DEF Gated, GcInv
<1>8. CASE GcRecheck /\ NoIntent
    <2>1. gc.pc = "gated" /\ gc' = [gc EXCEPT !.pc = "floors"] /\ gate' = gate /\ sidecars = {}
        BY <1>8, Zenon DEF GcRecheck, NoIntent
    <2>2. gc' \in [pc : GcPoints, policy : Policies \cup {NoGc.policy}, head : Nat,
                   floor : {<< >>} \cup [Tables -> Nat], left : SUBSET Tables]
          /\ gc'.pc = "floors"
        BY <1>3, <2>1, Zenon DEF GcPoints
    <2> QED BY <1>0, <1>1, <2>1, <2>2, Zenon DEF Gated, GcInv
<1>9. CASE GcFloors /\ Classified
    <2> DEFINE floor == [t \in Tables |-> Min(Named(t))]
    <2>1. gc.pc = "floors" /\ gate' = gate
          /\ gc' = [gc EXCEPT !.pc = "tables", !.left = Tables, !.floor = floor]
        BY <1>9, Zenon DEF GcFloors
    <2>2. ASSUME NEW t \in Tables
          PROVE  /\ Min(Named(t)) \in Nat /\ Min(Named(t)) <= pin[t]
                 /\ \A b \in Live : Lazy(b, t) => Min(Named(t)) <= branch[b][t].v
        <3>1. Named(t) \in SUBSET Nat /\ Named(t) # {} /\ pin[t] \in Named(t)
            BY <1>0 DEF Named, TypeOK, Live
        <3>2. \A b \in Live : Lazy(b, t) => branch[b][t].v \in Named(t)
            BY Zenon DEF Named
        <3> QED BY <3>1, <3>2, MinIsLeast, Zenon
    <2>3. floor \in [Tables -> Nat]
          /\ \A t \in Tables : /\ floor[t] <= pin[t]
                               /\ \A b \in Live : Lazy(b, t) => floor[t] <= branch[b][t].v
        BY <2>2, Zenon
    <2> HIDE DEF floor
    <2>4. gc' \in [pc : GcPoints, policy : Policies \cup {NoGc.policy}, head : Nat,
                   floor : {<< >>} \cup [Tables -> Nat], left : SUBSET Tables]
          /\ gc'.pc = "tables" /\ gc'.floor = floor
        BY <1>3, <2>1, <2>3, Zenon DEF GcPoints
    <2>5. Gated'
        BY <1>0, <1>1, <2>1, <2>4, Zenon DEF Gated
    <2>6. GcInv'
        <3>1. sidecars' = {}
            BY <1>0, <1>1, <2>1, Zenon DEF GcInv
        <3>2. Live' = Live /\ branch' = branch /\ pin' = pin
            BY <1>1, Zenon DEF Live
        <3> QED BY <2>3, <2>4, <3>1, <3>2, Zenon DEF GcInv, Lazy
    <2> QED BY <2>4, <2>5, <2>6, Zenon
<1>10. \/ gc' = NoGc /\ gate' = (IF gate = "gc" THEN "free" ELSE gate)
       \/ GcBegin \/ GcCapture \/ (GcGate /\ gc.head = head)
       \/ (GcRecheck /\ NoIntent) \/ (GcFloors /\ Classified)
    BY <1>0, Zenon DEF GcGate, GcRecheck, GcFloors, GcEnd, Refuse, Gated
<1> QED BY <1>5, <1>6, <1>7, <1>8, <1>9, <1>10, Zenon

\* A collection keeps HEAD, everything at or above the floor, and the parents of forks.
LEMMA CollectedIsUnneeded ==
    ASSUME HistoryInv, gc.pc = "tables", NEW t \in Tables
    PROVE  /\ HeadOf(t) \notin Collected(t) /\ pin[t] \notin Collected(t)
           /\ \A b \in Live : branch[b][t].v \notin Collected(t)
<1>0. TypeOK /\ GcInv
    BY Zenon DEF HistoryInv
<1>1. \A v \in Collected(t) : v < gc.floor[t] /\ v \notin Protected(t)
    BY Zenon DEF Collected, Before
<1>2. gc.floor[t] <= pin[t] /\ \A b \in Live : Lazy(b, t) => gc.floor[t] <= branch[b][t].v
    BY <1>0, Zenon DEF GcInv
<1>3. gc.floor[t] \in Nat /\ pin[t] \in Nat /\ \A b \in Live : branch[b][t].v \in Nat
    BY <1>0 DEF GcInv, TypeOK, Live
<1>4. \A v \in Nat : gc.floor[t] <= v => v \notin Collected(t)
    BY <1>1, <1>3
<1>5. HeadOf(t) \notin Collected(t)
    BY <1>1, Zenon DEF Protected
<1>6. ASSUME NEW b \in Live PROVE branch[b][t].v \notin Collected(t)
    <2>1. CASE Lazy(b, t)
        BY <1>2, <1>3, <1>4, <2>1, Zenon
    <2>2. CASE ~Lazy(b, t)
        BY <1>1, <2>2, Zenon DEF Protected
    <2> QED BY <2>1, <2>2, Zenon
<1> QED BY <1>2, <1>3, <1>4, <1>5, <1>6, Zenon

\* So the collection of a table keeps the invariant.
LEMMA CollectStep ==
    ASSUME HistoryInv, NEW t \in Tables, GcTable(t)
    PROVE  HistoryInv'
<1>0. TypeOK /\ Gated /\ HasHead /\ WriterInv /\ GcInv /\ PinsOpenable /\ RecoveryHasHistory
    BY Zenon DEF HistoryInv
<1>1. /\ gc.pc = "tables" /\ gc' = [gc EXCEPT !.left = @ \ {t}]
      /\ versions' \in {[versions EXCEPT ![t] = @ \ Collected(t)], versions}
      /\ UNCHANGED <<pin, branch, sidecars, head, writer, gate>>
    BY Zenon DEF GcTable
<1>2. /\ gc' \in [pc : GcPoints, policy : Policies \cup {NoGc.policy}, head : Nat,
                  floor : {<< >>} \cup [Tables -> Nat], left : SUBSET Tables]
      /\ gc'.pc = gc.pc /\ gc'.floor = gc.floor
    BY <1>0, <1>1, Zenon DEF TypeOK
<1>3. /\ versions' \in [Tables -> SUBSET Nat]
      /\ \A u \in Tables : u # t => versions'[u] = versions[u]
      /\ versions'[t] = versions[t] \/ versions'[t] = versions[t] \ Collected(t)
    BY <1>0, <1>1, Zenon DEF TypeOK
<1>4. TypeOK'
    BY <1>0, <1>1, <1>2, <1>3, Zenon DEF TypeOK
<1>5. HasHead'
    <2>1. HeadOf(t) \in versions'[t] /\ \A v \in versions'[t] : HeadOf(t) >= v
        BY <1>0, <1>1, <1>3, HeadIsGreatest, CollectedIsUnneeded, Zenon
    <2> QED BY <1>0, <1>3, <2>1, Zenon DEF HasHead
<1>6. PinsOpenable'
    <2>1. pin[t] \in versions'[t] /\ \A b \in Live : branch[b][t].v \in versions'[t]
        BY <1>0, <1>1, <1>3, CollectedIsUnneeded, Zenon DEF PinsOpenable
    <2> QED BY <1>0, <1>1, <1>3, <2>1, Zenon DEF PinsOpenable, Live
<1>7. sidecars' = {} /\ writer'.pc = "idle" /\ Live' = Live
    BY <1>0, <1>1, Zenon DEF GcInv, Gated, Live
<1>8. Gated' /\ WriterInv' /\ RecoveryHasHistory'
    BY <1>0, <1>1, <1>2, <1>7, Zenon DEF Gated, WriterInv, RecoveryHasHistory
<1>9. GcInv'
    BY <1>0, <1>1, <1>2, <1>7, Zenon DEF GcInv, Lazy
<1> QED BY <1>4, <1>5, <1>6, <1>8, <1>9, Zenon DEF HistoryInv

\* HistoryInv is inductive.
LEMMA HistoryStep == HistoryInv /\ [Next]_vars => HistoryInv'
<1> SUFFICES ASSUME HistoryInv, [Next]_vars PROVE HistoryInv'
    BY Zenon
<1>1. CASE UNCHANGED <<versions, pin, branch, sidecars, head, writer, gc, gate>>
    BY <1>1, Zenon DEF HistoryInv, TypeOK, Gated, HasHead, WriterInv, GcInv, PinsOpenable,
       RecoveryHasHistory, HeadOf, Live, Lazy
<1>2. UNCHANGED vars \/ TimePasses => UNCHANGED <<versions, pin, branch, sidecars, head, writer, gc, gate>>
    BY Zenon DEF vars, TimePasses
<1> QED BY <1>1, <1>2, WriterSteps, RestoreStep, ControlSteps, DriftStep, RequestSteps, CollectStep, Zenon
        DEF Next, GcNext

\* The invariant of cleanup_all_tables beside writers, branch controls and recovery,
\* for every set of tables, branches and policies and for any number of requests.
THEOREM HistoryInvariant == Spec => []HistoryInv
BY HistoryInit, HistoryStep, PTL DEF Spec

\* cleanup_all_tables never removes a version that main's manifest or a live branch
\* names: not the lazy branch's, which Lance cannot see, and not a fork's parent.
THEOREM PinsStayOpenable == Spec => []PinsOpenable
<1>1. HistoryInv => PinsOpenable
    BY Zenon DEF HistoryInv
<1> QED BY <1>1, HistoryInvariant, PTL

\* A pending recovery intent always finds the version it would restore and, once the
\* commit it announces has happened, that commit, also after the Restore that undoes it:
\* the check under the gates suffices.
THEOREM IntentsKeepHistory == Spec => []RecoveryHasHistory
<1>1. HistoryInv => RecoveryHasHistory
    BY Zenon DEF HistoryInv
<1> QED BY <1>1, HistoryInvariant, PTL
=============================================================================
