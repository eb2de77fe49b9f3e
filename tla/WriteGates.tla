----------------------------- MODULE WriteGates -----------------------------
(***************************************************************************)
(* The process-local gates of one graph root: the registry of managers,    *)
(* the ordered mutexes on schema, branches and tables, and the export gate *)
(* that one immutable export shares with the destructive controls.         *)
(*                                                                         *)
(* The registry keeps a weak reference, so a manager lives as long as some *)
(* handle, request or permit refers to it; the next handle after that gets *)
(* gates of its own.  A mutex is the queue of the requests that asked for  *)
(* it (tokio mutexes are fair); its first element owns it.                 *)
(***************************************************************************)
EXTENDS Integers, Sequences, FiniteSets, SequencesExt, TLC

CONSTANTS
    Requests,      \* request identities, each used once
    Kinds,         \* operations the requests may be
    Handles,       \* handle identities
    MaxManagers    \* bound: managers ever built

Schema == <<0, 0, 0>>
Branch(b) == <<1, b, 0>>
Table(t, b) == <<2, t, b>>
TablesOf(bs) == [i \in 1..2 * Len(bs) |->
                    IF i <= Len(bs) THEN Table(2, bs[i]) ELSE Table(1, bs[i - Len(bs)])]

VARIABLES
    registry,   \* the manager the weak reference names, 0 for none
    handles,    \* per handle: its manager, 0 when closed
    built,      \* managers built so far
    gates,      \* per manager and key: the requests waiting, the owner first
    req         \* per request: kind, manager, handle, position in its plan and call, permit

vars == <<registry, handles, built, gates, req>>

Lock(ks) == [call |-> "lock", keys |-> ks]
Try(side) == [call |-> side, keys |-> <<>>]
Unlock(ks) == [call |-> "unlock", keys |-> ks]
Effect == [call |-> "effect", keys |-> <<>>]

\* The order in which each operation takes its gates (main is branch 0).
MutationPlanEarlyDrop ==
    <<Lock(<<Schema>>), Lock(<<Branch(1)>>), Lock(TablesOf(<<1>>)),
      Unlock(<<Schema, Branch(1)>> \o TablesOf(<<1>>)), Effect>>
MutationPlan == <<Lock(<<Schema>>), Lock(<<Branch(1)>>), Lock(TablesOf(<<1>>)), Effect>>
MergePlan == <<Lock(<<Schema>>), Lock(<<Branch(1), Branch(0)>>), Lock(TablesOf(<<0>>)), Effect>>
OptimizePlan ==
    <<Try("shared"), Lock(<<Schema>>), Lock(<<Branch(0)>>), Lock(TablesOf(<<0>>)), Effect>>
CleanupPlan ==
    <<Try("shared"), Lock(<<Schema>>), Lock(<<Table(1, 1)>>), Unlock(<<Table(1, 1)>>),
      Lock(<<Branch(1), Branch(0), Branch(0)>>), Lock(TablesOf(<<1, 0>>)), Effect>>
CreatePlan ==
    <<Try("shared"), Lock(<<Schema>>), Lock(<<Branch(1), Branch(1)>>),
      Lock(TablesOf(<<1, 1>>)), Effect>>
ExportPlan == <<Try("sole"), Lock(<<Schema>>), Unlock(<<Schema>>), Effect>>
RefreshPlan ==
    <<Lock(<<Schema>>), Unlock(<<Schema>>),
      Lock(<<Schema>>), Lock(<<Branch(1)>>), Lock(TablesOf(<<1>>)), Effect,
      Unlock(<<Schema, Branch(1)>> \o TablesOf(<<1>>)), Lock(<<Schema>>)>>
OpenPlan ==
    <<Lock(<<Schema>>), Lock(<<Branch(1)>>), Lock(TablesOf(<<1>>)), Effect>>
RootDeletePlan == <<Try("shared"), Effect>>

Plan(kind) ==
    CASE kind = "mutation" -> MutationPlan   [] kind = "merge" -> MergePlan
      [] kind = "optimize" -> OptimizePlan   [] kind = "cleanup" -> CleanupPlan
      [] kind = "create" -> CreatePlan       [] kind = "export" -> ExportPlan
      [] kind = "refresh" -> RefreshPlan     [] kind = "open" -> OpenPlan
      [] kind = "root_delete" -> RootDeletePlan

KeyLess(a, b) ==
    \/ a[1] < b[1]
    \/ a[1] = b[1] /\ a[2] < b[2]
    \/ a[1] = b[1] /\ a[2] = b[2] /\ a[3] < b[3]

AllKeys == UNION {UNION {ToSet(Plan(k)[i].keys) : i \in DOMAIN Plan(k)} : k \in Kinds}

\* acquire_many and acquire_branches: sorted, each key once.
UnsortedKeys(ks) == ks
OrderedKeys(ks) == SetToSortSeq(ToSet(ks), KeyLess)

Idle == [kind |-> "none", m |-> 0, h |-> "none", at |-> 1, n |-> 1, permit |-> "none",
         out |-> "idle"]

Running(r) == req[r].out = "running"

\* Everyone who holds a strong reference to a manager.
\* A permit keeps its own manager alive.
PermitKeepsNothing(r) == {}
PermitKeeps(r) == IF req[r].permit # "none" THEN {req[r].m} ELSE {}
Alive ==
    ({handles[h] : h \in Handles}
       \cup {req[r].m : r \in {q \in Requests : Running(q) /\ req[q].h # "none"}}
       \cup UNION {PermitKeeps(r) : r \in Requests}) \ {0}

\* for_root: upgrade the weak reference, else build a manager and name it.
ForRoot == IF registry \in Alive THEN registry ELSE built + 1

Init ==
    /\ registry = 0 /\ built = 0
    /\ handles = [h \in Handles |-> 0]
    /\ gates = [m \in 1..MaxManagers |-> [k \in AllKeys |-> <<>>]]
    /\ req = [r \in Requests |-> Idle]

Register(m) ==
    /\ m <= MaxManagers
    /\ registry' = m
    /\ built' = IF m > built THEN m ELSE built

\* A request on an open handle; a root deletion has none and goes through the registry.
Begin(r) ==
    /\ req[r].out = "idle"
    /\ \E k \in Kinds \ {"open", "root_delete"}, h \in Handles :
         /\ handles[h] # 0
         /\ req' = [req EXCEPT ![r] = [Idle EXCEPT !.kind = k, !.m = handles[h], !.h = h,
                                                    !.out = "running"]]
    /\ UNCHANGED <<registry, handles, built, gates>>

\* open: the manager first, then the recovery sweep under the gates.
BeginOpen(r) ==
    /\ req[r].out = "idle" /\ "open" \in Kinds
    /\ \E h \in Handles :
         /\ handles[h] = 0 /\ \A q \in Requests : Running(q) => req[q].h # h
         /\ Register(ForRoot)
         /\ req' = [req EXCEPT ![r] = [Idle EXCEPT !.kind = "open", !.m = ForRoot, !.h = h,
                                                    !.out = "running"]]
    /\ UNCHANGED <<handles, gates>>

\* An operator deletes the root: permit or refusal in one call.
ExportFree(m) == \A q \in Requests : req[q].m = m => req[q].permit # "sole"
BeginRootDelete(r) ==
    /\ req[r].out = "idle" /\ "root_delete" \in Kinds
    /\ Register(ForRoot)
    /\ req' = [req EXCEPT ![r] =
         IF ExportFree(ForRoot)
         THEN [Idle EXCEPT !.kind = "root_delete", !.m = ForRoot, !.at = 2,
                           !.permit = "shared", !.out = "running"]
         ELSE [Idle EXCEPT !.kind = "root_delete", !.out = "refused"]]
    /\ UNCHANGED <<handles, gates>>

CloseHandle(h) ==
    /\ handles[h] # 0
    /\ handles' = [handles EXCEPT ![h] = 0]
    /\ UNCHANGED <<registry, built, gates, req>>

Call(r) == Plan(req[r].kind)[req[r].at]
AtEnd(r) == req[r].at > Len(Plan(req[r].kind))
Advance(r) == [req EXCEPT ![r].at = @ + 1, ![r].n = 1]

Keys(r) == OrderedKeys(Call(r).keys)
Ticket(r) == <<r, req[r].at, req[r].n>>
Queue(r) == gates[req[r].m][Keys(r)[req[r].n]]
\* Guards of the request are dropped; a waiting request leaves the queues.
Without(r, ks) ==
    [gates EXCEPT ![req[r].m] =
       [k \in AllKeys |-> IF k \in ks THEN SelectSeq(@[k], LAMBDA q : q[1] # r) ELSE @[k]]]

\* Ask for the next key of the call: the request joins its queue ...
Enqueue(r) ==
    /\ Running(r) /\ ~AtEnd(r) /\ Call(r).call = "lock" /\ req[r].n <= Len(Keys(r))
    /\ Ticket(r) \notin ToSet(Queue(r))
    /\ gates' = [gates EXCEPT ![req[r].m][Keys(r)[req[r].n]] = Append(@, Ticket(r))]
    /\ UNCHANGED <<registry, handles, built, req>>

\* ... and asks for the one after it once it owns it.
Granted(r) ==
    /\ Running(r) /\ ~AtEnd(r) /\ Call(r).call = "lock" /\ req[r].n <= Len(Keys(r))
    /\ Queue(r) # <<>> /\ Head(Queue(r)) = Ticket(r)
    /\ req' = [req EXCEPT ![r].n = @ + 1]
    /\ UNCHANGED <<registry, handles, built, gates>>

Locked(r) ==
    /\ Running(r) /\ ~AtEnd(r) /\ Call(r).call = "lock" /\ req[r].n > Len(Keys(r))
    /\ req' = Advance(r)
    /\ UNCHANGED <<registry, handles, built, gates>>

\* try_acquire_export_cut: the only holder; try_acquire_export_destructive: no cut.
CutFree(m) == \A q \in Requests : req[q].m = m => req[q].permit = "none"
TryExport(r) ==
    /\ Running(r) /\ ~AtEnd(r) /\ Call(r).call \in {"sole", "shared"}
    /\ LET side == Call(r).call
           free == IF side = "sole" THEN CutFree(req[r].m) ELSE ExportFree(req[r].m)
       IN  req' = [req EXCEPT ![r] =
              IF free THEN [@ EXCEPT !.permit = side, !.at = @ + 1]
              ELSE [@ EXCEPT !.out = "refused"]]
    /\ UNCHANGED <<registry, handles, built, gates>>

DropGuards(r) ==
    /\ Running(r) /\ ~AtEnd(r) /\ Call(r).call = "unlock"
    /\ gates' = Without(r, ToSet(Call(r).keys)) /\ req' = Advance(r)
    /\ UNCHANGED <<registry, handles, built>>

DoEffect(r) ==
    /\ Running(r) /\ ~AtEnd(r) /\ Call(r).call = "effect"
    /\ req' = Advance(r)
    /\ UNCHANGED <<registry, handles, built, gates>>

Finish(r) ==
    /\ Running(r) /\ AtEnd(r)
    /\ gates' = Without(r, AllKeys)
    /\ handles' = IF req[r].kind = "open" THEN [handles EXCEPT ![req[r].h] = req[r].m]
                  ELSE handles
    /\ req' = [req EXCEPT ![r].out = "done", ![r].permit = "none"]
    /\ UNCHANGED <<registry, built>>

\* The caller drops the future at an await: guards and permit go with it.
Cancel(r) ==
    /\ Running(r)
    /\ gates' = Without(r, AllKeys)
    /\ req' = [req EXCEPT ![r].out = "dropped", ![r].permit = "none"]
    /\ UNCHANGED <<registry, handles, built>>

Step(r) ==
    Enqueue(r) \/ Granted(r) \/ Locked(r) \/ TryExport(r) \/ DropGuards(r) \/ DoEffect(r) \/ Finish(r)
Next ==
    \/ \E r \in Requests : Begin(r) \/ BeginOpen(r) \/ BeginRootDelete(r) \/ Step(r) \/ Cancel(r)
    \/ \E h \in Handles : CloseHandle(h)

Symmetry == Permutations(Requests) \cup Permutations(Handles)

Spec == Init /\ [][Next]_vars

-----------------------------------------------------------------------------
(* Properties *)

InEffect(r) == Running(r) /\ ~AtEnd(r) /\ Call(r).call = "effect"
Needs(k) == UNION {ToSet(Plan(k)[i].keys) : i \in DOMAIN Plan(k)}

\* Two requests whose operations lock a common branch or table are never both in
\* their effects, whichever handles of the root they came through: a Restore of one
\* handle's recovery never runs beside a writer of another handle.
EffectsExclusive ==
    \A r, q \in Requests :
        /\ r # q /\ InEffect(r) /\ InEffect(q)
        /\ {req[r].kind, req[q].kind} \cap {"export", "root_delete"} = {}
        => Needs(req[r].kind) \cap Needs(req[q].kind) = {}

Destructive == {"optimize", "cleanup", "create", "root_delete"}

\* While an export streams its cut, no control that may remove the cut's files or
\* reuse its paths is in its effects; the deletion of the whole root has no handle and
\* must meet the same gate.
CutUndisturbed ==
    \A r, q \in Requests :
        InEffect(r) /\ req[r].kind = "export" /\ InEffect(q)
        => q = r \/ req[q].kind \notin Destructive \cup {"export"}

=============================================================================
