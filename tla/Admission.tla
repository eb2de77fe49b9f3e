------------------------------ MODULE Admission ------------------------------
(***************************************************************************)
(* WorkloadController: how many requests, and how many estimated bytes, an *)
(* actor may have in flight on the server.  Every atomic operation of      *)
(* try_admit and of the guard's drop is a step of its own; the byte        *)
(* counter wraps like the AtomicU64 it is.                                 *)
(***************************************************************************)
EXTENDS Integers, FiniteSets, FiniteSetsExt

CONSTANTS Requests, Actors,
          StateIds,       \* ActorState allocations
          InflightCap, ByteCap,
          MaxEstimate,    \* largest byte estimate a request body can have
          Width           \* bits of the counter

NoState == "none"

VARIABLES per_actor,  \* actor -> its ActorState, or NoState
          fresh,      \* ActorStates not allocated yet
          permits,    \* free permits of each state's semaphore
          bytes,      \* each state's byte counter
          req         \* the requests: where they are, and what they hold

vars == <<per_actor, fresh, permits, bytes, req>>

Idle == [pc |-> "idle", actor |-> NoState, state |-> NoState, est |-> 0, prior |-> 0]

Init ==
    /\ per_actor = [a \in Actors |-> NoState]
    /\ fresh = StateIds
    /\ permits = [s \in StateIds |-> InflightCap]
    /\ bytes = [s \in StateIds |-> 0]
    /\ req = [r \in Requests |-> Idle]

At(r, pc) == req[r].pc = pc
Goto(r, pc) == req' = [req EXCEPT ![r].pc = pc]

\* actor_state, first half: the lookup.
Lookup(r) ==
    /\ At(r, "idle")
    /\ \E a \in Actors, est \in 0..MaxEstimate :
         req' = [req EXCEPT ![r] = [pc |-> IF per_actor[a] = NoState THEN "insert" ELSE "count",
                                    actor |-> a, state |-> per_actor[a], est |-> est, prior |-> 0]]
    /\ UNCHANGED <<per_actor, fresh, permits, bytes>>

\* Second half: or_insert_with keeps an entry another request inserted meanwhile.
actor_state(r) ==
    /\ At(r, "insert")
    /\ LET a == req[r].actor
       IN  IF per_actor[a] # NoState
           THEN /\ req' = [req EXCEPT ![r].pc = "count", ![r].state = per_actor[a]]
                /\ UNCHANGED <<per_actor, fresh>>
           ELSE LET s == CHOOSE x \in fresh : TRUE IN
                  /\ per_actor' = [per_actor EXCEPT ![a] = s]
                  /\ fresh' = fresh \ {s}
                  /\ req' = [req EXCEPT ![r].pc = "count", ![r].state = s]
    /\ UNCHANGED <<permits, bytes>>

AcquireWaits(r) ==
    /\ At(r, "count") /\ permits[req[r].state] > 0
    /\ permits' = [permits EXCEPT ![req[r].state] = @ - 1] /\ Goto(r, "add")
    /\ UNCHANGED <<per_actor, fresh, bytes>>

\* Count gate: try_acquire_owned.
TryAcquire(r) ==
    /\ At(r, "count")
    /\ IF permits[req[r].state] > 0
       THEN permits' = [permits EXCEPT ![req[r].state] = @ - 1] /\ Goto(r, "add")
       ELSE UNCHANGED permits /\ req' = [req EXCEPT ![r] = Idle]
    /\ UNCHANGED <<per_actor, fresh, bytes>>

\* Byte gate: fetch_add, then the check on the value it returned.
FetchAdd(r) ==
    /\ At(r, "add")
    /\ bytes' = [bytes EXCEPT ![req[r].state] = (@ + req[r].est) % 2^Width]
    /\ req' = [req EXCEPT ![r].pc = "check", ![r].prior = bytes[req[r].state]]
    /\ UNCHANGED <<per_actor, fresh, permits>>

CheckPriorOnly(r) ==
    /\ At(r, "check")
    /\ Goto(r, IF req[r].prior > ByteCap THEN "undo" ELSE "admitted")
    /\ UNCHANGED <<per_actor, fresh, permits, bytes>>

Check(r) ==
    /\ At(r, "check")
    /\ Goto(r, IF req[r].prior + req[r].est > ByteCap THEN "undo" ELSE "admitted")
    /\ UNCHANGED <<per_actor, fresh, permits, bytes>>

UndoKeepsBytes(r) ==
    /\ At(r, "undo")
    /\ UNCHANGED bytes
    /\ Goto(r, "release")
    /\ UNCHANGED <<per_actor, fresh, permits>>

\* Byte rejection rolls the add back; the permit drops as the call returns.
Undo(r) ==
    /\ At(r, "undo")
    /\ bytes' = [bytes EXCEPT ![req[r].state] = (@ - req[r].est) % 2^Width]
    /\ Goto(r, "release")
    /\ UNCHANGED <<per_actor, fresh, permits>>

\* The guard is dropped when the request completes: bytes first, then the permit.
DropGuard(r) ==
    /\ At(r, "admitted")
    /\ bytes' = [bytes EXCEPT ![req[r].state] = (@ - req[r].est) % 2^Width]
    /\ Goto(r, "release")
    /\ UNCHANGED <<per_actor, fresh, permits>>

DropPermitTwice(r) ==
    /\ At(r, "release")
    /\ permits' = [permits EXCEPT ![req[r].state] = @ + 2]
    /\ req' = [req EXCEPT ![r] = Idle]
    /\ UNCHANGED <<per_actor, fresh, bytes>>

DropPermit(r) ==
    /\ At(r, "release")
    /\ permits' = [permits EXCEPT ![req[r].state] = @ + 1]
    /\ req' = [req EXCEPT ![r] = Idle]
    /\ UNCHANGED <<per_actor, fresh, bytes>>

Advance(r) == \/ actor_state(r) \/ TryAcquire(r) \/ FetchAdd(r) \/ Check(r)
              \/ Undo(r) \/ DropGuard(r) \/ DropPermit(r)

Next == \E r \in Requests : Lookup(r) \/ Advance(r)


-----------------------------------------------------------------------------
(* Properties *)

Of(a, pcs) == {r \in Requests : req[r].actor = a /\ req[r].pc \in pcs}
Bytes(S) == MapThenSumSet(LAMBDA r : req[r].est, S)

TypeOK ==
    /\ permits \in [StateIds -> 0..InflightCap] /\ bytes \in [StateIds -> 0..(2^Width - 1)]
    /\ \A r \in Requests : req[r].est \in 0..MaxEstimate

\* An actor never has more admitted requests than its cap nor more admitted
\* bytes than its budget, although add, check and roll-back interleave and two
\* first requests may both find no ActorState (try_admit, actor_state).
WithinCaps ==
    \A a \in Actors :
        /\ Cardinality(Of(a, {"admitted"})) <= InflightCap
        /\ Bytes(Of(a, {"admitted"})) <= ByteCap

\* Rejections and completions return exactly what they took: the counters are
\* accounted for by the requests that still hold something, so a retrying
\* client never leaks budget.
NoLeak ==
    \A a \in Actors : per_actor[a] # NoState =>
        /\ bytes[per_actor[a]] = Bytes(Of(a, {"check", "undo", "admitted"}))
        /\ permits[per_actor[a]] =
             InflightCap - Cardinality(Of(a, {"add", "check", "undo", "admitted", "release"}))
=============================================================================
