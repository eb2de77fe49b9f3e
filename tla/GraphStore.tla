----------------------------- MODULE GraphStore -----------------------------
(***************************************************************************)
(* What the write path promises the users of one graph branch: an          *)
(* optimistic, serializable store of whole-graph commits.  No table        *)
(* versions, no sidecars, no recovery: a write is prepared against one     *)
(* graph head, becomes visible in all its tables at once on top of exactly *)
(* that head or not at all, and an answer that was given stays true.       *)
(***************************************************************************)
EXTENDS Naturals, Sequences

CONSTANTS Tables, Ops,
          Genesis, NoHead,      \* the first graph head; "not prepared yet"
          CommitId(_), RollbackId(_)

VARIABLES
    rows,      \* the operations whose rows a reader of each table sees
    history,   \* graph commits, oldest first
    base,      \* the head each operation was prepared against
    touched,   \* the tables each operation writes
    told       \* what its caller was told

storeVars == <<rows, history, base, touched, told>>

Visible == {history[i] : i \in DOMAIN history}

StoreInit ==
    /\ rows = [t \in Tables |-> {}]
    /\ history = <<Genesis>>
    /\ base = [o \in Ops |-> NoHead]
    /\ touched = [o \in Ops |-> {}]
    /\ told = [o \in Ops |-> "none"]

\* The caller may learn the outcome with the step that settles it, later, or
\* never; "recovery" promises nothing.
Answers(o, committed) ==
    told' \in {told} \cup
        {[told EXCEPT ![o] = answer] : answer \in
            IF committed THEN {"ok", "recovery"} ELSE {"rejected", "recovery"}}

Prepared(o) ==
    /\ base[o] = NoHead
    /\ \E head \in Visible : base' = [base EXCEPT ![o] = head]
    /\ \E tabs \in SUBSET Tables : touched' = [touched EXCEPT ![o] = tabs]
    /\ Answers(o, FALSE)
    /\ UNCHANGED <<rows, history>>

\* An operation that was neither settled nor rejected.
Open(o) ==
    /\ base[o] # NoHead /\ told[o] # "rejected"
    /\ CommitId(o) \notin Visible /\ RollbackId(o) \notin Visible

Commits(o) ==
    /\ Open(o)
    /\ base[o] = history[Len(history)]
    /\ history' = Append(history, CommitId(o))
    /\ rows' = [t \in Tables |-> IF t \in touched[o] THEN rows[t] \cup {o} ELSE rows[t]]
    /\ Answers(o, TRUE)
    /\ UNCHANGED <<base, touched>>

\* A rollback is a graph commit that changes no reader's rows.
RollsBack(o) ==
    /\ base[o] # NoHead /\ told[o] # "ok"
    /\ CommitId(o) \notin Visible /\ RollbackId(o) \notin Visible
    /\ history' = Append(history, RollbackId(o))
    /\ UNCHANGED <<rows, base, touched, told>>

Answered(o) ==
    /\ base[o] # NoHead /\ told[o] = "none"
    /\ Answers(o, CommitId(o) \in Visible)
    /\ UNCHANGED <<rows, history, base, touched>>

StoreNext == \E o \in Ops : Prepared(o) \/ Commits(o) \/ RollsBack(o) \/ Answered(o)

StoreSpec == StoreInit /\ [][StoreNext]_storeVars
=============================================================================
