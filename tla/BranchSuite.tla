----------------------------- MODULE BranchSuite ------------------------------
(*****************************************************************************)
(* Branches and the views of a handle for TLC: creating, writing and         *)
(* deleting branches with their lazy table forks and intents                 *)
(* (BranchControl), and the coordinator one handle shares between reads,     *)
(* writes, merges and schema changes (HandleView). A behaviour is about      *)
(* one of them: area names it and its bounds, and the components share the   *)
(* variables.                                                                *)
(*****************************************************************************)
EXTENDS Integers, Sequences, FiniteSets, TLC

CONSTANTS feature, nested, reqOne, reqTwo, main, noTask, person

\* The component a behaviour is about, and its variables.
VARIABLES area, x1, x2, x3, x4, x5, x6, x7, x8, x9, x10, x11, x12, x13, x14,
          x15

vars == <<area, x1, x2, x3, x4, x5, x6, x7, x8, x9, x10, x11, x12, x13, x14,
        x15>>

\* Two requests of one server are interchangeable.
Requests == Permutations({reqOne, reqTwo})

\* Two requests: failed calls on two flat names, a crash on one name, and
\* names of which one is a path prefix of the other.
ControlCases ==
    {[of |-> "control", names |-> {feature, nested}, children |-> {}, calls |-> 5, faults |-> 1, crashes |-> 0],
     [of |-> "control", names |-> {feature}, children |-> {}, calls |-> 5, faults |-> 2, crashes |-> 1],
     [of |-> "control", names |-> {feature, nested}, children |-> {<<nested, feature>>}, calls |-> 4, faults |-> 2, crashes |-> 0]}
Control(c) == INSTANCE BranchControl WITH
    Names <- c.names, Main <- main, Children <- c.children,
    Tables <- {person}, Tasks <- {reqOne, reqTwo}, NoTask <- noTask,
    MaxCalls <- c.calls, MaxFaults <- c.faults, MaxCrashes <- c.crashes,
    branches <- x1, trees <- x2, refs <- x3, sidecars <- x4, commits <- x5,
    audit <- x6, task <- x7, gate <- x8, up <- x9, uid <- x10,
    calls <- x11, faults <- x12, crashes <- x13

\* Reads and writes beside foreign commits, schema changes beside reads, and
\* the operations that swap the coordinator of the handle.
HandleCases ==
    {[of |-> "handle", ops |-> {"foreign", "read", "write", "sync"}, commits |-> 3, reads |-> 2],
     [of |-> "handle", ops |-> {"read", "view", "write", "apply", "sync"}, commits |-> 2, reads |-> 2],
     [of |-> "handle", ops |-> {"foreign", "read", "sync", "merge", "create"}, commits |-> 2, reads |-> 1]}
Handle(c) == INSTANCE HandleView WITH
    Ops <- c.ops, MaxCommits <- c.commits, MaxRecreate <- 1,
    MaxReads <- c.reads, MaxFaults <- 1, CaptureTries <- 2,
    disk <- x1, next <- x2, schema <- x3, coord <- x4, selected <- x5,
    gate <- x6, read <- x7, write <- x8, merge <- x9, create <- x10,
    apply <- x11, view <- x12, reads <- x13, recreated <- x14,
    faults <- x15

-----------------------------------------------------------------------------
ControlInit ==
    /\ \E c \in ControlCases : area = c /\ Control(c)!Init
    /\ x14 = 0 /\ x15 = 0

HandleInit ==
    /\ \E c \in HandleCases : area = c /\ Handle(c)!Init

Init == ControlInit \/ HandleInit

ControlNext ==
    /\ \E c \in ControlCases : area = c /\ Control(c)!Next
    /\ UNCHANGED <<area, x14, x15>>

HandleNext ==
    /\ \E c \in HandleCases : area = c /\ Handle(c)!Next
    /\ UNCHANGED <<area>>

Next == ControlNext \/ HandleNext

Spec == Init /\ [][Next]_vars

-----------------------------------------------------------------------------
\* Branch create, write and delete with their lazy table forks: every live
\* branch opens and shows exactly its rows, a fork another branch still reads
\* is never deleted, a pending intent belongs to the live incarnation of its
\* branch, and every audit row joins a commit.
BranchesExact ==
    \A c \in ControlCases : area = c =>
        /\ Control(c)!ForksIntact
        /\ Control(c)!RowsExact
        /\ Control(c)!IntentOfLiveIncarnation
        /\ Control(c)!AuditJoins
        /\ Control(c)!BranchesOpen

\* The coordinator a handle shares: a read sees every commit that was
\* acknowledged before it began, a snapshot is paired with the head it was
\* read at, a schema token and a view belong to one schema, and whatever an
\* operation swaps in, the handle is back on its own branch when it is over.
HandleCoherent ==
    \A c \in HandleCases : area = c =>
        /\ Handle(c)!ReadFresh
        /\ Handle(c)!HeadPaired
        /\ Handle(c)!TokenCoherent
        /\ Handle(c)!ViewCoherent
        /\ Handle(c)!HandleHome

\* The answer of a branch control is the truth, lost acknowledgements
\* included: "ok" to a create means the ref this call minted is live, an error
\* means that it is not; "ok" to a delete means that the captured incarnation
\* is gone, an error after the native call means that it is still there.
AnswersTrue ==
  [][
    \A c \in ControlCases : area = c => Control(c)!AnswersTrue
  ]_vars
=============================================================================
