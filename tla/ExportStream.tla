---------------------------- MODULE ExportStream ----------------------------
(***************************************************************************)
(* Served and local export.  A served export reserves transport memory,    *)
(* takes the sole export cut of the graph, captures one snapshot and then  *)
(* streams it: a producer task walks the pinned tables and sends chunks    *)
(* through a channel of two to the response body, and sends the cut itself *)
(* behind the last chunk.  Writers publish and destructive controls ask    *)
(* for the export gate meanwhile; clients disconnect, scans fail and the   *)
(* producer task may die.                                                  *)
(*                                                                         *)
(* A table at version v holds the rows 1..v; a row encodes to one or more  *)
(* chunks.  Table 1 is edge:A, 2 is node:A and 3 is node:B.                *)
(***************************************************************************)
EXTENDS Integers, Sequences, FiniteSets, SequencesExt

CONSTANTS
    Exports,        \* request identities, each used once
    Requests,       \* the requests: type names, table keys, served or local
    Leases,         \* responses the byte budget has room for
    QueueChunks,    \* EXPORT_QUEUE_CHUNKS
    MaxWrites,      \* bound: publishes
    MaxFailures     \* bound: failed scans and dead producers

Tables == {1, 2, 3}
TypeOfTable == <<"A", "A", "B">>
ChunksOfRow(r) == IF r % 2 = 0 THEN 2 ELSE 1

VARIABLES
    pins,      \* per table: the published version
    floor,     \* per table: the oldest version that still exists
    free,      \* leases left in the byte budget
    control,   \* a destructive control holds the export gate
    exp,       \* per export: its request, walk, channel and body
    writes, failures

vars == <<pins, floor, free, control, exp, writes, failures>>

Fresh == [pc |-> "idle", served |-> FALSE, types |-> {}, keys |-> {}, lease |-> {},
          cut |-> "none", pins |-> <<0, 0, 0>>, sel |-> <<>>, at |-> 1, hold |-> FALSE,
          queue |-> <<>>, body |-> "none", cur |-> FALSE, got |-> <<>>, tx |-> "none"]

Init ==
    /\ pins = [t \in Tables |-> 1] /\ floor = [t \in Tables |-> 1]
    /\ free = Leases /\ control = FALSE
    /\ exp = [e \in Exports |-> Fresh]
    /\ writes = 0 /\ failures = 0

Set(e, r) == exp' = [exp EXCEPT ![e] = r]
CutHeld == \E e \in Exports : exp[e].cut # "none"

\* One chunk list per table, one after the other: the walk of the selected tables.
RowChunks(t, r) == [p \in 1..ChunksOfRow(r) |-> <<t, r, p>>]
TableChunks(t, v) == FoldLeft(LAMBDA acc, r : acc \o RowChunks(t, r), <<>>, [i \in 1..v |-> i])
WalkOf(sel, at) == FoldLeft(LAMBDA acc, t : acc \o TableChunks(t, at[t]), <<>>, sel)
Walk(e) == WalkOf(exp[e].sel, exp[e].pins)

\* export_table_keys: named tables and every table of a named type, sorted; an unknown
\* name is an error; no name at all selects everything.
Known(types, keys) ==
    /\ keys \subseteq Tables
    /\ \A n \in types : \E t \in Tables : TypeOfTable[t] = n
Selection(types, keys) ==
    LET named == keys \cup {t \in Tables : TypeOfTable[t] \in types}
    IN  SetToSortSeq(IF named = {} THEN Tables ELSE named, <)
Begin(e) ==
    /\ exp[e].pc = "idle"
    /\ \E q \in Requests :
         Set(e, [exp[e] EXCEPT !.pc = IF q.served THEN "reserving" ELSE "cutting",
                               !.served = q.served, !.types = q.types, !.keys = q.keys])
    /\ UNCHANGED <<pins, floor, free, control, writes, failures>>

\* ExportTransport::reserve: a lease, or a refusal after the timeout.
Reserve(e) ==
    /\ exp[e].pc = "reserving"
    /\ \/ /\ free > 0 /\ free' = free - 1
          /\ Set(e, [exp[e] EXCEPT !.pc = "cutting", !.lease = {"body"}])
       \/ /\ free = 0 /\ free' = free
          /\ Set(e, [exp[e] EXCEPT !.pc = "refused"])
    /\ UNCHANGED <<pins, floor, control, writes, failures>>

\* A lease returns to the budget when its last owner drops it.
Returned(old, new) == IF old # {} /\ new = {} THEN 1 ELSE 0
Drop(e, r) == /\ Set(e, r) /\ free' = free + Returned(exp[e].lease, r.lease)

\* The sole cut, without waiting.
TakeCut(e) ==
    /\ exp[e].pc = "cutting"
    /\ IF CutHeld \/ control
       THEN Drop(e, [exp[e] EXCEPT !.pc = "refused", !.lease = {}])
       ELSE Drop(e, [exp[e] EXCEPT !.pc = "capturing", !.cut = "request"])
    /\ UNCHANGED <<pins, floor, control, writes, failures>>

TaskLeaseBodyOnly(e) == IF exp[e].served THEN {"body"} ELSE {}
TaskLease(e) == IF exp[e].served THEN {"body", "producer"} ELSE {}

\* Heal, then one snapshot and catalog under the schema gate, then the selection; the
\* producer task starts with the other half of the lease.
Capture(e) ==
    /\ exp[e].pc = "capturing"
    /\ IF Known(exp[e].types, exp[e].keys)
       THEN Drop(e, [exp[e] EXCEPT !.pc = "walking", !.cut = "producer", !.tx = "open",
                       !.pins = pins, !.sel = Selection(exp[e].types, exp[e].keys),
                       !.lease = TaskLease(e),
                       !.body = "open"])
       ELSE Drop(e, [exp[e] EXCEPT !.pc = "refused", !.cut = "none", !.lease = {}])
    /\ UNCHANGED <<pins, floor, control, writes, failures>>

\* The channel has room and a receiver.
Closed(e) == exp[e].body = "closed"
Room(e) == Len(exp[e].queue) < QueueChunks
Finished(e) == exp[e].at > Len(Walk(e))

\* The walk yields its next chunk: the dataset is opened at the pinned version.
ProduceChunk(e) ==
    /\ exp[e].pc = "walking" /\ ~exp[e].hold /\ ~Finished(e) /\ ~Closed(e)
    /\ floor[Walk(e)[exp[e].at][1]] <= exp[e].pins[Walk(e)[exp[e].at][1]]
    /\ Set(e, [exp[e] EXCEPT !.hold = TRUE])
    /\ UNCHANGED <<pins, floor, free, control, writes, failures>>

\* A local export writes the chunk; a served one sends it when the channel has room.
SendChunk(e) ==
    /\ exp[e].pc = "walking" /\ exp[e].hold /\ ~Closed(e)
    /\ LET c == Walk(e)[exp[e].at]
           s == [exp[e] EXCEPT !.hold = FALSE, !.at = @ + 1]
       IN  IF exp[e].served
           THEN Room(e) /\ Set(e, [s EXCEPT !.queue = Append(@, c)])
           ELSE Set(e, [s EXCEPT !.got = Append(@, c)])
    /\ UNCHANGED <<pins, floor, free, control, writes, failures>>

\* The walk ended, or its scan failed: the terminal frame carries the cut.
EndOfWalk(e, frame) ==
    IF exp[e].served
    THEN Set(e, [exp[e] EXCEPT !.pc = "terminal", !.hold = FALSE, !.tx = frame])
    ELSE Set(e, [exp[e] EXCEPT !.pc = "ended", !.cut = "none", !.hold = FALSE,
                               !.body = IF frame = "ok" THEN "ok" ELSE "failed"])
EndWalk(e) ==
    /\ exp[e].pc = "walking" /\ ~exp[e].hold /\ Finished(e) /\ ~Closed(e)
    /\ EndOfWalk(e, "ok")
    /\ UNCHANGED <<pins, floor, free, control, writes, failures>>
ScanFails(e) ==
    /\ exp[e].pc = "walking" /\ ~exp[e].hold /\ ~Closed(e)
    /\ failures < MaxFailures /\ failures' = failures + 1
    /\ EndOfWalk(e, "error")
    /\ UNCHANGED <<pins, floor, free, control, writes>>

SendTerminal(e) ==
    /\ exp[e].pc = "terminal" /\ Room(e) /\ ~Closed(e)
    /\ Drop(e, [exp[e] EXCEPT !.pc = "ended", !.cut = "queue", !.tx = "none",
                              !.queue = Append(@, <<exp[e].tx>>), !.lease = @ \ {"producer"}])
    /\ UNCHANGED <<pins, floor, control, writes, failures>>

\* Without the closed arm around the terminal send.
StopsWhileWalking(e) ==
    /\ exp[e].pc = "walking" /\ exp[e].served /\ Closed(e)
    /\ Drop(e, [exp[e] EXCEPT !.pc = "ended", !.cut = "none", !.hold = FALSE, !.tx = "none",
                              !.lease = @ \ {"producer"}])
    /\ UNCHANGED <<pins, floor, control, writes, failures>>

\* The producer sees the closed receiver: its future, chunk and cut are dropped.
ProducerStops(e) ==
    /\ exp[e].pc \in {"walking", "terminal"} /\ exp[e].served /\ Closed(e)
    /\ Drop(e, [exp[e] EXCEPT !.pc = "ended", !.cut = "none", !.hold = FALSE, !.tx = "none",
                              !.lease = @ \ {"producer"}])
    /\ UNCHANGED <<pins, floor, control, writes, failures>>

\* The task panics or is aborted: its sender goes without a terminal frame.
ProducerDies(e) ==
    /\ exp[e].pc \in {"walking", "terminal"} /\ exp[e].served
    /\ failures < MaxFailures /\ failures' = failures + 1
    /\ Drop(e, [exp[e] EXCEPT !.pc = "ended", !.cut = "none", !.hold = FALSE, !.tx = "none",
                              !.lease = @ \ {"producer"}])
    /\ UNCHANGED <<pins, floor, control, writes>>

\* ExportBodyStream::poll_next.  The chunk it returns is the consumer's current one.
EndBody(e, how) == [exp[e] EXCEPT !.body = how, !.cur = FALSE, !.lease = @ \ {"body"}]
PollLostEnd(e) == EndBody(e, "ok")
PollEmpty(e) == EndBody(e, "failed")
Poll(e) ==
    /\ exp[e].body = "open" /\ exp[e].served
    /\ IF exp[e].queue # <<>>
       THEN LET f == Head(exp[e].queue)
            IN  IF Len(f) = 3
                THEN Drop(e, [exp[e] EXCEPT !.queue = Tail(@), !.cur = TRUE,
                                            !.got = Append(@, f)])
                ELSE Drop(e, [EndBody(e, IF f[1] = "ok" THEN "ok" ELSE "failed")
                                EXCEPT !.queue = <<>>, !.cut = "none"])
       ELSE exp[e].pc = "ended" /\ Drop(e, PollEmpty(e))
    /\ UNCHANGED <<pins, floor, control, writes, failures>>

\* The client goes away: the body, its queue and what the queue holds are dropped.
Disconnect(e) ==
    /\ exp[e].body = "open" /\ exp[e].served
    /\ Drop(e, [exp[e] EXCEPT !.body = "closed", !.cur = FALSE, !.queue = <<>>,
                              !.lease = @ \ {"body"},
                              !.cut = IF @ = "queue" THEN "none" ELSE @])
    /\ UNCHANGED <<pins, floor, control, writes, failures>>

\* An ordinary writer publishes: it does not meet the export gate.
Publish ==
    /\ writes < MaxWrites /\ writes' = writes + 1
    /\ \E S \in SUBSET Tables \ {{}} : pins' = [t \in Tables |-> pins[t] + IF t \in S THEN 1 ELSE 0]
    /\ UNCHANGED <<floor, free, control, exp, failures>>

\* A destructive control: gate, then old versions go, then the gate is dropped.
ControlAlways == TRUE
ControlGate == ~CutHeld
ControlBegin ==
    /\ ~control /\ ControlGate /\ control' = TRUE
    /\ UNCHANGED <<pins, floor, free, exp, writes, failures>>
ControlEffect ==
    /\ control /\ control' = FALSE /\ floor' = pins
    /\ UNCHANGED <<pins, free, exp, writes, failures>>

Produce(e) == ProduceChunk(e) \/ SendChunk(e) \/ EndWalk(e) \/ SendTerminal(e) \/ ProducerStops(e)
Consume(e) == Poll(e) \/ Disconnect(e)
Handler(e) == Reserve(e) \/ TakeCut(e) \/ Capture(e)
Next ==
    \/ \E e \in Exports :
         Begin(e) \/ Handler(e) \/ Produce(e) \/ ScanFails(e) \/ ProducerDies(e) \/ Consume(e)
    \/ Publish \/ ControlBegin \/ ControlEffect

Spec == Init /\ [][Next]_vars

-----------------------------------------------------------------------------
(* Properties *)

\* The versions a live cut pins exist until its last byte is out: no cooperating
\* control collects them, while writers go on publishing.
CutReadable ==
    \A e \in Exports : exp[e].cut \in {"producer", "queue"} =>
        \A t \in Tables : floor[t] <= exp[e].pins[t]

Wanted(e) ==
    IF exp[e].types = {} /\ exp[e].keys = {} THEN Tables
    ELSE {t \in Tables : t \in exp[e].keys \/ TypeOfTable[t] \in exp[e].types}
RowsGot(e, t) == {c \in ToSet(exp[e].got) : c[1] = t}

\* A response that ends without an error carried every row of every selected table as
\* of one snapshot, each row whole and once: a failed scan, a dead producer or a
\* concurrent publish never passes for a complete export.
CleanEndComplete ==
    \A e \in Exports : exp[e].body = "ok" =>
        /\ \A t \in Tables :
             RowsGot(e, t) = IF t \in Wanted(e)
                             THEN {<<t, r, p>> : r \in 1..exp[e].pins[t], p \in 1..2}
                                    \cap ToSet(TableChunks(t, exp[e].pins[t]))
                             ELSE {}
        /\ Cardinality(ToSet(exp[e].got)) = Len(exp[e].got)

B2N(b) == IF b THEN 1 ELSE 0
Resident(e) ==
    Len(SelectSeq(exp[e].queue, LAMBDA f : Len(f) = 3)) + B2N(exp[e].hold /\ exp[e].served)
      + B2N(exp[e].cur)

\* The chunks in memory never exceed what the process has set aside for them, also
\* after a disconnect, when the producer still owns the chunk it was sending.
ChunksReserved ==
    /\ \A e \in Exports : Resident(e) > 0 => exp[e].lease # {}
    /\ \A e \in Exports : Resident(e) <= QueueChunks + 2
    /\ free + Cardinality({e \in Exports : exp[e].lease # {}}) = Leases

CutOf(e) == exp[e].cut
=============================================================================
