------------------------------ MODULE BatchSort ------------------------------
(***************************************************************************)
(* The batch node and the sort node (sequence_nodes): messages are held    *)
(* until a batch or a group is complete, within nodeMessageBufferMaxLength *)
(* of the settings.  The batch node runs in one of its three modes; its    *)
(* interval task sends what it drained without a lock, and a reset aborts  *)
(* it wherever it is.                                                      *)
(***************************************************************************)
EXTENDS Integers, Sequences, FiniteSets, SequencesExt

CONSTANTS
    BatchModes,     \* of "count", "interval", "concat", "sort"
    BatchCount, BatchOverlap,
    BatchTopics,    \* config.topics, none of them listed twice
    BatchGroups,    \* group ids
    BatchKept,      \* max_kept_msgs
    BatchMax        \* bound on messages

VARIABLES
    btcMode,
    btcIn,       \* messages received; they are numbered
    btcPend,     \* count_pending, interval_pending: messages in order
    btcGroups,   \* concat_pending, sort's pending: a set of groups
    btcCount,    \* pending_count
    btcTask,     \* interval task: what it drained and has not sent
    btcSent,     \* how often a message was sent
    btcDone,     \* completed without being sent: dropped or reset
    btcError,    \* reported as too many
    btcGone      \* neither: ignored, dropped by sort, or lost with an aborted task

batchVars == <<btcMode, btcIn, btcPend, btcGroups, btcCount, btcTask, btcSent, btcDone, btcError, btcGone>>

ASSUME BatchAssumption == BatchCount \in Nat \ {0} /\ {BatchOverlap, BatchKept, BatchMax} \subseteq Nat

BatchInit ==
    /\ btcMode \in BatchModes
    /\ btcIn = 0 /\ btcPend = <<>> /\ btcGroups = {} /\ btcCount = 0 /\ btcTask = <<>>
    /\ btcSent = [i \in 1..BatchMax |-> 0] /\ btcDone = {} /\ btcError = {} /\ btcGone = {}

New == btcIn + 1
Receive == btcIn < BatchMax /\ btcIn' = New
SendAll(ms) == btcSent' = [i \in 1..BatchMax |-> btcSent[i] + Cardinality({k \in DOMAIN ms : ms[k] = i})]
MinOf(a, b) == IF a < b THEN a ELSE b

\* Mutant: an overflow drops what was buffered without completing it.
OverflowedSilently(others) == btcDone' = btcDone

\* Too many messages: all are dropped, the last one is an error, the others complete.
Overflowed(others) == btcDone' = btcDone \union others

Overflow(others, last) == Overflowed(others) /\ btcError' = btcError \union {last}

\* process_count_mode: `eof` is the last message of a sequence with honour_parts.
\* The overlap of a batch stays for the next one.
CountMessage(eof) ==
    /\ btcMode = "count" /\ Receive
    /\ LET all == Append(btcPend, New)
           size == IF eof THEN Len(all) ELSE BatchCount
           overlap == IF eof THEN 0 ELSE MinOf(BatchOverlap, size - 1)
       IN IF BatchKept > 0 /\ Len(all) > BatchKept
          THEN btcPend' = <<>> /\ Overflow(ToSet(btcPend), New) /\ UNCHANGED btcSent
          ELSE IF Len(all) >= BatchCount \/ eof
          THEN /\ SendAll(SubSeq(all, 1, size))
               /\ btcPend' = SubSeq(all, size + 1, Len(all)) \o SubSeq(all, size - overlap + 1, size)
               /\ UNCHANGED <<btcDone, btcError>>
          ELSE btcPend' = all /\ UNCHANGED <<btcSent, btcDone, btcError>>
    /\ UNCHANGED <<btcMode, btcGroups, btcCount, btcTask, btcGone>>

\* process_interval_mode, flush_interval: the task drains the buffer, then sends.
IntervalMessage ==
    /\ btcMode = "interval" /\ Receive
    /\ LET all == Append(btcPend, New)
       IN IF BatchKept > 0 /\ Len(all) > BatchKept
          THEN btcPend' = <<>> /\ Overflow(ToSet(btcPend), New)
          ELSE btcPend' = all /\ UNCHANGED <<btcDone, btcError>>
    /\ UNCHANGED <<btcMode, btcGroups, btcCount, btcTask, btcSent, btcGone>>

IntervalTick ==
    /\ btcMode = "interval" /\ btcTask = <<>> /\ btcPend # <<>>
    /\ btcTask' = btcPend /\ btcPend' = <<>>
    /\ UNCHANGED <<btcMode, btcIn, btcGroups, btcCount, btcSent, btcDone, btcError, btcGone>>

IntervalSend ==
    /\ btcTask # <<>>
    /\ SendAll(<<Head(btcTask)>>)
    /\ btcTask' = Tail(btcTask)
    /\ UNCHANGED <<btcMode, btcIn, btcPend, btcGroups, btcCount, btcDone, btcError, btcGone>>

---------------------------------------------------------------------------
(* Groups: of a topic and an id for concat, of an id for sort.  Messages   *)
(* are numbered, so a group is as old as its first message.                *)

Group(t, id, msgs, count) == [topic |-> t, id |-> id, msgs |-> msgs, count |-> count]
GroupAt(t, id) == {g \in btcGroups : g.topic = t /\ g.id = id}

\* The message joins its group, which is made when there is none.  concat keeps the
\* first count it sees, sort the latest.
Grouped(t, id, count) ==
    LET at == GroupAt(t, id)
        old == CHOOSE g \in at : TRUE
        latest == IF old.count = 0 \/ (btcMode = "sort" /\ count > 0) THEN count ELSE old.count
    IN IF at = {} THEN btcGroups \union {Group(t, id, <<New>>, count)}
       ELSE (btcGroups \ {old}) \union {Group(t, id, Append(old.msgs, New), latest)}

Oldest(gs) == {g \in gs : \A h \in gs : g.msgs[1] <= h.msgs[1]}
FirstOf(gs, t) == Oldest({g \in gs : g.topic = t})
Full(g) == g.count > 0 /\ Len(g.msgs) = g.count

\* The messages of groups, by their group and position in it.
Spots(gs) == UNION {{g} \X DOMAIN g.msgs : g \in gs}
Msgs(gs) == [at \in Spots(gs) |-> at[1].msgs[at[2]]]

\* process_concat_mode: sent when the first group of every topic is complete, which
\* a group that got one message too many never is again.
ConcatMessage(t, id, count) ==
    /\ btcMode = "concat" /\ Receive
    /\ LET gs == Grouped(t, id, count)
           ready == \A u \in BatchTopics : \E g \in FirstOf(gs, u) : Full(g)
           chosen == UNION {FirstOf(gs, u) : u \in BatchTopics}
       IN IF ready
          THEN /\ SendAll(Msgs(chosen))
               /\ btcGroups' = gs \ chosen
               /\ btcCount' = btcCount + 1 - Cardinality(Spots(chosen))
               /\ UNCHANGED <<btcDone, btcError>>
          ELSE IF BatchKept > 0 /\ btcCount + 1 > BatchKept
          THEN \* the map is walked in any order: any message may be the last one
               /\ \E last \in ToSet(Msgs(gs)) : Overflow(ToSet(Msgs(gs)) \ {last}, last)
               /\ btcGroups' = {} /\ btcCount' = 0 /\ UNCHANGED btcSent
          ELSE btcGroups' = gs /\ btcCount' = btcCount + 1 /\ UNCHANGED <<btcSent, btcDone, btcError>>
    /\ UNCHANGED <<btcMode, btcPend, btcTask, btcGone>>

\* A topic that is not configured, or a message without parts, is ignored.
ConcatIgnored ==
    /\ btcMode = "concat" /\ Receive
    /\ btcGone' = btcGone \union {New}
    /\ UNCHANGED <<btcMode, btcPend, btcGroups, btcCount, btcTask, btcSent, btcDone, btcError>>

\* sort: a complete group is sorted and sent; over the limit the oldest group goes,
\* with an error for its last message.
SortMessage(id, count) ==
    /\ btcMode = "sort" /\ Receive
    /\ LET gs == Grouped("", id, count)
           own == CHOOSE g \in gs : g.id = id
           old == CHOOSE g \in Oldest(gs) : TRUE
       IN IF Full(own)
          THEN /\ SendAll(own.msgs)
               /\ btcGroups' = gs \ {own}
               /\ btcCount' = btcCount + 1 - Len(own.msgs)
               /\ UNCHANGED <<btcError, btcGone>>
          ELSE IF BatchKept > 0 /\ btcCount + 1 > BatchKept
          THEN /\ btcGone' = btcGone \union ToSet(Front(old.msgs))
               /\ btcError' = btcError \union {Last(old.msgs)}
               /\ btcGroups' = gs \ {old}
               /\ btcCount' = btcCount + 1 - Len(old.msgs)
               /\ UNCHANGED btcSent
          ELSE btcGroups' = gs /\ btcCount' = btcCount + 1 /\ UNCHANGED <<btcSent, btcError, btcGone>>
    /\ UNCHANGED <<btcMode, btcPend, btcTask, btcDone>>

\* A reset completes what batch holds and aborts the interval task; sort only
\* forgets.
BatchReset ==
    /\ btcIn > 0
    /\ LET held == ToSet(btcPend) \union ToSet(Msgs(btcGroups))
       IN IF btcMode = "sort" THEN btcGone' = btcGone \union held /\ UNCHANGED btcDone
          ELSE btcDone' = btcDone \union held /\ btcGone' = btcGone \union ToSet(btcTask)
    /\ btcPend' = <<>> /\ btcGroups' = {} /\ btcCount' = 0 /\ btcTask' = <<>>
    /\ UNCHANGED <<btcMode, btcIn, btcSent, btcError>>

BatchNext ==
    \/ \E eof \in BOOLEAN : CountMessage(eof)
    \/ IntervalMessage \/ IntervalTick \/ IntervalSend \/ ConcatIgnored \/ BatchReset
    \/ \E id \in BatchGroups, n \in 0..2 :
          SortMessage(id, n) \/ \E t \in BatchTopics : ConcatMessage(t, id, n)

BatchSpec == BatchInit /\ [][BatchNext]_batchVars

---------------------------------------------------------------------------
(* Properties.                                                             *)

\* Every message is accounted for and in one place: held, being sent, sent, dropped
\* with an error or without; pending_count is the number of messages in groups and
\* within the limit; only the overlap of a count batch is kept after it was sent, in
\* the other modes no message is sent twice.
BatchAccounts ==
    LET held == ToSet(btcPend) \union ToSet(Msgs(btcGroups))
        sent == {i \in 1..BatchMax : btcSent[i] > 0}
        ended == btcDone \union btcError \union btcGone
    IN /\ 1..btcIn = held \union ToSet(btcTask) \union sent \union ended
       /\ IF btcMode = "count" THEN Cardinality(sent \cap held) <= BatchOverlap
          ELSE /\ \A i \in sent : btcSent[i] = 1
               /\ sent \cap (held \union ended) = {}
       /\ held \cap ended = {}
       /\ btcCount = Cardinality(Spots(btcGroups))
       /\ BatchKept > 0 => btcCount <= BatchKept /\ Len(btcPend) <= BatchKept
=============================================================================
