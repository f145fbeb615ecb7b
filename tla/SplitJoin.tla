------------------------------ MODULE SplitJoin ------------------------------
(***************************************************************************)
(* The split node and the join node in automatic mode (sequence_nodes).    *)
(* Split turns a value into parts that carry an id, an index and, when it  *)
(* is known, a count; join collects the parts of an id until the count is  *)
(* reached.  What lies between the two may reorder and duplicate parts.    *)
(* A value is a sequence of atoms: the elements of an array, the keys of   *)
(* an object, the bytes of a buffer, the characters of a string, where     *)
(* Delim is the delimiter.                                                 *)
(***************************************************************************)
EXTENDS Integers, Sequences, FiniteSets, SequencesExt

CONSTANTS
    SplitKinds,    \* of "array", "object", "string", "length", "buffer", "binary"
    SplitValues,   \* the values that arrive, sequences of atoms
    SplitLen,      \* array_split and the length of the length delimiter
    SplitMax,      \* bound on messages into split
    SplitDups      \* bound on duplicated parts and on messages with msg.complete

ASSUME SplitAssumption == SplitLen \in Nat \ {0} /\ \A v \in SplitValues : v \in Seq(Range(v))

VARIABLES
    splKind,       \* the type of the values and of the delimiter
    splStream,     \* config.stream
    splRest,       \* state.remainder, state.buffer
    splCounter,    \* state.counter
    splIds,        \* the ids generated so far
    splIn,         \* messages split: their value and the parts they already carried
    splParts,      \* every part that was sent
    splChan,       \* the parts under way to join
    splDups,       \* how many of them were duplicated or said msg.complete
    joinGroups,    \* state.groups: what join holds for an id
    joinOut        \* what join has sent

splitVars == <<splKind, splStream, splRest, splCounter, splIds, splIn, splParts, splChan, splDups, joinGroups, joinOut>>

Delim == "|"

SplitInit ==
    /\ splKind \in SplitKinds /\ splStream \in BOOLEAN
    /\ splRest = <<>> /\ splCounter = 0 /\ splIds = 0
    /\ splIn = <<>> /\ splParts = {} /\ splChan = {} /\ splDups = 0
    /\ joinGroups = <<>> /\ joinOut = {}

---------------------------------------------------------------------------
(* split                                                                   *)

\* Chunks of n atoms, the last one shorter (div_ceil).
Chunks(v, n) ==
    [i \in 1..(Len(v) + n - 1) \div n |-> SubSeq(v, (i - 1) * n + 1, IF i * n < Len(v) THEN i * n ELSE Len(v))]

\* The fields between delimiters, one more than there are delimiters.
Fields(v) ==
    LET cuts == {i \in DOMAIN v : v[i] = Delim}
        n == Cardinality(cuts)
        cut(i) == CHOOSE c \in cuts : Cardinality({d \in cuts : d <= c}) = i
        end(i) == IF i <= n THEN cut(i) - 1 ELSE Len(v)
        begin(i) == IF i = 1 THEN 1 ELSE cut(i - 1) + 1
    IN [i \in 1..n + 1 |-> SubSeq(v, begin(i), end(i))]

ByLength == splKind \in {"length", "buffer"}

\* Only string and buffer values are streamed, and a buffer always continues what
\* the last message left.
Streams == splStream /\ splKind \notin {"array", "object"}
FullValue(v) == IF Streams \/ splKind = "binary" THEN splRest \o v ELSE v

Pieces(v) == IF ByLength \/ splKind = "array" THEN Chunks(v, SplitLen)
             ELSE IF splKind = "object" THEN [i \in DOMAIN v |-> <<v[i]>>] ELSE Fields(v)

\* The last piece is held back: always with a delimiter, when it is short with a
\* length.
HeldBack(ps) == Streams /\ ps # <<>> /\ (~ByLength \/ Len(Last(ps)) < SplitLen)

\* Without streaming the last field of a buffer is sent when it has bytes.
Emitted(ps) == IF HeldBack(ps) THEN Front(ps)
               ELSE IF splKind = "binary" /\ Last(ps) = <<>> THEN Front(ps) ELSE ps

\* What stays for the next message.  A length delimiter that comes out even leaves
\* the remainder of the message before where it is.
RestAfter(ps) == IF HeldBack(ps) THEN Last(ps) ELSE IF Streams THEN splRest ELSE <<>>

\* Objects and buffers get a new id for every part, the others one per message; a
\* stream and a delimited buffer have no count.  The parts object is a new one:
\* what process_message had put on its stack is not in it.
PartsOf(ps) ==
    LET own == splKind \in {"object", "buffer", "binary"}
        sent == Emitted(ps)
        first == IF splKind \in {"array", "object"} \/ (ByLength /\ ~Streams) THEN 0 ELSE splCounter
    IN {[id |-> splIds + (IF own THEN i ELSE 1), of |-> Len(splIn) + 1, index |-> first + i - 1,
         count |-> IF Streams \/ splKind = "binary" THEN 0 ELSE Len(ps),
         data |-> sent[i], outer |-> 0] : i \in DOMAIN sent}

CounterAfter(ps) ==
    IF splKind \in {"array", "object"} THEN splCounter
    ELSE IF Streams THEN splCounter + Len(Emitted(ps))
    ELSE IF ByLength THEN Len(Emitted(ps))
    ELSE IF splKind = "binary" /\ Last(ps) = <<>> THEN splCounter + Len(Emitted(ps)) ELSE 0

\* process_message, for a value that carries the parts of an outer split or none.
SplitMessage(v, outer) ==
    /\ Len(splIn) < SplitMax
    /\ LET ps == Pieces(FullValue(v))
       IN /\ splParts' = splParts \union PartsOf(ps)
          /\ splChan' = splChan \union PartsOf(ps)
          /\ splRest' = RestAfter(ps)
          /\ splCounter' = CounterAfter(ps)
          /\ splIds' = splIds + Len(ps) + 1
    /\ splIn' = Append(splIn, [value |-> v, outer |-> outer])
    /\ UNCHANGED <<splKind, splStream, splDups, joinGroups, joinOut>>

\* A reset message: the run loop clears the state.
SplitReset ==
    /\ splRest # <<>> \/ splCounter # 0
    /\ splRest' = <<>> /\ splCounter' = 0
    /\ UNCHANGED <<splKind, splStream, splIds, splIn, splParts, splChan, splDups, joinGroups, joinOut>>

---------------------------------------------------------------------------
(* join                                                                    *)

Held == DOMAIN joinGroups
GroupOf(p) == IF p.id \in Held THEN joinGroups[p.id] ELSE [slots |-> [i \in {} |-> <<>>], count |-> 0, n |-> 0]

\* Mutant: a part that comes again is counted again.
CountedAgain(g, slots) == g.n + 1

\* current_count: filled slots, of strings and buffers the ones that are not empty.
Counted(g, slots) == Cardinality({i \in DOMAIN slots : splKind \in {"array", "object"} \/ slots[i] # <<>>})

\* An object is filled by key, anything else by index.
SlotOf(p) == IF splKind = "object" THEN p.data ELSE p.index

Filled(p) ==
    LET g == GroupOf(p)
        slots == [i \in DOMAIN g.slots \union {SlotOf(p)} |-> IF i = SlotOf(p) THEN p.data ELSE g.slots[i]]
    IN [slots |-> slots, count |-> IF p.count > 0 THEN p.count ELSE g.count, n |-> Counted(g, slots)]

Without(id) == [i \in Held \ {id} |-> joinGroups[i]]

\* What a message that arrives asks for: nothing, or by msg.complete that the group
\* is sent as it is, with the message's own part or, when it has lost the joined
\* property, without.
JoinMarks == {"none", "complete", "bare"}
GroupAfter(p, mark) == IF mark = "bare" THEN GroupOf(p) ELSE Filled(p)

\* is_complete: the message asks for it, or the count is reached.
IsComplete(g, mark) == mark # "none" \/ (g.count > 0 /\ g.n >= g.count)

\* process_message: the part is filed; a complete group is sent and forgotten.
JoinReceive(p, mark) ==
    /\ splChan' \in {splChan, splChan \ {p}}
    /\ splDups' = splDups + (IF p \in splChan' THEN 1 ELSE 0) + (IF mark = "none" THEN 0 ELSE 1)
    /\ splDups' <= SplitDups
    /\ LET g == GroupAfter(p, mark)
       IN IF IsComplete(g, mark)
          THEN /\ joinOut' = joinOut \union {[id |-> p.id, of |-> p.of, slots |-> g.slots, outer |-> p.outer,
                                              asked |-> mark # "none"]}
               /\ joinGroups' = Without(p.id)
          ELSE /\ joinGroups' = [i \in Held \union {p.id} |-> IF i = p.id THEN g ELSE joinGroups[i]]
               /\ UNCHANGED joinOut
    /\ UNCHANGED <<splKind, splStream, splRest, splCounter, splIds, splIn, splParts>>

JoinReset ==
    /\ joinGroups # <<>>
    /\ joinGroups' = <<>>
    /\ UNCHANGED <<splKind, splStream, splRest, splCounter, splIds, splIn, splParts, splChan, splDups, joinOut>>

SplitNext ==
    \/ \E v \in SplitValues, o \in {0, 1} : SplitMessage(v, o)
    \/ SplitReset \/ JoinReset
    \/ \E p \in splChan, mark \in JoinMarks : JoinReceive(p, mark)

SplitSpec == SplitInit /\ [][SplitNext]_splitVars

---------------------------------------------------------------------------
(* Properties.                                                             *)

Pairs(slots) == {<<i, slots[i]>> : i \in DOMAIN slots}
PartsOfMessage(n) == {<<SlotOf(p), p.data>> : p \in {q \in splParts : q.of = n}}

\* Whatever the order, the repetitions and the mix in which the parts of several
\* messages reach join, what it sends of its own accord is one message as split cut
\* it: every part of it, each in its place, and nothing of another one.  What it sends
\* because a message said msg.complete may lack parts, but holds no others.
JoinExact ==
    \A o \in joinOut :
        /\ Pairs(o.slots) \subseteq PartsOfMessage(o.of)
        /\ ~o.asked => Pairs(o.slots) = PartsOfMessage(o.of)
=============================================================================
