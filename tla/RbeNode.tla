------------------------------- MODULE RbeNode -------------------------------
(***************************************************************************)
(* The rbe (filter) node: do_filter of function_nodes/rbe.rs.  It keeps    *)
(* the previous value of every topic and passes a message when its value   *)
(* has changed (rbe, rbei) or has moved by a gap (deadband, narrowband).   *)
(* Values are integers, the gap is absolute or a percentage.               *)
(***************************************************************************)
EXTENDS Integers, Sequences

CONSTANTS RbeTopics, RbeValues, RbeGap, RbeStart, RbeMax, RbeNone

ASSUME RbeAssumption == RbeGap \in Nat /\ RbeMax \in Nat /\ RbeNone \notin RbeValues

VARIABLES
    rbeFunc,     \* config.func
    rbeIn,       \* config.inout: TRUE compares with the last input
    rbePercent,  \* config.is_percent; the gap is then RbeGap hundredths
    rbeSep,      \* config.sep_topics
    rbePrev,     \* state.prev
    rbeCount,    \* messages filtered
    rbeLast      \* rbeLast[t]: the last value that was passed, since a reset

rbeVars == <<rbeFunc, rbeIn, rbePercent, rbeSep, rbePrev, rbeCount, rbeLast>>

RbeFuncs == {"rbe", "rbei", "deadband", "deadbandEq", "narrowband", "narrowbandEq"}
RbeKeys == RbeTopics \cup {"_no_topic"}
Abs(x) == IF x < 0 THEN -x ELSE x

RbeInit ==
    /\ rbeFunc \in RbeFuncs
    /\ rbeIn \in BOOLEAN /\ rbePercent \in BOOLEAN /\ rbeSep \in BOOLEAN
    /\ rbePrev = [t \in RbeKeys |-> RbeNone]
    /\ rbeCount = 0
    /\ rbeLast = [t \in RbeKeys |-> RbeNone]

\* Mutant: the first value is the only one that is remembered.
ChangedStale(p, v) == [send |-> p # v, prev |-> IF p = RbeNone THEN v ELSE p]

\* rbe, rbei: a changed value is remembered and passed; rbei swallows the first.
Changed(p, v) == [send |-> p # v /\ (rbeFunc # "rbei" \/ p # RbeNone), prev |-> v]

\* deadband and narrowband: the distance from the previous value against the gap,
\* in hundredths, so that a percentage of the previous value is exact.
Banded(p, v) ==
    LET narrow == rbeFunc \in {"narrowband", "narrowbandEq"}
        known == p # RbeNone \/ narrow
        from == IF p # RbeNone THEN p ELSE IF narrow /\ RbeStart # RbeNone THEN RbeStart ELSE v
        gap == IF ~rbePercent THEN 100 * RbeGap ELSE IF known THEN Abs(from * RbeGap) ELSE 0
        diff == IF known THEN 100 * Abs(v - from) ELSE gap + 100
        send == \/ diff = gap /\ rbeFunc \in {"deadbandEq", "narrowband"}
                \/ diff > gap /\ ~narrow
                \/ diff < gap /\ narrow
    IN [send |-> send, prev |-> IF rbeIn \/ send THEN v ELSE from]

\* What `reset` forgets: the message's own topic, or everything.
Forgets(t) == IF rbeSep /\ t # "_no_topic" THEN {t} ELSE RbeKeys

\* do_filter: `reset` first, then the value when the message has one.
RbeMessage(t, v, reset) ==
    /\ rbeCount < RbeMax
    /\ rbeCount' = rbeCount + 1
    /\ LET Cleared(f) == [k \in RbeKeys |-> IF reset /\ k \in Forgets(t) THEN RbeNone ELSE f[k]]
           key == IF rbeSep THEN t ELSE "_no_topic"
           p == Cleared(rbePrev)[key]
           r == IF rbeFunc \in {"rbe", "rbei"} THEN Changed(p, v) ELSE Banded(p, v)
       IN IF v = RbeNone
          THEN rbePrev' = Cleared(rbePrev) /\ rbeLast' = Cleared(rbeLast)
          ELSE /\ rbePrev' = [Cleared(rbePrev) EXCEPT ![key] = r.prev]
               /\ rbeLast' = [Cleared(rbeLast) EXCEPT ![key] = IF r.send THEN v ELSE @]
    /\ UNCHANGED <<rbeFunc, rbeIn, rbePercent, rbeSep>>

RbeNext ==
    \E t \in RbeKeys, v \in RbeValues \cup {RbeNone}, reset \in BOOLEAN : RbeMessage(t, v, reset)

RbeSpec == RbeInit /\ [][RbeNext]_rbeVars

---------------------------------------------------------------------------
(* Properties.                                                             *)

\* The node compares with what its receivers have seen: for rbe, and for a
\* deadband on the last output, the remembered value of a topic is the last value
\* passed on, across resets and topics.
RbeMemory ==
    rbeFunc = "rbe" \/ (rbeFunc \in {"deadband", "deadbandEq"} /\ ~rbeIn) => rbePrev = rbeLast
=============================================================================
