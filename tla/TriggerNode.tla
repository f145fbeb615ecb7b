----------------------------- MODULE TriggerNode -----------------------------
(***************************************************************************)
(* The trigger node (function_nodes/trigger).  The first message of a      *)
(* topic sends the first edge and registers an event; one timer task sends *)
(* the second edge of every event that comes due.  A negative duration     *)
(* repeats the first edge from a task of its own instead.  The handler     *)
(* holds the lock of the event table from its first look to its end, so a  *)
(* message is one step; the timer's lock sections are steps of their own.  *)
(***************************************************************************)
EXTENDS Integers, Sequences, FiniteSets, SequencesExt

CONSTANTS
    TrigTopics,
    TrigDelays,   \* durations: 0 keeps a topic active, negative ones repeat
    TrigMsgs,     \* bound on messages
    TrigEnd       \* bound on the clock

VARIABLES
    trgExtend,   \* config.extend
    trgNow,      \* the clock
    trgEvents,   \* events[topic], or NoEvent
    trgSeq,      \* next_seq
    trgWake,     \* messages in the timer_wakeup channel
    trgTimer,    \* timer task: where it is, until when it sleeps, what it fires
    trgLoops,    \* the repeating tasks: topic and whether they were cancelled
    trgMsgs,     \* messages handled
    trgEdges     \* trgEdges[t]: first and second edges sent, without repeats

triggerVars == <<trgExtend, trgNow, trgEvents, trgSeq, trgWake, trgTimer, trgLoops, trgMsgs, trgEdges>>

ASSUME TriggerAssumption == TrigDelays \subseteq Int /\ TrigEnd \in Nat /\ TrigMsgs \in Nat

NoEvent == [seq |-> 0, due |-> 0, loop |-> 0]
Never == TrigEnd + 1

TriggerInit ==
    /\ trgExtend \in BOOLEAN
    /\ trgNow = 1
    /\ trgEvents = [t \in TrigTopics |-> NoEvent]
    /\ trgSeq = 1
    /\ trgWake = 0
    /\ trgTimer = [pc |-> "scan", until |-> Never, due |-> <<>>]
    /\ trgLoops = <<>>
    /\ trgMsgs = 0
    /\ trgEdges = [t \in TrigTopics |-> <<0, 0>>]

\* A reset removes the event of the topic and cancels what hangs on it.
CancelLoop(l) == IF l = 0 THEN trgLoops ELSE [trgLoops EXCEPT ![l].cancelled = TRUE]

TriggerReset(t) ==
    /\ trgMsgs < TrigMsgs
    /\ trgMsgs' = trgMsgs + 1
    /\ trgEvents' = [trgEvents EXCEPT ![t] = NoEvent]
    /\ trgLoops' = CancelLoop(trgEvents[t].loop)
    /\ UNCHANGED <<trgExtend, trgNow, trgSeq, trgWake, trgTimer, trgEdges>>

\* Mutant: the timer is not told of a new event.
WakeupNever == trgWake

Wakeup == trgWake + 1

\* should_block
Blocks(t) == trgEvents[t] # NoEvent /\ ~trgExtend

\* handle_message: a topic that is active blocks, or with `extend` restarts its
\* event without a second first edge; otherwise the first edge is sent.
TriggerMessage(t, d) ==
    /\ trgMsgs < TrigMsgs
    /\ trgNow + d <= TrigEnd
    /\ trgMsgs' = trgMsgs + 1
    /\ IF Blocks(t) THEN UNCHANGED <<trgEvents, trgSeq, trgWake, trgLoops, trgEdges>>
       ELSE LET active == trgEvents[t] # NoEvent
                stopped == CancelLoop(trgEvents[t].loop)
            IN /\ trgEdges' = [trgEdges EXCEPT ![t][1] = IF active THEN @ ELSE @ + 1]
               /\ trgSeq' = trgSeq + 1
               /\ trgEvents' = [trgEvents EXCEPT ![t] =
                     [seq |-> trgSeq, due |-> IF d > 0 THEN trgNow + d ELSE 0,
                      loop |-> IF d < 0 THEN Len(trgLoops) + 1 ELSE 0]]
               /\ trgLoops' = IF d < 0 THEN Append(stopped, [topic |-> t, cancelled |-> FALSE, ended |-> FALSE])
                              ELSE stopped
               /\ trgWake' = IF d < 0 THEN trgWake ELSE Wakeup
    /\ UNCHANGED <<trgExtend, trgNow, trgTimer>>

\* A cancelled repeating task takes the event of its topic with it, whichever
\* event that is by now.
LoopEnd(l) ==
    /\ trgLoops[l].cancelled /\ ~trgLoops[l].ended
    /\ trgLoops' = [trgLoops EXCEPT ![l].ended = TRUE]
    /\ trgEvents' = [trgEvents EXCEPT ![trgLoops[l].topic] = NoEvent]
    /\ UNCHANGED <<trgExtend, trgNow, trgSeq, trgWake, trgTimer, trgMsgs, trgEdges>>

\* timer_loop: the earliest deadline is looked up, and slept for.
TimerScan ==
    /\ trgTimer.pc = "scan"
    /\ LET dues == {trgEvents[t].due : t \in TrigTopics} \ {0}
       IN trgTimer' = [pc |-> "sleep", due |-> <<>>,
                       until |-> IF dues = {} THEN Never ELSE CHOOSE d \in dues : \A e \in dues : d <= e]
    /\ UNCHANGED <<trgExtend, trgNow, trgEvents, trgSeq, trgWake, trgLoops, trgMsgs, trgEdges>>

TimerWoken ==
    /\ trgTimer.pc = "sleep"
    /\ \/ trgTimer.until <= trgNow /\ UNCHANGED trgWake
       \/ trgWake > 0 /\ trgWake' = trgWake - 1
    /\ trgTimer' = [trgTimer EXCEPT !.pc = "take"]
    /\ UNCHANGED <<trgExtend, trgNow, trgEvents, trgSeq, trgLoops, trgMsgs, trgEdges>>

\* fire_due_events takes what is due out of the table, oldest event first ...
TimerTake ==
    /\ trgTimer.pc = "take"
    /\ LET due == {t \in TrigTopics : trgEvents[t].due \in 1..trgNow}
       IN /\ trgTimer' = [trgTimer EXCEPT !.pc = "fire",
                             !.due = SetToSortSeq(due, LAMBDA a, b : trgEvents[a].seq < trgEvents[b].seq)]
          /\ trgEvents' = [t \in TrigTopics |-> IF t \in due THEN NoEvent ELSE trgEvents[t]]
    /\ UNCHANGED <<trgExtend, trgNow, trgSeq, trgWake, trgLoops, trgMsgs, trgEdges>>

\* ... and sends the second edges, without the lock.
TimerFire ==
    /\ trgTimer.pc = "fire"
    /\ IF trgTimer.due = <<>>
       THEN trgTimer' = [trgTimer EXCEPT !.pc = "scan"] /\ UNCHANGED trgEdges
       ELSE /\ trgEdges' = [trgEdges EXCEPT ![Head(trgTimer.due)][2] = @ + 1]
            /\ trgTimer' = [trgTimer EXCEPT !.due = Tail(@)]
    /\ UNCHANGED <<trgExtend, trgNow, trgEvents, trgSeq, trgWake, trgLoops, trgMsgs>>

Tick ==
    /\ trgNow < TrigEnd
    /\ trgNow' = trgNow + 1
    /\ UNCHANGED <<trgExtend, trgEvents, trgSeq, trgWake, trgTimer, trgLoops, trgMsgs, trgEdges>>

\* run ends: the timer and the repeating tasks are aborted, the table is drained.
TriggerStop ==
    /\ trgTimer.pc # "off"
    /\ trgTimer' = [pc |-> "off", until |-> Never, due |-> <<>>]
    /\ trgLoops' = [l \in DOMAIN trgLoops |-> [trgLoops[l] EXCEPT !.cancelled = TRUE, !.ended = TRUE]]
    /\ trgEvents' = [t \in TrigTopics |-> NoEvent]
    /\ trgMsgs' = TrigMsgs
    /\ UNCHANGED <<trgExtend, trgNow, trgSeq, trgWake, trgEdges>>

TimerStep == TimerScan \/ TimerWoken \/ TimerTake \/ TimerFire

TriggerNext ==
    \/ \E t \in TrigTopics : TriggerReset(t) \/ \E d \in TrigDelays : TriggerMessage(t, d)
    \/ \E l \in DOMAIN trgLoops : LoopEnd(l)
    \/ TimerStep \/ Tick \/ TriggerStop

---------------------------------------------------------------------------
(* Properties.                                                             *)

\* No wakeup is lost: an event with a deadline is fired or removed, also when it
\* was registered while the timer looked up the earliest deadline or slept for a
\* later one.
TriggerFires ==
    \A t \in TrigTopics : (trgEvents[t].due > 0) ~> (trgEvents[t].due = 0)
=============================================================================
