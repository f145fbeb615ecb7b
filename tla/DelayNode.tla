----------------------------- MODULE DelayNode -----------------------------
(***************************************************************************)
(* The delay node (function_nodes/delay.rs).  One task receives messages   *)
(* and runs the handler of the configured mode.  Beside it run the timer   *)
(* tasks: in the delay-like modes one sleeping task per message, in the    *)
(* rate, queue and timed modes one interval task that empties a buffer.    *)
(* Handler and timers meet at the locks of the buffer and of the timer     *)
(* handle; each lock section is a step.  Messages are numbered in the      *)
(* order of their arrival.                                                 *)
(***************************************************************************)
EXTENDS Integers, Sequences, FiniteSets, SequencesExt

CONSTANTS
    DelayModes,   \* subset of {"delay", "rate", "drop", "queue", "timed"}
    DelayMax,     \* bound on the messages received
    DelayKept,    \* node_message_buffer_max_length, 0 for no limit
    DelayTopics,  \* topics of messages, "" among them for a message without one
    DelayRates,   \* rates per second a message may set; the first is configured
    DelayRate0

VARIABLES
    dlyMode,    \* config.pause_type
    dlyStop,    \* the stop token
    dlyTopic,   \* dlyTopic[i]: the topic of the i-th message
    dlyJob,     \* what the handler is doing
    dlyWait,    \* pending_delays, or the rate or queue buffer
    dlyAsleep,  \* messages whose own task is still sleeping
    dlyWoken,   \* messages whose own task has slept and not yet claimed them
    dlyTimer,   \* the interval task: off, tick, send, check, or dead (panicked)
    dlyHandle,  \* whether the timer handle is Some
    dlyHeld,    \* what the interval task has taken and not yet sent
    dlyRate,    \* current_rate
    dlySent,    \* dlySent[i]: how often message i was sent to port 0
    dlyDone,    \* messages whose completion was raised
    dlyGone     \* messages dropped without a completion, or left with no task to send them

delayTimerVars == <<dlyTimer, dlyHandle, dlyHeld>>
delayVars == <<dlyMode, dlyStop, dlyTopic, dlyJob, dlyWait, dlyAsleep, dlyWoken, delayTimerVars,
               dlyRate, dlySent, dlyDone, dlyGone>>

ASSUME DelayAssumption == DelayMax \in Nat /\ DelayKept \in Nat /\ DelayRate0 \in DelayRates

DelayKinds == {"data", "flush", "flush_one", "flush_data", "reset"}
IsData(k) == k \notin {"flush", "flush_one"}      \* control_flags: any key but `flush`
IsFlush(k) == k \in {"flush", "flush_one", "flush_data"}
DelayIdle == [pc |-> "idle", id |-> 0, kind |-> "data", rate |-> 0, taken |-> <<>>, keep |-> FALSE, left |-> FALSE]

DelayInit ==
    /\ dlyMode \in DelayModes
    /\ dlyStop = FALSE
    /\ dlyTopic = <<>>
    /\ dlyJob = DelayIdle
    /\ dlyWait = <<>>
    /\ dlyAsleep = {} /\ dlyWoken = {}
    /\ dlyTimer = "off" /\ dlyHandle = FALSE /\ dlyHeld = <<>>
    /\ dlyRate = DelayRate0
    /\ dlySent = [i \in 1..DelayMax |-> 0]
    /\ dlyDone = {} /\ dlyGone = {}

Goto(pc) == dlyJob' = [dlyJob EXCEPT !.pc = pc]

\* DelayCompletion::complete: the flag lets only the first caller notify.
Completed(S) == dlyDone' = dlyDone \cup S
SendPort0(i) == dlySent' = [dlySent EXCEPT ![i] = @ + 1]
\* PortWire::tx selects between the queue and the token: from the stop on, a send may
\* fail.
Refused == dlyStop /\ UNCHANGED dlySent
\* A send whose error is logged or ignored.
TrySend(i) == SendPort0(i) \/ Refused

\* dynamic_rate_interval, in whole milliseconds as Duration::from_millis has them.
RateInterval(r) == 1000 \div r

\* run: a message is received; its control flags, topic and rate are read.
DelayReceive(kind, topic, rate) ==
    /\ ~dlyStop
    /\ dlyJob.pc = "idle"
    /\ Len(dlyTopic) < DelayMax
    /\ dlyTopic' = Append(dlyTopic, topic)
    /\ dlyJob' = [pc |-> "start", id |-> Len(dlyTopic) + 1, kind |-> kind, rate |-> rate,
                  taken |-> <<>>, keep |-> FALSE, left |-> FALSE]
    /\ UNCHANGED <<dlyMode, dlyStop, dlyWait, dlyAsleep, dlyWoken, delayTimerVars, dlyRate, dlySent,
                   dlyDone, dlyGone>>

---------------------------------------------------------------------------
(* delay, delayv and random: a timer of its own for every message.         *)

\* schedule_delayed, for a message that carries more than a flush.
Schedule ==
    /\ dlyMode = "delay" /\ dlyJob.pc = "start"
    /\ Goto("drain")
    /\ IF IsData(dlyJob.kind)
       THEN /\ dlyWait' = Append(dlyWait, dlyJob.id)
            /\ dlyAsleep' = dlyAsleep \cup {dlyJob.id}
       ELSE UNCHANGED <<dlyWait, dlyAsleep>>
    /\ UNCHANGED <<dlyMode, dlyStop, dlyTopic, dlyWoken, delayTimerVars, dlyRate, dlySent, dlyDone, dlyGone>>

FlushCount == IF dlyJob.kind = "flush_one" THEN 1 ELSE Len(dlyWait)
FlushTake == IF FlushCount < Len(dlyWait) THEN FlushCount ELSE Len(dlyWait)

\* clear_pending_delays and flush_pending_delays drain the list under its lock.
DrainDelays ==
    /\ dlyMode = "delay" /\ dlyJob.pc = "drain"
    /\ LET n == IF dlyJob.kind = "reset" THEN Len(dlyWait) ELSE IF IsFlush(dlyJob.kind) THEN FlushTake ELSE 0
       IN /\ dlyJob' = [dlyJob EXCEPT !.pc = "entries", !.taken = SubSeq(dlyWait, 1, n)]
          /\ dlyWait' = SubSeq(dlyWait, n + 1, Len(dlyWait))
    /\ UNCHANGED <<dlyMode, dlyStop, dlyTopic, dlyAsleep, dlyWoken, delayTimerVars, dlyRate, dlySent,
                   dlyDone, dlyGone>>

\* Each entry is interrupted, sent unless this is a reset, and completed; a bare
\* control message completes last.  BrokenFlush is the other way out.
DelayEntry ==
    /\ dlyMode = "delay" /\ dlyJob.pc = "entries"
    /\ IF dlyJob.taken = <<>>
       THEN /\ dlyJob' = DelayIdle
            /\ Completed(IF IsData(dlyJob.kind) THEN {} ELSE {dlyJob.id})
            /\ UNCHANGED <<dlyAsleep, dlySent>>
       ELSE LET i == Head(dlyJob.taken)
            IN /\ dlyJob' = [dlyJob EXCEPT !.taken = Tail(@)]
               /\ dlyAsleep' = dlyAsleep \ {i}
               /\ Completed({i})
               /\ IF dlyJob.kind = "reset" THEN UNCHANGED dlySent ELSE SendPort0(i)
    /\ UNCHANGED <<dlyMode, dlyStop, dlyTopic, dlyWait, dlyWoken, delayTimerVars, dlyRate, dlyGone>>

\* The first refused send ends flush_pending_delays with its error: the entries it
\* has drained are in no list any more, and run completes only its own message.
BrokenFlush ==
    /\ dlyMode = "delay" /\ dlyJob.pc = "entries" /\ dlyJob.kind # "reset" /\ dlyJob.taken # <<>>
    /\ Refused
    /\ dlyAsleep' = dlyAsleep \ {Head(dlyJob.taken)}
    /\ dlyGone' = dlyGone \cup (ToSet(dlyJob.taken) \ {dlyJob.id})
    /\ Completed({dlyJob.id})
    /\ dlyJob' = DelayIdle
    /\ UNCHANGED <<dlyMode, dlyStop, dlyTopic, dlyWait, dlyWoken, delayTimerVars, dlyRate>>

\* The sleep of a message is over; an interrupt that comes now is too late.
DelayWake(i) ==
    /\ i \in dlyAsleep /\ ~dlyStop
    /\ dlyAsleep' = dlyAsleep \ {i}
    /\ dlyWoken' = dlyWoken \cup {i}
    /\ UNCHANGED <<dlyMode, dlyStop, dlyTopic, dlyJob, dlyWait, delayTimerVars, dlyRate, dlySent, dlyDone, dlyGone>>

\* Mutant: the woken task sends its message without claiming it.
TakePendingAlways(i) == TRUE

\* take_pending_delay: whoever removes the entry owns the message.
TakePending(i) == i \in ToSet(dlyWait)

DelayFire(i) ==
    /\ i \in dlyWoken
    /\ dlyWoken' = dlyWoken \ {i}
    /\ dlyWait' = RemoveFirst(dlyWait, i)
    /\ IF TakePending(i) THEN TrySend(i) /\ Completed({i}) ELSE UNCHANGED <<dlySent, dlyDone>>
    /\ UNCHANGED <<dlyMode, dlyStop, dlyTopic, dlyJob, dlyAsleep, delayTimerVars, dlyRate, dlyGone>>

---------------------------------------------------------------------------
(* rate: the head of a burst is sent at once, the rest by the interval.    *)

\* With config.drop a message is sent when the interval has passed since the last
\* one, goes to the second output otherwise, and completes either way, by run when
\* the send fails.
RateDrop ==
    /\ dlyMode = "drop" /\ dlyJob.pc = "start"
    /\ dlyRate' = dlyJob.rate
    /\ IF IsData(dlyJob.kind) /\ dlyJob.kind # "reset"
       THEN \/ TrySend(dlyJob.id)
            \/ (\E i \in DOMAIN dlySent : dlySent[i] > 0) /\ UNCHANGED dlySent
       ELSE UNCHANGED dlySent
    /\ Completed({dlyJob.id})
    /\ dlyJob' = DelayIdle
    /\ UNCHANGED <<dlyMode, dlyStop, dlyTopic, dlyWait, dlyAsleep, dlyWoken, delayTimerVars, dlyGone>>

\* A message that finds the timer running is buffered; at the limit the whole
\* backlog is dropped, with it, and none of them completes.
RateBuffer ==
    /\ dlyMode = "rate" /\ dlyJob.pc = "start" /\ dlyHandle
    /\ IsData(dlyJob.kind) /\ dlyJob.kind # "reset"
    /\ IF DelayKept > 0 /\ Len(dlyWait) >= DelayKept
       THEN /\ dlyGone' = dlyGone \cup ToSet(dlyWait) \cup {dlyJob.id}
            /\ dlyWait' = <<>>
            /\ dlyJob' = DelayIdle
       ELSE /\ dlyWait' = Append(dlyWait, dlyJob.id)
            /\ dlyJob' = [dlyJob EXCEPT !.pc = "rate"]
            /\ UNCHANGED dlyGone
    /\ UNCHANGED <<dlyMode, dlyStop, dlyTopic, dlyAsleep, dlyWoken, delayTimerVars, dlyRate, dlySent, dlyDone>>

\* Otherwise it is sent straight through, and completes at the end.
RateThrough ==
    /\ dlyMode = "rate" /\ dlyJob.pc = "start" /\ ~dlyHandle
    /\ IsData(dlyJob.kind) /\ dlyJob.kind # "reset"
    /\ SendPort0(dlyJob.id)
    /\ dlyRate' = dlyJob.rate
    /\ dlyJob' = [dlyJob EXCEPT !.pc = "ensure", !.keep = TRUE]
    /\ UNCHANGED <<dlyMode, dlyStop, dlyTopic, dlyWait, dlyAsleep, dlyWoken, delayTimerVars, dlyDone, dlyGone>>

\* When that send is refused the handler ends at once, and run completes it.
RateRefused ==
    /\ dlyMode = "rate" /\ dlyJob.pc = "start" /\ ~dlyHandle
    /\ IsData(dlyJob.kind) /\ dlyJob.kind # "reset"
    /\ Refused
    /\ dlyRate' = dlyJob.rate
    /\ Completed({dlyJob.id})
    /\ dlyJob' = DelayIdle
    /\ UNCHANGED <<dlyMode, dlyStop, dlyTopic, dlyWait, dlyAsleep, dlyWoken, delayTimerVars, dlyGone>>

RateControl ==
    /\ dlyMode = "rate" /\ dlyJob.pc = "start"
    /\ ~IsData(dlyJob.kind) \/ dlyJob.kind = "reset"
    /\ dlyJob' = [dlyJob EXCEPT !.pc = "flush", !.keep = TRUE]
    /\ UNCHANGED <<dlyMode, dlyStop, dlyTopic, dlyWait, dlyAsleep, dlyWoken, delayTimerVars, dlyRate, dlySent,
                   dlyDone, dlyGone>>

\* handle.abort: the interval task ends where it waits, with what it holds.
AbortTimer ==
    /\ dlyHandle' = FALSE
    /\ dlyTimer' = IF dlyHandle THEN "off" ELSE dlyTimer
    /\ dlyHeld' = IF dlyHandle THEN <<>> ELSE dlyHeld
    /\ dlyGone' = dlyGone \cup (IF dlyHandle THEN ToSet(dlyHeld) ELSE {})

\* A changed rate stops the interval; ensure_*_timer_running starts the next one.
ChangeRate ==
    /\ dlyMode \in {"rate", "queue", "timed"} /\ dlyJob.pc = "rate"
    /\ dlyRate' = dlyJob.rate
    /\ IF dlyJob.rate # dlyRate THEN AbortTimer ELSE UNCHANGED <<delayTimerVars, dlyGone>>
    /\ Goto(IF dlyMode = "rate" THEN "ensure" ELSE "again")
    /\ UNCHANGED <<dlyMode, dlyStop, dlyTopic, dlyWait, dlyAsleep, dlyWoken, dlySent, dlyDone>>

\* ensure_rate_timer_running, ensure_queue_timer_running: nothing when the handle
\* is Some.  tokio's interval panics on a period of zero, in the spawned task.
EnsureTimer ==
    /\ IF dlyHandle THEN UNCHANGED <<dlyTimer, dlyHandle>>
       ELSE /\ dlyHandle' = TRUE
            /\ dlyTimer' = IF RateInterval(dlyRate) = 0 THEN "dead" ELSE "tick"
    /\ UNCHANGED dlyHeld

RateEnsure ==
    /\ dlyMode = "rate" /\ dlyJob.pc = "ensure"
    /\ EnsureTimer
    /\ Goto("flush")
    /\ UNCHANGED <<dlyMode, dlyStop, dlyTopic, dlyWait, dlyAsleep, dlyWoken, dlyRate, dlySent, dlyDone, dlyGone>>

\* flush: the buffered messages are taken out, the interval is stopped, they are
\* sent and completed, and the interval starts again when some are left.
RateFlush ==
    /\ dlyMode = "rate" /\ dlyJob.pc = "flush"
    /\ IF IsFlush(dlyJob.kind)
       THEN /\ dlyJob' = [dlyJob EXCEPT !.pc = "abort", !.taken = SubSeq(dlyWait, 1, FlushTake),
                                   !.left = Len(dlyWait) > FlushTake]
            /\ dlyWait' = SubSeq(dlyWait, FlushTake + 1, Len(dlyWait))
       ELSE Goto("reset") /\ UNCHANGED dlyWait
    /\ UNCHANGED <<dlyMode, dlyStop, dlyTopic, dlyAsleep, dlyWoken, delayTimerVars, dlyRate, dlySent, dlyDone, dlyGone>>

RateAbort ==
    /\ dlyMode = "rate" /\ dlyJob.pc = "abort"
    /\ AbortTimer
    /\ Goto("entries")
    /\ UNCHANGED <<dlyMode, dlyStop, dlyTopic, dlyWait, dlyAsleep, dlyWoken, dlyRate, dlySent, dlyDone>>

\* The messages a flush took, in the rate, queue and timed modes: an error is logged.
FlushEntry ==
    /\ dlyMode # "delay" /\ dlyJob.pc = "entries" /\ dlyJob.taken # <<>>
    /\ dlyJob' = [dlyJob EXCEPT !.taken = Tail(@)]
    /\ TrySend(Head(dlyJob.taken))
    /\ Completed({Head(dlyJob.taken)})
    /\ UNCHANGED <<dlyMode, dlyStop, dlyTopic, dlyWait, dlyAsleep, dlyWoken, delayTimerVars, dlyRate, dlyGone>>

RateRestart ==
    /\ dlyMode = "rate" /\ dlyJob.pc = "entries" /\ dlyJob.taken = <<>>
    /\ IF dlyJob.left THEN EnsureTimer ELSE UNCHANGED delayTimerVars
    /\ Goto("reset")
    /\ UNCHANGED <<dlyMode, dlyStop, dlyTopic, dlyWait, dlyAsleep, dlyWoken, dlyRate, dlySent, dlyDone, dlyGone>>

\* reset: buffer and interval are dropped, the rate is the configured one again;
\* the message completes unless it waits in the buffer.
RateEnd ==
    /\ dlyMode = "rate" /\ dlyJob.pc = "reset"
    /\ dlyJob' = DelayIdle
    /\ IF dlyJob.kind = "reset"
       THEN /\ dlyHandle' = FALSE /\ dlyHeld' = <<>>
            /\ dlyTimer' = IF dlyHandle THEN "off" ELSE dlyTimer
            /\ dlyGone' = dlyGone \cup ToSet(dlyWait) \cup ToSet(dlyHeld)
            /\ dlyWait' = <<>>
            /\ dlyRate' = DelayRate0
       ELSE UNCHANGED <<delayTimerVars, dlyWait, dlyRate, dlyGone>>
    /\ IF dlyJob.keep \/ dlyJob.kind # "data" THEN Completed({dlyJob.id}) ELSE UNCHANGED dlyDone
    /\ UNCHANGED <<dlyMode, dlyStop, dlyTopic, dlyAsleep, dlyWoken, dlySent>>

---------------------------------------------------------------------------
(* queue and timed: one message per topic waits for the interval.          *)

QueueStart ==
    /\ dlyMode \in {"queue", "timed"} /\ dlyJob.pc = "start"
    /\ Goto("rate")
    /\ UNCHANGED <<dlyMode, dlyStop, dlyTopic, dlyWait, dlyAsleep, dlyWoken, delayTimerVars, dlyRate, dlySent,
                   dlyDone, dlyGone>>

\* After a rate change the interval runs on when messages wait.
QueueAgain ==
    /\ dlyMode \in {"queue", "timed"} /\ dlyJob.pc = "again"
    /\ IF dlyWait # <<>> THEN EnsureTimer ELSE UNCHANGED delayTimerVars
    /\ Goto("control")
    /\ UNCHANGED <<dlyMode, dlyStop, dlyTopic, dlyWait, dlyAsleep, dlyWoken, dlyRate, dlySent, dlyDone, dlyGone>>

QueueReset ==
    /\ dlyMode \in {"queue", "timed"} /\ dlyJob.pc = "control" /\ dlyJob.kind = "reset"
    /\ Completed(ToSet(dlyWait) \cup {dlyJob.id})
    /\ dlyWait' = <<>>
    /\ AbortTimer
    /\ dlyRate' = DelayRate0
    /\ dlyJob' = DelayIdle
    /\ UNCHANGED <<dlyMode, dlyStop, dlyTopic, dlyAsleep, dlyWoken, dlySent>>

QueueFlush ==
    /\ dlyMode \in {"queue", "timed"} /\ dlyJob.pc = "control" /\ IsFlush(dlyJob.kind)
    /\ dlyJob' = [dlyJob EXCEPT !.pc = "entries", !.taken = SubSeq(dlyWait, 1, FlushTake)]
    /\ dlyWait' = SubSeq(dlyWait, FlushTake + 1, Len(dlyWait))
    /\ UNCHANGED <<dlyMode, dlyStop, dlyTopic, dlyAsleep, dlyWoken, delayTimerVars, dlyRate, dlySent, dlyDone, dlyGone>>

QueueFlushed ==
    /\ dlyMode \in {"queue", "timed"} /\ dlyJob.pc = "entries" /\ dlyJob.taken = <<>>
    /\ Completed({dlyJob.id})
    /\ dlyJob' = DelayIdle
    /\ UNCHANGED <<dlyMode, dlyStop, dlyTopic, dlyWait, dlyAsleep, dlyWoken, delayTimerVars, dlyRate, dlySent, dlyGone>>

\* A message without a topic is compared as "_none_" with "", so it finds none.
SameTopic(i) == {n \in DOMAIN dlyWait : dlyTopic[i] # "" /\ dlyTopic[dlyWait[n]] = dlyTopic[i]}

\* The message takes the place of the one of its topic, which completes.
QueuePut ==
    /\ dlyMode \in {"queue", "timed"} /\ dlyJob.pc = "control" /\ dlyJob.kind = "data"
    /\ LET old == SameTopic(dlyJob.id)
       IN /\ dlyWait' = IF old = {} THEN Append(dlyWait, dlyJob.id)
                        ELSE [dlyWait EXCEPT ![CHOOSE n \in old : \A k \in old : n <= k] = dlyJob.id]
          /\ Completed({dlyWait[n] : n \in old})
    /\ Goto("queued")
    /\ UNCHANGED <<dlyMode, dlyStop, dlyTopic, dlyAsleep, dlyWoken, delayTimerVars, dlyRate, dlySent, dlyGone>>

QueueEnsure ==
    /\ dlyMode \in {"queue", "timed"} /\ dlyJob.pc = "queued"
    /\ EnsureTimer
    /\ dlyJob' = DelayIdle
    /\ UNCHANGED <<dlyMode, dlyStop, dlyTopic, dlyWait, dlyAsleep, dlyWoken, dlyRate, dlySent, dlyDone, dlyGone>>

---------------------------------------------------------------------------
(* The interval task.                                                      *)

\* A tick takes the head of the buffer, or in timed mode all of it.
TimerTick ==
    /\ dlyTimer = "tick" /\ ~dlyStop
    /\ LET n == IF dlyWait = <<>> THEN 0 ELSE IF dlyMode = "timed" THEN Len(dlyWait) ELSE 1
       IN /\ dlyHeld' = SubSeq(dlyWait, 1, n)
          /\ dlyWait' = SubSeq(dlyWait, n + 1, Len(dlyWait))
          /\ dlyTimer' = IF dlyMode = "rate" /\ n = 0 THEN "clear" ELSE "send"
    /\ UNCHANGED <<dlyMode, dlyStop, dlyTopic, dlyJob, dlyAsleep, dlyWoken, dlyHandle, dlyRate, dlySent, dlyDone, dlyGone>>

TimerSend ==
    /\ dlyTimer = "send" /\ dlyHeld # <<>>
    /\ TrySend(Head(dlyHeld))
    /\ Completed({Head(dlyHeld)})
    /\ dlyHeld' = Tail(dlyHeld)
    /\ UNCHANGED <<dlyMode, dlyStop, dlyTopic, dlyJob, dlyWait, dlyAsleep, dlyWoken, dlyTimer, dlyHandle, dlyRate, dlyGone>>

\* The buffer is looked at once more, under its own lock ...
TimerCheck ==
    /\ dlyTimer = "send" /\ dlyHeld = <<>>
    /\ dlyTimer' = IF dlyMode = "rate" \/ dlyWait # <<>> THEN "tick" ELSE "clear"
    /\ UNCHANGED <<dlyMode, dlyStop, dlyTopic, dlyJob, dlyWait, dlyAsleep, dlyWoken, dlyHandle, dlyHeld, dlyRate,
                   dlySent, dlyDone, dlyGone>>

\* ... and the handle is cleared under another: a message that came between the
\* two has found the timer running.
TimerClear ==
    /\ dlyTimer = "clear"
    /\ dlyTimer' = "off"
    /\ dlyHandle' = FALSE
    /\ UNCHANGED <<dlyMode, dlyStop, dlyTopic, dlyJob, dlyWait, dlyAsleep, dlyWoken, dlyHeld, dlyRate, dlySent,
                   dlyDone, dlyGone>>

\* The stop token ends the sleeping tasks and, at its next turn, the interval.
DelayStop ==
    /\ ~dlyStop
    /\ dlyStop' = TRUE
    /\ dlyGone' = dlyGone \cup dlyAsleep
    /\ dlyAsleep' = {}
    /\ dlyTimer' = IF dlyTimer = "tick" THEN "off" ELSE dlyTimer
    /\ UNCHANGED <<dlyMode, dlyTopic, dlyJob, dlyWait, dlyWoken, dlyHandle, dlyHeld, dlyRate, dlySent, dlyDone>>

DelayHandler ==
    \/ Schedule \/ DrainDelays \/ DelayEntry \/ BrokenFlush
    \/ RateDrop \/ RateBuffer \/ RateThrough \/ RateRefused \/ RateControl \/ ChangeRate \/ RateEnsure \/ RateFlush \/ RateAbort
    \/ FlushEntry \/ RateRestart \/ RateEnd
    \/ QueueStart \/ QueueAgain \/ QueueReset \/ QueueFlush \/ QueueFlushed \/ QueuePut \/ QueueEnsure

DelayTimers ==
    \/ TimerTick \/ TimerSend \/ TimerCheck \/ TimerClear
    \/ \E i \in 1..DelayMax : DelayWake(i) \/ DelayFire(i)

\* Only the queue and timed modes look at the topic of a message.
ReadTopics == IF dlyMode \in {"queue", "timed"} THEN DelayTopics ELSE {""}

DelayNext ==
    \/ \E k \in DelayKinds, t \in ReadTopics, r \in DelayRates : DelayReceive(k, t, r)
    \/ DelayHandler \/ DelayTimers \/ DelayStop

DelaySpec == DelayInit /\ [][DelayNext]_delayVars

---------------------------------------------------------------------------
(* Properties.                                                             *)

\* Every message is accounted for: it leaves through the first output at most once,
\* however its own timer, the interval, a flush and a reset race for it, and between
\* two messages every received one waits, is held by a timer, has completed, or was
\* dropped where the code drops without completing: a full or reset rate buffer, the
\* messages of an aborted interval, the sleepers at the stop, and the rest of a flush
\* whose send the stop refused.  In the delay-like modes (and in drop) nothing is
\* dropped before the stop.
DelayExact ==
    /\ \A i \in 1..DelayMax : dlySent[i] <= 1
    /\ dlyJob.pc = "idle" =>
           1..Len(dlyTopic) \subseteq ToSet(dlyWait) \cup ToSet(dlyHeld) \cup dlyDone \cup dlyGone
    /\ dlyMode \in {"delay", "drop"} /\ ~dlyStop => dlyGone = {}
=============================================================================
