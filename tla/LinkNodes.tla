------------------------------ MODULE LinkNodes ------------------------------
(***************************************************************************)
(* The link call, link in and link out nodes (common_nodes/link_*.rs).  A  *)
(* link call pushes an entry on the stack of the message, registers an     *)
(* event with a timeout and injects the message into its targets; a link   *)
(* out in return mode pops the top entry and gives the message back to the *)
(* link call that pushed it.  Every copy a fan-out makes is a message of   *)
(* its own, but a static link call gives all of its targets the same one.  *)
(***************************************************************************)
EXTENDS Integers, Sequences, FiniteSets, SequencesExt

CONSTANTS
    LinkTargets,   \* LinkTargets[c]: how many targets the static link call c has
    LinkCalls,     \* bound on calls
    LinkCopies     \* bound on message copies in flight

\* A call without a target is an error of its own (LinkInjectFails).
ASSUME LinkAssumption ==
    /\ LinkTargets \in [DOMAIN LinkTargets -> Nat \ {0}]
    /\ LinkCalls \in Nat /\ LinkCopies \in Nat

VARIABLES
    lnkStacks,   \* the link call stack of every message: a sequence of entry ids
    lnkRefs,     \* the references in flight: message, where it is, entry it carries
    lnkEntries,  \* what every entry stands for: its link call and its outcomes
    lnkEvents,   \* msg_events: the entries that wait for their return
    lnkTasks,    \* the timeout tasks that have not ended
    lnkLock,     \* mut_state of every link call: 0, or the reference holding it
    lnkRunning

linkVars == <<lnkStacks, lnkRefs, lnkEntries, lnkEvents, lnkTasks, lnkLock, lnkRunning>>

LinkNodeSet == DOMAIN LinkTargets

LinkInit ==
    /\ lnkStacks = <<<<>>>>
    /\ lnkRefs = <<[msg |-> 1, at |-> "flow", entry |-> 0]>>
    /\ lnkEntries = <<>>
    /\ lnkEvents = {}
    /\ lnkTasks = {}
    /\ lnkLock = [c \in LinkNodeSet |-> 0]
    /\ lnkRunning = TRUE

MoveRef(r, at, e) == lnkRefs' = [lnkRefs EXCEPT ![r].at = at, ![r].entry = e]
CallOf(e) == lnkEntries[e].call

\* A node between link in and link out sends on two wires: the second copy is deep.
LinkFork(r) ==
    /\ lnkRefs[r].at = "flow" /\ Len(lnkRefs) < LinkCopies
    /\ lnkStacks' = Append(lnkStacks, lnkStacks[lnkRefs[r].msg])
    /\ lnkRefs' = Append(lnkRefs, [lnkRefs[r] EXCEPT !.msg = Len(lnkStacks) + 1])
    /\ UNCHANGED <<lnkEntries, lnkEvents, lnkTasks, lnkLock, lnkRunning>>

\* forward_call_msg: the entry is pushed under the message's lock ...
LinkPush(r, c) ==
    /\ lnkRunning /\ lnkRefs[r].at = "flow" /\ Len(lnkEntries) < LinkCalls
    /\ LET e == Len(lnkEntries) + 1
       IN /\ lnkEntries' = Append(lnkEntries, [call |-> c, returned |-> 0, expired |-> 0])
          /\ lnkStacks' = [lnkStacks EXCEPT ![lnkRefs[r].msg] = Append(@, e)]
          /\ MoveRef(r, "pushed", e)
    /\ UNCHANGED <<lnkEvents, lnkTasks, lnkLock, lnkRunning>>

\* ... the event and its timeout under the node's.
LinkRegister(r) ==
    /\ lnkRefs[r].at = "pushed" /\ lnkLock[CallOf(lnkRefs[r].entry)] = 0
    /\ lnkEvents' = lnkEvents \union {lnkRefs[r].entry}
    /\ lnkTasks' = lnkTasks \union {lnkRefs[r].entry}
    /\ MoveRef(r, "inject", lnkRefs[r].entry)
    /\ UNCHANGED <<lnkStacks, lnkEntries, lnkLock, lnkRunning>>

\* fan_out_linked_msg: every target gets the same message.  A dynamic call without
\* a target, and a target that is gone, end it with an error: the event stays.
LinkInject(r) ==
    /\ lnkRefs[r].at = "inject"
    /\ lnkRefs' = [lnkRefs EXCEPT ![r].at = "flow", ![r].entry = 0] \o
                  [i \in 1..LinkTargets[CallOf(lnkRefs[r].entry)] - 1 |->
                      [msg |-> lnkRefs[r].msg, at |-> "flow", entry |-> 0]]
    /\ UNCHANGED <<lnkStacks, lnkEntries, lnkEvents, lnkTasks, lnkLock, lnkRunning>>

LinkInjectFails(r) ==
    /\ lnkRefs[r].at = "inject"
    /\ MoveRef(r, "gone", 0)
    /\ UNCHANGED <<lnkStacks, lnkEntries, lnkEvents, lnkTasks, lnkLock, lnkRunning>>

\* link out, return mode: the top entry is popped, an empty stack is an error.
LinkPop(r) ==
    /\ lnkRefs[r].at = "flow"
    /\ LET s == lnkStacks[lnkRefs[r].msg]
       IN IF s = <<>> THEN MoveRef(r, "gone", 0) /\ UNCHANGED lnkStacks
          ELSE /\ lnkStacks' = [lnkStacks EXCEPT ![lnkRefs[r].msg] = Front(s)]
               /\ MoveRef(r, "return", Last(s))
    /\ UNCHANGED <<lnkEntries, lnkEvents, lnkTasks, lnkLock, lnkRunning>>

\* Mutant: the event is looked up and left in the table.
TakeEventKept(e) == lnkEvents

TakeEvent(e) == lnkEvents \ {e}

\* return_msg: the event is taken; without one the return is an error.
LinkReturn(r) ==
    /\ lnkRefs[r].at = "return"
    /\ LET e == lnkRefs[r].entry
       IN /\ lnkLock[CallOf(e)] = 0
          /\ IF e \in lnkEvents
             THEN /\ lnkEvents' = TakeEvent(e)
                  /\ lnkLock' = [lnkLock EXCEPT ![CallOf(e)] = r]
                  /\ MoveRef(r, "send", e)
             ELSE MoveRef(r, "gone", 0) /\ UNCHANGED <<lnkEvents, lnkLock>>
    /\ UNCHANGED <<lnkStacks, lnkEntries, lnkTasks, lnkRunning>>

\* The send happens under the lock; the event is dropped after it, which aborts
\* the timeout.
LinkSend(r) ==
    /\ lnkRefs[r].at = "send"
    /\ LET e == lnkRefs[r].entry
       IN /\ lnkEntries' = [lnkEntries EXCEPT ![e].returned = @ + 1]
          /\ lnkTasks' = lnkTasks \ {e}
          /\ lnkLock' = [lnkLock EXCEPT ![CallOf(e)] = 0]
    /\ MoveRef(r, "flow", 0)
    /\ UNCHANGED <<lnkStacks, lnkEvents, lnkRunning>>

\* timeout_task: removes the event, when there still is one.
LinkTimeout(e) ==
    /\ e \in lnkTasks /\ lnkLock[CallOf(e)] = 0
    /\ lnkTasks' = lnkTasks \ {e}
    /\ lnkEvents' = lnkEvents \ {e}
    /\ lnkEntries' = [lnkEntries EXCEPT ![e].expired = IF e \in lnkEvents THEN @ + 1 ELSE @]
    /\ UNCHANGED <<lnkStacks, lnkRefs, lnkLock, lnkRunning>>

\* The end of run aborts the timeouts; the events stay.
LinkStop ==
    /\ lnkRunning /\ \A c \in LinkNodeSet : lnkLock[c] = 0
    /\ lnkRunning' = FALSE
    /\ lnkTasks' = {}
    /\ UNCHANGED <<lnkStacks, lnkRefs, lnkEntries, lnkEvents, lnkLock>>

LinkNext ==
    \/ \E r \in DOMAIN lnkRefs :
          \/ LinkFork(r) \/ LinkRegister(r) \/ LinkInject(r) \/ LinkInjectFails(r)
          \/ LinkPop(r) \/ LinkReturn(r) \/ LinkSend(r)
          \/ \E c \in LinkNodeSet : LinkPush(r, c)
    \/ \E e \in DOMAIN lnkEntries : LinkTimeout(e)
    \/ LinkStop

LinkSpec == LinkInit /\ [][LinkNext]_linkVars

---------------------------------------------------------------------------
(* Properties.                                                             *)

\* What an entry has come to; two outcomes are none the abstract call knows.
LinkOutcome(entry) ==
    CASE entry.returned = 0 /\ entry.expired = 0 -> "open"
      [] entry.returned = 1 /\ entry.expired = 0 -> "returned"
      [] entry.returned = 0 /\ entry.expired = 1 -> "expired"
      [] OTHER -> "twice"

LinkAbstract == INSTANCE LinkCall WITH
    outcomes <- [e \in DOMAIN lnkEntries |-> LinkOutcome(lnkEntries[e])]

\* Link nodes implement the abstract call: however the return of a message, the
\* returns of its copies and the timeout interleave, a call comes back on the output
\* port of the node that made it or it expires, once, and what is decided stays so.
LinkImplements == LinkAbstract!CallSpec
=============================================================================
