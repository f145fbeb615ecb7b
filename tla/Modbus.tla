-------------------------------- MODULE Modbus --------------------------------
(***************************************************************************)
(* The modbus nodes (industrial_nodes/modbus_*.rs): read, write, flex      *)
(* getter and flex writer nodes, native or in the node-red-contrib style,  *)
(* that share the one connection of their config node, and the modbus      *)
(* server node.  The connection carries the unit of the request under way, *)
(* retries a request once after a transport error, and is left with an     *)
(* answer still to come when a request is given up: the client library     *)
(* refuses an answer of another transaction.                               *)
(* A register is a number below ModWord (the code's 2^16).                 *)
(***************************************************************************)
EXTENDS Integers, Sequences, FiniteSets, SequencesExt

CONSTANTS
    ModDevices,   \* what is at the other end: "server" (our server node, one memory), "gateway" (a memory per unit)
    ModUnits,     \* units behind the gateway
    ModUnit,      \* unitId of the config node
    ModJobKinds,  \* requests the nodes make
    ModRequests,  \* bound on requests
    ModFaults,    \* bound on transport faults
    ModWord,      \* registers hold 0 .. ModWord - 1
    ModRegs       \* register_count and coil_count of the server

ModTypes == {"uint16", "int16", "uint32", "int32", "uint64", "int64"}
Tables == {"coils", "regs"}

\* Words have an even number of values; requests name a unit that is there, or none (0).
ASSUME ModAssumption ==
    /\ ModWord \in Nat \ {0} /\ ModWord % 2 = 0 /\ ModRegs \in Nat /\ ModUnit \in ModUnits
    /\ ModJobKinds \subseteq [write : BOOLEAN, unit : ModUnits \cup {0}, type : ModTypes, address : Nat, value : Int,
                             table : Tables, contrib : BOOLEAN, poll : BOOLEAN]

VARIABLES
    modDevice, modAuto,      \* the other end; autoConnect
    modMem,                  \* [unit -> [table -> [address -> word]]]
    modConn,                 \* context: up, the slave it addresses, answers still to come; unit
    modJobs,                 \* every request: what it asks for, its outcome and what was read
    modHolder, modAt,        \* who holds the connection's mutex, and where it is in modbus_op!
    modHist,                 \* requests the device served, in order
    modFaultCount

modVars == <<modDevice, modAuto, modMem, modConn, modJobs, modHolder, modAt, modHist, modFaultCount>>

ModInit ==
    /\ modDevice \in ModDevices /\ modAuto \in BOOLEAN
    /\ modMem = [u \in ModUnits |-> [t \in Tables |-> [a \in 0 .. ModRegs - 1 |-> 0]]]
    /\ modConn = [up |-> FALSE, slave |-> ModUnit, pending |-> FALSE, unit |-> ModUnit]
    /\ modJobs = <<>> /\ modHolder = 0 /\ modAt = "idle" /\ modHist = <<>> /\ modFaultCount = 0

---------------------------------------------------------------------------
(* Numbers in registers.                                                   *)

register_count(type) == CASE type \in {"uint16", "int16"} -> 1 [] type \in {"uint32", "int32"} -> 2 [] OTHER -> 4
Signed(type) == type \in {"int16", "int32", "int64"}
\* How many numbers the registers of a type can hold.
Square == ModWord * ModWord
Span(type) == CASE register_count(type) = 1 -> ModWord [] register_count(type) = 2 -> Square [] OTHER -> Square * Square
Clamp(v, low, high) == IF v < low THEN low ELSE IF v > high THEN high ELSE v

\* The `as` casts of variant_to_words saturate; int64 goes through u64.
CastAs(type, v) ==
    IF Signed(type) /\ type # "int64" THEN Clamp(v, -(Span(type) \div 2), Span(type) \div 2 - 1) % Span(type)
                                      ELSE Clamp(v, 0, Span(type) - 1)
\* The high word comes first.
Low(n) == n % ModWord
High(n) == n \div ModWord
variant_to_words(type, v) ==
    LET n == CastAs(type, v)
    IN CASE register_count(type) = 1 -> <<Low(n)>>
         [] register_count(type) = 2 -> <<Low(High(n)), Low(n)>>
         [] OTHER -> <<Low(High(High(High(n)))), Low(High(High(n))), Low(High(n)), Low(n)>>

Joined(words) ==
    CASE Len(words) = 1 -> words[1]
      [] Len(words) = 2 -> words[1] * ModWord + words[2]
      [] OTHER -> ((words[1] * ModWord + words[2]) * ModWord + words[3]) * ModWord + words[4]
words_to_variant(type, words) ==
    LET n == Joined(words) IN IF Signed(type) /\ n >= Span(type) \div 2 THEN n - Span(type) ELSE n

\* word and truthy of write_raw: contrib writes wrap instead.
ContribWord(v) == v % ModWord
Coil(v) == IF v # 0 THEN 1 ELSE 0

WordsToWrite(job) ==
    IF job.table = "coils" THEN <<Coil(job.value)>>
    ELSE IF job.contrib THEN <<ContribWord(job.value)>> ELSE variant_to_words(job.type, job.value)

\* effective_register_count: coils and the contrib nodes count addresses.
Quantity(job) == IF job.table = "coils" \/ job.contrib THEN 1 ELSE register_count(job.type)

---------------------------------------------------------------------------
(* The device.                                                             *)

\* The server node has one memory, whatever unit a frame names.
MemoryOf(unit) == IF modDevice = "server" THEN ModUnit ELSE unit

\* process_request: an address past the end of the table is an exception.
Served(job) == job.address + Quantity(job) <= ModRegs
Written(mem, job) ==
    [mem EXCEPT ![job.table] = [a \in DOMAIN @ |->
        IF a \in job.address .. job.address + Quantity(job) - 1
        THEN WordsToWrite(job)[a - job.address + 1] ELSE @[a]]]
ReadOf(mem, job) == [i \in 1 .. Quantity(job) |-> mem[job.table][job.address + i - 1]]
DecodedRead(job, words) ==
    IF job.table = "coils" \/ job.contrib THEN words[1] ELSE words_to_variant(job.type, words)

\* A uint64 beyond i64::MAX is an error of the read, after it was served.
Decodable(job, got) == job.write \/ job.table = "coils" \/ job.contrib \/ job.type # "uint64" \/ got < Span("uint64") \div 2

\* The request of job j reaches the device that the context addresses.
Reach(j, slave) ==
    LET job == modJobs[j].ask
        at == MemoryOf(slave)
    IN /\ modMem' = IF job.write /\ Served(job) THEN [modMem EXCEPT ![at] = Written(@, job)] ELSE modMem
       /\ modHist' = Append(modHist, [job |-> j, at |-> at,
                                      got |-> IF job.write \/ ~Served(job) THEN 0
                                              ELSE DecodedRead(job, ReadOf(modMem[at], job))])

\* The input of the server node: one coil or register, ignored past the end.
ServerInput(table, a, v) ==
    /\ modDevice = "server" /\ modHist = <<>> /\ modHolder = 0
    /\ modMem' = [modMem EXCEPT ![ModUnit][table] =
                     IF a \in DOMAIN @
                     THEN [@ EXCEPT ![a] = IF table = "coils" THEN Coil(v) ELSE Clamp(v, 0, ModWord - 1)] ELSE @]
    /\ UNCHANGED <<modDevice, modAuto, modConn, modJobs, modHolder, modAt, modHist, modFaultCount>>

---------------------------------------------------------------------------
(* The connection.                                                         *)

\* A mistake: a node without a unit leaves the one of the request before.
SelectUnitKeeps(unit) == IF unit = 0 THEN modConn.unit ELSE unit

\* select_unit: a node without a unit of its own uses the config node's.
SelectUnit(unit) == IF unit = 0 THEN ModUnit ELSE unit

Settle(j, outcome, got) ==
    /\ modJobs' = [modJobs EXCEPT ![j].outcome = outcome, ![j].got = got]
    /\ modHolder' = 0 /\ modAt' = "idle"

\* A message, or a tick of the poll timer.
JobComes(ask) ==
    /\ Len(modJobs) < ModRequests
    /\ modJobs' = Append(modJobs, [ask |-> ask, outcome |-> "waiting", got |-> 0])
    /\ UNCHANGED <<modDevice, modAuto, modMem, modConn, modHolder, modAt, modHist, modFaultCount>>

\* connection.lock(), then the unit; a payload that cannot be encoded ends it here.
JobLocks(j) ==
    /\ modHolder = 0 /\ modJobs[j].outcome = "waiting"
    /\ modConn' = [modConn EXCEPT !.unit = SelectUnit(modJobs[j].ask.unit)]
    /\ \/ modHolder' = j /\ modAt' = "connect" /\ UNCHANGED modJobs
       \/ modJobs[j].ask.write /\ Settle(j, "failed", 0)
    /\ UNCHANGED <<modDevice, modAuto, modMem, modHist, modFaultCount>>

\* ensure_connected; connect_tcp addresses the unit selected.
Connected == [modConn EXCEPT !.up = TRUE, !.slave = modConn.unit, !.pending = FALSE]
EnsureConnected(j) ==
    /\ modHolder = j /\ modAt = "connect"
    /\ \/ /\ modConn.up /\ modAt' = "first" /\ UNCHANGED <<modConn, modJobs, modHolder, modFaultCount>>
       \/ /\ ~modConn.up /\ modAuto
          /\ modConn' = Connected /\ modAt' = "first" /\ UNCHANGED <<modJobs, modHolder, modFaultCount>>
       \/ /\ ~modConn.up /\ (modAuto => modFaultCount < ModFaults)
          /\ modFaultCount' = IF modAuto THEN modFaultCount + 1 ELSE modFaultCount
          /\ Settle(j, "failed", 0) /\ UNCHANGED modConn
    /\ UNCHANGED <<modDevice, modAuto, modMem, modHist>>

\* apply_unit.
ApplyUnit == [modConn EXCEPT !.slave = modConn.unit]

\* The call answers: a value, or a Modbus exception, which keeps the connection.
CallAnswered(j) ==
    /\ modHolder = j /\ modAt \in {"first", "second"} /\ ~modConn.pending
    /\ modConn' = ApplyUnit
    /\ Reach(j, modConn'.slave)
    /\ LET got == modHist'[Len(modHist')].got
       IN IF Served(modJobs[j].ask) /\ Decodable(modJobs[j].ask, got) THEN Settle(j, "ok", got) ELSE Settle(j, "failed", 0)
    /\ UNCHANGED <<modDevice, modAuto, modFaultCount>>

\* A transport error or the time limit, before the request was served or after:
\* the first one reconnects, the second one keeps the context as it is.
CallFails(j) ==
    /\ modHolder = j /\ modAt \in {"first", "second"}
    /\ modConn.pending \/ modFaultCount < ModFaults
    /\ modFaultCount' = IF modConn.pending THEN modFaultCount ELSE modFaultCount + 1
    /\ \E served \in BOOLEAN :
          /\ IF served THEN Reach(j, modConn.unit) ELSE UNCHANGED <<modMem, modHist>>
          /\ IF modAt = "first"
             THEN /\ modAt' = "reconnect" /\ modConn' = [ApplyUnit EXCEPT !.up = FALSE, !.pending = FALSE]
                  /\ UNCHANGED <<modJobs, modHolder>>
             ELSE /\ modConn' = [ApplyUnit EXCEPT !.pending = served]
                  /\ Settle(j, "failed", 0)
    /\ UNCHANGED <<modDevice, modAuto>>

\* try_reconnect, with autoConnect only.
TryReconnect(j) ==
    /\ modHolder = j /\ modAt = "reconnect"
    /\ \/ /\ modAuto /\ modConn' = Connected /\ modAt' = "second"
          /\ UNCHANGED <<modJobs, modHolder, modFaultCount>>
       \/ /\ modAuto => modFaultCount < ModFaults
          /\ modFaultCount' = IF modAuto THEN modFaultCount + 1 ELSE modFaultCount
          /\ Settle(j, "failed", 0) /\ UNCHANGED modConn
    /\ UNCHANGED <<modDevice, modAuto, modMem, modHist>>

\* Stop aborts the poll task wherever it is; its answer may still come.
PollAborted(j) ==
    /\ modHolder = j /\ modJobs[j].ask.poll
    /\ \E sent \in BOOLEAN :
          /\ sent => modAt \in {"first", "second"} /\ ~modConn.pending
          /\ IF sent THEN Reach(j, modConn.unit) ELSE UNCHANGED <<modMem, modHist>>
          /\ modConn' = [modConn EXCEPT !.pending = @ \/ sent]
    /\ Settle(j, "aborted", 0)
    /\ UNCHANGED <<modDevice, modAuto, modFaultCount>>

ModStep(j) == JobLocks(j) \/ EnsureConnected(j) \/ CallAnswered(j) \/ CallFails(j) \/ TryReconnect(j) \/ PollAborted(j)
ModNext ==
    \/ \E ask \in ModJobKinds : JobComes(ask)
    \/ \E t \in Tables, a \in {0, ModRegs}, v \in {1, ModWord} : ServerInput(t, a, v)
    \/ \E j \in DOMAIN modJobs : ModStep(j)

ModSpec == ModInit /\ [][ModNext]_modVars

---------------------------------------------------------------------------
(* Reference: the number a type can hold.                                  *)
Representable(ask) ==
    IF ask.table = "coils" THEN Coil(ask.value)
    ELSE IF ask.contrib THEN ask.value % ModWord
    ELSE IF Signed(ask.type) THEN Clamp(ask.value, -(Span(ask.type) \div 2), Span(ask.type) \div 2 - 1)
    ELSE Clamp(ask.value, 0, Span(ask.type) - 1)

Cells(ask) == {<<ask.table, a>> : a \in ask.address .. ask.address + Quantity(ask) - 1}
Format(ask) == <<ask.table, ask.address, ask.contrib, IF ask.contrib THEN "" ELSE ask.type>>

\* What nodes that share a connection read and write: every request reached
\* the device of the unit its own node names, at most twice; one that is
\* reported as done was served; and a read gives the number the latest write of
\* the same registers put there (modbus_op!, select_unit, variant_to_words).
\* Numbers below 0 and beyond i64::MAX in int64 registers are left out: the code casts
\* them through u64, so the ones are written as 0 and the others read as negative.
ModbusFaithful ==
    /\ \A i \in DOMAIN modHist :
          modHist[i].at = MemoryOf(IF modJobs[modHist[i].job].ask.unit = 0 THEN ModUnit
                                   ELSE modJobs[modHist[i].job].ask.unit)
    /\ \A j \in DOMAIN modJobs :
          LET times == Cardinality({i \in DOMAIN modHist : modHist[i].job = j}) IN
          /\ times <= 2
          /\ modJobs[j].outcome = "ok" => times >= 1
    /\ \A i, k \in DOMAIN modHist :
          LET w == modJobs[modHist[i].job].ask
              r == modJobs[modHist[k].job].ask
          IN (/\ i < k /\ w.write /\ Served(w) /\ ~r.write /\ Served(r)
              /\ modHist[i].at = modHist[k].at /\ Format(w) = Format(r)
              /\ (w.type = "int64" => w.value \in 0 .. Span("int64") \div 2 - 1)
              /\ ~\E n \in i + 1 .. k - 1 :
                    LET o == modJobs[modHist[n].job].ask IN
                    o.write /\ modHist[n].at = modHist[i].at /\ Cells(o) \cap Cells(w) # {})
             => modHist[k].got = Representable(w)

=============================================================================
