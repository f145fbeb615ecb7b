---------------------------- MODULE StorageNodes ----------------------------
(***************************************************************************)
(* The file, file in and watch nodes on one file. A file is the sequence   *)
(* of what was written to it: payloads and line ends. Each node has a lock *)
(* of its own, so two file nodes and a reader meet on the file itself: an  *)
(* open that truncates, a write and the reads of a reader are steps.       *)
(***************************************************************************)
EXTENDS Integers, Sequences, FiniteSets

CONSTANTS FileWriters,    \* ids of the file nodes
          FileModes,      \* overwriteFile settings: "append", "replace", "delete"
          FileMax,        \* bound on the messages to the file nodes
          FileReads,      \* bound on the messages to the file in node
          FileChunk,      \* units a read of the stream format returns (64 KiB in the code)
          WatchMax        \* bound on the events of the watch node

ASSUME StoAssumption ==
    FileChunk \in Nat \ {0} /\ FileModes \subseteq {"append", "replace", "delete"}

VARIABLES fileDisk, fileWriter, fileLog, fileIn, fileSent, watch, fileMsgs

stoVars == <<fileDisk, fileWriter, fileLog, fileIn, fileSent, watch, fileMsgs>>

\* A content is a sequence of payloads (1, 2, ...) and line ends.
NoFile == <<-1>>
LineEnd == 0
Exists == fileDisk # NoFile

IdleWriters == [mode : FileModes, newline : BOOLEAN, at : {"wait"}, unit : {0}, ended : {FALSE}]

StoInit ==
    /\ fileDisk = NoFile
    /\ fileWriter \in [FileWriters -> IdleWriters]
    /\ fileLog = <<>>
    /\ fileIn \in {[format |-> f, sendError |-> e, at |-> "wait", pos |-> 0, out |-> <<>>, clean |-> TRUE] :
                        f \in {"whole", "lines", "stream"}, e \in BOOLEAN}
    /\ fileSent = <<>>
    /\ watch \in {[on |-> w, raw |-> <<>>, queue |-> <<>>, out |-> <<>>] : w \in BOOLEAN}
    /\ fileMsgs = [write |-> 0, read |-> 0]

\* What the operating system reports to a watcher that could be set up.
Notice(kind) ==
    watch' = IF watch.on /\ Len(watch.raw) + Len(watch.queue) + Len(watch.out) < WatchMax
             THEN [watch EXCEPT !.raw = Append(@, kind)] ELSE watch
\* A change of the file under a reader that is in the middle of it.
Disturb == fileIn' = [fileIn EXCEPT !.clean = FALSE]

----------------------------------------------------------------------------
\* The file node.

\* Which part of a sequence a message is; one without parts counts as the last one.
\* index = count - 1 with a count of 0 underflows: a panic, or "not the last" without checks.
PartKinds == {"none", "last", "middle", "zero"}
IsLastPart(parts) == parts \in {"none", "last"}
Writer(w) == fileWriter[w]

\* A line end follows what is not the last part; "\r\n" and "\n" read alike.
EndsLine(w, parts) == Writer(w).newline /\ ~IsLastPart(parts)

\* A message without a file name goes no further; delete removes the file, and a
\* file that is not there becomes msg.error; without a payload nothing is written.
FileMessage(w, name, payload, parts) ==
    /\ Writer(w).at = "wait" /\ fileMsgs.write < FileMax
    /\ fileMsgs' = [fileMsgs EXCEPT !.write = @ + 1]
    /\ LET mode == Writer(w).mode
           unit == fileMsgs.write + 1
       IN  CASE ~name ->
                  UNCHANGED <<fileDisk, fileWriter, fileLog, fileIn, fileSent, watch>>
             [] name /\ mode = "delete" ->
                  /\ fileDisk' = NoFile
                  /\ fileLog' = <<>>
                  /\ IF Exists THEN Notice("delete") /\ Disturb ELSE UNCHANGED <<watch, fileIn>>
                  /\ fileSent' = Append(fileSent, IF Exists THEN "ok" ELSE "error")
                  /\ fileWriter' = [x \in FileWriters |->
                        IF Writer(x).at = "write" THEN [Writer(x) EXCEPT !.at = "stale"] ELSE Writer(x)]
             [] name /\ mode # "delete" /\ ~payload ->
                  /\ fileSent' = Append(fileSent, "ok")
                  /\ UNCHANGED <<fileDisk, fileWriter, fileLog, fileIn, watch>>
             [] OTHER ->
                  /\ \E at \in IF parts = "zero" /\ Writer(w).newline THEN {"dead", "open"} ELSE {"open"} :
                        fileWriter' = [fileWriter EXCEPT ![w].at = at, ![w].unit = unit,
                                                         ![w].ended = EndsLine(w, parts)]
                  /\ UNCHANGED <<fileDisk, fileLog, fileIn, fileSent, watch>>

\* do_write opens the file: with truncate unless it appends. A failing open is
\* msg.error on a message that is sent on all the same.
OpenKeep(w) == IF Exists THEN fileDisk ELSE <<>>
OpenAs(w) == IF Writer(w).mode = "append" THEN OpenKeep(w) ELSE <<>>
DoOpen(w) ==
    /\ Writer(w).at = "open"
    /\ \/ /\ fileDisk' = OpenAs(w)
          /\ fileWriter' = [fileWriter EXCEPT ![w].at = "write"]
          /\ fileLog' = IF OpenAs(w) = <<>> THEN <<>> ELSE fileLog
          /\ IF Exists /\ OpenAs(w) = fileDisk THEN UNCHANGED <<watch, fileIn>>
             ELSE Notice(IF Exists THEN "update" ELSE "create") /\ Disturb
          /\ UNCHANGED fileSent
       \/ /\ fileWriter' = [fileWriter EXCEPT ![w].at = "wait"]
          /\ fileSent' = Append(fileSent, "error")
          /\ UNCHANGED <<fileDisk, fileLog, fileIn, watch>>
    /\ UNCHANGED fileMsgs
\* ... and writes: an appending handle at the end, the other one from the start of the
\* file it opened, over what an appending node may have written there since.
\* The handle of a file removed in between writes to nobody.
Record(w) == <<Writer(w).unit>> \o (IF Writer(w).ended THEN <<LineEnd>> ELSE <<>>)
WriteAll(w) ==
    IF Writer(w).mode = "append" THEN fileDisk \o Record(w)
    ELSE Record(w) \o SubSeq(fileDisk, Len(Record(w)) + 1, Len(fileDisk))
DoWrite(w) ==
    /\ \/ /\ Writer(w).at = "write"
          /\ fileDisk' = WriteAll(w)
          /\ fileLog' = fileLog \o Record(w)
          /\ Notice("update") /\ Disturb
       \/ /\ Writer(w).at = "stale"
          /\ UNCHANGED <<fileDisk, fileLog, fileIn, watch>>
    /\ fileWriter' = [fileWriter EXCEPT ![w].at = "wait"]
    /\ fileSent' = Append(fileSent, "ok")
    /\ UNCHANGED fileMsgs

----------------------------------------------------------------------------
\* The file in node: one message per line or chunk, with index and, on the last, count.

Part(p, i, c) == [payload |-> p, index |-> i, count |-> c]
\* The lines of a content: what stands between line ends, and a rest that is not empty.
Ends(s) == {k \in 1..Len(s) : s[k] = LineEnd}
LineOf(s, k) ==
    LET prev == {j \in Ends(s) : j < k} IN SubSeq(s, (IF prev = {} THEN 0 ELSE CHOOSE j \in prev : \A i \in prev : i <= j) + 1, k - 1)
EndOf(s, i) == CHOOSE k \in Ends(s) : Cardinality({j \in Ends(s) : j <= k}) = i
LinesOf(s) ==
    LET rest == LineOf(s, Len(s) + 1)
    IN  [i \in 1..Cardinality(Ends(s)) |-> LineOf(s, EndOf(s, i))] \o (IF rest = <<>> THEN <<>> ELSE <<rest>>)
WithCount(parts) == [i \in DOMAIN parts |-> IF i = Len(parts) THEN [parts[i] EXCEPT !.count = i] ELSE parts[i]]
ReadLines(s) == WithCount([i \in 1..Len(LinesOf(s)) |-> Part(LinesOf(s)[i], i - 1, 0)])

\* A message arrives: no name, no reading; a file that cannot be opened is an error
\* message, if the node sends those; the other formats read at once.
FileInMessage(name) ==
    /\ fileIn.at = "wait" /\ fileMsgs.read < FileReads
    /\ fileMsgs' = [fileMsgs EXCEPT !.read = @ + 1]
    /\ fileIn' = IF ~name THEN fileIn
                 ELSE IF ~Exists THEN [fileIn EXCEPT !.out = IF fileIn.sendError THEN <<Part(<<-2>>, 0, 0)>> ELSE <<>>,
                                                     !.clean = FALSE]
                 ELSE CASE fileIn.format = "whole" -> [fileIn EXCEPT !.out = <<Part(fileDisk, 0, 1)>>, !.clean = TRUE]
                        [] fileIn.format = "lines" -> [fileIn EXCEPT !.out = ReadLines(fileDisk), !.clean = TRUE]
                        [] OTHER -> [fileIn EXCEPT !.at = "read", !.pos = 0, !.out = <<>>, !.clean = TRUE]
    /\ UNCHANGED <<fileDisk, fileWriter, fileLog, fileSent, watch>>

\* read_file_stream: a chunk shorter than the buffer carries the count, the read that
\* returns nothing ends the file. (What a reader still sees of a removed file is left out.)
Lesser(a, b) == IF a < b THEN a ELSE b
IsLastFull(n) == n <= FileChunk
IsLast(n) == n < FileChunk
ReadChunk ==
    LET left  == IF Exists THEN SubSeq(fileDisk, fileIn.pos + 1, Len(fileDisk)) ELSE <<>>
        chunk == SubSeq(left, 1, Lesser(Len(left), FileChunk))
        i     == Len(fileIn.out)
    IN  /\ fileIn.at = "read"
        /\ fileIn' = IF chunk = <<>> THEN [fileIn EXCEPT !.at = "wait"]
                     ELSE [fileIn EXCEPT !.pos = @ + Len(chunk),
                                         !.out = Append(@, Part(chunk, i, IF IsLast(Len(chunk)) THEN i + 1 ELSE 0))]
        /\ UNCHANGED <<fileDisk, fileWriter, fileLog, fileSent, watch, fileMsgs>>

----------------------------------------------------------------------------
\* The watch node: the callback of the watcher looks at the file as it is by then, the
\* node takes the events in order; it is deaf when the path was not there at set up.
Callback ==
    /\ watch.raw # <<>>
    /\ watch' = [watch EXCEPT !.raw = Tail(@), !.queue = Append(@, [event |-> Head(watch.raw), type |-> IF Exists THEN "file" ELSE "none"])]
    /\ UNCHANGED <<fileDisk, fileWriter, fileLog, fileIn, fileSent, fileMsgs>>
WatchSends ==
    /\ watch.queue # <<>>
    /\ watch' = [watch EXCEPT !.queue = Tail(@), !.out = Append(@, Head(watch.queue))]
    /\ UNCHANGED <<fileDisk, fileWriter, fileLog, fileIn, fileSent, fileMsgs>>

StoNext ==
    \/ \E w \in FileWriters :
          \/ \E name, payload \in BOOLEAN, parts \in PartKinds : FileMessage(w, name, payload, parts)
          \/ DoOpen(w) \/ DoWrite(w)
    \/ \E name \in BOOLEAN : FileInMessage(name)
    \/ ReadChunk \/ Callback \/ WatchSends

StoSpec == StoInit /\ [][StoNext]_stoVars

----------------------------------------------------------------------------
AppendOnly == \A w \in FileWriters : Writer(w).mode = "append"
\* The parts are the pieces of the file in order, each of a given size but the last one.
InPieces(out, size) ==
    /\ \A i \in DOMAIN out : out[i].payload = SubSeq(fileDisk, (i - 1) * size + 1, Lesser(i * size, Len(fileDisk)))
    /\ Len(out) * size >= Len(fileDisk)

\* The i-th line is what stands between two line ends, with i - 1 of them before it; what
\* follows the last one is a line when it is not empty.
IsLine(s, i, line) ==
    \E a, b \in 0..Len(s) :
        /\ line = SubSeq(s, a + 1, b)
        /\ a = 0 \/ a \in Ends(s)
        /\ b = Len(s) \/ b + 1 \in Ends(s)
        /\ \A j \in a + 1..b : j \notin Ends(s)
        /\ Cardinality({e \in Ends(s) : e <= a}) = i - 1
InLines(out, s) ==
    /\ \A i \in DOMAIN out : IsLine(s, i, out[i].payload)
    /\ Len(out) = Cardinality(Ends(s)) + (IF s # <<>> /\ Len(s) \notin Ends(s) THEN 1 ELSE 0)

\* A finished read that no write disturbed is the file: its parts are the content, in one
\* piece or in chunks of the stream without a gap up to the end, the indices count from 0,
\* no part but the last one carries a count, and that count is the number of parts; the
\* lines are all that stands between line ends. When every writer appends, what is read is
\* what was written, one payload after another, each whole and with the line end that goes
\* with it, however the writers overlapped (do_write, read_file_lines, read_file_stream).
FileReadsBack ==
    (fileIn.at = "wait" /\ fileIn.clean /\ fileIn.out # <<>>) =>
        /\ fileIn.format # "lines" =>
              InPieces(fileIn.out, IF fileIn.format = "stream" THEN FileChunk ELSE Len(fileDisk))
        /\ \A i \in DOMAIN fileIn.out :
              /\ fileIn.out[i].index = i - 1
              /\ fileIn.out[i].count \in (IF i = Len(fileIn.out) THEN {0, i} ELSE {0})
        /\ fileIn.format = "lines" => InLines(fileIn.out, fileDisk)
        /\ AppendOnly => fileDisk = fileLog
=============================================================================
