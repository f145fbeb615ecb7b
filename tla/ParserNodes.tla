----------------------------- MODULE ParserNodes -----------------------------
(***************************************************************************)
(* The csv node (parser_nodes/csv.rs) as a pair, one that writes rows as   *)
(* text and one that reads the text, and a chain of json or yaml nodes     *)
(* (json.rs, yaml.rs), each with an action of its own.                     *)
(*                                                                         *)
(* A text of the csv part is a sequence of characters: "q" is the quote,   *)
(* "n" and "r" line feed and carriage return.  Of the text of a json or    *)
(* yaml document only the value it stands for is kept.                     *)
(***************************************************************************)
EXTENDS Integers, Sequences, SequencesExt

CONSTANTS
    ParParts,    \* what to explore: a subset of {"csv", "json", "yaml"}
    CsvRows,     \* rows a message may have: one text for each of two columns
    CsvCount,    \* bound on the parts of a sequence of messages
    CsvMax,      \* bound on the messages of a behaviour
    DocValues,   \* values that may arrive at the first json or yaml node
    DocMax       \* bound on the nodes of the chain

VARIABLES
    parPart,
    csvHdrOut, csvHdrIn,   \* settings: header the writer sends, header the reader expects
    csvHdrSent,            \* state of the writer
    csvStore,              \* state of the reader: rows of a sequence that is not complete
    csvOut,                \* rows the reader has sent
    csvIn,                 \* ghost: what rows should have been sent, and held back
    csvCount,
    docValue, docActions, docFirst, docFailed, docOk

csvVars == <<csvHdrOut, csvHdrIn, csvHdrSent, csvStore, csvOut, csvIn, csvCount>>
docVars == <<docValue, docActions, docFirst, docFailed, docOk>>
prsVars == <<parPart, csvVars, docVars>>

---------------------------------------------------------------------------
(* csv.rs                                                                  *)

CsvColumns == <<<<"c", "1">>, <<"c", "2">>>>

\* format_csv_field
FormatFieldBare(text) ==
    IF ToSet(text) \cap {",", "n", "r"} = {} THEN text ELSE <<"q">> \o text \o <<"q">>
FormatField(text) ==
    IF ToSet(text) \cap {",", "q", "n", "r"} = {} THEN text
    ELSE <<"q">> \o FlattenSeq([j \in DOMAIN text |-> IF text[j] = "q" THEN <<"q", "q">> ELSE <<text[j]>>]) \o <<"q">>

FormatLine(row) == FormatField(row[1]) \o <<",">> \o FormatField(row[2])

\* objects_to_csv: the header first, for "once" in the first message only.
WritesHeader == csvHdrOut # "none" /\ ~csvHdrSent
ObjectsToCsv(rows) ==
    LET lines == IF WritesHeader THEN <<CsvColumns>> \o rows ELSE rows
    IN  FlattenSeq([j \in DOMAIN lines |-> FormatLine(lines[j]) \o <<"n">>])

\* str::lines: a carriage return before the line feed goes with it.
Chomp(line) == IF line # <<>> /\ Last(line) = "r" THEN Front(line) ELSE line
TextLines(text) ==
    LET cut == FoldLeft(LAMBDA acc, c : IF c = "n" THEN [lines |-> Append(acc.lines, Chomp(acc.line)), line |-> <<>>]
                                        ELSE [acc EXCEPT !.line = Append(@, c)],
                        [lines |-> <<>>, line |-> <<>>], text)
    IN  IF cut.line = <<>> THEN cut.lines ELSE Append(cut.lines, cut.line)

\* split_csv_lines: lines with an odd number of quotes open or close a quoted line feed.
SplitCsvLines(text) ==
    LET step(acc, line) ==
            LET current == (IF acc.current = <<>> THEN <<>> ELSE Append(acc.current, "n")) \o line
                odd == Len(SelectSeq(line, LAMBDA c : c = "q")) % 2 = 1
                quoted == IF odd THEN ~acc.quoted ELSE acc.quoted
            IN  IF quoted THEN [acc EXCEPT !.current = current, !.quoted = quoted]
                ELSE [lines |-> Append(acc.lines, current), current |-> <<>>, quoted |-> FALSE]
        end == FoldLeft(step, [lines |-> <<>>, current |-> <<>>, quoted |-> FALSE], TextLines(text))
    IN  IF end.current = <<>> THEN end.lines ELSE Append(end.lines, end.current)

\* parse_csv_line: a quote next to a quote inside of quotes is one character.
ParseCsvLine(line) ==
    LET step(acc, j) ==
            CASE acc.skip -> [acc EXCEPT !.skip = FALSE]
              [] ~acc.skip /\ line[j] = "q" ->
                    IF acc.quoted /\ j < Len(line) /\ line[j + 1] = "q"
                    THEN [acc EXCEPT !.field = Append(@, "q"), !.skip = TRUE]
                    ELSE [acc EXCEPT !.quoted = ~@]
              [] ~acc.skip /\ line[j] = "," /\ ~acc.quoted ->
                    [acc EXCEPT !.fields = Append(@, acc.field), !.field = <<>>]
              [] OTHER -> [acc EXCEPT !.field = Append(@, line[j])]
        end == FoldLeft(step, [fields |-> <<>>, field |-> <<>>, quoted |-> FALSE, skip |-> FALSE], [j \in DOMAIN line |-> j])
    IN  Append(end.fields, end.field)

Blank == {" ", "n", "r"}
RECURSIVE Trim(_)
Trim(t) == CASE t # <<>> /\ t[1] \in Blank -> Trim(Tail(t))
             [] t # <<>> /\ t[1] \notin Blank /\ Last(t) \in Blank -> Trim(Front(t))
             [] OTHER -> t

\* parse_field_value: nothing, a number, or the text without blanks around it.
ParseFieldValue(field) ==
    LET t == Trim(field) IN
    [k |-> CASE t = <<>> -> "none" [] t # <<>> /\ ToSet(t) \subseteq {"1", "2"} -> "num" [] OTHER -> "str", t |-> t]
NoField == [k |-> "none", t |-> <<>>]

\* csv_to_objects: header, blank lines, fields past the last column and objects that have
\* no property at all are left out.
CsvToObjects(text) ==
    LET lines == SplitCsvLines(text)
        data == SelectSeq(IF csvHdrIn /\ lines # <<>> THEN Tail(lines) ELSE lines, LAMBDA l : Trim(l) # <<>>)
        fields == [j \in DOMAIN data |-> ParseCsvLine(data[j])]
        value(f, c) == IF c \in DOMAIN f THEN ParseFieldValue(f[c]) ELSE NoField
        objects == [j \in DOMAIN data |-> [c \in {1, 2} |-> value(fields[j], c)]]
    IN  SelectSeq(objects, LAMBDA o : \E c \in {1, 2} : o[c] # NoField)

\* What of a row should arrive: the text without blanks around it, and without the
\* carriage return of a line end.
RECURSIVE LineEnds(_)
LineEnds(t) == CASE Len(t) < 2 -> t
                 [] Len(t) >= 2 /\ t[1] = "r" /\ t[2] = "n" -> LineEnds(Tail(t))
                 [] OTHER -> <<t[1]>> \o LineEnds(Tail(t))
Arrives2(row) == [c \in {1, 2} |-> ParseFieldValue(LineEnds(row[c]))]

\* Rows as a message, through the writer and the reader.  A message may be one of a
\* sequence: the rows of all but the last are kept back.  One without parts is sent by
\* itself, and what is kept back stays.
CsvMessage ==
    /\ csvCount < CsvMax /\ csvCount' = csvCount + 1
    /\ \E rows \in {<<r>> : r \in CsvRows} \union (CsvRows \X CsvRows), part \in {"alone", "more", "last"} :
          LET objects == CsvToObjects(ObjectsToCsv(rows))
              taken == [j \in DOMAIN rows |-> Arrives2(rows[j])]
              header == IF WritesHeader /\ ~csvHdrIn THEN <<Arrives2(CsvColumns)>> ELSE <<>>
              kept == SelectSeq(header \o taken, LAMBDA o : \E c \in {1, 2} : o[c] # NoField)
          IN  /\ part = "more" => Len(csvStore) < CsvCount
              /\ \/ /\ part = "alone"
                    /\ csvOut' = csvOut \o objects /\ UNCHANGED csvStore
                    /\ csvIn' = [csvIn EXCEPT !.sent = @ \o kept]
                 \/ /\ part = "more"
                    /\ csvStore' = csvStore \o objects /\ UNCHANGED csvOut
                    /\ csvIn' = [csvIn EXCEPT !.held = @ \o kept]
                 \/ /\ part = "last"
                    /\ csvStore' = <<>> /\ csvOut' = csvOut \o csvStore \o objects
                    /\ csvIn' = [sent |-> csvIn.sent \o csvIn.held \o kept, held |-> <<>>]
    /\ csvHdrSent' = (csvHdrSent \/ csvHdrOut = "once")
    /\ UNCHANGED <<csvHdrOut, csvHdrIn>>

\* msg.reset at both nodes: what the reader kept back is forgotten.
CsvReset ==
    /\ csvCount < CsvMax /\ csvCount' = csvCount + 1
    /\ csvHdrSent' = FALSE /\ csvStore' = <<>> /\ csvIn' = [csvIn EXCEPT !.held = <<>>]
    /\ UNCHANGED <<csvHdrOut, csvHdrIn, csvOut>>

\* What was written with a csv node is what another one reads: every row, in order, with
\* its separators, quotes and line feeds, however the rows are spread over messages; a
\* message of no sequence that comes between the parts of one neither waits for it nor
\* takes rows of it along.
CsvRoundTrip == csvOut = csvIn.sent /\ csvStore = csvIn.held

---------------------------------------------------------------------------
(* json.rs and yaml.rs.  A value has a kind; a text is the document of a   *)
(* value, or no document of the format.                                    *)

Scalar == {"null", "bool", "num"}
DocText(v) == [k |-> "doc", of |-> v]

\* variant_to_json_value, variant_to_yaml_value: what the format has no type for.
Plainly(v) ==
    CASE v.k \in {"date", "regexp"} -> [k |-> "str"]
      [] v.k \in {"utf8", "bytes"} -> IF parPart = "json" THEN [k |-> "numbers"] ELSE [k |-> "str"]
      [] OTHER -> v

\* parse_json_string; any plain text is a document of yaml that stands for itself.
Parses(v) == v.k = "doc" \/ (parPart = "yaml" /\ v.k = "str")
Parsed(v) == IF v.k = "doc" THEN v.of ELSE v

\* stringify_value: a text that is a document already stays as it is.
Stringified(v) == IF Parses(v) THEN v ELSE DocText(Plainly(v))

\* should_process
Processed(action, v) ==
    CASE action = "auto" -> v.k \notin {"null", "date", "regexp"}
      [] action = "parse" -> v.k \in {"str", "doc", "utf8", "bytes"} \/ (parPart = "json" /\ v.k \in {"array", "numbers"})
      [] action = "stringify" -> v.k \notin {"date", "regexp"}

\* What a node takes for text: strings, buffers and, in json, arrays of byte values
\* (is_buffer_like).  Not every buffer is UTF-8, and not every text is a document (the
\* buffers and byte arrays here are none).
Textual(v) == v.k \in {"str", "doc", "utf8", "bytes"}
ParsedAsText(v) == Textual(v) \/ (parPart = "json" /\ v.k = "numbers")
Decoded(v) == IF v.k = "utf8" THEN [k |-> "str"] ELSE v

\* process_json and process_yaml: the new value, or an error and no message at all.
DocResult(action, v) ==
    LET failed == [ok |-> FALSE, v |-> v]
        kept == [ok |-> TRUE, v |-> v]
        text == Decoded(v)
    IN  CASE ~Processed(action, v) -> kept
          [] Processed(action, v) /\ (action = "stringify" \/ (action = "auto" /\ ~Textual(v))) ->
                [ok |-> TRUE, v |-> Stringified(v)]
          [] Processed(action, v) /\ ((action = "auto" /\ Textual(v)) \/ (action = "parse" /\ ParsedAsText(v))) ->
                IF Parses(text) THEN [ok |-> TRUE, v |-> Parsed(text)]
                ELSE IF action = "auto" /\ parPart = "json" THEN kept ELSE failed
          [] OTHER -> kept

DocNode ==
    /\ docOk /\ Len(docActions) < DocMax
    /\ \E action \in {"auto", "parse", "stringify"} :
          LET r == DocResult(action, docValue) IN
          /\ docActions' = Append(docActions, action)
          /\ docOk' = r.ok /\ docValue' = r.v
          /\ docFailed' = IF r.ok THEN docFailed ELSE docValue
    /\ UNCHANGED docFirst

\* A value that is turned into text and read again is the value, as far as the format can
\* say it, through any number of such pairs; only a buffer that is no text, or a text
\* that is no document, makes a node fail, and then the value is not touched.
DocRoundTrip ==
    /\ (docOk /\ docFirst.k \in Scalar \union {"array", "numbers", "object", "utf8", "bytes"}
        /\ docActions # <<>> /\ Len(docActions) % 2 = 0
        /\ \A j \in DOMAIN docActions : docActions[j] = IF j % 2 = 1 THEN "stringify" ELSE "parse")
          => docValue = Plainly(docFirst)
    /\ ~docOk => docValue = docFailed /\ docValue.k \in {"str", "utf8", "bytes", "numbers"}
    /\ (docOk /\ docActions # <<>> /\ Last(docActions) = "stringify" /\ docFirst.k \notin {"date", "regexp"})
          => (docValue.k = "doc" /\ docValue.of.k # "doc") \/ (parPart = "yaml" /\ docValue.k = "str")

---------------------------------------------------------------------------
PrsInit ==
    /\ parPart \in ParParts
    /\ csvHdrOut \in {"none", "all", "once"}
    /\ csvHdrIn = (csvHdrOut = "all")
    /\ parPart # "csv" => csvHdrOut = "none"
    /\ csvHdrSent = FALSE /\ csvStore = <<>> /\ csvOut = <<>> /\ csvIn = [sent |-> <<>>, held |-> <<>>] /\ csvCount = 0
    /\ docFirst \in DocValues /\ docValue = docFirst /\ docActions = <<>>
    /\ parPart = "csv" => docFirst = CHOOSE v \in DocValues : TRUE
    /\ docFailed = [k |-> "none"] /\ docOk = TRUE

PrsNext ==
    /\ \/ parPart = "csv" /\ (CsvMessage \/ CsvReset) /\ UNCHANGED docVars
       \/ parPart # "csv" /\ DocNode /\ UNCHANGED csvVars
    /\ UNCHANGED parPart

PrsSpec == PrsInit /\ [][PrsNext]_prsVars

\* What one parser node writes another one of its kind reads back: rows of csv with any
\* characters in their fields and in any number of messages (csv.rs 272-592), and values
\* through chains of json or yaml nodes (json.rs 73-326, yaml.rs 88-331).
ParsersAgree == CsvRoundTrip /\ DocRoundTrip
=============================================================================
