----------------------------- MODULE CsvStream -----------------------------
(***************************************************************************)
(* parser/csv_parser/src/csv_stream_processor.c: a CSV text arrives in     *)
(* chunks cut anywhere; complete lines are split into fields, the first    *)
(* becomes the header, the others are filtered and their selected columns  *)
(* accumulated.  Filter and selection may be set at any time between two   *)
(* calls, allocations may fail.                                            *)
(*                                                                         *)
(* A byte is a number: digits are 0..9, a column name's suffix `_n` or     *)
(* `_s` is one byte.  Numbers are unsigned integers, blanks around header  *)
(* names do not occur, and a filter is given as the clauses its text       *)
(* denotes, or as ill-formed.                                              *)
(***************************************************************************)
EXTENDS Integers, Sequences, FiniteSetsExt, Functions

CONSTANTS
  Documents,    \* what is sent: [rows, text]; a blank line is a row << >>
  Filters,      \* [wellFormed, clauses]
  Selections,   \* sets of column names
  Chunks,       \* sizes of the chunks; the last one may be shorter
  Delim, Quote, LF, CR,
  NumSuffix, StrSuffix,
  MaxFields,    \* fields of a line that are looked at (256)
  RowBytes,     \* sizeof(buf) of process_row (2048)
  MaxFailures,  \* bound on failing allocations
  None          \* no header, no filter, no plan, no selection, no string

ASSUME CsvAssumption ==
  /\ \A d \in Documents : d.text \in Seq(Nat) /\ d.rows \in Seq(Seq(Seq(Nat)))
  /\ \A f \in Filters : \A i \in DOMAIN f.clauses :
       /\ f.clauses[i].op \in {"EQ", "NE", "GT", "GE", "LT", "LE"}
       /\ f.clauses[i].join \in {"AND", "OR"}
  /\ Chunks \subseteq Nat \ {0}
  /\ {MaxFields, RowBytes, MaxFailures} \subseteq Nat
  /\ None \notin Filters /\ None \notin Selections

VARIABLES
  doc,       \* the document on its way
  fed,       \* bytes of it that have arrived
  at,        \* "idle" between calls, "flush" in flush_lines, "done" after finish
  line,      \* line_buf[0 .. line_len - 1]
  select,    \* select_cols_str
  filter,    \* filter_expr_str
  header,    \* cols, None until header_parsed
  selected,  \* col_selected
  plan,      \* filter_clauses when filter_compiled
  nums,      \* num_vecs
  strs,      \* str_store
  matches,   \* match_count
  error,
  failures,  \* allocations that have failed
  asked      \* history: the filter asked for when each line was complete

config == <<select, filter>>
results == <<nums, strs, matches>>
vars == <<doc, fed, at, line, config, header, selected, plan, results, error, failures, asked>>

Init ==
  /\ doc \in Documents /\ fed = 0 /\ at = "idle" /\ line = << >>
  /\ select = None /\ filter = None
  /\ header = None /\ selected = {} /\ plan = None
  /\ nums = << >> /\ strs = << >> /\ matches = 0
  /\ error = "none" /\ failures = 0 /\ asked = << >>

Fail == failures < MaxFailures /\ failures' = failures + 1

---------------------------------------------------------------------------
(* One line.                                                               *)

(* Fault: the first quote closes the field. *)
CloseFirst(l, p) == Min({i \in p..Len(l) : l[i] = Quote} \cup {Len(l) + 1})

(* Where the quoted text that begins at p ends: at the first quote that is *)
(* not doubled, or at the end of the line.                                 *)
Close(l, p) ==
  LET close[i \in p..Len(l) + 2] ==
        CASE i > Len(l) -> Len(l) + 1
          [] i <= Len(l) /\ l[i] # Quote -> close[i + 1]
          [] i < Len(l) /\ l[i] = Quote /\ l[i + 1] = Quote -> close[i + 2]
          [] OTHER -> i
  IN  close[p]

(* The end of the field that begins at p, and its text. *)
FieldEnd(l, p) ==
  IF l[p] = Quote THEN Close(l, p + 1)
                  ELSE Min({i \in p..Len(l) : l[i] = Delim} \cup {Len(l) + 1})

FieldAt(l, p) == SubSeq(l, IF l[p] = Quote THEN p + 1 ELSE p, FieldEnd(l, p) - 1)

(* Past the field and its closing quote. *)
After(l, p) ==
  IF l[p] = Quote /\ FieldEnd(l, p) <= Len(l) THEN FieldEnd(l, p) + 1 ELSE FieldEnd(l, p)

(* split_csv_line *)
Split(l) ==
  LET from[p \in 1..Len(l) + 1] ==
        IF p > Len(l) THEN << >>
        ELSE LET n == After(l, p)
             IN  <<FieldAt(l, p)>> \o
                 CASE n = Len(l) /\ l[n] = Delim -> << << >> >>
                   [] n < Len(l) /\ l[n] = Delim -> from[n + 1]
                   [] OTHER -> from[n]
  IN  SubSeq(from[1], 1, Min({MaxFields, Len(from[1])}))

(* unescape_field *)
Unescape(f) ==
  LET from[i \in 1..Len(f) + 2] ==
        IF i > Len(f) THEN << >>
        ELSE <<f[i]>> \o IF f[i] = Quote /\ i < Len(f) /\ f[i + 1] = Quote
                         THEN from[i + 2] ELSE from[i + 1]
  IN  from[1]

(* fast_atof: the leading digits. *)
Number(f) ==
  LET value[i \in 0..Len(f)] ==
        IF i = 0 THEN 0
        ELSE IF \A j \in 1..i : f[j] \in 0..9 THEN 10 * value[i - 1] + f[i] ELSE value[i - 1]
  IN  value[Len(f)]

---------------------------------------------------------------------------
(* Header, selection and filter.                                           *)

Column(f) ==
  IF f = << >> \/ f[Len(f)] \notin {NumSuffix, StrSuffix}
  THEN [raw |-> f, name |-> f, type |-> "RAW"]
  ELSE [raw |-> f, name |-> SubSeq(f, 1, Len(f) - 1),
        type |-> IF f[Len(f)] = NumSuffix THEN "NUMBER" ELSE "STRING"]

Columns(l) == LET s == Split(l) IN [i \in DOMAIN s |-> Column(Unescape(s[i]))]

(* find_filter_column, and the columns a selection names: for each name    *)
(* the first column that has it, with or without its suffix.               *)
Named(cols, x) == {i \in DOMAIN cols : x \in {cols[i].name, cols[i].raw}}

Chosen(cols, sel) ==
  IF sel = None THEN DOMAIN cols
  ELSE {Min(Named(cols, x)) : x \in {y \in sel : Named(cols, y) # {}}}

(* compile_filter_plan: does the expression fit these columns? *)
Compiles(cols, f) ==
  /\ f.wellFormed
  /\ \A i \in DOMAIN f.clauses :
       LET c == f.clauses[i]
       IN  /\ Named(cols, c.col) # {}
           /\ cols[Min(Named(cols, c.col))].type # IF c.isString THEN "NUMBER" ELSE "STRING"

Plan(cols, f) ==
  [i \in DOMAIN f.clauses |->
     [index |-> Min(Named(cols, f.clauses[i].col)), op |-> f.clauses[i].op,
      join |-> f.clauses[i].join, isString |-> f.clauses[i].isString, rhs |-> f.clauses[i].rhs]]

(* cmp_bytes *)
Below(a, b) ==
  \E i \in 1..Len(b) :
    /\ \A j \in 1..i - 1 : j <= Len(a) /\ a[j] = b[j]
    /\ i = Len(a) + 1 \/ (i <= Len(a) /\ a[i] < b[i])

Compare(op, less, equal) ==
  CASE op = "EQ" -> equal  [] op = "NE" -> ~equal
    [] op = "LT" -> less   [] op = "LE" -> less \/ equal
    [] op = "GE" -> ~less  [] op = "GT" -> ~less /\ ~equal

Holds(c, fields) ==
  LET lhs == fields[c.index]
  IN  IF c.isString THEN Compare(c.op, Below(lhs, c.rhs), lhs = c.rhs)
                    ELSE Compare(c.op, Number(lhs) < Number(c.rhs), Number(lhs) = Number(c.rhs))

(* eval_filter_plan: from left to right, `and` does not bind stronger. *)
Accepts(p, fields) ==
  IF p = None THEN TRUE
  ELSE LET upto[i \in DOMAIN p] ==
             CASE i = 1 -> Holds(p[1], fields)
               [] i > 1 /\ p[i].join = "AND" -> upto[i - 1] /\ Holds(p[i], fields)
               [] i > 1 /\ p[i].join = "OR"  -> upto[i - 1] \/ Holds(p[i], fields)
       IN  upto[Len(p)]

(* What a call of compile_filter_plan leaves behind. *)
CompileFor(cols, f) ==
  \/ /\ Compiles(cols, f)
     /\ plan' = Plan(cols, f) /\ error' = "none"
     /\ UNCHANGED failures
  \/ /\ ~Compiles(cols, f)
     /\ plan' = None /\ error' = "filter"
     /\ UNCHANGED failures
  \/ Fail /\ plan' = None /\ error' = "memory"

(* Fault: the filter is only stored. *)
SetFilterStored(f) ==
  /\ at = "idle"
  /\ filter' = f /\ plan' = None
  /\ UNCHANGED <<doc, fed, at, line, select, header, selected, results, error, failures, asked>>

(* csv_stream_processor_set_filter: compiled at once when the columns are  *)
(* known, else with the header.                                            *)
SetFilter(f) ==
  /\ at = "idle"
  /\ \/ filter' = f /\ header = None /\ plan' = None /\ UNCHANGED <<error, failures>>
     \/ filter' = f /\ header # None /\ CompileFor(header, f)
     \/ Fail /\ filter' = None /\ plan' = None /\ error' = "memory"
  /\ UNCHANGED <<doc, fed, at, line, select, header, selected, results, asked>>

(* csv_stream_processor_set_columns: resolved with the header only; without *)
(* memory for the names there is no selection, and nobody is told.          *)
SetColumns(s) ==
  /\ at = "idle"
  /\ \/ select' = s /\ UNCHANGED failures
     \/ Fail /\ select' = None
  /\ UNCHANGED <<doc, fed, at, line, filter, header, selected, plan, results, error, asked>>

(* parse_header; when memory runs out the line is gone and the next one    *)
(* will be taken for the header.                                           *)
ParseHeader(l) ==
  /\ header = None
  /\ \/ /\ header' = Columns(l)
        /\ selected' = Chosen(Columns(l), select)
        /\ nums' = [i \in DOMAIN Columns(l) |-> << >>]
        /\ \/ filter = None /\ UNCHANGED <<plan, error, failures>>
           \/ filter # None /\ CompileFor(Columns(l), filter)
     \/ /\ Fail /\ error' = "memory"
        /\ UNCHANGED <<header, selected, nums, plan>>
  /\ UNCHANGED <<strs, matches>>

---------------------------------------------------------------------------
(* process_row                                                             *)

(* The fields of a row: extra ones are dropped, missing ones empty. *)
Fields(spans) ==
  [i \in DOMAIN header |-> IF i <= Len(spans) THEN Unescape(spans[i]) ELSE << >>]

Width(spans) ==
  Len(header) + SumFunction([i \in DOMAIN header |-> IF i <= Len(spans) THEN Len(spans[i]) ELSE 0])

Selected(type) == {i \in selected : header[i].type = type}

(* dvec_push and str_store_push_row: a column or the strings that cannot   *)
(* grow stay as they are, and nobody is told.                              *)
Store(fields, lost, strings) ==
  /\ nums' = [i \in DOMAIN nums |->
                IF i \in Selected("NUMBER") \ lost THEN Append(nums[i], Number(fields[i]))
                ELSE nums[i]]
  /\ strs' = IF strings /\ Selected("STRING") # {}
             THEN Append(strs, [i \in Selected("STRING") |->
                                  IF i \in lost THEN None ELSE fields[i]])
             ELSE strs
  /\ matches' = matches + 1
  /\ UNCHANGED error

ProcessRow(l) ==
  /\ header # None
  /\ LET spans == Split(l) IN
       \/ /\ Width(spans) > RowBytes
          /\ error' = "wide"
          /\ UNCHANGED <<results, failures>>
       \/ /\ Width(spans) <= RowBytes /\ ~Accepts(plan, Fields(spans))
          /\ UNCHANGED <<results, error, failures>>
       \/ /\ Width(spans) <= RowBytes /\ Accepts(plan, Fields(spans))
          /\ \/ Store(Fields(spans), {}, TRUE) /\ UNCHANGED failures
             \/ Fail /\ \E lost \in SUBSET selected, strings \in BOOLEAN :
                          Store(Fields(spans), lost, strings)
  /\ UNCHANGED <<header, selected, plan>>

(* A line without its line feed; blank ones are skipped. *)
TakeLine(l) ==
  LET text == IF l # << >> /\ l[Len(l)] = CR THEN SubSeq(l, 1, Len(l) - 1) ELSE l
  IN  /\ \/ /\ text = << >>
            /\ UNCHANGED <<header, selected, plan, results, error, failures>>
         \/ text # << >> /\ (ParseHeader(text) \/ ProcessRow(text))
      /\ asked' = Append(asked, filter)

---------------------------------------------------------------------------
(* csv_stream_processor_feed: the chunk is kept, or lost for want of       *)
(* memory.                                                                 *)
Feed(k) ==
  /\ at = "idle" /\ fed < Len(doc.text)
  /\ fed' = Min({fed + k, Len(doc.text)})
  /\ \/ /\ line' = line \o SubSeq(doc.text, fed + 1, fed')
        /\ at' = "flush"
        /\ UNCHANGED <<error, failures>>
     \/ Fail /\ error' = "memory" /\ UNCHANGED <<line, at>>
  /\ UNCHANGED <<doc, config, header, selected, plan, results, asked>>

Breaks == {i \in DOMAIN line : line[i] = LF}

(* flush_lines, line by line until none is complete. *)
FlushLine ==
  /\ at = "flush" /\ Breaks # {}
  /\ TakeLine(SubSeq(line, 1, Min(Breaks) - 1))
  /\ line' = SubSeq(line, Min(Breaks) + 1, Len(line))
  /\ UNCHANGED <<doc, fed, at, config>>

FlushEnd ==
  /\ at = "flush" /\ Breaks = {}
  /\ at' = "idle"
  /\ UNCHANGED <<doc, fed, line, config, header, selected, plan, results, error, failures, asked>>

(* csv_stream_processor_finish, at the end of the stream. *)
Finish ==
  /\ at = "idle" /\ fed = Len(doc.text)
  /\ IF line = << >> THEN UNCHANGED <<header, selected, plan, results, error, failures, asked>>
                     ELSE TakeLine(line)
  /\ line' = << >> /\ at' = "done"
  /\ UNCHANGED <<doc, fed, config>>

Next ==
  \/ \E f \in Filters : SetFilter(f)
  \/ \E s \in Selections : SetColumns(s)
  \/ \E k \in Chunks : Feed(k)
  \/ FlushLine \/ FlushEnd \/ Finish

Spec == Init /\ [][Next]_vars

---------------------------------------------------------------------------
(* Properties.                                                             *)

(* The rows of the document that have arrived, without the blank lines. *)
Arrived ==
  LET n == IF at = "done" THEN Len(doc.rows)
           ELSE Cardinality({i \in 1..fed : doc.text[i] = LF})
  IN  {i \in 1..n : doc.rows[i] # << >>}

(* A row as the columns see it, and whether process_row has room for it:   *)
(* quotes are doubled in transit.                                          *)
Padded(row) == [i \in DOMAIN header |-> IF i <= Len(row) THEN row[i] ELSE << >>]

Sent(field) == Len(field) + Cardinality({i \in DOMAIN field : field[i] = Quote})

Fits(row) ==
  Len(header) + SumFunction([i \in DOMAIN header |-> Sent(Padded(row)[i])]) <= RowBytes

(* The rows the filter in force at their arrival lets through; one that    *)
(* does not compile lets everything through.                               *)
Through ==
  {i \in Arrived \ {Min(Arrived)} :
     /\ Fits(doc.rows[i])
     /\ asked[i] = None \/ ~Compiles(header, asked[i])
          \/ Accepts(Plan(header, asked[i]), Padded(doc.rows[i]))}

InOrder(S) == [j \in 1..Cardinality(S) |-> CHOOSE i \in S : Cardinality({k \in S : k < i}) = j - 1]

(* However the text is cut into chunks, ended and quoted, the processor     *)
(* holds exactly the rows that were sent and pass the filter, in order, its *)
(* number and string columns aligned row by row.                            *)
ResultsExact ==
  at \in {"idle", "done"} /\ failures = 0 /\ Arrived # {} =>
    LET rows == InOrder(Through)
    IN  /\ [i \in DOMAIN header |-> header[i].raw]
             = SubSeq(doc.rows[Min(Arrived)], 1, Min({MaxFields, Len(doc.rows[Min(Arrived)])}))
        /\ matches = Len(rows)
        /\ \A c \in Selected("NUMBER") :
             nums[c] = [j \in DOMAIN rows |-> Number(Padded(doc.rows[rows[j]])[c])]
        /\ Selected("STRING") # {} =>
             strs = [j \in DOMAIN rows |->
                       [c \in Selected("STRING") |-> Padded(doc.rows[rows[j]])[c]]]

(* Rows pass unfiltered only with an error on record: once the columns are  *)
(* known, the filter the host asked for last is the one in force, whenever  *)
(* it was set and whatever has failed before.                               *)
FilterInForce ==
  filter # None /\ header # None =>
    (Compiles(header, filter) /\ plan = Plan(header, filter)) \/ error # "none"

============================================================================
