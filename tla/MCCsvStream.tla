---------------------------- MODULE MCCsvStream ----------------------------
(* Small documents for CsvStream: written with and without quotes, with    *)
(* either line end, with or without a last one.                            *)
EXTENDS CsvStream

A == 20
B == 21
D == 11   \* delimiter
Q == 12   \* quote

Doubled(f) ==
  LET to[i \in 0..Len(f)] ==
        IF i = 0 THEN << >> ELSE to[i - 1] \o IF f[i] = Q THEN <<Q, Q>> ELSE <<f[i]>>
  IN  to[Len(f)]

(* A field is quoted when it has to be, or always. *)
Written(f, always) ==
  IF always \/ \E i \in DOMAIN f : f[i] \in {D, Q} THEN <<Q>> \o Doubled(f) \o <<Q>> ELSE f

WrittenRow(row, always) ==
  LET to[i \in 0..Len(row)] ==
        CASE i = 0 -> << >>
          [] i = 1 -> Written(row[1], always)
          [] OTHER -> to[i - 1] \o <<D>> \o Written(row[i], always)
  IN  to[Len(row)]

Document(rows, always, end, last) ==
  LET to[i \in 0..Len(rows)] ==
        IF i = 0 THEN << >>
        ELSE to[i - 1] \o WrittenRow(rows[i], always)
               \o IF i < Len(rows) \/ last THEN end ELSE << >>
  IN  [rows |-> rows, text |-> to[Len(rows)]]

Header == <<<<A, NumSuffix>>, <<B, StrSuffix>>>>

(* A header alone; a full row, a short and a long one; a quote and a         *)
(* delimiter inside a field; a blank line; an empty last field; a row that   *)
(* is too wide.                                                              *)
MCRows ==
  {<<Header>>,
   <<Header, <<<<1>>, <<Q>>>>, <<<<2>>>>>>,
   <<Header, << >>, <<<<2, 1>>, <<D, 1>>, <<A>>>>>>,
   <<<<<<A, NumSuffix>>, <<A>>, <<B>>>>, <<<<1>>, <<2>>, << >>>>, <<<<2>>, <<A>>, <<1>>>>>>,
   <<Header, <<<<1>>, <<A, A, A, A, A>>>>, <<<<2>>, <<B>>>>>>}

MCDocuments ==
  {Document(rows, always, end, last) :
     rows \in MCRows, always \in BOOLEAN, end \in {<<LF>>, <<CR, LF>>}, last \in BOOLEAN}

Clause(join, col, op, isString, rhs) ==
  [join |-> join, col |-> col, op |-> op, isString |-> isString, rhs |-> rhs]

MCFilters ==
  {[wellFormed |-> TRUE, clauses |-> <<Clause("AND", <<A>>, "EQ", FALSE, <<2>>),
                                       Clause("OR", <<B>>, "GE", TRUE, <<Q>>),
                                       Clause("AND", <<A, NumSuffix>>, "LE", FALSE, <<1>>)>>],
   [wellFormed |-> FALSE, clauses |-> << >>]}

MCSelections == {{<<B>>, <<A, NumSuffix>>}}

============================================================================
