---------------------------- MODULE StreamProofs ----------------------------
(***************************************************************************)
(* What the two stream processors keep right for every input and every cut *)
(* of it into chunks.                                                      *)
(*                                                                         *)
(* The CSV stream processor: the filter in force, and the alignment of the *)
(* result columns, whatever allocation fails.                              *)
(*                                                                         *)
(* The LTV, TLV and Modbus stream parsers: the frames returned are those   *)
(* of the one-shot parser, what the builders wrote comes back, and what    *)
(* was handed out stays intact.                                            *)
(***************************************************************************)
EXTENDS CsvStream, FrameStreams, WellFoundedInduction, TLAPS

---------------------------------------------------------------------------
(* The CSV stream processor. *)

(* The outcome of a line for the filter: header, plan and error. *)
Settled(h, f, p, e) ==
  f # None /\ h # None => (Compiles(h, f) /\ p = Plan(h, f)) \/ e # "none"

LEMMA FilterSettled == FilterInForce <=> Settled(header, filter, plan, error)
BY DEF FilterInForce, Settled

LEMMA FilterSettledNext == FilterInForce' <=> Settled(header', filter', plan', error')
BY DEF FilterInForce, Settled, Compiles, Plan, Named

(* compile_filter_plan leaves either the plan of the filter or an error. *)
LEMMA CompileSettles ==
  ASSUME NEW cols, NEW f, CompileFor(cols, f)
  PROVE  Settled(cols, f, plan', error')
BY DEF CompileFor, Settled

(* A row changes neither header nor plan, and takes back no error. *)
LEMMA RowKeepsError ==
  ASSUME NEW l, ProcessRow(l)
  PROVE  UNCHANGED <<header, selected, plan>> /\ (error' = error \/ error' = "wide")
BY DEF ProcessRow, Store

LEMMA LineSettles ==
  ASSUME FilterInForce, NEW l, TakeLine(l), filter' = filter
  PROVE  FilterInForce'
<1>1. \/ UNCHANGED <<header, plan, error>>
      \/ \E t : ParseHeader(t)
      \/ \E t : ProcessRow(t)
  BY Zenon DEF TakeLine
<1>2. CASE UNCHANGED <<header, plan, error>>
  BY <1>2, FilterSettled, FilterSettledNext
<1>3. ASSUME NEW t, ParseHeader(t) PROVE FilterInForce'
  <2>1. \/ header' = Columns(t) /\ filter = None
        \/ header' = Columns(t) /\ CompileFor(Columns(t), filter)
        \/ error' = "memory"
    BY <1>3, Zenon DEF ParseHeader
  <2>2. CASE header' = Columns(t) /\ filter = None
    BY <2>2, FilterSettledNext DEF Settled
  <2>3. CASE header' = Columns(t) /\ CompileFor(Columns(t), filter)
    BY <2>3, CompileSettles, FilterSettledNext
  <2>4. CASE error' = "memory"
    BY <2>4, FilterSettledNext DEF Settled
  <2> QED
    BY <2>1, <2>2, <2>3, <2>4
<1>4. ASSUME NEW t, ProcessRow(t) PROVE FilterInForce'
  BY <1>4, RowKeepsError, FilterSettled, FilterSettledNext DEF Settled
<1> QED
  BY <1>1, <1>2, <1>3, <1>4

LEMMA NextSettles ==
  ASSUME FilterInForce, [Next]_vars
  PROVE  FilterInForce'
<1>1. ASSUME NEW f \in Filters, SetFilter(f) PROVE FilterInForce'
  <2>1. header' = header
    BY <1>1 DEF SetFilter
  <2>2. \/ header = None
        \/ filter' = f /\ CompileFor(header, f)
        \/ error' = "memory"
    BY <1>1, Zenon DEF SetFilter
  <2>3. CASE header = None
    BY <2>1, <2>3, FilterSettledNext DEF Settled
  <2>4. CASE filter' = f /\ CompileFor(header, f)
    BY <2>1, <2>4, CompileSettles, FilterSettledNext
  <2>5. CASE error' = "memory"
    BY <2>5, FilterSettledNext DEF Settled
  <2> QED
    BY <2>2, <2>3, <2>4, <2>5
<1>2. ASSUME NEW s \in Selections, SetColumns(s) PROVE FilterInForce'
  BY <1>2, FilterSettled, FilterSettledNext DEF SetColumns
<1>3. ASSUME NEW k \in Chunks, Feed(k) PROVE FilterInForce'
  <2>1. UNCHANGED <<header, filter, plan>> /\ (error' = error \/ error' = "memory")
    BY <1>3 DEF Feed, config
  <2> QED
    BY <2>1, FilterSettled, FilterSettledNext DEF Settled
<1>4. CASE FlushLine
  BY <1>4, LineSettles DEF FlushLine, config
<1>5. CASE FlushEnd
  BY <1>5, FilterSettled, FilterSettledNext DEF FlushEnd, config
<1>6. CASE Finish
  <2>1. filter' = filter /\ (UNCHANGED <<header, plan, error>> \/ TakeLine(line))
    BY <1>6 DEF Finish, config
  <2> QED
    BY <2>1, LineSettles, FilterSettled, FilterSettledNext
<1>7. CASE UNCHANGED vars
  BY <1>7, FilterSettled, FilterSettledNext DEF vars, config
<1> QED
  BY <1>1, <1>2, <1>3, <1>4, <1>5, <1>6, <1>7 DEF Next

(* Rows pass unfiltered only with an error on record: whenever the columns  *)
(* are known, the filter asked for last is compiled and in force, or        *)
(* csv_stream_processor_error has something to say.                     *)
THEOREM FilterStaysInForce == Spec => []FilterInForce
<1>1. Init => FilterInForce
  BY DEF Init, FilterInForce
<1>2. FilterInForce /\ [Next]_vars => FilterInForce'
  BY NextSettles
<1> QED
  BY <1>1, <1>2, PTL DEF Spec

---------------------------------------------------------------------------
(* The result columns.                                                     *)

IsSeq(s) == \E X : s \in Seq(X)

LEMMA AppendOne ==
  ASSUME NEW s, IsSeq(s), NEW e
  PROVE  IsSeq(Append(s, e)) /\ Len(s) \in Nat /\ Len(Append(s, e)) = Len(s) + 1
<1>1. PICK X : s \in Seq(X)
  BY DEF IsSeq
<1> DEFINE Y == X \cup {e}
<1>2. s \in Seq(Y) /\ e \in Y
  BY <1>1
<1> HIDE DEF Y
<1>3. Append(s, e) \in Seq(Y) /\ Len(s) \in Nat /\ Len(Append(s, e)) = Len(s) + 1
  BY <1>2
<1> QED
  BY <1>3 DEF IsSeq

LEMMA EmptyIsSeq == IsSeq(<< >>) /\ Len(<< >>) = 0
<1>1. << >> \in Seq({})
  OBVIOUS
<1> QED
  BY <1>1 DEF IsSeq

(* Every selected number column has one value for each row that matched,   *)
(* the string store one record if a string column is selected; the others  *)
(* stay empty (num_vecs and str_store against match_count).                *)
Aligned ==
  failures = 0 =>
    /\ \A c \in DOMAIN nums :
         Len(nums[c]) = IF c \in Selected("NUMBER") THEN matches ELSE 0
    /\ Len(strs) = IF Selected("STRING") # {} THEN matches ELSE 0

(* Until the header is known no row has been stored. *)
Stores ==
  /\ failures \in Nat /\ matches \in Nat
  /\ failures = 0 =>
       /\ \A c \in DOMAIN nums : IsSeq(nums[c])
       /\ IsSeq(strs)
       /\ header = None => matches = 0 /\ strs = << >>

LEMMA ResultsUntouched ==
  ASSUME Aligned, Stores, UNCHANGED <<header, selected, nums, strs, matches>>,
         failures' = failures \/ failures' = failures + 1
  PROVE  Aligned' /\ Stores'
<1>1. failures' \in Nat /\ (failures' = 0 => failures = 0)
  BY DEF Stores
<1>2. Selected("NUMBER")' = Selected("NUMBER") /\ Selected("STRING")' = Selected("STRING")
  BY DEF Selected
<1>3. Aligned'
  BY <1>1, <1>2 DEF Aligned
<1>4. Stores'
  BY <1>1 DEF Stores
<1> QED
  BY <1>3, <1>4

LEMMA CompileCounts ==
  ASSUME NEW cols, NEW f, CompileFor(cols, f)
  PROVE  failures' = failures \/ failures' = failures + 1
BY DEF CompileFor, Fail

LEMMA HeaderAligned ==
  ASSUME Aligned, Stores, NEW l, ParseHeader(l)
  PROVE  Aligned' /\ Stores'
<1>1. UNCHANGED <<strs, matches>> /\ header = None
  BY DEF ParseHeader
<1>2. \/ /\ nums' = [i \in DOMAIN Columns(l) |-> << >>]
         /\ failures' = failures \/ \E f : CompileFor(Columns(l), f)
      \/ UNCHANGED <<header, selected, nums>> /\ failures' = failures + 1
  BY Zenon DEF ParseHeader, Fail
<1>3. CASE UNCHANGED <<header, selected, nums>> /\ failures' = failures + 1
  BY <1>1, <1>3, ResultsUntouched
<1>4. CASE /\ nums' = [i \in DOMAIN Columns(l) |-> << >>]
           /\ failures' = failures \/ \E f : CompileFor(Columns(l), f)
  <2>1. failures' = failures \/ failures' = failures + 1
    BY <1>4, CompileCounts
  <2>2. failures' \in Nat /\ (failures' = 0 => failures = 0)
    BY <2>1 DEF Stores
  <2>3. \A c \in DOMAIN nums' : nums'[c] = << >>
    BY <1>4
  <2>4. failures' = 0 => matches' = 0 /\ strs' = << >>
    BY <1>1, <2>2 DEF Stores
  <2>5. Aligned'
    BY <2>3, <2>4, EmptyIsSeq DEF Aligned
  <2>6. Stores'
    BY <1>1, <2>2, <2>3, <2>4, EmptyIsSeq DEF Stores
  <2> QED
    BY <2>5, <2>6
<1> QED
  BY <1>2, <1>3, <1>4

LEMMA RowAligned ==
  ASSUME Aligned, Stores, NEW l, ProcessRow(l)
  PROVE  Aligned' /\ Stores'
<1>1. UNCHANGED <<header, selected>> /\ header # None
  BY DEF ProcessRow
<1>2. \/ UNCHANGED <<nums, strs, matches, failures>>
      \/ Store(Fields(Split(l)), {}, TRUE) /\ UNCHANGED failures
      \/ failures' = failures + 1 /\ matches' = matches + 1
  BY DEF ProcessRow, Fail, Store, results
<1>3. CASE UNCHANGED <<nums, strs, matches, failures>>
  BY <1>1, <1>3, ResultsUntouched
<1>4. CASE failures' = failures + 1 /\ matches' = matches + 1
  BY <1>4 DEF Stores, Aligned
<1>5. CASE Store(Fields(Split(l)), {}, TRUE) /\ UNCHANGED failures
  <2> DEFINE fields == Fields(Split(l))
             N == Selected("NUMBER")
             S == Selected("STRING")
             row == [i \in S |-> IF i \in {} THEN None ELSE fields[i]]
  <2>1. Selected("NUMBER")' = N /\ Selected("STRING")' = S
    BY <1>1 DEF Selected
  <2>2. /\ nums' = [i \in DOMAIN nums |->
                      IF i \in N \ {} THEN Append(nums[i], Number(fields[i])) ELSE nums[i]]
        /\ strs' = IF S # {} THEN Append(strs, row) ELSE strs
        /\ matches' = matches + 1
    BY <1>5, Zenon DEF Store
  <2> HIDE DEF fields, N, S, row
  <2>3. failures' = failures /\ matches' \in Nat /\ failures' \in Nat /\ matches \in Nat
    BY <1>5, <2>2 DEF Stores
  <2>4. ASSUME failures = 0, NEW c \in DOMAIN nums
        PROVE  IsSeq(nums'[c]) /\ Len(nums'[c]) = IF c \in N THEN matches' ELSE 0
    <3>1. IsSeq(nums[c]) /\ Len(nums[c]) = IF c \in N THEN matches ELSE 0
      BY <2>4 DEF Stores, Aligned, N
    <3>2. CASE c \in N
      BY <2>2, <2>3, <3>1, <3>2, AppendOne
    <3>3. CASE c \notin N
      BY <2>2, <3>1, <3>3
    <3> QED
      BY <3>2, <3>3
  <2>5. ASSUME failures = 0
        PROVE  IsSeq(strs') /\ Len(strs') = IF S # {} THEN matches' ELSE 0
    <3>1. IsSeq(strs) /\ Len(strs) = IF S # {} THEN matches ELSE 0
      BY <2>5 DEF Stores, Aligned, S
    <3>2. CASE S # {}
      BY <2>2, <2>3, <3>1, <3>2, AppendOne
    <3>3. CASE S = {}
      BY <2>2, <3>1, <3>3
    <3> QED
      BY <3>2, <3>3
  <2>6. DOMAIN nums' = DOMAIN nums
    BY <2>2
  <2>7. Aligned'
    BY <2>1, <2>3, <2>4, <2>5, <2>6 DEF Aligned
  <2>8. Stores'
    BY <1>1, <2>3, <2>4, <2>5, <2>6 DEF Stores
  <2> QED
    BY <2>7, <2>8
<1> QED
  BY <1>2, <1>3, <1>4, <1>5

LEMMA LineAligned ==
  ASSUME Aligned, Stores, NEW l, TakeLine(l)
  PROVE  Aligned' /\ Stores'
<1>1. \/ UNCHANGED <<header, selected, results, failures>>
      \/ \E t : ParseHeader(t)
      \/ \E t : ProcessRow(t)
  BY Zenon DEF TakeLine
<1>2. CASE UNCHANGED <<header, selected, results, failures>>
  BY <1>2, ResultsUntouched DEF results
<1> QED
  BY <1>1, <1>2, HeaderAligned, RowAligned

LEMMA NextAligned ==
  ASSUME Aligned, Stores, [Next]_vars
  PROVE  Aligned' /\ Stores'
<1>1. ASSUME NEW f \in Filters, SetFilter(f) PROVE Aligned' /\ Stores'
  <2>1. UNCHANGED <<header, selected, nums, strs, matches>>
    BY <1>1 DEF SetFilter, results
  <2>2. failures' = failures \/ failures' = failures + 1
    BY <1>1, CompileCounts DEF SetFilter, Fail
  <2> QED
    BY <2>1, <2>2, ResultsUntouched
<1>2. ASSUME NEW s \in Selections, SetColumns(s) PROVE Aligned' /\ Stores'
  BY <1>2, ResultsUntouched DEF SetColumns, Fail, results
<1>3. ASSUME NEW k \in Chunks, Feed(k) PROVE Aligned' /\ Stores'
  <2>1. UNCHANGED <<header, selected, nums, strs, matches>>
        /\ (failures' = failures \/ failures' = failures + 1)
    BY <1>3 DEF Feed, Fail, results
  <2> QED
    BY <2>1, ResultsUntouched
<1>4. CASE FlushLine
  BY <1>4, LineAligned DEF FlushLine
<1>5. CASE FlushEnd
  BY <1>5, ResultsUntouched DEF FlushEnd, results
<1>6. CASE Finish
  <2>1. UNCHANGED <<header, selected, nums, strs, matches, failures>> \/ TakeLine(line)
    BY <1>6 DEF Finish, results
  <2> QED
    BY <2>1, LineAligned, ResultsUntouched
<1>7. CASE UNCHANGED vars
  BY <1>7, ResultsUntouched DEF vars, results
<1> QED
  BY <1>1, <1>2, <1>3, <1>4, <1>5, <1>6, <1>7 DEF Next

(* As long as no allocation fails, process_row keeps its columns aligned:   *)
(* each selected number column has a value and the string store a record    *)
(* for every row counted, whenever header, selection and filter arrived.    *)
THEOREM ColumnsStayAligned == Spec => []Aligned
<1>1. Init => Aligned /\ Stores
  BY EmptyIsSeq DEF Init, Aligned, Stores, Selected
<1>2. Aligned /\ Stores /\ [Next]_vars => (Aligned /\ Stores)'
  BY NextAligned
<1> QED
  BY <1>1, <1>2, PTL DEF Spec

---------------------------------------------------------------------------
(* The frame parsers. *)

LEMMA Least ==
  ASSUME NEW T, T \subseteq Nat, T # {}
  PROVE  \E x \in T : \A y \in T : x <= y
<1> DEFINE R == OpToRel(<, Nat)
<1>1. IsWellFoundedOn(R, Nat)
  BY NatLessThanWellFounded
<1>2. PICK x \in T : \A y \in T : ~(<<y, x>> \in R)
  <2> HIDE DEF R
  <2> QED
    BY <1>1, WFMin
<1>3. \A y \in T : x <= y
  <2> TAKE y \in T
  <2>1. x \in Nat /\ y \in Nat
    OBVIOUS
  <2>2. ~(y < x)
    BY <1>2, <2>1 DEF OpToRel
  <2> QED
    BY <2>1, <2>2
<1> QED
  BY <1>3

(* A recursion that ends at the arguments in stop, with the value base,    *)
(* and elsewhere applies step to the value at a smaller argument, prev.    *)
Scheme(a, b, V, stop, base, prev, step) ==
  /\ a \in Nat /\ b \in Nat /\ a <= b
  /\ \A n \in a..b : n \in stop => base[n] \in V
  /\ \A n \in a..b : n \notin stop => prev[n] \in a..b /\ prev[n] < n
  /\ \A n \in a..b : n \notin stop => \A v \in V : step[n][v] \in V

Solves(f, a, b, stop, base, prev, step) ==
  \A n \in a..b : f[n] = IF n \in stop THEN base[n] ELSE step[n][f[prev[n]]]

LEMMA SolutionExists ==
  ASSUME NEW a, NEW b, NEW V, NEW stop, NEW base, NEW prev, NEW step,
         Scheme(a, b, V, stop, base, prev, step)
  PROVE  \E f \in [a..b -> V] : Solves(f, a, b, stop, base, prev, step)
<1> DEFINE Up(n) == \E f : /\ \A k \in a..n : f[k] \in V
                           /\ Solves(f, a, n, stop, base, prev, step)
           T == {n \in a..b : ~Up(n)}
<1>0. a \in Nat /\ b \in Nat /\ a <= b
  BY DEF Scheme
<1>1. T = {}
  <2> SUFFICES ASSUME T # {} PROVE FALSE
    OBVIOUS
  <2>1. PICK n \in T : \A y \in T : n <= y
    <3>1. T \subseteq Nat
      BY <1>0
    <3> HIDE DEF T
    <3> QED
      BY <3>1, Least
  <2>2. n \in a..b /\ ~Up(n)
    OBVIOUS
  <2>3. \E f : /\ \A k \in a..n - 1 : f[k] \in V
               /\ Solves(f, a, n - 1, stop, base, prev, step)
    <3>1. CASE n = a
      <4>1. a..n - 1 = {}
        BY <3>1, <1>0
      <4> QED
        BY <4>1 DEF Solves
    <3>2. CASE n # a
      <4>1. n - 1 \in a..b /\ n - 1 \notin T
        BY <1>0, <2>1, <2>2, <3>2
      <4> QED
        BY <4>1
    <3> QED
      BY <3>1, <3>2
  <2>4. PICK f : /\ \A k \in a..n - 1 : f[k] \in V
                 /\ Solves(f, a, n - 1, stop, base, prev, step)
    BY <2>3
  <2>5. PICK v : v = IF n \in stop THEN base[n] ELSE step[n][f[prev[n]]]
    OBVIOUS
  <2>6. v \in V
    <3>1. CASE n \in stop
      BY <2>2, <2>5, <3>1 DEF Scheme
    <3>2. CASE n \notin stop
      <4>1. prev[n] \in a..n - 1
        BY <1>0, <2>2, <3>2 DEF Scheme
      <4>2. f[prev[n]] \in V
        BY <2>4, <4>1
      <4> QED
        BY <2>2, <2>5, <3>2, <4>2 DEF Scheme
    <3> QED
      BY <3>1, <3>2
  <2> DEFINE g == [k \in a..n |-> IF k < n THEN f[k] ELSE v]
  <2>7. \A k \in a..n - 1 : g[k] = f[k]
    BY <1>0, <2>2
  <2>8. g[n] = v
    BY <1>0, <2>2
  <2> HIDE DEF g
  <2>9. \A k \in a..n : g[k] \in V
    BY <1>0, <2>2, <2>4, <2>6, <2>7, <2>8
  <2>10. Solves(g, a, n, stop, base, prev, step)
    <3> SUFFICES ASSUME NEW k \in a..n
                 PROVE  g[k] = IF k \in stop THEN base[k] ELSE step[k][g[prev[k]]]
      BY DEF Solves
    <3>0. k \in a..b
      BY <1>0, <2>2
    <3>1. k \notin stop => prev[k] \in a..n - 1 /\ g[prev[k]] = f[prev[k]]
      <4>1. k \notin stop => prev[k] \in a..n - 1
        BY <1>0, <2>2, <3>0 DEF Scheme
      <4> QED
        BY <4>1, <2>7
    <3>2. CASE k = n
      BY <3>1, <3>2, <2>5, <2>8
    <3>3. CASE k # n
      <4>1. k \in a..n - 1
        BY <3>3, <1>0, <2>2
      <4>2. f[k] = IF k \in stop THEN base[k] ELSE step[k][f[prev[k]]]
        BY <4>1, <2>4 DEF Solves
      <4> QED
        BY <4>1, <4>2, <3>1, <2>7
    <3> QED
      BY <3>2, <3>3
  <2> QED
    BY <2>2, <2>9, <2>10
<1>2. Up(b)
  <2>1. b \in a..b /\ b \notin T
    BY <1>0, <1>1
  <2> QED
    BY <2>1
<1>3. PICK f : /\ \A k \in a..b : f[k] \in V
               /\ Solves(f, a, b, stop, base, prev, step)
  BY <1>2
<1> DEFINE h == [k \in a..b |-> f[k]]
<1>4. h \in [a..b -> V] /\ \A k \in a..b : h[k] = f[k]
  BY <1>3
<1> HIDE DEF h
<1>5. Solves(h, a, b, stop, base, prev, step)
  <2>1. \A n \in a..b : n \notin stop => prev[n] \in a..b
    BY DEF Scheme
  <2>2. \A n \in a..b : f[n] = IF n \in stop THEN base[n] ELSE step[n][f[prev[n]]]
    BY <1>3 DEF Solves
  <2> QED
    BY <1>4, <2>1, <2>2 DEF Solves
<1> QED
  BY <1>4, <1>5

LEMMA SolutionUnique ==
  ASSUME NEW a, NEW b, NEW V, NEW stop, NEW base, NEW prev, NEW step,
         Scheme(a, b, V, stop, base, prev, step),
         NEW f, Solves(f, a, b, stop, base, prev, step),
         NEW g, Solves(g, a, b, stop, base, prev, step)
  PROVE  \A n \in a..b : f[n] = g[n]
<1> DEFINE T == {n \in a..b : f[n] # g[n]}
<1>0. a \in Nat /\ b \in Nat /\ a <= b
  BY DEF Scheme
<1> SUFFICES ASSUME T # {} PROVE FALSE
  OBVIOUS
<1>1. PICK n \in T : \A y \in T : n <= y
  <2>1. T \subseteq Nat
    BY <1>0
  <2> HIDE DEF T
  <2> QED
    BY <2>1, Least
<1>2. CASE n \in stop
  BY <1>1, <1>2 DEF Solves
<1>3. CASE n \notin stop
  <2>1. prev[n] \in a..b /\ prev[n] < n
    BY <1>3 DEF Scheme
  <2>2. prev[n] \notin T
    BY <1>0, <1>1, <2>1
  <2>3. f[prev[n]] = g[prev[n]]
    BY <2>1, <2>2
  <2> QED
    BY <1>3, <2>3 DEF Solves
<1> QED
  BY <1>2, <1>3

LEMMA Least2 ==
  ASSUME NEW S, S \subseteq Nat, S # {}
  PROVE  Min(S) \in S /\ \A y \in S : Min(S) <= y
<1>1. \E x \in S : \A y \in S : x <= y
  BY Least
<1> QED
  BY <1>1 DEF Min

LEMMA BaseNat == Base \in Nat /\ Base > 1
BY FrameAssumption

LEMMA Digit == ASSUME NEW x \in Nat PROVE x % Base \in Nat /\ x % Base < Base
BY BaseNat

LEMMA Times == ASSUME NEW x \in Nat, NEW y \in Nat PROVE x * y \in Nat
OBVIOUS

(* What the recursion in Digits computes. *)
DigitsOf(s, f) ==
  f = [n \in 0..Len(s) |-> IF n = 0 THEN 0 ELSE (s[Len(s) - n + 1] % Base) + Base * f[n - 1]]

LEMMA DigitsChoice ==
  ASSUME NEW s
  PROVE  Digits(s) = (CHOOSE f : DigitsOf(s, f))[Len(s)]
BY Zenon DEF Digits, DigitsOf

LEMMA DigitsExists ==
  ASSUME NEW s \in Seq(Nat)
  PROVE  \E f \in [0..Len(s) -> Nat] : DigitsOf(s, f)
<1> DEFINE a == 0  b == Len(s)  stop == {0}
           base == [n \in 0..Len(s) |-> 0]
           prev == [n \in 0..Len(s) |-> n - 1]
           step == [n \in 0..Len(s) |-> [v \in Nat |-> (s[Len(s) - n + 1] % Base) + Base * v]]
<1>0. \A n \in 1..Len(s) : s[Len(s) - n + 1] \in Nat
  OBVIOUS
<1>1. \A n \in 1..Len(s) : s[Len(s) - n + 1] % Base \in Nat
  BY <1>0, Digit
<1>2. \A n \in 1..Len(s) : \A v \in Nat :
        /\ step[n][v] = (s[Len(s) - n + 1] % Base) + Base * v
        /\ step[n][v] \in Nat
  <2> TAKE n \in 1..Len(s)
  <2> TAKE v \in Nat
  <2>1. PICK x \in Nat : x = s[Len(s) - n + 1] % Base
    BY <1>1
  <2>2. step[n][v] = (s[Len(s) - n + 1] % Base) + Base * v
    OBVIOUS
  <2>3. PICK y \in Nat : y = Base * v
    BY BaseNat, Times
  <2>4. step[n][v] = x + y
    BY <2>1, <2>2, <2>3
  <2> QED
    BY <2>2, <2>4
<1>3. \A n \in 1..Len(s) : prev[n] = n - 1
  OBVIOUS
<1>4. \A n \in 0..Len(s) : base[n] = 0
  OBVIOUS
<1>5. Len(s) \in Nat
  OBVIOUS
<1> HIDE DEF base, prev, step
<1>6. Scheme(0, Len(s), Nat, {0}, base, prev, step)
  BY <1>2, <1>3, <1>4, <1>5 DEF Scheme
<1>7. PICK f \in [0..Len(s) -> Nat] : Solves(f, 0, Len(s), {0}, base, prev, step)
  BY <1>6, SolutionExists
<1>8. \A n \in 0..Len(s) : f[n] = IF n = 0 THEN 0 ELSE (s[Len(s) - n + 1] % Base) + Base * f[n - 1]
  <2> TAKE n \in 0..Len(s)
  <2>1. CASE n = 0
    BY <2>1, <1>4, <1>7 DEF Solves
  <2>2. CASE n # 0
    <3>1. n \in 1..Len(s) /\ n - 1 \in 0..Len(s) /\ n \notin {0}
      BY <2>2, <1>5
    <3>2. f[n] = step[n][f[prev[n]]]
      BY <3>1, <1>7 DEF Solves
    <3> QED
      BY <3>1, <3>2, <1>2, <1>3
  <2> QED
    BY <2>1, <2>2
<1>9. f = [n \in 0..Len(s) |-> f[n]]
  OBVIOUS
<1>10. DigitsOf(s, f)
  BY <1>8, <1>9, Zenon DEF DigitsOf
<1> QED
  BY <1>10

LEMMA DigitsSame ==
  ASSUME NEW s \in Seq(Nat), NEW f, DigitsOf(s, f), NEW e, DigitsOf(s, e)
  PROVE  \A n \in 0..Len(s) : f[n] = e[n]
<1> DEFINE T == {n \in 0..Len(s) : f[n] # e[n]}
<1> SUFFICES ASSUME T # {} PROVE FALSE
  OBVIOUS
<1>1. PICK n \in T : \A y \in T : n <= y
  <2>1. T \subseteq Nat
    OBVIOUS
  <2> HIDE DEF T
  <2> QED
    BY <2>1, Least
<1>2. n # 0
  BY DEF DigitsOf
<1>3. n - 1 \in 0..Len(s) /\ n - 1 \notin T
  BY <1>1, <1>2
<1>4. f[n - 1] = e[n - 1]
  BY <1>3
<1> QED
  BY <1>4 DEF DigitsOf

(* The value of a varint is that of its last bytes, and a digit more. *)
LEMMA DigitsSolved ==
  ASSUME NEW s \in Seq(Nat), NEW f, DigitsOf(s, f)
  PROVE  Digits(s) = f[Len(s)]
<1>1. Len(s) \in 0..Len(s)
  OBVIOUS
<1>2. PICK c : DigitsOf(s, c) /\ Digits(s) = c[Len(s)]
  BY DigitsExists, DigitsChoice
<1> QED
  BY <1>1, <1>2, DigitsSame

LEMMA DigitsNat ==
  ASSUME NEW s \in Seq(Nat)
  PROVE  Digits(s) \in Nat
<1>1. PICK f \in [0..Len(s) -> Nat] : DigitsOf(s, f)
  BY DigitsExists
<1>2. f[Len(s)] \in Nat
  OBVIOUS
<1> QED
  BY <1>1, <1>2, DigitsSolved

---------------------------------------------------------------------------
(* A varint is recognised by its own bytes. *)

Ends(d) == SelectInSubSeq(d, 1, Min({Len(d), MaxVarint}), LAMBDA b : b < Base)

LEMMA EndsAt ==
  ASSUME NEW d \in Seq(Nat)
  PROVE  /\ Ends(d) \in 0..Len(d) /\ Ends(d) <= MaxVarint
         /\ Ends(d) # 0 => d[Ends(d)] < Base /\ \A i \in 1..Ends(d) - 1 : d[i] >= Base
         /\ Ends(d) = 0 => \A i \in 1..Len(d) : i <= MaxVarint => d[i] >= Base
<1>0. MaxVarint \in Nat /\ Len(d) \in Nat /\ Base \in Nat
  BY FrameAssumption, BaseNat
<1>1. PICK m : m = Min({Len(d), MaxVarint})
  OBVIOUS
<1>2. m \in {Len(d), MaxVarint} /\ m <= Len(d) /\ m <= MaxVarint
  BY <1>0, <1>1, Least2
<1> DEFINE S == {i \in 1..m : d[i] < Base}
<1>3. Ends(d) = IF S # {} THEN Min(S) ELSE 0
  BY <1>1 DEF Ends, SelectInSubSeq
<1>4. S \subseteq Nat /\ m \in Nat
  BY <1>0, <1>2
<1>5. CASE S # {}
  <2>1. Min(S) \in S /\ \A y \in S : Min(S) <= y
    BY <1>4, <1>5, Least2
  <2>2. PICK n : n = Min(S)
    OBVIOUS
  <2>3. n \in S /\ (\A y \in S : n <= y) /\ Ends(d) = n
    BY <1>3, <1>5, <2>1, <2>2
  <2>4. n \in 1..m /\ d[n] < Base
    BY <2>3
  <2>5. \A i \in 1..n - 1 : d[i] >= Base
    <3> TAKE i \in 1..n - 1
    <3>1. i \in 1..m /\ i < n
      BY <1>4, <2>4
    <3>2. i \notin S
      BY <1>4, <2>3, <2>4, <3>1
    <3>3. d[i] \in Nat
      BY <1>0, <1>2, <3>1
    <3> QED
      BY <1>0, <3>1, <3>2, <3>3
  <2> QED
    BY <1>0, <1>2, <2>3, <2>4, <2>5
<1>6. CASE S = {}
  <2>1. Ends(d) = 0
    BY <1>3, <1>6
  <2>2. \A i \in 1..Len(d) : i <= MaxVarint => d[i] >= Base
    <3> SUFFICES ASSUME NEW i \in 1..Len(d), i <= MaxVarint PROVE d[i] >= Base
      OBVIOUS
    <3>1. i \in 1..m /\ d[i] \in Nat
      BY <1>0, <1>2
    <3> QED
      BY <1>0, <1>6, <3>1
  <2> QED
    BY <1>0, <2>1, <2>2
<1> QED
  BY <1>5, <1>6

LEMMA DecodeByEnd ==
  ASSUME NEW d
  PROVE  DecodeVarint(d) = IF Ends(d) # 0 THEN Varint(SubSeq(d, 1, Ends(d)))
                           ELSE NoVarint(IF Len(d) >= MaxVarint THEN -1 ELSE 0)
BY Zenon DEF DecodeVarint, Ends

LEMMA VarintTypes ==
  ASSUME NEW s \in Seq(Nat), s # << >>
  PROVE  \/ Varint(s) = [size |-> -1, value |-> 0]
         \/ Varint(s) = [size |-> Len(s), value |-> Digits(s)]
BY DEF Varint, NoVarint

(* A varint that decodes is decided by its own bytes. *)
LEMMA EndsStable ==
  ASSUME NEW d \in Seq(Nat), NEW e \in Seq(Nat), Ends(d) # 0,
         Ends(d) <= Len(e), \A i \in 1..Ends(d) : e[i] = d[i]
  PROVE  Ends(e) = Ends(d) /\ DecodeVarint(e) = DecodeVarint(d)
<1>1. PICK n : n = Ends(d)
  OBVIOUS
<1>2. n \in 1..Len(d) /\ n <= MaxVarint /\ d[n] < Base /\ \A i \in 1..n - 1 : d[i] >= Base
  BY <1>1, EndsAt
<1>3. n \in 1..Len(e) /\ e[n] < Base /\ \A i \in 1..n - 1 : e[i] >= Base
  <2>1. \A i \in 1..n : e[i] = d[i]
    BY <1>1
  <2>2. n <= Len(e) /\ n \in 1..n /\ \A i \in 1..n - 1 : i \in 1..n
    BY <1>1, <1>2
  <2>3. n \in 1..Len(e)
    BY <1>2, <2>2
  <2>4. e[n] < Base
    BY <1>2, <2>1, <2>2, Zenon
  <2>5. \A i \in 1..n - 1 : e[i] >= Base
    BY <1>2, <2>1, <2>2, Zenon
  <2> QED
    BY <2>3, <2>4, <2>5
<1>4. PICK k : k = Ends(e)
  OBVIOUS
<1>5. /\ k \in 0..Len(e) /\ k <= MaxVarint
      /\ k # 0 => e[k] < Base /\ \A i \in 1..k - 1 : e[i] >= Base
      /\ k = 0 => \A i \in 1..Len(e) : i <= MaxVarint => e[i] >= Base
  BY <1>4, EndsAt
<1>6. Base \in Nat /\ \A i \in 1..Len(e) : e[i] \in Nat
  BY BaseNat
<1>7. k # 0
  BY <1>2, <1>3, <1>5, <1>6
<1>8. ~(k < n)
  <2> SUFFICES ASSUME k < n PROVE FALSE
    OBVIOUS
  <2>1. k \in 1..n - 1 /\ k \in 1..Len(e)
    BY <1>2, <1>5, <1>7
  <2> QED
    BY <2>1, <1>3, <1>5, <1>6, <1>7
<1>9. ~(n < k)
  <2> SUFFICES ASSUME n < k PROVE FALSE
    OBVIOUS
  <2>1. n \in 1..k - 1 /\ n \in 1..Len(e)
    BY <1>2, <1>3, <1>5
  <2> QED
    BY <2>1, <1>3, <1>5, <1>6, <1>7
<1>10. k = n
  BY <1>2, <1>5, <1>8, <1>9
<1>11. SubSeq(e, 1, n) = SubSeq(d, 1, n)
  BY <1>1, <1>2, <1>3
<1> QED
  BY <1>1, <1>2, <1>4, <1>10, <1>11, DecodeByEnd

LEMMA DecodeTypes ==
  ASSUME NEW d \in Seq(Nat)
  PROVE  \/ DecodeVarint(d) = [size |-> Ends(d), value |-> Digits(SubSeq(d, 1, Ends(d)))]
              /\ Ends(d) \in 1..Len(d) /\ DecodeVarint(d).value \in Nat
              /\ DecodeVarint(d).size = Ends(d)
         \/ DecodeVarint(d) = [size |-> -1, value |-> 0]
         \/ DecodeVarint(d) = [size |-> 0, value |-> 0]
<1>1. PICK n : n = Ends(d)
  OBVIOUS
<1>2. n \in 0..Len(d)
  BY <1>1, EndsAt
<1>3. CASE n = 0
  BY <1>1, <1>3, DecodeByEnd DEF NoVarint
<1>4. CASE n # 0
  <2>1. SubSeq(d, 1, n) \in Seq(Nat) /\ Len(SubSeq(d, 1, n)) = n /\ SubSeq(d, 1, n) # << >>
    BY <1>2, <1>4
  <2>2. DecodeVarint(d) = Varint(SubSeq(d, 1, n))
    BY <1>1, <1>4, DecodeByEnd
  <2>3. Digits(SubSeq(d, 1, n)) \in Nat
    BY <2>1, DigitsNat
  <2>4. CASE DecodeVarint(d) = [size |-> -1, value |-> 0]
    BY <2>4
  <2>5. CASE DecodeVarint(d) = [size |-> n, value |-> Digits(SubSeq(d, 1, n))]
    BY <1>1, <1>2, <1>4, <2>3, <2>5
  <2>6. \/ DecodeVarint(d) = [size |-> -1, value |-> 0]
        \/ DecodeVarint(d) = [size |-> n, value |-> Digits(SubSeq(d, 1, n))]
    BY <2>1, <2>2, VarintTypes
  <2> QED
    BY <2>4, <2>5, <2>6
<1> QED
  BY <1>3, <1>4

---------------------------------------------------------------------------
(* What a peek answers. *)

IsPeek(m) ==
  \/ m.code # "OK" /\ m.total = 0
  \/ /\ m.code = "OK" /\ m.total \in Nat \ {0} /\ m.off \in 1..m.total + 1 /\ m.size \in Nat
     /\ m.off + m.size - 1 <= m.total

Streams == {"LTV", "TLV", "TCP"}

LEMMA LtvPeekIs ==
  ASSUME NEW d \in Seq(Nat)
  PROVE  /\ IsPeek(LtvPeek(d))
         /\ LtvPeek(d).code = "OK" =>
              /\ Ends(d) # 0 /\ Ends(d) <= LtvPeek(d).total
              /\ LtvPeek(d).off = Ends(d) + 2
              /\ LtvPeek(d).size = Digits(SubSeq(d, 1, Ends(d))) - 1
              /\ LtvPeek(d).total = Ends(d) + Digits(SubSeq(d, 1, Ends(d)))
              /\ DecodeVarint(d).size = Ends(d)
<1>0. MaxPayload \in Nat
  BY FrameAssumption
<1>1. PICK v : v = DecodeVarint(d)
  OBVIOUS
<1>2. LtvPeek(d) = LtvSize(v)
  BY <1>1 DEF LtvPeek
<1>3. CASE v.size = 0
  BY <1>2, <1>3 DEF LtvSize, No, IsPeek
<1>4. CASE v.size = -1
  BY <1>2, <1>4 DEF LtvSize, No, IsPeek
<1>5. CASE v = [size |-> Ends(d), value |-> Digits(SubSeq(d, 1, Ends(d)))]
            /\ Ends(d) \in 1..Len(d) /\ DecodeVarint(d).value \in Nat
            /\ DecodeVarint(d).size = Ends(d)
  <2>1. PICK n \in 1..Len(d), x \in Nat : n = Ends(d) /\ x = Digits(SubSeq(d, 1, Ends(d)))
    BY <1>1, <1>5
  <2>2. v.size = n /\ v.value = x
    BY <1>5, <2>1
  <2>3. CASE x = 0
    BY <1>2, <2>2, <2>3 DEF LtvSize, No, IsPeek
  <2>4. CASE x > MaxPayload + 1
    BY <1>0, <1>2, <2>2, <2>4 DEF LtvSize, No, IsPeek
  <2>5. CASE x # 0 /\ ~(x > MaxPayload + 1)
    <3>1. LtvPeek(d) = Yes(n + x, n + 2, x - 1)
      BY <1>0, <1>2, <2>2, <2>5 DEF LtvSize
    <3>2. /\ LtvPeek(d).code = "OK" /\ LtvPeek(d).total = n + x
          /\ LtvPeek(d).off = n + 2 /\ LtvPeek(d).size = x - 1
      BY <3>1 DEF Yes
    <3>3. IsPeek(LtvPeek(d))
      BY <3>2, <2>5 DEF IsPeek
    <3> QED
      BY <3>2, <3>3, <2>1, <1>5
  <2> QED
    BY <2>3, <2>4, <2>5
<1> QED
  BY <1>1, <1>3, <1>4, <1>5, DecodeTypes

LEMMA TlvPeekIs ==
  ASSUME NEW d \in Seq(Nat)
  PROVE  /\ IsPeek(TlvPeek(d))
         /\ TlvPeek(d).code = "OK" =>
              Len(d) >= 2 /\ d[1] = FrameHead /\ d[2] \in Nat /\ d[2] <= MaxPayload
              /\ TlvPeek(d) = Yes(4 + d[2], 3, d[2])
<1>0. MaxPayload \in Nat
  BY FrameAssumption
<1>1. CASE Len(d) < 2
  BY <1>1 DEF TlvPeek, TlvHeader, No, IsPeek
<1>2. CASE Len(d) >= 2
  <2>1. PICK x \in Nat : x = d[2]
    BY <1>2
  <2>2. CASE d[1] # FrameHead
    BY <1>2, <2>2 DEF TlvPeek, TlvHeader, No, IsPeek
  <2>3. CASE d[1] = FrameHead /\ x > MaxPayload
    BY <1>2, <2>1, <2>3 DEF TlvPeek, TlvHeader, No, IsPeek
  <2>4. CASE d[1] = FrameHead /\ ~(x > MaxPayload)
    <3>1. TlvPeek(d) = Yes(4 + x, 3, x)
      BY <1>2, <2>1, <2>4 DEF TlvPeek, TlvHeader, TlvMin
    <3>2. IsPeek(Yes(4 + x, 3, x))
      BY <2>4 DEF Yes, IsPeek
    <3> QED
      BY <1>0, <1>2, <2>1, <2>4, <3>1, <3>2
  <2> QED
    BY <2>2, <2>3, <2>4
<1> QED
  BY <1>1, <1>2

LEMMA TcpPeekIs ==
  ASSUME NEW d \in Seq(Nat)
  PROVE  /\ IsPeek(TcpPeek(d))
         /\ TcpPeek(d).code = "OK" =>
              Len(d) >= 4 /\ d[2] = 0 /\ d[3] \in Nat /\ d[3] >= 2 /\ d[3] <= MaxPdu + 1
              /\ TcpPeek(d) = Yes(3 + d[3], 6, d[3] - 2)
<1>0. MaxPdu \in Nat
  BY FrameAssumption
<1>1. CASE Len(d) < 4
  BY <1>1 DEF TcpPeek, Mbap, No, IsPeek
<1>2. CASE Len(d) >= 4
  <2>1. PICK x \in Nat : x = d[3]
    BY <1>2
  <2>2. CASE d[2] # 0
    BY <1>2, <2>2 DEF TcpPeek, Mbap, No, IsPeek
  <2>3. CASE d[2] = 0 /\ (x < 2 \/ x > MaxPdu + 1)
    BY <1>2, <2>1, <2>3 DEF TcpPeek, Mbap, No, IsPeek
  <2>4. CASE d[2] = 0 /\ ~(x < 2 \/ x > MaxPdu + 1)
    <3>1. TcpPeek(d) = Yes(3 + x, 6, x - 2)
      BY <1>2, <2>1, <2>4 DEF TcpPeek, Mbap
    <3>2. IsPeek(Yes(3 + x, 6, x - 2))
      BY <2>4 DEF Yes, IsPeek
    <3> QED
      BY <1>0, <1>2, <2>1, <2>4, <3>1, <3>2
  <2> QED
    BY <2>2, <2>3, <2>4
<1> QED
  BY <1>1, <1>2

LEMMA Limits == MaxPayload \in Nat /\ MaxPdu \in Nat /\ MaxVarint \in Nat /\ PoolSize \in Nat
BY FrameAssumption

LEMMA PeekBy ==
  ASSUME NEW d
  PROVE  Peek("LTV", d) = LtvPeek(d) /\ Peek("TLV", d) = TlvPeek(d) /\ Peek("TCP", d) = TcpPeek(d)
BY DEF Peek

LEMMA PeekIs ==
  ASSUME NEW p \in Streams, NEW d \in Seq(Nat)
  PROVE  IsPeek(Peek(p, d))
BY PeekBy, LtvPeekIs, TlvPeekIs, TcpPeekIs DEF Streams

(* e has the first n bytes of d, as far as d has them. *)
Shares(d, e, n) == \A i \in 1..Len(d) : i <= n => i <= Len(e) /\ e[i] = d[i]

(* A size that is known stays known, whatever follows the bytes. *)
LEMMA PeekStable ==
  ASSUME NEW p \in Streams, NEW d \in Seq(Nat), NEW e \in Seq(Nat),
         Peek(p, d).code = "OK", Shares(d, e, Peek(p, d).total)
  PROVE  Peek(p, e) = Peek(p, d)
<1>1. CASE p = "LTV"
  <2>1. LtvPeek(d).code = "OK" /\ Shares(d, e, LtvPeek(d).total)
    BY <1>1, PeekBy
  <2>2. PICK n, t : n = Ends(d) /\ t = LtvPeek(d).total
    OBVIOUS
  <2>3. n # 0 /\ n <= t /\ n \in 0..Len(d) /\ t \in Nat
    BY <2>1, <2>2, LtvPeekIs, EndsAt DEF IsPeek
  <2>4. \A i \in 1..n : i <= Len(e) /\ e[i] = d[i]
    <3> TAKE i \in 1..n
    <3>1. i \in 1..Len(d) /\ i <= t
      BY <2>3
    <3> QED
      BY <2>1, <2>2, <3>1 DEF Shares
  <2>5. n <= Len(e)
    BY <2>3, <2>4
  <2>6. DecodeVarint(e) = DecodeVarint(d)
    BY <2>2, <2>3, <2>4, <2>5, EndsStable
  <2> QED
    BY <1>1, <2>6, PeekBy DEF LtvPeek
<1>2. CASE p = "TLV"
  <2>1. TlvPeek(d).code = "OK" /\ Shares(d, e, TlvPeek(d).total)
    BY <1>2, PeekBy
  <2>2. Len(d) >= 2 /\ d[1] = FrameHead /\ d[2] \in Nat /\ d[2] <= MaxPayload
          /\ TlvPeek(d) = Yes(4 + d[2], 3, d[2])
    BY <2>1, TlvPeekIs
  <2>3. TlvPeek(d).total = 4 + d[2]
    BY <2>2 DEF Yes
  <2>4. Len(e) >= 2 /\ e[1] = d[1] /\ e[2] = d[2]
    <3>1. 1 \in 1..Len(d) /\ 2 \in 1..Len(d)
      BY <2>2
    <3>2. 1 <= TlvPeek(d).total /\ 2 <= TlvPeek(d).total
      BY <2>2, <2>3
    <3> QED
      BY <2>1, <3>1, <3>2 DEF Shares
  <2>5. PICK x \in Nat : x = d[2] /\ x <= MaxPayload
    BY <2>2
  <2>6. TlvPeek(e) = Yes(4 + x, 3, x)
    <3>2. ~(Len(e) < 2) /\ ~(x > MaxPayload)
      BY <2>4, <2>5, Limits
    <3>3. e[1] = FrameHead /\ e[2] = x
      BY <2>2, <2>4, <2>5
    <3>1. ~(Len(e) < 2) /\ e[1] = FrameHead /\ e[2] = x /\ ~(x > MaxPayload)
      BY <3>2, <3>3, Zenon
    <3> QED
      BY <3>1 DEF TlvPeek, TlvHeader, TlvMin
  <2> QED
    BY <1>2, <2>2, <2>5, <2>6, PeekBy
<1>3. CASE p = "TCP"
  <2>1. TcpPeek(d).code = "OK" /\ Shares(d, e, TcpPeek(d).total)
    BY <1>3, PeekBy
  <2>2. Len(d) >= 4 /\ d[2] = 0 /\ d[3] \in Nat /\ d[3] >= 2 /\ d[3] <= MaxPdu + 1
              /\ TcpPeek(d) = Yes(3 + d[3], 6, d[3] - 2)
    BY <2>1, TcpPeekIs
  <2>3. TcpPeek(d).total = 3 + d[3]
    BY <2>2 DEF Yes
  <2>4. Len(e) >= 4 /\ e[2] = d[2] /\ e[3] = d[3]
    <3>3. PICK n \in Nat, x \in Nat : n = Len(d) /\ n >= 4 /\ x = d[3] /\ x >= 2
      BY <2>2
    <3>4. 2 \in 1..n /\ 3 \in 1..n /\ 4 \in 1..n /\ 2 <= 3 + x /\ 3 <= 3 + x /\ 4 <= 3 + x
      BY <3>3
    <3>1. 2 \in 1..Len(d) /\ 3 \in 1..Len(d) /\ 4 \in 1..Len(d)
      BY <3>3, <3>4, Zenon
    <3>2. 2 <= TcpPeek(d).total /\ 3 <= TcpPeek(d).total /\ 4 <= TcpPeek(d).total
      BY <2>3, <3>3, <3>4, Zenon
    <3> QED
      BY <2>1, <3>1, <3>2 DEF Shares
  <2>5. PICK x \in Nat : x = d[3] /\ x >= 2 /\ x <= MaxPdu + 1
    BY <2>2
  <2>6. TcpPeek(e) = Yes(3 + x, 6, x - 2)
    <3>1. ~(Len(e) < 4) /\ e[2] = 0 /\ e[3] = x
      BY <2>2, <2>4, <2>5
    <3>2. ~(x < 2 \/ x > MaxPdu + 1)
      BY <2>5, Limits
    <3> QED
      BY <3>1, <3>2 DEF TcpPeek, Mbap
  <2> QED
    BY <1>3, <2>2, <2>5, <2>6, PeekBy
<1> QED
  BY <1>1, <1>2, <1>3 DEF Streams

LEMMA ParseBy ==
  ASSUME NEW p \in Streams, NEW d \in Seq(Nat)
  PROVE  /\ Peek(p, d).code # "OK" => Parse(p, d) = Peek(p, d)
         /\ Peek(p, d).code = "OK" /\ Len(d) < Peek(p, d).total => Parse(p, d) = No("NEED_MORE")
         /\ Peek(p, d).code = "OK" /\ Len(d) >= Peek(p, d).total =>
              Parse(p, d) = IF p = "TLV" THEN TlvCheck(d, Peek(p, d)) ELSE Peek(p, d)
<1>1. PICK m : m = Peek(p, d)
  OBVIOUS
<1>2. Parse(p, d) = Complete(p, d, m)
  BY <1>1 DEF Parse
<1>3. IsPeek(m) /\ Len(d) \in Nat
  BY <1>1, PeekIs
<1>4. CASE m.code # "OK"
  BY <1>1, <1>2, <1>4 DEF Complete
<1>5. CASE m.code = "OK" /\ Len(d) < m.total
  BY <1>1, <1>2, <1>3, <1>5 DEF Complete, IsPeek
<1>6. CASE m.code = "OK" /\ Len(d) >= m.total
  <2>1. ~(Len(d) < m.total)
    BY <1>3, <1>6 DEF IsPeek
  <2> QED
    BY <1>1, <1>2, <1>6, <2>1 DEF Complete
<1>7. m.code = "OK" => Len(d) < m.total \/ Len(d) >= m.total
  BY <1>3 DEF IsPeek
<1> QED
  BY <1>4, <1>5, <1>6, <1>7, Zenon

LEMMA CheckIs ==
  ASSUME NEW d, NEW m
  PROVE  \/ TlvCheck(d, m) = m
         \/ TlvCheck(d, m) = No("INVALID_TAIL")
         \/ TlvCheck(d, m) = No("CRC_MISMATCH")
BY DEF TlvCheck

(* A parse that succeeds found its frame in d. *)
LEMMA ParseOk ==
  ASSUME NEW p \in Streams, NEW d \in Seq(Nat), Parse(p, d).code = "OK"
  PROVE  /\ Parse(p, d) = Peek(p, d) /\ Peek(p, d).code = "OK" /\ IsPeek(Parse(p, d))
         /\ Parse(p, d).total \in 1..Len(d)
<1>1. IsPeek(Peek(p, d)) /\ Len(d) \in Nat
  BY PeekIs
<1>2. Peek(p, d).code = "OK"
  BY ParseBy
<1>3. Len(d) >= Peek(p, d).total
  BY <1>1, <1>2, ParseBy DEF IsPeek, No
<1>4. Parse(p, d) = Peek(p, d)
  BY <1>2, <1>3, ParseBy, CheckIs DEF No
<1> QED
  BY <1>1, <1>2, <1>3, <1>4 DEF IsPeek

(* What the bytes of one frame say, they say wherever they stand in front. *)
LEMMA ParseStable ==
  ASSUME NEW p \in Streams, NEW d \in Seq(Nat), NEW e \in Seq(Nat),
         Peek(p, d).code = "OK", Peek(p, d).total <= Len(d), Shares(d, e, Peek(p, d).total)
  PROVE  Parse(p, e) = Parse(p, d) /\ Parse(p, d).code # "NEED_MORE"
<1>1. PICK m, t : m = Peek(p, d) /\ t = m.total
  OBVIOUS
<1>2. IsPeek(m) /\ m.code = "OK" /\ t \in 1..Len(d) /\ Len(d) \in Nat
  BY <1>1, PeekIs DEF IsPeek
<1>3. Peek(p, e) = m
  BY <1>1, PeekStable
<1>4. \A i \in 1..t : i <= Len(e) /\ e[i] = d[i]
  BY <1>1, <1>2 DEF Shares
<1>5. t <= Len(e) /\ Len(e) \in Nat
  BY <1>2, <1>4
<1>6. Parse(p, d) = IF p = "TLV" THEN TlvCheck(d, m) ELSE m
  BY <1>1, <1>2, ParseBy
<1>7. Parse(p, e) = IF p = "TLV" THEN TlvCheck(e, m) ELSE m
  BY <1>1, <1>2, <1>3, <1>5, ParseBy
<1>8. CASE p # "TLV"
  BY <1>2, <1>6, <1>7, <1>8
<1>9. CASE p = "TLV"
  <2>1. m = Yes(4 + d[2], 3, d[2]) /\ d[2] \in Nat
    BY <1>1, <1>2, <1>9, PeekBy, TlvPeekIs
  <2>2. t >= 4
    BY <1>1, <2>1 DEF Yes
  <2>3. SubSeq(e, 1, t - 2) = SubSeq(d, 1, t - 2)
    <3>1. \A i \in 1..t - 2 : e[i] = d[i]
      BY <1>2, <1>4, <2>2
    <3> QED
      BY <1>2, <1>5, <2>2, <3>1
  <2>4. e[t] = d[t] /\ e[t - 1] = d[t - 1]
    BY <1>2, <1>4, <2>2
  <2>5. TlvCheck(e, m) = TlvCheck(d, m)
    BY <1>1, <2>3, <2>4 DEF TlvCheck
  <2> QED
    BY <1>2, <1>6, <1>7, <1>9, <2>5, CheckIs DEF No
<1> QED
  BY <1>8, <1>9

LEMMA RtuParseIs ==
  ASSUME NEW d \in Seq(Nat), RtuParse(d).code = "OK"
  PROVE  Len(d) >= 3 /\ RtuParse(d).off = 3 /\ RtuParse(d).size = Len(d) - 3
<1>0. MaxPdu \in Nat /\ Len(d) \in Nat
  BY FrameAssumption
<1>1. Len(d) >= 3
  BY <1>0 DEF RtuParse, RtuMin, No
<1>2. ~(Len(d) > MaxPdu + 2)
  BY <1>0, <1>1 DEF RtuParse, RtuMin, RtuMax, No
<1>3. RtuParse(d) = Yes(Len(d), 3, Len(d) - 3)
  BY <1>0, <1>1, <1>2 DEF RtuParse, RtuMin, RtuMax, No
<1> QED
  BY <1>1, <1>3 DEF Yes

FrameTypes ==
  /\ conn \in Wires
  /\ since \in Nat /\ taken \in Nat /\ since <= taken /\ taken <= Len(conn.bytes)
  /\ mem \in [1..BufferSize -> Nat]
  /\ buffered \in 0..BufferSize /\ pending \in 0..buffered /\ expected \in Nat
  /\ delivered \in Seq(Seq(Nat)) /\ bounds \in Seq(Nat)

(* The size that was learnt is that of the frame at the front. *)
SizeKnown ==
  /\ conn.proto # "LTV" => pending = 0
  /\ conn.proto # "RTU" /\ expected # 0 =>
       /\ pending = 0
       /\ Peek(conn.proto, Remaining).code = "OK" /\ Peek(conn.proto, Remaining).total = expected

LEMMA WireTypes ==
  ASSUME FrameTypes
  PROVE  /\ conn.proto \in {"LTV", "TLV", "TCP", "RTU"} /\ BufferSize \in Nat
         /\ conn.bytes \in Seq(Nat)
BY FrameAssumption DEF FrameTypes, BufferSize

LEMMA Joined ==
  ASSUME NEW s \in Seq(Nat), NEW d \in Seq(Nat)
  PROVE  /\ s \o d \in Seq(Nat) /\ Len(s \o d) = Len(s) + Len(d)
         /\ \A i \in 1..Len(s) : (s \o d)[i] = s[i]
         /\ \A i \in Len(s) + 1..Len(s) + Len(d) : (s \o d)[i] = d[i - Len(s)]
OBVIOUS

LEMMA SameBytes ==
  ASSUME NEW s \in Seq(Nat), NEW e \in Seq(Nat), Len(s) = Len(e), \A i \in 1..Len(s) : s[i] = e[i]
  PROVE  s = e
OBVIOUS

LEMMA Memory ==
  ASSUME NEW c \in Nat, NEW m \in [1..c -> Nat]
  PROVE  m \in Seq(Nat) /\ Len(m) = c
OBVIOUS

LEMMA Filled ==
  ASSUME FrameTypes, NEW m \in [1..BufferSize -> Nat], NEW n \in Nat, NEW d \in Seq(Nat),
         n + Len(d) <= BufferSize
  PROVE  /\ Fill(m, n, d) \in [1..BufferSize -> Nat]
         /\ SubSeq(Fill(m, n, d), 1, n + Len(d)) = SubSeq(m, 1, n) \o d
<1>0. BufferSize \in Nat /\ Len(d) \in Nat
  BY WireTypes
<1>1. PICK c \in Nat : c = BufferSize
  BY <1>0
<1>2. PICK f : f = Fill(m, n, d)
  OBVIOUS
<1>3. f = [i \in 1..c |-> IF i \in n + 1..n + Len(d) THEN d[i - n] ELSE m[i]]
  BY <1>1, <1>2 DEF Fill
<1>4. f \in [1..c -> Nat]
  <2>1. ASSUME NEW i \in 1..c PROVE (IF i \in n + 1..n + Len(d) THEN d[i - n] ELSE m[i]) \in Nat
    <3>1. CASE i \in n + 1..n + Len(d)
      <4>1. i - n \in 1..Len(d)
        BY <3>1, <1>0
      <4> QED
        BY <3>1, <4>1
    <3>2. CASE i \notin n + 1..n + Len(d)
      BY <3>2, <1>1
    <3> QED
      BY <3>1, <3>2
  <2> QED
    BY <1>3, <2>1
<1>5. f \in Seq(Nat) /\ Len(f) = c /\ m \in Seq(Nat) /\ Len(m) = c
  BY <1>1, <1>4, Memory
<1>6. PICK s : s = SubSeq(m, 1, n)
  OBVIOUS
<1>7. s \in Seq(Nat) /\ Len(s) = n /\ \A i \in 1..n : s[i] = m[i]
  BY <1>0, <1>1, <1>5, <1>6
<1>8. /\ s \o d \in Seq(Nat) /\ Len(s \o d) = n + Len(d)
      /\ \A i \in 1..n : (s \o d)[i] = m[i]
      /\ \A i \in n + 1..n + Len(d) : (s \o d)[i] = d[i - n]
  BY <1>0, <1>7, Joined
<1>9. PICK e : e = SubSeq(f, 1, n + Len(d))
  OBVIOUS
<1>10. e \in Seq(Nat) /\ Len(e) = n + Len(d) /\ \A i \in 1..n + Len(d) : e[i] = f[i]
  BY <1>0, <1>1, <1>5, <1>9
<1>11. \A i \in 1..n + Len(d) : e[i] = (s \o d)[i]
  <2> TAKE i \in 1..n + Len(d)
  <2>0. i \in 1..c
    BY <1>0, <1>1
  <2>1. CASE i \in n + 1..n + Len(d)
    BY <1>3, <1>8, <1>10, <2>0, <2>1
  <2>2. CASE i \notin n + 1..n + Len(d)
    <3>1. i \in 1..n
      BY <1>0, <2>2
    <3> QED
      BY <1>3, <1>8, <1>10, <2>0, <2>2, <3>1
  <2> QED
    BY <2>1, <2>2
<1>12. e = s \o d
  BY <1>8, <1>10, <1>11, SameBytes
<1> QED
  BY <1>1, <1>2, <1>4, <1>6, <1>9, <1>12

LEMMA Shifted ==
  ASSUME FrameTypes, NEW m \in [1..BufferSize -> Nat], NEW n \in 0..BufferSize, NEW k \in 0..n
  PROVE  /\ Shift(m, n, k) \in [1..BufferSize -> Nat]
         /\ SubSeq(Shift(m, n, k), 1, n - k) = SubSeq(m, k + 1, n)
<1>0. BufferSize \in Nat
  BY WireTypes
<1>1. PICK c \in Nat : c = BufferSize
  BY <1>0
<1>2. PICK f : f = Shift(m, n, k)
  OBVIOUS
<1>3. f = [i \in 1..c |-> IF i <= n - k THEN m[i + k] ELSE m[i]]
  BY <1>1, <1>2 DEF Shift
<1>4. f \in [1..c -> Nat]
  <2>1. ASSUME NEW i \in 1..c PROVE (IF i <= n - k THEN m[i + k] ELSE m[i]) \in Nat
    BY <1>1
  <2> QED
    BY <1>3, <2>1
<1>5. f \in Seq(Nat) /\ Len(f) = c /\ m \in Seq(Nat) /\ Len(m) = c
  BY <1>1, <1>4, Memory
<1>6. /\ SubSeq(f, 1, n - k) \in Seq(Nat) /\ Len(SubSeq(f, 1, n - k)) = n - k
      /\ \A i \in 1..n - k : SubSeq(f, 1, n - k)[i] = f[i]
  BY <1>1, <1>5
<1>7. /\ SubSeq(m, k + 1, n) \in Seq(Nat) /\ Len(SubSeq(m, k + 1, n)) = n - k
      /\ \A i \in 1..n - k : SubSeq(m, k + 1, n)[i] = m[i + k]
  BY <1>1, <1>5
<1>8. \A i \in 1..n - k : f[i] = m[i + k]
  BY <1>1, <1>3
<1> QED
  BY <1>1, <1>2, <1>4, <1>6, <1>7, <1>8

(* An answer without a frame, on the bytes C that are left. *)
Verdict(p, code, C) ==
  \/ code = "BUFFER_OVERFLOW"
  \/ code = Parse(p, C).code /\ code # "OK"
  \/ p = "TLV" /\ code = "INVALID_SIZE"

(* A call that keeps the bytes C, or returns their first frame. *)
Kept(C) == delivered' = delivered /\ Remaining' = C /\ Verdict(conn.proto, result', C)

Given(C) ==
  /\ Parse(conn.proto, C).code = "OK"
  /\ delivered' = Append(delivered, SubSeq(C, 1, Parse(conn.proto, C).total))
  /\ Remaining' = SubSeq(C, Parse(conn.proto, C).total + 1, Len(C))
  /\ result' = "OK"

Progress(C) ==
  /\ UNCHANGED <<conn, since, bounds>>
  /\ Kept(C) \/ Given(C)
  /\ mem' \in [1..BufferSize -> Nat]
  /\ buffered' \in 0..BufferSize /\ pending' \in 0..buffered' /\ expected' \in Nat
  /\ delivered' \in Seq(Seq(Nat))
  /\ conn.proto # "LTV" => pending' = 0
  /\ expected' # 0 =>
       /\ pending' = 0 /\ Remaining' = C
       /\ Peek(conn.proto, C).code = "OK" /\ Peek(conn.proto, C).total = expected'

(* The buffer m holds n bytes, C, and their size is known as far as it can be. *)
Loaded(m, n, C) ==
  /\ m \in [1..BufferSize -> Nat] /\ n \in 0..BufferSize
  /\ C = SubSeq(m, 1, n)
  /\ expected # 0 => Peek(conn.proto, C).code = "OK" /\ Peek(conn.proto, C).total = expected

LEMMA LoadedBytes ==
  ASSUME FrameTypes, NEW m, NEW n, NEW C, Loaded(m, n, C)
  PROVE  /\ m \in Seq(Nat) /\ Len(m) = BufferSize /\ n \in 0..BufferSize /\ BufferSize \in Nat
         /\ C \in Seq(Nat) /\ Len(C) = n /\ \A i \in 1..n : C[i] = m[i]
         /\ \A t \in 0..n : SubSeq(m, 1, t) = SubSeq(C, 1, t)
         /\ \A t \in 0..n : SubSeq(m, t + 1, n) = SubSeq(C, t + 1, n)
<1>0. BufferSize \in Nat
  BY WireTypes
<1>1. m \in Seq(Nat) /\ Len(m) = BufferSize /\ n \in 0..BufferSize /\ C = SubSeq(m, 1, n)
  BY <1>0, Memory DEF Loaded
<1>2. C \in Seq(Nat) /\ Len(C) = n /\ \A i \in 1..n : C[i] = m[i]
  BY <1>0, <1>1
<1>3. \A t \in 0..n : SubSeq(m, 1, t) = SubSeq(C, 1, t)
  BY <1>0, <1>1, <1>2
<1>4. \A t \in 0..n : SubSeq(m, t + 1, n) = SubSeq(C, t + 1, n)
  BY <1>0, <1>1, <1>2
<1> QED
  BY <1>0, <1>1, <1>2, <1>3, <1>4

CutAlike(m, n, C, t) ==
  SubSeq(m, 1, t) = SubSeq(C, 1, t) /\ SubSeq(m, t + 1, n) = SubSeq(C, t + 1, n)

LEMMA BufferCut ==
  ASSUME FrameTypes, NEW m, NEW n, NEW C, Loaded(m, n, C), NEW t \in 0..n
  PROVE  CutAlike(m, n, C, t)
<1>1. \A u \in 0..n : SubSeq(m, 1, u) = SubSeq(C, 1, u)
  BY LoadedBytes
<1>2. \A u \in 0..n : SubSeq(m, u + 1, n) = SubSeq(C, u + 1, n)
  BY LoadedBytes
<1> QED
  BY <1>1, <1>2, Zenon DEF CutAlike

(* Whether it was learnt now or before, the size in use is that of C. *)
LEMMA LearntSize ==
  ASSUME FrameTypes, NEW m, NEW n, NEW C, Loaded(m, n, C)
  PROVE  Learnt(Peek(conn.proto, C)) = Peek(conn.proto, C).total
BY DEF Loaded, Learnt

LEMMA KeepEffect ==
  ASSUME FrameTypes, NEW m, NEW n, NEW C, Loaded(m, n, C), NEW code, NEW e,
         Keep(code, m, n, e), pending' = 0, Verdict(conn.proto, code, C), e \in Nat,
         e # 0 => Peek(conn.proto, C).code = "OK" /\ Peek(conn.proto, C).total = e
  PROVE  Progress(C)
<1>1. /\ UNCHANGED <<conn, since, bounds, delivered>> /\ result' = code
      /\ mem' = m /\ buffered' = n /\ expected' = e
  BY DEF Keep, Answer
<1>2. BufferSize \in Nat /\ m \in [1..BufferSize -> Nat] /\ n \in 0..BufferSize /\ C = SubSeq(m, 1, n)
  BY WireTypes DEF Loaded
<1>3. Remaining' = C
  BY <1>1, <1>2 DEF Remaining
<1>4. Kept(C)
  BY <1>1, <1>3 DEF Kept
<1>5. delivered' \in Seq(Seq(Nat))
  BY <1>1 DEF FrameTypes
<1> QED
  BY <1>1, <1>2, <1>3, <1>4, <1>5 DEF Progress

(* The answers of a step that finds no complete frame. *)
LEMMA Unfinished ==
  ASSUME NEW p \in Streams, NEW C \in Seq(Nat)
  PROVE  /\ Peek(p, C).total = 0 => Verdict(p, Peek(p, C).code, C)
         /\ Peek(p, C).total # 0 => Peek(p, C).code = "OK" /\ Peek(p, C).total \in Nat \ {0}
         /\ Peek(p, C).total # 0 /\ Len(C) < Peek(p, C).total => Verdict(p, "NEED_MORE", C)
<1>1. IsPeek(Peek(p, C))
  BY PeekIs
<1>2. Peek(p, C).total = 0 => Verdict(p, Peek(p, C).code, C)
  BY <1>1, ParseBy DEF IsPeek, Verdict
<1>3. Peek(p, C).total # 0 => Peek(p, C).code = "OK" /\ Peek(p, C).total \in Nat \ {0}
  BY <1>1 DEF IsPeek
<1>4. Peek(p, C).total # 0 /\ Len(C) < Peek(p, C).total => Verdict(p, "NEED_MORE", C)
  BY <1>3, ParseBy DEF Verdict, No
<1> QED
  BY <1>2, <1>3, <1>4

(* A frame that is returned is the first of C. *)
LEMMA FirstFrame ==
  ASSUME NEW C \in Seq(Nat), NEW t \in 1..Len(C), delivered \in Seq(Seq(Nat)),
         Parse(conn.proto, C).code = "OK", Parse(conn.proto, C).total = t,
         delivered' = Append(delivered, SubSeq(C, 1, t)), result' = "OK",
         Remaining' = SubSeq(C, t + 1, Len(C))
  PROVE  Given(C) /\ delivered' \in Seq(Seq(Nat))
<1>1. SubSeq(C, 1, t) \in Seq(Nat)
  OBVIOUS
<1> QED
  BY <1>1 DEF Given

LEMMA LtvStepEffect ==
  ASSUME FrameTypes, conn.proto = "LTV", NEW m, NEW n, NEW C, Loaded(m, n, C),
         LtvStep(m, n, LtvPeek(C), LtvPeek(C).total)
  PROVE  Progress(C)
<1>1. PICK peek, t : peek = Peek("LTV", C) /\ t = peek.total
  OBVIOUS
<1>2. peek = LtvPeek(C)
  BY <1>1, PeekBy
<1>3. C \in Seq(Nat) /\ Len(C) = n /\ n \in 0..BufferSize /\ BufferSize \in Nat
  BY LoadedBytes
<1>4. "LTV" \in Streams
  BY DEF Streams
<1>5. t \in Nat
  BY <1>1, <1>3, <1>4, PeekIs DEF IsPeek
<1>6. CASE t = 0 /\ Keep(peek.code, m, n, 0) /\ pending' = 0
  <2>1. Verdict("LTV", peek.code, C)
    BY <1>1, <1>3, <1>4, <1>6, Unfinished
  <2> QED
    BY <1>6, <2>1, KeepEffect
<1>7. CASE expected = 0 /\ t > BufferSize /\ Keep("BUFFER_OVERFLOW", m, n, t) /\ pending' = 0
  <2>1. Verdict("LTV", "BUFFER_OVERFLOW", C)
    BY DEF Verdict
  <2>2. t # 0
    BY <1>3, <1>7
  <2>3. peek.code = "OK"
    BY <1>1, <1>3, <1>4, <2>2, Unfinished
  <2> QED
    BY <1>1, <1>5, <1>7, <2>1, <2>3, KeepEffect
<1>8. CASE t # 0 /\ n < t /\ Keep("NEED_MORE", m, n, t) /\ pending' = 0
  <2>1. Verdict("LTV", "NEED_MORE", C) /\ peek.code = "OK"
    BY <1>1, <1>3, <1>4, <1>8, Unfinished
  <2> QED
    BY <1>1, <1>5, <1>8, <2>1, KeepEffect
<1>9. CASE /\ t # 0 /\ t <= BufferSize /\ n >= t
           /\ Deliver(SubSeq(m, 1, t), LtvPeek(m).off, LtvPeek(m).size)
           /\ mem' = m /\ buffered' = n /\ pending' = t /\ expected' = 0
           /\ UNCHANGED <<bounds, held, used>>
  <2>1. t \in 1..n /\ peek.code = "OK"
    BY <1>1, <1>3, <1>4, <1>5, <1>9, Unfinished
  <2>2. Parse("LTV", C) = peek
    BY <1>1, <1>3, <1>4, <2>1, ParseBy
  <2>3. /\ UNCHANGED <<conn, since>> /\ result' = "OK"
        /\ delivered' = Append(delivered, SubSeq(m, 1, t))
    BY <1>9 DEF Deliver
  <2>4. SubSeq(m, 1, t) = SubSeq(C, 1, t) /\ SubSeq(m, t + 1, n) = SubSeq(C, t + 1, n)
    <3>1. t \in 0..n
      BY <2>1
    <3> QED
      <4>1. CutAlike(m, n, C, t)
        BY <3>1, BufferCut
      <4> QED
        BY <4>1 DEF CutAlike
  <2>5. Remaining' = SubSeq(C, t + 1, n)
    BY <1>9, <2>4 DEF Remaining
  <2>6. Given(C) /\ delivered' \in Seq(Seq(Nat))
    BY <1>1, <1>3, <2>1, <2>2, <2>3, <2>4, <2>5, FirstFrame DEF FrameTypes
  <2>7. m \in [1..BufferSize -> Nat]
    BY DEF Loaded
  <2> QED
    BY <1>3, <1>9, <2>1, <2>3, <2>6, <2>7 DEF Progress
<1>10. \/ t = 0 /\ Keep(peek.code, m, n, 0) /\ pending' = 0
       \/ expected = 0 /\ t > BufferSize /\ Keep("BUFFER_OVERFLOW", m, n, t) /\ pending' = 0
       \/ t # 0 /\ n < t /\ Keep("NEED_MORE", m, n, t) /\ pending' = 0
       \/ /\ t # 0 /\ t <= BufferSize /\ n >= t
          /\ Deliver(SubSeq(m, 1, t), LtvPeek(m).off, LtvPeek(m).size)
          /\ mem' = m /\ buffered' = n /\ pending' = t /\ expected' = 0
          /\ UNCHANGED <<bounds, held, used>>
  <2>1. LtvStep(m, n, peek, t)
    BY <1>1, <1>2
  <2> QED
    BY <2>1, Zenon DEF LtvStep
<1> QED
  BY <1>6, <1>7, <1>8, <1>9, <1>10

LEMMA TlvStepEffect ==
  ASSUME FrameTypes, conn.proto = "TLV", NEW m, NEW n, NEW C, Loaded(m, n, C),
         TlvStep(m, n, TlvPeek(C), TlvPeek(C).total), pending' = 0
  PROVE  Progress(C)
<1>1. PICK peek, t : peek = Peek("TLV", C) /\ t = peek.total
  OBVIOUS
<1>2. peek = TlvPeek(C)
  BY <1>1, PeekBy
<1>3. C \in Seq(Nat) /\ Len(C) = n /\ n \in 0..BufferSize /\ BufferSize \in Nat
  BY LoadedBytes
<1>4. "TLV" \in Streams
  BY DEF Streams
<1>5. t \in Nat
  BY <1>1, <1>3, <1>4, PeekIs DEF IsPeek
<1>6. CASE t = 0 /\ Keep(peek.code, m, n, 0)
  <2>1. Verdict("TLV", peek.code, C)
    BY <1>1, <1>3, <1>4, <1>6, Unfinished
  <2> QED
    BY <1>6, <2>1, KeepEffect
<1>7. CASE expected = 0 /\ t > BufferSize /\ Keep("BUFFER_OVERFLOW", m, n, t)
  <2>1. Verdict("TLV", "BUFFER_OVERFLOW", C)
    BY DEF Verdict
  <2>2. t # 0
    BY <1>3, <1>7
  <2>3. peek.code = "OK"
    BY <1>1, <1>3, <1>4, <2>2, Unfinished
  <2> QED
    BY <1>1, <1>5, <1>7, <2>1, <2>3, KeepEffect
<1>8. CASE t # 0 /\ n < t /\ Keep("NEED_MORE", m, n, t)
  <2>1. Verdict("TLV", "NEED_MORE", C) /\ peek.code = "OK"
    BY <1>1, <1>3, <1>4, <1>8, Unfinished
  <2> QED
    BY <1>1, <1>5, <1>8, <2>1, KeepEffect
<1>9. CASE /\ t # 0 /\ t <= BufferSize /\ n >= t
           /\ TlvFrame(m, n, Parse("TLV", SubSeq(m, 1, t)), t)
  <2>1. t \in 1..n /\ t \in 0..n /\ peek.code = "OK"
    BY <1>1, <1>3, <1>4, <1>5, <1>9, Unfinished
  <2>2. SubSeq(m, 1, t) = SubSeq(C, 1, t) /\ SubSeq(m, t + 1, n) = SubSeq(C, t + 1, n)
    <3>1. CutAlike(m, n, C, t)
      BY <2>1, BufferCut
    <3> QED
      BY <3>1 DEF CutAlike
  <2>3. PICK frame : frame = Parse("TLV", SubSeq(m, 1, t))
    OBVIOUS
  <2>4. frame = Parse("TLV", C)
    <3>1. PICK e : e = SubSeq(C, 1, t)
      OBVIOUS
    <3>2. e \in Seq(Nat) /\ Len(e) = t /\ \A i \in 1..t : e[i] = C[i]
      BY <1>3, <2>1, <3>1
    <3>3. Shares(C, e, t)
      BY <1>3, <2>1, <3>2 DEF Shares
    <3>4. Parse("TLV", e) = Parse("TLV", C)
      BY <1>1, <1>3, <1>4, <2>1, <3>2, <3>3, ParseStable
    <3> QED
      BY <2>2, <2>3, <3>1, <3>4
  <2>5. CASE frame.code # "OK" /\ Keep(frame.code, m, n, t)
    <3>1. Verdict("TLV", frame.code, C)
      BY <2>4, <2>5 DEF Verdict
    <3> QED
      BY <1>1, <1>5, <2>1, <2>5, <3>1, KeepEffect
  <2>6. CASE Keep("INVALID_SIZE", m, n, t)
    <3>1. Verdict("TLV", "INVALID_SIZE", C)
      BY DEF Verdict
    <3> QED
      BY <1>1, <1>5, <2>1, <2>6, <3>1, KeepEffect
  <2>7. CASE frame.code = "OK" /\ TlvTake(m, n, frame)
    <3>1. frame = peek /\ frame.total = t
      BY <1>1, <1>3, <1>4, <2>4, <2>7, ParseOk
    <3>2. /\ UNCHANGED <<conn, since>> /\ result' = "OK"
          /\ delivered' = Append(delivered, SubSeq(m, 1, t))
          /\ mem' = Shift(m, n, t) /\ buffered' = n - t /\ expected' = 0 /\ bounds' = bounds
      BY <2>7, <3>1 DEF TlvTake, Deliver
    <3>3. /\ Shift(m, n, t) \in [1..BufferSize -> Nat]
          /\ SubSeq(Shift(m, n, t), 1, n - t) = SubSeq(m, t + 1, n)
      BY <1>3, <2>1, Shifted DEF Loaded
    <3>4. Remaining' = SubSeq(C, t + 1, n)
      <4>1. Remaining' = SubSeq(mem', 1, buffered')
        BY DEF Remaining
      <4> QED
        BY <2>2, <3>2, <3>3, <4>1
    <3>5. Given(C) /\ delivered' \in Seq(Seq(Nat))
      BY <1>3, <2>1, <2>2, <2>4, <2>7, <3>1, <3>2, <3>4, FirstFrame DEF FrameTypes
    <3> QED
      BY <1>3, <2>1, <3>2, <3>3, <3>5 DEF Progress
  <2>8. \/ frame.code # "OK" /\ Keep(frame.code, m, n, t)
        \/ Keep("INVALID_SIZE", m, n, t)
        \/ frame.code = "OK" /\ TlvTake(m, n, frame)
    BY <1>9, <2>3, Zenon DEF TlvFrame
  <2> QED
    BY <2>5, <2>6, <2>7, <2>8
<1>10. \/ t = 0 /\ Keep(peek.code, m, n, 0)
       \/ expected = 0 /\ t > BufferSize /\ Keep("BUFFER_OVERFLOW", m, n, t)
       \/ t # 0 /\ n < t /\ Keep("NEED_MORE", m, n, t)
       \/ /\ t # 0 /\ t <= BufferSize /\ n >= t
          /\ TlvFrame(m, n, Parse("TLV", SubSeq(m, 1, t)), t)
  <2>1. TlvStep(m, n, peek, t)
    BY <1>1, <1>2
  <2> QED
    BY <2>1, Zenon DEF TlvStep
<1> QED
  BY <1>6, <1>7, <1>8, <1>9, <1>10

LEMMA TcpStepEffect ==
  ASSUME FrameTypes, conn.proto = "TCP", NEW m, NEW n, NEW C, Loaded(m, n, C),
         TcpStep(m, n, TcpPeek(C), TcpPeek(C).total), pending' = 0
  PROVE  Progress(C)
<1>1. PICK peek, t : peek = Peek("TCP", C) /\ t = peek.total
  OBVIOUS
<1>2. peek = TcpPeek(C)
  BY <1>1, PeekBy
<1>3. C \in Seq(Nat) /\ Len(C) = n /\ n \in 0..BufferSize /\ BufferSize \in Nat
  BY LoadedBytes
<1>4. "TCP" \in Streams
  BY DEF Streams
<1>5. t \in Nat
  BY <1>1, <1>3, <1>4, PeekIs DEF IsPeek
<1>6. CASE t = 0 /\ Keep(peek.code, m, n, 0)
  <2>1. Verdict("TCP", peek.code, C)
    BY <1>1, <1>3, <1>4, <1>6, Unfinished
  <2> QED
    BY <1>6, <2>1, KeepEffect
<1>7. CASE Keep("BUFFER_OVERFLOW", m, n, 0)
  <2>1. Verdict("TCP", "BUFFER_OVERFLOW", C)
    BY DEF Verdict
  <2> QED
    BY <1>7, <2>1, KeepEffect
<1>8. CASE t # 0 /\ n < t /\ Keep("NEED_MORE", m, n, t)
  <2>1. Verdict("TCP", "NEED_MORE", C) /\ peek.code = "OK"
    BY <1>1, <1>3, <1>4, <1>8, Unfinished
  <2> QED
    BY <1>1, <1>5, <1>8, <2>1, KeepEffect
<1>9. CASE /\ t # 0 /\ t <= BufferSize /\ n >= t
           /\ Deliver(SubSeq(m, 1, t), TcpPeek(m).off, TcpPeek(m).size)
           /\ mem' = Shift(m, n, t) /\ buffered' = n - t /\ expected' = 0
           /\ UNCHANGED <<bounds, held, used>>
  <2>1. t \in 1..n /\ t \in 0..n /\ peek.code = "OK"
    BY <1>1, <1>3, <1>4, <1>5, <1>9, Unfinished
  <2>2. Parse("TCP", C) = peek
    BY <1>1, <1>3, <1>4, <2>1, ParseBy
  <2>3. /\ UNCHANGED <<conn, since>> /\ result' = "OK"
        /\ delivered' = Append(delivered, SubSeq(m, 1, t))
    BY <1>9 DEF Deliver
  <2>4. SubSeq(m, 1, t) = SubSeq(C, 1, t) /\ SubSeq(m, t + 1, n) = SubSeq(C, t + 1, n)
    <3>1. CutAlike(m, n, C, t)
      BY <2>1, BufferCut
    <3> QED
      BY <3>1 DEF CutAlike
  <2>5. /\ Shift(m, n, t) \in [1..BufferSize -> Nat]
        /\ SubSeq(Shift(m, n, t), 1, n - t) = SubSeq(m, t + 1, n)
    BY <1>3, <2>1, Shifted DEF Loaded
  <2>6. Remaining' = SubSeq(C, t + 1, n)
    <3>1. Remaining' = SubSeq(mem', 1, buffered')
      BY DEF Remaining
    <3> QED
      BY <1>9, <2>4, <2>5, <3>1
  <2>7. Given(C) /\ delivered' \in Seq(Seq(Nat))
    BY <1>1, <1>3, <2>1, <2>2, <2>3, <2>4, <2>6, FirstFrame DEF FrameTypes
  <2> QED
    BY <1>3, <1>9, <2>1, <2>3, <2>5, <2>7 DEF Progress
<1>10. \/ t = 0 /\ Keep(peek.code, m, n, 0)
       \/ Keep("BUFFER_OVERFLOW", m, n, 0)
       \/ t # 0 /\ n < t /\ Keep("NEED_MORE", m, n, t)
       \/ /\ t # 0 /\ t <= BufferSize /\ n >= t
          /\ Deliver(SubSeq(m, 1, t), TcpPeek(m).off, TcpPeek(m).size)
          /\ mem' = Shift(m, n, t) /\ buffered' = n - t /\ expected' = 0
          /\ UNCHANGED <<bounds, held, used>>
  <2>1. TcpStep(m, n, peek, t)
    BY <1>1, <1>2
  <2> QED
    BY <2>1, Zenon DEF TcpStep
<1> QED
  BY <1>6, <1>7, <1>8, <1>9, <1>10

LEMMA ChunkBytes ==
  ASSUME FrameTypes, NEW k \in Nat, k <= Len(conn.bytes) - taken
  PROVE  Chunk(k) \in Seq(Nat) /\ Len(Chunk(k)) = k
<1>1. PICK b \in Seq(Nat), x \in Nat : b = conn.bytes /\ x = taken /\ x <= Len(b)
  BY WireTypes DEF FrameTypes
<1>2. k <= Len(b) - x
  BY <1>1
<1>3. SubSeq(b, x + 1, x + k) \in Seq(Nat) /\ Len(SubSeq(b, x + 1, x + k)) = k
  BY <1>1, <1>2
<1> QED
  BY <1>1, <1>3 DEF Chunk

LEMMA RemainingBytes ==
  ASSUME FrameTypes
  PROVE  Remaining \in Seq(Nat) /\ Len(Remaining) = buffered - pending
<1>1. BufferSize \in Nat /\ buffered \in 0..BufferSize /\ pending \in 0..buffered
  BY WireTypes DEF FrameTypes
<1>2. mem \in Seq(Nat) /\ Len(mem) = BufferSize
  BY <1>1, Memory DEF FrameTypes
<1> QED
  BY <1>1, <1>2 DEF Remaining

(* The bytes in front of the chunk keep their size. *)
LEMMA SizeStays ==
  ASSUME FrameTypes, SizeKnown, conn.proto \in Streams, expected # 0, NEW d \in Seq(Nat)
  PROVE  Peek(conn.proto, Remaining \o d).code = "OK"
           /\ Peek(conn.proto, Remaining \o d).total = expected
<1>1. PICK s : s = Remaining
  OBVIOUS
<1>2. s \in Seq(Nat)
  BY <1>1, RemainingBytes
<1>3. PICK e : e = s \o d
  OBVIOUS
<1>4. e \in Seq(Nat) /\ Len(e) = Len(s) + Len(d) /\ \A i \in 1..Len(s) : e[i] = s[i]
  BY <1>2, <1>3, Joined
<1>5. Shares(s, e, expected)
  BY <1>2, <1>4 DEF Shares
<1>6. Peek(conn.proto, s).code = "OK" /\ Peek(conn.proto, s).total = expected
  BY <1>1 DEF SizeKnown, Streams
<1>7. Peek(conn.proto, e) = Peek(conn.proto, s)
  BY <1>2, <1>4, <1>5, <1>6, PeekStable
<1> QED
  BY <1>1, <1>3, <1>6, <1>7

(* A chunk, or nothing of it, joins the bytes that were left. *)
FeedEffect(k) == \E j \in 0..k : taken' = taken + j /\ Progress(Remaining \o Chunk(j))

LEMMA NoChunk ==
  ASSUME FrameTypes
  PROVE  Chunk(0) = << >> /\ Remaining \o Chunk(0) = Remaining /\ taken + 0 = taken
<1>1. taken \in Nat
  BY DEF FrameTypes
<1>2. Len(conn.bytes) - taken >= 0
  BY WireTypes DEF FrameTypes
<1>3. Chunk(0) \in Seq(Nat) /\ Len(Chunk(0)) = 0
  BY <1>2, ChunkBytes
<1>4. Chunk(0) = << >>
  BY <1>3
<1>5. Remaining \o << >> = Remaining
  BY RemainingBytes
<1>6. taken + 0 = taken
  BY <1>1
<1> QED
  BY <1>4, <1>5, <1>6, Zenon

(* Filling up behind the n bytes that are left. *)
LEMMA Refilled ==
  ASSUME FrameTypes, SizeKnown, conn.proto \in Streams, NEW m \in [1..BufferSize -> Nat],
         NEW n \in 0..BufferSize, SubSeq(m, 1, n) = Remaining,
         NEW k \in Nat, k <= Len(conn.bytes) - taken
  PROVE  /\ Loaded(m, n, Remaining)
         /\ n + k <= BufferSize =>
              /\ SubSeq(Fill(m, n, Chunk(k)), 1, n + k) = Remaining \o Chunk(k)
              /\ Loaded(Fill(m, n, Chunk(k)), n + k, Remaining \o Chunk(k))
<1>0. BufferSize \in Nat /\ n \in Nat
  BY WireTypes
<1>1. PICK d \in Seq(Nat) : d = Chunk(k) /\ Len(d) = k
  BY ChunkBytes
<1>2. Loaded(m, n, Remaining)
  <2>1. expected # 0 => Peek(conn.proto, Remaining).code = "OK" /\ Peek(conn.proto, Remaining).total = expected
    BY DEF SizeKnown, Streams
  <2> QED
    BY <2>1 DEF Loaded
<1>3. ASSUME n + k <= BufferSize
      PROVE  /\ SubSeq(Fill(m, n, Chunk(k)), 1, n + k) = Remaining \o Chunk(k)
             /\ Loaded(Fill(m, n, Chunk(k)), n + k, Remaining \o Chunk(k))
  <2>1. /\ Fill(m, n, d) \in [1..BufferSize -> Nat]
        /\ SubSeq(Fill(m, n, d), 1, n + Len(d)) = SubSeq(m, 1, n) \o d
    BY <1>0, <1>1, <1>3, Filled
  <2>2. SubSeq(Fill(m, n, d), 1, n + k) = Remaining \o d
    BY <1>1, <2>1
  <2>3. expected # 0 => Peek(conn.proto, Remaining \o d).code = "OK"
                          /\ Peek(conn.proto, Remaining \o d).total = expected
    BY SizeStays
  <2>4. n + k \in 0..BufferSize
    BY <1>0, <1>3
  <2>5. Loaded(Fill(m, n, d), n + k, Remaining \o d)
    BY <2>1, <2>2, <2>3, <2>4 DEF Loaded
  <2> QED
    BY <1>1, <2>2, <2>5
<1> QED
  BY <1>2, <1>3

LEMMA LtvFeedEffect ==
  ASSUME FrameTypes, SizeKnown, NEW k \in Nat, k <= Len(conn.bytes) - taken, LtvFeed(k)
  PROVE  FeedEffect(k)
<1>1. conn.proto = "LTV" /\ conn.proto \in Streams
  BY DEF LtvFeed, Streams
<1>2. PICK m, n : m = Shift(mem, buffered, pending) /\ n = buffered - pending
  OBVIOUS
<1>3. BufferSize \in Nat /\ buffered \in 0..BufferSize /\ pending \in 0..buffered
      /\ mem \in [1..BufferSize -> Nat] /\ expected \in Nat
  BY WireTypes DEF FrameTypes
<1>4. m \in [1..BufferSize -> Nat] /\ n \in 0..BufferSize /\ SubSeq(m, 1, n) = Remaining
  <2>1. /\ Shift(mem, buffered, pending) \in [1..BufferSize -> Nat]
        /\ SubSeq(Shift(mem, buffered, pending), 1, buffered - pending) = SubSeq(mem, pending + 1, buffered)
    BY <1>3, Shifted
  <2>2. n \in 0..BufferSize
    BY <1>2, <1>3
  <2> QED
    BY <1>2, <2>1, <2>2, Zenon DEF Remaining
<1>5. LtvFeedTo(k, m, n)
  BY <1>2 DEF LtvFeed
<1>6. CASE Keep("BUFFER_OVERFLOW", m, n, expected) /\ pending' = 0 /\ UNCHANGED taken
  <2>1. Loaded(m, n, Remaining)
    BY <1>1, <1>4, Refilled
  <2>2. Verdict("LTV", "BUFFER_OVERFLOW", Remaining)
    BY DEF Verdict
  <2>3. Progress(Remaining)
    BY <1>1, <1>3, <1>6, <2>1, <2>2, KeepEffect DEF Loaded
  <2>4. 0 \in 0..k
    OBVIOUS
  <2> QED
    BY <1>6, <2>3, <2>4, NoChunk DEF FeedEffect
<1>7. CASE /\ k <= BufferSize - n
           /\ LET peek == LtvPeek(SubSeq(Fill(m, n, Chunk(k)), 1, n + k))
              IN  LtvStep(Fill(m, n, Chunk(k)), n + k, peek, Learnt(peek))
           /\ taken' = taken + k
  <2>1. n + k <= BufferSize
    BY <1>3, <1>4, <1>7
  <2>2. PICK f, C : f = Fill(m, n, Chunk(k)) /\ C = Remaining \o Chunk(k)
    OBVIOUS
  <2>3. SubSeq(f, 1, n + k) = C /\ Loaded(f, n + k, C)
    BY <1>1, <1>4, <2>1, <2>2, Refilled
  <2>4. LtvStep(f, n + k, LtvPeek(C), Learnt(LtvPeek(C)))
    BY <1>7, <2>2, <2>3
  <2>5. Learnt(LtvPeek(C)) = LtvPeek(C).total
    BY <1>1, <2>3, LearntSize, PeekBy
  <2>6. Progress(C)
    BY <1>1, <2>3, <2>4, <2>5, LtvStepEffect
  <2>7. k \in 0..k
    OBVIOUS
  <2> QED
    BY <1>7, <2>2, <2>6, <2>7 DEF FeedEffect
<1> QED
  BY <1>5, <1>6, <1>7, Zenon DEF LtvFeedTo

LEMMA RefuseEffect ==
  ASSUME FrameTypes, SizeKnown, conn.proto \in Streams, conn.proto # "LTV", NEW k \in Nat, Refuse(k)
  PROVE  FeedEffect(k)
<1>1. /\ Answer("BUFFER_OVERFLOW") /\ taken' = taken /\ mem' = mem /\ buffered' = buffered
      /\ expected' = expected /\ pending' = pending
  BY DEF Refuse, parser
<1>2. pending = 0
  BY DEF SizeKnown
<1>3. BufferSize \in Nat /\ buffered \in 0..BufferSize /\ mem \in [1..BufferSize -> Nat] /\ expected \in Nat
  BY WireTypes DEF FrameTypes
<1>4. SubSeq(mem, 1, buffered) = Remaining
  BY <1>2 DEF Remaining
<1>5. 0 <= Len(conn.bytes) - taken
  BY WireTypes DEF FrameTypes
<1>6. Loaded(mem, buffered, Remaining)
  BY <1>3, <1>4, <1>5, Refilled
<1>7. Keep("BUFFER_OVERFLOW", mem, buffered, expected)
  BY <1>1 DEF Keep
<1>8. Verdict(conn.proto, "BUFFER_OVERFLOW", Remaining)
  BY DEF Verdict
<1>9. Progress(Remaining)
  BY <1>1, <1>2, <1>3, <1>6, <1>7, <1>8, KeepEffect DEF Loaded
<1>10. 0 \in 0..k
  OBVIOUS
<1> QED
  BY <1>1, <1>9, <1>10, NoChunk DEF FeedEffect

LEMMA TlvFeedEffect ==
  ASSUME FrameTypes, SizeKnown, NEW k \in Nat, k <= Len(conn.bytes) - taken, TlvFeed(k)
  PROVE  FeedEffect(k)
<1>1. conn.proto = "TLV" /\ conn.proto \in Streams
  BY DEF TlvFeed, Streams
<1>2. BufferSize \in Nat /\ buffered \in 0..BufferSize /\ mem \in [1..BufferSize -> Nat]
  BY WireTypes DEF FrameTypes
<1>3. pending = 0 /\ SubSeq(mem, 1, buffered) = Remaining
  <2>1. pending = 0
    BY <1>1 DEF SizeKnown
  <2>2. 0 + 1 = 1
    OBVIOUS
  <2> QED
    BY <2>1, <2>2, Zenon DEF Remaining
<1>4. CASE Refuse(k)
  BY <1>1, <1>4, RefuseEffect
<1>5. CASE /\ buffered + k <= BufferSize
           /\ LET peek == TlvPeek(SubSeq(Fill(mem, buffered, Chunk(k)), 1, buffered + k))
              IN  TlvStep(Fill(mem, buffered, Chunk(k)), buffered + k, peek, Learnt(peek))
           /\ taken' = taken + k
           /\ UNCHANGED pending
  <2>1. PICK f, C, n : f = Fill(mem, buffered, Chunk(k)) /\ C = Remaining \o Chunk(k) /\ n = buffered + k
    OBVIOUS
  <2>2. SubSeq(f, 1, n) = C /\ Loaded(f, n, C)
    BY <1>1, <1>2, <1>3, <1>5, <2>1, Refilled
  <2>3. TlvStep(f, n, TlvPeek(C), Learnt(TlvPeek(C)))
    BY <1>5, <2>1, <2>2
  <2>4. Learnt(TlvPeek(C)) = TlvPeek(C).total
    BY <1>1, <2>2, LearntSize, PeekBy
  <2>5. Progress(C)
    BY <1>1, <1>3, <1>5, <2>2, <2>3, <2>4, TlvStepEffect
  <2>6. k \in 0..k
    OBVIOUS
  <2> QED
    BY <1>5, <2>1, <2>5, <2>6 DEF FeedEffect
<1> QED
  BY <1>4, <1>5, Zenon DEF TlvFeed

LEMMA TcpFeedEffect ==
  ASSUME FrameTypes, SizeKnown, NEW k \in Nat, k <= Len(conn.bytes) - taken, TcpFeed(k)
  PROVE  FeedEffect(k)
<1>1. conn.proto = "TCP" /\ conn.proto \in Streams
  BY DEF TcpFeed, Streams
<1>2. BufferSize \in Nat /\ buffered \in 0..BufferSize /\ mem \in [1..BufferSize -> Nat]
  BY WireTypes DEF FrameTypes
<1>3. pending = 0 /\ SubSeq(mem, 1, buffered) = Remaining
  <2>1. pending = 0
    BY <1>1 DEF SizeKnown
  <2>2. 0 + 1 = 1
    OBVIOUS
  <2> QED
    BY <2>1, <2>2, Zenon DEF Remaining
<1>4. CASE Refuse(k)
  BY <1>1, <1>4, RefuseEffect
<1>5. CASE /\ buffered + k <= BufferSize
           /\ LET peek == TcpPeek(SubSeq(Fill(mem, buffered, Chunk(k)), 1, buffered + k))
              IN  TcpStep(Fill(mem, buffered, Chunk(k)), buffered + k, peek, Learnt(peek))
           /\ taken' = taken + k
           /\ UNCHANGED pending
  <2>1. PICK f, C, n : f = Fill(mem, buffered, Chunk(k)) /\ C = Remaining \o Chunk(k) /\ n = buffered + k
    OBVIOUS
  <2>2. SubSeq(f, 1, n) = C /\ Loaded(f, n, C)
    BY <1>1, <1>2, <1>3, <1>5, <2>1, Refilled
  <2>3. TcpStep(f, n, TcpPeek(C), Learnt(TcpPeek(C)))
    BY <1>5, <2>1, <2>2
  <2>4. Learnt(TcpPeek(C)) = TcpPeek(C).total
    BY <1>1, <2>2, LearntSize, PeekBy
  <2>5. Progress(C)
    BY <1>1, <1>3, <1>5, <2>2, <2>3, <2>4, TcpStepEffect
  <2>6. k \in 0..k
    OBVIOUS
  <2> QED
    BY <1>5, <2>1, <2>5, <2>6 DEF FeedEffect
<1> QED
  BY <1>4, <1>5, Zenon DEF TcpFeed

(* What the recursion in FlattenSeq computes. *)
FlatOf(F, g) == g = [i \in 1..Len(F) |-> IF i = 1 THEN F[i] ELSE g[i - 1] \o F[i]]

LEMMA FlatChoice ==
  ASSUME NEW F
  PROVE  FlattenSeq(F) = IF Len(F) = 0 THEN F ELSE (CHOOSE g : FlatOf(F, g))[Len(F)]
BY Zenon DEF FlattenSeq, FlatOf

LEMMA FlatExists ==
  ASSUME NEW F \in Seq(Seq(Nat)), Len(F) # 0
  PROVE  \E g \in [1..Len(F) -> Seq(Nat)] : FlatOf(F, g)
<1> DEFINE prev == [n \in 1..Len(F) |-> n - 1]
           step == [n \in 1..Len(F) |-> [v \in Seq(Nat) |-> v \o F[n]]]
<1>0. Len(F) \in Nat /\ 1 <= Len(F)
  OBVIOUS
<1>1. \A n \in 1..Len(F) : F[n] \in Seq(Nat)
  OBVIOUS
<1>2. \A n \in 1..Len(F) : \A v \in Seq(Nat) : step[n][v] = v \o F[n] /\ step[n][v] \in Seq(Nat)
  BY <1>1, Joined
<1>3. \A n \in 1..Len(F) : prev[n] = n - 1
  OBVIOUS
<1> HIDE DEF prev, step
<1>4. Scheme(1, Len(F), Seq(Nat), {1}, F, prev, step)
  <2>1. \A n \in 1..Len(F) : n \notin {1} => prev[n] \in 1..Len(F) /\ prev[n] < n
    BY <1>0, <1>3
  <2>2. \A n \in 1..Len(F) : n \notin {1} => \A v \in Seq(Nat) : step[n][v] \in Seq(Nat)
    BY <1>2
  <2>3. \A n \in 1..Len(F) : n \in {1} => F[n] \in Seq(Nat)
    BY <1>1
  <2> QED
    BY <1>0, <2>1, <2>2, <2>3, Zenon DEF Scheme
<1>5. PICK g \in [1..Len(F) -> Seq(Nat)] : Solves(g, 1, Len(F), {1}, F, prev, step)
  BY <1>4, SolutionExists
<1>6. \A n \in 1..Len(F) : g[n] = IF n = 1 THEN F[n] ELSE g[n - 1] \o F[n]
  <2> TAKE n \in 1..Len(F)
  <2>1. CASE n = 1
    BY <2>1, <1>5 DEF Solves
  <2>2. CASE n # 1
    <3>1. n - 1 \in 1..Len(F) /\ n \notin {1}
      BY <2>2, <1>0
    <3>2. g[n] = step[n][g[prev[n]]]
      BY <3>1, <1>5 DEF Solves
    <3>3. g[n - 1] \in Seq(Nat)
      BY <3>1
    <3> QED
      BY <2>2, <3>2, <3>3, <1>2, <1>3
  <2> QED
    BY <2>1, <2>2
<1>7. g = [n \in 1..Len(F) |-> g[n]]
  OBVIOUS
<1>8. FlatOf(F, g)
  BY <1>6, <1>7, Zenon DEF FlatOf
<1> QED
  BY <1>8

Flattens(F, g) == \A i \in 1..Len(F) : g[i] = IF i = 1 THEN F[i] ELSE g[i - 1] \o F[i]

SameUpTo(f, g, n) == \A i \in 1..n : f[i] = g[i]

LEMMA FlatSame ==
  ASSUME NEW F \in Seq(Seq(Nat)), NEW f, NEW g, Flattens(F, f), Flattens(F, g)
  PROVE  SameUpTo(f, g, Len(F))
<1> SUFFICES \A n \in 1..Len(F) : f[n] = g[n]
  BY DEF SameUpTo
<1> DEFINE T == {n \in 1..Len(F) : f[n] # g[n]}
<1> SUFFICES ASSUME T # {} PROVE FALSE
  OBVIOUS
<1>1. PICK n \in T : \A y \in T : n <= y
  <2>1. T \subseteq Nat
    OBVIOUS
  <2> HIDE DEF T
  <2> QED
    BY <2>1, Least
<1>2. n # 1
  BY DEF Flattens
<1>3. n - 1 \in 1..Len(F) /\ n - 1 \notin T
  BY <1>1, <1>2
<1>4. f[n - 1] = g[n - 1]
  BY <1>3
<1> QED
  BY <1>2, <1>4 DEF Flattens

LEMMA FlatSolved ==
  ASSUME NEW F \in Seq(Seq(Nat)), Len(F) # 0, NEW g, FlatOf(F, g)
  PROVE  FlattenSeq(F) = g[Len(F)]
<1>1. Len(F) \in 1..Len(F) /\ Len(F) \in Nat
  OBVIOUS
<1>2. PICK c : FlatOf(F, c) /\ FlattenSeq(F) = c[Len(F)]
  BY FlatExists, FlatChoice
<1>3. Flattens(F, c)
  BY <1>2 DEF FlatOf, Flattens
<1>4. Flattens(F, g)
  BY DEF FlatOf, Flattens
<1>5. \A n \in 1..Len(F) : c[n] = g[n]
  BY <1>3, <1>4, FlatSame DEF SameUpTo
<1> QED
  BY <1>1, <1>2, <1>5

LEMMA FlatEmpty == FlattenSeq(<< >>) = << >>
BY DEF FlattenSeq

LEMMA FlatBytes ==
  ASSUME NEW F \in Seq(Seq(Nat))
  PROVE  FlattenSeq(F) \in Seq(Nat)
<1>1. CASE Len(F) = 0
  <2>1. F = << >>
    BY <1>1
  <2>2. << >> \in Seq(Nat)
    OBVIOUS
  <2> QED
    BY <2>1, <2>2, FlatEmpty, Zenon
<1>2. CASE Len(F) # 0
  <2>1. PICK g \in [1..Len(F) -> Seq(Nat)] : FlatOf(F, g)
    BY <1>2, FlatExists
  <2>3. Len(F) \in 1..Len(F)
    BY <1>2
  <2>2. g[Len(F)] \in Seq(Nat)
    BY <2>3
  <2> QED
    BY <1>2, <2>1, <2>2, FlatSolved
<1> QED
  BY <1>1, <1>2

LEMMA FlatAppend ==
  ASSUME NEW F \in Seq(Seq(Nat)), NEW f \in Seq(Nat)
  PROVE  FlattenSeq(Append(F, f)) = FlattenSeq(F) \o f
<1>1. PICK G : G = Append(F, f)
  OBVIOUS
<1>2. /\ G \in Seq(Seq(Nat)) /\ Len(G) = Len(F) + 1 /\ G[Len(F) + 1] = f /\ Len(F) \in Nat
      /\ \A i \in 1..Len(F) : G[i] = F[i]
  BY <1>1
<1>3. PICK h \in [1..Len(G) -> Seq(Nat)] : FlatOf(G, h)
  BY <1>2, FlatExists
<1>4. FlattenSeq(G) = h[Len(G)]
  BY <1>2, <1>3, FlatSolved
<1>5. \A i \in 1..Len(G) : h[i] = IF i = 1 THEN G[i] ELSE h[i - 1] \o G[i]
  BY <1>3 DEF FlatOf
<1>6. CASE Len(F) = 0
  <2>1. F = << >>
    BY <1>6
  <2>2. h[1] = f
    BY <1>2, <1>5, <1>6
  <2>3. << >> \o f = f
    OBVIOUS
  <2> QED
    BY <1>1, <1>2, <1>4, <1>6, <2>1, <2>2, <2>3, FlatEmpty
<1>7. CASE Len(F) # 0
  <2>1. PICK g \in [1..Len(F) -> Seq(Nat)] : FlatOf(F, g)
    BY <1>7, FlatExists
  <2>2. FlattenSeq(F) = g[Len(F)]
    BY <1>7, <2>1, FlatSolved
  <2>3. Flattens(F, g)
    BY <2>1 DEF FlatOf, Flattens
  <2>4. Flattens(F, h)
    <3> SUFFICES ASSUME NEW i \in 1..Len(F)
                 PROVE  h[i] = IF i = 1 THEN F[i] ELSE h[i - 1] \o F[i]
      BY DEF Flattens
    <3>1. i \in 1..Len(G) /\ G[i] = F[i]
      BY <1>2
    <3>2. h[i] = IF i = 1 THEN G[i] ELSE h[i - 1] \o G[i]
      BY <1>5, <3>1
    <3> QED
      BY <3>1, <3>2, Zenon
  <2>5. \A n \in 1..Len(F) : g[n] = h[n]
    <3>1. SameUpTo(g, h, Len(F))
      BY <2>3, <2>4, FlatSame
    <3> QED
      BY <3>1 DEF SameUpTo
  <2>6. Len(F) \in 1..Len(F)
    BY <1>2, <1>7
  <2>7. h[Len(F) + 1] = h[Len(F)] \o f
    <3>1. Len(F) + 1 \in 1..Len(G) /\ Len(F) + 1 # 1 /\ (Len(F) + 1) - 1 = Len(F)
      BY <1>2, <1>7
    <3> QED
      BY <1>2, <1>5, <3>1
  <2> QED
    BY <1>1, <1>2, <1>4, <2>2, <2>5, <2>6, <2>7
<1> QED
  BY <1>6, <1>7

LastBytes(d, n) == SubSeq(d, Len(d) - n + 1, Len(d))

(* The body of OneShot on the bytes s, with the value f of the rest. *)
FoundIn(p, s, rest) ==
  IF Parse(p, s).code # "OK" THEN [frames |-> << >>, end |-> Parse(p, s).code]
  ELSE [frames |-> <<SubSeq(s, 1, Parse(p, s).total)>> \o rest.frames, end |-> rest.end]

FoundBy(p, d, f) ==
  f = [n \in 0..Len(d) |-> FoundIn(p, LastBytes(d, n), f[n - Parse(p, LastBytes(d, n)).total])]

LEMMA FoundChoice ==
  ASSUME NEW p, NEW d
  PROVE  OneShot(p, d) = (CHOOSE f : FoundBy(p, d, f))[Len(d)]
BY Zenon DEF OneShot, FoundBy, FoundIn, LastBytes

LEMMA LastBytesAre ==
  ASSUME NEW d \in Seq(Nat), NEW n \in 0..Len(d)
  PROVE  LastBytes(d, n) \in Seq(Nat) /\ Len(LastBytes(d, n)) = n
BY DEF LastBytes

(* f is right about the last bytes of d, up to n of them. *)
RightOn(p, d, f, b) ==
  \A n \in 0..b : f[n] = FoundIn(p, LastBytes(d, n), f[n - Parse(p, LastBytes(d, n)).total])

(* What FoundIn takes and gives. *)
Findings(E) == [frames : Seq(Seq(Nat)), end : E]

LEMMA FindingsAre ==
  ASSUME NEW E, NEW v \in Findings(E)
  PROVE  v.frames \in Seq(Seq(Nat)) /\ v.end \in E /\ v = [frames |-> v.frames, end |-> v.end]
BY DEF Findings

LEMMA MoreFrames ==
  ASSUME NEW E, NEW v \in Findings(E), NEW f \in Seq(Nat)
  PROVE  [frames |-> <<f>> \o v.frames, end |-> v.end] \in Findings(E)
<1>1. v.frames \in Seq(Seq(Nat)) /\ v.end \in E
  BY FindingsAre
<1>2. PICK F : F = <<f>> \o v.frames
  OBVIOUS
<1>3. F \in Seq(Seq(Nat))
  BY <1>1, <1>2
<1>4. PICK x : x = v.end
  OBVIOUS
<1>5. x \in E
  BY <1>1, <1>4
<1>6. [frames |-> F, end |-> x] \in Findings(E)
  BY <1>3, <1>5 DEF Findings
<1> QED
  BY <1>2, <1>4, <1>6, Zenon

LEMMA FoundExists ==
  ASSUME NEW p \in Streams, NEW d \in Seq(Nat)
  PROVE  \E E : \E f \in [0..Len(d) -> Findings(E)] : FoundBy(p, d, f)
<1> DEFINE P(n) == Parse(p, LastBytes(d, n))
           E == {P(n).code : n \in 0..Len(d)}
           N == 0..Len(d)
           V == Findings(E)
           stop == {n \in N : P(n).code # "OK"}
           base == [n \in N |-> [frames |-> << >>, end |-> P(n).code]]
           prev == [n \in N |-> n - P(n).total]
           step == [n \in N |-> [v \in V |->
                     [frames |-> <<SubSeq(LastBytes(d, n), 1, P(n).total)>> \o v.frames, end |-> v.end]]]
<1>0. 0 \in Nat /\ Len(d) \in Nat /\ 0 <= Len(d) /\ N \subseteq Nat
  OBVIOUS
<1>1. \A n \in N : n \notin stop => P(n).code = "OK" /\ P(n).total \in 1..n
  <2> SUFFICES ASSUME NEW n \in N, P(n).code = "OK" PROVE P(n).total \in 1..n
    OBVIOUS
  <2>1. LastBytes(d, n) \in Seq(Nat) /\ Len(LastBytes(d, n)) = n
    BY LastBytesAre
  <2> QED
    BY <2>1, ParseOk
<1>2. \A n \in N : n \notin stop => SubSeq(LastBytes(d, n), 1, P(n).total) \in Seq(Nat)
  <2> SUFFICES ASSUME NEW n \in N, n \notin stop
               PROVE  SubSeq(LastBytes(d, n), 1, P(n).total) \in Seq(Nat)
    OBVIOUS
  <2>1. PICK s, t : s = LastBytes(d, n) /\ t = P(n).total
    OBVIOUS
  <2>2. s \in Seq(Nat) /\ Len(s) = n /\ t \in 1..n
    BY <2>1, <1>1, LastBytesAre
  <2>3. SubSeq(s, 1, t) \in Seq(Nat)
    BY <2>2
  <2> QED
    BY <2>1, <2>3
<1>3. \A n \in N : base[n] = [frames |-> << >>, end |-> P(n).code] /\ base[n] \in V
  <2> TAKE n \in N
  <2>1. << >> \in Seq(Seq(Nat)) /\ P(n).code \in E
    OBVIOUS
  <2>2. base[n] = [frames |-> << >>, end |-> P(n).code]
    OBVIOUS
  <2> HIDE DEF E
  <2> HIDE DEF P
  <2>3. [frames |-> << >>, end |-> P(n).code] \in Findings(E)
    BY <2>1 DEF Findings
  <2> QED
    BY <2>2, <2>3
<1>4. \A n \in N : prev[n] = n - P(n).total
  OBVIOUS
<1>5. \A n \in N : \A v \in V :
        step[n][v] = [frames |-> <<SubSeq(LastBytes(d, n), 1, P(n).total)>> \o v.frames, end |-> v.end]
  OBVIOUS
<1>6. \A n \in N : n \in stop <=> P(n).code # "OK"
  OBVIOUS
<1> HIDE DEF base, prev, step, stop, E, V
<1>7. \A n \in N : n \notin stop => \A v \in V : step[n][v] \in V
  <2> HIDE DEF P, N
  <2> SUFFICES ASSUME NEW n \in N, n \notin stop, NEW v \in V PROVE step[n][v] \in V
    OBVIOUS
  <2>1. PICK f : f = SubSeq(LastBytes(d, n), 1, P(n).total)
    OBVIOUS
  <2>2. f \in Seq(Nat)
    BY <1>2, <2>1
  <2>3. v \in Findings(E)
    BY DEF V
  <2>4. [frames |-> <<f>> \o v.frames, end |-> v.end] \in V
    BY <2>2, <2>3, MoreFrames DEF V
  <2>5. step[n][v] = [frames |-> <<f>> \o v.frames, end |-> v.end]
    BY <1>5, <2>1
  <2> QED
    BY <2>4, <2>5
<1> HIDE DEF P, N
<1>8. \A n \in N : n \notin stop => prev[n] \in N /\ prev[n] < n
  <2> SUFFICES ASSUME NEW n \in N, n \notin stop PROVE prev[n] \in N /\ prev[n] < n
    OBVIOUS
  <2>1. PICK t : t = P(n).total
    OBVIOUS
  <2>2. t \in 1..n /\ prev[n] = n - t /\ n \in 0..Len(d)
    BY <1>1, <1>4, <2>1 DEF N
  <2> QED
    BY <1>0, <2>2 DEF N
<1>9. Scheme(0, Len(d), V, stop, base, prev, step)
  <2>1. \A n \in N : n \in stop => base[n] \in V
    BY <1>3
  <2> QED
    BY <1>0, <2>1, <1>7, <1>8, Zenon DEF Scheme, N
<1>10. PICK f \in [N -> V] : Solves(f, 0, Len(d), stop, base, prev, step)
  BY <1>9, SolutionExists DEF N
<1>11. \A n \in N : f[n] = FoundIn(p, LastBytes(d, n), f[n - P(n).total])
  <2> TAKE n \in N
  <2>1. f[n] = IF n \in stop THEN base[n] ELSE step[n][f[prev[n]]]
    BY <1>10 DEF Solves, N
  <2>2. CASE n \in stop
    <3>1. f[n] = [frames |-> << >>, end |-> P(n).code] /\ P(n).code # "OK"
      BY <2>1, <2>2, <1>3, <1>6
    <3> QED
      BY <3>1 DEF FoundIn, P
  <2>3. CASE n \notin stop
    <3>1. PICK v : v = f[n - P(n).total]
      OBVIOUS
    <3>2. v \in V /\ f[n] = step[n][v] /\ P(n).code = "OK"
      BY <2>1, <2>3, <1>1, <1>4, <1>8, <3>1
    <3>3. f[n] = [frames |-> <<SubSeq(LastBytes(d, n), 1, P(n).total)>> \o v.frames, end |-> v.end]
      BY <3>2, <1>5
    <3> QED
      BY <3>1, <3>2, <3>3 DEF FoundIn, P
  <2> QED
    BY <2>2, <2>3
<1>12. f = [n \in N |-> f[n]]
  OBVIOUS
<1>13. FoundBy(p, d, f)
  BY <1>11, <1>12, Zenon DEF FoundBy, P, N
<1> QED
  BY <1>13 DEF V, N

Alike(f, g, b) == \A n \in 0..b : f[n] = g[n]

LEMMA FoundSame ==
  ASSUME NEW p \in Streams, NEW d \in Seq(Nat), NEW e \in Seq(Nat), NEW b \in Nat,
         b <= Len(d), b <= Len(e), \A n \in 0..b : LastBytes(d, n) = LastBytes(e, n),
         NEW f, RightOn(p, d, f, b), NEW g, RightOn(p, e, g, b)
  PROVE  Alike(f, g, b)
<1> SUFFICES \A n \in 0..b : f[n] = g[n]
  BY DEF Alike
<1> DEFINE T == {n \in 0..b : f[n] # g[n]}
<1> SUFFICES ASSUME T # {} PROVE FALSE
  OBVIOUS
<1>1. PICK n \in T : \A y \in T : n <= y
  <2>1. T \subseteq Nat
    OBVIOUS
  <2> HIDE DEF T
  <2> QED
    BY <2>1, Least
<1>2. PICK s, t : s = LastBytes(d, n) /\ t = Parse(p, s).total
  OBVIOUS
<1>3. s = LastBytes(e, n) /\ n \in 0..b /\ f[n] # g[n]
  BY <1>2
<1>4. f[n] = FoundIn(p, s, f[n - t]) /\ g[n] = FoundIn(p, s, g[n - t])
  BY <1>2, <1>3, Zenon DEF RightOn
<1>5. CASE Parse(p, s).code # "OK"
  BY <1>3, <1>4, <1>5 DEF FoundIn
<1>6. CASE Parse(p, s).code = "OK"
  <2>1. s \in Seq(Nat) /\ Len(s) = n
    BY <1>2, LastBytesAre
  <2>2. t \in 1..n
    BY <1>2, <1>6, <2>1, ParseOk
  <2>3. n - t \in 0..b /\ n - t \notin T
    BY <1>1, <1>3, <2>2
  <2>4. f[n - t] = g[n - t]
    BY <2>3
  <2> QED
    BY <1>3, <1>4, <2>4
<1> QED
  BY <1>5, <1>6

(* A one-shot parse is given by some such function. *)
FoundAs(p, d, f) ==
  /\ RightOn(p, d, f, Len(d)) /\ OneShot(p, d) = f[Len(d)]
  /\ \E E : OneShot(p, d) \in Findings(E)

LEMMA FoundSolved ==
  ASSUME NEW p \in Streams, NEW d \in Seq(Nat)
  PROVE  \E f : FoundAs(p, d, f)
<1>1. PICK E : \E f \in [0..Len(d) -> Findings(E)] : FoundBy(p, d, f)
  BY FoundExists
<1>2. PICK f \in [0..Len(d) -> Findings(E)] : FoundBy(p, d, f)
  BY <1>1
<1>3. PICK c : FoundBy(p, d, c) /\ OneShot(p, d) = c[Len(d)]
  BY <1>2, FoundChoice
<1>4. RightOn(p, d, c, Len(d)) /\ RightOn(p, d, f, Len(d))
  BY <1>2, <1>3 DEF FoundBy, RightOn
<1>5. Len(d) \in Nat /\ Len(d) \in 0..Len(d) /\ Len(d) <= Len(d)
  OBVIOUS
<1>6. Alike(c, f, Len(d))
  BY <1>4, <1>5, FoundSame
<1>7. c[Len(d)] = f[Len(d)]
  BY <1>5, <1>6 DEF Alike
<1>8. f[Len(d)] \in Findings(E)
  BY <1>5
<1> QED
  BY <1>3, <1>4, <1>7, <1>8 DEF FoundAs

LEMMA OneShotFrames ==
  ASSUME NEW p \in Streams, NEW d \in Seq(Nat)
  PROVE  /\ OneShot(p, d).frames \in Seq(Seq(Nat))
         /\ OneShot(p, d) = [frames |-> OneShot(p, d).frames, end |-> OneShot(p, d).end]
<1>1. PICK E : OneShot(p, d) \in Findings(E)
  BY FoundSolved DEF FoundAs
<1> QED
  BY <1>1, FindingsAre

LEMMA AllBytes ==
  ASSUME NEW d \in Seq(Nat)
  PROVE  LastBytes(d, Len(d)) = d
BY DEF LastBytes

(* Where the one-shot parser finds no frame it stops. *)
LEMMA NothingFound ==
  ASSUME NEW p \in Streams, NEW d \in Seq(Nat), Parse(p, d).code # "OK"
  PROVE  OneShot(p, d) = [frames |-> << >>, end |-> Parse(p, d).code]
<1>1. PICK f : FoundAs(p, d, f)
  BY FoundSolved
<1>2. Len(d) \in 0..Len(d)
  OBVIOUS
<1>3. f[Len(d)] = FoundIn(p, d, f[Len(d) - Parse(p, d).total])
  BY <1>1, <1>2, AllBytes, Zenon DEF FoundAs, RightOn
<1> QED
  BY <1>1, <1>3 DEF FoundIn, FoundAs

Behind(d, t) == SubSeq(d, t + 1, Len(d))

(* e is what follows the first t bytes of d. *)
Follows(e, d, t) ==
  /\ e \in Seq(Nat) /\ Len(e) = Len(d) - t
  /\ \A i \in 1..Len(d) - t : e[i] = d[t + i]

SameLast(d, e, b) == \A n \in 0..b : LastBytes(d, n) = LastBytes(e, n)

LEMMA BehindBytes ==
  ASSUME NEW d \in Seq(Nat), NEW t \in 0..Len(d)
  PROVE  Follows(Behind(d, t), d, t)
BY DEF Behind, Follows

LEMMA LastByte ==
  ASSUME NEW d \in Seq(Nat), NEW n \in 0..Len(d), NEW i \in 1..n
  PROVE  LastBytes(d, n)[i] = d[Len(d) - n + i]
<1>1. PICK a : a = Len(d) - n + 1
  OBVIOUS
<1>2. a \in Int /\ a >= 1 /\ i \in 1..Len(d) - a + 1 /\ a + i - 1 = Len(d) - n + i
  BY <1>1
<1>3. SubSeq(d, a, Len(d))[i] = d[a + i - 1]
  BY <1>2
<1> QED
  BY <1>1, <1>2, <1>3 DEF LastBytes

LEMMA SameTail ==
  ASSUME NEW d \in Seq(Nat), NEW e \in Seq(Nat), NEW t \in 0..Len(d), Follows(e, d, t)
  PROVE  SameLast(d, e, Len(e))
<1> SUFFICES \A n \in 0..Len(e) : LastBytes(d, n) = LastBytes(e, n)
  BY DEF SameLast
<1> TAKE n \in 0..Len(e)
<1>0. Len(e) = Len(d) - t /\ \A i \in 1..Len(d) - t : e[i] = d[t + i]
  BY DEF Follows
<1>1. PICK a, b : a = LastBytes(d, n) /\ b = LastBytes(e, n)
  OBVIOUS
<1>2. n \in 0..Len(d)
  BY <1>0
<1>3. a \in Seq(Nat) /\ Len(a) = n /\ b \in Seq(Nat) /\ Len(b) = n
  BY <1>1, <1>2, LastBytesAre
<1>5. \A i \in 1..n : a[i] = b[i]
  <2> TAKE i \in 1..n
  <2>5. Len(e) \in Nat
    OBVIOUS
  <2>6. Len(e) - n + i \in 1..Len(e)
    BY <2>5
  <2>1. Len(e) - n + i \in 1..Len(d) - t
    BY <1>0, <2>6
  <2>2. e[Len(e) - n + i] = d[t + (Len(e) - n + i)]
    BY <1>0, <2>1
  <2>3. t + (Len(e) - n + i) = Len(d) - n + i
    BY <1>0
  <2>4. a[i] = d[Len(d) - n + i] /\ b[i] = e[Len(e) - n + i]
    BY <1>1, <1>2, LastByte
  <2> QED
    BY <2>2, <2>3, <2>4
<1>6. a = b
  BY <1>3, <1>5, SameBytes
<1> QED
  BY <1>1, <1>6

(* A frame it finds comes first, and it goes on behind it. *)
LEMMA FrameFound ==
  ASSUME NEW p \in Streams, NEW d \in Seq(Nat), NEW t, Parse(p, d).code = "OK", Parse(p, d).total = t
  PROVE  /\ OneShot(p, d).frames = <<SubSeq(d, 1, t)>> \o OneShot(p, Behind(d, t)).frames
         /\ OneShot(p, d).end = OneShot(p, Behind(d, t)).end
<1>0. t \in 1..Len(d) /\ Len(d) \in Nat
  BY ParseOk
<1>1. PICK e : e = Behind(d, t)
  OBVIOUS
<1>14. Follows(e, d, t) /\ t \in 0..Len(d)
  BY <1>0, <1>1, BehindBytes
<1>2. e \in Seq(Nat) /\ Len(e) = Len(d) - t
  BY <1>14 DEF Follows
<1>3. \A n \in 0..Len(e) : LastBytes(d, n) = LastBytes(e, n)
  BY <1>2, <1>14, SameTail DEF SameLast
<1>4. PICK f : FoundAs(p, d, f)
  BY FoundSolved
<1>5. PICK g : FoundAs(p, e, g)
  BY <1>2, FoundSolved
<1>6. Len(e) \in Nat /\ Len(e) <= Len(d) /\ Len(e) <= Len(e) /\ Len(e) \in 0..Len(e)
  BY <1>0, <1>2
<1>7. RightOn(p, d, f, Len(e))
  <2>1. \A n \in 0..Len(e) : n \in 0..Len(d)
    BY <1>0, <1>6
  <2> QED
    BY <1>4, <2>1, Zenon DEF FoundAs, RightOn
<1>8. RightOn(p, e, g, Len(e))
  BY <1>5 DEF FoundAs
<1>9. Alike(f, g, Len(e))
  BY <1>2, <1>3, <1>6, <1>7, <1>8, FoundSame
<1>10. f[Len(e)] = OneShot(p, e)
  BY <1>5, <1>6, <1>9 DEF Alike, FoundAs
<1>11. Len(d) \in 0..Len(d)
  OBVIOUS
<1>12. f[Len(d)] = FoundIn(p, d, f[Len(d) - t])
  BY <1>4, <1>11, AllBytes, Zenon DEF FoundAs, RightOn
<1>13. OneShot(p, d) = FoundIn(p, d, OneShot(p, e))
  BY <1>2, <1>4, <1>10, <1>12 DEF FoundAs
<1> QED
  BY <1>1, <1>13 DEF FoundIn

(* Each of F is one frame, as a whole. *)
WholeFrames(p, F) ==
  \A i \in 1..Len(F) : Parse(p, F[i]).code = "OK" /\ Parse(p, F[i]).total = Len(F[i])

(* In front of r the frames F are found one by one. *)
FoundBefore(p, F, r) ==
  /\ OneShot(p, FlattenSeq(F) \o r).frames = F \o OneShot(p, r).frames
  /\ OneShot(p, FlattenSeq(F) \o r).end = OneShot(p, r).end

LEMMA AppendCat ==
  ASSUME NEW S, NEW G \in Seq(S), NEW X \in Seq(S), NEW f \in S
  PROVE  G \o (<<f>> \o X) = Append(G, f) \o X
OBVIOUS

LEMMA CutLast ==
  ASSUME NEW S, NEW H \in Seq(S), Len(H) # 0
  PROVE  \E G \in Seq(S), f \in S :
           /\ H = Append(G, f) /\ Len(H) = Len(G) + 1 /\ H[Len(H)] = f
           /\ \A i \in 1..Len(G) : G[i] = H[i]
<1>1. PICK n : n = Len(H)
  OBVIOUS
<1>2. n \in Nat /\ n >= 1 /\ n - 1 \in Nat
  BY <1>1
<1>3. PICK G : G = [i \in 1..n - 1 |-> H[i]]
  OBVIOUS
<1>4. G \in Seq(S) /\ Len(G) = n - 1 /\ \A i \in 1..n - 1 : G[i] = H[i]
  BY <1>1, <1>2, <1>3
<1>5. H[n] \in S
  BY <1>1, <1>2
<1>6. PICK A : A = Append(G, H[n])
  OBVIOUS
<1>7. A \in Seq(S) /\ Len(A) = n /\ A[n] = H[n] /\ \A i \in 1..n - 1 : A[i] = G[i]
  BY <1>2, <1>4, <1>5, <1>6
<1>8. \A i \in 1..n : A[i] = H[i]
  <2> TAKE i \in 1..n
  <2>1. i = n \/ i \in 1..n - 1
    BY <1>2
  <2> QED
    BY <2>1, <1>4, <1>7
<1>9. A = H
  BY <1>1, <1>7, <1>8
<1> QED
  BY <1>1, <1>2, <1>4, <1>5, <1>6, <1>9

ParsesAlike(p, d, e) == Parse(p, e) = Parse(p, d)

LEMMA ParseCarries ==
  ASSUME NEW p \in Streams, NEW d \in Seq(Nat), NEW e \in Seq(Nat),
         Peek(p, d).code = "OK", Peek(p, d).total <= Len(d), Shares(d, e, Peek(p, d).total)
  PROVE  ParsesAlike(p, d, e)
<1>1. Parse(p, e) = Parse(p, d) /\ Parse(p, d).code # "NEED_MORE"
  BY ParseStable
<1> QED
  BY <1>1 DEF ParsesAlike

GoesOn(p, d, t) ==
  /\ OneShot(p, d).frames = <<SubSeq(d, 1, t)>> \o OneShot(p, Behind(d, t)).frames
  /\ OneShot(p, d).end = OneShot(p, Behind(d, t)).end

LEMMA FrameFoundHere ==
  ASSUME NEW p \in Streams, NEW d \in Seq(Nat), NEW t, Parse(p, d).code = "OK", Parse(p, d).total = t
  PROVE  GoesOn(p, d, t)
<1>1. /\ OneShot(p, d).frames = <<SubSeq(d, 1, t)>> \o OneShot(p, Behind(d, t)).frames
      /\ OneShot(p, d).end = OneShot(p, Behind(d, t)).end
  BY FrameFound
<1> QED
  BY <1>1, Zenon DEF GoesOn

LEMMA OneBefore ==
  ASSUME NEW p \in Streams, NEW f \in Seq(Nat), NEW r \in Seq(Nat),
         Parse(p, f).code = "OK", Parse(p, f).total = Len(f)
  PROVE  /\ OneShot(p, f \o r).frames = <<f>> \o OneShot(p, r).frames
         /\ OneShot(p, f \o r).end = OneShot(p, r).end
<1>1. PICK d : d = f \o r
  OBVIOUS
<1>2. d \in Seq(Nat) /\ Len(d) = Len(f) + Len(r) /\ (\A i \in 1..Len(f) : d[i] = f[i])
  BY <1>1, Joined
<1>3. Parse(p, f) = Peek(p, f) /\ Peek(p, f).code = "OK" /\ Peek(p, f).total = Len(f)
  BY ParseOk
<1>4. Shares(f, d, Len(f))
  BY <1>2 DEF Shares
<1>5. Parse(p, d) = Parse(p, f)
  <2>1. Shares(f, d, Peek(p, f).total)
    BY <1>3, <1>4, Zenon
  <2>3. Len(f) <= Len(f)
    OBVIOUS
  <2>4. Peek(p, f).total <= Len(f)
    BY <1>3, <2>3, Zenon
  <2>2. ParsesAlike(p, f, d)
    BY <1>2, <1>3, <2>1, <2>4, ParseCarries, Zenon
  <2> QED
    BY <2>2, Zenon DEF ParsesAlike
<1>6. SubSeq(d, 1, Len(f)) = f /\ Behind(d, Len(f)) = r
  BY <1>1 DEF Behind
<1>7. GoesOn(p, d, Len(f))
  BY <1>2, <1>5, FrameFoundHere
<1> QED
  BY <1>1, <1>6, <1>7, Zenon DEF GoesOn

LEMMA NoneBefore ==
  ASSUME NEW p \in Streams, NEW r \in Seq(Nat)
  PROVE  FoundBefore(p, << >>, r)
<1>1. << >> \o r = r
  OBVIOUS
<1>2. PICK X : X = OneShot(p, r).frames
  OBVIOUS
<1>3. X \in Seq(Seq(Nat))
  BY <1>2, OneShotFrames
<1>4. << >> \o X = X
  BY <1>3
<1> QED
  BY <1>1, <1>2, <1>4, FlatEmpty, Zenon DEF FoundBefore

Grouped(a, b, c) == (a \o b) \o c = a \o (b \o c)

LEMMA Regroup ==
  ASSUME NEW a \in Seq(Nat), NEW b \in Seq(Nat), NEW c \in Seq(Nat)
  PROVE  Grouped(a, b, c)
BY DEF Grouped

LEMMA MoreBefore ==
  ASSUME NEW p \in Streams, NEW G \in Seq(Seq(Nat)), NEW f \in Seq(Nat), NEW r \in Seq(Nat),
         Parse(p, f).code = "OK", Parse(p, f).total = Len(f), FoundBefore(p, G, f \o r)
  PROVE  FoundBefore(p, Append(G, f), r)
<1>1. PICK g, F : g = FlattenSeq(G) /\ F = Append(G, f)
  OBVIOUS
<1>2. g \in Seq(Nat) /\ FlattenSeq(F) = g \o f
  BY <1>1, FlatBytes, FlatAppend
<1>3. (g \o f) \o r = g \o (f \o r)
  <2>1. Grouped(g, f, r)
    BY <1>2, Regroup
  <2> QED
    BY <2>1, Zenon DEF Grouped
<1>4. PICK X : X = OneShot(p, r).frames
  OBVIOUS
<1>5. X \in Seq(Seq(Nat))
  BY <1>4, OneShotFrames
<1>6. G \o (<<f>> \o X) = F \o X
  BY <1>1, <1>5, AppendCat
<1>7. OneShot(p, f \o r).frames = <<f>> \o X /\ OneShot(p, f \o r).end = OneShot(p, r).end
  BY <1>4, OneBefore
<1>8. OneShot(p, g \o (f \o r)).frames = G \o OneShot(p, f \o r).frames
      /\ OneShot(p, g \o (f \o r)).end = OneShot(p, f \o r).end
  BY <1>1, Zenon DEF FoundBefore
<1>9. FoundBefore(p, F, r)
  BY <1>2, <1>3, <1>4, <1>6, <1>7, <1>8, Zenon DEF FoundBefore
<1> QED
  BY <1>1, <1>9, Zenon

LEMMA AllBefore ==
  ASSUME NEW p \in Streams, NEW F \in Seq(Seq(Nat)), WholeFrames(p, F), NEW r \in Seq(Nat)
  PROVE  FoundBefore(p, F, r)
<1> DEFINE Bad(n) == \E H \in Seq(Seq(Nat)) : \E q \in Seq(Nat) :
                       Len(H) = n /\ WholeFrames(p, H) /\ ~FoundBefore(p, H, q)
           T == {n \in Nat : Bad(n)}
<1>1. T = {}
  <2> SUFFICES ASSUME T # {} PROVE FALSE
    OBVIOUS
  <2>1. PICK n \in T : \A y \in T : n <= y
    <3>1. T \subseteq Nat
      OBVIOUS
    <3> HIDE DEF T
    <3> QED
      BY <3>1, Least
  <2>2. n \in Nat /\ Bad(n)
    OBVIOUS
  <2>3. PICK H \in Seq(Seq(Nat)), q \in Seq(Nat) :
          Len(H) = n /\ WholeFrames(p, H) /\ ~FoundBefore(p, H, q)
    BY <2>2
  <2>4. n # 0
    <3> SUFFICES ASSUME n = 0 PROVE FALSE
      OBVIOUS
    <3>1. H = << >>
      BY <2>3
    <3> QED
      BY <2>3, <3>1, NoneBefore
  <2>5. PICK G \in Seq(Seq(Nat)), f \in Seq(Nat) :
          /\ H = Append(G, f) /\ Len(H) = Len(G) + 1 /\ H[Len(H)] = f
          /\ \A i \in 1..Len(G) : G[i] = H[i]
    BY <2>3, <2>4, CutLast
  <2>6. Len(G) = n - 1 /\ f = H[n] /\ H = Append(G, f)
    BY <2>2, <2>3, <2>4, <2>5
  <2>8. WholeFrames(p, G)
    <3>1. \A i \in 1..Len(G) : G[i] = H[i] /\ i \in 1..Len(H)
      BY <2>2, <2>3, <2>5, <2>6
    <3> QED
      BY <2>3, <3>1, Zenon DEF WholeFrames
  <2>9. n \in 1..n
    BY <2>2, <2>4
  <2>10. Parse(p, f).code = "OK" /\ Parse(p, f).total = Len(f)
    BY <2>3, <2>6, <2>9, Zenon DEF WholeFrames
  <2>11. f \o q \in Seq(Nat)
    BY <2>6
  <2>12. n - 1 \in Nat /\ ~(n <= n - 1)
    BY <2>2, <2>4
  <2>13. n - 1 \notin T
    BY <2>1, <2>12
  <2>14. ~Bad(n - 1)
    BY <2>12, <2>13
  <2>15. FoundBefore(p, G, f \o q)
    BY <2>6, <2>8, <2>11, <2>14
  <2> QED
    BY <2>3, <2>6, <2>10, <2>15, MoreBefore
<1>2. Len(F) \in Nat
  OBVIOUS
<1>3. ~Bad(Len(F))
  BY <1>1, <1>2
<1> QED
  BY <1>3

LEMMA Cut ==
  ASSUME NEW s \in Seq(Nat), NEW a \in Nat, NEW b \in Nat, a <= b, b <= Len(s)
  PROVE  /\ SubSeq(s, a + 1, b) \in Seq(Nat) /\ Len(SubSeq(s, a + 1, b)) = b - a
         /\ \A i \in 1..b - a : SubSeq(s, a + 1, b)[i] = s[a + i]
<1>1. PICK x : x = SubSeq(s, a + 1, b)
  OBVIOUS
<1>2. x \in Seq(Nat) /\ Len(x) = b - a
  BY <1>1
<1>3. \A i \in 1..b - a : x[i] = s[a + i]
  BY <1>1
<1> QED
  BY <1>1, <1>2, <1>3

CutsJoin(s, a, b, k) ==
  SubSeq(s, a + 1, b + k) = SubSeq(s, a + 1, b) \o SubSeq(s, b + 1, b + k)

LEMMA CutJoin ==
  ASSUME NEW s \in Seq(Nat), NEW a \in Nat, NEW b \in Nat, NEW k \in Nat, a <= b, b + k <= Len(s)
  PROVE  CutsJoin(s, a, b, k)
<1> USE DEF CutsJoin
<1>0. b <= Len(s) /\ b <= b + k /\ a <= b + k /\ b + k \in Nat
  OBVIOUS
<1>1. PICK x, y, z : x = SubSeq(s, a + 1, b) /\ y = SubSeq(s, b + 1, b + k) /\ z = SubSeq(s, a + 1, b + k)
  OBVIOUS
<1>9. /\ x \in Seq(Nat) /\ Len(x) = b - a
      /\ \A i \in 1..b - a : x[i] = s[a + i]
  BY <1>0, <1>1, Cut
<1>10. /\ y \in Seq(Nat) /\ Len(y) = (b + k) - b
      /\ \A i \in 1..(b + k) - b : y[i] = s[b + i]
  BY <1>0, <1>1, Cut
<1>11. /\ z \in Seq(Nat) /\ Len(z) = (b + k) - a
      /\ \A i \in 1..(b + k) - a : z[i] = s[a + i]
  BY <1>0, <1>1, Cut
<1>12. (b + k) - b = k /\ (b + k) - a = b - a + k
  OBVIOUS
<1>2. /\ x \in Seq(Nat) /\ Len(x) = b - a /\ y \in Seq(Nat) /\ Len(y) = k
      /\ z \in Seq(Nat) /\ Len(z) = b - a + k
  BY <1>9, <1>10, <1>11, <1>12
<1>3. /\ \A i \in 1..b - a : x[i] = s[a + i]
      /\ \A i \in 1..k : y[i] = s[b + i]
      /\ \A i \in 1..b - a + k : z[i] = s[a + i]
  BY <1>9, <1>10, <1>11, <1>12
<1>4. PICK w : w = x \o y
  OBVIOUS
<1>13. /\ w \in Seq(Nat) /\ Len(w) = Len(x) + Len(y) /\ \A i \in 1..Len(x) : w[i] = x[i]
      /\ \A i \in Len(x) + 1..Len(x) + Len(y) : w[i] = y[i - Len(x)]
  BY <1>9, <1>10, <1>4, Joined
<1>5. /\ w \in Seq(Nat) /\ Len(w) = b - a + k /\ \A i \in 1..Len(x) : w[i] = x[i]
      /\ \A i \in Len(x) + 1..Len(x) + Len(y) : w[i] = y[i - Len(x)]
  BY <1>2, <1>13
<1>6. \A i \in 1..Len(z) : z[i] = w[i]
  <2> TAKE i \in 1..Len(z)
  <2>1. CASE i \in 1..b - a
    BY <2>1, <1>2, <1>3, <1>5
  <2>2. CASE i \in b - a + 1..b - a + k
    <3>1. i - (b - a) \in 1..k /\ b + (i - (b - a)) = a + i
      BY <2>2
    <3>2. w[i] = y[i - (b - a)]
      BY <2>2, <1>2, <1>5
    <3>3. z[i] = s[a + i]
      BY <1>2, <1>3
    <3> QED
      BY <1>3, <3>1, <3>2, <3>3
  <2> QED
    BY <1>2, <2>1, <2>2
<1>7. z = w
  BY <1>2, <1>5, <1>6, SameBytes
<1> QED
  BY <1>1, <1>2, <1>4, <1>7

(* The frames F are whole and, with the bytes R behind them, make up A. *)
Sound(p, F, R, A) == WholeFrames(p, F) /\ FlattenSeq(F) \o R = A

LEMMA SoundKept ==
  ASSUME NEW p, NEW F \in Seq(Seq(Nat)), NEW R \in Seq(Nat), NEW A \in Seq(Nat), NEW c \in Seq(Nat),
         Sound(p, F, R, A)
  PROVE  Sound(p, F, R \o c, A \o c)
<1>1. PICK g : g = FlattenSeq(F)
  OBVIOUS
<1>2. g \in Seq(Nat) /\ g \o R = A
  BY <1>1, FlatBytes DEF Sound
<1>3. g \o (R \o c) = (g \o R) \o c
  <2>1. Grouped(g, R, c)
    BY <1>2, Regroup
  <2> QED
    BY <2>1, Zenon DEF Grouped
<1> QED
  BY <1>1, <1>2, <1>3, Zenon DEF Sound

LEMMA CutTwo ==
  ASSUME NEW C \in Seq(Nat), NEW t \in 0..Len(C)
  PROVE  /\ SubSeq(C, 1, t) \in Seq(Nat) /\ Len(SubSeq(C, 1, t)) = t
         /\ SubSeq(C, t + 1, Len(C)) \in Seq(Nat)
         /\ SubSeq(C, 1, t) \o SubSeq(C, t + 1, Len(C)) = C
<1>1. PICK n, k : n = Len(C) /\ k = n - t
  OBVIOUS
<1>2. n \in Nat /\ t \in Nat /\ k \in Nat /\ 0 <= t /\ t <= n /\ t + k = n /\ 0 + 1 = 1 /\ t - 0 = t
  BY <1>1
<1>3. SubSeq(C, 0 + 1, t) \in Seq(Nat) /\ Len(SubSeq(C, 0 + 1, t)) = t - 0
  BY <1>1, <1>2, Cut
<1>4. SubSeq(C, t + 1, n) \in Seq(Nat)
  BY <1>1, <1>2, Cut
<1>5. SubSeq(C, 0 + 1, t + k) = SubSeq(C, 0 + 1, t) \o SubSeq(C, t + 1, t + k)
  <2>1. 0 \in Nat /\ t + k <= Len(C)
    BY <1>1, <1>2
  <2>2. CutsJoin(C, 0, t, k)
    BY <1>2, <2>1, CutJoin
  <2> QED
    BY <2>2, Zenon DEF CutsJoin
<1>6. SubSeq(C, 1, n) = C
  BY <1>1
<1> QED
  BY <1>1, <1>2, <1>3, <1>4, <1>5, <1>6, Zenon

LEMMA FirstIsWhole ==
  ASSUME NEW p \in Streams, NEW C \in Seq(Nat), NEW t, Parse(p, C).code = "OK", Parse(p, C).total = t
  PROVE  Parse(p, SubSeq(C, 1, t)).code = "OK" /\ Parse(p, SubSeq(C, 1, t)).total = t
<1>1. PICK f : f = SubSeq(C, 1, t)
  OBVIOUS
<1>2. Parse(p, C) = Peek(p, C) /\ t \in 1..Len(C)
  BY ParseOk
<1>3. f \in Seq(Nat) /\ Len(f) = t /\ \A i \in 1..t : f[i] = C[i]
  BY <1>1, <1>2
<1>4. Shares(C, f, t)
  BY <1>2, <1>3 DEF Shares
<1>5. t <= Len(C)
  BY <1>2
<1>6. ParsesAlike(p, C, f)
  BY <1>2, <1>3, <1>4, <1>5, ParseCarries
<1> QED
  BY <1>1, <1>6 DEF ParsesAlike

LEMMA SoundGiven ==
  ASSUME NEW p \in Streams, NEW F \in Seq(Seq(Nat)), NEW C \in Seq(Nat), NEW A \in Seq(Nat), NEW t,
         Sound(p, F, C, A), Parse(p, C).code = "OK", Parse(p, C).total = t
  PROVE  Sound(p, Append(F, SubSeq(C, 1, t)), SubSeq(C, t + 1, Len(C)), A)
<1>1. PICK f, r : f = SubSeq(C, 1, t) /\ r = SubSeq(C, t + 1, Len(C))
  OBVIOUS
<1>2. t \in 1..Len(C) /\ t \in 0..Len(C)
  BY ParseOk
<1>3. f \in Seq(Nat) /\ Len(f) = t /\ r \in Seq(Nat) /\ f \o r = C
  BY <1>1, <1>2, CutTwo
<1>4. Parse(p, f).code = "OK" /\ Parse(p, f).total = Len(f)
  <2>1. Parse(p, SubSeq(C, 1, t)).code = "OK" /\ Parse(p, SubSeq(C, 1, t)).total = t
    BY FirstIsWhole
  <2>2. Parse(p, f).code = "OK" /\ Parse(p, f).total = t
    BY <1>1, <2>1, Zenon
  <2> QED
    BY <1>3, <2>2, Zenon
<1>5. PICK g, G : g = FlattenSeq(F) /\ G = Append(F, f)
  OBVIOUS
<1>6. g \in Seq(Nat) /\ FlattenSeq(G) = g \o f /\ g \o C = A
  BY <1>3, <1>5, FlatBytes, FlatAppend DEF Sound
<1>7. (g \o f) \o r = g \o (f \o r)
  <2>1. Grouped(g, f, r)
    BY <1>3, <1>6, Regroup
  <2> QED
    BY <2>1, Zenon DEF Grouped
<1>8. FlattenSeq(G) \o r = A
  BY <1>3, <1>6, <1>7, Zenon
<1>9. WholeFrames(p, G)
  <2>1. Len(G) = Len(F) + 1 /\ Len(F) \in Nat /\ G[Len(F) + 1] = f /\ \A i \in 1..Len(F) : G[i] = F[i]
    BY <1>3, <1>5
  <2>2. \A i \in 1..Len(G) : i \in 1..Len(F) \/ i = Len(F) + 1
    BY <2>1
  <2>3. WholeFrames(p, F)
    BY DEF Sound
  <2> QED
    BY <1>4, <2>1, <2>2, <2>3, Zenon DEF WholeFrames
<1> QED
  BY <1>1, <1>5, <1>8, <1>9, Zenon DEF Sound

LEMMA AcceptedGrows ==
  ASSUME FrameTypes, NEW j \in Nat, j <= Len(conn.bytes) - taken,
         taken' = taken + j, conn' = conn, since' = since
  PROVE  Accepted \in Seq(Nat) /\ Accepted' = Accepted \o Chunk(j)
<1>1. conn.bytes \in Seq(Nat) /\ since \in Nat /\ taken \in Nat /\ since <= taken
      /\ taken + j <= Len(conn.bytes)
  BY WireTypes DEF FrameTypes
<1>2. CutsJoin(conn.bytes, since, taken, j)
  BY <1>1, CutJoin
<1>3. SubSeq(conn.bytes, since + 1, taken) \in Seq(Nat)
  BY <1>1
<1> QED
  BY <1>2, <1>3 DEF Accepted, Chunk, CutsJoin

(* What a stream has returned and kept, and why it answered as it did. *)
Streamed ==
  conn.proto # "RTU" =>
    /\ Sound(conn.proto, delivered, Remaining, Accepted)
    /\ result \notin {"NONE", "OK"} => Verdict(conn.proto, result, Remaining)

LEMMA StreamProtos ==
  ASSUME FrameTypes
  PROVE  conn.proto \in Streams <=> conn.proto # "RTU"
BY WireTypes DEF Streams

LEMMA FeedTypes ==
  ASSUME FrameTypes, NEW k \in Nat, k <= Len(conn.bytes) - taken, FeedEffect(k)
  PROVE  FrameTypes'
<1>1. PICK j \in 0..k : taken' = taken + j /\ Progress(Remaining \o Chunk(j))
  BY DEF FeedEffect
<1>2. conn' = conn /\ since' = since /\ bounds' = bounds /\ BufferSize' = BufferSize
  BY <1>1 DEF Progress, BufferSize
<1>3. /\ mem' \in [1..BufferSize -> Nat] /\ buffered' \in 0..BufferSize /\ pending' \in 0..buffered'
      /\ expected' \in Nat /\ delivered' \in Seq(Seq(Nat))
  BY <1>1 DEF Progress
<1>4. conn \in Wires /\ since \in Nat /\ taken \in Nat /\ since <= taken /\ bounds \in Seq(Nat)
  BY DEF FrameTypes
<1>5. Len(conn.bytes) \in Nat
  BY WireTypes
<1>6. taken' \in Nat /\ since <= taken' /\ taken' <= Len(conn.bytes)
  BY <1>1, <1>4, <1>5
<1> QED
  BY <1>2, <1>3, <1>4, <1>6 DEF FrameTypes

LEMMA FeedSize ==
  ASSUME FrameTypes, conn.proto # "RTU", NEW k \in Nat, FeedEffect(k)
  PROVE  SizeKnown'
<1>1. PICK j \in 0..k : taken' = taken + j /\ Progress(Remaining \o Chunk(j))
  BY DEF FeedEffect
<1>2. PICK C : C = Remaining \o Chunk(j)
  OBVIOUS
<1>3. Progress(C)
  BY <1>1, <1>2
<1>4. conn' = conn
  BY <1>3 DEF Progress
<1>5. conn.proto # "LTV" => pending' = 0
  BY <1>3 DEF Progress
<1>6. expected' # 0 =>
       /\ pending' = 0 /\ Remaining' = C
       /\ Peek(conn.proto, C).code = "OK" /\ Peek(conn.proto, C).total = expected'
  BY <1>3, Zenon DEF Progress
<1> QED
  BY <1>4, <1>5, <1>6, Zenon DEF SizeKnown

LEMMA FeedSound ==
  ASSUME FrameTypes, Streamed, conn.proto # "RTU", NEW k \in Nat, k <= Len(conn.bytes) - taken,
         FeedEffect(k)
  PROVE  Streamed'
<1>1. PICK j \in 0..k : taken' = taken + j /\ Progress(Remaining \o Chunk(j))
  BY DEF FeedEffect
<1>2. PICK C, c, p : C = Remaining \o c /\ c = Chunk(j) /\ p = conn.proto
  OBVIOUS
<1>3. Progress(C) /\ j \in Nat /\ j <= Len(conn.bytes) - taken
  <2>1. taken \in Nat /\ Len(conn.bytes) \in Nat
    BY WireTypes DEF FrameTypes
  <2> QED
    BY <1>1, <1>2, <2>1
<1>4. conn' = conn /\ since' = since
  BY <1>3 DEF Progress
<1>5. Accepted \in Seq(Nat) /\ Accepted' = Accepted \o c
  BY <1>1, <1>2, <1>3, <1>4, AcceptedGrows
<1>6. c \in Seq(Nat) /\ Remaining \in Seq(Nat) /\ C \in Seq(Nat)
  <2>1. c \in Seq(Nat) /\ Remaining \in Seq(Nat)
    BY <1>2, <1>3, ChunkBytes, RemainingBytes
  <2> QED
    BY <1>2, <2>1, Joined
<1>7. p \in Streams /\ delivered \in Seq(Seq(Nat)) /\ Sound(p, delivered, Remaining, Accepted)
  BY <1>2, StreamProtos DEF Streamed, FrameTypes
<1>8. Sound(p, delivered, C, Accepted')
  BY <1>2, <1>5, <1>6, <1>7, SoundKept
<1>9. CASE Kept(C)
  <2>1. delivered' = delivered /\ Remaining' = C /\ Verdict(p, result', C)
    BY <1>2, <1>9, Zenon DEF Kept
  <2> QED
    BY <1>2, <1>4, <1>8, <2>1, Zenon DEF Streamed
<1>10. CASE Given(C)
  <2>1. PICK t : t = Parse(p, C).total
    OBVIOUS
  <2>2. /\ Parse(p, C).code = "OK" /\ delivered' = Append(delivered, SubSeq(C, 1, t))
        /\ Remaining' = SubSeq(C, t + 1, Len(C)) /\ result' = "OK"
    BY <1>2, <1>10, <2>1, Zenon DEF Given
  <2>3. Accepted' \in Seq(Nat)
    BY <1>5, <1>6, Joined
  <2>4. Sound(p, Append(delivered, SubSeq(C, 1, t)), SubSeq(C, t + 1, Len(C)), Accepted')
    BY <1>6, <1>7, <1>8, <2>1, <2>2, <2>3, SoundGiven
  <2>5. Sound(p, delivered', Remaining', Accepted') /\ result' \in {"NONE", "OK"}
    BY <2>2, <2>4
  <2> QED
    BY <1>2, <1>4, <2>5, Zenon DEF Streamed
<1> QED
  BY <1>3, <1>9, <1>10 DEF Progress

(* Where the invariant leads: the one-shot parser finds the same. *)
SameAsOneShot ==
  LET whole == OneShot(conn.proto, Accepted)
  IN  /\ IsPrefix(delivered, whole.frames)
      /\ result = "NEED_MORE" => delivered = whole.frames /\ whole.end = "NEED_MORE"
      /\ result \notin {"NONE", "OK", "NEED_MORE", "BUFFER_OVERFLOW"} =>
           \/ delivered = whole.frames /\ whole.end = result
           \/ conn.proto = "TLV" /\ result = "INVALID_SIZE"

LEMMA PrefixOf ==
  ASSUME NEW S, NEW F \in Seq(S), NEW X \in Seq(S)
  PROVE  IsPrefix(F, F \o X)
BY DEF IsPrefix

LEMMA StreamsAgree ==
  ASSUME FrameTypes, Streamed, conn.proto # "RTU"
  PROVE  FlattenSeq(delivered) \o Remaining = Accepted /\ SameAsOneShot
<1>1. PICK p, F, R, X, e : /\ p = conn.proto /\ F = delivered /\ R = Remaining
                           /\ X = OneShot(p, R).frames /\ e = OneShot(p, R).end
  OBVIOUS
<1>2. p \in Streams /\ F \in Seq(Seq(Nat)) /\ R \in Seq(Nat) /\ WholeFrames(p, F)
      /\ FlattenSeq(F) \o R = Accepted
  BY <1>1, StreamProtos, RemainingBytes DEF FrameTypes, Streamed, Sound
<1>3. X \in Seq(Seq(Nat))
  BY <1>1, <1>2, OneShotFrames
<1>4. FoundBefore(p, F, R)
  BY <1>2, AllBefore
<1>5. OneShot(p, Accepted).frames = F \o X /\ OneShot(p, Accepted).end = e
  BY <1>1, <1>2, <1>4, Zenon DEF FoundBefore
<1>6. IsPrefix(F, F \o X)
  BY <1>2, <1>3, PrefixOf
<1>7. ASSUME Parse(p, R).code = result, result # "OK"
      PROVE  F \o X = F /\ e = result
  <2>1. OneShot(p, R) = [frames |-> << >>, end |-> result]
    BY <1>2, <1>7, NothingFound
  <2>2. X = << >> /\ e = result
    BY <1>1, <2>1
  <2>3. F \o << >> = F
    BY <1>2
  <2> QED
    BY <2>2, <2>3, Zenon
<1>8. result \notin {"NONE", "OK"} => Verdict(p, result, R)
  BY <1>1, Zenon DEF Streamed
<1>9. result = "NEED_MORE" => F \o X = F /\ e = "NEED_MORE"
  BY <1>7, <1>8 DEF Verdict
<1>10. result \notin {"NONE", "OK", "NEED_MORE", "BUFFER_OVERFLOW"} =>
           (F \o X = F /\ e = result) \/ (p = "TLV" /\ result = "INVALID_SIZE")
  BY <1>7, <1>8 DEF Verdict
<1>11. SameAsOneShot
  BY <1>1, <1>5, <1>6, <1>9, <1>10, Zenon DEF SameAsOneShot
<1> QED
  BY <1>1, <1>2, <1>11, Zenon

LastBound == IF bounds = << >> THEN since ELSE bounds[Len(bounds)]

(* RTU: the buffer holds what was accepted behind the last boundary, and   *)
(* each frame is what lay between two.                                     *)
BoundsKept ==
  conn.proto = "RTU" =>
    /\ Len(delivered) = Len(bounds)
    /\ LastBound \in since..taken
    /\ Remaining = SubSeq(conn.bytes, LastBound + 1, taken)
    /\ FlattenSeq(delivered) \o Remaining = Accepted
    /\ \A i \in 1..Len(delivered) : delivered[i] = Between(i) /\ RtuParse(delivered[i]).code = "OK"

LEMMA RtuRest ==
  ASSUME FrameTypes, SizeKnown, conn.proto = "RTU"
  PROVE  pending = 0 /\ Remaining = SubSeq(mem, 1, buffered) /\ Remaining \in Seq(Nat)
<1>1. pending = 0
  BY DEF SizeKnown
<1>2. 0 + 1 = 1
  OBVIOUS
<1>3. Remaining = SubSeq(mem, 1, buffered)
  BY <1>1, <1>2, Zenon DEF Remaining
<1> QED
  BY <1>1, <1>3, RemainingBytes

(* Same parser, same frames. *)
LEMMA BoundsSame ==
  ASSUME BoundsKept, UNCHANGED <<conn, taken, since, mem, buffered, pending, delivered, bounds>>
  PROVE  BoundsKept'
<1>1. Remaining' = Remaining /\ LastBound' = LastBound /\ Accepted' = Accepted
  BY DEF Remaining, LastBound, Accepted
<1>2. \A i \in 1..Len(delivered) : Between(i)' = Between(i)
  BY DEF Between
<1> QED
  BY <1>1, <1>2, Zenon DEF BoundsKept

(* More bytes behind the last boundary. *)
LEMMA BoundsGrow ==
  ASSUME FrameTypes, SizeKnown, BoundsKept, conn.proto = "RTU", NEW k \in Nat,
         k <= Len(conn.bytes) - taken, buffered + k <= BufferSize,
         UNCHANGED <<conn, since, delivered, bounds, pending>>, taken' = taken + k,
         mem' = Fill(mem, buffered, Chunk(k)), buffered' = buffered + k
  PROVE  BoundsKept'
<1>1. pending = 0 /\ Remaining = SubSeq(mem, 1, buffered) /\ Remaining \in Seq(Nat)
  BY RtuRest
<1>2. Chunk(k) \in Seq(Nat) /\ Len(Chunk(k)) = k
  BY ChunkBytes
<1>3. mem \in [1..BufferSize -> Nat] /\ buffered \in Nat
  BY WireTypes DEF FrameTypes
<1>4. SubSeq(Fill(mem, buffered, Chunk(k)), 1, buffered + k) = Remaining \o Chunk(k)
  <2>1. PICK d \in Seq(Nat) : d = Chunk(k) /\ Len(d) = k
    BY <1>2
  <2>2. /\ Fill(mem, buffered, d) \in [1..BufferSize -> Nat]
        /\ SubSeq(Fill(mem, buffered, d), 1, buffered + Len(d)) = SubSeq(mem, 1, buffered) \o d
    BY <1>3, <2>1, Filled
  <2> QED
    BY <1>1, <2>1, <2>2, Zenon
<1>5. Remaining' = Remaining \o Chunk(k)
  <2>1. 0 + 1 = 1 /\ pending' = 0
    BY <1>1
  <2> QED
    BY <1>4, <2>1, Zenon DEF Remaining
<1>6. Accepted \in Seq(Nat) /\ Accepted' = Accepted \o Chunk(k)
  BY AcceptedGrows
<1>7. PICK b : b = LastBound
  OBVIOUS
<1>8. LastBound' = b /\ b \in since..taken /\ since \in Nat /\ taken \in Nat /\ conn.bytes \in Seq(Nat)
  BY <1>7, WireTypes DEF LastBound, BoundsKept, FrameTypes
<1>9. b \in Nat /\ b <= taken /\ taken + k <= Len(conn.bytes) /\ b \in since..taken + k
  BY <1>8
<1>10. CutsJoin(conn.bytes, b, taken, k)
  BY <1>8, <1>9, CutJoin
<1>11. Remaining' = SubSeq(conn.bytes, b + 1, taken + k)
  <2>1. Remaining = SubSeq(conn.bytes, b + 1, taken)
    BY <1>7 DEF BoundsKept
  <2> QED
    BY <1>5, <1>10, <2>1, Zenon DEF CutsJoin, Chunk
<1>12. FlattenSeq(delivered) \o Remaining' = Accepted'
  <2>1. PICK g : g = FlattenSeq(delivered)
    OBVIOUS
  <2>2. g \in Seq(Nat) /\ g \o Remaining = Accepted
    BY <2>1, FlatBytes DEF FrameTypes, BoundsKept
  <2>3. Grouped(g, Remaining, Chunk(k))
    BY <1>1, <1>2, <2>2, Regroup
  <2> QED
    BY <1>5, <1>6, <2>1, <2>2, <2>3, Zenon DEF Grouped
<1>13. \A i \in 1..Len(delivered) : Between(i)' = Between(i)
  BY DEF Between
<1>14. Len(delivered) = Len(bounds)
       /\ \A i \in 1..Len(delivered) : delivered[i] = Between(i) /\ RtuParse(delivered[i]).code = "OK"
  BY Zenon DEF BoundsKept
<1> QED
  BY <1>8, <1>9, <1>11, <1>12, <1>13, <1>14, Zenon DEF BoundsKept

LEMMA Appended ==
  ASSUME NEW S, NEW F \in Seq(S), NEW f \in S
  PROVE  /\ Len(Append(F, f)) = Len(F) + 1 /\ Append(F, f)[Len(F) + 1] = f
         /\ \A i \in 1..Len(F) : Append(F, f)[i] = F[i]
OBVIOUS

GrownBy(F, f) ==
  /\ Len(Append(F, f)) = Len(F) + 1 /\ Append(F, f)[Len(F) + 1] = f
  /\ \A i \in 1..Len(F) : Append(F, f)[i] = F[i]

LEMMA BoundGrown ==
  ASSUME NEW F \in Seq(Nat), NEW f \in Nat
  PROVE  GrownBy(F, f)
BY DEF GrownBy

(* A boundary: the buffered bytes are a frame. *)
LEMMA BoundsAdd ==
  ASSUME FrameTypes, SizeKnown, BoundsKept, conn.proto = "RTU",
         UNCHANGED <<conn, since, taken, mem, pending>>, RtuParse(SubSeq(mem, 1, buffered)).code = "OK",
         delivered' = Append(delivered, SubSeq(mem, 1, buffered)),
         bounds' = Append(bounds, taken), buffered' = 0
  PROVE  BoundsKept'
<1>1. PICK R, n, b : R = Remaining /\ n = Len(delivered) /\ b = LastBound
  OBVIOUS
<1>2. pending = 0 /\ R = SubSeq(mem, 1, buffered) /\ R \in Seq(Nat)
  BY <1>1, RtuRest
<1>3. /\ delivered \in Seq(Seq(Nat)) /\ bounds \in Seq(Nat) /\ n \in Nat /\ Len(bounds) = n
      /\ since \in Nat /\ taken \in Nat /\ since <= taken /\ conn.bytes \in Seq(Nat)
      /\ taken <= Len(conn.bytes)
  BY <1>1, WireTypes DEF FrameTypes, BoundsKept
<1>4. /\ Len(delivered') = n + 1 /\ delivered'[n + 1] = R
      /\ \A i \in 1..n : delivered'[i] = delivered[i]
  <2>1. delivered' = Append(delivered, R) /\ Len(delivered) = n
    BY <1>1, <1>2
  <2>2. /\ Len(Append(delivered, R)) = Len(delivered) + 1 /\ Append(delivered, R)[Len(delivered) + 1] = R
        /\ \A i \in 1..Len(delivered) : Append(delivered, R)[i] = delivered[i]
    BY <1>2, <1>3, Appended
  <2> QED
    BY <2>1, <2>2
<1>5. /\ Len(bounds') = n + 1 /\ bounds'[n + 1] = taken /\ bounds' # << >>
      /\ \A i \in 1..n : bounds'[i] = bounds[i]
  <2>1. GrownBy(bounds, taken)
    BY <1>3, BoundGrown
  <2>2. Len(bounds) = n
    BY <1>3
  <2>3. /\ Len(bounds') = n + 1 /\ bounds'[n + 1] = taken
        /\ \A i \in 1..n : bounds'[i] = bounds[i]
    BY <2>1, <2>2, Zenon DEF GrownBy
  <2>4. n + 1 # 0
    BY <1>3
  <2>5. Len(<< >>) = 0
    OBVIOUS
  <2> QED
    BY <2>3, <2>4, <2>5, Zenon
<1>6. LastBound' = taken /\ taken \in since..taken
  BY <1>3, <1>5 DEF LastBound
<1>7. Remaining' = << >> /\ SubSeq(conn.bytes, taken + 1, taken) = << >>
  <2>1. Remaining' = SubSeq(mem, 0 + 1, 0)
    BY <1>2, Zenon DEF Remaining
  <2>2. SubSeq(mem, 0 + 1, 0) = << >>
    <3>1. mem \in Seq(Nat)
      BY Memory, WireTypes DEF FrameTypes
    <3> QED
      BY <3>1
  <2>3. SubSeq(conn.bytes, taken + 1, taken) = << >>
    BY <1>3
  <2> QED
    BY <2>1, <2>2, <2>3
<1>8. R = SubSeq(conn.bytes, b + 1, taken) /\ FlattenSeq(delivered) \o R = Accepted
  BY <1>1 DEF BoundsKept
<1>9. FlattenSeq(delivered') \o Remaining' = Accepted'
  <2>1. FlattenSeq(Append(delivered, R)) = FlattenSeq(delivered) \o R
    BY <1>2, <1>3, FlatAppend
  <2>2. Accepted' = Accepted /\ Accepted \in Seq(Nat)
    BY <1>3 DEF Accepted
  <2>3. Accepted \o << >> = Accepted
    BY <2>2
  <2> QED
    BY <1>2, <1>7, <1>8, <2>1, <2>2, <2>3, Zenon
<1>10. \A i \in 1..n : Between(i)' = Between(i)
  <2> TAKE i \in 1..n
  <2>1. i # 1 => i - 1 \in 1..n
    BY <1>3
  <2>2. bounds'[i] = bounds[i] /\ (i # 1 => bounds'[i - 1] = bounds[i - 1])
    BY <1>5, <2>1
  <2> QED
    BY <2>2 DEF Between
<1>11. \A i \in 1..n + 1 : i = n + 1 => Between(i)' = R
  <2> SUFFICES ASSUME NEW i \in 1..n + 1, i = n + 1 PROVE Between(i)' = R
    OBVIOUS
  <2>1. Between(i)' = SubSeq(conn.bytes, (IF i = 1 THEN since ELSE bounds'[i - 1]) + 1, bounds'[i])
    BY DEF Between
  <2>2. bounds'[i] = taken
    BY <1>5
  <2>3. (IF i = 1 THEN since ELSE bounds'[i - 1]) = b
    <3>1. CASE n = 0
      BY <1>1, <1>3, <3>1 DEF LastBound
    <3>2. CASE n # 0
      <4>1. bounds # << >> /\ i # 1 /\ i - 1 = n /\ n \in 1..n
        BY <1>3, <3>2
      <4> QED
        BY <1>1, <1>3, <1>5, <4>1 DEF LastBound
    <3> QED
      BY <3>1, <3>2
  <2> QED
    BY <1>8, <2>1, <2>2, <2>3, Zenon
<1>12. \A i \in 1..n + 1 : delivered'[i] = Between(i)' /\ RtuParse(delivered'[i]).code = "OK"
  <2> TAKE i \in 1..n + 1
  <2>1. i \in 1..n \/ i = n + 1
    BY <1>3
  <2>2. \A h \in 1..n : delivered[h] = Between(h) /\ RtuParse(delivered[h]).code = "OK"
    BY <1>1, Zenon DEF BoundsKept
  <2>3. CASE i \in 1..n
    BY <2>2, <2>3, <1>4, <1>10, Zenon
  <2>4. CASE i = n + 1
    BY <2>4, <1>2, <1>4, <1>11, Zenon
  <2> QED
    BY <2>1, <2>3, <2>4
<1> QED
  BY <1>4, <1>5, <1>6, <1>7, <1>9, <1>12, Zenon DEF BoundsKept

FrameInv == FrameTypes /\ SizeKnown /\ Streamed /\ BoundsKept

LEMMA FrameInitially ==
  ASSUME FrameInit
  PROVE  FrameInv
<1>1. conn \in Wires /\ BufferSize \in Nat /\ conn.bytes \in Seq(Nat) /\ conn.proto \in {"LTV", "TLV", "TCP", "RTU"}
  BY FrameAssumption DEF FrameInit, BufferSize
<1>2. mem = [i \in 1..BufferSize |-> 0]
  BY DEF FrameInit
<1>3. mem \in [1..BufferSize -> Nat]
  BY <1>2
<1>4. taken = 0 /\ since = 0 /\ buffered = 0 /\ expected = 0 /\ pending = 0 /\ delivered = << >> /\ bounds = << >>
      /\ result = "NONE"
  BY DEF FrameInit
<1>5. FrameTypes
  BY <1>1, <1>3, <1>4 DEF FrameTypes
<1>6. SizeKnown
  BY <1>4 DEF SizeKnown
<1>7. Remaining = << >> /\ Accepted = << >>
  <2>1. mem \in Seq(Nat)
    BY <1>1, <1>3, Memory
  <2>2. SubSeq(mem, 0 + 1, 0) = << >> /\ SubSeq(conn.bytes, 0 + 1, 0) = << >>
    BY <1>1, <2>1
  <2> QED
    BY <1>4, <2>2, Zenon DEF Remaining, Accepted
<1>8. FlattenSeq(delivered) \o Remaining = Accepted
  <2>1. << >> \o << >> = << >>
    OBVIOUS
  <2> QED
    BY <1>4, <1>7, <2>1, FlatEmpty, Zenon
<1>9. Len(delivered) = 0 /\ Len(bounds) = 0
  BY <1>4
<1>10. WholeFrames(conn.proto, delivered)
  BY <1>9 DEF WholeFrames
<1>11. Streamed
  BY <1>4, <1>8, <1>10 DEF Streamed, Sound
<1>12. LastBound \in since..taken
  BY <1>4 DEF LastBound
<1>13. Remaining = SubSeq(conn.bytes, LastBound + 1, taken)
  <2>1. LastBound = 0
    BY <1>4 DEF LastBound
  <2> QED
    BY <1>1, <1>4, <1>7, <2>1
<1>14. BoundsKept
  BY <1>8, <1>9, <1>12, <1>13 DEF BoundsKept
<1> QED
  BY <1>5, <1>6, <1>11, <1>14 DEF FrameInv

LEMMA StreamKeeps ==
  ASSUME FrameInv, conn.proto # "RTU", NEW k \in Nat, k <= Len(conn.bytes) - taken, FeedEffect(k)
  PROVE  FrameInv'
<1>1. FrameTypes /\ SizeKnown /\ Streamed
  BY DEF FrameInv
<1>2. conn' = conn
  BY DEF FeedEffect, Progress
<1>3. FrameTypes' /\ SizeKnown' /\ Streamed'
  BY <1>1, FeedTypes, FeedSize, FeedSound
<1>4. BoundsKept'
  BY <1>2 DEF BoundsKept
<1> QED
  BY <1>3, <1>4 DEF FrameInv

(* Steps that leave the parser, the bytes and the frames as they are. *)
LEMMA SameKeeps ==
  ASSUME FrameInv, UNCHANGED <<conn, taken, since, parser, delivered, bounds>>,
         result' = result \/ conn.proto = "RTU"
  PROVE  FrameInv'
<1>1. /\ FrameTypes /\ SizeKnown /\ Streamed /\ BoundsKept
      /\ UNCHANGED <<conn, taken, since, mem, buffered, pending, delivered, bounds>>
      /\ UNCHANGED <<mem, buffered, expected, pending>>
  BY DEF FrameInv, parser
<1>2. FrameTypes'
  BY <1>1 DEF FrameTypes, BufferSize
<1>3. Remaining' = Remaining /\ Accepted' = Accepted
  BY <1>1 DEF Remaining, Accepted
<1>4. conn' = conn /\ pending' = pending /\ expected' = expected /\ delivered' = delivered
  BY <1>1
<1>5. SizeKnown'
  BY <1>1, <1>3, <1>4, Zenon DEF SizeKnown
<1>6. Streamed'
  BY <1>1, <1>3, <1>4, Zenon DEF Streamed
<1>7. BoundsKept'
  BY <1>1, BoundsSame
<1> QED
  BY <1>2, <1>5, <1>6, <1>7 DEF FrameInv

LEMMA RtuKeeps ==
  ASSUME FrameInv, NEW k \in Nat, k <= Len(conn.bytes) - taken, RtuFeed(k)
  PROVE  FrameInv'
<1>1. conn.proto = "RTU" /\ FrameTypes /\ SizeKnown /\ BoundsKept
  BY DEF RtuFeed, FrameInv
<1>2. /\ conn \in Wires /\ since \in Nat /\ taken \in Nat /\ since <= taken /\ taken <= Len(conn.bytes)
      /\ mem \in [1..BufferSize -> Nat] /\ BufferSize \in Nat /\ Len(conn.bytes) \in Nat
      /\ buffered \in 0..BufferSize /\ expected \in Nat /\ delivered \in Seq(Seq(Nat)) /\ bounds \in Seq(Nat)
      /\ pending = 0
  BY <1>1, WireTypes DEF FrameTypes, SizeKnown
<1>3. CASE Refuse(k)
  <2>1. UNCHANGED <<conn, taken, since, parser, delivered, bounds>>
    BY <1>3 DEF Refuse, Answer
  <2> QED
    BY <1>1, <2>1, SameKeeps
<1>4. CASE /\ k > 0 /\ buffered + k <= BufferSize
           /\ Keep("NEED_MORE", Fill(mem, buffered, Chunk(k)), buffered + k, expected)
           /\ taken' = taken + k
           /\ UNCHANGED pending
  <2>1. /\ UNCHANGED <<conn, since, delivered, bounds, pending>> /\ taken' = taken + k
        /\ mem' = Fill(mem, buffered, Chunk(k)) /\ buffered' = buffered + k /\ expected' = expected
    BY <1>4 DEF Keep, Answer
  <2>2. BoundsKept'
    BY <1>1, <1>4, <2>1, BoundsGrow
  <2>3. mem' \in [1..BufferSize -> Nat]
    <3>1. PICK d \in Seq(Nat) : d = Chunk(k) /\ Len(d) = k
      BY <1>1, ChunkBytes
    <3>3. buffered \in Nat /\ buffered + Len(d) <= BufferSize
      BY <1>2, <1>4, <3>1
    <3>2. /\ Fill(mem, buffered, d) \in [1..BufferSize -> Nat]
          /\ SubSeq(Fill(mem, buffered, d), 1, buffered + Len(d)) = SubSeq(mem, 1, buffered) \o d
      BY <1>1, <1>2, <3>3, Filled
    <3> QED
      BY <2>1, <3>1, <3>2
  <2>4. FrameTypes'
    BY <1>2, <1>4, <2>1, <2>3 DEF FrameTypes, BufferSize
  <2>5. SizeKnown' /\ Streamed'
    BY <1>1, <1>2, <2>1 DEF SizeKnown, Streamed
  <2> QED
    BY <2>2, <2>4, <2>5 DEF FrameInv
<1>5. CASE k = 0 /\ RtuBoundary(RtuParse(SubSeq(mem, 1, buffered)))
  <2> DEFINE adu == RtuParse(SubSeq(mem, 1, buffered))
  <2>1. CASE adu.code # "OK" /\ Answer(adu.code) /\ UNCHANGED <<taken, parser>>
    <3>1. UNCHANGED <<conn, taken, since, parser, delivered, bounds>>
      BY <2>1 DEF Answer
    <3> QED
      BY <1>1, <3>1, SameKeeps
  <2>2. CASE /\ adu.code = "OK"
             /\ Deliver(SubSeq(mem, 1, buffered), adu.off, adu.size)
             /\ bounds' = Append(bounds, taken)
             /\ buffered' = 0 /\ expected' = 0
             /\ UNCHANGED <<taken, mem, pending, held, used>>
    <3>1. /\ UNCHANGED <<conn, since, taken, mem, pending>> /\ adu.code = "OK"
          /\ delivered' = Append(delivered, SubSeq(mem, 1, buffered))
          /\ bounds' = Append(bounds, taken) /\ buffered' = 0 /\ expected' = 0
      BY <2>2 DEF Deliver
    <3>2. BoundsKept'
      BY <1>1, <3>1, BoundsAdd
    <3>3. SubSeq(mem, 1, buffered) \in Seq(Nat)
      BY <1>1, RtuRest
    <3>4. delivered' \in Seq(Seq(Nat)) /\ bounds' \in Seq(Nat)
      BY <1>2, <3>1, <3>3
    <3>5. FrameTypes'
      BY <1>2, <3>1, <3>4 DEF FrameTypes, BufferSize
    <3>6. SizeKnown' /\ Streamed'
      BY <1>1, <1>2, <3>1 DEF SizeKnown, Streamed
    <3> QED
      BY <3>2, <3>5, <3>6 DEF FrameInv
  <2> QED
    BY <1>5, <2>1, <2>2, Zenon DEF RtuBoundary
<1> QED
  BY <1>3, <1>4, <1>5, Zenon DEF RtuFeed

LEMMA ResetKeeps ==
  ASSUME FrameInv, Reset
  PROVE  FrameInv'
<1>1. /\ conn' = conn /\ taken' = taken /\ mem' = mem /\ since' = taken
      /\ buffered' = 0 /\ expected' = 0 /\ pending' = 0 /\ delivered' = << >> /\ bounds' = << >>
      /\ result' = "NONE"
  BY DEF Reset
<1>2. /\ conn \in Wires /\ taken \in Nat /\ taken <= Len(conn.bytes)
      /\ mem \in [1..BufferSize -> Nat] /\ BufferSize \in Nat /\ conn.bytes \in Seq(Nat)
  BY WireTypes DEF FrameInv, FrameTypes
<1>3. FrameTypes'
  BY <1>1, <1>2 DEF FrameTypes, BufferSize
<1>4. SizeKnown'
  BY <1>1 DEF SizeKnown
<1>5. Remaining' = << >> /\ Accepted' = << >>
  <2>1. mem \in Seq(Nat)
    BY <1>2, Memory
  <2>2. SubSeq(mem, 0 + 1, 0) = << >> /\ SubSeq(conn.bytes, taken + 1, taken) = << >>
    BY <1>2, <2>1
  <2> QED
    BY <1>1, <2>2, Zenon DEF Remaining, Accepted
<1>6. FlattenSeq(delivered') \o Remaining' = Accepted'
  <2>1. << >> \o << >> = << >>
    OBVIOUS
  <2> QED
    BY <1>1, <1>5, <2>1, FlatEmpty, Zenon
<1>7. Len(delivered') = 0 /\ Len(bounds') = 0
  BY <1>1
<1>8. Streamed'
  <2>1. WholeFrames(conn.proto, delivered')
    BY <1>7 DEF WholeFrames
  <2>2. Sound(conn.proto, delivered', Remaining', Accepted')
    BY <1>6, <2>1, Zenon DEF Sound
  <2> QED
    BY <1>1, <2>2 DEF Streamed
<1>9. LastBound' = taken /\ taken \in taken..taken
  BY <1>1, <1>2 DEF LastBound
<1>10. Remaining' = SubSeq(conn.bytes, taken + 1, taken)
  BY <1>2, <1>5
<1>11. BoundsKept'
  <2>1. \A i \in 1..Len(delivered') : FALSE
    BY <1>7
  <2> QED
    BY <1>1, <1>6, <1>7, <1>9, <1>10, <2>1, Zenon DEF BoundsKept
<1> QED
  BY <1>3, <1>4, <1>8, <1>11 DEF FrameInv

LEMMA FrameKeeps ==
  ASSUME FrameInv, [FrameNext]_frameVars
  PROVE  FrameInv'
<1>0. FrameTypes /\ SizeKnown
  BY DEF FrameInv
<1>1. ASSUME NEW k \in 0..MaxChunk, k <= Len(conn.bytes) - taken, FeedChunk(k)
      PROVE  FrameInv'
  <2>0. k \in Nat
    BY FrameAssumption
  <2>1. CASE LtvFeed(k)
    <3>1. conn.proto # "RTU"
      BY <2>1 DEF LtvFeed
    <3> QED
      BY <1>0, <1>1, <2>0, <2>1, <3>1, LtvFeedEffect, StreamKeeps
  <2>2. CASE TlvFeed(k)
    <3>1. conn.proto # "RTU"
      BY <2>2 DEF TlvFeed
    <3> QED
      BY <1>0, <1>1, <2>0, <2>2, <3>1, TlvFeedEffect, StreamKeeps
  <2>3. CASE TcpFeed(k)
    <3>1. conn.proto # "RTU"
      BY <2>3 DEF TcpFeed
    <3> QED
      BY <1>0, <1>1, <2>0, <2>3, <3>1, TcpFeedEffect, StreamKeeps
  <2>4. CASE RtuFeed(k)
    BY <1>1, <2>0, <2>4, RtuKeeps
  <2> QED
    BY <1>1, <2>1, <2>2, <2>3, <2>4 DEF FeedChunk
<1>2. CASE FrameFree
  <2>1. UNCHANGED <<conn, taken, since, parser, delivered, bounds>> /\ result' = result
    BY <1>2 DEF FrameFree
  <2> QED
    BY <2>1, SameKeeps
<1>3. CASE Reset
  BY <1>3, ResetKeeps
<1>4. CASE UNCHANGED frameVars
  <2>1. UNCHANGED <<conn, taken, since, parser, delivered, bounds>> /\ result' = result
    BY <1>4 DEF frameVars
  <2> QED
    BY <2>1, SameKeeps
<1> QED
  BY <1>1, <1>2, <1>3, <1>4 DEF FrameNext

LEMMA FrameInvHolds == FrameSpec => []FrameInv
<1>1. FrameInit => FrameInv
  BY FrameInitially
<1>2. FrameInv /\ [FrameNext]_frameVars => FrameInv'
  BY FrameKeeps
<1> QED
  BY <1>1, <1>2, PTL DEF FrameSpec

(* For every wire and every cut of it into chunks, with refused chunks,      *)
(* retries, empty chunks and resets: the streams return what the one-shot    *)
(* parsers find in the bytes accepted, and lose none of them.                *)
THEOREM ChunksDoNotMatter == FrameSpec => []ChunkingIrrelevant
<1>1. FrameInv => ChunkingIrrelevant
  <2> SUFFICES ASSUME FrameInv PROVE ChunkingIrrelevant
    OBVIOUS
  <2>1. CASE conn.proto = "RTU"
    <3>1. /\ FlattenSeq(delivered) \o Remaining = Accepted /\ Len(delivered) = Len(bounds)
          /\ \A i \in 1..Len(delivered) : delivered[i] = Between(i) /\ RtuParse(delivered[i]).code = "OK"
      BY <2>1, Zenon DEF FrameInv, BoundsKept
    <3>2. DOMAIN delivered = 1..Len(delivered)
      BY DEF FrameInv, FrameTypes
    <3> QED
      BY <2>1, <3>1, <3>2, Zenon DEF ChunkingIrrelevant
  <2>2. CASE conn.proto # "RTU"
    <3>1. FlattenSeq(delivered) \o Remaining = Accepted /\ SameAsOneShot
      BY <2>2, StreamsAgree DEF FrameInv
    <3> QED
      BY <2>2, <3>1, Zenon DEF ChunkingIrrelevant, SameAsOneShot
  <2> QED
    BY <2>1, <2>2
<1> QED
  BY <1>1, FrameInvHolds, PTL

(* The payload of the frame f is what the view v of the buffer m shows. *)
Shows(p, f, m, v) ==
  LET adu == IF p = "RTU" THEN RtuParse(f) ELSE Parse(p, f)
  IN  SubSeq(f, adu.off, adu.off + adu.size - 1) = SubSeq(m, v.off, v.off + v.size - 1)

LEMMA ViewShows == ViewIntact <=> (result = "OK" => Shows(conn.proto, Last(delivered), mem, view))
BY DEF ViewIntact, Payload, Shows

LEMMA ViewShowsNext ==
  ViewIntact' <=> (result' = "OK" => Shows(conn'.proto, Last(delivered'), mem', view'))
BY DEF ViewIntact, Payload, Shows

SameWindow(f, m, a, b) == SubSeq(f, a, b) = SubSeq(m, a, b)

LEMMA WindowSame ==
  ASSUME NEW m \in Seq(Nat), NEW t \in 0..Len(m), NEW a \in 1..t + 1, NEW s \in Nat, a + s - 1 <= t
  PROVE  SameWindow(SubSeq(m, 1, t), m, a, a + s - 1)
<1>1. PICK f, x, y, b : /\ f = SubSeq(m, 1, t) /\ b = a + s - 1
                        /\ x = SubSeq(f, a, b) /\ y = SubSeq(m, a, b)
  OBVIOUS
<1>2. f \in Seq(Nat) /\ Len(f) = t /\ \A i \in 1..t : f[i] = m[i]
  BY <1>1
<1>3. b \in Int /\ b = a + s - 1 /\ b <= t /\ b <= Len(m)
  BY <1>1
<1>4. x \in Seq(Nat) /\ Len(x) = s
  BY <1>1, <1>2, <1>3
<1>5. y \in Seq(Nat) /\ Len(y) = s
  BY <1>1, <1>3
<1>6. \A i \in 1..s : x[i] = f[a + i - 1]
  BY <1>1, <1>2, <1>3
<1>7. \A i \in 1..s : y[i] = m[a + i - 1]
  <2> TAKE i \in 1..s
  <2>1. y = SubSeq(m, a, b) /\ i \in 1..Len(y)
    BY <1>1, <1>5
  <2>2. a \in Nat /\ b \in Int /\ i \in 1..(b - a + 1)
    BY <1>3
  <2> QED
    BY <1>5, <2>1, <2>2
<1>8. \A i \in 1..s : x[i] = y[i]
  <2> TAKE i \in 1..s
  <2>1. a + i - 1 \in 1..t
    OBVIOUS
  <2> QED
    BY <1>2, <1>6, <1>7, <2>1
<1>9. x = y
  BY <1>4, <1>5, <1>8, SameBytes
<1> QED
  BY <1>1, <1>9, Zenon DEF SameWindow

LEMMA LtvShows ==
  ASSUME NEW m \in Seq(Nat), NEW C \in Seq(Nat), NEW t \in 1..Len(C), Len(C) <= Len(m),
         \A i \in 1..Len(C) : C[i] = m[i],
         LtvPeek(C).code = "OK", LtvPeek(C).total = t, NEW v, v.off = LtvPeek(m).off, v.size = LtvPeek(m).size
  PROVE  Shows("LTV", SubSeq(m, 1, t), m, v)
<1>0. "LTV" \in Streams
  BY DEF Streams
<1>1. PICK f, peek : f = SubSeq(m, 1, t) /\ peek = Peek("LTV", C)
  OBVIOUS
<1>2. peek = LtvPeek(C) /\ Peek("LTV", m) = LtvPeek(m) /\ peek.code = "OK" /\ peek.total = t
  BY <1>1, PeekBy
<1>3. f \in Seq(Nat) /\ Len(f) = t /\ \A i \in 1..t : f[i] = m[i]
  BY <1>1
<1>4. Shares(C, m, t)
  BY DEF Shares
<1>5. Shares(C, f, t)
  BY <1>3 DEF Shares
<1>6. Peek("LTV", m) = peek
  BY <1>0, <1>1, <1>2, <1>4, PeekStable
<1>7. Peek("LTV", f) = peek
  BY <1>0, <1>1, <1>2, <1>3, <1>5, PeekStable
<1>8. Parse("LTV", f) = peek
  <2>1. Peek("LTV", f).code = "OK" /\ Len(f) >= Peek("LTV", f).total
    BY <1>2, <1>3, <1>7
  <2>2. Parse("LTV", f) = Peek("LTV", f)
    BY <1>0, <1>3, <2>1, ParseBy
  <2> QED
    BY <1>7, <2>2
<1>9. peek.off \in 1..t + 1 /\ peek.size \in Nat /\ peek.off + peek.size - 1 <= t
  BY <1>0, <1>1, <1>2, PeekIs DEF IsPeek
<1>10. v.off = peek.off /\ v.size = peek.size
  BY <1>2, <1>6
<1>11. t \in 0..Len(m)
  OBVIOUS
<1>12. SameWindow(f, m, peek.off, peek.off + peek.size - 1)
  BY <1>1, <1>9, <1>11, WindowSame
<1> QED
  BY <1>1, <1>8, <1>10, <1>12 DEF Shows, SameWindow

LEMMA RtuShows ==
  ASSUME NEW m \in Seq(Nat), NEW t \in 0..Len(m), NEW f, f = SubSeq(m, 1, t), RtuParse(f).code = "OK",
         NEW v, v.off = RtuParse(f).off, v.size = RtuParse(f).size
  PROVE  Shows("RTU", f, m, v)
<1>1. f \in Seq(Nat) /\ Len(f) = t
  OBVIOUS
<1>2. t >= 3 /\ v.off = 3 /\ v.size = t - 3
  BY <1>1, RtuParseIs
<1>3. 3 \in 1..t + 1 /\ t - 3 \in Nat /\ 3 + (t - 3) - 1 <= t
  BY <1>2
<1>4. SameWindow(f, m, 3, 3 + (t - 3) - 1)
  BY <1>3, WindowSame
<1> QED
  BY <1>2, <1>4 DEF Shows, SameWindow

LEMMA NewestFrame ==
  ASSUME NEW F \in Seq(Seq(Nat)), NEW f
  PROVE  Last(Append(F, f)) = f
BY DEF Last

PoolEntry == [mark : Nat, size : Nat, owned : BOOLEAN, exposed : BOOLEAN]

(* What is allocated from the pool and not exposed lies below its top, and  *)
(* below everything allocated later.                                        *)
Safe(e) == ~e.owned /\ ~e.exposed
PoolStack(H, u) ==
  \A i \in 1..Len(H) : Safe(H[i]) =>
    /\ H[i].size > 0 /\ H[i].mark + H[i].size <= u
    /\ \A j \in i + 1..Len(H) : ~H[j].owned => H[i].mark + H[i].size <= H[j].mark

PoolInv == held \in Seq(PoolEntry) /\ used \in Nat /\ PoolStack(held, used)

HandInv == PoolInv /\ (conn.proto \in {"LTV", "RTU"} => ViewIntact)

LEMMA PoolSame ==
  ASSUME PoolInv, held' = held, used' = used
  PROVE  PoolInv'
BY Zenon DEF PoolInv

LEMMA KeepHands ==
  ASSUME NEW code, NEW m, NEW n, NEW e, Keep(code, m, n, e), code # "OK"
  PROVE  held' = held /\ used' = used /\ conn' = conn /\ ViewIntact'
<1>1. held' = held /\ used' = used /\ conn' = conn /\ result' = code
  BY DEF Keep, Answer
<1> QED
  BY <1>1, ViewShowsNext

LEMMA LtvStepHands ==
  ASSUME FrameTypes, conn.proto = "LTV", NEW m, NEW n, NEW C, Loaded(m, n, C),
         LtvStep(m, n, LtvPeek(C), LtvPeek(C).total)
  PROVE  held' = held /\ used' = used /\ conn' = conn /\ ViewIntact'
<1>1. PICK peek, t : peek = LtvPeek(C) /\ t = peek.total
  OBVIOUS
<1>3. C \in Seq(Nat) /\ Len(C) = n /\ n \in 0..BufferSize /\ BufferSize \in Nat
      /\ m \in Seq(Nat) /\ Len(m) = BufferSize /\ \A i \in 1..n : C[i] = m[i]
  BY LoadedBytes
<1>4. IsPeek(peek)
  BY <1>1, <1>3, LtvPeekIs
<1>6. CASE t = 0 /\ Keep(peek.code, m, n, 0) /\ pending' = 0
  <2>1. peek.code # "OK"
    BY <1>1, <1>4, <1>6 DEF IsPeek
  <2> QED
    BY <1>6, <2>1, KeepHands
<1>7. CASE expected = 0 /\ t > BufferSize /\ Keep("BUFFER_OVERFLOW", m, n, t) /\ pending' = 0
  <2>1. "BUFFER_OVERFLOW" # "OK"
    OBVIOUS
  <2> QED
    BY <1>7, <2>1, KeepHands
<1>8. CASE t # 0 /\ n < t /\ Keep("NEED_MORE", m, n, t) /\ pending' = 0
  <2>1. "NEED_MORE" # "OK"
    OBVIOUS
  <2> QED
    BY <1>8, <2>1, KeepHands
<1>9. CASE /\ t # 0 /\ t <= BufferSize /\ n >= t
           /\ Deliver(SubSeq(m, 1, t), LtvPeek(m).off, LtvPeek(m).size)
           /\ mem' = m /\ buffered' = n /\ pending' = t /\ expected' = 0
           /\ UNCHANGED <<bounds, held, used>>
  <2>1. t \in 1..n /\ peek.code = "OK"
    BY <1>1, <1>3, <1>4, <1>9 DEF IsPeek
  <2>2. PICK f : f = SubSeq(m, 1, t)
    OBVIOUS
  <2>3. /\ conn' = conn /\ mem' = m /\ delivered' = Append(delivered, f)
        /\ view' = [off |-> LtvPeek(m).off, size |-> LtvPeek(m).size]
        /\ held' = held /\ used' = used
    BY <1>9, <2>2 DEF Deliver
  <2>4. view'.off = LtvPeek(m).off /\ view'.size = LtvPeek(m).size
    BY <2>3
  <2>5. PICK v : v = view'
    OBVIOUS
  <2>6. Shows("LTV", f, m, v)
    <3>1. t \in 1..Len(C) /\ Len(C) <= Len(m) /\ \A i \in 1..Len(C) : C[i] = m[i]
      BY <1>3, <2>1
    <3> QED
      BY <1>1, <1>3, <2>1, <2>2, <2>4, <2>5, <3>1, LtvShows
  <2>7. Last(delivered') = f
    BY <2>3, NewestFrame DEF FrameTypes
  <2> QED
    BY <2>3, <2>5, <2>6, <2>7, ViewShowsNext
<1>10. \/ t = 0 /\ Keep(peek.code, m, n, 0) /\ pending' = 0
       \/ expected = 0 /\ t > BufferSize /\ Keep("BUFFER_OVERFLOW", m, n, t) /\ pending' = 0
       \/ t # 0 /\ n < t /\ Keep("NEED_MORE", m, n, t) /\ pending' = 0
       \/ /\ t # 0 /\ t <= BufferSize /\ n >= t
          /\ Deliver(SubSeq(m, 1, t), LtvPeek(m).off, LtvPeek(m).size)
          /\ mem' = m /\ buffered' = n /\ pending' = t /\ expected' = 0
          /\ UNCHANGED <<bounds, held, used>>
  <2>1. LtvStep(m, n, peek, t)
    BY <1>1
  <2> QED
    BY <2>1, Zenon DEF LtvStep
<1> QED
  BY <1>6, <1>7, <1>8, <1>9, <1>10

LEMMA LtvFeedHands ==
  ASSUME FrameTypes, SizeKnown, NEW k \in Nat, k <= Len(conn.bytes) - taken, LtvFeed(k)
  PROVE  held' = held /\ used' = used /\ conn' = conn /\ ViewIntact'
<1>1. conn.proto = "LTV" /\ conn.proto \in Streams
  BY DEF LtvFeed, Streams
<1>2. PICK m, n : m = Shift(mem, buffered, pending) /\ n = buffered - pending
  OBVIOUS
<1>3. BufferSize \in Nat /\ buffered \in 0..BufferSize /\ pending \in 0..buffered
      /\ mem \in [1..BufferSize -> Nat] /\ expected \in Nat
  BY WireTypes DEF FrameTypes
<1>4. m \in [1..BufferSize -> Nat] /\ n \in 0..BufferSize /\ SubSeq(m, 1, n) = Remaining
  <2>1. /\ Shift(mem, buffered, pending) \in [1..BufferSize -> Nat]
        /\ SubSeq(Shift(mem, buffered, pending), 1, buffered - pending) = SubSeq(mem, pending + 1, buffered)
    BY <1>3, Shifted
  <2>2. n \in 0..BufferSize
    BY <1>2, <1>3
  <2> QED
    BY <1>2, <2>1, <2>2, Zenon DEF Remaining
<1>5. LtvFeedTo(k, m, n)
  BY <1>2 DEF LtvFeed
<1>6. CASE Keep("BUFFER_OVERFLOW", m, n, expected) /\ pending' = 0 /\ UNCHANGED taken
  <2>1. "BUFFER_OVERFLOW" # "OK"
    OBVIOUS
  <2> QED
    BY <1>6, <2>1, KeepHands
<1>7. CASE /\ k <= BufferSize - n
           /\ LET peek == LtvPeek(SubSeq(Fill(m, n, Chunk(k)), 1, n + k))
              IN  LtvStep(Fill(m, n, Chunk(k)), n + k, peek, Learnt(peek))
           /\ taken' = taken + k
  <2>1. n + k <= BufferSize
    BY <1>3, <1>4, <1>7
  <2>2. PICK f, C : f = Fill(m, n, Chunk(k)) /\ C = Remaining \o Chunk(k)
    OBVIOUS
  <2>3. SubSeq(f, 1, n + k) = C /\ Loaded(f, n + k, C)
    BY <1>1, <1>4, <2>1, <2>2, Refilled
  <2>4. LtvStep(f, n + k, LtvPeek(C), Learnt(LtvPeek(C)))
    BY <1>7, <2>2, <2>3
  <2>5. Learnt(LtvPeek(C)) = LtvPeek(C).total
    BY <1>1, <2>3, LearntSize, PeekBy
  <2> QED
    BY <1>1, <2>3, <2>4, <2>5, LtvStepHands
<1> QED
  BY <1>5, <1>6, <1>7, Zenon DEF LtvFeedTo

LEMMA RtuFeedHands ==
  ASSUME FrameTypes, SizeKnown, NEW k \in Nat, RtuFeed(k)
  PROVE  held' = held /\ used' = used /\ conn' = conn /\ ViewIntact'
<1>1. conn.proto = "RTU" /\ delivered \in Seq(Seq(Nat))
  BY DEF RtuFeed, FrameTypes
<1>2. mem \in Seq(Nat) /\ buffered \in 0..Len(mem)
  BY WireTypes, Memory DEF FrameTypes
<1>3. CASE Refuse(k)
  <2>1. held' = held /\ used' = used /\ conn' = conn /\ result' = "BUFFER_OVERFLOW"
    BY <1>3 DEF Refuse, Answer
  <2> QED
    BY <2>1, ViewShowsNext
<1>4. CASE Keep("NEED_MORE", Fill(mem, buffered, Chunk(k)), buffered + k, expected)
  <2>1. "NEED_MORE" # "OK"
    OBVIOUS
  <2> QED
    BY <1>4, <2>1, KeepHands
<1>5. CASE RtuBoundary(RtuParse(SubSeq(mem, 1, buffered)))
  <2>0. PICK f, adu : f = SubSeq(mem, 1, buffered) /\ adu = RtuParse(f)
    OBVIOUS
  <2>1. CASE adu.code # "OK" /\ Answer(adu.code)
    <3>1. held' = held /\ used' = used /\ conn' = conn /\ result' # "OK"
      BY <2>1 DEF Answer
    <3> QED
      BY <3>1, ViewShowsNext
  <2>2. CASE /\ adu.code = "OK" /\ Deliver(f, adu.off, adu.size)
             /\ UNCHANGED <<taken, mem, pending, held, used>>
    <3>1. /\ conn' = conn /\ mem' = mem /\ delivered' = Append(delivered, f)
          /\ view' = [off |-> adu.off, size |-> adu.size]
          /\ held' = held /\ used' = used
      BY <2>2 DEF Deliver
    <3>2. PICK v : v = view'
      OBVIOUS
    <3>3. v.off = RtuParse(f).off /\ v.size = RtuParse(f).size
      BY <2>0, <3>1, <3>2
    <3>4. Shows("RTU", f, mem, v)
      BY <1>2, <2>0, <2>2, <3>3, RtuShows
    <3>5. Last(delivered') = f
      BY <1>1, <3>1, NewestFrame
    <3> QED
      BY <1>1, <3>1, <3>2, <3>4, <3>5, ViewShowsNext
  <2>3. \/ adu.code # "OK" /\ Answer(adu.code)
        \/ /\ adu.code = "OK" /\ Deliver(f, adu.off, adu.size)
           /\ UNCHANGED <<taken, mem, pending, held, used>>
    BY <1>5, <2>0, Zenon DEF RtuBoundary
  <2> QED
    BY <2>1, <2>2, <2>3
<1> QED
  BY <1>3, <1>4, <1>5, Zenon DEF RtuFeed

LEMMA EntryFields ==
  ASSUME NEW H \in Seq(PoolEntry), NEW i \in 1..Len(H)
  PROVE  H[i].mark \in Nat /\ H[i].size \in Nat
<1>1. H[i] \in PoolEntry
  OBVIOUS
<1> QED
  BY <1>1 DEF PoolEntry

(* A payload from the pool lies above everything in use; one from malloc    *)
(* leaves the pool alone.                                                   *)
LEMMA StackPush ==
  ASSUME NEW H \in Seq(PoolEntry), NEW u \in Nat, PoolStack(H, u), NEW s \in Nat \ {0},
         NEW e \in PoolEntry, NEW w,
         \/ e.owned /\ w = u
         \/ e.mark = u /\ e.size = s /\ w = u + s
  PROVE  PoolStack(Append(H, e), w)
<1>1. PICK G, n : G = Append(H, e) /\ n = Len(H)
  OBVIOUS
<1>2. n \in Nat /\ Len(G) = n + 1 /\ G[n + 1] = e /\ \A i \in 1..n : G[i] = H[i]
  BY <1>1
<1>3. w \in Nat /\ u <= w
  OBVIOUS
<1> SUFFICES ASSUME NEW i \in 1..n + 1, Safe(G[i])
             PROVE  /\ G[i].size > 0 /\ G[i].mark + G[i].size <= w
                    /\ \A j \in i + 1..n + 1 : ~G[j].owned => G[i].mark + G[i].size <= G[j].mark
  BY <1>1, <1>2, Zenon DEF PoolStack
<1>4. \A h \in 1..n : Safe(H[h]) =>
        /\ H[h].size > 0 /\ H[h].mark + H[h].size <= u
        /\ \A j \in h + 1..n : ~H[j].owned => H[h].mark + H[h].size <= H[j].mark
  BY <1>1, Zenon DEF PoolStack
<1>5. CASE i \in 1..n
  <2>1. G[i] = H[i] /\ H[i].mark \in Nat /\ H[i].size \in Nat /\ Safe(H[i])
    BY <1>1, <1>2, <1>5, EntryFields
  <2>2. H[i].size > 0 /\ H[i].mark + H[i].size <= u
    BY <1>4, <1>5, <2>1
  <2>3. ASSUME NEW j \in i + 1..n + 1, ~G[j].owned
        PROVE  G[i].mark + G[i].size <= G[j].mark
    <3>1. CASE j \in i + 1..n
      <4>1. j \in 1..n
        BY <1>2, <1>5, <3>1
      <4>2. G[j] = H[j] /\ ~H[j].owned
        BY <1>2, <2>3, <4>1
      <4> QED
        BY <1>4, <1>5, <2>1, <3>1, <4>2
    <3>2. CASE j = n + 1
      <4>1. G[j] = e /\ ~e.owned
        BY <1>2, <2>3, <3>2
      <4> QED
        BY <2>1, <2>2, <4>1
    <3> QED
      BY <1>2, <1>5, <3>1, <3>2
  <2>4. H[i].mark + H[i].size <= w
    BY <1>3, <2>1, <2>2
  <2> QED
    BY <2>1, <2>2, <2>3, <2>4
<1>6. CASE i = n + 1
  <2>1. G[i] = e /\ ~e.owned
    BY <1>2, <1>6 DEF Safe
  <2>2. e.mark = u /\ e.size = s /\ w = u + s
    BY <2>1
  <2>3. i + 1..n + 1 = {}
    BY <1>2, <1>6
  <2> QED
    BY <2>1, <2>2, <2>3
<1> QED
  BY <1>2, <1>5, <1>6

(* The frames that stay when frame k is freed. *)
LEMMA ReleasedEntries ==
  ASSUME held \in Seq(PoolEntry), NEW k \in 1..Len(held)
  PROVE  /\ Released(k) \in Seq(PoolEntry) /\ Len(Released(k)) = Len(held) - 1
         /\ \A j \in 1..Len(held) - 1 :
              LET e == Released(k)[j]
                  h == held[IF j < k THEN j ELSE j + 1]
              IN  /\ e.mark = h.mark /\ e.size = h.size /\ e.owned = h.owned
                  /\ Safe(e) => Safe(h) /\ (j < k \/ held[k].owned)
<1>1. PICK n \in Nat : n = Len(held)
  OBVIOUS
<1>2. \A j \in 1..n : held[j] \in PoolEntry
  BY <1>1
<1>3. PICK b : b = (~held[k].owned)
  OBVIOUS
<1>4. b \in BOOLEAN
  BY <1>3, Zenon
<1> DEFINE E(j) == IF j < k THEN held[j] ELSE [held[j + 1] EXCEPT !.exposed = @ \/ b]
<1>5. Released(k) = [j \in 1..n - 1 |-> E(j)]
  BY <1>1, <1>3 DEF Released
<1>6. ASSUME NEW j \in 1..n - 1
      PROVE  LET h == held[IF j < k THEN j ELSE j + 1]
             IN  /\ E(j) \in PoolEntry
                 /\ E(j).mark = h.mark /\ E(j).size = h.size /\ E(j).owned = h.owned
                 /\ Safe(E(j)) => Safe(h) /\ (j < k \/ held[k].owned)
  <2>1. CASE j < k
    <3>1. E(j) = held[j] /\ j \in 1..n
      BY <1>1, <1>6, <2>1
    <3> QED
      BY <1>2, <2>1, <3>1
  <2>2. CASE ~(j < k)
    <3>1. PICK h \in PoolEntry : h = held[j + 1]
      BY <1>1, <1>2, <1>6
    <3>2. E(j) = [h EXCEPT !.exposed = @ \/ b]
      BY <2>2, <3>1
    <3>3. PICK x : x = (h.exposed \/ b)
      OBVIOUS
    <3>4. x \in BOOLEAN
      BY <3>3, Zenon
    <3>5. E(j) = [h EXCEPT !.exposed = x]
      BY <3>2, <3>3
    <3>6. /\ E(j) \in PoolEntry /\ E(j).exposed = x
          /\ E(j).mark = h.mark /\ E(j).size = h.size /\ E(j).owned = h.owned
      BY <3>4, <3>5 DEF PoolEntry
    <3>7. Safe(E(j)) => Safe(h) /\ held[k].owned
      BY <1>3, <3>3, <3>6, Zenon DEF Safe
    <3> QED
      BY <2>2, <3>1, <3>6, <3>7
  <2> QED
    BY <2>1, <2>2
<1> HIDE DEF E
<1>7. [j \in 1..n - 1 |-> E(j)] \in Seq(PoolEntry) /\ Len([j \in 1..n - 1 |-> E(j)]) = n - 1
  BY <1>1, <1>6
<1>8. \A j \in 1..n - 1 : Released(k)[j] = E(j)
  BY <1>5
<1> QED
  BY <1>1, <1>5, <1>6, <1>7, <1>8

(* Freeing a payload keeps those below it, and those above it are exposed. *)
LEMMA StackDrop ==
  ASSUME held \in Seq(PoolEntry), used \in Nat, PoolStack(held, used), NEW k \in 1..Len(held),
         NEW w, w \in IF held[k].owned THEN {used} ELSE Rewound(held[k].mark)
  PROVE  w \in Nat /\ PoolStack(Released(k), w)
<1>1. PICK n \in Nat : n = Len(held)
  OBVIOUS
<1>2. PICK G : G = Released(k)
  OBVIOUS
<1>3. /\ Len(G) = n - 1
      /\ \A j \in 1..n - 1 :
           LET e == G[j]
               h == held[IF j < k THEN j ELSE j + 1]
           IN  /\ e.mark = h.mark /\ e.size = h.size /\ e.owned = h.owned
               /\ Safe(e) => Safe(h) /\ (j < k \/ held[k].owned)
  BY <1>1, <1>2, ReleasedEntries
<1>4. held[k].mark \in Nat
  BY EntryFields
<1>5. w \in Nat /\ (w = used \/ (~held[k].owned /\ w = held[k].mark))
  BY <1>4 DEF Rewound
<1>6. \A h \in 1..n : Safe(held[h]) =>
        /\ held[h].size > 0 /\ held[h].mark + held[h].size <= used
        /\ \A j \in h + 1..n : ~held[j].owned => held[h].mark + held[h].size <= held[j].mark
  BY <1>1, Zenon DEF PoolStack
<1>7. ASSUME NEW i \in 1..n - 1, Safe(G[i])
      PROVE  /\ G[i].size > 0 /\ G[i].mark + G[i].size <= w
             /\ \A j \in i + 1..n - 1 : ~G[j].owned => G[i].mark + G[i].size <= G[j].mark
  <2>1. PICK p : p = IF i < k THEN i ELSE i + 1
    OBVIOUS
  <2>2. p \in 1..n
    BY <1>1, <1>7, <2>1
  <2>3. /\ G[i].mark = held[p].mark /\ G[i].size = held[p].size
        /\ Safe(held[p]) /\ (i < k \/ held[k].owned)
    BY <1>3, <1>7, <2>1
  <2>4. /\ held[p].size > 0 /\ held[p].mark + held[p].size <= used
        /\ \A j \in p + 1..n : ~held[j].owned => held[p].mark + held[p].size <= held[j].mark
    BY <1>6, <2>2, <2>3
  <2>5. held[p].mark + held[p].size <= w
    <3>1. CASE w = used
      BY <2>4, <3>1
    <3>2. CASE ~held[k].owned /\ w = held[k].mark
      <4>1. k \in p + 1..n
        BY <1>1, <2>1, <2>2, <2>3, <3>2
      <4> QED
        BY <2>4, <3>2, <4>1
    <3> QED
      BY <1>5, <3>1, <3>2
  <2>6. ASSUME NEW j \in i + 1..n - 1, ~G[j].owned
        PROVE  G[i].mark + G[i].size <= G[j].mark
    <3>1. PICK q : q = IF j < k THEN j ELSE j + 1
      OBVIOUS
    <3>2. q \in p + 1..n /\ j \in 1..n - 1
      BY <1>1, <1>7, <2>1, <2>6, <3>1
    <3>3. G[j].mark = held[q].mark /\ G[j].owned = held[q].owned
      BY <1>3, <3>1, <3>2
    <3>4. ~held[q].owned
      BY <2>6, <3>3
    <3>5. held[p].mark + held[p].size <= held[q].mark
      BY <2>4, <3>2, <3>4
    <3> QED
      BY <2>3, <3>3, <3>5
  <2> QED
    BY <2>3, <2>4, <2>5, <2>6
<1>8. PoolStack(G, w)
  BY <1>3, <1>7, Zenon DEF PoolStack
<1> QED
  BY <1>2, <1>5, <1>8

LEMMA CopyKeeps ==
  ASSUME PoolInv, NEW s \in Nat \ {0}, CopyPayload(s)
  PROVE  PoolInv'
<1>0. PoolSize \in Nat /\ held \in Seq(PoolEntry) /\ used \in Nat /\ PoolStack(held, used)
  BY Limits DEF PoolInv
<1>1. CASE s <= PoolSize - used
  <2>1. PICK e, w : e = [mark |-> used, size |-> s, owned |-> FALSE, exposed |-> FALSE] /\ w = used + s
    OBVIOUS
  <2>2. held' = Append(held, e) /\ used' = w
    BY <1>1, <2>1 DEF CopyPayload
  <2>3. e \in PoolEntry /\ e.mark = used /\ e.size = s /\ w \in Nat
    BY <1>0, <2>1 DEF PoolEntry
  <2>4. PoolStack(Append(held, e), w)
    BY <1>0, <2>1, <2>3, StackPush
  <2>5. Append(held, e) \in Seq(PoolEntry)
    BY <1>0, <2>3
  <2> QED
    BY <2>2, <2>3, <2>4, <2>5, Zenon DEF PoolInv
<1>2. CASE ~(s <= PoolSize - used)
  <2>1. PICK e : e = [mark |-> 0, size |-> s, owned |-> TRUE, exposed |-> FALSE]
    OBVIOUS
  <2>2. held' = Append(held, e) /\ used' = used
    BY <1>2, <2>1 DEF CopyPayload
  <2>3. e \in PoolEntry /\ e.owned
    BY <1>0, <2>1 DEF PoolEntry
  <2>4. PoolStack(Append(held, e), used)
    BY <1>0, <2>1, <2>3, StackPush
  <2>5. Append(held, e) \in Seq(PoolEntry)
    BY <1>0, <2>3
  <2> QED
    BY <1>0, <2>2, <2>3, <2>4, <2>5, Zenon DEF PoolInv
<1> QED
  BY <1>1, <1>2

LEMMA FreeKeeps ==
  ASSUME PoolInv, FrameFree
  PROVE  PoolInv'
<1>1. held \in Seq(PoolEntry) /\ used \in Nat /\ PoolStack(held, used)
  BY DEF PoolInv
<1>2. PICK k \in DOMAIN held : /\ held' = Released(k)
                               /\ used' \in IF held[k].owned THEN {used} ELSE Rewound(held[k].mark)
  BY DEF FrameFree
<1>3. k \in 1..Len(held)
  BY <1>1, <1>2
<1>4. Released(k) \in Seq(PoolEntry)
  BY <1>1, <1>3, ReleasedEntries
<1>5. used' \in Nat /\ PoolStack(Released(k), used')
  BY <1>1, <1>2, <1>3, StackDrop
<1> QED
  BY <1>2, <1>4, <1>5, Zenon DEF PoolInv

LEMMA AnswerHands ==
  ASSUME PoolInv, NEW code, Answer(code)
  PROVE  PoolInv' /\ conn' = conn
BY PoolSame DEF Answer

LEMMA TlvTakeHands ==
  ASSUME PoolInv, NEW m, NEW n, NEW frame, frame.size \in Nat, TlvTake(m, n, frame)
  PROVE  PoolInv' /\ conn' = conn
<1>1. conn' = conn
  BY DEF TlvTake, Deliver
<1>2. CASE frame.size = 0
  <2>1. held' = held /\ used' = used
    BY <1>2 DEF TlvTake
  <2> QED
    BY <1>1, <2>1, PoolSame
<1>3. CASE frame.size # 0
  <2>1. CopyPayload(frame.size)
    BY <1>3 DEF TlvTake
  <2> QED
    BY <1>1, <1>3, <2>1, CopyKeeps
<1> QED
  BY <1>2, <1>3

(* Where the size of a TLV frame comes from. *)
LEMMA TlvSizeNat ==
  ASSUME NEW d \in Seq(Nat), Parse("TLV", d).code = "OK"
  PROVE  Parse("TLV", d).size \in Nat
<1>1. "TLV" \in Streams
  BY DEF Streams
<1>2. IsPeek(Parse("TLV", d))
  BY <1>1, ParseOk
<1> QED
  BY <1>2 DEF IsPeek

LEMMA TlvStepHands ==
  ASSUME FrameTypes, PoolInv, NEW m \in Seq(Nat), NEW n, NEW t, t \in Nat, t <= Len(m),
         TlvFrame(m, n, Parse("TLV", SubSeq(m, 1, t)), t)
  PROVE  PoolInv' /\ conn' = conn
<1>1. PICK f, frame : f = SubSeq(m, 1, t) /\ frame = Parse("TLV", f)
  OBVIOUS
<1>2. f \in Seq(Nat)
  BY <1>1
<1>3. \/ \E code : Answer(code)
      \/ frame.code = "OK" /\ TlvTake(m, n, frame)
  BY <1>1, Zenon DEF TlvFrame, Keep
<1>4. CASE \E code : Answer(code)
  BY <1>4, AnswerHands
<1>5. CASE frame.code = "OK" /\ TlvTake(m, n, frame)
  <2>1. frame.size \in Nat
    BY <1>1, <1>2, <1>5, TlvSizeNat
  <2> QED
    BY <1>5, <2>1, TlvTakeHands
<1> QED
  BY <1>3, <1>4, <1>5

LEMMA TlvFeedHands ==
  ASSUME FrameTypes, PoolInv, NEW k \in Nat, k <= Len(conn.bytes) - taken, TlvFeed(k)
  PROVE  PoolInv' /\ conn' = conn
<1>1. BufferSize \in Nat /\ buffered \in 0..BufferSize /\ mem \in [1..BufferSize -> Nat] /\ expected \in Nat
  BY WireTypes DEF FrameTypes
<1>2. CASE Refuse(k)
  BY <1>2, AnswerHands DEF Refuse
<1>3. CASE /\ buffered + k <= BufferSize
           /\ LET peek == TlvPeek(SubSeq(Fill(mem, buffered, Chunk(k)), 1, buffered + k))
              IN  TlvStep(Fill(mem, buffered, Chunk(k)), buffered + k, peek, Learnt(peek))
  <2>1. PICK d \in Seq(Nat) : d = Chunk(k) /\ Len(d) = k
    BY ChunkBytes
  <2>2. buffered \in Nat /\ buffered + Len(d) <= BufferSize /\ buffered + k \in 0..BufferSize
    BY <1>1, <1>3, <2>1
  <2>3. PICK m, n, C : m = Fill(mem, buffered, d) /\ n = buffered + k /\ C = SubSeq(m, 1, n)
    OBVIOUS
  <2>4. m \in [1..BufferSize -> Nat]
    <3>1. /\ Fill(mem, buffered, d) \in [1..BufferSize -> Nat]
          /\ SubSeq(Fill(mem, buffered, d), 1, buffered + Len(d)) = SubSeq(mem, 1, buffered) \o d
      BY <1>1, <2>2, Filled
    <3> QED
      BY <2>3, <3>1
  <2>5. m \in Seq(Nat) /\ Len(m) = BufferSize
    BY <1>1, <2>4, Memory
  <2>6. PICK peek, t : peek = TlvPeek(C) /\ t = Learnt(peek)
    OBVIOUS
  <2>7. TlvStep(m, n, peek, t)
    BY <1>3, <2>1, <2>3, <2>6
  <2>8. t \in Nat
    <3>1. C \in Seq(Nat)
      BY <2>2, <2>3, <2>5
    <3>2. peek.total \in Nat
      BY <2>6, <3>1, TlvPeekIs DEF IsPeek
    <3> QED
      BY <1>1, <2>6, <3>2 DEF Learnt
  <2>9. \/ \E code : Answer(code)
        \/ t <= BufferSize /\ TlvFrame(m, n, Parse("TLV", SubSeq(m, 1, t)), t)
    BY <2>7, Zenon DEF TlvStep, Keep
  <2> QED
    BY <2>5, <2>8, <2>9, AnswerHands, TlvStepHands
<1> QED
  BY <1>2, <1>3, Zenon DEF TlvFeed

LEMMA TcpFeedHands ==
  ASSUME PoolInv, NEW k, TcpFeed(k)
  PROVE  PoolInv' /\ conn' = conn
<1>1. CASE \E code : Answer(code)
  BY <1>1, AnswerHands
<1>2. CASE conn' = conn /\ held' = held /\ used' = used
  BY <1>2, PoolSame
<1>3. CASE Refuse(k)
  BY <1>1, <1>3 DEF Refuse
<1>4. CASE \E m, n, peek, t : TcpStep(m, n, peek, t)
  <2>1. PICK m, n, peek, t : TcpStep(m, n, peek, t)
    BY <1>4
  <2>2. \/ \E code : Answer(code)
        \/ \E f, o, z : Deliver(f, o, z) /\ UNCHANGED <<bounds, held, used>>
    BY <2>1, Zenon DEF TcpStep, Keep
  <2> QED
    BY <1>1, <1>2, <2>2 DEF Deliver
<1>5. Refuse(k) \/ \E m, n, peek, t : TcpStep(m, n, peek, t)
  BY Zenon DEF TcpFeed
<1> QED
  BY <1>3, <1>4, <1>5

LEMMA HandsInitially ==
  ASSUME FrameInit
  PROVE  HandInv
<1>1. held = << >> /\ used = 0 /\ result = "NONE"
  BY DEF FrameInit
<1>2. held \in Seq(PoolEntry) /\ Len(held) = 0
  BY <1>1
<1>3. PoolStack(held, used)
  BY <1>2 DEF PoolStack
<1> QED
  BY <1>1, <1>2, <1>3, ViewShows DEF HandInv, PoolInv

LEMMA HandsKeep ==
  ASSUME FrameInv, HandInv, [FrameNext]_frameVars
  PROVE  HandInv'
<1>0. FrameTypes /\ SizeKnown /\ PoolInv /\ (conn.proto \in {"LTV", "RTU"} => ViewIntact)
  BY DEF FrameInv, HandInv
<1>1. ASSUME NEW k \in 0..MaxChunk, k <= Len(conn.bytes) - taken, FeedChunk(k)
      PROVE  HandInv'
  <2>0. k \in Nat
    BY FrameAssumption
  <2>1. CASE LtvFeed(k)
    <3>1. held' = held /\ used' = used /\ conn' = conn /\ ViewIntact'
      BY <1>0, <1>1, <2>0, <2>1, LtvFeedHands
    <3> QED
      BY <1>0, <3>1, PoolSame DEF HandInv
  <2>2. CASE TlvFeed(k)
    <3>1. PoolInv' /\ conn' = conn /\ conn.proto = "TLV"
      BY <1>0, <1>1, <2>0, <2>2, TlvFeedHands DEF TlvFeed
    <3> QED
      BY <3>1 DEF HandInv
  <2>3. CASE TcpFeed(k)
    <3>1. PoolInv' /\ conn' = conn /\ conn.proto = "TCP"
      BY <1>0, <2>3, TcpFeedHands DEF TcpFeed
    <3> QED
      BY <3>1 DEF HandInv
  <2>4. CASE RtuFeed(k)
    <3>1. held' = held /\ used' = used /\ conn' = conn /\ ViewIntact'
      BY <1>0, <2>0, <2>4, RtuFeedHands
    <3> QED
      BY <1>0, <3>1, PoolSame DEF HandInv
  <2> QED
    BY <1>1, <2>1, <2>2, <2>3, <2>4 DEF FeedChunk
<1>2. ASSUME UNCHANGED <<conn, delivered, result, mem, view>>, PoolInv'
      PROVE  HandInv'
  <2>1. ViewIntact => ViewIntact'
    BY <1>2, ViewShows, ViewShowsNext
  <2> QED
    BY <1>0, <1>2, <2>1 DEF HandInv
<1>3. CASE FrameFree
  <2>1. UNCHANGED <<conn, delivered, result, mem, view>>
    BY <1>3 DEF FrameFree, parser
  <2> QED
    BY <1>0, <1>2, <1>3, <2>1, FreeKeeps
<1>4. CASE Reset
  <2>1. result' = "NONE" /\ held' = held /\ used' = used
    BY <1>4 DEF Reset
  <2> QED
    BY <1>0, <2>1, PoolSame, ViewShowsNext DEF HandInv
<1>5. CASE UNCHANGED frameVars
  <2>1. UNCHANGED <<conn, delivered, result, mem, view>> /\ held' = held /\ used' = used
    BY <1>5 DEF frameVars, parser
  <2> QED
    BY <1>0, <1>2, <2>1, PoolSame
<1> QED
  BY <1>1, <1>3, <1>4, <1>5 DEF FrameNext

(* For every wire, chunking, pool and order of parsing and freeing: the      *)
(* views ltv_stream_feed and modbus_stream_feed (RTU) return show the        *)
(* payload until the next call, and a TLV payload keeps its bytes of the     *)
(* pool as long as no payload parsed before it is freed.                     *)
THEOREM HandedOutStays == FrameSpec => []HandedOutIntact
<1>1. FrameInit => HandInv
  BY HandsInitially
<1>2. FrameInv /\ HandInv /\ [FrameNext]_frameVars => HandInv'
  BY HandsKeep
<1>3. HandInv => HandedOutIntact
  <2> SUFFICES ASSUME HandInv PROVE HandedOutIntact
    OBVIOUS
  <2>1. held \in Seq(PoolEntry) /\ PoolStack(held, used)
        /\ (conn.proto \in {"LTV", "RTU"} => ViewIntact)
    BY DEF HandInv, PoolInv
  <2>2. DOMAIN held = 1..Len(held)
    BY <2>1
  <2> QED
    BY <2>1, <2>2, Zenon DEF HandedOutIntact, PoolStack, Safe
<1> QED
  BY <1>1, <1>2, <1>3, FrameInvHolds, PTL DEF FrameSpec

(* What the recursion in Power computes. *)
PowerOf(n, f) == f = [i \in 0..n |-> IF i = 0 THEN 1 ELSE Base * f[i - 1]]

LEMMA PowerChoice ==
  ASSUME NEW n
  PROVE  Power(n) = (CHOOSE f : PowerOf(n, f))[n]
BY Zenon DEF Power, PowerOf

LEMMA PowerExists ==
  ASSUME NEW n \in Nat
  PROVE  \E f \in [0..n -> Nat \ {0}] : PowerOf(n, f)
<1> DEFINE base == [i \in 0..n |-> 1]
           prev == [i \in 0..n |-> i - 1]
           step == [i \in 0..n |-> [v \in Nat \ {0} |-> Base * v]]
<1>1. \A i \in 0..n : base[i] = 1 /\ prev[i] = i - 1
  OBVIOUS
<1>2. \A i \in 0..n : \A v \in Nat \ {0} : step[i][v] = Base * v /\ step[i][v] \in Nat \ {0}
  <2> TAKE i \in 0..n
  <2> TAKE v \in Nat \ {0}
  <2>1. step[i][v] = Base * v
    OBVIOUS
  <2>2. Base * v \in Nat \ {0}
    BY BaseNat
  <2> QED
    BY <2>1, <2>2
<1> HIDE DEF base, prev, step
<1>3. Scheme(0, n, Nat \ {0}, {0}, base, prev, step)
  <2>1. \A i \in 0..n : i \notin {0} => prev[i] \in 0..n /\ prev[i] < i
    BY <1>1
  <2>2. \A i \in 0..n : i \in {0} => base[i] \in Nat \ {0}
    BY <1>1
  <2>3. 0 \in Nat /\ n \in Nat /\ 0 <= n
    OBVIOUS
  <2> QED
    BY <1>2, <2>1, <2>2, <2>3, Zenon DEF Scheme
<1>4. PICK f \in [0..n -> Nat \ {0}] : Solves(f, 0, n, {0}, base, prev, step)
  BY <1>3, SolutionExists
<1>5. \A i \in 0..n : f[i] = IF i = 0 THEN 1 ELSE Base * f[i - 1]
  <2> TAKE i \in 0..n
  <2>1. CASE i = 0
    BY <2>1, <1>1, <1>4 DEF Solves
  <2>2. CASE i # 0
    <3>1. i - 1 \in 0..n /\ i \notin {0}
      BY <2>2
    <3>2. f[i] = step[i][f[prev[i]]]
      BY <3>1, <1>4 DEF Solves
    <3>3. prev[i] = i - 1 /\ f[i - 1] \in Nat \ {0}
      BY <1>1, <3>1
    <3>4. step[i][f[i - 1]] = Base * f[i - 1]
      BY <1>2, <3>3
    <3> QED
      BY <2>2, <3>2, <3>3, <3>4
  <2> QED
    BY <2>1, <2>2
<1>6. f = [i \in 0..n |-> f[i]]
  OBVIOUS
<1>7. PowerOf(n, f)
  BY <1>5, <1>6, Zenon DEF PowerOf
<1> QED
  BY <1>7

Powers(f, n) == \A i \in 0..n : f[i] = IF i = 0 THEN 1 ELSE Base * f[i - 1]

LEMMA PowerSame ==
  ASSUME NEW n \in Nat, NEW f, Powers(f, n), NEW g, Powers(g, n)
  PROVE  Alike(f, g, n)
<1> SUFFICES \A i \in 0..n : f[i] = g[i]
  BY DEF Alike
<1> DEFINE T == {i \in 0..n : f[i] # g[i]}
<1> SUFFICES ASSUME T # {} PROVE FALSE
  OBVIOUS
<1>1. PICK i \in T : \A y \in T : i <= y
  <2>1. T \subseteq Nat
    OBVIOUS
  <2> HIDE DEF T
  <2> QED
    BY <2>1, Least
<1>2. i # 0
  BY DEF Powers
<1>3. i - 1 \in 0..n /\ i - 1 \notin T
  BY <1>1, <1>2
<1>4. f[i - 1] = g[i - 1]
  BY <1>3
<1> QED
  BY <1>2, <1>4 DEF Powers

LEMMA PowerSolved ==
  ASSUME NEW n \in Nat, NEW g, Powers(g, n)
  PROVE  Power(n) = g[n]
<1>1. PICK c : PowerOf(n, c) /\ Power(n) = c[n]
  BY PowerExists, PowerChoice
<1>2. Powers(c, n)
  BY <1>1 DEF PowerOf, Powers
<1>3. Alike(c, g, n) /\ n \in 0..n
  BY <1>2, PowerSame
<1> QED
  BY <1>1, <1>3 DEF Alike

LEMMA PowerZero == Power(0) = 1
<1>1. PICK f : PowerOf(0, f) /\ Power(0) = f[0]
  BY PowerExists, PowerChoice
<1> QED
  BY <1>1 DEF PowerOf

LEMMA PowerNext ==
  ASSUME NEW n \in Nat
  PROVE  /\ Power(n) \in Nat \ {0}
         /\ Power(n + 1) = Base * Power(n)
<1>0. n + 1 \in Nat
  OBVIOUS
<1>1. PICK f \in [0..n + 1 -> Nat \ {0}] : PowerOf(n + 1, f)
  BY <1>0, PowerExists
<1>2. Powers(f, n + 1)
  BY <1>1 DEF PowerOf, Powers
<1>3. Powers(f, n)
  BY <1>2 DEF Powers
<1>4. Power(n + 1) = f[n + 1] /\ Power(n) = f[n]
  BY <1>2, <1>3, PowerSolved
<1>5. n + 1 \in 0..n + 1 /\ n + 1 # 0 /\ n + 1 - 1 = n /\ n \in 0..n + 1
  OBVIOUS
<1>6. f[n + 1] = Base * f[n]
  BY <1>2, <1>5 DEF Powers
<1> QED
  BY <1>4, <1>5, <1>6

(* Base times something. *)
LEMMA BaseTimes ==
  ASSUME NEW x \in Nat, NEW y \in Nat
  PROVE  /\ Base * x \in Nat /\ (x <= y => Base * x <= Base * y)
         /\ (x < y => Base * x + Base <= Base * y)
         /\ x <= Base * x /\ (x > 0 => x < Base * x)
BY BaseNat

LEMMA PowerGrows ==
  ASSUME NEW m \in Nat, NEW n \in Nat, m <= n
  PROVE  Power(m) <= Power(n)
<1> DEFINE T == {k \in Nat : m <= k /\ ~(Power(m) <= Power(k))}
<1>1. T = {}
  <2> SUFFICES ASSUME T # {} PROVE FALSE
    OBVIOUS
  <2>1. PICK k \in T : \A y \in T : k <= y
    <3>1. T \subseteq Nat
      OBVIOUS
    <3> HIDE DEF T
    <3> QED
      BY <3>1, Least
  <2>2. k \in Nat /\ m <= k /\ ~(Power(m) <= Power(k))
    OBVIOUS
  <2>3. Power(m) \in Nat
    BY PowerNext
  <2>4. k # m
    BY <2>2, <2>3
  <2>5. PICK j \in Nat : k = j + 1
    <3>1. k - 1 \in Nat /\ k = (k - 1) + 1
      BY <2>2, <2>4
    <3> QED
      BY <3>1
  <2>6. j \notin T
    BY <2>1, <2>5
  <2>7. Power(m) <= Power(j)
    BY <2>2, <2>4, <2>5, <2>6
  <2>8. Power(j) \in Nat /\ Power(k) = Base * Power(j)
    BY <2>5, PowerNext
  <2>9. Power(j) <= Base * Power(j) /\ Base * Power(j) \in Nat
    BY <2>8, BaseTimes
  <2> QED
    BY <2>2, <2>3, <2>7, <2>8, <2>9
<1> QED
  BY <1>1

LEMMA Divided ==
  ASSUME NEW x \in Nat
  PROVE  /\ x \div Base \in Nat /\ x % Base \in Nat /\ x % Base < Base
         /\ x = Base * (x \div Base) + (x % Base)
         /\ x >= Base => x \div Base > 0 /\ x \div Base < x
<1>1. x \div Base \in Nat /\ x % Base \in Nat /\ x % Base < Base
  BY BaseNat
<1>2. x = Base * (x \div Base) + (x % Base)
  BY BaseNat
<1>3. PICK q \in Nat, r \in Nat : q = x \div Base /\ r = x % Base
  BY <1>1
<1>4. ASSUME x >= Base PROVE q > 0 /\ q < x
  <2>1. x = Base * q + r /\ r < Base
    BY <1>1, <1>2, <1>3
  <2>2. Base * 0 = 0
    BY BaseNat
  <2>3. q > 0
    BY <1>4, <2>1, <2>2, BaseNat
  <2>4. q < Base * q /\ Base * q \in Nat
    BY <2>3, BaseTimes
  <2> QED
    BY <2>1, <2>3, <2>4
<1> QED
  BY <1>1, <1>2, <1>3, <1>4

LEMMA DividedBack ==
  ASSUME NEW y \in Nat, NEW d \in Nat, d < Base
  PROVE  /\ Base * y + d \in Nat
         /\ (Base * y + d) % Base = d /\ (Base * y + d) \div Base = y
<1>1. PICK x \in Nat : x = Base * y + d
  BY BaseNat, BaseTimes
<1>2. x \div Base \in Nat /\ x % Base \in Nat /\ x % Base < Base /\ x = Base * (x \div Base) + (x % Base)
  BY <1>1, Divided
<1>3. PICK q \in Nat, r \in Nat : q = x \div Base /\ r = x % Base
  BY <1>2
<1>4. Base * q + r = Base * y + d /\ r < Base /\ Base * q \in Nat /\ Base * y \in Nat
  BY <1>1, <1>2, <1>3, BaseTimes
<1>5. ~(q < y)
  <2> SUFFICES ASSUME q < y PROVE FALSE
    OBVIOUS
  <2>1. Base * q + Base <= Base * y
    BY BaseTimes
  <2> QED
    BY <1>4, <2>1, BaseNat
<1>6. ~(y < q)
  <2> SUFFICES ASSUME y < q PROVE FALSE
    OBVIOUS
  <2>1. Base * y + Base <= Base * q
    BY BaseTimes
  <2> QED
    BY <1>4, <2>1, BaseNat
<1>7. q = y
  BY <1>5, <1>6
<1>8. r = d
  BY <1>4, <1>7
<1> QED
  BY <1>1, <1>3, <1>7, <1>8

LEMMA Remainder ==
  ASSUME NEW x \in Nat
  PROVE  (x < Base => x % Base = x) /\ (x >= Base /\ x < 2 * Base => x % Base = x - Base)
<1>1. CASE x < Base
  <2>1. Base * 0 + x = x
    BY BaseNat
  <2>2. (Base * 0 + x) % Base = x
    BY <1>1, DividedBack
  <2> QED
    BY <1>1, <2>1, <2>2, BaseNat
<1>2. CASE x >= Base /\ x < 2 * Base
  <2>1. x - Base \in Nat /\ x - Base < Base /\ Base * 1 + (x - Base) = x
    BY <1>2, BaseNat
  <2>2. (Base * 1 + (x - Base)) % Base = x - Base
    BY <2>1, DividedBack
  <2> QED
    BY <1>2, <2>1, <2>2, BaseNat
<1> QED
  BY <1>1, <1>2, BaseNat

(* What the recursion in EncodeVarint computes. *)
EncodeOf(v, f) ==
  f = [x \in 0..v |-> IF x < Base THEN <<x>> ELSE <<(x % Base) + Base>> \o f[x \div Base]]

LEMMA EncodeChoice ==
  ASSUME NEW v
  PROVE  EncodeVarint(v) = (CHOOSE f : EncodeOf(v, f))[v]
BY Zenon DEF EncodeVarint, EncodeOf

LEMMA EncodeExists ==
  ASSUME NEW v \in Nat
  PROVE  \E f \in [0..v -> Seq(Nat)] : EncodeOf(v, f)
<1> DEFINE stop == {x \in 0..v : x < Base}
           base == [x \in 0..v |-> <<x>>]
           prev == [x \in 0..v |-> x \div Base]
           step == [x \in 0..v |-> [s \in Seq(Nat) |-> <<(x % Base) + Base>> \o s]]
<1>1. \A x \in 0..v : base[x] = <<x>> /\ base[x] \in Seq(Nat) /\ prev[x] = x \div Base
  OBVIOUS
<1>2. \A x \in 0..v : \A s \in Seq(Nat) :
        step[x][s] = <<(x % Base) + Base>> \o s /\ step[x][s] \in Seq(Nat)
  <2> TAKE x \in 0..v
  <2> TAKE s \in Seq(Nat)
  <2>0. x \in Nat
    OBVIOUS
  <2>3. x % Base \in Nat
    BY <2>0, Divided
  <2>4. (x % Base) + Base \in Nat
    BY <2>3, BaseNat
  <2>1. PICK b \in Nat : b = (x % Base) + Base
    BY <2>4
  <2>2. step[x][s] = <<(x % Base) + Base>> \o s
    OBVIOUS
  <2> QED
    BY <2>1, <2>2
<1>3. \A x \in 0..v : x \notin stop => x >= Base
  BY BaseNat
<1>4. \A x \in 0..v : x \in stop <=> x < Base
  OBVIOUS
<1> HIDE DEF base, prev, step, stop
<1>5. Scheme(0, v, Seq(Nat), stop, base, prev, step)
  <2>1. \A x \in 0..v : x \notin stop => prev[x] \in 0..v /\ prev[x] < x
    <3> SUFFICES ASSUME NEW x \in 0..v, x \notin stop PROVE prev[x] \in 0..v /\ prev[x] < x
      OBVIOUS
    <3>1. x \div Base \in Nat /\ x \div Base < x
      BY <1>3, Divided
    <3> QED
      BY <1>1, <3>1
  <2>2. \A x \in 0..v : x \in stop => base[x] \in Seq(Nat)
    BY <1>1
  <2>3. 0 \in Nat /\ v \in Nat /\ 0 <= v
    OBVIOUS
  <2> QED
    BY <1>2, <2>1, <2>2, <2>3, Zenon DEF Scheme
<1>6. PICK f \in [0..v -> Seq(Nat)] : Solves(f, 0, v, stop, base, prev, step)
  BY <1>5, SolutionExists
<1>7. \A x \in 0..v : f[x] = IF x < Base THEN <<x>> ELSE <<(x % Base) + Base>> \o f[x \div Base]
  <2> TAKE x \in 0..v
  <2>1. CASE x < Base
    BY <2>1, <1>1, <1>4, <1>6 DEF Solves
  <2>2. CASE ~(x < Base)
    <3>1. x \notin stop /\ prev[x] = x \div Base /\ prev[x] \in 0..v
      BY <2>2, <1>1, <1>4, <1>5 DEF Scheme
    <3>2. f[x] = step[x][f[prev[x]]]
      BY <3>1, <1>6 DEF Solves
    <3> QED
      BY <2>2, <3>1, <3>2, <1>2
  <2> QED
    BY <2>1, <2>2
<1>8. f = [x \in 0..v |-> f[x]]
  OBVIOUS
<1>9. EncodeOf(v, f)
  BY <1>7, <1>8, Zenon DEF EncodeOf
<1> QED
  BY <1>9

Encodes(f, v) ==
  \A x \in 0..v : f[x] = IF x < Base THEN <<x>> ELSE <<(x % Base) + Base>> \o f[x \div Base]

LEMMA EncodeSame ==
  ASSUME NEW v \in Nat, NEW f, Encodes(f, v), NEW g, Encodes(g, v)
  PROVE  Alike(f, g, v)
<1> SUFFICES \A x \in 0..v : f[x] = g[x]
  BY DEF Alike
<1> DEFINE T == {x \in 0..v : f[x] # g[x]}
<1> SUFFICES ASSUME T # {} PROVE FALSE
  OBVIOUS
<1>1. PICK x \in T : \A y \in T : x <= y
  <2>1. T \subseteq Nat
    OBVIOUS
  <2> HIDE DEF T
  <2> QED
    BY <2>1, Least
<1>2. ~(x < Base)
  BY DEF Encodes
<1>3. x \in Nat /\ x >= Base
  BY <1>2, BaseNat
<1>4. x \div Base \in Nat /\ x \div Base < x
  BY <1>3, Divided
<1>5. x \div Base \in 0..v /\ x \div Base \notin T
  BY <1>1, <1>4
<1>6. f[x \div Base] = g[x \div Base]
  BY <1>5
<1>7. x \in 0..v /\ f[x] # g[x]
  OBVIOUS
<1> HIDE DEF T
<1> QED
  BY <1>2, <1>6, <1>7, Zenon DEF Encodes

LEMMA EncodeSolved ==
  ASSUME NEW v \in Nat, NEW g, Encodes(g, v)
  PROVE  EncodeVarint(v) = g[v]
<1>1. PICK c : EncodeOf(v, c) /\ EncodeVarint(v) = c[v]
  BY EncodeExists, EncodeChoice
<1>2. Encodes(c, v)
  BY <1>1 DEF EncodeOf, Encodes
<1>3. Alike(c, g, v) /\ v \in 0..v
  BY <1>2, EncodeSame
<1> QED
  BY <1>1, <1>3 DEF Alike

LEMMA EncodeSteps ==
  ASSUME NEW x \in Nat
  PROVE  /\ EncodeVarint(x) \in Seq(Nat)
         /\ x < Base => EncodeVarint(x) = <<x>>
         /\ x >= Base => EncodeVarint(x) = <<(x % Base) + Base>> \o EncodeVarint(x \div Base)
<1>1. PICK f \in [0..x -> Seq(Nat)] : EncodeOf(x, f)
  BY EncodeExists
<1>2. Encodes(f, x)
  BY <1>1 DEF EncodeOf, Encodes
<1>3. EncodeVarint(x) = f[x] /\ x \in 0..x
  BY <1>2, EncodeSolved
<1>4. CASE x < Base
  BY <1>2, <1>3, <1>4, BaseNat DEF Encodes
<1>5. CASE x >= Base
  <2>1. PICK y \in Nat : y = x \div Base /\ y < x
    BY <1>5, Divided
  <2>2. Encodes(f, y)
    <3>1. \A z \in 0..y : z \in 0..x
      BY <2>1
    <3> QED
      BY <1>2, <3>1, Zenon DEF Encodes
  <2>3. EncodeVarint(y) = f[y]
    BY <2>2, EncodeSolved
  <2>4. ~(x < Base)
    BY <1>5, BaseNat
  <2>5. f[x] = <<(x % Base) + Base>> \o f[x \div Base]
    BY <1>2, <1>3, <2>4, Zenon DEF Encodes
  <2>6. EncodeVarint(x) = <<(x % Base) + Base>> \o EncodeVarint(x \div Base)
    BY <1>3, <2>1, <2>3, <2>5, Zenon
  <2> QED
    BY <1>3, <2>4, <2>6
<1> QED
  BY <1>4, <1>5, BaseNat

LEMMA DigitsEmpty == Digits(<< >>) = 0
<1>1. << >> \in Seq(Nat) /\ Len(<< >>) = 0
  OBVIOUS
<1>2. PICK f : DigitsOf(<< >>, f)
  BY <1>1, DigitsExists
<1>3. Digits(<< >>) = f[0]
  BY <1>1, <1>2, DigitsSolved
<1>4. f[0] = 0
  BY <1>1, <1>2 DEF DigitsOf
<1> QED
  BY <1>3, <1>4

(* The first byte is the least significant digit. *)
LEMMA DigitsMore ==
  ASSUME NEW b \in Nat, NEW s \in Seq(Nat)
  PROVE  Digits(<<b>> \o s) = (b % Base) + Base * Digits(s)
<1>1. PICK t, n : t = <<b>> \o s /\ n = Len(s)
  OBVIOUS
<1>2. n \in Nat /\ t \in Seq(Nat) /\ Len(t) = n + 1 /\ t[1] = b /\ \A i \in 1..n : t[i + 1] = s[i]
  BY <1>1
<1>3. PICK f \in [0..Len(t) -> Nat] : DigitsOf(t, f)
  BY <1>2, DigitsExists
<1>4. Digits(t) = f[n + 1]
  BY <1>2, <1>3, DigitsSolved
<1>5. \A k \in 0..n + 1 : f[k] = IF k = 0 THEN 0 ELSE (t[Len(t) - k + 1] % Base) + Base * f[k - 1]
  BY <1>2, <1>3 DEF DigitsOf
<1>6. PICK g : g = [k \in 0..n |-> f[k]]
  OBVIOUS
<1>7. \A k \in 0..n : g[k] = f[k]
  BY <1>6
<1>8. \A k \in 0..n : g[k] = IF k = 0 THEN 0 ELSE (s[Len(s) - k + 1] % Base) + Base * g[k - 1]
  <2> TAKE k \in 0..n
  <2>1. CASE k = 0
    BY <1>2, <1>5, <1>7, <2>1
  <2>2. CASE k # 0
    <3>1. k - 1 \in 0..n /\ k \in 0..n + 1 /\ n - k + 1 \in 1..n /\ Len(t) - k + 1 = (n - k + 1) + 1
      BY <1>2, <2>2
    <3>2. t[Len(t) - k + 1] = s[Len(s) - k + 1]
      BY <1>1, <1>2, <3>1
    <3> QED
      BY <1>5, <1>7, <2>2, <3>1, <3>2, Zenon
  <2> QED
    BY <2>1, <2>2
<1>9. g = [k \in 0..Len(s) |-> g[k]]
  BY <1>1, <1>6
<1>10. DigitsOf(s, g)
  BY <1>1, <1>8, <1>9, Zenon DEF DigitsOf
<1>11. Digits(s) = g[n]
  BY <1>1, <1>10, DigitsSolved
<1>12. n + 1 \in 0..n + 1 /\ n + 1 # 0 /\ Len(t) - (n + 1) + 1 = 1 /\ n + 1 - 1 = n /\ n \in 0..n
  BY <1>2
<1>13. f[n + 1] = (t[1] % Base) + Base * f[n]
  <2>1. PICK k : k = n + 1
    OBVIOUS
  <2>2. k \in 0..n + 1 /\ k # 0 /\ Len(t) - k + 1 = 1 /\ k - 1 = n
    BY <1>12, <2>1
  <2>3. f[k] = (t[Len(t) - k + 1] % Base) + Base * f[k - 1]
    BY <1>5, <2>2, Zenon
  <2> QED
    BY <2>1, <2>2, <2>3, Zenon
<1> QED
  BY <1>1, <1>2, <1>4, <1>7, <1>11, <1>12, <1>13, Zenon

LEMMA CutFirst ==
  ASSUME NEW s \in Seq(Nat), Len(s) # 0
  PROVE  \E b \in Nat, r \in Seq(Nat) :
           /\ s = <<b>> \o r /\ Len(s) = Len(r) + 1 /\ s[1] = b
           /\ \A i \in 1..Len(r) : r[i] = s[i + 1]
<1>1. PICK n : n = Len(s)
  OBVIOUS
<1>2. n \in Nat /\ n >= 1 /\ n - 1 \in Nat
  BY <1>1
<1>3. PICK r : r = [i \in 1..n - 1 |-> s[i + 1]]
  OBVIOUS
<1>4. r \in Seq(Nat) /\ Len(r) = n - 1 /\ \A i \in 1..n - 1 : r[i] = s[i + 1]
  BY <1>1, <1>2, <1>3
<1>5. PICK b \in Nat : b = s[1]
  BY <1>1, <1>2
<1>6. PICK t : t = <<b>> \o r
  OBVIOUS
<1>7. t \in Seq(Nat) /\ Len(t) = n /\ t[1] = b /\ \A i \in 1..n - 1 : t[i + 1] = r[i]
  BY <1>2, <1>4, <1>6
<1>8. \A i \in 1..n : t[i] = s[i]
  <2> TAKE i \in 1..n
  <2>1. i = 1 \/ (i - 1 \in 1..n - 1 /\ (i - 1) + 1 = i)
    BY <1>2
  <2> QED
    BY <2>1, <1>4, <1>5, <1>7
<1>9. t = s
  BY <1>1, <1>7, <1>8, SameBytes
<1>10. s = <<b>> \o r /\ s[1] = b
  BY <1>5, <1>6, <1>9, Zenon
<1>11. Len(s) = Len(r) + 1 /\ \A i \in 1..Len(r) : r[i] = s[i + 1]
  BY <1>1, <1>2, <1>4
<1> QED
  BY <1>4, <1>10, <1>11, Zenon

Topped(n) == \A s \in Seq(Nat) : Len(s) = n + 1 /\ s[n + 1] % Base = 0 => Digits(s) < Power(n)

(* Without its top digit a varint would do with a byte less. *)
LEMMA TopZero ==
  ASSUME NEW n \in Nat
  PROVE  Topped(n)
<1> DEFINE T == {k \in Nat : ~Topped(k)}
<1>1. T = {}
  <2> SUFFICES ASSUME T # {} PROVE FALSE
    OBVIOUS
  <2>1. PICK k \in T : \A y \in T : k <= y
    <3>1. T \subseteq Nat
      OBVIOUS
    <3> HIDE DEF T
    <3> QED
      BY <3>1, Least
  <2>2. k \in Nat /\ ~Topped(k)
    OBVIOUS
  <2>3. PICK s \in Seq(Nat) : Len(s) = k + 1 /\ s[k + 1] % Base = 0 /\ ~(Digits(s) < Power(k))
    BY <2>2 DEF Topped
  <2>10. Len(s) # 0
    BY <2>2, <2>3
  <2>4. PICK b \in Nat, r \in Seq(Nat) :
           /\ s = <<b>> \o r /\ Len(s) = Len(r) + 1 /\ s[1] = b
           /\ \A i \in 1..Len(r) : r[i] = s[i + 1]
    BY <2>10, CutFirst
  <2>5. Len(r) = k
    BY <2>2, <2>3, <2>4
  <2>6. PICK d \in Nat, y \in Nat : d = b % Base /\ y = Digits(r) /\ d < Base
    BY Divided, DigitsNat
  <2>7. Digits(s) = d + Base * y
    BY <2>4, <2>6, DigitsMore
  <2>8. CASE k = 0
    <3>1. r = << >> /\ s[1] % Base = 0
      BY <2>3, <2>5, <2>8
    <3>2. y = 0 /\ d = 0
      BY <2>4, <2>6, <3>1, DigitsEmpty
    <3>3. Digits(s) = 0
      BY <2>7, <3>2, BaseNat
    <3> QED
      BY <2>3, <2>8, <3>3, PowerZero
  <2>9. CASE k # 0
    <3>1. PICK j \in Nat : k = j + 1
      <4>1. k - 1 \in Nat /\ k = (k - 1) + 1
        BY <2>2, <2>9
      <4> QED
        BY <4>1
    <3>2. j \notin T
      BY <2>1, <3>1
    <3>3. Topped(j)
      BY <3>2
    <3>4. r[j + 1] % Base = 0
      <4>1. k \in 1..Len(r)
        BY <2>2, <2>5, <2>9
      <4>2. r[k] = s[k + 1]
        BY <2>4, <4>1
      <4> QED
        BY <2>3, <3>1, <4>2
    <3>5. y < Power(j)
      BY <2>5, <2>6, <3>1, <3>3, <3>4 DEF Topped
    <3>6. PICK p \in Nat : p = Power(j) /\ Power(k) = Base * p
      BY <3>1, PowerNext
    <3>7. Base * y + Base <= Base * p /\ Base * y \in Nat /\ Base * p \in Nat
      BY <3>5, <3>6, BaseTimes
    <3>8. PICK u \in Nat, w \in Nat : u = Base * y /\ w = Base * p
      BY <3>7
    <3>9. Digits(s) = d + u /\ u + Base <= w /\ Power(k) = w
      BY <2>7, <3>6, <3>7, <3>8
    <3>11. PICK c \in Nat : c = Base
      BY BaseNat
    <3>12. d < c /\ u + c <= w
      BY <2>6, <3>9, <3>11
    <3>10. d + u < w
      BY <3>12
    <3> QED
      BY <2>3, <3>9, <3>10
  <2> QED
    BY <2>8, <2>9
<1> QED
  BY <1>1

(* The bytes ltv_encode_varint writes: continued but for the last, which is *)
(* 0 only for the number 0.                                                 *)
Canonical(s) ==
  /\ Len(s) # 0 /\ s[Len(s)] < Base
  /\ \A i \in 1..Len(s) - 1 : s[i] >= Base /\ s[i] < 2 * Base
  /\ Len(s) > 1 => s[Len(s)] # 0

Encoded(s) == EncodeVarint(Digits(s)) = s /\ (s[Len(s)] # 0 => Digits(s) > 0)

LEMMA OneByte ==
  ASSUME NEW b \in Nat, b < Base, NEW s, s = <<b>>
  PROVE  Encoded(s)
<1>1. << >> \in Seq(Nat) /\ <<b>> \o << >> = <<b>>
  OBVIOUS
<1>2. Digits(s) = (b % Base) + Base * 0
  BY <1>1, DigitsMore, DigitsEmpty
<1>3. Digits(s) = b
  BY <1>2, Remainder, BaseNat
<1>4. EncodeVarint(b) = s
  BY EncodeSteps
<1>5. s[Len(s)] = b
  OBVIOUS
<1> QED
  BY <1>3, <1>4, <1>5 DEF Encoded

LEMMA MoreBytes ==
  ASSUME NEW b \in Nat, b >= Base, b < 2 * Base, NEW r \in Seq(Nat), Len(r) # 0, r[Len(r)] # 0, Encoded(r),
         NEW s, s = <<b>> \o r
  PROVE  Encoded(s)
<1>0. PICK y \in Nat, d \in Nat : y = Digits(r) /\ d = b % Base
  BY DigitsNat, Divided
<1>1. PICK x : y = Digits(r) /\ d = b % Base /\ x = Digits(s)
  BY <1>0
<1>2. d = b - Base /\ d < Base /\ y > 0
  BY <1>1, Remainder, BaseNat DEF Encoded
<1>3. x = d + Base * y
  BY <1>1, DigitsMore
<1>4. Base * y \in Nat /\ Base * 1 <= Base * y /\ Base * 1 = Base
  BY <1>2, BaseTimes, BaseNat
<1>10. PICK u \in Nat : u = Base * y
  BY <1>4
<1>11. u >= Base /\ x = d + u
  BY <1>3, <1>4, <1>10
<1>13. x = u + d /\ x \in Nat /\ d \in Nat /\ u \in Nat
  BY <1>1, <1>10, <1>11
<1>14. PICK c \in Nat : c = Base /\ c > 1
  BY BaseNat
<1>15. u >= c
  BY <1>11, <1>14
<1>16. x >= c /\ x > 0
  BY <1>13, <1>14, <1>15
<1>12. x \in Nat /\ x >= Base /\ x > 0 /\ x = u + d
  BY <1>13, <1>14, <1>16
<1>5. x \in Nat /\ x >= Base /\ x > 0 /\ x = Base * y + d
  BY <1>10, <1>12
<1>6. x % Base = d /\ x \div Base = y
  BY <1>2, <1>5, DividedBack
<1>7. EncodeVarint(x) = <<(x % Base) + Base>> \o EncodeVarint(x \div Base)
  BY <1>5, EncodeSteps
<1>8. (x % Base) + Base = b
  BY <1>2, <1>6, BaseNat
<1>9. EncodeVarint(x) = s
  BY <1>1, <1>6, <1>7, <1>8 DEF Encoded
<1> QED
  BY <1>1, <1>5, <1>9 DEF Encoded

LEMMA CanonicalEncoded ==
  ASSUME NEW s \in Seq(Nat), Canonical(s)
  PROVE  Encoded(s)
<1> DEFINE Bad(n) == \E q \in Seq(Nat) : Len(q) = n /\ Canonical(q) /\ ~Encoded(q)
           T == {n \in Nat : Bad(n)}
<1>1. T = {}
  <2> SUFFICES ASSUME T # {} PROVE FALSE
    OBVIOUS
  <2>1. PICK n \in T : \A y \in T : n <= y
    <3>1. T \subseteq Nat
      OBVIOUS
    <3> HIDE DEF T
    <3> QED
      BY <3>1, Least
  <2>2. n \in Nat /\ Bad(n)
    OBVIOUS
  <2>3. PICK q \in Seq(Nat) : Len(q) = n /\ Canonical(q) /\ ~Encoded(q)
    BY <2>2
  <2>4. n # 0 /\ q[n] < Base /\ (n > 1 => q[n] # 0)
    BY <2>3 DEF Canonical
  <2>5. PICK b \in Nat, r \in Seq(Nat) :
           /\ q = <<b>> \o r /\ Len(q) = Len(r) + 1 /\ q[1] = b
           /\ \A i \in 1..Len(r) : r[i] = q[i + 1]
    BY <2>2, <2>3, <2>4, CutFirst
  <2>6. CASE n = 1
    <3>1. r = << >> /\ b < Base
      BY <2>3, <2>4, <2>5, <2>6
    <3>2. q = <<b>>
      BY <2>5, <3>1
    <3> QED
      BY <2>3, <3>1, <3>2, OneByte
  <2>7. CASE n # 1
    <3>1. Len(r) = n - 1 /\ Len(r) # 0 /\ n > 1
      BY <2>2, <2>3, <2>4, <2>5, <2>7
    <3>2. r[Len(r)] = q[n]
      <4>1. Len(r) \in 1..Len(r) /\ Len(r) + 1 = n
        BY <2>2, <3>1
      <4> QED
        BY <2>5, <4>1
    <3>3. \A i \in 1..Len(r) - 1 : r[i] >= Base /\ r[i] < 2 * Base
      <4> TAKE i \in 1..Len(r) - 1
      <4>1. i \in 1..Len(r) /\ i + 1 \in 1..Len(q) - 1
        BY <2>2, <2>3, <3>1
      <4>2. r[i] = q[i + 1] /\ q[i + 1] >= Base /\ q[i + 1] < 2 * Base
        BY <2>3, <2>5, <4>1 DEF Canonical
      <4> QED
        BY <4>2
    <3>4. Canonical(r)
      BY <2>4, <3>1, <3>2, <3>3 DEF Canonical
    <3>5. n - 1 \in Nat /\ n - 1 \notin T
      BY <2>1, <2>2, <3>1
    <3>6. Encoded(r)
      BY <3>1, <3>4, <3>5
    <3>7. b >= Base /\ b < 2 * Base
      <4>1. 1 \in 1..Len(q) - 1
        BY <2>2, <2>3, <3>1
      <4> QED
        BY <2>3, <2>5, <4>1 DEF Canonical
    <3> QED
      BY <2>3, <2>4, <2>5, <3>1, <3>2, <3>6, <3>7, MoreBytes
  <2> QED
    BY <2>6, <2>7
<1>2. Len(s) \in Nat
  OBVIOUS
<1>3. ~Bad(Len(s))
  BY <1>1, <1>2
<1> QED
  BY <1>3

(* What ltv_encode_varint writes for x. *)
EncodingOf(x, s) ==
  /\ s \in Seq(Nat) /\ Len(s) # 0 /\ Digits(s) = x
  /\ s[Len(s)] < Base /\ \A i \in 1..Len(s) - 1 : s[i] >= Base
  /\ x < Power(Len(s)) /\ (Len(s) > 1 => Power(Len(s) - 1) <= x)
  /\ s[Len(s)] * Power(Len(s) - 1) <= x

LEMMA EncodingSmall ==
  ASSUME NEW x \in Nat, x < Base
  PROVE  EncodingOf(x, EncodeVarint(x))
<1>1. PICK s : s = <<x>>
  OBVIOUS
<1>2. EncodeVarint(x) = s
  BY <1>1, EncodeSteps
<1>3. s \in Seq(Nat) /\ Len(s) = 1 /\ s[1] = x
  BY <1>1
<1>4. Digits(s) = x
  <2>1. << >> \in Seq(Nat) /\ <<x>> \o << >> = <<x>>
    OBVIOUS
  <2>2. Digits(s) = (x % Base) + Base * 0
    BY <1>1, <2>1, DigitsMore, DigitsEmpty
  <2> QED
    BY <2>2, Remainder, BaseNat
<1>5. Power(0) = 1 /\ Power(1) = Base
  <2>1. Power(0 + 1) = Base * Power(0)
    BY PowerNext
  <2> QED
    BY <2>1, PowerZero, BaseNat
<1>6. x * 1 = x /\ 1 - 1 = 0
  OBVIOUS
<1> QED
  BY <1>2, <1>3, <1>4, <1>5, <1>6 DEF EncodingOf

LEMMA EncodingLarge ==
  ASSUME NEW x \in Nat, x >= Base, EncodingOf(x \div Base, EncodeVarint(x \div Base))
  PROVE  EncodingOf(x, EncodeVarint(x))
<1>1. PICK y \in Nat, d \in Nat : y = x \div Base /\ d = x % Base
  BY Divided
<1>2. d < Base /\ x = Base * y + d /\ y > 0 /\ Base * y \in Nat
  BY <1>1, Divided, BaseTimes
<1>3. PICK r, s : r = EncodeVarint(y) /\ s = EncodeVarint(x)
  OBVIOUS
<1>4. PICK b \in Nat : b = d + Base
  BY BaseNat
<1>5. s = <<b>> \o r
  BY <1>1, <1>3, <1>4, EncodeSteps
<1>6. EncodingOf(y, r)
  BY <1>1, <1>3
<1>7. PICK k : k = Len(r)
  OBVIOUS
<1>8. r \in Seq(Nat) /\ k \in Nat /\ k # 0 /\ Digits(r) = y /\ r[k] < Base /\ r[k] \in Nat
  BY <1>6, <1>7 DEF EncodingOf
<1>9. /\ s \in Seq(Nat) /\ Len(s) = k + 1 /\ s[1] = b
      /\ \A i \in 1..k : s[i + 1] = r[i]
  BY <1>5, <1>7, <1>8
<1>10. Digits(s) = x
  <2>1. b % Base = d
    BY <1>2, <1>4, Remainder, BaseNat
  <2>2. Digits(s) = d + Base * y
    BY <1>5, <1>8, <2>1, DigitsMore
  <2> QED
    BY <1>2, <2>2
<1>11. s[k + 1] = r[k]
  BY <1>8, <1>9
<1>12. \A i \in 1..k : s[i] >= Base
  <2> TAKE i \in 1..k
  <2>1. CASE i = 1
    BY <1>4, <1>9, <2>1, BaseNat
  <2>2. CASE i # 1
    <3>1. i - 1 \in 1..k - 1 /\ i - 1 \in 1..k /\ (i - 1) + 1 = i
      BY <1>8, <2>2
    <3>2. s[i] = r[i - 1]
      BY <1>9, <3>1
    <3>3. r[i - 1] >= Base
      BY <1>6, <1>7, <3>1 DEF EncodingOf
    <3> QED
      BY <3>2, <3>3
  <2> QED
    BY <2>1, <2>2
<1>13. PICK j \in Nat : k = j + 1
  <2>1. k - 1 \in Nat /\ k = (k - 1) + 1
    BY <1>8
  <2> QED
    BY <2>1
<1>14. PICK p \in Nat, P \in Nat : /\ p = Power(j) /\ P = Power(k) /\ P = Base * p
                                   /\ Power(k + 1) = Base * P
  BY <1>8, <1>13, PowerNext
<1>15. y < P /\ (k > 1 => p <= y) /\ r[k] * p <= y
  <2>1. k - 1 = j
    BY <1>13
  <2> QED
    BY <1>6, <1>7, <1>14, <2>1 DEF EncodingOf
<1>16. x < Power(k + 1)
  <2>1. Base * y + Base <= Base * P /\ Base * P \in Nat
    BY <1>14, <1>15, BaseTimes
  <2> QED
    BY <1>2, <1>14, <2>1, BaseNat
<1>17. Power(k) <= x
  <2>1. p <= y
    <3>1. CASE k > 1
      BY <1>15, <3>1
    <3>2. CASE ~(k > 1)
      <4>1. j = 0
        BY <1>8, <1>13, <3>2
      <4> QED
        BY <1>2, <1>14, <4>1, PowerZero
    <3> QED
      BY <3>1, <3>2
  <2>2. Base * p <= Base * y
    BY <1>14, <2>1, BaseTimes
  <2> QED
    BY <1>2, <1>14, <2>2, BaseNat
<1>18. r[k] * P <= x
  <2>1. PICK c \in Nat, z \in Nat : c = r[k] /\ z = c * p
    BY <1>8, <1>14, Times
  <2>2. c * (Base * p) = Base * (c * p)
    BY <1>14, <2>1, BaseNat
  <2>3. Base * z <= Base * y /\ Base * z \in Nat
    BY <1>15, <2>1, BaseTimes
  <2>4. PICK u \in Nat, w \in Nat : u = Base * y /\ w = Base * z
    BY <1>2, <2>3
  <2>5. r[k] * P = w
    BY <1>14, <2>1, <2>2, <2>4
  <2>6. x = u + d /\ w <= u
    BY <1>2, <2>3, <2>4
  <2>7. w <= x
    BY <2>4, <2>6
  <2> QED
    BY <2>5, <2>7
<1>19. (k + 1) - 1 = k /\ k + 1 # 0
  BY <1>8
<1> QED
  BY <1>3, <1>8, <1>9, <1>10, <1>11, <1>12, <1>16, <1>17, <1>18, <1>19, <1>14 DEF EncodingOf

LEMMA EncodingIs ==
  ASSUME NEW x \in Nat
  PROVE  EncodingOf(x, EncodeVarint(x))
<1> DEFINE T == {y \in Nat : ~EncodingOf(y, EncodeVarint(y))}
<1>1. T = {}
  <2> SUFFICES ASSUME T # {} PROVE FALSE
    OBVIOUS
  <2>1. PICK y \in T : \A z \in T : y <= z
    <3>1. T \subseteq Nat
      OBVIOUS
    <3> HIDE DEF T
    <3> QED
      BY <3>1, Least
  <2>2. y \in Nat /\ ~EncodingOf(y, EncodeVarint(y))
    OBVIOUS
  <2>3. y >= Base
    BY <2>2, EncodingSmall, BaseNat
  <2>4. PICK q \in Nat : q = y \div Base /\ q < y
    BY <2>2, <2>3, Divided
  <2>5. q \notin T
    BY <2>1, <2>2, <2>4
  <2>6. EncodingOf(q, EncodeVarint(q))
    BY <2>5
  <2> QED
    BY <2>2, <2>3, <2>4, <2>6, EncodingLarge
<1> QED
  BY <1>1

LEMMA VarintLimits ==
  /\ MaxVarint \in Nat /\ MaxVarint >= 1 /\ LastLimit \in Nat /\ LastLimit <= Base
  /\ MaxPayload \in Nat
BY FrameAssumption

(* The sizes among which ltv_varint_size chooses the least. *)
SizesOf(v) == {n \in 1..MaxVarint : n = MaxVarint \/ v < Power(n)}

LEMMA SizeLeast ==
  ASSUME NEW v \in Nat
  PROVE  /\ VarintSize(v) \in 1..MaxVarint
         /\ VarintSize(v) = MaxVarint \/ v < Power(VarintSize(v))
         /\ \A n \in 1..MaxVarint : v < Power(n) => VarintSize(v) <= n
<1>1. SizesOf(v) \subseteq Nat
  BY DEF SizesOf
<1>2. MaxVarint \in SizesOf(v)
  BY VarintLimits DEF SizesOf
<1>3. SizesOf(v) # {}
  BY <1>2
<1>4. VarintSize(v) = Min(SizesOf(v))
  BY Zenon DEF VarintSize, SizesOf
<1>5. VarintSize(v) \in SizesOf(v) /\ \A y \in SizesOf(v) : VarintSize(v) <= y
  BY <1>1, <1>3, <1>4, Least2
<1>6. \A n \in 1..MaxVarint : v < Power(n) => n \in SizesOf(v)
  BY DEF SizesOf
<1> QED
  BY <1>5, <1>6 DEF SizesOf

(* The size of a number that needs n digits. *)
LEMMA SizeExact ==
  ASSUME NEW v \in Nat, NEW n \in 1..MaxVarint, v < Power(n), n > 1 => Power(n - 1) <= v
  PROVE  VarintSize(v) = n
<1>1. PICK m : m = VarintSize(v)
  OBVIOUS
<1>2. m \in 1..MaxVarint /\ (m = MaxVarint \/ v < Power(m)) /\ m <= n
  BY <1>1, SizeLeast
<1>3. ASSUME m < n PROVE FALSE
  <2>1. m \in Nat /\ n - 1 \in Nat /\ m <= n - 1 /\ n > 1 /\ m # MaxVarint
    BY <1>2, <1>3, VarintLimits
  <2>2. Power(m) <= Power(n - 1)
    BY <2>1, PowerGrows
  <2>3. PICK a \in Nat, b \in Nat : a = Power(m) /\ b = Power(n - 1)
    BY <2>1, PowerNext
  <2>4. v < a /\ a <= b /\ b <= v
    BY <1>2, <2>1, <2>2, <2>3
  <2> QED
    BY <2>3, <2>4
<1> QED
  BY <1>1, <1>2, <1>3, VarintLimits

(* Products grow with their first factor. *)
LEMMA TimesGrows ==
  ASSUME NEW a \in Nat, NEW b \in Nat, NEW p \in Nat, a <= b
  PROVE  a * p <= b * p
<1>1. PICK c \in Nat : b = a + c
  <2>1. b - a \in Nat /\ b = a + (b - a)
    OBVIOUS
  <2> QED
    BY <2>1
<1>2. b * p = a * p + c * p
  BY <1>1
<1>3. PICK x \in Nat, y \in Nat, z \in Nat : x = a * p /\ y = c * p /\ z = b * p
  BY Times
<1> QED
  BY <1>2, <1>3

(* Where the first byte without the continuation flag is. *)
LEMMA EndsThere ==
  ASSUME NEW d \in Seq(Nat), NEW k \in 1..Len(d), k <= MaxVarint, d[k] < Base,
         \A i \in 1..k - 1 : d[i] >= Base
  PROVE  Ends(d) = k
<1>1. PICK e : e = Ends(d)
  OBVIOUS
<1>2. /\ e \in 0..Len(d) /\ e <= MaxVarint
      /\ e # 0 => d[e] < Base /\ \A i \in 1..e - 1 : d[i] >= Base
      /\ e = 0 => \A i \in 1..Len(d) : i <= MaxVarint => d[i] >= Base
  BY <1>1, EndsAt
<1>3. d[k] \in Nat /\ Base \in Nat
  BY BaseNat
<1>4. e # 0
  BY <1>2, <1>3
<1>5. ~(e < k)
  <2> SUFFICES ASSUME e < k PROVE FALSE
    OBVIOUS
  <2>1. e \in 1..k - 1 /\ d[e] \in Nat
    BY <1>2, <1>4
  <2> QED
    BY <1>2, <1>3, <1>4, <2>1
<1>6. ~(k < e)
  <2> SUFFICES ASSUME k < e PROVE FALSE
    OBVIOUS
  <2>1. k \in 1..e - 1
    BY <1>2
  <2> QED
    BY <1>2, <1>3, <1>4, <2>1
<1> QED
  BY <1>1, <1>2, <1>5, <1>6

(* A length that ltv_build writes is short enough, and its last byte small *)
(* enough, for ltv_decode_varint.                                          *)
LEMMA EncodingFits ==
  ASSUME NEW x \in Nat, x > 0, x <= MaxPayload + 1, NEW s, EncodingOf(x, s)
  PROVE  /\ Len(s) \in 1..MaxVarint /\ (Len(s) = MaxVarint => s[Len(s)] < LastLimit)
         /\ VarintSize(x) = Len(s)
<1>1. PICK k, j : k = Len(s) /\ j = MaxVarint - 1
  OBVIOUS
<1>2. /\ s \in Seq(Nat) /\ k \in Nat /\ k # 0 /\ s[k] \in Nat /\ s[k] < Base
      /\ x < Power(k) /\ (k > 1 => Power(k - 1) <= x) /\ s[k] * Power(k - 1) <= x
  BY <1>1 DEF EncodingOf
<1>3. j \in Nat /\ MaxVarint = j + 1
  BY <1>1, VarintLimits
<1>4. PICK P \in Nat, Q \in Nat : P = Power(j) /\ Q = Base * P /\ Power(MaxVarint) = Q
  <2>1. Power(j) \in Nat /\ Power(j + 1) = Base * Power(j)
    BY <1>3, PowerNext
  <2>2. Base * Power(j) \in Nat
    BY <2>1, BaseTimes
  <2> QED
    BY <1>3, <2>1, <2>2
<1>5. PICK l \in Nat : l = LastLimit * P
  BY VarintLimits, Times
<1>6. x < l
  <2>1. MaxPayload + 1 < LastLimit * Power(MaxVarint - 1)
    BY WireAssumption
  <2>2. MaxPayload + 1 < l /\ MaxPayload \in Nat
    BY <1>1, <1>4, <1>5, <2>1, VarintLimits
  <2> QED
    BY <2>2
<1>7. l <= Q
  BY <1>4, <1>5, TimesGrows, VarintLimits, BaseNat
<1>8. k <= MaxVarint
  <2> SUFFICES ASSUME ~(k <= MaxVarint) PROVE FALSE
    OBVIOUS
  <2>1. k - 1 \in Nat /\ MaxVarint \in Nat /\ MaxVarint <= k - 1 /\ k > 1
    BY <1>2, VarintLimits
  <2>2. Power(MaxVarint) <= Power(k - 1)
    BY <2>1, PowerGrows
  <2>3. PICK b \in Nat : b = Power(k - 1)
    BY <2>1, PowerNext
  <2>4. Q <= b /\ b <= x
    BY <1>2, <1>4, <2>1, <2>2, <2>3
  <2> QED
    BY <1>6, <1>7, <2>3, <2>4
<1>9. ASSUME k = MaxVarint, ~(s[k] < LastLimit) PROVE FALSE
  <2>1. k - 1 = j
    BY <1>1, <1>9
  <2>2. PICK c \in Nat, z \in Nat : c = s[k] /\ z = c * P /\ LastLimit <= c
    BY <1>2, <1>4, <1>9, Times, VarintLimits
  <2>3. l <= z
    BY <1>5, <2>2, TimesGrows, VarintLimits
  <2>4. z <= x
    BY <1>2, <1>4, <2>1, <2>2
  <2> QED
    BY <1>5, <1>6, <2>2, <2>3, <2>4
<1>10. k \in 1..MaxVarint
  BY <1>2, <1>8, VarintLimits
<1>11. VarintSize(x) = k
  BY <1>2, <1>10, SizeExact
<1> QED
  BY <1>1, <1>9, <1>10, <1>11

IsWhole(p, f) == Parse(p, f).code = "OK" /\ Parse(p, f).total = Len(f)

(* f has n bytes, the first of which are s. *)
StartsWith(f, s, n) == f \in Seq(Nat) /\ Len(f) = n /\ \A i \in 1..Len(s) : f[i] = s[i]

LEMMA Pieces ==
  ASSUME NEW s \in Seq(Nat), NEW t \in Nat, NEW v \in Seq(Nat)
  PROVE  StartsWith(s \o <<t>> \o v, s, Len(s) + 1 + Len(v))
<1>1. PICK g, f : g = s \o <<t>> /\ f = s \o <<t>> \o v
  OBVIOUS
<1>2. g \in Seq(Nat) /\ Len(g) = Len(s) + 1 /\ \A i \in 1..Len(s) : g[i] = s[i]
  BY <1>1
<1>3. f = g \o v
  BY <1>1
<1>4. f \in Seq(Nat) /\ Len(f) = Len(g) + Len(v) /\ \A i \in 1..Len(g) : f[i] = g[i]
  BY <1>2, <1>3, Joined
<1>5. \A i \in 1..Len(s) : f[i] = s[i]
  <2> TAKE i \in 1..Len(s)
  <2>1. i \in 1..Len(g)
    BY <1>2
  <2> QED
    BY <1>2, <1>4, <2>1
<1> QED
  BY <1>1, <1>2, <1>4, <1>5 DEF StartsWith

LEMMA CutTwoBytes ==
  ASSUME NEW C \in Seq(Nat), NEW t \in 0..Len(C)
  PROVE  \A i \in 1..t : SubSeq(C, 1, t)[i] = C[i]
OBVIOUS

LEMMA LtvWhole ==
  ASSUME NEW x \in Nat, x > 0, x <= MaxPayload + 1, NEW s, EncodingOf(x, s), NEW k, k = Len(s),
         NEW f, StartsWith(f, s, k + x)
  PROVE  IsWhole("LTV", f)
<1>2. MaxPayload \in Nat
  BY VarintLimits
<1>5. k \in 1..MaxVarint /\ (k = MaxVarint => s[k] < LastLimit) /\ VarintSize(x) = k
  BY EncodingFits
<1>6. /\ s \in Seq(Nat) /\ k \in Nat /\ k # 0 /\ Digits(s) = x /\ s[k] < Base /\ s[k] \in Nat
      /\ \A i \in 1..k - 1 : s[i] >= Base
  BY DEF EncodingOf
<1>8. f \in Seq(Nat) /\ Len(f) = k + x /\ \A i \in 1..k : f[i] = s[i]
  BY DEF StartsWith
<1>9. Ends(f) = k
  <2>4. k \in 1..Len(f) /\ k \in 1..k
    BY <1>6, <1>8
  <2>1. f[k] < Base
    BY <1>6, <1>8, <2>4
  <2>2. \A i \in 1..k - 1 : f[i] >= Base
    <3> TAKE i \in 1..k - 1
    <3>1. i \in 1..k
      BY <1>6
    <3> QED
      BY <1>6, <1>8, <3>1
  <2>3. k <= MaxVarint
    BY <1>5
  <2> QED
    BY <1>8, <2>1, <2>2, <2>3, <2>4, EndsThere
<1>10. SubSeq(f, 1, k) = s
  <2>1. k \in 0..Len(f)
    BY <1>6, <1>8
  <2>2. PICK g : g = SubSeq(f, 1, k)
    OBVIOUS
  <2>3. g \in Seq(Nat) /\ Len(g) = k /\ \A i \in 1..k : g[i] = f[i]
    BY <1>8, <2>1, <2>2, CutTwo, CutTwoBytes
  <2>4. Len(g) = Len(s) /\ \A i \in 1..Len(g) : g[i] = s[i]
    BY <1>8, <2>3
  <2>5. g = s
    BY <1>6, <2>3, <2>4, SameBytes
  <2> QED
    BY <2>2, <2>5
<1>11. DecodeVarint(f) = Varint(s)
  BY <1>6, <1>9, <1>10, DecodeByEnd
<1>12. Varint(s) = [size |-> k, value |-> x]
  <2>1. ~(Len(s) = MaxVarint /\ Last(s) >= LastLimit)
    BY <1>5, <1>6, VarintLimits DEF Last
  <2>2. VarintSize(Digits(s)) = Len(s)
    BY <1>5, <1>6
  <2> QED
    BY <1>6, <2>1, <2>2 DEF Varint
<1>13. LtvPeek(f) = LtvSize([size |-> k, value |-> x])
  BY <1>11, <1>12 DEF LtvPeek
<1>14. LtvPeek(f) = Yes(k + x, k + 2, x - 1)
  BY <1>2, <1>6, <1>13 DEF LtvSize
<1>15. Peek("LTV", f).code = "OK" /\ Peek("LTV", f).total = k + x
  BY <1>14, PeekBy DEF Yes
<1>16. Len(f) >= Peek("LTV", f).total
  BY <1>6, <1>8, <1>15
<1>17. Parse("LTV", f) = Peek("LTV", f)
  BY <1>8, <1>15, <1>16, ParseBy DEF Streams
<1> QED
  BY <1>8, <1>15, <1>17 DEF IsWhole

LEMMA LtvBuilt ==
  ASSUME NEW t \in Nat, NEW v \in Seq(Nat), Len(v) <= MaxPayload
  PROVE  IsWhole("LTV", EncodeVarint(Len(v) + 1) \o <<t>> \o v)
<1>0. PICK x \in Nat : x = Len(v) + 1
  OBVIOUS
<1>1. PICK s, k, f : /\ x = Len(v) + 1 /\ s = EncodeVarint(x) /\ k = Len(s)
                     /\ f = s \o <<t>> \o v
  BY <1>0
<1>2. x > 0 /\ x <= MaxPayload + 1
  BY <1>1, VarintLimits
<1>3. EncodingOf(x, s)
  BY <1>1, EncodingIs
<1>4. s \in Seq(Nat)
  BY <1>3 DEF EncodingOf
<1>5. StartsWith(f, s, Len(s) + 1 + Len(v))
  BY <1>1, <1>4, Pieces
<1>6. Len(s) + 1 + Len(v) = k + x
  BY <1>1, <1>4
<1>7. StartsWith(f, s, k + x)
  BY <1>5, <1>6
<1>8. IsWhole("LTV", f)
  BY <1>1, <1>2, <1>3, <1>7, LtvWhole
<1> QED
  BY <1>1, <1>8

LEMMA TlvBuilt ==
  ASSUME NEW v \in Seq(Nat), Len(v) <= MaxPayload, NEW f \in Seq(Nat), f = TlvBuild(v)
  PROVE  IsWhole("TLV", f)
<1>1. PICK b, n : b = <<FrameHead, Len(v)>> \o v /\ n = Len(v)
  OBVIOUS
<1>2. f = b \o <<Checksum(b), FrameTail>>
  BY <1>1 DEF TlvBuild
<1>3. n \in Nat /\ Len(b) = n + 2 /\ b[1] = FrameHead /\ b[2] = n
  BY <1>1
<1>4. PICK c, U : c = Checksum(b) /\ U = Nat \cup {FrameHead, FrameTail, Checksum(b)}
  OBVIOUS
<1>5. b \in Seq(U) /\ <<c, FrameTail>> \in Seq(U)
  BY <1>1, <1>4
<1>6. f = b \o <<c, FrameTail>>
  BY <1>2, <1>4
<1>7. /\ Len(f) = n + 4 /\ \A i \in 1..n + 2 : f[i] = b[i]
      /\ f[n + 3] = c /\ f[n + 4] = FrameTail
  BY <1>3, <1>5, <1>6
<1>8. f[1] = FrameHead /\ f[2] = n /\ n <= MaxPayload
  BY <1>1, <1>3, <1>7
<1>9. TlvPeek(f) = Yes(n + 4, 3, n)
  <2>1. ~(Len(f) < 2) /\ ~(n > MaxPayload) /\ MaxPayload \in Nat
    BY <1>3, <1>7, <1>8, VarintLimits
  <2>2. TlvPeek(f) = Yes(4 + n, 2 + 1, n)
    BY <1>8, <2>1 DEF TlvPeek, TlvHeader, TlvMin
  <2>3. 4 + n = n + 4 /\ 2 + 1 = 3
    BY <1>3
  <2> QED
    BY <2>2, <2>3
<1>10. PICK m : m = Yes(n + 4, 3, n)
  OBVIOUS
<1>11. m.code = "OK" /\ m.total = n + 4
  BY <1>10 DEF Yes
<1>12. Peek("TLV", f) = m
  BY <1>9, <1>10, PeekBy
<1>13. SubSeq(f, 1, n + 2) = b
  BY <1>3, <1>5, <1>7, <1>6
<1>14. TlvCheck(f, m) = m
  <2>1. (n + 4) - 1 = n + 3 /\ (n + 4) - 2 = n + 2
    BY <1>3
  <2>2. f[m.total] = FrameTail /\ f[m.total - 1] = Checksum(SubSeq(f, 1, m.total - 2))
    BY <1>4, <1>7, <1>11, <1>13, <2>1
  <2> QED
    BY <2>2 DEF TlvCheck
<1>15. Parse("TLV", f) = m
  <2>1. Len(f) >= m.total
    BY <1>3, <1>7, <1>11
  <2> QED
    BY <1>11, <1>12, <1>14, <2>1, ParseBy DEF Streams
<1> QED
  BY <1>7, <1>11, <1>15 DEF IsWhole

LEMMA TcpBuilt ==
  ASSUME NEW a \in Nat, NEW c \in Nat, NEW v \in Seq(Nat), Len(v) <= MaxPdu - 1, NEW f,
         f = <<a, 0, 2 + Len(v), 1, c>> \o v
  PROVE  IsWhole("TCP", f)
<1>1. PICK n \in Nat : n = Len(v)
  OBVIOUS
<1>2. f \in Seq(Nat) /\ Len(f) = 5 + n /\ f[2] = 0 /\ f[3] = 2 + n
  BY <1>1
<1>3. TcpPeek(f) = Yes(Mbap - 1 + f[3], Mbap + 2, f[3] - 2)
  <2>1. ~(Len(f) < 4) /\ ~(f[3] < 2 \/ f[3] > MaxPdu + 1)
    BY <1>1, <1>2, Limits
  <2> QED
    BY <1>2, <2>1 DEF TcpPeek, Mbap
<1>4. Peek("TCP", f).code = "OK" /\ Peek("TCP", f).total = 5 + n
  <2>1. Peek("TCP", f).code = "OK" /\ Peek("TCP", f).total = Mbap - 1 + f[3]
    BY <1>3, PeekBy DEF Yes
  <2>2. Mbap - 1 + f[3] = 5 + n
    BY <1>1, <1>2 DEF Mbap
  <2> QED
    BY <2>1, <2>2
<1>6. Len(f) >= Peek("TCP", f).total
  BY <1>2, <1>4
<1>5. Parse("TCP", f) = Peek("TCP", f)
  BY <1>2, <1>4, <1>6, ParseBy DEF Streams
<1> QED
  BY <1>2, <1>4, <1>5 DEF IsWhole

(* Whatever the builders write, the one-shot parsers take for one frame. *)
LEMMA BuiltIsWhole ==
  ASSUME NEW p \in Streams, NEW f \in Seq(Nat), IsBuilt(p, f)
  PROVE  IsWhole(p, f)
<1>1. CASE p = "LTV"
  <2>1. PICK n \in 1..Len(f) : f = LtvBuild(f[n], SubSeq(f, n + 1, Len(f)))
    BY <1>1, Zenon DEF IsBuilt
  <2>2. PICK t, v : t = f[n] /\ v = SubSeq(f, n + 1, Len(f))
    OBVIOUS
  <2>3. t \in Nat /\ v \in Seq(Nat) /\ Len(v) \in Nat
    BY <2>2
  <2>4. f = IF Len(v) > MaxPayload THEN << >> ELSE EncodeVarint(Len(v) + 1) \o <<t>> \o v
    BY <2>1, <2>2 DEF LtvBuild
  <2>5. f # << >>
    OBVIOUS
  <2>6. Len(v) <= MaxPayload /\ f = EncodeVarint(Len(v) + 1) \o <<t>> \o v
    <3>1. ~(Len(v) > MaxPayload)
      BY <2>4, <2>5, Zenon
    <3>2. f = EncodeVarint(Len(v) + 1) \o <<t>> \o v
      BY <2>4, <3>1, Zenon
    <3>3. Len(v) <= MaxPayload
      BY <2>3, <3>1, VarintLimits
    <3> QED
      BY <3>2, <3>3, Zenon
  <2> QED
    BY <1>1, <2>3, <2>6, LtvBuilt
<1>2. CASE p = "TLV"
  <2>1. Len(f) - TlvMin \in 0..MaxPayload /\ f = TlvBuild(SubSeq(f, 3, Len(f) - 2))
    BY <1>2, Zenon DEF IsBuilt
  <2>2. PICK v : v = SubSeq(f, 3, Len(f) - 2)
    OBVIOUS
  <2>3. v \in Seq(Nat) /\ Len(v) = Len(f) - 4
    <3>1. 2 \in Nat /\ Len(f) - 2 \in Nat /\ 2 <= Len(f) - 2 /\ Len(f) - 2 <= Len(f)
      BY <2>1, VarintLimits DEF TlvMin
    <3>2. 2 + 1 = 3 /\ (Len(f) - 2) - 2 = Len(f) - 4
      OBVIOUS
    <3>3. SubSeq(f, 2 + 1, Len(f) - 2) \in Seq(Nat)
      BY <3>1, Cut
    <3>4. Len(SubSeq(f, 2 + 1, Len(f) - 2)) = (Len(f) - 2) - 2
      BY <3>1, Cut
    <3> QED
      BY <2>2, <3>2, <3>3, <3>4
  <2>4. Len(v) <= MaxPayload
    BY <2>1, <2>3, VarintLimits DEF TlvMin
  <2> QED
    BY <1>2, <2>1, <2>2, <2>3, <2>4, TlvBuilt
<1>3. CASE p = "TCP"
  <2>1. Len(f) > Mbap /\ f = TcpBuild(f[1], f[5], SubSeq(f, 6, Len(f)))
    BY <1>3, Zenon DEF IsBuilt
  <2>2. PICK a, c, v : a = f[1] /\ c = f[5] /\ v = SubSeq(f, 6, Len(f))
    OBVIOUS
  <2>3. a \in Nat /\ c \in Nat /\ v \in Seq(Nat) /\ Len(v) \in Nat
    <3>1. 5 \in Nat /\ Len(f) \in Nat /\ 5 <= Len(f) /\ 5 + 1 = 6
      BY <2>1 DEF Mbap
    <3>2. v \in Seq(Nat)
      BY <2>2, <3>1, Cut
    <3> QED
      BY <2>2, <3>1, <3>2
  <2>4. f = IF Len(v) > MaxPdu - 1 THEN << >> ELSE <<a, 0, 2 + Len(v), 1, c>> \o v
    BY <2>1, <2>2 DEF TcpBuild
  <2>5. f # << >>
    BY <2>1 DEF Mbap
  <2>6. Len(v) <= MaxPdu - 1 /\ f = <<a, 0, 2 + Len(v), 1, c>> \o v
    BY <2>3, <2>4, <2>5, Limits
  <2> QED
    BY <1>3, <2>3, <2>6, TcpBuilt
<1> QED
  BY <1>1, <1>2, <1>3 DEF Streams

(* e goes on after d. *)
Extends(d, e) == Len(e) >= Len(d) /\ \A i \in 1..Len(d) : e[i] = d[i]

LEMMA JoinExtends ==
  ASSUME NEW d \in Seq(Nat), NEW r \in Seq(Nat)
  PROVE  d \o r \in Seq(Nat) /\ Extends(d, d \o r)
BY Joined DEF Extends

PeeksAlike(p, d, e) == Peek(p, e) = Peek(p, d)

LEMMA LtvErrorStays ==
  ASSUME NEW d \in Seq(Nat), NEW e \in Seq(Nat), Extends(d, e),
         LtvPeek(d).code # "OK", LtvPeek(d).code # "NEED_MORE"
  PROVE  LtvPeek(e) = LtvPeek(d)
<1>1. Len(e) >= Len(d) /\ \A i \in 1..Len(d) : e[i] = d[i]
  BY DEF Extends
<1>2. PICK n : n = Ends(d)
  OBVIOUS
<1>3. /\ n \in 0..Len(d) /\ n <= MaxVarint
      /\ n = 0 => \A i \in 1..Len(d) : i <= MaxVarint => d[i] >= Base
  BY <1>2, EndsAt
<1>4. Len(d) \in Nat /\ Len(e) \in Nat /\ MaxVarint \in Nat /\ Base \in Nat
  BY VarintLimits, BaseNat
<1>5. CASE n # 0
  <2>1. n <= Len(e) /\ \A i \in 1..n : e[i] = d[i]
    BY <1>1, <1>3, <1>4
  <2>2. DecodeVarint(e) = DecodeVarint(d)
    BY <1>2, <1>5, <2>1, EndsStable
  <2> QED
    BY <2>2 DEF LtvPeek
<1>6. CASE n = 0
  <2>1. DecodeVarint(d) = NoVarint(IF Len(d) >= MaxVarint THEN -1 ELSE 0)
    BY <1>2, <1>6, DecodeByEnd
  <2>2. Len(d) >= MaxVarint
    <3> SUFFICES ASSUME ~(Len(d) >= MaxVarint) PROVE FALSE
      OBVIOUS
    <3>1. DecodeVarint(d).size = 0
      BY <2>1 DEF NoVarint
    <3> QED
      BY <3>1 DEF LtvPeek, LtvSize, No
  <2>3. PICK m : m = Ends(e)
    OBVIOUS
  <2>4. m \in 0..Len(e) /\ m <= MaxVarint /\ (m # 0 => e[m] < Base)
    BY <2>3, EndsAt
  <2>5. m = 0
    <3> SUFFICES ASSUME m # 0 PROVE FALSE
      OBVIOUS
    <3>1. m \in 1..Len(d)
      BY <1>4, <2>2, <2>4
    <3>2. d[m] >= Base /\ e[m] = d[m] /\ d[m] \in Nat
      BY <1>1, <1>3, <1>6, <2>4, <3>1
    <3> QED
      BY <1>4, <2>4, <3>2
  <2>6. Len(e) >= MaxVarint
    BY <1>1, <1>4, <2>2
  <2>7. DecodeVarint(e) = DecodeVarint(d)
    BY <2>1, <2>2, <2>3, <2>5, <2>6, DecodeByEnd
  <2> QED
    BY <2>7 DEF LtvPeek
<1> QED
  BY <1>5, <1>6

LEMMA TlvErrorStays ==
  ASSUME NEW d \in Seq(Nat), NEW e \in Seq(Nat), Extends(d, e),
         TlvPeek(d).code # "OK", TlvPeek(d).code # "NEED_MORE"
  PROVE  TlvPeek(e) = TlvPeek(d)
<1>1. Len(e) >= Len(d) /\ \A i \in 1..Len(d) : e[i] = d[i]
  BY DEF Extends
<1>2. Len(d) >= 2
  BY DEF TlvPeek, TlvHeader, No
<1>3. e[1] = d[1] /\ e[2] = d[2] /\ Len(e) >= 2
  BY <1>1, <1>2
<1>4. ~(Len(d) < 2) /\ ~(Len(e) < 2)
  BY <1>2, <1>3
<1> QED
  BY <1>2, <1>3, <1>4 DEF TlvPeek, TlvHeader

LEMMA TcpErrorStays ==
  ASSUME NEW d \in Seq(Nat), NEW e \in Seq(Nat), Extends(d, e),
         TcpPeek(d).code # "OK", TcpPeek(d).code # "NEED_MORE"
  PROVE  TcpPeek(e) = TcpPeek(d)
<1>1. Len(e) >= Len(d) /\ \A i \in 1..Len(d) : e[i] = d[i]
  BY DEF Extends
<1>2. Len(d) >= 4
  BY DEF TcpPeek, Mbap, No
<1>3. e[2] = d[2] /\ e[3] = d[3] /\ Len(e) >= 4
  BY <1>1, <1>2
<1>4. ~(Len(d) < 4) /\ ~(Len(e) < 4)
  <2>1. PICK n \in Nat, m \in Nat : n = Len(d) /\ m = Len(e) /\ n >= 4 /\ m >= 4
    BY <1>2, <1>3
  <2>2. ~(n < 4) /\ ~(m < 4)
    BY <2>1
  <2> QED
    BY <2>1, <2>2, Zenon
<1> QED
  BY <1>2, <1>3, <1>4 DEF TcpPeek, Mbap

(* A malformed frame stays malformed, whatever follows. *)
LEMMA ErrorStays ==
  ASSUME NEW p \in Streams, NEW d \in Seq(Nat), NEW e \in Seq(Nat), Extends(d, e),
         Parse(p, d).code # "OK", Parse(p, d).code # "NEED_MORE"
  PROVE  ParsesAlike(p, d, e)
<1>1. CASE Peek(p, d).code = "OK"
  <2>1. Peek(p, d).total <= Len(d)
    <3>1. IsPeek(Peek(p, d)) /\ Len(d) \in Nat
      BY PeekIs
    <3>2. ~(Len(d) < Peek(p, d).total)
      BY <1>1, ParseBy DEF No
    <3> QED
      BY <1>1, <3>1, <3>2 DEF IsPeek
  <2>2. Shares(d, e, Peek(p, d).total)
    <3>1. \A i \in 1..Len(d) : i <= Len(e) /\ e[i] = d[i]
      BY DEF Extends
    <3> QED
      BY <3>1 DEF Shares
  <2> QED
    BY <1>1, <2>1, <2>2, ParseCarries
<1>2. CASE Peek(p, d).code # "OK"
  <2>1. Parse(p, d) = Peek(p, d)
    BY <1>2, ParseBy
  <2>2. PeeksAlike(p, d, e)
    <3>1. CASE p = "LTV"
      <4>1. LtvPeek(d).code # "OK" /\ LtvPeek(d).code # "NEED_MORE"
        BY <1>2, <2>1, <3>1, PeekBy
      <4>2. LtvPeek(e) = LtvPeek(d)
        BY <4>1, LtvErrorStays
      <4> QED
        BY <3>1, <4>2, PeekBy DEF PeeksAlike
    <3>2. CASE p = "TLV"
      <4>1. TlvPeek(d).code # "OK" /\ TlvPeek(d).code # "NEED_MORE"
        BY <1>2, <2>1, <3>2, PeekBy
      <4>2. TlvPeek(e) = TlvPeek(d)
        BY <4>1, TlvErrorStays
      <4> QED
        BY <3>2, <4>2, PeekBy DEF PeeksAlike
    <3>3. CASE p = "TCP"
      <4>1. TcpPeek(d).code # "OK" /\ TcpPeek(d).code # "NEED_MORE"
        BY <1>2, <2>1, <3>3, PeekBy
      <4>2. TcpPeek(e) = TcpPeek(d)
        BY <4>1, TcpErrorStays
      <4> QED
        BY <3>3, <4>2, PeekBy DEF PeeksAlike
    <3> QED
      BY <3>1, <3>2, <3>3 DEF Streams
  <2>3. Peek(p, e).code # "OK" /\ Peek(p, e) = Peek(p, d)
    BY <1>2, <2>2 DEF PeeksAlike
  <2>4. Parse(p, e) = Peek(p, e)
    BY <2>3, ParseBy
  <2> QED
    BY <2>1, <2>3, <2>4 DEF ParsesAlike
<1> QED
  BY <1>1, <1>2

(* Without bytes every parser asks for some. *)
LEMMA NothingYet ==
  ASSUME NEW p \in Streams
  PROVE  Parse(p, << >>).code = "NEED_MORE"
<1>1. << >> \in Seq(Nat) /\ Len(<< >>) = 0
  OBVIOUS
<1>2. Peek(p, << >>).code = "NEED_MORE"
  <2>1. LtvPeek(<< >>).code = "NEED_MORE"
    <3>1. Ends(<< >>) = 0
      <4>1. PICK d \in Seq(Nat) : d = << >> /\ Len(d) = 0
        BY <1>1
      <4>2. Ends(d) \in 0..Len(d)
        BY EndsAt
      <4>3. Ends(d) = 0
        BY <4>1, <4>2
      <4> QED
        BY <4>1, <4>3
    <3>2. DecodeVarint(<< >>).size = 0
      BY <1>1, <3>1, DecodeByEnd, VarintLimits DEF NoVarint
    <3> QED
      BY <3>2 DEF LtvPeek, LtvSize, No
  <2>2. TlvPeek(<< >>).code = "NEED_MORE" /\ TcpPeek(<< >>).code = "NEED_MORE"
    BY <1>1 DEF TlvPeek, TcpPeek, TlvHeader, Mbap, No
  <2> QED
    BY <2>1, <2>2, PeekBy DEF Streams
<1> QED
  BY <1>1, <1>2, ParseBy

(* Of the bytes that are left of built frames none is malformed. *)
LEMMA BuiltNeverFails ==
  ASSUME NEW p \in Streams, NEW F \in Seq(Seq(Nat)), NEW R \in Seq(Nat), NEW r \in Seq(Nat),
         NEW G \in Seq(Seq(Nat)), WholeFrames(p, F), WholeFrames(p, G),
         FlattenSeq(G) = FlattenSeq(F) \o (R \o r)
  PROVE  /\ IsPrefix(F, G) /\ Parse(p, R).code \in {"OK", "NEED_MORE"}
<1>1. PICK e : e = R \o r
  OBVIOUS
<1>2. e \in Seq(Nat) /\ Extends(R, e) /\ << >> \in Seq(Nat)
  BY <1>1, JoinExtends
<1>3. FoundBefore(p, F, e) /\ FoundBefore(p, G, << >>)
  BY <1>2, AllBefore
<1>4. FlattenSeq(G) \in Seq(Nat) /\ FlattenSeq(G) \o << >> = FlattenSeq(G)
  <2>1. PICK g \in Seq(Nat) : g = FlattenSeq(G)
    BY FlatBytes
  <2>2. g \o << >> = g
    OBVIOUS
  <2> QED
    BY <2>1, <2>2
<1>5. OneShot(p, << >>) = [frames |-> << >>, end |-> "NEED_MORE"]
  <2>1. Parse(p, << >>).code = "NEED_MORE"
    BY NothingYet
  <2> QED
    BY <1>2, <2>1, NothingFound
<1>6. PICK X, Y, c : X = OneShot(p, FlattenSeq(G)) /\ Y = OneShot(p, e) /\ c = Parse(p, R).code
  OBVIOUS
<1>7. X.frames = F \o Y.frames /\ X.end = Y.end
  BY <1>1, <1>3, <1>6 DEF FoundBefore
<1>8. X.frames = G \o << >> /\ X.end = "NEED_MORE"
  <2>1. PICK Z : Z = OneShot(p, << >>)
    OBVIOUS
  <2>2. /\ OneShot(p, FlattenSeq(G) \o << >>).frames = G \o Z.frames
        /\ OneShot(p, FlattenSeq(G) \o << >>).end = Z.end
    BY <1>3, <2>1 DEF FoundBefore
  <2>3. X.frames = G \o Z.frames /\ X.end = Z.end
    BY <1>4, <1>6, <2>2
  <2>4. Z.frames = << >> /\ Z.end = "NEED_MORE"
    BY <1>5, <2>1
  <2> QED
    BY <2>3, <2>4
<1>9. X.frames = G
  BY <1>8
<1>10. Y.frames \in Seq(Seq(Nat))
  BY <1>2, <1>6, OneShotFrames
<1>11. IsPrefix(F, G)
  BY <1>7, <1>9, <1>10, PrefixOf
<1>12. ASSUME c # "OK", c # "NEED_MORE" PROVE FALSE
  <2>1. ParsesAlike(p, R, e)
    BY <1>2, <1>6, <1>12, ErrorStays
  <2>2. Parse(p, e).code = c
    BY <1>6, <2>1 DEF ParsesAlike
  <2>3. Y = [frames |-> << >>, end |-> c]
    BY <1>2, <1>6, <1>12, <2>2, NothingFound
  <2> QED
    BY <1>7, <1>8, <1>12, <2>3
<1> QED
  BY <1>6, <1>11, <1>12

AllBelow(s, c) == \A i \in 1..Len(s) : s[i] < c

LEMMA BelowParts ==
  ASSUME NEW a \in Seq(Nat), NEW b \in Seq(Nat), NEW c \in Nat, AllBelow(a \o b, c)
  PROVE  AllBelow(a, c) /\ AllBelow(b, c)
<1>1. PICK d : d = a \o b
  OBVIOUS
<1>2. /\ Len(d) = Len(a) + Len(b) /\ \A i \in 1..Len(a) : d[i] = a[i]
      /\ \A i \in Len(a) + 1..Len(a) + Len(b) : d[i] = b[i - Len(a)]
  BY <1>1, Joined
<1>3. \A i \in 1..Len(d) : d[i] < c
  BY <1>1 DEF AllBelow
<1>4. AllBelow(a, c)
  BY <1>2, <1>3 DEF AllBelow
<1>5. AllBelow(b, c)
  <2> SUFFICES ASSUME NEW i \in 1..Len(b) PROVE b[i] < c
    BY DEF AllBelow
  <2>1. /\ Len(a) + i \in Len(a) + 1..Len(a) + Len(b) /\ Len(a) + i \in 1..Len(d)
        /\ (Len(a) + i) - Len(a) = i
    BY <1>2
  <2>2. d[Len(a) + i] = b[i] /\ d[Len(a) + i] < c
    BY <1>2, <1>3, <2>1
  <2> QED
    BY <2>2
<1> QED
  BY <1>4, <1>5

FramesBelow(F, c) == \A i \in 1..Len(F) : AllBelow(F[i], c)

(* The bytes of frames are bytes of the frames one after the other. *)
LEMMA BelowFrames ==
  ASSUME NEW F \in Seq(Seq(Nat)), NEW c \in Nat, AllBelow(FlattenSeq(F), c)
  PROVE  FramesBelow(F, c)
<1> DEFINE Bad(n) == \E H \in Seq(Seq(Nat)) :
                       Len(H) = n /\ AllBelow(FlattenSeq(H), c) /\ ~FramesBelow(H, c)
           T == {n \in Nat : Bad(n)}
<1>1. T = {}
  <2> SUFFICES ASSUME T # {} PROVE FALSE
    OBVIOUS
  <2>1. PICK n \in T : \A y \in T : n <= y
    <3>1. T \subseteq Nat
      OBVIOUS
    <3> HIDE DEF T
    <3> QED
      BY <3>1, Least
  <2>2. n \in Nat /\ Bad(n)
    OBVIOUS
  <2>3. PICK H \in Seq(Seq(Nat)) : Len(H) = n /\ AllBelow(FlattenSeq(H), c) /\ ~FramesBelow(H, c)
    BY <2>2
  <2>4. n # 0
    BY <2>3 DEF FramesBelow
  <2>5. PICK G \in Seq(Seq(Nat)), f \in Seq(Nat) :
           /\ H = Append(G, f) /\ Len(H) = Len(G) + 1 /\ H[Len(H)] = f
           /\ \A i \in 1..Len(G) : G[i] = H[i]
    BY <2>3, <2>4, CutLast
  <2>6. FlattenSeq(H) = FlattenSeq(G) \o f /\ FlattenSeq(G) \in Seq(Nat)
    BY <2>5, FlatAppend, FlatBytes
  <2>7. AllBelow(FlattenSeq(G), c) /\ AllBelow(f, c)
    BY <2>3, <2>6, BelowParts
  <2>8. Len(G) = n - 1 /\ n - 1 \in Nat /\ Len(G) \notin T
    BY <2>1, <2>2, <2>3, <2>4, <2>5
  <2>9. FramesBelow(G, c)
    BY <2>7, <2>8
  <2>10. FramesBelow(H, c)
    <3> SUFFICES ASSUME NEW i \in 1..Len(H) PROVE AllBelow(H[i], c)
      BY DEF FramesBelow
    <3>1. CASE i = Len(H)
      BY <2>5, <2>7, <3>1
    <3>2. CASE i # Len(H)
      <4>1. i \in 1..Len(G)
        BY <2>5, <3>2
      <4> QED
        BY <2>5, <2>9, <4>1 DEF FramesBelow
    <3> QED
      BY <3>1, <3>2
  <2> QED
    BY <2>3, <2>10
<1>2. Len(F) \in Nat
  OBVIOUS
<1>3. ~Bad(Len(F))
  BY <1>1, <1>2
<1> QED
  BY <1>3

(* The length x of f is in its first n bytes, s. *)
HasLength(f, n, s, x) ==
  /\ n \in 1..Len(f) /\ n <= MaxVarint /\ s \in Seq(Nat) /\ Len(s) = n
  /\ \A i \in 1..n : s[i] = f[i]
  /\ s[n] < Base /\ \A i \in 1..n - 1 : s[i] >= Base
  /\ VarintSize(x) = n /\ x \in Nat /\ x > 0 /\ x <= MaxPayload + 1

(* What ltv_peek_size has accepted. *)
LEMMA LtvAccepted ==
  ASSUME NEW f \in Seq(Nat), LtvPeek(f).code = "OK", NEW n, n = Ends(f),
         NEW s, s = SubSeq(f, 1, n), NEW x, x = Digits(s)
  PROVE  HasLength(f, n, s, x)
<1>1. n # 0 /\ DecodeVarint(f).size = n
  BY LtvPeekIs
<1>2. /\ n \in 0..Len(f) /\ n <= MaxVarint
      /\ f[n] < Base /\ \A i \in 1..n - 1 : f[i] >= Base
  BY <1>1, EndsAt
<1>3. s \in Seq(Nat) /\ Len(s) = n /\ \A i \in 1..n : s[i] = f[i]
  BY <1>2, CutTwo, CutTwoBytes
<1>4. x \in Nat
  BY <1>3, DigitsNat
<1>5. DecodeVarint(f) = Varint(s)
  BY <1>1, DecodeByEnd
<1>6. n \in Nat
  BY <1>2
<1>7. Varint(s).size = n
  BY <1>1, <1>5
<1>8. VarintSize(x) = Len(s) /\ Varint(s) = [size |-> n, value |-> x]
  BY <1>3, <1>6, <1>7 DEF Varint, NoVarint
<1>9. LtvPeek(f) = LtvSize([size |-> n, value |-> x])
  BY <1>5, <1>8 DEF LtvPeek
<1>10. x # 0 /\ ~(x > MaxPayload + 1)
  <2>1. LtvSize([size |-> n, value |-> x]).code = "OK" /\ n > 0
    BY <1>1, <1>6, <1>9
  <2> QED
    BY <2>1 DEF LtvSize, No
<1>11. x > 0 /\ x <= MaxPayload + 1
  BY <1>4, <1>10, VarintLimits
<1>12. n \in 1..Len(f) /\ n \in 1..n
  BY <1>1, <1>2
<1>13. s[n] < Base
  BY <1>2, <1>3, <1>12
<1>14. \A i \in 1..n - 1 : s[i] >= Base
  <2> TAKE i \in 1..n - 1
  <2>1. i \in 1..n
    BY <1>6
  <2> QED
    BY <1>2, <1>3, <2>1
<1> QED
  BY <1>2, <1>3, <1>4, <1>8, <1>11, <1>12, <1>13, <1>14 DEF HasLength

(* The length of an accepted message has no shorter encoding. *)
LEMMA AcceptedCanonical ==
  ASSUME NEW s \in Seq(Nat), NEW n \in 1..MaxVarint, Len(s) = n, AllBelow(s, 2 * Base),
         s[n] < Base, \A i \in 1..n - 1 : s[i] >= Base, VarintSize(Digits(s)) = n
  PROVE  Canonical(s)
<1>1. ASSUME n > 1, s[n] = 0 PROVE FALSE
  <2>1. PICK m \in Nat : n = m + 1 /\ m \in 1..MaxVarint
    <3>1. n - 1 \in Nat /\ n = (n - 1) + 1 /\ n - 1 \in 1..MaxVarint
      BY <1>1, VarintLimits
    <3> QED
      BY <3>1
  <2>2. Topped(m)
    BY TopZero
  <2>3. s[m + 1] % Base = 0
    <3>1. 0 % Base = 0
      BY Remainder, BaseNat
    <3> QED
      BY <1>1, <2>1, <3>1
  <2>4. Digits(s) < Power(m)
    BY <2>1, <2>2, <2>3 DEF Topped
  <2>5. Digits(s) \in Nat
    BY DigitsNat
  <2>6. VarintSize(Digits(s)) <= m
    BY <2>1, <2>4, <2>5, SizeLeast
  <2> QED
    BY <2>1, <2>6
<1>2. \A i \in 1..Len(s) - 1 : s[i] >= Base /\ s[i] < 2 * Base
  <2> TAKE i \in 1..Len(s) - 1
  <2>1. i \in 1..Len(s) /\ i \in 1..n - 1
    OBVIOUS
  <2> QED
    BY <2>1 DEF AllBelow
<1>3. Len(s) # 0 /\ s[Len(s)] < Base
  OBVIOUS
<1> QED
  BY <1>1, <1>2, <1>3 DEF Canonical

LEMMA OneMore ==
  ASSUME NEW s \in Seq(Nat), NEW t \in Nat
  PROVE  /\ s \o <<t>> \in Seq(Nat) /\ Len(s \o <<t>>) = Len(s) + 1 /\ (s \o <<t>>)[Len(s) + 1] = t
         /\ \A i \in 1..Len(s) : (s \o <<t>>)[i] = s[i]
OBVIOUS

(* f cut before and after its byte n + 1. *)
LEMMA CutAround ==
  ASSUME NEW f \in Seq(Nat), NEW n \in Nat, n + 1 <= Len(f)
  PROVE  SubSeq(f, 1, n) \o <<f[n + 1]>> \o SubSeq(f, n + 2, Len(f)) = f
<1>1. PICK s, t, v, g : /\ s = SubSeq(f, 1, n) /\ t = f[n + 1] /\ v = SubSeq(f, n + 2, Len(f))
                        /\ g = SubSeq(f, 1, n + 1)
  OBVIOUS
<1>2. n + 1 \in 0..Len(f) /\ n \in 0..Len(f) /\ (n + 1) + 1 = n + 2 /\ n + 1 \in 1..n + 1 /\ n + 1 \in 1..Len(f)
  OBVIOUS
<1>3. /\ s \in Seq(Nat) /\ Len(s) = n /\ \A i \in 1..n : s[i] = f[i]
      /\ g \in Seq(Nat) /\ Len(g) = n + 1 /\ \A i \in 1..n + 1 : g[i] = f[i]
  BY <1>1, <1>2, CutTwo, CutTwoBytes
<1>4. v \in Seq(Nat) /\ g \o v = f
  BY <1>1, <1>2, CutTwo
<1>5. t \in Nat
  BY <1>1, <1>2
<1>6. PICK h : h = s \o <<t>>
  OBVIOUS
<1>7. h \in Seq(Nat) /\ Len(h) = n + 1 /\ h[n + 1] = t /\ \A i \in 1..n : h[i] = s[i]
  <2>1. /\ h \in Seq(Nat) /\ Len(h) = Len(s) + 1 /\ h[Len(s) + 1] = t
        /\ \A i \in 1..Len(s) : h[i] = s[i]
    BY <1>3, <1>5, <1>6, OneMore
  <2> QED
    BY <1>3, <2>1
<1>8. \A i \in 1..n + 1 : h[i] = g[i]
  <2> TAKE i \in 1..n + 1
  <2>1. CASE i = n + 1
    BY <1>1, <1>2, <1>3, <1>7, <2>1
  <2>2. CASE i # n + 1
    <3>1. i \in 1..n
      BY <2>2
    <3> QED
      BY <1>3, <1>7, <3>1
  <2> QED
    BY <2>1, <2>2
<1>9. h = g
  <2>1. Len(h) = Len(g) /\ \A i \in 1..Len(h) : h[i] = g[i]
    BY <1>3, <1>7, <1>8
  <2> QED
    BY <1>3, <1>7, <2>1, SameBytes
<1> QED
  BY <1>1, <1>4, <1>6, <1>9

(* The bytes of f that m takes for its payload. *)
PayloadOf(f, m) == SubSeq(f, m.off, m.off + m.size - 1)

Rebuilt(f, P) == f = LtvBuild(f[Len(f) - Len(P)], P)

(* An accepted LTV message is the one ltv_build makes of its payload. *)
LEMMA LtvRebuilt ==
  ASSUME NEW f \in Seq(Nat), IsWhole("LTV", f), AllBelow(f, 2 * Base)
  PROVE  Rebuilt(f, PayloadOf(f, Parse("LTV", f)))
<1>1. "LTV" \in Streams
  BY DEF Streams
<1>2. PICK m : m = Parse("LTV", f)
  OBVIOUS
<1>3. m = LtvPeek(f) /\ m.code = "OK" /\ m.total = Len(f)
  BY <1>1, <1>2, ParseOk, PeekBy DEF IsWhole
<1>4. PICK n, s, x : n = Ends(f) /\ s = SubSeq(f, 1, n) /\ x = Digits(s)
  OBVIOUS
<1>5. m.off = n + 2 /\ m.size = x - 1 /\ m.total = n + x
  BY <1>3, <1>4, LtvPeekIs
<1>6. LtvPeek(f).code = "OK"
  BY <1>3
<1>7. /\ n \in 1..Len(f) /\ n <= MaxVarint /\ s \in Seq(Nat) /\ Len(s) = n
      /\ \A i \in 1..n : s[i] = f[i]
      /\ s[n] < Base /\ \A i \in 1..n - 1 : s[i] >= Base
      /\ VarintSize(x) = n /\ x \in Nat /\ x > 0 /\ x <= MaxPayload + 1
  <2>1. HasLength(f, n, s, x)
    BY <1>4, <1>6, LtvAccepted
  <2> QED
    BY <2>1, Zenon DEF HasLength
<1>8. AllBelow(s, 2 * Base)
  <2> SUFFICES ASSUME NEW i \in 1..Len(s) PROVE s[i] < 2 * Base
    BY DEF AllBelow
  <2>1. i \in 1..n /\ i \in 1..Len(f)
    BY <1>7
  <2>2. f[i] < 2 * Base
    BY <2>1 DEF AllBelow
  <2> QED
    BY <1>7, <2>1, <2>2
<1>9. Canonical(s)
  <2>1. n \in 1..MaxVarint /\ VarintSize(Digits(s)) = n
    BY <1>4, <1>7, VarintLimits
  <2> QED
    BY <1>7, <1>8, <2>1, AcceptedCanonical
<1>10. EncodeVarint(x) = s
  BY <1>4, <1>7, <1>9, CanonicalEncoded DEF Encoded
<1>11. n \in Nat /\ Len(f) = n + x /\ n + 1 <= Len(f) /\ n + 1 + 1 = n + 2
  BY <1>3, <1>5, <1>7
<1>12. PICK P, t : P = SubSeq(f, n + 2, Len(f)) /\ t = f[n + 1]
  OBVIOUS
<1>13. PayloadOf(f, m) = P
  <2>1. (n + 2) + (x - 1) - 1 = n + x
    BY <1>7, <1>11
  <2> QED
    BY <1>5, <1>11, <1>12, <2>1 DEF PayloadOf
<1>14. P \in Seq(Nat) /\ Len(P) = x - 1
  <2>1. n + 1 \in Nat /\ Len(f) \in Nat /\ Len(f) <= Len(f)
    BY <1>11
  <2>2. SubSeq(f, n + 1 + 1, Len(f)) \in Seq(Nat) /\ Len(SubSeq(f, n + 1 + 1, Len(f))) = Len(f) - (n + 1)
    BY <1>11, <2>1, Cut
  <2>3. Len(f) - (n + 1) = x - 1
    BY <1>7, <1>11
  <2> QED
    BY <1>11, <1>12, <2>2, <2>3
<1>15. Len(f) - Len(P) = n + 1
  BY <1>7, <1>11, <1>14
<1>16. f = s \o <<t>> \o P
  <2>1. SubSeq(f, 1, n) \o <<f[n + 1]>> \o SubSeq(f, n + 2, Len(f)) = f
    BY <1>11, CutAround
  <2> QED
    BY <1>4, <1>12, <2>1
<1>17. LtvBuild(t, P) = EncodeVarint(Len(P) + 1) \o <<t>> \o P
  <2>1. ~(Len(P) > MaxPayload)
    BY <1>7, <1>14, VarintLimits
  <2> QED
    BY <2>1 DEF LtvBuild
<1>18. Len(P) + 1 = x
  BY <1>7, <1>14
<1>19. f = LtvBuild(t, P)
  BY <1>10, <1>16, <1>17, <1>18
<1> QED
  BY <1>2, <1>12, <1>13, <1>15, <1>19 DEF Rebuilt

LEMMA PayloadIs ==
  ASSUME NEW f, conn.proto = "LTV"
  PROVE  Payload(f) = PayloadOf(f, Parse("LTV", f))
BY DEF Payload, PayloadOf

LEMMA AcceptedBelow ==
  ASSUME FrameTypes, conn.proto = "LTV"
  PROVE  AllBelow(Accepted, 2 * Base)
<1>1. conn \in Wires /\ since \in Nat /\ taken \in Nat /\ since <= taken /\ taken <= Len(conn.bytes)
  BY DEF FrameTypes
<1>2. conn.bytes \in Seq(Nat)
  BY WireTypes
<1>3. \A i \in 1..Len(conn.bytes) : conn.bytes[i] < 2 * Base
  BY <1>1, WireAssumption
<1>4. /\ Len(Accepted) = taken - since
      /\ \A i \in 1..taken - since : Accepted[i] = conn.bytes[since + i]
  BY <1>1, <1>2, Cut DEF Accepted
<1> SUFFICES ASSUME NEW i \in 1..Len(Accepted) PROVE Accepted[i] < 2 * Base
  BY DEF AllBelow
<1>5. i \in 1..taken - since /\ since + i \in 1..Len(conn.bytes)
  BY <1>1, <1>4
<1> QED
  BY <1>3, <1>4, <1>5

LEMMA LtvDelivers ==
  ASSUME FrameInv, conn.proto = "LTV"
  PROVE  \A i \in DOMAIN delivered : Rebuilt(delivered[i], Payload(delivered[i]))
<1>1. FrameTypes /\ Streamed
  BY DEF FrameInv
<1>2. delivered \in Seq(Seq(Nat))
  BY <1>1 DEF FrameTypes
<1>3. WholeFrames("LTV", delivered) /\ FlattenSeq(delivered) \o Remaining = Accepted
  BY <1>1 DEF Streamed, Sound
<1>4. Remaining \in Seq(Nat) /\ FlattenSeq(delivered) \in Seq(Nat) /\ 2 * Base \in Nat
  BY <1>1, <1>2, FlatBytes, BaseNat, RemainingBytes
<1>5. AllBelow(FlattenSeq(delivered) \o Remaining, 2 * Base)
  BY <1>1, <1>3, AcceptedBelow
<1>6. AllBelow(FlattenSeq(delivered), 2 * Base)
  BY <1>4, <1>5, BelowParts
<1>7. FramesBelow(delivered, 2 * Base)
  BY <1>2, <1>4, <1>6, BelowFrames
<1> TAKE i \in DOMAIN delivered
<1>8. PICK f \in Seq(Nat) : f = delivered[i] /\ i \in 1..Len(delivered)
  BY <1>2
<1>9. IsWhole("LTV", f)
  BY <1>3, <1>8 DEF WholeFrames, IsWhole
<1>10. AllBelow(f, 2 * Base)
  BY <1>7, <1>8 DEF FramesBelow
<1>11. Rebuilt(f, PayloadOf(f, Parse("LTV", f)))
  BY <1>9, <1>10, LtvRebuilt
<1> QED
  BY <1>8, <1>11, PayloadIs

(* The properties of RoundTrip of a wire that was built. *)
SentComesBack ==
  /\ result \in {"NONE", "OK", "NEED_MORE", "BUFFER_OVERFLOW", "INVALID_SIZE"}
  /\ IsPrefix(delivered, conn.sent)
  /\ taken = Len(conn.bytes) /\ result = "NEED_MORE" => delivered = conn.sent

LEMMA SentArrives ==
  ASSUME FrameInv, ChunkingIrrelevant, conn.sent # << >>, since = 0, conn.proto # "RTU"
  PROVE  SentComesBack
<1>1. FrameTypes /\ Streamed
  BY DEF FrameInv
<1>2. PICK p, R, A, B, G : /\ p = conn.proto /\ R = Remaining /\ A = Accepted
                           /\ B = conn.bytes /\ G = conn.sent
  OBVIOUS
<1>3. p \in Streams /\ delivered \in Seq(Seq(Nat)) /\ R \in Seq(Nat) /\ B \in Seq(Nat)
  BY <1>1, <1>2, StreamProtos, RemainingBytes, WireTypes DEF FrameTypes
<1>4. G \in Seq(Seq(Nat)) /\ B = FlattenSeq(G) /\ \A i \in 1..Len(G) : IsBuilt(p, G[i])
  <2>1. conn \in Wires
    BY <1>1 DEF FrameTypes
  <2> QED
    BY <1>2, <2>1, WireAssumption
<1>5. WholeFrames(p, G)
  <2> SUFFICES ASSUME NEW i \in 1..Len(G)
               PROVE  Parse(p, G[i]).code = "OK" /\ Parse(p, G[i]).total = Len(G[i])
    BY DEF WholeFrames
  <2>1. G[i] \in Seq(Nat) /\ IsBuilt(p, G[i])
    BY <1>4
  <2>2. IsWhole(p, G[i])
    BY <1>3, <2>1, BuiltIsWhole
  <2> QED
    BY <2>2 DEF IsWhole
<1>6. WholeFrames(p, delivered) /\ FlattenSeq(delivered) \o R = A
  BY <1>1, <1>2 DEF Streamed, Sound
<1>7. taken \in 0..Len(B) /\ A = SubSeq(B, 1, taken)
  <2>1. taken \in Nat /\ taken <= Len(conn.bytes) /\ 0 + 1 = 1
    BY <1>1 DEF FrameTypes
  <2> QED
    BY <1>2, <1>3, <2>1 DEF Accepted
<1>8. PICK r : r = SubSeq(B, taken + 1, Len(B))
  OBVIOUS
<1>9. r \in Seq(Nat) /\ A \o r = B
  BY <1>3, <1>7, <1>8, CutTwo
<1>10. FlattenSeq(G) = FlattenSeq(delivered) \o (R \o r)
  <2>1. PICK g \in Seq(Nat) : g = FlattenSeq(delivered)
    BY <1>3, FlatBytes
  <2>2. (g \o R) \o r = g \o (R \o r)
    <3>1. Grouped(g, R, r)
      BY <1>3, <1>9, Regroup
    <3> QED
      BY <3>1, Zenon DEF Grouped
  <2> QED
    BY <1>4, <1>6, <1>9, <2>1, <2>2
<1>11. IsPrefix(delivered, G) /\ Parse(p, R).code \in {"OK", "NEED_MORE"}
  BY <1>3, <1>4, <1>5, <1>6, <1>9, <1>10, BuiltNeverFails
<1>12. result \in {"NONE", "OK", "NEED_MORE", "BUFFER_OVERFLOW", "INVALID_SIZE"}
  <2> SUFFICES ASSUME result \notin {"NONE", "OK"}
               PROVE  result \in {"NEED_MORE", "BUFFER_OVERFLOW", "INVALID_SIZE"}
    OBVIOUS
  <2>1. Verdict(p, result, R)
    BY <1>1, <1>2 DEF Streamed
  <2> QED
    BY <1>11, <2>1 DEF Verdict
<1>13. ASSUME taken = Len(conn.bytes), result = "NEED_MORE" PROVE delivered = G
  <2>1. A = B
    BY <1>2, <1>3, <1>7, <1>13
  <2>2. delivered = OneShot(p, A).frames
    BY <1>2, <1>13 DEF ChunkingIrrelevant
  <2>3. FoundBefore(p, G, << >>) /\ << >> \in Seq(Nat)
    <3>1. << >> \in Seq(Nat)
      OBVIOUS
    <3> QED
      BY <1>3, <1>4, <1>5, <3>1, AllBefore
  <2>4. OneShot(p, << >>).frames = << >>
    <3>1. OneShot(p, << >>) = [frames |-> << >>, end |-> Parse(p, << >>).code]
      BY <1>3, <2>3, NothingYet, NothingFound
    <3> QED
      BY <3>1
  <2>5. B \o << >> = B
    BY <1>3
  <2>6. OneShot(p, B \o << >>).frames = G \o << >>
    BY <1>4, <2>3, <2>4 DEF FoundBefore
  <2>7. G \o << >> = G
    BY <1>4
  <2> QED
    BY <2>1, <2>2, <2>5, <2>6, <2>7
<1> QED
  BY <1>2, <1>11, <1>12, <1>13 DEF SentComesBack

(* What ltv_build, frame_pack_header and modbus_tcp_build have written comes *)
(* back from ltv_stream_feed, stream_parser_feed and modbus_stream_feed      *)
(* frame by frame and without an error, however it is cut into chunks; and   *)
(* ltv_stream_feed returns only messages as ltv_build encodes them.          *)
THEOREM BuiltComesBack == FrameSpec => []RoundTrip
<1>1. ASSUME FrameInv, ChunkingIrrelevant PROVE RoundTrip
  <2>1. ASSUME conn.proto = "LTV"
        PROVE  \A i \in DOMAIN delivered :
                 LET f == delivered[i] IN f = LtvBuild(f[Len(f) - Len(Payload(f))], Payload(f))
    BY <1>1, <2>1, LtvDelivers DEF Rebuilt
  <2>2. ASSUME conn.sent # << >>, since = 0, conn.proto # "RTU" PROVE SentComesBack
    BY <1>1, <2>2, SentArrives
  <2> QED
    BY <2>1, <2>2, Zenon DEF RoundTrip, SentComesBack
<1> QED
  BY <1>1, FrameInvHolds, ChunksDoNotMatter, PTL

=============================================================================
