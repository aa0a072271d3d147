----------------------------- MODULE MCQueryVM -----------------------------
(* Programs for QueryVM: every short one over small instruction sets.      *)
EXTENDS QueryVM

I(op, dst, src1, src2, arg) == [op |-> op, dst |-> dst, src1 |-> src1, src2 |-> src2, arg |-> arg]

Slice(b, n, S) == {[code |-> c, lo |-> b, hi |-> b + n] : c \in [b..b + n - 1 -> S]}

(* Every class, with operands and registers in and out of range. *)
AnyOf(b) ==
  {I(op, d, s, 0, 0) : op \in {"LOAD", "EXISTS", "COUNT", "NOT", "NEG"}, d \in {0, 1, 3}, s \in {0, 1, 3}} \cup
  {I(op, d, s, 0, 0) : op \in {"LENGTH", "LENGTH_LEAF", "LEAF"}, d \in {0, 1}, s \in {0, 3, NoOperand}} \cup
  {I("MATCH", d, s, 0, a) : d \in {0, 1}, s \in {0, 1}, a \in {0, 2, NoOperand}} \cup
  {I("SELECT", 0, 1, s, 0) : s \in {1, 2}} \cup
  {I(op, d, 0, 0, 0) : op \in {"INPUT", "BOOL"}, d \in {0, 1, 2, 3}} \cup
  {I(op, 0, s, 0, b + a) : op \in {"JMP_IF", "JMP"}, s \in {0, 2, 3}, a \in 0..3} \cup
  {I("UNKNOWN", 0, 0, 0, 0)}

(* Control flow over two registers. *)
Branching(b, n) ==
  {I("INPUT", d, 0, 0, 0) : d \in {0, 1}} \cup {I("BINARY", 0, 0, 1, 0), I("NOT", 1, 1, 0, 0)} \cup
  {I("JMP_IF", 0, 1, 0, b + a) : a \in 1..n} \cup
  {I("JMP", 0, 0, 0, b + a) : a \in 1..n}

MCPrograms ==
  UNION {Slice(b, 1, AnyOf(b)) : b \in {0, 1}} \cup Slice(1, 2, AnyOf(1))
    \cup Slice(0, 3, Branching(0, 3)) \cup Slice(1, 4, Branching(1, 4))
    \cup {[code |-> [k \in 0..4 |-> I("INPUT", 0, 0, 0, 0)], lo |-> 0, hi |-> 5]}

============================================================================
