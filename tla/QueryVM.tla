------------------------------ MODULE QueryVM ------------------------------
(***************************************************************************)
(* The register machine of the path languages (parser/query_vm): the       *)
(* verifier qvm_verify_slice_ex and the interpreter qvm_execute_ex, on the *)
(* slice lo..hi-1 of a program.                                            *)
(*                                                                         *)
(* Opcodes that the two treat alike form one class.  What a register holds *)
(* is left out: a conditional jump may go either way and a backend         *)
(* callback may fail; written is the set of registers an execution has     *)
(* assigned.  The arguments of the calls are valid and the operand and     *)
(* regex tables within the limits.  A caller may execute a program it has  *)
(* not had verified.                                                       *)
(***************************************************************************)
EXTENDS Integers, FiniteSets

CONSTANTS
  Programs,         \* [code, lo, hi]
  RegisterCount,    \* register_count the verifier is told
  MaxRegisters,     \* QVM_MAX_REGISTERS
  OperandCount, RegexCount,
  MaxInstructions, MaxSteps,    \* qvm_limits_t
  NoOperand         \* QVM_NO_OPERAND

(* The opcode classes: LOAD is LOAD_PATH and LOAD_CONST, INPUT the other   *)
(* loads, EXISTS also NOT_EXISTS, BOOL is TRUE and FALSE, LEAF the fused   *)
(* comparisons but CMP_LENGTH_LEAF, MATCH the three with a regex, BINARY   *)
(* the other binary ones, NEG also BNOT, JMP_IF both conditional jumps.    *)
Opcodes ==
  {"LOAD", "INPUT", "EXISTS", "LENGTH", "COUNT", "LEAF", "LENGTH_LEAF", "BOOL",
   "BINARY", "MATCH", "NEG", "NOT", "SELECT", "JMP_IF", "JMP", "UNKNOWN"}

Instructions ==
  [op : Opcodes, dst : Nat, arg : Nat \cup {NoOperand},
   src1 : Nat \cup {NoOperand}, src2 : Nat \cup {NoOperand}]

ASSUME QvmAssumption ==
  /\ RegisterCount \in 1..MaxRegisters /\ MaxRegisters \in Nat
  /\ {OperandCount, RegexCount, MaxInstructions, MaxSteps} \subseteq Nat
  /\ NoOperand \notin Nat
  /\ \A p \in Programs :
       /\ p.lo \in Nat /\ p.hi \in Nat /\ p.lo < p.hi
       /\ p.code \in [p.lo..p.hi - 1 -> Instructions]

VARIABLES
  code, lo, hi,
  phase,      \* idle, flow, ready (verified), run, end
  verified,   \* the program has passed qvm_verify_slice_ex
  pc,
  states,     \* registers initialised on every path the verifier has seen
  reachable,  \* instructions the verifier has found reachable
  written,    \* registers the execution has assigned
  steps,
  status

vars == <<code, lo, hi, phase, verified, pc, states, reachable, written, steps, status>>

Init ==
  /\ \E p \in Programs : code = p.code /\ lo = p.lo /\ hi = p.hi
  /\ phase = "idle" /\ verified = FALSE
  /\ pc = lo
  /\ states = [k \in lo..hi |-> {}] /\ reachable = {}
  /\ written = {} /\ steps = 0
  /\ status = "NONE"

---------------------------------------------------------------------------
Jumps == {"JMP_IF", "JMP"}
Binary == {"BINARY", "MATCH"}

(* qvm_writes_register *)
Writes(i) == IF i.op \in Jumps THEN {} ELSE {i.dst}

(* The registers an instruction reads, as in qvm_reads_uninitialized. *)
Reads(i) ==
  IF i.op \in Binary THEN {i.src1, i.src2}
  ELSE IF i.op \in {"NEG", "NOT", "JMP_IF"} THEN {i.src1}
  ELSE IF i.op = "SELECT" THEN {i.src1, i.src2, i.arg}
  ELSE {}

Successors(i, k) ==
  (IF i.op = "JMP" THEN {} ELSE {k + 1}) \cup (IF i.op \in Jumps THEN {i.arg} ELSE {})

Registers(n) == 0..n - 1
Operands == 0..OperandCount - 1

(* The bounds of one instruction, for n registers. *)
RegistersValid(i, n) == Writes(i) \cup Reads(i) \subseteq Registers(n)

(* Fault: nothing looks at where a jump past the end leads. *)
JumpValidOpen(i, k) ==
  i.op \in Jumps => i.arg \in Nat /\ i.arg > k

JumpValid(i, k) ==
  i.op \in Jumps => i.arg \in Nat /\ i.arg > k /\ i.arg <= hi

(* Operands and regexes the backend will be asked for. *)
OperandsValid(i) ==
  /\ i.op \in {"LOAD", "EXISTS", "COUNT", "LEAF"} => i.src1 \in Operands
  /\ i.op \in {"LENGTH", "LENGTH_LEAF"} => i.src1 \in Operands \cup {NoOperand}
  /\ i.op \in {"LEAF", "LENGTH_LEAF"} => i.src2 \in Operands
  /\ i.op = "MATCH" => i.arg \in 0..RegexCount - 1 \cup {NoOperand}

(* The first loop of qvm_verify_slice_ex, on one instruction. *)
WellFormed(k) ==
  /\ code[k].op # "UNKNOWN"
  /\ RegistersValid(code[k], RegisterCount)
  /\ OperandsValid(code[k])
  /\ JumpValid(code[k], k)

---------------------------------------------------------------------------
Finish(s) ==
  /\ phase' = "end" /\ status' = s
  /\ UNCHANGED <<code, lo, hi, verified, pc, states, reachable, written, steps>>

(* The checks of each instruction by itself, then the dataflow begins; the *)
(* state arrays may not be allocated.                                      *)
Verify ==
  /\ phase = "idle"
  /\ \/ hi - lo > MaxInstructions /\ Finish("RESOURCE_LIMIT")
     \/ /\ hi - lo <= MaxInstructions
        /\ \E k \in lo..hi - 1 : ~WellFormed(k)
        /\ Finish("INVALID_PROGRAM")
     \/ /\ hi - lo <= MaxInstructions
        /\ \A k \in lo..hi - 1 : WellFormed(k)
        /\ \/ Finish("NO_MEMORY")
           \/ /\ phase' = "flow" /\ pc' = lo
              /\ reachable' = {lo} /\ states' = [k \in lo..hi |-> {}]
              /\ UNCHANGED <<code, lo, hi, verified, written, steps, status>>

(* Fault: what one path initialises counts as initialised. *)
MergeUnion(S, R, succ, s) ==
  [k \in lo..hi |-> IF k \notin succ THEN S[k] ELSE IF k \in R THEN S[k] \cup s ELSE s]

(* Fault: the last path merged wins. *)
MergeLast(S, R, succ, s) == [k \in lo..hi |-> IF k \in succ THEN s ELSE S[k]]

(* qvm_merge_state into every successor *)
Merge(S, R, succ, s) ==
  [k \in lo..hi |-> IF k \notin succ THEN S[k] ELSE IF k \in R THEN S[k] \cap s ELSE s]

(* One instruction of the dataflow loop. *)
FlowStep ==
  /\ phase = "flow" /\ pc < hi
  /\ \/ /\ pc \notin reachable
        /\ pc' = pc + 1
        /\ UNCHANGED <<code, lo, hi, phase, verified, states, reachable, written, steps, status>>
     \/ /\ pc \in reachable /\ ~(Reads(code[pc]) \subseteq states[pc])
        /\ Finish("INVALID_PROGRAM")
     \/ /\ pc \in reachable /\ Reads(code[pc]) \subseteq states[pc]
        /\ states' = Merge(states, reachable, Successors(code[pc], pc),
                           states[pc] \cup Writes(code[pc]))
        /\ reachable' = reachable \cup Successors(code[pc], pc)
        /\ pc' = pc + 1
        /\ UNCHANGED <<code, lo, hi, phase, verified, written, steps, status>>

(* The result register must be initialised at the end. *)
FlowEnd ==
  /\ phase = "flow" /\ pc = hi
  /\ IF hi \in reachable /\ 0 \in states[hi]
     THEN /\ phase' = "ready" /\ verified' = TRUE
          /\ UNCHANGED <<code, lo, hi, pc, states, reachable, written, steps, status>>
     ELSE Finish("INVALID_PROGRAM")

---------------------------------------------------------------------------
(* qvm_validate_exec_instruction *)
ExecValid(k) ==
  /\ code[k].op # "UNKNOWN"
  /\ RegistersValid(code[k], MaxRegisters)
  /\ JumpValid(code[k], k)

Leaves == {"LEAF", "LENGTH_LEAF"}

(* Instructions whose backend callback may report an error; that of the    *)
(* leaves may be missing.                                                  *)
Fallible(i) ==
  i.op \in {"EXISTS", "LENGTH", "COUNT", "LEAF", "LENGTH_LEAF", "BINARY", "MATCH", "NEG"}

(* qvm_execute_ex, of a verified or an unverified program *)
Execute ==
  /\ phase \in {"idle", "ready"}
  /\ \/ hi - lo > MaxInstructions /\ Finish("RESOURCE_LIMIT")
     \/ /\ hi - lo <= MaxInstructions
        /\ phase' = "run" /\ pc' = lo /\ written' = {} /\ steps' = 0
        /\ UNCHANGED <<code, lo, hi, verified, states, reachable, status>>

(* A program of one such instruction has a path of its own, which answers  *)
(* from register 0 whatever dst says.                                      *)
SinglePath == hi = lo + 1 /\ code[lo].op \in Leaves \cup {"EXISTS", "BOOL"}

Refused == ~ExecValid(pc) \/ steps >= MaxSteps

Refuse ==
  /\ phase = "run" /\ pc < hi /\ Refused
  /\ Finish(IF ExecValid(pc) THEN "RESOURCE_LIMIT" ELSE "INVALID_PROGRAM")

BackendError ==
  /\ phase = "run" /\ pc < hi /\ ~Refused
  /\ \/ Fallible(code[pc]) /\ Finish("BACKEND_ERROR")
     \/ code[pc].op \in Leaves /\ Finish("UNSUPPORTED")

RunSingle ==
  /\ phase = "run" /\ pc < hi /\ ~Refused /\ SinglePath
  /\ phase' = "end" /\ status' = "OK"
  /\ written' = {0}
  /\ UNCHANGED <<code, lo, hi, verified, pc, states, reachable, steps>>

Run ==
  /\ phase = "run" /\ pc < hi /\ ~Refused /\ ~SinglePath
  /\ pc' \in Successors(code[pc], pc)
  /\ written' = written \cup Writes(code[pc])
  /\ steps' = steps + 1
  /\ UNCHANGED <<code, lo, hi, phase, verified, states, reachable, status>>

Halt == phase = "run" /\ pc = hi /\ Finish("OK")

Next ==
  \/ Verify \/ FlowStep \/ FlowEnd
  \/ Execute \/ Refuse \/ BackendError \/ RunSingle \/ Run \/ Halt

Spec == Init /\ [][Next]_vars

---------------------------------------------------------------------------
(* Properties.                                                             *)

TypeOK ==
  /\ lo \in Nat /\ hi \in Nat /\ lo < hi
  /\ code \in [lo..hi - 1 -> Instructions]
  /\ phase \in {"idle", "flow", "ready", "run", "end"}
  /\ verified \in BOOLEAN
  /\ pc \in lo..hi
  /\ states \in [lo..hi -> SUBSET Nat]
  /\ reachable \subseteq lo..hi
  /\ written \subseteq Nat
  /\ steps \in Nat
  /\ status \in {"NONE", "OK", "RESOURCE_LIMIT", "INVALID_PROGRAM", "NO_MEMORY",
                "BACKEND_ERROR", "UNSUPPORTED"}

(* What the verifier is for: executing a program it has accepted never      *)
(* reads a register no instruction has written on the path taken, never     *)
(* asks the backend for an operand or regex out of range, is never refused  *)
(* as malformed, and when it succeeds has written the result register.      *)
VerifiedIsSafe ==
  verified =>
    /\ phase = "run" /\ pc < hi =>
         /\ Reads(code[pc]) \subseteq written
         /\ OperandsValid(code[pc])
         /\ ExecValid(pc)
    /\ phase = "end" /\ status = "OK" => 0 \in written

(* Verified or not, an execution stays inside the slice, whose end is the   *)
(* only place outside it a jump may go to, and inside the register file;    *)
(* every step moves forward, so it ends within hi - lo steps, and it never   *)
(* takes more than the limit.                                                *)
RunInBounds ==
  /\ written \subseteq Registers(MaxRegisters)
  /\ phase \in {"run", "end"} => pc \in lo..hi /\ steps <= pc - lo /\ steps <= MaxSteps

(* The sets of registers that paths from lo to k can have written. *)
PathsTo ==
  LET at[k \in lo..hi] ==
        IF k = lo THEN {{}}
        ELSE UNION {{s \cup Writes(code[j]) : s \in at[j]} :
                      j \in {i \in lo..k - 1 : k \in Successors(code[i], i)}}
  IN  at

(* The verifier is exact: when it judges an instruction, that is reachable  *)
(* in its tables iff some path leads to it, and a register counts as        *)
(* initialised iff every path writes it.  Accepted programs are safe on     *)
(* every path and a refused one has a path that reads garbage.              *)
ExactFlow ==
  phase = "flow" =>
    /\ pc \in reachable <=> PathsTo[pc] # {}
    /\ pc \in reachable => states[pc] = {r \in Nat \cap UNION PathsTo[pc] :
                                           \A s \in PathsTo[pc] : r \in s}

============================================================================
