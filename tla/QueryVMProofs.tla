--------------------------- MODULE QueryVMProofs ---------------------------
(* TLAPS proofs about QueryVM: what acceptance by qvm_verify_slice_ex      *)
(* guarantees an execution, for every program, limit and register count.   *)
EXTENDS QueryVM, WellFoundedInduction, TLAPS

(* The dataflow loop has dealt with instruction k. *)
Flowed(k) ==
  k \in reachable =>
    /\ Reads(code[k]) \subseteq states[k]
    /\ \A j \in Successors(code[k], k) :
         j \in reachable /\ states[j] \subseteq states[k] \cup Writes(code[k])

(* The tables are a fixpoint up to instruction n. *)
FlowedTo(n) ==
  /\ \A k \in lo..hi - 1 : WellFormed(k)
  /\ lo \in reachable /\ states[lo] = {}
  /\ \A k \in lo..n - 1 : Flowed(k)

FlowInv == phase = "flow" => FlowedTo(pc)

VerifiedInv ==
  verified =>
    /\ phase \in {"ready", "run", "end"}
    /\ FlowedTo(hi) /\ hi \in reachable /\ 0 \in states[hi]

RunInv ==
  verified =>
    /\ phase = "run" => pc \in reachable /\ states[pc] \subseteq written
    /\ phase = "end" /\ status = "OK" => 0 \in written

StepInv ==
  /\ written \subseteq Registers(MaxRegisters)
  /\ steps <= pc - lo /\ steps <= MaxSteps
  /\ phase \in {"idle", "flow", "ready"} => steps = 0

IInv == TypeOK /\ FlowInv /\ VerifiedInv /\ RunInv /\ StepInv

---------------------------------------------------------------------------
(* The destination of an instruction is a number. *)
LEMMA WritesNat ==
  ASSUME NEW i \in Instructions
  PROVE  Writes(i) \subseteq Nat
BY DEF Writes, Instructions

(* A valid jump goes forward, and never past the end of the slice. *)
LEMMA SuccessorsForward ==
  ASSUME TypeOK, NEW k \in lo..hi - 1, JumpValid(code[k], k)
  PROVE  Successors(code[k], k) \subseteq k + 1..hi
<1>1. lo \in Nat /\ hi \in Nat /\ k \in Nat /\ k + 1 \in k + 1..hi
  BY DEF TypeOK
<1>2. code[k].op \in Jumps => code[k].arg \in k + 1..hi
  BY <1>1 DEF JumpValid
<1> QED
  BY <1>1, <1>2 DEF Successors

(* What the verifier accepts, the interpreter's own checks accept. *)
LEMMA WellFormedExecutes ==
  ASSUME NEW k, WellFormed(k)
  PROVE  ExecValid(k) /\ OperandsValid(code[k])
<1>1. Registers(RegisterCount) \subseteq Registers(MaxRegisters)
  BY QvmAssumption DEF Registers
<1> QED
  BY <1>1 DEF WellFormed, ExecValid, RegistersValid

(* Writes of an instruction the interpreter accepts stay in the file. *)
LEMMA WritesInFile ==
  ASSUME NEW k, ExecValid(k)
  PROVE  Writes(code[k]) \subseteq Registers(MaxRegisters)
BY DEF ExecValid, RegistersValid

(* A step and a move forward keep the steps within the distance. *)
LEMMA OneForward ==
  ASSUME NEW n \in Nat, NEW a \in Nat, NEW b \in Nat, NEW c \in Nat,
         n <= b - a, b + 1 <= c
  PROVE  n + 1 <= c - a
OBVIOUS

(* Register 0 exists. *)
LEMMA ZeroInFile == {0} \subseteq Registers(MaxRegisters)
BY QvmAssumption DEF Registers

(* Merging keeps the tables typed, leaves the entries of other             *)
(* instructions alone and only ever lowers one that was reachable.         *)
LEMMA MergeFacts ==
  ASSUME NEW S \in [lo..hi -> SUBSET Nat], NEW R, NEW succ, NEW s \in SUBSET Nat
  PROVE  /\ Merge(S, R, succ, s) \in [lo..hi -> SUBSET Nat]
         /\ \A k \in lo..hi : k \notin succ => Merge(S, R, succ, s)[k] = S[k]
         /\ \A k \in lo..hi : k \in R => Merge(S, R, succ, s)[k] \subseteq S[k]
         /\ \A k \in lo..hi : k \in succ => Merge(S, R, succ, s)[k] \subseteq s
BY DEF Merge

---------------------------------------------------------------------------
LEMMA InitIInv == Init => IInv
<1> SUFFICES ASSUME Init PROVE IInv
  OBVIOUS
<1>1. PICK p \in Programs : code = p.code /\ lo = p.lo /\ hi = p.hi
  BY DEF Init
<1>2. lo \in Nat /\ hi \in Nat /\ lo < hi /\ code \in [lo..hi - 1 -> Instructions]
  BY <1>1, QvmAssumption
<1>3. TypeOK
  <2>1. pc \in lo..hi /\ reachable \subseteq lo..hi /\ states \in [lo..hi -> SUBSET Nat]
    BY <1>2 DEF Init
  <2> QED
    BY <1>2, <2>1 DEF Init, TypeOK
<1> QED
  BY <1>2, <1>3, QvmAssumption DEF Init, IInv, FlowInv, VerifiedInv, RunInv, StepInv

(* A call that ends keeps what is known, if it may end so. *)
LEMMA FinishKeeps ==
  ASSUME IInv, NEW st, Finish(st),
         st \in {"OK", "RESOURCE_LIMIT", "INVALID_PROGRAM", "NO_MEMORY",
                 "BACKEND_ERROR", "UNSUPPORTED"},
         verified /\ st = "OK" => 0 \in written
  PROVE  IInv'
<1>1. TypeOK'
  BY DEF IInv, Finish, TypeOK
<1>2. FlowInv' /\ StepInv'
  BY DEF IInv, Finish, FlowInv, StepInv, Registers
<1>3. VerifiedInv'
  BY DEF IInv, Finish, VerifiedInv, FlowedTo, Flowed, WellFormed, JumpValid
<1>4. RunInv'
  BY DEF IInv, Finish, RunInv
<1> QED
  BY <1>1, <1>2, <1>3, <1>4 DEF IInv

LEMMA VerifyKeeps == IInv /\ Verify => IInv'
<1> SUFFICES ASSUME IInv, Verify PROVE IInv'
  OBVIOUS
<1>1. CASE \E st \in {"RESOURCE_LIMIT", "INVALID_PROGRAM", "NO_MEMORY"} : Finish(st)
  BY <1>1, FinishKeeps
<1>2. CASE /\ \A k \in lo..hi - 1 : WellFormed(k)
           /\ phase' = "flow" /\ pc' = lo
           /\ reachable' = {lo} /\ states' = [k \in lo..hi |-> {}]
           /\ UNCHANGED <<code, lo, hi, verified, written, steps, status>>
  <2> USE <1>2
  <2>1. ~verified /\ steps = 0
    BY DEF Verify, IInv, VerifiedInv, StepInv
  <2>2. TypeOK'
    BY DEF IInv, TypeOK
  <2>3. FlowInv'
    BY <2>2 DEF FlowInv, FlowedTo, IInv, TypeOK, WellFormed, JumpValid
  <2>4. VerifiedInv' /\ RunInv'
    BY <2>1 DEF VerifiedInv, RunInv
  <2>5. StepInv'
    BY <2>1 DEF StepInv, IInv, TypeOK, Registers
  <2> QED
    BY <2>2, <2>3, <2>4, <2>5 DEF IInv
<1> QED
  BY <1>1, <1>2 DEF Verify

LEMMA FlowStepKeeps == IInv /\ FlowStep => IInv'
<1> SUFFICES ASSUME IInv, FlowStep PROVE IInv'
  OBVIOUS
<1>0. /\ TypeOK /\ ~verified /\ steps = 0 /\ FlowedTo(pc) /\ phase = "flow"
      /\ pc \in lo..hi - 1
  BY DEF FlowStep, IInv, VerifiedInv, StepInv, FlowInv, TypeOK
<1>1. CASE Finish("INVALID_PROGRAM")
  BY <1>1, FinishKeeps
<1>2. CASE /\ pc \notin reachable /\ pc' = pc + 1
           /\ UNCHANGED <<code, lo, hi, phase, verified, states, reachable, written, steps, status>>
  <2>1. TypeOK'
    BY <1>0, <1>2 DEF TypeOK
  <2>2. Flowed(pc) /\ \A k \in lo..pc : k = pc \/ k \in lo..pc - 1
    BY <1>0, <1>2 DEF Flowed, TypeOK
  <2>3. \A k \in lo..pc : Flowed(k)
    BY <1>0, <2>2 DEF FlowedTo
  <2>4. FlowInv'
    <3>1. lo..pc' - 1 = lo..pc
      BY <1>0, <1>2 DEF TypeOK
    <3> QED
      BY <1>0, <1>2, <2>3, <3>1 DEF FlowInv, FlowedTo, Flowed, WellFormed, JumpValid
  <2>5. VerifiedInv' /\ RunInv'
    BY <1>0, <1>2 DEF VerifiedInv, RunInv
  <2>6. StepInv'
    BY <1>0, <1>2 DEF StepInv, IInv, TypeOK, Registers
  <2> QED
    BY <2>1, <2>4, <2>5, <2>6 DEF IInv
<1>3. CASE /\ pc \in reachable /\ Reads(code[pc]) \subseteq states[pc]
           /\ states' = Merge(states, reachable, Successors(code[pc], pc),
                              states[pc] \cup Writes(code[pc]))
           /\ reachable' = reachable \cup Successors(code[pc], pc)
           /\ pc' = pc + 1
           /\ UNCHANGED <<code, lo, hi, phase, verified, written, steps, status>>
  <2> DEFINE succ == Successors(code[pc], pc)
             s == states[pc] \cup Writes(code[pc])
  <2>1. /\ code[pc] \in Instructions /\ states \in [lo..hi -> SUBSET Nat]
        /\ lo \in Nat /\ hi \in Nat /\ pc \in Nat /\ lo <= pc /\ pc < hi
    BY <1>0 DEF TypeOK
  <2>2. s \in SUBSET Nat
    BY <2>1, <1>0, WritesNat DEF TypeOK
  <2>3. succ \subseteq pc + 1..hi
    BY <1>0, SuccessorsForward DEF FlowedTo, WellFormed
  <2>4. /\ states' \in [lo..hi -> SUBSET Nat]
        /\ \A k \in lo..hi : k \notin succ => states'[k] = states[k]
        /\ \A k \in lo..hi : k \in reachable => states'[k] \subseteq states[k]
        /\ \A k \in lo..hi : k \in succ => states'[k] \subseteq s
    <3> HIDE DEF succ, s
    <3>1. states' = Merge(states, reachable, succ, s)
      BY <1>3 DEF succ, s
    <3> QED
      BY <2>1, <2>2, <3>1, MergeFacts
  <2>5. TypeOK'
    <3>1. reachable' \subseteq lo..hi /\ pc' \in lo..hi
      <4>1. pc + 1..hi \subseteq lo..hi /\ pc + 1 \in lo..hi
        BY <2>1
      <4>2. reachable \subseteq lo..hi
        BY <1>0 DEF TypeOK
      <4> HIDE DEF succ
      <4>3. reachable' = reachable \cup succ
        BY <1>3 DEF succ
      <4> QED
        BY <4>1, <4>2, <4>3, <1>3, <2>3
    <3> QED
      BY <1>0, <1>3, <2>4, <3>1 DEF TypeOK
  <2>6. \A k \in lo..pc : k \in lo..hi /\ k \notin succ /\ states'[k] = states[k]
    BY <2>1, <2>3, <2>4
  <2>7. \A k \in lo..pc - 1 : Flowed(k)'
    <3> SUFFICES ASSUME NEW k \in lo..pc - 1, k \in reachable'
                 PROVE  /\ Reads(code[k]) \subseteq states'[k]
                        /\ \A j \in Successors(code[k], k) :
                             j \in reachable' /\ states'[j] \subseteq states'[k] \cup Writes(code[k])
      BY <1>3 DEF Flowed
    <3>1. k \in lo..pc /\ k \in lo..hi - 1
      BY <2>1
    <3>2. k \in reachable /\ states'[k] = states[k]
      BY <3>1, <2>6, <1>3
    <3>3. Flowed(k) /\ WellFormed(k)
      BY <1>0, <3>1 DEF FlowedTo
    <3>4. Successors(code[k], k) \subseteq lo..hi
      <4>1. Successors(code[k], k) \subseteq k + 1..hi
        BY <1>0, <3>1, <3>3, SuccessorsForward DEF WellFormed
      <4> QED
        BY <4>1, <2>1, <3>1
    <3> QED
      BY <3>2, <3>3, <3>4, <2>4, <1>3 DEF Flowed
  <2>8. \A k \in {pc} : Flowed(k)'
    <3> SUFFICES ASSUME NEW k \in {pc}
                 PROVE  /\ Reads(code[k]) \subseteq states'[k]
                        /\ \A j \in Successors(code[k], k) :
                             j \in reachable' /\ states'[j] \subseteq states'[k] \cup Writes(code[k])
      BY <1>3 DEF Flowed
    <3>1. k = pc /\ pc \in lo..pc /\ succ \subseteq lo..hi
      BY <2>1, <2>3
    <3>2. states'[k] = states[k]
      BY <2>6, <3>1
    <3> QED
      BY <1>3, <2>4, <3>1, <3>2
  <2>9. FlowInv'
    <3>1. (lo..pc - 1) \cup {pc} = lo'..pc' - 1 /\ lo \in lo..pc
      BY <2>1, <1>3
    <3>2. lo' \in reachable' /\ states'[lo'] = {}
      BY <1>0, <1>3, <2>6, <3>1 DEF FlowedTo
    <3>3. \A k \in lo'..hi' - 1 : WellFormed(k)'
      BY <1>0, <1>3 DEF FlowedTo, WellFormed, JumpValid
    <3> QED
      BY <2>7, <2>8, <3>1, <3>2, <3>3 DEF FlowInv, FlowedTo
  <2>10. VerifiedInv' /\ RunInv'
    BY <1>0, <1>3 DEF VerifiedInv, RunInv
  <2>11. StepInv'
    BY <1>0, <1>3 DEF StepInv, IInv, TypeOK, Registers
  <2> QED
    BY <2>5, <2>9, <2>10, <2>11 DEF IInv
<1> QED
  BY <1>1, <1>2, <1>3 DEF FlowStep

LEMMA FlowEndKeeps == IInv /\ FlowEnd => IInv'
<1> SUFFICES ASSUME IInv, FlowEnd PROVE IInv'
  OBVIOUS
<1>1. CASE ~(hi \in reachable /\ 0 \in states[hi])
  BY <1>1, FinishKeeps DEF FlowEnd
<1>2. CASE hi \in reachable /\ 0 \in states[hi]
  <2>1. /\ phase' = "ready" /\ verified' = TRUE /\ FlowedTo(hi) /\ steps = 0
        /\ UNCHANGED <<code, lo, hi, pc, states, reachable, written, steps, status>>
    BY <1>2 DEF FlowEnd, IInv, FlowInv, StepInv
  <2>2. TypeOK'
    BY <2>1 DEF IInv, TypeOK
  <2>3. VerifiedInv'
    BY <1>2, <2>1 DEF VerifiedInv, FlowedTo, Flowed, WellFormed, JumpValid
  <2>4. FlowInv' /\ RunInv'
    BY <2>1 DEF FlowInv, RunInv
  <2>5. StepInv'
    BY <2>1 DEF StepInv, IInv, Registers
  <2> QED
    BY <2>2, <2>3, <2>4, <2>5 DEF IInv
<1> QED
  BY <1>1, <1>2

LEMMA ExecuteKeeps == IInv /\ Execute => IInv'
<1> SUFFICES ASSUME IInv, Execute PROVE IInv'
  OBVIOUS
<1>1. CASE Finish("RESOURCE_LIMIT")
  BY <1>1, FinishKeeps
<1>2. CASE /\ phase' = "run" /\ pc' = lo /\ written' = {} /\ steps' = 0
           /\ UNCHANGED <<code, lo, hi, verified, states, reachable, status>>
  <2> USE <1>2
  <2>1. TypeOK'
    BY DEF IInv, TypeOK
  <2>2. VerifiedInv'
    BY DEF IInv, VerifiedInv, FlowedTo, Flowed, WellFormed, JumpValid
  <2>3. FlowInv' /\ RunInv'
    BY DEF IInv, FlowInv, RunInv, VerifiedInv, FlowedTo
  <2>4. StepInv'
    BY QvmAssumption DEF IInv, TypeOK, StepInv
  <2> QED
    BY <2>1, <2>2, <2>3, <2>4 DEF IInv
<1> QED
  BY <1>1, <1>2 DEF Execute

LEMMA RunKeeps == IInv /\ Run => IInv'
<1> SUFFICES ASSUME IInv, Run PROVE IInv'
  OBVIOUS
<1>1. /\ TypeOK /\ ExecValid(pc) /\ pc' \in Successors(code[pc], pc)
      /\ pc \in lo..hi - 1 /\ code[pc] \in Instructions
      /\ written' = written \cup Writes(code[pc]) /\ steps' = steps + 1
      /\ phase = "run" /\ phase' = "run"
      /\ UNCHANGED <<code, lo, hi, phase, verified, states, reachable, status>>
  BY DEF Run, Refused, IInv, TypeOK
<1>2. pc' \in pc + 1..hi
  BY <1>1, SuccessorsForward DEF ExecValid
<1>3. TypeOK'
  <2>1. pc' \in lo..hi
    BY <1>1, <1>2 DEF TypeOK
  <2>2. written' \subseteq Nat
    BY <1>1, WritesNat DEF TypeOK
  <2> QED
    BY <1>1, <2>1, <2>2 DEF TypeOK
<1>4. VerifiedInv'
  BY <1>1 DEF IInv, VerifiedInv, FlowedTo, Flowed, WellFormed, JumpValid
<1>5. RunInv'
  <2> SUFFICES ASSUME verified
               PROVE  pc' \in reachable /\ states[pc'] \subseteq written'
    BY <1>1 DEF RunInv
  <2>1. Flowed(pc) /\ pc \in reachable /\ states[pc] \subseteq written
    BY <1>1 DEF IInv, VerifiedInv, FlowedTo, RunInv
  <2> QED
    BY <1>1, <2>1 DEF Flowed
<1>6. StepInv'
  <2>1. steps' <= pc' - lo'
    <3>1. steps <= pc - lo /\ lo \in Nat /\ hi \in Nat /\ steps \in Nat
      BY DEF IInv, StepInv, TypeOK
    <3>2. steps' = steps + 1 /\ lo' = lo /\ pc \in lo..hi - 1
      BY <1>1
    <3>3. pc' \in Nat /\ pc \in Nat /\ pc + 1 <= pc'
      BY <3>1, <3>2, <1>2
    <3> QED
      BY <3>1, <3>2, <3>3, OneForward
  <2>2. written' \subseteq Registers(MaxRegisters)
    BY <1>1, WritesInFile DEF IInv, StepInv
  <2>3. steps' <= MaxSteps
    BY <1>1, QvmAssumption DEF Run, Refused, TypeOK
  <2> QED
    BY <1>1, <2>1, <2>2, <2>3 DEF StepInv, Registers
<1> QED
  BY <1>1, <1>3, <1>4, <1>5, <1>6 DEF IInv, FlowInv

LEMMA RunSingleKeeps == IInv /\ RunSingle => IInv'
<1> SUFFICES ASSUME IInv, RunSingle PROVE IInv'
  OBVIOUS
<1>1. /\ phase = "run" /\ phase' = "end" /\ status' = "OK" /\ written' = {0}
      /\ UNCHANGED <<code, lo, hi, verified, pc, states, reachable, steps>>
  BY DEF RunSingle
<1>2. TypeOK'
  BY <1>1 DEF IInv, TypeOK
<1>3. VerifiedInv'
  BY <1>1 DEF IInv, VerifiedInv, FlowedTo, Flowed, WellFormed, JumpValid
<1>4. FlowInv' /\ RunInv'
  BY <1>1 DEF FlowInv, RunInv
<1>5. StepInv'
  BY <1>1, ZeroInFile DEF IInv, StepInv, Registers
<1> QED
  BY <1>2, <1>3, <1>4, <1>5 DEF IInv

LEMMA EndsKeep == IInv /\ (Refuse \/ BackendError \/ Halt) => IInv'
<1> SUFFICES ASSUME IInv, Refuse \/ BackendError \/ Halt PROVE IInv'
  OBVIOUS
<1>1. CASE Refuse
  BY <1>1, FinishKeeps DEF Refuse
<1>2. CASE BackendError
  BY <1>2, FinishKeeps DEF BackendError
<1>3. CASE Halt
  <2>1. verified => 0 \in written
    BY <1>3 DEF Halt, IInv, VerifiedInv, RunInv
  <2> QED
    BY <1>3, <2>1, FinishKeeps DEF Halt
<1> QED
  BY <1>1, <1>2, <1>3

(* The inductive invariant holds in every behaviour. *)
THEOREM Invariance == Spec => []IInv
<1>1. IInv /\ [Next]_vars => IInv'
  <2> SUFFICES ASSUME IInv, [Next]_vars PROVE IInv'
    OBVIOUS
  <2>1. CASE UNCHANGED vars
    BY <2>1 DEF vars, IInv, TypeOK, FlowInv, VerifiedInv, RunInv, StepInv,
                FlowedTo, Flowed, WellFormed, JumpValid, Registers
  <2> QED
    BY <2>1, VerifyKeeps, FlowStepKeeps, FlowEndKeeps, ExecuteKeeps, RunKeeps,
       RunSingleKeeps, EndsKeep DEF Next
<1> QED
  BY <1>1, InitIInv, PTL DEF Spec

(* Type correctness of verifier and interpreter. *)
THEOREM TypeCorrect == Spec => []TypeOK
<1>1. IInv => TypeOK
  BY DEF IInv
<1> QED
  BY <1>1, Invariance, PTL

(* A program qvm_verify_slice_ex has accepted never makes qvm_execute_ex    *)
(* read an unwritten register or ask for an operand out of range, is never  *)
(* refused as malformed, and answers from a register it has written.        *)
THEOREM AcceptedIsSafe == Spec => []VerifiedIsSafe
<1>1. IInv => VerifiedIsSafe
  <2> SUFFICES ASSUME IInv, verified PROVE
        /\ phase = "run" /\ pc < hi =>
             /\ Reads(code[pc]) \subseteq written
             /\ OperandsValid(code[pc])
             /\ ExecValid(pc)
        /\ phase = "end" /\ status = "OK" => 0 \in written
    BY DEF VerifiedIsSafe
  <2>1. ASSUME phase = "run", pc < hi
        PROVE  Reads(code[pc]) \subseteq written /\ OperandsValid(code[pc]) /\ ExecValid(pc)
    <3>1. pc \in lo..hi - 1
      BY <2>1 DEF IInv, TypeOK
    <3>2. Flowed(pc) /\ WellFormed(pc) /\ pc \in reachable /\ states[pc] \subseteq written
      BY <2>1, <3>1 DEF IInv, VerifiedInv, FlowedTo, RunInv
    <3> QED
      BY <3>2, WellFormedExecutes DEF Flowed
  <2> QED
    BY <2>1 DEF IInv, RunInv
<1> QED
  BY <1>1, Invariance, PTL

(* Verified or not, qvm_execute_ex stays in its slice, whose end it may      *)
(* reach and not pass, and in its register file; it takes at most as many    *)
(* steps as the slice has instructions, and no more than the limit allows.   *)
THEOREM ExecutionInBounds == Spec => []RunInBounds
<1>1. IInv => RunInBounds
  BY DEF IInv, TypeOK, StepInv, RunInBounds
<1> QED
  BY <1>1, Invariance, PTL


---------------------------------------------------------------------------
(* Paths.  PathsTo is a recursive function; that it satisfies its equation *)
(* at all is shown by least counterexample.                                *)

LEMMA Least ==
  ASSUME NEW T, T \subseteq Nat, T # {}
  PROVE  \E x \in T : \A y \in T : x <= y
<1> DEFINE R == OpToRel(<, Nat)
<1>1. IsWellFoundedOn(R, Nat)
  BY NatLessThanWellFounded
<1>2. PICK x \in T : \A y \in T : ~(<<y, x>> \in R)
  <2> HIDE DEF R
  <2> QED
    BY <1>1, WFMin
<1>3. \A y \in T : x <= y
  <2> TAKE y \in T
  <2>1. x \in Nat /\ y \in Nat
    OBVIOUS
  <2>2. ~(y < x)
    BY <1>2, <2>1 DEF OpToRel
  <2> QED
    BY <2>1, <2>2
<1> QED
  BY <1>3

(* The body of PathsTo. *)
Step(at, k) ==
  IF k = lo THEN {{}}
  ELSE UNION {{s \cup Writes(code[j]) : s \in at[j]} :
                j \in {i \in lo..k - 1 : k \in Successors(code[i], i)}}

(* f satisfies the equation up to n. *)
Fix(f, n) == f = [k \in lo..n |-> Step(f, k)]

(* The body asks for smaller arguments only. *)
LEMMA StepLocal ==
  ASSUME NEW f, NEW g, NEW k, \A j \in lo..k - 1 : f[j] = g[j]
  PROVE  Step(f, k) = Step(g, k)
<1> DEFINE J == {i \in lo..k - 1 : k \in Successors(code[i], i)}
           F(j) == {s \cup Writes(code[j]) : s \in f[j]}
           G(j) == {s \cup Writes(code[j]) : s \in g[j]}
<1>1. \A j \in J : F(j) = G(j)
  OBVIOUS
<1>2. {F(j) : j \in J} = {G(j) : j \in J}
  <2> HIDE DEF F, G, J
  <2> QED BY <1>1
<1>3. Step(f, k) = IF k = lo THEN {{}} ELSE UNION {F(j) : j \in J}
  BY Zenon DEF Step
<1>4. Step(g, k) = IF k = lo THEN {{}} ELSE UNION {G(j) : j \in J}
  BY Zenon DEF Step
<1> QED
  BY <1>2, <1>3, <1>4

LEMMA FixExists ==
  ASSUME TypeOK
  PROVE  \A n \in lo..hi : \E f : Fix(f, n)
<1> DEFINE T == {n \in lo..hi : ~ \E f : Fix(f, n)}
<1>0. lo \in Nat /\ hi \in Nat /\ lo < hi
  BY DEF TypeOK
<1> SUFFICES ASSUME T # {} PROVE FALSE
  OBVIOUS
<1>1. PICK n \in T : \A y \in T : n <= y
  <2>1. T \subseteq Nat
    BY <1>0
  <2> HIDE DEF T
  <2> QED
    BY <2>1, Least
<1>2. n \in lo..hi /\ ~ \E f : Fix(f, n)
  OBVIOUS
<1>3. \E f : \A j \in lo..n - 1 : f[j] = Step(f, j)
  <2>1. CASE n = lo
    BY <1>0, <2>1
  <2>2. CASE n # lo
    <3>1. n - 1 \in lo..hi /\ n - 1 \notin T
      BY <1>0, <1>1, <1>2, <2>2
    <3>2. PICK f : Fix(f, n - 1)
      BY <3>1
    <3> QED
      BY <3>2 DEF Fix
  <2> QED
    BY <2>1, <2>2
<1>4. PICK f : \A j \in lo..n - 1 : f[j] = Step(f, j)
  BY <1>3
<1> DEFINE g == [k \in lo..n |-> IF k < n THEN f[k] ELSE Step(f, n)]
<1>5. \A k \in lo..n : Step(g, k) = Step(f, k)
  <2> TAKE k \in lo..n
  <2>1. \A j \in lo..k - 1 : g[j] = f[j]
    BY <1>0, <1>2
  <2> HIDE DEF g
  <2> QED
    BY <2>1, StepLocal
<1>6. \A k \in lo..n : g[k] = Step(g, k)
  <2> TAKE k \in lo..n
  <2>1. CASE k < n
    <3>1. k \in lo..n - 1
      BY <1>0, <1>2, <2>1
    <3> QED
      BY <1>4, <1>5, <2>1, <3>1
  <2>2. CASE ~(k < n)
    <3>1. k = n
      BY <1>0, <1>2, <2>2
    <3> QED
      BY <1>5, <3>1
  <2> QED
    BY <2>1, <2>2
<1>7. Fix(g, n)
  <2>1. g = [k \in lo..n |-> g[k]]
    OBVIOUS
  <2> HIDE DEF g
  <2>2. [k \in lo..n |-> g[k]] = [k \in lo..n |-> Step(g, k)]
    BY <1>6
  <2> QED
    BY <2>1, <2>2 DEF Fix
<1> QED
  BY <1>2, <1>7

(* The defining equation of PathsTo. *)
LEMMA PathsUnfold ==
  ASSUME TypeOK
  PROVE  \A k \in lo..hi : PathsTo[k] = Step(PathsTo, k)
<1>1. PathsTo = CHOOSE f : Fix(f, hi)
  BY Zenon DEF PathsTo, Fix, Step
<1>2. \E f : Fix(f, hi)
  BY FixExists DEF TypeOK
<1>3. Fix(PathsTo, hi)
  BY <1>1, <1>2
<1> QED
  BY <1>3 DEF Fix

LEMMA PathsSame ==
  ASSUME UNCHANGED <<code, lo, hi>>
  PROVE  PathsTo' = PathsTo
BY SMT DEF PathsTo

(* The paths through instruction j, after it. *)
Along(j) == {s \cup Writes(code[j]) : s \in PathsTo[j]}

(* The paths to k whose last instruction lies before n. *)
Via(k, n) ==
  (IF k = lo THEN {{}} ELSE {}) \cup
  UNION {Along(j) : j \in {i \in lo..n - 1 : k \in Successors(code[i], i)}}

(* The tables are exact for the paths to k found so far. *)
Judged(k) ==
  /\ k \in reachable <=> Via(k, pc) # {}
  /\ k \in reachable => \A r \in Nat : r \in states[k] <=> \A s \in Via(k, pc) : r \in s

ExactInv == phase = "flow" => \A k \in pc..hi : Judged(k)

LEMMA ViaAll ==
  ASSUME TypeOK, NEW k \in lo..hi
  PROVE  PathsTo[k] = Via(k, k)
<1>0. lo \in Nat /\ hi \in Nat /\ k \in Nat
  BY DEF TypeOK
<1>1. PathsTo[k] = Step(PathsTo, k)
  BY PathsUnfold
<1> DEFINE J == {i \in lo..k - 1 : k \in Successors(code[i], i)}
<1>2. Step(PathsTo, k) = IF k = lo THEN {{}} ELSE UNION {Along(j) : j \in J}
  BY Zenon DEF Step, Along
<1>3. Via(k, k) = (IF k = lo THEN {{}} ELSE {}) \cup UNION {Along(j) : j \in J}
  BY Zenon DEF Via
<1>4. k = lo => J = {}
  BY <1>0
<1> HIDE DEF J
<1>5. CASE k = lo
  BY <1>1, <1>2, <1>3, <1>4, <1>5
<1>6. CASE k # lo
  BY <1>1, <1>2, <1>3, <1>6
<1> QED
  BY <1>5, <1>6

LEMMA ViaNext ==
  ASSUME TypeOK, NEW k, NEW n \in lo..hi
  PROVE  Via(k, n + 1) = Via(k, n) \cup IF k \in Successors(code[n], n) THEN Along(n) ELSE {}
<1>0. lo \in Nat /\ hi \in Nat /\ n \in Nat
  BY DEF TypeOK
<1> DEFINE J == {i \in lo..n - 1 : k \in Successors(code[i], i)}
           K == {i \in lo..(n + 1) - 1 : k \in Successors(code[i], i)}
<1>1. lo..(n + 1) - 1 = (lo..n - 1) \cup {n}
  BY <1>0
<1>2. K = J \cup (IF k \in Successors(code[n], n) THEN {n} ELSE {})
  BY <1>1
<1>3. Via(k, n) = (IF k = lo THEN {{}} ELSE {}) \cup UNION {Along(j) : j \in J}
  BY Zenon DEF Via
<1>4. Via(k, n + 1) = (IF k = lo THEN {{}} ELSE {}) \cup UNION {Along(j) : j \in K}
  BY Zenon DEF Via
<1> HIDE DEF J, K
<1>5. CASE k \in Successors(code[n], n)
  <2>1. K = J \cup {n}
    BY <1>2, <1>5
  <2>2. UNION {Along(j) : j \in K} = (UNION {Along(j) : j \in J}) \cup Along(n)
    BY <2>1
  <2> QED
    BY <1>3, <1>4, <1>5, <2>2
<1>6. CASE k \notin Successors(code[n], n)
  BY <1>2, <1>3, <1>4, <1>6
<1> QED
  BY <1>5, <1>6

LEMMA ViaSame ==
  ASSUME UNCHANGED <<code, lo, hi>>, NEW k, NEW n
  PROVE  Via(k, n)' = Via(k, n)
<1>1. PathsTo' = PathsTo
  BY PathsSame
<1>2. \A j : Along(j)' = Along(j)
  BY <1>1 DEF Along
<1> QED
  BY <1>2 DEF Via

LEMMA ExactStart ==
  ASSUME TypeOK, NEW k \in lo..hi
  PROVE  Via(k, lo) = IF k = lo THEN {{}} ELSE {}
<1>1. lo..lo - 1 = {}
  BY DEF TypeOK
<1> QED
  BY <1>1 DEF Via

LEMMA VerifyExact == IInv /\ IInv' /\ Verify => ExactInv'
<1> SUFFICES ASSUME IInv, IInv', Verify, phase' = "flow" PROVE (\A k \in pc..hi : Judged(k))'
  BY DEF ExactInv
<1>1. /\ pc' = lo /\ reachable' = {lo} /\ states' = [k \in lo..hi |-> {}]
      /\ UNCHANGED <<code, lo, hi>>
  BY DEF Verify, Finish
<1> SUFFICES ASSUME NEW k \in lo..hi PROVE Judged(k)'
  BY <1>1
<1>2. Via(k, lo)' = Via(k, lo)
  BY <1>1, ViaSame
<1>3. Via(k, pc)' = IF k = lo THEN {{}} ELSE {}
  <2>1. Via(k, lo) = IF k = lo THEN {{}} ELSE {}
    BY ExactStart DEF IInv
  <2>2. Via(k, pc)' = Via(k, lo)'
    BY <1>1 DEF Via
  <2> QED
    BY <1>2, <2>1, <2>2
<1> QED
  BY <1>1, <1>3 DEF Judged

LEMMA FlowStepExact == IInv /\ ExactInv /\ FlowStep => ExactInv'
<1> SUFFICES ASSUME IInv, ExactInv, FlowStep, phase' = "flow" PROVE (\A k \in pc..hi : Judged(k))'
  BY DEF ExactInv
<1>1. /\ UNCHANGED <<code, lo, hi>> /\ pc' = pc + 1 /\ phase = "flow" /\ pc < hi
      /\ \A k \in pc..hi : Judged(k)
  BY DEF FlowStep, Finish, ExactInv
<1>2. /\ TypeOK /\ pc \in lo..hi - 1 /\ lo \in Nat /\ hi \in Nat /\ pc \in Nat
      /\ JumpValid(code[pc], pc) /\ states \in [lo..hi -> SUBSET Nat]
  BY <1>1 DEF IInv, TypeOK, FlowInv, FlowedTo, WellFormed
<1> SUFFICES ASSUME NEW k \in pc + 1..hi PROVE Judged(k)'
  BY <1>1
<1>3. k \in pc..hi /\ pc \in pc..hi /\ pc \in lo..hi /\ k \in lo..hi
  BY <1>2
<1>4. Judged(k) /\ Judged(pc) /\ PathsTo[pc] = Via(pc, pc)
  BY <1>1, <1>2, <1>3, ViaAll
<1>5. Via(k, pc)' = Via(k, pc) \cup IF k \in Successors(code[pc], pc) THEN Along(pc) ELSE {}
  <2>1. PICK n : n = pc + 1
    OBVIOUS
  <2>2. Via(k, pc)' = Via(k, n)'
    BY <1>1, <2>1 DEF Via
  <2>3. Via(k, n)' = Via(k, n)
    BY <1>1, ViaSame
  <2> QED
    BY <1>2, <1>3, <2>1, <2>2, <2>3, ViaNext
<1>6. CASE pc \notin reachable
  <2>1. UNCHANGED <<states, reachable>>
    BY <1>6 DEF FlowStep, Finish
  <2>2. PathsTo[pc] = {}
    BY <1>4, <1>6 DEF Judged
  <2>3. Along(pc) = {}
    BY <2>2 DEF Along
  <2>4. Via(k, pc)' = Via(k, pc)
    BY <1>5, <2>3
  <2> QED
    BY <1>4, <2>1, <2>4 DEF Judged
<1>7. CASE pc \in reachable
  <2> DEFINE succ == Successors(code[pc], pc)
             w == Writes(code[pc])
  <2>1. /\ reachable' = reachable \cup succ
        /\ states' = Merge(states, reachable, succ, states[pc] \cup w)
    BY <1>1, <1>7 DEF FlowStep, Finish
  <2>2. /\ PathsTo[pc] # {}
        /\ \A r \in Nat : r \in states[pc] <=> \A s \in PathsTo[pc] : r \in s
    BY <1>4, <1>7 DEF Judged
  <2>3. /\ Along(pc) # {}
        /\ \A r \in Nat : r \in states[pc] \cup w <=> \A s \in Along(pc) : r \in s
    <3>1. Along(pc) = {s \cup w : s \in PathsTo[pc]}
      BY DEF Along
    <3> HIDE DEF w
    <3>2. Along(pc) # {}
      <4>1. PICK s : s \in PathsTo[pc]
        BY <2>2
      <4>2. s \cup w \in Along(pc)
        BY <3>1, <4>1
      <4> QED
        BY <4>2
    <3>3. ASSUME NEW r \in Nat
          PROVE  r \in states[pc] \cup w <=> \A s \in Along(pc) : r \in s
      <4>1. (\A s \in Along(pc) : r \in s) <=> \A s \in PathsTo[pc] : r \in s \cup w
        BY <3>1
      <4>2. (\A s \in PathsTo[pc] : r \in s \cup w) <=> r \in w \/ \A s \in PathsTo[pc] : r \in s
        BY <2>2
      <4> QED
        BY <2>2, <4>1, <4>2
    <3> QED
      BY <3>2, <3>3
  <2>4. states'[k] = IF k \notin succ THEN states[k]
                     ELSE IF k \in reachable THEN states[k] \cap (states[pc] \cup w)
                     ELSE states[pc] \cup w
    <3> HIDE DEF succ, w
    <3> QED
      BY <1>3, <2>1 DEF Merge
  <2>5. Via(k, pc)' = Via(k, pc) \cup IF k \in succ THEN Along(pc) ELSE {}
    BY <1>5
  <2> HIDE DEF succ, w
  <2>6. CASE k \notin succ
    BY <1>4, <2>1, <2>4, <2>5, <2>6 DEF Judged
  <2>7. CASE k \in succ /\ k \notin reachable
    <3>1. Via(k, pc) = {}
      BY <1>4, <2>7 DEF Judged
    <3>2. Via(k, pc)' = Along(pc) /\ states'[k] = states[pc] \cup w /\ k \in reachable'
      BY <2>1, <2>4, <2>5, <2>7, <3>1
    <3> QED
      BY <2>3, <3>2 DEF Judged
  <2>8. CASE k \in succ /\ k \in reachable
    <3>1. /\ Via(k, pc)' = Via(k, pc) \cup Along(pc) /\ k \in reachable'
          /\ states'[k] = states[k] \cap (states[pc] \cup w)
      BY <2>1, <2>4, <2>5, <2>8
    <3>2. \A r \in Nat : r \in states[k] <=> \A s \in Via(k, pc) : r \in s
      BY <1>4, <2>8 DEF Judged
    <3>3. \A r \in Nat : r \in states'[k] <=> \A s \in Via(k, pc) \cup Along(pc) : r \in s
      BY <2>3, <3>1, <3>2
    <3> QED
      BY <2>3, <3>1, <3>3 DEF Judged
  <2> QED
    BY <2>6, <2>7, <2>8
<1> QED
  BY <1>6, <1>7

(* At every instruction the dataflow loop has not come to, the tables of   *)
(* qvm_verify_slice_ex are exact for the paths through those it has.       *)
THEOREM ExactHolds == Spec => []ExactInv
<1>1. Init => ExactInv
  BY DEF Init, ExactInv
<1>2. IInv /\ IInv' /\ ExactInv /\ [Next]_vars => ExactInv'
  <2> SUFFICES ASSUME IInv, IInv', ExactInv, [Next]_vars PROVE ExactInv'
    OBVIOUS
  <2>1. CASE UNCHANGED vars
    <3>1. UNCHANGED <<code, lo, hi, phase, pc, reachable, states>>
      BY <2>1 DEF vars
    <3>2. \A k : Via(k, pc)' = Via(k, pc)
      <4> TAKE k
      <4>1. Via(k, pc)' = Via(k, pc)
        BY <3>1, ViaSame
      <4> QED
        BY <4>1
    <3> QED
      BY <3>1, <3>2 DEF ExactInv, Judged
  <2>2. CASE FlowEnd \/ Execute \/ Refuse \/ BackendError \/ RunSingle \/ Run \/ Halt
    <3>1. phase' # "flow"
      BY <2>2 DEF FlowEnd, Execute, Refuse, BackendError, RunSingle, Run, Halt, Finish
    <3> QED
      BY <3>1 DEF ExactInv
  <2> QED
    BY <2>1, <2>2, VerifyExact, FlowStepExact DEF Next
<1> QED
  BY <1>1, <1>2, Invariance, PTL DEF Spec

(* When qvm_verify_slice_ex judges an instruction, it takes it for          *)
(* reachable iff some path leads there, and a register for initialised iff  *)
(* every such path writes it.                                               *)
THEOREM VerifierExact == Spec => []ExactFlow
<1>1. IInv /\ ExactInv => ExactFlow
  <2> SUFFICES ASSUME IInv, ExactInv, phase = "flow"
               PROVE  /\ pc \in reachable <=> PathsTo[pc] # {}
                      /\ pc \in reachable => states[pc] = {r \in Nat \cap UNION PathsTo[pc] :
                                                             \A s \in PathsTo[pc] : r \in s}
    BY DEF ExactFlow
  <2>1. TypeOK /\ pc \in lo..hi /\ pc \in pc..hi /\ states[pc] \subseteq Nat
    BY DEF IInv, TypeOK
  <2>2. PathsTo[pc] = Via(pc, pc) /\ Judged(pc)
    BY <2>1, ViaAll DEF ExactInv
  <2>3. /\ pc \in reachable <=> PathsTo[pc] # {}
        /\ pc \in reachable => \A r \in Nat : r \in states[pc] <=> \A s \in PathsTo[pc] : r \in s
    BY <2>2 DEF Judged
  <2> QED
    BY <2>1, <2>3
<1> QED
  BY <1>1, Invariance, ExactHolds, PTL

(* A refusal by the dataflow names a real fault: a path to the instruction *)
(* that has not written a register it reads; at the end, no path at all or *)
(* one that leaves register 0 unwritten.                                   *)
RefusalJustified ==
  phase = "flow" /\ phase' = "end" =>
    IF pc < hi THEN \E s \in PathsTo[pc] : ~(Reads(code[pc]) \subseteq s)
    ELSE PathsTo[hi] = {} \/ \E s \in PathsTo[hi] : 0 \notin s

(* qvm_verify_slice_ex refuses no program that is safe on all its paths:   *)
(* what its dataflow refuses has a path that reads garbage.                *)
THEOREM RefusesOnlyFaulty == Spec => [][RefusalJustified]_vars
<1>1. IInv /\ ExactInv /\ [Next]_vars => [RefusalJustified]_vars
  <2> SUFFICES ASSUME IInv, ExactInv, Next, phase = "flow", phase' = "end"
               PROVE  IF pc < hi THEN \E s \in PathsTo[pc] : ~(Reads(code[pc]) \subseteq s)
                      ELSE PathsTo[hi] = {} \/ \E s \in PathsTo[hi] : 0 \notin s
    BY DEF RefusalJustified
  <2>1. TypeOK /\ pc \in lo..hi /\ pc \in pc..hi /\ lo \in Nat /\ hi \in Nat
    BY DEF IInv, TypeOK
  <2>2. PathsTo[pc] = Via(pc, pc) /\ Judged(pc)
    BY <2>1, ViaAll DEF ExactInv
  <2>3. /\ pc \in reachable <=> PathsTo[pc] # {}
        /\ pc \in reachable => \A r \in Nat : r \in states[pc] <=> \A s \in PathsTo[pc] : r \in s
    BY <2>2 DEF Judged
  <2>4. FlowStep \/ FlowEnd
    BY DEF Next, Verify, Execute, Refuse, BackendError, RunSingle, Run, Halt
  <2>5. CASE FlowStep
    <3>1. pc < hi /\ pc \in reachable /\ ~(Reads(code[pc]) \subseteq states[pc])
      BY <2>5 DEF FlowStep
    <3>2. Reads(code[pc]) \subseteq Nat
      BY <2>1, <3>1 DEF IInv, FlowInv, FlowedTo, WellFormed, RegistersValid, Registers
    <3> QED
      BY <2>3, <3>1, <3>2
  <2>6. CASE FlowEnd
    <3>1. pc = hi /\ ~(hi \in reachable /\ 0 \in states[hi])
      BY <2>6 DEF FlowEnd
    <3> QED
      BY <2>1, <2>3, <3>1
  <2> QED
    BY <2>4, <2>5, <2>6
<1> QED
  BY <1>1, Invariance, ExactHolds, PTL DEF Spec

============================================================================
