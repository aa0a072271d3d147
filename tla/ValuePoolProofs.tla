------------------------- MODULE ValuePoolProofs -------------------------
(***************************************************************************)
(* Proofs about ValuePool, for every set of threads, slots and addresses.  *)
(***************************************************************************)
EXTENDS ValuePool, TLAPS

(* Types are kept by every step; the bound on the attempts of a take needs  *)
(* that a claim is only made below it.                                      *)
LEMMA TypeStep ==
  ASSUME TypeOK, LocalsOK, NEW t \in Threads, Step(t) \/ Begin(t)
  PROVE  TypeOK'
<1> USE PoolAssumption DEF shared, takeLocals, GoTo, Clear, Rescan, TypeOK, LocalsOK, Labels, Claiming, Owning
<1>1. CASE NewCheck(t)
  BY <1>1 DEF NewCheck
<1>2. CASE NewMask(t)
  BY <1>2 DEF NewMask
<1>3. CASE Alloc(t)
  <2>1. pooled' \in [Threads -> BOOLEAN]
    BY <1>3, Zenon DEF Alloc
  <2>2. QED
    BY <1>3, <2>1 DEF Alloc
<1>4. CASE InitValue(t)
  BY <1>4 DEF InitValue
<1>5. CASE TakeLoad(t)
  BY <1>5 DEF TakeLoad
<1>6. CASE TakeClaim(t)
  BY <1>6 DEF TakeClaim
<1>7. CASE TakeRead(t)
  BY <1>7 DEF TakeRead
<1>8. CASE TakeCas(t)
  <2>1. CASE slots[at[t]] = seen[t]
    BY <1>8, <2>1 DEF TakeCas
  <2>2. CASE slots[at[t]] # seen[t]
    BY <1>8, <2>2 DEF TakeCas
  <2>3. QED
    BY <2>1, <2>2
<1>9. CASE ReleaseCheck(t)
  BY <1>9 DEF ReleaseCheck
<1>10. CASE PutLoad(t)
  BY <1>10 DEF PutLoad
<1>11. CASE PutCas(t)
  BY <1>11 DEF PutCas
<1>12. CASE Publish(t)
  BY <1>12 DEF Publish
<1>13. CASE FreeValue(t)
  BY <1>13 DEF FreeValue
<1>14. CASE EnableBegin(t)
  BY <1>14 DEF EnableBegin
<1>15. CASE OpenMask(t)
  BY <1>15 DEF OpenMask
<1>16. CASE Open(t)
  BY <1>16 DEF Open
<1>17. CASE OpenState(t)
  BY <1>17 DEF OpenState
<1>18. CASE DisableBegin(t)
  BY <1>18 DEF DisableBegin
<1>19. CASE Close(t)
  BY <1>19 DEF Close
<1>20. CASE CloseMask(t)
  BY <1>20 DEF CloseMask
<1>21. CASE Drain(t)
  BY <1>21 DEF Drain
<1>22. CASE \E v \in Values : Release(t, v)
  BY <1>22 DEF Release
<1>23. QED
  BY <1>1, <1>2, <1>3, <1>4, <1>5, <1>6, <1>7, <1>8, <1>9, <1>10, <1>11, <1>12, <1>13, <1>14, <1>15, <1>16, <1>17, <1>18, <1>19, <1>20, <1>21, <1>22 DEF Step, Begin

(* What the locals mean at each label is kept by every step of the thread    *)
(* they belong to and by the steps of the others.                            *)
LEMMA LocalsStep ==
  ASSUME TypeOK, LocalsOK, NEW t \in Threads, Step(t) \/ Begin(t)
  PROVE  LocalsOK'
<1> USE PoolAssumption DEF shared, takeLocals, GoTo, Clear, Rescan, TypeOK, LocalsOK, Labels, Claiming, Owning
<1>1. CASE NewCheck(t)
  BY <1>1 DEF NewCheck
<1>2. CASE NewMask(t)
  BY <1>2 DEF NewMask
<1>3. CASE Alloc(t)
  BY <1>3 DEF Alloc
<1>4. CASE InitValue(t)
  BY <1>4 DEF InitValue
<1>5. CASE TakeLoad(t)
  BY <1>5 DEF TakeLoad
<1>6. CASE TakeClaim(t)
  BY <1>6 DEF TakeClaim
<1>7. CASE TakeRead(t)
  BY <1>7 DEF TakeRead
<1>8. CASE TakeCas(t)
  BY <1>8 DEF TakeCas
<1>9. CASE ReleaseCheck(t)
  BY <1>9 DEF ReleaseCheck
<1>10. CASE PutLoad(t)
  BY <1>10 DEF PutLoad
<1>11. CASE PutCas(t)
  BY <1>11 DEF PutCas
<1>12. CASE Publish(t)
  BY <1>12 DEF Publish
<1>13. CASE FreeValue(t)
  BY <1>13 DEF FreeValue
<1>14. CASE EnableBegin(t)
  BY <1>14 DEF EnableBegin
<1>15. CASE OpenMask(t)
  BY <1>15 DEF OpenMask
<1>16. CASE Open(t)
  BY <1>16 DEF Open
<1>17. CASE OpenState(t)
  BY <1>17 DEF OpenState
<1>18. CASE DisableBegin(t)
  BY <1>18 DEF DisableBegin
<1>19. CASE Close(t)
  BY <1>19 DEF Close
<1>20. CASE CloseMask(t)
  BY <1>20 DEF CloseMask
<1>21. CASE Drain(t)
  BY <1>21 DEF Drain
<1>22. CASE \E v \in Values : Release(t, v)
  BY <1>22 DEF Release
<1>23. QED
  BY <1>1, <1>2, <1>3, <1>4, <1>5, <1>6, <1>7, <1>8, <1>9, <1>10, <1>11, <1>12, <1>13, <1>14, <1>15, <1>16, <1>17, <1>18, <1>19, <1>20, <1>21, <1>22 DEF Step, Begin

(* A control call finds the slots as the policy says and visits each once:   *)
(* no take or put opens or closes a slot behind its back.                    *)
LEMMA ControlStep ==
  ASSUME TypeOK, LocalsOK, ControlOK, SlotsMatchPolicy, NEW t \in Threads, Step(t) \/ Begin(t)
  PROVE  ControlOK'
<1> USE PoolAssumption DEF shared, takeLocals, GoTo, Clear, Rescan, TypeOK, LocalsOK, ControlOK, SlotsMatchPolicy, Labels, Controlling, Owning
<1>1. CASE NewCheck(t)
  BY <1>1 DEF NewCheck
<1>2. CASE NewMask(t)
  BY <1>2 DEF NewMask
<1>3. CASE Alloc(t)
  BY <1>3 DEF Alloc
<1>4. CASE InitValue(t)
  BY <1>4 DEF InitValue
<1>5. CASE TakeLoad(t)
  BY <1>5 DEF TakeLoad
<1>6. CASE TakeClaim(t)
  BY <1>6 DEF TakeClaim
<1>7. CASE TakeRead(t)
  BY <1>7 DEF TakeRead
<1>8. CASE TakeCas(t)
  BY <1>8 DEF TakeCas
<1>9. CASE ReleaseCheck(t)
  BY <1>9 DEF ReleaseCheck
<1>10. CASE PutLoad(t)
  BY <1>10 DEF PutLoad
<1>11. CASE PutCas(t)
  BY <1>11 DEF PutCas
<1>12. CASE Publish(t)
  BY <1>12 DEF Publish
<1>13. CASE FreeValue(t)
  BY <1>13 DEF FreeValue
<1>14. CASE EnableBegin(t)
  BY <1>14 DEF EnableBegin
<1>15. CASE OpenMask(t)
  BY <1>15 DEF OpenMask
<1>16. CASE Open(t)
  BY <1>16 DEF Open
<1>17. CASE OpenState(t)
  BY <1>17 DEF OpenState
<1>18. CASE DisableBegin(t)
  BY <1>18 DEF DisableBegin
<1>19. CASE Close(t)
  BY <1>19 DEF Close
<1>20. CASE CloseMask(t)
  BY <1>20 DEF CloseMask
<1>21. CASE Drain(t)
  BY <1>21 DEF Drain
<1>22. CASE \E v \in Values : Release(t, v)
  BY <1>22 DEF Release
<1>23. QED
  BY <1>1, <1>2, <1>3, <1>4, <1>5, <1>6, <1>7, <1>8, <1>9, <1>10, <1>11, <1>12, <1>13, <1>14, <1>15, <1>16, <1>17, <1>18, <1>19, <1>20, <1>21, <1>22 DEF Step, Begin

(* When a control call lets the mutex go, the slots agree with the policy.   *)
LEMMA PolicyStep ==
  ASSUME TypeOK, LocalsOK, ControlOK, SlotsMatchPolicy, NEW t \in Threads, Step(t) \/ Begin(t)
  PROVE  SlotsMatchPolicy'
<1> USE PoolAssumption DEF shared, takeLocals, GoTo, Clear, Rescan, TypeOK, LocalsOK, ControlOK, SlotsMatchPolicy, Labels, Controlling, Owning
<1>1. CASE NewCheck(t)
  BY <1>1 DEF NewCheck
<1>2. CASE NewMask(t)
  BY <1>2 DEF NewMask
<1>3. CASE Alloc(t)
  BY <1>3 DEF Alloc
<1>4. CASE InitValue(t)
  BY <1>4 DEF InitValue
<1>5. CASE TakeLoad(t)
  BY <1>5 DEF TakeLoad
<1>6. CASE TakeClaim(t)
  BY <1>6 DEF TakeClaim
<1>7. CASE TakeRead(t)
  BY <1>7 DEF TakeRead
<1>8. CASE TakeCas(t)
  BY <1>8 DEF TakeCas
<1>9. CASE ReleaseCheck(t)
  BY <1>9 DEF ReleaseCheck
<1>10. CASE PutLoad(t)
  BY <1>10 DEF PutLoad
<1>11. CASE PutCas(t)
  BY <1>11 DEF PutCas
<1>12. CASE Publish(t)
  BY <1>12 DEF Publish
<1>13. CASE FreeValue(t)
  BY <1>13 DEF FreeValue
<1>14. CASE EnableBegin(t)
  BY <1>14 DEF EnableBegin
<1>15. CASE OpenMask(t)
  BY <1>15 DEF OpenMask
<1>16. CASE Open(t)
  BY <1>16 DEF Open
<1>17. CASE OpenState(t)
  BY <1>17 DEF OpenState
<1>18. CASE DisableBegin(t)
  BY <1>18 DEF DisableBegin
<1>19. CASE Close(t)
  BY <1>19 DEF Close
<1>20. CASE CloseMask(t)
  BY <1>20 DEF CloseMask
<1>21. CASE Drain(t)
  BY <1>21 DEF Drain
<1>22. CASE \E v \in Values : Release(t, v)
  BY <1>22 DEF Release
<1>23. QED
  BY <1>1, <1>2, <1>3, <1>4, <1>5, <1>6, <1>7, <1>8, <1>9, <1>10, <1>11, <1>12, <1>13, <1>14, <1>15, <1>16, <1>17, <1>18, <1>19, <1>20, <1>21, <1>22 DEF Step, Begin

(* Ownership moves, and never doubles.  Only the compare-exchanges of a take *)
(* and a put change both a slot and a thread; they are split out.            *)
LEMMA ExclusiveStep ==
  ASSUME TypeOK, LocalsOK, Exclusive, NEW t \in Threads, Step(t) \/ Begin(t)
  PROVE  Exclusive'
<1> USE PoolAssumption DEF shared, takeLocals, GoTo, Clear, Rescan, TypeOK, LocalsOK, Exclusive, Owning, Claiming
<1>1. CASE NewCheck(t)
  BY <1>1 DEF NewCheck
<1>2. CASE NewMask(t)
  BY <1>2 DEF NewMask
<1>3. CASE Alloc(t)
  BY <1>3 DEF Alloc
<1>4. CASE InitValue(t)
  BY <1>4 DEF InitValue
<1>5. CASE TakeLoad(t)
  BY <1>5 DEF TakeLoad
<1>6. CASE TakeClaim(t)
  BY <1>6 DEF TakeClaim
<1>7. CASE TakeRead(t)
  BY <1>7 DEF TakeRead
<1>8. CASE TakeCas(t)
  <2>1. CASE slots[at[t]] # seen[t]
    BY <1>8, <2>1 DEF TakeCas
  <2>2. CASE slots[at[t]] = seen[t]
    <3>1. /\ at[t] \in Slots /\ seen[t] \in Values
          /\ slots' = [slots EXCEPT ![at[t]] = Empty]
          /\ val' = [val EXCEPT ![t] = seen[t]]
          /\ UNCHANGED <<heap, live, nodes>>
      BY <1>8, <2>2 DEF TakeCas
    <3>2. \A s \in Slots : slots'[s] = slots[s] \/ slots'[s] = Empty
      BY <3>1
    <3>3. \A s \in Slots : slots'[s] # seen[t]
      BY <2>2, <3>1
    <3>4. \A u \in Threads : val[u] # seen[t] /\ seen[t] \notin nodes[u]
      BY <2>2, <3>1
    <3>5. /\ val'[t] = seen[t] /\ seen[t] \notin heap \cup live
          /\ \A u \in Threads \ {t} : val'[u] = val[u]
      BY <2>2, <3>1
    <3>6. QED
      BY <3>1, <3>2, <3>3, <3>4, <3>5
  <2>3. QED
    BY <2>1, <2>2
<1>9. CASE ReleaseCheck(t)
  BY <1>9 DEF ReleaseCheck
<1>10. CASE PutLoad(t)
  BY <1>10 DEF PutLoad
<1>11. CASE PutCas(t)
  <2>1. CASE UNCHANGED <<slots, val>>
    BY <1>11, <2>1 DEF PutCas
  <2>2. CASE ~UNCHANGED <<slots, val>>
    <3>1. PICK r \in Slots : /\ slots[r] = Empty
                             /\ slots' = [slots EXCEPT ![r] = val[t]]
                             /\ val' = [val EXCEPT ![t] = Empty]
      BY <1>11, <2>2 DEF PutCas
    <3>2. val[t] \in Values /\ UNCHANGED <<heap, live, nodes>>
      BY <1>11 DEF PutCas
    <3>3. /\ slots'[r] = val[t]
          /\ \A s \in Slots \ {r} : slots'[s] = slots[s] /\ slots[s] # val[t]
      BY <3>1, <3>2
    <3>4. /\ val'[t] = Empty
          /\ \A u \in Threads \ {t} : val'[u] = val[u] /\ val[u] # val[t]
      BY <3>1, <3>2
    <3>5. \A s, q \in Slots : s # q => slots'[s] # slots'[q] \/ slots'[s] \notin Values
      BY <3>3
    <3>6. \A s \in Slots, u \in Threads :
            /\ slots'[s] \notin heap \cup live
            /\ val'[u] # slots'[s] \/ val'[u] = Empty
            /\ slots'[s] \notin nodes[u]
      BY <3>2, <3>3, <3>4
    <3>7. \A u \in Threads :
            /\ val'[u] \notin heap \cup live
            /\ \A w \in Threads : val'[u] \notin nodes[w]
            /\ \A w \in Threads \ {u} : val'[u] = Empty \/ val'[u] # val'[w]
      BY <3>4
    <3>8. QED
      BY <3>2, <3>5, <3>6, <3>7
  <2>3. QED
    BY <2>1, <2>2
<1>12. CASE Publish(t)
  BY <1>12 DEF Publish
<1>13. CASE FreeValue(t)
  BY <1>13 DEF FreeValue
<1>14. CASE EnableBegin(t)
  BY <1>14 DEF EnableBegin
<1>15. CASE OpenMask(t)
  BY <1>15 DEF OpenMask
<1>16. CASE Open(t)
  BY <1>16 DEF Open
<1>17. CASE OpenState(t)
  BY <1>17 DEF OpenState
<1>18. CASE DisableBegin(t)
  BY <1>18 DEF DisableBegin
<1>19. CASE Close(t)
  BY <1>19 DEF Close
<1>20. CASE CloseMask(t)
  BY <1>20 DEF CloseMask
<1>21. CASE Drain(t)
  BY <1>21 DEF Drain
<1>22. CASE \E v \in Values : Release(t, v)
  BY <1>22 DEF Release
<1>23. QED
  BY <1>1, <1>2, <1>3, <1>4, <1>5, <1>6, <1>7, <1>8, <1>9, <1>10, <1>11, <1>12, <1>13, <1>14, <1>15, <1>16, <1>17, <1>18, <1>19, <1>20, <1>21, <1>22 DEF Step, Begin

(* No step drops a value.                                                    *)
LEMMA NoLeakStep ==
  ASSUME TypeOK, LocalsOK, NoLeak, NEW t \in Threads, Step(t) \/ Begin(t)
  PROVE  NoLeak'
<1> USE PoolAssumption DEF shared, takeLocals, GoTo, Clear, Rescan, TypeOK, LocalsOK, NoLeak, Slotted, Carried, Owning
<1>1. CASE NewCheck(t)
  BY <1>1 DEF NewCheck
<1>2. CASE NewMask(t)
  BY <1>2 DEF NewMask
<1>3. CASE Alloc(t)
  BY <1>3 DEF Alloc
<1>4. CASE InitValue(t)
  BY <1>4 DEF InitValue
<1>5. CASE TakeLoad(t)
  BY <1>5 DEF TakeLoad
<1>6. CASE TakeClaim(t)
  BY <1>6 DEF TakeClaim
<1>7. CASE TakeRead(t)
  BY <1>7 DEF TakeRead
<1>8. CASE TakeCas(t)
  BY <1>8 DEF TakeCas
<1>9. CASE ReleaseCheck(t)
  BY <1>9 DEF ReleaseCheck
<1>10. CASE PutLoad(t)
  BY <1>10 DEF PutLoad
<1>11. CASE PutCas(t)
  BY <1>11 DEF PutCas
<1>12. CASE Publish(t)
  BY <1>12 DEF Publish
<1>13. CASE FreeValue(t)
  BY <1>13 DEF FreeValue
<1>14. CASE EnableBegin(t)
  BY <1>14 DEF EnableBegin
<1>15. CASE OpenMask(t)
  BY <1>15 DEF OpenMask
<1>16. CASE Open(t)
  BY <1>16 DEF Open
<1>17. CASE OpenState(t)
  BY <1>17 DEF OpenState
<1>18. CASE DisableBegin(t)
  BY <1>18 DEF DisableBegin
<1>19. CASE Close(t)
  BY <1>19 DEF Close
<1>20. CASE CloseMask(t)
  BY <1>20 DEF CloseMask
<1>21. CASE Drain(t)
  BY <1>21 DEF Drain
<1>22. CASE \E v \in Values : Release(t, v)
  BY <1>22 DEF Release
<1>23. QED
  BY <1>1, <1>2, <1>3, <1>4, <1>5, <1>6, <1>7, <1>8, <1>9, <1>10, <1>11, <1>12, <1>13, <1>14, <1>15, <1>16, <1>17, <1>18, <1>19, <1>20, <1>21, <1>22 DEF Step, Begin

(* A ready bit is cleared only by a take that then reads the slot, or when   *)
(* every slot is closed.                                                     *)
LEMMA StrandedStep ==
  ASSUME TypeOK, LocalsOK, ControlOK, NoStrandedValue, NEW t \in Threads, Step(t) \/ Begin(t)
  PROVE  NoStrandedValue'
<1> USE PoolAssumption DEF shared, takeLocals, GoTo, Clear, Rescan, TypeOK, LocalsOK, ControlOK, NoStrandedValue, Claiming, Owning
<1>1. CASE NewCheck(t)
  BY <1>1 DEF NewCheck
<1>2. CASE NewMask(t)
  BY <1>2 DEF NewMask
<1>3. CASE Alloc(t)
  BY <1>3 DEF Alloc
<1>4. CASE InitValue(t)
  BY <1>4 DEF InitValue
<1>5. CASE TakeLoad(t)
  BY <1>5 DEF TakeLoad
<1>6. CASE TakeClaim(t)
  BY <1>6 DEF TakeClaim
<1>7. CASE TakeRead(t)
  BY <1>7 DEF TakeRead
<1>8. CASE TakeCas(t)
  BY <1>8 DEF TakeCas
<1>9. CASE ReleaseCheck(t)
  BY <1>9 DEF ReleaseCheck
<1>10. CASE PutLoad(t)
  BY <1>10 DEF PutLoad
<1>11. CASE PutCas(t)
  BY <1>11 DEF PutCas
<1>12. CASE Publish(t)
  BY <1>12 DEF Publish
<1>13. CASE FreeValue(t)
  BY <1>13 DEF FreeValue
<1>14. CASE EnableBegin(t)
  BY <1>14 DEF EnableBegin
<1>15. CASE OpenMask(t)
  BY <1>15 DEF OpenMask
<1>16. CASE Open(t)
  BY <1>16 DEF Open
<1>17. CASE OpenState(t)
  BY <1>17 DEF OpenState
<1>18. CASE DisableBegin(t)
  BY <1>18 DEF DisableBegin
<1>19. CASE Close(t)
  BY <1>19 DEF Close
<1>20. CASE CloseMask(t)
  BY <1>20 DEF CloseMask
<1>21. CASE Drain(t)
  BY <1>21 DEF Drain
<1>22. CASE \E v \in Values : Release(t, v)
  BY <1>22 DEF Release
<1>23. QED
  BY <1>1, <1>2, <1>3, <1>4, <1>5, <1>6, <1>7, <1>8, <1>9, <1>10, <1>11, <1>12, <1>13, <1>14, <1>15, <1>16, <1>17, <1>18, <1>19, <1>20, <1>21, <1>22 DEF Step, Begin

(* The initial state satisfies the inductive invariant. *)
LEMMA InvInit == Init => Inv
<1> SUFFICES ASSUME Init PROVE Inv
  OBVIOUS
<1> USE PoolAssumption DEF Init
<1>1. TypeOK
  BY DEF TypeOK, Labels
<1>2. LocalsOK /\ ControlOK
  BY DEF LocalsOK, ControlOK, Owning, Claiming, Controlling
<1>3. Exclusive /\ NoLeak
  BY DEF Exclusive, NoLeak, Slotted, Carried
<1>4. NoStrandedValue /\ SlotsMatchPolicy
  BY DEF NoStrandedValue, SlotsMatchPolicy
<1>5. QED
  BY <1>1, <1>2, <1>3, <1>4 DEF Inv

(* Every step, and stuttering, keeps the inductive invariant. *)
LEMMA InvNext == Inv /\ [Next]_vars => Inv'
<1> SUFFICES ASSUME Inv, [Next]_vars PROVE Inv'
  OBVIOUS
<1>1. CASE Next
  <2>1. PICK t \in Threads : Step(t) \/ Begin(t)
    BY <1>1 DEF Next
  <2>2. TypeOK' /\ LocalsOK'
    BY <2>1, TypeStep, LocalsStep DEF Inv
  <2>3. ControlOK' /\ SlotsMatchPolicy'
    BY <2>1, ControlStep, PolicyStep DEF Inv
  <2>4. Exclusive' /\ NoLeak'
    BY <2>1, ExclusiveStep, NoLeakStep DEF Inv
  <2>5. NoStrandedValue'
    BY <2>1, StrandedStep DEF Inv
  <2>6. QED
    BY <2>2, <2>3, <2>4, <2>5 DEF Inv
<1>2. CASE UNCHANGED vars
  BY <1>2 DEF vars, Inv, TypeOK, LocalsOK, ControlOK, Exclusive, NoLeak, Slotted, Carried,
              NoStrandedValue, SlotsMatchPolicy
<1>3. QED
  BY <1>1, <1>2

(* The inductive invariant holds throughout. *)
THEOREM PoolInvariant == Spec => []Inv
<1>1. QED
  BY InvInit, InvNext, PTL DEF Spec

(* TypeOK holds for every number of threads, slots and addresses: in         *)
(* particular a take makes at most MaxAttempts attempts.                     *)
THEOREM PoolTypes == Spec => []TypeOK
<1>1. Inv => TypeOK
  BY DEF Inv
<1>2. QED
  BY <1>1, PoolInvariant, PTL

(* value_pool_take never hands a value out twice, and neither a put nor a    *)
(* disable frees one that somebody holds, under any interleaving.            *)
THEOREM PoolExclusive == Spec => []Exclusive
<1>1. Inv => Exclusive
  BY DEF Inv
<1>2. QED
  BY <1>1, PoolInvariant, PTL

(* No interleaving of takes, puts and control calls loses a value.           *)
THEOREM PoolNoLeak == Spec => []NoLeak
<1>1. Inv => NoLeak
  BY DEF Inv
<1>2. QED
  BY <1>1, PoolInvariant, PTL

(* No interleaving leaves a pooled value without a ready bit and without a   *)
(* call under way that sets the bit or takes the value.                      *)
THEOREM PoolNoStrandedValue == Spec => []NoStrandedValue
<1>1. Inv => NoStrandedValue
  BY DEF Inv
<1>2. QED
  BY <1>1, PoolInvariant, PTL

(* A finished disable leaves every slot closed and empty of values, a        *)
(* finished enable leaves none closed, whatever late puts and takes do.      *)
THEOREM PoolSlotsMatchPolicy == Spec => []SlotsMatchPolicy
<1>1. Inv => SlotsMatchPolicy
  BY DEF Inv
<1>2. QED
  BY <1>1, PoolInvariant, PTL

---------------------------------------------------------------------------
(* The lock-free pool implements ValueTransfer, for every set of threads,  *)
(* slots and addresses.                                                    *)

(* The refinement mapping of carried and closed. *)
Held == [t \in Threads |-> ({val[t]} \cap Values) \cup nodes[t]]
Shut == \A s \in Slots : slots[s] = Closed

(* The initial states. *)
LEMMA TransferInit == Init => Transfer!Init
<1> SUFFICES ASSUME Init PROVE Transfer!Init
  OBVIOUS
<1>1. PICK s \in Slots : slots[s] # Closed
  BY PoolAssumption DEF Init
<1> QED
  BY <1>1, PoolAssumption DEF Init, Transfer!Init, Slotted

(* A step that leaves slots, values and the allocator alone is invisible. *)
LEMMA Invisible ==
  ASSUME UNCHANGED <<slots, heap, live, val, nodes>>
  PROVE  UNCHANGED Transfer!vars
BY DEF Transfer!vars, Slotted

(* A thread's values change, and nobody else's. *)
LEMMA HeldChanges ==
  ASSUME NEW t \in Threads, NEW S,
         ({val'[t]} \cap Values) \cup nodes'[t] = S,
         \A u \in Threads \ {t} : val'[u] = val[u] /\ nodes'[u] = nodes[u]
  PROVE  Held' = [Held EXCEPT ![t] = S]
<1>1. \A u \in Threads : Held'[u] = [Held EXCEPT ![t] = S][u]
  <2> SUFFICES ASSUME NEW u \in Threads PROVE Held'[u] = [Held EXCEPT ![t] = S][u]
    OBVIOUS
  <2>1. CASE u = t
    BY <2>1 DEF Held
  <2>2. CASE u # t
    BY <2>2 DEF Held
  <2> QED
    BY <2>1, <2>2
<1>2. Held' = [u \in Threads |-> Held'[u]]
  BY DEF Held
<1>3. [Held EXCEPT ![t] = S] = [u \in Threads |-> [Held EXCEPT ![t] = S][u]]
  BY DEF Held
<1> QED
  BY <1>1, <1>2, <1>3

(* A call takes hold of a value. *)
LEMMA HeldGains ==
  ASSUME TypeOK, NEW t \in Threads, NEW v \in Values, val[t] = Empty,
         val' = [val EXCEPT ![t] = v], UNCHANGED nodes
  PROVE  Held' = [Held EXCEPT ![t] = Held[t] \cup {v}]
<1>1. ({val'[t]} \cap Values) \cup nodes'[t] = Held[t] \cup {v}
  BY PoolAssumption DEF Held, TypeOK
<1>2. \A u \in Threads \ {t} : val'[u] = val[u] /\ nodes'[u] = nodes[u]
  BY DEF TypeOK
<1> QED
  BY <1>1, <1>2, HeldChanges

(* A call gives its value away. *)
LEMMA HeldLoses ==
  ASSUME TypeOK, Exclusive, NEW t \in Threads, val[t] \in Values,
         val' = [val EXCEPT ![t] = Empty], UNCHANGED nodes
  PROVE  /\ val[t] \in Held[t]
         /\ Held' = [Held EXCEPT ![t] = Held[t] \ {val[t]}]
<1>0. val[t] \notin nodes[t]
  BY DEF Exclusive
<1>1. ({val'[t]} \cap Values) \cup nodes'[t] = Held[t] \ {val[t]}
  BY <1>0, PoolAssumption DEF Held, TypeOK
<1>2. \A u \in Threads \ {t} : val'[u] = val[u] /\ nodes'[u] = nodes[u]
  BY DEF TypeOK
<1> QED
  BY <1>1, <1>2, HeldChanges DEF Held

LEMMA HeldSame ==
  ASSUME UNCHANGED <<val, nodes>>
  PROVE  Held' = Held
BY DEF Held

(* The slots, the pool and the closed pool stay. *)
LEMMA SlotsSame ==
  ASSUME UNCHANGED slots
  PROVE  Slotted' = Slotted /\ Shut' = Shut
BY DEF Slotted, Shut

(* A new value comes from the allocator, or calloc fails. *)
LEMMA AllocRefines ==
  ASSUME Inv, NEW t \in Threads, Alloc(t)
  PROVE  Transfer!Next \/ UNCHANGED Transfer!vars
<1> USE DEF Inv
<1>1. CASE UNCHANGED <<heap, val>>
  BY <1>1, Invisible DEF Alloc
<1>2. CASE \E v \in heap : heap' = heap \ {v} /\ val' = [val EXCEPT ![t] = v]
  <2>1. PICK v \in heap : heap' = heap \ {v} /\ val' = [val EXCEPT ![t] = v]
    BY <1>2
  <2>2. v \in Values /\ val[t] = Empty
    BY DEF TypeOK, LocalsOK, Alloc, Owning
  <2>3. UNCHANGED <<slots, live, nodes>>
    BY DEF Alloc
  <2>4. Held' = [Held EXCEPT ![t] = Held[t] \cup {v}]
    BY <2>1, <2>2, <2>3, HeldGains
  <2>5. Slotted' = Slotted /\ Shut' = Shut
    BY <2>3, SlotsSame
  <2>6. Transfer!Allocate(t)
    BY <2>1, <2>3, <2>4, <2>5 DEF Transfer!Allocate, Transfer!Gain, Held, Shut
  <2> QED
    BY <2>6 DEF Transfer!Next
<1> QED
  BY <1>1, <1>2 DEF Alloc

(* dbv_new hands its value out, or keeps it for the put of the error path. *)
LEMMA InitRefines ==
  ASSUME Inv, NEW t \in Threads, InitValue(t)
  PROVE  Transfer!Next \/ UNCHANGED Transfer!vars
<1> USE DEF Inv
<1>1. CASE UNCHANGED <<live, val>>
  BY <1>1, Invisible DEF InitValue
<1>2. CASE live' = live \cup {val[t]} /\ val' = [val EXCEPT ![t] = Empty]
  <2>1. val[t] \in Values
    BY DEF TypeOK, LocalsOK, InitValue, Owning
  <2>2. UNCHANGED <<slots, heap, nodes>>
    BY DEF InitValue
  <2>3. val[t] \in Held[t] /\ Held' = [Held EXCEPT ![t] = Held[t] \ {val[t]}]
    BY <1>2, <2>1, <2>2, HeldLoses
  <2>4. Slotted' = Slotted /\ Shut' = Shut
    BY <2>2, SlotsSame
  <2>5. Transfer!HandOut(t)
    BY <1>2, <2>2, <2>3, <2>4 DEF Transfer!HandOut, Transfer!Lose, Held, Shut
  <2> QED
    BY <2>5 DEF Transfer!Next
<1> QED
  BY <1>1, <1>2 DEF InitValue

(* The compare-exchange of a take moves the value from its slot to the call. *)
LEMMA TakeRefines ==
  ASSUME Inv, NEW t \in Threads, TakeCas(t)
  PROVE  Transfer!Next \/ UNCHANGED Transfer!vars
<1> USE DEF Inv
<1>1. CASE UNCHANGED <<slots, val>>
  BY <1>1, Invisible DEF TakeCas
<1>2. CASE /\ slots[at[t]] = seen[t]
           /\ slots' = [slots EXCEPT ![at[t]] = Empty]
           /\ val' = [val EXCEPT ![t] = seen[t]]
  <2>1. seen[t] \in Values /\ at[t] \in Slots /\ val[t] = Empty
    BY DEF TypeOK, LocalsOK, TakeCas, Owning, Claiming
  <2>2. UNCHANGED <<heap, live, nodes>>
    BY DEF TakeCas
  <2>3. Held' = [Held EXCEPT ![t] = Held[t] \cup {seen[t]}]
    BY <1>2, <2>1, <2>2, HeldGains
  <2>4. seen[t] \in Slotted /\ Slotted' = Slotted \ {seen[t]}
    BY <1>2, <2>1, PoolAssumption DEF Slotted, TypeOK, Exclusive
  <2>5. ~Shut /\ ~Shut'
    BY <1>2, <2>1, PoolAssumption DEF Shut, TypeOK
  <2>6. Transfer!Take(t)
    BY <2>2, <2>3, <2>4, <2>5 DEF Transfer!Take, Transfer!Gain, Held, Shut
  <2> QED
    BY <2>6 DEF Transfer!Next
<1> QED
  BY <1>1, <1>2 DEF TakeCas, Rescan

(* The application gives a value up. *)
LEMMA ReleaseRefines ==
  ASSUME Inv, NEW t \in Threads, NEW v \in Values, Release(t, v)
  PROVE  Transfer!Next
<1> USE DEF Inv
<1>1. val[t] = Empty
  BY DEF TypeOK, LocalsOK, Release, Owning
<1>2. UNCHANGED <<slots, heap, nodes>>
  BY DEF Release
<1>3. Held' = [Held EXCEPT ![t] = Held[t] \cup {v}]
  BY <1>1, <1>2, HeldGains DEF Release
<1>4. Slotted' = Slotted /\ Shut' = Shut
  BY <1>2, SlotsSame
<1>5. Transfer!GiveUp(t)
  BY <1>2, <1>3, <1>4 DEF Release, Transfer!GiveUp, Transfer!Gain, Held, Shut
<1> QED
  BY <1>5 DEF Transfer!Next

(* The compare-exchange of a put moves the value from the call to a slot. *)
LEMMA PutRefines ==
  ASSUME Inv, NEW t \in Threads, PutCas(t)
  PROVE  Transfer!Next \/ UNCHANGED Transfer!vars
<1> USE DEF Inv
<1>1. CASE UNCHANGED <<slots, val>>
  BY <1>1, Invisible DEF PutCas
<1>2. CASE \E s \in todo[t] : /\ slots[s] = Empty
                              /\ slots' = [slots EXCEPT ![s] = val[t]]
                              /\ val' = [val EXCEPT ![t] = Empty]
  <2>1. PICK s \in todo[t] : /\ slots[s] = Empty
                             /\ slots' = [slots EXCEPT ![s] = val[t]]
                             /\ val' = [val EXCEPT ![t] = Empty]
    BY <1>2
  <2>2. val[t] \in Values /\ s \in Slots
    BY DEF TypeOK, LocalsOK, PutCas, Owning
  <2>3. UNCHANGED <<heap, live, nodes>>
    BY DEF PutCas
  <2>4. val[t] \in Held[t] /\ Held' = [Held EXCEPT ![t] = Held[t] \ {val[t]}]
    BY <2>1, <2>2, <2>3, HeldLoses
  <2>5. Slotted' = Slotted \cup {val[t]}
    BY <2>1, <2>2, PoolAssumption DEF Slotted, TypeOK
  <2>6. ~Shut /\ ~Shut'
    BY <2>1, <2>2, PoolAssumption DEF Shut, TypeOK
  <2>7. Transfer!Put(t)
    BY <2>3, <2>4, <2>5, <2>6 DEF Transfer!Put, Transfer!Lose, Held, Shut
  <2> QED
    BY <2>7 DEF Transfer!Next
<1> QED
  BY <1>1, <1>2 DEF PutCas

(* A value that found no slot goes back to the allocator. *)
LEMMA FreeRefines ==
  ASSUME Inv, NEW t \in Threads, FreeValue(t)
  PROVE  Transfer!Next
<1> USE DEF Inv
<1>1. val[t] \in Values
  BY DEF TypeOK, LocalsOK, FreeValue, Owning
<1>2. UNCHANGED <<slots, live, nodes>>
  BY DEF FreeValue
<1>3. val[t] \in Held[t] /\ Held' = [Held EXCEPT ![t] = Held[t] \ {val[t]}]
  BY <1>1, <1>2, HeldLoses DEF FreeValue
<1>4. Slotted' = Slotted /\ Shut' = Shut
  BY <1>2, SlotsSame
<1>5. {val[t]} \in SUBSET Held[t]
  BY <1>3
<1>6. Transfer!Free(t)
  BY <1>2, <1>3, <1>4, <1>5 DEF FreeValue, Transfer!Free, Transfer!Lose, Held, Shut
<1> QED
  BY <1>6 DEF Transfer!Next

(* So do the values a disable has drained. *)
LEMMA DrainRefines ==
  ASSUME Inv, NEW t \in Threads, Drain(t)
  PROVE  Transfer!Next
<1> USE DEF Inv
<1>1. val[t] = Empty
  BY DEF TypeOK, LocalsOK, Drain, Owning
<1>2. UNCHANGED <<slots, live, val>>
  BY DEF Drain
<1>3. Held[t] = nodes[t]
  BY <1>1, PoolAssumption DEF Held
<1>4. Held' = [Held EXCEPT ![t] = Held[t] \ nodes[t]]
  <2>1. ({val'[t]} \cap Values) \cup nodes'[t] = Held[t] \ nodes[t]
    BY <1>1, <1>2, <1>3, PoolAssumption DEF Drain, TypeOK
  <2>2. \A u \in Threads \ {t} : val'[u] = val[u] /\ nodes'[u] = nodes[u]
    BY <1>2 DEF Drain, TypeOK
  <2> QED
    BY <2>1, <2>2, HeldChanges
<1>5. Slotted' = Slotted /\ Shut' = Shut
  BY <1>2, SlotsSame
<1>6. Transfer!Free(t)
  BY <1>2, <1>3, <1>4, <1>5 DEF Drain, Transfer!Free, Transfer!Lose, Held, Shut
<1> QED
  BY <1>6 DEF Transfer!Next

(* Opening a slot opens the pool; opening one that is open changes nothing. *)
LEMMA OpenRefines ==
  ASSUME Inv, NEW t \in Threads, Open(t)
  PROVE  Transfer!Next
<1> USE DEF Inv
<1>1. PICK s \in todo[t] : slots' = [slots EXCEPT ![s] = IF @ = Closed THEN Empty ELSE @]
  BY DEF Open
<1>2. s \in Slots
  BY DEF TypeOK
<1>3. UNCHANGED <<heap, live, val, nodes>>
  BY DEF Open
<1>4. Held' = Held
  BY <1>3, HeldSame
<1>5. ~Shut'
  BY <1>1, <1>2, PoolAssumption DEF Shut, TypeOK
<1>6. Slotted' = Slotted
  BY <1>1, <1>2, PoolAssumption DEF Slotted, TypeOK
<1>7. Transfer!Open
  BY <1>3, <1>4, <1>5, <1>6 DEF Transfer!Open, Held, Shut
<1> QED
  BY <1>7 DEF Transfer!Next

(* Closing a slot takes its value out; the last slot to close shuts the pool. *)
LEMMA CloseRefines ==
  ASSUME Inv, NEW t \in Threads, Close(t)
  PROVE  Transfer!Next
<1> USE DEF Inv
<1>1. PICK s \in todo[t] :
        /\ slots' = [slots EXCEPT ![s] = Closed]
        /\ nodes' = [nodes EXCEPT ![t] = @ \cup ({slots[s]} \cap Values)]
  BY DEF Close
<1>2. s \in Slots
  BY DEF TypeOK
<1>3. UNCHANGED <<heap, live, val>>
  BY DEF Close
<1> DEFINE S == {slots[s]} \cap Values
<1>4. Held' = [Held EXCEPT ![t] = Held[t] \cup S]
  <2>1. ({val'[t]} \cap Values) \cup nodes'[t] = Held[t] \cup S
    BY <1>1, <1>3 DEF Held, TypeOK
  <2>2. \A u \in Threads \ {t} : val'[u] = val[u] /\ nodes'[u] = nodes[u]
    BY <1>1, <1>3 DEF TypeOK
  <2> QED
    BY <2>1, <2>2, HeldChanges
<1>5. S \in SUBSET Slotted /\ \A v, w \in S : v = w
  BY <1>2 DEF Slotted
<1>6. Slotted' = Slotted \ S
  BY <1>1, <1>2, PoolAssumption DEF Slotted, TypeOK, Exclusive
<1>7. Shut => Shut'
  BY <1>1, <1>2 DEF Shut, TypeOK
<1>8. Shut' => Slotted' = {}
  BY PoolAssumption DEF Shut, Slotted
<1>9. Shut' \in {Shut, Slotted' = {}}
  <2>1. CASE Shut'
    <3>1. Shut' = (Slotted' = {})
      BY <1>8, <2>1, Zenon DEF Shut
    <3> QED
      BY <3>1
  <2>2. CASE ~Shut'
    <3>1. Shut' = Shut
      BY <1>7, <2>2, Zenon DEF Shut
    <3> QED
      BY <3>1
  <2> QED
    BY <2>1, <2>2
<1> HIDE DEF S
<1>10. Transfer!Shut(t)
  BY <1>3, <1>4, <1>5, <1>6, <1>9 DEF Transfer!Shut, Transfer!Gain, Held, Shut
<1> QED
  BY <1>10 DEF Transfer!Next

(* Every step of the pool is a step of ValueTransfer or invisible. *)
LEMMA StepRefines ==
  ASSUME Inv, [Next]_vars
  PROVE  [Transfer!Next]_(Transfer!vars)
<1>1. CASE UNCHANGED vars
  BY <1>1, Invisible DEF vars
<1>2. ASSUME NEW t \in Threads, Step(t)
      PROVE  Transfer!Next \/ UNCHANGED Transfer!vars
  <2>1. CASE NewMask(t) \/ TakeLoad(t) \/ TakeClaim(t) \/ TakeRead(t) \/ ReleaseCheck(t)
             \/ PutLoad(t) \/ Publish(t) \/ OpenMask(t) \/ OpenState(t) \/ CloseMask(t)
    BY <2>1, Invisible DEF NewMask, TakeLoad, TakeClaim, TakeRead, ReleaseCheck, PutLoad,
       Publish, OpenMask, OpenState, CloseMask, shared
  <2> QED
    BY <1>2, <2>1, AllocRefines, InitRefines, TakeRefines, PutRefines, FreeRefines,
       OpenRefines, CloseRefines, DrainRefines DEF Step
<1>3. ASSUME NEW t \in Threads, Begin(t)
      PROVE  Transfer!Next \/ UNCHANGED Transfer!vars
  <2>1. CASE NewCheck(t) \/ EnableBegin(t) \/ DisableBegin(t)
    BY <2>1, Invisible DEF NewCheck, EnableBegin, DisableBegin, shared
  <2> QED
    BY <1>3, <2>1, ReleaseRefines DEF Begin
<1> QED
  BY <1>1, <1>2, <1>3 DEF Next

(* The pool implements ValueTransfer: whatever takes, puts, enables and     *)
(* disables overlap, the callers of value_pool_take, value_pool_put and     *)
(* data_bind_set_value_pool_enabled see whole transfers of single values.   *)
THEOREM PoolImplementsTransfer == Spec => ImplementsTransfer
<1>1. Inv /\ [Next]_vars => [Transfer!Next]_(Transfer!vars)
  BY StepRefines
<1> QED
  BY <1>1, TransferInit, PoolInvariant, PTL DEF Spec, ImplementsTransfer, Transfer!Spec

============================================================================
