----------------------------- MODULE ValuePool -----------------------------
(***************************************************************************)
(* The lock-free DataBindValue pool of databind/runtime/data_bind.c:       *)
(* value_pool_take, value_pool_put, dbv_new, the tail of dbv_release and   *)
(* data_bind_set_value_pool_enabled.                                       *)
(*                                                                         *)
(* Every atomic load, store, exchange, compare-exchange and fetch-or is a  *)
(* step of its own.  The orders the code requests make them interleave as  *)
(* below: a release publishes the slot before its ready bit, an acquiring  *)
(* claim of the bit precedes the read of the slot, and the control path's  *)
(* relaxed mask stores cannot pass the acquire or release operations on    *)
(* the slots next to them.                                                 *)
(*                                                                         *)
(* The thread-local take and put cursors only choose where a scan starts:  *)
(* any ready bit may be claimed, and a put may probe the slots in any      *)
(* order.                                                                  *)
(***************************************************************************)
EXTENDS Integers, FiniteSets

CONSTANTS
  Threads,      \* callers of the library
  Slots,        \* g_value_pool_slots
  Values,       \* addresses calloc can return
  Empty,        \* a NULL slot, and a local that holds no value
  Closed,       \* VALUE_POOL_CLOSED_SLOT
  NoSlot,       \* a local that names no slot
  Nobody,       \* g_value_pool_control_mutex is free
  MaxAttempts   \* VALUE_POOL_SIZE * 2

ASSUME PoolAssumption ==
  /\ Empty \notin Values /\ Closed \notin Values /\ Empty # Closed
  /\ Nobody \notin Threads /\ NoSlot \notin Slots
  /\ MaxAttempts \in Nat \ {0}
  /\ IsFiniteSet(Slots) /\ Slots # {}

VARIABLES
  slots,    \* g_value_pool_slots
  ready,    \* g_value_pool_ready_mask, as the set of slots with their bit set
  enabled,  \* g_value_pool_state = VALUE_POOL_ENABLED
  mutex,    \* holder of g_value_pool_control_mutex
  heap,     \* addresses that are not allocated
  live,     \* values the application holds
  pc,       \* where each thread is
  val,      \* the value a thread owns inside a call
  seen,     \* the pointer value_pool_take has read but does not own yet
  at,       \* the slot a thread works on
  snap,     \* the ready mask a take has read
  tries,    \* attempts of value_pool_take
  todo,     \* slots a put has still to probe, or a control call to visit
  pooled,   \* pool_enabled of dbv_new and dbv_release
  nodes     \* values a disable has drained and will free

vars == <<slots, ready, enabled, mutex, heap, live, pc, val, seen, at, snap,
          tries, todo, pooled, nodes>>

Labels ==
  {"idle", "newMask", "takeLoad", "takeClaim", "takeRead", "takeCas", "alloc",
   "init", "release", "putLoad", "putCas", "publish", "free",
   "openMask", "open", "openState", "close", "closeMask", "drain"}

Init ==
  /\ slots = [s \in Slots |-> Empty]
  /\ ready = {}
  /\ enabled = TRUE
  /\ mutex = Nobody
  /\ heap = Values
  /\ live = {}
  /\ pc = [t \in Threads |-> "idle"]
  /\ val = [t \in Threads |-> Empty]
  /\ seen = [t \in Threads |-> Empty]
  /\ at = [t \in Threads |-> NoSlot]
  /\ snap = [t \in Threads |-> {}]
  /\ tries = [t \in Threads |-> 0]
  /\ todo = [t \in Threads |-> {}]
  /\ pooled = [t \in Threads |-> FALSE]
  /\ nodes = [t \in Threads |-> {}]

GoTo(t, label) == pc' = [pc EXCEPT ![t] = label]

shared == <<slots, ready, enabled, mutex, heap, live>>
takeLocals == <<seen, at, snap, tries>>

(* A local goes back to its initial value when the code no longer reads it. *)
Clear(f, t, none) == [f EXCEPT ![t] = none]

---------------------------------------------------------------------------
(* dbv_new *)

(* value_pool_is_enabled() *)
NewCheck(t) ==
  /\ pc[t] = "idle"
  /\ pooled' = [pooled EXCEPT ![t] = enabled]
  /\ GoTo(t, IF enabled THEN "newMask" ELSE "alloc")
  /\ UNCHANGED <<shared, val, takeLocals, todo, nodes>>

NewMask(t) ==
  /\ pc[t] = "newMask"
  /\ GoTo(t, IF ready = {} THEN "alloc" ELSE "takeLoad")
  /\ UNCHANGED <<shared, val, takeLocals, todo, pooled, nodes>>

(* calloc, which may fail: dbv_new then returns NULL. *)
Alloc(t) ==
  /\ pc[t] = "alloc"
  /\ \/ /\ GoTo(t, "idle")
        /\ pooled' = Clear(pooled, t, FALSE)
        /\ UNCHANGED <<heap, val>>
     \/ \E v \in heap :
          /\ heap' = heap \ {v}
          /\ val' = [val EXCEPT ![t] = v]
          /\ GoTo(t, "init")
          /\ UNCHANGED pooled
  /\ UNCHANGED <<slots, ready, enabled, mutex, live, takeLocals, todo, nodes>>

(* The container of the new value is initialised, and the value handed     *)
(* out; or that fails and the value is put back or freed.                  *)
InitValue(t) ==
  /\ pc[t] = "init"
  /\ \/ /\ live' = live \cup {val[t]}
        /\ val' = [val EXCEPT ![t] = Empty]
        /\ GoTo(t, "idle")
     \/ /\ GoTo(t, IF pooled[t] THEN "putLoad" ELSE "free")
        /\ UNCHANGED <<live, val>>
  /\ pooled' = Clear(pooled, t, FALSE)
  /\ UNCHANGED <<slots, ready, enabled, mutex, heap, takeLocals, todo, nodes>>

---------------------------------------------------------------------------
(* value_pool_take *)

(* Fault: no bound on the attempts. *)
TakeLoadUnbounded(t) ==
  /\ pc[t] = "takeLoad"
  /\ \/ /\ ready = {}
        /\ GoTo(t, "alloc")
        /\ tries' = Clear(tries, t, 0)
        /\ UNCHANGED <<at, snap>>
     \/ /\ \E s \in ready : at' = [at EXCEPT ![t] = s]
        /\ snap' = [snap EXCEPT ![t] = ready]
        /\ GoTo(t, "takeClaim")
        /\ UNCHANGED tries
  /\ UNCHANGED <<shared, val, seen, todo, pooled, nodes>>

(* Read the mask and choose a set bit; give up when there is none or after *)
(* MaxAttempts.                                                            *)
TakeLoad(t) ==
  /\ pc[t] = "takeLoad"
  /\ \/ /\ ready = {} \/ tries[t] >= MaxAttempts
        /\ GoTo(t, "alloc")
        /\ tries' = Clear(tries, t, 0)
        /\ UNCHANGED <<at, snap>>
     \/ /\ tries[t] < MaxAttempts
        /\ \E s \in ready : at' = [at EXCEPT ![t] = s]
        /\ snap' = [snap EXCEPT ![t] = ready]
        /\ GoTo(t, "takeClaim")
        /\ UNCHANGED tries
  /\ UNCHANGED <<shared, val, seen, todo, pooled, nodes>>

(* Fault: a lost race does not count as an attempt. *)
RescanUncounted(t) ==
  /\ at' = Clear(at, t, NoSlot)
  /\ seen' = Clear(seen, t, Empty)
  /\ GoTo(t, "takeLoad")
  /\ UNCHANGED tries

Rescan(t) ==
  /\ tries' = [tries EXCEPT ![t] = @ + 1]
  /\ at' = Clear(at, t, NoSlot)
  /\ seen' = Clear(seen, t, Empty)
  /\ GoTo(t, "takeLoad")

(* Compare-exchange on the whole mask. *)
TakeClaim(t) ==
  /\ pc[t] = "takeClaim"
  /\ \/ /\ ready = snap[t]
        /\ ready' = ready \ {at[t]}
        /\ GoTo(t, "takeRead")
        /\ UNCHANGED <<tries, at, seen>>
     \/ ready # snap[t] /\ Rescan(t) /\ UNCHANGED ready
  /\ snap' = Clear(snap, t, {})
  /\ UNCHANGED <<slots, enabled, mutex, heap, live, val, todo, pooled, nodes>>

TakeRead(t) ==
  /\ pc[t] = "takeRead"
  /\ \/ /\ slots[at[t]] \in Values
        /\ seen' = [seen EXCEPT ![t] = slots[at[t]]]
        /\ GoTo(t, "takeCas")
        /\ UNCHANGED <<tries, at>>
     \/ slots[at[t]] \notin Values /\ Rescan(t)
  /\ UNCHANGED <<shared, val, snap, todo, pooled, nodes>>

(* Fault: the slot is emptied by a plain store. *)
TakeStore(t) ==
  /\ pc[t] = "takeCas"
  /\ slots' = [slots EXCEPT ![at[t]] = Empty]
  /\ val' = [val EXCEPT ![t] = seen[t]]
  /\ GoTo(t, "init")
  /\ tries' = Clear(tries, t, 0)
  /\ at' = Clear(at, t, NoSlot)
  /\ seen' = Clear(seen, t, Empty)
  /\ UNCHANGED <<ready, enabled, mutex, heap, live, snap, todo, pooled, nodes>>

(* Only this compare-exchange transfers ownership. *)
TakeCas(t) ==
  /\ pc[t] = "takeCas"
  /\ \/ /\ slots[at[t]] = seen[t]
        /\ slots' = [slots EXCEPT ![at[t]] = Empty]
        /\ val' = [val EXCEPT ![t] = seen[t]]
        /\ GoTo(t, "init")
        /\ tries' = Clear(tries, t, 0)
        /\ at' = Clear(at, t, NoSlot)
        /\ seen' = Clear(seen, t, Empty)
     \/ slots[at[t]] # seen[t] /\ Rescan(t) /\ UNCHANGED <<slots, val>>
  /\ UNCHANGED <<ready, enabled, mutex, heap, live, snap, todo, pooled, nodes>>

---------------------------------------------------------------------------
(* dbv_release of the last reference, and value_pool_put *)

(* The application gives the value up; any thread may. *)
Release(t, v) ==
  /\ pc[t] = "idle"
  /\ v \in live
  /\ live' = live \ {v}
  /\ val' = [val EXCEPT ![t] = v]
  /\ GoTo(t, "release")
  /\ UNCHANGED <<slots, ready, enabled, mutex, heap, takeLocals, todo, pooled, nodes>>

ReleaseCheck(t) ==
  /\ pc[t] = "release"
  /\ GoTo(t, IF enabled THEN "putLoad" ELSE "free")
  /\ UNCHANGED <<shared, val, takeLocals, todo, pooled, nodes>>

PutLoad(t) ==
  /\ pc[t] = "putLoad"
  /\ IF ready = Slots
     THEN GoTo(t, "free") /\ UNCHANGED todo
     ELSE GoTo(t, "putCas") /\ todo' = [todo EXCEPT ![t] = Slots]
  /\ UNCHANGED <<shared, val, takeLocals, pooled, nodes>>

(* Fault: a closed slot is taken for an empty one. *)
PutCasReopens(t) ==
  /\ pc[t] = "putCas"
  /\ \/ /\ todo[t] = {}
        /\ GoTo(t, "free")
        /\ UNCHANGED <<slots, val, at, todo>>
     \/ \E s \in todo[t] :
          \/ /\ slots[s] \notin Values
             /\ slots' = [slots EXCEPT ![s] = val[t]]
             /\ val' = [val EXCEPT ![t] = Empty]
             /\ at' = [at EXCEPT ![t] = s]
             /\ todo' = Clear(todo, t, {})
             /\ GoTo(t, "publish")
          \/ /\ slots[s] \in Values
             /\ todo' = [todo EXCEPT ![t] = @ \ {s}]
             /\ UNCHANGED <<slots, val, at, pc>>
  /\ UNCHANGED <<ready, enabled, mutex, heap, live, seen, snap, tries, pooled, nodes>>

(* Compare-exchange NULL for the value in one slot after the other. *)
PutCas(t) ==
  /\ pc[t] = "putCas"
  /\ \/ /\ todo[t] = {}
        /\ GoTo(t, "free")
        /\ UNCHANGED <<slots, val, at, todo>>
     \/ \E s \in todo[t] :
          \/ /\ slots[s] = Empty
             /\ slots' = [slots EXCEPT ![s] = val[t]]
             /\ val' = [val EXCEPT ![t] = Empty]
             /\ at' = [at EXCEPT ![t] = s]
             /\ todo' = Clear(todo, t, {})
             /\ GoTo(t, "publish")
          \/ /\ slots[s] # Empty
             /\ todo' = [todo EXCEPT ![t] = @ \ {s}]
             /\ UNCHANGED <<slots, val, at, pc>>
  /\ UNCHANGED <<ready, enabled, mutex, heap, live, seen, snap, tries, pooled, nodes>>

(* atomic_fetch_or: the slot becomes visible to takers. *)
Publish(t) ==
  /\ pc[t] = "publish"
  /\ ready' = ready \cup {at[t]}
  /\ at' = Clear(at, t, NoSlot)
  /\ GoTo(t, "idle")
  /\ UNCHANGED <<slots, enabled, mutex, heap, live, val, seen, snap, tries, todo, pooled, nodes>>

FreeValue(t) ==
  /\ pc[t] = "free"
  /\ heap' = heap \cup {val[t]}
  /\ val' = [val EXCEPT ![t] = Empty]
  /\ GoTo(t, "idle")
  /\ UNCHANGED <<slots, ready, enabled, mutex, live, takeLocals, todo, pooled, nodes>>

---------------------------------------------------------------------------
(* data_bind_set_value_pool_enabled, under the control mutex *)

(* set(1): nothing to do when it is enabled already. *)
EnableBegin(t) ==
  /\ pc[t] = "idle" /\ mutex = Nobody /\ ~enabled
  /\ mutex' = t
  /\ GoTo(t, "openMask")
  /\ UNCHANGED <<slots, ready, enabled, heap, live, val, takeLocals, todo, pooled, nodes>>

OpenMask(t) ==
  /\ pc[t] = "openMask"
  /\ ready' = {}
  /\ todo' = [todo EXCEPT ![t] = Slots]
  /\ GoTo(t, "open")
  /\ UNCHANGED <<slots, enabled, mutex, heap, live, val, takeLocals, pooled, nodes>>

(* Compare-exchange the closed marker for NULL in every slot. *)
Open(t) ==
  /\ pc[t] = "open"
  /\ \E s \in todo[t] :
       /\ slots' = [slots EXCEPT ![s] = IF @ = Closed THEN Empty ELSE @]
       /\ todo' = [todo EXCEPT ![t] = @ \ {s}]
       /\ GoTo(t, IF todo[t] = {s} THEN "openState" ELSE "open")
  /\ UNCHANGED <<ready, enabled, mutex, heap, live, val, takeLocals, pooled, nodes>>

(* Fault: the mask is cleared after the slots have been opened. *)
OpenStateThenMask(t) ==
  /\ pc[t] = "openState"
  /\ enabled' = TRUE
  /\ ready' = {}
  /\ mutex' = Nobody
  /\ GoTo(t, "idle")
  /\ UNCHANGED <<slots, heap, live, val, takeLocals, todo, pooled, nodes>>

OpenState(t) ==
  /\ pc[t] = "openState"
  /\ enabled' = TRUE
  /\ mutex' = Nobody
  /\ GoTo(t, "idle")
  /\ UNCHANGED <<slots, ready, heap, live, val, takeLocals, todo, pooled, nodes>>

(* set(0): also when it is disabled already. *)
DisableBegin(t) ==
  /\ pc[t] = "idle" /\ mutex = Nobody
  /\ mutex' = t
  /\ enabled' = FALSE
  /\ todo' = [todo EXCEPT ![t] = Slots]
  /\ GoTo(t, "close")
  /\ UNCHANGED <<slots, ready, heap, live, val, takeLocals, pooled, nodes>>

(* Fault: a store instead of an exchange. *)
CloseByStore(t) ==
  /\ pc[t] = "close"
  /\ \E s \in todo[t] :
       /\ slots' = [slots EXCEPT ![s] = Closed]
       /\ todo' = [todo EXCEPT ![t] = @ \ {s}]
       /\ GoTo(t, IF todo[t] = {s} THEN "closeMask" ELSE "close")
  /\ UNCHANGED <<ready, enabled, mutex, heap, live, val, takeLocals, pooled, nodes>>

(* Exchange the closed marker into every slot, keeping what was there. *)
Close(t) ==
  /\ pc[t] = "close"
  /\ \E s \in todo[t] :
       /\ slots' = [slots EXCEPT ![s] = Closed]
       /\ nodes' = [nodes EXCEPT ![t] = @ \cup ({slots[s]} \cap Values)]
       /\ todo' = [todo EXCEPT ![t] = @ \ {s}]
       /\ GoTo(t, IF todo[t] = {s} THEN "closeMask" ELSE "close")
  /\ UNCHANGED <<ready, enabled, mutex, heap, live, val, takeLocals, pooled>>

CloseMask(t) ==
  /\ pc[t] = "closeMask"
  /\ ready' = {}
  /\ mutex' = Nobody
  /\ GoTo(t, "drain")
  /\ UNCHANGED <<slots, enabled, heap, live, val, takeLocals, todo, pooled, nodes>>

(* The drained values are private by now and freed after the unlock. *)
Drain(t) ==
  /\ pc[t] = "drain"
  /\ heap' = heap \cup nodes[t]
  /\ nodes' = [nodes EXCEPT ![t] = {}]
  /\ GoTo(t, "idle")
  /\ UNCHANGED <<slots, ready, enabled, mutex, live, val, takeLocals, todo, pooled>>

---------------------------------------------------------------------------
(* A call in progress advances. *)
Step(t) ==
  \/ NewMask(t)   \/ Alloc(t)     \/ InitValue(t)
  \/ TakeLoad(t)  \/ TakeClaim(t) \/ TakeRead(t) \/ TakeCas(t)
  \/ ReleaseCheck(t) \/ PutLoad(t) \/ PutCas(t) \/ Publish(t) \/ FreeValue(t)
  \/ OpenMask(t)  \/ Open(t)      \/ OpenState(t)
  \/ Close(t)     \/ CloseMask(t) \/ Drain(t)

Begin(t) ==
  \/ NewCheck(t)
  \/ \E v \in Values : Release(t, v)
  \/ EnableBegin(t)
  \/ DisableBegin(t)

Next == \E t \in Threads : Step(t) \/ Begin(t)

(* A thread inside a call is scheduled again and again; no thread has to   *)
(* make a call.                                                            *)
Spec == Init /\ [][Next]_vars /\ \A t \in Threads : WF_vars(Step(t))

---------------------------------------------------------------------------
(* Properties.                                                             *)

(* Types and bounds: a take makes at most the attempts its loop allows, and *)
(* only slots, bits and values that exist are touched.                      *)
TypeOK ==
  /\ slots \in [Slots -> Values \cup {Empty, Closed}]
  /\ ready \subseteq Slots
  /\ enabled \in BOOLEAN
  /\ mutex \in Threads \cup {Nobody}
  /\ heap \subseteq Values
  /\ live \subseteq Values
  /\ pc \in [Threads -> Labels]
  /\ val \in [Threads -> Values \cup {Empty}]
  /\ seen \in [Threads -> Values \cup {Empty}]
  /\ at \in [Threads -> Slots \cup {NoSlot}]
  /\ snap \in [Threads -> SUBSET Slots]
  /\ tries \in [Threads -> 0..MaxAttempts]
  /\ todo \in [Threads -> SUBSET Slots]
  /\ pooled \in [Threads -> BOOLEAN]
  /\ nodes \in [Threads -> SUBSET Values]

(* No value has two owners: it is never handed out twice, never pooled or   *)
(* freed while the application or another call still holds it, whatever     *)
(* takes, puts and enable / disable calls overlap.                          *)
Exclusive ==
  /\ heap \cap live = {}
  /\ \A s \in Slots : slots[s] \notin heap \cup live
  /\ \A s, r \in Slots : s # r => slots[s] # slots[r] \/ slots[s] \notin Values
  /\ \A t \in Threads :
       /\ val[t] \notin heap \cup live
       /\ nodes[t] \cap (heap \cup live) = {}
       /\ \A s \in Slots : val[t] # slots[s] \/ val[t] = Empty
       /\ \A s \in Slots : slots[s] \notin nodes[t]
       /\ \A u \in Threads : val[t] \notin nodes[u]
       /\ \A u \in Threads \ {t} :
            (val[t] = Empty \/ val[t] # val[u]) /\ nodes[t] \cap nodes[u] = {}

Slotted == {slots[s] : s \in Slots} \cap Values
Carried == {val[t] : t \in Threads} \cap Values

(* No value is lost: each address is free, handed out, pooled, carried by a *)
(* call or waiting to be freed by a disable.                                *)
NoLeak ==
  Values = heap \cup live \cup Slotted \cup Carried \cup UNION {nodes[t] : t \in Threads}

(* A pooled value stays reachable: its ready bit is set, or the put that    *)
(* will set it is under way, or a take that claimed the bit is about to     *)
(* take exactly this value.  A bit lost to a race would strand the value in *)
(* its slot until the next disable.                                         *)
NoStrandedValue ==
  \A s \in Slots : slots[s] \in Values =>
    \/ s \in ready
    \/ \E t \in Threads : /\ at[t] = s
                          /\ \/ pc[t] \in {"publish", "takeRead"}
                             \/ pc[t] = "takeCas" /\ seen[t] = slots[s]

(* With no control call in progress the slots agree with the policy: a      *)
(* disabled pool retains no value and admits none from a put that read the  *)
(* old policy, an enabled one has no slot closed for good.                  *)
SlotsMatchPolicy ==
  mutex = Nobody => \A s \in Slots : (slots[s] = Closed) <=> ~enabled

(* What the locals and the mutex mean at each label: which labels own a     *)
(* value, which work on a slot, and how far a control call has come.        *)
Owning == {"init", "release", "putLoad", "putCas", "free"}
Claiming == {"takeClaim", "takeRead", "takeCas"}
Controlling == {"openMask", "open", "openState", "close", "closeMask"}

LocalsOK ==
  \A t \in Threads :
    /\ pc[t] \in Owning <=> val[t] # Empty
    /\ pc[t] \in Claiming => at[t] \in Slots /\ tries[t] < MaxAttempts
    /\ pc[t] = "publish" => at[t] \in Slots
    /\ pc[t] = "takeCas" => seen[t] \in Values
    /\ nodes[t] # {} => pc[t] \in {"close", "closeMask", "drain"}

ControlOK ==
  /\ \A t \in Threads : pc[t] \in Controlling <=> mutex = t
  /\ \A t \in Threads : pc[t] \in Controlling => ~enabled
  /\ \A t \in Threads : \A s \in Slots :
       /\ pc[t] \in {"openMask", "closeMask"} => slots[s] = Closed
       /\ pc[t] = "open" => (slots[s] = Closed <=> s \in todo[t])
       /\ pc[t] = "openState" => slots[s] # Closed
       /\ pc[t] = "close" /\ s \notin todo[t] => slots[s] = Closed

(* The inductive invariant. *)
Inv == TypeOK /\ LocalsOK /\ ControlOK /\ Exclusive /\ NoLeak /\ NoStrandedValue
         /\ SlotsMatchPolicy

(* Every call returns, however the others interfere: takes and puts are     *)
(* bounded, and the control mutex is held for finitely many steps.          *)
CallsReturn == \A t \in Threads : pc[t] # "idle" ~> pc[t] = "idle"

(* Every step of the lock-free pool is one atomic transfer of a value, or   *)
(* changes nothing its callers can see: the pool implements the             *)
(* specification of ValueTransfer.                                          *)
Transfer ==
  INSTANCE ValueTransfer WITH
    free <- heap,
    pool <- Slotted,
    carried <- [t \in Threads |-> ({val[t]} \cap Values) \cup nodes[t]],
    closed <- \A s \in Slots : slots[s] = Closed

ImplementsTransfer == Transfer!Spec

============================================================================
