--------------------------- MODULE ValueTransfer ---------------------------
(***************************************************************************)
(* What the value pool promises its callers: values move one at a time     *)
(* between the allocator, the pool, a call and the application, each move  *)
(* is atomic, and a pool that has been shut holds nothing and accepts      *)
(* nothing until it is opened again.                                       *)
(***************************************************************************)
EXTENDS FiniteSets

CONSTANTS Threads, Values

VARIABLES
  free,      \* values that are not allocated
  pool,      \* values kept for reuse
  live,      \* values the application holds
  carried,   \* values each thread has inside a call
  closed     \* the pool is shut

vars == <<free, pool, live, carried, closed>>

Init ==
  /\ free = Values /\ pool = {} /\ live = {}
  /\ carried = [t \in Threads |-> {}]
  /\ closed = FALSE

Gain(t, S) == carried' = [carried EXCEPT ![t] = @ \cup S]
Lose(t, S) == carried' = [carried EXCEPT ![t] = @ \ S]

Allocate(t) ==
  \E v \in free : free' = free \ {v} /\ Gain(t, {v}) /\ UNCHANGED <<pool, live, closed>>

Take(t) ==
  \E v \in pool : pool' = pool \ {v} /\ Gain(t, {v}) /\ UNCHANGED <<free, live, closed>>

HandOut(t) ==
  \E v \in carried[t] :
    live' = live \cup {v} /\ Lose(t, {v}) /\ UNCHANGED <<free, pool, closed>>

GiveUp(t) ==
  \E v \in live : live' = live \ {v} /\ Gain(t, {v}) /\ UNCHANGED <<free, pool, closed>>

Put(t) ==
  \E v \in carried[t] :
    ~closed /\ pool' = pool \cup {v} /\ Lose(t, {v}) /\ UNCHANGED <<free, live, closed>>

Free(t) ==
  \E S \in SUBSET carried[t] :
    free' = free \cup S /\ Lose(t, S) /\ UNCHANGED <<pool, live, closed>>

(* At most one value leaves per step; the pool is shut when none is left. *)
Shut(t) ==
  /\ \E S \in SUBSET pool :
       /\ \A v, w \in S : v = w
       /\ pool' = pool \ S /\ Gain(t, S)
  /\ closed' \in {closed, pool' = {}}
  /\ UNCHANGED <<free, live>>

Open == closed' = FALSE /\ UNCHANGED <<free, pool, live, carried>>

Next ==
  \/ Open
  \/ \E t \in Threads :
       Allocate(t) \/ Take(t) \/ HandOut(t) \/ GiveUp(t) \/ Put(t) \/ Free(t) \/ Shut(t)

Spec == Init /\ [][Next]_vars

============================================================================
