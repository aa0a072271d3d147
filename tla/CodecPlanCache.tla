--------------------------- MODULE CodecPlanCache ---------------------------
(***************************************************************************)
(* The prepared-plan cache of a DataBind codec, databind/runtime/          *)
(* data_bind.c: data_bind_message_plan_acquire_generated and               *)
(* data_bind_free.                                                         *)
(*                                                                         *)
(* An acquire looks the artifact up under the codec's mutex, compiles the  *)
(* plan and reserves the table outside it, and looks again under the mutex *)
(* before it publishes.  Each section under the mutex is one step; the     *)
(* compilation, the reservation and the clean-up are steps between which   *)
(* other threads run.                                                      *)
(***************************************************************************)
EXTENDS Integers, Sequences, FiniteSets

CONSTANTS
  Threads,
  Artifacts,     \* addresses of generated artifacts
  Plans,         \* addresses a compilation can return
  NoArtifact, NoPlan,
  Fields,        \* data_bind_message_plan_field_count of an artifact's plan
  MaxPrepared,   \* DATA_BIND_MESSAGE_PLAN_MAX_PREPARED
  MaxFields      \* DATA_BIND_MESSAGE_PLAN_MAX_PREPARED_FIELDS

ASSUME CacheAssumption ==
  /\ NoArtifact \notin Artifacts /\ NoPlan \notin Plans
  /\ Fields \in [Artifacts -> Nat]
  /\ MaxPrepared \in Nat \ {0} /\ MaxFields \in Nat
  /\ IsFiniteSet(Threads)

VARIABLES
  table,      \* prepared_messages[0 .. prepared_message_count)
  fieldCount, \* prepared_field_count
  backed,     \* the table has its capacity of MaxPrepared slots
  heap,       \* plan addresses that are not allocated
  spare,      \* history: tables allocated and neither installed nor freed
  pc, art,    \* per thread: where it is, and its artifact
  plan,       \* per thread: the plan it has compiled and still owns
  reserve,    \* per thread: reserve_table, as read under the first lock
  reserved,   \* per thread: reserved_started
  handed      \* history: the pairs acquire has returned to the application

vars == <<table, fieldCount, backed, heap, spare, pc, art, plan, reserve, reserved, handed>>

codec == <<table, fieldCount, backed>>

Init ==
  /\ table = << >> /\ fieldCount = 0 /\ backed = FALSE
  /\ heap = Plans /\ spare = 0
  /\ pc = [t \in Threads |-> "idle"]
  /\ art = [t \in Threads |-> NoArtifact]
  /\ plan = [t \in Threads |-> NoPlan]
  /\ reserve = [t \in Threads |-> FALSE]
  /\ reserved = [t \in Threads |-> FALSE]
  /\ handed = {}

Entries == {table[i] : i \in DOMAIN table}

(* db_prepared_message_find_locked: the entries for an artifact. *)
Found(a) == {e \in Entries : e.artifact = a}

GoTo(t, label) == pc' = [pc EXCEPT ![t] = label]

(* The first section: a hit returns, a full table is an error. *)
Lookup(t, a) ==
  /\ pc[t] = "idle"
  /\ \/ /\ Found(a) # {}
        /\ \E e \in Found(a) : handed' = handed \cup {e}
        /\ UNCHANGED <<pc, art, reserve>>
     \/ /\ Found(a) = {} /\ Len(table) < MaxPrepared
        /\ GoTo(t, "compile")
        /\ art' = [art EXCEPT ![t] = a]
        /\ reserve' = [reserve EXCEPT ![t] = ~backed]
        /\ UNCHANGED handed
  /\ UNCHANGED <<codec, heap, spare, plan, reserved>>

(* Fault: the table is never reserved. *)
CompileNoReserve(t) ==
  /\ pc[t] = "compile"
  /\ \E p \in heap :
       /\ heap' = heap \ {p}
       /\ plan' = [plan EXCEPT ![t] = p]
       /\ GoTo(t, IF Fields[art[t]] > MaxFields THEN "cleanup" ELSE "publish")
  /\ UNCHANGED <<codec, spare, art, reserve, reserved, handed>>

(* native_binding and data_bind_message_plan_compile, which may fail; a    *)
(* plan with too many fields goes to the clean-up.                         *)
Compile(t) ==
  /\ pc[t] = "compile"
  /\ \/ /\ GoTo(t, "idle")
        /\ art' = [art EXCEPT ![t] = NoArtifact]
        /\ reserve' = [reserve EXCEPT ![t] = FALSE]
        /\ UNCHANGED <<heap, plan>>
     \/ \E p \in heap :
          /\ heap' = heap \ {p}
          /\ plan' = [plan EXCEPT ![t] = p]
          /\ GoTo(t, IF Fields[art[t]] > MaxFields THEN "cleanup"
                     ELSE IF reserve[t] THEN "reserve" ELSE "publish")
          /\ UNCHANGED <<art, reserve>>
  /\ UNCHANGED <<codec, spare, reserved, handed>>

(* Allocate a table of MaxPrepared empty slots, which may fail. *)
Reserve(t) ==
  /\ pc[t] = "reserve"
  /\ \/ /\ GoTo(t, "publish")
        /\ reserved' = [reserved EXCEPT ![t] = TRUE]
        /\ spare' = spare + 1
     \/ GoTo(t, "cleanup") /\ UNCHANGED <<reserved, spare>>
  /\ UNCHANGED <<codec, heap, art, plan, reserve, handed>>

(* Fault: the fields in use are not counted. *)
FitsAlone(a) == Len(table) < MaxPrepared /\ Fields[a] <= MaxFields

Fits(a) == Len(table) < MaxPrepared /\ Fields[a] <= MaxFields - fieldCount

(* Publish the plan; the first to publish installs its table. *)
Publication(t) ==
  /\ table' = Append(table, [artifact |-> art[t], plan |-> plan[t]])
  /\ fieldCount' = fieldCount + Fields[art[t]]
  /\ backed' = (backed \/ reserved[t])
  /\ reserved' = [reserved EXCEPT ![t] = @ /\ backed]
  /\ spare' = IF reserved[t] /\ ~backed THEN spare - 1 ELSE spare
  /\ handed' = handed \cup {[artifact |-> art[t], plan |-> plan[t]]}
  /\ plan' = [plan EXCEPT ![t] = NoPlan]

(* Fault: published without looking again. *)
PublishBlindly(t) ==
  /\ pc[t] = "publish"
  /\ IF Fits(art[t]) THEN Publication(t)
                     ELSE UNCHANGED <<codec, plan, reserved, spare, handed>>
  /\ GoTo(t, "cleanup")
  /\ UNCHANGED <<heap, art, reserve>>

(* Fault: the loser of a race returns its own plan. *)
PublishOwn(t) ==
  /\ pc[t] = "publish"
  /\ \/ /\ Found(art[t]) # {}
        /\ handed' = handed \cup {[artifact |-> art[t], plan |-> plan[t]]}
        /\ UNCHANGED <<codec, plan, reserved, spare>>
     \/ Found(art[t]) = {} /\ Fits(art[t]) /\ Publication(t)
  /\ GoTo(t, "cleanup")
  /\ UNCHANGED <<heap, art, reserve>>

(* The second section: somebody else's plan wins, the limits are checked,  *)
(* or the plan is published.                                               *)
Publish(t) ==
  /\ pc[t] = "publish"
  /\ \/ /\ Found(art[t]) # {}
        /\ \E e \in Found(art[t]) : handed' = handed \cup {e}
        /\ UNCHANGED <<codec, plan, reserved, spare>>
     \/ /\ Found(art[t]) = {} /\ ~Fits(art[t])
        /\ UNCHANGED <<codec, plan, reserved, spare, handed>>
     \/ Found(art[t]) = {} /\ Fits(art[t]) /\ Publication(t)
  /\ GoTo(t, "cleanup")
  /\ UNCHANGED <<heap, art, reserve>>

(* Fault: the table a loser has reserved is not destroyed. *)
CleanupPlanOnly(t) ==
  /\ pc[t] = "cleanup"
  /\ heap' = heap \cup ({plan[t]} \ {NoPlan})
  /\ plan' = [plan EXCEPT ![t] = NoPlan]
  /\ reserved' = [reserved EXCEPT ![t] = FALSE]
  /\ reserve' = [reserve EXCEPT ![t] = FALSE]
  /\ art' = [art EXCEPT ![t] = NoArtifact]
  /\ GoTo(t, "idle")
  /\ UNCHANGED <<codec, spare, handed>>

(* The cleanup label: free what the call still owns. *)
Cleanup(t) ==
  /\ pc[t] = "cleanup"
  /\ heap' = heap \cup ({plan[t]} \ {NoPlan})
  /\ plan' = [plan EXCEPT ![t] = NoPlan]
  /\ spare' = IF reserved[t] THEN spare - 1 ELSE spare
  /\ reserved' = [reserved EXCEPT ![t] = FALSE]
  /\ reserve' = [reserve EXCEPT ![t] = FALSE]
  /\ art' = [art EXCEPT ![t] = NoArtifact]
  /\ GoTo(t, "idle")
  /\ UNCHANGED <<codec, handed>>

(* data_bind_free, which its caller may use only when no acquire is in     *)
(* progress and no plan is used any more; then data_bind_create.           *)
FreeCodec ==
  /\ \A t \in Threads : pc[t] = "idle"
  /\ table # << >>
  /\ heap' = heap \cup {e.plan : e \in Entries}
  /\ table' = << >> /\ fieldCount' = 0 /\ backed' = FALSE
  /\ handed' = {}
  /\ UNCHANGED <<spare, pc, art, plan, reserve, reserved>>

Step(t) == Compile(t) \/ Reserve(t) \/ Publish(t) \/ Cleanup(t)

Next ==
  \/ \E t \in Threads : Step(t) \/ \E a \in Artifacts : Lookup(t, a)
  \/ FreeCodec

Spec == Init /\ [][Next]_vars

---------------------------------------------------------------------------
(* Properties.                                                             *)

(* Types and the table's limit: two threads that both saw room for one more *)
(* plan do not overrun prepared_messages.                                   *)
TypeOK ==
  /\ table \in Seq([artifact : Artifacts, plan : Plans]) /\ Len(table) <= MaxPrepared
  /\ fieldCount \in Nat
  /\ backed \in BOOLEAN
  /\ heap \subseteq Plans
  /\ spare \in Nat
  /\ pc \in [Threads -> {"idle", "compile", "reserve", "publish", "cleanup"}]
  /\ art \in [Threads -> Artifacts \cup {NoArtifact}]
  /\ plan \in [Threads -> Plans \cup {NoPlan}]
  /\ reserve \in [Threads -> BOOLEAN] /\ reserved \in [Threads -> BOOLEAN]
  /\ handed \subseteq [artifact : Artifacts, plan : Plans]

(* Two threads that miss at once still leave one plan per artifact.         *)
OnePlanPerArtifact ==
  \A i, j \in DOMAIN table :
    i # j => table[i].artifact # table[j].artifact /\ table[i].plan # table[j].plan

(* Every plan acquire has returned is the published one for its artifact    *)
(* and stays allocated while the codec lives: the loser of a race never     *)
(* returns the plan it then frees.                                          *)
HandedOutIsPublished ==
  /\ handed \subseteq Entries
  /\ \A e \in Entries : e.plan \notin heap
  /\ \A t \in Threads : \A e \in Entries : e.plan # plan[t]

(* The published plans never exceed the field limit, and the counter is     *)
(* their exact sum, also when two that fit singly are published at once.    *)
FieldBudget ==
  /\ \E total \in [0..Len(table) -> 0..fieldCount] :
       /\ total[0] = 0 /\ total[Len(table)] = fieldCount
       /\ \A i \in DOMAIN table : total[i] = total[i - 1] + Fields[table[i].artifact]
  /\ fieldCount <= MaxFields

(* Nothing is lost on the error and loser paths: each plan is free, in the  *)
(* table or owned by a call, each spare table owned by a call.              *)
NoLeak ==
  /\ Plans = heap \cup {e.plan : e \in Entries}
               \cup ({plan[t] : t \in Threads} \ {NoPlan})
  /\ spare = Cardinality({t \in Threads : reserved[t]})
  /\ \A t \in Threads : pc[t] = "idle" => plan[t] = NoPlan /\ ~reserved[t]

(* A published plan lies in reserved storage: whoever finds the table       *)
(* without capacity at publication has brought one, although the decision   *)
(* to reserve was taken under an earlier lock.                              *)
TableBacked == table # << >> => backed

(* What a call's locals mean at each label, and what a call that has not    *)
(* reserved a table may rely on.                                            *)
LocalsOK ==
  \A t \in Threads :
    /\ pc[t] \in {"compile", "reserve", "publish"} =>
         art[t] \in Artifacts /\ (reserve[t] \/ backed)
    /\ pc[t] \in {"reserve", "publish"} => plan[t] \in Plans
    /\ pc[t] \in {"idle", "compile"} => plan[t] = NoPlan
    /\ pc[t] \in {"idle", "compile", "reserve"} => ~reserved[t]
    /\ pc[t] = "publish" => (reserve[t] => reserved[t])

(* A plan under compilation has one owner. *)
OneOwner ==
  \A t \in Threads : plan[t] # NoPlan =>
    /\ plan[t] \notin heap
    /\ \A u \in Threads \ {t} : plan[u] # plan[t]

(* The inductive invariant. *)
Inv == TypeOK /\ LocalsOK /\ OneOwner /\ OnePlanPerArtifact /\ HandedOutIsPublished
         /\ NoLeak /\ TableBacked

=============================================================================
