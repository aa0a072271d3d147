-------------------------- MODULE MCBehaviorTree --------------------------
(***************************************************************************)
(* Small topologies for BehaviorTree.  A tree is given in creation order:  *)
(* the kinds, the parents, and per node its limit or duration.             *)
(***************************************************************************)
EXTENDS BehaviorTree

BuildTree(kind, parent, limit, duration, cond, hooks) ==
  LET N == DOMAIN kind
      path[n \in N] == {n} \cup IF parent[n] = 0 THEN {} ELSE path[parent[n]]
      nth(n) == LET C == {m \in N : parent[m] = n}
                IN  [i \in 1..Cardinality(C) |->
                       CHOOSE m \in C : Cardinality({k \in C : k < m}) = i - 1]
  IN  [kind |-> kind, parent |-> parent,
       kids |-> [n \in N |-> nth(n)],
       sub  |-> [n \in N |-> {m \in N : n \in path[m]}],
       limit |-> limit, duration |-> duration, cond |-> cond, hooks |-> hooks]

(* A tree whose loops run twice and whose timers take one clock unit. *)
Tree(kind, parent, cond, hooks) ==
  BuildTree(kind, parent,
            [n \in DOMAIN kind |-> IF kind[n] \in LimitKinds THEN 2 ELSE 0],
            [n \in DOMAIN kind |-> IF kind[n] \in DurationKinds THEN 1 ELSE 0],
            cond, hooks)

(* Every well-formed tree of a given shape: all kinds, predicate or in-tree *)
(* conditions, Parallels with or without hooks.                             *)
AllTrees(parent) ==
  LET N == DOMAIN parent
      inner == {parent[n] : n \in N} \ {0}
      assign == {[n \in N |-> IF n \in inner THEN k[n] ELSE "LEAF"] :
                   k \in [inner -> Kinds \ {"LEAF"}]}
  IN  {t \in UNION {UNION {{Tree(k, parent, cond, hooks) :
                          cond  \in SUBSET {n \in N : k[n] \in Guarded}} :
                          hooks \in {{}, {n \in N : k[n] = "PARALLEL"}}} :
                          k \in assign} : WellFormed(t)}

(* All trees of up to three nodes, and of four with the branching below an  *)
(* inner node.                                                              *)
MCSmallTrees ==
  UNION {AllTrees(<<0>>), AllTrees(<<0, 1>>), AllTrees(<<0, 1, 2>>),
         AllTrees(<<0, 1, 1>>), AllTrees(<<0, 1, 2, 2>>)}

(* Priorities over a hooked Parallel of two adapters: lower-priority work is *)
(* halted in mid-context.                                                    *)
PriorityOverParallel ==
  Tree(<<"REACTIVE_FALLBACK", "LEAF", "PARALLEL", "PIPELINE_SEQUENCE", "LEAF", "LEAF",
         "CONSUME_QUEUE", "LEAF">>, <<0, 1, 1, 3, 4, 4, 3, 7>>, {}, {3})

(* An in-tree guard over a switch between a Parallel and a cached entry. *)
GuardOverSwitch ==
  Tree(<<"WHILE_DO", "LEAF", "SWITCH", "PARALLEL", "LEAF", "LEAF", "ENTRY_UPDATED", "LEAF">>,
       <<0, 1, 1, 3, 4, 4, 3, 7>>, {}, {4})

(* A retried sequence whose first step must not be repeated. *)
RetryRunOnce ==
  Tree(<<"RETRY", "SEQUENCE", "RUN_ONCE", "LEAF", "TIMEOUT", "PIPELINE_SEQUENCE", "LEAF">>,
       <<0, 1, 2, 3, 2, 5, 6>>, {}, {})

(* Two branches of a predicate, one of them guarded by a cached entry. *)
IfOverEntry ==
  Tree(<<"IF_THEN_ELSE", "REACTIVE_SEQUENCE", "ENTRY_UPDATED", "RUN_ONCE", "LEAF", "LEAF",
         "REPEAT", "CONSUME_QUEUE", "LEAF">>, <<0, 1, 2, 3, 4, 2, 1, 7, 8>>, {1}, {})

(* Three-way in-tree conditional. *)
InTreeIf ==
  Tree(<<"IF_THEN_ELSE", "INVERTER", "LEAF", "LEAF", "FALLBACK", "LEAF", "LEAF">>,
       <<0, 1, 2, 1, 1, 5, 5>>, {}, {})

MCDeepTrees == {PriorityOverParallel, GuardOverSwitch, RetryRunOnce, IfOverEntry, InTreeIf}

MCTrees == MCSmallTrees \cup MCDeepTrees

(* A RunOnce whose sibling keeps the Parallel above it RUNNING. *)
MCRunOnceTrees ==
  {Tree(<<"PARALLEL", "RUN_ONCE", "LEAF", "LEAF">>, <<0, 1, 2, 1>>, {}, {})}

MCDurations == {0, 1, 9}

===========================================================================
