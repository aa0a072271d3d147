--------------------------- MODULE BehaviorTree ---------------------------
(***************************************************************************)
(* The tick / reset runtime of behavior-tree/src/behavior_tree.c.          *)
(*                                                                         *)
(* A tick is a recursive walk of the tree by one driver thread.  Every     *)
(* callback it makes (leaf handler, predicate, selector, pipeline, queue,  *)
(* entry-changed, parallel and parameter hooks) is host code, so each one  *)
(* is a separate step with a nondeterministic answer.  The C call stack is *)
(* always the path from the root to the node that is executing: `cur` is   *)
(* that node and frame[n] holds the locals of tick_node_impl for a node on *)
(* the path.                                                               *)
(*                                                                         *)
(* `host` is a history variable: what the callbacks have told the host.    *)
(***************************************************************************)
EXTENDS Integers, Sequences, FiniteSets

CONSTANTS
  Trees,      \* the topologies to explore; see WellFormed
  MaxIter,    \* max_control_iterations of salts_bt_tree_config
  TimeMax,    \* UINT64_MAX of the monotonic clock, at which deadlines saturate
  MaxNow,     \* bound on the clock
  Durations   \* values a duration resolver may produce

Statuses == {"SUCCESS", "FAILURE", "RUNNING"}

SimpleDecorators == {"INVERTER", "FORCE_SUCCESS", "FORCE_FAILURE"}

Reactive == {"REACTIVE_SEQUENCE", "REACTIVE_FALLBACK"}

Memory == {"SEQUENCE", "FALLBACK"}

LimitKinds == {"RETRY", "REPEAT", "WHILE_DO", "KEEP_RUNNING_UNTIL_FAILURE"}

DurationKinds == {"TIMEOUT", "DELAY"}

Kinds ==
  {"LEAF", "RUN_ONCE", "PARALLEL", "IF_THEN_ELSE", "PRECONDITION", "SWITCH",
   "PIPELINE_SEQUENCE", "ENTRY_UPDATED", "CONSUME_QUEUE"}
    \cup SimpleDecorators \cup Reactive \cup Memory
    \cup LimitKinds \cup DurationKinds

SeqRange(s) == {s[i] : i \in DOMAIN s}

(* What the constructors and salts_bt_tree_validate guarantee of the tree a *)
(* tick walks: a parent exists before its children, which are linked in the *)
(* order of their creation, and there is one root.  `sub` is the set of     *)
(* nodes below and including a node, `cond` the nodes with a predicate      *)
(* callback, `hooks` the Parallel nodes with host hooks.                    *)
WellFormed(t) ==
  /\ DOMAIN t.kind \subseteq Nat \ {0}
  /\ 1 \in DOMAIN t.kind
  /\ t.kind   \in [DOMAIN t.kind -> Kinds]
  /\ t.kids   \in [DOMAIN t.kind -> Seq(DOMAIN t.kind)]
  /\ t.parent \in [DOMAIN t.kind -> DOMAIN t.kind \cup {0}]
  /\ t.sub    \in [DOMAIN t.kind -> SUBSET DOMAIN t.kind]
  /\ t.limit  \in [DOMAIN t.kind -> 0..MaxIter]
  /\ t.duration \in [DOMAIN t.kind -> Nat]
  /\ t.cond \subseteq DOMAIN t.kind
  /\ t.hooks \subseteq {n \in DOMAIN t.kind : t.kind[n] = "PARALLEL"}
  /\ \A n, m \in DOMAIN t.kind :
       /\ t.parent[m] = n <=> m \in SeqRange(t.kids[n])
       /\ m \in t.sub[n] <=> m = n \/ t.parent[m] \in t.sub[n]
  /\ \A n \in DOMAIN t.kind :
       /\ t.parent[n] < n /\ (t.parent[n] = 0 <=> n = 1)
       /\ \A i, j \in DOMAIN t.kids[n] : i < j => t.kids[n][i] < t.kids[n][j]
       /\ t.kind[n] = "LEAF" => t.kids[n] = << >>
       /\ t.kind[n] \in SimpleDecorators \cup DurationKinds \cup
            {"RETRY", "REPEAT", "KEEP_RUNNING_UNTIL_FAILURE", "RUN_ONCE",
             "ENTRY_UPDATED", "CONSUME_QUEUE"}
            => Len(t.kids[n]) = 1
       /\ t.kind[n] \in Reactive \cup {"PARALLEL", "SWITCH"} => Len(t.kids[n]) >= 1
       /\ t.kind[n] = "IF_THEN_ELSE" =>
            Len(t.kids[n]) \in (IF n \in t.cond THEN 1..2 ELSE 2..3)
       /\ t.kind[n] \in {"PRECONDITION", "WHILE_DO"} =>
            Len(t.kids[n]) = IF n \in t.cond THEN 1 ELSE 2

ASSUME TreesAssumption == \A t \in Trees : WellFormed(t)

ASSUME BoundsAssumption ==
  /\ MaxIter \in Nat /\ TimeMax \in Nat /\ MaxNow \in 0..TimeMax
  /\ Durations \subseteq Nat

VARIABLES
  tree,     \* the topology (fixed once built)
  dynamic,  \* nodes with a parameter resolver attached
  node,     \* salts_bt_node: per-node execution state
  cur,      \* the node executing, 0 between API calls (busy = cur # 0)
  frame,    \* locals of tick_node_impl for the nodes on the call path
  ret,      \* what the child that just returned gave back
  now,      \* cmeta_hrtime()
  result,   \* outcome of the last completed API call
  host      \* history: what the callbacks told the host

vars == <<tree, dynamic, node, cur, frame, ret, now, result, host>>

Nodes    == DOMAIN tree.kind
Kind(n)  == tree.kind[n]
Kids(n)  == tree.kids[n]
Sub(n)   == tree.sub[n]
Parent(n) == tree.parent[n]
First(n) == Kids(n)[1]

(* get_node(id)->next_sibling, 0 after the last child. *)
NextSibling(n, c) ==
  LET i == CHOOSE j \in DOMAIN Kids(n) : Kids(n)[j] = c
  IN  IF i < Len(Kids(n)) THEN Kids(n)[i + 1] ELSE 0

LaterSiblings(n, c) ==
  LET i == CHOOSE j \in DOMAIN Kids(n) : Kids(n)[j] = c
  IN  {Kids(n)[j] : j \in i + 1 .. Len(Kids(n))}

(* A node as add_node_with_limit_internal leaves it (memset, then fields). *)
FreshNode(limit, duration) ==
  [last |-> "FAILURE", cursor |-> 0, counter |-> 0, limit |-> limit,
   duration |-> duration, deadline |-> 0, started |-> 0, timer |-> FALSE,
   elapsed |-> FALSE, evaluated |-> FALSE, once |-> FALSE, observed |-> FALSE,
   prepared |-> FALSE, branch |-> FALSE, running |-> FALSE]

BuiltNodes == [n \in Nodes |-> FreshNode(tree.limit[n], tree.duration[n])]

Off == [at |-> "off", child |-> 0, anyFailure |-> FALSE, anyRunning |-> FALSE]

(* int status = SALTS_OK, child_status = SALTS_BT_FAILURE before a call. *)
NoReturn == [rc |-> "OK", status |-> "FAILURE"]

(* A leaf is active while its last answer was RUNNING and it has not been  *)
(* halted, a context or branch open from prepare, begin or first enter to  *)
(* complete, finish or abort; completed counts RunOnce completions up to 2 *)
(* (one and more than one are all that matters).                           *)
NothingTold(N) ==
  [active |-> [n \in N |-> 0], context |-> [n \in N |-> 0],
   branch |-> [n \in N |-> 0], completed |-> [n \in N |-> 0]]

Init ==
  /\ tree \in Trees
  /\ dynamic = {}
  /\ node = BuiltNodes
  /\ cur = 0
  /\ frame = [n \in Nodes |-> Off]
  /\ ret = NoReturn
  /\ now = 0
  /\ result = "NONE"
  /\ host = NothingTold(Nodes)

---------------------------------------------------------------------------
(* reset_node_state_impl, for a set R of disjoint subtrees at once.  S and *)
(* h are the node table and the history it starts from.                    *)

Under(R) == UNION {Sub(n) : n \in R}

(* Is m reached through a parent that is a Parallel?  Only then is m's     *)
(* branch marker cleared: the root of a reset keeps its own.               *)
BranchReset(R, m) ==
  m \in Under(R) \ R /\ Kind(Parent(m)) = "PARALLEL"

(* Fault: every reset drops the RunOnce cache. *)
KeepsNoOnce(s, m, clear) == FALSE

(* The caches a reset keeps unless it is told to clear them. *)
KeepsOnce(s, m, clear)  == ~clear /\ Kind(m) = "RUN_ONCE" /\ s.once
KeepsEntry(s, m, clear) == ~clear /\ Kind(m) = "ENTRY_UPDATED" /\ s.observed

(* Fault: a halted leaf stays marked as running. *)
RunningAfterHalt(s, m) == s.running

(* A leaf is halted and its flag cleared; other kinds never set it. *)
StillRunning(s, m) == s.running /\ Kind(m) # "LEAF"

ClearedNode(S, R, m, clear) ==
  LET s == S[m]
      keepOnce  == KeepsOnce(s, m, clear)
      keepEntry == KeepsEntry(s, m, clear)
  IN  [s EXCEPT !.last = IF keepOnce \/ keepEntry THEN s.last ELSE "FAILURE",
                !.cursor = 0, !.counter = 0, !.deadline = 0, !.started = 0,
                !.timer = FALSE, !.elapsed = FALSE, !.evaluated = FALSE,
                !.once = keepOnce, !.observed = keepEntry, !.prepared = FALSE,
                !.branch = s.branch /\ ~BranchReset(R, m),
                !.running = StillRunning(s, m)]

Reset(S, R, clear) ==
  [m \in Nodes |-> IF m \in Under(R) THEN ClearedNode(S, R, m, clear) ELSE S[m]]

Bit(b) == IF b THEN 1 ELSE 0

(* The callbacks the walk makes: halt on a running leaf, the pipeline or   *)
(* queue abort of a prepared adapter, parallel_abort of an entered branch. *)
HostReset(h, S, R) ==
  [h EXCEPT
     !.active  = [m \in Nodes |-> @[m] -
                    Bit(m \in Under(R) /\ Kind(m) = "LEAF" /\ S[m].running)],
     !.context = [m \in Nodes |-> @[m] -
                    Bit(/\ m \in Under(R) /\ S[m].prepared
                        /\ Kind(m) \in {"PIPELINE_SEQUENCE", "CONSUME_QUEUE"})],
     !.branch  = [m \in Nodes |-> @[m] - Bit(BranchReset(R, m) /\ S[m].branch)]]

(* The RunOnce completions an explicit reset or an error lets the host     *)
(* forget.                                                                 *)
Forget(h, n) ==
  [h EXCEPT !.completed = [m \in Nodes |-> IF m \in Sub(n) THEN 0 ELSE @[m]]]

---------------------------------------------------------------------------
(* Calls and returns of tick_node.                                         *)

At(n, label) == cur = n /\ frame[n].at = label

(* The resolver, if there is one, runs before the node is un-evaluated.    *)
Entered(S, c) == IF c \in dynamic THEN S ELSE [S EXCEPT ![c].evaluated = FALSE]

EntryFrame(c) == [Off EXCEPT !.at = IF c \in dynamic THEN "enter" ELSE "run"]

(* tick_node(c) from node n, which resumes at the given label. *)
Call(n, c, label, S, h) ==
  /\ node' = Entered(S, c)
  /\ host' = h
  /\ cur' = c
  /\ frame' = [frame EXCEPT ![n] = [@ EXCEPT !.at = label, !.child = c],
                            ![c] = EntryFrame(c)]
  /\ ret' = NoReturn
  /\ UNCHANGED <<tree, dynamic, now, result>>

(* return SALTS_OK with *out_status = s; tick_node marks n evaluated. *)
Return(n, s, S, h) ==
  /\ node' = [S EXCEPT ![n].last = s, ![n].evaluated = TRUE]
  /\ host' = h
  /\ cur' = Parent(n)
  /\ frame' = [frame EXCEPT ![n] = Off]
  /\ ret' = IF Parent(n) = 0 THEN NoReturn ELSE [rc |-> "OK", status |-> s]
  /\ result' = IF Parent(n) = 0 THEN s ELSE result
  /\ UNCHANGED <<tree, dynamic, now>>

(* reset_node_state(id) and then the status s. *)
CompleteFrom(n, s, S, h) ==
  Return(n, s, Reset(S, {n}, FALSE), HostReset(h, S, {n}))

(* Fault: a terminal status without the reset. *)
CompleteInPlace(n, s) == Return(n, s, node, host)

Complete(n, s) == CompleteFrom(n, s, node, host)

(* RUNNING with the given child as cursor. *)
Suspend(n, c) == Return(n, "RUNNING", [node EXCEPT ![n].cursor = c], host)

(* return of an error code; at the root salts_bt_tree_tick sees it. *)
Raise(n, S, h) ==
  /\ node' = S
  /\ host' = h
  /\ cur' = IF Parent(n) = 0 THEN n ELSE Parent(n)
  /\ frame' = [frame EXCEPT
       ![n] = IF Parent(n) = 0 THEN [Off EXCEPT !.at = "abort"] ELSE Off]
  /\ ret' = [NoReturn EXCEPT !.rc = "ERROR"]
  /\ UNCHANGED <<tree, dynamic, now, result>>

RaiseAfterReset(n, S, h) ==
  Raise(n, Reset(S, {n}, FALSE), HostReset(h, S, {n}))

(* The child n was waiting for has returned normally. *)
Resumed(n, label) == At(n, label) /\ ret.rc = "OK"

(* Kinds that clean up their own subtree before passing an error on. *)
SelfCleaning == {"PIPELINE_SEQUENCE", "ENTRY_UPDATED", "CONSUME_QUEUE", "PARALLEL"}

ChildFailed(n) ==
  /\ At(n, "child") \/ At(n, "cond")
  /\ ret.rc = "ERROR"
  /\ IF Kind(n) \in SelfCleaning THEN RaiseAfterReset(n, node, host)
                                 ELSE Raise(n, node, host)

---------------------------------------------------------------------------
(* Public API, serialised on the driver thread: rejected while busy.       *)

Busy == cur # 0

Alive == result # "DESTROYED"

(* salts_bt_tree_tick, up to the tick of the root *)
TickTree ==
  /\ ~Busy /\ Alive
  /\ cur' = 1
  /\ node' = Entered(node, 1)
  /\ frame' = [frame EXCEPT ![1] = EntryFrame(1)]
  /\ result' = "NONE"
  /\ UNCHANGED <<tree, dynamic, ret, now, host>>

(* Fault: the failed tick is reset like an ordinary subtree, caches kept. *)
AbortTickKeepsCaches ==
  /\ At(1, "abort")
  /\ node' = Reset(node, {1}, FALSE)
  /\ host' = Forget(HostReset(host, node, {1}), 1)
  /\ cur' = 0
  /\ frame' = [frame EXCEPT ![1] = Off]
  /\ ret' = NoReturn
  /\ result' = "ERROR"
  /\ UNCHANGED <<tree, dynamic, now>>

(* The tail of salts_bt_tree_tick after an error: caches go as well. *)
AbortTick ==
  /\ At(1, "abort")
  /\ node' = Reset(node, {1}, TRUE)
  /\ host' = Forget(HostReset(host, node, {1}), 1)
  /\ cur' = 0
  /\ frame' = [frame EXCEPT ![1] = Off]
  /\ ret' = NoReturn
  /\ result' = "ERROR"
  /\ UNCHANGED <<tree, dynamic, now>>

(* salts_bt_tree_reset, salts_bt_tree_cancel and salts_bt_tree_destroy *)
ResetTree(outcome) ==
  /\ ~Busy /\ Alive
  /\ node' = Reset(node, {1}, TRUE)
  /\ host' = Forget(HostReset(host, node, {1}), 1)
  /\ result' = outcome
  /\ UNCHANGED <<tree, dynamic, cur, frame, ret, now>>

(* salts_bt_tree_init after a destroy, and the constructors again *)
Rebuild ==
  /\ ~Alive
  /\ dynamic' = {}
  /\ node' = BuiltNodes
  /\ result' = "NONE"
  /\ UNCHANGED <<tree, cur, frame, ret, now, host>>

(* salts_bt_tree_set_node_parameters_resolver: attach or replace (on) or   *)
(* detach (~on).  Either is an activation boundary of the subtree.         *)
SetResolver(n, on) ==
  /\ ~Busy /\ Alive
  /\ Kind(n) \in LimitKinds \cup DurationKinds
  /\ on \/ n \in dynamic
  /\ node' = [Reset(node, {n}, TRUE) EXCEPT ![n].limit = tree.limit[n],
                                            ![n].duration = tree.duration[n]]
  /\ host' = Forget(HostReset(host, node, {n}), n)
  /\ dynamic' = IF on THEN dynamic \cup {n} ELSE dynamic \ {n}
  /\ UNCHANGED <<tree, cur, frame, ret, now, result>>

(* The monotonic clock passes at any point, also between two reads of one  *)
(* tick.  Only Timeout and Delay read it.                                  *)
Elapse ==
  /\ \E n \in Nodes : Kind(n) \in DurationKinds
  /\ now < MaxNow
  /\ now' = now + 1
  /\ UNCHANGED <<tree, dynamic, node, cur, frame, ret, result, host>>

---------------------------------------------------------------------------
(* tick_node_impl: entry, and the leaf.                                    *)

(* a + b in uint64_t nanoseconds, saturating at UINT64_MAX. *)
Deadline(a, b) == IF b > TimeMax - a THEN TimeMax ELSE a + b

(* Fault: a running timer keeps the deadline it was armed with. *)
ResolvedOldDeadline(n, limit, duration) ==
  [node EXCEPT ![n].limit = limit, ![n].duration = duration, ![n].evaluated = FALSE]

Resolved(n, limit, duration) ==
  [node EXCEPT ![n].limit = limit, ![n].duration = duration,
               ![n].deadline = IF Kind(n) \in DurationKinds /\ node[n].timer
                               THEN Deadline(node[n].started, duration) ELSE @,
               ![n].evaluated = FALSE]

(* parameter_resolver: fails, overruns max_control_iterations, or sets the *)
(* one parameter its node has.                                             *)
ResolveParams(n) ==
  /\ At(n, "enter")
  /\ \/ Raise(n, node, host)
     \/ \E limit \in IF Kind(n) \in LimitKinds THEN 0..MaxIter ELSE {node[n].limit},
           duration \in IF Kind(n) \in DurationKinds THEN Durations
                                                     ELSE {node[n].duration} :
          /\ node' = Resolved(n, limit, duration)
          /\ frame' = [frame EXCEPT ![n].at = "run"]
          /\ UNCHANGED <<tree, dynamic, cur, ret, now, result, host>>

(* A handler value outside the three statuses is SALTS_EINVAL. *)
Leaf(n) ==
  /\ At(n, "run") /\ Kind(n) = "LEAF"
  /\ \/ Raise(n, node, host)
     \/ \E s \in Statuses :
          Return(n, s, [node EXCEPT ![n].running = (s = "RUNNING")],
                 [host EXCEPT !.active[n] = Bit(s = "RUNNING")])

---------------------------------------------------------------------------
(* Sequence, Fallback and their reactive forms.                            *)

Sequences == {"SEQUENCE", "REACTIVE_SEQUENCE"}

(* The child status that ends the walk, and the one an exhausted walk has. *)
StopsOn(n)  == IF Kind(n) \in Sequences THEN "FAILURE" ELSE "SUCCESS"
EndsWith(n) == IF Kind(n) \in Sequences THEN "SUCCESS" ELSE "FAILURE"

CompositeStart(n) ==
  /\ At(n, "run") /\ Kind(n) \in Memory \cup Reactive
  /\ \/ Kids(n) = << >> /\ Complete(n, EndsWith(n))
     \/ /\ Kids(n) # << >>
        /\ LET resume == Kind(n) \in Memory /\ node[n].cursor # 0
           IN  Call(n, IF resume THEN node[n].cursor ELSE First(n), "child", node, host)

(* Fault: lower-priority siblings keep running. *)
CompositeRunningOnly(n, c) == Suspend(n, c)

CompositeRunning(n, c) ==
  LET later == IF Kind(n) \in Reactive THEN LaterSiblings(n, c) ELSE {}
  IN  Return(n, "RUNNING", [Reset(node, later, FALSE) EXCEPT ![n].cursor = c],
             HostReset(host, node, later))

CompositeNext(n) ==
  /\ Resumed(n, "child") /\ Kind(n) \in Memory \cup Reactive
  /\ LET c    == frame[n].child
         next == NextSibling(n, c)
     IN  \/ ret.status = "RUNNING" /\ CompositeRunning(n, c)
         \/ ret.status = StopsOn(n) /\ Complete(n, ret.status)
         \/ ret.status = EndsWith(n) /\ next = 0 /\ Complete(n, ret.status)
         \/ /\ ret.status = EndsWith(n) /\ next # 0
            /\ Call(n, next, "child",
                    IF Kind(n) \in Memory THEN [node EXCEPT ![n].cursor = next]
                                          ELSE node, host)

---------------------------------------------------------------------------
(* Decorators with one child.                                              *)

Decorate(n, s) ==
  CASE Kind(n) = "INVERTER" /\ s = "SUCCESS" -> "FAILURE"
    [] Kind(n) = "INVERTER" /\ s = "FAILURE" -> "SUCCESS"
    [] Kind(n) = "FORCE_SUCCESS" /\ s # "RUNNING" -> "SUCCESS"
    [] Kind(n) = "FORCE_FAILURE" /\ s # "RUNNING" -> "FAILURE"
    [] OTHER -> s

DecoratorStart(n) ==
  /\ At(n, "run") /\ Kind(n) \in SimpleDecorators
  /\ Call(n, First(n), "child", node, host)

DecoratorReturn(n) ==
  /\ Resumed(n, "child") /\ Kind(n) \in SimpleDecorators
  /\ Return(n, Decorate(n, ret.status), node, host)

RunOnceStart(n) ==
  /\ At(n, "run") /\ Kind(n) = "RUN_ONCE"
  /\ \/ node[n].once /\ Return(n, node[n].last, node, host)
     \/ ~node[n].once /\ Call(n, First(n), "child", node, host)

RunOnceReturn(n) ==
  /\ Resumed(n, "child") /\ Kind(n) = "RUN_ONCE"
  /\ LET done == ret.status # "RUNNING"
     IN  Return(n, ret.status, [node EXCEPT ![n].once = done],
                [host EXCEPT !.completed[n] = IF @ < 2 THEN @ + Bit(done) ELSE @])

---------------------------------------------------------------------------
(* Bounded loops.  Retry and Repeat loop inside one tick, the cooperative  *)
(* WhileDo and KeepRunningUntilFailure run one iteration per tick.         *)

Spent(n) == IF Kind(n) \in {"REPEAT", "WHILE_DO"} THEN "SUCCESS" ELSE "FAILURE"

LoopSpent(n) ==
  /\ At(n, "run") /\ Kind(n) \in LimitKinds
  /\ node[n].counter >= node[n].limit
  /\ Complete(n, Spent(n))

LoopStart(n) ==
  /\ At(n, "run") /\ Kind(n) \in LimitKinds \ {"WHILE_DO"}
  /\ node[n].counter < node[n].limit
  /\ Call(n, First(n), "child", node, host)

(* Fault: the iteration is not counted. *)
IteratedUncounted(n) ==
  [Reset(node, {frame[n].child}, FALSE) EXCEPT ![n].cursor = 0]

(* ++counter and reset_node_state of the child that has just completed. *)
Iterated(n) ==
  [Reset(node, {frame[n].child}, FALSE) EXCEPT ![n].counter = @ + 1, ![n].cursor = 0]

RetryRepeatReturn(n) ==
  /\ Resumed(n, "child") /\ Kind(n) \in {"RETRY", "REPEAT"}
  /\ \/ ret.status = "RUNNING" /\ Return(n, "RUNNING", node, host)
     \/ Kind(n) = "RETRY" /\ ret.status = "SUCCESS" /\ Complete(n, "SUCCESS")
     \/ /\ ret.status = "FAILURE" \/ (Kind(n) = "REPEAT" /\ ret.status = "SUCCESS")
        /\ node' = Iterated(n)
        /\ host' = HostReset(host, node, {frame[n].child})
        /\ frame' = [frame EXCEPT ![n].at = "run"]
        /\ UNCHANGED <<tree, dynamic, cur, ret, now, result>>

CooperativeReturn(n) ==
  /\ Resumed(n, "child") /\ Kind(n) \in {"WHILE_DO", "KEEP_RUNNING_UNTIL_FAILURE"}
  /\ LET told == HostReset(host, node, {frame[n].child})
         body == IF Kind(n) = "WHILE_DO" THEN frame[n].child ELSE 0
     IN  \/ ret.status = "RUNNING" /\ Suspend(n, body)
         \/ /\ ret.status = "FAILURE"
            /\ Complete(n, IF Kind(n) = "WHILE_DO" THEN "FAILURE" ELSE "SUCCESS")
         \/ /\ ret.status = "SUCCESS"
            /\ IF node[n].counter + 1 >= node[n].limit
               THEN CompleteFrom(n, Spent(n), Iterated(n), told)
               ELSE Return(n, "RUNNING", Iterated(n), told)

---------------------------------------------------------------------------
(* Guarded control: IfThenElse, Precondition and WhileDo ask a condition,  *)
(* Switch a selector; then one branch is ticked.                           *)

Guarded == {"IF_THEN_ELSE", "PRECONDITION", "WHILE_DO"}

Then(n) == Kids(n)[IF n \in tree.cond THEN 1 ELSE 2]

(* The branch a settled condition selects, 0 for none. *)
Selected(n, s) ==
  CASE s = "SUCCESS" -> Then(n)
    [] s = "FAILURE" /\ Kind(n) = "IF_THEN_ELSE" -> NextSibling(n, Then(n))
    [] OTHER -> 0

(* A cursor that is not the branch to keep is reset. *)
Stale(n, keep) == {node[n].cursor} \ {0, keep}

SwitchedTo(n, keep) ==
  [Reset(node, Stale(n, keep), FALSE)
     EXCEPT ![n].cursor = IF @ = keep THEN @ ELSE 0]

TickBranch(n, c) ==
  Call(n, c, "child", SwitchedTo(n, c), HostReset(host, node, Stale(n, c)))

ConditionSettled(n, s) ==
  \/ /\ s = "RUNNING"
     /\ Return(n, "RUNNING", SwitchedTo(n, 0), HostReset(host, node, Stale(n, 0)))
  \/ /\ s # "RUNNING" /\ Selected(n, s) # 0
     /\ TickBranch(n, Selected(n, s))
  \/ /\ s # "RUNNING" /\ Selected(n, s) = 0
     /\ Complete(n, IF Kind(n) = "WHILE_DO" THEN "SUCCESS" ELSE "FAILURE")

(* A predicate callback answers at once, or fails; an in-tree condition is *)
(* the first child.                                                        *)
AskCondition(n) ==
  /\ At(n, "run") /\ Kind(n) \in Guarded
  /\ Kind(n) = "WHILE_DO" => node[n].counter < node[n].limit
  /\ \/ n \notin tree.cond /\ Call(n, First(n), "cond", node, host)
     \/ n \in tree.cond /\ Raise(n, node, host)
     \/ n \in tree.cond /\ \E s \in Statuses : ConditionSettled(n, s)

ConditionReturn(n) == Resumed(n, "cond") /\ ConditionSettled(n, ret.status)

(* The selector fails, names no case, or names case i + 1. *)
SelectCase(n) ==
  /\ At(n, "run") /\ Kind(n) = "SWITCH"
  /\ \/ Raise(n, node, host)
     \/ Complete(n, "FAILURE")
     \/ \E c \in SeqRange(Kids(n)) : TickBranch(n, c)

BranchReturn(n) ==
  /\ Resumed(n, "child") /\ Kind(n) \in {"IF_THEN_ELSE", "PRECONDITION", "SWITCH"}
  /\ IF ret.status = "RUNNING" THEN Suspend(n, frame[n].child)
                               ELSE Complete(n, ret.status)

---------------------------------------------------------------------------
(* Timers.                                                                 *)

Armed(n) ==
  IF node[n].timer THEN node
  ELSE [node EXCEPT ![n].started = now, ![n].timer = TRUE,
                    ![n].deadline = Deadline(now, node[n].duration)]

TimeoutStart(n) ==
  /\ At(n, "run") /\ Kind(n) = "TIMEOUT"
  /\ IF now >= Armed(n)[n].deadline
     THEN CompleteFrom(n, "FAILURE", Armed(n), host)
     ELSE Call(n, First(n), "child", Armed(n), host)

(* The clock is read again: a late answer of the child is a FAILURE. *)
TimeoutReturn(n) ==
  /\ Resumed(n, "child") /\ Kind(n) = "TIMEOUT"
  /\ \/ now >= node[n].deadline /\ Complete(n, "FAILURE")
     \/ /\ now < node[n].deadline
        /\ IF ret.status = "RUNNING" THEN Return(n, "RUNNING", node, host)
                                     ELSE Complete(n, ret.status)

DelayStart(n) ==
  /\ At(n, "run") /\ Kind(n) = "DELAY"
  /\ \/ node[n].elapsed /\ Call(n, First(n), "child", node, host)
     \/ /\ ~node[n].elapsed /\ now < Armed(n)[n].deadline
        /\ Return(n, "RUNNING", Armed(n), host)
     \/ /\ ~node[n].elapsed /\ now >= Armed(n)[n].deadline
        /\ Call(n, First(n), "child",
                [node EXCEPT ![n].elapsed = TRUE, ![n].timer = FALSE,
                             ![n].deadline = 0, ![n].started = 0], host)

DelayReturn(n) ==
  /\ Resumed(n, "child") /\ Kind(n) = "DELAY"
  /\ IF ret.status = "RUNNING" THEN Return(n, "RUNNING", node, host)
                               ELSE Complete(n, ret.status)

---------------------------------------------------------------------------
(* Adapters with a host-owned context.                                     *)

Opened(n) == [node EXCEPT ![n].prepared = TRUE]
TellOpened(n) == [host EXCEPT !.context[n] = @ + 1]
TellClosed(n) == [host EXCEPT !.context[n] = @ - 1]

(* The pipeline stage to run, 0 after the last. *)
Stage(n) ==
  CASE node[n].cursor # 0 -> node[n].cursor
    [] node[n].cursor = 0 /\ node[n].counter < Len(Kids(n)) ->
         Kids(n)[node[n].counter + 1]
    [] OTHER -> 0

PipelineStart(n) ==
  /\ At(n, "run") /\ Kind(n) = "PIPELINE_SEQUENCE"
  /\ \/ Stage(n) = 0 /\ Complete(n, "SUCCESS")
     \/ Stage(n) # 0 /\ node[n].prepared /\ Call(n, Stage(n), "child", node, host)
     \/ /\ Stage(n) # 0 /\ ~node[n].prepared     \* pipeline_prepare
        /\ \/ RaiseAfterReset(n, Opened(n), TellOpened(n))
           \/ Call(n, Stage(n), "child", Opened(n), TellOpened(n))

(* A terminal stage is handed to pipeline_complete, then the next one. *)
PipelineReturn(n) ==
  /\ Resumed(n, "child") /\ Kind(n) = "PIPELINE_SEQUENCE"
  /\ LET closed == [node EXCEPT ![n].cursor = 0, ![n].prepared = FALSE]
     IN  \/ ret.status = "RUNNING" /\ Suspend(n, frame[n].child)
         \/ ret.status # "RUNNING" /\ RaiseAfterReset(n, node, host)
         \/ ret.status = "FAILURE" /\ CompleteFrom(n, "FAILURE", closed, TellClosed(n))
         \/ /\ ret.status = "SUCCESS"
            /\ node' = [closed EXCEPT ![n].counter = @ + 1]
            /\ host' = TellClosed(n)
            /\ frame' = [frame EXCEPT ![n].at = "run"]
            /\ UNCHANGED <<tree, dynamic, cur, ret, now, result>>

(* queue_begin fails, finds nothing, or takes an item. *)
QueueStart(n) ==
  /\ At(n, "run") /\ Kind(n) = "CONSUME_QUEUE"
  /\ \/ node[n].prepared /\ Call(n, First(n), "child", node, host)
     \/ ~node[n].prepared /\ RaiseAfterReset(n, Opened(n), TellOpened(n))
     \/ ~node[n].prepared /\ Complete(n, "FAILURE")
     \/ ~node[n].prepared /\ Call(n, First(n), "child", Opened(n), TellOpened(n))

(* A failed item is aborted, a successful one committed by queue_finish. *)
QueueReturn(n) ==
  /\ Resumed(n, "child") /\ Kind(n) = "CONSUME_QUEUE"
  /\ LET committed == [node EXCEPT ![n].prepared = FALSE]
         again == [Reset(committed, {First(n)}, FALSE) EXCEPT ![n].cursor = 0]
     IN  \/ ret.status = "RUNNING" /\ Suspend(n, First(n))
         \/ ret.status = "FAILURE" /\ Complete(n, "FAILURE")
         \/ /\ ret.status = "SUCCESS"
            /\ \/ RaiseAfterReset(n, node, host)
               \/ Return(n, "RUNNING", again,
                         HostReset(TellClosed(n), committed, {First(n)}))
               \/ CompleteFrom(n, "SUCCESS", committed, TellClosed(n))

(* entry_changed; an unchanged, settled entry answers from its cache. *)
EntryStart(n) ==
  /\ At(n, "run") /\ Kind(n) = "ENTRY_UPDATED"
  /\ \/ RaiseAfterReset(n, node, host)
     \/ \E reported \in BOOLEAN :
          LET changed == reported \/ ~node[n].observed
              fresh   == IF changed THEN {First(n)} ELSE {}
              cached  == ~changed /\ node[n].cursor = 0 /\ node[n].last # "RUNNING"
          IN  \/ cached /\ Return(n, node[n].last, node, host)
              \/ /\ ~cached
                 /\ Call(n, First(n), "child",
                         [Reset(node, fresh, FALSE) EXCEPT
                            ![n].cursor = IF changed THEN 0 ELSE @,
                            ![n].observed = TRUE],
                         HostReset(host, node, fresh))

EntryReturn(n) ==
  /\ Resumed(n, "child") /\ Kind(n) = "ENTRY_UPDATED"
  /\ Return(n, ret.status,
            [node EXCEPT ![n].cursor = IF ret.status = "RUNNING" THEN First(n) ELSE 0],
            host)

---------------------------------------------------------------------------
(* Parallel: tick every branch, join, then finish the terminal branches.   *)

Settled(c) == node[c].evaluated /\ node[c].last # "RUNNING"

(* Take the branch's status into account and move to the next branch. *)
Advance(n, c, s) ==
  /\ frame' = [frame EXCEPT ![n] =
       [at         |-> IF NextSibling(n, c) = 0 THEN "join" ELSE "run",
        child      |-> NextSibling(n, c),
        anyFailure |-> @.anyFailure \/ s = "FAILURE",
        anyRunning |-> @.anyRunning \/ s = "RUNNING"]]
  /\ UNCHANGED <<tree, dynamic, node, cur, ret, now, result, host>>

(* parallel_enter owns the branch from before its first call. *)
ParallelEnter(n) ==
  /\ At(n, "run") /\ Kind(n) = "PARALLEL"
  /\ LET c     == IF frame[n].child = 0 THEN First(n) ELSE frame[n].child
         hooks == n \in tree.hooks
         S     == [node EXCEPT ![c].branch = @ \/ hooks]
         h     == [host EXCEPT !.branch[c] = @ + Bit(hooks /\ ~node[c].branch)]
     IN  IF Settled(c) THEN Advance(n, c, node[c].last)
         ELSE \/ Call(n, c, "child", S, h)
              \/ hooks /\ RaiseAfterReset(n, S, h)

(* parallel_step *)
ParallelStep(n) ==
  /\ Resumed(n, "child") /\ Kind(n) = "PARALLEL"
  /\ \/ Advance(n, frame[n].child, ret.status)
     \/ /\ n \in tree.hooks /\ node[frame[n].child].branch
        /\ RaiseAfterReset(n, node, host)

Aggregate(n) ==
  CASE frame[n].anyRunning -> "RUNNING"
    [] ~frame[n].anyRunning /\ frame[n].anyFailure -> "FAILURE"
    [] OTHER -> "SUCCESS"

(* parallel_join *)
ParallelJoin(n) ==
  /\ At(n, "join")
  /\ \/ n \in tree.hooks /\ RaiseAfterReset(n, node, host)
     \/ /\ frame' = [frame EXCEPT ![n].at = "finish", ![n].child = First(n)]
        /\ UNCHANGED <<tree, dynamic, node, cur, ret, now, result, host>>

(* parallel_finish of branch c; while another branch keeps the node RUNNING *)
(* a terminal branch starts a new activation: it is reset, caches included. *)
ParallelFinish(n) ==
  /\ At(n, "finish")
  /\ LET c      == frame[n].child
         finish == n \in tree.hooks /\ node[c].branch /\ Settled(c)
         renew  == Aggregate(n) = "RUNNING" /\ Settled(c)
         closed == [node EXCEPT ![c].branch = @ /\ ~finish /\ ~renew]
         again  == IF renew THEN {c} ELSE {}
         S      == Reset(closed, again, TRUE)
         h      == HostReset([host EXCEPT !.branch[c] = @ - Bit(finish)], closed, again)
     IN  \/ finish /\ RaiseAfterReset(n, node, host)
         \/ /\ NextSibling(n, c) # 0
            /\ node' = S /\ host' = h
            /\ frame' = [frame EXCEPT ![n].child = NextSibling(n, c)]
            /\ UNCHANGED <<tree, dynamic, cur, ret, now, result>>
         \/ /\ NextSibling(n, c) = 0
            /\ IF Aggregate(n) = "RUNNING" THEN Return(n, "RUNNING", S, h)
                                           ELSE CompleteFrom(n, Aggregate(n), S, h)

---------------------------------------------------------------------------
(* One step of the tick in progress. *)
TickStep(n) ==
  \/ ChildFailed(n)       \/ ResolveParams(n)     \/ Leaf(n)
  \/ CompositeStart(n)    \/ CompositeNext(n)
  \/ DecoratorStart(n)    \/ DecoratorReturn(n)
  \/ RunOnceStart(n)      \/ RunOnceReturn(n)
  \/ LoopSpent(n)         \/ LoopStart(n)
  \/ RetryRepeatReturn(n) \/ CooperativeReturn(n)
  \/ AskCondition(n)      \/ ConditionReturn(n)
  \/ SelectCase(n)        \/ BranchReturn(n)
  \/ TimeoutStart(n)      \/ TimeoutReturn(n)
  \/ DelayStart(n)        \/ DelayReturn(n)
  \/ PipelineStart(n)     \/ PipelineReturn(n)
  \/ QueueStart(n)        \/ QueueReturn(n)
  \/ EntryStart(n)        \/ EntryReturn(n)
  \/ ParallelEnter(n)     \/ ParallelStep(n)
  \/ ParallelJoin(n)      \/ ParallelFinish(n)

Tick == AbortTick \/ \E n \in Nodes : TickStep(n)

Next ==
  \/ TickTree
  \/ \E n \in Nodes : TickStep(n)
  \/ AbortTick
  \/ ResetTree("NONE")
  \/ ResetTree("DESTROYED")
  \/ Rebuild
  \/ \E n \in Nodes, on \in BOOLEAN : SetResolver(n, on)
  \/ Elapse

(* The driver thread keeps executing a tick it has started, and callbacks  *)
(* return; nothing obliges the host to tick again.                         *)
Spec == Init /\ [][Next]_vars /\ WF_vars(Tick)

---------------------------------------------------------------------------
(* Properties.                                                             *)

(* Callbacks pair up: the host never sees a halt of a leaf that is not      *)
(* active, an abort of a context or branch it has already completed, nor a  *)
(* second prepare, begin or first enter of one that is still open           *)
(* (reset_node_state_impl against the prepared / running / branch flags).   *)
BalancedCallbacks ==
  \A n \in Nodes : {host.active[n], host.context[n], host.branch[n]} \subseteq {0, 1}

Quiet(N) ==
  \A m \in N : host.active[m] = 0 /\ host.context[m] = 0 /\ host.branch[m] = 0

(* Between API calls, a tree whose last outcome is not RUNNING has no leaf  *)
(* running and no pipeline, queue or branch context open: every terminal    *)
(* path, error and cancellation of a tick halts what it started.            *)
NoOrphanedWork == ~Busy /\ result # "RUNNING" => Quiet(Nodes)

(* Between API calls, only a Parallel has work under more than one of its   *)
(* children: a sequence, a guard or a switch that moves to another child    *)
(* has first halted the one it leaves.                                      *)
SingleActiveBranch ==
  ~Busy => \A n \in Nodes : Kind(n) # "PARALLEL" =>
             \A c, d \in SeqRange(Kids(n)) :
               c # d => Quiet(tree.sub[c]) \/ Quiet(tree.sub[d])

(* A reset, a cancellation and an aborted tick leave every node as it was   *)
(* built: no cursor, counter, timer, cache or marker of the old activation. *)
IdleIsFresh ==
  ~Busy /\ result \in {"NONE", "ERROR", "DESTROYED"} =>
    \A n \in Nodes : node[n] = FreshNode(node[n].limit, node[n].duration)

(* A started timer runs towards the duration in force: a resolver that      *)
(* changes the duration moves the deadline of the running timer too, and an *)
(* end beyond the largest clock value is that value, never one in the past. *)
DeadlineInForce ==
  \A n \in Nodes : node[n].timer =>
    /\ node[n].started <= now
    /\ \/ node[n].deadline = node[n].started + node[n].duration
       \/ /\ node[n].deadline = TimeMax
          /\ TimeMax < node[n].started + node[n].duration
    /\ node[n].deadline <= TimeMax

(* A RunOnce lets its child complete at most once until an explicit reset   *)
(* or an error clears its cache (behavior_tree.h:363).                      *)
CompletesOnce == \A n \in Nodes : host.completed[n] <= 1

(* Every tick ends: no control node loops for ever inside salts_bt_tree_tick. *)
TickTerminates == Busy ~> ~Busy

===========================================================================
