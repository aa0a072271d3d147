------------------------- MODULE BehaviorTreeProofs -------------------------
(***************************************************************************)
(* Proofs about BehaviorTree, for every set of well-formed trees, every     *)
(* iteration limit and every clock.                                         *)
(*                                                                         *)
(* A step of a tick belongs to the node that is executing.  It calls a      *)
(* child, returns to the parent, raises an error or goes on; before that it *)
(* has turned the node table and the history into some S and h.  The        *)
(* argument is in two halves: what S and h are is shown to be harmless      *)
(* action by action (Effect), and that the four ways to go on then keep the *)
(* invariant is shown once (ReturnKeeps, CallKeeps, RaiseKeeps, LocalKeeps). *)
(***************************************************************************)
EXTENDS BehaviorTree, WellFoundedInduction, TLAPS

(***************************************************************************)
(* The inductive invariant.                                                *)
(***************************************************************************)

NodeRecord ==
  [last : Statuses, cursor : Nat, counter : Nat, limit : Nat, duration : Nat,
   deadline : Nat, started : Nat, timer : BOOLEAN, elapsed : BOOLEAN,
   evaluated : BOOLEAN, once : BOOLEAN, observed : BOOLEAN, prepared : BOOLEAN,
   branch : BOOLEAN, running : BOOLEAN]

Tables == [Nodes -> NodeRecord]

Histories ==
  [active : [Nodes -> Int], context : [Nodes -> Int], branch : [Nodes -> Int],
   completed : [Nodes -> 0..2]]

Labels == {"off", "enter", "run", "child", "cond", "join", "finish", "abort"}

Frames == [at : Labels, child : Nat, anyFailure : BOOLEAN, anyRunning : BOOLEAN]

Returns == [rc : {"OK", "ERROR"}, status : Statuses]

Outcomes == Statuses \cup {"NONE", "ERROR", "DESTROYED"}

KidsOf(n) == SeqRange(Kids(n))

(* The cursor of a node is one of its children, or 0. *)
Cursors(S) == \A n \in Nodes : S[n].cursor \in KidsOf(n) \cup {0}

Waiting == {"child", "cond"}

(* The call stack is the path from the root to the executing node. *)
Path(f, c) ==
  /\ c # 0 => f[c].at # "off"
  /\ \A n \in Nodes : f[n].at # "off" =>
       /\ c # 0
       /\ n # c => f[n].at \in Waiting /\ c \in Sub(n)
       /\ Parent(n) # 0 => /\ f[Parent(n)].at \in Waiting
                           /\ f[Parent(n)].child = n

Adapters == {"PIPELINE_SEQUENCE", "CONSUME_QUEUE"}

(* What a node relies on when it goes on after a call. *)
Locals(S, f) ==
  \A n \in Nodes :
    /\ f[n].at \in Waiting \cup {"finish"} => f[n].child \in KidsOf(n)
    /\ f[n].at \in {"enter", "run", "join", "finish"} => f[n].child \in KidsOf(n) \cup {0}
    /\ f[n].at \in {"join", "finish"} => Kind(n) = "PARALLEL"
    /\ f[n].at = "abort" => n = 1
    /\ f[n].at = "cond" =>
         f[n].child = First(n) /\ Kind(n) \in Guarded /\ n \notin tree.cond
    /\ f[n].at = "child" /\ Kind(n) \in Adapters => S[n].prepared
    /\ f[n].at = "child" /\ Kind(n) = "RUN_ONCE" => ~S[n].once

(* The flags of the node table are what the host has been told. *)
MirrorAt(S, h, m) ==
  /\ h.active[m] = Bit(S[m].running)
  /\ h.context[m] = Bit(S[m].prepared)
  /\ h.branch[m] = Bit(S[m].branch)
  /\ S[m].running => Kind(m) = "LEAF"
  /\ S[m].prepared => Kind(m) \in Adapters
  /\ S[m].branch => Parent(m) \in tree.hooks

Mirror(S, h) == \A m \in Nodes : MirrorAt(S, h, m)

(* Nothing is open at m, leaving the branch marker aside, which belongs to  *)
(* the parent.                                                              *)
Still(S, m) == ~S[m].running /\ ~S[m].prepared

(* Nothing is open at m and below it. *)
Clean(S, m) ==
  \A k \in Sub(m) : Still(S, k) /\ (k # m => ~S[k].branch)

Settles(S, m) == S[m].last # "RUNNING" => Clean(S, m)

Cachers == {"RUN_ONCE", "ENTRY_UPDATED"}

(* A node that is not executing and did not answer RUNNING has nothing open *)
(* below it; the two kinds that answer from a cache rely on that when they  *)
(* are entered again.                                                       *)
SettledOff(S, f, r) ==
  r.rc = "OK" => \A n \in Nodes :
    \/ f[n].at = "off"
    \/ f[n].at \in {"enter", "run"} /\ Kind(n) \in Cachers
    => Settles(S, n)

(* The kinds that run one of several children. *)
Focusing == Memory \cup Reactive \cup Guarded \cup {"SWITCH", "PIPELINE_SEQUENCE"}

(* A node that is not waiting for a child has work only under its cursor,   *)
(* or under the in-tree condition it is asking.                             *)
OffFocus(S, n) ==
  Kind(n) \in Focusing =>
    \A c \in KidsOf(n) :
      \/ Clean(S, c)
      \/ c = S[n].cursor
      \/ S[n].cursor = 0 /\ Kind(n) \in Guarded /\ n \notin tree.cond /\ c = First(n)

(* While it waits for x, also under the branch it may be about to leave: a  *)
(* guard's while it asks, a reactive node's later than x.                   *)
CallFocus(S, n, label, x) ==
  Kind(n) \in Focusing =>
    \A c \in KidsOf(n) :
      \/ Clean(S, c)
      \/ c = x
      \/ c = S[n].cursor /\ (label = "cond" \/ (Kind(n) \in Reactive /\ x < c))

Focus(S, f, r) ==
  r.rc = "OK" => \A n \in Nodes :
    /\ f[n].at \in {"off", "enter", "run"} => OffFocus(S, n)
    /\ f[n].at \in Waiting => CallFocus(S, n, f[n].at, f[n].child)

(* An error is on its way up, or the answer is the child's. *)
Returned(S, f, c, r) ==
  /\ r.rc = "ERROR" => c # 0 /\ f[c].at \in Waiting \cup {"abort"}
  /\ c # 0 /\ r.rc = "OK" /\ f[c].at \in Waiting => S[f[c].child].last = r.status

(* A timer that runs ends at the duration in force, saturated. *)
TimerAt(S, m) ==
  S[m].timer =>
    /\ S[m].started <= now
    /\ \/ S[m].deadline = S[m].started + S[m].duration
       \/ /\ S[m].deadline = TimeMax
          /\ TimeMax < S[m].started + S[m].duration
    /\ S[m].deadline <= TimeMax

Timers(S) == \A m \in Nodes : TimerAt(S, m)

(* No Parallel above m renews it while the tree is RUNNING. *)
Sheltered(m) == \A p \in Nodes : Kind(p) = "PARALLEL" => m \notin Sub(p)

(* A RunOnce has completed exactly when its cache is filled. *)
OnceAt(S, h, m) ==
  /\ Kind(m) # "RUN_ONCE" => h.completed[m] = 0
  /\ Kind(m) = "RUN_ONCE" /\ Sheltered(m) => h.completed[m] = Bit(S[m].once)

Onces(S, h) == \A m \in Nodes : OnceAt(S, h, m)

AsBuilt(s) == s = FreshNode(s.limit, s.duration)

(* Between API calls. *)
Between(S, h, c, res) ==
  /\ c # 0 => res = "NONE"
  /\ c = 0 /\ res # "RUNNING" => Clean(S, 1)
  /\ c = 0 /\ res \in {"NONE", "ERROR", "DESTROYED"} => \A n \in Nodes : AsBuilt(S[n])
  /\ res = "DESTROYED" => c = 0 /\ \A n \in Nodes : h.completed[n] = 0

(* What holds of a node table and a history whoever executes. *)
Sound(S, h) ==
  /\ S \in Tables /\ h \in Histories
  /\ Cursors(S) /\ Mirror(S, h) /\ Timers(S) /\ Onces(S, h)

(* What holds of them, the call stack, the answer and the last outcome. *)
Consistent(S, h, f, c, r, res) ==
  /\ Sound(S, h)
  /\ f \in [Nodes -> Frames] /\ c \in Nodes \cup {0} /\ r \in Returns /\ res \in Outcomes
  /\ Path(f, c) /\ Locals(S, f) /\ Returned(S, f, c, r)
  /\ SettledOff(S, f, r) /\ Focus(S, f, r) /\ Between(S, h, c, res)

IInv ==
  /\ tree \in Trees /\ now \in 0..MaxNow
  /\ Consistent(node, host, frame, cur, ret, result)

(***************************************************************************)
(* The steps.                                                              *)
(***************************************************************************)

(* S and h differ from the state only below n, whose proper descendants     *)
(* are as nodes that are not executing must be.                             *)
Below(n, S) ==
  \A m \in Sub(n) \ {n} : Settles(S, m) /\ OffFocus(S, m)

Outside(n, S) == \A m \in Nodes \ Sub(n) : S[m] = node[m]

Effect(n, S, h) == Sound(S, h) /\ Outside(n, S) /\ Below(n, S)

---------------------------------------------------------------------------
(* Facts about trees.  Induction is by the least counterexample.           *)

(* A non-empty set of naturals has a least element. *)
LEMMA LeastElement ==
  ASSUME NEW T, T \subseteq Nat, T # {}
  PROVE  \E x \in T : \A y \in T : x <= y
<1> DEFINE R == OpToRel(<, Nat)
<1>1. IsWellFoundedOn(R, Nat)
  BY NatLessThanWellFounded
<1>2. \E x \in T : \A y \in T : ~(<<y, x>> \in R)
  <2> HIDE DEF R
  <2> QED
    BY <1>1, WFMin
<1>3. PICK x \in T : \A y \in T : ~(<<y, x>> \in R)
  BY <1>2
<1>4. \A y \in T : x <= y
  <2> TAKE y \in T
  <2>1. x \in Nat /\ y \in Nat
    OBVIOUS
  <2>2. ~(y < x)
    BY <1>3, <2>1 DEF OpToRel
  <2> QED
    BY <2>1, <2>2
<1> QED
  BY <1>4

(* What WellFormed says, in the vocabulary of the actions. *)
LEMMA TreeFacts ==
  ASSUME tree \in Trees
  PROVE  /\ Nodes \subseteq Nat \ {0} /\ 1 \in Nodes
         /\ \A n \in Nodes :
              /\ Kind(n) \in Kinds /\ Kids(n) \in Seq(Nodes)
              /\ Parent(n) \in Nodes \cup {0} /\ Parent(n) \in Nat /\ Parent(n) < n
              /\ Parent(n) = 0 <=> n = 1
              /\ Sub(n) \in SUBSET Nodes
              /\ tree.limit[n] \in Nat /\ tree.duration[n] \in Nat
         /\ \A n, m \in Nodes : /\ Parent(m) = n <=> m \in KidsOf(n)
                                /\ m \in Sub(n) <=> m = n \/ Parent(m) \in Sub(n)
         /\ \A n \in tree.hooks : n \in Nodes /\ Kind(n) = "PARALLEL"
<1>1. WellFormed(tree)
  BY TreesAssumption
<1>2. \A x \in 0..MaxIter : x \in Nat
  BY BoundsAssumption
<1>3. Nodes \subseteq Nat \ {0} /\ 1 \in Nodes
  BY <1>1 DEF WellFormed, Nodes
<1>4. ASSUME NEW n \in Nodes
      PROVE  /\ Kind(n) \in Kinds /\ Kids(n) \in Seq(Nodes)
             /\ Parent(n) \in Nodes \cup {0} /\ Parent(n) < n
             /\ Parent(n) = 0 <=> n = 1
             /\ Sub(n) \in SUBSET Nodes
             /\ tree.limit[n] \in Nat /\ tree.duration[n] \in Nat
  BY <1>1, <1>2, <1>4 DEF WellFormed, Nodes, Kind, Kids, Parent, Sub
<1>5. \A n, m \in Nodes : /\ Parent(m) = n <=> m \in KidsOf(n)
                          /\ m \in Sub(n) <=> m = n \/ Parent(m) \in Sub(n)
  BY <1>1 DEF WellFormed, Nodes, Kids, Parent, Sub, KidsOf
<1>6. \A n \in tree.hooks : n \in Nodes /\ Kind(n) = "PARALLEL"
  BY <1>1 DEF WellFormed, Nodes, Kind
<1>7. ASSUME NEW n \in Nodes PROVE Parent(n) \in Nat
  <2>1. Parent(n) \in Nodes \/ Parent(n) = 0
    BY <1>4
  <2>2. CASE Parent(n) \in Nodes
    BY <1>3, <2>2
  <2>3. CASE Parent(n) = 0
    BY <2>3
  <2> QED
    BY <2>1, <2>2, <2>3
<1> QED
  BY <1>3, <1>4, <1>5, <1>6, <1>7, Zenon

(* The number of children that a kind has. *)
LEMMA KidCounts ==
  ASSUME tree \in Trees, NEW n \in Nodes
  PROVE  /\ Kind(n) = "LEAF" => Kids(n) = << >>
         /\ Kind(n) \in SimpleDecorators \cup DurationKinds \cup
              {"RETRY", "REPEAT", "KEEP_RUNNING_UNTIL_FAILURE", "RUN_ONCE",
               "ENTRY_UPDATED", "CONSUME_QUEUE"}
              => Len(Kids(n)) = 1
         /\ Kind(n) \in Reactive \cup {"PARALLEL", "SWITCH"} => Len(Kids(n)) >= 1
         /\ Kind(n) = "IF_THEN_ELSE" =>
              Len(Kids(n)) \in (IF n \in tree.cond THEN 1..2 ELSE 2..3)
         /\ Kind(n) \in {"PRECONDITION", "WHILE_DO"} =>
              Len(Kids(n)) = IF n \in tree.cond THEN 1 ELSE 2
         /\ \A i, j \in DOMAIN Kids(n) : i < j => Kids(n)[i] < Kids(n)[j]
BY TreesAssumption DEF WellFormed, Nodes, Kind, Kids

(* A descendant has a larger id. *)
LEMMA SubOrder ==
  ASSUME tree \in Trees, NEW n \in Nodes, NEW k \in Sub(n)
  PROVE  n <= k
<1> DEFINE T == {m \in Sub(n) : m < n}
<1>1. T \subseteq Nat
  BY TreeFacts
<1>2. T = {}
  <2> SUFFICES ASSUME T # {} PROVE FALSE
    OBVIOUS
  <2>1. PICK x \in T : \A y \in T : x <= y
    BY <1>1, LeastElement
  <2>2. Parent(x) \in Sub(n) /\ Parent(x) < x /\ Parent(x) \in Nat /\ x \in Nat /\ n \in Nat
    BY TreeFacts
  <2> QED
    BY <2>1, <2>2
<1> QED
  BY <1>2, TreeFacts

LEMMA SubTransitive ==
  ASSUME tree \in Trees, NEW n \in Nodes, NEW m \in Sub(n)
  PROVE  Sub(m) \subseteq Sub(n)
<1> DEFINE T == {k \in Sub(m) : k \notin Sub(n)}
<1>0. m \in Nodes
  BY TreeFacts
<1>1. T \subseteq Nat
  BY <1>0, TreeFacts
<1>2. T = {}
  <2> SUFFICES ASSUME T # {} PROVE FALSE
    OBVIOUS
  <2>1. PICK x \in T : \A y \in T : x <= y
    BY <1>1, LeastElement
  <2>2. x \in Nodes /\ x # m
    BY <1>0, TreeFacts
  <2>3. Parent(x) \in Sub(m) /\ Parent(x) < x /\ Parent(x) \in Nat /\ x \in Nat
    BY <1>0, <2>2, TreeFacts
  <2>4. Parent(x) \notin Sub(n)
    BY <2>2, TreeFacts
  <2> QED
    BY <2>1, <2>3, <2>4
<1> QED
  BY <1>2

(* Two nodes with a common descendant are one below the other. *)
LEMMA SubComparable ==
  ASSUME tree \in Trees, NEW n \in Nodes, NEW m \in Nodes,
         NEW k, k \in Sub(n), k \in Sub(m)
  PROVE  n \in Sub(m) \/ m \in Sub(n)
<1> SUFFICES ASSUME n \notin Sub(m), m \notin Sub(n) PROVE FALSE
  OBVIOUS
<1> DEFINE T == {j \in Sub(n) : j \in Sub(m)}
<1>1. T \subseteq Nat /\ T # {}
  BY TreeFacts
<1>2. PICK x \in T : \A y \in T : x <= y
  BY <1>1, LeastElement
<1>3. x \in Nodes /\ x # n /\ x # m
  BY TreeFacts
<1>4. Parent(x) \in T /\ Parent(x) < x /\ Parent(x) \in Nat /\ x \in Nat
  BY <1>3, TreeFacts
<1> QED
  BY <1>2, <1>4

(* Every node is below the root. *)
LEMMA RootAbove ==
  ASSUME tree \in Trees
  PROVE  Sub(1) = Nodes
<1> DEFINE T == {j \in Nodes : j \notin Sub(1)}
<1>1. T \subseteq Nat
  BY TreeFacts
<1>2. T = {}
  <2> SUFFICES ASSUME T # {} PROVE FALSE
    OBVIOUS
  <2>1. PICK x \in T : \A y \in T : x <= y
    BY <1>1, LeastElement
  <2>2. x \in Nodes /\ x # 1 /\ Parent(x) \in Nodes /\ Parent(x) \notin Sub(1)
    BY TreeFacts
  <2>3. Parent(x) < x /\ Parent(x) \in Nat /\ x \in Nat
    BY <2>2, TreeFacts
  <2> QED
    BY <2>1, <2>2, <2>3
<1>3. Sub(1) \subseteq Nodes
  BY TreeFacts
<1> QED
  BY <1>2, <1>3

(* What is below a node is below one of its children. *)
LEMMA SubThroughKid ==
  ASSUME tree \in Trees, NEW n \in Nodes, NEW k \in Sub(n), k # n
  PROVE  \E c \in KidsOf(n) : k \in Sub(c)
<1> DEFINE T == {j \in Sub(n) : j # n /\ ~\E c \in KidsOf(n) : j \in Sub(c)}
<1>1. T \subseteq Nat
  BY TreeFacts
<1>2. T = {}
  <2> SUFFICES ASSUME T # {} PROVE FALSE
    OBVIOUS
  <2>1. PICK x \in T : \A y \in T : x <= y
    BY <1>1, LeastElement
  <2>2. x \in Nodes /\ x # n /\ Parent(x) \in Sub(n)
    BY TreeFacts
  <2>3. Parent(x) # n
    BY <2>2, TreeFacts
  <2>4. Parent(x) < x /\ Parent(x) \in Nat /\ x \in Nat
    BY <2>2, TreeFacts
  <2>5. PICK c \in KidsOf(n) : Parent(x) \in Sub(c)
    BY <2>1, <2>2, <2>3, <2>4
  <2>6. c \in Nodes
    BY TreeFacts DEF KidsOf, SeqRange
  <2>7. x \in Sub(c)
    BY <2>2, <2>5, <2>6, TreeFacts
  <2> QED
    BY <2>7
<1> QED
  BY <1>2

(* A child, its subtree, and its place in the order of ids. *)
LEMMA KidFacts ==
  ASSUME tree \in Trees, NEW n \in Nodes, NEW c \in KidsOf(n)
  PROVE  /\ c \in Nodes /\ c \in Nat /\ c # 0 /\ Parent(c) = n
         /\ c \in Sub(n) /\ n < c /\ n \in Nat
         /\ Sub(c) \subseteq Sub(n) /\ n \notin Sub(c)
<1>1. c \in Nodes
  BY TreeFacts DEF KidsOf, SeqRange
<1>2. Parent(c) = n
  BY <1>1, TreeFacts
<1>3. c \in Sub(n) /\ n < c /\ c \in Nat /\ c # 0 /\ n \in Nat
  BY <1>1, <1>2, TreeFacts
<1>4. Sub(c) \subseteq Sub(n)
  BY <1>3, SubTransitive
<1>5. n \notin Sub(c)
  BY <1>1, <1>3, SubOrder
<1> QED
  BY <1>1, <1>2, <1>3, <1>4, <1>5

(* The subtrees of two children are disjoint. *)
LEMMA KidsDisjoint ==
  ASSUME tree \in Trees, NEW n \in Nodes, NEW c \in KidsOf(n), NEW d \in KidsOf(n), c # d
  PROVE  Sub(c) \cap Sub(d) = {}
<1>1. c \notin Sub(d)
  <2>1. c \in Nodes /\ d \in Nodes /\ Parent(c) = n /\ n \notin Sub(d)
    BY KidFacts
  <2> QED
    BY <2>1, TreeFacts
<1>2. d \notin Sub(c)
  <2>1. c \in Nodes /\ d \in Nodes /\ Parent(d) = n /\ n \notin Sub(c)
    BY KidFacts
  <2> QED
    BY <2>1, TreeFacts
<1> QED
  BY <1>1, <1>2, SubComparable, KidFacts

(***************************************************************************)
(* The reset of a set of subtrees.                                         *)
(***************************************************************************)

LEMMA UnderFacts ==
  ASSUME tree \in Trees, NEW R \in SUBSET Nodes
  PROVE  /\ Under(R) \subseteq Nodes /\ R \subseteq Under(R)
         /\ \A m : m \in Under(R) <=> \E r \in R : m \in Sub(r)
         /\ \A m \in Under(R) : Sub(m) \subseteq Under(R)
<1>1. \A m : m \in Under(R) <=> \E r \in R : m \in Sub(r)
  BY DEF Under
<1>2. Under(R) \subseteq Nodes /\ R \subseteq Under(R)
  BY <1>1, TreeFacts
<1>3. \A m \in Under(R) : Sub(m) \subseteq Under(R)
  BY <1>1, SubTransitive
<1> QED
  BY <1>1, <1>2, <1>3

(* ClearedNode by its fields; the flags are named so that the provers need  *)
(* not look into them.                                                      *)
LEMMA ClearedFields ==
  ASSUME NEW S \in Tables, NEW R \in SUBSET Nodes, NEW m \in Nodes, NEW clear \in BOOLEAN
  PROVE  \E s \in NodeRecord :
           /\ s = ClearedNode(S, R, m, clear)
           /\ s.cursor = 0 /\ ~s.timer /\ ~s.prepared
           /\ s.running <=> S[m].running /\ Kind(m) # "LEAF"
           /\ s.branch <=> S[m].branch /\ ~BranchReset(R, m)
           /\ s.once <=> ~clear /\ Kind(m) = "RUN_ONCE" /\ S[m].once
<1>1. PICK s \in NodeRecord : s = S[m]
  BY DEF Tables
<1>2. PICK a \in BOOLEAN : a = KeepsOnce(S[m], m, clear)
  BY Zenon DEF KeepsOnce
<1>3. PICK b \in BOOLEAN : b = KeepsEntry(S[m], m, clear)
  BY Zenon DEF KeepsEntry
<1>4. PICK c \in BOOLEAN : c = StillRunning(S[m], m)
  BY Zenon DEF StillRunning
<1>5. PICK d \in BOOLEAN : d = (S[m].branch /\ ~BranchReset(R, m))
  BY Zenon
<1>6. PICK l \in Statuses : l = IF a \/ b THEN S[m].last ELSE "FAILURE"
  BY <1>1 DEF NodeRecord, Statuses
<1>7. PICK f \in BOOLEAN : f = FALSE
  OBVIOUS
<1> DEFINE t == [s EXCEPT !.last = l, !.cursor = 0, !.counter = 0, !.deadline = 0,
                          !.started = 0, !.timer = f, !.elapsed = f, !.evaluated = f,
                          !.once = a, !.observed = b, !.prepared = f, !.branch = d,
                          !.running = c]
<1>8. ClearedNode(S, R, m, clear) = t
  BY <1>1, <1>2, <1>3, <1>4, <1>5, <1>6, <1>7, Zenon DEF ClearedNode
<1>9. t \in NodeRecord
  BY ZenonT(60) DEF NodeRecord
<1>10. /\ t.cursor = 0 /\ t.timer = f /\ t.prepared = f /\ t.running = c
       /\ t.branch = d /\ t.once = a
  BY DEF NodeRecord
<1>11. ~t.timer /\ ~t.prepared
  BY <1>7, <1>10, Zenon
<1>12. /\ t.running <=> S[m].running /\ Kind(m) # "LEAF"
       /\ t.branch <=> S[m].branch /\ ~BranchReset(R, m)
       /\ t.once <=> ~clear /\ Kind(m) = "RUN_ONCE" /\ S[m].once
  BY <1>2, <1>4, <1>5, <1>10, Zenon DEF StillRunning, KeepsOnce
<1> QED
  BY <1>8, <1>9, <1>10, <1>11, <1>12, Zenon

LEMMA ResetOutside ==
  ASSUME tree \in Trees, NEW S \in Tables, NEW R \in SUBSET Nodes, NEW clear \in BOOLEAN
  PROVE  /\ Reset(S, R, clear) \in Tables
         /\ \A m \in Nodes \ Under(R) : Reset(S, R, clear)[m] = S[m]
<1>1. \A m \in Nodes : ClearedNode(S, R, m, clear) \in NodeRecord
  BY ClearedFields
<1>2. Reset(S, R, clear) \in Tables
  BY <1>1 DEF Reset, Tables
<1>3. \A m \in Nodes \ Under(R) : Reset(S, R, clear)[m] = S[m]
  BY DEF Reset
<1> QED
  BY <1>2, <1>3

LEMMA ResetFields ==
  ASSUME tree \in Trees, NEW S \in Tables, NEW R \in SUBSET Nodes, NEW clear \in BOOLEAN
  PROVE  /\ Reset(S, R, clear) \in Tables
         /\ \A m \in Nodes \ Under(R) : Reset(S, R, clear)[m] = S[m]
         /\ \A m \in Under(R) :
              /\ Reset(S, R, clear)[m].cursor = 0
              /\ ~Reset(S, R, clear)[m].timer /\ ~Reset(S, R, clear)[m].prepared
              /\ Reset(S, R, clear)[m].running <=> S[m].running /\ Kind(m) # "LEAF"
              /\ Reset(S, R, clear)[m].branch <=> S[m].branch /\ ~BranchReset(R, m)
              /\ Reset(S, R, clear)[m].once <=>
                   ~clear /\ Kind(m) = "RUN_ONCE" /\ S[m].once
<1>2. Reset(S, R, clear) \in Tables
  BY ResetOutside
<1>3. \A m \in Nodes \ Under(R) : Reset(S, R, clear)[m] = S[m]
  BY ResetOutside
<1>4. \A m \in Under(R) : Reset(S, R, clear)[m] = ClearedNode(S, R, m, clear)
  BY UnderFacts DEF Reset
<1>5. \A m \in Under(R) : m \in Nodes
  BY UnderFacts
<1>6. ASSUME NEW m \in Under(R)
      PROVE  /\ Reset(S, R, clear)[m].cursor = 0
             /\ ~Reset(S, R, clear)[m].timer /\ ~Reset(S, R, clear)[m].prepared
             /\ Reset(S, R, clear)[m].running <=> S[m].running /\ Kind(m) # "LEAF"
             /\ Reset(S, R, clear)[m].branch <=> S[m].branch /\ ~BranchReset(R, m)
             /\ Reset(S, R, clear)[m].once <=>
                  ~clear /\ Kind(m) = "RUN_ONCE" /\ S[m].once
  BY <1>4, <1>5, ClearedFields
<1> QED
  BY <1>2, <1>3, <1>6

LEMMA HostResetFields ==
  ASSUME NEW h \in Histories, NEW S, NEW R
  PROVE  /\ HostReset(h, S, R) \in Histories
         /\ HostReset(h, S, R).completed = h.completed
         /\ \A m \in Nodes :
              /\ HostReset(h, S, R).active[m] = h.active[m] -
                   Bit(m \in Under(R) /\ Kind(m) = "LEAF" /\ S[m].running)
              /\ HostReset(h, S, R).context[m] = h.context[m] -
                   Bit(m \in Under(R) /\ S[m].prepared /\ Kind(m) \in Adapters)
              /\ HostReset(h, S, R).branch[m] = h.branch[m] -
                   Bit(BranchReset(R, m) /\ S[m].branch)
<1> DEFINE a == [m \in Nodes |-> h.active[m] -
                   Bit(m \in Under(R) /\ Kind(m) = "LEAF" /\ S[m].running)]
           c == [m \in Nodes |-> h.context[m] -
                   Bit(m \in Under(R) /\ S[m].prepared /\ Kind(m) \in Adapters)]
           b == [m \in Nodes |-> h.branch[m] - Bit(BranchReset(R, m) /\ S[m].branch)]
<1>1. a \in [Nodes -> Int] /\ c \in [Nodes -> Int] /\ b \in [Nodes -> Int]
  BY DEF Histories, Bit
<1>2. HostReset(h, S, R) = [h EXCEPT !.active = a, !.context = c, !.branch = b]
  BY Zenon DEF HostReset, Adapters
<1>3. /\ \A m \in Nodes : a[m] = h.active[m] -
                   Bit(m \in Under(R) /\ Kind(m) = "LEAF" /\ S[m].running)
      /\ \A m \in Nodes : c[m] = h.context[m] -
                   Bit(m \in Under(R) /\ S[m].prepared /\ Kind(m) \in Adapters)
      /\ \A m \in Nodes : b[m] = h.branch[m] - Bit(BranchReset(R, m) /\ S[m].branch)
  BY Zenon
<1> HIDE DEF a, b, c
<1>4. /\ [h EXCEPT !.active = a, !.context = c, !.branch = b] \in Histories
      /\ [h EXCEPT !.active = a, !.context = c, !.branch = b].completed = h.completed
      /\ [h EXCEPT !.active = a, !.context = c, !.branch = b].active = a
      /\ [h EXCEPT !.active = a, !.context = c, !.branch = b].context = c
      /\ [h EXCEPT !.active = a, !.context = c, !.branch = b].branch = b
  BY <1>1 DEF Histories
<1>5. /\ HostReset(h, S, R) \in Histories
      /\ HostReset(h, S, R).completed = h.completed
      /\ HostReset(h, S, R).active = a /\ HostReset(h, S, R).context = c
      /\ HostReset(h, S, R).branch = b
  BY <1>2, <1>4
<1> QED
  BY <1>3, <1>5

(* No two of the subtrees overlap. *)
Separate(R) == \A r, q \in R : r \in Sub(q) => r = q

(* A reset keeps the flags and the history in step: what it clears it tells *)
(* the host, and only that.                                                 *)
LEMMA ResetMirror ==
  ASSUME tree \in Trees, NEW S \in Tables, NEW h \in Histories, Mirror(S, h),
         NEW R \in SUBSET Nodes, NEW clear \in BOOLEAN
  PROVE  Mirror(Reset(S, R, clear), HostReset(h, S, R))
<1> DEFINE T == Reset(S, R, clear)
           g == HostReset(h, S, R)
<1> SUFFICES ASSUME NEW m \in Nodes
             PROVE  MirrorAt(T, g, m)
  BY DEF Mirror
<1>1. /\ h.active[m] = Bit(S[m].running) /\ h.context[m] = Bit(S[m].prepared)
      /\ h.branch[m] = Bit(S[m].branch)
      /\ S[m].running => Kind(m) = "LEAF"
      /\ S[m].prepared => Kind(m) \in Adapters
      /\ S[m].branch => Parent(m) \in tree.hooks
  BY DEF Mirror, MirrorAt
<1>2. /\ g.active[m] = h.active[m] -
            Bit(m \in Under(R) /\ Kind(m) = "LEAF" /\ S[m].running)
      /\ g.context[m] = h.context[m] -
            Bit(m \in Under(R) /\ S[m].prepared /\ Kind(m) \in Adapters)
      /\ g.branch[m] = h.branch[m] - Bit(BranchReset(R, m) /\ S[m].branch)
  BY HostResetFields
<1>3. CASE m \in Under(R)
  <2>1. /\ ~T[m].prepared
        /\ T[m].running <=> S[m].running /\ Kind(m) # "LEAF"
        /\ T[m].branch <=> S[m].branch /\ ~BranchReset(R, m)
    BY <1>3, ResetFields
  <2> HIDE DEF T, g
  <2> QED
    BY <1>1, <1>2, <1>3, <2>1 DEF MirrorAt, Bit
<1>4. CASE m \notin Under(R)
  <2>1. T[m] = S[m] /\ ~BranchReset(R, m)
    BY <1>4, ResetFields DEF BranchReset
  <2> HIDE DEF T, g
  <2> QED
    BY <1>1, <1>2, <1>4, <2>1 DEF MirrorAt, Bit
<1> QED
  BY <1>3, <1>4

(* It leaves nothing open below the nodes it starts from, and opens nothing *)
(* elsewhere.                                                               *)
LEMMA ResetCleans ==
  ASSUME tree \in Trees, NEW S \in Tables, NEW h \in Histories, Mirror(S, h),
         NEW R \in SUBSET Nodes, Separate(R), NEW clear \in BOOLEAN
  PROVE  /\ \A m \in Under(R) : Clean(Reset(S, R, clear), m)
         /\ \A m \in Nodes : Clean(S, m) => Clean(Reset(S, R, clear), m)
<1> DEFINE T == Reset(S, R, clear)
<1>1. ASSUME NEW m \in Under(R), NEW k \in Sub(m)
      PROVE  Still(T, k) /\ (k # m => ~T[k].branch)
  <2>1. k \in Under(R) /\ k \in Nodes /\ m \in Nodes
    BY UnderFacts
  <2>2. /\ ~T[k].prepared
        /\ T[k].running <=> S[k].running /\ Kind(k) # "LEAF"
        /\ T[k].branch <=> S[k].branch /\ ~BranchReset(R, k)
    BY <2>1, ResetFields
  <2>3. S[k].running => Kind(k) = "LEAF"
    BY <2>1 DEF Mirror, MirrorAt
  <2>4. ASSUME k # m, S[k].branch
        PROVE  BranchReset(R, k)
    <3>1. Kind(Parent(k)) = "PARALLEL"
      BY <2>1, <2>4, TreeFacts DEF Mirror, MirrorAt
    <3>2. k \notin R
      <4>1. SUFFICES ASSUME k \in R
                     PROVE  FALSE
        OBVIOUS
      <4>2. PICK r \in R : m \in Sub(r)
        BY UnderFacts
      <4>3. r \in Nodes /\ k \in Sub(r)
        BY <4>2, SubTransitive
      <4>4. k = r
        BY <4>1, <4>3 DEF Separate
      <4>5. k <= m /\ m <= k
        BY <2>1, <4>2, <4>4, SubOrder
      <4>6. k \in Nat /\ m \in Nat
        BY <2>1, TreeFacts
      <4> QED
        BY <2>4, <4>5, <4>6
    <3> QED
      BY <2>1, <3>1, <3>2 DEF BranchReset
  <2> HIDE DEF T
  <2> QED
    BY <2>2, <2>3, <2>4 DEF Still
<1>2. ASSUME NEW m \in Nodes, Clean(S, m), NEW k \in Sub(m)
      PROVE  Still(T, k) /\ (k # m => ~T[k].branch)
  <2>1. Still(S, k) /\ (k # m => ~S[k].branch) /\ k \in Nodes
    BY <1>2, TreeFacts DEF Clean
  <2>2. CASE k \in Under(R)
    <3>1. /\ ~T[k].prepared
          /\ T[k].running <=> S[k].running /\ Kind(k) # "LEAF"
          /\ T[k].branch <=> S[k].branch /\ ~BranchReset(R, k)
      BY <2>2, ResetFields
    <3> HIDE DEF T
    <3> QED
      BY <2>1, <3>1 DEF Still
  <2>3. CASE k \notin Under(R)
    <3>1. T[k] = S[k]
      BY <2>1, <2>3, ResetFields
    <3> HIDE DEF T
    <3> QED
      BY <2>1, <3>1 DEF Still
  <2> QED
    BY <2>2, <2>3
<1> HIDE DEF T
<1>3. \A m \in Under(R) : Clean(T, m)
  BY <1>1 DEF Clean
<1>4. \A m \in Nodes : Clean(S, m) => Clean(T, m)
  BY <1>2 DEF Clean
<1> QED
  BY <1>3, <1>4 DEF T

(* A reset that keeps the caches, or that reaches no sheltered RunOnce,     *)
(* keeps what holds whoever executes.                                       *)
LEMMA ResetSound ==
  ASSUME tree \in Trees, NEW S, NEW h, Sound(S, h),
         NEW R \in SUBSET Nodes, NEW clear \in BOOLEAN,
         ~clear \/ \A m \in Under(R) : ~Sheltered(m)
  PROVE  Sound(Reset(S, R, clear), HostReset(h, S, R))
<1> DEFINE T == Reset(S, R, clear)
           g == HostReset(h, S, R)
<1>1. S \in Tables /\ h \in Histories /\ Mirror(S, h)
  BY DEF Sound
<1>2. T \in Tables /\ g \in Histories /\ Mirror(T, g)
  BY <1>1, ResetFields, HostResetFields, ResetMirror
<1>3. \A m \in Nodes \ Under(R) : T[m] = S[m]
  BY <1>1, ResetFields
<1>4. \A m \in Under(R) :
        /\ T[m].cursor = 0 /\ ~T[m].timer
        /\ T[m].once <=> ~clear /\ Kind(m) = "RUN_ONCE" /\ S[m].once
  BY <1>1, ResetFields
<1>5. g.completed = h.completed
  BY <1>1, HostResetFields
<1> HIDE DEF T, g
<1>6. Cursors(T)
  BY <1>3, <1>4 DEF Sound, Cursors
<1>7. Timers(T)
  BY <1>3, <1>4 DEF Sound, Timers, TimerAt
<1>8. Onces(T, g)
  <2> SUFFICES ASSUME NEW m \in Nodes
               PROVE  OnceAt(T, g, m)
    BY DEF Onces
  <2>1. OnceAt(S, h, m)
    BY DEF Sound, Onces
  <2>2. CASE m \in Under(R)
    BY <1>4, <1>5, <2>1, <2>2 DEF OnceAt, Bit
  <2>3. CASE m \notin Under(R)
    BY <1>3, <1>5, <2>1, <2>3 DEF OnceAt, Bit
  <2> QED
    BY <2>2, <2>3
<1> QED
  BY <1>2, <1>6, <1>7, <1>8 DEF Sound, T, g

(***************************************************************************)
(* What a step does to the table and the history.                          *)
(***************************************************************************)

(* A reset keeps every node as one that is not executing must be. *)
LEMMA ResetQuiet ==
  ASSUME tree \in Trees, NEW S, NEW h, Sound(S, h),
         NEW R \in SUBSET Nodes, Separate(R), NEW clear \in BOOLEAN, NEW m \in Nodes
  PROVE  /\ Settles(S, m) => Settles(Reset(S, R, clear), m)
         /\ OffFocus(S, m) => OffFocus(Reset(S, R, clear), m)
<1> DEFINE T == Reset(S, R, clear)
<1>1. S \in Tables /\ h \in Histories /\ Mirror(S, h)
  BY DEF Sound
<1>2. /\ \A k \in Under(R) : Clean(T, k)
      /\ \A k \in Nodes : Clean(S, k) => Clean(T, k)
  BY <1>1, ResetCleans
<1>3. \A k \in Nodes \ Under(R) : T[k] = S[k]
  BY <1>1, ResetFields
<1> HIDE DEF T
<1>4. CASE m \in Under(R)
  <2>1. \A c \in KidsOf(m) : c \in Under(R)
    BY <1>4, KidFacts, UnderFacts
  <2> QED
    BY <1>2, <1>4, <2>1 DEF Settles, OffFocus, T
<1>5. CASE m \notin Under(R)
  <2>1. T[m] = S[m]
    BY <1>3, <1>5
  <2>2. \A c \in KidsOf(m) : c \in Nodes
    BY KidFacts
  <2>3. Settles(S, m) => Settles(T, m)
    BY <1>2, <2>1 DEF Settles
  <2>4. OffFocus(S, m) => OffFocus(T, m)
    BY <1>2, <2>1, <2>2 DEF OffFocus
  <2> QED
    BY <2>3, <2>4 DEF T
<1> QED
  BY <1>4, <1>5

LEMMA ResetEffect ==
  ASSUME tree \in Trees, NEW n \in Nodes, NEW S, NEW h, Effect(n, S, h),
         NEW R \in SUBSET Nodes, R \subseteq Sub(n), Separate(R), NEW clear \in BOOLEAN,
         ~clear \/ \A m \in Under(R) : ~Sheltered(m)
  PROVE  Effect(n, Reset(S, R, clear), HostReset(h, S, R))
<1> DEFINE T == Reset(S, R, clear)
           g == HostReset(h, S, R)
<1>1. Sound(S, h) /\ S \in Tables /\ h \in Histories /\ Mirror(S, h)
  BY DEF Effect, Sound
<1>2. Sound(T, g)
  BY <1>1, ResetSound
<1>3. \A m \in Nodes \ Under(R) : T[m] = S[m]
  BY <1>1, ResetFields
<1>4. \A m \in Under(R) : m \in Sub(n)
  BY UnderFacts, SubTransitive
<1> HIDE DEF T, g
<1>5. Outside(n, T)
  BY <1>3, <1>4 DEF Effect, Outside
<1>6. ASSUME NEW m \in Sub(n) \ {n}
      PROVE  Settles(T, m) /\ OffFocus(T, m)
  <2>1. m \in Nodes /\ Settles(S, m) /\ OffFocus(S, m)
    BY TreeFacts DEF Effect, Below
  <2> QED
    BY <1>1, <2>1, ResetQuiet DEF T
<1> QED
  BY <1>2, <1>5, <1>6 DEF Effect, Below, T, g

LEMMA Singleton ==
  ASSUME tree \in Trees, NEW n \in Nodes
  PROVE  /\ {n} \in SUBSET Nodes /\ Separate({n}) /\ Under({n}) = Sub(n)
         /\ {} \in SUBSET Nodes /\ Separate({}) /\ Under({}) = {}
  BY DEF Separate, Under

(* reset_node_state of the node itself. *)
LEMMA OwnReset ==
  ASSUME tree \in Trees, NEW n \in Nodes, NEW S, NEW h, Sound(S, h), NEW clear \in BOOLEAN
  PROVE  /\ Clean(Reset(S, {n}, clear), n)
         /\ \A c \in KidsOf(n) : Clean(Reset(S, {n}, clear), c)
<1>1. S \in Tables /\ h \in Histories /\ Mirror(S, h)
  BY DEF Sound
<1>2. \A m \in Sub(n) : Clean(Reset(S, {n}, clear), m)
  <2>1. {n} \in SUBSET Nodes /\ Separate({n}) /\ Under({n}) = Sub(n)
    BY Singleton
  <2>2. \A m \in Under({n}) : Clean(Reset(S, {n}, clear), m)
    BY <1>1, <2>1, ResetCleans
  <2> QED
    BY <2>1, <2>2
<1> QED
  BY <1>2, KidFacts, TreeFacts

(* The node updates its own record. *)
LEMMA TouchEffect ==
  ASSUME tree \in Trees, NEW n \in Nodes, NEW S, NEW h, Effect(n, S, h),
         NEW T \in Tables, NEW g \in Histories,
         \A m \in Nodes \ {n} : T[m] = S[m],
         \A m \in Nodes \ {n} :
           /\ g.active[m] = h.active[m] /\ g.context[m] = h.context[m]
           /\ g.branch[m] = h.branch[m] /\ g.completed[m] = h.completed[m],
         MirrorAt(T, g, n), T[n].cursor \in KidsOf(n) \cup {0}, TimerAt(T, n), OnceAt(T, g, n)
  PROVE  /\ Effect(n, T, g)
         /\ \A m \in Sub(n) \ {n} : Clean(S, m) => Clean(T, m)
<1>1. n \in Sub(n)
  BY TreeFacts
<1>2. ASSUME NEW m \in Sub(n) \ {n}
      PROVE  m \in Nodes /\ n \notin Sub(m) /\ Sub(m) \subseteq Nodes
  <2>1. m \in Nodes /\ m \in Nat /\ n \in Nat /\ Sub(m) \subseteq Nodes
    BY TreeFacts
  <2>2. n <= m
    BY SubOrder
  <2>3. n \in Sub(m) => m <= n
    BY <2>1, SubOrder
  <2> QED
    BY <2>1, <2>2, <2>3
<1>3. \A m \in Sub(n) \ {n} : Clean(S, m) => Clean(T, m)
  BY <1>2 DEF Clean, Still
<1>4. \A m \in Sub(n) \ {n} : \A c \in KidsOf(m) : c \in Sub(n) \ {n}
  BY <1>2, KidFacts, SubTransitive
<1>5. Below(n, T)
  BY <1>2, <1>3, <1>4 DEF Effect, Below, Settles, OffFocus
<1>6. Outside(n, T)
  BY <1>1 DEF Effect, Outside
<1>7. Cursors(T)
  BY DEF Effect, Sound, Cursors
<1>8. Mirror(T, g)
  BY DEF Effect, Sound, Mirror, MirrorAt
<1>9. Timers(T)
  BY DEF Effect, Sound, Timers, TimerAt
<1>10. Onces(T, g)
  BY DEF Effect, Sound, Onces, OnceAt
<1> QED
  BY <1>3, <1>5, <1>6, <1>7, <1>8, <1>9, <1>10 DEF Effect, Sound

(* A Parallel moves the branch marker of a child. *)
LEMMA MarkEffect ==
  ASSUME tree \in Trees, NEW n \in Nodes, NEW S, NEW h, Effect(n, S, h),
         NEW c \in KidsOf(n), NEW T \in Tables, NEW g \in Histories,
         \A m \in Nodes \ {c} : T[m] = S[m],
         \A m \in Nodes \ {c} : g.branch[m] = h.branch[m],
         g.active = h.active, g.context = h.context, g.completed = h.completed,
         T[c].running = S[c].running, T[c].prepared = S[c].prepared,
         T[c].last = S[c].last, T[c].cursor = S[c].cursor, T[c].once = S[c].once,
         TimerAt(T, c), g.branch[c] = Bit(T[c].branch), T[c].branch => n \in tree.hooks
  PROVE  Effect(n, T, g)
<1>1. c \in Nodes /\ c \in Sub(n) /\ Parent(c) = n
  BY KidFacts
<1>2. ASSUME NEW m \in Sub(n) \ {n}
      PROVE  m \in Nodes /\ Sub(m) \subseteq Nodes /\ (c \in Sub(m) => m = c)
  <2>1. m \in Nodes /\ m \in Nat /\ n \in Nat /\ Sub(m) \subseteq Nodes
    BY TreeFacts
  <2>2. n <= m
    BY SubOrder
  <2>3. n \in Sub(m) => m <= n
    BY <2>1, SubOrder
  <2>4. n \notin Sub(m)
    BY <2>1, <2>2, <2>3
  <2> QED
    BY <1>1, <2>1, <2>4, TreeFacts
<1>3. \A m \in Sub(n) \ {n} : Clean(S, m) => Clean(T, m)
  BY <1>2 DEF Clean, Still
<1>4. \A m \in Sub(n) \ {n} : \A d \in KidsOf(m) : d \in Sub(n) \ {n}
  BY <1>2, KidFacts, SubTransitive
<1>5. \A m \in Nodes : T[m].last = S[m].last /\ T[m].cursor = S[m].cursor
  BY <1>1
<1>6. Below(n, T)
  BY <1>2, <1>3, <1>4, <1>5 DEF Effect, Below, Settles, OffFocus
<1>7. Outside(n, T)
  BY <1>1 DEF Effect, Outside
<1>8. Cursors(T)
  BY <1>5 DEF Effect, Sound, Cursors
<1>9. Mirror(T, g)
  <2> SUFFICES ASSUME NEW m \in Nodes
               PROVE  MirrorAt(T, g, m)
    BY DEF Mirror
  <2>1. MirrorAt(S, h, m)
    BY DEF Effect, Sound, Mirror
  <2>2. CASE m = c
    BY <1>1, <2>1, <2>2 DEF MirrorAt
  <2>3. CASE m # c
    BY <2>1, <2>3 DEF MirrorAt
  <2> QED
    BY <2>2, <2>3
<1>10. Timers(T)
  BY DEF Effect, Sound, Timers, TimerAt
<1>11. Onces(T, g)
  <2> SUFFICES ASSUME NEW m \in Nodes
               PROVE  OnceAt(T, g, m)
    BY DEF Onces
  <2>1. OnceAt(S, h, m)
    BY DEF Effect, Sound, Onces
  <2>2. T[m].once = S[m].once
    OBVIOUS
  <2> QED
    BY <2>1, <2>2 DEF OnceAt
<1> QED
  BY <1>6, <1>7, <1>8, <1>9, <1>10, <1>11 DEF Effect, Sound

(***************************************************************************)
(* The call stack.                                                         *)
(***************************************************************************)

(* Above the executing node every frame is open, at it and below nothing    *)
(* else is.                                                                 *)
LEMMA OnPath ==
  ASSUME IInv, NEW m \in Nodes, cur # 0, cur \in Sub(m)
  PROVE  frame[m].at # "off"
<1>1. /\ tree \in Trees /\ Path(frame, cur) /\ cur \in Nodes
  BY DEF IInv, Consistent
<1>2. SUFFICES ASSUME frame[m].at = "off"
               PROVE  FALSE
  OBVIOUS
<1> DEFINE Open == {k \in Sub(m) : frame[k].at # "off"}
<1>3. Open \subseteq Nat /\ cur \in Open
  BY <1>1, TreeFacts DEF Path
<1> HIDE DEF Open
<1>4. PICK k \in Open : \A y \in Open : k <= y
  BY <1>3, LeastElement
<1>5. k \in Sub(m) /\ frame[k].at # "off" /\ k \in Nodes /\ k # m
  BY <1>1, <1>2, <1>4, TreeFacts DEF Open
<1>6. Parent(k) \in Sub(m) /\ Parent(k) \in Nat /\ Parent(k) < k /\ k \in Nat
  BY <1>1, <1>5, TreeFacts
<1>7. Parent(k) # 0
  <2>1. \A x \in Sub(m) : x # 0
    BY <1>1, TreeFacts
  <2> QED
    BY <1>6, <2>1
<1>8. frame[Parent(k)].at \in Waiting
  BY <1>1, <1>5, <1>7 DEF Path
<1>9. Parent(k) \in Open
  BY <1>6, <1>8 DEF Open, Waiting
<1> QED
  BY <1>4, <1>6, <1>9

LEMMA PathFacts ==
  ASSUME IInv, NEW n \in Nodes, cur = n
  PROVE  /\ frame[n].at # "off" /\ n # 0
         /\ \A m \in Sub(n) \ {n} : frame[m].at = "off"
         /\ \A m \in Nodes \ {n} : frame[m].at # "off" =>
              /\ frame[m].at \in Waiting /\ m \notin Sub(n) /\ n \in Sub(m)
              /\ \A c \in KidsOf(m) : c = frame[m].child \/ Sub(c) \cap Sub(n) = {}
         /\ \A m \in Nodes \ Sub(n) : frame[m].at = "off" => Sub(m) \cap Sub(n) = {}
         /\ Parent(n) # 0 => /\ Parent(n) \in Nodes \ Sub(n)
                             /\ frame[Parent(n)].at \in Waiting
                             /\ frame[Parent(n)].child = n
<1>1. tree \in Trees /\ Path(frame, cur)
  BY DEF IInv, Consistent
<1>2. frame[n].at # "off" /\ n # 0 /\ n \in Nat
  BY <1>1, TreeFacts DEF Path
<1>3. \A m \in Nodes \ {n} : frame[m].at # "off" => frame[m].at \in Waiting /\ n \in Sub(m)
  BY <1>1 DEF Path
<1>4. \A m \in Nodes \ {n} : n \in Sub(m) => m \notin Sub(n)
  <2> SUFFICES ASSUME NEW m \in Nodes \ {n}, n \in Sub(m), m \in Sub(n)
               PROVE  FALSE
    OBVIOUS
  <2>1. m <= n /\ n <= m /\ m \in Nat
    BY <1>1, SubOrder, TreeFacts
  <2> QED
    BY <1>2, <2>1
<1>5. \A m \in Sub(n) \ {n} : frame[m].at = "off"
  BY <1>1, <1>3, <1>4, TreeFacts
<1>6. \A m \in Nodes \ Sub(n) : frame[m].at = "off" => Sub(m) \cap Sub(n) = {}
  <2> SUFFICES ASSUME NEW m \in Nodes \ Sub(n), frame[m].at = "off", NEW k \in Sub(m), k \in Sub(n)
               PROVE  FALSE
    OBVIOUS
  <2>1. n \in Sub(m)
    BY <1>1, SubComparable
  <2> QED
    BY <1>2, <2>1, OnPath
<1>7. ASSUME NEW m \in Nodes \ {n}, frame[m].at # "off", NEW c \in KidsOf(m), c # frame[m].child
      PROVE  Sub(c) \cap Sub(n) = {}
  <2>1. n \in Sub(m) /\ c \in Nodes /\ Parent(c) = m /\ c \in Sub(m) /\ Parent(c) # 0
    BY <1>1, <1>3, <1>7, KidFacts, TreeFacts
  <2>2. frame[c].at = "off"
    BY <1>1, <1>7, <2>1 DEF Path
  <2>3. c \notin Sub(n)
    <3>1. m \notin Sub(n)
      BY <1>4, <2>1
    <3>2. c # n
      BY <1>2, <2>2
    <3> QED
      BY <1>1, <2>1, <3>1, <3>2, TreeFacts
  <2> QED
    BY <1>6, <2>1, <2>2, <2>3
<1>8. ASSUME Parent(n) # 0
      PROVE  /\ Parent(n) \in Nodes \ Sub(n)
             /\ frame[Parent(n)].at \in Waiting /\ frame[Parent(n)].child = n
  <2>1. frame[Parent(n)].at \in Waiting /\ frame[Parent(n)].child = n
    BY <1>1, <1>2, <1>8 DEF Path
  <2>2. Parent(n) \in Nodes /\ Parent(n) # n
    BY <1>1, <1>8, TreeFacts
  <2>3. Parent(n) \notin Sub(n)
    BY <1>3, <1>4, <2>1, <2>2 DEF Waiting
  <2> QED
    BY <2>1, <2>2, <2>3
<1> QED
  BY <1>2, <1>3, <1>4, <1>5, <1>6, <1>7, <1>8

(* The state itself, while no error is on its way up. *)
LEMMA NodeEffect ==
  ASSUME IInv, NEW n \in Nodes, cur = n, ret.rc = "OK"
  PROVE  Effect(n, node, host)
<1>1. Sound(node, host)
  BY DEF IInv, Consistent
<1>2. \A m \in Sub(n) \ {n} : m \in Nodes /\ frame[m].at = "off"
  BY PathFacts, TreeFacts DEF IInv
<1>3. Below(n, node)
  BY <1>2 DEF Below, IInv, Consistent, SettledOff, Focus
<1> QED
  BY <1>1, <1>3 DEF Effect, Outside

(* The rest of the tree, while a step of n changes only what is below n. *)
LEMMA Elsewhere ==
  ASSUME IInv, NEW n \in Nodes, cur = n, ret.rc = "OK", NEW T, Outside(n, T)
  PROVE  \A m \in Nodes \ Sub(n) :
           /\ T[m] = node[m]
           /\ frame[m].at = "off" => Settles(T, m) /\ OffFocus(T, m)
           /\ frame[m].at # "off" => CallFocus(T, m, frame[m].at, frame[m].child)
<1>1. tree \in Trees /\ SettledOff(node, frame, ret) /\ Focus(node, frame, ret)
  BY DEF IInv, Consistent
<1>2. ASSUME NEW m \in Nodes, Sub(m) \cap Sub(n) = {}, Clean(node, m)
      PROVE  Clean(T, m)
  <2>1. \A k \in Sub(m) : T[k] = node[k]
    BY <1>1, <1>2, TreeFacts DEF Outside
  <2> QED
    BY <1>2, <2>1 DEF Clean, Still
<1>3. ASSUME NEW m \in Nodes \ Sub(n)
      PROVE  T[m] = node[m]
  BY DEF Outside
<1>4. ASSUME NEW m \in Nodes \ Sub(n), frame[m].at = "off"
      PROVE  Settles(T, m) /\ OffFocus(T, m)
  <2>1. Sub(m) \cap Sub(n) = {}
    BY <1>4, PathFacts
  <2>2. \A c \in KidsOf(m) : c \in Nodes /\ Sub(c) \cap Sub(n) = {}
    BY <1>1, <2>1, KidFacts
  <2>3. Settles(node, m) /\ OffFocus(node, m)
    BY <1>1, <1>4 DEF SettledOff, Focus
  <2>4. Settles(T, m)
    BY <1>2, <1>3, <2>1, <2>3 DEF Settles
  <2>5. OffFocus(T, m)
    BY <1>2, <1>3, <2>2, <2>3 DEF OffFocus
  <2> QED
    BY <2>4, <2>5
<1>5. ASSUME NEW m \in Nodes \ Sub(n), frame[m].at # "off"
      PROVE  CallFocus(T, m, frame[m].at, frame[m].child)
  <2>1. m # n
    BY <1>1, TreeFacts
  <2>2. /\ frame[m].at \in Waiting
        /\ \A c \in KidsOf(m) : c = frame[m].child \/ Sub(c) \cap Sub(n) = {}
    BY <1>5, <2>1, PathFacts
  <2>3. CallFocus(node, m, frame[m].at, frame[m].child)
    BY <1>1, <2>2 DEF Focus
  <2>4. \A c \in KidsOf(m) : c \in Nodes
    BY <1>1, KidFacts
  <2> QED
    BY <1>2, <1>3, <2>2, <2>3, <2>4 DEF CallFocus
<1> QED
  BY <1>3, <1>4, <1>5

(* A node with nothing open below it has nothing open below its children. *)
LEMMA CleanKids ==
  ASSUME tree \in Trees, NEW n \in Nodes, NEW S, Clean(S, n)
  PROVE  /\ \A c \in KidsOf(n) : Clean(S, c)
         /\ OffFocus(S, n)
<1>1. \A c \in KidsOf(n) : Sub(c) \subseteq Sub(n) /\ n \notin Sub(c)
  BY KidFacts
<1>2. \A c \in KidsOf(n) : Clean(S, c)
  BY <1>1 DEF Clean
<1> QED
  BY <1>2 DEF OffFocus

(* The definitions above read no variable but the tree and the clock, and   *)
(* the clock only to compare it with the start of a timer.                  *)
LEMMA Carry ==
  ASSUME tree' = tree, tree \in Trees, now \in Nat, now' \in 0..MaxNow, now <= now',
         Consistent(node', host', frame', cur', ret', result')
  PROVE  IInv'
<1>1. Timers(node)'
  <2>1. Timers(node') /\ node' \in Tables
    BY DEF Consistent, Sound
  <2>2. \A m \in Nodes : node'[m].started \in Nat
    BY <2>1 DEF Tables, NodeRecord
  <2> QED
    BY <2>1, <2>2 DEF Timers, TimerAt, Nodes
<1>2. /\ (node \in Tables)' /\ (host \in Histories)' /\ Cursors(node)' /\ Mirror(node, host)'
      /\ Onces(node, host)' /\ (frame \in [Nodes -> Frames])' /\ (cur \in Nodes \cup {0})'
  BY DEF Consistent, Sound, Tables, Histories, Nodes, Cursors, Mirror, MirrorAt,
         Onces, OnceAt, Sheltered, KidsOf, Kind, Kids, Sub, Parent
<1>3. Path(frame, cur)' /\ Locals(node, frame)' /\ Returned(node, frame, cur, ret)'
  BY DEF Consistent, Path, Locals, Returned, Nodes, KidsOf, Kind, Kids, Sub, Parent, First
<1>4. SettledOff(node, frame, ret)' /\ Focus(node, frame, ret)'
  BY DEF Consistent, SettledOff, Settles, Clean, Still, Focus, OffFocus, CallFocus,
         Nodes, KidsOf, Kind, Kids, Sub, First
<1>5. Between(node, host, cur, result)' /\ (ret \in Returns)' /\ (result \in Outcomes)'
  BY DEF Consistent, Between, AsBuilt, Clean, Still, Nodes, Sub
<1>6. Sound(node, host)'
  BY <1>1, <1>2 DEF Sound
<1>7. Consistent(node, host, frame, cur, ret, result)'
  BY <1>2, <1>3, <1>4, <1>5, <1>6 DEF Consistent
<1> QED
  BY <1>7 DEF IInv

(* One record of the table is replaced. *)
Put(S, n, t) == [S EXCEPT ![n] = t]

LEMMA PutFacts ==
  ASSUME NEW S \in Tables, NEW n \in Nodes, NEW t \in NodeRecord
  PROVE  /\ Put(S, n, t) \in Tables /\ Put(S, n, t)[n] = t
         /\ \A m \in Nodes \ {n} : Put(S, n, t)[m] = S[m]
  BY DEF Put, Tables

(***************************************************************************)
(* The four ways a step of a tick ends.                                    *)
(***************************************************************************)

(* tick_node records the status of the node that answers. *)
Answered(S, n, s) == [S EXCEPT ![n].last = s, ![n].evaluated = TRUE]

LEMMA AnsweredFields ==
  ASSUME NEW S \in Tables, NEW n \in Nodes, NEW s \in Statuses
  PROVE  /\ Answered(S, n, s) \in Tables
         /\ \A m \in Nodes \ {n} : Answered(S, n, s)[m] = S[m]
         /\ Answered(S, n, s)[n].last = s
         /\ Answered(S, n, s)[n].running = S[n].running
         /\ Answered(S, n, s)[n].prepared = S[n].prepared
         /\ Answered(S, n, s)[n].branch = S[n].branch
         /\ Answered(S, n, s)[n].once = S[n].once
         /\ Answered(S, n, s)[n].cursor = S[n].cursor
         /\ Answered(S, n, s)[n].timer = S[n].timer
         /\ Answered(S, n, s)[n].started = S[n].started
         /\ Answered(S, n, s)[n].duration = S[n].duration
         /\ Answered(S, n, s)[n].deadline = S[n].deadline
<1>1. PICK o \in NodeRecord : o = S[n]
  BY DEF Tables
<1>2. PICK b \in BOOLEAN : b = TRUE
  OBVIOUS
<1>3. PICK t : t = [o EXCEPT !.last = s, !.evaluated = b]
  OBVIOUS
<1>4. /\ t \in NodeRecord /\ t.last = s
      /\ t.running = o.running /\ t.prepared = o.prepared
      /\ t.branch = o.branch /\ t.once = o.once /\ t.cursor = o.cursor
      /\ t.timer = o.timer /\ t.started = o.started
      /\ t.duration = o.duration /\ t.deadline = o.deadline
  BY <1>3 DEF NodeRecord
<1>5. Answered(S, n, s) = Put(S, n, t)
  BY <1>1, <1>2, <1>3, Zenon DEF Answered, Put
<1>6. /\ Put(S, n, t) \in Tables /\ Put(S, n, t)[n] = t
      /\ \A m \in Nodes \ {n} : Put(S, n, t)[m] = S[m]
  BY <1>4, PutFacts
<1> QED
  BY <1>1, <1>4, <1>5, <1>6

LEMMA ReturnKeeps ==
  ASSUME IInv, NEW n \in Nodes, cur = n, ret.rc = "OK", NEW S, NEW h, Effect(n, S, h),
         NEW s \in Statuses, s # "RUNNING" => Clean(S, n),
         s = "RUNNING" => OffFocus(S, n), Return(n, s, S, h)
  PROVE  IInv'
<1> DEFINE T == Answered(S, n, s)
           f == [frame EXCEPT ![n] = Off]
<1>1. /\ tree \in Trees /\ now \in 0..MaxNow /\ Path(frame, cur) /\ Locals(node, frame)
      /\ frame \in [Nodes -> Frames] /\ result \in Outcomes /\ Between(node, host, cur, result)
  BY DEF IInv, Consistent
<1>2. S \in Tables /\ h \in Histories /\ Sound(S, h)
  BY DEF Effect, Sound
<1>3. /\ T \in Tables /\ \A m \in Nodes \ {n} : T[m] = S[m]
      /\ T[n].last = s
  BY <1>2, AnsweredFields
<1>4. /\ T[n].running = S[n].running /\ T[n].prepared = S[n].prepared
      /\ T[n].branch = S[n].branch /\ T[n].once = S[n].once /\ T[n].cursor = S[n].cursor
  BY <1>2, AnsweredFields
<1>5. /\ T[n].timer = S[n].timer /\ T[n].started = S[n].started
      /\ T[n].duration = S[n].duration /\ T[n].deadline = S[n].deadline
  BY <1>2, AnsweredFields
<1>6. f \in [Nodes -> Frames] /\ f[n] = Off /\ \A m \in Nodes \ {n} : f[m] = frame[m]
  BY <1>1 DEF Frames, Off, Labels
<1>7. node' = T /\ host' = h /\ cur' = Parent(n) /\ frame' = f /\ tree' = tree /\ now' = now
  BY DEF Return, Answered
<1>8. /\ ret' = IF Parent(n) = 0 THEN NoReturn ELSE [rc |-> "OK", status |-> s]
      /\ result' = IF Parent(n) = 0 THEN s ELSE result
  BY DEF Return
<1> HIDE DEF T, f
<1>9. MirrorAt(T, h, n) /\ TimerAt(T, n) /\ OnceAt(T, h, n) /\ T[n].cursor \in KidsOf(n) \cup {0}
  BY <1>2, <1>4, <1>5 DEF Sound, Mirror, MirrorAt, Timers, TimerAt, Onces, OnceAt, Cursors
<1>10. Effect(n, T, h) /\ \A m \in Sub(n) \ {n} : Clean(S, m) => Clean(T, m)
  BY <1>1, <1>2, <1>3, <1>9, TouchEffect
<1>11. s # "RUNNING" => Clean(T, n)
  <2>1. \A k \in Sub(n) : k \in Nodes
    BY <1>1, TreeFacts
  <2> QED
    BY <1>3, <1>4, <2>1 DEF Clean, Still
<1>12. OffFocus(T, n)
  <2>1. CASE s # "RUNNING"
    BY <1>1, <1>11, <2>1, CleanKids
  <2>2. CASE s = "RUNNING"
    <3>1. \A c \in KidsOf(n) : c \in Sub(n) \ {n}
      BY <1>1, KidFacts
    <3> QED
      BY <1>4, <1>10, <2>2, <3>1 DEF OffFocus
  <2> QED
    BY <2>1, <2>2
<1>13. ret' \in Returns /\ ret'.rc = "OK" /\ (Parent(n) # 0 => ret'.status = s)
  BY <1>8 DEF Returns, NoReturn, Statuses
<1>14. /\ Parent(n) # 0 => /\ Parent(n) \in Nodes \ Sub(n) /\ frame[Parent(n)].at \in Waiting
                           /\ frame[Parent(n)].child = n
       /\ frame[n].at # "off"
       /\ \A m \in Nodes \ {n} : frame[m].at # "off" =>
            frame[m].at \in Waiting /\ m \notin Sub(n) /\ n \in Sub(m)
       /\ \A m \in Sub(n) \ {n} : frame[m].at = "off"
  BY PathFacts
<1>15. n \in Sub(n) /\ n # 0 /\ (Parent(n) = 0 <=> n = 1) /\ Parent(n) \in Nodes \cup {0}
  BY <1>1, TreeFacts
<1>16. Parent(n) # 0 => \A m \in Nodes \ {Parent(n)} : n \in Sub(m) /\ m # n => Parent(n) \in Sub(m)
  BY <1>1, TreeFacts
<1>17. Path(f, Parent(n))
  <2>1. Parent(n) # 0 => f[Parent(n)].at # "off"
    BY <1>6, <1>14, <1>15 DEF Waiting
  <2>2. ASSUME NEW m \in Nodes, f[m].at # "off"
        PROVE  /\ Parent(n) # 0
               /\ m # Parent(n) => f[m].at \in Waiting /\ Parent(n) \in Sub(m)
               /\ Parent(m) # 0 => /\ f[Parent(m)].at \in Waiting
                                   /\ f[Parent(m)].child = m
    <3>1. m # n /\ f[m] = frame[m] /\ frame[m].at # "off"
      BY <1>6, <2>2 DEF Off
    <3>2. frame[m].at \in Waiting /\ n \in Sub(m) /\ m \notin Sub(n)
      BY <1>14, <3>1
    <3>3. Parent(n) # 0
      <4>1. n # 1
        <5>1. n = 1 => Sub(n) = Nodes
          BY <1>1, RootAbove
        <5> QED
          BY <3>2, <5>1
      <4> QED
        BY <1>15, <4>1
    <3>4. m # Parent(n) => Parent(n) \in Sub(m)
      BY <1>16, <3>1, <3>2, <3>3
    <3>5. ASSUME Parent(m) # 0
          PROVE  /\ f[Parent(m)].at \in Waiting /\ f[Parent(m)].child = m
      <4>1. frame[Parent(m)].at \in Waiting /\ frame[Parent(m)].child = m
        BY <1>1, <3>1, <3>5 DEF Path
      <4>2. Parent(m) \in Nodes /\ m \in Sub(Parent(m))
        BY <1>1, <3>5, TreeFacts
      <4>3. Parent(m) # n
        BY <3>2, <4>2
      <4> QED
        BY <1>6, <4>1, <4>2, <4>3
    <3> QED
      BY <3>1, <3>2, <3>3, <3>4, <3>5
  <2> QED
    BY <2>1, <2>2 DEF Path
<1>18. \A m \in Nodes \ Sub(n) : T[m] = node[m] /\ f[m] = frame[m]
  BY <1>6, <1>10, <1>15 DEF Effect, Outside
<1>19. Locals(T, f)
  <2> SUFFICES ASSUME NEW m \in Nodes, f[m].at # "off"
               PROVE  m \in Nodes \ Sub(n)
    BY <1>1, <1>18, Zenon DEF Locals, Waiting
  <2> QED
    BY <1>6, <1>14 DEF Off
<1>20. Returned(T, f, Parent(n), ret')
  <2>1. ASSUME Parent(n) # 0
        PROVE  T[f[Parent(n)].child].last = ret'.status
    BY <1>3, <1>13, <1>14, <1>18, <2>1
  <2> QED
    BY <1>13, <2>1 DEF Returned
<1>21. ASSUME NEW m \in Nodes, f[m].at = "off"
       PROVE  Settles(T, m) /\ OffFocus(T, m)
  <2>1. CASE m = n
    BY <1>3, <1>11, <1>12, <2>1 DEF Settles
  <2>2. CASE m \in Sub(n) \ {n}
    BY <1>10, <2>2 DEF Effect, Below
  <2>3. CASE m \in Nodes \ Sub(n)
    <3>1. frame[m].at = "off" /\ Outside(n, T)
      BY <1>10, <1>18, <1>21, <2>3 DEF Effect
    <3> QED
      BY <2>3, <3>1, Elsewhere
  <2> QED
    BY <2>1, <2>2, <2>3
<1>22. ASSUME NEW m \in Nodes, f[m].at # "off"
       PROVE  /\ f[m].at \in Waiting /\ CallFocus(T, m, f[m].at, f[m].child)
  <2>1. m \in Nodes \ Sub(n) /\ f[m] = frame[m] /\ frame[m].at \in Waiting
    BY <1>6, <1>14, <1>22 DEF Off
  <2>2. Outside(n, T)
    BY <1>10 DEF Effect
  <2>3. frame[m].at # "off"
    BY <2>1 DEF Waiting
  <2>4. CallFocus(T, m, frame[m].at, frame[m].child)
    BY <2>1, <2>2, <2>3, Elsewhere
  <2> QED
    BY <2>1, <2>4
<1>23. SettledOff(T, f, ret') /\ Focus(T, f, ret')
  BY <1>21, <1>22 DEF SettledOff, Focus, Waiting
<1>24. Between(T, h, Parent(n), result') /\ result' \in Outcomes
  <2>1. CASE Parent(n) = 0
    <3>1. n = 1 /\ result' = s
      BY <1>8, <1>15, <2>1
    <3> QED
      BY <1>11, <2>1, <3>1 DEF Between, Statuses, Outcomes
  <2>2. CASE Parent(n) # 0
    <3>1. result' = result /\ result = "NONE"
      BY <1>1, <1>8, <1>15, <2>2 DEF Between
    <3> QED
      BY <1>1, <2>2, <3>1 DEF Between
  <2> QED
    BY <2>1, <2>2
<1>25. Consistent(T, h, f, Parent(n), ret', result')
  BY <1>6, <1>10, <1>13, <1>15, <1>17, <1>19, <1>20, <1>23, <1>24 DEF Consistent, Effect
<1>26. now \in Nat /\ now' \in 0..MaxNow /\ now <= now'
  BY <1>1, <1>7, BoundsAssumption
<1> QED
  BY <1>1, <1>7, <1>25, <1>26, Carry

(* tick_node un-evaluates the node it enters, and nothing else. *)
LEMMA EnteredFields ==
  ASSUME tree \in Trees, NEW S \in Tables, NEW c \in Nodes
  PROVE  /\ Entered(S, c) \in Tables
         /\ \A m \in Nodes \ {c} : Entered(S, c)[m] = S[m]
         /\ \A m \in Nodes :
              /\ Entered(S, c)[m].running = S[m].running
              /\ Entered(S, c)[m].prepared = S[m].prepared
              /\ Entered(S, c)[m].branch = S[m].branch
              /\ Entered(S, c)[m].once = S[m].once
              /\ Entered(S, c)[m].last = S[m].last
              /\ Entered(S, c)[m].cursor = S[m].cursor
              /\ Entered(S, c)[m].timer = S[m].timer
              /\ Entered(S, c)[m].started = S[m].started
              /\ Entered(S, c)[m].duration = S[m].duration
              /\ Entered(S, c)[m].deadline = S[m].deadline
         /\ \A m \in Nodes : Clean(S, m) => Clean(Entered(S, c), m)
<1>1. PICK b \in BOOLEAN : b = FALSE
  OBVIOUS
<1> DEFINE T == [S EXCEPT ![c].evaluated = b]
<1>2. Entered(S, c) = S \/ Entered(S, c) = T
  BY <1>1, Zenon DEF Entered
<1>3. T \in Tables /\ \A m \in Nodes \ {c} : T[m] = S[m]
  BY DEF Tables, NodeRecord
<1>4. /\ T[c].running = S[c].running /\ T[c].prepared = S[c].prepared
      /\ T[c].branch = S[c].branch /\ T[c].once = S[c].once
      /\ T[c].last = S[c].last /\ T[c].cursor = S[c].cursor
      /\ T[c].timer = S[c].timer /\ T[c].started = S[c].started
      /\ T[c].duration = S[c].duration /\ T[c].deadline = S[c].deadline
  BY DEF Tables, NodeRecord
<1> HIDE DEF T
<1>5. ASSUME NEW m \in Nodes
      PROVE  /\ Entered(S, c)[m].running = S[m].running
             /\ Entered(S, c)[m].prepared = S[m].prepared
             /\ Entered(S, c)[m].branch = S[m].branch
             /\ Entered(S, c)[m].once = S[m].once
             /\ Entered(S, c)[m].last = S[m].last
             /\ Entered(S, c)[m].cursor = S[m].cursor
             /\ Entered(S, c)[m].timer = S[m].timer
             /\ Entered(S, c)[m].started = S[m].started
             /\ Entered(S, c)[m].duration = S[m].duration
             /\ Entered(S, c)[m].deadline = S[m].deadline
  <2>1. CASE m = c
    BY <1>2, <1>4, <2>1
  <2>2. CASE m # c
    <3>1. Entered(S, c)[m] = S[m]
      BY <1>2, <1>3, <2>2
    <3> QED
      BY <3>1
  <2> QED
    BY <2>1, <2>2
<1>6. \A m \in Nodes : Clean(S, m) => Clean(Entered(S, c), m)
  <2>1. \A m \in Nodes : \A k \in Sub(m) : k \in Nodes
    BY TreeFacts
  <2> QED
    BY <1>5, <2>1 DEF Clean, Still
<1> QED
  BY <1>2, <1>3, <1>5, <1>6

LEMMA CallKeeps ==
  ASSUME IInv, NEW n \in Nodes, cur = n, ret.rc = "OK", NEW S, NEW h, Effect(n, S, h),
         NEW c \in KidsOf(n), NEW label \in Waiting,
         label = "child" /\ Kind(n) \in Adapters => S[n].prepared,
         label = "child" /\ Kind(n) = "RUN_ONCE" => ~S[n].once,
         label = "cond" => c = First(n) /\ Kind(n) \in Guarded /\ n \notin tree.cond,
         CallFocus(S, n, label, c), Call(n, c, label, S, h)
  PROVE  IInv'
<1> DEFINE T == Entered(S, c)
           e == EntryFrame(c)
           w == [frame[n] EXCEPT !.at = label, !.child = c]
           f == [frame EXCEPT ![n] = [@ EXCEPT !.at = label, !.child = c], ![c] = e]
<1>1. /\ tree \in Trees /\ now \in 0..MaxNow /\ Path(frame, cur) /\ Locals(node, frame)
      /\ frame \in [Nodes -> Frames] /\ result \in Outcomes /\ Between(node, host, cur, result)
  BY DEF IInv, Consistent
<1>2. S \in Tables /\ h \in Histories /\ Sound(S, h)
  BY DEF Effect, Sound
<1>3. /\ c \in Nodes /\ c \in Nat /\ c # 0 /\ Parent(c) = n /\ c \in Sub(n) /\ c # n
      /\ n \notin Sub(c)
  BY <1>1, KidFacts
<1>4. /\ T \in Tables /\ \A m \in Nodes \ {c} : T[m] = S[m]
      /\ \A m \in Nodes : Clean(S, m) => Clean(T, m)
      /\ T[c].running = S[c].running /\ T[c].prepared = S[c].prepared
      /\ T[c].branch = S[c].branch /\ T[c].once = S[c].once
      /\ T[c].last = S[c].last /\ T[c].cursor = S[c].cursor
      /\ T[c].timer = S[c].timer /\ T[c].started = S[c].started
      /\ T[c].duration = S[c].duration /\ T[c].deadline = S[c].deadline
  BY <1>1, <1>2, <1>3, EnteredFields
<1>5. e \in Frames /\ e.at \in {"enter", "run"} /\ e.child = 0
  BY DEF EntryFrame, Off, Frames, Labels
<1>6. w \in Frames /\ w.at = label /\ w.child = c
  BY <1>1, <1>3 DEF Frames, Labels, Waiting
<1>7. /\ f \in [Nodes -> Frames] /\ f[n] = w /\ f[c] = e
      /\ \A m \in Nodes \ {n, c} : f[m] = frame[m]
  <2> HIDE DEF e
  <2>1. f = [frame EXCEPT ![n] = w, ![c] = e]
    OBVIOUS
  <2> HIDE DEF f, w
  <2> QED
    BY <1>1, <1>3, <1>5, <1>6, <2>1
<1>8. /\ node' = T /\ host' = h /\ cur' = c /\ frame' = f /\ tree' = tree /\ now' = now
      /\ ret' = NoReturn /\ result' = result
  BY DEF Call
<1> HIDE DEF T, e, w, f
<1>9. Effect(n, T, h)
  <2>1. TimerAt(T, c)
    BY <1>2, <1>3, <1>4 DEF Sound, Timers, TimerAt
  <2>2. h.branch[c] = Bit(T[c].branch) /\ (T[c].branch => n \in tree.hooks)
    BY <1>2, <1>3, <1>4 DEF Sound, Mirror, MirrorAt
  <2> QED
    BY <1>1, <1>2, <1>4, <2>1, <2>2, MarkEffect
<1>10. /\ frame[n].at # "off"
       /\ \A m \in Sub(n) \ {n} : frame[m].at = "off"
       /\ \A m \in Nodes \ {n} : frame[m].at # "off" =>
            frame[m].at \in Waiting /\ m \notin Sub(n) /\ n \in Sub(m)
  BY PathFacts
<1>11. /\ \A m \in Nodes \ Sub(n) : T[m] = node[m] /\ f[m] = frame[m]
       /\ n \in Sub(n)
  BY <1>1, <1>3, <1>7, <1>9, TreeFacts DEF Effect, Outside
<1>12. Path(f, c)
  <2>1. f[c].at # "off"
    BY <1>5, <1>7
  <2>2. ASSUME NEW m \in Nodes, f[m].at # "off", m # c
        PROVE  f[m].at \in Waiting /\ c \in Sub(m)
    <3>1. CASE m = n
      BY <1>3, <1>6, <1>7, <3>1
    <3>2. CASE m # n
      <4>1. f[m] = frame[m] /\ frame[m].at \in Waiting /\ n \in Sub(m)
        BY <1>7, <1>10, <2>2, <3>2
      <4> QED
        BY <1>1, <1>3, <4>1, TreeFacts
    <3> QED
      BY <3>1, <3>2
  <2>3. ASSUME NEW m \in Nodes, f[m].at # "off", Parent(m) # 0
        PROVE  f[Parent(m)].at \in Waiting /\ f[Parent(m)].child = m
    <3>1. CASE m = c
      BY <1>3, <1>6, <1>7, <3>1
    <3>2. CASE m # c
      <4>1. frame[m].at # "off"
        BY <1>7, <1>10, <2>3, <3>2
      <4>2. frame[Parent(m)].at \in Waiting /\ frame[Parent(m)].child = m
        BY <1>1, <2>3, <4>1 DEF Path
      <4>3. Parent(m) \in Nodes /\ m \in Sub(Parent(m))
        BY <1>1, <2>3, TreeFacts
      <4>4. Parent(m) # n /\ Parent(m) # c
        <5>1. Parent(m) # n
          <6>1. m = n \/ n \in Sub(m)
            BY <1>10, <4>1
          <6>2. m \in Nat /\ n \in Nat /\ Parent(m) < m /\ m <= n
            BY <1>1, <6>1, TreeFacts, SubOrder
          <6> QED
            BY <6>2
        <5>2. frame[c].at = "off"
          BY <1>3, <1>10
        <5> QED
          BY <4>2, <5>1, <5>2 DEF Waiting
      <4> QED
        BY <1>7, <4>2, <4>3, <4>4
    <3> QED
      BY <3>1, <3>2
  <2> QED
    BY <1>3, <2>1, <2>2, <2>3 DEF Path
<1>13. T[n] = S[n]
  BY <1>3, <1>4
<1>14. Locals(T, f)
  <2> SUFFICES ASSUME NEW m \in Nodes
               PROVE  /\ f[m].at \in Waiting \cup {"finish"} => f[m].child \in KidsOf(m)
                      /\ f[m].at \in {"enter", "run", "join", "finish"} => f[m].child \in KidsOf(m) \cup {0}
                      /\ f[m].at \in {"join", "finish"} => Kind(m) = "PARALLEL"
                      /\ f[m].at = "abort" => m = 1
                      /\ f[m].at = "cond" =>
                           f[m].child = First(m) /\ Kind(m) \in Guarded /\ m \notin tree.cond
                      /\ f[m].at = "child" /\ Kind(m) \in Adapters => T[m].prepared
                      /\ f[m].at = "child" /\ Kind(m) = "RUN_ONCE" => ~T[m].once
    BY DEF Locals
  <2>1. CASE m = n
    BY <1>6, <1>7, <1>13, <2>1 DEF Waiting
  <2>2. CASE m = c
    BY <1>5, <1>7, <2>2 DEF Waiting
  <2>3. CASE m \notin {n, c} /\ frame[m].at = "off"
    BY <1>7, <2>3 DEF Waiting
  <2>4. CASE m \notin {n, c} /\ frame[m].at # "off"
    <3>1. T[m] = node[m] /\ f[m] = frame[m]
      BY <1>7, <1>10, <1>11, <2>4
    <3> QED
      BY <1>1, <3>1 DEF Locals
  <2> QED
    BY <2>1, <2>2, <2>3, <2>4
<1>15. ret' \in Returns /\ ret'.rc = "OK"
  BY <1>8 DEF Returns, NoReturn, Statuses
<1>16. Returned(T, f, c, ret')
  BY <1>5, <1>7, <1>15 DEF Returned, Waiting
<1>17. ASSUME NEW m \in Nodes, f[m].at \notin Waiting
       PROVE  Settles(T, m) /\ OffFocus(T, m)
  <2>1. m # n
    BY <1>6, <1>7, <1>17
  <2>2. CASE m \in Sub(n)
    BY <1>9, <2>1, <2>2 DEF Effect, Below
  <2>3. CASE m \notin Sub(n)
    <3>1. frame[m].at = "off" /\ Outside(n, T)
      BY <1>9, <1>10, <1>11, <1>17, <2>1, <2>3 DEF Effect
    <3> QED
      BY <2>3, <3>1, Elsewhere
  <2> QED
    BY <2>2, <2>3
<1>18. ASSUME NEW m \in Nodes, f[m].at \in Waiting
       PROVE  CallFocus(T, m, f[m].at, f[m].child)
  <2>1. CASE m = n
    <3>1. \A d \in KidsOf(n) : d \in Nodes
      BY <1>1, KidFacts
    <3>2. CallFocus(T, n, label, c)
      BY <1>4, <1>13, <3>1 DEF CallFocus
    <3> QED
      BY <1>6, <1>7, <2>1, <3>2
  <2>2. CASE m # n
    <3>1. m # c
      BY <1>5, <1>7, <1>18 DEF Waiting
    <3>2. f[m] = frame[m] /\ frame[m].at # "off"
      BY <1>7, <1>18, <2>2, <3>1 DEF Waiting
    <3>3. m \in Nodes \ Sub(n) /\ Outside(n, T)
      BY <1>9, <1>10, <2>2, <3>2 DEF Effect
    <3>4. CallFocus(T, m, frame[m].at, frame[m].child)
      BY <3>2, <3>3, Elsewhere
    <3> QED
      BY <3>2, <3>4
  <2> QED
    BY <2>1, <2>2
<1>19. SettledOff(T, f, ret') /\ Focus(T, f, ret')
  BY <1>17, <1>18 DEF SettledOff, Focus, Waiting
<1>20. Between(T, h, c, result') /\ result' \in Outcomes
  <2>1. result' = "NONE"
    BY <1>1, <1>8, PathFacts DEF Between
  <2> QED
    BY <1>3, <2>1 DEF Between, Outcomes
<1>21. Consistent(T, h, f, c, ret', result')
  BY <1>3, <1>7, <1>9, <1>12, <1>14, <1>15, <1>16, <1>19, <1>20 DEF Consistent, Effect
<1>22. now \in Nat /\ now' \in 0..MaxNow /\ now <= now'
  BY <1>1, <1>8, BoundsAssumption
<1> QED
  BY <1>1, <1>8, <1>21, <1>22, Carry

LEMMA RaiseKeeps ==
  ASSUME IInv, NEW n \in Nodes, cur = n, NEW S, NEW h, Sound(S, h), Outside(n, S),
         Raise(n, S, h)
  PROVE  IInv'
<1> DEFINE p == IF Parent(n) = 0 THEN n ELSE Parent(n)
           e == IF Parent(n) = 0 THEN [Off EXCEPT !.at = "abort"] ELSE Off
           f == [frame EXCEPT ![n] = e]
<1>1. /\ tree \in Trees /\ now \in 0..MaxNow /\ Path(frame, cur) /\ Locals(node, frame)
      /\ frame \in [Nodes -> Frames] /\ result \in Outcomes /\ Between(node, host, cur, result)
  BY DEF IInv, Consistent
<1>2. e \in Frames /\ e.at = IF Parent(n) = 0 THEN "abort" ELSE "off"
  BY DEF Off, Frames, Labels
<1>3. /\ node' = S /\ host' = h /\ cur' = p /\ frame' = f /\ tree' = tree /\ now' = now
      /\ ret' = [NoReturn EXCEPT !.rc = "ERROR"] /\ result' = result
  BY DEF Raise
<1> HIDE DEF e
<1>4. f \in [Nodes -> Frames] /\ f[n] = e /\ \A m \in Nodes \ {n} : f[m] = frame[m]
  BY <1>1, <1>2
<1> HIDE DEF f
<1>5. ret' \in Returns /\ ret'.rc = "ERROR"
  BY <1>3 DEF Returns, NoReturn, Statuses
<1>6. /\ Parent(n) # 0 => /\ Parent(n) \in Nodes \ Sub(n) /\ frame[Parent(n)].at \in Waiting
                          /\ frame[Parent(n)].child = n
      /\ \A m \in Nodes \ {n} : frame[m].at # "off" =>
           frame[m].at \in Waiting /\ m \notin Sub(n) /\ n \in Sub(m)
  BY PathFacts
<1>7. n \in Sub(n) /\ n # 0 /\ (Parent(n) = 0 <=> n = 1) /\ Parent(n) \in Nodes \cup {0}
  BY <1>1, TreeFacts
<1>8. p \in Nodes /\ p # 0
  BY <1>6, <1>7, <1>1, TreeFacts
<1>9. Path(f, p)
  <2>1. CASE Parent(n) = 0
    <3>1. n = 1 /\ p = n /\ f[n].at = "abort"
      BY <1>2, <1>4, <1>7, <2>1
    <3>2. \A m \in Nodes \ {n} : f[m].at = "off"
      BY <1>1, <1>4, <1>6, <3>1, RootAbove
    <3> QED
      BY <1>7, <3>1, <3>2 DEF Path
  <2>2. CASE Parent(n) # 0
    <3>1. p = Parent(n) /\ f[n].at = "off" /\ p # n
      BY <1>2, <1>4, <1>6, <1>7, <2>2
    <3>2. f[p].at # "off"
      BY <1>4, <1>6, <1>8, <2>2, <3>1 DEF Waiting
    <3>3. ASSUME NEW m \in Nodes, f[m].at # "off"
          PROVE  /\ m # p => f[m].at \in Waiting /\ p \in Sub(m)
                 /\ Parent(m) # 0 => /\ f[Parent(m)].at \in Waiting
                                     /\ f[Parent(m)].child = m
      <4>1. m # n /\ f[m] = frame[m] /\ frame[m].at \in Waiting /\ n \in Sub(m) /\ m \notin Sub(n)
        BY <1>4, <1>6, <3>1, <3>3
      <4>2. m # p => p \in Sub(m)
        BY <1>1, <3>1, <4>1, TreeFacts
      <4>3. ASSUME Parent(m) # 0
            PROVE  f[Parent(m)].at \in Waiting /\ f[Parent(m)].child = m
        <5>1. frame[Parent(m)].at \in Waiting /\ frame[Parent(m)].child = m
          BY <1>1, <4>1, <4>3 DEF Path, Waiting
        <5>2. Parent(m) \in Nodes /\ m \in Sub(Parent(m))
          BY <1>1, <4>3, TreeFacts
        <5>3. Parent(m) # n
          BY <4>1, <5>2
        <5> QED
          BY <1>4, <5>1, <5>2, <5>3
      <4> QED
        BY <4>1, <4>2, <4>3
    <3> QED
      BY <1>8, <3>2, <3>3 DEF Path
  <2> QED
    BY <2>1, <2>2
<1>10. Locals(S, f)
  <2> SUFFICES ASSUME NEW m \in Nodes
               PROVE  /\ f[m].at \in Waiting \cup {"finish"} => f[m].child \in KidsOf(m)
                      /\ f[m].at \in {"enter", "run", "join", "finish"} => f[m].child \in KidsOf(m) \cup {0}
                      /\ f[m].at \in {"join", "finish"} => Kind(m) = "PARALLEL"
                      /\ f[m].at = "abort" => m = 1
                      /\ f[m].at = "cond" =>
                           f[m].child = First(m) /\ Kind(m) \in Guarded /\ m \notin tree.cond
                      /\ f[m].at = "child" /\ Kind(m) \in Adapters => S[m].prepared
                      /\ f[m].at = "child" /\ Kind(m) = "RUN_ONCE" => ~S[m].once
    BY DEF Locals
  <2>1. CASE m = n
    BY <1>2, <1>4, <1>7, <2>1 DEF Waiting
  <2>2. CASE m # n /\ frame[m].at = "off"
    BY <1>4, <2>2 DEF Waiting
  <2>3. CASE m # n /\ frame[m].at # "off"
    <3>1. S[m] = node[m] /\ f[m] = frame[m]
      BY <1>4, <1>6, <2>3 DEF Outside
    <3> QED
      BY <1>1, <3>1 DEF Locals
  <2> QED
    BY <2>1, <2>2, <2>3
<1>11. Returned(S, f, p, ret')
  <2>1. f[p].at \in Waiting \cup {"abort"}
    BY <1>2, <1>4, <1>6, <1>7
  <2> QED
    BY <1>5, <1>8, <2>1 DEF Returned
<1>12. SettledOff(S, f, ret') /\ Focus(S, f, ret')
  BY <1>5 DEF SettledOff, Focus
<1>13. Between(S, h, p, result') /\ result' \in Outcomes
  <2>1. result' = "NONE"
    BY <1>1, <1>3, <1>7 DEF Between
  <2> QED
    BY <1>8, <2>1 DEF Between, Outcomes
<1>14. Consistent(S, h, f, p, ret', result')
  BY <1>4, <1>5, <1>8, <1>9, <1>10, <1>11, <1>12, <1>13 DEF Consistent
<1>15. now \in Nat /\ now' \in 0..MaxNow /\ now <= now'
  BY <1>1, <1>3, BoundsAssumption
<1> HIDE DEF p
<1> QED
  BY <1>1, <1>3, <1>14, <1>15, Carry

LEMMA LocalKeeps ==
  ASSUME IInv, NEW n \in Nodes, cur = n, ret.rc = "OK", NEW S, NEW h, Effect(n, S, h),
         NEW e \in Frames, e.at \in {"run", "join", "finish"},
         e.child \in KidsOf(n) \cup {0}, e.at = "finish" => e.child \in KidsOf(n),
         e.at \in {"join", "finish"} => Kind(n) = "PARALLEL",
         Kind(n) \in Cachers => Settles(S, n), e.at = "run" => OffFocus(S, n),
         node' = S, host' = h, frame' \in [Nodes -> Frames], frame'[n] = e,
         \A m \in Nodes \ {n} : frame'[m] = frame[m],
         UNCHANGED <<tree, cur, ret, now, result>>
  PROVE  IInv'
<1> DEFINE f == frame'
<1>1. /\ tree \in Trees /\ now \in 0..MaxNow /\ Path(frame, cur) /\ Locals(node, frame)
      /\ frame \in [Nodes -> Frames] /\ result \in Outcomes /\ Between(node, host, cur, result)
      /\ ret \in Returns
  BY DEF IInv, Consistent
<1>2. f \in [Nodes -> Frames] /\ f[n] = e /\ \A m \in Nodes \ {n} : f[m] = frame[m]
  OBVIOUS
<1>3. frame' = f
  OBVIOUS
<1> HIDE DEF f
<1>4. /\ frame[n].at # "off"
      /\ \A m \in Sub(n) \ {n} : frame[m].at = "off"
      /\ \A m \in Nodes \ {n} : frame[m].at # "off" =>
           frame[m].at \in Waiting /\ m \notin Sub(n) /\ n \in Sub(m)
  BY PathFacts
<1>5. n \in Sub(n) /\ n # 0
  BY <1>1, TreeFacts
<1>6. Path(f, n)
  <2>1. ASSUME NEW m \in Nodes, f[m].at # "off"
        PROVE  /\ m # n => f[m].at \in Waiting /\ n \in Sub(m)
               /\ Parent(m) # 0 => f[Parent(m)].at \in Waiting /\ f[Parent(m)].child = m
    <3>1. frame[m].at # "off"
      BY <1>2, <1>4, <2>1
    <3>2. m # n => f[m].at \in Waiting /\ n \in Sub(m)
      BY <1>2, <1>4, <3>1
    <3>3. ASSUME Parent(m) # 0
          PROVE  f[Parent(m)].at \in Waiting /\ f[Parent(m)].child = m
      <4>1. frame[Parent(m)].at \in Waiting /\ frame[Parent(m)].child = m
        BY <1>1, <3>1, <3>3 DEF Path
      <4>2. Parent(m) \in Nodes /\ m \in Sub(Parent(m)) /\ Parent(m) < m /\ m \in Nat
        BY <1>1, <3>3, TreeFacts
      <4>3. Parent(m) # n
        <5>1. m <= n /\ n \in Nat
          BY <1>1, <1>4, <3>1, <4>2, SubOrder, TreeFacts
        <5> QED
          BY <4>2, <5>1
      <4> QED
        BY <1>2, <4>1, <4>2, <4>3
    <3> QED
      BY <3>2, <3>3
  <2> QED
    BY <1>2, <1>5, <2>1 DEF Path
<1>7. Locals(S, f)
  <2> SUFFICES ASSUME NEW m \in Nodes
               PROVE  /\ f[m].at \in Waiting \cup {"finish"} => f[m].child \in KidsOf(m)
                      /\ f[m].at \in {"enter", "run", "join", "finish"} => f[m].child \in KidsOf(m) \cup {0}
                      /\ f[m].at \in {"join", "finish"} => Kind(m) = "PARALLEL"
                      /\ f[m].at = "abort" => m = 1
                      /\ f[m].at = "cond" =>
                           f[m].child = First(m) /\ Kind(m) \in Guarded /\ m \notin tree.cond
                      /\ f[m].at = "child" /\ Kind(m) \in Adapters => S[m].prepared
                      /\ f[m].at = "child" /\ Kind(m) = "RUN_ONCE" => ~S[m].once
    BY DEF Locals
  <2>1. CASE m = n
    BY <1>2, <2>1 DEF Waiting
  <2>2. CASE m # n /\ frame[m].at = "off"
    BY <1>2, <2>2 DEF Waiting
  <2>3. CASE m # n /\ frame[m].at # "off"
    <3>1. S[m] = node[m] /\ f[m] = frame[m]
      BY <1>2, <1>4, <2>3 DEF Effect, Outside
    <3> QED
      BY <1>1, <3>1 DEF Locals
  <2> QED
    BY <2>1, <2>2, <2>3
<1>8. Returned(S, f, n, ret)
  BY <1>2 DEF Returned, Waiting
<1>9. ASSUME NEW m \in Nodes
      PROVE  /\ m # n => /\ f[m].at \in {"off", "enter", "run"} => Settles(S, m) /\ OffFocus(S, m)
                         /\ f[m].at \in Waiting => CallFocus(S, m, f[m].at, f[m].child)
  <2>1. CASE m \in Sub(n) \ {n}
    <3>1. f[m].at = "off"
      BY <1>2, <1>4, <2>1
    <3> QED
      BY <2>1, <3>1 DEF Effect, Below, Waiting
  <2>2. CASE m \notin Sub(n)
    <3>1. f[m] = frame[m] /\ Outside(n, S)
      BY <1>2, <1>5, <2>2 DEF Effect
    <3>2. frame[m].at = "off" => Settles(S, m) /\ OffFocus(S, m)
      BY <2>2, <3>1, Elsewhere
    <3>3. frame[m].at # "off" => /\ CallFocus(S, m, frame[m].at, frame[m].child)
                                 /\ frame[m].at \in Waiting
      BY <1>4, <1>5, <2>2, <3>1, Elsewhere
    <3> QED
      BY <3>1, <3>2, <3>3 DEF Waiting
  <2> QED
    BY <2>1, <2>2
<1>10. SettledOff(S, f, ret) /\ Focus(S, f, ret)
  BY <1>2, <1>9 DEF SettledOff, Focus, Waiting
<1>11. Between(S, h, n, result)
  <2>1. result = "NONE"
    BY <1>1, <1>5 DEF Between
  <2> QED
    BY <1>5, <2>1 DEF Between
<1>12. Consistent(S, h, f, n, ret, result)
  BY <1>1, <1>2, <1>6, <1>7, <1>8, <1>10, <1>11 DEF Consistent, Effect
<1>13. Consistent(node', host', frame', cur', ret', result')
  BY <1>3, <1>12
<1>14. now \in Nat /\ now' \in 0..MaxNow /\ now <= now'
  BY <1>1, BoundsAssumption
<1> QED
  BY <1>1, <1>13, <1>14, Carry

(***************************************************************************)
(* Where the steps start, and what they are put together from.             *)
(***************************************************************************)

LEMMA AtFacts ==
  ASSUME IInv, NEW n \in Nodes, NEW label \in {"enter", "run", "join", "finish"},
         At(n, label)
  PROVE  /\ tree \in Trees /\ cur = n /\ ret.rc = "OK" /\ Effect(n, node, host)
         /\ node \in Tables /\ host \in Histories /\ frame[n] \in Frames
         /\ frame[n].at = label
         /\ label \in {"enter", "run", "join", "finish"} => frame[n].child \in KidsOf(n) \cup {0}
         /\ label = "finish" => frame[n].child \in KidsOf(n)
         /\ label \in {"join", "finish"} => Kind(n) = "PARALLEL"
         /\ label \in {"enter", "run"} => OffFocus(node, n)
         /\ label \in {"enter", "run"} /\ Kind(n) \in Cachers => Settles(node, n)
<1>1. /\ tree \in Trees /\ Returned(node, frame, cur, ret) /\ ret \in Returns
      /\ Locals(node, frame) /\ SettledOff(node, frame, ret) /\ Focus(node, frame, ret)
      /\ node \in Tables /\ host \in Histories /\ frame \in [Nodes -> Frames]
  BY DEF IInv, Consistent, Sound
<1>2. cur = n /\ frame[n].at = label
  BY DEF At
<1>3. ret.rc = "OK"
  BY <1>1, <1>2 DEF Returned, Returns, Waiting
<1>4. Effect(n, node, host)
  BY <1>2, <1>3, NodeEffect
<1>5. /\ label \in {"enter", "run", "join", "finish"} => frame[n].child \in KidsOf(n) \cup {0}
      /\ label = "finish" => frame[n].child \in KidsOf(n)
      /\ label \in {"join", "finish"} => Kind(n) = "PARALLEL"
  BY <1>1, <1>2 DEF Locals
<1>6. /\ label \in {"enter", "run"} => OffFocus(node, n)
      /\ label \in {"enter", "run"} /\ Kind(n) \in Cachers => Settles(node, n)
  BY <1>1, <1>2, <1>3 DEF Focus, SettledOff
<1> QED
  BY <1>1, <1>2, <1>3, <1>4, <1>5, <1>6

LEMMA ResumedFacts ==
  ASSUME IInv, NEW n \in Nodes, NEW label \in Waiting, Resumed(n, label)
  PROVE  /\ tree \in Trees /\ cur = n /\ ret.rc = "OK" /\ Effect(n, node, host)
         /\ node \in Tables /\ host \in Histories /\ frame[n] \in Frames
         /\ frame[n].child \in KidsOf(n) /\ ret.status \in Statuses
         /\ ret.status # "RUNNING" => Clean(node, frame[n].child)
         /\ CallFocus(node, n, label, frame[n].child)
         /\ label = "child" /\ Kind(n) \in Adapters => node[n].prepared
         /\ label = "child" /\ Kind(n) = "RUN_ONCE" => ~node[n].once
         /\ label = "cond" =>
              frame[n].child = First(n) /\ Kind(n) \in Guarded /\ n \notin tree.cond
<1>1. /\ tree \in Trees /\ Returned(node, frame, cur, ret) /\ ret \in Returns
      /\ Locals(node, frame) /\ SettledOff(node, frame, ret) /\ Focus(node, frame, ret)
      /\ node \in Tables /\ host \in Histories /\ frame \in [Nodes -> Frames]
  BY DEF IInv, Consistent, Sound
<1>2. cur = n /\ frame[n].at = label /\ ret.rc = "OK"
  BY DEF At, Resumed
<1>3. /\ frame[n].child \in KidsOf(n)
      /\ label = "child" /\ Kind(n) \in Adapters => node[n].prepared
      /\ label = "child" /\ Kind(n) = "RUN_ONCE" => ~node[n].once
      /\ label = "cond" =>
           frame[n].child = First(n) /\ Kind(n) \in Guarded /\ n \notin tree.cond
  BY <1>1, <1>2 DEF Locals
<1>4. Effect(n, node, host)
  BY <1>2, NodeEffect
<1>5. ret.status \in Statuses /\ node[frame[n].child].last = ret.status
  <2>1. n # 0
    BY <1>1, TreeFacts
  <2> QED
    BY <1>1, <1>2, <2>1 DEF Returned, Returns
<1>6. ret.status # "RUNNING" => Clean(node, frame[n].child)
  <2>1. frame[n].child \in Sub(n) \ {n}
    BY <1>1, <1>3, KidFacts
  <2>2. Settles(node, frame[n].child)
    BY <1>4, <2>1 DEF Effect, Below
  <2> QED
    BY <1>5, <2>2 DEF Settles
<1>7. CallFocus(node, n, label, frame[n].child)
  BY <1>1, <1>2 DEF Focus
<1> QED
  BY <1>1, <1>2, <1>3, <1>4, <1>5, <1>6, <1>7

(* The first child, the next one and the later ones. *)
LEMMA FirstKid ==
  ASSUME tree \in Trees, NEW n \in Nodes, Len(Kids(n)) >= 1
  PROVE  /\ First(n) \in KidsOf(n)
         /\ \A k \in KidsOf(n) : k = First(n) \/ First(n) < k
<1>1. Kids(n) \in Seq(Nodes) /\ Len(Kids(n)) \in Nat /\ DOMAIN Kids(n) = 1 .. Len(Kids(n))
  BY TreeFacts
<1>2. \A i, j \in DOMAIN Kids(n) : i < j => Kids(n)[i] < Kids(n)[j]
  BY KidCounts
<1>3. \A j \in 1 .. Len(Kids(n)) : j = 1 \/ 1 < j
  BY <1>1
<1> QED
  BY <1>1, <1>2, <1>3 DEF First, KidsOf, SeqRange

LEMMA OnlyKid ==
  ASSUME tree \in Trees, NEW n \in Nodes, Len(Kids(n)) = 1
  PROVE  /\ First(n) \in KidsOf(n)
         /\ \A c \in KidsOf(n) : c = First(n)
  BY TreeFacts DEF First, KidsOf, SeqRange

LEMMA Siblings ==
  ASSUME tree \in Trees, NEW n \in Nodes, NEW c \in KidsOf(n)
  PROVE  /\ NextSibling(n, c) \in KidsOf(n) \cup {0}
         /\ NextSibling(n, c) # 0 =>
              \A d \in KidsOf(n) : c < d => NextSibling(n, c) = d \/ NextSibling(n, c) < d
         /\ LaterSiblings(n, c) \subseteq KidsOf(n)
         /\ \A d \in KidsOf(n) : c < d => d \in LaterSiblings(n, c)
         /\ c \notin LaterSiblings(n, c)
<1> DEFINE i == CHOOSE j \in DOMAIN Kids(n) : Kids(n)[j] = c
<1>1. Kids(n) \in Seq(Nodes) /\ n \in Nat /\ Nodes \subseteq Nat
  BY TreeFacts
<1>2. i \in DOMAIN Kids(n) /\ Kids(n)[i] = c
  BY DEF KidsOf, SeqRange
<1>3. \A k, j \in DOMAIN Kids(n) : k < j => Kids(n)[k] < Kids(n)[j]
  BY KidCounts
<1>4. NextSibling(n, c) = IF i < Len(Kids(n)) THEN Kids(n)[i + 1] ELSE 0
  BY DEF NextSibling
<1>5. LaterSiblings(n, c) = {Kids(n)[j] : j \in i + 1 .. Len(Kids(n))}
  BY DEF LaterSiblings
<1> HIDE DEF i
<1>6. /\ DOMAIN Kids(n) = 1 .. Len(Kids(n)) /\ Len(Kids(n)) \in Nat
      /\ i \in 1 .. Len(Kids(n))
      /\ \A j \in 1 .. Len(Kids(n)) : Kids(n)[j] \in Nat
  <2>1. DOMAIN Kids(n) = 1 .. Len(Kids(n)) /\ Len(Kids(n)) \in Nat
    BY <1>1
  <2>2. \A j \in 1 .. Len(Kids(n)) : Kids(n)[j] \in Nodes
    BY <1>1
  <2> QED
    BY <1>1, <1>2, <2>1, <2>2
<1>7. NextSibling(n, c) \in KidsOf(n) \cup {0}
  BY <1>4, <1>6 DEF KidsOf, SeqRange
<1>8. LaterSiblings(n, c) \subseteq KidsOf(n)
  BY <1>5, <1>6 DEF KidsOf, SeqRange
<1>9. ASSUME NEW d \in KidsOf(n), c < d
      PROVE  \E j \in i + 1 .. Len(Kids(n)) : d = Kids(n)[j]
  <2>1. PICK j \in 1 .. Len(Kids(n)) : d = Kids(n)[j]
    BY <1>6 DEF KidsOf, SeqRange
  <2>2. i < j
    <3>1. j < i => d < c
      BY <1>2, <1>3, <1>6, <2>1
    <3>2. c \in Nat /\ d \in Nat
      BY <1>2, <1>6, <2>1
    <3> QED
      BY <1>2, <1>6, <1>9, <2>1, <3>1, <3>2
  <2> QED
    BY <1>6, <2>1, <2>2
<1>10. \A d \in KidsOf(n) : c < d => d \in LaterSiblings(n, c)
  BY <1>5, <1>9
<1>11. ASSUME NextSibling(n, c) # 0, NEW d \in KidsOf(n), c < d
       PROVE  NextSibling(n, c) = d \/ NextSibling(n, c) < d
  <2>1. PICK j \in i + 1 .. Len(Kids(n)) : d = Kids(n)[j]
    BY <1>9, <1>11
  <2>2. i + 1 \in 1 .. Len(Kids(n)) /\ j \in 1 .. Len(Kids(n)) /\ (j = i + 1 \/ i + 1 < j)
    BY <1>6, <2>1
  <2>3. NextSibling(n, c) = Kids(n)[i + 1]
    BY <1>4, <1>6, <2>1, <2>2
  <2> QED
    BY <1>3, <1>6, <2>1, <2>2, <2>3
<1>12. c \notin LaterSiblings(n, c)
  <2> SUFFICES ASSUME NEW j \in i + 1 .. Len(Kids(n)), c = Kids(n)[j]
               PROVE  FALSE
    BY <1>5
  <2>1. Kids(n)[i] < Kids(n)[j] /\ Kids(n)[i] \in Nat
    BY <1>3, <1>6
  <2> QED
    BY <1>2, <2>1
<1> QED
  BY <1>7, <1>8, <1>10, <1>11, <1>12

(* The node updates fields of its own that the host does not see. *)
LEMMA UpdateEffect ==
  ASSUME tree \in Trees, NEW n \in Nodes, NEW S, NEW h, Effect(n, S, h),
         NEW T \in Tables, \A m \in Nodes \ {n} : T[m] = S[m],
         T[n].running = S[n].running, T[n].prepared = S[n].prepared,
         T[n].branch = S[n].branch, T[n].once = S[n].once,
         T[n].cursor \in KidsOf(n) \cup {0}, TimerAt(T, n)
  PROVE  /\ Effect(n, T, h)
         /\ \A m \in Nodes : Clean(S, m) => Clean(T, m)
<1>1. h \in Histories /\ MirrorAt(S, h, n) /\ OnceAt(S, h, n)
  BY DEF Effect, Sound, Mirror, Onces
<1>2. MirrorAt(T, h, n) /\ OnceAt(T, h, n)
  BY <1>1 DEF MirrorAt, OnceAt
<1>3. Effect(n, T, h)
  BY <1>1, <1>2, TouchEffect
<1>4. \A m \in Nodes : \A k \in Sub(m) : k \in Nodes
  BY TreeFacts
<1>5. \A m \in Nodes : Clean(S, m) => Clean(T, m)
  BY <1>4 DEF Clean, Still
<1> QED
  BY <1>3, <1>5

SetCursor(S, n, c) == [S EXCEPT ![n].cursor = c]

LEMMA CursorEffect ==
  ASSUME tree \in Trees, NEW n \in Nodes, NEW S, NEW h, Effect(n, S, h),
         NEW c, c \in KidsOf(n) \/ c = 0, NEW T, T = SetCursor(S, n, c)
  PROVE  /\ Effect(n, T, h) /\ T \in Tables
         /\ T[n].cursor = c /\ T[n].prepared = S[n].prepared /\ T[n].last = S[n].last
         /\ T[n].once = S[n].once
         /\ \A m \in Nodes \ {n} : T[m] = S[m]
         /\ \A m \in Nodes : Clean(S, m) => Clean(T, m)
<1>1. S \in Tables /\ c \in Nat /\ TimerAt(S, n)
  <2>1. c \in KidsOf(n) => c \in Nat
    BY KidFacts
  <2> QED
    BY <2>1 DEF Effect, Sound, Timers
<1>2. /\ T \in Tables /\ \A m \in Nodes \ {n} : T[m] = S[m]
      /\ T[n].cursor = c
      /\ T[n].running = S[n].running /\ T[n].prepared = S[n].prepared
      /\ T[n].branch = S[n].branch /\ T[n].once = S[n].once
      /\ T[n].last = S[n].last
      /\ T[n].timer = S[n].timer /\ T[n].started = S[n].started
      /\ T[n].duration = S[n].duration /\ T[n].deadline = S[n].deadline
  BY <1>1 DEF Tables, NodeRecord, SetCursor
<1>3. TimerAt(T, n)
  BY <1>1, <1>2 DEF TimerAt
<1>4. T[n].cursor \in KidsOf(n) \cup {0}
  BY <1>2
<1>5. Effect(n, T, h) /\ \A m \in Nodes : Clean(S, m) => Clean(T, m)
  BY <1>2, <1>3, <1>4, UpdateEffect
<1> QED
  BY <1>2, <1>5

(* Under the rule that only c may be busy, a node may wait with cursor c. *)
LEMMA SuspendKeeps ==
  ASSUME IInv, NEW n \in Nodes, cur = n, ret.rc = "OK", NEW S, NEW h, Effect(n, S, h),
         NEW c, c \in KidsOf(n) \/ c = 0,
         Kind(n) \in Focusing => \A k \in KidsOf(n) :
           \/ Clean(S, k) \/ k = c
           \/ c = 0 /\ Kind(n) \in Guarded /\ n \notin tree.cond /\ k = First(n),
         Return(n, "RUNNING", [S EXCEPT ![n].cursor = c], h)
  PROVE  IInv'
<1> DEFINE T == SetCursor(S, n, c)
<1>1. tree \in Trees
  BY DEF IInv
<1>2. /\ Effect(n, T, h) /\ T[n].cursor = c
      /\ \A m \in Nodes : Clean(S, m) => Clean(T, m)
  BY <1>1, CursorEffect
<1>3. Return(n, "RUNNING", T, h)
  BY Zenon DEF SetCursor
<1> HIDE DEF T
<1>4. \A k \in KidsOf(n) : k \in Nodes
  BY <1>1, KidFacts
<1>5. OffFocus(T, n)
  BY <1>2, <1>4 DEF OffFocus
<1> QED
  BY <1>2, <1>3, <1>5, ReturnKeeps DEF Statuses

LEMMA CompleteKeeps ==
  ASSUME IInv, NEW n \in Nodes, cur = n, ret.rc = "OK", NEW S, NEW h, Effect(n, S, h),
         NEW s \in Statuses, CompleteFrom(n, s, S, h)
  PROVE  IInv'
<1> DEFINE T == Reset(S, {n}, FALSE)
           g == HostReset(h, S, {n})
<1>1. tree \in Trees /\ Sound(S, h)
  BY DEF IInv, Effect
<1>2. {n} \in SUBSET Nodes /\ {n} \subseteq Sub(n) /\ Separate({n})
  <2>1. {n} \in SUBSET Nodes /\ Separate({n})
    BY <1>1, Singleton
  <2>2. n \in Sub(n)
    BY <1>1, TreeFacts
  <2> QED
    BY <2>1, <2>2
<1>3. Effect(n, T, g)
  BY <1>1, <1>2, ResetEffect
<1>4. Clean(T, n)
  BY <1>1, OwnReset
<1>5. Return(n, s, T, g)
  BY DEF CompleteFrom
<1> HIDE DEF T, g
<1>6. OffFocus(T, n)
  BY <1>1, <1>4, CleanKids
<1> QED
  BY <1>3, <1>4, <1>5, <1>6, ReturnKeeps

LEMMA RaiseResetKeeps ==
  ASSUME IInv, NEW n \in Nodes, cur = n, NEW S, NEW h, Sound(S, h), Outside(n, S),
         RaiseAfterReset(n, S, h)
  PROVE  IInv'
<1> DEFINE T == Reset(S, {n}, FALSE)
           g == HostReset(h, S, {n})
<1>1. tree \in Trees
  BY DEF IInv
<1>2. {n} \in SUBSET Nodes /\ Under({n}) = Sub(n)
  BY <1>1, Singleton
<1>3. Sound(T, g)
  BY <1>1, <1>2, ResetSound
<1>4. \A m \in Nodes \ Sub(n) : T[m] = S[m]
  <2>1. S \in Tables
    BY DEF Sound
  <2>2. \A m \in Nodes \ Under({n}) : T[m] = S[m]
    BY DEF Reset
  <2> QED
    BY <1>2, <2>2
<1>5. Raise(n, T, g)
  BY DEF RaiseAfterReset
<1> HIDE DEF T, g
<1>6. Outside(n, T)
  BY <1>4 DEF Outside
<1> QED
  BY <1>3, <1>5, <1>6, RaiseKeeps

(***************************************************************************)
(* The steps of a tick, one by one.                                        *)
(***************************************************************************)

LEMMA ChildFailedStep ==
  ASSUME IInv, NEW n \in Nodes, ChildFailed(n)
  PROVE  IInv'
<1>1. cur = n /\ Sound(node, host) /\ Outside(n, node)
  BY DEF ChildFailed, At, IInv, Consistent, Outside
<1>2. CASE RaiseAfterReset(n, node, host)
  BY <1>1, <1>2, RaiseResetKeeps
<1>3. CASE Raise(n, node, host)
  BY <1>1, <1>3, RaiseKeeps
<1> QED
  BY <1>2, <1>3 DEF ChildFailed

(* A plain Raise or RaiseAfterReset from where a step starts. *)
LEMMA ErrorStep ==
  ASSUME IInv, NEW n \in Nodes, cur = n, NEW S, NEW h, Effect(n, S, h),
         Raise(n, S, h) \/ RaiseAfterReset(n, S, h)
  PROVE  IInv'
<1>1. Sound(S, h) /\ Outside(n, S)
  BY DEF Effect
<1>2. CASE RaiseAfterReset(n, S, h)
  BY <1>1, <1>2, RaiseResetKeeps
<1>3. CASE Raise(n, S, h)
  BY <1>1, <1>3, RaiseKeeps
<1> QED
  BY <1>2, <1>3

(* The loop back to the label "run" of the same frame. *)
LEMMA FrameRun ==
  ASSUME IInv, NEW n \in Nodes, frame' = [frame EXCEPT ![n].at = "run"]
  PROVE  /\ frame' \in [Nodes -> Frames] /\ frame'[n] \in Frames
         /\ frame'[n].at = "run" /\ frame'[n].child = frame[n].child
         /\ \A m \in Nodes \ {n} : frame'[m] = frame[m]
<1>1. frame \in [Nodes -> Frames]
  BY DEF IInv, Consistent
<1> QED
  BY <1>1 DEF Frames, Labels

LEMMA RunAgain ==
  ASSUME IInv, NEW n \in Nodes, cur = n, ret.rc = "OK", NEW S, NEW h, Effect(n, S, h),
         Kind(n) \in Cachers => Settles(S, n), OffFocus(S, n),
         frame[n].child \in KidsOf(n) \cup {0},
         node' = S, host' = h, frame' = [frame EXCEPT ![n].at = "run"],
         UNCHANGED <<tree, cur, ret, now, result>>
  PROVE  IInv'
<1>1. /\ frame' \in [Nodes -> Frames] /\ frame'[n] \in Frames
      /\ frame'[n].at = "run" /\ frame'[n].child = frame[n].child
      /\ \A m \in Nodes \ {n} : frame'[m] = frame[m]
  BY FrameRun
<1>2. PICK e \in Frames : e = frame'[n]
  BY <1>1
<1>3. e.at = "run" /\ e.child \in KidsOf(n) \cup {0}
  BY <1>1, <1>2
<1> QED
  BY <1>1, <1>2, <1>3, LocalKeeps

(* A timer set to end after a duration, saturated. *)
LEMMA DeadlineFacts ==
  ASSUME NEW a \in 0..TimeMax, NEW b \in Nat
  PROVE  /\ Deadline(a, b) \in Nat /\ Deadline(a, b) <= TimeMax
         /\ Deadline(a, b) = a + b \/ (Deadline(a, b) = TimeMax /\ TimeMax < a + b)
  BY BoundsAssumption DEF Deadline

LEMMA ParametersTyped ==
  ASSUME NEW S \in Tables, NEW n \in Nodes, NEW l \in Nat, NEW d \in Nat, NEW e \in Nat,
         NEW b \in BOOLEAN
  PROVE  [S EXCEPT ![n].limit = l, ![n].duration = d, ![n].deadline = e,
                   ![n].evaluated = b] \in Tables
<1>1. PICK s \in NodeRecord : s = S[n]
  BY DEF Tables
<1>2. [s EXCEPT !.limit = l, !.duration = d, !.deadline = e, !.evaluated = b] \in NodeRecord
  BY DEF NodeRecord
<1>3. PICK t \in NodeRecord :
        t = [s EXCEPT !.limit = l, !.duration = d, !.deadline = e, !.evaluated = b]
  BY <1>2
<1>4. [S EXCEPT ![n] = t] \in Tables
  BY DEF Tables
<1> QED
  BY <1>1, <1>3, <1>4, Zenon

LEMMA ResolveParamsStep ==
  ASSUME IInv, NEW n \in Nodes, ResolveParams(n)
  PROVE  IInv'
<1>1. At(n, "enter")
  BY DEF ResolveParams
<1>2. /\ tree \in Trees /\ cur = n /\ ret.rc = "OK" /\ Effect(n, node, host)
      /\ node \in Tables /\ OffFocus(node, n) /\ (Kind(n) \in Cachers => Settles(node, n))
      /\ frame[n].child \in KidsOf(n) \cup {0}
  BY <1>1, AtFacts
<1>3. CASE Raise(n, node, host)
  BY <1>2, <1>3, ErrorStep
<1>4. ASSUME NEW limit \in IF Kind(n) \in LimitKinds THEN 0..MaxIter ELSE {node[n].limit},
             NEW duration \in IF Kind(n) \in DurationKinds THEN Durations
                                                           ELSE {node[n].duration},
             node' = Resolved(n, limit, duration), frame' = [frame EXCEPT ![n].at = "run"],
             UNCHANGED <<tree, dynamic, cur, ret, now, result, host>>
      PROVE  IInv'
  <2>1. PICK b \in BOOLEAN : b = FALSE
    OBVIOUS
  <2>2. node[n].limit \in Nat /\ node[n].duration \in Nat
    BY <1>2 DEF Tables, NodeRecord
  <2>3. limit \in Nat /\ duration \in Nat
    BY <1>4, <2>2, BoundsAssumption
  <2>4. PICK d : d = IF Kind(n) \in DurationKinds /\ node[n].timer
                     THEN Deadline(node[n].started, duration) ELSE node[n].deadline
    OBVIOUS
  <2>5. /\ TimerAt(node, n) /\ now \in 0..TimeMax
        /\ node[n].started \in Nat /\ node[n].deadline \in Nat
    BY <1>2, BoundsAssumption DEF Effect, Sound, Timers, Tables, NodeRecord, IInv
  <2>6. /\ d \in Nat
        /\ node[n].timer => /\ node[n].started <= now
                            /\ \/ d = node[n].started + duration
                               \/ d = TimeMax /\ TimeMax < node[n].started + duration
                            /\ d <= TimeMax
    <3>1. CASE Kind(n) \in DurationKinds /\ node[n].timer
      <4>1. node[n].started <= now
        BY <2>5, <3>1 DEF TimerAt
      <4>2. node[n].started \in 0..TimeMax /\ d = Deadline(node[n].started, duration)
        BY <2>4, <2>5, <3>1, <4>1, BoundsAssumption
      <4> QED
        BY <2>3, <4>1, <4>2, DeadlineFacts
    <3>2. CASE ~(Kind(n) \in DurationKinds /\ node[n].timer)
      <4>1. d = node[n].deadline
        BY <2>4, <3>2
      <4>2. node[n].timer => duration = node[n].duration
        BY <1>4, <3>2
      <4> QED
        BY <2>5, <4>1, <4>2 DEF TimerAt
    <3> QED
      BY <3>1, <3>2
  <2> DEFINE T == [node EXCEPT ![n].limit = limit, ![n].duration = duration,
                               ![n].deadline = d, ![n].evaluated = b]
  <2>7. node' = T
    BY <1>4, <2>1, <2>4, Zenon DEF Resolved
  <2>8. /\ T \in Tables /\ \A m \in Nodes \ {n} : T[m] = node[m]
        /\ T[n].running = node[n].running /\ T[n].prepared = node[n].prepared
        /\ T[n].branch = node[n].branch /\ T[n].once = node[n].once
        /\ T[n].cursor = node[n].cursor /\ T[n].last = node[n].last
        /\ T[n].timer = node[n].timer /\ T[n].started = node[n].started
        /\ T[n].duration = duration /\ T[n].deadline = d
    <3>1. node \in Tables /\ limit \in Nat /\ duration \in Nat /\ d \in Nat
      BY <1>2, <2>3, <2>6
    <3>2. T \in Tables
      BY <3>1, ParametersTyped
    <3>3. \A m \in Nodes \ {n} : T[m] = node[m]
      BY <3>1 DEF Tables
    <3>4. /\ T[n].running = node[n].running /\ T[n].prepared = node[n].prepared
          /\ T[n].branch = node[n].branch /\ T[n].once = node[n].once
          /\ T[n].cursor = node[n].cursor /\ T[n].last = node[n].last
      BY <3>1 DEF Tables, NodeRecord
    <3>5. /\ T[n].timer = node[n].timer /\ T[n].started = node[n].started
          /\ T[n].duration = duration /\ T[n].deadline = d
      BY <3>1 DEF Tables, NodeRecord
    <3> QED
      BY <3>2, <3>3, <3>4, <3>5
  <2> HIDE DEF T
  <2>9. TimerAt(T, n)
    BY <2>6, <2>8 DEF TimerAt
  <2>10. T[n].cursor \in KidsOf(n) \cup {0}
    BY <1>2, <2>8 DEF Effect, Sound, Cursors
  <2>11. Effect(n, T, host) /\ \A m \in Nodes : Clean(node, m) => Clean(T, m)
    BY <1>2, <2>8, <2>9, <2>10, UpdateEffect
  <2>12. Kind(n) \in Cachers => Settles(T, n)
    BY <1>2, <2>8, <2>11 DEF Settles
  <2>13. OffFocus(T, n)
    <3>1. \A k \in KidsOf(n) : k \in Nodes
      BY <1>2, KidFacts
    <3> QED
      BY <1>2, <2>8, <2>11, <3>1 DEF OffFocus
  <2>14. /\ frame' \in [Nodes -> Frames] /\ frame'[n] \in Frames
         /\ frame'[n].at = "run" /\ frame'[n].child \in KidsOf(n) \cup {0}
         /\ \A m \in Nodes \ {n} : frame'[m] = frame[m]
    BY <1>2, <1>4, FrameRun
  <2>15. host' = host /\ UNCHANGED <<tree, cur, ret, now, result>>
    BY <1>4
  <2> QED
    BY <1>2, <2>7, <2>11, <2>12, <2>13, <2>14, <2>15, LocalKeeps
<1> QED
  BY <1>3, <1>4 DEF ResolveParams

LEMMA LeafStep ==
  ASSUME IInv, NEW n \in Nodes, Leaf(n)
  PROVE  IInv'
<1>1. At(n, "run") /\ Kind(n) = "LEAF"
  BY DEF Leaf
<1>2. /\ tree \in Trees /\ cur = n /\ ret.rc = "OK" /\ Effect(n, node, host)
      /\ node \in Tables /\ host \in Histories
  BY <1>1, AtFacts
<1>3. CASE Raise(n, node, host)
  BY <1>2, <1>3, ErrorStep
<1>4. ASSUME NEW s \in Statuses,
             Return(n, s, [node EXCEPT ![n].running = (s = "RUNNING")],
                    [host EXCEPT !.active[n] = Bit(s = "RUNNING")])
      PROVE  IInv'
  <2>1. PICK b \in BOOLEAN : b = (s = "RUNNING")
    BY Zenon
  <2> DEFINE T == [node EXCEPT ![n].running = b]
             g == [host EXCEPT !.active[n] = Bit(b)]
  <2>2. Return(n, s, T, g)
    BY <1>4, <2>1, Zenon
  <2>3. /\ T \in Tables /\ \A m \in Nodes \ {n} : T[m] = node[m]
        /\ T[n].running = b /\ T[n].prepared = node[n].prepared
        /\ T[n].branch = node[n].branch /\ T[n].once = node[n].once
        /\ T[n].cursor = node[n].cursor
        /\ T[n].timer = node[n].timer /\ T[n].started = node[n].started
        /\ T[n].duration = node[n].duration /\ T[n].deadline = node[n].deadline
    BY <1>2 DEF Tables, NodeRecord
  <2>4. /\ g \in Histories /\ g.active[n] = Bit(b)
        /\ \A m \in Nodes \ {n} : g.active[m] = host.active[m]
        /\ g.context = host.context /\ g.branch = host.branch /\ g.completed = host.completed
    BY <1>2 DEF Histories, Bit
  <2> HIDE DEF T, g
  <2>5. MirrorAt(node, host, n) /\ TimerAt(node, n) /\ OnceAt(node, host, n)
        /\ node[n].cursor \in KidsOf(n) \cup {0}
    BY <1>2 DEF Effect, Sound, Mirror, Timers, Onces, Cursors
  <2>6. MirrorAt(T, g, n)
    BY <1>1, <2>3, <2>4, <2>5 DEF MirrorAt
  <2>7. TimerAt(T, n) /\ OnceAt(T, g, n) /\ T[n].cursor \in KidsOf(n) \cup {0}
    BY <1>1, <2>3, <2>4, <2>5 DEF TimerAt, OnceAt
  <2>8. Effect(n, T, g)
    BY <1>2, <2>3, <2>4, <2>6, <2>7, TouchEffect
  <2>9. Sub(n) = {n}
    <3>1. KidsOf(n) = {}
      BY <1>1, <1>2, KidCounts DEF KidsOf, SeqRange
    <3>2. \A k \in Sub(n) : k = n
      BY <1>2, <3>1, SubThroughKid
    <3>3. n \in Sub(n)
      BY <1>2, TreeFacts
    <3> QED
      BY <3>2, <3>3
  <2>10. s # "RUNNING" => Clean(T, n)
    <3>1. ~node[n].prepared
      BY <1>1, <2>5 DEF MirrorAt, Adapters
    <3> QED
      BY <2>1, <2>3, <2>9, <3>1 DEF Clean, Still
  <2>11. OffFocus(T, n)
    BY <1>1 DEF OffFocus, Focusing, Memory, Reactive, Guarded
  <2> QED
    BY <1>2, <2>2, <2>8, <2>10, <2>11, ReturnKeeps
<1> QED
  BY <1>3, <1>4 DEF Leaf

(* A set of children is reset. *)
LEMMA KidsReset ==
  ASSUME tree \in Trees, NEW n \in Nodes, NEW S, NEW h, Effect(n, S, h),
         NEW R, R \subseteq KidsOf(n), NEW clear \in BOOLEAN,
         ~clear \/ Kind(n) = "PARALLEL"
  PROVE  /\ Effect(n, Reset(S, R, clear), HostReset(h, S, R))
         /\ Reset(S, R, clear) \in Tables /\ Reset(S, R, clear)[n] = S[n]
         /\ \A k \in R : Clean(Reset(S, R, clear), k)
         /\ \A m \in Nodes : Clean(S, m) => Clean(Reset(S, R, clear), m)
<1>1. S \in Tables /\ h \in Histories /\ Mirror(S, h)
  BY DEF Effect, Sound
<1>2. \A k \in KidsOf(n) : k \in Nodes /\ k \in Sub(n) /\ n \notin Sub(k) /\ Sub(k) \subseteq Sub(n)
                           /\ k \in Sub(k)
  BY KidFacts, TreeFacts
<1>3. R \in SUBSET Nodes /\ R \subseteq Sub(n)
  BY <1>2
<1>4. Separate(R)
  <2>1. \A r, q \in KidsOf(n) : r # q => Sub(r) \cap Sub(q) = {}
    BY KidsDisjoint
  <2> QED
    BY <1>2, <2>1 DEF Separate
<1>5. \A m \in Under(R) : m \in Sub(n) /\ m # n /\ m \in Nodes
  BY <1>2, <1>3, UnderFacts
<1>6. ~clear \/ \A m \in Under(R) : ~Sheltered(m)
  BY <1>5 DEF Sheltered
<1>7. Effect(n, Reset(S, R, clear), HostReset(h, S, R))
  BY <1>3, <1>4, <1>6, ResetEffect
<1>8. /\ \A k \in Under(R) : Clean(Reset(S, R, clear), k)
      /\ \A m \in Nodes : Clean(S, m) => Clean(Reset(S, R, clear), m)
  BY <1>1, <1>3, <1>4, ResetCleans
<1>9. R \subseteq Under(R)
  BY <1>3, UnderFacts
<1>10. Reset(S, R, clear) \in Tables /\ \A m \in Nodes \ Under(R) : Reset(S, R, clear)[m] = S[m]
  BY <1>1, <1>3, ResetOutside
<1>11. Reset(S, R, clear)[n] = S[n]
  BY <1>5, <1>10
<1> QED
  BY <1>7, <1>8, <1>9, <1>10, <1>11

LEMMA CompositeStartStep ==
  ASSUME IInv, NEW n \in Nodes, CompositeStart(n)
  PROVE  IInv'
<1>1. At(n, "run") /\ Kind(n) \in Memory \cup Reactive
  BY DEF CompositeStart
<1>2. /\ tree \in Trees /\ cur = n /\ ret.rc = "OK" /\ Effect(n, node, host) /\ OffFocus(node, n)
  BY <1>1, AtFacts
<1>3. CASE Complete(n, EndsWith(n))
  BY <1>2, <1>3, CompleteKeeps DEF Complete, EndsWith, Statuses
<1>4. ASSUME Kids(n) # << >>, NEW c,
             c = IF Kind(n) \in Memory /\ node[n].cursor # 0 THEN node[n].cursor ELSE First(n),
             Call(n, c, "child", node, host)
      PROVE  IInv'
  <2>1. Len(Kids(n)) >= 1
    <3>1. Kids(n) \in Seq(Nodes)
      BY <1>2, TreeFacts
    <3> QED
      BY <1>4, <3>1
  <2>2. First(n) \in KidsOf(n) /\ \A k \in KidsOf(n) : k = First(n) \/ First(n) < k
    BY <1>2, <2>1, FirstKid
  <2>3. node[n].cursor \in KidsOf(n) \/ node[n].cursor = 0
    BY <1>2 DEF Effect, Sound, Cursors
  <2>4. c \in KidsOf(n)
    BY <1>4, <2>2, <2>3
  <2>5. \A k \in KidsOf(n) : k # 0
    BY <1>2, KidFacts
  <2>6. CallFocus(node, n, "child", c)
    BY <1>1, <1>2, <1>4, <2>2, <2>5 DEF CallFocus, OffFocus, Guarded, Memory, Reactive
  <2> QED
    BY <1>1, <1>2, <1>4, <2>4, <2>6, CallKeeps DEF Waiting, Adapters, Memory, Reactive
<1> QED
  BY <1>3, <1>4 DEF CompositeStart

LEMMA CompositeNextStep ==
  ASSUME IInv, NEW n \in Nodes, CompositeNext(n)
  PROVE  IInv'
<1> DEFINE x == frame[n].child
           next == NextSibling(n, x)
<1>1. Resumed(n, "child") /\ Kind(n) \in Memory \cup Reactive
  BY DEF CompositeNext
<1>2. "child" \in Waiting
  BY DEF Waiting
<1>3. /\ tree \in Trees /\ cur = n /\ ret.rc = "OK" /\ Effect(n, node, host)
      /\ x \in KidsOf(n) /\ ret.status \in Statuses
      /\ ret.status # "RUNNING" => Clean(node, x)
      /\ CallFocus(node, n, "child", x)
  BY <1>1, <1>2, ResumedFacts
<1>4. \A k \in KidsOf(n) : k \in Nodes /\ k # 0
  BY <1>3, KidFacts
<1>5. Kind(n) \in Focusing /\ Kind(n) \notin Guarded /\ Kind(n) \notin Adapters /\ Kind(n) # "RUN_ONCE"
  BY <1>1 DEF Focusing, Guarded, Adapters, Memory, Reactive
<1>6. \A k \in KidsOf(n) : \/ Clean(node, k) \/ k = x
                           \/ k = node[n].cursor /\ Kind(n) \in Reactive /\ x < k
  BY <1>3, <1>5 DEF CallFocus
<1>7. ASSUME CompositeRunning(n, x)
      PROVE  IInv'
  <2> DEFINE later == IF Kind(n) \in Reactive THEN LaterSiblings(n, x) ELSE {}
             S == Reset(node, later, FALSE)
             g == HostReset(host, node, later)
  <2>1. Return(n, "RUNNING", [S EXCEPT ![n].cursor = x], g)
    BY <1>7, Zenon DEF CompositeRunning
  <2>2. later \subseteq KidsOf(n)
    BY <1>3, Siblings
  <2>3. \A k \in KidsOf(n) : Kind(n) \in Reactive /\ x < k => k \in later
    BY <1>3, Siblings
  <2> HIDE DEF later
  <2>4. /\ Effect(n, S, g) /\ \A k \in later : Clean(S, k)
        /\ \A m \in Nodes : Clean(node, m) => Clean(S, m)
    BY <1>3, <2>2, KidsReset
  <2> HIDE DEF S, g
  <2>5. \A k \in KidsOf(n) : Clean(S, k) \/ k = x
    BY <1>4, <1>6, <2>3, <2>4
  <2> QED
    BY <1>3, <2>1, <2>4, <2>5, SuspendKeeps
<1>8. ASSUME Complete(n, ret.status)
      PROVE  IInv'
  BY <1>3, <1>8, CompleteKeeps DEF Complete
<1>9. ASSUME ret.status # "RUNNING", next # 0,
             Call(n, next, "child",
                  IF Kind(n) \in Memory THEN [node EXCEPT ![n].cursor = next] ELSE node, host)
      PROVE  IInv'
  <2>1. /\ next \in KidsOf(n)
        /\ \A d \in KidsOf(n) : x < d => next = d \/ next < d
    BY <1>3, <1>9, Siblings
  <2>2. CASE Kind(n) \in Memory
    <3> DEFINE S == SetCursor(node, n, next)
    <3>1. Call(n, next, "child", S, host)
      BY <1>9, <2>2, Zenon DEF SetCursor
    <3>2. Effect(n, S, host) /\ \A m \in Nodes : Clean(node, m) => Clean(S, m)
      BY <1>3, <2>1, CursorEffect
    <3> HIDE DEF S
    <3>3. CallFocus(S, n, "child", next)
      BY <1>3, <1>4, <1>6, <1>9, <2>2, <3>2 DEF CallFocus, Memory, Reactive
    <3> QED
      BY <1>2, <1>3, <1>5, <2>1, <3>1, <3>2, <3>3, CallKeeps
  <2>3. CASE Kind(n) \notin Memory
    <3>1. Call(n, next, "child", node, host)
      BY <1>9, <2>3, Zenon
    <3>2. CallFocus(node, n, "child", next)
      BY <1>3, <1>6, <1>9, <2>1 DEF CallFocus
    <3> QED
      BY <1>2, <1>3, <1>5, <2>1, <3>1, <3>2, CallKeeps
  <2> QED
    BY <2>2, <2>3
<1>10. \/ CompositeRunning(n, x)
       \/ Complete(n, ret.status)
       \/ /\ ret.status = EndsWith(n) /\ next # 0
          /\ Call(n, next, "child",
                  IF Kind(n) \in Memory THEN [node EXCEPT ![n].cursor = next] ELSE node, host)
  BY Zenon DEF CompositeNext
<1>11. EndsWith(n) # "RUNNING"
  BY DEF EndsWith
<1> HIDE DEF x, next
<1> QED
  BY <1>7, <1>8, <1>9, <1>10, <1>11

(* A node with neither flags nor branches of its own has nothing open when  *)
(* its children have not.                                                   *)
LEMMA CleanJoin ==
  ASSUME tree \in Trees, NEW n \in Nodes, NEW S, NEW h, Sound(S, h),
         Kind(n) \notin Adapters \cup {"LEAF", "PARALLEL"},
         \A c \in KidsOf(n) : Clean(S, c)
  PROVE  Clean(S, n)
<1>1. \A m \in Nodes : MirrorAt(S, h, m)
  BY DEF Sound, Mirror
<1>2. Still(S, n)
  BY <1>1 DEF MirrorAt, Still
<1>3. ASSUME NEW k \in Sub(n), k # n
      PROVE  Still(S, k) /\ ~S[k].branch
  <2>1. PICK c \in KidsOf(n) : k \in Sub(c)
    BY <1>3, SubThroughKid
  <2>2. Still(S, k) /\ (k # c => ~S[k].branch)
    BY <2>1 DEF Clean
  <2>3. ~S[c].branch
    <3>1. c \in Nodes /\ Parent(c) = n
      BY KidFacts
    <3>2. n \notin tree.hooks
      BY TreeFacts
    <3> QED
      BY <1>1, <3>1, <3>2 DEF MirrorAt
  <2> QED
    BY <2>2, <2>3
<1> QED
  BY <1>2, <1>3 DEF Clean

(* The kinds with one child that is ticked whatever the node remembers. *)
SingleKind ==
  SimpleDecorators \cup DurationKinds \cup
    {"RETRY", "REPEAT", "KEEP_RUNNING_UNTIL_FAILURE", "RUN_ONCE", "ENTRY_UPDATED",
     "CONSUME_QUEUE"}

LEMMA SingleKindFacts ==
  ASSUME tree \in Trees, NEW n \in Nodes, Kind(n) \in SingleKind
  PROVE  /\ First(n) \in KidsOf(n) /\ \A k \in KidsOf(n) : k = First(n)
         /\ \A S : OffFocus(S, n)
         /\ \A S, label, c : CallFocus(S, n, label, c)
         /\ Kind(n) \notin Focusing
         /\ Kind(n) \notin {"LEAF", "PARALLEL"} /\ (Kind(n) # "CONSUME_QUEUE" => Kind(n) \notin Adapters)
<1>1. Len(Kids(n)) = 1
  BY KidCounts DEF SingleKind
<1>2. First(n) \in KidsOf(n) /\ \A k \in KidsOf(n) : k = First(n)
  BY <1>1, OnlyKid
<1>3. Kind(n) \notin Focusing
  BY DEF SingleKind, Focusing, SimpleDecorators, DurationKinds, Memory, Reactive, Guarded
<1>4. /\ Kind(n) \notin {"LEAF", "PARALLEL"}
      /\ (Kind(n) # "CONSUME_QUEUE" => Kind(n) \notin Adapters)
  BY DEF SingleKind, Adapters, SimpleDecorators, DurationKinds
<1> QED
  BY <1>2, <1>3, <1>4 DEF OffFocus, CallFocus

(* Such a node calls its child. *)
LEMMA SingleCall ==
  ASSUME IInv, NEW n \in Nodes, cur = n, ret.rc = "OK", Kind(n) \in SingleKind,
         NEW S, NEW h, Effect(n, S, h),
         Kind(n) = "CONSUME_QUEUE" => S[n].prepared, Kind(n) = "RUN_ONCE" => ~S[n].once,
         Call(n, First(n), "child", S, h)
  PROVE  IInv'
<1>1. tree \in Trees /\ "child" \in Waiting
  BY DEF IInv, Waiting
<1>2. First(n) \in KidsOf(n) /\ CallFocus(S, n, "child", First(n))
  BY <1>1, SingleKindFacts
<1>3. Kind(n) \in Adapters => S[n].prepared
  BY <1>1, SingleKindFacts
<1> QED
  BY <1>1, <1>2, <1>3, CallKeeps

(* Its child has answered. *)
LEMMA SingleReturn ==
  ASSUME IInv, NEW n \in Nodes, Resumed(n, "child"), Kind(n) \in SingleKind
  PROVE  /\ tree \in Trees /\ cur = n /\ ret.rc = "OK" /\ Effect(n, node, host)
         /\ node \in Tables /\ host \in Histories
         /\ ret.status \in Statuses /\ frame[n].child = First(n)
         /\ ret.status # "RUNNING" => \A k \in KidsOf(n) : Clean(node, k)
         /\ ret.status # "RUNNING" /\ Kind(n) # "CONSUME_QUEUE" => Clean(node, n)
<1>1. "child" \in Waiting
  BY DEF Waiting
<1>2. /\ tree \in Trees /\ cur = n /\ ret.rc = "OK" /\ Effect(n, node, host)
      /\ node \in Tables /\ host \in Histories
      /\ frame[n].child \in KidsOf(n) /\ ret.status \in Statuses
      /\ ret.status # "RUNNING" => Clean(node, frame[n].child)
  BY <1>1, ResumedFacts
<1>3. /\ \A k \in KidsOf(n) : k = First(n)
      /\ Kind(n) \notin {"LEAF", "PARALLEL"} /\ (Kind(n) # "CONSUME_QUEUE" => Kind(n) \notin Adapters)
  BY <1>2, SingleKindFacts
<1>4. ret.status # "RUNNING" => \A k \in KidsOf(n) : Clean(node, k)
  BY <1>2, <1>3
<1>5. ret.status # "RUNNING" /\ Kind(n) # "CONSUME_QUEUE" => Clean(node, n)
  BY <1>2, <1>3, <1>4, CleanJoin DEF Effect
<1> QED
  BY <1>2, <1>3, <1>4, <1>5

LEMMA DecoratorSteps ==
  ASSUME IInv, NEW n \in Nodes, DecoratorStart(n) \/ DecoratorReturn(n)
  PROVE  IInv'
<1>1. CASE DecoratorStart(n)
  <2>1. At(n, "run") /\ Kind(n) \in SimpleDecorators /\ Call(n, First(n), "child", node, host)
    BY <1>1 DEF DecoratorStart
  <2>2. Kind(n) \in SingleKind /\ Kind(n) # "CONSUME_QUEUE" /\ Kind(n) # "RUN_ONCE"
    BY <2>1 DEF SingleKind, SimpleDecorators
  <2>3. cur = n /\ ret.rc = "OK" /\ Effect(n, node, host)
    BY <2>1, AtFacts
  <2> QED
    BY <2>1, <2>2, <2>3, SingleCall
<1>2. CASE DecoratorReturn(n)
  <2>1. Resumed(n, "child") /\ Kind(n) \in SimpleDecorators
        /\ Return(n, Decorate(n, ret.status), node, host)
    BY <1>2 DEF DecoratorReturn
  <2>2. Kind(n) \in SingleKind /\ Kind(n) # "CONSUME_QUEUE"
    BY <2>1 DEF SingleKind, SimpleDecorators
  <2>3. /\ tree \in Trees /\ cur = n /\ ret.rc = "OK" /\ Effect(n, node, host)
        /\ ret.status \in Statuses /\ (ret.status # "RUNNING" => Clean(node, n))
    BY <2>1, <2>2, SingleReturn
  <2>4. /\ Decorate(n, ret.status) \in Statuses
        /\ Decorate(n, ret.status) # "RUNNING" => ret.status # "RUNNING"
    BY <2>1, <2>3 DEF Decorate, Statuses, SimpleDecorators
  <2>5. OffFocus(node, n)
    BY <2>2, <2>3, SingleKindFacts
  <2> QED
    BY <2>1, <2>3, <2>4, <2>5, ReturnKeeps
<1> QED
  BY <1>1, <1>2

LEMMA RunOnceStartStep ==
  ASSUME IInv, NEW n \in Nodes, RunOnceStart(n)
  PROVE  IInv'
<1>1. At(n, "run") /\ Kind(n) = "RUN_ONCE"
  BY DEF RunOnceStart
<1>2. Kind(n) \in SingleKind
  BY <1>1 DEF SingleKind
<1>3. /\ tree \in Trees /\ cur = n /\ ret.rc = "OK" /\ Effect(n, node, host)
      /\ node \in Tables /\ Settles(node, n)
  BY <1>1, AtFacts DEF Cachers
<1>4. CASE Return(n, node[n].last, node, host)
  <2>1. node[n].last \in Statuses
    BY <1>3 DEF Tables, NodeRecord
  <2>2. OffFocus(node, n)
    BY <1>2, <1>3, SingleKindFacts
  <2> QED
    BY <1>3, <1>4, <2>1, <2>2, ReturnKeeps DEF Settles
<1>5. CASE ~node[n].once /\ Call(n, First(n), "child", node, host)
  BY <1>1, <1>2, <1>3, <1>5, SingleCall
<1> QED
  BY <1>4, <1>5 DEF RunOnceStart

LEMMA RunOnceReturnStep ==
  ASSUME IInv, NEW n \in Nodes, RunOnceReturn(n)
  PROVE  IInv'
<1>1. Resumed(n, "child") /\ Kind(n) = "RUN_ONCE"
  BY DEF RunOnceReturn
<1>2. Kind(n) \in SingleKind /\ "child" \in Waiting
  BY <1>1 DEF SingleKind, Waiting
<1>3. /\ tree \in Trees /\ cur = n /\ ret.rc = "OK" /\ Effect(n, node, host)
      /\ node \in Tables /\ host \in Histories
      /\ ret.status \in Statuses /\ (ret.status # "RUNNING" => Clean(node, n))
  BY <1>1, <1>2, SingleReturn
<1>4. ~node[n].once
  BY <1>1, <1>2, ResumedFacts
<1>5. PICK done \in BOOLEAN : done = (ret.status # "RUNNING")
  BY Zenon
<1> DEFINE v == IF host.completed[n] < 2 THEN host.completed[n] + Bit(done) ELSE host.completed[n]
           T == [node EXCEPT ![n].once = done]
           g == [host EXCEPT !.completed[n] = v]
<1>6. Return(n, ret.status, T, g)
  BY <1>5, Zenon DEF RunOnceReturn
<1>7. /\ T \in Tables /\ \A m \in Nodes \ {n} : T[m] = node[m]
      /\ T[n].once = done /\ T[n].running = node[n].running
      /\ T[n].prepared = node[n].prepared /\ T[n].branch = node[n].branch
      /\ T[n].cursor = node[n].cursor
      /\ T[n].timer = node[n].timer /\ T[n].started = node[n].started
      /\ T[n].duration = node[n].duration /\ T[n].deadline = node[n].deadline
  BY <1>3 DEF Tables, NodeRecord
<1>8. host.completed[n] \in 0..2
  BY <1>3 DEF Histories
<1>9. v \in 0..2 /\ (host.completed[n] = 0 => v = Bit(done))
  BY <1>8 DEF Bit
<1> HIDE DEF v
<1>10. /\ g \in Histories /\ g.completed[n] = v
       /\ \A m \in Nodes \ {n} : g.completed[m] = host.completed[m]
       /\ g.active = host.active /\ g.context = host.context /\ g.branch = host.branch
  BY <1>3, <1>9 DEF Histories
<1> HIDE DEF T, g
<1>11. /\ MirrorAt(node, host, n) /\ TimerAt(node, n) /\ OnceAt(node, host, n)
       /\ node[n].cursor \in KidsOf(n) \cup {0}
  BY <1>3 DEF Effect, Sound, Mirror, Timers, Onces, Cursors
<1>12. MirrorAt(T, g, n)
  BY <1>7, <1>10, <1>11 DEF MirrorAt
<1>13. TimerAt(T, n) /\ T[n].cursor \in KidsOf(n) \cup {0}
  BY <1>7, <1>11 DEF TimerAt
<1>14. OnceAt(T, g, n)
  <2>1. Sheltered(n) => host.completed[n] = 0
    BY <1>1, <1>4, <1>11 DEF OnceAt, Bit
  <2> QED
    BY <1>1, <1>7, <1>9, <1>10, <2>1 DEF OnceAt
<1>15. Effect(n, T, g)
  BY <1>3, <1>7, <1>10, <1>12, <1>13, <1>14, TouchEffect
<1>16. ret.status # "RUNNING" => Clean(T, n)
  <2>1. \A k \in Sub(n) : k \in Nodes
    BY <1>3, TreeFacts
  <2> QED
    BY <1>3, <1>7, <2>1 DEF Clean, Still
<1>17. OffFocus(T, n)
  BY <1>2, <1>3, SingleKindFacts
<1> QED
  BY <1>3, <1>6, <1>15, <1>16, <1>17, ReturnKeeps

LEMMA LoopSpentStep ==
  ASSUME IInv, NEW n \in Nodes, LoopSpent(n)
  PROVE  IInv'
<1>1. At(n, "run") /\ Complete(n, Spent(n))
  BY DEF LoopSpent
<1>2. cur = n /\ ret.rc = "OK" /\ Effect(n, node, host)
  BY <1>1, AtFacts
<1> QED
  BY <1>1, <1>2, CompleteKeeps DEF Complete, Spent, Statuses

LEMMA LoopStartStep ==
  ASSUME IInv, NEW n \in Nodes, LoopStart(n)
  PROVE  IInv'
<1>1. /\ At(n, "run") /\ Kind(n) \in LimitKinds \ {"WHILE_DO"}
      /\ Call(n, First(n), "child", node, host)
  BY DEF LoopStart
<1>2. Kind(n) \in SingleKind /\ Kind(n) # "CONSUME_QUEUE" /\ Kind(n) # "RUN_ONCE"
  BY <1>1 DEF SingleKind, LimitKinds
<1>3. cur = n /\ ret.rc = "OK" /\ Effect(n, node, host)
  BY <1>1, AtFacts
<1> QED
  BY <1>1, <1>2, <1>3, SingleCall

Counted(S, n) == [S EXCEPT ![n].counter = @ + 1, ![n].cursor = 0]

LEMMA CountedFields ==
  ASSUME NEW S \in Tables, NEW n \in Nodes, NEW T,
         T = Counted(S, n)
  PROVE  /\ T \in Tables /\ \A m \in Nodes \ {n} : T[m] = S[m]
         /\ T[n].cursor = 0 /\ T[n].running = S[n].running
         /\ T[n].prepared = S[n].prepared /\ T[n].branch = S[n].branch
         /\ T[n].once = S[n].once
         /\ T[n].timer = S[n].timer /\ T[n].started = S[n].started
         /\ T[n].duration = S[n].duration /\ T[n].deadline = S[n].deadline
<1>1. PICK s \in NodeRecord : s = S[n]
  BY DEF Tables
<1>2. PICK k \in Nat : k = s.counter + 1
  BY DEF NodeRecord
<1>3. PICK t : t = [s EXCEPT !.counter = k, !.cursor = 0]
  OBVIOUS
<1>4. /\ t \in NodeRecord
      /\ t.cursor = 0 /\ t.running = s.running /\ t.prepared = s.prepared
      /\ t.branch = s.branch /\ t.once = s.once
      /\ t.timer = s.timer /\ t.started = s.started
      /\ t.duration = s.duration /\ t.deadline = s.deadline
  BY <1>3 DEF NodeRecord
<1>5. T = [S EXCEPT ![n] = t]
  BY <1>1, <1>2, <1>3, Zenon DEF Counted
<1>6. T \in Tables /\ T[n] = t /\ \A m \in Nodes \ {n} : T[m] = S[m]
  BY <1>4, <1>5 DEF Tables
<1> QED
  BY <1>1, <1>4, <1>6

(* One more iteration: the child is reset, the counter moves. *)
LEMMA IteratedEffect ==
  ASSUME IInv, NEW n \in Nodes, Resumed(n, "child")
  PROVE  /\ Effect(n, Iterated(n), HostReset(host, node, {frame[n].child}))
         /\ Clean(Iterated(n), frame[n].child)
         /\ \A m \in Nodes : Clean(node, m) => Clean(Iterated(n), m)
<1> DEFINE x == frame[n].child
           R == {x}
           S == Reset(node, R, FALSE)
           g == HostReset(host, node, R)
           T == Counted(S, n)
<1>1. "child" \in Waiting
  BY DEF Waiting
<1>2. tree \in Trees /\ Effect(n, node, host) /\ x \in KidsOf(n) /\ node \in Tables
  BY <1>1, ResumedFacts
<1>3. x \in Nodes /\ R \subseteq KidsOf(n) /\ x \in R
  BY <1>2, KidFacts
<1>5. Iterated(n) = T
  BY Zenon DEF Iterated, Counted
<1> HIDE DEF R
<1>4. /\ Effect(n, S, g) /\ S \in Tables /\ \A k \in R : Clean(S, k)
      /\ \A m \in Nodes : Clean(node, m) => Clean(S, m)
  BY <1>2, <1>3, KidsReset
<1> HIDE DEF S, g
<1>6. /\ T \in Tables /\ \A m \in Nodes \ {n} : T[m] = S[m]
      /\ T[n].cursor = 0 /\ T[n].running = S[n].running
      /\ T[n].prepared = S[n].prepared /\ T[n].branch = S[n].branch
      /\ T[n].once = S[n].once
      /\ T[n].timer = S[n].timer /\ T[n].started = S[n].started
      /\ T[n].duration = S[n].duration /\ T[n].deadline = S[n].deadline
  BY <1>4, CountedFields
<1> HIDE DEF T
<1>7. TimerAt(T, n)
  BY <1>4, <1>6 DEF Effect, Sound, Timers, TimerAt
<1>8. T[n].cursor \in KidsOf(n) \cup {0}
  BY <1>6
<1>9. Effect(n, T, g) /\ \A m \in Nodes : Clean(S, m) => Clean(T, m)
  BY <1>2, <1>4, <1>6, <1>7, <1>8, UpdateEffect
<1> QED
  BY <1>3, <1>4, <1>5, <1>9 DEF g, R

LEMMA RetryRepeatReturnStep ==
  ASSUME IInv, NEW n \in Nodes, RetryRepeatReturn(n)
  PROVE  IInv'
<1>1. Resumed(n, "child") /\ Kind(n) \in {"RETRY", "REPEAT"}
  BY DEF RetryRepeatReturn
<1>2. Kind(n) \in SingleKind /\ "child" \in Waiting /\ Kind(n) \notin Cachers
  BY <1>1 DEF SingleKind, Waiting, Cachers
<1>3. /\ tree \in Trees /\ cur = n /\ ret.rc = "OK" /\ Effect(n, node, host)
      /\ ret.status \in Statuses
  BY <1>1, <1>2, SingleReturn
<1>4. \A S : OffFocus(S, n)
  BY <1>2, <1>3, SingleKindFacts
<1>5. CASE Return(n, "RUNNING", node, host)
  BY <1>3, <1>4, <1>5, ReturnKeeps DEF Statuses
<1>6. CASE Complete(n, "SUCCESS")
  BY <1>3, <1>6, CompleteKeeps DEF Complete, Statuses
<1>7. ASSUME node' = Iterated(n), host' = HostReset(host, node, {frame[n].child}),
             frame' = [frame EXCEPT ![n].at = "run"],
             UNCHANGED <<tree, dynamic, cur, ret, now, result>>
      PROVE  IInv'
  <2>1. Effect(n, Iterated(n), HostReset(host, node, {frame[n].child}))
    BY <1>1, IteratedEffect
  <2>2. frame[n].child \in KidsOf(n) \cup {0}
    BY <1>1, <1>2, ResumedFacts
  <2>3. UNCHANGED <<tree, cur, ret, now, result>>
    BY <1>7
  <2> QED
    BY <1>2, <1>3, <1>4, <1>7, <2>1, <2>2, <2>3, RunAgain
<1> QED
  BY <1>5, <1>6, <1>7 DEF RetryRepeatReturn

LEMMA CooperativeReturnStep ==
  ASSUME IInv, NEW n \in Nodes, CooperativeReturn(n)
  PROVE  IInv'
<1> DEFINE x == frame[n].child
           told == HostReset(host, node, {x})
           body == IF Kind(n) = "WHILE_DO" THEN x ELSE 0
<1>1. Resumed(n, "child") /\ Kind(n) \in {"WHILE_DO", "KEEP_RUNNING_UNTIL_FAILURE"}
  BY DEF CooperativeReturn
<1>2. "child" \in Waiting
  BY DEF Waiting
<1>3. /\ tree \in Trees /\ cur = n /\ ret.rc = "OK" /\ Effect(n, node, host)
      /\ x \in KidsOf(n) /\ CallFocus(node, n, "child", x)
  BY <1>1, <1>2, ResumedFacts
<1>4. Kind(n) \in Focusing => Kind(n) = "WHILE_DO" /\ \A k \in KidsOf(n) : Clean(node, k) \/ k = x
  BY <1>1, <1>3 DEF CallFocus, Focusing, Memory, Reactive, Guarded
<1>5. /\ Effect(n, Iterated(n), told) /\ Clean(Iterated(n), x)
      /\ \A m \in Nodes : Clean(node, m) => Clean(Iterated(n), m)
  BY <1>1, IteratedEffect
<1>6. ASSUME Suspend(n, body)
      PROVE  IInv'
  <2>1. Return(n, "RUNNING", [node EXCEPT ![n].cursor = body], host)
    BY <1>6 DEF Suspend
  <2>2. body \in KidsOf(n) \/ body = 0
    BY <1>3
  <2>3. Kind(n) \in Focusing => \A k \in KidsOf(n) : Clean(node, k) \/ k = body
    BY <1>4
  <2> HIDE DEF body
  <2> QED
    BY <1>3, <2>1, <2>2, <2>3, SuspendKeeps
<1>7. ASSUME NEW s, s \in {"SUCCESS", "FAILURE"}, Complete(n, s)
      PROVE  IInv'
  BY <1>3, <1>7, CompleteKeeps DEF Complete, Statuses
<1>8. ASSUME CompleteFrom(n, Spent(n), Iterated(n), told)
      PROVE  IInv'
  <2> HIDE DEF told
  <2>1. Spent(n) \in Statuses
    BY DEF Spent, Statuses
  <2> QED
    BY <1>3, <1>5, <1>8, <2>1, CompleteKeeps
<1>9. ASSUME Return(n, "RUNNING", Iterated(n), told)
      PROVE  IInv'
  <2> HIDE DEF told
  <2>1. \A k \in KidsOf(n) : k \in Nodes
    BY <1>3, KidFacts
  <2>2. OffFocus(Iterated(n), n)
    BY <1>4, <1>5, <2>1 DEF OffFocus
  <2> QED
    BY <1>3, <1>5, <1>9, <2>2, ReturnKeeps DEF Statuses
<1>10. \/ Suspend(n, body)
       \/ Complete(n, IF Kind(n) = "WHILE_DO" THEN "FAILURE" ELSE "SUCCESS")
       \/ CompleteFrom(n, Spent(n), Iterated(n), told)
       \/ Return(n, "RUNNING", Iterated(n), told)
  BY Zenon DEF CooperativeReturn
<1> HIDE DEF body, told
<1> QED
  BY <1>6, <1>7, <1>8, <1>9, <1>10

(* Leaving a branch that is not the one to keep. *)
LEMMA SwitchEffect ==
  ASSUME IInv, NEW n \in Nodes, Effect(n, node, host),
         NEW keep, keep \in KidsOf(n) \/ keep = 0
  PROVE  /\ Effect(n, SwitchedTo(n, keep), HostReset(host, node, Stale(n, keep)))
         /\ SwitchedTo(n, keep)[n].cursor = IF node[n].cursor = keep THEN keep ELSE 0
         /\ \A k \in KidsOf(n) :
              Clean(node, k) \/ (k = node[n].cursor /\ k # keep) =>
                Clean(SwitchedTo(n, keep), k)
<1> DEFINE R == Stale(n, keep)
           S == Reset(node, R, FALSE)
           g == HostReset(host, node, R)
           v == IF node[n].cursor = keep THEN keep ELSE 0
           T == SetCursor(S, n, v)
<1>1. tree \in Trees /\ node \in Tables
  BY DEF IInv, Effect, Sound
<1>2. node[n].cursor \in KidsOf(n) \/ node[n].cursor = 0
  BY DEF Effect, Sound, Cursors
<1>3. R \subseteq KidsOf(n) /\ (node[n].cursor \in KidsOf(n) /\ node[n].cursor # keep => node[n].cursor \in R)
  <2>1. \A k \in KidsOf(n) : k # 0
    BY <1>1, KidFacts
  <2> QED
    BY <1>2, <2>1 DEF Stale
<1> HIDE DEF R
<1>4. /\ Effect(n, S, g) /\ S[n] = node[n]
      /\ \A k \in R : Clean(S, k)
      /\ \A m \in Nodes : Clean(node, m) => Clean(S, m)
  BY <1>1, <1>3, KidsReset
<1>5. SwitchedTo(n, keep) = [S EXCEPT ![n].cursor = IF S[n].cursor = keep THEN S[n].cursor ELSE 0]
  BY Zenon DEF SwitchedTo, R
<1>6. (IF S[n].cursor = keep THEN S[n].cursor ELSE 0) = v
  BY <1>4
<1>7. SwitchedTo(n, keep) = T
  BY <1>5, <1>6, Zenon DEF SetCursor
<1>8. v \in KidsOf(n) \/ v = 0
  OBVIOUS
<1> HIDE DEF S, g, v
<1>9. /\ Effect(n, T, g) /\ T[n].cursor = v
      /\ \A m \in Nodes : Clean(S, m) => Clean(T, m)
  BY <1>1, <1>4, <1>8, CursorEffect
<1>10. \A k \in KidsOf(n) : k \in Nodes
  BY <1>1, KidFacts
<1> HIDE DEF T
<1>11. \A k \in KidsOf(n) : Clean(node, k) \/ (k = node[n].cursor /\ k # keep) => Clean(T, k)
  BY <1>3, <1>4, <1>9, <1>10
<1> QED
  BY <1>7, <1>9, <1>11 DEF g, R, v

LEMMA TickBranchKeeps ==
  ASSUME IInv, NEW n \in Nodes, cur = n, ret.rc = "OK", Effect(n, node, host),
         Kind(n) \in Guarded \cup {"SWITCH"}, NEW c \in KidsOf(n),
         \A k \in KidsOf(n) : Clean(node, k) \/ k = node[n].cursor,
         TickBranch(n, c)
  PROVE  IInv'
<1> DEFINE T == SwitchedTo(n, c)
           g == HostReset(host, node, Stale(n, c))
<1>1. Call(n, c, "child", T, g) /\ "child" \in Waiting
  BY DEF TickBranch, Waiting
<1>2. /\ Effect(n, T, g)
      /\ \A k \in KidsOf(n) :
           Clean(node, k) \/ (k = node[n].cursor /\ k # c) => Clean(T, k)
  BY SwitchEffect
<1> HIDE DEF T, g
<1>3. CallFocus(T, n, "child", c)
  BY <1>2 DEF CallFocus
<1>4. Kind(n) \notin Adapters /\ Kind(n) # "RUN_ONCE"
  BY DEF Adapters, Guarded
<1> QED
  BY <1>1, <1>2, <1>3, <1>4, CallKeeps

LEMMA SelectedKid ==
  ASSUME tree \in Trees, NEW n \in Nodes, Kind(n) \in Guarded, NEW s
  PROVE  Selected(n, s) \in KidsOf(n) \/ Selected(n, s) = 0
<1>1. Len(Kids(n)) >= IF n \in tree.cond THEN 1 ELSE 2
  BY KidCounts DEF Guarded
<1>2. Then(n) \in KidsOf(n)
  <2>1. Kids(n) \in Seq(Nodes)
    BY TreeFacts
  <2> QED
    BY <1>1, <2>1 DEF Then, KidsOf, SeqRange
<1>3. NextSibling(n, Then(n)) \in KidsOf(n) \/ NextSibling(n, Then(n)) = 0
  BY <1>2, Siblings
<1> QED
  BY <1>2, <1>3 DEF Selected

LEMMA ConditionSettledKeeps ==
  ASSUME IInv, NEW n \in Nodes, cur = n, ret.rc = "OK", Effect(n, node, host),
         Kind(n) \in Guarded, NEW s \in Statuses,
         \A k \in KidsOf(n) :
           \/ Clean(node, k) \/ k = node[n].cursor
           \/ s = "RUNNING" /\ n \notin tree.cond /\ k = First(n),
         ConditionSettled(n, s)
  PROVE  IInv'
<1>1. tree \in Trees
  BY DEF IInv
<1>2. ASSUME s = "RUNNING",
             Return(n, "RUNNING", SwitchedTo(n, 0), HostReset(host, node, Stale(n, 0)))
      PROVE  IInv'
  <2>1. /\ Effect(n, SwitchedTo(n, 0), HostReset(host, node, Stale(n, 0)))
        /\ SwitchedTo(n, 0)[n].cursor = 0
        /\ \A k \in KidsOf(n) :
             Clean(node, k) \/ (k = node[n].cursor /\ k # 0) => Clean(SwitchedTo(n, 0), k)
    BY SwitchEffect
  <2>2. \A k \in KidsOf(n) : k # 0
    BY <1>1, KidFacts
  <2>3. OffFocus(SwitchedTo(n, 0), n)
    BY <2>1, <2>2 DEF OffFocus
  <2> QED
    BY <1>2, <2>1, <2>3, ReturnKeeps DEF Statuses
<1>3. ASSUME s # "RUNNING", Selected(n, s) # 0, TickBranch(n, Selected(n, s))
      PROVE  IInv'
  <2>1. Selected(n, s) \in KidsOf(n)
    BY <1>1, <1>3, SelectedKid
  <2>2. \A k \in KidsOf(n) : Clean(node, k) \/ k = node[n].cursor
    BY <1>3
  <2> QED
    BY <1>3, <2>1, <2>2, TickBranchKeeps
<1>4. ASSUME NEW t, t \in {"SUCCESS", "FAILURE"}, Complete(n, t)
      PROVE  IInv'
  BY <1>4, CompleteKeeps DEF Complete, Statuses
<1> QED
  BY <1>2, <1>3, <1>4 DEF ConditionSettled

LEMMA GuardSteps ==
  ASSUME IInv, NEW n \in Nodes, AskCondition(n) \/ ConditionReturn(n)
  PROVE  IInv'
<1>1. CASE AskCondition(n)
  <2>1. At(n, "run") /\ Kind(n) \in Guarded
    BY <1>1 DEF AskCondition
  <2>2. /\ tree \in Trees /\ cur = n /\ ret.rc = "OK" /\ Effect(n, node, host)
        /\ OffFocus(node, n)
    BY <2>1, AtFacts
  <2>3. Kind(n) \in Focusing
    BY <2>1 DEF Focusing
  <2>4. CASE n \notin tree.cond /\ Call(n, First(n), "cond", node, host)
    <3>1. Len(Kids(n)) >= 1
      <4>1. Kind(n) = "IF_THEN_ELSE" => Len(Kids(n)) \in 2..3
        BY <2>2, <2>4, KidCounts
      <4>2. Kind(n) \in {"PRECONDITION", "WHILE_DO"} => Len(Kids(n)) = 2
        BY <2>2, <2>4, KidCounts
      <4> QED
        BY <2>1, <4>1, <4>2 DEF Guarded
    <3>2. First(n) \in KidsOf(n) /\ "cond" \in Waiting
      BY <2>2, <3>1, FirstKid DEF Waiting
    <3>3. CallFocus(node, n, "cond", First(n))
      BY <2>2 DEF OffFocus, CallFocus
    <3> QED
      BY <2>1, <2>2, <2>4, <3>2, <3>3, CallKeeps
  <2>5. CASE Raise(n, node, host)
    BY <2>2, <2>5, ErrorStep
  <2>6. ASSUME n \in tree.cond, NEW s \in Statuses, ConditionSettled(n, s)
        PROVE  IInv'
    <3>1. \A k \in KidsOf(n) : Clean(node, k) \/ k = node[n].cursor
      BY <2>2, <2>3, <2>6 DEF OffFocus
    <3> QED
      BY <2>1, <2>2, <2>6, <3>1, ConditionSettledKeeps
  <2> QED
    BY <1>1, <2>4, <2>5, <2>6 DEF AskCondition
<1>2. CASE ConditionReturn(n)
  <2>1. Resumed(n, "cond") /\ ConditionSettled(n, ret.status) /\ "cond" \in Waiting
    BY <1>2 DEF ConditionReturn, Waiting
  <2>2. /\ tree \in Trees /\ cur = n /\ ret.rc = "OK" /\ Effect(n, node, host)
        /\ ret.status \in Statuses
        /\ ret.status # "RUNNING" => Clean(node, frame[n].child)
        /\ CallFocus(node, n, "cond", frame[n].child)
        /\ frame[n].child = First(n) /\ Kind(n) \in Guarded /\ n \notin tree.cond
    BY <2>1, ResumedFacts
  <2>3. Kind(n) \in Focusing
    BY <2>2 DEF Focusing
  <2>4. \A k \in KidsOf(n) :
          \/ Clean(node, k) \/ k = node[n].cursor
          \/ ret.status = "RUNNING" /\ n \notin tree.cond /\ k = First(n)
    BY <2>2, <2>3 DEF CallFocus
  <2> QED
    BY <2>1, <2>2, <2>4, ConditionSettledKeeps
<1> QED
  BY <1>1, <1>2

LEMMA SwitchSteps ==
  ASSUME IInv, NEW n \in Nodes, SelectCase(n) \/ BranchReturn(n)
  PROVE  IInv'
<1>1. CASE SelectCase(n)
  <2>1. At(n, "run") /\ Kind(n) = "SWITCH"
    BY <1>1 DEF SelectCase
  <2>2. /\ tree \in Trees /\ cur = n /\ ret.rc = "OK" /\ Effect(n, node, host)
        /\ OffFocus(node, n)
    BY <2>1, AtFacts
  <2>3. CASE Raise(n, node, host)
    BY <2>2, <2>3, ErrorStep
  <2>4. CASE Complete(n, "FAILURE")
    BY <2>2, <2>4, CompleteKeeps DEF Complete, Statuses
  <2>5. ASSUME NEW c \in KidsOf(n), TickBranch(n, c)
        PROVE  IInv'
    <3>1. \A k \in KidsOf(n) : Clean(node, k) \/ k = node[n].cursor
      BY <2>1, <2>2 DEF OffFocus, Focusing, Guarded
    <3> QED
      BY <2>1, <2>2, <2>5, <3>1, TickBranchKeeps
  <2> QED
    BY <1>1, <2>3, <2>4, <2>5 DEF SelectCase, KidsOf
<1>2. CASE BranchReturn(n)
  <2>1. /\ Resumed(n, "child") /\ Kind(n) \in {"IF_THEN_ELSE", "PRECONDITION", "SWITCH"}
        /\ "child" \in Waiting
    BY <1>2 DEF BranchReturn, Waiting
  <2>2. /\ tree \in Trees /\ cur = n /\ ret.rc = "OK" /\ Effect(n, node, host)
        /\ frame[n].child \in KidsOf(n) /\ ret.status \in Statuses
        /\ CallFocus(node, n, "child", frame[n].child)
    BY <2>1, ResumedFacts
  <2>3. CASE Suspend(n, frame[n].child)
    <3>1. \A k \in KidsOf(n) : Clean(node, k) \/ k = frame[n].child
      BY <2>1, <2>2 DEF CallFocus, Focusing, Guarded, Reactive
    <3>2. Return(n, "RUNNING", [node EXCEPT ![n].cursor = frame[n].child], host)
      BY <2>3 DEF Suspend
    <3> QED
      BY <2>2, <3>1, <3>2, SuspendKeeps
  <2>4. CASE Complete(n, ret.status)
    BY <2>2, <2>4, CompleteKeeps DEF Complete
  <2> QED
    BY <1>2, <2>3, <2>4 DEF BranchReturn
<1> QED
  BY <1>1, <1>2

(* A Timeout or Delay arms its timer, unless it runs already. *)
LEMMA ArmedEffect ==
  ASSUME IInv, NEW n \in Nodes, Effect(n, node, host)
  PROVE  Effect(n, Armed(n), host)
<1>1. tree \in Trees /\ node \in Tables /\ TimerAt(node, n) /\ now \in 0..MaxNow
      /\ node[n].cursor \in KidsOf(n) \cup {0}
  BY DEF IInv, Effect, Sound, Timers, Cursors
<1>2. CASE node[n].timer
  BY <1>2 DEF Armed
<1>3. CASE ~node[n].timer
  <2>1. PICK s \in NodeRecord : s = node[n]
    BY <1>1 DEF Tables
  <2>2. PICK b \in BOOLEAN : b = TRUE
    OBVIOUS
  <2>3. PICK d : d = Deadline(now, s.duration)
    OBVIOUS
  <2>4. /\ d \in Nat /\ d <= TimeMax /\ now \in Nat
        /\ d = now + s.duration \/ (d = TimeMax /\ TimeMax < now + s.duration)
    <3>1. now \in 0..TimeMax /\ s.duration \in Nat
      BY <1>1, BoundsAssumption DEF NodeRecord
    <3> QED
      BY <2>3, <3>1, DeadlineFacts
  <2>5. PICK t : t = [s EXCEPT !.started = now, !.timer = b, !.deadline = d]
    OBVIOUS
  <2>6. /\ t \in NodeRecord /\ t.running = s.running /\ t.prepared = s.prepared
        /\ t.branch = s.branch /\ t.once = s.once /\ t.cursor = s.cursor
        /\ t.started = now /\ t.deadline = d /\ t.duration = s.duration
    BY <2>4, <2>5 DEF NodeRecord
  <2> DEFINE T == Put(node, n, t)
  <2>7. Armed(n) = T
    BY <1>3, <2>1, <2>2, <2>3, <2>5, Zenon DEF Armed, Put
  <2>8. T \in Tables /\ T[n] = t /\ \A m \in Nodes \ {n} : T[m] = node[m]
    BY <1>1, <2>6, PutFacts
  <2> HIDE DEF T
  <2>9. TimerAt(T, n)
    BY <2>4, <2>6, <2>8 DEF TimerAt
  <2>10. Effect(n, T, host)
    BY <1>1, <2>1, <2>6, <2>8, <2>9, UpdateEffect
  <2> QED
    BY <2>7, <2>10
<1> QED
  BY <1>2, <1>3

LEMMA TimeoutSteps ==
  ASSUME IInv, NEW n \in Nodes, TimeoutStart(n) \/ TimeoutReturn(n)
  PROVE  IInv'
<1>1. Kind(n) = "TIMEOUT"
  BY DEF TimeoutStart, TimeoutReturn
<1>2. Kind(n) \in SingleKind /\ Kind(n) # "CONSUME_QUEUE" /\ Kind(n) # "RUN_ONCE"
  BY <1>1 DEF SingleKind, DurationKinds
<1>3. CASE TimeoutStart(n)
  <2>1. At(n, "run")
    BY <1>3 DEF TimeoutStart
  <2>2. cur = n /\ ret.rc = "OK" /\ Effect(n, node, host)
    BY <2>1, AtFacts
  <2>3. Effect(n, Armed(n), host)
    BY <2>2, ArmedEffect
  <2>4. CASE CompleteFrom(n, "FAILURE", Armed(n), host)
    BY <2>2, <2>3, <2>4, CompleteKeeps DEF Statuses
  <2>5. CASE Call(n, First(n), "child", Armed(n), host)
    BY <1>2, <2>2, <2>3, <2>5, SingleCall
  <2> QED
    BY <1>3, <2>4, <2>5 DEF TimeoutStart
<1>4. CASE TimeoutReturn(n)
  <2>1. Resumed(n, "child")
    BY <1>4 DEF TimeoutReturn
  <2>2. /\ tree \in Trees /\ cur = n /\ ret.rc = "OK" /\ Effect(n, node, host)
        /\ ret.status \in Statuses
    BY <1>2, <2>1, SingleReturn
  <2>3. ASSUME NEW s \in Statuses, Complete(n, s)
        PROVE  IInv'
    BY <2>2, <2>3, CompleteKeeps DEF Complete
  <2>4. CASE Return(n, "RUNNING", node, host)
    <3>1. OffFocus(node, n)
      BY <1>2, <2>2, SingleKindFacts
    <3> QED
      BY <2>2, <2>4, <3>1, ReturnKeeps DEF Statuses
  <2>5. "FAILURE" \in Statuses
    BY DEF Statuses
  <2> QED
    BY <1>4, <2>2, <2>3, <2>4, <2>5 DEF TimeoutReturn
<1> QED
  BY <1>3, <1>4

LEMMA DelaySteps ==
  ASSUME IInv, NEW n \in Nodes, DelayStart(n) \/ DelayReturn(n)
  PROVE  IInv'
<1>1. Kind(n) = "DELAY"
  BY DEF DelayStart, DelayReturn
<1>2. Kind(n) \in SingleKind /\ Kind(n) # "CONSUME_QUEUE" /\ Kind(n) # "RUN_ONCE"
  BY <1>1 DEF SingleKind, DurationKinds
<1>3. CASE DelayStart(n)
  <2>1. At(n, "run")
    BY <1>3 DEF DelayStart
  <2>2. tree \in Trees /\ cur = n /\ ret.rc = "OK" /\ Effect(n, node, host) /\ node \in Tables
    BY <2>1, AtFacts
  <2>3. CASE Call(n, First(n), "child", node, host)
    BY <1>2, <2>2, <2>3, SingleCall
  <2>4. CASE Return(n, "RUNNING", Armed(n), host)
    <3>1. Effect(n, Armed(n), host) /\ OffFocus(Armed(n), n)
      BY <1>2, <2>2, ArmedEffect, SingleKindFacts
    <3> QED
      BY <2>2, <2>4, <3>1, ReturnKeeps DEF Statuses
  <2>5. ASSUME Call(n, First(n), "child",
                    [node EXCEPT ![n].elapsed = TRUE, ![n].timer = FALSE,
                                 ![n].deadline = 0, ![n].started = 0], host)
        PROVE  IInv'
    <3>1. PICK s \in NodeRecord : s = node[n]
      BY <2>2 DEF Tables
    <3>2. PICK b \in BOOLEAN : b = TRUE
      OBVIOUS
    <3>3. PICK c \in BOOLEAN : c = FALSE
      OBVIOUS
    <3>4. PICK t : t = [s EXCEPT !.elapsed = b, !.timer = c, !.deadline = 0, !.started = 0]
      OBVIOUS
    <3>5. /\ t \in NodeRecord /\ t.running = s.running /\ t.prepared = s.prepared
          /\ t.branch = s.branch /\ t.once = s.once /\ t.cursor = s.cursor /\ t.timer = c
      BY <3>4 DEF NodeRecord
    <3> DEFINE T == Put(node, n, t)
    <3>6. Call(n, First(n), "child", T, host)
      BY <2>5, <3>1, <3>2, <3>3, <3>4, Zenon DEF Put
    <3>7. T \in Tables /\ T[n] = t /\ \A m \in Nodes \ {n} : T[m] = node[m]
      BY <2>2, <3>5, PutFacts
    <3> HIDE DEF T
    <3>8. TimerAt(T, n)
      BY <3>3, <3>5, <3>7 DEF TimerAt
    <3>9. T[n].cursor \in KidsOf(n) \cup {0}
      BY <2>2, <3>1, <3>5, <3>7 DEF Effect, Sound, Cursors
    <3>10. Effect(n, T, host)
      BY <2>2, <3>1, <3>5, <3>7, <3>8, <3>9, UpdateEffect
    <3> QED
      BY <1>2, <2>2, <3>6, <3>10, SingleCall
  <2> QED
    BY <1>3, <2>3, <2>4, <2>5 DEF DelayStart
<1>4. CASE DelayReturn(n)
  <2>1. Resumed(n, "child")
    BY <1>4 DEF DelayReturn
  <2>2. /\ tree \in Trees /\ cur = n /\ ret.rc = "OK" /\ Effect(n, node, host)
        /\ ret.status \in Statuses
    BY <1>2, <2>1, SingleReturn
  <2>3. CASE Complete(n, ret.status)
    BY <2>2, <2>3, CompleteKeeps DEF Complete
  <2>4. CASE Return(n, "RUNNING", node, host)
    <3>1. OffFocus(node, n)
      BY <1>2, <2>2, SingleKindFacts
    <3> QED
      BY <2>2, <2>4, <3>1, ReturnKeeps DEF Statuses
  <2> QED
    BY <1>4, <2>3, <2>4 DEF DelayReturn
<1> QED
  BY <1>3, <1>4

(* pipeline_prepare or queue_begin opens the context of an adapter... *)
LEMMA OpenedEffect ==
  ASSUME tree \in Trees, NEW n \in Nodes, Effect(n, node, host), Kind(n) \in Adapters,
         ~node[n].prepared
  PROVE  /\ Effect(n, Opened(n), TellOpened(n)) /\ Opened(n)[n].prepared
         /\ Opened(n)[n].cursor = node[n].cursor
         /\ \A k \in KidsOf(n) : Clean(node, k) => Clean(Opened(n), k)
<1> DEFINE g == TellOpened(n)
<1>1. /\ node \in Tables /\ host \in Histories /\ MirrorAt(node, host, n)
      /\ TimerAt(node, n) /\ OnceAt(node, host, n) /\ node[n].cursor \in KidsOf(n) \cup {0}
  BY DEF Effect, Sound, Mirror, Timers, Onces, Cursors
<1>2. PICK s \in NodeRecord : s = node[n]
  BY <1>1 DEF Tables
<1>3. PICK b \in BOOLEAN : b = TRUE
  OBVIOUS
<1>4. PICK t : t = [s EXCEPT !.prepared = b]
  OBVIOUS
<1>5. /\ t \in NodeRecord /\ t.running = s.running /\ t.prepared = b
      /\ t.branch = s.branch /\ t.once = s.once /\ t.cursor = s.cursor
      /\ t.timer = s.timer /\ t.started = s.started
      /\ t.duration = s.duration /\ t.deadline = s.deadline
  BY <1>4 DEF NodeRecord
<1> DEFINE T == Put(node, n, t)
<1>6. Opened(n) = T
  BY <1>2, <1>3, <1>4, Zenon DEF Opened, Put
<1>7. T \in Tables /\ T[n] = t /\ \A m \in Nodes \ {n} : T[m] = node[m]
  BY <1>1, <1>5, PutFacts
<1>8. /\ g \in Histories /\ g.context[n] = host.context[n] + 1
      /\ \A m \in Nodes \ {n} : g.context[m] = host.context[m]
      /\ g.active = host.active /\ g.branch = host.branch /\ g.completed = host.completed
  BY <1>1 DEF TellOpened, Histories
<1> HIDE DEF T, g
<1>9. MirrorAt(T, g, n)
  <2>1. T[n].prepared
    BY <1>3, <1>5, <1>7, Zenon
  <2>2. host.context[n] = 0
    BY <1>1 DEF MirrorAt, Bit
  <2>3. T[n].running = node[n].running /\ T[n].branch = node[n].branch
    BY <1>2, <1>5, <1>7
  <2> QED
    BY <1>1, <1>8, <2>1, <2>2, <2>3 DEF MirrorAt, Bit
<1>10. TimerAt(T, n) /\ OnceAt(T, g, n) /\ T[n].cursor \in KidsOf(n) \cup {0}
  BY <1>1, <1>2, <1>5, <1>7, <1>8 DEF TimerAt, OnceAt
<1>11. Effect(n, T, g) /\ \A m \in Sub(n) \ {n} : Clean(node, m) => Clean(T, m)
  BY <1>1, <1>7, <1>8, <1>9, <1>10, TouchEffect
<1>12. \A k \in KidsOf(n) : k \in Sub(n) \ {n}
  BY KidFacts
<1> QED
  BY <1>2, <1>3, <1>5, <1>6, <1>7, <1>11, <1>12 DEF g

(* ... and pipeline_complete or queue_finish closes it. *)
LEMMA ClosedEffect ==
  ASSUME tree \in Trees, NEW n \in Nodes, Effect(n, node, host), Kind(n) \in Adapters,
         node[n].prepared, NEW T \in Tables, \A m \in Nodes \ {n} : T[m] = node[m],
         T[n].running = node[n].running, ~T[n].prepared,
         T[n].branch = node[n].branch, T[n].once = node[n].once,
         T[n].cursor \in KidsOf(n) \cup {0}, TimerAt(T, n)
  PROVE  /\ Effect(n, T, TellClosed(n))
         /\ \A k \in KidsOf(n) : Clean(node, k) => Clean(T, k)
<1> DEFINE g == TellClosed(n)
<1>1. host \in Histories /\ MirrorAt(node, host, n) /\ OnceAt(node, host, n)
  BY DEF Effect, Sound, Mirror, Onces
<1>2. /\ g \in Histories /\ g.context[n] = host.context[n] - 1
      /\ \A m \in Nodes \ {n} : g.context[m] = host.context[m]
      /\ g.active = host.active /\ g.branch = host.branch /\ g.completed = host.completed
  BY <1>1 DEF TellClosed, Histories
<1> HIDE DEF g
<1>3. MirrorAt(T, g, n)
  BY <1>1, <1>2 DEF MirrorAt, Bit
<1>4. OnceAt(T, g, n)
  BY <1>1, <1>2 DEF OnceAt
<1>5. Effect(n, T, g) /\ \A m \in Sub(n) \ {n} : Clean(node, m) => Clean(T, m)
  BY <1>2, <1>3, <1>4, TouchEffect
<1>6. \A k \in KidsOf(n) : k \in Sub(n) \ {n}
  BY KidFacts
<1> QED
  BY <1>5, <1>6 DEF g

LEMMA PipelineStartStep ==
  ASSUME IInv, NEW n \in Nodes, PipelineStart(n)
  PROVE  IInv'
<1>1. At(n, "run") /\ Kind(n) = "PIPELINE_SEQUENCE"
  BY DEF PipelineStart
<1>2. /\ tree \in Trees /\ cur = n /\ ret.rc = "OK" /\ Effect(n, node, host)
      /\ OffFocus(node, n) /\ node \in Tables
  BY <1>1, AtFacts
<1>3. Kind(n) \in Adapters /\ Kind(n) # "RUN_ONCE" /\ "child" \in Waiting
  BY <1>1 DEF Adapters, Waiting
<1>4. ASSUME Stage(n) # 0
      PROVE  Stage(n) \in KidsOf(n)
  <2>1. node[n].cursor \in KidsOf(n) \/ node[n].cursor = 0
    BY <1>2 DEF Effect, Sound, Cursors
  <2>2. CASE node[n].cursor # 0
    BY <2>1, <2>2 DEF Stage
  <2>3. CASE node[n].cursor = 0
    <3>1. node[n].counter < Len(Kids(n)) /\ Stage(n) = Kids(n)[node[n].counter + 1]
      BY <1>4, <2>3 DEF Stage
    <3>2. node[n].counter \in Nat /\ Kids(n) \in Seq(Nodes)
      BY <1>2, TreeFacts DEF Tables, NodeRecord
    <3>3. node[n].counter + 1 \in DOMAIN Kids(n)
      BY <3>1, <3>2
    <3> QED
      BY <3>1, <3>3 DEF KidsOf, SeqRange
  <2> QED
    BY <2>2, <2>3
<1>5. \A k \in KidsOf(n) : Clean(node, k) \/ (k = node[n].cursor /\ k = Stage(n))
  <2>1. \A k \in KidsOf(n) : k # 0
    BY <1>2, KidFacts
  <2> QED
    BY <1>1, <1>2, <2>1 DEF OffFocus, Focusing, Guarded, Stage
<1>6. CASE Complete(n, "SUCCESS")
  BY <1>2, <1>6, CompleteKeeps DEF Complete, Statuses
<1>7. CASE Stage(n) # 0 /\ node[n].prepared /\ Call(n, Stage(n), "child", node, host)
  <2>1. CallFocus(node, n, "child", Stage(n))
    BY <1>5 DEF CallFocus
  <2> QED
    BY <1>2, <1>3, <1>4, <1>7, <2>1, CallKeeps
<1>8. ASSUME Stage(n) # 0, ~node[n].prepared
      PROVE  /\ Effect(n, Opened(n), TellOpened(n)) /\ Opened(n)[n].prepared
             /\ CallFocus(Opened(n), n, "child", Stage(n))
  <2>1. /\ Effect(n, Opened(n), TellOpened(n)) /\ Opened(n)[n].prepared
        /\ \A k \in KidsOf(n) : Clean(node, k) => Clean(Opened(n), k)
    BY <1>2, <1>3, <1>8, OpenedEffect
  <2> QED
    BY <1>5, <2>1 DEF CallFocus
<1>9. CASE /\ Stage(n) # 0 /\ ~node[n].prepared
           /\ RaiseAfterReset(n, Opened(n), TellOpened(n))
  BY <1>2, <1>8, <1>9, ErrorStep
<1>10. CASE /\ Stage(n) # 0 /\ ~node[n].prepared
            /\ Call(n, Stage(n), "child", Opened(n), TellOpened(n))
  BY <1>2, <1>3, <1>4, <1>8, <1>10, CallKeeps
<1> QED
  BY <1>6, <1>7, <1>9, <1>10 DEF PipelineStart

LEMMA PipelineReturnStep ==
  ASSUME IInv, NEW n \in Nodes, PipelineReturn(n)
  PROVE  IInv'
<1>1. Resumed(n, "child") /\ Kind(n) = "PIPELINE_SEQUENCE"
  BY DEF PipelineReturn
<1>2. Kind(n) \in Adapters /\ Kind(n) \notin Cachers /\ "child" \in Waiting
  BY <1>1 DEF Adapters, Cachers, Waiting
<1>3. /\ tree \in Trees /\ cur = n /\ ret.rc = "OK" /\ Effect(n, node, host)
      /\ node \in Tables /\ frame[n].child \in KidsOf(n) /\ ret.status \in Statuses
      /\ ret.status # "RUNNING" => Clean(node, frame[n].child)
      /\ CallFocus(node, n, "child", frame[n].child)
      /\ node[n].prepared
  BY <1>1, <1>2, ResumedFacts
<1>4. \A k \in KidsOf(n) : Clean(node, k) \/ k = frame[n].child
  BY <1>1, <1>3 DEF CallFocus, Focusing, Reactive
<1>5. CASE Suspend(n, frame[n].child)
  <2>1. Return(n, "RUNNING", [node EXCEPT ![n].cursor = frame[n].child], host)
    BY <1>5 DEF Suspend
  <2> QED
    BY <1>3, <1>4, <2>1, SuspendKeeps
<1>6. CASE RaiseAfterReset(n, node, host)
  BY <1>3, <1>6, ErrorStep
<1>7. PICK s \in NodeRecord : s = node[n]
  BY <1>3 DEF Tables
<1>8. PICK b \in BOOLEAN : b = FALSE
  OBVIOUS
<1>9. TimerAt(node, n)
  BY <1>3 DEF Effect, Sound, Timers
<1>10. CASE CompleteFrom(n, "FAILURE", [node EXCEPT ![n].cursor = 0, ![n].prepared = FALSE],
                         TellClosed(n))
  <2>1. PICK t : t = [s EXCEPT !.cursor = 0, !.prepared = b]
    OBVIOUS
  <2>2. /\ t \in NodeRecord /\ t.running = s.running /\ t.prepared = b
        /\ t.branch = s.branch /\ t.once = s.once /\ t.cursor = 0
        /\ t.timer = s.timer /\ t.started = s.started
        /\ t.duration = s.duration /\ t.deadline = s.deadline
    BY <2>1 DEF NodeRecord
  <2> DEFINE T == Put(node, n, t)
  <2>3. CompleteFrom(n, "FAILURE", T, TellClosed(n))
    BY <1>7, <1>8, <1>10, <2>1, Zenon DEF Put
  <2>4. T \in Tables /\ T[n] = t /\ \A m \in Nodes \ {n} : T[m] = node[m]
    BY <1>3, <2>2, PutFacts
  <2> HIDE DEF T
  <2>5. ~T[n].prepared
    BY <1>8, <2>2, <2>4, Zenon
  <2>6. TimerAt(T, n)
    BY <1>7, <1>9, <2>2, <2>4 DEF TimerAt
  <2>7. /\ T[n].running = node[n].running /\ T[n].branch = node[n].branch
        /\ T[n].once = node[n].once /\ T[n].cursor \in KidsOf(n) \cup {0}
    BY <1>7, <2>2, <2>4
  <2>8. Effect(n, T, TellClosed(n))
    BY <1>2, <1>3, <2>4, <2>5, <2>6, <2>7, ClosedEffect
  <2> QED
    BY <1>3, <2>3, <2>8, CompleteKeeps DEF Statuses
<1>11. ASSUME ret.status = "SUCCESS",
              node' = [[node EXCEPT ![n].cursor = 0, ![n].prepared = FALSE]
                         EXCEPT ![n].counter = @ + 1],
              host' = TellClosed(n), frame' = [frame EXCEPT ![n].at = "run"],
              UNCHANGED <<tree, dynamic, cur, ret, now, result>>
       PROVE  IInv'
  <2>1. PICK k \in Nat : k = s.counter + 1
    BY DEF NodeRecord
  <2>2. PICK t : t = [s EXCEPT !.cursor = 0, !.prepared = b, !.counter = k]
    OBVIOUS
  <2>3. /\ t \in NodeRecord /\ t.running = s.running /\ t.prepared = b
        /\ t.branch = s.branch /\ t.once = s.once /\ t.cursor = 0
        /\ t.timer = s.timer /\ t.started = s.started
        /\ t.duration = s.duration /\ t.deadline = s.deadline
    BY <2>2 DEF NodeRecord
  <2> DEFINE T == Put(node, n, t)
  <2>4. node' = T
    <3>1. PICK u : u = [s EXCEPT !.cursor = 0, !.prepared = b]
      OBVIOUS
    <3>2. u.counter = s.counter /\ [u EXCEPT !.counter = k] = t
      BY <2>2, <3>1 DEF NodeRecord
    <3>3. PICK U : U = Put(node, n, u)
      OBVIOUS
    <3>4. node' = [U EXCEPT ![n].counter = @ + 1]
      BY <1>7, <1>8, <1>11, <3>1, <3>3, Zenon DEF Put
    <3>5. U[n] = u /\ DOMAIN U = Nodes
      BY <1>3, <3>3 DEF Put, Tables
    <3>6. [U EXCEPT ![n].counter = @ + 1] = [U EXCEPT ![n] = [u EXCEPT !.counter = k]]
      BY <2>1, <3>2, <3>5, Zenon
    <3>7. [U EXCEPT ![n] = t] = T
      BY <1>3, <3>3 DEF Put, Tables
    <3> QED
      BY <3>2, <3>4, <3>6, <3>7, Zenon
  <2>5. T \in Tables /\ T[n] = t /\ \A m \in Nodes \ {n} : T[m] = node[m]
    BY <1>3, <2>3, PutFacts
  <2> HIDE DEF T
  <2>6. ~T[n].prepared
    BY <1>8, <2>3, <2>5, Zenon
  <2>7. TimerAt(T, n)
    BY <1>7, <1>9, <2>3, <2>5 DEF TimerAt
  <2>8. /\ T[n].running = node[n].running /\ T[n].branch = node[n].branch
        /\ T[n].once = node[n].once /\ T[n].cursor \in KidsOf(n) \cup {0}
    BY <1>7, <2>3, <2>5
  <2>9. /\ Effect(n, T, TellClosed(n))
        /\ \A c \in KidsOf(n) : Clean(node, c) => Clean(T, c)
    BY <1>2, <1>3, <2>5, <2>6, <2>7, <2>8, ClosedEffect
  <2>10. OffFocus(T, n)
    BY <1>3, <1>4, <1>11, <2>9 DEF OffFocus
  <2>11. UNCHANGED <<tree, cur, ret, now, result>>
    BY <1>11
  <2>12. frame[n].child \in KidsOf(n) \cup {0}
    BY <1>3
  <2> QED
    BY <1>2, <1>3, <1>11, <2>4, <2>9, <2>10, <2>11, <2>12, RunAgain
<1> QED
  BY <1>5, <1>6, <1>10, <1>11, Zenon DEF PipelineReturn

LEMMA QueueStartStep ==
  ASSUME IInv, NEW n \in Nodes, QueueStart(n)
  PROVE  IInv'
<1>1. At(n, "run") /\ Kind(n) = "CONSUME_QUEUE"
  BY DEF QueueStart
<1>2. Kind(n) \in SingleKind /\ Kind(n) # "RUN_ONCE" /\ Kind(n) \in Adapters
  BY <1>1 DEF SingleKind, Adapters
<1>3. tree \in Trees /\ cur = n /\ ret.rc = "OK" /\ Effect(n, node, host)
  BY <1>1, AtFacts
<1>4. CASE node[n].prepared /\ Call(n, First(n), "child", node, host)
  BY <1>2, <1>3, <1>4, SingleCall
<1>5. CASE Complete(n, "FAILURE")
  BY <1>3, <1>5, CompleteKeeps DEF Complete, Statuses
<1>6. ASSUME ~node[n].prepared
      PROVE  Effect(n, Opened(n), TellOpened(n)) /\ Opened(n)[n].prepared
  BY <1>2, <1>3, <1>6, OpenedEffect
<1>7. CASE ~node[n].prepared /\ RaiseAfterReset(n, Opened(n), TellOpened(n))
  BY <1>3, <1>6, <1>7, ErrorStep
<1>8. CASE ~node[n].prepared /\ Call(n, First(n), "child", Opened(n), TellOpened(n))
  BY <1>2, <1>3, <1>6, <1>8, SingleCall
<1> QED
  BY <1>4, <1>5, <1>7, <1>8 DEF QueueStart

LEMMA QueueReturnStep ==
  ASSUME IInv, NEW n \in Nodes, QueueReturn(n)
  PROVE  IInv'
<1> DEFINE R == {First(n)}
           g == TellClosed(n)
           C == [node EXCEPT ![n].prepared = FALSE]
<1>1. Resumed(n, "child") /\ Kind(n) = "CONSUME_QUEUE"
  BY DEF QueueReturn
<1>2. Kind(n) \in SingleKind /\ Kind(n) \in Adapters /\ "child" \in Waiting
  BY <1>1 DEF SingleKind, Adapters, Waiting
<1>3. /\ tree \in Trees /\ cur = n /\ ret.rc = "OK" /\ Effect(n, node, host)
      /\ node \in Tables /\ ret.status \in Statuses /\ node[n].prepared
  BY <1>1, <1>2, SingleReturn, ResumedFacts
<1>4. /\ First(n) \in KidsOf(n) /\ Kind(n) \notin Focusing /\ \A S : OffFocus(S, n)
  BY <1>2, <1>3, SingleKindFacts
<1>5. /\ C \in Tables /\ Effect(n, C, g)
  <2>1. PICK s \in NodeRecord : s = node[n]
    BY <1>3 DEF Tables
  <2>2. PICK b \in BOOLEAN : b = FALSE
    OBVIOUS
  <2>3. PICK t : t = [s EXCEPT !.prepared = b]
    OBVIOUS
  <2>4. /\ t \in NodeRecord /\ t.running = s.running /\ t.prepared = b
        /\ t.branch = s.branch /\ t.once = s.once /\ t.cursor = s.cursor
        /\ t.timer = s.timer /\ t.started = s.started
        /\ t.duration = s.duration /\ t.deadline = s.deadline
    BY <2>3 DEF NodeRecord
  <2> DEFINE T == Put(node, n, t)
  <2>5. C = T
    BY <2>1, <2>2, <2>3, Zenon DEF Put
  <2>6. T \in Tables /\ T[n] = t /\ \A m \in Nodes \ {n} : T[m] = node[m]
    BY <1>3, <2>4, PutFacts
  <2> HIDE DEF T, C
  <2>7. ~T[n].prepared
    BY <2>2, <2>4, <2>6, Zenon
  <2>8. TimerAt(T, n) /\ T[n].cursor \in KidsOf(n) \cup {0}
    <3>1. TimerAt(node, n) /\ node[n].cursor \in KidsOf(n) \cup {0}
      BY <1>3 DEF Effect, Sound, Timers, Cursors
    <3> QED
      BY <2>1, <2>4, <2>6, <3>1 DEF TimerAt
  <2>9. /\ T[n].running = node[n].running /\ T[n].branch = node[n].branch
        /\ T[n].once = node[n].once
    BY <2>1, <2>4, <2>6
  <2>10. Effect(n, T, TellClosed(n))
    BY <1>2, <1>3, <2>6, <2>7, <2>8, <2>9, ClosedEffect
  <2> QED
    BY <2>5, <2>6, <2>10
<1>6. \/ Suspend(n, First(n)) \/ Complete(n, "FAILURE") \/ RaiseAfterReset(n, node, host)
      \/ Return(n, "RUNNING", [Reset(C, R, FALSE) EXCEPT ![n].cursor = 0], HostReset(g, C, R))
      \/ CompleteFrom(n, "SUCCESS", C, g)
  BY Zenon DEF QueueReturn
<1>7. R \subseteq KidsOf(n)
  BY <1>4
<1> HIDE DEF R, C, g
<1>8. CASE Suspend(n, First(n))
  <2>1. Return(n, "RUNNING", [node EXCEPT ![n].cursor = First(n)], host)
    BY <1>8 DEF Suspend
  <2> QED
    BY <1>3, <1>4, <2>1, SuspendKeeps
<1>9. CASE Complete(n, "FAILURE")
  BY <1>3, <1>9, CompleteKeeps DEF Complete, Statuses
<1>10. CASE RaiseAfterReset(n, node, host)
  BY <1>3, <1>10, ErrorStep
<1>11. CASE Return(n, "RUNNING", [Reset(C, R, FALSE) EXCEPT ![n].cursor = 0], HostReset(g, C, R))
  <2>1. Effect(n, Reset(C, R, FALSE), HostReset(g, C, R))
    BY <1>3, <1>5, <1>7, KidsReset
  <2> DEFINE S == Reset(C, R, FALSE)
             q == HostReset(g, C, R)
  <2>2. Effect(n, S, q) /\ Return(n, "RUNNING", [S EXCEPT ![n].cursor = 0], q)
    BY <1>11, <2>1
  <2> HIDE DEF S, q
  <2>3. PICK c : c = 0
    OBVIOUS
  <2>4. Return(n, "RUNNING", [S EXCEPT ![n].cursor = c], q)
    BY <2>2, <2>3
  <2> QED
    BY <1>3, <1>4, <2>2, <2>3, <2>4, SuspendKeeps
<1>12. CASE CompleteFrom(n, "SUCCESS", C, g)
  BY <1>3, <1>5, <1>12, CompleteKeeps DEF Statuses
<1> QED
  BY <1>6, <1>8, <1>9, <1>10, <1>11, <1>12

LEMMA EntryStartStep ==
  ASSUME IInv, NEW n \in Nodes, EntryStart(n)
  PROVE  IInv'
<1>1. At(n, "run") /\ Kind(n) = "ENTRY_UPDATED"
  BY DEF EntryStart
<1>2. Kind(n) \in SingleKind /\ Kind(n) # "CONSUME_QUEUE" /\ Kind(n) # "RUN_ONCE"
      /\ Kind(n) \in Cachers
  BY <1>1 DEF SingleKind, Cachers
<1>3. /\ tree \in Trees /\ cur = n /\ ret.rc = "OK" /\ Effect(n, node, host)
      /\ node \in Tables /\ Settles(node, n)
  BY <1>1, <1>2, AtFacts
<1>4. First(n) \in KidsOf(n) /\ \A S : OffFocus(S, n)
  BY <1>2, <1>3, SingleKindFacts
<1>5. CASE RaiseAfterReset(n, node, host)
  BY <1>3, <1>5, ErrorStep
<1>6. CASE Return(n, node[n].last, node, host)
  <2>1. node[n].last \in Statuses
    BY <1>3 DEF Tables, NodeRecord
  <2> QED
    BY <1>3, <1>4, <1>6, <2>1, ReturnKeeps DEF Settles
<1>7. ASSUME NEW changed \in BOOLEAN,
             Call(n, First(n), "child",
                  [Reset(node, IF changed THEN {First(n)} ELSE {}, FALSE) EXCEPT
                     ![n].cursor = IF changed THEN 0 ELSE @, ![n].observed = TRUE],
                  HostReset(host, node, IF changed THEN {First(n)} ELSE {}))
      PROVE  IInv'
  <2> DEFINE R == IF changed THEN {First(n)} ELSE {}
             S == Reset(node, R, FALSE)
             g == HostReset(host, node, R)
  <2>1. R \subseteq KidsOf(n)
    BY <1>4
  <2>2. Call(n, First(n), "child",
             [S EXCEPT ![n].cursor = IF changed THEN 0 ELSE @, ![n].observed = TRUE], g)
    BY <1>7
  <2> HIDE DEF R
  <2>3. Effect(n, S, g) /\ S \in Tables
    BY <1>3, <2>1, KidsReset
  <2> HIDE DEF S, g
  <2>4. PICK s \in NodeRecord : s = S[n]
    BY <2>3 DEF Tables
  <2>5. PICK b \in BOOLEAN : b = TRUE
    OBVIOUS
  <2>6. PICK c : c = IF changed THEN 0 ELSE s.cursor
    OBVIOUS
  <2>7. s.cursor \in KidsOf(n) \cup {0}
    BY <2>3, <2>4 DEF Effect, Sound, Cursors
  <2>8. c \in KidsOf(n) \cup {0} /\ c \in Nat
    BY <2>4, <2>6, <2>7 DEF NodeRecord
  <2>9. PICK t : t = [s EXCEPT !.cursor = c, !.observed = b]
    OBVIOUS
  <2>10. /\ t \in NodeRecord /\ t.running = s.running /\ t.prepared = s.prepared
         /\ t.branch = s.branch /\ t.once = s.once /\ t.cursor = c
         /\ t.timer = s.timer /\ t.started = s.started
         /\ t.duration = s.duration /\ t.deadline = s.deadline
    BY <2>8, <2>9 DEF NodeRecord
  <2> DEFINE T == Put(S, n, t)
  <2>11. Call(n, First(n), "child", T, g)
    BY <2>2, <2>4, <2>5, <2>6, <2>9, Zenon DEF Put
  <2>12. T \in Tables /\ T[n] = t /\ \A m \in Nodes \ {n} : T[m] = S[m]
    BY <2>3, <2>10, PutFacts
  <2> HIDE DEF T
  <2>13. TimerAt(T, n)
    <3>1. TimerAt(S, n)
      BY <2>3 DEF Effect, Sound, Timers
    <3> QED
      BY <2>4, <2>10, <2>12, <3>1 DEF TimerAt
  <2>14. /\ T[n].running = S[n].running /\ T[n].prepared = S[n].prepared
         /\ T[n].branch = S[n].branch /\ T[n].once = S[n].once
         /\ T[n].cursor \in KidsOf(n) \cup {0}
    BY <2>4, <2>8, <2>10, <2>12
  <2>15. Effect(n, T, g)
    BY <1>3, <2>3, <2>12, <2>13, <2>14, UpdateEffect
  <2> QED
    BY <1>2, <1>3, <2>11, <2>15, SingleCall
<1>8. ASSUME NEW reported \in BOOLEAN,
             LET changed == reported \/ ~node[n].observed
                 fresh   == IF changed THEN {First(n)} ELSE {}
             IN  Call(n, First(n), "child",
                      [Reset(node, fresh, FALSE) EXCEPT
                         ![n].cursor = IF changed THEN 0 ELSE @, ![n].observed = TRUE],
                      HostReset(host, node, fresh))
      PROVE  IInv'
  <2>1. PICK changed \in BOOLEAN : changed = (reported \/ ~node[n].observed)
    BY Zenon
  <2> QED
    BY <1>7, <1>8, <2>1, Zenon
<1> QED
  BY <1>5, <1>6, <1>8, Zenon DEF EntryStart

LEMMA EntryReturnStep ==
  ASSUME IInv, NEW n \in Nodes, EntryReturn(n)
  PROVE  IInv'
<1>1. Resumed(n, "child") /\ Kind(n) = "ENTRY_UPDATED"
  BY DEF EntryReturn
<1>2. Kind(n) \in SingleKind /\ Kind(n) # "CONSUME_QUEUE"
  BY <1>1 DEF SingleKind
<1>3. /\ tree \in Trees /\ cur = n /\ ret.rc = "OK" /\ Effect(n, node, host)
      /\ ret.status \in Statuses /\ (ret.status # "RUNNING" => Clean(node, n))
  BY <1>1, <1>2, SingleReturn
<1>4. First(n) \in KidsOf(n) /\ \A S : OffFocus(S, n)
  BY <1>2, <1>3, SingleKindFacts
<1>5. PICK c : c = IF ret.status = "RUNNING" THEN First(n) ELSE 0
  OBVIOUS
<1>6. PICK T : T = SetCursor(node, n, c)
  OBVIOUS
<1>7. Return(n, ret.status, T, host)
  BY <1>5, <1>6, Zenon DEF EntryReturn, SetCursor
<1>8. c \in KidsOf(n) \/ c = 0
  BY <1>4, <1>5
<1>9. Effect(n, T, host) /\ \A m \in Nodes : Clean(node, m) => Clean(T, m)
  BY <1>3, <1>6, <1>8, CursorEffect
<1> QED
  BY <1>3, <1>4, <1>7, <1>9, ReturnKeeps

LEMMA ParallelFacts ==
  ASSUME tree \in Trees, NEW n \in Nodes, Kind(n) = "PARALLEL"
  PROVE  /\ First(n) \in KidsOf(n)
         /\ \A S : OffFocus(S, n)
         /\ \A S, label, c : CallFocus(S, n, label, c)
         /\ Kind(n) \notin Focusing /\ Kind(n) \notin Cachers
         /\ Kind(n) \notin Adapters /\ Kind(n) # "RUN_ONCE"
<1>1. First(n) \in KidsOf(n)
  BY KidCounts, FirstKid
<1>2. Kind(n) \notin Focusing /\ Kind(n) \notin Cachers /\ Kind(n) \notin Adapters
  BY DEF Focusing, Cachers, Adapters, Memory, Reactive, Guarded
<1> QED
  BY <1>1, <1>2 DEF OffFocus, CallFocus

(* The next branch, or the join. *)
LEMMA AdvanceKeeps ==
  ASSUME IInv, NEW n \in Nodes, cur = n, ret.rc = "OK", Effect(n, node, host),
         Kind(n) = "PARALLEL", NEW c \in KidsOf(n), NEW s, Advance(n, c, s)
  PROVE  IInv'
<1>1. tree \in Trees /\ frame \in [Nodes -> Frames]
  BY DEF IInv, Consistent
<1>2. \A S : OffFocus(S, n)
  BY <1>1, ParallelFacts
<1>3. Kind(n) \notin Cachers
  BY <1>1, ParallelFacts
<1>4. NextSibling(n, c) \in KidsOf(n) \cup {0}
  BY <1>1, Siblings
<1>5. PICK w \in Frames : w = frame[n]
  BY <1>1
<1>6. PICK a \in BOOLEAN : a = (w.anyFailure \/ s = "FAILURE")
  BY Zenon
<1>7. PICK b \in BOOLEAN : b = (w.anyRunning \/ s = "RUNNING")
  BY Zenon
<1>8. PICK k : k = NextSibling(n, c)
  OBVIOUS
<1>9. PICK l \in {"run", "join"} : l = IF k = 0 THEN "join" ELSE "run"
  OBVIOUS
<1>10. PICK e : e = [at |-> l, child |-> k, anyFailure |-> a, anyRunning |-> b]
  OBVIOUS
<1>11. k \in Nat
  BY <1>1, <1>4, <1>8, KidFacts
<1>12. e \in Frames /\ e.at = l /\ e.child = k
  BY <1>9, <1>10, <1>11 DEF Frames, Labels
<1>13. frame' = [frame EXCEPT ![n] = e]
  BY <1>5, <1>6, <1>7, <1>8, <1>9, <1>10, Zenon DEF Advance
<1>14. /\ frame' \in [Nodes -> Frames] /\ frame'[n] = e
       /\ \A m \in Nodes \ {n} : frame'[m] = frame[m]
  BY <1>1, <1>12, <1>13
<1>15. node' = node /\ host' = host /\ UNCHANGED <<tree, cur, ret, now, result>>
  BY DEF Advance
<1>16. e.at \in {"run", "join", "finish"} /\ e.at # "finish" /\ e.child \in KidsOf(n) \cup {0}
  BY <1>4, <1>8, <1>9, <1>12
<1> QED
  BY <1>2, <1>3, <1>12, <1>14, <1>15, <1>16, LocalKeeps

(* parallel_enter marks the branch. *)
Marked(c, hooks) == [node EXCEPT ![c].branch = @ \/ hooks]
TellMarked(c, hooks) ==
  [host EXCEPT !.branch[c] = @ + Bit(hooks /\ ~node[c].branch)]

LEMMA MarkedEffect ==
  ASSUME IInv, NEW n \in Nodes, Effect(n, node, host), NEW c \in KidsOf(n),
         NEW hooks \in BOOLEAN, hooks => n \in tree.hooks
  PROVE  Effect(n, Marked(c, hooks), TellMarked(c, hooks))
<1> DEFINE h == TellMarked(c, hooks)
<1>1. /\ tree \in Trees /\ node \in Tables /\ host \in Histories /\ c \in Nodes /\ Parent(c) = n
  BY KidFacts DEF IInv, Consistent, Sound
<1>2. MirrorAt(node, host, c) /\ TimerAt(node, c)
  BY <1>1 DEF Effect, Sound, Mirror, Timers
<1>3. PICK s \in NodeRecord : s = node[c]
  BY <1>1 DEF Tables
<1>4. PICK b \in BOOLEAN : b = (s.branch \/ hooks)
  BY Zenon
<1>5. PICK t : t = [s EXCEPT !.branch = b]
  OBVIOUS
<1>6. /\ t \in NodeRecord /\ t.running = s.running /\ t.prepared = s.prepared
      /\ t.branch = b /\ t.once = s.once /\ t.cursor = s.cursor /\ t.last = s.last
      /\ t.timer = s.timer /\ t.started = s.started
      /\ t.duration = s.duration /\ t.deadline = s.deadline
  BY <1>5 DEF NodeRecord
<1> DEFINE T == Put(node, c, t)
<1>7. Marked(c, hooks) = T
  BY <1>3, <1>4, <1>5, Zenon DEF Marked, Put
<1>8. T \in Tables /\ T[c] = t /\ \A m \in Nodes \ {c} : T[m] = node[m]
  BY <1>1, <1>6, PutFacts
<1>9. PICK v : v = Bit(hooks /\ ~node[c].branch)
  OBVIOUS
<1>10. v \in {0, 1} /\ Bit(b) = host.branch[c] + v
  <2>1. host.branch[c] = Bit(s.branch)
    BY <1>2, <1>3 DEF MirrorAt
  <2>2. v = Bit(hooks /\ ~s.branch)
    BY <1>3, <1>9
  <2>3. s.branch \in BOOLEAN
    BY DEF NodeRecord
  <2>4. CASE s.branch
    <3>1. b
      BY <1>4, <2>4, Zenon
    <3> QED
      BY <2>1, <2>2, <2>4, <3>1 DEF Bit
  <2>5. CASE ~s.branch
    <3>1. b <=> hooks
      BY <1>4, <2>5, Zenon
    <3> QED
      BY <2>1, <2>2, <2>5, <3>1 DEF Bit
  <2> QED
    BY <2>4, <2>5
<1>11. h = [host EXCEPT !.branch[c] = @ + v]
  BY <1>9 DEF TellMarked
<1>12. /\ h \in Histories /\ h.branch[c] = host.branch[c] + v
       /\ \A m \in Nodes \ {c} : h.branch[m] = host.branch[m]
       /\ h.active = host.active /\ h.context = host.context /\ h.completed = host.completed
  BY <1>1, <1>10, <1>11 DEF Histories
<1> HIDE DEF T, h
<1>13. TimerAt(T, c)
  BY <1>2, <1>3, <1>6, <1>8 DEF TimerAt
<1>14. T[c].branch => n \in tree.hooks
  <2>1. s.branch => n \in tree.hooks
    BY <1>1, <1>2, <1>3 DEF MirrorAt
  <2>2. b => s.branch \/ hooks
    BY <1>4, Zenon
  <2> QED
    BY <1>6, <1>8, <2>1, <2>2
<1>15. h.branch[c] = Bit(T[c].branch)
  BY <1>6, <1>8, <1>10, <1>12
<1>16. /\ T[c].running = node[c].running /\ T[c].prepared = node[c].prepared
       /\ T[c].last = node[c].last /\ T[c].cursor = node[c].cursor /\ T[c].once = node[c].once
  BY <1>3, <1>6, <1>8
<1>17. Effect(n, T, h)
  BY <1>1, <1>8, <1>12, <1>13, <1>14, <1>15, <1>16, MarkEffect
<1> QED
  BY <1>7, <1>17 DEF h

LEMMA ParallelEnterStep ==
  ASSUME IInv, NEW n \in Nodes, ParallelEnter(n)
  PROVE  IInv'
<1>1. At(n, "run") /\ Kind(n) = "PARALLEL"
  BY DEF ParallelEnter
<1>2. /\ tree \in Trees /\ cur = n /\ ret.rc = "OK" /\ Effect(n, node, host)
      /\ frame[n].child \in KidsOf(n) \cup {0}
  BY <1>1, AtFacts
<1>3. PICK c : c = IF frame[n].child = 0 THEN First(n) ELSE frame[n].child
  OBVIOUS
<1>4. First(n) \in KidsOf(n) /\ Kind(n) \notin Adapters /\ Kind(n) # "RUN_ONCE"
      /\ "child" \in Waiting
  BY <1>1, <1>2, ParallelFacts DEF Waiting
<1>5. c \in KidsOf(n)
  BY <1>2, <1>3, <1>4
<1>6. PICK hooks \in BOOLEAN : hooks = (n \in tree.hooks)
  <2>1. (n \in tree.hooks) \in BOOLEAN
    OBVIOUS
  <2> QED
    BY <2>1, Zenon
<1> DEFINE S == Marked(c, hooks)
           h == TellMarked(c, hooks)
<1>9. \/ Advance(n, c, node[c].last)
      \/ Call(n, c, "child", S, h)
      \/ RaiseAfterReset(n, S, h)
  BY <1>3, <1>6, Zenon DEF ParallelEnter, Marked, TellMarked
<1>10. hooks => n \in tree.hooks
  BY <1>6, Zenon
<1>11. Effect(n, S, h)
  BY <1>2, <1>5, <1>10, MarkedEffect
<1> HIDE DEF S, h
<1>12. CASE Advance(n, c, node[c].last)
  BY <1>1, <1>2, <1>5, <1>12, AdvanceKeeps
<1>13. CASE Call(n, c, "child", S, h)
  <2>1. CallFocus(S, n, "child", c)
    BY <1>1, <1>2, ParallelFacts
  <2> QED
    BY <1>2, <1>4, <1>5, <1>11, <1>13, <2>1, CallKeeps
<1>14. CASE RaiseAfterReset(n, S, h)
  BY <1>2, <1>11, <1>14, ErrorStep
<1> QED
  BY <1>9, <1>12, <1>13, <1>14

LEMMA ParallelStepStep ==
  ASSUME IInv, NEW n \in Nodes, ParallelStep(n)
  PROVE  IInv'
<1>1. Resumed(n, "child") /\ Kind(n) = "PARALLEL" /\ "child" \in Waiting
  BY DEF ParallelStep, Waiting
<1>2. /\ cur = n /\ ret.rc = "OK" /\ Effect(n, node, host) /\ frame[n].child \in KidsOf(n)
  BY <1>1, ResumedFacts
<1>3. CASE Advance(n, frame[n].child, ret.status)
  BY <1>1, <1>2, <1>3, AdvanceKeeps
<1>4. CASE RaiseAfterReset(n, node, host)
  BY <1>2, <1>4, ErrorStep
<1> QED
  BY <1>3, <1>4 DEF ParallelStep

(* The frame of a Parallel moves to branch k. *)
AtBranch(w, k) == [w EXCEPT !.at = "finish", !.child = k]

LEMMA FinishFrame ==
  ASSUME IInv, NEW n \in Nodes, NEW k \in Nat
  PROVE  /\ AtBranch(frame[n], k) \in Frames /\ AtBranch(frame[n], k).at = "finish"
         /\ AtBranch(frame[n], k).child = k /\ frame \in [Nodes -> Frames]
<1>1. frame \in [Nodes -> Frames]
  BY DEF IInv, Consistent
<1> QED
  BY <1>1 DEF Frames, Labels, AtBranch

LEMMA ParallelJoinStep ==
  ASSUME IInv, NEW n \in Nodes, ParallelJoin(n)
  PROVE  IInv'
<1>1. At(n, "join")
  BY DEF ParallelJoin
<1>2. /\ tree \in Trees /\ cur = n /\ ret.rc = "OK" /\ Effect(n, node, host)
      /\ Kind(n) = "PARALLEL"
  BY <1>1, AtFacts
<1>3. CASE RaiseAfterReset(n, node, host)
  BY <1>2, <1>3, ErrorStep
<1>4. ASSUME frame' = [frame EXCEPT ![n].at = "finish", ![n].child = First(n)],
             UNCHANGED <<tree, dynamic, node, cur, ret, now, result, host>>
      PROVE  IInv'
  <2>1. First(n) \in KidsOf(n) /\ First(n) \in Nat /\ Kind(n) \notin Cachers
    BY <1>2, ParallelFacts, KidFacts
  <2> DEFINE e == AtBranch(frame[n], First(n))
  <2>4. /\ e \in Frames /\ e.at = "finish" /\ e.child = First(n)
        /\ frame \in [Nodes -> Frames]
    BY <2>1, FinishFrame
  <2>5. frame' = [frame EXCEPT ![n] = e]
    BY <1>4, Zenon DEF AtBranch
  <2> HIDE DEF e
  <2>6. /\ frame' \in [Nodes -> Frames] /\ frame'[n] = e
        /\ \A m \in Nodes \ {n} : frame'[m] = frame[m]
    BY <2>4, <2>5
  <2>7. node' = node /\ host' = host /\ UNCHANGED <<tree, cur, ret, now, result>>
    BY <1>4
  <2>8. e.at \in {"run", "join", "finish"} /\ e.at # "run" /\ e.child \in KidsOf(n)
        /\ e.child \in KidsOf(n) \cup {0}
    BY <2>1, <2>4
  <2> QED
    BY <1>2, <2>1, <2>4, <2>6, <2>7, <2>8, LocalKeeps
<1> QED
  BY <1>3, <1>4 DEF ParallelJoin

(* parallel_finish closes a branch: its marker goes when the host is told,  *)
(* and when the branch is renewed.                                          *)
Closed(c, finish, renew) == [node EXCEPT ![c].branch = @ /\ ~finish /\ ~renew]
TellFinished(c, finish) == [host EXCEPT !.branch[c] = @ - Bit(finish)]

LEMMA FinishedEffect ==
  ASSUME IInv, NEW n \in Nodes, Effect(n, node, host), NEW c \in KidsOf(n),
         NEW finish \in BOOLEAN, NEW renew \in BOOLEAN,
         finish => node[c].branch,
         renew /\ node[c].branch => finish
  PROVE  Effect(n, Closed(c, finish, renew), TellFinished(c, finish))
<1> DEFINE h == TellFinished(c, finish)
<1>1. /\ tree \in Trees /\ node \in Tables /\ host \in Histories /\ c \in Nodes /\ Parent(c) = n
  BY KidFacts DEF IInv, Consistent, Sound
<1>2. MirrorAt(node, host, c) /\ TimerAt(node, c)
  BY <1>1 DEF Effect, Sound, Mirror, Timers
<1>3. PICK s \in NodeRecord : s = node[c]
  BY <1>1 DEF Tables
<1>4. PICK b \in BOOLEAN : b = (s.branch /\ ~finish /\ ~renew)
  BY Zenon
<1>5. PICK t : t = [s EXCEPT !.branch = b]
  OBVIOUS
<1>6. /\ t \in NodeRecord /\ t.running = s.running /\ t.prepared = s.prepared
      /\ t.branch = b /\ t.once = s.once /\ t.cursor = s.cursor /\ t.last = s.last
      /\ t.timer = s.timer /\ t.started = s.started
      /\ t.duration = s.duration /\ t.deadline = s.deadline
  BY <1>5 DEF NodeRecord
<1> DEFINE T == Put(node, c, t)
<1>7. Closed(c, finish, renew) = T
  BY <1>3, <1>4, <1>5, Zenon DEF Closed, Put
<1>8. T \in Tables /\ T[c] = t /\ \A m \in Nodes \ {c} : T[m] = node[m]
  BY <1>1, <1>6, PutFacts
<1>9. PICK v : v = Bit(finish)
  OBVIOUS
<1>10. v \in {0, 1} /\ Bit(b) = host.branch[c] - v
  <2>1. host.branch[c] = Bit(s.branch)
    BY <1>2, <1>3 DEF MirrorAt
  <2>2. b <=> s.branch /\ ~finish
    <3>1. b <=> s.branch /\ ~finish /\ ~renew
      BY <1>4, Zenon
    <3> QED
      BY <1>3, <3>1, Zenon
  <2>3. finish => s.branch
    BY <1>3
  <2> QED
    BY <1>9, <2>1, <2>2, <2>3 DEF Bit
<1>11. h = [host EXCEPT !.branch[c] = @ - v]
  BY <1>9 DEF TellFinished
<1>12. /\ h \in Histories /\ h.branch[c] = host.branch[c] - v
       /\ \A m \in Nodes \ {c} : h.branch[m] = host.branch[m]
       /\ h.active = host.active /\ h.context = host.context /\ h.completed = host.completed
  BY <1>1, <1>10, <1>11 DEF Histories
<1> HIDE DEF T, h
<1>13. TimerAt(T, c)
  BY <1>2, <1>3, <1>6, <1>8 DEF TimerAt
<1>14. T[c].branch => n \in tree.hooks
  <2>1. s.branch => n \in tree.hooks
    BY <1>1, <1>2, <1>3 DEF MirrorAt
  <2>2. b => s.branch
    BY <1>4, Zenon
  <2> QED
    BY <1>6, <1>8, <2>1, <2>2
<1>15. h.branch[c] = Bit(T[c].branch)
  BY <1>6, <1>8, <1>10, <1>12
<1>16. /\ T[c].running = node[c].running /\ T[c].prepared = node[c].prepared
       /\ T[c].last = node[c].last /\ T[c].cursor = node[c].cursor /\ T[c].once = node[c].once
  BY <1>3, <1>6, <1>8
<1>17. Effect(n, T, h)
  BY <1>1, <1>8, <1>12, <1>13, <1>14, <1>15, <1>16, MarkEffect
<1> QED
  BY <1>7, <1>17 DEF h

LEMMA ParallelFinishStep ==
  ASSUME IInv, NEW n \in Nodes, ParallelFinish(n)
  PROVE  IInv'
<1>1. At(n, "finish")
  BY DEF ParallelFinish
<1>2. /\ tree \in Trees /\ cur = n /\ ret.rc = "OK" /\ Effect(n, node, host)
      /\ Kind(n) = "PARALLEL" /\ frame[n].child \in KidsOf(n)
  BY <1>1, AtFacts
<1>3. PICK c \in KidsOf(n) : c = frame[n].child
  BY <1>2
<1>4. PICK finish \in BOOLEAN : finish = (n \in tree.hooks /\ node[c].branch /\ Settled(c))
  BY Zenon
<1>5. PICK renew \in BOOLEAN : renew = (Aggregate(n) = "RUNNING" /\ Settled(c))
  BY Zenon
<1> DEFINE C == Closed(c, finish, renew)
           g == TellFinished(c, finish)
           R == IF renew THEN {c} ELSE {}
           S == Reset(C, R, TRUE)
           h == HostReset(g, C, R)
           k == NextSibling(n, c)
<1>6. \/ RaiseAfterReset(n, node, host)
      \/ /\ k # 0 /\ node' = S /\ host' = h
         /\ frame' = [frame EXCEPT ![n].child = k]
         /\ UNCHANGED <<tree, dynamic, cur, ret, now, result>>
      \/ Return(n, "RUNNING", S, h)
      \/ CompleteFrom(n, Aggregate(n), S, h)
  BY <1>3, <1>4, <1>5, Zenon DEF ParallelFinish, Closed, TellFinished
<1>7. Effect(n, C, g)
  <2>1. node[c].branch => n \in tree.hooks
    <3>1. MirrorAt(node, host, c) /\ Parent(c) = n
      BY <1>2, KidFacts DEF Effect, Sound, Mirror
    <3> QED
      BY <3>1 DEF MirrorAt
  <2>2. /\ finish => node[c].branch
        /\ renew /\ node[c].branch => finish
    BY <1>4, <1>5, <2>1, Zenon
  <2> QED
    BY <1>2, <2>2, FinishedEffect
<1>8. R \subseteq KidsOf(n)
  OBVIOUS
<1>9. k \in KidsOf(n) \cup {0} /\ k \in Nat
  <2>1. k \in KidsOf(n) \cup {0}
    BY <1>2, Siblings
  <2> QED
    BY <1>2, <2>1, KidFacts
<1>10. Kind(n) \notin Cachers /\ \A T : OffFocus(T, n)
  BY <1>2, ParallelFacts
<1> HIDE DEF C, g, R
<1>11. PICK clear \in BOOLEAN : clear = TRUE
  OBVIOUS
<1>12. Effect(n, Reset(C, R, clear), HostReset(g, C, R))
  BY <1>2, <1>7, <1>8, KidsReset
<1>13. Effect(n, S, h)
  BY <1>11, <1>12, Zenon
<1> HIDE DEF S, h, k
<1>14. CASE RaiseAfterReset(n, node, host)
  BY <1>2, <1>14, ErrorStep
<1>15. ASSUME k # 0, node' = S, host' = h, frame' = [frame EXCEPT ![n].child = k],
              UNCHANGED <<tree, dynamic, cur, ret, now, result>>
       PROVE  IInv'
  <2> DEFINE e == [frame[n] EXCEPT !.child = k]
  <2>1. frame \in [Nodes -> Frames] /\ frame[n].at = "finish"
    BY <1>1 DEF IInv, Consistent, At
  <2>2. e \in Frames /\ e.at = "finish" /\ e.child = k
    BY <1>9, <2>1 DEF Frames
  <2>3. frame' = [frame EXCEPT ![n] = e]
    BY <1>15, Zenon
  <2> HIDE DEF e
  <2>4. /\ frame' \in [Nodes -> Frames] /\ frame'[n] = e
        /\ \A m \in Nodes \ {n} : frame'[m] = frame[m]
    BY <2>1, <2>2, <2>3
  <2>5. UNCHANGED <<tree, cur, ret, now, result>>
    BY <1>15
  <2>6. e.at \in {"run", "join", "finish"} /\ e.at # "run" /\ e.child \in KidsOf(n)
        /\ e.child \in KidsOf(n) \cup {0}
    BY <1>9, <1>15, <2>2
  <2> QED
    BY <1>2, <1>10, <1>13, <1>15, <2>2, <2>4, <2>5, <2>6, LocalKeeps
<1>16. CASE Return(n, "RUNNING", S, h)
  BY <1>2, <1>10, <1>13, <1>16, ReturnKeeps DEF Statuses
<1>17. CASE CompleteFrom(n, Aggregate(n), S, h)
  <2>1. Aggregate(n) \in Statuses
    BY DEF Aggregate, Statuses
  <2> QED
    BY <1>2, <1>13, <1>17, <2>1, CompleteKeeps
<1> QED
  BY <1>6, <1>14, <1>15, <1>16, <1>17

(***************************************************************************)
(* The API calls.                                                          *)
(***************************************************************************)

LEMMA FreshFields ==
  ASSUME NEW l \in Nat, NEW d \in Nat
  PROVE  /\ FreshNode(l, d) \in NodeRecord
         /\ FreshNode(l, d).cursor = 0 /\ FreshNode(l, d).limit = l
         /\ FreshNode(l, d).duration = d /\ ~FreshNode(l, d).timer
         /\ ~FreshNode(l, d).running /\ ~FreshNode(l, d).prepared
         /\ ~FreshNode(l, d).branch /\ ~FreshNode(l, d).once
<1>1. PICK b \in BOOLEAN : b = FALSE
  OBVIOUS
<1>2. PICK t : t = [last |-> "FAILURE", cursor |-> 0, counter |-> 0, limit |-> l,
                    duration |-> d, deadline |-> 0, started |-> 0, timer |-> b,
                    elapsed |-> b, evaluated |-> b, once |-> b, observed |-> b,
                    prepared |-> b, branch |-> b, running |-> b]
  OBVIOUS
<1>3. /\ t \in NodeRecord /\ t.cursor = 0 /\ t.limit = l /\ t.duration = d /\ t.timer = b
      /\ t.running = b /\ t.prepared = b /\ t.branch = b /\ t.once = b
  BY <1>2 DEF NodeRecord, Statuses
<1>4. FreshNode(l, d) = t
  BY <1>1, <1>2, Zenon DEF FreshNode
<1> QED
  BY <1>1, <1>3, <1>4, Zenon

(* A reset that clears the caches too leaves a node as it was built. *)
LEMMA ClearedAsBuilt ==
  ASSUME NEW S \in Tables, NEW R, NEW m \in Nodes, NEW s, s = ClearedNode(S, R, m, TRUE),
         ~s.branch, ~s.running
  PROVE  AsBuilt(s)
<1>1. PICK o \in NodeRecord : o = S[m]
  BY DEF Tables
<1>2. PICK b \in BOOLEAN : b = FALSE
  OBVIOUS
<1>3. PICK p \in BOOLEAN : p = (o.branch /\ ~BranchReset(R, m))
  BY Zenon
<1>4. PICK q \in BOOLEAN : q = StillRunning(o, m)
  BY Zenon DEF StillRunning
<1>5. KeepsOnce(o, m, TRUE) = b /\ KeepsEntry(o, m, TRUE) = b
  BY <1>2, Zenon DEF KeepsOnce, KeepsEntry
<1>6. PICK t : t = [o EXCEPT !.last = "FAILURE",
                !.cursor = 0, !.counter = 0, !.deadline = 0, !.started = 0,
                !.timer = b, !.elapsed = b, !.evaluated = b,
                !.once = b, !.observed = b, !.prepared = b,
                !.branch = p, !.running = q]
  OBVIOUS
<1>7. s = t
  BY <1>1, <1>2, <1>3, <1>4, <1>5, <1>6, Zenon DEF ClearedNode
<1>8. t.branch = p /\ t.running = q
  BY <1>6 DEF NodeRecord
<1>9. p = b /\ q = b
  BY <1>2, <1>7, <1>8, Zenon
<1>10. PICK u : u = [o EXCEPT !.last = "FAILURE",
                !.cursor = 0, !.counter = 0, !.deadline = 0, !.started = 0,
                !.timer = b, !.elapsed = b, !.evaluated = b,
                !.once = b, !.observed = b, !.prepared = b,
                !.branch = b, !.running = b]
  OBVIOUS
<1>11. s = u
  BY <1>6, <1>7, <1>9, <1>10
<1>12. u = [last |-> "FAILURE", cursor |-> 0, counter |-> 0, limit |-> u.limit,
            duration |-> u.duration, deadline |-> 0, started |-> 0, timer |-> b,
            elapsed |-> b, evaluated |-> b, once |-> b, observed |-> b,
            prepared |-> b, branch |-> b, running |-> b]
  BY <1>10, ZenonT(60) DEF NodeRecord
<1> QED
  BY <1>2, <1>11, <1>12, Zenon DEF AsBuilt, FreshNode

LEMMA ForgetFields ==
  ASSUME NEW h \in Histories, NEW n
  PROVE  /\ Forget(h, n) \in Histories
         /\ Forget(h, n).active = h.active /\ Forget(h, n).context = h.context
         /\ Forget(h, n).branch = h.branch
         /\ \A m \in Nodes : Forget(h, n).completed[m] = IF m \in Sub(n) THEN 0 ELSE h.completed[m]
<1> DEFINE k == [m \in Nodes |-> IF m \in Sub(n) THEN 0 ELSE h.completed[m]]
<1>1. k \in [Nodes -> 0..2]
  BY DEF Histories
<1>2. \A m \in Nodes : k[m] = IF m \in Sub(n) THEN 0 ELSE h.completed[m]
  OBVIOUS
<1>3. Forget(h, n) = [h EXCEPT !.completed = k]
  BY Zenon DEF Forget
<1> HIDE DEF k
<1> QED
  BY <1>1, <1>2, <1>3 DEF Histories

(* The explicit reset of a subtree, caches and completions included. *)
Reborn(S, n) == Reset(S, {n}, TRUE)
TellReborn(h, S, n) == Forget(HostReset(h, S, {n}), n)

LEMMA RebornFacts ==
  ASSUME tree \in Trees, NEW n \in Nodes, NEW S, NEW h, Sound(S, h)
  PROVE  /\ Sound(Reborn(S, n), TellReborn(h, S, n))
         /\ \A m \in Nodes : /\ Settles(S, m) => Settles(Reborn(S, n), m)
                             /\ OffFocus(S, m) => OffFocus(Reborn(S, n), m)
                             /\ Clean(S, m) => Clean(Reborn(S, n), m)
         /\ Clean(Reborn(S, n), n)
         /\ \A m \in Nodes \ Sub(n) : Reborn(S, n)[m] = S[m]
         /\ \A m \in Sub(n) : /\ ~Reborn(S, n)[m].branch => AsBuilt(Reborn(S, n)[m])
                              /\ Reborn(S, n)[m].branch => S[m].branch /\ m = n
                              /\ TellReborn(h, S, n).completed[m] = 0
                              /\ ~Reborn(S, n)[m].timer
<1> DEFINE R == {n}
<1>1. R \in SUBSET Nodes /\ Separate(R) /\ Under(R) = Sub(n) /\ n \in R /\ n \in Sub(n)
      /\ \A m \in R : m = n
  BY Singleton, TreeFacts
<1>2. PICK clear \in BOOLEAN : clear = TRUE
  OBVIOUS
<1> HIDE DEF R
<1> DEFINE T == Reset(S, R, clear)
           q == HostReset(h, S, R)
           g == Forget(q, n)
<1>3. Reborn(S, n) = T /\ TellReborn(h, S, n) = g
  BY <1>2, Zenon DEF Reborn, TellReborn, R
<1>4. S \in Tables /\ h \in Histories /\ Mirror(S, h)
  BY DEF Sound
<1>5. T \in Tables /\ q \in Histories /\ Mirror(T, q)
  BY <1>1, <1>4, ResetFields, HostResetFields, ResetMirror
<1>6. \A m \in Nodes \ Sub(n) : T[m] = S[m]
  BY <1>1, <1>4, ResetFields
<1>7. \A m \in Under(R) :
        /\ T[m].cursor = 0 /\ ~T[m].timer
        /\ T[m].once <=> ~clear /\ Kind(m) = "RUN_ONCE" /\ S[m].once
        /\ T[m].running <=> S[m].running /\ Kind(m) # "LEAF"
        /\ T[m].branch <=> S[m].branch /\ ~BranchReset(R, m)
  BY <1>1, <1>4, ResetFields
<1>8. q.completed = h.completed
  BY <1>4, HostResetFields
<1>9. /\ \A m \in Under(R) : Clean(T, m)
      /\ \A m \in Nodes : Clean(S, m) => Clean(T, m)
  BY <1>1, <1>4, ResetCleans
<1>10. \A m \in Nodes : /\ Settles(S, m) => Settles(T, m)
                        /\ OffFocus(S, m) => OffFocus(T, m)
  BY <1>1, ResetQuiet
<1>11. \A m \in Sub(n) : m \in Nodes /\ T[m] = ClearedNode(S, R, m, clear)
  BY <1>1, TreeFacts DEF Reset
<1> HIDE DEF T, q
<1>12. /\ g \in Histories /\ g.active = q.active /\ g.context = q.context /\ g.branch = q.branch
       /\ \A m \in Nodes : g.completed[m] = IF m \in Sub(n) THEN 0 ELSE q.completed[m]
  BY <1>5, ForgetFields
<1> HIDE DEF g
<1>13. Mirror(T, g)
  BY <1>5, <1>12 DEF Mirror, MirrorAt
<1>14. Cursors(T)
  BY <1>1, <1>6, <1>7 DEF Sound, Cursors
<1>15. Timers(T)
  BY <1>1, <1>6, <1>7 DEF Sound, Timers, TimerAt
<1>16. Onces(T, g)
  <2> SUFFICES ASSUME NEW m \in Nodes
               PROVE  OnceAt(T, g, m)
    BY DEF Onces
  <2>1. OnceAt(S, h, m)
    BY DEF Sound, Onces
  <2>2. CASE m \in Sub(n)
    <3>1. ~T[m].once
      BY <1>1, <1>2, <1>7, <2>2
    <3>2. g.completed[m] = 0
      BY <1>12, <2>2
    <3> QED
      BY <3>1, <3>2 DEF OnceAt, Bit
  <2>3. CASE m \notin Sub(n)
    BY <1>6, <1>8, <1>12, <2>1, <2>3 DEF OnceAt, Bit
  <2> QED
    BY <2>2, <2>3
<1>17. Sound(T, g)
  BY <1>5, <1>12, <1>13, <1>14, <1>15, <1>16 DEF Sound
<1>18. ASSUME NEW m \in Sub(n)
       PROVE  /\ ~T[m].branch => AsBuilt(T[m])
              /\ T[m].branch => S[m].branch /\ m = n
              /\ g.completed[m] = 0
              /\ ~T[m].timer
  <2>1. MirrorAt(S, h, m) /\ m \in Nodes /\ m \in Under(R)
    BY <1>1, <1>4, <1>11 DEF Mirror
  <2>2. ~T[m].running
    BY <1>7, <2>1 DEF MirrorAt
  <2>3. ~T[m].branch => AsBuilt(T[m])
    <3>1. T[m] = ClearedNode(S, R, m, TRUE)
      BY <1>2, <1>11, Zenon
    <3> QED
      BY <1>4, <2>1, <2>2, <3>1, ClearedAsBuilt
  <2>4. T[m].branch => S[m].branch /\ ~BranchReset(R, m)
    BY <1>7, <2>1
  <2>5. S[m].branch => Kind(Parent(m)) = "PARALLEL"
    BY <2>1, TreeFacts DEF MirrorAt
  <2>6. T[m].branch => S[m].branch /\ m = n
    BY <1>1, <2>1, <2>4, <2>5 DEF BranchReset
  <2> QED
    BY <1>7, <1>12, <2>1, <2>3, <2>6
<1> QED
  BY <1>1, <1>3, <1>6, <1>9, <1>10, <1>17, <1>18

(* Between API calls no frame is open. *)
LEMMA IdleFacts ==
  ASSUME IInv, cur = 0
  PROVE  /\ tree \in Trees /\ Sound(node, host) /\ frame \in [Nodes -> Frames]
         /\ ret \in Returns /\ ret.rc = "OK" /\ result \in Outcomes
         /\ now \in Nat /\ now \in 0..MaxNow /\ now <= now
         /\ \A m \in Nodes : frame[m].at = "off" /\ Settles(node, m) /\ OffFocus(node, m)
         /\ Between(node, host, 0, result)
<1>1. /\ tree \in Trees /\ Sound(node, host) /\ frame \in [Nodes -> Frames]
      /\ ret \in Returns /\ result \in Outcomes /\ now \in Nat /\ now \in 0..MaxNow
      /\ Path(frame, cur) /\ Returned(node, frame, cur, ret) /\ SettledOff(node, frame, ret)
      /\ Focus(node, frame, ret) /\ Between(node, host, 0, result)
  BY BoundsAssumption DEF IInv, Consistent
<1>2. ret.rc = "OK"
  BY <1>1 DEF Returned, Returns
<1>3. \A m \in Nodes : frame[m].at = "off"
  BY <1>1 DEF Path
<1>4. \A m \in Nodes : Settles(node, m) /\ OffFocus(node, m)
  BY <1>1, <1>2, <1>3 DEF SettledOff, Focus
<1> QED
  BY <1>1, <1>2, <1>3, <1>4

LEMMA IdleKeeps ==
  ASSUME tree \in Trees, NEW S, NEW h, Sound(S, h), NEW f \in [Nodes -> Frames],
         NEW r \in Returns, r.rc = "OK", NEW res \in Outcomes,
         \A m \in Nodes : f[m].at = "off" /\ Settles(S, m) /\ OffFocus(S, m),
         Between(S, h, 0, res)
  PROVE  Consistent(S, h, f, 0, r, res)
<1>1. Path(f, 0) /\ Locals(S, f) /\ Returned(S, f, 0, r)
  BY DEF Path, Locals, Returned, Waiting
<1>2. SettledOff(S, f, r) /\ Focus(S, f, r)
  BY DEF SettledOff, Focus, Waiting
<1> QED
  BY <1>1, <1>2 DEF Consistent

(* The constructors. *)
LEMMA BuiltSound ==
  ASSUME tree \in Trees, NEW h \in Histories,
         \A m \in Nodes : /\ h.active[m] = 0 /\ h.context[m] = 0
                          /\ h.branch[m] = 0 /\ h.completed[m] = 0
  PROVE  /\ Sound(BuiltNodes, h)
         /\ \A m \in Nodes : /\ AsBuilt(BuiltNodes[m]) /\ Clean(BuiltNodes, m)
                             /\ Settles(BuiltNodes, m) /\ OffFocus(BuiltNodes, m)
<1> DEFINE S == BuiltNodes
<1>1. ASSUME NEW m \in Nodes
      PROVE  /\ S[m] = FreshNode(tree.limit[m], tree.duration[m])
             /\ S[m] \in NodeRecord /\ S[m].cursor = 0 /\ ~S[m].timer
             /\ S[m].limit = tree.limit[m] /\ S[m].duration = tree.duration[m]
             /\ ~S[m].running /\ ~S[m].prepared /\ ~S[m].branch /\ ~S[m].once
  <2>1. tree.limit[m] \in Nat /\ tree.duration[m] \in Nat
    BY TreeFacts
  <2>2. S[m] = FreshNode(tree.limit[m], tree.duration[m])
    BY DEF BuiltNodes
  <2> QED
    BY <2>1, <2>2, FreshFields
<1>2. S \in Tables
  <2>1. \A m \in Nodes : FreshNode(tree.limit[m], tree.duration[m]) \in NodeRecord
    BY <1>1
  <2> QED
    BY <2>1 DEF BuiltNodes, Tables
<1>3. \A m \in Nodes : AsBuilt(S[m])
  BY <1>1 DEF AsBuilt
<1> HIDE DEF S
<1>4. Cursors(S) /\ Timers(S)
  BY <1>1 DEF Cursors, Timers, TimerAt
<1>5. Mirror(S, h)
  BY <1>1 DEF Mirror, MirrorAt, Bit
<1>6. Onces(S, h)
  BY <1>1 DEF Onces, OnceAt, Bit
<1>7. \A m \in Nodes : Clean(S, m)
  <2>1. \A m \in Nodes : \A k \in Sub(m) : k \in Nodes
    BY TreeFacts
  <2> QED
    BY <1>1, <2>1 DEF Clean, Still
<1>8. \A m \in Nodes : Settles(S, m) /\ OffFocus(S, m)
  BY <1>7, CleanKids DEF Settles
<1> QED
  BY <1>2, <1>3, <1>4, <1>5, <1>6, <1>7, <1>8 DEF Sound, S

LEMMA InitIInv ==
  ASSUME Init
  PROVE  IInv
<1>1. tree \in Trees /\ 1 \in Nodes
  BY TreeFacts DEF Init
<1> DEFINE z == [m \in Nodes |-> 0]
<1>2. z \in [Nodes -> Int] /\ z \in [Nodes -> 0..2] /\ \A m \in Nodes : z[m] = 0
  OBVIOUS
<1>3. host = [active |-> z, context |-> z, branch |-> z, completed |-> z]
  BY Zenon DEF Init, NothingTold
<1> HIDE DEF z
<1>4. /\ host \in Histories
      /\ \A m \in Nodes : /\ host.active[m] = 0 /\ host.context[m] = 0
                          /\ host.branch[m] = 0 /\ host.completed[m] = 0
  BY <1>2, <1>3 DEF Histories
<1>5. node = BuiltNodes
  BY DEF Init
<1>6. /\ Sound(node, host)
      /\ \A m \in Nodes : AsBuilt(node[m]) /\ Clean(node, m) /\ Settles(node, m) /\ OffFocus(node, m)
  BY <1>1, <1>4, <1>5, BuiltSound
<1>7. Off \in Frames /\ Off.at = "off"
  BY DEF Off, Frames, Labels
<1>8. frame \in [Nodes -> Frames] /\ \A m \in Nodes : frame[m].at = "off"
  BY <1>7 DEF Init
<1>9. ret \in Returns /\ ret.rc = "OK" /\ result = "NONE" /\ result \in Outcomes
  BY DEF Init, Returns, NoReturn, Statuses, Outcomes
<1>10. Between(node, host, 0, result)
  BY <1>1, <1>6, <1>9 DEF Between
<1>11. Consistent(node, host, frame, 0, ret, result)
  BY <1>1, <1>6, <1>8, <1>9, <1>10, IdleKeeps
<1>12. cur = 0 /\ now \in 0..MaxNow
  BY BoundsAssumption DEF Init
<1> QED
  BY <1>1, <1>11, <1>12 DEF IInv

(* A new node table and outcome between two calls. *)
LEMMA IdleStep ==
  ASSUME IInv, NEW S, NEW h, Sound(S, h), NEW res \in Outcomes,
         \A m \in Nodes : Settles(S, m) /\ OffFocus(S, m), Between(S, h, 0, res),
         cur' = 0, ret'.rc = "OK", ret' \in Returns, frame' \in [Nodes -> Frames],
         \A m \in Nodes : frame'[m].at = "off",
         node' = S, host' = h, result' = res, tree' = tree, now' = now
  PROVE  IInv'
<1>1. tree \in Trees /\ now \in Nat /\ now' \in 0..MaxNow /\ now <= now'
  BY BoundsAssumption DEF IInv
<1>2. Consistent(S, h, frame', 0, ret', res)
  BY <1>1, IdleKeeps
<1>3. Consistent(node', host', frame', cur', ret', result')
  BY <1>2
<1> QED
  BY <1>1, <1>3, Carry

LEMMA TickTreeStep ==
  ASSUME IInv, TickTree
  PROVE  IInv'
<1> DEFINE T == Entered(node, 1)
           e == EntryFrame(1)
           f == [frame EXCEPT ![1] = e]
<1>1. /\ cur = 0 /\ node' = T /\ frame' = f /\ cur' = 1 /\ result' = "NONE"
      /\ UNCHANGED <<tree, ret, now, host>>
  BY DEF TickTree, Busy
<1>2. /\ tree \in Trees /\ Sound(node, host) /\ frame \in [Nodes -> Frames]
      /\ ret \in Returns /\ ret.rc = "OK" /\ now \in Nat /\ now \in 0..MaxNow
      /\ \A m \in Nodes : frame[m].at = "off" /\ Settles(node, m) /\ OffFocus(node, m)
  BY <1>1, IdleFacts
<1>3. 1 \in Nodes /\ Parent(1) = 0 /\ \A m \in Nodes : m \in Sub(m)
  BY <1>2, TreeFacts
<1>4. node \in Tables
  BY <1>2 DEF Sound
<1>5. /\ T \in Tables
      /\ \A m \in Nodes :
           /\ T[m].running = node[m].running /\ T[m].prepared = node[m].prepared
           /\ T[m].branch = node[m].branch /\ T[m].once = node[m].once
           /\ T[m].last = node[m].last /\ T[m].cursor = node[m].cursor
           /\ T[m].timer = node[m].timer /\ T[m].started = node[m].started
           /\ T[m].duration = node[m].duration /\ T[m].deadline = node[m].deadline
      /\ \A m \in Nodes : Clean(node, m) => Clean(T, m)
  BY <1>2, <1>3, <1>4, EnteredFields
<1>6. e \in Frames /\ e.at \in {"enter", "run"} /\ e.child = 0
  BY DEF EntryFrame, Off, Frames, Labels
<1> HIDE DEF T, e
<1>7. f \in [Nodes -> Frames] /\ f[1] = e /\ \A m \in Nodes \ {1} : f[m] = frame[m]
  BY <1>2, <1>3, <1>6
<1> HIDE DEF f
<1>8. Cursors(T) /\ Timers(T)
  BY <1>2, <1>5 DEF Sound, Cursors, Timers, TimerAt
<1>9. Mirror(T, host)
  BY <1>2, <1>5 DEF Sound, Mirror, MirrorAt
<1>10. Onces(T, host)
  BY <1>2, <1>5 DEF Sound, Onces, OnceAt
<1>11. Sound(T, host)
  BY <1>2, <1>5, <1>8, <1>9, <1>10 DEF Sound
<1>12. \A m \in Nodes : Settles(T, m) /\ OffFocus(T, m)
  <2>1. \A m \in Nodes : \A c \in KidsOf(m) : c \in Nodes
    BY <1>2, KidFacts
  <2> QED
    BY <1>2, <1>5, <2>1 DEF Settles, OffFocus
<1>13. \A m \in Nodes \ {1} : f[m].at = "off"
  BY <1>2, <1>7
<1>14. Path(f, 1)
  BY <1>3, <1>6, <1>7, <1>13 DEF Path
<1>15. Locals(T, f)
  BY <1>6, <1>7, <1>13 DEF Locals, Waiting
<1>16. Returned(T, f, 1, ret)
  BY <1>2, <1>6, <1>7 DEF Returned, Waiting
<1>17. SettledOff(T, f, ret) /\ Focus(T, f, ret)
  BY <1>6, <1>7, <1>12, <1>13 DEF SettledOff, Focus, Waiting
<1>18. Between(T, host, 1, "NONE") /\ "NONE" \in Outcomes
  BY DEF Between, Outcomes
<1>19. Consistent(T, host, f, 1, ret, "NONE")
  BY <1>2, <1>3, <1>7, <1>11, <1>14, <1>15, <1>16, <1>17, <1>18 DEF Consistent
<1>20. Consistent(node', host', frame', cur', ret', result')
  BY <1>1, <1>19
<1>21. now' \in 0..MaxNow /\ now <= now' /\ tree' = tree
  BY <1>1, <1>2
<1> QED
  BY <1>2, <1>20, <1>21, Carry

(* An explicit reset, a destroy, and the end of a tick that failed. *)
LEMMA RebornRoot ==
  ASSUME IInv, NEW res, res \in {"NONE", "ERROR", "DESTROYED"},
         node' = Reborn(node, 1), host' = TellReborn(host, node, 1), result' = res,
         cur' = 0, ret'.rc = "OK", ret' \in Returns, frame' \in [Nodes -> Frames],
         \A m \in Nodes : frame'[m].at = "off", tree' = tree, now' = now
  PROVE  IInv'
<1> DEFINE T == Reborn(node, 1)
           g == TellReborn(host, node, 1)
<1>1. tree \in Trees /\ Sound(node, host)
  BY DEF IInv, Consistent
<1>2. 1 \in Nodes /\ Sub(1) = Nodes /\ Parent(1) = 0 /\ 0 \notin tree.hooks
  BY <1>1, TreeFacts, RootAbove
<1>3. /\ Sound(T, g) /\ Clean(T, 1)
      /\ \A m \in Sub(1) : /\ ~T[m].branch => AsBuilt(T[m])
                           /\ T[m].branch => node[m].branch /\ m = 1
                           /\ g.completed[m] = 0
  BY <1>1, <1>2, RebornFacts
<1>4. ~node[1].branch
  BY <1>1, <1>2 DEF Sound, Mirror, MirrorAt
<1> HIDE DEF T, g
<1>5. \A m \in Nodes : AsBuilt(T[m]) /\ g.completed[m] = 0
  BY <1>2, <1>3, <1>4
<1>6. \A m \in Nodes : Clean(T, m)
  <2>1. \A m \in Nodes : \A k \in Sub(m) : k \in Nodes /\ (k # m => k # 1)
    <3> SUFFICES ASSUME NEW m \in Nodes, NEW k \in Sub(m), k = 1
                 PROVE  k = m /\ k \in Nodes
      BY <1>1, TreeFacts
    <3>1. m <= 1 /\ m \in Nat /\ m # 0
      BY <1>1, SubOrder, TreeFacts
    <3> QED
      BY <1>2, <3>1
  <2> QED
    BY <1>2, <1>3, <2>1 DEF Clean
<1>7. \A m \in Nodes : Settles(T, m) /\ OffFocus(T, m)
  BY <1>1, <1>6, CleanKids DEF Settles
<1>8. res \in Outcomes /\ Between(T, g, 0, res)
  BY <1>3, <1>5 DEF Between, Outcomes
<1>9. node' = T /\ host' = g
  BY DEF T, g
<1> QED
  BY <1>3, <1>7, <1>8, <1>9, IdleStep

LEMMA AbortTickStep ==
  ASSUME IInv, AbortTick
  PROVE  IInv'
<1>1. /\ node' = Reborn(node, 1) /\ host' = TellReborn(host, node, 1) /\ result' = "ERROR"
      /\ cur' = 0 /\ tree' = tree /\ now' = now
  BY DEF AbortTick, Reborn, TellReborn
<1>2. ret'.rc = "OK" /\ ret' \in Returns
  BY DEF AbortTick, NoReturn, Returns, Statuses
<1>3. tree \in Trees /\ 1 \in Nodes /\ frame \in [Nodes -> Frames] /\ cur = 1
  BY TreeFacts DEF IInv, Consistent, AbortTick, At
<1>4. Off \in Frames /\ Off.at = "off"
  BY DEF Off, Frames, Labels
<1>5. frame' = [frame EXCEPT ![1] = Off]
  BY DEF AbortTick
<1>6. frame' \in [Nodes -> Frames] /\ \A m \in Nodes : frame'[m].at = "off"
  <2>1. Sub(1) = Nodes
    BY <1>3, RootAbove
  <2>2. \A m \in Nodes \ {1} : frame[m].at = "off"
    BY <1>3, <2>1, PathFacts
  <2> QED
    BY <1>3, <1>4, <1>5, <2>2
<1> QED
  BY <1>1, <1>2, <1>6, RebornRoot

LEMMA ResetTreeStep ==
  ASSUME IInv, NEW res \in {"NONE", "DESTROYED"}, ResetTree(res)
  PROVE  IInv'
<1>1. /\ node' = Reborn(node, 1) /\ host' = TellReborn(host, node, 1) /\ result' = res
      /\ tree' = tree /\ now' = now /\ cur = 0 /\ cur' = cur /\ frame' = frame /\ ret' = ret
  BY DEF ResetTree, Reborn, TellReborn, Busy
<1>2. /\ frame \in [Nodes -> Frames] /\ ret \in Returns /\ ret.rc = "OK"
      /\ \A m \in Nodes : frame[m].at = "off"
  BY <1>1, IdleFacts
<1>3. /\ frame' \in [Nodes -> Frames] /\ ret' \in Returns /\ ret'.rc = "OK" /\ cur' = 0
      /\ \A m \in Nodes : frame'[m].at = "off"
  BY <1>1, <1>2
<1>4. res \in {"NONE", "ERROR", "DESTROYED"}
  OBVIOUS
<1> QED
  BY <1>1, <1>3, <1>4, RebornRoot

LEMMA RebuildStep ==
  ASSUME IInv, Rebuild
  PROVE  IInv'
<1>1. /\ result = "DESTROYED" /\ node' = BuiltNodes /\ result' = "NONE"
      /\ UNCHANGED <<tree, cur, frame, ret, now, host>>
  BY DEF Rebuild, Alive
<1>2. cur = 0
  BY <1>1 DEF IInv, Consistent, Between
<1>3. /\ tree \in Trees /\ Sound(node, host) /\ frame \in [Nodes -> Frames]
      /\ ret \in Returns /\ ret.rc = "OK" /\ Between(node, host, 0, result)
      /\ \A m \in Nodes : frame[m].at = "off"
  BY <1>2, IdleFacts
<1>4. node \in Tables /\ host \in Histories /\ Mirror(node, host)
  BY <1>3 DEF Sound
<1>5. \A m \in Nodes : AsBuilt(node[m]) /\ host.completed[m] = 0
  BY <1>1, <1>3 DEF Between
<1>6. \A m \in Nodes : ~node[m].running /\ ~node[m].prepared /\ ~node[m].branch
  <2>1. \A m \in Nodes : node[m].limit \in Nat /\ node[m].duration \in Nat
    BY <1>4 DEF Tables, NodeRecord
  <2> QED
    BY <1>5, <2>1, FreshFields DEF AsBuilt
<1>7. \A m \in Nodes : /\ host.active[m] = 0 /\ host.context[m] = 0
                       /\ host.branch[m] = 0 /\ host.completed[m] = 0
  BY <1>4, <1>5, <1>6 DEF Mirror, MirrorAt, Bit
<1>8. /\ Sound(BuiltNodes, host)
      /\ \A m \in Nodes : /\ AsBuilt(BuiltNodes[m]) /\ Clean(BuiltNodes, m)
                          /\ Settles(BuiltNodes, m) /\ OffFocus(BuiltNodes, m)
  BY <1>3, <1>4, <1>7, BuiltSound
<1>9. 1 \in Nodes
  BY <1>3, TreeFacts
<1>10. Between(BuiltNodes, host, 0, "NONE") /\ "NONE" \in Outcomes
  BY <1>8, <1>9 DEF Between, Outcomes
<1>11. cur' = 0 /\ ret'.rc = "OK" /\ ret' \in Returns /\ frame' \in [Nodes -> Frames]
       /\ \A m \in Nodes : frame'[m].at = "off"
  BY <1>1, <1>2, <1>3
<1>12. host' = host /\ tree' = tree /\ now' = now
  BY <1>1
<1> QED
  BY <1>1, <1>8, <1>10, <1>11, <1>12, IdleStep

(* The limit and duration of a node are replaced. *)
Rated(S, n, l, d) == [S EXCEPT ![n].limit = l, ![n].duration = d]

LEMMA RatedFields ==
  ASSUME NEW S \in Tables, NEW n \in Nodes, NEW l \in Nat, NEW d \in Nat
  PROVE  /\ Rated(S, n, l, d) \in Tables
         /\ \A m \in Nodes \ {n} : Rated(S, n, l, d)[m] = S[m]
         /\ \A m \in Nodes :
              /\ Rated(S, n, l, d)[m].running = S[m].running
              /\ Rated(S, n, l, d)[m].prepared = S[m].prepared
              /\ Rated(S, n, l, d)[m].branch = S[m].branch
              /\ Rated(S, n, l, d)[m].once = S[m].once
              /\ Rated(S, n, l, d)[m].last = S[m].last
              /\ Rated(S, n, l, d)[m].cursor = S[m].cursor
              /\ Rated(S, n, l, d)[m].timer = S[m].timer
         /\ AsBuilt(S[n]) => AsBuilt(Rated(S, n, l, d)[n])
<1>1. PICK s \in NodeRecord : s = S[n]
  BY DEF Tables
<1>2. PICK t : t = [s EXCEPT !.limit = l, !.duration = d]
  OBVIOUS
<1>3. /\ t \in NodeRecord /\ t.running = s.running /\ t.prepared = s.prepared
      /\ t.branch = s.branch /\ t.once = s.once /\ t.last = s.last
      /\ t.cursor = s.cursor /\ t.timer = s.timer /\ t.limit = l /\ t.duration = d
  BY <1>2 DEF NodeRecord
<1> DEFINE T == Put(S, n, t)
<1>4. Rated(S, n, l, d) = T
  BY <1>1, <1>2, Zenon DEF Rated, Put
<1>5. T \in Tables /\ T[n] = t /\ \A m \in Nodes \ {n} : T[m] = S[m]
  BY <1>3, PutFacts
<1>6. AsBuilt(s) => AsBuilt(t)
  <2> SUFFICES ASSUME s = FreshNode(s.limit, s.duration)
               PROVE  t = FreshNode(l, d)
    BY <1>3 DEF AsBuilt
  <2>1. PICK b \in BOOLEAN : b = FALSE
    OBVIOUS
  <2> DEFINE F(x, y) == [last |-> "FAILURE", cursor |-> 0, counter |-> 0, limit |-> x,
                    duration |-> y, deadline |-> 0, started |-> 0, timer |-> b,
                    elapsed |-> b, evaluated |-> b, once |-> b, observed |-> b,
                    prepared |-> b, branch |-> b, running |-> b]
  <2>2. \A x, y : FreshNode(x, y) = F(x, y)
    BY <2>1, Zenon DEF FreshNode
  <2>3. PICK x : x = s.limit
    OBVIOUS
  <2>4. PICK y : y = s.duration
    OBVIOUS
  <2>5. s = F(x, y)
    BY <2>2, <2>3, <2>4, Zenon
  <2>6. /\ s.last = "FAILURE" /\ s.cursor = 0 /\ s.counter = 0 /\ s.deadline = 0
        /\ s.started = 0 /\ s.timer = b /\ s.elapsed = b /\ s.evaluated = b /\ s.once = b
        /\ s.observed = b /\ s.prepared = b /\ s.branch = b /\ s.running = b
    BY <2>5
  <2>7. t = F(l, d)
    BY <1>2, <2>6 DEF NodeRecord
  <2> HIDE DEF F
  <2> QED
    BY <2>2, <2>7, Zenon
<1> HIDE DEF T
<1> QED
  BY <1>1, <1>3, <1>4, <1>5, <1>6

LEMMA SetResolverStep ==
  ASSUME IInv, NEW n \in Nodes, NEW on \in BOOLEAN, SetResolver(n, on)
  PROVE  IInv'
<1> DEFINE T == Reborn(node, n)
           g == TellReborn(host, node, n)
           l == tree.limit[n]
           d == tree.duration[n]
           U == Rated(T, n, l, d)
<1>1. /\ cur = 0 /\ result # "DESTROYED" /\ node' = U /\ host' = g
      /\ UNCHANGED <<tree, cur, frame, ret, now, result>>
  BY DEF SetResolver, Busy, Alive, Reborn, TellReborn, Rated
<1>2. /\ tree \in Trees /\ Sound(node, host) /\ frame \in [Nodes -> Frames]
      /\ ret \in Returns /\ ret.rc = "OK" /\ result \in Outcomes
      /\ \A m \in Nodes : frame[m].at = "off" /\ Settles(node, m) /\ OffFocus(node, m)
      /\ Between(node, host, 0, result)
  BY <1>1, IdleFacts
<1>3. l \in Nat /\ d \in Nat /\ n \in Sub(n) /\ 1 \in Nodes
      /\ \A m \in Nodes : \A k \in Sub(m) : k \in Nodes
  BY <1>2, TreeFacts
<1>4. /\ Sound(T, g)
      /\ \A m \in Nodes : /\ Settles(node, m) => Settles(T, m)
                          /\ OffFocus(node, m) => OffFocus(T, m)
                          /\ Clean(node, m) => Clean(T, m)
      /\ \A m \in Nodes \ Sub(n) : T[m] = node[m]
      /\ \A m \in Sub(n) : /\ ~T[m].branch => AsBuilt(T[m])
                           /\ T[m].branch => node[m].branch /\ m = n
                           /\ ~T[m].timer
  BY <1>2, RebornFacts, ZenonT(60)
<1>5. T \in Tables
  BY <1>4 DEF Sound
<1> HIDE DEF T, g, l, d
<1>6. /\ U \in Tables
      /\ \A m \in Nodes \ {n} : U[m] = T[m]
      /\ \A m \in Nodes :
           /\ U[m].running = T[m].running /\ U[m].prepared = T[m].prepared
           /\ U[m].branch = T[m].branch /\ U[m].once = T[m].once
           /\ U[m].last = T[m].last /\ U[m].cursor = T[m].cursor
           /\ U[m].timer = T[m].timer
      /\ AsBuilt(T[n]) => AsBuilt(U[n])
  BY <1>3, <1>5, RatedFields
<1> HIDE DEF U
<1>7. Cursors(U)
  BY <1>4, <1>6 DEF Sound, Cursors
<1>8. Timers(U)
  <2>1. ~U[n].timer
    BY <1>3, <1>4, <1>6
  <2> QED
    BY <1>4, <1>6, <2>1 DEF Sound, Timers, TimerAt
<1>9. Mirror(U, g)
  BY <1>4, <1>6 DEF Sound, Mirror, MirrorAt
<1>10. Onces(U, g)
  BY <1>4, <1>6 DEF Sound, Onces, OnceAt
<1>11. Sound(U, g)
  BY <1>4, <1>6, <1>7, <1>8, <1>9, <1>10 DEF Sound
<1>12. \A m \in Nodes : Clean(T, m) => Clean(U, m)
  BY <1>3, <1>6 DEF Clean, Still
<1>13. \A m \in Nodes : Settles(U, m) /\ OffFocus(U, m)
  <2>1. \A m \in Nodes : \A c \in KidsOf(m) : c \in Nodes
    BY <1>2, KidFacts
  <2>2. \A m \in Nodes : Settles(T, m) /\ OffFocus(T, m)
    BY <1>2, <1>4
  <2> QED
    BY <1>6, <1>12, <2>1, <2>2 DEF Settles, OffFocus
<1>14. result # "RUNNING" => Clean(U, 1)
  BY <1>2, <1>3, <1>4, <1>12 DEF Between
<1>15. ASSUME result \in {"NONE", "ERROR", "DESTROYED"}, NEW m \in Nodes
       PROVE  AsBuilt(U[m])
  <2>1. AsBuilt(node[m])
    BY <1>2, <1>15 DEF Between
  <2>2. ~node[m].branch
    <3>1. node[m].limit \in Nat /\ node[m].duration \in Nat
      BY <1>2 DEF Sound, Tables, NodeRecord
    <3> QED
      BY <2>1, <3>1, FreshFields DEF AsBuilt
  <2>3. AsBuilt(T[m])
    BY <1>4, <2>1, <2>2
  <2> QED
    BY <1>6, <2>3
<1>16. Between(U, g, 0, result)
  BY <1>1, <1>14, <1>15 DEF Between
<1>17. /\ cur' = 0 /\ ret'.rc = "OK" /\ ret' \in Returns /\ frame' \in [Nodes -> Frames]
       /\ \A m \in Nodes : frame'[m].at = "off"
       /\ result' = result /\ tree' = tree /\ now' = now
  BY <1>1, <1>2
<1> QED
  BY <1>1, <1>2, <1>11, <1>13, <1>16, <1>17, IdleStep

LEMMA ElapseStep ==
  ASSUME IInv, Elapse \/ UNCHANGED vars
  PROVE  IInv'
<1>1. /\ tree \in Trees /\ now \in Nat /\ now \in 0..MaxNow
      /\ Consistent(node, host, frame, cur, ret, result)
  BY BoundsAssumption DEF IInv
<1>2. /\ tree' = tree /\ node' = node /\ host' = host /\ frame' = frame /\ cur' = cur
      /\ ret' = ret /\ result' = result
  BY DEF Elapse, vars
<1>3. now' \in 0..MaxNow /\ now <= now'
  BY <1>1, BoundsAssumption DEF Elapse, vars
<1>4. Consistent(node', host', frame', cur', ret', result')
  BY <1>1, <1>2
<1> QED
  BY <1>1, <1>2, <1>3, <1>4, Carry

LEMMA TickStepKeeps ==
  ASSUME IInv, NEW n \in Nodes, TickStep(n)
  PROVE  IInv'
<1>1. CASE \/ ChildFailed(n) \/ ResolveParams(n) \/ Leaf(n)
           \/ CompositeStart(n) \/ CompositeNext(n)
  BY <1>1, ChildFailedStep, ResolveParamsStep, LeafStep, CompositeStartStep, CompositeNextStep
<1>2. CASE \/ DecoratorStart(n) \/ DecoratorReturn(n) \/ RunOnceStart(n) \/ RunOnceReturn(n)
           \/ LoopSpent(n) \/ LoopStart(n) \/ RetryRepeatReturn(n) \/ CooperativeReturn(n)
  BY <1>2, DecoratorSteps, RunOnceStartStep, RunOnceReturnStep, LoopSpentStep, LoopStartStep,
     RetryRepeatReturnStep, CooperativeReturnStep
<1>3. CASE \/ AskCondition(n) \/ ConditionReturn(n) \/ SelectCase(n) \/ BranchReturn(n)
           \/ TimeoutStart(n) \/ TimeoutReturn(n) \/ DelayStart(n) \/ DelayReturn(n)
  BY <1>3, GuardSteps, SwitchSteps, TimeoutSteps, DelaySteps
<1>4. CASE \/ PipelineStart(n) \/ PipelineReturn(n) \/ QueueStart(n) \/ QueueReturn(n)
           \/ EntryStart(n) \/ EntryReturn(n)
  BY <1>4, PipelineStartStep, PipelineReturnStep, QueueStartStep, QueueReturnStep,
     EntryStartStep, EntryReturnStep
<1>5. CASE \/ ParallelEnter(n) \/ ParallelStep(n) \/ ParallelJoin(n) \/ ParallelFinish(n)
  BY <1>5, ParallelEnterStep, ParallelStepStep, ParallelJoinStep, ParallelFinishStep
<1> QED
  BY <1>1, <1>2, <1>3, <1>4, <1>5, Zenon DEF TickStep

LEMMA NextIInv ==
  ASSUME IInv, [Next]_vars
  PROVE  IInv'
<1>1. CASE TickTree
  BY <1>1, TickTreeStep
<1>2. ASSUME NEW n \in Nodes, TickStep(n)
      PROVE  IInv'
  BY <1>2, TickStepKeeps
<1>3. CASE AbortTick
  BY <1>3, AbortTickStep
<1>4. CASE ResetTree("NONE") \/ ResetTree("DESTROYED")
  BY <1>4, ResetTreeStep
<1>5. CASE Rebuild
  BY <1>5, RebuildStep
<1>6. ASSUME NEW n \in Nodes, NEW on \in BOOLEAN, SetResolver(n, on)
      PROVE  IInv'
  BY <1>6, SetResolverStep
<1>7. CASE Elapse \/ UNCHANGED vars
  BY <1>7, ElapseStep
<1> QED
  BY <1>1, <1>2, <1>3, <1>4, <1>5, <1>6, <1>7, Zenon DEF Next

(***************************************************************************)
(* The theorems.                                                           *)
(***************************************************************************)

(* The call stack is the path to the executing node, what the host has been *)
(* told is what the node table says, and a node that is not executing has   *)
(* work open only where it will look for it: through every tick, reset,     *)
(* cancellation, error and change of a resolver.                            *)
THEOREM InvariantHolds == Spec => []IInv
<1>1. Init => IInv
  BY InitIInv
<1>2. IInv /\ [Next]_vars => IInv'
  BY NextIInv
<1> QED
  BY <1>1, <1>2, PTL DEF Spec

(* In every reachable state the callbacks pair up: no leaf is halted, no    *)
(* pipeline, queue item or branch aborted that is not open, and none opened *)
(* twice (tick_node_impl and reset_node_state_impl).                        *)
THEOREM CallbacksPairUp == Spec => []BalancedCallbacks
<1>1. IInv => BalancedCallbacks
  <2> SUFFICES ASSUME IInv, NEW n \in Nodes
               PROVE  {host.active[n], host.context[n], host.branch[n]} \subseteq {0, 1}
    BY DEF BalancedCallbacks
  <2>1. MirrorAt(node, host, n)
    BY DEF IInv, Consistent, Sound, Mirror
  <2> QED
    BY <2>1 DEF MirrorAt, Bit
<1> QED
  BY <1>1, InvariantHolds, PTL

(* When an API call has ended and the outcome is not RUNNING, no leaf is    *)
(* running and no context or branch is open: every terminal path, error and *)
(* cancellation halts what the tick started.                                *)
THEOREM NothingOrphaned == Spec => []NoOrphanedWork
<1>1. IInv => NoOrphanedWork
  <2> SUFFICES ASSUME IInv, cur = 0, result # "RUNNING", NEW m \in Nodes
               PROVE  host.active[m] = 0 /\ host.context[m] = 0 /\ host.branch[m] = 0
    BY DEF NoOrphanedWork, Busy, Quiet
  <2>1. tree \in Trees /\ MirrorAt(node, host, m) /\ MirrorAt(node, host, 1) /\ Clean(node, 1)
    <3>1. tree \in Trees /\ 1 \in Nodes
      BY TreeFacts DEF IInv
    <3> QED
      BY <3>1 DEF IInv, Consistent, Sound, Mirror, Between
  <2>2. m \in Sub(1) /\ Parent(1) \notin tree.hooks
    BY <2>1, RootAbove, TreeFacts
  <2>3. ~node[m].running /\ ~node[m].prepared /\ ~node[m].branch
    BY <2>1, <2>2 DEF Clean, Still, MirrorAt
  <2> QED
    BY <2>1, <2>3 DEF MirrorAt, Bit
<1> QED
  BY <1>1, InvariantHolds, PTL

(* Between API calls only a Parallel has work under two of its children: a  *)
(* sequence, guard, switch or pipeline that moves on has halted the child   *)
(* it leaves.                                                               *)
THEOREM OneActiveBranch == Spec => []SingleActiveBranch
<1>1. IInv => SingleActiveBranch
  <2> SUFFICES ASSUME IInv, cur = 0, NEW n \in Nodes, Kind(n) # "PARALLEL",
                      NEW c \in KidsOf(n), NEW d \in KidsOf(n), c # d
               PROVE  Quiet(Sub(c)) \/ Quiet(Sub(d))
    BY DEF SingleActiveBranch, Busy, KidsOf, Sub
  <2>1. tree \in Trees /\ Sound(node, host) /\ OffFocus(node, n)
    BY IdleFacts
  <2>2. ASSUME NEW k \in KidsOf(n), Clean(node, k)
        PROVE  Quiet(Sub(k))
    <3>1. k \in Nodes /\ Parent(k) = n /\ n \notin tree.hooks
      BY <2>1, KidFacts, TreeFacts
    <3> SUFFICES ASSUME NEW m \in Sub(k)
                 PROVE  host.active[m] = 0 /\ host.context[m] = 0 /\ host.branch[m] = 0
      BY DEF Quiet
    <3>2. m \in Nodes
      BY <2>1, <3>1, TreeFacts
    <3>3. MirrorAt(node, host, m)
      BY <2>1, <3>2 DEF Sound, Mirror
    <3>4. ~node[m].running /\ ~node[m].prepared /\ ~node[m].branch
      BY <2>2, <3>1, <3>3 DEF Clean, Still, MirrorAt
    <3> QED
      BY <3>3, <3>4 DEF MirrorAt, Bit
  <2>3. Clean(node, c) \/ Clean(node, d)
    <3>1. Kind(n) \in Focusing
      <4>1. CASE Kind(n) \in SingleKind
        BY <2>1, <4>1, SingleKindFacts
      <4>2. CASE Kind(n) = "LEAF"
        BY <2>1, <4>2, KidCounts DEF KidsOf, SeqRange
      <4>3. Kind(n) \in Kinds
        BY <2>1, TreeFacts
      <4> QED
        BY <4>1, <4>2, <4>3 DEF Kinds, SingleKind, Focusing, LimitKinds, Guarded
    <3>2. c # 0 /\ d # 0
      BY <2>1, KidFacts
    <3> QED
      BY <2>1, <3>1, <3>2 DEF OffFocus
  <2> QED
    BY <2>2, <2>3
<1> QED
  BY <1>1, InvariantHolds, PTL

(* A reset, a cancellation and an aborted tick leave every node of the tree *)
(* as add_node_with_limit_internal built it.                                *)
THEOREM ResetIsFresh == Spec => []IdleIsFresh
<1>1. IInv => IdleIsFresh
  BY DEF IInv, Consistent, Between, AsBuilt, IdleIsFresh, Busy
<1> QED
  BY <1>1, InvariantHolds, PTL

(* A running timer ends at the duration in force, or at the largest clock   *)
(* value, whatever a resolver changes while it runs.                        *)
THEOREM TimersInForce == Spec => []DeadlineInForce
<1>1. IInv => DeadlineInForce
  BY DEF IInv, Consistent, Sound, Timers, TimerAt, DeadlineInForce
<1> QED
  BY <1>1, InvariantHolds, PTL

(* A RunOnce that no Parallel encloses completes at most once between two   *)
(* explicit resets, as behavior_tree.h:363 promises of every RunOnce.       *)
THEOREM ShelteredCompleteOnce ==
  Spec => [](\A n \in Nodes : Sheltered(n) => host.completed[n] <= 1)
<1>1. IInv => \A n \in Nodes : Sheltered(n) => host.completed[n] <= 1
  BY DEF IInv, Consistent, Sound, Onces, OnceAt, Bit
<1> QED
  BY <1>1, InvariantHolds, PTL

(* No tree of the set has a RunOnce inside a Parallel. *)
NoRunOnceInParallel ==
  \A t \in Trees : \A n, p \in DOMAIN t.kind :
    t.kind[p] = "PARALLEL" /\ n \in t.sub[p] => t.kind[n] # "RUN_ONCE"

(* Hence in trees without a RunOnce inside a Parallel every RunOnce keeps   *)
(* the promise; a Parallel that is still RUNNING calls reset_tree_state on   *)
(* a branch that has ended, and a RunOnce inside it runs again.             *)
THEOREM CompletesOnceOutsideParallel ==
  ASSUME NoRunOnceInParallel
  PROVE  Spec => []CompletesOnce
<1>1. IInv => CompletesOnce
  <2> SUFFICES ASSUME IInv, NEW n \in Nodes
               PROVE  host.completed[n] <= 1
    BY DEF CompletesOnce
  <2>1. tree \in Trees /\ OnceAt(node, host, n)
    BY DEF IInv, Consistent, Sound, Onces
  <2>2. Kind(n) = "RUN_ONCE" => Sheltered(n)
    BY <2>1 DEF NoRunOnceInParallel, Sheltered, Kind, Nodes, Sub
  <2> QED
    BY <2>1, <2>2 DEF OnceAt, Bit
<1> QED
  BY <1>1, InvariantHolds, PTL
=============================================================================
