------------------------- MODULE JinjaLoadingProofs -------------------------
(***************************************************************************)
(* The reference counts of compiled templates are exact, and every load is *)
(* accounted for, whatever templates include, import and extend and at     *)
(* whichever step a load or a render fails; and one render runs a template *)
(* of an inheritance chain, and loads a module, only once.                 *)
(***************************************************************************)
EXTENDS JinjaLoading, FiniteSetTheorems, WellFoundedInduction, TLAPS

---------------------------------------------------------------------------
(* How often a template occurs in a sequence.                              *)

LEMMA LeastElement ==
  ASSUME NEW T, T \subseteq Nat, T # {}
  PROVE  \E x \in T : \A y \in T : x <= y
<1> DEFINE R == OpToRel(<, Nat)
<1>1. IsWellFoundedOn(R, Nat)
  BY NatLessThanWellFounded
<1>2. \E x \in T : \A y \in T : ~(<<y, x>> \in R)
  <2> HIDE DEF R
  <2> QED
    BY <1>1, WFMin
<1>3. PICK x \in T : \A y \in T : ~(<<y, x>> \in R)
  BY <1>2
<1>4. \A y \in T : x <= y
  <2> TAKE y \in T
  <2>1. x \in Nat /\ y \in Nat
    OBVIOUS
  <2>2. ~(y < x)
    BY <1>3, <2>1 DEF OpToRel
  <2> QED
    BY <2>1, <2>2
<1> QED
  BY <1>4

(* What the lemmas below need of a sequence. *)
Listed(s, n) == n \in Nat /\ DOMAIN s = 1..n

Places(s, t) == {k \in DOMAIN s : s[k] = t}

LEMMA CountType ==
  ASSUME NEW s, NEW n, Listed(s, n), NEW t
  PROVE  /\ IsFiniteSet(Places(s, t)) /\ Count(s, t) = Cardinality(Places(s, t))
         /\ Count(s, t) \in Nat
         /\ Count(s, t) = 0 <=> \A k \in DOMAIN s : s[k] # t
<1>1. IsFiniteSet(1..n)
  BY FS_Interval DEF Listed
<1>2. Places(s, t) \in SUBSET (1..n)
  BY DEF Places, Listed
<1>3. IsFiniteSet(Places(s, t))
  BY <1>1, <1>2, FS_Subset
<1>4. Count(s, t) = Cardinality(Places(s, t))
  BY DEF Count, Places
<1>5. Count(s, t) \in Nat
  BY <1>3, <1>4, FS_CardinalityType
<1>6. Count(s, t) = 0 <=> Places(s, t) = {}
  BY <1>3, <1>4, FS_EmptySet
<1>7. Places(s, t) = {} <=> \A k \in DOMAIN s : s[k] # t
  BY DEF Places
<1> QED
  BY <1>3, <1>4, <1>5, <1>6, <1>7

(* One more entry at the end. *)
Longer(s, r, n, x) == r[n + 1] = x /\ \A k \in 1..n : r[k] = s[k]

LEMMA CountLonger ==
  ASSUME NEW s, NEW n, Listed(s, n), NEW r, NEW m, Listed(r, m), m = n + 1,
         NEW x, Longer(s, r, n, x), NEW t
  PROVE  Count(r, t) = Count(s, t) + (IF x = t THEN 1 ELSE 0)
<1>1. IsFiniteSet(Places(s, t)) /\ Count(s, t) = Cardinality(Places(s, t))
      /\ Count(r, t) = Cardinality(Places(r, t)) /\ Count(s, t) \in Nat
  BY CountType
<1>2. CASE x = t
  <2>1. Places(r, t) = Places(s, t) \cup {n + 1} /\ n + 1 \notin Places(s, t)
    BY <1>2 DEF Places, Listed, Longer
  <2>2. Cardinality(Places(s, t) \cup {n + 1}) = Cardinality(Places(s, t)) + 1
    BY <1>1, <2>1, FS_AddElement
  <2> QED
    BY <1>1, <1>2, <2>1, <2>2
<1>3. CASE x # t
  <2>1. Places(r, t) = Places(s, t)
    BY <1>3 DEF Places, Listed, Longer
  <2> QED
    BY <1>1, <1>3, <2>1
<1> QED
  BY <1>2, <1>3

(* One entry replaced. *)
Replaced(s, r, n, i) == \A k \in 1..n : k # i => r[k] = s[k]

Shifted(s, r, n) == \A k \in 1..n : r[k] = s[k + 1]

LEMMA CountReplaced ==
  ASSUME NEW s, NEW n, Listed(s, n), NEW r, Listed(r, n), NEW i \in 1..n,
         Replaced(s, r, n, i), r[i] # s[i], NEW t
  PROVE  Count(r, t) = IF t = r[i] THEN Count(s, t) + 1
                       ELSE IF t = s[i] THEN Count(s, t) - 1 ELSE Count(s, t)
<1>1. /\ IsFiniteSet(Places(s, t)) /\ Count(s, t) = Cardinality(Places(s, t))
      /\ Count(r, t) = Cardinality(Places(r, t)) /\ Count(s, t) \in Nat
  BY CountType
<1>2. CASE t = r[i]
  <2>1. Places(r, t) = Places(s, t) \cup {i} /\ i \notin Places(s, t)
    BY <1>2 DEF Places, Listed, Replaced
  <2>2. Cardinality(Places(s, t) \cup {i}) = Cardinality(Places(s, t)) + 1
    BY <1>1, <2>1, FS_AddElement
  <2> QED
    BY <1>1, <1>2, <2>1, <2>2
<1>3. CASE t # r[i] /\ t = s[i]
  <2>1. Places(r, t) = Places(s, t) \ {i} /\ i \in Places(s, t)
    BY <1>3 DEF Places, Listed, Replaced
  <2> QED
    BY <1>1, <1>3, <2>1, FS_RemoveElement
<1>4. CASE t # r[i] /\ t # s[i]
  <2>1. Places(r, t) = Places(s, t)
    BY <1>4 DEF Places, Listed, Replaced
  <2> QED
    BY <1>1, <1>4, <2>1
<1> QED
  BY <1>2, <1>3, <1>4

(* The first entry dropped: the other places move down by one. *)
LEMMA CountTail ==
  ASSUME NEW s, NEW m, Listed(s, m), NEW r, NEW n, Listed(r, n), m = n + 1, Shifted(s, r, n),
         NEW t
  PROVE  Count(r, t) = Count(s, t) - (IF s[1] = t THEN 1 ELSE 0)
<1> DEFINE P == Places(s, t) \ {1}
           Q == Places(r, t)
           f == [k \in Q |-> k + 1]
<1>0. n \in Nat /\ DOMAIN s = 1..n + 1 /\ DOMAIN r = 1..n
  BY DEF Listed
<1>1. /\ IsFiniteSet(Places(s, t)) /\ Count(s, t) = Cardinality(Places(s, t))
      /\ IsFiniteSet(Q) /\ Count(r, t) = Cardinality(Q) /\ Count(s, t) \in Nat
  BY CountType
<1>2. f \in Bijection(Q, P)
  <2>1. \A k \in Q : k \in 1..n /\ k + 1 \in P
    BY <1>0 DEF Places, Shifted
  <2>2. \A j \in P : j - 1 \in Q /\ j \in Nat
    BY <1>0 DEF Places, Shifted
  <2>3. f \in [Q -> P]
    BY <2>1
  <2>4. ASSUME NEW a \in Q, NEW b \in Q, f[a] = f[b] PROVE a = b
    BY <1>0, <2>1, <2>4
  <2>5. ASSUME NEW j \in P PROVE \E a \in Q : f[a] = j
    <3>1. j - 1 \in Q /\ f[j - 1] = j
      BY <2>2, <2>5
    <3> QED
      BY <3>1
  <2> HIDE DEF f, P, Q
  <2> QED
    BY <2>3, <2>4, <2>5 DEF Bijection, Injection, Surjection, IsInjective
<1>3. ExistsBijection(Q, P)
  BY <1>2 DEF ExistsBijection
<1>4. Cardinality(P) = Cardinality(Q)
  BY <1>1, <1>3, FS_Bijection
<1>5. Cardinality(P) = IF 1 \in Places(s, t) THEN Cardinality(Places(s, t)) - 1
                       ELSE Cardinality(Places(s, t))
  BY <1>1, FS_RemoveElement
<1>6. 1 \in Places(s, t) <=> s[1] = t
  BY <1>0 DEF Places
<1> QED
  BY <1>1, <1>4, <1>5, <1>6

---------------------------------------------------------------------------
(* What a sequence of releases leaves.                                     *)

Record == [name : Names, source : Sources, references : Nat]

Heap(h) == h = [t \in DOMAIN h |-> h[t]] /\ \A t \in DOMAIN h : h[t] \in Record

Lower(r, n) == [name |-> r.name, source |-> r.source, references |-> r.references - n]

(* The heap after every template of s was released once per occurrence. *)
Left(h, s) ==
  [t \in {u \in DOMAIN h : Count(s, u) = 0 \/ h[u].references > Count(s, u)} |->
     Lower(h[t], Count(s, t))]

(* Every release of s meets a live template: it has at least as many       *)
(* references as s releases, or one owner without a count.                 *)
Covered(h, s) ==
  \A t \in DOMAIN h :
    Count(s, t) <= h[t].references \/ (Count(s, t) <= 1 /\ h[t].references = 0)

Upto(s, k) == [i \in 1..k |-> s[i]]

LEMMA UptoListed ==
  ASSUME NEW s, NEW n, Listed(s, n), NEW k \in 0..n
  PROVE  Listed(Upto(s, k), k) /\ \A i \in 1..k : Upto(s, k)[i] = s[i]
BY DEF Listed, Upto

LEMMA CountUpto ==
  ASSUME NEW s, NEW n, Listed(s, n), NEW k \in 1..n, NEW t
  PROVE  /\ Count(Upto(s, k - 1), t) \in Nat
         /\ Count(Upto(s, k), t) = Count(Upto(s, k - 1), t) + (IF s[k] = t THEN 1 ELSE 0)
<1>0. n \in Nat /\ k - 1 \in 0..n /\ k \in 0..n /\ (k - 1) + 1 = k /\ k \in 1..k
  BY DEF Listed
<1>1. Listed(Upto(s, k - 1), k - 1) /\ \A i \in 1..k - 1 : Upto(s, k - 1)[i] = s[i]
  BY <1>0, UptoListed
<1>2. Listed(Upto(s, k), k) /\ \A i \in 1..k : Upto(s, k)[i] = s[i]
  BY <1>0, UptoListed
<1>3. \A i \in 1..k - 1 : Upto(s, k)[i] = Upto(s, k - 1)[i]
  BY <1>0, <1>1, <1>2
<1> DEFINE p == Upto(s, k - 1)
           q == Upto(s, k)
           m == k - 1
<1>4. Listed(p, m) /\ Listed(q, m + 1) /\ (\A i \in 1..m : q[i] = p[i]) /\ m + 1 = k
  BY <1>0, <1>1, <1>2, <1>3
<1> HIDE DEF p, q, m
<1>5. Count(q, t) = Count(p, t) + (IF q[m + 1] = t THEN 1 ELSE 0)
  <2>1. Longer(p, q, m, q[m + 1]) /\ Listed(q, k) /\ k = m + 1
    BY <1>4 DEF Longer
  <2> QED
    BY <1>4, <2>1, CountLonger
<1>6. Count(p, t) \in Nat
  BY <1>4, CountType
<1>7. q[m + 1] = s[k]
  BY <1>0, <1>2, <1>4 DEF q
<1> QED
  BY <1>5, <1>6, <1>7 DEF p, q

(* Counts of prefixes stay below the count of the whole. *)
LEMMA CountUptoBelow ==
  ASSUME NEW s, NEW n, Listed(s, n), NEW k \in 0..n, NEW t
  PROVE  Count(Upto(s, k), t) <= Count(s, t) /\ Count(Upto(s, k), t) \in Nat
<1>1. Listed(Upto(s, k), k) /\ \A i \in 1..k : Upto(s, k)[i] = s[i]
  BY UptoListed
<1>2. Places(Upto(s, k), t) \subseteq Places(s, t)
  BY <1>1 DEF Places, Listed
<1>3. IsFiniteSet(Places(s, t)) /\ Count(s, t) = Cardinality(Places(s, t))
  BY CountType
<1>4. Count(Upto(s, k), t) = Cardinality(Places(Upto(s, k), t)) /\ Count(Upto(s, k), t) \in Nat
  BY <1>1, CountType
<1>5. Cardinality(Places(Upto(s, k), t)) <= Cardinality(Places(s, t))
  BY <1>2, <1>3, FS_Subset
<1> QED
  BY <1>3, <1>4, <1>5

LEMMA LowerFields ==
  ASSUME NEW r \in Record, NEW n \in Nat, n <= r.references
  PROVE  /\ Lower(r, n) \in Record /\ Lower(r, n).references = r.references - n
         /\ Lower(r, n).name = r.name /\ Lower(r, n).source = r.source
BY DEF Lower, Record

LEMMA LowerTwice ==
  ASSUME NEW r \in Record, NEW n \in Nat, n <= r.references
  PROVE  [Lower(r, n) EXCEPT !.references = @ - 1] = Lower(r, n + 1)
BY DEF Lower, Record

LEMMA LowerNone ==
  ASSUME NEW r \in Record
  PROVE  Lower(r, 0) = r
BY DEF Lower, Record

(* One release more. *)
LEMMA LeftNext ==
  ASSUME NEW h, Heap(h), NEW s, NEW n, Listed(s, n), Covered(h, s),
         \A i \in 1..n : s[i] \in DOMAIN h, NEW k \in 1..n
  PROVE  Drop(Left(h, Upto(s, k - 1)), s[k]) = Left(h, Upto(s, k))
<1> DEFINE p == Upto(s, k - 1)
           q == Upto(s, k)
           L == Left(h, p)
           t == s[k]
           D == {u \in DOMAIN h : Count(p, u) = 0 \/ h[u].references > Count(p, u)}
           E == {u \in DOMAIN h : Count(q, u) = 0 \/ h[u].references > Count(q, u)}
<1>0. n \in Nat /\ k \in 0..n /\ k - 1 \in 0..n
  BY DEF Listed
<1>1. \A u : Count(p, u) \in Nat /\ Count(q, u) = Count(p, u) + (IF t = u THEN 1 ELSE 0)
  BY CountUpto
<1>2. t \in DOMAIN h /\ h[t] \in Record /\ h[t].references \in Nat
  BY DEF Heap, Record
<1>3. Count(q, t) = Count(p, t) + 1 /\ Count(q, t) <= Count(s, t) /\ Count(s, t) \in Nat
  BY <1>0, <1>1, CountUptoBelow, CountType
<1>4. Count(p, t) = 0 \/ h[t].references > Count(p, t)
  BY <1>1, <1>2, <1>3 DEF Covered
<1>5. \A u \in DOMAIN h : u # t => Count(q, u) = Count(p, u)
  BY <1>1
<1>6. L = [u \in D |-> Lower(h[u], Count(p, u))] /\ Left(h, q) = [u \in E |-> Lower(h[u], Count(q, u))]
  BY DEF Left
<1>7. t \in D /\ D \subseteq DOMAIN h /\ E \subseteq DOMAIN h
  BY <1>2, <1>4
<1>8. L[t].references = h[t].references - Count(p, t) /\ L[t] = Lower(h[t], Count(p, t))
  BY <1>6, <1>7 DEF Lower
<1>9. \A u \in DOMAIN h : u # t => (u \in D <=> u \in E)
  BY <1>5
<1>10. t \in E <=> h[t].references > Count(p, t) + 1
  BY <1>1, <1>2, <1>3
<1> HIDE DEF p, q, L, t, D, E
<1>11. CASE L[t].references <= 1
  <2>1. Drop(L, t) = [u \in D \ {t} |-> L[u]]
    BY <1>6, <1>11 DEF Drop, Without
  <2>2. h[t].references <= Count(p, t) + 1
    BY <1>1, <1>2, <1>8, <1>11
  <2>3. t \notin E
    BY <1>1, <1>2, <1>10, <2>2
  <2>4. D \ {t} = E
    BY <1>7, <1>9, <2>3
  <2>5. \A u \in E : L[u] = Lower(h[u], Count(q, u))
    BY <1>5, <1>6, <1>7, <2>3, <2>4
  <2>6. Drop(L, t) = Left(h, q)
    BY <1>6, <2>1, <2>4, <2>5
  <2> QED
    BY <2>6 DEF L, p, q, t
<1>12. CASE ~(L[t].references <= 1)
  <2>1. Drop(L, t) = [L EXCEPT ![t].references = @ - 1]
    BY <1>12 DEF Drop
  <2>2. h[t].references > Count(p, t) + 1 /\ Count(p, t) <= h[t].references
    BY <1>1, <1>2, <1>8, <1>12
  <2>3. D = E
    BY <1>7, <1>9, <1>10, <2>2
  <2> DEFINE c == Count(p, t)
             new == [L[t] EXCEPT !.references = @ - 1]
  <2>4. new = Lower(h[t], Count(q, t))
    <3>1. c \in Nat /\ c <= h[t].references
      BY <1>1, <2>2
    <3> HIDE DEF c
    <3>2. [Lower(h[t], c) EXCEPT !.references = @ - 1] = Lower(h[t], c + 1)
      BY <1>2, <3>1, LowerTwice
    <3>3. L[t] = Lower(h[t], c) /\ Count(q, t) = c + 1
      BY <1>3, <1>8 DEF c
    <3> QED
      BY <3>2, <3>3
  <2> HIDE DEF new
  <2>5. [L EXCEPT ![t].references = @ - 1] = [u \in D |-> IF u = t THEN new ELSE L[u]]
    <3>1. L = [u \in D |-> L[u]]
      BY <1>6
    <3> QED
      BY <1>7, <3>1 DEF new
  <2>6. \A u \in E : (IF u = t THEN new ELSE L[u]) = Lower(h[u], Count(q, u))
    BY <1>5, <1>6, <1>7, <2>3, <2>4
  <2>7. Drop(L, t) = Left(h, q)
    BY <1>6, <2>1, <2>3, <2>5, <2>6
  <2> QED
    BY <2>7 DEF L, p, q, t
<1> QED
  BY <1>11, <1>12

LEMMA LeftNone ==
  ASSUME NEW h, Heap(h), NEW s, Listed(s, 0)
  PROVE  Left(h, s) = h
<1>1. \A t : Count(s, t) = 0
  <2> TAKE t
  <2>1. DOMAIN s = {}
    BY DEF Listed
  <2> QED
    BY <2>1, CountType
<1>2. Left(h, s) = [t \in DOMAIN h |-> Lower(h[t], 0)]
  BY <1>1 DEF Left
<1>3. \A t \in DOMAIN h : Lower(h[t], 0) = h[t]
  BY LowerNone DEF Heap
<1> QED
  BY <1>2, <1>3 DEF Heap

(* Releasing front to back is the loop of jinja_cmeta_env_cache_clear and  *)
(* of jinja_provider_destroy.                                              *)
LEMMA DropAllLeaves ==
  ASSUME NEW h, Heap(h), NEW s, Listed(s, Len(s)), Covered(h, s),
         \A i \in DOMAIN s : s[i] \in DOMAIN h
  PROVE  DropAll(h, s) = Left(h, s)
<1> DEFINE n == Len(s)
           F(g) == [k \in 0..n |-> IF k = 0 THEN h ELSE Drop(g[k - 1], s[k])]
           w == [k \in 0..n |-> Left(h, Upto(s, k))]
           g == CHOOSE f : f = F(f)
<1>0. n \in Nat /\ DOMAIN s = 1..n /\ Listed(s, n)
  BY DEF Listed
<1>1. w = F(w)
  <2>1. ASSUME NEW k \in 0..n
        PROVE  Left(h, Upto(s, k)) = IF k = 0 THEN h ELSE Drop(w[k - 1], s[k])
    <3>1. CASE k = 0
      <4>1. Listed(Upto(s, 0), 0)
        BY <1>0, UptoListed
      <4> QED
        BY <3>1, <4>1, LeftNone
    <3>2. CASE k # 0
      <4>1. k \in 1..n /\ k - 1 \in 0..n
        BY <1>0, <3>2
      <4>2. w[k - 1] = Left(h, Upto(s, k - 1))
        BY <4>1
      <4>3. Drop(Left(h, Upto(s, k - 1)), s[k]) = Left(h, Upto(s, k))
        BY <1>0, <4>1, LeftNext
      <4> QED
        BY <3>2, <4>2, <4>3
    <3> QED
      BY <3>1, <3>2
  <2> QED
    BY <2>1
<1>2. g = F(g)
  <2> HIDE DEF F, w
  <2> QED
    BY <1>1
<1>3. DropAll(h, s) = g[n]
  BY DEF DropAll
<1>4. \A k \in 0..n : g[k] = IF k = 0 THEN h ELSE Drop(g[k - 1], s[k])
  <2> HIDE DEF g
  <2> QED
    BY <1>2
<1>5. \A k \in 0..n : w[k] = IF k = 0 THEN h ELSE Drop(w[k - 1], s[k])
  <2> HIDE DEF w
  <2> QED
    BY <1>1
<1>6. w[n] = Left(h, s)
  <2>1. n \in 0..n /\ w[n] = Left(h, Upto(s, n))
    BY <1>0
  <2>2. \A t : Count(Upto(s, n), t) = Count(s, t)
    BY <1>0 DEF Count, Upto
  <2> QED
    BY <2>1, <2>2 DEF Left
<1> DEFINE T == {k \in 0..n : g[k] # w[k]}
<1>7. T = {}
  <2> SUFFICES ASSUME T # {} PROVE FALSE
    OBVIOUS
  <2> HIDE DEF g, w
  <2>1. PICK x \in T : \A y \in T : x <= y
    <3>1. T \subseteq Nat
      BY <1>0
    <3> HIDE DEF T
    <3> QED
      BY <3>1, LeastElement
  <2>2. x # 0 /\ x \in 0..n
    BY <1>0, <1>4, <1>5, <2>1
  <2>3. x - 1 \in 0..n /\ x - 1 \notin T
    BY <1>0, <2>1, <2>2
  <2> QED
    BY <1>4, <1>5, <2>1, <2>2, <2>3
<1>8. g[n] = w[n]
  <2> HIDE DEF g, w
  <2> QED
    BY <1>0, <1>7
<1> QED
  BY <1>3, <1>6, <1>8
---------------------------------------------------------------------------
(* The inductive invariant.                                                *)

FrameRecord == [inst : Nat, pc : Nat \ {0}, candidate : Nat \ {0}]

InstanceRecord ==
  [templ : Templates, cacheable : BOOLEAN, state : {"NONE", "INITIALIZING", "READY"},
   parent : Nat, chainRoot : Nat, runs : Nat]

Types ==
  /\ Heap(heap) /\ DOMAIN heap \subseteq Templates
  /\ cache \in Seq(Templates) /\ Len(cache) <= MaxCached
  /\ handles \in [Templates -> Nat]
  /\ instances \in Seq(InstanceRecord) /\ stack \in Seq(FrameRecord)
  /\ bytes \in Nat /\ leases \in Nat

(* Activations and parents are instances of the render, whose root the     *)
(* host keeps alive; without a render there is neither.                    *)
Rendering ==
  /\ \A k \in DOMAIN stack : stack[k].inst \in DOMAIN instances
  /\ \A k \in DOMAIN instances : instances[k].parent \in 0..Len(instances)
  /\ IF stack = << >> THEN instances = << >> /\ bytes = 0
     ELSE instances # << >> /\ handles[instances[1].templ] > 0

(* The template a load has in its hands, if any. *)
Flight == IF call.at \in {"release", "done"} THEN call.templ ELSE Null

(* What a load may rely on at each of its steps: its budget, its source,   *)
(* and that what it delivers is what was asked for and fits the budget.    *)
Calls ==
  /\ call.at \in {"idle", "loader", "admit", "release", "done"}
  /\ call.at = "idle" => call = NoCall
  /\ call.at # "idle" => call.name \in Names
  /\ call.at \in {"loader", "admit"} => call.remaining = MaxBytes - bytes
  /\ call.at \in {"admit", "release"} => call.source \in Sources
  /\ call.at \in {"release", "done"} => call.templ \in Templates \cup {Null}
  /\ call.at = "release" /\ call.templ # Null =>
       heap[call.templ].name = call.name /\ heap[call.templ].source = call.source
  /\ call.at = "done" => stack # << >>
  /\ Flight # Null =>
       heap[Flight].name = call.name /\ heap[Flight].source.len <= MaxBytes - bytes
  /\ call.at # "idle" /\ stack # << >> => Len(instances) <= MaxTemplates
  /\ leases = IF call.at \in {"admit", "release"} THEN 1 ELSE 0
  /\ bytes <= MaxBytes /\ Len(instances) <= MaxTemplates + 1

(* A name is cached once. *)
Unique ==
  \A j, k \in DOMAIN cache : heap[cache[j]].name = heap[cache[k]].name => j = k

(* The count of a template that somebody refers to is exact, or 0 if it    *)
(* was never cached and has one owner.                                     *)
Balanced(h, t, owners, cached) ==
  IF t \in DOMAIN h
  THEN \/ owners > 0 /\ h[t].references = owners
       \/ owners = 1 /\ h[t].references = 0 /\ cached = 0
  ELSE owners = 0

Exact == \A t \in Templates : Balanced(heap, t, Holders(t), Count(cache, t))

IInv == Types /\ Rendering /\ Calls /\ Unique /\ Exact

---------------------------------------------------------------------------
(* Releases and balances.                                                  *)

(* h differs from g at most in what it has lost and in the counts. *)
Thinned(g, h) ==
  /\ Heap(h) /\ DOMAIN h \subseteq DOMAIN g
  /\ \A t \in DOMAIN h : h[t].name = g[t].name /\ h[t].source = g[t].source

LEMMA DropFacts ==
  ASSUME NEW h, Heap(h), NEW t \in DOMAIN h
  PROVE  /\ Thinned(h, Drop(h, t))
         /\ DOMAIN Drop(h, t) = IF h[t].references <= 1 THEN DOMAIN h \ {t} ELSE DOMAIN h
         /\ \A u \in DOMAIN h : u # t => Drop(h, t)[u] = h[u]
         /\ h[t].references > 1 => Drop(h, t)[t].references = h[t].references - 1
<1>1. h[t] \in Record /\ h[t].references \in Nat /\ h = [u \in DOMAIN h |-> h[u]]
  BY DEF Heap, Record
<1>2. CASE h[t].references <= 1
  <2>1. Drop(h, t) = [u \in DOMAIN h \ {t} |-> h[u]]
    BY <1>2 DEF Drop, Without
  <2> QED
    BY <1>1, <1>2, <2>1 DEF Thinned, Heap
<1>3. CASE ~(h[t].references <= 1)
  <2> DEFINE new == [h[t] EXCEPT !.references = @ - 1]
  <2>1. Drop(h, t) = [u \in DOMAIN h |-> IF u = t THEN new ELSE h[u]]
    BY <1>1, <1>3 DEF Drop
  <2>2. new \in Record /\ new.references = h[t].references - 1
        /\ new.name = h[t].name /\ new.source = h[t].source
    BY <1>1, <1>3 DEF Record
  <2> HIDE DEF new
  <2> DEFINE g == Drop(h, t)
  <2>3. DOMAIN g = DOMAIN h /\ g = [u \in DOMAIN g |-> g[u]]
        /\ g[t] = new /\ \A u \in DOMAIN h : u # t => g[u] = h[u]
    BY <2>1
  <2> HIDE DEF g
  <2>4. \A u \in DOMAIN h : g[u] \in Record /\ g[u].name = h[u].name /\ g[u].source = h[u].source
    BY <2>2, <2>3 DEF Heap
  <2>5. Thinned(h, g)
    BY <2>3, <2>4 DEF Thinned, Heap
  <2> QED
    BY <1>1, <1>3, <2>2, <2>3, <2>5 DEF g
<1> QED
  BY <1>2, <1>3

LEMMA BalanceDrop ==
  ASSUME NEW h, Heap(h), NEW t, NEW owners \in Nat, owners > 0, NEW c, NEW d,
         Balanced(h, t, owners, c)
  PROVE  t \in DOMAIN h /\ Balanced(Drop(h, t), t, owners - 1, d)
<1>1. t \in DOMAIN h /\ h[t].references \in Nat
      /\ (h[t].references = owners \/ (owners = 1 /\ h[t].references = 0))
  BY DEF Balanced, Heap, Record
<1>2. /\ DOMAIN Drop(h, t) = IF h[t].references <= 1 THEN DOMAIN h \ {t} ELSE DOMAIN h
      /\ h[t].references > 1 => Drop(h, t)[t].references = h[t].references - 1
  BY <1>1, DropFacts
<1> QED
  BY <1>1, <1>2 DEF Balanced

LEMMA BalanceOther ==
  ASSUME NEW h, Heap(h), NEW t \in DOMAIN h, NEW u, u # t, NEW owners, NEW c,
         Balanced(h, u, owners, c)
  PROVE  Balanced(Drop(h, t), u, owners, c)
<1>1. (u \in DOMAIN Drop(h, t) <=> u \in DOMAIN h)
      /\ (u \in DOMAIN h => Drop(h, t)[u] = h[u])
  BY DropFacts
<1> QED
  BY <1>1 DEF Balanced

LEMMA LeftFacts ==
  ASSUME NEW h, Heap(h), NEW s, NEW n, Listed(s, n)
  PROVE  /\ Thinned(h, Left(h, s))
         /\ \A t \in DOMAIN h :
              t \in DOMAIN Left(h, s) <=> Count(s, t) = 0 \/ h[t].references > Count(s, t)
         /\ \A t \in DOMAIN Left(h, s) :
              Left(h, s)[t].references = h[t].references - Count(s, t)
<1> DEFINE D == {u \in DOMAIN h : Count(s, u) = 0 \/ h[u].references > Count(s, u)}
           L == Left(h, s)
<1>1. L = [t \in D |-> Lower(h[t], Count(s, t))]
  BY DEF Left
<1>2. DOMAIN L = D /\ L = [t \in DOMAIN L |-> L[t]] /\ D \subseteq DOMAIN h
  BY <1>1
<1>3. ASSUME NEW t \in D
      PROVE  /\ L[t] \in Record /\ L[t].references = h[t].references - Count(s, t)
             /\ L[t].name = h[t].name /\ L[t].source = h[t].source
  <2>1. h[t] \in Record /\ Count(s, t) \in Nat
    BY CountType DEF Heap
  <2>2. Count(s, t) <= h[t].references
    BY <2>1 DEF Record
  <2>3. L[t] = Lower(h[t], Count(s, t))
    BY <1>1
  <2> HIDE DEF L, D
  <2> QED
    BY <2>1, <2>2, <2>3, LowerFields
<1>4. Thinned(h, L)
  <2> HIDE DEF L, D
  <2> QED
    BY <1>2, <1>3 DEF Thinned, Heap
<1> QED
  BY <1>2, <1>3, <1>4

LEMMA BalanceLeft ==
  ASSUME NEW h, NEW g, NEW t, NEW owners \in Nat, NEW n \in Nat, n <= owners,
         NEW c \in Nat, NEW d \in Nat, d <= c, Balanced(h, t, owners, c),
         t \in DOMAIN g => t \in DOMAIN h,
         t \in DOMAIN h => h[t].references \in Nat,
         t \in DOMAIN h => (t \in DOMAIN g <=> n = 0 \/ h[t].references > n),
         t \in DOMAIN g => g[t].references = h[t].references - n
  PROVE  Balanced(g, t, owners - n, d)
<1>1. CASE t \notin DOMAIN h
  <2>1. owners = 0 /\ n = 0
    BY <1>1 DEF Balanced
  <2> QED
    BY <1>1, <2>1 DEF Balanced
<1>2. CASE t \in DOMAIN h
  <2> DEFINE x == h[t].references
             y == g[t].references
  <2>1. x \in Nat /\ (t \in DOMAIN g <=> n = 0 \/ x > n) /\ (t \in DOMAIN g => y = x - n)
    BY <1>2
  <2>2. (owners > 0 /\ x = owners) \/ (owners = 1 /\ x = 0 /\ c = 0)
    BY <1>2 DEF Balanced
  <2>3. IF t \in DOMAIN g
        THEN (owners - n > 0 /\ y = owners - n) \/ (owners - n = 1 /\ y = 0 /\ d = 0)
        ELSE owners - n = 0
    <3> HIDE DEF x, y
    <3>1. CASE owners > 0 /\ x = owners
      BY <2>1, <3>1
    <3>2. CASE owners = 1 /\ x = 0 /\ c = 0
      BY <2>1, <3>2
    <3> QED
      BY <2>2, <3>1, <3>2
  <2> QED
    BY <2>3 DEF Balanced
<1> QED
  BY <1>1, <1>2

(* Releasing s takes what s holds off the balance of each template. *)
LEMMA BalanceRelease ==
  ASSUME NEW h, Heap(h), NEW s \in Seq(Templates), NEW o \in [Templates -> Nat],
         NEW c \in [Templates -> Nat], DOMAIN h \subseteq Templates,
         \A t \in Templates : Balanced(h, t, o[t], c[t]) /\ Count(s, t) <= o[t]
  PROVE  /\ Thinned(h, DropAll(h, s))
         /\ \A t \in Templates : \A d \in Nat : d <= c[t] =>
              Balanced(DropAll(h, s), t, o[t] - Count(s, t), d)
<1>1. Listed(s, Len(s)) /\ \A i \in DOMAIN s : s[i] \in Templates
  BY DEF Listed
<1>2. ASSUME NEW t \in Templates
      PROVE  /\ Count(s, t) \in Nat /\ o[t] \in Nat /\ c[t] \in Nat /\ Count(s, t) <= o[t]
             /\ t \in DOMAIN h => h[t].references \in Nat
  BY <1>1, CountType DEF Heap, Record
<1>3. \A i \in DOMAIN s : s[i] \in DOMAIN h
  <2> TAKE i \in DOMAIN s
  <2>1. s[i] \in Templates
    BY <1>1
  <2>2. Count(s, s[i]) # 0
    BY <1>1, CountType
  <2>3. o[s[i]] # 0
    BY <1>2, <2>1, <2>2
  <2> QED
    BY <2>1, <2>3 DEF Balanced
<1>4. Covered(h, s)
  <2> SUFFICES ASSUME NEW t \in DOMAIN h
               PROVE  Count(s, t) <= h[t].references
                        \/ (Count(s, t) <= 1 /\ h[t].references = 0)
    BY DEF Covered
  <2>1. t \in Templates /\ Balanced(h, t, o[t], c[t])
    OBVIOUS
  <2>2. h[t].references = o[t] \/ (o[t] = 1 /\ h[t].references = 0)
    BY <2>1 DEF Balanced
  <2> QED
    BY <1>2, <2>1, <2>2
<1>5. DropAll(h, s) = Left(h, s)
  BY <1>1, <1>3, <1>4, DropAllLeaves
<1>6. /\ Thinned(h, Left(h, s))
      /\ \A t \in DOMAIN h :
           t \in DOMAIN Left(h, s) <=> Count(s, t) = 0 \/ h[t].references > Count(s, t)
      /\ \A t \in DOMAIN Left(h, s) :
           Left(h, s)[t].references = h[t].references - Count(s, t)
  BY <1>1, LeftFacts
<1>7. ASSUME NEW t \in Templates, NEW d \in Nat, d <= c[t]
      PROVE  Balanced(Left(h, s), t, o[t] - Count(s, t), d)
  <2> DEFINE L == Left(h, s)
             n == Count(s, t)
             x == o[t]
             y == c[t]
  <2>1. t \in DOMAIN L => t \in DOMAIN h
    BY <1>6 DEF Thinned
  <2>2. n \in Nat /\ x \in Nat /\ y \in Nat /\ n <= x /\ Balanced(h, t, x, y) /\ d <= y
        /\ (t \in DOMAIN h => h[t].references \in Nat)
    BY <1>2, <1>7
  <2>3. t \in DOMAIN h => (t \in DOMAIN L <=> n = 0 \/ h[t].references > n)
    BY <1>6
  <2>4. t \in DOMAIN L => L[t].references = h[t].references - n
    BY <1>6
  <2>5. Balanced(L, t, x - n, d)
    <3> HIDE DEF L, n, x, y
    <3> QED
      BY <2>1, <2>2, <2>3, <2>4, BalanceLeft
  <2> QED
    BY <2>5
<1> QED
  BY <1>5, <1>6, <1>7

---------------------------------------------------------------------------
(* Who owns a template.                                                    *)

InFlight(f, t) == IF f = t THEN 1 ELSE 0

Owners(hd, c, l, f, t) == hd[t] + Count(c, t) + Count(l, t) + InFlight(f, t)

LEMMA HoldersOwners ==
  ASSUME NEW t \in Templates
  PROVE  /\ Holders(t) = Owners(handles, cache, Loaded, Flight, t)
         /\ Holders(t)' = Owners(handles', cache', Loaded', Flight', t)
BY LoadingAssumption DEF Holders, Owners, Flight, InFlight

OwnersAdd(hd, c, l, f, t) ==
  /\ hd[t] \in Nat /\ Count(c, t) \in Nat /\ Count(l, t) \in Nat /\ InFlight(f, t) \in Nat
  /\ Owners(hd, c, l, f, t) \in Nat
  /\ Owners(hd, c, l, f, t) = hd[t] + Count(c, t) + Count(l, t) + InFlight(f, t)

LEMMA OwnersType ==
  ASSUME NEW hd \in [Templates -> Nat], NEW c \in Seq(Templates), NEW l \in Seq(Templates),
         NEW f, NEW t \in Templates
  PROVE  OwnersAdd(hd, c, l, f, t)
<1>1. Listed(c, Len(c)) /\ Listed(l, Len(l))
  BY DEF Listed
<1>2. Count(c, t) \in Nat /\ Count(l, t) \in Nat
  BY <1>1, CountType
<1>3. hd[t] \in Nat /\ InFlight(f, t) \in Nat
  BY DEF InFlight
<1> QED
  BY <1>2, <1>3 DEF OwnersAdd, Owners

LEMMA FunctionSeq ==
  ASSUME NEW S, NEW n \in Nat, NEW f \in [1..n -> S]
  PROVE  f \in Seq(S) /\ Len(f) = n
OBVIOUS

LEMMA LoadedFacts ==
  ASSUME NEW s \in Seq(InstanceRecord)
  PROVE  [k \in 1..Len(s) - 1 |-> s[k + 1].templ] \in Seq(Templates)
<1> DEFINE l == [k \in 1..Len(s) - 1 |-> s[k + 1].templ]
<1>1. CASE Len(s) = 0
  <2>1. 1..Len(s) - 1 = 1..0
    BY <1>1
  <2>2. l \in [1..0 -> Templates]
    BY <2>1
  <2> HIDE DEF l
  <2>3. l \in Seq(Templates)
    BY <2>2, FunctionSeq
  <2> QED
    BY <2>3 DEF l
<1>2. CASE Len(s) # 0
  <2>1. Len(s) - 1 \in Nat
    BY <1>2
  <2>2. \A k \in 1..Len(s) - 1 : s[k + 1] \in InstanceRecord
    OBVIOUS
  <2>3. l \in [1..Len(s) - 1 -> Templates]
    BY <2>2 DEF InstanceRecord
  <2> HIDE DEF l
  <2>4. l \in Seq(Templates)
    BY <2>1, <2>3, FunctionSeq
  <2> QED
    BY <2>4 DEF l
<1> QED
  BY <1>1, <1>2

LEMMA LoadedType ==
  /\ Types => Loaded \in Seq(Templates)
  /\ Types' => Loaded' \in Seq(Templates)
BY LoadedFacts DEF Types, Loaded

(* Whatever is referred to is alive. *)
LEMMA OwnedAlive ==
  ASSUME Types, Exact, NEW t \in Templates, Owners(handles, cache, Loaded, Flight, t) # 0
  PROVE  t \in DOMAIN heap
BY HoldersOwners DEF Exact, Balanced

LEMMA Alive ==
  ASSUME Types, Exact
  PROVE  /\ \A t \in Templates : handles[t] > 0 => t \in DOMAIN heap
         /\ \A k \in DOMAIN cache : cache[k] \in DOMAIN heap
         /\ \A k \in DOMAIN Loaded : Loaded[k] \in DOMAIN heap
         /\ Flight \in Templates => Flight \in DOMAIN heap
<1>1. handles \in [Templates -> Nat] /\ cache \in Seq(Templates) /\ Loaded \in Seq(Templates)
  BY LoadedType DEF Types
<1>2. ASSUME NEW t \in Templates
      PROVE  /\ handles[t] \in Nat /\ Count(cache, t) \in Nat /\ Count(Loaded, t) \in Nat
             /\ InFlight(Flight, t) \in Nat
             /\ Owners(handles, cache, Loaded, Flight, t)
                  = handles[t] + Count(cache, t) + Count(Loaded, t) + InFlight(Flight, t)
  <2>1. OwnersAdd(handles, cache, Loaded, Flight, t)
    BY <1>1, OwnersType
  <2> QED
    BY <2>1 DEF OwnersAdd
<1>3. ASSUME NEW t \in Templates,
             handles[t] # 0 \/ Count(cache, t) # 0 \/ Count(Loaded, t) # 0 \/ InFlight(Flight, t) # 0
      PROVE  t \in DOMAIN heap
  <2>1. Owners(handles, cache, Loaded, Flight, t) # 0
    BY <1>2, <1>3
  <2> QED
    BY <2>1, OwnedAlive
<1>4. \A t \in Templates : handles[t] > 0 => t \in DOMAIN heap
  BY <1>2, <1>3
<1>5. \A k \in DOMAIN cache : cache[k] \in DOMAIN heap
  <2>1. Listed(cache, Len(cache)) /\ \A k \in DOMAIN cache : cache[k] \in Templates
    BY <1>1 DEF Listed
  <2>2. \A k \in DOMAIN cache : Count(cache, cache[k]) # 0
    BY <2>1, CountType
  <2> QED
    BY <1>3, <2>1, <2>2
<1>6. \A k \in DOMAIN Loaded : Loaded[k] \in DOMAIN heap
  <2>1. Listed(Loaded, Len(Loaded)) /\ \A k \in DOMAIN Loaded : Loaded[k] \in Templates
    BY <1>1 DEF Listed
  <2>2. \A k \in DOMAIN Loaded : Count(Loaded, Loaded[k]) # 0
    BY <2>1, CountType
  <2> QED
    BY <1>3, <2>1, <2>2
<1>7. Flight \in Templates => Flight \in DOMAIN heap
  <2>1. InFlight(Flight, Flight) # 0
    BY DEF InFlight
  <2> QED
    BY <1>3, <2>1
<1> QED
  BY <1>4, <1>5, <1>6, <1>7

(* The body an activation executes is that of a live template. *)
LEMMA CurrentAlive ==
  ASSUME IInv, stack # << >>
  PROVE  /\ Len(stack) \in Nat \ {0} /\ Top \in FrameRecord /\ Top.inst \in DOMAIN instances
         /\ Current \in InstanceRecord /\ Current.templ \in DOMAIN heap
         /\ Body \in Seq(References)
<1>1. Types /\ Rendering /\ Exact
  BY DEF IInv
<1>2. stack \in Seq(FrameRecord) /\ instances \in Seq(InstanceRecord)
      /\ handles \in [Templates -> Nat] /\ Heap(heap)
  BY <1>1 DEF Types
<1>3. Len(stack) \in Nat \ {0} /\ Len(stack) \in DOMAIN stack /\ Top \in FrameRecord
  BY <1>2 DEF Top
<1>4. Top.inst \in DOMAIN instances
  BY <1>1, <1>3 DEF Rendering, Top
<1>5. Current \in InstanceRecord /\ Current.templ \in Templates
  <2>1. Current \in InstanceRecord
    BY <1>2, <1>4 DEF Current
  <2> QED
    BY <2>1 DEF InstanceRecord
<1>6. Current.templ \in DOMAIN heap
  <2>1. CASE Top.inst = 1
    <3>1. handles[Current.templ] > 0
      BY <1>1, <2>1 DEF Rendering, Current
    <3> QED
      BY <1>1, <1>5, <3>1, Alive
  <2>2. CASE Top.inst # 1
    <3>1. Top.inst \in 1..Len(instances) /\ Len(instances) \in Nat
      BY <1>2, <1>4
    <3>2. Top.inst - 1 \in 1..Len(instances) - 1 /\ (Top.inst - 1) + 1 = Top.inst
      BY <2>2, <3>1
    <3>3. Top.inst - 1 \in DOMAIN Loaded /\ Loaded[Top.inst - 1] = Current.templ
      BY <3>2 DEF Loaded, Current
    <3> QED
      BY <1>1, <3>3, Alive
  <2> QED
    BY <2>1, <2>2
<1>7. heap[Current.templ].source \in Sources
  BY <1>2, <1>6 DEF Heap, Record
<1>8. Body \in Seq(References)
  BY <1>7, LoadingAssumption DEF Body
<1> QED
  BY <1>3, <1>4, <1>5, <1>6, <1>8

LEMMA ExactKept ==
  ASSUME Exact, Unique, UNCHANGED <<heap, cache>>,
         \A t \in Templates : Owners(handles', cache', Loaded', Flight', t)
                                = Owners(handles, cache, Loaded, Flight, t)
  PROVE  Exact' /\ Unique'
<1>1. Unique'
  BY DEF Unique
<1>2. \A t \in Templates : Holders(t)' = Holders(t)
  BY HoldersOwners
<1>3. \A t \in Templates : Balanced(heap', t, Holders(t)', Count(cache', t))
  BY <1>2 DEF Exact
<1> QED
  BY <1>1, <1>3 DEF Exact

(* No load, nothing held by one. *)
LEMMA CallsIdle ==
  ASSUME call' = NoCall, leases' = 0, bytes' <= MaxBytes, Len(instances') <= MaxTemplates + 1
  PROVE  Calls' /\ Flight' = Null
BY DEF Calls, Flight, NoCall

LEMMA IdleFacts ==
  ASSUME Calls, call = NoCall
  PROVE  leases = 0 /\ Flight = Null /\ bytes <= MaxBytes /\ Len(instances) <= MaxTemplates + 1
BY DEF Calls, NoCall, Flight

(* A step that neither takes nor gives up a reference. *)
LEMMA QuietStep ==
  ASSUME IInv, UNCHANGED <<heap, cache, handles>>, Loaded' = Loaded, Flight' = Flight,
         instances' \in Seq(InstanceRecord), stack' \in Seq(FrameRecord),
         bytes' \in Nat, leases' \in Nat, Rendering', Calls'
  PROVE  IInv'
<1>1. Types /\ Exact /\ Unique
  BY DEF IInv
<1>2. Types'
  BY <1>1 DEF Types
<1>3. Exact' /\ Unique'
  BY <1>1, ExactKept
<1> QED
  BY <1>2, <1>3 DEF IInv

LEMMA BoundsTypes ==
  /\ MaxBytes \in Nat /\ MaxTemplates \in Nat /\ MaxDepth \in Nat
  /\ MaxCached \in Nat /\ MaxCached > 0 /\ Null \notin Templates
BY LoadingAssumption

LEMMA EnvLoadStep ==
  ASSUME IInv, NEW n \in Names, EnvLoad(n)
  PROVE  IInv'
<1>1. Types /\ Rendering /\ Calls
  BY DEF IInv
<1>2. /\ call = NoCall /\ stack = << >>
      /\ call' = [at |-> "loader", name |-> n, remaining |-> MaxBytes]
      /\ UNCHANGED <<heap, cache, handles, leases, instances, stack, bytes>>
  BY DEF EnvLoad, Idle
<1>3. leases = 0 /\ Flight = Null /\ bytes <= MaxBytes /\ Len(instances) <= MaxTemplates + 1
  BY <1>1, <1>2, IdleFacts
<1>4. bytes = 0
  BY <1>1, <1>2 DEF Rendering
<1>5. Flight' = Null
  BY <1>2 DEF Flight
<1>6. Calls'
  BY <1>2, <1>3, <1>4, <1>5, BoundsTypes DEF Calls
<1>7. Rendering' /\ Loaded' = Loaded
  BY <1>1, <1>2 DEF Rendering, Loaded
<1> QED
  BY <1>1, <1>2, <1>3, <1>5, <1>6, <1>7, QuietStep DEF Types

LEMMA RenderStep ==
  ASSUME IInv, NEW t \in Templates, Render(t)
  PROVE  IInv'
<1>1. Types /\ Rendering /\ Calls
  BY DEF IInv
<1> DEFINE i == [templ |-> t, cacheable |-> FALSE, state |-> "NONE",
                 parent |-> 0, chainRoot |-> 1, runs |-> 1]
           f == [inst |-> 1, pc |-> 1, candidate |-> 1]
<1>2. /\ call = NoCall /\ stack = << >> /\ handles[t] > 0
      /\ instances' = <<i>> /\ stack' = <<f>>
      /\ UNCHANGED <<heap, cache, handles, leases, call, bytes>>
  BY DEF Render, Idle
<1>3. i \in InstanceRecord /\ f \in FrameRecord
  <2>1. PICK b \in BOOLEAN : b = FALSE
    OBVIOUS
  <2>2. [templ |-> t, cacheable |-> b, state |-> "NONE", parent |-> 0, chainRoot |-> 1,
         runs |-> 1] \in InstanceRecord
    BY DEF InstanceRecord
  <2>3. i \in InstanceRecord
    BY Zenon, <2>1, <2>2
  <2>4. f \in FrameRecord
    BY DEF FrameRecord
  <2> QED
    BY <2>3, <2>4
<1>4. i.templ = t /\ i.parent = 0 /\ f.inst = 1
  OBVIOUS
<1> HIDE DEF i, f
<1>5. leases = 0 /\ Flight = Null /\ bytes <= MaxBytes /\ Len(instances) <= MaxTemplates + 1
  BY <1>1, <1>2, IdleFacts
<1>6. instances' \in Seq(InstanceRecord) /\ stack' \in Seq(FrameRecord)
      /\ Len(instances') = 1 /\ Len(stack') = 1 /\ instances'[1] = i /\ stack'[1] = f
  BY <1>2, <1>3
<1>7. Calls' /\ Flight' = Null
  BY <1>2, <1>5, <1>6, CallsIdle, BoundsTypes
<1>8. Rendering'
  <2>1. DOMAIN instances' = {1} /\ DOMAIN stack' = {1}
    BY <1>2
  <2>2. stack' # << >> /\ instances' # << >> /\ handles'[instances'[1].templ] > 0
    BY <1>2, <1>4, <1>6
  <2> QED
    BY <1>4, <1>6, <2>1, <2>2 DEF Rendering
<1>9. Loaded' = Loaded
  <2>1. instances = << >> /\ Len(instances) = 0
    BY <1>1, <1>2 DEF Rendering
  <2>2. 1..Len(instances) - 1 = {} /\ 1..Len(instances') - 1 = {}
    BY <1>6, <2>1
  <2> QED
    BY <2>2 DEF Loaded
<1> QED
  BY <1>1, <1>2, <1>5, <1>6, <1>7, <1>8, <1>9, QuietStep DEF Types

LEMMA SameRender ==
  ASSUME Types, Rendering, UNCHANGED <<handles, instances, stack, bytes>>
  PROVE  /\ Rendering' /\ Loaded' = Loaded
         /\ instances' \in Seq(InstanceRecord) /\ stack' \in Seq(FrameRecord) /\ bytes' \in Nat
BY DEF Rendering, Loaded, Types

LEMMA LoaderFailsStep ==
  ASSUME IInv, LoaderFails
  PROVE  IInv'
<1>1. Types /\ Rendering /\ Calls
  BY DEF IInv
<1>2. PICK missing \in BOOLEAN : call' = Answer(Null, missing)
  BY DEF LoaderFails
<1>3. call.at = "loader" /\ UNCHANGED <<heap, cache, handles, leases, instances, stack, bytes>>
  BY DEF LoaderFails
<1>4. /\ Flight = Null /\ leases = 0 /\ call.name \in Names
      /\ bytes <= MaxBytes /\ Len(instances) <= MaxTemplates + 1
      /\ stack # << >> => Len(instances) <= MaxTemplates
  BY <1>1, <1>3 DEF Calls, Flight
<1>5. Calls' /\ Flight' = Null
  <2>1. CASE stack = << >>
    BY <1>2, <1>3, <1>4, <2>1, CallsIdle DEF Answer
  <2>2. CASE stack # << >>
    <3>1. call' = [at |-> "done", name |-> call.name, templ |-> Null, missing |-> missing]
      BY <1>2, <2>2 DEF Answer
    <3>2. Flight' = Null
      BY <3>1 DEF Flight
    <3> QED
      BY <1>3, <1>4, <2>2, <3>1, <3>2 DEF Calls
  <2> QED
    BY <2>1, <2>2
<1> QED
  BY <1>1, <1>3, <1>4, <1>5, SameRender, QuietStep

LEMMA LoaderGrantsStep ==
  ASSUME IInv, LoaderGrants
  PROVE  IInv'
<1>1. Types /\ Rendering /\ Calls
  BY DEF IInv
<1>2. /\ call.at = "loader" /\ leases' = leases + 1
      /\ UNCHANGED <<heap, cache, handles, instances, stack, bytes>>
  BY DEF LoaderGrants
<1>3. PICK s \in Loader[call.name] :
        call' = [at |-> "admit", name |-> call.name, remaining |-> call.remaining, source |-> s]
  BY DEF LoaderGrants
<1>4. /\ Flight = Null /\ leases = 0 /\ call.name \in Names /\ call.remaining = MaxBytes - bytes
      /\ bytes <= MaxBytes /\ Len(instances) <= MaxTemplates + 1
      /\ stack # << >> => Len(instances) <= MaxTemplates
  BY <1>1, <1>2 DEF Calls, Flight
<1>5. s \in Sources
  BY <1>3, <1>4, LoadingAssumption
<1>6. Flight' = Null
  BY <1>3 DEF Flight
<1>7. leases' = 1
  BY <1>2, <1>4
<1>8. Calls'
  BY <1>2, <1>3, <1>4, <1>5, <1>6, <1>7 DEF Calls
<1> QED
  BY <1>1, <1>2, <1>4, <1>6, <1>7, <1>8, SameRender, QuietStep

LEMMA AdmitFacts ==
  ASSUME Calls, call.at = "admit"
  PROVE  /\ Flight = Null /\ leases = 1 /\ call.name \in Names /\ call.source \in Sources
         /\ call.remaining = MaxBytes - bytes
         /\ bytes <= MaxBytes /\ Len(instances) <= MaxTemplates + 1
         /\ stack # << >> => Len(instances) <= MaxTemplates
BY DEF Calls, Flight

LEMMA RefuseStep ==
  ASSUME IInv, Refuse
  PROVE  IInv'
<1>1. Types /\ Rendering /\ Calls
  BY DEF IInv
<1>2. /\ call.at = "admit"
      /\ call' = [at |-> "release", name |-> call.name, source |-> call.source, templ |-> Null]
      /\ UNCHANGED <<heap, cache, handles, leases, instances, stack, bytes>>
  BY DEF Refuse, WithLease
<1>3. Flight' = Null
  BY <1>2 DEF Flight
<1>4. Calls'
  BY <1>1, <1>2, <1>3, AdmitFacts DEF Calls
<1> QED
  BY <1>1, <1>2, <1>3, <1>4, AdmitFacts, SameRender, QuietStep

(* A template in the hands of the load, found or compiled. *)
LEMMA WithLeaseCalls ==
  ASSUME Calls, call.at = "admit", Admitted, NEW t \in Templates, call' = WithLease(t),
         heap'[t].name = call.name, heap'[t].source = call.source,
         UNCHANGED <<leases, instances, stack, bytes>>
  PROVE  Calls' /\ Flight' = t
<1>1. call' = [at |-> "release", name |-> call.name, source |-> call.source, templ |-> t]
  BY DEF WithLease
<1>2. Flight' = t
  BY <1>1 DEF Flight
<1>3. heap'[t].source.len <= MaxBytes - bytes
  BY AdmitFacts DEF Admitted
<1> QED
  BY <1>1, <1>2, <1>3, AdmitFacts DEF Calls

---------------------------------------------------------------------------
(* Steps that move references.                                             *)

(* Every count is right for these owners. *)
Sound(h, hd, c, l, f) ==
  \A t \in Templates : Balanced(h, t, Owners(hd, c, l, f, t), Count(c, t))

LEMMA ExactSound ==
  /\ Exact <=> Sound(heap, handles, cache, Loaded, Flight)
  /\ Exact' <=> Sound(heap', handles', cache', Loaded', Flight')
BY HoldersOwners DEF Exact, Sound

LEMMA CachedAlive ==
  ASSUME NEW h, NEW hd \in [Templates -> Nat], NEW c \in Seq(Templates),
         NEW l \in Seq(Templates), NEW f, Sound(h, hd, c, l, f), NEW k \in DOMAIN c
  PROVE  c[k] \in Templates /\ c[k] \in DOMAIN h /\ Count(c, c[k]) > 0
<1>1. Listed(c, Len(c)) /\ c[k] \in Templates
  BY DEF Listed
<1>2. Count(c, c[k]) # 0
  BY <1>1, CountType
<1> DEFINE t == c[k]
<1>3. t \in Templates /\ Count(c, t) # 0
  BY <1>1, <1>2
<1> HIDE DEF t
<1>4. /\ hd[t] \in Nat /\ Count(c, t) \in Nat /\ Count(l, t) \in Nat /\ InFlight(f, t) \in Nat
      /\ Owners(hd, c, l, f, t) = hd[t] + Count(c, t) + Count(l, t) + InFlight(f, t)
  <2>1. OwnersAdd(hd, c, l, f, t)
    BY <1>3, OwnersType
  <2> QED
    BY <2>1 DEF OwnersAdd
<1>5. Owners(hd, c, l, f, t) # 0 /\ Count(c, t) > 0
  BY <1>3, <1>4
<1>6. t \in DOMAIN h
  BY <1>3, <1>5 DEF Sound, Balanced
<1> QED
  BY <1>3, <1>5, <1>6 DEF t

LEMMA UniqueKept ==
  ASSUME Unique, UNCHANGED cache, Thinned(heap, heap'),
         \A k \in DOMAIN cache' : cache'[k] \in DOMAIN heap'
  PROVE  Unique'
BY DEF Unique, Thinned

LEMMA ThinnedTypes ==
  ASSUME Types, Thinned(heap, heap')
  PROVE  Heap(heap') /\ DOMAIN heap' \subseteq Templates
BY DEF Types, Thinned

LEMMA ReleaseStep ==
  ASSUME IInv, NEW t \in Templates, Release(t)
  PROVE  IInv'
<1>1. Types /\ Rendering /\ Calls /\ Unique /\ Exact
  BY DEF IInv
<1>2. /\ call = NoCall /\ stack = << >> /\ handles[t] > 0
      /\ heap' = Drop(heap, t) /\ handles' = [handles EXCEPT ![t] = @ - 1]
      /\ UNCHANGED <<cache, leases, call, instances, stack, bytes>>
  BY DEF Release, Idle
<1>3. /\ Heap(heap) /\ handles \in [Templates -> Nat] /\ cache \in Seq(Templates)
      /\ Loaded \in Seq(Templates)
  BY <1>1, LoadedType DEF Types
<1>4. t \in DOMAIN heap
  BY <1>1, <1>2, Alive
<1>5. Thinned(heap, heap')
  BY <1>2, <1>3, <1>4, DropFacts
<1>6. /\ handles' \in [Templates -> Nat] /\ handles'[t] = handles[t] - 1
      /\ \A u \in Templates : u # t => handles'[u] = handles[u]
  BY <1>2, <1>3
<1>7. Types'
  BY <1>1, <1>2, <1>5, <1>6, ThinnedTypes DEF Types
<1>8. Calls' /\ Flight' = Flight
  BY <1>1, <1>2, CallsIdle, IdleFacts
<1>9. Rendering' /\ Loaded' = Loaded
  BY <1>1, <1>2 DEF Rendering, Loaded
<1>10. Sound(heap', handles', cache', Loaded', Flight')
  <2> SUFFICES ASSUME NEW u \in Templates
               PROVE  Balanced(heap', u, Owners(handles', cache, Loaded, Flight, u), Count(cache, u))
    BY <1>2, <1>8, <1>9 DEF Sound
  <2> DEFINE o == Owners(handles, cache, Loaded, Flight, u)
             p == Owners(handles', cache, Loaded, Flight, u)
  <2>1. /\ handles[u] \in Nat /\ Count(cache, u) \in Nat /\ Count(Loaded, u) \in Nat
        /\ InFlight(Flight, u) \in Nat /\ o \in Nat
        /\ o = handles[u] + Count(cache, u) + Count(Loaded, u) + InFlight(Flight, u)
    <3>1. OwnersAdd(handles, cache, Loaded, Flight, u)
      BY <1>3, OwnersType
    <3> QED
      BY <3>1 DEF OwnersAdd
  <2>2. p = handles'[u] + Count(cache, u) + Count(Loaded, u) + InFlight(Flight, u)
    BY DEF Owners
  <2>3. Balanced(heap, u, o, Count(cache, u))
    BY <1>1, ExactSound DEF Sound
  <2> HIDE DEF o, p
  <2>4. CASE u = t
    <3> DEFINE a == handles[u]
               b == Count(cache, u)
               c == Count(Loaded, u)
               d == InFlight(Flight, u)
    <3>0. a \in Nat /\ a > 0 /\ b \in Nat /\ c \in Nat /\ d \in Nat
          /\ o = a + b + c + d /\ p = (a - 1) + b + c + d
      BY <1>2, <1>6, <2>1, <2>2, <2>4
    <3> HIDE DEF a, b, c, d
    <3>1. o > 0 /\ p = o - 1
      BY <3>0
    <3>2. Balanced(Drop(heap, u), u, o - 1, Count(cache, u))
      BY <1>3, <2>1, <2>3, <3>1, BalanceDrop
    <3> QED
      BY <1>2, <2>4, <3>1, <3>2 DEF p
  <2>5. CASE u # t
    <3>1. p = o
      BY <1>6, <2>1, <2>2, <2>5
    <3>2. Balanced(Drop(heap, t), u, o, Count(cache, u))
      BY <1>3, <1>4, <2>3, <2>5, BalanceOther
    <3> QED
      BY <1>2, <3>1, <3>2 DEF p
  <2> QED
    BY <2>4, <2>5
<1>11. Exact'
  BY <1>10, ExactSound
<1>12. Unique'
  <2>1. handles' \in [Templates -> Nat] /\ cache' \in Seq(Templates) /\ Loaded' \in Seq(Templates)
    BY <1>7, LoadedType DEF Types
  <2>2. \A k \in DOMAIN cache' : cache'[k] \in DOMAIN heap'
    BY <1>10, <2>1, CachedAlive
  <2> QED
    BY <1>1, <1>2, <1>5, <2>2, UniqueKept
<1> QED
  BY <1>7, <1>8, <1>9, <1>11, <1>12 DEF IInv

LEMMA CountEmpty ==
  ASSUME NEW e \in Seq(Templates), Len(e) = 0, NEW t
  PROVE  Count(e, t) = 0
<1>1. Listed(e, 0) /\ DOMAIN e = {}
  BY DEF Listed
<1> QED
  BY <1>1, CountType

LEMMA SoundReleased ==
  ASSUME NEW h, Heap(h), DOMAIN h \subseteq Templates, NEW hd \in [Templates -> Nat],
         NEW c \in Seq(Templates), NEW l \in Seq(Templates), NEW f, Sound(h, hd, c, l, f),
         NEW e \in Seq(Templates), Len(e) = 0
  PROVE  /\ Thinned(h, DropAll(h, c)) /\ Sound(DropAll(h, c), hd, e, l, f)
         /\ Thinned(h, DropAll(h, l)) /\ Sound(DropAll(h, l), hd, c, e, f)
<1> DEFINE o == [t \in Templates |-> Owners(hd, c, l, f, t)]
           n == [t \in Templates |-> Count(c, t)]
<1>1. ASSUME NEW t \in Templates
      PROVE  /\ hd[t] \in Nat /\ Count(c, t) \in Nat /\ Count(l, t) \in Nat
             /\ InFlight(f, t) \in Nat /\ Owners(hd, c, l, f, t) \in Nat /\ Count(e, t) = 0
             /\ Owners(hd, c, l, f, t) = hd[t] + Count(c, t) + Count(l, t) + InFlight(f, t)
             /\ Owners(hd, e, l, f, t) = hd[t] + Count(l, t) + InFlight(f, t)
             /\ Owners(hd, c, e, f, t) = hd[t] + Count(c, t) + InFlight(f, t)
  <2>1. /\ hd[t] \in Nat /\ Count(c, t) \in Nat /\ Count(l, t) \in Nat
        /\ InFlight(f, t) \in Nat /\ Owners(hd, c, l, f, t) \in Nat
    <3>1. OwnersAdd(hd, c, l, f, t)
      BY OwnersType
    <3> QED
      BY <3>1 DEF OwnersAdd
  <2>2. Count(e, t) = 0
    BY CountEmpty
  <2> QED
    BY <2>1, <2>2 DEF Owners
<1>2. o \in [Templates -> Nat] /\ n \in [Templates -> Nat]
      /\ \A t \in Templates : o[t] = Owners(hd, c, l, f, t) /\ n[t] = Count(c, t)
  BY <1>1
<1>3. \A t \in Templates : Balanced(h, t, o[t], n[t])
  BY <1>2 DEF Sound
<1> HIDE DEF o, n
<1>4. Thinned(h, DropAll(h, c)) /\ Sound(DropAll(h, c), hd, e, l, f)
  <2>1. \A t \in Templates : Balanced(h, t, o[t], n[t]) /\ Count(c, t) <= o[t]
    BY <1>1, <1>2, <1>3
  <2>2. /\ Thinned(h, DropAll(h, c))
        /\ \A t \in Templates : \A d \in Nat : d <= n[t] =>
             Balanced(DropAll(h, c), t, o[t] - Count(c, t), d)
    BY <1>2, <2>1, BalanceRelease
  <2>3. ASSUME NEW t \in Templates
        PROVE  Balanced(DropAll(h, c), t, Owners(hd, e, l, f, t), Count(e, t))
    <3>1. 0 <= n[t] /\ o[t] - Count(c, t) = Owners(hd, e, l, f, t) /\ Count(e, t) = 0
      BY <1>1, <1>2
    <3>2. Balanced(DropAll(h, c), t, o[t] - Count(c, t), 0)
      BY <2>2, <3>1
    <3> QED
      BY <3>1, <3>2
  <2> QED
    BY <2>2, <2>3 DEF Sound
<1>5. Thinned(h, DropAll(h, l)) /\ Sound(DropAll(h, l), hd, c, e, f)
  <2>1. \A t \in Templates : Balanced(h, t, o[t], n[t]) /\ Count(l, t) <= o[t]
    BY <1>1, <1>2, <1>3
  <2>2. /\ Thinned(h, DropAll(h, l))
        /\ \A t \in Templates : \A d \in Nat : d <= n[t] =>
             Balanced(DropAll(h, l), t, o[t] - Count(l, t), d)
    BY <1>2, <2>1, BalanceRelease
  <2>3. ASSUME NEW t \in Templates
        PROVE  Balanced(DropAll(h, l), t, Owners(hd, c, e, f, t), Count(c, t))
    <3>1. n[t] <= n[t] /\ n[t] \in Nat /\ n[t] = Count(c, t)
          /\ o[t] - Count(l, t) = Owners(hd, c, e, f, t)
      BY <1>1, <1>2
    <3>2. Balanced(DropAll(h, l), t, o[t] - Count(l, t), n[t])
      BY <2>2, <3>1
    <3> QED
      BY <3>1, <3>2
  <2> QED
    BY <2>2, <2>3 DEF Sound
<1> QED
  BY <1>4, <1>5

LEMMA CacheClearStep ==
  ASSUME IInv, CacheClear
  PROVE  IInv'
<1>1. Types /\ Rendering /\ Calls /\ Unique /\ Exact
  BY DEF IInv
<1>2. /\ call = NoCall /\ stack = << >> /\ heap' = DropAll(heap, cache) /\ cache' = << >>
      /\ UNCHANGED <<handles, leases, call, instances, stack, bytes>>
  BY DEF CacheClear, Idle
<1>3. /\ Heap(heap) /\ DOMAIN heap \subseteq Templates /\ handles \in [Templates -> Nat]
      /\ cache \in Seq(Templates) /\ Loaded \in Seq(Templates)
      /\ Sound(heap, handles, cache, Loaded, Flight)
  BY <1>1, LoadedType, ExactSound DEF Types
<1>4. cache' \in Seq(Templates) /\ Len(cache') = 0 /\ DOMAIN cache' = {}
  BY <1>2
<1>5. Thinned(heap, heap') /\ Sound(heap', handles, cache', Loaded, Flight)
  BY <1>2, <1>3, <1>4, SoundReleased
<1>6. Calls' /\ Flight' = Flight
  BY <1>1, <1>2, CallsIdle, IdleFacts
<1>7. Rendering' /\ Loaded' = Loaded
  BY <1>1, <1>2 DEF Rendering, Loaded
<1>8. Types'
  BY <1>1, <1>2, <1>4, <1>5, ThinnedTypes, BoundsTypes DEF Types
<1>9. Exact'
  BY <1>2, <1>5, <1>6, <1>7, ExactSound
<1>10. Unique'
  BY <1>4 DEF Unique
<1> QED
  BY <1>6, <1>7, <1>8, <1>9, <1>10 DEF IInv

(* A render that ends gives back everything it loaded. *)
LEMMA EndRenderStep ==
  ASSUME Types, Unique, leases = 0, NEW h, Thinned(heap, h),
         Sound(h, handles, cache, Loaded, Null), EndRender(h)
  PROVE  IInv'
<1>1. /\ heap' = DropAll(h, Loaded) /\ instances' = << >> /\ stack' = << >> /\ bytes' = 0
      /\ call' = NoCall /\ UNCHANGED <<cache, handles, leases>>
  BY DEF EndRender
<1>2. /\ Heap(h) /\ DOMAIN h \subseteq Templates /\ handles \in [Templates -> Nat]
      /\ cache \in Seq(Templates) /\ Loaded \in Seq(Templates)
  BY LoadedType DEF Types, Thinned
<1>3. instances' \in Seq(InstanceRecord) /\ stack' \in Seq(FrameRecord) /\ bytes' \in Nat
      /\ Len(instances') = 0 /\ DOMAIN instances' = {} /\ DOMAIN stack' = {}
  BY <1>1
<1>4. Loaded' \in Seq(Templates) /\ Len(Loaded') = 0
  <2>1. Loaded' \in Seq(Templates)
    BY <1>3, LoadedFacts DEF Loaded
  <2>2. DOMAIN Loaded' = {}
    BY <1>3 DEF Loaded
  <2> QED
    BY <2>1, <2>2
<1>5. Thinned(h, heap') /\ Sound(heap', handles, cache, Loaded', Null)
  BY <1>1, <1>2, <1>4, SoundReleased
<1>6. Thinned(heap, heap')
  BY <1>5 DEF Thinned
<1>7. Calls' /\ Flight' = Null
  BY <1>1, <1>3, CallsIdle, BoundsTypes
<1>8. Rendering'
  BY <1>1, <1>3 DEF Rendering
<1>9. Types'
  BY <1>1, <1>3, <1>6, ThinnedTypes DEF Types
<1>10. Sound(heap', handles', cache', Loaded', Flight')
  BY <1>1, <1>5, <1>7
<1>11. \A k \in DOMAIN cache' : cache'[k] \in DOMAIN heap'
  BY <1>1, <1>2, <1>4, <1>10, CachedAlive
<1>12. Unique'
  BY <1>1, <1>6, <1>11, UniqueKept
<1> QED
  BY <1>7, <1>8, <1>9, <1>10, <1>12, ExactSound DEF IInv

(* The same from any state of a render that holds no template in a load. *)
LEMMA EndRenderHere ==
  ASSUME IInv, leases = 0, Flight = Null, EndRender(heap)
  PROVE  IInv'
<1>1. Types /\ Unique /\ Exact
  BY DEF IInv
<1>2. Sound(heap, handles, cache, Loaded, Null)
  BY <1>1, ExactSound
<1>3. Thinned(heap, heap)
  BY <1>1 DEF Types, Thinned
<1> QED
  BY <1>1, <1>2, <1>3, EndRenderStep

LEMMA FreshFacts ==
  ASSUME Types, Spare
  PROVE  Fresh \in Templates /\ Fresh \notin DOMAIN heap
<1>1. \E t \in Templates : t \notin DOMAIN heap
  BY DEF Types, Spare
<1> QED
  BY <1>1 DEF Fresh

(* What jinja_env_compile adds to the heap. *)
Extended(g, h, t, name, source, n) ==
  /\ Heap(h) /\ DOMAIN h = DOMAIN g \cup {t}
  /\ h[t].name = name /\ h[t].source = source /\ h[t].references = n
  /\ \A u \in DOMAIN g : h[u] = g[u]

LEMMA CompiledFacts ==
  ASSUME Types, Spare, NEW n \in Names, NEW s \in Sources
  PROVE  /\ Extended(heap, Compiled(n, s), Fresh, n, s, 0)
         /\ Extended(heap, [Compiled(n, s) EXCEPT ![Fresh].references = 2], Fresh, n, s, 2)
<1> DEFINE r == [name |-> n, source |-> s, references |-> 0]
           q == [name |-> n, source |-> s, references |-> 2]
           f == Fresh
           D == DOMAIN heap \cup {f}
<1>1. r \in Record /\ r.name = n /\ r.source = s /\ r.references = 0
      /\ q \in Record /\ q.name = n /\ q.source = s /\ q.references = 2
      /\ q = [r EXCEPT !.references = 2]
  BY DEF Record
<1>2. f \in Templates /\ f \notin DOMAIN heap
  BY FreshFacts
<1>3. Compiled(n, s) = [t \in D |-> IF t = f THEN r ELSE heap[t]]
  BY DEF Compiled
<1>4. [Compiled(n, s) EXCEPT ![f].references = 2] = [t \in D |-> IF t = f THEN q ELSE heap[t]]
  <2> HIDE DEF r, q, f
  <2> QED
    BY <1>1, <1>3
<1>5. \A t \in DOMAIN heap : heap[t] \in Record
  BY DEF Types, Heap
<1> HIDE DEF r, q, f
<1>6. ASSUME NEW x \in Record, NEW m, x.name = n, x.source = s, x.references = m
      PROVE  Extended(heap, [t \in D |-> IF t = f THEN x ELSE heap[t]], f, n, s, m)
  <2> DEFINE h == [t \in D |-> IF t = f THEN x ELSE heap[t]]
  <2>1. DOMAIN h = D /\ h = [t \in DOMAIN h |-> h[t]] /\ h[f] = x
        /\ \A t \in DOMAIN heap : h[t] = heap[t]
    BY <1>2
  <2> HIDE DEF h
  <2>2. \A t \in DOMAIN h : h[t] \in Record
    BY <1>5, <2>1
  <2>3. Extended(heap, h, f, n, s, m)
    BY <1>6, <2>1, <2>2 DEF Extended, Heap
  <2> QED
    BY <2>3 DEF h
<1>7. Extended(heap, Compiled(n, s), f, n, s, 0)
  BY <1>1, <1>3, <1>6
<1>8. Extended(heap, [Compiled(n, s) EXCEPT ![f].references = 2], f, n, s, 2)
  <2>1. Extended(heap, [t \in D |-> IF t = f THEN q ELSE heap[t]], f, n, s, 2)
    BY <1>1, <1>6
  <2> QED
    BY Zenon, <1>4, <2>1
<1> QED
  BY <1>7, <1>8 DEF f

(* Nobody refers to a template that is not alive. *)
LEMMA DeadUnowned ==
  ASSUME NEW h, NEW hd \in [Templates -> Nat], NEW c \in Seq(Templates),
         NEW l \in Seq(Templates), NEW f, Sound(h, hd, c, l, f),
         NEW t \in Templates, t \notin DOMAIN h
  PROVE  hd[t] = 0 /\ Count(c, t) = 0 /\ Count(l, t) = 0 /\ InFlight(f, t) = 0
<1>1. /\ hd[t] \in Nat /\ Count(c, t) \in Nat /\ Count(l, t) \in Nat /\ InFlight(f, t) \in Nat
      /\ Owners(hd, c, l, f, t) = hd[t] + Count(c, t) + Count(l, t) + InFlight(f, t)
  <2>1. OwnersAdd(hd, c, l, f, t)
    BY OwnersType
  <2> QED
    BY <2>1 DEF OwnersAdd
<1>2. Owners(hd, c, l, f, t) = 0
  BY DEF Sound, Balanced
<1> QED
  BY <1>1, <1>2

LEMMA EnvCompileStep ==
  ASSUME IInv, NEW n \in Names, NEW s \in Loader[n], EnvCompile(n, s)
  PROVE  IInv'
<1>1. Types /\ Rendering /\ Calls /\ Unique /\ Exact
  BY DEF IInv
<1> DEFINE f == Fresh
<1>2. /\ call = NoCall /\ stack = << >> /\ Spare
      /\ heap' = Compiled(n, s) /\ handles' = [handles EXCEPT ![f] = 1]
      /\ UNCHANGED <<cache, leases, call, instances, stack, bytes>>
  BY DEF EnvCompile, Idle
<1>3. s \in Sources
  BY LoadingAssumption
<1>4. f \in Templates /\ f \notin DOMAIN heap /\ Extended(heap, heap', f, n, s, 0)
  <2>1. f \in Templates /\ f \notin DOMAIN heap
    BY <1>1, <1>2, FreshFacts
  <2>2. Extended(heap, Compiled(n, s), Fresh, n, s, 0)
    BY <1>1, <1>2, <1>3, CompiledFacts
  <2> QED
    BY <1>2, <2>1, <2>2
<1> HIDE DEF f
<1>5. /\ Heap(heap) /\ DOMAIN heap \subseteq Templates /\ handles \in [Templates -> Nat]
      /\ cache \in Seq(Templates) /\ Loaded \in Seq(Templates)
      /\ Sound(heap, handles, cache, Loaded, Flight)
  BY <1>1, LoadedType, ExactSound DEF Types
<1>6. handles[f] = 0 /\ Count(cache, f) = 0 /\ Count(Loaded, f) = 0 /\ InFlight(Flight, f) = 0
  BY <1>4, <1>5, DeadUnowned
<1>7. /\ handles' \in [Templates -> Nat] /\ handles'[f] = 1
      /\ \A u \in Templates : u # f => handles'[u] = handles[u]
  BY <1>2, <1>4, <1>5
<1>8. Calls' /\ Flight' = Flight
  BY <1>1, <1>2, CallsIdle, IdleFacts
<1>9. Rendering' /\ Loaded' = Loaded
  BY <1>1, <1>2 DEF Rendering, Loaded
<1>10. Types'
  BY <1>1, <1>2, <1>4, <1>7 DEF Types, Extended
<1>11. Sound(heap', handles', cache', Loaded', Flight')
  <2> SUFFICES ASSUME NEW u \in Templates
               PROVE  Balanced(heap', u, Owners(handles', cache, Loaded, Flight, u), Count(cache, u))
    BY <1>2, <1>8, <1>9 DEF Sound
  <2>1. CASE u = f
    <3>1. Owners(handles', cache, Loaded, Flight, u) = 1
      BY <1>6, <1>7, <2>1 DEF Owners
    <3> QED
      BY <1>4, <1>6, <2>1, <3>1 DEF Balanced, Extended
  <2>2. CASE u # f
    <3>1. Owners(handles', cache, Loaded, Flight, u) = Owners(handles, cache, Loaded, Flight, u)
      BY <1>7, <2>2 DEF Owners
    <3>2. Balanced(heap, u, Owners(handles, cache, Loaded, Flight, u), Count(cache, u))
      BY <1>5 DEF Sound
    <3> QED
      BY <1>4, <2>2, <3>1, <3>2 DEF Balanced, Extended
  <2> QED
    BY <2>1, <2>2
<1>12. Unique'
  <2>1. \A k \in DOMAIN cache : heap'[cache[k]] = heap[cache[k]]
    BY <1>1, <1>4, Alive DEF Extended
  <2> QED
    BY <1>1, <1>2, <2>1 DEF Unique
<1> QED
  BY <1>8, <1>9, <1>10, <1>11, <1>12, ExactSound DEF IInv

Acquired(h, t) == [h EXCEPT ![t].references = @ + 1]

LEMMA AcquireFacts ==
  ASSUME NEW h, Heap(h), NEW t \in DOMAIN h, NEW g, g = Acquired(h, t)
  PROVE  /\ Thinned(h, g) /\ DOMAIN g = DOMAIN h /\ g[t].references = h[t].references + 1
         /\ \A u \in DOMAIN h : u # t => g[u] = h[u]
<1> DEFINE new == [h[t] EXCEPT !.references = @ + 1]
<1>1. h[t] \in Record /\ h[t].references \in Nat /\ h = [u \in DOMAIN h |-> h[u]]
  BY DEF Heap, Record
<1>2. g = [u \in DOMAIN h |-> IF u = t THEN new ELSE h[u]]
  BY <1>1 DEF Acquired
<1>3. new \in Record /\ new.references = h[t].references + 1
      /\ new.name = h[t].name /\ new.source = h[t].source
  BY <1>1 DEF Record
<1> HIDE DEF new
<1>4. DOMAIN g = DOMAIN h /\ g = [u \in DOMAIN g |-> g[u]]
      /\ g[t] = new /\ \A u \in DOMAIN h : u # t => g[u] = h[u]
  BY <1>2
<1>5. \A u \in DOMAIN h : g[u] \in Record /\ g[u].name = h[u].name /\ g[u].source = h[u].source
  BY <1>3, <1>4 DEF Heap
<1>6. Thinned(h, g)
  BY <1>4, <1>5 DEF Thinned, Heap
<1> QED
  BY <1>3, <1>4, <1>6

LEMMA HitStep ==
  ASSUME IInv, Hit
  PROVE  IInv'
<1>1. Types /\ Rendering /\ Calls /\ Unique /\ Exact
  BY DEF IInv
<1>2. /\ call.at = "admit" /\ Admitted
      /\ UNCHANGED <<cache, handles, leases, instances, stack, bytes>>
  BY DEF Hit
<1>3. PICK t \in Cached(call.name, call.source) :
        heap' = [heap EXCEPT ![t].references = @ + 1] /\ call' = WithLease(t)
  BY DEF Hit
<1>4. /\ Heap(heap) /\ DOMAIN heap \subseteq Templates /\ handles \in [Templates -> Nat]
      /\ cache \in Seq(Templates) /\ Loaded \in Seq(Templates)
      /\ Sound(heap, handles, cache, Loaded, Flight)
  BY <1>1, LoadedType, ExactSound DEF Types
<1>5. PICK k \in DOMAIN cache :
        cache[k] = t /\ heap[t].name = call.name /\ heap[t].source = call.source
  BY <1>3 DEF Cached
<1>6. t \in Templates /\ t \in DOMAIN heap /\ Count(cache, t) > 0
  BY <1>4, <1>5, CachedAlive
<1>7. /\ Thinned(heap, heap') /\ DOMAIN heap' = DOMAIN heap
      /\ heap'[t].references = heap[t].references + 1
      /\ \A u \in DOMAIN heap : u # t => heap'[u] = heap[u]
  <2>1. heap' = Acquired(heap, t)
    BY <1>3 DEF Acquired
  <2> QED
    BY <1>4, <1>6, <2>1, AcquireFacts
<1>8. heap'[t].name = call.name /\ heap'[t].source = call.source
  BY <1>5, <1>6, <1>7 DEF Thinned
<1>9. Calls' /\ Flight' = t /\ Flight = Null
  BY <1>1, <1>2, <1>3, <1>6, <1>8, WithLeaseCalls, AdmitFacts
<1>10. Rendering' /\ Loaded' = Loaded
  BY <1>1, <1>2 DEF Rendering, Loaded
<1>11. Types'
  BY <1>1, <1>2, <1>7, ThinnedTypes DEF Types
<1>12. Sound(heap', handles', cache', Loaded', Flight')
  <2> SUFFICES ASSUME NEW u \in Templates
               PROVE  Balanced(heap', u, Owners(handles, cache, Loaded, t, u), Count(cache, u))
    BY <1>2, <1>9, <1>10 DEF Sound
  <2> DEFINE o == Owners(handles, cache, Loaded, Null, u)
             p == Owners(handles, cache, Loaded, t, u)
             n == Count(cache, u)
  <2>1. /\ handles[u] \in Nat /\ n \in Nat /\ Count(Loaded, u) \in Nat
        /\ InFlight(Null, u) = 0 /\ o \in Nat
        /\ o = handles[u] + n + Count(Loaded, u) + InFlight(Null, u)
    <3>1. /\ handles[u] \in Nat /\ n \in Nat /\ Count(Loaded, u) \in Nat /\ o \in Nat
          /\ o = handles[u] + n + Count(Loaded, u) + InFlight(Null, u)
      <4>1. OwnersAdd(handles, cache, Loaded, Null, u)
        BY <1>4, OwnersType
      <4> QED
        BY <4>1 DEF OwnersAdd
    <3>2. InFlight(Null, u) = 0
      BY BoundsTypes DEF InFlight
    <3> QED
      BY <3>1, <3>2
  <2>2. p = handles[u] + n + Count(Loaded, u) + (IF t = u THEN 1 ELSE 0)
    BY DEF Owners, InFlight
  <2>3. Balanced(heap, u, o, n)
    BY <1>4, <1>9 DEF Sound
  <2> HIDE DEF o, p, n
  <2>4. CASE u = t
    <3>1. o > 0 /\ p = o + 1 /\ n # 0
      BY <1>6, <2>1, <2>2, <2>4 DEF n
    <3>2. heap[u].references = o
      BY <1>6, <2>3, <2>4, <3>1 DEF Balanced
    <3> QED
      BY <1>6, <1>7, <2>1, <2>4, <3>1, <3>2 DEF Balanced, p, n
  <2>5. CASE u # t
    <3>1. p = o
      BY <2>1, <2>2, <2>5
    <3> QED
      BY <1>7, <2>3, <2>5, <3>1 DEF Balanced, p, n
  <2> QED
    BY <2>4, <2>5
<1>13. Unique'
  <2>1. \A j \in DOMAIN cache' : cache'[j] \in DOMAIN heap'
    BY <1>1, <1>2, <1>7, Alive
  <2> QED
    BY <1>1, <1>2, <1>7, <2>1, UniqueKept
<1> QED
  BY <1>9, <1>10, <1>11, <1>12, <1>13, ExactSound DEF IInv

(* A new template with a reference for the cache and one for the load,     *)
(* and the evicted one, if any, without the cache's.                       *)
LEMMA SoundAdded ==
  ASSUME NEW h, NEW g, Heap(h), NEW hd \in [Templates -> Nat], NEW c \in Seq(Templates),
         NEW l \in Seq(Templates), Sound(h, hd, c, l, Null),
         NEW t \in Templates, t \notin DOMAIN h, NEW name, NEW source,
         Extended(h, g, t, name, source, 2),
         NEW u, NEW d \in Seq(Templates), NEW w,
         \/ /\ u \in Templates /\ u # t /\ Count(c, u) > 0 /\ w = Drop(g, u)
            /\ \A v \in Templates :
                 Count(d, v) = IF v = t THEN Count(c, v) + 1
                               ELSE IF v = u THEN Count(c, v) - 1 ELSE Count(c, v)
         \/ /\ w = g
            /\ \A v \in Templates : Count(d, v) = IF v = t THEN Count(c, v) + 1 ELSE Count(c, v)
  PROVE  Sound(w, hd, d, l, t)
<1>1. hd[t] = 0 /\ Count(c, t) = 0 /\ Count(l, t) = 0
  BY DeadUnowned
<1>2. Heap(g) /\ t \in DOMAIN g /\ g[t].references = 2
  BY DEF Extended
<1> SUFFICES ASSUME NEW v \in Templates
             PROVE  Balanced(w, v, Owners(hd, d, l, t, v), Count(d, v))
  BY DEF Sound
<1> DEFINE o == Owners(hd, c, l, Null, v)
           p == Owners(hd, d, l, t, v)
           n == Count(c, v)
           m == Count(d, v)
<1>3. /\ hd[v] \in Nat /\ n \in Nat /\ m \in Nat /\ Count(l, v) \in Nat /\ o \in Nat
      /\ o = hd[v] + n + Count(l, v) + InFlight(Null, v) /\ InFlight(Null, v) = 0
  <2>1. /\ hd[v] \in Nat /\ n \in Nat /\ Count(l, v) \in Nat /\ o \in Nat
        /\ o = hd[v] + n + Count(l, v) + InFlight(Null, v)
    <3>1. OwnersAdd(hd, c, l, Null, v)
      BY OwnersType
    <3> QED
      BY <3>1 DEF OwnersAdd
  <2>2. m \in Nat
    <3>1. OwnersAdd(hd, d, l, Null, v)
      BY OwnersType
    <3> QED
      BY <3>1 DEF OwnersAdd
  <2>3. InFlight(Null, v) = 0
    BY BoundsTypes DEF InFlight
  <2> QED
    BY <2>1, <2>2, <2>3
<1>4. p = hd[v] + m + Count(l, v) + (IF t = v THEN 1 ELSE 0)
  BY DEF Owners, InFlight
<1>5. Balanced(h, v, o, n)
  BY DEF Sound
<1>6. CASE v = t
  <2>1. m = 1
    BY <1>1, <1>6
  <2>2. p = 2
    BY <1>1, <1>4, <1>6, <2>1
  <2>3. Balanced(g, v, p, m)
    BY <1>2, <1>6, <2>1, <2>2 DEF Balanced
  <2>4. CASE w = g
    BY <2>3, <2>4
  <2>5. CASE w = Drop(g, u) /\ u \in Templates /\ u # t /\ Count(c, u) > 0
    <3>1. u \in DOMAIN h
      <4>1. u \notin DOMAIN h => Count(c, u) = 0
        BY <2>5, DeadUnowned
      <4> QED
        BY <2>5, <4>1
    <3>2. u \in DOMAIN g
      BY <3>1 DEF Extended
    <3> HIDE DEF p, m
    <3>3. Balanced(Drop(g, u), v, p, m)
      BY <1>2, <1>6, <2>3, <2>5, <3>2, BalanceOther
    <3> QED
      BY <2>5, <3>3 DEF p, m
  <2> QED
    BY <2>4, <2>5
<1>7. CASE v # t
  <2>1. Balanced(g, v, o, n)
    <3>1. (v \in DOMAIN g <=> v \in DOMAIN h) /\ (v \in DOMAIN h => g[v] = h[v])
      BY <1>7 DEF Extended
    <3> HIDE DEF o, n
    <3> QED
      BY <1>5, <3>1 DEF Balanced
  <2>2. CASE w = g /\ m = n
    <3>1. p = o
      BY <1>3, <1>4, <1>7, <2>2
    <3> QED
      BY <2>1, <2>2, <3>1
  <2>3. CASE w = Drop(g, u) /\ v = u /\ n > 0 /\ m = n - 1
    <3> DEFINE a == hd[v]
               b == Count(l, v)
    <3>0. a \in Nat /\ b \in Nat /\ n \in Nat /\ o = a + n + b + 0 /\ p = a + m + b + 0
      BY <1>3, <1>4, <1>7
    <3> HIDE DEF a, b, o, p, n, m
    <3>1. p = o - 1 /\ o > 0
      BY <2>3, <3>0
    <3> HIDE DEF o, p, n, m
    <3>2. Balanced(Drop(g, v), v, o - 1, m)
      BY <1>2, <1>3, <2>1, <3>1, BalanceDrop
    <3>3. Balanced(w, v, p, m)
      BY <2>3, <3>1, <3>2
    <3> QED
      BY <3>3 DEF p, m
  <2>4. CASE w = Drop(g, u) /\ v # u /\ m = n /\ u \in Templates /\ u # t /\ Count(c, u) > 0
    <3>1. u \in DOMAIN h
      <4>1. u \notin DOMAIN h => Count(c, u) = 0
        BY <2>4, DeadUnowned
      <4> QED
        BY <2>4, <4>1
    <3>2. u \in DOMAIN g
      BY <3>1 DEF Extended
    <3>3. p = o
      BY <1>3, <1>4, <1>7, <2>4
    <3> HIDE DEF o, p, n, m
    <3>4. Balanced(Drop(g, u), v, o, n)
      BY <1>2, <2>1, <2>4, <3>2, BalanceOther
    <3>5. Balanced(w, v, p, m)
      BY <2>4, <3>3, <3>4
    <3> QED
      BY <3>5 DEF p, m
  <2> QED
    BY <1>7, <2>2, <2>3, <2>4
<1> QED
  BY <1>6, <1>7

(* jinja_env_cache_add keeps a name cached once and the cache within its   *)
(* bound.                                                                  *)
Spread(h, d, t, name) ==
  /\ \A j \in DOMAIN d : d[j] = t \/ (d[j] \in DOMAIN h /\ h[d[j]].name # name)
  /\ \A j, k \in DOMAIN d : j # k =>
       /\ ~(d[j] = t /\ d[k] = t)
       /\ d[j] # t /\ d[k] # t => h[d[j]].name # h[d[k]].name

LEMMA CacheReplaced ==
  ASSUME Types, Unique, Exact, NEW t \in Templates, t \notin DOMAIN heap,
         NEW name, SameName(name) # {}
  PROVE  /\ CacheAdd(name, t) \in Seq(Templates) /\ Len(CacheAdd(name, t)) <= MaxCached
         /\ Spread(heap, CacheAdd(name, t), t, name)
         /\ \E u \in Templates :
              /\ u # t /\ Count(cache, u) > 0 /\ Evicted(name) = {u}
              /\ \A v \in Templates :
                   Count(CacheAdd(name, t), v) =
                     IF v = t THEN Count(cache, v) + 1
                     ELSE IF v = u THEN Count(cache, v) - 1 ELSE Count(cache, v)
<1>1. /\ cache \in Seq(Templates) /\ Len(cache) <= MaxCached /\ Len(cache) \in Nat
      /\ handles \in [Templates -> Nat] /\ Loaded \in Seq(Templates)
      /\ Sound(heap, handles, cache, Loaded, Flight) /\ DOMAIN cache = 1..Len(cache)
  BY LoadedType, ExactSound DEF Types
<1>2. PICK i \in SameName(name) : TRUE
  OBVIOUS
<1>3. i \in DOMAIN cache /\ heap[cache[i]].name = name
  BY <1>2 DEF SameName
<1>4. SameName(name) = {i}
  BY <1>3 DEF SameName, Unique
<1> DEFINE d == CacheAdd(name, t)
           n == Len(cache)
<1>5. d = [k \in 1..n |-> IF k = i THEN t ELSE cache[k]]
  BY <1>1, <1>4 DEF CacheAdd
<1>6. \A k \in 1..n : cache[k] \in Templates /\ cache[k] \in DOMAIN heap /\ Count(cache, cache[k]) > 0
  BY <1>1, CachedAlive
<1>7. d \in [1..n -> Templates] /\ d[i] = t /\ \A k \in 1..n : k # i => d[k] = cache[k]
  BY <1>1, <1>3, <1>5, <1>6
<1> HIDE DEF d
<1>8. d \in Seq(Templates) /\ Len(d) = n /\ DOMAIN d = 1..n
  BY <1>1, <1>7, FunctionSeq
<1>9. Spread(heap, d, t, name)
  <2>1. \A k \in 1..n : k # i => heap[cache[k]].name # name
    BY <1>1, <1>3 DEF Unique
  <2>2. \A j, k \in 1..n : j # k => heap[cache[j]].name # heap[cache[k]].name
    BY <1>1 DEF Unique
  <2>3. \A k \in 1..n : d[k] # t => k # i
    BY <1>7
  <2>4. \A k \in 1..n : k # i => d[k] # t
    BY <1>6, <1>7
  <2>5. \A j \in DOMAIN d : d[j] = t \/ (d[j] \in DOMAIN heap /\ heap[d[j]].name # name)
    BY <1>6, <1>7, <1>8, <2>1
  <2>6. ASSUME NEW j \in 1..n, NEW k \in 1..n, j # k
        PROVE  ~(d[j] = t /\ d[k] = t) /\ (d[j] # t /\ d[k] # t => heap[d[j]].name # heap[d[k]].name)
    BY <1>7, <2>2, <2>3, <2>4, <2>6
  <2> QED
    BY <1>8, <2>5, <2>6 DEF Spread
<1>10. Listed(cache, n) /\ Listed(d, n) /\ i \in 1..n /\ d[i] # cache[i]
  BY <1>1, <1>3, <1>6, <1>7, <1>8 DEF Listed
<1>11. \A v \in Templates :
         Count(d, v) = IF v = t THEN Count(cache, v) + 1
                       ELSE IF v = cache[i] THEN Count(cache, v) - 1 ELSE Count(cache, v)
  <2> TAKE v \in Templates
  <2>1. Count(d, v) = IF v = d[i] THEN Count(cache, v) + 1
                      ELSE IF v = cache[i] THEN Count(cache, v) - 1 ELSE Count(cache, v)
    <3>1. Replaced(cache, d, n, i)
      BY <1>7 DEF Replaced
    <3> HIDE DEF n
    <3> QED
      BY <1>10, <3>1, CountReplaced
  <2> QED
    BY <1>7, <2>1
<1>12. Evicted(name) = {cache[i]}
  BY <1>4 DEF Evicted
<1>13. cache[i] \in Templates /\ cache[i] # t /\ Count(cache, cache[i]) > 0
  BY <1>1, <1>3, <1>6
<1> QED
  BY <1>1, <1>8, <1>9, <1>11, <1>12, <1>13 DEF d

LEMMA CacheEvicted ==
  ASSUME Types, Unique, Exact, NEW t \in Templates, t \notin DOMAIN heap,
         NEW name, SameName(name) = {}, Len(cache) = MaxCached
  PROVE  /\ CacheAdd(name, t) \in Seq(Templates) /\ Len(CacheAdd(name, t)) <= MaxCached
         /\ Spread(heap, CacheAdd(name, t), t, name)
         /\ \E u \in Templates :
              /\ u # t /\ Count(cache, u) > 0 /\ Evicted(name) = {u}
              /\ \A v \in Templates :
                   Count(CacheAdd(name, t), v) =
                     IF v = t THEN Count(cache, v) + 1
                     ELSE IF v = u THEN Count(cache, v) - 1 ELSE Count(cache, v)
<1>1. /\ cache \in Seq(Templates) /\ handles \in [Templates -> Nat] /\ Loaded \in Seq(Templates)
      /\ Sound(heap, handles, cache, Loaded, Flight) /\ DOMAIN cache = 1..Len(cache)
  BY LoadedType, ExactSound DEF Types
<1> DEFINE m == Len(cache) - 1
           r == Tail(cache)
           d == Append(r, t)
<1>2. m \in Nat /\ m + 1 = Len(cache) /\ Listed(cache, m + 1)
  BY <1>1, BoundsTypes DEF Listed
<1>3. r \in Seq(Templates) /\ Len(r) = m /\ \A k \in 1..m : r[k] = cache[k + 1]
  BY <1>1, <1>2
<1>4. /\ d \in Seq(Templates) /\ Len(d) = m + 1 /\ d[m + 1] = t
      /\ \A k \in 1..m : d[k] = cache[k + 1]
      /\ \A k \in 1..m : d[k] = r[k]
  BY <1>2, <1>3
<1>5. CacheAdd(name, t) = d /\ Evicted(name) = {cache[1]}
  BY <1>2, BoundsTypes DEF CacheAdd, Evicted
<1> HIDE DEF m, r, d
<1>6. Listed(r, m) /\ Listed(d, m + 1) /\ DOMAIN d = 1..m + 1
  BY <1>2, <1>3, <1>4 DEF Listed
<1>7. \A k \in 1..m + 1 : cache[k] \in Templates /\ cache[k] \in DOMAIN heap
        /\ Count(cache, cache[k]) > 0 /\ heap[cache[k]].name # name
  <2>1. \A k \in DOMAIN cache : heap[cache[k]].name # name
    BY DEF SameName
  <2>2. DOMAIN cache = 1..m + 1
    BY <1>1, <1>2
  <2> QED
    BY <1>1, <2>1, <2>2, CachedAlive
<1>8. Spread(heap, d, t, name)
  <2>1. \A k \in 1..m : k + 1 \in 1..m + 1
    BY <1>2
  <2>2. \A k \in 1..m : d[k] \in DOMAIN heap /\ heap[d[k]].name # name /\ d[k] # t
    BY <1>4, <1>7, <2>1
  <2>3. \A k \in 1..m + 1 : k \in 1..m \/ (k = m + 1 /\ d[k] = t)
    BY <1>2, <1>4
  <2>4. \A j, k \in 1..m : j # k => heap[d[j]].name # heap[d[k]].name
    <3> SUFFICES ASSUME NEW j \in 1..m, NEW k \in 1..m, j # k
                 PROVE  heap[d[j]].name # heap[d[k]].name
      OBVIOUS
    <3>1. j + 1 # k + 1 /\ j + 1 \in DOMAIN cache /\ k + 1 \in DOMAIN cache
      BY <1>1, <1>2, <2>1
    <3> QED
      BY <1>4, <3>1 DEF Unique
  <2> QED
    BY <1>6, <2>2, <2>3, <2>4 DEF Spread
<1>9. 1 \in 1..m + 1
  BY <1>2
<1>10. \A v \in Templates :
         Count(d, v) = IF v = t THEN Count(cache, v) + 1
                       ELSE IF v = cache[1] THEN Count(cache, v) - 1 ELSE Count(cache, v)
  <2> TAKE v \in Templates
  <2>1. Count(r, v) = Count(cache, v) - (IF cache[1] = v THEN 1 ELSE 0)
    <3>1. Shifted(cache, r, m)
      BY <1>3 DEF Shifted
    <3>2. Listed(cache, Len(cache)) /\ Len(cache) = m + 1
      BY <1>2
    <3> DEFINE q == Len(cache)
    <3>3. Listed(cache, q) /\ q = m + 1
      BY <3>2
    <3> HIDE DEF q
    <3> QED
      BY <1>6, <3>1, <3>3, CountTail
  <2>2. Count(d, v) = Count(r, v) + (IF t = v THEN 1 ELSE 0)
    <3>1. Longer(r, d, m, t)
      BY <1>4 DEF Longer
    <3>2. PICK q : q = m + 1
      OBVIOUS
    <3>3. Listed(d, q)
      BY <1>6, <3>2
    <3> QED
      BY <1>6, <3>1, <3>2, <3>3, CountLonger
  <2>3. Count(cache, v) \in Nat /\ cache[1] # t
    BY <1>2, <1>7, <1>9, CountType
  <2> QED
    BY <1>4, <2>1, <2>2, <2>3
<1> QED
  BY <1>2, <1>4, <1>5, <1>7, <1>8, <1>9, <1>10

LEMMA CacheAppended ==
  ASSUME Types, Unique, Exact, NEW t \in Templates, t \notin DOMAIN heap,
         NEW name, SameName(name) = {}, Len(cache) # MaxCached
  PROVE  /\ CacheAdd(name, t) \in Seq(Templates) /\ Len(CacheAdd(name, t)) <= MaxCached
         /\ Spread(heap, CacheAdd(name, t), t, name) /\ Evicted(name) = {}
         /\ \A v \in Templates :
              Count(CacheAdd(name, t), v) = IF v = t THEN Count(cache, v) + 1 ELSE Count(cache, v)
<1> DEFINE n == Len(cache)
           d == Append(cache, t)
<1>1. /\ cache \in Seq(Templates) /\ handles \in [Templates -> Nat] /\ Loaded \in Seq(Templates)
      /\ Sound(heap, handles, cache, Loaded, Flight) /\ DOMAIN cache = 1..n /\ n \in Nat
      /\ n + 1 <= MaxCached
  BY LoadedType, ExactSound, BoundsTypes DEF Types
<1>2. d \in Seq(Templates) /\ Len(d) = n + 1 /\ d[n + 1] = t /\ \A k \in 1..n : d[k] = cache[k]
  BY <1>1
<1>3. CacheAdd(name, t) = d /\ Evicted(name) = {}
  BY DEF CacheAdd, Evicted
<1> HIDE DEF n, d
<1>4. Listed(cache, n) /\ Listed(d, n + 1) /\ DOMAIN d = 1..n + 1
  BY <1>1, <1>2 DEF Listed
<1>5. \A k \in 1..n : cache[k] \in DOMAIN heap /\ heap[cache[k]].name # name
  <2>1. \A k \in DOMAIN cache : heap[cache[k]].name # name
    BY DEF SameName
  <2> QED
    BY <1>1, <2>1, CachedAlive
<1>6. Spread(heap, d, t, name)
  <2>1. \A k \in 1..n : d[k] \in DOMAIN heap /\ heap[d[k]].name # name /\ d[k] # t
    BY <1>2, <1>5
  <2>2. \A k \in 1..n + 1 : k \in 1..n \/ (k = n + 1 /\ d[k] = t)
    BY <1>1, <1>2
  <2>3. \A j, k \in 1..n : j # k => heap[d[j]].name # heap[d[k]].name
    BY <1>1, <1>2 DEF Unique
  <2> QED
    BY <1>4, <2>1, <2>2, <2>3 DEF Spread
<1>7. \A v \in Templates : Count(d, v) = IF v = t THEN Count(cache, v) + 1 ELSE Count(cache, v)
  <2> TAKE v \in Templates
  <2>1. Count(d, v) = Count(cache, v) + (IF t = v THEN 1 ELSE 0)
    <3>1. Longer(cache, d, n, t)
      BY <1>2 DEF Longer
    <3>2. PICK q : q = n + 1
      OBVIOUS
    <3>3. Listed(d, q)
      BY <1>4, <3>2
    <3> QED
      BY <1>4, <3>1, <3>2, <3>3, CountLonger
  <2>2. Count(cache, v) \in Nat
    BY <1>4, CountType
  <2> QED
    BY <1>2, <2>1, <2>2
<1> QED
  BY <1>1, <1>2, <1>3, <1>6, <1>7

LEMMA MissStep ==
  ASSUME IInv, Miss
  PROVE  IInv'
<1>1. Types /\ Rendering /\ Calls /\ Unique /\ Exact
  BY DEF IInv
<1> DEFINE f == Fresh
           g == [Compiled(call.name, call.source) EXCEPT ![f].references = 2]
           n == call.name
<1>2. /\ call.at = "admit" /\ Admitted /\ Spare
      /\ heap' = HeapAdd(call.name, call.source, f) /\ cache' = CacheAdd(n, f)
      /\ call' = WithLease(f) /\ UNCHANGED <<handles, leases, instances, stack, bytes>>
  BY DEF Miss
<1>3. Flight = Null /\ n \in Names /\ call.source \in Sources
  BY <1>1, <1>2, AdmitFacts
<1>4. /\ Heap(heap) /\ DOMAIN heap \subseteq Templates /\ handles \in [Templates -> Nat]
      /\ cache \in Seq(Templates) /\ Loaded \in Seq(Templates)
      /\ Sound(heap, handles, cache, Loaded, Null)
  BY <1>1, <1>3, LoadedType, ExactSound DEF Types
<1>5. f \in Templates /\ f \notin DOMAIN heap
  BY <1>1, <1>2, FreshFacts
<1>6. Extended(heap, g, f, n, call.source, 2)
  BY <1>1, <1>2, <1>3, CompiledFacts
<1>7. heap' = IF Evicted(n) = {} THEN g ELSE Drop(g, CHOOSE u \in Evicted(n) : TRUE)
  BY <1>2 DEF HeapAdd
<1> HIDE DEF f, g, n
<1>8. \E u :
        /\ cache' \in Seq(Templates) /\ Len(cache') <= MaxCached /\ Spread(heap, cache', f, n)
        /\ \/ /\ u \in Templates /\ u # f /\ Count(cache, u) > 0 /\ heap' = Drop(g, u)
              /\ \A v \in Templates :
                   Count(cache', v) = IF v = f THEN Count(cache, v) + 1
                                      ELSE IF v = u THEN Count(cache, v) - 1 ELSE Count(cache, v)
           \/ /\ heap' = g
              /\ \A v \in Templates :
                   Count(cache', v) = IF v = f THEN Count(cache, v) + 1 ELSE Count(cache, v)
  <2>1. ASSUME NEW u, Evicted(n) = {u}
        PROVE  heap' = Drop(g, u)
    BY <1>7, <2>1
  <2>2. CASE SameName(n) # {}
    BY <1>1, <1>2, <1>5, <2>1, <2>2, CacheReplaced
  <2>3. CASE SameName(n) = {} /\ Len(cache) = MaxCached
    BY <1>1, <1>2, <1>5, <2>1, <2>3, CacheEvicted
  <2>4. CASE SameName(n) = {} /\ Len(cache) # MaxCached
    BY <1>1, <1>2, <1>5, <1>7, <2>4, CacheAppended
  <2> QED
    BY <2>2, <2>3, <2>4
<1>9. PICK u :
        /\ cache' \in Seq(Templates) /\ Len(cache') <= MaxCached /\ Spread(heap, cache', f, n)
        /\ \/ /\ u \in Templates /\ u # f /\ Count(cache, u) > 0 /\ heap' = Drop(g, u)
              /\ \A v \in Templates :
                   Count(cache', v) = IF v = f THEN Count(cache, v) + 1
                                      ELSE IF v = u THEN Count(cache, v) - 1 ELSE Count(cache, v)
           \/ /\ heap' = g
              /\ \A v \in Templates :
                   Count(cache', v) = IF v = f THEN Count(cache, v) + 1 ELSE Count(cache, v)
  BY <1>8
<1>10. Sound(heap', handles, cache', Loaded, f)
  BY <1>4, <1>5, <1>6, <1>9, SoundAdded
<1>11. /\ Thinned(g, heap') /\ f \in DOMAIN heap'
       /\ \A v \in DOMAIN heap' : v # f => v \in DOMAIN heap /\ heap'[v].name = heap[v].name
  <2>1. Heap(g) /\ f \in DOMAIN g /\ DOMAIN g = DOMAIN heap \cup {f}
        /\ \A v \in DOMAIN heap : g[v] = heap[v]
    BY <1>6 DEF Extended
  <2>2. Thinned(g, heap') /\ f \in DOMAIN heap'
    <3>1. CASE heap' = g
      BY <2>1, <3>1 DEF Thinned
    <3>2. CASE heap' = Drop(g, u) /\ u \in Templates /\ u # f /\ Count(cache, u) > 0
      <4>1. u \in DOMAIN heap
        <5>1. u \notin DOMAIN heap => Count(cache, u) = 0
          BY <1>4, <3>2, DeadUnowned
        <5> QED
          BY <3>2, <5>1
      <4>2. u \in DOMAIN g
        BY <2>1, <4>1
      <4> QED
        BY <2>1, <3>2, <4>2, DropFacts
    <3> QED
      BY <1>9, <3>1, <3>2
  <2> QED
    BY <2>1, <2>2 DEF Thinned
<1>12. heap'[f].name = n /\ heap'[f].source = call.source
  BY <1>6, <1>11 DEF Thinned, Extended
<1>13. Calls' /\ Flight' = f
  BY <1>1, <1>2, <1>5, <1>12, WithLeaseCalls DEF n
<1>14. Rendering' /\ Loaded' = Loaded
  BY <1>1, <1>2 DEF Rendering, Loaded
<1>15. Heap(heap') /\ DOMAIN heap' \subseteq Templates
  BY <1>4, <1>5, <1>11 DEF Thinned
<1>16. Types'
  BY <1>1, <1>2, <1>9, <1>15 DEF Types
<1>17. Unique'
  <2>1. \A k \in DOMAIN cache' : cache'[k] \in DOMAIN heap'
    BY <1>4, <1>9, <1>10, CachedAlive
  <2> SUFFICES ASSUME NEW j \in DOMAIN cache', NEW k \in DOMAIN cache', j # k
               PROVE  heap'[cache'[j]].name # heap'[cache'[k]].name
    BY DEF Unique
  <2>2. \A i \in DOMAIN cache' : cache'[i] # f =>
          heap'[cache'[i]].name = heap[cache'[i]].name /\ heap[cache'[i]].name # n
    BY <1>9, <1>11, <2>1 DEF Spread
  <2>3. /\ ~(cache'[j] = f /\ cache'[k] = f)
        /\ cache'[j] # f /\ cache'[k] # f => heap[cache'[j]].name # heap[cache'[k]].name
    BY <1>9 DEF Spread
  <2> QED
    BY <1>12, <2>2, <2>3
<1> QED
  BY <1>2, <1>10, <1>13, <1>14, <1>16, <1>17, ExactSound DEF IInv

(* The reference of the load goes to the host or stays in the load. *)
LEMMA ReleaseLeaseStep ==
  ASSUME IInv, ReleaseLease
  PROVE  IInv'
<1>1. Types /\ Rendering /\ Calls /\ Unique /\ Exact
  BY DEF IInv
<1>2. /\ call.at = "release" /\ leases' = leases - 1 /\ call' = Answer(call.templ, FALSE)
      /\ handles' = IF stack = << >> /\ call.templ # Null
                    THEN [handles EXCEPT ![call.templ] = @ + 1] ELSE handles
      /\ UNCHANGED <<heap, cache, instances, stack, bytes>>
  BY DEF ReleaseLease
<1> DEFINE t == call.templ
<1>3. /\ Flight = t /\ t \in Templates \cup {Null} /\ leases = 1 /\ call.name \in Names
      /\ t # Null => heap[t].name = call.name /\ heap[t].source.len <= MaxBytes - bytes
      /\ bytes <= MaxBytes /\ Len(instances) <= MaxTemplates + 1
      /\ stack # << >> => Len(instances) <= MaxTemplates
  BY <1>1, <1>2 DEF Calls, Flight
<1>4. leases' = 0
  BY <1>2, <1>3
<1>5. CASE stack # << >>
  <2>1. call' = [at |-> "done", name |-> call.name, templ |-> t, missing |-> FALSE]
        /\ handles' = handles
    BY Zenon, <1>2, <1>5 DEF Answer
  <2>2. call'.at = "done" /\ call'.name = call.name /\ call'.templ = t
    BY <2>1
  <2>3. Flight' = t
    BY <2>2 DEF Flight
  <2> HIDE DEF t
  <2>4. Calls'
    BY <1>2, <1>3, <1>4, <1>5, <2>2, <2>3 DEF Calls
  <2> QED
    BY <1>1, <1>2, <1>3, <1>4, <2>1, <2>3, <2>4, SameRender, QuietStep
<1>6. CASE stack = << >>
  <2>1. call' = NoCall
    BY <1>2, <1>6 DEF Answer
  <2> HIDE DEF t
  <2>2. Calls' /\ Flight' = Null
    BY <1>2, <1>3, <1>4, <2>1, CallsIdle
  <2>3. CASE t = Null
    <3>1. handles' = handles
      BY <1>2, <2>3 DEF t
    <3> QED
      BY <1>1, <1>2, <1>3, <1>4, <2>2, <2>3, <3>1, SameRender, QuietStep
  <2>4. CASE t # Null
    <3>1. t \in Templates /\ handles' = [handles EXCEPT ![t] = @ + 1]
      BY <1>2, <1>3, <1>6, <2>4 DEF t
    <3>2. handles \in [Templates -> Nat]
      BY <1>1 DEF Types
    <3>3. /\ handles' \in [Templates -> Nat] /\ handles'[t] = handles[t] + 1
          /\ \A u \in Templates : u # t => handles'[u] = handles[u]
      BY <3>1, <3>2
    <3>4. Types'
      BY <1>1, <1>2, <1>4, <3>3 DEF Types
    <3>5. Rendering' /\ Loaded' = Loaded
      BY <1>1, <1>2, <1>6 DEF Rendering, Loaded
    <3>6. ASSUME NEW u \in Templates
          PROVE  Owners(handles', cache', Loaded', Flight', u)
                   = Owners(handles, cache, Loaded, Flight, u)
      <4>1. cache \in Seq(Templates) /\ Loaded \in Seq(Templates)
        BY <1>1, LoadedType DEF Types
      <4>2. handles[u] \in Nat /\ Count(cache, u) \in Nat /\ Count(Loaded, u) \in Nat
        <5>1. OwnersAdd(handles, cache, Loaded, Flight, u)
          BY <3>2, <4>1, OwnersType
        <5> QED
          BY <5>1 DEF OwnersAdd
      <4>3. InFlight(Flight', u) = 0 /\ InFlight(Flight, u) = IF u = t THEN 1 ELSE 0
        BY <1>3, <2>2, BoundsTypes DEF InFlight
      <4>4. handles'[u] = handles[u] + (IF u = t THEN 1 ELSE 0)
        BY <3>3, <4>2
      <4> QED
        BY <1>2, <3>5, <4>2, <4>3, <4>4 DEF Owners
    <3>7. Exact' /\ Unique'
      BY <1>1, <1>2, <3>6, ExactKept
    <3> QED
      BY <2>2, <3>4, <3>5, <3>7 DEF IInv
  <2> QED
    BY <2>3, <2>4
<1> QED
  BY <1>5, <1>6

---------------------------------------------------------------------------
(* The render.                                                             *)

LEMMA DoneFacts ==
  ASSUME Calls, call.at = "done"
  PROVE  /\ leases = 0 /\ stack # << >> /\ Flight = call.templ /\ call.name \in Names
         /\ call.templ \in Templates \cup {Null} /\ bytes <= MaxBytes
         /\ Len(instances) <= MaxTemplates
         /\ call.templ # Null => heap[call.templ].source.len <= MaxBytes - bytes
BY DEF Calls, Flight

LEMMA NoInstanceStep ==
  ASSUME IInv, NoInstance
  PROVE  IInv'
<1>1. Types /\ Calls /\ Unique /\ Exact
  BY DEF IInv
<1> DEFINE t == call.templ
           h == Drop(heap, t)
<1>2. call.at = "done" /\ t # Null /\ EndRender(h)
  BY DEF NoInstance
<1>3. leases = 0 /\ Flight = t /\ t \in Templates
  BY <1>1, <1>2, DoneFacts
<1>4. /\ Heap(heap) /\ handles \in [Templates -> Nat] /\ cache \in Seq(Templates)
      /\ Loaded \in Seq(Templates) /\ Sound(heap, handles, cache, Loaded, t)
  BY <1>1, <1>3, LoadedType, ExactSound DEF Types
<1>5. t \in DOMAIN heap
  BY <1>1, <1>3, Alive
<1> HIDE DEF t
<1>6. Thinned(heap, h)
  BY <1>4, <1>5, DropFacts
<1>7. Sound(h, handles, cache, Loaded, Null)
  <2> SUFFICES ASSUME NEW u \in Templates
               PROVE  Balanced(h, u, Owners(handles, cache, Loaded, Null, u), Count(cache, u))
    BY DEF Sound
  <2> DEFINE o == Owners(handles, cache, Loaded, t, u)
             p == Owners(handles, cache, Loaded, Null, u)
             n == Count(cache, u)
  <2>1. /\ handles[u] \in Nat /\ n \in Nat /\ Count(Loaded, u) \in Nat /\ o \in Nat
        /\ o = handles[u] + n + Count(Loaded, u) + InFlight(t, u)
    <3>1. handles \in [Templates -> Nat] /\ cache \in Seq(Templates) /\ Loaded \in Seq(Templates)
      BY <1>4
    <3> HIDE DEF h
    <3> QED
      <4>1. OwnersAdd(handles, cache, Loaded, t, u)
        BY <3>1, OwnersType
      <4> QED
        BY <4>1 DEF OwnersAdd
  <2>2. p = handles[u] + n + Count(Loaded, u)
    BY <2>1, BoundsTypes DEF Owners, InFlight
  <2>3. Balanced(heap, u, o, n)
    BY <1>4 DEF Sound
  <2>4. InFlight(t, u) = IF t = u THEN 1 ELSE 0
    BY DEF InFlight
  <2> HIDE DEF o, p, n
  <2>5. CASE u = t
    <3>1. o > 0 /\ p = o - 1
      BY <2>1, <2>2, <2>4, <2>5
    <3>2. Balanced(Drop(heap, u), u, o - 1, n)
      BY <1>4, <2>1, <2>3, <3>1, BalanceDrop
    <3>3. Balanced(h, u, p, n)
      BY <2>5, <3>1, <3>2
    <3> QED
      BY <3>3 DEF p, n
  <2>6. CASE u # t
    <3>1. p = o
      BY <2>1, <2>2, <2>4, <2>6
    <3>2. Balanced(Drop(heap, t), u, o, n)
      BY <1>4, <1>5, <2>3, <2>6, BalanceOther
    <3>3. Balanced(h, u, p, n)
      BY <3>1, <3>2
    <3> QED
      BY <3>3 DEF p, n
  <2> QED
    BY <2>5, <2>6
<1> HIDE DEF h
<1> QED
  BY <1>1, <1>2, <1>3, <1>6, <1>7, EndRenderStep

LEMMA RunningEnds ==
  ASSUME IInv, Running, EndRender(heap)
  PROVE  IInv'
<1>1. Calls /\ call = NoCall
  BY DEF IInv, Running
<1>2. leases = 0 /\ Flight = Null
  BY <1>1, IdleFacts
<1> QED
  BY <1>2, EndRenderHere

LEMMA LoadInstanceStep ==
  ASSUME IInv, Running, NEW n \in Names, LoadInstance(n)
  PROVE  IInv'
<1>1. Types /\ Rendering /\ Calls /\ call = NoCall /\ stack # << >>
  BY DEF IInv, Running
<1>2. CASE Len(instances) - 1 >= MaxTemplates
  BY <1>2, RunningEnds DEF LoadInstance
<1>3. CASE ~(Len(instances) - 1 >= MaxTemplates)
  <2>1. /\ call' = [at |-> "loader", name |-> n, remaining |-> MaxBytes - bytes]
        /\ UNCHANGED <<heap, cache, handles, leases, instances, stack, bytes>>
    BY <1>3 DEF LoadInstance
  <2>2. leases = 0 /\ Flight = Null /\ bytes <= MaxBytes /\ Len(instances) <= MaxTemplates + 1
    BY <1>1, IdleFacts
  <2>3. Len(instances) <= MaxTemplates
    <3>1. Len(instances) \in Nat
      BY <1>1 DEF Types
    <3> QED
      BY <1>3, <3>1, BoundsTypes
  <2>4. Flight' = Null
    BY <2>1 DEF Flight
  <2>5. Calls'
    BY <2>1, <2>2, <2>3, <2>4 DEF Calls
  <2> QED
    BY <1>1, <2>1, <2>2, <2>4, <2>5, SameRender, QuietStep
<1> QED
  BY <1>2, <1>3

(* Stacks with the same activations. *)
SameFrames(st, new) ==
  /\ new \in Seq(FrameRecord) /\ Len(new) = Len(st)
  /\ \A k \in DOMAIN st : new[k].inst = st[k].inst

LEMMA FrameFacts ==
  ASSUME NEW f \in FrameRecord
  PROVE  /\ [f EXCEPT !.pc = @ + 1, !.candidate = 1] \in FrameRecord
         /\ [f EXCEPT !.pc = @ + 1, !.candidate = 1].inst = f.inst
         /\ [f EXCEPT !.candidate = @ + 1] \in FrameRecord
         /\ [f EXCEPT !.candidate = @ + 1].inst = f.inst
<1>1. PICK i \in Nat, p \in Nat \ {0}, c \in Nat \ {0} :
        f = [inst |-> i, pc |-> p, candidate |-> c]
  BY DEF FrameRecord
<1>2. [f EXCEPT !.pc = @ + 1, !.candidate = 1] = [inst |-> i, pc |-> p + 1, candidate |-> 1]
  <2>1. PICK g : g = [f EXCEPT !.pc = @ + 1]
    OBVIOUS
  <2>2. g = [inst |-> i, pc |-> p + 1, candidate |-> c]
    BY <1>1, <2>1
  <2>3. [g EXCEPT !.candidate = 1] = [inst |-> i, pc |-> p + 1, candidate |-> 1]
    BY <2>2
  <2>4. [f EXCEPT !.pc = @ + 1, !.candidate = 1] = [g EXCEPT !.candidate = 1]
    BY <2>1
  <2> QED
    BY <2>3, <2>4
<1>3. [f EXCEPT !.candidate = @ + 1] = [inst |-> i, pc |-> p, candidate |-> c + 1]
  BY <1>1
<1>4. p + 1 \in Nat \ {0} /\ c + 1 \in Nat \ {0} /\ f.inst = i
  BY <1>1
<1> QED
  BY <1>2, <1>3, <1>4 DEF FrameRecord

LEMMA AdvanceFacts ==
  ASSUME NEW st \in Seq(FrameRecord), Len(st) # 0
  PROVE  SameFrames(st, Advance(st)) /\ SameFrames(st, [st EXCEPT ![Len(st)].candidate = @ + 1])
<1> DEFINE n == Len(st)
           a == [st[n] EXCEPT !.pc = @ + 1, !.candidate = 1]
           b == [st[n] EXCEPT !.candidate = @ + 1]
<1>1. n \in Nat /\ n \in 1..n /\ DOMAIN st = 1..n /\ st[n] \in FrameRecord
      /\ \A k \in 1..n : st[k] \in FrameRecord
  OBVIOUS
<1>2. a \in FrameRecord /\ a.inst = st[n].inst /\ b \in FrameRecord /\ b.inst = st[n].inst
  <2> DEFINE x == st[n]
  <2>1. x \in FrameRecord
    BY <1>1
  <2> HIDE DEF x
  <2>2. /\ [x EXCEPT !.pc = @ + 1, !.candidate = 1] \in FrameRecord
        /\ [x EXCEPT !.pc = @ + 1, !.candidate = 1].inst = x.inst
        /\ [x EXCEPT !.candidate = @ + 1] \in FrameRecord
        /\ [x EXCEPT !.candidate = @ + 1].inst = x.inst
    BY <2>1, FrameFacts
  <2> QED
    BY <2>2 DEF x
<1>3. Advance(st) = [k \in 1..n |-> IF k = n THEN a ELSE st[k]]
  BY <1>1 DEF Advance, FrameRecord
<1>4. [st EXCEPT ![Len(st)].candidate = @ + 1] = [k \in 1..n |-> IF k = n THEN b ELSE st[k]]
  BY <1>1
<1> HIDE DEF a, b
<1>5. ASSUME NEW x \in FrameRecord, x.inst = st[n].inst
      PROVE  SameFrames(st, [k \in 1..n |-> IF k = n THEN x ELSE st[k]])
  <2> DEFINE new == [k \in 1..n |-> IF k = n THEN x ELSE st[k]]
  <2>1. new \in [1..n -> FrameRecord] /\ new[n] = x /\ \A k \in 1..n : k # n => new[k] = st[k]
    BY <1>1
  <2> HIDE DEF new
  <2>2. new \in Seq(FrameRecord) /\ Len(new) = n
    BY <1>1, <2>1, FunctionSeq
  <2>3. SameFrames(st, new)
    BY <1>1, <1>5, <2>1, <2>2 DEF SameFrames
  <2> QED
    BY <2>3 DEF new
<1>6. SameFrames(st, [k \in 1..n |-> IF k = n THEN a ELSE st[k]])
      /\ SameFrames(st, [k \in 1..n |-> IF k = n THEN b ELSE st[k]])
  BY <1>2, <1>5
<1> QED
  BY Zenon, <1>3, <1>4, <1>6

(* Instances with the same templates and parents. *)
SameInstances(old, new) ==
  /\ new \in Seq(InstanceRecord) /\ Len(new) = Len(old)
  /\ \A k \in DOMAIN old : new[k].templ = old[k].templ /\ new[k].parent = old[k].parent

LEMMA SameLoaded ==
  ASSUME Types, SameInstances(instances, instances')
  PROVE  Loaded' = Loaded
<1>1. instances \in Seq(InstanceRecord) /\ Len(instances) \in Nat
      /\ DOMAIN instances = 1..Len(instances)
  BY DEF Types
<1>2. \A k \in 1..Len(instances) - 1 : k + 1 \in DOMAIN instances
  BY <1>1
<1> QED
  BY <1>1, <1>2 DEF Loaded, SameInstances

(* A step of a render that changes its activations and nothing it holds. *)
LEMMA ControlStep ==
  ASSUME IInv, stack # << >>, leases = 0, Flight = Null, call' = NoCall,
         UNCHANGED <<heap, cache, handles, leases, bytes>>,
         SameInstances(instances, instances'),
         stack' \in Seq(FrameRecord), stack' # << >>,
         \A k \in DOMAIN stack' : stack'[k].inst \in DOMAIN instances
  PROVE  IInv'
<1>1. Types /\ Rendering /\ Calls
  BY DEF IInv
<1>2. instances \in Seq(InstanceRecord) /\ Len(instances) \in Nat
      /\ DOMAIN instances = 1..Len(instances)
  BY <1>1 DEF Types
<1>3. /\ instances' \in Seq(InstanceRecord) /\ Len(instances') = Len(instances)
      /\ DOMAIN instances' = DOMAIN instances
      /\ \A k \in DOMAIN instances : instances'[k].templ = instances[k].templ
                                     /\ instances'[k].parent = instances[k].parent
  BY <1>2 DEF SameInstances
<1>4. Rendering'
  <2>1. instances # << >> /\ handles[instances[1].templ] > 0
    BY <1>1 DEF Rendering
  <2>2. 1 \in DOMAIN instances /\ instances' # << >>
    BY <1>2, <1>3, <2>1
  <2>3. \A k \in DOMAIN instances' : instances'[k].parent \in 0..Len(instances')
    BY <1>1, <1>3 DEF Rendering
  <2>4. \A k \in DOMAIN stack' : stack'[k].inst \in DOMAIN instances'
    BY <1>3
  <2>5. handles'[instances'[1].templ] > 0
    BY <1>3, <2>1, <2>2
  <2> QED
    BY <2>2, <2>3, <2>4, <2>5 DEF Rendering
<1>5. Calls' /\ Flight' = Null
  <2>1. bytes <= MaxBytes /\ Len(instances) <= MaxTemplates + 1
    BY <1>1 DEF Calls
  <2> QED
    BY <1>3, <2>1, CallsIdle
<1>6. Loaded' = Loaded
  BY <1>1, SameLoaded
<1>7. bytes' \in Nat /\ leases' \in Nat
  BY <1>1 DEF Types
<1> QED
  BY <1>3, <1>4, <1>5, <1>6, <1>7, QuietStep

LEMMA SkipStep ==
  ASSUME IInv, Running, Skip
  PROVE  IInv'
<1>1. Types /\ Rendering /\ Calls /\ call = NoCall /\ stack # << >>
  BY DEF IInv, Running
<1>2. stack' = Advance(stack) /\ UNCHANGED <<heap, cache, handles, leases, call, instances, bytes>>
  BY DEF Skip
<1>3. stack \in Seq(FrameRecord) /\ Len(stack) # 0 /\ instances \in Seq(InstanceRecord)
  BY <1>1 DEF Types
<1>4. SameFrames(stack, stack')
  BY <1>2, <1>3, AdvanceFacts
<1>5. stack' \in Seq(FrameRecord) /\ stack' # << >> /\ DOMAIN stack' = DOMAIN stack
  BY <1>3, <1>4 DEF SameFrames
<1>6. \A k \in DOMAIN stack' : stack'[k].inst \in DOMAIN instances
  BY <1>1, <1>4, <1>5 DEF SameFrames, Rendering
<1>7. SameInstances(instances, instances')
  BY <1>2, <1>3 DEF SameInstances
<1>8. leases = 0 /\ Flight = Null
  BY <1>1, IdleFacts
<1> QED
  BY <1>1, <1>2, <1>5, <1>6, <1>7, <1>8, ControlStep

LEMMA RefFacts ==
  ASSUME IInv, NEW op, AtReference(op)
  PROVE  /\ Ref \in References /\ Ref.op = op /\ Running
         /\ op = "include" => Ref.names \in Seq(Names)
         /\ op \in {"import", "extends"} => Ref.names[1] \in Names
<1>1. Running /\ Top.pc <= Len(Body) /\ Ref.op = op
  BY DEF AtReference
<1>2. stack # << >>
  BY <1>1 DEF Running
<1>3. Top \in FrameRecord /\ Body \in Seq(References)
  BY <1>2, CurrentAlive
<1>4. Top.pc \in Nat \ {0}
  BY <1>3 DEF FrameRecord
<1>5. Ref \in References
  BY <1>1, <1>3, <1>4 DEF Ref
<1>6. \/ Ref \in [op : {"include"}, names : Seq(Names), ignoreMissing : BOOLEAN]
      \/ Ref \in [op : {"import"}, names : [1..1 -> Names], withContext : BOOLEAN]
      \/ Ref \in [op : {"extends"}, names : [1..1 -> Names]]
  BY <1>5 DEF References
<1> DEFINE r == Ref
<1>7. \/ r.op = "include" /\ r.names \in Seq(Names)
      \/ r.op \in {"import", "extends"} /\ r.names \in [1..1 -> Names]
  <2> HIDE DEF r
  <2>1. CASE r \in [op : {"include"}, names : Seq(Names), ignoreMissing : BOOLEAN]
    <3>1. r.op \in {"include"} /\ r.names \in Seq(Names)
      BY Zenon, <2>1
    <3> QED
      BY <3>1
  <2>2. CASE r \in [op : {"import"}, names : [1..1 -> Names], withContext : BOOLEAN]
    <3>1. r.op \in {"import"} /\ r.names \in [1..1 -> Names]
      BY Zenon, <2>2
    <3> QED
      BY <3>1
  <2>3. CASE r \in [op : {"extends"}, names : [1..1 -> Names]]
    <3>1. r.op \in {"extends"} /\ r.names \in [1..1 -> Names]
      BY Zenon, <2>3
    <3> QED
      BY <3>1
  <2> QED
    BY <1>6, <2>1, <2>2, <2>3 DEF r
<1>8. r.op = op
  BY <1>1
<1> HIDE DEF r
<1>9. 1 \in 1..1
  OBVIOUS
<1>10. /\ op = "include" => r.names \in Seq(Names)
       /\ op \in {"import", "extends"} => r.names[1] \in Names
  BY <1>7, <1>8, <1>9
<1> QED
  BY <1>1, <1>5, <1>10 DEF r

LEMMA IncludeStep ==
  ASSUME IInv, Include
  PROVE  IInv'
<1>1. AtReference("include")
  BY DEF Include
<1>2. Running /\ Ref.names \in Seq(Names) /\ stack # << >>
  BY <1>1, RefFacts DEF Running
<1>3. Top.candidate \in Nat \ {0}
  BY <1>2, CurrentAlive DEF FrameRecord
<1>4. \/ EndRender(heap)
      \/ Top.candidate <= Len(Ref.names) /\ LoadInstance(Ref.names[Top.candidate])
      \/ Skip
  BY Zenon DEF Include
<1>5. CASE Top.candidate <= Len(Ref.names) /\ LoadInstance(Ref.names[Top.candidate])
  <2>1. Ref.names[Top.candidate] \in Names
    BY <1>2, <1>3, <1>5
  <2> QED
    BY <1>2, <1>5, <2>1, LoadInstanceStep
<1> QED
  BY <1>2, <1>4, <1>5, RunningEnds, SkipStep

LEMMA ImportStep ==
  ASSUME IInv, Import
  PROVE  IInv'
<1>1. AtReference("import")
  BY DEF Import
<1>2. Running /\ Ref.names[1] \in Names
  BY <1>1, RefFacts
<1>3. EndRender(heap) \/ LoadInstance(Ref.names[1]) \/ Skip
  BY Zenon DEF Import
<1> QED
  BY <1>2, <1>3, RunningEnds, SkipStep, LoadInstanceStep

LEMMA ExtendsStep ==
  ASSUME IInv, Extends
  PROVE  IInv'
<1>1. AtReference("extends")
  BY DEF Extends
<1>2. Running /\ Ref.names[1] \in Names
  BY <1>1, RefFacts
<1>3. EndRender(heap) \/ LoadInstance(Ref.names[1])
  BY Zenon DEF Extends
<1> QED
  BY <1>2, <1>3, RunningEnds, LoadInstanceStep

LEMMA NotLoadedStep ==
  ASSUME IInv, NotLoaded
  PROVE  IInv'
<1>1. Types /\ Rendering /\ Calls
  BY DEF IInv
<1>2. call.at = "done" /\ call.templ = Null
  BY DEF NotLoaded
<1>3. leases = 0 /\ stack # << >> /\ Flight = Null
  BY <1>1, <1>2, DoneFacts
<1>4. \/ /\ stack' = NextCandidate /\ call' = NoCall
         /\ UNCHANGED <<heap, cache, handles, leases, instances, bytes>>
      \/ EndRender(heap)
  BY Zenon DEF NotLoaded
<1>5. CASE /\ stack' = NextCandidate /\ call' = NoCall
           /\ UNCHANGED <<heap, cache, handles, leases, instances, bytes>>
  <2>1. stack \in Seq(FrameRecord) /\ Len(stack) # 0 /\ instances \in Seq(InstanceRecord)
    BY <1>1, <1>3 DEF Types
  <2>2. SameFrames(stack, [stack EXCEPT ![Len(stack)].candidate = @ + 1])
    BY <2>1, AdvanceFacts
  <2>3. SameFrames(stack, stack')
    BY Zenon, <1>5, <2>2 DEF NextCandidate
  <2>4. stack' \in Seq(FrameRecord) /\ stack' # << >> /\ DOMAIN stack' = DOMAIN stack
    BY <2>1, <2>3 DEF SameFrames
  <2>5. \A k \in DOMAIN stack' : stack'[k].inst \in DOMAIN instances
    BY <1>1, <2>3, <2>4 DEF SameFrames, Rendering
  <2>6. SameInstances(instances, instances')
    BY <1>5, <2>1 DEF SameInstances
  <2> QED
    BY <1>3, <1>5, <2>4, <2>5, <2>6, ControlStep
<1> QED
  BY <1>3, <1>4, <1>5, EndRenderHere

Put(s, k, x) == [s EXCEPT ![k] = x]

LEMMA PutFacts ==
  ASSUME NEW s \in Seq(InstanceRecord), NEW k \in DOMAIN s, NEW x \in InstanceRecord
  PROVE  /\ Put(s, k, x) \in Seq(InstanceRecord) /\ Len(Put(s, k, x)) = Len(s)
         /\ Put(s, k, x)[k] = x /\ \A j \in DOMAIN s : j # k => Put(s, k, x)[j] = s[j]
<1> DEFINE p == Put(s, k, x)
           n == Len(s)
<1>1. n \in Nat /\ DOMAIN s = 1..n
  OBVIOUS
<1>2. p \in [1..n -> InstanceRecord] /\ p[k] = x /\ \A j \in 1..n : j # k => p[j] = s[j]
  BY <1>1 DEF Put
<1> HIDE DEF p
<1>3. p \in Seq(InstanceRecord) /\ Len(p) = n
  BY <1>1, <1>2, FunctionSeq
<1> QED
  BY <1>1, <1>2, <1>3 DEF p

LEMMA RunParentStep ==
  ASSUME IInv, RunParent
  PROVE  IInv'
<1>1. Types /\ Rendering /\ Calls
  BY DEF IInv
<1>2. Running /\ Current.parent # 0 /\ stack # << >> /\ call = NoCall
  BY DEF RunParent, Running
<1>3. CASE EndRender(heap)
  BY <1>2, <1>3, RunningEnds
<1>4. CASE /\ stack' = Append(stack, Frame(Current.parent))
           /\ instances' = [instances EXCEPT ![Current.parent].runs = @ + 1]
           /\ UNCHANGED <<heap, cache, handles, leases, call, bytes>>
  <2> DEFINE k == Current.parent
             x == [instances[k] EXCEPT !.runs = @ + 1]
  <2>1. stack \in Seq(FrameRecord) /\ instances \in Seq(InstanceRecord)
        /\ DOMAIN instances = 1..Len(instances) /\ Len(instances) \in Nat
    BY <1>1 DEF Types
  <2>2. k \in DOMAIN instances
    <3>1. Top.inst \in DOMAIN instances
      BY <1>2, CurrentAlive
    <3>2. k \in 0..Len(instances)
      BY <1>1, <3>1 DEF Rendering, Current
    <3> QED
      BY <1>2, <2>1, <3>2
  <2>3. instances[k] \in InstanceRecord
    BY <2>1, <2>2
  <2>4. x \in InstanceRecord /\ x.templ = instances[k].templ /\ x.parent = instances[k].parent
    BY <2>3 DEF InstanceRecord
  <2>5. instances' = Put(instances, k, x)
    BY <1>4 DEF Put
  <2> HIDE DEF x
  <2>6. /\ Put(instances, k, x) \in Seq(InstanceRecord)
        /\ Len(Put(instances, k, x)) = Len(instances) /\ Put(instances, k, x)[k] = x
        /\ \A j \in DOMAIN instances : j # k => Put(instances, k, x)[j] = instances[j]
    BY <2>1, <2>2, <2>4, PutFacts
  <2>7. SameInstances(instances, instances')
    BY <2>4, <2>5, <2>6 DEF SameInstances
  <2> DEFINE f == Frame(k)
             n == Len(stack)
  <2>8. f \in FrameRecord /\ f.inst = k
    BY <2>1, <2>2 DEF Frame, FrameRecord
  <2> HIDE DEF f, k
  <2>9. n \in Nat /\ stack' \in Seq(FrameRecord) /\ Len(stack') = n + 1 /\ stack'[n + 1] = f
        /\ \A i \in 1..n : stack'[i] = stack[i]
    BY <1>4, <2>1, <2>8 DEF f, k
  <2>10. stack' # << >> /\ DOMAIN stack' = 1..n + 1 /\ DOMAIN stack = 1..n
    BY <2>1, <2>9
  <2>11. \A i \in DOMAIN stack' : stack'[i].inst \in DOMAIN instances
    <3> TAKE i \in DOMAIN stack'
    <3>1. CASE i \in 1..n
      BY <1>1, <2>9, <2>10, <3>1 DEF Rendering
    <3>2. CASE i = n + 1
      BY <2>2, <2>8, <2>9, <3>2
    <3> QED
      BY <2>9, <2>10, <3>1, <3>2
  <2>12. leases = 0 /\ Flight = Null
    BY <1>1, <1>2, IdleFacts
  <2> QED
    BY <1>2, <1>4, <2>7, <2>9, <2>10, <2>11, <2>12, ControlStep
<1>5. \/ EndRender(heap)
      \/ /\ stack' = Append(stack, Frame(Current.parent))
         /\ instances' = [instances EXCEPT ![Current.parent].runs = @ + 1]
         /\ UNCHANGED <<heap, cache, handles, leases, call, bytes>>
  BY Zenon DEF RunParent
<1> QED
  BY Zenon, <1>3, <1>4, <1>5

LEMMA ReturnStep ==
  ASSUME IInv, Return
  PROVE  IInv'
<1>1. Types /\ Rendering /\ Calls
  BY DEF IInv
<1>2. Running /\ stack # << >> /\ call = NoCall
  BY DEF Return, Running
<1>3. CASE EndRender(heap)
  BY <1>2, <1>3, RunningEnds
<1>4. CASE /\ Len(stack) # 1
           /\ stack' = Advance(SubSeq(stack, 1, Len(stack) - 1))
           /\ instances' = [instances EXCEPT ![Top.inst].state =
                              IF @ = "INITIALIZING" THEN "READY" ELSE @]
           /\ UNCHANGED <<heap, cache, handles, leases, call, bytes>>
  <2> DEFINE k == Top.inst
             x == [instances[k] EXCEPT !.state = IF @ = "INITIALIZING" THEN "READY" ELSE @]
             n == Len(stack)
             r == SubSeq(stack, 1, n - 1)
  <2>1. stack \in Seq(FrameRecord) /\ instances \in Seq(InstanceRecord)
        /\ DOMAIN instances = 1..Len(instances) /\ Len(instances) \in Nat
    BY <1>1 DEF Types
  <2>2. k \in DOMAIN instances
    BY <1>2, CurrentAlive
  <2>3. instances[k] \in InstanceRecord
    BY <2>1, <2>2
  <2>4. x \in InstanceRecord /\ x.templ = instances[k].templ /\ x.parent = instances[k].parent
    BY <2>3 DEF InstanceRecord
  <2>5. instances' = Put(instances, k, x)
    BY <1>4 DEF Put
  <2> HIDE DEF x
  <2>6. /\ Put(instances, k, x) \in Seq(InstanceRecord)
        /\ Len(Put(instances, k, x)) = Len(instances) /\ Put(instances, k, x)[k] = x
        /\ \A j \in DOMAIN instances : j # k => Put(instances, k, x)[j] = instances[j]
    BY <2>1, <2>2, <2>4, PutFacts
  <2>7. SameInstances(instances, instances')
    BY <2>4, <2>5, <2>6 DEF SameInstances
  <2>8. n - 1 \in Nat \ {0} /\ DOMAIN stack = 1..n
    BY <1>2, <1>4, <2>1
  <2>9. r \in Seq(FrameRecord) /\ Len(r) = n - 1 /\ DOMAIN r = 1..n - 1
        /\ \A i \in 1..n - 1 : r[i] = stack[i] /\ i \in DOMAIN stack
    BY <2>1, <2>8
  <2>10. SameFrames(r, Advance(r))
    <3> HIDE DEF r
    <3> QED
      BY <2>8, <2>9, AdvanceFacts
  <2>11. stack' = Advance(r)
    BY <1>4
  <2> HIDE DEF r, n
  <2>12. stack' \in Seq(FrameRecord) /\ stack' # << >> /\ DOMAIN stack' = DOMAIN r
    <3> DEFINE q == Advance(r)
    <3>1. q \in Seq(FrameRecord) /\ Len(q) = Len(r)
      BY <2>10 DEF SameFrames
    <3>2. Len(q) # 0 /\ DOMAIN q = 1..Len(q) /\ Len(q) = n - 1
      BY <2>8, <2>9, <3>1
    <3> HIDE DEF q
    <3>3. q # << >>
      <4>1. q = << >> => Len(q) = 0
        OBVIOUS
      <4> QED
        BY <3>2, <4>1
    <3>4. DOMAIN q = DOMAIN r
      BY <2>9, <3>2
    <3> QED
      BY <2>11, <3>1, <3>3, <3>4 DEF q
  <2>13. \A i \in DOMAIN stack' : stack'[i].inst \in DOMAIN instances
    <3>1. \A i \in DOMAIN r : Advance(r)[i].inst = r[i].inst
      BY <2>10 DEF SameFrames
    <3>2. \A i \in DOMAIN stack : stack[i].inst \in DOMAIN instances
      BY <1>1 DEF Rendering
    <3>3. \A i \in DOMAIN r : r[i] = stack[i] /\ i \in DOMAIN stack
      BY <2>9
    <3> QED
      BY <2>11, <2>12, <3>1, <3>2, <3>3
  <2>14. leases = 0 /\ Flight = Null
    BY <1>1, <1>2, IdleFacts
  <2> QED
    BY <1>2, <1>4, <2>7, <2>12, <2>13, <2>14, ControlStep
<1>5. \/ EndRender(heap)
      \/ /\ Len(stack) # 1
         /\ stack' = Advance(SubSeq(stack, 1, Len(stack) - 1))
         /\ instances' = [instances EXCEPT ![Top.inst].state =
                            IF @ = "INITIALIZING" THEN "READY" ELSE @]
         /\ UNCHANGED <<heap, cache, handles, leases, call, bytes>>
  BY Zenon DEF Return
<1> QED
  BY Zenon, <1>3, <1>4, <1>5

(* The reference of the load goes to the new instance. *)
LEMMA InstanceAdded ==
  ASSUME IInv, call.at = "done", call.templ # Null, call' = NoCall,
         bytes' = bytes + heap[call.templ].source.len,
         UNCHANGED <<heap, cache, handles, leases>>,
         NEW s \in Seq(InstanceRecord), Len(s) = Len(instances),
         \A k \in DOMAIN instances : s[k].templ = instances[k].templ
                                     /\ s[k].parent \in 0..Len(instances) + 1,
         NEW x \in InstanceRecord, x.templ = call.templ, x.parent = 0,
         instances' = Append(s, x), stack' \in Seq(FrameRecord), stack' # << >>,
         \A k \in DOMAIN stack' : stack'[k].inst \in 1..Len(instances) + 1
  PROVE  IInv'
<1>1. Types /\ Rendering /\ Calls /\ Unique /\ Exact
  BY DEF IInv
<1> DEFINE n == Len(instances)
           t == call.templ
<1>2. /\ leases = 0 /\ Flight = t /\ t \in Templates /\ bytes <= MaxBytes /\ n <= MaxTemplates
      /\ heap[t].source.len <= MaxBytes - bytes /\ stack # << >>
  BY <1>1, DoneFacts
<1>3. /\ Heap(heap) /\ handles \in [Templates -> Nat] /\ cache \in Seq(Templates)
      /\ Loaded \in Seq(Templates) /\ instances \in Seq(InstanceRecord) /\ n \in Nat
      /\ DOMAIN instances = 1..n /\ bytes \in Nat
  BY <1>1, LoadedType DEF Types
<1>4. t \in DOMAIN heap
  BY <1>1, <1>2, Alive
<1>5. heap[t].source \in Sources
  BY <1>3, <1>4 DEF Heap, Record
<1>6. heap[t].source.len \in Nat
  BY <1>5, LoadingAssumption
<1>7. n # 0 /\ 1 \in 1..n /\ handles[instances[1].templ] > 0
  BY <1>1, <1>2, <1>3 DEF Rendering
<1>8. /\ instances' \in Seq(InstanceRecord) /\ Len(instances') = n + 1
      /\ DOMAIN instances' = 1..n + 1 /\ instances'[n + 1] = x
      /\ \A k \in 1..n : instances'[k] = s[k]
  BY <1>3
<1>9. bytes' \in Nat /\ bytes' <= MaxBytes
  <2> DEFINE l == heap[t].source.len
  <2>1. l \in Nat /\ l <= MaxBytes - bytes /\ bytes' = bytes + l /\ bytes \in Nat
    BY <1>2, <1>3, <1>6
  <2> HIDE DEF l
  <2> QED
    BY <2>1, BoundsTypes
<1>10. Calls' /\ Flight' = Null
  BY <1>2, <1>3, <1>8, <1>9, CallsIdle, BoundsTypes
<1>11. Rendering'
  <2>1. \A k \in DOMAIN stack' : stack'[k].inst \in DOMAIN instances'
    BY <1>8
  <2>2. \A k \in DOMAIN instances' : instances'[k].parent \in 0..Len(instances')
    <3> TAKE k \in DOMAIN instances'
    <3>1. CASE k \in 1..n
      BY <1>3, <1>8, <3>1
    <3>2. CASE k = n + 1
      BY <1>3, <1>8, <3>2
    <3> QED
      BY <1>3, <1>8, <3>1, <3>2
  <2>3. instances'[1].templ = instances[1].templ
    BY <1>3, <1>7, <1>8
  <2>4. instances' # << >>
    <3>1. instances' = << >> => Len(instances') = 0
      OBVIOUS
    <3> QED
      BY <1>3, <1>8, <3>1
  <2> QED
    BY <1>7, <2>1, <2>2, <2>3, <2>4 DEF Rendering
<1>12. Types'
  BY <1>1, <1>8, <1>9 DEF Types
<1>13. /\ Listed(Loaded, n - 1) /\ Listed(Loaded', n) /\ Loaded'[n] = t
       /\ \A k \in 1..n - 1 : Loaded'[k] = Loaded[k]
  <2>1. n - 1 \in Nat /\ (n + 1) - 1 = n /\ n \in 1..n
    BY <1>3, <1>7
  <2>2. Loaded = [k \in 1..n - 1 |-> instances[k + 1].templ]
    BY DEF Loaded
  <2>3. Loaded' = [k \in 1..n |-> instances'[k + 1].templ]
    BY <1>8, <2>1 DEF Loaded
  <2>4. \A k \in 1..n - 1 : k + 1 \in 1..n /\ k \in 1..n
    BY <2>1
  <2>5. \A k \in 1..n - 1 : instances'[k + 1].templ = instances[k + 1].templ
    BY <1>3, <1>8, <2>4
  <2> HIDE DEF n
  <2> QED
    BY <1>8, <2>1, <2>2, <2>3, <2>4, <2>5 DEF Listed
<1>14. ASSUME NEW u \in Templates
       PROVE  Owners(handles', cache', Loaded', Flight', u)
                = Owners(handles, cache, Loaded, Flight, u)
  <2>1. Count(Loaded', u) = Count(Loaded, u) + (IF t = u THEN 1 ELSE 0)
    <3> DEFINE m == n - 1
    <3>1. Listed(Loaded, m) /\ Listed(Loaded', n) /\ n = m + 1
      BY <1>3, <1>13
    <3>2. Longer(Loaded, Loaded', m, t)
      BY <1>3, <1>13 DEF Longer
    <3> HIDE DEF m, n
    <3> QED
      BY <3>1, <3>2, CountLonger
  <2>2. handles[u] \in Nat /\ Count(cache, u) \in Nat /\ Count(Loaded, u) \in Nat
    <3>1. OwnersAdd(handles, cache, Loaded, Flight, u)
      BY <1>3, OwnersType
    <3> QED
      BY <3>1 DEF OwnersAdd
  <2>3. InFlight(Flight', u) = 0 /\ InFlight(Flight, u) = IF t = u THEN 1 ELSE 0
    BY <1>2, <1>10, BoundsTypes DEF InFlight
  <2> QED
    BY <2>1, <2>2, <2>3 DEF Owners
<1>15. Exact' /\ Unique'
  BY <1>1, <1>14, ExactKept
<1> QED
  BY <1>10, <1>11, <1>12, <1>15 DEF IInv

LEMMA NewInstanceFacts ==
  ASSUME NEW state \in {"NONE", "INITIALIZING", "READY"}, NEW c \in Nat, NEW r \in Nat,
         call.templ \in Templates
  PROVE  /\ NewInstance(state, c, r) \in InstanceRecord
         /\ NewInstance(state, c, r).templ = call.templ /\ NewInstance(state, c, r).parent = 0
<1>1. PICK b \in BOOLEAN : b = (Ref.op = "import" /\ ~Ref.withContext)
  OBVIOUS
<1>2. [templ |-> call.templ, cacheable |-> b, state |-> state, parent |-> 0, chainRoot |-> c,
       runs |-> r] \in InstanceRecord
  BY DEF InstanceRecord
<1>3. NewInstance(state, c, r) = [templ |-> call.templ, cacheable |-> b, state |-> state,
                                  parent |-> 0, chainRoot |-> c, runs |-> r]
  BY Zenon, <1>1 DEF NewInstance
<1> QED
  BY <1>2, <1>3

LEMMA InstanceStep ==
  ASSUME IInv, Instance
  PROVE  IInv'
<1>1. Types /\ Rendering /\ Calls
  BY DEF IInv
<1> DEFINE n == Len(instances)
           m == Len(stack)
           k == n + 1
<1>2. /\ call.at = "done" /\ call.templ # Null /\ call' = NoCall
      /\ bytes' = bytes + heap[call.templ].source.len
      /\ UNCHANGED <<heap, cache, handles, leases>>
  BY DEF Instance
<1>3. stack # << >> /\ call.templ \in Templates
  BY <1>1, <1>2, DoneFacts
<1>4. /\ stack \in Seq(FrameRecord) /\ instances \in Seq(InstanceRecord) /\ n \in Nat /\ m \in Nat
      /\ DOMAIN instances = 1..n /\ DOMAIN stack = 1..m /\ m # 0
  BY <1>1, <1>3 DEF Types
<1>5. \A j \in 1..m : stack[j].inst \in 1..n
  BY <1>1, <1>4 DEF Rendering
<1>6. \A j \in 1..n : instances[j].parent \in 0..n + 1
  BY <1>1, <1>4 DEF Rendering
<1>7. CASE \E st \in {"NONE", "INITIALIZING"} :
             /\ instances' = Append(instances, NewInstance(st, k, 1))
             /\ stack' = Append(stack, Frame(k))
  <2>1. PICK st \in {"NONE", "INITIALIZING"} :
             /\ instances' = Append(instances, NewInstance(st, k, 1))
             /\ stack' = Append(stack, Frame(k))
    BY <1>7
  <2> DEFINE x == NewInstance(st, k, 1)
             f == Frame(k)
  <2>2. x \in InstanceRecord /\ x.templ = call.templ /\ x.parent = 0
    BY <1>3, <1>4, NewInstanceFacts
  <2>3. f \in FrameRecord /\ f.inst = k
    BY <1>4 DEF Frame, FrameRecord
  <2>4. instances' = Append(instances, x) /\ stack' = Append(stack, f)
    BY <2>1
  <2> HIDE DEF x, f
  <2>5. stack' \in Seq(FrameRecord) /\ stack' # << >> /\ DOMAIN stack' = 1..m + 1
        /\ stack'[m + 1] = f /\ \A j \in 1..m : stack'[j] = stack[j]
    BY <1>4, <2>3, <2>4
  <2>6. \A j \in DOMAIN stack' : stack'[j].inst \in 1..n + 1
    <3> TAKE j \in DOMAIN stack'
    <3>1. CASE j \in 1..m
      BY <1>4, <1>5, <2>5, <3>1
    <3>2. CASE j = m + 1
      BY <1>4, <2>3, <2>5, <3>2
    <3> QED
      BY <1>4, <2>5, <3>1, <3>2
  <2> QED
    BY <1>2, <1>4, <1>6, <2>2, <2>4, <2>5, <2>6, InstanceAdded
<1>8. CASE /\ instances' = Append([instances EXCEPT ![Top.inst].parent = k],
                                  NewInstance("NONE", Current.chainRoot, 0))
           /\ stack' = Advance(stack)
  <2> DEFINE x == NewInstance("NONE", Current.chainRoot, 0)
             i == Top.inst
             y == [instances[i] EXCEPT !.parent = k]
             s == Put(instances, i, y)
  <2>1. i \in 1..n /\ Current \in InstanceRecord /\ instances[i] \in InstanceRecord
    BY <1>3, <1>4, CurrentAlive DEF Current
  <2>2. Current.chainRoot \in Nat
    BY <2>1 DEF InstanceRecord
  <2>3. x \in InstanceRecord /\ x.templ = call.templ /\ x.parent = 0
    BY <1>3, <2>2, NewInstanceFacts
  <2>4. y \in InstanceRecord /\ y.templ = instances[i].templ /\ y.parent = k
    <3> DEFINE z == instances[i]
    <3>1. z \in InstanceRecord /\ k \in Nat
      BY <1>4, <2>1
    <3> HIDE DEF z, k
    <3>2. /\ [z EXCEPT !.parent = k] \in InstanceRecord
          /\ [z EXCEPT !.parent = k].templ = z.templ /\ [z EXCEPT !.parent = k].parent = k
      BY <3>1 DEF InstanceRecord
    <3> QED
      BY <3>2 DEF z
  <2>5. [instances EXCEPT ![i].parent = k] = s
    BY DEF Put
  <2>6. instances' = Append(s, x)
    BY <1>8, <2>5
  <2> HIDE DEF y
  <2>7. /\ s \in Seq(InstanceRecord) /\ Len(s) = n /\ s[i] = y
        /\ \A j \in DOMAIN instances : j # i => s[j] = instances[j]
    <3>1. i \in DOMAIN instances /\ instances \in Seq(InstanceRecord) /\ y \in InstanceRecord
      BY <1>4, <2>1, <2>4
    <3> HIDE DEF i
    <3>2. /\ Put(instances, i, y) \in Seq(InstanceRecord)
          /\ Len(Put(instances, i, y)) = Len(instances) /\ Put(instances, i, y)[i] = y
          /\ \A j \in DOMAIN instances : j # i => Put(instances, i, y)[j] = instances[j]
      BY <3>1, PutFacts
    <3> QED
      BY <3>2
  <2> HIDE DEF x, s, i
  <2>8. \A j \in DOMAIN instances : s[j].templ = instances[j].templ /\ s[j].parent \in 0..n + 1
    <3> TAKE j \in DOMAIN instances
    <3>1. CASE j = i
      BY <1>4, <2>4, <2>7, <3>1
    <3>2. CASE j # i
      BY <1>4, <1>6, <2>7, <3>2
    <3> QED
      BY <3>1, <3>2
  <2>9. SameFrames(stack, stack')
    BY <1>4, <1>8, AdvanceFacts
  <2>10. stack' \in Seq(FrameRecord) /\ Len(stack') = m
         /\ \A j \in DOMAIN stack : stack'[j].inst = stack[j].inst
    BY <2>9 DEF SameFrames
  <2>11. stack' # << >>
    <3>1. stack' = << >> => Len(stack') = 0
      OBVIOUS
    <3> QED
      BY <1>4, <2>10, <3>1
  <2>12. \A j \in DOMAIN stack' : stack'[j].inst \in 1..n + 1
    <3>1. DOMAIN stack' = 1..m
      BY <2>10
    <3> QED
      BY <1>4, <1>5, <2>10, <3>1
  <2> QED
    BY <1>2, <2>3, <2>6, <2>7, <2>8, <2>10, <2>11, <2>12, InstanceAdded
<1>9. \/ \E st \in {"NONE", "INITIALIZING"} :
           /\ instances' = Append(instances, NewInstance(st, k, 1))
           /\ stack' = Append(stack, Frame(k))
      \/ /\ instances' = Append([instances EXCEPT ![Top.inst].parent = k],
                                NewInstance("NONE", Current.chainRoot, 0))
         /\ stack' = Advance(stack)
  BY Zenon DEF Instance
<1> QED
  BY Zenon, <1>7, <1>8, <1>9

---------------------------------------------------------------------------
(* The theorems.                                                           *)

LEMMA InitHolds == Init => IInv
<1> SUFFICES ASSUME Init PROVE IInv
  OBVIOUS
<1>1. /\ heap = << >> /\ cache = << >> /\ handles = [t \in Templates |-> 0]
      /\ leases = 0 /\ call = NoCall /\ instances = << >> /\ stack = << >> /\ bytes = 0
  BY DEF Init
<1>2. DOMAIN heap = {} /\ DOMAIN cache = {} /\ DOMAIN instances = {} /\ DOMAIN stack = {}
      /\ Len(cache) = 0 /\ Len(instances) = 0
  BY <1>1
<1>3. Heap(heap)
  BY <1>1, <1>2 DEF Heap
<1>4. Types
  BY <1>1, <1>2, <1>3, BoundsTypes DEF Types
<1>5. Rendering
  BY <1>1, <1>2 DEF Rendering
<1>6. Flight = Null
  BY <1>1 DEF Flight, NoCall
<1>7. Calls
  BY <1>1, <1>2, BoundsTypes DEF Calls, Flight, NoCall
<1>8. Unique
  BY <1>2 DEF Unique
<1>9. Sound(heap, handles, cache, Loaded, Flight)
  <2> SUFFICES ASSUME NEW t \in Templates
               PROVE  Balanced(heap, t, Owners(handles, cache, Loaded, Flight, t), Count(cache, t))
    BY DEF Sound
  <2>1. cache \in Seq(Templates) /\ Loaded \in Seq(Templates)
    BY <1>4, LoadedType DEF Types
  <2>2. Len(Loaded) = 0
    <3>1. DOMAIN Loaded = {}
      BY <1>2 DEF Loaded
    <3> QED
      BY <2>1, <3>1
  <2>3. Count(cache, t) = 0 /\ Count(Loaded, t) = 0
    BY <1>2, <2>1, <2>2, CountEmpty
  <2>4. handles[t] = 0 /\ InFlight(Flight, t) = 0
    BY <1>1, <1>6, BoundsTypes DEF InFlight
  <2>5. Owners(handles, cache, Loaded, Flight, t) = 0
    BY <2>3, <2>4 DEF Owners
  <2> QED
    BY <1>2, <2>5 DEF Balanced
<1> QED
  BY <1>4, <1>5, <1>7, <1>8, <1>9, ExactSound DEF IInv

LEMMA StutterHolds ==
  ASSUME IInv, UNCHANGED vars
  PROVE  IInv'
<1>1. /\ heap' = heap /\ cache' = cache /\ handles' = handles /\ leases' = leases
      /\ call' = call /\ instances' = instances /\ stack' = stack /\ bytes' = bytes
  BY DEF vars
<1>2. Types /\ Rendering /\ Calls /\ Unique /\ Exact
  BY DEF IInv
<1>3. Flight' = Flight /\ Loaded' = Loaded
  BY <1>1 DEF Flight, Loaded
<1>4. Types' /\ Rendering' /\ Unique'
  BY <1>1, <1>2 DEF Types, Rendering, Unique
<1>5. Calls'
  BY <1>1, <1>2, <1>3 DEF Calls
<1>6. Exact'
  BY <1>1, <1>2, <1>3, ExactSound
<1> QED
  BY <1>4, <1>5, <1>6 DEF IInv

LEMMA NextHolds == IInv /\ [Next]_vars => IInv'
<1> SUFFICES ASSUME IInv, [Next]_vars PROVE IInv'
  OBVIOUS
<1>1. CASE Host
  <2>1. \/ \E n \in Names : EnvLoad(n)
        \/ \E n \in Names : \E s \in Loader[n] : EnvCompile(n, s)
        \/ \E t \in Templates : Release(t)
        \/ \E t \in Templates : Render(t)
        \/ CacheClear
    BY <1>1 DEF Host
  <2> QED
    BY <2>1, EnvLoadStep, EnvCompileStep, ReleaseStep, RenderStep, CacheClearStep
<1>2. CASE Load
  BY <1>2, LoaderFailsStep, LoaderGrantsStep, RefuseStep, HitStep, MissStep, ReleaseLeaseStep
     DEF Load
<1>3. CASE Step
  <2>1. CASE RenderError
    BY <2>1, RunningEnds DEF RenderError
  <2> QED
    BY <1>3, <2>1, IncludeStep, ImportStep, ExtendsStep, NotLoadedStep, NoInstanceStep,
       InstanceStep, RunParentStep, ReturnStep
       DEF Step
<1>4. CASE UNCHANGED vars
  BY <1>4, StutterHolds
<1> QED
  BY <1>1, <1>2, <1>3, <1>4 DEF Next

(* The invariant holds in every reachable state, for any templates, any    *)
(* loader and any bounds.                                                  *)
THEOREM InvariantHolds == Spec => []IInv
BY InitHolds, NextHolds, PTL DEF Spec

(* A template is alive exactly while the cache, the host, a render or a    *)
(* load in progress refers to it, and its count is the number of those     *)
(* references: jinja_cmeta_release, the replacement and eviction of        *)
(* jinja_env_cache_add, jinja_cmeta_env_cache_clear and                    *)
(* jinja_provider_destroy neither free a template in use nor leak one.     *)
THEOREM ReferencesStayExact == Spec => []ReferencesExact
<1>1. IInv => ReferencesExact
  <2> SUFFICES ASSUME IInv, NEW t \in Templates
               PROVE  IF t \in DOMAIN heap
                      THEN heap[t].references
                             \in (IF Holders(t) = 1 THEN {0, 1} ELSE {Holders(t)} \ {0})
                      ELSE Holders(t) = 0
    BY DEF ReferencesExact
  <2>1. Balanced(heap, t, Holders(t), Count(cache, t))
    BY DEF IInv, Exact
  <2> QED
    BY <2>1 DEF Balanced
<1> QED
  BY <1>1, InvariantHolds, PTL

(* Each lease is released before its load returns, a load delivers what    *)
(* the loader gave this time, and jinja_load_instance never exceeds the    *)
(* budget of source bytes or of instances.                                 *)
THEOREM LoadsStayAccounted == Spec => []LoadsAccounted
<1>1. IInv => LoadsAccounted
  BY DEF IInv, Calls, LoadsAccounted
<1> QED
  BY <1>1, InvariantHolds, PTL


---------------------------------------------------------------------------
(* Modules, chains and bodies of a render.                                 *)

(* I are its instances, st its activations, nm[k] the name and ln[k] the   *)
(* length of the body of instance k.                                       *)

Shape(I, st, nm, ln) ==
  /\ I \in Seq(InstanceRecord) /\ st \in Seq(FrameRecord)
  /\ DOMAIN nm = DOMAIN I /\ ln \in [DOMAIN I -> Nat]
  /\ \A f \in DOMAIN st : st[f].inst \in DOMAIN I
  /\ \A k \in DOMAIN I : I[k].parent \in 0..Len(I)

(* A name has one module without context. *)
Modular(I, nm) ==
  \A j, k \in DOMAIN I : I[j].cacheable /\ I[k].cacheable /\ nm[j] = nm[k] => j = k

(* A body runs once: each activation is the only one its instance ever     *)
(* has, and only then does the instance get a parent.                      *)
Actives(I, st) ==
  /\ \A k \in DOMAIN I : I[k].runs \in {0, 1} /\ (I[k].parent # 0 => I[k].runs = 1)
  /\ \A f \in DOMAIN st : I[st[f].inst].runs = 1
  /\ \A f, g \in DOMAIN st : st[f].inst = st[g].inst => f = g

(* A parent is loaded after its child, for that child only, and belongs to *)
(* the child's chain.                                                      *)
Parents(I) ==
  /\ \A j \in DOMAIN I : I[j].parent # 0 =>
       j < I[j].parent /\ I[I[j].parent].chainRoot = I[j].chainRoot
  /\ \A j, k \in DOMAIN I : I[j].parent = I[k].parent /\ I[j].parent # 0 => j = k

(* An instance is the root of its chain or the parent of an earlier one. *)
Roots(I) ==
  \A k \in DOMAIN I :
    /\ I[k].chainRoot \in 1..k
    /\ I[k].chainRoot = k \/ \E j \in DOMAIN I : j < k /\ I[j].parent = k

(* The instances of a chain differ in name. *)
Distinct(I, nm) ==
  \A j, k \in DOMAIN I : I[j].chainRoot = I[k].chainRoot /\ nm[j] = nm[k] => j = k

(* A parent has not run while its child is in its body, nor while the      *)
(* child, back on top, is about to run it.                                 *)
Waits(I, st, ln) ==
  \A f \in DOMAIN st :
    LET i == st[f].inst IN
    /\ I[i].parent # 0
    /\ st[f].pc <= ln[i] \/ (f = Len(st) /\ st[f].pc = ln[i] + 1)
    => I[I[i].parent].runs = 0

Ordered(I, st, nm, ln) ==
  /\ Shape(I, st, nm, ln) /\ Modular(I, nm) /\ Actives(I, st) /\ Parents(I)
  /\ Roots(I) /\ Distinct(I, nm) /\ Waits(I, st, ln)

---------------------------------------------------------------------------

(* The instances keep all but their states. *)
Alike(I, J) ==
  /\ J \in Seq(InstanceRecord) /\ Len(J) = Len(I)
  /\ \A k \in DOMAIN I :
       /\ J[k].cacheable = I[k].cacheable /\ J[k].parent = I[k].parent
       /\ J[k].chainRoot = I[k].chainRoot /\ J[k].runs = I[k].runs

(* The activations up to the n-th, which has gone on, or stays where it is *)
(* if it is the last.                                                      *)
Resumed(st, new, n) ==
  /\ new \in Seq(FrameRecord) /\ n \in 1..Len(st) /\ Len(new) = n
  /\ \A f \in 1..n : new[f].inst = st[f].inst /\ (f # n => new[f].pc = st[f].pc)
  /\ new[n].pc = st[n].pc + 1 \/ (n = Len(st) /\ new[n].pc = st[n].pc)

LEMMA OrderedResumed ==
  ASSUME NEW I, NEW J, NEW st, NEW new, NEW nm, NEW ln, NEW n,
         Ordered(I, st, nm, ln), Alike(I, J), Resumed(st, new, n)
  PROVE  Ordered(J, new, nm, ln)
<1>1. /\ I \in Seq(InstanceRecord) /\ st \in Seq(FrameRecord) /\ DOMAIN nm = DOMAIN I
      /\ ln \in [DOMAIN I -> Nat] /\ \A f \in DOMAIN st : st[f].inst \in DOMAIN I
      /\ \A k \in DOMAIN I : I[k].parent \in 0..Len(I)
  BY DEF Ordered, Shape
<1>2. /\ J \in Seq(InstanceRecord) /\ Len(J) = Len(I) /\ DOMAIN J = DOMAIN I
      /\ \A k \in DOMAIN I :
           /\ J[k].cacheable = I[k].cacheable /\ J[k].parent = I[k].parent
           /\ J[k].chainRoot = I[k].chainRoot /\ J[k].runs = I[k].runs
  BY <1>1 DEF Alike
<1>3. /\ new \in Seq(FrameRecord) /\ Len(new) = n /\ n \in Nat \ {0} /\ DOMAIN new = 1..n
      /\ \A f \in 1..n : f \in DOMAIN st /\ new[f].inst = st[f].inst
      /\ \A f \in 1..n : f # n => new[f].pc = st[f].pc /\ f # Len(st)
      /\ new[n].pc = st[n].pc + 1 \/ (n = Len(st) /\ new[n].pc = st[n].pc)
  BY <1>1 DEF Resumed
<1>4. Shape(J, new, nm, ln)
  BY <1>1, <1>2, <1>3 DEF Shape
<1>5. Modular(J, nm) /\ Distinct(J, nm)
  BY <1>2 DEF Ordered, Modular, Distinct
<1>6. Actives(J, new)
  <2>1. Actives(I, st)
    BY DEF Ordered
  <2>2. \A k \in DOMAIN J : J[k].runs \in {0, 1} /\ (J[k].parent # 0 => J[k].runs = 1)
    BY <1>2, <2>1 DEF Actives
  <2>3. \A f \in DOMAIN new : J[new[f].inst].runs = 1
    <3> TAKE f \in DOMAIN new
    <3>1. f \in DOMAIN st /\ new[f].inst = st[f].inst /\ st[f].inst \in DOMAIN I
      BY <1>1, <1>3
    <3>2. I[st[f].inst].runs = 1
      BY <2>1, <3>1 DEF Actives
    <3> QED
      BY <1>2, <3>1, <3>2
  <2>4. \A f, g \in DOMAIN new : new[f].inst = new[g].inst => f = g
    BY <1>3, <2>1 DEF Actives
  <2> QED
    BY <2>2, <2>3, <2>4 DEF Actives
<1>7. Roots(J)
  BY <1>2 DEF Ordered, Roots
<1>8. Parents(J)
  <2>1. \A k \in DOMAIN I : I[k].parent # 0 => I[k].parent \in DOMAIN I
    BY <1>1
  <2> QED
    BY <1>2, <2>1 DEF Ordered, Parents
<1>9. Waits(J, new, ln)
  <2> SUFFICES ASSUME NEW f \in DOMAIN new, NEW i, i = new[f].inst, J[i].parent # 0,
                      new[f].pc <= ln[i] \/ (f = Len(new) /\ new[f].pc = ln[i] + 1)
               PROVE  J[J[i].parent].runs = 0
    BY DEF Waits
  <2>1. f \in 1..n /\ f \in DOMAIN st /\ i = st[f].inst /\ i \in DOMAIN I /\ ln[i] \in Nat
        /\ J[i].parent = I[i].parent /\ I[i].parent \in DOMAIN I
    BY <1>1, <1>2, <1>3
  <2>2. st[f].pc \in Nat
    <3>1. st[f] \in FrameRecord
      BY <1>1, <2>1
    <3> QED
      BY <3>1 DEF FrameRecord
  <2>3. st[f].pc <= ln[i] \/ (f = Len(st) /\ st[f].pc = ln[i] + 1)
    BY <1>3, <2>1, <2>2
  <2>4. I[I[i].parent].runs = 0
    BY <2>1, <2>3 DEF Ordered, Waits
  <2> QED
    BY <1>2, <2>1, <2>4
<1> QED
  BY <1>4, <1>5, <1>6, <1>7, <1>8, <1>9 DEF Ordered

(* One activation more, of instance i. *)
Pushed(st, new, i) ==
  /\ new \in Seq(FrameRecord) /\ Len(new) = Len(st) + 1
  /\ \A f \in DOMAIN st : new[f] = st[f]
  /\ new[Len(st) + 1].inst = i /\ new[Len(st) + 1].pc = 1

(* One instance more, and the functions of the instances with it. *)
Longest(I, J, nm, mm, ln, ll) ==
  /\ J \in Seq(InstanceRecord) /\ Len(J) = Len(I) + 1
  /\ DOMAIN mm = DOMAIN J /\ ll \in [DOMAIN J -> Nat]
  /\ \A k \in DOMAIN I : mm[k] = nm[k] /\ ll[k] = ln[k]

(* The new instance x is the root of a chain, and a module if its name has *)
(* none; the activation below it is in its body.                           *)
Included(I, J, st, new, nm, mm, ln, ll, x) ==
  /\ Longest(I, J, nm, mm, ln, ll) /\ Pushed(st, new, Len(I) + 1)
  /\ \A k \in DOMAIN I : J[k] = I[k]
  /\ J[Len(I) + 1] = x /\ x.parent = 0 /\ x.chainRoot = Len(I) + 1 /\ x.runs = 1
  /\ x.cacheable => \A k \in DOMAIN I : I[k].cacheable => nm[k] # mm[Len(I) + 1]
  /\ Len(st) # 0 /\ st[Len(st)].pc <= ln[st[Len(st)].inst]

LEMMA OrderedIncluded ==
  ASSUME NEW I, NEW J, NEW st, NEW new, NEW nm, NEW mm, NEW ln, NEW ll, NEW x,
         Ordered(I, st, nm, ln), Included(I, J, st, new, nm, mm, ln, ll, x)
  PROVE  Ordered(J, new, mm, ll)
<1> DEFINE m == Len(st)
           n == Len(I) + 1
<1>1. /\ I \in Seq(InstanceRecord) /\ st \in Seq(FrameRecord) /\ DOMAIN nm = DOMAIN I
      /\ ln \in [DOMAIN I -> Nat] /\ \A f \in DOMAIN st : st[f].inst \in DOMAIN I
      /\ \A k \in DOMAIN I : I[k].parent \in 0..Len(I)
  BY DEF Ordered, Shape
<1>2. Len(I) \in Nat /\ n \in Nat /\ n # 0 /\ n - 1 = Len(I) /\ DOMAIN I = 1..n - 1
      /\ \A k \in DOMAIN I : k \in Nat /\ k < n
  BY <1>1
<1>3. /\ J \in Seq(InstanceRecord) /\ Len(J) = n /\ DOMAIN J = DOMAIN I \cup {n}
      /\ DOMAIN mm = DOMAIN J /\ ll \in [DOMAIN J -> Nat]
      /\ \A k \in DOMAIN I : J[k] = I[k] /\ mm[k] = nm[k] /\ ll[k] = ln[k]
      /\ J[n] = x /\ x.parent = 0 /\ x.chainRoot = n /\ x.runs = 1
      /\ x.cacheable => \A k \in DOMAIN I : I[k].cacheable => nm[k] # mm[n]
  BY <1>2 DEF Longest, Included
<1>4. /\ m \in Nat /\ m # 0 /\ new \in Seq(FrameRecord) /\ Len(new) = m + 1
      /\ DOMAIN st = 1..m /\ DOMAIN new = DOMAIN st \cup {m + 1}
      /\ \A f \in DOMAIN st : new[f] = st[f] /\ f # m + 1
      /\ new[m + 1].inst = n /\ new[m + 1].pc = 1
      /\ st[m].pc <= ln[st[m].inst]
  BY <1>1 DEF Pushed, Included
<1> HIDE DEF m, n
<1>5. Shape(J, new, mm, ll)
  <2>1. \A f \in DOMAIN new : new[f].inst \in DOMAIN J
    BY <1>1, <1>3, <1>4
  <2>2. \A k \in DOMAIN J : J[k].parent \in 0..Len(J)
    BY <1>1, <1>2, <1>3
  <2> QED
    BY <1>3, <1>4, <2>1, <2>2 DEF Shape
<1>6. Modular(J, mm)
  <2>1. Modular(I, nm)
    BY DEF Ordered
  <2> QED
    BY <1>3, <2>1 DEF Modular
<1>7. Actives(J, new)
  <2>1. Actives(I, st)
    BY DEF Ordered
  <2>2. \A k \in DOMAIN J : J[k].runs \in {0, 1} /\ (J[k].parent # 0 => J[k].runs = 1)
    BY <1>3, <2>1 DEF Actives
  <2>3. \A f \in DOMAIN new : J[new[f].inst].runs = 1
    BY <1>1, <1>3, <1>4, <2>1 DEF Actives
  <2>4. \A f, g \in DOMAIN new : new[f].inst = new[g].inst => f = g
    BY <1>1, <1>2, <1>4, <2>1 DEF Actives
  <2> QED
    BY <2>2, <2>3, <2>4 DEF Actives
<1>8. Parents(J)
  <2>1. Parents(I) /\ \A k \in DOMAIN I : I[k].parent # 0 => I[k].parent \in DOMAIN I
    BY <1>1, <1>2 DEF Ordered
  <2> QED
    BY <1>3, <2>1 DEF Parents
<1>9. Roots(J)
  <2>1. Roots(I)
    BY DEF Ordered
  <2> SUFFICES ASSUME NEW k \in DOMAIN J
               PROVE  /\ J[k].chainRoot \in 1..k
                      /\ J[k].chainRoot = k \/ \E j \in DOMAIN J : j < k /\ J[j].parent = k
    BY DEF Roots
  <2>2. CASE k = n
    BY <1>2, <1>3, <2>2
  <2>3. CASE k \in DOMAIN I
    <3>1. /\ I[k].chainRoot \in 1..k
          /\ I[k].chainRoot = k \/ \E j \in DOMAIN I : j < k /\ I[j].parent = k
      BY <2>1, <2>3 DEF Roots
    <3> QED
      BY <1>3, <2>3, <3>1
  <2> QED
    BY <1>3, <2>2, <2>3
<1>10. Distinct(J, mm)
  <2>1. Distinct(I, nm) /\ \A k \in DOMAIN I : I[k].chainRoot # n
    BY <1>2 DEF Ordered, Roots
  <2> QED
    BY <1>3, <2>1 DEF Distinct
<1>11. Waits(J, new, ll)
  <2> SUFFICES ASSUME NEW f \in DOMAIN new, NEW i, i = new[f].inst, J[i].parent # 0,
                      new[f].pc <= ll[i] \/ (f = Len(new) /\ new[f].pc = ll[i] + 1)
               PROVE  J[J[i].parent].runs = 0
    BY DEF Waits
  <2>1. f \in DOMAIN st
    BY <1>3, <1>4
  <2>2. i = st[f].inst /\ i \in DOMAIN I /\ ln[i] = ll[i] /\ I[i].parent = J[i].parent
        /\ st[f].pc <= ln[i] /\ I[i].parent \in DOMAIN I
    BY <1>1, <1>2, <1>3, <1>4, <2>1
  <2>3. I[I[i].parent].runs = 0
    BY <2>1, <2>2 DEF Ordered, Waits
  <2> QED
    BY <1>3, <2>2, <2>3
<1> QED
  BY <1>5, <1>6, <1>7, <1>8, <1>9, <1>10, <1>11 DEF Ordered

(* The new instance x is the parent of i, which is in its body and had     *)
(* none; its name is new in the chain.                                     *)
Inherited(I, J, st, new, nm, mm, ln, ll, x, i) ==
  /\ Longest(I, J, nm, mm, ln, ll) /\ Resumed(st, new, Len(st)) /\ i = st[Len(st)].inst
  /\ i \in DOMAIN I /\ I[i].parent = 0
  /\ \A k \in DOMAIN I :
       /\ J[k].cacheable = I[k].cacheable /\ J[k].chainRoot = I[k].chainRoot
       /\ J[k].runs = I[k].runs
       /\ J[k].parent = IF k = i THEN Len(I) + 1 ELSE I[k].parent
  /\ J[Len(I) + 1] = x /\ x.parent = 0 /\ x.chainRoot = I[i].chainRoot /\ x.runs = 0
  /\ ~x.cacheable
  /\ \A k \in DOMAIN I : I[k].chainRoot = I[i].chainRoot => nm[k] # mm[Len(I) + 1]

LEMMA OrderedInherited ==
  ASSUME NEW I, NEW J, NEW st, NEW new, NEW nm, NEW mm, NEW ln, NEW ll, NEW x, NEW i,
         Ordered(I, st, nm, ln), Inherited(I, J, st, new, nm, mm, ln, ll, x, i)
  PROVE  Ordered(J, new, mm, ll)
<1> DEFINE m == Len(st)
           n == Len(I) + 1
<1>1. /\ I \in Seq(InstanceRecord) /\ st \in Seq(FrameRecord) /\ DOMAIN nm = DOMAIN I
      /\ ln \in [DOMAIN I -> Nat] /\ \A f \in DOMAIN st : st[f].inst \in DOMAIN I
      /\ \A k \in DOMAIN I : I[k].parent \in 0..Len(I)
  BY DEF Ordered, Shape
<1>2. Len(I) \in Nat /\ n \in Nat /\ n # 0 /\ n - 1 = Len(I) /\ DOMAIN I = 1..n - 1
      /\ \A k \in DOMAIN I : k \in Nat /\ k < n
  BY <1>1
<1>3. /\ J \in Seq(InstanceRecord) /\ Len(J) = n /\ DOMAIN J = DOMAIN I \cup {n}
      /\ DOMAIN mm = DOMAIN J /\ ll \in [DOMAIN J -> Nat] /\ i \in DOMAIN I /\ I[i].parent = 0
      /\ \A k \in DOMAIN I : /\ mm[k] = nm[k] /\ ll[k] = ln[k] /\ J[k].cacheable = I[k].cacheable
                             /\ J[k].chainRoot = I[k].chainRoot /\ J[k].runs = I[k].runs
                             /\ k # i => J[k].parent = I[k].parent
      /\ J[i].parent = n
      /\ J[n].parent = 0 /\ J[n].chainRoot = I[i].chainRoot /\ J[n].runs = 0
      /\ ~J[n].cacheable
      /\ \A k \in DOMAIN I : I[k].chainRoot = I[i].chainRoot => nm[k] # mm[n]
  BY <1>2 DEF Longest, Inherited
<1>4. /\ m \in Nat /\ m # 0 /\ new \in Seq(FrameRecord) /\ Len(new) = m
      /\ DOMAIN st = 1..m /\ DOMAIN new = DOMAIN st
      /\ \A f \in DOMAIN st : new[f].inst = st[f].inst /\ (f # m => new[f].pc = st[f].pc)
      /\ new[m].pc = st[m].pc + 1 \/ new[m].pc = st[m].pc
      /\ st[m].inst = i
  BY <1>1 DEF Inherited, Resumed
<1> HIDE DEF m, n
<1>5. Shape(J, new, mm, ll)
  <2>1. \A f \in DOMAIN new : new[f].inst \in DOMAIN J
    BY <1>1, <1>3, <1>4
  <2>2. \A k \in DOMAIN J : J[k].parent \in 0..Len(J)
    <3> TAKE k \in DOMAIN J
    <3>1. CASE k = i
      BY <1>2, <1>3, <3>1
    <3>2. CASE k = n
      BY <1>2, <1>3, <3>2
    <3>3. CASE k \in DOMAIN I /\ k # i
      <4>1. J[k].parent = I[k].parent /\ I[k].parent \in 0..Len(I)
        BY <1>1, <1>3, <3>3
      <4> QED
        BY <1>2, <1>3, <4>1
    <3> QED
      BY <1>3, <3>1, <3>2, <3>3
  <2> QED
    BY <1>3, <1>4, <2>1, <2>2 DEF Shape
<1>6. Modular(J, mm)
  <2>1. Modular(I, nm)
    BY DEF Ordered
  <2> QED
    BY <1>3, <2>1 DEF Modular
<1>7. Actives(J, new)
  <2>1. Actives(I, st)
    BY DEF Ordered
  <2>2. \A k \in DOMAIN J : J[k].runs \in {0, 1} /\ (J[k].parent # 0 => J[k].runs = 1)
    <3> TAKE k \in DOMAIN J
    <3>1. CASE k = i
      <4>1. I[i].runs = 1
        BY <1>4, <2>1 DEF Actives
      <4> QED
        BY <1>3, <3>1, <4>1
    <3>2. CASE k = n
      BY <1>3, <3>2
    <3>3. CASE k \in DOMAIN I /\ k # i
      BY <1>3, <2>1, <3>3 DEF Actives
    <3> QED
      BY <1>3, <3>1, <3>2, <3>3
  <2>3. \A f \in DOMAIN new : J[new[f].inst].runs = 1
    <3> TAKE f \in DOMAIN new
    <3>1. f \in DOMAIN st /\ new[f].inst = st[f].inst /\ st[f].inst \in DOMAIN I
      BY <1>1, <1>4
    <3>2. I[st[f].inst].runs = 1
      BY <2>1, <3>1 DEF Actives
    <3> QED
      BY <1>3, <3>1, <3>2
  <2>4. \A f, g \in DOMAIN new : new[f].inst = new[g].inst => f = g
    BY <1>4, <2>1 DEF Actives
  <2> QED
    BY <2>2, <2>3, <2>4 DEF Actives
<1>8. \A k \in DOMAIN I : I[k].parent \in Nat /\ I[k].parent < n
  BY <1>1, <1>2
<1>9. Parents(J)
  <2>1. Parents(I) /\ \A k \in DOMAIN I : I[k].parent # 0 => I[k].parent \in DOMAIN I
    BY <1>1, <1>2 DEF Ordered
  <2>2. ASSUME NEW j \in DOMAIN J, J[j].parent # 0
        PROVE  j < J[j].parent /\ J[J[j].parent].chainRoot = J[j].chainRoot
    <3>1. CASE j = i
      BY <1>2, <1>3, <3>1
    <3>2. CASE j # i
      <4>1. j \in DOMAIN I /\ J[j].parent = I[j].parent
        BY <1>3, <2>2, <3>2
      <4> QED
        BY <1>3, <2>1, <2>2, <4>1 DEF Parents
    <3> QED
      BY <3>1, <3>2
  <2>3. ASSUME NEW j \in DOMAIN J, NEW k \in DOMAIN J, J[j].parent = J[k].parent, J[j].parent # 0
        PROVE  j = k
    <3>1. j \in DOMAIN I /\ k \in DOMAIN I
      BY <1>3, <2>3
    <3>2. CASE j = i \/ k = i
      BY <1>2, <1>3, <1>8, <2>3, <3>1, <3>2
    <3>3. CASE j # i /\ k # i
      BY <1>3, <2>1, <2>3, <3>1, <3>3 DEF Parents
    <3> QED
      BY <3>2, <3>3
  <2> QED
    BY <2>2, <2>3 DEF Parents
<1>10. Roots(J)
  <2>1. Roots(I)
    BY DEF Ordered
  <2> SUFFICES ASSUME NEW k \in DOMAIN J
               PROVE  /\ J[k].chainRoot \in 1..k
                      /\ J[k].chainRoot = k \/ \E j \in DOMAIN J : j < k /\ J[j].parent = k
    BY DEF Roots
  <2>2. CASE k = n
    <3>1. I[i].chainRoot \in 1..i
      BY <1>3, <2>1 DEF Roots
    <3> QED
      BY <1>2, <1>3, <2>2, <3>1
  <2>3. CASE k \in DOMAIN I
    <3>1. /\ I[k].chainRoot \in 1..k
          /\ I[k].chainRoot = k \/ \E j \in DOMAIN I : j < k /\ I[j].parent = k
      BY <2>1, <2>3 DEF Roots
    <3>2. ASSUME NEW j \in DOMAIN I, j < k, I[j].parent = k
          PROVE  \E l \in DOMAIN J : l < k /\ J[l].parent = k
      <4>1. j # i /\ j \in DOMAIN J
        BY <1>2, <1>3, <2>3, <3>2
      <4> QED
        BY <1>3, <3>2, <4>1
    <3> QED
      BY <1>3, <2>3, <3>1, <3>2
  <2> QED
    BY <1>3, <2>2, <2>3
<1>11. Distinct(J, mm)
  <2>1. Distinct(I, nm)
    BY DEF Ordered
  <2> QED
    BY <1>3, <2>1 DEF Distinct
<1>12. Waits(J, new, ll)
  <2> SUFFICES ASSUME NEW f \in DOMAIN new, NEW p, p = new[f].inst, J[p].parent # 0,
                      new[f].pc <= ll[p] \/ (f = Len(new) /\ new[f].pc = ll[p] + 1)
               PROVE  J[J[p].parent].runs = 0
    BY DEF Waits
  <2>1. f \in DOMAIN st /\ p = st[f].inst /\ p \in DOMAIN I /\ ll[p] = ln[p]
    BY <1>1, <1>3, <1>4
  <2>2. CASE p = i
    BY <1>3, <2>2
  <2>3. CASE p # i
    <3>1. f # m
      BY <1>4, <2>1, <2>3
    <3>2. st[f].pc <= ln[p] /\ J[p].parent = I[p].parent
      BY <1>3, <1>4, <2>1, <2>3, <3>1
    <3>3. I[I[p].parent].runs = 0 /\ I[p].parent \in DOMAIN I
      BY <1>1, <1>2, <2>1, <3>2 DEF Ordered, Waits
    <3> QED
      BY <1>3, <3>2, <3>3
  <2> QED
    BY <2>2, <2>3
<1> QED
  BY <1>5, <1>6, <1>7, <1>9, <1>10, <1>11, <1>12 DEF Ordered

(* The parent p of the last activation's instance has run once more. *)
Counted(I, J, p) ==
  /\ J \in Seq(InstanceRecord) /\ Len(J) = Len(I) /\ p \in DOMAIN I
  /\ \A k \in DOMAIN I :
       /\ J[k].cacheable = I[k].cacheable /\ J[k].chainRoot = I[k].chainRoot
       /\ J[k].parent = I[k].parent /\ (k # p => J[k].runs = I[k].runs)
  /\ J[p].runs = I[p].runs + 1

LEMMA OrderedCounted ==
  ASSUME NEW I, NEW J, NEW st, NEW new, NEW nm, NEW ln, NEW m, NEW p, NEW i,
         Ordered(I, st, nm, ln), m = Len(st), m # 0, i = st[m].inst, p = I[i].parent,
         st[m].pc = ln[i] + 1, Counted(I, J, p), Pushed(st, new, p)
  PROVE  Ordered(J, new, nm, ln)
<1>1. /\ I \in Seq(InstanceRecord) /\ st \in Seq(FrameRecord) /\ DOMAIN nm = DOMAIN I
      /\ ln \in [DOMAIN I -> Nat] /\ \A f \in DOMAIN st : st[f].inst \in DOMAIN I
      /\ \A k \in DOMAIN I : I[k].parent \in 0..Len(I)
  BY DEF Ordered, Shape
<1>2. /\ J \in Seq(InstanceRecord) /\ Len(J) = Len(I) /\ DOMAIN J = DOMAIN I /\ p \in DOMAIN I
      /\ \A k \in DOMAIN I :
           /\ J[k].cacheable = I[k].cacheable /\ J[k].chainRoot = I[k].chainRoot
           /\ J[k].parent = I[k].parent /\ (k # p => J[k].runs = I[k].runs)
      /\ J[p].runs = I[p].runs + 1 /\ p # 0
  BY <1>1 DEF Counted
<1>3. /\ m \in Nat /\ new \in Seq(FrameRecord) /\ Len(new) = m + 1 /\ m \in DOMAIN st
      /\ DOMAIN st = 1..m /\ DOMAIN new = DOMAIN st \cup {m + 1}
      /\ \A f \in DOMAIN st : new[f] = st[f] /\ f # m + 1
      /\ new[m + 1].inst = p /\ i \in DOMAIN I /\ ln[i] \in Nat
  BY <1>1 DEF Pushed
<1>4. I[p].runs = 0 /\ J[p].runs = 1
  <2>1. Waits(I, st, ln)
    BY DEF Ordered
  <2>2. I[p].runs = 0
    BY <1>2, <1>3, <2>1 DEF Waits
  <2> QED
    BY <1>2, <2>2
<1>5. \A f \in DOMAIN st : st[f].inst # p
  BY <1>4 DEF Ordered, Actives
<1>6. Shape(J, new, nm, ln)
  <2>1. \A f \in DOMAIN new : new[f].inst \in DOMAIN J
    BY <1>1, <1>2, <1>3
  <2> QED
    BY <1>1, <1>2, <1>3, <2>1 DEF Shape
<1>7. Modular(J, nm) /\ Distinct(J, nm)
  BY <1>2 DEF Ordered, Modular, Distinct
<1>8. Actives(J, new)
  <2>1. Actives(I, st)
    BY DEF Ordered
  <2>2. \A k \in DOMAIN J : J[k].runs \in {0, 1} /\ (J[k].parent # 0 => J[k].runs = 1)
    BY <1>2, <1>4, <2>1 DEF Actives
  <2>3. \A f \in DOMAIN new : J[new[f].inst].runs = 1
    <3> TAKE f \in DOMAIN new
    <3>1. CASE f = m + 1
      BY <1>3, <1>4, <3>1
    <3>2. CASE f \in DOMAIN st
      <4>1. new[f].inst = st[f].inst /\ st[f].inst \in DOMAIN I /\ st[f].inst # p
        BY <1>1, <1>3, <1>5, <3>2
      <4>2. I[st[f].inst].runs = 1
        BY <2>1, <3>2 DEF Actives
      <4> QED
        BY <1>2, <4>1, <4>2
    <3> QED
      BY <1>3, <3>1, <3>2
  <2>4. \A f, g \in DOMAIN new : new[f].inst = new[g].inst => f = g
    BY <1>3, <1>5, <2>1 DEF Actives
  <2> QED
    BY <2>2, <2>3, <2>4 DEF Actives
<1>9. \A k \in DOMAIN I : I[k].parent # 0 => I[k].parent \in DOMAIN I
  BY <1>1
<1>10. Parents(J)
  <2>1. Parents(I)
    BY DEF Ordered
  <2> QED
    BY <1>2, <1>9, <2>1 DEF Parents
<1>11. Roots(J)
  <2>1. Roots(I)
    BY DEF Ordered
  <2> QED
    BY <1>2, <2>1 DEF Roots
<1>12. Waits(J, new, ln)
  <2> SUFFICES ASSUME NEW f \in DOMAIN new, NEW q, q = new[f].inst, J[q].parent # 0,
                      new[f].pc <= ln[q] \/ (f = Len(new) /\ new[f].pc = ln[q] + 1)
               PROVE  J[J[q].parent].runs = 0
    BY DEF Waits
  <2>1. q \in DOMAIN I /\ J[q].parent = I[q].parent /\ I[q].parent \in DOMAIN I
    BY <1>1, <1>2, <1>3, <1>9
  <2>2. q # p
    BY <1>2, <1>4, <2>1 DEF Ordered, Actives
  <2>3. f \in DOMAIN st
    BY <1>3, <2>2
  <2>4. J[J[q].parent].runs = 0
    <3>1. q = st[f].inst /\ st[f].pc <= ln[q]
      BY <1>3, <2>3
    <3>2. I[I[q].parent].runs = 0
      BY <2>1, <2>3, <3>1 DEF Ordered, Waits
    <3>3. q # i
      <4>1. i = q => f = m
        BY <1>3, <2>3, <3>1 DEF Ordered, Actives
      <4> QED
        BY <1>3, <3>1, <4>1
    <3>4. I[q].parent # p
      BY <1>2, <1>3, <2>1, <3>3 DEF Ordered, Parents
    <3> QED
      BY <1>2, <2>1, <3>2, <3>4
  <2> QED
    BY <2>4
<1> QED
  BY <1>6, <1>7, <1>8, <1>10, <1>11, <1>12 DEF Ordered

---------------------------------------------------------------------------
(* The same of the state.                                                  *)

NamesNow == [k \in DOMAIN instances |-> heap[instances[k].templ].name]
LengthsNow == [k \in DOMAIN instances |-> Len(heap[instances[k].templ].source.body)]

(* While a reference is being loaded: what the checks before the load have *)
(* established still holds.                                                *)
Asking ==
  call.at # "idle" /\ stack # << >> =>
    /\ Top.pc <= Len(Body)
    /\ Ref.op = "import" /\ ~Ref.withContext => Modules(call.name) = {}
    /\ Ref.op = "extends" =>
         /\ Current.parent = 0
         /\ \A k \in DOMAIN instances :
              instances[k].chainRoot = Current.chainRoot => NamesNow[k] # call.name

Order == Ordered(instances, stack, NamesNow, LengthsNow) /\ Asking

AllAlive ==
  \A k \in DOMAIN instances :
    /\ instances[k].templ \in DOMAIN heap
    /\ heap[instances[k].templ].source.body \in Seq(References)
    /\ Len(heap[instances[k].templ].source.body) \in Nat

LEMMA InstancesAlive == IInv => AllAlive
<1> SUFFICES ASSUME IInv, NEW k \in DOMAIN instances
             PROVE  /\ instances[k].templ \in DOMAIN heap
                    /\ heap[instances[k].templ].source.body \in Seq(References)
                    /\ Len(heap[instances[k].templ].source.body) \in Nat
  BY DEF AllAlive
<1>1. Types /\ Rendering /\ Exact
  BY DEF IInv
<1>2. instances \in Seq(InstanceRecord) /\ handles \in [Templates -> Nat] /\ Heap(heap)
      /\ k \in 1..Len(instances) /\ Len(instances) \in Nat
  BY <1>1 DEF Types
<1>3. instances # << >>
  BY <1>2
<1>4. instances[k].templ \in Templates
  <2>1. instances[k] \in InstanceRecord
    BY <1>2
  <2> QED
    BY <2>1 DEF InstanceRecord
<1>5. instances[k].templ \in DOMAIN heap
  <2>1. CASE k = 1
    <3>1. handles[instances[k].templ] > 0
      BY <1>1, <1>3, <2>1 DEF Rendering
    <3> QED
      BY <1>1, <1>4, <3>1, Alive
  <2>2. CASE k # 1
    <3>1. k - 1 \in 1..Len(instances) - 1 /\ (k - 1) + 1 = k
      BY <1>2, <2>2
    <3>2. k - 1 \in DOMAIN Loaded /\ Loaded[k - 1] = instances[k].templ
      BY <3>1 DEF Loaded
    <3> QED
      BY <1>1, <3>2, Alive
  <2> QED
    BY <2>1, <2>2
<1>6. heap[instances[k].templ].source \in Sources
  BY <1>2, <1>5 DEF Heap, Record
<1>7. heap[instances[k].templ].source.body \in Seq(References)
  BY <1>6, LoadingAssumption
<1> QED
  BY <1>5, <1>7

LEMMA InstancesAliveNext == IInv' => AllAlive'
BY InstancesAlive, PTL

(* Without a render there is nothing to order. *)
LEMMA EmptyOrder ==
  ASSUME IInv', stack' = << >>
  PROVE  Order'
<1>1. instances' = << >> /\ stack' = << >>
  BY DEF IInv, Rendering
<1>2. instances' \in Seq(InstanceRecord) /\ stack' \in Seq(FrameRecord)
      /\ DOMAIN instances' = {} /\ DOMAIN stack' = {}
  BY <1>1
<1>3. DOMAIN NamesNow' = {} /\ LengthsNow' \in [{} -> Nat]
  BY <1>2 DEF NamesNow, LengthsNow
<1>4. Shape(instances', stack', NamesNow', LengthsNow')
  BY <1>2, <1>3 DEF Shape
<1>5. Ordered(instances', stack', NamesNow', LengthsNow')
  BY <1>2, <1>4 DEF Ordered, Modular, Actives, Parents, Roots, Distinct, Waits
<1>6. Asking'
  BY <1>1 DEF Asking
<1> QED
  BY <1>5, <1>6 DEF Order

(* Where the render stands. *)
LEMMA Standing ==
  ASSUME IInv, stack # << >>
  PROVE  /\ Len(stack) \in Nat \ {0} /\ stack \in Seq(FrameRecord)
         /\ Top = stack[Len(stack)] /\ Top.inst \in DOMAIN instances
         /\ Top.pc \in Nat \ {0}
         /\ Current = instances[Top.inst] /\ LengthsNow[Top.inst] = Len(Body)
         /\ Len(Body) \in Nat
<1>1. Len(stack) \in Nat \ {0} /\ Top \in FrameRecord /\ Top.inst \in DOMAIN instances
      /\ Body \in Seq(References)
  BY CurrentAlive
<1>2. LengthsNow[Top.inst] = Len(Body) /\ Len(Body) \in Nat
  BY <1>1 DEF LengthsNow, Body, Current
<1>3. Top.pc \in Nat \ {0}
  BY <1>1 DEF FrameRecord
<1> QED
  BY <1>1, <1>2, <1>3 DEF Top, Current, IInv, Types

(* Live templates do not change what they are. *)
Lasting == \A t \in DOMAIN heap : t \in DOMAIN heap' =>
             heap'[t].name = heap[t].name /\ heap'[t].source = heap[t].source

LEMMA NamesLast ==
  ASSUME IInv, IInv', Lasting, instances' = instances
  PROVE  NamesNow' = NamesNow /\ LengthsNow' = LengthsNow
<1>1. \A k \in DOMAIN instances :
        instances[k].templ \in DOMAIN heap /\ instances[k].templ \in DOMAIN heap'
  BY InstancesAlive, InstancesAliveNext DEF AllAlive
<1>2. \A k \in DOMAIN instances :
        /\ heap'[instances[k].templ].name = heap[instances[k].templ].name
        /\ heap'[instances[k].templ].source = heap[instances[k].templ].source
  BY <1>1 DEF Lasting
<1> QED
  BY <1>2 DEF NamesNow, LengthsNow

(* A load in progress. *)
LEMMA SameOrder ==
  ASSUME IInv, IInv', Order, Lasting, instances' = instances, stack' = stack,
         call'.at # "idle" /\ stack # << >> => call.at # "idle" /\ call'.name = call.name
  PROVE  Order'
<1>1. NamesNow' = NamesNow /\ LengthsNow' = LengthsNow
  BY NamesLast
<1>2. Ordered(instances', stack', NamesNow', LengthsNow')
  BY <1>1 DEF Order
<1>3. Asking'
  <2> SUFFICES ASSUME call'.at # "idle", stack' # << >>
               PROVE  /\ Top'.pc <= Len(Body')
                      /\ Ref'.op = "import" /\ ~Ref'.withContext => Modules(call.name)' = {}
                      /\ Ref'.op = "extends" =>
                           /\ Current'.parent = 0
                           /\ \A k \in DOMAIN instances' :
                                instances'[k].chainRoot = Current'.chainRoot => NamesNow'[k] # call'.name
    BY DEF Asking
  <2>1. Top' = Top /\ Current' = Current /\ Top.inst \in DOMAIN instances
    BY Standing DEF Top, Current
  <2>2. Body' = Body
    <3>1. Current.templ \in DOMAIN heap /\ Current.templ \in DOMAIN heap'
      BY <2>1, InstancesAlive, InstancesAliveNext DEF AllAlive, Current
    <3> QED
      BY <2>1, <3>1 DEF Body, Lasting
  <2>3. Ref' = Ref
    BY <2>1, <2>2 DEF Ref
  <2>4. call.at # "idle" /\ stack # << >> /\ call'.name = call.name
    OBVIOUS
  <2>5. Modules(call.name)' = Modules(call.name)
    <3>1. \A k \in DOMAIN instances : /\ heap'[instances[k].templ].name = NamesNow'[k]
                                      /\ heap[instances[k].templ].name = NamesNow[k]
      BY DEF NamesNow
    <3> QED
      BY <1>1, <2>4, <3>1 DEF Modules
  <2>6. /\ Top.pc <= Len(Body)
        /\ Ref.op = "import" /\ ~Ref.withContext => Modules(call.name) = {}
        /\ Ref.op = "extends" =>
             /\ Current.parent = 0
             /\ \A k \in DOMAIN instances :
                  instances[k].chainRoot = Current.chainRoot => NamesNow[k] # call.name
    BY <2>4 DEF Order, Asking
  <2> QED
    BY <1>1, <2>1, <2>2, <2>3, <2>4, <2>5, <2>6
<1> QED
  BY <1>2, <1>3 DEF Order

LEMMA MissLasts ==
  ASSUME IInv, Miss
  PROVE  Lasting
<1>1. Types /\ Calls /\ Exact
  BY DEF IInv
<1> DEFINE f == Fresh
           n == call.name
           g == [Compiled(call.name, call.source) EXCEPT ![f].references = 2]
           u == CHOOSE v \in Evicted(n) : TRUE
<1>2. call.at = "admit" /\ Spare /\ heap' = HeapAdd(call.name, call.source, f)
  BY DEF Miss
<1>3. n \in Names /\ call.source \in Sources
  BY <1>1, <1>2, AdmitFacts
<1>4. Extended(heap, g, f, n, call.source, 2)
  BY <1>1, <1>2, <1>3, CompiledFacts
<1>5. heap' = IF Evicted(n) = {} THEN g ELSE Drop(g, u)
  BY <1>2 DEF HeapAdd
<1>6. Evicted(n) \subseteq DOMAIN heap
  <2>1. \A k \in DOMAIN cache : cache[k] \in DOMAIN heap
    BY <1>1, Alive
  <2>2. Len(cache) = MaxCached => 1 \in DOMAIN cache
    BY <1>1, BoundsTypes DEF Types
  <2> QED
    BY <2>1, <2>2 DEF Evicted, SameName
<1>7. Evicted(n) # {} => u \in DOMAIN heap
  BY <1>6
<1> HIDE DEF f, g, n, u
<1>8. Heap(g) /\ DOMAIN heap \subseteq DOMAIN g /\ \A v \in DOMAIN heap : g[v] = heap[v]
  BY <1>4 DEF Extended
<1>9. Thinned(g, heap')
  <2>1. CASE Evicted(n) = {}
    BY <1>5, <1>8, <2>1 DEF Thinned
  <2>2. CASE Evicted(n) # {}
    <3>1. u \in DOMAIN g
      BY <1>7, <1>8, <2>2
    <3> QED
      BY <1>5, <1>8, <2>2, <3>1, DropFacts
  <2> QED
    BY <2>1, <2>2
<1> QED
  BY <1>8, <1>9 DEF Lasting, Thinned

LEMMA HitLasts ==
  ASSUME IInv, Hit
  PROVE  Lasting
<1>1. Types /\ Exact
  BY DEF IInv
<1>2. PICK t \in Cached(call.name, call.source) : heap' = Acquired(heap, t)
  BY DEF Hit, Acquired
<1>3. t \in DOMAIN heap /\ Heap(heap)
  BY <1>1, <1>2, Alive DEF Cached, Types
<1>4. Thinned(heap, heap')
  BY <1>2, <1>3, AcquireFacts
<1> QED
  BY <1>4 DEF Lasting, Thinned

LEMMA LoadOrder ==
  ASSUME IInv, IInv', Order, Load
  PROVE  Order'
<1>1. stack' = stack /\ instances' = instances
  BY DEF Load, LoaderFails, LoaderGrants, Refuse, Hit, Miss, ReleaseLease
<1>2. Lasting
  <2>1. CASE heap' = heap
    BY <2>1 DEF Lasting
  <2> QED
    BY <2>1, HitLasts, MissLasts DEF Load, LoaderFails, LoaderGrants, Refuse, ReleaseLease
<1>3. call.at # "idle"
  BY DEF Load, LoaderFails, LoaderGrants, Refuse, Hit, Miss, ReleaseLease
<1>4. stack # << >> => call'.name = call.name
  <2> SUFFICES ASSUME stack # << >> PROVE call'.name = call.name
    OBVIOUS
  <2>1. CASE LoaderFails
    <3>1. PICK b \in BOOLEAN : call' = Answer(Null, b)
      BY <2>1 DEF LoaderFails
    <3> QED
      BY <3>1 DEF Answer
  <2>2. CASE LoaderGrants
    BY <2>2 DEF LoaderGrants
  <2>3. CASE Refuse
    BY <2>3 DEF Refuse, WithLease
  <2>4. CASE Hit
    BY <2>4 DEF Hit, WithLease
  <2>5. CASE Miss
    BY <2>5 DEF Miss, WithLease
  <2>6. CASE ReleaseLease
    <3>1. PICK b \in BOOLEAN : call' = Answer(call.templ, b)
      BY Zenon, <2>6 DEF ReleaseLease
    <3> QED
      BY <3>1 DEF Answer
  <2> QED
    BY <2>1, <2>2, <2>3, <2>4, <2>5, <2>6 DEF Load
<1> QED
  BY <1>1, <1>2, <1>3, <1>4, SameOrder

LEMMA RenderOrder ==
  ASSUME IInv, IInv', NEW t \in Templates, Render(t)
  PROVE  Order'
<1> DEFINE x == [templ |-> t, cacheable |-> FALSE, state |-> "NONE",
                 parent |-> 0, chainRoot |-> 1, runs |-> 1]
           f == [inst |-> 1, pc |-> 1, candidate |-> 1]
<1>1. instances' = <<x>> /\ stack' = <<f>> /\ call' = NoCall
  BY DEF Render, Idle
<1>2. x.parent = 0 /\ x.chainRoot = 1 /\ x.runs = 1 /\ f.inst = 1
  OBVIOUS
<1>3. instances' \in Seq(InstanceRecord) /\ stack' \in Seq(FrameRecord)
  BY DEF IInv, Types
<1> HIDE DEF x, f
<1>4. /\ DOMAIN instances' = {1} /\ Len(instances') = 1 /\ instances'[1] = x
      /\ DOMAIN stack' = {1} /\ Len(stack') = 1 /\ stack'[1] = f
  BY <1>1
<1>5. DOMAIN NamesNow' = DOMAIN instances' /\ LengthsNow' \in [DOMAIN instances' -> Nat]
  BY InstancesAliveNext DEF NamesNow, LengthsNow, AllAlive
<1> DEFINE I == instances'
           st == stack'
           nm == NamesNow'
           ln == LengthsNow'
<1>6. Ordered(I, st, nm, ln)
  <2> HIDE DEF I, st, nm, ln
  <2>1. /\ DOMAIN I = {1} /\ Len(I) = 1 /\ I[1] = x /\ DOMAIN st = {1} /\ Len(st) = 1
        /\ st[1] = f /\ I \in Seq(InstanceRecord) /\ st \in Seq(FrameRecord)
        /\ DOMAIN nm = DOMAIN I /\ ln \in [DOMAIN I -> Nat]
    BY <1>3, <1>4, <1>5 DEF I, st, nm, ln
  <2>2. Shape(I, st, nm, ln)
    BY <1>2, <2>1 DEF Shape
  <2>3. Modular(I, nm) /\ Actives(I, st) /\ Parents(I) /\ Roots(I) /\ Distinct(I, nm)
        /\ Waits(I, st, ln)
    BY <1>2, <2>1 DEF Modular, Actives, Parents, Roots, Distinct, Waits
  <2> QED
    BY <2>2, <2>3 DEF Ordered
<1>7. Asking'
  BY <1>1 DEF Asking, NoCall
<1> QED
  BY <1>6, <1>7 DEF Order

(* A step of the host outside a render. *)
LEMMA HostOrder ==
  ASSUME IInv, IInv', Host
  PROVE  Order'
<1>1. CASE \E t \in Templates : Render(t)
  BY <1>1, RenderOrder
<1>2. CASE stack' = << >>
  BY <1>2, EmptyOrder
<1> QED
  BY <1>1, <1>2 DEF Host, EnvLoad, EnvCompile, Release, CacheClear, Idle

---------------------------------------------------------------------------
(* The walk up the parents of a chain meets all its instances. *)
LEMMA ChainComplete ==
  ASSUME IInv, Order, NEW k \in DOMAIN instances
  PROVE  k \in Chain(instances[k].chainRoot)
<1> DEFINE r == instances[k].chainRoot
<1>1. instances \in Seq(InstanceRecord) /\ DOMAIN instances \subseteq Nat
      /\ Parents(instances) /\ Roots(instances)
  <2>1. instances \in Seq(InstanceRecord)
    BY DEF IInv, Types
  <2> QED
    BY <2>1 DEF Order, Ordered
<1> SUFFICES ASSUME NEW S \in SUBSET DOMAIN instances, r \in S,
                    \A j \in S : instances[j].parent \in S \cup {0}
             PROVE  k \in S
  BY DEF Chain
<1> DEFINE T == {i \in DOMAIN instances : instances[i].chainRoot = r /\ i \notin S}
<1> SUFFICES ASSUME k \in T PROVE FALSE
  OBVIOUS
<1>2. PICK i \in T : \A j \in T : i <= j
  <2>1. T \subseteq Nat /\ T # {}
    BY <1>1
  <2> HIDE DEF T
  <2> QED
    BY <2>1, LeastElement
<1>3. i \in DOMAIN instances /\ instances[i].chainRoot = r /\ i \notin S /\ i # r
  BY <1>2
<1> HIDE DEF r
<1>4. PICK j \in DOMAIN instances : j < i /\ instances[j].parent = i
  BY <1>1, <1>3 DEF Roots
<1>5. i # 0 /\ i \in Nat /\ j \in Nat
  BY <1>1, <1>3, <1>4
<1>6. instances[j].chainRoot = r
  BY <1>1, <1>3, <1>4, <1>5 DEF Parents
<1>7. j \notin T
  BY <1>2, <1>4, <1>5
<1>8. j \in S
  BY <1>4, <1>6, <1>7
<1> QED
  BY <1>3, <1>4, <1>5, <1>8

LEMMA NotCircular ==
  ASSUME IInv, Order, NEW n, ~Circular(n)
  PROVE  \A k \in DOMAIN instances :
           instances[k].chainRoot = Current.chainRoot => NamesNow[k] # n
<1> SUFFICES ASSUME NEW k \in DOMAIN instances, instances[k].chainRoot = Current.chainRoot
             PROVE  NamesNow[k] # n
  OBVIOUS
<1>1. k \in Chain(Current.chainRoot)
  BY ChainComplete
<1>2. heap[instances[k].templ].name \in ChainNames(Current.chainRoot)
  BY <1>1 DEF ChainNames
<1> QED
  BY <1>2 DEF Circular, NamesNow

LEMMA EndOrder ==
  ASSUME IInv', NEW h, EndRender(h)
  PROVE  Order'
<1>1. stack' = << >>
  BY DEF EndRender
<1> QED
  BY <1>1, EmptyOrder

LEMMA SameNames ==
  ASSUME heap' = heap, Alike(instances, instances'), DOMAIN instances' = DOMAIN instances,
         \A k \in DOMAIN instances : instances'[k].templ = instances[k].templ
  PROVE  NamesNow' = NamesNow /\ LengthsNow' = LengthsNow
BY DEF NamesNow, LengthsNow

(* Between two references. *)
LEMMA ResumeOrder ==
  ASSUME IInv, IInv', Order, heap' = heap, call' = NoCall, Alike(instances, instances'),
         SameInstances(instances, instances'), NEW n, Resumed(stack, stack', n)
  PROVE  Order'
<1>1. instances \in Seq(InstanceRecord) /\ instances' \in Seq(InstanceRecord)
      /\ Len(instances') = Len(instances) /\ DOMAIN instances' = DOMAIN instances
      /\ \A k \in DOMAIN instances : instances'[k].templ = instances[k].templ
  BY DEF IInv, Types, SameInstances
<1>2. NamesNow' = NamesNow /\ LengthsNow' = LengthsNow
  BY <1>1, SameNames
<1>3. Ordered(instances', stack', NamesNow, LengthsNow)
  BY OrderedResumed DEF Order
<1>4. Asking'
  BY DEF Asking, NoCall
<1> QED
  BY <1>2, <1>3, <1>4 DEF Order

LEMMA AlikeSelf ==
  ASSUME IInv, instances' = instances
  PROVE  Alike(instances, instances') /\ SameInstances(instances, instances')
BY DEF IInv, Types, Alike, SameInstances

LEMMA FramePc ==
  ASSUME NEW f \in FrameRecord
  PROVE  /\ [f EXCEPT !.pc = @ + 1, !.candidate = 1].pc = f.pc + 1
         /\ [f EXCEPT !.candidate = @ + 1].pc = f.pc
<1>1. PICK i \in Nat, p \in Nat \ {0}, c \in Nat \ {0} :
        f = [inst |-> i, pc |-> p, candidate |-> c]
  BY DEF FrameRecord
<1>2. [f EXCEPT !.pc = @ + 1, !.candidate = 1] = [inst |-> i, pc |-> p + 1, candidate |-> 1]
  <2>1. PICK g : g = [f EXCEPT !.pc = @ + 1]
    OBVIOUS
  <2>2. g = [inst |-> i, pc |-> p + 1, candidate |-> c]
    BY <1>1, <2>1
  <2>3. [g EXCEPT !.candidate = 1] = [inst |-> i, pc |-> p + 1, candidate |-> 1]
    BY <2>2
  <2>4. [f EXCEPT !.pc = @ + 1, !.candidate = 1] = [g EXCEPT !.candidate = 1]
    BY <2>1
  <2> QED
    BY <2>3, <2>4
<1>3. [f EXCEPT !.candidate = @ + 1] = [inst |-> i, pc |-> p, candidate |-> c + 1]
  BY <1>1
<1> QED
  BY <1>1, <1>2, <1>3

LEMMA AdvanceGoesOn ==
  ASSUME NEW st \in Seq(FrameRecord), NEW n, n = Len(st), n # 0
  PROVE  /\ \A f \in 1..n : f # n => Advance(st)[f] = st[f]
         /\ Advance(st)[n].pc = st[n].pc + 1
         /\ \A f \in 1..n : f # n => [st EXCEPT ![Len(st)].candidate = @ + 1][f] = st[f]
         /\ [st EXCEPT ![Len(st)].candidate = @ + 1][n].pc = st[n].pc
<1> DEFINE x == st[n]
           a == [x EXCEPT !.pc = @ + 1, !.candidate = 1]
           b == [x EXCEPT !.candidate = @ + 1]
<1>1. n \in Nat /\ n \in 1..n /\ DOMAIN st = 1..n /\ x \in FrameRecord
  OBVIOUS
<1>2. a.pc = x.pc + 1 /\ b.pc = x.pc
  <2> HIDE DEF x
  <2> QED
    BY <1>1, FramePc
<1>3. Advance(st) = [k \in 1..n |-> IF k = n THEN a ELSE st[k]]
  BY <1>1 DEF Advance, FrameRecord
<1>4. [st EXCEPT ![Len(st)].candidate = @ + 1] = [k \in 1..n |-> IF k = n THEN b ELSE st[k]]
  BY <1>1
<1> HIDE DEF a, b
<1> DEFINE A == [k \in 1..n |-> IF k = n THEN a ELSE st[k]]
           B == [k \in 1..n |-> IF k = n THEN b ELSE st[k]]
<1>5. /\ \A f \in 1..n : f # n => A[f] = st[f]
      /\ A[n] = a
      /\ \A f \in 1..n : f # n => B[f] = st[f]
      /\ B[n] = b
  BY <1>1
<1> HIDE DEF A, B
<1>6. Advance(st) = A /\ [st EXCEPT ![Len(st)].candidate = @ + 1] = B
  BY Zenon, <1>3, <1>4 DEF A, B
<1> QED
  BY <1>2, <1>5, <1>6

LEMMA AdvanceResumes ==
  ASSUME NEW st \in Seq(FrameRecord), Len(st) # 0
  PROVE  /\ Resumed(st, Advance(st), Len(st))
         /\ Resumed(st, [st EXCEPT ![Len(st)].candidate = @ + 1], Len(st))
<1> DEFINE n == Len(st)
           A == Advance(st)
           B == [st EXCEPT ![Len(st)].candidate = @ + 1]
<1>1. n \in Nat /\ n \in 1..n /\ DOMAIN st = 1..n
  OBVIOUS
<1>2. SameFrames(st, A) /\ SameFrames(st, B)
  BY AdvanceFacts
<1>3. /\ \A f \in 1..n : f # n => A[f] = st[f]
      /\ A[n].pc = st[n].pc + 1
      /\ \A f \in 1..n : f # n => B[f] = st[f]
      /\ B[n].pc = st[n].pc
  BY AdvanceGoesOn
<1> HIDE DEF A, B
<1>4. Resumed(st, A, n) /\ Resumed(st, B, n)
  BY <1>1, <1>2, <1>3 DEF Resumed, SameFrames
<1> QED
  BY <1>4 DEF A, B

LEMMA SkipOrder ==
  ASSUME IInv, IInv', Order, Running, Skip
  PROVE  Order'
<1>1. stack' = Advance(stack) /\ heap' = heap /\ call' = NoCall /\ instances' = instances
  BY DEF Skip, Running
<1>2. stack \in Seq(FrameRecord) /\ Len(stack) # 0
  BY DEF IInv, Types, Running
<1>3. Resumed(stack, stack', Len(stack))
  BY <1>1, <1>2, AdvanceResumes
<1> QED
  BY <1>1, <1>3, AlikeSelf, ResumeOrder

(* The load begins: what has just been checked. *)
LEMMA LoadInstanceOrder ==
  ASSUME IInv, IInv', Order, Running, NEW n, LoadInstance(n), Top.pc <= Len(Body),
         Ref.op = "import" /\ ~Ref.withContext => Modules(n) = {},
         Ref.op = "extends" => Current.parent = 0 /\ ~Circular(n)
  PROVE  Order'
<1>1. CASE EndRender(heap)
  BY <1>1, EndOrder
<1>2. CASE /\ call' = [at |-> "loader", name |-> n, remaining |-> MaxBytes - bytes]
           /\ UNCHANGED <<heap, cache, handles, leases, instances, stack, bytes>>
  <2>1. NamesNow' = NamesNow /\ LengthsNow' = LengthsNow /\ Top' = Top /\ Current' = Current
        /\ Body' = Body /\ Ref' = Ref
    BY <1>2 DEF NamesNow, LengthsNow, Top, Current, Body, Ref
  <2>2. call'.name = n
    BY <1>2
  <2>3. Modules(call.name)' = Modules(n)
    BY <1>2, <2>2 DEF Modules
  <2>4. Ref.op = "extends" =>
          /\ Current.parent = 0
          /\ \A k \in DOMAIN instances :
               instances[k].chainRoot = Current.chainRoot => NamesNow[k] # n
    BY NotCircular
  <2>5. Asking'
    BY <1>2, <2>1, <2>2, <2>3, <2>4 DEF Asking
  <2>6. Ordered(instances', stack', NamesNow', LengthsNow')
    BY <1>2, <2>1 DEF Order
  <2> QED
    BY <2>5, <2>6 DEF Order
<1> QED
  BY <1>1, <1>2 DEF LoadInstance

LEMMA IncludeOrder ==
  ASSUME IInv, IInv', Order, Include
  PROVE  Order'
<1>1. Running /\ Top.pc <= Len(Body) /\ Ref.op = "include"
  BY DEF Include, AtReference
<1>2. EndRender(heap) \/ LoadInstance(Ref.names[Top.candidate]) \/ Skip
  BY Zenon DEF Include
<1> QED
  BY <1>1, <1>2, EndOrder, SkipOrder, LoadInstanceOrder

LEMMA ImportOrder ==
  ASSUME IInv, IInv', Order, Import
  PROVE  Order'
<1>1. Running /\ Top.pc <= Len(Body) /\ Ref.op = "import"
  BY DEF Import, AtReference
<1>2. \/ EndRender(heap)
      \/ (Ref.withContext \/ Modules(Ref.names[1]) = {}) /\ LoadInstance(Ref.names[1])
      \/ Skip
  BY Zenon DEF Import
<1> QED
  BY <1>1, <1>2, EndOrder, SkipOrder, LoadInstanceOrder

LEMMA ExtendsOrder ==
  ASSUME IInv, IInv', Order, Extends
  PROVE  Order'
<1>1. Running /\ Top.pc <= Len(Body) /\ Ref.op = "extends"
  BY DEF Extends, AtReference
<1>2. \/ EndRender(heap)
      \/ Current.parent = 0 /\ ~Circular(Ref.names[1]) /\ LoadInstance(Ref.names[1])
  BY Zenon DEF Extends
<1> QED
  BY <1>1, <1>2, EndOrder, LoadInstanceOrder

LEMMA NotLoadedOrder ==
  ASSUME IInv, IInv', Order, NotLoaded
  PROVE  Order'
<1>1. CASE EndRender(heap)
  BY <1>1, EndOrder
<1>2. CASE /\ stack' = NextCandidate /\ call' = NoCall
           /\ UNCHANGED <<heap, cache, handles, leases, instances, bytes>>
  <2>1. stack \in Seq(FrameRecord) /\ Len(stack) # 0
    BY DoneFacts DEF IInv, Types, NotLoaded
  <2>2. Resumed(stack, [stack EXCEPT ![Len(stack)].candidate = @ + 1], Len(stack))
    BY <2>1, AdvanceResumes
  <2>3. Resumed(stack, stack', Len(stack))
    BY Zenon, <1>2, <2>2 DEF NextCandidate
  <2> QED
    BY <1>2, <2>3, AlikeSelf, ResumeOrder
<1> QED
  BY Zenon, <1>1, <1>2 DEF NotLoaded

LEMMA ReturnOrder ==
  ASSUME IInv, IInv', Order, Return
  PROVE  Order'
<1>1. CASE EndRender(heap)
  BY <1>1, EndOrder
<1>2. CASE /\ Len(stack) # 1
           /\ stack' = Advance(SubSeq(stack, 1, Len(stack) - 1))
           /\ instances' = [instances EXCEPT ![Top.inst].state =
                              IF @ = "INITIALIZING" THEN "READY" ELSE @]
           /\ UNCHANGED <<heap, cache, handles, leases, call, bytes>>
  <2> DEFINE k == Top.inst
             x == [instances[k] EXCEPT !.state = IF @ = "INITIALIZING" THEN "READY" ELSE @]
             m == Len(stack)
             n == m - 1
             r == SubSeq(stack, 1, n)
  <2>1. stack # << >> /\ call' = NoCall /\ heap' = heap
    BY <1>2 DEF Return, Running
  <2>2. stack \in Seq(FrameRecord) /\ instances \in Seq(InstanceRecord)
    BY DEF IInv, Types
  <2>3. k \in DOMAIN instances /\ instances[k] \in InstanceRecord
    BY <2>1, <2>2, CurrentAlive
  <2>4. x \in InstanceRecord /\ x.templ = instances[k].templ /\ x.parent = instances[k].parent
        /\ x.cacheable = instances[k].cacheable /\ x.chainRoot = instances[k].chainRoot
        /\ x.runs = instances[k].runs
    BY <2>3 DEF InstanceRecord
  <2>5. instances' = Put(instances, k, x)
    BY <1>2 DEF Put
  <2> HIDE DEF x
  <2>6. /\ Put(instances, k, x) \in Seq(InstanceRecord)
        /\ Len(Put(instances, k, x)) = Len(instances) /\ Put(instances, k, x)[k] = x
        /\ \A j \in DOMAIN instances : j # k => Put(instances, k, x)[j] = instances[j]
    BY <2>2, <2>3, <2>4, PutFacts
  <2>7. Alike(instances, instances') /\ SameInstances(instances, instances')
    BY <2>4, <2>5, <2>6 DEF Alike, SameInstances
  <2>8. n \in Nat \ {0} /\ m \in Nat /\ n \in 1..m /\ n # m
    <3>1. m \in Nat /\ m # 0 /\ m # 1
      BY <1>2, <2>1, <2>2
    <3> HIDE DEF m
    <3> QED
      BY <3>1
  <2>9. r \in Seq(FrameRecord) /\ Len(r) = n /\ \A i \in 1..n : r[i] = stack[i] /\ i \in 1..m
    BY <2>2, <2>8
  <2>10. stack' = Advance(r)
    BY <1>2
  <2> HIDE DEF r, n, m
  <2>11. SameFrames(r, Advance(r)) /\ Advance(r)[n].pc = r[n].pc + 1
         /\ \A f \in 1..n : f # n => Advance(r)[f] = r[f]
    BY <2>8, <2>9, AdvanceFacts, AdvanceGoesOn
  <2>12. Resumed(stack, stack', n)
    <3> DEFINE A == Advance(r)
    <3>1. /\ A \in Seq(FrameRecord) /\ Len(A) = n /\ \A f \in 1..n : A[f].inst = r[f].inst
          /\ A[n].pc = r[n].pc + 1 /\ \A f \in 1..n : f # n => A[f] = r[f]
      <4>1. DOMAIN r = 1..n
        BY <2>9
      <4> QED
        BY <2>9, <2>11, <4>1 DEF SameFrames
    <3> HIDE DEF A
    <3>2. Resumed(stack, A, n)
      BY <2>8, <2>9, <3>1 DEF Resumed, m
    <3> QED
      BY <2>10, <3>2 DEF A
  <2> QED
    BY <2>1, <2>7, <2>12, ResumeOrder
<1> QED
  BY Zenon, <1>1, <1>2 DEF Return

LEMMA RunParentOrder ==
  ASSUME IInv, IInv', Order, RunParent
  PROVE  Order'
<1>1. CASE EndRender(heap)
  BY <1>1, EndOrder
<1>2. CASE /\ stack' = Append(stack, Frame(Current.parent))
           /\ instances' = [instances EXCEPT ![Current.parent].runs = @ + 1]
           /\ UNCHANGED <<heap, cache, handles, leases, call, bytes>>
  <2> DEFINE i == Top.inst
             p == Current.parent
             x == [instances[p] EXCEPT !.runs = @ + 1]
             m == Len(stack)
             f == Frame(p)
  <2>1. stack # << >> /\ call' = NoCall /\ Top.pc = Len(Body) + 1 /\ p # 0
    BY <1>2 DEF RunParent, Running
  <2>2. /\ m \in Nat \ {0} /\ stack \in Seq(FrameRecord) /\ Top = stack[m] /\ i \in DOMAIN instances
        /\ Current = instances[i] /\ LengthsNow[i] = Len(Body)
    BY <2>1, Standing
  <2>3. instances \in Seq(InstanceRecord) /\ Len(instances) \in Nat
        /\ DOMAIN instances = 1..Len(instances)
    BY DEF IInv, Types
  <2>4. p \in DOMAIN instances
    <3>1. p \in 0..Len(instances)
      BY <2>2 DEF IInv, Rendering
    <3> QED
      BY <2>1, <2>3, <3>1
  <2>5. instances[p] \in InstanceRecord
    BY <2>3, <2>4
  <2>6. /\ x \in InstanceRecord /\ x.templ = instances[p].templ /\ x.parent = instances[p].parent
        /\ x.cacheable = instances[p].cacheable /\ x.chainRoot = instances[p].chainRoot
        /\ x.runs = instances[p].runs + 1
    BY <2>5 DEF InstanceRecord
  <2>7. instances' = Put(instances, p, x)
    BY <1>2 DEF Put
  <2>8. f \in FrameRecord /\ f.inst = p /\ f.pc = 1
    BY <2>3, <2>4 DEF Frame, FrameRecord
  <2>9. stack' = Append(stack, f)
    BY <1>2
  <2> HIDE DEF x, f
  <2>10. Pushed(stack, stack', p)
    <3> HIDE DEF p
    <3>1. /\ stack' \in Seq(FrameRecord) /\ Len(stack') = Len(stack) + 1
          /\ stack'[Len(stack) + 1] = f /\ \A g \in DOMAIN stack : stack'[g] = stack[g]
      BY <2>2, <2>8, <2>9
    <3> QED
      BY <2>8, <3>1 DEF Pushed
  <2>11. /\ Put(instances, p, x) \in Seq(InstanceRecord)
         /\ Len(Put(instances, p, x)) = Len(instances) /\ Put(instances, p, x)[p] = x
         /\ \A j \in DOMAIN instances : j # p => Put(instances, p, x)[j] = instances[j]
    BY <2>3, <2>4, <2>6, PutFacts
  <2> HIDE DEF p, i, m
  <2>12. Counted(instances, instances', p)
    BY <2>4, <2>6, <2>7, <2>11 DEF Counted
  <2>13. NamesNow' = NamesNow /\ LengthsNow' = LengthsNow
    <3>1. DOMAIN instances' = DOMAIN instances
          /\ \A k \in DOMAIN instances : instances'[k].templ = instances[k].templ
      BY <2>3, <2>6, <2>7, <2>11
    <3> QED
      BY <1>2, <3>1 DEF NamesNow, LengthsNow
  <2>14. i = stack[m].inst /\ p = instances[i].parent /\ stack[m].pc = LengthsNow[i] + 1
         /\ m = Len(stack) /\ m # 0
    BY <2>1, <2>2 DEF i, p, m
  <2>15. Ordered(instances', stack', NamesNow, LengthsNow)
    BY <2>10, <2>12, <2>14, OrderedCounted DEF Order
  <2>16. Asking'
    BY <2>1 DEF Asking, NoCall
  <2> QED
    BY <2>13, <2>15, <2>16 DEF Order
<1> QED
  BY Zenon, <1>1, <1>2 DEF RunParent

LEMMA NewInstanceMore ==
  ASSUME NEW state, NEW c, NEW r
  PROVE  /\ NewInstance(state, c, r).chainRoot = c /\ NewInstance(state, c, r).runs = r
         /\ NewInstance(state, c, r).cacheable => Ref.op = "import" /\ ~Ref.withContext
<1>1. NewInstance(state, c, r).chainRoot = c /\ NewInstance(state, c, r).runs = r
  BY DEF NewInstance
<1>2. NewInstance(state, c, r).cacheable = (Ref.op = "import" /\ ~Ref.withContext)
  BY Zenon DEF NewInstance
<1> QED
  BY <1>1, <1>2

LEMMA InstanceOrder ==
  ASSUME IInv, IInv', Order, Instance
  PROVE  Order'
<1> DEFINE n == Len(instances)
           m == Len(stack)
           k == n + 1
           t == call.templ
<1>1. call.at = "done" /\ t # Null /\ call' = NoCall /\ heap' = heap
  BY DEF Instance
<1>2. Types /\ Calls
  BY DEF IInv
<1>3. stack # << >> /\ t \in Templates /\ heap[t].name = call.name
  <2>1. stack # << >> /\ t \in Templates /\ Flight = t
    BY <1>1, <1>2, DoneFacts
  <2> QED
    BY <1>1, <1>2, <2>1 DEF Calls
<1>4. /\ m \in Nat \ {0} /\ stack \in Seq(FrameRecord) /\ Top = stack[m]
      /\ Top.inst \in DOMAIN instances /\ Current = instances[Top.inst]
      /\ LengthsNow[Top.inst] = Len(Body)
  BY <1>3, Standing
<1>5. instances \in Seq(InstanceRecord) /\ n \in Nat /\ DOMAIN instances = 1..n
  BY <1>2 DEF Types
<1>6. Ordered(instances, stack, NamesNow, LengthsNow)
  BY DEF Order
<1>7. /\ Top.pc <= Len(Body)
      /\ Ref.op = "import" /\ ~Ref.withContext => Modules(call.name) = {}
      /\ Ref.op = "extends" =>
           /\ Current.parent = 0
           /\ \A j \in DOMAIN instances :
                instances[j].chainRoot = Current.chainRoot => NamesNow[j] # call.name
  BY <1>1, <1>3 DEF Order, Asking
<1>8. Asking'
  BY <1>1 DEF Asking, NoCall
<1> HIDE DEF n, m, k
<1>9. ASSUME NEW s \in Seq(InstanceRecord), Len(s) = n, NEW x \in InstanceRecord, x.templ = t,
             \A j \in DOMAIN instances : s[j].templ = instances[j].templ,
             instances' = Append(s, x)
      PROVE  /\ Longest(instances, instances', NamesNow, NamesNow', LengthsNow, LengthsNow')
             /\ NamesNow'[k] = call.name
             /\ instances'[k] = x /\ \A j \in DOMAIN instances : instances'[j] = s[j]
  <2>1. /\ instances' \in Seq(InstanceRecord) /\ Len(instances') = n + 1
        /\ DOMAIN instances' = 1..n + 1 /\ instances'[n + 1] = x
        /\ \A j \in 1..n : instances'[j] = s[j] /\ j \in DOMAIN instances'
    BY <1>5, <1>9
  <2>2. NamesNow' = [j \in DOMAIN instances' |-> heap[instances'[j].templ].name]
        /\ LengthsNow' = [j \in DOMAIN instances' |-> Len(heap[instances'[j].templ].source.body)]
    BY <1>1 DEF NamesNow, LengthsNow
  <2>3. \A j \in DOMAIN instances : instances'[j].templ = instances[j].templ /\ j \in DOMAIN instances'
    BY <1>5, <1>9, <2>1
  <2>4. \A j \in DOMAIN instances : NamesNow'[j] = NamesNow[j] /\ LengthsNow'[j] = LengthsNow[j]
    BY <2>2, <2>3 DEF NamesNow, LengthsNow
  <2>5. LengthsNow' \in [DOMAIN instances' -> Nat]
    BY InstancesAliveNext DEF LengthsNow, AllAlive
  <2>6. DOMAIN NamesNow' = DOMAIN instances'
    BY <2>2
  <2>7. Longest(instances, instances', NamesNow, NamesNow', LengthsNow, LengthsNow')
    BY <2>1, <2>4, <2>5, <2>6 DEF Longest, n
  <2>8. NamesNow'[k] = call.name
    <3>1. k \in DOMAIN instances' /\ instances'[k].templ = t
      BY <1>5, <1>9, <2>1 DEF k
    <3> QED
      BY <1>3, <2>2, <3>1
  <2> QED
    BY <1>5, <2>1, <2>7, <2>8 DEF k
<1>10. CASE \E st \in {"NONE", "INITIALIZING"} :
              /\ instances' = Append(instances, NewInstance(st, k, 1))
              /\ stack' = Append(stack, Frame(k))
  <2>1. PICK st \in {"NONE", "INITIALIZING"} :
             /\ instances' = Append(instances, NewInstance(st, k, 1))
             /\ stack' = Append(stack, Frame(k))
    BY <1>10
  <2> DEFINE x == NewInstance(st, k, 1)
             f == Frame(k)
  <2>2. x \in InstanceRecord /\ x.templ = t /\ x.parent = 0
    <3>1. k \in Nat
      BY <1>5 DEF k
    <3> QED
      BY <1>3, <3>1, NewInstanceFacts
  <2>3. x.chainRoot = k /\ x.runs = 1 /\ (x.cacheable => Ref.op = "import" /\ ~Ref.withContext)
    BY NewInstanceMore
  <2>4. f \in FrameRecord /\ f.inst = k /\ f.pc = 1
    BY <1>5 DEF Frame, FrameRecord, k
  <2>5. instances' = Append(instances, x) /\ stack' = Append(stack, f)
    BY <2>1
  <2> HIDE DEF x, f
  <2>6. /\ Longest(instances, instances', NamesNow, NamesNow', LengthsNow, LengthsNow')
        /\ NamesNow'[k] = call.name
        /\ instances'[k] = x /\ \A j \in DOMAIN instances : instances'[j] = instances[j]
    BY <1>5, <1>9, <2>2, <2>5 DEF n
  <2>7. Pushed(stack, stack', k)
    <3>1. /\ stack' \in Seq(FrameRecord) /\ Len(stack') = Len(stack) + 1
          /\ stack'[Len(stack) + 1] = f /\ \A g \in DOMAIN stack : stack'[g] = stack[g]
      BY <1>4, <2>4, <2>5
    <3> QED
      BY <2>4, <3>1 DEF Pushed
  <2>8. k = Len(instances) + 1
    BY DEF k, n
  <2>9. Included(instances, instances', stack, stack', NamesNow, NamesNow',
                  LengthsNow, LengthsNow', x)
    <3>1. x.cacheable => \A j \in DOMAIN instances : instances[j].cacheable => NamesNow[j] # call.name
      <4> SUFFICES ASSUME x.cacheable, NEW j \in DOMAIN instances, instances[j].cacheable,
                          NamesNow[j] = call.name
                   PROVE  FALSE
        OBVIOUS
      <4>1. Modules(call.name) = {}
        BY <1>7, <2>3
      <4>2. heap[instances[j].templ].name = call.name
        BY DEF NamesNow
      <4>3. j \in Modules(call.name)
        BY <4>2 DEF Modules
      <4> QED
        BY <4>1, <4>3
    <3>2. Len(stack) # 0 /\ stack[Len(stack)].pc <= LengthsNow[stack[Len(stack)].inst]
      BY <1>4, <1>7 DEF m
    <3> QED
      BY <2>2, <2>3, <2>6, <2>7, <2>8, <3>1, <3>2 DEF Included
  <2>10. Ordered(instances', stack', NamesNow', LengthsNow')
    BY <1>6, <2>9, OrderedIncluded
  <2> QED
    BY <1>8, <2>10 DEF Order
<1>11. CASE /\ Ref.op = "extends"
            /\ instances' = Append([instances EXCEPT ![Top.inst].parent = k],
                                   NewInstance("NONE", Current.chainRoot, 0))
            /\ stack' = Advance(stack)
  <2> DEFINE x == NewInstance("NONE", Current.chainRoot, 0)
             i == Top.inst
             y == [instances[i] EXCEPT !.parent = k]
             s == Put(instances, i, y)
  <2>1. i \in DOMAIN instances /\ instances[i] \in InstanceRecord /\ Current \in InstanceRecord
        /\ k \in Nat
    BY <1>4, <1>5 DEF k
  <2>2. Current.chainRoot \in Nat
    BY <2>1 DEF InstanceRecord
  <2>3. x \in InstanceRecord /\ x.templ = t /\ x.parent = 0
    BY <1>3, <2>2, NewInstanceFacts
  <2>4. /\ x.chainRoot = Current.chainRoot /\ x.runs = 0
        /\ x.cacheable => Ref.op = "import" /\ ~Ref.withContext
    BY NewInstanceMore
  <2>5. ~x.cacheable
    BY <1>11, <2>4
  <2>6. /\ y \in InstanceRecord /\ y.templ = instances[i].templ /\ y.parent = k
        /\ y.cacheable = instances[i].cacheable /\ y.chainRoot = instances[i].chainRoot
        /\ y.runs = instances[i].runs
    <3> DEFINE z == instances[i]
    <3>1. z \in InstanceRecord /\ k \in Nat
      BY <2>1
    <3> HIDE DEF z
    <3>2. /\ [z EXCEPT !.parent = k] \in InstanceRecord
          /\ [z EXCEPT !.parent = k].templ = z.templ /\ [z EXCEPT !.parent = k].parent = k
          /\ [z EXCEPT !.parent = k].cacheable = z.cacheable
          /\ [z EXCEPT !.parent = k].chainRoot = z.chainRoot
          /\ [z EXCEPT !.parent = k].runs = z.runs
      BY <3>1 DEF InstanceRecord
    <3> QED
      BY <3>2 DEF z
  <2>7. [instances EXCEPT ![i].parent = k] = s
    BY DEF Put
  <2>8. instances' = Append(s, x)
    BY <1>11, <2>7
  <2> HIDE DEF y, x
  <2>9. /\ s \in Seq(InstanceRecord) /\ Len(s) = n /\ s[i] = y
        /\ \A j \in DOMAIN instances : j # i => s[j] = instances[j]
    <3>1. /\ Put(instances, i, y) \in Seq(InstanceRecord)
          /\ Len(Put(instances, i, y)) = Len(instances) /\ Put(instances, i, y)[i] = y
          /\ \A j \in DOMAIN instances : j # i => Put(instances, i, y)[j] = instances[j]
      BY <1>5, <2>1, <2>6, PutFacts
    <3> QED
      BY <3>1 DEF n
  <2> HIDE DEF s, i
  <2>10. \A j \in DOMAIN instances : s[j].templ = instances[j].templ
    BY <2>6, <2>9
  <2>11. /\ Longest(instances, instances', NamesNow, NamesNow', LengthsNow, LengthsNow')
         /\ NamesNow'[k] = call.name
         /\ instances'[k] = x /\ \A j \in DOMAIN instances : instances'[j] = s[j]
    BY <1>9, <2>3, <2>8, <2>9, <2>10
  <2>12. k = Len(instances) + 1 /\ m = Len(stack) /\ stack[m].inst = i
    BY <1>4 DEF k, n, m, i
  <2>13. Resumed(stack, stack', m)
    BY <1>4, <1>11, <2>12, AdvanceResumes
  <2>14. Inherited(instances, instances', stack, stack', NamesNow, NamesNow',
                   LengthsNow, LengthsNow', x, i)
    <3>1. Current = instances[i] /\ Current.parent = 0
      BY <1>4, <1>7, <1>11 DEF i
    <3>2. \A j \in DOMAIN instances :
            /\ instances'[j].cacheable = instances[j].cacheable
            /\ instances'[j].chainRoot = instances[j].chainRoot
            /\ instances'[j].runs = instances[j].runs
            /\ instances'[j].parent = IF j = i THEN k ELSE instances[j].parent
      <4> TAKE j \in DOMAIN instances
      <4>1. CASE j = i
        BY <2>6, <2>9, <2>11, <4>1
      <4>2. CASE j # i
        BY <2>9, <2>11, <4>2
      <4> QED
        BY <4>1, <4>2
    <3>3. \A j \in DOMAIN instances :
            instances[j].chainRoot = instances[i].chainRoot => NamesNow[j] # call.name
      BY <1>7, <1>11, <3>1
    <3> QED
      BY <2>1, <2>3, <2>4, <2>5, <2>11, <2>12, <2>13, <3>1, <3>2, <3>3 DEF Inherited
  <2>15. Ordered(instances', stack', NamesNow', LengthsNow')
    BY <1>6, <2>14, OrderedInherited
  <2> QED
    BY <1>8, <2>15 DEF Order
<1>12. \/ \E st \in {"NONE", "INITIALIZING"} :
            /\ instances' = Append(instances, NewInstance(st, k, 1))
            /\ stack' = Append(stack, Frame(k))
       \/ /\ Ref.op = "extends"
          /\ instances' = Append([instances EXCEPT ![Top.inst].parent = k],
                                 NewInstance("NONE", Current.chainRoot, 0))
          /\ stack' = Advance(stack)
  BY Zenon DEF Instance, k, n
<1> QED
  BY Zenon, <1>10, <1>11, <1>12

LEMMA StepOrder ==
  ASSUME IInv, IInv', Order, Step
  PROVE  Order'
<1>1. CASE RenderError
  BY <1>1, EndOrder DEF RenderError
<1>2. CASE NoInstance
  BY <1>2, EndOrder DEF NoInstance
<1> QED
  BY <1>1, <1>2, IncludeOrder, ImportOrder, ExtendsOrder, NotLoadedOrder, InstanceOrder,
     RunParentOrder, ReturnOrder
     DEF Step

LEMMA InitOrder == Init => Order
<1> SUFFICES ASSUME Init PROVE Order
  OBVIOUS
<1>1. instances = << >> /\ stack = << >> /\ DOMAIN instances = {} /\ DOMAIN stack = {}
      /\ instances \in Seq(InstanceRecord) /\ stack \in Seq(FrameRecord)
  BY DEF Init
<1>2. DOMAIN NamesNow = {} /\ LengthsNow \in [{} -> Nat]
  BY <1>1 DEF NamesNow, LengthsNow
<1>3. Shape(instances, stack, NamesNow, LengthsNow)
  BY <1>1, <1>2 DEF Shape
<1>4. Ordered(instances, stack, NamesNow, LengthsNow)
  BY <1>1, <1>3 DEF Ordered, Modular, Actives, Parents, Roots, Distinct, Waits
<1> QED
  BY <1>1, <1>4 DEF Order, Asking

LEMMA NextOrder == IInv /\ IInv' /\ Order /\ [Next]_vars => Order'
<1> SUFFICES ASSUME IInv, IInv', Order, [Next]_vars PROVE Order'
  OBVIOUS
<1>1. CASE UNCHANGED vars
  <2>1. instances' = instances /\ stack' = stack /\ heap' = heap /\ call' = call
    BY <1>1 DEF vars
  <2>2. Lasting
    BY <2>1 DEF Lasting
  <2> QED
    BY <2>1, <2>2, SameOrder
<1> QED
  BY <1>1, HostOrder, LoadOrder, StepOrder DEF Next

(* The order of instances holds in every reachable state. *)
THEOREM OrderHolds == Spec => []Order
BY InvariantHolds, InitOrder, NextOrder, PTL DEF Spec

(* Within a render jinja_load_instance makes one module per name, every    *)
(* body is executed at most once, and the check of jinja_execute_reference *)
(* along chain_root keeps every template from being its own ancestor.      *)
THEOREM InstancesLoadOnce == Spec => []InstancesOnce
<1>1. IInv /\ Order => InstancesOnce
  <2> SUFFICES ASSUME IInv, Order PROVE InstancesOnce
    OBVIOUS
  <2>1. Modular(instances, NamesNow) /\ Actives(instances, stack) /\ Distinct(instances, NamesNow)
    BY DEF Order, Ordered
  <2>2. \A k \in DOMAIN instances : NamesNow[k] = heap[instances[k].templ].name
    BY DEF NamesNow
  <2>3. ASSUME NEW n \in Names
        PROVE  Cardinality(Modules(n)) <= 1
    <3>1. \A j, k \in Modules(n) : j = k
      BY <2>1, <2>2 DEF Modular, Modules
    <3>2. CASE Modules(n) = {}
      BY <3>2, FS_EmptySet
    <3>3. CASE Modules(n) # {}
      <4>1. PICK k : Modules(n) = {k}
        BY <3>1, <3>3
      <4>2. Cardinality({k}) = 1
        BY FS_Singleton
      <4> QED
        BY <4>1, <4>2
    <3> QED
      BY <3>2, <3>3
  <2>4. \A k \in DOMAIN instances : instances[k].runs <= 1
    BY <2>1 DEF Actives
  <2>5. \A j, k \in DOMAIN instances :
          j # k /\ instances[j].chainRoot = instances[k].chainRoot =>
            heap[instances[j].templ].name # heap[instances[k].templ].name
    BY <2>1, <2>2 DEF Distinct
  <2> QED
    BY <2>3, <2>4, <2>5 DEF InstancesOnce
<1> QED
  BY <1>1, InvariantHolds, OrderHolds, PTL

=============================================================================
