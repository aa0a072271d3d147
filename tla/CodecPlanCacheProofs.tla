------------------------ MODULE CodecPlanCacheProofs ------------------------
(***************************************************************************)
(* Proofs about CodecPlanCache, for every set of threads, artifacts and    *)
(* plans and every limit.                                                  *)
(***************************************************************************)
EXTENDS CodecPlanCache, FiniteSetTheorems, TLAPS

Reserving == {t \in Threads : reserved[t]}

(* The table's entries are pairs of an artifact and a plan. *)
LEMMA EntriesType ==
  ASSUME TypeOK
  PROVE  /\ Entries \subseteq [artifact : Artifacts, plan : Plans]
         /\ table = << >> => Entries = {}
<1> DEFINE Pairs == [artifact : Artifacts, plan : Plans]
<1>1. table \in Seq(Pairs)
  BY DEF TypeOK
<1>2. \A i \in DOMAIN table : table[i] \in Pairs
  <2> HIDE DEF Pairs
  <2>1. QED
    BY <1>1
<1>3. QED
  BY <1>2 DEF Entries

(* Publishing adds exactly the publishing call's pair to the table. *)
LEMMA PublicationEntries ==
  ASSUME TypeOK, LocalsOK, NEW t \in Threads, pc[t] = "publish", Publication(t)
  PROVE  Entries' = Entries \cup {[artifact |-> art[t], plan |-> plan[t]]}
<1> DEFINE e == [artifact |-> art[t], plan |-> plan[t]]
<1>1. table \in Seq([artifact : Artifacts, plan : Plans]) /\ e \in [artifact : Artifacts, plan : Plans]
  BY DEF TypeOK, LocalsOK
<1>2. table' = Append(table, e)
  BY DEF Publication
<1>3. DOMAIN table' = DOMAIN table \cup {Len(table) + 1} /\ DOMAIN table = 1..Len(table)
  BY <1>1, <1>2
<1>4. /\ \A i \in DOMAIN table : table'[i] = table[i]
      /\ table'[Len(table) + 1] = e
  BY <1>1, <1>2
<1>5. QED
  BY <1>3, <1>4 DEF Entries

(* The count of spare tables follows the calls that hold one: reserving adds *)
(* one, installing it in the codec or destroying it takes one away.          *)
LEMMA SpareStep ==
  ASSUME TypeOK, LocalsOK, NoLeak, Next
  PROVE  spare' = Cardinality(Reserving') /\ spare' \in Nat
<1> USE DEF GoTo, codec
<1>1. IsFiniteSet(Reserving) /\ spare = Cardinality(Reserving)
  <2>1. Reserving \in SUBSET Threads
    BY DEF Reserving
  <2>2. QED
    BY <2>1, FS_Subset, CacheAssumption DEF NoLeak, Reserving
<1>2. IsFiniteSet(Reserving')
  <2>1. Reserving' \in SUBSET Threads
    BY DEF Reserving
  <2>2. QED
    BY <2>1, FS_Subset, CacheAssumption
<1>3. reserved \in [Threads -> BOOLEAN]
  BY DEF TypeOK
<1>4. SUFFICES spare' = Cardinality(Reserving')
  BY <1>2, FS_CardinalityType
<1>5. CASE UNCHANGED <<spare, reserved>>
  BY <1>1, <1>5 DEF Reserving
<1>6. ASSUME NEW t \in Threads, Reserve(t), reserved' = [reserved EXCEPT ![t] = TRUE],
             spare' = spare + 1
      PROVE  spare' = Cardinality(Reserving')
  <2>1. t \notin Reserving
    BY <1>6 DEF Reserving, LocalsOK, Reserve
  <2>2. Reserving' = Reserving \cup {t}
    BY <1>3, <1>6 DEF Reserving
  <2>3. QED
    BY <1>1, <1>6, <2>1, <2>2, FS_AddElement
<1>7. ASSUME NEW t \in Threads, reserved[t], spare' = spare - 1,
             reserved' = [reserved EXCEPT ![t] = FALSE]
      PROVE  spare' = Cardinality(Reserving')
  <2>1. Reserving' = Reserving \ {t} /\ t \in Reserving
    BY <1>3, <1>7 DEF Reserving
  <2>2. QED
    BY <1>1, <1>7, <2>1, FS_RemoveElement
<1>8. ASSUME NEW t \in Threads, Publication(t)
      PROVE  spare' = Cardinality(Reserving')
  <2>1. CASE reserved[t] /\ ~backed
    <3>1. reserved' = [reserved EXCEPT ![t] = FALSE] /\ spare' = spare - 1
      BY <1>3, <1>8, <2>1, Zenon DEF Publication
    <3>2. QED
      BY <2>1, <3>1, <1>7
  <2>2. CASE ~(reserved[t] /\ ~backed)
    <3>1. (reserved[t] /\ backed) = reserved[t]
      BY <1>3, <2>2, Zenon DEF TypeOK
    <3>2. reserved' = reserved /\ spare' = spare
      BY <1>3, <1>8, <2>2, <3>1 DEF Publication
    <3>3. QED
      BY <3>2, <1>5
  <2>3. QED
    BY <2>1, <2>2
<1>9. ASSUME NEW t \in Threads, Cleanup(t)
      PROVE  spare' = Cardinality(Reserving')
  <2>1. CASE reserved[t]
    BY <1>7, <1>9, <2>1 DEF Cleanup
  <2>2. CASE ~reserved[t]
    <3>1. reserved' = reserved /\ spare' = spare
      BY <1>3, <1>9, <2>2 DEF Cleanup
    <3>2. QED
      BY <3>1, <1>5
  <2>3. QED
    BY <2>1, <2>2
<1>10. ASSUME NEW t \in Threads, Reserve(t)
       PROVE  spare' = Cardinality(Reserving')
  BY <1>5, <1>6, <1>10 DEF Reserve
<1>11. ASSUME NEW t \in Threads, Publish(t)
       PROVE  spare' = Cardinality(Reserving')
  BY <1>5, <1>8, <1>11 DEF Publish
<1>12. ASSUME NEW t \in Threads, Compile(t)
       PROVE  spare' = Cardinality(Reserving')
  BY <1>5, <1>12 DEF Compile
<1>13. ASSUME NEW t \in Threads, NEW a \in Artifacts, Lookup(t, a)
       PROVE  spare' = Cardinality(Reserving')
  BY <1>5, <1>13 DEF Lookup
<1>14. CASE FreeCodec
  <2>1. UNCHANGED <<spare, reserved>>
    BY <1>14 DEF FreeCodec
  <2>2. QED
    BY <2>1, <1>5
<1>15. QED
  BY <1>9, <1>10, <1>11, <1>12, <1>13, <1>14 DEF Next, Step

(* Types are kept: a plan is published only while the table has room. *)
LEMMA TypeStep ==
  ASSUME TypeOK, LocalsOK, NoLeak, Next
  PROVE  TypeOK'
<1> USE CacheAssumption DEF GoTo, codec, TypeOK
<1>0. spare' \in Nat
  BY SpareStep
<1>1. ASSUME NEW t \in Threads, NEW a \in Artifacts, Lookup(t, a)
      PROVE  TypeOK'
  <2>1. UNCHANGED <<table, fieldCount, backed, heap, plan, reserved>>
    BY <1>1 DEF Lookup
  <2>2. handed' \subseteq [artifact : Artifacts, plan : Plans]
    BY <1>1, EntriesType DEF Lookup, Found
  <2>3. reserve' \in [Threads -> BOOLEAN]
    BY <1>1, Zenon DEF Lookup
  <2>4. art' \in [Threads -> Artifacts \cup {NoArtifact}]
    BY <1>1 DEF Lookup
  <2>5. pc' \in [Threads -> {"idle", "compile", "reserve", "publish", "cleanup"}]
    BY <1>1 DEF Lookup
  <2>6. QED
    BY <1>0, <2>1, <2>2, <2>3, <2>4, <2>5
<1>2. ASSUME NEW t \in Threads, Compile(t)
      PROVE  TypeOK'
  <2>1. UNCHANGED <<table, fieldCount, backed, reserved, handed>>
    BY <1>2 DEF Compile
  <2>2. heap' \subseteq Plans /\ plan' \in [Threads -> Plans \cup {NoPlan}]
    BY <1>2 DEF Compile
  <2>3. reserve' \in [Threads -> BOOLEAN]
    BY <1>2, Zenon DEF Compile
  <2>4. art' \in [Threads -> Artifacts \cup {NoArtifact}]
    BY <1>2 DEF Compile
  <2>5. pc' \in [Threads -> {"idle", "compile", "reserve", "publish", "cleanup"}]
    BY <1>2 DEF Compile
  <2>6. QED
    BY <1>0, <2>1, <2>2, <2>3, <2>4, <2>5
<1>3. ASSUME NEW t \in Threads, Reserve(t)
      PROVE  TypeOK'
  BY <1>0, <1>3 DEF Reserve
<1>4. ASSUME NEW t \in Threads, Publish(t)
      PROVE  TypeOK'
  <2>1. CASE UNCHANGED <<codec, plan, reserved, spare>>
    <3>1. handed' \subseteq [artifact : Artifacts, plan : Plans]
      BY <1>4, EntriesType DEF Publish, Found, Publication, LocalsOK
    <3>2. QED
      BY <1>0, <1>4, <2>1, <3>1 DEF Publish
  <2>2. CASE Fits(art[t]) /\ Publication(t)
    <3>1. art[t] \in Artifacts /\ plan[t] \in Plans
      BY <1>4 DEF Publish, LocalsOK
    <3>2. /\ table' \in Seq([artifact : Artifacts, plan : Plans])
          /\ Len(table') <= MaxPrepared
      BY <2>2, <3>1 DEF Fits, Publication
    <3>3. backed' \in BOOLEAN /\ reserved' \in [Threads -> BOOLEAN]
      BY <2>2, Zenon DEF Publication
    <3>4. QED
      BY <1>0, <1>4, <2>2, <3>1, <3>2, <3>3 DEF Publish, Publication
  <2>3. QED
    BY <1>4, <2>1, <2>2 DEF Publish
<1>5. ASSUME NEW t \in Threads, Cleanup(t)
      PROVE  TypeOK'
  BY <1>0, <1>5 DEF Cleanup
<1>6. CASE FreeCodec
  <2>1. {e.plan : e \in Entries} \subseteq Plans
    BY EntriesType
  <2>2. << >> \in Seq([artifact : Artifacts, plan : Plans]) /\ Len(<< >>) = 0
    OBVIOUS
  <2>3. table' \in Seq([artifact : Artifacts, plan : Plans]) /\ Len(table') <= MaxPrepared
    BY <1>6, <2>2 DEF FreeCodec
  <2>4. QED
    BY <1>0, <1>6, <2>1, <2>3 DEF FreeCodec
<1>7. QED
  BY <1>1, <1>2, <1>3, <1>4, <1>5, <1>6 DEF Next, Step

(* What the locals mean is kept: once the table has its capacity it keeps it *)
(* while any call is in progress.                                            *)
LEMMA LocalsStep ==
  ASSUME TypeOK, LocalsOK, Next
  PROVE  LocalsOK'
<1> USE CacheAssumption DEF GoTo, codec, TypeOK, LocalsOK
<1>1. ASSUME NEW t \in Threads, NEW a \in Artifacts, Lookup(t, a)
      PROVE  LocalsOK'
  <2>1. UNCHANGED <<backed, plan, reserved>>
    BY <1>1 DEF Lookup
  <2>2. CASE UNCHANGED <<pc, art, reserve>>
    BY <2>1, <2>2
  <2>3. CASE /\ pc[t] = "idle" /\ pc' = [pc EXCEPT ![t] = "compile"]
             /\ art' = [art EXCEPT ![t] = a]
             /\ reserve' = [reserve EXCEPT ![t] = ~backed]
    <3>1. reserve'[t] \/ backed
      BY <2>3, Zenon
    <3>2. \A u \in Threads \ {t} : pc'[u] = pc[u] /\ art'[u] = art[u] /\ reserve'[u] = reserve[u]
      BY <2>3, Zenon
    <3>3. pc'[t] = "compile" /\ art'[t] = a
      BY <2>3
    <3>4. plan[t] = NoPlan /\ ~reserved[t]
      BY <2>3
    <3> QED
      BY <2>1, <3>1, <3>2, <3>3, <3>4
  <2>4. QED
    BY <1>1, <2>2, <2>3 DEF Lookup
<1>2. ASSUME NEW t \in Threads, Compile(t)
      PROVE  LocalsOK'
  BY <1>2 DEF Compile
<1>3. ASSUME NEW t \in Threads, Reserve(t)
      PROVE  LocalsOK'
  BY <1>3 DEF Reserve
<1>4. ASSUME NEW t \in Threads, Publish(t)
      PROVE  LocalsOK'
  BY <1>4 DEF Publish, Publication
<1>5. ASSUME NEW t \in Threads, Cleanup(t)
      PROVE  LocalsOK'
  BY <1>5 DEF Cleanup
<1>6. CASE FreeCodec
  BY <1>6 DEF FreeCodec
<1>7. QED
  BY <1>1, <1>2, <1>3, <1>4, <1>5, <1>6 DEF Next, Step

(* A published plan lies in reserved storage: a call that did not reserve    *)
(* saw a reserved table, and one that did installs its own if need be.       *)
LEMMA BackedStep ==
  ASSUME TypeOK, LocalsOK, TableBacked, Next
  PROVE  TableBacked'
<1> USE DEF codec, TableBacked
<1>1. ASSUME NEW t \in Threads, Publish(t)
      PROVE  TableBacked'
  <2>1. CASE Publication(t)
    BY <1>1, <2>1 DEF Publish, Publication, LocalsOK
  <2>2. CASE UNCHANGED codec
    BY <2>2
  <2>3. QED
    BY <1>1, <2>1, <2>2 DEF Publish
<1>2. CASE FreeCodec
  BY <1>2 DEF FreeCodec
<1>3. ASSUME UNCHANGED codec
      PROVE  TableBacked'
  BY <1>3
<1>4. QED
  BY <1>1, <1>2, <1>3 DEF Next, Step, Lookup, Compile, Reserve, Cleanup

(* A plan a call owns is owned by no other call and is not free: a           *)
(* compilation takes a free one, and whoever publishes or frees a plan gives *)
(* it up.                                                                    *)
LEMMA OwnerStep ==
  ASSUME TypeOK, LocalsOK, OneOwner, HandedOutIsPublished, Next
  PROVE  OneOwner'
<1> USE CacheAssumption DEF GoTo, codec, TypeOK, OneOwner
<1>1. ASSUME UNCHANGED <<heap, plan>>
      PROVE  OneOwner'
  BY <1>1
<1>2. ASSUME NEW t \in Threads, Compile(t)
      PROVE  OneOwner'
  BY <1>2 DEF Compile
<1>3. ASSUME NEW t \in Threads, Publish(t)
      PROVE  OneOwner'
  BY <1>3 DEF Publish, Publication
<1>4. ASSUME NEW t \in Threads, Cleanup(t)
      PROVE  OneOwner'
  BY <1>4 DEF Cleanup
<1>5. CASE FreeCodec
  BY <1>5 DEF FreeCodec, LocalsOK
<1>6. QED
  BY <1>1, <1>2, <1>3, <1>4, <1>5 DEF Next, Step, Lookup, Reserve

(* Two calls that both missed leave one plan per artifact: the second finds  *)
(* the first one's entry when it looks again.                                *)
LEMMA UniqueStep ==
  ASSUME TypeOK, LocalsOK, HandedOutIsPublished, OnePlanPerArtifact, Next
  PROVE  OnePlanPerArtifact'
<1> USE DEF OnePlanPerArtifact
<1>1. ASSUME NEW t \in Threads, pc[t] = "publish", Found(art[t]) = {}, Publication(t)
      PROVE  OnePlanPerArtifact'
  <2> DEFINE e == [artifact |-> art[t], plan |-> plan[t]]
  <2>1. table \in Seq([artifact : Artifacts, plan : Plans]) /\ e \in [artifact : Artifacts, plan : Plans]
    BY <1>1 DEF TypeOK, LocalsOK
  <2>2. table' = Append(table, e)
    BY <1>1 DEF Publication
  <2>3. DOMAIN table' = DOMAIN table \cup {Len(table) + 1} /\ DOMAIN table = 1..Len(table)
    BY <2>1, <2>2
  <2>4. /\ \A i \in DOMAIN table : table'[i] = table[i]
        /\ table'[Len(table) + 1] = e
    BY <2>1, <2>2
  <2>5. \A i \in DOMAIN table : table[i].artifact # art[t] /\ table[i].plan # plan[t]
    BY <1>1 DEF Found, Entries, HandedOutIsPublished
  <2>6. e.artifact = art[t] /\ e.plan = plan[t]
    OBVIOUS
  <2>7. QED
    BY <2>3, <2>4, <2>5, <2>6
<1>2. ASSUME table' = table
      PROVE  OnePlanPerArtifact'
  BY <1>2
<1>3. ASSUME NEW t \in Threads, Publish(t)
      PROVE  OnePlanPerArtifact'
  BY <1>1, <1>2, <1>3 DEF Publish, codec
<1>4. CASE FreeCodec
  BY <1>4 DEF FreeCodec
<1>5. QED
  BY <1>2, <1>3, <1>4 DEF Next, Step, Lookup, Compile, Reserve, Cleanup, codec

(* What acquire has returned stays published and allocated: only a           *)
(* published plan is returned, and a call frees only a plan it still owns.   *)
LEMMA HandedOutStep ==
  ASSUME TypeOK, LocalsOK, OneOwner, HandedOutIsPublished, Next
  PROVE  HandedOutIsPublished'
<1> USE CacheAssumption DEF GoTo, codec, HandedOutIsPublished
<1>0. ASSUME table' = table
      PROVE  Entries' = Entries
  BY <1>0 DEF Entries
<1>1. ASSUME NEW t \in Threads, NEW a \in Artifacts, Lookup(t, a)
      PROVE  HandedOutIsPublished'
  BY <1>0, <1>1 DEF Lookup, Found
<1>2. ASSUME NEW t \in Threads, Compile(t)
      PROVE  HandedOutIsPublished'
  <2>1. Entries' = Entries
    BY <1>0, <1>2 DEF Compile
  <2>2. \A e \in Entries : e.plan \in Plans
    BY EntriesType
  <2>3. \A u \in Threads : plan'[u] = plan[u] \/ plan'[u] \in heap
    BY <1>2 DEF Compile, TypeOK
  <2>4. heap' \subseteq heap /\ handed' = handed
    BY <1>2 DEF Compile
  <2>5. QED
    BY <2>1, <2>2, <2>3, <2>4
<1>3. ASSUME NEW t \in Threads, Reserve(t)
      PROVE  HandedOutIsPublished'
  BY <1>0, <1>3 DEF Reserve
<1>4. ASSUME NEW t \in Threads, Publish(t)
      PROVE  HandedOutIsPublished'
  <2>1. CASE UNCHANGED <<codec, plan>> /\ handed' \subseteq handed \cup Entries
    BY <1>0, <1>4, <2>1 DEF Publish
  <2>2. CASE Publication(t)
    <3> DEFINE e == [artifact |-> art[t], plan |-> plan[t]]
    <3>1. pc[t] = "publish" /\ heap' = heap
      BY <1>4 DEF Publish
    <3>2. Entries' = Entries \cup {e} /\ handed' = handed \cup {e}
      BY <2>2, <3>1, PublicationEntries DEF Publication
    <3>3. plan[t] \in Plans /\ e.plan = plan[t]
      BY <3>1 DEF LocalsOK
    <3>4. plan' = [plan EXCEPT ![t] = NoPlan] /\ plan \in [Threads -> Plans \cup {NoPlan}]
      BY <2>2 DEF Publication, TypeOK
    <3>5. \A u \in Threads : plan'[u] # plan[t]
      BY <3>3, <3>4 DEF OneOwner
    <3>6. \A f \in Entries : f.plan \in Plans
      BY EntriesType
    <3>7. \A u \in Threads : \A f \in Entries : f.plan # plan'[u]
      BY <3>4, <3>6
    <3>8. plan[t] \notin heap
      BY <3>3 DEF OneOwner
    <3>9. QED
      BY <3>1, <3>2, <3>3, <3>5, <3>7, <3>8
  <2>3. QED
    BY <1>4, <2>1, <2>2 DEF Publish, Found
<1>5. ASSUME NEW t \in Threads, Cleanup(t)
      PROVE  HandedOutIsPublished'
  <2>1. Entries' = Entries /\ handed' = handed
    BY <1>0, <1>5 DEF Cleanup
  <2>2. \A e \in Entries : e.plan \in Plans
    BY EntriesType
  <2>3. \A u \in Threads : plan'[u] \in {plan[u], NoPlan}
    BY <1>5 DEF Cleanup, TypeOK
  <2>4. heap' \subseteq heap \cup {plan[t]}
    BY <1>5 DEF Cleanup
  <2>5. QED
    BY <2>1, <2>2, <2>3, <2>4
<1>6. CASE FreeCodec
  <2>1. Entries' = {} /\ handed' = {}
    BY <1>6 DEF FreeCodec, Entries
  <2>2. QED
    BY <2>1
<1>7. QED
  BY <1>1, <1>2, <1>3, <1>4, <1>5, <1>6 DEF Next, Step

(* No plan is lost: it moves between heap, calls and table.                  *)
LEMMA NoLeakStep ==
  ASSUME TypeOK, LocalsOK, NoLeak, Next
  PROVE  NoLeak'
<1> USE CacheAssumption DEF GoTo, codec
<1> DEFINE Held == {plan[u] : u \in Threads} \ {NoPlan}
           Published == {e.plan : e \in Entries}
<1>0. Plans = heap \cup Published \cup Held /\ heap \subseteq Plans
  BY DEF NoLeak, TypeOK
<1>1. spare' = Cardinality({u \in Threads : reserved[u]}')
  BY SpareStep DEF Reserving
<1>2. \A u \in Threads : pc'[u] = "idle" => plan'[u] = NoPlan /\ ~reserved'[u]
  BY LocalsStep DEF LocalsOK
<1>3. SUFFICES Plans = heap' \cup Published' \cup Held'
  BY <1>1, <1>2 DEF NoLeak
<1>4. plan \in [Threads -> Plans \cup {NoPlan}]
  BY DEF TypeOK
<1>5. ASSUME table' = table
      PROVE  Published' = Published
  BY <1>5 DEF Entries
<1>6. ASSUME NEW t \in Threads, NEW a \in Artifacts, Lookup(t, a)
      PROVE  Plans = heap' \cup Published' \cup Held'
  <2>1. UNCHANGED <<heap, plan, table>>
    BY <1>6 DEF Lookup
  <2>2. Held' = Held
    BY <2>1
  <2>3. QED
    BY <1>0, <1>5, <2>1, <2>2
<1>7. ASSUME NEW t \in Threads, Compile(t)
      PROVE  Plans = heap' \cup Published' \cup Held'
  <2>1. Published' = Published
    BY <1>5, <1>7 DEF Compile
  <2>2. CASE UNCHANGED <<heap, plan>>
    BY <1>0, <2>1, <2>2
  <2>3. ASSUME NEW p \in heap, heap' = heap \ {p}, plan' = [plan EXCEPT ![t] = p]
        PROVE  Plans = heap' \cup Published' \cup Held'
    <3>1. plan[t] = NoPlan
      BY <1>7 DEF Compile, LocalsOK
    <3>2. p \in Plans /\ p # NoPlan
      BY <1>0, <2>3
    <3>3. Held' = Held \cup {p}
      BY <1>4, <2>3, <3>1, <3>2
    <3>4. QED
      BY <1>0, <2>1, <2>3, <3>2, <3>3
  <2>4. QED
    BY <1>7, <2>2, <2>3 DEF Compile
<1>8. ASSUME NEW t \in Threads, Reserve(t)
      PROVE  Plans = heap' \cup Published' \cup Held'
  BY <1>0, <1>5, <1>8 DEF Reserve
<1>9. ASSUME NEW t \in Threads, Publish(t)
      PROVE  Plans = heap' \cup Published' \cup Held'
  <2>1. CASE UNCHANGED <<codec, plan>>
    BY <1>0, <1>5, <1>9, <2>1 DEF Publish
  <2>2. CASE Publication(t)
    <3>1. pc[t] = "publish" /\ heap' = heap
      BY <1>9 DEF Publish
    <3>2. plan[t] \in Plans /\ plan' = [plan EXCEPT ![t] = NoPlan]
      BY <2>2, <3>1 DEF LocalsOK, Publication
    <3>3. Published' = Published \cup {plan[t]}
      <4> DEFINE e == [artifact |-> art[t], plan |-> plan[t]]
      <4>1. Entries' = Entries \cup {e} /\ e.plan = plan[t]
        BY <2>2, <3>1, PublicationEntries
      <4>2. QED
        BY <4>1, Zenon
    <3>4. Held \subseteq Held' \cup {plan[t]} /\ Held' \subseteq Held
      BY <1>4, <3>2
    <3>5. QED
      BY <1>0, <3>1, <3>2, <3>3, <3>4
  <2>3. QED
    BY <1>9, <2>1, <2>2 DEF Publish
<1>10. ASSUME NEW t \in Threads, Cleanup(t)
       PROVE  Plans = heap' \cup Published' \cup Held'
  <2>1. Published' = Published
    BY <1>5, <1>10 DEF Cleanup
  <2>2. Held \subseteq Held' \cup ({plan[t]} \ {NoPlan}) /\ Held' \subseteq Held
    BY <1>4, <1>10 DEF Cleanup
  <2>3. heap' = heap \cup ({plan[t]} \ {NoPlan}) /\ {plan[t]} \ {NoPlan} \subseteq Plans
    BY <1>4, <1>10 DEF Cleanup
  <2>4. QED
    BY <1>0, <2>1, <2>2, <2>3
<1>11. CASE FreeCodec
  <2>1. heap' = heap \cup Published /\ Held' = Held /\ Published' = {}
    BY <1>11 DEF FreeCodec, Entries
  <2>2. QED
    BY <1>0, <2>1
<1>12. QED
  BY <1>6, <1>7, <1>8, <1>9, <1>10, <1>11 DEF Next, Step

(* The initial state satisfies the inductive invariant. *)
LEMMA InvInit == Init => Inv
<1> SUFFICES ASSUME Init PROVE Inv
  OBVIOUS
<1> USE CacheAssumption DEF Init
<1>0. Entries = {}
  BY DEF Entries
<1>1. TypeOK
  <2>1. << >> \in Seq([artifact : Artifacts, plan : Plans]) /\ Len(<< >>) = 0
    OBVIOUS
  <2>2. table \in Seq([artifact : Artifacts, plan : Plans]) /\ Len(table) <= MaxPrepared
    BY <2>1
  <2>3. QED
    BY <2>2 DEF TypeOK
<1>2. LocalsOK /\ OneOwner /\ TableBacked
  BY DEF LocalsOK, OneOwner, TableBacked
<1>3. OnePlanPerArtifact /\ HandedOutIsPublished
  BY <1>0 DEF OnePlanPerArtifact, HandedOutIsPublished
<1>4. NoLeak
  <2>1. {t \in Threads : reserved[t]} = {}
    OBVIOUS
  <2>2. spare = Cardinality({t \in Threads : reserved[t]})
    BY <2>1, FS_EmptySet
  <2>3. QED
    BY <1>0, <2>2 DEF NoLeak
<1>5. QED
  BY <1>1, <1>2, <1>3, <1>4 DEF Inv

(* Every step, and stuttering, keeps the inductive invariant. *)
LEMMA InvNext == Inv /\ [Next]_vars => Inv'
<1> SUFFICES ASSUME Inv, [Next]_vars PROVE Inv'
  OBVIOUS
<1>1. CASE Next
  <2>1. TypeOK' /\ LocalsOK' /\ TableBacked'
    BY <1>1, TypeStep, LocalsStep, BackedStep DEF Inv
  <2>2. OneOwner' /\ OnePlanPerArtifact'
    BY <1>1, OwnerStep, UniqueStep DEF Inv
  <2>3. HandedOutIsPublished' /\ NoLeak'
    BY <1>1, HandedOutStep, NoLeakStep DEF Inv
  <2>4. QED
    BY <2>1, <2>2, <2>3 DEF Inv
<1>2. CASE UNCHANGED vars
  BY <1>2 DEF vars, Inv, TypeOK, LocalsOK, OneOwner, OnePlanPerArtifact,
              HandedOutIsPublished, NoLeak, TableBacked, Entries
<1>3. QED
  BY <1>1, <1>2

(* The inductive invariant holds throughout. *)
THEOREM CacheInvariant == Spec => []Inv
<1>1. QED
  BY InvInit, InvNext, PTL DEF Spec

(* prepared_messages is never overrun, for any number of threads that saw    *)
(* room in it when they began.                                               *)
THEOREM CacheTypes == Spec => []TypeOK
<1>1. Inv => TypeOK
  BY DEF Inv
<1>2. QED
  BY <1>1, CacheInvariant, PTL

(* However many calls miss on an artifact at once, it gets one plan.         *)
THEOREM CacheOnePlanPerArtifact == Spec => []OnePlanPerArtifact
<1>1. Inv => OnePlanPerArtifact
  BY DEF Inv
<1>2. QED
  BY <1>1, CacheInvariant, PTL

(* Every plan acquire has returned stays published and allocated until the   *)
(* codec is freed, whatever losing calls free.                               *)
THEOREM CacheHandedOutIsPublished == Spec => []HandedOutIsPublished
<1>1. Inv => HandedOutIsPublished
  BY DEF Inv
<1>2. QED
  BY <1>1, CacheInvariant, PTL

(* No error path and no lost race leaks a plan or a table.                   *)
THEOREM CacheNoLeak == Spec => []NoLeak
<1>1. Inv => NoLeak
  BY DEF Inv
<1>2. QED
  BY <1>1, CacheInvariant, PTL

(* No plan is published into a table without storage, although whether to    *)
(* reserve it was decided under an earlier lock.                             *)
THEOREM CacheTableBacked == Spec => []TableBacked
<1>1. Inv => TableBacked
  BY DEF Inv
<1>2. QED
  BY <1>1, CacheInvariant, PTL

(* The running totals of the field counts go on with the table. *)
LEMMA BudgetStep ==
  ASSUME Inv, FieldBudget, [Next]_vars
  PROVE  FieldBudget'
<1>1. table \in Seq([artifact : Artifacts, plan : Plans]) /\ fieldCount \in Nat /\ Len(table) \in Nat
  BY DEF Inv, TypeOK
<1>2. CASE UNCHANGED <<table, fieldCount>>
  BY <1>2 DEF FieldBudget
<1>3. ASSUME NEW t \in Threads, art[t] \in Artifacts, Fits(art[t]), Publication(t)
      PROVE  FieldBudget'
  <2> DEFINE e == [artifact |-> art[t], plan |-> plan[t]]
             n == Len(table) + 1
             sum == fieldCount + Fields[art[t]]
  <2>1. PICK total \in [0..Len(table) -> 0..fieldCount] :
          /\ total[0] = 0 /\ total[Len(table)] = fieldCount
          /\ \A i \in DOMAIN table : total[i] = total[i - 1] + Fields[table[i].artifact]
    BY DEF FieldBudget
  <2>2. Fields[art[t]] \in Nat /\ MaxFields \in Nat
    BY <1>3, CacheAssumption
  <2>3. sum \in Nat /\ fieldCount <= sum /\ sum <= MaxFields
    BY <1>1, <1>3, <2>2 DEF Fits
  <2>4. table' = Append(table, e) /\ fieldCount' = sum
    BY <1>3 DEF Publication
  <2>5. Len(table') = n /\ n \in Nat /\ DOMAIN table = 1..n - 1 /\ DOMAIN table' = 1..n
        /\ table'[n] = e /\ (\A i \in 1..n - 1 : table'[i] = table[i])
    BY <1>1, <2>4
  <2> DEFINE next == [i \in 0..n |-> IF i = n THEN sum ELSE total[i]]
  <2>6. next \in [0..Len(table') -> 0..fieldCount']
    BY <1>1, <2>1, <2>3, <2>4, <2>5
  <2>7. next[0] = 0 /\ next[Len(table')] = fieldCount'
    BY <1>1, <2>1, <2>4, <2>5
  <2>8. ASSUME NEW i \in DOMAIN table'
        PROVE  next[i] = next[i - 1] + Fields[table'[i].artifact]
    <3>1. i \in 1..n /\ i - 1 \in 0..n - 1 /\ next[i - 1] = total[i - 1]
      BY <1>1, <2>5
    <3>2. CASE i = n
      <4>1. next[i] = sum /\ next[i - 1] = fieldCount /\ table'[i].artifact = art[t]
        <5>1. next[n] = sum /\ total[n - 1] = fieldCount
          BY <1>1, <2>1, <2>5
        <5>2. table'[n].artifact = art[t]
          BY <2>5
        <5> QED
          BY <3>1, <3>2, <5>1, <5>2
      <4> QED
        BY <4>1
    <3>3. CASE i # n
      <4>1. i \in DOMAIN table /\ next[i] = total[i] /\ table'[i] = table[i]
        BY <1>1, <2>5, <3>1, <3>3
      <4> QED
        BY <2>1, <3>1, <4>1
    <3> QED
      BY <3>2, <3>3
  <2> HIDE DEF next
  <2>9. \E sums \in [0..Len(table') -> 0..fieldCount'] :
          /\ sums[0] = 0 /\ sums[Len(table')] = fieldCount'
          /\ \A i \in DOMAIN table' : sums[i] = sums[i - 1] + Fields[table'[i].artifact]
    BY <2>6, <2>7, <2>8
  <2> QED
    BY <2>3, <2>4, <2>9 DEF FieldBudget
<1>4. CASE table' = << >> /\ fieldCount' = 0
  <2> DEFINE zero == [i \in {0} |-> 0]
  <2>1. Len(table') = 0 /\ DOMAIN table' = {} /\ 0..Len(table') = {0} /\ 0..fieldCount' = {0}
    BY <1>4
  <2>2. zero \in [0..Len(table') -> 0..fieldCount'] /\ zero[0] = 0
    BY <2>1
  <2> HIDE DEF zero
  <2> QED
    BY <1>4, <2>1, <2>2, CacheAssumption DEF FieldBudget
<1>5. \/ UNCHANGED <<table, fieldCount>>
      \/ \E t \in Threads : pc[t] = "publish" /\ Fits(art[t]) /\ Publication(t)
      \/ table' = << >> /\ fieldCount' = 0
  BY DEF Next, Step, Lookup, Compile, Reserve, Publish, Cleanup, FreeCodec, codec, vars
<1>6. \A t \in Threads : pc[t] = "publish" => art[t] \in Artifacts
  BY DEF Inv, LocalsOK
<1> QED
  BY <1>2, <1>3, <1>4, <1>5, <1>6

(* prepared_field_count is the exact sum over the published plans and stays  *)
(* within DATA_BIND_MESSAGE_PLAN_MAX_PREPARED_FIELDS, although calls measure *)
(* their plans before they hold the lock.                                    *)
THEOREM CacheFieldBudget == Spec => []FieldBudget
<1>1. Init => FieldBudget
  <2> SUFFICES ASSUME Init PROVE FieldBudget
    OBVIOUS
  <2> DEFINE zero == [i \in {0} |-> 0]
  <2>1. table = << >> /\ fieldCount = 0
    BY DEF Init
  <2>2. Len(table) = 0 /\ DOMAIN table = {} /\ 0..Len(table) = {0} /\ 0..fieldCount = {0}
    BY <2>1
  <2>3. zero \in [0..Len(table) -> 0..fieldCount] /\ zero[0] = 0
    BY <2>2
  <2> HIDE DEF zero
  <2> QED
    BY <2>1, <2>2, <2>3, CacheAssumption DEF FieldBudget
<1>2. Inv /\ FieldBudget /\ [Next]_vars => FieldBudget'
  BY BudgetStep
<1> QED
  BY <1>1, <1>2, CacheInvariant, PTL DEF Spec

=============================================================================
