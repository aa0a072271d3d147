---------------------------- MODULE JinjaLoading ----------------------------
(***************************************************************************)
(* Named templates of the Jinja engine: the environment's cache of         *)
(* compiled templates with their reference counts, loading through the     *)
(* host's loader (jinja_cmeta_environment.c), and a render that includes,  *)
(* imports and extends other templates (jinja_cmeta_provider.c).           *)
(*                                                                         *)
(* A source is its length and the references its body executes, in order;  *)
(* what else a body does can only fail.  The loader may answer differently *)
(* each time.  64-bit source hashes are taken not to collide, so the cache *)
(* key (name, length, hash) is (name, source).  An environment is used on  *)
(* one thread without callback reentry, as its header asks: while a render *)
(* runs, only the render calls it.                                         *)
(***************************************************************************)
EXTENDS Integers, Sequences, FiniteSets, Functions

CONSTANTS
  Names,
  Sources,        \* [len, body]; body is a sequence of References
  Loader,         \* Names -> the sources the loader may return for it
  Templates,      \* the compiled templates that may be alive at once
  MaxCached,      \* JINJA_CMETA_MAX_CACHED_TEMPLATES
  MaxTemplates,   \* max_loaded_templates
  MaxBytes,       \* max_loaded_source_bytes
  MaxDepth,       \* max_render_depth
  MaxHandles,     \* references a host holds at a time
  Null

References ==
  [op : {"include"}, names : Seq(Names), ignoreMissing : BOOLEAN] \cup
  [op : {"import"}, names : [1..1 -> Names], withContext : BOOLEAN] \cup
  [op : {"extends"}, names : [1..1 -> Names]]

ASSUME LoadingAssumption ==
  /\ \A s \in Sources : s.len \in Nat /\ s.body \in Seq(References)
  /\ Loader \in [Names -> SUBSET Sources]
  /\ {MaxTemplates, MaxBytes, MaxDepth, MaxHandles} \subseteq Nat
  /\ MaxCached \in Nat \ {0}
  /\ Null \notin Templates

VARIABLES
  heap,       \* live templates: t -> [name, source, references]
  cache,      \* env->cache, oldest first
  handles,    \* references the host owns: [Templates -> Nat]
  leases,     \* loader leases not yet released
  call,       \* the jinja_cmeta_env_load_bounded in progress
  instances,  \* of the render; the first is its root
  stack,      \* of jinja_execute_template activations
  bytes       \* shared.loaded_source_bytes

vars == <<heap, cache, handles, leases, call, instances, stack, bytes>>

NoCall == [at |-> "idle"]

Init ==
  /\ heap = << >> /\ cache = << >>
  /\ handles = [t \in Templates |-> 0]
  /\ leases = 0 /\ call = NoCall
  /\ instances = << >> /\ stack = << >> /\ bytes = 0

Idle == call = NoCall /\ stack = << >>

---------------------------------------------------------------------------
(* Reference counts.                                                       *)

Without(h, t) == [u \in DOMAIN h \ {t} |-> h[u]]

(* jinja_cmeta_release: a template that was never cached has count 0 and   *)
(* one owner.                                                              *)
Drop(h, t) ==
  IF h[t].references <= 1 THEN Without(h, t)
  ELSE [h EXCEPT ![t].references = @ - 1]

(* Release of every template of a sequence, front to back. *)
DropAll(h, s) ==
  LET after[k \in 0..Len(s)] == IF k = 0 THEN h ELSE Drop(after[k - 1], s[k])
  IN  after[Len(s)]

Spare == DOMAIN heap # Templates

Fresh == CHOOSE t \in Templates : t \notin DOMAIN heap

(* jinja_env_compile, count still 0 *)
Compiled(name, source) ==
  [t \in DOMAIN heap \cup {Fresh} |->
     IF t = Fresh THEN [name |-> name, source |-> source, references |-> 0] ELSE heap[t]]

(* jinja_env_cache_find *)
Cached(name, source) ==
  {t \in {cache[k] : k \in DOMAIN cache} : heap[t].name = name /\ heap[t].source = source}

SameName(name) == {k \in DOMAIN cache : heap[cache[k]].name = name}

(* jinja_env_cache_add: the entry of that name is replaced, or the oldest  *)
(* evicted from a full cache.                                              *)
Evicted(name) ==
  IF SameName(name) # {} THEN {cache[k] : k \in SameName(name)}
  ELSE IF Len(cache) = MaxCached THEN {cache[1]} ELSE {}

CacheAdd(name, t) ==
  IF SameName(name) # {} THEN [k \in DOMAIN cache |-> IF k \in SameName(name) THEN t ELSE cache[k]]
  ELSE Append(IF Len(cache) = MaxCached THEN Tail(cache) ELSE cache, t)

(* Fault: the evicted template keeps the cache's reference. *)
HeapAddLeak(name, source, t) == [Compiled(name, source) EXCEPT ![t].references = 2]

HeapAdd(name, source, t) ==
  LET h == [Compiled(name, source) EXCEPT ![t].references = 2]
  IN  IF Evicted(name) = {} THEN h ELSE Drop(h, CHOOSE u \in Evicted(name) : TRUE)

---------------------------------------------------------------------------
(* The host between renders.                                               *)

Owned == SumFunction(handles)

(* jinja_cmeta_env_compile; a failure changes nothing *)
EnvCompile(n, s) ==
  /\ Idle /\ Spare /\ Owned < MaxHandles
  /\ heap' = Compiled(n, s)
  /\ handles' = [handles EXCEPT ![Fresh] = 1]
  /\ UNCHANGED <<cache, leases, call, instances, stack, bytes>>

(* jinja_cmeta_env_load *)
EnvLoad(n) ==
  /\ Idle /\ Owned < MaxHandles
  /\ call' = [at |-> "loader", name |-> n, remaining |-> MaxBytes]
  /\ UNCHANGED <<heap, cache, handles, leases, instances, stack, bytes>>

(* jinja_cmeta_release *)
Release(t) ==
  /\ Idle /\ handles[t] > 0
  /\ heap' = Drop(heap, t)
  /\ handles' = [handles EXCEPT ![t] = @ - 1]
  /\ UNCHANGED <<cache, leases, call, instances, stack, bytes>>

(* jinja_cmeta_env_cache_clear, which is also what jinja_cmeta_env_destroy  *)
(* does to templates.                                                       *)
CacheClear ==
  /\ Idle
  /\ heap' = DropAll(heap, cache) /\ cache' = << >>
  /\ UNCHANGED <<handles, leases, call, instances, stack, bytes>>

(* jinja_cmeta_render: the root instance borrows the host's reference. *)
Render(t) ==
  /\ Idle /\ handles[t] > 0
  /\ instances' = <<[templ |-> t, cacheable |-> FALSE, state |-> "NONE",
                     parent |-> 0, chainRoot |-> 1, runs |-> 1]>>
  /\ stack' = <<[inst |-> 1, pc |-> 1, candidate |-> 1]>>
  /\ UNCHANGED <<heap, cache, handles, leases, call, bytes>>

---------------------------------------------------------------------------
(* jinja_cmeta_env_load_bounded, for the host (no render) or a render.      *)

Answer(t, missing) ==
  IF stack = << >> THEN NoCall
  ELSE [at |-> "done", name |-> call.name, templ |-> t, missing |-> missing]

(* loader->load fails and grants no lease. *)
LoaderFails ==
  /\ call.at = "loader"
  /\ \E missing \in BOOLEAN : call' = Answer(Null, missing)
  /\ UNCHANGED <<heap, cache, handles, leases, instances, stack, bytes>>

LoaderGrants ==
  /\ call.at = "loader"
  /\ \E s \in Loader[call.name] :
       call' = [at |-> "admit", name |-> call.name, remaining |-> call.remaining, source |-> s]
  /\ leases' = leases + 1
  /\ UNCHANGED <<heap, cache, handles, instances, stack, bytes>>

WithLease(t) == [at |-> "release", name |-> call.name, source |-> call.source, templ |-> t]

Admitted == call.source.len <= MaxBytes /\ call.source.len <= call.remaining

(* Fault: a source over the budget is refused without its release. *)
RefuseLeak ==
  /\ call.at = "admit"
  /\ IF Admitted THEN call' = WithLease(Null) ELSE call' = Answer(Null, FALSE)
  /\ UNCHANGED <<heap, cache, handles, leases, instances, stack, bytes>>

(* An invalid source view, a source over the budget, or one that is not     *)
(* cached and does not compile.                                             *)
Refuse ==
  /\ call.at = "admit"
  /\ call' = WithLease(Null)
  /\ UNCHANGED <<heap, cache, handles, leases, instances, stack, bytes>>

Hit ==
  /\ call.at = "admit" /\ Admitted
  /\ \E t \in Cached(call.name, call.source) :
       /\ heap' = [heap EXCEPT ![t].references = @ + 1]
       /\ call' = WithLease(t)
  /\ UNCHANGED <<cache, handles, leases, instances, stack, bytes>>

Miss ==
  /\ call.at = "admit" /\ Admitted /\ Cached(call.name, call.source) = {} /\ Spare
  /\ heap' = HeapAdd(call.name, call.source, Fresh)
  /\ cache' = CacheAdd(call.name, Fresh)
  /\ call' = WithLease(Fresh)
  /\ UNCHANGED <<handles, leases, instances, stack, bytes>>

(* loader->release, and the template goes to whoever asked for it. *)
ReleaseLease ==
  /\ call.at = "release"
  /\ leases' = leases - 1
  /\ call' = Answer(call.templ, FALSE)
  /\ handles' = IF stack = << >> /\ call.templ # Null
                THEN [handles EXCEPT ![call.templ] = @ + 1] ELSE handles
  /\ UNCHANGED <<heap, cache, instances, stack, bytes>>

---------------------------------------------------------------------------
(* The render.                                                              *)

Top == stack[Len(stack)]
Current == instances[Top.inst]
Body == heap[Current.templ].source.body
Ref == Body[Top.pc]

Running == stack # << >> /\ call = NoCall
AtReference(op) == Running /\ Top.pc <= Len(Body) /\ Ref.op = op

(* Every jinja_execute_instance but the root's execution adds to call_depth. *)
DepthReached == Len(stack) - 1 >= MaxDepth

(* The templates a render has a reference to: those of all its instances    *)
(* but the root, whose template is the host's.                              *)
Loaded == [k \in 1..Len(instances) - 1 |-> instances[k + 1].templ]

(* jinja_provider_destroy *)
EndRender(h) ==
  /\ heap' = DropAll(h, Loaded)
  /\ instances' = << >> /\ stack' = << >> /\ bytes' = 0 /\ call' = NoCall
  /\ UNCHANGED <<cache, handles, leases>>

Advance(st) == [st EXCEPT ![Len(st)].pc = @ + 1, ![Len(st)].candidate = 1]

Modules(n) ==
  {k \in DOMAIN instances : instances[k].cacheable /\ heap[instances[k].templ].name = n}

(* jinja_load_instance once no module of the render answers *)
LoadInstance(n) ==
  IF Len(instances) - 1 >= MaxTemplates THEN EndRender(heap)
  ELSE /\ call' = [at |-> "loader", name |-> n, remaining |-> MaxBytes - bytes]
       /\ UNCHANGED <<heap, cache, handles, leases, instances, stack, bytes>>

Skip == stack' = Advance(stack) /\ UNCHANGED <<heap, cache, handles, leases, call, instances, bytes>>

(* jinja_execute_include: the next candidate *)
Include ==
  /\ AtReference("include")
  /\ IF DepthReached THEN EndRender(heap)
     ELSE IF Top.candidate <= Len(Ref.names) THEN LoadInstance(Ref.names[Top.candidate])
     ELSE IF Ref.ignoreMissing THEN Skip ELSE EndRender(heap)

(* jinja_execute_reference for import and from: a module is reused, unless  *)
(* it is still initialising (a circular import).                            *)
Import ==
  /\ AtReference("import")
  /\ IF Ref.withContext \/ Modules(Ref.names[1]) = {} THEN LoadInstance(Ref.names[1])
     ELSE IF \A k \in Modules(Ref.names[1]) : instances[k].state = "READY" THEN Skip ELSE EndRender(heap)

(* The instances from k up its parents: the least set that has k and the    *)
(* parents of its members.                                                  *)
Chain(k) ==
  {i \in DOMAIN instances :
     \A S \in SUBSET DOMAIN instances :
       k \in S /\ (\A j \in S : instances[j].parent \in S \cup {0}) => i \in S}

ChainNames(k) == {heap[instances[i].templ].name : i \in Chain(k)}

(* Fault: only the current template is compared with the new parent. *)
CircularHere(n) == heap[Current.templ].name = n

Circular(n) == n \in ChainNames(Current.chainRoot)

(* jinja_execute_reference for extends *)
Extends ==
  /\ AtReference("extends")
  /\ IF Current.parent # 0 \/ Circular(Ref.names[1]) THEN EndRender(heap)
     ELSE LoadInstance(Ref.names[1])

(* Fault: a missing candidate is asked for again. *)
NextCandidateSame == stack

NextCandidate == [stack EXCEPT ![Len(stack)].candidate = @ + 1]

(* The load failed: only a missing candidate of an include is passed over. *)
NotLoaded ==
  /\ call.at = "done" /\ call.templ = Null
  /\ IF Ref.op = "include" /\ call.missing
     THEN /\ stack' = NextCandidate /\ call' = NoCall
          /\ UNCHANGED <<heap, cache, handles, leases, instances, bytes>>
     ELSE EndRender(heap)

(* No memory for the instance, or a module too deep to execute. *)
NoInstance ==
  /\ call.at = "done" /\ call.templ # Null
  /\ EndRender(Drop(heap, call.templ))

NewInstance(state, chainRoot, runs) ==
  [templ |-> call.templ, cacheable |-> Ref.op = "import" /\ ~Ref.withContext,
   state |-> state, parent |-> 0, chainRoot |-> chainRoot, runs |-> runs]

Frame(k) == [inst |-> k, pc |-> 1, candidate |-> 1]

Instance ==
  /\ call.at = "done" /\ call.templ # Null
  /\ call' = NoCall
  /\ bytes' = bytes + heap[call.templ].source.len
  /\ LET k == Len(instances) + 1 IN
     \/ /\ Ref.op = "include"
        /\ instances' = Append(instances, NewInstance("NONE", k, 1))
        /\ stack' = Append(stack, Frame(k))
     \/ /\ Ref.op = "import" /\ ~DepthReached
        /\ instances' = Append(instances, NewInstance("INITIALIZING", k, 1))
        /\ stack' = Append(stack, Frame(k))
     \/ /\ Ref.op = "extends"
        /\ instances' = Append([instances EXCEPT ![Top.inst].parent = k],
                               NewInstance("NONE", Current.chainRoot, 0))
        /\ stack' = Advance(stack)
  /\ UNCHANGED <<heap, cache, handles, leases>>

(* jinja_execute_template: after the body, the parent it has declared *)
RunParent ==
  /\ Running /\ Top.pc = Len(Body) + 1 /\ Current.parent # 0
  /\ IF DepthReached THEN EndRender(heap)
     ELSE /\ stack' = Append(stack, Frame(Current.parent))
          /\ instances' = [instances EXCEPT ![Current.parent].runs = @ + 1]
          /\ UNCHANGED <<heap, cache, handles, leases, call, bytes>>

Finished == Top.pc = Len(Body) + (IF Current.parent = 0 THEN 1 ELSE 2)

Return ==
  /\ Running /\ Finished
  /\ IF Len(stack) = 1 THEN EndRender(heap)
     ELSE /\ stack' = Advance(SubSeq(stack, 1, Len(stack) - 1))
          /\ instances' = [instances EXCEPT ![Top.inst].state =
                             IF @ = "INITIALIZING" THEN "READY" ELSE @]
          /\ UNCHANGED <<heap, cache, handles, leases, call, bytes>>

(* Anything else a body does may fail, and ends the render. *)
RenderError == Running /\ EndRender(heap)

Host ==
  \/ \E n \in Names : EnvLoad(n) \/ \E s \in Loader[n] : EnvCompile(n, s)
  \/ \E t \in Templates : Release(t) \/ Render(t)
  \/ CacheClear

Load == LoaderFails \/ LoaderGrants \/ Refuse \/ Hit \/ Miss \/ ReleaseLease

Step ==
  \/ Include \/ Import \/ Extends \/ NotLoaded \/ NoInstance \/ Instance
  \/ RunParent \/ Return \/ RenderError

Next == Host \/ Load \/ Step

(* A call runs on its caller's thread until it returns, and the loader      *)
(* answers; the host may stop at any time.                                  *)
Spec == Init /\ [][Next]_vars /\ WF_vars(Load \/ Step)

---------------------------------------------------------------------------
(* Properties.                                                              *)

Count(s, t) == Cardinality({k \in DOMAIN s : s[k] = t})

Holders(t) ==
  handles[t] + Count(cache, t) + Count(Loaded, t)
    + (IF call.at \in {"release", "done"} /\ call.templ = t THEN 1 ELSE 0)

(* A template is alive exactly while the cache, the host, a render or a     *)
(* load in progress refers to it, and its count is the number of those      *)
(* references (or 0, if it was compiled directly and has its one owner):    *)
(* nothing is used after it was freed, and nothing leaks, however loads,    *)
(* evictions, renders and their failures follow one another.                *)
ReferencesExact ==
  \A t \in Templates :
    IF t \in DOMAIN heap
    THEN heap[t].references \in (IF Holders(t) = 1 THEN {0, 1} ELSE {Holders(t)} \ {0})
    ELSE Holders(t) = 0

(* Each successful loader->load is followed by one release before the call  *)
(* returns; what a load delivers was compiled from the source the loader    *)
(* gave this time; a render never uses more source bytes than its budget,   *)
(* so the budget left never wraps around.                                   *)
LoadsAccounted ==
  /\ leases \in {0, 1} /\ (call.at \in {"idle", "done"} => leases = 0)
  /\ call.at = "release" /\ call.templ # Null =>
       heap[call.templ].name = call.name /\ heap[call.templ].source = call.source
  /\ bytes <= MaxBytes /\ Len(instances) <= MaxTemplates + 1

(* Within a render a name has at most one module without context, every     *)
(* instance's body is executed at most once, and no template is its own     *)
(* ancestor through extends.                                                *)
InstancesOnce ==
  /\ \A n \in Names : Cardinality(Modules(n)) <= 1
  /\ \A k \in DOMAIN instances : instances[k].runs <= 1
  /\ \A j, k \in DOMAIN instances :
       j # k /\ instances[j].chainRoot = instances[k].chainRoot =>
         heap[instances[j].templ].name # heap[instances[k].templ].name

(* Every render ends, however its templates include, import and extend one  *)
(* another.                                                                 *)
RenderEnds == stack # << >> ~> stack = << >>

============================================================================
