-------------------------- MODULE CronRunnerProofs --------------------------
(***************************************************************************)
(* Proofs about CronRunner, for every set of schedules, every length of a   *)
(* minute and every range of times, however the clock moves among them.     *)
(***************************************************************************)
EXTENDS CronRunner, WellFoundedInduction, TLAPS

(***************************************************************************)
(* The inductive invariant.                                                *)
(***************************************************************************)

Threads(labels) == [at : labels, now : Nat, check : Int, upto : Nat]

HostLabels == {"idle", "advance", "scan", "start", "create", "join",
               "joinDestroy", "destroyed"}
WorkerLabels == {"none", "top", "wait", "read", "advance", "scan"}

Types ==
  /\ fires \in Schedules
  /\ clock \in Instants
  /\ active \in BOOLEAN /\ stopping \in BOOLEAN /\ signalled \in BOOLEAN
  /\ host \in Threads(HostLabels)
  /\ worker \in Threads(WorkerLabels)
  /\ fired \in [fires -> 0..2]

(* The cursor is unset or a whole minute that was named as a time. *)
Bounds ==
  /\ cursor \in Nat /\ cursor <= LastTick /\ cursor % Minute = 0
  /\ base \in Int /\ -Minute <= base /\ base <= LastTick

(* The time a thread has read or was given. *)
Reads ==
  /\ host.at \in {"advance", "start"} => host.now \in Instants
  /\ worker.at = "advance" => worker.now \in Instants

(* thread_active says that there is a worker, or is about to be one; only a *)
(* runner whose expression matches at all gets one, and only a host that    *)
(* then joins asks it to stop.                                              *)
Lifecycle ==
  /\ active <=> (worker.at # "none" \/ host.at = "create")
  /\ SingleWorker
  /\ host.at \in {"start", "create"} \/ worker.at # "none" => fires # {}
  /\ stopping /\ active => host.at \in {"join", "joinDestroy"}

(* A claimed window lies behind the cursor; two windows share no instant.   *)
Window(th) == th.at = "scan" => th.upto <= cursor
Apart(a, b) == \A m \in fires : ~(Pending(a, m) /\ Pending(b, m))
Windows == Window(host) /\ Window(worker) /\ Apart(host, worker)

(* What has fired, fired once, lies behind the cursor and in no window that *)
(* is still being scanned.                                                  *)
Settled ==
  \A m \in fires : fired[m] > 0 =>
    /\ fired[m] = 1 /\ m <= cursor
    /\ ~Pending(host, m) /\ ~Pending(worker, m)

IInv ==
  /\ Types /\ Bounds /\ Reads /\ Lifecycle
  /\ Windows /\ Settled /\ NoMissedMinute

---------------------------------------------------------------------------
(* Arithmetic of whole minutes.                                            *)

(* A non-empty set of naturals has a least element. *)
LEMMA LeastElement ==
  ASSUME NEW T, T \subseteq Nat, T # {}
  PROVE  \E x \in T : \A y \in T : x <= y
<1> DEFINE R == OpToRel(<, Nat)
<1>1. IsWellFoundedOn(R, Nat)
  BY NatLessThanWellFounded
<1>2. \E x \in T : \A y \in T : ~(<<y, x>> \in R)
  <2> HIDE DEF R
  <2> QED
    BY <1>1, WFMin
<1>3. PICK x \in T : \A y \in T : ~(<<y, x>> \in R)
  BY <1>2
<1>4. \A y \in T : x <= y
  <2> TAKE y \in T
  <2>1. x \in Nat /\ y \in Nat
    OBVIOUS
  <2>2. ~(y < x)
    BY <1>3, <2>1 DEF OpToRel
  <2> QED
    BY <2>1, <2>2
<1> QED
  BY <1>4

(* Division with remainder. *)
LEMMA DivMod ==
  ASSUME NEW M \in Nat \ {0}, NEW t \in Nat
  PROVE  t \div M \in Nat /\ t = M * (t \div M) + (t % M) /\ t % M \in 0..(M - 1)
OBVIOUS

(* Two different multiples of M are at least M apart. *)
LEMMA MultiplesApart ==
  ASSUME NEW M \in Nat \ {0}, NEW a \in Int, NEW b \in Int, M * a < M * b
  PROVE  M * a + M <= M * b
<1>1. a + 1 <= b
  OBVIOUS
<1>2. M * (a + 1) <= M * b
  BY <1>1
<1> QED
  BY <1>2

(* A multiple of M leaves no remainder. *)
LEMMA MultipleMod ==
  ASSUME NEW M \in Nat \ {0}, NEW k \in Nat
  PROVE  (M * k) % M = 0
<1> DEFINE t == M * k
           q == t \div M
           r == t % M
<1>1. t \in Nat
  OBVIOUS
<1>2. q \in Nat /\ t = M * q + r /\ r \in 0..(M - 1)
  BY <1>1, DivMod
<1> HIDE DEF q, r
<1>3. CASE r = 0
  BY <1>3 DEF r
<1>4. CASE r # 0
  <2>1. M * q < M * k
    BY <1>2, <1>4
  <2>2. M * q + M <= M * k
    BY <2>1, <1>2, MultiplesApart
  <2> QED
    BY <2>2, <1>2
<1> QED
  BY <1>3, <1>4

(* cron_floor_minute: a whole minute, not after its argument. *)
LEMMA FloorFacts ==
  ASSUME NEW t \in Nat
  PROVE  /\ FloorMinute(t) \in Nat /\ FloorMinute(t) <= t
         /\ FloorMinute(t) % Minute = 0
<1> USE ClockAssumption
<1>1. t \div Minute \in Nat /\ t = Minute * (t \div Minute) + (t % Minute)
      /\ t % Minute \in 0..(Minute - 1)
  BY DivMod
<1>2. FloorMinute(t) = Minute * (t \div Minute) /\ Minute * (t \div Minute) \in Nat
  BY <1>1 DEF FloorMinute
<1>3. FloorMinute(t) % Minute = 0
  BY <1>1, <1>2, MultipleMod
<1> QED
  BY <1>1, <1>2, <1>3

(* salts_cron_next: the first match strictly after t, Never when there is   *)
(* none.                                                                    *)
LEMMA CronNextFacts ==
  ASSUME fires \in Schedules, NEW t \in Int
  PROVE  /\ CronNext(t) = Never => \A m \in fires : m <= t
         /\ CronNext(t) # Never =>
              /\ CronNext(t) \in fires /\ t < CronNext(t)
              /\ \A m \in fires : t < m => CronNext(t) <= m
         /\ CronNext(t) \in Nat
         /\ fires \subseteq Nat \ {0}
<1> DEFINE later == {m \in fires : m > t}
<1>1. fires \subseteq {m \in Nat : m > 0 /\ m % Minute = 0}
  BY ScheduleAssumption
<1>2. CASE later = {}
  BY <1>1, <1>2 DEF CronNext, Never
<1>3. CASE later # {}
  <2>1. CronNext(t) = Min(later)
    BY <1>3 DEF CronNext
  <2>2. later \subseteq Nat
    BY <1>1
  <2>3. \E x \in later : \A y \in later : x <= y
    <3> HIDE DEF later
    <3> QED
      BY <1>3, <2>2, LeastElement
  <2>4. Min(later) \in later /\ \A y \in later : Min(later) <= y
    <3> HIDE DEF later
    <3> QED
      BY <2>3 DEF Min
  <2>5. PICK n : n = Min(later)
    OBVIOUS
  <2>6. n \in later /\ \A y \in later : n <= y
    BY <2>4, <2>5
  <2>7. CronNext(t) = n
    BY <2>1, <2>5
  <2> QED
    BY <1>1, <2>6, <2>7 DEF Never
<1> QED
  BY <1>2, <1>3

(* An expression that matches at all matches again after any time.          *)
LEMMA CronNextEndless ==
  ASSUME fires \in Schedules, fires # {}, clock \in Instants
  PROVE  CronNext(clock) # Never
<1>1. PICK m \in fires : m > LastTick
  BY EndlessAssumption
<1>2. m \in Nat /\ clock \in Nat /\ ~(m <= clock)
  BY <1>1, ScheduleAssumption, ClockAssumption DEF Instants
<1> QED
  BY <1>2, CronNextFacts

---------------------------------------------------------------------------
(* Each step keeps the invariant.                                          *)

LEMMA InitIInv == Init => IInv
<1> SUFFICES ASSUME Init PROVE IInv
  OBVIOUS
<1> USE DEF Init, Thread, Never
<1>1. Types
  <2>1. active \in BOOLEAN /\ stopping \in BOOLEAN /\ signalled \in BOOLEAN
    BY Zenon
  <2> QED
    BY <2>1, ClockAssumption DEF Types, Threads, HostLabels, WorkerLabels
<1>2. Bounds
  <2>1. 0 % Minute = 0
    BY ClockAssumption
  <2> QED
    BY <2>1, ClockAssumption DEF Bounds
<1>3. Reads /\ Lifecycle /\ Windows /\ Settled /\ NoMissedMinute
  <2>1. \A m \in fires : fired[m] = 0 /\ m \in Nat /\ ~(m <= 0)
    BY ScheduleAssumption
  <2> QED
    BY <2>1 DEF Reads, Lifecycle, SingleWorker, Windows, Window, Apart, Pending, Settled,
      NoMissedMinute
<1> QED
  BY <1>1, <1>2, <1>3 DEF IInv

(* Nothing the invariant says depends on what the clock shows. *)
LEMMA ClockMovesStep == IInv /\ ClockMoves => IInv'
BY DEF IInv, ClockMoves, Types, Bounds, Reads, Lifecycle, SingleWorker, Windows, Window,
   Apart, Settled, NoMissedMinute, Pending

(* A step that leaves cursor and history alone keeps what is said    *)
(* about them, whatever thread moves to a label other than scan from a      *)
(* label other than scan.                                                   *)
LEMMA QuietStep ==
  ASSUME IInv, UNCHANGED <<fires, cursor, fired, base>>,
         \/ UNCHANGED worker /\ host.at # "scan" /\ host'.at # "scan"
         \/ UNCHANGED host /\ worker.at # "scan" /\ worker'.at # "scan"
         \/ UNCHANGED host /\ UNCHANGED worker
  PROVE  (Bounds /\ Windows /\ Settled /\ NoMissedMinute)'
BY DEF IInv, Bounds, Windows, Window, Apart, Settled, NoMissedMinute, Pending

(* What the quiet steps have in common: it is enough to look at flags and   *)
(* labels.                                                                  *)
LEMMA HostMoves ==
  ASSUME IInv, UNCHANGED <<fires, clock, cursor, fired, base>>,
         host.at # "scan", host' \in Threads(HostLabels), host'.at # "scan",
         worker' = worker, (active <=> active'),
         active' \in BOOLEAN, stopping' \in BOOLEAN, signalled' \in BOOLEAN,
         host'.at \in {"advance", "start"} => host'.now \in Instants,
         (host.at = "create") <=> (host'.at = "create"),
         host'.at = "destroyed" => worker.at = "none",
         host'.at = "start" => fires # {},
         stopping' /\ active => host'.at \in {"join", "joinDestroy"}
  PROVE  IInv'
<1> USE DEF IInv
<1>1. (Bounds /\ Windows /\ Settled /\ NoMissedMinute)'
  BY QuietStep
<1>2. Types'
  BY DEF Types
<1>3. Reads' /\ Lifecycle'
  BY DEF Reads, Lifecycle, SingleWorker
<1> QED
  BY <1>1, <1>2, <1>3

LEMMA HostQuietSteps ==
  ASSUME IInv,
         \/ HostAdvance \/ HostStart \/ StartRefused
         \/ HostStop("join", "idle") \/ HostStop("joinDestroy", "destroyed")
         \/ Joined("join", "idle") \/ Joined("joinDestroy", "destroyed")
  PROVE  IInv'
<1> USE DEF IInv
<1>0. Instants \subseteq Nat /\ clock \in Instants
  BY ClockAssumption DEF Types, Instants
<1>a. active \in BOOLEAN /\ stopping \in BOOLEAN /\ signalled \in BOOLEAN
  BY DEF Types
<1>b. stopping /\ active => host.at \in {"join", "joinDestroy"}
  BY DEF Lifecycle
<1>c. \A l \in HostLabels, t \in Nat :
         /\ Thread(l) \in Threads(HostLabels) /\ Thread(l).at = l
         /\ [Thread(l) EXCEPT !.now = t] \in Threads(HostLabels)
         /\ [Thread(l) EXCEPT !.now = t].at = l
         /\ [Thread(l) EXCEPT !.now = t].now = t
  BY DEF Thread, Threads
<1> USE <1>a, <1>b, <1>c, HostMoves DEF HostLabels, shared
<1>1. CASE HostAdvance
  BY <1>0, <1>1 DEF HostAdvance
<1>2. CASE HostStart
  <2>1. fires # {}
    BY <1>2 DEF HostStart, CronNext, Never
  <2> QED
    BY <1>0, <1>2, <2>1 DEF HostStart
<1>3. CASE StartRefused
  BY <1>3 DEF StartRefused
<1>4. ASSUME NEW join \in {"join", "joinDestroy"}, NEW done \in {"idle", "destroyed"},
             HostStop(join, done)
      PROVE  IInv'
  <2>1. CASE ~active
    <3>1. /\ host.at = "idle" /\ host' = Thread(done)
          /\ UNCHANGED <<fires, clock, cursor, active, stopping, signalled, worker, fired, base>>
      BY <1>4, <2>1 DEF HostStop
    <3>2. worker.at = "none"
      BY <2>1 DEF Lifecycle
    <3> QED
      BY <2>1, <3>1, <3>2
  <2>2. CASE active
    <3>1. stopping' \in BOOLEAN /\ signalled' \in BOOLEAN
      BY <1>4, <2>2, Zenon DEF HostStop
    <3>2. /\ host.at = "idle" /\ host' = Thread(join)
          /\ UNCHANGED <<fires, clock, cursor, active, worker, fired, base>>
      BY <1>4, <2>2 DEF HostStop
    <3> QED
      BY <2>2, <3>1, <3>2
  <2> QED
    BY <2>1, <2>2
<1>5. ASSUME NEW join \in {"join", "joinDestroy"}, NEW done \in {"idle", "destroyed"},
             Joined(join, done)
      PROVE  IInv'
  BY <1>5 DEF Joined, Lifecycle
<1> QED
  BY <1>1, <1>2, <1>3, <1>4, <1>5

(* cmeta_thread_create: the worker begins, or thread_active is taken back.  *)
LEMMA CreateThreadStep ==
  ASSUME IInv, CreateThread
  PROVE  IInv'
<1> USE DEF IInv
<1>1. /\ UNCHANGED <<fires, clock, cursor, fired, base>>
      /\ host.at = "create" /\ host' = Thread("idle") /\ worker.at = "none"
      /\ worker' = worker \/ worker' = Thread("top")
  BY DEF CreateThread, Lifecycle, SingleWorker
<1>2. /\ active' \in BOOLEAN /\ stopping' \in BOOLEAN /\ signalled' \in BOOLEAN
      /\ active' <=> worker'.at # "none"
  <2>1. CASE worker' = Thread("top") /\ UNCHANGED active
    <3>1. active' = active
      BY <2>1
    <3>2. active' \in BOOLEAN /\ stopping' \in BOOLEAN /\ signalled' \in BOOLEAN
      BY <3>1, Zenon DEF Types, CreateThread
    <3>3. worker'.at # "none"
      BY <2>1 DEF Thread
    <3> QED
      BY <3>1, <3>2, <3>3 DEF CreateThread, Lifecycle
  <2>2. CASE active' = FALSE /\ UNCHANGED worker
    <3>1. ~active'
      BY <2>2
    <3>2. active' \in BOOLEAN /\ stopping' \in BOOLEAN /\ signalled' \in BOOLEAN
      BY <2>2, Zenon DEF Types, CreateThread
    <3> QED
      BY <3>1, <3>2, <2>2, <1>1
  <2> QED
    BY <2>1, <2>2 DEF CreateThread
<1>3. (Bounds /\ Windows /\ Settled /\ NoMissedMinute)'
  BY <1>1, QuietStep DEF Bounds, Windows, Window, Apart, Settled, NoMissedMinute, Pending, Thread
<1>4. Types'
  BY <1>1, <1>2 DEF Types, Threads, Thread, HostLabels, WorkerLabels
<1>5. Reads' /\ Lifecycle'
  <2>1. ~stopping /\ (stopping <=> stopping')
    BY <1>1 DEF Lifecycle, CreateThread
  <2> QED
    BY <1>1, <1>2, <2>1 DEF Reads, Lifecycle, SingleWorker, Thread
<1> QED
  BY <1>3, <1>4, <1>5

LEMMA StartAcceptedStep ==
  ASSUME IInv, StartAccepted
  PROVE  IInv'
<1> USE DEF IInv, StartAccepted
<1>1. /\ host.now \in Nat /\ host.now <= LastTick
      /\ cursor \in Nat /\ worker.at = "none"
  BY ClockAssumption DEF Types, Reads, Instants, Bounds, Lifecycle
<1>2. PICK f : f = FloorMinute(host.now)
  OBVIOUS
<1>3. f \in Nat /\ f % Minute = 0 /\ f <= host.now /\ cursor' = f /\ base' = f
  BY <1>1, <1>2, FloorFacts
<1>4. active' /\ ~stopping' /\ active' \in BOOLEAN /\ stopping' \in BOOLEAN /\ signalled' \in BOOLEAN
  BY Zenon DEF Types
<1>5. fires \subseteq Nat /\ fired \in [fires -> 0..2] /\ fires' = fires
  BY ScheduleAssumption DEF Types
<1>6. /\ fired' \in [fires -> 0..2]
      /\ \A m \in fires : fired'[m] > 0 => m <= f /\ fired'[m] = fired[m]
  BY <1>3, <1>5
<1>7. (Types /\ Reads /\ Lifecycle)'
  BY <1>1, <1>4, <1>5, <1>6 DEF Types, Threads, HostLabels, WorkerLabels, Thread, Reads, Lifecycle,
    SingleWorker
<1>8. Bounds'
  BY <1>1, <1>3, ClockAssumption DEF Bounds
<1>9. Windows' /\ (NoMissedMinute)'
  BY <1>1, <1>3, <1>5 DEF Windows, Window, Apart, Pending, Thread, NoMissedMinute
<1>10. Settled'
  BY <1>1, <1>3, <1>5, <1>6 DEF Settled, Pending, Thread
<1> QED
  BY <1>7, <1>8, <1>9, <1>10

LEMMA RecreateStep ==
  ASSUME IInv, Recreate
  PROVE  IInv'
<1> USE DEF IInv, Recreate
<1>1. worker.at = "none" /\ 0 % Minute = 0
  BY ClockAssumption DEF Lifecycle, SingleWorker
<1>b. ~active' /\ ~stopping' /\ active' \in BOOLEAN /\ stopping' \in BOOLEAN /\ signalled' \in BOOLEAN
  BY Zenon DEF Types
<1>2. (Types /\ Reads /\ Lifecycle)'
  BY <1>1, <1>b DEF Types, Threads, HostLabels, WorkerLabels, Thread, Reads, Lifecycle,
    SingleWorker
<1>3. Bounds'
  BY <1>1, ClockAssumption DEF Bounds
<1>4. (Windows /\ Settled /\ NoMissedMinute)'
  <2>1. \A m \in fires : m \in Nat /\ ~(m <= 0)
    BY ScheduleAssumption DEF Types
  <2> QED
    BY <1>1, <2>1 DEF Windows, Window, Apart, Pending, Thread, Settled, NoMissedMinute
<1> QED
  BY <1>2, <1>3, <1>4

(* A quiet step of the worker that does not end it. *)
LEMMA WorkerMoves ==
  ASSUME IInv, UNCHANGED <<fires, clock, cursor, fired, base, host>>,
         worker.at \notin {"none", "scan"},
         worker' \in Threads(WorkerLabels), worker'.at \notin {"none", "scan"},
         (active <=> active'), (stopping <=> stopping'),
         active' \in BOOLEAN, stopping' \in BOOLEAN, signalled' \in BOOLEAN,
         worker'.at = "advance" => worker'.now \in Instants
  PROVE  IInv'
<1> USE DEF IInv
<1>1. (Bounds /\ Windows /\ Settled /\ NoMissedMinute)'
  BY QuietStep
<1>2. Types'
  BY DEF Types
<1>3. Reads' /\ Lifecycle'
  BY DEF Reads, Lifecycle, SingleWorker
<1> QED
  BY <1>1, <1>2, <1>3

(* The worker leaves: only because a host that joins has asked it to. *)
LEMMA WorkerExitStep ==
  ASSUME IInv, worker.at \notin {"none", "scan"}, stopping, WorkerExit,
         stopping' \in BOOLEAN
  PROVE  IInv'
<1> USE DEF IInv
<1>1. ~active' /\ active' \in BOOLEAN /\ signalled' \in BOOLEAN
  BY Zenon DEF WorkerExit
<1>2. worker' \in Threads(WorkerLabels) /\ worker'.at = "none"
  BY DEF WorkerExit, Thread, Threads, WorkerLabels
<1>3. UNCHANGED <<fires, clock, cursor, fired, base, host>>
  BY DEF WorkerExit
<1>4. (Bounds /\ Windows /\ Settled /\ NoMissedMinute)'
  BY <1>2, <1>3, QuietStep
<1>5. Types'
  BY <1>1, <1>2, <1>3 DEF Types
<1>6. Reads' /\ Lifecycle'
  BY <1>1, <1>2, <1>3 DEF Reads, Lifecycle, SingleWorker
<1> QED
  BY <1>4, <1>5, <1>6

(* The worker's labels outside advance.  The expression of a runner that    *)
(* has a worker always matches again.                                       *)
LEMMA WorkerQuietSteps ==
  ASSUME IInv, WorkerTop \/ WorkerTimeout \/ WorkerWake \/ WorkerRead
  PROVE  IInv'
<1> USE DEF IInv
<1>0. clock \in Nat /\ clock \in Instants
  BY ClockAssumption DEF Types, Instants
<1>a. active \in BOOLEAN /\ stopping \in BOOLEAN /\ signalled \in BOOLEAN
  BY DEF Types
<1>c. \A l \in WorkerLabels, t \in Nat :
         /\ Thread(l) \in Threads(WorkerLabels) /\ Thread(l).at = l
         /\ [Thread(l) EXCEPT !.now = t] \in Threads(WorkerLabels)
         /\ [Thread(l) EXCEPT !.now = t].at = l
         /\ [Thread(l) EXCEPT !.now = t].now = t
  BY DEF Thread, Threads
<1>1. CASE WorkerTop
  <2>1. CronNext(clock) # Never /\ CronNext(clock) \in Nat
    BY <1>1, <1>0, CronNextEndless, CronNextFacts DEF WorkerTop, Lifecycle, Types
  <2>2. CASE stopping
    <3>1. stopping' \in BOOLEAN
      BY <1>1, <2>2, Zenon DEF WorkerTop
    <3>2. WorkerExit
      BY <1>1, <2>2 DEF WorkerTop
    <3> QED
      BY <1>1, <2>2, <3>1, <3>2, WorkerExitStep DEF WorkerTop
  <2>3. CASE ~stopping
    <3>1. worker.at = "top" /\ worker' = Thread("wait")
          /\ UNCHANGED <<shared, cursor, host, fired, base>>
      BY <1>1, <2>1, <2>3 DEF WorkerTop
    <3> QED
      BY <1>a, <1>c, <2>1, <3>1, WorkerMoves DEF shared, WorkerLabels
  <2> QED
    BY <2>2, <2>3
<1>2. CASE WorkerTimeout
  <2>1. CASE stopping
    BY <1>2, <1>a, <2>1, WorkerExitStep DEF WorkerTimeout
  <2>2. CASE ~stopping
    <3>1. worker.at = "wait" /\ worker' = Thread("read")
          /\ UNCHANGED <<shared, cursor, host, fired, base>>
      BY <1>2, <2>2 DEF WorkerTimeout
    <3> QED
      BY <1>a, <1>c, <3>1, WorkerMoves DEF shared, WorkerLabels
  <2> QED
    BY <2>1, <2>2
<1>3. CASE WorkerWake
  <2>1. CASE stopping
    BY <1>3, <1>a, <2>1, WorkerExitStep DEF WorkerWake
  <2>2. CASE ~stopping
    <3>1. signalled' \in BOOLEAN
      BY <1>3, <2>2, Zenon DEF WorkerWake
    <3>2. worker.at = "wait" /\ worker' = Thread("top")
          /\ UNCHANGED <<fires, clock, active, stopping, cursor, host, fired, base>>
      BY <1>3, <2>2 DEF WorkerWake
    <3> QED
      BY <1>a, <1>c, <3>1, <3>2, WorkerMoves DEF WorkerLabels
  <2> QED
    BY <2>1, <2>2
<1>4. CASE WorkerRead
  BY <1>4, <1>0, <1>a, <1>c, WorkerMoves DEF WorkerRead, shared, WorkerLabels
<1> QED
  BY <1>1, <1>2, <1>3, <1>4

---------------------------------------------------------------------------
(* salts_cron_runner_advance, for `me` and the `other` thread.             *)

(* The window a thread claims begins where the cursor stood, and the cursor *)
(* moves forward to its end.                                                *)
LEMMA ClaimFacts ==
  ASSUME IInv, NEW me, me.now \in Instants, AdvanceClaim(me)
  PROVE  /\ Claimed(me).at = "scan" /\ Claimed(me).now = 0
         /\ Claimed(me).check \in Int /\ Claimed(me).upto = cursor'
         /\ cursor # 0 => Claimed(me).check = cursor /\ base' = base
         /\ cursor = 0 => Claimed(me).check = base' /\ base' = cursor' - Minute
         /\ cursor' \in Nat /\ cursor <= cursor' /\ cursor' <= LastTick /\ cursor' % Minute = 0
         /\ base' \in Int /\ -Minute <= base' /\ base' <= LastTick
<1>1. me.now \in Nat /\ me.now <= LastTick /\ LastTick \in Nat
  BY ClockAssumption DEF Instants
<1>2. PICK f : f = FloorMinute(me.now)
  OBVIOUS
<1>3. f \in Nat /\ f <= me.now /\ f % Minute = 0
  BY <1>1, <1>2, FloorFacts
<1>4. /\ cursor' = f /\ ~(f < cursor)
      /\ base' = IF cursor = 0 THEN f - Minute ELSE base
  BY <1>2 DEF AdvanceClaim, AdvanceStale
<1>5. Claimed(me) = [at |-> "scan", now |-> 0, upto |-> f,
                     check |-> (IF cursor = 0 THEN f ELSE cursor + Minute) - Minute]
  BY <1>2 DEF Claimed
<1>6. cursor \in Nat /\ base \in Int /\ -Minute <= base /\ base <= LastTick /\ Minute \in Nat \ {0}
  BY ClockAssumption DEF IInv, Bounds
<1> HIDE DEF FloorMinute
<1>7. CASE cursor = 0
  BY <1>1, <1>3, <1>4, <1>5, <1>6, <1>7
<1>8. CASE cursor # 0
  BY <1>1, <1>3, <1>4, <1>5, <1>6, <1>8
<1> QED
  BY <1>7, <1>8

(* The next match is in the window: it has not fired yet, and everything    *)
(* in the window before it does not match.                                  *)
LEMMA FireFacts ==
  ASSUME IInv, NEW me, me.check \in Int, me.upto \in Nat, ScanFires(me),
         NEW n, n = CronNext(me.check)
  PROVE  /\ n \in fires /\ n \in Nat /\ me.check < n /\ n <= me.upto
         /\ Pending(me, n)
         /\ \A m \in fires : Pending(me, m) => n <= m
         /\ fired' = [fired EXCEPT ![n] = IF @ < 2 THEN @ + 1 ELSE @]
<1>1. n # Never /\ ~(n > me.upto) /\ me.at = "scan"
  BY DEF ScanFires, ScanEnds
<1>2. /\ n \in fires /\ n \in Nat /\ me.check < n
      /\ \A m \in fires : me.check < m => n <= m
  BY <1>1, CronNextFacts DEF IInv, Types
<1>3. fired' = [fired EXCEPT ![n] = IF @ < 2 THEN @ + 1 ELSE @]
  BY DEF ScanFires
<1> QED
  BY <1>1, <1>2, <1>3 DEF Pending

(* When a scan ends, nothing is left in its window. *)
LEMMA EndFacts ==
  ASSUME IInv, NEW me, me.check \in Int, me.upto \in Nat, ScanEnds(me)
  PROVE  \A m \in fires : ~Pending(me, m)
<1>1. PICK n : n = CronNext(me.check)
  OBVIOUS
<1>2. n = Never \/ n > me.upto
  BY <1>1 DEF ScanEnds
<1>3. /\ n = Never => \A m \in fires : m <= me.check
      /\ n # Never => n \in Nat /\ \A m \in fires : me.check < m => n <= m
      /\ fires \subseteq Nat
  BY <1>1, CronNextFacts DEF IInv, Types
<1> QED
  BY <1>2, <1>3 DEF Pending

LEMMA HostAdvanceStepInv ==
  ASSUME IInv, HostAdvanceStep
  PROVE  IInv'
<1> USE DEF IInv
<1>0. /\ host \in Threads(HostLabels) /\ worker \in Threads(WorkerLabels)
      /\ cursor \in Nat /\ base \in Int
      /\ fires \subseteq Nat \ {0} /\ fired \in [fires -> 0..2]
  BY ClockAssumption, ScheduleAssumption DEF Types, Bounds
<1>a. /\ host.check \in Int /\ host.upto \in Nat /\ host.now \in Nat
      /\ worker.check \in Int /\ worker.upto \in Nat
  BY <1>0 DEF Threads
<1>b. worker' = worker /\ UNCHANGED shared
  BY DEF HostAdvanceStep
<1>c. active \in BOOLEAN /\ stopping \in BOOLEAN /\ signalled \in BOOLEAN
  BY DEF Types
<1>d. Thread("idle") \in Threads(HostLabels) /\ Thread("idle").at = "idle"
  BY DEF Thread, Threads, HostLabels
<1>1. CASE AdvanceStale(host) /\ host' = Thread("idle") /\ UNCHANGED <<cursor, fired, base>>
  <2>1. host.at = "advance" /\ (stopping /\ active => host.at \in {"join", "joinDestroy"})
    BY <1>1 DEF AdvanceStale, Lifecycle
  <2> QED
    BY <1>1, <1>b, <1>c, <1>d, <2>1, HostMoves DEF shared
<1>2. CASE AdvanceClaim(host) /\ host' = Claimed(host) /\ UNCHANGED fired
  <2>1. host.at = "advance" /\ host.now \in Instants
    BY <1>2 DEF AdvanceClaim, Reads
  <2>2. /\ host'.at = "scan" /\ host'.check \in Int /\ host'.upto = cursor'
        /\ cursor # 0 => host'.check = cursor /\ base' = base
        /\ cursor = 0 => host'.check = base'
        /\ cursor' \in Nat /\ cursor <= cursor' /\ cursor' <= LastTick /\ cursor' % Minute = 0
        /\ base' \in Int /\ -Minute <= base' /\ base' <= LastTick
    BY <1>2, <2>1, ClaimFacts
  <2>3. host' \in Threads(HostLabels)
    <3>1. Claimed(host).check \in Int /\ Claimed(host).upto \in Nat
      BY <1>2, <2>2
    <3>2. Claimed(host) \in Threads({"scan"})
      BY <3>1 DEF Claimed, Threads
    <3> QED
      BY <1>2, <3>2 DEF Threads, HostLabels
  <2>4. Types'
    BY <1>2, <1>b, <2>3 DEF Types, shared
  <2>5. Bounds'
    BY <2>2 DEF Bounds
  <2>6. Reads' /\ Lifecycle'
    BY <1>b, <2>1, <2>2 DEF Reads, Lifecycle, SingleWorker, shared
  <2>7. Windows'
    BY <1>a, <1>b, <1>0, <2>2 DEF Windows, Window, Apart, Pending, shared
  <2>8. Settled'
    <3> SUFFICES ASSUME NEW m \in fires, fired[m] > 0
                 PROVE  /\ fired[m] = 1 /\ m <= cursor'
                        /\ ~Pending(host', m) /\ ~Pending(worker, m)
      BY <1>2, <1>b DEF Settled, shared, Pending
    <3>1. fired[m] = 1 /\ m <= cursor /\ m \in Nat /\ ~Pending(worker, m)
      BY <1>0 DEF Settled
    <3> QED
      BY <1>0, <2>2, <3>1 DEF Pending
  <2>9. (NoMissedMinute)'
    <3> SUFFICES ASSUME NEW m \in fires, base' < m, m <= cursor'
                 PROVE  fired[m] >= 1 \/ Pending(host', m) \/ Pending(worker, m)
      BY <1>2, <1>b DEF NoMissedMinute, shared, Pending
    <3>1. CASE cursor # 0 /\ m <= cursor
      BY <2>1, <2>2, <3>1 DEF NoMissedMinute, Pending
    <3>2. CASE cursor = 0 \/ ~(m <= cursor)
      BY <1>0, <2>2, <3>2 DEF Pending
    <3> QED
      BY <3>1, <3>2
  <2> QED
    BY <2>4, <2>5, <2>6, <2>7, <2>8, <2>9
<1>3. CASE ScanFires(host) /\ host' = Scanned(host) /\ UNCHANGED <<cursor, base>>
  <2>1. PICK n : n = CronNext(host.check)
    OBVIOUS
  <2>2. /\ n \in fires /\ n \in Nat /\ host.check < n /\ n <= host.upto
        /\ Pending(host, n) /\ (\A m \in fires : Pending(host, m) => n <= m)
        /\ fired' = [fired EXCEPT ![n] = IF @ < 2 THEN @ + 1 ELSE @]
    BY <1>3, <1>a, <2>1, FireFacts
  <2>3. host.at = "scan" /\ host' = [host EXCEPT !.check = n]
    BY <1>3, <2>1, <2>2 DEF Scanned, Pending
  <2>4. /\ host' \in Threads(HostLabels) /\ host'.at = "scan"
        /\ host'.check = n /\ host'.upto = host.upto
    BY <1>0, <2>2, <2>3 DEF Threads, HostLabels
  <2>5. fired[n] = 0 /\ fired'[n] = 1 /\ (\A m \in fires : m # n => fired'[m] = fired[m])
        /\ fired' \in [fires -> 0..2]
    <3>1. fired[n] = 0
      BY <1>0, <2>2 DEF Settled
    <3> QED
      BY <1>0, <2>2, <3>1
  <2>6. Types'
    BY <1>b, <2>4, <2>5 DEF Types, shared
  <2>7. Bounds' /\ Reads' /\ Lifecycle'
    BY <1>3, <1>b, <2>3, <2>4 DEF Bounds, Reads, Lifecycle, SingleWorker, shared
  <2>8. Windows'
    BY <1>3, <1>0, <1>a, <1>b, <2>2, <2>3, <2>4 DEF Windows, Window, Apart, Pending, shared
  <2>9. Settled'
    <3> SUFFICES ASSUME NEW m \in fires, fired'[m] > 0
                 PROVE  /\ fired'[m] = 1 /\ m <= cursor
                        /\ ~Pending(host', m) /\ ~Pending(worker, m)
      BY <1>3, <1>b DEF Settled, shared, Pending
    <3>1. CASE m = n
      <4>1. ~Pending(host', m)
        BY <1>0, <2>2, <2>4, <3>1 DEF Pending
      <4>2. ~Pending(worker, m)
        BY <1>0, <1>a, <2>2, <2>3, <3>1 DEF Pending, Windows, Apart
      <4>3. m <= cursor
        BY <1>0, <1>a, <2>2, <2>3, <3>1 DEF Windows, Window
      <4> QED
        BY <2>5, <3>1, <4>1, <4>2, <4>3
    <3>2. CASE m # n
      <4>1. fired[m] > 0 /\ fired'[m] = fired[m]
        BY <2>5, <3>2
      <4>2. fired[m] = 1 /\ m <= cursor /\ ~Pending(host, m) /\ ~Pending(worker, m)
        BY <4>1 DEF Settled
      <4>3. ~Pending(host', m)
        BY <1>0, <1>a, <2>2, <2>3, <2>4, <4>2 DEF Pending
      <4> QED
        BY <4>1, <4>2, <4>3
    <3> QED
      BY <3>1, <3>2
  <2>10. (NoMissedMinute)'
    <3> SUFFICES ASSUME NEW m \in fires, base < m, m <= cursor
                 PROVE  fired'[m] >= 1 \/ Pending(host', m) \/ Pending(worker, m)
      BY <1>3, <1>b DEF NoMissedMinute, shared, Pending
    <3>1. CASE m = n
      BY <2>5, <3>1
    <3>2. CASE m # n
      <4>1. fired'[m] >= 1 \/ Pending(host, m) \/ Pending(worker, m)
        BY <2>5, <3>2 DEF NoMissedMinute
      <4>2. Pending(host, m) => Pending(host', m)
        BY <1>0, <1>a, <2>2, <2>3, <2>4, <3>2 DEF Pending
      <4> QED
        BY <4>1, <4>2
    <3> QED
      BY <3>1, <3>2
  <2> QED
    BY <2>6, <2>7, <2>8, <2>9, <2>10
<1>4. CASE ScanEnds(host) /\ host' = Thread("idle") /\ UNCHANGED <<cursor, fired, base>>
  <2>1. \A m \in fires : ~Pending(host, m)
    BY <1>4, <1>a, EndFacts
  <2>2. host.at = "scan" /\ host' \in Threads(HostLabels) /\ host'.at = "idle"
    BY <1>4, <1>d DEF ScanEnds
  <2>3. Types'
    BY <1>4, <1>b, <2>2 DEF Types, shared
  <2>4. Bounds' /\ Reads' /\ Lifecycle'
    BY <1>4, <1>b, <2>2 DEF Bounds, Reads, Lifecycle, SingleWorker, shared
  <2>5. Windows' /\ Settled'
    BY <1>4, <1>b, <2>2 DEF Windows, Window, Apart, Settled, Pending, shared
  <2>6. (NoMissedMinute)'
    BY <1>4, <1>b, <2>1 DEF NoMissedMinute, Pending, shared
  <2> QED
    BY <2>3, <2>4, <2>5, <2>6
<1> QED
  BY <1>1, <1>2, <1>3, <1>4 DEF HostAdvanceStep

LEMMA WorkerAdvanceStepInv ==
  ASSUME IInv, WorkerAdvanceStep
  PROVE  IInv'
<1> USE DEF IInv
<1>0. /\ worker \in Threads(WorkerLabels) /\ host \in Threads(HostLabels)
      /\ cursor \in Nat /\ base \in Int
      /\ fires \subseteq Nat \ {0} /\ fired \in [fires -> 0..2]
  BY ClockAssumption, ScheduleAssumption DEF Types, Bounds
<1>a. /\ worker.check \in Int /\ worker.upto \in Nat /\ worker.now \in Nat
      /\ host.check \in Int /\ host.upto \in Nat
  BY <1>0 DEF Threads
<1>b. host' = host /\ UNCHANGED shared
  BY DEF WorkerAdvanceStep
<1>c. active \in BOOLEAN /\ stopping \in BOOLEAN /\ signalled \in BOOLEAN
  BY DEF Types
<1>d. Thread("top") \in Threads(WorkerLabels) /\ Thread("top").at = "top"
  BY DEF Thread, Threads, WorkerLabels
<1>1. CASE AdvanceStale(worker) /\ worker' = Thread("top") /\ UNCHANGED <<cursor, fired, base>>
  <2>1. worker.at = "advance" /\ (stopping /\ active => host.at \in {"join", "joinDestroy"})
    BY <1>1 DEF AdvanceStale, Lifecycle
  <2> QED
    BY <1>1, <1>b, <1>c, <1>d, <2>1, WorkerMoves DEF shared
<1>2. CASE AdvanceClaim(worker) /\ worker' = Claimed(worker) /\ UNCHANGED fired
  <2>1. worker.at = "advance" /\ worker.now \in Instants
    BY <1>2 DEF AdvanceClaim, Reads
  <2>2. /\ worker'.at = "scan" /\ worker'.check \in Int /\ worker'.upto = cursor'
        /\ cursor # 0 => worker'.check = cursor /\ base' = base
        /\ cursor = 0 => worker'.check = base'
        /\ cursor' \in Nat /\ cursor <= cursor' /\ cursor' <= LastTick /\ cursor' % Minute = 0
        /\ base' \in Int /\ -Minute <= base' /\ base' <= LastTick
    BY <1>2, <2>1, ClaimFacts
  <2>3. worker' \in Threads(WorkerLabels)
    <3>1. Claimed(worker).check \in Int /\ Claimed(worker).upto \in Nat
      BY <1>2, <2>2
    <3>2. Claimed(worker) \in Threads({"scan"})
      BY <3>1 DEF Claimed, Threads
    <3> QED
      BY <1>2, <3>2 DEF Threads, WorkerLabels
  <2>4. Types'
    BY <1>2, <1>b, <2>3 DEF Types, shared
  <2>5. Bounds'
    BY <2>2 DEF Bounds
  <2>6. Reads' /\ Lifecycle'
    BY <1>b, <2>1, <2>2 DEF Reads, Lifecycle, SingleWorker, shared
  <2>7. Windows'
    BY <1>a, <1>b, <1>0, <2>2 DEF Windows, Window, Apart, Pending, shared
  <2>8. Settled'
    <3> SUFFICES ASSUME NEW m \in fires, fired[m] > 0
                 PROVE  /\ fired[m] = 1 /\ m <= cursor'
                        /\ ~Pending(worker', m) /\ ~Pending(host, m)
      BY <1>2, <1>b DEF Settled, shared, Pending
    <3>1. fired[m] = 1 /\ m <= cursor /\ m \in Nat /\ ~Pending(host, m)
      BY <1>0 DEF Settled
    <3> QED
      BY <1>0, <2>2, <3>1 DEF Pending
  <2>9. (NoMissedMinute)'
    <3> SUFFICES ASSUME NEW m \in fires, base' < m, m <= cursor'
                 PROVE  fired[m] >= 1 \/ Pending(worker', m) \/ Pending(host, m)
      BY <1>2, <1>b DEF NoMissedMinute, shared, Pending
    <3>1. CASE cursor # 0 /\ m <= cursor
      BY <2>1, <2>2, <3>1 DEF NoMissedMinute, Pending
    <3>2. CASE cursor = 0 \/ ~(m <= cursor)
      BY <1>0, <2>2, <3>2 DEF Pending
    <3> QED
      BY <3>1, <3>2
  <2> QED
    BY <2>4, <2>5, <2>6, <2>7, <2>8, <2>9
<1>3. CASE ScanFires(worker) /\ worker' = Scanned(worker) /\ UNCHANGED <<cursor, base>>
  <2>1. PICK n : n = CronNext(worker.check)
    OBVIOUS
  <2>2. /\ n \in fires /\ n \in Nat /\ worker.check < n /\ n <= worker.upto
        /\ Pending(worker, n) /\ (\A m \in fires : Pending(worker, m) => n <= m)
        /\ fired' = [fired EXCEPT ![n] = IF @ < 2 THEN @ + 1 ELSE @]
    BY <1>3, <1>a, <2>1, FireFacts
  <2>3. worker.at = "scan" /\ worker' = [worker EXCEPT !.check = n]
    BY <1>3, <2>1, <2>2 DEF Scanned, Pending
  <2>4. /\ worker' \in Threads(WorkerLabels) /\ worker'.at = "scan"
        /\ worker'.check = n /\ worker'.upto = worker.upto
    BY <1>0, <2>2, <2>3 DEF Threads, WorkerLabels
  <2>5. fired[n] = 0 /\ fired'[n] = 1 /\ (\A m \in fires : m # n => fired'[m] = fired[m])
        /\ fired' \in [fires -> 0..2]
    <3>1. fired[n] = 0
      BY <1>0, <2>2 DEF Settled
    <3> QED
      BY <1>0, <2>2, <3>1
  <2>6. Types'
    BY <1>b, <2>4, <2>5 DEF Types, shared
  <2>7. Bounds' /\ Reads' /\ Lifecycle'
    BY <1>3, <1>b, <2>3, <2>4 DEF Bounds, Reads, Lifecycle, SingleWorker, shared
  <2>8. Windows'
    BY <1>3, <1>0, <1>a, <1>b, <2>2, <2>3, <2>4 DEF Windows, Window, Apart, Pending, shared
  <2>9. Settled'
    <3> SUFFICES ASSUME NEW m \in fires, fired'[m] > 0
                 PROVE  /\ fired'[m] = 1 /\ m <= cursor
                        /\ ~Pending(worker', m) /\ ~Pending(host, m)
      BY <1>3, <1>b DEF Settled, shared, Pending
    <3>1. CASE m = n
      <4>1. ~Pending(worker', m)
        BY <1>0, <2>2, <2>4, <3>1 DEF Pending
      <4>2. ~Pending(host, m)
        BY <1>0, <1>a, <2>2, <2>3, <3>1 DEF Pending, Windows, Apart
      <4>3. m <= cursor
        BY <1>0, <1>a, <2>2, <2>3, <3>1 DEF Windows, Window
      <4> QED
        BY <2>5, <3>1, <4>1, <4>2, <4>3
    <3>2. CASE m # n
      <4>1. fired[m] > 0 /\ fired'[m] = fired[m]
        BY <2>5, <3>2
      <4>2. fired[m] = 1 /\ m <= cursor /\ ~Pending(worker, m) /\ ~Pending(host, m)
        BY <4>1 DEF Settled
      <4>3. ~Pending(worker', m)
        BY <1>0, <1>a, <2>2, <2>3, <2>4, <4>2 DEF Pending
      <4> QED
        BY <4>1, <4>2, <4>3
    <3> QED
      BY <3>1, <3>2
  <2>10. (NoMissedMinute)'
    <3> SUFFICES ASSUME NEW m \in fires, base < m, m <= cursor
                 PROVE  fired'[m] >= 1 \/ Pending(worker', m) \/ Pending(host, m)
      BY <1>3, <1>b DEF NoMissedMinute, shared, Pending
    <3>1. CASE m = n
      BY <2>5, <3>1
    <3>2. CASE m # n
      <4>1. fired'[m] >= 1 \/ Pending(worker, m) \/ Pending(host, m)
        BY <2>5, <3>2 DEF NoMissedMinute
      <4>2. Pending(worker, m) => Pending(worker', m)
        BY <1>0, <1>a, <2>2, <2>3, <2>4, <3>2 DEF Pending
      <4> QED
        BY <4>1, <4>2
    <3> QED
      BY <3>1, <3>2
  <2> QED
    BY <2>6, <2>7, <2>8, <2>9, <2>10
<1>4. CASE ScanEnds(worker) /\ worker' = Thread("top") /\ UNCHANGED <<cursor, fired, base>>
  <2>1. \A m \in fires : ~Pending(worker, m)
    BY <1>4, <1>a, EndFacts
  <2>2. worker.at = "scan" /\ worker' \in Threads(WorkerLabels) /\ worker'.at = "top"
    BY <1>4, <1>d DEF ScanEnds
  <2>3. Types'
    BY <1>4, <1>b, <2>2 DEF Types, shared
  <2>4. Bounds' /\ Reads' /\ Lifecycle'
    BY <1>4, <1>b, <2>2 DEF Bounds, Reads, Lifecycle, SingleWorker, shared
  <2>5. Windows' /\ Settled'
    BY <1>4, <1>b, <2>2 DEF Windows, Window, Apart, Settled, Pending, shared
  <2>6. (NoMissedMinute)'
    BY <1>4, <1>b, <2>1 DEF NoMissedMinute, Pending, shared
  <2> QED
    BY <2>3, <2>4, <2>5, <2>6
<1> QED
  BY <1>1, <1>2, <1>3, <1>4 DEF WorkerAdvanceStep

---------------------------------------------------------------------------
LEMMA NextIInv == IInv /\ [Next]_vars => IInv'
<1> SUFFICES ASSUME IInv, [Next]_vars PROVE IInv'
  OBVIOUS
<1>1. CASE ClockMoves
  BY <1>1, ClockMovesStep
<1>2. CASE HostCall
  BY <1>2, HostQuietSteps, RecreateStep DEF HostCall
<1>3. CASE HostStep
  BY <1>3, HostAdvanceStepInv, HostQuietSteps, StartAcceptedStep, CreateThreadStep DEF HostStep
<1>4. CASE WorkerStep \/ WorkerTimeout \/ WorkerWake
  BY <1>4, WorkerQuietSteps, WorkerAdvanceStepInv DEF WorkerStep
<1>5. CASE UNCHANGED vars
  BY <1>5 DEF vars, IInv, Types, Bounds, Reads, Lifecycle, SingleWorker, Windows,
    Window, Apart, Settled, NoMissedMinute, Pending
<1> QED
  BY <1>1, <1>2, <1>3, <1>4, <1>5 DEF Next

(* The inductive invariant holds in every reachable state. *)
THEOREM InvariantHolds == Spec => []IInv
<1>1. Init => IInv
  BY InitIInv
<1>2. IInv /\ [Next]_vars => IInv'
  BY NextIInv
<1> QED
  BY <1>1, <1>2, PTL DEF Spec

(* Types and bounds of the runner: whoever advances, the cursor is a whole  *)
(* minute.                                                                  *)
THEOREM RunnerTypes == Spec => []TypeOK
<1>1. IInv => TypeOK
  <2> SUFFICES ASSUME IInv PROVE TypeOK
    OBVIOUS
  <2>1. cursor \in Instants /\ base \in -Minute..LastTick /\ cursor % Minute = 0
    BY ClockAssumption DEF IInv, Bounds, Instants
  <2>3. /\ ThreadOK(host, HostLabels) /\ ThreadOK(worker, WorkerLabels)
    BY DEF IInv, Types, Threads, ThreadOK
  <2>4. {active, stopping, signalled} \subseteq BOOLEAN
    BY DEF IInv, Types
  <2> QED
    BY <2>1, <2>3, <2>4 DEF IInv, Types, TypeOK, HostLabels, WorkerLabels
<1> QED
  BY <1>1, InvariantHolds, PTL

(* No instant is passed to the callback twice, unless a start in between has *)
(* set the cursor back before it: however the clock is set and whatever time *)
(* the host advances to, the windows that host and worker claim under the    *)
(* lock share no instant, and what has fired lies behind the cursor.         *)
THEOREM CallbacksFireOnce == Spec => []FiresOnce
<1>1. IInv => FiresOnce
  BY DEF IInv, Types, Settled, FiresOnce
<1> QED
  BY <1>1, InvariantHolds, PTL

(* No due instant is skipped: behind the cursor everything has fired or is  *)
(* in a window that is being scanned.                                       *)
THEOREM NothingMissed == Spec => []NoMissedMinute
<1>1. IInv => NoMissedMinute
  BY DEF IInv
<1> QED
  BY <1>1, InvariantHolds, PTL

(* start never makes a second worker, and destroy frees the runner only     *)
(* when the worker has gone.                                                *)
THEOREM OneWorker == Spec => []SingleWorker
<1>1. IInv => SingleWorker
  BY DEF IInv, Lifecycle
<1> QED
  BY <1>1, InvariantHolds, PTL

(* No advance moves the cursor back, whatever time its caller was given or   *)
(* has read and however it interleaves with the other thread's: only start,  *)
(* which sets it to the minute the clock shows, and a new runner do.         *)
THEOREM CursorForward == Spec => [][cursor <= cursor' \/ StartAccepted \/ Recreate]_vars
<1>1. IInv /\ [Next]_vars => [cursor <= cursor' \/ StartAccepted \/ Recreate]_vars
  <2> SUFFICES ASSUME IInv, Next
               PROVE  cursor <= cursor' \/ StartAccepted \/ Recreate
    OBVIOUS
  <2>0. cursor \in Nat /\ (cursor' = cursor => cursor <= cursor')
    BY DEF IInv, Bounds
  <2>1. CASE AdvanceClaim(host)
    BY <2>1, ClaimFacts, <2>0 DEF IInv, Reads, AdvanceClaim
  <2>2. CASE AdvanceClaim(worker)
    BY <2>2, ClaimFacts, <2>0 DEF IInv, Reads, AdvanceClaim
  <2>3. CASE StartAccepted \/ Recreate
    BY <2>3
  <2>4. CASE UNCHANGED cursor
    BY <2>4, <2>0
  <2> QED
    BY <2>1, <2>2, <2>3, <2>4 DEF Next, ClockMoves, HostCall, HostStep, WorkerStep, WorkerWake,
      HostAdvance, HostStart, HostStop, HostAdvanceStep, StartRefused, CreateThread, Joined,
      WorkerTop, WorkerExit, WorkerTimeout, WorkerRead, WorkerAdvanceStep
<1> QED
  BY <1>1, InvariantHolds, PTL DEF Spec

---------------------------------------------------------------------------
(* The runner implements CronDuty.                                         *)

(* What two threads still have to scan: due of CronDuty. *)
Owed(a, b) == {m \in fires : Pending(a, m) \/ Pending(b, m)}

Called == {m \in fires : fired[m] > 0}

(* The state of CronDuty. *)
LEMMA DutyMapped ==
  /\ Duty!vars = <<fires, cursor, Owed(host, worker), Called>>
  /\ Owed(host, worker) = Owed(worker, host)
BY DEF Duty!vars, Owed, Called

LEMMA InitRefines == Init => Duty!Init
<1> SUFFICES ASSUME Init PROVE Duty!Init
  OBVIOUS
<1>1. {m \in fires : Pending(host, m) \/ Pending(worker, m)} = {}
  BY DEF Init, Thread, Pending
<1>2. {m \in fires : fired[m] > 0} = {}
  BY DEF Init
<1> QED
  BY <1>1, <1>2 DEF Init, Duty!Init

(* A step that leaves cursor and callbacks alone and nobody with    *)
(* more or less to scan.                                                   *)
LEMMA Invisible ==
  ASSUME UNCHANGED <<fires, cursor, fired>>, Owed(host, worker)' = Owed(host, worker)
  PROVE  UNCHANGED Duty!vars
BY DEF Duty!vars, Owed

(* So are steps of threads that are not scanning. *)
LEMMA Unscanned ==
  ASSUME UNCHANGED <<fires, cursor, fired>>,
         host' = host \/ (host.at # "scan" /\ host'.at # "scan"),
         worker' = worker \/ (worker.at # "scan" /\ worker'.at # "scan")
  PROVE  UNCHANGED Duty!vars
<1>1. Owed(host, worker)' = Owed(host, worker)
  BY DEF Owed, Pending
<1> QED
  BY <1>1, Invisible

(* Claiming a window makes what it holds due. *)
LEMMA FollowRefines ==
  ASSUME IInv, NEW me, NEW other, me.at = "advance", me.now \in Instants,
         AdvanceClaim(me), UNCHANGED <<fires, fired>>,
         Owed(host, worker) = Owed(me, other),
         Owed(host, worker)' = Owed(Claimed(me), other)
  PROVE  Duty!Next
<1>1. PICK c : c = Claimed(me)
  OBVIOUS
<1>2. /\ c.at = "scan" /\ c.check \in Int /\ c.upto = cursor'
      /\ cursor # 0 => c.check = cursor
      /\ cursor = 0 => c.check = cursor' - Minute
      /\ cursor' \in Nat /\ cursor <= cursor' /\ cursor' % Minute = 0
  BY <1>1, ClaimFacts
<1>6. Owed(me, other) = {m \in fires : Pending(other, m)}
  BY DEF Owed, Pending
<1> DEFINE W == {m \in fires : (IF cursor = 0 THEN cursor' - Minute ELSE cursor) < m /\ m <= cursor'}
<1>7. Owed(c, other) = Owed(me, other) \cup W
  BY <1>2, <1>6 DEF Owed, Pending
<1>8. Owed(host, worker)' = Owed(host, worker) \cup W
  BY <1>1, <1>7
<1>9. Called' = Called
  BY DEF Called
<1>10. Duty!Follow
  BY <1>2, <1>8, <1>9 DEF Duty!Follow, Duty!WholeMinute, Duty!Within, Owed, Called
<1> QED
  BY <1>10 DEF Duty!Next

(* One turn of a scan makes one callback that was due. *)
LEMMA CallRefines ==
  ASSUME IInv, NEW me, NEW other, me.check \in Int, me.upto \in Nat, ScanFires(me),
         Apart(me, other),
         \A m \in fires : fired[m] > 0 => ~Pending(me, m),
         UNCHANGED <<fires, cursor>>,
         Owed(host, worker) = Owed(me, other),
         Owed(host, worker)' = Owed(Scanned(me), other)
  PROVE  Duty!Next
<1>1. PICK n : n = CronNext(me.check)
  OBVIOUS
<1>2. /\ n \in fires /\ n \in Nat /\ me.check < n /\ n <= me.upto
      /\ Pending(me, n) /\ (\A m \in fires : Pending(me, m) => n <= m)
      /\ fired' = [fired EXCEPT ![n] = IF @ < 2 THEN @ + 1 ELSE @]
  BY <1>1, FireFacts
<1>3. fires \subseteq Nat /\ fired \in [fires -> 0..2]
  BY ScheduleAssumption DEF IInv, Types
<1>4. PICK c : c = Scanned(me)
  OBVIOUS
<1>5. c.check = n /\ c.upto = me.upto /\ c.at = "scan" /\ me.at = "scan"
  BY <1>1, <1>2, <1>4 DEF Scanned, Pending
<1>6. ~Pending(other, n)
  BY <1>2 DEF Apart
<1>7. Owed(c, other) = Owed(me, other) \ {n}
  <2>1. ASSUME NEW m \in fires
        PROVE  Pending(c, m) <=> Pending(me, m) /\ m # n
    <3>1. m \in Nat /\ (me.check < m /\ m <= me.upto => n <= m)
      BY <1>2, <1>3, <1>5, <2>1 DEF Pending
    <3> QED
      BY <1>2, <1>5, <3>1 DEF Pending
  <2> QED
    BY <1>6, <2>1 DEF Owed
<1>8. n \in Owed(me, other) /\ fired[n] = 0
  BY <1>2, <1>3 DEF Owed
<1>9. Called' = Called \cup {n} /\ n \notin Called
  BY <1>2, <1>3, <1>8 DEF Called
<1>10. Owed(host, worker)' = Owed(host, worker) \ {n} /\ n \in Owed(host, worker) \ Called
  BY <1>4, <1>7, <1>8, <1>9
<1>11. Duty!Call
  BY <1>9, <1>10 DEF Duty!Call, Owed, Called
<1> QED
  BY <1>11 DEF Duty!Next

(* start finds nobody scanning, and counts anew what lies ahead. *)
LEMMA StartRefines == IInv /\ StartAccepted => Duty!Next
<1> SUFFICES ASSUME IInv, StartAccepted PROVE Duty!Start
  BY DEF Duty!Next
<1>1. /\ host.at = "start" /\ host'.at = "create" /\ worker' = worker /\ worker.at = "none"
      /\ cursor' = FloorMinute(host.now) /\ fires' = fires
      /\ fired' = [m \in fires |-> IF m > cursor' THEN 0 ELSE fired[m]]
      /\ host.now \in Instants
  BY DEF StartAccepted, Thread, IInv, Lifecycle, Reads
<1>2. cursor' \in Nat /\ cursor' % Minute = 0
  <2>1. host.now \in Nat
    BY <1>1, ClockAssumption DEF Instants
  <2> QED
    BY <1>1, <2>1, FloorFacts
<1>3. Owed(host, worker) = {} /\ Owed(host, worker)' = {}
  BY <1>1 DEF Owed, Pending
<1>4. Called' = {m \in Called : m <= cursor'}
  <2>1. fires \subseteq Nat /\ fired \in [fires -> 0..2]
    BY ScheduleAssumption DEF IInv, Types
  <2>2. \A m \in fires : fired'[m] > 0 <=> fired[m] > 0 /\ m <= cursor'
    BY <1>1, <1>2, <2>1
  <2> QED
    BY <1>1, <2>2 DEF Called
<1> QED
  BY <1>1, <1>2, <1>3, <1>4 DEF Duty!Start, Duty!WholeMinute, Owed, Called

(* Nor does the host that frees the runner. *)
LEMMA RecreateRefines == IInv /\ Recreate => Duty!Next
<1> SUFFICES ASSUME IInv, Recreate PROVE Duty!Renew
  BY DEF Duty!Next
<1>1. /\ host.at = "destroyed" /\ host'.at = "idle" /\ worker' = worker /\ worker.at = "none"
      /\ cursor' = 0 /\ fires' = fires /\ fired' = [m \in fires |-> 0]
  BY DEF Recreate, Thread, IInv, Lifecycle, SingleWorker
<1>2. Owed(host, worker) = {} /\ Owed(host, worker)' = {} /\ Called' = {}
  BY <1>1 DEF Owed, Pending, Called
<1> QED
  BY <1>1, <1>2 DEF Duty!Renew, Owed, Called

LEMMA HostAdvanceRefines ==
  ASSUME IInv, HostAdvanceStep
  PROVE  Duty!Next \/ UNCHANGED Duty!vars
<1>0. /\ host.check \in Int /\ host.upto \in Nat /\ worker.check \in Int /\ worker.upto \in Nat
      /\ worker' = worker /\ fires' = fires
  BY DEF IInv, Types, Threads, HostAdvanceStep, shared
<1>1. CASE AdvanceStale(host) /\ host' = Thread("idle") /\ UNCHANGED <<cursor, fired, base>>
  <2>1. host.at # "scan" /\ host'.at # "scan"
    BY <1>1 DEF AdvanceStale, Thread
  <2> QED
    BY <1>0, <1>1, <2>1, Unscanned
<1>2. CASE AdvanceClaim(host) /\ host' = Claimed(host) /\ UNCHANGED fired
  <2>1. host.at = "advance" /\ host.now \in Instants
    BY <1>2 DEF AdvanceClaim, IInv, Reads
  <2>2. Owed(host, worker)' = Owed(Claimed(host), worker)
    <3>1. Owed(host, worker)' = {m \in fires : Pending(host', m) \/ Pending(worker, m)}
      BY <1>0 DEF Owed, Pending
    <3> QED
      BY <1>2, <3>1 DEF Owed
  <2> QED
    BY <1>0, <1>2, <2>1, <2>2, FollowRefines
<1>3. CASE ScanFires(host) /\ host' = Scanned(host) /\ UNCHANGED <<cursor, base>>
  <2>1. Owed(host, worker)' = Owed(Scanned(host), worker)
    <3>1. Owed(host, worker)' = {m \in fires : Pending(host', m) \/ Pending(worker, m)}
      BY <1>0 DEF Owed, Pending
    <3> QED
      BY <1>3, <3>1 DEF Owed
  <2>2. Apart(host, worker) /\ \A m \in fires : fired[m] > 0 => ~Pending(host, m)
    BY DEF IInv, Windows, Settled
  <2> QED
    BY <1>0, <1>3, <2>1, <2>2, CallRefines
<1>4. CASE ScanEnds(host) /\ host' = Thread("idle") /\ UNCHANGED <<cursor, fired, base>>
  <2>1. \A m \in fires : ~Pending(host, m)
    BY <1>0, <1>4, EndFacts
  <2>2. host'.at = "idle"
    BY <1>4 DEF Thread
  <2>3. Owed(host, worker)' = Owed(host, worker)
    BY <1>0, <2>1, <2>2 DEF Owed, Pending
  <2> QED
    BY <1>0, <1>4, <2>3, Invisible
<1> QED
  BY <1>1, <1>2, <1>3, <1>4 DEF HostAdvanceStep

LEMMA WorkerAdvanceRefines ==
  ASSUME IInv, WorkerAdvanceStep
  PROVE  Duty!Next \/ UNCHANGED Duty!vars
<1>0. /\ host.check \in Int /\ host.upto \in Nat /\ worker.check \in Int /\ worker.upto \in Nat
      /\ host' = host /\ fires' = fires
  BY DEF IInv, Types, Threads, WorkerAdvanceStep, shared
<1>a. Owed(host, worker) = Owed(worker, host)
  BY DutyMapped
<1>1. CASE AdvanceStale(worker) /\ worker' = Thread("top") /\ UNCHANGED <<cursor, fired, base>>
  <2>1. worker.at # "scan" /\ worker'.at # "scan"
    BY <1>1 DEF AdvanceStale, Thread
  <2> QED
    BY <1>0, <1>1, <2>1, Unscanned
<1>2. CASE AdvanceClaim(worker) /\ worker' = Claimed(worker) /\ UNCHANGED fired
  <2>1. worker.at = "advance" /\ worker.now \in Instants
    BY <1>2 DEF AdvanceClaim, IInv, Reads
  <2>2. Owed(host, worker)' = Owed(Claimed(worker), host)
    <3>1. Owed(host, worker)' = {m \in fires : Pending(worker', m) \/ Pending(host, m)}
      BY <1>0 DEF Owed, Pending
    <3> QED
      BY <1>2, <3>1 DEF Owed
  <2> QED
    BY <1>0, <1>2, <1>a, <2>1, <2>2, FollowRefines
<1>3. CASE ScanFires(worker) /\ worker' = Scanned(worker) /\ UNCHANGED <<cursor, base>>
  <2>1. Owed(host, worker)' = Owed(Scanned(worker), host)
    <3>1. Owed(host, worker)' = {m \in fires : Pending(worker', m) \/ Pending(host, m)}
      BY <1>0 DEF Owed, Pending
    <3> QED
      BY <1>3, <3>1 DEF Owed
  <2>2. Apart(worker, host) /\ \A m \in fires : fired[m] > 0 => ~Pending(worker, m)
    BY DEF IInv, Windows, Settled, Apart
  <2> QED
    BY <1>0, <1>3, <1>a, <2>1, <2>2, CallRefines
<1>4. CASE ScanEnds(worker) /\ worker' = Thread("top") /\ UNCHANGED <<cursor, fired, base>>
  <2>1. \A m \in fires : ~Pending(worker, m)
    BY <1>0, <1>4, EndFacts
  <2>2. worker'.at = "top"
    BY <1>4 DEF Thread
  <2>3. Owed(host, worker)' = Owed(host, worker)
    BY <1>0, <2>1, <2>2 DEF Owed, Pending
  <2> QED
    BY <1>0, <1>4, <2>3, Invisible
<1> QED
  BY <1>1, <1>2, <1>3, <1>4 DEF WorkerAdvanceStep

(* Every step of the runner is a step of CronDuty or invisible. *)
LEMMA StepRefines ==
  ASSUME IInv, [Next]_vars
  PROVE  [Duty!Next]_(Duty!vars)
<1>1. CASE UNCHANGED vars \/ ClockMoves
  BY <1>1, Unscanned DEF vars, ClockMoves
<1>2. CASE HostAdvance \/ HostStart \/ HostStop("join", "idle") \/ HostStop("joinDestroy", "destroyed")
           \/ StartRefused \/ CreateThread \/ Joined("join", "idle") \/ Joined("joinDestroy", "destroyed")
  <2>1. UNCHANGED <<fires, cursor, fired>>
    BY <1>2 DEF HostAdvance, HostStart, HostStop, StartRefused, CreateThread, Joined, shared
  <2>2. host.at # "scan"
    BY <1>2 DEF HostAdvance, HostStart, HostStop, StartRefused, CreateThread, Joined
  <2>3. host'.at # "scan"
    BY <1>2 DEF HostAdvance, HostStart, HostStop, StartRefused, CreateThread, Joined, Thread
  <2>4. worker' = worker \/ (worker.at # "scan" /\ worker'.at # "scan")
    BY <1>2 DEF HostAdvance, HostStart, HostStop, StartRefused, CreateThread, Joined, Thread, IInv,
                Lifecycle, SingleWorker
  <2> QED
    BY <2>1, <2>2, <2>3, <2>4, Unscanned
<1>3. CASE WorkerTop \/ WorkerTimeout \/ WorkerWake \/ WorkerRead
  <2>1. UNCHANGED <<fires, cursor, fired, host>>
    BY <1>3 DEF WorkerTop, WorkerTimeout, WorkerWake, WorkerRead, WorkerExit, shared
  <2>2. worker.at # "scan" /\ worker'.at # "scan"
    BY <1>3 DEF WorkerTop, WorkerTimeout, WorkerWake, WorkerRead, WorkerExit, Thread
  <2> QED
    BY <2>1, <2>2, Unscanned
<1> QED
  BY <1>1, <1>2, <1>3, StartRefines, RecreateRefines, HostAdvanceRefines,
     WorkerAdvanceRefines DEF Next, HostCall, HostStep, WorkerStep

(* The runner implements CronDuty: however the clock is set, whatever time   *)
(* the host advances to, and however salts_cron_runner_advance of the host   *)
(* and of the worker, start, stop and destroy interleave, each instant       *)
(* passed becomes due once and is called back once, a start alone makes      *)
(* instants ahead of it due again, and no start or destroy drops one that is *)
(* due.                                                                      *)
THEOREM RunnerImplementsDuty == Spec => ImplementsDuty
<1>1. IInv /\ [Next]_vars => [Duty!Next]_(Duty!vars)
  BY StepRefines
<1> QED
  BY <1>1, InitRefines, InvariantHolds, PTL DEF Spec, ImplementsDuty, Duty!Spec

=============================================================================
