----------------------------- MODULE CronRunner -----------------------------
(***************************************************************************)
(* The background runner of cron/src/salts_cron.c: a host thread that      *)
(* creates, starts, stops, advances and destroys a runner, one call after  *)
(* the other, and the worker thread that start creates.                    *)
(*                                                                         *)
(* Each section under runner->lock is one step; what the code does outside *)
(* the lock (read time(NULL), scan for due minutes, run a callback, create *)
(* or join the thread) is a step of its own, so the wall clock and the     *)
(* other thread may move in between.  The clock may be set, back as well   *)
(* as forward, and a host may advance to any time it likes.                *)
(***************************************************************************)
EXTENDS Integers, FiniteSetsExt

CONSTANTS
  Schedules,  \* the sets of instants an expression may match
  Minute,     \* clock ticks per minute
  LastTick    \* bound on the times a clock or a caller can name

(* A schedule holds whole minutes after the epoch.  (The epoch itself is    *)
(* left out: cursor_minute = 0 also says that there is no cursor yet.)      *)
ASSUME ScheduleAssumption ==
  \A S \in Schedules : S \subseteq {t \in Nat : t > 0 /\ t % Minute = 0}

(* Calendar fields recur, so an expression that matches at all matches     *)
(* again after any time that can be named; one like `0 0 31 2 *` never      *)
(* does.                                                                   *)
ASSUME EndlessAssumption ==
  \A S \in Schedules : S # {} => \E m \in S : m > LastTick

ASSUME ClockAssumption == Minute \in Nat \ {0} /\ LastTick \in Nat

Instants == 0..LastTick

Never == 0

VARIABLES
  fires,      \* the instants runner->expr matches
  clock,      \* time(NULL)
  cursor,     \* cursor_minute, 0 until the first advance or start
  active,     \* thread_active
  stopping,   \* stop_requested
  signalled,  \* the worker's wait has been ended by a broadcast
  host,       \* what the host thread is doing, and its locals
  worker,     \* the same for the worker thread
  fired,      \* history: how often each instant was passed to the callback,
              \* since a start last set the cursor to a time before it
  base        \* history: the instant after which the runner is responsible

vars == <<fires, clock, cursor, active, stopping, signalled, host, worker, fired, base>>

(* Fault: seconds are kept. *)
WithSeconds(t) == t

(* cron_floor_minute *)
FloorMinute(t) == t - (t % Minute)

(* salts_cron_next(expr, t): the first match strictly after t, Never when  *)
(* it reports an error.                                                    *)
CronNext(t) ==
  LET later == {m \in fires : m > t}
  IN  IF later = {} THEN Never ELSE Min(later)

(* A thread: its label, the time it has read or was given, and the window  *)
(* (check, upto] it still has to scan.                                     *)
Thread(label) == [at |-> label, now |-> 0, check |-> 0, upto |-> 0]

Init ==
  /\ fires \in Schedules
  /\ clock \in Instants
  /\ cursor = 0 /\ active = FALSE /\ stopping = FALSE /\ signalled = FALSE
  /\ host = Thread("idle") /\ worker = Thread("none")
  /\ fired = [m \in fires |-> 0]
  /\ base = 0

(* Time passes, or the clock is set. *)
ClockMoves ==
  /\ clock' \in Instants \ {clock}
  /\ UNCHANGED <<fires, cursor, active, stopping, signalled, host, worker, fired, base>>

---------------------------------------------------------------------------
(* salts_cron_runner_advance, by either thread.  `me` is the caller's      *)
(* state, `done` what it is once the call has returned.                    *)

(* Fault: only the current minute is looked at. *)
ClaimedCurrent(me) ==
  [at |-> "scan", now |-> 0, upto |-> FloorMinute(me.now),
   check |-> FloorMinute(me.now) - Minute]

(* The window is claimed under the lock: (check, upto]. *)
Claimed(me) ==
  [at |-> "scan", now |-> 0, upto |-> FloorMinute(me.now),
   check |-> (IF cursor = 0 THEN FloorMinute(me.now) ELSE cursor + Minute) - Minute]

(* Fault: the cursor may move back. *)
AdvanceNeverStale(me) == FALSE

AdvanceStale(me) == me.at = "advance" /\ FloorMinute(me.now) < cursor

AdvanceClaim(me) ==
  /\ me.at = "advance" /\ ~AdvanceStale(me)
  /\ cursor' = FloorMinute(me.now)
  /\ base' = IF cursor = 0 THEN FloorMinute(me.now) - Minute ELSE base

(* The scan ends at the first match beyond the window. *)
ScanEnds(me) ==
  me.at = "scan" /\ (CronNext(me.check) = Never \/ CronNext(me.check) > me.upto)

(* callback(expr, next_fire); counted up to 2, more than once is all that  *)
(* matters.                                                                *)
ScanFires(me) ==
  /\ me.at = "scan" /\ ~ScanEnds(me)
  /\ fired' = [fired EXCEPT ![CronNext(me.check)] = IF @ < 2 THEN @ + 1 ELSE @]

Scanned(me) == [me EXCEPT !.check = CronNext(me.check)]

shared == <<fires, clock, active, stopping, signalled>>

---------------------------------------------------------------------------
(* The host thread.                                                        *)

(* salts_cron_runner_advance(runner, now) for any now: what the clock said *)
(* a while ago, what it says, or a time of the host's choosing.            *)
HostAdvance ==
  /\ host.at = "idle"
  /\ \E t \in Instants : host' = [Thread("advance") EXCEPT !.now = t]
  /\ UNCHANGED <<shared, cursor, worker, fired, base>>

HostAdvanceStep ==
  /\ \/ AdvanceStale(host) /\ host' = Thread("idle") /\ UNCHANGED <<cursor, fired, base>>
     \/ AdvanceClaim(host) /\ host' = Claimed(host) /\ UNCHANGED fired
     \/ ScanFires(host) /\ host' = Scanned(host) /\ UNCHANGED <<cursor, base>>
     \/ ScanEnds(host) /\ host' = Thread("idle") /\ UNCHANGED <<cursor, fired, base>>
  /\ UNCHANGED <<shared, worker>>

(* salts_cron_runner_start: the clock is read and the expression tried     *)
(* before the lock is taken.                                               *)
HostStart ==
  /\ host.at = "idle" /\ CronNext(clock) # Never
  /\ host' = [Thread("start") EXCEPT !.now = clock]
  /\ UNCHANGED <<shared, cursor, worker, fired, base>>

StartRefused ==
  /\ host.at = "start" /\ active
  /\ host' = Thread("idle")
  /\ UNCHANGED <<shared, cursor, worker, fired, base>>

(* The cursor is set to the minute the clock showed, forward or back. *)
StartAccepted ==
  /\ host.at = "start" /\ ~active
  /\ stopping' = FALSE /\ active' = TRUE
  /\ cursor' = FloorMinute(host.now)
  /\ base' = cursor'
  /\ fired' = [m \in fires |-> IF m > cursor' THEN 0 ELSE fired[m]]
  /\ host' = Thread("create")
  /\ UNCHANGED <<fires, clock, signalled, worker>>

(* cmeta_thread_create, which may fail. *)
CreateThread ==
  /\ host.at = "create"
  /\ \/ worker' = Thread("top") /\ UNCHANGED active
     \/ active' = FALSE /\ UNCHANGED worker
  /\ host' = Thread("idle")
  /\ UNCHANGED <<fires, clock, cursor, stopping, signalled, fired, base>>

(* Fault: stop does not join. *)
HostStopNoJoin(join, done) ==
  /\ host.at = "idle"
  /\ host' = Thread(done)
  /\ stopping' = (stopping \/ active)
  /\ signalled' = (signalled \/ worker.at = "wait")
  /\ UNCHANGED <<fires, clock, cursor, active, worker, fired, base>>

(* Fault: stop does not wake the worker. *)
HostStopSilent(join, done) ==
  /\ host.at = "idle"
  /\ \/ ~active /\ host' = Thread(done) /\ UNCHANGED stopping
     \/ active /\ stopping' = TRUE /\ host' = Thread(join)
  /\ UNCHANGED <<fires, clock, cursor, active, signalled, worker, fired, base>>

(* salts_cron_runner_stop, on its own or as the first part of destroy.     *)
(* The broadcast ends a wait that is in progress and is lost otherwise.    *)
HostStop(join, done) ==
  /\ host.at = "idle"
  /\ \/ ~active /\ host' = Thread(done) /\ UNCHANGED <<stopping, signalled>>
     \/ /\ active
        /\ stopping' = TRUE
        /\ signalled' = (signalled \/ worker.at = "wait")
        /\ host' = Thread(join)
  /\ UNCHANGED <<fires, clock, cursor, active, worker, fired, base>>

(* cmeta_thread_join *)
Joined(join, done) ==
  /\ host.at = join /\ worker.at = "none"
  /\ host' = Thread(done)
  /\ UNCHANGED <<shared, cursor, worker, fired, base>>

(* salts_cron_runner_destroy frees the runner; the host makes a new one. *)
Recreate ==
  /\ host.at = "destroyed"
  /\ host' = Thread("idle")
  /\ cursor' = 0 /\ active' = FALSE /\ stopping' = FALSE
  /\ fired' = [m \in fires |-> 0]
  /\ base' = 0
  /\ UNCHANGED <<fires, clock, signalled, worker>>

---------------------------------------------------------------------------
(* salts_cron_runner_thread                                                *)

(* thread_active = 0, broadcast, unlock, return *)
WorkerExit ==
  /\ active' = FALSE
  /\ worker' = Thread("none")
  /\ signalled' = FALSE
  /\ UNCHANGED <<fires, clock, cursor, host, fired, base>>

(* Under the lock: leave when asked to or when nothing will ever fire,     *)
(* else wait for as long as it is to the next match, as seen from now.     *)
WorkerTop ==
  /\ worker.at = "top"
  /\ \/ (stopping \/ CronNext(clock) = Never)
        /\ stopping' = TRUE
        /\ WorkerExit
     \/ /\ ~stopping /\ CronNext(clock) # Never
        /\ worker' = Thread("wait")
        /\ UNCHANGED <<shared, cursor, host, fired, base>>

(* cmeta_cond_timedwait has timed out: its duration has passed, which says  *)
(* nothing of a clock that may have been set since.                         *)
WorkerTimeout ==
  /\ worker.at = "wait"
  /\ \/ stopping /\ WorkerExit /\ UNCHANGED stopping
     \/ /\ ~stopping
        /\ worker' = Thread("read")
        /\ UNCHANGED <<shared, cursor, host, fired, base>>

(* It has been woken: by a broadcast, or for no reason at all. *)
WorkerWake ==
  /\ worker.at = "wait"
  /\ \/ stopping /\ WorkerExit /\ UNCHANGED stopping
     \/ /\ ~stopping
        /\ worker' = Thread("top")
        /\ signalled' = FALSE
        /\ UNCHANGED <<fires, clock, active, stopping, cursor, host, fired, base>>

(* time(NULL), outside the lock. *)
WorkerRead ==
  /\ worker.at = "read"
  /\ worker' = [Thread("advance") EXCEPT !.now = clock]
  /\ UNCHANGED <<shared, cursor, host, fired, base>>

WorkerAdvanceStep ==
  /\ \/ AdvanceStale(worker) /\ worker' = Thread("top") /\ UNCHANGED <<cursor, fired, base>>
     \/ AdvanceClaim(worker) /\ worker' = Claimed(worker) /\ UNCHANGED fired
     \/ ScanFires(worker) /\ worker' = Scanned(worker) /\ UNCHANGED <<cursor, base>>
     \/ ScanEnds(worker) /\ worker' = Thread("top") /\ UNCHANGED <<cursor, fired, base>>
  /\ UNCHANGED <<shared, host>>

---------------------------------------------------------------------------
HostCall ==
  \/ HostAdvance \/ HostStart
  \/ HostStop("join", "idle") \/ HostStop("joinDestroy", "destroyed")
  \/ Recreate

HostStep ==
  \/ HostAdvanceStep
  \/ StartRefused \/ StartAccepted \/ CreateThread
  \/ Joined("join", "idle") \/ Joined("joinDestroy", "destroyed")

WorkerStep == WorkerTop \/ WorkerRead \/ WorkerAdvanceStep

Next == ClockMoves \/ HostCall \/ HostStep \/ WorkerStep \/ WorkerTimeout \/ WorkerWake

(* A thread that can run is scheduled, a signalled wait ends, and callbacks *)
(* return.  Neither time nor timeouts nor spurious wakeups nor the host's   *)
(* calls are assumed to come.                                               *)
Spec ==
  /\ Init /\ [][Next]_vars
  /\ WF_vars(HostStep) /\ WF_vars(WorkerStep) /\ WF_vars(signalled /\ WorkerWake)

---------------------------------------------------------------------------
(* Properties.                                                             *)

ThreadOK(th, labels) == th.at \in labels /\ {th.now, th.upto} \subseteq Nat /\ th.check \in Int

(* Types and bounds: the cursor is a whole minute that somebody named. *)
TypeOK ==
  /\ fires \in Schedules
  /\ clock \in Instants
  /\ cursor \in Instants /\ base \in -Minute..LastTick
  /\ cursor % Minute = 0
  /\ {active, stopping, signalled} \subseteq BOOLEAN
  /\ ThreadOK(host, {"idle", "advance", "scan", "start", "create", "join",
                     "joinDestroy", "destroyed"})
  /\ ThreadOK(worker, {"none", "top", "wait", "read", "advance", "scan"})
  /\ fired \in [fires -> 0..2]

(* Only a start that sets the cursor back before an instant can make it     *)
(* fire a second time: between two such starts no instant is passed to the  *)
(* callback twice, although the clock may be set back, the host may advance *)
(* to any time, and host and worker may advance at once (README.md:174:     *)
(* "fires every due callback exactly once").                                *)
FiresOnce == \A m \in fires : fired[m] <= 1

Pending(th, m) == th.at = "scan" /\ th.check < m /\ m <= th.upto

(* No due instant is skipped: what lies behind the cursor, since the runner *)
(* became responsible, has fired or is in the window some thread is         *)
(* scanning; the cursor moves before the callbacks run.                     *)
NoMissedMinute ==
  \A m \in fires : base < m /\ m <= cursor =>
    fired[m] >= 1 \/ Pending(host, m) \/ Pending(worker, m)

(* There is never a second worker thread, and a runner is freed only once   *)
(* its worker has gone: start refuses while thread_active, stop and destroy *)
(* join.                                                                    *)
SingleWorker == host.at \in {"create", "destroyed"} => worker.at = "none"

(* stop and destroy return: the request cannot be missed by a worker about  *)
(* to wait, and the broadcast ends a wait however long.                     *)
StopReturns == host.at \in {"join", "joinDestroy"} ~> host.at \notin {"join", "joinDestroy"}

(* Every step of host and worker follows a clock, makes one callback that  *)
(* is due, or changes nothing the promise speaks of: the runner implements  *)
(* CronDuty.                                                                *)
Duty ==
  INSTANCE CronDuty WITH
    upto <- cursor,
    due <- {m \in fires : Pending(host, m) \/ Pending(worker, m)},
    called <- {m \in fires : fired[m] > 0}

ImplementsDuty == Duty!Spec

=============================================================================
