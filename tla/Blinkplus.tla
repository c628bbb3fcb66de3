------------------------------ MODULE Blinkplus ------------------------------
(***************************************************************************)
(* The blinkplus module (Assignment2/blinkplus.c, the branch for kernels   *)
(* from 4.14): a timer that arms itself again and queues the work that     *)
(* sets the keyboard LEDs, the ioctls that change interval and LEDs, and   *)
(* the module's set-up and clean-up.                                       *)
(*                                                                         *)
(* The timer's handler runs in softirq context, the work on a thread of    *)
(* its own queue, and an ioctl in its caller: all of them side by side.    *)
(* The module is not cleaned up while the device is open.                  *)
(***************************************************************************)
EXTENDS Integers

CONSTANTS
  Callers,    \* processes that use /dev/blinkplus
  LedArgs,    \* what they pass to SETLED
  MaxSets     \* bound: calls of SETINV and SETLED

ASSUME BoundAssumption == MaxSets \in Nat
ASSUME LedAssumption == LedArgs \subseteq Nat

VARIABLES
  mpc,         \* where set-up or clean-up of the module is
  timer,       \* "unset" (all zero), "idle" or "pending"
  hpc,         \* where my_timer_func is
  wq,          \* the work queue: "null", "live" or "destroyed"
  queued,      \* the work is on the queue
  wpc,         \* where do_work is
  kbledstatus, status,
  shown,       \* argument of the last KDSETLED
  cpc,         \* where each caller is
  sets,        \* calls of SETINV and SETLED so far
  oops,        \* what has stopped the kernel, "none" if nothing
  overlap,     \* ghost: two calls of SETINV were in progress at once
  early,       \* ghost: the set-up was overtaken by the timer or an ioctl
  overtaken    \* ghost: the clean-up did not wait for a running handler

alarm  == <<timer, hpc>>
work   == <<wq, queued, wpc>>
leds   == <<kbledstatus, status, shown>>
ioctls == <<cpc, sets>>
ghosts == <<overlap, early, overtaken>>
vars   == <<mpc, alarm, work, leds, ioctls, oops, ghosts>>

ALL_LEDS_ON  == 7
RESTORE_LEDS == 255

Setting == {"timer", "arm", "queue"}    \* the device exists already

Init ==
  /\ mpc = "device" /\ timer = "unset" /\ hpc = "idle"
  /\ wq = "null" /\ queued = FALSE /\ wpc = "idle"
  /\ kbledstatus = 0 /\ status = 0 /\ shown = RESTORE_LEDS
  /\ cpc = [c \in Callers |-> "closed"] /\ sets = 0
  /\ oops = "none" /\ overlap = FALSE /\ early = FALSE /\ overtaken = FALSE

\* add_timer refuses a timer without a function, and one that is pending.
AddTimer ==
  \/ timer = "unset"   /\ oops' = "no_function" /\ UNCHANGED timer
  \/ timer = "pending" /\ oops' = "added_twice" /\ UNCHANGED timer
  \/ timer = "idle"    /\ timer' = "pending" /\ UNCHANGED oops

-----------------------------------------------------------------------------
(* kbleds_init: the device, the timer, its first expiry, then the queue.    *)

InitDevice ==
  /\ mpc = "device"
  /\ mpc' = "timer"
  /\ UNCHANGED <<alarm, work, leds, ioctls, oops, ghosts>>

\* timer_setup
InitTimer ==
  /\ mpc = "timer"
  /\ timer' = "idle"
  /\ mpc' = "arm"
  /\ UNCHANGED <<hpc, work, leds, ioctls, oops, ghosts>>

\* mod_timer, which takes a pending timer as well.
InitArm ==
  /\ mpc = "arm"
  /\ timer' = "pending"
  /\ mpc' = "queue"
  /\ UNCHANGED <<hpc, work, leds, ioctls, oops, ghosts>>

\* create_singlethread_workqueue and INIT_WORK.
InitQueue ==
  /\ mpc = "queue"
  /\ wq' = "live"
  /\ mpc' = "loaded"
  /\ UNCHANGED <<alarm, queued, wpc, leds, ioctls, oops, ghosts>>

\* No queue: the module goes, and its timer stays.
InitQueueRefused ==
  /\ mpc = "queue"
  /\ early' = TRUE
  /\ mpc' = "unloaded"
  /\ UNCHANGED <<alarm, work, leds, ioctls, oops, overlap, overtaken>>

-----------------------------------------------------------------------------
(* kbleds_cleanup                                                          *)

\* Mutant: the timer is left to its handler.
CleanTimerForgotten ==
  /\ mpc = "loaded" /\ \A c \in Callers: cpc[c] = "closed"
  /\ mpc' = "cancel"
  /\ UNCHANGED <<alarm, work, leds, ioctls, oops, ghosts>>

\* del_timer does not wait for a handler that has begun.
CleanTimer ==
  /\ mpc = "loaded" /\ \A c \in Callers: cpc[c] = "closed"
  /\ timer' = "idle"
  /\ overtaken' = (hpc # "idle")
  /\ mpc' = "cancel"
  /\ UNCHANGED <<hpc, work, leds, ioctls, oops, overlap, early>>

\* cancel_work_sync does.
CleanWork ==
  /\ mpc = "cancel" /\ wpc = "idle"
  /\ queued' = FALSE
  /\ mpc' = "destroy"
  /\ UNCHANGED <<alarm, wq, wpc, leds, ioctls, oops, ghosts>>

\* destroy_workqueue, when what is queued again has been done; then the LEDs
\* are given back to the keyboard.
CleanQueue ==
  /\ mpc = "destroy" /\ ~queued /\ wpc = "idle"
  /\ wq' = "destroyed"
  /\ shown' = RESTORE_LEDS
  /\ mpc' = "unloaded"
  /\ UNCHANGED <<alarm, queued, wpc, kbledstatus, status, ioctls, oops, ghosts>>

-----------------------------------------------------------------------------
(* my_timer_func                                                           *)

TimerFires ==
  /\ timer = "pending" /\ hpc = "idle"
  /\ timer' = "idle"
  /\ IF mpc = "unloaded" THEN oops' = "unloaded" /\ UNCHANGED hpc
                         ELSE hpc' = "queue" /\ UNCHANGED oops
  /\ early' = (early \/ mpc \in Setting)
  /\ UNCHANGED <<mpc, work, leds, ioctls, overlap, overtaken>>

\* queue_work; the work is queued once.
TimerQueues ==
  /\ hpc = "queue"
  /\ IF wq = "live" THEN queued' = TRUE /\ UNCHANGED oops
                    ELSE oops' = "no_queue" /\ UNCHANGED queued
  /\ hpc' = "add"
  /\ UNCHANGED <<mpc, timer, wq, wpc, leds, ioctls, ghosts>>

\* Mutant: the handler leaves it to the next SETINV.
TimerAddsOnce ==
  /\ hpc = "add"
  /\ hpc' = "idle"
  /\ UNCHANGED <<mpc, timer, work, leds, ioctls, oops, ghosts>>

TimerAdds ==
  /\ hpc = "add"
  /\ AddTimer
  /\ hpc' = "idle"
  /\ UNCHANGED <<mpc, work, leds, ioctls, ghosts>>

-----------------------------------------------------------------------------
(* do_work                                                                 *)

\* Under the spin lock; & ALL_LEDS_ON keeps three bits.
WorkBegins ==
  /\ queued /\ wpc = "idle" /\ wq = "live"
  /\ queued' = FALSE
  /\ status' = IF status = ALL_LEDS_ON THEN RESTORE_LEDS ELSE kbledstatus % 8
  /\ wpc' = "show"
  /\ UNCHANGED <<mpc, alarm, wq, kbledstatus, shown, ioctls, oops, ghosts>>

\* KDSETLED, outside it.
WorkShows ==
  /\ wpc = "show"
  /\ shown' = status
  /\ wpc' = "idle"
  /\ UNCHANGED <<mpc, alarm, wq, queued, kbledstatus, status, ioctls, oops, ghosts>>

-----------------------------------------------------------------------------
(* blink_open, blink_release and blink_ioctl                                *)

Open(c) ==
  /\ cpc[c] = "closed" /\ mpc \in Setting \cup {"loaded"}
  /\ cpc' = [cpc EXCEPT ![c] = "open"]
  /\ UNCHANGED <<mpc, alarm, work, leds, sets, oops, ghosts>>

Release(c) ==
  /\ cpc[c] = "open"
  /\ cpc' = [cpc EXCEPT ![c] = "closed"]
  /\ UNCHANGED <<mpc, alarm, work, leds, sets, oops, ghosts>>

SetLed(c) ==
  /\ cpc[c] = "open" /\ sets < MaxSets
  /\ kbledstatus' \in LedArgs
  /\ sets' = sets + 1
  /\ UNCHANGED <<mpc, alarm, work, status, shown, cpc, oops, ghosts>>

SetInvCall(c) ==
  /\ cpc[c] = "open" /\ sets < MaxSets
  /\ cpc' = [cpc EXCEPT ![c] = "del"]
  /\ sets' = sets + 1
  /\ overlap' = (overlap \/ \E d \in Callers: cpc[d] \in {"del", "add"})
  /\ early' = (early \/ mpc \in Setting)
  /\ UNCHANGED <<mpc, alarm, work, leds, oops, overtaken>>

\* Mutant: del_timer, which does not wait for the handler.
SetInvDelNoSync(c) ==
  /\ cpc[c] = "del"
  /\ timer' = IF timer = "pending" THEN "idle" ELSE timer
  /\ cpc' = [cpc EXCEPT ![c] = "add"]
  /\ UNCHANGED <<mpc, hpc, work, leds, sets, oops, ghosts>>

\* del_timer_sync waits for the handler, and deletes what it has added.
SetInvDel(c) ==
  /\ cpc[c] = "del" /\ hpc = "idle"
  /\ timer' = IF timer = "pending" THEN "idle" ELSE timer
  /\ cpc' = [cpc EXCEPT ![c] = "add"]
  /\ UNCHANGED <<mpc, hpc, work, leds, sets, oops, ghosts>>

SetInvAdd(c) ==
  /\ cpc[c] = "add"
  /\ AddTimer
  /\ cpc' = [cpc EXCEPT ![c] = "open"]
  /\ UNCHANGED <<mpc, hpc, work, leds, sets, ghosts>>

\* A refused set-up can leave an open file, and the clean-up a running handler:
\* their code is gone.  A handler may also run on, from memory not yet reused.
RunsFreedCode ==
  /\ mpc = "unloaded"
  /\ hpc # "idle" \/ \E c \in Callers: cpc[c] # "closed"
  /\ oops' = "unloaded"
  /\ UNCHANGED <<mpc, alarm, work, leds, ioctls, ghosts>>

-----------------------------------------------------------------------------

Module  == \/ InitDevice \/ InitTimer \/ InitArm \/ InitQueue \/ InitQueueRefused
           \/ CleanTimer \/ CleanWork \/ CleanQueue
Handler == TimerQueues \/ TimerAdds
Worker  == WorkBegins \/ WorkShows
SetInv(c)  == SetInvDel(c) \/ SetInvAdd(c)
Caller(c)  == Open(c) \/ Release(c) \/ SetLed(c) \/ SetInvCall(c)

Next ==
  /\ oops = "none"
  /\ \/ Module \/ TimerFires \/ Handler \/ Worker \/ RunsFreedCode
     \/ \E c \in Callers: mpc # "unloaded" /\ (Caller(c) \/ SetInv(c))

Spec == Init /\ [][Next]_vars

\* A pending timer expires, its handler, the work and a call once begun run on,
\* as long as the kernel does.
Fairness ==
  /\ WF_vars(oops = "none" /\ TimerFires)
  /\ WF_vars(oops = "none" /\ Handler)
  /\ WF_vars(oops = "none" /\ Worker)
  /\ \A c \in Callers: WF_vars(oops = "none" /\ mpc # "unloaded" /\ SetInv(c))

FairSpec == Spec /\ Fairness

-----------------------------------------------------------------------------
(* Properties                                                              *)

\* Every variable has its type.
TypeOK ==
  /\ mpc \in {"device", "loaded", "cancel", "destroy", "unloaded"} \cup Setting
  /\ timer \in {"unset", "idle", "pending"}
  /\ hpc \in {"idle", "queue", "add"} /\ wpc \in {"idle", "show"}
  /\ wq \in {"null", "live", "destroyed"} /\ queued \in BOOLEAN
  /\ kbledstatus \in LedArgs \cup {0} /\ status \in 0..7 \cup {RESTORE_LEDS}
  /\ shown \in 0..7 \cup {RESTORE_LEDS}
  /\ cpc \in [Callers -> {"closed", "open", "del", "add"}] /\ sets \in 0..MaxSets
  /\ oops \in {"none", "no_function", "added_twice", "no_queue", "unloaded"}
  /\ overlap \in BOOLEAN /\ early \in BOOLEAN /\ overtaken \in BOOLEAN

\* "This version guarantees that the timer function itself is not running when
\* it returns.  This will avoid any race condition in smp environment"
\* (blinkplus.c:231-233): between handler, set-up and one SETINV at a time that
\* is so, and the timer is never added while it is pending.  Two calls of
\* SETINV may both delete it before both add it, and one made during the set-up
\* may meet its mod_timer.
AddedTwiceExplained == oops = "added_twice" => overlap \/ early

\* The timer and what it needs are there whenever it runs or is set, unless
\* the set-up had not come that far, or failed, or the clean-up passed a
\* running handler; in particular nothing of the module is left to run when it
\* is gone (blinkplus.c:319-357, 373-375).
RestExplained ==
  oops \notin {"none", "added_twice"} => early \/ overtaken

\* The LEDs are set again and again while the module is loaded.
Blinks ==
  mpc = "loaded" ~> wpc = "show" \/ mpc # "loaded" \/ oops # "none"

\* Somebody always keeps the timer going: it is pending, or its handler or a
\* SETINV is about to add it (blinkplus.c:123, 237-239).
SomebodyAdds ==
  mpc \in {"queue", "loaded"} /\ oops = "none" =>
    \/ timer = "pending" \/ hpc # "idle" \/ \E c \in Callers: cpc[c] = "add"

\* All LEDs on are taken back by the next blink, whatever SETLED asks for
\* between the two and between the lock and KDSETLED (blinkplus.c:82-93,
\* 157-164).
AllOnIsTakenBack ==
  [][wpc = "show" /\ wpc' = "idle" /\ shown = ALL_LEDS_ON
       => shown' = RESTORE_LEDS]_vars

-----------------------------------------------------------------------------
(* The inductive invariants behind these properties.                       *)

Calling(c) == cpc[c] \in {"del", "add"}

\* How far the set-up is, or the clean-up: what there is, and who may be on it.
SetUpInv ==
  /\ timer = "unset" <=> mpc \in {"device", "timer"}
  /\ mpc = "loaded" => wq = "live"
  /\ ~early => /\ mpc \in {"device"} \cup Setting => hpc = "idle"
               /\ \A c \in Callers: Calling(c) => mpc = "loaded"
  /\ mpc \in {"device", "cancel", "destroy"} \/ (mpc = "unloaded" /\ ~early) =>
       \A c \in Callers: cpc[c] = "closed"
  /\ ~early /\ ~overtaken /\ mpc \in {"cancel", "destroy", "unloaded"} =>
       timer = "idle" /\ hpc = "idle"

\* One SETINV at a time: from its del_timer_sync to its add_timer the timer and
\* its handler rest, and so does the timer while the handler runs.
AloneInv ==
  ~overlap /\ ~early =>
    /\ \A c, d \in Callers: Calling(c) /\ Calling(d) => c = d
    /\ \A c \in Callers: cpc[c] = "add" => timer = "idle" /\ hpc = "idle"
    /\ hpc # "idle" => timer = "idle"

TimerInv == TypeOK /\ SetUpInv /\ AloneInv /\ AddedTwiceExplained /\ RestExplained

\* What the keyboard shows is what was decided last, or will be.
LedInv ==
  shown = ALL_LEDS_ON => status = IF wpc = "show" THEN RESTORE_LEDS ELSE ALL_LEDS_ON

=============================================================================
